----------------------------- MODULE PortInit ------------------------------
(***************************************************************************)
(* The start of each program, up to its packet loop: the checks at the top *)
(* of main, each of which ends the process with rte_exit, and init_port,   *)
(* which returns at its first failing call.  main prints "port init error!"*)
(* when init_port failed and goes on to the packet loop all the same.      *)
(*                                                                         *)
(* The three copies of init_port differ only in rx_rings and tx_rings.     *)
(***************************************************************************)
EXTENDS Integers

CONSTANTS
  RxRings,   \* rx_rings: Rx queues that init_port sets up
  TxRings    \* tx_rings: Tx queues that init_port sets up

ASSUME PortAssumption ==
  /\ RxRings \in Nat \ {0}
  /\ TxRings \in Nat \ {0}

VARIABLES
  stage,     \* where the main thread is
  dev,       \* the Ethernet port, as far as init_port has brought it
  ret        \* what init_port returned to main

bootVars == <<stage, dev, ret>>

BootStage == {"eal", "args", "ports", "pool", "valid", "info", "configure",
              "adjust", "rxq", "txq", "start", "mac", "promisc"}

Device == [configured : BOOLEAN, rxq : 0 .. RxRings, txq : 0 .. TxRings,
           started : BOOLEAN, promisc : BOOLEAN]

BootInit ==
  /\ stage = "eal"
  /\ dev = [configured |-> FALSE, rxq |-> 0, txq |-> 0,
            started |-> FALSE, promisc |-> FALSE]
  /\ ret = "none"

\* A check of main: on failure rte_exit ends the process.
Require(here, there) ==
  /\ stage = here
  /\ stage' \in {there, "exit"}
  /\ UNCHANGED <<dev, ret>>

\* A call of init_port that succeeds and leaves the port in state d.
Succeed(here, there, d) ==
  /\ stage = here
  /\ stage' = there
  /\ dev' = d
  /\ UNCHANGED ret

\* A call of init_port that fails: init_port returns, main carries on.
Fail(here) ==
  /\ stage = here
  /\ stage' = "launch"
  /\ ret' = "error"
  /\ UNCHANGED dev

Call(here, there, d) == Succeed(here, there, d) \/ Fail(here)

-----------------------------------------------------------------------------
EalInit    == Require("eal", "args")
ParseArgs  == Require("args", "ports")
CountPorts == Require("ports", "pool")
CreatePool == Require("pool", "valid")

IsValidPort == Call("valid", "info", dev)
InfoGet     == Call("info", "configure", dev)
Configure   == Call("configure", "adjust", [dev EXCEPT !.configured = TRUE])
AdjustDesc  == Call("adjust", "rxq", dev)

RxQueueSetup ==
  Call("rxq", IF dev.rxq + 1 < RxRings THEN "rxq" ELSE "txq",
       [dev EXCEPT !.rxq = @ + 1])

TxQueueSetup ==
  Call("txq", IF dev.txq + 1 < TxRings THEN "txq" ELSE "start",
       [dev EXCEPT !.txq = @ + 1])

\* On success the driver has filled the Rx rings: the program adds that part.
DevStart == Succeed("start", "mac", [dev EXCEPT !.started = TRUE])
DevStartFails == Fail("start")

MacaddrGet == Call("mac", "promisc", dev)

PromiscuousEnable ==
  \/ /\ stage = "promisc"
     /\ stage' = "launch"
     /\ dev' = [dev EXCEPT !.promisc = TRUE]
     /\ ret' = "ok"
  \/ Fail("promisc")

\* The steps that touch nothing but the port (starting it also uses the pool).
BootStep ==
  \/ EalInit \/ ParseArgs \/ CountPorts \/ CreatePool
  \/ IsValidPort \/ InfoGet \/ Configure \/ AdjustDesc
  \/ RxQueueSetup \/ TxQueueSetup
  \/ MacaddrGet \/ PromiscuousEnable
=============================================================================
