----------------------------- MODULE PortProofs -----------------------------
(***************************************************************************)
(* What the proofs of the three programs share: what the start of each     *)
(* keeps true, whichever of its calls fails, and how counters wrap.        *)
(***************************************************************************)
EXTENDS PortInit, TLAPS

\* init_port has set up fewer queues than it wants while it is in a loop.
BeforeQueues == {"eal", "args", "ports", "pool", "valid", "info", "configure",
                 "adjust"}
PortShape ==
  /\ stage \in BeforeQueues => dev.rxq = 0
  /\ stage \in BeforeQueues \cup {"rxq"} => dev.txq = 0
  /\ stage = "rxq" => dev.rxq < RxRings
  /\ stage = "txq" => dev.txq < TxRings

\* A step of the start of the program.
LEMMA BootType ==
  ASSUME dev \in Device, ret \in {"none", "ok", "error"}, PortShape,
         BootStep \/ DevStart \/ DevStartFails
  PROVE  /\ stage \in BootStage
         /\ stage' \in BootStage \cup {"launch", "exit"}
         /\ dev' \in Device
         /\ ret' \in {"none", "ok", "error"}
         /\ PortShape'
<1> USE DEF Call, Succeed, Fail, Require, BootStage, PortShape, BeforeQueues
<1>1. TxRings \in Nat \ {0} /\ RxRings \in Nat \ {0}
      BY PortAssumption
<1>2. CASE EalInit \/ ParseArgs \/ CountPorts \/ CreatePool
      BY <1>1, <1>2 DEF EalInit, ParseArgs, CountPorts, CreatePool
<1>3. CASE IsValidPort \/ InfoGet \/ AdjustDesc \/ MacaddrGet
      BY <1>1, <1>3 DEF IsValidPort, InfoGet, AdjustDesc, MacaddrGet
<1>4. CASE Configure
      BY <1>1, <1>4 DEF Configure, Device
<1>5. CASE RxQueueSetup
      BY <1>1, <1>5 DEF RxQueueSetup, Device
<1>6. CASE TxQueueSetup
      BY <1>1, <1>6 DEF TxQueueSetup, Device
<1>7. CASE PromiscuousEnable
      BY <1>1, <1>7 DEF PromiscuousEnable, Device
<1>8. CASE DevStart
      BY <1>1, <1>8 DEF DevStart, Device
<1>9. CASE DevStartFails
      BY <1>1, <1>9 DEF DevStartFails
<1> QED BY <1>2, <1>3, <1>4, <1>5, <1>6, <1>7, <1>8, <1>9 DEF BootStep

-----------------------------------------------------------------------------
(***************************************************************************)
(* Arithmetic of the unsigned counters.                                    *)
(***************************************************************************)

\* A remainder determines itself: two representations of a number agree.
LEMMA Residue ==
  ASSUME NEW M \in Nat \ {0}, NEW k \in Int, NEW l \in Int,
         NEW u \in 0 .. (M - 1), NEW v \in 0 .. (M - 1), k * M + u = l * M + v
  PROVE  u = v
<1>1. (k - l) * M = v - u
      OBVIOUS
<1>2. CASE k - l >= 1
  <2>1. (k - l) * M >= M
        BY <1>2
  <2> QED BY <1>1, <2>1
<1>3. CASE k - l <= -1
  <2>1. (k - l) * M <= -M
        BY <1>3
  <2> QED BY <1>1, <2>1
<1>4. CASE k = l
      BY <1>1, <1>4
<1> QED BY <1>2, <1>3, <1>4

\* Every number is a multiple of M and a remainder.
LEMMA Quotient ==
  ASSUME NEW M \in Nat \ {0}, NEW a \in Nat
  PROVE  \E k \in Int : a = k * M + (a % M) /\ a % M \in 0 .. (M - 1)
<1>1. a = (a \div M) * M + (a % M)
      OBVIOUS
<1>2. a % M \in 0 .. (M - 1) /\ a \div M \in Int
      OBVIOUS
<1> QED BY <1>1, <1>2

\* A counter that has wrapped goes on as if it had not.
LEMMA ModAdd ==
  ASSUME NEW M \in Nat \ {0}, NEW a \in Nat, NEW b \in Nat
  PROVE  ((a % M) + b) % M = (a + b) % M
<1>1. PICK k \in Int : a = k * M + (a % M) /\ a % M \in 0 .. (M - 1)
      BY Quotient
<1> DEFINE x == (a % M) + b
           y == a + b
<1>2. x \in Nat /\ y \in Nat
      BY <1>1
<1>3. PICK l \in Int : x = l * M + (x % M) /\ x % M \in 0 .. (M - 1)
      BY <1>2, Quotient
<1>4. PICK j \in Int : y = j * M + (y % M) /\ y % M \in 0 .. (M - 1)
      BY <1>2, Quotient
<1> HIDE DEF x, y
<1>5. y = k * M + x
      BY <1>1 DEF x, y
<1> DEFINE u == x % M
           v == y % M
           h == k + l
<1>6. h * M + u = j * M + v
  <2>1. h * M = k * M + l * M
        OBVIOUS
  <2> QED BY <1>2, <1>3, <1>4, <1>5, <2>1
<1>7. h \in Int /\ u \in 0 .. (M - 1) /\ v \in 0 .. (M - 1)
      BY <1>3, <1>4
<1> HIDE DEF u, v, h
<1>8. u = v
      BY <1>6, <1>7, Residue
<1> QED BY <1>8 DEF u, v, x, y
=============================================================================
