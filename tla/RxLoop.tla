------------------------------- MODULE RxLoop -------------------------------
(***************************************************************************)
(* What the two receivers, packet_recv (main_pkt_recv.cpp) and main        *)
(* (main.cpp), have in common: one thread starts the port and then polls   *)
(* its Rx queues in turn for ever; of each queue it takes a burst, handles *)
(* the packets of the burst one by one and frees each when it is done.     *)
(* What handling means is left to the modules PacketRecv and VoteRecv,     *)
(* which conjoin it to NextPacket.                                         *)
(*                                                                         *)
(* Only this thread uses the pool, so the pool is a set: an allocation     *)
(* fails when it is empty.  The NIC and its driver are external.           *)
(***************************************************************************)
EXTENDS PortInit, Sequences, FiniteSets

CONSTANTS
  Mbufs,          \* the objects of the pool
  BURST_SIZE,
  RX_RING_SIZE    \* descriptors of an Rx queue

ASSUME RxAssumption ==
  /\ IsFiniteSet(Mbufs)
  /\ BURST_SIZE \in Nat \ {0}
  /\ RX_RING_SIZE \in Nat \ {0}

\* num_rx_queues, the queues that are polled, equals rx_rings in both programs.
RxQueues == 0 .. (RxRings - 1)

VARIABLES
  pool,     \* free mbufs
  posted,   \* posted[q]: mbufs in empty Rx descriptors of queue q
  filled,   \* filled[q]: mbufs with a received frame, in order of arrival
  data,     \* data[m]: the bytes in mbuf m
  r,        \* the queue to poll, or whose burst is being handled
  mbufs     \* the part of the burst that has not been handled

rxVars == <<pool, posted, filled, data, r, mbufs>>

RxInit(nothing) ==
  /\ pool = Mbufs
  /\ posted = [q \in RxQueues |-> {}]
  /\ filled = [q \in RxQueues |-> <<>>]
  /\ data = [m \in Mbufs |-> nothing]
  /\ r = 0
  /\ mbufs = <<>>

\* The positions in all the sequences of f, one for each queue, and their number.
Positions(f) == UNION {{q} \X (1 .. Len(f[q])) : q \in RxQueues}
Count(f) == Cardinality(Positions(f))

-----------------------------------------------------------------------------
\* rte_eth_dev_start: the driver posts an mbuf on every Rx descriptor.
StartPort ==
  /\ DevStart
  /\ posted' \in [RxQueues -> SUBSET pool]
  /\ \A q \in RxQueues : Cardinality(posted'[q]) = RX_RING_SIZE
  /\ \A p, q \in RxQueues : p # q => posted'[p] \cap posted'[q] = {}
  /\ pool' = pool \ UNION {posted'[q] : q \in RxQueues}
  /\ UNCHANGED <<filled, data, r, mbufs>>

StartPortFails == DevStartFails /\ UNCHANGED rxVars

\* main enters its packet loop, whatever init_port has returned.
EnterLoop ==
  /\ stage = "launch"
  /\ stage' = "run"
  /\ UNCHANGED <<dev, ret, rxVars>>

\* The process has ended.
Ended == stage \in {"exit", "crash"}

(***************************************************************************)
(* The NIC stores a frame d in a descriptor of queue q.  Which frames the  *)
(* address filter of the port lets in is left open: in promiscuous mode    *)
(* all of them, and on a port that was started before init_port failed     *)
(* still broadcasts and frames for its own address.  A frame that finds no *)
(* empty descriptor is not accepted.                                       *)
(***************************************************************************)
NicReceive(q, d) ==
  /\ dev.started /\ ~Ended
  /\ \E m \in posted[q] :
        /\ posted' = [posted EXCEPT ![q] = @ \ {m}]
        /\ filled' = [filled EXCEPT ![q] = Append(@, m)]
        /\ data' = [data EXCEPT ![m] = d]
  /\ UNCHANGED <<bootVars, pool, r, mbufs>>

-----------------------------------------------------------------------------
\* Mutant: the loop over the queues runs one queue too far.
NextQueueTooFar == (r + 1) % (RxRings + 1)

NextQueue == (r + 1) % RxRings

Smaller(a, b) == IF a < b THEN a ELSE b

\* Mutant: the loop over the burst starts at 1.
PollSkipsFirst ==
  LET n == Smaller(Smaller(BURST_SIZE, Len(filled[r])), Cardinality(pool))
  IN  /\ stage = "run" /\ mbufs = <<>> /\ n > 0
      /\ \E new \in SUBSET pool :
            /\ Cardinality(new) = n
            /\ pool' = pool \ new
            /\ posted' = [posted EXCEPT ![r] = @ \cup new]
      /\ filled' = [filled EXCEPT ![r] = SubSeq(@, n + 1, Len(@))]
      /\ mbufs' = SubSeq(filled[r], 2, n)
      /\ r' = IF n = 1 THEN NextQueue ELSE r
      /\ UNCHANGED <<bootVars, data>>

(***************************************************************************)
(* rte_eth_rx_burst returns packets.  The driver replenishes a descriptor  *)
(* with a new mbuf for every packet it hands over, and hands over none it  *)
(* cannot replace; it never returns more than BURST_SIZE, so the rte_exit  *)
(* that guards against it is not modelled.                                 *)
(***************************************************************************)
Poll ==
  LET n == Smaller(Smaller(BURST_SIZE, Len(filled[r])), Cardinality(pool))
  IN  /\ stage = "run" /\ mbufs = <<>> /\ n > 0
      /\ \E new \in SUBSET pool :
            /\ Cardinality(new) = n
            /\ pool' = pool \ new
            /\ posted' = [posted EXCEPT ![r] = @ \cup new]
      /\ filled' = [filled EXCEPT ![r] = SubSeq(@, n + 1, Len(@))]
      /\ mbufs' = SubSeq(filled[r], 1, n)
      /\ UNCHANGED <<bootVars, data, r>>

\* Mutant: an empty queue ends the round, and the next begins at queue 0.
PollEmptyRestarts ==
  /\ stage = "run" /\ mbufs = <<>>
  /\ filled[r] = <<>> \/ pool = {}
  /\ r' = 0
  /\ UNCHANGED <<bootVars, pool, posted, filled, data, mbufs>>

\* It returns 0, as it always does on a port that is not started.
PollEmpty ==
  /\ stage = "run" /\ mbufs = <<>>
  /\ filled[r] = <<>> \/ pool = {}
  /\ r' = NextQueue
  /\ UNCHANGED <<bootVars, pool, posted, filled, data, mbufs>>

\* Mutant: what is freed is the last packet of the burst.
NextPacketFreesLast ==
  /\ pool' = pool \cup {mbufs[Len(mbufs)]}
  /\ mbufs' = Tail(mbufs)
  /\ r' = IF Len(mbufs) = 1 THEN NextQueue ELSE r
  /\ UNCHANGED <<posted, filled>>

\* Mutant: packets are not freed.
NextPacketNoFree ==
  /\ mbufs' = Tail(mbufs)
  /\ r' = IF Len(mbufs) = 1 THEN NextQueue ELSE r
  /\ UNCHANGED <<pool, posted, filled>>

\* The end of the loop body: the packet is freed, and the loop goes on to the
\* next packet or, after the last one, to the next queue.
NextPacket ==
  /\ pool' = pool \cup {Head(mbufs)}
  /\ mbufs' = Tail(mbufs)
  /\ r' = IF Len(mbufs) = 1 THEN NextQueue ELSE r
  /\ UNCHANGED <<posted, filled>>

-----------------------------------------------------------------------------
(***************************************************************************)
(* Properties of the loop.                                                 *)
(***************************************************************************)

Elems(s) == {s[k] : k \in 1 .. Len(s)}

RxTypeOK ==
  /\ stage \in BootStage \cup {"launch", "run", "exit", "crash"}
  /\ dev \in Device
  /\ ret \in {"none", "ok", "error"}
  /\ pool \subseteq Mbufs
  /\ posted \in [RxQueues -> SUBSET Mbufs]
  /\ filled \in [RxQueues -> Seq(Mbufs)]
  /\ r \in RxQueues
  /\ mbufs \in Seq(Mbufs)
  /\ Len(mbufs) <= BURST_SIZE

(***************************************************************************)
(* Every mbuf is in exactly one place: the pool, a descriptor of one       *)
(* queue, or the burst being handled.  It is about the free at the end of  *)
(* the loop body, which frees every packet of every burst once.            *)
(***************************************************************************)
RxOwnership ==
  LET inFilled(q) == Elems(filled[q])
  IN  /\ \A q \in RxQueues : \A k, l \in 1 .. Len(filled[q]) :
            k # l => filled[q][k] # filled[q][l]
      /\ \A k, l \in 1 .. Len(mbufs) : k # l => mbufs[k] # mbufs[l]
      /\ \A p, q \in RxQueues :
            /\ posted[p] \cap inFilled(q) = {}
            /\ p # q => posted[p] \cap posted[q] = {} /\ inFilled(p) \cap inFilled(q) = {}
      /\ \A q \in RxQueues :
            (pool \cup Elems(mbufs)) \cap (posted[q] \cup inFilled(q)) = {}
      /\ pool \cap Elems(mbufs) = {}
      /\ Mbufs = pool \cup Elems(mbufs) \cup UNION {posted[q] \cup inFilled(q) : q \in RxQueues}
=============================================================================
