----------------------------- MODULE PacketRecv -----------------------------
(***************************************************************************)
(* packet_recv (main_pkt_recv.cpp): prints index and value of every packet *)
(* it receives.  For each packet it allocates a my_pkt on the heap and at  *)
(* once overwrites the pointer, so that the heap shrinks by one my_pkt per *)
(* packet until operator new throws and ends the process.                  *)
(*                                                                         *)
(* A frame is a number, different for every frame; packet_recv prints what *)
(* packet_send wrote, as neither converts the byte order.                  *)
(***************************************************************************)
EXTENDS RxLoop

CONSTANTS
  MaxFrames,   \* bound on the frames that arrive
  HeapCells    \* my_pkt objects the heap has room for

ASSUME RecvAssumption == MaxFrames \in Nat /\ HeapCells \in Nat

VARIABLES
  arrived,     \* arrived[q]: the frames the NIC accepted on queue q, in order
  printed,     \* printed[q]: the frames of queue q that were printed, in order
  heap,        \* my_pkt objects allocated and never freed
  burst_num

vars == <<bootVars, rxVars, arrived, printed, heap, burst_num>>

Init ==
  /\ BootInit
  /\ RxInit(0)
  /\ arrived = [q \in RxQueues |-> <<>>]
  /\ printed = [q \in RxQueues |-> <<>>]
  /\ heap = 0
  /\ burst_num = 0

Boot ==
  /\ BootStep \/ StartPortFails
  /\ UNCHANGED <<rxVars, arrived, printed, heap, burst_num>>

Start == StartPort /\ UNCHANGED <<arrived, printed, heap, burst_num>>

Enter == EnterLoop /\ UNCHANGED <<arrived, printed, heap, burst_num>>

Receive(q) ==
  LET frame == Count(arrived) + 1
  IN  /\ frame <= MaxFrames
      /\ NicReceive(q, frame)
      /\ arrived' = [arrived EXCEPT ![q] = Append(@, frame)]
      /\ UNCHANGED <<printed, heap, burst_num>>

Burst == (Poll \/ PollEmpty) /\ UNCHANGED <<arrived, printed, heap, burst_num>>

\* The loop body: allocate, print, free.
Handle ==
  /\ stage = "run" /\ mbufs # <<>>
  /\ heap < HeapCells
  /\ heap' = heap + 1
  /\ printed' = [printed EXCEPT ![r] = Append(@, data[Head(mbufs)])]
  /\ NextPacket
  /\ burst_num' = burst_num + 1
  /\ UNCHANGED <<bootVars, data, arrived>>

\* Mutant: the exception is caught and the packet dropped.
HeapExhaustedCaught ==
  /\ stage = "run" /\ mbufs # <<>>
  /\ heap = HeapCells
  /\ NextPacket
  /\ UNCHANGED <<bootVars, data, arrived, printed, heap, burst_num>>

\* operator new throws std::bad_alloc, which nobody catches.
HeapExhausted ==
  /\ stage = "run" /\ mbufs # <<>>
  /\ heap = HeapCells
  /\ stage' = "crash"
  /\ UNCHANGED <<dev, ret, rxVars, arrived, printed, heap, burst_num>>

Stopped == Ended /\ UNCHANGED vars

Program == Boot \/ Start \/ Enter \/ Burst \/ Handle \/ HeapExhausted

Next == Program \/ (\E q \in RxQueues : Receive(q)) \/ Stopped

Spec == Init /\ [][Next]_vars

\* The thread polls without ever blocking.
FairSpec == Spec /\ WF_vars(Program)

-----------------------------------------------------------------------------
Contents(s) == [k \in 1 .. Len(s) |-> data[s[k]]]
InBurst(q) == IF q = r THEN mbufs ELSE <<>>

(***************************************************************************)
(* Every accepted frame is printed once, with its own content, and the     *)
(* frames of a queue in the order of their arrival: what was printed, what *)
(* is in the burst and what is in the ring together are what arrived.  It  *)
(* holds across refills of the ring with mbufs freed earlier.              *)
(***************************************************************************)
InOrder ==
  \A q \in RxQueues :
     printed[q] \o Contents(InBurst(q)) \o Contents(filled[q]) = arrived[q]

(***************************************************************************)
(* A frame that the NIC accepted is printed in the end, unless the leaked  *)
(* heap ends the process first.                                            *)
(***************************************************************************)
EveryFramePrinted ==
  \A f \in 1 .. MaxFrames : \A q \in RxQueues :
     f \in Elems(arrived[q]) ~> (f \in Elems(printed[q]) \/ burst_num = HeapCells)

(***************************************************************************)
(* The leak is fatal: once more frames have arrived than the heap has room *)
(* for, the process crashes, whatever the interleaving of NIC and loop.    *)
(***************************************************************************)
LeakIsFatal == Count(arrived) > HeapCells ~> stage = "crash"
=============================================================================
