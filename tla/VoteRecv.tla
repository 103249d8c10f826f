------------------------------ MODULE VoteRecv ------------------------------
(***************************************************************************)
(* main (main.cpp): receives packets on several queues and keeps a table   *)
(* of votes.  The two fields of a packet are converted from network order  *)
(* in place; the index selects a cell; a value equal to the cell of array  *)
(* adds a vote, any other value takes one away or replaces the votes.      *)
(*                                                                         *)
(* Nothing in the program assigns to array, so its cells are 0 until an    *)
(* access outside the tables changes one.  C's remainder of a negative     *)
(* index is negative: the test and the addition use it as it is, and only  *)
(* the other branch replaces it by 0.                                      *)
(*                                                                         *)
(* A frame holds the fields as the CPU, which is little-endian, reads them *)
(* before the conversion.  An int is a word of two bytes of ByteBase       *)
(* values each, instead of four of 256, and ARRAY_SIZE is ByteBase as      *)
(* 65536 is 256 * 256: the index uses the lower half of the word.          *)
(*                                                                         *)
(* A cell that overflows is undefined in C++17.  The builds at hand make   *)
(* the addition wrap; after a subtraction, the test may see the difference *)
(* as it was stored, wrapped, or as the flags of the processor give it,    *)
(* exact.  Both outcomes are behaviours of the model.                      *)
(***************************************************************************)
EXTENDS RxLoop

CONSTANTS
  ByteBase,     \* values of a byte
  Frames,       \* the frames that may arrive
  CounterMod    \* bound: the counters are kept modulo CounterMod

WordSize == ByteBase * ByteBase
Words == (-(WordSize \div 2)) .. ((WordSize \div 2) - 1)
Frame == [idx : Words, value : Words]

ASSUME VoteAssumption ==
  /\ ByteBase \in Nat /\ ByteBase > 0 /\ ByteBase % 2 = 0
  /\ Frames \subseteq Frame /\ Frames # {}
  /\ CounterMod \in Nat \ {0}

ARRAY_SIZE == ByteBase
Cells == 0 .. (ARRAY_SIZE - 1)

\* The int that an addition, overflowing or not, or a conversion leaves.
ToInt(n) == ((n + WordSize \div 2) % WordSize) - WordSize \div 2

ntohl(x) ==
  LET u == x % WordSize
  IN  ToInt((u % ByteBase) * ByteBase + u \div ByteBase)

\* C's %, which truncates towards 0.
Remainder(a, n) == IF a >= 0 THEN a % n ELSE -((-a) % n)

VARIABLES
  array, vote,
  total_num, burst_num,
  accepted     \* history: frames the NIC accepted, modulo CounterMod

tables == <<array, vote>>
counters == <<total_num, burst_num, accepted>>
vars == <<bootVars, rxVars, tables, counters>>

Init ==
  /\ BootInit
  /\ RxInit(CHOOSE f \in Frames : TRUE)
  /\ array = [c \in Cells |-> 0]
  /\ vote = [c \in Cells |-> 0]
  /\ total_num = 0 /\ burst_num = 0 /\ accepted = 0

Boot ==
  /\ BootStep \/ StartPortFails
  /\ UNCHANGED <<rxVars, tables, counters>>

Start == StartPort /\ UNCHANGED <<tables, counters>>

Enter == EnterLoop /\ UNCHANGED <<tables, counters>>

Receive(q, f) ==
  /\ NicReceive(q, f)
  /\ accepted' = (accepted + 1) % CounterMod
  /\ UNCHANGED <<tables, total_num, burst_num>>

Burst == (Poll \/ PollEmpty) /\ UNCHANGED <<tables, counters>>

-----------------------------------------------------------------------------
\* Mutant: the fields are not converted.
pktUnconverted == data[Head(mbufs)]

\* The packet at hand, after the conversion of its fields.
pkt == LET raw == data[Head(mbufs)]
       IN  [idx |-> ntohl(raw.idx), value |-> ntohl(raw.value)]

\* Mutant: indices are taken to start at 1.
cellFromOne == Remainder(pkt.idx - 1, ARRAY_SIZE)

cell == Remainder(pkt.idx, ARRAY_SIZE)

\* What array[cell] may yield: anything, before the start of the array.
ArrayRead == IF cell \in Cells THEN {array[cell]} ELSE Words

\* Mutant: the packets of a burst are counted, but not the last one.
DoneEarly ==
  /\ total_num' = IF Len(mbufs) = 1 THEN total_num ELSE (total_num + 1) % CounterMod
  /\ burst_num' = (burst_num + 1) % CounterMod
  /\ data' = [data EXCEPT ![Head(mbufs)] = pkt]
  /\ NextPacket
  /\ UNCHANGED <<bootVars, accepted>>

\* What the loop body does whichever branch it took.
Done ==
  /\ total_num' = (total_num + 1) % CounterMod
  /\ burst_num' = (burst_num + 1) % CounterMod
  /\ data' = [data EXCEPT ![Head(mbufs)] = pkt]
  /\ NextPacket
  /\ UNCHANGED <<bootVars, accepted>>

Handling == stage = "run" /\ mbufs # <<>>

\* The value equals array[cell]: one more vote.
Match ==
  /\ Handling
  /\ cell \in Cells
  /\ pkt.value = array[cell]
  /\ vote' = [vote EXCEPT ![cell] = ToInt(@ + 1)]
  /\ Done
  /\ UNCHANGED array

(***************************************************************************)
(* The same with a negative cell: vote[cell] lies before the table.  It is *)
(* a cell of array, where the build puts array right before vote, or some  *)
(* other memory of the process.                                            *)
(***************************************************************************)
MatchOutside ==
  /\ Handling
  /\ cell \notin Cells
  /\ pkt.value \in ArrayRead
  /\ \/ array' = [c \in Cells |-> IF c = ARRAY_SIZE + cell THEN ToInt(array[c] + 1)
                                                           ELSE array[c]]
     \/ UNCHANGED array
  /\ Done
  /\ UNCHANGED vote

\* Mutant: the test for no votes left is dropped.
AfterMissNoTest(v, value) == {ToInt(v - 1)}

\* What a cell v may hold after a miss: one vote less, or the value itself when
\* none is left.  At the smallest int the test may see either difference.
AfterMiss(v, value) ==
  {IF seen <= 0 THEN value ELSE ToInt(v - 1) : seen \in {v - 1, ToInt(v - 1)}}

\* The value differs from array[cell].
Miss ==
  LET index == IF cell < 0 THEN 0 ELSE cell
  IN  /\ Handling
      /\ \E v \in ArrayRead : v # pkt.value
      /\ \E n \in AfterMiss(vote[index], pkt.value) :
            vote' = [vote EXCEPT ![index] = n]
      /\ Done
      /\ UNCHANGED array

\* An access before the start of a table hits an unmapped page.
AccessFaults ==
  /\ Handling
  /\ cell \notin Cells
  /\ stage' = "crash"
  /\ UNCHANGED <<dev, ret, rxVars, tables, counters>>

-----------------------------------------------------------------------------
Stopped == Ended /\ UNCHANGED vars

Program ==
  Boot \/ Start \/ Enter \/ Burst \/ Match \/ MatchOutside \/ Miss \/ AccessFaults

Next ==
  \/ Program
  \/ \E q \in RxQueues, f \in Frames : Receive(q, f)
  \/ Stopped

Spec == Init /\ [][Next]_vars

\* The thread polls without ever blocking; frames need not arrive.
FairSpec == Spec /\ WF_vars(Program)

-----------------------------------------------------------------------------
\* The packets in the rings and in the burst.
Waiting == Count(filled) + Len(mbufs)

\* The queue index of main's loop, its burst, its tables and its counters stay
\* in their ranges.
VoteTypeOK ==
  /\ RxTypeOK
  /\ data \in [Mbufs -> Frame]
  /\ array \in [Cells -> Words] /\ vote \in [Cells -> Words]
  /\ {total_num, burst_num, accepted} \subseteq 0 .. (CounterMod - 1)

(***************************************************************************)
(* total_num and burst_num count every packet that the NIC accepted, once, *)
(* on whichever queue it came: what is not counted yet waits in a ring or  *)
(* in the burst.  It is about the two loops over queues and packets.       *)
(***************************************************************************)
EveryPacketCounted ==
  /\ total_num = burst_num
  /\ accepted = (total_num + Waiting) % CounterMod

(***************************************************************************)
(* Memory outside the tables is touched only for an index that, converted, *)
(* is negative: no other packet ends the process or changes array, and it  *)
(* is only the missing clamp of the first branch that lets one do so.      *)
(***************************************************************************)
DamageNeedsNegativeIndex ==
  [][stage' = "crash" \/ array' # array => Handling /\ pkt.idx < 0]_vars

(***************************************************************************)
(* packet_send writes small indices in host order, and main converts them  *)
(* from network order: the index ends in the upper half of the word, where *)
(* the remainder discards it.  So every packet of packet_send, whatever    *)
(* index it carries, votes in cell 0, even those whose converted index is  *)
(* negative; no other cell changes and no access is out of bounds.         *)
(***************************************************************************)
FromPacketSend == \A f \in Frames : f.idx \in Cells

SenderVotesInCellZero ==
  FromPacketSend =>
     /\ stage # "crash"
     /\ \A c \in Cells : array[c] = 0 /\ (c # 0 => vote[c] = 0)

(***************************************************************************)
(* What packet_send sends never makes a cell overflow, however many        *)
(* packets come.  Its value, 514, is positive when converted (0x02020000)  *)
(* and array[0] is 0, so no packet adds a vote; cell 0 counts down from    *)
(* the value and starts again, and stays far from both ends of an int.     *)
(***************************************************************************)
PositiveValues == \A f \in Frames : ntohl(f.value) > 0

SenderNeverOverflows ==
  FromPacketSend /\ PositiveValues =>
     /\ \E f \in Frames : vote[0] \in 0 .. ntohl(f.value)
     /\ Handling => pkt.value # array[cell]

(***************************************************************************)
(* No queue is starved: a packet that waits in a ring is taken off it,     *)
(* handled and freed, however fast frames arrive on the other queues.      *)
(***************************************************************************)
NoQueueStarves ==
  \A q \in RxQueues, m \in Mbufs :
     m \in Elems(filled[q]) ~> (m \in pool \/ stage = "crash")
=============================================================================
