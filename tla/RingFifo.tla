------------------------------ MODULE RingFifo ------------------------------
(***************************************************************************)
(* What the users of the common ring of a mempool rely on: the ring is one *)
(* sequence, a bulk of objects is added at its end or taken from its front *)
(* in one step, and adding always succeeds.  This is the ring that module  *)
(* Mempool assumes, with the order of the objects.                         *)
(***************************************************************************)
EXTENDS Naturals, Sequences

CONSTANTS
  Threads,   \* those who put and get
  Filled     \* what the ring holds at first

VARIABLES
  fifo,    \* the objects in the ring, the oldest first
  hand     \* hand[t]: the objects thread t has

Front(s, k) == SubSeq(s, 1, k)
Rest(s, k) == SubSeq(s, k + 1, Len(s))

Init ==
  /\ fifo = Filled
  /\ hand = [t \in Threads |-> <<>>]

Put(t, k) ==
  /\ fifo' = fifo \o Rest(hand[t], Len(hand[t]) - k)
  /\ hand' = [hand EXCEPT ![t] = Front(@, Len(@) - k)]

Get(t, k) ==
  /\ hand' = [hand EXCEPT ![t] = @ \o Front(fifo, k)]
  /\ fifo' = Rest(fifo, k)

Next ==
  \E t \in Threads :
     \/ \E k \in 1 .. Len(hand[t]) : Put(t, k)
     \/ \E k \in 1 .. Len(fifo) : Get(t, k)

Spec == Init /\ [][Next]_<<fifo, hand>>
=============================================================================
