-------------------------------- MODULE Ring --------------------------------
(***************************************************************************)
(* The common ring of the mbuf pool: an rte_ring that several lcores fill  *)
(* and empty without a lock (rte_ring_generic_pvt.h, rte_ring_elem_pvt.h), *)
(* used as the pool uses it, in bulks of a fixed size.                     *)
(*                                                                         *)
(* An operation reads the head of its side, then the tail of the other     *)
(* side, moves the head by compare-and-set or starts again, copies the     *)
(* objects, waits until the operations before it have moved the tail up to *)
(* where it began, and moves the tail on.  Each access to shared memory is *)
(* a step of its own; the copy is one step, as nobody else may use the     *)
(* slots (ImplementsFifo would fail if somebody did).  The x86 build keeps *)
(* the order of the accesses, so that memory is sequentially consistent    *)
(* here.                                                                   *)
(***************************************************************************)
EXTENDS Integers, FiniteSets, Sequences

CONSTANTS
  Threads,     \* the lcores
  Objects,     \* the objects of the pool
  Size,        \* r->size
  IndexMod,    \* heads and tails are unsigned: they wrap at IndexMod (2^32)
  MaxBulk,     \* the largest n
  Dead         \* what the model puts into a slot that nobody may read any more

Capacity == Size - 1
NumObjects == Cardinality(Objects)

(***************************************************************************)
(* The pool makes its ring large enough for all its objects; for 8191      *)
(* mbufs in a ring of 8192 slots it is just large enough.                  *)
(***************************************************************************)
ASSUME RingAssumption ==
  /\ IsFiniteSet(Objects) /\ NumObjects <= Capacity
  /\ Size \in Nat \ {0}
  /\ IndexMod \in Nat /\ IndexMod % Size = 0 /\ IndexMod >= 2 * Size
  /\ MaxBulk \in 1 .. Capacity
  /\ Dead \notin Objects

VARIABLES
  prod, cons,     \* r->prod and r->cons
  ring,           \* ring[k]: slot k
  pc,             \* pc[t]: where thread t is
  n,              \* n[t]: the size of the bulk
  old_head,       \* old_head[t]
  held            \* held[t]: the objects in the cache of t

vars == <<prod, cons, ring, pc, n, old_head, held>>

Slots == 0 .. (Size - 1)
Indices == 0 .. (IndexMod - 1)
HeadTail == [head : Indices, tail : Indices]

\* The order in which the pool was populated.
Populated ==
  CHOOSE s \in [1 .. NumObjects -> Objects] :
     \A j, k \in 1 .. NumObjects : j # k => s[j] # s[k]

Init ==
  /\ prod = [head |-> NumObjects, tail |-> NumObjects]
  /\ cons = [head |-> 0, tail |-> 0]
  /\ ring = [k \in Slots |-> IF k < NumObjects THEN Populated[k + 1] ELSE Dead]
  /\ pc = [t \in Threads |-> "idle"]
  /\ n = [t \in Threads |-> 0]
  /\ old_head = [t \in Threads |-> 0]
  /\ held = [t \in Threads |-> <<>>]

Goto(t, from, to) == pc[t] = from /\ pc' = [pc EXCEPT ![t] = to]

\* The k-th slot from index h on, the slots of an operation, and what k slots hold.
Slot(h, k) == (h + k - 1) % Size
Slice(t) == {Slot(old_head[t], k) : k \in 1 .. n[t]}
Content(h, k) == [j \in 1 .. k |-> ring[Slot(h, j)]]

\* Mutant: the index is wider than its range.
new_headUnwrapped(t) == old_head[t] + n[t]

new_head(t) == (old_head[t] + n[t]) % IndexMod

\* What the thread keeps, and what it is about to enqueue: the end of its cache.
Kept(t) == SubSeq(held[t], 1, Len(held[t]) - n[t])
obj_table(t) == SubSeq(held[t], Len(held[t]) - n[t] + 1, Len(held[t]))

(***************************************************************************)
(* Bound: while a thread is between its reading of a head and its compare- *)
(* and-set, the others move that head by less than the range of an index,  *)
(* so that a head it finds unchanged is unchanged.  In the code this is a  *)
(* lapse of some 2^32 objects.                                             *)
(***************************************************************************)
NoLap(t, stages) ==
  \A u \in Threads \ {t} : pc[u] \in stages =>
     ((old_head[t] - old_head[u]) % IndexMod) + n[t] + Capacity < IndexMod

\* The operation of t is over; its locals are dead.
Return(t, from) ==
  /\ Goto(t, from, "idle")
  /\ n' = [n EXCEPT ![t] = 0]
  /\ old_head' = [old_head EXCEPT ![t] = 0]

-----------------------------------------------------------------------------
(***************************************************************************)
(* __rte_ring_do_enqueue_elem, as the pool calls it to flush a cache.      *)
(***************************************************************************)

StartEnqueue(t) ==
  /\ Goto(t, "idle", "p_head")
  /\ \E k \in 1 .. MaxBulk : k <= Len(held[t]) /\ n' = [n EXCEPT ![t] = k]
  /\ UNCHANGED <<prod, cons, ring, old_head, held>>

ReadProdHead(t) ==
  /\ Goto(t, "p_head", "p_tail")
  /\ old_head' = [old_head EXCEPT ![t] = prod.head]
  /\ UNCHANGED <<prod, cons, ring, n, held>>

\* Mutant: one more slot is kept free.
free_entriesShort(t) == (Capacity - 1 + cons.tail - old_head[t]) % IndexMod

free_entries(t) == (Capacity + cons.tail - old_head[t]) % IndexMod

\* There is room, or nothing is enqueued: the pool ignores that it failed, cuts
\* its cache, and the objects are lost.
ReadConsTail(t) ==
  IF n[t] <= free_entries(t)
  THEN /\ Goto(t, "p_tail", "p_cas")
       /\ UNCHANGED <<prod, cons, ring, n, old_head, held>>
  ELSE /\ Return(t, "p_tail")
       /\ held' = [held EXCEPT ![t] = Kept(t)]
       /\ UNCHANGED <<prod, cons, ring>>

\* rte_atomic32_cmpset finds the head where the thread read it ...
MoveProdHead(t) ==
  /\ Goto(t, "p_cas", "p_copy")
  /\ prod.head = old_head[t] /\ NoLap(t, {"p_tail", "p_cas"})
  /\ prod' = [prod EXCEPT !.head = new_head(t)]
  /\ UNCHANGED <<cons, ring, n, old_head, held>>

\* ... or elsewhere, and the loop starts again.
RetryProdHead(t) ==
  /\ Goto(t, "p_cas", "p_head")
  /\ prod.head # old_head[t]
  /\ UNCHANGED <<prod, cons, ring, n, old_head, held>>

EnqueueElems(t) ==
  /\ Goto(t, "p_copy", "p_wait")
  /\ ring' = [s \in Slots |->
                IF s \in Slice(t)
                THEN obj_table(t)[CHOOSE k \in 1 .. n[t] : s = Slot(old_head[t], k)]
                ELSE ring[s]]
  /\ UNCHANGED <<prod, cons, n, old_head, held>>

\* Mutant: the tail is moved without waiting for earlier enqueues.
UpdateProdTailNoWait(t) ==
  /\ Return(t, "p_wait")
  /\ prod' = [prod EXCEPT !.tail = new_head(t)]
  /\ held' = [held EXCEPT ![t] = Kept(t)]
  /\ UNCHANGED <<cons, ring>>

UpdateProdTail(t) ==
  /\ Return(t, "p_wait")
  /\ prod.tail = old_head[t]
  /\ prod' = [prod EXCEPT !.tail = new_head(t)]
  /\ held' = [held EXCEPT ![t] = Kept(t)]
  /\ UNCHANGED <<cons, ring>>

-----------------------------------------------------------------------------
(***************************************************************************)
(* __rte_ring_do_dequeue_elem, as the pool calls it to fill a cache or to  *)
(* get a single object.                                                    *)
(***************************************************************************)

StartDequeue(t) ==
  /\ Goto(t, "idle", "c_head")
  /\ \E k \in 1 .. MaxBulk : n' = [n EXCEPT ![t] = k]
  /\ UNCHANGED <<prod, cons, ring, old_head, held>>

ReadConsHead(t) ==
  /\ Goto(t, "c_head", "c_tail")
  /\ old_head' = [old_head EXCEPT ![t] = cons.head]
  /\ UNCHANGED <<prod, cons, ring, n, held>>

available(t) == (prod.tail - old_head[t]) % IndexMod

ReadProdTail(t) ==
  /\ n[t] <= available(t)
  /\ Goto(t, "c_tail", "c_cas")
  /\ UNCHANGED <<prod, cons, ring, n, old_head, held>>

\* Mutant: a bulk that takes the last object is refused.
DequeueFailsEarly(t) ==
  /\ n[t] + 1 > available(t)
  /\ Return(t, "c_tail")
  /\ UNCHANGED <<prod, cons, ring, held>>

\* There are fewer objects than asked for: the bulk fails.
DequeueFails(t) ==
  /\ n[t] > available(t)
  /\ Return(t, "c_tail")
  /\ UNCHANGED <<prod, cons, ring, held>>

MoveConsHead(t) ==
  /\ Goto(t, "c_cas", "c_copy")
  /\ cons.head = old_head[t] /\ NoLap(t, {"c_tail", "c_cas"})
  /\ cons' = [cons EXCEPT !.head = new_head(t)]
  /\ UNCHANGED <<prod, ring, n, old_head, held>>

\* Mutant: the compare-and-set is repeated with the head read before.
RetryConsHeadStale(t) ==
  /\ Goto(t, "c_cas", "c_cas")
  /\ cons.head # old_head[t]
  /\ UNCHANGED <<prod, cons, ring, n, old_head, held>>

RetryConsHead(t) ==
  /\ Goto(t, "c_cas", "c_head")
  /\ cons.head # old_head[t]
  /\ UNCHANGED <<prod, cons, ring, n, old_head, held>>

DequeueElems(t) ==
  /\ Goto(t, "c_copy", "c_wait")
  /\ held' = [held EXCEPT ![t] = @ \o Content(old_head[t], n[t])]
  /\ UNCHANGED <<prod, cons, ring, n, old_head>>

\* Mutant: the wait is for the tail to reach the end of the bulk.
UpdateConsTailStuck(t) ==
  /\ Return(t, "c_wait")
  /\ cons.tail = new_head(t)
  /\ cons' = [cons EXCEPT !.tail = new_head(t)]
  /\ ring' = [s \in Slots |-> IF s \in Slice(t) THEN Dead ELSE ring[s]]
  /\ UNCHANGED <<prod, held>>

\* The code leaves the old pointers in the slots, where the next enqueue writes
\* over them; marking the slots keeps the model small and would show a read.
UpdateConsTail(t) ==
  /\ Return(t, "c_wait")
  /\ cons.tail = old_head[t]
  /\ cons' = [cons EXCEPT !.tail = new_head(t)]
  /\ ring' = [s \in Slots |-> IF s \in Slice(t) THEN Dead ELSE ring[s]]
  /\ UNCHANGED <<prod, held>>

-----------------------------------------------------------------------------
\* An operation in progress goes on.
Step(t) ==
  \/ ReadProdHead(t) \/ ReadConsTail(t) \/ MoveProdHead(t) \/ RetryProdHead(t)
  \/ EnqueueElems(t) \/ UpdateProdTail(t)
  \/ ReadConsHead(t) \/ ReadProdTail(t) \/ DequeueFails(t)
  \/ MoveConsHead(t) \/ RetryConsHead(t)
  \/ DequeueElems(t) \/ UpdateConsTail(t)

Next == \E t \in Threads : StartEnqueue(t) \/ StartDequeue(t) \/ Step(t)

Spec == Init /\ [][Next]_vars

(***************************************************************************)
(* An lcore is pinned to a core and is not preempted in the middle of an   *)
(* operation for ever; it need not start one.                              *)
(***************************************************************************)
FairSpec == Spec /\ \A t \in Threads : WF_vars(Step(t))

-----------------------------------------------------------------------------
RingTypeOK ==
  /\ prod \in HeadTail /\ cons \in HeadTail
  /\ ring \in [Slots -> Objects \cup {Dead}]
  /\ pc \in [Threads -> {"idle", "p_head", "p_tail", "p_cas", "p_copy", "p_wait",
                         "c_head", "c_tail", "c_cas", "c_copy", "c_wait"}]
  /\ n \in [Threads -> 0 .. MaxBulk]
  /\ old_head \in [Threads -> Indices]
  /\ held \in [Threads -> Seq(Objects)]

\* The objects in the ring: from the head of the consumers, as what lies before
\* it has been taken, to the tail of the producers.
Fifo == Content(cons.head, (prod.tail - cons.head) % IndexMod)

\* The objects of t: a dequeue has them as soon as it has moved the head, an
\* enqueue gives them up when it moves the tail.
Hand == [t \in Threads |->
           IF pc[t] = "c_copy" THEN held[t] \o Content(old_head[t], n[t]) ELSE held[t]]

Atomic == INSTANCE RingFifo WITH Filled <- Populated, fifo <- Fifo, hand <- Hand

(***************************************************************************)
(* The ring is one queue whose bulk operations are atomic: whatever the    *)
(* interleaving, and across the wrap of the indices, no object is handed   *)
(* out twice, overwritten before it was copied, read before it was         *)
(* written, or lost, and objects leave in the order of their arrival.  It  *)
(* is what lets module Mempool treat the ring as a set.                    *)
(***************************************************************************)
ImplementsFifo == Atomic!Spec

(***************************************************************************)
(* rte_mempool.h: "adding in mempool always success".  The pool ignores    *)
(* the result of its enqueue and would lose the objects: dequeues that     *)
(* have not moved their tail still occupy slots, but never so many that an *)
(* enqueue finds no room.                                                  *)
(***************************************************************************)
PutAlwaysSucceeds ==
  [][\A t \in Threads : pc[t] = "p_tail" => pc'[t] # "idle"]_vars

(***************************************************************************)
(* A dequeue that fails is right at that moment, though it counts from a   *)
(* head it read earlier: the ring has fewer objects than it asked for.     *)
(***************************************************************************)
FailedGetSawTooFew ==
  [][\A t \in Threads :
       pc[t] = "c_tail" /\ pc'[t] = "idle" => Len(Fifo) < n[t]]_vars

(***************************************************************************)
(* An operation that has moved its head completes: the wait for the tail   *)
(* is a wait for operations that began earlier, never a cycle.             *)
(***************************************************************************)
InFlightCompletes ==
  \A t \in Threads :
     pc[t] \in {"p_copy", "p_wait", "c_copy", "c_wait"} ~> pc[t] = "idle"

(***************************************************************************)
(* A thread that is left alone finishes what it has begun, wherever the    *)
(* others have left the ring: a failed compare-and-set is not repeated     *)
(* for ever with a stale head.                                             *)
(***************************************************************************)
FinishesAlone ==
  \A t \in Threads :
     <>[](\A u \in Threads \ {t} : pc[u] = "idle") => []<>(pc[t] = "idle")

(***************************************************************************)
(* rte_ring_generic_pvt.h: "'free_entries' is always between 0 and         *)
(* capacity (which is < size)".                                            *)
(***************************************************************************)
FreeEntriesBounded ==
  \A t \in Threads : pc[t] = "p_tail" => free_entries(t) \in 0 .. Capacity
=============================================================================
