----------------------------- MODULE QueueProofs ----------------------------
(***************************************************************************)
(* When the lcores are 0 .. n-1, every lcore of packet_send has the Tx     *)
(* queue with its own number, and nobody else touches that queue.  From    *)
(* this follow what the README promises of queues, when the process may    *)
(* end, and what an lcore leaves behind when it fails.  The last part says *)
(* how many mbufs keep an lcore from failing at all.                       *)
(***************************************************************************)
EXTENDS OwnershipProofs

USE DEF Alive, Halted, ConfigLive

\* The -l option of the README's examples: no gap between the lcore ids.
Contiguous == Lcores = 0 .. (NumCores - 1)

\* While main's frame exists, an lcore that has read its queue id has its own.
OwnQueue == ConfigLive => \A c \in Lcores : HasQueue(c) => queue_id[c] = c

QueueInv == IndType /\ OwnQueue /\ EndsOnlyAfterMainFailed

-----------------------------------------------------------------------------
LEMMA QueuesAreLcores ==
  ASSUME Contiguous
  PROVE  /\ Queues = Lcores
         /\ DOMAIN queues = Queues
         /\ \A c \in Lcores : queues[c] = c
<1>1. TxRings = NumCores /\ TxRings \in Nat \ {0}
      BY ConstantTypes, SendAssumption
<1>2. \A k \in 0 .. (TxRings - 1) : k % TxRings = k
      BY <1>1
<1> QED BY <1>1, <1>2 DEF Contiguous, Queues, queues

\* A worker moves its own program counter, never one that has failed, and its
\* own queue id, which it has read when it has left its entry.
LEMMA WorkerMoves ==
  ASSUME TypeOK, NEW c \in Lcores, Worker(c)
  PROVE  /\ \A d \in Lcores \ {c} : pc'[d] = pc[d] /\ queue_id'[d] = queue_id[d]
         /\ pc[c] \notin {"wait", "failed"}
         /\ ReadQueue(c) \/ (HasQueue(c) /\ queue_id'[c] = queue_id[c])
BY DEF Worker, ReadQueue, AllocFromCache, AllocGoesToRing, Fill, AllocFromRing, AllocFails,
       TxBurst, Sent, TxBurstStopped, TxBurstCrashes, FreeUnsent, Count, bootVars,
       TypeOK, HasQueue, coreVars

\* What the main thread leaves alone, and where it goes.
LEMMA MainMoves ==
  ASSUME IndType, Main
  PROVE  \/ Launch
         \/ /\ UNCHANGED <<pc, queue_id>>
            /\ stage' = "run" => stage = "run"
            /\ stage' # "crash"
            /\ stage' = "return" => WaitLcores
<1> USE DEF coreVars, bootVars
<1>1. CASE Boot \/ StartPort \/ StartPortFails
  <2>1. UNCHANGED <<pc, queue_id>>
        BY <1>1 DEF Boot, StartPort, StartPortFails
  <2>2. stage' \notin {"run", "crash", "return"}
        BY <1>1, BootType DEF Boot, StartPort, StartPortFails, TypeOK, IndType, BootStage
  <2> QED BY <2>1, <2>2
<1>2. CASE WaitLcores \/ Exit
      BY <1>2 DEF WaitLcores, Exit
<1> QED BY <1>1, <1>2 DEF Main

LEMMA QueueStep ==
  ASSUME Contiguous, QueueInv, [Next]_vars
  PROVE  OwnQueue' /\ EndsOnlyAfterMainFailed'
<1> USE DEF QueueInv, IndType
<1>1. CASE Launch
      BY <1>1 DEF Launch, OwnQueue, EndsOnlyAfterMainFailed, HasQueue
<1>2. CASE Main /\ ~Launch
  <2>1. /\ UNCHANGED <<pc, queue_id>>
        /\ stage' = "run" => stage = "run"
        /\ stage' # "crash"
        /\ stage' = "return" => WaitLcores
        BY <1>2, MainMoves
  <2> QED BY <2>1 DEF OwnQueue, EndsOnlyAfterMainFailed, HasQueue, WaitLcores
<1>3. ASSUME NEW c \in Lcores, Worker(c)
      PROVE  OwnQueue' /\ EndsOnlyAfterMainFailed'
  <2>1. /\ \A d \in Lcores \ {c} : pc'[d] = pc[d] /\ queue_id'[d] = queue_id[d]
        /\ pc[c] \notin {"wait", "failed"}
        /\ ReadQueue(c) \/ (HasQueue(c) /\ queue_id'[c] = queue_id[c])
        BY <1>3, WorkerMoves
  <2>2. stage \in {"run", "return"} /\ stage' \in {stage, "crash"}
        BY <1>3, WorkerStage
  <2>3. OwnQueue'
    <3> SUFFICES ASSUME stage' = "run", NEW d \in Lcores, HasQueue(d)'
                 PROVE  queue_id'[d] = d
        BY DEF OwnQueue
    <3>1. stage = "run"
          BY <2>2
    <3>2. CASE d # c
          BY <2>1, <3>1, <3>2 DEF OwnQueue, HasQueue
    <3>3. CASE d = c /\ ReadQueue(c)
      <4>1. QueueRead(c) = {c}
            BY <3>1, QueuesAreLcores DEF QueueRead
      <4>2. queue_id' = [queue_id EXCEPT ![c] = c]
            BY <3>3, <4>1 DEF ReadQueue
      <4> QED BY <3>3, <4>2 DEF TypeOK
    <3>4. CASE d = c /\ HasQueue(c) /\ queue_id'[c] = queue_id[c]
          BY <3>1, <3>4 DEF OwnQueue
    <3> QED BY <2>1, <3>2, <3>3, <3>4
  <2>4. EndsOnlyAfterMainFailed'
    <3>1. CASE stage = "return"
      <4>1. pc[MainLcore] = "failed"
            BY <3>1 DEF EndsOnlyAfterMainFailed
      <4> QED BY <2>1, <4>1, SendAssumption DEF EndsOnlyAfterMainFailed
    <3>2. CASE stage = "run"
      <4>1. ~TxBurstCrashes(c)
        <5>1. ASSUME TxBurstCrashes(c) PROVE FALSE
          <6>1. \/ queue_id[c] \notin Queues
                \/ \E d \in Lcores \ {c} : pc[d] = "tx" /\ queue_id[d] = queue_id[c]
                BY <3>2, <5>1 DEF TxBurstCrashes
          <6>2. \A d \in Lcores : pc[d] = "tx" => queue_id[d] = d
                BY <3>2 DEF OwnQueue, HasQueue
          <6>3. pc[c] = "tx"
                BY <5>1 DEF TxBurstCrashes
          <6> QED BY <6>1, <6>2, <6>3, QueuesAreLcores
        <5> QED BY <5>1
      <4>2. stage' = "run"
            BY <1>3, <3>2, <4>1 DEF Worker, ReadQueue, AllocFromCache, AllocGoesToRing, Fill,
               AllocFromRing, AllocFails, TxBurst, Sent, TxBurstStopped, FreeUnsent, Count, bootVars
      <4> QED BY <4>2 DEF EndsOnlyAfterMainFailed
    <3> QED BY <2>2, <3>1, <3>2
  <2> QED BY <2>3, <2>4
<1>4. CASE (\E q \in Queues : Transmit(q)) \/ Stopped \/ UNCHANGED vars
      BY <1>4 DEF Transmit, Stopped, vars, bootVars, coreVars, OwnQueue,
                  EndsOnlyAfterMainFailed, HasQueue
<1> QED BY <1>1, <1>2, <1>3, <1>4 DEF Next

LEMMA QueueInvariant == ASSUME Contiguous PROVE Spec => []QueueInv
<1>1. Init => QueueInv
      BY InitType DEF QueueInv, Init, BootInit, OwnQueue, EndsOnlyAfterMainFailed
<1>2. QueueInv /\ [Next]_vars => QueueInv'
  <2>1. QueueInv /\ [Next]_vars => IndType'
        BY TypeStep, LaunchStep, ShapeStep, RingStep DEF QueueInv, IndType
  <2> QED BY <2>1, QueueStep DEF QueueInv
<1> QED BY <1>1, <1>2, PTL DEF Spec

(***************************************************************************)
(* One Tx queue per lcore, as the README promises: with lcores 0 .. n-1,   *)
(* and until main returns, every lcore drives a queue that exists and that *)
(* no other lcore drives.                                                  *)
(***************************************************************************)
THEOREM QueuePerLcore == ASSUME Contiguous PROVE Spec => []OneQueuePerLcore
<1>1. QueueInv => OneQueuePerLcore
      BY QueuesAreLcores DEF QueueInv, OwnQueue, OneQueuePerLcore
<1> QED BY <1>1, QueueInvariant, PTL

(***************************************************************************)
(* With lcores 0 .. n-1 no interleaving of the lcores crashes the process  *)
(* or lets main return, unless the main lcore itself has run out of mbufs. *)
(***************************************************************************)
THEOREM NoEarlyEnd == ASSUME Contiguous PROVE Spec => []EndsOnlyAfterMainFailed
<1>1. QueueInv => EndsOnlyAfterMainFailed
      BY DEF QueueInv
<1> QED BY <1>1, QueueInvariant, PTL

-----------------------------------------------------------------------------
\* Another lcore's step leaves a failed lcore's bufs, cache and Tx queue alone.
LEMMA WorkerStrands ==
  ASSUME Contiguous, QueueInv, NEW c \in Lcores, pc[c] = "failed",
         NEW d \in Lcores, Worker(d)
  PROVE  /\ bufs'[c] = bufs[c] /\ cache'[c] = cache[c]
         /\ ConfigLive =>
               pending'[c] = pending[c] /\ sent'[c] = sent[c]
<1> USE DEF QueueInv, IndType, bootVars, poolVars, nicVars, coreVars
<1>1. d # c
      BY WorkerMoves
<1>2. /\ cache \in [Lcores -> SUBSET Mbufs] /\ bufs \in [Lcores -> Seq(Mbufs)]
      /\ pending \in [Queues -> SUBSET Mbufs] /\ sent \in [Queues -> SUBSET Mbufs]
      BY DEF TypeOK
<1>3. CASE TxBurst(d)
  <2> DEFINE q == queue_id[d]
             N(old) == Lesser(BURST_SIZE, TX_RING_SIZE - (InUse(q) - Cardinality(old)))
  <2>1. PICK old \in SUBSET sent[q] :
          /\ PutBulk(d, old)
          /\ sent' = [sent EXCEPT ![q] = @ \ old]
          /\ pending' = [pending EXCEPT ![q] = @ \cup FirstBufs(d, N(old))]
          /\ bufs' = bufs
        BY <1>3 DEF TxBurst, Sent
  <2> HIDE DEF N
  <2>2. cache'[c] = cache[c]
        BY <1>1, <1>2, <2>1 DEF PutBulk
  <2>3. ConfigLive => q # c
        BY <1>1, <1>3 DEF TxBurst, OwnQueue, HasQueue
  <2>4. c \in Queues
        BY QueuesAreLcores
  <2> HIDE DEF q
  <2> QED BY <1>2, <2>1, <2>2, <2>3, <2>4
<1>4. CASE FreeUnsent(d)
  <2>1. Put(d, bufs[d][i[d] + 1]) /\ UNCHANGED <<bufs, pending, sent>>
        BY <1>4 DEF FreeUnsent
  <2>2. cache'[c] = cache[c]
        BY <1>1, <1>2, <2>1 DEF Put
  <2> QED BY <2>1, <2>2
<1>5. CASE AllocFromCache(d) \/ AllocFromRing(d)
  <2>1. PICK m \in Mbufs : /\ CacheHit(d, m) \/ Backfill(d, m) \/ RingDequeue(m)
                           /\ Fill(d, m)
        BY <1>5 DEF AllocFromCache, AllocFromRing
  <2>2. bufs'[c] = bufs[c] /\ UNCHANGED <<pending, sent>>
        BY <1>1, <1>2, <2>1 DEF Fill
  <2>3. cache'[c] = cache[c]
        BY <1>1, <1>2, <2>1 DEF CacheHit, Backfill, RingDequeue
  <2> QED BY <2>2, <2>3
<1>6. CASE Count(d)
      BY <1>1, <1>2, <1>6 DEF Count
<1>7. CASE ReadQueue(d) \/ AllocGoesToRing(d) \/ AllocFails(d)
             \/ TxBurstStopped(d) \/ TxBurstCrashes(d)
      BY <1>7 DEF ReadQueue, AllocGoesToRing, AllocFails, TxBurstStopped, TxBurstCrashes,
                  BackfillFails, RingDequeueFails, Sent
<1> QED BY <1>3, <1>4, <1>5, <1>6, <1>7 DEF Worker

(***************************************************************************)
(* What a failed lcore of packet_send leaves behind never comes back: with *)
(* lcores 0 .. n-1, no step of another lcore, of main or of the NIC        *)
(* returns the mbufs of its unfinished burst, of its cache or, until main  *)
(* returns, of its Tx queue to the pool.                                   *)
(***************************************************************************)
THEOREM FailureStrandsMbufs ==
  ASSUME Contiguous PROVE Spec => FailedLcoreStrandsMbufs
<1>1. ASSUME QueueInv, [Next]_vars
      PROVE  \A c \in Lcores : pc[c] = "failed" => Stranded(c)
  <2> USE <1>1 DEF QueueInv, IndType, bootVars, poolVars, nicVars, coreVars
  <2> SUFFICES ASSUME NEW c \in Lcores, pc[c] = "failed" PROVE Stranded(c)
      OBVIOUS
  <2>1. Len(bufs[c]) < BURST_SIZE
        BY DEF BurstShape
  <2>2. ConfigLive => queue_id[c] = c
        BY DEF OwnQueue, HasQueue
  <2>3. stage \notin BootStage \cup {"launch"}
        BY DEF NotLaunched
  <2>4. CASE Main \/ Stopped \/ UNCHANGED vars
    <3>1. UNCHANGED <<bufs, cache, pending, sent>>
      <4>1. ~(StartPort \/ StartPortFails)
            BY <2>3 DEF StartPort, StartPortFails, DevStart, DevStartFails, Succeed, Fail, BootStage
      <4> QED BY <2>4, <4>1 DEF Main, Boot, Launch, WaitLcores, Exit, Stopped, vars
    <3> QED BY <2>1, <3>1 DEF Stranded
  <2>5. ASSUME NEW d \in Lcores, Worker(d) PROVE Stranded(c)
    <3>1. /\ bufs'[c] = bufs[c] /\ cache'[c] = cache[c]
          /\ ConfigLive => pending'[c] = pending[c] /\ sent'[c] = sent[c]
          BY <2>5, WorkerStrands
    <3> QED BY <2>1, <2>2, <3>1 DEF Stranded
  <2>6. ASSUME NEW q \in Queues, Transmit(q) PROVE Stranded(c)
    <3>1. PICK m \in pending[q] :
            /\ pending' = [pending EXCEPT ![q] = @ \ {m}]
            /\ sent' = [sent EXCEPT ![q] = @ \cup {m}]
          BY <2>6 DEF Transmit
    <3>2. UNCHANGED <<bufs, cache>>
          BY <2>6 DEF Transmit
    <3>3. \A p \in Queues : pending'[p] \cup sent'[p] = pending[p] \cup sent[p]
          BY <3>1 DEF TypeOK
    <3> QED BY <2>1, <3>2, <3>3 DEF Stranded
  <2> QED BY <2>4, <2>5, <2>6 DEF Next
<1> QED BY <1>1, QueueInvariant, PTL DEF Spec, FailedLcoreStrandsMbufs

-----------------------------------------------------------------------------
(***************************************************************************)
(* total_num and the NIC.  The queue of lcore c has number c, so the       *)
(* balance can be stated for every lcore, also before it has read its      *)
(* queue id; nb_tx is 0 outside its scope.                                 *)
(***************************************************************************)
Balanced(c) ==
  (total_num[c] + nb_tx[c]) % CounterMod =
     (nic_tx[c] + Cardinality(pending[c])) % CounterMod

InScope == \A c \in Lcores : pc[c] \notin {"free", "count"} => nb_tx[c] = 0

AllBalanced ==
  stage \notin {"return", "exit", "crash"} => \A c \in Lcores : Balanced(c)

CounterInv == Ownership /\ QueueInv /\ InScope /\ AllBalanced

\* The summands are numbers, and CounterMod is a modulus.
LEMMA CounterTypes ==
  ASSUME Contiguous, TypeOK, NEW c \in Lcores
  PROVE  /\ c \in Queues
         /\ total_num[c] \in Nat /\ nb_tx[c] \in Nat /\ nic_tx[c] \in Nat
         /\ pending[c] \subseteq Mbufs /\ IsFiniteSet(pending[c])
         /\ Cardinality(pending[c]) \in Nat
         /\ CounterMod \in Nat \ {0}
<1>1. c \in Queues
      BY QueuesAreLcores
<1>2. CounterMod \in Nat \ {0} /\ BURST_SIZE \in Nat
      BY SendAssumption
<1>3. /\ total_num[c] \in Nat /\ nb_tx[c] \in Nat /\ nic_tx[c] \in Nat
      /\ pending[c] \subseteq Mbufs
      BY <1>1, <1>2 DEF TypeOK
<1>4. IsFiniteSet(pending[c])
      BY <1>3, FS_Subset, MempoolAssumption
<1> QED BY <1>1, <1>2, <1>3, <1>4, FS_CardinalityType

\* The queue takes n packets: as many new mbufs are pending.
LEMMA BurstBalance ==
  ASSUME Contiguous, CounterInv, stage = "run", NEW c \in Lcores, TxBurst(c)
  PROVE  Balanced(c)' /\ \A d \in Lcores \ {c} : Balanced(d)'
<1> USE DEF CounterInv, QueueInv, IndType
<1> DEFINE q == queue_id[c]
           N(old) == Lesser(BURST_SIZE, TX_RING_SIZE - (InUse(q) - Cardinality(old)))
<1>1. PICK old \in SUBSET sent[q] :
        /\ pending' = [pending EXCEPT ![q] = @ \cup FirstBufs(c, N(old))]
        /\ Sent(c, N(old))
      BY DEF TxBurst
<1>2. q \in Queues /\ pc[c] = "tx" /\ q = c
      BY DEF TxBurst, OwnQueue, HasQueue
<1>3. N(old) \in 0 .. BURST_SIZE
      BY <1>2, BurstFacts
<1> DEFINE n == N(old)
           new == FirstBufs(c, n)
<1> HIDE DEF N
<1>4. new \subseteq held[c]
      BY <1>1, <1>2, <1>3, SentHeld DEF Ownership
<1>5. new \cap pending[c] = {}
  <2>1. SixApart(common, cache[c], held[c], pending[c], sent[c], rx)
        BY <1>2, Local DEF Ownership
  <2> QED BY <1>4, <2>1 DEF SixApart
<1>6. IsFiniteSet(new) /\ Cardinality(new) = n
  <2> DEFINE f == [k \in 1 .. n |-> bufs[c][k]]
  <2>1. Owned(c) = 1 .. BURST_SIZE /\ BURST_SIZE \in Nat
        BY <1>2, OwnedAt
  <2>2. \A k, l \in 1 .. n : k # l => bufs[c][k] # bufs[c][l]
        BY <1>3, <2>1 DEF Ownership, Distinct
  <2>3. f \in Bijection(1 .. n, new)
        BY <2>2 DEF Bijection, Injection, Surjection, IsInjective, FirstBufs
  <2>4. IsFiniteSet(1 .. n) /\ Cardinality(1 .. n) = n
        BY <1>3, FS_Interval
  <2> HIDE DEF f, new, n
  <2>5. ExistsBijection(1 .. n, new)
        BY <2>3 DEF ExistsBijection
  <2> QED BY <2>4, <2>5, FS_Bijection
<1>7. /\ pending'[c] = pending[c] \cup new
      /\ \A d \in Queues \ {c} : pending'[d] = pending[d]
      /\ nb_tx'[c] = n /\ \A d \in Lcores \ {c} : nb_tx'[d] = nb_tx[d]
      /\ UNCHANGED <<total_num, nic_tx>>
      BY <1>1, <1>2 DEF Sent, TypeOK
<1> HIDE DEF new, n
<1>8. Cardinality(pending'[c]) = Cardinality(pending[c]) + n
  <2>1. Cardinality(pending[c] \cap new) = 0
        BY <1>5, FS_EmptySet
  <2>2. n \in Nat
        BY <1>3, SendAssumption DEF n
  <2>3. IsFiniteSet(pending[c]) /\ Cardinality(pending[c]) \in Nat
        BY CounterTypes
  <2>4. Cardinality(pending[c] \cup new) =
          Cardinality(pending[c]) + Cardinality(new) - Cardinality(pending[c] \cap new)
        BY <1>6, <2>3, FS_Union
  <2> QED BY <1>6, <1>7, <2>1, <2>2, <2>3, <2>4
<1>9. Balanced(c)'
  <2> DEFINE a == total_num[c]
             b == nic_tx[c] + Cardinality(pending[c])
  <2>1. nb_tx[c] = 0
        BY <1>2 DEF InScope
  <2>2. /\ a \in Nat /\ b \in Nat /\ n \in Nat /\ CounterMod \in Nat \ {0}
        /\ nic_tx[c] \in Nat /\ Cardinality(pending[c]) \in Nat
        BY <1>3, CounterTypes, SendAssumption DEF n
  <2>3. a % CounterMod = b % CounterMod
        BY <2>1, <2>2 DEF AllBalanced, Balanced
  <2>4. nic_tx'[c] + Cardinality(pending'[c]) = b + n
        BY <1>7, <1>8, <2>2
  <2>5. total_num'[c] + nb_tx'[c] = a + n
        BY <1>7
  <2> HIDE DEF a, b
  <2>6. (a + n) % CounterMod = (b + n) % CounterMod
    <3>1. ((a % CounterMod) + n) % CounterMod = (a + n) % CounterMod
          BY <2>2, ModAdd
    <3>2. ((b % CounterMod) + n) % CounterMod = (b + n) % CounterMod
          BY <2>2, ModAdd
    <3> QED BY <2>3, <3>1, <3>2
  <2> QED BY <2>4, <2>5, <2>6 DEF Balanced
<1>10. ASSUME NEW d \in Lcores \ {c} PROVE Balanced(d)'
       BY <1>7, CounterTypes DEF AllBalanced, Balanced
<1> QED BY <1>9, <1>10

\* The burst is counted: total_num takes nb_tx over.
LEMMA CountBalance ==
  ASSUME Contiguous, CounterInv, stage = "run", NEW c \in Lcores, Count(c)
  PROVE  \A d \in Lcores : Balanced(d)'
<1> USE DEF CounterInv, QueueInv, IndType, nicVars
<1> DEFINE s == total_num[c] + nb_tx[c]
<1>1. /\ total_num'[c] = s % CounterMod /\ nb_tx'[c] = 0
      /\ \A d \in Lcores \ {c} : total_num'[d] = total_num[d] /\ nb_tx'[d] = nb_tx[d]
      /\ UNCHANGED <<nic_tx, pending>>
      BY DEF Count, TypeOK
<1>2. s \in Nat /\ CounterMod \in Nat \ {0}
      BY CounterTypes
<1>3. s % CounterMod = (nic_tx[c] + Cardinality(pending[c])) % CounterMod
      BY DEF AllBalanced, Balanced
<1> HIDE DEF s
<1>4. Balanced(c)'
  <2>1. ((s % CounterMod) + 0) % CounterMod = (s + 0) % CounterMod
        BY <1>2, ModAdd
  <2>2. s + 0 = s
        BY <1>2
  <2> QED BY <1>1, <1>3, <2>1, <2>2 DEF Balanced
<1>5. ASSUME NEW d \in Lcores \ {c} PROVE Balanced(d)'
      BY <1>1 DEF AllBalanced, Balanced
<1> QED BY <1>4, <1>5

\* A packet the NIC sends moves from pending to nic_tx.
LEMMA NicBalance ==
  ASSUME Contiguous, CounterInv, stage = "run", NEW q \in Queues, Transmit(q)
  PROVE  \A d \in Lcores : Balanced(d)'
<1> USE DEF CounterInv, QueueInv, IndType, coreVars
<1>q. q \in Lcores
      BY QueuesAreLcores
<1>1. PICK m \in pending[q] : pending' = [pending EXCEPT ![q] = @ \ {m}]
      BY DEF Transmit
<1> DEFINE x == nic_tx[q]
           p == Cardinality(pending[q])
<1>2. /\ x \in Nat /\ p \in Nat /\ IsFiniteSet(pending[q])
      /\ CounterMod \in Nat \ {0}
      BY <1>q, CounterTypes
<1>3. Cardinality(pending'[q]) = p - 1 /\ p > 0
  <2>1. pending'[q] = pending[q] \ {m}
        BY <1>1 DEF TypeOK
  <2>2. Cardinality(pending[q] \ {m}) = p - 1
        BY <1>1, <1>2, FS_RemoveElement
  <2>3. p # 0
        BY <1>1, <1>2, FS_EmptySet
  <2> QED BY <1>2, <2>1, <2>2, <2>3
<1>4. /\ nic_tx'[q] = (x + 1) % CounterMod
      /\ \A d \in Lcores \ {q} : nic_tx'[d] = nic_tx[d] /\ pending'[d] = pending[d]
      /\ UNCHANGED <<total_num, nb_tx>>
      BY <1>1, QueuesAreLcores DEF Transmit, TypeOK
<1>5. (total_num[q] + nb_tx[q]) % CounterMod = (x + p) % CounterMod
      BY <1>q DEF AllBalanced, Balanced
<1> HIDE DEF x, p
<1>6. Balanced(q)'
  <2>1. x + 1 \in Nat /\ p - 1 \in Nat /\ (x + 1) + (p - 1) = x + p
        BY <1>2, <1>3
  <2>2. (((x + 1) % CounterMod) + (p - 1)) % CounterMod = ((x + 1) + (p - 1)) % CounterMod
        BY <1>2, <2>1, ModAdd
  <2> QED BY <1>3, <1>4, <1>5, <2>1, <2>2 DEF Balanced
<1>7. ASSUME NEW d \in Lcores \ {q} PROVE Balanced(d)'
      BY <1>4 DEF AllBalanced, Balanced
<1> QED BY <1>6, <1>7

LEMMA CounterStep ==
  ASSUME Contiguous, CounterInv, [Next]_vars
  PROVE  InScope' /\ AllBalanced'
<1> USE DEF CounterInv, QueueInv, IndType, bootVars, poolVars, nicVars, coreVars
<1>1. CASE Main
  <2>1. UNCHANGED <<nic_tx, pending, nb_tx, total_num>>
        BY <1>1 DEF Main, Boot, StartPort, StartPortFails, Launch, WaitLcores, Exit
  <2>2. UNCHANGED pc \/ \A c \in Lcores : pc[c] = "wait" /\ pc'[c] = "enter"
        BY <1>1 DEF Main, Boot, StartPort, StartPortFails, Launch, WaitLcores, Exit, NotLaunched
  <2>3. stage \in {"return", "exit", "crash"} => stage' \in {"return", "exit", "crash"}
    <3>1. CASE Boot \/ StartPort \/ StartPortFails
          BY <3>1, BootType DEF Boot, StartPort, StartPortFails, TypeOK, BootStage
    <3>2. CASE Launch \/ WaitLcores \/ Exit
          BY <3>2 DEF Launch, WaitLcores, Exit
    <3> QED BY <1>1, <3>1, <3>2 DEF Main
  <2>4. InScope'
        BY <2>1, <2>2 DEF InScope
  <2>5. AllBalanced'
        BY <2>1, <2>3 DEF AllBalanced, Balanced
  <2> QED BY <2>4, <2>5
<1>2. ASSUME NEW c \in Lcores, Worker(c) PROVE InScope' /\ AllBalanced'
  <2>s. stage \in {"run", "return"} /\ stage' \in {stage, "crash"}
        BY <1>2, WorkerStage
  <2>1. InScope'
    <3>1. \A d \in Lcores \ {c} : pc'[d] = pc[d] /\ nb_tx'[d] = nb_tx[d]
          BY <1>2 DEF Worker, ReadQueue, AllocFromCache, AllocGoesToRing, Fill, AllocFromRing,
             AllocFails, TxBurst, Sent, TxBurstStopped, TxBurstCrashes, FreeUnsent, Count, TypeOK
    <3>2. CASE pc[c] \in {"free", "count"}
      <4>1. FreeUnsent(c) \/ Count(c)
            BY <1>2, <3>2 DEF Worker, ReadQueue, AllocFromCache, AllocGoesToRing,
               AllocFromRing, AllocFails, TxBurst, TxBurstStopped, TxBurstCrashes
      <4>2. CASE FreeUnsent(c)
        <5>1. pc'[c] \in {"free", "count"}
              BY <4>2 DEF FreeUnsent, TypeOK
        <5> QED BY <3>1, <5>1 DEF InScope
      <4>3. CASE Count(c)
        <5>1. nb_tx'[c] = 0
              BY <4>3 DEF Count, TypeOK
        <5> QED BY <3>1, <5>1 DEF InScope
      <4> QED BY <4>1, <4>2, <4>3
    <3>3. CASE pc[c] \notin {"free", "count"}
      <4>1. \/ pc'[c] \in {"free", "count"}
            \/ nb_tx'[c] = nb_tx[c]
            BY <1>2, <3>3 DEF Worker, ReadQueue, AllocFromCache, AllocGoesToRing, Fill,
               AllocFromRing, AllocFails, TxBurst, Sent, TxBurstStopped, TxBurstCrashes,
               FreeUnsent, Count, TypeOK
      <4>2. nb_tx[c] = 0
            BY <3>3 DEF InScope
      <4> QED BY <3>1, <4>1, <4>2 DEF InScope
    <3> QED BY <3>2, <3>3
  <2>2. CASE stage = "return"
        BY <2>1, <2>2, <2>s DEF AllBalanced
  <2>3. CASE stage = "run"
    <3>1. CASE TxBurst(c)
          BY <2>1, <2>3, <3>1, BurstBalance DEF AllBalanced
    <3>2. CASE Count(c)
          BY <2>1, <2>3, <3>2, CountBalance DEF AllBalanced
    <3>3. CASE ~TxBurst(c) /\ ~Count(c)
      <4>1. UNCHANGED <<nic_tx, pending, total_num>>
            BY <1>2, <3>3 DEF Worker, ReadQueue, AllocFromCache, AllocGoesToRing, Fill,
               AllocFromRing, AllocFails, Sent, TxBurstStopped, TxBurstCrashes, FreeUnsent
      <4>2. \A d \in Lcores : nb_tx'[d] = nb_tx[d]
            BY <1>2, <3>3 DEF Worker, ReadQueue, AllocFromCache, AllocGoesToRing, Fill, InScope,
               AllocFromRing, AllocFails, Sent, TxBurstStopped, TxBurstCrashes, FreeUnsent, TypeOK
      <4> QED BY <2>1, <2>3, <4>1, <4>2 DEF AllBalanced, Balanced
    <3> QED BY <2>1, <3>1, <3>2, <3>3
  <2> QED BY <2>s, <2>1, <2>2, <2>3
<1>3. ASSUME NEW q \in Queues, Transmit(q) PROVE InScope' /\ AllBalanced'
  <2>1. InScope'
        BY <1>3 DEF Transmit, InScope
  <2>2. AllBalanced'
        BY <1>3, NicBalance DEF Transmit, AllBalanced
  <2> QED BY <2>1, <2>2
<1>4. CASE Stopped \/ UNCHANGED vars
      BY <1>4 DEF Stopped, vars, InScope, AllBalanced, Balanced
<1> QED BY <1>1, <1>2, <1>3, <1>4 DEF Next

(***************************************************************************)
(* total_num agrees with the NIC: with lcores 0 .. n-1 and until main      *)
(* returns, what an lcore has counted, with the burst it has yet to count, *)
(* is what its queue has sent and has still to send, for every burst and   *)
(* ring size and across every wrap of the counters.                        *)
(***************************************************************************)
THEOREM CountersMatchNic == ASSUME Contiguous PROVE Spec => []TotalMatchesNic
<1>1. Init => InScope /\ AllBalanced
  <2> SUFFICES ASSUME Init PROVE InScope /\ AllBalanced
      OBVIOUS
  <2>1. \A c \in Lcores : pending[c] = {} /\ nic_tx[c] = 0
        BY QueuesAreLcores DEF Init
  <2>2. \A c \in Lcores : Balanced(c)
        BY <2>1, FS_EmptySet DEF Init, Balanced
  <2> QED BY <2>2 DEF Init, InScope, AllBalanced
<1>2. Ownership /\ QueueInv /\ InScope /\ AllBalanced /\ [Next]_vars
        => InScope' /\ AllBalanced'
      BY CounterStep DEF CounterInv
<1>3. QueueInv /\ AllBalanced => TotalMatchesNic
      BY DEF QueueInv, OwnQueue, AllBalanced, Balanced, TotalMatchesNic
<1> QED BY <1>1, <1>2, <1>3, OwnershipInvariant, QueueInvariant, PTL DEF Spec

-----------------------------------------------------------------------------
(***************************************************************************)
(* When rte_pktmbuf_alloc of packet_send cannot fail.                      *)
(*                                                                         *)
(* An allocation fails when the common ring is empty and so is the cache   *)
(* of the lcore.  All mbufs are then in the other caches, in the bufs of   *)
(* the lcores, on the Tx rings and on the Rx rings (MbufsConserved), and   *)
(* each of these has a limit; counting them shows that there are fewer     *)
(* than MbufsNeeded.                                                       *)
(***************************************************************************)

\* A set of at most k elements can be numbered from 1 to k.
LEMMA Numbering ==
  ASSUME NEW S, IsFiniteSet(S), NEW k \in Nat, Cardinality(S) <= k
  PROVE  \E e \in [S -> 1 .. k] : \A x, y \in S : e[x] = e[y] => x = y
<1> DEFINE n == Cardinality(S)
<1>1. n \in Nat /\ ExistsBijection(1 .. n, S)
      BY FS_CardinalityType
<1>2. PICK g \in Bijection(1 .. n, S) : TRUE
      BY <1>1 DEF ExistsBijection
<1>3. g \in [1 .. n -> S] /\ \A x \in S : \E j \in 1 .. n : g[j] = x
      BY <1>2 DEF Bijection, Surjection
<1> DEFINE e == [x \in S |-> CHOOSE j \in 1 .. n : g[j] = x]
<1> HIDE DEF n
<1>4. \A x \in S : e[x] \in 1 .. n /\ g[e[x]] = x
      BY <1>3
<1>5. 1 .. n \subseteq 1 .. k
      BY <1>1 DEF n
<1>6. e \in [S -> 1 .. k]
      BY <1>4, <1>5
<1> HIDE DEF e
<1> QED BY <1>4, <1>6

\* The union of the members of a finite family, each of at most k elements.
LEMMA UnionBound ==
  ASSUME NEW I, IsFiniteSet(I), NEW k \in Nat, NEW F,
         \A d \in I : IsFiniteSet(F[d]) /\ Cardinality(F[d]) <= k
  PROVE  /\ IsFiniteSet(UNION {F[d] : d \in I})
         /\ Cardinality(UNION {F[d] : d \in I}) <= Cardinality(I) * k
<1> DEFINE U == UNION {F[d] : d \in I}
           P == I \X (1 .. k)
           At(x) == CHOOSE d \in I : x \in F[d]
           Nr(d) == CHOOSE e \in [F[d] -> 1 .. k] : \A x, y \in F[d] : e[x] = e[y] => x = y
           h == [x \in U |-> <<At(x), Nr(At(x))[x]>>]
<1>1. \A d \in I : /\ Nr(d) \in [F[d] -> 1 .. k]
                   /\ \A x, y \in F[d] : Nr(d)[x] = Nr(d)[y] => x = y
  <2> TAKE d \in I
  <2>1. \E e \in [F[d] -> 1 .. k] : \A x, y \in F[d] : e[x] = e[y] => x = y
        BY Numbering
  <2> QED BY <2>1
<1>2. \A x \in U : At(x) \in I /\ x \in F[At(x)]
      OBVIOUS
<1> HIDE DEF At, Nr
<1>3. h \in [U -> P]
      BY <1>1, <1>2
<1>4. ASSUME NEW x \in U, NEW y \in U, h[x] = h[y] PROVE x = y
  <2>1. At(x) = At(y) /\ Nr(At(x))[x] = Nr(At(y))[y]
        BY <1>4
  <2> QED BY <1>1, <1>2, <2>1
<1>5. h \in Injection(U, P)
      BY <1>3, <1>4 DEF Injection, IsInjective
<1>6. IsFiniteSet(1 .. k) /\ Cardinality(1 .. k) = k
      BY FS_Interval
<1>7. IsFiniteSet(P) /\ Cardinality(P) = Cardinality(I) * k
      BY <1>6, FS_Product
<1> HIDE DEF h, U, P
<1>8. IsFiniteSet(U) /\ Cardinality(U) <= Cardinality(P)
      BY <1>5, <1>7, FS_Injection
<1> QED BY <1>7, <1>8 DEF U

-----------------------------------------------------------------------------
(***************************************************************************)
(* The limits of the places.                                               *)
(***************************************************************************)

\* An lcore asks the ring for one mbuf only when its cache is empty.
RingCacheEmpty == \A c \in Lcores : pc[c] = "ring" => cache[c] = {}

\* A cache stays below the flush threshold.
CacheBound == \A c \in Lcores : Cardinality(cache[c]) <= FlushThresh - 1

\* The driver fills every Rx ring once.
RxBound == Cardinality(rx) <= RxRings * RX_RING_SIZE

Limits == RingCacheEmpty /\ CacheBound /\ RxBound

\* The sets of mbufs are finite.
LEMMA FiniteMbufs ==
  ASSUME NEW S \in SUBSET Mbufs
  PROVE  IsFiniteSet(S) /\ Cardinality(S) \in Nat
BY FS_Subset, FS_CardinalityType, MempoolAssumption

\* A get leaves the cache below the threshold.
LEMMA GetBound ==
  ASSUME TypeOK, CacheBound, NEW c \in Lcores, NEW m \in Mbufs,
         CacheHit(c, m) \/ Backfill(c, m) \/ RingDequeue(m)
  PROVE  /\ Cardinality(cache'[c]) <= FlushThresh - 1
         /\ \A d \in Lcores \ {c} : cache'[d] = cache[d]
<1>1. /\ cache \in [Lcores -> SUBSET Mbufs] /\ common \subseteq Mbufs
      /\ FlushThresh \in Nat /\ FlushThresh > CacheSize /\ CacheSize \in Nat
      BY ConstantTypes, MempoolAssumption DEF TypeOK
<1>2. CASE CacheHit(c, m)
  <2>1. /\ cache'[c] = cache[c] \ {m}
        /\ \A d \in Lcores \ {c} : cache'[d] = cache[d]
        BY <1>1, <1>2 DEF CacheHit
  <2>2. IsFiniteSet(cache[c]) /\ Cardinality(cache[c]) \in Nat
        BY <1>1, FiniteMbufs
  <2>3. Cardinality(cache[c] \ {m}) = Cardinality(cache[c]) - 1
        BY <1>2, <2>2, FS_RemoveElement DEF CacheHit
  <2> QED BY <1>1, <2>1, <2>2, <2>3 DEF CacheBound
<1>3. CASE Backfill(c, m)
  <2>1. PICK objs \in SUBSET common :
          /\ Cardinality(objs) = 1 + CacheSize
          /\ m \in objs
          /\ cache' = [cache EXCEPT ![c] = objs \ {m}]
        BY <1>3 DEF Backfill
  <2>2. IsFiniteSet(objs)
        BY <1>1, FiniteMbufs
  <2>3. Cardinality(objs \ {m}) = CacheSize
        BY <1>1, <2>1, <2>2, FS_RemoveElement
  <2> QED BY <1>1, <2>1, <2>3
<1>4. CASE RingDequeue(m)
      BY <1>4 DEF RingDequeue, CacheBound
<1> QED BY <1>2, <1>3, <1>4

\* So does a put, of one object or of many.
LEMMA PutBound ==
  ASSUME TypeOK, CacheBound, NEW c \in Lcores,
         (\E m \in Mbufs : Put(c, m)) \/ (\E objs \in SUBSET Mbufs : PutBulk(c, objs))
  PROVE  /\ Cardinality(cache'[c]) <= FlushThresh - 1
         /\ \A d \in Lcores \ {c} : cache'[d] = cache[d]
<1>1. /\ cache \in [Lcores -> SUBSET Mbufs]
      /\ FlushThresh \in Nat /\ FlushThresh > CacheSize /\ CacheSize \in Nat
      BY ConstantTypes, MempoolAssumption DEF TypeOK
<1>2. ASSUME NEW m \in Mbufs, Put(c, m)
      PROVE  /\ Cardinality(cache'[c]) <= FlushThresh - 1
             /\ \A d \in Lcores \ {c} : cache'[d] = cache[d]
  <2>1. CASE /\ Cardinality(cache[c]) + 1 < FlushThresh
             /\ cache' = [cache EXCEPT ![c] = @ \cup {m}]
    <3>1. IsFiniteSet(cache[c]) /\ Cardinality(cache[c]) \in Nat
          BY <1>1, FiniteMbufs
    <3>2. Cardinality(cache[c] \cup {m}) <= Cardinality(cache[c]) + 1
          BY <3>1, FS_AddElement
    <3>3. Cardinality(cache[c] \cup {m}) \in Nat
          BY <3>1, FS_AddElement, FS_CardinalityType
    <3> QED BY <1>1, <2>1, <3>1, <3>2, <3>3
  <2>2. CASE \E kept \in SUBSET cache[c] :
               /\ Cardinality(kept) = CacheSize
               /\ cache' = [cache EXCEPT ![c] = kept]
        BY <1>1, <2>2
  <2> QED BY <1>2, <2>1, <2>2 DEF Put
<1>3. ASSUME NEW objs \in SUBSET Mbufs, PutBulk(c, objs)
      PROVE  /\ Cardinality(cache'[c]) <= FlushThresh - 1
             /\ \A d \in Lcores \ {c} : cache'[d] = cache[d]
  <2> DEFINE all == cache[c] \cup objs
  <2>1. CASE /\ Cardinality(all) < FlushThresh
             /\ cache' = [cache EXCEPT ![c] = all]
    <3>1. Cardinality(all) \in Nat
          BY <1>1, FiniteMbufs
    <3> QED BY <1>1, <2>1, <3>1
  <2>2. CASE \E kept \in SUBSET all :
               /\ Cardinality(kept) \in CacheSize .. (FlushThresh - 1)
               /\ cache' = [cache EXCEPT ![c] = kept]
        BY <1>1, <2>2
  <2> QED BY <1>3, <2>1, <2>2 DEF PutBulk
<1> QED BY <1>2, <1>3

LEMMA LimitsInit == Init => Limits
<1> SUFFICES ASSUME Init PROVE Limits
    OBVIOUS
<1>1. Cardinality({}) = 0
      BY FS_EmptySet
<1>2. FlushThresh \in Nat /\ FlushThresh > CacheSize /\ CacheSize \in Nat
      BY ConstantTypes, MempoolAssumption
<1>3. RxRings * RX_RING_SIZE >= 0
      BY ConstantTypes, SendAssumption
<1> QED BY <1>1, <1>2, <1>3
        DEF Init, PoolInit, Limits, RingCacheEmpty, CacheBound, RxBound

LEMMA LimitsStep == Ownership /\ Limits /\ [Next]_vars => Limits'
<1> SUFFICES ASSUME Ownership, Limits, [Next]_vars PROVE Limits'
    OBVIOUS
<1> USE DEF Ownership, IndType, Limits, bootVars, poolVars, nicVars, coreVars
<1>t. /\ cache \in [Lcores -> SUBSET Mbufs] /\ common \subseteq Mbufs
      /\ FlushThresh \in Nat /\ FlushThresh > CacheSize /\ CacheSize \in Nat
      /\ MainLcore \in Lcores
      BY ConstantTypes, MempoolAssumption, SendAssumption DEF TypeOK
<1>1. CASE StartPort \/ StartPortFails
  <2>1. \A c \in Lcores : pc'[c] = "wait"
        BY <1>1 DEF StartPort, StartPortFails, DevStart, DevStartFails, Succeed, Fail,
                    NotLaunched, BootStage
  <2>2. CacheBound'
    <3>1. PICK rest \in SUBSET common :
            /\ Cardinality(rest) <= CacheSize \/ Cardinality(rest) <= FlushThresh - 1
            /\ cache' = [cache EXCEPT ![MainLcore] = rest]
          BY <1>1, <1>t DEF StartPort, StartPortFails, TakeBulk
    <3>2. Cardinality(rest) \in Nat
          BY <1>t, FiniteMbufs
    <3> QED BY <1>t, <3>1, <3>2 DEF CacheBound
  <2>3. RxBound'
    <3>1. CASE StartPort
          BY <3>1, ConstantTypes, SendAssumption DEF StartPort, RxBound
    <3>2. CASE StartPortFails
          BY <3>2 DEF StartPortFails, RxBound
    <3> QED BY <1>1, <3>1, <3>2
  <2> QED BY <2>1, <2>2, <2>3 DEF RingCacheEmpty
<1>2. CASE Main /\ ~StartPort /\ ~StartPortFails
  <2>1. UNCHANGED <<cache, rx>>
        BY <1>2 DEF Main, Boot, Launch, WaitLcores, Exit
  <2>2. \A c \in Lcores : pc'[c] = "ring" => pc[c] = "ring"
        BY <1>2 DEF Main, Boot, Launch, WaitLcores, Exit
  <2> QED BY <2>1, <2>2 DEF RingCacheEmpty, CacheBound, RxBound
<1>3. ASSUME NEW c \in Lcores, Worker(c) PROVE Limits'
  <2>r. rx' = rx
        BY <1>3 DEF Worker, ReadQueue, AllocFromCache, AllocGoesToRing, Fill, AllocFromRing,
           AllocFails, TxBurst, Sent, TxBurstStopped, TxBurstCrashes, FreeUnsent, Count
  <2>p. \A d \in Lcores \ {c} : pc'[d] = pc[d]
        BY <1>3 DEF Worker, ReadQueue, AllocFromCache, AllocGoesToRing, Fill, AllocFromRing,
           AllocFails, TxBurst, Sent, TxBurstStopped, TxBurstCrashes, FreeUnsent, Count, TypeOK
  <2>c. ASSUME Cardinality(cache'[c]) <= FlushThresh - 1,
               \A d \in Lcores \ {c} : cache'[d] = cache[d],
               pc'[c] = "ring" => cache'[c] = {}
        PROVE  Limits'
    <3>1. RingCacheEmpty'
          BY <2>p, <2>c DEF RingCacheEmpty
    <3>2. CacheBound'
          BY <2>c DEF CacheBound
    <3> QED BY <2>r, <3>1, <3>2 DEF RxBound
  <2>1. CASE AllocFromCache(c) \/ AllocFromRing(c)
    <3>1. PICK m \in Mbufs : /\ CacheHit(c, m) \/ Backfill(c, m) \/ RingDequeue(m)
                             /\ Fill(c, m)
          BY <2>1 DEF AllocFromCache, AllocFromRing
    <3>2. pc'[c] # "ring"
          BY <3>1 DEF Fill, TypeOK
    <3> QED BY <2>c, <3>1, <3>2, GetBound
  <2>2. CASE TxBurst(c)
    <3>1. queue_id[c] \in Queues /\ \E old \in SUBSET sent[queue_id[c]] : PutBulk(c, old)
          BY <2>2 DEF TxBurst
    <3>2. \E objs \in SUBSET Mbufs : PutBulk(c, objs)
          BY <3>1 DEF TypeOK
    <3>3. pc'[c] # "ring"
          BY <2>2 DEF TxBurst, Sent, TypeOK
    <3> QED BY <2>c, <3>2, <3>3, PutBound
  <2>3. CASE FreeUnsent(c)
    <3>1. bufs[c][i[c] + 1] \in Mbufs
          BY <2>3, FreeHeld
    <3>2. Put(c, bufs[c][i[c] + 1]) /\ pc'[c] # "ring"
          BY <2>3 DEF FreeUnsent, TypeOK
    <3> QED BY <2>c, <3>1, <3>2, PutBound
  <2>4. CASE ReadQueue(c) \/ AllocGoesToRing(c) \/ AllocFails(c) \/ TxBurstStopped(c)
               \/ TxBurstCrashes(c) \/ Count(c)
    <3>1. cache' = cache
          BY <2>4 DEF ReadQueue, AllocGoesToRing, AllocFails, TxBurstStopped, TxBurstCrashes,
                      Count, BackfillFails, RingDequeueFails
    <3>2. pc'[c] = "ring" => AllocGoesToRing(c) \/ pc[c] = "ring"
          BY <2>4 DEF ReadQueue, AllocFails, TxBurstStopped, Sent, TxBurstCrashes, Count, TypeOK
    <3>3. AllocGoesToRing(c) => cache[c] = {}
          BY DEF AllocGoesToRing, BackfillFails
    <3> QED BY <2>c, <3>1, <3>2, <3>3 DEF RingCacheEmpty, CacheBound
  <2> QED BY <1>3, <2>1, <2>2, <2>3, <2>4 DEF Worker
<1>4. CASE (\E q \in Queues : Transmit(q)) \/ Stopped \/ UNCHANGED vars
  <2>1. UNCHANGED <<cache, rx, pc>>
        BY <1>4 DEF Transmit, Stopped, vars
  <2> QED BY <2>1 DEF RingCacheEmpty, CacheBound, RxBound
<1> QED BY <1>1, <1>2, <1>3, <1>4 DEF Next

-----------------------------------------------------------------------------
(***************************************************************************)
(* Counting the mbufs.                                                     *)
(***************************************************************************)

\* An lcore holds at most as many mbufs as it owns entries of bufs.
LEMMA HeldBound ==
  ASSUME Ownership, NEW c \in Lcores
  PROVE  /\ IsFiniteSet(held[c]) /\ Cardinality(held[c]) \in Nat
         /\ Cardinality(held[c]) <= BURST_SIZE
         /\ pc[c] = "ring" => Cardinality(held[c]) <= BURST_SIZE - 1
<1> DEFINE n == Len(bufs[c])
           f == [k \in 1 .. n |-> bufs[c][k]]
           S == {bufs[c][k] : k \in 1 .. n}
<1>1. /\ n \in Nat /\ n <= BURST_SIZE
      /\ pc[c] = "ring" => n <= BURST_SIZE - 1
      /\ bufs[c] \in Seq(Mbufs) /\ i[c] \in Nat /\ BURST_SIZE \in Nat
  <2>1. bufs[c] \in Seq(Mbufs) /\ i[c] \in 0 .. BURST_SIZE /\ BURST_SIZE \in Nat
        BY SendAssumption DEF Ownership, IndType, TypeOK
  <2>2. pc[c] \in {"wait", "enter", "alloc", "ring", "tx", "free", "count", "failed"}
        BY DEF Ownership, IndType, TypeOK
  <2> QED BY <2>1, <2>2 DEF Ownership, IndType, BurstShape
<1>2. held[c] \subseteq S
  <2>1. Owned(c) \subseteq 1 .. n
        BY <1>1 DEF Owned
  <2> QED BY <2>1 DEF held, OwnedBufs
<1>3. f \in Surjection(1 .. n, S)
      BY DEF Surjection
<1> HIDE DEF n, f, S
<1>4. IsFiniteSet(1 .. n) /\ Cardinality(1 .. n) = n
  <2>1. n \in Nat
        BY <1>1
  <2> QED BY <2>1, FS_Interval
<1>5. IsFiniteSet(S) /\ Cardinality(S) <= n
      BY <1>3, <1>4, FS_Surjection
<1>6. IsFiniteSet(held[c]) /\ Cardinality(held[c]) <= Cardinality(S)
      BY <1>2, <1>5, FS_Subset
<1>7. Cardinality(held[c]) \in Nat /\ Cardinality(S) \in Nat
      BY <1>5, <1>6, FS_CardinalityType
<1> QED BY <1>1, <1>5, <1>6, <1>7

\* The mbufs on the Tx rings.
LEMMA TxBound ==
  ASSUME Ownership
  PROVE  /\ IsFiniteSet(OnTx) /\ Cardinality(OnTx) \in Nat
         /\ Cardinality(OnTx) <= TxRings * TX_RING_SIZE
<1> DEFINE F == [q \in Queues |-> pending[q] \cup sent[q]]
<1>1. IsFiniteSet(Queues) /\ Cardinality(Queues) = TxRings
      BY ConstantTypes, FS_Interval DEF Queues
<1>2. ASSUME NEW q \in Queues
      PROVE  IsFiniteSet(F[q]) /\ Cardinality(F[q]) <= TX_RING_SIZE
  <2>1. pending[q] \subseteq Mbufs /\ sent[q] \subseteq Mbufs
        BY DEF Ownership, IndType, TypeOK
  <2>2. /\ IsFiniteSet(pending[q]) /\ Cardinality(pending[q]) \in Nat
        /\ IsFiniteSet(sent[q]) /\ Cardinality(sent[q]) \in Nat
        /\ Cardinality(pending[q] \cap sent[q]) \in Nat
        /\ Cardinality(pending[q] \cup sent[q]) \in Nat
        BY <2>1, FiniteMbufs
  <2>3. /\ IsFiniteSet(pending[q] \cup sent[q])
        /\ Cardinality(pending[q] \cup sent[q]) =
             Cardinality(pending[q]) + Cardinality(sent[q]) - Cardinality(pending[q] \cap sent[q])
        BY <2>2, FS_Union
  <2>4. Cardinality(pending[q]) + Cardinality(sent[q]) <= TX_RING_SIZE
        BY DEF Ownership, IndType, TxRingBound, InUse
  <2> QED BY <2>2, <2>3, <2>4, SendAssumption
<1>3. OnTx = UNION {F[q] : q \in Queues}
      BY DEF OnTx
<1> HIDE DEF F
<1>4. TX_RING_SIZE \in Nat
      BY SendAssumption
<1>5. IsFiniteSet(OnTx) /\ Cardinality(OnTx) <= Cardinality(Queues) * TX_RING_SIZE
      BY <1>1, <1>2, <1>3, <1>4, UnionBound
<1> QED BY <1>1, <1>5, FS_CardinalityType

\* The union of two finite sets is no larger than the two together.
LEMMA UnionSize ==
  ASSUME NEW S, IsFiniteSet(S), NEW T, IsFiniteSet(T)
  PROVE  /\ IsFiniteSet(S \cup T) /\ Cardinality(S \cup T) \in Nat
         /\ Cardinality(S) \in Nat /\ Cardinality(T) \in Nat
         /\ Cardinality(S \cup T) <= Cardinality(S) + Cardinality(T)
<1>1. /\ IsFiniteSet(S \cup T)
      /\ Cardinality(S \cup T) = Cardinality(S) + Cardinality(T) - Cardinality(S \cap T)
      BY FS_Union
<1>2. IsFiniteSet(S \cap T)
      BY FS_Subset
<1>3. /\ Cardinality(S \cap T) \in Nat /\ Cardinality(S \cup T) \in Nat
      /\ Cardinality(S) \in Nat /\ Cardinality(T) \in Nat
      BY <1>1, <1>2, FS_CardinalityType
<1> QED BY <1>1, <1>3

\* An allocation of packet_send that fails has counted all mbufs as used.
LEMMA FailureCount ==
  ASSUME Ownership, Limits, NEW c \in Lcores, AllocFails(c)
  PROVE  Cardinality(Mbufs) < MbufsNeeded
<1> DEFINE others == Lcores \ {c}
           caches == UNION {cache[d] : d \in others}
           helds == UNION {held[d] : d \in others}
           n == NumCores - 1
           f == FlushThresh - 1
<1>1. pc[c] = "ring" /\ common = {} /\ cache[c] = {}
      BY DEF AllocFails, RingDequeueFails, Limits, RingCacheEmpty
<1>2. IsFiniteSet(others) /\ Cardinality(others) = n /\ n \in Nat
  <2>1. /\ IsFiniteSet(others)
        /\ Cardinality(others) = Cardinality(Lcores) - 1
        BY MempoolAssumption, FS_RemoveElement
  <2>2. Cardinality(others) \in Nat
        BY <2>1, FS_CardinalityType
  <2> QED BY <2>1, <2>2 DEF NumCores
<1>3. f \in Nat /\ BURST_SIZE \in Nat
      BY ConstantTypes, MempoolAssumption, SendAssumption
<1>4. IsFiniteSet(caches) /\ Cardinality(caches) <= n * f
  <2>1. \A d \in others : IsFiniteSet(cache[d]) /\ Cardinality(cache[d]) <= f
        BY FiniteMbufs DEF Ownership, IndType, TypeOK, Limits, CacheBound
  <2> HIDE DEF others, f
  <2>2. /\ IsFiniteSet(UNION {cache[d] : d \in others})
        /\ Cardinality(UNION {cache[d] : d \in others}) <= Cardinality(others) * f
        BY <1>2, <1>3, <2>1, UnionBound
  <2> QED BY <1>2, <2>2
<1>5. IsFiniteSet(helds) /\ Cardinality(helds) <= n * BURST_SIZE
  <2>1. \A d \in others : IsFiniteSet(held[d]) /\ Cardinality(held[d]) <= BURST_SIZE
        BY HeldBound
  <2> HIDE DEF others
  <2>2. /\ IsFiniteSet(UNION {held[d] : d \in others})
        /\ Cardinality(UNION {held[d] : d \in others}) <= Cardinality(others) * BURST_SIZE
        BY <1>2, <1>3, <2>1, UnionBound
  <2> QED BY <1>2, <2>2
<1>6. /\ IsFiniteSet(held[c]) /\ Cardinality(held[c]) <= BURST_SIZE - 1
      BY <1>1, HeldBound
<1>7. IsFiniteSet(OnTx) /\ Cardinality(OnTx) <= TxRings * TX_RING_SIZE
      BY TxBound
<1>8. IsFiniteSet(rx) /\ Cardinality(rx) <= RxRings * RX_RING_SIZE
      BY FiniteMbufs DEF Ownership, IndType, TypeOK, Limits, RxBound
<1>9. Mbufs = (((caches \cup helds) \cup held[c]) \cup OnTx) \cup rx
  <2>1. Mbufs \subseteq (((caches \cup helds) \cup held[c]) \cup OnTx) \cup rx
        BY <1>1 DEF Ownership, Parted, Cover, OnTx
  <2>2. /\ held \in [Lcores -> SUBSET Mbufs] /\ cache \in [Lcores -> SUBSET Mbufs]
        /\ pending \in [Queues -> SUBSET Mbufs] /\ sent \in [Queues -> SUBSET Mbufs]
        /\ rx \subseteq Mbufs
        BY HeldType DEF Ownership, IndType, TypeOK
  <2>3. (((caches \cup helds) \cup held[c]) \cup OnTx) \cup rx \subseteq Mbufs
        BY <2>2 DEF OnTx
  <2> QED BY <2>1, <2>3
<1> HIDE DEF caches, helds
<1> DEFINE s1 == caches \cup helds
           s2 == s1 \cup held[c]
           s3 == s2 \cup OnTx
           s4 == s3 \cup rx
<1>10. /\ IsFiniteSet(s1) /\ Cardinality(s1) \in Nat
       /\ Cardinality(caches) \in Nat /\ Cardinality(helds) \in Nat
       /\ Cardinality(s1) <= Cardinality(caches) + Cardinality(helds)
       BY <1>4, <1>5, UnionSize
<1> HIDE DEF s1
<1>11. /\ IsFiniteSet(s2) /\ Cardinality(s2) \in Nat /\ Cardinality(held[c]) \in Nat
       /\ Cardinality(s2) <= Cardinality(s1) + Cardinality(held[c])
       BY <1>6, <1>10, UnionSize
<1> HIDE DEF s2
<1>12. /\ IsFiniteSet(s3) /\ Cardinality(s3) \in Nat /\ Cardinality(OnTx) \in Nat
       /\ Cardinality(s3) <= Cardinality(s2) + Cardinality(OnTx)
       BY <1>7, <1>11, UnionSize
<1> HIDE DEF s3
<1>13. /\ Cardinality(s4) \in Nat /\ Cardinality(rx) \in Nat
       /\ Cardinality(s4) <= Cardinality(s3) + Cardinality(rx)
       BY <1>8, <1>12, UnionSize
<1>14. Cardinality(Mbufs) = Cardinality(s4)
       BY <1>9 DEF s1, s2, s3
<1> HIDE DEF s4
<1> DEFINE a == n * f
           b == n * BURST_SIZE
           t == TxRings * TX_RING_SIZE
           r == RxRings * RX_RING_SIZE
<1>15. a \in Nat /\ b \in Nat /\ t \in Nat /\ r \in Nat
       BY <1>2, <1>3, ConstantTypes, SendAssumption
<1>16. MbufsNeeded = r + t + (b + BURST_SIZE) + a
  <2>1. NumCores * BURST_SIZE = b + BURST_SIZE
    <3>1. NumCores = n + 1
          BY <1>2, ConstantTypes
    <3> HIDE DEF n
    <3>2. (n + 1) * BURST_SIZE = n * BURST_SIZE + BURST_SIZE
          BY <1>2, <1>3
    <3> QED BY <3>1, <3>2
  <2> QED BY <2>1 DEF MbufsNeeded
<1> HIDE DEF a, b, t, r
<1>17. Cardinality(Mbufs) <= a + b + (BURST_SIZE - 1) + t + r
  <2>1. /\ Cardinality(caches) <= a /\ Cardinality(helds) <= b
        /\ Cardinality(OnTx) <= t /\ Cardinality(rx) <= r
        BY <1>4, <1>5, <1>7, <1>8 DEF a, b, t, r
  <2> QED BY <1>3, <1>6, <1>10, <1>11, <1>12, <1>13, <1>14, <1>15, <2>1
<1> QED BY <1>3, <1>14, <1>13, <1>15, <1>16, <1>17

(***************************************************************************)
(* "rte_pktmbuf_alloc failed" is a question of sizing: when the pool has   *)
(* MbufsNeeded mbufs, no interleaving of the lcores and the NIC makes an   *)
(* allocation of packet_send fail, so no lcore ever leaves its loop.       *)
(***************************************************************************)
THEOREM NoFailureWhenProvisioned == Spec => []NoFailureIfProvisioned
<1>1. Init => Limits /\ NoFailureIfProvisioned
      BY LimitsInit DEF Init, NoFailureIfProvisioned
<1>2. ASSUME Ownership, Limits, NoFailureIfProvisioned, [Next]_vars
      PROVE  NoFailureIfProvisioned'
  <2> USE <1>2 DEF Ownership, IndType, bootVars, poolVars, nicVars, coreVars
  <2> SUFFICES ASSUME Provisioned, NEW d \in Lcores, pc'[d] = "failed" PROVE FALSE
      BY DEF NoFailureIfProvisioned, Provisioned, MbufsNeeded, NumCores, FlushThresh
  <2>1. pc[d] # "failed"
        BY DEF NoFailureIfProvisioned
  <2>2. \E c \in Lcores : AllocFails(c)
        BY <2>1 DEF Next, Main, Boot, StartPort, StartPortFails, Launch, WaitLcores, Exit, Worker,
           ReadQueue, AllocFromCache, AllocGoesToRing, Fill, AllocFromRing, TxBurst, Sent,
           TxBurstStopped, TxBurstCrashes, FreeUnsent, Count, Transmit, Stopped, vars, TypeOK
  <2>3. Cardinality(Mbufs) < MbufsNeeded
        BY <2>2, FailureCount
  <2>4. Cardinality(Mbufs) \in Nat /\ MbufsNeeded \in Int
        BY MempoolAssumption, FS_CardinalityType, ConstantTypes, SendAssumption DEF MbufsNeeded
  <2> QED BY <2>3, <2>4 DEF Provisioned
<1> QED BY <1>1, <1>2, LimitsStep, OwnershipInvariant, PTL DEF Spec

(***************************************************************************)
(* config is never stale in such a process: main's frame, which every      *)
(* lcore reads without any synchronisation, is there as long as an lcore   *)
(* is in packet_send_process, because main cannot leave its wait loop.     *)
(***************************************************************************)
THEOREM ConfigNeverStale == ASSUME Contiguous PROVE Spec => []ConfigOutlivesLcores
<1>1. Init => ConfigOutlivesLcores
      BY DEF Init, ConfigOutlivesLcores
<1>2. ASSUME QueueInv, QueueInv', NoFailureIfProvisioned', ConfigOutlivesLcores, [Next]_vars
      PROVE  ConfigOutlivesLcores'
  <2> USE <1>2 DEF QueueInv, IndType, bootVars, poolVars, nicVars, coreVars
  <2> SUFFICES ASSUME Provisioned, NEW c \in Lcores, pc'[c] # "wait" PROVE stage' = "run"
      BY DEF ConfigOutlivesLcores, Provisioned, MbufsNeeded, NumCores, FlushThresh
  <2>1. stage' \notin {"return", "crash"}
    <3>1. pc'[MainLcore] # "failed"
          BY SendAssumption DEF NoFailureIfProvisioned, Provisioned, MbufsNeeded, NumCores,
             FlushThresh
    <3> QED BY <3>1 DEF EndsOnlyAfterMainFailed
  <2>2. CASE pc[c] = "wait"
    <3>1. CASE Launch
          BY <3>1 DEF Launch
    <3>2. CASE Boot \/ StartPort \/ StartPortFails \/ WaitLcores \/ Exit
          BY <2>2, <3>2 DEF Boot, StartPort, StartPortFails, WaitLcores, Exit
    <3>3. ASSUME NEW d \in Lcores, Worker(d) PROVE FALSE
      <4>1. pc[d] # "wait"
            BY <3>3 DEF Worker, ReadQueue, AllocFromCache, AllocGoesToRing, AllocFromRing,
               AllocFails, TxBurst, TxBurstStopped, TxBurstCrashes, FreeUnsent, Count
      <4>2. CASE TxBurstCrashes(d)
            BY <2>2, <4>2 DEF TxBurstCrashes
      <4>3. CASE ~TxBurstCrashes(d)
        <5>1. PICK p : pc' = [pc EXCEPT ![d] = p]
              BY <3>3, <4>3 DEF Worker, ReadQueue, AllocFromCache, AllocGoesToRing, Fill,
                 AllocFromRing, AllocFails, TxBurst, Sent, TxBurstStopped, FreeUnsent, Count
        <5> QED BY <2>2, <4>1, <5>1 DEF TypeOK
      <4> QED BY <4>2, <4>3
    <3>4. CASE (\E q \in Queues : Transmit(q)) \/ Stopped \/ UNCHANGED vars
          BY <2>2, <3>4 DEF Transmit, Stopped, vars
    <3> QED BY <3>1, <3>2, <3>3, <3>4 DEF Next, Main
  <2>3. CASE pc[c] # "wait"
    <3>1. stage = "run"
          BY <2>3 DEF ConfigOutlivesLcores
    <3>2. CASE Main
      <4>1. CASE Boot \/ StartPort \/ StartPortFails
        <5>1. stage \in BootStage
              BY <4>1, BootType DEF Boot, StartPort, StartPortFails, TypeOK
        <5> QED BY <3>1, <5>1 DEF BootStage
      <4>2. CASE Launch \/ WaitLcores \/ Exit
            BY <2>1, <3>1, <4>2 DEF Launch, WaitLcores, Exit
      <4> QED BY <3>2, <4>1, <4>2 DEF Main
    <3>3. CASE ~Main
      <4>1. stage' = stage \/ stage' = "crash"
            BY <3>3 DEF Next, Worker, ReadQueue, AllocFromCache, AllocGoesToRing, Fill,
               AllocFromRing, AllocFails, TxBurst, Sent, TxBurstStopped, TxBurstCrashes,
               FreeUnsent, Count, Transmit, Stopped, vars
      <4> QED BY <2>1, <3>1, <4>1
    <3> QED BY <3>2, <3>3
  <2> QED BY <2>2, <2>3
<1> QED BY <1>1, <1>2, QueueInvariant, NoFailureWhenProvisioned, PTL DEF Spec
=============================================================================
