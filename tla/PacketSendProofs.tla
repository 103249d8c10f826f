-------------------------- MODULE PacketSendProofs --------------------------
(***************************************************************************)
(* Theorems about PacketSend, for every number of lcores, mbufs and        *)
(* descriptors and for every burst and cache size.                         *)
(***************************************************************************)
EXTENDS PacketSend, PortProofs, FiniteSetTheorems, TLAPS

USE DEF Alive, Halted, ConfigLive

(***************************************************************************)
(* How far the arrays of an lcore are filled at each point of its loop.    *)
(***************************************************************************)
BurstShape ==
  \A c \in Lcores :
     /\ pc[c] \in {"wait", "enter", "alloc", "ring", "failed"} =>
           Len(bufs[c]) = i[c] /\ i[c] < BURST_SIZE
     /\ pc[c] \in {"tx", "free", "count"} => Len(bufs[c]) = BURST_SIZE
     /\ pc[c] = "free" => i[c] < BURST_SIZE
     /\ pc[c] = "count" => i[c] = BURST_SIZE

\* No lcore runs before Launch.
NotLaunched ==
  stage \in BootStage \cup {"launch"} => \A c \in Lcores : pc[c] = "wait"

\* A Tx ring holds no more mbufs than it has descriptors.
TxRingBound == \A q \in Queues : InUse(q) <= TX_RING_SIZE

IndType == TypeOK /\ PortShape /\ NotLaunched /\ BurstShape /\ TxRingBound

-----------------------------------------------------------------------------

LEMMA ConstantTypes ==
  /\ NumCores \in Nat
  /\ TxRings \in Nat \ {0} /\ RxRings \in Nat \ {0}
  /\ FlushThresh \in Nat /\ FlushThresh > CacheSize
BY MempoolAssumption, PortAssumption, SendAssumption, FS_CardinalityType
   DEF NumCores, FlushThresh

LEMMA InitType == Init => IndType
<1> SUFFICES ASSUME Init PROVE IndType
    OBVIOUS
<1> USE DEF Init, BootInit, PoolInit
<1>1. TypeOK
      BY ConstantTypes, SendAssumption
         DEF TypeOK, BootStage, Device, Queues, NoQueue
<1>2. BurstShape /\ PortShape /\ NotLaunched
      BY SendAssumption DEF BurstShape, PortShape, BeforeQueues, NotLaunched
<1>3. TxRingBound
      BY SendAssumption, FS_EmptySet DEF TxRingBound, InUse
<1> QED BY <1>1, <1>2, <1>3 DEF IndType

\* What a burst finds: every set on a Tx ring is finite, the entries of bufs
\* exist, and the number n of packets taken lies between 0 and BURST_SIZE.
LEMMA BurstFacts ==
  ASSUME IndType, NEW c \in Lcores, pc[c] = "tx", queue_id[c] \in Queues,
         NEW old \in SUBSET sent[queue_id[c]]
  PROVE  LET q == queue_id[c]
             n == Lesser(BURST_SIZE, TX_RING_SIZE - (InUse(q) - Cardinality(old)))
         IN  /\ IsFiniteSet(pending[q]) /\ IsFiniteSet(sent[q]) /\ IsFiniteSet(old)
             /\ Cardinality(old) \in Nat /\ Cardinality(old) <= Cardinality(sent[q])
             /\ InUse(q) \in Nat
             /\ n \in 0 .. BURST_SIZE
             /\ n <= TX_RING_SIZE - (InUse(q) - Cardinality(old))
             /\ FirstBufs(c, n) \subseteq Mbufs
             /\ IsFiniteSet(FirstBufs(c, n))
             /\ Cardinality(FirstBufs(c, n)) <= n
<1> DEFINE q == queue_id[c]
           free == TX_RING_SIZE - (InUse(q) - Cardinality(old))
           n == Lesser(BURST_SIZE, free)
<1>1. /\ pending[q] \subseteq Mbufs /\ sent[q] \subseteq Mbufs
      /\ Len(bufs[c]) = BURST_SIZE /\ bufs[c] \in Seq(Mbufs)
      /\ InUse(q) <= TX_RING_SIZE
      BY DEF IndType, TypeOK, BurstShape, TxRingBound
<1>2. /\ IsFiniteSet(pending[q]) /\ IsFiniteSet(sent[q]) /\ IsFiniteSet(old)
      /\ Cardinality(old) <= Cardinality(sent[q])
      BY <1>1, FS_Subset, MempoolAssumption
<1>3. /\ Cardinality(old) \in Nat /\ Cardinality(sent[q]) \in Nat
      /\ Cardinality(pending[q]) \in Nat
      BY <1>2, FS_CardinalityType
<1>4. InUse(q) \in Nat
      BY <1>3 DEF InUse
<1>5. n \in 0 .. BURST_SIZE /\ n <= free
      BY <1>1, <1>3, <1>4, SendAssumption DEF Lesser
<1> HIDE DEF n
<1>6. FirstBufs(c, n) \subseteq Mbufs
      BY <1>1, <1>5, SendAssumption DEF FirstBufs
<1>7. IsFiniteSet(FirstBufs(c, n)) /\ Cardinality(FirstBufs(c, n)) <= n
  <2> DEFINE f == [k \in 1 .. n |-> bufs[c][k]]
  <2>1. f \in Surjection(1 .. n, FirstBufs(c, n))
        BY DEF Surjection, FirstBufs
  <2>2. IsFiniteSet(1 .. n) /\ Cardinality(1 .. n) = n
        BY <1>5, FS_Interval
  <2> QED BY <2>1, <2>2, FS_Surjection
<1> QED BY <1>2, <1>3, <1>4, <1>5, <1>6, <1>7 DEF n

-----------------------------------------------------------------------------
(***************************************************************************)
(* Every step preserves the types.                                         *)
(***************************************************************************)

\* A put moves objects between the cache of the lcore, the ring and the caller.
LEMMA PutType ==
  ASSUME NEW c \in Lcores, NEW m \in Mbufs, Put(c, m),
         common \subseteq Mbufs, cache \in [Lcores -> SUBSET Mbufs]
  PROVE  common' \subseteq Mbufs /\ cache' \in [Lcores -> SUBSET Mbufs]
<1>1. CASE cache' = [cache EXCEPT ![c] = @ \cup {m}] /\ UNCHANGED common
      BY <1>1
<1>2. CASE \E kept \in SUBSET cache[c] :
             /\ cache' = [cache EXCEPT ![c] = kept]
             /\ common' = common \cup ((cache[c] \ kept) \cup {m})
      BY <1>2
<1> QED BY <1>1, <1>2 DEF Put

LEMMA PutBulkType ==
  ASSUME NEW c \in Lcores, NEW objs \in SUBSET Mbufs, PutBulk(c, objs),
         common \subseteq Mbufs, cache \in [Lcores -> SUBSET Mbufs]
  PROVE  common' \subseteq Mbufs /\ cache' \in [Lcores -> SUBSET Mbufs]
<1> DEFINE all == cache[c] \cup objs
<1>1. CASE cache' = [cache EXCEPT ![c] = all] /\ UNCHANGED common
      BY <1>1
<1>2. CASE \E kept \in SUBSET all :
             /\ cache' = [cache EXCEPT ![c] = kept]
             /\ common' = common \cup (all \ kept)
      BY <1>2
<1> QED BY <1>1, <1>2 DEF PutBulk

LEMMA TypeStep == IndType /\ [Next]_vars => TypeOK' /\ PortShape'
<1> SUFFICES ASSUME IndType, [Next]_vars PROVE TypeOK' /\ PortShape'
    OBVIOUS
<1> USE DEF IndType, bootVars, poolVars, nicVars, coreVars
<1>c. /\ TxRings \in Nat \ {0} /\ RxRings \in Nat \ {0}
      /\ BURST_SIZE \in Nat \ {0} /\ CounterMod \in Nat \ {0}
      /\ MainLcore \in Lcores
      BY ConstantTypes, SendAssumption
<1>1. CASE Boot
      BY <1>1, BootType DEF Boot, TypeOK
<1>2. CASE StartPort
  <2>1. rx' \subseteq Mbufs /\ common' \subseteq Mbufs /\ cache' \in [Lcores -> SUBSET Mbufs]
        BY <1>2, <1>c DEF StartPort, TakeBulk, TypeOK
  <2> QED BY <1>2, <2>1, BootType DEF StartPort, TypeOK
<1>3. CASE StartPortFails
  <2>1. common' \subseteq Mbufs /\ cache' \in [Lcores -> SUBSET Mbufs]
        BY <1>3, <1>c DEF StartPortFails, TakeBulk, TypeOK
  <2> QED BY <1>3, <2>1, BootType DEF StartPortFails, TypeOK
<1>4. CASE Launch \/ WaitLcores \/ Exit \/ Stopped \/ UNCHANGED vars
      BY <1>4 DEF Launch, WaitLcores, Exit, Stopped, vars, TypeOK, PortShape, BeforeQueues
<1>5. ASSUME NEW c \in Lcores, Worker(c)
      PROVE  TypeOK' /\ PortShape'
  <2> USE <1>5, <1>c
  <2>f. ASSUME NEW m \in Mbufs, Fill(c, m), i[c] < BURST_SIZE,
               common' \subseteq Mbufs, cache' \in [Lcores -> SUBSET Mbufs]
        PROVE  TypeOK' /\ PortShape'
    <3>1. bufs' \in [Lcores -> Seq(Mbufs)]
          BY <2>f DEF Fill, TypeOK
    <3>2. i' \in [Lcores -> 0 .. BURST_SIZE]
          BY <2>f DEF Fill, TypeOK
    <3> QED BY <2>f, <3>1, <3>2 DEF Fill, TypeOK, PortShape
  <2>s. ASSUME NEW n \in 0 .. BURST_SIZE, Sent(c, n),
               common' \subseteq Mbufs, cache' \in [Lcores -> SUBSET Mbufs],
               pending' \in [Queues -> SUBSET Mbufs], sent' \in [Queues -> SUBSET Mbufs]
        PROVE  TypeOK' /\ PortShape'
        BY <2>s DEF Sent, TypeOK, PortShape
  <2>1. CASE ReadQueue(c)
    <3>1. QueueRead(c) \subseteq Queues \cup {NoQueue}
          BY DEF QueueRead, queues, Queues
    <3>2. queue_id' \in [Lcores -> Queues \cup {NoQueue}]
          BY <2>1, <3>1 DEF ReadQueue, TypeOK
    <3> QED BY <2>1, <3>2 DEF ReadQueue, TypeOK, PortShape
  <2>2. CASE AllocFromCache(c)
    <3>1. PICK m \in Mbufs : (CacheHit(c, m) \/ Backfill(c, m)) /\ Fill(c, m)
          BY <2>2 DEF AllocFromCache
    <3>2. common' \subseteq Mbufs /\ cache' \in [Lcores -> SUBSET Mbufs]
          BY <3>1 DEF CacheHit, Backfill, TypeOK
    <3>3. i[c] < BURST_SIZE
          BY <2>2 DEF AllocFromCache, BurstShape
    <3> QED BY <2>f, <3>1, <3>2, <3>3
  <2>3. CASE AllocGoesToRing(c) \/ AllocFails(c)
        BY <2>3 DEF AllocGoesToRing, AllocFails, BackfillFails, RingDequeueFails, TypeOK, PortShape
  <2>4. CASE AllocFromRing(c)
    <3>1. PICK m \in Mbufs : RingDequeue(m) /\ Fill(c, m)
          BY <2>4 DEF AllocFromRing
    <3>2. common' \subseteq Mbufs /\ cache' \in [Lcores -> SUBSET Mbufs]
          BY <3>1 DEF RingDequeue, TypeOK
    <3>3. i[c] < BURST_SIZE
          BY <2>4 DEF AllocFromRing, BurstShape
    <3> QED BY <2>f, <3>1, <3>2, <3>3
  <2>5. CASE TxBurst(c)
    <3> DEFINE q == queue_id[c]
               N(old) == Lesser(BURST_SIZE, TX_RING_SIZE - (InUse(q) - Cardinality(old)))
    <3>1. PICK old \in SUBSET sent[q] :
            /\ PutBulk(c, old)
            /\ sent' = [sent EXCEPT ![q] = @ \ old]
            /\ pending' = [pending EXCEPT ![q] = @ \cup FirstBufs(c, N(old))]
            /\ Sent(c, N(old))
          BY <2>5 DEF TxBurst
    <3>2. pc[c] = "tx" /\ q \in Queues
          BY <2>5 DEF TxBurst
    <3>3. N(old) \in 0 .. BURST_SIZE /\ FirstBufs(c, N(old)) \subseteq Mbufs
          BY <3>2, BurstFacts
    <3> HIDE DEF N
    <3>4. /\ pending' \in [Queues -> SUBSET Mbufs]
          /\ sent' \in [Queues -> SUBSET Mbufs]
          /\ old \subseteq Mbufs
          BY <3>1, <3>2, <3>3 DEF TypeOK
    <3>5. common' \subseteq Mbufs /\ cache' \in [Lcores -> SUBSET Mbufs]
          BY <3>1, <3>4, PutBulkType DEF TypeOK
    <3> QED BY <2>s, <3>1, <3>3, <3>4, <3>5
  <2>6. CASE TxBurstStopped(c)
    <3>1. /\ common' \subseteq Mbufs /\ cache' \in [Lcores -> SUBSET Mbufs]
          /\ pending' \in [Queues -> SUBSET Mbufs] /\ sent' \in [Queues -> SUBSET Mbufs]
          /\ Sent(c, 0)
          BY <2>6 DEF TxBurstStopped, TypeOK
    <3> QED BY <2>s, <3>1
  <2>7. CASE TxBurstCrashes(c)
        BY <2>7 DEF TxBurstCrashes, TypeOK, PortShape, BeforeQueues
  <2>8. CASE FreeUnsent(c)
    <3>1. i[c] < BURST_SIZE /\ Len(bufs[c]) = BURST_SIZE /\ i[c] \in 0 .. BURST_SIZE
          BY <2>8 DEF FreeUnsent, BurstShape, TypeOK
    <3>2. bufs[c][i[c] + 1] \in Mbufs
          BY <3>1 DEF TypeOK
    <3>3. common' \subseteq Mbufs /\ cache' \in [Lcores -> SUBSET Mbufs]
          BY <2>8, <3>2, PutType DEF FreeUnsent, TypeOK
    <3>4. i' \in [Lcores -> 0 .. BURST_SIZE]
          BY <2>8, <3>1 DEF FreeUnsent, TypeOK
    <3> QED BY <2>8, <3>3, <3>4 DEF FreeUnsent, TypeOK, PortShape
  <2>9. CASE Count(c)
    <3>1. \A n \in Nat : n % CounterMod \in 0 .. (CounterMod - 1)
          OBVIOUS
    <3> DEFINE t == (total_num[c] + nb_tx[c]) % CounterMod
               b == (burst_num[c] + 1) % CounterMod
    <3>2. t \in 0 .. (CounterMod - 1) /\ b \in 0 .. (CounterMod - 1)
      <4>1. total_num[c] + nb_tx[c] \in Nat /\ burst_num[c] + 1 \in Nat
            BY DEF TypeOK
      <4> QED BY <3>1, <4>1
    <3>t. /\ total_num' = [total_num EXCEPT ![c] = t]
          /\ burst_num' = [burst_num EXCEPT ![c] = b]
          BY <2>9 DEF Count
    <3> HIDE DEF t, b
    <3>3. /\ total_num' \in [Lcores -> 0 .. (CounterMod - 1)]
          /\ burst_num' \in [Lcores -> 0 .. (CounterMod - 1)]
          BY <3>t, <3>2 DEF TypeOK
    <3>4. /\ bufs' \in [Lcores -> Seq(Mbufs)]
          /\ i' \in [Lcores -> 0 .. BURST_SIZE]
          /\ nb_tx' \in [Lcores -> 0 .. BURST_SIZE]
      <4>1. /\ bufs' = [bufs EXCEPT ![c] = <<>>]
            /\ i' = [i EXCEPT ![c] = 0]
            /\ nb_tx' = [nb_tx EXCEPT ![c] = 0]
            BY <2>9 DEF Count
      <4>2. <<>> \in Seq(Mbufs) /\ 0 \in 0 .. BURST_SIZE
            OBVIOUS
      <4> QED BY <4>1, <4>2 DEF TypeOK
    <3> QED BY <2>9, <3>3, <3>4 DEF Count, TypeOK, PortShape
  <2> QED BY <2>1, <2>2, <2>3, <2>4, <2>5, <2>6, <2>7, <2>8, <2>9 DEF Worker
<1>6. ASSUME NEW q \in Queues, Transmit(q)
      PROVE  TypeOK' /\ PortShape'
  <2>1. nic_tx' \in [Queues -> 0 .. (CounterMod - 1)]
        BY <1>6, <1>c DEF Transmit, TypeOK
  <2> QED BY <1>6, <2>1 DEF Transmit, TypeOK, PortShape
<1> QED BY <1>1, <1>2, <1>3, <1>4, <1>5, <1>6 DEF Next, Main

\* An lcore runs only while the process does, and ends it only by crashing.
LEMMA WorkerStage ==
  ASSUME NEW c \in Lcores, Worker(c)
  PROVE  stage \in {"run", "return"} /\ stage' \in {stage, "crash"}
BY DEF Worker, ReadQueue, AllocFromCache, AllocGoesToRing, Fill, AllocFromRing, AllocFails,
       TxBurst, Sent, TxBurstStopped, TxBurstCrashes, FreeUnsent, Count, bootVars

LEMMA LaunchStep == IndType /\ [Next]_vars => NotLaunched'
<1> SUFFICES ASSUME IndType, [Next]_vars PROVE NotLaunched'
    OBVIOUS
<1> USE DEF IndType, NotLaunched, bootVars, poolVars, nicVars, coreVars, BootStage
<1>1. CASE Boot \/ StartPort \/ StartPortFails
  <2>1. UNCHANGED pc
        BY <1>1 DEF Boot, StartPort, StartPortFails
  <2>2. stage \in BootStage
        BY <1>1, BootType DEF Boot, StartPort, StartPortFails, TypeOK
  <2> QED BY <2>1, <2>2
<1>2. CASE Launch \/ WaitLcores \/ Exit
      BY <1>2 DEF Launch, WaitLcores, Exit
<1>3. ASSUME NEW c \in Lcores, Worker(c)
      PROVE  NotLaunched'
      BY <1>3, WorkerStage
<1>4. ASSUME NEW q \in Queues, Transmit(q)
      PROVE  NotLaunched'
      BY <1>4 DEF Transmit
<1>5. CASE Stopped \/ UNCHANGED vars
      BY <1>5 DEF Stopped, vars
<1> QED BY <1>1, <1>2, <1>3, <1>4, <1>5 DEF Next, Main

\* A step of one lcore leaves the arrays of the others alone, and keeps its own
\* filled as far as its new place in the loop asks for.
LEMMA ShapeStep == IndType /\ [Next]_vars => BurstShape'
<1> SUFFICES ASSUME IndType, [Next]_vars PROVE BurstShape'
    OBVIOUS
<1> USE DEF IndType, bootVars, poolVars, nicVars, coreVars
<1>c. /\ BURST_SIZE \in Nat \ {0}
      /\ \A d \in Lcores : i[d] \in 0 .. BURST_SIZE /\ bufs[d] \in Seq(Mbufs)
      /\ pc \in [Lcores -> {"wait", "enter", "alloc", "ring", "tx",
                            "free", "count", "failed"}]
      /\ DOMAIN i = Lcores /\ DOMAIN bufs = Lcores
      BY SendAssumption DEF TypeOK
<1>u. ASSUME UNCHANGED <<pc, i, bufs>> PROVE BurstShape'
      BY <1>u DEF BurstShape
<1>1. CASE Boot \/ StartPort \/ StartPortFails \/ WaitLcores \/ Exit \/ Stopped
           \/ UNCHANGED vars
      BY <1>1, <1>u DEF Boot, StartPort, StartPortFails, WaitLcores, Exit, Stopped, vars
<1>2. CASE Launch
  <2>1. stage = "launch"
        BY <1>2 DEF Launch
  <2>2. \A d \in Lcores : Len(bufs[d]) = i[d] /\ i[d] < BURST_SIZE
        BY <2>1 DEF NotLaunched, BurstShape
  <2> QED BY <1>2, <2>2 DEF Launch, BurstShape
<1>3. ASSUME NEW c \in Lcores, Worker(c)
      PROVE  BurstShape'
  <2> USE <1>3, <1>c
  <2>f. ASSUME NEW m \in Mbufs, Fill(c, m), pc[c] \in {"alloc", "ring"}
        PROVE  BurstShape'
    <3>1. Len(bufs[c]) = i[c] /\ i[c] < BURST_SIZE
          BY <2>f DEF BurstShape
    <3>2. bufs'[c] = Append(bufs[c], m) /\ i'[c] = i[c] + 1
          BY <2>f DEF Fill
    <3>3. Len(bufs'[c]) = i[c] + 1
          BY <3>1, <3>2
    <3>4. pc'[c] = IF i[c] + 1 < BURST_SIZE THEN "alloc" ELSE "tx"
          BY <2>f DEF Fill
    <3>5. \A d \in Lcores \ {c} : pc'[d] = pc[d] /\ i'[d] = i[d] /\ bufs'[d] = bufs[d]
          BY <2>f DEF Fill
    <3> QED BY <3>1, <3>2, <3>3, <3>4, <3>5 DEF BurstShape
  <2>s. ASSUME NEW n \in 0 .. BURST_SIZE, Sent(c, n), pc[c] = "tx"
        PROVE  BurstShape'
    <3>1. /\ bufs' = bufs /\ i'[c] = n
          /\ pc'[c] = IF n < BURST_SIZE THEN "free" ELSE "count"
          BY <2>s DEF Sent
    <3>2. \A d \in Lcores \ {c} : pc'[d] = pc[d] /\ i'[d] = i[d]
          BY <2>s DEF Sent
    <3> QED BY <2>s, <3>1, <3>2 DEF BurstShape
  <2>1. CASE ReadQueue(c) \/ AllocGoesToRing(c) \/ AllocFails(c)
        BY <2>1 DEF ReadQueue, AllocGoesToRing, AllocFails, BurstShape
  <2>2. CASE AllocFromCache(c) \/ AllocFromRing(c)
        BY <2>2, <2>f DEF AllocFromCache, AllocFromRing
  <2>3. CASE TxBurst(c)
    <3> DEFINE N(old) == Lesser(BURST_SIZE,
                           TX_RING_SIZE - (InUse(queue_id[c]) - Cardinality(old)))
    <3>1. PICK old \in SUBSET sent[queue_id[c]] : Sent(c, N(old))
          BY <2>3 DEF TxBurst
    <3>2. N(old) \in 0 .. BURST_SIZE /\ pc[c] = "tx"
          BY <2>3, BurstFacts DEF TxBurst
    <3> HIDE DEF N
    <3> QED BY <3>1, <3>2, <2>s
  <2>4. CASE TxBurstStopped(c)
        BY <2>4, <2>s DEF TxBurstStopped
  <2>5. CASE TxBurstCrashes(c)
        BY <2>5, <1>u DEF TxBurstCrashes
  <2>6. CASE FreeUnsent(c)
    <3>1. i[c] < BURST_SIZE /\ bufs' = bufs /\ i'[c] = i[c] + 1 /\ pc[c] = "free"
          BY <2>6 DEF FreeUnsent, BurstShape
    <3>2. pc'[c] = IF i[c] + 1 < BURST_SIZE THEN "free" ELSE "count"
          BY <2>6 DEF FreeUnsent
    <3>3. \A d \in Lcores \ {c} : pc'[d] = pc[d] /\ i'[d] = i[d]
          BY <2>6 DEF FreeUnsent
    <3> QED BY <3>1, <3>2, <3>3 DEF BurstShape
  <2>7. CASE Count(c)
    <3>1. bufs'[c] = <<>> /\ i'[c] = 0 /\ pc'[c] = "alloc"
          BY <2>7 DEF Count
    <3>2. \A d \in Lcores \ {c} : pc'[d] = pc[d] /\ i'[d] = i[d] /\ bufs'[d] = bufs[d]
          BY <2>7 DEF Count
    <3> QED BY <3>1, <3>2 DEF BurstShape
  <2> QED BY <2>1, <2>2, <2>3, <2>4, <2>5, <2>6, <2>7 DEF Worker
<1>4. ASSUME NEW q \in Queues, Transmit(q)
      PROVE  BurstShape'
      BY <1>4, <1>u DEF Transmit
<1> QED BY <1>1, <1>2, <1>3, <1>4 DEF Next, Main

\* Only a burst adds to a Tx ring, and no more than there are free descriptors.
LEMMA RingStep == IndType /\ [Next]_vars => TxRingBound'
<1> SUFFICES ASSUME IndType, [Next]_vars PROVE TxRingBound'
    OBVIOUS
<1> USE DEF IndType, bootVars, poolVars, nicVars, coreVars
<1>c. /\ pending \in [Queues -> SUBSET Mbufs] /\ sent \in [Queues -> SUBSET Mbufs]
      BY DEF TypeOK
<1>n. \A p \in Queues :
        /\ IsFiniteSet(pending[p]) /\ IsFiniteSet(sent[p])
        /\ Cardinality(pending[p]) \in Nat /\ Cardinality(sent[p]) \in Nat
  <2> SUFFICES ASSUME NEW p \in Queues
               PROVE  /\ IsFiniteSet(pending[p]) /\ IsFiniteSet(sent[p])
                      /\ Cardinality(pending[p]) \in Nat /\ Cardinality(sent[p]) \in Nat
      OBVIOUS
  <2>1. IsFiniteSet(pending[p]) /\ IsFiniteSet(sent[p])
        BY <1>c, FS_Subset, MempoolAssumption
  <2> QED BY <2>1, FS_CardinalityType
<1>u. ASSUME UNCHANGED <<pending, sent>> PROVE TxRingBound'
      BY <1>u DEF TxRingBound, InUse
<1>1. CASE Boot \/ StartPort \/ StartPortFails \/ Launch \/ WaitLcores \/ Exit
           \/ Stopped \/ UNCHANGED vars
      BY <1>1, <1>u DEF Boot, StartPort, StartPortFails, Launch, WaitLcores, Exit,
                        Stopped, vars
<1>2. ASSUME NEW c \in Lcores, Worker(c)
      PROVE  TxRingBound'
  <2>1. CASE TxBurst(c)
    <3> DEFINE q == queue_id[c]
               N(old) == Lesser(BURST_SIZE, TX_RING_SIZE - (InUse(q) - Cardinality(old)))
    <3>1. PICK old \in SUBSET sent[q] :
            /\ sent' = [sent EXCEPT ![q] = @ \ old]
            /\ pending' = [pending EXCEPT ![q] = @ \cup FirstBufs(c, N(old))]
          BY <2>1 DEF TxBurst
    <3>2. q \in Queues /\ pc[c] = "tx"
          BY <2>1 DEF TxBurst
    <3> DEFINE n == N(old)
               new == FirstBufs(c, n)
    <3>3. /\ IsFiniteSet(pending[q]) /\ IsFiniteSet(sent[q]) /\ IsFiniteSet(old)
          /\ Cardinality(old) \in Nat
          /\ InUse(q) \in Nat
          /\ n \in 0 .. BURST_SIZE
          /\ n <= TX_RING_SIZE - (InUse(q) - Cardinality(old))
          /\ IsFiniteSet(new) /\ Cardinality(new) <= n
          BY <3>2, BurstFacts
    <3>4. sent'[q] = sent[q] \ old /\ pending'[q] = pending[q] \cup new
          BY <3>1, <3>2, <1>c
    <3>5. \A p \in Queues \ {q} : pending'[p] = pending[p] /\ sent'[p] = sent[p]
          BY <3>1, <1>c
    <3> HIDE DEF new, n, N
    <3>6. Cardinality(sent[q] \ old) = Cardinality(sent[q]) - Cardinality(old)
      <4>1. sent[q] \cap old = old
            OBVIOUS
      <4> QED BY <3>3, <4>1, FS_Difference
    <3>7. Cardinality(pending[q] \cup new) <= Cardinality(pending[q]) + n
      <4>1. /\ Cardinality(pending[q] \cup new) =
                  Cardinality(pending[q]) + Cardinality(new)
                    - Cardinality(pending[q] \cap new)
            BY <3>3, FS_Union
      <4>2. IsFiniteSet(pending[q] \cap new)
            BY <3>3, FS_Intersection
      <4>3. /\ Cardinality(pending[q] \cap new) \in Nat
            /\ Cardinality(new) \in Nat /\ Cardinality(pending[q]) \in Nat
            BY <3>3, <4>2, FS_CardinalityType
      <4> QED BY <3>3, <4>1, <4>3
    <3>8. IsFiniteSet(pending[q] \cup new) /\ Cardinality(pending[q] \cup new) \in Nat
          BY <3>3, FS_Union, FS_CardinalityType
    <3>9. InUse(q) = Cardinality(pending[q]) + Cardinality(sent[q])
          BY DEF InUse
    <3>10. Cardinality(pending[q] \cup new) + Cardinality(sent[q] \ old) <= TX_RING_SIZE
           BY <3>2, <3>3, <3>6, <3>7, <3>8, <3>9, <1>n, SendAssumption
    <3>11. Cardinality(pending'[q]) + Cardinality(sent'[q]) <= TX_RING_SIZE
           BY <3>4, <3>10
    <3>12. \A p \in Queues : Cardinality(pending'[p]) + Cardinality(sent'[p]) <= TX_RING_SIZE
           BY <3>5, <3>11 DEF TxRingBound, InUse
    <3> QED BY <3>12 DEF TxRingBound, InUse
  <2>2. CASE ~TxBurst(c)
    <3>1. UNCHANGED <<pending, sent>>
          BY <1>2, <2>2 DEF Worker, ReadQueue, AllocFromCache, AllocGoesToRing, Fill,
               AllocFromRing, AllocFails, TxBurstStopped, TxBurstCrashes, FreeUnsent, Count
    <3> QED BY <3>1, <1>u
  <2> QED BY <2>1, <2>2
<1>3. ASSUME NEW q \in Queues, Transmit(q)
      PROVE  TxRingBound'
  <2>1. PICK m \in pending[q] :
          /\ pending' = [pending EXCEPT ![q] = @ \ {m}]
          /\ sent' = [sent EXCEPT ![q] = @ \cup {m}]
        BY <1>3 DEF Transmit
  <2>2. pending'[q] = pending[q] \ {m} /\ sent'[q] = sent[q] \cup {m}
        BY <2>1, <1>c
  <2>3. Cardinality(pending[q] \ {m}) = Cardinality(pending[q]) - 1
        BY <1>n, FS_RemoveElement
  <2>4. /\ Cardinality(sent[q] \cup {m}) <= Cardinality(sent[q]) + 1
        /\ Cardinality(sent[q] \cup {m}) \in Nat
    <3>1. Cardinality(sent[q] \cup {m}) =
             IF m \in sent[q] THEN Cardinality(sent[q]) ELSE Cardinality(sent[q]) + 1
          BY <1>n, FS_AddElement
    <3>2. Cardinality(sent[q]) \in Nat
          BY <1>n
    <3> QED BY <3>1, <3>2
  <2>5. Cardinality(pending'[q]) + Cardinality(sent'[q]) <= TX_RING_SIZE
        BY <2>2, <2>3, <2>4, <1>n, SendAssumption DEF TxRingBound, InUse
  <2>6. \A p \in Queues \ {q} : pending'[p] = pending[p] /\ sent'[p] = sent[p]
        BY <2>1, <1>c
  <2> QED BY <2>5, <2>6 DEF TxRingBound, InUse
<1> QED BY <1>1, <1>2, <1>3 DEF Next, Main

(***************************************************************************)
(* Type correctness of packet_send: in particular the loop indices never   *)
(* leave bufs, and the driver is never asked for a negative number of      *)
(* descriptors.                                                            *)
(***************************************************************************)
THEOREM TypeCorrect == Spec => []TypeOK
<1>1. Init => IndType
      BY InitType
<1>2. IndType /\ [Next]_vars => IndType'
      BY TypeStep, LaunchStep, ShapeStep, RingStep DEF IndType
<1>3. IndType => TypeOK
      BY DEF IndType
<1> QED BY <1>1, <1>2, <1>3, PTL DEF Spec
=============================================================================
