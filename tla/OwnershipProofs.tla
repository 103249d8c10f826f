-------------------------- MODULE OwnershipProofs ---------------------------
(***************************************************************************)
(* Every mbuf of packet_send is in exactly one place at every moment, for  *)
(* every number of lcores, mbufs and descriptors.                          *)
(*                                                                         *)
(* The argument: the places (ring, caches, bufs, descriptors) partition    *)
(* the mbufs, and every step only exchanges mbufs between the places of    *)
(* one lcore, one queue, the common ring and the Rx rings.  One lemma,     *)
(* Exchange, says that such a step keeps the partition; the steps are then *)
(* shown to be exchanges one by one.  Which mbufs a step moves, and where, *)
(* also shows that packet_send implements MbufLifecycle.                   *)
(***************************************************************************)
EXTENDS PacketSendProofs

(***************************************************************************)
(* com, ca, ob, pe, se, r partition the mbufs (com: ring, ca: caches, ob:  *)
(* held by lcores, pe: pending, se: sent, r: Rx rings).                    *)
(***************************************************************************)
Apart(com, ca, ob, pe, se, r) ==
  \A m \in Mbufs :
     /\ \A c \in Lcores :
           /\ m \in ca[c] => m \notin com
           /\ m \in ob[c] => m \notin com
           /\ \A d \in Lcores :
                 /\ m \in ca[c] => m \notin ob[d]
                 /\ m \in ca[c] /\ m \in ca[d] => c = d
                 /\ m \in ob[c] /\ m \in ob[d] => c = d
           /\ \A q \in Queues :
                 m \in ca[c] \cup ob[c] => m \notin pe[q] /\ m \notin se[q]
     /\ \A q \in Queues :
           /\ m \in pe[q] \cup se[q] => m \notin com
           /\ \A p \in Queues :
                 /\ m \in pe[q] => m \notin se[p]
                 /\ m \in pe[q] /\ m \in pe[p] => q = p
                 /\ m \in se[q] /\ m \in se[p] => q = p
     /\ m \in r =>
           /\ m \notin com
           /\ \A c \in Lcores : m \notin ca[c] /\ m \notin ob[c]
           /\ \A q \in Queues : m \notin pe[q] /\ m \notin se[q]

Cover(com, ca, ob, pe, se, r) ==
  \A m \in Mbufs :
     \/ m \in com
     \/ \E c \in Lcores : m \in ca[c] \/ m \in ob[c]
     \/ \E q \in Queues : m \in pe[q] \/ m \in se[q]
     \/ m \in r

\* Six sets without common elements.
SixApart(a, b, c, d, e, f) ==
  /\ a \cap (b \cup c \cup d \cup e \cup f) = {}
  /\ b \cap (c \cup d \cup e \cup f) = {}
  /\ c \cap (d \cup e \cup f) = {}
  /\ d \cap (e \cup f) = {}
  /\ e \cap f = {}

SixUnion(a, b, c, d, e, f) == a \cup b \cup c \cup d \cup e \cup f

-----------------------------------------------------------------------------
(***************************************************************************)
(* The inductive invariant.                                                *)
(***************************************************************************)
held == [c \in Lcores |-> OwnedBufs(c)]

\* The driver takes mbufs for the Rx rings only when it starts the port.
RxEmpty == stage \in BootStage \ {"mac", "promisc"} => rx = {}

\* No lcore has an mbuf twice.
Distinct ==
  \A c \in Lcores : \A k, l \in Owned(c) : k # l => bufs[c][k] # bufs[c][l]

Parted == /\ Apart(common, cache, held, pending, sent, rx)
          /\ Cover(common, cache, held, pending, sent, rx)

Ownership == IndType /\ RxEmpty /\ Distinct /\ Parted

LEMMA HeldType ==
  ASSUME TypeOK
  PROVE  held \in [Lcores -> SUBSET Mbufs]
<1> SUFFICES ASSUME NEW c \in Lcores PROVE OwnedBufs(c) \subseteq Mbufs
    BY DEF held
<1>1. bufs[c] \in Seq(Mbufs) /\ i[c] \in Nat
      BY SendAssumption DEF TypeOK
<1>2. Owned(c) \subseteq 1 .. Len(bufs[c])
      BY <1>1 DEF Owned
<1> QED BY <1>1, <1>2 DEF OwnedBufs

LEMMA Local ==
  ASSUME TypeOK, Parted, NEW c \in Lcores, NEW q \in Queues
  PROVE  SixApart(common, cache[c], held[c], pending[q], sent[q], rx)
<1>1. /\ common \subseteq Mbufs /\ cache[c] \subseteq Mbufs /\ held[c] \subseteq Mbufs
      /\ pending[q] \subseteq Mbufs /\ sent[q] \subseteq Mbufs /\ rx \subseteq Mbufs
      BY HeldType DEF TypeOK
<1>2. ASSUME NEW m \in Mbufs
      PROVE  /\ m \in common => /\ m \notin cache[c] /\ m \notin held[c]
                               /\ m \notin pending[q] /\ m \notin sent[q] /\ m \notin rx
             /\ m \in cache[c] => /\ m \notin held[c] /\ m \notin pending[q]
                                 /\ m \notin sent[q] /\ m \notin rx
             /\ m \in held[c] => m \notin pending[q] /\ m \notin sent[q] /\ m \notin rx
             /\ m \in pending[q] => m \notin sent[q] /\ m \notin rx
             /\ m \in sent[q] => m \notin rx
      BY DEF Parted, Apart
<1> QED BY <1>1, <1>2 DEF SixApart

\* A step that exchanges mbufs among the common ring, one lcore, one queue and
\* the Rx rings, and leaves the other lcores and queues alone, keeps the partition.
LEMMA Exchange ==
  ASSUME TypeOK, Parted, NEW c \in Lcores, NEW q \in Queues,
         \A d \in Lcores \ {c} : cache'[d] = cache[d] /\ held'[d] = held[d],
         \A p \in Queues \ {q} : pending'[p] = pending[p] /\ sent'[p] = sent[p],
         SixApart(common', cache'[c], held'[c], pending'[q], sent'[q], rx'),
         SixUnion(common', cache'[c], held'[c], pending'[q], sent'[q], rx') =
           SixUnion(common, cache[c], held[c], pending[q], sent[q], rx)
  PROVE  Parted'
<1> DEFINE here == SixUnion(common, cache[c], held[c], pending[q], sent[q], rx)
<1>1. ASSUME NEW m \in Mbufs
      PROVE  Apart(common', cache', held', pending', sent', rx')!(m)
  <2>1. CASE m \in here
    <3>1. /\ \A d \in Lcores \ {c} : m \notin cache[d] /\ m \notin held[d]
          /\ \A p \in Queues \ {q} : m \notin pending[p] /\ m \notin sent[p]
          BY <2>1 DEF Parted, Apart, SixUnion
    <3> QED BY <3>1 DEF SixApart
  <2>2. CASE m \notin here
    <3>1. /\ m \notin common' /\ m \notin cache'[c] /\ m \notin held'[c]
          /\ m \notin pending'[q] /\ m \notin sent'[q] /\ m \notin rx'
          BY <2>2 DEF SixUnion
    <3> QED BY <3>1 DEF Parted, Apart
  <2> QED BY <2>1, <2>2
<1>2. ASSUME NEW m \in Mbufs
      PROVE  Cover(common', cache', held', pending', sent', rx')!(m)
  <2>1. CASE m \in here
        BY <2>1 DEF SixUnion
  <2>2. CASE m \notin here
        BY <2>2 DEF Parted, Cover, SixUnion
  <2> QED BY <2>1, <2>2
<1>3. Apart(common', cache', held', pending', sent', rx')
      BY <1>1 DEF Apart
<1>4. Cover(common', cache', held', pending', sent', rx')
      BY <1>2 DEF Cover
<1> QED BY <1>3, <1>4 DEF Parted

\* What an lcore holds depends on its own variables only.
LEMMA HeldOf ==
  ASSUME TypeOK, NEW c \in Lcores,
         \A d \in Lcores \ {c} : pc'[d] = pc[d] /\ i'[d] = i[d] /\ bufs'[d] = bufs[d]
  PROVE  \A d \in Lcores \ {c} : held'[d] = held[d]
<1>1. \A d \in Lcores \ {c} : OwnedBufs(d)' = OwnedBufs(d)
      BY DEF OwnedBufs, Owned
<1> QED BY <1>1 DEF held

-----------------------------------------------------------------------------
(***************************************************************************)
(* What the steps of an lcore do to the mbufs it holds.                    *)
(***************************************************************************)

\* The indices an lcore owns at each point of its loop.
LEMMA OwnedAt ==
  ASSUME IndType, NEW c \in Lcores
  PROVE  /\ pc[c] \in {"wait", "enter", "alloc", "ring", "failed"} =>
              Owned(c) = 1 .. i[c] /\ Len(bufs[c]) = i[c]
         /\ pc[c] = "tx" => Owned(c) = 1 .. BURST_SIZE
         /\ pc[c] = "free" => Owned(c) = (i[c] + 1) .. BURST_SIZE
         /\ pc[c] = "count" => Owned(c) = {}
         /\ i[c] \in 0 .. BURST_SIZE /\ bufs[c] \in Seq(Mbufs)
         /\ BURST_SIZE \in Nat
<1>1. i[c] \in 0 .. BURST_SIZE /\ bufs[c] \in Seq(Mbufs) /\ BURST_SIZE \in Nat
      BY SendAssumption DEF IndType, TypeOK
<1> QED BY <1>1 DEF IndType, BurstShape, Owned

\* An allocated mbuf that was not in bufs is added to it.
LEMMA FillHeld ==
  ASSUME IndType, Distinct, NEW c \in Lcores, NEW m \in Mbufs, m \notin held[c],
         pc[c] \in {"alloc", "ring"}, Fill(c, m)
  PROVE  /\ held'[c] = held[c] \cup {m}
         /\ Distinct'
         /\ \A d \in Lcores \ {c} : held'[d] = held[d]
<1> DEFINE n == i[c]
<1>1. /\ Owned(c) = 1 .. n /\ Len(bufs[c]) = n /\ n \in Nat
      /\ bufs[c] \in Seq(Mbufs)
      BY OwnedAt
<1>2. bufs'[c] = Append(bufs[c], m) /\ pc'[c] \in {"alloc", "tx"}
      BY DEF Fill, IndType, TypeOK
<1>3. /\ Len(bufs'[c]) = n + 1
      /\ bufs'[c][n + 1] = m
      /\ \A k \in 1 .. n : bufs'[c][k] = bufs[c][k]
      BY <1>1, <1>2
<1>4. Owned(c)' = 1 .. (n + 1)
      BY <1>2, <1>3 DEF Owned
<1>5. \A d \in Lcores \ {c} : pc'[d] = pc[d] /\ i'[d] = i[d] /\ bufs'[d] = bufs[d]
      BY DEF Fill, IndType, TypeOK
<1>6. held'[c] = {bufs'[c][k] : k \in 1 .. (n + 1)}
      BY <1>4 DEF held, OwnedBufs
<1>7. held[c] = {bufs[c][k] : k \in 1 .. n}
      BY <1>1 DEF held, OwnedBufs
<1> HIDE DEF n
<1>8. held'[c] = held[c] \cup {m}
      BY <1>1, <1>3, <1>6, <1>7
<1>9. ASSUME NEW k \in Owned(c)', NEW l \in Owned(c)', k # l
      PROVE  bufs'[c][k] # bufs'[c][l]
  <2>1. k \in 1 .. (n + 1) /\ l \in 1 .. (n + 1)
        BY <1>4, <1>9
  <2>2. CASE k \in 1 .. n /\ l \in 1 .. n
        BY <2>2, <1>1, <1>3, <1>9 DEF Distinct
  <2>3. CASE k = n + 1
        BY <2>1, <2>3, <1>1, <1>3, <1>7, <1>9
  <2>4. CASE l = n + 1
        BY <2>1, <2>4, <1>1, <1>3, <1>7, <1>9
  <2> QED BY <2>1, <2>2, <2>3, <2>4, <1>1
<1>10. ASSUME NEW d \in Lcores \ {c}, NEW k \in Owned(d)', NEW l \in Owned(d)', k # l
       PROVE  bufs'[d][k] # bufs'[d][l]
  <2>1. Owned(d)' = Owned(d)
        BY <1>5 DEF Owned
  <2> QED BY <1>5, <1>10, <2>1 DEF Distinct
<1>11. Distinct'
       BY <1>9, <1>10 DEF Distinct
<1> QED BY <1>5, <1>8, <1>11, HeldOf DEF IndType

\* A burst of which n packets were taken: these are no longer the lcore's.
LEMMA SentHeld ==
  ASSUME IndType, Distinct, NEW c \in Lcores, pc[c] = "tx",
         NEW n \in 0 .. BURST_SIZE, Sent(c, n)
  PROVE  /\ FirstBufs(c, n) \subseteq held[c]
         /\ held'[c] = held[c] \ FirstBufs(c, n)
         /\ Distinct'
         /\ \A d \in Lcores \ {c} : held'[d] = held[d]
<1>1. Owned(c) = 1 .. BURST_SIZE /\ BURST_SIZE \in Nat
      BY OwnedAt
<1>2. /\ bufs' = bufs /\ i'[c] = n /\ pc'[c] \in {"free", "count"}
      BY DEF Sent, IndType, TypeOK
<1>3. Len(bufs[c]) = BURST_SIZE
      BY DEF IndType, BurstShape
<1>4. Owned(c)' = (n + 1) .. BURST_SIZE
      BY <1>2, <1>3 DEF Owned
<1>5. \A d \in Lcores \ {c} : pc'[d] = pc[d] /\ i'[d] = i[d] /\ bufs'[d] = bufs[d]
      BY DEF Sent, IndType, TypeOK
<1>6. held[c] = {bufs[c][k] : k \in 1 .. BURST_SIZE}
      BY <1>1 DEF held, OwnedBufs
<1>7. held'[c] = {bufs[c][k] : k \in (n + 1) .. BURST_SIZE}
      BY <1>2, <1>4 DEF held, OwnedBufs
<1>8. FirstBufs(c, n) \subseteq held[c]
      BY <1>1, <1>6 DEF FirstBufs
<1>9. \A k, l \in 1 .. BURST_SIZE : k # l => bufs[c][k] # bufs[c][l]
      BY <1>1 DEF Distinct
<1>10. held'[c] = held[c] \ FirstBufs(c, n)
  <2>1. ASSUME NEW m \in held'[c] PROVE m \in held[c] \ FirstBufs(c, n)
    <3>1. PICK k \in (n + 1) .. BURST_SIZE : m = bufs[c][k]
          BY <1>7, <2>1
    <3>2. \A l \in 1 .. n : bufs[c][l] # m
          BY <1>1, <1>9, <3>1
    <3> QED BY <1>1, <1>6, <3>1, <3>2 DEF FirstBufs
  <2>2. ASSUME NEW m \in held[c] \ FirstBufs(c, n) PROVE m \in held'[c]
    <3>1. PICK k \in 1 .. BURST_SIZE : m = bufs[c][k]
          BY <1>6, <2>2
    <3>2. k \notin 1 .. n
          BY <2>2, <3>1 DEF FirstBufs
    <3> QED BY <1>1, <1>7, <3>1, <3>2
  <2> QED BY <2>1, <2>2
<1>11. Distinct'
  <2> SUFFICES ASSUME NEW d \in Lcores, NEW k \in Owned(d)', NEW l \in Owned(d)', k # l
               PROVE  bufs[d][k] # bufs[d][l]
      BY <1>2 DEF Distinct
  <2>1. Owned(d)' \subseteq Owned(d)
    <3>1. CASE d = c
          BY <1>1, <1>4, <3>1
    <3>2. CASE d # c
          BY <1>5, <3>2 DEF Owned
    <3> QED BY <3>1, <3>2
  <2> QED BY <2>1 DEF Distinct
<1> QED BY <1>5, <1>8, <1>10, <1>11, HeldOf DEF IndType

\* The free loop gives up the mbuf at its index.
LEMMA FreeHeld ==
  ASSUME IndType, Distinct, NEW c \in Lcores, FreeUnsent(c)
  PROVE  LET m == bufs[c][i[c] + 1]
         IN  /\ m \in held[c] /\ m \in Mbufs
             /\ held'[c] = held[c] \ {m}
             /\ Distinct'
             /\ \A d \in Lcores \ {c} : held'[d] = held[d]
<1> DEFINE n == i[c]
           m == bufs[c][n + 1]
<1>1. /\ Owned(c) = (n + 1) .. BURST_SIZE /\ BURST_SIZE \in Nat /\ n \in Nat
      /\ n < BURST_SIZE /\ Len(bufs[c]) = BURST_SIZE /\ bufs[c] \in Seq(Mbufs)
      BY OwnedAt DEF FreeUnsent, IndType, BurstShape
<1>2. /\ bufs' = bufs /\ i'[c] = n + 1 /\ pc'[c] \in {"free", "count"}
      BY DEF FreeUnsent, IndType, TypeOK
<1>3. Owned(c)' = (n + 2) .. BURST_SIZE
      BY <1>1, <1>2 DEF Owned
<1>4. \A d \in Lcores \ {c} : pc'[d] = pc[d] /\ i'[d] = i[d] /\ bufs'[d] = bufs[d]
      BY DEF FreeUnsent, IndType, TypeOK
<1>5. held[c] = {bufs[c][k] : k \in (n + 1) .. BURST_SIZE}
      BY <1>1 DEF held, OwnedBufs
<1>6. held'[c] = {bufs[c][k] : k \in (n + 2) .. BURST_SIZE}
      BY <1>2, <1>3 DEF held, OwnedBufs
<1>7. \A k, l \in (n + 1) .. BURST_SIZE : k # l => bufs[c][k] # bufs[c][l]
      BY <1>1 DEF Distinct
<1>8. m \in held[c] /\ m \in Mbufs
      BY <1>1, <1>5
<1> HIDE DEF n
<1>9. held'[c] = held[c] \ {m}
      BY <1>1, <1>5, <1>6, <1>7
<1>10. Distinct'
  <2> SUFFICES ASSUME NEW d \in Lcores, NEW k \in Owned(d)', NEW l \in Owned(d)', k # l
               PROVE  bufs[d][k] # bufs[d][l]
      BY <1>2 DEF Distinct
  <2>1. Owned(d)' \subseteq Owned(d)
    <3>1. CASE d = c
          BY <1>1, <1>3, <3>1
    <3>2. CASE d # c
          BY <1>4, <3>2 DEF Owned
    <3> QED BY <3>1, <3>2
  <2> QED BY <2>1 DEF Distinct
<1> QED BY <1>4, <1>8, <1>9, <1>10, HeldOf DEF IndType, n

\* What comes back to the pool is in the ring or in the cache of the lcore.
LEMMA PutPool ==
  ASSUME NEW c \in Lcores, NEW m, Put(c, m), cache \in [Lcores -> SUBSET Mbufs],
         m \notin common, m \notin cache[c], common \cap cache[c] = {}
  PROVE  /\ common' \cup cache'[c] = common \cup cache[c] \cup {m}
         /\ common' \cap cache'[c] = {}
         /\ \A d \in Lcores \ {c} : cache'[d] = cache[d]
<1>1. CASE cache' = [cache EXCEPT ![c] = @ \cup {m}] /\ UNCHANGED common
      BY <1>1
<1>2. CASE \E kept \in SUBSET cache[c] :
             /\ cache' = [cache EXCEPT ![c] = kept]
             /\ common' = common \cup ((cache[c] \ kept) \cup {m})
      BY <1>2
<1> QED BY <1>1, <1>2 DEF Put

LEMMA PutBulkPool ==
  ASSUME NEW c \in Lcores, NEW objs, PutBulk(c, objs), cache \in [Lcores -> SUBSET Mbufs],
         objs \cap common = {}, common \cap cache[c] = {}
  PROVE  /\ common' \cup cache'[c] = common \cup cache[c] \cup objs
         /\ common' \cap cache'[c] = {}
         /\ \A d \in Lcores \ {c} : cache'[d] = cache[d]
<1> DEFINE all == cache[c] \cup objs
<1>1. CASE cache' = [cache EXCEPT ![c] = all] /\ UNCHANGED common
      BY <1>1
<1>2. CASE \E kept \in SUBSET all :
             /\ cache' = [cache EXCEPT ![c] = kept]
             /\ common' = common \cup (all \ kept)
      BY <1>2
<1> QED BY <1>1, <1>2 DEF PutBulk

\* Steps that move no mbuf.
LEMMA SamePlaces ==
  ASSUME Distinct, Parted, UNCHANGED <<common, cache, pending, sent, rx, bufs>>,
         \A d \in Lcores : Owned(d)' = Owned(d)
  PROVE  Distinct' /\ Parted'
<1>1. held' = held
      BY DEF held, OwnedBufs
<1>2. Distinct'
      BY DEF Distinct
<1>3. /\ Apart(common', cache', held', pending', sent', rx')
      /\ Cover(common', cache', held', pending', sent', rx')
      BY <1>1 DEF Parted
<1> QED BY <1>2, <1>3 DEF Parted

-----------------------------------------------------------------------------
(***************************************************************************)
(* Every step is an exchange.                                              *)
(***************************************************************************)

LEMMA RxStep == IndType /\ RxEmpty /\ [Next]_vars => RxEmpty'
<1> SUFFICES ASSUME IndType, RxEmpty, [Next]_vars PROVE RxEmpty'
    OBVIOUS
<1> USE DEF RxEmpty, BootStage, bootVars, poolVars, nicVars, coreVars
<1>1. CASE Boot
  <2>1. UNCHANGED rx
        BY <1>1 DEF Boot
  <2>2. stage' \in BootStage \ {"mac", "promisc"} => stage \in BootStage \ {"mac", "promisc"}
        BY <1>1 DEF Boot, BootStep, Require, Call, Succeed, Fail,
             EalInit, ParseArgs, CountPorts, CreatePool, IsValidPort, InfoGet, Configure,
             AdjustDesc, RxQueueSetup, TxQueueSetup, MacaddrGet, PromiscuousEnable
  <2> QED BY <2>1, <2>2
<1>2. CASE StartPort \/ StartPortFails
      BY <1>2 DEF StartPort, StartPortFails, DevStart, DevStartFails, Succeed, Fail
<1>3. CASE Launch \/ WaitLcores \/ Exit
      BY <1>3 DEF Launch, WaitLcores, Exit
<1>4. ASSUME NEW c \in Lcores, Worker(c)
      PROVE  RxEmpty'
      BY <1>4, WorkerStage
<1>5. ASSUME NEW q \in Queues, Transmit(q)
      PROVE  RxEmpty'
      BY <1>5 DEF Transmit
<1>6. CASE Stopped \/ UNCHANGED vars
      BY <1>6 DEF Stopped, vars
<1> QED BY <1>1, <1>2, <1>3, <1>4, <1>5, <1>6 DEF Next, Main

\* The start of the port: the driver takes objs for the Rx rings, and the
\* cache of main's lcore may fill.
LEMMA StartMoves ==
  ASSUME Ownership, StartPort \/ StartPortFails
  PROVE  \E objs \in SUBSET common :
           /\ rx = {} /\ rx' = objs
           /\ common' \cup cache'[MainLcore] = (common \cup cache[MainLcore]) \ objs
           /\ common' \cap cache'[MainLcore] = {}
           /\ common' \cap objs = {} /\ cache'[MainLcore] \cap objs = {}
           /\ cache'[MainLcore] \subseteq common
           /\ \A d \in Lcores \ {MainLcore} : cache'[d] = cache[d]
           /\ held' = held /\ Distinct'
           /\ UNCHANGED <<pending, sent>>
<1> USE DEF Ownership, IndType, bootVars, poolVars, nicVars, coreVars
<1> DEFINE c == MainLcore
<1>1. c \in Lcores
      BY SendAssumption
<1>2. rx = {}
      BY DEF StartPort, StartPortFails, DevStart, DevStartFails, Succeed, Fail,
             RxEmpty, BootStage
<1>3. PICK objs \in SUBSET common : TakeBulk(c, objs) /\ rx' = objs
      BY <1>2 DEF StartPort, StartPortFails
<1>4. PICK rest \in SUBSET (common \ objs) :
        /\ common' = common \ (objs \cup rest)
        /\ cache' = [cache EXCEPT ![c] = rest]
      BY <1>3 DEF TakeBulk
<1>5. cache[c] = {} /\ cache \in [Lcores -> SUBSET Mbufs]
      BY <1>3 DEF TakeBulk, TypeOK
<1>6. UNCHANGED <<pending, sent, pc, i, bufs>>
      BY DEF StartPort, StartPortFails
<1>7. held' = held /\ Distinct'
  <2>1. \A d \in Lcores : Owned(d)' = Owned(d)
        BY <1>6 DEF Owned
  <2> QED BY <1>6, <2>1 DEF held, OwnedBufs, Distinct
<1>8. cache'[c] = rest /\ \A d \in Lcores \ {c} : cache'[d] = cache[d]
      BY <1>1, <1>4, <1>5
<1>9. /\ rx' = objs
      /\ common' \cup cache'[c] = (common \cup cache[c]) \ objs
      /\ common' \cap cache'[c] = {}
      /\ common' \cap objs = {} /\ cache'[c] \cap objs = {}
      /\ cache'[c] \subseteq common
      BY <1>3, <1>4, <1>5, <1>8
<1> QED BY <1>2, <1>6, <1>7, <1>8, <1>9

\* The other steps of the main thread move no mbuf.
LEMMA MainQuiet ==
  ASSUME Ownership, Boot \/ Launch \/ WaitLcores \/ Exit
  PROVE  /\ UNCHANGED <<common, cache, pending, sent, rx, bufs, i>>
         /\ \A d \in Lcores : Owned(d)' = Owned(d)
<1> USE DEF Ownership, IndType, bootVars, poolVars, nicVars, coreVars
<1>1. UNCHANGED <<common, cache, pending, sent, rx, bufs, i>>
      BY DEF Boot, Launch, WaitLcores, Exit
<1>2. CASE Boot \/ WaitLcores \/ Exit
      BY <1>1, <1>2 DEF Boot, WaitLcores, Exit, Owned
<1>3. CASE Launch
  <2>1. \A d \in Lcores : pc[d] = "wait" /\ pc'[d] = "enter"
        BY <1>3 DEF Launch, NotLaunched
  <2> QED BY <1>1, <2>1 DEF Owned
<1> QED BY <1>1, <1>2, <1>3

LEMMA MainOwnership ==
  ASSUME Ownership, Main
  PROVE  Distinct' /\ Parted'
<1> USE DEF Ownership, IndType
<1>1. CASE Boot \/ Launch \/ WaitLcores \/ Exit
      BY <1>1, MainQuiet, SamePlaces
<1>2. CASE StartPort \/ StartPortFails
  <2> DEFINE c == MainLcore
             q == 0
  <2>1. c \in Lcores /\ q \in Queues
        BY SendAssumption, ConstantTypes DEF Queues
  <2>2. PICK objs \in SUBSET common :
          /\ rx = {} /\ rx' = objs
          /\ common' \cup cache'[c] = (common \cup cache[c]) \ objs
          /\ common' \cap cache'[c] = {}
          /\ common' \cap objs = {} /\ cache'[c] \cap objs = {}
          /\ cache'[c] \subseteq common
          /\ \A d \in Lcores \ {c} : cache'[d] = cache[d]
          /\ held' = held /\ Distinct'
          /\ UNCHANGED <<pending, sent>>
        BY <1>2, StartMoves
  <2> HIDE DEF c, q
  <2>3. SixApart(common, cache[c], held[c], pending[q], sent[q], rx)
        BY <2>1, Local
  <2>4. SixApart(common', cache'[c], held'[c], pending'[q], sent'[q], rx')
        BY <2>2, <2>3 DEF SixApart
  <2>5. SixUnion(common', cache'[c], held'[c], pending'[q], sent'[q], rx') =
          SixUnion(common, cache[c], held[c], pending[q], sent[q], rx)
        BY <2>2, <2>3 DEF SixUnion, SixApart
  <2>6. Parted'
        BY <2>1, <2>2, <2>4, <2>5, Exchange
  <2> QED BY <2>2, <2>6
<1> QED BY <1>1, <1>2 DEF Main

\* An allocation: m leaves the pool and is in bufs of the lcore that asked.
LEMMA AllocMoves ==
  ASSUME Ownership, NEW c \in Lcores, AllocFromCache(c) \/ AllocFromRing(c)
  PROVE  \E m \in Mbufs :
           /\ m \in common \cup cache[c]
           /\ common' \cap cache'[c] = {}
           /\ common' \cup cache'[c] = (common \cup cache[c]) \ {m}
           /\ held'[c] = held[c] \cup {m}
           /\ \A d \in Lcores \ {c} : cache'[d] = cache[d] /\ held'[d] = held[d]
           /\ Distinct'
           /\ UNCHANGED <<pending, sent, rx>>
<1> USE DEF Ownership, IndType, bootVars, poolVars, nicVars, coreVars
<1>1. PICK m \in Mbufs :
        /\ CacheHit(c, m) \/ Backfill(c, m) \/ RingDequeue(m)
        /\ Fill(c, m)
      BY DEF AllocFromCache, AllocFromRing
<1>2. /\ Fill(c, m) /\ pc[c] \in {"alloc", "ring"}
      /\ CacheHit(c, m) \/ Backfill(c, m) \/ RingDequeue(m)
      BY <1>1 DEF AllocFromCache, AllocFromRing
<1> DEFINE q == 0
<1>3. q \in Queues /\ cache \in [Lcores -> SUBSET Mbufs]
      BY ConstantTypes DEF Queues, TypeOK
<1>4. UNCHANGED <<pending, sent, rx>>
      BY <1>2 DEF Fill
<1> HIDE DEF q
<1>5. SixApart(common, cache[c], held[c], pending[q], sent[q], rx)
      BY <1>3, Local
<1>6. /\ m \in common \cup cache[c]
      /\ common' \cap cache'[c] = {}
      /\ common' \cup cache'[c] = (common \cup cache[c]) \ {m}
      /\ \A d \in Lcores \ {c} : cache'[d] = cache[d]
  <2>1. CASE CacheHit(c, m)
        BY <2>1, <1>3, <1>5 DEF CacheHit, SixApart
  <2>2. CASE Backfill(c, m)
    <3>1. PICK objs \in SUBSET common :
            /\ m \in objs /\ common' = common \ objs
            /\ cache' = [cache EXCEPT ![c] = objs \ {m}]
          BY <2>2 DEF Backfill
    <3>2. cache[c] = {}
          BY <2>2 DEF Backfill
    <3> QED BY <3>1, <3>2, <1>3
  <2>3. CASE RingDequeue(m)
        BY <2>3, <1>3, <1>5 DEF RingDequeue, SixApart
  <2> QED BY <1>2, <2>1, <2>2, <2>3
<1>7. m \notin held[c]
      BY <1>5, <1>6 DEF SixApart
<1>8. /\ held'[c] = held[c] \cup {m}
      /\ Distinct'
      /\ \A d \in Lcores \ {c} : held'[d] = held[d]
      BY <1>2, <1>7, FillHeld
<1> QED BY <1>4, <1>6, <1>8

LEMMA AllocOwnership ==
  ASSUME Ownership, NEW c \in Lcores, AllocFromCache(c) \/ AllocFromRing(c)
  PROVE  Distinct' /\ Parted'
<1> USE DEF Ownership, IndType
<1> DEFINE q == 0
<1>1. PICK m \in Mbufs :
        /\ m \in common \cup cache[c]
        /\ common' \cap cache'[c] = {}
        /\ common' \cup cache'[c] = (common \cup cache[c]) \ {m}
        /\ held'[c] = held[c] \cup {m}
        /\ \A d \in Lcores \ {c} : cache'[d] = cache[d] /\ held'[d] = held[d]
        /\ Distinct'
        /\ UNCHANGED <<pending, sent, rx>>
      BY AllocMoves
<1>2. q \in Queues
      BY ConstantTypes DEF Queues
<1> HIDE DEF q
<1>3. SixApart(common, cache[c], held[c], pending[q], sent[q], rx)
      BY <1>2, Local
<1>4. SixApart(common', cache'[c], held'[c], pending'[q], sent'[q], rx')
      BY <1>1, <1>3 DEF SixApart
<1>5. SixUnion(common', cache'[c], held'[c], pending'[q], sent'[q], rx') =
        SixUnion(common, cache[c], held[c], pending[q], sent[q], rx)
      BY <1>1 DEF SixUnion
<1>6. Parted'
      BY <1>1, <1>2, <1>4, <1>5, Exchange
<1> QED BY <1>1, <1>6

\* A burst: the packets taken go to the queue, completed ones to the pool.
LEMMA BurstMoves ==
  ASSUME Ownership, NEW c \in Lcores, TxBurst(c)
  PROVE  /\ queue_id[c] \in Queues
         /\ \E new \in SUBSET held[c], old \in SUBSET sent[queue_id[c]] :
              /\ pending'[queue_id[c]] = pending[queue_id[c]] \cup new
              /\ sent'[queue_id[c]] = sent[queue_id[c]] \ old
              /\ \A p \in Queues \ {queue_id[c]} :
                    pending'[p] = pending[p] /\ sent'[p] = sent[p]
              /\ held'[c] = held[c] \ new
              /\ common' \cup cache'[c] = common \cup cache[c] \cup old
              /\ common' \cap cache'[c] = {}
              /\ \A d \in Lcores \ {c} : cache'[d] = cache[d] /\ held'[d] = held[d]
              /\ rx' = rx
              /\ Distinct'
<1> USE DEF Ownership, bootVars, poolVars, nicVars, coreVars
<1> DEFINE q == queue_id[c]
           N(old) == Lesser(BURST_SIZE, TX_RING_SIZE - (InUse(q) - Cardinality(old)))
<1>1. PICK old \in SUBSET sent[q] :
        /\ PutBulk(c, old)
        /\ sent' = [sent EXCEPT ![q] = @ \ old]
        /\ pending' = [pending EXCEPT ![q] = @ \cup FirstBufs(c, N(old))]
        /\ Sent(c, N(old))
      BY DEF TxBurst
<1>2. q \in Queues /\ pc[c] = "tx"
      BY DEF TxBurst
<1>3. N(old) \in 0 .. BURST_SIZE
      BY <1>2, BurstFacts
<1> DEFINE n == N(old)
           new == FirstBufs(c, n)
<1>4. /\ cache \in [Lcores -> SUBSET Mbufs]
      /\ pending \in [Queues -> SUBSET Mbufs] /\ sent \in [Queues -> SUBSET Mbufs]
      /\ TypeOK
      BY DEF IndType, TypeOK
<1>5. /\ pending'[q] = pending[q] \cup new /\ sent'[q] = sent[q] \ old
      /\ \A p \in Queues \ {q} : pending'[p] = pending[p] /\ sent'[p] = sent[p]
      /\ rx' = rx
      BY <1>1, <1>2, <1>4 DEF Sent
<1> HIDE DEF N
<1>6. /\ new \subseteq held[c] /\ held'[c] = held[c] \ new
      /\ Distinct'
      /\ \A d \in Lcores \ {c} : held'[d] = held[d]
      BY <1>1, <1>2, <1>3, SentHeld
<1> HIDE DEF new, n
<1>7. SixApart(common, cache[c], held[c], pending[q], sent[q], rx)
      BY <1>2, <1>4, Local
<1>8. /\ common' \cup cache'[c] = common \cup cache[c] \cup old
      /\ common' \cap cache'[c] = {}
      /\ \A d \in Lcores \ {c} : cache'[d] = cache[d]
  <2>1. old \cap common = {} /\ common \cap cache[c] = {}
        BY <1>7 DEF SixApart
  <2> QED BY <1>1, <1>4, <2>1, PutBulkPool
<1> QED BY <1>2, <1>5, <1>6, <1>8

LEMMA BurstOwnership ==
  ASSUME Ownership, NEW c \in Lcores, TxBurst(c)
  PROVE  Distinct' /\ Parted'
<1> USE DEF Ownership, IndType
<1> DEFINE q == queue_id[c]
<1>1. q \in Queues
      BY BurstMoves
<1>2. PICK new \in SUBSET held[c], old \in SUBSET sent[q] :
        /\ pending'[q] = pending[q] \cup new
        /\ sent'[q] = sent[q] \ old
        /\ \A p \in Queues \ {q} : pending'[p] = pending[p] /\ sent'[p] = sent[p]
        /\ held'[c] = held[c] \ new
        /\ common' \cup cache'[c] = common \cup cache[c] \cup old
        /\ common' \cap cache'[c] = {}
        /\ \A d \in Lcores \ {c} : cache'[d] = cache[d] /\ held'[d] = held[d]
        /\ rx' = rx
        /\ Distinct'
      BY BurstMoves
<1> HIDE DEF q
<1>3. SixApart(common, cache[c], held[c], pending[q], sent[q], rx)
      BY <1>1, Local
<1>4. SixApart(common', cache'[c], held'[c], pending'[q], sent'[q], rx')
      BY <1>2, <1>3 DEF SixApart
<1>5. SixUnion(common', cache'[c], held'[c], pending'[q], sent'[q], rx') =
        SixUnion(common, cache[c], held[c], pending[q], sent[q], rx)
      BY <1>2 DEF SixUnion
<1>6. Parted'
      BY <1>1, <1>2, <1>4, <1>5, Exchange
<1> QED BY <1>2, <1>6

\* The free loop: an mbuf the queue did not take goes back to the pool.
LEMMA FreeMoves ==
  ASSUME Ownership, NEW c \in Lcores, FreeUnsent(c)
  PROVE  \E m \in held[c] :
           /\ held'[c] = held[c] \ {m}
           /\ common' \cup cache'[c] = common \cup cache[c] \cup {m}
           /\ common' \cap cache'[c] = {}
           /\ \A d \in Lcores \ {c} : cache'[d] = cache[d] /\ held'[d] = held[d]
           /\ Distinct'
           /\ UNCHANGED <<pending, sent, rx>>
<1> USE DEF Ownership, bootVars, poolVars, nicVars, coreVars
<1> DEFINE q == 0
           m == bufs[c][i[c] + 1]
<1>1. Put(c, m) /\ UNCHANGED <<pending, sent, rx>>
      BY DEF FreeUnsent
<1>2. q \in Queues /\ cache \in [Lcores -> SUBSET Mbufs] /\ TypeOK
  <2>1. q \in Queues
        BY ConstantTypes DEF Queues
  <2>2. TypeOK
        BY DEF IndType
  <2>3. cache \in [Lcores -> SUBSET Mbufs]
        BY <2>2 DEF TypeOK
  <2> QED BY <2>1, <2>2, <2>3
<1>3. /\ m \in held[c] /\ held'[c] = held[c] \ {m}
      /\ Distinct'
      /\ \A d \in Lcores \ {c} : held'[d] = held[d]
      BY FreeHeld
<1> HIDE DEF q, m
<1>4. SixApart(common, cache[c], held[c], pending[q], sent[q], rx)
      BY <1>2, Local
<1>5. /\ common' \cup cache'[c] = common \cup cache[c] \cup {m}
      /\ common' \cap cache'[c] = {}
      /\ \A d \in Lcores \ {c} : cache'[d] = cache[d]
  <2>1. m \notin common /\ m \notin cache[c] /\ common \cap cache[c] = {}
        BY <1>3, <1>4 DEF SixApart
  <2> QED BY <1>1, <1>2, <2>1, PutPool
<1> QED BY <1>1, <1>3, <1>5

LEMMA FreeOwnership ==
  ASSUME Ownership, NEW c \in Lcores, FreeUnsent(c)
  PROVE  Distinct' /\ Parted'
<1> USE DEF Ownership, IndType
<1> DEFINE q == 0
<1>1. PICK m \in held[c] :
        /\ held'[c] = held[c] \ {m}
        /\ common' \cup cache'[c] = common \cup cache[c] \cup {m}
        /\ common' \cap cache'[c] = {}
        /\ \A d \in Lcores \ {c} : cache'[d] = cache[d] /\ held'[d] = held[d]
        /\ Distinct'
        /\ UNCHANGED <<pending, sent, rx>>
      BY FreeMoves
<1>2. q \in Queues
      BY ConstantTypes DEF Queues
<1> HIDE DEF q
<1>3. SixApart(common, cache[c], held[c], pending[q], sent[q], rx)
      BY <1>2, Local
<1>4. SixApart(common', cache'[c], held'[c], pending'[q], sent'[q], rx')
      BY <1>1, <1>3 DEF SixApart
<1>5. SixUnion(common', cache'[c], held'[c], pending'[q], sent'[q], rx') =
        SixUnion(common, cache[c], held[c], pending[q], sent[q], rx)
      BY <1>1 DEF SixUnion
<1>6. Parted'
      BY <1>1, <1>2, <1>4, <1>5, Exchange
<1> QED BY <1>1, <1>6

\* The other steps of an lcore move no mbuf.
LEMMA WorkerQuiet ==
  ASSUME Ownership, NEW c \in Lcores,
         \/ ReadQueue(c) \/ AllocGoesToRing(c) \/ AllocFails(c)
         \/ TxBurstStopped(c) \/ TxBurstCrashes(c) \/ Count(c)
  PROVE  /\ UNCHANGED <<common, cache, pending, sent, rx>>
         /\ held' = held /\ Distinct'
<1> USE DEF Ownership, IndType, bootVars, poolVars, nicVars, coreVars
<1>1. UNCHANGED <<common, cache, pending, sent, rx>>
      BY DEF ReadQueue, AllocGoesToRing, AllocFails, BackfillFails, RingDequeueFails,
             TxBurstStopped, Sent, TxBurstCrashes, Count
<1>2. CASE TxBurstCrashes(c)
      BY <1>2 DEF TxBurstCrashes, held, OwnedBufs, Owned, Distinct
<1>3. CASE ReadQueue(c) \/ AllocGoesToRing(c) \/ AllocFails(c)
  <2>1. UNCHANGED <<bufs, i>>
        BY <1>3 DEF ReadQueue, AllocGoesToRing, AllocFails
  <2>2. /\ pc[c] \in {"enter", "alloc", "ring"} /\ pc'[c] \in {"alloc", "ring", "failed"}
        /\ \A d \in Lcores \ {c} : pc'[d] = pc[d]
        BY <1>3 DEF ReadQueue, AllocGoesToRing, AllocFails, TypeOK
  <2>3. \A d \in Lcores : Owned(d)' = Owned(d)
        BY <2>1, <2>2 DEF Owned
  <2> QED BY <1>1, <2>1, <2>3 DEF held, OwnedBufs, Distinct
<1>4. CASE TxBurstStopped(c)
  <2>1. pc[c] = "tx" /\ Sent(c, 0)
        BY <1>4 DEF TxBurstStopped
  <2>2. 0 \in 0 .. BURST_SIZE /\ FirstBufs(c, 0) = {}
        BY SendAssumption DEF FirstBufs
  <2>3. /\ held'[c] = held[c] /\ Distinct'
        /\ \A d \in Lcores \ {c} : held'[d] = held[d]
        BY <2>1, <2>2, SentHeld
  <2>4. held' = held
        BY <2>3 DEF held
  <2> QED BY <1>1, <2>3, <2>4
<1>5. CASE Count(c)
  <2>1. /\ pc[c] = "count" /\ pc'[c] = "alloc" /\ bufs'[c] = <<>>
        /\ \A d \in Lcores \ {c} : pc'[d] = pc[d] /\ i'[d] = i[d] /\ bufs'[d] = bufs[d]
        BY <1>5 DEF Count, TypeOK
  <2>2. Owned(c) = {} /\ Owned(c)' = {}
        BY <2>1, OwnedAt DEF Owned
  <2>3. \A d \in Lcores \ {c} : Owned(d)' = Owned(d)
        BY <2>1 DEF Owned
  <2>4. Distinct'
        BY <2>1, <2>2, <2>3 DEF Distinct
  <2>5. held' = held
        BY <2>1, <2>2, <2>3 DEF held, OwnedBufs
  <2> QED BY <1>1, <2>4, <2>5
<1> QED BY <1>2, <1>3, <1>4, <1>5

LEMMA WorkerOwnership ==
  ASSUME Ownership, NEW c \in Lcores, Worker(c)
  PROVE  Distinct' /\ Parted'
<1>1. CASE AllocFromCache(c) \/ AllocFromRing(c)
      BY <1>1, AllocOwnership
<1>2. CASE TxBurst(c)
      BY <1>2, BurstOwnership
<1>3. CASE FreeUnsent(c)
      BY <1>3, FreeOwnership
<1>4. CASE \/ ReadQueue(c) \/ AllocGoesToRing(c) \/ AllocFails(c)
           \/ TxBurstStopped(c) \/ TxBurstCrashes(c) \/ Count(c)
  <2>1. /\ UNCHANGED <<common, cache, pending, sent, rx>>
        /\ held' = held /\ Distinct'
        BY <1>4, WorkerQuiet
  <2>2. /\ Apart(common', cache', held', pending', sent', rx')
        /\ Cover(common', cache', held', pending', sent', rx')
        BY <2>1 DEF Ownership, Parted
  <2> QED BY <2>1, <2>2 DEF Parted
<1> QED BY <1>1, <1>2, <1>3, <1>4 DEF Worker

\* The NIC moves an mbuf from a pending to a completed descriptor.
LEMMA NicOwnership ==
  ASSUME Ownership, NEW q \in Queues, Transmit(q)
  PROVE  Distinct' /\ Parted'
<1> USE DEF Ownership, bootVars, poolVars, nicVars, coreVars
<1>1. PICK m \in pending[q] :
        /\ pending' = [pending EXCEPT ![q] = @ \ {m}]
        /\ sent' = [sent EXCEPT ![q] = @ \cup {m}]
      BY DEF Transmit
<1>2. /\ TypeOK /\ MainLcore \in Lcores
      /\ pending \in [Queues -> SUBSET Mbufs] /\ sent \in [Queues -> SUBSET Mbufs]
      BY SendAssumption DEF IndType, TypeOK
<1>3. /\ pending'[q] = pending[q] \ {m} /\ sent'[q] = sent[q] \cup {m}
      /\ \A p \in Queues \ {q} : pending'[p] = pending[p] /\ sent'[p] = sent[p]
      BY <1>1, <1>2
<1>4. UNCHANGED <<common, cache, rx, pc, i, bufs>>
      BY DEF Transmit
<1>5. held' = held /\ Distinct'
  <2>1. \A d \in Lcores : Owned(d)' = Owned(d)
        BY <1>4 DEF Owned
  <2> QED BY <1>4, <2>1 DEF held, OwnedBufs, Distinct
<1> DEFINE c == MainLcore
<1>6. SixApart(common, cache[c], held[c], pending[q], sent[q], rx)
      BY <1>2, Local
<1>7. /\ SixApart(common', cache'[c], held'[c], pending'[q], sent'[q], rx')
      /\ SixUnion(common', cache'[c], held'[c], pending'[q], sent'[q], rx') =
           SixUnion(common, cache[c], held[c], pending[q], sent[q], rx)
      BY <1>3, <1>4, <1>5, <1>6 DEF SixApart, SixUnion
<1>8. Parted'
      BY <1>2, <1>3, <1>4, <1>5, <1>7, Exchange
<1> QED BY <1>5, <1>8

-----------------------------------------------------------------------------
(***************************************************************************)
(* The theorems.                                                           *)
(***************************************************************************)

LEMMA OwnershipInit == Init => Ownership
<1> SUFFICES ASSUME Init PROVE Ownership
    OBVIOUS
<1> USE DEF Init, BootInit, PoolInit
<1>1. IndType /\ RxEmpty
      BY InitType DEF RxEmpty
<1>2. \A c \in Lcores : Owned(c) = {}
      BY DEF Owned
<1>3. Distinct /\ \A c \in Lcores : held[c] = {}
      BY <1>2 DEF Distinct, held, OwnedBufs
<1>4. Parted
      BY <1>3 DEF Parted, Apart, Cover
<1> QED BY <1>1, <1>3, <1>4 DEF Ownership

LEMMA OwnershipStep == Ownership /\ [Next]_vars => Ownership'
<1> SUFFICES ASSUME Ownership, [Next]_vars PROVE Ownership'
    OBVIOUS
<1>1. IndType' /\ RxEmpty'
      BY TypeStep, LaunchStep, ShapeStep, RingStep, RxStep DEF Ownership, IndType
<1>2. Distinct' /\ Parted'
  <2>1. CASE Main
        BY <2>1, MainOwnership
  <2>2. ASSUME NEW c \in Lcores, Worker(c) PROVE Distinct' /\ Parted'
        BY <2>2, WorkerOwnership
  <2>3. ASSUME NEW q \in Queues, Transmit(q) PROVE Distinct' /\ Parted'
        BY <2>3, NicOwnership
  <2>4. CASE Stopped \/ UNCHANGED vars
    <3>1. UNCHANGED <<common, cache, pending, sent, rx, bufs, pc, i>>
          BY <2>4 DEF Stopped, vars, poolVars, nicVars, coreVars
    <3> QED BY <3>1, SamePlaces DEF Owned, Ownership
  <2> QED BY <2>1, <2>2, <2>3, <2>4 DEF Next
<1> QED BY <1>1, <1>2 DEF Ownership

LEMMA OwnershipInvariant == Spec => []Ownership
<1> QED BY OwnershipInit, OwnershipStep, PTL DEF Spec

(***************************************************************************)
(* In every interleaving of the lcores, the main thread and the NIC, no    *)
(* mbuf of packet_send is in two places: none is handed out twice, freed   *)
(* twice, or freed while a Tx queue still has it.                          *)
(***************************************************************************)
THEOREM MbufsNeverAliased == Spec => []NoAlias
<1>1. Ownership => NoAlias
  <2> SUFFICES ASSUME Ownership PROVE NoAlias
      OBVIOUS
  <2>1. /\ \A c \in Lcores : held[c] = OwnedBufs(c)
        /\ held \in [Lcores -> SUBSET Mbufs] /\ common \subseteq Mbufs /\ rx \subseteq Mbufs
        /\ cache \in [Lcores -> SUBSET Mbufs]
        /\ pending \in [Queues -> SUBSET Mbufs] /\ sent \in [Queues -> SUBSET Mbufs]
        BY HeldType DEF Ownership, IndType, TypeOK, held
  <2>2. Apart(common, cache, held, pending, sent, rx)
        BY DEF Ownership, Parted
  <2>3. \A c, d \in Lcores : c # d =>
           cache[c] \cap cache[d] = {} /\ OwnedBufs(c) \cap OwnedBufs(d) = {}
        BY <2>1, <2>2 DEF Apart
  <2>4. \A c \in Lcores : \A k, l \in Owned(c) : k # l => bufs[c][k] # bufs[c][l]
        BY DEF Ownership, Distinct
  <2>5. \A p, q \in Queues :
           /\ p # q => (pending[p] \cup sent[p]) \cap (pending[q] \cup sent[q]) = {}
           /\ pending[p] \cap sent[p] = {}
        BY <2>1, <2>2 DEF Apart
  <2>6. /\ \A m \in Cached : \E c \in Lcores : m \in cache[c] /\ m \in Mbufs
        /\ \A m \in Held : \E c \in Lcores : m \in held[c] /\ m \in Mbufs
        /\ \A m \in OnTx : \E q \in Queues : m \in pending[q] \cup sent[q] /\ m \in Mbufs
        BY <2>1 DEF Cached, Held, OnTx
  <2>7. common \cap (Cached \cup Held \cup OnTx \cup rx) = {}
        BY <2>1, <2>2, <2>6 DEF Apart
  <2>8. Cached \cap (Held \cup OnTx \cup rx) = {}
        BY <2>1, <2>2, <2>6 DEF Apart
  <2>9. Held \cap (OnTx \cup rx) = {}
        BY <2>1, <2>2, <2>6 DEF Apart
  <2>10. OnTx \cap rx = {}
        BY <2>1, <2>2, <2>6 DEF Apart
  <2> QED BY <2>3, <2>4, <2>5, <2>7, <2>8, <2>9, <2>10 DEF NoAlias
<1> QED BY <1>1, OwnershipInvariant, PTL

(***************************************************************************)
(* packet_send loses no mbuf: at every moment each one is in the pool, in  *)
(* a descriptor or in the bufs of an lcore, so that the burst abandoned by *)
(* an lcore whose allocation failed is the only leak there can be.         *)
(***************************************************************************)
THEOREM MbufsConserved == Spec => []Conserved
<1>1. Ownership => Conserved
  <2> SUFFICES ASSUME Ownership PROVE Conserved
      OBVIOUS
  <2>1. /\ \A c \in Lcores : held[c] = OwnedBufs(c)
        /\ held \in [Lcores -> SUBSET Mbufs] /\ common \subseteq Mbufs /\ rx \subseteq Mbufs
        /\ cache \in [Lcores -> SUBSET Mbufs]
        /\ pending \in [Queues -> SUBSET Mbufs] /\ sent \in [Queues -> SUBSET Mbufs]
        BY HeldType DEF Ownership, IndType, TypeOK, held
  <2>2. Cover(common, cache, held, pending, sent, rx)
        BY DEF Ownership, Parted
  <2>3. Mbufs \subseteq common \cup Cached \cup Held \cup OnTx \cup rx
        BY <2>1, <2>2 DEF Cover, Cached, Held, OnTx
  <2>4. common \cup Cached \cup Held \cup OnTx \cup rx \subseteq Mbufs
        BY <2>1 DEF Cached, Held, OnTx
  <2> QED BY <2>3, <2>4 DEF Conserved
<1> QED BY <1>1, OwnershipInvariant, PTL

-----------------------------------------------------------------------------
(***************************************************************************)
(* The life cycle of an mbuf.  The place an mbuf is in determines its      *)
(* abstract owner; every step moves the mbufs of some set along one edge   *)
(* of the life cycle and keeps all others in their place.                  *)
(***************************************************************************)

\* m stays where it is, or moves inside the pool.
Keeps(m) ==
  /\ (m \in common \/ \E c \in Lcores : m \in cache[c]) =>
        (m \in common' \/ \E c \in Lcores : m \in cache'[c])
  /\ m \in rx => m \in rx'
  /\ \A c \in Lcores : m \in held[c] => m \in held'[c]
  /\ \A q \in Queues : /\ m \in pending[q] => m \in pending'[q]
                       /\ m \in sent[q] => m \in sent'[q]

\* What each place says of the owner.
OwnerKnown ==
  \A m \in Mbufs :
     /\ (m \in common \/ \E c \in Lcores : m \in cache[c]) => Owner[m] = Life!Pool
     /\ m \in rx => Owner[m] = Life!Rx
     /\ \A c \in Lcores : m \in held[c] => Owner[m] = Life!Lcore(c)
     /\ \A q \in Queues : /\ m \in pending[q] => Owner[m] = Life!Tx(q)
                          /\ m \in sent[q] => Owner[m] = Life!Done(q)

LEMMA OwnerOfPlace == Ownership => OwnerKnown
<1> SUFFICES ASSUME Ownership, NEW m \in Mbufs PROVE OwnerKnown!(m)
    BY DEF OwnerKnown
<1> USE DEF Life!Pool, Life!Rx, Life!Lcore, Life!Tx, Life!Done
<1>1. \A c \in Lcores : held[c] = OwnedBufs(c)
      BY DEF held
<1>2. Apart(common, cache, held, pending, sent, rx)!(m)
      BY DEF Ownership, Parted, Apart
<1>3. (m \in common \/ \E c \in Lcores : m \in cache[c]) => Owner[m] = <<"pool", 0>>
  <2> SUFFICES ASSUME m \in common \cup Cached PROVE Owner[m] = <<"pool", 0>>
      BY DEF Cached
  <2>1. /\ m \notin rx
        /\ ~\E d \in Lcores : m \in OwnedBufs(d)
        /\ ~\E p \in Queues : m \in pending[p]
        /\ ~\E p \in Queues : m \in sent[p]
        BY <1>1, <1>2 DEF Cached
  <2> QED BY <2>1 DEF Owner
<1>4. m \in rx => Owner[m] = <<"rx", 0>>
  <2> SUFFICES ASSUME m \in rx PROVE Owner[m] = <<"rx", 0>>
      OBVIOUS
  <2>1. /\ m \notin common \cup Cached
        /\ ~\E d \in Lcores : m \in OwnedBufs(d)
        /\ ~\E p \in Queues : m \in pending[p]
        /\ ~\E p \in Queues : m \in sent[p]
        BY <1>1, <1>2 DEF Cached
  <2> QED BY <2>1 DEF Owner
<1>5. ASSUME NEW c \in Lcores, m \in held[c]
      PROVE  Owner[m] = <<"lcore", c>>
  <2>1. /\ m \notin common \cup Cached /\ m \notin rx
        /\ ~\E p \in Queues : m \in pending[p]
        /\ ~\E p \in Queues : m \in sent[p]
        BY <1>2, <1>5 DEF Cached
  <2>2. \A d \in Lcores : m \in OwnedBufs(d) <=> d = c
        BY <1>1, <1>2, <1>5
  <2>3. (CHOOSE d \in Lcores : m \in OwnedBufs(d)) = c
        BY <2>2
  <2> QED BY <2>1, <2>2, <2>3 DEF Owner
<1>6. ASSUME NEW q \in Queues, m \in pending[q]
      PROVE  Owner[m] = <<"tx", q>>
  <2>1. /\ m \notin common \cup Cached /\ m \notin rx
        /\ ~\E d \in Lcores : m \in OwnedBufs(d)
        /\ ~\E p \in Queues : m \in sent[p]
        BY <1>1, <1>2, <1>6 DEF Cached
  <2>2. \A p \in Queues : m \in pending[p] <=> p = q
        BY <1>2, <1>6
  <2>3. (CHOOSE p \in Queues : m \in pending[p]) = q
        BY <2>2
  <2> QED BY <2>1, <2>2, <2>3 DEF Owner
<1>7. ASSUME NEW q \in Queues, m \in sent[q]
      PROVE  Owner[m] = <<"sent", q>>
  <2>1. /\ m \notin common \cup Cached /\ m \notin rx
        /\ \A d \in Lcores : m \notin OwnedBufs(d)
        /\ \A p \in Queues : m \notin pending[p]
        BY <1>1, <1>2, <1>7 DEF Cached
  <2>2. \A p \in Queues : m \in sent[p] <=> p = q
        BY <1>2, <1>7
  <2>3. (CHOOSE p \in Queues : m \in sent[p]) = q
        BY <2>2
  <2> QED BY <2>1, <2>2, <2>3 DEF Owner
<1> QED BY <1>3, <1>4, <1>5, <1>6, <1>7

\* An mbuf that keeps its place keeps its owner.
LEMMA Kept ==
  ASSUME Parted, OwnerKnown, OwnerKnown', NEW m \in Mbufs, Keeps(m)
  PROVE  Owner'[m] = Owner[m]
<1> USE DEF Life!Pool, Life!Rx, Life!Lcore, Life!Tx, Life!Done
<1>1. Cover(common, cache, held, pending, sent, rx)!(m)
      BY DEF Parted, Cover
<1>2. OwnerKnown!(m)
      BY DEF OwnerKnown
<1>3. OwnerKnown!(m)'
      BY DEF OwnerKnown
<1> QED BY <1>1, <1>2, <1>3 DEF Keeps

\* A step that moves the mbufs of S, each to owner o.
LEMMA Given ==
  ASSUME Parted, OwnerKnown, OwnerKnown', NEW S \in SUBSET Mbufs, NEW o,
         \A m \in S : Owner'[m] = o,
         \A m \in Mbufs \ S : Keeps(m)
  PROVE  Life!Give(S, o)
<1>1. \A m \in Mbufs \ S : Owner'[m] = Owner[m]
      BY Kept
<1>2. Owner' = [m \in Mbufs |-> Owner'[m]]
      BY DEF Owner
<1>3. Owner' = [m \in Mbufs |-> IF m \in S THEN o ELSE Owner[m]]
      BY <1>1, <1>2
<1> QED BY <1>3 DEF Life!Give

-----------------------------------------------------------------------------
(***************************************************************************)
(* Every step of packet_send is a step of MbufLifecycle, or none.          *)
(***************************************************************************)

LEMMA StartLife ==
  ASSUME Ownership, Ownership', OwnerKnown, OwnerKnown', StartPort \/ StartPortFails
  PROVE  Life!PostRx
<1>1. PICK objs \in SUBSET common :
        /\ rx = {} /\ rx' = objs
        /\ common' \cup cache'[MainLcore] = (common \cup cache[MainLcore]) \ objs
        /\ \A d \in Lcores \ {MainLcore} : cache'[d] = cache[d]
        /\ held' = held
        /\ UNCHANGED <<pending, sent>>
      BY StartMoves
<1>2. objs \subseteq Mbufs /\ MainLcore \in Lcores
      BY SendAssumption DEF Ownership, IndType, TypeOK
<1>3. objs \in SUBSET Life!OwnedBy(Life!Pool)
      BY <1>2 DEF OwnerKnown, Life!OwnedBy
<1>4. \A m \in objs : Owner'[m] = Life!Rx
      BY <1>1, <1>2 DEF OwnerKnown, Life!Rx
<1>5. \A m \in Mbufs \ objs : Keeps(m)
      BY <1>1, <1>2 DEF Keeps
<1>6. Life!Give(objs, Life!Rx)
      BY <1>2, <1>4, <1>5, Given DEF Ownership
<1> QED BY <1>3, <1>6 DEF Life!PostRx

LEMMA AllocLife ==
  ASSUME Ownership, Ownership', OwnerKnown, OwnerKnown', NEW c \in Lcores,
         AllocFromCache(c) \/ AllocFromRing(c)
  PROVE  Life!Alloc(c)
<1>1. PICK m \in Mbufs :
        /\ m \in common \cup cache[c]
        /\ common' \cup cache'[c] = (common \cup cache[c]) \ {m}
        /\ held'[c] = held[c] \cup {m}
        /\ \A d \in Lcores \ {c} : cache'[d] = cache[d] /\ held'[d] = held[d]
        /\ UNCHANGED <<pending, sent, rx>>
      BY AllocMoves
<1>2. m \in Life!OwnedBy(Life!Pool)
      BY <1>1 DEF OwnerKnown, Life!OwnedBy
<1>3. Owner'[m] = Life!Lcore(c)
      BY <1>1 DEF OwnerKnown, Life!Lcore
<1>4. \A l \in Mbufs \ {m} : Keeps(l)
      BY <1>1 DEF Keeps
<1>5. Life!Give({m}, Life!Lcore(c))
      BY <1>3, <1>4, Given DEF Ownership
<1> QED BY <1>2, <1>5 DEF Life!Alloc

LEMMA FreeLife ==
  ASSUME Ownership, Ownership', OwnerKnown, OwnerKnown', NEW c \in Lcores, FreeUnsent(c)
  PROVE  Life!Release(c)
<1>1. PICK m \in held[c] :
        /\ held'[c] = held[c] \ {m}
        /\ common' \cup cache'[c] = common \cup cache[c] \cup {m}
        /\ \A d \in Lcores \ {c} : cache'[d] = cache[d] /\ held'[d] = held[d]
        /\ UNCHANGED <<pending, sent, rx>>
      BY FreeMoves
<1>2. m \in Mbufs
      BY HeldType DEF Ownership, IndType
<1>3. m \in Life!OwnedBy(Life!Lcore(c))
      BY <1>2 DEF OwnerKnown, Life!OwnedBy
<1>4. Owner'[m] = Life!Pool
      BY <1>1, <1>2 DEF OwnerKnown, Life!Pool
<1>5. \A l \in Mbufs \ {m} : Keeps(l)
      BY <1>1 DEF Keeps
<1>6. Life!Give({m}, Life!Pool)
      BY <1>2, <1>4, <1>5, Given DEF Ownership
<1> QED BY <1>3, <1>6 DEF Life!Release

LEMMA BurstLife ==
  ASSUME Ownership, Ownership', OwnerKnown, OwnerKnown', NEW c \in Lcores, TxBurst(c)
  PROVE  \E q \in Queues : Life!Burst(c, q)
<1> DEFINE q == queue_id[c]
<1>1. q \in Queues
      BY BurstMoves
<1>2. PICK new \in SUBSET held[c], old \in SUBSET sent[q] :
        /\ pending'[q] = pending[q] \cup new
        /\ sent'[q] = sent[q] \ old
        /\ \A p \in Queues \ {q} : pending'[p] = pending[p] /\ sent'[p] = sent[p]
        /\ held'[c] = held[c] \ new
        /\ common' \cup cache'[c] = common \cup cache[c] \cup old
        /\ \A d \in Lcores \ {c} : cache'[d] = cache[d] /\ held'[d] = held[d]
        /\ rx' = rx
      BY BurstMoves
<1> HIDE DEF q
<1>3. new \subseteq Mbufs /\ old \subseteq Mbufs
      BY <1>1, HeldType DEF Ownership, IndType, TypeOK
<1>4. new \in SUBSET Life!OwnedBy(Life!Lcore(c))
      BY <1>3 DEF OwnerKnown, Life!OwnedBy
<1>5. old \in SUBSET Life!OwnedBy(Life!Done(q))
      BY <1>1, <1>3 DEF OwnerKnown, Life!OwnedBy
<1>6. \A m \in new : Owner'[m] = Life!Tx(q)
      BY <1>1, <1>2, <1>3 DEF OwnerKnown, Life!Tx
<1>7. \A m \in old : Owner'[m] = Life!Pool
      BY <1>2, <1>3 DEF OwnerKnown, Life!Pool
<1>8. \A m \in Mbufs \ (new \cup old) : Owner'[m] = Owner[m]
  <2>1. \A m \in Mbufs \ (new \cup old) : Keeps(m)
        BY <1>1, <1>2 DEF Keeps
  <2> QED BY <2>1, Kept DEF Ownership
<1>9. Owner' = [m \in Mbufs |-> Owner'[m]]
      BY DEF Owner
<1>10. Owner' = [m \in Mbufs |-> IF m \in new THEN Life!Tx(q)
                                 ELSE IF m \in old THEN Life!Pool
                                 ELSE Owner[m]]
       BY <1>6, <1>7, <1>8, <1>9
<1> QED BY <1>1, <1>4, <1>5, <1>10 DEF Life!Burst

LEMMA NicLife ==
  ASSUME Ownership, Ownership', OwnerKnown, OwnerKnown', NEW q \in Queues, Transmit(q)
  PROVE  Life!Complete(q)
<1>1. PICK m \in pending[q] :
        /\ pending' = [pending EXCEPT ![q] = @ \ {m}]
        /\ sent' = [sent EXCEPT ![q] = @ \cup {m}]
      BY DEF Transmit
<1>2. /\ pending \in [Queues -> SUBSET Mbufs] /\ sent \in [Queues -> SUBSET Mbufs]
      /\ m \in Mbufs
      BY DEF Ownership, IndType, TypeOK
<1>3. /\ pending'[q] = pending[q] \ {m} /\ sent'[q] = sent[q] \cup {m}
      /\ \A p \in Queues \ {q} : pending'[p] = pending[p] /\ sent'[p] = sent[p]
      BY <1>1, <1>2
<1>4. UNCHANGED <<common, cache, rx>> /\ held' = held
      BY DEF Transmit, poolVars, coreVars, held, OwnedBufs, Owned
<1>5. m \in Life!OwnedBy(Life!Tx(q))
      BY <1>2 DEF OwnerKnown, Life!OwnedBy
<1>6. Owner'[m] = Life!Done(q)
      BY <1>2, <1>3 DEF OwnerKnown, Life!Done
<1>7. \A l \in Mbufs \ {m} : Keeps(l)
      BY <1>3, <1>4 DEF Keeps
<1>8. Life!Give({m}, Life!Done(q))
      BY <1>2, <1>6, <1>7, Given DEF Ownership
<1> QED BY <1>5, <1>8 DEF Life!Complete

\* A step after which every mbuf is where it was.
LEMMA QuietLife ==
  ASSUME Ownership, OwnerKnown, OwnerKnown',
         UNCHANGED <<common, cache, pending, sent, rx>>, held' = held
  PROVE  Owner' = Owner
<1>1. \A m \in Mbufs : Keeps(m)
      BY DEF Keeps
<1>2. \A m \in Mbufs : Owner'[m] = Owner[m]
      BY <1>1, Kept DEF Ownership
<1>3. Owner' = [m \in Mbufs |-> Owner'[m]] /\ Owner = [m \in Mbufs |-> Owner[m]]
      BY DEF Owner
<1> QED BY <1>2, <1>3

LEMMA LifeStep ==
  ASSUME Ownership, Ownership', OwnerKnown, OwnerKnown', [Next]_vars
  PROVE  [Life!Next]_Owner
<1>1. CASE Main
  <2>1. CASE StartPort \/ StartPortFails
        BY <2>1, StartLife DEF Life!Next
  <2>2. CASE Boot \/ Launch \/ WaitLcores \/ Exit
    <3>1. UNCHANGED <<common, cache, pending, sent, rx>> /\ held' = held
          BY <2>2, MainQuiet DEF held, OwnedBufs
    <3> QED BY <3>1, QuietLife
  <2> QED BY <1>1, <2>1, <2>2 DEF Main
<1>2. ASSUME NEW c \in Lcores, Worker(c) PROVE [Life!Next]_Owner
  <2>1. CASE AllocFromCache(c) \/ AllocFromRing(c)
        BY <2>1, AllocLife DEF Life!Next
  <2>2. CASE FreeUnsent(c)
        BY <2>2, FreeLife DEF Life!Next
  <2>3. CASE TxBurst(c)
        BY <2>3, BurstLife DEF Life!Next
  <2>4. CASE \/ ReadQueue(c) \/ AllocGoesToRing(c) \/ AllocFails(c)
             \/ TxBurstStopped(c) \/ TxBurstCrashes(c) \/ Count(c)
        BY <2>4, WorkerQuiet, QuietLife
  <2> QED BY <1>2, <2>1, <2>2, <2>3, <2>4 DEF Worker
<1>3. ASSUME NEW q \in Queues, Transmit(q) PROVE [Life!Next]_Owner
      BY <1>3, NicLife DEF Life!Next
<1>4. CASE Stopped \/ UNCHANGED vars
  <2>1. UNCHANGED <<common, cache, pending, sent, rx>> /\ held' = held
        BY <1>4 DEF Stopped, vars, poolVars, nicVars, coreVars, held, OwnedBufs, Owned
  <2> QED BY <2>1, QuietLife
<1> QED BY <1>1, <1>2, <1>3, <1>4 DEF Next

(***************************************************************************)
(* packet_send implements MbufLifecycle: in every interleaving of the      *)
(* lcores, the main thread and the NIC an mbuf changes hands only from the *)
(* pool to an lcore or an Rx ring, from an lcore to a Tx queue or back to  *)
(* the pool, and from a Tx queue, once sent, back to the pool.             *)
(***************************************************************************)
THEOREM LifecycleRefined == Spec => ImplementsLifecycle
<1>1. Init => Life!Init
  <2> SUFFICES ASSUME Init PROVE Life!Init
      OBVIOUS
  <2>1. OwnerKnown
        BY OwnershipInit, OwnerOfPlace
  <2>2. \A m \in Mbufs : Owner[m] = Life!Pool
        BY <2>1 DEF OwnerKnown, Init, PoolInit
  <2>3. Owner = [m \in Mbufs |-> Owner[m]]
        BY DEF Owner
  <2>4. Owner = [m \in Mbufs |-> Life!Pool]
        BY <2>2, <2>3
  <2> QED BY <2>4 DEF Life!Init
<1>2. Ownership /\ Ownership' /\ OwnerKnown /\ OwnerKnown' /\ [Next]_vars => [Life!Next]_Owner
      BY LifeStep
<1> QED BY <1>1, <1>2, OwnerOfPlace, OwnershipInvariant, PTL DEF Spec, ImplementsLifecycle, Life!Spec
=============================================================================
