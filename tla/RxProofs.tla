------------------------------ MODULE RxProofs ------------------------------
(***************************************************************************)
(* What the receive loop of packet_recv and main keeps true, whatever the  *)
(* body of the loop does with a packet.                                    *)
(***************************************************************************)
EXTENDS RxLoop, PortProofs, FiniteSetTheorems, SequenceTheorems

-----------------------------------------------------------------------------
(***************************************************************************)
(* Sequences without repetition and their elements.                        *)
(***************************************************************************)

Distinct(s) == \A k, l \in 1 .. Len(s) : k # l => s[k] # s[l]

LEMMA ElemsEmpty == Elems(<<>>) = {} /\ Distinct(<<>>)
BY DEF Elems, Distinct

LEMMA ElemsType == ASSUME NEW S, NEW s \in Seq(S) PROVE Elems(s) \subseteq S
BY ElementOfSeq DEF Elems

LEMMA ElemsAppend ==
  ASSUME NEW S, NEW s \in Seq(S), NEW e \in S, Distinct(s), e \notin Elems(s)
  PROVE  /\ Append(s, e) \in Seq(S)
         /\ Elems(Append(s, e)) = Elems(s) \cup {e}
         /\ Distinct(Append(s, e))
<1> DEFINE t == Append(s, e)
<1>1. /\ t \in Seq(S)
      /\ Len(s) \in Nat
      /\ Len(t) = Len(s) + 1
      /\ \A k \in 1 .. Len(s) : t[k] = s[k]
      /\ t[Len(s) + 1] = e
      BY AppendProperties, LenProperties
<1> HIDE DEF t
<1>2. \A k \in 1 .. Len(t) : k \in 1 .. Len(s) \/ k = Len(s) + 1
      BY <1>1
<1>3. Elems(t) = Elems(s) \cup {e}
      BY <1>1, <1>2 DEF Elems
<1>4. Distinct(t)
      BY <1>1, <1>2 DEF Elems, Distinct
<1> QED BY <1>1, <1>3, <1>4 DEF t

\* A burst is cut off the front of a ring.
LEMMA ElemsSplit ==
  ASSUME NEW S, NEW s \in Seq(S), NEW n \in 0 .. Len(s), Distinct(s)
  PROVE  LET a == SubSeq(s, 1, n)
             b == SubSeq(s, n + 1, Len(s))
         IN  /\ a \in Seq(S) /\ b \in Seq(S)
             /\ Len(a) = n /\ Len(b) = Len(s) - n
             /\ Distinct(a) /\ Distinct(b)
             /\ Elems(a) \cup Elems(b) = Elems(s)
             /\ Elems(a) \cap Elems(b) = {}
<1> DEFINE a == SubSeq(s, 1, n)
           b == SubSeq(s, n + 1, Len(s))
<1>1. Len(s) \in Nat /\ n \in Nat /\ n <= Len(s)
      BY LenProperties
<1>2. /\ a \in Seq(S) /\ Len(a) = n
      /\ \A k \in 1 .. n : a[k] = s[k]
      BY <1>1, SubSeqProperties, ElementOfSeq
<1>3. /\ b \in Seq(S) /\ Len(b) = Len(s) - n
      /\ \A k \in 1 .. (Len(s) - n) : b[k] = s[n + k]
      BY <1>1, SubSeqProperties, ElementOfSeq
<1> HIDE DEF a, b
<1>4. Distinct(a) /\ Distinct(b)
  <2>1. Distinct(a)
        BY <1>1, <1>2 DEF Distinct
  <2>2. ASSUME NEW k \in 1 .. Len(b), NEW l \in 1 .. Len(b), k # l
        PROVE  b[k] # b[l]
    <3>1. /\ b[k] = s[n + k] /\ b[l] = s[n + l]
          /\ n + k \in 1 .. Len(s) /\ n + l \in 1 .. Len(s) /\ n + k # n + l
          BY <1>1, <1>3, <2>2
    <3> QED BY <3>1 DEF Distinct
  <2> QED BY <2>1, <2>2 DEF Distinct
<1>5. Elems(a) \subseteq Elems(s) /\ Elems(b) \subseteq Elems(s)
  <2>1. \A k \in 1 .. Len(a) : k \in 1 .. Len(s) /\ a[k] = s[k]
        BY <1>1, <1>2
  <2>2. \A k \in 1 .. Len(b) : n + k \in 1 .. Len(s) /\ b[k] = s[n + k]
        BY <1>1, <1>3
  <2>3. Elems(a) \subseteq Elems(s)
        BY <2>1 DEF Elems
  <2>4. Elems(b) \subseteq Elems(s)
        BY <2>2 DEF Elems
  <2> QED BY <2>3, <2>4
<1>6. ASSUME NEW k \in 1 .. Len(s) PROVE s[k] \in Elems(a) \cup Elems(b)
  <2>1. CASE k <= n
        BY <1>1, <1>2, <2>1 DEF Elems
  <2>2. CASE k > n
    <3>1. k - n \in 1 .. (Len(s) - n) /\ b[k - n] = s[k]
          BY <1>1, <1>3, <2>2
    <3> QED BY <1>3, <3>1 DEF Elems
  <2> QED BY <1>1, <2>1, <2>2
<1>7. Elems(a) \cap Elems(b) = {}
      BY <1>1, <1>2, <1>3 DEF Elems, Distinct
<1>8. Elems(s) \subseteq Elems(a) \cup Elems(b)
      BY <1>6 DEF Elems
<1> QED BY <1>2, <1>3, <1>4, <1>5, <1>7, <1>8 DEF a, b

LEMMA ElemsTail ==
  ASSUME NEW S, NEW s \in Seq(S), s # <<>>, Distinct(s)
  PROVE  /\ Head(s) \in Elems(s) /\ Head(s) \in S
         /\ Tail(s) \in Seq(S) /\ Len(Tail(s)) = Len(s) - 1
         /\ Distinct(Tail(s))
         /\ Elems(Tail(s)) = Elems(s) \ {Head(s)}
<1> DEFINE t == Tail(s)
           h == Head(s)
<1>1. /\ h \in S /\ t \in Seq(S) /\ Len(t) = Len(s) - 1
      /\ \A k \in 1 .. Len(t) : t[k] = s[k + 1]
      BY HeadTailProperties
<1>2. Len(s) \in Nat \ {0} /\ h = s[1]
      BY EmptySeq
<1> HIDE DEF t, h
<1>3. h \in Elems(s)
      BY <1>2 DEF Elems
<1>4. Distinct(t)
  <2>1. ASSUME NEW k \in 1 .. Len(t), NEW l \in 1 .. Len(t), k # l PROVE t[k] # t[l]
    <3>1. /\ t[k] = s[k + 1] /\ t[l] = s[l + 1] /\ k + 1 # l + 1
          /\ k + 1 \in 1 .. Len(s) /\ l + 1 \in 1 .. Len(s)
          BY <1>1, <1>2, <2>1
    <3> QED BY <3>1 DEF Distinct
  <2> QED BY <2>1 DEF Distinct
<1>5. Elems(t) \subseteq Elems(s) \ {h}
      BY <1>1, <1>2 DEF Distinct, Elems
<1>6. ASSUME NEW k \in 1 .. Len(s), s[k] # h PROVE s[k] \in Elems(t)
  <2>1. k - 1 \in 1 .. Len(t) /\ t[k - 1] = s[k]
        BY <1>1, <1>2, <1>6
  <2> QED BY <2>1 DEF Elems
<1> QED BY <1>1, <1>3, <1>4, <1>5, <1>6 DEF t, h, Elems

-----------------------------------------------------------------------------
(***************************************************************************)
(* The number of elements in the sequences of all queues.                  *)
(***************************************************************************)

LEMMA RingsAreFinite ==
  ASSUME NEW f, \A q \in RxQueues : Len(f[q]) \in Nat
  PROVE  IsFiniteSet(Positions(f)) /\ Count(f) \in Nat
<1> DEFINE row(q) == {q} \X (1 .. Len(f[q]))
           rows == {row(q) : q \in RxQueues}
<1>1. IsFiniteSet(RxQueues)
      BY PortAssumption, FS_Interval DEF RxQueues
<1>2. ASSUME NEW q \in RxQueues PROVE IsFiniteSet(row(q))
  <2>1. IsFiniteSet(1 .. Len(f[q]))
        BY FS_Interval
  <2>2. IsFiniteSet({q})
        BY FS_Singleton
  <2> QED BY <2>1, <2>2, FS_Product
<1>3. IsFiniteSet(rows)
  <2> DEFINE h == [q \in RxQueues |-> row(q)]
  <2>1. h \in Surjection(RxQueues, rows)
        BY DEF Surjection
  <2> HIDE DEF h, rows
  <2> QED BY <1>1, <2>1, FS_Surjection
<1>4. IsFiniteSet(UNION rows)
  <2>1. \A x \in rows : IsFiniteSet(x)
        BY <1>2
  <2> HIDE DEF rows
  <2> QED BY <1>3, <2>1, FS_UNION
<1>5. IsFiniteSet(Positions(f))
      BY <1>4 DEF Positions
<1> QED BY <1>5, FS_CardinalityType DEF Count

LEMMA CountEmpty ==
  ASSUME NEW f, \A q \in RxQueues : f[q] = <<>>
  PROVE  Count(f) = 0
<1>1. \A q \in RxQueues : {q} \X (1 .. Len(f[q])) = {}
      OBVIOUS
<1>2. Positions(f) = {}
      BY <1>1 DEF Positions
<1> QED BY <1>2, FS_EmptySet DEF Count

\* n elements more in one queue are n elements more.
LEMMA CountGrows ==
  ASSUME NEW f, NEW g, NEW q \in RxQueues, NEW n \in Nat,
         \A p \in RxQueues : Len(f[p]) \in Nat,
         \A p \in RxQueues \ {q} : g[p] = f[p],
         Len(g[q]) = Len(f[q]) + n
  PROVE  Count(g) = Count(f) + n
<1> DEFINE a == Len(f[q])
           I == (a + 1) .. (a + n)
           new == {q} \X I
<1>1. a \in Nat
      OBVIOUS
<1>2. Positions(g) = Positions(f) \cup new
  <2>1. ASSUME NEW x PROVE x \in Positions(g) <=> x \in Positions(f) \cup new
    <3>1. x \in Positions(f) <=> \E p \in RxQueues : x \in {p} \X (1 .. Len(f[p]))
          BY DEF Positions
    <3>2. x \in Positions(g) <=> \E p \in RxQueues : x \in {p} \X (1 .. Len(g[p]))
          BY DEF Positions
    <3>3. {q} \X (1 .. Len(g[q])) = ({q} \X (1 .. Len(f[q]))) \cup new
      <4>1. 1 .. Len(g[q]) = (1 .. Len(f[q])) \cup I
            BY <1>1
      <4> HIDE DEF I
      <4> QED BY <4>1
    <3> HIDE DEF new
    <3> QED BY <3>1, <3>2, <3>3
  <2> QED BY <2>1
<1>3. Positions(f) \cap new = {}
      BY <1>1 DEF Positions
<1>4. IsFiniteSet(I) /\ Cardinality(I) = n
  <2>1. a + 1 \in Int /\ a + n \in Int
        BY <1>1
  <2>2. /\ IsFiniteSet(I)
        /\ Cardinality(I) = IF a + 1 > a + n THEN 0 ELSE (a + n) - (a + 1) + 1
        BY <2>1, FS_Interval
  <2> QED BY <1>1, <2>2
<1>5. IsFiniteSet(new) /\ Cardinality(new) = n
  <2> HIDE DEF I
  <2>1. IsFiniteSet({q}) /\ Cardinality({q}) = 1
        BY FS_Singleton
  <2>2. IsFiniteSet(new) /\ Cardinality(new) = Cardinality({q}) * Cardinality(I)
        BY <1>4, <2>1, FS_Product
  <2> QED BY <1>4, <2>1, <2>2
<1> HIDE DEF new
<1>6. IsFiniteSet(Positions(f)) /\ Count(f) \in Nat
      BY RingsAreFinite
<1>7. Cardinality(Positions(f) \cup new) = Cardinality(Positions(f)) + Cardinality(new)
  <2>1. Cardinality(Positions(f) \cap new) = 0
        BY <1>3, FS_EmptySet
  <2>2. Cardinality(Positions(f) \cup new) =
          Cardinality(Positions(f)) + Cardinality(new) - Cardinality(Positions(f) \cap new)
        BY <1>5, <1>6, FS_Union
  <2> QED BY <1>5, <1>6, <2>1, <2>2 DEF Count
<1> QED BY <1>2, <1>5, <1>7 DEF Count

-----------------------------------------------------------------------------
(***************************************************************************)
(* The invariant of the loop.  No descriptor holds an mbuf before the port *)
(* is started, so that starting it overwrites none.                        *)
(***************************************************************************)

Unposted ==
  stage \in BootStage \ {"mac", "promisc"} => \A q \in RxQueues : posted[q] = {}

RxInv == RxTypeOK /\ RxOwnership /\ PortShape /\ Unposted

\* The rows of RxOwnership by name, for one queue and for two.
Places(q) ==
  /\ Distinct(filled[q])
  /\ posted[q] \cap pool = {} /\ posted[q] \cap Elems(mbufs) = {}
  /\ Elems(filled[q]) \cap pool = {} /\ Elems(filled[q]) \cap Elems(mbufs) = {}

Apart(p, q) ==
  /\ posted[p] \cap Elems(filled[q]) = {}
  /\ p # q => posted[p] \cap posted[q] = {} /\ Elems(filled[p]) \cap Elems(filled[q]) = {}

InRings == UNION {posted[q] \cup Elems(filled[q]) : q \in RxQueues}

Rows ==
  /\ Distinct(mbufs) /\ pool \cap Elems(mbufs) = {}
  /\ \A q \in RxQueues : Places(q)
  /\ \A p, q \in RxQueues : Apart(p, q)
  /\ Mbufs = pool \cup Elems(mbufs) \cup InRings

LEMMA OwnershipRows == RxOwnership <=> Rows
<1>1. ASSUME RxOwnership PROVE Rows
  <2>1. \A q \in RxQueues : Places(q)
        BY <1>1 DEF RxOwnership, Distinct, Places
  <2>2. \A p, q \in RxQueues : Apart(p, q)
        BY <1>1 DEF RxOwnership, Apart
  <2> QED BY <1>1, <2>1, <2>2 DEF RxOwnership, Rows, Distinct, InRings
<1>2. ASSUME Rows PROVE RxOwnership
  <2>1. \A q \in RxQueues : \A k, l \in 1 .. Len(filled[q]) :
            k # l => filled[q][k] # filled[q][l]
        BY <1>2 DEF Rows, Places, Distinct
  <2>2. \A k, l \in 1 .. Len(mbufs) : k # l => mbufs[k] # mbufs[l]
        BY <1>2 DEF Rows, Distinct
  <2>3. \A q \in RxQueues :
          (pool \cup Elems(mbufs)) \cap (posted[q] \cup Elems(filled[q])) = {}
        BY <1>2 DEF Rows, Places
  <2> QED BY <1>2, <2>1, <2>2, <2>3 DEF Rows, RxOwnership, Apart, InRings
<1> QED BY <1>1, <1>2

LEMMA RxInitial ==
  ASSUME NEW nothing, BootInit, RxInit(nothing)
  PROVE  RxInv
<1>1. RxRings \in Nat \ {0} /\ TxRings \in Nat \ {0} /\ BURST_SIZE \in Nat \ {0}
      BY PortAssumption, RxAssumption
<1>2. RxTypeOK
      BY <1>1 DEF RxTypeOK, BootInit, RxInit, BootStage, Device, RxQueues
<1>3. PortShape
      BY <1>1 DEF BootInit, PortShape, BeforeQueues
<1>4. Unposted
      BY DEF RxInit, Unposted
<1>5. RxOwnership
  <2>1. /\ \A q \in RxQueues : posted[q] = {} /\ filled[q] = <<>>
        /\ pool = Mbufs /\ mbufs = <<>>
        BY DEF RxInit
  <2>2. \A q \in RxQueues : Places(q)
        BY <2>1, ElemsEmpty DEF Places
  <2>3. \A p, q \in RxQueues : Apart(p, q)
        BY <2>1, ElemsEmpty DEF Apart
  <2>4. InRings = {}
        BY <2>1, ElemsEmpty DEF InRings
  <2> QED BY <2>1, <2>2, <2>3, <2>4, ElemsEmpty, OwnershipRows DEF Rows
<1> QED BY <1>2, <1>3, <1>4, <1>5 DEF RxInv

\* A step that moves no mbuf.
LEMMA OwnershipQuiet ==
  ASSUME RxOwnership, UNCHANGED <<pool, posted, filled, mbufs>>
  PROVE  RxOwnership'
BY DEF RxOwnership

LEMMA BootKeepsRx ==
  ASSUME RxInv, BootStep \/ DevStartFails, UNCHANGED rxVars
  PROVE  RxInv'
<1> USE DEF RxInv
<1>1. UNCHANGED pool /\ UNCHANGED posted /\ UNCHANGED filled /\ UNCHANGED data
      /\ UNCHANGED r /\ UNCHANGED mbufs
      BY DEF rxVars
<1>2. /\ stage \in BootStage
      /\ stage' \in BootStage \cup {"launch", "exit"}
      /\ dev' \in Device
      /\ ret' \in {"none", "ok", "error"}
      /\ PortShape'
      BY BootType DEF RxTypeOK
<1>3. RxTypeOK'
      BY <1>1, <1>2 DEF RxTypeOK
<1>4. RxOwnership'
      BY <1>1, OwnershipQuiet
<1>5. stage' \in BootStage \ {"mac", "promisc"} => stage \in BootStage \ {"mac", "promisc"}
      BY DEF BootStep, EalInit, ParseArgs, CountPorts, CreatePool, IsValidPort, InfoGet,
             Configure, AdjustDesc, RxQueueSetup, TxQueueSetup, MacaddrGet,
             PromiscuousEnable, DevStartFails, Call, Succeed, Fail, Require, BootStage
<1>6. Unposted'
      BY <1>1, <1>5 DEF Unposted
<1> QED BY <1>2, <1>3, <1>4, <1>6

\* The driver fills the descriptors from the pool.
LEMMA StartKeepsRx ==
  ASSUME RxInv, StartPort
  PROVE  RxInv'
<1> USE DEF RxInv
<1>1. /\ posted' \in [RxQueues -> SUBSET pool]
      /\ \A p, q \in RxQueues : p # q => posted'[p] \cap posted'[q] = {}
      /\ pool' = pool \ UNION {posted'[q] : q \in RxQueues}
      /\ filled' = filled /\ r' = r /\ mbufs' = mbufs
      BY DEF StartPort
<1>2. stage = "start" /\ stage' = "mac"
      BY DEF StartPort, DevStart, Succeed
<1>3. dev' \in Device /\ ret' \in {"none", "ok", "error"} /\ PortShape'
      BY BootType DEF RxTypeOK, StartPort
<1>4. RxTypeOK'
      BY <1>1, <1>2, <1>3 DEF RxTypeOK, BootStage
<1>5. RxOwnership'
  <2>1. \A q \in RxQueues : posted[q] = {}
        BY <1>2 DEF Unposted, BootStage
  <2>2. \A q \in RxQueues : posted'[q] \subseteq pool
        BY <1>1
  <2>3. \A q \in RxQueues : Places(q)'
        BY <1>1, <2>2, OwnershipRows DEF Rows, Places
  <2>4. \A p, q \in RxQueues : Apart(p, q)'
        BY <1>1, <2>2, OwnershipRows DEF Rows, Places, Apart
  <2>5. Mbufs = pool' \cup Elems(mbufs') \cup InRings'
    <3>1. Mbufs = pool \cup Elems(mbufs) \cup InRings
          BY OwnershipRows DEF Rows
    <3>2. InRings' = InRings \cup UNION {posted'[q] : q \in RxQueues}
          BY <1>1, <2>1 DEF InRings
    <3>3. UNION {posted'[q] : q \in RxQueues} \subseteq pool
          BY <2>2
    <3> QED BY <1>1, <3>1, <3>2, <3>3
  <2>6. Distinct(mbufs') /\ pool' \cap Elems(mbufs') = {}
        BY <1>1, OwnershipRows DEF Rows
  <2>7. Rows'
        BY <2>3, <2>4, <2>5, <2>6 DEF Rows
  <2> QED BY <2>7, OwnershipRows, PTL
<1>6. Unposted'
      BY <1>2 DEF Unposted
<1> QED BY <1>3, <1>4, <1>5, <1>6

\* A received frame takes an mbuf from an empty descriptor to a full one.
LEMMA ReceiveKeepsRx ==
  ASSUME RxInv, NEW q \in RxQueues, NEW d, NicReceive(q, d)
  PROVE  RxInv'
<1> USE DEF RxInv
<1>1. PICK m \in posted[q] :
        /\ posted' = [posted EXCEPT ![q] = @ \ {m}]
        /\ filled' = [filled EXCEPT ![q] = Append(@, m)]
      BY DEF NicReceive
<1>2. /\ stage' = stage /\ dev' = dev /\ ret' = ret
      /\ pool' = pool /\ r' = r /\ mbufs' = mbufs
      BY DEF NicReceive, bootVars
<1>3. /\ m \in Mbufs /\ filled[q] \in Seq(Mbufs)
      /\ Distinct(filled[q]) /\ m \notin Elems(filled[q])
      BY OwnershipRows DEF RxTypeOK, Rows, Places, Apart
<1>4. /\ filled'[q] \in Seq(Mbufs) /\ Distinct(filled'[q])
      /\ Elems(filled'[q]) = Elems(filled[q]) \cup {m}
  <2>1. filled'[q] = Append(filled[q], m)
        BY <1>1 DEF RxTypeOK
  <2> QED BY <1>3, <2>1, ElemsAppend
<1>5. posted'[q] = posted[q] \ {m}
      BY <1>1 DEF RxTypeOK
<1>6. \A p \in RxQueues \ {q} : filled'[p] = filled[p] /\ posted'[p] = posted[p]
      BY <1>1 DEF RxTypeOK
<1>7. RxTypeOK'
      BY <1>1, <1>2, <1>4, <1>6 DEF RxTypeOK
<1>8. Rows'
  <2>1. Rows
        BY OwnershipRows
  <2>2. ASSUME NEW p \in RxQueues PROVE Places(p)'
        BY <1>2, <1>3, <1>4, <1>5, <1>6, <2>1 DEF Rows, Places
  <2>3. ASSUME NEW p \in RxQueues, NEW s \in RxQueues PROVE Apart(p, s)'
    <3>1. Apart(p, s) /\ Apart(s, p) /\ Apart(q, p) /\ Apart(q, s) /\ Apart(p, q)
          BY <2>1 DEF Rows
    <3>2. CASE p = q /\ s = q
          BY <1>4, <1>5, <3>1, <3>2 DEF Apart
    <3>3. CASE p = q /\ s # q
          BY <1>4, <1>5, <1>6, <3>1, <3>3 DEF Apart
    <3>4. CASE p # q /\ s = q
          BY <1>4, <1>5, <1>6, <3>1, <3>4 DEF Apart
    <3>5. CASE p # q /\ s # q
          BY <1>6, <3>1, <3>5 DEF Apart
    <3> QED BY <3>2, <3>3, <3>4, <3>5
  <2>4. InRings' = InRings
    <3>1. \A p \in RxQueues :
            posted'[p] \cup Elems(filled'[p]) = posted[p] \cup Elems(filled[p])
          BY <1>4, <1>5, <1>6
    <3> QED BY <3>1 DEF InRings
  <2> QED BY <1>2, <2>1, <2>2, <2>3, <2>4 DEF Rows
<1>9. RxOwnership'
      BY <1>8, OwnershipRows, PTL
<1>10. PortShape' /\ Unposted'
      BY <1>2, <1>5, <1>6 DEF PortShape, Unposted
<1> QED BY <1>7, <1>9, <1>10

LEMMA NextQueueType == r \in RxQueues => NextQueue \in RxQueues
BY PortAssumption DEF NextQueue, RxQueues

\* A burst moves mbufs from a ring to mbufs, and new ones from the pool.
LEMMA PollKeepsRx ==
  ASSUME RxInv, Poll
  PROVE  RxInv'
<1> USE DEF RxInv
<1> DEFINE n == Smaller(Smaller(BURST_SIZE, Len(filled[r])), Cardinality(pool))
<1>1. PICK new \in SUBSET pool :
        /\ pool' = pool \ new
        /\ posted' = [posted EXCEPT ![r] = @ \cup new]
      BY DEF Poll
<1>2. /\ filled' = [filled EXCEPT ![r] = SubSeq(@, n + 1, Len(@))]
      /\ mbufs' = SubSeq(filled[r], 1, n)
      /\ mbufs = <<>> /\ stage = "run" /\ n > 0
      /\ stage' = stage /\ dev' = dev /\ ret' = ret /\ r' = r
      BY DEF Poll, bootVars
<1>3. r \in RxQueues /\ filled[r] \in Seq(Mbufs) /\ Distinct(filled[r])
      BY OwnershipRows DEF RxTypeOK, Rows, Places
<1>4. n \in 0 .. Len(filled[r]) /\ n <= BURST_SIZE
  <2>1. Cardinality(pool) \in Nat
        BY RxAssumption, FS_Subset, FS_CardinalityType DEF RxTypeOK
  <2> QED BY <1>3, <2>1, RxAssumption DEF Smaller
<1> HIDE DEF n
<1>5. filled'[r] = SubSeq(filled[r], n + 1, Len(filled[r]))
      BY <1>2, <1>3 DEF RxTypeOK
<1>6. /\ mbufs' \in Seq(Mbufs) /\ Len(mbufs') = n /\ Distinct(mbufs')
      /\ filled'[r] \in Seq(Mbufs) /\ Distinct(filled'[r])
      /\ Elems(mbufs') \cup Elems(filled'[r]) = Elems(filled[r])
      /\ Elems(mbufs') \cap Elems(filled'[r]) = {}
      BY <1>2, <1>3, <1>4, <1>5, ElemsSplit
<1>7. posted'[r] = posted[r] \cup new
      BY <1>1, <1>3 DEF RxTypeOK
<1>8. \A p \in RxQueues \ {r} : filled'[p] = filled[p] /\ posted'[p] = posted[p]
      BY <1>1, <1>2 DEF RxTypeOK
<1>9. RxTypeOK'
      BY <1>1, <1>2, <1>4, <1>6, <1>8 DEF RxTypeOK
<1>10. Rows'
  <2>1. Rows
        BY OwnershipRows
  <2>2. ASSUME NEW p \in RxQueues PROVE Places(p)'
    <3>1. Places(p) /\ Places(r) /\ Apart(p, r) /\ Apart(r, p)
          BY <1>3, <2>1 DEF Rows
    <3>2. CASE p = r
          BY <1>1, <1>6, <1>7, <3>1, <3>2 DEF Places, Apart
    <3>3. CASE p # r
          BY <1>1, <1>6, <1>7, <1>8, <3>1, <3>3 DEF Places, Apart
    <3> QED BY <3>2, <3>3
  <2>3. ASSUME NEW p \in RxQueues, NEW s \in RxQueues PROVE Apart(p, s)'
    <3>1. /\ Apart(p, s) /\ Apart(s, p) /\ Apart(r, p) /\ Apart(r, s) /\ Apart(p, r)
          /\ Places(p) /\ Places(s) /\ Apart(s, r)
          BY <1>3, <2>1 DEF Rows
    <3>2. CASE p = r /\ s = r
          BY <1>6, <1>7, <3>1, <3>2 DEF Apart, Places
    <3>3. CASE p = r /\ s # r
          BY <1>6, <1>7, <1>8, <3>1, <3>3 DEF Apart, Places
    <3>4. CASE p # r /\ s = r
          BY <1>6, <1>7, <1>8, <3>1, <3>4 DEF Apart, Places
    <3>5. CASE p # r /\ s # r
          BY <1>8, <3>1, <3>5 DEF Apart
    <3> QED BY <3>2, <3>3, <3>4, <3>5
  <2>4. InRings' \cup Elems(mbufs') = InRings \cup new
    <3> DEFINE ring(p) == posted[p] \cup Elems(filled[p])
    <3>1. \A p \in RxQueues \ {r} : ring(p)' = ring(p)
          BY <1>8
    <3>2. ring(r)' \cup Elems(mbufs') = ring(r) \cup new
          BY <1>2, <1>6, <1>7
    <3>3. InRings = UNION {ring(p) : p \in RxQueues}
          BY DEF InRings
    <3>4. InRings' = UNION {ring(p)' : p \in RxQueues}
          BY DEF InRings
    <3>5. InRings = ring(r) \cup UNION {ring(p) : p \in RxQueues \ {r}}
          BY <1>3, <3>3
    <3>6. InRings' = ring(r)' \cup UNION {ring(p)' : p \in RxQueues \ {r}}
          BY <1>2, <1>3, <3>4
    <3>7. UNION {ring(p)' : p \in RxQueues \ {r}} = UNION {ring(p) : p \in RxQueues \ {r}}
          BY <3>1
    <3> HIDE DEF ring
    <3> QED BY <3>2, <3>5, <3>6, <3>7
  <2>5. Elems(mbufs) = {}
        BY <1>2, ElemsEmpty
  <2>6. Elems(mbufs') \cap pool = {}
        BY <1>3, <1>6, <2>1 DEF Rows, Places
  <2> QED BY <1>1, <1>6, <2>1, <2>2, <2>3, <2>4, <2>5, <2>6 DEF Rows
<1>11. RxOwnership'
      BY <1>10, OwnershipRows, PTL
<1>12. PortShape' /\ Unposted'
      BY <1>2 DEF PortShape, BeforeQueues, Unposted, BootStage
<1> QED BY <1>9, <1>11, <1>12

\* The end of the loop body frees one packet.
LEMMA NextPacketKeepsRx ==
  ASSUME RxInv, stage = "run", mbufs # <<>>, NextPacket, UNCHANGED bootVars
  PROVE  RxInv'
<1> USE DEF RxInv
<1>1. /\ pool' = pool \cup {Head(mbufs)}
      /\ mbufs' = Tail(mbufs)
      /\ posted' = posted /\ filled' = filled
      /\ stage' = stage /\ dev' = dev /\ ret' = ret
      BY DEF NextPacket, bootVars
<1>2. r' \in RxQueues
      BY NextQueueType DEF NextPacket, RxTypeOK
<1>3. /\ Head(mbufs) \in Elems(mbufs) /\ Head(mbufs) \in Mbufs
      /\ mbufs' \in Seq(Mbufs) /\ Len(mbufs') = Len(mbufs) - 1
      /\ Distinct(mbufs')
      /\ Elems(mbufs') = Elems(mbufs) \ {Head(mbufs)}
      BY <1>1, ElemsTail, OwnershipRows DEF RxTypeOK, Rows
<1>4. RxTypeOK'
      BY <1>1, <1>2, <1>3, RxAssumption DEF RxTypeOK
<1>5. Rows'
  <2>1. Rows
        BY OwnershipRows
  <2>2. ASSUME NEW p \in RxQueues PROVE Places(p)'
        BY <1>1, <1>3, <2>1 DEF Rows, Places
  <2>3. ASSUME NEW p \in RxQueues, NEW s \in RxQueues PROVE Apart(p, s)'
        BY <1>1, <2>1 DEF Rows, Apart
  <2>4. InRings' = InRings
        BY <1>1 DEF InRings
  <2> QED BY <1>1, <1>3, <2>1, <2>2, <2>3, <2>4 DEF Rows
<1>6. RxOwnership'
      BY <1>5, OwnershipRows, PTL
<1>7. PortShape' /\ Unposted'
      BY <1>1 DEF PortShape, Unposted
<1> QED BY <1>4, <1>6, <1>7

\* The other steps move no mbuf: an empty poll, the entry to the loop, the end
\* of the process while it handles a packet, and a step of nobody.
LEMMA QuietKeepsRx ==
  ASSUME RxInv,
         \/ PollEmpty
         \/ EnterLoop
         \/ /\ stage = "run" /\ mbufs # <<>> /\ stage' = "crash"
            /\ UNCHANGED <<dev, ret, rxVars>>
         \/ UNCHANGED <<bootVars, rxVars>>
  PROVE  RxInv'
<1> USE DEF RxInv
<1>1. /\ pool' = pool /\ posted' = posted /\ filled' = filled /\ mbufs' = mbufs
      /\ dev' = dev /\ ret' = ret
      BY DEF PollEmpty, EnterLoop, bootVars, rxVars
<1>2. r' \in RxQueues
      BY NextQueueType DEF PollEmpty, EnterLoop, rxVars, RxTypeOK
<1>3. \/ stage' = stage
      \/ stage = "launch" /\ stage' = "run"
      \/ stage = "run" /\ stage' = "crash" /\ mbufs # <<>>
      BY DEF PollEmpty, EnterLoop, bootVars
<1>4. RxTypeOK'
      BY <1>1, <1>2, <1>3 DEF RxTypeOK
<1>5. RxOwnership'
      BY <1>1, OwnershipQuiet
<1>6. PortShape' /\ Unposted'
      BY <1>1, <1>3 DEF PortShape, BeforeQueues, Unposted, BootStage
<1> QED BY <1>4, <1>5, <1>6
=============================================================================
