----------------------------- MODULE RecvProofs -----------------------------
(***************************************************************************)
(* packet_recv prints every frame once and in order, and frees every mbuf. *)
(***************************************************************************)
EXTENDS PacketRecv, RxProofs

-----------------------------------------------------------------------------
(***************************************************************************)
(* The contents of a sequence of mbufs, as a function d gives them.        *)
(***************************************************************************)

Image(d, s) == [k \in 1 .. Len(s) |-> d[s[k]]]

LEMMA ImageType ==
  ASSUME NEW V, NEW d \in [Mbufs -> V], NEW s \in Seq(Mbufs)
  PROVE  /\ Image(d, s) \in Seq(V)
         /\ Len(s) \in Nat /\ Len(Image(d, s)) = Len(s)
         /\ \A k \in 1 .. Len(s) : Image(d, s)[k] = d[s[k]]
<1>1. Len(s) \in Nat /\ \A k \in 1 .. Len(s) : s[k] \in Mbufs
      BY LenProperties, ElementOfSeq
<1> QED BY <1>1 DEF Image

LEMMA ImageSame ==
  ASSUME NEW d, NEW e, NEW s, \A m \in Elems(s) : d[m] = e[m]
  PROVE  Image(d, s) = Image(e, s)
<1>1. \A k \in 1 .. Len(s) : d[s[k]] = e[s[k]]
      BY DEF Elems
<1> QED BY <1>1 DEF Image

LEMMA ImageEmpty == ASSUME NEW d PROVE Image(d, <<>>) = <<>>
BY DEF Image

\* A frame that arrives goes to the end of the ring.
LEMMA ImageAppend ==
  ASSUME NEW V, NEW d \in [Mbufs -> V], NEW s \in Seq(Mbufs), NEW m \in Mbufs
  PROVE  Image(d, Append(s, m)) = Append(Image(d, s), d[m])
<1> DEFINE t == Append(s, m)
           x == Image(d, t)
           y == Append(Image(d, s), d[m])
<1>1. /\ t \in Seq(Mbufs) /\ Len(t) = Len(s) + 1 /\ t[Len(s) + 1] = m
      /\ \A k \in 1 .. Len(s) : t[k] = s[k]
      BY AppendProperties
<1>2. /\ Image(d, s) \in Seq(V)
      /\ Len(s) \in Nat /\ Len(Image(d, s)) = Len(s)
      /\ \A k \in 1 .. Len(s) : Image(d, s)[k] = d[s[k]]
      BY ImageType
<1> HIDE DEF t
<1>3. x \in Seq(V) /\ Len(x) = Len(t) /\ \A k \in 1 .. Len(t) : x[k] = d[t[k]]
  <2>1. t \in Seq(Mbufs)
        BY <1>1
  <2> QED BY <2>1, ImageType
<1>4. d[m] \in V
      OBVIOUS
<1>5. /\ y \in Seq(V) /\ Len(y) = Len(s) + 1 /\ y[Len(s) + 1] = d[m]
      /\ \A k \in 1 .. Len(s) : y[k] = d[s[k]]
      BY <1>2, <1>4, AppendProperties
<1> HIDE DEF x, y
<1>6. ASSUME NEW k \in 1 .. Len(x) PROVE x[k] = y[k]
  <2>1. k \in 1 .. Len(s) \/ k = Len(s) + 1
        BY <1>1, <1>2, <1>3
  <2> QED BY <1>1, <1>2, <1>3, <1>5, <2>1
<1>7. x = y
      BY <1>1, <1>3, <1>5, <1>6, SeqEqual
<1> QED BY <1>7 DEF x, y, t

\* A burst and the rest of the ring are the ring.
LEMMA ImageSplit ==
  ASSUME NEW V, NEW d \in [Mbufs -> V], NEW s \in Seq(Mbufs), NEW n \in 0 .. Len(s)
  PROVE  Image(d, SubSeq(s, 1, n)) \o Image(d, SubSeq(s, n + 1, Len(s))) = Image(d, s)
<1> DEFINE a == SubSeq(s, 1, n)
           b == SubSeq(s, n + 1, Len(s))
           x == Image(d, a)
           y == Image(d, b)
           z == Image(d, s)
           w == x \o y
<1>1. Len(s) \in Nat /\ n \in Nat /\ n <= Len(s)
      BY LenProperties
<1>2. a \in Seq(Mbufs) /\ Len(a) = n /\ \A k \in 1 .. n : a[k] = s[k]
      BY <1>1, SubSeqProperties, ElementOfSeq
<1>3. /\ b \in Seq(Mbufs) /\ Len(b) = Len(s) - n
      /\ \A k \in 1 .. (Len(s) - n) : b[k] = s[n + k]
      BY <1>1, SubSeqProperties, ElementOfSeq
<1> HIDE DEF a, b
<1>4. x \in Seq(V) /\ Len(x) = Len(a) /\ \A k \in 1 .. Len(a) : x[k] = d[a[k]]
  <2>1. a \in Seq(Mbufs)
        BY <1>2
  <2> QED BY <2>1, ImageType
<1>5. y \in Seq(V) /\ Len(y) = Len(b) /\ \A k \in 1 .. Len(b) : y[k] = d[b[k]]
  <2>1. b \in Seq(Mbufs)
        BY <1>3
  <2> QED BY <2>1, ImageType
<1>6. z \in Seq(V) /\ Len(z) = Len(s) /\ \A k \in 1 .. Len(s) : z[k] = d[s[k]]
      BY ImageType
<1> HIDE DEF x, y, z
<1>7. /\ w \in Seq(V) /\ Len(w) = Len(x) + Len(y)
      /\ \A k \in 1 .. (Len(x) + Len(y)) :
            w[k] = IF k <= Len(x) THEN x[k] ELSE y[k - Len(x)]
  <2>1. x \in Seq(V) /\ y \in Seq(V)
        BY <1>4, <1>5
  <2> QED BY <2>1, ConcatProperties
<1> HIDE DEF w
<1>8. Len(w) = Len(s) /\ Len(x) = n
      BY <1>1, <1>2, <1>3, <1>4, <1>5, <1>7
<1>9. ASSUME NEW k \in 1 .. Len(s) PROVE w[k] = z[k]
  <2>1. k \in 1 .. (Len(x) + Len(y))
        BY <1>7, <1>8
  <2>2. CASE k <= n
    <3>1. w[k] = x[k]
          BY <1>7, <1>8, <2>1, <2>2
    <3>2. x[k] = d[s[k]]
          BY <1>1, <1>2, <1>4, <2>2
    <3> QED BY <1>6, <3>1, <3>2
  <2>3. CASE ~(k <= n)
    <3>1. w[k] = y[k - n]
          BY <1>7, <1>8, <2>1, <2>3
    <3>2. k - n \in 1 .. (Len(s) - n) /\ n + (k - n) = k
          BY <1>1, <2>3
    <3>3. y[k - n] = d[b[k - n]]
          BY <1>3, <1>5, <3>2
    <3>4. b[k - n] = s[k]
          BY <1>3, <3>2
    <3> QED BY <1>6, <3>1, <3>3, <3>4
  <2> QED BY <2>2, <2>3
<1>10. w = z
      BY <1>6, <1>7, <1>8, <1>9, SeqEqual
<1> QED BY <1>10 DEF w, x, y, z, a, b

LEMMA ConcatAppend ==
  ASSUME NEW S, NEW s \in Seq(S), NEW t \in Seq(S), NEW e \in S
  PROVE  s \o Append(t, e) = Append(s \o t, e)
<1>1. <<e>> \in Seq(S)
      OBVIOUS
<1>2. s \o t \in Seq(S)
      BY ConcatProperties
<1>3. Append(t, e) = t \o <<e>> /\ Append(s \o t, e) = (s \o t) \o <<e>>
      BY <1>2, AppendIsConcat
<1>4. (s \o t) \o <<e>> = s \o (t \o <<e>>)
      BY <1>1, ConcatAssociative
<1> QED BY <1>3, <1>4

LEMMA AppendConcat ==
  ASSUME NEW S, NEW s \in Seq(S), NEW t \in Seq(S), NEW e \in S
  PROVE  Append(s, e) \o t = s \o (<<e>> \o t)
<1>1. <<e>> \in Seq(S)
      OBVIOUS
<1>2. Append(s, e) = s \o <<e>>
      BY AppendIsConcat
<1>3. (s \o <<e>>) \o t = s \o (<<e>> \o t)
      BY <1>1, ConcatAssociative
<1> QED BY <1>2, <1>3

\* The packet that is handled moves from the front of the burst to the end of
\* what was printed.
LEMMA ImageHead ==
  ASSUME NEW V, NEW d \in [Mbufs -> V], NEW s \in Seq(Mbufs), s # <<>>, NEW p \in Seq(V)
  PROVE  Append(p, d[Head(s)]) \o Image(d, Tail(s)) = p \o Image(d, s)
<1> DEFINE e == d[Head(s)]
           u == Tail(s)
           x == Image(d, u)
           z == Image(d, s)
           o == <<e>>
           w == o \o x
<1>1. /\ Head(s) \in Mbufs /\ u \in Seq(Mbufs) /\ Len(u) = Len(s) - 1
      /\ \A k \in 1 .. Len(u) : u[k] = s[k + 1]
      /\ Len(s) \in Nat \ {0} /\ Head(s) = s[1]
      BY HeadTailProperties, EmptySeq
<1>2. e \in V /\ o \in Seq(V) /\ Len(o) = 1 /\ o[1] = e
      BY <1>1
<1> HIDE DEF u
<1>3. x \in Seq(V) /\ Len(x) = Len(u) /\ \A k \in 1 .. Len(u) : x[k] = d[u[k]]
  <2>1. u \in Seq(Mbufs)
        BY <1>1
  <2> QED BY <2>1, ImageType
<1>4. z \in Seq(V) /\ Len(z) = Len(s) /\ \A k \in 1 .. Len(s) : z[k] = d[s[k]]
      BY ImageType
<1>5. e = d[s[1]]
      BY <1>1
<1> HIDE DEF e, x, z, o
<1> o \in Seq(V) /\ x \in Seq(V)
      BY <1>2, <1>3
<1>6. /\ w \in Seq(V) /\ Len(w) = Len(o) + Len(x)
      /\ \A k \in 1 .. (Len(o) + Len(x)) :
            w[k] = IF k <= Len(o) THEN o[k] ELSE x[k - Len(o)]
      BY ConcatProperties
<1>7. Append(p, e) \o x = p \o w
      BY <1>2, AppendConcat DEF o
<1> HIDE DEF w
<1>8. Len(w) = Len(s)
      BY <1>1, <1>2, <1>3, <1>6
<1>9. ASSUME NEW k \in 1 .. Len(s) PROVE w[k] = z[k]
  <2>1. k \in 1 .. (Len(o) + Len(x))
        BY <1>6, <1>8
  <2>2. CASE k = 1
    <3>1. w[k] = o[1]
          BY <1>2, <1>6, <2>1, <2>2
    <3> QED BY <1>2, <1>4, <1>5, <2>2, <3>1
  <2>3. CASE k # 1
    <3>1. w[k] = x[k - 1]
          BY <1>2, <1>6, <2>1, <2>3
    <3>2. k - 1 \in 1 .. Len(u) /\ (k - 1) + 1 = k
          BY <1>1, <2>3
    <3>3. x[k - 1] = d[u[k - 1]]
          BY <1>3, <3>2
    <3>4. u[k - 1] = s[k]
          BY <1>1, <3>2
    <3> QED BY <1>4, <3>1, <3>3, <3>4
  <2> QED BY <2>2, <2>3
<1>10. w = z
      BY <1>4, <1>6, <1>8, <1>9, SeqEqual
<1> QED BY <1>7, <1>10 DEF e, x, z, u

-----------------------------------------------------------------------------
(***************************************************************************)
(* The invariant of packet_recv.  InOrder is inductive only together with  *)
(* RxOwnership: the NIC overwrites an mbuf, and it is because the mbuf is  *)
(* in no burst and in no full descriptor that no frame is lost.            *)
(***************************************************************************)

FrameNumber == Nat

RecvType ==
  /\ data \in [Mbufs -> FrameNumber]
  /\ arrived \in [RxQueues -> Seq(FrameNumber)]
  /\ printed \in [RxQueues -> Seq(FrameNumber)]
  /\ heap \in Nat /\ burst_num \in Nat

RecvInv == RxInv /\ RecvType /\ InOrder

Line(q) == (printed[q] \o Image(data, InBurst(q))) \o Image(data, filled[q])

LEMMA InOrderLines == InOrder <=> \A q \in RxQueues : Line(q) = arrived[q]
BY DEF InOrder, Contents, Image, Line

LEMMA RecvLens ==
  RecvType => \A q \in RxQueues : Len(printed[q]) \in Nat /\ Len(arrived[q]) \in Nat
BY LenProperties DEF RecvType

LEMMA RecvInitial == Init => RecvInv
<1> SUFFICES ASSUME Init PROVE RecvInv
    OBVIOUS
<1>1. RxInv
      BY RxInitial DEF Init
<1>2. RecvType
      BY DEF Init, RxInit, RecvType, FrameNumber
<1>3. \A q \in RxQueues : printed[q] = <<>> /\ arrived[q] = <<>>
      BY DEF Init
<1>4. InOrder
  <2>1. ASSUME NEW q \in RxQueues PROVE Line(q) = arrived[q]
    <3>1. InBurst(q) = <<>> /\ filled[q] = <<>>
          BY DEF Init, RxInit, InBurst
    <3>2. Line(q) = (<<>> \o <<>>) \o <<>>
          BY <1>3, <3>1, ImageEmpty DEF Line
    <3>3. <<>> \o <<>> = <<>>
          BY ConcatEmptySeq, EmptySeq
    <3> QED BY <1>3, <3>2, <3>3
  <2> QED BY <2>1, InOrderLines
<1> QED BY <1>1, <1>2, <1>4 DEF RecvInv

\* What the printed, the burst and the ring of queue q are sequences of.
LEMMA LineTypes ==
  ASSUME RecvInv, NEW q \in RxQueues
  PROVE  /\ printed[q] \in Seq(FrameNumber) /\ filled[q] \in Seq(Mbufs)
         /\ InBurst(q) \in Seq(Mbufs)
         /\ Image(data, InBurst(q)) \in Seq(FrameNumber)
         /\ Image(data, filled[q]) \in Seq(FrameNumber)
<1>1. printed[q] \in Seq(FrameNumber) /\ filled[q] \in Seq(Mbufs)
      BY DEF RecvInv, RecvType, RxInv, RxTypeOK
<1>2. InBurst(q) \in Seq(Mbufs)
      BY EmptySeq DEF InBurst, RecvInv, RxInv, RxTypeOK
<1>3. data \in [Mbufs -> FrameNumber]
      BY DEF RecvInv, RecvType
<1> QED BY <1>1, <1>2, <1>3, ImageType

LEMMA OrderFromLines ==
  ASSUME \A q \in RxQueues : Line(q)' = arrived'[q]
  PROVE  InOrder'
<1>1. (InOrder <=> \A q \in RxQueues : Line(q) = arrived[q])'
      BY InOrderLines, PTL
<1> QED BY <1>1

\* A step that neither receives, nor takes a burst, nor prints.
LEMMA OrderQuiet ==
  ASSUME RecvInv, UNCHANGED <<data, arrived, printed, filled, mbufs>>,
         mbufs = <<>> \/ UNCHANGED r
  PROVE  InOrder'
<1>1. ASSUME NEW q \in RxQueues PROVE Line(q)' = arrived'[q]
  <2>1. InBurst(q)' = InBurst(q)
        BY DEF InBurst
  <2>2. Line(q)' = Line(q)
        BY <2>1 DEF Line
  <2> QED BY <2>2, InOrderLines DEF RecvInv
<1> QED BY <1>1, OrderFromLines

\* A frame goes to the end of the line of its queue, into an mbuf that is in
\* no line.
LEMMA OrderReceive ==
  ASSUME RecvInv, NEW q \in RxQueues, Receive(q)
  PROVE  InOrder' /\ RecvType'
<1> DEFINE frame == Count(arrived) + 1
<1>1. PICK m \in posted[q] : /\ filled' = [filled EXCEPT ![q] = Append(@, m)]
                             /\ data' = [data EXCEPT ![m] = frame]
      BY DEF Receive, NicReceive
<1>2. /\ arrived' = [arrived EXCEPT ![q] = Append(@, frame)]
      /\ printed' = printed /\ heap' = heap /\ burst_num' = burst_num
      /\ r' = r /\ mbufs' = mbufs
      BY DEF Receive, NicReceive
<1>3. frame \in FrameNumber
  <2>1. \A p \in RxQueues : Len(arrived[p]) \in Nat
        BY RecvLens DEF RecvInv
  <2>2. Count(arrived) \in Nat
        BY <2>1, RingsAreFinite
  <2> QED BY <2>2 DEF FrameNumber
<1> HIDE DEF frame
<1>4. m \in Mbufs /\ data \in [Mbufs -> FrameNumber]
      BY DEF RecvInv, RecvType, RxInv, RxTypeOK
<1>5. data' \in [Mbufs -> FrameNumber] /\ data'[m] = frame
      BY <1>1, <1>3, <1>4
<1>6. RecvType'
  <2>1. arrived[q] \in Seq(FrameNumber)
        BY DEF RecvInv, RecvType
  <2>2. Append(arrived[q], frame) \in Seq(FrameNumber)
        BY <1>3, <2>1, AppendProperties
  <2> QED BY <1>2, <1>5, <2>2 DEF RecvInv, RecvType
<1>7. ASSUME NEW p \in RxQueues PROVE Line(p)' = arrived'[p]
  <2>1. /\ m \notin Elems(filled[p]) /\ m \notin Elems(mbufs)
        BY OwnershipRows DEF RecvInv, RxInv, Rows, Places, Apart
  <2>2. InBurst(p)' = InBurst(p) /\ m \notin Elems(InBurst(p))
        BY <1>2, <2>1, ElemsEmpty DEF InBurst
  <2>3. Image(data', InBurst(p)) = Image(data, InBurst(p))
    <3>1. Elems(InBurst(p)) \subseteq Mbufs
          BY LineTypes, ElemsType
    <3>2. \A x \in Elems(InBurst(p)) : data'[x] = data[x]
          BY <1>1, <1>4, <2>2, <3>1
    <3> QED BY <3>2, ImageSame
  <2>4. Image(data', filled[p]) = Image(data, filled[p])
    <3>1. Elems(filled[p]) \subseteq Mbufs
          BY LineTypes, ElemsType
    <3>2. \A x \in Elems(filled[p]) : data'[x] = data[x]
          BY <1>1, <1>4, <2>1, <3>1
    <3> QED BY <3>2, ImageSame
  <2>5. Line(p) = arrived[p]
        BY InOrderLines DEF RecvInv
  <2>6. CASE p # q
    <3>1. filled'[p] = filled[p] /\ arrived'[p] = arrived[p]
          BY <1>1, <1>2, <2>6 DEF RecvInv, RecvType, RxInv, RxTypeOK
    <3> QED BY <1>2, <2>2, <2>3, <2>4, <2>5, <3>1 DEF Line
  <2>7. CASE p = q
    <3> DEFINE F == Image(data, filled[p])
               P == printed[p] \o Image(data, InBurst(p))
    <3>1. filled'[p] = Append(filled[p], m) /\ arrived'[p] = Append(arrived[p], frame)
          BY <1>1, <1>2, <2>7 DEF RecvInv, RecvType, RxInv, RxTypeOK
    <3>2. Image(data', filled'[p]) = Append(Image(data', filled[p]), data'[m])
          BY <1>4, <1>5, <3>1, LineTypes, ImageAppend
    <3>3. Image(data', filled'[p]) = Append(F, frame)
          BY <1>5, <2>4, <3>2
    <3>4. F \in Seq(FrameNumber) /\ P \in Seq(FrameNumber)
          BY LineTypes, ConcatProperties
    <3>5. Line(p)' = P \o Append(F, frame)
          BY <1>2, <2>2, <2>3, <3>3 DEF Line
    <3>6. P \o F = arrived[p]
          BY <2>5 DEF Line
    <3> HIDE DEF P, F
    <3>7. P \o Append(F, frame) = Append(P \o F, frame)
          BY <1>3, <3>4, ConcatAppend
    <3> QED BY <3>1, <3>5, <3>6, <3>7
  <2> QED BY <2>6, <2>7
<1> QED BY <1>6, <1>7, OrderFromLines

\* A burst is taken when the line has no packet in the burst.
LEMMA OrderPoll ==
  ASSUME RecvInv, Poll, UNCHANGED <<arrived, printed>>
  PROVE  InOrder'
<1> DEFINE n == Smaller(Smaller(BURST_SIZE, Len(filled[r])), Cardinality(pool))
<1>1. /\ filled' = [filled EXCEPT ![r] = SubSeq(@, n + 1, Len(@))]
      /\ mbufs' = SubSeq(filled[r], 1, n)
      /\ mbufs = <<>> /\ data' = data /\ r' = r
      BY DEF Poll
<1>2. r \in RxQueues /\ filled[r] \in Seq(Mbufs) /\ data \in [Mbufs -> FrameNumber]
      BY DEF RecvInv, RecvType, RxInv, RxTypeOK
<1>3. n \in 0 .. Len(filled[r])
  <2>1. Cardinality(pool) \in Nat
        BY RxAssumption, FS_Subset, FS_CardinalityType DEF RecvInv, RxInv, RxTypeOK
  <2> QED BY <1>2, <2>1, RxAssumption DEF Smaller
<1> HIDE DEF n
<1>4. ASSUME NEW q \in RxQueues PROVE Line(q)' = arrived'[q]
  <2>1. Line(q) = arrived[q]
        BY InOrderLines DEF RecvInv
  <2>2. InBurst(q) = <<>>
        BY <1>1 DEF InBurst
  <2>3. CASE q # r
    <3>1. filled'[q] = filled[q] /\ InBurst(q)' = <<>>
          BY <1>1, <2>3 DEF InBurst, RecvInv, RxInv, RxTypeOK
    <3> QED BY <1>1, <2>1, <2>2, <3>1 DEF Line
  <2>4. CASE q = r
    <3> DEFINE A == Image(data, SubSeq(filled[q], 1, n))
               B == Image(data, SubSeq(filled[q], n + 1, Len(filled[q])))
               P == printed[q]
    <3>1. /\ filled'[q] = SubSeq(filled[q], n + 1, Len(filled[q]))
          /\ InBurst(q)' = SubSeq(filled[q], 1, n)
          BY <1>1, <2>4 DEF InBurst, RecvInv, RxInv, RxTypeOK
    <3>2. A \o B = Image(data, filled[q])
          BY <1>2, <1>3, <2>4, ImageSplit
    <3>3. A \in Seq(FrameNumber) /\ B \in Seq(FrameNumber)
      <4>1. /\ SubSeq(filled[q], 1, n) \in Seq(Mbufs)
            /\ SubSeq(filled[q], n + 1, Len(filled[q])) \in Seq(Mbufs)
            BY <1>2, <1>3, <2>4, ElemsSplit, OwnershipRows DEF RecvInv, RxInv, Rows, Places
      <4> QED BY <1>2, <4>1, ImageType
    <3>4. P \in Seq(FrameNumber)
          BY LineTypes
    <3>5. Line(q)' = (P \o A) \o B
          BY <1>1, <3>1 DEF Line
    <3>6. Line(q) = (P \o <<>>) \o Image(data, filled[q])
          BY <2>2, ImageEmpty DEF Line
    <3>7. P \o <<>> = P
          BY <3>4, ConcatEmptySeq
    <3> HIDE DEF A, B, P
    <3>8. (P \o A) \o B = P \o (A \o B)
          BY <3>3, <3>4, ConcatAssociative
    <3> QED BY <2>1, <3>2, <3>5, <3>6, <3>7, <3>8
  <2> QED BY <2>3, <2>4
<1> QED BY <1>4, OrderFromLines

\* The first packet of the burst is printed; the loop turns to another queue
\* only after the last one.
LEMMA OrderHandle ==
  ASSUME RecvInv, Handle
  PROVE  InOrder' /\ RecvType'
<1> DEFINE e == data[Head(mbufs)]
<1>1. /\ printed' = [printed EXCEPT ![r] = Append(@, e)]
      /\ mbufs # <<>> /\ mbufs' = Tail(mbufs)
      /\ r' = IF Len(mbufs) = 1 THEN NextQueue ELSE r
      /\ filled' = filled /\ data' = data /\ arrived' = arrived
      /\ heap' = heap + 1 /\ burst_num' = burst_num + 1
      BY DEF Handle, NextPacket
<1>2. /\ r \in RxQueues /\ mbufs \in Seq(Mbufs) /\ data \in [Mbufs -> FrameNumber]
      /\ printed[r] \in Seq(FrameNumber)
      BY DEF RecvInv, RecvType, RxInv, RxTypeOK
<1>3. /\ Head(mbufs) \in Mbufs /\ Len(mbufs) \in Nat \ {0}
      /\ Tail(mbufs) \in Seq(Mbufs) /\ Len(Tail(mbufs)) = Len(mbufs) - 1
      BY <1>1, <1>2, HeadTailProperties, EmptySeq
<1>4. e \in FrameNumber
      BY <1>2, <1>3
<1> HIDE DEF e
<1>5. /\ Append(printed[r], e) \in Seq(FrameNumber)
      /\ Len(Append(printed[r], e)) = Len(printed[r]) + 1
      BY <1>2, <1>4, AppendProperties
<1>6. /\ printed'[r] = Append(printed[r], e)
      /\ \A q \in RxQueues \ {r} : printed'[q] = printed[q]
      BY <1>1, <1>2 DEF RecvInv, RecvType
<1>7. RecvType'
  <2>1. printed' \in [RxQueues -> Seq(FrameNumber)]
        BY <1>1, <1>5 DEF RecvInv, RecvType
  <2>2. heap' \in Nat /\ burst_num' \in Nat
        BY <1>1 DEF RecvInv, RecvType
  <2> QED BY <1>1, <2>1, <2>2 DEF RecvInv, RecvType
<1>8. \A q \in RxQueues : InBurst(q)' = IF q = r THEN mbufs' ELSE <<>>
  <2>1. CASE Len(mbufs) = 1
    <3>1. mbufs' = <<>>
          BY <1>1, <1>3, <2>1, EmptySeq
    <3> QED BY <3>1 DEF InBurst
  <2>2. CASE Len(mbufs) # 1
        BY <1>1, <2>2 DEF InBurst
  <2> QED BY <2>1, <2>2
<1>9. ASSUME NEW q \in RxQueues PROVE Line(q)' = arrived'[q]
  <2>1. Line(q) = arrived[q]
        BY InOrderLines DEF RecvInv
  <2>2. CASE q # r
    <3>1. InBurst(q)' = InBurst(q) /\ printed'[q] = printed[q]
          BY <1>6, <1>8, <2>2 DEF InBurst
    <3> QED BY <1>1, <2>1, <3>1 DEF Line
  <2>3. CASE q = r
    <3>1. InBurst(q) = mbufs /\ InBurst(q)' = Tail(mbufs)
          BY <1>1, <1>8, <2>3 DEF InBurst
    <3>2. Append(printed[q], e) \o Image(data, Tail(mbufs)) = printed[q] \o Image(data, mbufs)
          BY <1>1, <1>2, <2>3, ImageHead DEF e
    <3>3. Line(q)' = (Append(printed[q], e) \o Image(data, Tail(mbufs))) \o Image(data, filled[q])
          BY <1>1, <1>6, <2>3, <3>1 DEF Line
    <3>4. Line(q) = (printed[q] \o Image(data, mbufs)) \o Image(data, filled[q])
          BY <3>1 DEF Line
    <3> QED BY <1>1, <2>1, <3>2, <3>3, <3>4
  <2> QED BY <2>2, <2>3
<1> QED BY <1>7, <1>9, OrderFromLines

LEMMA RecvStep == RecvInv /\ [Next]_vars => RecvInv'
<1> SUFFICES ASSUME RecvInv, [Next]_vars PROVE RecvInv'
    OBVIOUS
<1>1. CASE Boot
  <2>1. /\ UNCHANGED rxVars /\ UNCHANGED <<arrived, printed, heap, burst_num>>
        /\ BootStep \/ DevStartFails
        BY <1>1 DEF Boot, StartPortFails
  <2>2. RxInv'
        BY <2>1, BootKeepsRx DEF RecvInv
  <2>3. InOrder'
        BY <2>1, OrderQuiet DEF rxVars
  <2>4. RecvType'
        BY <2>1 DEF RecvInv, RecvType, rxVars
  <2> QED BY <2>2, <2>3, <2>4 DEF RecvInv
<1>2. CASE Start
  <2>1. RxInv'
        BY <1>2, StartKeepsRx DEF Start, RecvInv
  <2>2. UNCHANGED <<data, arrived, printed, filled, mbufs, r, heap, burst_num>>
        BY <1>2 DEF Start, StartPort
  <2>3. InOrder'
        BY <2>2, OrderQuiet
  <2>4. RecvType'
        BY <2>2 DEF RecvInv, RecvType
  <2> QED BY <2>1, <2>3, <2>4 DEF RecvInv
<1>3. CASE Enter \/ (PollEmpty /\ Burst) \/ HeapExhausted \/ UNCHANGED vars
  <2>1. RxInv'
    <3>1. EnterLoop \/ PollEmpty \/ HeapExhausted \/ UNCHANGED <<bootVars, rxVars>>
          BY <1>3 DEF Enter, vars
    <3>2. HeapExhausted => /\ stage = "run" /\ mbufs # <<>> /\ stage' = "crash"
                           /\ UNCHANGED <<dev, ret, rxVars>>
          BY DEF HeapExhausted
    <3> QED BY <3>1, <3>2, QuietKeepsRx DEF RecvInv
  <2>2. /\ UNCHANGED <<data, arrived, printed, filled, mbufs, heap, burst_num>>
        /\ mbufs = <<>> \/ UNCHANGED r
        BY <1>3 DEF Enter, EnterLoop, PollEmpty, Burst, HeapExhausted, vars, bootVars, rxVars
  <2>3. InOrder'
        BY <2>2, OrderQuiet
  <2>4. RecvType'
        BY <2>2 DEF RecvInv, RecvType
  <2> QED BY <2>1, <2>3, <2>4 DEF RecvInv
<1>4. ASSUME NEW q \in RxQueues, Receive(q) PROVE RecvInv'
  <2>1. RxInv'
        BY <1>4, ReceiveKeepsRx DEF Receive, RecvInv
  <2>2. InOrder' /\ RecvType'
        BY <1>4, OrderReceive
  <2> QED BY <2>1, <2>2 DEF RecvInv
<1>5. CASE Poll /\ Burst
  <2>1. RxInv'
        BY <1>5, PollKeepsRx DEF RecvInv
  <2>2. UNCHANGED <<data, arrived, printed, heap, burst_num>>
        BY <1>5 DEF Burst, Poll
  <2>3. InOrder'
        BY <1>5, <2>2, OrderPoll
  <2>4. RecvType'
        BY <2>2 DEF RecvInv, RecvType
  <2> QED BY <2>1, <2>3, <2>4 DEF RecvInv
<1>6. CASE Handle
  <2>1. RxInv'
        BY <1>6, NextPacketKeepsRx DEF Handle, RecvInv
  <2>2. InOrder' /\ RecvType'
        BY <1>6, OrderHandle
  <2> QED BY <2>1, <2>2 DEF RecvInv
<1> QED BY <1>1, <1>2, <1>3, <1>4, <1>5, <1>6 DEF Next, Program, Burst, Stopped

LEMMA RecvInvariant == Spec => []RecvInv
<1> QED BY RecvInitial, RecvStep, PTL DEF Spec

-----------------------------------------------------------------------------
\* Every mbuf of packet_recv is in one place: what the loop takes it frees once.
THEOREM RecvOwnership == Spec => []RxOwnership
<1>1. RecvInv => RxOwnership
      BY DEF RecvInv, RxInv
<1> QED BY <1>1, RecvInvariant, PTL

\* Every accepted frame is printed once, with its content and in order,
\* whatever the number of queues, mbufs and descriptors and the burst size.
THEOREM PrintedInOrder == Spec => []InOrder
<1>1. RecvInv => InOrder
      BY DEF RecvInv
<1> QED BY <1>1, RecvInvariant, PTL
=============================================================================
