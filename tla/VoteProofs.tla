----------------------------- MODULE VoteProofs -----------------------------
(***************************************************************************)
(* The vote receiver counts every packet, keeps its tables in bounds for   *)
(* every index that is not negative after the conversion, and puts what    *)
(* packet_send sends into cell 0, which never overflows.                   *)
(***************************************************************************)
EXTENDS VoteRecv, RxProofs

-----------------------------------------------------------------------------
(***************************************************************************)
(* Words, their conversion, and the remainder.                             *)
(***************************************************************************)

Half == WordSize \div 2

LEMMA WordFacts ==
  /\ ByteBase \in Nat /\ ByteBase >= 2
  /\ WordSize \in Nat /\ WordSize >= ByteBase
  /\ Half \in Nat \ {0} /\ WordSize = 2 * Half
<1> DEFINE k == ByteBase \div 2
           j == k * ByteBase
<1>1. ByteBase \in Nat /\ ByteBase > 0 /\ ByteBase % 2 = 0
      BY VoteAssumption
<1>2. k \in Nat /\ ByteBase = 2 * k
      BY <1>1
<1>3. k >= 1
      BY <1>1, <1>2
<1> HIDE DEF k
<1>4. j \in Nat /\ j >= ByteBase
  <2>1. j = ByteBase + (k - 1) * ByteBase
        BY <1>1, <1>2
  <2>2. (k - 1) * ByteBase \in Nat
        BY <1>1, <1>2, <1>3
  <2> QED BY <1>1, <2>1, <2>2
<1>5. ByteBase * ByteBase = 2 * j
      BY <1>1, <1>2
<1> HIDE DEF j
<1>6. WordSize = 2 * j
      BY <1>5 DEF WordSize
<1>7. Half = j
      BY <1>4, <1>6 DEF Half
<1> QED BY <1>1, <1>2, <1>3, <1>4, <1>6, <1>7

LEMMA ToIntType == ASSUME NEW n \in Int PROVE ToInt(n) \in Words
<1>1. Half \in Nat \ {0} /\ WordSize = 2 * Half /\ WordSize \in Nat
      BY WordFacts
<1>2. (n + Half) % WordSize \in 0 .. (WordSize - 1)
      BY <1>1
<1>3. ToInt(n) = ((n + Half) % WordSize) - Half /\ Words = (-Half) .. (Half - 1)
      BY DEF ToInt, Words, Half
<1> HIDE DEF Half
<1> QED BY <1>1, <1>2, <1>3

LEMMA WordsAreInts == 0 \in Words /\ \A x \in Words : x \in Int
<1>1. Half \in Nat \ {0} /\ Words = (-Half) .. (Half - 1)
      BY WordFacts DEF Words, Half
<1> QED BY <1>1

LEMMA NtohlType == ASSUME NEW x \in Words PROVE ntohl(x) \in Words
<1> DEFINE u == x % WordSize
<1>1. x \in Int /\ WordSize \in Nat /\ WordSize > 0 /\ ByteBase \in Nat /\ ByteBase > 0
      BY WordFacts, WordsAreInts
<1>2. u \in Nat
      BY <1>1
<1> HIDE DEF u
<1>3. (u % ByteBase) \in Int /\ (u \div ByteBase) \in Int
      BY <1>1, <1>2
<1>4. (u % ByteBase) * ByteBase + (u \div ByteBase) \in Int
      BY <1>1, <1>3
<1>5. ToInt((u % ByteBase) * ByteBase + (u \div ByteBase)) \in Words
      BY <1>4, ToIntType
<1> QED BY <1>5 DEF ntohl, u

\* Only a negative number has a remainder that is no index of the tables, and
\* that remainder is negative too.
LEMMA RemainderType ==
  ASSUME NEW x \in Int
  PROVE  /\ Remainder(x, ARRAY_SIZE) \in Int
         /\ Remainder(x, ARRAY_SIZE) \notin Cells => x < 0
         /\ Remainder(x, ARRAY_SIZE) >= 0 => Remainder(x, ARRAY_SIZE) \in Cells
<1>1. ByteBase \in Nat /\ ByteBase > 0
      BY WordFacts
<1>2. CASE x >= 0
  <2>1. x % ByteBase \in 0 .. (ByteBase - 1)
        BY <1>1, <1>2
  <2> QED BY <1>1, <1>2, <2>1 DEF Remainder, ARRAY_SIZE, Cells
<1>3. CASE ~(x >= 0)
  <2>1. (-x) % ByteBase \in 0 .. (ByteBase - 1)
        BY <1>1, <1>3
  <2> QED BY <1>1, <1>3, <2>1 DEF Remainder, ARRAY_SIZE, Cells
<1> QED BY <1>2, <1>3

LEMMA SmallMod ==
  ASSUME NEW M \in Nat \ {0}, NEW a \in 0 .. (M - 1)
  PROVE  a % M = a /\ a \div M = 0
<1>1. a = (a \div M) * M + (a % M) /\ a % M \in 0 .. (M - 1) /\ a \div M \in Int
      OBVIOUS
<1> DEFINE k == a \div M
           v == a % M
<1>2. k \in Int /\ v \in 0 .. (M - 1) /\ k * M + v = 0 * M + a
      BY <1>1
<1> HIDE DEF k, v
<1>3. v = a
      BY <1>2, Residue
<1>4. k = 0
  <2>1. k * M = 0
        BY <1>2, <1>3
  <2> QED BY <1>2, <2>1
<1> QED BY <1>3, <1>4 DEF k, v

\* A number that an int can hold is stored as it is.
LEMMA ToIntExact == ASSUME NEW n \in Words PROVE ToInt(n) = n
<1>1. Half \in Nat \ {0} /\ WordSize = 2 * Half /\ WordSize \in Nat \ {0} /\ n \in Int
      BY WordFacts, WordsAreInts
<1>2. ToInt(n) = ((n + Half) % WordSize) - Half /\ Words = (-Half) .. (Half - 1)
      BY DEF ToInt, Words, Half
<1> HIDE DEF Half
<1> DEFINE a == n + Half
<1>3. a \in 0 .. (WordSize - 1)
      BY <1>1, <1>2
<1>4. a % WordSize = a
      BY <1>1, <1>3, SmallMod
<1> QED BY <1>1, <1>2, <1>4

LEMMA MultipleMod ==
  ASSUME NEW M \in Nat \ {0}, NEW y \in Int, y * M \in Nat
  PROVE  (y * M) % M = 0
<1> DEFINE a == y * M
<1>1. PICK k \in Int : a = k * M + (a % M) /\ a % M \in 0 .. (M - 1)
      BY Quotient
<1> DEFINE v == a % M
<1>2. k * M + v = y * M + 0 /\ v \in 0 .. (M - 1) /\ 0 \in 0 .. (M - 1)
      BY <1>1
<1> HIDE DEF v
<1>3. v = 0
      BY <1>2, Residue
<1> QED BY <1>3 DEF v

\* A small index in host order becomes a multiple of the size of the tables.
LEMMA SenderCell ==
  ASSUME NEW x \in Cells
  PROVE  Remainder(ntohl(x), ARRAY_SIZE) = 0
<1> DEFINE n == x * ByteBase
<1>1. /\ ByteBase \in Nat \ {0} /\ WordSize \in Nat \ {0} /\ WordSize >= ByteBase
      /\ Half \in Nat \ {0} /\ WordSize = 2 * Half /\ WordSize = ByteBase * ByteBase
      BY WordFacts DEF WordSize
<1>2. x \in 0 .. (ByteBase - 1)
      BY <1>1 DEF Cells, ARRAY_SIZE
<1>3. x % WordSize = x
  <2>1. x \in 0 .. (WordSize - 1)
        BY <1>1, <1>2
  <2> QED BY <1>1, <2>1, SmallMod
<1>4. x % ByteBase = x /\ x \div ByteBase = 0
      BY <1>1, <1>2, SmallMod
<1>5. ntohl(x) = ToInt(n)
  <2>1. n \in Int
        BY <1>1, <1>2
  <2>2. n + 0 = n
        BY <2>1
  <2> QED BY <1>3, <1>4, <2>2 DEF ntohl
<1>6. n \in 0 .. (WordSize - 1)
  <2>1. n >= 0 /\ n \in Int
        BY <1>1, <1>2
  <2> DEFINE rest == (ByteBase - x) * ByteBase
  <2>2. WordSize = n + rest
        BY <1>1, <1>2
  <2>3. rest \in Int /\ rest >= 1
        BY <1>1, <1>2
  <2> HIDE DEF n, rest
  <2> QED BY <1>1, <2>1, <2>2, <2>3
<1>7. \E y \in Int : ToInt(n) = y * ByteBase
  <2> DEFINE a == n + Half
  <2>1. ToInt(n) = (a % WordSize) - Half
        BY DEF ToInt, Half
  <2>2. a \in Nat
        BY <1>1, <1>6
  <2>3. CASE a < WordSize
    <3>1. a % WordSize = a
          BY <1>1, <2>2, <2>3, SmallMod
    <3>2. ToInt(n) = n
          BY <1>1, <1>6, <2>1, <3>1
    <3> QED BY <1>2, <3>2
  <2>4. CASE ~(a < WordSize)
    <3> DEFINE b == a - WordSize
    <3>1. b \in 0 .. (WordSize - 1)
          BY <1>1, <1>6, <2>2, <2>4
    <3>2. PICK k \in Int : a = k * WordSize + (a % WordSize)
                           /\ a % WordSize \in 0 .. (WordSize - 1)
          BY <1>1, <2>2, Quotient
    <3>3. k * WordSize + (a % WordSize) = 1 * WordSize + b
          BY <1>1, <2>2, <3>2
    <3> DEFINE v == a % WordSize
    <3>4. v \in 0 .. (WordSize - 1) /\ k * WordSize + v = 1 * WordSize + b
          BY <3>2, <3>3
    <3> HIDE DEF v, b
    <3>5. v = b
          BY <1>1, <3>1, <3>4, Residue
    <3>6. ToInt(n) = n - WordSize
          BY <1>1, <1>6, <2>1, <3>5 DEF v, b
    <3>7. n - WordSize = (x - ByteBase) * ByteBase
          BY <1>1, <1>2
    <3> QED BY <1>1, <1>2, <3>6, <3>7
  <2> QED BY <2>3, <2>4
<1>8. PICK y \in Int : ToInt(n) = y * ByteBase
      BY <1>7
<1>9. CASE y * ByteBase >= 0
  <2>1. y * ByteBase \in Nat
        BY <1>1, <1>9
  <2>2. (y * ByteBase) % ByteBase = 0
        BY <1>1, <2>1, MultipleMod
  <2> QED BY <1>5, <1>8, <1>9, <2>2 DEF Remainder, ARRAY_SIZE
<1>10. CASE ~(y * ByteBase >= 0)
  <2> DEFINE z == -y
  <2>1. z \in Int /\ z * ByteBase = -(y * ByteBase)
        BY <1>1
  <2>2. z * ByteBase \in Nat
        BY <1>1, <1>10, <2>1
  <2> HIDE DEF z
  <2>3. (z * ByteBase) % ByteBase = 0
        BY <1>1, <2>1, <2>2, MultipleMod
  <2> QED BY <1>5, <1>8, <1>10, <2>1, <2>3 DEF Remainder, ARRAY_SIZE
<1> QED BY <1>9, <1>10

-----------------------------------------------------------------------------
(***************************************************************************)
(* The packet at hand.                                                     *)
(***************************************************************************)

LEMMA PacketType ==
  ASSUME VoteTypeOK, mbufs # <<>>
  PROVE  /\ Head(mbufs) \in Mbufs /\ data[Head(mbufs)] \in Frame
         /\ pkt \in Frame /\ pkt.idx \in Int /\ pkt.value \in Words
         /\ cell \in Int
         /\ cell \notin Cells => pkt.idx < 0
         /\ cell >= 0 => cell \in Cells
<1> DEFINE raw == data[Head(mbufs)]
<1>1. Head(mbufs) \in Mbufs
      BY HeadTailProperties DEF VoteTypeOK, RxTypeOK
<1>2. raw \in Frame
      BY <1>1 DEF VoteTypeOK
<1>3. raw.idx \in Words /\ raw.value \in Words
      BY <1>2 DEF Frame
<1>4. ntohl(raw.idx) \in Words /\ ntohl(raw.value) \in Words
      BY <1>3, NtohlType
<1>5. pkt = [idx |-> ntohl(raw.idx), value |-> ntohl(raw.value)]
      BY DEF pkt
<1>6. pkt \in Frame /\ pkt.idx \in Int /\ pkt.value \in Words
      BY <1>4, <1>5, WordsAreInts DEF Frame
<1> QED BY <1>1, <1>2, <1>6, RemainderType DEF cell

\* The loop body leaves the types as they are, whichever branch it takes.
LEMMA DoneType ==
  ASSUME VoteTypeOK, RxInv, Handling, Done
  PROVE  /\ RxInv'
         /\ data' \in [Mbufs -> Frame]
         /\ {total_num', burst_num', accepted'} \subseteq 0 .. (CounterMod - 1)
<1>1. RxInv'
      BY NextPacketKeepsRx DEF Handling, Done
<1>2. data' \in [Mbufs -> Frame]
      BY PacketType DEF VoteTypeOK, Done, Handling
<1>3. CounterMod \in Nat \ {0}
      BY VoteAssumption
<1>4. total_num \in Nat /\ burst_num \in Nat /\ accepted \in 0 .. (CounterMod - 1)
      BY <1>3 DEF VoteTypeOK
<1>5. /\ (total_num + 1) % CounterMod \in 0 .. (CounterMod - 1)
      /\ (burst_num + 1) % CounterMod \in 0 .. (CounterMod - 1)
      BY <1>3, <1>4
<1> QED BY <1>1, <1>2, <1>4, <1>5 DEF Done

LEMMA MatchType ==
  ASSUME VoteTypeOK, RxInv, Match \/ MatchOutside \/ Miss
  PROVE  VoteTypeOK' /\ RxInv'
<1>1. Handling /\ Done
      BY DEF Match, MatchOutside, Miss
<1>2. /\ RxInv' /\ data' \in [Mbufs -> Frame]
      /\ {total_num', burst_num', accepted'} \subseteq 0 .. (CounterMod - 1)
      BY <1>1, DoneType
<1>3. array \in [Cells -> Words] /\ vote \in [Cells -> Words]
      BY DEF VoteTypeOK
<1>4. mbufs # <<>> /\ cell \in Int /\ pkt.value \in Words /\ (cell >= 0 => cell \in Cells)
      BY <1>1, PacketType DEF Handling
<1>5. \A x \in Words : ToInt(x + 1) \in Words /\ ToInt(x - 1) \in Words
      BY ToIntType, WordsAreInts
<1>6. array' \in [Cells -> Words] /\ vote' \in [Cells -> Words]
  <2>1. CASE Match
        BY <1>3, <1>5, <2>1 DEF Match
  <2>2. CASE MatchOutside
    <3>1. \A c \in Cells : array[c] \in Words /\ ToInt(array[c] + 1) \in Words
          BY <1>3, <1>5
    <3> QED BY <1>3, <2>2, <3>1 DEF MatchOutside
  <2>3. CASE Miss
    <3> DEFINE index == IF cell < 0 THEN 0 ELSE cell
    <3>1. index \in Cells
          BY <1>4, WordFacts DEF Cells, ARRAY_SIZE
    <3>2. PICK n \in AfterMiss(vote[index], pkt.value) :
            vote' = [vote EXCEPT ![index] = n] /\ UNCHANGED array
          BY <2>3 DEF Miss
    <3> HIDE DEF index
    <3>3. n \in Words
          BY <1>3, <1>4, <1>5, <3>1, <3>2 DEF AfterMiss
    <3> QED BY <1>3, <3>1, <3>2, <3>3
  <2> QED BY <2>1, <2>2, <2>3
<1> QED BY <1>2, <1>6 DEF VoteTypeOK, RxInv

-----------------------------------------------------------------------------
(***************************************************************************)
(* The counters.                                                           *)
(***************************************************************************)

LEMMA WaitingType ==
  ASSUME RxTypeOK
  PROVE  /\ \A q \in RxQueues : Len(filled[q]) \in Nat
         /\ Count(filled) \in Nat /\ Len(mbufs) \in Nat /\ Waiting \in Nat
<1>1. \A q \in RxQueues : Len(filled[q]) \in Nat
      BY LenProperties DEF RxTypeOK
<1>2. Count(filled) \in Nat
      BY <1>1, RingsAreFinite
<1>3. Len(mbufs) \in Nat
      BY LenProperties DEF RxTypeOK
<1> QED BY <1>1, <1>2, <1>3 DEF Waiting

LEMMA ReceiveWaits ==
  ASSUME RxTypeOK, NEW q \in RxQueues, NEW f, NicReceive(q, f)
  PROVE  Waiting' = Waiting + 1
<1>1. PICK m \in posted[q] : filled' = [filled EXCEPT ![q] = Append(@, m)]
      BY DEF NicReceive
<1>2. m \in Mbufs /\ filled[q] \in Seq(Mbufs)
      BY DEF RxTypeOK
<1>3. /\ Len(filled'[q]) = Len(filled[q]) + 1
      /\ \A p \in RxQueues \ {q} : filled'[p] = filled[p]
  <2>1. filled'[q] = Append(filled[q], m)
        BY <1>1 DEF RxTypeOK
  <2>2. Len(Append(filled[q], m)) = Len(filled[q]) + 1
        BY <1>2, AppendProperties
  <2> QED BY <1>1, <2>1, <2>2 DEF RxTypeOK
<1>4. \A p \in RxQueues : Len(filled[p]) \in Nat
      BY WaitingType
<1>5. ASSUME NEW n \in Nat, Len(filled'[q]) = Len(filled[q]) + n
      PROVE  Count(filled') = Count(filled) + n
      BY <1>3, <1>4, <1>5, CountGrows, Zenon
<1>6. Count(filled') = Count(filled) + 1
      BY <1>3, <1>5
<1>7. mbufs' = mbufs
      BY DEF NicReceive
<1> QED BY <1>6, <1>7, WaitingType DEF Waiting

\* What a burst takes off the ring is in the burst.
LEMMA PollWaits ==
  ASSUME RxInv, Poll
  PROVE  Waiting' = Waiting
<1> DEFINE n == Smaller(Smaller(BURST_SIZE, Len(filled[r])), Cardinality(pool))
<1>1. /\ filled' = [filled EXCEPT ![r] = SubSeq(@, n + 1, Len(@))]
      /\ mbufs' = SubSeq(filled[r], 1, n) /\ mbufs = <<>>
      BY DEF Poll
<1>2. r \in RxQueues /\ filled[r] \in Seq(Mbufs) /\ Distinct(filled[r])
      BY OwnershipRows DEF RxInv, RxTypeOK, Rows, Places
<1>3. n \in 0 .. Len(filled[r])
  <2>1. Cardinality(pool) \in Nat
        BY RxAssumption, FS_Subset, FS_CardinalityType DEF RxInv, RxTypeOK
  <2> QED BY <1>2, <2>1, RxAssumption DEF Smaller
<1> HIDE DEF n
<1>4. /\ filled'[r] = SubSeq(filled[r], n + 1, Len(filled[r]))
      /\ \A p \in RxQueues \ {r} : filled'[p] = filled[p]
      BY <1>1, <1>2 DEF RxInv, RxTypeOK
<1>5. Len(mbufs') = n /\ Len(filled'[r]) = Len(filled[r]) - n
      BY <1>1, <1>2, <1>3, <1>4, ElemsSplit
<1>6. \A p \in RxQueues : Len(filled[p]) \in Nat
      BY WaitingType DEF RxInv
<1>7. \A p \in RxQueues : Len(filled'[p]) \in Nat
      BY <1>3, <1>4, <1>5, <1>6
<1>8. \A p \in RxQueues \ {r} : filled[p] = filled'[p]
      BY <1>4
<1>9. n \in Nat /\ Len(filled[r]) = Len(filled'[r]) + n
      BY <1>2, <1>3, <1>5, <1>6
<1>10. Count(filled) = Count(filled') + n
  <2> DEFINE f == filled'
             g == filled
  <2>1. /\ r \in RxQueues
        /\ \A p \in RxQueues : Len(f[p]) \in Nat
        /\ \A p \in RxQueues \ {r} : g[p] = f[p]
        /\ Len(g[r]) = Len(f[r]) + n
        BY <1>2, <1>7, <1>8, <1>9
  <2> HIDE DEF f, g
  <2>2. Count(g) = Count(f) + n
        BY <1>9, <2>1, CountGrows, Zenon
  <2> QED BY <2>2 DEF f, g
<1>11. Len(mbufs) = 0 /\ Count(filled) \in Nat /\ Count(filled') \in Nat
      BY <1>1, <1>6, <1>7, EmptySeq, RingsAreFinite
<1> QED BY <1>5, <1>9, <1>10, <1>11 DEF Waiting

LEMMA DoneWaits ==
  ASSUME RxTypeOK, mbufs # <<>>, NextPacket
  PROVE  Waiting = Waiting' + 1 /\ Waiting' \in Nat
<1>1. filled' = filled /\ mbufs' = Tail(mbufs)
      BY DEF NextPacket
<1>2. Len(mbufs) \in Nat \ {0} /\ Len(Tail(mbufs)) = Len(mbufs) - 1
      BY HeadTailProperties, EmptySeq DEF RxTypeOK
<1> QED BY <1>1, <1>2, WaitingType DEF Waiting

\* One packet more is accepted, and waits.
LEMMA ReceiveCounted ==
  ASSUME VoteTypeOK, EveryPacketCounted, NEW q \in RxQueues, NEW f, Receive(q, f)
  PROVE  EveryPacketCounted'
<1>1. /\ CounterMod \in Nat \ {0} /\ total_num \in Nat /\ Waiting \in Nat
      BY VoteAssumption, WaitingType DEF VoteTypeOK
<1>2. Waiting' = Waiting + 1
      BY ReceiveWaits DEF Receive, VoteTypeOK
<1> DEFINE a == total_num + Waiting
<1>3. accepted = a % CounterMod
      BY DEF EveryPacketCounted
<1>4. accepted' = ((a % CounterMod) + 1) % CounterMod
      BY <1>3 DEF Receive
<1>5. a \in Nat /\ 1 \in Nat
      BY <1>1
<1> HIDE DEF a
<1>6. ((a % CounterMod) + 1) % CounterMod = (a + 1) % CounterMod
      BY <1>1, <1>5, ModAdd
<1>7. a + 1 = total_num + Waiting'
      BY <1>1, <1>2 DEF a
<1> QED BY <1>4, <1>6, <1>7 DEF Receive, EveryPacketCounted

\* The packet at hand waits no more, and is counted.
LEMMA DoneCounted ==
  ASSUME VoteTypeOK, EveryPacketCounted, Handling, Done
  PROVE  EveryPacketCounted'
<1>1. CounterMod \in Nat \ {0} /\ total_num \in Nat
      BY VoteAssumption DEF VoteTypeOK
<1>2. Waiting = Waiting' + 1 /\ Waiting' \in Nat
      BY DoneWaits DEF Handling, Done, VoteTypeOK
<1> DEFINE a == total_num + 1
           w == Waiting'
<1>3. total_num' = a % CounterMod /\ accepted' = accepted /\ burst_num' = total_num'
      BY DEF Done, EveryPacketCounted
<1>4. a \in Nat /\ w \in Nat
      BY <1>1, <1>2
<1>5. a + w = total_num + Waiting
      BY <1>1, <1>2
<1> HIDE DEF a, w
<1>6. ((a % CounterMod) + w) % CounterMod = (a + w) % CounterMod
      BY <1>1, <1>4, ModAdd
<1>7. accepted' = (total_num' + w) % CounterMod
      BY <1>3, <1>5, <1>6 DEF EveryPacketCounted
<1> QED BY <1>3, <1>7 DEF EveryPacketCounted, w

-----------------------------------------------------------------------------
(***************************************************************************)
(* What packet_send's packets do.  A ring and the burst hold frames as     *)
(* they arrived: the loop body converts an mbuf in place as it frees it.   *)
(***************************************************************************)

Unconverted ==
  /\ \A m \in Elems(mbufs) : data[m] \in Frames
  /\ \A q \in RxQueues : \A m \in Elems(filled[q]) : data[m] \in Frames

LEMMA ReceiveUnconverted ==
  ASSUME RxInv, VoteTypeOK, Unconverted, NEW q \in RxQueues, NEW f \in Frames,
         NicReceive(q, f)
  PROVE  Unconverted'
<1>1. PICK m \in posted[q] : /\ filled' = [filled EXCEPT ![q] = Append(@, m)]
                             /\ data' = [data EXCEPT ![m] = f]
      BY DEF NicReceive
<1>2. m \in Mbufs /\ filled[q] \in Seq(Mbufs) /\ Distinct(filled[q]) /\ m \notin Elems(filled[q])
      BY OwnershipRows DEF RxInv, RxTypeOK, Rows, Places, Apart
<1>3. filled'[q] = Append(filled[q], m) /\ \A p \in RxQueues \ {q} : filled'[p] = filled[p]
      BY <1>1 DEF RxInv, RxTypeOK
<1>4. Elems(filled'[q]) = Elems(filled[q]) \cup {m}
      BY <1>2, <1>3, ElemsAppend
<1>5. data'[m] \in Frames /\ \A x \in Mbufs : data[x] \in Frames => data'[x] \in Frames
      BY <1>1, <1>2 DEF VoteTypeOK
<1>6. /\ Elems(mbufs) \subseteq Mbufs /\ mbufs' = mbufs
      /\ \A p \in RxQueues : Elems(filled[p]) \subseteq Mbufs
      BY ElemsType DEF RxInv, RxTypeOK, NicReceive
<1> QED BY <1>3, <1>4, <1>5, <1>6 DEF Unconverted

LEMMA PollUnconverted ==
  ASSUME RxInv, Unconverted, Poll
  PROVE  Unconverted'
<1> DEFINE n == Smaller(Smaller(BURST_SIZE, Len(filled[r])), Cardinality(pool))
<1>1. /\ filled' = [filled EXCEPT ![r] = SubSeq(@, n + 1, Len(@))]
      /\ mbufs' = SubSeq(filled[r], 1, n) /\ data' = data
      BY DEF Poll
<1>2. r \in RxQueues /\ filled[r] \in Seq(Mbufs) /\ Distinct(filled[r])
      BY OwnershipRows DEF RxInv, RxTypeOK, Rows, Places
<1>3. n \in 0 .. Len(filled[r])
  <2>1. Cardinality(pool) \in Nat
        BY RxAssumption, FS_Subset, FS_CardinalityType DEF RxInv, RxTypeOK
  <2> QED BY <1>2, <2>1, RxAssumption DEF Smaller
<1> HIDE DEF n
<1>4. /\ filled'[r] = SubSeq(filled[r], n + 1, Len(filled[r]))
      /\ \A p \in RxQueues \ {r} : filled'[p] = filled[p]
      BY <1>1, <1>2 DEF RxInv, RxTypeOK
<1>5. Elems(mbufs') \cup Elems(filled'[r]) = Elems(filled[r])
      BY <1>1, <1>2, <1>3, <1>4, ElemsSplit
<1> QED BY <1>1, <1>2, <1>4, <1>5 DEF Unconverted

LEMMA DoneUnconverted ==
  ASSUME RxInv, VoteTypeOK, Unconverted, Handling, Done
  PROVE  Unconverted'
<1> DEFINE h == Head(mbufs)
<1>1. /\ mbufs # <<>> /\ mbufs' = Tail(mbufs) /\ filled' = filled
      /\ data' = [data EXCEPT ![h] = pkt]
      BY DEF Handling, Done, NextPacket
<1>2. h \in Elems(mbufs) /\ Elems(mbufs') = Elems(mbufs) \ {h}
      BY <1>1, ElemsTail, OwnershipRows DEF RxInv, RxTypeOK, Rows
<1>3. \A q \in RxQueues : h \notin Elems(filled[q])
      BY <1>2, OwnershipRows DEF RxInv, Rows, Places
<1> HIDE DEF h
<1>4. /\ Elems(mbufs) \subseteq Mbufs
      /\ \A q \in RxQueues : Elems(filled[q]) \subseteq Mbufs
      BY ElemsType DEF RxInv, RxTypeOK
<1>5. \A x \in Mbufs \ {h} : data'[x] = data[x]
      BY <1>1 DEF VoteTypeOK
<1> QED BY <1>1, <1>2, <1>3, <1>4, <1>5 DEF Unconverted

LEMMA FrameTypes ==
  \A f \in Frames : ntohl(f.value) \in Words /\ ntohl(f.value) \in Int
<1> SUFFICES ASSUME NEW f \in Frames
             PROVE  ntohl(f.value) \in Words /\ ntohl(f.value) \in Int
    OBVIOUS
<1>1. f.value \in Words
      BY VoteAssumption DEF Frame
<1> QED BY <1>1, NtohlType, WordsAreInts

LEMMA SenderValue ==
  ASSUME RxInv, Unconverted, mbufs # <<>>
  PROVE  \E g \in Frames : pkt.value = ntohl(g.value)
<1>1. Head(mbufs) \in Elems(mbufs)
      BY ElemsTail, OwnershipRows DEF RxInv, RxTypeOK, Rows
<1>2. data[Head(mbufs)] \in Frames
      BY <1>1 DEF Unconverted
<1> QED BY <1>2 DEF pkt

LEMMA SenderPacket ==
  ASSUME RxInv, Unconverted, FromPacketSend, mbufs # <<>>
  PROVE  cell = 0 /\ cell \in Cells
<1>1. Head(mbufs) \in Elems(mbufs)
      BY ElemsTail, OwnershipRows DEF RxInv, RxTypeOK, Rows
<1>2. data[Head(mbufs)].idx \in Cells
      BY <1>1 DEF Unconverted, FromPacketSend
<1>3. pkt.idx = ntohl(data[Head(mbufs)].idx)
      BY DEF pkt
<1>4. cell = 0
      BY <1>2, <1>3, SenderCell DEF cell
<1> QED BY <1>4, WordFacts DEF Cells, ARRAY_SIZE

-----------------------------------------------------------------------------
(***************************************************************************)
(* The invariant of main.                                                  *)
(***************************************************************************)

\* Cell 0 holds what is left of the value of some packet of packet_send.
CellZeroBounded ==
  FromPacketSend /\ PositiveValues =>
     \E f \in Frames : vote[0] \in 0 .. ntohl(f.value)

VoteInv ==
  /\ RxInv
  /\ VoteTypeOK
  /\ EveryPacketCounted
  /\ Unconverted
  /\ SenderVotesInCellZero
  /\ CellZeroBounded

LEMMA VoteInitial == Init => VoteInv
<1> SUFFICES ASSUME Init PROVE VoteInv
    OBVIOUS
<1>1. RxInv
      BY RxInitial DEF Init
<1>2. CounterMod \in Nat \ {0} /\ Frames \subseteq Frame /\ Frames # {}
      BY VoteAssumption
<1>3. VoteTypeOK
  <2>1. (CHOOSE f \in Frames : TRUE) \in Frame
        BY <1>2
  <2>2. data \in [Mbufs -> Frame]
        BY <2>1 DEF Init, RxInit
  <2>3. array \in [Cells -> Words] /\ vote \in [Cells -> Words]
        BY WordsAreInts DEF Init
  <2>4. {total_num, burst_num, accepted} \subseteq 0 .. (CounterMod - 1)
        BY <1>2 DEF Init
  <2> QED BY <1>1, <2>2, <2>3, <2>4 DEF RxInv, VoteTypeOK
<1>4. /\ \A q \in RxQueues : filled[q] = <<>>
      /\ mbufs = <<>>
      BY DEF Init, RxInit
<1>5. EveryPacketCounted
  <2>1. Waiting = 0
        BY <1>4, CountEmpty, EmptySeq DEF Waiting
  <2>2. 0 % CounterMod = 0
        BY <1>2, SmallMod
  <2> QED BY <2>1, <2>2 DEF EveryPacketCounted, Init
<1>6. Unconverted
      BY <1>4, ElemsEmpty DEF Unconverted
<1>7. SenderVotesInCellZero
      BY DEF SenderVotesInCellZero, Init, BootInit
<1>8. CellZeroBounded
  <2>1. vote[0] = 0
        BY WordFacts DEF Init, Cells, ARRAY_SIZE
  <2>2. \A f \in Frames : ntohl(f.value) \in Int
        BY FrameTypes
  <2> QED BY <1>2, <2>1, <2>2 DEF CellZeroBounded, PositiveValues
<1> QED BY <1>1, <1>3, <1>5, <1>6, <1>7, <1>8 DEF VoteInv

\* A packet of packet_send takes a vote from cell 0, or fills the cell again.
LEMMA SenderCountsDown ==
  ASSUME VoteInv, Match \/ MatchOutside \/ Miss
  PROVE  CellZeroBounded'
<1> SUFFICES ASSUME FromPacketSend, PositiveValues
             PROVE  \E f \in Frames : vote'[0] \in 0 .. ntohl(f.value)
    BY DEF CellZeroBounded, FromPacketSend, PositiveValues
<1>1. mbufs # <<>>
      BY DEF Match, MatchOutside, Miss, Handling
<1>2. cell = 0 /\ 0 \in Cells
      BY <1>1, SenderPacket DEF VoteInv
<1>3. PICK g \in Frames : pkt.value = ntohl(g.value)
      BY <1>1, SenderValue DEF VoteInv
<1>4. array[0] = 0 /\ pkt.value > 0 /\ pkt.value \in Int
      BY <1>2, <1>3, FrameTypes DEF VoteInv, SenderVotesInCellZero, PositiveValues
<1>5. Miss
      BY <1>2, <1>4 DEF Match, MatchOutside
<1>6. PICK n \in AfterMiss(vote[0], pkt.value) : vote' = [vote EXCEPT ![0] = n]
      BY <1>2, <1>5 DEF Miss
<1>7. vote'[0] = n
      BY <1>2, <1>6 DEF VoteInv, VoteTypeOK
<1>8. PICK f \in Frames : vote[0] \in 0 .. ntohl(f.value)
      BY DEF VoteInv, CellZeroBounded
<1>9. ntohl(f.value) \in Words /\ ntohl(f.value) \in Int
      BY FrameTypes
<1>10. ToInt(vote[0] - 1) = vote[0] - 1
  <2>1. Half \in Nat \ {0} /\ Words = (-Half) .. (Half - 1)
        BY WordFacts DEF Words, Half
  <2>2. vote[0] - 1 \in Words
        BY <1>8, <1>9, <2>1
  <2> QED BY <2>2, ToIntExact
<1>11. n = IF vote[0] - 1 <= 0 THEN pkt.value ELSE vote[0] - 1
      BY <1>6, <1>10 DEF AfterMiss
<1>12. CASE vote[0] - 1 <= 0
  <2>1. n \in 0 .. ntohl(g.value)
        BY <1>3, <1>4, <1>11, <1>12
  <2> QED BY <1>7, <2>1
<1>13. CASE ~(vote[0] - 1 <= 0)
  <2>1. n \in 0 .. ntohl(f.value)
        BY <1>8, <1>9, <1>11, <1>13
  <2> QED BY <1>7, <2>1
<1> QED BY <1>12, <1>13

\* A step that changes neither tables nor counters nor what waits.
LEMMA QuietVotes ==
  ASSUME VoteInv, RxInv', UNCHANGED <<data, filled, mbufs>>, UNCHANGED <<tables, counters>>,
         stage' # "crash" \/ UNCHANGED stage
  PROVE  VoteInv'
<1>0. CellZeroBounded'
      BY DEF VoteInv, CellZeroBounded, FromPacketSend, PositiveValues, tables
<1>1. VoteTypeOK'
      BY DEF VoteInv, VoteTypeOK, RxInv, tables, counters
<1>2. EveryPacketCounted'
      BY DEF VoteInv, EveryPacketCounted, Waiting, counters
<1>3. Unconverted'
      BY DEF VoteInv, Unconverted
<1>4. SenderVotesInCellZero'
      BY DEF VoteInv, SenderVotesInCellZero, FromPacketSend, tables
<1> QED BY <1>0, <1>1, <1>2, <1>3, <1>4 DEF VoteInv

LEMMA VoteStep == VoteInv /\ [Next]_vars => VoteInv'
<1> SUFFICES ASSUME VoteInv, [Next]_vars PROVE VoteInv'
    OBVIOUS
<1>1. CASE Boot
  <2>1. /\ UNCHANGED rxVars /\ UNCHANGED <<tables, counters>>
        /\ BootStep \/ DevStartFails
        BY <1>1 DEF Boot, StartPortFails
  <2>2. RxInv'
        BY <2>1, BootKeepsRx DEF VoteInv
  <2>3. stage' # "crash"
        BY <2>1, BootType DEF VoteInv, RxInv, RxTypeOK, BootStage
  <2> QED BY <2>1, <2>2, <2>3, QuietVotes DEF rxVars
<1>2. CASE Start
  <2>1. RxInv'
        BY <1>2, StartKeepsRx DEF Start, VoteInv
  <2>2. /\ UNCHANGED <<data, filled, mbufs>> /\ UNCHANGED <<tables, counters>>
        /\ stage' = "mac"
        BY <1>2 DEF Start, StartPort, DevStart, Succeed
  <2> QED BY <2>1, <2>2, QuietVotes
<1>3. CASE Enter \/ (PollEmpty /\ Burst) \/ UNCHANGED vars
  <2>1. RxInv'
    <3>1. EnterLoop \/ PollEmpty \/ UNCHANGED <<bootVars, rxVars>>
          BY <1>3 DEF Enter, vars
    <3> QED BY <3>1, QuietKeepsRx DEF VoteInv
  <2>2. /\ UNCHANGED <<data, filled, mbufs>> /\ UNCHANGED <<tables, counters>>
        /\ stage' # "crash" \/ UNCHANGED stage
        BY <1>3 DEF Enter, EnterLoop, PollEmpty, Burst, vars, bootVars, rxVars
  <2> QED BY <2>1, <2>2, QuietVotes
<1>4. ASSUME NEW q \in RxQueues, NEW f \in Frames, Receive(q, f) PROVE VoteInv'
  <2>1. NicReceive(q, f) /\ UNCHANGED <<tables, total_num, burst_num>>
        /\ accepted' = (accepted + 1) % CounterMod
        BY <1>4 DEF Receive
  <2>2. RxInv'
        BY <2>1, ReceiveKeepsRx DEF VoteInv
  <2>3. VoteTypeOK'
    <3>1. CounterMod \in Nat \ {0} /\ accepted \in Nat
          BY VoteAssumption DEF VoteInv, VoteTypeOK
    <3>2. accepted' \in 0 .. (CounterMod - 1)
          BY <2>1, <3>1
    <3>3. data' \in [Mbufs -> Frame]
          BY <2>1, VoteAssumption DEF NicReceive, VoteInv, VoteTypeOK
    <3> QED BY <2>1, <2>2, <3>2, <3>3 DEF VoteInv, VoteTypeOK, RxInv, tables
  <2>4. EveryPacketCounted'
        BY <1>4, ReceiveCounted DEF VoteInv
  <2>5. Unconverted'
        BY <2>1, ReceiveUnconverted DEF VoteInv
  <2>6. SenderVotesInCellZero'
        BY <2>1 DEF NicReceive, bootVars, tables, VoteInv, SenderVotesInCellZero, FromPacketSend
  <2>7. CellZeroBounded'
        BY <2>1 DEF tables, VoteInv, CellZeroBounded, FromPacketSend, PositiveValues
  <2> QED BY <2>2, <2>3, <2>4, <2>5, <2>6, <2>7 DEF VoteInv
<1>5. CASE Poll /\ Burst
  <2>1. RxInv'
        BY <1>5, PollKeepsRx DEF VoteInv
  <2>2. UNCHANGED <<tables, counters, data, stage>>
        BY <1>5 DEF Burst, Poll, bootVars
  <2>3. VoteTypeOK'
        BY <2>1, <2>2 DEF VoteInv, VoteTypeOK, RxInv, tables, counters
  <2>4. EveryPacketCounted'
        BY <1>5, <2>2, PollWaits DEF VoteInv, EveryPacketCounted, counters
  <2>5. Unconverted'
        BY <1>5, PollUnconverted DEF VoteInv
  <2>6. SenderVotesInCellZero'
        BY <2>2 DEF VoteInv, SenderVotesInCellZero, FromPacketSend, tables
  <2>7. CellZeroBounded'
        BY <2>2 DEF VoteInv, CellZeroBounded, FromPacketSend, PositiveValues, tables
  <2> QED BY <2>1, <2>3, <2>4, <2>5, <2>6, <2>7 DEF VoteInv
<1>6. CASE Match \/ MatchOutside \/ Miss
  <2>1. Handling /\ Done
        BY <1>6 DEF Match, MatchOutside, Miss
  <2>2. VoteTypeOK' /\ RxInv'
        BY <1>6, MatchType DEF VoteInv
  <2>3. EveryPacketCounted'
        BY <2>1, DoneCounted DEF VoteInv
  <2>4. Unconverted'
        BY <2>1, DoneUnconverted DEF VoteInv
  <2>5. SenderVotesInCellZero'
    <3> SUFFICES ASSUME FromPacketSend
                 PROVE  /\ stage' # "crash"
                        /\ \A c \in Cells : array'[c] = 0 /\ (c # 0 => vote'[c] = 0)
        BY DEF SenderVotesInCellZero, FromPacketSend
    <3>1. cell = 0 /\ cell \in Cells
          BY <2>1, SenderPacket DEF VoteInv, Handling
    <3>2. stage' = stage /\ \A c \in Cells : array[c] = 0 /\ (c # 0 => vote[c] = 0)
          BY <2>1 DEF Done, bootVars, VoteInv, SenderVotesInCellZero
    <3>3. stage # "crash"
          BY <2>1 DEF Handling
    <3>4. vote \in [Cells -> Words]
          BY DEF VoteInv, VoteTypeOK
    <3>5. array' = array /\ \A c \in Cells : c # 0 => vote'[c] = vote[c]
      <4>1. CASE Match
            BY <3>1, <3>4, <4>1 DEF Match
      <4>2. CASE Miss
            BY <3>1, <3>4, <4>2 DEF Miss
      <4>3. CASE MatchOutside
            BY <3>1, <4>3 DEF MatchOutside
      <4> QED BY <1>6, <4>1, <4>2, <4>3
    <3> QED BY <3>2, <3>3, <3>5
  <2>6. CellZeroBounded'
        BY <1>6, SenderCountsDown
  <2> QED BY <2>2, <2>3, <2>4, <2>5, <2>6 DEF VoteInv
<1>7. CASE AccessFaults
  <2>1. /\ UNCHANGED <<dev, ret, rxVars>> /\ UNCHANGED <<tables, counters>>
        /\ stage = "run" /\ mbufs # <<>> /\ stage' = "crash" /\ cell \notin Cells
        BY <1>7 DEF AccessFaults, Handling
  <2>2. RxInv'
        BY <2>1, QuietKeepsRx DEF VoteInv
  <2>3. VoteTypeOK'
        BY <2>1, <2>2 DEF VoteInv, VoteTypeOK, RxInv, tables, counters, rxVars
  <2>4. EveryPacketCounted' /\ Unconverted'
        BY <2>1 DEF VoteInv, EveryPacketCounted, Waiting, counters, rxVars, Unconverted
  <2>5. ~FromPacketSend
        BY <2>1, SenderPacket DEF VoteInv
  <2>6. SenderVotesInCellZero'
        BY <2>5 DEF SenderVotesInCellZero, FromPacketSend
  <2>7. CellZeroBounded'
        BY <2>5 DEF CellZeroBounded, FromPacketSend, PositiveValues
  <2> QED BY <2>2, <2>3, <2>4, <2>6, <2>7 DEF VoteInv
<1> QED BY <1>1, <1>2, <1>3, <1>4, <1>5, <1>6, <1>7 DEF Next, Program, Burst, Stopped

LEMMA VoteInvariant == Spec => []VoteInv
<1> QED BY VoteInitial, VoteStep, PTL DEF Spec

-----------------------------------------------------------------------------
\* The tables hold ints and the frames words, in every state of main.
THEOREM VoteTypes == Spec => []VoteTypeOK
<1>1. VoteInv => VoteTypeOK
      BY DEF VoteInv
<1> QED BY <1>1, VoteInvariant, PTL

\* Every mbuf of main is in one place: what the loop takes it frees once.
THEOREM VoteOwnership == Spec => []RxOwnership
<1>1. VoteInv => RxOwnership
      BY DEF VoteInv, RxInv
<1> QED BY <1>1, VoteInvariant, PTL

\* total_num and burst_num count every accepted packet, modulo their size.
THEOREM EveryPacketIsCounted == Spec => []EveryPacketCounted
<1>1. VoteInv => EveryPacketCounted
      BY DEF VoteInv
<1> QED BY <1>1, VoteInvariant, PTL

\* All the votes of packet_send's packets go to cell 0, for every size of a byte.
THEOREM SenderFillsOneCell == Spec => []SenderVotesInCellZero
<1>1. VoteInv => SenderVotesInCellZero
      BY DEF VoteInv
<1> QED BY <1>1, VoteInvariant, PTL

\* No number of packets of packet_send makes a cell overflow, for every size of
\* a byte and every value that is positive when converted.
THEOREM SenderStaysInRange == Spec => []SenderNeverOverflows
<1>1. VoteInv => SenderNeverOverflows
  <2> SUFFICES ASSUME VoteInv, FromPacketSend, PositiveValues
               PROVE  /\ \E f \in Frames : vote[0] \in 0 .. ntohl(f.value)
                      /\ Handling => pkt.value # array[cell]
      BY DEF SenderNeverOverflows
  <2>1. \E f \in Frames : vote[0] \in 0 .. ntohl(f.value)
        BY DEF VoteInv, CellZeroBounded
  <2>2. ASSUME Handling PROVE pkt.value # array[cell]
    <3>1. cell = 0 /\ array[0] = 0
          BY <2>2, SenderPacket DEF Handling, VoteInv, SenderVotesInCellZero
    <3>2. pkt.value > 0 /\ pkt.value \in Int
          BY <2>2, SenderValue, FrameTypes DEF Handling, VoteInv, PositiveValues
    <3> QED BY <3>1, <3>2
  <2> QED BY <2>1, <2>2
<1> QED BY <1>1, VoteInvariant, PTL

\* Only a packet whose converted index is negative changes array or ends the
\* process.
THEOREM OnlyNegativeIndexDamages == Spec => DamageNeedsNegativeIndex
<1> DEFINE A == stage' = "crash" \/ array' # array => Handling /\ pkt.idx < 0
<1>1. VoteInv /\ [Next]_vars => [A]_vars
  <2> SUFFICES ASSUME VoteInv, Next, stage' = "crash" \/ array' # array, ~UNCHANGED vars
               PROVE  Handling /\ pkt.idx < 0
      OBVIOUS
  <2>1. CASE MatchOutside \/ AccessFaults
        BY <2>1, PacketType DEF MatchOutside, AccessFaults, Handling, VoteInv
  <2>2. CASE Boot
    <3>1. array' = array /\ (BootStep \/ DevStartFails)
          BY <2>2 DEF Boot, tables, StartPortFails
    <3>2. stage' # "crash"
          BY <3>1, BootType DEF VoteInv, RxInv, RxTypeOK, BootStage
    <3> QED BY <3>1, <3>2
  <2>3. CASE Start
        BY <2>3 DEF Start, StartPort, DevStart, Succeed, tables
  <2>4. CASE Enter \/ Burst
        BY <2>4 DEF Enter, EnterLoop, Burst, Poll, PollEmpty, bootVars, tables
  <2>5. CASE Match \/ Miss
        BY <2>5 DEF Match, Miss, Handling, Done, bootVars
  <2>6. ASSUME NEW q \in RxQueues, NEW f \in Frames, Receive(q, f) PROVE FALSE
        BY <2>6 DEF Receive, NicReceive, Ended, bootVars, tables
  <2> QED BY <2>1, <2>2, <2>3, <2>4, <2>5, <2>6 DEF Next, Program, Stopped
<1>2. DamageNeedsNegativeIndex <=> [][A]_vars
      BY DEF DamageNeedsNegativeIndex
<1> HIDE DEF A
<1> QED BY <1>1, <1>2, VoteInvariant, PTL DEF Spec
=============================================================================
