----------------------------- MODULE RingProofs -----------------------------
(***************************************************************************)
(* The ring of the mbuf pool is an atomic queue, for every number of       *)
(* threads, every size of the ring and every range of the indices.         *)
(***************************************************************************)
EXTENDS Ring, FiniteSetTheorems, SequenceTheorems, TLAPS

-----------------------------------------------------------------------------
(***************************************************************************)
(* Indices that wrap.                                                      *)
(***************************************************************************)

\* A remainder is determined by any quotient.
LEMMA ModIs ==
  ASSUME NEW M \in Nat \ {0}, NEW a \in Int, NEW k \in Int, NEW r \in 0 .. (M - 1),
         a = k * M + r
  PROVE  a % M = r
<1> DEFINE l == a \div M
           v == a % M
<1>1. a = l * M + v /\ l \in Int /\ v \in 0 .. (M - 1)
      OBVIOUS
<1> HIDE DEF l, v
<1>2. (k - l) * M = v - r
      BY <1>1
<1>3. CASE k - l >= 1
  <2>1. (k - l) * M >= M
        BY <1>1, <1>3
  <2> QED BY <1>1, <1>2, <2>1
<1>4. CASE k - l <= -1
  <2>1. (k - l) * M <= -M
        BY <1>1, <1>4
  <2> QED BY <1>1, <1>2, <2>1
<1>5. CASE k = l
      BY <1>1, <1>2, <1>5 DEF v
<1>6. k - l >= 1 \/ k - l <= -1 \/ k = l
      BY <1>1
<1> QED BY <1>3, <1>4, <1>5, <1>6

LEMMA Quotient ==
  ASSUME NEW M \in Nat \ {0}, NEW a \in Int
  PROVE  \E k \in Int : a = k * M + (a % M) /\ a % M \in 0 .. (M - 1)
<1>1. a = (a \div M) * M + (a % M) /\ a \div M \in Int /\ a % M \in 0 .. (M - 1)
      OBVIOUS
<1> QED BY <1>1

\* What is a multiple of M away has the same remainder.
LEMMA ModShift ==
  ASSUME NEW M \in Nat \ {0}, NEW a \in Int, NEW b \in Int, NEW k \in Int, a = k * M + b
  PROVE  a % M = b % M
<1>1. PICK l \in Int : b = l * M + (b % M) /\ b % M \in 0 .. (M - 1)
      BY Quotient
<1> DEFINE r == b % M
           h == k + l
<1>2. h \in Int /\ r \in 0 .. (M - 1)
      BY <1>1
<1>3. a = h * M + r
  <2>1. h * M = k * M + l * M
        OBVIOUS
  <2> QED BY <1>1, <2>1
<1> HIDE DEF r, h
<1>4. a % M = r
      BY <1>2, <1>3, ModIs
<1> QED BY <1>4 DEF r

\* An index that is advanced after it has wrapped.
LEMMA ModAdd ==
  ASSUME NEW M \in Nat \ {0}, NEW a \in Int, NEW b \in Int
  PROVE  ((a % M) + b) % M = (a + b) % M
<1>1. PICK k \in Int : a = k * M + (a % M) /\ a % M \in 0 .. (M - 1)
      BY Quotient
<1> DEFINE x == (a % M) + b
           y == a + b
<1>2. x \in Int /\ y \in Int /\ y = k * M + x
      BY <1>1
<1> HIDE DEF x, y
<1>3. y % M = x % M
      BY <1>2, ModShift
<1> QED BY <1>3 DEF x, y

\* The distance of two positions, from their indices.
LEMMA ModDistance ==
  ASSUME NEW M \in Nat \ {0}, NEW c \in Int, NEW a \in Int, NEW b \in Int,
         c + a - b \in 0 .. (M - 1)
  PROVE  (c + (a % M) - (b % M)) % M = c + a - b
<1>1. PICK k \in Int : a = k * M + (a % M) /\ a % M \in 0 .. (M - 1)
      BY Quotient
<1>2. PICK l \in Int : b = l * M + (b % M) /\ b % M \in 0 .. (M - 1)
      BY Quotient
<1> DEFINE u == a % M
           w == b % M
           x == c + u - w
           r == c + a - b
           h == l - k
<1>3. /\ a = k * M + u /\ b = l * M + w
      /\ u \in 0 .. (M - 1) /\ w \in 0 .. (M - 1) /\ r \in 0 .. (M - 1)
      BY <1>1, <1>2
<1> HIDE DEF u, w
<1>4. x \in Int /\ h \in Int /\ x = h * M + r
  <2>1. h * M = l * M - k * M
        OBVIOUS
  <2> QED BY <1>3, <2>1
<1> HIDE DEF x, r, h
<1>5. x % M = r
      BY <1>3, <1>4, ModIs
<1> QED BY <1>5 DEF x, r, u, w

\* Positions less than M apart differ when their remainders do not agree.
LEMMA ModSame ==
  ASSUME NEW M \in Nat \ {0}, NEW a \in Int, NEW b \in Int,
         a % M = b % M, a - b \in 0 .. (M - 1)
  PROVE  a = b
<1>1. PICK k \in Int : a = k * M + (a % M) /\ a % M \in 0 .. (M - 1)
      BY Quotient
<1>2. PICK l \in Int : b = l * M + (b % M) /\ b % M \in 0 .. (M - 1)
      BY Quotient
<1> DEFINE h == k - l
           d == a - b
<1>3. h \in Int /\ d \in 0 .. (M - 1) /\ d \in Int
      OBVIOUS
<1>4. d = h * M + 0
  <2>1. h * M = k * M - l * M
        OBVIOUS
  <2> QED BY <1>1, <1>2, <2>1
<1>5. d = 0 * M + d
      OBVIOUS
<1> HIDE DEF h, d
<1>6. d % M = 0
      BY <1>3, <1>4, ModIs
<1>7. d % M = d
      BY <1>3, <1>5, ModIs
<1> QED BY <1>6, <1>7 DEF d

-----------------------------------------------------------------------------
\* The constants.
LEMMA Sizes ==
  /\ Size \in Nat \ {0} /\ IndexMod \in Nat \ {0} /\ IndexMod >= 2 * Size
  /\ Capacity \in Nat /\ Capacity = Size - 1 /\ Capacity < IndexMod
  /\ NumObjects \in Nat /\ NumObjects <= Capacity
  /\ MaxBulk \in Nat /\ MaxBulk <= Capacity
<1>1. NumObjects \in Nat
      BY RingAssumption, FS_CardinalityType DEF NumObjects
<1> QED BY <1>1, RingAssumption DEF Capacity

\* The slots of an operation, from the position of its head.
LEMMA SlotOf ==
  ASSUME NEW a \in Nat, NEW k \in Int
  PROVE  Slot(a % IndexMod, k) = (a + k - 1) % Size
<1>1. /\ Size \in Nat \ {0} /\ IndexMod \in Nat \ {0} /\ IndexMod % Size = 0
      /\ a \in Int /\ IndexMod \in Int
      BY Sizes, RingAssumption
<1>2. PICK q \in Int : a = q * IndexMod + (a % IndexMod) /\ a % IndexMod \in 0 .. (IndexMod - 1)
      BY <1>1, Quotient
<1>3. PICK s \in Int : IndexMod = s * Size + (IndexMod % Size)
      BY <1>1, Quotient
<1> DEFINE u == a % IndexMod
           x == u + k - 1
           y == a + k - 1
           h == q * s
<1>4. x \in Int /\ y \in Int /\ h \in Int /\ u \in Int /\ a = q * IndexMod + u
      BY <1>2
<1> HIDE DEF u
<1>5. y = h * Size + x
  <2>1. IndexMod = s * Size
        BY <1>1, <1>3
  <2>2. q * IndexMod = h * Size
        BY <1>1, <2>1
  <2> HIDE DEF h
  <2>3. a = h * Size + u
        BY <1>4, <2>2
  <2>4. h * Size \in Int
        BY <1>1, <1>4
  <2> QED BY <1>4, <2>3, <2>4
<1> HIDE DEF x, y, h
<1>6. y % Size = x % Size
      BY <1>1, <1>4, <1>5, ModShift
<1> QED BY <1>6 DEF x, y, u, Slot

\* Positions less than a turn apart have slots of their own.
LEMMA SlotsDiffer ==
  ASSUME NEW a \in Nat, NEW b \in Nat, a - b \in 0 .. (Size - 1), a % Size = b % Size
  PROVE  a = b
<1>1. Size \in Nat \ {0} /\ a \in Int /\ b \in Int
      BY Sizes
<1> QED BY <1>1, ModSame

-----------------------------------------------------------------------------
(***************************************************************************)
(* The invariant.  Behind each index stands a position: the number of      *)
(* slots passed since the ring was made, which never wraps.  g gives the   *)
(* positions of the heads, of the tails and of what the threads read.      *)
(***************************************************************************)

Positions == [ph : Nat, pt : Nat, ch : Nat, ct : Nat, oh : [Threads -> Nat]]

Begun == {"p_tail", "p_cas", "p_copy", "p_wait", "c_tail", "c_cas", "c_copy", "c_wait"}
Putting == {"p_head", "p_tail", "p_cas", "p_copy", "p_wait"}
Puts == {"p_copy", "p_wait"}
Gets == {"c_copy", "c_wait"}

Linked(g) ==
  /\ prod.head = g.ph % IndexMod /\ prod.tail = g.pt % IndexMod
  /\ cons.head = g.ch % IndexMod /\ cons.tail = g.ct % IndexMod

Ordered(g) == g.ct <= g.ch /\ g.ch <= g.pt /\ g.pt <= g.ph /\ g.ph <= g.ct + Capacity

\* A head that was read may be stale, but not by a whole turn of the indices.
Read(g, t) ==
  /\ pc[t] \in Begun => old_head[t] = g.oh[t] % IndexMod
  /\ pc[t] \in {"p_tail", "p_cas"} =>
        g.oh[t] <= g.ph /\ g.ph - g.oh[t] + Capacity < IndexMod
  /\ pc[t] \in {"c_tail", "c_cas"} =>
        g.oh[t] <= g.ch /\ g.ch - g.oh[t] + Capacity < IndexMod

\* The bulk found room, or objects, and nobody but itself can take them away.
Fits(g, t) ==
  /\ pc[t] = "p_cas" => g.oh[t] + n[t] <= g.ct + Capacity
  /\ pc[t] = "c_cas" => g.oh[t] + n[t] <= g.pt

Bulk(t) ==
  /\ pc[t] # "idle" => n[t] \in 1 .. MaxBulk
  /\ pc[t] \in Putting \cup {"c_wait"} => n[t] <= Len(held[t])

\* The slots of a dequeue before its copy, and of an enqueue after it.
Copied(g, t) ==
  /\ pc[t] = "c_copy" => \A k \in 1 .. n[t] : ring[(g.oh[t] + k - 1) % Size] \in Objects
  /\ pc[t] = "p_wait" => \A k \in 1 .. n[t] :
        ring[(g.oh[t] + k - 1) % Size] = held[t][Len(held[t]) - n[t] + k]

ThreadOK(g, t) == Read(g, t) /\ Fits(g, t) /\ Bulk(t) /\ Copied(g, t)

\* The operations at the stages S share the positions from lo to hi out between
\* them: each has its own, and each position has an operation.
Within(oh, S, lo, hi) ==
  \A t \in Threads : pc[t] \in S => lo <= oh[t] /\ oh[t] + n[t] <= hi

Disjoint(oh, S) ==
  \A t, u \in Threads : pc[t] \in S /\ pc[u] \in S /\ t # u =>
     oh[t] + n[t] <= oh[u] \/ oh[u] + n[u] <= oh[t]

Covered(oh, S, lo, hi) ==
  \A p \in lo .. (hi - 1) : \E t \in Threads :
     pc[t] \in S /\ oh[t] <= p /\ p < oh[t] + n[t]

Flight(oh, S, lo, hi) == Within(oh, S, lo, hi) /\ Disjoint(oh, S) /\ Covered(oh, S, lo, hi)

\* What lies between the consumers' head and the producers' tail can be read.
Stored(g) == \A p \in g.ch .. (g.pt - 1) : ring[p % Size] \in Objects

Good(g) ==
  /\ RingTypeOK /\ Linked(g) /\ Ordered(g)
  /\ \A t \in Threads : ThreadOK(g, t)
  /\ Flight(g.oh, Puts, g.pt, g.ph)
  /\ Flight(g.oh, Gets, g.ct, g.ch)
  /\ Stored(g)

\* A step of t changes nothing of the others.
Only(t) ==
  \A u \in Threads \ {t} :
     pc'[u] = pc[u] /\ n'[u] = n[u] /\ old_head'[u] = old_head[u] /\ held'[u] = held[u]

-----------------------------------------------------------------------------
\* Operations that neither join nor leave.
LEMMA FlightStays ==
  ASSUME NEW oh, NEW k, NEW S, NEW lo \in Nat, NEW hi \in Nat,
         Flight(oh, S, lo, hi),
         \A t \in Threads : /\ pc'[t] \in S <=> pc[t] \in S
                            /\ pc[t] \in S => n'[t] = n[t] /\ k[t] = oh[t]
  PROVE  Flight(k, S, lo, hi)'
<1>1. Within(k, S, lo, hi)'
      BY DEF Flight, Within
<1>2. Disjoint(k, S)'
      BY DEF Flight, Disjoint
<1>3. Covered(k, S, lo, hi)'
      BY DEF Flight, Covered
<1> QED BY <1>1, <1>2, <1>3 DEF Flight

\* An operation moves the head and joins.
LEMMA FlightJoins ==
  ASSUME NEW t \in Threads, NEW oh \in [Threads -> Nat], NEW S, NEW lo \in Nat,
         NEW hi \in Nat, NEW m \in Nat,
         lo <= hi, m = hi + n[t],
         RingTypeOK, Flight(oh, S, lo, hi),
         pc[t] \notin S, pc'[t] \in S, oh[t] = hi, n' = n,
         \A u \in Threads \ {t} : pc'[u] = pc[u]
  PROVE  Flight(oh, S, lo, m)'
<1>1. n \in [Threads -> Nat]
      BY Sizes DEF RingTypeOK
<1>2. Within(oh, S, lo, m)'
      BY <1>1 DEF Flight, Within
<1>3. Disjoint(oh, S)'
      BY <1>1 DEF Flight, Disjoint, Within
<1>4. Covered(oh, S, lo, m)'
  <2> SUFFICES ASSUME NEW p \in lo .. (m - 1)
               PROVE  \E u \in Threads : pc'[u] \in S /\ oh[u] <= p /\ p < oh[u] + n[u]
      BY <1>1 DEF Covered
  <2>1. CASE p < hi
    <3>1. p \in lo .. (hi - 1)
          BY <1>1, <2>1
    <3>2. PICK u \in Threads : pc[u] \in S /\ oh[u] <= p /\ p < oh[u] + n[u]
          BY <3>1 DEF Flight, Covered
    <3> QED BY <3>2
  <2>2. CASE ~(p < hi)
        BY <1>1, <2>2
  <2> QED BY <2>1, <2>2
<1> QED BY <1>2, <1>3, <1>4 DEF Flight

\* The first operation moves the tail and leaves.
LEMMA FlightLeaves ==
  ASSUME NEW t \in Threads, NEW oh \in [Threads -> Nat], NEW S, NEW lo \in Nat,
         NEW hi \in Nat, NEW m \in Nat,
         m = lo + n[t],
         RingTypeOK, Flight(oh, S, lo, hi),
         pc[t] \in S, pc'[t] \notin S, oh[t] = lo,
         \A u \in Threads : pc[u] \in S => n[u] >= 1,
         \A u \in Threads \ {t} : pc'[u] = pc[u] /\ n'[u] = n[u]
  PROVE  Flight(oh, S, m, hi)'
<1>1. n \in [Threads -> Nat]
      BY Sizes DEF RingTypeOK
<1>2. Within(oh, S, m, hi)'
      BY <1>1 DEF Flight, Within, Disjoint
<1>3. Disjoint(oh, S)'
      BY <1>1 DEF Flight, Disjoint
<1>4. Covered(oh, S, m, hi)'
  <2> SUFFICES ASSUME NEW p \in m .. (hi - 1)
               PROVE  \E u \in Threads : pc'[u] \in S /\ oh[u] <= p /\ p < oh[u] + n'[u]
      BY DEF Covered
  <2>1. p \in lo .. (hi - 1)
        BY <1>1
  <2>2. PICK u \in Threads : pc[u] \in S /\ oh[u] <= p /\ p < oh[u] + n[u]
        BY <2>1 DEF Flight, Covered
  <2>3. u # t
        BY <1>1, <2>2
  <2> QED BY <2>2, <2>3
<1> QED BY <1>2, <1>3, <1>4 DEF Flight

-----------------------------------------------------------------------------
\* Steps of a thread that is not in flight, before or after.
LEMMA OutsideKeeps ==
  ASSUME NEW g \in Positions, NEW h \in Positions, NEW t \in Threads,
         Good(g), RingTypeOK', UNCHANGED <<prod, cons, ring>>, Only(t),
         h.ph = g.ph, h.pt = g.pt, h.ch = g.ch, h.ct = g.ct,
         \A u \in Threads \ {t} : h.oh[u] = g.oh[u],
         pc[t] \notin Puts \cup Gets, pc'[t] \notin Puts \cup Gets,
         ThreadOK(h, t)'
  PROVE  Good(h)'
<1>1. Linked(h)' /\ Ordered(h)' /\ Stored(h)'
      BY DEF Good, Linked, Ordered, Stored
<1>2. ASSUME NEW u \in Threads PROVE ThreadOK(h, u)'
  <2>1. CASE u = t
        BY <2>1
  <2>2. CASE u # t
    <3>1. pc'[u] = pc[u] /\ n'[u] = n[u] /\ old_head'[u] = old_head[u] /\ held'[u] = held[u]
          BY <2>2 DEF Only
    <3>2. h.oh[u] = g.oh[u]
          BY <2>2
    <3>3. ThreadOK(g, u)
          BY DEF Good
    <3>4. Read(h, u)' /\ Fits(h, u)'
          BY <3>1, <3>2, <3>3 DEF ThreadOK, Read, Fits
    <3>5. Bulk(u)' /\ Copied(h, u)'
          BY <3>1, <3>2, <3>3 DEF ThreadOK, Bulk, Copied
    <3> QED BY <3>4, <3>5 DEF ThreadOK
  <2> QED BY <2>1, <2>2
<1>3. g.pt \in Nat /\ g.ph \in Nat /\ g.ct \in Nat /\ g.ch \in Nat
      BY DEF Positions
<1>4. Flight(g.oh, Puts, g.pt, g.ph) /\ Flight(g.oh, Gets, g.ct, g.ch)
      BY DEF Good
<1>5. \A u \in Threads : /\ pc'[u] \in Puts <=> pc[u] \in Puts
                         /\ pc[u] \in Puts => n'[u] = n[u] /\ h.oh[u] = g.oh[u]
      BY DEF Only
<1>6. \A u \in Threads : /\ pc'[u] \in Gets <=> pc[u] \in Gets
                         /\ pc[u] \in Gets => n'[u] = n[u] /\ h.oh[u] = g.oh[u]
      BY DEF Only
<1>7. Flight(h.oh, Puts, g.pt, g.ph)'
      BY <1>3, <1>4, <1>5, FlightStays
<1>8. Flight(h.oh, Gets, g.ct, g.ch)'
      BY <1>3, <1>4, <1>6, FlightStays
<1> QED BY <1>1, <1>2, <1>7, <1>8 DEF Good

-----------------------------------------------------------------------------
(***************************************************************************)
(* What a thread computes from indices is true of positions.               *)
(***************************************************************************)

LEMMA PositionTypes ==
  ASSUME NEW g \in Positions
  PROVE  /\ g.ph \in Nat /\ g.pt \in Nat /\ g.ch \in Nat /\ g.ct \in Nat
         /\ g.oh \in [Threads -> Nat]
         /\ \A t \in Threads : g.oh[t] \in Nat
BY DEF Positions

LEMMA FreeEntries ==
  ASSUME NEW g \in Positions, NEW t \in Threads, Good(g), pc[t] = "p_tail"
  PROVE  free_entries(t) = Capacity + g.ct - g.oh[t]
<1>1. /\ g.oh[t] <= g.ph /\ g.ph - g.oh[t] + Capacity < IndexMod
      /\ old_head[t] = g.oh[t] % IndexMod /\ cons.tail = g.ct % IndexMod
      /\ g.ct <= g.ph /\ g.ph <= g.ct + Capacity
      BY PositionTypes, Sizes DEF Good, ThreadOK, Read, Begun, Linked, Ordered
<1>2. /\ Capacity \in Int /\ g.ct \in Int /\ g.oh[t] \in Int /\ IndexMod \in Nat \ {0}
      /\ Capacity + g.ct - g.oh[t] \in 0 .. (IndexMod - 1)
      BY <1>1, PositionTypes, Sizes
<1>3. (Capacity + (g.ct % IndexMod) - (g.oh[t] % IndexMod)) % IndexMod
        = Capacity + g.ct - g.oh[t]
      BY <1>2, ModDistance
<1> QED BY <1>1, <1>3 DEF free_entries

LEMMA Distance ==
  ASSUME NEW a \in Nat, NEW b \in Nat, b <= a, a - b < IndexMod
  PROVE  ((a % IndexMod) - (b % IndexMod)) % IndexMod = a - b
<1>1. /\ 0 \in Int /\ a \in Int /\ b \in Int /\ IndexMod \in Nat \ {0}
      /\ 0 + a - b \in 0 .. (IndexMod - 1)
      BY Sizes
<1>2. (0 + (a % IndexMod) - (b % IndexMod)) % IndexMod = 0 + a - b
      BY <1>1, ModDistance
<1> DEFINE u == a % IndexMod
           v == b % IndexMod
<1>3. u \in Int /\ v \in Int
      BY <1>1
<1>4. (0 + u - v) % IndexMod = 0 + a - b
      BY <1>2
<1> HIDE DEF u, v
<1>5. 0 + u - v = u - v /\ 0 + a - b = a - b
      BY <1>3
<1>6. (u - v) % IndexMod = a - b
      BY <1>4, <1>5
<1> QED BY <1>6 DEF u, v

LEMMA Available ==
  ASSUME NEW g \in Positions, NEW t \in Threads, Good(g), pc[t] = "c_tail"
  PROVE  available(t) = g.pt - g.oh[t]
<1>1. /\ g.oh[t] <= g.ch /\ g.ch - g.oh[t] + Capacity < IndexMod
      /\ old_head[t] = g.oh[t] % IndexMod /\ prod.tail = g.pt % IndexMod
      /\ g.ch <= g.pt /\ g.pt <= g.ch + Capacity
      BY PositionTypes, Sizes DEF Good, ThreadOK, Read, Begun, Linked, Ordered
<1>2. /\ g.pt \in Nat /\ g.oh[t] \in Nat /\ g.oh[t] <= g.pt /\ g.pt - g.oh[t] < IndexMod
      BY <1>1, PositionTypes, Sizes
<1> QED BY <1>1, <1>2, Distance DEF available

LEMMA FifoLength ==
  ASSUME NEW g \in Positions, Good(g)
  PROVE  (prod.tail - cons.head) % IndexMod = g.pt - g.ch
<1>1. /\ g.pt \in Nat /\ g.ch \in Nat /\ g.ch <= g.pt /\ g.pt - g.ch < IndexMod
      BY PositionTypes, Sizes DEF Good, Ordered
<1> QED BY <1>1, Distance DEF Good, Linked

\* Equal indices are equal positions: a compare-and-set that succeeds found the
\* head unmoved ...
LEMMA HeadUnmoved ==
  ASSUME NEW g \in Positions, NEW t \in Threads, Good(g)
  PROVE  /\ pc[t] = "p_cas" /\ prod.head = old_head[t] => g.oh[t] = g.ph
         /\ pc[t] = "c_cas" /\ cons.head = old_head[t] => g.oh[t] = g.ch
<1>0. IndexMod \in Nat \ {0}
      BY Sizes
<1>1. ASSUME pc[t] = "p_cas", prod.head = old_head[t] PROVE g.oh[t] = g.ph
  <2>1. /\ g.oh[t] \in Int /\ g.ph \in Int /\ g.ph - g.oh[t] \in 0 .. (IndexMod - 1)
        BY <1>1, PositionTypes, Sizes DEF Good, ThreadOK, Read
  <2>2. g.ph % IndexMod = g.oh[t] % IndexMod
        BY <1>1 DEF Good, ThreadOK, Read, Begun, Linked
  <2>3. g.ph = g.oh[t]
        BY <1>0, <2>1, <2>2, ModSame
  <2> QED BY <2>3
<1>2. ASSUME pc[t] = "c_cas", cons.head = old_head[t] PROVE g.oh[t] = g.ch
  <2>1. /\ g.oh[t] \in Int /\ g.ch \in Int /\ g.ch - g.oh[t] \in 0 .. (IndexMod - 1)
        BY <1>2, PositionTypes, Sizes DEF Good, ThreadOK, Read
  <2>2. g.ch % IndexMod = g.oh[t] % IndexMod
        BY <1>2 DEF Good, ThreadOK, Read, Begun, Linked
  <2>3. g.ch = g.oh[t]
        BY <1>0, <2>1, <2>2, ModSame
  <2> QED BY <2>3
<1> QED BY <1>1, <1>2

\* ... and a wait that ends is that of the first operation in flight.
LEMMA FirstInFlight ==
  ASSUME NEW g \in Positions, NEW t \in Threads, Good(g)
  PROVE  /\ pc[t] \in Puts /\ prod.tail = old_head[t] => g.oh[t] = g.pt
         /\ pc[t] \in Gets /\ cons.tail = old_head[t] => g.oh[t] = g.ct
<1>0. IndexMod \in Nat \ {0} /\ n[t] \in Nat /\ g.oh[t] \in Int
      BY Sizes, PositionTypes DEF Good, RingTypeOK
<1>1. ASSUME pc[t] \in Puts, prod.tail = old_head[t] PROVE g.oh[t] = g.pt
  <2>1. g.pt <= g.oh[t] /\ g.oh[t] + n[t] <= g.ph
        BY <1>1 DEF Good, Flight, Within
  <2>2. g.pt \in Int /\ g.oh[t] - g.pt \in 0 .. (IndexMod - 1)
        BY <1>0, <2>1, PositionTypes, Sizes DEF Good, Ordered
  <2>3. g.pt % IndexMod = g.oh[t] % IndexMod
        BY <1>1 DEF Good, ThreadOK, Read, Begun, Linked, Puts
  <2> QED BY <1>0, <2>2, <2>3, ModSame
<1>2. ASSUME pc[t] \in Gets, cons.tail = old_head[t] PROVE g.oh[t] = g.ct
  <2>1. g.ct <= g.oh[t] /\ g.oh[t] + n[t] <= g.ch
        BY <1>2 DEF Good, Flight, Within
  <2>2. g.ct \in Int /\ g.oh[t] - g.ct \in 0 .. (IndexMod - 1)
        BY <1>0, <2>1, PositionTypes, Sizes DEF Good, Ordered
  <2>3. g.ct % IndexMod = g.oh[t] % IndexMod
        BY <1>2 DEF Good, ThreadOK, Read, Begun, Linked, Gets
  <2> QED BY <1>0, <2>2, <2>3, ModSame
<1> QED BY <1>1, <1>2

-----------------------------------------------------------------------------
(***************************************************************************)
(* The steps before the compare-and-set.                                   *)
(***************************************************************************)

LEMMA StartKeeps ==
  ASSUME NEW g \in Positions, NEW t \in Threads, Good(g), StartEnqueue(t) \/ StartDequeue(t)
  PROVE  Good(g)'
<1>1. RingTypeOK
      BY DEF Good
<1>2. PICK k \in 1 .. MaxBulk :
        /\ n' = [n EXCEPT ![t] = k]
        /\ \/ pc' = [pc EXCEPT ![t] = "p_head"] /\ k <= Len(held[t])
           \/ pc' = [pc EXCEPT ![t] = "c_head"]
      BY DEF StartEnqueue, StartDequeue, Goto
<1>3. pc[t] = "idle" /\ UNCHANGED <<prod, cons, ring, old_head, held>>
      BY DEF StartEnqueue, StartDequeue, Goto
<1>4. RingTypeOK' /\ Only(t)
  <2>1. k \in 0 .. MaxBulk
        BY <1>2, Sizes
  <2> QED BY <1>1, <1>2, <1>3, <2>1 DEF RingTypeOK, Only
<1>5. n'[t] = k /\ pc'[t] \in {"p_head", "c_head"} /\ (pc'[t] = "p_head" => k <= Len(held[t]))
      BY <1>1, <1>2 DEF RingTypeOK
<1>6. ThreadOK(g, t)'
      BY <1>3, <1>5 DEF ThreadOK, Read, Fits, Bulk, Copied, Begun, Putting
<1>7. pc[t] \notin Puts \cup Gets /\ pc'[t] \notin Puts \cup Gets
      BY <1>3, <1>5 DEF Puts, Gets
<1> QED BY <1>3, <1>4, <1>6, <1>7, OutsideKeeps

LEMMA ReadKeeps ==
  ASSUME NEW g \in Positions, NEW t \in Threads, Good(g), ReadProdHead(t) \/ ReadConsHead(t)
  PROVE  \E h \in Positions : Good(h)'
<1>1. RingTypeOK
      BY DEF Good
<1>x. PICK x \in Nat : x = IF pc[t] = "p_head" THEN g.ph ELSE g.ch
      BY PositionTypes
<1>2. PICK h \in Positions :
        /\ h.ph = g.ph /\ h.pt = g.pt /\ h.ch = g.ch /\ h.ct = g.ct
        /\ h.oh[t] = x /\ \A u \in Threads \ {t} : h.oh[u] = g.oh[u]
  <2> DEFINE h == [g EXCEPT !.oh = [g.oh EXCEPT ![t] = x]]
  <2>1. /\ h \in Positions
        /\ h.ph = g.ph /\ h.pt = g.pt /\ h.ch = g.ch /\ h.ct = g.ct
        /\ h.oh[t] = x /\ \A u \in Threads \ {t} : h.oh[u] = g.oh[u]
        BY DEF Positions
  <2> QED BY <2>1
<1>3. UNCHANGED <<prod, cons, ring, n, held>>
      BY DEF ReadProdHead, ReadConsHead
<1>4. \/ /\ pc[t] = "p_head" /\ pc' = [pc EXCEPT ![t] = "p_tail"]
         /\ old_head' = [old_head EXCEPT ![t] = prod.head]
      \/ /\ pc[t] = "c_head" /\ pc' = [pc EXCEPT ![t] = "c_tail"]
         /\ old_head' = [old_head EXCEPT ![t] = cons.head]
      BY DEF ReadProdHead, ReadConsHead, Goto
<1>5. RingTypeOK' /\ Only(t)
      BY <1>1, <1>3, <1>4 DEF RingTypeOK, Only, HeadTail
<1>6. \/ pc[t] = "p_head" /\ pc'[t] = "p_tail" /\ old_head'[t] = prod.head
      \/ pc[t] = "c_head" /\ pc'[t] = "c_tail" /\ old_head'[t] = cons.head
      BY <1>1, <1>4 DEF RingTypeOK
<1>7. ThreadOK(h, t)'
  <2>1. Read(h, t)'
    <3>1. old_head'[t] = x % IndexMod
          BY <1>x, <1>6 DEF Good, Linked
    <3>2. Capacity < IndexMod /\ Capacity \in Nat
          BY Sizes
    <3> QED BY <1>x, <1>2, <1>6, <3>1, <3>2, PositionTypes DEF Read
  <2>2. n[t] \in 1 .. MaxBulk /\ (pc[t] = "p_head" => n[t] <= Len(held[t]))
        BY <1>6 DEF Good, ThreadOK, Bulk, Putting
  <2>3. Fits(h, t)' /\ Bulk(t)' /\ Copied(h, t)'
        BY <1>3, <1>6, <2>2 DEF Fits, Bulk, Copied, Putting
  <2> QED BY <2>1, <2>3 DEF ThreadOK
<1>8. pc[t] \notin Puts \cup Gets /\ pc'[t] \notin Puts \cup Gets
      BY <1>6 DEF Puts, Gets
<1>9. Good(h)'
      BY <1>2, <1>3, <1>5, <1>7, <1>8, OutsideKeeps
<1> QED BY <1>2, <1>9

\* An operation that goes on to its compare-and-set: there is room, or objects.
LEMMA CheckKeeps ==
  ASSUME NEW g \in Positions, NEW t \in Threads, Good(g),
         \/ ReadConsTail(t) /\ n[t] <= free_entries(t)
         \/ ReadProdTail(t)
  PROVE  Good(g)'
<1>1. RingTypeOK
      BY DEF Good
<1>2. UNCHANGED <<prod, cons, ring, n, old_head, held>>
      BY DEF ReadConsTail, ReadProdTail
<1>3. \/ pc[t] = "p_tail" /\ pc' = [pc EXCEPT ![t] = "p_cas"] /\ n[t] <= free_entries(t)
      \/ pc[t] = "c_tail" /\ pc' = [pc EXCEPT ![t] = "c_cas"] /\ n[t] <= available(t)
      BY DEF ReadConsTail, ReadProdTail, Goto
<1>4. RingTypeOK' /\ Only(t)
      BY <1>1, <1>2, <1>3 DEF RingTypeOK, Only
<1>5. \/ pc[t] = "p_tail" /\ pc'[t] = "p_cas" /\ n[t] <= Capacity + g.ct - g.oh[t]
      \/ pc[t] = "c_tail" /\ pc'[t] = "c_cas" /\ n[t] <= g.pt - g.oh[t]
      BY <1>1, <1>3, FreeEntries, Available DEF RingTypeOK
<1>6. ThreadOK(g, t)'
  <2>1. ThreadOK(g, t)
        BY DEF Good
  <2>2. Read(g, t)' /\ Bulk(t)' /\ Copied(g, t)'
        BY <1>2, <1>5, <2>1 DEF ThreadOK, Read, Bulk, Copied, Begun, Putting
  <2>3. n[t] \in Nat
        BY <1>1, Sizes DEF RingTypeOK
  <2>4. Fits(g, t)'
        BY <1>2, <1>5, <2>3, PositionTypes, Sizes DEF Fits
  <2> QED BY <2>2, <2>4 DEF ThreadOK
<1>7. pc[t] \notin Puts \cup Gets /\ pc'[t] \notin Puts \cup Gets
      BY <1>5 DEF Puts, Gets
<1> QED BY <1>2, <1>4, <1>6, <1>7, OutsideKeeps

\* An operation that starts again or gives up.
LEMMA BackKeeps ==
  ASSUME NEW g \in Positions, NEW t \in Threads, Good(g),
         RetryProdHead(t) \/ RetryConsHead(t) \/ DequeueFails(t)
  PROVE  Good(g)'
<1>1. RingTypeOK
      BY DEF Good
<1>2. UNCHANGED <<prod, cons, ring, held>>
      BY DEF RetryProdHead, RetryConsHead, DequeueFails
<1>3. \/ pc[t] = "p_cas" /\ pc' = [pc EXCEPT ![t] = "p_head"] /\ UNCHANGED <<n, old_head>>
      \/ pc[t] = "c_cas" /\ pc' = [pc EXCEPT ![t] = "c_head"] /\ UNCHANGED <<n, old_head>>
      \/ /\ pc[t] = "c_tail" /\ pc' = [pc EXCEPT ![t] = "idle"]
         /\ n' = [n EXCEPT ![t] = 0] /\ old_head' = [old_head EXCEPT ![t] = 0]
      BY DEF RetryProdHead, RetryConsHead, DequeueFails, Return, Goto
<1>4. RingTypeOK' /\ Only(t)
  <2>1. 0 \in 0 .. MaxBulk /\ 0 \in Indices
        BY Sizes DEF Indices
  <2>2. CASE UNCHANGED <<n, old_head>>
        BY <1>1, <1>2, <1>3, <2>2 DEF RingTypeOK, Only
  <2>3. CASE n' = [n EXCEPT ![t] = 0] /\ old_head' = [old_head EXCEPT ![t] = 0]
        BY <1>1, <1>2, <1>3, <2>1, <2>3 DEF RingTypeOK, Only
  <2> QED BY <1>3, <2>2, <2>3
<1>5. \/ pc[t] = "p_cas" /\ pc'[t] = "p_head" /\ n'[t] = n[t]
      \/ pc[t] = "c_cas" /\ pc'[t] = "c_head" /\ n'[t] = n[t]
      \/ pc[t] = "c_tail" /\ pc'[t] = "idle"
      BY <1>1, <1>3 DEF RingTypeOK
<1>6. ThreadOK(g, t)'
  <2>1. ThreadOK(g, t)
        BY DEF Good
  <2> QED BY <1>2, <1>5, <2>1 DEF ThreadOK, Read, Fits, Bulk, Copied, Begun, Putting
<1>7. pc[t] \notin Puts \cup Gets /\ pc'[t] \notin Puts \cup Gets
      BY <1>5 DEF Puts, Gets
<1> QED BY <1>2, <1>4, <1>6, <1>7, OutsideKeeps

-----------------------------------------------------------------------------
(***************************************************************************)
(* The compare-and-set succeeds: the operation is in flight.               *)
(***************************************************************************)

\* The index of a head, or of a tail, that a bulk has moved.
LEMMA MovedIndex ==
  ASSUME NEW g \in Positions, NEW t \in Threads, Good(g), pc[t] \in Begun
  PROVE  new_head(t) = (g.oh[t] + n[t]) % IndexMod /\ new_head(t) \in Indices
<1>1. /\ old_head[t] = g.oh[t] % IndexMod /\ g.oh[t] \in Int /\ n[t] \in Int
      /\ IndexMod \in Nat \ {0}
      BY PositionTypes, Sizes DEF Good, ThreadOK, Read, RingTypeOK
<1>2. ((g.oh[t] % IndexMod) + n[t]) % IndexMod = (g.oh[t] + n[t]) % IndexMod
      BY <1>1, ModAdd
<1>3. (g.oh[t] + n[t]) % IndexMod \in 0 .. (IndexMod - 1)
      BY <1>1
<1> QED BY <1>1, <1>2, <1>3 DEF new_head, Indices

\* Nobody is lapped: the head has moved, and those who read it are still behind it.
LEMMA NotLapped ==
  ASSUME NEW t \in Threads, NEW u \in Threads \ {t}, NEW a \in Nat, NEW b \in Nat,
         RingTypeOK, b <= a, a - b < IndexMod,
         old_head[t] = a % IndexMod, old_head[u] = b % IndexMod,
         NEW S, NoLap(t, S), pc[u] \in S
  PROVE  a + n[t] - b + Capacity < IndexMod
<1>1. ((old_head[t] - old_head[u]) % IndexMod) + n[t] + Capacity < IndexMod
      BY DEF NoLap
<1>2. (old_head[t] - old_head[u]) % IndexMod = a - b
      BY Distance
<1>3. n[t] \in Nat /\ Capacity \in Nat /\ IndexMod \in Nat
      BY Sizes DEF RingTypeOK
<1> QED BY <1>1, <1>2, <1>3

LEMMA MoveProdKeeps ==
  ASSUME NEW g \in Positions, NEW t \in Threads, Good(g), MoveProdHead(t)
  PROVE  \E h \in Positions : Good(h)'
<1>1. RingTypeOK /\ ThreadOK(g, t) /\ pc[t] = "p_cas" /\ Ordered(g) /\ Linked(g)
      BY DEF Good, MoveProdHead, Goto
<1>2. g.oh[t] = g.ph
      BY HeadUnmoved DEF MoveProdHead, Goto
<1>3. n[t] \in 1 .. MaxBulk /\ n[t] \in Nat /\ n[t] <= Len(held[t])
      BY <1>1, Sizes DEF RingTypeOK, ThreadOK, Bulk, Putting
<1>4. PICK m \in Nat : m = g.ph + n[t]
      BY <1>3, PositionTypes
<1>5. PICK h \in Positions :
        h.ph = m /\ h.pt = g.pt /\ h.ch = g.ch /\ h.ct = g.ct /\ h.oh = g.oh
  <2>1. [g EXCEPT !.ph = m] \in Positions
        BY DEF Positions
  <2> QED BY <2>1 DEF Positions
<1>6. /\ pc' = [pc EXCEPT ![t] = "p_copy"] /\ prod' = [prod EXCEPT !.head = new_head(t)]
      /\ UNCHANGED <<cons, ring, n, old_head, held>> /\ NoLap(t, {"p_tail", "p_cas"})
      BY DEF MoveProdHead, Goto
<1>7. new_head(t) = m % IndexMod /\ new_head(t) \in Indices
      BY <1>1, <1>2, <1>4, MovedIndex DEF Begun
<1>8. RingTypeOK' /\ Only(t)
      BY <1>1, <1>6, <1>7 DEF RingTypeOK, Only, HeadTail
<1>9. pc'[t] = "p_copy" /\ \A u \in Threads \ {t} : pc'[u] = pc[u]
      BY <1>1, <1>6 DEF RingTypeOK
<1>10. Linked(h)'
      BY <1>1, <1>5, <1>6, <1>7 DEF Linked, RingTypeOK, HeadTail
<1>11. Ordered(h)'
  <2>1. g.oh[t] + n[t] <= g.ct + Capacity
        BY <1>1 DEF ThreadOK, Fits
  <2> QED BY <1>1, <1>2, <1>3, <1>4, <1>5, <2>1, PositionTypes, Sizes DEF Ordered
<1>12. ASSUME NEW u \in Threads PROVE ThreadOK(h, u)'
  <2>1. CASE u = t
    <3>1. old_head[t] = g.oh[t] % IndexMod
          BY <1>1 DEF ThreadOK, Read, Begun
    <3> QED BY <1>3, <1>5, <1>6, <1>9, <2>1, <3>1
            DEF ThreadOK, Read, Fits, Bulk, Copied, Begun, Putting
  <2>2. CASE u # t
    <3>1. ThreadOK(g, u) /\ pc'[u] = pc[u]
          BY <1>9, <2>2 DEF Good
    <3>2. Fits(h, u)' /\ Bulk(u)' /\ Copied(h, u)'
          BY <1>5, <1>6, <3>1 DEF ThreadOK, Fits, Bulk, Copied
    <3>3. ASSUME pc[u] \in {"p_tail", "p_cas"}
          PROVE  h.oh[u] <= h.ph /\ h.ph - h.oh[u] + Capacity < IndexMod
      <4>1. /\ g.ph \in Nat /\ g.oh[u] \in Nat /\ g.oh[u] <= g.ph /\ g.ph - g.oh[u] < IndexMod
            /\ old_head[u] = g.oh[u] % IndexMod
            BY <3>1, <3>3, PositionTypes, Sizes DEF ThreadOK, Read, Begun
      <4>2. old_head[t] = g.ph % IndexMod
            BY <1>1, <1>2 DEF ThreadOK, Read, Begun
      <4>3. g.ph + n[t] - g.oh[u] + Capacity < IndexMod
            BY <1>1, <1>6, <2>2, <3>3, <4>1, <4>2, NotLapped
      <4> QED BY <1>3, <1>4, <1>5, <4>1, <4>3
    <3>4. Read(h, u)'
          BY <1>5, <1>6, <3>1, <3>3 DEF ThreadOK, Read
    <3> QED BY <3>2, <3>4 DEF ThreadOK
  <2> QED BY <2>1, <2>2
<1>13. Flight(h.oh, Puts, h.pt, h.ph)'
  <2>1. /\ g.oh \in [Threads -> Nat] /\ g.pt \in Nat /\ g.ph \in Nat /\ g.pt <= g.ph
        /\ Flight(g.oh, Puts, g.pt, g.ph) /\ pc[t] \notin Puts /\ pc'[t] \in Puts
        BY <1>1, <1>9, PositionTypes DEF Good, Ordered, Puts
  <2>2. Flight(g.oh, Puts, g.pt, m)'
        BY <1>1, <1>2, <1>4, <1>6, <1>9, <2>1, FlightJoins
  <2> QED BY <1>5, <2>2
<1>14. Flight(h.oh, Gets, h.ct, h.ch)'
  <2>1. /\ g.ct \in Nat /\ g.ch \in Nat /\ Flight(g.oh, Gets, g.ct, g.ch)
        /\ pc[t] \notin Gets /\ pc'[t] \notin Gets
        BY <1>1, <1>9, PositionTypes DEF Good, Gets
  <2>2. \A u \in Threads : /\ pc'[u] \in Gets <=> pc[u] \in Gets
                           /\ pc[u] \in Gets => n'[u] = n[u] /\ g.oh[u] = g.oh[u]
        BY <1>6, <1>9, <2>1
  <2>3. Flight(g.oh, Gets, g.ct, g.ch)'
        BY <2>1, <2>2, FlightStays
  <2> QED BY <1>5, <2>3
<1>15. Stored(h)'
      BY <1>5, <1>6 DEF Good, Stored
<1>16. Good(h)'
      BY <1>8, <1>10, <1>11, <1>12, <1>13, <1>14, <1>15 DEF Good
<1> QED BY <1>16

LEMMA MoveConsKeeps ==
  ASSUME NEW g \in Positions, NEW t \in Threads, Good(g), MoveConsHead(t)
  PROVE  \E h \in Positions : Good(h)'
<1>1. RingTypeOK /\ ThreadOK(g, t) /\ pc[t] = "c_cas" /\ Ordered(g) /\ Linked(g)
      BY DEF Good, MoveConsHead, Goto
<1>2. g.oh[t] = g.ch
      BY HeadUnmoved DEF MoveConsHead, Goto
<1>3. n[t] \in 1 .. MaxBulk /\ n[t] \in Nat
      BY <1>1, Sizes DEF RingTypeOK, ThreadOK, Bulk
<1>4. PICK m \in Nat : m = g.ch + n[t]
      BY <1>3, PositionTypes
<1>5. PICK h \in Positions :
        h.ph = g.ph /\ h.pt = g.pt /\ h.ch = m /\ h.ct = g.ct /\ h.oh = g.oh
  <2>1. [g EXCEPT !.ch = m] \in Positions
        BY DEF Positions
  <2> QED BY <2>1 DEF Positions
<1>6. /\ pc' = [pc EXCEPT ![t] = "c_copy"] /\ cons' = [cons EXCEPT !.head = new_head(t)]
      /\ UNCHANGED <<prod, ring, n, old_head, held>> /\ NoLap(t, {"c_tail", "c_cas"})
      BY DEF MoveConsHead, Goto
<1>7. new_head(t) = m % IndexMod /\ new_head(t) \in Indices
      BY <1>1, <1>2, <1>4, MovedIndex DEF Begun
<1>8. RingTypeOK' /\ Only(t)
      BY <1>1, <1>6, <1>7 DEF RingTypeOK, Only, HeadTail
<1>9. pc'[t] = "c_copy" /\ \A u \in Threads \ {t} : pc'[u] = pc[u]
      BY <1>1, <1>6 DEF RingTypeOK
<1>10. Linked(h)'
      BY <1>1, <1>5, <1>6, <1>7 DEF Linked, RingTypeOK, HeadTail
<1>11. m <= g.pt
  <2>1. g.oh[t] + n[t] <= g.pt
        BY <1>1 DEF ThreadOK, Fits
  <2> QED BY <1>2, <1>4, <2>1
<1>12. Ordered(h)'
      BY <1>1, <1>3, <1>4, <1>5, <1>11, PositionTypes, Sizes DEF Ordered
<1>13. ASSUME NEW u \in Threads PROVE ThreadOK(h, u)'
  <2>1. CASE u = t
    <3>1. old_head[t] = g.oh[t] % IndexMod
          BY <1>1 DEF ThreadOK, Read, Begun
    <3>2. ASSUME NEW k \in 1 .. n[t] PROVE ring[(g.oh[t] + k - 1) % Size] \in Objects
      <4>1. g.oh[t] + k - 1 \in g.ch .. (g.pt - 1)
            BY <1>2, <1>3, <1>4, <1>11, PositionTypes
      <4> QED BY <4>1 DEF Good, Stored
    <3>3. Copied(h, t)'
          BY <1>5, <1>6, <1>9, <3>2 DEF Copied
    <3> QED BY <1>3, <1>5, <1>6, <1>9, <2>1, <3>1, <3>3
            DEF ThreadOK, Read, Fits, Bulk, Begun, Putting
  <2>2. CASE u # t
    <3>1. ThreadOK(g, u) /\ pc'[u] = pc[u]
          BY <1>9, <2>2 DEF Good
    <3>2. Fits(h, u)' /\ Bulk(u)' /\ Copied(h, u)'
          BY <1>5, <1>6, <3>1 DEF ThreadOK, Fits, Bulk, Copied
    <3>3. ASSUME pc[u] \in {"c_tail", "c_cas"}
          PROVE  h.oh[u] <= h.ch /\ h.ch - h.oh[u] + Capacity < IndexMod
      <4>1. /\ g.ch \in Nat /\ g.oh[u] \in Nat /\ g.oh[u] <= g.ch /\ g.ch - g.oh[u] < IndexMod
            /\ old_head[u] = g.oh[u] % IndexMod
            BY <3>1, <3>3, PositionTypes, Sizes DEF ThreadOK, Read, Begun
      <4>2. old_head[t] = g.ch % IndexMod
            BY <1>1, <1>2 DEF ThreadOK, Read, Begun
      <4>3. g.ch + n[t] - g.oh[u] + Capacity < IndexMod
            BY <1>1, <1>6, <2>2, <3>3, <4>1, <4>2, NotLapped
      <4> QED BY <1>3, <1>4, <1>5, <4>1, <4>3
    <3>4. Read(h, u)'
          BY <1>5, <1>6, <3>1, <3>3 DEF ThreadOK, Read
    <3> QED BY <3>2, <3>4 DEF ThreadOK
  <2> QED BY <2>1, <2>2
<1>14. Flight(h.oh, Gets, h.ct, h.ch)'
  <2>1. /\ g.oh \in [Threads -> Nat] /\ g.ct \in Nat /\ g.ch \in Nat /\ g.ct <= g.ch
        /\ Flight(g.oh, Gets, g.ct, g.ch) /\ pc[t] \notin Gets /\ pc'[t] \in Gets
        BY <1>1, <1>9, PositionTypes DEF Good, Ordered, Gets
  <2>2. Flight(g.oh, Gets, g.ct, m)'
        BY <1>1, <1>2, <1>4, <1>6, <1>9, <2>1, FlightJoins
  <2> QED BY <1>5, <2>2
<1>15. Flight(h.oh, Puts, h.pt, h.ph)'
  <2>1. /\ g.pt \in Nat /\ g.ph \in Nat /\ Flight(g.oh, Puts, g.pt, g.ph)
        /\ pc[t] \notin Puts /\ pc'[t] \notin Puts
        BY <1>1, <1>9, PositionTypes DEF Good, Puts
  <2>2. \A u \in Threads : /\ pc'[u] \in Puts <=> pc[u] \in Puts
                           /\ pc[u] \in Puts => n'[u] = n[u] /\ g.oh[u] = g.oh[u]
        BY <1>6, <1>9, <2>1
  <2>3. Flight(g.oh, Puts, g.pt, g.ph)'
        BY <2>1, <2>2, FlightStays
  <2> QED BY <1>5, <2>3
<1>16. Stored(h)'
  <2>1. \A p \in m .. (g.pt - 1) : p \in g.ch .. (g.pt - 1)
        BY <1>3, <1>4, PositionTypes
  <2> QED BY <1>5, <1>6, <2>1 DEF Good, Stored
<1>17. Good(h)'
      BY <1>8, <1>10, <1>12, <1>13, <1>14, <1>15, <1>16 DEF Good
<1> QED BY <1>17

-----------------------------------------------------------------------------
(***************************************************************************)
(* The slots of an operation in flight are its own.                        *)
(***************************************************************************)

LEMMA FlightBounds ==
  ASSUME NEW g \in Positions, NEW t \in Threads, Good(g), pc[t] \in Puts \cup Gets
  PROVE  /\ g.ct <= g.oh[t] /\ g.oh[t] + n[t] <= g.ph
         /\ n[t] \in Nat /\ n[t] >= 1 /\ n[t] <= MaxBulk
         /\ old_head[t] = g.oh[t] % IndexMod
         /\ pc[t] \in Gets => g.oh[t] + n[t] <= g.ch
         /\ pc[t] \in Puts => g.pt <= g.oh[t]
<1>1. n[t] \in 1 .. MaxBulk /\ old_head[t] = g.oh[t] % IndexMod
      BY DEF Good, ThreadOK, Bulk, Read, Puts, Gets, Begun
<1>2. n[t] \in Nat /\ n[t] >= 1 /\ n[t] <= MaxBulk
      BY <1>1, Sizes
<1>3. Ordered(g) /\ Within(g.oh, Puts, g.pt, g.ph) /\ Within(g.oh, Gets, g.ct, g.ch)
      BY DEF Good, Flight
<1>4. CASE pc[t] \in Puts
  <2>1. g.pt <= g.oh[t] /\ g.oh[t] + n[t] <= g.ph /\ pc[t] \notin Gets
        BY <1>3, <1>4 DEF Within, Puts, Gets
  <2> QED BY <1>1, <1>2, <1>3, <2>1, PositionTypes DEF Ordered
<1>5. CASE pc[t] \in Gets
  <2>1. g.ct <= g.oh[t] /\ g.oh[t] + n[t] <= g.ch /\ pc[t] \notin Puts
        BY <1>3, <1>5 DEF Within, Puts, Gets
  <2> QED BY <1>1, <1>2, <1>3, <2>1, PositionTypes DEF Ordered
<1> QED BY <1>4, <1>5

\* The k-th slot of the operation belongs to the position k - 1 from its head.
LEMMA SliceOf ==
  ASSUME NEW g \in Positions, NEW t \in Threads, Good(g), pc[t] \in Puts \cup Gets
  PROVE  \A k \in 1 .. n[t] :
           /\ Slot(old_head[t], k) = (g.oh[t] + k - 1) % Size
           /\ (g.oh[t] + k - 1) % Size \in Slice(t)
<1>1. old_head[t] = g.oh[t] % IndexMod /\ g.oh[t] \in Nat /\ n[t] \in Nat
      BY FlightBounds, PositionTypes
<1> TAKE k \in 1 .. n[t]
<1>2. k \in Int
      BY <1>1
<1>3. Slot(old_head[t], k) = (g.oh[t] + k - 1) % Size
      BY <1>1, <1>2, SlotOf
<1> QED BY <1>3 DEF Slice

\* A position between the first in use and the last that is not the operation's
\* has another slot.
LEMMA Elsewhere ==
  ASSUME NEW g \in Positions, NEW t \in Threads, Good(g), pc[t] \in Puts \cup Gets,
         NEW p \in Nat, g.ct <= p, p < g.ph,
         p < g.oh[t] \/ g.oh[t] + n[t] <= p
  PROVE  p % Size \notin Slice(t)
<1>1. SUFFICES ASSUME NEW k \in 1 .. n[t], p % Size = Slot(old_head[t], k)
               PROVE  FALSE
      BY DEF Slice
<1>2. PICK q \in Nat : q = g.oh[t] + k - 1
      BY FlightBounds, PositionTypes
<1>3. q % Size = p % Size
      BY <1>1, <1>2, SliceOf
<1>4. /\ g.ct <= q /\ q < g.ph /\ p # q /\ g.ph <= g.ct + Capacity
      /\ g.ct \in Nat /\ g.ph \in Nat
      BY <1>2, FlightBounds, PositionTypes DEF Good, Ordered
<1>5. p - q \in 0 .. (Size - 1) \/ q - p \in 0 .. (Size - 1)
      BY <1>4, Sizes
<1> QED BY <1>3, <1>4, <1>5, SlotsDiffer

\* Two different slots of an operation.
LEMMA SliceDiffers ==
  ASSUME NEW g \in Positions, NEW t \in Threads, Good(g), pc[t] \in Puts \cup Gets,
         NEW j \in 1 .. n[t], NEW k \in 1 .. n[t], Slot(old_head[t], j) = Slot(old_head[t], k)
  PROVE  j = k
<1>1. /\ g.oh[t] \in Nat /\ n[t] \in Nat /\ n[t] <= Capacity /\ Capacity = Size - 1
      /\ Size \in Nat
      BY FlightBounds, PositionTypes, Sizes
<1>2. PICK p \in Nat : p = g.oh[t] + j - 1
      BY <1>1
<1>3. PICK q \in Nat : q = g.oh[t] + k - 1
      BY <1>1
<1>4. p % Size = q % Size
      BY <1>2, <1>3, SliceOf
<1>5. p - q \in 0 .. (Size - 1) \/ q - p \in 0 .. (Size - 1)
      BY <1>1, <1>2, <1>3
<1>6. p = q
      BY <1>4, <1>5, SlotsDiffer
<1> QED BY <1>1, <1>2, <1>3, <1>6

\* What an operation in flight does to its slots touches nothing that others
\* have there, nor what is stored.
LEMMA OthersSlots ==
  ASSUME NEW g \in Positions, NEW t \in Threads, Good(g), pc[t] \in Puts \cup Gets,
         \A s \in Slots \ Slice(t) : ring'[s] = ring[s]
  PROVE  /\ \A u \in Threads \ {t} : pc[u] \in Puts \cup Gets =>
              \A k \in 1 .. n[u] :
                 ring'[(g.oh[u] + k - 1) % Size] = ring[(g.oh[u] + k - 1) % Size]
         /\ \A p \in g.ch .. (g.pt - 1) : ring'[p % Size] = ring[p % Size]
<1>0. /\ \A p \in Nat : p % Size \in Slots
      /\ g.ph \in Nat /\ g.pt \in Nat /\ g.ch \in Nat /\ g.ct \in Nat /\ g.oh[t] \in Nat
      /\ g.ct <= g.ch /\ g.ch <= g.pt /\ g.pt <= g.ph
  <2>1. Size \in Nat \ {0}
        BY Sizes
  <2>2. \A p \in Nat : p % Size \in 0 .. (Size - 1)
        BY <2>1
  <2> QED BY <2>2, PositionTypes DEF Slots, Good, Ordered
<1>1. /\ n[t] \in Nat /\ n[t] >= 1
      /\ pc[t] \in Gets => g.oh[t] + n[t] <= g.ch
      /\ pc[t] \in Puts => g.pt <= g.oh[t]
      BY FlightBounds
<1>2. ASSUME NEW u \in Threads \ {t}, pc[u] \in Puts \cup Gets, NEW k \in 1 .. n[u]
      PROVE  ring'[(g.oh[u] + k - 1) % Size] = ring[(g.oh[u] + k - 1) % Size]
  <2>1. /\ g.ct <= g.oh[u] /\ g.oh[u] + n[u] <= g.ph /\ n[u] \in Nat
        /\ pc[u] \in Gets => g.oh[u] + n[u] <= g.ch
        /\ pc[u] \in Puts => g.pt <= g.oh[u]
        /\ g.oh[u] \in Nat
        BY <1>2, FlightBounds, PositionTypes
  <2>2. PICK p \in Nat : p = g.oh[u] + k - 1
        BY <2>1
  <2>3. g.ct <= p /\ p < g.ph
        BY <1>0, <2>1, <2>2
  <2>4. g.oh[u] + n[u] <= g.oh[t] \/ g.oh[t] + n[t] <= g.oh[u]
    <3>1. CASE (pc[t] \in Puts /\ pc[u] \in Puts) \/ (pc[t] \in Gets /\ pc[u] \in Gets)
          BY <3>1 DEF Good, Flight, Disjoint
    <3>2. CASE (pc[t] \in Puts /\ pc[u] \in Gets) \/ (pc[t] \in Gets /\ pc[u] \in Puts)
          BY <1>0, <1>1, <2>1, <3>2
    <3> QED BY <1>2, <3>1, <3>2
  <2>5. p < g.oh[t] \/ g.oh[t] + n[t] <= p
        BY <1>0, <1>1, <2>1, <2>2, <2>4
  <2>6. p % Size \notin Slice(t)
        BY <2>3, <2>5, Elsewhere
  <2> QED BY <1>0, <2>2, <2>6
<1>3. ASSUME NEW p \in g.ch .. (g.pt - 1) PROVE ring'[p % Size] = ring[p % Size]
  <2>1. p \in Nat /\ g.ct <= p /\ p < g.ph /\ (p < g.oh[t] \/ g.oh[t] + n[t] <= p)
        BY <1>0, <1>1
  <2>2. p % Size \notin Slice(t)
        BY <2>1, Elsewhere
  <2> QED BY <1>0, <2>1, <2>2
<1> QED BY <1>2, <1>3

-----------------------------------------------------------------------------
(***************************************************************************)
(* Sequences: the end of a cache, and what a run of slots holds.           *)
(***************************************************************************)

LEMMA Parts ==
  ASSUME NEW V, NEW s \in Seq(V), NEW m \in Nat, m <= Len(s)
  PROVE  /\ Len(s) \in Nat
         /\ SubSeq(s, 1, m) \in Seq(V) /\ Len(SubSeq(s, 1, m)) = m
         /\ \A j \in 1 .. m : SubSeq(s, 1, m)[j] = s[j]
         /\ SubSeq(s, m + 1, Len(s)) \in Seq(V)
         /\ Len(SubSeq(s, m + 1, Len(s))) = Len(s) - m
         /\ \A j \in 1 .. (Len(s) - m) : SubSeq(s, m + 1, Len(s))[j] = s[m + j]
<1>1. Len(s) \in Nat /\ \A j \in 1 .. Len(s) : s[j] \in V
      BY LenProperties, ElementOfSeq
<1> DEFINE l == Len(s)
           b == m + 1
<1> HIDE DEF l
<1>2. l \in Nat /\ m <= l /\ \A j \in 1 .. l : s[j] \in V
      BY <1>1 DEF l
<1>3. /\ 1 \in Int /\ m \in Int /\ b \in Int /\ l \in Int
      /\ \A j \in 1 .. m : s[j] \in V
      /\ \A j \in b .. l : s[j] \in V
      BY <1>2
<1>4. /\ l - b + 1 = l - m /\ (b <= l <=> l - m >= 1) /\ m - 1 + 1 = m /\ l - m \in Nat
      /\ \A j \in 1 .. (l - m) : b + j - 1 = m + j
      /\ \A j \in 1 .. m : 1 + j - 1 = j
      BY <1>2
<1> HIDE DEF b
<1>5. /\ SubSeq(s, 1, m) \in Seq(V)
      /\ Len(SubSeq(s, 1, m)) = IF 1 <= m THEN m - 1 + 1 ELSE 0
      /\ \A j \in 1 .. (m - 1 + 1) : SubSeq(s, 1, m)[j] = s[1 + j - 1]
      BY <1>3, SubSeqProperties
<1>6. /\ SubSeq(s, b, l) \in Seq(V)
      /\ Len(SubSeq(s, b, l)) = IF b <= l THEN l - b + 1 ELSE 0
      /\ \A j \in 1 .. (l - b + 1) : SubSeq(s, b, l)[j] = s[b + j - 1]
      BY <1>3, SubSeqProperties
<1>7. Len(SubSeq(s, 1, m)) = m /\ \A j \in 1 .. m : SubSeq(s, 1, m)[j] = s[j]
      BY <1>3, <1>4, <1>5
<1>8. Len(SubSeq(s, b, l)) = l - m /\ \A j \in 1 .. (l - m) : SubSeq(s, b, l)[j] = s[m + j]
      BY <1>2, <1>4, <1>6
<1> QED BY <1>2, <1>5, <1>6, <1>7, <1>8 DEF b, l

LEMMA Ends ==
  ASSUME NEW V, NEW s \in Seq(V), NEW k \in Nat, k <= Len(s)
  PROVE  /\ Len(s) \in Nat
         /\ SubSeq(s, 1, Len(s) - k) \in Seq(V)
         /\ Len(SubSeq(s, 1, Len(s) - k)) = Len(s) - k
         /\ \A j \in 1 .. (Len(s) - k) : SubSeq(s, 1, Len(s) - k)[j] = s[j]
         /\ SubSeq(s, Len(s) - k + 1, Len(s)) \in Seq(V)
         /\ Len(SubSeq(s, Len(s) - k + 1, Len(s))) = k
         /\ \A j \in 1 .. k : SubSeq(s, Len(s) - k + 1, Len(s))[j] = s[Len(s) - k + j]
<1> DEFINE m == Len(s) - k
<1>1. Len(s) \in Nat
      BY LenProperties
<1>2. m \in Nat /\ m <= Len(s) /\ Len(s) - m = k
      BY <1>1
<1> HIDE DEF m
<1>3. /\ SubSeq(s, 1, m) \in Seq(V) /\ Len(SubSeq(s, 1, m)) = m
      /\ \A j \in 1 .. m : SubSeq(s, 1, m)[j] = s[j]
      /\ SubSeq(s, m + 1, Len(s)) \in Seq(V)
      /\ Len(SubSeq(s, m + 1, Len(s))) = Len(s) - m
      /\ \A j \in 1 .. (Len(s) - m) : SubSeq(s, m + 1, Len(s))[j] = s[m + j]
      BY <1>2, Parts
<1>4. /\ Len(SubSeq(s, m + 1, Len(s))) = k
      /\ \A j \in 1 .. k : SubSeq(s, m + 1, Len(s))[j] = s[m + j]
      BY <1>2, <1>3
<1> QED BY <1>1, <1>3, <1>4 DEF m

Run(f, a, k) == [j \in 1 .. k |-> f[(a + j - 1) % Size]]

LEMMA ContentIs ==
  ASSUME NEW a \in Nat, NEW k \in Nat
  PROVE  Content(a % IndexMod, k) = Run(ring, a, k)
<1>1. \A j \in 1 .. k : Slot(a % IndexMod, j) = (a + j - 1) % Size
  <2> TAKE j \in 1 .. k
  <2>1. j \in Int
        OBVIOUS
  <2> QED BY <2>1, SlotOf
<1> QED BY <1>1 DEF Content, Run

-----------------------------------------------------------------------------
(***************************************************************************)
(* The steps in flight.                                                    *)
(***************************************************************************)

LEMMA OthersKeep ==
  ASSUME NEW g \in Positions, NEW h \in Positions, NEW t \in Threads, NEW u \in Threads \ {t},
         Good(g), pc[t] \in Puts \cup Gets, Only(t),
         h.ph = g.ph, h.ch = g.ch, h.oh = g.oh, g.pt <= h.pt, g.ct <= h.ct,
         \A s \in Slots \ Slice(t) : ring'[s] = ring[s]
  PROVE  ThreadOK(h, u)'
<1>1. pc'[u] = pc[u] /\ n'[u] = n[u] /\ old_head'[u] = old_head[u] /\ held'[u] = held[u]
      BY DEF Only
<1>2. ThreadOK(g, u)
      BY DEF Good
<1>3. Read(h, u)' /\ Bulk(u)'
      BY <1>1, <1>2 DEF ThreadOK, Read, Bulk
<1>4. Fits(h, u)'
  <2>1. n[u] \in Nat /\ g.oh[u] \in Nat /\ g.ct \in Nat /\ h.ct \in Nat /\ g.pt \in Nat
        /\ h.pt \in Nat /\ Capacity \in Nat
        BY PositionTypes, Sizes DEF Good, RingTypeOK
  <2> QED BY <1>1, <1>2, <2>1 DEF ThreadOK, Fits
<1>5. Copied(h, u)'
  <2>1. pc[u] \in Puts \cup Gets =>
          \A k \in 1 .. n[u] :
             ring'[(g.oh[u] + k - 1) % Size] = ring[(g.oh[u] + k - 1) % Size]
        BY OthersSlots
  <2> QED BY <1>1, <1>2, <2>1 DEF ThreadOK, Copied, Puts, Gets
<1> QED BY <1>3, <1>4, <1>5 DEF ThreadOK

\* What the copy of an enqueue leaves in its slots.
LEMMA EnqueueWrites ==
  ASSUME NEW g \in Positions, NEW t \in Threads, Good(g), EnqueueElems(t)
  PROVE  /\ \A s \in Slots \ Slice(t) : ring'[s] = ring[s]
         /\ \A k \in 1 .. n[t] :
              ring'[(g.oh[t] + k - 1) % Size] = held[t][Len(held[t]) - n[t] + k]
         /\ ring' \in [Slots -> Objects \cup {Dead}]
<1>1. pc[t] \in Puts \cup Gets /\ pc[t] = "p_copy" /\ RingTypeOK
      BY DEF EnqueueElems, Goto, Puts, Good
<1>2. n[t] \in Nat /\ n[t] <= Len(held[t]) /\ held[t] \in Seq(Objects)
      BY <1>1, Sizes DEF Good, RingTypeOK, ThreadOK, Bulk, Putting
<1>3. /\ obj_table(t) \in Seq(Objects) /\ Len(obj_table(t)) = n[t]
      /\ \A k \in 1 .. n[t] : obj_table(t)[k] = held[t][Len(held[t]) - n[t] + k]
  <2>1. PICK s \in Seq(Objects), m \in Nat : s = held[t] /\ m = n[t] /\ m <= Len(s)
        BY <1>2
  <2>2. /\ SubSeq(s, Len(s) - m + 1, Len(s)) \in Seq(Objects)
        /\ Len(SubSeq(s, Len(s) - m + 1, Len(s))) = m
        /\ \A k \in 1 .. m : SubSeq(s, Len(s) - m + 1, Len(s))[k] = s[Len(s) - m + k]
    <3>1. m <= Len(s)
          BY <2>1
    <3> QED BY ONLY <3>1, s \in Seq(Objects), m \in Nat, Ends, Zenon
  <2>3. obj_table(t) = SubSeq(s, Len(s) - m + 1, Len(s))
        BY <2>1 DEF obj_table
  <2> DEFINE o == SubSeq(s, Len(s) - m + 1, Len(s))
  <2> HIDE DEF o
  <2>4. o \in Seq(Objects) /\ Len(o) = m /\ \A k \in 1 .. m : o[k] = s[Len(s) - m + k]
        BY <2>2 DEF o
  <2>5. obj_table(t) = o
        BY <2>3 DEF o
  <2> QED BY <2>1, <2>4, <2>5
<1>4. \A k \in 1 .. n[t] : obj_table(t)[k] \in Objects
  <2> TAKE k \in 1 .. n[t]
  <2>1. k \in 1 .. Len(obj_table(t))
        BY <1>3
  <2> QED BY <1>3, <2>1, ElementOfSeq
<1>5. ring' = [s \in Slots |->
                 IF s \in Slice(t)
                 THEN obj_table(t)[CHOOSE k \in 1 .. n[t] : s = Slot(old_head[t], k)]
                 ELSE ring[s]]
      BY DEF EnqueueElems
<1>6. \A k \in 1 .. n[t] : /\ Slot(old_head[t], k) \in Slots \cap Slice(t)
                           /\ Slot(old_head[t], k) = (g.oh[t] + k - 1) % Size
  <2> TAKE k \in 1 .. n[t]
  <2>1. /\ Slot(old_head[t], k) = (g.oh[t] + k - 1) % Size
        /\ Slot(old_head[t], k) \in Slice(t)
        BY <1>1, SliceOf
  <2>2. Size \in Nat \ {0} /\ g.oh[t] + k - 1 \in Int
        BY <1>2, Sizes, PositionTypes
  <2>3. (g.oh[t] + k - 1) % Size \in 0 .. (Size - 1)
        BY <2>2
  <2> QED BY <2>1, <2>3 DEF Slots
<1>7. ASSUME NEW k \in 1 .. n[t]
      PROVE  ring'[Slot(old_head[t], k)] = obj_table(t)[k]
  <2> DEFINE s == Slot(old_head[t], k)
             c == CHOOSE j \in 1 .. n[t] : s = Slot(old_head[t], j)
  <2>1. c \in 1 .. n[t] /\ s = Slot(old_head[t], c)
        OBVIOUS
  <2> HIDE DEF c
  <2>2. c = k
        BY <1>1, <2>1, SliceDiffers
  <2>3. ring'[s] = obj_table(t)[c]
    <3>1. s \in Slots /\ s \in Slice(t)
          BY <1>6
    <3> HIDE DEF s
    <3> QED BY <1>5, <3>1 DEF c
  <2> QED BY <2>2, <2>3
<1>8. \A k \in 1 .. n[t] :
        ring'[(g.oh[t] + k - 1) % Size] = held[t][Len(held[t]) - n[t] + k]
      BY <1>3, <1>6, <1>7
<1>9. \A s \in Slots \ Slice(t) : ring'[s] = ring[s]
      BY <1>5
<1>10. ASSUME NEW s \in Slots PROVE ring'[s] \in Objects \cup {Dead}
  <2>1. CASE s \in Slice(t)
    <3>1. PICK k \in 1 .. n[t] : s = Slot(old_head[t], k)
          BY <2>1 DEF Slice
    <3> QED BY <1>4, <1>7, <3>1
  <2>2. CASE s \notin Slice(t)
        BY <1>1, <1>9, <2>2 DEF RingTypeOK
  <2> QED BY <2>1, <2>2
<1>11. ring' \in [Slots -> Objects \cup {Dead}]
      BY <1>5, <1>10
<1> QED BY <1>8, <1>9, <1>11

LEMMA EnqueueKeeps ==
  ASSUME NEW g \in Positions, NEW t \in Threads, Good(g), EnqueueElems(t)
  PROVE  Good(g)'
<1>1. pc[t] \in Puts \cup Gets /\ pc[t] = "p_copy" /\ RingTypeOK
      BY DEF EnqueueElems, Goto, Puts, Good
<1>2. pc' = [pc EXCEPT ![t] = "p_wait"] /\ UNCHANGED <<prod, cons, n, old_head, held>>
      BY DEF EnqueueElems, Goto
<1>3. /\ \A s \in Slots \ Slice(t) : ring'[s] = ring[s]
      /\ \A k \in 1 .. n[t] :
           ring'[(g.oh[t] + k - 1) % Size] = held[t][Len(held[t]) - n[t] + k]
      /\ ring' \in [Slots -> Objects \cup {Dead}]
      BY EnqueueWrites
<1>4. RingTypeOK' /\ Only(t)
      BY <1>1, <1>2, <1>3 DEF RingTypeOK, Only
<1>5. pc'[t] = "p_wait" /\ \A u \in Threads \ {t} : pc'[u] = pc[u]
      BY <1>1, <1>2 DEF RingTypeOK
<1>6. Linked(g)' /\ Ordered(g)'
      BY <1>2 DEF Good, Linked, Ordered
<1>7. ASSUME NEW u \in Threads PROVE ThreadOK(g, u)'
  <2>1. CASE u = t
    <3>1. ThreadOK(g, t)
          BY DEF Good
    <3>2. Copied(g, t)'
          BY <1>2, <1>3, <1>5 DEF Copied
    <3> QED BY <1>1, <1>2, <1>5, <2>1, <3>1, <3>2
            DEF ThreadOK, Read, Fits, Bulk, Begun, Putting
  <2>2. CASE u # t
        BY <1>1, <1>3, <1>4, <2>2, PositionTypes, OthersKeep
  <2> QED BY <2>1, <2>2
<1>8. Stored(g)'
  <2>1. \A p \in g.ch .. (g.pt - 1) : ring'[p % Size] = ring[p % Size]
        BY <1>1, <1>3, OthersSlots
  <2> QED BY <2>1 DEF Good, Stored
<1>9. Flight(g.oh, Puts, g.pt, g.ph)'
  <2>1. g.pt \in Nat /\ g.ph \in Nat /\ Flight(g.oh, Puts, g.pt, g.ph)
        BY PositionTypes DEF Good
  <2>2. \A u \in Threads : /\ pc'[u] \in Puts <=> pc[u] \in Puts
                           /\ pc[u] \in Puts => n'[u] = n[u] /\ g.oh[u] = g.oh[u]
        BY <1>1, <1>2, <1>5 DEF Puts
  <2> QED BY <2>1, <2>2, FlightStays
<1>10. Flight(g.oh, Gets, g.ct, g.ch)'
  <2>1. g.ct \in Nat /\ g.ch \in Nat /\ Flight(g.oh, Gets, g.ct, g.ch)
        BY PositionTypes DEF Good
  <2>2. \A u \in Threads : /\ pc'[u] \in Gets <=> pc[u] \in Gets
                           /\ pc[u] \in Gets => n'[u] = n[u] /\ g.oh[u] = g.oh[u]
        BY <1>1, <1>2, <1>5 DEF Gets
  <2> QED BY <2>1, <2>2, FlightStays
<1> QED BY <1>4, <1>6, <1>7, <1>8, <1>9, <1>10 DEF Good

\* What the copy of a dequeue reads.
LEMMA DequeueReads ==
  ASSUME NEW g \in Positions, NEW t \in Threads, Good(g), pc[t] = "c_copy"
  PROVE  /\ Content(old_head[t], n[t]) = Run(ring, g.oh[t], n[t])
         /\ Run(ring, g.oh[t], n[t]) \in Seq(Objects)
         /\ Len(Run(ring, g.oh[t], n[t])) = n[t]
<1>1. g.oh[t] \in Nat /\ n[t] \in Nat /\ old_head[t] = g.oh[t] % IndexMod
      BY FlightBounds, PositionTypes DEF Gets
<1>2. \A k \in 1 .. n[t] : ring[(g.oh[t] + k - 1) % Size] \in Objects
      BY DEF Good, ThreadOK, Copied
<1>3. Content(old_head[t], n[t]) = Run(ring, g.oh[t], n[t])
      BY <1>1, ContentIs
<1> DEFINE a == g.oh[t]
           k == n[t]
           f == ring
<1>4. a \in Nat /\ k \in Nat /\ \A j \in 1 .. k : f[(a + j - 1) % Size] \in Objects
      BY <1>1, <1>2
<1> HIDE DEF a, k, f
<1>5. Run(f, a, k) \in Seq(Objects) /\ Len(Run(f, a, k)) = k
      BY <1>4 DEF Run
<1> QED BY <1>3, <1>5 DEF a, k, f

LEMMA DequeueKeeps ==
  ASSUME NEW g \in Positions, NEW t \in Threads, Good(g), DequeueElems(t)
  PROVE  Good(g)'
<1>1. pc[t] \in Puts \cup Gets /\ pc[t] = "c_copy" /\ RingTypeOK
      BY DEF DequeueElems, Goto, Gets, Good
<1>2. /\ pc' = [pc EXCEPT ![t] = "c_wait"] /\ UNCHANGED <<prod, cons, ring, n, old_head>>
      /\ held' = [held EXCEPT ![t] = @ \o Content(old_head[t], n[t])]
      BY DEF DequeueElems, Goto
<1>3. /\ held[t] \in Seq(Objects) /\ n[t] \in Nat /\ Len(held[t]) \in Nat
      /\ held[t] \o Content(old_head[t], n[t]) \in Seq(Objects)
      /\ Len(held[t] \o Content(old_head[t], n[t])) = Len(held[t]) + n[t]
  <2>1. held[t] \in Seq(Objects) /\ n[t] \in Nat
        BY <1>1, Sizes DEF RingTypeOK
  <2>2. Content(old_head[t], n[t]) \in Seq(Objects) /\ Len(Content(old_head[t], n[t])) = n[t]
        BY <1>1, DequeueReads
  <2> DEFINE c == Content(old_head[t], n[t])
  <2> HIDE DEF c
  <2>3. c \in Seq(Objects) /\ Len(c) = n[t]
        BY <2>2 DEF c
  <2>4. held[t] \o c \in Seq(Objects) /\ Len(held[t] \o c) = Len(held[t]) + Len(c)
        BY <2>1, <2>3, ConcatProperties
  <2>5. Len(held[t]) \in Nat
        BY <2>1, LenProperties
  <2> QED BY <2>1, <2>3, <2>4, <2>5 DEF c
<1>4. RingTypeOK' /\ Only(t)
      BY <1>1, <1>2, <1>3 DEF RingTypeOK, Only
<1>5. /\ pc'[t] = "c_wait" /\ \A u \in Threads \ {t} : pc'[u] = pc[u]
      /\ held'[t] = held[t] \o Content(old_head[t], n[t])
      BY <1>1, <1>2 DEF RingTypeOK
<1>6. Linked(g)' /\ Ordered(g)' /\ Stored(g)'
      BY <1>2 DEF Good, Linked, Ordered, Stored
<1>7. ASSUME NEW u \in Threads PROVE ThreadOK(g, u)'
  <2>1. CASE u = t
    <3>1. ThreadOK(g, t)
          BY DEF Good
    <3>2. n'[t] <= Len(held'[t])
      <4>1. n'[t] = n[t] /\ Len(held'[t]) = Len(held[t]) + n[t]
            BY <1>2, <1>3, <1>5
      <4> QED BY <1>3, <4>1
    <3> QED BY <1>1, <1>2, <1>5, <2>1, <3>1, <3>2
            DEF ThreadOK, Read, Fits, Bulk, Copied, Begun
  <2>2. CASE u # t
        BY <1>1, <1>2, <1>4, <2>2, PositionTypes, OthersKeep
  <2> QED BY <2>1, <2>2
<1>8. Flight(g.oh, Puts, g.pt, g.ph)'
  <2>1. g.pt \in Nat /\ g.ph \in Nat /\ Flight(g.oh, Puts, g.pt, g.ph)
        BY PositionTypes DEF Good
  <2>2. \A u \in Threads : /\ pc'[u] \in Puts <=> pc[u] \in Puts
                           /\ pc[u] \in Puts => n'[u] = n[u] /\ g.oh[u] = g.oh[u]
        BY <1>1, <1>2, <1>5 DEF Puts
  <2> QED BY <2>1, <2>2, FlightStays
<1>9. Flight(g.oh, Gets, g.ct, g.ch)'
  <2>1. g.ct \in Nat /\ g.ch \in Nat /\ Flight(g.oh, Gets, g.ct, g.ch)
        BY PositionTypes DEF Good
  <2>2. \A u \in Threads : /\ pc'[u] \in Gets <=> pc[u] \in Gets
                           /\ pc[u] \in Gets => n'[u] = n[u] /\ g.oh[u] = g.oh[u]
        BY <1>1, <1>2, <1>5 DEF Gets
  <2> QED BY <2>1, <2>2, FlightStays
<1> QED BY <1>4, <1>6, <1>7, <1>8, <1>9 DEF Good

\* All operations in flight have something to do.
LEMMA FlightsMove ==
  ASSUME NEW g \in Positions, Good(g)
  PROVE  \A u \in Threads : pc[u] \in Puts \cup Gets => n[u] >= 1
BY FlightBounds

LEMMA ProdTailKeeps ==
  ASSUME NEW g \in Positions, NEW t \in Threads, Good(g), UpdateProdTail(t)
  PROVE  \E h \in Positions : Good(h)'
<1>1. pc[t] \in Puts \cup Gets /\ pc[t] \in Puts /\ pc[t] = "p_wait" /\ RingTypeOK
      BY DEF UpdateProdTail, Return, Goto, Puts, Good
<1>2. g.oh[t] = g.pt
      BY <1>1, FirstInFlight DEF UpdateProdTail
<1>3. n[t] \in Nat /\ n[t] >= 1 /\ g.oh[t] + n[t] <= g.ph
      BY <1>1, FlightBounds
<1>4. PICK m \in Nat : m = g.pt + n[t]
      BY <1>3, PositionTypes
<1>5. PICK h \in Positions :
        h.ph = g.ph /\ h.pt = m /\ h.ch = g.ch /\ h.ct = g.ct /\ h.oh = g.oh
  <2>1. [g EXCEPT !.pt = m] \in Positions
        BY DEF Positions
  <2> QED BY <2>1 DEF Positions
<1>6. /\ pc' = [pc EXCEPT ![t] = "idle"] /\ prod' = [prod EXCEPT !.tail = new_head(t)]
      /\ n' = [n EXCEPT ![t] = 0] /\ old_head' = [old_head EXCEPT ![t] = 0]
      /\ held' = [held EXCEPT ![t] = Kept(t)] /\ UNCHANGED <<cons, ring>>
      BY DEF UpdateProdTail, Return, Goto
<1>7. new_head(t) = m % IndexMod /\ new_head(t) \in Indices
      BY <1>1, <1>2, <1>4, MovedIndex DEF Begun
<1>8. n[t] <= Len(held[t]) /\ held[t] \in Seq(Objects) /\ Kept(t) \in Seq(Objects)
  <2>1. n[t] <= Len(held[t]) /\ held[t] \in Seq(Objects)
        BY <1>1 DEF Good, ThreadOK, Bulk, Putting, RingTypeOK
  <2> QED BY <1>3, <2>1, Ends DEF Kept
<1>9. RingTypeOK' /\ Only(t)
  <2>1. 0 \in 0 .. MaxBulk /\ 0 \in Indices
        BY Sizes DEF Indices
  <2> QED BY <1>1, <1>6, <1>7, <1>8, <2>1 DEF RingTypeOK, Only, HeadTail
<1>10. pc'[t] = "idle" /\ \A u \in Threads \ {t} : pc'[u] = pc[u] /\ n'[u] = n[u]
      BY <1>1, <1>6 DEF RingTypeOK
<1>11. Linked(h)'
      BY <1>1, <1>5, <1>6, <1>7 DEF Good, Linked, RingTypeOK, HeadTail
<1>12. Ordered(h)'
      BY <1>2, <1>3, <1>4, <1>5, PositionTypes, Sizes DEF Good, Ordered
<1>13. ASSUME NEW u \in Threads PROVE ThreadOK(h, u)'
  <2>1. CASE u = t
        BY <1>10, <2>1 DEF ThreadOK, Read, Fits, Bulk, Copied, Begun, Putting
  <2>2. CASE u # t
    <3>1. g.pt <= h.pt /\ g.ct <= h.ct
          BY <1>3, <1>4, <1>5, PositionTypes
    <3> QED BY <1>1, <1>5, <1>6, <1>9, <2>2, <3>1, OthersKeep
  <2> QED BY <2>1, <2>2
<1>14. Flight(h.oh, Puts, h.pt, h.ph)'
  <2>1. /\ g.oh \in [Threads -> Nat] /\ g.pt \in Nat /\ g.ph \in Nat
        /\ Flight(g.oh, Puts, g.pt, g.ph) /\ pc'[t] \notin Puts
        /\ \A u \in Threads : pc[u] \in Puts => n[u] >= 1
        BY <1>10, PositionTypes, FlightsMove DEF Good, Puts
  <2>2. Flight(g.oh, Puts, m, g.ph)'
        BY <1>1, <1>2, <1>4, <1>10, <2>1, FlightLeaves
  <2> QED BY <1>5, <2>2
<1>15. Flight(h.oh, Gets, h.ct, h.ch)'
  <2>1. /\ g.ct \in Nat /\ g.ch \in Nat /\ Flight(g.oh, Gets, g.ct, g.ch)
        /\ pc[t] \notin Gets /\ pc'[t] \notin Gets
        BY <1>1, <1>10, PositionTypes DEF Good, Gets
  <2>2. \A u \in Threads : /\ pc'[u] \in Gets <=> pc[u] \in Gets
                           /\ pc[u] \in Gets => n'[u] = n[u] /\ g.oh[u] = g.oh[u]
        BY <1>10, <2>1
  <2>3. Flight(g.oh, Gets, g.ct, g.ch)'
        BY <2>1, <2>2, FlightStays
  <2> QED BY <1>5, <2>3
<1>16. Stored(h)'
  <2> SUFFICES ASSUME NEW p \in g.ch .. (m - 1) PROVE ring[p % Size] \in Objects
      BY <1>5, <1>6 DEF Stored
  <2>1. CASE p < g.pt
    <3>1. p \in g.ch .. (g.pt - 1)
          BY <2>1, PositionTypes
    <3> QED BY <3>1 DEF Good, Stored
  <2>2. CASE ~(p < g.pt)
    <3>1. PICK k \in 1 .. n[t] : p = g.oh[t] + k - 1
      <4>1. p - g.pt + 1 \in 1 .. n[t] /\ p = g.pt + (p - g.pt + 1) - 1
            BY <1>3, <1>4, <2>2, PositionTypes
      <4> QED BY <1>2, <4>1
    <3>2. ring[p % Size] = held[t][Len(held[t]) - n[t] + k]
          BY <1>1, <3>1 DEF Good, ThreadOK, Copied
    <3>3. Len(held[t]) - n[t] + k \in 1 .. Len(held[t])
          BY <1>3, <1>8, LenProperties
    <3>4. held[t][Len(held[t]) - n[t] + k] \in Objects
          BY <1>8, <3>3, ElementOfSeq
    <3> QED BY <3>2, <3>4
  <2> QED BY <2>1, <2>2
<1>17. Good(h)'
      BY <1>9, <1>11, <1>12, <1>13, <1>14, <1>15, <1>16 DEF Good
<1> QED BY <1>17

LEMMA ConsTailKeeps ==
  ASSUME NEW g \in Positions, NEW t \in Threads, Good(g), UpdateConsTail(t)
  PROVE  \E h \in Positions : Good(h)'
<1>1. pc[t] \in Puts \cup Gets /\ pc[t] \in Gets /\ pc[t] = "c_wait" /\ RingTypeOK
      BY DEF UpdateConsTail, Return, Goto, Gets, Good
<1>2. g.oh[t] = g.ct
      BY <1>1, FirstInFlight DEF UpdateConsTail
<1>3. n[t] \in Nat /\ n[t] >= 1 /\ g.oh[t] + n[t] <= g.ch
      BY <1>1, FlightBounds
<1>4. PICK m \in Nat : m = g.ct + n[t]
      BY <1>3, PositionTypes
<1>5. PICK h \in Positions :
        h.ph = g.ph /\ h.pt = g.pt /\ h.ch = g.ch /\ h.ct = m /\ h.oh = g.oh
  <2>1. [g EXCEPT !.ct = m] \in Positions
        BY DEF Positions
  <2> QED BY <2>1 DEF Positions
<1>6. /\ pc' = [pc EXCEPT ![t] = "idle"] /\ cons' = [cons EXCEPT !.tail = new_head(t)]
      /\ n' = [n EXCEPT ![t] = 0] /\ old_head' = [old_head EXCEPT ![t] = 0]
      /\ ring' = [s \in Slots |-> IF s \in Slice(t) THEN Dead ELSE ring[s]]
      /\ UNCHANGED <<prod, held>>
      BY DEF UpdateConsTail, Return, Goto
<1>7. new_head(t) = m % IndexMod /\ new_head(t) \in Indices
      BY <1>1, <1>2, <1>4, MovedIndex DEF Begun
<1>8. RingTypeOK' /\ Only(t)
  <2>1. 0 \in 0 .. MaxBulk /\ 0 \in Indices
        BY Sizes DEF Indices
  <2>2. ring' \in [Slots -> Objects \cup {Dead}]
        BY <1>1, <1>6 DEF RingTypeOK
  <2>3. cons' \in HeadTail
        BY <1>1, <1>6, <1>7 DEF RingTypeOK, HeadTail
  <2> QED BY <1>1, <1>6, <2>1, <2>2, <2>3 DEF RingTypeOK, Only
<1>9. \A s \in Slots \ Slice(t) : ring'[s] = ring[s]
      BY <1>6
<1>10. pc'[t] = "idle" /\ \A u \in Threads \ {t} : pc'[u] = pc[u] /\ n'[u] = n[u]
      BY <1>1, <1>6 DEF RingTypeOK
<1>11. Linked(h)'
      BY <1>1, <1>5, <1>6, <1>7 DEF Good, Linked, RingTypeOK, HeadTail
<1>12. Ordered(h)'
      BY <1>2, <1>3, <1>4, <1>5, PositionTypes, Sizes DEF Good, Ordered
<1>13. ASSUME NEW u \in Threads PROVE ThreadOK(h, u)'
  <2>1. CASE u = t
        BY <1>10, <2>1 DEF ThreadOK, Read, Fits, Bulk, Copied, Begun, Putting
  <2>2. CASE u # t
    <3>1. g.pt <= h.pt /\ g.ct <= h.ct
          BY <1>3, <1>4, <1>5, PositionTypes
    <3> QED BY <1>1, <1>5, <1>8, <1>9, <2>2, <3>1, OthersKeep
  <2> QED BY <2>1, <2>2
<1>14. Flight(h.oh, Gets, h.ct, h.ch)'
  <2>1. /\ g.oh \in [Threads -> Nat] /\ g.ct \in Nat /\ g.ch \in Nat
        /\ Flight(g.oh, Gets, g.ct, g.ch) /\ pc'[t] \notin Gets
        /\ \A u \in Threads : pc[u] \in Gets => n[u] >= 1
        BY <1>10, PositionTypes, FlightsMove DEF Good, Gets
  <2>2. Flight(g.oh, Gets, m, g.ch)'
        BY <1>1, <1>2, <1>4, <1>10, <2>1, FlightLeaves
  <2> QED BY <1>5, <2>2
<1>15. Flight(h.oh, Puts, h.pt, h.ph)'
  <2>1. /\ g.pt \in Nat /\ g.ph \in Nat /\ Flight(g.oh, Puts, g.pt, g.ph)
        /\ pc[t] \notin Puts /\ pc'[t] \notin Puts
        BY <1>1, <1>10, PositionTypes DEF Good, Puts
  <2>2. \A u \in Threads : /\ pc'[u] \in Puts <=> pc[u] \in Puts
                           /\ pc[u] \in Puts => n'[u] = n[u] /\ g.oh[u] = g.oh[u]
        BY <1>10, <2>1
  <2>3. Flight(g.oh, Puts, g.pt, g.ph)'
        BY <2>1, <2>2, FlightStays
  <2> QED BY <1>5, <2>3
<1>16. Stored(h)'
  <2>1. \A p \in g.ch .. (g.pt - 1) : ring'[p % Size] = ring[p % Size]
        BY <1>1, <1>9, OthersSlots
  <2> QED BY <1>5, <2>1 DEF Good, Stored
<1>17. Good(h)'
      BY <1>8, <1>11, <1>12, <1>13, <1>14, <1>15, <1>16 DEF Good
<1> QED BY <1>17

-----------------------------------------------------------------------------
(***************************************************************************)
(* The queue and the hands, as the abstract specification sees them.       *)
(***************************************************************************)

LEMMA FifoIs ==
  ASSUME NEW g \in Positions, Good(g)
  PROVE  /\ Fifo = Run(ring, g.ch, g.pt - g.ch)
         /\ Fifo \in Seq(Objects) /\ Len(Fifo) = g.pt - g.ch /\ g.pt - g.ch \in Nat
         /\ \A j \in 1 .. (g.pt - g.ch) : Fifo[j] = ring[(g.ch + j - 1) % Size]
<1>1. g.ch \in Nat /\ g.pt \in Nat /\ g.pt - g.ch \in Nat
      BY PositionTypes DEF Good, Ordered
<1>2. (prod.tail - cons.head) % IndexMod = g.pt - g.ch
      BY FifoLength
<1>3. cons.head = g.ch % IndexMod
      BY DEF Good, Linked
<1>4. Fifo = Run(ring, g.ch, g.pt - g.ch)
      BY <1>1, <1>2, <1>3, ContentIs DEF Fifo
<1> DEFINE k == g.pt - g.ch
<1>5. \A j \in 1 .. k : ring[(g.ch + j - 1) % Size] \in Objects
  <2> TAKE j \in 1 .. k
  <2>1. g.ch + j - 1 \in g.ch .. (g.pt - 1)
        BY <1>1
  <2> QED BY <2>1 DEF Good, Stored
<1>6. k \in Nat
      BY <1>1
<1> HIDE DEF k
<1>7. /\ Run(ring, g.ch, k) \in Seq(Objects) /\ Len(Run(ring, g.ch, k)) = k
      /\ \A j \in 1 .. k : Run(ring, g.ch, k)[j] = ring[(g.ch + j - 1) % Size]
      BY <1>5, <1>6 DEF Run
<1> QED BY <1>1, <1>4, <1>7 DEF k

LEMMA HandIs ==
  ASSUME NEW g \in Positions, NEW t \in Threads, Good(g)
  PROVE  /\ Hand[t] \in Seq(Objects) /\ Len(Hand[t]) \in Nat /\ n[t] \in Nat
         /\ pc[t] # "c_copy" => Hand[t] = held[t]
         /\ pc[t] = "c_copy" => Hand[t] = held[t] \o Run(ring, g.oh[t], n[t])
         /\ pc[t] \in Putting \cup Gets => n[t] <= Len(Hand[t])
<1>1. held[t] \in Seq(Objects) /\ n[t] \in Nat
      BY Sizes DEF Good, RingTypeOK
<1>2. Len(held[t]) \in Nat
      BY <1>1, LenProperties
<1>3. CASE pc[t] # "c_copy"
  <2>1. Hand[t] = held[t]
        BY <1>3 DEF Hand
  <2>2. pc[t] \in Putting \cup Gets => n[t] <= Len(held[t])
        BY <1>3 DEF Good, ThreadOK, Bulk, Gets
  <2> QED BY <1>1, <1>2, <1>3, <2>1, <2>2
<1>4. CASE pc[t] = "c_copy"
  <2> DEFINE c == Run(ring, g.oh[t], n[t])
  <2>1. /\ Content(old_head[t], n[t]) = c
        /\ c \in Seq(Objects) /\ Len(c) = n[t]
        BY <1>4, DequeueReads
  <2> HIDE DEF c
  <2>2. Hand[t] = held[t] \o c
        BY <1>4, <2>1 DEF Hand
  <2>3. held[t] \o c \in Seq(Objects) /\ Len(held[t] \o c) = Len(held[t]) + Len(c)
        BY <1>1, <2>1, ConcatProperties
  <2>4. Len(Hand[t]) \in Nat /\ n[t] <= Len(Hand[t])
        BY <1>1, <1>2, <2>1, <2>2, <2>3
  <2> QED BY <1>1, <1>4, <2>2, <2>3, <2>4 DEF c
<1> QED BY <1>3, <1>4

\* No object is twice in the queue f and the hands h.
Once(f, h) ==
  /\ \A j, k \in 1 .. Len(f) : f[j] = f[k] => j = k
  /\ \A t \in Threads : \A j \in 1 .. Len(f) : \A k \in 1 .. Len(h[t]) : f[j] # h[t][k]
  /\ \A t, u \in Threads : \A j \in 1 .. Len(h[t]) : \A k \in 1 .. Len(h[u]) :
        h[t][j] = h[u][k] => t = u /\ j = k

(***************************************************************************)
(* A put finds room.  Every position from the consumers' tail on stands    *)
(* for an object of its own: one that a dequeue in flight has taken, one   *)
(* in the queue, one that an enqueue in flight still holds, or one of the  *)
(* bulk that is about to be put.  There are no more objects than slots.    *)
(***************************************************************************)
LEMMA PutFindsRoom ==
  ASSUME NEW g \in Positions, NEW t \in Threads, Good(g), Once(Fifo, Hand),
         pc[t] \in {"p_head", "p_tail", "p_cas"}
  PROVE  g.ph + n[t] <= g.ct + NumObjects
<1> DEFINE A == {u \in Threads : pc[u] \in Puts \cup Gets}
           base(u) == IF u = t THEN g.ph ELSE g.oh[u]
           D == g.ct .. (g.ph + n[t] - 1)
           Queued(p) == g.ch <= p /\ p < g.pt
           Has(u, p) == base(u) <= p /\ p < base(u) + n[u]
           w(p) == CHOOSE u \in A \cup {t} : Has(u, p)
           at(p) == Len(Hand[w(p)]) - n[w(p)] + (p - base(w(p))) + 1
           F == [p \in D |-> IF Queued(p) THEN Fifo[p - g.ch + 1] ELSE Hand[w(p)][at(p)]]
<1>0. /\ g.ch \in Nat /\ g.pt \in Nat /\ g.ct \in Nat /\ g.ph \in Nat /\ n[t] \in Nat
      /\ g.ct <= g.ch /\ g.ch <= g.pt /\ g.pt <= g.ph
      /\ t \notin A /\ \A u \in Threads : n[u] \in Nat /\ base(u) \in Nat
      BY PositionTypes, HandIs DEF Good, Ordered, Puts, Gets
<1>1. \A u \in A : base(u) = g.oh[u]
      BY <1>0
<1> HIDE DEF base
<1>b. base(t) = g.ph
      BY DEF base
<1>2. ASSUME NEW p \in D, ~Queued(p) PROVE w(p) \in A \cup {t} /\ Has(w(p), p)
  <2>1. SUFFICES \E u \in A \cup {t} : Has(u, p)
        OBVIOUS
  <2>2. CASE p < g.ch
    <3>1. p \in g.ct .. (g.ch - 1)
          BY <1>0, <2>2
    <3>2. PICK u \in Threads : pc[u] \in Gets /\ g.oh[u] <= p /\ p < g.oh[u] + n[u]
          BY <3>1 DEF Good, Flight, Covered
    <3> QED BY <1>1, <3>2
  <2>3. CASE g.pt <= p /\ p < g.ph
    <3>1. p \in g.pt .. (g.ph - 1)
          BY <1>0, <2>3
    <3>2. PICK u \in Threads : pc[u] \in Puts /\ g.oh[u] <= p /\ p < g.oh[u] + n[u]
          BY <3>1 DEF Good, Flight, Covered
    <3> QED BY <1>1, <3>2
  <2>4. CASE g.ph <= p
    <3>1. Has(t, p)
          BY <1>0, <1>b, <2>4
    <3> QED BY <3>1
  <2> QED BY <1>0, <1>2, <2>2, <2>3, <2>4
<1> HIDE DEF w
<1>3. ASSUME NEW p \in D, ~Queued(p)
      PROVE  /\ w(p) \in Threads /\ Hand[w(p)] \in Seq(Objects)
             /\ at(p) \in 1 .. Len(Hand[w(p)])
             /\ Len(Hand[w(p)]) \in Nat /\ n[w(p)] \in Nat /\ base(w(p)) \in Nat
  <2>1. w(p) \in A \cup {t} /\ Has(w(p), p) /\ w(p) \in Threads
        BY <1>2, <1>3
  <2>2. pc[w(p)] \in Putting \cup Gets
        BY <2>1 DEF Putting, Puts
  <2>3. /\ Hand[w(p)] \in Seq(Objects) /\ Len(Hand[w(p)]) \in Nat /\ n[w(p)] \in Nat
        /\ n[w(p)] <= Len(Hand[w(p)]) /\ base(w(p)) \in Nat
        BY <1>0, <2>1, <2>2, HandIs
  <2>4. p \in Nat
        BY <1>0
  <2> QED BY <2>1, <2>3, <2>4
<1>4. ASSUME NEW p \in D, Queued(p)
      PROVE  p - g.ch + 1 \in 1 .. Len(Fifo)
  <2>1. Len(Fifo) = g.pt - g.ch
        BY FifoIs
  <2>2. p \in Int /\ g.ch <= p /\ p < g.pt
        BY <1>0, <1>4
  <2>3. p - g.ch + 1 \in 1 .. (g.pt - g.ch)
        BY <1>0, <2>2
  <2> QED BY <2>1, <2>3
<1>5. F \in [D -> Objects]
  <2>1. ASSUME NEW p \in D, Queued(p) PROVE Fifo[p - g.ch + 1] \in Objects
        BY <1>4, <2>1, FifoIs, ElementOfSeq
  <2>2. ASSUME NEW p \in D, ~Queued(p) PROVE Hand[w(p)][at(p)] \in Objects
        BY <1>3, <2>2, ElementOfSeq
  <2> HIDE DEF D, Queued, at
  <2> QED BY <2>1, <2>2
<1>6. ASSUME NEW p \in D, NEW q \in D, F[p] = F[q] PROVE p = q
  <2>1. CASE Queued(p) /\ Queued(q)
    <3>1. Fifo[p - g.ch + 1] = Fifo[q - g.ch + 1]
          BY <1>6, <2>1
    <3>2. p - g.ch + 1 = q - g.ch + 1
          BY <1>4, <2>1, <3>1 DEF Once
    <3> QED BY <1>0, <3>2
  <2>2. CASE ~Queued(p) /\ ~Queued(q)
    <3>1. Hand[w(p)][at(p)] = Hand[w(q)][at(q)]
          BY <1>6, <2>2
    <3>2. w(p) = w(q) /\ at(p) = at(q)
      <4>1. /\ w(p) \in Threads /\ at(p) \in 1 .. Len(Hand[w(p)])
            /\ w(q) \in Threads /\ at(q) \in 1 .. Len(Hand[w(q)])
            BY <1>3, <2>2
      <4> HIDE DEF at
      <4> QED BY <3>1, <4>1 DEF Once
    <3>3. Len(Hand[w(p)]) \in Nat /\ n[w(p)] \in Nat /\ base(w(p)) \in Nat
          BY <1>3, <2>2
    <3>4. p \in Nat /\ q \in Nat
          BY <1>0
    <3> DEFINE l == Len(Hand[w(p)])
               m == n[w(p)]
               b == base(w(p))
    <3>5. at(p) = l - m + (p - b) + 1 /\ at(q) = l - m + (q - b) + 1
          BY <3>2
    <3>6. l - m + (p - b) + 1 = l - m + (q - b) + 1 /\ l \in Nat /\ m \in Nat /\ b \in Nat
          BY <3>2, <3>3, <3>5
    <3> HIDE DEF l, m, b
    <3> QED BY <3>4, <3>6
  <2>3. CASE Queued(p) /\ ~Queued(q)
    <3>1. Fifo[p - g.ch + 1] = Hand[w(q)][at(q)]
          BY <1>6, <2>3
    <3>2. /\ p - g.ch + 1 \in 1 .. Len(Fifo)
          /\ w(q) \in Threads /\ at(q) \in 1 .. Len(Hand[w(q)])
          BY <1>3, <1>4, <2>3
    <3> HIDE DEF at
    <3> QED BY <3>1, <3>2 DEF Once
  <2>4. CASE ~Queued(p) /\ Queued(q)
    <3>1. Fifo[q - g.ch + 1] = Hand[w(p)][at(p)]
          BY <1>6, <2>4
    <3>2. /\ q - g.ch + 1 \in 1 .. Len(Fifo)
          /\ w(p) \in Threads /\ at(p) \in 1 .. Len(Hand[w(p)])
          BY <1>3, <1>4, <2>4
    <3> HIDE DEF at
    <3> QED BY <3>1, <3>2 DEF Once
  <2> QED BY <2>1, <2>2, <2>3, <2>4
<1> HIDE DEF F
<1>7. F \in Injection(D, Objects)
      BY <1>5, <1>6 DEF Injection, IsInjective
<1>8. Cardinality(D) <= NumObjects
      BY <1>7, FS_Injection, RingAssumption DEF NumObjects
<1>9. g.ph + n[t] <= g.ct + Cardinality(D)
  <2> DEFINE a == g.ct
             b == g.ph + n[t] - 1
  <2>1. a \in Int /\ b \in Int
        BY <1>0
  <2> HIDE DEF a, b
  <2>2. Cardinality(a .. b) = IF a > b THEN 0 ELSE b - a + 1
        BY <2>1, FS_Interval
  <2>3. D = a .. b /\ b = g.ph + n[t] - 1 /\ a = g.ct
        BY DEF a, b
  <2> DEFINE x == Cardinality(D)
  <2> HIDE DEF D
  <2>4. x = IF a > b THEN 0 ELSE b - a + 1
        BY <2>2, <2>3
  <2> HIDE DEF x
  <2>5. b = g.ph + n[t] - 1 /\ a = g.ct
        BY <2>3
  <2>6. g.ph + n[t] <= g.ct + x
        BY <1>0, <2>4, <2>5
  <2> QED BY <2>6 DEF x
<1>10. Cardinality(D) \in Nat
  <2>1. IsFiniteSet(D)
        BY <1>7, FS_Injection, RingAssumption
  <2> QED BY <2>1, FS_CardinalityType
<1> HIDE DEF D
<1> QED BY <1>0, <1>8, <1>9, <1>10, Sizes

\* The pool's put: it reads at least as much room as it needs.
LEMMA RoomIsSeen ==
  ASSUME NEW g \in Positions, NEW t \in Threads, Good(g), Once(Fifo, Hand), pc[t] = "p_tail"
  PROVE  n[t] <= free_entries(t)
<1>1. g.ph + n[t] <= g.ct + NumObjects
      BY PutFindsRoom
<1>2. g.oh[t] <= g.ph /\ n[t] \in Nat
      BY HandIs DEF Good, ThreadOK, Read
<1>3. free_entries(t) = Capacity + g.ct - g.oh[t]
      BY FreeEntries
<1> QED BY <1>1, <1>2, <1>3, PositionTypes, Sizes

-----------------------------------------------------------------------------
(***************************************************************************)
(* Bulks that change hands leave every object in one place.                *)
(***************************************************************************)

LEMMA PutOnce ==
  ASSUME NEW V, NEW f \in Seq(V), NEW h \in [Threads -> Seq(V)], NEW t \in Threads,
         NEW k \in Nat, k <= Len(h[t]), Once(f, h)
  PROVE  Once(f \o SubSeq(h[t], Len(h[t]) - k + 1, Len(h[t])),
              [h EXCEPT ![t] = SubSeq(h[t], 1, Len(h[t]) - k)])
<1> DEFINE s == h[t]
           a == SubSeq(s, 1, Len(s) - k)
           b == SubSeq(s, Len(s) - k + 1, Len(s))
           ff == f \o b
           hh == [h EXCEPT ![t] = a]
           x == Len(f)
           l == Len(s)
<1>1. s \in Seq(V) /\ k <= Len(s)
      OBVIOUS
<1> HIDE DEF s
<1>2. /\ a \in Seq(V) /\ Len(a) = Len(s) - k /\ \A j \in 1 .. (Len(s) - k) : a[j] = s[j]
      /\ b \in Seq(V) /\ Len(b) = k /\ \A j \in 1 .. k : b[j] = s[Len(s) - k + j]
      BY <1>1, Ends
<1> HIDE DEF a, b
<1>3. /\ Len(ff) = x + k
      /\ \A j \in 1 .. (x + k) : ff[j] = IF j <= x THEN f[j] ELSE b[j - x]
  <2>0. f \in Seq(V) /\ b \in Seq(V)
        BY <1>2
  <2>1. /\ Len(f \o b) = Len(f) + Len(b)
        /\ \A j \in 1 .. (Len(f) + Len(b)) :
             (f \o b)[j] = IF j <= Len(f) THEN f[j] ELSE b[j - Len(f)]
        BY <2>0, ConcatProperties
  <2> QED BY <1>2, <2>1
<1>4. x \in Nat /\ l \in Nat /\ k <= l /\ \A u \in Threads : Len(h[u]) \in Nat
      BY <1>1, LenProperties
<1>5. hh[t] = a /\ \A u \in Threads \ {t} : hh[u] = h[u]
      OBVIOUS
<1> HIDE DEF x, l, ff, hh
\* Where the object at a place of ff was.
<1>6. ASSUME NEW j \in 1 .. Len(ff)
      PROVE  \/ j \in 1 .. x /\ ff[j] = f[j]
             \/ \E m \in 1 .. Len(h[t]) :
                  m = (l - k) + (j - x) /\ m > l - k /\ ff[j] = h[t][m]
  <2>1. CASE j <= x
        BY <1>3, <1>4, <2>1
  <2>2. CASE ~(j <= x)
    <3>1. j - x \in 1 .. k /\ j \in 1 .. (x + k)
          BY <1>3, <1>4, <2>2
    <3>2. ff[j] = b[j - x] /\ b[j - x] = s[l - k + (j - x)]
          BY <1>2, <1>3, <2>2, <3>1 DEF l
    <3>3. PICK m \in 1 .. l : m = l - k + (j - x) /\ m > l - k
          BY <1>4, <3>1
    <3>4. ff[j] = h[t][m] /\ m \in 1 .. Len(h[t]) /\ m = (l - k) + (j - x)
          BY <3>2, <3>3 DEF l, s
    <3> QED BY <3>3, <3>4
  <2> QED BY <2>1, <2>2
<1>7. \A u \in Threads : \A j \in 1 .. Len(hh[u]) :
        j \in 1 .. Len(h[u]) /\ hh[u][j] = h[u][j] /\ (u = t => j <= l - k)
  <2> TAKE u \in Threads
  <2>1. CASE u = t
        BY <1>2, <1>4, <1>5, <2>1 DEF s, l
  <2>2. CASE u # t
        BY <1>5, <2>2
  <2> QED BY <2>1, <2>2
<1>8. /\ \A i, j \in 1 .. x : f[i] = f[j] => i = j
      /\ \A u \in Threads : \A i \in 1 .. x : \A j \in 1 .. Len(h[u]) : f[i] # h[u][j]
      BY DEF Once, x
<1>9. \A u, v \in Threads : \A i \in 1 .. Len(h[u]) : \A j \in 1 .. Len(h[v]) :
         h[u][i] = h[v][j] => u = v /\ i = j
      BY DEF Once
<1>10. ASSUME NEW i \in 1 .. Len(ff), NEW j \in 1 .. Len(ff), ff[i] = ff[j] PROVE i = j
  <2>1. i \in Int /\ j \in Int
        OBVIOUS
  <2>2. CASE i \in 1 .. x /\ ff[i] = f[i]
    <3>1. CASE j \in 1 .. x /\ ff[j] = f[j]
          BY <1>8, <1>10, <2>2, <3>1
    <3>2. ASSUME NEW m \in 1 .. Len(h[t]), ff[j] = h[t][m] PROVE FALSE
      <4>1. f[i] # h[t][m]
            BY <1>8, <2>2
      <4> QED BY <1>10, <2>2, <3>2, <4>1
    <3> QED BY <1>6, <3>1, <3>2
  <2>3. ASSUME NEW m \in 1 .. Len(h[t]), m = (l - k) + (i - x), ff[i] = h[t][m] PROVE i = j
    <3>1. ASSUME j \in 1 .. x, ff[j] = f[j] PROVE FALSE
      <4>1. f[j] # h[t][m]
            BY <1>8, <3>1
      <4> QED BY <1>10, <2>3, <3>1, <4>1
    <3>2. ASSUME NEW r \in 1 .. Len(h[t]), r = (l - k) + (j - x), ff[j] = h[t][r] PROVE i = j
      <4>1. h[t][m] = h[t][r]
            BY <1>10, <2>3, <3>2
      <4>2. m = r
            BY <1>9, <4>1
      <4> QED BY <1>4, <2>1, <2>3, <3>2, <4>2
    <3> QED BY <1>6, <3>1, <3>2
  <2> QED BY <1>6, <2>2, <2>3
<1>11. ASSUME NEW u \in Threads, NEW i \in 1 .. Len(ff), NEW j \in 1 .. Len(hh[u])
       PROVE  ff[i] # hh[u][j]
  <2>0. j \in 1 .. Len(h[u]) /\ hh[u][j] = h[u][j] /\ (u = t => j <= l - k)
        BY <1>7
  <2>1. CASE i \in 1 .. x /\ ff[i] = f[i]
        BY <1>8, <2>0, <2>1
  <2>2. ASSUME NEW m \in 1 .. Len(h[t]), m > l - k, ff[i] = h[t][m], ff[i] = hh[u][j]
        PROVE  FALSE
    <3>1. h[u][j] = h[t][m] /\ j \in 1 .. Len(h[u])
          BY <2>0, <2>2
    <3>2. u = t /\ j = m
          BY <1>9, <3>1
    <3> QED BY <1>4, <2>0, <2>2, <3>2
  <2> QED BY <1>6, <2>1, <2>2
<1>12. ASSUME NEW u \in Threads, NEW v \in Threads,
              NEW i \in 1 .. Len(hh[u]), NEW j \in 1 .. Len(hh[v]), hh[u][i] = hh[v][j]
       PROVE  u = v /\ i = j
      BY <1>7, <1>9, <1>12
<1>13. Once(ff, hh)
      BY <1>10, <1>11, <1>12 DEF Once
<1> QED BY <1>13 DEF ff, hh, a, b, s

LEMMA GetOnce ==
  ASSUME NEW V, NEW f \in Seq(V), NEW h \in [Threads -> Seq(V)], NEW t \in Threads,
         NEW k \in Nat, k <= Len(f), Once(f, h)
  PROVE  Once(SubSeq(f, k + 1, Len(f)), [h EXCEPT ![t] = h[t] \o SubSeq(f, 1, k)])
<1> DEFINE a == SubSeq(f, 1, k)
           ff == SubSeq(f, k + 1, Len(f))
           c == h[t] \o a
           hh == [h EXCEPT ![t] = c]
           x == Len(f)
           l == Len(h[t])
<1>2. /\ a \in Seq(V) /\ Len(a) = k /\ \A j \in 1 .. k : a[j] = f[j]
      /\ Len(ff) = x - k /\ \A j \in 1 .. (x - k) : ff[j] = f[k + j]
      BY Parts
<1> HIDE DEF a
<1>3. /\ Len(c) = l + k
      /\ \A j \in 1 .. (l + k) : c[j] = IF j <= l THEN h[t][j] ELSE a[j - l]
  <2>1. h[t] \in Seq(V) /\ a \in Seq(V)
        BY <1>2
  <2>2. /\ Len(h[t] \o a) = Len(h[t]) + Len(a)
        /\ \A j \in 1 .. (Len(h[t]) + Len(a)) :
             (h[t] \o a)[j] = IF j <= Len(h[t]) THEN h[t][j] ELSE a[j - Len(h[t])]
        BY <2>1, ConcatProperties
  <2> QED BY <1>2, <2>2
<1>4. x \in Nat /\ l \in Nat /\ k <= x /\ \A u \in Threads : Len(h[u]) \in Nat
      BY LenProperties
<1> HIDE DEF c
<1>5. hh[t] = c /\ \A u \in Threads \ {t} : hh[u] = h[u]
      OBVIOUS
<1> HIDE DEF x, l, ff, hh
<1>6. \A j \in 1 .. Len(ff) : k + j \in (k + 1) .. x /\ k + j \in 1 .. x /\ ff[j] = f[k + j]
      BY <1>2, <1>4
\* Where the object at a place of a hand was.
<1>7. \A u \in Threads : \A j \in 1 .. Len(hh[u]) :
        \/ j \in 1 .. Len(h[u]) /\ hh[u][j] = h[u][j] /\ (u = t => j <= l)
        \/ u = t /\ j > l /\ j - l \in 1 .. k /\ j - l \in 1 .. x /\ hh[u][j] = f[j - l]
  <2> TAKE u \in Threads
  <2> TAKE j \in 1 .. Len(hh[u])
  <2>1. CASE u # t
        BY <1>5, <2>1
  <2>2. CASE u = t /\ j <= l
    <3>1. j \in 1 .. (l + k) /\ j \in 1 .. l
          BY <1>3, <1>4, <1>5, <2>2
    <3> QED BY <1>3, <1>5, <2>2, <3>1 DEF l
  <2>3. CASE u = t /\ ~(j <= l)
    <3>1. j \in 1 .. (l + k) /\ j - l \in 1 .. k /\ j - l \in 1 .. x /\ j > l
          BY <1>3, <1>4, <1>5, <2>3
    <3>2. hh[u][j] = a[j - l] /\ a[j - l] = f[j - l]
          BY <1>2, <1>3, <1>5, <2>3, <3>1
    <3> QED BY <2>3, <3>1, <3>2
  <2> QED BY <2>1, <2>2, <2>3
<1>8. /\ \A i, j \in 1 .. x : f[i] = f[j] => i = j
      /\ \A u \in Threads : \A i \in 1 .. x : \A j \in 1 .. Len(h[u]) : f[i] # h[u][j]
      BY DEF Once, x
<1>9. \A u, v \in Threads : \A i \in 1 .. Len(h[u]) : \A j \in 1 .. Len(h[v]) :
         h[u][i] = h[v][j] => u = v /\ i = j
      BY DEF Once
<1>10. ASSUME NEW i \in 1 .. Len(ff), NEW j \in 1 .. Len(ff), ff[i] = ff[j] PROVE i = j
  <2>1. k + i = k + j
        BY <1>6, <1>8, <1>10
  <2> QED BY <2>1
<1>11. ASSUME NEW u \in Threads, NEW i \in 1 .. Len(ff), NEW j \in 1 .. Len(hh[u])
       PROVE  ff[i] # hh[u][j]
  <2>1. k + i \in (k + 1) .. x /\ k + i \in 1 .. x /\ ff[i] = f[k + i]
        BY <1>6
  <2>2. CASE j \in 1 .. Len(h[u]) /\ hh[u][j] = h[u][j]
        BY <1>8, <2>1, <2>2
  <2>3. CASE j - l \in 1 .. k /\ j - l \in 1 .. x /\ hh[u][j] = f[j - l]
    <3>1. k + i # j - l
          BY <1>4, <2>1, <2>3
    <3> QED BY <1>8, <2>1, <2>3, <3>1
  <2> QED BY <1>7, <2>2, <2>3
<1>12. ASSUME NEW u \in Threads, NEW v \in Threads,
              NEW i \in 1 .. Len(hh[u]), NEW j \in 1 .. Len(hh[v]), hh[u][i] = hh[v][j]
       PROVE  u = v /\ i = j
  <2>1. i \in Int /\ j \in Int
        OBVIOUS
  <2>2. CASE i \in 1 .. Len(h[u]) /\ hh[u][i] = h[u][i]
    <3>1. CASE j \in 1 .. Len(h[v]) /\ hh[v][j] = h[v][j]
      <4>1. h[u][i] = h[v][j]
            BY <1>12, <2>2, <3>1
      <4> QED BY <1>9, <2>2, <3>1, <4>1
    <3>2. ASSUME j - l \in 1 .. x, hh[v][j] = f[j - l] PROVE FALSE
      <4>1. f[j - l] # h[u][i]
            BY <1>8, <2>2, <3>2
      <4> QED BY <1>12, <2>2, <3>2, <4>1
    <3> QED BY <1>7, <3>1, <3>2
  <2>3. CASE u = t /\ i - l \in 1 .. x /\ hh[u][i] = f[i - l]
    <3>1. ASSUME j \in 1 .. Len(h[v]), hh[v][j] = h[v][j] PROVE FALSE
      <4>1. f[i - l] # h[v][j]
            BY <1>8, <2>3, <3>1
      <4> QED BY <1>12, <2>3, <3>1, <4>1
    <3>2. CASE v = t /\ j - l \in 1 .. x /\ hh[v][j] = f[j - l]
      <4>1. i - l = j - l
            BY <1>8, <1>12, <2>3, <3>2
      <4> QED BY <1>4, <2>1, <2>3, <3>2, <4>1
    <3> QED BY <1>7, <3>1, <3>2
  <2> QED BY <1>7, <2>2, <2>3
<1>13. Once(ff, hh)
      BY <1>10, <1>11, <1>12 DEF Once
<1> QED BY <1>13 DEF ff, hh, c, a

-----------------------------------------------------------------------------
(***************************************************************************)
(* Every step is a put, a get, or changes neither queue nor hands.         *)
(***************************************************************************)

\* A run of c slots is one of k slots and one of l slots from b on.
Splits(f, a, k, b, l, c) ==
  /\ SubSeq(Run(f, a, c), 1, k) = Run(f, a, k)
  /\ SubSeq(Run(f, a, c), k + 1, Len(Run(f, a, c))) = Run(f, b, l)
  /\ Run(f, a, c) = Run(f, a, k) \o Run(f, b, l)

LEMMA RunSplit ==
  ASSUME NEW f, NEW a \in Nat, NEW k \in Nat, NEW l \in Nat,
         NEW b \in Nat, b = a + k, NEW c \in Nat, c = k + l,
         \A j \in 1 .. c : f[(a + j - 1) % Size] \in Objects
  PROVE  Splits(f, a, k, b, l, c)
<1> DEFINE r == Run(f, a, c)
           x == Run(f, a, k)
           y == Run(f, b, l)
<1>1. /\ r \in Seq(Objects) /\ Len(r) = c
      /\ \A j \in 1 .. c : r[j] = f[(a + j - 1) % Size]
  <2>1. c \in Nat
        OBVIOUS
  <2> QED BY <2>1 DEF Run
<1>2. /\ x \in Seq(Objects) /\ Len(x) = k
      /\ \A j \in 1 .. k : x[j] = f[(a + j - 1) % Size]
  <2>1. ASSUME NEW j \in 1 .. k PROVE f[(a + j - 1) % Size] \in Objects
    <3>1. j \in 1 .. c
          OBVIOUS
    <3> QED BY <3>1
  <2> QED BY <2>1 DEF Run
<1>3. /\ y \in Seq(Objects) /\ Len(y) = l
      /\ \A j \in 1 .. l : y[j] = f[(b + j - 1) % Size]
  <2>1. ASSUME NEW j \in 1 .. l PROVE f[(b + j - 1) % Size] \in Objects
    <3>1. k + j \in 1 .. c /\ a + (k + j) - 1 = b + j - 1
          OBVIOUS
    <3> QED BY <3>1
  <2> QED BY <2>1 DEF Run
<1> HIDE DEF r, x, y
<1>4. \A j \in 1 .. k : j \in 1 .. c
      OBVIOUS
<1>5. \A j \in 1 .. l : k + j \in 1 .. c /\ a + (k + j) - 1 = b + j - 1
      OBVIOUS
<1>6. /\ SubSeq(r, 1, k) \in Seq(Objects) /\ Len(SubSeq(r, 1, k)) = k
      /\ \A j \in 1 .. k : SubSeq(r, 1, k)[j] = r[j]
      /\ SubSeq(r, k + 1, Len(r)) \in Seq(Objects)
      /\ Len(SubSeq(r, k + 1, Len(r))) = Len(r) - k
      /\ \A j \in 1 .. (Len(r) - k) : SubSeq(r, k + 1, Len(r))[j] = r[k + j]
  <2>1. r \in Seq(Objects) /\ k <= Len(r)
        BY <1>1
  <2> QED BY <2>1, Parts
<1>7. SubSeq(r, 1, k) = x
  <2> DEFINE z == SubSeq(r, 1, k)
  <2>1. z \in Seq(Objects) /\ x \in Seq(Objects) /\ Len(z) = Len(x)
        BY <1>2, <1>6
  <2>2. Len(z) = k /\ \A j \in 1 .. k : z[j] = r[j]
        BY <1>6
  <2> HIDE DEF z
  <2>3. ASSUME NEW j \in 1 .. Len(z) PROVE z[j] = x[j]
    <3>1. j \in 1 .. k /\ z[j] = r[j]
          BY <2>2
    <3>2. r[j] = f[(a + j - 1) % Size]
          BY <1>1, <1>4, <3>1
    <3> QED BY <1>2, <3>1, <3>2
  <2>4. z = x
        BY <2>1, <2>3, SeqEqual
  <2> QED BY <2>4 DEF z
<1>8. SubSeq(r, k + 1, Len(r)) = y
  <2> DEFINE z == SubSeq(r, k + 1, Len(r))
  <2>1. Len(r) - k = l
        BY <1>1
  <2>2. z \in Seq(Objects) /\ y \in Seq(Objects) /\ Len(z) = Len(y) /\ Len(z) = l
        BY <1>3, <1>6, <2>1
  <2>3. \A j \in 1 .. l : z[j] = r[k + j]
        BY <1>6, <2>1
  <2> HIDE DEF z
  <2>4. ASSUME NEW j \in 1 .. Len(z) PROVE z[j] = y[j]
    <3>1. j \in 1 .. l /\ z[j] = r[k + j]
          BY <2>2, <2>3
    <3>2. r[k + j] = f[(a + (k + j) - 1) % Size]
          BY <1>1, <1>5, <3>1
    <3>3. a + (k + j) - 1 = b + j - 1
          BY <1>5, <3>1
    <3> QED BY <1>3, <3>1, <3>2, <3>3
  <2>5. z = y
        BY <2>2, <2>4, SeqEqual
  <2> QED BY <2>5 DEF z
<1>9. r = x \o y
  <2>0. x \in Seq(Objects) /\ y \in Seq(Objects)
        BY <1>2, <1>3
  <2>1. /\ x \o y \in Seq(Objects) /\ Len(x \o y) = Len(x) + Len(y)
        /\ \A j \in 1 .. (Len(x) + Len(y)) :
             (x \o y)[j] = IF j <= Len(x) THEN x[j] ELSE y[j - Len(x)]
        BY <2>0, ConcatProperties
  <2> DEFINE z == x \o y
  <2>2. /\ z \in Seq(Objects) /\ Len(z) = c
        /\ \A j \in 1 .. c : z[j] = IF j <= k THEN x[j] ELSE y[j - k]
        BY <1>2, <1>3, <2>1
  <2> HIDE DEF z
  <2>3. ASSUME NEW j \in 1 .. Len(r) PROVE r[j] = z[j]
    <3>0. j \in 1 .. c /\ r[j] = f[(a + j - 1) % Size]
          BY <1>1
    <3>1. CASE j <= k
      <4>1. j \in 1 .. k /\ z[j] = x[j]
            BY <2>2, <3>0, <3>1
      <4> QED BY <1>2, <3>0, <4>1
    <3>2. CASE ~(j <= k)
      <4>1. j - k \in 1 .. l /\ z[j] = y[j - k] /\ b + (j - k) - 1 = a + j - 1
            BY <2>2, <3>0, <3>2
      <4>2. y[j - k] = f[(b + (j - k) - 1) % Size]
            BY <1>3, <4>1
      <4> QED BY <3>0, <4>1, <4>2
    <3> QED BY <3>1, <3>2
  <2>4. r = z
        BY <1>1, <2>2, <2>3, SeqEqual
  <2> QED BY <2>4 DEF z
<1> QED BY <1>7, <1>8, <1>9 DEF r, x, y, Splits

\* The hands of the others.
LEMMA OthersHands ==
  ASSUME NEW g \in Positions, NEW t \in Threads, Good(g), Only(t),
         \/ ring' = ring
         \/ /\ pc[t] \in Puts \cup Gets
            /\ \A s \in Slots \ Slice(t) : ring'[s] = ring[s]
  PROVE  \A u \in Threads \ {t} : Hand'[u] = Hand[u]
<1> TAKE u \in Threads \ {t}
<1>1. pc'[u] = pc[u] /\ n'[u] = n[u] /\ old_head'[u] = old_head[u] /\ held'[u] = held[u]
      BY DEF Only
<1>2. CASE pc[u] # "c_copy"
      BY <1>1, <1>2 DEF Hand
<1>3. CASE pc[u] = "c_copy"
  <2>1. \A j \in 1 .. n[u] : ring'[Slot(old_head[u], j)] = ring[Slot(old_head[u], j)]
    <3>1. CASE ring' = ring
          BY <3>1
    <3>2. CASE pc[t] \in Puts \cup Gets /\ \A s \in Slots \ Slice(t) : ring'[s] = ring[s]
      <4>1. pc[u] \in Puts \cup Gets
            BY <1>3 DEF Gets
      <4>2. \A j \in 1 .. n[u] :
              ring'[(g.oh[u] + j - 1) % Size] = ring[(g.oh[u] + j - 1) % Size]
            BY <3>2, <4>1, OthersSlots
      <4>3. \A j \in 1 .. n[u] : Slot(old_head[u], j) = (g.oh[u] + j - 1) % Size
            BY <4>1, SliceOf
      <4> QED BY <4>2, <4>3
    <3> QED BY <3>1, <3>2
  <2>2. Content(old_head[u], n[u])' = Content(old_head[u], n[u])
        BY <1>1, <2>1 DEF Content, Slot
  <2> QED BY <1>1, <1>3, <2>2 DEF Hand
<1> QED BY <1>2, <1>3

\* The queue is where it was.
LEMMA QueueStays ==
  ASSUME NEW g \in Positions, NEW t \in Threads, Good(g),
         cons'.head = cons.head, prod'.tail = prod.tail,
         \/ ring' = ring
         \/ /\ pc[t] \in Puts \cup Gets
            /\ \A s \in Slots \ Slice(t) : ring'[s] = ring[s]
  PROVE  Fifo' = Fifo
<1> DEFINE k == (prod.tail - cons.head) % IndexMod
<1>1. k = g.pt - g.ch /\ cons.head = g.ch % IndexMod /\ g.ch \in Nat /\ g.pt \in Nat
      BY FifoLength, PositionTypes DEF Good, Linked
<1>2. \A j \in 1 .. k : ring'[Slot(cons.head, j)] = ring[Slot(cons.head, j)]
  <2>1. CASE ring' = ring
        BY <2>1
  <2>2. CASE pc[t] \in Puts \cup Gets /\ \A s \in Slots \ Slice(t) : ring'[s] = ring[s]
    <3>1. \A p \in g.ch .. (g.pt - 1) : ring'[p % Size] = ring[p % Size]
          BY <2>2, OthersSlots
    <3> HIDE DEF k
    <3> TAKE j \in 1 .. k
    <3>2. j \in Int /\ g.ch + j - 1 \in g.ch .. (g.pt - 1)
          BY <1>1
    <3>3. Slot(cons.head, j) = (g.ch + j - 1) % Size
          BY <1>1, <3>2, SlotOf
    <3> QED BY <3>1, <3>2, <3>3
  <2> QED BY <2>1, <2>2
<1> QED BY <1>2 DEF Fifo, Content, Slot

LEMMA NothingMoves ==
  ASSUME NEW g \in Positions, NEW t \in Threads, Good(g), Only(t),
         cons'.head = cons.head, prod'.tail = prod.tail,
         \/ ring' = ring
         \/ /\ pc[t] \in Puts \cup Gets
            /\ \A s \in Slots \ Slice(t) : ring'[s] = ring[s],
         Hand'[t] = Hand[t]
  PROVE  Fifo' = Fifo /\ Hand' = Hand
<1>1. Fifo' = Fifo
      BY QueueStays
<1>2. \A u \in Threads \ {t} : Hand'[u] = Hand[u]
      BY OthersHands
<1>3. \A u \in Threads : Hand'[u] = Hand[u]
      BY <1>2
<1>4. Hand' = [u \in Threads |-> Hand'[u]] /\ Hand = [u \in Threads |-> Hand[u]]
      BY DEF Hand
<1>5. Hand' = Hand
      BY <1>3, <1>4
<1> QED BY <1>1, <1>5

\* A thread that copies nothing out holds what it held.
LEMMA SameHand ==
  ASSUME NEW t \in Threads, pc[t] # "c_copy", pc'[t] # "c_copy", held'[t] = held[t]
  PROVE  Hand'[t] = Hand[t]
BY DEF Hand

LEMMA StartIsQuiet ==
  ASSUME NEW g \in Positions, NEW t \in Threads, Good(g), StartEnqueue(t) \/ StartDequeue(t)
  PROVE  Fifo' = Fifo /\ Hand' = Hand
<1>1. /\ Only(t) /\ UNCHANGED <<prod, cons, ring, held>>
      /\ pc[t] # "c_copy" /\ pc'[t] # "c_copy"
      BY DEF StartEnqueue, StartDequeue, Goto, Only, Good, RingTypeOK
<1>2. Hand'[t] = Hand[t]
      BY <1>1, SameHand
<1> QED BY <1>1, <1>2, NothingMoves

LEMMA ReadIsQuiet ==
  ASSUME NEW g \in Positions, NEW t \in Threads, Good(g),
         \/ ReadProdHead(t) \/ ReadConsHead(t) \/ ReadProdTail(t)
         \/ ReadConsTail(t) /\ n[t] <= free_entries(t)
  PROVE  Fifo' = Fifo /\ Hand' = Hand
<1>1. /\ Only(t) /\ UNCHANGED <<prod, cons, ring, held>>
      /\ pc[t] # "c_copy" /\ pc'[t] # "c_copy"
      BY DEF ReadProdHead, ReadConsHead, ReadProdTail, ReadConsTail, Goto, Only, Good, RingTypeOK
<1>2. Hand'[t] = Hand[t]
      BY <1>1, SameHand
<1> QED BY <1>1, <1>2, NothingMoves

LEMMA BackIsQuiet ==
  ASSUME NEW g \in Positions, NEW t \in Threads, Good(g),
         RetryProdHead(t) \/ RetryConsHead(t) \/ DequeueFails(t)
  PROVE  Fifo' = Fifo /\ Hand' = Hand
<1>1. /\ Only(t) /\ UNCHANGED <<prod, cons, ring, held>>
      /\ pc[t] # "c_copy" /\ pc'[t] # "c_copy"
      BY DEF RetryProdHead, RetryConsHead, DequeueFails, Return, Goto, Only, Good, RingTypeOK
<1>2. Hand'[t] = Hand[t]
      BY <1>1, SameHand
<1> QED BY <1>1, <1>2, NothingMoves

\* An enqueue reserves its slots, and fills them, unseen.
LEMMA ReserveIsQuiet ==
  ASSUME NEW g \in Positions, NEW t \in Threads, Good(g), MoveProdHead(t) \/ EnqueueElems(t)
  PROVE  Fifo' = Fifo /\ Hand' = Hand
<1>1. /\ Only(t) /\ UNCHANGED <<cons, held>> /\ prod'.tail = prod.tail
      /\ pc[t] # "c_copy" /\ pc'[t] # "c_copy"
      BY DEF MoveProdHead, EnqueueElems, Goto, Only, Good, RingTypeOK, HeadTail
<1>2. Hand'[t] = Hand[t]
      BY <1>1, SameHand
<1>3. CASE MoveProdHead(t)
  <2>1. ring' = ring
        BY <1>3 DEF MoveProdHead
  <2> QED BY <1>1, <1>2, <2>1, NothingMoves
<1>4. CASE EnqueueElems(t)
  <2>1. \A s \in Slots \ Slice(t) : ring'[s] = ring[s]
        BY <1>4, EnqueueWrites
  <2>2. pc[t] \in Puts \cup Gets
        BY <1>4 DEF EnqueueElems, Goto, Puts
  <2> QED BY <1>1, <1>2, <2>1, <2>2, NothingMoves
<1> QED BY <1>3, <1>4

\* A dequeue copies what it already has, and releases slots that it has read.
LEMMA ReleaseIsQuiet ==
  ASSUME NEW g \in Positions, NEW t \in Threads, Good(g), DequeueElems(t) \/ UpdateConsTail(t)
  PROVE  Fifo' = Fifo /\ Hand' = Hand
<1>1. Only(t) /\ prod' = prod /\ cons'.head = cons.head
      BY DEF DequeueElems, UpdateConsTail, Return, Goto, Only, Good, RingTypeOK, HeadTail
<1>2. CASE DequeueElems(t)
  <2>1. /\ ring' = ring /\ pc[t] = "c_copy" /\ pc'[t] = "c_wait"
        /\ held'[t] = held[t] \o Content(old_head[t], n[t])
        BY <1>2 DEF DequeueElems, Goto, Good, RingTypeOK
  <2>2. Hand'[t] = Hand[t]
        BY <2>1 DEF Hand
  <2> QED BY <1>1, <2>1, <2>2, NothingMoves
<1>3. CASE UpdateConsTail(t)
  <2>1. /\ held' = held /\ pc[t] = "c_wait" /\ pc'[t] = "idle"
        /\ \A s \in Slots \ Slice(t) : ring'[s] = ring[s]
        BY <1>3 DEF UpdateConsTail, Return, Goto, Good, RingTypeOK
  <2>2. Hand'[t] = Hand[t]
        BY <2>1, SameHand
  <2>3. pc[t] \in Puts \cup Gets
        BY <2>1 DEF Gets
  <2> QED BY <1>1, <2>1, <2>2, <2>3, NothingMoves
<1> QED BY <1>2, <1>3

\* An enqueue takes effect when it moves the tail.
LEMMA PutTakesEffect ==
  ASSUME NEW g \in Positions, NEW t \in Threads, Good(g), UpdateProdTail(t)
  PROVE  /\ n[t] \in 1 .. Len(Hand[t])
         /\ Atomic!Put(t, n[t])
<1>0. PICK m \in Nat : m = n[t]
      BY HandIs
<1>1. /\ pc[t] = "p_wait" /\ pc'[t] = "idle" /\ prod.tail = old_head[t]
      /\ prod'.tail = new_head(t) /\ cons' = cons /\ ring' = ring
      /\ Only(t)
      /\ held'[t] = SubSeq(held[t], 1, Len(held[t]) - m)
      BY <1>0 DEF UpdateProdTail, Return, Goto, Kept, Only, Good, RingTypeOK, HeadTail
<1>2. /\ g.pt \in Nat /\ g.ch \in Nat /\ g.ch <= g.pt /\ g.oh[t] \in Nat
      /\ cons.head = g.ch % IndexMod /\ prod.tail = g.pt % IndexMod
      BY PositionTypes DEF Good, Linked, Ordered
<1>3. g.oh[t] = g.pt
      BY <1>1, FirstInFlight DEF Puts
<1>4. /\ m \in 1 .. MaxBulk /\ m <= Len(held[t]) /\ held[t] \in Seq(Objects)
      /\ \A k \in 1 .. m : ring[(g.oh[t] + k - 1) % Size] = held[t][Len(held[t]) - m + k]
      BY <1>0, <1>1 DEF Good, ThreadOK, Bulk, Copied, Putting, RingTypeOK
<1> DEFINE s == held[t]
           b == SubSeq(s, Len(s) - m + 1, Len(s))
           l == g.pt - g.ch
<1>5. /\ Len(s) \in Nat /\ b \in Seq(Objects) /\ Len(b) = m
      /\ \A k \in 1 .. m : b[k] = s[Len(s) - m + k]
      BY <1>4, Ends
<1>6. Run(ring, g.pt, m) = b
  <2> DEFINE r == Run(ring, g.pt, m)
  <2>1. \A k \in 1 .. m : ring[(g.pt + k - 1) % Size] = b[k]
        BY <1>3, <1>4, <1>5
  <2>2. \A k \in 1 .. m : b[k] \in Objects
        BY <1>5
  <2> HIDE DEF b
  <2>3. r \in Seq(Objects) /\ Len(r) = m /\ \A k \in 1 .. m : r[k] = b[k]
        BY <2>1, <2>2 DEF Run
  <2> HIDE DEF r
  <2>4. r = b
        BY <1>5, <2>3, SeqEqual
  <2> QED BY <2>4 DEF r
<1>7. /\ Fifo = Run(ring, g.ch, l) /\ l \in Nat /\ g.ch + l = g.pt
      /\ Fifo \in Seq(Objects) /\ Len(Fifo) = l
      /\ \A j \in 1 .. l : Fifo[j] = ring[(g.ch + j - 1) % Size]
      BY <1>2, FifoIs
<1>8. Fifo' = Run(ring, g.ch, l + m)
  <2>1. new_head(t) = (g.pt + m) % IndexMod
        BY <1>0, <1>1, <1>3, MovedIndex DEF Begun
  <2>2. g.pt + m - g.ch <= Capacity
    <3>1. g.oh[t] + n[t] <= g.ph /\ g.ph <= g.ct + Capacity /\ g.ct <= g.ch
          BY <1>1 DEF Good, Flight, Within, Ordered, Puts
    <3>2. g.ph \in Nat /\ g.ct \in Nat /\ Capacity \in Nat
          BY PositionTypes, Sizes
    <3> QED BY <1>0, <1>2, <1>3, <3>1, <3>2
  <2>3. g.ch <= g.pt + m /\ g.pt + m - g.ch < IndexMod /\ g.pt + m \in Nat
        /\ g.pt + m - g.ch = l + m
        BY <1>2, <2>2, Sizes
  <2>4. (prod'.tail - cons'.head) % IndexMod = l + m
        BY <1>1, <1>2, <2>1, <2>3, Distance
  <2>5. cons'.head = g.ch % IndexMod
        BY <1>1, <1>2
  <2>6. l + m \in Nat
        BY <1>7
  <2> HIDE DEF l
  <2>7. Fifo' = [j \in 1 .. (l + m) |-> ring'[Slot(g.ch % IndexMod, j)]]
        BY <2>4, <2>5 DEF Fifo, Content, Slot
  <2>8. Content(g.ch % IndexMod, l + m) = Run(ring, g.ch, l + m)
        BY <1>2, <2>6, ContentIs
  <2> QED BY <1>1, <2>7, <2>8 DEF Content
<1>9. Run(ring, g.ch, l + m) = Run(ring, g.ch, l) \o Run(ring, g.pt, m)
  <2> HIDE DEF l
  <2>1. ASSUME NEW j \in 1 .. (l + m) PROVE ring[(g.ch + j - 1) % Size] \in Objects
    <3>1. CASE j \in 1 .. l
      <4>1. Fifo[j] \in Objects
            BY <1>7, <3>1
      <4> QED BY <1>7, <3>1, <4>1
    <3>2. CASE j \notin 1 .. l
      <4>1. j - l \in 1 .. m /\ g.pt + (j - l) - 1 = g.ch + j - 1
            BY <1>2, <1>7, <3>2
      <4>2. ring[(g.pt + (j - l) - 1) % Size] = s[Len(s) - m + (j - l)]
            BY <1>3, <1>4, <4>1
      <4>3. Len(s) - m + (j - l) \in 1 .. Len(s)
            BY <1>4, <1>5, <1>7, <4>1
      <4>4. s[Len(s) - m + (j - l)] \in Objects
            BY <1>4, <4>3
      <4> QED BY <4>1, <4>2, <4>4
    <3> QED BY <3>1, <3>2
  <2>2. g.ch + l = g.pt
        BY <1>7
  <2>3. Run(ring, g.ch, l + m) = Run(ring, g.ch, l) \o Run(ring, g.pt, m)
    <3>1. g.ch \in Nat /\ l \in Nat
          BY <1>2, <1>7
    <3>2. \A j \in 1 .. (l + m) : ring[(g.ch + j - 1) % Size] \in Objects
          BY <2>1
    <3>3. PICK a \in Nat, e \in Nat, k \in Nat, c \in Nat :
            a = g.ch /\ e = g.pt /\ k = l /\ c = l + m
          BY <1>2, <3>1
    <3>4. e = a + k /\ c = k + m
          BY <2>2, <3>3
    <3>5. \A j \in 1 .. c : ring[(a + j - 1) % Size] \in Objects
          BY <3>2, <3>3
    <3>6. Splits(ring, a, k, e, m, c)
          BY <3>4, <3>5, RunSplit
    <3> QED BY <3>3, <3>6 DEF Splits
  <2> QED BY <2>3
<1>10. Hand[t] = s /\ Hand'[t] = SubSeq(s, 1, Len(s) - m)
       BY <1>1 DEF Hand
<1>11. Hand' = [Hand EXCEPT ![t] = SubSeq(s, 1, Len(s) - m)]
  <2>1. \A u \in Threads \ {t} : Hand'[u] = Hand[u]
        BY <1>1, OthersHands
  <2>2. Hand' = [u \in Threads |-> Hand'[u]] /\ Hand = [u \in Threads |-> Hand[u]]
        BY DEF Hand
  <2> HIDE DEF s
  <2> QED BY <1>10, <2>1, <2>2
<1>12. Fifo' = Fifo \o b
       BY <1>6, <1>7, <1>8, <1>9
<1>13. m \in 1 .. Len(s)
       BY <1>4, <1>5
<1> HIDE DEF l
<1>14. Fifo' = Fifo \o SubSeq(Hand[t], (Len(Hand[t]) - m) + 1, Len(Hand[t]))
       BY <1>10, <1>12
<1>15. Hand' = [Hand EXCEPT ![t] = SubSeq(Hand[t], 1, Len(Hand[t]) - m)]
       BY <1>10, <1>11
<1> HIDE DEF s, b
<1>16. Atomic!Put(t, m)
       BY <1>14, <1>15 DEF Atomic!Put, Atomic!Rest, Atomic!Front
<1>17. m \in 1 .. Len(Hand[t])
       BY <1>10, <1>13
<1> QED BY <1>0, <1>16, <1>17

\* A dequeue takes effect when it moves the head.
LEMMA GetTakesEffect ==
  ASSUME NEW g \in Positions, NEW t \in Threads, Good(g), MoveConsHead(t)
  PROVE  /\ n[t] \in 1 .. Len(Fifo)
         /\ Atomic!Get(t, n[t])
<1>0. PICK m \in Nat : m = n[t]
      BY HandIs
<1>1. /\ pc[t] = "c_cas" /\ pc'[t] = "c_copy" /\ cons.head = old_head[t]
      /\ cons'.head = new_head(t) /\ prod' = prod /\ ring' = ring
      /\ Only(t) /\ held' = held /\ n'[t] = m /\ old_head'[t] = old_head[t]
      BY <1>0 DEF MoveConsHead, Goto, Only, Good, RingTypeOK, HeadTail
<1>2. PICK a \in Nat, e \in Nat, c \in Nat :
        a = g.ch /\ e = g.ch + m /\ c = g.pt - g.ch
      BY PositionTypes, FifoIs
<1>3. g.oh[t] = a
      BY <1>1, <1>2, HeadUnmoved
<1>4. /\ m \in 1 .. MaxBulk /\ a + m <= g.pt /\ g.pt \in Nat
      /\ prod.tail = g.pt % IndexMod /\ cons.head = a % IndexMod
      BY <1>0, <1>1, <1>2, <1>3, PositionTypes DEF Good, ThreadOK, Bulk, Fits, Linked
<1>5. PICK l \in Nat : c = m + l /\ l = g.pt - e /\ e = a + m
      BY <1>2, <1>4
<1>6. /\ Fifo = Run(ring, a, c) /\ Len(Fifo) = c /\ Fifo \in Seq(Objects)
      /\ \A j \in 1 .. c : ring[(a + j - 1) % Size] = Fifo[j]
      BY <1>2, FifoIs
<1>7. Splits(ring, a, m, e, l, c)
  <2>1. ASSUME NEW j \in 1 .. c PROVE ring[(a + j - 1) % Size] \in Objects
    <3>1. Fifo[j] \in Objects
          BY <1>6
    <3> QED BY <1>6, <3>1
  <2> QED BY <1>5, <2>1, RunSplit
<1>8. Fifo' = Run(ring, e, l)
  <2>1. new_head(t) = e % IndexMod
        BY <1>0, <1>1, <1>3, <1>5, MovedIndex DEF Begun
  <2>2. c < IndexMod
    <3>1. g.pt <= g.ph /\ g.ph <= g.ct + Capacity /\ g.ct <= g.ch
          BY DEF Good, Ordered
    <3>2. g.ph \in Nat /\ g.ct \in Nat /\ g.ch \in Nat
          BY PositionTypes
    <3> QED BY <1>2, <1>4, <3>1, <3>2, Sizes
  <2>3. e <= g.pt /\ g.pt - e < IndexMod
        BY <1>2, <1>4, <1>5, <2>2, Sizes
  <2>4. ((g.pt % IndexMod) - (e % IndexMod)) % IndexMod = g.pt - e
        BY <1>4, <2>3, Distance
  <2>5. cons'.head = e % IndexMod /\ (prod'.tail - cons'.head) % IndexMod = l
        BY <1>1, <1>4, <1>5, <2>1, <2>4
  <2>6. Fifo' = [j \in 1 .. l |-> ring'[Slot(e % IndexMod, j)]]
        BY <2>5 DEF Fifo, Content, Slot
  <2>7. Content(e % IndexMod, l) = Run(ring, e, l)
        BY ContentIs
  <2> QED BY <1>1, <2>6, <2>7 DEF Content
<1>9. Hand[t] = held[t] /\ Hand'[t] = held[t] \o Run(ring, a, m)
  <2>1. Hand'[t] = held'[t] \o [j \in 1 .. n'[t] |-> ring'[Slot(old_head'[t], j)]]
        BY <1>1 DEF Hand, Content, Slot
  <2>2. Content(a % IndexMod, m) = Run(ring, a, m)
        BY ContentIs
  <2>3. Hand'[t] = held[t] \o Content(a % IndexMod, m)
        BY <1>1, <1>4, <2>1 DEF Content
  <2> QED BY <1>1, <2>2, <2>3 DEF Hand
<1>10. Hand' = [Hand EXCEPT ![t] = Hand[t] \o Run(ring, a, m)]
  <2>1. \A u \in Threads \ {t} : Hand'[u] = Hand[u]
        BY <1>1, OthersHands
  <2>2. Hand' = [u \in Threads |-> Hand'[u]] /\ Hand = [u \in Threads |-> Hand[u]]
        BY DEF Hand
  <2> QED BY <1>9, <2>1, <2>2
<1>11. SubSeq(Fifo, 1, m) = Run(ring, a, m) /\ SubSeq(Fifo, m + 1, Len(Fifo)) = Run(ring, e, l)
       BY <1>6, <1>7 DEF Splits
<1>12. Hand' = [Hand EXCEPT ![t] = Hand[t] \o SubSeq(Fifo, 1, m)]
       BY <1>10, <1>11
<1>13. Fifo' = SubSeq(Fifo, m + 1, Len(Fifo))
       BY <1>8, <1>11
<1>14. Atomic!Get(t, m)
       BY <1>12, <1>13 DEF Atomic!Get, Atomic!Rest, Atomic!Front
<1>15. m \in 1 .. Len(Fifo)
       BY <1>4, <1>5, <1>6
<1> QED BY <1>0, <1>14, <1>15

-----------------------------------------------------------------------------
(***************************************************************************)
(* The invariant holds, and every step is a step of the atomic queue.      *)
(***************************************************************************)

RingInv == \E g \in Positions : Good(g) /\ Once(Fifo, Hand)

\* What one step must show: the invariant is kept, and the step is allowed.
Fine == RingInv' /\ [Atomic!Next]_<<Fifo, Hand>>

LEMMA QuietIsFine ==
  ASSUME Fifo' = Fifo, Hand' = Hand, Once(Fifo, Hand), NEW h \in Positions, Good(h)'
  PROVE  Fine
<1>1. Once(Fifo, Hand)'
      BY DEF Once
<1>2. RingInv'
      BY <1>1 DEF RingInv
<1> QED BY <1>2 DEF Fine

LEMMA HandsAre ==
  ASSUME NEW g \in Positions, Good(g)
  PROVE  Hand \in [Threads -> Seq(Objects)]
<1>1. \A t \in Threads : Hand[t] \in Seq(Objects)
      BY HandIs
<1>2. Hand = [t \in Threads |-> Hand[t]]
      BY DEF Hand
<1> QED BY <1>1, <1>2

LEMMA PutIsFine ==
  ASSUME NEW g \in Positions, NEW t \in Threads, Good(g), Once(Fifo, Hand), UpdateProdTail(t)
  PROVE  Fine
<1>1. PICK m \in Nat : m = n[t]
      BY HandIs
<1>2. m \in 1 .. Len(Hand[t]) /\ Atomic!Put(t, m)
      BY <1>1, PutTakesEffect
<1>3. /\ Fifo' = Fifo \o SubSeq(Hand[t], (Len(Hand[t]) - m) + 1, Len(Hand[t]))
      /\ Hand' = [Hand EXCEPT ![t] = SubSeq(Hand[t], 1, Len(Hand[t]) - m)]
      BY <1>2 DEF Atomic!Put, Atomic!Rest, Atomic!Front
<1>4. Fifo \in Seq(Objects) /\ Hand \in [Threads -> Seq(Objects)]
      BY FifoIs, HandsAre
<1>5. m <= Len(Hand[t])
      BY <1>2
<1>6. Once(Fifo \o SubSeq(Hand[t], (Len(Hand[t]) - m) + 1, Len(Hand[t])),
           [Hand EXCEPT ![t] = SubSeq(Hand[t], 1, Len(Hand[t]) - m)])
      BY <1>4, <1>5, PutOnce
<1>7. Once(Fifo', Hand')
      BY <1>3, <1>6
<1>8. PICK h \in Positions : Good(h)'
      BY ProdTailKeeps
<1>9. RingInv'
      BY <1>7, <1>8 DEF RingInv, Once
<1>10. Atomic!Next
       BY <1>2 DEF Atomic!Next
<1> QED BY <1>9, <1>10 DEF Fine

LEMMA GetIsFine ==
  ASSUME NEW g \in Positions, NEW t \in Threads, Good(g), Once(Fifo, Hand), MoveConsHead(t)
  PROVE  Fine
<1>1. PICK m \in Nat : m = n[t]
      BY HandIs
<1>2. m \in 1 .. Len(Fifo) /\ Atomic!Get(t, m)
      BY <1>1, GetTakesEffect
<1>3. /\ Fifo' = SubSeq(Fifo, m + 1, Len(Fifo))
      /\ Hand' = [Hand EXCEPT ![t] = Hand[t] \o SubSeq(Fifo, 1, m)]
      BY <1>2 DEF Atomic!Get, Atomic!Rest, Atomic!Front
<1>4. Fifo \in Seq(Objects) /\ Hand \in [Threads -> Seq(Objects)]
      BY FifoIs, HandsAre
<1>5. m <= Len(Fifo)
      BY <1>2
<1>6. Once(SubSeq(Fifo, m + 1, Len(Fifo)),
           [Hand EXCEPT ![t] = Hand[t] \o SubSeq(Fifo, 1, m)])
      BY <1>4, <1>5, GetOnce
<1>7. Once(Fifo', Hand')
      BY <1>3, <1>6
<1>8. PICK h \in Positions : Good(h)'
      BY MoveConsKeeps
<1>9. RingInv'
      BY <1>7, <1>8 DEF RingInv, Once
<1>10. Atomic!Next
       BY <1>2 DEF Atomic!Next
<1> QED BY <1>9, <1>10 DEF Fine

LEMMA EveryStep ==
  ASSUME RingInv, [Next]_vars
  PROVE  Fine
<1> PICK g \in Positions : Good(g) /\ Once(Fifo, Hand)
    BY DEF RingInv
<1>1. CASE UNCHANGED vars
  <2>1. Good(g)'
        BY <1>1 DEF vars, Good, RingTypeOK, Linked, Ordered, ThreadOK, Read, Fits, Bulk,
                    Copied, Flight, Within, Disjoint, Covered, Stored
  <2>2. Fifo' = Fifo /\ Hand' = Hand
        BY <1>1 DEF vars, Fifo, Hand, Content, Slot
  <2> QED BY <2>1, <2>2, QuietIsFine
<1>2. ASSUME NEW t \in Threads, StartEnqueue(t) \/ StartDequeue(t) \/ Step(t)
      PROVE  Fine
  <2>1. CASE StartEnqueue(t) \/ StartDequeue(t)
        BY <2>1, StartKeeps, StartIsQuiet, QuietIsFine
  <2>2. CASE ReadProdHead(t) \/ ReadConsHead(t)
    <3>1. PICK h \in Positions : Good(h)'
          BY <2>2, ReadKeeps
    <3> QED BY <2>2, <3>1, ReadIsQuiet, QuietIsFine
  <2>3. CASE ReadConsTail(t)
    <3>1. n[t] <= free_entries(t)
      <4>1. pc[t] = "p_tail"
            BY <2>3 DEF ReadConsTail, Return, Goto
      <4> QED BY <4>1, RoomIsSeen
    <3> QED BY <2>3, <3>1, CheckKeeps, ReadIsQuiet, QuietIsFine
  <2>4. CASE ReadProdTail(t)
        BY <2>4, CheckKeeps, ReadIsQuiet, QuietIsFine
  <2>5. CASE RetryProdHead(t) \/ RetryConsHead(t) \/ DequeueFails(t)
        BY <2>5, BackKeeps, BackIsQuiet, QuietIsFine
  <2>6. CASE MoveProdHead(t)
    <3>1. PICK h \in Positions : Good(h)'
          BY <2>6, MoveProdKeeps
    <3> QED BY <2>6, <3>1, ReserveIsQuiet, QuietIsFine
  <2>7. CASE EnqueueElems(t)
        BY <2>7, EnqueueKeeps, ReserveIsQuiet, QuietIsFine
  <2>8. CASE UpdateProdTail(t)
        BY <2>8, PutIsFine
  <2>9. CASE MoveConsHead(t)
        BY <2>9, GetIsFine
  <2>10. CASE DequeueElems(t)
         BY <2>10, DequeueKeeps, ReleaseIsQuiet, QuietIsFine
  <2>11. CASE UpdateConsTail(t)
    <3>1. PICK h \in Positions : Good(h)'
          BY <2>11, ConsTailKeeps
    <3> QED BY <2>11, <3>1, ReleaseIsQuiet, QuietIsFine
  <2> QED BY <1>2, <2>1, <2>2, <2>3, <2>4, <2>5, <2>6, <2>7, <2>8, <2>9, <2>10, <2>11
          DEF Step
<1> QED BY <1>1, <1>2 DEF Next

\* The pool is populated with each of its objects once.
LEMMA PopulatedOnce ==
  /\ Populated \in [1 .. NumObjects -> Objects]
  /\ \A j, k \in 1 .. NumObjects : j # k => Populated[j] # Populated[k]
<1>1. ExistsBijection(1 .. NumObjects, Objects)
      BY RingAssumption, FS_CardinalityType DEF NumObjects
<1>2. \E s \in [1 .. NumObjects -> Objects] :
         \A j, k \in 1 .. NumObjects : j # k => s[j] # s[k]
  <2>1. PICK s : s \in Bijection(1 .. NumObjects, Objects)
        BY <1>1 DEF ExistsBijection
  <2>2. s \in [1 .. NumObjects -> Objects] /\ IsInjective(s)
        BY <2>1 DEF Bijection, Injection
  <2> QED BY <2>2 DEF IsInjective
<1> QED BY <1>2 DEF Populated

LEMMA Small ==
  ASSUME NEW p \in 0 .. Capacity
  PROVE  p % Size = p /\ p % IndexMod = p
<1>1. p \in Nat /\ p < Size /\ p < IndexMod
      BY Sizes
<1>2. p % Size = p
  <2>1. p = Size * 0 + p
        BY <1>1, Sizes
  <2> QED BY <1>1, <2>1, Sizes, ModIs
<1>3. p % IndexMod = p
  <2>1. p = IndexMod * 0 + p
        BY <1>1, Sizes
  <2> QED BY <1>1, <2>1, Sizes, ModIs
<1> QED BY <1>2, <1>3

LEMMA InitHolds ==
  ASSUME Init
  PROVE  RingInv /\ Atomic!Init
<1> DEFINE N == NumObjects
           g == [ph |-> N, pt |-> N, ch |-> 0, ct |-> 0, oh |-> [t \in Threads |-> 0]]
<1>1. N \in Nat /\ N \in 0 .. Capacity /\ 0 \in 0 .. Capacity
      BY Sizes
<1>2. N % IndexMod = N /\ 0 % IndexMod = 0
      BY <1>1, Small
<1>3. /\ g \in Positions /\ g.ph = N /\ g.pt = N /\ g.ch = 0 /\ g.ct = 0
      /\ \A t \in Threads : g.oh[t] = 0
      BY <1>1 DEF Positions
<1>4. ASSUME NEW j \in 1 .. N
      PROVE  (0 + j - 1) % Size \in Slots /\ ring[(0 + j - 1) % Size] = Populated[j]
  <2>1. j - 1 \in 0 .. Capacity /\ j - 1 < N /\ 0 + j - 1 = j - 1 /\ (j - 1) + 1 = j
        BY Sizes
  <2>2. (j - 1) % Size = j - 1
        BY <2>1, Small
  <2>3. j - 1 \in Slots
        BY <2>1, Sizes DEF Slots
  <2>4. ring[j - 1] = Populated[(j - 1) + 1]
        BY <2>1, <2>3 DEF Init
  <2> QED BY <2>1, <2>2, <2>3, <2>4
<1>5. RingTypeOK
  <2>1. N \in Indices /\ 0 \in Indices
        BY <1>1, Sizes DEF Indices
  <2>2. prod \in HeadTail /\ cons \in HeadTail
        BY <2>1 DEF HeadTail, Init
  <2>3. ring \in [Slots -> Objects \cup {Dead}]
    <3>1. ASSUME NEW k \in Slots, k < N PROVE Populated[k + 1] \in Objects
      <4>1. k + 1 \in 1 .. N
            BY <1>1, <3>1, Sizes DEF Slots
      <4> QED BY <4>1, PopulatedOnce
    <3> QED BY <3>1 DEF Init
  <2>4. held \in [Threads -> Seq(Objects)]
    <3>1. <<>> \in Seq(Objects)
          OBVIOUS
    <3> QED BY <3>1 DEF Init
  <2>5. 0 \in 0 .. MaxBulk
        BY Sizes
  <2> QED BY <2>1, <2>2, <2>3, <2>4, <2>5 DEF RingTypeOK, Init
<1>6. Linked(g) /\ Ordered(g)
  <2>1. Linked(g)
        BY <1>2, <1>3 DEF Linked, Init
  <2>2. Ordered(g)
        BY <1>1, <1>3, Sizes DEF Ordered
  <2> QED BY <2>1, <2>2
<1>7. Stored(g)
  <2>1. ASSUME NEW p \in 0 .. (N - 1) PROVE ring[p % Size] \in Objects
    <3>1. p + 1 \in 1 .. N /\ 0 + (p + 1) - 1 = p
          BY <1>1
    <3>2. ring[p % Size] = Populated[p + 1]
          BY <1>4, <3>1
    <3> QED BY <3>1, <3>2, PopulatedOnce
  <2> QED BY <1>3, <2>1 DEF Stored
<1>8. \A t \in Threads : pc[t] = "idle"
      BY DEF Init
<1> HIDE DEF g, N
<1>9. \A t \in Threads : ThreadOK(g, t)
      BY <1>8 DEF ThreadOK, Read, Fits, Bulk, Copied, Begun, Putting
<1>10. Flight(g.oh, Puts, g.pt, g.ph) /\ Flight(g.oh, Gets, g.ct, g.ch)
  <2>1. g.pt .. (g.ph - 1) = {} /\ g.ct .. (g.ch - 1) = {}
        BY <1>1, <1>3
  <2> QED BY <1>8, <2>1 DEF Flight, Within, Disjoint, Covered, Puts, Gets
<1>11. Good(g)
       BY <1>5, <1>6, <1>7, <1>9, <1>10 DEF Good
<1>12. /\ Fifo \in Seq(Objects) /\ Len(Fifo) = N
       /\ \A j \in 1 .. N : Fifo[j] = Populated[j]
  <2>1. /\ Fifo \in Seq(Objects) /\ Len(Fifo) = g.pt - g.ch
        /\ \A j \in 1 .. (g.pt - g.ch) : Fifo[j] = ring[(g.ch + j - 1) % Size]
        BY <1>3, <1>11, FifoIs
  <2>2. g.pt - g.ch = N
        BY <1>1, <1>3
  <2>3. \A j \in 1 .. N : Fifo[j] = ring[(0 + j - 1) % Size]
        BY <1>3, <2>1, <2>2
  <2> QED BY <1>4, <2>1, <2>2, <2>3
<1>13. Fifo = Populated
  <2>1. Populated \in Seq(Objects) /\ Len(Populated) = N
        BY <1>1, PopulatedOnce DEF N
  <2> QED BY <1>12, <2>1, SeqEqual
<1>14. Hand = [t \in Threads |-> <<>>]
       BY <1>8 DEF Hand, Init
<1>15. Once(Fifo, Hand)
  <2>1. \A j, k \in 1 .. Len(Fifo) : Fifo[j] = Fifo[k] => j = k
        BY <1>12, PopulatedOnce DEF N
  <2>2. \A t \in Threads : Hand[t] = <<>>
        BY <1>14
  <2>3. \A t \in Threads : \A j \in 1 .. Len(Hand[t]) : FALSE
        BY <2>2
  <2> QED BY <2>1, <2>3 DEF Once
<1>16. RingInv
       BY <1>3, <1>11, <1>15 DEF RingInv
<1>17. Atomic!Init
       BY <1>13, <1>14 DEF Atomic!Init
<1> QED BY <1>16, <1>17

-----------------------------------------------------------------------------
(***************************************************************************)
(* The theorems.  They need no fairness.                                   *)
(***************************************************************************)

\* Who ends an enqueue that was looking for room, or a dequeue that was looking
\* for objects, is the thread itself, as it found none.
LEMMA WhoGivesUp ==
  ASSUME RingTypeOK, [Next]_vars, NEW t \in Threads, pc'[t] = "idle"
  PROVE  /\ pc[t] = "p_tail" => ReadConsTail(t) /\ ~(n[t] <= free_entries(t))
         /\ pc[t] = "c_tail" => DequeueFails(t)
<1>1. CASE UNCHANGED vars
      BY <1>1 DEF vars
<1>2. ASSUME NEW u \in Threads, StartEnqueue(u) \/ StartDequeue(u) \/ Step(u), u # t
      PROVE  pc'[t] = pc[t]
      BY <1>2 DEF StartEnqueue, StartDequeue, Step, Goto, Return, RingTypeOK,
         ReadProdHead, ReadConsTail, MoveProdHead, RetryProdHead, EnqueueElems, UpdateProdTail,
         ReadConsHead, ReadProdTail, DequeueFails, MoveConsHead, RetryConsHead, DequeueElems,
         UpdateConsTail
<1>3. ASSUME StartEnqueue(t) \/ StartDequeue(t) \/ Step(t), pc[t] \in {"p_tail", "c_tail"}
      PROVE  ReadConsTail(t) \/ DequeueFails(t)
      BY <1>3 DEF StartEnqueue, StartDequeue, Step, Goto, Return, RingTypeOK,
         ReadProdHead, MoveProdHead, RetryProdHead, EnqueueElems, UpdateProdTail,
         ReadConsHead, ReadProdTail, MoveConsHead, RetryConsHead, DequeueElems,
         UpdateConsTail
<1>4. /\ ReadConsTail(t) => pc[t] = "p_tail" /\ ~(n[t] <= free_entries(t))
      /\ DequeueFails(t) => pc[t] = "c_tail"
      BY DEF ReadConsTail, DequeueFails, Return, Goto, RingTypeOK
<1>5. CASE Next
  <2>1. PICK u \in Threads : StartEnqueue(u) \/ StartDequeue(u) \/ Step(u)
        BY <1>5 DEF Next
  <2>2. CASE u # t
        BY <1>2, <2>1, <2>2
  <2>3. CASE u = t
        BY <1>3, <1>4, <2>1, <2>3
  <2> QED BY <2>2, <2>3
<1> QED BY <1>1, <1>5

\* Behind the wrapping indices stand positions that never wrap, and no object is
\* twice in the ring and the caches.
THEOREM RingInvariant == Spec => []RingInv
<1>1. Init => RingInv
      BY InitHolds
<1>2. RingInv /\ [Next]_vars => RingInv'
      BY EveryStep DEF Fine
<1> QED BY <1>1, <1>2, PTL DEF Spec

\* The indices stay in their range, a slot holds an object or is free to be
\* written, and what a thread holds are objects.
THEOREM RingTypeCorrect == Spec => []RingTypeOK
<1>1. RingInv => RingTypeOK
      BY DEF RingInv, Good
<1> QED BY <1>1, RingInvariant, PTL

\* The lock-free ring is one atomic queue: every step of enqueue and dequeue is a
\* put, a get, or nothing that a user of the ring can see.
THEOREM RingIsAtomic == Spec => ImplementsFifo
<1>1. Init => Atomic!Init
      BY InitHolds
<1>2. RingInv /\ [Next]_vars => [Atomic!Next]_<<Fifo, Hand>>
      BY EveryStep DEF Fine
<1> QED BY <1>1, <1>2, RingInvariant, PTL DEF Spec, ImplementsFifo, Atomic!Spec

\* An enqueue of the pool, whose result nobody looks at, never fails.
THEOREM PutsSucceed == Spec => PutAlwaysSucceeds
<1>1. RingInv /\ [Next]_vars => \A t \in Threads : pc[t] = "p_tail" => pc'[t] # "idle"
  <2> SUFFICES ASSUME RingInv, [Next]_vars, NEW t \in Threads,
                      pc[t] = "p_tail", pc'[t] = "idle"
               PROVE  FALSE
      OBVIOUS
  <2>1. PICK g \in Positions : Good(g) /\ Once(Fifo, Hand)
        BY DEF RingInv
  <2>2. n[t] <= free_entries(t)
        BY <2>1, RoomIsSeen
  <2>3. RingTypeOK
        BY <2>1 DEF Good
  <2> QED BY <2>2, <2>3, WhoGivesUp
<1> QED BY <1>1, RingInvariant, PTL DEF Spec, PutAlwaysSucceeds

\* A dequeue that fails, though it counts from a head it read earlier, is right:
\* there are fewer objects in the ring than it asked for.
THEOREM FailedGetsAreRight == Spec => FailedGetSawTooFew
<1>1. RingInv /\ [Next]_vars =>
        \A t \in Threads : pc[t] = "c_tail" /\ pc'[t] = "idle" => Len(Fifo) < n[t]
  <2> SUFFICES ASSUME RingInv, [Next]_vars, NEW t \in Threads,
                      pc[t] = "c_tail", pc'[t] = "idle"
               PROVE  Len(Fifo) < n[t]
      OBVIOUS
  <2>1. PICK g \in Positions : Good(g)
        BY DEF RingInv
  <2>2. RingTypeOK
        BY <2>1 DEF Good
  <2>3. n[t] > available(t) /\ n[t] \in Nat
        BY <2>2, WhoGivesUp DEF DequeueFails, RingTypeOK
  <2>4. available(t) = g.pt - g.oh[t] /\ Len(Fifo) = g.pt - g.ch
        BY <2>1, Available, FifoIs
  <2>5. g.oh[t] <= g.ch
        BY <2>1 DEF Good, ThreadOK, Read
  <2>6. g.oh[t] \in Nat /\ g.ch \in Nat /\ g.pt \in Nat
        BY PositionTypes
  <2> QED BY <2>3, <2>4, <2>5, <2>6
<1> QED BY <1>1, RingInvariant, PTL DEF Spec, FailedGetSawTooFew
=============================================================================
