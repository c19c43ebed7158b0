--------------------------- MODULE StreamsProofs ---------------------------
(***************************************************************************)
(* Proofs about the streams that Falcon hashes and draws from: the         *)
(* polynomial made of a hash (HashToPoint), the sponge (Sponge) and the    *)
(* generator (Prng), for all sizes and all ways to cut them into calls,    *)
(* and the permutation of the sponge (Keccak), for all lanes.              *)
(***************************************************************************)
EXTENDS HashToPoint, FiniteSetTheorems, SequenceTheorems, TLAPS

-----------------------------------------------------------------------------
(* Quotients and remainders.                                               *)
LEMMA Divided ==
  ASSUME NEW a \in Nat, NEW d \in Nat \ {0}
  PROVE  /\ a \div d \in Nat /\ a % d \in 0 .. d - 1
         /\ d * (a \div d) \in Nat /\ a = d * (a \div d) + (a % d)
BY SMTT(30)

LEMMA TimesGrows ==
  ASSUME NEW a \in Nat, NEW b \in Nat, NEW d \in Nat, a <= b
  PROVE  d * a \in Nat /\ d * b \in Nat /\ d * a <= d * b
BY SMT

LEMMA TimesNext ==
  ASSUME NEW a \in Nat, NEW d \in Nat
  PROVE  d * a \in Nat /\ d * (a + 1) = d * a + d
BY SMT

(* A quotient is known by its bounds.                                      *)
LEMMA QuotientIs ==
  ASSUME NEW a \in Nat, NEW d \in Nat \ {0}, NEW q \in Nat, d * q <= a, a < d * q + d
  PROVE  a \div d = q
<1> DEFINE z == a \div d
           r == a % d
           low == d * z
           mid == d * q
<1>1. z \in Nat /\ r \in 0 .. d - 1 /\ low \in Nat /\ a = low + r
  BY Divided
<1>2. mid \in Nat /\ d * (q + 1) = mid + d /\ d * (z + 1) = low + d
  BY <1>1, TimesNext
<1>3. z + 1 <= q => d * (z + 1) <= mid
  BY <1>1, TimesGrows
<1>4. q + 1 <= z => d * (q + 1) <= low
  BY <1>1, TimesGrows
<1>5. mid <= a /\ a < mid + d
  OBVIOUS
<1> HIDE DEF z, r, low, mid
<1>6. ~(z + 1 <= q)
  BY <1>1, <1>2, <1>3, <1>5
<1>7. ~(q + 1 <= z)
  BY <1>1, <1>2, <1>4, <1>5
<1>8. z = q
  BY <1>1, <1>6, <1>7
<1> QED
  BY <1>8 DEF z

LEMMA QuotientMono ==
  ASSUME NEW a \in Nat, NEW b \in Nat, NEW d \in Nat \ {0}, a <= b
  PROVE  a \div d \in Nat /\ b \div d \in Nat /\ a \div d <= b \div d
<1> DEFINE za == a \div d   ra == a % d   zb == b \div d   rb == b % d
           la == d * za   lb == d * zb
<1>1. za \in Nat /\ ra \in 0 .. d - 1 /\ la \in Nat /\ a = la + ra
  BY Divided
<1>2. zb \in Nat /\ rb \in 0 .. d - 1 /\ lb \in Nat /\ b = lb + rb
  BY Divided
<1>3. d * (zb + 1) = lb + d
  BY <1>2, TimesNext
<1>4. zb + 1 <= za => d * (zb + 1) <= la
  BY <1>1, <1>2, TimesGrows
<1> HIDE DEF za, ra, zb, rb, la, lb
<1>5. ~(zb + 1 <= za)
  BY <1>1, <1>2, <1>3, <1>4
<1>6. za <= zb
  BY <1>1, <1>2, <1>5
<1> QED
  BY <1>1, <1>2, <1>6 DEF za, zb

(* One bit more: a multiple of d is one of 2 * d, or one d above.          *)
LEMMA OneBit ==
  ASSUME NEW a \in Nat, NEW d \in Nat \ {0}
  PROVE  /\ 2 * d \in Nat \ {0}
         /\ d * (a \div d) \in Nat /\ (2 * d) * (a \div (2 * d)) \in Nat
         /\ (a \div d) % 2 \in {0, 1}
         /\ (a \div d) % 2 = 0 => d * (a \div d) = (2 * d) * (a \div (2 * d))
         /\ (a \div d) % 2 = 1 => d * (a \div d) = (2 * d) * (a \div (2 * d)) + d
<1> DEFINE q == a \div d   r == a % d   m == d * q
           h == q \div 2   b == q % 2   w == (2 * d) * h
<1>1. q \in Nat /\ r \in 0 .. d - 1 /\ m \in Nat /\ a = m + r
  BY Divided
<1>2. h \in Nat /\ b \in {0, 1} /\ q = 2 * h + b
  BY <1>1
<1>3. d * h \in Nat /\ w \in Nat /\ w = 2 * (d * h)
  BY <1>2, SMT
<1>4. d * (2 * h) = 2 * (d * h) /\ d * (2 * h + 1) = 2 * (d * h) + d
  BY <1>2, SMT
<1>5. m = d * (2 * h + b)
  BY <1>2
<1>6. (b = 0 => m = w) /\ (b = 1 => m = w + d)
  BY <1>2, <1>3, <1>4, <1>5
<1> HIDE DEF q, r, m, h, b, w
<1>7. w <= a /\ a < w + 2 * d
  BY <1>1, <1>2, <1>3, <1>6
<1>8. a \div (2 * d) = h
  BY <1>2, <1>7, QuotientIs DEF w
<1> QED
  BY <1>1, <1>2, <1>3, <1>6, <1>8 DEF q, m, b, w

-----------------------------------------------------------------------------
(* The values and their ranks among each other.                            *)
DrawnOk == drawn \in [Slots -> Slots \cup {Rejected}] /\ \A i \in Values : drawn[i] = i

Before(i) == {k \in 0 .. i - 1 : Valid(drawn[k])}

LEMMA BeforeFinite ==
  ASSUME NEW i \in Nat
  PROVE  /\ IsFiniteSet(Before(i)) /\ ValidBefore(i) \in Nat /\ ValidBefore(i) <= i
         /\ ValidBefore(i) = Cardinality(Before(i))
<1>1. IsFiniteSet(0 .. i - 1) /\ Cardinality(0 .. i - 1) = i
  BY FS_Interval
<1>2. Before(i) \subseteq 0 .. i - 1
  BY DEF Before
<1>3. IsFiniteSet(Before(i)) /\ Cardinality(Before(i)) <= Cardinality(0 .. i - 1)
  BY <1>1, <1>2, FS_Subset
<1>4. Cardinality(Before(i)) \in Nat
  BY <1>3, FS_CardinalityType
<1> QED
  BY <1>1, <1>3, <1>4 DEF ValidBefore, Before

(* Between two places there are no more values than places, and one if the *)
(* lower place holds one.                                                  *)
LEMMA RankGrows ==
  ASSUME NEW i \in Nat, NEW j \in Nat, i <= j
  PROVE  /\ ValidBefore(i) <= ValidBefore(j) /\ Jump(i) \in Nat /\ Jump(j) \in Nat
         /\ Jump(i) <= Jump(j)
         /\ i < j /\ Valid(drawn[i]) => ValidBefore(i) < ValidBefore(j)
<1> DEFINE T == {k \in i .. j - 1 : Valid(drawn[k])}
<1>1. IsFiniteSet(i .. j - 1) /\ Cardinality(i .. j - 1) = j - i
  <2>1. IsFiniteSet(i .. j - 1) /\ Cardinality(i .. j - 1) = IF i > j - 1 THEN 0 ELSE (j - 1) - i + 1
    BY FS_Interval
  <2> QED
    BY <2>1
<1>2. IsFiniteSet(T) /\ Cardinality(T) <= j - i
  <2>1. T \subseteq i .. j - 1
    OBVIOUS
  <2> HIDE DEF T
  <2>2. IsFiniteSet(T) /\ Cardinality(T) <= Cardinality(i .. j - 1)
    BY <1>1, <2>1, FS_Subset, Zenon
  <2> QED
    BY <1>1, <2>2
<1>3. Cardinality(T) \in Nat
  BY <1>2, FS_CardinalityType
<1>4. Before(j) = Before(i) \cup T /\ Before(i) \cap T = {}
  BY DEF Before
<1>5. IsFiniteSet(Before(i)) /\ ValidBefore(i) \in Nat /\ ValidBefore(i) <= i
  /\ ValidBefore(i) = Cardinality(Before(i)) /\ ValidBefore(j) = Cardinality(Before(j))
  BY BeforeFinite
<1>6. Cardinality({}) = 0
  BY FS_EmptySet
<1>7. i < j /\ Valid(drawn[i]) => Cardinality(T) # 0
  <2> SUFFICES ASSUME i < j, Valid(drawn[i]) PROVE Cardinality(T) # 0
    OBVIOUS
  <2>1. i \in T
    OBVIOUS
  <2> HIDE DEF T
  <2> QED
    BY <1>2, <2>1, FS_EmptySet
<1> HIDE DEF T
<1>8. ValidBefore(j) = ValidBefore(i) + Cardinality(T)
  <2>1. Cardinality(Before(i) \cup T)
        = Cardinality(Before(i)) + Cardinality(T) - Cardinality(Before(i) \cap T)
    BY <1>2, <1>5, FS_Union
  <2>2. Cardinality(Before(i) \cap T) = 0
    BY <1>4, <1>6, Zenon
  <2>3. Cardinality(Before(i) \cup T) = ValidBefore(j)
    BY <1>4, <1>5, Zenon
  <2> QED
    BY <1>3, <1>5, <2>1, <2>2, <2>3
<1> QED
  BY <1>2, <1>3, <1>5, <1>7, <1>8 DEF Jump

(* No value passes another, at any distance.                               *)
LEMMA PlaceBetween ==
  ASSUME NEW i \in Nat, NEW d \in Nat \ {0}
  PROVE  /\ PlaceBefore(i, d) \in Nat /\ ValidBefore(i) \in Nat
         /\ ValidBefore(i) <= PlaceBefore(i, d) /\ PlaceBefore(i, d) <= i
<1>1. Jump(i) \in Nat /\ ValidBefore(i) \in Nat /\ Jump(i) = i - ValidBefore(i)
  BY RankGrows, BeforeFinite DEF Jump
<1> DEFINE q == Jump(i) \div d   r == Jump(i) % d   m == d * q
<1>2. q \in Nat /\ r \in 0 .. d - 1 /\ m \in Nat /\ Jump(i) = m + r
  BY <1>1, Divided
<1>3. PlaceBefore(i, d) = ValidBefore(i) + m
  BY DEF PlaceBefore
<1> HIDE DEF q, r, m
<1> QED
  BY <1>1, <1>2, <1>3

LEMMA PlaceGrows ==
  ASSUME NEW i \in Nat, NEW j \in Nat, NEW d \in Nat \ {0}, i < j, Valid(drawn[i])
  PROVE  PlaceBefore(i, d) < PlaceBefore(j, d)
<1>1. /\ Jump(i) \in Nat /\ Jump(j) \in Nat /\ Jump(i) <= Jump(j)
      /\ ValidBefore(i) < ValidBefore(j)
  BY RankGrows
<1>2. ValidBefore(i) \in Nat /\ ValidBefore(j) \in Nat
  BY BeforeFinite
<1> DEFINE qi == Jump(i) \div d   qj == Jump(j) \div d
<1>3. qi \in Nat /\ qj \in Nat /\ qi <= qj
  BY <1>1, QuotientMono
<1>4. d * qi \in Nat /\ d * qj \in Nat /\ d * qi <= d * qj
  BY <1>3, TimesGrows
<1>5. PlaceBefore(i, d) = ValidBefore(i) + d * qi /\ PlaceBefore(j, d) = ValidBefore(j) + d * qj
  BY DEF PlaceBefore
<1> HIDE DEF qi, qj
<1> QED
  BY <1>1, <1>2, <1>4, <1>5

(* One pass moves a value by its distance or not at all: it asks for the   *)
(* bit of the jump that is left.                                           *)
LEMMA PlaceStep ==
  ASSUME NEW i \in Nat, NEW d \in Nat \ {0}
  PROVE  /\ 2 * d \in Nat \ {0}
         /\ MovesNow(PlaceBefore(i, d) - ValidBefore(i), d)
              => PlaceBefore(i, d) >= d /\ PlaceBefore(i, 2 * d) = PlaceBefore(i, d) - d
         /\ ~MovesNow(PlaceBefore(i, d) - ValidBefore(i), d)
              => PlaceBefore(i, 2 * d) = PlaceBefore(i, d)
<1>1. Jump(i) \in Nat /\ ValidBefore(i) \in Nat
  BY RankGrows, BeforeFinite
<1> DEFINE q == Jump(i) \div d   m == d * q   w == (2 * d) * (Jump(i) \div (2 * d))
<1>2. /\ 2 * d \in Nat \ {0} /\ m \in Nat /\ w \in Nat /\ q % 2 \in {0, 1}
      /\ (q % 2 = 0 => m = w) /\ (q % 2 = 1 => m = w + d)
  BY <1>1, OneBit
<1>3. q \in Nat
  BY <1>1, Divided
<1>4. m \div d = q
  BY <1>2, <1>3, QuotientIs
<1>5. PlaceBefore(i, d) = ValidBefore(i) + m /\ PlaceBefore(i, 2 * d) = ValidBefore(i) + w
  BY DEF PlaceBefore
<1> HIDE DEF q, m, w
<1>6. PlaceBefore(i, d) - ValidBefore(i) = m
  BY <1>1, <1>2, <1>5
<1>7. MovesNow(PlaceBefore(i, d) - ValidBefore(i), d) <=> q % 2 = 1
  BY <1>4, <1>6 DEF MovesNow
<1> QED
  BY <1>1, <1>2, <1>5, <1>7

-----------------------------------------------------------------------------
(* What the steps use.                                                     *)
LEMMA ValuesAre ==
  ASSUME SizeAssumption, HashInv
  PROVE  /\ Values \subseteq Slots /\ Slots \subseteq Nat
         /\ \A i \in Values : Valid(i) /\ Valid(drawn[i]) /\ i \in Nat
         /\ \A c \in Slots : c \in Values <=> Valid(drawn[c])
BY DEF HashInv, Values, Slots, M, SizeAssumption

(* Two values are never at one place.                                      *)
LEMMA PlacesApart ==
  ASSUME SizeAssumption, HashInv, NEW i \in Values, NEW k \in Values, NEW d \in Nat \ {0},
         PlaceBefore(i, d) = PlaceBefore(k, d)
  PROVE  i = k
<1>1. i \in Nat /\ k \in Nat /\ Valid(drawn[i]) /\ Valid(drawn[k])
  BY ValuesAre
<1>2. ~(i < k)
  BY <1>1, PlaceGrows, PlaceBetween
<1>3. ~(k < i)
  BY <1>1, PlaceGrows, PlaceBetween
<1> QED
  BY <1>1, <1>2, <1>3

(* A value found where the pass looks has not moved in this pass, and the  *)
(* number counted so far is its rank.                                      *)
LEMMA LookedAt ==
  ASSUME SizeAssumption, HashInv, u < M, Valid(cells[u])
  PROVE  /\ cells[u] \in Values /\ PlaceOf(cells[u]) = u /\ PlaceBefore(cells[u], p) = u
         /\ Passed = Before(cells[u]) /\ v = ValidBefore(cells[u])
<1>1. u \in Slots /\ u \in Nat /\ p \in Nat \ {0}
  BY DEF HashInv, Slots, M, SizeAssumption
<1> PICK i \in Values : PlaceOf(i) = u
  BY <1>1 DEF HashInv
<1>2. i \in Values /\ PlaceOf(i) = u /\ cells[u] = i
  BY DEF HashInv
<1>3. i \in Nat /\ Valid(drawn[i]) /\ PlaceBefore(i, p) \in Nat /\ PlaceBefore(i, 2 * p) \in Nat
  BY <1>1, <1>2, ValuesAre, PlaceBetween, PlaceStep
<1>4. PlaceBefore(i, 2 * p) <= PlaceBefore(i, p)
  BY <1>1, <1>3, PlaceStep
<1>5. PlaceBefore(i, p) = u
  BY <1>1, <1>2, <1>3, <1>4 DEF PlaceOf
<1>6. ASSUME NEW k PROVE k \in Passed <=> k \in Before(i)
  <2>1. CASE k \in Values
    <3>1. k \in Nat /\ Valid(drawn[k]) /\ PlaceBefore(k, p) \in Nat
      BY <1>1, <2>1, ValuesAre, PlaceBetween
    <3>2. k < i => PlaceBefore(k, p) < u
      BY <1>1, <1>3, <1>5, <3>1, PlaceGrows
    <3>3. i < k => u < PlaceBefore(k, p)
      BY <1>1, <1>3, <1>5, <3>1, PlaceGrows
    <3>4. k \in Passed <=> PlaceBefore(k, p) < u
      BY <2>1 DEF Passed
    <3>5. k \in Before(i) <=> k < i
      BY <1>3, <3>1 DEF Before
    <3> QED
      BY <1>1, <1>3, <1>5, <3>1, <3>2, <3>3, <3>4, <3>5
  <2>2. CASE k \notin Values
    <3>1. k \notin Passed
      BY <2>2 DEF Passed
    <3>2. k \in Before(i) => k \in Slots /\ Valid(drawn[k])
      <4>1. i \in Slots
        BY <1>2 DEF Values
      <4> QED
        BY <1>3, <4>1 DEF Before, Slots, M, SizeAssumption
    <3> QED
      BY <2>2, <3>1, <3>2 DEF Values
  <2> QED
    BY <2>1, <2>2
<1>7. Passed = Before(i)
  BY <1>6
<1>8. v = ValidBefore(i)
  BY <1>3, <1>7, BeforeFinite DEF HashInv
<1> QED
  BY <1>2, <1>5, <1>7, <1>8

(* It swaps with a free place or stays, as its jump has the bit or not.    *)
LEMMA SwapsWhen ==
  ASSUME SizeAssumption, HashInv, u < M, Valid(cells[u])
  PROVE  /\ Swaps => /\ PlaceBefore(cells[u], 2 * p) = u - p /\ u - p \in Slots
                     /\ ~Valid(cells[u - p])
         /\ ~Swaps => PlaceBefore(cells[u], 2 * p) = u
<1> DEFINE i == cells[u]
<1>1. i \in Values /\ PlaceBefore(i, p) = u /\ v = ValidBefore(i)
  BY LookedAt
<1>2. u \in Nat /\ p \in Nat \ {0} /\ i \in Nat /\ Valid(drawn[i]) /\ M \in Nat
  BY <1>1, ValuesAre DEF HashInv, Slots, M, SizeAssumption
<1>3. Valid(i)
  BY <1>1, ValuesAre
<1>4. Swaps <=> u >= p /\ MovesNow(u - v, p)
  BY <1>3 DEF Swaps
<1> HIDE DEF i
<1>5. /\ MovesNow(u - v, p) => u >= p /\ PlaceBefore(i, 2 * p) = u - p
      /\ ~MovesNow(u - v, p) => PlaceBefore(i, 2 * p) = u
      /\ 2 * p \in Nat \ {0}
  BY <1>1, <1>2, PlaceStep
<1>6. ~Swaps => PlaceBefore(i, 2 * p) = u
  BY <1>4, <1>5
<1>7. ASSUME Swaps
      PROVE PlaceBefore(i, 2 * p) = u - p /\ u - p \in Slots /\ ~Valid(cells[u - p])
  <2>1. PlaceBefore(i, 2 * p) = u - p /\ u - p \in Slots /\ u - p < u
    BY <1>2, <1>4, <1>5, <1>7 DEF Slots
  <2>2. ASSUME Valid(cells[u - p]) PROVE FALSE
    <3> PICK k \in Values : PlaceOf(k) = u - p
      BY <2>1, <2>2 DEF HashInv
    <3>1. k \in Values /\ PlaceOf(k) = u - p
      OBVIOUS
    <3>2. k \in Nat /\ Valid(drawn[k]) /\ PlaceBefore(k, p) \in Nat
      BY <1>2, <3>1, ValuesAre, PlaceBetween
    <3>3. CASE PlaceBefore(k, p) < u
      <4>1. PlaceBefore(k, 2 * p) = PlaceBefore(i, 2 * p)
        BY <2>1, <3>1, <3>3 DEF PlaceOf
      <4>2. k = i
        BY <1>1, <1>5, <3>1, <4>1, PlacesApart
      <4> QED
        BY <1>1, <1>2, <3>3, <4>2
    <3>4. CASE ~(PlaceBefore(k, p) < u)
      BY <1>2, <2>1, <3>1, <3>2, <3>4 DEF PlaceOf
    <3> QED
      BY <3>3, <3>4
  <2> QED
    BY <2>1, <2>2
<1> QED
  BY <1>6, <1>7 DEF i

-----------------------------------------------------------------------------
LEMMA InitHash == SizeAssumption /\ Init => HashInv
<1> SUFFICES ASSUME SizeAssumption, Init PROVE HashInv
  OBVIOUS
<1>1. PICK out \in SUBSET Slots : drawn = [i \in Slots |-> IF i \in out THEN Rejected ELSE i]
  BY DEF Init
<1>2. /\ drawn \in [Slots -> Slots \cup {Rejected}]
      /\ \A i \in Slots : Valid(drawn[i]) => drawn[i] = i
  BY <1>1 DEF Valid
<1>3. \A i \in Values : drawn[i] = i /\ i \in Slots /\ i \in Nat
  BY <1>2 DEF Values, Slots
<1>4. cells = drawn /\ p = 1 /\ u = 0 /\ v = 0
  BY DEF Init
<1>5. \A i \in Values : PlaceBefore(i, p) = i /\ ~(PlaceBefore(i, p) < u)
  <2> SUFFICES ASSUME NEW i \in Values PROVE PlaceBefore(i, 1) = i /\ ~(PlaceBefore(i, 1) < 0)
    BY <1>4
  <2>1. Jump(i) \in Nat /\ ValidBefore(i) \in Nat /\ i \in Nat /\ Jump(i) = i - ValidBefore(i)
    BY <1>3, RankGrows, BeforeFinite DEF Jump
  <2>2. Jump(i) \div 1 = Jump(i)
    BY <2>1
  <2> QED
    BY <2>1, <2>2 DEF PlaceBefore
<1>6. \A i \in Values : PlaceOf(i) = i
  BY <1>5 DEF PlaceOf
<1>7. Passed = {}
  BY <1>5 DEF Passed
<1>8. v = Cardinality(Passed)
  BY <1>4, <1>7, FS_EmptySet
<1>9. \A c \in Slots : Valid(cells[c]) => \E i \in Values : PlaceOf(i) = c
  <2> SUFFICES ASSUME NEW c \in Slots, Valid(cells[c]) PROVE c \in Values
    BY <1>6
  <2> QED
    BY <1>4 DEF Values
<1>10. \A i \in Values : PlaceOf(i) \in Slots /\ cells[PlaceOf(i)] = i
  BY <1>3, <1>4, <1>6
<1>11. p \in Nat \ {0} /\ u \in 0 .. M /\ u = 0
  BY <1>4 DEF SizeAssumption, M
<1> QED
  BY <1>2, <1>3, <1>4, <1>8, <1>9, <1>10, <1>11 DEF HashInv

(* What a look at one place makes of the places of the values.             *)
LEMMA NextPlace ==
  ASSUME SizeAssumption, HashInv, Look
  PROVE  /\ drawn' = drawn /\ p' = p /\ u' = u + 1 /\ u \in Slots /\ u \in Nat /\ u < M
         /\ u + 1 \in 0 .. M /\ p \in Nat \ {0} /\ HasPass(p) /\ HasPass(p)'
         /\ Values' = Values /\ Slots' = Slots
         /\ \A i \in Values : PlaceBefore(i, p) \in Nat /\ PlaceBefore(i, p)' = PlaceBefore(i, p)
         /\ \A i \in Values : PlaceBefore(i, p) # u => PlaceOf(i)' = PlaceOf(i)
         /\ \A i \in Values : PlaceBefore(i, p) = u =>
              PlaceOf(i)' = PlaceBefore(i, 2 * p) /\ PlaceOf(i) = u
         /\ Passed' = {i \in Values : PlaceBefore(i, p) < u + 1}
<1>1. /\ drawn' = drawn /\ p' = p /\ u' = u + 1 /\ u \in Slots /\ u \in Nat /\ u < M
      /\ u + 1 \in 0 .. M /\ p \in Nat \ {0} /\ HasPass(p) /\ HasPass(p)'
  BY DEF Look, HashInv, Slots, M, SizeAssumption, HasPass
<1>2. Values' = Values /\ Slots' = Slots
  BY <1>1 DEF Values, Slots
<1>3. \A i \in Nat, d \in Nat : PlaceBefore(i, d)' = PlaceBefore(i, d)
  BY <1>1 DEF PlaceBefore, ValidBefore, Jump
<1>4. \A i \in Values : PlaceBefore(i, p) \in Nat /\ PlaceBefore(i, 2 * p) \in Nat
  BY <1>1, ValuesAre, PlaceBetween, PlaceStep
<1>5. \A i \in Values : /\ PlaceBefore(i, p)' = PlaceBefore(i, p)
                        /\ PlaceBefore(i, 2 * p)' = PlaceBefore(i, 2 * p)
  <2> SUFFICES ASSUME NEW i \in Values
               PROVE  /\ PlaceBefore(i, p)' = PlaceBefore(i, p)
                      /\ PlaceBefore(i, 2 * p)' = PlaceBefore(i, 2 * p)
    OBVIOUS
  <2>1. i \in Nat /\ 2 * p \in Nat /\ (2 * p)' = 2 * p
    BY <1>1, ValuesAre
  <2>2. PlaceBefore(i, p)' = ValidBefore(i)' + p' * (Jump(i)' \div p')
    BY DEF PlaceBefore
  <2> QED
    BY <1>1, <1>3, <2>1 DEF PlaceBefore, ValidBefore, Jump
<1>6. \A i \in Values :
        PlaceOf(i)' = IF PlaceBefore(i, p) < u + 1 THEN PlaceBefore(i, 2 * p) ELSE PlaceBefore(i, p)
  BY <1>1, <1>5 DEF PlaceOf
<1>7. \A i \in Values : PlaceBefore(i, p) # u => PlaceOf(i)' = PlaceOf(i)
  BY <1>1, <1>4, <1>6 DEF PlaceOf
<1>8. \A i \in Values : PlaceBefore(i, p) = u => PlaceOf(i)' = PlaceBefore(i, 2 * p) /\ PlaceOf(i) = u
  BY <1>1, <1>4, <1>6 DEF PlaceOf
<1>9. Passed' = {i \in Values' : PlaceBefore(i, p)' < u'}
  BY DEF Passed
<1>10. Passed' = {i \in Values : PlaceBefore(i, p) < u + 1}
  BY <1>1, <1>2, <1>5, <1>9
<1> QED
  BY <1>1, <1>2, <1>4, <1>5, <1>7, <1>8, <1>10

(* A place without a value: nothing has been passed there.                 *)
LEMMA LookFree ==
  ASSUME SizeAssumption, HashInv, Look, ~Valid(cells[u])
  PROVE  HashInv'
<1>1. cells' = cells /\ v' = v
  BY DEF Look, Swaps, TargetAfter
<1>2. \A i \in Values : PlaceBefore(i, p) # u
  <2> SUFFICES ASSUME NEW i \in Values, PlaceBefore(i, p) = u PROVE FALSE
    OBVIOUS
  <2>1. PlaceOf(i) = u /\ Valid(i)
    BY NextPlace, ValuesAre
  <2> QED
    BY <2>1 DEF HashInv
<1>3. \A i \in Values : PlaceBefore(i, p) < u + 1 <=> PlaceBefore(i, p) < u
  BY <1>2, NextPlace
<1>4. Passed' = Passed
  BY <1>3, NextPlace DEF Passed
<1>5. \A i \in Values : PlaceOf(i)' = PlaceOf(i)
  BY <1>2, NextPlace
<1>6. v' = Cardinality(Passed')
  BY <1>1, <1>4 DEF HashInv
<1> QED
  BY <1>1, <1>5, <1>6, NextPlace DEF HashInv

(* A place with a value: it moves, or stays where it is for this pass.     *)
LEMMA LookValid ==
  ASSUME SizeAssumption, HashInv, Look, Valid(cells[u])
  PROVE  HashInv'
<1> PICK i \in Values : cells[u] = i
  BY LookedAt, NextPlace
<1>1. i \in Values /\ PlaceOf(i) = u /\ PlaceBefore(i, p) = u /\ Passed = Before(i)
  BY LookedAt, NextPlace
<1>2. u \in Slots /\ u \in Nat /\ u < M /\ p \in Nat \ {0}
  BY NextPlace
<1>3. \A k \in Values : k # i => PlaceBefore(k, p) # u
  BY <1>1, <1>2, PlacesApart
<1>4. v' = v + 1
  BY DEF Look, TargetAfter
<1>5. Passed' = Passed \cup {i} /\ i \notin Passed
  <2>1. \A k \in Values : PlaceBefore(k, p) < u + 1 <=> PlaceBefore(k, p) < u \/ k = i
    BY <1>1, <1>2, <1>3, NextPlace
  <2>2. \A k : k \in Passed' <=> k \in Values /\ PlaceBefore(k, p) < u + 1
    BY NextPlace
  <2>3. \A k : k \in Passed <=> k \in Values /\ PlaceBefore(k, p) < u
    BY DEF Passed
  <2>4. \A k : k \in Passed' <=> k \in Passed \/ k = i
    BY <1>1, <2>1, <2>2, <2>3
  <2> QED
    BY <1>1, <1>2, <2>3, <2>4
<1>6. v' = Cardinality(Passed')
  <2>1. i \in Nat
    BY <1>1, ValuesAre
  <2>2. IsFiniteSet(Passed)
    BY <1>1, <2>1, BeforeFinite
  <2>3. Cardinality(Passed \cup {i}) = Cardinality(Passed) + 1
    BY <1>5, <2>2, FS_AddElement
  <2> QED
    BY <1>4, <1>5, <2>3 DEF HashInv
<1>7. \A k \in Values : k # i => PlaceOf(k)' = PlaceOf(k)
  BY <1>3, NextPlace
<1>8. PlaceOf(i)' = PlaceBefore(i, 2 * p)
  BY <1>1, NextPlace
<1>9. cells \in [Slots -> Slots \cup {Rejected}] /\ cells[u] = i
  BY DEF HashInv
<1>10. \A k \in Values : PlaceOf(k) \in Slots /\ cells[PlaceOf(k)] = k /\ Valid(k)
  BY ValuesAre DEF HashInv
<1>11. \A c \in Slots : Valid(cells[c]) => \E k \in Values : PlaceOf(k) = c
  BY DEF HashInv
<1>12. /\ cells' \in [Slots -> Slots \cup {Rejected}]
       /\ \A k \in Values : PlaceOf(k)' \in Slots /\ cells'[PlaceOf(k)'] = k
       /\ \A c \in Slots : Valid(cells'[c]) => \E k \in Values : PlaceOf(k)' = c
  <2>1. CASE Swaps
    <3>1. cells' = [cells EXCEPT ![u] = cells[u - p], ![u - p] = cells[u]]
      BY <2>1 DEF Look
    <3>2. PlaceBefore(i, 2 * p) = u - p /\ u - p \in Slots /\ ~Valid(cells[u - p])
      BY <1>2, <2>1, SwapsWhen
    <3>3. u - p # u
      BY <1>2
    <3>4. \A c \in Slots : cells'[c] = IF c = u - p THEN i ELSE IF c = u THEN cells[u - p] ELSE cells[c]
      BY <1>2, <1>9, <3>1, <3>2, <3>3
    <3>5. cells' \in [Slots -> Slots \cup {Rejected}]
      BY <1>2, <1>9, <3>1, <3>2
    <3>6. ASSUME NEW k \in Values PROVE PlaceOf(k)' \in Slots /\ cells'[PlaceOf(k)'] = k
      <4>1. CASE k = i
        BY <1>8, <3>2, <3>4, <4>1
      <4>2. CASE k # i
        <5>1. PlaceOf(k) # u /\ PlaceOf(k) # u - p
          BY <1>9, <1>10, <3>2, <4>2
        <5> QED
          BY <1>7, <1>10, <3>4, <4>2, <5>1
      <4> QED
        BY <4>1, <4>2
    <3>7. ASSUME NEW c \in Slots, Valid(cells'[c])
          PROVE  \E k \in Values : PlaceOf(k)' = c
      <4>1. CASE c = u - p
        BY <1>1, <1>8, <3>2, <3>4, <4>1
      <4>2. CASE c = u
        BY <3>2, <3>3, <3>4, <3>7, <4>2
      <4>3. CASE c # u /\ c # u - p
        <5>1. PICK k \in Values : PlaceOf(k) = c
          BY <1>11, <3>4, <3>7, <4>3
        <5>2. k # i
          BY <1>1, <4>3, <5>1
        <5> QED
          BY <1>7, <5>1, <5>2
      <4> QED
        BY <4>1, <4>2, <4>3
    <3> QED
      BY <3>5, <3>6, <3>7
  <2>2. CASE ~Swaps
    <3>1. cells' = cells
      BY <2>2 DEF Look
    <3>2. PlaceBefore(i, 2 * p) = u
      BY <1>2, <2>2, SwapsWhen
    <3>3. \A k \in Values : PlaceOf(k)' = PlaceOf(k)
      BY <1>1, <1>7, <1>8, <3>2
    <3> QED
      BY <1>9, <1>10, <1>11, <3>1, <3>3
  <2> QED
    BY <2>1, <2>2
<1> QED
  BY <1>6, <1>12, NextPlace DEF HashInv

(* The next pass starts where this one left the values.                    *)
LEMMA PassStep ==
  ASSUME SizeAssumption, HashInv, NextPass
  PROVE  HashInv'
<1>1. /\ drawn' = drawn /\ cells' = cells /\ p' = 2 * p /\ u' = 0 /\ v' = 0
      /\ u = M /\ M \in Nat /\ p \in Nat \ {0} /\ 2 * p \in Nat \ {0}
  BY DEF NextPass, HashInv, M, SizeAssumption
<1>2. Values' = Values /\ Slots' = Slots
  BY <1>1 DEF Values, Slots
<1>3. \A i \in Values :
        /\ PlaceOf(i) = PlaceBefore(i, 2 * p) /\ PlaceBefore(i, 2 * p) \in Nat
        /\ PlaceBefore(i, p)' = PlaceBefore(i, 2 * p)
  <2> SUFFICES ASSUME NEW i \in Values
               PROVE  /\ PlaceOf(i) = PlaceBefore(i, 2 * p) /\ PlaceBefore(i, 2 * p) \in Nat
                      /\ PlaceBefore(i, p)' = PlaceBefore(i, 2 * p)
    OBVIOUS
  <2>1. i \in Nat /\ i \in Slots
    BY ValuesAre
  <2>2. /\ PlaceBefore(i, p) \in Nat /\ PlaceBefore(i, p) <= i
        /\ PlaceBefore(i, 2 * p) \in Nat
    BY <1>1, <2>1, PlaceBetween
  <2>3. PlaceBefore(i, p) < u
    BY <1>1, <2>1, <2>2 DEF Slots
  <2>4. PlaceBefore(i, p)' = PlaceBefore(i, 2 * p)
    BY <1>1 DEF PlaceBefore, ValidBefore, Jump
  <2> QED
    BY <2>2, <2>3, <2>4 DEF PlaceOf
<1>4. \A i \in Values : ~(PlaceBefore(i, p)' < u') /\ PlaceOf(i)' = PlaceOf(i)
  BY <1>1, <1>3 DEF PlaceOf
<1>5. Passed' = {}
  BY <1>2, <1>4 DEF Passed
<1>6. v' = Cardinality(Passed')
  BY <1>1, <1>5, FS_EmptySet
<1>7. u' \in 0 .. M' /\ M' = M
  BY <1>1 DEF M
<1> QED
  BY <1>1, <1>2, <1>4, <1>6, <1>7 DEF HashInv

(* Every value is where its jump has taken it so far (hash_to_point_ct).   *)
THEOREM HashInvariant == SizeAssumption => (Spec => []HashInv)
<1> SUFFICES ASSUME SizeAssumption PROVE Spec => []HashInv
  OBVIOUS
<1>1. Init => HashInv
  BY InitHash
<1>2. HashInv /\ [Next]_vars => HashInv'
  <2> SUFFICES ASSUME HashInv, [Next]_vars PROVE HashInv'
    OBVIOUS
  <2>1. CASE Look
    BY <2>1, LookFree, LookValid
  <2>2. CASE NextPass
    BY <2>2, PassStep
  <2>3. CASE UNCHANGED vars
    BY <2>3 DEF vars, HashInv, Values, Passed, PlaceOf, PlaceBefore, ValidBefore, Jump
  <2> QED
    BY <2>1, <2>2, <2>3 DEF Next
<1> QED
  BY <1>1, <1>2, PTL DEF Spec

(* What is left of a jump when no pass is left: nothing, since as many     *)
(* places lie below a value without one as samples were drawn too many.    *)
LEMMA AllJumped ==
  ASSUME SizeAssumption, HashInv, ~HasPass(p), ValidBefore(M) >= N, NEW i \in Values
  PROVE  cells[ValidBefore(i)] = i
<1>1. p \in Nat \ {0} /\ u = 0 /\ M \in Nat /\ M = N + Over /\ N \in Nat /\ Over \in Nat /\ p > Over
  BY DEF HashInv, HasPass, M, SizeAssumption
<1>2. i \in Nat /\ i \in Slots /\ i <= M
  BY <1>1, ValuesAre DEF Slots
<1>3. Jump(i) \in Nat /\ Jump(M) \in Nat /\ Jump(i) <= Jump(M) /\ Jump(M) = M - ValidBefore(M)
  BY <1>1, <1>2, RankGrows DEF Jump
<1>4. ValidBefore(M) \in Nat /\ ValidBefore(i) \in Nat
  BY <1>1, <1>2, BeforeFinite
<1>5. Jump(i) < p
  BY <1>1, <1>3, <1>4
<1>6. Jump(i) \div p = 0
  BY <1>1, <1>3, <1>5, QuotientIs
<1>7. PlaceBefore(i, p) = ValidBefore(i)
  BY <1>1, <1>4, <1>6 DEF PlaceBefore
<1>8. PlaceOf(i) = PlaceBefore(i, p)
  BY <1>1, <1>4, <1>7 DEF PlaceOf
<1> QED
  BY <1>7, <1>8 DEF HashInv

(* Below five times q: at most four times q is taken off.                  *)
LEMMA FourSubtracted ==
  ASSUME NEW w \in Nat, NEW k \in Nat, NEW r \in Nat, r < 12289, w = 12289 * k + r, w < 61445
  PROVE  SubtractIfLarge(SubtractIfLarge(SubtractIfLarge(w, 24578), 24578), 12289) = r
<1>1. k < 5
  OBVIOUS
<1>2. w < 24578 => SubtractIfLarge(w, 24578) = w
  BY DEF SubtractIfLarge
<1>3. w >= 24578 => SubtractIfLarge(w, 24578) = w - 24578
  BY DEF SubtractIfLarge
<1> DEFINE y == SubtractIfLarge(w, 24578)   z == SubtractIfLarge(y, 24578)
<1>4. y \in Nat /\ (k < 2 => y = w) /\ (k >= 2 => y = w - 24578)
  BY <1>2, <1>3
<1> HIDE DEF y
<1>5. y < 24578 => z = y
  BY <1>4 DEF SubtractIfLarge
<1>6. y >= 24578 => z = y - 24578
  BY <1>4 DEF SubtractIfLarge
<1> HIDE DEF z
<1>7. z = r \/ z = 12289 + r
  BY <1>1, <1>4, <1>5, <1>6
<1>8. SubtractIfLarge(z, 12289) = r
  BY <1>7 DEF SubtractIfLarge
<1> QED
  BY <1>8 DEF y, z

(* Both ways to reduce a sample of 16 bits give the same residue.          *)
LEMMA SampleReduced == ASSUME NEW w \in Nat PROVE ReducedCt(w) = ReducedVartime(w)
<1>1. CASE w < 61445
  <2> DEFINE k == w \div 12289   r == w % 12289
  <2>1. k \in Nat /\ r \in 0 .. 12289 - 1 /\ w = 12289 * k + r
    BY Divided
  <2>2. ReducedVartime(w) = r
    BY <1>1 DEF ReducedVartime
  <2> HIDE DEF k, r
  <2>3. r \in Nat /\ r < 12289
    BY <2>1
  <2>4. SubtractIfLarge(SubtractIfLarge(SubtractIfLarge(w, 24578), 24578), 12289) = r
    BY <1>1, <2>1, <2>3, FourSubtracted
  <2> QED
    BY <1>1, <2>2, <2>4 DEF ReducedCt
<1>2. CASE ~(w < 61445)
  BY <1>2 DEF ReducedCt, ReducedVartime
<1> QED
  BY <1>1, <1>2

LEMMA SampleIs ==
  ASSUME NEW hi \in 0 .. 255, NEW lo \in 0 .. 255
  PROVE  Sample(hi, lo) \in Nat
BY DEF Sample

(* For any number of coefficients and of samples beyond, and any samples   *)
(* rejected: the constant-time squeeze overwrites no value on its way and  *)
(* ends with the polynomial of the plain one (hash_to_point_ct,            *)
(* hash_to_point_vartime).                                                 *)
THEOREM HashesAgree ==
  SizeAssumption => (Spec => [](OnlyIntoFree /\ SamePolynomial /\ SamplesReduced))
<1> SUFFICES ASSUME SizeAssumption PROVE Spec => [](OnlyIntoFree /\ SamePolynomial /\ SamplesReduced)
  OBVIOUS
<1>1. HashInv => OnlyIntoFree
  <2> SUFFICES ASSUME HashInv, u < M, Swaps PROVE ~Valid(cells[u - p])
    BY DEF OnlyIntoFree
  <2>1. Valid(cells[u])
    BY DEF Swaps
  <2> QED
    BY <2>1, SwapsWhen
<1>2. HashInv => SamePolynomial
  <2> SUFFICES ASSUME HashInv, ~HasPass(p), ValidBefore(M) >= N,
                      NEW i \in Slots, Valid(drawn[i])
               PROVE  cells[ValidBefore(i)] = drawn[i]
    BY DEF SamePolynomial
  <2>1. i \in Values /\ drawn[i] = i
    BY DEF HashInv, Values
  <2> QED
    BY <2>1, AllJumped
<1>3. SamplesReduced
  BY SampleIs, SampleReduced DEF SamplesReduced
<1> QED
  BY <1>1, <1>2, <1>3, HashInvariant, PTL

-----------------------------------------------------------------------------
(* The sponge.                                                             *)
CONSTANTS Rate, MaxMessage, MaxOutput, MaxCall
VARIABLES permuted, filling, dptr, phase, len, fed, out

Sponge == INSTANCE Sponge

Place == 0 .. Rate - 1
BlockSet == [Place -> SUBSET Int]

LEMMA QuotientAndRest ==
  ASSUME NEW a \in Nat, NEW d \in Nat \ {0}, NEW q \in Nat, NEW r \in Nat, r < d, a = d * q + r
  PROVE  a \div d = q /\ a % d = r
<1> DEFINE m == d * q   y == a % d
<1>1. m \in Nat
  BY TimesNext
<1>2. a \div d = q
  BY <1>1, QuotientIs
<1>3. y \in 0 .. d - 1 /\ a = m + y
  BY <1>2, Divided
<1> HIDE DEF m, y
<1>4. y = r
  <2>1. a = m + r
    BY DEF m
  <2> QED
    BY <1>1, <1>3, <2>1
<1> QED
  BY <1>2, <1>4 DEF y

(* Going on within a block, to its end or not.                             *)
LEMMA GoingOn ==
  ASSUME NEW k \in Nat, NEW c \in Nat, NEW d \in Nat \ {0}
  PROVE  /\ k % d \in Nat /\ k % d < d /\ k \div d \in Nat
         /\ (k % d) + c < d => (k + c) \div d = k \div d /\ (k + c) % d = (k % d) + c
         /\ (k % d) + c = d => (k + c) \div d = k \div d + 1 /\ (k + c) % d = 0
<1> DEFINE q == k \div d   r == k % d   m == d * q   m1 == d * (q + 1)
<1>1. q \in Nat /\ r \in 0 .. d - 1 /\ m \in Nat /\ k = m + r
  BY Divided
<1>2. m1 = m + d
  BY <1>1, TimesNext
<1> HIDE DEF q, r
<1>3. ASSUME r + c < d PROVE (k + c) \div d = q /\ (k + c) % d = r + c
  <2>1. k + c = m + (r + c) /\ r + c \in Nat /\ k + c \in Nat
    BY <1>1
  <2> QED
    BY <1>1, <1>3, <2>1, QuotientAndRest
<1>4. ASSUME r + c = d PROVE (k + c) \div d = q + 1 /\ (k + c) % d = 0
  <2>1. k + c \in Nat /\ q + 1 \in Nat /\ 0 \in Nat /\ 0 < d
    BY <1>1
  <2>2. k + c = d * (q + 1) + 0
    BY <1>1, <1>2, <1>4 DEF m1
  <2> QED
    BY <2>1, <2>2, QuotientAndRest
<1> QED
  BY <1>1, <1>3, <1>4 DEF q, r

LEMMA RestGoesOn ==
  ASSUME NEW k \in Nat, NEW c \in Nat, NEW d \in Nat \ {0}, (k % d) + c < d
  PROVE  (k + c) % d = (k % d) + c /\ (k + c) \div d = k \div d /\ k \div d \in Nat
BY GoingOn

LEMMA RestEnds ==
  ASSUME NEW k \in Nat, NEW c \in Nat, NEW d \in Nat \ {0}, (k % d) + c = d
  PROVE  (k + c) % d = 0 /\ (k + c) \div d = k \div d + 1 /\ k \div d \in Nat
BY GoingOn

LEMMA NextBlock ==
  ASSUME NEW k \in Nat, NEW d \in Nat \ {0}, k % d = d - 1
  PROVE  (k + 1) \div d = k \div d + 1 /\ (k + 1) % d = 0
<1> DEFINE q == k \div d
<1>1. q \in Nat /\ k = d * q + (d - 1) /\ d * q \in Nat
  BY Divided
<1> HIDE DEF q
<1>2. d * (q + 1) = d * q + d
  BY <1>1, TimesNext
<1>3. k + 1 = d * (q + 1) + 0 /\ k + 1 \in Nat /\ q + 1 \in Nat /\ 0 \in Nat /\ 0 < d
  BY <1>1, <1>2
<1>4. (k + 1) \div d = q + 1 /\ (k + 1) % d = 0
  BY <1>3, QuotientAndRest
<1> QED
  BY <1>4 DEF q

(* The places of a message in its blocks.                                  *)
LEMMA BlockIs ==
  ASSUME Sponge!RateAssumption, NEW k \in Nat, NEW b \in Nat
  PROVE  /\ b * Rate \in Nat /\ Sponge!MessageBlock(k, b) \in BlockSet
         /\ \A d \in Place : Sponge!MessageBlock(k, b)[d]
                              = IF b * Rate + d < k THEN {b * Rate + d + 1} ELSE {}
<1>1. b * Rate \in Nat
  BY DEF Sponge!RateAssumption
<1> QED
  BY <1>1 DEF Sponge!MessageBlock, BlockSet, Place, Sponge!RateAssumption

(* A block that is full stays as it is; one not begun is empty.            *)
LEMMA FullBlock ==
  ASSUME Sponge!RateAssumption, NEW k \in Nat, NEW n \in Nat, NEW b \in Nat,
         k <= n, b < k \div Rate
  PROVE  Sponge!MessageBlock(n, b) = Sponge!MessageBlock(k, b)
<1> DEFINE q == k \div Rate   r == k % Rate
<1>1. Rate \in Nat \ {0}
  BY DEF Sponge!RateAssumption
<1>2. q \in Nat /\ r \in 0 .. Rate - 1 /\ Rate * q \in Nat /\ k = Rate * q + r
  BY <1>1, Divided
<1>3. Rate * (b + 1) <= Rate * q /\ Rate * (b + 1) \in Nat
  BY <1>1, <1>2, TimesGrows
<1>4. Rate * (b + 1) = Rate * b + Rate /\ Rate * b \in Nat /\ Rate * b = b * Rate
  BY <1>1, TimesNext
<1> HIDE DEF q, r
<1>5. \A d \in Place : b * Rate + d < k /\ b * Rate + d < n
  BY <1>1, <1>2, <1>3, <1>4 DEF Place
<1> QED
  BY <1>5 DEF Sponge!MessageBlock, Place

LEMMA EmptyBlock ==
  ASSUME Sponge!RateAssumption, NEW k \in Nat, k % Rate = 0
  PROVE  Sponge!MessageBlock(k, k \div Rate) = Sponge!Empty
<1> DEFINE q == k \div Rate
<1>1. Rate \in Nat \ {0}
  BY DEF Sponge!RateAssumption
<1>2. q \in Nat /\ Rate * q \in Nat /\ k = Rate * q + 0 /\ q * Rate = Rate * q
  BY <1>1, Divided
<1> HIDE DEF q
<1>3. \A d \in Place : ~(q * Rate + d < k)
  BY <1>1, <1>2 DEF Place
<1>4. Sponge!MessageBlock(k, q) = Sponge!Empty
  BY <1>3 DEF Sponge!MessageBlock, Sponge!Empty, Place
<1> QED
  BY <1>4 DEF q

(* One chunk more: the block that is filled, and the blocks before it.     *)
Filled(k, c) ==
  [d \in Place |->
     IF d \in (k % Rate) .. ((k % Rate) + c - 1)
       THEN Sponge!MessageBlock(k, k \div Rate)[d] \cup {k + d - (k % Rate) + 1}
       ELSE Sponge!MessageBlock(k, k \div Rate)[d]]

LEMMA ChunkAdds ==
  ASSUME Sponge!RateAssumption, NEW k \in Nat, NEW c \in Nat, (k % Rate) + c <= Rate
  PROVE  Filled(k, c) = Sponge!MessageBlock(k + c, k \div Rate)
<1> DEFINE q == k \div Rate   r == k % Rate
<1>1. Rate \in Nat \ {0} /\ k + c \in Nat
  BY DEF Sponge!RateAssumption
<1>2. q \in Nat /\ r \in 0 .. Rate - 1 /\ Rate * q \in Nat /\ k = Rate * q + r /\ Rate * q = q * Rate
  <2>1. q \in Nat /\ r \in 0 .. Rate - 1 /\ Rate * q \in Nat /\ k = Rate * q + r
    BY <1>1, Divided
  <2> HIDE DEF q, r
  <2>2. Rate * q = q * Rate
    BY <1>1, <2>1, SMT
  <2> QED
    BY <2>1, <2>2
<1>3. r + c <= Rate
  OBVIOUS
<1>4. Filled(k, c) = [d \in Place |-> IF d \in r .. r + c - 1
                                        THEN Sponge!MessageBlock(k, q)[d] \cup {k + d - r + 1}
                                        ELSE Sponge!MessageBlock(k, q)[d]]
  BY DEF Filled
<1> HIDE DEF q, r
<1>5. ASSUME NEW d \in Place
      PROVE  (IF d \in r .. r + c - 1
                THEN Sponge!MessageBlock(k, q)[d] \cup {k + d - r + 1}
                ELSE Sponge!MessageBlock(k, q)[d])
             = IF q * Rate + d < k + c THEN {q * Rate + d + 1} ELSE {}
  <2>1. Sponge!MessageBlock(k, q)[d] = IF q * Rate + d < k THEN {q * Rate + d + 1} ELSE {}
    BY <1>2, BlockIs
  <2>2. d \in Nat
    BY DEF Place
  <2>3. CASE d < r
    BY <1>1, <1>2, <2>1, <2>2, <2>3
  <2>4. CASE r <= d /\ d < r + c
    <3>1. q * Rate + d + 1 = k + d - r + 1 /\ ~(q * Rate + d < k) /\ q * Rate + d < k + c
      BY <1>1, <1>2, <2>2, <2>4
    <3>2. d \in r .. r + c - 1
      BY <1>2, <2>2, <2>4
    <3> QED
      BY <2>1, <3>1, <3>2
  <2>5. CASE r + c <= d
    <3>1. ~(q * Rate + d < k) /\ ~(q * Rate + d < k + c)
      BY <1>1, <1>2, <2>2, <2>5
    <3>2. d \notin r .. r + c - 1
      BY <1>2, <2>2, <2>5
    <3> QED
      BY <2>1, <3>1, <3>2
  <2> QED
    BY <1>2, <2>2, <2>3, <2>4, <2>5
<1>6. Sponge!MessageBlock(k + c, q)
      = [d \in Place |-> IF q * Rate + d < k + c THEN {q * Rate + d + 1} ELSE {}]
  BY DEF Sponge!MessageBlock, Place
<1> QED
  BY <1>4, <1>5, <1>6 DEF q

LEMMA WholeIs ==
  ASSUME Sponge!RateAssumption, NEW k \in Nat
  PROVE  /\ Sponge!WholeBlocks(k) \in Seq(BlockSet)
         /\ Len(Sponge!WholeBlocks(k)) = k \div Rate
         /\ \A b \in 1 .. k \div Rate : Sponge!WholeBlocks(k)[b] = Sponge!MessageBlock(k, b - 1)
<1> DEFINE n == k \div Rate
<1>1. n \in Nat
  BY Divided DEF Sponge!RateAssumption
<1>2. \A b \in 1 .. n : Sponge!MessageBlock(k, b - 1) \in BlockSet
  BY <1>1, BlockIs
<1>3. Sponge!WholeBlocks(k) = [b \in 1 .. n |-> Sponge!MessageBlock(k, b - 1)]
  BY DEF Sponge!WholeBlocks
<1> HIDE DEF n
<1>4. Sponge!WholeBlocks(k) \in [1 .. n -> BlockSet]
  BY <1>2, <1>3
<1>5. Sponge!WholeBlocks(k) \in Seq(BlockSet)
  BY <1>1, <1>4, SeqDef
<1>6. Len(Sponge!WholeBlocks(k)) = n
  BY <1>1, <1>4, <1>5, LenProperties
<1> QED
  BY <1>3, <1>5, <1>6 DEF n

LEMMA WholeSame ==
  ASSUME Sponge!RateAssumption, NEW k \in Nat, NEW c \in Nat, (k % Rate) + c < Rate
  PROVE  Sponge!WholeBlocks(k + c) = Sponge!WholeBlocks(k)
<1>1. Rate \in Nat \ {0} /\ k + c \in Nat /\ k <= k + c
  BY DEF Sponge!RateAssumption
<1>2. (k + c) \div Rate = k \div Rate /\ k \div Rate \in Nat
  BY <1>1, RestGoesOn, Zenon
<1>3. \A b \in 1 .. k \div Rate :
        Sponge!MessageBlock(k + c, b - 1) = Sponge!MessageBlock(k, b - 1)
  <2> SUFFICES ASSUME NEW b \in 1 .. k \div Rate
               PROVE  Sponge!MessageBlock(k + c, b - 1) = Sponge!MessageBlock(k, b - 1)
    OBVIOUS
  <2>1. b - 1 \in Nat /\ b - 1 < k \div Rate
    BY <1>2
  <2> QED
    BY <1>1, <2>1, FullBlock
<1> QED
  BY <1>2, <1>3 DEF Sponge!WholeBlocks

LEMMA WholeMore ==
  ASSUME Sponge!RateAssumption, NEW k \in Nat, NEW c \in Nat, (k % Rate) + c = Rate
  PROVE  /\ Sponge!WholeBlocks(k + c)
            = Append(Sponge!WholeBlocks(k), Sponge!MessageBlock(k + c, k \div Rate))
         /\ Sponge!MessageBlock(k + c, (k + c) \div Rate) = Sponge!Empty
<1> DEFINE n == k \div Rate   W == Sponge!WholeBlocks(k)   V == Sponge!WholeBlocks(k + c)
           B == Sponge!MessageBlock(k + c, n)   A == Append(W, B)
<1>1. Rate \in Nat \ {0} /\ k + c \in Nat /\ k <= k + c
  BY DEF Sponge!RateAssumption
<1>2. (k + c) \div Rate = n + 1 /\ n \in Nat /\ (k + c) % Rate = 0
  BY <1>1, RestEnds, Zenon
<1>3. /\ W \in Seq(BlockSet) /\ Len(W) = n
      /\ \A b \in 1 .. n : W[b] = Sponge!MessageBlock(k, b - 1)
  BY WholeIs
<1>4. /\ V \in Seq(BlockSet) /\ Len(V) = n + 1
      /\ \A b \in 1 .. n + 1 : V[b] = Sponge!MessageBlock(k + c, b - 1)
  BY <1>1, <1>2, WholeIs
<1>5. B \in BlockSet
  BY <1>1, <1>2, BlockIs
<1>6. /\ A \in Seq(BlockSet) /\ Len(A) = n + 1
      /\ \A b \in 1 .. n : A[b] = W[b]
      /\ A[n + 1] = B
  BY <1>3, <1>5, AppendProperties
<1>7. \A b \in 1 .. n : Sponge!MessageBlock(k + c, b - 1) = Sponge!MessageBlock(k, b - 1)
  <2> SUFFICES ASSUME NEW b \in 1 .. n
               PROVE  Sponge!MessageBlock(k + c, b - 1) = Sponge!MessageBlock(k, b - 1)
    OBVIOUS
  <2>1. b - 1 \in Nat /\ b - 1 < n
    BY <1>2
  <2> QED
    BY <1>1, <2>1, FullBlock
<1>8. V[n + 1] = B
  <2>1. n + 1 \in 1 .. n + 1 /\ (n + 1) - 1 = n
    BY <1>2
  <2> QED
    BY <1>4, <2>1
<1>9. Sponge!MessageBlock(k + c, (k + c) \div Rate) = Sponge!Empty
  BY <1>1, <1>2, EmptyBlock
<1> HIDE DEF n, W, V, B, A
<1>10. \A b \in 1 .. n + 1 : V[b] = A[b]
  BY <1>2, <1>3, <1>4, <1>6, <1>7, <1>8
<1>11. V = A
  BY <1>4, <1>6, <1>10, SeqEqual
<1> QED
  BY <1>9, <1>11 DEF n, W, V, B, A

(* The sequence of blocks absorbed when the k-th byte of output is taken.  *)
EmptyRun(n) == [b \in 1 .. n |-> Sponge!Empty]

LEMMA EmptyRunIs ==
  ASSUME Sponge!RateAssumption, NEW n \in Nat
  PROVE  /\ Sponge!Empty \in BlockSet
         /\ EmptyRun(n) \in Seq(BlockSet) /\ Len(EmptyRun(n)) = n
         /\ Append(EmptyRun(n), Sponge!Empty) = EmptyRun(n + 1)
<1>1. Sponge!Empty \in BlockSet
  BY DEF Sponge!Empty, BlockSet, Place
<1>2. \A m \in Nat : /\ EmptyRun(m) \in Seq(BlockSet) /\ Len(EmptyRun(m)) = m
                     /\ \A b \in 1 .. m : EmptyRun(m)[b] = Sponge!Empty
  <2> SUFFICES ASSUME NEW m \in Nat
               PROVE  /\ EmptyRun(m) \in Seq(BlockSet) /\ Len(EmptyRun(m)) = m
                      /\ \A b \in 1 .. m : EmptyRun(m)[b] = Sponge!Empty
    OBVIOUS
  <2>1. EmptyRun(m) \in [1 .. m -> BlockSet]
    BY <1>1 DEF EmptyRun
  <2>2. EmptyRun(m) \in Seq(BlockSet)
    BY <2>1, SeqDef
  <2>3. Len(EmptyRun(m)) = m
    BY <2>1, <2>2, LenProperties
  <2> QED
    BY <2>2, <2>3 DEF EmptyRun
<1> DEFINE A == Append(EmptyRun(n), Sponge!Empty)
<1>3. /\ A \in Seq(BlockSet) /\ Len(A) = n + 1
      /\ \A b \in 1 .. n : A[b] = EmptyRun(n)[b]
      /\ A[n + 1] = Sponge!Empty
  BY <1>1, <1>2, AppendProperties
<1> HIDE DEF A
<1>4. n + 1 \in Nat
  OBVIOUS
<1>5. \A b \in 1 .. n + 1 : A[b] = EmptyRun(n + 1)[b]
  <2>1. \A b \in 1 .. n : EmptyRun(n)[b] = Sponge!Empty
    BY <1>2
  <2>2. \A b \in 1 .. n + 1 : EmptyRun(n + 1)[b] = Sponge!Empty
    BY <1>2, <1>4
  <2> QED
    BY <1>3, <2>1, <2>2
<1>6. A = EmptyRun(n + 1)
  BY <1>2, <1>3, <1>4, <1>5, SeqEqual
<1> QED
  BY <1>1, <1>2, <1>6 DEF A

LEMMA LastIs ==
  ASSUME Sponge!RateAssumption, NEW k \in Nat
  PROVE  Sponge!LastBlock(k) \in BlockSet
<1>1. k \div Rate \in Nat
  BY Divided DEF Sponge!RateAssumption
<1>2. \A d \in Place : Sponge!MessageBlock(k, k \div Rate)[d] \in SUBSET Int
  BY <1>1, BlockIs DEF BlockSet
<1> QED
  BY <1>2 DEF Sponge!LastBlock, BlockSet, Place, Sponge!Pad1F, Sponge!Pad80

(* What was absorbed for the byte k of the output.                         *)
LEMMA AbsorbedIs ==
  ASSUME Sponge!RateAssumption, fed \in Nat, NEW k \in Nat \ {0}
  PROVE  /\ (k - 1) \div Rate \in Nat
         /\ Sponge!AbsorbedAt(k)
            = Sponge!WholeBlocks(fed) \o <<Sponge!LastBlock(fed)>> \o EmptyRun((k - 1) \div Rate)
         /\ Sponge!AbsorbedAt(k) \in Seq(BlockSet)
<1>1. (k - 1) \div Rate \in Nat
  BY Divided DEF Sponge!RateAssumption
<1>2. Sponge!WholeBlocks(fed) \in Seq(BlockSet) /\ Sponge!LastBlock(fed) \in BlockSet
  BY WholeIs, LastIs
<1>3. EmptyRun((k - 1) \div Rate) \in Seq(BlockSet)
  BY <1>1, EmptyRunIs
<1>4. <<Sponge!LastBlock(fed)>> \in Seq(BlockSet)
  BY <1>2
<1>5. /\ Sponge!AbsorbedAt(k)
         = Sponge!WholeBlocks(fed) \o <<Sponge!LastBlock(fed)>> \o EmptyRun((k - 1) \div Rate)
  BY DEF Sponge!AbsorbedAt, EmptyRun
<1>6. Sponge!WholeBlocks(fed) \o <<Sponge!LastBlock(fed)>> \in Seq(BlockSet)
  BY <1>2, <1>4, ConcatProperties
<1>7. Sponge!AbsorbedAt(k) \in Seq(BlockSet)
  BY <1>3, <1>5, <1>6, ConcatProperties
<1> QED
  BY <1>1, <1>5, <1>7

(* The first byte follows the padded block; where a block begins one more  *)
(* is absorbed, and within it none.                                        *)
LEMMA FirstAbsorbed ==
  ASSUME Sponge!RateAssumption, fed \in Nat, NEW k \in 1 .. Rate
  PROVE  Sponge!AbsorbedAt(k) = Append(Sponge!WholeBlocks(fed), Sponge!LastBlock(fed))
<1> DEFINE W == Sponge!WholeBlocks(fed)   L == Sponge!LastBlock(fed)   V == W \o <<L>>
<1>1. Rate \in Nat \ {0} /\ k \in Nat \ {0} /\ k - 1 \in Nat /\ k - 1 < Rate
  BY DEF Sponge!RateAssumption
<1>2. (k - 1) \div Rate = 0
  BY <1>1, QuotientIs
<1>3. W \in Seq(BlockSet) /\ L \in BlockSet
  BY WholeIs, LastIs
<1>4. EmptyRun(0) = << >>
  <2>1. EmptyRun(0) \in Seq(BlockSet) /\ Len(EmptyRun(0)) = 0
    BY EmptyRunIs
  <2> QED
    BY <2>1, EmptySeq
<1>5. Sponge!AbsorbedAt(k) = V \o << >>
  BY <1>1, <1>2, <1>4, AbsorbedIs
<1>6. V = Append(W, L)
  BY <1>3, AppendIsConcat
<1> HIDE DEF W, L, V
<1>7. V \in Seq(BlockSet)
  BY <1>3, <1>6, AppendProperties
<1>8. V \o << >> = V
  BY <1>7, ConcatEmptySeq
<1> QED
  BY <1>5, <1>6, <1>8 DEF W, L

LEMMA NextAbsorbed ==
  ASSUME Sponge!RateAssumption, fed \in Nat, NEW k \in Nat \ {0}
  PROVE  \A c \in 1 .. Rate :
           /\ ((k - 1) % Rate) + c < Rate => Sponge!AbsorbedAt(k + c) = Sponge!AbsorbedAt(k)
           /\ (k - 1) % Rate = Rate - 1 =>
                Sponge!AbsorbedAt(k + c) = Append(Sponge!AbsorbedAt(k), Sponge!Empty)
<1> DEFINE n == (k - 1) \div Rate
           V == Sponge!WholeBlocks(fed) \o <<Sponge!LastBlock(fed)>>
<1> SUFFICES ASSUME NEW c \in 1 .. Rate
             PROVE  /\ ((k - 1) % Rate) + c < Rate => Sponge!AbsorbedAt(k + c) = Sponge!AbsorbedAt(k)
                    /\ (k - 1) % Rate = Rate - 1 =>
                         Sponge!AbsorbedAt(k + c) = Append(Sponge!AbsorbedAt(k), Sponge!Empty)
  OBVIOUS
<1>1. Rate \in Nat \ {0} /\ k - 1 \in Nat /\ c \in Nat /\ k + c \in Nat \ {0}
      /\ (k + c) - 1 = (k - 1) + c
  BY DEF Sponge!RateAssumption
<1>2. ASSUME ((k - 1) % Rate) + c < Rate PROVE Sponge!AbsorbedAt(k + c) = Sponge!AbsorbedAt(k)
  <2>1. ((k - 1) + c) \div Rate = n
    BY <1>1, <1>2, RestGoesOn, Zenon
  <2> QED
    BY <1>1, <2>1, AbsorbedIs
<1>3. ASSUME (k - 1) % Rate = Rate - 1
      PROVE  Sponge!AbsorbedAt(k + c) = Append(Sponge!AbsorbedAt(k), Sponge!Empty)
  <2>1. /\ ((k - 1) + 1) \div Rate = n + 1 /\ ((k - 1) + 1) % Rate = 0 /\ (k - 1) + 1 \in Nat
    <3> DEFINE j == k - 1
    <3>1. j \in Nat /\ 1 \in Nat /\ j + 1 \in Nat /\ j % Rate = Rate - 1
      BY <1>1, <1>3
    <3> HIDE DEF j
    <3>2. (j + 1) \div Rate = j \div Rate + 1 /\ (j + 1) % Rate = 0
      BY <1>1, <3>1, NextBlock
    <3> QED
      BY <3>1, <3>2 DEF j
  <2>2. (((k - 1) + 1) + (c - 1)) \div Rate = n + 1
    <3>1. c - 1 \in Nat /\ (((k - 1) + 1) % Rate) + (c - 1) < Rate
      BY <1>1, <2>1
    <3> QED
      BY <1>1, <2>1, <3>1, RestGoesOn, Zenon
  <2>3. ((k + c) - 1) \div Rate = n + 1
    <3>1. (k + c) - 1 = ((k - 1) + 1) + (c - 1)
      BY <1>1
    <3> QED
      BY <2>2, <3>1
  <2>4. n \in Nat /\ Sponge!AbsorbedAt(k) = V \o EmptyRun(n)
    BY <1>1, AbsorbedIs
  <2>5. Sponge!AbsorbedAt(k + c) = V \o EmptyRun(n + 1)
    BY <1>1, <2>3, AbsorbedIs
  <2>6. V \in Seq(BlockSet)
    <3>1. Sponge!WholeBlocks(fed) \in Seq(BlockSet) /\ Sponge!LastBlock(fed) \in BlockSet
      BY WholeIs, LastIs
    <3>2. <<Sponge!LastBlock(fed)>> \in Seq(BlockSet)
      BY <3>1
    <3> QED
      BY <3>1, <3>2, ConcatProperties
  <2> HIDE DEF n, V
  <2>7. /\ EmptyRun(n) \in Seq(BlockSet) /\ Sponge!Empty \in BlockSet
        /\ EmptyRun(n + 1) = Append(EmptyRun(n), Sponge!Empty)
    BY <2>4, EmptyRunIs
  <2>8. V \o EmptyRun(n) \in Seq(BlockSet) /\ <<Sponge!Empty>> \in Seq(BlockSet)
    BY <2>6, <2>7, ConcatProperties
  <2>9. Append(EmptyRun(n), Sponge!Empty) = EmptyRun(n) \o <<Sponge!Empty>>
    BY <2>7, AppendIsConcat
  <2>10. Append(V \o EmptyRun(n), Sponge!Empty) = (V \o EmptyRun(n)) \o <<Sponge!Empty>>
    BY <2>7, <2>8, AppendIsConcat
  <2>11. (V \o EmptyRun(n)) \o <<Sponge!Empty>> = V \o (EmptyRun(n) \o <<Sponge!Empty>>)
    BY <2>6, <2>7, <2>8, ConcatAssociative
  <2>12. Append(V \o EmptyRun(n), Sponge!Empty) = V \o EmptyRun(n + 1)
    BY <2>7, <2>9, <2>10, <2>11, Zenon
  <2> QED
    BY <2>4, <2>5, <2>12, Zenon
<1> QED
  BY <1>2, <1>3

(* The first n bytes of the output.                                        *)
Output(n) == [k \in 1 .. n |-> Sponge!ByteAt(Sponge!AbsorbedAt(k), (k - 1) % Rate)]

OutputSet == Seq(BlockSet) \X Place

LEMMA OutputIs ==
  ASSUME Sponge!RateAssumption, fed \in Nat, NEW n \in Nat
  PROVE  Output(n) \in Seq(OutputSet) /\ Len(Output(n)) = n
<1>1. \A k \in 1 .. n : Sponge!ByteAt(Sponge!AbsorbedAt(k), (k - 1) % Rate) \in OutputSet
  <2> SUFFICES ASSUME NEW k \in 1 .. n
               PROVE  Sponge!ByteAt(Sponge!AbsorbedAt(k), (k - 1) % Rate) \in OutputSet
    OBVIOUS
  <2> DEFINE r == (k - 1) % Rate
  <2>1. k \in Nat \ {0} /\ k - 1 \in Nat /\ Rate \in Nat \ {0}
    BY DEF Sponge!RateAssumption
  <2>2. Sponge!AbsorbedAt(k) \in Seq(BlockSet)
    BY <2>1, AbsorbedIs
  <2>3. r \in Place
    BY <2>1, Divided DEF Place
  <2> HIDE DEF r
  <2>4. Sponge!ByteAt(Sponge!AbsorbedAt(k), r) \in OutputSet
    BY <2>2, <2>3 DEF Sponge!ByteAt, OutputSet
  <2> QED
    BY <2>4 DEF r
<1>2. Output(n) \in [1 .. n -> OutputSet]
  BY <1>1 DEF Output
<1>3. Output(n) \in Seq(OutputSet)
  BY <1>2, SeqDef
<1> QED
  BY <1>2, <1>3, LenProperties

(* The bytes read from one state, from a place on.                         *)
Taken(blocks, from, c) == [k \in 1 .. c |-> Sponge!ByteAt(blocks, from + k - 1)]

(* Bytes n + 1 to n + c are read from one state.                           *)
TakenFrom(blocks, from, n, c) ==
  \A j \in 1 .. c : Sponge!AbsorbedAt(n + j) = blocks /\ (n + j - 1) % Rate = from + j - 1

LEMMA OutputGrows ==
  ASSUME Sponge!RateAssumption, fed \in Nat, NEW n \in Nat, NEW c \in Nat,
         NEW blocks, NEW from \in Nat,
         TakenFrom(blocks, from, n, c)
  PROVE  Output(n) \o Taken(blocks, from, c) = Output(n + c)
<1> DEFINE T == [k \in 1 .. c |-> Sponge!ByteAt(blocks, from + k - 1)]
           U == Output(n + c)
           V == Output(n)
           W == V \o T
<1>1. /\ n + c \in Nat
      /\ V \in Seq(OutputSet) /\ Len(V) = n
      /\ U \in Seq(OutputSet) /\ Len(U) = n + c
  BY OutputIs
<1>2. \A j \in 1 .. c : n + j \in 1 .. n + c /\ U[n + j] = T[j]
  <2> SUFFICES ASSUME NEW j \in 1 .. c PROVE n + j \in 1 .. n + c /\ U[n + j] = T[j]
    OBVIOUS
  <2>1. n + j \in 1 .. n + c
    OBVIOUS
  <2>2. U[n + j] = Sponge!ByteAt(Sponge!AbsorbedAt(n + j), (n + j - 1) % Rate)
    BY <2>1 DEF Output
  <2>3. T[j] = Sponge!ByteAt(blocks, from + j - 1)
    OBVIOUS
  <2> QED
    BY <2>1, <2>2, <2>3 DEF TakenFrom
<1>3. \A k \in 1 .. n : k \in 1 .. n + c /\ U[k] = V[k]
  BY DEF Output
<1>4. T \in Seq(OutputSet) /\ Len(T) = c
  <2>1. \A j \in 1 .. n + c : U[j] \in OutputSet
    BY <1>1, ElementOfSeq
  <2>2. T \in [1 .. c -> OutputSet]
    <3> HIDE DEF U
    <3>1. \A j \in 1 .. c : T[j] \in OutputSet
      BY <1>2, <2>1
    <3>2. T = [j \in 1 .. c |-> T[j]]
      OBVIOUS
    <3> HIDE DEF T
    <3> QED
      BY <3>1, <3>2
  <2>3. T \in Seq(OutputSet)
    BY <2>2, SeqDef
  <2> HIDE DEF T
  <2> QED
    BY <2>2, <2>3, LenProperties
<1> HIDE DEF T, U, V
<1>5. /\ W \in Seq(OutputSet) /\ Len(W) = n + c
      /\ \A k \in 1 .. n + c : W[k] = IF k <= n THEN V[k] ELSE T[k - n]
  BY <1>1, <1>4, ConcatProperties
<1> HIDE DEF W
<1>6. \A k \in 1 .. n + c : W[k] = U[k]
  <2> SUFFICES ASSUME NEW k \in 1 .. n + c PROVE W[k] = U[k]
    OBVIOUS
  <2>1. CASE k <= n
    BY <1>3, <1>5, <2>1
  <2>2. CASE k > n
    <3>1. k - n \in 1 .. c /\ n + (k - n) = k
      BY <2>2
    <3>2. U[k] = T[k - n]
      BY <1>2, <3>1
    <3> QED
      BY <1>5, <2>2, <3>2
  <2> QED
    BY <2>1, <2>2
<1>7. W = U
  BY <1>1, <1>5, <1>6, SeqEqual
<1>8. Taken(blocks, from, c) = T
  BY DEF T, Taken
<1> QED
  BY <1>7, <1>8 DEF W, U, V

LEMMA ChunkIs ==
  ASSUME Sponge!RateAssumption, NEW k \in Nat \ {0}, NEW at \in 0 .. Rate - 1
  PROVE  LET c == Sponge!Chunk(k, at)
         IN  c \in Nat \ {0} /\ c <= k /\ at + c <= Rate /\ c \in 1 .. Rate
BY DEF Sponge!Chunk, Sponge!Lesser, Sponge!RateAssumption

-----------------------------------------------------------------------------
LEMMA InitSponge ==
  ASSUME Sponge!RateAssumption, Sponge!Init
  PROVE  Sponge!SpongeInv
<1>1. Rate \in Nat \ {0} /\ 0 \in Nat
  BY DEF Sponge!RateAssumption
<1>2. 0 \div Rate = 0 /\ 0 % Rate = 0
  <2>1. Rate * 0 = 0
    BY <1>1
  <2> QED
    BY <1>1, <2>1, QuotientAndRest
<1>3. Sponge!WholeBlocks(0) = << >>
  <2>1. Sponge!WholeBlocks(0) \in Seq(BlockSet) /\ Len(Sponge!WholeBlocks(0)) = 0
    BY <1>1, <1>2, WholeIs
  <2> QED
    BY <2>1, EmptySeq
<1>4. Sponge!MessageBlock(0, 0 \div Rate) = Sponge!Empty
  BY <1>1, <1>2, EmptyBlock
<1>5. out = << >> /\ Len(out) = 0
  BY DEF Sponge!Init
<1>6. out = [k \in 1 .. Len(out) |-> Sponge!ByteAt(Sponge!AbsorbedAt(k), (k - 1) % Rate)]
  <2>1. fed \in Nat /\ 0 \in Nat
    BY DEF Sponge!Init
  <2>2. Output(0) \in Seq(OutputSet) /\ Len(Output(0)) = 0
    BY <2>1, OutputIs
  <2>3. Output(0) = << >>
    BY <2>2, EmptySeq
  <2> QED
    BY <1>5, <2>3 DEF Output
<1> QED
  BY <1>2, <1>3, <1>4, <1>5, <1>6 DEF Sponge!Init, Sponge!SpongeInv

LEMMA CallsKeep ==
  ASSUME Sponge!RateAssumption, Sponge!BoundsAssumption, Sponge!SpongeInv,
         Sponge!CallInject \/ Sponge!CallExtract \/ UNCHANGED Sponge!vars
  PROVE  Sponge!SpongeInv'
<1>1. len' \in Nat
  BY DEF Sponge!SpongeInv, Sponge!CallInject, Sponge!CallExtract, Sponge!vars
<1>2. /\ permuted' = permuted /\ filling' = filling /\ dptr' = dptr /\ phase' = phase
      /\ fed' = fed /\ out' = out
  BY DEF Sponge!CallInject, Sponge!CallExtract, Sponge!vars
<1>3. \A k : Sponge!AbsorbedAt(k)' = Sponge!AbsorbedAt(k)
  BY <1>2 DEF Sponge!AbsorbedAt
<1>4. [k \in 1 .. Len(out) |-> Sponge!ByteAt(Sponge!AbsorbedAt(k), (k - 1) % Rate)]'
      = [k \in 1 .. Len(out) |-> Sponge!ByteAt(Sponge!AbsorbedAt(k), (k - 1) % Rate)]
  BY <1>2, <1>3
<1> QED
  BY <1>1, <1>2, <1>3, <1>4 DEF Sponge!SpongeInv

LEMMA InjectKeeps ==
  ASSUME Sponge!RateAssumption, Sponge!SpongeInv, Sponge!InjectChunk
  PROVE  Sponge!SpongeInv'
<1> DEFINE c == Sponge!Chunk(len, dptr)
           added == [d \in 0 .. Rate - 1 |->
                       IF d \in dptr .. dptr + c - 1 THEN filling[d] \cup {fed + d - dptr + 1}
                                                     ELSE filling[d]]
           k == fed
<1>1. /\ Rate \in Nat \ {0} /\ k \in Nat /\ len \in Nat \ {0}
      /\ phase = "absorb" /\ phase' = "absorb" /\ out = << >> /\ out' = << >>
      /\ permuted = Sponge!WholeBlocks(k) /\ filling = Sponge!MessageBlock(k, k \div Rate)
      /\ dptr = k % Rate
  BY DEF Sponge!RateAssumption, Sponge!SpongeInv, Sponge!InjectChunk
<1>2. dptr \in 0 .. Rate - 1
  BY <1>1, Divided
<1>3. c \in Nat \ {0} /\ c <= len /\ dptr + c <= Rate
  BY <1>1, <1>2, ChunkIs
<1>4. /\ fed' = k + c /\ len' = len - c
      /\ IF Sponge!IsFull(dptr + c)
           THEN permuted' = Append(permuted, added) /\ filling' = Sponge!Empty /\ dptr' = 0
           ELSE filling' = added /\ dptr' = dptr + c /\ permuted' = permuted
  BY DEF Sponge!InjectChunk
<1>5. added = Filled(k, c)
  BY <1>1 DEF Filled, Place
<1>6. added = Sponge!MessageBlock(k + c, k \div Rate)
  <2> HIDE DEF c, added
  <2>1. (k % Rate) + c <= Rate
    BY <1>1, <1>3
  <2> QED
    BY <1>1, <1>3, <1>5, <2>1, ChunkAdds
<1> HIDE DEF c, added
<1>7. permuted' = Sponge!WholeBlocks(k + c)
      /\ filling' = Sponge!MessageBlock(k + c, (k + c) \div Rate)
      /\ dptr' = (k + c) % Rate
  <2>1. CASE dptr + c = Rate
    <3>1. (k % Rate) + c = Rate /\ c \in Nat
      BY <1>1, <1>3, <2>1
    <3>2. /\ Sponge!WholeBlocks(k + c)
             = Append(Sponge!WholeBlocks(k), Sponge!MessageBlock(k + c, k \div Rate))
          /\ Sponge!MessageBlock(k + c, (k + c) \div Rate) = Sponge!Empty
      BY <1>1, <3>1, WholeMore
    <3>3. (k + c) % Rate = 0
      BY <1>1, <3>1, RestEnds, Zenon
    <3> QED
      BY <1>1, <1>4, <1>6, <2>1, <3>2, <3>3 DEF Sponge!IsFull
  <2>2. CASE dptr + c < Rate
    <3>1. (k % Rate) + c < Rate /\ c \in Nat
      BY <1>1, <1>3, <2>2
    <3>2. Sponge!WholeBlocks(k + c) = Sponge!WholeBlocks(k)
      BY <1>1, <3>1, WholeSame
    <3>3. (k + c) % Rate = (k % Rate) + c /\ (k + c) \div Rate = k \div Rate
      BY <1>1, <3>1, RestGoesOn, Zenon
    <3>4. ~Sponge!IsFull(dptr + c)
      BY <1>1, <1>2, <1>3, <2>2 DEF Sponge!IsFull
    <3> QED
      BY <1>1, <1>4, <1>6, <3>2, <3>3, <3>4
  <2> QED
    BY <1>1, <1>2, <1>3, <2>1, <2>2
<1>8. fed' \in Nat /\ len' \in Nat /\ Len(out') = 0
  BY <1>1, <1>3, <1>4
<1>9. out' = [j \in 1 .. 0 |-> Sponge!ByteAt(Sponge!AbsorbedAt(j), (j - 1) % Rate)']
  BY <1>1
<1> QED
  BY <1>1, <1>4, <1>7, <1>8, <1>9 DEF Sponge!SpongeInv

LEMMA FlipKeeps ==
  ASSUME Sponge!RateAssumption, Sponge!SpongeInv, Sponge!Flip
  PROVE  Sponge!SpongeInv'
<1> DEFINE k == fed
<1>1. /\ Rate \in Nat \ {0} /\ k \in Nat
      /\ phase' = "squeeze" /\ out = << >> /\ out' = << >> /\ fed' = fed /\ len' = len
      /\ permuted' = Sponge!WholeBlocks(k) /\ filling = Sponge!MessageBlock(k, k \div Rate)
      /\ dptr = k % Rate /\ dptr' = Rate
  BY DEF Sponge!RateAssumption, Sponge!SpongeInv, Sponge!Flip
<1>2. dptr \in Place /\ Rate - 1 \in Place /\ filling \in BlockSet
  <2>1. k \div Rate \in Nat /\ k % Rate \in 0 .. Rate - 1
    BY <1>1, Divided
  <2>2. filling \in BlockSet
    BY <1>1, <2>1, BlockIs
  <2>3. Rate - 1 \in 0 .. Rate - 1
    BY <1>1
  <2> QED
    BY <1>1, <2>1, <2>2, <2>3 DEF Place
<1>3. filling' = [filling EXCEPT ![dptr] = @ \cup {Sponge!Pad1F}, ![Rate - 1] = @ \cup {Sponge!Pad80}]
  BY DEF Sponge!Flip, Sponge!PadPlace
<1>4. filling' \in BlockSet
  BY <1>2, <1>3 DEF BlockSet, Sponge!Pad1F, Sponge!Pad80
<1>5. \A d \in Place : filling'[d] = filling[d] \cup (IF d = dptr THEN {Sponge!Pad1F} ELSE {})
                                       \cup (IF d = Rate - 1 THEN {Sponge!Pad80} ELSE {})
  BY <1>2, <1>3 DEF BlockSet
<1>6. \A d \in Place : Sponge!LastBlock(k)[d]
                         = filling[d] \cup (IF d = dptr THEN {Sponge!Pad1F} ELSE {})
                             \cup (IF d = Rate - 1 THEN {Sponge!Pad80} ELSE {})
  BY <1>1 DEF Sponge!LastBlock, Place
<1>7. filling' = Sponge!LastBlock(k)
  <2>1. Sponge!LastBlock(k) \in BlockSet
    BY <1>1, LastIs
  <2>2. \A d \in Place : filling'[d] = Sponge!LastBlock(k)[d]
    BY <1>5, <1>6
  <2> QED
    BY <1>4, <2>1, <2>2 DEF BlockSet
<1>8. Len(out') = 0 /\ out' = [j \in 1 .. 0 |-> Sponge!ByteAt(Sponge!AbsorbedAt(j), (j - 1) % Rate)']
  BY <1>1
<1> QED
  BY <1>1, <1>7, <1>8 DEF Sponge!SpongeInv

(* Taking up to what is left of a block: the state that is read, and from  *)
(* where.                                                                  *)
LEMMA ExtractStep ==
  ASSUME Sponge!RateAssumption, Sponge!SpongeInv, Sponge!ExtractChunk,
         NEW n \in Nat, n = Len(out), NEW c \in 1 .. Rate, NEW from \in 0 .. Rate - 1,
         from = (IF Sponge!IsFull(dptr) THEN 0 ELSE dptr), c = Sponge!Chunk(len, from)
  PROVE  /\ \A j \in 1 .. c : /\ Sponge!AbsorbedAt(n + j) = permuted'
                              /\ (n + j - 1) % Rate = from + j - 1
         /\ filling' = Sponge!Empty
<1>1. /\ Rate \in Nat \ {0} /\ fed \in Nat /\ len \in Nat \ {0} /\ phase = "squeeze"
      /\ c \in Nat /\ from \in Nat /\ from + c <= Rate
  <2>1. Rate \in Nat \ {0} /\ fed \in Nat /\ len \in Nat \ {0} /\ phase = "squeeze"
    BY DEF Sponge!RateAssumption, Sponge!SpongeInv, Sponge!ExtractChunk
  <2>2. from + c <= Rate
    BY <2>1, ChunkIs
  <2> QED
    BY <2>1, <2>2
<1>2. /\ permuted' = (IF Sponge!IsFull(dptr) THEN Append(permuted, filling) ELSE permuted)
      /\ filling' = (IF Sponge!IsFull(dptr) THEN Sponge!Empty ELSE filling)
  BY DEF Sponge!ExtractChunk
<1>3. CASE out = << >>
  <2>1. /\ permuted = Sponge!WholeBlocks(fed) /\ filling = Sponge!LastBlock(fed)
        /\ Sponge!IsFull(dptr) /\ from = 0 /\ n = 0
    BY <1>1, <1>3 DEF Sponge!SpongeInv, Sponge!IsFull
  <2>2. permuted' = Append(Sponge!WholeBlocks(fed), Sponge!LastBlock(fed)) /\ filling' = Sponge!Empty
    BY <1>2, <2>1
  <2> SUFFICES ASSUME NEW j \in 1 .. c
               PROVE  Sponge!AbsorbedAt(n + j) = permuted' /\ (n + j - 1) % Rate = from + j - 1
    BY <2>2
  <2>3. j \in 1 .. Rate /\ n + j = j /\ n + j - 1 = j - 1 /\ from + j - 1 = j - 1
    BY <1>1, <2>1
  <2>4. Sponge!AbsorbedAt(j) = permuted'
    BY <1>1, <2>2, <2>3, FirstAbsorbed
  <2>5. (j - 1) % Rate = j - 1
    <3>1. Rate * 0 = 0 /\ j - 1 = 0 + (j - 1) /\ j - 1 \in Nat /\ j - 1 < Rate /\ 0 \in Nat
      BY <1>1, <2>3
    <3> QED
      BY <1>1, <3>1, QuotientAndRest
  <2> QED
    BY <2>3, <2>4, <2>5
<1>4. CASE out # << >>
  <2> DEFINE mm == n - 1   rr == (n - 1) % Rate
  <2>1. mm \in Nat /\ n = mm + 1 /\ n \in Nat \ {0}
    BY <1>4 DEF Sponge!SpongeInv
  <2>2. /\ permuted = Sponge!AbsorbedAt(n) /\ filling = Sponge!Empty /\ dptr = 1 + rr
    BY <1>1, <1>4 DEF Sponge!SpongeInv
  <2>3. \A j \in 1 .. c :
          /\ rr + j < Rate => Sponge!AbsorbedAt(n + j) = Sponge!AbsorbedAt(n)
          /\ rr = Rate - 1 => Sponge!AbsorbedAt(n + j) = Append(Sponge!AbsorbedAt(n), Sponge!Empty)
    BY <1>1, <2>1, NextAbsorbed
  <2>4. PICK m \in Nat, r \in Nat : m = mm /\ r = rr /\ r = m % Rate
    <3>1. rr \in 0 .. Rate - 1
      BY <1>1, <2>1, Divided
    <3> QED
      BY <2>1, <3>1
  <2> HIDE DEF mm, rr
  <2>5. r \in 0 .. Rate - 1
    BY <1>1, <2>4, Divided
  <2>6. \A j \in 1 .. c : (r + j < Rate => (m + j) % Rate = r + j)
    <3> SUFFICES ASSUME NEW j \in 1 .. c, r + j < Rate PROVE (m + j) % Rate = r + j
      OBVIOUS
    <3>1. Rate \in Nat \ {0} /\ j \in Nat /\ (m % Rate) + j < Rate
      BY <1>1, <2>4
    <3>2. (m + j) % Rate = (m % Rate) + j
      BY <3>1, RestGoesOn, Zenon
    <3> QED
      BY <2>4, <3>2
  <2>7. r = Rate - 1 => \A j \in 1 .. c : (m + j) % Rate = j - 1
    <3> SUFFICES ASSUME r = Rate - 1, NEW j \in 1 .. c PROVE (m + j) % Rate = j - 1
      OBVIOUS
    <3>1. (m + 1) % Rate = 0
      BY <1>1, <2>4, NextBlock
    <3>2. PICK b \in Nat, i \in Nat : b = m + 1 /\ i = j - 1
      OBVIOUS
    <3>3. b % Rate = 0 /\ (b % Rate) + i < Rate /\ m + j = b + i
      BY <1>1, <3>1, <3>2
    <3>4. Rate \in Nat \ {0} /\ (b % Rate) + i < Rate
      BY <1>1, <3>3
    <3>5. (b + i) % Rate = (b % Rate) + i
      BY <3>2, <3>4, RestGoesOn, Zenon
    <3> QED
      BY <3>2, <3>3, <3>5
  <2>8. \A j \in 1 .. c : n + j - 1 = m + j
    BY <2>1, <2>4
  <2>9. CASE r = Rate - 1
    <3>1. Sponge!IsFull(dptr) /\ from = 0
      BY <1>1, <2>2, <2>4, <2>9 DEF Sponge!IsFull
    <3>2. \A j \in 1 .. c : from + j - 1 = j - 1
      BY <3>1
    <3> QED
      BY <1>2, <2>2, <2>3, <2>4, <2>7, <2>8, <2>9, <3>1, <3>2
  <2>10. CASE r < Rate - 1
    <3>1. ~Sponge!IsFull(dptr) /\ from = 1 + r
      BY <1>1, <2>2, <2>4, <2>5, <2>10 DEF Sponge!IsFull
    <3>2. \A j \in 1 .. c : from + j - 1 = r + j /\ r + j < Rate
      BY <1>1, <2>5, <3>1
    <3>3. permuted' = Sponge!AbsorbedAt(n) /\ filling' = Sponge!Empty
      BY <1>2, <2>2, <3>1
    <3>4. ASSUME NEW j \in 1 .. c
          PROVE  Sponge!AbsorbedAt(n + j) = Sponge!AbsorbedAt(n) /\ (n + j - 1) % Rate = from + j - 1
      <4>1. rr = r /\ r + j < Rate
        BY <2>4, <3>2
      <4>2. (m + j) % Rate = from + j - 1
        BY <2>6, <3>2, <4>1
      <4> QED
        BY <2>3, <2>8, <4>1, <4>2
    <3> QED
      BY <3>3, <3>4
  <2> QED
    BY <1>1, <2>5, <2>9, <2>10
<1> QED
  BY <1>3, <1>4

LEMMA ExtractKeeps ==
  ASSUME Sponge!RateAssumption, Sponge!SpongeInv, Sponge!ExtractChunk
  PROVE  Sponge!SpongeInv'
<1>1. /\ Rate \in Nat \ {0} /\ fed \in Nat /\ len \in Nat \ {0} /\ Len(out) \in Nat
      /\ phase = "squeeze" /\ phase' = "squeeze" /\ fed' = fed
  BY DEF Sponge!RateAssumption, Sponge!SpongeInv, Sponge!ExtractChunk
<1>2. PICK n : n = Len(out)
  OBVIOUS
<1>3. PICK from : from = (IF Sponge!IsFull(dptr) THEN 0 ELSE dptr)
  OBVIOUS
<1>4. PICK c : c = Sponge!Chunk(len, from)
  OBVIOUS
<1>5. from \in 0 .. Rate - 1
  <2>1. CASE out = << >>
    BY <1>1, <1>3, <2>1 DEF Sponge!SpongeInv, Sponge!IsFull
  <2>2. CASE out # << >>
    <3>1. n \in Nat \ {0} /\ n - 1 \in Nat /\ dptr = 1 + ((n - 1) % Rate)
      BY <1>1, <1>2, <2>2 DEF Sponge!SpongeInv
    <3>2. (n - 1) % Rate \in 0 .. Rate - 1
      BY <1>1, <3>1, Divided
    <3> DEFINE r == (n - 1) % Rate
    <3>3. dptr = 1 + r /\ r \in 0 .. Rate - 1
      BY <3>1, <3>2
    <3> HIDE DEF r
    <3> QED
      BY <1>1, <1>3, <3>3 DEF Sponge!IsFull
  <2> QED
    BY <2>1, <2>2
<1>6. c \in Nat \ {0} /\ c <= len /\ from + c <= Rate /\ c \in 1 .. Rate
  BY <1>1, <1>4, <1>5, ChunkIs
<1>7. /\ out' = out \o [k \in 1 .. c |-> Sponge!ByteAt(permuted', from + k - 1)]
      /\ dptr' = from + c /\ len' = len - c
  BY <1>3, <1>4 DEF Sponge!ExtractChunk
<1>8. n \in Nat
  BY <1>1, <1>2
<1>9. out = Output(n)
  BY <1>2 DEF Sponge!SpongeInv, Output
<1>10. /\ \A j \in 1 .. c : /\ Sponge!AbsorbedAt(n + j) = permuted'
                           /\ (n + j - 1) % Rate = from + j - 1
      /\ filling' = Sponge!Empty
  <2>1. c \in 1 .. Rate /\ from \in 0 .. Rate - 1 /\ n \in Nat
    BY <1>5, <1>6, <1>8
  <2>2. filling' = Sponge!Empty
    BY <1>2, <1>3, <1>4, <2>1, ExtractStep
  <2>3. \A j \in 1 .. c : /\ Sponge!AbsorbedAt(n + j) = permuted'
                          /\ (n + j - 1) % Rate = from + j - 1
    BY <1>2, <1>3, <1>4, <2>1, ExtractStep
  <2> QED
    BY <2>2, <2>3
<1>11. out' = Output(n + c)
  <2>1. from \in Nat /\ c \in Nat /\ n \in Nat /\ fed \in Nat
    BY <1>1, <1>5, <1>6, <1>8
  <2>2. PICK blocks : blocks = permuted'
    OBVIOUS
  <2>3. TakenFrom(blocks, from, n, c)
    BY <1>10, <2>2 DEF TakenFrom
  <2>4. Output(n) \o Taken(blocks, from, c) = Output(n + c)
    BY <2>1, <2>3, OutputGrows
  <2>5. out' = out \o Taken(blocks, from, c)
    BY <1>7, <2>2 DEF Taken
  <2> QED
    BY <1>9, <2>4, <2>5
<1>12. Len(out') = n + c /\ n + c \in Nat \ {0} /\ out' # << >>
  <2>1. n + c \in Nat \ {0}
    BY <1>6, <1>8
  <2>2. Output(n + c) \in Seq(OutputSet) /\ Len(Output(n + c)) = n + c
    BY <1>1, <2>1, OutputIs
  <2>3. Len(<< >>) = 0
    OBVIOUS
  <2> QED
    BY <1>11, <2>1, <2>2, <2>3
<1>13. \A k : Sponge!AbsorbedAt(k)' = Sponge!AbsorbedAt(k)
  BY <1>1 DEF Sponge!AbsorbedAt
<1>14. permuted' = Sponge!AbsorbedAt(n + c) /\ dptr' = 1 + ((n + c - 1) % Rate)
  <2>1. c \in 1 .. c
    BY <1>6
  <2>2. permuted' = Sponge!AbsorbedAt(n + c) /\ (n + c - 1) % Rate = from + c - 1
    BY <1>10, <2>1
  <2> DEFINE r == (n + c - 1) % Rate
  <2>3. r = from + c - 1
    BY <2>2
  <2> HIDE DEF r
  <2>4. dptr' = 1 + r
    BY <1>5, <1>6, <1>7, <2>3
  <2> QED
    BY <2>2, <2>4 DEF r
<1>15. out' = [k \in 1 .. Len(out') |-> Sponge!ByteAt(Sponge!AbsorbedAt(k)', (k - 1) % Rate)]
  BY <1>11, <1>12, <1>13 DEF Output
<1>16. fed' \in Nat /\ len' \in Nat /\ Len(out') \in Nat
  BY <1>1, <1>6, <1>7, <1>12
<1>17. permuted' = Sponge!AbsorbedAt(Len(out))' /\ dptr' = 1 + ((Len(out') - 1) % Rate)
  <2>1. PICK i : i = Len(out')
    OBVIOUS
  <2>2. i = n + c
    BY <1>12, <2>1
  <2>3. Sponge!AbsorbedAt(Len(out))' = Sponge!AbsorbedAt(i)
    BY <1>1, <2>1 DEF Sponge!AbsorbedAt
  <2>4. n + c - 1 = i - 1
    BY <1>6, <1>8, <2>2
  <2>5. dptr' = 1 + ((i - 1) % Rate)
    BY <1>14, <2>4, Zenon
  <2>6. permuted' = Sponge!AbsorbedAt(i)
    BY <1>14, <2>2, Zenon
  <2> QED
    BY <2>1, <2>3, <2>5, <2>6, Zenon
<1>18. filling' = Sponge!Empty
  BY <1>10
<1> QED
  BY <1>1, <1>12, <1>15, <1>16, <1>17, <1>18, Zenon DEF Sponge!SpongeInv

(* However the calls are cut, the state and the output are those of one    *)
(* call (shake.c).                                                         *)
THEOREM SpongeInvariant ==
  Sponge!RateAssumption /\ Sponge!BoundsAssumption => (Sponge!Spec => []Sponge!SpongeInv)
<1> SUFFICES ASSUME Sponge!RateAssumption, Sponge!BoundsAssumption
             PROVE  Sponge!Spec => []Sponge!SpongeInv
  OBVIOUS
<1>1. Sponge!Init => Sponge!SpongeInv
  BY InitSponge
<1>2. Sponge!SpongeInv /\ [Sponge!Next]_(Sponge!vars) => Sponge!SpongeInv'
  BY CallsKeep, InjectKeeps, FlipKeeps, ExtractKeeps DEF Sponge!Next
<1> QED
  BY <1>1, <1>2, PTL DEF Sponge!Spec

(* A message that ends in the first block leaves the block of the GPU.     *)
LEMMA OneBlock ==
  ASSUME Sponge!RateAssumption, fed \in Nat, fed < Rate
  PROVE  Sponge!WholeBlocks(fed) = << >> /\ Sponge!LastBlock(fed) = Sponge!DeviceBlock(fed)
<1>1. Rate \in Nat \ {0} /\ 0 \in Nat
  BY DEF Sponge!RateAssumption
<1>2. fed \div Rate = 0 /\ fed % Rate = fed
  <2>1. fed = Rate * 0 + fed
    BY <1>1
  <2> QED
    BY <1>1, <2>1, QuotientAndRest
<1>3. Sponge!WholeBlocks(fed) = << >>
  <2>1. Sponge!WholeBlocks(fed) \in Seq(BlockSet) /\ Len(Sponge!WholeBlocks(fed)) = 0
    BY <1>2, WholeIs
  <2> QED
    BY <2>1, EmptySeq
<1>4. \A d \in Place : Sponge!MessageBlock(fed, 0)[d] = IF d < fed THEN {d + 1} ELSE {}
  <2>1. 0 * Rate = 0
    BY <1>1
  <2>2. \A d \in Place : 0 * Rate + d = d /\ 0 * Rate + d + 1 = d + 1
    BY <1>1, <2>1 DEF Place
  <2>3. \A d \in Place : Sponge!MessageBlock(fed, 0)[d]
                           = IF 0 * Rate + d < fed THEN {0 * Rate + d + 1} ELSE {}
    BY DEF Sponge!MessageBlock, Place
  <2> QED
    BY <2>2, <2>3
<1>5. \A d \in Place :
        (IF d < fed THEN {d + 1} ELSE {}) \cup (IF d = fed THEN {Sponge!Pad1F} ELSE {})
        = IF d < fed THEN {d + 1} ELSE IF d = fed THEN {Sponge!Pad1F} ELSE {}
  BY DEF Place
<1>6. Sponge!LastBlock(fed) = Sponge!DeviceBlock(fed)
  BY <1>2, <1>4, <1>5 DEF Sponge!LastBlock, Sponge!DeviceBlock, Place
<1> QED
  BY <1>3, <1>6

(* The message and the output may be cut into calls in any way, and the    *)
(* one block of the GPU is the one the CPU absorbs (inner_shake256_inject, *)
(* _flip, _extract; shake256_device_absorb_bench_input).                   *)
THEOREM CutsAgree ==
  Sponge!RateAssumption /\ Sponge!BoundsAssumption =>
    (Sponge!Spec => [](Sponge!AbsorbedAsOne /\ Sponge!SqueezedAsOne /\ Sponge!DeviceAgrees))
<1> SUFFICES ASSUME Sponge!RateAssumption, Sponge!BoundsAssumption
             PROVE  Sponge!Spec => [](Sponge!AbsorbedAsOne /\ Sponge!SqueezedAsOne /\ Sponge!DeviceAgrees)
  OBVIOUS
<1>1. ASSUME Sponge!SpongeInv
      PROVE  Sponge!AbsorbedAsOne /\ Sponge!SqueezedAsOne /\ Sponge!DeviceAgrees
  <2>1. Sponge!AbsorbedAsOne
    BY <1>1 DEF Sponge!SpongeInv, Sponge!AbsorbedAsOne
  <2>2. Sponge!SqueezedAsOne
    <3>1. out = [k \in 1 .. Len(out) |-> Sponge!ByteAt(Sponge!AbsorbedAt(k), (k - 1) % Rate)]
      BY <1>1 DEF Sponge!SpongeInv
    <3> QED
      BY <3>1, Zenon DEF Sponge!SqueezedAsOne
  <2>3. Sponge!DeviceAgrees
    BY <1>1, OneBlock DEF Sponge!SpongeInv, Sponge!DeviceAgrees
  <2> QED
    BY <2>1, <2>2, <2>3
<1> QED
  BY <1>1, SpongeInvariant, PTL

-----------------------------------------------------------------------------
(* The generator.                                                          *)
CONSTANTS Lanes, Words, Short, MaxCounter, MaxLen
VARIABLES buf, ptr, cc, left, call, result, served

Prng == INSTANCE Prng WITH len <- left

WordSet == Nat \X Nat

LEMMA PrngSizes ==
  ASSUME Prng!SizeAssumption
  PROVE  /\ Lanes \in Nat \ {0} /\ Words \in Nat \ {0} /\ Short \in Nat \ {0}
         /\ Lanes * Words \in Nat \ {0} /\ Prng!BufSize = Lanes * Words
         /\ Short + 1 < Prng!BufSize /\ Prng!BufSize \in Nat \ {0}
         /\ Prng!Cells = 0 .. Prng!BufSize - 1 /\ MaxLen \in Nat \ {0}
<1>1. Lanes \in Nat \ {0} /\ Words \in Nat \ {0} /\ Short \in Nat \ {0} /\ MaxLen \in Nat \ {0}
      /\ Short + 1 < Lanes * Words
  BY DEF Prng!SizeAssumption
<1>2. Lanes * Words \in Nat
  BY <1>1
<1> DEFINE b == Lanes * Words
<1>3. b \in Nat /\ Short + 1 < b /\ Prng!BufSize = b
  BY <1>1, <1>2 DEF Prng!BufSize
<1> HIDE DEF b
<1>4. b \in Nat \ {0}
  BY <1>1, <1>3
<1> QED
  BY <1>1, <1>3, <1>4 DEF Prng!Cells, b

(* The words of a filled buffer: those of Lanes blocks, none twice.        *)
LEMMA FilledIs ==
  ASSUME Prng!SizeAssumption, NEW n \in Nat
  PROVE  LET f == Prng!FilledAvx2(n)
         IN  /\ f \in [Prng!Cells -> WordSet]
             /\ \A k \in Prng!Cells : f[k][1] >= n /\ f[k][1] < n + Lanes
             /\ \A j, k \in Prng!Cells : f[j] = f[k] => j = k
<1> DEFINE f == Prng!FilledAvx2(n)
<1>1. Lanes \in Nat \ {0} /\ \A k \in Prng!Cells : k \in Nat
  BY PrngSizes
<1>2. \A k \in Prng!Cells : f[k] = <<n + (k % Lanes), k \div Lanes>>
  BY DEF Prng!FilledAvx2
<1>3. \A k \in Prng!Cells :
        k % Lanes \in 0 .. Lanes - 1 /\ k \div Lanes \in Nat /\ k = Lanes * (k \div Lanes) + (k % Lanes)
  BY <1>1, Divided
<1>4. ASSUME NEW k \in Prng!Cells
      PROVE  f[k] \in WordSet /\ f[k][1] >= n /\ f[k][1] < n + Lanes
  <2> DEFINE r == k % Lanes   q == k \div Lanes
  <2>1. f[k] = <<n + r, q>> /\ r \in 0 .. Lanes - 1 /\ q \in Nat
    BY <1>2, <1>3
  <2> HIDE DEF r, q
  <2> QED
    BY <1>1, <2>1 DEF WordSet
<1>5. ASSUME NEW j \in Prng!Cells, NEW k \in Prng!Cells, f[j] = f[k] PROVE j = k
  <2> DEFINE r == k % Lanes   q == k \div Lanes   r2 == j % Lanes   q2 == j \div Lanes
  <2>1. f[k] = <<n + r, q>> /\ r \in 0 .. Lanes - 1 /\ k = Lanes * q + r
    BY <1>2, <1>3
  <2>2. f[j] = <<n + r2, q2>> /\ r2 \in 0 .. Lanes - 1 /\ j = Lanes * q2 + r2
    BY <1>2, <1>3
  <2> HIDE DEF r, q, r2, q2, f
  <2>3. q = q2 /\ n + r = n + r2
    BY <1>5, <2>1, <2>2
  <2>4. r \in Int /\ r2 \in Int
    BY <2>1, <2>2
  <2>5. r = r2
    BY <2>3, <2>4
  <2> QED
    BY <2>1, <2>2, <2>3, <2>5
<1>6. f \in [Prng!Cells -> WordSet]
  <2>1. f = [k \in Prng!Cells |-> f[k]]
    BY DEF Prng!FilledAvx2
  <2> HIDE DEF f
  <2> QED
    BY <1>4, <2>1
<1> QED
  BY <1>4, <1>5, <1>6

(* Either way to fill the buffer gives the same words.                     *)
LEMMA BothFill ==
  ASSUME Prng!SizeAssumption, NEW n \in Nat
  PROVE  Prng!FilledPortable(n) = Prng!FilledAvx2(n)
<1> SUFFICES ASSUME NEW k \in Prng!Cells
             PROVE  Prng!FilledPortable(n)[k] = Prng!FilledAvx2(n)[k]
  BY DEF Prng!FilledPortable, Prng!FilledAvx2
<1> DEFINE r == k % Lanes   q == k \div Lanes   Pairs == (0 .. Lanes - 1) \X (0 .. Words - 1)
<1>1. Lanes \in Nat \ {0} /\ Words \in Nat \ {0} /\ k \in Nat /\ k < Lanes * Words
  BY PrngSizes
<1>2. r \in 0 .. Lanes - 1 /\ q \in Nat /\ k = Lanes * q + r /\ Lanes * q \in Nat
  BY <1>1, Divided
<1>3. q < Words
  <2> HIDE DEF q, r
  <2> SUFFICES ASSUME Words <= q PROVE FALSE
    BY <1>1, <1>2
  <2>1. Lanes * Words <= Lanes * q
    BY <1>1, <1>2, TimesGrows
  <2> QED
    BY <1>1, <1>2, <2>1
<1>4. <<r, q>> \in Pairs /\ <<r, q>>[1] + Lanes * <<r, q>>[2] = k
  <2> HIDE DEF q, r
  <2> QED
    BY <1>1, <1>2, <1>3
<1>5. ASSUME NEW x \in Pairs, x[1] + Lanes * x[2] = k PROVE x = <<r, q>>
  <2>1. x[1] \in 0 .. Lanes - 1 /\ x[2] \in Nat /\ x = <<x[1], x[2]>>
    BY <1>1
  <2>2. PICK a \in Nat, b \in Nat : a = x[1] /\ b = x[2] /\ a < Lanes
    BY <1>1, <2>1
  <2>3. Lanes * b \in Nat /\ k = Lanes * b + a
    BY <1>1, <1>5, <2>2
  <2>4. q = b /\ r = a
    BY <1>1, <2>2, <2>3, QuotientAndRest
  <2> QED
    BY <2>1, <2>2, <2>4
<1> DEFINE place == CHOOSE from \in Pairs : from[1] + Lanes * from[2] = k
<1>6. place \in Pairs /\ place[1] + Lanes * place[2] = k
  BY <1>4
<1>7. place = <<r, q>>
  <2> HIDE DEF place, r, q, Pairs
  <2> QED
    BY <1>5, <1>6
<1>8. Prng!FilledPortable(n)[k] = <<n + place[1], place[2]>>
  BY DEF Prng!FilledPortable
<1>9. Prng!FilledAvx2(n)[k] = <<n + r, q>>
  BY DEF Prng!FilledAvx2
<1> HIDE DEF place, r, q
<1> QED
  BY <1>7, <1>8, <1>9

(* A sequence that repeats nothing gives as many words as it has.          *)
LEMMA NoneTwice ==
  ASSUME NEW c \in Nat, NEW s \in [1 .. c -> WordSet],
         \A i, j \in 1 .. c : s[i] = s[j] => i = j
  PROVE  Prng!Cardinality(Prng!Given(s)) = Len(s)
<1> DEFINE T == Prng!Given(s)
<1>1. T = {s[k] : k \in 1 .. c}
  BY DEF Prng!Given
<1>2. s \in [1 .. c -> T]
  BY <1>1
<1>3. s \in Injection(1 .. c, T)
  BY <1>2 DEF Injection, IsInjective
<1>4. s \in Surjection(1 .. c, T)
  BY <1>1, <1>2 DEF Surjection
<1>5. ExistsBijection(1 .. c, T)
  BY <1>3, <1>4 DEF ExistsBijection, Bijection
<1>6. IsFiniteSet(1 .. c) /\ Cardinality(1 .. c) = c
  BY FS_Interval
<1>7. Cardinality(T) = c
  BY <1>5, <1>6, FS_Bijection
<1>8. Prng!Cardinality(T) = Cardinality(T)
  BY DEF Prng!Cardinality, Cardinality
<1>9. Len(s) = c
  <2>1. s \in Seq(WordSet)
    BY SeqDef
  <2> QED
    BY <2>1, LenProperties
<1> QED
  BY <1>7, <1>8, <1>9

(* What a call leaves behind it in the buffer.                             *)
LEMMA RefillIs ==
  ASSUME Prng!SizeAssumption, Prng!PrngInv, NEW full \in BOOLEAN, Prng!RefilledIf(full)
  PROVE  /\ cc \in Nat /\ cc - Lanes \in Nat /\ cc' \in Nat /\ cc' - Lanes \in Nat /\ cc' >= Lanes
         /\ buf = Prng!FilledAvx2(cc - Lanes) /\ buf' = Prng!FilledAvx2(cc' - Lanes)
         /\ full => cc' - Lanes = cc
         /\ ~full => cc' = cc /\ buf' = buf
<1>1. Lanes \in Nat \ {0} /\ cc \in Nat /\ cc >= Lanes /\ buf = Prng!FilledAvx2(cc - Lanes)
  BY PrngSizes DEF Prng!PrngInv
<1>2. CASE full
  BY <1>1, <1>2 DEF Prng!RefilledIf, Prng!AfterLanes
<1>3. CASE ~full
  BY <1>1, <1>3 DEF Prng!RefilledIf
<1> QED
  BY <1>2, <1>3

(* What was given stays given.                                             *)
LEMMA PastKept ==
  ASSUME Prng!SizeAssumption, Prng!PrngInv, NEW full \in BOOLEAN, Prng!RefilledIf(full),
         ptr' \in Nat, ~full => ptr <= ptr', NEW word \in WordSet, Prng!Past(word)
  PROVE  Prng!Past(word)'
<1>1. /\ cc \in Nat /\ cc - Lanes \in Nat
      /\ buf = Prng!FilledAvx2(cc - Lanes)
      /\ full => cc' - Lanes = cc
      /\ ~full => cc' = cc /\ buf' = buf
  BY RefillIs
<1>2. Lanes \in Nat \ {0} /\ word[1] \in Nat /\ ptr \in Nat /\ \A k \in Prng!Cells : k \in Nat
  BY PrngSizes DEF WordSet, Prng!PrngInv
<1>3. CASE full
  <2>1. \A k \in Prng!Cells : buf[k] \in WordSet /\ buf[k][1] < (cc - Lanes) + Lanes
    BY <1>1, FilledIs
  <2>2. word[1] < cc
    BY <1>1, <1>2, <2>1 DEF Prng!Past
  <2> QED
    BY <1>1, <1>3, <2>2 DEF Prng!Past
<1>4. CASE ~full
  <2>1. cc' = cc /\ buf' = buf /\ ptr <= ptr'
    BY <1>1, <1>4
  <2>2. \A k \in Prng!Cells : k < ptr => k < ptr'
    BY <1>2, <2>1
  <2> QED
    BY <2>1, <2>2 DEF Prng!Past
<1> QED
  BY <1>3, <1>4

(* What is read from the buffer is passed, or the buffer is filled anew.   *)
LEMMA ReadIsPast ==
  ASSUME Prng!SizeAssumption, Prng!PrngInv, NEW full \in BOOLEAN, Prng!RefilledIf(full),
         ptr' \in Nat, NEW k \in Prng!Cells, full \/ k < ptr', NEW word, word = buf[k]
  PROVE  word \in WordSet /\ Prng!Past(word)'
<1>1. /\ cc \in Nat /\ cc - Lanes \in Nat
      /\ buf = Prng!FilledAvx2(cc - Lanes)
      /\ full => cc' - Lanes = cc
      /\ ~full => cc' = cc /\ buf' = buf
  BY RefillIs
<1>2. word \in WordSet /\ word[1] < (cc - Lanes) + Lanes
  BY <1>1, FilledIs
<1>3. Lanes \in Nat /\ word[1] \in Nat
  BY <1>2, PrngSizes DEF WordSet
<1>4. full => word[1] < cc' - Lanes
  BY <1>1, <1>2, <1>3
<1>5. ~full => word = buf'[k] /\ k < ptr'
  BY <1>1
<1>6. Prng!Past(word)'
  BY <1>4, <1>5 DEF Prng!Past
<1> QED
  BY <1>2, <1>6

(* What is not passed was not given.                                       *)
LEMMA AheadIsNew ==
  ASSUME Prng!SizeAssumption, Prng!PrngInv, NEW full \in BOOLEAN, Prng!RefilledIf(full),
         NEW word \in WordSet, Prng!Past(word), NEW k \in Prng!Cells, full \/ ptr <= k
  PROVE  buf'[k] \in WordSet /\ buf'[k] # word
<1>1. /\ cc \in Nat /\ cc - Lanes \in Nat /\ cc' - Lanes \in Nat
      /\ buf = Prng!FilledAvx2(cc - Lanes) /\ buf' = Prng!FilledAvx2(cc' - Lanes)
      /\ full => cc' - Lanes = cc
      /\ ~full => cc' = cc /\ buf' = buf
  BY RefillIs
<1>2. Lanes \in Nat \ {0} /\ word[1] \in Nat /\ ptr \in Nat /\ \A j \in Prng!Cells : j \in Nat
  BY PrngSizes DEF WordSet, Prng!PrngInv
<1>3. /\ \A j \in Prng!Cells :
           buf[j] \in WordSet /\ buf[j][1] >= cc - Lanes /\ buf[j][1] < (cc - Lanes) + Lanes
      /\ \A i, j \in Prng!Cells : buf[i] = buf[j] => i = j
  BY <1>1, FilledIs
<1>4. buf'[k] \in WordSet /\ buf'[k][1] >= cc' - Lanes
  BY <1>1, FilledIs
<1>5. CASE full
  <2>1. word[1] < cc
    BY <1>1, <1>2, <1>3 DEF Prng!Past
  <2>2. buf'[k][1] >= cc /\ buf'[k][1] \in Nat
    BY <1>1, <1>4, <1>5 DEF WordSet
  <2> QED
    BY <1>1, <1>2, <1>4, <2>1, <2>2
<1>6. CASE ~full
  <2>1. buf'[k] = buf[k] /\ buf[k][1] >= cc - Lanes /\ buf[k][1] \in Nat
    BY <1>1, <1>3, <1>6 DEF WordSet
  <2>2. \A j \in Prng!Cells : j < ptr => buf[j] # buf[k]
    <3>1. \A j \in Prng!Cells : j < ptr => j # k
      BY <1>2, <1>6
    <3> QED
      BY <1>3, <3>1
  <2>3. buf[k] # word
    BY <1>1, <1>2, <2>1, <2>2 DEF Prng!Past
  <2> QED
    BY <1>4, <2>1, <2>3
<1> QED
  BY <1>5, <1>6

-----------------------------------------------------------------------------
LEMMA InitPrng ==
  ASSUME Prng!SizeAssumption, Prng!Init
  PROVE  Prng!PrngInv
<1>1. Lanes \in Nat \ {0} /\ 0 \in Prng!Cells
  BY PrngSizes
<1>2. cc = Lanes /\ cc - Lanes = 0
  BY <1>1 DEF Prng!Init, Prng!AfterLanes
<1>3. result = << >> /\ << >> \in Seq(Nat \X Nat) /\ Prng!Given(<< >>) = {}
  BY DEF Prng!Init, Prng!Given
<1> QED
  BY <1>1, <1>2, <1>3 DEF Prng!Init, Prng!PrngInv, Prng!NothingTwice

LEMMA ServedIs ==
  ASSUME Prng!PrngInv
  PROVE  \A word \in served \cup Prng!Given(result) : word \in WordSet /\ Prng!Past(word)
<1>1. result \in Seq(WordSet) /\ served \subseteq WordSet
  BY DEF Prng!PrngInv, WordSet
<1>2. DOMAIN result = 1 .. Len(result) /\ result \in [1 .. Len(result) -> WordSet]
  BY <1>1, LenProperties
<1>3. Prng!Given(result) \subseteq WordSet
  BY <1>2 DEF Prng!Given
<1> QED
  BY <1>1, <1>3 DEF Prng!PrngInv

(* The words of a value are the next ones.                                 *)
LEMMA U64Keeps ==
  ASSUME Prng!SizeAssumption, Prng!PrngInv, Prng!prng_get_u64
  PROVE  Prng!PrngInv'
<1>1. PICK full \in BOOLEAN : full <=> Prng!TooFew(ptr)
  <2>1. (TRUE <=> Prng!TooFew(ptr)) \/ (FALSE <=> Prng!TooFew(ptr))
    OBVIOUS
  <2> QED
    BY <2>1, Zenon
<1>2. PICK at : at = IF full THEN 0 ELSE ptr
  OBVIOUS
<1>3. /\ Prng!RefilledIf(full) /\ ptr' = at + Short /\ left' = left /\ left = 0
      /\ result' = [k \in 1 .. Short |-> buf'[at + k - 1]]
      /\ call' = "u64" /\ served' = served \cup Prng!Given(result)
  <2>1. Prng!RefilledIf(full)
    BY <1>1 DEF Prng!prng_get_u64, Prng!RefilledIf
  <2>2. at = IF Prng!TooFew(ptr) THEN 0 ELSE ptr
    BY <1>1, <1>2
  <2> QED
    BY <2>1, <2>2 DEF Prng!prng_get_u64
<1>4. PICK b \in Nat \ {0} :
        b = Prng!BufSize /\ Prng!Cells = 0 .. b - 1 /\ Short \in Nat \ {0} /\ Short + 1 < b
  BY PrngSizes
<1>5. ptr \in Prng!Cells /\ ptr \in Nat /\ (full <=> ptr >= b - (Short + 1))
  BY <1>1, <1>4 DEF Prng!PrngInv, Prng!TooFew
<1>6. at \in Nat /\ at + Short < b /\ ptr' \in Prng!Cells /\ ptr' \in Nat /\ (~full => ptr <= ptr')
  <2>1. CASE full
    BY <1>2, <1>3, <1>4, <2>1
  <2>2. CASE ~full
    <3>1. at = ptr /\ ptr < b - (Short + 1)
      BY <1>2, <1>4, <1>5, <2>2
    <3> QED
      BY <1>3, <1>4, <1>5, <3>1
  <2> QED
    BY <2>1, <2>2
<1>7. \A k \in 1 .. Short : /\ at + k - 1 \in Prng!Cells /\ at + k - 1 < ptr'
                            /\ full \/ ptr <= at + k - 1
  BY <1>2, <1>3, <1>4, <1>5, <1>6
<1>8. /\ cc' \in Nat /\ cc' - Lanes \in Nat /\ cc' >= Lanes
      /\ buf' = Prng!FilledAvx2(cc' - Lanes)
  BY <1>3, RefillIs
<1>9. /\ \A k \in Prng!Cells : buf'[k] \in WordSet
      /\ \A j, k \in Prng!Cells : buf'[j] = buf'[k] => j = k
  BY <1>8, FilledIs
<1>10. result' \in [1 .. Short -> WordSet] /\ \A k \in 1 .. Short : result'[k] = buf'[at + k - 1]
  BY <1>3, <1>7, <1>9
<1>11. \A i, j \in 1 .. Short : result'[i] = result'[j] => i = j
  <2> SUFFICES ASSUME NEW i \in 1 .. Short, NEW j \in 1 .. Short, result'[i] = result'[j]
               PROVE  i = j
    OBVIOUS
  <2>1. at + i - 1 = at + j - 1
    BY <1>7, <1>9, <1>10
  <2> QED
    BY <1>6, <2>1
<1>12. result' \in Seq(WordSet)
  BY <1>4, <1>10, SeqDef
<1>13. Prng!Cardinality(Prng!Given(result')) = Len(result')
  BY <1>4, <1>10, <1>11, NoneTwice
<1>14. Prng!Given(result') = {result'[k] : k \in 1 .. Short}
  BY <1>10 DEF Prng!Given
<1>15. \A word \in served' : word \in WordSet /\ Prng!Past(word)
  BY <1>3, ServedIs
<1>16. \A word \in Prng!Given(result') : word \in WordSet /\ Prng!Past(word)' /\ word \notin served'
  <2> SUFFICES ASSUME NEW word \in Prng!Given(result')
               PROVE  word \in WordSet /\ Prng!Past(word)' /\ word \notin served'
    OBVIOUS
  <2>1. PICK k \in Prng!Cells : word = buf'[k] /\ k < ptr' /\ (full \/ ptr <= k)
    BY <1>7, <1>10, <1>14
  <2>2. word \in WordSet /\ Prng!Past(word)'
    BY <1>9, <2>1 DEF Prng!Past
  <2>3. \A given \in served' : word # given
    <3> SUFFICES ASSUME NEW given \in served' PROVE word # given
      OBVIOUS
    <3>1. given \in WordSet /\ Prng!Past(given)
      BY <1>15
    <3> QED
      BY <1>3, <2>1, <3>1, AheadIsNew
  <2> QED
    BY <2>2, <2>3
<1>17. \A word \in served' : Prng!Past(word)'
  <2> SUFFICES ASSUME NEW word \in served' PROVE Prng!Past(word)'
    OBVIOUS
  <2>1. word \in WordSet /\ Prng!Past(word)
    BY <1>15
  <2> QED
    BY <1>3, <1>6, <2>1, PastKept
<1>18. Prng!NothingTwice'
  BY <1>13, <1>16 DEF Prng!NothingTwice
<1>19. left' \in Nat /\ ~(left' > 0)
  BY <1>3
<1>20. served' \subseteq WordSet
  BY <1>15
<1>21. \A word \in (served \cup Prng!Given(result))' : Prng!Past(word)'
  BY <1>16, <1>17
<1> QED
  BY <1>6, <1>8, <1>12, <1>18, <1>19, <1>20, <1>21 DEF Prng!PrngInv, WordSet

(* Where a call ends, the buffer used up or not.                           *)
LEMMA EndIs ==
  ASSUME Prng!SizeAssumption, NEW at \in Nat, at <= Prng!BufSize
  PROVE  LET next == IF Prng!UsedUp(at) THEN 0 ELSE at
         IN  next \in Prng!Cells /\ next \in Nat /\ (~Prng!UsedUp(at) => next = at)
BY PrngSizes DEF Prng!UsedUp

(* The words given before the call, whatever the call.                     *)
LEMMA GivenBefore ==
  ASSUME Prng!SizeAssumption, Prng!PrngInv, NEW full \in BOOLEAN, Prng!RefilledIf(full),
         ptr' \in Nat, ~full => ptr <= ptr', served' = served \cup Prng!Given(result)
  PROVE  /\ served' \subseteq WordSet
         /\ \A word \in served' : word \in WordSet /\ Prng!Past(word) /\ Prng!Past(word)'
<1> SUFFICES ASSUME NEW word \in served'
             PROVE  word \in WordSet /\ Prng!Past(word) /\ Prng!Past(word)'
  OBVIOUS
<1>1. word \in WordSet /\ Prng!Past(word)
  BY ServedIs
<1>2. Prng!Past(word)'
  BY <1>1, PastKept
<1> QED
  BY <1>1, <1>2

LEMMA U8Keeps ==
  ASSUME Prng!SizeAssumption, Prng!PrngInv, Prng!prng_get_u8
  PROVE  Prng!PrngInv'
<1>1. PICK full \in BOOLEAN : full <=> Prng!UsedUp(ptr + 1)
  <2>1. (TRUE <=> Prng!UsedUp(ptr + 1)) \/ (FALSE <=> Prng!UsedUp(ptr + 1))
    OBVIOUS
  <2> QED
    BY <2>1, Zenon
<1>2. PICK k : k = ptr
  OBVIOUS
<1>3. PICK word : word = buf[k]
  OBVIOUS
<1>4. /\ Prng!RefilledIf(full) /\ ptr' = (IF Prng!UsedUp(k + 1) THEN 0 ELSE k + 1)
      /\ left' = left /\ left = 0 /\ result' = <<word>>
      /\ call' = "u8" /\ served' = served \cup Prng!Given(result)
  BY <1>1, <1>2, <1>3 DEF Prng!prng_get_u8, Prng!RefilledIf
<1>5. k \in Prng!Cells /\ k \in Nat /\ k + 1 \in Nat /\ k + 1 <= Prng!BufSize
  BY <1>2, PrngSizes DEF Prng!PrngInv
<1>6. ptr' \in Prng!Cells /\ ptr' \in Nat /\ (full \/ ptr' = k + 1)
  BY <1>1, <1>2, <1>4, <1>5, EndIs
<1>7. (full \/ k < ptr') /\ (~full => ptr <= ptr')
  BY <1>2, <1>5, <1>6
<1>8. word \in WordSet /\ Prng!Past(word)'
  BY <1>3, <1>4, <1>5, <1>6, <1>7, ReadIsPast
<1>9. /\ cc' \in Nat /\ cc' - Lanes \in Nat /\ cc' >= Lanes
      /\ buf' = Prng!FilledAvx2(cc' - Lanes)
  BY <1>4, RefillIs
<1>10. /\ served' \subseteq WordSet
       /\ \A given \in served' : given \in WordSet /\ Prng!Past(given) /\ Prng!Past(given)'
  BY <1>4, <1>6, <1>7, GivenBefore
<1>11. word \notin served'
  <2> SUFFICES ASSUME NEW given \in served' PROVE given # word
    OBVIOUS
  <2>1. given \in WordSet /\ Prng!Past(given)
    BY <1>10
  <2>2. buf[k] # given
    <3>1. cc - Lanes \in Nat /\ buf = Prng!FilledAvx2(cc - Lanes) /\ Lanes \in Nat /\ cc \in Nat
      BY <1>4, RefillIs, PrngSizes
    <3>2. /\ buf[k] \in WordSet /\ buf[k][1] >= cc - Lanes
          /\ \A i, j \in Prng!Cells : buf[i] = buf[j] => i = j
      BY <1>5, <3>1, FilledIs
    <3>3. \A j \in Prng!Cells : j < ptr => buf[j] # buf[k]
      <4>1. \A j \in Prng!Cells : j < ptr => j # k
        BY <1>2, <1>5
      <4> QED
        BY <1>5, <3>2, <4>1
    <3>4. given[1] \in Nat /\ buf[k][1] \in Nat
      BY <2>1, <3>2 DEF WordSet
    <3> QED
      BY <2>1, <3>1, <3>2, <3>3, <3>4 DEF Prng!Past
  <2> QED
    BY <1>3, <2>2
<1>12. result' \in Seq(WordSet) /\ Len(result') = 1 /\ Prng!Given(result') = {word}
  <2>1. result' \in Seq(WordSet) /\ Len(result') = 1 /\ DOMAIN result' = {1} /\ result'[1] = word
    BY <1>4, <1>8
  <2> QED
    BY <2>1 DEF Prng!Given
<1>13. Prng!Cardinality(Prng!Given(result')) = Len(result')
  <2>1. Cardinality({word}) = 1
    BY FS_Singleton
  <2>2. Prng!Cardinality({word}) = Cardinality({word})
    BY DEF Prng!Cardinality, Cardinality
  <2> QED
    BY <1>12, <2>1, <2>2
<1>14. Prng!NothingTwice'
  BY <1>11, <1>12, <1>13 DEF Prng!NothingTwice
<1>15. \A given \in (served \cup Prng!Given(result))' : Prng!Past(given)'
  BY <1>8, <1>10, <1>12
<1>16. left' \in Nat /\ ~(left' > 0)
  BY <1>4
<1> QED
  BY <1>6, <1>9, <1>10, <1>12, <1>14, <1>15, <1>16 DEF Prng!PrngInv, WordSet

LEMMA BytesKeeps ==
  ASSUME Prng!SizeAssumption, Prng!PrngInv, Prng!prng_get_bytes
  PROVE  Prng!PrngInv'
<1>1. /\ left' \in Nat /\ call' = "bytes" /\ result' = << >> /\ served' = served \cup Prng!Given(result)
      /\ buf' = buf /\ ptr' = ptr /\ cc' = cc
  BY PrngSizes DEF Prng!prng_get_bytes
<1>2. Prng!Given(result') = {} /\ result' \in Seq(WordSet)
  BY <1>1 DEF Prng!Given
<1>3. \A word \in served' : word \in WordSet /\ Prng!Past(word)
  BY <1>1, ServedIs
<1>4. \A word : Prng!Past(word) => Prng!Past(word)'
  BY <1>1 DEF Prng!Past, Prng!Cells, Prng!BufSize
<1>5. Prng!NothingTwice'
  BY <1>1 DEF Prng!NothingTwice
<1>6. served' \subseteq WordSet
  BY <1>3
<1>7. \A word \in (served \cup Prng!Given(result))' : Prng!Past(word)'
  BY <1>2, <1>3, <1>4
<1> QED
  BY <1>1, <1>2, <1>5, <1>6, <1>7 DEF Prng!PrngInv, WordSet

(* It copies from the start of the buffer: words that are passed when it   *)
(* has.                                                                    *)
LEMMA CopyKeeps ==
  ASSUME Prng!SizeAssumption, Prng!PrngInv, Prng!CopyBytes
  PROVE  Prng!PrngInv'
<1>1. PICK c : c = Prng!Lesser(Prng!BufSize - ptr, left)
  OBVIOUS
<1>2. PICK at : at = ptr + c
  OBVIOUS
<1>3. PICK full \in BOOLEAN : full <=> Prng!UsedUp(at)
  <2>1. (TRUE <=> Prng!UsedUp(at)) \/ (FALSE <=> Prng!UsedUp(at))
    OBVIOUS
  <2> QED
    BY <2>1, Zenon
<1>4. PICK copied : copied = [k \in 1 .. c |-> buf[k - 1]]
  OBVIOUS
<1>5. /\ Prng!RefilledIf(full) /\ ptr' = (IF Prng!UsedUp(at) THEN 0 ELSE at)
      /\ left' = left - c /\ left > 0 /\ result' = result \o copied
      /\ call' = call /\ served' = served
  BY <1>1, <1>2, <1>3, <1>4 DEF Prng!CopyBytes, Prng!RefilledIf
<1>6. /\ ptr \in Prng!Cells /\ ptr \in Nat /\ ptr < Prng!BufSize
      /\ left \in Nat /\ call = "bytes" /\ Prng!BufSize \in Nat
  BY <1>5, PrngSizes DEF Prng!PrngInv
<1>7. c \in Nat /\ c <= left /\ at \in Nat /\ at <= Prng!BufSize /\ c <= at
  BY <1>1, <1>2, <1>6 DEF Prng!Lesser
<1>8. ptr' \in Prng!Cells /\ ptr' \in Nat /\ (full \/ ptr' = at)
  BY <1>3, <1>5, <1>7, EndIs
<1>9. ~full => ptr <= ptr'
  BY <1>2, <1>6, <1>7, <1>8
<1>10. /\ cc' \in Nat /\ cc' - Lanes \in Nat /\ cc' >= Lanes
       /\ buf' = Prng!FilledAvx2(cc' - Lanes)
  BY <1>5, RefillIs
<1>11. \A k \in 1 .. c : k - 1 \in Prng!Cells /\ (full \/ k - 1 < ptr')
  <2>1. Prng!Cells = 0 .. Prng!BufSize - 1
    BY PrngSizes
  <2> QED
    BY <1>6, <1>7, <1>8, <2>1
<1>12. \A k \in 1 .. c : copied[k] \in WordSet /\ Prng!Past(copied[k])'
  <2> SUFFICES ASSUME NEW k \in 1 .. c PROVE copied[k] \in WordSet /\ Prng!Past(copied[k])'
    OBVIOUS
  <2>1. PICK word : word = copied[k]
    OBVIOUS
  <2>2. word = buf[k - 1] /\ k - 1 \in Prng!Cells /\ (full \/ k - 1 < ptr')
    BY <1>4, <1>11, <2>1
  <2>3. word \in WordSet /\ Prng!Past(word)'
    BY <1>5, <1>8, <2>2, ReadIsPast
  <2> QED
    BY <2>1, <2>3
<1>13. copied \in Seq(WordSet) /\ Len(copied) = c
  <2>1. copied \in [1 .. c -> WordSet]
    BY <1>4, <1>12
  <2>2. copied \in Seq(WordSet)
    BY <1>7, <2>1, SeqDef
  <2> QED
    BY <1>7, <2>1, <2>2, LenProperties
<1>14. result \in Seq(WordSet)
  BY DEF Prng!PrngInv, WordSet
<1>15. PICK n \in Nat : n = Len(result) /\ DOMAIN result = 1 .. n
  BY <1>14, LenProperties
<1>16. /\ result' \in Seq(WordSet) /\ Len(result') = n + c
       /\ \A i \in 1 .. n + c : result'[i] = IF i <= n THEN result[i] ELSE copied[i - n]
  BY <1>5, <1>13, <1>14, <1>15, ConcatProperties
<1>17. DOMAIN result' = 1 .. n + c
  BY <1>16, LenProperties
<1>18. \A word \in Prng!Given(result') :
         word \in Prng!Given(result) \/ \E k \in 1 .. c : word = copied[k]
  <2> SUFFICES ASSUME NEW i \in 1 .. n + c
               PROVE  result'[i] \in Prng!Given(result) \/ \E k \in 1 .. c : result'[i] = copied[k]
    BY <1>17 DEF Prng!Given
  <2>1. CASE i <= n
    BY <1>15, <1>16, <2>1 DEF Prng!Given
  <2>2. CASE i > n
    <3>1. i - n \in 1 .. c /\ result'[i] = copied[i - n]
      BY <1>7, <1>16, <2>2
    <3> QED
      BY <3>1
  <2> QED
    BY <2>1, <2>2
<1>19. \A word \in served \cup Prng!Given(result) : Prng!Past(word)'
  <2> SUFFICES ASSUME NEW word \in served \cup Prng!Given(result) PROVE Prng!Past(word)'
    OBVIOUS
  <2>1. word \in WordSet /\ Prng!Past(word)
    BY ServedIs
  <2> QED
    BY <1>5, <1>8, <1>9, <2>1, PastKept
<1>20. \A word \in (served \cup Prng!Given(result))' : Prng!Past(word)'
  BY <1>5, <1>12, <1>18, <1>19
<1>21. Prng!NothingTwice'
  BY <1>5, <1>6 DEF Prng!NothingTwice
<1>22. left' \in Nat /\ call' = "bytes"
  BY <1>5, <1>6, <1>7
<1>23. served' \subseteq WordSet
  BY <1>5 DEF Prng!PrngInv, WordSet
<1> QED
  BY <1>8, <1>10, <1>16, <1>20, <1>21, <1>22, <1>23 DEF Prng!PrngInv, WordSet

(* The buffer is that of the counter, and what was given is behind it.     *)
THEOREM PrngInvariant == Prng!SizeAssumption => (Prng!Spec => []Prng!PrngInv)
<1> SUFFICES ASSUME Prng!SizeAssumption PROVE Prng!Spec => []Prng!PrngInv
  OBVIOUS
<1>1. Prng!Init => Prng!PrngInv
  BY InitPrng
<1>2. Prng!PrngInv /\ UNCHANGED Prng!vars => Prng!PrngInv'
  BY DEF Prng!vars, Prng!PrngInv, Prng!Past, Prng!NothingTwice, Prng!Cells, Prng!BufSize
<1>3. Prng!PrngInv /\ [Prng!Next]_(Prng!vars) => Prng!PrngInv'
  BY <1>2, U64Keeps, U8Keeps, BytesKeeps, CopyKeeps DEF Prng!Next
<1> QED
  BY <1>1, <1>3, PTL DEF Prng!Spec

(* A value drawn was given by no earlier call, and the buffer is the same  *)
(* in every build (prng_get_u64, prng_get_u8, prng_refill).                *)
THEOREM DrawnOnce ==
  Prng!SizeAssumption => (Prng!Spec => [](Prng!NothingTwice /\ Prng!BuildsAgree))
<1> SUFFICES ASSUME Prng!SizeAssumption PROVE Prng!Spec => [](Prng!NothingTwice /\ Prng!BuildsAgree)
  OBVIOUS
<1>1. ASSUME Prng!PrngInv PROVE Prng!NothingTwice /\ Prng!BuildsAgree
  <2>1. cc - Lanes \in Nat /\ buf = Prng!FilledAvx2(cc - Lanes)
    BY <1>1, PrngSizes DEF Prng!PrngInv
  <2>2. Prng!FilledPortable(cc - Lanes) = Prng!FilledAvx2(cc - Lanes)
    BY <2>1, BothFill
  <2> QED
    BY <1>1, <2>1, <2>2 DEF Prng!PrngInv, Prng!BuildsAgree
<1> QED
  BY <1>1, PrngInvariant, PTL

-----------------------------------------------------------------------------
(* The Keccak permutation: process_block of shake.c, in pairs of rounds    *)
(* with lanes inverted and moved, and keccakf1600_device of                *)
(* soko_gpu_offline.cu, which is plain.                                    *)
VARIABLES lanes, plain, rounds, half
Perm == INSTANCE Keccak WITH A <- lanes, st <- plain, j <- rounds, part <- half

XY == 0 .. 4

LEMMA XorNotIf ==
  ASSUME NEW a \in SUBSET Perm!BitNumbers, NEW b \in SUBSET Perm!BitNumbers,
         NEW c \in BOOLEAN, NEW d \in BOOLEAN
  PROVE  /\ Perm!Xor(Perm!NotIf(c, a), Perm!NotIf(d, b)) = Perm!NotIf(~(c <=> d), Perm!Xor(a, b))
         /\ Perm!Xor(a, b) \in SUBSET Perm!BitNumbers
         /\ Perm!NotIf(c, a) \in SUBSET Perm!BitNumbers
BY DEF Perm!Xor, Perm!NotIf, Perm!Not

LEMMA SameNotIf ==
  ASSUME NEW a, NEW c, NEW d, c <=> d PROVE Perm!NotIf(c, a) = Perm!NotIf(d, a)
BY Zenon DEF Perm!NotIf

LEMMA NotIfTwice ==
  ASSUME NEW a \in SUBSET Perm!BitNumbers, NEW c \in BOOLEAN, NEW d \in BOOLEAN
  PROVE  Perm!NotIf(c, Perm!NotIf(d, a)) = Perm!NotIf(~(c <=> d), a)
BY DEF Perm!NotIf, Perm!Not

LEMMA RotlBits ==
  ASSUME NEW a \in SUBSET Perm!BitNumbers, NEW k \in Perm!BitNumbers
  PROVE  /\ Perm!Rotl(a, k) \in SUBSET Perm!BitNumbers
         /\ \A b \in Perm!BitNumbers : b \in Perm!Rotl(a, k) <=> (b + 64 - k) % 64 \in a
<1>1. \A b \in Perm!BitNumbers : (b + k) % 64 \in Perm!BitNumbers
  BY DEF Perm!BitNumbers
<1>2. \A b, c \in Perm!BitNumbers : c = (b + k) % 64 <=> (c + 64 - k) % 64 = b
  BY DEF Perm!BitNumbers
<1>3. \A c \in Perm!BitNumbers : (c + 64 - k) % 64 \in Perm!BitNumbers
  BY DEF Perm!BitNumbers
<1> DEFINE up(b) == (b + k) % 64
           down(c) == (c + 64 - k) % 64
<1>4. Perm!Rotl(a, k) = {up(b) : b \in a}
  BY DEF Perm!Rotl
<1>5. \A b, c \in Perm!BitNumbers : c = up(b) <=> down(c) = b
  BY <1>2
<1>6. \A b \in Perm!BitNumbers : up(b) \in Perm!BitNumbers /\ down(b) \in Perm!BitNumbers
  BY <1>1, <1>3
<1>7. \A c \in Perm!BitNumbers : c \in Perm!Rotl(a, k) <=> down(c) \in a
  <2> HIDE DEF up, down
  <2> QED
    BY <1>4, <1>5, <1>6
<1>8. Perm!Rotl(a, k) \in SUBSET Perm!BitNumbers
  <2> HIDE DEF up, down
  <2> QED
    BY <1>4, <1>6
<1> QED
  BY <1>7, <1>8

LEMMA RotlNotIf ==
  ASSUME NEW a \in SUBSET Perm!BitNumbers, NEW k \in Perm!BitNumbers, NEW c \in BOOLEAN
  PROVE  Perm!Rotl(Perm!NotIf(c, a), k) = Perm!NotIf(c, Perm!Rotl(a, k))
<1>1. Perm!Not(a) \in SUBSET Perm!BitNumbers
  BY DEF Perm!Not
<1>2. \A b \in Perm!BitNumbers : (b + 64 - k) % 64 \in Perm!BitNumbers
  BY DEF Perm!BitNumbers
<1>3. Perm!Rotl(Perm!Not(a), k) = Perm!Not(Perm!Rotl(a, k))
  <2>1. \A b \in Perm!BitNumbers : b \in Perm!Rotl(Perm!Not(a), k) <=> (b + 64 - k) % 64 \in Perm!Not(a)
    BY <1>1, RotlBits
  <2>2. \A b \in Perm!BitNumbers : b \in Perm!Rotl(a, k) <=> (b + 64 - k) % 64 \in a
    BY RotlBits
  <2>3. Perm!Rotl(Perm!Not(a), k) \in SUBSET Perm!BitNumbers
    BY <1>1, RotlBits
  <2> QED
    BY <1>2, <2>1, <2>2, <2>3, Zenon DEF Perm!Not
<1> QED
  BY <1>3 DEF Perm!NotIf

(* A lane's place in either of the two layouts of process_block.           *)
LEMMA PlacesAre ==
  ASSUME NEW x \in XY, NEW y \in XY
  PROVE  /\ Perm!Place1(x, y) = ((x + 3 * y) % 5) + 5 * x
         /\ Perm!Place2(x, y) = ((4 * x + 3 * y) % 5) + 5 * ((x + 3 * y) % 5)
<1>1. x \in {0, 1, 2, 3, 4} /\ y \in {0, 1, 2, 3, 4}
  BY DEF XY
<1>2. CASE y = 0
  BY <1>1, <1>2 DEF Perm!Place1, Perm!Place2, Perm!FirstPlaces, Perm!SecondPlaces
<1>3. CASE y = 1
  BY <1>1, <1>3 DEF Perm!Place1, Perm!Place2, Perm!FirstPlaces, Perm!SecondPlaces
<1>4. CASE y = 2
  BY <1>1, <1>4 DEF Perm!Place1, Perm!Place2, Perm!FirstPlaces, Perm!SecondPlaces
<1>5. CASE y = 3
  BY <1>1, <1>5 DEF Perm!Place1, Perm!Place2, Perm!FirstPlaces, Perm!SecondPlaces
<1>6. CASE y = 4
  BY <1>1, <1>6 DEF Perm!Place1, Perm!Place2, Perm!FirstPlaces, Perm!SecondPlaces
<1> QED
  BY <1>1, <1>2, <1>3, <1>4, <1>5, <1>6

LEMMA LanesApart ==
  ASSUME NEW x \in XY, NEW y \in XY, NEW a \in XY, NEW b \in XY
  PROVE  /\ Perm!Place0(x, y) \in Perm!Places
         /\ Perm!Place1(x, y) \in Perm!Places
         /\ Perm!Place2(x, y) \in Perm!Places
         /\ Perm!Place0(x, y) = Perm!Place0(a, b) => x = a /\ y = b
         /\ Perm!Place1(x, y) = Perm!Place1(a, b) => x = a /\ y = b
         /\ Perm!Place2(x, y) = Perm!Place2(a, b) => x = a /\ y = b
<1>1. /\ Perm!Place0(x, y) \in Perm!Places
      /\ Perm!Place0(x, y) = Perm!Place0(a, b) => x = a /\ y = b
  BY DEF Perm!Place0, Perm!Places, XY
<1>2. /\ Perm!Place1(x, y) \in Perm!Places
      /\ Perm!Place1(x, y) = Perm!Place1(a, b) => x = a /\ y = b
  BY PlacesAre DEF Perm!Places, XY
<1>3. /\ Perm!Place2(x, y) \in Perm!Places
      /\ Perm!Place2(x, y) = Perm!Place2(a, b) => x = a /\ y = b
  BY PlacesAre DEF Perm!Places, XY
<1> QED
  BY <1>1, <1>2, <1>3

OverPlaces(B) == B = [spot \in Perm!Places |-> B[spot]]

LEMMA ThetaRhoAt0 ==
  ASSUME NEW B, NEW x \in XY, NEW y \in XY
  PROVE  /\ OverPlaces(Perm!ThetaRho(B, Perm!Place0))
         /\ Perm!ThetaRho(B, Perm!Place0)[Perm!Place0(x, y)] =
              Perm!Rotl(Perm!Xor(B[Perm!Place0(x, y)],
                                 Perm!ThetaOf([z \in XY |-> Perm!ColumnOf(B, z, Perm!Place0)], x)),
                        Perm!Offsets[y + 1][x + 1])
<1> DEFINE i == Perm!Place0(x, y)
           c == CHOOSE c \in (0 .. 4) \X (0 .. 4) : Perm!Place0(c[1], c[2]) = i
<1>1. c = <<x, y>>
  <2>1. <<x, y>> \in (0 .. 4) \X (0 .. 4) /\ Perm!Place0(<<x, y>>[1], <<x, y>>[2]) = i
    BY DEF XY
  <2>2. c \in (0 .. 4) \X (0 .. 4) /\ Perm!Place0(c[1], c[2]) = i
    BY <2>1
  <2> HIDE DEF c
  <2>3. c[1] \in XY /\ c[2] \in XY
    BY <2>2 DEF XY
  <2>4. c[1] = x /\ c[2] = y
    BY <2>2, <2>3, LanesApart
  <2> QED
    BY <2>2, <2>4
<1>2. i \in Perm!Places
  BY LanesApart
<1> DEFINE sums == [z \in 0 .. 4 |-> Perm!ColumnOf(B, z, Perm!Place0)]
           at(k) == CHOOSE d \in (0 .. 4) \X (0 .. 4) : Perm!Place0(d[1], d[2]) = k
           lane(k, d) == Perm!Rotl(Perm!Xor(B[k], Perm!ThetaOf(sums, d[1])), Perm!Offsets[d[2] + 1][d[1] + 1])
<1>3. Perm!ThetaRho(B, Perm!Place0) = [k \in Perm!Places |-> lane(k, at(k))]
  BY DEF Perm!ThetaRho
<1>4. at(i) = <<x, y>>
  BY <1>1
<1>5. lane(i, <<x, y>>) = Perm!Rotl(Perm!Xor(B[i], Perm!ThetaOf(sums, x)), Perm!Offsets[y + 1][x + 1])
  OBVIOUS
<1> HIDE DEF at, lane
<1>6. Perm!ThetaRho(B, Perm!Place0)[i] = lane(i, at(i))
  BY <1>2, <1>3
<1>7. OverPlaces(Perm!ThetaRho(B, Perm!Place0))
  BY <1>3 DEF OverPlaces
<1> QED
  BY <1>4, <1>5, <1>6, <1>7 DEF XY

LEMMA ThetaRhoAt1 ==
  ASSUME NEW B, NEW x \in XY, NEW y \in XY
  PROVE  /\ OverPlaces(Perm!ThetaRho(B, Perm!Place1))
         /\ Perm!ThetaRho(B, Perm!Place1)[Perm!Place1(x, y)] =
              Perm!Rotl(Perm!Xor(B[Perm!Place1(x, y)],
                                 Perm!ThetaOf([z \in XY |-> Perm!ColumnOf(B, z, Perm!Place1)], x)),
                        Perm!Offsets[y + 1][x + 1])
<1> DEFINE i == Perm!Place1(x, y)
           c == CHOOSE c \in (0 .. 4) \X (0 .. 4) : Perm!Place1(c[1], c[2]) = i
<1>1. c = <<x, y>>
  <2>1. <<x, y>> \in (0 .. 4) \X (0 .. 4) /\ Perm!Place1(<<x, y>>[1], <<x, y>>[2]) = i
    BY DEF XY
  <2>2. c \in (0 .. 4) \X (0 .. 4) /\ Perm!Place1(c[1], c[2]) = i
    BY <2>1
  <2> HIDE DEF c
  <2>3. c[1] \in XY /\ c[2] \in XY
    BY <2>2 DEF XY
  <2>4. c[1] = x /\ c[2] = y
    BY <2>2, <2>3, LanesApart
  <2> QED
    BY <2>2, <2>4
<1>2. i \in Perm!Places
  BY LanesApart
<1> DEFINE sums == [z \in 0 .. 4 |-> Perm!ColumnOf(B, z, Perm!Place1)]
           at(k) == CHOOSE d \in (0 .. 4) \X (0 .. 4) : Perm!Place1(d[1], d[2]) = k
           lane(k, d) == Perm!Rotl(Perm!Xor(B[k], Perm!ThetaOf(sums, d[1])), Perm!Offsets[d[2] + 1][d[1] + 1])
<1>3. Perm!ThetaRho(B, Perm!Place1) = [k \in Perm!Places |-> lane(k, at(k))]
  BY DEF Perm!ThetaRho
<1>4. at(i) = <<x, y>>
  BY <1>1
<1>5. lane(i, <<x, y>>) = Perm!Rotl(Perm!Xor(B[i], Perm!ThetaOf(sums, x)), Perm!Offsets[y + 1][x + 1])
  OBVIOUS
<1> HIDE DEF at, lane
<1>6. Perm!ThetaRho(B, Perm!Place1)[i] = lane(i, at(i))
  BY <1>2, <1>3
<1>7. OverPlaces(Perm!ThetaRho(B, Perm!Place1))
  BY <1>3 DEF OverPlaces
<1> QED
  BY <1>4, <1>5, <1>6, <1>7 DEF XY

Row1(B, y) == [z \in XY |-> B[Perm!Place1(z, y)]]

LEMMA ChiIotaAt1 ==
  ASSUME NEW B, NEW k, NEW x \in XY, NEW y \in XY
  PROVE  /\ OverPlaces(Perm!ChiIota(B, Perm!Place1, k))
         /\ Perm!ChiIota(B, Perm!Place1, k)[Perm!Place1(x, y)] =
              IF Perm!Place1(x, y) = 0 THEN Perm!Xor(Perm!ChiTerm(Row1(B, y), x, y), k)
              ELSE Perm!ChiTerm(Row1(B, y), x, y)
<1> DEFINE i == Perm!Place1(x, y)
           at(spot) == CHOOSE d \in (0 .. 4) \X (0 .. 4) : Perm!Place1(d[1], d[2]) = spot
           c == at(i)
           line(d) == [z \in 0 .. 4 |-> B[Perm!Place1(z, d[2])]]
           lane(spot, d) == IF spot = 0 THEN Perm!Xor(Perm!ChiTerm(line(d), d[1], d[2]), k)
                         ELSE Perm!ChiTerm(line(d), d[1], d[2])
<1>1. c = <<x, y>>
  <2>1. <<x, y>> \in (0 .. 4) \X (0 .. 4) /\ Perm!Place1(<<x, y>>[1], <<x, y>>[2]) = i
    BY DEF XY
  <2>2. c \in (0 .. 4) \X (0 .. 4) /\ Perm!Place1(c[1], c[2]) = i
    BY <2>1
  <2> HIDE DEF c
  <2>3. c[1] \in XY /\ c[2] \in XY
    BY <2>2 DEF XY
  <2>4. c[1] = x /\ c[2] = y
    BY <2>2, <2>3, LanesApart
  <2> QED
    BY <2>2, <2>4
<1>2. i \in Perm!Places
  BY LanesApart
<1>3. Perm!ChiIota(B, Perm!Place1, k) = [spot \in Perm!Places |-> lane(spot, at(spot))]
  BY DEF Perm!ChiIota
<1>4. lane(i, <<x, y>>) = IF i = 0 THEN Perm!Xor(Perm!ChiTerm(line(<<x, y>>), x, y), k)
                          ELSE Perm!ChiTerm(line(<<x, y>>), x, y)
  OBVIOUS
<1>5. line(<<x, y>>) = Row1(B, y)
  BY DEF XY, Row1
<1> HIDE DEF at, lane, line
<1>6. Perm!ChiIota(B, Perm!Place1, k)[i] = lane(i, at(i))
  BY <1>2, <1>3
<1>7. OverPlaces(Perm!ChiIota(B, Perm!Place1, k))
  BY <1>3 DEF OverPlaces
<1> QED
  BY <1>1, <1>4, <1>5, <1>6, <1>7

Row2(B, y) == [z \in XY |-> B[Perm!Place2(z, y)]]

LEMMA ChiIotaAt2 ==
  ASSUME NEW B, NEW k, NEW x \in XY, NEW y \in XY
  PROVE  /\ OverPlaces(Perm!ChiIota(B, Perm!Place2, k))
         /\ Perm!ChiIota(B, Perm!Place2, k)[Perm!Place2(x, y)] =
              IF Perm!Place2(x, y) = 0 THEN Perm!Xor(Perm!ChiTerm(Row2(B, y), x, y), k)
              ELSE Perm!ChiTerm(Row2(B, y), x, y)
<1> DEFINE i == Perm!Place2(x, y)
           at(spot) == CHOOSE d \in (0 .. 4) \X (0 .. 4) : Perm!Place2(d[1], d[2]) = spot
           c == at(i)
           line(d) == [z \in 0 .. 4 |-> B[Perm!Place2(z, d[2])]]
           lane(spot, d) == IF spot = 0 THEN Perm!Xor(Perm!ChiTerm(line(d), d[1], d[2]), k)
                         ELSE Perm!ChiTerm(line(d), d[1], d[2])
<1>1. c = <<x, y>>
  <2>1. <<x, y>> \in (0 .. 4) \X (0 .. 4) /\ Perm!Place2(<<x, y>>[1], <<x, y>>[2]) = i
    BY DEF XY
  <2>2. c \in (0 .. 4) \X (0 .. 4) /\ Perm!Place2(c[1], c[2]) = i
    BY <2>1
  <2> HIDE DEF c
  <2>3. c[1] \in XY /\ c[2] \in XY
    BY <2>2 DEF XY
  <2>4. c[1] = x /\ c[2] = y
    BY <2>2, <2>3, LanesApart
  <2> QED
    BY <2>2, <2>4
<1>2. i \in Perm!Places
  BY LanesApart
<1>3. Perm!ChiIota(B, Perm!Place2, k) = [spot \in Perm!Places |-> lane(spot, at(spot))]
  BY DEF Perm!ChiIota
<1>4. lane(i, <<x, y>>) = IF i = 0 THEN Perm!Xor(Perm!ChiTerm(line(<<x, y>>), x, y), k)
                          ELSE Perm!ChiTerm(line(<<x, y>>), x, y)
  OBVIOUS
<1>5. line(<<x, y>>) = Row2(B, y)
  BY DEF XY, Row2
<1> HIDE DEF at, lane, line
<1>6. Perm!ChiIota(B, Perm!Place2, k)[i] = lane(i, at(i))
  BY <1>2, <1>3
<1>7. OverPlaces(Perm!ChiIota(B, Perm!Place2, k))
  BY <1>3 DEF OverPlaces
<1> QED
  BY <1>1, <1>4, <1>5, <1>6, <1>7

(* Where the lane that comes to (x, y) was before it was moved.            *)
LEMMA ComesFrom ==
  ASSUME NEW x \in XY, NEW y \in XY
  PROVE  /\ (x + 3 * y) % 5 \in XY
         /\ Perm!Place1(x, y) = Perm!Place0((x + 3 * y) % 5, x)
         /\ Perm!Place2(x, y) = Perm!Place1((x + 3 * y) % 5, x)
<1>1. (x + 3 * y) % 5 \in XY
  BY DEF XY
<1>2. Perm!Place1(x, y) = Perm!Place0((x + 3 * y) % 5, x)
  BY PlacesAre DEF Perm!Place0, XY
<1>3. Perm!Place2(x, y) = Perm!Place1((x + 3 * y) % 5, x)
  BY <1>1, PlacesAre DEF XY
<1> QED
  BY <1>1, <1>2, <1>3

LEMMA OffsetsAre ==
  ASSUME NEW x \in XY, NEW y \in XY
  PROVE  Perm!Offsets[y + 1][x + 1] \in Perm!BitNumbers
<1>1. x \in {0, 1, 2, 3, 4} /\ y \in {0, 1, 2, 3, 4}
  BY DEF XY
<1>2. CASE y = 0
  BY <1>1, <1>2 DEF Perm!Offsets, Perm!BitNumbers
<1>3. CASE y = 1
  BY <1>1, <1>3 DEF Perm!Offsets, Perm!BitNumbers
<1>4. CASE y = 2
  BY <1>1, <1>4 DEF Perm!Offsets, Perm!BitNumbers
<1>5. CASE y = 3
  BY <1>1, <1>5 DEF Perm!Offsets, Perm!BitNumbers
<1>6. CASE y = 4
  BY <1>1, <1>6 DEF Perm!Offsets, Perm!BitNumbers
<1> QED
  BY <1>1, <1>2, <1>3, <1>4, <1>5, <1>6

(* The plain walk takes each lane where the other layout has it, turned by *)
(* the same offset.                                                        *)
LEMMA WalkIs ==
  ASSUME NEW i \in 1 .. 24
  PROVE  (CHOOSE k \in 1 .. 24 : Perm!keccakf_piln_device[k] = Perm!keccakf_piln_device[i]) = i
<1> DEFINE piln == Perm!keccakf_piln_device
<1>1. \A k \in 1 .. 24 : piln[k] = piln[i] => k = i
  BY DEF Perm!keccakf_piln_device
<1> QED
  BY <1>1

LEMMA WalkEverywhere ==
  ASSUME NEW spot \in 1 .. 24
  PROVE  \E i \in 1 .. 24 : Perm!keccakf_piln_device[i] = spot
BY DEF Perm!keccakf_piln_device

LEMMA WalkTables ==
  ASSUME NEW i \in 1 .. 24
  PROVE  LET spot == Perm!keccakf_piln_device[i]
             x == spot % 5
             y == spot \div 5
         IN  /\ spot \in 1 .. 24
             /\ ((x + 3 * y) % 5) + 5 * x = IF i = 1 THEN 1 ELSE Perm!keccakf_piln_device[i - 1]
             /\ Perm!keccakf_rotc_device[i] = Perm!Offsets[x + 1][((x + 3 * y) % 5) + 1]
<1>1. CASE i \in 1 .. 8
  BY <1>1 DEF Perm!keccakf_piln_device, Perm!keccakf_rotc_device, Perm!Offsets
<1>2. CASE i \in 9 .. 16
  BY <1>2 DEF Perm!keccakf_piln_device, Perm!keccakf_rotc_device, Perm!Offsets
<1>3. CASE i \in 17 .. 24
  BY <1>3 DEF Perm!keccakf_piln_device, Perm!keccakf_rotc_device, Perm!Offsets
<1> QED
  BY <1>1, <1>2, <1>3

LEMMA RotlNone ==
  ASSUME NEW a \in SUBSET Perm!BitNumbers PROVE Perm!Rotl(a, 0) = a
<1>1. \A b \in Perm!BitNumbers : (b + 64 - 0) % 64 = b
  BY DEF Perm!BitNumbers
<1>2. 0 \in Perm!BitNumbers
  BY DEF Perm!BitNumbers
<1>3. \A b \in Perm!BitNumbers : b \in Perm!Rotl(a, 0) <=> (b + 64 - 0) % 64 \in a
  BY <1>2, RotlBits
<1>4. Perm!Rotl(a, 0) \in SUBSET Perm!BitNumbers
  BY <1>2, RotlBits
<1>5. \A b \in Perm!BitNumbers : b \in Perm!Rotl(a, 0) <=> b \in a
  BY <1>1, <1>3, Zenon
<1> DEFINE z == Perm!Rotl(a, 0)
<1> HIDE DEF z
<1>6. z \in SUBSET Perm!BitNumbers /\ \A b \in Perm!BitNumbers : b \in z <=> b \in a
  BY <1>4, <1>5 DEF z
<1>7. z = a
  BY <1>6
<1> QED
  BY <1>7 DEF z

LEMMA RhoPiAt ==
  ASSUME NEW B \in Perm!Lanes, NEW x \in XY, NEW y \in XY
  PROVE  /\ OverPlaces(Perm!RhoPiDevice(B))
         /\ Perm!RhoPiDevice(B)[Perm!Place0(x, y)] =
              Perm!Rotl(B[Perm!Place1(x, y)], Perm!Offsets[x + 1][((x + 3 * y) % 5) + 1])
<1> DEFINE spot == Perm!Place0(x, y)
           piln == Perm!keccakf_piln_device
           at(q) == CHOOSE i \in 1 .. 24 : piln[i] = q
           lane(i) == Perm!Rotl(B[IF i = 1 THEN 1 ELSE piln[i - 1]], Perm!keccakf_rotc_device[i])
<1>1. Perm!RhoPiDevice(B) = [q \in Perm!Places |-> IF q = 0 THEN B[0] ELSE lane(at(q))]
  BY DEF Perm!RhoPiDevice
<1>2. spot \in Perm!Places
  BY LanesApart
<1>5. OverPlaces(Perm!RhoPiDevice(B))
  <2> HIDE DEF lane, at
  <2> QED
    BY <1>1 DEF OverPlaces
<1>3. CASE spot = 0
  <2>1. x = 0 /\ y = 0
    BY <1>3 DEF Perm!Place0, XY
  <2>2. Perm!Offsets[x + 1][((x + 3 * y) % 5) + 1] = 0 /\ Perm!Place1(x, y) = 0
    BY <2>1 DEF Perm!Offsets, Perm!Place1, Perm!FirstPlaces
  <2>3. B[0] \in SUBSET Perm!BitNumbers
    BY <1>2, <1>3 DEF Perm!Lanes
  <2> HIDE DEF lane, at
  <2>4. Perm!RhoPiDevice(B)[spot] = B[0]
    BY <1>1, <1>2, <1>3
  <2> QED
    BY <1>5, <2>2, <2>3, <2>4, RotlNone
<1>4. CASE spot # 0
  <2>1. spot \in 1 .. 24
    BY <1>2, <1>4 DEF Perm!Places
  <2>2. PICK i \in 1 .. 24 : piln[i] = spot
    BY <2>1, WalkEverywhere
  <2>3. at(spot) = i
    BY <2>2, WalkIs
  <2>4. spot % 5 = x /\ spot \div 5 = y
    BY DEF Perm!Place0, XY
  <2>5. lane(i) = Perm!Rotl(B[Perm!Place1(x, y)], Perm!Offsets[x + 1][((x + 3 * y) % 5) + 1])
    BY <2>2, <2>4, WalkTables, PlacesAre
  <2> HIDE DEF lane, at
  <2> QED
    BY <1>1, <1>2, <1>4, <1>5, <2>3, <2>5
<1> QED
  BY <1>3, <1>4

(* A column's sum is inverted where an odd number of its lanes is.         *)
LEMMA SumIs ==
  ASSUME NEW C \in Perm!Lanes, NEW x \in XY, NEW d,
         \A y \in XY : d[y] = Perm!NotIf(Perm!InvertedAt(x, y), C[Perm!Place0(x, y)])
  PROVE  /\ Perm!Xor(d[0], Perm!Xor(d[1], Perm!Xor(d[2], Perm!Xor(d[3], d[4]))))
              = Perm!NotIf(x # 4, Perm!ColumnOf(C, x, Perm!Place0))
         /\ Perm!ColumnOf(C, x, Perm!Place0) \in SUBSET Perm!BitNumbers
<1> DEFINE a(y) == C[Perm!Place0(x, y)]
           n(y) == Perm!InvertedAt(x, y)
           s3 == Perm!Xor(a(3), a(4))   m3 == ~(n(3) <=> n(4))
           s2 == Perm!Xor(a(2), s3)     m2 == ~(n(2) <=> m3)
           s1 == Perm!Xor(a(1), s2)     m1 == ~(n(1) <=> m2)
           s0 == Perm!Xor(a(0), s1)     m0 == ~(n(0) <=> m1)
<1>1. \A y \in XY : a(y) \in SUBSET Perm!BitNumbers
  BY LanesApart DEF Perm!Lanes
<1>2. \A y \in XY : d[y] = Perm!NotIf(n(y), a(y)) /\ n(y) \in BOOLEAN
  BY DEF Perm!InvertedAt
<1>3. 0 \in XY /\ 1 \in XY /\ 2 \in XY /\ 3 \in XY /\ 4 \in XY
  BY DEF XY
<1>4. m0 <=> x # 4
  <2>1. x \in {0, 1, 2, 3, 4}
    BY DEF XY
  <2> QED
    BY <2>1 DEF Perm!InvertedAt, Perm!InvertedPlaces, Perm!Place0
<1>5. Perm!ColumnOf(C, x, Perm!Place0) = s0
  BY DEF Perm!ColumnOf
<1>6. m3 \in BOOLEAN /\ m2 \in BOOLEAN /\ m1 \in BOOLEAN /\ m0 \in BOOLEAN
  OBVIOUS
<1> HIDE DEF a, n
<1>7. Perm!Xor(d[3], d[4]) = Perm!NotIf(m3, s3) /\ s3 \in SUBSET Perm!BitNumbers
  BY <1>1, <1>2, <1>3, XorNotIf
<1>8. Perm!Xor(d[2], Perm!NotIf(m3, s3)) = Perm!NotIf(m2, s2) /\ s2 \in SUBSET Perm!BitNumbers
  <2> HIDE DEF s3, m3
  <2> QED
    BY <1>1, <1>2, <1>3, <1>6, <1>7, XorNotIf
<1>9. Perm!Xor(d[1], Perm!NotIf(m2, s2)) = Perm!NotIf(m1, s1) /\ s1 \in SUBSET Perm!BitNumbers
  <2> HIDE DEF s2, m2
  <2> QED
    BY <1>1, <1>2, <1>3, <1>6, <1>8, XorNotIf
<1>10. Perm!Xor(d[0], Perm!NotIf(m1, s1)) = Perm!NotIf(m0, s0) /\ s0 \in SUBSET Perm!BitNumbers
  <2> HIDE DEF s1, m1
  <2> QED
    BY <1>1, <1>2, <1>3, <1>6, <1>9, XorNotIf
<1> HIDE DEF s0, s1, s2, s3, m0, m1, m2, m3
<1> QED
  BY <1>4, <1>5, <1>7, <1>8, <1>9, <1>10

(* What theta adds is inverted for columns 0 and 3.                        *)
LEMMA ThetaIs ==
  ASSUME NEW C, NEW S, NEW x \in XY,
         \A z \in XY : C[z] \in SUBSET Perm!BitNumbers /\ S[z] = Perm!NotIf(z # 4, C[z])
  PROVE  /\ Perm!ThetaOf(S, x) = Perm!NotIf(x \in {0, 3}, Perm!ThetaOf(C, x))
         /\ Perm!ThetaOf(C, x) \in SUBSET Perm!BitNumbers
<1> DEFINE l == (x + 4) % 5   r == (x + 1) % 5
<1>1. l \in XY /\ r \in XY /\ 1 \in Perm!BitNumbers
  BY DEF XY, Perm!BitNumbers
<1>2. ~(l # 4 <=> r # 4) <=> x \in {0, 3}
  <2>1. x \in {0, 1, 2, 3, 4}
    BY DEF XY
  <2> QED
    BY <2>1
<1>3. Perm!ThetaOf(S, x) = Perm!Xor(S[l], Perm!Rotl(S[r], 1)) /\ Perm!ThetaOf(C, x) = Perm!Xor(C[l], Perm!Rotl(C[r], 1))
  BY DEF Perm!ThetaOf
<1> DEFINE el == l # 4   er == r # 4   a == Perm!Rotl(C[r], 1)   e == ~(el <=> er)
<1>4. el \in BOOLEAN /\ er \in BOOLEAN /\ e \in BOOLEAN /\ (e <=> x \in {0, 3})
  BY <1>2
<1>5. /\ S[l] = Perm!NotIf(el, C[l]) /\ S[r] = Perm!NotIf(er, C[r])
      /\ C[l] \in SUBSET Perm!BitNumbers /\ C[r] \in SUBSET Perm!BitNumbers
  BY <1>1
<1> HIDE DEF l, r, el, er
<1>6. Perm!Rotl(S[r], 1) = Perm!NotIf(er, a) /\ a \in SUBSET Perm!BitNumbers
  BY <1>1, <1>4, <1>5, RotlNotIf, RotlBits
<1> HIDE DEF a
<1>7. /\ Perm!Xor(S[l], Perm!Rotl(S[r], 1)) = Perm!NotIf(e, Perm!Xor(C[l], a))
      /\ Perm!Xor(C[l], a) \in SUBSET Perm!BitNumbers
  BY <1>1, <1>4, <1>5, <1>6, XorNotIf
<1> HIDE DEF e
<1>8. Perm!NotIf(e, Perm!Xor(C[l], a)) = Perm!NotIf(x \in {0, 3}, Perm!Xor(C[l], a))
  BY <1>4, SameNotIf
<1> QED
  BY <1>3, <1>7, <1>8, Zenon DEF a

(* The last step on a row of lanes that theta left inverted as they were.  *)
InvertedInRow(x, y) == Perm!InvertedAfterTheta((x + 3 * y) % 5, x)

(* Which term of a row combines by "or", and which lanes it negates.       *)
LEMMA ChiTables ==
  ASSUME NEW x \in XY, NEW y \in XY
  PROVE  LET n == (x + 1) % 5
             a == (x + 2) % 5
         IN  /\ ~(<<x, y>> \in Perm!NegatedNext <=> InvertedInRow(n, y)) <=> x \notin Perm!OrTerms(y)
             /\ ~(<<x, y>> \in Perm!NegatedAfter <=> InvertedInRow(a, y)) <=> x \in Perm!OrTerms(y)
             /\ ~(<<x, y>> \in Perm!NegatedSelf <=> InvertedInRow(x, y))
                   <=> ~(Perm!InvertedAt(x, y) <=> x \in Perm!OrTerms(y))
<1> USE DEF Perm!NegatedNext, Perm!NegatedAfter, Perm!NegatedSelf, Perm!OrTerms, InvertedInRow,
            Perm!InvertedAfterTheta, Perm!InvertedAt, Perm!InvertedPlaces, Perm!Place0
<1>0. x \in {0, 1, 2, 3, 4} /\ y \in {0, 1, 2, 3, 4}
  BY DEF XY
<1>1. CASE y = 0
  BY <1>0, <1>1
<1>2. CASE y = 1
  BY <1>0, <1>2
<1>3. CASE y = 2
  BY <1>0, <1>3
<1>4. CASE y = 3
  BY <1>0, <1>4
<1>5. CASE y = 4
  BY <1>0, <1>5
<1> QED
  BY <1>0, <1>1, <1>2, <1>3, <1>4, <1>5

(* A lane and the two next to it in the last step.                        *)
Chi(a, b, c) == Perm!Xor(a, Perm!Not(b) \cap c)

LEMMA ChiIs ==
  ASSUME NEW x \in XY, NEW y \in XY, NEW row, NEW r,
         \A z \in XY : r[z] \in SUBSET Perm!BitNumbers /\ row[z] = Perm!NotIf(InvertedInRow(z, y), r[z])
  PROVE  Perm!ChiTerm(row, x, y) =
           Perm!NotIf(Perm!InvertedAt(x, y), Chi(r[x], r[(x + 1) % 5], r[(x + 2) % 5]))
<1> DEFINE n == (x + 1) % 5   a == (x + 2) % 5   xy == <<x, y>>
           ps == xy \in Perm!NegatedSelf    px == InvertedInRow(x, y)   spot == ~(ps <=> px)
           qs == xy \in Perm!NegatedNext    qn == InvertedInRow(n, y)   q == ~(qs <=> qn)
           ss == xy \in Perm!NegatedAfter   sa == InvertedInRow(a, y)   s == ~(ss <=> sa)
           or == x \in Perm!OrTerms(y)      i == Perm!InvertedAt(x, y)
           self == Perm!NotIf(ps, row[x])
           next == Perm!NotIf(qs, row[n])
           after == Perm!NotIf(ss, row[a])
<1>1. n \in XY /\ a \in XY
  BY DEF XY
<1>2. (q <=> ~or) /\ (s <=> or) /\ (spot <=> ~(i <=> or))
  BY ChiTables
<1>3. /\ ps \in BOOLEAN /\ qs \in BOOLEAN /\ ss \in BOOLEAN
      /\ px \in BOOLEAN /\ qn \in BOOLEAN /\ sa \in BOOLEAN /\ or \in BOOLEAN /\ i \in BOOLEAN
  BY DEF InvertedInRow, Perm!InvertedAfterTheta, Perm!InvertedAt
<1>4. Perm!ChiTerm(row, x, y) = Perm!Xor(self, IF or THEN next \cup after ELSE next \cap after)
  BY DEF Perm!ChiTerm
<1>r. /\ row[x] = Perm!NotIf(px, r[x]) /\ r[x] \in SUBSET Perm!BitNumbers
      /\ row[n] = Perm!NotIf(qn, r[n]) /\ r[n] \in SUBSET Perm!BitNumbers
      /\ row[a] = Perm!NotIf(sa, r[a]) /\ r[a] \in SUBSET Perm!BitNumbers
  BY <1>1
<1> HIDE DEF n, a, ps, px, qs, qn, ss, sa, or, i
<1>5. self = Perm!NotIf(spot, r[x])
  BY <1>3, <1>r, NotIfTwice
<1>6. next = Perm!NotIf(q, r[n])
  BY <1>3, <1>r, NotIfTwice
<1>7. after = Perm!NotIf(s, r[a])
  BY <1>3, <1>r, NotIfTwice
<1>8. r[x] \in SUBSET Perm!BitNumbers /\ r[n] \in SUBSET Perm!BitNumbers /\ r[a] \in SUBSET Perm!BitNumbers
  BY <1>r
<1> HIDE DEF self, next, after, spot, q, s
<1>9. Perm!Xor(self, IF or THEN next \cup after ELSE next \cap after)
        = Perm!NotIf(i, Chi(r[x], r[n], r[a]))
  <2>1. CASE or
    <3>1. next = r[n] /\ after = Perm!Not(r[a]) /\ self = Perm!NotIf(~i, r[x])
      BY <2>1, <1>2, <1>3, <1>5, <1>6, <1>7 DEF Perm!NotIf
    <3> QED
      BY <2>1, <3>1, <1>3, <1>8 DEF Perm!NotIf, Perm!Not, Perm!Xor, Chi
  <2>2. CASE ~or
    <3>1. next = Perm!Not(r[n]) /\ after = r[a] /\ self = Perm!NotIf(i, r[x])
      BY <2>2, <1>2, <1>3, <1>5, <1>6, <1>7 DEF Perm!NotIf
    <3> QED
      BY <2>2, <3>1, <1>3, <1>8 DEF Perm!NotIf, Perm!Not, Perm!Xor, Chi
  <2> QED
    BY <2>1, <2>2
<1> QED
  BY <1>4, <1>9 DEF i, n, a

LEMMA ConstantsAre ==
  ASSUME NEW k \in 1 .. 24 PROVE Perm!RC[k] \in SUBSET Perm!BitNumbers
BY DEF Perm!RC, Perm!BitNumbers

(* The last step of the plain permutation.                                 *)
LEMMA ChiDeviceAt ==
  ASSUME NEW B, NEW k, NEW x \in XY, NEW y \in XY
  PROVE  Perm!ChiIotaDevice(B, k)[Perm!Place0(x, y)] =
           LET term == Chi(B[Perm!Place0(x, y)], B[Perm!Place0((x + 1) % 5, y)], B[Perm!Place0((x + 2) % 5, y)])
           IN  IF Perm!Place0(x, y) = 0 THEN Perm!Xor(term, k) ELSE term
<1> DEFINE i == Perm!Place0(x, y)
           next(z) == 5 * (i \div 5) + ((i + z) % 5)
           lane(spot) == LET nx(z) == B[5 * (spot \div 5) + ((spot + z) % 5)]
                          term == Chi(B[spot], nx(1), nx(2))
                      IN  IF spot = 0 THEN Perm!Xor(term, k) ELSE term
<1>1. i \in Perm!Places
  BY LanesApart
<1>2. next(1) = Perm!Place0((x + 1) % 5, y) /\ next(2) = Perm!Place0((x + 2) % 5, y)
  BY DEF Perm!Place0, XY
<1>3. Perm!ChiIotaDevice(B, k) = [spot \in Perm!Places |-> lane(spot)]
  BY DEF Perm!ChiIotaDevice, Chi
<1>4. lane(i) = LET term == Chi(B[i], B[next(1)], B[next(2)])
                IN  IF i = 0 THEN Perm!Xor(term, k) ELSE term
  OBVIOUS
<1> HIDE DEF lane, next
<1>5. Perm!ChiIotaDevice(B, k)[i] = lane(i)
  BY <1>1, <1>3
<1> QED
  BY <1>2, <1>4, <1>5

(* The moves after the second round bring the lanes back.                  *)
Cycle1 == <<5, 18, 11, 10, 6, 22, 20, 12, 19, 15, 24, 8>>
Cycle2 == <<1, 9, 14, 2, 13, 23, 4, 21, 16, 3, 17, 7>>

LEMMA CyclesAre ==
  /\ Perm!MoveCycles = {Cycle1, Cycle2}
  /\ \A i : Perm!Contains(Cycle1, i) <=> \E k \in 1 .. 12 : Cycle1[k] = i
  /\ \A i : Perm!Contains(Cycle2, i) <=> \E k \in 1 .. 12 : Cycle2[k] = i
  /\ DOMAIN Cycle1 = 1 .. 12 /\ DOMAIN Cycle2 = 1 .. 12 /\ Len(Cycle1) = 12 /\ Len(Cycle2) = 12
<1>1. DOMAIN Cycle1 = 1 .. 12 /\ DOMAIN Cycle2 = 1 .. 12 /\ Len(Cycle1) = 12 /\ Len(Cycle2) = 12
  BY DEF Cycle1, Cycle2
<1>2. Perm!MoveCycles = {Cycle1, Cycle2}
  BY DEF Perm!MoveCycles, Cycle1, Cycle2
<1>3. \A i : Perm!Contains(Cycle1, i) <=> \E k \in 1 .. 12 : Cycle1[k] = i
  BY <1>1 DEF Perm!Contains
<1>4. \A i : Perm!Contains(Cycle2, i) <=> \E k \in 1 .. 12 : Cycle2[k] = i
  BY <1>1 DEF Perm!Contains
<1> QED
  BY <1>1, <1>2, <1>3, <1>4

LEMMA CyclesApart ==
  ASSUME NEW k \in 1 .. 12, NEW m \in 1 .. 12
  PROVE  /\ Cycle1[k] # Cycle2[m]
         /\ Cycle1[k] = Cycle1[m] => k = m
         /\ Cycle2[k] = Cycle2[m] => k = m
         /\ Cycle1[k] \in 1 .. 24 /\ Cycle2[k] \in 1 .. 24
<1>1. Cycle1[k] # Cycle2[m]
  BY DEF Cycle1, Cycle2
<1>2. Cycle1[k] = Cycle1[m] => k = m
  BY DEF Cycle1
<1>3. Cycle2[k] = Cycle2[m] => k = m
  BY DEF Cycle2
<1>4. Cycle1[k] \in 1 .. 24 /\ Cycle2[k] \in 1 .. 24
  BY DEF Cycle1, Cycle2
<1> QED
  BY <1>1, <1>2, <1>3, <1>4

LEMMA CyclesCover ==
  ASSUME NEW i \in 1 .. 24
  PROVE  (\E k \in 1 .. 12 : Cycle1[k] = i) \/ (\E k \in 1 .. 12 : Cycle2[k] = i)
BY DEF Cycle1, Cycle2

LEMMA CyclesMove ==
  ASSUME NEW k \in 1 .. 12
  PROVE  LET Follows(spot) == ((4 * (spot % 5) + 3 * (spot \div 5)) % 5) + 5 * (((spot % 5) + 3 * (spot \div 5)) % 5)
         IN  Cycle1[(k % 12) + 1] = Follows(Cycle1[k]) /\ Cycle2[(k % 12) + 1] = Follows(Cycle2[k])
<1>1. CASE k \in 1 .. 6
  BY <1>1 DEF Cycle1, Cycle2
<1>2. CASE k \in 7 .. 12
  BY <1>2 DEF Cycle1, Cycle2
<1> QED
  BY <1>1, <1>2

LEMMA MovedBack ==
  ASSUME NEW B, NEW x \in XY, NEW y \in XY
  PROVE  Perm!Moved(B)[Perm!Place0(x, y)] = B[Perm!Place2(x, y)]
<1> DEFINE spot == Perm!Place0(x, y)
           of(i) == CHOOSE d \in Perm!MoveCycles : Perm!Contains(d, i)
           at(c, i) == CHOOSE k \in DOMAIN c : c[k] = i
           lane(i) == B[of(i)[(at(of(i), i) % Len(of(i))) + 1]]
           moves(i) == \E d \in Perm!MoveCycles : Perm!Contains(d, i)
<1>1. Perm!Moved(B) = [i \in Perm!Places |-> IF moves(i) THEN lane(i) ELSE B[i]]
  BY DEF Perm!Moved
<1>2. spot \in Perm!Places /\ spot % 5 = x /\ spot \div 5 = y /\ spot \in 0 .. 24
  BY DEF Perm!Place0, XY, Perm!Places
<1>3. CASE spot = 0
  <2>1. x = 0 /\ y = 0
    BY <1>2, <1>3
  <2>2. Perm!Place2(x, y) = 0
    BY <2>1 DEF Perm!Place2, Perm!SecondPlaces
  <2>3. ~moves(spot)
    BY <1>3, CyclesAre, CyclesApart
  <2> HIDE DEF lane, moves
  <2> QED
    BY <1>1, <1>2, <1>3, <2>2, <2>3
<1>4. ASSUME NEW c, NEW d, {c, d} = Perm!MoveCycles, NEW k \in 1 .. 12, spot = c[k],
             DOMAIN c = 1 .. 12, Len(c) = 12, Perm!Contains(c, spot), ~Perm!Contains(d, spot),
             \A m \in 1 .. 12 : c[m] = spot => m = k, c[(k % 12) + 1] = Perm!Place2(x, y)
      PROVE  Perm!Moved(B)[spot] = B[Perm!Place2(x, y)]
  <2>1. of(spot) = c
    BY <1>4
  <2>2. at(c, spot) = k
    BY <1>4
  <2>3. moves(spot)
    BY <1>4
  <2> HIDE DEF of, at
  <2>4. lane(spot) = B[Perm!Place2(x, y)]
    BY <2>1, <2>2, <1>4
  <2> HIDE DEF lane, moves
  <2> QED
    BY <1>1, <1>2, <2>3, <2>4
<1>5. CASE spot # 0
  <2>1. spot \in 1 .. 24
    BY <1>2, <1>5
  <2>2. CASE \E k \in 1 .. 12 : Cycle1[k] = spot
    <3> PICK k \in 1 .. 12 : Cycle1[k] = spot
      BY <2>2
    <3>1. Cycle1[(k % 12) + 1] = Perm!Place2(x, y)
      BY <1>2, CyclesMove, PlacesAre
    <3>2. Perm!Contains(Cycle1, spot) /\ ~Perm!Contains(Cycle2, spot)
      BY CyclesAre, CyclesApart
    <3>3. \A m \in 1 .. 12 : Cycle1[m] = spot => m = k
      BY CyclesApart
    <3>4. {Cycle1, Cycle2} = Perm!MoveCycles /\ DOMAIN Cycle1 = 1 .. 12 /\ Len(Cycle1) = 12
      BY CyclesAre
    <3>5. spot = Cycle1[k]
      OBVIOUS
    <3> QED
      BY <1>4, <3>1, <3>2, <3>3, <3>4, <3>5, Zenon
  <2>3. CASE \E k \in 1 .. 12 : Cycle2[k] = spot
    <3> PICK k \in 1 .. 12 : Cycle2[k] = spot
      BY <2>3
    <3>1. Cycle2[(k % 12) + 1] = Perm!Place2(x, y)
      BY <1>2, CyclesMove, PlacesAre
    <3>2. Perm!Contains(Cycle2, spot) /\ ~Perm!Contains(Cycle1, spot)
      BY CyclesAre, CyclesApart
    <3>3. \A m \in 1 .. 12 : Cycle2[m] = spot => m = k
      BY CyclesApart
    <3>4. {Cycle2, Cycle1} = Perm!MoveCycles /\ DOMAIN Cycle2 = 1 .. 12 /\ Len(Cycle2) = 12
      BY CyclesAre
    <3>5. spot = Cycle2[k]
      OBVIOUS
    <3> QED
      BY <1>4, <3>1, <3>2, <3>3, <3>4, <3>5, Zenon
  <2> QED
    BY <2>1, <2>2, <2>3, CyclesCover
<1> QED
  BY <1>3, <1>5

-----------------------------------------------------------------------------
LEMMA InitKeccak == Perm!Init => Perm!KeccakInv
<1> SUFFICES ASSUME Perm!Init PROVE Perm!KeccakInv
  OBVIOUS
<1> USE DEF Perm!Init, Perm!Start
<1>1. lanes \in Perm!Lanes
  BY XorNotIf DEF Perm!Inverted, Perm!Lanes, Perm!Places, Perm!NotIf, Perm!Not
<1>2. \A x, y \in XY : Perm!Before(x, y) = Perm!NotIf(Perm!InvertedAt(x, y), plain[Perm!Place0(x, y)])
  BY LanesApart DEF Perm!Before, Perm!Inverted, Perm!InvertedAt
<1> QED
  BY <1>1, <1>2 DEF Perm!KeccakInv, XY

(* Every place holds some lane, in each layout.                            *)
LEMMA PlacesFilled ==
  ASSUME NEW i \in Perm!Places
  PROVE  /\ \E x, y \in XY : i = Perm!Place0(x, y)
         /\ \E x, y \in XY : i = Perm!Place1(x, y)
         /\ \E x, y \in XY : i = Perm!Place2(x, y)
<1> DEFINE a == i % 5   b == i \div 5   here == (2 * a + 3 * b) % 5   near == (2 * b + 3 * here) % 5
<1>1. a \in XY /\ b \in XY /\ here \in XY /\ near \in XY /\ i = a + 5 * b
  BY DEF Perm!Places, XY
<1>2. i = Perm!Place0(a, b)
  BY <1>1 DEF Perm!Place0
<1>3. (b + 3 * here) % 5 = a
  BY <1>1 DEF XY
<1>4. (4 * here + 3 * near) % 5 = a /\ (here + 3 * near) % 5 = b
  BY <1>1 DEF XY
<1> HIDE DEF a, b, here, near
<1>5. i = Perm!Place1(b, here)
  BY <1>1, <1>3, PlacesAre
<1>6. i = Perm!Place2(here, near)
  BY <1>1, <1>4, PlacesAre
<1> QED
  BY <1>1, <1>2, <1>5, <1>6

(* theta and the rotations, in either round.                               *)
LEMMA RotateKeeps == Perm!KeccakInv /\ Perm!Rotate => Perm!KeccakInv'
<1> SUFFICES ASSUME Perm!KeccakInv, Perm!Rotate PROVE Perm!KeccakInv'
  OBVIOUS
<1>0. /\ rounds % 2 = 0 => lanes' = Perm!ThetaRho(lanes, Perm!Place0)
      /\ rounds % 2 # 0 => lanes' = Perm!ThetaRho(lanes, Perm!Place1)
      /\ plain' = Perm!ThetaDevice(plain)
      /\ half = "rotate" /\ half' = "combine" /\ rounds' = rounds /\ rounds < 24
  BY DEF Perm!Rotate
<1> DEFINE at(x, y) == IF rounds % 2 = 0 THEN Perm!Place0(x, y) ELSE Perm!Place1(x, y)
           sums == [z \in XY |-> Perm!Xor(lanes[at(z, 0)], Perm!Xor(lanes[at(z, 1)],
                     Perm!Xor(lanes[at(z, 2)], Perm!Xor(lanes[at(z, 3)], lanes[at(z, 4)]))))]
           bc == [z \in XY |-> Perm!ColumnOf(plain, z, Perm!Place0)]
<1>1. /\ lanes \in Perm!Lanes /\ plain \in Perm!Lanes /\ rounds \in 0 .. 23
      /\ \A x, y \in XY : lanes[at(x, y)] = Perm!NotIf(Perm!InvertedAt(x, y), plain[Perm!Place0(x, y)])
  BY <1>0 DEF Perm!KeccakInv, Perm!Before, XY
<1>2. \A x \in XY : sums[x] = Perm!NotIf(x # 4, bc[x]) /\ bc[x] \in SUBSET Perm!BitNumbers
  <2> TAKE x \in XY
  <2> DEFINE d == [y \in XY |-> lanes[at(x, y)]]
  <2>1. \A y \in XY : d[y] = Perm!NotIf(Perm!InvertedAt(x, y), plain[Perm!Place0(x, y)])
    BY <1>1
  <2>2. sums[x] = Perm!Xor(d[0], Perm!Xor(d[1], Perm!Xor(d[2], Perm!Xor(d[3], d[4]))))
    BY DEF XY
  <2> HIDE DEF d, sums
  <2> QED
    BY <1>1, <2>1, <2>2, SumIs
<1>3. \A x, y \in XY : lanes'[at(x, y)] = Perm!Rotl(Perm!Xor(lanes[at(x, y)], Perm!ThetaOf(sums, x)), Perm!Offsets[y + 1][x + 1])
  <2> TAKE x \in XY, y \in XY
  <2>1. CASE rounds % 2 = 0
    <3>1. sums = [z \in XY |-> Perm!ColumnOf(lanes, z, Perm!Place0)]
      BY <2>1 DEF Perm!ColumnOf
    <3> QED
      BY <1>0, <2>1, <3>1, ThetaRhoAt0
  <2>2. CASE rounds % 2 # 0
    <3>1. sums = [z \in XY |-> Perm!ColumnOf(lanes, z, Perm!Place1)]
      BY <2>2 DEF Perm!ColumnOf
    <3> QED
      BY <1>0, <2>2, <3>1, ThetaRhoAt1
  <2> QED
    BY <2>1, <2>2
<1>4. \A x, y \in XY : plain'[Perm!Place0(x, y)] = Perm!Xor(plain[Perm!Place0(x, y)], Perm!ThetaOf(bc, x))
  <2> TAKE x \in XY, y \in XY
  <2>1. Perm!Place0(x, y) % 5 = x /\ Perm!Place0(x, y) \in Perm!Places
    BY DEF Perm!Place0, Perm!Places, XY
  <2>2. plain' = [i \in Perm!Places |-> Perm!Xor(plain[i], Perm!ThetaOf(bc, i % 5))]
    BY <1>0 DEF Perm!ThetaDevice, XY
  <2> HIDE DEF bc
  <2> QED
    BY <2>1, <2>2
<1> HIDE DEF sums, bc, at
<1>5. \A x, y \in XY :
        /\ lanes'[at(x, y)] = Perm!NotIf(Perm!InvertedAfterTheta(x, y),
                                  Perm!Rotl(plain'[Perm!Place0(x, y)], Perm!Offsets[y + 1][x + 1]))
        /\ plain'[Perm!Place0(x, y)] \in SUBSET Perm!BitNumbers
        /\ lanes'[at(x, y)] \in SUBSET Perm!BitNumbers
  <2> TAKE x \in XY, y \in XY
  <2> DEFINE n == Perm!InvertedAt(x, y)   t == x \in {0, 3}   m == ~(n <=> t)
             a == plain[Perm!Place0(x, y)]   k == Perm!Offsets[y + 1][x + 1]
             w == Perm!ThetaOf(bc, x)   b == Perm!Xor(a, w)
  <2>1. n \in BOOLEAN /\ t \in BOOLEAN /\ (m <=> Perm!InvertedAfterTheta(x, y))
    BY DEF Perm!InvertedAt, Perm!InvertedAfterTheta
  <2>2. a \in SUBSET Perm!BitNumbers /\ k \in Perm!BitNumbers
    BY <1>1, LanesApart, OffsetsAre DEF Perm!Lanes
  <2>3. lanes[at(x, y)] = Perm!NotIf(n, a)
    BY <1>1
  <2>4. Perm!ThetaOf(sums, x) = Perm!NotIf(t, w) /\ w \in SUBSET Perm!BitNumbers
    BY <1>2, ThetaIs
  <2> HIDE DEF n, t, a, k, w
  <2>5. Perm!Xor(lanes[at(x, y)], Perm!ThetaOf(sums, x)) = Perm!NotIf(m, b) /\ b \in SUBSET Perm!BitNumbers
    BY <2>1, <2>2, <2>3, <2>4, XorNotIf
  <2> HIDE DEF m, b
  <2>6. m \in BOOLEAN
    BY <2>1 DEF m
  <2>7. /\ Perm!Rotl(Perm!NotIf(m, b), k) = Perm!NotIf(m, Perm!Rotl(b, k))
        /\ Perm!Rotl(b, k) \in SUBSET Perm!BitNumbers
        /\ Perm!NotIf(m, Perm!Rotl(b, k)) \in SUBSET Perm!BitNumbers
    <3>1. b \in SUBSET Perm!BitNumbers /\ k \in Perm!BitNumbers
      BY <2>2, <2>5
    <3>2. Perm!Rotl(Perm!NotIf(m, b), k) = Perm!NotIf(m, Perm!Rotl(b, k))
      BY <2>6, <3>1, RotlNotIf
    <3>3. Perm!Rotl(b, k) \in SUBSET Perm!BitNumbers
      BY <3>1, RotlBits
    <3>4. Perm!NotIf(m, Perm!Rotl(b, k)) \in SUBSET Perm!BitNumbers
      BY <2>6, <3>3 DEF Perm!NotIf, Perm!Not
    <3> QED
      BY <3>2, <3>3, <3>4
  <2>8. Perm!NotIf(m, Perm!Rotl(b, k)) = Perm!NotIf(Perm!InvertedAfterTheta(x, y), Perm!Rotl(b, k))
    BY <2>1, SameNotIf
  <2>9. lanes'[at(x, y)] = Perm!Rotl(Perm!Xor(lanes[at(x, y)], Perm!ThetaOf(sums, x)), k)
    BY <1>3 DEF k
  <2>10. plain'[Perm!Place0(x, y)] = b
    BY <1>4 DEF a, b, w
  <2> QED
    BY <2>5, <2>7, <2>8, <2>9, <2>10 DEF k
<1>6. \A i \in Perm!Places : (\E x, y \in XY : i = Perm!Place0(x, y)) /\ (\E x, y \in XY : i = at(x, y))
  BY PlacesFilled DEF at
<1>7. OverPlaces(lanes')
  <2>1. 0 \in XY
    BY DEF XY
  <2> QED
    BY <1>0, <2>1, ThetaRhoAt0, ThetaRhoAt1
<1>8. OverPlaces(plain')
  BY <1>0 DEF Perm!ThetaDevice, OverPlaces
<1>9. lanes' \in Perm!Lanes /\ plain' \in Perm!Lanes
  BY <1>5, <1>6, <1>7, <1>8 DEF Perm!Lanes, OverPlaces
<1> QED
  BY <1>0, <1>1, <1>5, <1>9 DEF Perm!KeccakInv, Perm!Before, XY, at

(* The last step on every row, in either round.                            *)
LEMMA CombineKeeps == Perm!KeccakInv /\ Perm!Combine => Perm!KeccakInv'
<1> SUFFICES ASSUME Perm!KeccakInv, Perm!Combine PROVE Perm!KeccakInv'
  OBVIOUS
<1> DEFINE from(x, y) == IF rounds % 2 = 0 THEN Perm!Place0(x, y) ELSE Perm!Place1(x, y)
           to(x, y) == IF rounds % 2 = 0 THEN Perm!Place1(x, y) ELSE Perm!Place2(x, y)
           k == Perm!RC[rounds + 1]
           c(x, y) == (x + 3 * y) % 5
           off(x, y) == Perm!Offsets[y + 1][x + 1]
           r(y) == [z \in XY |-> plain'[Perm!Place0(z, y)]]
           row(y) == [z \in XY |-> lanes[to(z, y)]]
<1>0. /\ rounds % 2 = 0 => lanes' = Perm!ChiIota(lanes, Perm!Place1, k)
      /\ rounds % 2 # 0 => lanes' = Perm!ChiIota(lanes, Perm!Place2, k)
      /\ plain' = Perm!RhoPiDevice(plain)
      /\ half = "combine" /\ half' = "finish" /\ rounds' = rounds
  BY DEF Perm!Combine
<1>1. /\ lanes \in Perm!Lanes /\ plain \in Perm!Lanes /\ rounds \in 0 .. 23
      /\ \A x, y \in XY : lanes[from(x, y)] =
           Perm!NotIf(Perm!InvertedAfterTheta(x, y), Perm!Rotl(plain[Perm!Place0(x, y)], off(x, y)))
  BY <1>0 DEF Perm!KeccakInv, Perm!Before, XY
<1>2. \A x, y \in XY : /\ c(x, y) \in XY /\ to(x, y) = from(c(x, y), x)
                       /\ Perm!Place1(x, y) = Perm!Place0(c(x, y), x)
  BY ComesFrom
<1>3. \A x, y \in XY :
        /\ plain'[Perm!Place0(x, y)] = Perm!Rotl(plain[Perm!Place1(x, y)], off(c(x, y), x))
        /\ plain'[Perm!Place0(x, y)] \in SUBSET Perm!BitNumbers
  <2> TAKE x \in XY, y \in XY
  <2>1. plain'[Perm!Place0(x, y)] = Perm!Rotl(plain[Perm!Place1(x, y)], off(c(x, y), x))
    BY <1>0, <1>1, RhoPiAt
  <2>2. plain[Perm!Place1(x, y)] \in SUBSET Perm!BitNumbers
    BY <1>1, LanesApart DEF Perm!Lanes
  <2>3. off(c(x, y), x) \in Perm!BitNumbers
    BY <1>2, OffsetsAre
  <2> QED
    BY <2>1, <2>2, <2>3, RotlBits
<1> HIDE DEF c, off, from, to
<1>4. \A y, z \in XY : r(y)[z] \in SUBSET Perm!BitNumbers /\ row(y)[z] = Perm!NotIf(InvertedInRow(z, y), r(y)[z])
  <2> TAKE y \in XY, z \in XY
  <2>1. lanes[to(z, y)] = Perm!NotIf(Perm!InvertedAfterTheta(c(z, y), z),
                                     Perm!Rotl(plain[Perm!Place0(c(z, y), z)], off(c(z, y), z)))
    BY <1>1, <1>2
  <2>2. InvertedInRow(z, y) <=> Perm!InvertedAfterTheta(c(z, y), z)
    BY DEF InvertedInRow, c
  <2>3. lanes[to(z, y)] = Perm!NotIf(Perm!InvertedAfterTheta(c(z, y), z), plain'[Perm!Place0(z, y)])
    BY <1>2, <1>3, <2>1
  <2> QED
    BY <1>3, <2>2, <2>3, SameNotIf
<1>5. \A x, y \in XY :
        /\ lanes'[to(x, y)] = IF to(x, y) = 0 THEN Perm!Xor(Perm!ChiTerm(row(y), x, y), k)
                              ELSE Perm!ChiTerm(row(y), x, y)
        /\ OverPlaces(lanes')
  <2> TAKE x \in XY, y \in XY
  <2>1. CASE rounds % 2 = 0
    <3>1. row(y) = Row1(lanes, y) /\ to(x, y) = Perm!Place1(x, y)
      BY <2>1 DEF to, Row1
    <3> HIDE DEF row, k
    <3>2. lanes' = Perm!ChiIota(lanes, Perm!Place1, k)
      BY <1>0, <2>1
    <3>3. /\ OverPlaces(Perm!ChiIota(lanes, Perm!Place1, k))
          /\ Perm!ChiIota(lanes, Perm!Place1, k)[Perm!Place1(x, y)] =
               IF Perm!Place1(x, y) = 0 THEN Perm!Xor(Perm!ChiTerm(Row1(lanes, y), x, y), k)
               ELSE Perm!ChiTerm(Row1(lanes, y), x, y)
      BY ChiIotaAt1
    <3> QED
      BY <3>1, <3>2, <3>3
  <2>2. CASE rounds % 2 # 0
    <3>1. row(y) = Row2(lanes, y) /\ to(x, y) = Perm!Place2(x, y)
      BY <2>2 DEF to, Row2
    <3> HIDE DEF row, k
    <3>2. lanes' = Perm!ChiIota(lanes, Perm!Place2, k)
      BY <1>0, <2>2
    <3>3. /\ OverPlaces(Perm!ChiIota(lanes, Perm!Place2, k))
          /\ Perm!ChiIota(lanes, Perm!Place2, k)[Perm!Place2(x, y)] =
               IF Perm!Place2(x, y) = 0 THEN Perm!Xor(Perm!ChiTerm(Row2(lanes, y), x, y), k)
               ELSE Perm!ChiTerm(Row2(lanes, y), x, y)
      BY ChiIotaAt2
    <3> QED
      BY <3>1, <3>2, <3>3
  <2> QED
    BY <2>1, <2>2
<1>6. \A x, y \in XY : to(x, y) = 0 <=> Perm!Place0(x, y) = 0
  BY PlacesAre DEF to, Perm!Place0, XY
<1>7. k \in SUBSET Perm!BitNumbers
  BY <1>1, ConstantsAre
<1>8. \A x, y \in XY :
        LET a == Perm!ChiIotaDevice(plain', k)[Perm!Place0(x, y)]
        IN  /\ lanes'[to(x, y)] = Perm!NotIf(Perm!InvertedAt(x, y), a)
            /\ lanes'[to(x, y)] \in SUBSET Perm!BitNumbers
  <2> TAKE x \in XY, y \in XY
  <2> DEFINE n == (x + 1) % 5   m == (x + 2) % 5
             here == plain'[Perm!Place0(x, y)]   near == plain'[Perm!Place0(n, y)]   w == plain'[Perm!Place0(m, y)]
             t == Chi(here, near, w)
             inv == Perm!InvertedAt(x, y)
  <2>1. n \in XY /\ m \in XY
    BY DEF XY
  <2>2. Perm!ChiTerm(row(y), x, y) = Perm!NotIf(inv, Chi(r(y)[x], r(y)[n], r(y)[m]))
    <3> DEFINE f == row(y)   g == r(y)
    <3>1. \A z \in XY : g[z] \in SUBSET Perm!BitNumbers /\ f[z] = Perm!NotIf(InvertedInRow(z, y), g[z])
      BY <1>4
    <3> HIDE DEF f, g
    <3>2. Perm!ChiTerm(f, x, y) = Perm!NotIf(Perm!InvertedAt(x, y), Chi(g[x], g[(x + 1) % 5], g[(x + 2) % 5]))
      BY <3>1, ChiIs
    <3> QED
      BY <3>2 DEF f, g
  <2>3. r(y)[x] = here /\ r(y)[n] = near /\ r(y)[m] = w
    BY <2>1
  <2>4. Perm!ChiIotaDevice(plain', k)[Perm!Place0(x, y)] = IF Perm!Place0(x, y) = 0 THEN Perm!Xor(t, k) ELSE t
    <3> DEFINE f == plain'
    <3> HIDE DEF f, k
    <3> QED
      BY ChiDeviceAt DEF f
  <2>5. here \in SUBSET Perm!BitNumbers /\ near \in SUBSET Perm!BitNumbers /\ w \in SUBSET Perm!BitNumbers
    BY <1>3, <2>1
  <2>6. inv \in BOOLEAN /\ (Perm!Place0(x, y) = 0 => ~inv)
    BY DEF Perm!InvertedAt, Perm!InvertedPlaces
  <2> HIDE DEF n, m, here, near, w, inv, row, r
  <2>7. t \in SUBSET Perm!BitNumbers
    BY <2>5 DEF Perm!Xor, Perm!Not, Chi
  <2> HIDE DEF t
  <2>8. Perm!NotIf(inv, t) \in SUBSET Perm!BitNumbers /\ Perm!Xor(t, k) \in SUBSET Perm!BitNumbers
    BY <1>7, <2>6, <2>7, XorNotIf
  <2>9. Perm!ChiTerm(row(y), x, y) = Perm!NotIf(inv, t)
    BY <2>2, <2>3 DEF t
  <2>10. CASE Perm!Place0(x, y) = 0
    <3>1. Perm!NotIf(inv, t) = t /\ Perm!NotIf(inv, Perm!Xor(t, k)) = Perm!Xor(t, k)
      BY <2>6, <2>10 DEF Perm!NotIf
    <3> QED
      BY <1>5, <1>6, <2>4, <2>8, <2>9, <2>10, <3>1 DEF inv
  <2>11. CASE Perm!Place0(x, y) # 0
    BY <1>5, <1>6, <2>4, <2>8, <2>9, <2>11 DEF inv
  <2> QED
    BY <2>10, <2>11
<1>9. plain' \in Perm!Lanes
  <2>1. OverPlaces(plain')
    <3>1. 0 \in XY
      BY DEF XY
    <3> QED
      BY <1>0, <1>1, <3>1, RhoPiAt
  <2> QED
    BY <1>3, <2>1, PlacesFilled DEF Perm!Lanes, OverPlaces
<1>10. lanes' \in Perm!Lanes
  <2>1. \A i \in Perm!Places : \E x, y \in XY : i = to(x, y)
    BY PlacesFilled DEF to
  <2>2. OverPlaces(lanes')
    <3>1. 0 \in XY
      BY DEF XY
    <3> QED
      BY <1>5, <3>1
  <2> QED
    BY <1>8, <2>1, <2>2 DEF Perm!Lanes, OverPlaces
<1> QED
  BY <1>0, <1>1, <1>8, <1>9, <1>10 DEF Perm!KeccakInv, Perm!After, XY, to

(* The moves after a second round.                                         *)
LEMMA FinishKeeps == Perm!KeccakInv /\ Perm!Finish => Perm!KeccakInv'
<1> SUFFICES ASSUME Perm!KeccakInv, Perm!Finish PROVE Perm!KeccakInv'
  OBVIOUS
<1> DEFINE k == Perm!RC[rounds + 1]
<1>0. /\ rounds % 2 = 0 => lanes' = lanes
      /\ rounds % 2 # 0 => lanes' = Perm!Moved(lanes)
      /\ plain' = Perm!ChiIotaDevice(plain, k)
      /\ half = "finish" /\ half' = "rotate" /\ rounds' = rounds + 1
  BY DEF Perm!Finish
<1>1. /\ lanes \in Perm!Lanes /\ plain \in Perm!Lanes /\ rounds \in 0 .. 23
      /\ \A x, y \in XY : Perm!After(x, y) = Perm!NotIf(Perm!InvertedAt(x, y), plain'[Perm!Place0(x, y)])
  BY <1>0 DEF Perm!KeccakInv, XY
<1>2. \A x, y \in XY : Perm!Before(x, y)' = Perm!After(x, y)
  <2> TAKE x \in XY, y \in XY
  <2>1. CASE rounds % 2 = 0
    <3>1. (rounds + 1) % 2 # 0
      BY <1>1, <2>1
    <3> QED
      BY <1>0, <2>1, <3>1 DEF Perm!Before, Perm!After
  <2>2. CASE rounds % 2 # 0
    <3>1. (rounds + 1) % 2 = 0
      BY <1>1, <2>2
    <3> QED
      BY <1>0, <2>2, <3>1, MovedBack DEF Perm!Before, Perm!After
  <2> QED
    BY <2>1, <2>2
<1>3. plain' \in Perm!Lanes
  <2>1. k \in SUBSET Perm!BitNumbers
    BY <1>1, ConstantsAre
  <2> HIDE DEF k
  <2>2. \A i \in Perm!Places : 5 * (i \div 5) + ((i + 1) % 5) \in Perm!Places /\ 5 * (i \div 5) + ((i + 2) % 5) \in Perm!Places
    BY DEF Perm!Places
  <2> QED
    BY <1>0, <1>1, <2>1, <2>2 DEF Perm!ChiIotaDevice, Perm!Lanes, Perm!Xor, Perm!Not
<1>4. lanes' \in Perm!Lanes
  <2>1. CASE rounds % 2 = 0
    BY <1>0, <1>1, <2>1
  <2>2. CASE rounds % 2 # 0
    <3>1. lanes' = [i \in Perm!Places |-> lanes'[i]]
      BY <1>0, <2>2, Zenon DEF Perm!Moved
    <3>2. \A x, y \in XY : lanes'[Perm!Place0(x, y)] \in SUBSET Perm!BitNumbers
      BY <1>0, <1>1, <2>2, MovedBack, LanesApart DEF Perm!Lanes
    <3> QED
      BY <3>1, <3>2, PlacesFilled DEF Perm!Lanes
  <2> QED
    BY <2>1, <2>2
<1> QED
  BY <1>0, <1>1, <1>2, <1>3, <1>4 DEF Perm!KeccakInv, Perm!InvertedAt, XY

THEOREM KeccakInvariant == Perm!Spec => []Perm!KeccakInv
<1>1. Perm!KeccakInv /\ [Perm!Next]_(Perm!vars) => Perm!KeccakInv'
  <2> SUFFICES ASSUME Perm!KeccakInv, [Perm!Next]_(Perm!vars) PROVE Perm!KeccakInv'
    OBVIOUS
  <2>1. CASE UNCHANGED Perm!vars
    BY <2>1 DEF Perm!vars, Perm!KeccakInv, Perm!Before, Perm!After
  <2> QED
    BY <2>1, RotateKeeps, CombineKeeps, FinishKeeps DEF Perm!Next
<1> QED
  BY <1>1, InitKeccak, PTL DEF Perm!Spec

(* What the CPU permutes in place, two rounds at a time and with lanes     *)
(* inverted and moved, is what the GPU permutes plainly, whatever the      *)
(* lanes hold (process_block, keccakf1600_device).                         *)
THEOREM PermutationsAgree == Perm!Spec => [](Perm!LanesAgree /\ Perm!LanesInPlace)
<1>1. Perm!KeccakInv => Perm!LanesAgree
  <2> SUFFICES ASSUME Perm!KeccakInv, half = "rotate", rounds % 2 = 0 PROVE plain = Perm!Inverted(lanes)
    BY DEF Perm!LanesAgree
  <2>1. \A i \in Perm!Places : plain[i] = Perm!NotIf(i \in Perm!InvertedPlaces, lanes[i])
    <3> TAKE i \in Perm!Places
    <3> PICK x \in XY, y \in XY : i = Perm!Place0(x, y)
      BY PlacesFilled
    <3>1. lanes[i] = Perm!NotIf(i \in Perm!InvertedPlaces, plain[i]) /\ plain[i] \in SUBSET Perm!BitNumbers
      BY DEF Perm!KeccakInv, Perm!Before, Perm!InvertedAt, Perm!Lanes, XY
    <3> QED
      BY <3>1 DEF Perm!NotIf, Perm!Not
  <2>2. plain \in Perm!Lanes
    BY DEF Perm!KeccakInv
  <2> QED
    BY <2>1, <2>2 DEF Perm!Inverted, Perm!Lanes
<1>2. Perm!KeccakInv => Perm!LanesInPlace
  BY DEF Perm!KeccakInv, Perm!LanesInPlace, Perm!Before, Perm!InvertedAt
<1> QED
  BY <1>1, <1>2, KeccakInvariant, PTL

(* The lanes the run starts from are lanes.                                *)
LEMMA PatternsAre == Perm!Patterns \subseteq Perm!Lanes
<1> SUFFICES ASSUME NEW B \in Perm!Patterns PROVE B \in Perm!Lanes
  OBVIOUS
<1>1. CASE B = [i \in Perm!Places |-> {}]
  BY <1>1 DEF Perm!Lanes
<1>2. CASE B = [i \in Perm!Places |-> Perm!BitNumbers]
  BY <1>2 DEF Perm!Lanes
<1>3. CASE \E spot \in {0, 7, 24} : B = [i \in Perm!Places |-> IF i = spot THEN {5} ELSE {}]
  <2>1. {5} \subseteq Perm!BitNumbers
    BY DEF Perm!BitNumbers
  <2> QED
    BY <1>3, <2>1 DEF Perm!Lanes
<1>4. CASE \E k \in 1 .. 3 : B = [i \in Perm!Places |->
               {b \in Perm!BitNumbers : (b * b * k + i * (b + k)) % 7 < 3}]
  BY <1>4 DEF Perm!Lanes
<1> QED
  BY <1>1, <1>2, <1>3, <1>4 DEF Perm!Patterns
=============================================================================
