------------------------------- MODULE Keccak --------------------------------
(***************************************************************************)
(* The Keccak permutation twice: process_block of                          *)
(* src/submodules/FN-DSA/shake.c, which does two rounds at a time, keeps   *)
(* six lanes inverted and moves lanes only after the second round, and     *)
(* keccakf1600_device of src/cuda/soko_gpu_offline.cu, which is plain.     *)
(* Messages hashed by one are hashed again by the other.                   *)
(*                                                                         *)
(* A lane of 64 bits is the set of the bits that are one.                  *)
(***************************************************************************)
EXTENDS Integers, Sequences, SequencesExt

Places == 0 .. 24
BitNumbers == 0 .. 63
Lanes  == [Places -> SUBSET BitNumbers]

Xor(a, b)     == (a \ b) \cup (b \ a)
Not(a)        == BitNumbers \ a
NotIf(c, a)   == IF c THEN Not(a) ELSE a
Rotl(a, k)    == {(b + k) % 64 : b \in a}

(* Round constants.                                                        *)
RC ==
  << {0}, {1, 7, 15}, {1, 3, 7, 15, 63}, {15, 31, 63}, {0, 1, 3, 7, 15},
     {0, 31}, {0, 7, 15, 31, 63}, {0, 3, 15, 63}, {1, 3, 7}, {3, 7},
     {0, 3, 15, 31}, {1, 3, 31}, {0, 1, 3, 7, 15, 31}, {0, 1, 3, 7, 63},
     {0, 3, 7, 15, 63}, {0, 1, 15, 63}, {1, 15, 63}, {7, 63}, {1, 3, 15},
     {1, 3, 31, 63}, {0, 7, 15, 31, 63}, {7, 15, 63}, {0, 31},
     {3, 15, 31, 63} >>

-----------------------------------------------------------------------------
(* Slips the code could contain, none of them used below.                  *)

OrTermsPlain(y)          == <<{}, {}, {}, {}, {}>>[y + 1]
SecondPlace(x, y)        == x + 5 * y

-----------------------------------------------------------------------------
(* process_block.  Lane (x, y) is at place x + 5 * y before the first      *)
(* round, and at these places before the second and after it.              *)
FirstPlaces ==
  << <<0, 6, 12, 18, 24>>, <<3, 9, 10, 16, 22>>, <<1, 7, 13, 19, 20>>,
     <<4, 5, 11, 17, 23>>, <<2, 8, 14, 15, 21>> >>
SecondPlaces ==
  << <<0, 9, 13, 17, 21>>, <<18, 22, 1, 5, 14>>, <<6, 10, 19, 23, 2>>,
     <<24, 3, 7, 11, 15>>, <<12, 16, 20, 4, 8>> >>

Place0(x, y) == x + 5 * y
Place1(x, y) == FirstPlaces[y + 1][x + 1]
Place2(x, y) == SecondPlaces[y + 1][x + 1]

(* The rotation of lane (x, y).                                            *)
Offsets ==
  << <<0, 1, 62, 28, 27>>, <<36, 44, 6, 55, 20>>, <<3, 10, 43, 25, 39>>,
     <<41, 45, 15, 21, 8>>, <<18, 2, 61, 56, 14>> >>

(* The lanes kept inverted between rounds.                                 *)
InvertedPlaces == {1, 2, 8, 12, 17, 20}
Inverted(A) == [i \in Places |-> NotIf(i \in InvertedPlaces, A[i])]

(* In row y of the last step, term x combines lanes x+1 and x+2 by "or" or *)
(* by "and", with one lane of the row negated where it appears.            *)
OrTerms(y) == <<{0, 1, 3}, {0, 2, 3}, {0, 3}, {1, 2, 4}, {1, 3}>>[y + 1]

NegatedSelf  == {<<3, 2>>, <<3, 3>>, <<1, 4>>}
NegatedNext  == {<<1, 0>>, <<2, 2>>, <<2, 3>>, <<0, 4>>}
NegatedAfter == {<<2, 1>>}

ChiTerm(row, x, y) ==
  LET self  == NotIf(<<x, y>> \in NegatedSelf, row[x])
      next  == NotIf(<<x, y>> \in NegatedNext, row[(x + 1) % 5])
      after == NotIf(<<x, y>> \in NegatedAfter, row[(x + 2) % 5])
  IN  Xor(self, IF x \in OrTerms(y) THEN next \cup after ELSE next \cap after)

ColumnOf(A, x, At(_, _)) ==
  Xor(A[At(x, 0)], Xor(A[At(x, 1)], Xor(A[At(x, 2)], Xor(A[At(x, 3)], A[At(x, 4)]))))

(* What is added to the lanes of column x.                                 *)
ThetaOf(sums, x) == Xor(sums[(x + 4) % 5], Rotl(sums[(x + 1) % 5], 1))

(* The parts of a round on lanes found by At: theta and the rotations,     *)
(* then the rows of the last step, which are the lanes found by To.        *)
ThetaRho(A, At(_, _)) ==
  LET sums == [x \in 0 .. 4 |-> ColumnOf(A, x, At)]
      coordinates(i) == CHOOSE c \in (0 .. 4) \X (0 .. 4) : At(c[1], c[2]) = i
  IN  [i \in Places |-> LET c == coordinates(i) IN
         Rotl(Xor(A[i], ThetaOf(sums, c[1])), Offsets[c[2] + 1][c[1] + 1])]

ChiIota(A, To(_, _), constant) ==
  LET coordinates(i) == CHOOSE c \in (0 .. 4) \X (0 .. 4) : To(c[1], c[2]) = i
  IN  [i \in Places |-> LET c == coordinates(i)
                            row == [x \in 0 .. 4 |-> A[To(x, c[2])]]
                            term == ChiTerm(row, c[1], c[2])
                        IN  IF i = 0 THEN Xor(term, constant) ELSE term]

(* The moves after the second round: along each of the two cycles, a place *)
(* takes the lane of the next one.                                         *)
MoveCycles ==
  {<<5, 18, 11, 10, 6, 22, 20, 12, 19, 15, 24, 8>>,
   <<1, 9, 14, 2, 13, 23, 4, 21, 16, 3, 17, 7>>}

Moved(A) ==
  [i \in Places |->
     IF \E c \in MoveCycles : Contains(c, i)
       THEN LET c == CHOOSE d \in MoveCycles : Contains(d, i)
                k == CHOOSE k \in DOMAIN c : c[k] = i
            IN  A[c[(k % Len(c)) + 1]]
       ELSE A[i]]

-----------------------------------------------------------------------------
(* keccakf1600_device.                                                     *)
keccakf_rotc_device ==
  <<1, 3, 6, 10, 15, 21, 28, 36, 45, 55, 2, 14, 27, 41, 56, 8, 25, 43, 62, 18, 39, 61, 20, 44>>
keccakf_piln_device ==
  <<10, 7, 11, 17, 18, 3, 5, 16, 8, 21, 24, 4, 15, 23, 19, 13, 12, 2, 20, 14, 22, 9, 6, 1>>

ThetaDevice(st) ==
  LET bc == [i \in 0 .. 4 |-> ColumnOf(st, i, Place0)]
  IN  [i \in Places |-> Xor(st[i], ThetaOf(bc, i % 5))]

(* The lane taken out of a place goes to the next place of the walk, which *)
(* starts with lane 1.                                                     *)
RhoPiDevice(st) ==
  [j \in Places |->
     IF j = 0 THEN st[0]
     ELSE LET i == CHOOSE i \in 1 .. 24 : keccakf_piln_device[i] = j
          IN  Rotl(st[IF i = 1 THEN 1 ELSE keccakf_piln_device[i - 1]], keccakf_rotc_device[i])]

ChiIotaDevice(st, constant) ==
  [i \in Places |->
     LET next(k) == st[5 * (i \div 5) + ((i + k) % 5)]
         term    == Xor(st[i], Not(next(1)) \cap next(2))
     IN  IF i = 0 THEN Xor(term, constant) ELSE term]

-----------------------------------------------------------------------------
(* Both permutations run side by side on the same lanes.                   *)

VARIABLES
  A, st,  \* the lanes of process_block and of keccakf1600_device
  j,      \* rounds done
  part    \* the next part of the round
vars == <<A, st, j, part>>

Start == A = Inverted(st) /\ j = 0 /\ part = "rotate"
Init  == st \in Lanes /\ Start

(* A round in two halves, so that the lanes between them are computed once.*)
Rotate ==
  /\ part = "rotate" /\ j < 24
  /\ A'  = IF j % 2 = 0 THEN ThetaRho(A, Place0) ELSE ThetaRho(A, Place1)
  /\ st' = ThetaDevice(st)
  /\ part' = "combine" /\ UNCHANGED j

Combine ==
  /\ part = "combine"
  /\ A'  = IF j % 2 = 0 THEN ChiIota(A, Place1, RC[j + 1]) ELSE ChiIota(A, Place2, RC[j + 1])
  /\ st' = RhoPiDevice(st)
  /\ part' = "finish" /\ UNCHANGED j

Finish ==
  /\ part = "finish"
  /\ A'  = IF j % 2 = 0 THEN A ELSE Moved(A)
  /\ st' = ChiIotaDevice(st, RC[j + 1])
  /\ part' = "rotate" /\ j' = j + 1

Next == Rotate \/ Combine \/ Finish
Spec == Init /\ [][Next]_vars

(* After every two rounds the lanes, turned back, are the plain ones: what *)
(* the CPU signs the GPU verifies (process_block, keccakf1600_device).     *)
LanesAgree == part = "rotate" /\ j % 2 = 0 => st = Inverted(A)

(* Between the rounds every lane is somewhere (process_block).             *)
LanesInPlace ==
  part = "rotate" /\ j % 2 = 1 =>
    \A x, y \in 0 .. 4 :
      A[Place1(x, y)] = NotIf(Place0(x, y) \in InvertedPlaces, st[Place0(x, y)])
-----------------------------------------------------------------------------
(* What process_block holds while the plain permutation holds st: theta    *)
(* leaves other lanes inverted, for columns 0 and 3 it adds an inverted    *)
(* sum; the last step brings the pattern back.                             *)
InvertedAt(x, y) == Place0(x, y) \in InvertedPlaces
InvertedAfterTheta(x, y) == ~(InvertedAt(x, y) <=> x \in {0, 3})

Before(x, y) == IF j % 2 = 0 THEN A[Place0(x, y)] ELSE A[Place1(x, y)]
After(x, y)  == IF j % 2 = 0 THEN A[Place1(x, y)] ELSE A[Place2(x, y)]

KeccakInv ==
  /\ A \in Lanes /\ st \in Lanes
  /\ j \in 0 .. 24 /\ part \in {"rotate", "combine", "finish"}
  /\ part # "rotate" => j < 24
  /\ part = "rotate" =>
       \A x, y \in 0 .. 4 : Before(x, y) = NotIf(InvertedAt(x, y), st[Place0(x, y)])
  /\ part = "combine" =>
       \A x, y \in 0 .. 4 :
         Before(x, y) = NotIf(InvertedAfterTheta(x, y), Rotl(st[Place0(x, y)], Offsets[y + 1][x + 1]))
  /\ part = "finish" =>
       \A x, y \in 0 .. 4 :
         After(x, y) = NotIf(InvertedAt(x, y), ChiIotaDevice(st, RC[j + 1])[Place0(x, y)])

-----------------------------------------------------------------------------
(* Lanes to run on: none or one bit set, and some filled by arithmetic.    *)
Patterns ==
  {[i \in Places |-> {}], [i \in Places |-> BitNumbers]}
  \cup {[i \in Places |-> IF i = p THEN {5} ELSE {}] : p \in {0, 7, 24}}
  \cup {[i \in Places |-> {b \in BitNumbers : (b * b * k + i * (b + k)) % 7 < 3}] : k \in 1 .. 3}

MCInit == st \in Patterns /\ Start
=============================================================================
