----------------------------- MODULE HashToPoint -----------------------------
(***************************************************************************)
(* Hashing a message to a polynomial modulo q, constant-time:              *)
(* hash_to_point_ct of src/submodules/FN-DSA/common.c against the plain    *)
(* hash_to_point_vartime.                                                  *)
(*                                                                         *)
(* A sample of the hash output is either rejected or a value; the values   *)
(* are told apart by the number of the sample they come from.  The three   *)
(* arrays x, tt1 and tt2 of the code are one array, cut at n and 2 * n.    *)
(***************************************************************************)
EXTENDS Integers, FiniteSets, Sequences

CONSTANTS
  N,        \* coefficients
  Over,     \* samples drawn beyond N
  Rejected

SizeAssumption == N \in Nat \ {0} /\ Over \in Nat \ {0}

M     == N + Over
Slots == 0 .. M - 1

VARIABLES
  drawn,  \* the samples in the order they were drawn
  cells,  \* x, tt1 and tt2
  p,      \* the distance of this pass
  u, v    \* the place looked at, and where its value finally goes
vars == <<drawn, cells, p, u, v>>

Valid(w) == w # Rejected

TypeOK ==
  /\ drawn \in [Slots -> Slots \cup {Rejected}]
  /\ cells \in [Slots -> Slots \cup {Rejected}]
  /\ p \in 1 .. 2 * Over /\ u \in 0 .. M /\ v \in 0 .. u

-----------------------------------------------------------------------------
(* Slips the code could contain, none of them used below.                  *)

SubtractIfLarger(w, d)     == IF w - d > 0 THEN w - d ELSE w
MovesNowExact(j, distance) == j >= distance
HasPassBelow(distance)     == distance < Over \div 2
TargetAfterTwice(w, t)     == IF Valid(w) THEN t + 2 ELSE t

-----------------------------------------------------------------------------
(* Reduction of a sample w < 2^16: by repeated subtraction, and without    *)
(* branches.  Bit 31 of a word is set when it is negative.                 *)
Sample(hi, lo) == 256 * hi + lo

ReducedVartime(w) == IF w < 61445 THEN w % 12289 ELSE Rejected

SubtractIfLarge(w, d) == IF w - d < 0 THEN w ELSE w - d

ReducedCt(w) ==
  IF w - 61445 < 0
    THEN SubtractIfLarge(SubtractIfLarge(SubtractIfLarge(w, 24578), 24578), 12289)
    ELSE Rejected

-----------------------------------------------------------------------------
(* Is p a bit of the jump j?  The code asks (j & p) + 0x1FF >> 9, for p at *)
(* most 256.                                                               *)
MovesNow(j, distance) == (j \div distance) % 2 = 1

HasPass(distance) == distance <= Over

TargetAfter(w, t) == IF Valid(w) THEN t + 1 ELSE t

Init ==
  /\ drawn \in {[i \in Slots |-> IF i \in out THEN Rejected ELSE i] : out \in SUBSET Slots}
  /\ cells = drawn
  /\ p = 1 /\ u = 0 /\ v = 0

(* Swap the value with the one p places below, if it is valid and its jump *)
(* has the bit of this pass.                                               *)
Swaps == Valid(cells[u]) /\ u >= p /\ MovesNow(u - v, p)

Look ==
  /\ HasPass(p) /\ u < M
  /\ cells' = IF Swaps THEN [cells EXCEPT ![u] = cells[u - p], ![u - p] = cells[u]]
                       ELSE cells
  /\ v' = TargetAfter(cells[u], v)
  /\ u' = u + 1
  /\ UNCHANGED <<drawn, p>>

NextPass ==
  /\ HasPass(p) /\ u = M
  /\ p' = 2 * p /\ u' = 0 /\ v' = 0
  /\ UNCHANGED <<drawn, cells>>

Next == Look \/ NextPass
Spec == Init /\ [][Next]_vars

-----------------------------------------------------------------------------
(* The values of the plain algorithm: the first n valid samples.           *)
ValidBefore(i) == Cardinality({k \in 0 .. i - 1 : Valid(drawn[k])})

(* Where a value is before the pass of a distance: it is moved down by the *)
(* bits of its jump that are below, and what is left is a multiple of the  *)
(* distance.                                                               *)
Values == {i \in Slots : Valid(drawn[i])}
Jump(i) == i - ValidBefore(i)
PlaceBefore(i, distance) == ValidBefore(i) + distance * (Jump(i) \div distance)

(* In the midst of a pass, those looked at have moved.  This is inductive. *)
Passed == {i \in Values : PlaceBefore(i, p) < u}
PlaceOf(i) == IF PlaceBefore(i, p) < u THEN PlaceBefore(i, 2 * p) ELSE PlaceBefore(i, p)

HashInv ==
  /\ drawn \in [Slots -> Slots \cup {Rejected}] /\ \A i \in Values : drawn[i] = i
  /\ cells \in [Slots -> Slots \cup {Rejected}]
  /\ p \in Nat \ {0} /\ u \in 0 .. M /\ (HasPass(p) \/ u = 0)
  /\ v = Cardinality(Passed)
  /\ \A i \in Values : PlaceOf(i) \in Slots /\ cells[PlaceOf(i)] = i
  /\ \A c \in Slots : Valid(cells[c]) => \E i \in Values : PlaceOf(i) = c

(* A value moves only into a free place, as the comment at common.c:155    *)
(* says, so that no pass loses one or lets one overtake another.           *)
OnlyIntoFree == HasPass(p) /\ u < M /\ Swaps => ~Valid(cells[u - p])

(* When enough samples are valid, the constant-time version gives the      *)
(* polynomial of the plain one (hash_to_point_ct, hash_to_point_vartime).  *)
SamePolynomial ==
  ~HasPass(p) /\ ValidBefore(M) >= N =>
    \A i \in Slots : Valid(drawn[i]) /\ ValidBefore(i) < N => cells[ValidBefore(i)] = drawn[i]

-----------------------------------------------------------------------------

(* Both reductions of a 16-bit sample agree (hash_to_point_ct,             *)
(* hash_to_point_vartime).                                                 *)
SamplesReduced ==
  u = 0 /\ p = 1 /\ drawn = [i \in Slots |-> i] =>
    \A hi, lo \in 0 .. 255 : ReducedCt(Sample(hi, lo)) = ReducedVartime(Sample(hi, lo))
=============================================================================
