------------------------------ MODULE FalconNorm ------------------------------
(***************************************************************************)
(* The squared norm of a signature in a 32-bit accumulator that saturates: *)
(* is_short of src/submodules/FN-DSA/common.c, which verification calls,   *)
(* and the same sum in two halves, as signing has it: over s1 in           *)
(* do_sign_tree (sign.c), then over s2 in is_short_half.                   *)
(*                                                                         *)
(* A word has the values 0 .. 2 * Half - 1; its top bit is set from Half   *)
(* on.  The variable norm keeps the exact sum, which the code has not.     *)
(***************************************************************************)
EXTENDS Integers

CONSTANTS
  Half,     \* 2^31
  Squares,  \* the squares of the coefficients
  Bound,    \* an entry of l2bound
  MaxTerms  \* coefficients of s1 and s2 together

ASSUME HalfAssumption    == Half \in Nat \ {0}
ASSUME SquaresAssumption == Squares \subseteq 0 .. Half
ASSUME BoundAssumption   == Bound \in 0 .. Half - 1
ASSUME MaxTermsAssumption == MaxTerms \in Nat

Words == 0 .. 2 * Half - 1

VARIABLES
  sqn,    \* the accumulator
  ng,     \* the top bit of every partial sum so far
  place,  \* "s1": the sum signing starts with; "s2": the second half, or is_short;
          \* "short", "long": the answer
  terms, norm
vars == <<sqn, ng, place, terms, norm>>

TypeOK ==
  /\ sqn \in Words /\ ng \in BOOLEAN
  /\ place \in {"s1", "s2", "short", "long"}
  /\ terms \in 0 .. MaxTerms /\ norm \in Nat

TopBit(w) == w >= Half

-----------------------------------------------------------------------------
(* Slips the code could contain, none of them used below.                  *)

SaturatedByLast(w, wasSet) == IF TopBit(w) THEN 2 * Half - 1 ELSE w
SaturatedNever(w, wasSet)  == w

-----------------------------------------------------------------------------
(* sqn |= -(ng >> 31)                                                      *)
Saturated(w, wasSet) == IF wasSet THEN 2 * Half - 1 ELSE w

Init ==
  /\ sqn = 0 /\ ng = FALSE
  /\ place \in {"s1", "s2"}
  /\ terms = 0 /\ norm = 0

(* sqn += z * z; ng |= sqn                                                 *)
AddSquare ==
  /\ place \in {"s1", "s2"} /\ terms < MaxTerms
  /\ \E z \in Squares :
       /\ sqn' = (sqn + z) % (2 * Half)
       /\ ng' = (ng \/ TopBit(sqn'))
       /\ norm' = norm + z
  /\ terms' = terms + 1
  /\ UNCHANGED place

(* The first half is passed to is_short_half, which takes its top bit.     *)
HandOver ==
  /\ place = "s1"
  /\ sqn' = Saturated(sqn, ng)
  /\ ng' = TopBit(sqn')
  /\ place' = "s2"
  /\ UNCHANGED <<terms, norm>>

Answer ==
  /\ place = "s2"
  /\ sqn' = Saturated(sqn, ng)
  /\ place' = IF sqn' <= Bound THEN "short" ELSE "long"
  /\ UNCHANGED <<ng, terms, norm>>

Next == AddSquare \/ HandOver \/ Answer
Spec == Init /\ [][Next]_vars

-----------------------------------------------------------------------------
(* The sum is exact until its top bit was once set, and then it is above   *)
(* every bound.                                                            *)
SumInv ==
  /\ ~ng /\ place \in {"s1", "s2"} => sqn = norm /\ norm < Half
  /\ ng => norm >= Half
  /\ place = "short" => norm <= Bound
  /\ place = "long"  => norm > Bound

(* However far the accumulator wraps, and whichever way it is summed, a    *)
(* signature is short exactly when its norm is within the bound: signing   *)
(* and verification agree (is_short, is_short_half, do_sign_tree).         *)
ShortExactly ==
  /\ place = "short" => norm <= Bound
  /\ place = "long"  => norm > Bound
=============================================================================
