----------------------------- MODULE NtruBezout ------------------------------
(***************************************************************************)
(* zint_bezout of src/submodules/FN-DSA/keygen.c: u and v with             *)
(* x*u - y*v = 1 for odd big integers x and y, by a binary GCD of which W  *)
(* steps at a time are chosen from the highest words and the lowest, and   *)
(* then done on all words at once.                                         *)
(***************************************************************************)
EXTENDS NtruInt

CONSTANTS
  LEN,      \* words of x and y
  Operands  \* pairs of odd numbers below 2^(W*LEN)

VARIABLES
  x, y,
  a, b, u0, u1, v0, v1,
  num       \* bits there may be left, W - 1 fewer after each pass
vars == <<x, y, a, b, u0, u1, v0, v1, num>>

UInt64(z) == z % 2^(2 * W + 2)

-----------------------------------------------------------------------------
(* Slips, none of which is used below.                                     *)
HighestOnly(c, j)  == c[j]
SignsKept(f, neg)  == f
BudgetOfOne         == W * LEN

-----------------------------------------------------------------------------
(* The highest two words at places where a or b is not zero, or the lowest *)
(* word.                                                                   *)
TopPlace == Repeat(LAMBDA t, j : IF a[j] # 0 \/ b[j] # 0 THEN j ELSE t, 0, LEN)
TwoWords(c, j) == IF j = 0 THEN c[0] ELSE c[j] * B + c[j - 1]

AGreater(s) == s.a_hi > s.b_hi

(* One step on the words: subtract the smaller if both numbers are odd,    *)
(* then halve the even one.  The low words and the factors are doubled     *)
(* instead of halving the other's.                                         *)
Step(s, i) ==
  LET oa  == (s.a_lo \div 2^i) % 2 = 1
      ob  == (s.b_lo \div 2^i) % 2 = 1
      cAB == oa /\ ob /\ AGreater(s)
      cBA == oa /\ ob /\ ~AGreater(s)
      cA  == cAB \/ ~oa
      d   == [s EXCEPT !.a_lo = IF cAB THEN U32(@ - s.b_lo) ELSE @,
                       !.a_hi = IF cAB THEN UInt64(@ - s.b_hi) ELSE @,
                       !.pa = IF cAB THEN @ - s.qa ELSE @, !.pb = IF cAB THEN @ - s.qb ELSE @,
                       !.b_lo = IF cBA THEN U32(@ - s.a_lo) ELSE @,
                       !.b_hi = IF cBA THEN UInt64(@ - s.a_hi) ELSE @,
                       !.qa = IF cBA THEN @ - s.pa ELSE @, !.qb = IF cBA THEN @ - s.pb ELSE @]
  IN  IF cA THEN [d EXCEPT !.a_hi = @ \div 2, !.b_lo = U32(2 * @), !.qa = 2 * @, !.qb = 2 * @]
      ELSE [d EXCEPT !.b_hi = @ \div 2, !.a_lo = U32(2 * @), !.pa = 2 * @, !.pb = 2 * @]

Factors ==
  Repeat(Step, [a_lo |-> a[0], b_lo |-> b[0],
                a_hi |-> TwoWords(a, TopPlace), b_hi |-> TwoWords(b, TopPlace),
                pa |-> 1, pb |-> 0, qa |-> 0, qb |-> 1], W)

Corrected(f, neg) == IF neg THEN -f ELSE f

-----------------------------------------------------------------------------
Budget == 2 * W * LEN + W - 1
Words(z) == WordsOf(z, LEN)

Init == \E o \in Operands :
  /\ x = Words(o[1]) /\ y = Words(o[2])
  /\ a = x /\ b = y
  /\ u0 = Words(1) /\ v0 = Words(0)
  /\ u1 = y /\ v1 = [x EXCEPT ![0] = @ - 1]
  /\ num = Budget

Pass ==
  /\ num >= W - 1
  /\ LET f  == Factors
         na == Reduced(a, b, LEN, f.pa, f.pb)
         nb == Reduced(a, b, LEN, f.qa, f.qb)
         pa == Corrected(f.pa, na[2])   pb == Corrected(f.pb, na[2])
         qa == Corrected(f.qa, nb[2])   qb == Corrected(f.qb, nb[2])
         x0i == modp_ninv31(x[0])       y0i == modp_ninv31(y[0])
     IN  /\ a' = na[1] /\ b' = nb[1]
         /\ u0' = ReducedMod(u0, u1, y, LEN, y0i, pa, pb)
         /\ u1' = ReducedMod(u0, u1, y, LEN, y0i, qa, qb)
         /\ v0' = ReducedMod(v0, v1, x, LEN, x0i, pa, pb)
         /\ v1' = ReducedMod(v0, v1, x, LEN, x0i, qa, qb)
  /\ num' = num - (W - 1)
  /\ UNCHANGED <<x, y>>

Next == Pass
Spec == Init /\ [][Next]_vars

Done == num < W - 1
Value(z) == Unsigned(z, LEN)
(* What the function returns, with u in u0 and v in v0.                    *)
Returned == Done /\ Value(a) = 1 /\ x[0] % 2 = 1 /\ y[0] % 2 = 1

-----------------------------------------------------------------------------
(* Three words of three bits, of which the factors see two: all odd x with  *)
(* many odd y.                                                             *)

Odd(h) == 2 * h + 1
OddPairs == {<<Odd(i), Odd(j)>> : i \in 0 .. 255, j \in 0 .. 4 \cup {31, 32, 33, 252, 255} \cup {13 * k : k \in 1 .. 19}}

GCD(i, j) ==
  LET g[k \in 1 .. 2^(W * LEN), m \in 0 .. 2^(W * LEN)] == IF m = 0 THEN k ELSE g[m, k % m] IN g[i, j]

(* Words, and the ranges keygen.c:1589 gives for the numbers.              *)
TypeOK ==
  /\ \A z \in {a, b, u0, u1, v0, v1} : z \in [0 .. LEN - 1 -> 0 .. B - 1]
  /\ num \in 0 .. Budget
  /\ Value(a) \in 0 .. Value(x) /\ Value(b) \in 0 .. Value(y)
  /\ {Value(u0), Value(u1)} \subseteq 0 .. Value(y) /\ {Value(v0), Value(v1)} \subseteq 0 .. Value(x)

(* The loop invariant, of the numbers modulo x*y: the factors found from   *)
(* some words only, and the conditional negations, are the same for all    *)
(* four products (keygen.c:1587).                                          *)
CombinationsKept ==
  LET X == Value(x)   Y == Value(y) IN
  /\ (Value(a) - X * Value(u0)) % Y = 0 /\ (Value(a) + Y * Value(v0)) % X = 0
  /\ (Value(b) - X * Value(u1)) % Y = 0 /\ (Value(b) + Y * Value(v1)) % X = 0

(* The passes are enough: whatever the numbers, the function finds out     *)
(* whether they have a common factor, and the coefficients are those asked *)
(* for ("x*u - y*v = 1", keygen.c:1575) if y is not one.                   *)
BezoutRight ==
  Done => /\ Returned <=> GCD(Value(x), Value(y)) = 1
          /\ Returned /\ Value(y) # 1 => Value(x) * Value(u0) - Value(y) * Value(v0) = 1

=============================================================================
