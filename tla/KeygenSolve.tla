----------------------------- MODULE KeygenSolve -----------------------------
(***************************************************************************)
(* Key generation, src/submodules/FN-DSA/keygen.c: small f and g are drawn *)
(* until they pass the tests, then F and G with f*G - g*F = q modulo       *)
(* X^n + 1 are looked for, from degree 1, where the resultants of f and g  *)
(* have a Bezout relation, up to degree n; at each degree F and G are      *)
(* reduced by multiples of f and g.  Any step may go wrong for numbers     *)
(* that are too long: then f and g are dropped.                            *)
(*                                                                         *)
(* A polynomial is the function of its coefficients, of which a big        *)
(* integer is an integer in the range its words and primes give it.  The   *)
(* arithmetic below is that of NtruModp, NtruInt and NtruBezout, and the   *)
(* quotients are exact as in FalconFft; the orthogonalized norm's test is  *)
(* a choice.                                                               *)
(***************************************************************************)
EXTENDS Integers, FiniteSets, FiniteSetsExt

CONSTANTS
  Logns,            \* degrees are 2^logn
  Modulus,          \* q = 12289
  W,                \* bits of a word: 31
  PRIMES,           \* the first small primes, of W bits
  MaxBlSmall, MaxBlLarge,      \* MAX_BL_SMALL, MAX_BL_LARGE: words of f and g, of F and G
                               \* before reduction, by depth
  MinBits, MaxBits, \* of f and g by depth: average -/+ six deviations
  Gain, Slack,      \* bits a pass gains, and bits F and G may be longer than f and g: 25, 10
  Drawn(_),         \* polynomials f and g may be, by logn
  NormBound, FgLim, Lim
PrimesAssumption == \A i \in DOMAIN PRIMES : PRIMES[i] \in 2^(W-1) + 1 .. 2^W - 1

VARIABLES
  pc, logn, f, g,
  depth,            \* F and G are those of this depth
  F, G,
  scale_k, maxbl_FG, FGlen
vars  == <<pc, logn, f, g, depth, F, G, scale_k, maxbl_FG, FGlen>>
babai == <<scale_k, maxbl_FG, FGlen>>

-----------------------------------------------------------------------------
(* Polynomials modulo X^n + 1.                                             *)
Places(a)  == DOMAIN a
Degree(a)  == Cardinality(DOMAIN a)
Sum(S, T(_)) == FoldSet(LAMBDA i, z : z + T(i), 0, S)
Each(a, T(_)) == [i \in DOMAIN a |-> T(a[i])]
Times(a, b) ==
  [i \in Places(a) |-> Sum(Places(a), LAMBDA j : IF j <= i THEN a[j] * b[i - j]
                                                 ELSE -(a[j] * b[i - j + Degree(a)]))]
Plus(a, b)  == [i \in Places(a) |-> a[i] + b[i]]
Minus(a, b) == [i \in Places(a) |-> a[i] - b[i]]
(* a(-X), a(1/X), a(X^2) of twice the degree and a(X^k) for odd k.         *)
Alternate(a) == [i \in Places(a) |-> IF i % 2 = 0 THEN a[i] ELSE -a[i]]
Adjoint(a)   == [i \in Places(a) |-> IF i = 0 THEN a[0] ELSE -a[Degree(a) - i]]
Spread(a)    == [i \in 0 .. 2 * Degree(a) - 1 |-> IF i % 2 = 0 THEN a[i \div 2] ELSE 0]
OfPower(a, k) ==
  [i \in Places(a) |-> Sum({j \in Places(a) : (j * k) % Degree(a) = i},
                           LAMBDA j : IF ((j * k) \div Degree(a)) % 2 = 0 THEN a[j] ELSE -a[j])]

(* Rebuilt from len residues, and cut to a signed number of so many bits.  *)
Product(len)     == FoldSet(LAMBDA i, z : z * PRIMES[i], 1, 1 .. len)
Balanced(z, m)   == IF z % m > m \div 2 THEN (z % m) - m ELSE z % m
Rebuilt(a, len)  == Each(a, LAMBDA z : Balanced(z, Product(len)))
Cut(a, bits)     == Each(a, LAMBDA z : ((z + 2^(bits - 1)) % 2^bits) - 2^(bits - 1))

-----------------------------------------------------------------------------
(* Slips, none of which is used below.                                     *)
AnySum(a)                    == TRUE
NotAlternated(Fd, h, d)      == Rebuilt(Times(Spread(Fd), h), MaxBlLarge[d])
NeverChecked(Fn, Gn)         == TRUE
AtMostOneGain                == scale_k <= Gain
ShorterEarly(len, bits)      == IF len > 1 /\ len * W >= bits THEN len - 1 ELSE len
LengthOfMultiple             == scale_k + Slack
NoFloor                      == scale_k - Gain

-----------------------------------------------------------------------------
(* f0^2 - X f1^2 for f = f0(X^2) + X f1(X^2), as deep as asked.            *)
make_fg_step(a, d) ==
  LET b == Times(a, Alternate(a))
  IN  Rebuilt([i \in 0 .. (Degree(a) \div 2) - 1 |-> b[2 * i]], MaxBlSmall[d + 1])
make_fg(a, d) ==
  LET at[i \in 0 .. d] == IF i = 0 THEN a ELSE make_fg_step(at[i-1], i - 1)
  IN  at[d]
Resultant(a) == make_fg(a, logn)[0] % Product(MaxBlSmall[logn])

(* F'(X^2) * g(-X) and G'(X^2) * f(-X).                                    *)
Unreduced(Fd, h, d) == Rebuilt(Times(Spread(Fd), Alternate(h)), MaxBlLarge[d])

(* The numerator and the denominator of (F*adj(f) + G*adj(g)) divided by   *)
(* (f*adj(f) + g*adj(g)): the latter is the same at 1/X, and its product   *)
(* with those at the other odd powers of X is a number.                    *)
Projection(Fx, Gx, fx, gx) == Plus(Times(Fx, Adjoint(fx)), Times(Gx, Adjoint(gx)))
Quotient(num, D) ==
  LET others == FoldSet(LAMBDA k, z : Times(z, OfPower(D, k)), [i \in Places(D) |-> IF i = 0 THEN 1 ELSE 0],
                        {k \in 3 .. Degree(D) - 1 : k % 2 = 1})
  IN  [num |-> Times(num, others), den |-> Times(D, others)[0]]

(* Whether a quotient is small enough to be rounded to a machine number.   *)
Below(q, scale, bound) ==
  \A i \in Places(q.num) :
    (IF q.num[i] < 0 THEN -q.num[i] ELSE q.num[i]) \div (q.den * 2^scale) < bound

(* The polynomials nearest to a quotient; a tie may go either way.         *)
Rounded(q, scale) ==
  LET den  == q.den * 2^scale
      Down(z) == (2 * z + den - 1) \div (2 * den)
      ties == {i \in Places(q.num) : (2 * q.num[i] + den) % (2 * den) = 0}
  IN  {[i \in Places(q.num) |-> Down(q.num[i]) + (IF i \in up THEN 1 ELSE 0)] : up \in SUBSET ties}

(* x*u - y*v = 1, as zint_bezout finds them; see NtruBezout for y = 1.     *)
BezoutOf(x, y) ==
  LET u == CHOOSE u \in 0 .. y - 1 : (x * u - 1) % y = 0
  IN  [u |-> u, v |-> IF y = 1 THEN x - 1 ELSE (x * u - 1) \div y]
Coprime(x, y) == \A d \in 2 .. x : ~(x % d = 0 /\ y % d = 0)

-----------------------------------------------------------------------------
None == [i \in {} |-> 0]
Drop ==
  /\ pc' = "draw"
  /\ f' = None /\ g' = None /\ F' = None /\ G' = None /\ depth' = logn
  /\ scale_k' = 0 /\ maxbl_FG' = 0 /\ FGlen' = 0
  /\ UNCHANGED logn

Init ==
  /\ pc = "draw" /\ logn \in Logns /\ depth = logn
  /\ f = None /\ g = None /\ F = None /\ G = None
  /\ scale_k = 0 /\ maxbl_FG = 0 /\ FGlen = 0

(* The last coefficient is drawn again until the sum is odd.               *)
OddSum(a) == Sum(Places(a), LAMBDA i : a[i]) % 2 = 1
poly_small_mkgauss == {a \in Drawn(logn) : OddSum(a)}
poly_small_sqnorm(a) == Sum(Places(a), LAMBDA i : a[i] * a[i])

(* compute_public: a is zero at no root of X^n + 1 modulo q.               *)
Power(r, e) == FoldSet(LAMBDA i, z : (z * r) % Modulus, 1, 1 .. e)
HasInverse(a) ==
  \A r \in {r \in 1 .. Modulus - 1 : Power(r, Degree(a)) = Modulus - 1} :
     Sum(Places(a), LAMBDA i : a[i] * Power(r, i)) % Modulus # 0

(* Drawn f and g are kept if they are short enough to be encoded, and f    *)
(* has an inverse modulo q; the orthogonalized norm may be too large.      *)
Draw ==
  /\ pc = "draw"
  /\ \E a, b \in poly_small_mkgauss :
       /\ \A h \in {a, b}, i \in 0 .. 2^logn - 1 : h[i] \in -FgLim + 1 .. FgLim - 1
       /\ poly_small_sqnorm(a) + poly_small_sqnorm(b) < NormBound
       /\ HasInverse(a)
       /\ f' = a /\ g' = b
  /\ pc' = "deepest"
  /\ UNCHANGED <<logn, depth, F, G, babai>>

(* The resultants' Bezout relation, times q, if that fits the words.       *)
solve_NTRU_deepest ==
  /\ pc = "deepest"
  /\ LET x == Resultant(f)   y == Resultant(g)
         uv == BezoutOf(x, y)
         Fits(z) == z < 2^(W * MaxBlSmall[logn])
     IN  IF /\ x % 2 = 1 /\ y % 2 = 1 /\ Coprime(x, y)
            /\ Fits(uv.v * Modulus) /\ Fits(uv.u * Modulus)
         THEN /\ F' = [i \in {0} |-> uv.v * Modulus] /\ G' = [i \in {0} |-> uv.u * Modulus]
              /\ pc' = "solve" /\ UNCHANGED <<logn, f, g, depth, babai>>
         ELSE Drop

(* One degree up, if this is not left to the functions for depth 1 and 0.  *)
(* F and G are read as signed numbers.                                     *)
Up == depth - 1
solve_NTRU_intermediate ==
  /\ pc = "solve" /\ depth > (IF logn <= 2 THEN 0 ELSE 2)
  /\ LET Read(a) == Cut(a, W * MaxBlSmall[depth])
     IN  /\ F' = Unreduced(Read(F), make_fg(g, Up), Up)
         /\ G' = Unreduced(Read(G), make_fg(f, Up), Up)
  /\ FGlen' = MaxBlLarge[Up]
  /\ maxbl_FG' = W * MaxBlLarge[Up]
  /\ scale_k' = W * MaxBlLarge[Up] - MinBits[Up]
  /\ pc' = "babai" /\ UNCHANGED <<logn, f, g, depth>>

(* One pass of the reduction: k*2^scale_k times f and g is subtracted, in  *)
(* FGlen words; no pass after one without scaling.                         *)
AssumedBits == scale_k + MaxBits[Up] + Slack
NextScale   == IF scale_k > Gain THEN scale_k - Gain ELSE 0
ShorterWords(len, bits) == IF len * W >= bits + W THEN len - 1 ELSE len
LastPass == scale_k <= 0
FitsK(q) == Below(q, scale_k, 2^W - 1)
Pass ==
  /\ pc = "babai"
  /\ LET fx == make_fg(f, Up)   gx == make_fg(g, Up)
         q == Quotient(Projection(F, G, fx, gx), Projection(fx, gx, fx, gx))
         bits == AssumedBits
         shorter == bits < maxbl_FG
         len == IF shorter THEN ShorterWords(FGlen, bits) ELSE FGlen
         slen == MaxBlSmall[Up]
         Reduce(a, k, h) == Cut(Minus(a, Each(Times(k, h), LAMBDA z : z * 2^scale_k)), W * FGlen)
         Compressed(a) == Cut(Cut(a, W * len), W * slen)
     IN  IF q.den = 0 \/ ~FitsK(q) THEN Drop
         ELSE \E k \in Rounded(q, scale_k) :
           IF LastPass
           THEN /\ F' = Compressed(Reduce(F, k, fx)) /\ G' = Compressed(Reduce(G, k, gx))
                /\ pc' = "solve" /\ depth' = Up
                /\ scale_k' = 0 /\ maxbl_FG' = 0 /\ FGlen' = 0
                /\ UNCHANGED <<logn, f, g>>
           ELSE /\ F' = Cut(Reduce(F, k, fx), W * len) /\ G' = Cut(Reduce(G, k, gx), W * len)
                /\ maxbl_FG' = IF shorter THEN bits ELSE maxbl_FG
                /\ FGlen' = len
                /\ scale_k' = NextScale
                /\ UNCHANGED <<pc, logn, f, g, depth>>

(* Depth 1 in one pass without scaling: F and G brought up to that degree, *)
(* and the multiples of f and g they may lose.  The results are one word   *)
(* each; the quotient is tested against 2^63, twice a word and a bit.      *)
UnreducedAt1 ==
  LET Read(a) == Cut(a, W * MaxBlSmall[2])
  IN  [F |-> Unreduced(Read(F), make_fg(g, 1), 1), G |-> Unreduced(Read(G), make_fg(f, 1), 1)]
QuotientAt1(up) ==
  LET fx == make_fg(f, 1)   gx == make_fg(g, 1)
  IN  Quotient(Projection(up.F, up.G, fx, gx), Projection(fx, gx, fx, gx))
solve_NTRU_binary_depth1 ==
  /\ pc = "solve" /\ logn > 2 /\ depth = 2
  /\ LET up == UnreducedAt1
         q  == QuotientAt1(up)
     IN  IF q.den = 0 \/ ~Below(q, 0, 2^(2 * W + 1)) THEN Drop
         ELSE /\ \E k \in Rounded(q, 0) :
                   /\ F' = Minus(up.F, Times(k, make_fg(f, 1)))
                   /\ G' = Minus(up.G, Times(k, make_fg(g, 1)))
              /\ depth' = 1 /\ UNCHANGED <<pc, logn, f, g, babai>>

(* Depth 0 modulo the first prime: all numbers are assumed to fit.         *)
ModP(a) == Rebuilt(a, 1)
UnreducedAt0 ==
  LET Up0(Fd, h) == ModP(Times(Spread(Cut(Fd, W)), Alternate(h)))
  IN  [F |-> Up0(F, g), G |-> Up0(G, f)]
QuotientAt0(up) == Quotient(ModP(Projection(up.F, up.G, f, g)), ModP(Projection(f, g, f, g)))
solve_NTRU_binary_depth0 ==
  /\ pc = "solve" /\ logn > 2 /\ depth = 1
  /\ LET up == UnreducedAt0
     IN  \E k \in Rounded(QuotientAt0(up), 0) :
           F' = ModP(Minus(up.F, Times(k, f))) /\ G' = ModP(Minus(up.G, Times(k, g)))
  /\ depth' = 0 /\ UNCHANGED <<pc, logn, f, g, babai>>

(* F and G must be short enough to be encoded, and the equation is checked *)
(* modulo the first prime.                                                 *)
Constant(z) == [i \in 0 .. 2^logn - 1 |-> IF i = 0 THEN z ELSE 0]
Verified(Fn, Gn) == Each(Minus(Minus(Times(f, Gn), Times(g, Fn)), Constant(Modulus)), LAMBDA z : z % PRIMES[1]) = Constant(0)
solve_NTRU_check ==
  /\ pc = "solve" /\ depth = 0
  /\ LET Fn == Cut(F, W)   Gn == Cut(G, W)
     IN  IF /\ \A a \in {Fn, Gn}, i \in Places(Fn) : a[i] \in -Lim .. Lim
            /\ Verified(Fn, Gn)
         THEN /\ F' = Fn /\ G' = Gn /\ pc' = "done" /\ UNCHANGED <<logn, f, g, depth, babai>>
         ELSE Drop

Next ==
  \/ Draw \/ solve_NTRU_deepest
  \/ solve_NTRU_intermediate \/ Pass
  \/ solve_NTRU_binary_depth1 \/ solve_NTRU_binary_depth0
  \/ solve_NTRU_check
Spec == Init /\ [][Next]_vars

-----------------------------------------------------------------------------
(* Degrees 2, 4 and 8 with few short polynomials each and q = 17, for      *)
(* which X^8 + 1 splits as X^1024 + 1 does for 12289.  Words of twelve     *)
(* bits, where all numbers fit, and of seven, where they do not.           *)

Unit(n, S, neg) == [i \in 0 .. n - 1 |-> IF i \in S THEN (IF i \in neg THEN -1 ELSE 1) ELSE 0]
Candidates(ln) ==
  CASE ln = 1 -> [0 .. 1 -> -3 .. 3] \cup [0 .. 1 -> {2, 5, 6, 7}]
    [] ln = 2 -> {a \in [0 .. 3 -> -1 .. 1] : a[0] # 0 /\ a[1] # -1}
    [] ln = 3 -> {Unit(8, S, neg) : S \in {{0, 2, 7}, {1, 4, 6}}, neg \in {{}, {0}, {1, 4}, {3, 7}}}

Primes12 == <<4093, 4091, 4079>>
Primes7  == <<127, 113, 109>>
SmallLens == [d \in 0 .. 3 |-> 1]
LargeLens == [d \in 0 .. 2 |-> 2]
Mins == [d \in 0 .. 2 |-> 1]
Maxs == [d \in 0 .. 2 |-> 4]

Accepted == pc = "done"

(* A polynomial of f and g's level for F and G.                            *)
Fx == make_fg(f, depth)
Gx == make_fg(g, depth)

TypeOK ==
  /\ pc \in {"draw", "deepest", "solve", "babai", "done"}
  /\ depth \in 0 .. logn /\ FGlen \in 0 .. MaxBlLarge[0] /\ scale_k \in 0 .. W * MaxBlLarge[0]
  /\ pc \in {"solve", "done"} => DOMAIN F = 0 .. 2^(logn - depth) - 1 /\ DOMAIN G = DOMAIN F

(* What is accepted solves the equation over the integers, whatever went   *)
(* wrong on the way: a check modulo one prime, and of the lengths, is      *)
(* enough (keygen.c:4046), also for the Bezout relation that is none.      *)
AcceptedSolves ==
  Accepted => Minus(Times(f, G), Times(g, F)) = Constant(Modulus)

(* zint_bezout needs odd numbers ("works only if both inputs are odd",     *)
(* keygen.c:2754): the parity of the coefficients' sum is the resultant's, *)
(* through all the halvings of the degree.                                 *)
OddResultants == pc = "deepest" => Resultant(f) % 2 = 1 /\ Resultant(g) % 2 = 1

(* F and G of every degree solve the equation with f and g of that degree, *)
(* before and after every pass, unless the second resultant is one; the    *)
(* lengths hold all the numbers.                                           *)
EquationAtEveryDegree ==
  (pc = "solve" /\ Resultant(g) # 1) =>
     Minus(Times(Fx, G), Times(Gx, F)) = [i \in DOMAIN F |-> IF i = 0 THEN Modulus ELSE 0]

(* After a level F and G are reduced: no multiple of f and g is left to    *)
(* subtract, since the last pass is the one without scaling.               *)
ReducedAtEnd ==
  (pc = "solve" /\ depth < logn) =>
     LET q == Quotient(Projection(F, G, Fx, Gx), Projection(Fx, Gx, Fx, Gx))
     IN  \A i \in DOMAIN q.num : 2 * q.num[i] \in -q.den .. q.den

(* The assumed length is never short of the real one, so that a pass drops *)
(* words that only repeat the sign (keygen.c:3273).                        *)
AssumedLengthRight ==
  pc = "babai" => \A a \in {F, G}, i \in DOMAIN F : a[i] \in -(2^maxbl_FG) .. 2^maxbl_FG - 1

(* The equation holds during the passes too.                               *)
PassesKeepEquation ==
  (pc = "babai" /\ Resultant(g) # 1) =>
     Minus(Times(make_fg(f, Up), G), Times(make_fg(g, Up), F)) = [i \in DOMAIN F |-> IF i = 0 THEN Modulus ELSE 0]
=============================================================================
