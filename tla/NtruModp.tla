------------------------------ MODULE NtruModp ------------------------------
(***************************************************************************)
(* Arithmetic modulo small primes in src/submodules/FN-DSA/keygen.c, where *)
(* a word holds W = 31 bits of a number and 2^(W-1) < p < 2^W; the number- *)
(* theoretic transform of polynomials modulo X^n + 1 and such a prime.     *)
(* W + 1 is a power of two, which modp_R2 relies on.                       *)
(***************************************************************************)
EXTENDS Integers

CONSTANTS
  W,         \* bits of a word
  Doublings, \* W + 1 is 2^Doublings
  MaxLogn    \* the degrees are 2^0 .. 2^MaxLogn
WidthAssumption == W = 2^Doublings - 1 /\ MaxLogn < W

Poly == INSTANCE Ntt

U32(x) == x % 2^(W + 1)

(* F(z, i) for i = 0, .., times - 1, one after the other.                  *)
Repeat(F(_, _), z, times) ==
  LET after[i \in 0 .. times] == IF i = 0 THEN z ELSE F(after[i-1], i - 1)
  IN  after[times]

-----------------------------------------------------------------------------
(* Slips, none of which is used below.                                     *)
SubtractNever(d, p)       == d
OneSquaringLess           == Doublings - 1
AboveHalf(x, p)           == x > (p + 1) \div 2
ExponentOneMore(p)        == p - 1
RevOfWholeTable(u, logn)  == Poly!Rev(u, MaxLogn)
ProductsOfHalves(f, u, logn) == <<f[u], f[u + 2^(logn - 1)]>>

-----------------------------------------------------------------------------
(* d += p & -(d >> 31)                                                     *)
AddIfNegative(d, p) == IF d < 0 THEN d + p ELSE d

modp_set(x, p) == AddIfNegative(x, p)

UpperHalf(x, p) == x >= (p + 1) \div 2
modp_norm(x, p) == IF UpperHalf(x, p) THEN x - p ELSE x

(* -1/p modulo 2^W, by Newton's iteration.                                 *)
NewtonSteps == 4
modp_ninv31(p) ==
  (-Repeat(LAMBDA y, i : U32(y * (2 - p * y)), U32(2 - p), NewtonSteps)) % 2^W

modp_R(p) == 2^W - p

modp_add(a, b, p) == AddIfNegative(a + b - p, p)
modp_sub(a, b, p) == AddIfNegative(a - b, p)

modp_montymul(a, b, p, p0i) ==
  LET z == a * b
      w == ((z * p0i) % 2^W) * p
  IN  AddIfNegative((z + w) \div 2^W - p, p)

(* 2^(2W) mod p: 2 in Montgomery representation, squared until it is       *)
(* 2^(W+1), halved.                                                        *)
Squarings == Doublings
modp_R2(p, p0i) ==
  LET z == Repeat(LAMBDA y, i : modp_montymul(y, y, p, p0i),
                  modp_add(modp_R(p), modp_R(p), p), Squarings)
  IN  (z + p * (z % 2)) \div 2

(* 2^(W*x) mod p, by squaring and multiplying.                             *)
PowerBelow(x) == x - 1
modp_Rx(x, p, p0i, R2) ==
  LET e == PowerBelow(x)
      Step(s, i) == IF 2^i > e THEN s
                    ELSE [z |-> IF (e \div 2^i) % 2 = 1 THEN modp_montymul(s.z, s.r, p, p0i) ELSE s.z,
                          r |-> modp_montymul(s.r, s.r, p, p0i)]
  IN  Repeat(Step, [z |-> modp_R(p), r |-> R2], W).z

(* a/b, as a * b^(p-2).                                                    *)
Exponent(p) == p - 2
modp_div(a, b, p, p0i, R) ==
  LET Step(z, i) ==
        LET square == modp_montymul(z, z, p, p0i)
        IN  IF (Exponent(p) \div 2^(W - 1 - i)) % 2 = 1 THEN modp_montymul(square, b, p, p0i) ELSE square
  IN  modp_montymul(a, modp_montymul(Repeat(Step, R, W), 1, p, p0i), p, p0i)

-----------------------------------------------------------------------------
(* The transform's tables, in bit-reversed order: powers of a root of      *)
(* X^n + 1 got from g, a root of X^(2^MaxLogn) + 1, and of its inverse.    *)
TablePlace(u, logn) == Poly!Rev(u, logn)
modp_mkgm2(logn, g, p, p0i) ==
  LET R2   == modp_R2(p, p0i)
      root == Repeat(LAMBDA x, i : modp_montymul(x, x, p, p0i), modp_montymul(g, R2, p, p0i), MaxLogn - logn)
      Powers(b) == [u \in 0 .. 2^logn - 1 |->
                      Repeat(LAMBDA x, i : modp_montymul(x, b, p, p0i), modp_R(p), TablePlace(u, logn))]
  IN  [gm |-> Powers(root) , igm |-> Powers(modp_div(R2, root, p, p0i, modp_R(p)))]

modp_NTT2(a, gm, logn, p, p0i) ==
  LET Pass(c, k) ==
        LET t == 2^(logn - k)   ht == t \div 2
            Y(j) == modp_montymul(c[j], gm[2^k + j \div t], p, p0i)
        IN  [j \in DOMAIN c |-> IF j % t < ht THEN modp_add(c[j], Y(j + ht), p)
                                ELSE modp_sub(c[j - ht], Y(j), p)]
  IN  Poly!Passes(Pass, a, logn)

(* 1/n in Montgomery representation is a power of two.                     *)
modp_iNTT2(a, igm, logn, p, p0i) ==
  LET Pass(c, k) ==
        LET t == 2^k   S(j) == igm[2^(logn - k - 1) + j \div (2 * t)]
        IN  [j \in DOMAIN c |-> IF j % (2 * t) < t THEN modp_add(c[j], c[j + t], p)
                                ELSE modp_montymul(modp_sub(c[j - t], c[j], p), S(j), p, p0i)]
      b == Poly!Passes(Pass, a, logn)
  IN  IF logn = 0 THEN a ELSE [j \in DOMAIN a |-> modp_montymul(b[j], 2^(W - logn), p, p0i)]

(* f0^2 - X f1^2 from f = f0(X^2) + X f1(X^2): the products of neighbours, *)
(* which are the values at w and -w.                                       *)
Neighbours(f, u, logn) == <<f[2 * u], f[2 * u + 1]>>
modp_poly_rec_res(f, logn, p, p0i, R2) ==
  [u \in 0 .. 2^(logn - 1) - 1 |->
     LET w == Neighbours(f, u, logn)
     IN  modp_montymul(modp_montymul(w[1], w[2], p, p0i), R2, p, p0i)]
=============================================================================
