--------------------------------- MODULE Ntt ---------------------------------
(***************************************************************************)
(* The number-theoretic transform of src/submodules/FN-DSA/vrfy.c, on      *)
(* polynomials modulo X^n + 1 and q, n = 2^logn.  A polynomial is the      *)
(* function of its n coefficients.                                         *)
(***************************************************************************)
EXTENDS ModQ

Degrees(logn) == 0 .. 2^logn - 1
Polys(logn)   == [Degrees(logn) -> Residues]

(* A loop that halves or doubles runs logn times; each run is a pass.      *)
Passes(Pass(_, _), a, logn) ==
  LET after[k \in 0 .. logn] == IF k = 0 THEN a ELSE Pass(after[k-1], k - 1)
  IN  after[logn]

(* Bit reversal of x < 2^bits.                                             *)
Rev(x, bits) ==
  LET r[k \in 0 .. bits] == IF k = 0 THEN 0 ELSE 2 * r[k-1] + ((x \div 2^(k-1)) % 2)
  IN  r[bits]

Power(b, e) ==
  LET p[k \in 0 .. e] ==
        IF k = 0 THEN 1
        ELSE LET root == p[k \div 2]
                 square == (root * root) % Q
             IN  IF k % 2 = 0 THEN square ELSE (square * b) % Q
  IN  p[e]

(* The tables: powers of g = 7 and of its inverse, in bit-reversed order   *)
(* over 10 bits, in Montgomery representation.                             *)
GMb[x \in 0 .. 1023]  == (R * Power(7, Rev(x, 10))) % Q
iGMb[x \in 0 .. 1023] == (R * Power(8778, Rev(x, 10))) % Q

-----------------------------------------------------------------------------
(* Slips the code could contain, none of them used below.                  *)

NttTwiddleOfPair(m, j, t)    == GMb[m + j]
InverseOfDegreePlain(logn)   == Passes(LAMBDA x, k : mq_rshift1(x), 1, logn)

-----------------------------------------------------------------------------
NttTwiddle(m, j, t)  == GMb[m + j \div t]
INttTwiddle(m, j, t) == iGMb[m + j \div (2 * t)]

(* One pass: m blocks of t places, each place of a lower half paired with  *)
(* its counterpart in the upper half.                                      *)
NttPass(a, m, t) ==
  LET ht == t \div 2 IN
  [j \in DOMAIN a |->
     IF j % t < ht THEN mq_add(a[j], mq_montymul(a[j + ht], NttTwiddle(m, j, t)))
                   ELSE mq_sub(a[j - ht], mq_montymul(a[j], NttTwiddle(m, j, t)))]

mq_NTT(a, logn) == Passes(LAMBDA b, k : NttPass(b, 2^k, 2^(logn - k)), a, logn)

INttPass(a, m, t) ==
  [j \in DOMAIN a |->
     IF j % (2 * t) < t THEN mq_add(a[j], a[j + t])
                        ELSE mq_montymul(mq_sub(a[j - t], a[j]), INttTwiddle(m, j, t))]

(* 1/n in Montgomery representation: R, halved logn times.                 *)
InverseOfDegree(logn) == Passes(LAMBDA x, k : mq_rshift1(x), R, logn)

mq_iNTT(a, logn) ==
  LET b == Passes(LAMBDA c, k : INttPass(c, 2^(logn - k - 1), 2^k), a, logn)
  IN  [u \in DOMAIN a |-> mq_montymul(b[u], InverseOfDegree(logn))]

mq_poly_tomonty(f)         == [u \in DOMAIN f |-> mq_montymul(f[u], R2)]
mq_poly_montymul_ntt(f, g) == [u \in DOMAIN f |-> mq_montymul(f[u], g[u])]
mq_poly_sub(f, g)          == [u \in DOMAIN f |-> mq_sub(f[u], g[u])]

to_ntt_monty(h, logn) == mq_poly_tomonty(mq_NTT(h, logn))

-----------------------------------------------------------------------------
(* What the transform is for: the product modulo X^n + 1 and q.            *)

Total(f) ==
  LET sum[k \in 0 .. 1024] == IF k \notin DOMAIN f THEN 0 ELSE f[k] + sum[k + 1]
  IN  sum[0]

Times(a, b, logn) ==
  [d \in Degrees(logn) |->
     Total([i \in Degrees(logn) |->
       IF i <= d THEN (a[i] * b[d - i]) % Q ELSE (- a[i] * b[d + 2^logn - i]) % Q]) % Q]

(* The value of a at w, by Horner's rule.                                  *)
ValueAt(a, w) ==
  LET value[d \in 0 .. 1024] ==
        IF d \notin DOMAIN a THEN 0 ELSE (a[d] + w * value[d + 1]) % Q
  IN  value[0]
=============================================================================
