------------------------------- MODULE MCNtru -------------------------------
(* Words of seven bits.  Four primes are one more than a multiple of       *)
(* eight, each with a root of X^4 + 1: all pairs of operands modulo them.  *)
(* Numbers of up to three words: values around the ends and the middle of  *)
(* the range of each length, and multiples of a number in between.         *)
EXTENDS NtruInt

PrimeRoots == {<<113, 18>>, <<97, 33>>, <<89, 12>>, <<73, 10>>}

VARIABLES p, g, a, b

ModpInit  == \E pg \in PrimeRoots : p = pg[1] /\ g = pg[2] /\ a \in 0 .. 72 /\ b = 0
ModpSweep == b < p - 1 /\ b' = b + 1 /\ UNCHANGED <<p, g, a>>

P0i == modp_ninv31(p)
R2  == modp_R2(p, P0i)

(* Montgomery's constant and products are right and in range, so that one  *)
(* subtraction or addition of p is enough everywhere (modp_montymul).      *)
ProductsExact ==
  /\ (p * P0i) % 2^W = 2^W - 1
  /\ \A z \in {modp_montymul(a, b, p, P0i)} : z \in 0 .. p - 1 /\ (z * 2^W) % p = (a * b) % p
  /\ modp_add(a, b, p) = (a + b) % p

(* The constants made by squaring are the powers of 2^W they are meant to  *)
(* be, for numbers of one to six words (modp_R2, modp_Rx).                 *)
PowersExact ==
  a = 0 => (b \in 1 .. 6 =>
    LET Rx[e \in 0 .. 6] == IF e = 0 THEN 1 ELSE (Rx[e-1] * 2^W) % p
    IN  R2 = Rx[2] /\ modp_Rx(b, p, P0i, R2) = Rx[b])

(* The quotient, and zero for the divisor zero (keygen.c:795, modp_div).   *)
QuotientsExact ==
  \A z \in {modp_div(a, b, p, P0i, modp_R(p))} :
    IF b = 0 THEN z = 0 ELSE (z * b) % p = a

(* The balanced representative is one, and is found again (modp_norm and   *)
(* modp_set).                                                              *)
BalancedExact ==
  /\ 2 * modp_norm(b, p) \in -p .. p
  /\ modp_set(modp_norm(b, p), p) = b

-----------------------------------------------------------------------------
(* Polynomials made of a and b, of every degree.                           *)
Coeffs(f, last, logn) == [i \in 0 .. 2^logn - 1 |-> IF i = 0 THEN f ELSE IF i = 2^logn - 1 THEN last ELSE 5 * i]
Times(f, h, logn) ==
  LET n == 2^logn
      Sum(F(_)) == Repeat(LAMBDA z, i : (z + F(i)) % p, 0, n)
  IN  [d \in 0 .. n - 1 |->
         Sum(LAMBDA i : IF i <= d THEN f[i] * h[d - i] ELSE - f[i] * h[d + n - i])]

(* Transforming, multiplying place by place and transforming back gives    *)
(* the product modulo X^n + 1 (modp_mkgm2, modp_NTT2_ext, modp_iNTT2_ext). *)
TransformExact ==
  b % 8 = 3 => \A logn \in 0 .. MaxLogn :
    LET tab  == modp_mkgm2(logn, g, p, P0i)
        Hat(f) == modp_NTT2(f, tab.gm, logn, p, P0i)
        f == Coeffs(a, b, logn)   h == Coeffs(b, 1, logn)
        fh == Hat(f)   hh == Hat(h)
        prod == [j \in DOMAIN f |-> modp_montymul(modp_montymul(fh[j], hh[j], p, P0i), R2, p, P0i)]
    IN  modp_iNTT2(prod, tab.igm, logn, p, P0i) = Times(f, h, logn)

(* Products of neighbours are the transform of the polynomial of half the  *)
(* degree f0^2 - X f1^2, with the first half of the tables                 *)
(* (modp_poly_rec_res).                                                    *)
HalvingExact ==
  b % 8 = 3 => \A logn \in 1 .. MaxLogn :
    LET tab == modp_mkgm2(logn, g, p, P0i)
        f   == Coeffs(a, b, logn)
        Alternate == [i \in DOMAIN f |-> IF i % 2 = 0 THEN f[i] ELSE (-f[i]) % p]
        half == modp_iNTT2(modp_poly_rec_res(modp_NTT2(f, tab.gm, logn, p, P0i), logn, p, P0i, R2),
                           tab.igm, logn - 1, p, P0i)
    IN  half = [i \in 0 .. 2^(logn - 1) - 1 |-> Times(f, Alternate, logn)[2 * i]]

-----------------------------------------------------------------------------
(* Numbers: three of the primes, with their third entries computed.        *)
P    == <<113, 97, 89>>
Prod == [i \in 0 .. 3 |-> CASE i = 0 -> 1 [] i = 1 -> 113 [] i = 2 -> 113 * 97 [] i = 3 -> 113 * 97 * 89]
S(i) == CHOOSE s \in 0 .. P[i] - 1 : (s * Prod[i - 1]) % P[i] = B % P[i]
Primes == <<[p |-> 113, s |-> S(1)], [p |-> 97, s |-> S(2)], [p |-> 89, s |-> S(3)]>>

Near(c) == {c + d : d \in -3 .. 3}
Values(len) ==
  {v \in UNION {Near(0), Near(B^len \div 2), Near(-(B^len \div 2)), Near(Prod[len] \div 2), Near(-(Prod[len] \div 2)),
                {(B^len \div 61) * i : i \in -25 .. 25}, {-1, 1} \cup Near(B) \cup Near(-B)} :
     v \in -(B^len \div 2) .. (B^len \div 2) - 1}

VARIABLES len, x, y

IntsInit  == len \in 1 .. 3 /\ x \in Values(len) /\ y = 0
IntsSweep == \E v \in Values(2) : y = 0 /\ v # 0 /\ y' = v /\ UNCHANGED <<len, x>>

X  == WordsOf(x, len)
Y  == WordsOf(y, 2)
In(v, l) == ((v + B^l \div 2) % B^l) - B^l \div 2

(* A number taken apart into residues and rebuilt from them is the number, *)
(* with its sign, if the product of the primes is large enough             *)
(* (zint_mod_small_signed, zint_rebuild_CRT, zint_norm_zero).              *)
RebuiltExact ==
  y = 0 =>
    LET Residue(i) ==
          LET p0i == modp_ninv31(P[i])   r2 == modp_R2(P[i], p0i)
          IN  zint_mod_small_signed(X, len, P[i], p0i, r2, modp_Rx(len, P[i], p0i, r2))
        residues == [u \in 0 .. len - 1 |-> Residue(u + 1)]
    IN  /\ \A i \in 1 .. len : residues[i - 1] = x % P[i]
        /\ 2 * x \in -Prod[len] .. Prod[len] => Signed(zint_rebuild_CRT(residues, len, Primes, TRUE), len) = x
        /\ x \in 0 .. Prod[len] - 1 => Unsigned(zint_rebuild_CRT(residues, len, Primes, FALSE), len) = x

(* Adding and subtracting a scaled number is exact modulo the length, for  *)
(* signed numbers of other lengths too (zint_add_scaled_mul_small and      *)
(* zint_sub_scaled).                                                       *)
ScaledExact ==
  len >= 2 => \A sch \in 0 .. 1, scl \in {0, 1, W - 1} :
    \A t \in {B^sch * 2^scl} :
      /\ \A k \in {-B + 1, -1, 0, 5, B - 1} :
           y * k \in -100000 .. 100000 =>
           Signed(zint_add_scaled_mul_small(X, len, Y, 2, k, sch, scl), len) = In(x + ((y * k) * t), len)
      /\ y \in -100000 .. 100000 => Signed(zint_sub_scaled(X, len, Y, 2, sch, scl), len) = In(x - y * t, len)

(* Negation and multiplication by a word, with the carry (zint_negate,     *)
(* zint_mul_small).                                                        *)
WordwiseExact ==
  y = 0 =>
    /\ Unsigned(zint_negate(X, len, TRUE), len) = (-x) % B^len
    /\ \A s \in {0, 1, 97, B - 1} : len < 3 =>
         LET m == zint_mul_small(X, len, s) IN Unsigned(m[1], len) + m[2] * B^len = Unsigned(X, len) * s
=============================================================================
