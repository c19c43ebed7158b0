------------------------------- MODULE NtruInt -------------------------------
(***************************************************************************)
(* Big integers in src/submodules/FN-DSA/keygen.c: arrays of words of      *)
(* W = 31 bits, the lowest first, two's complement where they are signed.  *)
(* A 32-bit word has W + 1 bits, a 64-bit word 2W + 2.  A number is the    *)
(* function of its words.                                                  *)
(***************************************************************************)
EXTENDS NtruModp

B == 2^W

Int64(z) == ((z + 2^(2 * W + 1)) % 2^(2 * W + 2)) - 2^(2 * W + 1)
Int32(z) == ((z + 2^W) % 2^(W + 1)) - 2^W

WordsOf(value, len) == [u \in 0 .. len - 1 |-> (value \div B^u) % B]
Unsigned(a, len) == Repeat(LAMBDA z, u : z + a[u] * B^u, 0, len)
Negative(a, len) == a[len - 1] >= B \div 2
Signed(a, len)   == Unsigned(a, len) - (IF Negative(a, len) THEN B^len ELSE 0)

(* The loops over the words of a number: Z(u, cc) is the sum at place u    *)
(* with the carry; its low W bits stay there, the others are the carry.    *)
Carried(Z(_, _), cc, len) ==
  LET at[u \in 0 .. len] ==
        IF u = 0 THEN [word |-> 0, carry |-> cc]
        ELSE LET z == Int64(Z(u - 1, at[u-1].carry)) IN [word |-> z % B, carry |-> z \div B]
  IN  at
Low(at, len)   == [u \in 0 .. len - 1 |-> at[u + 1].word]
Carry(at, len) == at[len].carry

(* After a division by 2^W: one place down, the carry on top as a word.    *)
Shifted(at, len) == [u \in 0 .. len - 1 |-> IF u = len - 1 THEN U32(at[len].carry) ELSE at[u + 2].word]

-----------------------------------------------------------------------------
(* Slips, none of which is used below.                                     *)
NothingShiftedIn(y, ylen, v, scl) == 0
FromHalfOn(x, m)                  == x >= m \div 2
TakenUnlessNegative(m, u, neg, less) == IF neg \/ less THEN 0 ELSE m[u]
BitsFlippedOnly(ctl)              == 0

-----------------------------------------------------------------------------
(* Both return the number, and the carry.                                  *)
zint_sub(a, b, len, ctl) ==
  LET at == Carried(LAMBDA u, cc : a[u] - b[u] + cc, 0, len)
  IN  <<IF ctl THEN Low(at, len) ELSE a, -Carry(at, len)>>
zint_mul_small(m, len, x) ==
  LET at == Carried(LAMBDA u, cc : m[u] * x + cc, 0, len)
  IN  <<Low(at, len), Carry(at, len)>>

zint_mod_small_unsigned(d, len, p, p0i, R2) ==
  Repeat(LAMBDA x, i : modp_add(modp_montymul(x, R2, p, p0i), AddIfNegative(d[len - 1 - i] - p, p), p), 0, len)

zint_mod_small_signed(d, len, p, p0i, R2, Rx) ==
  IF len = 0 THEN 0
  ELSE modp_sub(zint_mod_small_unsigned(d, len, p, p0i, R2), IF Negative(d, len) THEN Rx ELSE 0, p)

(* One word longer than x and y.                                           *)
zint_add_mul_small(x, y, len, s) ==
  LET at == Carried(LAMBDA u, cc : y[u] * s + x[u] + cc, 0, len)
  IN  [u \in 0 .. len |-> IF u = len THEN Carry(at, len) ELSE Low(at, len)[u]]

(* The comparison of the code, from the highest word down, is one of the   *)
(* numbers.                                                                *)
AboveHalfOf(x, m) == x > m \div 2
zint_norm_zero(x, m, len) ==
  zint_sub(x, m, len, AboveHalfOf(Unsigned(x, len), Unsigned(m, len)))[1]

(* A number of xlen words from its residues xx[u] modulo primes[u + 1]; s  *)
(* is the inverse of the product of the primes before, in Montgomery       *)
(* representation.                                                         *)
zint_rebuild_CRT(xx, xlen, primes, normalize_signed) ==
  LET Step(st, u0) ==
        LET u == u0 + 1
            p == primes[u + 1].p
            p0i == modp_ninv31(p)
            xq == zint_mod_small_unsigned(st.x, u, p, p0i, modp_R2(p, p0i))
            xr == modp_montymul(primes[u + 1].s, modp_sub(xx[u], xq, p), p, p0i)
            prod == zint_mul_small(st.tmp, u, p)
        IN  [x |-> zint_add_mul_small(st.x, st.tmp, u, xr),
             tmp |-> [v \in 0 .. u |-> IF v = u THEN prod[2] ELSE prod[1][v]]]
      last == Repeat(Step, [x |-> [u \in {0} |-> xx[0]], tmp |-> [u \in {0} |-> primes[1].p]], xlen - 1)
  IN  IF normalize_signed THEN zint_norm_zero(last.x, last.tmp, xlen) ELSE last.x

-----------------------------------------------------------------------------
OneMore(ctl) == IF ctl THEN 1 ELSE 0
zint_negate(a, len, ctl) ==
  IF ctl THEN Low(Carried(LAMBDA u, cc : (B - 1 - (a[u] % B)) + cc, OneMore(ctl), len), len)
  ELSE [u \in DOMAIN a |-> a[u] % B]

(* (a*ca + b*cb) / 2^W, made positive, and whether it had to be.           *)
Reduced(a, b, len, ca, cb) ==
  LET at  == Carried(LAMBDA u, cc : a[u] * ca + b[u] * cb + cc, 0, len)
      neg == Carry(at, len) < 0
  IN  <<zint_negate(Shifted(at, len), len, neg), neg>>

(* Brings a into 0 .. m - 1: adds m to a negative one, subtracts it from   *)
(* one that is not less.  The top word may be W + 1 bits long.             *)
LessThan(a, m, len) ==
  Repeat(LAMBDA cc, u : IF U32(a[u] - m[u] - cc) >= B THEN 1 ELSE 0, 0, len) = 1
Taken(m, u, neg, less) == IF neg THEN B - 1 - m[u] ELSE IF less THEN 0 ELSE m[u]
zint_finish_mod(a, len, m, neg) ==
  LET less == LessThan(a, m, len)
  IN  Low(Carried(LAMBDA u, cc : a[u] - Taken(m, u, neg, less) + cc, IF neg THEN -1 ELSE 0, len), len)

(* (a*ca + b*cb) / 2^W modulo the odd m: Montgomery reduction.             *)
ReducedMod(a, b, m, len, m0i, ca, cb) ==
  LET f  == (((a[0] * (ca % B) + b[0] * (cb % B)) % B) * m0i) % B
      at == Carried(LAMBDA u, cc : a[u] * ca + b[u] * cb + m[u] * f + cc, 0, len)
  IN  zint_finish_mod(Shifted(at, len), len, m, Carry(at, len) < 0)

-----------------------------------------------------------------------------
(* Word v of y*2^scl, for the signed y.                                   *)
SignedWord(y, ylen, v) ==
  IF v < ylen THEN y[v] ELSE IF Negative(y, ylen) THEN B - 1 ELSE 0
ShiftedIn(y, ylen, v, scl) ==
  IF v = 0 THEN 0 ELSE SignedWord(y, ylen, v - 1) \div 2^(W - scl)
ScaledWord(y, ylen, v, scl) ==
  ((SignedWord(y, ylen, v) * 2^scl) % B) + ShiftedIn(y, ylen, v, scl)

(* x + k*y*2^(W*sch + scl) and x - y*2^(W*sch + scl), truncated.           *)
FromPlace(x, xlen, sch, Z(_, _)) ==
  LET at == Carried(LAMBDA v, cc : Z(v, cc) + x[v + sch], 0, xlen - sch)
  IN  [u \in DOMAIN x |-> IF u < sch THEN x[u] ELSE at[u - sch + 1].word]
zint_add_scaled_mul_small(x, xlen, y, ylen, k, sch, scl) ==
  IF ylen = 0 \/ sch >= xlen THEN x
  ELSE FromPlace(x, xlen, sch, LAMBDA v, cc : ScaledWord(y, ylen, v, scl) * k + Int32(cc))
zint_sub_scaled(x, xlen, y, ylen, sch, scl) ==
  IF ylen = 0 \/ sch >= xlen THEN x
  ELSE FromPlace(x, xlen, sch, LAMBDA v, cc : cc - ScaledWord(y, ylen, v, scl))

=============================================================================
