------------------------------ MODULE FalconFft ------------------------------
(***************************************************************************)
(* The transform of src/submodules/FN-DSA/fft.c and the operations on      *)
(* transformed polynomials, over an exact field.  A polynomial of degree   *)
(* n = 2^logn is a function on 0 .. n-1; transformed, the places u and     *)
(* u + n/2 hold the real and the imaginary part of its value at a root of  *)
(* X^n + 1.                                                                *)
(*                                                                         *)
(* Most functions of the code have two bodies, one with vectors of four    *)
(* (FALCON_AVX2).  Where these compute by other formulas, or move values   *)
(* between lanes, the definition has two bodies as well; avx2 tells which  *)
(* build is meant.                                                         *)
(*                                                                         *)
(* The floating-point numbers of src/submodules/FN-DSA/fpr.h are seen as   *)
(* the elements of a field: what the transforms, the tree and the sampling *)
(* compute when no operation rounds.  The field is that of the integers    *)
(* modulo a prime P, with P % 4 = 3, so that -1 is no square and complex   *)
(* numbers are pairs of elements, as in the code.  W stands for            *)
(* exp(i*pi/N), of order 2N, N = 2^LogN the largest degree; its conjugate  *)
(* is its inverse.                                                         *)
(***************************************************************************)
EXTENDS Integers, Sequences, TLC

CONSTANTS P, LogN, WRe, WIm

W == <<WRe, WIm>>

Elements == 0 .. P - 1

(* x^e, one of the two factors at a time.                                  *)
PowerOf(x, e, Mul(_, _), one) ==
  LET p[k \in 0 .. e] == IF k = 0 THEN one ELSE
                         LET square == Mul(p[k \div 2], p[k \div 2])
                         IN  IF k % 2 = 0 THEN square ELSE Mul(square, x)
  IN  p[e]

fpr_of(i)     == i % P
fpr_add(x, y) == (x + y) % P
fpr_sub(x, y) == (x - y) % P
fpr_neg(x)    == (- x) % P
fpr_mul(x, y) == (x * y) % P
fpr_sqr(x)    == fpr_mul(x, x)
fpr_half(x)   == fpr_mul(x, (P + 1) \div 2)
fpr_inv(x)    == PowerOf(x, P - 2, fpr_mul, 1)

(* The root of x, or of -x when it is that which has one.                  *)
fpr_sqrt(x)   == PowerOf(x, (P + 1) \div 4, fpr_mul, 1)

(* The integer closest to zero that x stands for.                          *)
fpr_rint(x)   == IF x > P \div 2 THEN x - P ELSE x

fpr_zero == 0

-----------------------------------------------------------------------------
(* Complex numbers, <<re, im>>.                                            *)
FPC_ADD(a, b) == <<fpr_add(a[1], b[1]), fpr_add(a[2], b[2])>>
FPC_SUB(a, b) == <<fpr_sub(a[1], b[1]), fpr_sub(a[2], b[2])>>
FPC_MUL(a, b) == <<fpr_sub(fpr_mul(a[1], b[1]), fpr_mul(a[2], b[2])),
                   fpr_add(fpr_mul(a[1], b[2]), fpr_mul(a[2], b[1]))>>
Conj(a)       == <<a[1], fpr_neg(a[2])>>
Scale(x, a)   == <<fpr_mul(x, a[1]), fpr_mul(x, a[2])>>
OverNorm(b, a) == Scale(fpr_inv(fpr_add(fpr_sqr(a[1]), fpr_sqr(a[2]))), b)
FPC_INV(a)    == OverNorm(Conj(a), a)
FPC_DIV(a, b) == FPC_MUL(a, FPC_INV(b))

(* Bit reversal of x < 2^bits.                                             *)
RevBits(x, bits) ==
  LET r[k \in 0 .. bits] == IF k = 0 THEN 0 ELSE 2 * r[k-1] + ((x \div 2^(k-1)) % 2)
  IN  r[bits]

(* Powers of W in bit-reversed order; 2/n, by logn.                        *)
fpr_gm_tab == [k \in 0 .. 2^LogN - 1 |-> PowerOf(W, RevBits(k, LogN), FPC_MUL, <<1, 0>>)] @@ <<>>
fpr_p2_tab == [logn \in 0 .. LogN |-> fpr_mul(2, PowerOf(fpr_half(1), logn, fpr_mul, 1))] @@ <<>>

(* gm_tab[2] is (1 + i) / sqrt(2).                                         *)
fpr_invsqrt2 == fpr_gm_tab[2][1]
fpr_invsqrt8 == fpr_half(fpr_invsqrt2)

FieldAssumption ==
  /\ P % 4 = 3 /\ \A d \in 2 .. P - 1 : d * d > P \/ P % d # 0
  /\ FPC_MUL(W, Conj(W)) = <<1, 0>>
  /\ fpr_gm_tab[1] = <<0, 1>>
  /\ LogN > 1 => fpr_invsqrt2 = fpr_gm_tab[2][2]

-----------------------------------------------------------------------------
MKN(logn) == 2^logn

(* The complex value at u; a polynomial from its n/2 complex values.       *)
At(f, u, logn) == <<f[u], f[u + MKN(logn) \div 2]>>
Flat(z(_), logn) ==
  LET hn == MKN(logn) \div 2
  IN  [u \in 0 .. 2 * hn - 1 |-> IF u < hn THEN z(u)[1] ELSE z(u - hn)[2]] @@ <<>>

(* Op in place of every pair of values; a polynomial of degree 1 has none. *)
ByPairs(Op(_, _), a, b, logn) ==
  IF logn = 0 THEN a ELSE Flat(LAMBDA u : Op(At(a, u, logn), At(b, u, logn)), logn)

Each(Op(_), a) == [u \in DOMAIN a |-> Op(a[u])] @@ <<>>
EachOfTwo(Op(_, _), a, b) == [u \in DOMAIN a |-> Op(a[u], b[u])] @@ <<>>

-----------------------------------------------------------------------------
(* Slips the code could contain, none of them used below.                  *)

TwiddleOfHalf(u, i1)       == fpr_gm_tab[2^(u - 1) + i1]
UntwistPlain(s, x, y)      == FPC_MUL(FPC_SUB(x, y), s)
MulAdjUnsigned(a, b)       == FPC_MUL(a, b)
DivideByNorm(a, b)         == FPC_MUL(a, OverNorm(b, b))
MultiplierConjugated(g00, g01) == FPC_DIV(g01, g00)
SplitTwistPlain(d, u, logn) == FPC_MUL(d, fpr_gm_tab[u + MKN(logn) \div 2])

-----------------------------------------------------------------------------
(* The transform.  Pass u pairs the places of blocks of t.                 *)
Twiddle(u, i1) == fpr_gm_tab[2^u + i1]

FftPass(f, u, logn) ==
  LET t == 2^(logn - u)  ht == t \div 2
      Twisted(j) == FPC_MUL(At(f, j, logn), Twiddle(u, j \div t))
  IN  Flat(LAMBDA j : IF j % t < ht
                      THEN FPC_ADD(At(f, j, logn), Twisted(j + ht))
                      ELSE FPC_SUB(At(f, j - ht, logn), Twisted(j)), logn)

FFT(f, logn) ==
  LET after[u \in 0 .. logn] == IF u <= 1 THEN f ELSE FftPass(after[u - 1], u - 1, logn)
  IN  after[logn]

(* The difference of two values, turned back; with vectors, y - x is       *)
(* taken for the real part.                                                *)
Untwist(s, x, y) == FPC_MUL(FPC_SUB(x, y), Conj(s))
UntwistV(s, x, y) ==
  LET re == fpr_sub(y[1], x[1])  im == fpr_sub(x[2], y[2])
  IN  <<fpr_sub(fpr_mul(im, s[2]), fpr_mul(re, s[1])),
        fpr_add(fpr_mul(re, s[2]), fpr_mul(im, s[1]))>>

IFftPass(avx2, f, u, logn) ==
  LET t == 2^(logn - u)
      Upper(s, x, y) == IF avx2 /\ t >= 4 THEN UntwistV(s, x, y) ELSE Untwist(s, x, y)
  IN  Flat(LAMBDA j : IF j % (2 * t) < t
                      THEN FPC_ADD(At(f, j, logn), At(f, j + t, logn))
                      ELSE Upper(fpr_gm_tab[2^(u - 1) + j \div (2 * t)],
                                 At(f, j - t, logn), At(f, j, logn)), logn)

iFFT(avx2, f, logn) ==
  LET after[u \in 1 .. logn] ==
        IF u = logn THEN f ELSE IFftPass(avx2, after[u + 1], u + 1, logn)
  IN  IF logn = 0 THEN f ELSE Each(LAMBDA x : fpr_mul(x, fpr_p2_tab[logn]), after[1])

-----------------------------------------------------------------------------
poly_add(a, b)      == EachOfTwo(fpr_add, a, b)
poly_sub(a, b)      == EachOfTwo(fpr_sub, a, b)
poly_neg(a)         == Each(fpr_neg, a)
poly_mulconst(a, x) == Each(LAMBDA y : fpr_mul(y, x), a)

poly_adj_fft(a, logn) ==
  [u \in DOMAIN a |-> IF u >= MKN(logn) \div 2 THEN fpr_neg(a[u]) ELSE a[u]] @@ <<>>

poly_mul_fft(a, b, logn) == ByPairs(FPC_MUL, a, b, logn)

MulAdj(a, b)  == FPC_MUL(a, Conj(b))
MulAdjV(a, b) == <<fpr_add(fpr_mul(a[1], b[1]), fpr_mul(a[2], b[2])),
                   fpr_sub(fpr_mul(a[2], b[1]), fpr_mul(a[1], b[2]))>>
poly_muladj_fft(avx2, a, b, logn) ==
  IF avx2 /\ logn >= 3 THEN ByPairs(MulAdjV, a, b, logn) ELSE ByPairs(MulAdj, a, b, logn)

poly_mulselfadj_fft(a, logn) ==
  ByPairs(LAMBDA x, y : <<fpr_add(fpr_sqr(x[1]), fpr_sqr(x[2])), fpr_zero>>, a, a, logn)

Divide(a, b)  == FPC_DIV(a, b)
DivideV(a, b) == MulAdjV(a, OverNorm(b, b))
poly_div_fft(avx2, a, b, logn) ==
  IF avx2 /\ logn >= 3 THEN ByPairs(DivideV, a, b, logn) ELSE ByPairs(Divide, a, b, logn)

(* 1 / (|a|^2 + |b|^2), in the first half of d; its second half is left as *)
(* it was.                                                                 *)
InvNorm(a, b) ==
  <<fpr_inv(fpr_add(fpr_add(fpr_sqr(a[1]), fpr_sqr(a[2])),
                    fpr_add(fpr_sqr(b[1]), fpr_sqr(b[2])))), fpr_zero>>
poly_invnorm2_fft(d, a, b, logn) ==
  [u \in DOMAIN d |-> IF u < MKN(logn) \div 2
                      THEN InvNorm(At(a, u, logn), At(b, u, logn))[1] ELSE d[u]] @@ <<>>

poly_add_muladj_fft(avx2, FF, GG, f, g, logn) ==
  poly_add(poly_muladj_fft(avx2, FF, f, logn), poly_muladj_fft(avx2, GG, g, logn))

(* b is its own adjoint: only the first half of it is read.                *)
poly_mul_autoadj_fft(a, b, logn) ==
  ByPairs(LAMBDA x, y : Scale(y[1], x), a, b, logn)
poly_div_autoadj_fft(a, b, logn) ==
  ByPairs(LAMBDA x, y : Scale(fpr_inv(y[1]), x), a, b, logn)

-----------------------------------------------------------------------------
(* The LDL decomposition of [[g00, g01], [adj(g01), g11]]: the lower left  *)
(* of L and the lower right of D.                                          *)
Multiplier(g00, g01) == Conj(FPC_DIV(g01, g00))
Remainder(g00, g01, g11) ==
  FPC_SUB(g11, FPC_MUL(FPC_DIV(g01, g00), Conj(g01)))

(* With vectors the multiplier is conjugated first.                        *)
AdjMulV(a, b) == <<fpr_add(fpr_mul(a[1], b[1]), fpr_mul(a[2], b[2])),
                   fpr_sub(fpr_mul(a[1], b[2]), fpr_mul(a[2], b[1]))>>
MultiplierV(g00, g01)     == AdjMulV(g01, OverNorm(g00, g00))
RemainderV(g00, g01, g11) == FPC_SUB(g11, Conj(FPC_MUL(MultiplierV(g00, g01), g01)))

poly_LDLmv_fft(avx2, g00, g01, g11, logn) ==
  LET vector == avx2 /\ logn >= 3
      L(a, b) == IF vector THEN MultiplierV(a, b) ELSE Multiplier(a, b)
      D(a, b, c) == IF vector THEN RemainderV(a, b, c) ELSE Remainder(a, b, c)
  IN  [l10 |-> Flat(LAMBDA u : L(At(g00, u, logn), At(g01, u, logn)), logn),
       d11 |-> Flat(LAMBDA u : D(At(g00, u, logn), At(g01, u, logn), At(g11, u, logn)), logn)]

(* The same, written over g01 and g11.                                     *)
poly_LDL_fft(avx2, g00, g01, g11, logn) ==
  LET ld == poly_LDLmv_fft(avx2, g00, g01, g11, logn) IN [g01 |-> ld.l10, g11 |-> ld.d11]

-----------------------------------------------------------------------------
(* f(X) = f0(X^2) + X * f1(X^2).  The two values of a pair are at opposite *)
(* roots.                                                                  *)
SplitTwist(d, u, logn) == FPC_MUL(d, Conj(fpr_gm_tab[u + MKN(logn) \div 2]))

(* Vectors of four values, as the instructions permute them.               *)
hadd(a, b)     == <<fpr_add(a[1], a[2]), fpr_add(b[1], b[2]),
                    fpr_add(a[3], a[4]), fpr_add(b[3], b[4])>>
hsub(a, b)     == <<fpr_sub(a[1], a[2]), fpr_sub(b[1], b[2]),
                    fpr_sub(a[3], a[4]), fpr_sub(b[3], b[4])>>
unpacklo(a, b) == <<a[1], b[1], a[3], b[3]>>
unpackhi(a, b) == <<a[2], b[2], a[4], b[4]>>
Swap(v)        == <<v[2], v[1], v[4], v[3]>>
Middle(v)      == <<v[1], v[3], v[2], v[4]>>
InLanes(Op(_, _), a, b) == [k \in 1 .. 4 |-> Op(a[k], b[k])]
Loaded(f, u)   == [k \in 1 .. 4 |-> f[u + k - 1]]
GmLoaded(k)    == fpr_gm_tab[k] \o fpr_gm_tab[k + 1]

HalfV(v)       == [k \in 1 .. 4 |-> fpr_half(v[k])]
Alternate(v)   == <<v[1], fpr_neg(v[2]), v[3], fpr_neg(v[4])>>
TwistV(d, gmt) == hadd(InLanes(fpr_mul, d, gmt), Alternate(InLanes(fpr_mul, Swap(d), gmt)))

(* Two pairs at once: the halves of the sums, those of the differences.    *)
HalvesV(re, im, gmt) ==
  [f0 |-> Middle(HalfV(hadd(re, im))), f1 |-> Middle(TwistV(HalfV(hsub(re, im)), gmt))]
SplitV(f, u, hn) ==
  HalvesV(Loaded(f, 2 * u), Loaded(f, (2 * u) + hn), GmLoaded(u + hn))

poly_split_fft(avx2, f, logn) ==
  LET Lane(of, u) == <<of[1 + (u % 2)], of[3 + (u % 2)]>>
      V(u, part) == Lane(SplitV(f, 2 * (u \div 2), MKN(logn) \div 2)[part], u)
      Sum(u) == Scale(fpr_half(1), FPC_ADD(At(f, 2 * u, logn), At(f, 2 * u + 1, logn)))
      Dif(u) == Scale(fpr_half(1),
                  SplitTwist(FPC_SUB(At(f, 2 * u, logn), At(f, 2 * u + 1, logn)), u, logn))
  IN  CASE logn = 1 -> <<[u \in {0} |-> f[0]], [u \in {0} |-> f[1]]>>
        [] logn > 1 /\ avx2 /\ logn >= 3 ->
             <<Flat(LAMBDA u : V(u, "f0"), logn - 1), Flat(LAMBDA u : V(u, "f1"), logn - 1)>>
        [] OTHER -> <<Flat(Sum, logn - 1), Flat(Dif, logn - 1)>>

(* Four pairs at once, complex numbers lane by lane.                       *)
LoadedV(f, u, qn) == [re |-> Loaded(f, u), im |-> Loaded(f, u + qn)]
GmV(lo, hi)       == [re |-> Middle(unpacklo(lo, hi)), im |-> Middle(unpackhi(lo, hi))]
MulV(c, g) ==
  [re |-> InLanes(fpr_sub, InLanes(fpr_mul, c.re, g.re), InLanes(fpr_mul, c.im, g.im)),
   im |-> InLanes(fpr_add, InLanes(fpr_mul, c.re, g.im), InLanes(fpr_mul, c.im, g.re))]

(* Eight places: the low halves of sum and difference, then the high ones. *)
Stored(lo, hi) == <<lo[1], lo[2], hi[1], hi[2], lo[3], lo[4], hi[3], hi[4]>>
Paired(s, d)   == Stored(unpacklo(s, d), unpackhi(s, d))
MergedV(a, b)  ==
  [re |-> Paired(InLanes(fpr_add, a.re, b.re), InLanes(fpr_sub, a.re, b.re)),
   im |-> Paired(InLanes(fpr_add, a.im, b.im), InLanes(fpr_sub, a.im, b.im))]
MergeV(f0, f1, u, hn) ==
  MergedV(LoadedV(f0, u, hn \div 2),
          MulV(LoadedV(f1, u, hn \div 2), GmV(GmLoaded(u + hn), GmLoaded(u + 2 + hn))))

poly_merge_fft(avx2, f0, f1, logn) ==
  LET hn == MKN(logn) \div 2
      Either(j, x, y) == IF j % 2 = 0 THEN FPC_ADD(x, y) ELSE FPC_SUB(x, y)
      Plain(j) == Either(j, At(f0, j \div 2, logn - 1),
                         FPC_MUL(At(f1, j \div 2, logn - 1), fpr_gm_tab[(j \div 2) + hn]))
      Place(eight, j) == <<eight.re[(j % 8) + 1], eight.im[(j % 8) + 1]>>
      V(j) == Place(MergeV(f0, f1, 4 * (j \div 8), hn), j)
  IN  CASE logn = 1 -> [u \in {0, 1} |-> IF u = 0 THEN f0[0] ELSE f1[0]]
        [] logn > 1 /\ avx2 /\ logn >= 4 -> Flat(V, logn)
        [] OTHER -> Flat(Plain, logn)
=============================================================================
