----------------------------- MODULE FalconSign -----------------------------
(***************************************************************************)
(* The signing of src/submodules/FN-DSA/sign.c, over an exact field: the   *)
(* tree of an expanded key, the sampling of a lattice point along the tree *)
(* (sign_tree) or along a tree made on the way (sign_dyn), the signature.  *)
(*                                                                         *)
(* Polynomials live at addresses of one memory m, a function from the      *)
(* addresses written so far to field elements, so that it matters which    *)
(* buffers a call may overwrite.  A sampling step works on s, which holds  *)
(* the memory s.m and the sampler's context s.c.  A call whose operand was *)
(* never written goes no further.                                          *)
(***************************************************************************)
EXTENDS FalconFft, SequencesExt

CONSTANT L2Bound    \* the acceptance bound on the squared norm, for each coefficient

RECURSIVE ffLDL_fft_inner(_, _, _, _, _, _, _), ffLDL_binary_normalize(_, _, _, _)
RECURSIVE ffSampling_fft_dyntree(_, _, _, _, _, _, _, _, _, _), ffSampling_fft(_, _, _, _, _, _, _, _, _)

Get(m, p, logn)  == [d \in 0 .. MKN(logn) - 1 |-> m[p + d]] @@ <<>>
Put(m, p, f)     ==
  [a \in DOMAIN m \cup {p + d : d \in DOMAIN f} |-> IF a - p \in DOMAIN f THEN f[a - p] ELSE m[a]] @@ <<>>
(* What is made of m, which holds something at p; TLC evaluates m first.   *)
After(m, p, result) == IF p \in DOMAIN m THEN result ELSE m

Copy(m, to, from, logn) == Put(m, to, Get(m, from, logn))
Made(m, a, Op(_), logn) == Put(m, a, Op(Get(m, a, logn)))
Joined(m, a, b, Op(_, _), logn) == Put(m, a, Op(Get(m, a, logn), Get(m, b, logn)))

mul(m, a, b, logn)      == Joined(m, a, b, LAMBDA x, y : poly_mul_fft(x, y, logn), logn)
muladj(avx2, m, a, b, logn) == Joined(m, a, b, LAMBDA x, y : poly_muladj_fft(avx2, x, y, logn), logn)
selfadj(m, a, logn)     == Made(m, a, LAMBDA x : poly_mulselfadj_fft(x, logn), logn)
scaled(m, a, x, logn)   == Made(m, a, LAMBDA y : poly_mulconst(y, x), logn)
added(m, a, b, logn)    == Joined(m, a, b, poly_add, logn)
subtracted(m, a, b, logn) == Joined(m, a, b, poly_sub, logn)
PutTwo(m, p, q, pair)   == Put(Put(m, p, pair[1]), q, pair[2])
split(avx2, m, f0, f1, f, logn) ==
  PutTwo(m, f0, f1, poly_split_fft(avx2, Get(m, f, logn), logn))
merge(avx2, m, f, f0, f1, logn) ==
  Put(m, f, poly_merge_fft(avx2, Get(m, f0, logn - 1), Get(m, f1, logn - 1), logn))

-----------------------------------------------------------------------------
(* Slips the code could contain, none of them used below.                  *)

treesizeOfChildren(logn)     == logn * 2^logn
SubtreesSwapped(tree, logn)  == [left |-> tree + MKN(logn) + (logn * MKN(logn - 1)), right |-> tree + MKN(logn)]
KeptIfShort(short, s2, buf)  == s2
RotatedBack(d) == <<fpr_mul(fpr_sub(d[1], d[2]), fpr_invsqrt8), fpr_mul(fpr_add(d[2], d[1]), fpr_invsqrt8)>>
-----------------------------------------------------------------------------
(* The tree: a node of n values, the left subtree, the right one.          *)
ffLDL_treesize(logn) == (logn + 1) * 2^logn

Subtrees(tree, logn) ==
  [left  |-> tree + MKN(logn),
   right |-> tree + MKN(logn) + ffLDL_treesize(logn - 1)]

PutLDL(m, d11, l10, ld) == PutTwo(m, d11, l10, <<ld.d11, ld.l10>>)
(* Two polynomials split in turn: f, then g.                               *)
SplitBoth(avx2, m, f0, f, g0, g, logn) ==
  LET hn == MKN(logn) \div 2
  IN  split(avx2, split(avx2, m, f0, f0 + hn, f, logn), g0, g0 + hn, g, logn)

ffLDL_fft_inner(avx2, m, tree, g0, g1, logn, tmp) ==
  LET hn == MKN(logn) \div 2
      sub == Subtrees(tree, logn)
      m1 == PutLDL(m, tmp, tree, poly_LDLmv_fft(avx2, Get(m, g0, logn), Get(m, g1, logn), Get(m, g0, logn), logn))
  IN  IF g0 \notin DOMAIN m THEN m
      ELSE IF logn = 0 THEN Copy(m, tree, g0, 0)
      ELSE ffLDL_fft_inner(avx2,
             ffLDL_fft_inner(avx2, SplitBoth(avx2, m1, g1, g0, g0, tmp, logn),
                             sub.left, g1, g1 + hn, logn - 1, tmp),
             sub.right, g0, g0 + hn, logn - 1, tmp)

ffLDL_fft(avx2, m, tree, g00, g01, g11, logn, tmp) ==
  LET hn == MKN(logn) \div 2
      d00 == tmp  d11 == tmp + MKN(logn)  t == d11 + MKN(logn)
      sub == Subtrees(tree, logn)
      m1 == PutLDL(Copy(m, d00, g00, logn), d11, tree,
                   poly_LDLmv_fft(avx2, Get(m, g00, logn), Get(m, g01, logn), Get(m, g11, logn), logn))
  IN  After(m, g00,
        IF logn = 0 THEN Copy(m, tree, g00, 0)
        ELSE ffLDL_fft_inner(avx2,
               ffLDL_fft_inner(avx2, Copy(SplitBoth(avx2, m1, t, d00, d00, d11, logn), d11, t, logn),
                               sub.left, d11, d11 + hn, logn - 1, t),
               sub.right, d00, d00 + hn, logn - 1, t))

(* 1/sigma, one value for each degree.                                     *)
fpr_inv_sigma(logn) == fpr_of(5 * logn + 1)

Leaf(d, logn) == fpr_mul(fpr_sqrt(d), fpr_inv_sigma(logn))

ffLDL_binary_normalize(m, tree, orig_logn, logn) ==
  IF tree \notin DOMAIN m THEN m
  ELSE IF logn = 0 THEN Put(m, tree, [d \in {0} |-> Leaf(m[tree], orig_logn)])
  ELSE ffLDL_binary_normalize(
         ffLDL_binary_normalize(m, Subtrees(tree, logn).left, orig_logn, logn - 1),
         Subtrees(tree, logn).right, orig_logn, logn - 1)

-----------------------------------------------------------------------------
(* B = [[g, -f], [G, -F]], transformed, at the address b.                  *)
smallints_to_fpr(t) == Each(fpr_of, t)

b00(b, logn)  == b
b01(b, logn)  == b + MKN(logn)
b10(b, logn)  == b + 2 * MKN(logn)
b11(b, logn)  == b + 3 * MKN(logn)
skoff_tree(logn) == 4 * MKN(logn)

Basis(m, b, key, logn) ==
  LET Transformed(t) == FFT(smallints_to_fpr(t), logn)
  IN  Put(Put(Put(Put(m, b00(b, logn), Transformed(key.g)),
                     b01(b, logn), poly_neg(Transformed(key.f))),
                     b10(b, logn), Transformed(key.G)),
                     b11(b, logn), poly_neg(Transformed(key.F)))

(* Terms of the Gram matrix, from copies of the rows.                      *)
NormTerm(m, to, from, logn)         == selfadj(Copy(m, to, from, logn), to, logn)
CrossTerm(avx2, m, to, a, b, logn)  == muladj(avx2, Copy(m, to, a, logn), to, b, logn)

(* The Gram matrix of B, at g00, g01, g11; gxx is scratch.                 *)
Gram(avx2, m, b, g00, logn) ==
  LET n == MKN(logn)
      g01 == g00 + n  g11 == g01 + n  gxx == g11 + n
      First(m0)  == added(NormTerm(NormTerm(m0, g00, b00(b, logn), logn), gxx, b01(b, logn), logn),
                          g00, gxx, logn)
      Second(m0) == added(CrossTerm(avx2, CrossTerm(avx2, m0, g01, b00(b, logn), b10(b, logn), logn),
                                    gxx, b01(b, logn), b11(b, logn), logn),
                          g01, gxx, logn)
      Third(m0)  == added(NormTerm(NormTerm(m0, g11, b10(b, logn), logn), gxx, b11(b, logn), logn),
                          g11, gxx, logn)
  IN  After(m, b, Third(Second(First(m))))

(* The tree before and after it is normalised.                             *)
PlainTree(avx2, m, ek, key, logn, tmp) ==
  LET n == MKN(logn)
      m1 == Gram(avx2, Basis(m, ek, key, logn), ek, tmp, logn)
  IN  ffLDL_fft(avx2, m1, ek + skoff_tree(logn), tmp, tmp + n, tmp + 2 * n, logn, tmp + 3 * n)

expand_privkey(avx2, m, ek, key, logn, tmp) ==
  ffLDL_binary_normalize(PlainTree(avx2, m, ek, key, logn, tmp), ek + skoff_tree(logn), logn, logn)

-----------------------------------------------------------------------------
(* The sampler the caller passes: an integer that depends on its state,    *)
(* here the calls so far, on the center and on the leaf.                   *)
samp(c, mu, sigma) ==
  LET z == (((c.seed + Len(c.calls)) * mu + sigma) % 7) - 3
  IN  [c EXCEPT !.calls = Append(@, [mu |-> mu, sigma |-> sigma, z |-> z])]

(* One value sampled around mu, stored at z.                               *)
Sample(s, z, mu, sigma) ==
  LET c == samp(s.c, mu, sigma)
  IN  [c |-> c, m |-> Put(s.m, z, [d \in {0} |-> fpr_of(Last(c.calls).z)])]

(* g becomes its two halves, by way of tmp.                                *)
Halved(avx2, m, g, tmp, logn) ==
  Copy(split(avx2, m, tmp, tmp + (MKN(logn) \div 2), g, logn), g, tmp, logn)

(* The matrix is decomposed and split: g00 and the first half of g01 are   *)
(* the matrix of the left subtree, g11 and the second half of g01 that of  *)
(* the right one; l10 goes to tmp.                                         *)
Decomposed(avx2, m, g00, g01, g11, logn, tmp) ==
  LET hn == MKN(logn) \div 2
      Written(ld) == PutTwo(m, g01, g11, <<ld.g01, ld.g11>>)
      m1 == Written(poly_LDL_fft(avx2, Get(m, g00, logn), Get(m, g01, logn), Get(m, g11, logn), logn))
      m2 == Halved(avx2, Halved(avx2, m1, g00, tmp, logn), g11, tmp, logn)
  IN  Copy(Copy(Copy(m2, tmp, g01, logn), g01, g00, logn - 1), g01 + hn, g11, logn - 1)

(* t0 moves by (t1 - z) * l10, and t1 becomes z.                           *)
Moved(m, t0, t1, l10, z1, z, logn) ==
  added(mul(Copy(subtracted(Copy(m, z1, t1, logn), z1, z, logn), t1, z, logn), l10, z1, logn),
        t0, l10, logn)

ffSampling_fft_dyntree(avx2, s, t0, t1, g00, g01, g11, orig_logn, logn, tmp) ==
  LET n == MKN(logn)  hn == n \div 2  z1 == tmp + n  z == tmp + 2 * n
      leaf == Leaf(s.m[g00], orig_logn)
      Second(s0) == Sample(s0, t1, s0.m[t1], leaf)
      (* the right subtree, with t1 *)
      s1 == ffSampling_fft_dyntree(avx2,
              [s EXCEPT !.m = split(avx2, Decomposed(avx2, @, g00, g01, g11, logn, tmp),
                                    z1, z1 + hn, t1, logn)],
              z1, z1 + hn, g11, g11 + hn, g01 + hn, orig_logn, logn - 1, z1 + n)
      (* the left subtree, with t0 *)
      s2 == ffSampling_fft_dyntree(avx2,
              [s1 EXCEPT !.m = split(avx2, Moved(merge(avx2, @, z, z1, z1 + hn, logn),
                                                 t0, t1, tmp, z1, z, logn),
                                     tmp, tmp + hn, t0, logn)],
              tmp, tmp + hn, g00, g00 + hn, g01, orig_logn, logn - 1, tmp + n)
  IN  IF t0 \notin DOMAIN s.m THEN s
      ELSE IF logn = 0 THEN Second(Sample(s, t0, s.m[t0], leaf))
      ELSE [s2 EXCEPT !.m = merge(avx2, @, t0, tmp, tmp + hn, logn)]

(* The last two levels of a tree in one: w is split, sampled by the four   *)
(* values of a tree of degree 2, merged.                                   *)
Rotated(d) == <<fpr_mul(fpr_add(d[1], d[2]), fpr_invsqrt8), fpr_mul(fpr_sub(d[2], d[1]), fpr_invsqrt8)>>
Turned(z)  == <<fpr_mul(fpr_sub(fpr_of(z[1]), fpr_of(z[2])), fpr_invsqrt2),
                fpr_mul(fpr_add(fpr_of(z[1]), fpr_of(z[2])), fpr_invsqrt2)>>

(* The same with vectors of two lanes: the lanes are exchanged, and the    *)
(* sign of one is flipped; the samples are added as integers.              *)
Lows(a, b)   == <<a[1], b[1]>>
Highs(a, b)  == <<a[2], b[2]>>
Crossed(a)   == <<a[2], a[1]>>
FlipLow(a)   == <<fpr_neg(a[1]), a[2]>>
FlipHigh(a)  == <<a[1], fpr_neg(a[2])>>
InBoth(a, b) == <<fpr_mul(a[1], b[1]), fpr_mul(a[2], b[2])>>

RotatedV(d)   == Scale(fpr_invsqrt8, FPC_ADD(d, FlipHigh(Crossed(d))))
TurnedV(z)    == Scale(fpr_invsqrt2, <<fpr_of(z[1] - z[2]), fpr_of(z[1] + z[2])>>)
AddMulV(x, a, b) ==
  LET c == InBoth(a, b)  d == InBoth(a, Crossed(b))
  IN  FPC_ADD(x, FPC_ADD(Lows(c, d), FlipLow(Highs(c, d))))

SampTwo(c, mu, sigma) == samp(samp(c, mu[1], sigma), mu[2], sigma)
DrawnTwo(c) == <<c.calls[Len(c.calls) - 1].z, Last(c.calls).z>>
Floats(z)   == <<fpr_of(z[1]), fpr_of(z[2])>>

(* The even values, after the odd ones were drawn.                         *)
SampleEven(avx2, c, m, tree, odd, even) ==
  LET z == DrawnTwo(c)
      left == FPC_SUB(odd, Floats(z))
      l10  == <<m[tree], m[tree + 1]>>
      x == IF avx2 THEN AddMulV(even, left, l10) ELSE FPC_ADD(FPC_MUL(left, l10), even)
      turned == IF avx2 THEN TurnedV(z) ELSE Turned(z)
      Both(of) == [c |-> of, z |-> <<FPC_ADD(Floats(DrawnTwo(of)), turned),
                                     FPC_SUB(Floats(DrawnTwo(of)), turned)>>]
  IN  Both(SampTwo(c, x, m[tree + 2]))

SampleFour(avx2, c, m, tree, w) ==
  LET Odd(odd) == SampleEven(avx2, SampTwo(c, odd, m[tree + 3]), m, tree, odd,
                             Scale(fpr_half(1), FPC_ADD(w[1], w[2])))
      d == FPC_SUB(w[1], w[2])
  IN  Odd(IF avx2 THEN RotatedV(d) ELSE Rotated(d))

(* t0 + (t1 - z) * l10 for two complex values; with vectors the lanes are  *)
(* the two values, the real and the imaginary parts a register each.       *)
MovedFour(t0, t1, l10, z) ==
  LET Value(k) == FPC_ADD(FPC_MUL(FPC_SUB(t1[k], z[k]), l10[k]), t0[k])
  IN  <<Value(1), Value(2)>>

MovedFourV(t0, t1, l10, z) ==
  LET Re(a) == Lows(a[1], a[2])  Im(a) == Highs(a[1], a[2])
      yre == FPC_SUB(Re(t1), Re(z))  yim == FPC_SUB(Im(t1), Im(z))
      wre == FPC_ADD(FPC_SUB(InBoth(yre, Re(l10)), InBoth(yim, Im(l10))), Re(t0))
      wim == FPC_ADD(FPC_ADD(InBoth(yre, Im(l10)), InBoth(yim, Re(l10))), Im(t0))
  IN  <<Lows(wre, wim), Highs(wre, wim)>>

Quarter(pair) == Flat(LAMBDA u : pair[u + 1], 2)

SampledAtTwo(avx2, s, z0, z1, tree, t0, t1) ==
  LET Pair(p) == <<<<s.m[p], s.m[p + 2]>>, <<s.m[p + 1], s.m[p + 3]>>>>
      Both(right, left) ==
        [c |-> left.c, m |-> PutTwo(s.m, z1, z0, <<Quarter(right.z), Quarter(left.z)>>)]
      Left(right) ==
        LET tb0 == IF avx2 THEN MovedFourV(Pair(t0), Pair(t1), Pair(tree), right.z)
                   ELSE MovedFour(Pair(t0), Pair(t1), Pair(tree), right.z)
        IN  Both(right, SampleFour(avx2, right.c, s.m, tree + 4, tb0))
  IN  Left(SampleFour(avx2, s.c, s.m, tree + 8, Pair(t1)))

(* A tree of degree 2: four calls.                                         *)
SampledAtOne(s, z0, z1, tree, t0, t1) ==
  LET t == <<s.m[t1], s.m[t1 + 1]>>
      sr == Sample(Sample(s, z1, t[1], s.m[tree + 3]), z1 + 1, t[2], s.m[tree + 3])
      x == FPC_ADD(FPC_MUL(FPC_SUB(t, <<sr.m[z1], sr.m[z1 + 1]>>), <<s.m[tree], s.m[tree + 1]>>),
                   <<s.m[t0], s.m[t0 + 1]>>)
  IN  Sample(Sample(sr, z0, x[1], s.m[tree + 2]), z0 + 1, x[2], s.m[tree + 2])

(* tmp becomes t0 + (t1 - z1) * l10.                                       *)
MovedTo(m, tmp, t0, t1, l10, z1, logn) ==
  added(mul(subtracted(Copy(m, tmp, t1, logn), tmp, z1, logn), tmp, l10, logn), tmp, t0, logn)

ffSampling_fft(avx2, s, z0, z1, tree, t0, t1, logn, tmp) ==
  LET n == MKN(logn)  hn == n \div 2
      sub == Subtrees(tree, logn)
      s1 == ffSampling_fft(avx2, [s EXCEPT !.m = split(avx2, @, z1, z1 + hn, t1, logn)],
                           tmp, tmp + hn, sub.right, z1, z1 + hn, logn - 1, tmp + n)
      s2 == ffSampling_fft(avx2,
              [s1 EXCEPT !.m = split(avx2, MovedTo(merge(avx2, @, z1, tmp, tmp + hn, logn),
                                                   tmp, t0, t1, tree, z1, logn),
                                     z0, z0 + hn, tmp, logn)],
              tmp, tmp + hn, sub.left, z0, z0 + hn, logn - 1, tmp + n)
  IN  CASE t0 \notin DOMAIN s.m -> s
        [] t0 \in DOMAIN s.m /\ logn = 2 -> SampledAtTwo(avx2, s, z0, z1, tree, t0, t1)
        [] t0 \in DOMAIN s.m /\ logn = 1 -> SampledAtOne(s, z0, z1, tree, t0, t1)
        [] OTHER    -> [s2 EXCEPT !.m = merge(avx2, @, z0, tmp, tmp + hn, logn)]

-----------------------------------------------------------------------------
(* [hm, 0] in the basis, at t0 and t1.                                     *)
HashTarget(m, t0, t1, b01_, b11_, hm, logn) ==
  LET ni == fpr_inv(fpr_of(12289))
      m1 == Put(m, t0, FFT(Each(fpr_of, hm), logn))
      m2 == scaled(mul(Copy(m1, t1, t0, logn), t1, b01_, logn), t1, fpr_neg(ni), logn)
  IN  After(m, b11_, scaled(mul(m2, t0, b11_, logn), t0, ni, logn))

(* The lattice point (t0, t1) * B, transformed back; tx and ty are         *)
(* scratch.                                                                *)
LatticePoint(avx2, m, b, t0, t1, tx, ty, logn) ==
  LET m1 == mul(mul(m, tx, b00(b, logn), logn), ty, b10(b, logn), logn)
      m2 == Copy(added(m1, tx, ty, logn), ty, t0, logn)
      m3 == mul(m2, ty, b01(b, logn), logn)
      m4 == mul(Copy(m3, t0, tx, logn), t1, b11(b, logn), logn)
      m5 == added(m4, t1, ty, logn)
      Back(a) == iFFT(avx2, Get(m5, a, logn), logn)
  IN  After(m, b, Put(Put(m5, t0, Back(t0)), t1, Back(t1)))

NormSq(v) == FoldFunction(LAMBDA z, sum : z * z + sum, 0, v)

(* The signature is hm minus the point, if it is short: buf, where s2 goes *)
(* and where the hashed message may be, is written only then.              *)
Finished(short, s2, buf) == IF short THEN s2 ELSE buf

ToInt16(z) == ((z + 2^15) % 2^16) - 2^15

Signed(s, hm, t0, t1, buf, logn) ==
  LET Rint(p) == Each(fpr_rint, Get(s.m, p, logn))
      z1 == [u \in DOMAIN hm |-> hm[u] - Rint(t0)[u]] @@ <<>>
      s2 == Each(LAMBDA z : ToInt16(-z), Rint(t1))
      short == NormSq(z1) + NormSq(s2) <= L2Bound * MKN(logn)
  IN  [ok |-> short, s1 |-> Each(ToInt16, z1), buf |-> Finished(short, s2, buf), calls |-> s.c.calls, m |-> s.m]

(* With an expanded key at ek; tmp holds t0, t1, tx, ty, then the          *)
(* sampling's scratch.                                                     *)
do_sign_tree(avx2, s, buf, ek, hm, logn, tmp) ==
  LET n == MKN(logn)
      t0 == tmp  t1 == t0 + n  tx == t1 + n  ty == tx + n
      m1 == HashTarget(s.m, t0, t1, b01(ek, logn), b11(ek, logn), hm, logn)
      Point(m) == LatticePoint(avx2, Copy(Copy(m, t0, tx, logn), t1, ty, logn), ek, t0, t1, tx, ty, logn)
      Sampled(s2) == Signed([s2 EXCEPT !.m = Point(@)], hm, t0, t1, buf, logn)
  IN  Sampled(ffSampling_fft(avx2, [s EXCEPT !.m = m1], tx, ty, ek + skoff_tree(logn), t0, t1, logn, ty + n))

(* With the private key: the matrix at tmp is replaced by its Gram matrix, *)
(* which the sampling consumes, and is computed again.                     *)
GramInPlace(avx2, m, b, t0, t1, logn) ==
  LET First(m0)  == added(selfadj(CrossTerm(avx2, NormTerm(m0, t0, b01(b, logn), logn),
                                            t1, b00(b, logn), b10(b, logn), logn),
                                  b00(b, logn), logn), b00(b, logn), t0, logn)
      Second(m0) == added(muladj(avx2, Copy(m0, t0, b01(b, logn), logn), b01(b, logn), b11(b, logn), logn),
                          b01(b, logn), t1, logn)
      Third(m0)  == added(NormTerm(selfadj(m0, b10(b, logn), logn), t1, b11(b, logn), logn),
                          b10(b, logn), t1, logn)
  IN  After(m, b, Third(Second(First(m))))

do_sign_dyn(avx2, s, buf, key, hm, logn, tmp) ==
  LET n == MKN(logn)
      At_(k) == tmp + k * n
      m1 == GramInPlace(avx2, Basis(s.m, tmp, key, logn), tmp, At_(4), At_(5), logn)
      (* g00 g01 g11 b11 b01 t0 t1 *)
      m2 == HashTarget(m1, At_(5), At_(6), At_(4), At_(3), hm, logn)
      (* g00 g01 g11 t0 t1 *)
      m3 == Copy(Copy(m2, At_(3), At_(5), logn), At_(4), At_(6), logn)
      (* b00 b01 b10 b11 t0 t1 tx ty *)
      Point(m) ==
        LET m4 == PutTwo(m, At_(5), At_(4), <<Get(m, At_(4), logn), Get(m, At_(3), logn)>>)
            m6 == Copy(Copy(Basis(m4, tmp, key, logn), At_(6), At_(4), logn), At_(7), At_(5), logn)
        IN  LatticePoint(avx2, m6, tmp, At_(4), At_(5), At_(6), At_(7), logn)
      Sampled(s3) == Signed([s3 EXCEPT !.m = Point(@)], hm, At_(4), At_(5), buf, logn)
  IN  Sampled(ffSampling_fft_dyntree(avx2, [s EXCEPT !.m = m3], At_(3), At_(4),
                                     At_(0), At_(1), At_(2), logn, logn, At_(5)))
=============================================================================
