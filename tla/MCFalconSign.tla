---------------------------- MODULE MCFalconSign ----------------------------
(* The transforms and, on top of them, signing.                            *)
EXTENDS FalconSign

CONSTANTS MaxLogn, Seeds, MaxAttempts

VARIABLES
  logn, avx2,
  a, b, fa, fb,                      \* of the transforms
  key, hm, m, tree, dyn, attempts    \* of signing
fft_vars  == <<a, b, fa, fb>>
sign_vars == <<key, hm, m, tree, dyn, attempts>>

N == MKN(logn)

-----------------------------------------------------------------------------
(* Every power of X, as a, against polynomials with all coefficients, as   *)
(* b, of degrees below 2 to 2^LogN, in both builds.  The operations on a   *)
(* are linear, so its powers stand for all.                                *)
Degrees == 0 .. MKN(logn) - 1
Zero(l)     == [d \in 0 .. MKN(l) - 1 |-> 0]
Monomial(l, i) == [Zero(l) EXCEPT ![i] = 1]
Dense(l, s) == [d \in 0 .. MKN(l) - 1 |-> (s * (d + 1) * (d + 1) + 11 * d + s) % P]

FftInit ==
  /\ \E l \in 1 .. LogN : \E i \in 0 .. MKN(l) - 1 :
       logn = l /\ a = Monomial(l, i) /\ b = Dense(l, 3 + (i % 4))
  /\ avx2 \in BOOLEAN
  /\ fa = <<>> /\ fb = <<>>

Transform ==
  /\ fa = <<>>
  /\ fa' = FFT(a, logn) /\ fb' = FFT(b, logn)
  /\ UNCHANGED <<logn, avx2, a, b>>

Back(f) == iFFT(avx2, f, logn)
Places  == 0 .. MKN(logn) \div 2 - 1
Done    == fa # <<>>

(* The reference: sums over coefficients.                                  *)
Total(f) == FoldFunction(LAMBDA x, sum : (x + sum) % P, 0, f)
Times(x, y) ==
  [d \in Degrees |-> Total([i \in Degrees |->
     IF i <= d THEN x[i] * y[d - i] ELSE - x[i] * y[d + N - i]])]
Adjoint(x) ==
  [d \in Degrees |-> IF d = 0 THEN x[0] ELSE fpr_neg(x[MKN(logn) - d])]
ValueAt(x, w) ==
  LET value[d \in 0 .. MKN(LogN)] ==
        IF d \notin DOMAIN x THEN <<0, 0>> ELSE FPC_ADD(<<x[d], 0>>, FPC_MUL(w, value[d + 1]))
  IN  value[0]
Invertible(f) == \A u \in Places : At(f, u, logn) # <<0, 0>>

(* A polynomial's transform has its values at half the roots of X^n + 1,   *)
(* the other half being their conjugates (FFT).                            *)
ValuesAtRoots ==
  Done => \A roots \in {FFT(Monomial(logn, 1), logn) @@ <<>>} :
    LET root(u) == At(roots, u, logn) IN
    \A u \in Places : (logn > 1 \/ u = 0) =>
      /\ PowerOf(root(u), MKN(logn), FPC_MUL, <<1, 0>>) = <<P - 1, 0>>
      /\ \A v \in Places : root(u) = root(v) => u = v
      /\ \A v \in Places : root(u) # Conj(root(v))
      /\ At(fb, u, logn) = ValueAt(b, root(u))

(* The product of the transforms is the transform of the product modulo    *)
(* X^n + 1, and transforming back gives the polynomial, in both builds     *)
(* (iFFT, poly_mul_fft).                                                   *)
ProductRight ==
  Done => /\ Back(fa) = a /\ Back(fb) = b
          /\ Back(poly_mul_fft(fa, fb, logn)) = Times(a, b)

(* The adjoint, and the products with it (poly_adj_fft, poly_muladj_fft,   *)
(* poly_mulselfadj_fft, poly_add_muladj_fft, poly_mul_autoadj_fft).        *)
AdjointsRight ==
  Done =>
    LET norm == poly_mulselfadj_fft(fb, logn) IN
    /\ Back(poly_adj_fft(fb, logn)) = Adjoint(b)
    /\ Back(poly_muladj_fft(avx2, fb, fa, logn)) = Times(b, Adjoint(a))
    /\ Back(norm) = Times(b, Adjoint(b))
    /\ Back(poly_add_muladj_fft(avx2, fa, fb, fb, fa, logn))
         = poly_add(Times(a, Adjoint(b)), Times(b, Adjoint(a)))
    /\ poly_mul_autoadj_fft(fa, norm, logn) = poly_mul_fft(fa, norm, logn)

(* Quotients times their divisors (poly_div_fft, poly_div_autoadj_fft,     *)
(* poly_invnorm2_fft).                                                     *)
QuotientsRight ==
  Done =>
    LET norm == poly_mulselfadj_fft(fb, logn)
        both == poly_add(norm, poly_mulselfadj_fft(fa, logn))
    IN
    /\ Invertible(fb) =>
         /\ poly_mul_fft(poly_div_fft(avx2, fa, fb, logn), fb, logn) = fa
         /\ poly_mul_fft(poly_div_autoadj_fft(fa, norm, logn), norm, logn) = fa
    /\ Invertible(both) =>
         poly_mul_autoadj_fft(both, poly_invnorm2_fft(fa, fa, fb, logn), logn)
           = FFT(Monomial(logn, 0), logn)

(* L * D * adj(L) is the matrix decomposed (poly_LDL_fft,                  *)
(* poly_LDLmv_fft).                                                        *)
DecompositionRight ==
  LET g00 == poly_mulselfadj_fft(fb, logn)
      g01 == poly_mul_fft(fa, fb, logn)
      g11 == poly_add(fa, poly_adj_fft(fa, logn))
  IN
  Done /\ Invertible(fb) =>
    \A ld \in {poly_LDL_fft(avx2, g00, g01, g11, logn)} :
      /\ poly_mul_fft(ld.g01, g00, logn) = poly_adj_fft(g01, logn)
      /\ poly_add(ld.g11, poly_mul_fft(poly_mulselfadj_fft(ld.g01, logn), g00, logn)) = g11

(* The two halves are the even and the odd coefficients, and merging them  *)
(* gives the polynomial (poly_split_fft, poly_merge_fft).                  *)
HalvesRight ==
  Done =>
    \A halves \in {poly_split_fft(avx2, fb, logn)} :
      /\ \A k \in {1, 2} : iFFT(avx2, halves[k], logn - 1) =
           [d \in 0 .. MKN(logn - 1) - 1 |-> b[2 * d + k - 1]]
      /\ poly_merge_fft(avx2, halves[1], halves[2], logn) = fb

-----------------------------------------------------------------------------
(* Signing with keys of degree 2 to 2^MaxLogn and a hashed message, again  *)
(* and again with other randomness until the signature is short, once      *)
(* along an expanded key and once without.  The hashed message and the     *)
(* signature share a buffer, as in falcon.c.                               *)
Tmp == 1000    \* where tmp[] begins; the expanded key is at 0

Coefficients(l, s, k) == [d \in 0 .. MKN(l) - 1 |-> (((s + k) * (d + 2) * (d + 2) + 7 * k * d + s) % 41) - 20] @@ <<>>

(* G = (q + g * F) / f, so that f * G - g * F = q.                         *)
CompletedKey(l, s) ==
  LET f == Coefficients(l, s, 1)  g == Coefficients(l, s, 2)  FF == Coefficients(l, s, 5)
      T(x) == FFT(Each(fpr_of, x), l)
      q == FFT([d \in 0 .. MKN(l) - 1 |-> IF d = 0 THEN fpr_of(12289) ELSE 0], l)
      G == poly_div_fft(FALSE, poly_add(q, poly_mul_fft(T(g), T(FF), l)), T(f), l)
  IN  [f |-> f, g |-> g, F |-> FF, G |-> Each(fpr_rint, iFFT(FALSE, G, l))]

TreeAt(l) == skoff_tree(l) .. skoff_tree(l) + ffLDL_treesize(l) - 1

(* The leaves of a subtree, from right to left.                            *)
RECURSIVE Leaves(_, _, _)
Leaves(mem, t, l) ==
  IF l = 0 THEN <<mem[t]>>
  ELSE Leaves(mem, Subtrees(t, l).right, l - 1) \o Leaves(mem, Subtrees(t, l).left, l - 1)

PlainLeaves(k, l) == Leaves(PlainTree(FALSE, <<>>, 0, k, l, Tmp), skoff_tree(l), l)

(* In a field the matrix may be degenerate, which no key is.               *)
Usable(k, l) == \A leaves \in {PlainLeaves(k, l)} : \A i \in 1 .. MKN(l) : leaves[i] # 0

Attempt0(buf) == [ok |-> FALSE, s1 |-> <<>>, buf |-> buf, calls |-> <<>>, m |-> {}]

SignInit ==
  /\ \E l \in 1 .. MaxLogn, s \in Seeds : \E k \in {CompletedKey(l, s)} :
       /\ Usable(k, l)
       /\ logn = l /\ key = k
       /\ hm = [d \in 0 .. MKN(l) - 1 |-> (s * s + 31 * d) % P] @@ <<>>
  /\ avx2 \in BOOLEAN
  /\ m = <<>> /\ attempts = 0
  /\ tree = Attempt0(hm) /\ dyn = Attempt0(hm)

Expand ==
  /\ m = <<>>
  /\ m' = expand_privkey(avx2, <<>>, 0, key, logn, Tmp)
  /\ UNCHANGED <<logn, avx2, key, hm, tree, dyn, attempts>>

Sampling(mem) == [m |-> mem, c |-> [seed |-> attempts + 2, calls |-> <<>>]]
Touched(r)    == [r EXCEPT !.m = DOMAIN r.m]

(* The loops of sign_tree and sign_dyn.                                    *)
sign ==
  /\ m # <<>> /\ attempts < MaxAttempts
  /\ ~tree.ok \/ ~dyn.ok
  /\ attempts' = attempts + 1
  /\ tree' = IF tree.ok THEN tree
             ELSE Touched(do_sign_tree(avx2, Sampling(m), tree.buf, 0, tree.buf, logn, Tmp))
  /\ dyn' = IF dyn.ok THEN dyn
            ELSE Touched(do_sign_dyn(avx2, Sampling(<<>>), dyn.buf, key, dyn.buf, logn, Tmp))
  /\ UNCHANGED <<logn, avx2, key, hm, m>>

SignNext == Expand \/ sign

Same(x, y) == \A d \in 0 .. N - 1 : (x[d] - y[d]) % P = 0

(* The vector (z0, z1) from the integers sampled, in the order of calls:   *)
(* the second half first, odd coefficients before even ones.               *)
RECURSIVE Vector(_, _)
Vector(zs, l) ==
  IF l = 0 THEN <<<<zs[1]>>, <<zs[2]>>>>
  ELSE LET half == Len(zs) \div 2
           Interleaved(v) == [d \in 1 .. half |-> v[2 - (d % 2)][(d + 1) \div 2]]
       IN  <<Interleaved(Vector(SubSeq(zs, half + 1, 2 * half), l - 1)),
             Interleaved(Vector(SubSeq(zs, 1, half), l - 1))>>

Signature(r) == <<r.s1, r.buf>>

(* The expanded key fills its room and no more, and neither expanding nor  *)
(* signing writes outside the room their comments ask for: six polynomials *)
(* of scratch space along the tree, nine without it (falcon.h's sizes rest *)
(* on this).                                                               *)
RoomKept ==
  /\ m # <<>> => DOMAIN m \ (Tmp .. Tmp + 6 * N - 1) = 0 .. 4 * N - 1 \cup TreeAt(logn)
  /\ tree.m \subseteq (DOMAIN m \ (Tmp .. Tmp + 6 * N - 1)) \cup (Tmp .. Tmp + 6 * N - 1)
  /\ dyn.m \subseteq Tmp .. Tmp + 9 * N - 1

(* With the same randomness the two ways of signing make the same calls to *)
(* the sampler and give the same signature.                                *)
WaysAgree ==
  /\ tree.calls = dyn.calls
  /\ tree.ok = dyn.ok /\ Signature(tree) = Signature(dyn)

(* An accepted signature differs from the hashed message by the point of   *)
(* the lattice that was sampled, whatever attempts came before it.         *)
PointOfLattice ==
  tree.ok =>
    LET z == Vector([k \in 1 .. 2 * N |-> tree.calls[k].z], logn)
        Z(i) == [d \in 0 .. N - 1 |-> z[i][d + 1]]
        gz == Times(Z(1), key.g)  Gz == Times(Z(2), key.G)
        fz == Times(Z(1), key.f)  Fz == Times(Z(2), key.F)
    IN  /\ Same([d \in 0 .. N - 1 |-> hm[d] - tree.s1[d]], [d \in 0 .. N - 1 |-> gz[d] + Gz[d]])
        /\ Same(tree.buf, [d \in 0 .. N - 1 |-> fz[d] + Fz[d]])

(* The squared norm of the signature is the sum over the sampler's calls   *)
(* of leaf times squared distance to the center: each center is where the  *)
(* nearest plane passes, and the leaf, normalised, is the sampler's.       *)
NearestPlane ==
  tree.ok =>
    \A leaves \in {PlainLeaves(key, logn) \o <<>>} :
      LET Cost(k) == LET call == tree.calls[k]  dist == (call.mu - call.z) % P
                     IN  (leaves[(k + 1) \div 2] * ((dist * dist) % P)) % P
      IN  /\ Total([k \in 1 .. 2 * N |-> Cost(k)]) = (NormSq(tree.s1) + NormSq(tree.buf)) % P
          /\ \A k \in 1 .. 2 * N : tree.calls[k].sigma = Leaf(leaves[(k + 1) \div 2], logn)
=============================================================================
