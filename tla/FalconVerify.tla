---------------------------- MODULE FalconVerify -----------------------------
(***************************************************************************)
(* Falcon's public-key operations on polynomials with small coefficients:  *)
(* src/submodules/FN-DSA/vrfy.c from its line 635, and the bound of        *)
(* common.c.  h is the public key, c0 a hashed message, (s1, s2) a         *)
(* signature, f, g, F, G the private key.                                  *)
(***************************************************************************)
EXTENDS Ntt, Sequences, FiniteSets

(* Acceptance bounds on the squared norm, by logn.                         *)
l2bound == <<101498, 208714, 428865, 892039, 1852696, 3842630, 7959734,
             16468416, 34034726, 70265242>>

Norm(s) == Total([u \in DOMAIN s |-> s[u] * s[u]])

(* What the saturating sum of is_short comes to; see FalconNorm.           *)
is_short(s1, s2, logn) == Norm(s1) + Norm(s2) <= l2bound[logn]

Reduced(s) == [u \in DOMAIN s |-> mq_conv_small(s[u])]

-----------------------------------------------------------------------------
(* Slips the code could contain, none of them used below.                  *)

VerifiedAsIs(w)          == w
QuotientPlain(a, b)      == mq_montymul(a, b)
BalancedUp(w)            == w
AnyZeroFirst(a)          == a[0] = 0

-----------------------------------------------------------------------------
(* -s1 = s2 * h - c0, balanced.                                            *)
Verified(w) == Centered(w)

verify_raw(c0, s2, hMonty, logn) ==
  LET tt == mq_iNTT(mq_poly_montymul_ntt(mq_NTT(Reduced(s2), logn), hMonty), logn)
      s1 == [u \in DOMAIN c0 |-> Verified(mq_poly_sub(tt, c0)[u])]
  IN  is_short(s1, s2, logn)

AnyZero(a) == \E u \in DOMAIN a : a[u] = 0

(* Division in the transform, place by place.                              *)
Quotient(a, b) == mq_div_12289(a, b)
Quotients(a, b) == [u \in DOMAIN a |-> Quotient(a[u], b[u])]

(* h = g / f, if f is invertible.                                          *)
compute_public(f, g, logn) ==
  LET tt == mq_NTT(Reduced(f), logn)
  IN  IF AnyZero(tt) THEN [ok |-> FALSE]
      ELSE [ok |-> TRUE, h |-> mq_iNTT(Quotients(mq_NTT(Reduced(g), logn), tt), logn)]

(* G = g * F / f, if f is invertible and G is small.                       *)
Balanced(w) == IF w >= Q \div 2 THEN w - Q ELSE w

complete_private(f, g, F, logn) ==
  LET gF == mq_poly_montymul_ntt(mq_poly_tomonty(mq_NTT(Reduced(g), logn)),
                                 mq_NTT(Reduced(F), logn))
      t2 == mq_NTT(Reduced(f), logn)
      t1 == mq_iNTT(Quotients(gF, t2), logn)
      G  == [u \in DOMAIN f |-> Balanced(t1[u])]
  IN  IF AnyZero(t2) \/ \E u \in DOMAIN G : G[u] \notin -127 .. 127
        THEN [ok |-> FALSE]
        ELSE [ok |-> TRUE, G |-> G]

is_invertible(s2, logn) == ~AnyZero(mq_NTT(Reduced(s2), logn))

(* h = (c0 - s1) / s2.  Dividing by zero gives some value; it is refused   *)
(* at the end.                                                             *)
verify_recover(c0, s1, s2, logn) ==
  LET tt == mq_NTT(Reduced(s2), logn)
      h  == mq_NTT([u \in DOMAIN c0 |-> mq_sub(c0[u], mq_conv_small(s1[u]))], logn)
  IN  [h  |-> mq_iNTT(Quotients(h, tt), logn),
       ok |-> ~AnyZero(tt) /\ is_short(s1, s2, logn)]

count_nttzero(sig, logn) ==
  Total([u \in DOMAIN sig |-> IF mq_NTT(Reduced(sig), logn)[u] = 0 THEN 1 ELSE 0])

-----------------------------------------------------------------------------
(* Keys of two and of four coefficients, which solve f * G - g * F = q;    *)
(* hashed messages and signatures around the bound, some of the latter     *)
(* with zeros in their transform.                                          *)

V(s) == [d \in 0 .. Len(s) - 1 |-> s[d + 1]]
Key(l, ff, gg, FF, GG) == [logn |-> l, f |-> V(ff), g |-> V(gg), F |-> V(FF), G |-> V(GG)]

Keypairs ==
  {Key(1, <<46, -23>>, <<81, -67>>, <<-82, -40>>, <<32, 65>>),
   Key(1, <<-6, -52>>, <<64, 85>>, <<-62, 63>>, <<17, 59>>),
   Key(1, <<120, 9>>, <<-20, 30>>, <<26, 69>>, <<80, -11>>),
   Key(2, <<-30, 15, 9, -44>>, <<-13, 57, 17, 0>>, <<-19, 25, 62, 111>>, <<-25, 89, -11, -26>>),
   Key(2, <<-41, 51, 58, 6>>, <<-11, 34, -59, 25>>, <<31, 49, -2, 39>>, <<-48, -28, -66, -65>>)}

(* 110^2 + 299^2 is above the bound by 3 or less.                          *)
Values == {0, 1, Q - 1, 110, Q - 299}
Hashes(l) == {V(s) : s \in IF l = 1 THEN {<<x, y>> : x, y \in Values}
                           ELSE {<<x, 0, y, 6144>> : x, y \in {0, Q - 299}}
                                \cup {<<x, 2, 110, 318>> : x \in Values}}
Signatures(l) == {V(s) : s \in
  IF l = 1 THEN {<<x, y>> : x, y \in {-2047, -318, 0, 46, -23}} \cup {<<25, 108>>, <<108, -25>>}
  ELSE {<<x, 15, 9, y>> : x, y \in {-44, -30, 2047}} \cup
       {<<25, 0, 108, 0>>, <<0, 0, 0, 0>>, <<-11, 34, -59, 25>>}}

VARIABLES key, c0, s2, verdict
vars == <<key, c0, s2, verdict>>

logn == key.logn
h == compute_public(key.f, key.g, logn).h

Init ==
  /\ key \in Keypairs
  /\ c0 \in Hashes(logn) /\ s2 \in Signatures(logn)
  /\ verdict = "none"

Verify ==
  /\ verdict = "none"
  /\ verdict' = IF verify_raw(c0, s2, to_ntt_monty(h, logn), logn) THEN "accept" ELSE "reject"
  /\ UNCHANGED <<key, c0, s2>>

Spec == Init /\ [][Verify]_vars

-----------------------------------------------------------------------------
(* The other half of the signature: c0 - s2 * h, balanced.                 *)
s1 == LET product == Times(Reduced(s2), h, logn)
      IN  [u \in DOMAIN c0 |-> Centered((c0[u] - product[u]) % Q)]

(* A signature is accepted exactly when both its halves together are short *)
(* (verify_raw).                                                           *)
AcceptsShort ==
  verdict # "none" => (verdict = "accept" <=> Norm(s1) + Norm(s2) <= l2bound[logn])

(* Recovering the key from an accepted signature gives the key, unless s2  *)
(* is not invertible (verify_recover, against verify_raw).                 *)
RecoveryAgrees ==
  LET recovered == verify_recover(c0, s1, s2, logn) IN
  /\ verdict # "none" =>
       (recovered.ok <=> verdict = "accept" /\ is_invertible(s2, logn))
  /\ is_invertible(s2, logn) => recovered.h = h

(* The public key is g / f, and the part of the private key that is not    *)
(* stored is found again (compute_public, complete_private).               *)
KeyCompleted ==
  /\ Times(h, Reduced(key.f), logn) = Reduced(key.g)
  /\ complete_private(key.f, key.g, key.F, logn) = [ok |-> TRUE, G |-> key.G]

(* The zeros counted are the roots of X^n + 1 that s2 has, and one of them *)
(* makes it not invertible (is_invertible, count_nttzero).                 *)
RootsOf(l) == {Power(7, (2 * k + 1) * 2^(10 - l)) : k \in Degrees(l)}
ZerosCounted ==
  LET zeros == Cardinality({w \in RootsOf(logn) : ValueAt(s2, w) = 0}) IN
  /\ count_nttzero(s2, logn) = zeros
  /\ is_invertible(s2, logn) <=> zeros = 0
=============================================================================
