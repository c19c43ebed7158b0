----------------------------- MODULE FalconSizes -----------------------------
(***************************************************************************)
(* Sizes of Falcon's objects and temporary buffers (the macros of          *)
(* src/submodules/FN-DSA/falcon.h, the widths of codec.c) and how the      *)
(* functions of falcon.c divide the buffer they are given, at any address. *)
(*                                                                         *)
(* n is 2^logn.  A region is its first address, its length, what it must   *)
(* be a multiple of.                                                       *)
(***************************************************************************)
EXTENDS Integers, Sequences

Region(first, len, multiple) == [first |-> first, len |-> len, multiple |-> multiple]
End(r) == r.first + r.len

-----------------------------------------------------------------------------
(* Slips the code could contain, none of them used below.                  *)

ToNextAlways(x, m)  == x + (m - (x % m))
Unaligned(x, m)     == x
ToDouble(x, m)      == x + ((2 * m - (x % (2 * m))) % (2 * m))
max_fg_bits9        == <<9, 8, 8, 8, 8, 7, 7, 6, 6, 5>>
CompressedWithoutTail(logn) == (11 * 2^logn + 7) \div 8 + 41
PlacesOneLess       == 62
KeygenByDegree(n)   == 28 * n + 3 * n + 7
TempByDegree(n)     == 28 * n

-----------------------------------------------------------------------------
(* Macros; a shift to the right by 10 - logn of a power of two.            *)
Of1024(x, logn) == x \div 2^(10 - logn)

FALCON_PRIVKEY_SIZE(logn) ==
  1 + IF logn <= 3 THEN 3 * 2^logn ELSE (10 - (logn \div 2)) * 2^(logn - 2) + 2^logn
FALCON_PUBKEY_SIZE(logn) == 1 + IF logn <= 1 THEN 4 ELSE 7 * 2^(logn - 2)
FALCON_SIG_COMPRESSED_MAXSIZE(logn) == (11 * 2^logn + Of1024(101, logn) + 7) \div 8 + 41
FALCON_SIG_PADDED_SIZE(logn) ==
  44 + 3 * Of1024(256, logn) + 2 * Of1024(128, logn) + 3 * Of1024(64, logn)
     + 2 * Of1024(16, logn) - 2 * Of1024(2, logn) - 8 * Of1024(1, logn)
FALCON_SIG_CT_SIZE(logn) == 3 * 2^(logn - 1) - (IF logn = 3 THEN 1 ELSE 0) + 41

FALCON_TMPSIZE_KEYGEN(n)     == (IF n <= 8 THEN 272 ELSE 28 * n) + 3 * n + 7
FALCON_TMPSIZE_MAKEPUB(n)    == 6 * n + 1
FALCON_TMPSIZE_SIGNDYN(n)    == 78 * n + 7
FALCON_TMPSIZE_SIGNTREE(n)   == 50 * n + 7
FALCON_TMPSIZE_EXPANDPRIV(n) == 52 * n + 7
FALCON_EXPANDEDKEY_SIZE(logn, n) == (8 * logn + 40) * n + 8
FALCON_TMPSIZE_VERIFY(n)     == 8 * n + 1

(* Bits per coefficient, indexed by logn.                                  *)
max_fg_bits  == <<8, 8, 8, 8, 8, 7, 7, 6, 6, 5>>
max_FG_bits  == <<8, 8, 8, 8, 8, 8, 8, 8, 8, 8>>
max_sig_bits == <<10, 11, 11, 12, 12, 12, 12, 12, 12, 12>>
l2bound == <<101498, 208714, 428865, 892039, 1852696, 3842630, 7959734,
             16468416, 34034726, 70265242>>

-----------------------------------------------------------------------------
(* align_u64, align_fpr and align_u16.                                     *)
Aligned(x, m) == x + ((m - (x % m)) % m)

(* What the callees ask of their tmp[], in inner.h.                        *)
FALCON_KEYGEN_TEMP(n) == IF n = 2 THEN 136 ELSE IF n = 4 THEN 272 ELSE 28 * n

(* The public key behind f and g; the second half of keygen_make.          *)
PublicLayout(n, a) ==
  LET h == Aligned(a + 2 * n, 2)
  IN  <<Region(a, n, 1), Region(a + n, n, 1), Region(h, 2 * n, 2), Region(h + 2 * n, 2 * n, 2)>>

(* f, g, F and what key generation works in.                               *)
KeygenLayout(n, a) ==
  <<Region(a, n, 1), Region(a + n, n, 1), Region(a + 2 * n, n, 1),
    Region(Aligned(a + 3 * n, 8), FALCON_KEYGEN_TEMP(n), 8)>>

(* f, g, F, G, the point.  complete_private's 4n bytes and the 2n of       *)
(* hash_to_point_ct are in the last region too.                            *)
SignDynLayout(n, a) ==
  <<Region(a, n, 1), Region(a + n, n, 1), Region(a + 2 * n, n, 1), Region(a + 3 * n, n, 1),
    Region(a + 4 * n, 2 * n, 2), Region(Aligned(a + 6 * n, 8), 72 * n, 8)>>

ExpandLayout(n, a) ==
  <<Region(a, n, 1), Region(a + n, n, 1), Region(a + 2 * n, n, 1), Region(a + 3 * n, n, 1),
    Region(Aligned(a + 4 * n, 8), 48 * n, 8)>>

SignTreeLayout(n, a) ==
  LET hm == Aligned(a, 2)
  IN  <<Region(hm, 2 * n, 2), Region(Aligned(hm + 2 * n, 8), 48 * n, 8)>>

VerifyLayout(n, a) ==
  LET h == Aligned(a, 2)
  IN  <<Region(h, 2 * n, 2), Region(h + 2 * n, 2 * n, 2), Region(h + 4 * n, 2 * n, 2),
        Region(h + 6 * n, 2 * n, 2)>>

(* The expanded key: logn, then the matrix and the tree.                   *)
ExpandedKeyLayout(logn, n, a) ==
  <<Region(a, 1, 1), Region(Aligned(a + 1, 8), (8 * logn + 40) * n, 8)>>

-----------------------------------------------------------------------------
(* hash_to_point_ct: candidates 0 .. n - 1 are kept in the point, the next *)
(* n in tmp[], the others in 63 places on the stack.                       *)
overtab == <<65, 67, 71, 77, 86, 100, 122, 154, 205, 287>>
OnStack(logn) == (2^logn + overtab[logn]) - 2 * 2^logn
StackPlaces == 63

-----------------------------------------------------------------------------
Within(r, first, len) == r.first >= first /\ End(r) <= first + len

Fits(layout, a, size) == \A i \in DOMAIN layout : Within(layout[i], a, size)
Apart(layout) ==
  \A i, j \in DOMAIN layout : i < j => End(layout[i]) <= layout[j].first
Suitable(layout) == \A i \in DOMAIN layout : layout[i].first % layout[i].multiple = 0
=============================================================================
