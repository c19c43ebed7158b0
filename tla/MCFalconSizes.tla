---------------------------- MODULE MCFalconSizes ----------------------------
(* Every degree, every address modulo 8, every function.                    *)
EXTENDS FalconSizes, FiniteSets, TLC

Functions == {"keygen", "make_public", "sign_dyn", "expand", "sign_tree", "verify", "expanded"}

VARIABLES fn, logn, at, layout, size
vars == <<fn, logn, at, layout, size>>

n == 2^logn

Init ==
  /\ fn \in Functions /\ logn \in 1 .. 10 /\ at \in 0 .. 15
  /\ layout = <<>> /\ size = 0

Lay ==
  /\ layout = <<>>
  /\ layout' = CASE fn = "keygen" -> KeygenLayout(n, at)
                 [] fn = "make_public" -> PublicLayout(n, at)
                 [] fn = "sign_dyn" -> SignDynLayout(n, at)
                 [] fn = "expand" -> ExpandLayout(n, at)
                 [] fn = "sign_tree" -> SignTreeLayout(n, at)
                 [] fn = "verify" -> VerifyLayout(n, at)
                 [] fn = "expanded" -> ExpandedKeyLayout(logn, n, at)
  /\ size' = CASE fn = "keygen" -> FALCON_TMPSIZE_KEYGEN(n)
               [] fn = "make_public" -> FALCON_TMPSIZE_MAKEPUB(n)
               [] fn = "sign_dyn" -> FALCON_TMPSIZE_SIGNDYN(n)
               [] fn = "expand" -> FALCON_TMPSIZE_EXPANDPRIV(n)
               [] fn = "sign_tree" -> FALCON_TMPSIZE_SIGNTREE(n)
               [] fn = "verify" -> FALCON_TMPSIZE_VERIFY(n)
               [] fn = "expanded" -> FALCON_EXPANDEDKEY_SIZE(logn, n)
  /\ UNCHANGED <<fn, logn, at>>

Spec == Init /\ [][Lay]_vars

-----------------------------------------------------------------------------
(* Whatever the address, all parts are inside the buffer the caller was    *)
(* told to give, with none over another (the layouts of falcon.c).         *)
PartsFit == layout # <<>> => Fits(layout, at, size) /\ Apart(layout)

(* And every part is where its type wants it, but for hm in sign_dyn.      *)
PartsSuitable == (layout # <<>> /\ fn # "sign_dyn") => Suitable(layout)

(* An expanded key is read where it was written after a move that keeps    *)
(* its address modulo 8 (falcon.h:179).                                    *)
MoveKeepsKey ==
  (layout # <<>> /\ fn = "expanded") =>
    ExpandedKeyLayout(logn, n, at + 8)[2].first = layout[2].first + 8

-----------------------------------------------------------------------------
ByteLen(bits) == (bits + 7) \div 8

(* Encoded objects have just the length of their fields: else keygen_make  *)
(* ends with an internal error, and verification refuses every signature.  *)
EncodingsFill ==
  /\ FALCON_PRIVKEY_SIZE(logn) =
       1 + 2 * ByteLen(max_fg_bits[logn] * n) + ByteLen(max_FG_bits[logn] * n)
  /\ FALCON_PUBKEY_SIZE(logn) = 1 + ByteLen(14 * n)
  /\ FALCON_SIG_CT_SIZE(logn) = 41 + ByteLen(max_sig_bits[logn] * n)

(* The longest compressed vector within the norm: 9 bits per coefficient,  *)
(* and one per multiple of 128, of which k in one coefficient costs        *)
(* (128k)^2 of the norm.                                                   *)
Cost(extra) == LET k == extra \div n
                   r == extra % n
               IN  (n - r) * k * k + r * (k + 1) * (k + 1)
Longest == CHOOSE extra \in 0 .. 3 * n :
             /\ Cost(extra) <= l2bound[logn] \div 16384
             /\ Cost(extra + 1) > l2bound[logn] \div 16384

(* The documented maximum holds for all short vectors; a padded signature  *)
(* takes no more room than it (falcon.h:157, falcon.h:327).                *)
CompressedWithin ==
  /\ 41 + ByteLen(9 * n + Longest) <= FALCON_SIG_COMPRESSED_MAXSIZE(logn)
  /\ FALCON_SIG_PADDED_SIZE(logn) <= FALCON_SIG_COMPRESSED_MAXSIZE(logn)
  /\ FALCON_SIG_PADDED_SIZE(logn) >= 41 + ByteLen(9 * n)

(* The candidates that fit neither into the point nor into tmp[] fit on    *)
(* the stack (hash_to_point_ct's 63 entries).                              *)
StackSuffices == OnStack(logn) <= StackPlaces

(* The tables of falcon.h:101 and falcon.h:153, and the order given at     *)
(* falcon.h:87.                                                            *)
DocumentedSizes ==
  <<<<13, 17, 285, 107, 111, 163>>, <<25, 33, 291, 207, 215, 319>>,
    <<49, 65, 303, 407, 423, 631>>, <<97, 129, 503, 807, 839, 1255>>,
    <<193, 257, 999, 1607, 1671, 2503>>, <<385, 513, 1991, 3207, 3335, 4999>>,
    <<769, 1025, 3975, 6407, 6663, 9991>>, <<1537, 2049, 7943, 12807, 13319, 19975>>,
    <<3073, 4097, 15879, 25607, 26631, 39943>>, <<6145, 8193, 31751, 51207, 53255, 79879>>>>
DocumentedSignatures ==
  <<<<44, 44, 44>>, <<47, 47, 47>>, <<52, 52, 52>>, <<65, 63, 64>>, <<89, 82, 86>>,
    <<137, 122, 130>>, <<233, 200, 219>>, <<425, 356, 397>>, <<809, 666, 752>>,
    <<1577, 1280, 1462>>>>
Sizes == <<FALCON_TMPSIZE_MAKEPUB(n), FALCON_TMPSIZE_VERIFY(n), FALCON_TMPSIZE_KEYGEN(n),
           FALCON_TMPSIZE_SIGNTREE(n), FALCON_TMPSIZE_EXPANDPRIV(n), FALCON_TMPSIZE_SIGNDYN(n)>>

TablesRight ==
  /\ Sizes = DocumentedSizes[logn]
  /\ DocumentedSignatures[logn] = <<FALCON_SIG_CT_SIZE(logn), FALCON_SIG_PADDED_SIZE(logn),
                                    FALCON_SIG_COMPRESSED_MAXSIZE(logn)>>
  /\ \A i, j \in 1 .. 6 : (i < j /\ (logn >= 3 \/ 3 \notin {i, j})) => Sizes[i] < Sizes[j]
=============================================================================
