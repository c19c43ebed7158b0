------------------------------ MODULE FalconApi ------------------------------
(***************************************************************************)
(* Falcon's functions for applications, src/submodules/FN-DSA/falcon.c:    *)
(* keys, signatures in three formats, streamed or in one call, and their   *)
(* verification.                                                           *)
(*                                                                         *)
(* Encoded objects are records: the halves hi and logn of the header byte, *)
(* the length, and what the rest decodes to.  A SHAKE256 context is what   *)
(* was put in and how often it was taken from; what is taken is told apart *)
(* by both, so that nonces, keys and hashed points are such pairs.         *)
(***************************************************************************)
EXTENDS FalconSizes, FiniteSetsExt

CONSTANTS
  Logns,       \* degrees asked for, impossible ones too
  Chunks,      \* of data
  MaxChunks, MaxAttempts,
  MaxEvents,   \* keys, signatures and changed objects together
  None         \* nothing there, or bytes nobody wrote

VARIABLES
  rng, hash_data, nonce,
  purpose,     \* what the application has hash_data for
  sk, pk,      \* encoded keys
  ek,          \* an expanded key: logn, its address, where its numbers are, whose they are
  sig, sig_len,
  call,        \* a signer in its loop
  ret,         \* the last function and what it returned
  signed,      \* what signers returned signatures for
  keys, signs, attempts, spoils  \* counters
vars == <<rng, hash_data, nonce, purpose, sk, pk, ek, sig, sig_len, call, ret, signed,
          keys, signs, attempts, spoils>>

PositiveFormat == 3   \* a slip

ERR_RANDOM == -1
ERR_SIZE   == -2
ERR_FORMAT == -3
ERR_BADSIG == -4
ERR_BADARG == -5

COMPRESSED == 1
PADDED     == 2
CT         == 3
Types      == 0 .. 4     \* 0 is for verification; 4 does not exist

Budget == keys + signs + spoils < MaxEvents

(* The code of the first check that fails, 0 if none does.                 *)
FirstError(checks) ==
  LET failed == {i \in DOMAIN checks : checks[i][1]}
  IN  IF failed = {} THEN 0 ELSE checks[Min(failed)][2]

-----------------------------------------------------------------------------
(* Contexts, and slips around them, none of which is used below.           *)
shake256_init == [mode |-> "in", data |-> <<>>, taken |-> 0]
shake256_inject(sc, chunk) == [sc EXCEPT !.data = Append(@, chunk)]
shake256_flip(sc) == [sc EXCEPT !.mode = "out"]
Extracted(sc) == <<sc.data, sc.taken>>
TakenNever(sc)  == sc
AfterExtract(sc) == [sc EXCEPT !.taken = @ + 1]

HashesOn(saved, now)             == now
SpaceUnchecked(type, logn, len)  == FALSE
PaddingAnywhere(type, len, logn) == TRUE
LengthAnyway(old, new, err)      == new
AnyPoint(s, hashed, p)           == s.vec.key = p.key

shake256_init_prng_from_seed(seed) == shake256_flip(shake256_inject(shake256_init, seed))

shake256_init_prng_from_system(works) ==
  /\ rng.mode = "in"
  /\ IF works THEN rng' = shake256_init_prng_from_seed("system") /\ ret' = <<"prng", 0>>
     ELSE rng' = rng /\ ret' = <<"prng", ERR_RANDOM>>
  /\ UNCHANGED <<hash_data, nonce, purpose, sk, pk, ek, sig, sig_len, call, signed,
                 keys, signs, attempts, spoils>>

-----------------------------------------------------------------------------
LognRight(logn) == logn \in 1 .. 10

PrivateKey(logn, key) ==
  [hi |-> 5, logn |-> logn, len |-> FALCON_PRIVKEY_SIZE(logn), bad |-> None, key |-> key]
PublicKey(logn, key) ==
  [hi |-> 0, logn |-> logn, len |-> FALCON_PUBKEY_SIZE(logn), bad |-> None, key |-> key]

(* room: by how much the buffers for the keys are too small or too large;  *)
(* wanted: pubkey # NULL.  FALCON_ERR_INTERNAL is not among the results:   *)
(* it would take a code of another length than the macros' (EncodingsFill  *)
(* in MCFalconSizes excludes it for every degree), or a key outside what   *)
(* keygen() itself checks before it returns.  The same for make_public.    *)
falcon_keygen_make(logn, privroom, pubroom, wanted, tmp_len_enough) ==
  LET err == FirstError(<<<<~LognRight(logn), ERR_BADARG>>,
                          <<privroom < 0 \/ (wanted /\ pubroom < 0) \/ ~tmp_len_enough, ERR_SIZE>>>>)
      key == Extracted(rng)
  IN  /\ call = None /\ rng.mode = "out" /\ Budget
      /\ ret' = <<"keygen", err>>
      /\ IF err # 0 THEN UNCHANGED <<rng, sk, pk>>
         ELSE /\ rng' = AfterExtract(rng)
              /\ sk' = PrivateKey(logn, key)
              /\ pk' = IF wanted THEN PublicKey(logn, key) ELSE pk
      /\ keys' = IF err = 0 THEN keys + 1 ELSE keys
      /\ UNCHANGED <<hash_data, nonce, purpose, ek, sig, sig_len, call, signed, signs, attempts, spoils>>

(* Header and length of a private key; bad is the part of it that does not *)
(* decode, or G if the last polynomial cannot be computed.                 *)
PrivateHeader(p) ==
  <<<<p.len = 0, ERR_FORMAT>>, <<p.hi # 5, ERR_FORMAT>>, <<~LognRight(p.logn), ERR_FORMAT>>,
    <<LognRight(p.logn) /\ p.len # FALCON_PRIVKEY_SIZE(p.logn), ERR_FORMAT>>>>
PrivateParts(p, parts) == <<<<p.bad \in parts, ERR_FORMAT>>>>

falcon_make_public(pubroom, tmp_len_enough) ==
  LET err == FirstError(PrivateHeader(sk)
                        \o <<<<pubroom < 0 \/ ~tmp_len_enough, ERR_SIZE>>>>
                        \o PrivateParts(sk, {"f", "g"}))
  IN  /\ call = None /\ sk # None
      /\ ret' = <<"make_public", err>>
      /\ pk' = IF err = 0 THEN PublicKey(sk.logn, sk.key) ELSE pk
      /\ UNCHANGED <<rng, hash_data, nonce, purpose, sk, ek, sig, sig_len, call, signed,
                     keys, signs, attempts, spoils>>

falcon_expand_privkey(at, room, tmp_len_enough) ==
  LET err == FirstError(PrivateHeader(sk)
                        \o <<<<room < 0 \/ ~tmp_len_enough, ERR_SIZE>>>>
                        \o PrivateParts(sk, {"f", "g", "F", "G"}))
  IN  /\ call = None /\ sk # None
      /\ ret' = <<"expand", err>>
      /\ ek' = IF err # 0 THEN ek
               ELSE [logn |-> sk.logn, at |-> at, numbers |-> Aligned(at + 1, 8) - at, key |-> sk.key]
      /\ UNCHANGED <<rng, hash_data, nonce, purpose, sk, pk, sig, sig_len, call, signed,
                     keys, signs, attempts, spoils>>

(* The caller moves it, keeping the address modulo eight.                  *)
MoveExpanded ==
  /\ call = None /\ ek # None /\ ek.at < 8
  /\ ek' = [ek EXCEPT !.at = @ + 8]
  /\ UNCHANGED <<rng, hash_data, nonce, purpose, sk, pk, sig, sig_len, call, ret, signed,
                 keys, signs, attempts, spoils>>
ExpandedKey == IF Aligned(ek.at + 1, 8) - ek.at = ek.numbers THEN ek.key ELSE None

-----------------------------------------------------------------------------
falcon_sign_start ==
  /\ call = None /\ rng.mode = "out" /\ Budget
  /\ nonce' = Extracted(rng)
  /\ rng' = AfterExtract(rng)
  /\ hash_data' = shake256_inject(shake256_init, Extracted(rng))
  /\ purpose' = "sign"
  /\ signs' = signs + 1
  /\ ret' = <<"sign_start", 0>>
  /\ UNCHANGED <<sk, pk, ek, sig, sig_len, call, signed, keys, attempts, spoils>>

InjectData(chunk) ==
  /\ call = None /\ hash_data # None /\ hash_data.mode = "in"
  /\ Len(hash_data.data) < MaxChunks + 1
  /\ hash_data' = shake256_inject(hash_data, chunk)
  /\ UNCHANGED <<rng, nonce, purpose, sk, pk, ek, sig, sig_len, call, ret, signed,
                 keys, signs, attempts, spoils>>

TooSmall(type, logn, len) ==
  \/ type = PADDED /\ len < FALCON_SIG_PADDED_SIZE(logn)
  \/ type = CT /\ len < FALCON_SIG_CT_SIZE(logn)

Space(type, logn, len, tmp_len_enough) ==
  <<<<~tmp_len_enough, ERR_SIZE>>, <<len < 41, ERR_SIZE>>,
    <<LognRight(logn) /\ TooSmall(type, logn, len), ERR_SIZE>>,
    <<type \notin {COMPRESSED, PADDED, CT}, ERR_BADARG>>>>

(* Common to both signers: the checks, then the loop with the flipped      *)
(* context put aside.                                                      *)
Signing(hd, checks, type, len, logn, key, function) ==
  LET err == FirstError(checks)
  IN  /\ ret' = <<function, err>>
      /\ sig_len' = len
      /\ IF err # 0 THEN hash_data' = hd /\ UNCHANGED call
         ELSE /\ hash_data' = shake256_flip(hd)
              /\ call' = [type |-> type, logn |-> logn, key |-> key, sav_hash_data |-> shake256_flip(hd)]
      /\ attempts' = 0

Streaming == call = None /\ purpose = "sign" /\ hash_data.mode = "in"

falcon_sign_dyn_finish(type, len, tmp_len_enough) ==
  /\ Streaming /\ sk # None
  /\ Signing(hash_data, PrivateHeader(sk) \o Space(type, sk.logn, len, tmp_len_enough)
                        \o PrivateParts(sk, {"f", "g", "F", "G"}), type, len, sk.logn, sk.key, "sign_dyn")
  /\ UNCHANGED <<rng, nonce, purpose, sk, pk, ek, sig, signed, keys, signs, spoils>>

falcon_sign_tree_finish(type, len, tmp_len_enough) ==
  /\ Streaming /\ ek # None
  /\ Signing(hash_data, <<<<~LognRight(ek.logn), ERR_FORMAT>>>>
                        \o Space(type, ek.logn, len, tmp_len_enough), type, len, ek.logn, ExpandedKey, "sign_tree")
  /\ UNCHANGED <<rng, nonce, purpose, sk, pk, ek, sig, signed, keys, signs, spoils>>

(* Nonce, hash and signature in one call, which keeps the context and the  *)
(* nonce to itself.                                                        *)
Started ==
  /\ call = None /\ rng.mode = "out" /\ Budget
  /\ nonce' = Extracted(rng)
  /\ rng' = AfterExtract(rng)
  /\ purpose' = "sign"
  /\ signs' = signs + 1
StartedHash(chunk) == shake256_inject(shake256_inject(shake256_init, Extracted(rng)), chunk)

falcon_sign_dyn(chunk, type, len, tmp_len_enough) ==
  /\ Started /\ sk # None
  /\ Signing(StartedHash(chunk), PrivateHeader(sk) \o Space(type, sk.logn, len, tmp_len_enough)
               \o PrivateParts(sk, {"f", "g", "F", "G"}), type, len, sk.logn, sk.key, "sign_dyn")
  /\ UNCHANGED <<sk, pk, ek, sig, signed, keys, spoils>>

falcon_sign_tree(chunk, type, len, tmp_len_enough) ==
  /\ Started /\ ek # None
  /\ Signing(StartedHash(chunk), <<<<~LognRight(ek.logn), ERR_FORMAT>>>>
               \o Space(type, ek.logn, len, tmp_len_enough), type, len, ek.logn, ExpandedKey, "sign_tree")
  /\ UNCHANGED <<sk, pk, ek, sig, signed, keys, spoils>>

-----------------------------------------------------------------------------
(* One pass of the signers' loop.  The vector is short enough, its code in *)
(* the compressed format takes clen bytes, and narrow says whether it has  *)
(* a code in the other format.                                             *)
HashedFrom(saved, now) == saved

SignatureRoom(type, logn) ==
  IF type = PADDED THEN FALCON_SIG_PADDED_SIZE(logn) - 41 ELSE sig_len - 41
CtBytes(logn) == FALCON_SIG_CT_SIZE(logn) - 41

Encodes(type, logn, vec) ==
  IF type = CT THEN vec.narrow ELSE vec.clen <= SignatureRoom(type, logn)

SignatureBytes(type, logn, vec) ==
  [hi |-> IF type = CT THEN 5 ELSE 3, logn |-> logn, nonce |-> nonce,
   format |-> IF ~Encodes(type, logn, vec) THEN None ELSE IF type = CT THEN "ct" ELSE "comp",
   vec |-> vec, used |-> IF type = CT THEN CtBytes(logn) ELSE vec.clen, zeros |-> type = PADDED]

SignatureLength(type, logn, vec) ==
  CASE type = COMPRESSED -> 41 + vec.clen
    [] type = PADDED -> FALCON_SIG_PADDED_SIZE(logn)
    [] type = CT -> FALCON_SIG_CT_SIZE(logn)

Returned(err) == call' = None /\ ret' = <<ret[1], err>>
LengthAfter(old, new, err) == IF err = 0 THEN new ELSE old

Attempt(clen, narrow) ==
  LET from == HashedFrom(call.sav_hash_data, hash_data)
      vec  == [key |-> call.key, point |-> Extracted(from), clen |-> clen, narrow |-> narrow]
      fits == Encodes(call.type, call.logn, vec)
      err  == IF fits THEN 0 ELSE ERR_SIZE
  IN  /\ call # None /\ attempts < MaxAttempts
      /\ hash_data' = AfterExtract(from)
      /\ rng' = AfterExtract(rng)
      /\ sig' = SignatureBytes(call.type, call.logn, vec)
      /\ IF ~fits /\ call.type = PADDED
           THEN UNCHANGED <<call, ret, sig_len, signed>> /\ attempts' = attempts + 1
           ELSE /\ Returned(err)
                /\ sig_len' = LengthAfter(sig_len, SignatureLength(call.type, call.logn, vec), err)
                /\ signed' = IF fits THEN signed \cup {[key |-> call.key, nonce |-> nonce,
                                                        data |-> Tail(from.data), type |-> call.type]}
                             ELSE signed
                /\ attempts' = 0
      /\ UNCHANGED <<nonce, purpose, sk, pk, ek, keys, signs, spoils>>

-----------------------------------------------------------------------------
falcon_verify_start ==
  /\ call = None /\ sig # None
  /\ ret' = <<"verify_start", IF sig_len < 41 THEN ERR_FORMAT ELSE 0>>
  /\ hash_data' = IF sig_len < 41 THEN hash_data ELSE shake256_inject(shake256_init, sig.nonce)
  /\ purpose' = IF sig_len < 41 THEN purpose ELSE "verify"
  /\ UNCHANGED <<rng, nonce, sk, pk, ek, sig, sig_len, call, signed, keys, signs, attempts, spoils>>

(* Header bytes; then types and lengths, for a degree that exists.         *)
HeaderChecks(s, len, p) ==
  <<<<len < 41 \/ p.len = 0, ERR_FORMAT>>, <<p.hi # 0, ERR_FORMAT>>, <<~LognRight(p.logn), ERR_FORMAT>>,
    <<s.logn # p.logn, ERR_BADSIG>>>>

FormatChecks(s, len, type, p, tmp_len_enough) ==
  <<<<type = 0 /\ s.hi = 5 /\ len # FALCON_SIG_CT_SIZE(p.logn), ERR_FORMAT>>,
    <<type = 0 /\ s.hi \notin {3, 5}, ERR_BADSIG>>,
    <<type \in {COMPRESSED, PADDED} /\ s.hi # 3, ERR_FORMAT>>,
    <<type = PADDED /\ len # FALCON_SIG_PADDED_SIZE(p.logn), ERR_FORMAT>>,
    <<type = CT /\ (s.hi # 5 \/ len # FALCON_SIG_CT_SIZE(p.logn)), ERR_FORMAT>>,
    <<type \notin 0 .. 3, ERR_BADARG>>,
    <<p.len # FALCON_PUBKEY_SIZE(p.logn), ERR_FORMAT>>, <<~tmp_len_enough, ERR_SIZE>>>>

(* The bytes decoded, 0 when they are no code of a vector: the other       *)
(* format's are taken not to be.                                           *)
Decoded(s, len) ==
  IF s.format = (IF s.hi = 5 THEN "ct" ELSE "comp") /\ len - 41 >= s.used THEN s.used ELSE 0

PaddingAllowed(type, len, logn) ==
  (type = 0 /\ len = FALCON_SIG_PADDED_SIZE(logn)) \/ type = PADDED

DecodeChecks(s, len, type, p) ==
  LET v == Decoded(s, len)
  IN  <<<<p.bad # None, ERR_FORMAT>>, <<v = 0, ERR_FORMAT>>,
        <<41 + v # len /\ ~(PaddingAllowed(type, len, s.logn) /\ s.zeros), ERR_FORMAT>>>>

verify_raw(s, hashed, p) == s.vec.key = p.key /\ s.vec.point = hashed

(* Everything before the message is hashed.                                *)
RefusedUnread(s, len, type, p, tmp_len_enough) ==
  LET header == FirstError(HeaderChecks(s, len, p))
      format == FirstError(FormatChecks(s, len, type, p, tmp_len_enough))
  IN  IF header # 0 THEN header ELSE IF format # 0 THEN format
      ELSE FirstError(DecodeChecks(s, len, type, p))

VerifyError(s, len, type, p, hd, tmp_len_enough) ==
  LET unread == RefusedUnread(s, len, type, p, tmp_len_enough)
  IN  IF unread # 0 THEN unread
      ELSE IF verify_raw(s, Extracted(shake256_flip(hd)), p) THEN 0 ELSE ERR_BADSIG

falcon_verify_finish(type, tmp_len_enough) ==
  /\ call = None /\ sig # None /\ pk # None
  /\ purpose = "verify" /\ hash_data.mode = "in"
  /\ ret' = <<"verify", VerifyError(sig, sig_len, type, pk, hash_data, tmp_len_enough), type>>
  /\ hash_data' = IF RefusedUnread(sig, sig_len, type, pk, tmp_len_enough) # 0 THEN hash_data
                  ELSE AfterExtract(shake256_flip(hash_data))
  /\ UNCHANGED <<rng, nonce, purpose, sk, pk, ek, sig, sig_len, call, signed, keys, signs, attempts, spoils>>

(* Start, data and finish in one call.                                     *)
falcon_verify(s, len, type, p, data, tmp_len_enough) ==
  IF len < 41 THEN ERR_FORMAT
  ELSE VerifyError(s, len, type, p, [shake256_init EXCEPT !.data = <<s.nonce>> \o data], tmp_len_enough)

-----------------------------------------------------------------------------
(* What was stored or sent arrives changed.                                *)
SpoiledKeys(k, parts) ==
  {[k EXCEPT !.hi = 3], [k EXCEPT !.logn = 0], [k EXCEPT !.logn = 11],
   [k EXCEPT !.len = 0], [k EXCEPT !.len = @ - 1]}
  \cup {[k EXCEPT !.bad = b] : b \in parts}
SpoiledSignatures ==
  {[sig EXCEPT !.hi = h] : h \in {3, 5, 7}} \cup {[sig EXCEPT !.logn = 10], [sig EXCEPT !.zeros = FALSE],
   [sig EXCEPT !.vec.point = None], [sig EXCEPT !.nonce = None], [sig EXCEPT !.format = None]}

Spoil ==
  /\ call = None /\ Budget /\ spoils' = spoils + 1 /\ ret' = <<"none", 0>>
  /\ \/ sk # None /\ signs = 0 /\ sk' \in SpoiledKeys(sk, {"f", "g", "F", "G"}) /\ UNCHANGED <<pk, sig, sig_len>>
     \/ pk # None /\ signs = 0 /\ pk' \in SpoiledKeys(pk, {"h"}) /\ UNCHANGED <<sk, sig, sig_len>>
     \/ sig # None /\ sig' \in SpoiledSignatures /\ UNCHANGED <<sk, pk, sig_len>>
     \/ sig # None /\ sig_len' \in Nat \cap {0, sig_len - 1, sig_len + 1} /\ UNCHANGED <<sk, pk, sig>>
  /\ UNCHANGED <<rng, hash_data, nonce, purpose, ek, call, signed, keys, signs, attempts>>

-----------------------------------------------------------------------------
Init ==
  /\ rng = shake256_init /\ hash_data = None /\ nonce = None /\ purpose = None
  /\ sk = None /\ pk = None /\ ek = None /\ sig = None /\ sig_len = 0
  /\ call = None /\ ret = <<"none", 0>> /\ signed = {}
  /\ keys = 0 /\ signs = 0 /\ attempts = 0 /\ spoils = 0

Lengths(logn) == {40, FALCON_SIG_PADDED_SIZE(logn) - 1, FALCON_SIG_CT_SIZE(logn)}
CodeLengths(logn) == {FALCON_SIG_PADDED_SIZE(logn) - 42, FALCON_SIG_PADDED_SIZE(logn) - 41,
                      FALCON_SIG_COMPRESSED_MAXSIZE(logn) - 41}
LengthsFor(k) == IF k # None /\ LognRight(k.logn) THEN Lengths(k.logn) ELSE {80}

Next ==
  \/ \E works \in BOOLEAN : shake256_init_prng_from_system(works)
  \/ \E logn \in Logns, r \in {-1, 0}, wanted, enough \in BOOLEAN :
       falcon_keygen_make(logn, 0, r, wanted, enough)
  \/ \E r \in {-1, 0} : falcon_make_public(r, TRUE)
  \/ \E at \in {3}, enough \in BOOLEAN : falcon_expand_privkey(at, 0, enough)
  \/ MoveExpanded
  \/ falcon_sign_start
  \/ \E chunk \in Chunks : InjectData(chunk)
  \/ \E type \in Types, len \in LengthsFor(sk) : falcon_sign_dyn_finish(type, len, TRUE)
  \/ \E type \in Types, len \in LengthsFor(ek) : falcon_sign_tree_finish(type, len, TRUE)
  \/ \E chunk \in Chunks, type \in Types, len \in LengthsFor(sk) : falcon_sign_dyn(chunk, type, len, TRUE)
  \/ \E chunk \in Chunks, type \in Types, len \in LengthsFor(ek) : falcon_sign_tree(chunk, type, len, TRUE)
  \/ call # None /\ \E clen \in CodeLengths(call.logn), narrow \in BOOLEAN : Attempt(clen, narrow)
  \/ falcon_verify_start
  \/ \E type \in Types : falcon_verify_finish(type, TRUE)
  \/ Spoil

Spec == Init /\ [][Next]_vars

-----------------------------------------------------------------------------
(* A call that fails before it changes anything, and a verification, is    *)
(* not gone on from: the other variables are those of a state that is.     *)
Continued ==
  /\ ret[1] # "verify"
  /\ ret[2] = 0 \/ (ret[1] \in {"sign_dyn", "sign_tree"} /\ hash_data.mode = "out")

(* What there is: what came out of the one stream, contexts, objects.      *)
Nonces   == {<<"system">>} \X Nat
Pieces   == Chunks \cup Nonces \cup {None}
Points   == Seq(Pieces) \X Nat
Contexts == [mode : {"in", "out"}, data : Seq(Pieces), taken : Nat]
Keys     == [hi : 0 .. 7, logn : 0 .. 11, len : Int, bad : {None, "f", "g", "F", "G", "h"}, key : Nonces]
Expanded == [logn : 1 .. 10, at : Nat, numbers : Nat, key : Nonces]
Calls    == [type : 1 .. 3, logn : 1 .. 10, key : Nonces \cup {None}, sav_hash_data : Contexts]
Vectors  == [key : Nonces \cup {None}, point : Points \cup {None}, clen : Nat, narrow : BOOLEAN]
Sigs     == [hi : {3, 5, 7}, logn : 1 .. 10, nonce : Nonces \cup {None}, format : {None, "ct", "comp"},
             vec : Vectors, used : Nat \ {0}, zeros : BOOLEAN]
Signed   == [key : Nonces \cup {None}, nonce : Nonces, data : Seq(Pieces), type : 1 .. 3]

(* None is nothing else, and 2^k is what it is: the prover has no theory   *)
(* of powers.                                                              *)
PowersOfTwo == <<1, 2, 4, 8, 16, 32, 64, 128, 256, 512, 1024>>
ApiAssumption ==
  /\ None \notin Calls /\ None \notin Points /\ None \notin {"ct", "comp", "sign", "verify"}
  /\ MaxAttempts \in Nat
  /\ \A k \in 0 .. 10 : 2^k = PowersOfTwo[k + 1]

TypeOK ==
  /\ rng \in [mode : {"in"}, data : {<<>>}, taken : {0}] \cup [mode : {"out"}, data : {<<"system">>}, taken : Nat]
  /\ hash_data \in Contexts \cup {None} /\ purpose \in {None, "sign", "verify"}
  /\ purpose # None => hash_data \in Contexts
  /\ nonce \in Nonces \cup {None}
  /\ {sk, pk} \subseteq Keys \cup {None} /\ ek \in Expanded \cup {None}
  /\ sig \in Sigs \cup {None} /\ sig_len \in Nat
  /\ call \in Calls \cup {None} /\ signed \subseteq Signed
  /\ ret[2] \in -5 .. 0
  /\ attempts \in 0 .. MaxAttempts

(* While a signer loops, the buffer has room for all it may write, the     *)
(* padding that is put in without a further check too, and both contexts   *)
(* give output (the checks before the loop).                               *)
Room(type, logn) ==
  CASE type = PADDED -> FALCON_SIG_PADDED_SIZE(logn)
    [] type = CT -> FALCON_SIG_CT_SIZE(logn)
    [] OTHER -> 41
RoomForSignature ==
  call # None => rng.mode = "out" /\ hash_data.mode = "out" /\ sig_len >= Room(call.type, call.logn)

Data == Tail(hash_data.data)

(* What verification accepts was signed under that key: the same data, put *)
(* in by the same chunks, after the nonce verification began with (all of     *)
(* falcon.c, from the nonce's generation to the hash in verification).     *)
OnlySignedAccepted ==
  (ret[1] = "verify" /\ ret[2] = 0) =>
    \E m \in signed : m.key = pk.key /\ m.nonce = Head(hash_data.data) /\ m.data = Data

(* And a signature just made is accepted, with its type and with type 0,   *)
(* under the key pair's other half, after however many attempts and from   *)
(* an expanded key wherever it was moved to (the signers' loop restores    *)
(* the hash context before each attempt).                                  *)
SignedAccepted ==
  (ret[1] \in {"sign_dyn", "sign_tree"} /\ ret[2] = 0 /\ call = None) =>
    \E m \in signed :
      /\ m.nonce = sig.nonce
      /\ \A type \in {0, m.type} :
           falcon_verify(sig, sig_len, type, PublicKey(sig.logn, m.key), m.data, TRUE) = 0

(* A vector and a nonce have one encoding at most for every type but zero, *)
(* where "the signature is malleable" (falcon.h:752).                      *)
Relabelled == {[sig EXCEPT !.hi = hi] : hi \in {3, 5}}
Recoded    == Relabelled \cup {[s EXCEPT !.zeros = ~sig.zeros] : s \in Relabelled}
Resized    == {41 + sig.used, sig_len, sig_len + 1, FALCON_SIG_PADDED_SIZE(sig.logn), FALCON_SIG_CT_SIZE(sig.logn)}
Variants == [sig : Recoded, len : Resized]
OneEncoding ==
  (ret[1] \in {"sign_dyn", "sign_tree"} /\ ret[2] = 0 /\ call = None) =>
    \A m \in signed : m.nonce = sig.nonce =>
      \A type \in 1 .. 3 :
        Cardinality({v.len : v \in
          {w \in Variants : falcon_verify(w.sig, w.len, type, PublicKey(sig.logn, m.key), m.data, TRUE) = 0}}) <= 1

(* No two signatures have the same nonce (falcon_sign_start).              *)
NoncesDiffer == \A a, b \in signed : a.nonce = b.nonce => a = b

(* A signer whose loop fails leaves the length of the signature as the     *)
(* caller gave it, and the keys.                                           *)
LengthLeft == (ret'[2] # 0 /\ call # None) => UNCHANGED <<sig_len, sk, pk, ek, signed>>

(* Through any legal sequence of calls of falcon.c, verification accepts   *)
(* what was signed and nothing else, signers have the room they write to,  *)
(* and an encoding with a type is the only one.                            *)
ApiRight ==
  /\ TypeOK /\ RoomForSignature /\ OnlySignedAccepted
  /\ SignedAccepted /\ OneEncoding /\ NoncesDiffer

-----------------------------------------------------------------------------
(* Why: a nonce that is being signed with is in the context first and in   *)
(* no signature yet, as all of them were taken from the stream before it;  *)
(* and a signature that decodes has the point of one that was signed,      *)
(* unless it was changed.  This is inductive.                              *)
Unused == nonce \in Nonces /\ nonce[2] < rng.taken /\ \A m \in signed : m.nonce # nonce
Begun(context) ==
  context \in Contexts /\ context.taken = 0 /\ context.data # <<>> /\ Head(context.data) = nonce

NoncesTaken == \A m \in signed : m.nonce[2] < rng.taken
StreamInv ==
  purpose = "sign" /\ hash_data.mode = "in" => rng.mode = "out" /\ Unused /\ Begun(hash_data)
CallInv ==
  call # None =>
    /\ Unused /\ Begun(call.sav_hash_data) /\ call.sav_hash_data.mode = "out"
    /\ ret[1] \in {"sign_dyn", "sign_tree"} /\ ret[2] = 0
PointsSigned ==
  sig # None /\ sig.format # None /\ sig.vec.point # None =>
    \E m \in signed : sig.vec.key = m.key /\ sig.vec.point = <<<<m.nonce>> \o m.data, 0>>
HashTaken == ret[1] = "verify" /\ ret[2] = 0 => hash_data.mode = "out"
SignatureThere == ret[1] \in {"sign_dyn", "sign_tree"} /\ ret[2] = 0 /\ call = None => sig \in Sigs

ApiInv ==
  /\ TypeOK /\ RoomForSignature /\ NoncesTaken /\ StreamInv /\ CallInv /\ PointsSigned
  /\ HashTaken /\ SignatureThere /\ OnlySignedAccepted /\ SignedAccepted /\ NoncesDiffer
=============================================================================
