--------------------------- MODULE FalconApiProofs ---------------------------
(***************************************************************************)
(* Proofs about Falcon's functions for applications, for any number of     *)
(* keys, signatures, attempts and pieces of data, and any changes to the   *)
(* objects on their way that FalconApi's Spoil makes; about the buffers of *)
(* those functions, for every degree and every address; and about the      *)
(* drivers of the certificate chains, which call such a library (their     *)
(* model is Certs), for chains and runs of any length.                     *)
(***************************************************************************)
EXTENDS FalconApi, FiniteSetTheorems, SequenceTheorems, WellFoundedInduction, TLAPS

(* The constants and the state of the certificate chains.                  *)
CONSTANTS Schemes, MaxLength, MaxIterations
VARIABLES scheme, chain_length, iterations, stage, iter, place, made, chain_keys, certs,
          msg_sig, sample, times, complaints, any_failed, spent, reused

Certs == INSTANCE CertChain WITH
  phase <- stage, at <- place, keys <- chain_keys, failed <- any_failed

-----------------------------------------------------------------------------
(* The checks at the beginning of a function.                              *)
Check == BOOLEAN \X (-5 .. -1)

(* The first one that fails exists.                                        *)
LEMMA FirstFailed ==
  ASSUME NEW S, S \subseteq Nat, S # {}
  PROVE  Min(S) \in S
<1>1. \E x \in S : \A y \in S : <<y, x>> \notin OpToRel(<, Nat)
  BY NatLessThanWellFounded, WFMin
<1>2. \E x \in S : \A y \in S : x <= y
  <2>1. PICK x \in S : \A y \in S : <<y, x>> \notin OpToRel(<, Nat)
    BY <1>1
  <2>2. ASSUME NEW y \in S, y < x  PROVE FALSE
    <3>1. <<y, x>> \in Nat \X Nat /\ <<y, x>>[1] < <<y, x>>[2]
      BY <2>2
    <3> QED
      BY <2>1, <3>1, Zenon DEF OpToRel
  <2> QED
    BY <2>2
<1> QED
  BY <1>2 DEF Min

LEMMA FirstErrorIs ==
  ASSUME NEW checks \in Seq(Check)
  PROVE  /\ FirstError(checks) \in -5 .. 0
         /\ FirstError(checks) = 0 <=> \A i \in 1 .. Len(checks) : ~checks[i][1]
<1> DEFINE failed == {i \in DOMAIN checks : checks[i][1]}
<1>1. DOMAIN checks = 1 .. Len(checks)
  OBVIOUS
<1>2. CASE failed = {}
  BY <1>1, <1>2 DEF FirstError
<1>3. CASE failed # {}
  <2>0. failed \subseteq Nat
    BY <1>1
  <2> HIDE DEF failed
  <2>1. Min(failed) \in failed
    BY <1>3, <2>0, FirstFailed
  <2> USE DEF failed
  <2>2. checks[Min(failed)][2] \in -5 .. -1
    BY <1>1, <2>1 DEF Check
  <2>3. FirstError(checks) = checks[Min(failed)][2]
    BY <1>3 DEF FirstError
  <2> QED
    BY <1>1, <2>1, <2>2, <2>3
<1> QED
  BY <1>2, <1>3

LEMMA BothPass ==
  ASSUME NEW a \in Seq(Check), NEW b \in Seq(Check)
  PROVE  /\ a \o b \in Seq(Check)
         /\ FirstError(a \o b) = 0 <=> FirstError(a) = 0 /\ FirstError(b) = 0
<1>1. /\ a \o b \in Seq(Check)
      /\ Len(a \o b) = Len(a) + Len(b)
      /\ \A i \in 1 .. Len(a) + Len(b) : (a \o b)[i] = IF i <= Len(a) THEN a[i] ELSE b[i - Len(a)]
  BY ConcatProperties
<1>2. Len(a) \in Nat /\ Len(b) \in Nat
  OBVIOUS
<1>3. ASSUME NEW i \in 1 .. Len(a)  PROVE i \in 1 .. Len(a \o b) /\ (a \o b)[i] = a[i]
  BY <1>1, <1>2
<1>4. ASSUME NEW i \in 1 .. Len(b)
      PROVE  i + Len(a) \in 1 .. Len(a \o b) /\ (a \o b)[i + Len(a)] = b[i]
  <2>1. i + Len(a) \in 1 .. Len(a) + Len(b) /\ ~(i + Len(a) <= Len(a)) /\ (i + Len(a)) - Len(a) = i
    BY <1>2
  <2> QED
    BY <1>1, <2>1
<1>5. ASSUME NEW i \in 1 .. Len(a \o b)
      PROVE  \/ i \in 1 .. Len(a) /\ (a \o b)[i] = a[i]
             \/ i - Len(a) \in 1 .. Len(b) /\ (a \o b)[i] = b[i - Len(a)]
  BY <1>1, <1>2
<1>6. (\A i \in 1 .. Len(a \o b) : ~(a \o b)[i][1])
        <=> (\A i \in 1 .. Len(a) : ~a[i][1]) /\ (\A i \in 1 .. Len(b) : ~b[i][1])
  BY <1>3, <1>4, <1>5
<1> QED
  BY <1>1, <1>6, FirstErrorIs

(* Tables of so many checks.                                               *)
LEMMA OneCheck ==
  ASSUME NEW c1 \in Check
  PROVE  /\ <<c1>> \in Seq(Check)
         /\ FirstError(<<c1>>) = 0 <=> ~c1[1]
<1> DEFINE t == <<c1>>
<1>1. t \in Seq(Check) /\ Len(t) = 1
  OBVIOUS
<1>2. (\A i \in 1 .. 1 : ~t[i][1]) <=> ~c1[1]
  OBVIOUS
<1> QED
  BY <1>1, <1>2, FirstErrorIs

LEMMA TwoChecks ==
  ASSUME NEW c1 \in Check, NEW c2 \in Check
  PROVE  /\ <<c1, c2>> \in Seq(Check)
         /\ FirstError(<<c1, c2>>) = 0 <=> ~c1[1] /\ ~c2[1]
<1> DEFINE t == <<c1, c2>>
<1>1. t \in Seq(Check) /\ Len(t) = 2
  OBVIOUS
<1>2. (\A i \in 1 .. 2 : ~t[i][1]) <=> ~c1[1] /\ ~c2[1]
  OBVIOUS
<1> QED
  BY <1>1, <1>2, FirstErrorIs

LEMMA ThreeChecks ==
  ASSUME NEW c1 \in Check, NEW c2 \in Check, NEW c3 \in Check
  PROVE  /\ <<c1, c2, c3>> \in Seq(Check)
         /\ FirstError(<<c1, c2, c3>>) = 0 <=> ~c1[1] /\ ~c2[1] /\ ~c3[1]
<1> DEFINE t == <<c1, c2, c3>>
<1>1. t \in Seq(Check) /\ Len(t) = 3
  OBVIOUS
<1>2. (\A i \in 1 .. 3 : ~t[i][1]) <=> ~c1[1] /\ ~c2[1] /\ ~c3[1]
  OBVIOUS
<1> QED
  BY <1>1, <1>2, FirstErrorIs

LEMMA FourChecks ==
  ASSUME NEW c1 \in Check, NEW c2 \in Check, NEW c3 \in Check, NEW c4 \in Check
  PROVE  /\ <<c1, c2, c3, c4>> \in Seq(Check)
         /\ FirstError(<<c1, c2, c3, c4>>) = 0 <=> ~c1[1] /\ ~c2[1] /\ ~c3[1] /\ ~c4[1]
<1> DEFINE t == <<c1, c2, c3, c4>>
<1>1. t \in Seq(Check) /\ Len(t) = 4
  OBVIOUS
<1>2. (\A i \in 1 .. 4 : ~t[i][1]) <=> ~c1[1] /\ ~c2[1] /\ ~c3[1] /\ ~c4[1]
  OBVIOUS
<1> QED
  BY <1>1, <1>2, FirstErrorIs

LEMMA ThirdPasses ==
  ASSUME NEW c1 \in Check, NEW c2 \in Check, NEW c3 \in Check, NEW c4 \in Check
  PROVE  /\ <<c1, c2, c3, c4>> \in Seq(Check)
         /\ FirstError(<<c1, c2, c3, c4>>) = 0 => ~c3[1]
BY FourChecks

LEMMA EightChecks ==
  ASSUME NEW t \in Seq(Check), Len(t) = 8
  PROVE  FirstError(t) = 0 <=> /\ ~t[1][1] /\ ~t[2][1] /\ ~t[3][1] /\ ~t[4][1]
                               /\ ~t[5][1] /\ ~t[6][1] /\ ~t[7][1] /\ ~t[8][1]
<1>1. (\A i \in 1 .. Len(t) : ~t[i][1]) <=> /\ ~t[1][1] /\ ~t[2][1] /\ ~t[3][1] /\ ~t[4][1]
                                            /\ ~t[5][1] /\ ~t[6][1] /\ ~t[7][1] /\ ~t[8][1]
  OBVIOUS
<1> QED
  BY <1>1, FirstErrorIs

-----------------------------------------------------------------------------
Powers == \A k \in 0 .. 10 : 2^k = PowersOfTwo[k + 1]

LEMMA PowerFacts ==
  ASSUME Powers, NEW k \in 0 .. 10
  PROVE  /\ 2^k \in Nat /\ 2^k >= 1 /\ (k >= 1 => 2^k >= 2)
         /\ k <= 9 => 2^k \in {1, 2, 4, 8, 16, 32, 64, 128, 256, 512}
<1>1. PowersOfTwo[k + 1] \in Nat /\ PowersOfTwo[k + 1] >= 1
      /\ (k >= 1 => PowersOfTwo[k + 1] >= 2)
  BY DEF PowersOfTwo
<1>2. k <= 9 => PowersOfTwo[k + 1] \in {1, 2, 4, 8, 16, 32, 64, 128, 256, 512}
  BY DEF PowersOfTwo
<1>3. 2^k = PowersOfTwo[k + 1]
  BY Zenon DEF Powers
<1> QED
  BY <1>1, <1>2, <1>3

LEMMA PowersFromTwo ==
  ASSUME Powers, NEW k \in 1 .. 10
  PROVE  2^k \in Nat /\ 2^k >= 2
<1>1. k \in 0 .. 10
  OBVIOUS
<1>2. 2^k = PowersOfTwo[k + 1]
  BY <1>1, Zenon DEF Powers
<1>3. PowersOfTwo[k + 1] \in Nat /\ PowersOfTwo[k + 1] >= 2
  BY DEF PowersOfTwo
<1> QED
  BY <1>2, <1>3

LEMMA SizeFacts ==
  ASSUME Powers, NEW logn \in 1 .. 10
  PROVE  /\ FALCON_SIG_PADDED_SIZE(logn) \in Nat /\ FALCON_SIG_PADDED_SIZE(logn) >= 44
         /\ FALCON_SIG_CT_SIZE(logn) \in Nat /\ FALCON_SIG_CT_SIZE(logn) > 41
         /\ FALCON_PUBKEY_SIZE(logn) \in Nat /\ FALCON_PUBKEY_SIZE(logn) > 0
         /\ FALCON_PRIVKEY_SIZE(logn) \in Nat
         /\ FALCON_SIG_COMPRESSED_MAXSIZE(logn) \in Nat /\ FALCON_SIG_COMPRESSED_MAXSIZE(logn) > 41
<1>1. PICK P \in Nat : P = 2^logn /\ P >= 2
  <2>1. 2^logn \in Nat /\ 2^logn >= 2
    BY PowersFromTwo, Zenon
  <2> QED
    BY <2>1
<1>2. PICK Q : Q = 2^(10 - logn) /\ Q \in {1, 2, 4, 8, 16, 32, 64, 128, 256, 512}
  <2>1. 10 - logn \in 0 .. 10 /\ 10 - logn <= 9
    OBVIOUS
  <2>2. 2^(10 - logn) \in {1, 2, 4, 8, 16, 32, 64, 128, 256, 512}
    BY <2>1, PowerFacts, Zenon
  <2> QED
    BY <2>2
<1>0. PICK H \in Nat : H = 2^(logn - 1) /\ H >= 1
  <2>1. logn - 1 \in 0 .. 10
    OBVIOUS
  <2> QED
    BY <2>1, PowerFacts
<1>8. ASSUME logn >= 2  PROVE \E R \in Nat : R = 2^(logn - 2) /\ R >= 1
  <2>1. logn - 2 \in 0 .. 10
    BY <1>8
  <2> QED
    BY <2>1, PowerFacts
<1>3. FALCON_SIG_PADDED_SIZE(logn) \in Nat /\ FALCON_SIG_PADDED_SIZE(logn) >= 44
  <2>1. FALCON_SIG_PADDED_SIZE(logn)
          = 44 + 3 * (256 \div Q) + 2 * (128 \div Q) + 3 * (64 \div Q)
            + 2 * (16 \div Q) - 2 * (2 \div Q) - 8 * (1 \div Q)
    BY <1>2 DEF FALCON_SIG_PADDED_SIZE, Of1024
  <2> QED
    BY <1>2, <2>1
<1>4. FALCON_SIG_CT_SIZE(logn) \in Nat /\ FALCON_SIG_CT_SIZE(logn) > 41
  BY <1>0 DEF FALCON_SIG_CT_SIZE
<1>5. FALCON_PUBKEY_SIZE(logn) \in Nat /\ FALCON_PUBKEY_SIZE(logn) > 0
  <2>1. CASE logn = 1
    BY <2>1 DEF FALCON_PUBKEY_SIZE
  <2>2. CASE logn >= 2
    <3>1. PICK R \in Nat : R = 2^(logn - 2) /\ R >= 1
      BY <1>8, <2>2
    <3>2. FALCON_PUBKEY_SIZE(logn) = 1 + 7 * R
      BY <2>2, <3>1 DEF FALCON_PUBKEY_SIZE
    <3> QED
      BY <3>1, <3>2
  <2> QED
    BY <2>1, <2>2
<1>6. FALCON_PRIVKEY_SIZE(logn) \in Nat
  <2>1. CASE logn <= 3
    BY <1>1, <2>1 DEF FALCON_PRIVKEY_SIZE
  <2>2. CASE logn > 3
    <3>1. PICK R \in Nat : R = 2^(logn - 2)
      BY <1>8, <2>2
    <3>2. PICK h \in 0 .. 5 : h = logn \div 2
      OBVIOUS
    <3>3. FALCON_PRIVKEY_SIZE(logn) = 1 + (10 - h) * R + P
      BY <1>1, <2>2, <3>1, <3>2 DEF FALCON_PRIVKEY_SIZE
    <3> QED
      BY <3>3
  <2> QED
    BY <2>1, <2>2
<1>7. FALCON_SIG_COMPRESSED_MAXSIZE(logn) \in Nat /\ FALCON_SIG_COMPRESSED_MAXSIZE(logn) > 41
  <2>1. PICK c \in Nat : c = 101 \div Q
    BY <1>2
  <2>2. FALCON_SIG_COMPRESSED_MAXSIZE(logn) = (11 * P + c + 7) \div 8 + 41
    BY <1>1, <1>2, <2>1 DEF FALCON_SIG_COMPRESSED_MAXSIZE, Of1024
  <2>3. PICK d \in Nat : d = 11 * P + c + 7 /\ d >= 29
    BY <1>1
  <2>4. d \div 8 \in Nat /\ d \div 8 >= 1
    BY <2>3
  <2> QED
    BY <2>2, <2>3, <2>4
<1> QED
  BY <1>3, <1>4, <1>5, <1>6, <1>7

LEMMA CheckIs ==
  ASSUME NEW c \in BOOLEAN, NEW e \in -5 .. -1
  PROVE  <<c, e>> \in Check /\ (<<c, e>>[1] <=> c)
BY DEF Check

LEMMA HeaderPasses ==
  ASSUME NEW p
  PROVE  /\ PrivateHeader(p) \in Seq(Check)
         /\ FirstError(PrivateHeader(p)) = 0 => LognRight(p.logn)
<1> DEFINE c1 == p.len = 0
           c2 == p.hi # 5
           c3 == ~LognRight(p.logn)
           c4 == LognRight(p.logn) /\ p.len # FALCON_PRIVKEY_SIZE(p.logn)
<1>1. c1 \in BOOLEAN /\ c2 \in BOOLEAN /\ c3 \in BOOLEAN /\ c4 \in BOOLEAN
  OBVIOUS
<1>2. ERR_FORMAT \in -5 .. -1
  BY DEF ERR_FORMAT
<1>3. PrivateHeader(p) = <<<<c1, ERR_FORMAT>>, <<c2, ERR_FORMAT>>, <<c3, ERR_FORMAT>>, <<c4, ERR_FORMAT>>>>
  BY Zenon DEF PrivateHeader
<1>4. c3 <=> ~LognRight(p.logn)
  OBVIOUS
<1> HIDE DEF c1, c2, c3, c4
<1>5. /\ <<c1, ERR_FORMAT>> \in Check /\ <<c2, ERR_FORMAT>> \in Check
      /\ <<c3, ERR_FORMAT>> \in Check /\ <<c4, ERR_FORMAT>> \in Check
      /\ <<c3, ERR_FORMAT>>[1] <=> c3
  BY <1>1, <1>2, CheckIs
<1>6. /\ <<<<c1, ERR_FORMAT>>, <<c2, ERR_FORMAT>>, <<c3, ERR_FORMAT>>, <<c4, ERR_FORMAT>>>> \in Seq(Check)
      /\ FirstError(<<<<c1, ERR_FORMAT>>, <<c2, ERR_FORMAT>>, <<c3, ERR_FORMAT>>, <<c4, ERR_FORMAT>>>>) = 0
           => ~<<c3, ERR_FORMAT>>[1]
  BY <1>5, ThirdPasses, Zenon
<1> QED
  BY <1>3, <1>4, <1>5, <1>6, Zenon

LEMMA PartsTable == ASSUME NEW p, NEW parts PROVE PrivateParts(p, parts) \in Seq(Check)
<1> DEFINE c == p.bad \in parts
<1>1. c \in BOOLEAN /\ ERR_FORMAT \in -5 .. -1
  BY DEF ERR_FORMAT
<1>2. PrivateParts(p, parts) = <<<<c, ERR_FORMAT>>>>
  BY Zenon DEF PrivateParts
<1> HIDE DEF c
<1>3. <<c, ERR_FORMAT>> \in Check
  BY <1>1, CheckIs
<1> QED
  BY <1>2, <1>3, OneCheck

LEMMA SpaceTable ==
  ASSUME NEW type, NEW logn, NEW len \in Nat, NEW enough \in BOOLEAN
  PROVE  /\ Space(type, logn, len, enough) \in Seq(Check)
         /\ FirstError(Space(type, logn, len, enough)) = 0
              => len >= 41 /\ type \in 1 .. 3 /\ (LognRight(logn) => ~TooSmall(type, logn, len))
<1> DEFINE c1 == ~enough
           c2 == len < 41
           c3 == LognRight(logn) /\ TooSmall(type, logn, len)
           c4 == type \notin {COMPRESSED, PADDED, CT}
<1>1. c1 \in BOOLEAN /\ c2 \in BOOLEAN /\ c3 \in BOOLEAN /\ c4 \in BOOLEAN
  OBVIOUS
<1>2. ERR_SIZE \in -5 .. -1 /\ ERR_BADARG \in -5 .. -1
  BY DEF ERR_SIZE, ERR_BADARG
<1>3. Space(type, logn, len, enough)
        = <<<<c1, ERR_SIZE>>, <<c2, ERR_SIZE>>, <<c3, ERR_SIZE>>, <<c4, ERR_BADARG>>>>
  BY Zenon DEF Space
<1>4. /\ ~c2 => len >= 41
      /\ ~c3 => (LognRight(logn) => ~TooSmall(type, logn, len))
      /\ ~c4 => type \in 1 .. 3
  BY DEF COMPRESSED, PADDED, CT
<1> HIDE DEF c1, c2, c3, c4
<1>5. /\ <<c1, ERR_SIZE>> \in Check /\ <<c2, ERR_SIZE>> \in Check
      /\ <<c3, ERR_SIZE>> \in Check /\ <<c4, ERR_BADARG>> \in Check
      /\ <<c2, ERR_SIZE>>[1] <=> c2
      /\ <<c3, ERR_SIZE>>[1] <=> c3
      /\ <<c4, ERR_BADARG>>[1] <=> c4
  BY <1>1, <1>2, CheckIs
<1>6. /\ Space(type, logn, len, enough) \in Seq(Check)
      /\ FirstError(Space(type, logn, len, enough)) = 0 => ~c2 /\ ~c3 /\ ~c4
  BY <1>3, <1>5, FourChecks
<1> QED
  BY <1>4, <1>6

LEMMA RoomLeft ==
  ASSUME Powers, NEW type \in 1 .. 3, NEW logn \in 1 .. 10, NEW len \in Nat,
         len >= 41, ~TooSmall(type, logn, len)
  PROVE  len >= Room(type, logn)
<1>1. FALCON_SIG_PADDED_SIZE(logn) \in Nat /\ FALCON_SIG_CT_SIZE(logn) \in Nat
  BY SizeFacts
<1>2. CASE type = PADDED
  BY <1>1, <1>2 DEF TooSmall, Room
<1>3. CASE type = CT
  BY <1>1, <1>3 DEF TooSmall, Room, CT, PADDED
<1>4. CASE type # PADDED /\ type # CT
  BY <1>4 DEF Room
<1> QED
  BY <1>2, <1>3, <1>4

(* The checks of both signers.                                             *)
LEMMA SignerChecks ==
  ASSUME Powers, NEW first \in Seq(Check),
         NEW type, NEW logn, NEW len \in Nat, NEW enough \in BOOLEAN,
         FirstError(first) = 0 => LognRight(logn),
         NEW checks, checks = first \o Space(type, logn, len, enough)
  PROVE  /\ checks \in Seq(Check)
         /\ FirstError(checks) = 0
              => type \in 1 .. 3 /\ logn \in 1 .. 10 /\ len >= Room(type, logn)
<1>1. Space(type, logn, len, enough) \in Seq(Check)
  BY SpaceTable
<1>2. /\ checks \in Seq(Check)
      /\ FirstError(checks) = 0
           <=> FirstError(first) = 0 /\ FirstError(Space(type, logn, len, enough)) = 0
  BY <1>1, BothPass
<1>3. ASSUME FirstError(checks) = 0
      PROVE  type \in 1 .. 3 /\ logn \in 1 .. 10 /\ len >= Room(type, logn)
  <2>1. LognRight(logn) /\ FirstError(Space(type, logn, len, enough)) = 0
    BY <1>2, <1>3
  <2>2. logn \in 1 .. 10 /\ len >= 41 /\ type \in 1 .. 3 /\ ~TooSmall(type, logn, len)
    BY <2>1, SpaceTable DEF LognRight
  <2> QED
    BY <2>2, RoomLeft
<1> QED
  BY <1>2, <1>3

LEMMA DynChecks ==
  ASSUME Powers, NEW p, NEW type, NEW len \in Nat, NEW enough \in BOOLEAN, NEW parts,
         NEW checks,
         checks = PrivateHeader(p) \o Space(type, p.logn, len, enough) \o PrivateParts(p, parts)
  PROVE  /\ FirstError(checks) \in -5 .. 0
         /\ FirstError(checks) = 0
              => type \in 1 .. 3 /\ p.logn \in 1 .. 10 /\ len >= Room(type, p.logn)
<1> DEFINE begin == PrivateHeader(p) \o Space(type, p.logn, len, enough)
<1>1. /\ begin \in Seq(Check)
      /\ FirstError(begin) = 0
           => type \in 1 .. 3 /\ p.logn \in 1 .. 10 /\ len >= Room(type, p.logn)
  BY HeaderPasses, SignerChecks
<1>2. checks = begin \o PrivateParts(p, parts)
  OBVIOUS
<1> HIDE DEF begin
<1>3. checks \in Seq(Check) /\ (FirstError(checks) = 0 => FirstError(begin) = 0)
  BY <1>1, <1>2, PartsTable, BothPass
<1> QED
  BY <1>1, <1>3, FirstErrorIs

LEMMA TreeChecks ==
  ASSUME Powers, NEW logn, NEW type, NEW len \in Nat, NEW enough \in BOOLEAN, NEW checks,
         checks = <<<<~LognRight(logn), ERR_FORMAT>>>> \o Space(type, logn, len, enough)
  PROVE  /\ FirstError(checks) \in -5 .. 0
         /\ FirstError(checks) = 0
              => type \in 1 .. 3 /\ logn \in 1 .. 10 /\ len >= Room(type, logn)
<1> DEFINE c     == ~LognRight(logn)
           first == <<<<c, ERR_FORMAT>>>>
<1>1. c \in BOOLEAN /\ ERR_FORMAT \in -5 .. -1 /\ (~c => LognRight(logn))
  BY DEF ERR_FORMAT
<1>2. checks = first \o Space(type, logn, len, enough)
  BY Zenon
<1> HIDE DEF c
<1>3. <<c, ERR_FORMAT>> \in Check /\ (<<c, ERR_FORMAT>>[1] <=> c)
  BY <1>1, CheckIs
<1>4. first \in Seq(Check) /\ (FirstError(first) = 0 => LognRight(logn))
  BY <1>1, <1>3, OneCheck
<1> HIDE DEF first
<1>5. /\ checks \in Seq(Check)
      /\ FirstError(checks) = 0
           => type \in 1 .. 3 /\ logn \in 1 .. 10 /\ len >= Room(type, logn)
  BY <1>2, <1>4, SignerChecks
<1> QED
  BY <1>5, FirstErrorIs

(* The checks of the other functions.                                      *)
LEMMA KeygenChecks ==
  ASSUME NEW logn, NEW small \in BOOLEAN,
         NEW checks, checks = <<<<~LognRight(logn), ERR_BADARG>>, <<small, ERR_SIZE>>>>
  PROVE  FirstError(checks) \in -5 .. 0 /\ (FirstError(checks) = 0 => LognRight(logn))
<1> DEFINE c == ~LognRight(logn)
<1>1. c \in BOOLEAN /\ ERR_BADARG \in -5 .. -1 /\ ERR_SIZE \in -5 .. -1 /\ (~c => LognRight(logn))
  BY DEF ERR_BADARG, ERR_SIZE
<1>2. checks = <<<<c, ERR_BADARG>>, <<small, ERR_SIZE>>>>
  BY Zenon
<1> HIDE DEF c
<1>3. /\ <<c, ERR_BADARG>> \in Check /\ (<<c, ERR_BADARG>>[1] <=> c)
      /\ <<small, ERR_SIZE>> \in Check
  BY <1>1, CheckIs
<1>4. checks \in Seq(Check) /\ (FirstError(checks) = 0 => ~c)
  BY <1>2, <1>3, TwoChecks
<1> QED
  BY <1>1, <1>4, FirstErrorIs

LEMMA DecodingChecks ==
  ASSUME NEW p, NEW small \in BOOLEAN, NEW parts,
         NEW checks, checks = PrivateHeader(p) \o <<<<small, ERR_SIZE>>>> \o PrivateParts(p, parts)
  PROVE  FirstError(checks) \in -5 .. 0 /\ (FirstError(checks) = 0 => LognRight(p.logn))
<1> DEFINE begin == PrivateHeader(p) \o <<<<small, ERR_SIZE>>>>
<1>1. <<<<small, ERR_SIZE>>>> \in Seq(Check)
  <2>1. ERR_SIZE \in -5 .. -1
    BY DEF ERR_SIZE
  <2>2. <<small, ERR_SIZE>> \in Check
    BY <2>1, CheckIs
  <2> QED
    BY <2>2, OneCheck
<1>2. begin \in Seq(Check) /\ (FirstError(begin) = 0 => LognRight(p.logn))
  BY <1>1, HeaderPasses, BothPass
<1>3. checks = begin \o PrivateParts(p, parts)
  OBVIOUS
<1> HIDE DEF begin
<1>4. checks \in Seq(Check) /\ (FirstError(checks) = 0 => FirstError(begin) = 0)
  BY <1>2, <1>3, PartsTable, BothPass
<1> QED
  BY <1>2, <1>4, FirstErrorIs

(* The checks of verification.                                             *)
LEMMA HeaderTable ==
  ASSUME NEW s, NEW len \in Nat, NEW p
  PROVE  /\ FirstError(HeaderChecks(s, len, p)) \in -5 .. 0
         /\ FirstError(HeaderChecks(s, len, p)) = 0 <=>
              /\ len >= 41 /\ p.len # 0
              /\ p.hi = 0
              /\ LognRight(p.logn)
              /\ s.logn = p.logn
<1> DEFINE c1 == len < 41 \/ p.len = 0
           c2 == p.hi # 0
           c3 == ~LognRight(p.logn)
           c4 == s.logn # p.logn
<1>1. /\ c1 \in BOOLEAN /\ c2 \in BOOLEAN /\ c3 \in BOOLEAN /\ c4 \in BOOLEAN
  OBVIOUS
<1>2. ERR_BADSIG \in -5 .. -1 /\ ERR_FORMAT \in -5 .. -1
  BY DEF ERR_BADSIG, ERR_FORMAT
<1>3. HeaderChecks(s, len, p)
        = <<<<c1, ERR_FORMAT>>, <<c2, ERR_FORMAT>>, <<c3, ERR_FORMAT>>, <<c4, ERR_BADSIG>>>>
  BY Zenon DEF HeaderChecks
<1>4. /\ ~c1 <=> (len >= 41 /\ p.len # 0)
      /\ ~c2 <=> p.hi = 0
      /\ ~c3 <=> LognRight(p.logn)
      /\ ~c4 <=> s.logn = p.logn
  OBVIOUS
<1> HIDE DEF c1, c2, c3, c4
<1>5. /\ <<c1, ERR_FORMAT>> \in Check /\ (<<c1, ERR_FORMAT>>[1] <=> c1)
      /\ <<c2, ERR_FORMAT>> \in Check /\ (<<c2, ERR_FORMAT>>[1] <=> c2)
      /\ <<c3, ERR_FORMAT>> \in Check /\ (<<c3, ERR_FORMAT>>[1] <=> c3)
      /\ <<c4, ERR_BADSIG>> \in Check /\ (<<c4, ERR_BADSIG>>[1] <=> c4)
  BY <1>1, <1>2, CheckIs
<1> DEFINE t1 == <<c1, ERR_FORMAT>>
           t2 == <<c2, ERR_FORMAT>>
           t3 == <<c3, ERR_FORMAT>>
           t4 == <<c4, ERR_BADSIG>>
<1>6. /\ t1 \in Check /\ (t1[1] <=> c1)
      /\ t2 \in Check /\ (t2[1] <=> c2)
      /\ t3 \in Check /\ (t3[1] <=> c3)
      /\ t4 \in Check /\ (t4[1] <=> c4)
      /\ HeaderChecks(s, len, p) = <<t1, t2, t3, t4>>
  BY <1>3, <1>5
<1> HIDE DEF t1, t2, t3, t4
<1>7. /\ HeaderChecks(s, len, p) \in Seq(Check)
      /\ FirstError(HeaderChecks(s, len, p)) = 0 <=> ~t1[1] /\ ~t2[1] /\ ~t3[1] /\ ~t4[1]
  BY <1>6, FourChecks
<1> QED
  BY <1>4, <1>6, <1>7, FirstErrorIs

(* What the format checks ask, of what the type says and the lengths.      *)
FormatFits(s, len, type, p) ==
  /\ type = 0 /\ s.hi = 5 => len = FALCON_SIG_CT_SIZE(p.logn)
  /\ type = 0 => s.hi \in {3, 5}
  /\ type \in {COMPRESSED, PADDED} => s.hi = 3
  /\ type = PADDED => len = FALCON_SIG_PADDED_SIZE(p.logn)
  /\ type = CT => s.hi = 5 /\ len = FALCON_SIG_CT_SIZE(p.logn)
  /\ type \in 0 .. 3
  /\ p.len = FALCON_PUBKEY_SIZE(p.logn)

LEMMA FormatTable ==
  ASSUME NEW s, NEW len \in Nat, NEW type, NEW p, NEW enough \in BOOLEAN
  PROVE  /\ FirstError(FormatChecks(s, len, type, p, enough)) \in -5 .. 0
         /\ FirstError(FormatChecks(s, len, type, p, enough)) = 0
              <=> FormatFits(s, len, type, p) /\ enough
<1> DEFINE c1 == type = 0 /\ s.hi = 5 /\ len # FALCON_SIG_CT_SIZE(p.logn)
           c2 == type = 0 /\ s.hi \notin {3, 5}
           c3 == type \in {COMPRESSED, PADDED} /\ s.hi # 3
           c4 == type = PADDED /\ len # FALCON_SIG_PADDED_SIZE(p.logn)
           c5 == type = CT /\ (s.hi # 5 \/ len # FALCON_SIG_CT_SIZE(p.logn))
           c6 == type \notin 0 .. 3
           c7 == p.len # FALCON_PUBKEY_SIZE(p.logn)
           c8 == ~enough
<1>1. /\ c1 \in BOOLEAN /\ c2 \in BOOLEAN /\ c3 \in BOOLEAN /\ c4 \in BOOLEAN
      /\ c5 \in BOOLEAN /\ c6 \in BOOLEAN /\ c7 \in BOOLEAN /\ c8 \in BOOLEAN
  OBVIOUS
<1>2. ERR_BADARG \in -5 .. -1 /\ ERR_BADSIG \in -5 .. -1 /\ ERR_FORMAT \in -5 .. -1 /\ ERR_SIZE \in -5 .. -1
  BY DEF ERR_BADARG, ERR_BADSIG, ERR_FORMAT, ERR_SIZE
<1>3. FormatChecks(s, len, type, p, enough)
        = <<<<c1, ERR_FORMAT>>, <<c2, ERR_BADSIG>>, <<c3, ERR_FORMAT>>, <<c4, ERR_FORMAT>>,
            <<c5, ERR_FORMAT>>, <<c6, ERR_BADARG>>, <<c7, ERR_FORMAT>>, <<c8, ERR_SIZE>>>>
  BY Zenon DEF FormatChecks
<1>4. /\ ~c1 <=> (type = 0 /\ s.hi = 5 => len = FALCON_SIG_CT_SIZE(p.logn))
      /\ ~c2 <=> (type = 0 => s.hi \in {3, 5})
      /\ ~c3 <=> (type \in {COMPRESSED, PADDED} => s.hi = 3)
      /\ ~c4 <=> (type = PADDED => len = FALCON_SIG_PADDED_SIZE(p.logn))
      /\ ~c5 <=> (type = CT => s.hi = 5 /\ len = FALCON_SIG_CT_SIZE(p.logn))
      /\ ~c6 <=> type \in 0 .. 3
      /\ ~c7 <=> p.len = FALCON_PUBKEY_SIZE(p.logn)
      /\ ~c8 <=> enough
  OBVIOUS
<1> HIDE DEF c1, c2, c3, c4, c5, c6, c7, c8
<1>5. /\ <<c1, ERR_FORMAT>> \in Check /\ (<<c1, ERR_FORMAT>>[1] <=> c1)
      /\ <<c2, ERR_BADSIG>> \in Check /\ (<<c2, ERR_BADSIG>>[1] <=> c2)
      /\ <<c3, ERR_FORMAT>> \in Check /\ (<<c3, ERR_FORMAT>>[1] <=> c3)
      /\ <<c4, ERR_FORMAT>> \in Check /\ (<<c4, ERR_FORMAT>>[1] <=> c4)
      /\ <<c5, ERR_FORMAT>> \in Check /\ (<<c5, ERR_FORMAT>>[1] <=> c5)
      /\ <<c6, ERR_BADARG>> \in Check /\ (<<c6, ERR_BADARG>>[1] <=> c6)
      /\ <<c7, ERR_FORMAT>> \in Check /\ (<<c7, ERR_FORMAT>>[1] <=> c7)
      /\ <<c8, ERR_SIZE>> \in Check /\ (<<c8, ERR_SIZE>>[1] <=> c8)
  BY <1>1, <1>2, CheckIs
<1> DEFINE t1 == <<c1, ERR_FORMAT>>
           t2 == <<c2, ERR_BADSIG>>
           t3 == <<c3, ERR_FORMAT>>
           t4 == <<c4, ERR_FORMAT>>
           t5 == <<c5, ERR_FORMAT>>
           t6 == <<c6, ERR_BADARG>>
           t7 == <<c7, ERR_FORMAT>>
           t8 == <<c8, ERR_SIZE>>
<1>6. /\ t1 \in Check /\ (t1[1] <=> c1)
      /\ t2 \in Check /\ (t2[1] <=> c2)
      /\ t3 \in Check /\ (t3[1] <=> c3)
      /\ t4 \in Check /\ (t4[1] <=> c4)
      /\ t5 \in Check /\ (t5[1] <=> c5)
      /\ t6 \in Check /\ (t6[1] <=> c6)
      /\ t7 \in Check /\ (t7[1] <=> c7)
      /\ t8 \in Check /\ (t8[1] <=> c8)
      /\ FormatChecks(s, len, type, p, enough) = <<t1, t2, t3, t4, t5, t6, t7, t8>>
  BY <1>3, <1>5
<1> HIDE DEF t1, t2, t3, t4, t5, t6, t7, t8
<1> DEFINE t == FormatChecks(s, len, type, p, enough)
<1>7. /\ t \in Seq(Check) /\ Len(t) = 8
      /\ t[1] = t1 /\ t[2] = t2 /\ t[3] = t3 /\ t[4] = t4
      /\ t[5] = t5 /\ t[6] = t6 /\ t[7] = t7 /\ t[8] = t8
  BY <1>6
<1> HIDE DEF t
<1>8. FirstError(t) \in -5 .. 0
  BY <1>7, FirstErrorIs
<1>9. FirstError(t) = 0 <=> ~c1 /\ ~c2 /\ ~c3 /\ ~c4 /\ ~c5 /\ ~c6 /\ ~c7 /\ ~c8
  BY <1>6, <1>7, EightChecks
<1>10. FormatFits(s, len, type, p) /\ enough
         <=> ~c1 /\ ~c2 /\ ~c3 /\ ~c4 /\ ~c5 /\ ~c6 /\ ~c7 /\ ~c8
  BY <1>4 DEF FormatFits
<1> QED
  BY <1>8, <1>9, <1>10 DEF t

LEMMA DecodeTable ==
  ASSUME NEW s, NEW len \in Nat, NEW type, NEW p
  PROVE  /\ FirstError(DecodeChecks(s, len, type, p)) \in -5 .. 0
         /\ FirstError(DecodeChecks(s, len, type, p)) = 0 <=>
              /\ p.bad = None
              /\ Decoded(s, len) # 0
              /\ 41 + Decoded(s, len) = len \/ (PaddingAllowed(type, len, s.logn) /\ s.zeros)
<1> DEFINE c1 == p.bad # None
           c2 == Decoded(s, len) = 0
           c3 == 41 + Decoded(s, len) # len /\ ~(PaddingAllowed(type, len, s.logn) /\ s.zeros)
<1>1. /\ c1 \in BOOLEAN /\ c2 \in BOOLEAN /\ c3 \in BOOLEAN
  OBVIOUS
<1>2. ERR_FORMAT \in -5 .. -1
  BY DEF ERR_FORMAT
<1>3. DecodeChecks(s, len, type, p)
        = <<<<c1, ERR_FORMAT>>, <<c2, ERR_FORMAT>>, <<c3, ERR_FORMAT>>>>
  BY Zenon DEF DecodeChecks
<1>4. /\ ~c1 <=> p.bad = None
      /\ ~c2 <=> Decoded(s, len) # 0
      /\ ~c3 <=> (41 + Decoded(s, len) = len \/ (PaddingAllowed(type, len, s.logn) /\ s.zeros))
  OBVIOUS
<1> HIDE DEF c1, c2, c3
<1>5. /\ <<c1, ERR_FORMAT>> \in Check /\ (<<c1, ERR_FORMAT>>[1] <=> c1)
      /\ <<c2, ERR_FORMAT>> \in Check /\ (<<c2, ERR_FORMAT>>[1] <=> c2)
      /\ <<c3, ERR_FORMAT>> \in Check /\ (<<c3, ERR_FORMAT>>[1] <=> c3)
  BY <1>1, <1>2, CheckIs
<1>6. /\ DecodeChecks(s, len, type, p) \in Seq(Check)
      /\ FirstError(DecodeChecks(s, len, type, p)) = 0 <=> ~c1 /\ ~c2 /\ ~c3
  BY <1>3, <1>5, ThreeChecks
<1> QED
  BY <1>4, <1>6, FirstErrorIs

LEMMA UnreadIs ==
  ASSUME NEW s, NEW len \in Nat, NEW type, NEW p, NEW enough \in BOOLEAN
  PROVE  /\ RefusedUnread(s, len, type, p, enough) \in -5 .. 0
         /\ RefusedUnread(s, len, type, p, enough) = 0 <=>
              /\ FirstError(HeaderChecks(s, len, p)) = 0
              /\ FirstError(FormatChecks(s, len, type, p, enough)) = 0
              /\ FirstError(DecodeChecks(s, len, type, p)) = 0
BY HeaderTable, FormatTable, DecodeTable DEF RefusedUnread

LEMMA VerifyIs ==
  ASSUME NEW s, NEW len \in Nat, NEW type, NEW p, NEW hd, NEW enough \in BOOLEAN
  PROVE  /\ VerifyError(s, len, type, p, hd, enough) \in -5 .. 0
         /\ VerifyError(s, len, type, p, hd, enough) = 0 <=>
              /\ RefusedUnread(s, len, type, p, enough) = 0
              /\ verify_raw(s, Extracted(shake256_flip(hd)), p)
<1>1. RefusedUnread(s, len, type, p, enough) \in -5 .. 0
  BY UnreadIs
<1> QED
  BY <1>1 DEF VerifyError, ERR_BADSIG

-----------------------------------------------------------------------------
(* Contexts.                                                               *)
LEMMA Facts == ApiAssumption => Powers /\ None \notin Calls /\ None \notin Points /\ MaxAttempts \in Nat
                                /\ None \notin {"ct", "comp", "sign", "verify"}
BY DEF ApiAssumption, Powers

LEMMA ContextFacts ==
  ASSUME NEW sc \in Contexts, NEW x \in Pieces
  PROVE  /\ shake256_inject(sc, x) \in Contexts
         /\ shake256_inject(sc, x).mode = sc.mode
         /\ shake256_inject(sc, x).taken = sc.taken
         /\ shake256_inject(sc, x).data = Append(sc.data, x)
         /\ shake256_inject(sc, x).data # <<>>
         /\ sc.data # <<>> => Head(shake256_inject(sc, x).data) = Head(sc.data)
         /\ shake256_flip(sc) \in Contexts
         /\ shake256_flip(sc) = [mode |-> "out", data |-> sc.data, taken |-> sc.taken]
         /\ AfterExtract(sc) \in Contexts
         /\ AfterExtract(sc) = [mode |-> sc.mode, data |-> sc.data, taken |-> sc.taken + 1]
<1>1. sc.data \in Seq(Pieces) /\ sc.taken \in Nat /\ sc.mode \in {"in", "out"}
      /\ sc = [mode |-> sc.mode, data |-> sc.data, taken |-> sc.taken]
  BY DEF Contexts
<1>2. Append(sc.data, x) \in Seq(Pieces) /\ Append(sc.data, x) # <<>>
      /\ (sc.data # <<>> => Head(Append(sc.data, x)) = Head(sc.data))
  BY <1>1
<1>3. shake256_inject(sc, x) = [mode |-> sc.mode, data |-> Append(sc.data, x), taken |-> sc.taken]
  <2>1. ASSUME NEW d PROVE [sc EXCEPT !.data = d] = [mode |-> sc.mode, data |-> d, taken |-> sc.taken]
    BY DEF Contexts
  <2> QED
    BY <2>1, Zenon DEF shake256_inject
<1>4. shake256_flip(sc) = [mode |-> "out", data |-> sc.data, taken |-> sc.taken]
  BY <1>1 DEF shake256_flip
<1>5. AfterExtract(sc) = [mode |-> sc.mode, data |-> sc.data, taken |-> sc.taken + 1]
  BY <1>1 DEF AfterExtract
<1> QED
  BY <1>1, <1>2, <1>3, <1>4, <1>5 DEF Contexts

LEMMA FirstInjected ==
  ASSUME NEW x \in Pieces
  PROVE  /\ shake256_inject(shake256_init, x) \in Contexts
         /\ shake256_inject(shake256_init, x) = [mode |-> "in", data |-> <<x>>, taken |-> 0]
<1>1. Append(<<>>, x) = <<x>> /\ <<x>> \in Seq(Pieces)
  OBVIOUS
<1>2. shake256_inject(shake256_init, x) = [mode |-> "in", data |-> Append(<<>>, x), taken |-> 0]
  BY DEF shake256_inject, shake256_init
<1> QED
  BY <1>1, <1>2 DEF Contexts

(* What is drawn from the stream was never drawn before.                   *)
LEMMA Drawn ==
  ASSUME TypeOK, NoncesTaken, rng.mode = "out"
  PROVE  /\ Extracted(rng) \in Nonces
         /\ \A m \in signed : m.nonce # Extracted(rng)
         /\ rng.taken \in Nat
         /\ AfterExtract(rng) = [mode |-> "out", data |-> <<"system">>, taken |-> rng.taken + 1]
<1>1. rng \in [mode : {"out"}, data : {<<"system">>}, taken : Nat]
  BY DEF TypeOK
<1>2. Extracted(rng) = <<<<"system">>, rng.taken>>
  BY <1>1 DEF Extracted
<1>3. \A m \in signed : m.nonce \in Nonces /\ m.nonce[2] < rng.taken
  BY DEF TypeOK, Signed, NoncesTaken
<1>4. \A m \in signed : m.nonce # Extracted(rng)
  BY <1>1, <1>2, <1>3
<1> QED
  BY <1>1, <1>2, <1>4 DEF Nonces, AfterExtract

LEMMA InitApi == ApiAssumption /\ Init => ApiInv
<1> SUFFICES ASSUME ApiAssumption, Init PROVE ApiInv
  OBVIOUS
<1>1. None # "sign" /\ MaxAttempts \in Nat
  BY Facts
<1>2. TypeOK
  BY <1>1 DEF Init, TypeOK, shake256_init
<1>3. RoomForSignature /\ NoncesTaken /\ StreamInv /\ CallInv /\ PointsSigned /\ HashTaken
      /\ SignatureThere
  BY <1>1 DEF Init, RoomForSignature, NoncesTaken, StreamInv, CallInv, PointsSigned, HashTaken,
              SignatureThere
<1>4. OnlySignedAccepted /\ SignedAccepted /\ NoncesDiffer
  BY DEF Init, OnlySignedAccepted, SignedAccepted, NoncesDiffer
<1> QED
  BY <1>2, <1>3, <1>4 DEF ApiInv

(* Steps that make no signature and no verdict.                            *)
LEMMA QuietStep ==
  ASSUME ApiInv, TypeOK', StreamInv', call' = None, signed' = signed,
         sig' = sig \/ PointsSigned',
         rng'.taken >= rng.taken, rng.taken \in Nat, rng'.taken \in Nat,
         ret'[1] \notin {"verify", "sign_dyn", "sign_tree"}
  PROVE  ApiInv'
<1>1. /\ RoomForSignature' /\ CallInv' /\ HashTaken' /\ SignatureThere'
      /\ OnlySignedAccepted' /\ SignedAccepted'
  BY DEF RoomForSignature, CallInv, HashTaken, SignatureThere, OnlySignedAccepted, SignedAccepted
<1>2. NoncesTaken'
  <2>1. \A m \in signed : m.nonce[2] \in Nat /\ m.nonce[2] < rng.taken
    BY DEF ApiInv, TypeOK, Signed, Nonces, NoncesTaken
  <2> QED
    BY <2>1 DEF NoncesTaken
<1>3. PointsSigned' /\ NoncesDiffer'
  BY DEF ApiInv, PointsSigned, NoncesDiffer
<1> QED
  BY <1>1, <1>2, <1>3 DEF ApiInv

(* A step that leaves the hash context as it is, or makes it one for       *)
(* verification, keeps what holds of a message being streamed.             *)
LEMMA StreamKept ==
  ASSUME StreamInv, rng.mode = "out" => rng'.mode = "out",
         rng.taken \in Nat, rng'.taken \in Nat, rng.taken <= rng'.taken,
         UNCHANGED <<hash_data, nonce, purpose, signed>>
  PROVE  StreamInv'
<1>1. ASSUME Unused PROVE Unused'
  <2>1. nonce \in Nonces /\ nonce[2] \in Nat /\ nonce[2] < rng.taken /\ \A m \in signed : m.nonce # nonce
    BY <1>1 DEF Unused, Nonces
  <2>2. nonce[2] < rng'.taken
    BY <2>1
  <2> QED
    BY <2>1, <2>2 DEF Unused
<1> QED
  BY <1>1 DEF StreamInv, Begun

LEMMA PrngStep ==
  ASSUME ApiInv, NEW works \in BOOLEAN, shake256_init_prng_from_system(works)
  PROVE  ApiInv' /\ call = None
<1>1. TypeOK /\ RoomForSignature /\ StreamInv /\ rng.mode = "in"
  BY DEF ApiInv, shake256_init_prng_from_system
<1>2. call = None
  BY <1>1 DEF RoomForSignature
<1>3. UNCHANGED <<hash_data, nonce, purpose, sk, pk, ek, sig, sig_len, call, signed, attempts>>
  BY DEF shake256_init_prng_from_system
<1>4. rng.taken = 0
  BY <1>1 DEF TypeOK
<1>5. /\ rng' = rng \/ rng' = [mode |-> "out", data |-> <<"system">>, taken |-> 0]
      /\ ret'[1] = "prng" /\ ret'[2] \in -5 .. 0
  <2>1. shake256_init_prng_from_seed("system") = [mode |-> "out", data |-> <<"system">>, taken |-> 0]
    <3>1. Append(<<>>, "system") = <<"system">>
      OBVIOUS
    <3>2. shake256_inject(shake256_init, "system")
            = [mode |-> "in", data |-> Append(<<>>, "system"), taken |-> 0]
      BY DEF shake256_inject, shake256_init
    <3>3. shake256_inject(shake256_init, "system") = [mode |-> "in", data |-> <<"system">>, taken |-> 0]
      BY <3>1, <3>2
    <3>4. \A d : shake256_flip([mode |-> "in", data |-> d, taken |-> 0])
                   = [mode |-> "out", data |-> d, taken |-> 0]
      BY DEF shake256_flip
    <3> QED
      BY <3>3, <3>4, Zenon DEF shake256_init_prng_from_seed
  <2> QED
    BY <2>1 DEF shake256_init_prng_from_system, ERR_RANDOM
<1>6. TypeOK'
  BY <1>1, <1>3, <1>5 DEF TypeOK
<1>7. rng'.taken = 0
  BY <1>4, <1>5
<1>8. StreamInv'
  BY <1>1, <1>3, <1>4, <1>7, StreamKept
<1> QED
  BY <1>2, <1>3, <1>4, <1>5, <1>6, <1>7, <1>8, QuietStep

(* Keys: their contents are numbered by what they were drawn from.         *)
LEMMA KeyFacts ==
  ASSUME Powers, NEW logn, LognRight(logn), NEW key \in Nonces
  PROVE  PrivateKey(logn, key) \in Keys /\ PublicKey(logn, key) \in Keys
<1>1. logn \in 1 .. 10
  BY DEF LognRight
<1>2. FALCON_PRIVKEY_SIZE(logn) \in Int /\ FALCON_PUBKEY_SIZE(logn) \in Int /\ logn \in 0 .. 11
  BY <1>1, SizeFacts
<1> QED
  BY <1>2 DEF PrivateKey, PublicKey, Keys

LEMMA KeygenStep ==
  ASSUME ApiAssumption, ApiInv, NEW logn, NEW r \in {-1, 0}, NEW wanted \in BOOLEAN,
         NEW enough \in BOOLEAN, falcon_keygen_make(logn, 0, r, wanted, enough)
  PROVE  ApiInv'
<1> DEFINE err == FirstError(<<<<~LognRight(logn), ERR_BADARG>>,
                               <<0 < 0 \/ (wanted /\ r < 0) \/ ~enough, ERR_SIZE>>>>)
<1>1. err \in -5 .. 0 /\ (err = 0 => LognRight(logn))
  BY KeygenChecks
<1>2. /\ call = None /\ rng.mode = "out" /\ ret' = <<"keygen", err>>
      /\ IF err # 0 THEN UNCHANGED <<rng, sk, pk>>
         ELSE /\ rng' = AfterExtract(rng)
              /\ sk' = PrivateKey(logn, Extracted(rng))
              /\ pk' = IF wanted THEN PublicKey(logn, Extracted(rng)) ELSE pk
      /\ UNCHANGED <<hash_data, nonce, purpose, ek, sig, sig_len, call, signed, attempts>>
  BY DEF falcon_keygen_make
<1> HIDE DEF err
<1>3. TypeOK /\ NoncesTaken /\ StreamInv
  BY DEF ApiInv
<1>4. /\ Extracted(rng) \in Nonces /\ rng.taken \in Nat
      /\ AfterExtract(rng) = [mode |-> "out", data |-> <<"system">>, taken |-> rng.taken + 1]
  BY <1>2, <1>3, Drawn
<1>5. err = 0 => PrivateKey(logn, Extracted(rng)) \in Keys /\ PublicKey(logn, Extracted(rng)) \in Keys
  BY <1>1, <1>4, Facts, KeyFacts
<1>6. TypeOK'
  <2>1. rng' \in [mode : {"out"}, data : {<<"system">>}, taken : Nat]
    BY <1>2, <1>3, <1>4 DEF TypeOK
  <2>2. {sk', pk'} \subseteq Keys \cup {None}
    BY <1>2, <1>3, <1>5 DEF TypeOK
  <2> QED
    BY <1>1, <1>2, <1>3, <2>1, <2>2 DEF TypeOK
<1>7. rng'.mode = "out" /\ rng'.taken \in Nat /\ rng'.taken >= rng.taken
  BY <1>2, <1>4
<1>8. StreamInv'
  BY <1>2, <1>3, <1>4, <1>7, StreamKept
<1> QED
  BY <1>2, <1>4, <1>6, <1>7, <1>8, QuietStep

(* What is made of a private key has the same number.                      *)
LEMMA MakePublicStep ==
  ASSUME ApiAssumption, ApiInv, NEW r \in {-1, 0}, falcon_make_public(r, TRUE)
  PROVE  ApiInv'
<1> DEFINE small == r < 0 \/ ~TRUE
           err   == FirstError(PrivateHeader(sk) \o <<<<small, ERR_SIZE>>>> \o PrivateParts(sk, {"f", "g"}))
<1>1. small \in BOOLEAN
  OBVIOUS
<1>2. /\ call = None /\ sk # None /\ ret' = <<"make_public", err>>
      /\ pk' = IF err = 0 THEN PublicKey(sk.logn, sk.key) ELSE pk
      /\ UNCHANGED <<rng, hash_data, nonce, purpose, sk, ek, sig, sig_len, call, signed, attempts>>
  BY Zenon DEF falcon_make_public
<1> HIDE DEF small
<1>3. err \in -5 .. 0 /\ (err = 0 => LognRight(sk.logn))
  BY <1>1, DecodingChecks
<1> HIDE DEF err
<1>4. TypeOK /\ StreamInv /\ sk \in Keys
  BY <1>2 DEF ApiInv, TypeOK
<1>5. sk.key \in Nonces
  BY <1>4 DEF Keys
<1>6. err = 0 => PublicKey(sk.logn, sk.key) \in Keys
  BY <1>3, <1>5, Facts, KeyFacts
<1>7. TypeOK'
  BY <1>2, <1>3, <1>4, <1>6 DEF TypeOK
<1>8. rng.taken \in Nat
  BY <1>4 DEF TypeOK
<1>9. StreamInv'
  BY <1>2, <1>4, <1>8, StreamKept
<1> QED
  BY <1>2, <1>7, <1>8, <1>9, QuietStep

LEMMA ExpandStep ==
  ASSUME ApiAssumption, ApiInv, NEW enough \in BOOLEAN, falcon_expand_privkey(3, 0, enough)
  PROVE  ApiInv'
<1> DEFINE small == 0 < 0 \/ ~enough
           err   == FirstError(PrivateHeader(sk) \o <<<<small, ERR_SIZE>>>>
                               \o PrivateParts(sk, {"f", "g", "F", "G"}))
<1>1. small \in BOOLEAN
  OBVIOUS
<1>2. /\ call = None /\ sk # None /\ ret' = <<"expand", err>>
      /\ ek' = IF err # 0 THEN ek
               ELSE [logn |-> sk.logn, at |-> 3, numbers |-> Aligned(3 + 1, 8) - 3, key |-> sk.key]
      /\ UNCHANGED <<rng, hash_data, nonce, purpose, sk, pk, sig, sig_len, call, signed, attempts>>
  BY Zenon DEF falcon_expand_privkey
<1> HIDE DEF small
<1>3. err \in -5 .. 0 /\ (err = 0 => LognRight(sk.logn))
  BY <1>1, DecodingChecks
<1> HIDE DEF err
<1>4. TypeOK /\ StreamInv /\ sk \in Keys
  BY <1>2 DEF ApiInv, TypeOK
<1>5. sk.key \in Nonces /\ Aligned(3 + 1, 8) - 3 \in Nat
  BY <1>4 DEF Keys, Aligned
<1>6. ek' \in Expanded \cup {None}
  BY <1>2, <1>3, <1>4, <1>5 DEF TypeOK, Expanded, LognRight
<1>7. TypeOK'
  BY <1>2, <1>3, <1>4, <1>6 DEF TypeOK
<1>8. rng.taken \in Nat
  BY <1>4 DEF TypeOK
<1>9. StreamInv'
  BY <1>2, <1>4, <1>8, StreamKept
<1> QED
  BY <1>2, <1>7, <1>8, <1>9, QuietStep

(* A nonce is drawn, and is the first that goes into the new context.      *)
LEMMA NonceDrawn ==
  ASSUME ApiInv, call = None, rng.mode = "out",
         nonce' = Extracted(rng), rng' = AfterExtract(rng), signed' = signed
  PROVE  /\ Extracted(rng) \in Nonces /\ Extracted(rng) \in Pieces
         /\ rng.taken \in Nat /\ rng'.taken = rng.taken + 1 /\ rng'.mode = "out"
         /\ rng' \in [mode : {"out"}, data : {<<"system">>}, taken : Nat]
         /\ Unused'
         /\ \A m \in signed : m.nonce[2] < rng'.taken
<1>1. TypeOK /\ NoncesTaken
  BY DEF ApiInv
<1>2. /\ Extracted(rng) \in Nonces
      /\ \A m \in signed : m.nonce # Extracted(rng)
      /\ rng.taken \in Nat
      /\ rng' = [mode |-> "out", data |-> <<"system">>, taken |-> rng.taken + 1]
  BY <1>1, Drawn
<1>3. \A m \in signed : m.nonce[2] \in Nat /\ m.nonce[2] < rng.taken
  BY <1>1 DEF TypeOK, Signed, Nonces, NoncesTaken
<1>4. Unused'
  <2>1. nonce'[2] = rng.taken
    BY DEF Extracted
  <2>2. nonce'[2] < rng'.taken
    BY <1>2, <2>1
  <2> QED
    BY <1>2, <2>2 DEF Unused
<1> QED
  BY <1>2, <1>3, <1>4 DEF Pieces

LEMMA SignStartStep ==
  ASSUME ApiAssumption, ApiInv, falcon_sign_start
  PROVE  ApiInv'
<1>1. /\ call = None /\ rng.mode = "out" /\ nonce' = Extracted(rng) /\ rng' = AfterExtract(rng)
      /\ hash_data' = shake256_inject(shake256_init, Extracted(rng))
      /\ purpose' = "sign" /\ ret' = <<"sign_start", 0>>
      /\ UNCHANGED <<sk, pk, ek, sig, sig_len, call, signed, attempts>>
  BY DEF falcon_sign_start
<1>2. /\ Extracted(rng) \in Nonces /\ Extracted(rng) \in Pieces
      /\ rng.taken \in Nat /\ rng'.taken = rng.taken + 1 /\ rng'.mode = "out"
      /\ rng' \in [mode : {"out"}, data : {<<"system">>}, taken : Nat] /\ Unused'
  BY <1>1, NonceDrawn
<1>3. hash_data' \in Contexts /\ hash_data' = [mode |-> "in", data |-> <<nonce'>>, taken |-> 0]
  BY <1>1, <1>2, FirstInjected
<1>4. TypeOK'
  BY <1>1, <1>2, <1>3 DEF ApiInv, TypeOK
<1>5. StreamInv'
  BY <1>2, <1>3 DEF StreamInv, Begun
<1> QED
  BY <1>1, <1>2, <1>4, <1>5, QuietStep

LEMMA VerifyStartStep ==
  ASSUME ApiAssumption, ApiInv, falcon_verify_start
  PROVE  ApiInv'
<1>1. /\ call = None /\ sig # None
      /\ ret' = <<"verify_start", IF sig_len < 41 THEN ERR_FORMAT ELSE 0>>
      /\ hash_data' = (IF sig_len < 41 THEN hash_data ELSE shake256_inject(shake256_init, sig.nonce))
      /\ purpose' = (IF sig_len < 41 THEN purpose ELSE "verify")
      /\ UNCHANGED <<rng, nonce, sk, pk, ek, sig, sig_len, call, signed, attempts>>
  BY DEF falcon_verify_start
<1>2. TypeOK /\ StreamInv /\ sig \in Sigs
  BY <1>1 DEF ApiInv, TypeOK
<1>3. sig.nonce \in Pieces
  BY <1>2 DEF Sigs, Pieces
<1>4. shake256_inject(shake256_init, sig.nonce) \in Contexts
  BY <1>3, FirstInjected
<1>5. ret'[1] = "verify_start" /\ ret'[2] \in -5 .. 0
  BY <1>1 DEF ERR_FORMAT
<1>6. TypeOK'
  BY <1>1, <1>2, <1>4, <1>5 DEF TypeOK
<1>7. rng.taken \in Nat
  BY <1>2 DEF TypeOK
<1>8. StreamInv'
  <2>1. CASE sig_len < 41
    BY <1>1, <1>2, <1>7, <2>1, StreamKept
  <2>2. CASE ~(sig_len < 41)
    BY <1>1, <2>2 DEF StreamInv
  <2> QED
    BY <2>1, <2>2
<1> QED
  BY <1>1, <1>5, <1>6, <1>7, <1>8, QuietStep

(* Neither moving an expanded key nor more data makes a signature or       *)
(* changes one; what was accepted or made stays so.                        *)
LEMMA MoveStep ==
  ASSUME ApiAssumption, ApiInv, MoveExpanded
  PROVE  ApiInv'
<1>1. /\ call = None /\ ek # None /\ ek' = [ek EXCEPT !.at = @ + 8]
      /\ UNCHANGED <<rng, hash_data, nonce, purpose, sk, pk, sig, sig_len, call, ret, signed, attempts>>
  BY DEF MoveExpanded
<1>2. TypeOK'
  <2>1. ek \in Expanded
    BY <1>1 DEF ApiInv, TypeOK
  <2>2. ek' \in Expanded
    BY <1>1, <2>1 DEF Expanded
  <2> QED
    BY <1>1, <2>2 DEF ApiInv, TypeOK
<1>3. /\ RoomForSignature' /\ NoncesTaken' /\ StreamInv' /\ CallInv' /\ PointsSigned' /\ HashTaken'
      /\ SignatureThere'
  BY <1>1 DEF ApiInv, RoomForSignature, NoncesTaken, StreamInv, CallInv, PointsSigned, HashTaken,
              SignatureThere, Unused, Begun
<1>4. OnlySignedAccepted' /\ SignedAccepted' /\ NoncesDiffer'
  BY <1>1 DEF ApiInv, OnlySignedAccepted, SignedAccepted, NoncesDiffer, Data
<1> QED
  BY <1>2, <1>3, <1>4 DEF ApiInv

LEMMA InjectStep ==
  ASSUME ApiAssumption, ApiInv, NEW chunk \in Chunks, InjectData(chunk)
  PROVE  ApiInv'
<1>1. /\ call = None /\ hash_data # None /\ hash_data.mode = "in"
      /\ hash_data' = shake256_inject(hash_data, chunk)
      /\ UNCHANGED <<rng, nonce, purpose, sk, pk, ek, sig, sig_len, call, ret, signed, attempts>>
  BY DEF InjectData
<1>2. hash_data \in Contexts /\ chunk \in Pieces
  BY <1>1 DEF ApiInv, TypeOK, Pieces
<1>3. /\ hash_data' \in Contexts /\ hash_data'.mode = "in" /\ hash_data'.taken = hash_data.taken
      /\ hash_data'.data # <<>>
      /\ hash_data.data # <<>> => Head(hash_data'.data) = Head(hash_data.data)
  BY <1>1, <1>2, ContextFacts
<1>4. TypeOK'
  BY <1>1, <1>3 DEF ApiInv, TypeOK
<1>5. StreamInv'
  BY <1>1, <1>3 DEF ApiInv, StreamInv, Unused, Begun
<1>6. ~(ret[1] = "verify" /\ ret[2] = 0)
  BY <1>1 DEF ApiInv, HashTaken
<1>7. /\ RoomForSignature' /\ NoncesTaken' /\ CallInv' /\ PointsSigned' /\ HashTaken'
      /\ SignatureThere'
  BY <1>1, <1>6 DEF ApiInv, RoomForSignature, NoncesTaken, CallInv, PointsSigned, HashTaken,
                    SignatureThere
<1>8. OnlySignedAccepted' /\ SignedAccepted' /\ NoncesDiffer'
  BY <1>1, <1>6 DEF ApiInv, OnlySignedAccepted, SignedAccepted, NoncesDiffer
<1> QED
  BY <1>4, <1>5, <1>7, <1>8 DEF ApiInv

-----------------------------------------------------------------------------
(* What both signers have in common: from their checks they take the room  *)
(* for what they write, and the context they put aside begins with the     *)
(* nonce.                                                                  *)
LEMMA SigningStep ==
  ASSUME ApiAssumption, ApiInv,
         NEW hd \in Contexts, NEW checks, NEW type, NEW len \in Nat, NEW logn,
         NEW key \in Nonces \cup {None}, NEW function \in {"sign_dyn", "sign_tree"},
         Signing(hd, checks, type, len, logn, key, function),
         FirstError(checks) \in -5 .. 0,
         FirstError(checks) = 0 => type \in 1 .. 3 /\ logn \in 1 .. 10 /\ len >= Room(type, logn),
         call = None, purpose' = "sign", Unused',
         hd.taken = 0, hd.data # <<>>, Head(hd.data) = nonce',
         rng' \in [mode : {"out"}, data : {<<"system">>}, taken : Nat],
         \A m \in signed : m.nonce[2] < rng'.taken,
         UNCHANGED <<sk, pk, ek, sig, signed>>
  PROVE  ApiInv'
<1> DEFINE err == FirstError(checks)
           aside == shake256_flip(hd)
<1>1. /\ ret' = <<function, err>> /\ sig_len' = len /\ attempts' = 0
      /\ IF err # 0 THEN hash_data' = hd /\ UNCHANGED call
         ELSE /\ hash_data' = aside
              /\ call' = [type |-> type, logn |-> logn, key |-> key, sav_hash_data |-> aside]
  BY Zenon DEF Signing
<1> HIDE DEF err
<1>2. /\ aside \in Contexts
      /\ aside = [mode |-> "out", data |-> hd.data, taken |-> hd.taken]
  BY ContextFacts DEF Pieces
<1> HIDE DEF aside
<1>3. /\ err \in -5 .. 0
      /\ err = 0 => type \in 1 .. 3 /\ logn \in 1 .. 10 /\ len >= Room(type, logn)
  BY DEF err
<1>4. None \notin Calls /\ MaxAttempts \in Nat
  BY Facts
<1>5. err = 0 => call' \in Calls /\ call' # None
  BY <1>1, <1>2, <1>3, <1>4 DEF Calls
<1>6. rng'.mode = "out"
  OBVIOUS
<1>7. TypeOK'
  <2>1. hash_data' \in Contexts /\ call' \in Calls \cup {None}
    BY <1>1, <1>2, <1>5
  <2>2. nonce' \in Nonces
    BY DEF Unused
  <2> QED
    BY <1>1, <1>3, <1>4, <2>1, <2>2 DEF ApiInv, TypeOK
<1>8. RoomForSignature'
  BY <1>1, <1>2, <1>3, <1>6 DEF RoomForSignature
<1>9. NoncesTaken'
  BY DEF NoncesTaken
<1>10. StreamInv'
  BY <1>1, <1>2, <1>6 DEF StreamInv, Begun
<1>11. CallInv'
  <2>1. aside.taken = 0 /\ aside.data # <<>> /\ Head(aside.data) = nonce' /\ aside.mode = "out"
    BY <1>2
  <2> QED
    BY <1>1, <1>2, <2>1 DEF CallInv, Begun
<1>12. PointsSigned' /\ NoncesDiffer'
  BY DEF ApiInv, PointsSigned, NoncesDiffer
<1>13. HashTaken' /\ OnlySignedAccepted'
  BY <1>1 DEF HashTaken, OnlySignedAccepted
<1>14. SignedAccepted' /\ SignatureThere'
  BY <1>1, <1>5 DEF SignedAccepted, SignatureThere
<1> QED
  BY <1>7, <1>8, <1>9, <1>10, <1>11, <1>12, <1>13, <1>14 DEF ApiInv

(* A message that was streamed: its context begins with the nonce.         *)
LEMMA Streamed ==
  ASSUME ApiInv, Streaming, UNCHANGED <<rng, nonce, purpose, signed>>
  PROVE  /\ call = None /\ purpose' = "sign" /\ Unused'
         /\ hash_data \in Contexts /\ hash_data.taken = 0 /\ hash_data.data # <<>>
         /\ Head(hash_data.data) = nonce'
         /\ rng' \in [mode : {"out"}, data : {<<"system">>}, taken : Nat]
         /\ \A m \in signed : m.nonce[2] < rng'.taken
<1>1. /\ call = None /\ purpose = "sign" /\ hash_data.mode = "in"
      /\ TypeOK /\ NoncesTaken /\ StreamInv
  BY DEF Streaming, ApiInv
<1>2. rng.mode = "out" /\ Unused /\ Begun(hash_data)
  BY <1>1 DEF StreamInv
<1> QED
  BY <1>1, <1>2 DEF Begun, Unused, TypeOK, NoncesTaken

(* One that is given in one call: the context is made for it.              *)
LEMMA StartedFacts ==
  ASSUME ApiInv, Started, signed' = signed, NEW chunk \in Chunks
  PROVE  /\ call = None /\ purpose' = "sign" /\ Unused'
         /\ StartedHash(chunk) \in Contexts /\ StartedHash(chunk).taken = 0
         /\ StartedHash(chunk).data # <<>> /\ Head(StartedHash(chunk).data) = nonce'
         /\ rng' \in [mode : {"out"}, data : {<<"system">>}, taken : Nat]
         /\ \A m \in signed : m.nonce[2] < rng'.taken
<1>1. /\ call = None /\ rng.mode = "out" /\ nonce' = Extracted(rng)
      /\ rng' = AfterExtract(rng) /\ purpose' = "sign"
  BY DEF Started
<1>2. /\ Extracted(rng) \in Pieces /\ Unused'
      /\ rng' \in [mode : {"out"}, data : {<<"system">>}, taken : Nat]
      /\ \A m \in signed : m.nonce[2] < rng'.taken
  BY <1>1, NonceDrawn
<1> DEFINE first == shake256_inject(shake256_init, Extracted(rng))
<1>3. first \in Contexts /\ first = [mode |-> "in", data |-> <<Extracted(rng)>>, taken |-> 0]
  BY <1>2, FirstInjected
<1>4. first.taken = 0 /\ first.data # <<>> /\ Head(first.data) = nonce'
  BY <1>1, <1>3
<1>5. StartedHash(chunk) = shake256_inject(first, chunk)
  BY DEF StartedHash
<1> HIDE DEF first
<1>6. chunk \in Pieces
  BY DEF Pieces
<1>8. /\ shake256_inject(first, chunk) \in Contexts
      /\ shake256_inject(first, chunk).taken = first.taken
      /\ shake256_inject(first, chunk).data # <<>>
      /\ first.data # <<>> => Head(shake256_inject(first, chunk).data) = Head(first.data)
  BY <1>3, <1>6, ContextFacts
<1>7. /\ StartedHash(chunk) \in Contexts /\ StartedHash(chunk).taken = 0
      /\ StartedHash(chunk).data # <<>> /\ Head(StartedHash(chunk).data) = nonce'
  BY <1>4, <1>5, <1>8
<1> QED
  BY <1>1, <1>2, <1>7

(* The lengths of signatures a caller gives.                               *)
LEMMA LengthsNat ==
  ASSUME Powers, NEW k  PROVE LengthsFor(k) \subseteq Nat
<1>1. CASE k # None /\ LognRight(k.logn)
  <2>1. k.logn \in 1 .. 10
    BY <1>1 DEF LognRight
  <2>2. /\ FALCON_SIG_PADDED_SIZE(k.logn) \in Nat /\ FALCON_SIG_PADDED_SIZE(k.logn) >= 44
        /\ FALCON_SIG_CT_SIZE(k.logn) \in Nat
    BY <2>1, SizeFacts
  <2> QED
    BY <1>1, <2>2 DEF LengthsFor, Lengths
<1>2. CASE ~(k # None /\ LognRight(k.logn))
  BY <1>2 DEF LengthsFor
<1> QED
  BY <1>1, <1>2

(* The key an expanded one was made of, if its numbers are found.          *)
LEMMA ExpandedKeyIs ==
  ASSUME ApiInv, ek # None  PROVE ExpandedKey \in Nonces \cup {None}
BY DEF ApiInv, TypeOK, Expanded, ExpandedKey

LEMMA DynFinishStep ==
  ASSUME ApiAssumption, ApiInv, NEW type \in Types, NEW len \in LengthsFor(sk),
         falcon_sign_dyn_finish(type, len, TRUE)
  PROVE  ApiInv'
<1> DEFINE checks == PrivateHeader(sk) \o Space(type, sk.logn, len, TRUE)
                       \o PrivateParts(sk, {"f", "g", "F", "G"})
<1>1. /\ Streaming /\ sk # None /\ Signing(hash_data, checks, type, len, sk.logn, sk.key, "sign_dyn")
      /\ UNCHANGED <<rng, nonce, purpose, sk, pk, ek, sig, signed, keys, signs, spoils>>
  BY DEF falcon_sign_dyn_finish
<1>2. Powers /\ len \in Nat
  BY Facts, LengthsNat
<1>3. /\ FirstError(checks) \in -5 .. 0
      /\ FirstError(checks) = 0
           => type \in 1 .. 3 /\ sk.logn \in 1 .. 10 /\ len >= Room(type, sk.logn)
  BY <1>2, DynChecks
<1> HIDE DEF checks
<1>4. sk.key \in Nonces \cup {None}
  BY <1>1 DEF ApiInv, TypeOK, Keys
<1>5. /\ call = None /\ purpose' = "sign" /\ Unused'
      /\ hash_data \in Contexts /\ hash_data.taken = 0 /\ hash_data.data # <<>>
      /\ Head(hash_data.data) = nonce'
      /\ rng' \in [mode : {"out"}, data : {<<"system">>}, taken : Nat]
      /\ \A m \in signed : m.nonce[2] < rng'.taken
  BY <1>1, Streamed
<1> QED
  BY <1>1, <1>2, <1>3, <1>4, <1>5, SigningStep

LEMMA TreeFinishStep ==
  ASSUME ApiAssumption, ApiInv, NEW type \in Types, NEW len \in LengthsFor(ek),
         falcon_sign_tree_finish(type, len, TRUE)
  PROVE  ApiInv'
<1> DEFINE checks == <<<<~LognRight(ek.logn), ERR_FORMAT>>>> \o Space(type, ek.logn, len, TRUE)
<1>1. /\ Streaming /\ ek # None /\ Signing(hash_data, checks, type, len, ek.logn, ExpandedKey, "sign_tree")
      /\ UNCHANGED <<rng, nonce, purpose, sk, pk, ek, sig, signed, keys, signs, spoils>>
  BY Zenon DEF falcon_sign_tree_finish
<1>2. Powers /\ len \in Nat
  BY Facts, LengthsNat
<1>3. /\ FirstError(checks) \in -5 .. 0
      /\ FirstError(checks) = 0
           => type \in 1 .. 3 /\ ek.logn \in 1 .. 10 /\ len >= Room(type, ek.logn)
  BY <1>2, TreeChecks
<1> HIDE DEF checks
<1>4. ExpandedKey \in Nonces \cup {None}
  BY <1>1, ExpandedKeyIs
<1>5. /\ call = None /\ purpose' = "sign" /\ Unused'
      /\ hash_data \in Contexts /\ hash_data.taken = 0 /\ hash_data.data # <<>>
      /\ Head(hash_data.data) = nonce'
      /\ rng' \in [mode : {"out"}, data : {<<"system">>}, taken : Nat]
      /\ \A m \in signed : m.nonce[2] < rng'.taken
  BY <1>1, Streamed
<1> QED
  BY <1>1, <1>2, <1>3, <1>4, <1>5, SigningStep

LEMMA DynStep ==
  ASSUME ApiAssumption, ApiInv, NEW chunk \in Chunks, NEW type \in Types,
         NEW len \in LengthsFor(sk), falcon_sign_dyn(chunk, type, len, TRUE)
  PROVE  ApiInv'
<1> DEFINE checks == PrivateHeader(sk) \o Space(type, sk.logn, len, TRUE)
                       \o PrivateParts(sk, {"f", "g", "F", "G"})
<1>1. /\ Started /\ sk # None
      /\ Signing(StartedHash(chunk), checks, type, len, sk.logn, sk.key, "sign_dyn")
      /\ UNCHANGED <<sk, pk, ek, sig, signed, keys, spoils>>
  BY DEF falcon_sign_dyn
<1>2. Powers /\ len \in Nat
  BY Facts, LengthsNat
<1>3. /\ FirstError(checks) \in -5 .. 0
      /\ FirstError(checks) = 0
           => type \in 1 .. 3 /\ sk.logn \in 1 .. 10 /\ len >= Room(type, sk.logn)
  BY <1>2, DynChecks
<1> HIDE DEF checks
<1>4. sk.key \in Nonces \cup {None}
  BY <1>1 DEF ApiInv, TypeOK, Keys
<1>5. /\ call = None /\ purpose' = "sign" /\ Unused'
      /\ StartedHash(chunk) \in Contexts /\ StartedHash(chunk).taken = 0
      /\ StartedHash(chunk).data # <<>> /\ Head(StartedHash(chunk).data) = nonce'
      /\ rng' \in [mode : {"out"}, data : {<<"system">>}, taken : Nat]
      /\ \A m \in signed : m.nonce[2] < rng'.taken
  BY <1>1, StartedFacts
<1> QED
  BY <1>1, <1>2, <1>3, <1>4, <1>5, SigningStep

LEMMA TreeStep ==
  ASSUME ApiAssumption, ApiInv, NEW chunk \in Chunks, NEW type \in Types,
         NEW len \in LengthsFor(ek), falcon_sign_tree(chunk, type, len, TRUE)
  PROVE  ApiInv'
<1> DEFINE checks == <<<<~LognRight(ek.logn), ERR_FORMAT>>>> \o Space(type, ek.logn, len, TRUE)
<1>1. /\ Started /\ ek # None
      /\ Signing(StartedHash(chunk), checks, type, len, ek.logn, ExpandedKey, "sign_tree")
      /\ UNCHANGED <<sk, pk, ek, sig, signed, keys, spoils>>
  BY Zenon DEF falcon_sign_tree
<1>2. Powers /\ len \in Nat
  BY Facts, LengthsNat
<1>3. /\ FirstError(checks) \in -5 .. 0
      /\ FirstError(checks) = 0
           => type \in 1 .. 3 /\ ek.logn \in 1 .. 10 /\ len >= Room(type, ek.logn)
  BY <1>2, TreeChecks
<1> HIDE DEF checks
<1>4. ExpandedKey \in Nonces \cup {None}
  BY <1>1, ExpandedKeyIs
<1>5. /\ call = None /\ purpose' = "sign" /\ Unused'
      /\ StartedHash(chunk) \in Contexts /\ StartedHash(chunk).taken = 0
      /\ StartedHash(chunk).data # <<>> /\ Head(StartedHash(chunk).data) = nonce'
      /\ rng' \in [mode : {"out"}, data : {<<"system">>}, taken : Nat]
      /\ \A m \in signed : m.nonce[2] < rng'.taken
  BY <1>1, StartedFacts
<1> QED
  BY <1>1, <1>2, <1>3, <1>4, <1>5, SigningStep

-----------------------------------------------------------------------------
(* A nonce followed by data.                                               *)
LEMMA HeadFirst ==
  ASSUME NEW S, NEW s \in Seq(S), s # <<>>
  PROVE  Head(s) \in S /\ Tail(s) \in Seq(S) /\ s = <<Head(s)>> \o Tail(s)
<1>1. /\ Head(s) \in S /\ Tail(s) \in Seq(S) /\ Len(Tail(s)) = Len(s) - 1
      /\ \A i \in 1 .. Len(Tail(s)) : Tail(s)[i] = s[i + 1]
      /\ Head(s) = s[1] /\ Len(s) \in Nat
  BY HeadTailProperties
<1> DEFINE t == <<Head(s)>> \o Tail(s)
<1>2. /\ t \in Seq(S) /\ Len(t) = 1 + Len(Tail(s))
      /\ \A i \in 1 .. 1 + Len(Tail(s)) : t[i] = IF i <= 1 THEN <<Head(s)>>[i] ELSE Tail(s)[i - 1]
  BY <1>1, ConcatProperties
<1> HIDE DEF t
<1>3. ASSUME NEW i \in 1 .. Len(s) PROVE t[i] = s[i]
  <2>1. CASE i = 1
    BY <1>1, <1>2, <2>1
  <2>2. CASE i # 1
    <3>1. i - 1 \in 1 .. Len(Tail(s)) /\ (i - 1) + 1 = i
      BY <1>1, <2>2
    <3> QED
      BY <1>1, <1>2, <2>2, <3>1
  <2> QED
    BY <2>1, <2>2
<1>4. t = s
  BY <1>1, <1>2, <1>3, SeqEqual
<1> QED
  BY <1>1, <1>4 DEF t

LEMMA HeadOfJoined ==
  ASSUME NEW S, NEW x \in S, NEW data \in Seq(S)
  PROVE  /\ <<x>> \o data \in Seq(S)
         /\ Head(<<x>> \o data) = x /\ Tail(<<x>> \o data) = data
<1> DEFINE t == <<x>> \o data
<1>1. /\ t \in Seq(S) /\ Len(t) = 1 + Len(data) /\ Len(data) \in Nat
      /\ \A i \in 1 .. 1 + Len(data) : t[i] = IF i <= 1 THEN <<x>>[i] ELSE data[i - 1]
  BY ConcatProperties
<1> HIDE DEF t
<1>2. t # <<>> /\ t[1] = x
  BY <1>1
<1>3. /\ Tail(t) \in Seq(S) /\ Len(Tail(t)) = Len(data) /\ Head(t) = t[1]
      /\ \A i \in 1 .. Len(Tail(t)) : Tail(t)[i] = t[i + 1]
  BY <1>1, <1>2, HeadTailProperties
<1>4. ASSUME NEW i \in 1 .. Len(data) PROVE Tail(t)[i] = data[i]
  <2>1. /\ i + 1 \in 1 .. 1 + Len(data) /\ ~(i + 1 <= 1) /\ (i + 1) - 1 = i
    BY <1>1
  <2> QED
    BY <1>1, <1>3, <2>1
<1>5. Tail(t) = data
  BY <1>3, <1>4, SeqEqual
<1> QED
  BY <1>1, <1>2, <1>3, <1>5 DEF t

(* The codes of a vector the encoders write, and the bytes they leave.     *)
LEMMA CodeFacts ==
  ASSUME Powers, NEW logn \in 1 .. 10, NEW clen \in CodeLengths(logn)
  PROVE  /\ clen \in Nat /\ clen > 0
         /\ CtBytes(logn) \in Nat /\ CtBytes(logn) > 0 /\ CtBytes(logn) + 41 = FALCON_SIG_CT_SIZE(logn)
<1>1. /\ FALCON_SIG_PADDED_SIZE(logn) \in Nat /\ FALCON_SIG_PADDED_SIZE(logn) >= 44
      /\ FALCON_SIG_CT_SIZE(logn) \in Nat /\ FALCON_SIG_CT_SIZE(logn) > 41
      /\ FALCON_SIG_COMPRESSED_MAXSIZE(logn) \in Nat /\ FALCON_SIG_COMPRESSED_MAXSIZE(logn) > 41
  BY SizeFacts
<1>2. CtBytes(logn) = FALCON_SIG_CT_SIZE(logn) - 41
  BY DEF CtBytes
<1>3. clen \in {FALCON_SIG_PADDED_SIZE(logn) - 42, FALCON_SIG_PADDED_SIZE(logn) - 41,
                FALCON_SIG_COMPRESSED_MAXSIZE(logn) - 41}
  BY DEF CodeLengths
<1> QED
  BY <1>1, <1>2, <1>3

(* A signature with a code that fits is accepted, with the length it is    *)
(* given, with its type and without one.                                   *)
Fresh(s, len, key, t, data) ==
  /\ t \in 1 .. 3 /\ len \in Nat /\ s.logn \in 1 .. 10
  /\ s.hi = IF t = CT THEN 5 ELSE 3
  /\ s.format = IF t = CT THEN "ct" ELSE "comp"
  /\ s.used \in Nat /\ s.used > 0 /\ (s.zeros <=> t = PADDED)
  /\ t = COMPRESSED => len = 41 + s.used
  /\ t = PADDED => len = FALCON_SIG_PADDED_SIZE(s.logn) /\ 41 + s.used <= len
  /\ t = CT => len = FALCON_SIG_CT_SIZE(s.logn) /\ 41 + s.used = len
  /\ s.vec.key = key /\ s.vec.point = <<<<s.nonce>> \o data, 0>>

LEMMA FreshAccepted ==
  ASSUME Powers, NEW s, NEW len, NEW key, NEW t, NEW data,
         Fresh(s, len, key, t, data), NEW type \in {0, t}
  PROVE  falcon_verify(s, len, type, PublicKey(s.logn, key), data, TRUE) = 0
<1> USE DEF Fresh
<1> DEFINE p == PublicKey(s.logn, key)
<1>1. /\ p.hi = 0 /\ p.logn = s.logn /\ p.len = FALCON_PUBKEY_SIZE(s.logn)
      /\ p.bad = None /\ p.key = key
  BY DEF PublicKey
<1> HIDE DEF p
<1>2. t = COMPRESSED \/ t = PADDED \/ t = CT
  BY DEF COMPRESSED, PADDED, CT
<1>3. FALCON_PUBKEY_SIZE(s.logn) \in Nat /\ FALCON_PUBKEY_SIZE(s.logn) > 0
  BY SizeFacts
<1>4. len >= 41 /\ len - 41 >= s.used
  BY <1>2
<1>5. FirstError(HeaderChecks(s, len, p)) = 0
  <2>1. len >= 41 /\ p.len # 0 /\ p.hi = 0 /\ LognRight(p.logn) /\ s.logn = p.logn
    BY <1>1, <1>3, <1>4 DEF LognRight
  <2> QED
    BY <2>1, HeaderTable
<1>6. FirstError(FormatChecks(s, len, type, p, TRUE)) = 0
  <2>1. /\ type = 0 /\ s.hi = 5 => len = FALCON_SIG_CT_SIZE(p.logn)
        /\ s.hi \in {3, 5}
        /\ type \in {COMPRESSED, PADDED} => s.hi = 3
        /\ type = PADDED => len = FALCON_SIG_PADDED_SIZE(p.logn)
        /\ type = CT => s.hi = 5 /\ len = FALCON_SIG_CT_SIZE(p.logn)
        /\ type \in 0 .. 3
        /\ p.len = FALCON_PUBKEY_SIZE(p.logn)
    BY <1>1 DEF COMPRESSED, PADDED, CT
  <2>2. FormatFits(s, len, type, p)
    BY <2>1 DEF FormatFits
  <2> QED
    BY <2>2, FormatTable, Zenon
<1>7. FirstError(DecodeChecks(s, len, type, p)) = 0
  <2>1. Decoded(s, len) = s.used
    BY <1>4 DEF Decoded
  <2>2. 41 + s.used = len \/ (PaddingAllowed(type, len, s.logn) /\ s.zeros)
    BY <1>2 DEF PaddingAllowed
  <2> QED
    BY <1>1, <2>1, <2>2, DecodeTable
<1>8. RefusedUnread(s, len, type, p, TRUE) = 0
  BY <1>5, <1>6, <1>7, UnreadIs
<1> DEFINE hd == [shake256_init EXCEPT !.data = <<s.nonce>> \o data]
<1>9. Extracted(shake256_flip(hd)) = <<<<s.nonce>> \o data, 0>>
  <2>1. ASSUME NEW d PROVE Extracted(shake256_flip([shake256_init EXCEPT !.data = d])) = <<d, 0>>
    BY DEF shake256_flip, Extracted, shake256_init
  <2> QED
    BY <2>1
<1> HIDE DEF hd
<1>10. verify_raw(s, Extracted(shake256_flip(hd)), p)
  BY <1>1, <1>9 DEF verify_raw
<1>11. VerifyError(s, len, type, p, hd, TRUE) = 0
  BY <1>8, <1>10, VerifyIs
<1>12. ~(len < 41)
  BY <1>4
<1> QED
  BY <1>11, <1>12, Zenon DEF falcon_verify, hd, p

(* The signers' loop.  An attempt hashes the context put aside, which      *)
(* begins with the nonce, and so signs a point of nonce and data: its      *)
(* vector, and what is signed if that has a code.                          *)
VectorOf(clen, narrow) ==
  [key |-> call.key, point |-> Extracted(call.sav_hash_data), clen |-> clen, narrow |-> narrow]
MadeNow == [key |-> call.key, nonce |-> nonce, data |-> Tail(call.sav_hash_data.data), type |-> call.type]

LEMMA AttemptFacts ==
  ASSUME ApiAssumption, ApiInv, call # None,
         NEW clen \in CodeLengths(call.logn), NEW narrow \in BOOLEAN, NEW vec, NEW m,
         vec = VectorOf(clen, narrow), m = MadeNow
  PROVE  /\ call.type \in 1 .. 3 /\ call.logn \in 1 .. 10 /\ Powers
         /\ nonce \in Nonces /\ m \in Signed
         /\ vec \in Vectors /\ vec.key = m.key /\ vec.point = <<<<m.nonce>> \o m.data, 0>>
         /\ vec.clen = clen /\ clen \in Nat /\ clen > 0
         /\ AfterExtract(call.sav_hash_data) \in Contexts
         /\ AfterExtract(call.sav_hash_data).mode = "out"
<1> DEFINE from == call.sav_hash_data
<1>1. call \in Calls /\ CallInv
  BY DEF ApiInv, TypeOK
<1>2. /\ call.type \in 1 .. 3 /\ call.logn \in 1 .. 10 /\ call.key \in Nonces \cup {None}
      /\ from \in Contexts
  BY <1>1 DEF Calls
<1>3. /\ nonce \in Nonces /\ from.taken = 0 /\ from.data # <<>> /\ Head(from.data) = nonce
      /\ from.mode = "out"
  BY <1>1 DEF CallInv, Unused, Begun
<1>4. Powers
  BY Facts
<1>5. clen \in Nat /\ clen > 0
  BY <1>2, <1>4, CodeFacts
<1>6. /\ Tail(from.data) \in Seq(Pieces) /\ from.data = <<nonce>> \o Tail(from.data)
      /\ from.data \in Seq(Pieces)
  <2>1. from.data \in Seq(Pieces)
    BY <1>2 DEF Contexts
  <2> QED
    BY <1>3, <2>1, HeadFirst
<1>7. Extracted(from) = <<from.data, 0>> /\ Extracted(from) \in Points
  BY <1>3, <1>6 DEF Extracted, Points
<1>8. /\ AfterExtract(from) \in Contexts
      /\ AfterExtract(from).mode = "out"
  <2>1. /\ AfterExtract(from) \in Contexts
        /\ AfterExtract(from) = [mode |-> from.mode, data |-> from.data, taken |-> from.taken + 1]
    BY <1>2, ContextFacts DEF Pieces
  <2> QED
    BY <1>3, <2>1
<1> HIDE DEF from
<1>9. m \in Signed /\ m.nonce = nonce /\ m.data = Tail(from.data) /\ m.key = call.key
  BY <1>2, <1>3, <1>6 DEF Signed, MadeNow, from
<1>10. vec \in Vectors /\ vec.key = call.key /\ vec.point = Extracted(from) /\ vec.clen = clen
  BY <1>2, <1>5, <1>7 DEF Vectors, VectorOf, from
<1> QED
  BY <1>2, <1>3, <1>4, <1>5, <1>6, <1>7, <1>8, <1>9, <1>10 DEF from

(* The bytes it writes: a code of the right format if the vector has one.  *)
LEMMA BytesFacts ==
  ASSUME Powers, NEW type \in 1 .. 3, NEW logn \in 1 .. 10, NEW vec \in Vectors, vec.clen > 0,
         nonce \in Nonces
  PROVE  LET bytes == SignatureBytes(type, logn, vec) IN
         /\ bytes \in Sigs /\ bytes.nonce = nonce /\ bytes.logn = logn /\ bytes.vec = vec
         /\ bytes.format # None => Encodes(type, logn, vec)
         /\ Encodes(type, logn, vec) => bytes.format = (IF type = CT THEN "ct" ELSE "comp")
         /\ bytes.hi = (IF type = CT THEN 5 ELSE 3)
         /\ bytes.used = (IF type = CT THEN CtBytes(logn) ELSE vec.clen)
         /\ (bytes.zeros <=> type = PADDED)
<1> DEFINE bytes == SignatureBytes(type, logn, vec)
           h == IF type = CT THEN 5 ELSE 3
           f == IF ~Encodes(type, logn, vec) THEN None ELSE IF type = CT THEN "ct" ELSE "comp"
           u == IF type = CT THEN CtBytes(logn) ELSE vec.clen
           z == type = PADDED
<1>1. bytes = [hi |-> h, logn |-> logn, nonce |-> nonce, format |-> f, vec |-> vec, used |-> u, zeros |-> z]
  BY Zenon DEF SignatureBytes
<1>2. vec.clen \in Nat /\ CtBytes(logn) \in Nat /\ CtBytes(logn) > 0
  <2>1. CodeLengths(logn) # {}
    BY DEF CodeLengths
  <2> QED
    BY <2>1, CodeFacts DEF Vectors
<1>3. /\ h \in {3, 5, 7} /\ f \in {None, "ct", "comp"} /\ z \in BOOLEAN /\ (z <=> type = PADDED)
      /\ f # None => Encodes(type, logn, vec)
      /\ Encodes(type, logn, vec) => f = (IF type = CT THEN "ct" ELSE "comp")
  OBVIOUS
<1>4. u \in Nat \ {0}
  BY <1>2
<1>5. h = (IF type = CT THEN 5 ELSE 3) /\ u = (IF type = CT THEN CtBytes(logn) ELSE vec.clen)
  OBVIOUS
<1> HIDE DEF h, f, u, z, bytes
<1>6. /\ bytes \in Sigs
      /\ bytes.hi = h /\ bytes.logn = logn /\ bytes.nonce = nonce /\ bytes.format = f
      /\ bytes.vec = vec /\ bytes.used = u /\ (bytes.zeros <=> z)
  <2>1. bytes \in Sigs
    BY <1>1, <1>3, <1>4 DEF Sigs
  <2>2. bytes.hi = h /\ bytes.logn = logn /\ bytes.nonce = nonce /\ bytes.format = f
        /\ bytes.vec = vec /\ bytes.used = u /\ bytes.zeros = z
    BY <1>1
  <2> QED
    BY <2>1, <2>2
<1> QED
  BY <1>3, <1>5, <1>6 DEF bytes

LEMMA LengthFacts ==
  ASSUME Powers, NEW type \in 1 .. 3, NEW logn \in 1 .. 10, NEW vec \in Vectors, vec.clen > 0,
         Encodes(type, logn, vec)
  PROVE  LET len  == SignatureLength(type, logn, vec)
             used == IF type = CT THEN CtBytes(logn) ELSE vec.clen
         IN
         /\ len \in Nat /\ used \in Nat /\ used > 0
         /\ type = COMPRESSED => len = 41 + used
         /\ type = PADDED => len = FALCON_SIG_PADDED_SIZE(logn) /\ 41 + used <= len
         /\ type = CT => len = FALCON_SIG_CT_SIZE(logn) /\ 41 + used = len
<1>1. /\ FALCON_SIG_PADDED_SIZE(logn) \in Nat /\ FALCON_SIG_CT_SIZE(logn) \in Nat
      /\ FALCON_SIG_CT_SIZE(logn) > 41
  BY SizeFacts
<1>2. CtBytes(logn) = FALCON_SIG_CT_SIZE(logn) - 41 /\ vec.clen \in Nat
  BY DEF CtBytes, Vectors
<1>3. CASE type = COMPRESSED
  BY <1>2, <1>3 DEF SignatureLength, COMPRESSED, PADDED, CT
<1>4. CASE type = PADDED
  <2>1. vec.clen <= FALCON_SIG_PADDED_SIZE(logn) - 41
    BY <1>4 DEF Encodes, SignatureRoom, PADDED, CT
  <2> QED
    BY <1>1, <1>2, <1>4, <2>1 DEF SignatureLength, COMPRESSED, PADDED, CT
<1>5. CASE type = CT
  BY <1>1, <1>2, <1>5 DEF SignatureLength, COMPRESSED, PADDED, CT
<1> QED
  BY <1>3, <1>4, <1>5 DEF COMPRESSED, PADDED, CT

LEMMA AttemptStep ==
  ASSUME ApiAssumption, ApiInv, call # None,
         NEW clen \in CodeLengths(call.logn), NEW narrow \in BOOLEAN, Attempt(clen, narrow)
  PROVE  ApiInv' /\ LengthLeft
<1> DEFINE from == call.sav_hash_data
           vec  == VectorOf(clen, narrow)
           m0   == MadeNow
           fits == Encodes(call.type, call.logn, vec)
           err  == IF fits THEN 0 ELSE ERR_SIZE
<1>1. /\ attempts < MaxAttempts
      /\ hash_data' = AfterExtract(from)
      /\ rng' = AfterExtract(rng)
      /\ sig' = SignatureBytes(call.type, call.logn, vec)
      /\ UNCHANGED <<nonce, purpose, sk, pk, ek>>
      /\ \/ ~fits /\ UNCHANGED <<call, ret, sig_len, signed>> /\ attempts' = attempts + 1
         \/ /\ call' = None /\ ret' = <<ret[1], err>> /\ attempts' = 0
            /\ sig_len' = (IF err = 0 THEN SignatureLength(call.type, call.logn, vec) ELSE sig_len)
            /\ signed' = IF fits THEN signed \cup {m0} ELSE signed
  BY DEF Attempt, HashedFrom, Returned, LengthAfter, VectorOf, MadeNow
<1>2. /\ call.type \in 1 .. 3 /\ call.logn \in 1 .. 10 /\ Powers
      /\ nonce \in Nonces /\ m0 \in Signed
      /\ vec \in Vectors /\ vec.key = m0.key /\ vec.point = <<<<m0.nonce>> \o m0.data, 0>>
      /\ vec.clen = clen /\ clen \in Nat /\ clen > 0
      /\ AfterExtract(from) \in Contexts
      /\ AfterExtract(from).mode = "out"
  BY AttemptFacts
<1>3. m0.nonce = nonce /\ m0.key = call.key /\ m0.type = call.type
  BY DEF MadeNow
<1> HIDE DEF from, vec, m0
<1>4. vec.clen > 0
  BY <1>2
<1>5. /\ sig' \in Sigs /\ sig'.nonce = nonce /\ sig'.logn = call.logn /\ sig'.vec = vec
      /\ sig'.format # None => fits
      /\ fits => sig'.format = (IF call.type = CT THEN "ct" ELSE "comp")
      /\ sig'.hi = (IF call.type = CT THEN 5 ELSE 3)
      /\ sig'.used = (IF call.type = CT THEN CtBytes(call.logn) ELSE vec.clen)
      /\ (sig'.zeros <=> call.type = PADDED)
  <2> DEFINE bytes == SignatureBytes(call.type, call.logn, vec)
  <2>1. /\ bytes \in Sigs /\ bytes.nonce = nonce /\ bytes.logn = call.logn /\ bytes.vec = vec
        /\ bytes.format # None => fits
        /\ fits => bytes.format = (IF call.type = CT THEN "ct" ELSE "comp")
        /\ bytes.hi = (IF call.type = CT THEN 5 ELSE 3)
        /\ bytes.used = (IF call.type = CT THEN CtBytes(call.logn) ELSE vec.clen)
        /\ (bytes.zeros <=> call.type = PADDED)
    BY <1>2, <1>4, BytesFacts
  <2>2. sig' = bytes
    BY <1>1
  <2> HIDE DEF bytes
  <2> QED
    BY <2>1, <2>2
<1> DEFINE length == SignatureLength(call.type, call.logn, vec)
<1> HIDE DEF length
<1>6. fits => /\ length \in Nat /\ sig'.used \in Nat /\ sig'.used > 0
              /\ call.type = COMPRESSED => length = 41 + sig'.used
              /\ call.type = PADDED => length = FALCON_SIG_PADDED_SIZE(call.logn) /\ 41 + sig'.used <= length
              /\ call.type = CT => length = FALCON_SIG_CT_SIZE(call.logn) /\ 41 + sig'.used = length
  <2>1. vec \in Vectors /\ call.type \in 1 .. 3 /\ call.logn \in 1 .. 10 /\ Powers
    BY <1>2
  <2>2. sig'.used = (IF call.type = CT THEN CtBytes(call.logn) ELSE vec.clen)
    BY <1>5
  <2> SUFFICES ASSUME Encodes(call.type, call.logn, vec)
               PROVE  /\ length \in Nat /\ sig'.used \in Nat /\ sig'.used > 0
                      /\ call.type = COMPRESSED => length = 41 + sig'.used
                      /\ call.type = PADDED => length = FALCON_SIG_PADDED_SIZE(call.logn) /\ 41 + sig'.used <= length
                      /\ call.type = CT => length = FALCON_SIG_CT_SIZE(call.logn) /\ 41 + sig'.used = length
    OBVIOUS
  <2> QED
    BY <1>4, <2>1, <2>2, LengthFacts DEF length
<1>7. err \in -5 .. 0 /\ (fits <=> err = 0)
  BY DEF ERR_SIZE
<1> HIDE DEF length, err, fits
<1>8. /\ TypeOK /\ CallInv /\ RoomForSignature /\ NoncesTaken /\ NoncesDiffer /\ PointsSigned
      /\ rng.mode = "out" /\ Unused
      /\ ret[1] \in {"sign_dyn", "sign_tree"} /\ ret[2] = 0
  BY DEF ApiInv, RoomForSignature, CallInv
<1>9. /\ rng.taken \in Nat
      /\ rng' = [mode |-> "out", data |-> <<"system">>, taken |-> rng.taken + 1]
      /\ nonce[2] \in Nat /\ nonce[2] < rng.taken
      /\ \A m \in signed : m.nonce # nonce /\ m.nonce[2] \in Nat /\ m.nonce[2] < rng.taken
  <2>1. \A m \in signed : m.nonce \in Nonces
    BY <1>8 DEF TypeOK, Signed
  <2>2. /\ rng.taken \in Nat
        /\ AfterExtract(rng) = [mode |-> "out", data |-> <<"system">>, taken |-> rng.taken + 1]
    BY <1>8, Drawn
  <2> QED
    BY <1>1, <1>8, <2>1, <2>2 DEF Unused, NoncesTaken, Nonces
<1>10. signed' \subseteq signed \cup {m0} /\ signed \subseteq signed'
  BY <1>1
<1>11. MaxAttempts \in Nat /\ None \notin Calls
  BY Facts
<1>12. rng'.mode = "out" /\ rng'.taken = rng.taken + 1
       /\ rng' \in [mode : {"out"}, data : {<<"system">>}, taken : Nat]
  BY <1>9
<1>13. TypeOK'
  <2>1. sig_len' \in Nat /\ attempts' \in 0 .. MaxAttempts /\ call' \in Calls \cup {None} /\ ret'[2] \in -5 .. 0
    <3>1. sig_len \in Nat /\ attempts \in 0 .. MaxAttempts /\ call \in Calls
      BY <1>8 DEF TypeOK
    <3>2. err = 0 => length \in Nat
      BY <1>6, <1>7
    <3> QED
      BY <1>1, <1>7, <1>8, <1>11, <3>1, <3>2 DEF length
  <2>2. signed' \subseteq Signed
    BY <1>2, <1>8, <1>10 DEF TypeOK
  <2> QED
    BY <1>1, <1>2, <1>5, <1>8, <1>12, <2>1, <2>2 DEF TypeOK
<1>14. RoomForSignature'
  <2>1. hash_data'.mode = "out"
    BY <1>1, <1>2
  <2> QED
    BY <1>1, <1>8, <1>12, <2>1 DEF RoomForSignature
<1>15. NoncesTaken'
  <2>1. ASSUME NEW m \in signed' PROVE m.nonce[2] < rng'.taken
    <3>1. m \in signed \/ m = m0
      BY <1>10
    <3>2. m.nonce[2] \in Nat /\ m.nonce[2] < rng.taken
      BY <1>3, <1>9, <3>1
    <3> QED
      BY <1>9, <1>12, <3>2
  <2> QED
    BY <2>1 DEF NoncesTaken
<1>16. StreamInv'
  <2>1. hash_data'.mode = "out"
    BY <1>1, <1>2
  <2> QED
    BY <2>1 DEF StreamInv
<1>17. CallInv'
  <2>1. CASE call' = None
    BY <2>1 DEF CallInv
  <2>2. CASE call' # None
    <3>1. UNCHANGED <<call, ret, signed, nonce>>
      BY <1>1, <2>2
    <3>2. nonce[2] < rng'.taken
      BY <1>9, <1>12
    <3> QED
      BY <1>8, <3>1, <3>2 DEF CallInv, Unused, Begun
  <2> QED
    BY <2>1, <2>2
<1>18. fits => m0 \in signed'
  <2>1. CASE ~fits
    BY <2>1
  <2>2. CASE fits /\ signed' = IF fits THEN signed \cup {m0} ELSE signed
    BY <2>2
  <2> QED
    BY <1>1, <2>1, <2>2
<1>19. PointsSigned'
  BY <1>2, <1>5, <1>18 DEF PointsSigned
<1>20. HashTaken' /\ OnlySignedAccepted'
  <2>1. ret'[1] # "verify"
    BY <1>1, <1>8
  <2> QED
    BY <2>1 DEF HashTaken, OnlySignedAccepted
<1>21. NoncesDiffer'
  <2>1. ASSUME NEW a \in signed', NEW b \in signed', a.nonce = b.nonce PROVE a = b
    <3>1. (a \in signed \/ a = m0) /\ (b \in signed \/ b = m0)
      BY <1>10
    <3> QED
      BY <1>3, <1>8, <1>9, <2>1, <3>1 DEF NoncesDiffer
  <2> QED
    BY <2>1 DEF NoncesDiffer
<1>22. SignedAccepted'
  <2>1. CASE fits
    <3>1. sig_len' = length
      BY <1>1, <1>7, <2>1 DEF length
    <3>2. Fresh(sig', sig_len', m0.key, m0.type, m0.data)
      <4>1. sig'.vec.key = m0.key /\ sig'.vec.point = <<<<sig'.nonce>> \o m0.data, 0>>
        BY <1>2, <1>3, <1>5
      <4> QED
        BY <1>2, <1>3, <1>5, <1>6, <2>1, <3>1, <4>1 DEF Fresh
    <3>3. ASSUME NEW type \in {0, m0.type}
          PROVE  falcon_verify(sig', sig_len', type, PublicKey(sig'.logn, m0.key), m0.data, TRUE) = 0
      <4>1. PICK s, len, t, data : s = sig' /\ len = sig_len' /\ t = m0.type /\ data = m0.data
        OBVIOUS
      <4>2. Fresh(s, len, m0.key, t, data) /\ type \in {0, t}
        BY <3>2, <4>1
      <4>3. falcon_verify(s, len, type, PublicKey(s.logn, m0.key), data, TRUE) = 0
        BY <1>2, <4>2, FreshAccepted
      <4> QED
        BY <4>1, <4>3
    <3>4. m0.nonce = sig'.nonce
      BY <1>3, <1>5
    <3> QED
      BY <1>18, <2>1, <3>3, <3>4 DEF SignedAccepted
  <2>2. CASE ~fits
    <3>1. call' = call \/ ret'[2] # 0
      BY <1>1, <1>7, <2>2
    <3> QED
      BY <3>1 DEF SignedAccepted
  <2> QED
    BY <2>1, <2>2
<1>23. LengthLeft
  BY <1>1, <1>7, <1>8 DEF LengthLeft
<1>24. SignatureThere'
  BY <1>5 DEF SignatureThere
<1> QED
  BY <1>13, <1>14, <1>15, <1>16, <1>17, <1>19, <1>20, <1>21, <1>22, <1>23, <1>24 DEF ApiInv

-----------------------------------------------------------------------------
(* Verification: a signature that decodes and has the hashed point is one  *)
(* that was made, from the same nonce and data.                            *)
LEMMA VerifyFinishStep ==
  ASSUME ApiAssumption, ApiInv, NEW type \in Types, falcon_verify_finish(type, TRUE)
  PROVE  ApiInv'
<1> DEFINE err    == VerifyError(sig, sig_len, type, pk, hash_data, TRUE)
           unread == RefusedUnread(sig, sig_len, type, pk, TRUE)
           hashed == shake256_flip(hash_data)
<1>1. /\ call = None /\ sig # None /\ pk # None /\ purpose = "verify" /\ hash_data.mode = "in"
      /\ ret' = <<"verify", err, type>>
      /\ hash_data' = IF unread # 0 THEN hash_data ELSE AfterExtract(hashed)
      /\ UNCHANGED <<rng, nonce, purpose, sk, pk, ek, sig, sig_len, call, signed, attempts>>
  BY DEF falcon_verify_finish
<1>2. TypeOK /\ NoncesTaken /\ PointsSigned /\ NoncesDiffer /\ sig \in Sigs /\ sig_len \in Nat
  BY <1>1 DEF ApiInv, TypeOK
<1>3. hash_data \in Contexts
  <2>1. purpose # None /\ None \notin {"ct", "comp", "sign", "verify"}
    BY <1>1, Facts
  <2> QED
    BY <2>1, <1>2 DEF TypeOK
<1>4. /\ hashed \in Contexts
      /\ hashed = [mode |-> "out", data |-> hash_data.data, taken |-> hash_data.taken]
      /\ AfterExtract(hashed) \in Contexts
      /\ AfterExtract(hashed).mode = "out" /\ AfterExtract(hashed).data = hash_data.data
  <2>1. None \in Pieces
    BY DEF Pieces
  <2>2. /\ hashed \in Contexts
        /\ hashed = [mode |-> "out", data |-> hash_data.data, taken |-> hash_data.taken]
    BY <1>3, <2>1, ContextFacts
  <2> HIDE DEF hashed
  <2>3. /\ AfterExtract(hashed) \in Contexts
        /\ AfterExtract(hashed) = [mode |-> hashed.mode, data |-> hashed.data, taken |-> hashed.taken + 1]
    BY <2>1, <2>2, ContextFacts
  <2> QED
    BY <2>2, <2>3
<1>5. /\ err \in -5 .. 0
      /\ err = 0 => unread = 0 /\ verify_raw(sig, Extracted(hashed), pk)
      /\ unread = 0 => Decoded(sig, sig_len) # 0
  <2>1. /\ err \in -5 .. 0
        /\ err = 0 <=> unread = 0 /\ verify_raw(sig, Extracted(hashed), pk)
    BY <1>2, VerifyIs
  <2>2. unread = 0 => FirstError(DecodeChecks(sig, sig_len, type, pk)) = 0
    BY <1>2, UnreadIs
  <2>3. unread = 0 => Decoded(sig, sig_len) # 0
    BY <1>2, <2>2, DecodeTable
  <2> QED
    BY <2>1, <2>3
<1> HIDE DEF err, unread, hashed
<1>6. TypeOK'
  BY <1>1, <1>2, <1>3, <1>4, <1>5 DEF TypeOK
<1>7. /\ RoomForSignature' /\ NoncesTaken' /\ StreamInv' /\ CallInv' /\ SignedAccepted'
      /\ SignatureThere'
  BY <1>1, <1>2 DEF RoomForSignature, NoncesTaken, StreamInv, CallInv, SignedAccepted, SignatureThere
<1>8. PointsSigned' /\ NoncesDiffer'
  BY <1>1, <1>2 DEF PointsSigned, NoncesDiffer
<1>9. HashTaken'
  BY <1>1, <1>4, <1>5 DEF HashTaken
<1>10. OnlySignedAccepted'
  <2> SUFFICES ASSUME err = 0
               PROVE  \E m \in signed : /\ m.key = pk.key /\ m.nonce = Head(hash_data'.data)
                                        /\ m.data = Tail(hash_data'.data)
    BY <1>1 DEF OnlySignedAccepted, Data
  <2>1. hash_data'.data = hash_data.data
    BY <1>1, <1>4, <1>5
  <2>2. sig.vec.key = pk.key /\ sig.vec.point = <<hash_data.data, hash_data.taken>>
    BY <1>4, <1>5 DEF verify_raw, Extracted
  <2>3. sig.format # None
    <3>1. None \notin {"ct", "comp"}
      BY Facts
    <3> QED
      BY <1>5, <3>1 DEF Decoded
  <2>4. sig.vec.point # None
    <3>1. <<hash_data.data, hash_data.taken>> \in Points
      BY <1>3 DEF Contexts, Points
    <3> QED
      BY <2>2, <3>1, Facts
  <2>5. PICK m \in signed : sig.vec.key = m.key /\ sig.vec.point = <<<<m.nonce>> \o m.data, 0>>
    BY <1>1, <1>2, <2>3, <2>4 DEF PointsSigned
  <2>6. hash_data.data = <<m.nonce>> \o m.data
    BY <2>2, <2>5
  <2>7. m.nonce \in Pieces /\ m.data \in Seq(Pieces)
    BY <1>2, <2>5 DEF TypeOK, Signed, Pieces
  <2>8. Head(hash_data.data) = m.nonce /\ Tail(hash_data.data) = m.data
    BY <2>6, <2>7, HeadOfJoined
  <2> QED
    BY <2>1, <2>2, <2>5, <2>8
<1> QED
  BY <1>6, <1>7, <1>8, <1>9, <1>10 DEF ApiInv

(* An object changed on its way: no change makes a signature decode to     *)
(* another point.                                                          *)
LEMMA SpoilStep ==
  ASSUME ApiAssumption, ApiInv, Spoil
  PROVE  ApiInv'
<1>1. /\ call = None /\ ret' = <<"none", 0>>
      /\ UNCHANGED <<rng, hash_data, nonce, purpose, ek, call, signed, attempts>>
      /\ \/ sk # None /\ sk' \in SpoiledKeys(sk, {"f", "g", "F", "G"}) /\ UNCHANGED <<pk, sig, sig_len>>
         \/ pk # None /\ pk' \in SpoiledKeys(pk, {"h"}) /\ UNCHANGED <<sk, sig, sig_len>>
         \/ sig # None /\ sig' \in SpoiledSignatures /\ UNCHANGED <<sk, pk, sig_len>>
         \/ sig # None /\ sig_len' \in Nat \cap {0, sig_len - 1, sig_len + 1} /\ UNCHANGED <<sk, pk, sig>>
  BY DEF Spoil
<1>2. TypeOK /\ StreamInv /\ PointsSigned
  BY DEF ApiInv
<1>3. ASSUME NEW k \in Keys, NEW parts \in SUBSET {"f", "g", "F", "G", "h"}
      PROVE  SpoiledKeys(k, parts) \subseteq Keys
  BY DEF SpoiledKeys, Keys
<1>4. /\ sk' \in Keys \cup {None} /\ pk' \in Keys \cup {None}
  BY <1>1, <1>2, <1>3 DEF TypeOK
<1>5. ASSUME sig # None, sig' \in SpoiledSignatures
      PROVE  /\ sig' \in Sigs
             /\ sig'.format # None => sig'.format = sig.format
             /\ sig'.vec.point # None => sig'.vec = sig.vec
  <2>1. sig \in Sigs
    BY <1>2, <1>5 DEF TypeOK
  <2>2. CASE sig' = [sig EXCEPT !.vec.point = None]
    BY <2>1, <2>2 DEF Sigs, Vectors
  <2>3. CASE \E h \in {3, 5, 7} : sig' = [sig EXCEPT !.hi = h]
    BY <2>1, <2>3 DEF Sigs
  <2>4. CASE sig' = [sig EXCEPT !.logn = 10]
    BY <2>1, <2>4 DEF Sigs
  <2>6. CASE sig' = [sig EXCEPT !.zeros = FALSE]
    <3>1. ASSUME NEW z \in BOOLEAN
          PROVE  /\ [sig EXCEPT !.zeros = z] \in Sigs
                 /\ [sig EXCEPT !.zeros = z].format = sig.format
                 /\ [sig EXCEPT !.zeros = z].vec = sig.vec
      BY <2>1 DEF Sigs
    <3> QED
      BY <2>6, <3>1
  <2>5. CASE sig' = [sig EXCEPT !.nonce = None] \/ sig' = [sig EXCEPT !.format = None]
    BY <2>1, <2>5 DEF Sigs
  <2> QED
    BY <1>5, <2>2, <2>3, <2>4, <2>5, <2>6 DEF SpoiledSignatures
<1>6. sig' \in Sigs \cup {None} /\ sig_len' \in Nat
  BY <1>1, <1>2, <1>5 DEF TypeOK
<1>7. TypeOK'
  BY <1>1, <1>2, <1>4, <1>6 DEF TypeOK
<1>8. rng.taken \in Nat
  BY <1>2 DEF TypeOK
<1>9. StreamInv'
  BY <1>1, <1>2, <1>8, StreamKept
<1>10. PointsSigned'
  <2>1. CASE sig' = sig
    BY <1>1, <1>2, <2>1 DEF PointsSigned
  <2>2. CASE sig # None /\ sig' \in SpoiledSignatures
    BY <1>1, <1>2, <1>5, <2>2 DEF PointsSigned
  <2> QED
    BY <1>1, <2>1, <2>2
<1> QED
  BY <1>1, <1>7, <1>8, <1>9, <1>10, QuietStep

(* No variable the invariant speaks of changes.                            *)
LEMMA NoStep ==
  ASSUME ApiInv, UNCHANGED vars
  PROVE  ApiInv'
<1> USE DEF vars
<1>1. TypeOK' /\ RoomForSignature' /\ NoncesTaken' /\ StreamInv' /\ CallInv'
  BY DEF ApiInv, TypeOK, RoomForSignature, NoncesTaken, StreamInv, CallInv, Unused, Begun
<1>2. /\ PointsSigned' /\ HashTaken' /\ SignatureThere'
      /\ OnlySignedAccepted' /\ SignedAccepted' /\ NoncesDiffer'
  BY DEF ApiInv, PointsSigned, HashTaken, SignatureThere, OnlySignedAccepted, SignedAccepted,
         NoncesDiffer, Data
<1> QED
  BY <1>1, <1>2 DEF ApiInv

-----------------------------------------------------------------------------
LEMMA NextApi == ApiAssumption /\ ApiInv /\ [Next]_vars => ApiInv' /\ (LengthLeft \/ UNCHANGED vars)
<1> SUFFICES ASSUME ApiAssumption, ApiInv, [Next]_vars PROVE ApiInv' /\ (LengthLeft \/ UNCHANGED vars)
  OBVIOUS
<1>1. ASSUME call = None PROVE LengthLeft
  BY <1>1 DEF LengthLeft
<1>2. ASSUME NEW works \in BOOLEAN, shake256_init_prng_from_system(works)
      PROVE  ApiInv' /\ LengthLeft
  BY <1>1, <1>2, PrngStep
<1>3. ASSUME NEW logn \in Logns, NEW r \in {-1, 0}, NEW wanted \in BOOLEAN, NEW enough \in BOOLEAN,
             falcon_keygen_make(logn, 0, r, wanted, enough)
      PROVE  ApiInv' /\ LengthLeft
  <2>1. call = None
    BY <1>3 DEF falcon_keygen_make
  <2> QED
    BY <1>1, <1>3, <2>1, KeygenStep
<1>4. ASSUME NEW r \in {-1, 0}, falcon_make_public(r, TRUE)  PROVE ApiInv' /\ LengthLeft
  <2>1. call = None
    BY <1>4 DEF falcon_make_public
  <2> QED
    BY <1>1, <1>4, <2>1, MakePublicStep
<1>5. ASSUME NEW at \in {3}, NEW enough \in BOOLEAN, falcon_expand_privkey(at, 0, enough)
      PROVE  ApiInv' /\ LengthLeft
  <2>1. call = None /\ at = 3
    BY <1>5 DEF falcon_expand_privkey
  <2> QED
    BY <1>1, <1>5, <2>1, ExpandStep
<1>6. ASSUME MoveExpanded  PROVE ApiInv' /\ LengthLeft
  BY <1>1, <1>6, MoveStep DEF MoveExpanded
<1>7. ASSUME falcon_sign_start  PROVE ApiInv' /\ LengthLeft
  BY <1>1, <1>7, SignStartStep DEF falcon_sign_start
<1>8. ASSUME NEW chunk \in Chunks, InjectData(chunk)  PROVE ApiInv' /\ LengthLeft
  BY <1>1, <1>8, InjectStep DEF InjectData
<1>9. ASSUME NEW type \in Types, NEW len \in LengthsFor(sk), falcon_sign_dyn_finish(type, len, TRUE)
      PROVE  ApiInv' /\ LengthLeft
  <2>1. call = None
    BY <1>9 DEF falcon_sign_dyn_finish, Streaming
  <2> QED
    BY <1>1, <1>9, <2>1, DynFinishStep
<1>10. ASSUME NEW type \in Types, NEW len \in LengthsFor(ek), falcon_sign_tree_finish(type, len, TRUE)
       PROVE  ApiInv' /\ LengthLeft
  <2>1. call = None
    BY <1>10 DEF falcon_sign_tree_finish, Streaming
  <2> QED
    BY <1>1, <1>10, <2>1, TreeFinishStep
<1>11. ASSUME NEW chunk \in Chunks, NEW type \in Types, NEW len \in LengthsFor(sk),
              falcon_sign_dyn(chunk, type, len, TRUE)
       PROVE  ApiInv' /\ LengthLeft
  <2>1. call = None
    BY <1>11 DEF falcon_sign_dyn, Started
  <2> QED
    BY <1>1, <1>11, <2>1, DynStep
<1>12. ASSUME NEW chunk \in Chunks, NEW type \in Types, NEW len \in LengthsFor(ek),
              falcon_sign_tree(chunk, type, len, TRUE)
       PROVE  ApiInv' /\ LengthLeft
  <2>1. call = None
    BY <1>12 DEF falcon_sign_tree, Started
  <2> QED
    BY <1>1, <1>12, <2>1, TreeStep
<1>13. ASSUME call # None, NEW clen \in CodeLengths(call.logn), NEW narrow \in BOOLEAN, Attempt(clen, narrow)
       PROVE  ApiInv' /\ LengthLeft
  BY <1>13, AttemptStep
<1>14. ASSUME falcon_verify_start  PROVE ApiInv' /\ LengthLeft
  BY <1>1, <1>14, VerifyStartStep DEF falcon_verify_start
<1>15. ASSUME NEW type \in Types, falcon_verify_finish(type, TRUE)  PROVE ApiInv' /\ LengthLeft
  <2>1. call = None
    BY <1>15 DEF falcon_verify_finish
  <2> QED
    BY <1>1, <1>15, <2>1, VerifyFinishStep
<1>16. ASSUME Spoil  PROVE ApiInv' /\ LengthLeft
  BY <1>1, <1>16, SpoilStep DEF Spoil
<1>17. ASSUME UNCHANGED vars  PROVE ApiInv'
  BY <1>17, NoStep
<1> QED
  BY <1>2, <1>3, <1>4, <1>5, <1>6, <1>7, <1>8, <1>9, <1>10, <1>11, <1>12, <1>13, <1>14, <1>15, <1>16,
     <1>17 DEF Next

(* Falcon's contexts, nonces and points hang together as ApiInv says: the  *)
(* nonces come from one stream and each is signed with once, and what a    *)
(* signature decodes to was hashed from nonce and data (falcon.c).         *)
THEOREM ApiInvariant == ApiAssumption => (Spec => []ApiInv)
<1> SUFFICES ASSUME ApiAssumption PROVE Spec => []ApiInv
  OBVIOUS
<1>1. Init => ApiInv
  BY InitApi
<1>2. ApiInv /\ [Next]_vars => ApiInv'
  BY NextApi
<1> QED
  BY <1>1, <1>2, PTL DEF Spec

(* A signer whose loop fails leaves the length of the signature, the keys  *)
(* and what was signed as they were (falcon.c: "*sig_len = u" comes last). *)
THEOREM LengthsLeft == ApiAssumption => (Spec => [][LengthLeft]_vars)
<1> SUFFICES ASSUME ApiAssumption PROVE Spec => [][LengthLeft]_vars
  OBVIOUS
<1>1. ApiInv /\ [Next]_vars => [LengthLeft]_vars
  BY NextApi
<1>2. Spec => []ApiInv
  BY ApiInvariant
<1> QED
  BY <1>1, <1>2, PTL DEF Spec

-----------------------------------------------------------------------------
(* The length a signature is accepted with, for a type that is given: the  *)
(* code ends it, or its format says how long it is.                        *)
OnlyLength(type) ==
  IF type = COMPRESSED THEN 41 + sig.used
  ELSE IF type = PADDED THEN FALCON_SIG_PADDED_SIZE(sig.logn) ELSE FALCON_SIG_CT_SIZE(sig.logn)

LEMMA AcceptedLength ==
  ASSUME NEW s, NEW len \in Nat, NEW type \in 1 .. 3, NEW key, NEW data,
         falcon_verify(s, len, type, PublicKey(s.logn, key), data, TRUE) = 0,
         s.logn = sig.logn, s.used = sig.used
  PROVE  len = OnlyLength(type)
<1> DEFINE p  == PublicKey(s.logn, key)
           hd == [shake256_init EXCEPT !.data = <<s.nonce>> \o data]
<1>1. p.logn = s.logn
  BY DEF PublicKey
<1> HIDE DEF p, hd
<1>2. VerifyError(s, len, type, p, hd, TRUE) = 0
  <2>1. falcon_verify(s, len, type, p, data, TRUE)
          = IF len < 41 THEN ERR_FORMAT ELSE VerifyError(s, len, type, p, hd, TRUE)
    BY Zenon DEF falcon_verify, hd
  <2>2. falcon_verify(s, len, type, p, data, TRUE) = 0
    BY Zenon DEF p
  <2>3. ERR_FORMAT # 0
    BY DEF ERR_FORMAT
  <2> QED
    BY <2>1, <2>2, <2>3, Zenon
<1>3. RefusedUnread(s, len, type, p, TRUE) = 0
  BY <1>2, VerifyIs
<1>4. /\ FirstError(FormatChecks(s, len, type, p, TRUE)) = 0
      /\ FirstError(DecodeChecks(s, len, type, p)) = 0
  BY <1>3, UnreadIs
<1>5. FormatFits(s, len, type, p)
  BY <1>4, FormatTable
<1>6. /\ Decoded(s, len) # 0
      /\ 41 + Decoded(s, len) = len \/ (PaddingAllowed(type, len, s.logn) /\ s.zeros)
  BY <1>4, DecodeTable
<1>7. CASE type = COMPRESSED
  <2>1. ~PaddingAllowed(type, len, s.logn)
    BY <1>7 DEF PaddingAllowed, COMPRESSED, PADDED
  <2>2. 41 + Decoded(s, len) = len /\ Decoded(s, len) = s.used
    BY <1>6, <2>1 DEF Decoded
  <2> QED
    BY <1>7, <2>2 DEF OnlyLength
<1>8. CASE type = PADDED
  BY <1>1, <1>5, <1>8 DEF FormatFits, OnlyLength, PADDED, COMPRESSED
<1>9. CASE type = CT
  BY <1>1, <1>5, <1>9 DEF FormatFits, OnlyLength, CT, PADDED, COMPRESSED
<1> QED
  BY <1>7, <1>8, <1>9 DEF COMPRESSED, PADDED, CT

LEMMA OneLength ==
  ASSUME ApiAssumption, ApiInv  PROVE OneEncoding
<1> SUFFICES ASSUME ret[1] \in {"sign_dyn", "sign_tree"}, ret[2] = 0, call = None,
                    NEW m \in signed, NEW type \in 1 .. 3
             PROVE  LET accepted == {w \in Variants : falcon_verify(w.sig, w.len, type,
                                       PublicKey(sig.logn, m.key), m.data, TRUE) = 0}
                    IN  Cardinality({v.len : v \in accepted}) <= 1
  BY DEF OneEncoding
<1> DEFINE accepted == {w \in Variants : falcon_verify(w.sig, w.len, type,
                          PublicKey(sig.logn, m.key), m.data, TRUE) = 0}
           lens     == {v.len : v \in accepted}
<1>1. sig \in Sigs /\ sig_len \in Nat /\ Powers
  BY Facts DEF ApiInv, SignatureThere, TypeOK
<1>2. sig.logn \in 1 .. 10 /\ sig.used \in Nat
  BY <1>1 DEF Sigs
<1>3. FALCON_SIG_PADDED_SIZE(sig.logn) \in Nat /\ FALCON_SIG_CT_SIZE(sig.logn) \in Nat
  BY <1>1, <1>2, SizeFacts
<1>4. ASSUME NEW w \in accepted  PROVE w.len = OnlyLength(type)
  <2>1. /\ w.sig \in Recoded /\ w.len \in Resized
        /\ falcon_verify(w.sig, w.len, type, PublicKey(sig.logn, m.key), m.data, TRUE) = 0
    BY <1>4 DEF Variants
  <2>2. w.len \in Nat
    BY <1>1, <1>2, <1>3, <2>1 DEF Resized
  <2>3. w.sig.logn = sig.logn /\ w.sig.used = sig.used
    <3>1. ASSUME NEW s \in Relabelled  PROVE s \in Sigs /\ s.logn = sig.logn /\ s.used = sig.used
      BY <1>1 DEF Relabelled, Sigs
    <3>2. ASSUME NEW s \in Sigs, NEW z
          PROVE  [s EXCEPT !.zeros = z].logn = s.logn /\ [s EXCEPT !.zeros = z].used = s.used
      BY DEF Sigs
    <3>3. CASE w.sig \in Relabelled
      BY <3>1, <3>3
    <3>4. CASE w.sig \notin Relabelled
      <4>1. PICK s \in Relabelled : w.sig = [s EXCEPT !.zeros = ~sig.zeros]
        BY <2>1, <3>4 DEF Recoded
      <4> QED
        BY <3>1, <3>2, <4>1
    <3> QED
      BY <3>3, <3>4
  <2> QED
    BY <2>1, <2>2, <2>3, AcceptedLength
<1>5. lens \subseteq {OnlyLength(type)}
  BY <1>4
<1> HIDE DEF lens, accepted
<1>6. IsFiniteSet({OnlyLength(type)}) /\ Cardinality({OnlyLength(type)}) = 1
  BY FS_Singleton
<1>7. Cardinality(lens) <= 1
  BY <1>5, <1>6, FS_Subset, FS_CardinalityType
<1> QED
  BY <1>7 DEF lens, accepted

(* Through any legal sequence of falcon.c's calls, with any changes on the *)
(* way to what was stored or sent, verification accepts what was signed    *)
(* and nothing else, a fresh signature is accepted, no two share a nonce,  *)
(* a signer has the room it writes to, and a type fixes the encoding.      *)
THEOREM CallsRight == ApiAssumption => (Spec => []ApiRight)
<1> SUFFICES ASSUME ApiAssumption PROVE Spec => []ApiRight
  OBVIOUS
<1>1. ApiInv => ApiRight
  BY OneLength DEF ApiInv, ApiRight
<1>2. Spec => []ApiInv
  BY ApiInvariant
<1> QED
  BY <1>1, <1>2, PTL

-----------------------------------------------------------------------------
(* The buffers of the functions (FalconSizes).                             *)

(* The next multiple is less than m away.                                  *)
LEMMA AlignedTo8 ==
  ASSUME NEW x \in Nat
  PROVE  /\ Aligned(x, 8) \in Nat
         /\ x <= Aligned(x, 8) /\ Aligned(x, 8) <= x + 7
         /\ Aligned(x, 8) % 8 = 0
  BY SMT DEF Aligned

(* From an even address, at most six bytes away.                           *)
LEMMA EvenAlignedTo8 ==
  ASSUME NEW x \in Nat, x % 2 = 0
  PROVE  Aligned(x, 8) <= x + 6
  BY SMT DEF Aligned

LEMMA AlignedTo2 ==
  ASSUME NEW x \in Nat
  PROVE  /\ Aligned(x, 2) \in Nat
         /\ x <= Aligned(x, 2) /\ Aligned(x, 2) <= x + 1
         /\ Aligned(x, 2) % 2 = 0
  BY SMT DEF Aligned

-----------------------------------------------------------------------------
(* A tree signature: an odd address costs one byte for the point, and then *)
(* at most six for the numbers (falcon_sign_tree_finish).                  *)
THEOREM SignTreeFits ==
  ASSUME NEW n \in Nat \ {0}, NEW a \in Nat
  PROVE  /\ Fits(SignTreeLayout(n, a), a, FALCON_TMPSIZE_SIGNTREE(n))
         /\ Apart(SignTreeLayout(n, a))
         /\ Suitable(SignTreeLayout(n, a))
<1> DEFINE h == Aligned(a, 2)
           w == Aligned(h + 2 * n, 8)
           L == <<Region(h, 2 * n, 2), Region(w, 48 * n, 8)>>
<1>1. h \in Nat /\ a <= h /\ h <= a + 1 /\ h % 2 = 0
  BY AlignedTo2
<1>2. h + 2 * n \in Nat /\ (h + 2 * n) % 2 = 0
  BY <1>1
<1>3. w \in Nat /\ h + 2 * n <= w /\ w <= h + 2 * n + 6 /\ w % 8 = 0
  BY <1>2, AlignedTo8, EvenAlignedTo8
<1>4. SignTreeLayout(n, a) = L
  BY DEF SignTreeLayout, Region
<1> HIDE DEF h, w
<1>5. Fits(L, a, FALCON_TMPSIZE_SIGNTREE(n))
  BY <1>1, <1>3 DEF Fits, Within, Region, End, FALCON_TMPSIZE_SIGNTREE
<1>6. Apart(L)
  BY <1>1, <1>3 DEF Apart, Region, End
<1>7. Suitable(L)
  BY <1>1, <1>3 DEF Suitable, Region
<1> QED
  BY <1>4, <1>5, <1>6, <1>7

(* A key pair: three parts of bytes, then the generator's numbers          *)
(* (falcon_keygen_make).                                                   *)
THEOREM KeygenFits ==
  ASSUME NEW n \in Nat \ {0}, NEW a \in Nat
  PROVE  /\ Fits(KeygenLayout(n, a), a, FALCON_TMPSIZE_KEYGEN(n))
         /\ Apart(KeygenLayout(n, a))
         /\ Suitable(KeygenLayout(n, a))
<1> DEFINE w == Aligned(a + 3 * n, 8)
           t == FALCON_KEYGEN_TEMP(n)
           L == <<Region(a, n, 1), Region(a + n, n, 1), Region(a + 2 * n, n, 1), Region(w, t, 8)>>
<1>1. w \in Nat /\ a + 3 * n <= w /\ w <= a + 3 * n + 7 /\ w % 8 = 0
  BY AlignedTo8
<1>2. t \in Nat /\ t <= FALCON_TMPSIZE_KEYGEN(n) - 3 * n - 7
  BY DEF FALCON_KEYGEN_TEMP, FALCON_TMPSIZE_KEYGEN
<1>3. KeygenLayout(n, a) = L
  BY DEF KeygenLayout, Region
<1>4. FALCON_TMPSIZE_KEYGEN(n) \in Nat
  BY DEF FALCON_TMPSIZE_KEYGEN
<1> HIDE DEF w, t
<1>5. Fits(L, a, FALCON_TMPSIZE_KEYGEN(n))
  BY <1>1, <1>2, <1>4 DEF Fits, Within, Region, End
<1>6. Apart(L)
  BY <1>1, <1>2 DEF Apart, Region, End
<1>7. Suitable(L)
  BY <1>1 DEF Suitable, Region
<1> QED
  BY <1>3, <1>5, <1>6, <1>7

(* The public key and the numbers behind it (falcon_make_public).          *)
THEOREM MakePublicFits ==
  ASSUME NEW n \in Nat \ {0}, NEW a \in Nat
  PROVE  /\ Fits(PublicLayout(n, a), a, FALCON_TMPSIZE_MAKEPUB(n))
         /\ Apart(PublicLayout(n, a))
         /\ Suitable(PublicLayout(n, a))
<1> DEFINE h == Aligned(a + 2 * n, 2)
           L == <<Region(a, n, 1), Region(a + n, n, 1), Region(h, 2 * n, 2),
                  Region(h + 2 * n, 2 * n, 2)>>
<1>1. h \in Nat /\ a + 2 * n <= h /\ h <= a + 2 * n + 1 /\ h % 2 = 0
  BY AlignedTo2
<1>2. PublicLayout(n, a) = L
  BY DEF PublicLayout, Region
<1>3. (h + 2 * n) % 2 = 0
  BY <1>1
<1> HIDE DEF h
<1>4. Fits(L, a, FALCON_TMPSIZE_MAKEPUB(n))
  BY <1>1 DEF Fits, Within, Region, End, FALCON_TMPSIZE_MAKEPUB
<1>5. Apart(L)
  BY <1>1 DEF Apart, Region, End
<1>6. Suitable(L)
  BY <1>1, <1>3 DEF Suitable, Region
<1> QED
  BY <1>2, <1>4, <1>5, <1>6

(* Four polynomials, then the numbers of the expansion                     *)
(* (falcon_expand_privkey).                                                *)
THEOREM ExpandFits ==
  ASSUME NEW n \in Nat \ {0}, NEW a \in Nat
  PROVE  /\ Fits(ExpandLayout(n, a), a, FALCON_TMPSIZE_EXPANDPRIV(n))
         /\ Apart(ExpandLayout(n, a))
         /\ Suitable(ExpandLayout(n, a))
<1> DEFINE w == Aligned(a + 4 * n, 8)
           L == <<Region(a, n, 1), Region(a + n, n, 1), Region(a + 2 * n, n, 1),
                  Region(a + 3 * n, n, 1), Region(w, 48 * n, 8)>>
<1>1. w \in Nat /\ a + 4 * n <= w /\ w <= a + 4 * n + 7 /\ w % 8 = 0
  BY AlignedTo8
<1>2. ExpandLayout(n, a) = L
  BY DEF ExpandLayout, Region
<1> HIDE DEF w
<1>3. Fits(L, a, FALCON_TMPSIZE_EXPANDPRIV(n))
  BY <1>1 DEF Fits, Within, Region, End, FALCON_TMPSIZE_EXPANDPRIV
<1>4. Apart(L)
  BY <1>1 DEF Apart, Region, End
<1>5. Suitable(L)
  BY <1>1 DEF Suitable, Region
<1> QED
  BY <1>2, <1>3, <1>4, <1>5

(* Signing with the private key: the parts fit and lie apart; the point    *)
(* is where its words may be stored if the buffer itself is at an even     *)
(* address (falcon_sign_dyn_finish).                                       *)
THEOREM SignDynFits ==
  ASSUME NEW n \in Nat \ {0}, NEW a \in Nat
  PROVE  /\ Fits(SignDynLayout(n, a), a, FALCON_TMPSIZE_SIGNDYN(n))
         /\ Apart(SignDynLayout(n, a))
         /\ a % 2 = 0 => Suitable(SignDynLayout(n, a))
<1> DEFINE w == Aligned(a + 6 * n, 8)
           L == <<Region(a, n, 1), Region(a + n, n, 1), Region(a + 2 * n, n, 1),
                  Region(a + 3 * n, n, 1), Region(a + 4 * n, 2 * n, 2), Region(w, 72 * n, 8)>>
<1>1. w \in Nat /\ a + 6 * n <= w /\ w <= a + 6 * n + 7 /\ w % 8 = 0
  BY AlignedTo8
<1>2. SignDynLayout(n, a) = L
  BY DEF SignDynLayout, Region
<1> HIDE DEF w
<1>3. Fits(L, a, FALCON_TMPSIZE_SIGNDYN(n))
  BY <1>1 DEF Fits, Within, Region, End, FALCON_TMPSIZE_SIGNDYN
<1>4. Apart(L)
  BY <1>1 DEF Apart, Region, End
<1>5. a % 2 = 0 => Suitable(L)
  BY <1>1 DEF Suitable, Region
<1> QED
  BY <1>2, <1>3, <1>4, <1>5

(* Verification: four parts of 16-bit words (falcon_verify_finish).        *)
THEOREM VerifyFits ==
  ASSUME NEW n \in Nat \ {0}, NEW a \in Nat
  PROVE  /\ Fits(VerifyLayout(n, a), a, FALCON_TMPSIZE_VERIFY(n))
         /\ Apart(VerifyLayout(n, a))
         /\ Suitable(VerifyLayout(n, a))
<1> DEFINE h == Aligned(a, 2)
           L == <<Region(h, 2 * n, 2), Region(h + 2 * n, 2 * n, 2),
                  Region(h + 4 * n, 2 * n, 2), Region(h + 6 * n, 2 * n, 2)>>
<1>1. h \in Nat /\ a <= h /\ h <= a + 1 /\ h % 2 = 0
  BY AlignedTo2
<1>2. VerifyLayout(n, a) = L
  BY DEF VerifyLayout, Region
<1> HIDE DEF h
<1>3. Fits(L, a, FALCON_TMPSIZE_VERIFY(n))
  BY <1>1 DEF Fits, Within, Region, End, FALCON_TMPSIZE_VERIFY
<1>4. Apart(L)
  BY <1>1 DEF Apart, Region, End
<1>5. Suitable(L)
  BY <1>1 DEF Suitable, Region
<1> QED
  BY <1>2, <1>3, <1>4, <1>5

(* The expanded key, whatever the size p of matrix and tree; after a move  *)
(* by a multiple of eight its numbers have moved as far.                   *)
THEOREM ExpandedKeyFits ==
  ASSUME NEW logn \in Nat, NEW n \in Nat \ {0}, NEW a \in Nat, NEW moved \in Nat,
         moved % 8 = 0
  PROVE  /\ Fits(ExpandedKeyLayout(logn, n, a), a, FALCON_EXPANDEDKEY_SIZE(logn, n))
         /\ Apart(ExpandedKeyLayout(logn, n, a))
         /\ Suitable(ExpandedKeyLayout(logn, n, a))
         /\ Aligned(a + moved + 1, 8) = Aligned(a + 1, 8) + moved
<1> DEFINE p == (8 * logn + 40) * n
           w == Aligned(a + 1, 8)
           L == <<Region(a, 1, 1), Region(w, p, 8)>>
<1>1. w \in Nat /\ a + 1 <= w /\ w <= a + 8 /\ w % 8 = 0
  BY AlignedTo8
<1>2. p \in Nat
  OBVIOUS
<1>3. ExpandedKeyLayout(logn, n, a) = L /\ FALCON_EXPANDEDKEY_SIZE(logn, n) = p + 8
  BY DEF ExpandedKeyLayout, FALCON_EXPANDEDKEY_SIZE
<1>4. Aligned(a + moved + 1, 8) = Aligned(a + 1, 8) + moved
  BY SMT DEF Aligned
<1> HIDE DEF w, p
<1>5. Fits(L, a, p + 8)
  BY <1>1, <1>2 DEF Fits, Within, Region, End
<1>6. Apart(L)
  BY <1>1, <1>2 DEF Apart, Region, End
<1>7. Suitable(L)
  BY <1>1 DEF Suitable, Region
<1> QED
  BY <1>3, <1>4, <1>5, <1>6, <1>7
-----------------------------------------------------------------------------
(* The certificate chains. *)
SchemeNames == {"falcon", "ed25519", "dilithium", "oofalcon", "ooed25519", "oodilithium"}

(* The client is the last of the levels.                                   *)
LEMMA LevelsAre ==
  ASSUME Certs!StateInv, Certs!CertChainAssumption
  PROVE  /\ chain_length \in Nat \ {0} /\ Certs!Client \in Nat /\ Certs!Client + 1 = chain_length
         /\ Certs!Levels = 0 .. chain_length - 1 /\ scheme \in SchemeNames
BY DEF Certs!StateInv, Certs!TypeOK, Certs!CertChainAssumption, Certs!Client, Certs!Levels, Certs!Names, SchemeNames

(* What a step of a driver leaves alone.                                   *)
Keeps == /\ scheme' = scheme /\ chain_length' = chain_length /\ iterations' = iterations
         /\ stage' = stage

LEMMA SameRank ==
  ASSUME Keeps, NEW op, NEW level
  PROVE  Certs!Rank(op, level)' = Certs!Rank(op, level)
BY DEF Keeps, Certs!Rank, Certs!Client

(* A step goes one place on: exactly the operation it was at is passed.    *)
GoesOn ==
  /\ place' = Certs!At(place'.op, place'.level)
  /\ Certs!Place(place.op, place.level)'
  /\ \A op, level :
        Certs!Place(op, level) /\ op \notin {"end", "throw_away"} =>
          (Certs!Passed(op, level)' <=> Certs!Passed(op, level) \/ (op = place.op /\ level = place.level))

LEMMA PlainGoesOn ==
  ASSUME Certs!StateInv, Certs!CertChainAssumption, stage = "run", Keeps,
         scheme \in {"falcon", "ed25519", "dilithium"}, place.op # "end", place' = Certs!Plain
  PROVE  GoesOn
<1> DEFINE l == place.level   n == chain_length
           op1 == place'.op   l1 == place'.level
<1>1. n \in Nat \ {0} /\ Certs!Client \in Nat /\ Certs!Client = n - 1 /\ Certs!Levels = 0 .. n - 1
  BY LevelsAre
<1>2. place = Certs!At(place.op, l) /\ Certs!Place(place.op, l)
  BY DEF Certs!StateInv, Certs!PlaceInv, Certs!Working
<1>3. Certs!Ops = {"keygen", "certify", "allocate"}
  BY DEF Certs!Ops, Certs!SetupOps
<1>4. \A op, level : Certs!Place(op, level)' <=> Certs!Place(op, level)
  BY DEF Keeps, Certs!Place, Certs!Ops, Certs!Levels, Certs!Client
<1>5. \A op, level : Certs!Passed(op, level)' <=> Certs!Rank(op, level) < Certs!Rank(op1, l1)
  BY SameRank DEF Certs!Passed
<1>6. \A op, level :
        LET r == Certs!Rank(op, level)
        IN  /\ op = "keygen" => r = 2 * level
            /\ op = "certify" => r = 2 * level + 1
            /\ op = "allocate" => r = 2 * n
            /\ op = "sign_message" => r = 4 * n
            /\ op = "verify_message" => r = 4 * n + 1
            /\ op = "verify_cert" => r = 5 * n + 1 - level
            /\ op = "end" => r = 5 * n + 1
  BY <1>1 DEF Certs!Rank
<1>7. /\ l \in 0 .. n - 1 /\ place.op \in {"keygen", "certify", "allocate", "sign_message", "verify_message", "verify_cert"}
      /\ (place.op \in {"allocate", "sign_message", "verify_message"} => l = n - 1)
      /\ (place.op \in {"certify", "verify_cert"} => l # 0)
  BY <1>1, <1>2, <1>3 DEF Certs!Place, Certs!StateInv, Certs!PlaceInv, Certs!Working, Certs!SetupOps
<1>8. /\ place' = Certs!At(op1, l1)
      /\ \/ place.op = "keygen" /\ l = 0 /\ l < n - 1 /\ op1 = "keygen" /\ l1 = l + 1
         \/ place.op = "keygen" /\ l = 0 /\ l = n - 1 /\ op1 = "allocate" /\ l1 = n - 1
         \/ place.op = "keygen" /\ l > 0 /\ op1 = "certify" /\ l1 = l
         \/ place.op = "certify" /\ l < n - 1 /\ op1 = "keygen" /\ l1 = l + 1
         \/ place.op = "certify" /\ l = n - 1 /\ op1 = "allocate" /\ l1 = n - 1
         \/ place.op = "allocate" /\ op1 = "sign_message" /\ l1 = n - 1
         \/ place.op = "sign_message" /\ op1 = "verify_message" /\ l1 = n - 1
         \/ place.op = "verify_message" /\ n > 1 /\ op1 = "verify_cert" /\ l1 = n - 1
         \/ place.op = "verify_message" /\ n = 1 /\ op1 = "end" /\ l1 = 0
         \/ place.op = "verify_cert" /\ l > 1 /\ op1 = "verify_cert" /\ l1 = l - 1
         \/ place.op = "verify_cert" /\ l = 1 /\ op1 = "end" /\ l1 = 0
  BY <1>1, <1>2, <1>7 DEF Certs!Plain, Certs!Upward, Certs!AfterSigning, Certs!VerifyChain, Certs!Downward, Certs!At, Certs!End
<1>9. Certs!Place(place.op, place.level)'
  <2>1. /\ l1 \in 0 .. n - 1
        /\ op1 \in {"keygen", "certify", "allocate", "sign_message", "verify_message", "verify_cert", "end"}
        /\ (op1 \in {"allocate", "sign_message", "verify_message"} => l1 = n - 1)
        /\ (op1 \in {"certify", "verify_cert"} => l1 # 0) /\ (op1 = "end" => l1 = 0)
    BY <1>1, <1>7, <1>8
  <2>2. Certs!Place(op1, l1)
    BY <1>1, <1>3, <2>1 DEF Certs!Place
  <2> QED
    BY <1>4, <2>2
<1> HIDE DEF op1, l1
<1>10. ASSUME NEW op, NEW level, Certs!Place(op, level), op \notin {"end", "throw_away"}
       PROVE  Certs!Passed(op, level)' <=> Certs!Passed(op, level) \/ (op = place.op /\ level = l)
  <2>1. /\ level \in 0 .. n - 1
        /\ op \in {"keygen", "certify", "allocate", "sign_message", "verify_message", "verify_cert"}
        /\ (op \in {"allocate", "sign_message", "verify_message"} => level = n - 1)
        /\ (op \in {"certify", "verify_cert"} => level # 0)
    BY <1>1, <1>3, <1>10 DEF Certs!Place
  <2> DEFINE r == Certs!Rank(op, level)  a == Certs!Rank(place.op, l)  b == Certs!Rank(op1, l1)
  <2>2. r < b <=> r < a \/ (op = place.op /\ level = l)
    <3>1. /\ op = "keygen" => r = 2 * level
          /\ op = "certify" => r = 2 * level + 1
          /\ op = "allocate" => r = 2 * n
          /\ op = "sign_message" => r = 4 * n
          /\ op = "verify_message" => r = 4 * n + 1
          /\ op = "verify_cert" => r = 5 * n + 1 - level
      BY <1>6
    <3>2. /\ place.op = "keygen" => a = 2 * l
          /\ place.op = "certify" => a = 2 * l + 1
          /\ place.op = "allocate" => a = 2 * n
          /\ place.op = "sign_message" => a = 4 * n
          /\ place.op = "verify_message" => a = 4 * n + 1
          /\ place.op = "verify_cert" => a = 5 * n + 1 - l
      BY <1>6
    <3>3. /\ op1 = "keygen" => b = 2 * l1
          /\ op1 = "certify" => b = 2 * l1 + 1
          /\ op1 = "allocate" => b = 2 * n
          /\ op1 = "sign_message" => b = 4 * n
          /\ op1 = "verify_message" => b = 4 * n + 1
          /\ op1 = "verify_cert" => b = 5 * n + 1 - l1
          /\ op1 = "end" => b = 5 * n + 1
      BY <1>6
    <3> HIDE DEF r, a, b
    <3>4. CASE place.op = "keygen"
      <4>1. CASE l = 0
        BY <1>1, <1>7, <1>8, <2>1, <3>1, <3>2, <3>3, <3>4, <4>1
      <4>2. CASE l > 0
        BY <1>1, <1>7, <1>8, <2>1, <3>1, <3>2, <3>3, <3>4, <4>2
      <4> QED
        BY <1>7, <4>1, <4>2, <1>1, <3>4
    <3>5. CASE place.op = "certify"
      BY <1>1, <1>7, <1>8, <2>1, <3>1, <3>2, <3>3, <3>5
    <3>6. CASE place.op = "allocate"
      BY <1>1, <1>7, <1>8, <2>1, <3>1, <3>2, <3>3, <3>6
    <3>7. CASE place.op = "sign_message"
      BY <1>1, <1>7, <1>8, <2>1, <3>1, <3>2, <3>3, <3>7
    <3>8. CASE place.op = "verify_message"
      BY <1>1, <1>7, <1>8, <2>1, <3>1, <3>2, <3>3, <3>8
    <3>9. CASE place.op = "verify_cert"
      BY <1>1, <1>7, <1>8, <2>1, <3>1, <3>2, <3>3, <3>9
    <3> QED
      BY <1>7, <3>4, <3>5, <3>6, <3>7, <3>8, <3>9
  <2> QED
    BY <1>5, <2>2 DEF Certs!Passed
<1> QED
  BY <1>8, <1>9, <1>10 DEF GoesOn, op1, l1

LEMMA OoFalconGoesOn ==
  ASSUME Certs!StateInv, Certs!CertChainAssumption, stage = "run", Keeps,
         scheme = "oofalcon", place.op # "end", place' = Certs!OoFalcon
  PROVE  GoesOn
<1> DEFINE l == place.level   n == chain_length
           op1 == place'.op   l1 == place'.level
<1>1. n \in Nat \ {0} /\ Certs!Client \in Nat /\ Certs!Client = n - 1 /\ Certs!Levels = 0 .. n - 1
  BY LevelsAre
<1>2. place = Certs!At(place.op, l) /\ Certs!Place(place.op, l)
  BY DEF Certs!StateInv, Certs!PlaceInv, Certs!Working
<1>3. Certs!Ops = {"keygen", "offline", "certify"}
  BY DEF Certs!Ops, Certs!SetupOps
<1>4. \A op, level : Certs!Place(op, level)' <=> Certs!Place(op, level)
  BY DEF Keeps, Certs!Place, Certs!Ops, Certs!Levels, Certs!Client
<1>5. \A op, level : Certs!Passed(op, level)' <=> Certs!Rank(op, level) < Certs!Rank(op1, l1)
  BY SameRank DEF Certs!Passed
<1>6. \A op, level :
        LET r == Certs!Rank(op, level)
        IN  /\ op = "keygen" => r = level
            /\ op = "offline" => r = n + 3 * (n - 1 - level)
            /\ op = "certify" => r = n + 3 * (n - level) + 1
            /\ op = "sign_message" => r = n + 1
            /\ op = "verify_message" => r = n + 2
            /\ op = "verify_cert" => r = n + 3 * (n - level) + 2
            /\ op = "end" => r = 5 * n + 1
  BY <1>1 DEF Certs!Rank
<1>7. /\ l \in 0 .. n - 1 /\ place.op \in {"keygen", "offline", "certify", "sign_message", "verify_message", "verify_cert"}
      /\ (place.op \in {"sign_message", "verify_message"} => l = n - 1)
      /\ (place.op \in {"certify", "verify_cert"} => l # 0)
  BY <1>1, <1>2, <1>3 DEF Certs!Place, Certs!StateInv, Certs!PlaceInv, Certs!Working, Certs!SetupOps
<1>8. /\ place' = Certs!At(op1, l1)
      /\ \/ place.op = "keygen" /\ l < n - 1 /\ op1 = "keygen" /\ l1 = l + 1
         \/ place.op = "keygen" /\ l = n - 1 /\ op1 = "offline" /\ l1 = n - 1
         \/ place.op = "offline" /\ l = n - 1 /\ op1 = "sign_message" /\ l1 = n - 1
         \/ place.op = "offline" /\ l < n - 1 /\ op1 = "certify" /\ l1 = l + 1
         \/ place.op = "certify" /\ op1 = "verify_cert" /\ l1 = l
         \/ place.op = "sign_message" /\ op1 = "verify_message" /\ l1 = n - 1
         \/ place.op = "verify_message" /\ n > 1 /\ op1 = "offline" /\ l1 = n - 2
         \/ place.op = "verify_message" /\ n = 1 /\ op1 = "end" /\ l1 = 0
         \/ place.op = "verify_cert" /\ l > 1 /\ op1 = "offline" /\ l1 = l - 2
         \/ place.op = "verify_cert" /\ l = 1 /\ op1 = "end" /\ l1 = 0
  BY <1>1, <1>2, <1>7 DEF Certs!OoFalcon, Certs!Upward, Certs!Downward, Certs!At, Certs!End
<1>9. Certs!Place(place.op, place.level)'
  <2>1. /\ l1 \in 0 .. n - 1
        /\ op1 \in {"keygen", "offline", "certify", "sign_message", "verify_message", "verify_cert", "end"}
        /\ (op1 \in {"sign_message", "verify_message"} => l1 = n - 1)
        /\ (op1 \in {"certify", "verify_cert"} => l1 # 0) /\ (op1 = "end" => l1 = 0)
    BY <1>1, <1>7, <1>8
  <2>2. Certs!Place(op1, l1)
    BY <1>1, <1>3, <2>1 DEF Certs!Place
  <2> QED
    BY <1>4, <2>2
<1> HIDE DEF op1, l1
<1>10. ASSUME NEW op, NEW level, Certs!Place(op, level), op \notin {"end", "throw_away"}
       PROVE  Certs!Passed(op, level)' <=> Certs!Passed(op, level) \/ (op = place.op /\ level = l)
  <2>1. /\ level \in 0 .. n - 1
        /\ op \in {"keygen", "offline", "certify", "sign_message", "verify_message", "verify_cert"}
        /\ (op \in {"sign_message", "verify_message"} => level = n - 1)
        /\ (op \in {"certify", "verify_cert"} => level # 0)
    BY <1>1, <1>3, <1>10 DEF Certs!Place
  <2> DEFINE r == Certs!Rank(op, level)  a == Certs!Rank(place.op, l)  b == Certs!Rank(op1, l1)
             k == n - level  m == n - l  k1 == n - l1
  <2>2. r < b <=> r < a \/ (op = place.op /\ level = l)
    <3>1. /\ k \in 1 .. n /\ m \in 1 .. n /\ n \in Nat \ {0} /\ level = n - k /\ (level = l <=> k = m)
          /\ op \in {"sign_message", "verify_message"} => k = 1
          /\ op \in {"certify", "verify_cert"} => k < n
          /\ place.op \in {"sign_message", "verify_message"} => m = 1
          /\ place.op \in {"certify", "verify_cert"} => m < n
      BY <1>1, <1>7, <2>1
    <3>2. \/ place.op = "keygen" /\ m > 1 /\ op1 = "keygen" /\ k1 = m - 1
          \/ place.op = "keygen" /\ m = 1 /\ op1 = "offline" /\ k1 = 1
          \/ place.op = "offline" /\ m = 1 /\ op1 = "sign_message"
          \/ place.op = "offline" /\ m > 1 /\ op1 = "certify" /\ k1 = m - 1
          \/ place.op = "certify" /\ op1 = "verify_cert" /\ k1 = m
          \/ place.op = "sign_message" /\ op1 = "verify_message"
          \/ place.op = "verify_message" /\ n > 1 /\ op1 = "offline" /\ k1 = 2
          \/ place.op = "verify_message" /\ n = 1 /\ op1 = "end"
          \/ place.op = "verify_cert" /\ m < n - 1 /\ op1 = "offline" /\ k1 = m + 2
          \/ place.op = "verify_cert" /\ m = n - 1 /\ op1 = "end"
      BY <1>1, <1>7, <1>8
    <3>3. /\ op = "keygen" => r = n - k
          /\ op = "offline" => r = n + 3 * (k - 1)
          /\ op = "certify" => r = n + 3 * k + 1
          /\ op = "sign_message" => r = n + 1
          /\ op = "verify_message" => r = n + 2
          /\ op = "verify_cert" => r = n + 3 * k + 2
      <4>1. n - 1 - level = k - 1
        BY <1>1, <2>1
      <4> QED
        BY <1>6, <3>1, <4>1
    <3>4. /\ place.op = "keygen" => a = n - m
          /\ place.op = "offline" => a = n + 3 * (m - 1)
          /\ place.op = "certify" => a = n + 3 * m + 1
          /\ place.op = "sign_message" => a = n + 1
          /\ place.op = "verify_message" => a = n + 2
          /\ place.op = "verify_cert" => a = n + 3 * m + 2
      <4>1. n - 1 - l = m - 1 /\ l = n - m
        BY <1>1, <1>7
      <4> QED
        BY <1>6, <4>1
    <3>5. /\ op1 = "keygen" => b = n - k1
          /\ op1 = "offline" => b = n + 3 * (k1 - 1)
          /\ op1 = "certify" => b = n + 3 * k1 + 1
          /\ op1 = "sign_message" => b = n + 1
          /\ op1 = "verify_message" => b = n + 2
          /\ op1 = "verify_cert" => b = n + 3 * k1 + 2
          /\ op1 = "end" => b = 5 * n + 1
      <4>1. l1 \in Int
        BY <1>1, <1>7, <1>8
      <4>2. n - 1 - l1 = k1 - 1 /\ l1 = n - k1
        BY <1>1, <4>1
      <4> QED
        BY <1>6, <4>2
    <3> HIDE DEF r, a, b, k, m, k1
    <3>6. /\ n \in Int /\ k \in Int /\ m \in Int /\ 1 <= k /\ k <= n /\ 1 <= m /\ m <= n
      BY <3>1
    <3>7. r \in Int /\ r < 5 * n + 1
      BY <2>1, <3>1, <3>3, <3>6
    <3>8. CASE place.op = "keygen"
      <4>1. a = n - m /\ b = a + 1
        BY <3>2, <3>4, <3>5, <3>6, <3>8
      <4>2. r = n - m <=> op = "keygen" /\ k = m
        BY <2>1, <3>1, <3>3, <3>6
      <4> QED
        BY <3>1, <3>6, <3>7, <3>8, <4>1, <4>2
    <3>9. CASE place.op = "offline"
      <4>1. a = n + 3 * (m - 1) /\ b = a + 1
        BY <3>2, <3>4, <3>5, <3>6, <3>9
      <4>2. r = n + 3 * (m - 1) <=> op = "offline" /\ k = m
        BY <2>1, <3>1, <3>3, <3>6
      <4> QED
        BY <3>1, <3>6, <3>7, <3>9, <4>1, <4>2
    <3>10. CASE place.op = "certify"
      <4>1. a = n + 3 * m + 1 /\ b = a + 1
        BY <3>2, <3>4, <3>5, <3>6, <3>10
      <4>2. r = n + 3 * m + 1 <=> op = "certify" /\ k = m
        BY <2>1, <3>1, <3>3, <3>6
      <4> QED
        BY <3>1, <3>6, <3>7, <3>10, <4>1, <4>2
    <3>11. CASE place.op = "sign_message"
      <4>1. a = n + 1 /\ b = a + 1 /\ m = 1
        BY <3>1, <3>2, <3>4, <3>5, <3>6, <3>11
      <4>2. r = n + 1 <=> op = "sign_message" /\ k = 1
        BY <2>1, <3>1, <3>3, <3>6
      <4> QED
        BY <3>1, <3>6, <3>7, <3>11, <4>1, <4>2
    <3>12. CASE place.op = "verify_message"
      <4>1. a = n + 2 /\ m = 1 /\ (b = a + 1 \/ (n = 1 /\ b = 5 * n + 1))
        BY <3>1, <3>2, <3>4, <3>5, <3>6, <3>12
      <4>2. r = n + 2 <=> op = "verify_message" /\ k = 1
        BY <2>1, <3>1, <3>3, <3>6
      <4>3. n = 1 => r <= n + 2
        BY <2>1, <3>1, <3>3, <3>6
      <4> QED
        BY <3>1, <3>6, <3>7, <3>12, <4>1, <4>2, <4>3
    <3>13. CASE place.op = "verify_cert"
      <4>1. a = n + 3 * m + 2 /\ (b = a + 1 \/ (m = n - 1 /\ b = 5 * n + 1))
        BY <3>1, <3>2, <3>4, <3>5, <3>6, <3>13
      <4>2. r = n + 3 * m + 2 <=> op = "verify_cert" /\ k = m
        BY <2>1, <3>1, <3>3, <3>6
      <4>3. m = n - 1 => r <= n + 3 * m + 2
        <5>1. op \in {"certify", "verify_cert"} => k <= n - 1
          BY <3>1, <3>6
        <5>2. m = n - 1 /\ place.op = "verify_cert" => 2 <= n
          BY <3>6
        <5> QED
          BY <2>1, <3>1, <3>3, <3>6, <3>13, <5>1, <5>2
      <4> QED
        BY <3>1, <3>6, <3>7, <3>13, <4>1, <4>2, <4>3
    <3> QED
      BY <1>7, <3>8, <3>9, <3>10, <3>11, <3>12, <3>13
  <2> QED
    BY <1>5, <2>2 DEF Certs!Passed
<1> QED
  BY <1>8, <1>9, <1>10 DEF GoesOn, op1, l1

LEMMA OoEd25519GoesOn ==
  ASSUME Certs!StateInv, Certs!CertChainAssumption, stage = "run", Keeps,
         scheme = "ooed25519", place.op # "end", place' = Certs!OoEd25519
  PROVE  GoesOn
<1> DEFINE l == place.level   n == chain_length
           op1 == place'.op   l1 == place'.level
<1>1. n \in Nat \ {0} /\ Certs!Client \in Nat /\ Certs!Client = n - 1 /\ Certs!Levels = 0 .. n - 1
  BY LevelsAre
<1>2. place = Certs!At(place.op, l) /\ Certs!Place(place.op, l)
  BY DEF Certs!StateInv, Certs!PlaceInv, Certs!Working
<1>3. Certs!Ops = {"keygen", "offline", "certify"}
  BY DEF Certs!Ops, Certs!SetupOps
<1>4. \A op, level : Certs!Place(op, level)' <=> Certs!Place(op, level)
  BY DEF Keeps, Certs!Place, Certs!Ops, Certs!Levels, Certs!Client
<1>5. \A op, level : Certs!Passed(op, level)' <=> Certs!Rank(op, level) < Certs!Rank(op1, l1)
  BY SameRank DEF Certs!Passed
<1>6. \A op, level :
        LET r == Certs!Rank(op, level)
        IN  /\ op = "keygen" => r = 2 * level
            /\ op = "offline" => r = 2 * level + 1
            /\ op = "certify" => r = 2 * n + level
            /\ op = "sign_message" => r = 4 * n
            /\ op = "verify_message" => r = 4 * n + 1
            /\ op = "verify_cert" => r = 5 * n + 1 - level
            /\ op = "end" => r = 5 * n + 1
  BY <1>1 DEF Certs!Rank
<1>7. /\ l \in 0 .. n - 1 /\ place.op \in {"keygen", "offline", "certify", "sign_message", "verify_message", "verify_cert"}
      /\ (place.op \in {"sign_message", "verify_message"} => l = n - 1)
      /\ (place.op \in {"certify", "verify_cert"} => l # 0)
  BY <1>1, <1>2, <1>3 DEF Certs!Place, Certs!StateInv, Certs!PlaceInv, Certs!Working, Certs!SetupOps
<1>8. /\ place' = Certs!At(op1, l1)
      /\ \/ place.op = "keygen" /\ op1 = "offline" /\ l1 = l
         \/ place.op = "offline" /\ l < n - 1 /\ op1 = "keygen" /\ l1 = l + 1
         \/ place.op = "offline" /\ l = n - 1 /\ n > 1 /\ op1 = "certify" /\ l1 = 1
         \/ place.op = "offline" /\ l = n - 1 /\ n = 1 /\ op1 = "sign_message" /\ l1 = n - 1
         \/ place.op = "certify" /\ l < n - 1 /\ op1 = "certify" /\ l1 = l + 1
         \/ place.op = "certify" /\ l = n - 1 /\ op1 = "sign_message" /\ l1 = n - 1
         \/ place.op = "sign_message" /\ op1 = "verify_message" /\ l1 = n - 1
         \/ place.op = "verify_message" /\ n > 1 /\ op1 = "verify_cert" /\ l1 = n - 1
         \/ place.op = "verify_message" /\ n = 1 /\ op1 = "end" /\ l1 = 0
         \/ place.op = "verify_cert" /\ l > 1 /\ op1 = "verify_cert" /\ l1 = l - 1
         \/ place.op = "verify_cert" /\ l = 1 /\ op1 = "end" /\ l1 = 0
  BY <1>1, <1>2, <1>7 DEF Certs!OoEd25519, Certs!Upward, Certs!AfterSigning, Certs!VerifyChain, Certs!Downward, Certs!At, Certs!End
<1>9. Certs!Place(place.op, place.level)'
  <2>1. /\ l1 \in 0 .. n - 1
        /\ op1 \in {"keygen", "offline", "certify", "sign_message", "verify_message", "verify_cert", "end"}
        /\ (op1 \in {"sign_message", "verify_message"} => l1 = n - 1)
        /\ (op1 \in {"certify", "verify_cert"} => l1 # 0) /\ (op1 = "end" => l1 = 0)
    BY <1>1, <1>7, <1>8
  <2>2. Certs!Place(op1, l1)
    BY <1>1, <1>3, <2>1 DEF Certs!Place
  <2> QED
    BY <1>4, <2>2
<1> HIDE DEF op1, l1
<1>10. ASSUME NEW op, NEW level, Certs!Place(op, level), op \notin {"end", "throw_away"}
       PROVE  Certs!Passed(op, level)' <=> Certs!Passed(op, level) \/ (op = place.op /\ level = l)
  <2>1. /\ level \in 0 .. n - 1
        /\ op \in {"keygen", "offline", "certify", "sign_message", "verify_message", "verify_cert"}
        /\ (op \in {"sign_message", "verify_message"} => level = n - 1)
        /\ (op \in {"certify", "verify_cert"} => level # 0)
    BY <1>1, <1>3, <1>10 DEF Certs!Place
  <2> DEFINE r == Certs!Rank(op, level)  a == Certs!Rank(place.op, l)  b == Certs!Rank(op1, l1)
  <2>2. r < b <=> r < a \/ (op = place.op /\ level = l)
    <3>1. /\ op = "keygen" => r = 2 * level
          /\ op = "offline" => r = 2 * level + 1
          /\ op = "certify" => r = 2 * n + level
          /\ op = "sign_message" => r = 4 * n
          /\ op = "verify_message" => r = 4 * n + 1
          /\ op = "verify_cert" => r = 5 * n + 1 - level
      BY <1>6
    <3>2. /\ place.op = "keygen" => a = 2 * l
          /\ place.op = "offline" => a = 2 * l + 1
          /\ place.op = "certify" => a = 2 * n + l
          /\ place.op = "sign_message" => a = 4 * n
          /\ place.op = "verify_message" => a = 4 * n + 1
          /\ place.op = "verify_cert" => a = 5 * n + 1 - l
      BY <1>6
    <3>3. /\ op1 = "keygen" => b = 2 * l1
          /\ op1 = "offline" => b = 2 * l1 + 1
          /\ op1 = "certify" => b = 2 * n + l1
          /\ op1 = "sign_message" => b = 4 * n
          /\ op1 = "verify_message" => b = 4 * n + 1
          /\ op1 = "verify_cert" => b = 5 * n + 1 - l1
          /\ op1 = "end" => b = 5 * n + 1
      BY <1>6
    <3> HIDE DEF r, a, b
    <3>4. CASE place.op = "keygen"
      BY <1>1, <1>7, <1>8, <2>1, <3>1, <3>2, <3>3, <3>4
    <3>5. CASE place.op = "offline"
      <4>1. CASE l < n - 1
        BY <1>1, <1>7, <1>8, <2>1, <3>1, <3>2, <3>3, <3>5, <4>1
      <4>2. CASE l = n - 1
        BY <1>1, <1>7, <1>8, <2>1, <3>1, <3>2, <3>3, <3>5, <4>2
      <4> QED
        BY <1>7, <4>1, <4>2, <1>1, <3>5
    <3>6. CASE place.op = "certify"
      BY <1>1, <1>7, <1>8, <2>1, <3>1, <3>2, <3>3, <3>6
    <3>7. CASE place.op = "sign_message"
      BY <1>1, <1>7, <1>8, <2>1, <3>1, <3>2, <3>3, <3>7
    <3>8. CASE place.op = "verify_message"
      BY <1>1, <1>7, <1>8, <2>1, <3>1, <3>2, <3>3, <3>8
    <3>9. CASE place.op = "verify_cert"
      BY <1>1, <1>7, <1>8, <2>1, <3>1, <3>2, <3>3, <3>9
    <3> QED
      BY <1>7, <3>4, <3>5, <3>6, <3>7, <3>8, <3>9
  <2> QED
    BY <1>5, <2>2 DEF Certs!Passed
<1> QED
  BY <1>8, <1>9, <1>10 DEF GoesOn, op1, l1

LEMMA SetupGoesOn ==
  ASSUME Certs!StateInv, Certs!CertChainAssumption, stage = "setup", Keeps,
         scheme = "oodilithium", place.op # "end", place' = Certs!OoDilithium
  PROVE  GoesOn
<1> DEFINE l == place.level   n == chain_length
           op1 == place'.op   l1 == place'.level
<1>1. n \in Nat \ {0} /\ Certs!Client \in Nat /\ Certs!Client = n - 1 /\ Certs!Levels = 0 .. n - 1
  BY LevelsAre
<1>2. place = Certs!At(place.op, l) /\ Certs!Place(place.op, l)
  BY DEF Certs!StateInv, Certs!PlaceInv, Certs!Working
<1>3. Certs!Ops = {"throw_away", "make", "offline", "certify", "resign"}
  BY DEF Certs!Ops, Certs!SetupOps
<1>4. \A op, level : Certs!Place(op, level)' <=> Certs!Place(op, level)
  BY DEF Keeps, Certs!Place, Certs!Ops, Certs!Levels, Certs!Client
<1>5. \A op, level : Certs!Passed(op, level)' <=> Certs!Rank(op, level) < Certs!Rank(op1, l1)
  BY SameRank DEF Certs!Passed
<1>6. \A op, level :
        LET r == Certs!Rank(op, level)
        IN  /\ op = "throw_away" => r = level - n
            /\ op = "make" => r = 3 * level
            /\ op = "offline" => r = 3 * level + 1
            /\ op = "certify" => r = 3 * level + 2
            /\ op = "resign" => r = 3 * n + level
            /\ op = "sign_message" => r = 4 * n
            /\ op = "verify_message" => r = 4 * n + 1
            /\ op = "verify_cert" => r = 5 * n + 1 - level
            /\ op = "end" => r = 3 * n
  BY <1>1 DEF Certs!Rank
<1>7. /\ l \in 0 .. n - 1 /\ place.op \in {"throw_away", "make", "offline", "certify"}
      /\ (place.op \in {"sign_message", "verify_message"} => l = n - 1)
      /\ (place.op \in {"certify", "verify_cert", "resign"} => l # 0)
  BY <1>1, <1>2, <1>3 DEF Certs!Place, Certs!StateInv, Certs!PlaceInv, Certs!Working, Certs!SetupOps
<1>8. /\ place' = Certs!At(op1, l1)
      /\ \/ place.op = "throw_away" /\ l < n - 1 /\ op1 = "throw_away" /\ l1 = l + 1
         \/ place.op = "throw_away" /\ l = n - 1 /\ op1 = "throw_away" /\ l1 = 0
         \/ place.op = "throw_away" /\ l = n - 1 /\ op1 = "make" /\ l1 = 0
         \/ place.op = "make" /\ op1 = "offline" /\ l1 = l
         \/ place.op = "offline" /\ l = 0 /\ n > 1 /\ op1 = "make" /\ l1 = 1
         \/ place.op = "offline" /\ l = 0 /\ n = 1 /\ op1 = "end" /\ l1 = 0
         \/ place.op = "offline" /\ l > 0 /\ op1 = "certify" /\ l1 = l
         \/ place.op = "certify" /\ l < n - 1 /\ op1 = "make" /\ l1 = l + 1
         \/ place.op = "certify" /\ l = n - 1 /\ op1 = "end" /\ l1 = 0
  BY <1>1, <1>2, <1>7 DEF Certs!OoDilithium, Certs!Upward, Certs!At, Certs!End
<1>9. Certs!Place(place.op, place.level)'
  <2>1. /\ l1 \in 0 .. n - 1
        /\ op1 \in {"throw_away", "make", "offline", "certify", "resign", "sign_message", "verify_message", "verify_cert", "end"}
        /\ (op1 \in {"sign_message", "verify_message"} => l1 = n - 1)
        /\ (op1 \in {"certify", "verify_cert", "resign"} => l1 # 0) /\ (op1 = "end" => l1 = 0)
    BY <1>1, <1>7, <1>8
  <2>2. Certs!Place(op1, l1)
    BY <1>1, <1>3, <2>1 DEF Certs!Place
  <2> QED
    BY <1>4, <2>2
<1> HIDE DEF op1, l1
<1>10. ASSUME NEW op, NEW level, Certs!Place(op, level), op \notin {"end", "throw_away"}
       PROVE  Certs!Passed(op, level)' <=> Certs!Passed(op, level) \/ (op = place.op /\ level = l)
  <2>1. /\ level \in 0 .. n - 1
        /\ op \in {"make", "offline", "certify", "resign", "sign_message", "verify_message", "verify_cert"}
        /\ (op \in {"sign_message", "verify_message"} => level = n - 1)
        /\ (op \in {"certify", "verify_cert", "resign"} => level # 0)
    BY <1>1, <1>3, <1>10 DEF Certs!Place
  <2> DEFINE r == Certs!Rank(op, level)  a == Certs!Rank(place.op, l)  b == Certs!Rank(op1, l1)
  <2>2. r < b <=> r < a \/ (op = place.op /\ level = l)
    <3>1. /\ op = "make" => r = 3 * level
          /\ op = "offline" => r = 3 * level + 1
          /\ op = "certify" => r = 3 * level + 2
          /\ op = "resign" => r = 3 * n + level
          /\ op = "sign_message" => r = 4 * n
          /\ op = "verify_message" => r = 4 * n + 1
          /\ op = "verify_cert" => r = 5 * n + 1 - level
      BY <1>6
    <3>2. /\ place.op = "throw_away" => a = l - n
          /\ place.op = "make" => a = 3 * l
          /\ place.op = "offline" => a = 3 * l + 1
          /\ place.op = "certify" => a = 3 * l + 2
      BY <1>6
    <3>3. /\ op1 = "throw_away" => b = l1 - n
          /\ op1 = "make" => b = 3 * l1
          /\ op1 = "offline" => b = 3 * l1 + 1
          /\ op1 = "certify" => b = 3 * l1 + 2
          /\ op1 = "end" => b = 3 * n
      BY <1>6
    <3> HIDE DEF r, a, b
    <3>4. CASE place.op = "throw_away"
      <4>1. CASE l < n - 1
        BY <1>1, <1>7, <1>8, <2>1, <3>1, <3>2, <3>3, <3>4, <4>1
      <4>2. CASE l = n - 1
        BY <1>1, <1>7, <1>8, <2>1, <3>1, <3>2, <3>3, <3>4, <4>2
      <4> QED
        BY <1>7, <4>1, <4>2, <1>1, <3>4
    <3>5. CASE place.op = "make"
      BY <1>1, <1>7, <1>8, <2>1, <3>1, <3>2, <3>3, <3>5
    <3>6. CASE place.op = "offline"
      <4>1. CASE l = 0
        BY <1>1, <1>7, <1>8, <2>1, <3>1, <3>2, <3>3, <3>6, <4>1
      <4>2. CASE l > 0
        BY <1>1, <1>7, <1>8, <2>1, <3>1, <3>2, <3>3, <3>6, <4>2
      <4> QED
        BY <1>7, <4>1, <4>2, <1>1, <3>6
    <3>7. CASE place.op = "certify"
      <4>1. l \in Int /\ n \in Int /\ 0 < l /\ l <= n - 1 /\ a = 3 * l + 2
        BY <1>1, <1>7, <3>2, <3>7
      <4>2. b = a + 1
        BY <1>1, <1>8, <3>3, <3>7, <4>1
      <4>3. r \in Int
        BY <1>1, <2>1, <3>1
      <4>4. r = 3 * l + 2 <=> op = "certify" /\ level = l
        BY <1>1, <2>1, <3>1, <4>1
      <4> QED
        BY <3>7, <4>1, <4>2, <4>3, <4>4
    <3> QED
      BY <1>7, <3>4, <3>5, <3>6, <3>7
  <2> QED
    BY <1>5, <2>2 DEF Certs!Passed
<1> QED
  BY <1>8, <1>9, <1>10 DEF GoesOn, op1, l1

LEMMA OoDilithiumGoesOn ==
  ASSUME Certs!StateInv, Certs!CertChainAssumption, stage = "run", Keeps,
         scheme = "oodilithium", place.op # "end", place' = Certs!OoDilithium
  PROVE  GoesOn
<1> DEFINE l == place.level   n == chain_length
           op1 == place'.op   l1 == place'.level
<1>1. n \in Nat \ {0} /\ Certs!Client \in Nat /\ Certs!Client = n - 1 /\ Certs!Levels = 0 .. n - 1
  BY LevelsAre
<1>2. place = Certs!At(place.op, l) /\ Certs!Place(place.op, l)
  BY DEF Certs!StateInv, Certs!PlaceInv, Certs!Working
<1>3. Certs!Ops = {"throw_away", "make", "offline", "certify", "resign"}
  BY DEF Certs!Ops, Certs!SetupOps
<1>4. \A op, level : Certs!Place(op, level)' <=> Certs!Place(op, level)
  BY DEF Keeps, Certs!Place, Certs!Ops, Certs!Levels, Certs!Client
<1>5. \A op, level : Certs!Passed(op, level)' <=> Certs!Rank(op, level) < Certs!Rank(op1, l1)
  BY SameRank DEF Certs!Passed
<1>6. \A op, level :
        LET r == Certs!Rank(op, level)
        IN  /\ op = "throw_away" => r = level - n
            /\ op = "make" => r = 3 * level
            /\ op = "offline" => r = 3 * level + 1
            /\ op = "certify" => r = 3 * level + 2
            /\ op = "resign" => r = 3 * n + level
            /\ op = "sign_message" => r = 4 * n
            /\ op = "verify_message" => r = 4 * n + 1
            /\ op = "verify_cert" => r = 5 * n + 1 - level
            /\ op = "end" => r = 5 * n + 1
  BY <1>1 DEF Certs!Rank
<1>7. /\ l \in 0 .. n - 1 /\ place.op \in {"resign", "sign_message", "verify_message", "verify_cert"}
      /\ (place.op \in {"sign_message", "verify_message"} => l = n - 1)
      /\ (place.op \in {"certify", "verify_cert", "resign"} => l # 0)
  BY <1>1, <1>2, <1>3 DEF Certs!Place, Certs!StateInv, Certs!PlaceInv, Certs!Working, Certs!SetupOps
<1>8. /\ place' = Certs!At(op1, l1)
      /\ \/ place.op = "resign" /\ l < n - 1 /\ op1 = "resign" /\ l1 = l + 1
         \/ place.op = "resign" /\ l = n - 1 /\ op1 = "sign_message" /\ l1 = n - 1
         \/ place.op = "sign_message" /\ op1 = "verify_message" /\ l1 = n - 1
         \/ place.op = "verify_message" /\ n > 1 /\ op1 = "verify_cert" /\ l1 = n - 1
         \/ place.op = "verify_message" /\ n = 1 /\ op1 = "end" /\ l1 = 0
         \/ place.op = "verify_cert" /\ l > 1 /\ op1 = "verify_cert" /\ l1 = l - 1
         \/ place.op = "verify_cert" /\ l = 1 /\ op1 = "end" /\ l1 = 0
  <2>1. CASE place.op = "resign"
    BY <1>1, <1>2, <1>7, <2>1 DEF Certs!OoDilithium, Certs!ResignChain, Certs!Upward, Certs!AfterSigning, Certs!VerifyChain, Certs!Downward, Certs!At, Certs!End
  <2>2. CASE place.op = "sign_message"
    BY <1>1, <1>2, <1>7, <2>2 DEF Certs!OoDilithium, Certs!ResignChain, Certs!Upward, Certs!AfterSigning, Certs!VerifyChain, Certs!Downward, Certs!At, Certs!End
  <2>3. CASE place.op = "verify_message"
    BY <1>1, <1>2, <1>7, <2>3 DEF Certs!OoDilithium, Certs!ResignChain, Certs!Upward, Certs!AfterSigning, Certs!VerifyChain, Certs!Downward, Certs!At, Certs!End
  <2>4. CASE place.op = "verify_cert"
    BY <1>1, <1>2, <1>7, <2>4 DEF Certs!OoDilithium, Certs!ResignChain, Certs!Upward, Certs!AfterSigning, Certs!VerifyChain, Certs!Downward, Certs!At, Certs!End
  <2> QED
    BY <1>7, <2>1, <2>2, <2>3, <2>4
<1>9. Certs!Place(place.op, place.level)'
  <2>1. /\ l1 \in 0 .. n - 1
        /\ op1 \in {"throw_away", "make", "offline", "certify", "resign", "sign_message", "verify_message", "verify_cert", "end"}
        /\ (op1 \in {"sign_message", "verify_message"} => l1 = n - 1)
        /\ (op1 \in {"certify", "verify_cert", "resign"} => l1 # 0) /\ (op1 = "end" => l1 = 0)
    BY <1>1, <1>7, <1>8
  <2>2. Certs!Place(op1, l1)
    BY <1>1, <1>3, <2>1 DEF Certs!Place
  <2> QED
    BY <1>4, <2>2
<1> HIDE DEF op1, l1
<1>10. ASSUME NEW op, NEW level, Certs!Place(op, level), op \notin {"end", "throw_away"}
       PROVE  Certs!Passed(op, level)' <=> Certs!Passed(op, level) \/ (op = place.op /\ level = l)
  <2>1. /\ level \in 0 .. n - 1
        /\ op \in {"make", "offline", "certify", "resign", "sign_message", "verify_message", "verify_cert"}
        /\ (op \in {"sign_message", "verify_message"} => level = n - 1)
        /\ (op \in {"certify", "verify_cert", "resign"} => level # 0)
    BY <1>1, <1>3, <1>10 DEF Certs!Place
  <2> DEFINE r == Certs!Rank(op, level)  a == Certs!Rank(place.op, l)  b == Certs!Rank(op1, l1)
  <2>2. r < b <=> r < a \/ (op = place.op /\ level = l)
    <3>1. /\ op = "make" => r = 3 * level
          /\ op = "offline" => r = 3 * level + 1
          /\ op = "certify" => r = 3 * level + 2
          /\ op = "resign" => r = 3 * n + level
          /\ op = "sign_message" => r = 4 * n
          /\ op = "verify_message" => r = 4 * n + 1
          /\ op = "verify_cert" => r = 5 * n + 1 - level
      BY <1>6
    <3>2. /\ place.op = "resign" => a = 3 * n + l
          /\ place.op = "sign_message" => a = 4 * n
          /\ place.op = "verify_message" => a = 4 * n + 1
          /\ place.op = "verify_cert" => a = 5 * n + 1 - l
      BY <1>6
    <3>3. /\ op1 = "resign" => b = 3 * n + l1
          /\ op1 = "sign_message" => b = 4 * n
          /\ op1 = "verify_message" => b = 4 * n + 1
          /\ op1 = "verify_cert" => b = 5 * n + 1 - l1
          /\ op1 = "end" => b = 5 * n + 1
      BY <1>6
    <3> HIDE DEF r, a, b
    <3>4. CASE place.op = "resign"
      BY <1>1, <1>7, <1>8, <2>1, <3>1, <3>2, <3>3, <3>4
    <3>5. CASE place.op = "sign_message"
      BY <1>1, <1>7, <1>8, <2>1, <3>1, <3>2, <3>3, <3>5
    <3>6. CASE place.op = "verify_message"
      BY <1>1, <1>7, <1>8, <2>1, <3>1, <3>2, <3>3, <3>6
    <3>7. CASE place.op = "verify_cert"
      BY <1>1, <1>7, <1>8, <2>1, <3>1, <3>2, <3>3, <3>7
    <3> QED
      BY <1>7, <3>4, <3>5, <3>6, <3>7
  <2> QED
    BY <1>5, <2>2 DEF Certs!Passed
<1> QED
  BY <1>8, <1>9, <1>10 DEF GoesOn, op1, l1
LEMMA StepGoesOn ==
  ASSUME Certs!StateInv, Certs!CertChainAssumption, Certs!Working, Keeps,
         place.op # "end", place' = Certs!Following
  PROVE  GoesOn
<1>1. scheme \in SchemeNames
  BY LevelsAre
<1>2. stage = "run" \/ (stage = "setup" /\ scheme = "oodilithium")
  BY DEF Certs!Working, Certs!StateInv
<1>3. CASE scheme = "oodilithium"
  <2>1. place' = Certs!OoDilithium
    BY <1>3 DEF Certs!Following
  <2> QED
    BY <1>2, <1>3, <2>1, SetupGoesOn, OoDilithiumGoesOn
<1>4. CASE scheme = "oofalcon"
  <2>1. place' = Certs!OoFalcon
    BY <1>4 DEF Certs!Following
  <2> QED
    BY <1>2, <1>4, <2>1, OoFalconGoesOn
<1>5. CASE scheme = "ooed25519"
  <2>1. place' = Certs!OoEd25519
    BY <1>5 DEF Certs!Following
  <2> QED
    BY <1>2, <1>5, <2>1, OoEd25519GoesOn
<1>6. CASE scheme \in {"falcon", "ed25519", "dilithium"}
  <2>1. place' = Certs!Plain
    BY <1>6 DEF Certs!Following
  <2> QED
    BY <1>2, <1>6, <2>1, PlainGoesOn
<1> QED
  BY <1>1, <1>3, <1>4, <1>5, <1>6 DEF SchemeNames

(* The operations a driver has at its levels.                              *)
LEMMA DriversHave ==
  ASSUME Certs!StateInv, Certs!CertChainAssumption
  PROVE  /\ \A x \in 1 .. Certs!Client : Certs!Place("certify", x) /\ Certs!Place("verify_cert", x)
         /\ Certs!Place("sign_message", Certs!Client) /\ Certs!Place("verify_message", Certs!Client)
         /\ scheme # "oodilithium" => \A x \in Certs!Levels : Certs!Place("keygen", x)
         /\ scheme = "oodilithium" =>
              /\ \A x \in Certs!Levels : Certs!Place("make", x)
              /\ \A x \in 1 .. Certs!Client : Certs!Place("resign", x)
         /\ scheme \in {"oofalcon", "ooed25519", "oodilithium"} =>
              \A x \in Certs!Levels : Certs!Place("offline", x)
<1>1. /\ Certs!Client \in Nat /\ Certs!Client \in Certs!Levels /\ 1 .. Certs!Client \subseteq Certs!Levels
      /\ \A x \in 1 .. Certs!Client : x # 0
  BY LevelsAre
<1>2. /\ "certify" \in Certs!Ops
      /\ scheme # "oodilithium" => "keygen" \in Certs!Ops
      /\ scheme = "oodilithium" => "make" \in Certs!Ops /\ "resign" \in Certs!Ops
      /\ scheme \in {"oofalcon", "ooed25519", "oodilithium"} => "offline" \in Certs!Ops
  BY LevelsAre DEF SchemeNames, Certs!Ops, Certs!SetupOps
<1> QED
  BY <1>1, <1>2 DEF Certs!Place

(* The order of what a driver does with the chain: keys before they are    *)
(* signed with or signed, signatures before they are verified.             *)
KeyOp == IF scheme = "oodilithium" THEN "make" ELSE "keygen"
SignOp == IF scheme = "oodilithium" THEN "resign" ELSE "certify"

LEMMA OrderIs ==
  ASSUME Certs!StateInv, Certs!CertChainAssumption
  PROVE  /\ \A x \in 1 .. Certs!Client :
              /\ Certs!Rank(KeyOp, x) < Certs!Rank("certify", x)
              /\ Certs!Rank(KeyOp, x - 1) < Certs!Rank("certify", x)
              /\ Certs!Rank("certify", x) < Certs!Rank("verify_cert", x)
              /\ Certs!Rank("certify", x) \in Int /\ Certs!Rank("verify_cert", x) \in Int
         /\ \A x \in Certs!Levels : Certs!Rank(KeyOp, x) \in Int
         /\ Certs!Rank(KeyOp, Certs!Client) < Certs!Rank("sign_message", Certs!Client)
         /\ Certs!Rank("sign_message", Certs!Client) < Certs!Rank("verify_message", Certs!Client)
         /\ Certs!Rank("sign_message", Certs!Client) \in Int
         /\ Certs!Rank("verify_message", Certs!Client) \in Int
<1> DEFINE n == chain_length
<1>1. n \in Nat \ {0} /\ Certs!Client = n - 1 /\ Certs!Levels = 0 .. n - 1 /\ scheme \in SchemeNames
  BY LevelsAre
<1> DEFINE c == Certs!Client
<1>2. c \in Int /\ c = n - 1 /\ n \in Int /\ \A x \in Certs!Levels : x \in Int
  BY <1>1
<1>3. \A x \in Int : Certs!Rank(KeyOp, x) \in Int
  <2>1. \A x : Certs!Rank(KeyOp, x) = CASE scheme = "oofalcon" -> x [] scheme = "oodilithium" -> 3 * x [] OTHER -> 2 * x
    BY DEF Certs!Rank, KeyOp
  <2> QED
    BY <2>1
<1>4. ASSUME NEW x \in 1 .. c
      PROVE  /\ Certs!Rank(KeyOp, x) < Certs!Rank("certify", x)
             /\ Certs!Rank(KeyOp, x - 1) < Certs!Rank("certify", x)
             /\ Certs!Rank("certify", x) < Certs!Rank("verify_cert", x)
             /\ Certs!Rank("certify", x) \in Int /\ Certs!Rank("verify_cert", x) \in Int
  <2>1. x \in Nat /\ 1 <= x /\ x <= n - 1
    BY <1>1
  <2>2. CASE scheme = "oofalcon"
    <3>1. /\ Certs!Rank(KeyOp, x) = x /\ Certs!Rank(KeyOp, x - 1) = x - 1
          /\ Certs!Rank("certify", x) = n + 3 * (n - x) + 1
          /\ Certs!Rank("verify_cert", x) = n + 3 * (n - x) + 2
      BY <2>2 DEF Certs!Rank, KeyOp
    <3> QED
      BY <1>2, <2>1, <3>1
  <2>3. CASE scheme = "oodilithium"
    <3>1. /\ Certs!Rank(KeyOp, x) = 3 * x /\ Certs!Rank(KeyOp, x - 1) = 3 * (x - 1)
          /\ Certs!Rank("certify", x) = 3 * x + 2
          /\ Certs!Rank("verify_cert", x) = 5 * n + 1 - x
      BY <2>3 DEF Certs!Rank, KeyOp
    <3> QED
      BY <1>2, <2>1, <3>1
  <2>4. CASE scheme \notin {"oofalcon", "oodilithium"}
    <3>1. /\ Certs!Rank(KeyOp, x) = 2 * x /\ Certs!Rank(KeyOp, x - 1) = 2 * (x - 1)
          /\ Certs!Rank("certify", x) = 2 * n + x \/ Certs!Rank("certify", x) = 2 * x + 1
          /\ Certs!Rank("verify_cert", x) = 5 * n + 1 - x
      BY <2>4 DEF Certs!Rank, KeyOp
    <3> QED
      BY <1>2, <2>1, <3>1
  <2> QED
    BY <2>2, <2>3, <2>4
<1>5. /\ Certs!Rank(KeyOp, c) < Certs!Rank("sign_message", c)
      /\ Certs!Rank("sign_message", c) < Certs!Rank("verify_message", c)
      /\ Certs!Rank("sign_message", c) \in Int /\ Certs!Rank("verify_message", c) \in Int
  <2>1. CASE scheme = "oofalcon"
    <3>1. /\ Certs!Rank(KeyOp, c) = c
          /\ Certs!Rank("sign_message", c) = n + 1 /\ Certs!Rank("verify_message", c) = n + 2
      BY <2>1 DEF Certs!Rank, KeyOp
    <3> QED
      BY <1>2, <3>1
  <2>2. CASE scheme # "oofalcon"
    <3>1. /\ Certs!Rank(KeyOp, c) = 3 * c \/ Certs!Rank(KeyOp, c) = 2 * c
          /\ Certs!Rank("sign_message", c) = 4 * n /\ Certs!Rank("verify_message", c) = 4 * n + 1
      BY <2>2 DEF Certs!Rank, KeyOp
    <3> QED
      BY <1>1, <1>2, <3>1
  <2> QED
    BY <2>1, <2>2
<1> QED
  BY <1>2, <1>3, <1>4, <1>5

LEMMA PresentRank ==
  ASSUME Certs!StateInv, Certs!CertChainAssumption, Certs!Working
  PROVE  Certs!Rank(place.op, place.level) \in Int
<1> DEFINE n == chain_length  l == place.level
<1>1. n \in Int /\ Certs!Client \in Int /\ Certs!Levels \subseteq Int /\ scheme \in SchemeNames
  BY LevelsAre
<1>2. l \in Int /\ Certs!Place(place.op, l)
  BY <1>1 DEF Certs!StateInv, Certs!PlaceInv, Certs!Place
<1>3. place.op \in {"throw_away", "make", "keygen", "offline", "certify", "resign", "allocate",
                    "sign_message", "verify_message", "verify_cert", "end"}
  BY <1>1, <1>2 DEF Certs!Place, Certs!Ops, Certs!SetupOps, SchemeNames
<1> HIDE DEF l
<1>4. /\ Certs!Rank("throw_away", l) = l - n /\ Certs!Rank("make", l) = 3 * l
      /\ Certs!Rank("keygen", l) = l \/ Certs!Rank("keygen", l) = 2 * l
      /\ Certs!Rank("allocate", l) = 2 * n /\ Certs!Rank("resign", l) = 3 * n + l
  BY DEF Certs!Rank
<1>5. Certs!Rank("offline", l) \in {n + 3 * (Certs!Client - l), 3 * l + 1, 2 * l + 1}
  BY DEF Certs!Rank
<1>6. Certs!Rank("certify", l) \in {n + 3 * (n - l) + 1, 3 * l + 2, 2 * n + l, 2 * l + 1}
  BY DEF Certs!Rank
<1>7. /\ Certs!Rank("sign_message", l) \in {n + 1, 4 * n}
      /\ Certs!Rank("verify_message", l) \in {n + 2, 4 * n + 1}
      /\ Certs!Rank("verify_cert", l) \in {n + 3 * (n - l) + 2, 5 * n + 1 - l}
      /\ Certs!Rank("end", l) \in {3 * n, 5 * n + 1}
  BY DEF Certs!Rank
<1> HIDE DEF n
<1>8. /\ Certs!Rank("throw_away", l) \in Int /\ Certs!Rank("make", l) \in Int /\ Certs!Rank("keygen", l) \in Int
      /\ Certs!Rank("allocate", l) \in Int /\ Certs!Rank("resign", l) \in Int
  BY <1>1, <1>2, <1>4
<1>9. Certs!Rank("offline", l) \in Int /\ Certs!Rank("certify", l) \in Int
  BY <1>1, <1>2, <1>5, <1>6
<1>10. /\ Certs!Rank("sign_message", l) \in Int /\ Certs!Rank("verify_message", l) \in Int
       /\ Certs!Rank("verify_cert", l) \in Int /\ Certs!Rank("end", l) \in Int
  BY <1>1, <1>2, <1>7
<1> QED
  BY <1>3, <1>8, <1>9, <1>10, Zenon DEF l

(* What the order says of the present place.                               *)
LEMMA InOrder ==
  ASSUME Certs!StateInv, Certs!CertChainAssumption, Certs!Working
  PROVE  /\ \A x \in 1 .. Certs!Client :
              /\ Certs!Passed("certify", x) \/ place = Certs!At("certify", x) =>
                   Certs!Passed(KeyOp, x) /\ Certs!Passed(KeyOp, x - 1)
              /\ Certs!Passed("verify_cert", x) \/ place = Certs!At("verify_cert", x) =>
                   Certs!Passed("certify", x)
              /\ ~(Certs!Passed("certify", x) /\ place = Certs!At("certify", x))
         /\ Certs!Passed("sign_message", Certs!Client) \/ place = Certs!At("sign_message", Certs!Client) =>
              Certs!Passed(KeyOp, Certs!Client)
         /\ Certs!Passed("verify_message", Certs!Client) \/ place = Certs!At("verify_message", Certs!Client) =>
              Certs!Passed("sign_message", Certs!Client)
         /\ ~(Certs!Passed("sign_message", Certs!Client) /\ place = Certs!At("sign_message", Certs!Client))
         /\ \A x \in Certs!Levels : ~(Certs!Passed(KeyOp, x) /\ place = Certs!At(KeyOp, x))
<1> DEFINE p == Certs!Rank(place.op, place.level)
<1>1. p \in Int
  BY PresentRank
<1>2. \A op, x : place = Certs!At(op, x) => Certs!Rank(op, x) = p
  BY DEF Certs!At
<1>3. \A op, x : Certs!Passed(op, x) <=> Certs!Rank(op, x) < p
  BY DEF Certs!Passed
<1>4. Certs!Client \in Nat /\ \A x \in 1 .. Certs!Client : x \in Certs!Levels /\ x - 1 \in Certs!Levels
  BY LevelsAre
<1>5. Certs!Client \in Certs!Levels
  BY LevelsAre
<1> HIDE DEF p
<1>6. ASSUME NEW x \in 1 .. Certs!Client
      PROVE  /\ Certs!Passed("certify", x) \/ place = Certs!At("certify", x) =>
                  Certs!Passed(KeyOp, x) /\ Certs!Passed(KeyOp, x - 1)
             /\ Certs!Passed("verify_cert", x) \/ place = Certs!At("verify_cert", x) =>
                  Certs!Passed("certify", x)
             /\ ~(Certs!Passed("certify", x) /\ place = Certs!At("certify", x))
  BY <1>1, <1>2, <1>3, <1>4, OrderIs
<1> QED
  BY <1>1, <1>2, <1>3, <1>5, <1>6, OrderIs
-----------------------------------------------------------------------------
LEMMA PlaceKept ==
  ASSUME Certs!StateInv, Certs!CertChainAssumption, Certs!Working, Keeps, place.op # "end",
         place' = Certs!Following,
         iter' = IF place.op = "throw_away" /\ place.level = Certs!Client THEN iter + 1 ELSE iter
  PROVE  Certs!PlaceInv' /\ iter' \in 0 .. iterations /\ (stage = "run" => iter' = iter)
<1>1. GoesOn
  BY StepGoesOn
<1>2. place' = Certs!At(place'.op, place'.level) /\ Certs!Place(place.op, place.level)'
  BY <1>1 DEF GoesOn
<1>3. /\ iter \in 0 .. iterations /\ iterations \in Nat
      /\ place = Certs!At(place.op, place.level) /\ Certs!Place(place.op, place.level)
  BY DEF Certs!StateInv, Certs!TypeOK, Certs!PlaceInv, Certs!Working
<1>4. Certs!Client \in Nat /\ Certs!Levels = 0 .. Certs!Client /\ place.level \in 0 .. Certs!Client
  BY <1>3, LevelsAre DEF Certs!Place
<1>5. CASE stage = "setup"
  <2>1. /\ scheme = "oodilithium" /\ place.op \in {"throw_away", "make", "offline", "certify"}
        /\ iter < iterations <=> place.op = "throw_away"
    BY <1>5 DEF Certs!StateInv, Certs!PlaceInv, Certs!Working, Certs!SetupOps
  <2>2. place' = Certs!OoDilithium
    BY <2>1 DEF Certs!Following
  <2>3. CASE place.op = "throw_away"
    <3>1. place' = IF place.level < Certs!Client THEN Certs!At("throw_away", place.level + 1)
                   ELSE IF iter + 1 < iterations THEN Certs!At("throw_away", 0) ELSE Certs!At("make", 0)
      BY <1>4, <2>2, <2>3 DEF Certs!OoDilithium, Certs!Upward
    <3>2. /\ place'.op \in {"throw_away", "make"} /\ iter' \in 0 .. iterations
          /\ iter' < iterations <=> place'.op = "throw_away"
      BY <1>3, <1>4, <2>1, <2>3, <3>1 DEF Certs!At
    <3> QED
      BY <1>2, <1>5, <2>1, <3>2 DEF Keeps, Certs!PlaceInv, Certs!SetupOps
  <2>4. CASE place.op # "throw_away"
    <3>1. place'.op \in {"make", "offline", "certify", "end"}
      BY <2>1, <2>2, <2>4 DEF Certs!OoDilithium, Certs!Upward, Certs!At, Certs!End
    <3>2. iter' = iter /\ ~(iter < iterations)
      BY <2>1, <2>4
    <3> QED
      BY <1>2, <1>3, <1>5, <2>1, <3>1, <3>2 DEF Keeps, Certs!PlaceInv, Certs!SetupOps
  <2> QED
    BY <2>3, <2>4
<1>6. CASE stage = "run"
  <2>1. iter' = iter
    <3>1. place.op # "throw_away"
      <4>1. scheme = "oodilithium" => place.op \notin Certs!SetupOps
        BY <1>6 DEF Certs!StateInv, Certs!PlaceInv, Certs!Working
      <4> QED
        BY <1>3, <4>1, LevelsAre DEF Certs!SetupOps, Certs!Place, Certs!Ops, SchemeNames
    <3> QED
      BY <3>1
  <2>2. scheme = "oodilithium" => place'.op \notin Certs!SetupOps
    <3> SUFFICES ASSUME scheme = "oodilithium" PROVE place'.op \notin Certs!SetupOps
      OBVIOUS
    <3>1. /\ place' = Certs!OoDilithium
          /\ place.op \in {"resign", "sign_message", "verify_message", "verify_cert"}
      BY <1>3, <1>6 DEF Certs!Following, Certs!StateInv, Certs!PlaceInv, Certs!Working, Certs!Place, Certs!Ops, Certs!SetupOps
    <3>2. place'.op \in {"resign", "sign_message", "verify_message", "verify_cert", "end"}
      <4>1. CASE place.op = "resign"
        BY <3>1, <4>1 DEF Certs!OoDilithium, Certs!ResignChain, Certs!Upward, Certs!At, Certs!End
      <4>2. CASE place.op # "resign"
        <5>1. place' = Certs!AfterSigning
          BY <3>1, <4>2 DEF Certs!OoDilithium
        <5> QED
          BY <3>1, <4>2, <5>1 DEF Certs!AfterSigning, Certs!VerifyChain, Certs!Downward, Certs!At, Certs!End
      <4> QED
        BY <4>1, <4>2
    <3> QED
      BY <3>2 DEF Certs!SetupOps
  <2> QED
    BY <1>2, <1>3, <1>6, <2>1, <2>2 DEF Keeps, Certs!PlaceInv
<1> QED
  BY <1>5, <1>6 DEF Certs!Working

(* An operation that leaves the iteration's number alone.                  *)
LEMMA GoIs ==
  ASSUME Certs!StateInv, Certs!CertChainAssumption, NEW op, op \notin {"end", "throw_away"},
         Certs!Doing(op), Certs!Go
  PROVE  /\ Certs!Working /\ place = Certs!At(op, place.level) /\ Certs!Place(op, place.level)
         /\ Keeps /\ iter' = iter /\ Certs!PlaceInv' /\ GoesOn
<1>1. Certs!Working /\ place.op = op /\ Keeps /\ iter' = iter /\ place' = Certs!Following
  BY DEF Certs!Doing, Certs!Working, Certs!Go, Keeps
<1>2. place = Certs!At(op, place.level) /\ Certs!Place(op, place.level)
  BY <1>1 DEF Certs!StateInv, Certs!PlaceInv
<1>3. GoesOn
  BY <1>1, StepGoesOn
<1> QED
  BY <1>1, <1>2, <1>3, PlaceKept

(* What is passed after a step.                                            *)
LEMMA Moves ==
  ASSUME Certs!StateInv, Certs!CertChainAssumption, Certs!Working, Keeps, GoesOn
  PROVE  /\ \A x \in 1 .. Certs!Client :
              /\ Certs!Passed("certify", x)' <=> Certs!Passed("certify", x) \/ place = Certs!At("certify", x)
              /\ Certs!Passed("verify_cert", x)' <=>
                   Certs!Passed("verify_cert", x) \/ place = Certs!At("verify_cert", x)
              /\ scheme = "oodilithium" =>
                   (Certs!Passed("resign", x)' <=> Certs!Passed("resign", x) \/ place = Certs!At("resign", x))
         /\ Certs!Passed("sign_message", Certs!Client)' <=>
              Certs!Passed("sign_message", Certs!Client) \/ place = Certs!At("sign_message", Certs!Client)
         /\ Certs!Passed("verify_message", Certs!Client)' <=>
              Certs!Passed("verify_message", Certs!Client) \/ place = Certs!At("verify_message", Certs!Client)
         /\ \A x \in Certs!Levels :
              /\ Certs!Passed(KeyOp, x)' <=> Certs!Passed(KeyOp, x) \/ place = Certs!At(KeyOp, x)
              /\ scheme \in {"oofalcon", "ooed25519", "oodilithium"} =>
                   (Certs!Passed("offline", x)' <=> Certs!Passed("offline", x) \/ place = Certs!At("offline", x))
<1>1. place = Certs!At(place.op, place.level)
  BY DEF Certs!StateInv, Certs!PlaceInv
<1>2. \A op, x : place = Certs!At(op, x) <=> op = place.op /\ x = place.level
  BY <1>1 DEF Certs!At
<1>3. \A op, x : Certs!Place(op, x) /\ op \notin {"end", "throw_away"} =>
                   (Certs!Passed(op, x)' <=> Certs!Passed(op, x) \/ place = Certs!At(op, x))
  BY <1>2 DEF GoesOn
<1>4. Certs!Client' = Certs!Client /\ KeyOp' = KeyOp
  BY DEF Keeps, Certs!Client, KeyOp
<1>5. \A x \in Certs!Levels : Certs!Place(KeyOp, x) /\ KeyOp \notin {"end", "throw_away"}
  BY DriversHave DEF KeyOp
<1> QED
  BY <1>3, <1>4, <1>5, DriversHave
-----------------------------------------------------------------------------
(* The state has its types after a step.                                   *)
TimesAre == [Certs!Kinds -> [Certs!Levels -> 0 .. iterations]]

LEMMA TimedIs ==
  ASSUME times \in TimesAre, NEW kind \in Certs!Kinds, NEW level \in Certs!Levels,
         Certs!Timed(kind, level)
  PROVE  /\ \A k \in Certs!Kinds, x \in Certs!Levels :
              times'[k][x] = IF k = kind /\ x = level THEN times[k][x] + 1 ELSE times[k][x]
         /\ times[kind][level] + 1 \in 0 .. iterations => times' \in TimesAre
BY DEF Certs!Timed, TimesAre

LEMMA TypesAre ==
  ASSUME Certs!StateInv, Certs!CertChainAssumption
  PROVE  /\ iterations \in Nat \ {0} /\ made \in Nat /\ iter \in 0 .. iterations
         /\ chain_keys \in [Certs!Levels -> 0 .. made]
         /\ certs \in [Certs!Levels -> [by : 0 .. made, over : 0 .. made]]
         /\ msg_sig \in [by : 0 .. made, over : 0 .. made]
         /\ sample \in [key : 0 .. made, id : Nat]
         /\ times \in TimesAre /\ complaints \subseteq Certs!Levels
         /\ stage = "run" => iter < iterations
         /\ Certs!Working => place.level \in Certs!Levels
BY DEF Certs!StateInv, Certs!TypeOK, Certs!CertChainAssumption, TimesAre, Certs!PlaceInv, Certs!Place, Certs!Working

LEMMA LevelsStay ==
  ASSUME Keeps
  PROVE  Certs!Levels' = Certs!Levels /\ Certs!Client' = Certs!Client /\ TimesAre' = [Certs!Kinds -> [Certs!Levels -> 0 .. iterations]]
BY DEF Keeps, Certs!Levels, Certs!Client, TimesAre, Certs!Kinds

(* What a step within an iteration has to show.                            *)
LEMMA StateFrom ==
  ASSUME Certs!StateInv, Certs!CertChainAssumption, Keeps, Certs!PlaceInv',
         iter' \in 0 .. iterations, stage = "run" => iter' < iterations,
         made' \in Nat, chain_keys' \in [Certs!Levels -> 0 .. made'],
         certs' \in [Certs!Levels -> [by : 0 .. made', over : 0 .. made']],
         msg_sig' \in [by : 0 .. made', over : 0 .. made'],
         sample' \in [key : 0 .. made', id : Nat],
         times' \in TimesAre, complaints' \subseteq Certs!Levels, any_failed' \in BOOLEAN, reused' \in BOOLEAN
  PROVE  Certs!StateInv'
<1>1. Certs!Levels' = Certs!Levels /\ Certs!Kinds' = Certs!Kinds
  BY LevelsStay DEF Certs!Kinds
<1>2. Certs!TypeOK'
  BY <1>1 DEF Keeps, Certs!StateInv, Certs!TypeOK, TimesAre
<1> QED
  BY <1>2 DEF Keeps, Certs!StateInv

(* Before an operation is timed, there is room for one more.               *)
LEMMA RoomForTime ==
  ASSUME Certs!StateInv, Certs!CertChainAssumption, Certs!TimesInv, Certs!Working
  PROVE  /\ \A x \in Certs!Levels :
              /\ place = Certs!At("keygen", x) => times["keygen"][x] + 1 \in 0 .. iterations
              /\ place = Certs!At("throw_away", x) => times["keygen"][x] + 1 \in 0 .. iterations
              /\ place = Certs!At("offline", x) => times["offline"][x] + 1 \in 0 .. iterations
              /\ stage = "run" /\ ~Certs!Signed(x) => times["online"][x] + 1 \in 0 .. iterations
              /\ stage = "run" /\ ~Certs!Checked(x) => times["verify"][x] + 1 \in 0 .. iterations
<1>1. iterations \in Nat \ {0} /\ iter \in 0 .. iterations /\ (stage = "run" => iter < iterations)
  BY TypesAre
<1>2. Certs!Rank(place.op, place.level) \in Int
  BY PresentRank
<1>3. \A op, x : place = Certs!At(op, x) => place.op = op /\ place.level = x /\ ~Certs!Passed(op, x)
  BY <1>2 DEF Certs!Passed, Certs!At
<1> SUFFICES ASSUME NEW x \in Certs!Levels
             PROVE  /\ place = Certs!At("keygen", x) => times["keygen"][x] + 1 \in 0 .. iterations
                    /\ place = Certs!At("throw_away", x) => times["keygen"][x] + 1 \in 0 .. iterations
                    /\ place = Certs!At("offline", x) => times["offline"][x] + 1 \in 0 .. iterations
                    /\ stage = "run" /\ ~Certs!Signed(x) => times["online"][x] + 1 \in 0 .. iterations
                    /\ stage = "run" /\ ~Certs!Checked(x) => times["verify"][x] + 1 \in 0 .. iterations
  OBVIOUS
<1>4. /\ times["keygen"][x] =
            CASE scheme # "oodilithium" -> iter + Certs!One(Certs!Passed("keygen", x))
              [] stage = "setup" -> iter + Certs!One(place.op = "throw_away" /\ x < place.level)
              [] OTHER -> iterations
      /\ times["offline"][x] =
            CASE scheme = "oodilithium" -> Certs!One(Certs!Passed("offline", x))
              [] scheme \in {"oofalcon", "ooed25519"} -> iter + Certs!One(Certs!Passed("offline", x))
              [] OTHER -> 0
      /\ times["online"][x] = Certs!Runs + Certs!One(Certs!Signed(x))
      /\ times["verify"][x] = Certs!Runs + Certs!One(Certs!Checked(x))
  BY DEF Certs!TimesInv
<1>5. ASSUME place = Certs!At("keygen", x) PROVE times["keygen"][x] + 1 \in 0 .. iterations
  <2>1. scheme # "oodilithium" /\ stage = "run"
    BY <1>3, <1>5, LevelsAre DEF Certs!StateInv, Certs!PlaceInv, Certs!Place, Certs!Ops, Certs!SetupOps, Certs!Working
  <2>2. times["keygen"][x] = iter
    BY <1>1, <1>3, <1>4, <1>5, <2>1 DEF Certs!One
  <2> QED
    BY <1>1, <2>1, <2>2
<1>6. ASSUME place = Certs!At("throw_away", x) PROVE times["keygen"][x] + 1 \in 0 .. iterations
  <2>1. scheme = "oodilithium" /\ stage = "setup" /\ iter < iterations
    BY <1>3, <1>6, LevelsAre DEF Certs!StateInv, Certs!PlaceInv, Certs!Place, Certs!Ops, Certs!SetupOps, Certs!Working, SchemeNames
  <2>2. times["keygen"][x] = iter
    <3>1. ~(x < place.level)
      BY <1>3, <1>6, LevelsAre
    <3> QED
      BY <1>1, <1>4, <2>1, <3>1 DEF Certs!One
  <2> QED
    BY <1>1, <2>1, <2>2
<1>7. ASSUME place = Certs!At("offline", x) PROVE times["offline"][x] + 1 \in 0 .. iterations
  <2>1. ~Certs!Passed("offline", x)
    BY <1>3, <1>7
  <2>2. CASE scheme = "oodilithium"
    <3>1. times["offline"][x] = 0
      BY <1>4, <2>1, <2>2 DEF Certs!One
    <3> QED
      BY <1>1, <3>1
  <2>3. CASE scheme # "oodilithium"
    <3>1. stage = "run"
      BY <2>3 DEF Certs!StateInv, Certs!Working
    <3>2. times["offline"][x] = iter \/ times["offline"][x] = 0
      BY <1>1, <1>4, <2>1, <2>3 DEF Certs!One
    <3> QED
      BY <1>1, <3>1, <3>2
  <2> QED
    BY <2>2, <2>3
<1>8. ASSUME stage = "run", ~Certs!Signed(x) PROVE times["online"][x] + 1 \in 0 .. iterations
  BY <1>1, <1>4, <1>8 DEF Certs!One, Certs!Runs
<1>9. ASSUME stage = "run", ~Certs!Checked(x) PROVE times["verify"][x] + 1 \in 0 .. iterations
  BY <1>1, <1>4, <1>9 DEF Certs!One, Certs!Runs
<1> QED
  BY <1>5, <1>6, <1>7, <1>8, <1>9
LEMMA NotPassed ==
  ASSUME Certs!StateInv, Certs!CertChainAssumption, Certs!Working, NEW op, NEW x, place = Certs!At(op, x)
  PROVE  ~Certs!Passed(op, x)
BY PresentRank DEF Certs!Passed, Certs!At

(* Which level signs, or is verified with, at the present place.           *)
LEMMA SignerIs ==
  ASSUME Certs!StateInv, Certs!CertChainAssumption, Certs!Working
  PROVE  /\ \A x \in Certs!Levels : place = Certs!At("certify", x) \/ place = Certs!At("resign", x) =>
              /\ x \in 1 .. Certs!Client /\ x - 1 \in Certs!Levels /\ x - 1 < Certs!Client
              /\ place = Certs!At(SignOp, x) => ~Certs!Signed(x - 1)
         /\ \A x \in Certs!Levels : place = Certs!At("verify_cert", x) =>
              x \in 1 .. Certs!Client /\ x - 1 \in Certs!Levels /\ ~Certs!Checked(x - 1)
         /\ \A x \in Certs!Levels : place = Certs!At("sign_message", x) => x = Certs!Client /\ ~Certs!Signed(x)
         /\ \A x \in Certs!Levels : place = Certs!At("verify_message", x) => x = Certs!Client /\ ~Certs!Checked(x)
<1>1. /\ Certs!Client \in Nat /\ Certs!Levels = 0 .. Certs!Client
  BY LevelsAre
<1>2. \A op, x : place = Certs!At(op, x) => Certs!Place(op, x) /\ ~Certs!Passed(op, x)
  BY NotPassed DEF Certs!StateInv, Certs!PlaceInv, Certs!At
<1>3. ASSUME NEW x \in Certs!Levels, place = Certs!At("certify", x) \/ place = Certs!At("resign", x)
      PROVE  /\ x \in 1 .. Certs!Client /\ x - 1 \in Certs!Levels /\ x - 1 < Certs!Client
             /\ place = Certs!At(SignOp, x) => ~Certs!Signed(x - 1)
  <2>1. x # 0 /\ x \in Int /\ 0 <= x /\ x <= Certs!Client
    BY <1>1, <1>2, <1>3 DEF Certs!Place
  <2>2. x \in 1 .. Certs!Client /\ x - 1 \in Certs!Levels /\ x - 1 < Certs!Client /\ x - 1 + 1 = x /\ x - 1 # Certs!Client
    BY <1>1, <2>1
  <2>3. Certs!Signed(x - 1) <=> Certs!Passed(SignOp, x)
    BY <2>2 DEF Certs!Signed, SignOp
  <2> QED
    BY <1>2, <2>2, <2>3
<1>4. ASSUME NEW x \in Certs!Levels, place = Certs!At("verify_cert", x)
      PROVE  x \in 1 .. Certs!Client /\ x - 1 \in Certs!Levels /\ ~Certs!Checked(x - 1)
  <2>1. x # 0 /\ x \in Int /\ 0 <= x /\ x <= Certs!Client
    BY <1>1, <1>2, <1>4 DEF Certs!Place
  <2>2. x \in 1 .. Certs!Client /\ x - 1 \in Certs!Levels /\ x - 1 + 1 = x /\ x - 1 # Certs!Client
    BY <1>1, <2>1
  <2>3. Certs!Checked(x - 1) <=> Certs!Passed("verify_cert", x)
    BY <2>2 DEF Certs!Checked
  <2> QED
    BY <1>2, <1>4, <2>2, <2>3
<1>5. \A x \in Certs!Levels : place = Certs!At("sign_message", x) => x = Certs!Client /\ ~Certs!Signed(x)
  BY <1>2 DEF Certs!Place, Certs!Signed
<1>6. \A x \in Certs!Levels : place = Certs!At("verify_message", x) => x = Certs!Client /\ ~Certs!Checked(x)
  BY <1>2 DEF Certs!Place, Certs!Checked
<1> QED
  BY <1>3, <1>4, <1>5, <1>6

(* What a signing may leave.                                               *)
CertSigs == [by : 0 .. made, over : 0 .. made]

LEMMA AttemptsAre ==
  ASSUME Certs!StateInv, Certs!CertChainAssumption, NEW level \in Certs!Levels, NEW over \in 0 .. made,
         NEW old \in CertSigs
  PROVE  Certs!Attempts(level, over, old) \subseteq CertSigs
<1>1. made \in Nat /\ sample.key \in 0 .. made /\ chain_keys[level] \in 0 .. made /\ 0 \in 0 .. made
  BY TypesAre
<1>2. Certs!Signature(level, over) \in CertSigs /\ Certs!None \in CertSigs
  BY <1>1 DEF Certs!Signature, Certs!None, CertSigs
<1> QED
  BY <1>2 DEF Certs!Attempts

LEMMA SignsState ==
  ASSUME Certs!StateInv, Certs!CertChainAssumption, Certs!TimesInv, NEW op, op \notin {"end", "throw_away"},
         Certs!Doing(op), NEW level \in Certs!Levels, NEW over, NEW new,
         Certs!Signs(level, over, new), stage = "run" => ~Certs!Signed(level),
         certs' \in [Certs!Levels -> CertSigs], msg_sig' \in CertSigs
  PROVE  Certs!StateInv'
<1>1. Certs!Working /\ Keeps /\ iter' = iter /\ Certs!PlaceInv'
  BY GoIs DEF Certs!Signs
<1>2. times' \in TimesAre
  <2>1. CASE stage = "run"
    <3>1. Certs!Timed("online", level) /\ "online" \in Certs!Kinds
      BY <2>1 DEF Certs!Signs, Certs!Kinds
    <3>2. times["online"][level] + 1 \in 0 .. iterations
      BY <1>1, <2>1, RoomForTime
    <3> QED
      BY <3>1, <3>2, TypesAre, TimedIs
  <2>2. CASE stage # "run"
    BY <2>2, TypesAre DEF Certs!Signs
  <2> QED
    BY <2>1, <2>2
<1>3. any_failed' \in BOOLEAN /\ reused' \in BOOLEAN
  BY DEF Certs!Signs
<1>4. made' = made /\ chain_keys' = chain_keys /\ sample' = sample /\ complaints' = complaints
  BY DEF Certs!Signs
<1> QED
  BY <1>1, <1>2, <1>3, <1>4, TypesAre, StateFrom DEF CertSigs

LEMMA VerifyState ==
  ASSUME Certs!StateInv, Certs!CertChainAssumption, Certs!TimesInv, NEW op \in {"verify_message", "verify_cert"},
         Certs!Doing(op), NEW signer \in Certs!Levels, NEW over, NEW signature, NEW level \in Certs!Levels,
         Certs!Verify(signature, signer, over, level), ~Certs!Checked(signer)
  PROVE  Certs!StateInv'
<1>1. Certs!Working /\ Keeps /\ iter' = iter /\ Certs!PlaceInv' /\ place.op = op
  BY GoIs DEF Certs!Verify, Certs!Doing
<1>2. stage = "run"
  BY <1>1 DEF Certs!StateInv, Certs!PlaceInv, Certs!Working, Certs!SetupOps
<1>3. times' \in TimesAre
  <2>1. Certs!Timed("verify", signer) /\ "verify" \in Certs!Kinds
    BY DEF Certs!Verify, Certs!Kinds
  <2>2. times["verify"][signer] + 1 \in 0 .. iterations
    BY <1>1, <1>2, RoomForTime
  <2> QED
    BY <2>1, <2>2, TypesAre, TimedIs
<1>4. complaints' \subseteq Certs!Levels
  BY TypesAre DEF Certs!Verify
<1>5. /\ made' = made /\ chain_keys' = chain_keys /\ sample' = sample /\ any_failed' = any_failed /\ reused' = reused
      /\ certs' = certs /\ msg_sig' = msg_sig /\ any_failed \in BOOLEAN /\ reused \in BOOLEAN
  BY DEF Certs!Verify, Certs!StateInv
<1> QED
  BY <1>1, <1>3, <1>4, <1>5, TypesAre, StateFrom

LEMMA CertifyState ==
  ASSUME Certs!StateInv, Certs!CertChainAssumption, Certs!TimesInv, Certs!Certify
  PROVE  Certs!StateInv'
<1> DEFINE x == place.level
<1>1. Certs!Working /\ x \in Certs!Levels /\ place = Certs!At("certify", x)
  BY TypesAre DEF Certs!Certify, Certs!Doing, Certs!Working, Certs!StateInv, Certs!PlaceInv
<1>2. x \in 1 .. Certs!Client /\ x - 1 \in Certs!Levels
  BY <1>1, SignerIs
<1>3. PICK new \in Certs!Attempts(x - 1, chain_keys[x], certs[x]) :
         certs' = [certs EXCEPT ![x] = new] /\ Certs!Signs(x - 1, chain_keys[x], new)
  BY DEF Certs!Certify, Certs!Level
<1>4. chain_keys[x] \in 0 .. made /\ certs \in [Certs!Levels -> CertSigs] /\ msg_sig \in CertSigs
  BY <1>1, TypesAre DEF CertSigs
<1>5. new \in CertSigs
  BY <1>1, <1>2, <1>3, <1>4, AttemptsAre
<1>6. certs' \in [Certs!Levels -> CertSigs] /\ msg_sig' \in CertSigs
  BY <1>3, <1>4, <1>5 DEF Certs!Certify
<1>7. stage = "run" => ~Certs!Signed(x - 1)
  <2>1. stage = "run" => SignOp = "certify"
    BY <1>1 DEF SignOp, Certs!StateInv, Certs!PlaceInv, Certs!At, Certs!SetupOps
  <2> QED
    BY <1>1, <2>1, SignerIs
<1> HIDE DEF x
<1> QED
  BY <1>2, <1>3, <1>6, <1>7, SignsState DEF Certs!Certify

LEMMA ResignState ==
  ASSUME Certs!StateInv, Certs!CertChainAssumption, Certs!TimesInv, Certs!Resign
  PROVE  Certs!StateInv'
<1> DEFINE x == place.level
<1>1. Certs!Working /\ x \in Certs!Levels /\ place = Certs!At("resign", x)
  BY TypesAre DEF Certs!Resign, Certs!Doing, Certs!Working, Certs!StateInv, Certs!PlaceInv
<1>2. x - 1 \in Certs!Levels
  BY <1>1, SignerIs
<1>3. Certs!Signs(x - 1, chain_keys[x], [by |-> chain_keys[x - 1], over |-> chain_keys[x]])
  BY DEF Certs!Resign, Certs!Level
<1>4. certs' \in [Certs!Levels -> CertSigs] /\ msg_sig' \in CertSigs
  BY TypesAre DEF Certs!Resign, CertSigs
<1>5. ~Certs!Signed(x - 1)
  <2>1. SignOp = "resign"
    BY <1>1, LevelsAre DEF SignOp, Certs!StateInv, Certs!PlaceInv, Certs!At, Certs!Place, Certs!Ops, SchemeNames
  <2> QED
    BY <1>1, <2>1, SignerIs
<1> HIDE DEF x
<1> QED
  BY <1>2, <1>3, <1>4, <1>5, SignsState DEF Certs!Resign

LEMMA MessageState ==
  ASSUME Certs!StateInv, Certs!CertChainAssumption, Certs!TimesInv, Certs!SignMessage
  PROVE  Certs!StateInv'
<1> DEFINE x == place.level
<1>1. Certs!Working /\ x \in Certs!Levels /\ place = Certs!At("sign_message", x)
  BY TypesAre DEF Certs!SignMessage, Certs!Doing, Certs!Working, Certs!StateInv, Certs!PlaceInv
<1>2. PICK new \in Certs!Attempts(x, 0, Certs!None) : msg_sig' = new /\ Certs!Signs(x, 0, new)
  BY DEF Certs!SignMessage, Certs!Level
<1>3. 0 \in 0 .. made /\ Certs!None \in CertSigs
  BY TypesAre DEF Certs!None, CertSigs
<1>4. msg_sig' \in CertSigs
  BY <1>1, <1>2, <1>3, AttemptsAre
<1>5. certs' \in [Certs!Levels -> CertSigs]
  BY TypesAre DEF Certs!SignMessage, CertSigs
<1>6. ~Certs!Signed(x)
  BY <1>1, SignerIs
<1> HIDE DEF x
<1> QED
  BY <1>1, <1>2, <1>4, <1>5, <1>6, SignsState DEF Certs!SignMessage

LEMMA KeyState ==
  ASSUME Certs!StateInv, Certs!CertChainAssumption, Certs!TimesInv,
         Certs!Keygen \/ Certs!MakeKey \/ Certs!Offline
  PROVE  Certs!StateInv'
<1> DEFINE x == place.level
<1>1. PICK op \in {"keygen", "make", "offline"} :
         /\ Certs!Doing(op) /\ Certs!Go
         /\ op \in {"keygen", "make"} => Certs!NewKey
         /\ op = "offline" => made' = made /\ chain_keys' = chain_keys
         /\ IF op = "make" THEN times' = times ELSE Certs!Timed(op, x)
         /\ sample' = sample \/ sample' = [key |-> chain_keys[x], id |-> sample.id + 1]
         /\ certs' = certs /\ msg_sig' = msg_sig /\ complaints' = complaints
         /\ any_failed' = any_failed /\ reused' = reused
  BY DEF Certs!Keygen, Certs!MakeKey, Certs!Offline, Certs!Level
<1>2. Certs!Working /\ place = Certs!At(op, x) /\ Keeps /\ iter' = iter /\ Certs!PlaceInv' /\ x \in Certs!Levels
  BY <1>1, GoIs DEF Certs!Place
<1>3. times' \in TimesAre
  <2>1. CASE op = "make"
    BY <1>1, <2>1, TypesAre
  <2>2. CASE op \in {"keygen", "offline"}
    <3>1. op \in Certs!Kinds /\ times[op][x] + 1 \in 0 .. iterations
      BY <1>2, <2>2, RoomForTime DEF Certs!Kinds
    <3> QED
      BY <1>1, <1>2, <2>2, <3>1, TypesAre, TimedIs
  <2> QED
    BY <2>1, <2>2
<1>4. made \in Nat /\ 0 .. made \subseteq 0 .. made' /\ made' \in Nat /\ chain_keys' \in [Certs!Levels -> 0 .. made']
  <2>1. CASE op = "offline"
    BY <1>1, <2>1, TypesAre
  <2>2. CASE op # "offline"
    <3>1. made' = made + 1 /\ chain_keys' = [chain_keys EXCEPT ![x] = made + 1]
      BY <1>1, <2>2 DEF Certs!NewKey, Certs!Level
    <3>2. made \in Nat /\ 0 .. made \subseteq 0 .. made + 1 /\ made + 1 \in 0 .. made + 1 /\ made + 1 \in Nat
      BY TypesAre
    <3>3. chain_keys \in [Certs!Levels -> 0 .. made + 1]
      BY <3>2, TypesAre
    <3> QED
      BY <3>1, <3>2, <3>3
  <2> QED
    BY <2>1, <2>2
<1>5. /\ certs' \in [Certs!Levels -> [by : 0 .. made', over : 0 .. made']]
      /\ msg_sig' \in [by : 0 .. made', over : 0 .. made']
  <2>1. [by : 0 .. made, over : 0 .. made] \subseteq [by : 0 .. made', over : 0 .. made']
    BY <1>4
  <2> QED
    BY <1>1, <2>1, TypesAre
<1>6. sample' \in [key : 0 .. made', id : Nat]
  <2>1. chain_keys[x] \in 0 .. made' /\ sample \in [key : 0 .. made', id : Nat]
    BY <1>2, <1>4, TypesAre
  <2>2. sample.id + 1 \in Nat
    BY <2>1
  <2> QED
    BY <1>1, <2>1, <2>2
<1>7. complaints' \subseteq Certs!Levels /\ any_failed' \in BOOLEAN /\ reused' \in BOOLEAN
  BY <1>1, TypesAre DEF Certs!StateInv
<1> HIDE DEF x
<1> QED
  BY <1>2, <1>3, <1>4, <1>5, <1>6, <1>7, TypesAre, StateFrom
LEMMA ThrowAwayState ==
  ASSUME Certs!StateInv, Certs!CertChainAssumption, Certs!TimesInv, Certs!ThrowAwayKey
  PROVE  Certs!StateInv' /\ GoesOn /\ Keeps /\ iter' = IF place.level = Certs!Client THEN iter + 1 ELSE iter
<1> DEFINE x == place.level
<1>1. /\ Certs!Working /\ x \in Certs!Levels /\ place = Certs!At("throw_away", x) /\ place.op = "throw_away"
      /\ place' = Certs!Following /\ Keeps
      /\ iter' = IF x = Certs!Client THEN iter + 1 ELSE iter
  BY TypesAre DEF Certs!ThrowAwayKey, Certs!Doing, Certs!Working, Certs!StateInv, Certs!PlaceInv, Keeps, Certs!Level
<1>2. GoesOn
  BY <1>1, StepGoesOn
<1>3. Certs!PlaceInv' /\ iter' \in 0 .. iterations /\ (stage = "run" => iter' = iter)
  BY <1>1, PlaceKept
<1>4. times' \in TimesAre
  <2>1. Certs!Timed("keygen", x) /\ "keygen" \in Certs!Kinds
    BY DEF Certs!ThrowAwayKey, Certs!Level, Certs!Kinds
  <2>2. times["keygen"][x] + 1 \in 0 .. iterations
    BY <1>1, RoomForTime
  <2> QED
    BY <1>1, <2>1, <2>2, TypesAre, TimedIs
<1>5. /\ made' = made /\ chain_keys' = chain_keys /\ sample' = sample /\ any_failed' = any_failed /\ reused' = reused
      /\ certs' = certs /\ msg_sig' = msg_sig /\ complaints' = complaints
      /\ any_failed \in BOOLEAN /\ reused \in BOOLEAN
  BY DEF Certs!ThrowAwayKey, Certs!StateInv
<1>6. stage = "run" => iter' < iterations
  BY <1>3, TypesAre
<1>7. Certs!StateInv'
  BY <1>1, <1>3, <1>4, <1>5, <1>6, TypesAre, StateFrom
<1> QED
  BY <1>1, <1>2, <1>7

(* The end of the calls: nothing but the phase changes, or the buffer.     *)
LEMMA EndState ==
  ASSUME Certs!StateInv, Certs!CertChainAssumption, Certs!Return \/ Certs!Allocate
  PROVE  Certs!StateInv'
<1>1. /\ UNCHANGED <<scheme, chain_length, iterations, iter, made, chain_keys, certs, sample, times, complaints,
                     any_failed, spent, reused>>
      /\ msg_sig' = msg_sig \/ msg_sig' = Certs!None
  BY DEF Certs!Return, Certs!Allocate
<1>2. Certs!Levels' = Certs!Levels /\ Certs!Kinds' = Certs!Kinds
  BY <1>1 DEF Certs!Levels, Certs!Client, Certs!Kinds
<1>3. msg_sig' \in [by : 0 .. made, over : 0 .. made]
  BY <1>1, TypesAre DEF Certs!None
<1>4. CASE stage' \in {"done", "returned"}
  <2>1. Certs!TypeOK' /\ ~Certs!Working'
    BY <1>1, <1>2, <1>4 DEF Certs!StateInv, Certs!TypeOK, Certs!Working
  <2> QED
    BY <1>1, <1>3, <1>4, <2>1 DEF Certs!StateInv, Certs!PlaceInv
<1>5. CASE stage' \notin {"done", "returned"}
  <2>1. Certs!Allocate /\ stage' = stage
    BY <1>5 DEF Certs!Return, Certs!Allocate
  <2>2. Keeps /\ Certs!Working /\ place.op = "allocate" /\ place' = Certs!Following /\ iter' = iter
    BY <1>1, <2>1 DEF Certs!Allocate, Certs!Doing, Certs!Working, Keeps
  <2>3. Certs!PlaceInv'
    BY <2>2, PlaceKept
  <2> QED
    BY <1>1, <1>3, <2>2, <2>3, TypesAre, StateFrom DEF Certs!StateInv
<1> QED
  BY <1>4, <1>5

LEMMA AgainState ==
  ASSUME Certs!StateInv, Certs!CertChainAssumption, Certs!Again
  PROVE  Certs!StateInv'
<1>1. /\ UNCHANGED <<scheme, chain_length, iterations, made, chain_keys, certs, msg_sig, sample, times, spent, reused>>
      /\ Certs!Working /\ place.op = "end"
      /\ iter' = IF stage = "run" THEN iter + 1 ELSE 0
      /\ stage' = IF iter' < iterations THEN "run" ELSE "done"
      /\ place' = Certs!First
      /\ complaints' = {} \/ complaints' = complaints
      /\ any_failed' \in BOOLEAN
  BY DEF Certs!Again, Certs!Doing, Certs!Working, Certs!StateInv
<1>2. Certs!Levels' = Certs!Levels /\ Certs!Kinds' = Certs!Kinds /\ Certs!Client' = Certs!Client
  BY <1>1 DEF Certs!Levels, Certs!Client, Certs!Kinds
<1>3. iter' \in 0 .. iterations
  BY <1>1, TypesAre
<1>4. Certs!TypeOK'
  BY <1>1, <1>2, <1>3, TypesAre DEF Certs!StateInv, Certs!TypeOK
<1>5. Certs!PlaceInv'
  <2> DEFINE op == Certs!First.op  x == Certs!First.level
  <2>1. /\ Certs!Client \in Nat /\ Certs!Levels = 0 .. Certs!Client
    BY LevelsAre
  <2>2. /\ Certs!First = Certs!At(op, x) /\ x \in Certs!Levels
        /\ \/ op = "keygen" /\ scheme # "oodilithium"
           \/ op = "resign" /\ scheme = "oodilithium" /\ x = 1
           \/ op = "sign_message" /\ scheme = "oodilithium" /\ x = Certs!Client
    <3>1. CASE scheme # "oodilithium"
      <4>1. Certs!First = Certs!At("keygen", 0)
        BY <3>1 DEF Certs!First
      <4>2. op = "keygen" /\ x = 0
        BY <4>1 DEF Certs!At
      <4>3. 0 \in Certs!Levels
        BY <2>1
      <4> QED
        BY <3>1, <4>1, <4>2, <4>3, Zenon
    <3>2. CASE scheme = "oodilithium" /\ 1 <= Certs!Client
      <4>1. Certs!First = Certs!At("resign", 1)
        BY <3>2 DEF Certs!First, Certs!ResignChain, Certs!Upward
      <4>2. op = "resign" /\ x = 1
        BY <4>1 DEF Certs!At
      <4>3. 1 \in Certs!Levels
        BY <2>1, <3>2
      <4> QED
        BY <3>2, <4>1, <4>2, <4>3, Zenon
    <3>3. CASE scheme = "oodilithium" /\ ~(1 <= Certs!Client)
      <4>1. Certs!First = Certs!At("sign_message", Certs!Client)
        BY <3>3 DEF Certs!First, Certs!ResignChain, Certs!Upward
      <4>2. op = "sign_message" /\ x = Certs!Client
        BY <4>1 DEF Certs!At
      <4> QED
        BY <2>1, <3>3, <4>1, <4>2
    <3> QED
      BY <3>1, <3>2, <3>3
  <2> HIDE DEF op, x
  <2>3. Certs!Place(op, x) /\ (scheme = "oodilithium" => op \notin Certs!SetupOps)
    BY <2>1, <2>2, LevelsAre, DriversHave DEF Certs!Place, Certs!Ops, Certs!SetupOps
  <2>4. \A o, y : Certs!Place(o, y)' <=> Certs!Place(o, y)
    BY <1>1, <1>2 DEF Certs!Place, Certs!Ops
  <2>5. place' = Certs!At(op, x) /\ place'.op = op /\ place'.level = x
    BY <1>1, <2>2 DEF Certs!At
  <2>6. Certs!Place(place.op, place.level)'
    BY <2>3, <2>4, <2>5
  <2>7. stage' # "setup" /\ scheme' = scheme /\ place'.op = op /\ place' = Certs!At(place'.op, place'.level)
    BY <1>1, <2>5
  <2> QED
    BY <2>3, <2>6, <2>7 DEF Certs!PlaceInv, Certs!SetupOps
<1>6. made' \in Nat /\ iterations' \in 1 .. MaxIterations /\ reused' \in BOOLEAN
      /\ msg_sig' \in [by : 0 .. made', over : 0 .. made'] /\ sample' \in [key : 0 .. made', id : Nat]
  BY <1>1 DEF Certs!StateInv
<1>7. stage' # "setup" /\ (stage' = "run" => iter' < iterations')
  BY <1>1
<1> QED
  BY <1>1, <1>4, <1>5, <1>6, <1>7 DEF Certs!StateInv

LEMMA ChecksState ==
  ASSUME Certs!StateInv, Certs!CertChainAssumption, Certs!TimesInv, Certs!VerifyMessage \/ Certs!VerifyCert
  PROVE  Certs!StateInv'
<1> DEFINE x == place.level
<1>1. /\ Certs!Working /\ x \in Certs!Levels /\ place = Certs!At(place.op, x) /\ Certs!Place(place.op, x)
      /\ place.op \in {"verify_message", "verify_cert"}
  BY TypesAre DEF Certs!VerifyMessage, Certs!VerifyCert, Certs!Doing, Certs!Working, Certs!StateInv, Certs!PlaceInv
<1>2. 0 \in Certs!Levels
  BY LevelsAre
<1>3. CASE Certs!VerifyMessage
  <2>1. place.op = "verify_message" /\ Certs!Doing("verify_message") /\ Certs!Verify(msg_sig, x, 0, 0)
    BY <1>3 DEF Certs!VerifyMessage, Certs!Doing, Certs!Level
  <2>2. ~Certs!Checked(x)
    BY <1>1, <2>1, SignerIs
  <2> HIDE DEF x
  <2> QED
    BY <1>1, <1>2, <2>1, <2>2, VerifyState
<1>4. CASE Certs!VerifyCert
  <2>1. /\ place.op = "verify_cert" /\ Certs!Doing("verify_cert")
        /\ Certs!Verify(certs[x], x - 1, chain_keys[x], x)
    BY <1>4 DEF Certs!VerifyCert, Certs!Doing, Certs!Level
  <2>2. x - 1 \in Certs!Levels /\ ~Certs!Checked(x - 1)
    BY <1>1, <2>1, SignerIs
  <2> HIDE DEF x
  <2> QED
    BY <1>1, <1>2, <2>1, <2>2, VerifyState
<1> QED
  BY <1>3, <1>4

LEMMA StateStep ==
  ASSUME Certs!StateInv, Certs!CertChainAssumption, Certs!TimesInv, Certs!Next
  PROVE  Certs!StateInv'
BY KeyState, ThrowAwayState, CertifyState, ResignState, MessageState, ChecksState, EndState, AgainState DEF Certs!Next
-----------------------------------------------------------------------------
(* The times.  Where a level signs, and where its signature is verified.   *)
SignPlace(y) == IF y = Certs!Client THEN Certs!At("sign_message", y) ELSE Certs!At(SignOp, y + 1)
CheckPlace(y) == IF y = Certs!Client THEN Certs!At("verify_message", y) ELSE Certs!At("verify_cert", y + 1)

LEMMA SignedMoves ==
  ASSUME Certs!StateInv, Certs!CertChainAssumption, Certs!Working, Keeps, GoesOn
  PROVE  \A y \in Certs!Levels :
           /\ Certs!Signed(y)' <=> Certs!Signed(y) \/ place = SignPlace(y)
           /\ ~(Certs!Signed(y) /\ place = SignPlace(y))
           /\ Certs!Checked(y)' <=> Certs!Checked(y) \/ place = CheckPlace(y)
           /\ ~(Certs!Checked(y) /\ place = CheckPlace(y))
<1> SUFFICES ASSUME NEW y \in Certs!Levels
             PROVE  /\ Certs!Signed(y)' <=> Certs!Signed(y) \/ place = SignPlace(y)
                    /\ ~(Certs!Signed(y) /\ place = SignPlace(y))
                    /\ Certs!Checked(y)' <=> Certs!Checked(y) \/ place = CheckPlace(y)
                    /\ ~(Certs!Checked(y) /\ place = CheckPlace(y))
  OBVIOUS
<1>1. Certs!Client \in Nat /\ Certs!Levels = 0 .. Certs!Client /\ Certs!Client' = Certs!Client /\ scheme' = scheme
  BY LevelsAre, LevelsStay DEF Keeps
<1>2. CASE y = Certs!Client
  <2>1. /\ Certs!Signed(y) <=> Certs!Passed("sign_message", y)
        /\ Certs!Checked(y) <=> Certs!Passed("verify_message", y)
        /\ SignPlace(y) = Certs!At("sign_message", y) /\ CheckPlace(y) = Certs!At("verify_message", y)
    BY <1>2 DEF Certs!Signed, Certs!Checked, SignPlace, CheckPlace
  <2>2. /\ Certs!Signed(y)' <=> Certs!Passed("sign_message", Certs!Client)'
        /\ Certs!Checked(y)' <=> Certs!Passed("verify_message", Certs!Client)'
    BY <1>1, <1>2 DEF Certs!Signed, Certs!Checked
  <2> QED
    BY <1>2, <2>1, <2>2, Moves, NotPassed
<1>3. CASE y # Certs!Client
  <2>1. y + 1 \in 1 .. Certs!Client
    BY <1>1, <1>3
  <2>2. /\ Certs!Signed(y) <=> Certs!Passed(SignOp, y + 1)
        /\ Certs!Checked(y) <=> Certs!Passed("verify_cert", y + 1)
        /\ SignPlace(y) = Certs!At(SignOp, y + 1) /\ CheckPlace(y) = Certs!At("verify_cert", y + 1)
    BY <1>3 DEF Certs!Signed, Certs!Checked, SignPlace, CheckPlace, SignOp
  <2>3. /\ Certs!Signed(y)' <=> IF scheme = "oodilithium" THEN Certs!Passed("resign", y + 1)'
                                ELSE Certs!Passed("certify", y + 1)'
        /\ Certs!Checked(y)' <=> Certs!Passed("verify_cert", y + 1)'
    BY <1>1, <1>3 DEF Certs!Signed, Certs!Checked
  <2>4. Certs!Signed(y)' <=> Certs!Signed(y) \/ place = SignPlace(y)
    BY <2>1, <2>2, <2>3, Moves DEF SignOp
  <2>5. Certs!Checked(y)' <=> Certs!Checked(y) \/ place = CheckPlace(y)
    BY <2>1, <2>2, <2>3, Moves
  <2> QED
    BY <2>2, <2>4, <2>5, NotPassed
<1> QED
  BY <1>2, <1>3

(* The operations that take their driver one place on.                     *)
Works == \/ Certs!Keygen \/ Certs!MakeKey \/ Certs!Offline \/ Certs!Certify \/ Certs!Resign
         \/ Certs!SignMessage \/ Certs!VerifyMessage \/ Certs!VerifyCert

LEMMA WorksIs ==
  ASSUME Certs!StateInv, Certs!CertChainAssumption, Works
  PROVE  /\ Certs!Working /\ Keeps /\ iter' = iter /\ Certs!PlaceInv' /\ GoesOn
         /\ place = Certs!At(place.op, place.level) /\ place.level \in Certs!Levels
         /\ place.op \in {"keygen", "make", "offline", "certify", "resign", "sign_message",
                          "verify_message", "verify_cert"}
<1>1. PICK op \in {"keygen", "make", "offline", "certify", "resign", "sign_message",
                   "verify_message", "verify_cert"} : Certs!Doing(op) /\ Certs!Go
  BY DEF Works, Certs!Keygen, Certs!MakeKey, Certs!Offline, Certs!Certify, Certs!Resign,
     Certs!SignMessage, Certs!VerifyMessage, Certs!VerifyCert, Certs!Signs, Certs!Verify
<1>2. place.op = op
  BY <1>1 DEF Certs!Doing
<1> QED
  BY <1>1, <1>2, GoIs, TypesAre

(* Which time an operation adds to.                                        *)
LEMMA WhatIsTimed ==
  ASSUME Certs!StateInv, Certs!CertChainAssumption, Works, NEW x, x = place.level
  PROVE  /\ place.op = "keygen" => Certs!Timed("keygen", x)
         /\ place.op = "offline" => Certs!Timed("offline", x)
         /\ place.op \in {"certify", "resign"} /\ stage = "run" => Certs!Timed("online", x - 1)
         /\ place.op = "sign_message" => Certs!Timed("online", x) /\ stage = "run"
         /\ place.op = "verify_message" => Certs!Timed("verify", x)
         /\ place.op = "verify_cert" => Certs!Timed("verify", x - 1)
         /\ place.op = "make" => times' = times
         /\ place.op \in {"certify", "resign"} /\ stage # "run" => times' = times
<1>1. CASE Certs!Keygen
  BY <1>1 DEF Certs!Keygen, Certs!Doing, Certs!Level
<1>2. CASE Certs!MakeKey
  BY <1>2 DEF Certs!MakeKey, Certs!Doing
<1>3. CASE Certs!Offline
  BY <1>3 DEF Certs!Offline, Certs!Doing, Certs!Level
<1>4. CASE Certs!Certify
  <2>1. place.op = "certify" /\ IF stage = "run" THEN Certs!Timed("online", x - 1) ELSE times' = times
    BY <1>4 DEF Certs!Certify, Certs!Doing, Certs!Level, Certs!Signs
  <2> QED
    BY <2>1
<1>5. CASE Certs!Resign
  <2>1. place.op = "resign" /\ IF stage = "run" THEN Certs!Timed("online", x - 1) ELSE times' = times
    BY <1>5 DEF Certs!Resign, Certs!Doing, Certs!Level, Certs!Signs
  <2> QED
    BY <2>1
<1>6. CASE Certs!SignMessage
  <2>1. place.op = "sign_message" /\ Certs!Working /\ IF stage = "run" THEN Certs!Timed("online", x) ELSE times' = times
    BY <1>6 DEF Certs!SignMessage, Certs!Doing, Certs!Level, Certs!Signs, Certs!Working
  <2>2. stage = "run"
    BY <2>1 DEF Certs!StateInv, Certs!PlaceInv, Certs!Working, Certs!SetupOps
  <2> QED
    BY <2>1, <2>2
<1>7. CASE Certs!VerifyMessage
  BY <1>7 DEF Certs!VerifyMessage, Certs!Verify, Certs!Doing, Certs!Level
<1>8. CASE Certs!VerifyCert
  BY <1>8 DEF Certs!VerifyCert, Certs!Verify, Certs!Doing, Certs!Level
<1> QED
  BY <1>1, <1>2, <1>3, <1>4, <1>5, <1>6, <1>7, <1>8 DEF Works

LEMMA TimesMove ==
  ASSUME Certs!StateInv, Certs!CertChainAssumption, Works
  PROVE  \A y \in Certs!Levels :
           /\ times'["keygen"][y] = times["keygen"][y] + Certs!One(place = Certs!At("keygen", y))
           /\ times'["offline"][y] = times["offline"][y] + Certs!One(place = Certs!At("offline", y))
           /\ times'["online"][y] = times["online"][y] + Certs!One(stage = "run" /\ place = SignPlace(y))
           /\ times'["verify"][y] = times["verify"][y] + Certs!One(place = CheckPlace(y))
<1> DEFINE x == place.level
<1>1. /\ Certs!Working /\ place = Certs!At(place.op, x) /\ x \in Certs!Levels
      /\ place.op \in {"keygen", "make", "offline", "certify", "resign", "sign_message",
                       "verify_message", "verify_cert"}
  BY WorksIs
<1>2. Certs!Client \in Nat /\ Certs!Levels = 0 .. Certs!Client /\ Certs!Kinds = {"keygen", "offline", "online", "verify"}
  BY LevelsAre DEF Certs!Kinds
<1>3. \A k \in Certs!Kinds, y \in Certs!Levels : times[k][y] \in Nat
  BY TypesAre DEF TimesAre
<1> SUFFICES ASSUME NEW y \in Certs!Levels
             PROVE  /\ times'["keygen"][y] = times["keygen"][y] + Certs!One(place = Certs!At("keygen", y))
                    /\ times'["offline"][y] = times["offline"][y] + Certs!One(place = Certs!At("offline", y))
                    /\ times'["online"][y] = times["online"][y] + Certs!One(stage = "run" /\ place = SignPlace(y))
                    /\ times'["verify"][y] = times["verify"][y] + Certs!One(place = CheckPlace(y))
  OBVIOUS
<1>4. \A op, z : place = Certs!At(op, z) <=> place.op = op /\ x = z
  BY <1>1 DEF Certs!At
<1>5. /\ place = Certs!At("keygen", y) <=> place.op = "keygen" /\ x = y
      /\ place = Certs!At("offline", y) <=> place.op = "offline" /\ x = y
  BY <1>4
<1>6. place = CheckPlace(y) <=> (place.op = "verify_message" /\ x = y) \/ (place.op = "verify_cert" /\ x - 1 = y)
  <2>1. place.op = "verify_message" => x = Certs!Client
    BY <1>1, SignerIs
  <2>2. place.op = "verify_cert" => x \in 1 .. Certs!Client
    BY <1>1, SignerIs
  <2>3. CASE y = Certs!Client
    <3>1. place = CheckPlace(y) <=> place.op = "verify_message" /\ x = y
      BY <1>4, <2>3 DEF CheckPlace
    <3>2. ~(place.op = "verify_cert" /\ x - 1 = y)
      BY <1>2, <2>2, <2>3
    <3> QED
      BY <3>1, <3>2
  <2>4. CASE y # Certs!Client
    <3>1. place = CheckPlace(y) <=> place.op = "verify_cert" /\ x = y + 1
      BY <1>4, <2>4 DEF CheckPlace
    <3>2. x = y + 1 <=> x - 1 = y
      BY <1>1, <1>2
    <3>3. ~(place.op = "verify_message" /\ x = y)
      BY <2>1, <2>4
    <3> QED
      BY <3>1, <3>2, <3>3
  <2> QED
    BY <2>3, <2>4
<1>7. stage = "run" =>
        (place = SignPlace(y) <=> (place.op = "sign_message" /\ x = y) \/ (place.op \in {"certify", "resign"} /\ x - 1 = y))
  <2> SUFFICES ASSUME stage = "run"
               PROVE  (place = SignPlace(y) <=> (place.op = "sign_message" /\ x = y) \/ (place.op \in {"certify", "resign"} /\ x - 1 = y))
    OBVIOUS
  <2>1. place.op = "sign_message" => x = Certs!Client
    BY <1>1, SignerIs
  <2>2. place.op \in {"certify", "resign"} => x \in 1 .. Certs!Client
    BY <1>1, SignerIs
  <2>3. place.op \in {"certify", "resign"} => place.op = SignOp
    BY <1>1, LevelsAre DEF SignOp, Certs!StateInv, Certs!PlaceInv, Certs!SetupOps, Certs!Place, Certs!Ops, SchemeNames
  <2>4. SignOp \in {"certify", "resign"}
    BY DEF SignOp
  <2>5. CASE y = Certs!Client
    <3>1. place = SignPlace(y) <=> place.op = "sign_message" /\ x = y
      BY <1>4, <2>5 DEF SignPlace
    <3>2. ~(place.op \in {"certify", "resign"} /\ x - 1 = y)
      BY <1>2, <2>2, <2>5
    <3> QED
      BY <3>1, <3>2
  <2>6. CASE y # Certs!Client
    <3>1. place = SignPlace(y) <=> place.op = SignOp /\ x = y + 1
      BY <1>4, <2>6 DEF SignPlace
    <3>2. x = y + 1 <=> x - 1 = y
      BY <1>1, <1>2
    <3>3. ~(place.op = "sign_message" /\ x = y)
      BY <2>1, <2>6
    <3>4. place.op = SignOp <=> place.op \in {"certify", "resign"}
      BY <2>3, <2>4
    <3> QED
      BY <3>1, <3>2, <3>3, <3>4
  <2> QED
    BY <2>5, <2>6
<1>9. ASSUME NEW k \in Certs!Kinds, NEW z \in Certs!Levels, Certs!Timed(k, z)
      PROVE  \A i \in Certs!Kinds : times'[i][y] = IF i = k /\ y = z THEN times[i][y] + 1 ELSE times[i][y]
  BY <1>9, TypesAre, TimedIs
<1>10. /\ x \in Nat /\ y \in Nat /\ (place.op \in {"certify", "resign", "verify_cert"} => x - 1 \in Certs!Levels)
  BY <1>1, <1>2, SignerIs
<1> DEFINE t1 == times["keygen"][y]  t2 == times["offline"][y]  t3 == times["online"][y]  t4 == times["verify"][y]
           n1 == times'["keygen"][y]  n2 == times'["offline"][y]  n3 == times'["online"][y]  n4 == times'["verify"][y]
<1>11. t1 \in Nat /\ t2 \in Nat /\ t3 \in Nat /\ t4 \in Nat
  BY <1>2, <1>3
<1>12. /\ place.op = "keygen" => n1 = (IF y = x THEN t1 + 1 ELSE t1) /\ n2 = t2 /\ n3 = t3 /\ n4 = t4
       /\ place.op = "offline" => n2 = (IF y = x THEN t2 + 1 ELSE t2) /\ n1 = t1 /\ n3 = t3 /\ n4 = t4
       /\ place.op \in {"certify", "resign"} /\ stage = "run" =>
            n3 = (IF y = x - 1 THEN t3 + 1 ELSE t3) /\ n1 = t1 /\ n2 = t2 /\ n4 = t4
       /\ place.op = "sign_message" =>
            n3 = (IF y = x THEN t3 + 1 ELSE t3) /\ n1 = t1 /\ n2 = t2 /\ n4 = t4 /\ stage = "run"
       /\ place.op = "verify_message" => n4 = (IF y = x THEN t4 + 1 ELSE t4) /\ n1 = t1 /\ n2 = t2 /\ n3 = t3
       /\ place.op = "verify_cert" => n4 = (IF y = x - 1 THEN t4 + 1 ELSE t4) /\ n1 = t1 /\ n2 = t2 /\ n3 = t3
       /\ place.op = "make" => n1 = t1 /\ n2 = t2 /\ n3 = t3 /\ n4 = t4
       /\ place.op \in {"certify", "resign"} /\ stage # "run" => n1 = t1 /\ n2 = t2 /\ n3 = t3 /\ n4 = t4
  BY <1>1, <1>2, <1>9, <1>10, WhatIsTimed
<1> HIDE DEF t1, t2, t3, t4, n1, n2, n3, n4, x
<1> DEFINE b1 == place.op = "keygen" /\ x = y
           b2 == place.op = "offline" /\ x = y
           b3 == stage = "run" /\ ((place.op = "sign_message" /\ x = y) \/ (place.op \in {"certify", "resign"} /\ x - 1 = y))
           b4 == ((place.op = "verify_message" /\ x = y) \/ (place.op = "verify_cert" /\ x - 1 = y))
<1>13. /\ n1 = IF b1 THEN t1 + 1 ELSE t1
       /\ n2 = IF b2 THEN t2 + 1 ELSE t2
       /\ n3 = IF b3 THEN t3 + 1 ELSE t3
       /\ n4 = IF b4 THEN t4 + 1 ELSE t4
  <2>1. CASE place.op \in {"keygen", "offline", "make"}
    BY <1>12, <2>1
  <2>2. CASE place.op \in {"certify", "resign"}
    BY <1>12, <2>2
  <2>3. CASE place.op \in {"sign_message", "verify_message", "verify_cert"}
    BY <1>12, <2>3
  <2> QED
    BY <1>1, <2>1, <2>2, <2>3
<1>14. /\ Certs!One(place = Certs!At("keygen", y)) = IF b1 THEN 1 ELSE 0
       /\ Certs!One(place = Certs!At("offline", y)) = IF b2 THEN 1 ELSE 0
       /\ Certs!One(stage = "run" /\ place = SignPlace(y)) = IF b3 THEN 1 ELSE 0
       /\ Certs!One(place = CheckPlace(y)) = IF b4 THEN 1 ELSE 0
  BY <1>5, <1>6, <1>7 DEF Certs!One
<1> HIDE DEF b1, b2, b3, b4
<1>15. /\ n1 = t1 + Certs!One(place = Certs!At("keygen", y))
       /\ n2 = t2 + Certs!One(place = Certs!At("offline", y))
       /\ n3 = t3 + Certs!One(stage = "run" /\ place = SignPlace(y))
       /\ n4 = t4 + Certs!One(place = CheckPlace(y))
  BY <1>11, <1>13, <1>14
<1> QED
  BY <1>15 DEF t1, t2, t3, t4, n1, n2, n3, n4

LEMMA TimesWork ==
  ASSUME Certs!StateInv, Certs!CertChainAssumption, Certs!TimesInv, Works
  PROVE  Certs!TimesInv'
<1>1. /\ Certs!Working /\ Keeps /\ iter' = iter /\ Certs!PlaceInv' /\ GoesOn
      /\ place = Certs!At(place.op, place.level) /\ place.level \in Certs!Levels
      /\ place.op \in {"keygen", "make", "offline", "certify", "resign", "sign_message",
                       "verify_message", "verify_cert"}
  BY WorksIs
<1>2. /\ Certs!Levels' = Certs!Levels /\ scheme' = scheme /\ stage' = stage /\ iterations' = iterations
      /\ scheme \in SchemeNames /\ Certs!Runs' = Certs!Runs
  BY <1>1, LevelsAre, LevelsStay DEF Keeps, Certs!Runs
<1>3. Certs!TimesPerRun'
  BY <1>1, <1>2 DEF Certs!TimesPerRun, Certs!Working
<1>4. iter \in Nat /\ Certs!Runs \in Nat
  BY TypesAre DEF Certs!Runs
<1>5. \A k, y : place = Certs!At(k, y) => Certs!Place(k, y) /\ place.op = k
  BY <1>1 DEF Certs!StateInv, Certs!PlaceInv, Certs!At
<1>6. stage = "setup" => scheme = "oodilithium" /\ place.op \in Certs!SetupOps /\ place.op # "throw_away"
                         /\ place'.op # "throw_away"
  BY <1>1, <1>2 DEF Certs!StateInv, Certs!PlaceInv, Certs!Working, Certs!SetupOps
<1> SUFFICES ASSUME NEW y \in Certs!Levels
             PROVE  /\ times'["keygen"][y] =
                         CASE scheme # "oodilithium" -> iter + Certs!One(Certs!Passed("keygen", y)')
                           [] stage = "setup" -> iter + Certs!One(place'.op = "throw_away" /\ y < place'.level)
                           [] OTHER -> iterations
                    /\ times'["offline"][y] =
                         CASE scheme = "oodilithium" -> Certs!One(Certs!Passed("offline", y)')
                           [] scheme \in {"oofalcon", "ooed25519"} -> iter + Certs!One(Certs!Passed("offline", y)')
                           [] OTHER -> 0
                    /\ times'["online"][y] = Certs!Runs + Certs!One(Certs!Signed(y)')
                    /\ times'["verify"][y] = Certs!Runs + Certs!One(Certs!Checked(y)')
  BY <1>1, <1>2, <1>3 DEF Certs!TimesInv
<1>7. /\ times["keygen"][y] =
            CASE scheme # "oodilithium" -> iter + Certs!One(Certs!Passed("keygen", y))
              [] stage = "setup" -> iter + Certs!One(place.op = "throw_away" /\ y < place.level)
              [] OTHER -> iterations
      /\ times["offline"][y] =
            CASE scheme = "oodilithium" -> Certs!One(Certs!Passed("offline", y))
              [] scheme \in {"oofalcon", "ooed25519"} -> iter + Certs!One(Certs!Passed("offline", y))
              [] OTHER -> 0
      /\ times["online"][y] = Certs!Runs + Certs!One(Certs!Signed(y))
      /\ times["verify"][y] = Certs!Runs + Certs!One(Certs!Checked(y))
  BY <1>1 DEF Certs!TimesInv
<1>8. /\ times'["keygen"][y] = times["keygen"][y] + Certs!One(place = Certs!At("keygen", y))
      /\ times'["offline"][y] = times["offline"][y] + Certs!One(place = Certs!At("offline", y))
      /\ times'["online"][y] = times["online"][y] + Certs!One(stage = "run" /\ place = SignPlace(y))
      /\ times'["verify"][y] = times["verify"][y] + Certs!One(place = CheckPlace(y))
  BY TimesMove
<1>9. times'["verify"][y] = Certs!Runs + Certs!One(Certs!Checked(y)')
  <2>1. /\ Certs!Checked(y)' <=> Certs!Checked(y) \/ place = CheckPlace(y)
        /\ ~(Certs!Checked(y) /\ place = CheckPlace(y))
    BY <1>1, SignedMoves
  <2> QED
    BY <1>4, <1>7, <1>8, <2>1 DEF Certs!One
<1>10. times'["online"][y] = Certs!Runs + Certs!One(Certs!Signed(y)')
  <2>1. /\ Certs!Signed(y)' <=> Certs!Signed(y) \/ place = SignPlace(y)
        /\ ~(Certs!Signed(y) /\ place = SignPlace(y))
    BY <1>1, SignedMoves
  <2>2. place = SignPlace(y) => stage = "run"
    <3>1. place = SignPlace(y) => place.op = "sign_message" \/ place.op = SignOp
      BY <1>5 DEF SignPlace
    <3>2. stage = "setup" => place # SignPlace(y)
      BY <1>6, <3>1 DEF SignOp, Certs!SetupOps
    <3> QED
      BY <1>1, <3>2 DEF Certs!Working
  <2> QED
    BY <1>4, <1>7, <1>8, <2>1, <2>2 DEF Certs!One
<1>11. times'["keygen"][y] =
         CASE scheme # "oodilithium" -> iter + Certs!One(Certs!Passed("keygen", y)')
           [] stage = "setup" -> iter + Certs!One(place'.op = "throw_away" /\ y < place'.level)
           [] OTHER -> iterations
  <2>1. CASE scheme # "oodilithium"
    <3>1. Certs!Passed("keygen", y)' <=> Certs!Passed("keygen", y) \/ place = Certs!At("keygen", y)
      <4>1. Certs!Place("keygen", y) /\ (place = Certs!At("keygen", y) <=> "keygen" = place.op /\ y = place.level)
        BY <1>1, <2>1, DriversHave DEF Certs!At
      <4> QED
        BY <1>1, <4>1 DEF GoesOn
    <3>2. ~(Certs!Passed("keygen", y) /\ place = Certs!At("keygen", y))
      BY <1>1, NotPassed
    <3>3. times["keygen"][y] = iter + Certs!One(Certs!Passed("keygen", y))
      BY <1>6, <1>7, <2>1
    <3>4. times'["keygen"][y] = iter + Certs!One(Certs!Passed("keygen", y)')
      BY <1>4, <1>8, <3>1, <3>2, <3>3 DEF Certs!One
    <3> QED
      BY <1>6, <2>1, <3>4
  <2>2. CASE scheme = "oodilithium"
    <3>1. place # Certs!At("keygen", y)
      BY <1>5, <2>2 DEF Certs!Place, Certs!Ops, Certs!SetupOps
    <3>2. CASE stage = "setup"
      <4>1. times["keygen"][y] = iter
        BY <1>4, <1>6, <1>7, <2>2, <3>2 DEF Certs!One
      <4> QED
        BY <1>4, <1>6, <1>8, <2>2, <3>1, <3>2, <4>1 DEF Certs!One
    <3>3. CASE stage # "setup"
      <4>1. times["keygen"][y] = iterations /\ iterations \in Nat
        BY <1>7, <2>2, <3>3, TypesAre
      <4> QED
        BY <1>8, <2>2, <3>1, <3>3, <4>1 DEF Certs!One
    <3> QED
      BY <3>2, <3>3
  <2> QED
    BY <2>1, <2>2
<1>12. times'["offline"][y] =
         CASE scheme = "oodilithium" -> Certs!One(Certs!Passed("offline", y)')
           [] scheme \in {"oofalcon", "ooed25519"} -> iter + Certs!One(Certs!Passed("offline", y)')
           [] OTHER -> 0
  <2>1. CASE scheme \in {"oofalcon", "ooed25519", "oodilithium"}
    <3>1. Certs!Passed("offline", y)' <=> Certs!Passed("offline", y) \/ place = Certs!At("offline", y)
      BY <1>1, <2>1, Moves
    <3>2. ~(Certs!Passed("offline", y) /\ place = Certs!At("offline", y))
      BY <1>1, NotPassed
    <3>3. CASE scheme = "oodilithium"
      BY <1>4, <1>7, <1>8, <3>1, <3>2, <3>3 DEF Certs!One
    <3>4. CASE scheme \in {"oofalcon", "ooed25519"}
      BY <1>4, <1>7, <1>8, <3>1, <3>2, <3>4 DEF Certs!One
    <3> QED
      BY <2>1, <3>3, <3>4
  <2>2. CASE scheme \in {"falcon", "ed25519", "dilithium"}
    <3>1. place # Certs!At("offline", y)
      BY <1>5, <2>2 DEF Certs!Place, Certs!Ops, Certs!SetupOps
    <3> QED
      BY <1>7, <1>8, <2>2, <3>1 DEF Certs!One
  <2> QED
    BY <1>2, <2>1, <2>2 DEF SchemeNames
<1> QED
  BY <1>9, <1>10, <1>11, <1>12

(* Bounds of the numbers of the operations.                                *)
LEMMA RankBounds ==
  ASSUME Certs!StateInv, Certs!CertChainAssumption, NEW n, n = chain_length
  PROVE  /\ \A y \in Certs!Levels :
              /\ scheme # "oodilithium" => Certs!Rank("keygen", y) \in 0 .. 5 * n
              /\ scheme = "oodilithium" =>
                   Certs!Rank("make", y) \in 0 .. 3 * n - 1 /\ Certs!Rank("offline", y) \in 0 .. 3 * n - 1
              /\ scheme \in {"oofalcon", "ooed25519"} => Certs!Rank("offline", y) \in 0 .. 5 * n
         /\ \A x \in 1 .. Certs!Client :
              /\ Certs!Rank("certify", x) \in 0 .. 5 * n /\ Certs!Rank("verify_cert", x) \in 0 .. 5 * n
              /\ scheme = "oodilithium" =>
                   /\ Certs!Rank("certify", x) \in 0 .. 3 * n - 1
                   /\ Certs!Rank("resign", x) \in 3 * n + 1 .. 5 * n
                   /\ Certs!Rank("verify_cert", x) \in 4 * n .. 5 * n
         /\ Certs!Rank("sign_message", Certs!Client) \in 0 .. 5 * n
         /\ Certs!Rank("verify_message", Certs!Client) \in 0 .. 5 * n
         /\ scheme = "oodilithium" =>
              /\ Certs!Rank("sign_message", Certs!Client) = 4 * n
              /\ Certs!Rank("verify_message", Certs!Client) = 4 * n + 1
<1>1. n \in Nat \ {0} /\ Certs!Client = n - 1 /\ Certs!Levels = 0 .. n - 1 /\ scheme \in SchemeNames
  BY LevelsAre
<1>2. ASSUME NEW y \in Certs!Levels
      PROVE  /\ scheme # "oodilithium" => Certs!Rank("keygen", y) \in 0 .. 5 * n
             /\ scheme = "oodilithium" =>
                  Certs!Rank("make", y) \in 0 .. 3 * n - 1 /\ Certs!Rank("offline", y) \in 0 .. 3 * n - 1
             /\ scheme \in {"oofalcon", "ooed25519"} => Certs!Rank("offline", y) \in 0 .. 5 * n
  <2>1. y \in Nat /\ y <= n - 1
    BY <1>1
  <2>2. /\ Certs!Rank("keygen", y) \in {y, 2 * y} /\ Certs!Rank("make", y) = 3 * y
        /\ scheme = "oofalcon" => Certs!Rank("offline", y) = n + 3 * (n - 1 - y)
        /\ scheme = "ooed25519" => Certs!Rank("offline", y) = 2 * y + 1
        /\ scheme = "oodilithium" => Certs!Rank("offline", y) = 3 * y + 1
    BY <1>1 DEF Certs!Rank
  <2> QED
    BY <1>1, <2>1, <2>2
<1>3. ASSUME NEW x \in 1 .. Certs!Client
      PROVE  /\ Certs!Rank("certify", x) \in 0 .. 5 * n /\ Certs!Rank("verify_cert", x) \in 0 .. 5 * n
             /\ scheme = "oodilithium" =>
                  /\ Certs!Rank("certify", x) \in 0 .. 3 * n - 1
                  /\ Certs!Rank("resign", x) \in 3 * n + 1 .. 5 * n
                  /\ Certs!Rank("verify_cert", x) \in 4 * n .. 5 * n
  <2>1. x \in Nat /\ 1 <= x /\ x <= n - 1
    BY <1>1
  <2>2. /\ Certs!Rank("certify", x) \in {n + 3 * (n - x) + 1, 3 * x + 2, 2 * n + x, 2 * x + 1}
        /\ Certs!Rank("verify_cert", x) \in {n + 3 * (n - x) + 2, 5 * n + 1 - x}
    BY DEF Certs!Rank
  <2>3. scheme = "oodilithium" => /\ Certs!Rank("certify", x) = 3 * x + 2
                                  /\ Certs!Rank("resign", x) = 3 * n + x
                                  /\ Certs!Rank("verify_cert", x) = 5 * n + 1 - x
    BY DEF Certs!Rank
  <2> QED
    BY <1>1, <2>1, <2>2, <2>3
<1>4. /\ Certs!Rank("sign_message", Certs!Client) \in {n + 1, 4 * n}
      /\ Certs!Rank("verify_message", Certs!Client) \in {n + 2, 4 * n + 1}
      /\ scheme = "oodilithium" =>
              /\ Certs!Rank("sign_message", Certs!Client) = 4 * n
              /\ Certs!Rank("verify_message", Certs!Client) = 4 * n + 1
  BY DEF Certs!Rank
<1> QED
  BY <1>1, <1>2, <1>3, <1>4

(* At the end of an iteration everything is passed; at the end of the setup *)
(* what makes the chain.                                                   *)
LEMMA AtEnd ==
  ASSUME Certs!StateInv, Certs!CertChainAssumption, Certs!Working, place.op = "end"
  PROVE  /\ \A y \in Certs!Levels :
              /\ scheme # "oodilithium" => Certs!Passed("keygen", y)
              /\ scheme = "oodilithium" => Certs!Passed("make", y)
              /\ scheme \in {"oofalcon", "ooed25519", "oodilithium"} => Certs!Passed("offline", y)
              /\ Certs!Signed(y) <=> stage = "run"
              /\ Certs!Checked(y) <=> stage = "run"
         /\ \A x \in 1 .. Certs!Client :
              Certs!Passed("certify", x) /\ (Certs!Passed("verify_cert", x) <=> stage = "run")
         /\ Certs!Passed("verify_message", Certs!Client) <=> stage = "run"
<1> DEFINE n == chain_length  p == Certs!Rank(place.op, place.level)
<1>1. n \in Nat \ {0} /\ Certs!Client = n - 1 /\ Certs!Levels = 0 .. n - 1 /\ scheme \in SchemeNames
  BY LevelsAre
<1>2. p = IF stage = "setup" THEN 3 * n ELSE 5 * n + 1
  BY DEF Certs!Rank
<1>3. stage = "run" \/ (stage = "setup" /\ scheme = "oodilithium")
  BY DEF Certs!Working, Certs!StateInv
<1>4. \A op, y : Certs!Passed(op, y) <=> Certs!Rank(op, y) < p
  BY DEF Certs!Passed
<1> HIDE DEF p
<1>5. ASSUME NEW y \in Certs!Levels
      PROVE  /\ scheme # "oodilithium" => Certs!Passed("keygen", y)
             /\ scheme = "oodilithium" => Certs!Passed("make", y)
             /\ scheme \in {"oofalcon", "ooed25519", "oodilithium"} => Certs!Passed("offline", y)
  <2>1. scheme # "oodilithium" => Certs!Rank("keygen", y) < p
    <3>1. scheme # "oodilithium" => Certs!Rank("keygen", y) \in 0 .. 5 * n
      BY RankBounds
    <3> QED
      BY <1>1, <1>2, <1>3, <3>1
  <2>2. scheme = "oodilithium" => Certs!Rank("make", y) < p /\ Certs!Rank("offline", y) < p
    <3>1. scheme = "oodilithium" =>
            Certs!Rank("make", y) \in 0 .. 3 * n - 1 /\ Certs!Rank("offline", y) \in 0 .. 3 * n - 1
      BY RankBounds
    <3> QED
      BY <1>1, <1>2, <1>3, <3>1
  <2>3. scheme \in {"oofalcon", "ooed25519"} => Certs!Rank("offline", y) < p
    <3>1. scheme \in {"oofalcon", "ooed25519"} => Certs!Rank("offline", y) \in 0 .. 5 * n
      BY RankBounds
    <3> QED
      BY <1>1, <1>2, <1>3, <3>1
  <2> QED
    BY <1>4, <2>1, <2>2, <2>3
<1>6. \A x \in 1 .. Certs!Client : /\ Certs!Passed("certify", x)
                                   /\ Certs!Passed("verify_cert", x) <=> stage = "run"
                                   /\ Certs!Passed(SignOp, x) <=> stage = "run"
  <2> SUFFICES ASSUME NEW x \in 1 .. Certs!Client
               PROVE  /\ Certs!Passed("certify", x)
                      /\ Certs!Passed("verify_cert", x) <=> stage = "run"
                      /\ Certs!Passed(SignOp, x) <=> stage = "run"
    OBVIOUS
  <2>1. /\ Certs!Rank("certify", x) < p
        /\ Certs!Rank("verify_cert", x) < p <=> stage = "run"
        /\ scheme = "oodilithium" => (Certs!Rank("resign", x) < p <=> stage = "run")
    <3>1. /\ Certs!Rank("certify", x) \in 0 .. 5 * n /\ Certs!Rank("verify_cert", x) \in 0 .. 5 * n
          /\ scheme = "oodilithium" =>
               /\ Certs!Rank("certify", x) \in 0 .. 3 * n - 1
               /\ Certs!Rank("resign", x) \in 3 * n + 1 .. 5 * n
               /\ Certs!Rank("verify_cert", x) \in 4 * n .. 5 * n
      BY RankBounds
    <3>2. CASE stage = "run"
      BY <1>1, <1>2, <3>1, <3>2
    <3>3. CASE stage = "setup"
      BY <1>1, <1>2, <1>3, <3>1, <3>3
    <3> QED
      BY <1>3, <3>2, <3>3
  <2> QED
    BY <1>3, <1>4, <2>1 DEF SignOp
<1>7. /\ Certs!Passed("sign_message", Certs!Client) <=> stage = "run"
      /\ Certs!Passed("verify_message", Certs!Client) <=> stage = "run"
  <2>1. /\ Certs!Rank("sign_message", Certs!Client) < p <=> stage = "run"
        /\ Certs!Rank("verify_message", Certs!Client) < p <=> stage = "run"
    BY <1>1, <1>2, <1>3, RankBounds
  <2> QED
    BY <1>4, <2>1
<1>8. ASSUME NEW y \in Certs!Levels
      PROVE  (Certs!Signed(y) <=> stage = "run") /\ (Certs!Checked(y) <=> stage = "run")
  <2>1. y # Certs!Client => y + 1 \in 1 .. Certs!Client
    BY <1>1
  <2> QED
    BY <1>6, <1>7, <2>1 DEF Certs!Signed, Certs!Checked, SignOp
<1> QED
  BY <1>5, <1>6, <1>7, <1>8

(* At the start of an iteration nothing of it is passed.                   *)
LEMMA AtFirst ==
  ASSUME Certs!StateInv, Certs!CertChainAssumption, Certs!Again
  PROVE  /\ \A y \in Certs!Levels :
              /\ scheme # "oodilithium" => ~Certs!Passed("keygen", y)'
              /\ scheme = "oodilithium" => Certs!Passed("make", y)' /\ Certs!Passed("offline", y)'
              /\ scheme \in {"oofalcon", "ooed25519"} => ~Certs!Passed("offline", y)'
              /\ ~Certs!Signed(y)' /\ ~Certs!Checked(y)'
         /\ \A x \in 1 .. Certs!Client :
              /\ Certs!Passed("certify", x)' <=> scheme = "oodilithium"
              /\ ~Certs!Passed("verify_cert", x)'
         /\ ~Certs!Passed("sign_message", Certs!Client)' /\ ~Certs!Passed("verify_message", Certs!Client)'
<1> DEFINE n == chain_length  p == Certs!Rank(place.op, place.level)'
<1>1. n \in Nat \ {0} /\ Certs!Client = n - 1 /\ Certs!Levels = 0 .. n - 1 /\ scheme \in SchemeNames
  BY LevelsAre
<1>2. chain_length' = n /\ scheme' = scheme /\ place' = Certs!First /\ Certs!Client' = Certs!Client
  BY DEF Certs!Again, Certs!Client
<1>3. \A y : /\ \A op \in {"keygen", "make", "offline", "certify", "resign", "sign_message",
                          "verify_message", "verify_cert"} :
                  Certs!Passed(op, y)' <=> Certs!Rank(op, y) < p
  <2>1. \A y : \A op \in {"keygen", "make", "offline", "certify", "resign", "sign_message",
                          "verify_message", "verify_cert"} : Certs!Rank(op, y)' = Certs!Rank(op, y)
    BY <1>2 DEF Certs!Rank
  <2> QED
    BY <2>1 DEF Certs!Passed
<1>4. /\ scheme # "oodilithium" => p = 0
      /\ scheme = "oodilithium" => p \in 3 * n + 1 .. 4 * n /\ \A x \in 1 .. Certs!Client : p = 3 * n + 1
  <2>1. CASE scheme # "oodilithium"
    <3>1. place' = Certs!At("keygen", 0)
      BY <1>2, <2>1 DEF Certs!First
    <3>2. place'.op = "keygen" /\ place'.level = 0
      BY <3>1 DEF Certs!At
    <3> QED
      BY <1>2, <2>1, <3>2 DEF Certs!Rank
  <2>2. CASE scheme = "oodilithium" /\ 1 <= Certs!Client
    <3>1. place' = Certs!At("resign", 1)
      BY <1>2, <2>2 DEF Certs!First, Certs!ResignChain, Certs!Upward
    <3>2. place'.op = "resign" /\ place'.level = 1
      BY <3>1 DEF Certs!At
    <3>3. p = 3 * n + 1
      BY <1>2, <2>2, <3>2 DEF Certs!Rank
    <3> HIDE DEF p
    <3> QED
      BY <1>1, <2>2, <3>3
  <2>3. CASE scheme = "oodilithium" /\ ~(1 <= Certs!Client)
    <3>1. place' = Certs!At("sign_message", Certs!Client)
      BY <1>2, <2>3 DEF Certs!First, Certs!ResignChain, Certs!Upward
    <3>2. place'.op = "sign_message"
      BY <3>1 DEF Certs!At
    <3>3. p = 4 * n
      BY <1>2, <2>3, <3>2 DEF Certs!Rank
    <3> HIDE DEF p
    <3> QED
      BY <1>1, <2>3, <3>3
  <2> QED
    BY <2>1, <2>2, <2>3
<1> HIDE DEF p
<1>5. ASSUME NEW y \in Certs!Levels
      PROVE  /\ scheme # "oodilithium" => ~Certs!Passed("keygen", y)'
             /\ scheme = "oodilithium" => Certs!Passed("make", y)' /\ Certs!Passed("offline", y)'
             /\ scheme \in {"oofalcon", "ooed25519"} => ~Certs!Passed("offline", y)'
  <2>1. scheme # "oodilithium" => ~(Certs!Rank("keygen", y) < p)
    <3>1. scheme # "oodilithium" => Certs!Rank("keygen", y) \in 0 .. 5 * n
      BY RankBounds
    <3> QED
      BY <1>1, <1>4, <3>1
  <2>2. scheme = "oodilithium" => Certs!Rank("make", y) < p /\ Certs!Rank("offline", y) < p
    <3>1. scheme = "oodilithium" =>
            Certs!Rank("make", y) \in 0 .. 3 * n - 1 /\ Certs!Rank("offline", y) \in 0 .. 3 * n - 1
      BY RankBounds
    <3> QED
      BY <1>1, <1>4, <3>1
  <2>3. scheme \in {"oofalcon", "ooed25519"} => ~(Certs!Rank("offline", y) < p)
    <3>1. scheme \in {"oofalcon", "ooed25519"} => Certs!Rank("offline", y) \in 0 .. 5 * n
      BY RankBounds
    <3> QED
      BY <1>1, <1>4, <3>1
  <2> QED
    BY <1>3, <2>1, <2>2, <2>3
<1>6. ASSUME NEW x \in 1 .. Certs!Client
      PROVE  /\ Certs!Passed("certify", x)' <=> scheme = "oodilithium"
             /\ ~Certs!Passed("verify_cert", x)'
             /\ scheme = "oodilithium" => ~Certs!Passed("resign", x)'
  <2>1. /\ Certs!Rank("certify", x) < p <=> scheme = "oodilithium"
        /\ ~(Certs!Rank("verify_cert", x) < p)
        /\ scheme = "oodilithium" => ~(Certs!Rank("resign", x) < p)
    <3>1. /\ Certs!Rank("certify", x) \in 0 .. 5 * n /\ Certs!Rank("verify_cert", x) \in 0 .. 5 * n
          /\ scheme = "oodilithium" =>
               /\ Certs!Rank("certify", x) \in 0 .. 3 * n - 1
               /\ Certs!Rank("resign", x) \in 3 * n + 1 .. 5 * n
               /\ Certs!Rank("verify_cert", x) \in 4 * n .. 5 * n
      BY RankBounds
    <3>2. CASE scheme = "oodilithium"
      <4>1. p = 3 * n + 1 /\ n \in Nat /\ n > 1
        BY <1>1, <1>4, <3>2
      <4>2. Certs!Rank("certify", x) < p
        BY <3>1, <3>2, <4>1
      <4>3. ~(Certs!Rank("verify_cert", x) < p)
        BY <3>1, <3>2, <4>1
      <4>4. ~(Certs!Rank("resign", x) < p)
        BY <3>1, <3>2, <4>1
      <4> QED
        BY <3>2, <4>2, <4>3, <4>4
    <3>3. CASE scheme # "oodilithium"
      <4>1. p = 0 /\ Certs!Rank("certify", x) \in 0 .. 5 * n /\ Certs!Rank("verify_cert", x) \in 0 .. 5 * n
        BY <1>4, <3>1, <3>3
      <4>2. ~(Certs!Rank("certify", x) < p) /\ ~(Certs!Rank("verify_cert", x) < p)
        BY <1>1, <4>1
      <4> QED
        BY <3>3, <4>2
    <3> QED
      BY <3>2, <3>3
  <2> QED
    BY <1>3, <2>1
<1>7. ~Certs!Passed("sign_message", Certs!Client)' /\ ~Certs!Passed("verify_message", Certs!Client)'
  <2>1. /\ ~(Certs!Rank("sign_message", Certs!Client) < p)
        /\ ~(Certs!Rank("verify_message", Certs!Client) < p)
    BY <1>1, <1>4, RankBounds
  <2> QED
    BY <1>2, <1>3, <2>1
<1>8. ASSUME NEW y \in Certs!Levels
      PROVE  ~Certs!Signed(y)' /\ ~Certs!Checked(y)'
  <2>1. y # Certs!Client => y + 1 \in 1 .. Certs!Client
    BY <1>1
  <2>2. CASE y = Certs!Client
    BY <1>2, <1>7, <2>2 DEF Certs!Signed, Certs!Checked
  <2>3. CASE y # Certs!Client
    BY <1>2, <1>6, <2>1, <2>3 DEF Certs!Signed, Certs!Checked
  <2> QED
    BY <2>2, <2>3
<1> QED
  BY <1>5, <1>6, <1>7, <1>8

(* The times of the other operations, and from iteration to iteration.     *)
LEMMA TimesThrow ==
  ASSUME Certs!StateInv, Certs!CertChainAssumption, Certs!TimesInv, Certs!ThrowAwayKey
  PROVE  Certs!TimesInv'
<1> DEFINE x == place.level
<1>1. /\ Certs!Working /\ x \in Certs!Levels /\ place = Certs!At("throw_away", x) /\ place.op = "throw_away"
      /\ place' = Certs!Following /\ Certs!Timed("keygen", x)
  BY TypesAre DEF Certs!ThrowAwayKey, Certs!Doing, Certs!Working, Certs!StateInv, Certs!PlaceInv, Certs!Level
<1>2. GoesOn /\ Keeps /\ iter' = IF x = Certs!Client THEN iter + 1 ELSE iter
  BY ThrowAwayState
<1>3. /\ Certs!Levels' = Certs!Levels /\ scheme' = scheme /\ stage' = stage /\ iterations' = iterations
  BY <1>2, LevelsStay DEF Keeps
<1>4. stage = "setup" /\ scheme = "oodilithium" /\ iter \in Nat /\ Certs!Runs = 0 /\ Certs!Runs' = 0
  <2>1. stage = "setup" /\ scheme = "oodilithium"
    BY <1>1, LevelsAre DEF Certs!StateInv, Certs!PlaceInv, Certs!Working, Certs!Place, Certs!Ops, Certs!SetupOps, SchemeNames
  <2> QED
    BY <1>3, <2>1, TypesAre DEF Certs!Runs
<1>5. Certs!TimesPerRun'
  BY <1>3, <1>4 DEF Certs!TimesPerRun
<1>6. Certs!Client \in Nat /\ Certs!Levels = 0 .. Certs!Client /\ x \in Nat /\ x <= Certs!Client
  BY <1>1, LevelsAre
<1>7. place' = IF x < Certs!Client THEN Certs!At("throw_away", x + 1)
               ELSE IF iter + 1 < iterations THEN Certs!At("throw_away", 0) ELSE Certs!At("make", 0)
  <2>1. place' = Certs!OoDilithium
    BY <1>1, <1>4 DEF Certs!Following
  <2> QED
    BY <1>1, <1>6, <2>1 DEF Certs!OoDilithium, Certs!Upward
<1> SUFFICES ASSUME NEW y \in Certs!Levels
             PROVE  /\ times'["keygen"][y] = iter' + Certs!One(place'.op = "throw_away" /\ y < place'.level)
                    /\ times'["offline"][y] = Certs!One(Certs!Passed("offline", y)')
                    /\ times'["online"][y] = Certs!One(Certs!Signed(y)')
                    /\ times'["verify"][y] = Certs!One(Certs!Checked(y)')
  <2>1. \A b : Certs!Runs' + Certs!One(b) = Certs!One(b)
    BY <1>4 DEF Certs!One
  <2> QED
    BY <1>3, <1>4, <1>5, <2>1 DEF Certs!TimesInv
<1>8. /\ times["keygen"][y] = iter + Certs!One(y < x)
      /\ times["offline"][y] = Certs!One(Certs!Passed("offline", y))
      /\ times["online"][y] = 0 + Certs!One(Certs!Signed(y))
      /\ times["verify"][y] = 0 + Certs!One(Certs!Checked(y))
  BY <1>1, <1>4 DEF Certs!TimesInv, Certs!One
<1>9. /\ times'["keygen"][y] = IF y = x THEN times["keygen"][y] + 1 ELSE times["keygen"][y]
      /\ times'["offline"][y] = times["offline"][y] /\ times'["online"][y] = times["online"][y]
      /\ times'["verify"][y] = times["verify"][y]
  BY <1>1, TypesAre, TimedIs DEF Certs!Kinds
<1>10. times'["keygen"][y] = iter' + Certs!One(place'.op = "throw_away" /\ y < place'.level)
  <2>1. y \in Nat /\ y <= Certs!Client
    BY <1>6
  <2>2. CASE x < Certs!Client
    <3>1. place'.op = "throw_away" /\ place'.level = x + 1 /\ iter' = iter
      BY <1>2, <1>6, <1>7, <2>2 DEF Certs!At
    <3> QED
      BY <1>4, <1>6, <1>8, <1>9, <2>1, <3>1 DEF Certs!One
  <2>3. CASE ~(x < Certs!Client)
    <3>1. place'.level = 0 /\ iter' = iter + 1 /\ x = Certs!Client
      BY <1>2, <1>6, <1>7, <2>3 DEF Certs!At
    <3> QED
      BY <1>4, <1>6, <1>8, <1>9, <2>1, <3>1 DEF Certs!One
  <2> QED
    BY <2>2, <2>3
<1>11. Certs!Passed("offline", y)' <=> Certs!Passed("offline", y)
  BY <1>1, <1>2, <1>4, DriversHave DEF GoesOn
<1>12. (Certs!Signed(y)' <=> Certs!Signed(y)) /\ (Certs!Checked(y)' <=> Certs!Checked(y))
  <2>1. \A op, z : place = Certs!At(op, z) => op = "throw_away"
    BY <1>1 DEF Certs!At
  <2>2. place # SignPlace(y) /\ place # CheckPlace(y)
    BY <2>1 DEF SignPlace, CheckPlace, SignOp
  <2> QED
    BY <1>1, <1>2, <2>2, SignedMoves
<1> QED
  BY <1>8, <1>9, <1>10, <1>11, <1>12 DEF Certs!One

LEMMA TimesAllocate ==
  ASSUME Certs!StateInv, Certs!CertChainAssumption, Certs!TimesInv, Certs!Allocate
  PROVE  Certs!TimesInv'
<1>1. /\ Certs!Working /\ place.op = "allocate" /\ times' = times /\ iter' = iter /\ scheme' = scheme
      /\ chain_length' = chain_length /\ iterations' = iterations
      /\ place' = Certs!Following /\ stage' \in {stage, "done"}
  BY DEF Certs!Allocate, Certs!Doing, Certs!Working
<1>2. stage = "run" /\ iter < iterations /\ iter \in Nat /\ iterations \in Nat
      /\ scheme \in {"falcon", "ed25519", "dilithium"}
  BY <1>1, LevelsAre, TypesAre
  DEF Certs!StateInv, Certs!PlaceInv, Certs!Working, Certs!Place, Certs!Ops, Certs!SetupOps, SchemeNames
<1>3. Certs!TimesPerRun'
  BY <1>1, <1>2 DEF Certs!TimesPerRun
<1>4. CASE stage' = "done"
  BY <1>3, <1>4 DEF Certs!TimesInv, Certs!Working
<1>5. CASE stage' = stage
  <2>1. Keeps
    BY <1>1, <1>5 DEF Keeps
  <2>2. GoesOn /\ Certs!Levels' = Certs!Levels /\ Certs!Runs' = Certs!Runs
    BY <1>1, <1>5, <2>1, StepGoesOn, LevelsStay DEF Certs!Runs
  <2> SUFFICES ASSUME NEW y \in Certs!Levels
               PROVE  /\ times["keygen"][y] = iter + Certs!One(Certs!Passed("keygen", y)')
                      /\ times["offline"][y] = 0
                      /\ times["online"][y] = Certs!Runs + Certs!One(Certs!Signed(y)')
                      /\ times["verify"][y] = Certs!Runs + Certs!One(Certs!Checked(y)')
    BY <1>1, <1>2, <1>3, <1>5, <2>2 DEF Certs!TimesInv
  <2>3. /\ times["keygen"][y] = iter + Certs!One(Certs!Passed("keygen", y))
        /\ times["offline"][y] = 0
        /\ times["online"][y] = Certs!Runs + Certs!One(Certs!Signed(y))
        /\ times["verify"][y] = Certs!Runs + Certs!One(Certs!Checked(y))
    BY <1>1, <1>2 DEF Certs!TimesInv
  <2>4. Certs!Passed("keygen", y)' <=> Certs!Passed("keygen", y)
    BY <1>1, <1>2, <2>2, DriversHave DEF GoesOn
  <2>5. \A op, z : place = Certs!At(op, z) => op = "allocate"
    BY <1>1 DEF Certs!At
  <2>6. place # SignPlace(y) /\ place # CheckPlace(y)
    BY <2>5 DEF SignPlace, CheckPlace, SignOp
  <2>7. (Certs!Signed(y)' <=> Certs!Signed(y)) /\ (Certs!Checked(y)' <=> Certs!Checked(y))
    BY <1>1, <2>1, <2>2, <2>6, SignedMoves
  <2> QED
    BY <2>3, <2>4, <2>7 DEF Certs!One
<1> QED
  BY <1>1, <1>4, <1>5

LEMMA TimesReturn ==
  ASSUME Certs!Return
  PROVE  Certs!TimesInv'
BY DEF Certs!Return, Certs!TimesInv, Certs!TimesPerRun, Certs!Working

LEMMA TimesAgain ==
  ASSUME Certs!StateInv, Certs!CertChainAssumption, Certs!TimesInv, Certs!Again
  PROVE  Certs!TimesInv'
<1>1. /\ Certs!Working /\ place.op = "end" /\ times' = times /\ scheme' = scheme
      /\ chain_length' = chain_length /\ iterations' = iterations
      /\ iter' = IF stage = "run" THEN iter + 1 ELSE 0
      /\ stage' = IF iter' < iterations THEN "run" ELSE "done"
  BY DEF Certs!Again, Certs!Doing, Certs!Working
<1>2. /\ iterations \in Nat \ {0} /\ iter \in Nat /\ scheme \in SchemeNames
      /\ stage = "run" \/ (stage = "setup" /\ scheme = "oodilithium" /\ iter = iterations)
  <2>1. iterations \in Nat \ {0} /\ iter \in 0 .. iterations /\ scheme \in SchemeNames
    BY LevelsAre, TypesAre
  <2>2. stage = "run" \/ (stage = "setup" /\ scheme = "oodilithium" /\ ~(iter < iterations))
    BY <1>1 DEF Certs!StateInv, Certs!PlaceInv, Certs!Working
  <2> QED
    BY <2>1, <2>2
<1>3. Certs!Levels' = Certs!Levels
  BY <1>1 DEF Certs!Levels, Certs!Client
<1>4. iter' \in Nat /\ (stage' = "run" => Certs!Runs' = iter')
  BY <1>1, <1>2 DEF Certs!Runs
<1>5. ASSUME NEW y \in Certs!Levels
      PROVE  /\ times["keygen"][y] = IF scheme = "oodilithium" THEN iterations ELSE iter'
             /\ times["offline"][y] = CASE scheme = "oodilithium" -> 1
                                        [] scheme \in {"oofalcon", "ooed25519"} -> iter'
                                        [] OTHER -> 0
             /\ times["online"][y] = iter' /\ times["verify"][y] = iter'
  <2>1. /\ times["keygen"][y] =
              CASE scheme # "oodilithium" -> iter + Certs!One(Certs!Passed("keygen", y))
                [] stage = "setup" -> iter + Certs!One(place.op = "throw_away" /\ y < place.level)
                [] OTHER -> iterations
        /\ times["offline"][y] =
              CASE scheme = "oodilithium" -> Certs!One(Certs!Passed("offline", y))
                [] scheme \in {"oofalcon", "ooed25519"} -> iter + Certs!One(Certs!Passed("offline", y))
                [] OTHER -> 0
        /\ times["online"][y] = Certs!Runs + Certs!One(Certs!Signed(y))
        /\ times["verify"][y] = Certs!Runs + Certs!One(Certs!Checked(y))
    BY <1>1 DEF Certs!TimesInv
  <2>2. /\ scheme # "oodilithium" => Certs!Passed("keygen", y)
        /\ scheme \in {"oofalcon", "ooed25519", "oodilithium"} => Certs!Passed("offline", y)
        /\ Certs!Signed(y) <=> stage = "run"
        /\ Certs!Checked(y) <=> stage = "run"
    BY <1>1, AtEnd
  <2>3. CASE stage = "run"
    <3>1. iter' = iter + 1 /\ Certs!Runs = iter
      BY <1>1, <2>3 DEF Certs!Runs
    <3>2. times["keygen"][y] = IF scheme = "oodilithium" THEN iterations ELSE iter'
      BY <1>2, <2>1, <2>2, <2>3, <3>1 DEF Certs!One
    <3>3. times["offline"][y] = CASE scheme = "oodilithium" -> 1
                                  [] scheme \in {"oofalcon", "ooed25519"} -> iter'
                                  [] OTHER -> 0
      BY <2>1, <2>2, <3>1 DEF Certs!One
    <3> QED
      BY <2>1, <2>2, <2>3, <3>1, <3>2, <3>3 DEF Certs!One
  <2>4. CASE stage = "setup"
    <3>1. iter' = 0 /\ Certs!Runs = 0 /\ scheme = "oodilithium" /\ iter = iterations
      BY <1>1, <1>2, <2>4 DEF Certs!Runs
    <3> QED
      BY <1>1, <1>2, <2>1, <2>2, <2>4, <3>1 DEF Certs!One
  <2> QED
    BY <1>2, <2>3, <2>4
<1>6. CASE stage' = "run"
  <2>1. Certs!TimesPerRun'
    BY <1>6 DEF Certs!TimesPerRun
  <2> SUFFICES ASSUME NEW y \in Certs!Levels
               PROVE  /\ times["keygen"][y] =
                           CASE scheme # "oodilithium" -> iter' + Certs!One(Certs!Passed("keygen", y)')
                             [] OTHER -> iterations
                      /\ times["offline"][y] =
                           CASE scheme = "oodilithium" -> Certs!One(Certs!Passed("offline", y)')
                             [] scheme \in {"oofalcon", "ooed25519"} -> iter' + Certs!One(Certs!Passed("offline", y)')
                             [] OTHER -> 0
                      /\ times["online"][y] = iter' + Certs!One(Certs!Signed(y)')
                      /\ times["verify"][y] = iter' + Certs!One(Certs!Checked(y)')
    BY <1>1, <1>3, <1>4, <1>6, <2>1 DEF Certs!TimesInv
  <2>2. /\ scheme # "oodilithium" => ~Certs!Passed("keygen", y)'
        /\ scheme = "oodilithium" => Certs!Passed("offline", y)'
        /\ scheme \in {"oofalcon", "ooed25519"} => ~Certs!Passed("offline", y)'
        /\ ~Certs!Signed(y)' /\ ~Certs!Checked(y)'
    BY AtFirst
  <2> QED
    BY <1>4, <1>5, <2>2 DEF Certs!One
<1>7. CASE stage' = "done"
  <2>1. Certs!TimesPerRun'
    <3> SUFFICES ASSUME iter' = iterations, NEW y \in Certs!Levels
                 PROVE  /\ \A kind \in Certs!Kinds \ {"offline"} : times[kind][y] = iterations
                        /\ times["offline"][y] =
                              CASE scheme = "oodilithium" -> 1
                                [] scheme \in {"oofalcon", "ooed25519"} -> iterations
                                [] OTHER -> 0
      BY <1>1, <1>3 DEF Certs!TimesPerRun, Certs!Kinds
    <3> QED
      BY <1>5 DEF Certs!Kinds
  <2> QED
    BY <1>7, <2>1 DEF Certs!TimesInv, Certs!Working
<1> QED
  BY <1>1, <1>6, <1>7

LEMMA TimesStep ==
  ASSUME Certs!StateInv, Certs!CertChainAssumption, Certs!TimesInv, Certs!Next
  PROVE  Certs!TimesInv'
BY TimesWork, TimesThrow, TimesAllocate, TimesReturn, TimesAgain DEF Certs!Next, Works
-----------------------------------------------------------------------------
(* The signatures.                                                         *)
LEMMA SignaturesFrom ==
  ASSUME Certs!StateInv, Certs!CertChainAssumption, Certs!SignaturesInv, Certs!Working, Keeps, GoesOn,
         any_failed => any_failed',
         \A x \in 1 .. Certs!Client : Certs!Passed("certify", x) /\ Certs!CertRight(x) => Certs!CertRight(x)',
         \A x \in 1 .. Certs!Client : place = Certs!At("certify", x) => any_failed' \/ Certs!CertRight(x)',
         Certs!Passed("sign_message", Certs!Client) /\ Certs!MessageRight => Certs!MessageRight',
         place = Certs!At("sign_message", Certs!Client) => any_failed' \/ Certs!MessageRight',
         complaints \subseteq complaints',
         \A x \in 1 .. Certs!Client : place = Certs!At("verify_cert", x) => x \in complaints' \/ Certs!CertRight(x)',
         place = Certs!At("verify_message", Certs!Client) => 0 \in complaints' \/ Certs!MessageRight',
         complaints' # {} => complaints # {} \/ any_failed'
  PROVE  Certs!SignaturesInv'
<1>1. Certs!Client' = Certs!Client /\ stage' = stage
  BY LevelsStay DEF Keeps
<1>2. Certs!ComplaintMeansFailure'
  BY DEF Certs!SignaturesInv, Certs!ComplaintMeansFailure
<1>3. ASSUME ~any_failed', NEW x \in 1 .. Certs!Client, Certs!Passed("certify", x)'
      PROVE  Certs!CertRight(x)'
  <2>1. CASE Certs!Passed("certify", x)
    BY <1>3, <2>1 DEF Certs!SignaturesInv
  <2>2. CASE place = Certs!At("certify", x)
    BY <1>3, <2>2
  <2> QED
    BY <1>3, <2>1, <2>2, Moves
<1>4. ASSUME ~any_failed', Certs!Passed("sign_message", Certs!Client)'
      PROVE  Certs!MessageRight'
  <2>1. CASE Certs!Passed("sign_message", Certs!Client)
    BY <1>4, <2>1 DEF Certs!SignaturesInv
  <2>2. CASE place = Certs!At("sign_message", Certs!Client)
    BY <1>4, <2>2
  <2> QED
    BY <1>4, <2>1, <2>2, Moves
<1>5. ASSUME stage = "run", NEW x \in 1 .. Certs!Client, Certs!Passed("verify_cert", x)'
      PROVE  x \in complaints' \/ Certs!CertRight(x)'
  <2>1. CASE Certs!Passed("verify_cert", x)
    <3>1. Certs!Passed("certify", x)
      BY <2>1, InOrder
    <3>2. x \in complaints \/ Certs!CertRight(x)
      BY <1>5, <2>1 DEF Certs!SignaturesInv
    <3> QED
      BY <3>1, <3>2
  <2>2. CASE place = Certs!At("verify_cert", x)
    BY <2>2
  <2> QED
    BY <1>5, <2>1, <2>2, Moves
<1>6. ASSUME stage = "run", Certs!Passed("verify_message", Certs!Client)'
      PROVE  0 \in complaints' \/ Certs!MessageRight'
  <2>1. CASE Certs!Passed("verify_message", Certs!Client)
    <3>1. Certs!Passed("sign_message", Certs!Client)
      BY <2>1, InOrder
    <3>2. 0 \in complaints \/ Certs!MessageRight
      BY <1>6, <2>1 DEF Certs!SignaturesInv
    <3> QED
      BY <3>1, <3>2
  <2>2. CASE place = Certs!At("verify_message", Certs!Client)
    BY <2>2
  <2> QED
    BY <1>6, <2>1, <2>2, Moves
<1>7. /\ Certs!Passed("sign_message", Certs!Client)' <=> (Certs!Passed("sign_message", Certs!Client))'
      /\ Certs!Passed("verify_message", Certs!Client)' <=> (Certs!Passed("verify_message", Certs!Client))'
  BY <1>1
<1> QED
  BY <1>1, <1>2, <1>3, <1>4, <1>5, <1>6, <1>7 DEF Certs!SignaturesInv

(* A new key is of a level that nothing was signed with, or over, yet.     *)
LEMMA KeySignatures ==
  ASSUME Certs!StateInv, Certs!CertChainAssumption, Certs!SignaturesInv, Certs!Keygen \/ Certs!MakeKey
  PROVE  Certs!SignaturesInv'
<1> DEFINE k == place.level
<1>1. PICK op \in {"keygen", "make"} : Certs!Doing(op) /\ Certs!Go
  BY DEF Certs!Keygen, Certs!MakeKey
<1>2. /\ Certs!Working /\ place = Certs!At(op, k) /\ Certs!Place(op, k) /\ Keeps /\ GoesOn /\ place.op = op
      /\ k \in Certs!Levels
  BY <1>1, GoIs DEF Certs!Place, Certs!Doing
<1>3. /\ chain_keys' = [chain_keys EXCEPT ![k] = made + 1]
      /\ certs' = certs /\ msg_sig' = msg_sig /\ any_failed' = any_failed /\ complaints' = complaints
  BY DEF Certs!Keygen, Certs!MakeKey, Certs!NewKey, Certs!Level
<1>4. op = KeyOp
  BY <1>2, LevelsAre DEF KeyOp, Certs!Place, Certs!Ops, Certs!SetupOps, SchemeNames
<1>5. ~Certs!Passed(KeyOp, k)
  BY <1>2, <1>4, NotPassed
<1>6. /\ Certs!Levels' = Certs!Levels /\ Certs!Client' = Certs!Client /\ Certs!Client \in Certs!Levels
      /\ \A x \in 1 .. Certs!Client : x \in Certs!Levels /\ x - 1 \in Certs!Levels
  BY <1>2, LevelsAre, LevelsStay
<1>7. \A x \in Certs!Levels : x # k => chain_keys'[x] = chain_keys[x]
  BY <1>3, TypesAre
<1> HIDE DEF k
<1>8. ASSUME NEW x \in 1 .. Certs!Client, Certs!Passed("certify", x), Certs!CertRight(x)
      PROVE  Certs!CertRight(x)'
  <2>1. x # k /\ x - 1 # k
    BY <1>2, <1>5, <1>8, InOrder
  <2> QED
    BY <1>3, <1>6, <1>7, <1>8, <2>1 DEF Certs!CertRight
<1>9. Certs!Passed("sign_message", Certs!Client) /\ Certs!MessageRight => Certs!MessageRight'
  <2>1. Certs!Passed("sign_message", Certs!Client) => Certs!Client # k
    BY <1>2, <1>5, InOrder
  <2> QED
    BY <1>3, <1>6, <1>7, <2>1 DEF Certs!MessageRight
<1>10. \A o, z : place = Certs!At(o, z) => o \in {"keygen", "make"}
  BY <1>2 DEF Certs!At
<1> QED
  BY <1>2, <1>3, <1>8, <1>9, <1>10, SignaturesFrom

(* What leaves keys and signatures alone.                                  *)
LEMMA QuietSignatures ==
  ASSUME Certs!StateInv, Certs!CertChainAssumption, Certs!SignaturesInv, Certs!Working, Keeps, GoesOn,
         UNCHANGED <<chain_keys, certs, msg_sig, any_failed, complaints>>,
         place.op \notin {"certify", "sign_message", "verify_message", "verify_cert"}
  PROVE  Certs!SignaturesInv'
<1>1. Certs!Client' = Certs!Client
  BY LevelsStay
<1>2. /\ \A x : Certs!CertRight(x)' <=> Certs!CertRight(x)
      /\ Certs!MessageRight' <=> Certs!MessageRight
  BY <1>1 DEF Certs!CertRight, Certs!MessageRight
<1>3. \A op, x : place = Certs!At(op, x) => op = place.op
  BY DEF Certs!At
<1> QED
  BY <1>2, <1>3, SignaturesFrom

LEMMA CertifySignatures ==
  ASSUME Certs!StateInv, Certs!CertChainAssumption, Certs!SignaturesInv, Certs!Certify
  PROVE  Certs!SignaturesInv'
<1>0. PICK k : k = place.level
  OBVIOUS
<1>1. Certs!Doing("certify") /\ \E over, new : Certs!Signs(k - 1, over, new)
  BY <1>0 DEF Certs!Certify, Certs!Level
<1>2. Certs!Doing("certify") /\ Certs!Go
  BY <1>1 DEF Certs!Signs
<1>3. Certs!Working /\ place = Certs!At("certify", k) /\ k \in Certs!Levels /\ Keeps /\ GoesOn
  BY <1>0, <1>2, GoIs DEF Certs!Place
<1>4. PICK new : certs' = [certs EXCEPT ![k] = new] /\ Certs!Signs(k - 1, chain_keys[k], new)
  BY <1>0 DEF Certs!Certify, Certs!Level
<1>5. /\ chain_keys' = chain_keys /\ msg_sig' = msg_sig /\ complaints' = complaints
      /\ any_failed' = (any_failed \/ new # [by |-> chain_keys[k - 1], over |-> chain_keys[k]])
  BY <1>4 DEF Certs!Certify, Certs!Signs
<1>6. k \in 1 .. Certs!Client /\ ~Certs!Passed("certify", k) /\ Certs!Client' = Certs!Client
      /\ \A x \in 1 .. Certs!Client : x \in Certs!Levels
  BY <1>3, SignerIs, NotPassed, LevelsAre, LevelsStay
<1>7. \A op, x : place = Certs!At(op, x) <=> op = "certify" /\ x = k
  BY <1>3 DEF Certs!At
<1>8. /\ certs'[k] = new
      /\ \A x \in Certs!Levels : x # k => certs'[x] = certs[x]
  BY <1>3, <1>4, TypesAre
<1>9. \A x \in 1 .. Certs!Client : Certs!Passed("certify", x) /\ Certs!CertRight(x) => Certs!CertRight(x)'
  BY <1>5, <1>6, <1>8 DEF Certs!CertRight
<1>10. any_failed' \/ Certs!CertRight(k)'
  BY <1>5, <1>8 DEF Certs!CertRight
<1>11. Certs!MessageRight' <=> Certs!MessageRight
  BY <1>5, <1>6 DEF Certs!MessageRight
<1>12. \A x : place = Certs!At("certify", x) => any_failed' \/ Certs!CertRight(x)'
  BY <1>7, <1>10
<1>13. /\ \A x \in 1 .. Certs!Client : place # Certs!At("verify_cert", x)
       /\ place # Certs!At("sign_message", Certs!Client) /\ place # Certs!At("verify_message", Certs!Client)
  BY <1>7
<1>14. (any_failed => any_failed') /\ complaints \subseteq complaints' /\ (complaints' # {} => complaints # {} \/ any_failed')
  BY <1>5
<1> QED
  BY <1>3, <1>9, <1>11, <1>12, <1>13, <1>14, SignaturesFrom

LEMMA MessageSignatures ==
  ASSUME Certs!StateInv, Certs!CertChainAssumption, Certs!SignaturesInv, Certs!SignMessage
  PROVE  Certs!SignaturesInv'
<1> DEFINE k == place.level
<1>1. PICK new : Certs!Doing("sign_message") /\ msg_sig' = new /\ Certs!Signs(k, 0, new)
  BY DEF Certs!SignMessage, Certs!Level
<1>2. Certs!Working /\ place = Certs!At("sign_message", k) /\ k \in Certs!Levels /\ Keeps /\ GoesOn
  BY <1>1, GoIs DEF Certs!Place, Certs!Signs
<1>3. /\ chain_keys' = chain_keys /\ certs' = certs /\ complaints' = complaints
      /\ any_failed' = (any_failed \/ new # [by |-> chain_keys[k], over |-> 0])
  BY <1>1 DEF Certs!SignMessage, Certs!Signs
<1>4. k = Certs!Client /\ ~Certs!Passed("sign_message", Certs!Client) /\ Certs!Client' = Certs!Client
  <2>1. k = Certs!Client
    BY <1>2, SignerIs
  <2> HIDE DEF k
  <2> QED
    BY <1>2, <2>1, NotPassed, LevelsStay
<1>5. \A op, x : place = Certs!At(op, x) => op = "sign_message"
  BY <1>2 DEF Certs!At
<1> HIDE DEF k
<1>6. any_failed' \/ Certs!MessageRight'
  BY <1>1, <1>3, <1>4 DEF Certs!MessageRight
<1>7. \A x \in 1 .. Certs!Client : Certs!CertRight(x)' <=> Certs!CertRight(x)
  BY <1>3 DEF Certs!CertRight
<1> QED
  BY <1>2, <1>3, <1>4, <1>5, <1>6, <1>7, SignaturesFrom

LEMMA VerifySignatures ==
  ASSUME Certs!StateInv, Certs!CertChainAssumption, Certs!SignaturesInv, Certs!VerifyMessage \/ Certs!VerifyCert
  PROVE  Certs!SignaturesInv'
<1> DEFINE k == place.level
<1>1. PICK op \in {"verify_message", "verify_cert"} : Certs!Doing(op) /\ Certs!Go
  BY DEF Certs!VerifyMessage, Certs!VerifyCert, Certs!Verify
<1>2. Certs!Working /\ place = Certs!At(op, k) /\ k \in Certs!Levels /\ Keeps /\ GoesOn /\ place.op = op
  BY <1>1, GoIs DEF Certs!Place, Certs!Doing
<1>3. stage = "run"
  BY <1>2 DEF Certs!StateInv, Certs!PlaceInv, Certs!Working, Certs!SetupOps
<1>4. UNCHANGED <<chain_keys, certs, msg_sig, any_failed>> /\ Certs!Client' = Certs!Client
  BY <1>2, LevelsStay DEF Certs!VerifyMessage, Certs!VerifyCert, Certs!Verify
<1>5. /\ \A x : Certs!CertRight(x)' <=> Certs!CertRight(x)
      /\ Certs!MessageRight' <=> Certs!MessageRight
  BY <1>4 DEF Certs!CertRight, Certs!MessageRight
<1>6. \A o, x : place = Certs!At(o, x) <=> o = op /\ x = k
  BY <1>2 DEF Certs!At
<1>7. CASE op = "verify_message"
  <2>1. k = Certs!Client /\ complaints' = IF msg_sig = [by |-> chain_keys[k], over |-> 0]
                                          THEN complaints ELSE complaints \cup {0}
    <3>1. k = Certs!Client
      BY <1>2, <1>7, SignerIs
    <3>2. Certs!Verify(msg_sig, k, 0, 0)
      BY <1>2, <1>7 DEF Certs!VerifyMessage, Certs!VerifyCert, Certs!Doing, Certs!Level
    <3> HIDE DEF k
    <3> QED
      BY <3>1, <3>2 DEF Certs!Verify
  <2>2. Certs!Passed("sign_message", Certs!Client)
    <3>1. place = Certs!At("verify_message", Certs!Client)
      BY <1>2, <1>7, <2>1
    <3> QED
      BY <1>2, <3>1, InOrder
  <2> HIDE DEF k
  <2>3. CASE Certs!MessageRight
    <3>1. complaints' = complaints
      BY <2>1, <2>3 DEF Certs!MessageRight
    <3> QED
      BY <1>2, <1>4, <1>5, <1>6, <1>7, <2>3, <3>1, SignaturesFrom
  <2>4. CASE ~Certs!MessageRight
    <3>1. complaints' = complaints \cup {0}
      BY <2>1, <2>4 DEF Certs!MessageRight
    <3>2. any_failed
      BY <1>2, <2>2, <2>4 DEF Certs!SignaturesInv
    <3> QED
      BY <1>2, <1>4, <1>5, <1>6, <1>7, <3>1, <3>2, SignaturesFrom
  <2> QED
    BY <2>3, <2>4
<1>8. CASE op = "verify_cert"
  <2>1. k \in 1 .. Certs!Client
    BY <1>2, <1>8, SignerIs
  <2>2. complaints' = IF Certs!CertRight(k) THEN complaints ELSE complaints \cup {k}
    BY <1>2, <1>8 DEF Certs!VerifyMessage, Certs!VerifyCert, Certs!Verify, Certs!Doing, Certs!Level, Certs!CertRight
  <2>3. Certs!Passed("certify", k)
    BY <1>2, <1>8, <2>1, InOrder
  <2> HIDE DEF k
  <2>4. CASE Certs!CertRight(k)
    <3>1. complaints' = complaints
      BY <2>2, <2>4
    <3>2. \A x \in 1 .. Certs!Client : place = Certs!At("verify_cert", x) => Certs!CertRight(x)
      BY <1>6, <2>4
    <3> QED
      BY <1>2, <1>4, <1>5, <1>6, <1>8, <3>1, <3>2, SignaturesFrom
  <2>5. CASE ~Certs!CertRight(k)
    <3>1. complaints' = complaints \cup {k}
      BY <2>2, <2>5
    <3>2. any_failed
      BY <1>2, <2>1, <2>3, <2>5 DEF Certs!SignaturesInv
    <3> QED
      BY <1>2, <1>4, <1>5, <1>6, <1>8, <3>1, <3>2, SignaturesFrom
  <2> QED
    BY <2>4, <2>5
<1> QED
  BY <1>7, <1>8

(* The message's buffer is made before the message is signed.              *)
LEMMA AllocateSignatures ==
  ASSUME Certs!StateInv, Certs!CertChainAssumption, Certs!SignaturesInv, Certs!Allocate
  PROVE  Certs!SignaturesInv'
<1>1. /\ Certs!Working /\ place.op = "allocate" /\ UNCHANGED <<chain_keys, certs, complaints, any_failed>>
      /\ UNCHANGED <<scheme, chain_length, iterations, iter>>
      /\ place' = Certs!Following /\ stage' \in {stage, "done"}
  BY DEF Certs!Allocate, Certs!Doing, Certs!Working
<1>2. CASE stage' = "done"
  BY <1>1, <1>2 DEF Certs!SignaturesInv, Certs!Working, Certs!ComplaintMeansFailure
<1>3. CASE stage' = stage
  <2>1. Keeps /\ GoesOn
    BY <1>1, <1>3, StepGoesOn DEF Keeps
  <2>2. \A op, x : place = Certs!At(op, x) => op = "allocate"
    BY <1>1 DEF Certs!At
  <2>3. ~Certs!Passed("sign_message", Certs!Client)
    <3>1. scheme \in {"falcon", "ed25519", "dilithium"}
      BY <1>1, LevelsAre
      DEF Certs!StateInv, Certs!PlaceInv, Certs!Place, Certs!Ops, Certs!SetupOps, SchemeNames
    <3>2. /\ Certs!Rank("sign_message", Certs!Client) = 4 * chain_length
          /\ Certs!Rank(place.op, place.level) = 2 * chain_length
      BY <1>1, <3>1 DEF Certs!Rank
    <3>3. chain_length \in Nat
      BY LevelsAre
    <3> QED
      BY <3>2, <3>3 DEF Certs!Passed
  <2>4. \A x \in 1 .. Certs!Client : Certs!CertRight(x)' <=> Certs!CertRight(x)
    BY <1>1 DEF Certs!CertRight
  <2> QED
    BY <1>1, <2>1, <2>2, <2>3, <2>4, SignaturesFrom
<1> QED
  BY <1>1, <1>2, <1>3

LEMMA ReturnSignatures ==
  ASSUME Certs!SignaturesInv, Certs!Return
  PROVE  Certs!SignaturesInv'
BY DEF Certs!Return, Certs!SignaturesInv, Certs!Working, Certs!ComplaintMeansFailure

LEMMA AgainSignatures ==
  ASSUME Certs!StateInv, Certs!CertChainAssumption, Certs!SignaturesInv, Certs!Again
  PROVE  Certs!SignaturesInv'
<1>1. /\ Certs!Working /\ place.op = "end" /\ stage' \in {"run", "done"}
      /\ UNCHANGED <<scheme, chain_length, chain_keys, certs, msg_sig>> /\ Certs!Client' = Certs!Client
  BY DEF Certs!Again, Certs!Doing, Certs!Working, Certs!Client
<1>2. CASE stage' = "run"
  <2>1. complaints' = {} /\ any_failed' = (any_failed /\ scheme = "oodilithium")
    BY <1>2 DEF Certs!Again
  <2>2. /\ \A x \in 1 .. Certs!Client : (Certs!Passed("certify", x)' <=> scheme = "oodilithium")
                                        /\ ~Certs!Passed("verify_cert", x)'
        /\ ~Certs!Passed("sign_message", Certs!Client)' /\ ~Certs!Passed("verify_message", Certs!Client)'
    BY AtFirst
  <2>3. ASSUME ~any_failed', NEW x \in 1 .. Certs!Client, Certs!Passed("certify", x)'
        PROVE  Certs!CertRight(x)'
    <3>1. scheme = "oodilithium" /\ ~any_failed
      BY <2>1, <2>2, <2>3
    <3>2. Certs!CertRight(x)
      BY <1>1, <3>1, AtEnd DEF Certs!SignaturesInv
    <3> QED
      BY <1>1, <3>2 DEF Certs!CertRight
  <2>4. Certs!ComplaintMeansFailure'
    BY <2>1 DEF Certs!ComplaintMeansFailure
  <2> QED
    BY <1>1, <2>2, <2>3, <2>4 DEF Certs!SignaturesInv
<1>3. CASE stage' # "run"
  <2>1. stage' = "done" /\ UNCHANGED <<complaints, any_failed>>
    BY <1>1, <1>3 DEF Certs!Again
  <2> QED
    BY <2>1 DEF Certs!SignaturesInv, Certs!Working, Certs!ComplaintMeansFailure
<1> QED
  BY <1>2, <1>3

LEMMA SignaturesStep ==
  ASSUME Certs!StateInv, Certs!CertChainAssumption, Certs!TimesInv, Certs!SignaturesInv, Certs!Next
  PROVE  Certs!SignaturesInv'
<1>1. CASE Certs!Offline
  <2>1. Certs!Doing("offline") /\ Certs!Go /\ place.op = "offline"
    BY <1>1 DEF Certs!Offline, Certs!Doing
  <2>2. Certs!Working /\ Keeps /\ GoesOn
    BY <2>1, GoIs
  <2> QED
    BY <1>1, <2>1, <2>2, QuietSignatures DEF Certs!Offline
<1>2. CASE Certs!Resign
  <2>1. Certs!Doing("resign") /\ Certs!Go /\ place.op = "resign"
    BY <1>2 DEF Certs!Resign, Certs!Doing, Certs!Signs
  <2>2. Certs!Working /\ Keeps /\ GoesOn
    BY <2>1, GoIs
  <2>3. UNCHANGED <<chain_keys, certs, msg_sig, any_failed, complaints>>
    BY <1>2 DEF Certs!Resign, Certs!Signs, Certs!StateInv, Certs!Level
  <2> QED
    BY <2>1, <2>2, <2>3, QuietSignatures
<1>3. CASE Certs!ThrowAwayKey
  <2>1. Certs!Working /\ place.op = "throw_away" /\ Keeps /\ GoesOn
    BY <1>3, ThrowAwayState DEF Certs!ThrowAwayKey, Certs!Doing, Certs!Working
  <2> QED
    BY <1>3, <2>1, QuietSignatures DEF Certs!ThrowAwayKey
<1> QED
  BY <1>1, <1>2, <1>3, KeySignatures, CertifySignatures, MessageSignatures, VerifySignatures,
     AllocateSignatures, ReturnSignatures, AgainSignatures DEF Certs!Next
-----------------------------------------------------------------------------
(* The nonces.                                                             *)
UseAt(z) == IF stage = "setup" THEN z < Certs!Client /\ place = Certs!At("certify", z + 1)
            ELSE place = SignPlace(z)

LEMMA UsedMoves ==
  ASSUME Certs!StateInv, Certs!CertChainAssumption, Certs!Working, Keeps, GoesOn
  PROVE  \A z \in Certs!Levels : /\ Certs!Used(z)' <=> Certs!Used(z) \/ UseAt(z)
                                 /\ ~(Certs!Used(z) /\ UseAt(z))
<1> SUFFICES ASSUME NEW z \in Certs!Levels
             PROVE  (Certs!Used(z)' <=> Certs!Used(z) \/ UseAt(z)) /\ ~(Certs!Used(z) /\ UseAt(z))
  OBVIOUS
<1>1. Certs!Client' = Certs!Client /\ stage' = stage
  BY LevelsStay DEF Keeps
<1>2. CASE stage = "setup"
  <2>1. z < Certs!Client => z + 1 \in 1 .. Certs!Client
    BY LevelsAre
  <2>2. z < Certs!Client => /\ Certs!Passed("certify", z + 1)' <=>
                                 Certs!Passed("certify", z + 1) \/ place = Certs!At("certify", z + 1)
                            /\ ~(Certs!Passed("certify", z + 1) /\ place = Certs!At("certify", z + 1))
    BY <2>1, Moves, InOrder
  <2>3. Certs!Used(z) <=> z < Certs!Client /\ Certs!Passed("certify", z + 1)
    BY <1>2 DEF Certs!Used
  <2>4. Certs!Used(z)' <=> z < Certs!Client /\ Certs!Passed("certify", z + 1)'
    BY <1>1, <1>2 DEF Certs!Used
  <2> QED
    BY <1>2, <2>2, <2>3, <2>4 DEF UseAt
<1>3. CASE stage # "setup"
  <2>1. Certs!Used(z) <=> Certs!Signed(z)
    BY <1>3 DEF Certs!Used
  <2>2. Certs!Used(z)' <=> Certs!Signed(z)'
    BY <1>1, <1>3 DEF Certs!Used
  <2> QED
    BY <1>3, <2>1, <2>2, SignedMoves DEF UseAt
<1> QED
  BY <1>2, <1>3

(* OO-Falcon's sample is for one level at a time, which signs next.        *)
Waits(y) == Certs!Passed("offline", y) /\ ~Certs!Signed(y)

LEMMA SampleIs ==
  ASSUME Certs!StateInv, Certs!CertChainAssumption, Certs!Working, scheme = "oofalcon"
  PROVE  \A y \in Certs!Levels :
           /\ Waits(y) <=> place = SignPlace(y)
           /\ \A z \in Certs!Levels : Waits(y) /\ Waits(z) => y = z
           /\ place.op \in {"keygen", "offline"} => ~Waits(y)
<1> DEFINE n == chain_length  p == Certs!Rank(place.op, place.level)
<1>1. n \in Nat \ {0} /\ Certs!Client = n - 1 /\ Certs!Levels = 0 .. n - 1 /\ p \in Int
  BY LevelsAre, PresentRank
<1>2. \A op, y : Certs!Passed(op, y) <=> Certs!Rank(op, y) < p
  BY DEF Certs!Passed
<1>3. \A op, y : place = Certs!At(op, y) => place.op = op /\ place.level = y
  BY DEF Certs!At
<1>4. ASSUME NEW y \in Certs!Levels
      PROVE  /\ Waits(y) <=> p = n + 3 * (n - 1 - y) + 1
             /\ place = SignPlace(y) => p = n + 3 * (n - 1 - y) + 1
  <2>1. Certs!Rank("offline", y) = n + 3 * (n - 1 - y) /\ y \in Nat /\ y <= n - 1
    BY <1>1 DEF Certs!Rank
  <2>2. CASE y = Certs!Client
    <3>1. /\ Waits(y) <=> Certs!Rank("offline", y) < p /\ ~(Certs!Rank("sign_message", y) < p)
          /\ Certs!Rank("sign_message", y) = n + 1
          /\ place = SignPlace(y) => p = Certs!Rank("sign_message", y)
      BY <1>2, <1>3, <2>2 DEF Waits, Certs!Signed, SignPlace, Certs!Rank
    <3>2. n - 1 - y = 0
      BY <1>1, <2>2
    <3> HIDE DEF p
    <3> QED
      BY <1>1, <2>1, <3>1, <3>2
  <2>3. CASE y # Certs!Client
    <3>0. Certs!Rank("certify", y + 1) = n + 3 * (n - (y + 1)) + 1
      BY DEF Certs!Rank
    <3>1. /\ Waits(y) <=> Certs!Rank("offline", y) < p /\ ~(Certs!Rank("certify", y + 1) < p)
          /\ place = SignPlace(y) => p = Certs!Rank("certify", y + 1)
      <4>1. Certs!Signed(y) <=> Certs!Passed("certify", y + 1)
        BY <2>3 DEF Certs!Signed
      <4>2. SignPlace(y) = Certs!At("certify", y + 1)
        BY <2>3 DEF SignPlace, SignOp
      <4>3. place = SignPlace(y) => place.op = "certify" /\ place.level = y + 1
        BY <1>3, <4>2
      <4> QED
        BY <1>2, <4>1, <4>3 DEF Waits
    <3>2. n - (y + 1) = n - 1 - y
      BY <1>1, <2>1
    <3> HIDE DEF p
    <3> QED
      BY <1>1, <2>1, <3>0, <3>1, <3>2
  <2> QED
    BY <2>2, <2>3
<1>5. /\ place.op \in {"keygen", "offline", "certify", "sign_message", "verify_message", "verify_cert", "end"}
      /\ place = Certs!At(place.op, place.level) /\ place.level \in Nat /\ place.level <= n - 1
      /\ place.op = "sign_message" => place.level = n - 1
      /\ place.op = "certify" => place.level # 0
  BY <1>1 DEF Certs!StateInv, Certs!PlaceInv, Certs!Place, Certs!Ops
<1>6. /\ place.op = "keygen" => p = place.level
      /\ place.op = "offline" => p = n + 3 * (n - 1 - place.level)
      /\ place.op = "certify" => p = n + 3 * (n - place.level) + 1
      /\ place.op = "sign_message" => p = n + 1
      /\ place.op = "verify_message" => p = n + 2
      /\ place.op = "verify_cert" => p = n + 3 * (n - place.level) + 2
      /\ place.op = "end" => p = 5 * n + 1
  <2>1. place.op = "end" => stage # "setup"
    BY DEF Certs!StateInv
  <2> QED
    BY <1>1, <2>1 DEF Certs!Rank
<1> DEFINE l == place.level
<1> HIDE DEF p, l
<1>7. ASSUME NEW y \in Certs!Levels, p = n + 3 * (n - 1 - y) + 1
      PROVE  place = SignPlace(y)
  <2>1. y \in Nat /\ y <= n - 1 /\ l \in Nat /\ l <= n - 1
    BY <1>1, <1>5 DEF l
  <2>2. place.op \notin {"keygen", "offline", "verify_message", "verify_cert", "end"}
    <3>1. p # l
      BY <1>1, <1>7, <2>1
    <3>2. p # n + 3 * (n - 1 - l)
      BY <1>1, <1>7, <2>1
    <3>3. p # n + 2
      BY <1>1, <1>7, <2>1
    <3>4. p # n + 3 * (n - l) + 2
      BY <1>1, <1>7, <2>1
    <3>5. p # 5 * n + 1
      BY <1>1, <1>7, <2>1
    <3> QED
      BY <1>6, <3>1, <3>2, <3>3, <3>4, <3>5 DEF l
  <2>3. CASE place.op = "sign_message"
    <3>1. p = n + 1 /\ l = n - 1
      BY <1>5, <1>6, <2>3 DEF l
    <3>2. y = n - 1
      BY <1>1, <1>7, <2>1, <3>1
    <3>3. place = Certs!At("sign_message", l)
      BY <1>5, <2>3 DEF l
    <3> QED
      BY <1>1, <3>1, <3>2, <3>3 DEF SignPlace
  <2>4. CASE place.op = "certify"
    <3>1. p = n + 3 * (n - l) + 1 /\ l # 0
      BY <1>5, <1>6, <2>4 DEF l
    <3>2. l = y + 1 /\ y # n - 1
      BY <1>1, <1>7, <2>1, <3>1
    <3>3. place = Certs!At("certify", l)
      BY <1>5, <2>4 DEF l
    <3> QED
      BY <1>1, <3>2, <3>3 DEF SignPlace, SignOp
  <2> QED
    BY <1>5, <2>2, <2>3, <2>4
<1>8. ASSUME NEW y \in Certs!Levels, NEW z \in Certs!Levels, Waits(y), Waits(z)
      PROVE  y = z
  <2>1. p = n + 3 * (n - 1 - y) + 1 /\ p = n + 3 * (n - 1 - z) + 1
    BY <1>4, <1>8
  <2> QED
    BY <1>1, <2>1
<1>9. ASSUME NEW y \in Certs!Levels, place.op \in {"keygen", "offline"}
      PROVE  ~Waits(y)
  <2>1. y \in Nat /\ y <= n - 1 /\ l \in Nat /\ l <= n - 1
    BY <1>1, <1>5 DEF l
  <2>2. p = l \/ p = n + 3 * (n - 1 - l)
    BY <1>6, <1>9 DEF l
  <2>3. p # n + 3 * (n - 1 - y) + 1
    BY <1>1, <2>1, <2>2
  <2> QED
    BY <1>4, <2>3
<1> QED
  BY <1>4, <1>7, <1>8, <1>9

(* The schemes without nonces to care for have only the keys.              *)
Distinct == \A x, y \in Certs!Levels : chain_keys[x] = chain_keys[y] /\ chain_keys[x] # 0 => x = y
GroupNonces ==
  /\ \A u \in spent : u[1] \in 1 .. made /\ u[2] \in 0 .. Certs!Group
  /\ \A level \in Certs!Levels : Certs!Passed("make", level) => chain_keys[level] # 0
  /\ \A level \in Certs!Levels : <<chain_keys[level], Certs!Group>> \in spent => Certs!Used(level)
SampleNonces ==
  /\ \A u \in spent : u[2] \in 0 .. sample.id
  /\ \A level \in Certs!Levels : Waits(level) =>
        sample.key = chain_keys[level] /\ <<sample.key, sample.id>> \notin spent

LEMMA NoncesAre ==
  /\ Certs!NoncesInv <=> /\ ~reused /\ Distinct
                         /\ Certs!Working /\ scheme = "oodilithium" => GroupNonces
                         /\ Certs!Working /\ scheme = "oofalcon" => SampleNonces
  /\ Certs!NoncesInv' <=> /\ ~reused' /\ Distinct'
                          /\ Certs!Working' /\ scheme' = "oodilithium" => GroupNonces'
                          /\ Certs!Working' /\ scheme' = "oofalcon" => SampleNonces'
BY DEF Certs!NoncesInv, Distinct, GroupNonces, SampleNonces, Waits

LEMMA KeyNonces ==
  ASSUME Certs!StateInv, Certs!CertChainAssumption, Certs!NoncesInv, Certs!Keygen \/ Certs!MakeKey
  PROVE  Certs!NoncesInv'
<1>0. PICK k : k = place.level
  OBVIOUS
<1>1. PICK op \in {"keygen", "make"} : Certs!Doing(op) /\ Certs!Go
  BY DEF Certs!Keygen, Certs!MakeKey
<1>2. /\ Certs!Working /\ place = Certs!At(op, k) /\ Certs!Place(op, k) /\ Keeps /\ GoesOn /\ place.op = op
      /\ k \in Certs!Levels /\ iter' = iter
  BY <1>0, <1>1, GoIs DEF Certs!Place, Certs!Doing
<1>3. /\ chain_keys' = [chain_keys EXCEPT ![k] = made + 1] /\ made' = made + 1
      /\ sample' = sample /\ spent' = spent /\ reused' = reused
  BY <1>0 DEF Certs!Keygen, Certs!MakeKey, Certs!NewKey, Certs!Level
<1>4. /\ made \in Nat /\ \A y \in Certs!Levels : chain_keys[y] \in 0 .. made
      /\ \A y \in Certs!Levels : chain_keys'[y] = IF y = k THEN made + 1 ELSE chain_keys[y]
      /\ Certs!Levels' = Certs!Levels /\ scheme' = scheme /\ stage' = stage
  BY <1>2, <1>3, TypesAre, LevelsStay DEF Keeps
<1>5. Distinct'
  <2>1. Distinct
    BY NoncesAre
  <2> QED
    BY <1>4, <2>1 DEF Distinct
<1>6. ~reused'
  BY <1>3, NoncesAre
<1>7. ASSUME scheme = "oodilithium" PROVE GroupNonces'
  <2>1. op = "make" /\ KeyOp = "make" /\ KeyOp' = "make"
    BY <1>2, <1>4, <1>7 DEF Certs!Place, Certs!Ops, Certs!SetupOps, KeyOp
  <2>2. GroupNonces /\ Certs!Group' = Certs!Group
    BY <1>2, <1>4, <1>7, NoncesAre DEF Certs!Group
  <2>3. stage = "setup"
    BY <1>2, <1>7, <2>1 DEF Certs!StateInv, Certs!PlaceInv, Certs!Working, Certs!SetupOps
  <2>4. \A u \in spent' : u[1] \in 1 .. made' /\ u[2] \in 0 .. Certs!Group'
    BY <1>3, <1>4, <2>2 DEF GroupNonces
  <2>5. \A y \in Certs!Levels : Certs!Passed("make", y)' => chain_keys'[y] # 0
    <3> SUFFICES ASSUME NEW y \in Certs!Levels, Certs!Passed("make", y)' PROVE chain_keys'[y] # 0
      OBVIOUS
    <3>1. Certs!Place("make", y)
      BY <1>7, DriversHave
    <3>2. Certs!Passed("make", y) \/ y = k
      BY <1>0, <3>1, <1>2 DEF GoesOn
    <3> QED
      BY <1>4, <2>2, <3>2 DEF GroupNonces
  <2>6. \A y \in Certs!Levels : <<chain_keys'[y], Certs!Group'>> \in spent' => Certs!Used(y)'
    <3> SUFFICES ASSUME NEW y \in Certs!Levels, <<chain_keys'[y], Certs!Group'>> \in spent'
                 PROVE  Certs!Used(y)'
      OBVIOUS
    <3>1. chain_keys'[y] \in 1 .. made
      BY <1>3, <2>2 DEF GroupNonces
    <3>2. chain_keys'[y] = chain_keys[y]
      BY <1>4, <3>1
    <3>3. Certs!Used(y)
      BY <1>3, <2>2, <3>2 DEF GroupNonces
    <3> QED
      BY <1>2, <3>3, UsedMoves
  <2> QED
    BY <1>4, <2>4, <2>5, <2>6 DEF GroupNonces
<1>8. ASSUME scheme = "oofalcon" PROVE SampleNonces'
  <2>1. SampleNonces
    BY <1>2, <1>8, NoncesAre
  <2>2. op = "keygen"
    BY <1>2, <1>8 DEF Certs!Place, Certs!Ops
  <2>3. \A y \in Certs!Levels : ~Waits(y)'
    <3> SUFFICES ASSUME NEW y \in Certs!Levels PROVE ~Waits(y)'
      OBVIOUS
    <3>1. ~Waits(y)
      BY <1>2, <1>8, <2>2, SampleIs
    <3>2. \A o, z : place = Certs!At(o, z) => o = "keygen"
      BY <1>2, <2>2 DEF Certs!At
    <3>3. Certs!Passed("offline", y)' <=> Certs!Passed("offline", y)
      BY <1>2, <1>8, <3>2, Moves
    <3>4. Certs!Signed(y)' <=> Certs!Signed(y)
      <4>1. place # SignPlace(y)
        BY <3>2 DEF SignPlace, SignOp
      <4> QED
        BY <1>2, <4>1, SignedMoves
    <3> QED
      BY <3>1, <3>3, <3>4 DEF Waits
  <2> QED
    BY <1>3, <1>4, <2>1, <2>3 DEF SampleNonces
<1> QED
  BY <1>4, <1>5, <1>6, <1>7, <1>8, NoncesAre

LEMMA OfflineNonces ==
  ASSUME Certs!StateInv, Certs!CertChainAssumption, Certs!NoncesInv, Certs!Offline
  PROVE  Certs!NoncesInv'
<1>0. PICK k : k = place.level
  OBVIOUS
<1>1. Certs!Doing("offline") /\ Certs!Go
  BY DEF Certs!Offline
<1>2. /\ Certs!Working /\ place = Certs!At("offline", k) /\ Keeps /\ GoesOn /\ place.op = "offline"
      /\ k \in Certs!Levels /\ iter' = iter
  BY <1>0, <1>1, GoIs DEF Certs!Place, Certs!Doing
<1>3. /\ UNCHANGED <<chain_keys, made, spent, reused>>
      /\ sample' = IF scheme = "oofalcon" THEN [key |-> chain_keys[k], id |-> sample.id + 1] ELSE sample
      /\ Certs!Levels' = Certs!Levels /\ scheme' = scheme /\ stage' = stage
  BY <1>0, <1>2, LevelsStay DEF Certs!Offline, Certs!Level, Keeps
<1>4. \A o, z : place = Certs!At(o, z) <=> o = "offline" /\ z = k
  BY <1>2 DEF Certs!At
<1>5. ~reused' /\ Distinct'
  BY <1>3, NoncesAre DEF Distinct
<1>6. ASSUME scheme = "oodilithium" PROVE GroupNonces'
  <2>1. GroupNonces /\ Certs!Group' = Certs!Group
    BY <1>2, <1>3, <1>6, NoncesAre DEF Certs!Group
  <2>2. \A y \in Certs!Levels : Certs!Passed("make", y)' => Certs!Passed("make", y)
    BY <1>2, <1>6, DriversHave DEF GoesOn
  <2>3. \A y \in Certs!Levels : Certs!Used(y) => Certs!Used(y)'
    BY <1>2, UsedMoves
  <2> QED
    BY <1>3, <2>1, <2>2, <2>3 DEF GroupNonces
<1>7. ASSUME scheme = "oofalcon" PROVE SampleNonces'
  <2>1. SampleNonces /\ sample.id \in Nat /\ sample'.key = chain_keys[k] /\ sample'.id = sample.id + 1
    BY <1>2, <1>3, <1>7, NoncesAre, TypesAre
  <2>2. \A y \in Certs!Levels : Waits(y)' => y = k
    <3> SUFFICES ASSUME NEW y \in Certs!Levels, Waits(y)' PROVE y = k
      OBVIOUS
    <3>1. ~Waits(y)
      BY <1>2, <1>7, SampleIs
    <3>2. Certs!Passed("offline", y)' <=> Certs!Passed("offline", y) \/ y = k
      BY <1>2, <1>4, <1>7, Moves
    <3>3. Certs!Signed(y) => Certs!Signed(y)'
      BY <1>2, SignedMoves
    <3> QED
      BY <3>1, <3>2, <3>3 DEF Waits
  <2>3. \A u \in spent : u[2] # sample.id + 1 /\ u[2] \in 0 .. sample.id + 1
    BY <2>1 DEF SampleNonces
  <2>4. <<chain_keys[k], sample.id + 1>> \notin spent
    BY <2>3
  <2> QED
    BY <1>3, <2>1, <2>2, <2>3, <2>4 DEF SampleNonces
<1> QED
  BY <1>3, <1>5, <1>6, <1>7, NoncesAre

LEMMA SignsNonces ==
  ASSUME Certs!StateInv, Certs!CertChainAssumption, Certs!NoncesInv, Certs!Working, Keeps, GoesOn, iter' = iter,
         UNCHANGED <<made, chain_keys, sample>>, NEW y \in Certs!Levels,
         reused' = (reused \/ Certs!Nonces(chain_keys[y]) \cap spent # {}),
         spent' = spent \cup Certs!Nonces(chain_keys[y]),
         scheme = "oodilithium" => Certs!Passed("make", y) /\ UseAt(y),
         scheme = "oofalcon" => place = SignPlace(y),
         place.op \notin {"offline", "make"}
  PROVE  Certs!NoncesInv'
<1>1. /\ Certs!Levels' = Certs!Levels /\ scheme' = scheme /\ stage' = stage
      /\ made \in Nat /\ chain_keys[y] \in 0 .. made
  BY LevelsStay, TypesAre DEF Keeps
<1>2. ~reused /\ Distinct /\ Distinct'
  BY <1>1, NoncesAre DEF Distinct
<1>3. \A o, z : place = Certs!At(o, z) => o = place.op
  BY DEF Certs!At
<1>4. CASE scheme \notin {"oofalcon", "oodilithium"}
  <2>1. Certs!Nonces(chain_keys[y]) = {}
    BY <1>4 DEF Certs!Nonces
  <2> QED
    BY <1>1, <1>2, <1>4, <2>1, NoncesAre
<1>5. CASE scheme = "oodilithium"
  <2>1. /\ Certs!Nonces(chain_keys[y]) = {<<chain_keys[y], Certs!Group>>} /\ Certs!Group' = Certs!Group
        /\ Certs!Group \in Nat
    BY <1>1, <1>5, TypesAre DEF Certs!Nonces, Certs!Group
  <2>2. GroupNonces
    BY <1>5, NoncesAre
  <2>3. chain_keys[y] \in 1 .. made
    BY <1>1, <1>5, <2>2 DEF GroupNonces
  <2>4. ~Certs!Used(y) /\ Certs!Used(y)' /\ \A z \in Certs!Levels : Certs!Used(z) => Certs!Used(z)'
    BY <1>5, UsedMoves
  <2>5. <<chain_keys[y], Certs!Group>> \notin spent
    BY <2>2, <2>4 DEF GroupNonces
  <2>6. ~reused'
    BY <1>2, <2>1, <2>5
  <2>7. \A u \in spent' : u[1] \in 1 .. made' /\ u[2] \in 0 .. Certs!Group'
    BY <2>1, <2>2, <2>3 DEF GroupNonces
  <2>8. \A z \in Certs!Levels : Certs!Passed("make", z)' => Certs!Passed("make", z)
    BY <1>5, DriversHave DEF GoesOn
  <2>9. ASSUME NEW z \in Certs!Levels, <<chain_keys'[z], Certs!Group'>> \in spent'
        PROVE  Certs!Used(z)'
    <3>1. CASE <<chain_keys[z], Certs!Group>> \in spent
      BY <2>2, <2>4, <3>1 DEF GroupNonces
    <3>2. CASE <<chain_keys[z], Certs!Group>> \notin spent
      <4>1. chain_keys[z] = chain_keys[y]
        BY <2>1, <2>9, <3>2
      <4>2. z = y
        BY <1>2, <2>3, <4>1 DEF Distinct
      <4> QED
        BY <2>4, <4>2
    <3> QED
      BY <3>1, <3>2
  <2>10. GroupNonces'
    BY <1>1, <2>2, <2>7, <2>8, <2>9 DEF GroupNonces
  <2> QED
    BY <1>1, <1>2, <1>5, <2>6, <2>10, NoncesAre
<1>6. CASE scheme = "oofalcon"
  <2>1. Certs!Nonces(chain_keys[y]) = {<<sample.key, sample.id>>}
    BY <1>6 DEF Certs!Nonces
  <2>2. SampleNonces /\ sample.id \in Nat
    BY <1>6, NoncesAre, TypesAre
  <2>3. Waits(y)
    BY <1>6, SampleIs
  <2>4. ~reused'
    BY <1>2, <2>1, <2>2, <2>3 DEF SampleNonces
  <2>5. ASSUME NEW z \in Certs!Levels PROVE ~Waits(z)'
    <3>1. Certs!Passed("offline", z)' <=> Certs!Passed("offline", z)
      BY <1>3, <1>6, Moves
    <3>2. Certs!Signed(z)' <=> Certs!Signed(z) \/ place = SignPlace(z)
      BY SignedMoves
    <3>3. Waits(z) => place = SignPlace(z)
      BY <1>6, SampleIs
    <3> QED
      BY <3>1, <3>2, <3>3 DEF Waits
  <2>6. SampleNonces'
    BY <1>1, <2>1, <2>2, <2>5 DEF SampleNonces
  <2> QED
    BY <1>1, <1>2, <1>6, <2>4, <2>6, NoncesAre
<1> QED
  BY <1>4, <1>5, <1>6

LEMMA SigningNonces ==
  ASSUME Certs!StateInv, Certs!CertChainAssumption, Certs!NoncesInv,
         Certs!Certify \/ Certs!Resign \/ Certs!SignMessage
  PROVE  Certs!NoncesInv'
<1>0. PICK k : k = place.level
  OBVIOUS
<1>1. PICK op \in {"certify", "resign", "sign_message"} : Certs!Doing(op) /\ Certs!Go
                    /\ \E over, new : Certs!Signs(IF op = "sign_message" THEN k ELSE k - 1, over, new)
  BY <1>0 DEF Certs!Certify, Certs!Resign, Certs!SignMessage, Certs!Level, Certs!Signs
<1>2. /\ Certs!Working /\ place = Certs!At(op, k) /\ Certs!Place(op, k) /\ Keeps /\ GoesOn /\ place.op = op
      /\ k \in Certs!Levels /\ iter' = iter
  BY <1>0, <1>1, GoIs DEF Certs!Place, Certs!Doing
<1>3. PICK y : y = IF op = "sign_message" THEN k ELSE k - 1
  OBVIOUS
<1>4. /\ UNCHANGED <<made, chain_keys, sample>>
      /\ reused' = (reused \/ Certs!Nonces(chain_keys[y]) \cap spent # {})
      /\ spent' = spent \cup Certs!Nonces(chain_keys[y])
  BY <1>1, <1>3 DEF Certs!Signs
<1>5. /\ y \in Certs!Levels
      /\ op # "sign_message" => y < Certs!Client /\ y # Certs!Client /\ k = y + 1 /\ k \in 1 .. Certs!Client
      /\ op = "sign_message" => y = Certs!Client /\ k = y
  <2>1. Certs!Client \in Nat /\ k \in Nat
    BY <1>2, LevelsAre
  <2>2. op # "sign_message" => k \in 1 .. Certs!Client /\ k - 1 \in Certs!Levels /\ k - 1 < Certs!Client
    BY <1>2, SignerIs
  <2>3. op = "sign_message" => k = Certs!Client
    BY <1>2, SignerIs
  <2> QED
    BY <1>2, <1>3, <2>1, <2>2, <2>3
<1>6. scheme = "oodilithium" => Certs!Passed("make", y) /\ UseAt(y)
  <2> SUFFICES ASSUME scheme = "oodilithium" PROVE Certs!Passed("make", y) /\ UseAt(y)
    OBVIOUS
  <2>1. CASE op = "sign_message"
    <3>1. stage # "setup" /\ place = SignPlace(y)
      BY <1>2, <1>5, <2>1 DEF SignPlace, Certs!StateInv, Certs!PlaceInv, Certs!SetupOps
    <3>2. Certs!Passed("make", y)
      BY <1>2, <1>5, <2>1, InOrder DEF KeyOp
    <3> QED
      BY <3>1, <3>2 DEF UseAt
  <2>2. CASE op = "certify"
    <3>1. stage = "setup" /\ place = Certs!At("certify", y + 1)
      BY <1>2, <1>5, <2>2 DEF Certs!StateInv, Certs!PlaceInv, Certs!Working, Certs!SetupOps
    <3>2. Certs!Passed("make", k - 1) /\ k - 1 = y
      BY <1>2, <1>3, <1>5, <2>2, InOrder DEF KeyOp
    <3> QED
      BY <1>5, <2>2, <3>1, <3>2 DEF UseAt
  <2>3. CASE op = "resign"
    <3>1. stage # "setup" /\ place = SignPlace(y)
      BY <1>2, <1>5, <2>3 DEF SignPlace, SignOp, Certs!StateInv, Certs!PlaceInv, Certs!SetupOps
    <3>2. Certs!Passed("make", y)
      <4>1. chain_length \in Nat /\ k \in Nat /\ 1 <= k /\ y \in Nat /\ y < chain_length
        <5>1. Certs!Client + 1 = chain_length /\ Certs!Client \in Nat /\ chain_length \in Nat
              /\ Certs!Levels = 0 .. chain_length - 1
          BY LevelsAre
        <5> QED
          BY <1>5, <2>3, <5>1
      <4>2. Certs!Rank("make", y) = 3 * y /\ Certs!Rank(place.op, place.level) = 3 * chain_length + k
        BY <1>0, <1>2, <2>3 DEF Certs!Rank
      <4>3. 3 * y < 3 * chain_length + k
        BY <4>1
      <4> QED
        BY <4>2, <4>3 DEF Certs!Passed
    <3> QED
      BY <3>1, <3>2 DEF UseAt
  <2> QED
    BY <2>1, <2>2, <2>3
<1>7. scheme = "oofalcon" => place = SignPlace(y)
  <2>1. scheme = "oofalcon" => op # "resign"
    BY <1>2 DEF Certs!Place, Certs!Ops
  <2> QED
    BY <1>2, <1>5, <2>1 DEF SignPlace, SignOp
<1> QED
  BY <1>2, <1>4, <1>5, <1>6, <1>7, SignsNonces

(* What neither makes a key nor signs.                                     *)
LEMMA QuietNonces ==
  ASSUME Certs!StateInv, Certs!CertChainAssumption, Certs!NoncesInv, Certs!Working, Keeps, GoesOn,
         stage = "run" => iter' = iter,
         UNCHANGED <<made, chain_keys, sample, spent, reused>>,
         place.op \notin {"offline", "make", "certify", "resign", "sign_message"}
  PROVE  Certs!NoncesInv'
<1>1. /\ Certs!Levels' = Certs!Levels /\ scheme' = scheme /\ stage' = stage
  BY LevelsStay DEF Keeps
<1>2. ~reused' /\ Distinct'
  BY <1>1, NoncesAre DEF Distinct
<1>3. \A o, z : place = Certs!At(o, z) => o = place.op
  BY DEF Certs!At
<1>4. ASSUME scheme = "oodilithium" PROVE GroupNonces'
  <2>1. GroupNonces /\ Certs!Group' = Certs!Group
    BY <1>1, <1>4, NoncesAre DEF Certs!Group, Certs!Working
  <2>2. \A z \in Certs!Levels : Certs!Passed("make", z)' => Certs!Passed("make", z)
    BY <1>4, DriversHave DEF GoesOn
  <2>3. \A z \in Certs!Levels : Certs!Used(z) => Certs!Used(z)'
    BY UsedMoves
  <2> QED
    BY <1>1, <2>1, <2>2, <2>3 DEF GroupNonces
<1>5. ASSUME scheme = "oofalcon" PROVE SampleNonces'
  <2>1. SampleNonces
    BY <1>5, NoncesAre
  <2>2. ASSUME NEW z \in Certs!Levels PROVE Waits(z)' => Waits(z)
    <3>1. Certs!Passed("offline", z)' <=> Certs!Passed("offline", z)
      BY <1>3, <1>5, Moves
    <3>2. Certs!Signed(z) => Certs!Signed(z)'
      BY SignedMoves
    <3> QED
      BY <3>1, <3>2 DEF Waits
  <2> QED
    BY <1>1, <2>1, <2>2 DEF SampleNonces
<1> QED
  BY <1>1, <1>2, <1>4, <1>5, NoncesAre

LEMMA AgainNonces ==
  ASSUME Certs!StateInv, Certs!CertChainAssumption, Certs!NoncesInv, Certs!Again
  PROVE  Certs!NoncesInv'
<1>1. /\ Certs!Working /\ place.op = "end" /\ stage' \in {"run", "done"}
      /\ UNCHANGED <<scheme, chain_length, made, chain_keys, sample, spent, reused>>
      /\ Certs!Levels' = Certs!Levels
      /\ iter' = IF stage = "run" THEN iter + 1 ELSE 0
  BY DEF Certs!Again, Certs!Doing, Certs!Working, Certs!Levels, Certs!Client
<1>2. ~reused' /\ Distinct'
  BY <1>1, NoncesAre DEF Distinct
<1>3. CASE stage' = "done"
  BY <1>2, <1>3, NoncesAre DEF Certs!Working
<1>4. CASE stage' = "run"
  <2>1. ASSUME scheme = "oodilithium" PROVE GroupNonces'
    <3>1. GroupNonces /\ Certs!Group \in Nat /\ Certs!Group' = Certs!Group + 1
      BY <1>1, <1>4, <2>1, NoncesAre, TypesAre DEF Certs!Group, Certs!Working
    <3>2. \A u \in spent : u[2] \in 0 .. Certs!Group' /\ u[2] # Certs!Group'
      BY <3>1 DEF GroupNonces
    <3>3. \A z \in Certs!Levels : chain_keys[z] # 0
      BY <1>1, <2>1, <3>1, AtEnd DEF GroupNonces
    <3>4. \A z \in Certs!Levels : <<chain_keys'[z], Certs!Group'>> \notin spent'
      <4>1. ASSUME NEW z \in Certs!Levels, <<chain_keys'[z], Certs!Group'>> \in spent' PROVE FALSE
        <5>1. <<chain_keys'[z], Certs!Group'>>[2] # Certs!Group'
          BY <1>1, <3>2, <4>1
        <5> QED
          BY <5>1
      <4> QED
        BY <4>1
    <3> QED
      BY <1>1, <3>1, <3>2, <3>3, <3>4 DEF GroupNonces
  <2>2. ASSUME scheme = "oofalcon" PROVE SampleNonces'
    <3>1. SampleNonces
      BY <1>1, <2>2, NoncesAre
    <3>2. \A z \in Certs!Levels : ~Waits(z)'
      BY <2>2, AtFirst DEF Waits
    <3> QED
      BY <1>1, <3>1, <3>2 DEF SampleNonces
  <2> QED
    BY <1>1, <1>2, <2>1, <2>2, NoncesAre
<1> QED
  BY <1>1, <1>3, <1>4

LEMMA NoncesStep ==
  ASSUME Certs!StateInv, Certs!CertChainAssumption, Certs!TimesInv, Certs!NoncesInv, Certs!Next
  PROVE  Certs!NoncesInv'
<1>1. CASE Certs!VerifyMessage \/ Certs!VerifyCert
  <2>1. PICK op \in {"verify_message", "verify_cert"} : Certs!Doing(op) /\ Certs!Go /\ place.op = op
    BY <1>1 DEF Certs!VerifyMessage, Certs!VerifyCert, Certs!Verify, Certs!Doing
  <2>2. Certs!Working /\ Keeps /\ GoesOn /\ iter' = iter
    BY <2>1, GoIs
  <2>3. UNCHANGED <<made, chain_keys, sample, spent, reused>>
    BY <1>1 DEF Certs!VerifyMessage, Certs!VerifyCert, Certs!Verify
  <2> QED
    BY <2>1, <2>2, <2>3, QuietNonces
<1>2. CASE Certs!ThrowAwayKey
  <2>1. Certs!Working /\ place.op = "throw_away" /\ Keeps /\ GoesOn
    BY <1>2, ThrowAwayState DEF Certs!ThrowAwayKey, Certs!Doing, Certs!Working
  <2>2. stage = "run" => iter' = iter
    <3>1. stage # "run"
      BY <2>1, LevelsAre
      DEF Certs!StateInv, Certs!PlaceInv, Certs!Working, Certs!Place, Certs!Ops, Certs!SetupOps, SchemeNames
    <3> QED
      BY <3>1
  <2> QED
    BY <1>2, <2>1, <2>2, QuietNonces DEF Certs!ThrowAwayKey
<1>3. CASE Certs!Allocate \/ Certs!Return
  <2>1. UNCHANGED <<scheme, chain_length, chain_keys, reused>> /\ Certs!Levels' = Certs!Levels
    BY <1>3 DEF Certs!Allocate, Certs!Return, Certs!Levels, Certs!Client
  <2>2. ~reused' /\ Distinct'
    BY <2>1, NoncesAre DEF Distinct
  <2>3. Certs!Working' => scheme \notin {"oofalcon", "oodilithium"}
    <3>1. CASE Certs!Return
      BY <3>1 DEF Certs!Return, Certs!Working
    <3>2. CASE Certs!Allocate
      BY <3>2, LevelsAre
      DEF Certs!Allocate, Certs!Doing, Certs!StateInv, Certs!PlaceInv, Certs!Working, Certs!Place, Certs!Ops, Certs!SetupOps
    <3> QED
      BY <1>3, <3>1, <3>2
  <2> QED
    BY <2>1, <2>2, <2>3, NoncesAre
<1> QED
  BY <1>1, <1>2, <1>3, KeyNonces, OfflineNonces, SigningNonces, AgainNonces DEF Certs!Next
-----------------------------------------------------------------------------
(* From the start on, in every step.                                       *)
LEMMA InitState == ASSUME Certs!Init, Certs!CertChainAssumption PROVE Certs!StateInv
<1>1. /\ scheme \in Certs!Names /\ chain_length \in Nat \ {0} /\ iterations \in Nat \ {0}
      /\ scheme \in Schemes /\ chain_length \in 1 .. MaxLength /\ iterations \in 1 .. MaxIterations
      /\ stage = IF scheme = "oodilithium" THEN "setup" ELSE "run"
      /\ place = IF scheme = "oodilithium" THEN Certs!At("throw_away", 0) ELSE Certs!At("keygen", 0)
      /\ iter = 0 /\ made = 0
  BY DEF Certs!Init, Certs!CertChainAssumption
<1>2. Certs!Client \in Nat /\ 0 \in Certs!Levels
  BY <1>1 DEF Certs!Client, Certs!Levels
<1>3. Certs!None \in [by : 0 .. made, over : 0 .. made]
  BY <1>1 DEF Certs!None
<1>4. Certs!TypeOK
  <2>1. chain_keys \in [Certs!Levels -> 0 .. made] /\ certs \in [Certs!Levels -> [by : 0 .. made, over : 0 .. made]]
    BY <1>1, <1>3 DEF Certs!Init
  <2>2. times \in [Certs!Kinds -> [Certs!Levels -> 0 .. iterations]]
    BY <1>1 DEF Certs!Init
  <2>3. stage \in {"setup", "run", "done", "returned"} /\ iter \in 0 .. iterations /\ complaints \subseteq Certs!Levels
    BY <1>1 DEF Certs!Init
  <2> QED
    BY <1>1, <2>1, <2>2, <2>3 DEF Certs!TypeOK
<1>5. Certs!PlaceInv
  <2>1. CASE scheme = "oodilithium"
    <3>1. place = Certs!At("throw_away", 0) /\ place.op = "throw_away" /\ place.level = 0 /\ stage = "setup" /\ iter < iterations
      BY <1>1, <2>1 DEF Certs!At
    <3>2. Certs!Place("throw_away", 0)
      BY <1>2, <2>1 DEF Certs!Place, Certs!Ops, Certs!SetupOps
    <3> QED
      BY <3>1, <3>2 DEF Certs!PlaceInv, Certs!SetupOps
  <2>2. CASE scheme # "oodilithium"
    <3>1. place = Certs!At("keygen", 0) /\ place.op = "keygen" /\ place.level = 0 /\ stage = "run"
      BY <1>1, <2>2 DEF Certs!At
    <3>2. Certs!Place("keygen", 0)
      BY <1>2, <2>2 DEF Certs!Place, Certs!Ops
    <3> QED
      BY <2>2, <3>1, <3>2 DEF Certs!PlaceInv
  <2> QED
    BY <2>1, <2>2
<1>6. /\ msg_sig \in [by : 0 .. made, over : 0 .. made] /\ sample \in [key : 0 .. made, id : Nat]
      /\ any_failed \in BOOLEAN /\ reused \in BOOLEAN /\ made \in Nat
  <2>1. msg_sig = Certs!None /\ sample = [key |-> 0, id |-> 0] /\ any_failed = FALSE /\ reused = FALSE
    BY DEF Certs!Init
  <2>2. any_failed \in BOOLEAN /\ reused \in BOOLEAN
    BY <2>1
  <2>3. sample \in [key : 0 .. made, id : Nat]
    <3>1. 0 \in 0 .. made /\ 0 \in Nat
      BY <1>1
    <3> QED
      BY <2>1, <3>1
  <2>4. made \in Nat /\ msg_sig \in [by : 0 .. made, over : 0 .. made]
    BY <1>1, <1>3, <2>1
  <2> QED
    BY <2>2, <2>3, <2>4
<1> QED
  BY <1>1, <1>4, <1>5, <1>6 DEF Certs!StateInv

LEMMA AtInit ==
  ASSUME Certs!Init, Certs!CertChainAssumption
  PROVE  /\ \A y \in Certs!Levels :
              /\ scheme # "oodilithium" => ~Certs!Passed("keygen", y)
              /\ scheme = "oodilithium" => ~Certs!Passed("make", y)
              /\ scheme \in {"oofalcon", "ooed25519", "oodilithium"} => ~Certs!Passed("offline", y)
              /\ ~Certs!Signed(y) /\ ~Certs!Checked(y)
         /\ \A x \in 1 .. Certs!Client : ~Certs!Passed("certify", x) /\ ~Certs!Passed("verify_cert", x)
         /\ ~Certs!Passed("sign_message", Certs!Client) /\ ~Certs!Passed("verify_message", Certs!Client)
<1> DEFINE n == chain_length  p == Certs!Rank(place.op, place.level)
<1>1. Certs!StateInv
  BY InitState
<1>2. n \in Nat \ {0} /\ Certs!Client = n - 1 /\ Certs!Levels = 0 .. n - 1
  BY <1>1, LevelsAre
<1>3. p \in Int /\ p <= 0
  <2>1. CASE scheme = "oodilithium"
    <3>1. place.op = "throw_away" /\ place.level = 0
      BY <2>1 DEF Certs!Init, Certs!At
    <3>2. p = 0 - n
      BY <3>1 DEF Certs!Rank
    <3> HIDE DEF p
    <3> QED
      BY <1>2, <3>2
  <2>2. CASE scheme # "oodilithium"
    <3>1. place.op = "keygen" /\ place.level = 0
      BY <2>2 DEF Certs!Init, Certs!At
    <3>2. p = 0
      BY <3>1 DEF Certs!Rank
    <3> HIDE DEF p
    <3> QED
      BY <3>2
  <2> QED
    BY <2>1, <2>2
<1>4. \A op, y : Certs!Passed(op, y) <=> Certs!Rank(op, y) < p
  BY DEF Certs!Passed
<1> HIDE DEF p
<1>5. \A m, r : m \in Int /\ r \in 0 .. m => ~(r < p)
  BY <1>3
<1>6. 5 * n \in Int /\ 3 * n - 1 \in Int
  BY <1>2
<1>7. ASSUME NEW y \in Certs!Levels
      PROVE  /\ scheme # "oodilithium" => ~Certs!Passed("keygen", y)
             /\ scheme = "oodilithium" => ~Certs!Passed("make", y)
             /\ scheme \in {"oofalcon", "ooed25519", "oodilithium"} => ~Certs!Passed("offline", y)
  <2>1. scheme # "oodilithium" => Certs!Rank("keygen", y) \in 0 .. 5 * n
    BY <1>1, RankBounds
  <2>2. scheme = "oodilithium" => Certs!Rank("make", y) \in 0 .. 3 * n - 1 /\ Certs!Rank("offline", y) \in 0 .. 3 * n - 1
    BY <1>1, RankBounds
  <2>3. scheme \in {"oofalcon", "ooed25519"} => Certs!Rank("offline", y) \in 0 .. 5 * n
    BY <1>1, RankBounds
  <2> QED
    BY <1>4, <1>5, <1>6, <2>1, <2>2, <2>3
<1>8. ASSUME NEW x \in 1 .. Certs!Client
      PROVE  ~Certs!Passed("certify", x) /\ ~Certs!Passed("verify_cert", x) /\ ~Certs!Passed(SignOp, x)
  <2>1. Certs!Rank("certify", x) \in 0 .. 5 * n /\ Certs!Rank("verify_cert", x) \in 0 .. 5 * n
    BY <1>1, RankBounds
  <2>2. scheme = "oodilithium" => Certs!Rank("resign", x) \in 0 .. 5 * n
    <3>1. scheme = "oodilithium" => Certs!Rank("resign", x) \in 3 * n + 1 .. 5 * n
      BY <1>1, RankBounds
    <3> QED
      BY <1>2, <3>1
  <2> QED
    BY <1>4, <1>5, <1>6, <2>1, <2>2 DEF SignOp
<1>9. ~Certs!Passed("sign_message", Certs!Client) /\ ~Certs!Passed("verify_message", Certs!Client)
  <2>1. /\ Certs!Rank("sign_message", Certs!Client) \in 0 .. 5 * n
        /\ Certs!Rank("verify_message", Certs!Client) \in 0 .. 5 * n
    BY <1>1, RankBounds
  <2> QED
    BY <1>4, <1>5, <1>6, <2>1
<1>10. ASSUME NEW y \in Certs!Levels PROVE ~Certs!Signed(y) /\ ~Certs!Checked(y)
  <2>1. y # Certs!Client => y + 1 \in 1 .. Certs!Client
    BY <1>2
  <2> QED
    BY <1>8, <1>9, <2>1 DEF Certs!Signed, Certs!Checked, SignOp
<1> QED
  BY <1>7, <1>8, <1>9, <1>10

LEMMA InitTimes == ASSUME Certs!Init, Certs!CertChainAssumption PROVE Certs!TimesInv
<1>1. /\ stage = IF scheme = "oodilithium" THEN "setup" ELSE "run"
      /\ iter = 0 /\ Certs!Runs = 0 /\ place.level = 0
  BY DEF Certs!Init, Certs!Runs, Certs!At
<1>2. \A k \in Certs!Kinds, y \in Certs!Levels : times[k][y] = 0
  BY DEF Certs!Init
<1>3. Certs!TimesPerRun
  BY <1>1 DEF Certs!TimesPerRun
<1>4. ASSUME NEW y \in Certs!Levels
      PROVE  /\ times["keygen"][y] =
                  CASE scheme # "oodilithium" -> iter + Certs!One(Certs!Passed("keygen", y))
                    [] stage = "setup" -> iter + Certs!One(place.op = "throw_away" /\ y < place.level)
                    [] OTHER -> iterations
             /\ times["offline"][y] =
                  CASE scheme = "oodilithium" -> Certs!One(Certs!Passed("offline", y))
                    [] scheme \in {"oofalcon", "ooed25519"} -> iter + Certs!One(Certs!Passed("offline", y))
                    [] OTHER -> 0
             /\ times["online"][y] = Certs!Runs + Certs!One(Certs!Signed(y))
             /\ times["verify"][y] = Certs!Runs + Certs!One(Certs!Checked(y))
  <2>1. times["keygen"][y] = 0 /\ times["offline"][y] = 0 /\ times["online"][y] = 0 /\ times["verify"][y] = 0
    BY <1>2 DEF Certs!Kinds
  <2>2. ~(y < place.level)
    <3>1. y \in Nat
      BY InitState, LevelsAre
    <3> QED
      BY <1>1, <3>1
  <2>3. /\ scheme # "oodilithium" => ~Certs!Passed("keygen", y)
        /\ scheme \in {"oofalcon", "ooed25519", "oodilithium"} => ~Certs!Passed("offline", y)
        /\ ~Certs!Signed(y) /\ ~Certs!Checked(y)
    BY AtInit
  <2>4. CASE scheme = "oodilithium"
    BY <1>1, <2>1, <2>2, <2>3, <2>4 DEF Certs!One
  <2>5. CASE scheme # "oodilithium"
    BY <1>1, <2>1, <2>2, <2>3, <2>5 DEF Certs!One
  <2> QED
    BY <2>4, <2>5
<1> QED
  BY <1>3, <1>4 DEF Certs!TimesInv

LEMMA InitSignatures == ASSUME Certs!Init, Certs!CertChainAssumption PROVE Certs!SignaturesInv
<1>1. Certs!ComplaintMeansFailure
  BY DEF Certs!Init, Certs!ComplaintMeansFailure
<1> QED
  BY <1>1, AtInit DEF Certs!SignaturesInv

LEMMA InitNonces == ASSUME Certs!Init, Certs!CertChainAssumption PROVE Certs!NoncesInv
<1>1. ~reused /\ spent = {} /\ \A y \in Certs!Levels : chain_keys[y] = 0
  BY DEF Certs!Init
<1>2. Distinct
  BY <1>1 DEF Distinct
<1>3. scheme = "oodilithium" => GroupNonces
  BY <1>1, AtInit DEF GroupNonces
<1>4. scheme = "oofalcon" => SampleNonces
  BY <1>1, AtInit DEF SampleNonces, Waits
<1> QED
  BY <1>1, <1>2, <1>3, <1>4, NoncesAre

LEMMA ChainInit == ASSUME Certs!Init, Certs!CertChainAssumption PROVE Certs!ChainInv
BY InitState, InitTimes, InitSignatures, InitNonces DEF Certs!ChainInv

LEMMA ChainStep == ASSUME Certs!ChainInv, Certs!CertChainAssumption, Certs!Next PROVE Certs!ChainInv'
BY StateStep, TimesStep, SignaturesStep, NoncesStep DEF Certs!ChainInv

LEMMA ChainStutter == ASSUME Certs!ChainInv, UNCHANGED Certs!vars PROVE Certs!ChainInv'
<1>1. UNCHANGED <<scheme, chain_length, iterations, stage, iter, place, made, chain_keys, certs, msg_sig, sample,
                  times, complaints, any_failed, spent, reused>>
  BY DEF Certs!vars
<1>2. /\ Certs!Levels' = Certs!Levels /\ Certs!Client' = Certs!Client /\ Certs!Working' = Certs!Working
      /\ Certs!Runs' = Certs!Runs /\ Certs!Group' = Certs!Group /\ Certs!Kinds' = Certs!Kinds
  BY <1>1 DEF Certs!Levels, Certs!Client, Certs!Working, Certs!Runs, Certs!Group, Certs!Kinds
<1>3. \A op, y : Certs!Passed(op, y)' <=> Certs!Passed(op, y)
  BY <1>1 DEF Certs!Passed, Certs!Rank, Certs!Client
<1>4. \A y : /\ Certs!Signed(y)' <=> Certs!Signed(y)
             /\ Certs!Checked(y)' <=> Certs!Checked(y)
  BY <1>1, <1>2, <1>3 DEF Certs!Signed, Certs!Checked
<1>5. Certs!StateInv'
  BY <1>1, <1>2 DEF Certs!ChainInv, Certs!StateInv, Certs!TypeOK, Certs!PlaceInv, Certs!Place, Certs!Ops
<1>6. Certs!TimesInv'
  <2>1. Certs!TimesPerRun'
    BY <1>1, <1>2 DEF Certs!ChainInv, Certs!TimesInv, Certs!TimesPerRun
  <2>2. \A y : /\ Certs!One(Certs!Passed("keygen", y))' = Certs!One(Certs!Passed("keygen", y))
               /\ Certs!One(Certs!Passed("offline", y))' = Certs!One(Certs!Passed("offline", y))
               /\ Certs!One(Certs!Signed(y))' = Certs!One(Certs!Signed(y))
               /\ Certs!One(Certs!Checked(y))' = Certs!One(Certs!Checked(y))
               /\ Certs!One(place.op = "throw_away" /\ y < place.level)' =
                    Certs!One(place.op = "throw_away" /\ y < place.level)
    BY <1>1, <1>3, <1>4 DEF Certs!One
  <2> QED
    BY <1>1, <1>2, <2>1, <2>2 DEF Certs!ChainInv, Certs!TimesInv
<1>7. Certs!SignaturesInv'
  BY <1>1, <1>2, <1>3 DEF Certs!ChainInv, Certs!SignaturesInv, Certs!ComplaintMeansFailure, Certs!CertRight, Certs!MessageRight
<1>8. Certs!NoncesInv'
  BY <1>1, <1>2, <1>3, <1>4 DEF Certs!ChainInv, Certs!NoncesInv, Certs!Used
<1> QED
  BY <1>5, <1>6, <1>7, <1>8 DEF Certs!ChainInv

LEMMA ChainSays ==
  ASSUME Certs!ChainInv, Certs!CertChainAssumption
  PROVE  /\ Certs!TypeOK /\ Certs!SilenceMeansChain /\ Certs!ComplaintMeansFailure
         /\ Certs!TimesPerRun /\ Certs!NonceOnce
<1>1. Certs!SilenceMeansChain
  <2> SUFFICES ASSUME Certs!Finished, complaints = {}
               PROVE  /\ msg_sig = [by |-> chain_keys[Certs!Client], over |-> 0]
                      /\ \A level \in 1 .. Certs!Client :
                            certs[level] = [by |-> chain_keys[level - 1], over |-> chain_keys[level]]
    BY DEF Certs!SilenceMeansChain
  <2>1. stage = "run" /\ Certs!Working /\ place.op = "end"
    BY DEF Certs!Finished, Certs!Doing, Certs!Working
  <2>2. /\ \A x \in 1 .. Certs!Client : Certs!Passed("verify_cert", x)
        /\ Certs!Passed("verify_message", Certs!Client)
    BY <2>1, AtEnd DEF Certs!ChainInv
  <2> QED
    BY <2>1, <2>2 DEF Certs!ChainInv, Certs!SignaturesInv, Certs!CertRight, Certs!MessageRight
<1> QED
  BY <1>1 DEF Certs!ChainInv, Certs!StateInv, Certs!SignaturesInv, Certs!TimesInv, Certs!NoncesInv, Certs!NonceOnce

(* The drivers of the certificate chains keep their inductive invariant.   *)
THEOREM ChainInvariant == Certs!CertChainAssumption => (Certs!Spec => []Certs!ChainInv)
<1> SUFFICES ASSUME Certs!CertChainAssumption PROVE Certs!Spec => []Certs!ChainInv
  OBVIOUS
<1>1. Certs!Init => Certs!ChainInv
  BY ChainInit
<1>2. Certs!ChainInv /\ [Certs!Next]_Certs!vars => Certs!ChainInv'
  BY ChainStep, ChainStutter
<1> QED
  BY <1>1, <1>2, PTL DEF Certs!Spec

(* For chains and runs of any length: an iteration without a complaint      *)
(* leaves an unbroken chain of present keys, a complaint has a failed       *)
(* signature behind it, every level is timed once per iteration, and no     *)
(* u signs twice under a key.                                           *)
THEOREM ChainsSafe ==
  Certs!CertChainAssumption =>
    (Certs!Spec => [](/\ Certs!TypeOK /\ Certs!SilenceMeansChain /\ Certs!ComplaintMeansFailure
                      /\ Certs!TimesPerRun /\ Certs!NonceOnce))
<1> SUFFICES ASSUME Certs!CertChainAssumption
             PROVE  Certs!Spec => [](/\ Certs!TypeOK /\ Certs!SilenceMeansChain /\ Certs!ComplaintMeansFailure
                                     /\ Certs!TimesPerRun /\ Certs!NonceOnce)
  OBVIOUS
<1>1. Certs!ChainInv => /\ Certs!TypeOK /\ Certs!SilenceMeansChain /\ Certs!ComplaintMeansFailure
                        /\ Certs!TimesPerRun /\ Certs!NonceOnce
  BY ChainSays
<1>2. Certs!Spec => []Certs!ChainInv
  BY ChainInvariant
<1> QED
  BY <1>1, <1>2, PTL
=============================================================================
