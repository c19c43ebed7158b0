----------------------------- MODULE HostProofs -----------------------------
(***************************************************************************)
(* The norm check is exact for every width of the accumulator, every bound *)
(* below its top bit and every number of coefficients (FalconNorm).  What  *)
(* is proved of the other parts holds of the run that joins them, whatever *)
(* the bounds it is given.                                                 *)
(***************************************************************************)
EXTENDS MCHost, TLAPS

(* What the accumulator can hold: the type invariant (FalconNorm).         *)
LEMMA NormTypes == Spec => []TypeOK
<1> USE HalfAssumption, SquaresAssumption, MaxTermsAssumption
<1>1. Init => TypeOK
  <2> SUFFICES ASSUME Init PROVE TypeOK
    OBVIOUS
  <2>1. sqn \in Words /\ terms \in 0 .. MaxTerms /\ norm \in Nat
    BY DEF Init, Words
  <2>2. ng \in BOOLEAN /\ place \in {"s1", "s2", "short", "long"}
    BY Zenon DEF Init
  <2> QED
    BY <2>1, <2>2, Zenon DEF TypeOK
<1>2. TypeOK /\ [Next]_vars => TypeOK'
  <2> SUFFICES ASSUME TypeOK, [Next]_vars PROVE TypeOK'
    OBVIOUS
  <2>1. CASE AddSquare
    <3> PICK z \in Squares : sqn' = (sqn + z) % (2 * Half) /\ norm' = norm + z
      BY <2>1 DEF AddSquare
    <3>1. sqn' \in Words
      BY DEF TypeOK, Words
    <3>2. norm' \in Nat
      BY DEF TypeOK
    <3>3. terms' \in 0 .. MaxTerms
      BY <2>1 DEF AddSquare, TypeOK
    <3>4. ng' \in BOOLEAN /\ place' \in {"s1", "s2", "short", "long"}
      BY <2>1, Zenon DEF AddSquare, TypeOK
    <3> QED
      BY <3>1, <3>2, <3>3, <3>4, Zenon DEF TypeOK
  <2>2. CASE HandOver
    <3>1. sqn' \in Words
      BY <2>2 DEF HandOver, TypeOK, Saturated, Words
    <3>2. TopBit(sqn') \in BOOLEAN
      BY <3>1 DEF TopBit
    <3>3. ng' \in BOOLEAN /\ place' \in {"s1", "s2", "short", "long"}
      BY <2>2, <3>2, Zenon DEF HandOver
    <3> QED
      BY <2>2, <3>1, <3>3, Zenon DEF HandOver, TypeOK
  <2>3. CASE Answer
    <3>1. sqn' \in Words
      BY <2>3 DEF Answer, TypeOK, Saturated, Words
    <3>2. place' \in {"s1", "s2", "short", "long"}
      BY <2>3, Zenon DEF Answer
    <3> QED
      BY <2>3, <3>1, <3>2, Zenon DEF Answer, TypeOK
  <2>4. CASE UNCHANGED vars
    BY <2>4 DEF vars, TypeOK
  <2> QED
    BY <2>1, <2>2, <2>3, <2>4 DEF Next
<1> QED
  BY <1>1, <1>2, PTL DEF Spec

(* One more square: it cannot take the sum from below the top bit past the *)
(* end of the word, which is why one bit is enough to remember.            *)
LEMMA AddStep ==
  ASSUME TypeOK, SumInv, AddSquare
  PROVE  SumInv'
<1> USE HalfAssumption, SquaresAssumption
<1> PICK z \in Squares :
      /\ sqn' = (sqn + z) % (2 * Half)
      /\ ng' = (ng \/ TopBit(sqn'))
      /\ norm' = norm + z
  BY DEF AddSquare
<1>1. place' = place /\ place \in {"s1", "s2"}
  BY DEF AddSquare
<1>2. CASE ng
  <2>1. norm \in Nat /\ norm >= Half /\ z \in Nat /\ Half \in Nat
    BY <1>2 DEF SumInv, TypeOK
  <2>2. norm' >= Half
    BY <2>1
  <2>3. ng' /\ place' \notin {"short", "long"}
    BY <1>1, <1>2
  <2> QED
    BY <2>2, <2>3 DEF SumInv
<1>3. CASE ~ng
  <2>1. sqn = norm /\ sqn < Half /\ sqn \in Nat /\ z \in Nat /\ z <= Half
    BY <1>1, <1>3 DEF SumInv, TypeOK
  <2>2. sqn + z < 2 * Half
    BY <2>1
  <2>3. sqn' = norm'
    BY <2>1, <2>2
  <2>4. norm' \in Nat /\ place' \notin {"short", "long"}
    BY <1>1, <2>1
  <2>5. CASE norm' < Half
    <3>0. ~TopBit(sqn')
      BY <2>3, <2>4, <2>5 DEF TopBit
    <3>1. ~ng'
      BY <1>3, <3>0, Zenon
    <3> QED
      BY <2>3, <2>4, <2>5, <3>1 DEF SumInv
  <2>6. CASE norm' >= Half
    <3>1. ng' = TRUE
      BY <1>3, <2>3, <2>6 DEF TopBit
    <3> QED
      BY <2>4, <2>6, <3>1 DEF SumInv
  <2> QED
    BY <2>4, <2>5, <2>6
<1> QED
  BY <1>2, <1>3

(* Signing and verification accept exactly the signatures within the bound *)
(* (is_short, is_short_half, do_sign_tree).                                *)
THEOREM NormCheckExact == Spec => []ShortExactly
<1> USE HalfAssumption, BoundAssumption
<1>1. Init => SumInv
  BY DEF Init, SumInv
<1>2. TypeOK /\ SumInv /\ [Next]_vars => SumInv'
  <2> SUFFICES ASSUME TypeOK, SumInv, [Next]_vars PROVE SumInv'
    OBVIOUS
  <2>1. CASE AddSquare
    BY <2>1, AddStep
  <2>2. CASE HandOver
    BY <2>2 DEF HandOver, SumInv, TypeOK, Saturated, TopBit
  <2>3. CASE Answer
    BY <2>3 DEF Answer, SumInv, TypeOK, Saturated
  <2>4. CASE UNCHANGED vars
    BY <2>4 DEF vars, SumInv
  <2> QED
    BY <2>1, <2>2, <2>3, <2>4 DEF Next
<1>3. SumInv => ShortExactly
  BY DEF SumInv, ShortExactly
<1> QED
  BY <1>1, <1>2, <1>3, NormTypes, PTL DEF Spec

-----------------------------------------------------------------------------
(* A behaviour of the run stays with its part: it is one of that part, and *)
(* what does not concern the part changes nothing for it.                  *)
AllVars == <<part, vars, Rest>>

LEMMA PartStays ==
  ASSUME [MCNext]_AllVars, NEW p PROVE (part = p)' <=> part = p
BY DEF MCNext, NormStep, OtherStep, AllVars

LEMMA VarsKept ==
  ASSUME UNCHANGED AllVars
  PROVE  /\ UNCHANGED <<Work!Key!vars, Work!vars, Work!Batch!vars, Api!vars, vars>>
         /\ UNCHANGED <<Streams!vars, Streams!Sponge!vars, Streams!Prng!vars, Streams!Perm!vars>>
         /\ UNCHANGED <<Work!Kernels!vars, Api!Certs!vars>>
BY DEF AllVars, Rest, Rest10, Work!Key!vars, Work!vars, Work!Batch!vars, Api!vars,
       Streams!vars, Streams!Sponge!vars, Streams!Prng!vars, Streams!Perm!vars,
       Work!Kernels!vars, Api!Certs!vars

LEMMA OwnStep ==
  ASSUME [MCNext]_AllVars
  PROVE  /\ part = "norm" => [Next]_vars
         /\ part = "key" => [Work!Key!Next]_(Work!Key!vars)
         /\ part = "presign" => [Work!Next]_(Work!vars)
         /\ part = "batch" => [Work!Batch!Next]_(Work!Batch!vars)
         /\ part = "api" => [Api!Next]_(Api!vars)
         /\ part = "hash" => [Streams!Next]_(Streams!vars)
         /\ part = "sponge" => [Streams!Sponge!Next]_(Streams!Sponge!vars)
         /\ part = "prng" => [Streams!Prng!Next]_(Streams!Prng!vars)
         /\ part = "keccak" => [Streams!Perm!Next]_(Streams!Perm!vars)
         /\ part = "kernels" => [Work!Kernels!Next]_(Work!Kernels!vars)
         /\ part = "certs" => [Api!Certs!Next]_(Api!Certs!vars)
<1>1. CASE UNCHANGED AllVars
  BY <1>1, VarsKept
<1>2. CASE NormStep
  BY <1>2 DEF NormStep
<1>3. CASE OtherStep
  BY <1>3 DEF OtherStep
<1> QED
  BY <1>1, <1>2, <1>3 DEF MCNext

LEMMA OwnInit ==
  ASSUME MCInit
  PROVE  /\ Init
         /\ part = "key" => Work!Key!Init
         /\ part = "presign" => Work!Init
         /\ part = "batch" => Work!Batch!Init
         /\ part = "api" => Api!Init
         /\ part = "hash" => Streams!Init
         /\ part = "sponge" => Streams!Sponge!Init
         /\ part = "prng" => Streams!Prng!Init
         /\ part = "keccak" => Streams!Perm!Init
         /\ part = "kernels" => Work!Kernels!Given /\ Work!Kernels!Init
         /\ part = "certs" => Api!Certs!Init
<1>1. Streams!Perm!MCInit => Streams!Perm!Init
  BY Streams!PatternsAre DEF Streams!Perm!MCInit, Streams!Perm!Init
<1>2. Work!Kernels!MCInit => Work!Kernels!Given /\ Work!Kernels!Init
  BY Work!StartsAre
<1> QED
  BY <1>1, <1>2 DEF MCInit, NoNorm

(* A fact about the behaviours of one part is one about those of the run.  *)
LEMMA OwnBehaviour ==
  /\ MCSpec /\ part = "key" => Work!Key!Spec
  /\ MCSpec /\ part = "presign" => Work!Spec
  /\ MCSpec /\ part = "batch" => Work!Batch!Spec
  /\ MCSpec /\ part = "api" => Api!Spec
  /\ MCSpec /\ part = "hash" => Streams!Spec
  /\ MCSpec /\ part = "sponge" => Streams!Sponge!Spec
  /\ MCSpec /\ part = "prng" => Streams!Prng!Spec
  /\ MCSpec /\ part = "keccak" => Streams!Perm!Spec
<1>1. MCInit /\ part = "key" => Work!Key!Init
  BY OwnInit
<1>2. MCInit /\ part = "presign" => Work!Init
  BY OwnInit
<1>3. MCInit /\ part = "batch" => Work!Batch!Init
  BY OwnInit
<1>4. MCInit /\ part = "api" => Api!Init
  BY OwnInit
<1>5. MCInit /\ part = "hash" => Streams!Init
  BY OwnInit
<1>6. MCInit /\ part = "sponge" => Streams!Sponge!Init
  BY OwnInit
<1>7. MCInit /\ part = "prng" => Streams!Prng!Init
  BY OwnInit
<1>8. part = "key" /\ [MCNext]_AllVars => (part = "key")' /\ [Work!Key!Next]_(Work!Key!vars)
  BY PartStays, OwnStep
<1>9. part = "presign" /\ [MCNext]_AllVars => (part = "presign")' /\ [Work!Next]_(Work!vars)
  BY PartStays, OwnStep
<1>10. part = "batch" /\ [MCNext]_AllVars => (part = "batch")' /\ [Work!Batch!Next]_(Work!Batch!vars)
  BY PartStays, OwnStep
<1>11. part = "api" /\ [MCNext]_AllVars => (part = "api")' /\ [Api!Next]_(Api!vars)
  BY PartStays, OwnStep
<1>12. part = "hash" /\ [MCNext]_AllVars => (part = "hash")' /\ [Streams!Next]_(Streams!vars)
  BY PartStays, OwnStep
<1>13. part = "sponge" /\ [MCNext]_AllVars
         => (part = "sponge")' /\ [Streams!Sponge!Next]_(Streams!Sponge!vars)
  BY PartStays, OwnStep
<1>14. part = "prng" /\ [MCNext]_AllVars
         => (part = "prng")' /\ [Streams!Prng!Next]_(Streams!Prng!vars)
  BY PartStays, OwnStep
<1>15. MCSpec => MCInit /\ [][MCNext]_AllVars
  BY DEF MCSpec, AllVars
<1>16. MCSpec /\ part = "key" => Work!Key!Spec
  BY <1>1, <1>8, <1>15, PTL DEF Work!Key!Spec
<1>17. MCSpec /\ part = "presign" => Work!Spec
  BY <1>2, <1>9, <1>15, PTL DEF Work!Spec
<1>18. MCSpec /\ part = "batch" => Work!Batch!Spec
  BY <1>3, <1>10, <1>15, PTL DEF Work!Batch!Spec
<1>19. MCSpec /\ part = "api" => Api!Spec
  BY <1>4, <1>11, <1>15, PTL DEF Api!Spec
<1>20. MCSpec /\ part = "hash" => Streams!Spec
  BY <1>5, <1>12, <1>15, PTL DEF Streams!Spec
<1>21. MCSpec /\ part = "sponge" => Streams!Sponge!Spec
  BY <1>6, <1>13, <1>15, PTL DEF Streams!Sponge!Spec
<1>22. MCSpec /\ part = "prng" => Streams!Prng!Spec
  BY <1>7, <1>14, <1>15, PTL DEF Streams!Prng!Spec
<1>23. MCInit /\ part = "keccak" => Streams!Perm!Init
  BY OwnInit
<1>24. part = "keccak" /\ [MCNext]_AllVars
         => (part = "keccak")' /\ [Streams!Perm!Next]_(Streams!Perm!vars)
  BY PartStays, OwnStep
<1>25. MCSpec /\ part = "keccak" => Streams!Perm!Spec
  BY <1>15, <1>23, <1>24, PTL DEF Streams!Perm!Spec
<1> QED
  BY <1>16, <1>17, <1>18, <1>19, <1>20, <1>21, <1>22, <1>25, PTL

LEMMA OtherParts ==
  /\ MCSpec /\ ~(part = "key") => []~(part = "key")
  /\ MCSpec /\ ~(part = "presign") => []~(part = "presign")
  /\ MCSpec /\ ~(part = "batch") => []~(part = "batch")
  /\ MCSpec /\ ~(part = "api") => []~(part = "api")
  /\ MCSpec /\ ~(part = "hash") => []~(part = "hash")
  /\ MCSpec /\ ~(part = "sponge") => []~(part = "sponge")
  /\ MCSpec /\ ~(part = "prng") => []~(part = "prng")
  /\ MCSpec /\ ~(part = "keccak") => []~(part = "keccak")
<1>1. [MCNext]_AllVars => /\ ~(part = "key") => ~(part = "key")'
                          /\ ~(part = "presign") => ~(part = "presign")'
                          /\ ~(part = "batch") => ~(part = "batch")'
                          /\ ~(part = "api") => ~(part = "api")'
                          /\ ~(part = "hash") => ~(part = "hash")'
                          /\ ~(part = "sponge") => ~(part = "sponge")'
                          /\ ~(part = "prng") => ~(part = "prng")'
                          /\ ~(part = "keccak") => ~(part = "keccak")'
  BY PartStays
<1>2. MCSpec => [][MCNext]_AllVars
  BY PTL DEF MCSpec, AllVars
<1> QED
  BY <1>1, <1>2, PTL

LEMMA OwnBlock ==
  /\ MCSpec /\ part = "kernels" => Work!Kernels!Spec
  /\ MCSpec /\ ~(part = "kernels") => []~(part = "kernels")
<1>1. MCInit /\ part = "kernels" => Work!Kernels!Given /\ Work!Kernels!Init
  BY OwnInit
<1>2. part = "kernels" /\ [MCNext]_AllVars
        => (part = "kernels")' /\ [Work!Kernels!Next]_(Work!Kernels!vars)
  BY PartStays, OwnStep
<1>3. ~(part = "kernels") /\ [MCNext]_AllVars => ~(part = "kernels")'
  BY PartStays
<1>4. MCSpec => MCInit /\ [][MCNext]_AllVars
  BY DEF MCSpec, AllVars
<1>5. MCSpec /\ part = "kernels" => Work!Kernels!Spec
  BY <1>1, <1>2, <1>4, PTL DEF Work!Kernels!Spec
<1> QED
  BY <1>3, <1>4, <1>5, PTL

LEMMA OwnChain ==
  /\ MCSpec /\ part = "certs" => Api!Certs!Spec
  /\ MCSpec /\ ~(part = "certs") => []~(part = "certs")
<1>1. MCInit /\ part = "certs" => Api!Certs!Init
  BY OwnInit
<1>2. part = "certs" /\ [MCNext]_AllVars => (part = "certs")' /\ [Api!Certs!Next]_(Api!Certs!vars)
  BY PartStays, OwnStep
<1>3. ~(part = "certs") /\ [MCNext]_AllVars => ~(part = "certs")'
  BY PartStays
<1>4. MCSpec => MCInit /\ [][MCNext]_AllVars
  BY DEF MCSpec, AllVars
<1>5. MCSpec /\ part = "certs" => Api!Certs!Spec
  BY <1>1, <1>2, <1>4, PTL DEF Api!Certs!Spec
<1> QED
  BY <1>3, <1>4, <1>5, PTL

(* Whatever the order in which the key is prepared, its preparation fails  *)
(* half way, signers come and go and threads sign: nothing allocated is    *)
(* lost and no pointer dangles, threads sign only under a complete key, a  *)
(* token survives its use, and a call returns the signature of its own     *)
(* message (soko_falcon_common.c).                                         *)
THEOREM KeyStateHolds == MCSpec => []KeyStateRight
<1>1. Work!Key!Spec => []Work!Key!KeyStateRight
  BY PartsAssumption, Work!KeyStateSafe
<1>2. Work!Key!KeyStateRight => KeyStateRight
  BY DEF KeyStateRight
<1>3. ~(part = "key") => KeyStateRight
  BY DEF KeyStateRight
<1> QED
  BY <1>1, <1>2, <1>3, OwnBehaviour, OtherParts, PTL

(* However many threads share the work: what a team generates is complete  *)
(* and consistent, what a team reports as verified was verified and        *)
(* accepted, and the threads of a block of the GPU race on no cell and     *)
(* store nothing out of range, for every degree and size of the block      *)
(* (soko_cpumt_backend.c, bench_cert_falcon.c, soko_gpu_offline.cu).       *)
THEOREM BatchesHold == MCSpec => []BatchesRight
<1> DEFINE TeamRight == Work!PresignRight
           BatchRight == Work!Batch!VerifyBatchRight
           BlockRight == Work!Kernels!TypeOK /\ Work!Kernels!NoRace
<1>1. Work!Spec => []TeamRight
  BY PartsAssumption, Work!AllTokensMade
<1>2. Work!Batch!Spec => []BatchRight
  BY PartsAssumption, Work!ReportTrue
<1>3. Work!Kernels!Spec => []BlockRight
  BY PartsAssumption, Work!BlocksSafe
<1>4. /\ part = "presign" => TeamRight
      /\ part = "batch" => BatchRight
      /\ part = "kernels" => BlockRight
      => BatchesRight
  BY DEF BatchesRight
<1> HIDE DEF TeamRight, BatchRight, BlockRight
<1>5. MCSpec => [](part = "presign" => TeamRight)
  BY <1>1, OwnBehaviour, OtherParts, PTL
<1>6. MCSpec => [](part = "batch" => BatchRight)
  BY <1>2, OwnBehaviour, OtherParts, PTL
<1>7. MCSpec => [](part = "kernels" => BlockRight)
  BY <1>3, OwnBlock, PTL
<1> QED
  BY <1>4, <1>5, <1>6, <1>7, PTL

(* Through any legal sequence of falcon.c's calls, with any changes on the *)
(* way to what was stored or sent, verification accepts what was signed    *)
(* and nothing else, a fresh signature is accepted, no two share a nonce,  *)
(* a signer has the room it writes to, and a type fixes the encoding.      *)
THEOREM ApiHolds == MCSpec => []ApiRight
<1>1. Api!Spec => []Api!ApiRight
  BY PartsAssumption, Api!CallsRight
<1>2. Api!ApiRight => ApiRight
  BY DEF ApiRight
<1>3. ~(part = "api") => ApiRight
  BY DEF ApiRight
<1> QED
  BY <1>1, <1>2, <1>3, OwnBehaviour, OtherParts, PTL

(* A chain that a driver reports without a complaint is unbroken under the *)
(* present keys, a complaint has a failed signature behind it, no nonce    *)
(* signs twice under a key and the printed times are of every iteration,   *)
(* for chains and runs of any length (bench_cert_*.c).                     *)
THEOREM ChainsHold == MCSpec => []ChainsRight
<1> DEFINE DriversRight ==
             /\ Api!Certs!TypeOK /\ Api!Certs!SilenceMeansChain /\ Api!Certs!ComplaintMeansFailure
             /\ Api!Certs!TimesPerRun /\ Api!Certs!NonceOnce
<1>1. Api!Certs!Spec => []DriversRight
  BY PartsAssumption, Api!ChainsSafe
<1>2. (part = "certs" => DriversRight) => ChainsRight
  BY DEF ChainsRight
<1> HIDE DEF DriversRight
<1>3. MCSpec => [](part = "certs" => DriversRight)
  BY <1>1, OwnChain, PTL
<1> QED
  BY <1>2, <1>3, PTL

(* Hashing to a polynomial, the sponge and the generator give the same     *)
(* whichever code path computes them and however their input and output    *)
(* are cut, the GPU permutes every lanes as the CPU does, and no random    *)
(* word is served twice, for every number of samples, every rate and every *)
(* size of the buffer (common.c, shake.c, soko_gpu_offline.cu, rng.c).     *)
THEOREM StreamsHold == MCSpec => []StreamsRight
<1> DEFINE HashRight == Streams!OnlyIntoFree /\ Streams!SamePolynomial /\ Streams!SamplesReduced
           SpongeRight == Streams!Sponge!AbsorbedAsOne /\ Streams!Sponge!SqueezedAsOne
                            /\ Streams!Sponge!DeviceAgrees
           PrngRight == Streams!Prng!NothingTwice /\ Streams!Prng!BuildsAgree
           PermRight == Streams!Perm!LanesAgree /\ Streams!Perm!LanesInPlace
<1>1. Streams!Spec => []HashRight
  BY PartsAssumption, Streams!HashesAgree
<1>2. Streams!Sponge!Spec => []SpongeRight
  BY PartsAssumption, Streams!CutsAgree
<1>3. Streams!Prng!Spec => []PrngRight
  BY PartsAssumption, Streams!DrawnOnce
<1>4. /\ part = "hash" => HashRight
      /\ part = "sponge" => SpongeRight
      /\ part = "prng" => PrngRight
      /\ part = "keccak" => PermRight
      => StreamsRight
  BY DEF StreamsRight
<1>8. Streams!Perm!Spec => []PermRight
  BY Streams!PermutationsAgree
<1> HIDE DEF HashRight, SpongeRight, PrngRight, PermRight
<1>5. MCSpec => [](part = "hash" => HashRight)
  BY <1>1, OwnBehaviour, OtherParts, PTL
<1>6. MCSpec => [](part = "sponge" => SpongeRight)
  BY <1>2, OwnBehaviour, OtherParts, PTL
<1>7. MCSpec => [](part = "prng" => PrngRight)
  BY <1>3, OwnBehaviour, OtherParts, PTL
<1>9. MCSpec => [](part = "keccak" => PermRight)
  BY <1>8, OwnBehaviour, OtherParts, PTL
<1> QED
  BY <1>4, <1>5, <1>6, <1>7, <1>9, PTL

(* A generated token stays as it is while other threads work, and a signer *)
(* that fails leaves the length of the signature as the caller gave it,    *)
(* and the keys (soko_cpumt_backend.c, falcon.c).                          *)
THEOREM NothingUndone == MCSpec => NothingTakenBack
<1> DEFINE Kept == /\ part = "presign" => Work!TargetsKept
                   /\ part = "api" => Api!LengthLeft
<1>1. Work!Spec => [][Work!TargetsKept]_(Work!vars)
  BY PartsAssumption, Work!TargetsStay
<1>2. Api!Spec => [][Api!LengthLeft]_(Api!vars)
  BY PartsAssumption, Api!LengthsLeft
<1>3. UNCHANGED Work!vars => Work!TargetsKept
  BY DEF Work!vars, Work!TargetsKept
<1>4. UNCHANGED Api!vars => Api!LengthLeft
  BY DEF Api!vars, Api!LengthLeft
<1>5. part = "presign" /\ [Work!TargetsKept]_(Work!vars) => Kept
  BY <1>3
<1>6. part = "api" /\ [Api!LengthLeft]_(Api!vars) => Kept
  BY <1>4
<1>7. ~(part = "presign") /\ ~(part = "api") => Kept
  OBVIOUS
<1>8. part = "presign" /\ [MCNext]_AllVars => (part = "presign")'
  BY PartStays
<1>9. part = "api" /\ [MCNext]_AllVars => (part = "api")'
  BY PartStays
<1>10. MCSpec => [][MCNext]_AllVars
  BY PTL DEF MCSpec, AllVars
<1> HIDE DEF Kept
<1>11. MCSpec => [][Kept]_AllVars
  BY <1>1, <1>2, <1>5, <1>6, <1>7, <1>8, <1>9, <1>10, OwnBehaviour, OtherParts, PTL
<1> QED
  BY <1>11, PTL DEF NothingTakenBack, AllVars, Kept
=============================================================================
