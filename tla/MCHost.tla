------------------------------ MODULE MCHost ------------------------------
(***************************************************************************)
(* One run for the programs around the signature scheme: the key state and *)
(* the CPU generation, the GPU's kernels and its copy of Keccak, the       *)
(* interface of the library with its norm check and its streams of hashed  *)
(* and random bytes, batch verification and the certificate chains.        *)
(* They share no state, so each behaviour is one of one part; the          *)
(* variables x1, x2, ... are those of the part, in the order of its        *)
(* module, and FalconNorm keeps its own.  A part that is proved about is   *)
(* instanced by way of its proofs, so that its theorems hold here          *)
(* (HostProofs).                                                           *)
(***************************************************************************)
EXTENDS FalconNorm

CONSTANTS
  Nothing, SignerThreads, Tokens, Messages, Chunks,
  Logns, MaxChunks, MaxAttempts, MaxEvents,   \* bounds of FalconApi
  LogBlock,                                   \* of GpuKernels
  MaxSigns,                                   \* of KeyState
  MaxTokens, MaxThreads, MaxBatch,            \* of PresignCpu, VerifyBatch
  MaxLength, MaxIterations,                   \* of CertChain
  Coefficients, Over,                         \* of HashToPoint
  Rate, MaxMessage, MaxOutput, MaxCall,       \* of Sponge
  BlockCount, BlockWords, ValueWords, MaxCounter, MaxCopy    \* of Prng

VARIABLES part, x1, x2, x3, x4, x5, x6, x7, x8, x9,
          x10, x11, x12, x13, x14, x15, x16

Rest5  == <<x5, x6, x7, x8, x9, x10, x11, x12, x13, x14, x15, x16>>
Rest6  == <<x6, x7, x8, x9, x10, x11, x12, x13, x14, x15, x16>>
Rest8  == <<x8, x9, x10, x11, x12, x13, x14, x15, x16>>
Rest10 == <<x10, x11, x12, x13, x14, x15, x16>>
Rest11 == <<x11, x12, x13, x14, x15, x16>>
Rest12 == <<x12, x13, x14, x15, x16>>
Rest13 == <<x13, x14, x15, x16>>
Rest   == <<x1, x2, x3, x4, x5, x6, x7, x8, x9, Rest10>>

Unused13 == x13 = 0 /\ x14 = 0 /\ x15 = 0 /\ x16 = 0
Unused12 == x12 = 0 /\ Unused13
Unused11 == x11 = 0 /\ Unused12
Unused10 == x10 = 0 /\ Unused11
Unused8  == x8 = 0 /\ x9 = 0 /\ Unused10
Unused6  == x6 = 0 /\ x7 = 0 /\ Unused8
Unused5  == x5 = 0 /\ Unused6
Unused1  == x1 = 0 /\ x2 = 0 /\ x3 = 0 /\ x4 = 0 /\ Unused5

SmallSquares == {0, 1, 4, 8}
AllSchemes == {"falcon", "ed25519", "dilithium", "oofalcon", "ooed25519", "oodilithium"}

-----------------------------------------------------------------------------
(* The library, and the drivers of the certificate chains beside it:       *)
(* Api!Certs.                                                              *)
Api == INSTANCE FalconApiProofs WITH
  rng <- x1, hash_data <- x2, nonce <- x3, purpose <- x4, sk <- x5,
  pk <- x6, ek <- x7, sig <- x8, sig_len <- x9, call <- x10,
  ret <- x11, signed <- x12, keys <- x13, signs <- x14,
  attempts <- x15, spoils <- x16, None <- Nothing,
  scheme <- x1, chain_length <- x2, iterations <- x3, stage <- x4,
  iter <- x5, place <- x6, made <- x7, chain_keys <- x8, certs <- x9,
  msg_sig <- x10, sample <- x11, times <- x12, complaints <- x13,
  any_failed <- x14, spent <- x15, reused <- x16, Schemes <- AllSchemes

(* The generation, and the batch, the key state and the kernels beside it: *)
(* Work!Batch, Work!Key and Work!Kernels.                                  *)
Work == INSTANCE ThreadsProofs WITH
  openmp <- x1, tokens <- x2, threads <- x3, cpus <- x4, t <- x5,
  step <- x6, s1 <- x7, s2 <- x8, target <- x9, draws <- x10,
  batch_count <- x1, verify_threads <- x2, valid <- x3,
  tmp_verify <- x4, verified <- x5, share <- x6, joined <- x7,
  phase <- x8, failures <- x9, Unset <- Nothing,
  heap <- x1, shared <- x2, material <- x3, key_phase <- x4, code <- x5,
  local <- x6, pc <- x7, msg <- x8, token <- x9, signs <- x10,
  key_target <- x11, result <- x12, Threads <- SignerThreads, Null <- Nothing,
  kernel <- x1, logn <- x2, given <- x3, pass <- x4, loops <- x5, tt <- x6,
  sums <- x7, decoded <- x8, stored <- x9, readers <- x10, writers <- x11

(* The hash to a polynomial, and the sponge, the generator and the         *)
(* permutation beside it: Streams!Sponge, Streams!Prng and Streams!Perm.   *)
Streams == INSTANCE StreamsProofs WITH
  drawn <- x1, cells <- x2, p <- x3, u <- x4, v <- x5, N <- Coefficients, Rejected <- Nothing,
  permuted <- x1, filling <- x2, dptr <- x3, phase <- x4, len <- x5, fed <- x6, out <- x7,
  buf <- x1, ptr <- x2, cc <- x3, left <- x4, call <- x5, result <- x6, served <- x7,
  lanes <- x1, plain <- x2, rounds <- x3, half <- x4,
  Lanes <- BlockCount, Words <- BlockWords, Short <- ValueWords, MaxLen <- MaxCopy

(* What the parts assume of their constants holds in these instances.      *)
ASSUME PartsAssumption ==
  /\ Work!Kernels!BlockAssumption /\ Work!SizesAssumption
  /\ Work!Batch!VerifyBatchAssumption /\ Api!Certs!CertChainAssumption
  /\ Work!Key!KeyStateAssumption /\ Api!ApiAssumption
  /\ Streams!SizeAssumption /\ Streams!Prng!SizeAssumption
  /\ Streams!Sponge!RateAssumption /\ Streams!Sponge!BoundsAssumption

-----------------------------------------------------------------------------
NoNorm == place = "s1" /\ Init

MCInit ==
  \/ part = "norm" /\ Init /\ Unused1
  \/ /\ NoNorm
     /\ \/ part = "api" /\ Api!Init
        \/ part = "kernels" /\ Work!Kernels!MCInit /\ Unused12
        \/ part = "keccak" /\ Streams!Perm!MCInit /\ Unused5
        \/ part = "hash" /\ Streams!Init /\ Unused6
        \/ part = "sponge" /\ Streams!Sponge!Init /\ Unused8
        \/ part = "prng" /\ Streams!Prng!Init /\ Unused8
        \/ part = "key" /\ Work!Key!Init /\ Unused13
        \/ part = "presign" /\ Work!Init /\ Unused11
        \/ part = "batch" /\ Work!Batch!Init /\ Unused10
        \/ part = "certs" /\ Api!Certs!Init

NormStep == part = "norm" /\ Next /\ UNCHANGED <<part, Rest>>

OtherStep ==
  /\ UNCHANGED <<part, vars>>
  /\ \/ part = "api" /\ Api!Next
     \/ part = "kernels" /\ Work!Kernels!Next /\ UNCHANGED Rest12
     \/ part = "keccak" /\ Streams!Perm!Next /\ UNCHANGED Rest5
     \/ part = "hash" /\ Streams!Next /\ UNCHANGED Rest6
     \/ part = "sponge" /\ Streams!Sponge!Next /\ UNCHANGED Rest8
     \/ part = "prng" /\ Streams!Prng!Next /\ UNCHANGED Rest8
     \/ part = "key" /\ Work!Key!Next /\ UNCHANGED Rest13
     \/ part = "presign" /\ Work!Next /\ UNCHANGED Rest11
     \/ part = "batch" /\ Work!Batch!Next /\ UNCHANGED Rest10
     \/ part = "certs" /\ Api!Certs!Next

(* A call that fails before it changes anything is not gone on from.       *)
MCContinued == part = "api" => Api!Continued

MCNext == NormStep \/ OtherStep
MCSpec == MCInit /\ [][MCNext]_<<part, vars, Rest>>

-----------------------------------------------------------------------------
(* The GPU computes what the CPU would: whatever the order of the threads  *)
(* of a block, its tokens are consistent and its verdicts right (the       *)
(* kernels of soko_gpu_offline.cu).                                        *)
DeviceRight ==
  part = "kernels" => Work!Kernels!TokenConsistent /\ Work!Kernels!VerdictRight

(* The streams do not depend on the code path or on how they are cut:      *)
(* hashing in constant time overwrites no sample it still needs and gives  *)
(* the polynomial of the plain function (common.c); a sponge fed and       *)
(* emptied piece by piece absorbs and gives what it would at once, on the  *)
(* GPU too (shake.c); the CPU's permutation, with lanes inverted and       *)
(* moved, is the GPU's plain one; the generator serves no word twice, in   *)
(* words, and in both builds alike (rng.c).                                *)
StreamsRight ==
  /\ part = "hash" =>
       Streams!OnlyIntoFree /\ Streams!SamePolynomial /\ Streams!SamplesReduced
  /\ part = "sponge" =>
       /\ Streams!Sponge!AbsorbedAsOne /\ Streams!Sponge!SqueezedAsOne
       /\ Streams!Sponge!DeviceAgrees
  /\ part = "keccak" => Streams!Perm!LanesAgree /\ Streams!Perm!LanesInPlace
  /\ part = "prng" => Streams!Prng!NothingTwice /\ Streams!Prng!BuildsAgree

(* No way out of the key preparation or of a signer's initialisation loses *)
(* memory, threads sign only under a complete key, and each gets the       *)
(* signature of its own message and token (soko_falcon_common.c).          *)
KeyStateRight ==
  part = "key" => Work!Key!KeyStateRight

(* Work shared among threads is done once and completely: every token is   *)
(* generated from the samples beside it (soko_cpumt_backend.c), and a      *)
(* batch reported without failures was verified and accepted whole, even   *)
(* if threads had no workspace (bench_cert_falcon.c, batch verification),  *)
(* and no two threads of a block of the GPU touch a cell between barriers  *)
(* that one of them writes, nor store what is out of range                 *)
(* (soko_gpu_offline.cu).                                                  *)
BatchesRight ==
  /\ part = "presign" => Work!PresignRight
  /\ part = "batch" => Work!Batch!VerifyBatchRight
  /\ part = "kernels" => Work!Kernels!TypeOK /\ Work!Kernels!NoRace

(* The six drivers of certificate chains verify what they signed: silence  *)
(* means an unbroken chain under present keys, a complaint means a failed  *)
(* signature, nonces are not used again, and times are booked evenly.      *)
ChainsRight ==
  part = "certs" =>
    /\ Api!Certs!TypeOK /\ Api!Certs!SilenceMeansChain /\ Api!Certs!ComplaintMeansFailure
    /\ Api!Certs!TimesPerRun /\ Api!Certs!NonceOnce

(* Through any legal sequence of calls of falcon.c, verification accepts   *)
(* what was signed and nothing else, signers have the room they write to,  *)
(* and an encoding with a type is the only one.                            *)
ApiRight ==
  part = "api" => Api!ApiRight

(* No step takes back what is done: a generated token stays as it is while *)
(* other threads work, and a signer that fails leaves the length of the    *)
(* signature as the caller gave it, and the keys.                          *)
NothingTakenBack ==
  [][ /\ part = "presign" => Work!TargetsKept
      /\ part = "api" => Api!LengthLeft ]_<<part, vars, Rest>>
=============================================================================
