---------------------------- MODULE OnlineBench ----------------------------
(***************************************************************************)
(* The online stage of src/benchmarks/soko_token_benchmark.c: a bank of    *)
(* tokens is signed with, one message per token, by a team of OpenMP       *)
(* threads; the signatures are then verified by such a team or on the GPU; *)
(* successes and failures are counted.  A team of one thread is the        *)
(* sequential code (run_online_cpu, run_verify_batch_serial).              *)
(*                                                                         *)
(* A team's loop is divided statically: each thread takes a block of       *)
(* tokens in order, keeps counts of its own, waits at the barrier at the   *)
(* end of the loop, and then adds its counts to the shared ones, each in   *)
(* one atomic step.                                                        *)
(***************************************************************************)
EXTENDS Integers, FiniteSets

CONSTANTS
  Tokens,      \* tokens of the bank, one signature each
  MaxThreads   \* the largest team

ASSUME OnlineAssumption == Tokens \in Nat \ {0} /\ MaxThreads \in Nat \ {0}

TokenSet == 0 .. Tokens - 1
Backends == {"none", "cpu", "gpu_raw", "gpu_full"}   \* "none": --no-verify

VARIABLES
  threads, backend,          \* online_threads, verification mode
  pipelineMode,              \* --pipeline
  usesPipeline,              \* the refill pipeline was taken
  phase,
  at, todo, good, bad,       \* per thread: place, rest of its block, counts
  sigLen,                    \* sig_lens
  signSuccess, signFail,     \* sign_success, fail
  attempts,                  \* total_attempts_ok
  verifyOk, verifyFail,      \* verify_ok, verify_fail
  packed,                    \* run_verify_batch_gpu_raw: tokens prepared
  ok, fail,                  \* *ok_count, *fail_count
  signed, accepted           \* history: tokens signed, signatures accepted

caseVars   == <<threads, backend, pipelineMode>>
teamVars   == <<at, todo, good, bad>>
signVars   == <<signSuccess, signFail, attempts>>
verifyVars == <<verifyOk, verifyFail, packed>>
vars == <<caseVars, usesPipeline, phase, teamVars, sigLen, signVars, verifyVars,
          ok, fail, signed, accepted>>

Team == 1 .. threads

-----------------------------------------------------------------------------
(* Slips the code could contain, none of them used by an action.           *)

ChunkWithoutFor(i)     == TokenSet                 \* omp for left out
LengthOfUnmarked(s)    == IF s THEN "sig" ELSE "unset"
OkTotalBoth            == signSuccess + verifyOk
FailTotalVerify        == IF backend = "none" THEN signFail ELSE verifyFail

-----------------------------------------------------------------------------
(* schedule(static): blocks of nearly equal size, one per thread.          *)
Owner(t) == (t * threads) \div Tokens + 1
Chunk(i) == {t \in TokenSet : Owner(t) = i}

StartTeam ==
  /\ at' = [i \in Team |-> "loop"]
  /\ todo' = [i \in Team |-> Chunk(i)]
  /\ good' = [i \in Team |-> 0]
  /\ bad' = [i \in Team |-> 0]

(* run_token_step hands over one bank of all the tokens.                   *)
TokensPerBank == Tokens

Init ==
  /\ threads \in 1 .. MaxThreads
  /\ backend \in Backends
  /\ pipelineMode \in BOOLEAN
  /\ usesPipeline = FALSE
  /\ phase = "choose"
  /\ at = [i \in Team |-> "loop"]
  /\ todo = [i \in Team |-> {}]
  /\ good = [i \in Team |-> 0] /\ bad = [i \in Team |-> 0]
  /\ sigLen = [t \in TokenSet |-> "unset"]
  /\ signSuccess = 0 /\ signFail = 0 /\ attempts = 0
  /\ verifyOk = 0 /\ verifyFail = 0 /\ packed = {}
  /\ ok = 0 /\ fail = 0
  /\ signed = {} /\ accepted = {}

(* run_online_cpu_pipeline takes the pipeline only if one bank is too few. *)
NeedsPipeline == pipelineMode /\ Tokens > TokensPerBank

Choose ==
  /\ phase = "choose"
  /\ usesPipeline' = NeedsPipeline
  /\ phase' = IF NeedsPipeline THEN "pipeline" ELSE "sign"
  /\ StartTeam
  /\ UNCHANGED <<caseVars, sigLen, signVars, verifyVars, ok, fail, signed, accepted>>

(* The next token of thread i.                                             *)
IsNext(i, t) ==
  /\ at[i] = "loop"
  /\ t \in todo[i]
  /\ \A u \in todo[i] : t <= u

Counted(i, success) ==
  /\ good' = [good EXCEPT ![i] = @ + (IF success THEN 1 ELSE 0)]
  /\ bad' = [bad EXCEPT ![i] = @ + (IF success THEN 0 ELSE 1)]

LengthOf(success) == IF success THEN "sig" ELSE "none"

(* One iteration of the signing loop.  The signature may not fit its       *)
(* encoding; without verification it is not encoded at all.                *)
SignNext(i) == \E t \in todo[i], success \in BOOLEAN :
  /\ phase = "sign"
  /\ IsNext(i, t)
  /\ backend = "none" => success
  /\ todo' = [todo EXCEPT ![i] = @ \ {t}]
  /\ Counted(i, success)
  /\ sigLen' = IF backend = "none" THEN sigLen ELSE [sigLen EXCEPT ![t] = LengthOf(success)]
  /\ signed' = IF success THEN signed \cup {t} ELSE signed
  /\ UNCHANGED <<caseVars, usesPipeline, phase, at, signVars, verifyVars, ok, fail, accepted>>

(* The block is done; then, when all blocks are, the counts are added.     *)
LoopDone(i) ==
  /\ phase \in {"sign", "verify"}
  /\ at[i] = "loop" /\ todo[i] = {}
  /\ at' = [at EXCEPT ![i] = "barrier"]
  /\ UNCHANGED <<caseVars, usesPipeline, phase, todo, good, bad, sigLen, signVars,
                 verifyVars, ok, fail, signed, accepted>>

Adds(i, from, to) ==
  /\ at[i] = from
  /\ \A j \in Team : at[j] # "loop"
  /\ at' = [at EXCEPT ![i] = to]
  /\ UNCHANGED <<caseVars, usesPipeline, phase, todo, good, bad, sigLen, packed,
                 ok, fail, signed, accepted>>

AddSigned(i) ==
  /\ phase = "sign" /\ Adds(i, "barrier", "addBad")
  /\ signSuccess' = signSuccess + good[i]
  /\ UNCHANGED <<signFail, attempts, verifyOk, verifyFail>>

AddUnsigned(i) ==
  /\ phase = "sign" /\ Adds(i, "addBad", "addAttempts")
  /\ signFail' = signFail + bad[i]
  /\ UNCHANGED <<signSuccess, attempts, verifyOk, verifyFail>>

AddAttempts(i) ==
  /\ phase = "sign" /\ Adds(i, "addAttempts", "joined")
  /\ attempts' = attempts + good[i]
  /\ UNCHANGED <<signSuccess, signFail, verifyOk, verifyFail>>

AddAccepted(i) ==
  /\ phase = "verify" /\ Adds(i, "barrier", "addBad")
  /\ verifyOk' = verifyOk + good[i]
  /\ UNCHANGED <<signVars, verifyFail>>

AddRejected(i) ==
  /\ phase = "verify" /\ Adds(i, "addBad", "joined")
  /\ verifyFail' = verifyFail + bad[i]
  /\ UNCHANGED <<signVars, verifyOk>>

Joined == \A i \in Team : at[i] = "joined"

VerifyPhase ==
  CASE backend = "none"     -> "report"
    [] backend = "cpu"      -> "verify"
    [] backend = "gpu_raw"  -> "prepare"
    [] backend = "gpu_full" -> "verify_gpu"

(* The end of the parallel region that signs.  The loop that prepares the  *)
(* signatures for the GPU runs on one thread.                              *)
Signed ==
  /\ phase = "sign" /\ Joined
  /\ phase' = VerifyPhase
  /\ StartTeam
  /\ UNCHANGED <<caseVars, usesPipeline, sigLen, signVars, verifyVars, ok, fail,
                 signed, accepted>>

(* One iteration of run_verify_batch_mt: tokens without a signature are    *)
(* skipped.                                                                *)
VerifyNext(i) == \E t \in todo[i] :
  /\ phase = "verify"
  /\ IsNext(i, t)
  /\ todo' = [todo EXCEPT ![i] = @ \ {t}]
  /\ \/ /\ sigLen[t] = "none"
        /\ UNCHANGED <<good, bad, accepted>>
     \/ /\ sigLen[t] # "none"
        /\ \E valid \in BOOLEAN :
             /\ Counted(i, valid)
             /\ accepted' = IF valid THEN accepted \cup {t} ELSE accepted
  /\ UNCHANGED <<caseVars, usesPipeline, phase, at, sigLen, signVars, verifyVars,
                 ok, fail, signed>>

Verified ==
  /\ phase = "verify" /\ Joined
  /\ phase' = "report"
  /\ UNCHANGED <<caseVars, usesPipeline, teamVars, sigLen, signVars, verifyVars,
                 ok, fail, signed, accepted>>

(* run_verify_batch_gpu_raw: decoding may fail already on the CPU.         *)
Prepare == \E decoded \in SUBSET {t \in TokenSet : sigLen[t] # "none"} :
  /\ phase = "prepare"
  /\ packed' = decoded
  /\ verifyFail' = verifyFail + Cardinality({t \in TokenSet : sigLen[t] # "none"} \ decoded)
  /\ phase' = IF decoded = {} THEN "report" ELSE "verify_raw"
  /\ UNCHANGED <<caseVars, usesPipeline, teamVars, sigLen, signVars, verifyOk,
                 ok, fail, signed, accepted>>

VerifyRaw == \E valid \in SUBSET packed :
  /\ phase = "verify_raw"
  /\ verifyOk' = Cardinality(valid)
  /\ verifyFail' = verifyFail + Cardinality(packed \ valid)
  /\ accepted' = valid
  /\ phase' = "report"
  /\ UNCHANGED <<caseVars, usesPipeline, teamVars, sigLen, signVars, packed,
                 ok, fail, signed>>

(* run_verify_batch_gpu_full: the GPU reports a result for every token; one *)
(* without a signature is invalid.                                         *)
VerifyFull == \E valid \in SUBSET {t \in TokenSet : sigLen[t] # "none"} :
  /\ phase = "verify_gpu"
  /\ verifyOk' = Cardinality(valid)
  /\ verifyFail' = Cardinality(TokenSet \ valid)
  /\ accepted' = valid
  /\ phase' = "report"
  /\ UNCHANGED <<caseVars, usesPipeline, teamVars, sigLen, signVars, packed,
                 ok, fail, signed>>

(* The GPU call returns an error: the program exits.                       *)
GpuVerifyFails ==
  /\ phase \in {"verify_raw", "verify_gpu"}
  /\ phase' = "exited"
  /\ UNCHANGED <<caseVars, usesPipeline, teamVars, sigLen, signVars, verifyVars,
                 ok, fail, signed, accepted>>

OkTotal   == IF backend = "none" THEN signSuccess ELSE verifyOk
FailTotal == IF backend = "none" THEN signFail ELSE signFail + verifyFail

Report ==
  /\ phase = "report"
  /\ ok' = OkTotal
  /\ fail' = FailTotal
  /\ phase' = "done"
  /\ UNCHANGED <<caseVars, usesPipeline, teamVars, sigLen, signVars, verifyVars,
                 signed, accepted>>

Ended == phase \in {"done", "exited"} /\ UNCHANGED vars

TeamStep(i) ==
  \/ SignNext(i) \/ VerifyNext(i) \/ LoopDone(i)
  \/ AddSigned(i) \/ AddUnsigned(i) \/ AddAttempts(i)
  \/ AddAccepted(i) \/ AddRejected(i)

Next ==
  \/ Choose \/ Signed \/ Verified
  \/ Prepare \/ VerifyRaw \/ VerifyFull \/ GpuVerifyFails
  \/ Report \/ Ended
  \/ \E i \in Team : TeamStep(i)

Spec == Init /\ [][Next]_vars

-----------------------------------------------------------------------------
(* Properties *)

TypeOK ==
  /\ threads \in 1 .. MaxThreads /\ backend \in Backends
  /\ pipelineMode \in BOOLEAN /\ usesPipeline \in BOOLEAN
  /\ phase \in {"choose", "pipeline", "sign", "verify", "prepare", "verify_raw",
                "verify_gpu", "report", "done", "exited"}
  /\ at \in [Team -> {"loop", "barrier", "addBad", "addAttempts", "joined"}]
  /\ todo \in [Team -> SUBSET TokenSet]
  /\ good \in [Team -> 0 .. Tokens] /\ bad \in [Team -> 0 .. Tokens]
  /\ sigLen \in [TokenSet -> {"unset", "none", "sig"}]
  /\ signSuccess \in 0 .. Tokens /\ signFail \in 0 .. Tokens /\ attempts \in 0 .. Tokens
  /\ verifyOk \in 0 .. Tokens /\ verifyFail \in 0 .. Tokens
  /\ packed \subseteq TokenSet
  /\ ok \in 0 .. Tokens /\ fail \in 0 .. 2 * Tokens
  /\ signed \subseteq TokenSet /\ accepted \subseteq TokenSet

(* The counts reported are those of the tokens.  A token whose signing     *)
(* failed counts as one failure, but as two where the whole verification   *)
(* runs on the GPU, which counts it as an invalid signature too.           *)
Verifies == backend # "none"
CountsExact ==
  phase = "done" =>
    LET passed == IF Verifies THEN accepted ELSE signed IN
    /\ ok = Cardinality(passed)
    /\ fail = Cardinality(TokenSet \ passed)
              + (IF backend = "gpu_full" THEN Cardinality(TokenSet \ signed) ELSE 0)
    /\ attempts = Cardinality(signed)

(* Verification starts when every length of a signature was written, and   *)
(* then a signature is there for each token signed and for no other.       *)
LengthsWritten ==
  Verifies /\ phase \notin {"choose", "pipeline", "sign"} =>
    \A t \in TokenSet : sigLen[t] = (IF t \in signed THEN "sig" ELSE "none")

(* No token is signed with twice: no two threads have the same token left, *)
(* and none has one left that was signed with.                             *)
SignedOnce ==
  phase = "sign" =>
    /\ \A i, j \in Team : i # j => todo[i] \cap todo[j] = {}
    /\ \A i \in Team : todo[i] \cap signed = {}

(* With --pipeline the online stage uses the refill pipeline.              *)
PipelineModeUsesPipeline == phase = "done" /\ pipelineMode => usesPipeline

-----------------------------------------------------------------------------
(* The inductive invariant of the proofs.                                  *)

Past(places) == {t \in TokenSet : at[Owner(t)] \in places}   \* tokens of the threads there

TeamInv ==
  phase \in {"sign", "verify"} =>
    \A i \in Team : todo[i] \subseteq Chunk(i) /\ (at[i] # "loop" => todo[i] = {})

(* While signing, each thread's counts are those of the part of its block  *)
(* it is through with, and the shared ones those of the threads that added *)
(* theirs.                                                                 *)
SignInv ==
  phase = "sign" =>
    /\ \A i \in Team :
         /\ todo[i] \cap signed = {}
         /\ good[i] = Cardinality(signed \cap Chunk(i))
         /\ bad[i] = Cardinality((Chunk(i) \ todo[i]) \ signed)
         /\ Verifies => \A t \in Chunk(i) \ todo[i] :
                          sigLen[t] = (IF t \in signed THEN "sig" ELSE "none")
    /\ signSuccess = Cardinality(signed \cap Past({"addBad", "addAttempts", "joined"}))
    /\ signFail = Cardinality(Past({"addAttempts", "joined"}) \ signed)
    /\ attempts = Cardinality(signed \cap Past({"joined"}))

VerifyInv ==
  phase = "verify" =>
    /\ backend = "cpu"
    /\ \A i \in Team :
         /\ todo[i] \cap accepted = {}
         /\ good[i] = Cardinality(accepted \cap Chunk(i))
         /\ bad[i] = Cardinality((signed \cap (Chunk(i) \ todo[i])) \ accepted)
    /\ verifyOk = Cardinality(accepted \cap Past({"addBad", "joined"}))
    /\ verifyFail = Cardinality((signed \cap Past({"joined"})) \ accepted)

BeforeInv ==
  /\ phase = "choose" => /\ signed = {}
                         /\ signSuccess = 0 /\ signFail = 0 /\ attempts = 0
  /\ phase \in {"choose", "sign", "prepare", "verify_gpu"} =>
       verifyOk = 0 /\ verifyFail = 0 /\ accepted = {}
  /\ phase = "prepare" => backend = "gpu_raw"
  /\ phase = "verify_gpu" => backend = "gpu_full"
  /\ phase = "verify_raw" => /\ backend = "gpu_raw" /\ packed \subseteq signed
                             /\ verifyOk = 0 /\ accepted = {}
                             /\ verifyFail = Cardinality(signed \ packed)

SignedTotals ==
  phase \notin {"choose", "pipeline", "sign"} =>
    /\ signSuccess = Cardinality(signed)
    /\ signFail = Cardinality(TokenSet \ signed)
    /\ attempts = Cardinality(signed)

VerifiedTotals ==
  phase \in {"report", "done"} /\ Verifies =>
    /\ verifyOk = Cardinality(accepted)
    /\ verifyFail = Cardinality((IF backend = "gpu_full" THEN TokenSet ELSE signed) \ accepted)

BenchInv ==
  /\ TypeOK /\ TeamInv /\ SignInv /\ VerifyInv /\ BeforeInv
  /\ accepted \subseteq signed
  /\ LengthsWritten /\ SignedTotals /\ VerifiedTotals
  /\ phase = "done" => ok = OkTotal /\ fail = FailTotal

=============================================================================
