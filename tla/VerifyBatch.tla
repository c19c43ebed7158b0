---------------------------- MODULE VerifyBatch ----------------------------
(***************************************************************************)
(* The verification batch of the Falcon certificate benchmark              *)
(* (benchmark_verify_batch_mt in bench_cert_falcon.c) from the moment all  *)
(* messages are signed: a team of OpenMP threads, each with a workspace of *)
(* its own, shares the signatures and sums the failures.  A thread without *)
(* a workspace skips the work-sharing loop the others enter.  OpenMP does  *)
(* not define what happens then; the outcomes taken here are those of a    *)
(* static schedule, where a thread works on its own share whatever the     *)
(* others do: the skipped share stays undone, and the barriers, which no   *)
(* longer match, let the region end or hold it for ever.  The other        *)
(* schemes' batches need no workspace and are the case where none fails.   *)
(***************************************************************************)
EXTENDS Integers, FiniteSets

CONSTANTS
    MaxThreads,     \* bound: largest team; also what OpenMP offers
    MaxBatch        \* bound: most signatures

VerifyBatchAssumption == {MaxThreads, MaxBatch} \subseteq Nat \ {0}

VARIABLES
    batch_count, verify_threads,
    valid,       \* the signatures that falcon_verify would accept
    tmp_verify,  \* per thread: "none", "held", "missing" or "freed"
    verified,    \* history: the signatures that were looked at
    share,       \* per thread: its private sum of failures
    joined,      \* the threads whose sums the reduction has added
    phase,       \* "verify", "printed", "cleanup" or "hung"
    failures     \* the sum of the team, which is printed

vars == <<batch_count, verify_threads, valid, tmp_verify, verified, share, joined,
          phase, failures>>

Items == 0..(batch_count - 1)
Team == 0..(verify_threads - 1)

resolve_verify_threads(requested) ==
    IF requested > 0 THEN requested ELSE MaxThreads

(* schedule(static): consecutive shares, the first ones larger by one. *)
First(t) ==
    LET more == batch_count % verify_threads
    IN  t * (batch_count \div verify_threads) + (IF t < more THEN t ELSE more)
Share(t) == First(t)..(First(t + 1) - 1)

Init ==
    /\ batch_count \in 1..MaxBatch
    /\ \E requested \in 0..MaxThreads :
          verify_threads = resolve_verify_threads(requested)
    /\ valid \in SUBSET Items
    /\ tmp_verify = [t \in Team |-> "none"]
    /\ verified = {}
    /\ share = [t \in Team |-> 0] /\ joined = {}
    /\ phase = "verify" /\ failures = 0

(* Slip: the thread without a workspace leaves its sum alone. *)
MissedNothing(t) == UNCHANGED share

(* The thread without a workspace counts the whole batch as failed. *)
Missed(t) ==
    IF verify_threads > 1 THEN share' = [share EXCEPT ![t] = @ + batch_count]
    ELSE UNCHANGED share

(* Slip: it tries again and counts every try. *)
AllocateRetry(t) ==
    /\ phase = "verify" /\ tmp_verify[t] = "none"
    /\ \/ tmp_verify' = [tmp_verify EXCEPT ![t] = "held"] /\ UNCHANGED share
       \/ UNCHANGED tmp_verify /\ Missed(t)
    /\ UNCHANGED <<batch_count, verify_threads, valid, verified, joined, phase, failures>>

Allocate(t) ==
    /\ phase = "verify" /\ tmp_verify[t] = "none"
    /\ \/ tmp_verify' = [tmp_verify EXCEPT ![t] = "held"] /\ UNCHANGED share
       \/ tmp_verify' = [tmp_verify EXCEPT ![t] = "missing"] /\ Missed(t)
    /\ UNCHANGED <<batch_count, verify_threads, valid, verified, joined, phase, failures>>

(* Slip: the result is taken for a truth value. *)
RefusedInverted(i) == i \in valid

Refused(i) == i \notin valid

(* One turn of the loop, the items of a share in order. *)
Verify(t) ==
    /\ phase = "verify" /\ tmp_verify[t] = "held"
    /\ \E i \in Share(t) \ verified :
          /\ i = First(t) \/ i - 1 \in verified
          /\ verified' = verified \cup {i}
          /\ share' = [share EXCEPT ![t] = IF Refused(i) THEN @ + 1 ELSE @]
    /\ UNCHANGED <<batch_count, verify_threads, valid, tmp_verify, joined, phase, failures>>

Free(t) ==
    /\ phase = "verify" /\ tmp_verify[t] = "held" /\ Share(t) \subseteq verified
    /\ tmp_verify' = [tmp_verify EXCEPT ![t] = "freed"]
    /\ UNCHANGED <<batch_count, verify_threads, valid, verified, share, joined, phase, failures>>

AllHeld == \A t \in Team : tmp_verify[t] # "missing"

Ended(t) == tmp_verify[t] \in {"missing", "freed"}

(* The reduction adds the private sums one after the other. *)
Reduce(t) ==
    /\ phase = "verify" /\ Ended(t) /\ t \notin joined
    /\ joined' = joined \cup {t}
    /\ failures' = failures + share[t]
    /\ UNCHANGED <<batch_count, verify_threads, valid, tmp_verify, verified, share, phase>>

(* The end of the parallel region, and the results; or without a team the  *)
(* one loop, which gives up without a workspace.                           *)
Join ==
    /\ phase = "verify" /\ joined = Team
    /\ phase' = IF AllHeld \/ verify_threads > 1 THEN "printed" ELSE "cleanup"
    /\ UNCHANGED <<batch_count, verify_threads, valid, tmp_verify, verified, share,
                   joined, failures>>

(* The barriers of a team that did not enter the loop whole do not match.  *)
Hang ==
    /\ phase = "verify" /\ verify_threads > 1 /\ ~AllHeld /\ \A t \in Team : Ended(t)
    /\ phase' = "hung"
    /\ UNCHANGED <<batch_count, verify_threads, valid, tmp_verify, verified, share,
                   joined, failures>>

Next ==
    \/ Join \/ Hang
    \/ \E t \in Team : Allocate(t) \/ Verify(t) \/ Free(t) \/ Reduce(t)

Spec == Init /\ [][Next]_vars

-----------------------------------------------------------------------------
(* The state of the batch has its types, and no thread keeps a workspace.  *)
TypeOK ==
    /\ valid \subseteq Items /\ verified \subseteq Items
    /\ tmp_verify \in [Team -> {"none", "held", "missing", "freed"}]
    /\ share \in [Team -> 0..batch_count] /\ failures \in Nat
    /\ phase # "verify" => \A t \in Team : tmp_verify[t] # "held"

(* A report of no failures is true even if some thread had no workspace:   *)
(* every signature of the batch was verified and accepted.                 *)
ZeroMeansAllVerified ==
    phase = "printed" /\ failures = 0 => verified = Items /\ Items \subseteq valid

(* With a workspace for every thread the report is exact: each signature   *)
(* is counted by one thread, whatever the size of the last shares.         *)
FailuresExact ==
    phase = "printed" /\ AllHeld => failures = Cardinality(Items \ valid)

-----------------------------------------------------------------------------
(* The private sum of each thread at each of its places, and that of the   *)
(* threads joined so far: without a missing workspace the refused items of *)
(* their shares, otherwise at least the whole batch.  This is inductive.   *)
Joined == {i \in Items : \E t \in joined : i \in Share(t)}

ShareInv(t) ==
    /\ tmp_verify[t] \in {"none", "missing"} => verified \cap Share(t) = {}
    /\ tmp_verify[t] = "none" => share[t] = 0
    /\ tmp_verify[t] = "missing" => share[t] = IF verify_threads > 1 THEN batch_count ELSE 0
    /\ tmp_verify[t] \in {"held", "freed"} => share[t] = Cardinality((verified \cap Share(t)) \ valid)
    /\ tmp_verify[t] = "freed" => Share(t) \subseteq verified

VerifyBatchInv ==
    /\ TypeOK
    /\ batch_count \in 1..MaxBatch /\ verify_threads \in 1..MaxThreads
    /\ phase \in {"verify", "printed", "cleanup", "hung"}
    /\ joined \subseteq Team
    /\ \A t \in Team : ShareInv(t)
    /\ \A t \in joined : Ended(t)
    /\ IF \A t \in joined : tmp_verify[t] = "freed" THEN failures = Cardinality(Joined \ valid)
       ELSE verify_threads > 1 => failures >= batch_count
    /\ phase = "printed" => joined = Team /\ (AllHeld \/ verify_threads > 1)

(* A report of no failures is true even if some thread had no workspace,   *)
(* and with a workspace for every thread the report is exact.              *)
VerifyBatchRight == TypeOK /\ ZeroMeansAllVerified /\ FailuresExact
=============================================================================
