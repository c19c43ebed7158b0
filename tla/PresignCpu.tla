------------------------------ MODULE PresignCpu ------------------------------
(***************************************************************************)
(* Generation of tokens on the CPU, src/src/backends/soko_cpu_backend.c    *)
(* and soko_cpumt_backend.c: a loop over the tokens, shared out among a    *)
(* team of OpenMP threads or run by one.                                   *)
(*                                                                         *)
(* The sampler and compute_target are external.  A sample is the ordinal   *)
(* of its draw, a target the samples it was computed from.                 *)
(***************************************************************************)
EXTENDS Integers, FiniteSets

CONSTANTS
  MaxTokens, MaxThreads,
  Unset

SizesAssumption ==
  /\ MaxTokens \in Nat /\ MaxThreads \in Nat \ {0}
  /\ Unset \notin Nat \cup (Nat \X Nat)

VARIABLES
  openmp,     \* whether the build has it
  tokens, threads,  \* the arguments; threads <= 0 asks for the default
  cpus,       \* omp_get_max_threads()
  t, step,    \* loop variable and place in the body, of each thread
  s1, s2, target,   \* the banks
  draws       \* samples drawn so far
vars == <<openmp, tokens, threads, cpus, t, step, s1, s2, target, draws>>

Places == 0 .. MaxTokens - 1
Team   == 0 .. MaxThreads - 1

-----------------------------------------------------------------------------
(* Slips the code could contain, none of them used below.                  *)

RequestedOnly(requested)   == IF requested = 0 THEN 1 ELSE requested
WorksOnOfLast(i)           == t[0]
ChunkRounded(n, k)         == n \div k

-----------------------------------------------------------------------------
soko_resolve_cpu_mt_threads(requested) ==
  IF ~openmp THEN 1
  ELSE IF requested > 0 THEN requested
  ELSE IF cpus > 0 THEN cpus ELSE 1

Size == soko_resolve_cpu_mt_threads(threads)
Workers == {i \in Team : i < Size}

(* schedule(static): contiguous chunks, as equal as possible.              *)
Chunk(n, k)  == (n + k - 1) \div k
First(i) == i * Chunk(tokens, Size)
After(i) == IF First(i) + Chunk(tokens, Size) < tokens THEN First(i) + Chunk(tokens, Size) ELSE tokens

Init ==
  /\ openmp \in BOOLEAN /\ cpus \in 0 .. MaxThreads
  /\ tokens \in 0 .. MaxTokens /\ threads \in -1 .. MaxThreads
  /\ t = [i \in Team |-> First(i)]
  /\ step = [i \in Team |-> "sample"]
  /\ s1 = [p \in Places |-> Unset] /\ s2 = s1 /\ target = s1
  /\ draws = 0

(* The token of an iteration: the pointers into the banks are local to it. *)
WorksOn(i) == t[i]

sample_gaussian_poly_bern(i) ==
  /\ i \in Workers /\ t[i] < After(i) /\ step[i] = "sample"
  /\ draws' = draws + 2
  /\ s1' = [s1 EXCEPT ![WorksOn(i)] = draws + 1]
  /\ s2' = [s2 EXCEPT ![WorksOn(i)] = draws + 2]
  /\ step' = [step EXCEPT ![i] = "target"]
  /\ UNCHANGED <<openmp, tokens, threads, cpus, t, target>>

compute_target(i) ==
  /\ i \in Workers /\ t[i] < After(i) /\ step[i] = "target"
  /\ target' = [target EXCEPT ![WorksOn(i)] = <<s1[WorksOn(i)], s2[WorksOn(i)]>>]
  /\ t' = [t EXCEPT ![i] = @ + 1]
  /\ step' = [step EXCEPT ![i] = "sample"]
  /\ UNCHANGED <<openmp, tokens, threads, cpus, s1, s2, draws>>

Next == \E i \in Team : sample_gaussian_poly_bern(i) \/ compute_target(i)

(* The call returns when every thread has ended its part.                  *)
Spec == Init /\ [][Next]_vars

Returned == \A i \in Workers : t[i] >= After(i)

-----------------------------------------------------------------------------
TypeOK ==
  /\ Size \in 1 .. MaxThreads
  /\ \A p \in Places : target[p] \in {Unset} \cup {<<d, e>> : d, e \in 1 .. 2 * MaxTokens}

(* A call that returns has made every token, and none beyond, each from    *)
(* the samples that stand beside its target.                               *)
TokensComplete ==
  Returned => \A p \in Places : target[p] = IF p < tokens THEN <<s1[p], s2[p]>> ELSE Unset

(* A token that is complete is not generated again (the chunks are         *)
(* disjoint): it may be used while other threads still work.               *)
TargetsKept == \A p \in Places : target[p] # Unset => target'[p] = target[p] /\ s1'[p] = s1[p]

-----------------------------------------------------------------------------
(* Which tokens each thread is through with, and the sample it is at: in   *)
(* its chunk, what is behind the thread is complete and what is before it  *)
(* untouched.  This is inductive.                                          *)
Mine(i) == {p \in Places : First(i) <= p /\ p < After(i)}

WorkerInv(i) ==
  /\ First(i) <= t[i] /\ (First(i) < t[i] => t[i] <= After(i))
  /\ step[i] = "target" => t[i] < After(i)
  /\ \A p \in Mine(i) :
       /\ s1[p] # Unset <=> p < t[i] \/ (p = t[i] /\ step[i] = "target")
       /\ target[p] = IF p < t[i] THEN <<s1[p], s2[p]>> ELSE Unset

Sampled == {p \in Places : s1[p] # Unset}

PresignInv ==
  /\ Size \in 1 .. MaxThreads /\ tokens \in 0 .. MaxTokens
  /\ t \in [Team -> Int] /\ step \in [Team -> {"sample", "target"}]
  /\ draws = 2 * Cardinality(Sampled)
  /\ s1 \in [Places -> {Unset} \cup 1 .. draws] /\ s2 \in [Places -> {Unset} \cup 1 .. draws]
  /\ \A p \in Places : s1[p] # Unset <=> s2[p] # Unset
  /\ target \in [Places -> {Unset} \cup (1 .. draws) \X (1 .. draws)]
  /\ \A p \in Places : p >= tokens => target[p] = Unset
  /\ \A i \in Workers : WorkerInv(i)

(* A call that returns has made every token, and none beyond, each from    *)
(* the samples that stand beside its target.                               *)
PresignRight == TypeOK /\ TokensComplete
=============================================================================
