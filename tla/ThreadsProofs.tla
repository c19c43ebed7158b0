--------------------------- MODULE ThreadsProofs ---------------------------
(***************************************************************************)
(* Proofs about what threads share, for any number of them: the CPU        *)
(* generation (PresignCpu), the verification batch (VerifyBatch), the key  *)
(* with its tokens (KeyState) and a block of the GPU (GpuKernels), for any *)
(* sizes.                                                                  *)
(***************************************************************************)
EXTENDS PresignCpu, Sequences, FiniteSetTheorems, SequenceTheorems, WellFoundedInduction, TLAPS

-----------------------------------------------------------------------------
(* The chunks of a static schedule.                                        *)
LEMMA TimesMono ==
  ASSUME NEW a \in Int, NEW b \in Int, NEW c \in Nat, a <= b
  PROVE  a * c \in Int /\ b * c \in Int /\ a * c <= b * c
BY SMT

LEMMA TimesPlusOne ==
  ASSUME NEW a \in Int, NEW c \in Int
  PROVE  a * c \in Int /\ (a + 1) * c = a * c + c
BY SMT

LEMMA Quotient ==
  ASSUME NEW a \in Nat, NEW d \in Nat \ {0}
  PROVE  /\ a \div d \in Nat /\ a % d \in 0 .. d - 1
         /\ d * (a \div d) \in Nat /\ a = d * (a \div d) + (a % d)
BY SMTT(30)

LEMMA Commutes ==
  ASSUME NEW a \in Int, NEW b \in Int PROVE a * b = b * a
BY SMT

(* As many chunks as threads cover all the work.                           *)
LEMMA ChunksCover ==
  ASSUME NEW n \in Nat, NEW k \in Nat \ {0}
  PROVE  Chunk(n, k) \in Nat /\ k * Chunk(n, k) \in Nat /\ n <= k * Chunk(n, k)
<1> DEFINE a == n + k - 1
           q == a \div k
           r == a % k
<1>1. a \in Nat
  OBVIOUS
<1>2. q \in Nat /\ r \in 0 .. k - 1 /\ k * q \in Nat /\ a = k * q + r
  BY <1>1, Quotient
<1>3. a = n + k - 1
  OBVIOUS
<1>4. Chunk(n, k) = q
  BY DEF Chunk
<1> HIDE DEF a, q, r
<1> QED
  BY <1>2, <1>3, <1>4

(* Bounds of a worker's chunk.                                             *)
LEMMA ChunkBounds ==
  ASSUME Size \in 1 .. MaxThreads, tokens \in 0 .. MaxTokens, SizesAssumption, NEW i \in Team
  PROVE  /\ First(i) \in Nat /\ After(i) \in Nat /\ After(i) <= tokens
         /\ After(i) <= First(i) + Chunk(tokens, Size)
         /\ Chunk(tokens, Size) \in Nat
<1>1. Chunk(tokens, Size) \in Nat
  BY ChunksCover DEF SizesAssumption
<1>2. i \in Nat /\ tokens \in Nat
  BY DEF Team, SizesAssumption
<1>3. First(i) \in Nat
  BY <1>1, <1>2, TimesMono DEF First
<1> QED
  BY <1>1, <1>2, <1>3 DEF After

LEMMA MineApart ==
  ASSUME Size \in 1 .. MaxThreads, tokens \in 0 .. MaxTokens, SizesAssumption,
         NEW i \in Team, NEW j \in Team, i # j
  PROVE  Mine(i) \cap Mine(j) = {}
<1>1. ASSUME NEW a \in Team, NEW b \in Team, a < b PROVE After(a) <= First(b)
  <2> DEFINE c == Chunk(tokens, Size)
  <2>1. c \in Nat /\ After(a) <= First(a) + c /\ First(a) \in Nat /\ After(a) \in Nat
    BY ChunkBounds
  <2>2. a \in Int /\ b \in Int /\ a + 1 <= b
    BY <1>1 DEF Team, SizesAssumption
  <2>3. First(a) = a * c /\ First(b) = b * c
    BY DEF First
  <2> HIDE DEF c
  <2>4. (a + 1) * c = a * c + c /\ (a + 1) * c <= b * c /\ b * c \in Int /\ a * c \in Int
    BY <2>1, <2>2, TimesMono, TimesPlusOne
  <2> QED
    BY <2>1, <2>3, <2>4
<1>2. First(i) \in Nat /\ After(i) \in Nat /\ First(j) \in Nat /\ After(j) \in Nat
  BY ChunkBounds
<1>3. i < j \/ j < i
  BY DEF Team, SizesAssumption
<1>4. CASE i < j
  BY <1>1, <1>2, <1>4 DEF Mine, Places, SizesAssumption
<1>5. CASE j < i
  BY <1>1, <1>2, <1>5 DEF Mine, Places, SizesAssumption
<1> QED
  BY <1>3, <1>4, <1>5

LEMMA MineCovers ==
  ASSUME Size \in 1 .. MaxThreads, tokens \in 0 .. MaxTokens, SizesAssumption,
         NEW p \in Places, p < tokens
  PROVE  \E i \in Workers : p \in Mine(i)
<1> DEFINE c == Chunk(tokens, Size)
           i == p \div c
<1>1. Size \in Nat \ {0} /\ tokens \in Nat /\ p \in Nat
  BY DEF SizesAssumption, Places
<1>2. c \in Nat /\ Size * c \in Nat /\ tokens <= Size * c
  BY <1>1, ChunksCover
<1>3. c # 0
  <2> HIDE DEF c
  <2>1. Size * 0 = 0
    BY <1>1
  <2> QED
    BY <1>1, <1>2, <2>1
<1>4. i \in Nat /\ p % c \in 0 .. c - 1 /\ c * i \in Nat /\ p = c * i + (p % c)
  BY <1>1, <1>2, <1>3, Quotient
<1> HIDE DEF i
<1>5. i < Size
  <2> SUFFICES ASSUME Size <= i PROVE FALSE
    BY <1>1, <1>4
  <2>1. Size * c <= i * c /\ i * c \in Int
    BY <1>1, <1>2, <1>4, TimesMono
  <2>2. i * c = c * i
    BY <1>2, <1>4, Commutes
  <2> QED
    <3> HIDE DEF c
    <3> QED
      BY <1>1, <1>2, <1>4, <2>1, <2>2
<1>6. i \in Team /\ i \in Workers
  BY <1>1, <1>4, <1>5 DEF Team, Workers, SizesAssumption
<1>7. First(i) = c * i
  BY <1>2, <1>4, Commutes DEF First
<1>8. After(i) = IF First(i) + c < tokens THEN First(i) + c ELSE tokens
  BY DEF After
<1>9. First(i) <= p /\ p < After(i)
  <2> HIDE DEF c
  <2> QED
    BY <1>1, <1>2, <1>4, <1>7, <1>8
<1> QED
  BY <1>6, <1>9 DEF Mine

-----------------------------------------------------------------------------
LEMMA PlacesFinite ==
  ASSUME SizesAssumption, NEW S \in SUBSET Places
  PROVE  IsFiniteSet(S) /\ Cardinality(S) \in Nat /\ Cardinality(S) <= MaxTokens
<1>1. IsFiniteSet(Places) /\ Cardinality(Places) = MaxTokens
  <2>1. /\ IsFiniteSet(0 .. MaxTokens - 1)
        /\ Cardinality(0 .. MaxTokens - 1)
             = IF 0 > MaxTokens - 1 THEN 0 ELSE MaxTokens - 1 - 0 + 1
    BY FS_Interval DEF SizesAssumption
  <2> QED
    BY <2>1 DEF Places, SizesAssumption
<1> QED
  BY <1>1, FS_Subset, FS_CardinalityType

LEMMA InitPresign == SizesAssumption /\ Init => PresignInv
<1> SUFFICES ASSUME SizesAssumption, Init PROVE PresignInv
  OBVIOUS
<1> USE DEF Init
<1>1. Size \in 1 .. MaxThreads /\ tokens \in 0 .. MaxTokens
  BY DEF Size, soko_resolve_cpu_mt_threads, SizesAssumption
<1>2. \A i \in Team : First(i) \in Nat /\ t[i] = First(i) /\ step[i] = "sample"
  BY <1>1, ChunkBounds
<1>3. t \in [Team -> Int] /\ step \in [Team -> {"sample", "target"}]
  BY <1>2
<1>4. \A p \in Places : s1[p] = Unset /\ s2[p] = Unset /\ target[p] = Unset
  OBVIOUS
<1>5. Sampled = {}
  BY <1>4 DEF Sampled
<1>6. draws = 2 * Cardinality(Sampled)
  BY <1>5, FS_EmptySet
<1>7. \A i \in Workers : WorkerInv(i)
  <2> SUFFICES ASSUME NEW i \in Workers PROVE WorkerInv(i)
    OBVIOUS
  <2>1. i \in Team
    BY DEF Workers
  <2>2. t[i] = First(i) /\ step[i] = "sample" /\ First(i) \in Nat
    BY <1>2, <2>1
  <2>3. \A p \in Mine(i) : p \in Places /\ ~(p < t[i])
    BY <2>2 DEF Mine, Places
  <2> QED
    BY <1>4, <2>2, <2>3 DEF WorkerInv
<1> QED
  BY <1>1, <1>3, <1>4, <1>6, <1>7 DEF PresignInv

(* Where a worker is at work: in its own chunk, and in no other.           *)
LEMMA AtWork ==
  ASSUME SizesAssumption, PresignInv, NEW i \in Workers, t[i] < After(i)
  PROVE  /\ i \in Team /\ t[i] \in Mine(i) /\ t[i] \in Places /\ t[i] < tokens /\ t[i] \in Int
         /\ \A j \in Workers : j # i => t[i] \notin Mine(j)
<1>1. Size \in 1 .. MaxThreads /\ tokens \in 0 .. MaxTokens /\ WorkerInv(i) /\ i \in Team /\ t[i] \in Int
  BY DEF PresignInv, Workers
<1>2. First(i) \in Nat /\ After(i) \in Nat /\ After(i) <= tokens /\ First(i) <= t[i]
  BY <1>1, ChunkBounds DEF WorkerInv
<1>3. t[i] \in Places /\ t[i] < tokens
  BY <1>1, <1>2 DEF Places, SizesAssumption
<1>4. t[i] \in Mine(i)
  BY <1>2, <1>3 DEF Mine
<1>5. \A j \in Workers : j # i => Mine(i) \cap Mine(j) = {}
  BY <1>1, MineApart DEF Workers
<1> QED
  BY <1>1, <1>3, <1>4, <1>5

LEMMA SampleStep ==
  ASSUME SizesAssumption, PresignInv, NEW i \in Team, sample_gaussian_poly_bern(i)
  PROVE  PresignInv' /\ TargetsKept
<1> DEFINE p == t[i]
<1>1. /\ i \in Workers /\ t[i] < After(i) /\ step[i] = "sample"
      /\ draws' = draws + 2
      /\ s1' = [s1 EXCEPT ![p] = draws + 1] /\ s2' = [s2 EXCEPT ![p] = draws + 2]
      /\ step' = [step EXCEPT ![i] = "target"]
      /\ UNCHANGED <<openmp, tokens, threads, cpus, t, target>>
  BY DEF sample_gaussian_poly_bern, WorksOn
<1>2. p \in Mine(i) /\ p \in Places /\ p \in Int /\ \A j \in Workers : j # i => p \notin Mine(j)
  BY <1>1, AtWork
<1>3. Size' = Size /\ Workers' = Workers
      /\ \A j \in Workers : First(j)' = First(j) /\ After(j)' = After(j) /\ Mine(j)' = Mine(j)
  BY <1>1 DEF Size, Workers, soko_resolve_cpu_mt_threads, First, After, Chunk, Mine
<1>4. Sampled \in SUBSET Places /\ Cardinality(Sampled) \in Nat /\ IsFiniteSet(Sampled)
      /\ draws = 2 * Cardinality(Sampled) /\ draws \in Nat
  <2>1. Sampled \in SUBSET Places
    BY DEF Sampled
  <2> QED
    BY <2>1, PlacesFinite DEF PresignInv
<1>5. /\ s1 \in [Places -> {Unset} \cup 1 .. draws] /\ s2 \in [Places -> {Unset} \cup 1 .. draws]
      /\ target \in [Places -> {Unset} \cup (1 .. draws) \X (1 .. draws)]
      /\ \A q \in Places : s1[q] # Unset <=> s2[q] # Unset
      /\ \A q \in Places : q >= tokens => target[q] = Unset
      /\ t \in [Team -> Int] /\ step \in [Team -> {"sample", "target"}]
      /\ Size \in 1 .. MaxThreads /\ tokens \in 0 .. MaxTokens
      /\ \A j \in Workers : WorkerInv(j)
  BY DEF PresignInv
<1>6. Unset \notin Nat
  BY DEF SizesAssumption
<1> HIDE DEF p
<1>7. /\ \A q \in Places : s1'[q] = (IF q = p THEN draws + 1 ELSE s1[q])
                         /\ s2'[q] = (IF q = p THEN draws + 2 ELSE s2[q])
      /\ draws + 1 # Unset /\ draws + 2 # Unset
  BY <1>1, <1>2, <1>4, <1>5, <1>6
<1>8. s1[p] = Unset
  <2>1. WorkerInv(i) /\ p = t[i] /\ ~(p < p)
    BY <1>1, <1>2, <1>5 DEF p
  <2> QED
    BY <1>1, <1>2, <2>1 DEF WorkerInv
<1>9. Sampled' = Sampled \cup {p} /\ p \notin Sampled
  BY <1>2, <1>7, <1>8 DEF Sampled
<1>10. draws' = 2 * Cardinality(Sampled')
  <2>1. Cardinality(Sampled') = Cardinality(Sampled) + 1
    BY <1>4, <1>9, FS_AddElement
  <2> QED
    BY <1>1, <1>4, <2>1
<1>11. /\ 1 .. draws \subseteq 1 .. draws' /\ draws + 1 \in 1 .. draws' /\ draws + 2 \in 1 .. draws'
  BY <1>1, <1>4
<1>12. s1' \in [Places -> {Unset} \cup 1 .. draws'] /\ s2' \in [Places -> {Unset} \cup 1 .. draws']
  BY <1>1, <1>5, <1>11
<1>13. target' \in [Places -> {Unset} \cup (1 .. draws') \X (1 .. draws')]
  <2>1. (1 .. draws) \X (1 .. draws) \subseteq (1 .. draws') \X (1 .. draws')
    BY <1>11
  <2> QED
    BY <1>1, <1>5, <2>1
<1>14. \A j \in Workers : WorkerInv(j)'
  <2> SUFFICES ASSUME NEW j \in Workers PROVE WorkerInv(j)'
    OBVIOUS
  <2>0. j \in Team /\ \A q \in Mine(j) : q \in Places /\ q \in Int
    BY DEF Workers, Mine, Places, SizesAssumption
  <2>1. CASE j = i
    <3>1. step'[j] = "target" /\ t'[j] = p /\ t[j] = p /\ step[j] = "sample" /\ p < After(j)
      BY <1>1, <1>5, <2>0, <2>1 DEF p
    <3>2. \A q \in Mine(j) : /\ s1[q] # Unset <=> q < p
                             /\ target[q] = IF q < p THEN <<s1[q], s2[q]>> ELSE Unset
      BY <1>5, <3>1 DEF WorkerInv
    <3>3. \A q \in Mine(j) : /\ s1'[q] # Unset <=> q < p \/ q = p
                             /\ target'[q] = IF q < p THEN <<s1'[q], s2'[q]>> ELSE Unset
      <4> SUFFICES ASSUME NEW q \in Mine(j)
                   PROVE  /\ s1'[q] # Unset <=> q < p \/ q = p
                          /\ target'[q] = IF q < p THEN <<s1'[q], s2'[q]>> ELSE Unset
        OBVIOUS
      <4>1. q \in Places /\ q \in Int
        BY <2>0
      <4>2. ~(q = p /\ q < p)
        BY <4>1
      <4>3. target'[q] = target[q]
        BY <1>1
      <4> QED
        BY <1>7, <3>2, <4>1, <4>2, <4>3
    <3> QED
      BY <1>1, <1>3, <1>5, <3>1, <3>3 DEF WorkerInv
  <2>2. CASE j # i
    <3>1. step'[j] = step[j] /\ t'[j] = t[j]
      BY <1>1, <1>5, <2>0, <2>2
    <3>2. \A q \in Mine(j) : s1'[q] = s1[q] /\ s2'[q] = s2[q] /\ target'[q] = target[q]
      BY <1>1, <1>2, <1>7, <2>0, <2>2
    <3> QED
      BY <1>3, <1>5, <3>1, <3>2 DEF WorkerInv
  <2> QED
    BY <2>1, <2>2
<1>15. \A q \in Places : s1'[q] # Unset <=> s2'[q] # Unset
  BY <1>5, <1>7
<1>16. /\ t' \in [Team -> Int] /\ step' \in [Team -> {"sample", "target"}]
       /\ tokens' = tokens /\ target' = target
  BY <1>1, <1>5
<1>17. TargetsKept
  <2>1. target[p] = Unset
    <3>1. WorkerInv(i) /\ p = t[i] /\ ~(p < p)
      BY <1>1, <1>2, <1>5 DEF p
    <3> QED
      BY <1>2, <3>1 DEF WorkerInv
  <2> QED
    BY <1>7, <1>16, <2>1 DEF TargetsKept
<1> QED
  BY <1>3, <1>5, <1>10, <1>12, <1>13, <1>14, <1>15, <1>16, <1>17 DEF PresignInv

LEMMA TargetStep ==
  ASSUME SizesAssumption, PresignInv, NEW i \in Team, compute_target(i)
  PROVE  PresignInv' /\ TargetsKept
<1> DEFINE p == t[i]
<1>1. /\ i \in Workers /\ t[i] < After(i) /\ step[i] = "target"
      /\ target' = [target EXCEPT ![p] = <<s1[p], s2[p]>>]
      /\ t' = [t EXCEPT ![i] = t[i] + 1]
      /\ step' = [step EXCEPT ![i] = "sample"]
      /\ UNCHANGED <<openmp, tokens, threads, cpus, s1, s2, draws>>
  BY DEF compute_target, WorksOn
<1>2. /\ p \in Mine(i) /\ p \in Places /\ p \in Int /\ p < tokens
      /\ \A j \in Workers : j # i => p \notin Mine(j)
  BY <1>1, AtWork
<1>3. Size' = Size /\ Workers' = Workers
      /\ \A j \in Workers : First(j)' = First(j) /\ After(j)' = After(j) /\ Mine(j)' = Mine(j)
  BY <1>1 DEF Size, Workers, soko_resolve_cpu_mt_threads, First, After, Chunk, Mine
<1>5. /\ s1 \in [Places -> {Unset} \cup 1 .. draws] /\ s2 \in [Places -> {Unset} \cup 1 .. draws]
      /\ target \in [Places -> {Unset} \cup (1 .. draws) \X (1 .. draws)]
      /\ \A q \in Places : s1[q] # Unset <=> s2[q] # Unset
      /\ \A q \in Places : q >= tokens => target[q] = Unset
      /\ t \in [Team -> Int] /\ step \in [Team -> {"sample", "target"}]
      /\ Size \in 1 .. MaxThreads /\ tokens \in 0 .. MaxTokens
      /\ \A j \in Workers : WorkerInv(j)
      /\ draws = 2 * Cardinality(Sampled)
  BY DEF PresignInv
<1>6. Sampled' = Sampled /\ draws' = draws /\ tokens' = tokens /\ s1' = s1 /\ s2' = s2
  BY <1>1 DEF Sampled
<1>7. t[i] = p /\ First(i) <= p /\ p < After(i) /\ First(i) \in Nat /\ After(i) \in Nat
  BY <1>1, <1>5, ChunkBounds DEF WorkerInv
<1> HIDE DEF p
<1>8. s1[p] \in 1 .. draws /\ s2[p] \in 1 .. draws /\ target[p] = Unset
  <2>1. s1[p] # Unset /\ target[p] = Unset
    BY <1>1, <1>2, <1>5, <1>7 DEF WorkerInv
  <2> QED
    BY <1>2, <1>5, <2>1
<1>9. \A q \in Places : target'[q] = (IF q = p THEN <<s1[p], s2[p]>> ELSE target[q])
  BY <1>1, <1>2, <1>5
<1>10. target' \in [Places -> {Unset} \cup (1 .. draws) \X (1 .. draws)]
  BY <1>1, <1>5, <1>8
<1>11. \A q \in Places : q >= tokens => target'[q] = Unset
  <2> SUFFICES ASSUME NEW q \in Places, q >= tokens PROVE target'[q] = Unset
    OBVIOUS
  <2>1. q # p
    BY <1>2, <1>5 DEF Places, SizesAssumption
  <2> QED
    BY <1>5, <1>9, <2>1
<1>12. \A j \in Workers : WorkerInv(j)'
  <2> SUFFICES ASSUME NEW j \in Workers PROVE WorkerInv(j)'
    OBVIOUS
  <2>0. j \in Team /\ \A q \in Mine(j) : q \in Places /\ q \in Int
    BY DEF Workers, Mine, Places, SizesAssumption
  <2>1. CASE j = i
    <3>1. step'[j] = "sample" /\ t'[j] = p + 1
      BY <1>1, <1>5, <1>7, <2>0, <2>1
    <3>2. \A q \in Mine(j) : /\ s1[q] # Unset <=> q < p \/ q = p
                             /\ target[q] = IF q < p THEN <<s1[q], s2[q]>> ELSE Unset
      BY <1>1, <1>5, <1>7, <2>1 DEF WorkerInv
    <3>3. \A q \in Mine(j) : (q < p \/ q = p) <=> q < p + 1
      BY <1>2, <2>0
    <3>4. \A q \in Mine(j) : /\ s1'[q] # Unset <=> q < p + 1
                             /\ target'[q] = IF q < p + 1 THEN <<s1'[q], s2'[q]>> ELSE Unset
      BY <1>6, <1>9, <2>0, <3>2, <3>3
    <3>5. First(j) <= p + 1 /\ p + 1 <= After(j)
      BY <1>2, <1>7, <2>1
    <3> QED
      BY <1>3, <3>1, <3>4, <3>5 DEF WorkerInv
  <2>2. CASE j # i
    <3>1. step'[j] = step[j] /\ t'[j] = t[j]
      BY <1>1, <1>5, <2>0, <2>2
    <3>2. \A q \in Mine(j) : s1'[q] = s1[q] /\ s2'[q] = s2[q] /\ target'[q] = target[q]
      BY <1>2, <1>6, <1>9, <2>0, <2>2
    <3> QED
      BY <1>3, <1>5, <3>1, <3>2 DEF WorkerInv
  <2> QED
    BY <2>1, <2>2
<1>13. t' \in [Team -> Int] /\ step' \in [Team -> {"sample", "target"}]
  BY <1>1, <1>5, <1>2 DEF p
<1>14. PresignInv'
  BY <1>3, <1>5, <1>6, <1>10, <1>11, <1>12, <1>13 DEF PresignInv
<1>15. TargetsKept
  BY <1>6, <1>8, <1>9 DEF TargetsKept
<1> QED
  BY <1>14, <1>15

LEMMA PresignIdle == PresignInv /\ UNCHANGED vars => PresignInv' /\ TargetsKept
<1> SUFFICES ASSUME PresignInv, UNCHANGED vars PROVE PresignInv' /\ TargetsKept
  OBVIOUS
<1>1. UNCHANGED <<openmp, tokens, threads, cpus, t, step, s1, s2, target, draws>>
  BY DEF vars
<1>2. Size' = Size /\ Workers' = Workers /\ Sampled' = Sampled
      /\ \A j \in Workers : First(j)' = First(j) /\ After(j)' = After(j) /\ Mine(j)' = Mine(j)
  BY <1>1 DEF Size, Workers, soko_resolve_cpu_mt_threads, First, After, Chunk, Mine, Sampled
<1>3. \A j \in Workers : WorkerInv(j)'
  BY <1>1, <1>2 DEF PresignInv, WorkerInv
<1> QED
  BY <1>1, <1>2, <1>3 DEF PresignInv, TargetsKept

(* The invariant of the generation: of its chunk, each thread of the team  *)
(* has completed what is behind it and touched nothing before it           *)
(* (soko_cpu_backend.c, soko_cpumt_backend.c).                             *)
THEOREM PresignInvariant == SizesAssumption => (Spec => []PresignInv)
<1> SUFFICES ASSUME SizesAssumption PROVE Spec => []PresignInv
  OBVIOUS
<1>1. Init => PresignInv
  BY InitPresign
<1>2. PresignInv /\ [Next]_vars => PresignInv'
  BY SampleStep, TargetStep, PresignIdle DEF Next
<1> QED
  BY <1>1, <1>2, PTL DEF Spec

(* A token that is complete is not generated again, by its own thread or   *)
(* another: the chunks of a static schedule are apart                      *)
(* (soko_cpumt_backend.c).                                                 *)
THEOREM TargetsStay == SizesAssumption => (Spec => [][TargetsKept]_vars)
<1> SUFFICES ASSUME SizesAssumption PROVE Spec => [][TargetsKept]_vars
  OBVIOUS
<1>1. PresignInv /\ [Next]_vars => [TargetsKept]_vars
  BY SampleStep, TargetStep DEF Next
<1> QED
  BY <1>1, PresignInvariant, PTL DEF Spec

(* A call that returns has made every token and none beyond: the chunks    *)
(* cover the work, whatever the sizes of the batch and of the team.        *)
LEMMA PresignInvRight == SizesAssumption /\ PresignInv => PresignRight
<1> SUFFICES ASSUME SizesAssumption, PresignInv PROVE PresignRight
  OBVIOUS
<1>1. TypeOK
  <2>1. Sampled \in SUBSET Places
    BY DEF Sampled
  <2>2. draws \in Nat /\ draws <= 2 * MaxTokens /\ MaxTokens \in Nat
    BY <2>1, PlacesFinite DEF PresignInv, SizesAssumption
  <2>3. 1 .. draws \subseteq 1 .. 2 * MaxTokens
    BY <2>2
  <2>4. (1 .. draws) \X (1 .. draws) \subseteq {<<d, e>> : d, e \in 1 .. 2 * MaxTokens}
    BY <2>3
  <2>5. target \in [Places -> {Unset} \cup (1 .. draws) \X (1 .. draws)] /\ Size \in 1 .. MaxThreads
    BY DEF PresignInv
  <2> HIDE DEF PresignInv
  <2> QED
    BY <2>4, <2>5 DEF TypeOK
<1>2. TokensComplete
  <2> SUFFICES ASSUME Returned, NEW p \in Places
               PROVE  target[p] = IF p < tokens THEN <<s1[p], s2[p]>> ELSE Unset
    BY DEF TokensComplete
  <2>0. /\ Size \in 1 .. MaxThreads /\ tokens \in 0 .. MaxTokens /\ t \in [Team -> Int]
        /\ \A i \in Workers : WorkerInv(i)
        /\ \A q \in Places : q >= tokens => target[q] = Unset
    BY DEF PresignInv
  <2>1. CASE p < tokens
    <3>1. PICK i \in Workers : p \in Mine(i)
      BY <2>0, <2>1, MineCovers
    <3>2. p < After(i) /\ After(i) <= t[i]
      BY <2>0, <3>1 DEF Mine, Returned, Workers
    <3>3. After(i) \in Nat /\ p \in Int /\ t[i] \in Int
      BY <2>0, <3>1, ChunkBounds DEF Workers, Places, SizesAssumption
    <3>4. p < t[i]
      BY <3>2, <3>3
    <3> QED
      BY <2>0, <2>1, <3>1, <3>4 DEF WorkerInv
  <2>2. CASE ~(p < tokens)
    <3>1. p >= tokens
      BY <2>0, <2>2 DEF Places, SizesAssumption
    <3> QED
      BY <2>0, <2>2, <3>1
  <2> QED
    BY <2>1, <2>2
<1> QED
  BY <1>1, <1>2 DEF PresignRight

THEOREM AllTokensMade == SizesAssumption => (Spec => []PresignRight)
<1> SUFFICES ASSUME SizesAssumption PROVE Spec => []PresignRight
  OBVIOUS
<1>1. PresignInv => PresignRight
  BY PresignInvRight
<1> QED
  BY <1>1, PresignInvariant, PTL

-----------------------------------------------------------------------------
(* The verification batch, beside the generation.                          *)
CONSTANT MaxBatch
VARIABLES batch_count, verify_threads, valid, tmp_verify, verified, share, joined,
          phase, failures

Batch == INSTANCE VerifyBatch

LEMMA SameCardinality ==
  ASSUME NEW S PROVE Batch!Cardinality(S) = Cardinality(S)
BY DEF Batch!Cardinality, Cardinality

Sizes == batch_count \in Nat /\ verify_threads \in Nat \ {0}

(* The first item of a share, with the quotient and the remainder named.   *)
LEMMA FirstIs ==
  ASSUME Sizes
  PROVE  \E s \in Nat, m \in Nat :
           /\ m < verify_threads /\ verify_threads * s \in Nat
           /\ batch_count = verify_threads * s + m
           /\ \A u \in Nat : Batch!First(u) = u * s + (IF u < m THEN u ELSE m)
<1> DEFINE s == batch_count \div verify_threads
           m == batch_count % verify_threads
<1>1. /\ s \in Nat /\ m \in 0 .. verify_threads - 1 /\ verify_threads * s \in Nat
      /\ batch_count = verify_threads * s + m
  BY Quotient DEF Sizes
<1>2. \A u \in Nat : Batch!First(u) = u * s + (IF u < m THEN u ELSE m)
  BY DEF Batch!First
<1> HIDE DEF s, m
<1>3. m \in Nat /\ m < verify_threads
  BY <1>1 DEF Sizes
<1> QED
  BY <1>1, <1>2, <1>3

LEMMA FirstMono ==
  ASSUME Sizes, NEW u \in Nat, NEW v \in Nat, u <= v
  PROVE  /\ Batch!First(u) \in Nat /\ Batch!First(v) \in Nat
         /\ Batch!First(u) <= Batch!First(v)
         /\ Batch!First(verify_threads) = batch_count
<1>1. PICK s \in Nat, m \in Nat :
           /\ m < verify_threads /\ verify_threads * s \in Nat
           /\ batch_count = verify_threads * s + m
           /\ \A w \in Nat : Batch!First(w) = w * s + (IF w < m THEN w ELSE m)
  BY FirstIs
<1>2. u * s \in Nat /\ v * s \in Nat /\ u * s <= v * s
  BY TimesMono, SMT
<1>3. Batch!First(u) = u * s + (IF u < m THEN u ELSE m)
      /\ Batch!First(v) = v * s + (IF v < m THEN v ELSE m)
      /\ Batch!First(verify_threads)
           = verify_threads * s + (IF verify_threads < m THEN verify_threads ELSE m)
  BY <1>1 DEF Sizes
<1>4. verify_threads \in Nat /\ ~(verify_threads < m)
  BY <1>1 DEF Sizes
<1>5. Batch!First(verify_threads) = batch_count
  BY <1>1, <1>3, <1>4
<1>6. Batch!First(u) \in Nat /\ Batch!First(v) \in Nat /\ Batch!First(u) <= Batch!First(v)
  <2>1. CASE u < m /\ v < m
    BY <1>2, <1>3, <2>1
  <2>2. CASE u < m /\ ~(v < m)
    BY <1>2, <1>3, <2>2
  <2>3. CASE ~(u < m) /\ ~(v < m)
    BY <1>2, <1>3, <2>3
  <2> QED
    BY <2>1, <2>2, <2>3
<1> QED
  BY <1>5, <1>6

(* The shares of a static schedule are apart and cover the batch.          *)
LEMMA SharesApart ==
  ASSUME Sizes, NEW u \in Batch!Team, NEW v \in Batch!Team, u # v
  PROVE  Batch!Share(u) \cap Batch!Share(v) = {}
<1>1. ASSUME NEW a \in Nat, NEW b \in Nat, a < b
      PROVE  Batch!Share(a) \cap Batch!Share(b) = {}
  <2>1. /\ Batch!First(a + 1) \in Nat /\ Batch!First(b) \in Nat
        /\ Batch!First(a + 1) <= Batch!First(b)
    BY <1>1, FirstMono
  <2>2. Batch!First(a) \in Nat /\ Batch!First(b + 1) \in Nat
    BY <1>1, FirstMono
  <2> QED
    BY <2>1, <2>2 DEF Batch!Share
<1>2. u \in Nat /\ v \in Nat
  BY DEF Batch!Team, Sizes
<1>3. u < v \/ v < u
  BY <1>2
<1> QED
  BY <1>1, <1>2, <1>3

LEMMA SharesWithin ==
  ASSUME Sizes, NEW u \in Batch!Team
  PROVE  Batch!Share(u) \subseteq Batch!Items
<1>1. u \in Nat /\ u + 1 \in Nat /\ u + 1 <= verify_threads /\ verify_threads \in Nat
  BY DEF Batch!Team, Sizes
<1>2. Batch!First(u) \in Nat /\ Batch!First(u + 1) \in Nat /\ Batch!First(u + 1) <= batch_count
  BY <1>1, FirstMono
<1> QED
  BY <1>2 DEF Batch!Share, Batch!Items, Sizes

LEMMA SharesCover ==
  ASSUME Sizes, NEW i \in Batch!Items
  PROVE  \E u \in Batch!Team : i \in Batch!Share(u)
<1>1. PICK s \in Nat, m \in Nat :
           /\ m < verify_threads /\ verify_threads * s \in Nat
           /\ batch_count = verify_threads * s + m
           /\ \A w \in Nat : Batch!First(w) = w * s + (IF w < m THEN w ELSE m)
  BY FirstIs
<1>2. i \in Nat /\ i < batch_count /\ verify_threads \in Nat
  BY DEF Batch!Items, Sizes
<1>3. m * (s + 1) \in Nat /\ m * s \in Nat /\ m * (s + 1) = m * s + m
  BY SMT
<1>4. SUFFICES \E u \in Nat : u < verify_threads /\ Batch!First(u) <= i /\ i < Batch!First(u + 1)
  <2>1. PICK u \in Nat : u < verify_threads /\ Batch!First(u) <= i /\ i < Batch!First(u + 1)
    BY <1>4
  <2>2. u \in Batch!Team
    BY <1>2, <2>1 DEF Batch!Team
  <2>3. Batch!First(u) \in Nat /\ Batch!First(u + 1) \in Nat
    BY FirstMono
  <2>4. i \in Batch!Share(u)
    BY <1>2, <2>1, <2>3 DEF Batch!Share
  <2> QED
    BY <2>2, <2>4
<1>5. CASE i < m * (s + 1)
  <2> DEFINE u == i \div (s + 1)
  <2>1. u \in Nat /\ i % (s + 1) \in 0 .. s /\ (s + 1) * u \in Nat /\ i = (s + 1) * u + (i % (s + 1))
    <3>1. s + 1 \in Nat \ {0} /\ (s + 1) - 1 = s
      OBVIOUS
    <3> QED
      BY <1>2, <3>1, Quotient
  <2> HIDE DEF u
  <2>2. u < m
    <3> SUFFICES ASSUME m <= u PROVE FALSE
      BY <2>1
    <3>1. m * (s + 1) <= u * (s + 1) /\ u * (s + 1) = (s + 1) * u
      BY <2>1, TimesMono, Commutes
    <3> QED
      BY <1>2, <1>3, <1>5, <2>1, <3>1
  <2>3. u * s \in Nat /\ (u + 1) * s = u * s + s /\ (s + 1) * u = u * s + u
    BY <2>1, SMT
  <2>4. Batch!First(u) = u * s + u
    BY <1>1, <2>1, <2>2
  <2>5. Batch!First(u + 1) = (u + 1) * s + (u + 1)
    <3>1. Batch!First(u + 1) = (u + 1) * s + (IF u + 1 < m THEN u + 1 ELSE m)
      BY <1>1, <2>1
    <3>2. (IF u + 1 < m THEN u + 1 ELSE m) = u + 1
      BY <2>1, <2>2
    <3> QED
      BY <3>1, <3>2
  <2>6. Batch!First(u) <= i /\ i < Batch!First(u + 1)
    BY <1>2, <2>1, <2>3, <2>4, <2>5
  <2> QED
    BY <1>1, <1>2, <2>1, <2>2, <2>6
<1>6. CASE m * (s + 1) <= i
  <2> DEFINE j == i - m * (s + 1)
             q == j \div s
  <2>1. s # 0
    <3> SUFFICES ASSUME s = 0 PROVE FALSE
      OBVIOUS
    <3>1. verify_threads * s = 0 /\ m * s = 0
      BY <1>2
    <3> QED
      BY <1>1, <1>2, <1>3, <1>6, <3>1
  <2>2. j \in Nat
    BY <1>2, <1>3, <1>6
  <2>3. q \in Nat /\ j % s \in 0 .. s - 1 /\ s * q \in Nat /\ j = s * q + (j % s)
    BY <2>1, <2>2, Quotient
  <2>4. i = m * (s + 1) + j
    BY <1>2, <1>3
  <2> HIDE DEF q, j
  <2>5. q * s = s * q /\ (m + q) * s = m * s + q * s /\ (m + q + 1) * s = (m + q) * s + s
    BY <2>3, SMT
  <2>6. m + q < verify_threads
    <3> SUFFICES ASSUME verify_threads <= m + q PROVE FALSE
      BY <1>2, <2>3
    <3>1. verify_threads * s <= (m + q) * s
      BY <1>2, <2>3, TimesMono
    <3>2. s * q <= j
      BY <2>2, <2>3
    <3> DEFINE a == verify_threads * s
               b == m * s
               c == s * q
    <3>3. a \in Nat /\ b \in Nat /\ c \in Nat
      BY <1>1, <1>3, <2>3
    <3>4. batch_count = a + m /\ i = b + m + j /\ c <= j /\ a <= b + c
      BY <1>1, <1>3, <2>3, <2>4, <2>5, <3>1, <3>2
    <3> HIDE DEF a, b, c
    <3> QED
      BY <1>2, <2>2, <3>3, <3>4
  <2>7. Batch!First(m + q) = (m + q) * s + m /\ Batch!First(m + q + 1) = (m + q + 1) * s + m
    <3>1. Batch!First(m + q) = (m + q) * s + (IF m + q < m THEN m + q ELSE m)
      BY <1>1, <2>3
    <3>2. Batch!First(m + q + 1) = (m + q + 1) * s + (IF m + q + 1 < m THEN m + q + 1 ELSE m)
      BY <1>1, <2>3
    <3>3. ~(m + q < m) /\ ~(m + q + 1 < m)
      BY <2>3
    <3> QED
      BY <3>1, <3>2, <3>3
  <2>8. Batch!First(m + q) <= i /\ i < Batch!First(m + q + 1)
    BY <1>2, <1>3, <2>2, <2>3, <2>4, <2>5, <2>7
  <2> QED
    BY <2>3, <2>6, <2>8
<1> QED
  BY <1>2, <1>3, <1>5, <1>6

-----------------------------------------------------------------------------
LEMMA ItemsFinite ==
  ASSUME Sizes, NEW S \in SUBSET Batch!Items
  PROVE  IsFiniteSet(S) /\ Cardinality(S) \in Nat /\ Cardinality(S) <= batch_count
<1>1. IsFiniteSet(Batch!Items) /\ Cardinality(Batch!Items) = batch_count
  <2>1. /\ IsFiniteSet(0 .. batch_count - 1)
        /\ Cardinality(0 .. batch_count - 1)
             = IF 0 > batch_count - 1 THEN 0 ELSE batch_count - 1 - 0 + 1
    BY FS_Interval DEF Sizes
  <2> QED
    BY <2>1 DEF Batch!Items, Sizes
<1> QED
  BY <1>1, FS_Subset, FS_CardinalityType

LEMMA OneMore ==
  ASSUME Sizes, NEW S \in SUBSET Batch!Items, NEW i, i \notin S
  PROVE  Cardinality(S \cup {i}) = Cardinality(S) + 1
BY ItemsFinite, FS_AddElement

LEMMA OneShareMore ==
  ASSUME Sizes, NEW S \in SUBSET Batch!Items, NEW T \in SUBSET Batch!Items, S \cap T = {}
  PROVE  Cardinality(S \cup T) = Cardinality(S) + Cardinality(T)
<1>1. /\ IsFiniteSet(S) /\ IsFiniteSet(T)
      /\ Cardinality(S) \in Nat /\ Cardinality(T) \in Nat
  BY ItemsFinite
<1>2. Cardinality(S \cup T) = Cardinality(S) + Cardinality(T) - Cardinality({})
  BY <1>1, FS_Union
<1> QED
  BY <1>1, <1>2, FS_EmptySet

(* The parts of the invariant.                                             *)
States == {"none", "held", "missing", "freed"}

LEMMA BatchHas ==
  ASSUME Batch!VerifyBatchAssumption, Batch!VerifyBatchInv
  PROVE  /\ Sizes /\ batch_count \in 1 .. MaxBatch /\ verify_threads \in 1 .. MaxThreads
         /\ valid \subseteq Batch!Items /\ verified \subseteq Batch!Items
         /\ tmp_verify \in [Batch!Team -> States]
         /\ share \in [Batch!Team -> 0 .. batch_count] /\ failures \in Nat
         /\ joined \subseteq Batch!Team
         /\ \A u \in Batch!Team : Batch!ShareInv(u)
         /\ \A u \in joined : Batch!Ended(u)
BY DEF Batch!VerifyBatchAssumption, Batch!VerifyBatchInv, Batch!TypeOK, Sizes, States

(* The batch, the team and the shares are the same in every step.          *)
LEMMA SameShares ==
  ASSUME UNCHANGED <<batch_count, verify_threads>>
  PROVE  /\ Batch!Items' = Batch!Items /\ Batch!Team' = Batch!Team /\ Sizes' = Sizes
         /\ \A u : Batch!Share(u)' = Batch!Share(u)
BY DEF Batch!Items, Batch!Team, Batch!Share, Batch!First, Sizes

(* A step of thread u's part before it ends: what it has to show.          *)
LEMMA PartStep ==
  ASSUME Batch!VerifyBatchAssumption, Batch!VerifyBatchInv, NEW u \in Batch!Team,
         tmp_verify[u] \in {"none", "held"}, phase = "verify",
         UNCHANGED <<batch_count, verify_threads, valid, joined, phase, failures>>,
         verified' \subseteq Batch!Items, \A i \in verified' : i \in verified \/ i \in Batch!Share(u),
         verified \subseteq verified',
         tmp_verify' \in [Batch!Team -> States], share' \in [Batch!Team -> 0 .. batch_count],
         \A v \in Batch!Team : v # u => tmp_verify'[v] = tmp_verify[v] /\ share'[v] = share[v],
         Batch!ShareInv(u)'
  PROVE  Batch!VerifyBatchInv'
<1>1. /\ Sizes /\ joined \subseteq Batch!Team /\ failures \in Nat
      /\ \A v \in Batch!Team : Batch!ShareInv(v)
      /\ \A v \in joined : Batch!Ended(v)
      /\ valid \subseteq Batch!Items
  BY BatchHas
<1>2. /\ Batch!Items' = Batch!Items /\ Batch!Team' = Batch!Team
      /\ \A v : Batch!Share(v)' = Batch!Share(v)
  BY SameShares
<1>3. u \notin joined /\ \A v \in joined : tmp_verify'[v] = tmp_verify[v]
  BY <1>1 DEF Batch!Ended
<1>4. \A v \in Batch!Team : Batch!ShareInv(v)'
  <2> SUFFICES ASSUME NEW v \in Batch!Team, v # u PROVE Batch!ShareInv(v)'
    OBVIOUS
  <2>1. Batch!Share(u) \cap Batch!Share(v) = {}
    BY <1>1, SharesApart
  <2>2. verified' \cap Batch!Share(v) = verified \cap Batch!Share(v)
    BY <2>1
  <2>3. /\ tmp_verify'[v] = tmp_verify[v] /\ share'[v] = share[v] /\ Batch!Share(v)' = Batch!Share(v)
        /\ Batch!ShareInv(v) /\ valid' = valid
        /\ batch_count' = batch_count /\ verify_threads' = verify_threads
    BY <1>1, <1>2
  <2> QED
    BY <2>2, <2>3 DEF Batch!ShareInv
<1>5. \A v \in joined' : Batch!Ended(v)'
  BY <1>1, <1>3 DEF Batch!Ended
<1>6. Batch!Joined' = Batch!Joined
  BY <1>2 DEF Batch!Joined
<1>7. IF \A v \in joined' : tmp_verify'[v] = "freed" THEN failures' = Cardinality(Batch!Joined' \ valid')
      ELSE verify_threads' > 1 => failures' >= batch_count'
  <2>1. IF \A v \in joined : tmp_verify[v] = "freed" THEN failures = Cardinality(Batch!Joined \ valid)
        ELSE verify_threads > 1 => failures >= batch_count
    BY SameCardinality DEF Batch!VerifyBatchInv
  <2> QED
    BY <1>3, <1>6, <2>1
<1>8. Batch!TypeOK'
  BY <1>1, <1>2 DEF Batch!TypeOK, States
<1>9. phase' = "verify" /\ joined' \subseteq Batch!Team'
      /\ batch_count' \in 1 .. MaxBatch /\ verify_threads' \in 1 .. MaxThreads
  BY <1>1, <1>2, BatchHas
<1> QED
  BY <1>2, <1>4, <1>5, <1>7, <1>8, <1>9, SameCardinality DEF Batch!VerifyBatchInv

LEMMA AllocateStep ==
  ASSUME Batch!VerifyBatchAssumption, Batch!VerifyBatchInv, NEW u \in Batch!Team, Batch!Allocate(u)
  PROVE  Batch!VerifyBatchInv'
<1>1. /\ phase = "verify" /\ tmp_verify[u] = "none"
      /\ \/ tmp_verify' = [tmp_verify EXCEPT ![u] = "held"] /\ UNCHANGED share
         \/ tmp_verify' = [tmp_verify EXCEPT ![u] = "missing"] /\ Batch!Missed(u)
      /\ UNCHANGED <<batch_count, verify_threads, valid, verified, joined, phase, failures>>
  BY DEF Batch!Allocate
<1>2. /\ Sizes /\ verified \subseteq Batch!Items /\ tmp_verify \in [Batch!Team -> States]
      /\ share \in [Batch!Team -> 0 .. batch_count] /\ Batch!ShareInv(u)
  BY BatchHas
<1>3. share[u] = 0 /\ verified \cap Batch!Share(u) = {}
  BY <1>1, <1>2 DEF Batch!ShareInv
<1>4. Batch!Share(u)' = Batch!Share(u)
  BY <1>1, SameShares
<1>5. CASE tmp_verify' = [tmp_verify EXCEPT ![u] = "held"] /\ UNCHANGED share
  <2>1. tmp_verify'[u] = "held" /\ share'[u] = 0 /\ tmp_verify' \in [Batch!Team -> States]
    BY <1>2, <1>3, <1>5 DEF States
  <2>2. Cardinality((verified' \cap Batch!Share(u)') \ valid') = 0
    <3>1. (verified' \cap Batch!Share(u)') \ valid' = {}
      BY <1>1, <1>3, <1>4
    <3> QED
      BY <3>1, FS_EmptySet
  <2>3. Batch!ShareInv(u)'
    BY <2>1, <2>2, SameCardinality DEF Batch!ShareInv
  <2> QED
    BY <1>1, <1>2, <1>5, <2>1, <2>3, PartStep
<1>6. CASE tmp_verify' = [tmp_verify EXCEPT ![u] = "missing"] /\ Batch!Missed(u)
  <2>1. share' = [share EXCEPT ![u] = IF verify_threads > 1 THEN batch_count ELSE 0]
    BY <1>2, <1>3, <1>6 DEF Batch!Missed, Sizes
  <2>2. /\ tmp_verify'[u] = "missing" /\ share'[u] = IF verify_threads > 1 THEN batch_count ELSE 0
        /\ tmp_verify' \in [Batch!Team -> States] /\ share' \in [Batch!Team -> 0 .. batch_count]
    BY <1>2, <1>6, <2>1 DEF States, Sizes
  <2>3. Batch!ShareInv(u)'
    BY <1>1, <1>3, <1>4, <2>2 DEF Batch!ShareInv
  <2> QED
    BY <1>1, <1>2, <1>6, <2>1, <2>2, <2>3, PartStep
<1> QED
  BY <1>1, <1>5, <1>6

LEMMA VerifyStep ==
  ASSUME Batch!VerifyBatchAssumption, Batch!VerifyBatchInv, NEW u \in Batch!Team, Batch!Verify(u)
  PROVE  Batch!VerifyBatchInv'
<1>1. PICK i \in Batch!Share(u) \ verified :
        /\ verified' = verified \cup {i}
        /\ share' = [share EXCEPT ![u] = IF Batch!Refused(i) THEN share[u] + 1 ELSE share[u]]
  BY DEF Batch!Verify
<1>2. /\ phase = "verify" /\ tmp_verify[u] = "held"
      /\ UNCHANGED <<batch_count, verify_threads, valid, tmp_verify, joined, phase, failures>>
  BY DEF Batch!Verify
<1>3. /\ Sizes /\ verified \subseteq Batch!Items /\ tmp_verify \in [Batch!Team -> States]
      /\ share \in [Batch!Team -> 0 .. batch_count] /\ Batch!ShareInv(u)
  BY BatchHas
<1>4. Batch!Share(u)' = Batch!Share(u) /\ Batch!Share(u) \subseteq Batch!Items
  BY <1>2, <1>3, SameShares, SharesWithin
<1> DEFINE Mine0 == (verified \cap Batch!Share(u)) \ valid
           Mine1 == (verified' \cap Batch!Share(u)) \ valid
<1>5. share[u] = Cardinality(Mine0)
  BY <1>2, <1>3, SameCardinality DEF Batch!ShareInv
<1>6. Mine0 \in SUBSET Batch!Items /\ Mine1 \in SUBSET Batch!Items
  BY <1>4
<1>7. share'[u] = Cardinality(Mine1)
  <2>1. CASE i \in valid
    <3>1. Mine1 = Mine0
      BY <1>1, <2>1
    <3> QED
      BY <1>1, <1>3, <1>5, <2>1, <3>1 DEF Batch!Refused
  <2>2. CASE i \notin valid
    <3>1. Mine1 = Mine0 \cup {i} /\ i \notin Mine0
      BY <1>1, <2>2
    <3> HIDE DEF Mine0, Mine1
    <3>2. Cardinality(Mine1) = Cardinality(Mine0) + 1
      BY <1>3, <1>6, <3>1, OneMore
    <3> QED
      BY <1>1, <1>3, <1>5, <2>2, <3>2 DEF Batch!Refused
  <2> QED
    BY <2>1, <2>2
<1>8. share' \in [Batch!Team -> 0 .. batch_count]
  <2>1. share'[u] \in 0 .. batch_count
    BY <1>3, <1>6, <1>7, ItemsFinite DEF Sizes
  <2>2. share' = [share EXCEPT ![u] = share'[u]]
    BY <1>1, <1>3
  <2> QED
    BY <1>3, <2>1, <2>2
<1>9. Batch!ShareInv(u)'
  BY <1>2, <1>4, <1>7, SameCardinality DEF Batch!ShareInv
<1>10. /\ verified' \subseteq Batch!Items /\ verified \subseteq verified'
       /\ \A k \in verified' : k \in verified \/ k \in Batch!Share(u)
       /\ \A v \in Batch!Team : v # u => share'[v] = share[v]
  BY <1>1, <1>3, <1>4
<1> QED
  BY <1>2, <1>3, <1>8, <1>9, <1>10, PartStep

LEMMA FreeStep ==
  ASSUME Batch!VerifyBatchAssumption, Batch!VerifyBatchInv, NEW u \in Batch!Team, Batch!Free(u)
  PROVE  Batch!VerifyBatchInv'
<1>1. /\ phase = "verify" /\ tmp_verify[u] = "held" /\ Batch!Share(u) \subseteq verified
      /\ tmp_verify' = [tmp_verify EXCEPT ![u] = "freed"]
      /\ UNCHANGED <<batch_count, verify_threads, valid, verified, share, joined, phase, failures>>
  BY DEF Batch!Free
<1>2. /\ Sizes /\ verified \subseteq Batch!Items /\ tmp_verify \in [Batch!Team -> States]
      /\ share \in [Batch!Team -> 0 .. batch_count] /\ Batch!ShareInv(u)
  BY BatchHas
<1>3. Batch!Share(u)' = Batch!Share(u)
  BY <1>1, SameShares
<1>4. tmp_verify'[u] = "freed" /\ tmp_verify' \in [Batch!Team -> States]
  BY <1>1, <1>2 DEF States
<1>5. share[u] = Cardinality((verified \cap Batch!Share(u)) \ valid)
  BY <1>1, <1>2, SameCardinality DEF Batch!ShareInv
<1>6. Batch!ShareInv(u)'
  BY <1>1, <1>3, <1>4, <1>5, SameCardinality DEF Batch!ShareInv
<1> QED
  BY <1>1, <1>2, <1>4, <1>6, PartStep

(* The sum of a thread that joins: its share was not in the sum before.    *)
LEMMA ReduceStep ==
  ASSUME Batch!VerifyBatchAssumption, Batch!VerifyBatchInv, NEW u \in Batch!Team, Batch!Reduce(u)
  PROVE  Batch!VerifyBatchInv'
<1>1. /\ phase = "verify" /\ Batch!Ended(u) /\ u \notin joined
      /\ joined' = joined \cup {u} /\ failures' = failures + share[u]
      /\ UNCHANGED <<batch_count, verify_threads, valid, tmp_verify, verified, share, phase>>
  BY DEF Batch!Reduce
<1>2. /\ Sizes /\ valid \subseteq Batch!Items /\ verified \subseteq Batch!Items
      /\ share \in [Batch!Team -> 0 .. batch_count] /\ failures \in Nat
      /\ joined \subseteq Batch!Team
      /\ batch_count \in 1 .. MaxBatch /\ verify_threads \in 1 .. MaxThreads
      /\ \A v \in Batch!Team : Batch!ShareInv(v)
      /\ \A v \in joined : Batch!Ended(v)
  BY BatchHas
<1>3. /\ Batch!Items' = Batch!Items /\ Batch!Team' = Batch!Team
      /\ \A v : Batch!Share(v)' = Batch!Share(v)
  BY <1>1, SameShares
<1>4. IF \A v \in joined : tmp_verify[v] = "freed" THEN failures = Cardinality(Batch!Joined \ valid)
      ELSE verify_threads > 1 => failures >= batch_count
  BY SameCardinality DEF Batch!VerifyBatchInv
<1>5. share[u] \in Nat /\ failures' \in Nat /\ failures' >= failures
  BY <1>1, <1>2 DEF Sizes
<1>6. IF \A v \in joined' : tmp_verify'[v] = "freed" THEN failures' = Cardinality(Batch!Joined' \ valid')
      ELSE verify_threads' > 1 => failures' >= batch_count'
  <2>1. CASE \A v \in joined' : tmp_verify[v] = "freed"
    <3>1. failures = Cardinality(Batch!Joined \ valid) /\ tmp_verify[u] = "freed"
      BY <1>1, <1>4, <2>1
    <3>2. Batch!Share(u) \subseteq verified /\ Batch!Share(u) \subseteq Batch!Items
      BY <1>2, <3>1, SharesWithin DEF Batch!ShareInv
    <3>3. share[u] = Cardinality(Batch!Share(u) \ valid)
      <4>1. share[u] = Cardinality((verified \cap Batch!Share(u)) \ valid)
        BY <1>2, <3>1, SameCardinality DEF Batch!ShareInv
      <4>2. verified \cap Batch!Share(u) = Batch!Share(u)
        BY <3>2
      <4> QED
        BY <4>1, <4>2
    <3>4. Batch!Joined' = Batch!Joined \cup Batch!Share(u)
      BY <1>1, <1>3, <3>2 DEF Batch!Joined
    <3>5. Batch!Joined \cap Batch!Share(u) = {}
      BY <1>1, <1>2, SharesApart DEF Batch!Joined
    <3> DEFINE A == Batch!Joined \ valid
               B == Batch!Share(u) \ valid
    <3>6. A \in SUBSET Batch!Items /\ B \in SUBSET Batch!Items /\ A \cap B = {}
      BY <3>2, <3>5 DEF Batch!Joined
    <3>7. Cardinality(A \cup B) = Cardinality(A) + Cardinality(B)
      BY <1>2, <3>6, OneShareMore
    <3>8. Batch!Joined' \ valid' = A \cup B
      BY <1>1, <3>4
    <3> QED
      BY <1>1, <2>1, <3>1, <3>3, <3>7, <3>8
  <2>2. CASE ~(\A v \in joined' : tmp_verify[v] = "freed") /\ verify_threads > 1
    <3>1. CASE \A v \in joined : tmp_verify[v] = "freed"
      <4>1. tmp_verify[u] = "missing"
        BY <1>1, <2>2, <3>1 DEF Batch!Ended
      <4>2. share[u] = batch_count
        BY <1>2, <2>2, <4>1 DEF Batch!ShareInv
      <4> QED
        BY <1>1, <1>2, <2>2, <4>2 DEF Sizes
    <3>2. CASE ~(\A v \in joined : tmp_verify[v] = "freed")
      <4>1. failures >= batch_count
        BY <1>4, <2>2, <3>2
      <4> QED
        BY <1>1, <1>2, <1>5, <2>2, <4>1 DEF Sizes
    <3> QED
      BY <3>1, <3>2
  <2> QED
    BY <1>1, <2>1, <2>2
<1>7. \A v \in Batch!Team : Batch!ShareInv(v)'
  BY <1>1, <1>2, <1>3, SameCardinality DEF Batch!ShareInv
<1>8. Batch!TypeOK'
  BY <1>1, <1>3, <1>5 DEF Batch!VerifyBatchInv, Batch!TypeOK
<1>9. \A v \in joined' : Batch!Ended(v)'
  BY <1>1, <1>2 DEF Batch!Ended
<1>10. joined' \subseteq Batch!Team' /\ phase' = "verify"
  BY <1>1, <1>2, <1>3
<1> QED
  BY <1>1, <1>2, <1>3, <1>6, <1>7, <1>8, <1>9, <1>10, SameCardinality DEF Batch!VerifyBatchInv

(* The end, reached or not, leaves all sums as they are.                   *)
LEMMA EndStep ==
  ASSUME Batch!VerifyBatchAssumption, Batch!VerifyBatchInv,
         Batch!Join \/ Batch!Hang \/ UNCHANGED Batch!vars
  PROVE  Batch!VerifyBatchInv'
<1>1. /\ UNCHANGED <<batch_count, verify_threads, valid, tmp_verify, verified, share, joined, failures>>
      /\ \/ phase' = phase
         \/ /\ phase' \in {"printed", "cleanup", "hung"} /\ \A u \in Batch!Team : Batch!Ended(u)
            /\ phase' = "printed" => joined = Batch!Team /\ (Batch!AllHeld \/ verify_threads > 1)
  BY DEF Batch!Join, Batch!Hang, Batch!vars, Batch!VerifyBatchInv
<1>2. /\ Batch!Items' = Batch!Items /\ Batch!Team' = Batch!Team
      /\ \A v : Batch!Share(v)' = Batch!Share(v)
  BY <1>1, SameShares
<1>3. \A v \in Batch!Team : Batch!ShareInv(v)'
  BY <1>1, <1>2, SameCardinality DEF Batch!VerifyBatchInv, Batch!ShareInv
<1>4. Batch!TypeOK'
  BY <1>1, <1>2 DEF Batch!VerifyBatchInv, Batch!TypeOK, Batch!Ended
<1>5. Batch!Joined' = Batch!Joined /\ Batch!AllHeld' = Batch!AllHeld
  BY <1>1, <1>2 DEF Batch!Joined, Batch!AllHeld
<1>6. \A v \in joined' : Batch!Ended(v)'
  BY <1>1 DEF Batch!VerifyBatchInv, Batch!Ended
<1> QED
  BY <1>1, <1>2, <1>3, <1>4, <1>5, <1>6 DEF Batch!VerifyBatchInv

LEMMA InitBatch == Batch!VerifyBatchAssumption /\ Batch!Init => Batch!VerifyBatchInv
<1> SUFFICES ASSUME Batch!VerifyBatchAssumption, Batch!Init PROVE Batch!VerifyBatchInv
  OBVIOUS
<1>1. /\ batch_count \in 1 .. MaxBatch /\ verify_threads \in 1 .. MaxThreads
      /\ valid \in SUBSET Batch!Items
      /\ tmp_verify = [u \in Batch!Team |-> "none"] /\ share = [u \in Batch!Team |-> 0]
      /\ verified = {} /\ joined = {} /\ phase = "verify" /\ failures = 0
  BY DEF Batch!Init, Batch!resolve_verify_threads, Batch!VerifyBatchAssumption
<1>2. Batch!TypeOK
  BY <1>1 DEF Batch!TypeOK, Batch!VerifyBatchAssumption
<1>3. \A u \in Batch!Team : Batch!ShareInv(u)
  BY <1>1 DEF Batch!ShareInv
<1>4. failures = Batch!Cardinality(Batch!Joined \ valid)
  <2>1. Batch!Joined \ valid = {}
    BY <1>1 DEF Batch!Joined
  <2> QED
    BY <1>1, <2>1, FS_EmptySet, SameCardinality
<1> QED
  BY <1>1, <1>2, <1>3, <1>4 DEF Batch!VerifyBatchInv

(* The invariant of the batch: the private sum of each thread is that of   *)
(* the refused items of its share it looked at, and the reduced sum that   *)
(* of the joined threads (benchmark_verify_batch_mt, bench_cert_falcon.c). *)
THEOREM BatchInvariant ==
  Batch!VerifyBatchAssumption => (Batch!Spec => []Batch!VerifyBatchInv)
<1> SUFFICES ASSUME Batch!VerifyBatchAssumption PROVE Batch!Spec => []Batch!VerifyBatchInv
  OBVIOUS
<1>1. Batch!Init => Batch!VerifyBatchInv
  BY InitBatch
<1>2. Batch!VerifyBatchInv /\ [Batch!Next]_(Batch!vars) => Batch!VerifyBatchInv'
  BY AllocateStep, VerifyStep, FreeStep, ReduceStep, EndStep DEF Batch!Next
<1> QED
  BY <1>1, <1>2, PTL DEF Batch!Spec

LEMMA BatchInvRight ==
  Batch!VerifyBatchAssumption /\ Batch!VerifyBatchInv => Batch!VerifyBatchRight
<1> SUFFICES ASSUME Batch!VerifyBatchAssumption, Batch!VerifyBatchInv PROVE Batch!VerifyBatchRight
  OBVIOUS
<1>1. /\ Sizes /\ valid \subseteq Batch!Items /\ verified \subseteq Batch!Items
      /\ batch_count \in 1 .. MaxBatch
      /\ \A u \in Batch!Team : Batch!ShareInv(u)
      /\ \A u \in joined : Batch!Ended(u)
  BY BatchHas
<1>2. IF \A u \in joined : tmp_verify[u] = "freed" THEN failures = Cardinality(Batch!Joined \ valid)
      ELSE verify_threads > 1 => failures >= batch_count
  BY SameCardinality DEF Batch!VerifyBatchInv
<1>3. ASSUME phase = "printed", Batch!AllHeld
      PROVE  failures = Cardinality(Batch!Items \ valid) /\ verified = Batch!Items
  <2>1. joined = Batch!Team
    BY <1>3 DEF Batch!VerifyBatchInv
  <2>2. \A u \in joined : tmp_verify[u] = "freed"
    BY <1>1, <1>3, <2>1 DEF Batch!AllHeld, Batch!Ended
  <2>3. Batch!Joined = Batch!Items
    BY <1>1, <2>1, SharesCover DEF Batch!Joined
  <2>4. \A u \in Batch!Team : Batch!Share(u) \subseteq verified
    BY <1>1, <2>1, <2>2 DEF Batch!ShareInv
  <2>5. Batch!Items \subseteq verified
    BY <1>1, <2>4, SharesCover
  <2> QED
    BY <1>1, <1>2, <2>2, <2>3, <2>5
<1>4. ASSUME phase = "printed", failures = 0
      PROVE  verified = Batch!Items /\ Batch!Items \subseteq valid
  <2>1. joined = Batch!Team /\ (Batch!AllHeld \/ verify_threads > 1)
    BY <1>4 DEF Batch!VerifyBatchInv
  <2>2. Batch!AllHeld
    <3> SUFFICES ASSUME verify_threads > 1 PROVE Batch!AllHeld
      BY <2>1
    <3>1. \A u \in joined : tmp_verify[u] = "freed"
      BY <1>1, <1>2, <1>4
    <3> QED
      BY <2>1, <3>1 DEF Batch!AllHeld
  <2>3. Cardinality(Batch!Items \ valid) = 0 /\ verified = Batch!Items
    BY <1>3, <1>4, <2>2
  <2>4. IsFiniteSet(Batch!Items \ valid)
    BY <1>1, ItemsFinite
  <2>5. Batch!Items \ valid = {}
    BY <2>3, <2>4, FS_EmptySet
  <2> QED
    BY <2>3, <2>5
<1>5. Batch!ZeroMeansAllVerified /\ Batch!FailuresExact
  BY <1>3, <1>4, SameCardinality DEF Batch!ZeroMeansAllVerified, Batch!FailuresExact
<1> QED
  BY <1>5 DEF Batch!VerifyBatchRight, Batch!VerifyBatchInv

(* A report of no failures is true even if a thread had no workspace, and  *)
(* with a workspace for every thread the report is exact, whatever the     *)
(* order in which the threads verify and are reduced (bench_cert_falcon.c).*)
THEOREM ReportTrue ==
  Batch!VerifyBatchAssumption => (Batch!Spec => []Batch!VerifyBatchRight)
<1> SUFFICES ASSUME Batch!VerifyBatchAssumption PROVE Batch!Spec => []Batch!VerifyBatchRight
  OBVIOUS
<1>1. Batch!VerifyBatchInv => Batch!VerifyBatchRight
  BY BatchInvRight
<1> QED
  BY <1>1, BatchInvariant, PTL

-----------------------------------------------------------------------------
(* The key that the threads sign under, and what each of them signs.       *)
CONSTANTS Threads, Tokens, Messages, MaxSigns, Null
VARIABLES heap, shared, material, key_phase, code, local, pc, msg, token, signs,
          key_target, result

Key == INSTANCE KeyState WITH phase <- key_phase, target <- key_target


SharedBlocks == {Key!Block("shared", b) : b \in Key!Buffers}
SignerBlocks(w) == {Key!Block(w, b) : b \in Key!LocalBuffers}
Signers(loc) == {w \in Threads : loc[w] # Key!NoLocal}
Pointed(sh, loc) == {sh[b] : b \in Key!Buffers} \cup {loc[w][b] : w \in Threads, b \in Key!LocalBuffers}

(* What is pointed at: the buffers of the key, once it is ready, and those *)
(* of every signer.                                                        *)
LEMMA PointedAt ==
  ASSUME Key!KeyStateAssumption,
         NEW sh, NEW loc, NEW ph, sh = IF ph = "ready" THEN Key!AllShared ELSE Key!NoShared,
         \A w \in Threads : loc[w] = Key!NoLocal \/
           (loc[w].sig_buf = Key!Block(w, "sig_buf") /\ loc[w].tmp_sign = Key!Block(w, "tmp_sign"))
  PROVE  Pointed(sh, loc) \ {Null}
         = (IF ph = "ready" THEN SharedBlocks ELSE {}) \cup UNION {SignerBlocks(w) : w \in Signers(loc)}
<1> DEFINE Shared == {sh[b] : b \in Key!Buffers}
           Own == {loc[w][b] : w \in Threads, b \in Key!LocalBuffers}
<1>1. Shared \ {Null} = IF ph = "ready" THEN SharedBlocks ELSE {}
  <2>1. CASE ph = "ready"
    <3>1. \A b \in Key!Buffers : sh[b] = Key!Block("shared", b) /\ Key!Block("shared", b) # Null
      BY <2>1 DEF Key!AllShared, Key!KeyStateAssumption
    <3> QED
      BY <2>1, <3>1 DEF SharedBlocks
  <2>2. CASE ph # "ready"
    <3>1. \A b \in Key!Buffers : sh[b] = Null
      BY <2>2 DEF Key!NoShared
    <3> QED
      BY <2>2, <3>1
  <2> QED
    BY <2>1, <2>2
<1>2. Own \ {Null} = UNION {SignerBlocks(w) : w \in Signers(loc)}
  <2>1. \A w \in Threads, b \in Key!LocalBuffers :
          loc[w][b] = IF w \in Signers(loc) THEN Key!Block(w, b) ELSE Null
    BY DEF Signers, Key!LocalBuffers, Key!NoLocal
  <2>2. \A w \in Threads, b \in Key!LocalBuffers : Key!Block(w, b) # Null
    BY DEF Key!KeyStateAssumption
  <2>3. Signers(loc) \subseteq Threads
    BY DEF Signers
  <2>4. ASSUME NEW x PROVE x \in Own \ {Null} <=> \E w \in Signers(loc) : x \in SignerBlocks(w)
    BY <2>1, <2>2, <2>3 DEF SignerBlocks
  <2> QED
    BY <2>4
<1>3. Pointed(sh, loc) = Shared \cup Own
  BY DEF Pointed
<1> HIDE DEF Shared, Own
<1>4. (Shared \cup Own) \ {Null} = (Shared \ {Null}) \cup (Own \ {Null})
  OBVIOUS
<1> QED
  BY <1>1, <1>2, <1>3, <1>4

(* Each owner's blocks are blocks.                                         *)
LEMMA OwnBlocks ==
  ASSUME NEW w \in {"shared"} \cup Threads, NEW S \in SUBSET (Key!Buffers \cup Key!LocalBuffers)
  PROVE  {Key!Block(w, b) : b \in S} \subseteq Key!Blocks
<1>1. \A b \in S : \E o \in {"shared"} \cup Threads, c \in Key!Buffers \cup Key!LocalBuffers :
        Key!Block(w, b) = Key!Block(o, c)
  OBVIOUS
<1> QED
  BY <1>1 DEF Key!Blocks

(* What is pointed at before and after a step.                         *)
LEMMA PointersAre ==
  ASSUME Key!KeyStateAssumption, Key!KeyInv, \A w \in Threads : local[w] = Key!NoLocal \/ Key!Holds(w)
  PROVE  Key!Pointers \ {Null} = (IF key_phase = "ready" THEN SharedBlocks ELSE {})
                             \cup UNION {SignerBlocks(w) : w \in Signers(local)}
<1>1. Key!Pointers = Pointed(shared, local)
  BY DEF Key!Pointers, Pointed
<1>2. shared = IF key_phase = "ready" THEN Key!AllShared ELSE Key!NoShared
  BY DEF Key!KeyInv
<1>3. \A w \in Threads : local[w] = Key!NoLocal \/
        (local[w].sig_buf = Key!Block(w, "sig_buf") /\ local[w].tmp_sign = Key!Block(w, "tmp_sign"))
  BY DEF Key!Holds
<1> QED
  BY <1>1, <1>2, <1>3, PointedAt

LEMMA PointersAreAfter ==
  ASSUME Key!KeyStateAssumption, Key!KeyInv', \A w \in Threads : local'[w] = Key!NoLocal \/ Key!Holds(w)'
  PROVE  (Key!Pointers \ {Null})' = (IF key_phase' = "ready" THEN SharedBlocks ELSE {})
                                \cup UNION {SignerBlocks(w) : w \in Signers(local')}
<1>1. Key!Pointers' = Pointed(shared', local')
  BY DEF Key!Pointers, Pointed
<1>2. shared' = IF key_phase' = "ready" THEN Key!AllShared ELSE Key!NoShared
  BY DEF Key!KeyInv
<1>3. \A w \in Threads : local'[w] = Key!NoLocal \/
        (local'[w].sig_buf = Key!Block(w, "sig_buf") /\ local'[w].tmp_sign = Key!Block(w, "tmp_sign"))
  BY DEF Key!Holds
<1> QED
  BY <1>1, <1>2, <1>3, PointedAt

(* Before there is a key nothing is allocated.                             *)
LEMMA NothingYet ==
  ASSUME Key!KeyStateAssumption, Key!KeyStateInv, key_phase # "ready"
  PROVE  heap = {} /\ \A w \in Threads : local[w] = Key!NoLocal /\ pc[w] = "idle"
<1>1. \A w \in Threads : local[w] = Key!NoLocal /\ pc[w] = "idle"
  BY DEF Key!KeyStateInv, Key!SignerInv
<1>2. Signers(local) = {}
  BY <1>1 DEF Signers
<1>3. heap = {} \cup UNION {SignerBlocks(w) : w \in {}}
  BY <1>1, <1>2, PointersAre DEF Key!KeyStateInv, Key!NothingLost
<1> QED
  BY <1>1, <1>3

LEMMA InitKeyState == Key!KeyStateAssumption /\ Key!Init => Key!KeyStateInv
<1> SUFFICES ASSUME Key!KeyStateAssumption, Key!Init PROVE Key!KeyStateInv
  OBVIOUS
<1> USE DEF Key!Init
<1>1. Key!KeyInv
  BY DEF Key!KeyInv
<1>2. \A w \in Threads : local[w] = Key!NoLocal /\ pc[w] = "idle" /\ result[w] = Null /\ signs[w] = 0
  OBVIOUS
<1>3. Signers(local) = {}
  BY <1>2 DEF Signers
<1>4. Key!NothingLost
  <2>1. Key!Pointers \ {Null} = {} \cup UNION {SignerBlocks(w) : w \in {}}
    BY <1>1, <1>2, <1>3, PointersAre
  <2> QED
    BY <2>1 DEF Key!NothingLost
<1>5. Key!NoLocal \in Key!SignerState
  BY DEF Key!NoLocal, Key!SignerState
<1>6. Key!TypeOK
  BY <1>2 DEF Key!TypeOK, Key!KeyStateAssumption
<1>7. local \in [Threads -> Key!SignerState]
  BY <1>5
<1>8. \A w \in Threads : Key!SignerInv(w)
  BY <1>2 DEF Key!SignerInv
<1>9. /\ pc \in [Threads -> {"idle", "hash", "copy", "sign", "encode"}]
      /\ msg \in [Threads -> {Null} \cup Messages] /\ token \in [Threads -> {Null} \cup Tokens]
      /\ result \in [Threads -> {Null} \cup [hm : Messages, by : Tokens]]
      /\ key_target \in [Tokens -> Tokens] /\ signs \in [Threads -> 0 .. MaxSigns]
  BY DEF Key!KeyStateAssumption
<1>10. Key!TokenIntact /\ Key!OwnSignature
  BY DEF Key!TokenIntact, Key!OwnSignature
<1> QED
  BY <1>1, <1>4, <1>6, <1>7, <1>8, <1>9, <1>10 DEF Key!KeyStateInv

(* Steps on the key alone leave every signer as it is.                     *)
LEMMA SignersLeft ==
  ASSUME Key!KeyStateInv, UNCHANGED <<local, Key!signVars>>,
         key_phase' = key_phase \/ \A w \in Threads : local[w] = Key!NoLocal
  PROVE  /\ Key!TokenIntact' /\ Key!OwnSignature' /\ \A w \in Threads : Key!SignerInv(w)'
         /\ local' \in [Threads -> Key!SignerState]
         /\ pc' \in [Threads -> {"idle", "hash", "copy", "sign", "encode"}]
         /\ msg' \in [Threads -> {Null} \cup Messages] /\ token' \in [Threads -> {Null} \cup Tokens]
         /\ result' \in [Threads -> {Null} \cup [hm : Messages, by : Tokens]]
         /\ key_target' \in [Tokens -> Tokens] /\ signs' \in [Threads -> 0 .. MaxSigns]
         /\ \A w \in Threads : /\ signs'[w] \in 0 .. MaxSigns
                               /\ pc'[w] \in {"idle", "hash", "copy", "sign", "encode"}
                               /\ result'[w] \in [hm : Messages, by : Tokens] \cup {Null}
<1>1. UNCHANGED <<pc, msg, token, signs, key_target, result, local>>
  BY DEF Key!signVars
<1>2. \A w \in Threads : Key!SignerInv(w)'
  BY <1>1 DEF Key!KeyStateInv, Key!SignerInv, Key!Holds
<1> QED
  BY <1>1, <1>2 DEF Key!KeyStateInv, Key!TypeOK, Key!TokenIntact, Key!OwnSignature

(* Memory runs out, the key is prepared or is destroyed: what the failed   *)
(* preparation allocated is freed, and so is all that the key held.        *)
LEMMA KeyStep ==
  ASSUME Key!KeyStateAssumption, Key!KeyStateInv,
         Key!OutOfMemory \/ Key!soko_prepare_falcon_key_state \/ Key!soko_destroy_falcon_key_state
  PROVE  Key!KeyStateInv'
<1>0. /\ UNCHANGED <<local, Key!signVars>>
      /\ \A w \in Threads : local[w] = Key!NoLocal
  BY NothingYet DEF Key!OutOfMemory, Key!soko_prepare_falcon_key_state, Key!soko_destroy_falcon_key_state
<1>1. Key!KeyInv' /\ key_phase' \in {"none", "ready", "exited"} /\ code' \in -7 .. 0
  <2>1. CASE Key!OutOfMemory
    BY <2>1 DEF Key!OutOfMemory, Key!KeyStateInv, Key!KeyInv, Key!TypeOK
  <2>2. CASE Key!soko_prepare_falcon_key_state
    BY <2>2 DEF Key!soko_prepare_falcon_key_state, Key!soko_prepare_falcon_key_material, Key!KeyInv,
                Key!AllShared, Key!StagesBefore, Key!KeyStateInv, Key!TypeOK
  <2>3. CASE Key!soko_destroy_falcon_key_state
    BY <2>3 DEF Key!soko_destroy_falcon_key_state, Key!KeyStateInv, Key!KeyInv, Key!TypeOK
  <2> QED
    BY <2>1, <2>2, <2>3
<1>2. heap' = IF key_phase' = "ready" THEN SharedBlocks ELSE {}
  <2>0. Signers(local) = {}
    BY <1>0 DEF Signers
  <2>1. heap = (IF key_phase = "ready" THEN SharedBlocks ELSE {}) \cup UNION {SignerBlocks(w) : w \in {}}
    BY <1>0, <2>0, PointersAre DEF Key!KeyStateInv, Key!NothingLost
  <2>2. CASE Key!OutOfMemory
    BY <2>1, <2>2 DEF Key!OutOfMemory
  <2>3. CASE Key!soko_prepare_falcon_key_state
    <3>1. heap = {}
      BY <2>1, <2>3 DEF Key!soko_prepare_falcon_key_state
    <3>2. PICK allocated : /\ allocated = [b \in Key!Buffers |-> Key!Block("shared", b)]
                           /\ \/ key_phase' = "ready" /\ heap' = heap \cup {allocated[b] : b \in Key!Buffers}
                              \/ /\ key_phase' = key_phase
                                 /\ heap' = (heap \cup {allocated[b] : b \in Key!Buffers})
                                            \ Key!FreedOnFailure(allocated)
      BY <2>3 DEF Key!soko_prepare_falcon_key_state
    <3>3. {allocated[b] : b \in Key!Buffers} = SharedBlocks
      BY <3>2 DEF SharedBlocks
    <3>4. Key!FreedOnFailure(allocated) = SharedBlocks \ {Null}
      BY <3>3 DEF Key!FreedOnFailure
    <3>5. Null \notin SharedBlocks
      BY DEF SharedBlocks, Key!KeyStateAssumption
    <3>6. key_phase # "ready"
      BY <2>3 DEF Key!soko_prepare_falcon_key_state
    <3> QED
      BY <3>1, <3>2, <3>3, <3>4, <3>5, <3>6
  <2>4. CASE Key!soko_destroy_falcon_key_state
    <3>1. {shared[b] : b \in Key!Buffers} = SharedBlocks
      BY <2>4 DEF Key!soko_destroy_falcon_key_state, Key!KeyStateInv, Key!KeyInv, Key!AllShared,
                  SharedBlocks
    <3> QED
      BY <2>1, <2>4, <3>1 DEF Key!soko_destroy_falcon_key_state
  <2> QED
    BY <2>2, <2>3, <2>4
<1>3. Key!NothingLost'
  <2>1. Signers(local') = {} /\ \A w \in Threads : local'[w] = Key!NoLocal
    BY <1>0 DEF Signers
  <2>2. (Key!Pointers \ {Null})' = (IF key_phase' = "ready" THEN SharedBlocks ELSE {})
                               \cup UNION {SignerBlocks(w) : w \in {}}
    BY <1>1, <2>1, PointersAreAfter
  <2> QED
    BY <1>2, <2>2 DEF Key!NothingLost
<1>4. heap' \subseteq Key!Blocks
  BY <1>2, OwnBlocks DEF SharedBlocks
<1> QED
  BY <1>0, <1>1, <1>3, <1>4, SignersLeft DEF Key!KeyStateInv, Key!TypeOK

-----------------------------------------------------------------------------
(* What the initialisation and the release of the buffers of a signer do   *)
(* not touch.                                                              *)
LEMMA SigningLeft ==
  ASSUME Key!KeyStateInv, NEW w \in Threads,
         UNCHANGED <<shared, material, key_phase, code, Key!signVars>>,
         local' \in [Threads -> Key!SignerState],
         \A u \in Threads : u # w => local'[u] = local[u],
         pc[w] = "idle",
         local'[w] = Key!NoLocal \/ (Key!Holds(w)' /\ key_phase = "ready"),
         Key!NothingLost',
         heap' \subseteq Key!Blocks
  PROVE  Key!KeyStateInv'
<1>1. UNCHANGED <<pc, msg, token, signs, key_target, result, shared, material, key_phase, code>>
  BY DEF Key!signVars
<1>2. \A u \in Threads : Key!SignerInv(u)'
  <2> SUFFICES ASSUME NEW u \in Threads PROVE Key!SignerInv(u)'
    OBVIOUS
  <2>1. Key!SignerInv(u)
    BY DEF Key!KeyStateInv
  <2>2. CASE u = w
    BY <1>1, <2>1, <2>2 DEF Key!SignerInv
  <2>3. CASE u # w
    BY <1>1, <2>1, <2>3 DEF Key!SignerInv, Key!Holds
  <2> QED
    BY <2>2, <2>3
<1>3. Key!TypeOK' /\ Key!TokenIntact' /\ Key!OwnSignature' /\ Key!KeyInv'
  BY <1>1 DEF Key!KeyStateInv, Key!TypeOK, Key!TokenIntact, Key!OwnSignature, Key!KeyInv
<1> QED
  BY <1>1, <1>2, <1>3 DEF Key!KeyStateInv

(* A thread without buffers owns no block of the heap.                     *)
LEMMA HeapIs ==
  ASSUME Key!KeyStateAssumption, Key!KeyStateInv
  PROVE  heap = (IF key_phase = "ready" THEN SharedBlocks ELSE {})
                \cup UNION {SignerBlocks(u) : u \in Signers(local)}
<1>1. \A u \in Threads : local[u] = Key!NoLocal \/ Key!Holds(u)
  BY DEF Key!KeyStateInv, Key!SignerInv
<1> QED
  BY <1>1, PointersAre DEF Key!KeyStateInv, Key!NothingLost

LEMMA BlocksApart ==
  ASSUME NEW w, NEW u, NEW x \in SignerBlocks(w)
  PROVE  x \notin SharedBlocks /\ (x \in SignerBlocks(u) => u = w)
BY DEF SignerBlocks, SharedBlocks, Key!Block, Key!Buffers, Key!LocalBuffers

LEMMA StateHas ==
  ASSUME Key!KeyStateInv
  PROVE  /\ local \in [Threads -> Key!SignerState]
         /\ \A u \in Threads : local[u] = Key!NoLocal \/ Key!Holds(u)
         /\ heap \subseteq Key!Blocks
<1>1. local \in [Threads -> Key!SignerState]
  BY DEF Key!KeyStateInv
<1>2. \A u \in Threads : local[u] = Key!NoLocal \/ Key!Holds(u)
  BY DEF Key!KeyStateInv, Key!SignerInv
<1> QED
  BY <1>1, <1>2 DEF Key!KeyStateInv, Key!TypeOK

LEMMA InitSignerStep ==
  ASSUME Key!KeyStateAssumption, Key!KeyStateInv, NEW w \in Threads, Key!soko_falcon_init_signer_local(w)
  PROVE  Key!KeyStateInv'
<1>0. /\ local[w] = Key!NoLocal /\ pc[w] = "idle" /\ key_phase = "ready"
      /\ UNCHANGED <<shared, material, key_phase, code, Key!signVars>>
  BY DEF Key!Idle, Key!soko_falcon_init_signer_local
<1> DEFINE Got == [Key!NoLocal EXCEPT !.sig_buf = Key!Block(w, "sig_buf"),
                                      !.tmp_sign = Key!Block(w, "tmp_sign")]
<1>a. /\ Got.sig_buf = Key!Block(w, "sig_buf") /\ Got.tmp_sign = Key!Block(w, "tmp_sign")
      /\ Got \in Key!SignerState
  BY DEF Key!NoLocal, Key!SignerState
<1>b. \/ local' = [local EXCEPT ![w] = Got] /\ heap' = heap \cup {Got.sig_buf, Got.tmp_sign}
      \/ heap' = (heap \cup {Got.sig_buf}) \ Key!FreedWithSecond(Got) /\ UNCHANGED local
      \/ UNCHANGED <<heap, local>>
  BY DEF Key!soko_falcon_init_signer_local
<1> HIDE DEF Got
<1>1. /\ local \in [Threads -> Key!SignerState]
      /\ \A u \in Threads : local[u] = Key!NoLocal \/ Key!Holds(u)
      /\ heap \subseteq Key!Blocks
  BY StateHas
<1>2. Key!KeyInv'
  BY <1>0 DEF Key!KeyStateInv, Key!KeyInv
<1>3. CASE local' = [local EXCEPT ![w] = Got] /\ heap' = heap \cup {Got.sig_buf, Got.tmp_sign}
  <2>2. local' \in [Threads -> Key!SignerState] /\ \A u \in Threads : u # w => local'[u] = local[u]
    BY <1>1, <1>3, <1>a
  <2>3. Got.sig_buf = Key!Block(w, "sig_buf") /\ Got.tmp_sign = Key!Block(w, "tmp_sign")
    BY <1>a
  <2>4. local'[w] = Got /\ Key!Holds(w)'
    BY <1>1, <1>3, <2>3 DEF Key!Holds
  <2>5. heap' = heap \cup SignerBlocks(w)
    BY <1>3, <2>3 DEF SignerBlocks, Key!LocalBuffers
  <2>6. Signers(local') = Signers(local) \cup {w}
    <3>1. Got # Key!NoLocal
      <4>1. Null # Key!Block(w, "sig_buf")
        BY DEF Key!KeyStateAssumption, Key!LocalBuffers
      <4> QED
        BY <2>3, <4>1 DEF Key!NoLocal
    <3> QED
      BY <2>2, <2>4, <3>1 DEF Signers
  <2>7. \A u \in Threads : local'[u] = Key!NoLocal \/ Key!Holds(u)'
    BY <1>1, <2>2, <2>4 DEF Key!Holds
  <2>8. Key!NothingLost'
    BY <1>0, <1>2, <2>5, <2>6, <2>7, HeapIs, PointersAreAfter DEF Key!NothingLost
  <2>9. heap' \subseteq Key!Blocks
    <3>1. SignerBlocks(w) \subseteq Key!Blocks
      BY OwnBlocks DEF SignerBlocks
    <3> QED
      BY <1>1, <2>5, <3>1
  <2> QED
    BY <1>0, <2>2, <2>4, <2>8, <2>9, SigningLeft
<1>4. CASE heap' = (heap \cup {Got.sig_buf}) \ Key!FreedWithSecond(Got) /\ UNCHANGED local
  <2>1. Key!FreedWithSecond(Got) = {Key!Block(w, "sig_buf")} /\ Got.sig_buf = Key!Block(w, "sig_buf")
    BY <1>a DEF Key!FreedWithSecond
  <2>2. Key!Block(w, "sig_buf") \in SignerBlocks(w)
    BY DEF SignerBlocks, Key!LocalBuffers
  <2>3. w \notin Signers(local)
    BY <1>0 DEF Signers
  <2>4. Key!Block(w, "sig_buf") \notin heap
    BY <2>2, <2>3, HeapIs, BlocksApart
  <2>5. heap' = heap
    BY <1>4, <2>1, <2>4
  <2>6. Key!NothingLost'
    BY <1>0, <1>4, <2>5 DEF Key!KeyStateInv, Key!NothingLost, Key!Pointers
  <2> QED
    BY <1>0, <1>1, <1>4, <2>5, <2>6, SigningLeft DEF Key!Holds
<1>5. CASE UNCHANGED <<heap, local>>
  <2>1. Key!NothingLost'
    BY <1>0, <1>5 DEF Key!KeyStateInv, Key!NothingLost, Key!Pointers
  <2> QED
    BY <1>0, <1>1, <1>5, <2>1, SigningLeft DEF Key!Holds
<1> QED
  BY <1>b, <1>3, <1>4, <1>5

LEMMA DestroySignerStep ==
  ASSUME Key!KeyStateAssumption, Key!KeyStateInv, NEW w \in Threads,
         Key!soko_falcon_destroy_signer_local(w)
  PROVE  Key!KeyStateInv'
<1>0. /\ local[w] # Key!NoLocal /\ pc[w] = "idle" /\ local' = [local EXCEPT ![w] = Key!NoLocal]
      /\ heap' = heap \ {local[w][b] : b \in Key!LocalBuffers}
      /\ UNCHANGED <<shared, material, key_phase, code, Key!signVars>>
  BY DEF Key!soko_falcon_destroy_signer_local, Key!Idle
<1>1. /\ local \in [Threads -> Key!SignerState]
      /\ \A u \in Threads : local[u] = Key!NoLocal \/ Key!Holds(u)
      /\ heap \subseteq Key!Blocks
  BY StateHas
<1>2. Key!KeyInv'
  BY <1>0 DEF Key!KeyStateInv, Key!KeyInv
<1>3. Key!NoLocal \in Key!SignerState
  BY DEF Key!NoLocal, Key!SignerState
<1>4. local' \in [Threads -> Key!SignerState] /\ local'[w] = Key!NoLocal
      /\ \A u \in Threads : u # w => local'[u] = local[u]
  BY <1>0, <1>1, <1>3
<1>5. {local[w][b] : b \in Key!LocalBuffers} = SignerBlocks(w)
  BY <1>0, <1>1 DEF Key!Holds, SignerBlocks, Key!LocalBuffers
<1>6. Signers(local') = Signers(local) \ {w}
  BY <1>4 DEF Signers
<1>7. heap' = (IF key_phase' = "ready" THEN SharedBlocks ELSE {})
              \cup UNION {SignerBlocks(u) : u \in Signers(local')}
  <2>1. ASSUME NEW x
        PROVE  x \in heap' <=> \/ key_phase' = "ready" /\ x \in SharedBlocks
                               \/ \E u \in Signers(local) \ {w} : x \in SignerBlocks(u)
    <3>1. x \in heap <=> \/ key_phase = "ready" /\ x \in SharedBlocks
                         \/ \E u \in Signers(local) : x \in SignerBlocks(u)
      BY HeapIs
    <3>2. x \in heap' <=> x \in heap /\ x \notin SignerBlocks(w)
      BY <1>0, <1>5
    <3>3. key_phase' = key_phase
      BY <1>0
    <3>4. x \in SignerBlocks(w) =>
            x \notin SharedBlocks /\ \A u : x \in SignerBlocks(u) => u = w
      BY BlocksApart
    <3> QED
      BY <3>1, <3>2, <3>3, <3>4
  <2> QED
    BY <2>1, <1>6
<1>8. Key!NothingLost'
  <2>1. \A u \in Threads : local'[u] = Key!NoLocal \/ Key!Holds(u)'
    BY <1>1, <1>4 DEF Key!Holds
  <2> QED
    BY <1>2, <1>7, <2>1, PointersAreAfter DEF Key!NothingLost
<1> QED
  BY <1>0, <1>1, <1>4, <1>8, SigningLeft

-----------------------------------------------------------------------------
(* A step of a signing call changes no pointer to a block.                 *)
LEMMA CallLeavesHeap ==
  ASSUME Key!KeyStateAssumption, Key!KeyStateInv, UNCHANGED <<heap, shared, material, key_phase, code>>,
         local' \in [Threads -> Key!SignerState],
         \A u \in Threads : /\ local'[u].sig_buf = local[u].sig_buf
                            /\ local'[u].tmp_sign = local[u].tmp_sign
  PROVE  /\ Key!NothingLost' /\ Key!KeyInv'
         /\ heap' \subseteq Key!Blocks
<1>0. heap \subseteq Key!Blocks
  BY StateHas
<1>1. Key!KeyInv'
  BY DEF Key!KeyStateInv, Key!KeyInv
<1>2. \A u \in Threads, b \in Key!LocalBuffers : local'[u][b] = local[u][b]
  BY DEF Key!LocalBuffers
<1>3. Key!Pointers' = Key!Pointers
  BY <1>2 DEF Key!Pointers
<1> QED
  BY <1>0, <1>1, <1>3 DEF Key!KeyStateInv, Key!NothingLost

(* A signer that holds its buffers is not without any.                     *)
LEMMA HoldsSome ==
  ASSUME Key!KeyStateAssumption, NEW w \in Threads, NEW l, l.sig_buf = Key!Block(w, "sig_buf")
  PROVE  l # Key!NoLocal
<1>1. Null # Key!Block(w, "sig_buf")
  BY DEF Key!KeyStateAssumption, Key!LocalBuffers
<1> QED
  BY <1>1 DEF Key!NoLocal

(* What is left of the invariant after a step of thread t's call.          *)
LEMMA CallStep ==
  ASSUME Key!KeyStateAssumption, Key!KeyStateInv, NEW w \in Threads,
         UNCHANGED <<heap, shared, material, key_phase, code>>,
         local' \in [Threads -> Key!SignerState],
         /\ local'[w].sig_buf = local[w].sig_buf
         /\ local'[w].tmp_sign = local[w].tmp_sign,
         pc' \in [Threads -> {"idle", "hash", "copy", "sign", "encode"}],
         msg' \in [Threads -> {Null} \cup Messages], token' \in [Threads -> {Null} \cup Tokens],
         signs' \in [Threads -> 0 .. MaxSigns],
         result' \in [Threads -> {Null} \cup [hm : Messages, by : Tokens]],
         key_target' = key_target,
         \A u \in Threads : u # w =>
           /\ local'[u] = local[u] /\ pc'[u] = pc[u] /\ msg'[u] = msg[u]
           /\ token'[u] = token[u] /\ result'[u] = result[u],
         Key!SignerInv(w)',
         pc'[w] = "idle" /\ result'[w] # Null => result'[w] = [hm |-> msg'[w], by |-> token'[w]]
  PROVE  Key!KeyStateInv'
<1>1. \A u \in Threads : Key!SignerInv(u)'
  <2> SUFFICES ASSUME NEW u \in Threads, u # w PROVE Key!SignerInv(u)'
    OBVIOUS
  <2>1. Key!SignerInv(u)
    BY DEF Key!KeyStateInv
  <2> QED
    BY <2>1 DEF Key!SignerInv, Key!Holds
<1>2. Key!OwnSignature'
  <2> SUFFICES ASSUME NEW u \in Threads, pc'[u] = "idle", result'[u] # Null
               PROVE  result'[u] = [hm |-> msg'[u], by |-> token'[u]]
    BY DEF Key!OwnSignature
  <2> QED
    BY DEF Key!KeyStateInv, Key!OwnSignature
<1>3. \A u \in Threads : /\ local'[u].sig_buf = local[u].sig_buf
                         /\ local'[u].tmp_sign = local[u].tmp_sign
  OBVIOUS
<1>4. Key!NothingLost' /\ Key!KeyInv'
  BY <1>3, CallLeavesHeap
<1>5. Key!TypeOK'
  <2>1. heap' = heap /\ key_phase' = key_phase /\ code' = code
    OBVIOUS
  <2>2. \A u \in Threads : /\ signs'[u] \in 0 .. MaxSigns
                           /\ pc'[u] \in {"idle", "hash", "copy", "sign", "encode"}
                           /\ result'[u] \in [hm : Messages, by : Tokens] \cup {Null}
    OBVIOUS
  <2>3. heap' \subseteq Key!Blocks
    BY <1>3, CallLeavesHeap
  <2>4. key_phase \in {"none", "ready", "exited"} /\ code \in -7 .. 0
    BY DEF Key!KeyStateInv, Key!TypeOK
  <2> QED
    BY <2>1, <2>2, <2>3, <2>4 DEF Key!TypeOK
<1>6. Key!TokenIntact' /\ key_target' \in [Tokens -> Tokens]
  BY DEF Key!KeyStateInv, Key!TokenIntact
<1> QED
  BY <1>1, <1>2, <1>4, <1>5, <1>6 DEF Key!KeyStateInv

LEMMA CallSteps ==
  ASSUME Key!KeyStateAssumption, Key!KeyStateInv, NEW w \in Threads,
         Key!Begin(w) \/ Key!HashMessage(w) \/ Key!CopyTarget(w) \/ Key!SignOnline(w) \/ Key!Encode(w)
  PROVE  Key!KeyStateInv'
<1>0. /\ local \in [Threads -> Key!SignerState] /\ local[w] \in Key!SignerState
      /\ pc \in [Threads -> {"idle", "hash", "copy", "sign", "encode"}]
      /\ msg \in [Threads -> {Null} \cup Messages] /\ token \in [Threads -> {Null} \cup Tokens]
      /\ signs \in [Threads -> 0 .. MaxSigns] /\ key_target \in [Tokens -> Tokens]
      /\ result \in [Threads -> {Null} \cup [hm : Messages, by : Tokens]]
      /\ Key!SignerInv(w) /\ Key!TokenIntact
  BY DEF Key!KeyStateInv
<1>1. CASE Key!Begin(w)
  <2> USE <1>1 DEF Key!Begin
  <2>1. PICK m \in Messages, k \in Tokens :
          msg' = [msg EXCEPT ![w] = m] /\ token' = [token EXCEPT ![w] = k]
    OBVIOUS
  <2>2. signs' \in [Threads -> 0 .. MaxSigns]
    BY <1>0 DEF Key!KeyStateAssumption
  <2>3. pc'[w] = "hash" /\ msg'[w] = m /\ token'[w] = k
    BY <1>0, <2>1
  <2>4. Key!SignerInv(w)'
    BY <1>0, <2>3 DEF Key!SignerInv, Key!Holds
  <2> QED
    BY <1>0, <2>1, <2>2, <2>3, <2>4, CallStep
<1>2. CASE Key!HashMessage(w)
  <2> USE <1>2 DEF Key!HashMessage
  <2>1. /\ local[w] # Key!NoLocal /\ Key!Holds(w) /\ key_phase = "ready"
        /\ msg[w] \in Messages /\ token[w] \in Tokens
    BY <1>0 DEF Key!SignerInv
  <2>2. /\ local'[w] = [local[w] EXCEPT !.hm = msg[w]] /\ pc'[w] = "copy"
        /\ local' \in [Threads -> Key!SignerState]
    BY <1>0, <2>1 DEF Key!SignerState
  <2>3. /\ local'[w].sig_buf = local[w].sig_buf /\ local'[w].tmp_sign = local[w].tmp_sign
        /\ local'[w].hm = msg[w]
    BY <1>0, <2>2 DEF Key!SignerState
  <2>4. local'[w] # Key!NoLocal
    BY <2>1, <2>3, HoldsSome DEF Key!Holds
  <2>5. Key!SignerInv(w)'
    BY <2>1, <2>2, <2>3, <2>4 DEF Key!SignerInv, Key!Holds
  <2> QED
    BY <1>0, <2>2, <2>3, <2>5, CallStep
<1>3. CASE Key!CopyTarget(w)
  <2> USE <1>3 DEF Key!CopyTarget
  <2>1. /\ local[w] # Key!NoLocal /\ Key!Holds(w) /\ key_phase = "ready" /\ msg[w] \in Messages
        /\ token[w] \in Tokens /\ local[w].hm = msg[w] /\ key_target[token[w]] = token[w]
    BY <1>0 DEF Key!SignerInv, Key!TokenIntact
  <2>2. /\ local'[w] = [local[w] EXCEPT !.target_work = token[w]] /\ pc'[w] = "sign"
        /\ local' \in [Threads -> Key!SignerState]
    BY <1>0, <2>1 DEF Key!SignerState
  <2>3. /\ local'[w].sig_buf = local[w].sig_buf /\ local'[w].tmp_sign = local[w].tmp_sign
        /\ local'[w].hm = msg[w] /\ local'[w].target_work = token[w]
    BY <1>0, <2>1, <2>2 DEF Key!SignerState
  <2>4. local'[w] # Key!NoLocal
    BY <2>1, <2>3, HoldsSome DEF Key!Holds
  <2>5. Key!SignerInv(w)'
    BY <2>1, <2>2, <2>3, <2>4 DEF Key!SignerInv, Key!Holds
  <2> QED
    BY <1>0, <2>2, <2>3, <2>5, CallStep
<1>4. CASE Key!SignOnline(w)
  <2> USE <1>4 DEF Key!SignOnline
  <2>1. /\ local[w] # Key!NoLocal /\ Key!Holds(w) /\ key_phase = "ready" /\ msg[w] \in Messages
        /\ token[w] \in Tokens /\ local[w].hm = msg[w] /\ local[w].target_work = token[w]
    BY <1>0 DEF Key!SignerInv
  <2>2. key_target' = key_target
    BY <1>0, <2>1 DEF Key!TargetAfter
  <2>3. PICK l \in Key!SignerState :
          /\ local' = [local EXCEPT ![w] = l] /\ l.sv = [hm |-> msg[w], by |-> token[w]]
          /\ l.sig_buf = local[w].sig_buf /\ l.tmp_sign = local[w].tmp_sign
    <3> DEFINE sv == [hm |-> local[w].hm, by |-> local[w].target_work]
               One == [local[w] EXCEPT !.sv = sv]
               Two == [One EXCEPT !.target_work = Null]
               Mid == [local EXCEPT ![w].sv = sv]
    <3>1. /\ sv = [hm |-> msg[w], by |-> token[w]]
          /\ sv \in [hm : {Null} \cup Messages, by : {Null} \cup Tokens]
      BY <2>1
    <3> HIDE DEF sv
    <3>2. /\ One \in Key!SignerState /\ One.sv = sv /\ One.sig_buf = local[w].sig_buf
          /\ One.tmp_sign = local[w].tmp_sign
      BY <1>0, <3>1 DEF Key!SignerState
    <3>3. Mid = [local EXCEPT ![w] = One] /\ Mid \in [Threads -> Key!SignerState] /\ Mid[w] = One
      BY <1>0, <3>2
    <3> HIDE DEF One
    <3>4. /\ Two \in Key!SignerState /\ Two.sv = sv /\ Two.sig_buf = local[w].sig_buf
          /\ Two.tmp_sign = local[w].tmp_sign
      BY <3>2 DEF Key!SignerState
    <3>5. local' = [Mid EXCEPT ![w].target_work = Null]
      BY DEF sv
    <3> HIDE DEF Mid
    <3>6. local' = [Mid EXCEPT ![w] = Two]
      BY <3>3, <3>5
    <3> HIDE DEF Two
    <3>7. local' = [local EXCEPT ![w] = Two]
      BY <1>0, <3>3, <3>6
    <3> QED
      BY <3>1, <3>4, <3>7
  <2>4. local'[w] = l /\ pc'[w] = "encode" /\ local' \in [Threads -> Key!SignerState]
        /\ local'[w].sig_buf = local[w].sig_buf /\ local'[w].tmp_sign = local[w].tmp_sign
        /\ local'[w].sv = [hm |-> msg[w], by |-> token[w]]
    BY <1>0, <2>3, ZenonT(20)
  <2>5. local'[w] # Key!NoLocal
    BY <2>1, <2>4, HoldsSome DEF Key!Holds
  <2>6. Key!SignerInv(w)'
    BY <2>1, <2>4, <2>5 DEF Key!SignerInv, Key!Holds
  <2> QED
    BY <1>0, <2>2, <2>3, <2>4, <2>6, CallStep
<1>5. CASE Key!Encode(w)
  <2> USE <1>5 DEF Key!Encode
  <2>1. /\ msg[w] \in Messages /\ token[w] \in Tokens
        /\ local[w].sv = [hm |-> msg[w], by |-> token[w]]
    BY <1>0 DEF Key!SignerInv
  <2>2. PICK r \in {Null, local[w].sv} : result' = [result EXCEPT ![w] = r]
    BY DEF Key!Encoded
  <2>3. result' \in [Threads -> {Null} \cup [hm : Messages, by : Tokens]]
    BY <1>0, <2>1, <2>2
  <2>4. result'[w] = r /\ pc'[w] = "idle"
    BY <1>0, <2>2
  <2>5. Key!SignerInv(w)'
    BY <1>0, <2>4 DEF Key!SignerInv, Key!Holds
  <2>6. result'[w] # Null => result'[w] = [hm |-> msg'[w], by |-> token'[w]]
    BY <2>1, <2>4
  <2> QED
    BY <1>0, <2>2, <2>3, <2>4, <2>5, <2>6, CallStep
<1> QED
  BY <1>1, <1>2, <1>3, <1>4, <1>5

(* The invariant holds initially and every step of the key, of a signer's  *)
(* buffers and of a signing call keeps it.                                 *)
THEOREM KeyStateInvariant == Key!KeyStateAssumption => (Key!Spec => []Key!KeyStateInv)
<1> SUFFICES ASSUME Key!KeyStateAssumption PROVE Key!Spec => []Key!KeyStateInv
  OBVIOUS
<1>1. Key!Init => Key!KeyStateInv
  BY InitKeyState
<1>2. Key!KeyStateInv /\ [Key!Next]_(Key!vars) => Key!KeyStateInv'
  <2> SUFFICES ASSUME Key!KeyStateInv, [Key!Next]_(Key!vars) PROVE Key!KeyStateInv'
    OBVIOUS
  <2>1. CASE Key!OutOfMemory \/ Key!soko_prepare_falcon_key_state \/ Key!soko_destroy_falcon_key_state
    BY <2>1, KeyStep
  <2>2. ASSUME NEW w \in Threads,
               \/ Key!soko_falcon_init_signer_local(w) \/ Key!soko_falcon_destroy_signer_local(w)
               \/ Key!Begin(w) \/ Key!HashMessage(w) \/ Key!CopyTarget(w)
               \/ Key!SignOnline(w) \/ Key!Encode(w)
        PROVE  Key!KeyStateInv'
    BY <2>2, InitSignerStep, DestroySignerStep, CallSteps
  <2>3. CASE UNCHANGED Key!vars
    <3>1. UNCHANGED <<heap, shared, material, key_phase, code, local, pc, msg, token, signs,
                    key_target, result>>
      BY <2>3 DEF Key!vars
    <3>2. UNCHANGED <<local, Key!signVars>> /\ Key!TypeOK' /\ Key!NothingLost' /\ Key!KeyInv'
      BY <3>1 DEF Key!signVars, Key!KeyStateInv, Key!TypeOK, Key!NothingLost, Key!Pointers, Key!KeyInv
    <3> QED
      BY <3>1, <3>2, SignersLeft DEF Key!KeyStateInv
  <2> QED
    BY <2>1, <2>2, <2>3 DEF Key!Next
<1> QED
  BY <1>1, <1>2, PTL DEF Key!Spec

(* Whatever the order in which the key is prepared, its preparation fails  *)
(* half way, signers come and go and threads sign: nothing allocated is    *)
(* lost and no pointer dangles, threads sign only under a complete key, a  *)
(* token survives its use, and a call returns the signature of its own     *)
(* message (soko_falcon_common.c).                                         *)
THEOREM KeyStateSafe == Key!KeyStateAssumption => (Key!Spec => []Key!KeyStateRight)
<1> SUFFICES ASSUME Key!KeyStateAssumption PROVE Key!Spec => []Key!KeyStateRight
  OBVIOUS
<1>1. Key!KeyStateInv => Key!KeyStateRight
  <2> SUFFICES ASSUME Key!KeyStateInv PROVE Key!SignsUnderKey
    BY DEF Key!KeyStateInv, Key!KeyStateRight
  <2> SUFFICES ASSUME NEW w \in Threads, local[w] # Key!NoLocal
               PROVE  /\ code = 0
                      /\ {"F", "G", "h", "h_monty", "f_fft", "g_fft", "F_fft", "G_fft"} \subseteq material
    BY DEF Key!SignsUnderKey
  <2>1. code = 0 /\ material = Key!StagesBefore(0) \cup Key!Derived
    BY DEF Key!KeyStateInv, Key!SignerInv, Key!KeyInv
  <2>2. Key!StagesBefore(0) = {Key!Stages[i] : i \in 1 .. 7}
    BY DEF Key!StagesBefore
  <2>3. Key!Stages[4] = "F" /\ Key!Stages[6] = "G" /\ Key!Stages[7] = "h"
    BY DEF Key!Stages
  <2>4. {"F", "G", "h"} \subseteq Key!StagesBefore(0)
    BY <2>2, <2>3
  <2> QED
    BY <2>1, <2>4 DEF Key!Derived
<1> QED
  BY <1>1, KeyStateInvariant, PTL

-----------------------------------------------------------------------------
(* The kernels of the GPU, for any block and any degree.  Loops, as those  *)
(* of the transforms, are reasoned about through the least element of a    *)
(* set of numbers.                                                         *)
CONSTANT LogBlock
VARIABLES kernel, logn, given, pass, loops, tt, sums, decoded, stored, readers, writers

Kernels == INSTANCE GpuKernels WITH
  input <- given, j <- loops, sum <- sums, ok <- decoded, out <- stored

LEMMA LeastOf ==
  ASSUME NEW T \in SUBSET Nat, T # {} PROVE \E n \in T : \A m \in T : n <= m
<1> DEFINE Less == OpToRel(<, Nat)
<1>1. IsWellFoundedOn(Less, Nat)
  BY NatLessThanWellFounded
<1>2. \A n, m \in Nat : m < n => <<m, n>> \in Less
  BY DEF OpToRel
<1> HIDE DEF Less
<1>3. PICK n \in T : \A m \in T : ~ (<<m, n>> \in Less)
  BY <1>1, WFMin
<1>4. ASSUME NEW m \in T PROVE n <= m
  <2>1. n \in Nat /\ m \in Nat
    OBVIOUS
  <2>2. ~ (m < n)
    BY <1>2, <1>3, <2>1
  <2> QED
    BY <2>1, <2>2
<1> QED
  BY <1>4

LEMMA UpTo ==
  ASSUME NEW n \in Nat, NEW T, 0 \in T, \A k \in 0 .. n - 1 : k \in T => k + 1 \in T
  PROVE  \A k \in 0 .. n : k \in T
<1> SUFFICES ASSUME NEW l \in 0 .. n, l \notin T PROVE FALSE
  OBVIOUS
<1> DEFINE Out == {k \in 0 .. n : k \notin T}
<1>1. Out \in SUBSET Nat /\ Out # {}
  OBVIOUS
<1> HIDE DEF Out
<1>2. PICK k \in Out : \A m \in Out : k <= m
  BY <1>1, LeastOf
<1>3. k \in 0 .. n /\ k \notin T /\ k # 0
  BY <1>2 DEF Out
<1>4. k - 1 \in 0 .. n - 1 /\ k - 1 \in T
  BY <1>2, <1>3 DEF Out
<1>5. (k - 1) + 1 \in T
  BY <1>4
<1> QED
  BY <1>3, <1>5

(* Powers of two, up to the largest degree and the largest block.          *)
LEMMA NextPower == ASSUME NEW k \in 0 .. 9 PROVE 2^(k + 1) = 2 * 2^k
<1>1. \/ k = 0 \/ k = 1 \/ k = 2 \/ k = 3 \/ k = 4
      \/ k = 5 \/ k = 6 \/ k = 7 \/ k = 8 \/ k = 9
  OBVIOUS
<1>2. CASE k = 0
  <2>1. 2 * 2^0 = 2^1 /\ k + 1 = 1
    BY <1>2, SMT
  <2> QED
    BY <1>2, <2>1, Zenon
<1>3. CASE k = 1
  <2>1. 2 * 2^1 = 2^2 /\ k + 1 = 2
    BY <1>3, SMT
  <2> QED
    BY <1>3, <2>1, Zenon
<1>4. CASE k = 2
  <2>1. 2 * 2^2 = 2^3 /\ k + 1 = 3
    BY <1>4, SMT
  <2> QED
    BY <1>4, <2>1, Zenon
<1>5. CASE k = 3
  <2>1. 2 * 2^3 = 2^4 /\ k + 1 = 4
    BY <1>5, SMT
  <2> QED
    BY <1>5, <2>1, Zenon
<1>6. CASE k = 4
  <2>1. 2 * 2^4 = 2^5 /\ k + 1 = 5
    BY <1>6, SMT
  <2> QED
    BY <1>6, <2>1, Zenon
<1>7. CASE k = 5
  <2>1. 2 * 2^5 = 2^6 /\ k + 1 = 6
    BY <1>7, SMT
  <2> QED
    BY <1>7, <2>1, Zenon
<1>8. CASE k = 6
  <2>1. 2 * 2^6 = 2^7 /\ k + 1 = 7
    BY <1>8, SMT
  <2> QED
    BY <1>8, <2>1, Zenon
<1>9. CASE k = 7
  <2>1. 2 * 2^7 = 2^8 /\ k + 1 = 8
    BY <1>9, SMT
  <2> QED
    BY <1>9, <2>1, Zenon
<1>10. CASE k = 8
  <2>1. 2 * 2^8 = 2^9 /\ k + 1 = 9
    BY <1>10, SMT
  <2> QED
    BY <1>10, <2>1, Zenon
<1>11. CASE k = 9
  <2>1. 2 * 2^9 = 2^10 /\ k + 1 = 10
    BY <1>11, SMT
  <2> QED
    BY <1>11, <2>1, Zenon
<1> QED
  BY <1>1, <1>2, <1>3, <1>4, <1>5, <1>6, <1>7, <1>8, <1>9, <1>10, <1>11, Zenon

Power2(k) == 2^k

LEMMA PowerSteps == Power2(0) = 1 /\ \A k \in 0 .. 9 : Power2(k + 1) = 2 * Power2(k)
<1>1. 2^0 = 1
  BY SMT
<1> QED
  BY <1>1, NextPower, Zenon DEF Power2

LEMMA PowerIs == \A k \in 0 .. 10 : Power2(k) \in Nat \ {0}
<1> DEFINE T == {k \in 0 .. 10 : Power2(k) \in Nat \ {0}}
<1>1. 0 \in T
  BY PowerSteps
<1>2. ASSUME NEW k \in 0 .. 10 - 1, k \in T PROVE k + 1 \in T
  BY <1>2, PowerSteps
<1> HIDE DEF T
<1>3. \A k \in 0 .. 10 : k \in T
  BY <1>1, <1>2, UpTo
<1> QED
  BY <1>3 DEF T

LEMMA PowersMultiply ==
  ASSUME NEW a \in Nat, NEW b \in Nat, a + b <= 10
  PROVE  Power2(a) * Power2(b) = Power2(a + b)
<1> DEFINE T == {k \in 0 .. 10 - b : Power2(k) * Power2(b) = Power2(k + b)}
<1>0. b \in 0 .. 10 /\ 10 - b \in Nat /\ a \in 0 .. 10 - b
  OBVIOUS
<1>1. 0 \in T
  <2>1. Power2(b) \in Nat /\ 0 + b = b
    BY <1>0, PowerIs
  <2> QED
    BY <1>0, <2>1, PowerSteps
<1>2. ASSUME NEW k \in 0 .. (10 - b) - 1, k \in T PROVE k + 1 \in T
  <2>1. k \in 0 .. 9 /\ k + b \in 0 .. 9 /\ k + 1 \in 0 .. 10 - b /\ (k + 1) + b = (k + b) + 1
        /\ k \in 0 .. 10 /\ k + b \in 0 .. 10
    OBVIOUS
  <2>2. Power2(k + 1) = 2 * Power2(k) /\ Power2((k + b) + 1) = 2 * Power2(k + b)
    BY <2>1, PowerSteps
  <2>3. PICK x \in Nat, y \in Nat, z \in Nat : x = Power2(k) /\ y = Power2(b) /\ z = Power2(k + b)
    BY <1>0, <2>1, PowerIs
  <2>4. x * y = z
    BY <1>2, <2>3
  <2>5. (2 * x) * y = 2 * (x * y)
    BY <2>3, SMT
  <2>6. Power2(k + 1) * Power2(b) = Power2((k + 1) + b)
    BY <2>1, <2>2, <2>3, <2>4, <2>5
  <2> QED
    BY <2>1, <2>6
<1> HIDE DEF T
<1>3. \A k \in 0 .. 10 - b : k \in T
  BY <1>0, <1>1, <1>2, UpTo
<1>4. a \in T
  BY <1>0, <1>3
<1> QED
  BY <1>4 DEF T

(* Kernels!Residues.  A range up to q is left folded: the prover would list it.    *)
LEMMA QIs == Kernels!Q = 12289 /\ Kernels!Q \in Nat
BY SMT DEF Kernels!Q

LEMMA ResidueIs == \A x : x \in Kernels!Residues <=> x \in Nat /\ x <= 12288
<1>1. \A x : x \in Kernels!Residues <=> x \in Int /\ 0 <= x /\ x <= Kernels!Q - 1
  <2>1. \A n \in Int : \A x : x \in 0 .. n <=> x \in Int /\ 0 <= x /\ x <= n
    BY SMT
  <2>2. Kernels!Q - 1 \in Int
    BY QIs
  <2> QED
    BY <2>1, <2>2, Zenon DEF Kernels!Residues
<1>2. Kernels!Q - 1 = 12288
  BY QIs
<1> QED
  BY <1>1, <1>2

LEMMA AddQ == \A z \in Int : Kernels!AddQIfNegative(z) = IF z < 0 THEN z + 12289 ELSE z
BY SMT DEF Kernels!AddQIfNegative, Kernels!Q

LEMMA Reduced ==
  ASSUME NEW z \in Int, z < 12289, - 12289 <= z
  PROVE  /\ Kernels!AddQIfNegative(z) \in Kernels!Residues
         /\ z % 12289 = Kernels!AddQIfNegative(z) /\ (z + 12289) % 12289 = Kernels!AddQIfNegative(z)
<1>1. CASE z < 0
  <2>1. Kernels!AddQIfNegative(z) = z + 12289 /\ z + 12289 \in Nat /\ z + 12289 <= 12288
    BY <1>1, AddQ
  <2>2. (z + 12289) % 12289 = z + 12289 /\ z % 12289 = z + 12289
    BY <1>1, SMT
  <2> QED
    BY <2>1, <2>2, ResidueIs
<1>2. CASE z >= 0
  <2>1. Kernels!AddQIfNegative(z) = z /\ z \in Nat /\ z <= 12288
    BY <1>2, AddQ
  <2>2. z % 12289 = z /\ (z + 12289) % 12289 = z
    BY <1>2, SMT
  <2> QED
    BY <2>1, <2>2, ResidueIs
<1> QED
  BY <1>1, <1>2

LEMMA SumsExact ==
  ASSUME NEW x \in Kernels!Residues, NEW y \in Kernels!Residues
  PROVE  /\ Kernels!mq_add(x, y) = (x + y) % Kernels!Q /\ Kernels!mq_add(x, y) \in Kernels!Residues
         /\ Kernels!mq_sub(x, y) = (x - y) % Kernels!Q /\ Kernels!mq_sub(x, y) \in Kernels!Residues
<1>0. x \in Nat /\ x <= 12288 /\ y \in Nat /\ y <= 12288
  BY ResidueIs
<1> DEFINE s == x + y - 12289   d == x - y
<1>1. s \in Int /\ - 12289 <= s /\ s < 12289 /\ d \in Int /\ - 12289 <= d /\ d < 12289 /\ x + y = s + 12289
  BY <1>0
<1>2. Kernels!mq_add(x, y) = Kernels!AddQIfNegative(s) /\ Kernels!mq_sub(x, y) = Kernels!AddQIfNegative(d)
  BY QIs DEF Kernels!mq_add, Kernels!mq_sub
<1> HIDE DEF s, d
<1>3. Kernels!mq_add(x, y) \in Kernels!Residues /\ (s + 12289) % 12289 = Kernels!mq_add(x, y)
  BY <1>1, <1>2, Reduced
<1>4. Kernels!mq_sub(x, y) \in Kernels!Residues /\ d % 12289 = Kernels!mq_sub(x, y)
  BY <1>1, <1>2, Reduced
<1>5. (x + y) % Kernels!Q = Kernels!mq_add(x, y)
  BY <1>1, <1>3, QIs
<1>6. (x - y) % Kernels!Q = Kernels!mq_sub(x, y)
  BY <1>4, QIs DEF d
<1> QED
  BY <1>3, <1>4, <1>5, <1>6

(* Half of y, or of y + q when y is odd.                                   *)
LEMMA HalfExact ==
  ASSUME NEW y \in Kernels!Residues
  PROVE  Kernels!mq_rshift1(y) \in Kernels!Residues /\ (2 * Kernels!mq_rshift1(y)) % Kernels!Q = y
<1>0. y \in Nat /\ y <= 12288
  BY ResidueIs
<1> DEFINE h == Kernels!mq_rshift1(y)
<1>1. h = (y + 12289 * (y % 2)) \div 2
  BY QIs DEF Kernels!mq_rshift1
<1> HIDE DEF h
<1>2. CASE y % 2 = 0
  <2>1. h = y \div 2
    BY <1>0, <1>1, <1>2
  <2>2. PICK k \in Nat : y = 2 * k
    BY <1>0, <1>2, SMT
  <2>3. h = k /\ k <= 12288 /\ 2 * k = y
    BY <1>0, <2>1, <2>2
  <2>4. y % 12289 = y
    BY <1>0, SMT
  <2>5. (2 * h) % 12289 = y
    BY <2>3, <2>4
  <2> QED
    BY <2>2, <2>3, <2>5, ResidueIs, QIs DEF h
<1>3. CASE y % 2 = 1
  <2>1. h = (y + 12289) \div 2
    BY <1>0, <1>1, <1>3
  <2>2. PICK k \in Nat : y = 2 * k + 1
    BY <1>0, <1>3, SMT
  <2>3. k + 6145 \in Nat /\ k + 6145 <= 12288 /\ y + 12289 = 2 * (k + 6145)
    BY <1>0, <2>2
  <2>4. h = k + 6145 /\ 2 * h = y + 12289
    BY <2>1, <2>3
  <2>5. (y + 12289) % 12289 = y
    BY <1>0, SMT
  <2>6. (2 * h) % 12289 = y
    BY <2>4, <2>5
  <2> QED
    BY <2>3, <2>4, <2>6, ResidueIs, QIs DEF h
<1> QED
  BY <1>0, <1>2, <1>3

(* One bound for all products.                                             *)
LEMMA ProductBound ==
  ASSUME NEW x \in Kernels!Residues, NEW y \in Kernels!Residues
  PROVE  x * y \in Nat /\ x * y <= 150994944
<1>1. x \in Nat /\ y \in Nat /\ x <= 12288 /\ y <= 12288
  BY ResidueIs
<1>2. x * y <= 12288 * y /\ x * y \in Nat
  BY <1>1, SMT
<1> QED
  BY <1>1, <1>2, SMT

LEMMA Multiples ==
  ASSUME NEW r \in Int, NEW c \in Int, NEW z \in Int, NEW e \in Int, 65536 * r = z + c * 12289
  PROVE  /\ (r - e * 12289) * 4091 = z + (c - 5 * r - e * 4091) * 12289
         /\ c - 5 * r - e * 4091 \in Int
BY SMT

LEMMA SameRemainder ==
  ASSUME NEW z \in Int, NEW k \in Int PROVE (z + k * 12289) % 12289 = z % 12289
BY SMT

LEMMA MontymulExact ==
  ASSUME NEW x \in Kernels!Residues, NEW y \in Kernels!Residues
  PROVE  /\ Kernels!mq_montymul(x, y) \in Kernels!Residues
         /\ (Kernels!mq_montymul(x, y) * Kernels!R) % Kernels!Q = (x * y) % Kernels!Q
<1> DEFINE z == x * y
<1>1. z \in Nat /\ z <= 150994944
  BY ProductBound
<1>2. Kernels!mq_montymul(x, y) = Kernels!AddQIfNegative((z + Kernels!Correction(z)) \div 65536 - Kernels!Q)
  BY DEF Kernels!mq_montymul
<1> HIDE DEF z
<1> DEFINE low == z % 65536   s == z \div 65536
           w == low * 12287
           a == w \div 65536   c == w % 65536
<1>3. low \in Nat /\ s \in Nat /\ z = 65536 * s + low
  BY <1>1, SMT
<1>4. Kernels!Correction(z) = c * 12289
  BY <1>1, SMT DEF Kernels!Correction, Kernels!Q, Kernels!Q0I
<1> HIDE DEF low, s
<1>5. w \in Nat /\ w = low * 12287
  BY <1>3
<1> HIDE DEF w
<1>6. c \in Nat /\ c <= 65535 /\ a \in Nat /\ w = 65536 * a + c
  BY <1>5, SMT
<1> HIDE DEF a, c
<1> DEFINE r == s + 2304 * low - a * 12289
<1>7. z + c * 12289 = 65536 * r /\ r \in Int
  BY <1>3, <1>5, <1>6, SMT
<1> HIDE DEF r
<1>8. 0 <= r /\ r < 24578
  <2>1. 0 <= 65536 * r /\ 65536 * r <= 956354559
    BY <1>1, <1>6, <1>7, SMT
  <2> QED
    BY <1>7, <2>1, SMT
<1>9. (z + c * 12289) \div 65536 = r
  BY <1>7, SMT
<1>10. Kernels!mq_montymul(x, y) = Kernels!AddQIfNegative(r - 12289)
  BY <1>2, <1>4, <1>9, QIs
<1>11. r - 12289 \in Int /\ - 12289 <= r - 12289 /\ r - 12289 < 12289
  BY <1>7, <1>8
<1>12. Kernels!mq_montymul(x, y) \in Kernels!Residues
  BY <1>10, <1>11, Reduced
<1>13. PICK e \in {0, 1} : Kernels!mq_montymul(x, y) = r - e * 12289
  <2>1. Kernels!mq_montymul(x, y) = r - 1 * 12289 \/ Kernels!mq_montymul(x, y) = r - 0 * 12289
    <3>1. Kernels!mq_montymul(x, y) = r - 12289 \/ Kernels!mq_montymul(x, y) = (r - 12289) + 12289
      BY <1>10, <1>11, AddQ
    <3>2. r - 12289 = r - 1 * 12289 /\ (r - 12289) + 12289 = r - 0 * 12289
      BY <1>7, SMT
    <3> QED
      BY <3>1, <3>2
  <2> QED
    BY <2>1
<1>14. c \in Int /\ z \in Int /\ e \in Int /\ 65536 * r = z + c * 12289
  BY <1>1, <1>6, <1>7
<1> DEFINE k == c - 5 * r - e * 4091
<1>15. (r - e * 12289) * 4091 = z + k * 12289 /\ k \in Int
  BY <1>7, <1>14, Multiples
<1> HIDE DEF k
<1>16. (z + k * 12289) % 12289 = z % 12289
  BY <1>14, <1>15, SameRemainder
<1>17. (Kernels!mq_montymul(x, y) * 4091) % 12289 = z % 12289
  BY <1>13, <1>15, <1>16
<1>18. (Kernels!mq_montymul(x, y) * Kernels!R) % Kernels!Q = z % Kernels!Q
  BY <1>17, SMT DEF Kernels!Q, Kernels!R
<1> QED
  BY <1>12, <1>18 DEF z

(* The arithmetic modulo q is exact for every pair of operands, products   *)
(* in Montgomery form and one conditional addition at most (ModQ).         *)
THEOREM ModqExact ==
  ASSUME NEW x \in Kernels!Residues, NEW y \in Kernels!Residues
  PROVE  /\ Kernels!mq_add(x, y) = (x + y) % Kernels!Q
         /\ Kernels!mq_sub(x, y) = (x - y) % Kernels!Q
         /\ Kernels!mq_rshift1(y) \in Kernels!Residues /\ (2 * Kernels!mq_rshift1(y)) % Kernels!Q = y
         /\ Kernels!mq_montymul(x, y) \in Kernels!Residues
         /\ (Kernels!mq_montymul(x, y) * Kernels!R) % Kernels!Q = (x * y) % Kernels!Q
BY SumsExact, HalfExact, MontymulExact

-----------------------------------------------------------------------------
(* A loop that is run n times has values: G is its body, S what the body   *)
(* stays in, f what stands after each time.                                *)
StaysIn(G, S, n) == \A k \in 0 .. n - 1 : \A x \in S : G[<<k, x>>] \in S
RunOf(G, S, n, a, f) ==
  f \in [0 .. n -> S] /\ f[0] = a /\ \A k \in 1 .. n : f[k] = G[<<k - 1, f[k - 1]>>]

LEMMA Iterates ==
  ASSUME NEW n \in Nat, NEW S, NEW a \in S, NEW G, StaysIn(G, S, n)
  PROVE  \E f : RunOf(G, S, n, a, f)
<1>0. \A k \in 0 .. n - 1 : \A x \in S : G[<<k, x>>] \in S
  BY DEF StaysIn
<1> DEFINE Runs(m, f) == f[0] = a /\ \A k \in 1 .. m : f[k] = G[<<k - 1, f[k - 1]>>]
           T == {m \in 0 .. n : \E f \in [0 .. m -> S] : Runs(m, f)}
<1>1. 0 \in T
  <2>1. [k \in 0 .. 0 |-> a] \in [0 .. 0 -> S] /\ Runs(0, [k \in 0 .. 0 |-> a])
    OBVIOUS
  <2>2. \E f \in [0 .. 0 -> S] : Runs(0, f)
    <3> HIDE DEF Runs
    <3> QED
      BY <2>1
  <2>3. 0 \in 0 .. n
    OBVIOUS
  <2> QED
    BY <2>2, <2>3
<1>2. ASSUME NEW m \in 0 .. n - 1, m \in T PROVE m + 1 \in T
  <2> PICK g \in [0 .. m -> S] : Runs(m, g)
    BY <1>2
  <2> DEFINE f == [k \in 0 .. m + 1 |-> IF k = m + 1 THEN G[<<m, g[m]>>] ELSE g[k]]
  <2>1. g[m] \in S /\ G[<<m, g[m]>>] \in S
    BY <1>0
  <2>2. f \in [0 .. m + 1 -> S]
    BY <2>1
  <2>3. \A k \in 0 .. m : f[k] = g[k]
    OBVIOUS
  <2>4. f[m + 1] = G[<<m, g[m]>>]
    OBVIOUS
  <2> HIDE DEF f
  <2>5. ASSUME NEW k \in 1 .. m + 1 PROVE f[k] = G[<<k - 1, f[k - 1]>>]
    <3>1. CASE k = m + 1
      <4>1. k - 1 = m /\ m \in 0 .. m
        BY <3>1
      <4> QED
        BY <2>3, <2>4, <3>1, <4>1
    <3>2. CASE k \in 1 .. m
      <4>1. k \in 0 .. m /\ k - 1 \in 0 .. m
        BY <3>2
      <4> QED
        BY <2>3, <3>2, <4>1
    <3> QED
      BY <3>1, <3>2
  <2>6. f[0] = a
    BY <2>3
  <2> QED
    BY <2>2, <2>5, <2>6
<1> HIDE DEF T
<1>3. \A m \in 0 .. n : m \in T
  BY <1>1, <1>2, UpTo
<1>4. n \in T
  BY <1>3
<1>5. PICK f \in [0 .. n -> S] : Runs(n, f)
  BY <1>4 DEF T
<1> QED
  BY <1>5 DEF RunOf

(* The bits of an index, reversed.                                         *)
BitOf(x, k) == (x \div 2^k) % 2

LEMMA BitsAre == ASSUME NEW x \in Nat PROVE \A k \in 0 .. 9 : BitOf(x, k) \in Nat
<1>1. \A k \in 0 .. 9 : x \div Power2(k) \in Nat
  <2> TAKE k \in 0 .. 9
  <2>1. Power2(k) \in Nat \ {0}
    BY PowerIs
  <2> QED
    BY <2>1, Quotient
<1>2. \A y \in Nat : y % 2 \in Nat
  OBVIOUS
<1>3. \A k \in 0 .. 9 : BitOf(x, k) = (x \div Power2(k)) % 2
  BY Zenon DEF BitOf, Power2
<1> QED
  BY <1>1, <1>2, <1>3

LEMMA RevIs == ASSUME NEW x \in Nat PROVE Kernels!Rev(x, 10) \in Nat
<1> DEFINE Steps(r) == r = [k \in 0 .. 10 |-> IF k = 0 THEN 0 ELSE 2 * r[k - 1] + BitOf(x, k - 1)]
           G == [q \in (0 .. 9) \X Nat |-> 2 * q[2] + BitOf(x, q[1])]
           r == CHOOSE r : Steps(r)
<1>2. \A k \in 0 .. 9 : \A y \in Nat : G[<<k, y>>] = 2 * y + BitOf(x, k) /\ G[<<k, y>>] \in Nat
  <2> TAKE k \in 0 .. 9, y \in Nat
  <2>1. BitOf(x, k) \in Nat
    BY BitsAre
  <2>2. G[<<k, y>>] = 2 * y + BitOf(x, k)
    OBVIOUS
  <2> QED
    BY <2>1, <2>2
<1>3. PICK f \in [0 .. 10 -> Nat] : f[0] = 0 /\ \A k \in 1 .. 10 : f[k] = G[<<k - 1, f[k - 1]>>]
  <2> HIDE DEF G
  <2>1. \A k \in 0 .. 10 - 1 : \A y \in Nat : G[<<k, y>>] \in Nat
    BY <1>2
  <2>2. StaysIn(G, Nat, 10)
    BY <2>1 DEF StaysIn
  <2>3. \E f : RunOf(G, Nat, 10, 0, f)
    BY <2>2, Iterates
  <2> QED
    BY <2>3 DEF RunOf
<1>4. Steps(f)
  <2>1. \A k \in 1 .. 10 : f[k] = 2 * f[k - 1] + BitOf(x, k - 1)
    <3> HIDE DEF G
    <3> QED
      BY <1>2, <1>3
  <2> QED
    BY <1>3, <2>1
<1>5. Steps(r)
  BY <1>4
<1>6. Kernels!Rev(x, 10) = r[10]
  BY Zenon DEF Kernels!Rev, BitOf
<1> HIDE DEF r
<1> DEFINE T == {k \in 0 .. 10 : r[k] \in Nat}
<1>7. 0 \in T
  BY <1>5
<1>8. ASSUME NEW k \in 0 .. 10 - 1, k \in T PROVE k + 1 \in T
  <2>1. k + 1 \in 0 .. 10 /\ k + 1 # 0 /\ (k + 1) - 1 = k
    OBVIOUS
  <2>2. r[k + 1] = 2 * r[k] + BitOf(x, k)
    BY <1>5, <2>1
  <2>3. BitOf(x, k) \in Nat
    <3>1. k \in 0 .. 9
      OBVIOUS
    <3> QED
      BY <3>1, BitsAre
  <2>4. r[k + 1] \in Nat
    BY <1>8, <2>2, <2>3
  <2> QED
    BY <2>1, <2>4
<1> HIDE DEF T
<1>9. \A k \in 0 .. 10 : k \in T
  BY <1>7, <1>8, UpTo
<1>10. 10 \in T
  BY <1>9
<1> QED
  BY <1>6, <1>10 DEF T

LEMMA PowerRange ==
  ASSUME NEW b \in Nat, NEW e \in Nat PROVE Kernels!Power(b, e) \in Nat
<1> DEFINE Value(k, root) == IF k = 0 THEN 1
                             ELSE IF k % 2 = 0 THEN (root * root) % Kernels!Q
                             ELSE (((root * root) % Kernels!Q) * b) % Kernels!Q
           Steps(n, p) == \A k \in 0 .. n : p[k] = Value(k, p[k \div 2])
           Table(n, p) == p = [k \in 0 .. n |-> Value(k, p[k \div 2])]
           T == {n \in 0 .. e : \E p : Table(n, p)}
           M == CHOOSE p : p = [k \in 0 .. e |-> Value(k, p[k \div 2])]
<1>0. \A k \in Nat \ {0} : k \div 2 \in 0 .. k - 1
  OBVIOUS
<1>1. 0 \in T
  <2>1. [k \in 0 .. 0 |-> 1] = [k \in 0 .. 0 |-> Value(k, [i \in 0 .. 0 |-> 1][k \div 2])]
    OBVIOUS
  <2>2. \E p : Table(0, p)
    BY <2>1
  <2> HIDE DEF Table
  <2> QED
    BY <2>2
<1>2. ASSUME NEW n \in 0 .. e - 1, n \in T PROVE n + 1 \in T
  <2> PICK g : g = [k \in 0 .. n |-> Value(k, g[k \div 2])]
    BY <1>2
  <2> DEFINE f == [k \in 0 .. n + 1 |-> IF k = n + 1 THEN Value(n + 1, g[(n + 1) \div 2]) ELSE g[k]]
  <2>1. \A k \in 0 .. n : f[k] = g[k] /\ g[k] = Value(k, g[k \div 2])
    <3> HIDE DEF Value
    <3> QED
      OBVIOUS
  <2>2. f[n + 1] = Value(n + 1, g[(n + 1) \div 2]) /\ f = [k \in 0 .. n + 1 |-> f[k]]
    <3> HIDE DEF Value
    <3> QED
      OBVIOUS
  <2> HIDE DEF f
  <2>3. ASSUME NEW k \in 0 .. n + 1 PROVE f[k] = Value(k, f[k \div 2])
    <3>1. CASE k = 0
      <4>1. f[0] = Value(0, g[0 \div 2])
        <5>1. 0 \in 0 .. n
          OBVIOUS
        <5> HIDE DEF Value
        <5> QED
          BY <2>1, <5>1
      <4>2. \A root : Value(0, root) = 1
        OBVIOUS
      <4> HIDE DEF Value
      <4> QED
        BY <3>1, <4>1, <4>2
    <3>2. CASE k \in 1 .. n
      <4>1. k \div 2 \in 0 .. n /\ k \in 0 .. n
        BY <3>2
      <4> HIDE DEF Value
      <4> QED
        BY <2>1, <4>1
    <3>3. CASE k = n + 1
      <4>1. (n + 1) \div 2 \in 0 .. n
        BY <1>0
      <4> HIDE DEF Value
      <4> QED
        BY <2>1, <2>2, <3>3, <4>1
    <3> QED
      BY <3>1, <3>2, <3>3
  <2>4. f = [k \in 0 .. n + 1 |-> Value(k, f[k \div 2])]
    <3> HIDE DEF Value
    <3> QED
      BY <2>2, <2>3
  <2>5. \E p : Table(n + 1, p)
    BY <2>4
  <2> HIDE DEF Table
  <2> QED
    BY <2>5
<1>3. e \in T
  <2> HIDE DEF T
  <2>1. \A k \in 0 .. e : k \in T
    BY <1>1, <1>2, UpTo
  <2> QED
    BY <2>1
<1>4. M = [k \in 0 .. e |-> Value(k, M[k \div 2])]
  BY <1>3
<1>5. Kernels!Power(b, e) = M[e]
  BY DEF Kernels!Power
<1> HIDE DEF T, M
<1> DEFINE U == {n \in 0 .. e : \A k \in 0 .. n : M[k] \in Nat}
<1>6. 0 \in U
  BY <1>4
<1>7. ASSUME NEW n \in 0 .. e - 1, n \in U PROVE n + 1 \in U
  <2>1. (n + 1) \div 2 \in 0 .. n /\ n + 1 \in 0 .. e
    BY <1>0
  <2>2. M[(n + 1) \div 2] \in Nat
    BY <1>7, <2>1
  <2>3. PICK root \in Nat : root = M[(n + 1) \div 2]
    BY <2>2
  <2>4. root * root \in Nat /\ ((root * root) % 12289) * b \in Nat
    <3>1. root * root \in Nat
      BY SMT
    <3>2. PICK s \in Nat : s = (root * root) % 12289
      BY <3>1
    <3>3. s * b \in Nat
      BY SMT
    <3> QED
      BY <3>1, <3>2, <3>3
  <2>5. M[n + 1] = Value(n + 1, root)
    <3> HIDE DEF Value
    <3> QED
      BY <1>4, <2>1, <2>3
  <2>6. Value(n + 1, root) \in Nat
    BY <2>4 DEF Kernels!Q
  <2> HIDE DEF Value
  <2>7. \A k \in 0 .. n + 1 : k \in 0 .. n \/ k = n + 1
    OBVIOUS
  <2> QED
    BY <1>7, <2>1, <2>5, <2>6, <2>7
<1> HIDE DEF U
<1>8. \A k \in 0 .. e : k \in U
  BY <1>6, <1>7, UpTo
<1>9. e \in U
  BY <1>8
<1> QED
  BY <1>5, <1>9 DEF U

(* The entries of the tables are residues.                                 *)
LEMMA TablesIn ==
  ASSUME NEW x \in Nat, x <= 1023
  PROVE  Kernels!GMb[x] \in Kernels!Residues /\ Kernels!iGMb[x] \in Kernels!Residues
<1> DEFINE D == 0 .. 1023
<1>0. x \in D
  BY SMTT(60)
<1> HIDE DEF D
<1>1. Kernels!Rev(x, 10) \in Nat
  BY RevIs
<1>2. \A g \in Nat : Kernels!Power(g, Kernels!Rev(x, 10)) \in Nat
  <2>1. PICK e \in Nat : e = Kernels!Rev(x, 10)
    BY <1>1
  <2>2. \A g \in Nat : Kernels!Power(g, e) \in Nat
    BY PowerRange
  <2> QED
    BY <2>1, <2>2
<1>3. \A y \in Nat : (Kernels!R * y) % Kernels!Q \in Kernels!Residues
  <2>1. \A y \in Nat : (Kernels!R * y) % 12289 \in Nat /\ (Kernels!R * y) % 12289 <= 12288
    BY SMT DEF Kernels!R
  <2> QED
    BY <2>1, QIs, ResidueIs
<1>4. /\ Kernels!GMb[x] = (Kernels!R * Kernels!Power(7, Kernels!Rev(x, 10))) % Kernels!Q
      /\ Kernels!iGMb[x] = (Kernels!R * Kernels!Power(8778, Kernels!Rev(x, 10))) % Kernels!Q
  <2> DEFINE E(g, y) == (Kernels!R * Kernels!Power(g, Kernels!Rev(y, 10))) % Kernels!Q
  <2>1. Kernels!GMb = [y \in D |-> E(7, y)] /\ Kernels!iGMb = [y \in D |-> E(8778, y)]
    BY DEF Kernels!GMb, Kernels!iGMb, D
  <2>2. \A F, i, g : F = [y \in D |-> E(g, y)] /\ i \in D => F[i] = E(g, i)
    <3> HIDE DEF E
    <3> QED
      OBVIOUS
  <2>3. Kernels!GMb[x] = E(7, x) /\ Kernels!iGMb[x] = E(8778, x)
    <3> HIDE DEF E
    <3> QED
      BY <1>0, <2>1, <2>2
  <2> QED
    BY <2>3
<1>5. Kernels!Power(7, Kernels!Rev(x, 10)) \in Nat
  BY <1>2, SMT
<1>6. Kernels!Power(8778, Kernels!Rev(x, 10)) \in Nat
  BY <1>2, SMT
<1> QED
  BY <1>3, <1>4, <1>5, <1>6, SMT

(* Quotients and remainders are known by their bounds.                     *)
LEMMA DivisionIs ==
  ASSUME NEW d \in Nat \ {0}, NEW q \in Nat, NEW r \in 0 .. d - 1
  PROVE  d * q + r \in Nat /\ (d * q + r) \div d = q /\ (d * q + r) % d = r
<1> DEFINE a == d * q + r   z == a \div d   s == a % d
<1>1. a \in Nat
  BY SMT
<1>2. z \in Nat /\ s \in 0 .. d - 1 /\ d * z \in Nat /\ a = d * z + s
  <2> HIDE DEF a
  <2> QED
    BY <1>1, Quotient
<1> HIDE DEF z, s
<1>3. d * q \in Nat /\ d * (q + 1) = d * q + d /\ d * (z + 1) = d * z + d
  BY <1>2, SMT
<1>4. ~ (z < q)
  <2> SUFFICES ASSUME z + 1 <= q PROVE FALSE
    BY <1>2
  <2>1. d * (z + 1) <= d * q
    BY <1>2, SMT
  <2> QED
    BY <1>2, <1>3, <2>1
<1>5. ~ (q < z)
  <2> SUFFICES ASSUME q + 1 <= z PROVE FALSE
    BY <1>2
  <2>1. d * (q + 1) <= d * z
    BY <1>2, SMT
  <2> QED
    BY <1>2, <1>3, <2>1
<1>6. z = q
  BY <1>2, <1>4, <1>5
<1>7. s = r
  BY <1>2, <1>6
<1> QED
  BY <1>1, <1>6, <1>7 DEF z, s

(* A place in the lower half of its block of 2 * h, and its counterpart.   *)
LEMMA Counterparts ==
  ASSUME NEW h \in Nat \ {0}, NEW b \in Nat \ {0}, NEW j \in 0 .. b * (2 * h) - 1
  PROVE  /\ b * (2 * h) \in Nat /\ j \div (2 * h) \in 0 .. b - 1 /\ j % (2 * h) \in 0 .. 2 * h - 1
         /\ j % (2 * h) < h => j + h \in 0 .. b * (2 * h) - 1 /\ (j + h) % (2 * h) >= h
         /\ j % (2 * h) >= h => j - h \in 0 .. b * (2 * h) - 1 /\ (j - h) % (2 * h) < h
<1> DEFINE size == 2 * h   q == j \div size   r == j % size   n == b * size
<1>1. size \in Nat \ {0} /\ n \in Nat
  BY SMT
<1>2. q \in Nat /\ r \in 0 .. size - 1 /\ size * q \in Nat /\ j = size * q + r
  <2>1. j \in Nat
    OBVIOUS
  <2> HIDE DEF size
  <2> QED
    BY <1>1, <2>1, Quotient
<1>3. n = size * b /\ size = 2 * h
  <2>1. size = 2 * h
    OBVIOUS
  <2> HIDE DEF size
  <2>2. n = size * b
    BY <1>1, SMT
  <2> QED
    BY <2>1, <2>2
<1> HIDE DEF size, q, r, n
<1>4. q <= b - 1
  <2> SUFFICES ASSUME b <= q PROVE FALSE
    BY <1>2
  <2>1. size * b <= size * q
    BY <1>1, <1>2, SMT
  <2> QED
    BY <1>1, <1>2, <1>3, <2>1 DEF n, size
<1>5. size * (q + 1) = size * q + size /\ size * (q + 1) <= size * b
  BY <1>1, <1>2, <1>4, SMT
<1>6. CASE r < h
  <2>1. r + h \in 0 .. size - 1 /\ j + h = size * q + (r + h)
    BY <1>2, <1>3, <1>6
  <2>2. (j + h) % size = r + h
    BY <1>1, <1>2, <2>1, DivisionIs
  <2>3. j + h \in 0 .. n - 1
    BY <1>1, <1>2, <1>3, <1>5, <2>1
  <2> QED
    BY <1>1, <1>2, <1>4, <1>6, <2>1, <2>2, <2>3 DEF size, q, r, n
<1>7. CASE r >= h
  <2>1. r - h \in 0 .. size - 1 /\ j - h = size * q + (r - h) /\ r - h < h
    BY <1>2, <1>3, <1>7
  <2>2. (j - h) % size = r - h
    BY <1>1, <1>2, <2>1, DivisionIs
  <2>3. j - h \in 0 .. n - 1
    BY <1>1, <1>2, <1>3, <1>5, <2>1
  <2> QED
    BY <1>1, <1>2, <1>4, <1>7, <2>1, <2>2, <2>3 DEF size, q, r, n
<1> QED
  BY <1>2, <1>6, <1>7

LEMMA PowerBound == \A k \in 0 .. 10 : Power2(k) <= 1024
<1> SUFFICES ASSUME NEW k \in 0 .. 10 PROVE Power2(k) <= 1024
  OBVIOUS
<1>1. k \in Nat /\ 10 - k \in 0 .. 10 /\ k + (10 - k) = 10
  OBVIOUS
<1>2. Power2(k) * Power2(10 - k) = Power2(10)
  BY <1>1, PowersMultiply
<1>3. Power2(10) = 1024
  BY SMT DEF Power2
<1>4. PICK x \in Nat \ {0}, y \in Nat \ {0} : x = Power2(k) /\ y = Power2(10 - k)
  BY <1>1, PowerIs
<1>5. x * y = 1024
  BY <1>2, <1>3, <1>4
<1>6. x <= x * y
  BY SMT
<1> QED
  BY <1>4, <1>5, <1>6

(* The two places of a butterfly of 2^k blocks, and its twiddle factor.    *)
Paired(k, l, i) ==
  LET h == Power2(l)   size == Power2(l + 1)
  IN  /\ size = 2 * h /\ h \in Nat \ {0} /\ size \div 2 = h
      /\ Power2(k) + (i \div size) \in Nat /\ Power2(k) + (i \div size) <= 1023
      /\ i % size \in 0 .. size - 1
      /\ i % size < h => i + h \in 0 .. Power2(k + l + 1) - 1 /\ (i + h) % size >= h
      /\ i % size >= h => i - h \in 0 .. Power2(k + l + 1) - 1 /\ (i - h) % size < h

LEMMA PairOf ==
  ASSUME NEW k \in Nat, NEW l \in Nat, k + l <= 9, NEW j \in 0 .. Power2(k + l + 1) - 1
  PROVE  Paired(k, l, j)
<1>1. k \in 0 .. 9 /\ l \in 0 .. 9 /\ k + (l + 1) <= 10 /\ l + 1 \in Nat /\ k + (l + 1) = k + l + 1
  OBVIOUS
<1>2. PICK h \in Nat \ {0}, b \in Nat \ {0}, size \in Nat, n \in Nat :
        h = Power2(l) /\ b = Power2(k) /\ size = Power2(l + 1) /\ n = Power2(k + l + 1)
  <2>1. l \in 0 .. 10 /\ k \in 0 .. 10 /\ l + 1 \in 0 .. 10 /\ k + l + 1 \in 0 .. 10
    OBVIOUS
  <2> QED
    BY <2>1, PowerIs
<1>3. size = 2 * h
  BY <1>1, <1>2, PowerSteps
<1>4. n = b * (2 * h)
  BY <1>1, <1>2, <1>3, PowersMultiply
<1>5. b + b <= 1024
  <2>1. Power2(k + 1) = 2 * b /\ k + 1 \in 0 .. 10
    BY <1>1, <1>2, PowerSteps
  <2> QED
    BY <1>2, <2>1, PowerBound
<1>6. j \in 0 .. b * (2 * h) - 1
  BY <1>2, <1>4
<1>7. /\ j \div (2 * h) \in 0 .. b - 1 /\ j % (2 * h) \in 0 .. 2 * h - 1
      /\ j % (2 * h) < h => j + h \in 0 .. b * (2 * h) - 1 /\ (j + h) % (2 * h) >= h
      /\ j % (2 * h) >= h => j - h \in 0 .. b * (2 * h) - 1 /\ (j - h) % (2 * h) < h
  BY <1>6, Counterparts
<1>8. b + (j \div size) \in Nat /\ b + (j \div size) <= 1023
  <2>1. j \div size \in 0 .. b - 1
    BY <1>3, <1>7
  <2> QED
    BY <1>5, <2>1
<1>9. size \div 2 = h
  BY <1>3
<1> QED
  BY <1>2, <1>3, <1>4, <1>7, <1>8, <1>9 DEF Paired

-----------------------------------------------------------------------------
(* What the transforms work on stays below q.                              *)
LEMMA ConvSmallIn ==
  ASSUME NEW z \in Int, - 12289 <= z, z < 12289
  PROVE  Kernels!mq_conv_small(z) \in Kernels!Residues
BY Reduced DEF Kernels!mq_conv_small

LEMMA ConstantsIn ==
  Kernels!R \in Kernels!Residues /\ Kernels!R2 \in Kernels!Residues /\ 0 \in Kernels!Residues
<1>1. Kernels!R \in Nat /\ Kernels!R <= 12288
  BY SMT DEF Kernels!R
<1>2. Kernels!R2 \in Nat /\ Kernels!R2 <= 12288
  BY SMT DEF Kernels!R2
<1> QED
  BY <1>1, <1>2, ResidueIs

LEMMA TwiddlesIn ==
  ASSUME NEW k \in Nat, NEW l \in Nat, k + l <= 9, NEW i \in 0 .. Power2(k + l + 1) - 1
  PROVE  /\ Kernels!NttTwiddle(Power2(k), i, Power2(l + 1)) \in Kernels!Residues
         /\ Kernels!INttTwiddle(Power2(k), i, Power2(l)) \in Kernels!Residues
<1>1. /\ Power2(k) + (i \div Power2(l + 1)) \in Nat
      /\ Power2(k) + (i \div Power2(l + 1)) <= 1023
      /\ Power2(l + 1) = 2 * Power2(l)
  <2>1. Paired(k, l, i)
    BY PairOf
  <2> QED
    BY <2>1 DEF Paired
<1>2. Kernels!GMb[Power2(k) + (i \div Power2(l + 1))] \in Kernels!Residues
  BY <1>1, TablesIn
<1>3. Kernels!iGMb[Power2(k) + (i \div Power2(l + 1))] \in Kernels!Residues
  BY <1>1, TablesIn
<1>4. Kernels!NttTwiddle(Power2(k), i, Power2(l + 1)) = Kernels!GMb[Power2(k) + (i \div Power2(l + 1))]
  BY Zenon DEF Kernels!NttTwiddle
<1>5. Kernels!INttTwiddle(Power2(k), i, Power2(l)) = Kernels!iGMb[Power2(k) + (i \div Power2(l + 1))]
  BY <1>1, Zenon DEF Kernels!INttTwiddle
<1> QED
  BY <1>2, <1>3, <1>4, <1>5

LEMMA PolysAre ==
  ASSUME NEW n \in 0 .. 10
  PROVE  Kernels!Degrees(n) = 0 .. Power2(n) - 1 /\ Kernels!Polys(n) = [0 .. Power2(n) - 1 -> Kernels!Residues]
BY Zenon DEF Kernels!Degrees, Kernels!Polys, Power2

(* One pass of the transform, with the powers named.                       *)
PassOf(n, k, b) == Kernels!NttPass(b, 2^k, 2^(n - k))

LEMMA PassIn ==
  ASSUME NEW n \in 1 .. 10, NEW k \in 0 .. n - 1, NEW b \in Kernels!Polys(n)
  PROVE  PassOf(n, k, b) \in Kernels!Polys(n)
<1> DEFINE D == 0 .. Power2(n) - 1
           m == Power2(k)   size == Power2(n - k)   h == Power2(n - k - 1)
           At(i) == IF i % size < h
                      THEN Kernels!mq_add(b[i], Kernels!mq_montymul(b[i + h], Kernels!NttTwiddle(m, i, size)))
                      ELSE Kernels!mq_sub(b[i - h], Kernels!mq_montymul(b[i], Kernels!NttTwiddle(m, i, size)))
<1>1. /\ k \in Nat /\ n - k - 1 \in Nat /\ k + (n - k - 1) <= 9
      /\ k + (n - k - 1) + 1 = n /\ (n - k - 1) + 1 = n - k /\ n \in 0 .. 10
  OBVIOUS
<1>2. b \in [D -> Kernels!Residues] /\ Kernels!Polys(n) = [D -> Kernels!Residues]
  BY <1>1, PolysAre
<1>3. ASSUME NEW i \in D
      PROVE  /\ size \div 2 = h /\ i % size \in 0 .. size - 1 /\ h \in Nat
             /\ i % size < h => i + h \in D
             /\ i % size >= h => i - h \in D
             /\ Kernels!NttTwiddle(m, i, size) \in Kernels!Residues
  <2>1. i \in 0 .. Power2(k + (n - k - 1) + 1) - 1
    BY <1>1
  <2>2. Kernels!NttTwiddle(Power2(k), i, Power2((n - k - 1) + 1)) \in Kernels!Residues
    BY <1>1, <2>1, TwiddlesIn
  <2>3. LET g == Power2(n - k - 1)   s == Power2((n - k - 1) + 1)
        IN  /\ g \in Nat /\ s \div 2 = g /\ i % s \in 0 .. s - 1
            /\ i % s < g => i + g \in 0 .. Power2(k + (n - k - 1) + 1) - 1
            /\ i % s >= g => i - g \in 0 .. Power2(k + (n - k - 1) + 1) - 1
    <3>1. Paired(k, n - k - 1, i)
      BY <1>1, <2>1, PairOf
    <3> QED
      BY <3>1 DEF Paired
  <2> QED
    BY <1>1, <2>2, <2>3
<1>4. ASSUME NEW i \in D PROVE At(i) \in Kernels!Residues
  <2> DEFINE w == Kernels!NttTwiddle(m, i, size)
  <2>1. w \in Kernels!Residues /\ b[i] \in Kernels!Residues
    BY <1>2, <1>3
  <2>2. i % size \in Int /\ h \in Int /\ (i % size < h \/ i % size >= h)
    BY <1>3
  <2>3. CASE i % size < h
    <3>1. b[i + h] \in Kernels!Residues
      BY <1>2, <1>3, <2>3
    <3>2. At(i) = Kernels!mq_add(b[i], Kernels!mq_montymul(b[i + h], w))
      BY <2>3, Zenon
    <3> HIDE DEF w
    <3>3. Kernels!mq_montymul(b[i + h], w) \in Kernels!Residues
      BY <2>1, <3>1, MontymulExact
    <3> QED
      BY <2>1, <3>2, <3>3, SumsExact
  <2>4. CASE i % size >= h
    <3>1. b[i - h] \in Kernels!Residues
      BY <1>2, <1>3, <2>4
    <3>2. ~ (i % size < h)
      BY <2>2, <2>4
    <3>3. At(i) = Kernels!mq_sub(b[i - h], Kernels!mq_montymul(b[i], w))
      BY <3>2, Zenon
    <3> HIDE DEF w
    <3>4. Kernels!mq_montymul(b[i], w) \in Kernels!Residues
      BY <2>1, MontymulExact
    <3> QED
      BY <2>1, <3>1, <3>3, <3>4, SumsExact
  <2> QED
    BY <2>2, <2>3, <2>4
<1>5. PassOf(n, k, b) = [i \in D |-> At(i)]
  <2>1. 0 \in D
    BY <1>1, PowerIs
  <2>2. size \div 2 = h
    BY <1>3, <2>1
  <2>3. DOMAIN b = D
    BY <1>2
  <2>4. PassOf(n, k, b) = Kernels!NttPass(b, m, size)
    BY Zenon DEF PassOf, Power2
  <2> HIDE DEF D, m, size, h
  <2> QED
    BY <2>2, <2>3, <2>4, Zenon DEF Kernels!NttPass
<1> HIDE DEF At, D
<1> QED
  BY <1>2, <1>4, <1>5

LEMMA TransformIn ==
  ASSUME NEW n \in 1 .. 10, NEW a \in Kernels!Polys(n)
  PROVE  Kernels!mq_NTT(a, n) \in Kernels!Polys(n)
<1> DEFINE S == Kernels!Polys(n)
           Steps(r) == r = [k \in 0 .. n |-> IF k = 0 THEN a ELSE PassOf(n, k - 1, r[k - 1])]
           G == [q \in (0 .. n - 1) \X S |-> PassOf(n, q[1], q[2])]
           r == CHOOSE r : Steps(r)
<1>1. n \in Nat /\ a \in S
  OBVIOUS
<1>2. \A k \in 0 .. n - 1 : \A b \in S : PassOf(n, k, b) \in S
  BY PassIn
<1>3. Kernels!mq_NTT(a, n) = r[n]
  BY Zenon DEF Kernels!mq_NTT, Kernels!Passes, PassOf
<1> HIDE DEF S
<1>4. \A k \in 0 .. n - 1 : \A b \in S : G[<<k, b>>] = PassOf(n, k, b)
  OBVIOUS
<1>5. PICK f : RunOf(G, S, n, a, f)
  <2> HIDE DEF G
  <2>1. StaysIn(G, S, n)
    BY <1>2, <1>4 DEF StaysIn
  <2> QED
    BY <1>1, <2>1, Iterates
<1>6. Steps(f)
  <2> HIDE DEF G
  <2>1. f \in [0 .. n -> S] /\ f[0] = a /\ \A k \in 1 .. n : f[k] = G[<<k - 1, f[k - 1]>>]
    BY <1>5 DEF RunOf
  <2>2. ASSUME NEW k \in 1 .. n PROVE f[k] = PassOf(n, k - 1, f[k - 1])
    <3>1. k - 1 \in 0 .. n - 1 /\ k - 1 \in 0 .. n
      OBVIOUS
    <3>2. f[k - 1] \in S
      BY <2>1, <3>1
    <3> QED
      BY <1>4, <2>1, <3>1, <3>2
  <2> QED
    BY <2>1, <2>2
<1>7. Steps(r)
  BY <1>6
<1> HIDE DEF r
<1> DEFINE T == {k \in 0 .. n : r[k] \in S}
<1>8. 0 \in T
  BY <1>1, <1>7
<1>9. ASSUME NEW k \in 0 .. n - 1, k \in T PROVE k + 1 \in T
  <2>1. k + 1 \in 0 .. n /\ k + 1 # 0 /\ (k + 1) - 1 = k
    OBVIOUS
  <2>2. r[k + 1] = PassOf(n, k, r[k])
    BY <1>7, <2>1
  <2>3. r[k + 1] \in S
    BY <1>2, <1>9, <2>2
  <2> QED
    BY <2>1, <2>3
<1> HIDE DEF T
<1>10. \A k \in 0 .. n : k \in T
  BY <1>1, <1>8, <1>9, UpTo
<1>11. n \in T
  BY <1>1, <1>10
<1> QED
  BY <1>3, <1>11 DEF T, S

LEMMA KeyIn ==
  ASSUME NEW n \in 1 .. 10, NEW a \in Kernels!Polys(n)
  PROVE  Kernels!to_ntt_monty(a, n) \in Kernels!Polys(n)
<1>1. Kernels!mq_NTT(a, n) \in Kernels!Polys(n)
  BY TransformIn
<1>2. PICK b : b = Kernels!mq_NTT(a, n)
  OBVIOUS
<1>3. n \in 0 .. 10
  OBVIOUS
<1>4. b \in [0 .. Power2(n) - 1 -> Kernels!Residues]
  BY <1>1, <1>2, <1>3, PolysAre
<1>5. Kernels!to_ntt_monty(a, n) = [u \in DOMAIN b |-> Kernels!mq_montymul(b[u], Kernels!R2)]
  BY <1>2, Zenon DEF Kernels!to_ntt_monty, Kernels!mq_poly_tomonty
<1>6. \A u \in 0 .. Power2(n) - 1 : Kernels!mq_montymul(b[u], Kernels!R2) \in Kernels!Residues
  BY <1>4, ConstantsIn, MontymulExact
<1> QED
  BY <1>3, <1>4, <1>5, <1>6, PolysAre

(* R is halved, modulo q, as often as the degree is.                       *)
LEMMA InverseIn ==
  ASSUME NEW n \in 1 .. 10
  PROVE  Kernels!InverseOfDegree(n) \in Kernels!Residues
<1> DEFINE S == Kernels!Residues
           Steps(r) == r = [k \in 0 .. n |-> IF k = 0 THEN Kernels!R ELSE Kernels!mq_rshift1(r[k - 1])]
           G == [q \in (0 .. n - 1) \X S |-> Kernels!mq_rshift1(q[2])]
           r == CHOOSE r : Steps(r)
<1>1. n \in Nat /\ Kernels!R \in S
  BY ConstantsIn
<1>2. \A b \in S : Kernels!mq_rshift1(b) \in S
  BY HalfExact
<1>3. Kernels!InverseOfDegree(n) = r[n]
  BY Zenon DEF Kernels!InverseOfDegree, Kernels!Passes
<1> HIDE DEF S
<1>4. \A k \in 0 .. n - 1 : \A b \in S : G[<<k, b>>] = Kernels!mq_rshift1(b)
  OBVIOUS
<1>5. PICK f : RunOf(G, S, n, Kernels!R, f)
  <2> HIDE DEF G
  <2>1. StaysIn(G, S, n)
    BY <1>2, <1>4 DEF StaysIn
  <2> QED
    BY <1>1, <2>1, Iterates
<1>6. Steps(f)
  <2> HIDE DEF G
  <2>1. f \in [0 .. n -> S] /\ f[0] = Kernels!R /\ \A k \in 1 .. n : f[k] = G[<<k - 1, f[k - 1]>>]
    BY <1>5 DEF RunOf
  <2>2. ASSUME NEW k \in 1 .. n PROVE f[k] = Kernels!mq_rshift1(f[k - 1])
    <3>1. k - 1 \in 0 .. n - 1 /\ k - 1 \in 0 .. n
      OBVIOUS
    <3>2. f[k - 1] \in S
      BY <2>1, <3>1
    <3> QED
      BY <1>4, <2>1, <3>1, <3>2
  <2> QED
    BY <2>1, <2>2
<1>7. Steps(r)
  BY <1>6
<1> HIDE DEF r
<1> DEFINE T == {k \in 0 .. n : r[k] \in S}
<1>8. 0 \in T
  BY <1>1, <1>7
<1>9. ASSUME NEW k \in 0 .. n - 1, k \in T PROVE k + 1 \in T
  <2>1. k + 1 \in 0 .. n /\ k + 1 # 0 /\ (k + 1) - 1 = k
    OBVIOUS
  <2>2. r[k + 1] = Kernels!mq_rshift1(r[k])
    BY <1>7, <2>1
  <2>3. r[k + 1] \in S
    BY <1>2, <1>9, <2>2
  <2> QED
    BY <2>1, <2>3
<1> HIDE DEF T
<1>10. \A k \in 0 .. n : k \in T
  BY <1>1, <1>8, <1>9, UpTo
<1>11. n \in T
  BY <1>1, <1>10
<1> QED
  BY <1>3, <1>11 DEF T, S

LEMMA PowersGrow ==
  ASSUME NEW a \in 0 .. 10, NEW b \in 0 .. 10, a <= b
  PROVE  Power2(a) \in Nat /\ Power2(b) \in Nat /\ Power2(a) <= Power2(b)
<1>1. a \in Nat /\ b - a \in Nat /\ b - a \in 0 .. 10 /\ a + (b - a) = b /\ a + (b - a) <= 10
  OBVIOUS
<1>2. Power2(a) * Power2(b - a) = Power2(b)
  BY <1>1, PowersMultiply
<1>3. PICK x \in Nat \ {0}, y \in Nat \ {0} : x = Power2(a) /\ y = Power2(b - a)
  BY <1>1, PowerIs
<1>4. x <= x * y /\ x * y \in Nat
  BY SMT
<1> QED
  BY <1>2, <1>3, <1>4

-----------------------------------------------------------------------------
(* The passes of a kernel.                                                 *)
AllowedPasses(k, n, b) ==
  ({"ntt", "intt"} \X (0 .. n - 1)) \cup ({"multiply"} \X {0}) \cup
  (IF k = "generate" THEN {"sample", "scale", "target"} \X {0}
   ELSE ({"decode", "load", "norm", "result"} \X {0}) \cup ({"reduce"} \X (0 .. b - 1)))

LEMMA OneIn == ASSUME NEW S, NEW e \in S PROVE <<e>> \in Seq(S)
OBVIOUS

LEMMA TwoIn == ASSUME NEW S, NEW e \in S, NEW d \in S PROVE <<e, d>> \in Seq(S)
OBVIOUS

LEMMA EachIn ==
  ASSUME NEW S, NEW kind, NEW count \in Nat, {kind} \X (0 .. count - 1) \subseteq S
  PROVE  Kernels!Each(kind, count) \in Seq(S)
<1>1. \A k \in 1 .. count : <<kind, k - 1>> \in S
  <2> TAKE k \in 1 .. count
  <2>1. k - 1 \in 0 .. count - 1
    OBVIOUS
  <2> QED
    BY <2>1
<1>2. [k \in 1 .. count |-> <<kind, k - 1>>] \in [1 .. count -> S]
  BY <1>1
<1> QED
  BY <1>2 DEF Kernels!Each

LEMMA ProgramIn ==
  ASSUME kernel \in {"generate", "raw", "compressed"}, logn \in Nat, LogBlock \in Nat
  PROVE  Kernels!Program \in Seq(AllowedPasses(kernel, logn, LogBlock))
<1> DEFINE S == AllowedPasses(kernel, logn, LogBlock)
<1>1. Kernels!Transforms \in Seq(S)
  <2>1. {"ntt"} \X (0 .. logn - 1) \subseteq S /\ {"intt"} \X (0 .. logn - 1) \subseteq S /\ <<"multiply", 0>> \in S
    BY DEF AllowedPasses
  <2> HIDE DEF S
  <2>2. Kernels!Each("ntt", logn) \in Seq(S)
    BY <2>1, EachIn
  <2>3. Kernels!Each("intt", logn) \in Seq(S)
    BY <2>1, EachIn
  <2>4. <<<<"multiply", 0>>>> \in Seq(S)
    BY <2>1, OneIn
  <2>5. Kernels!Each("ntt", logn) \o <<<<"multiply", 0>>>> \in Seq(S)
    BY <2>2, <2>4, ConcatProperties
  <2>6. (Kernels!Each("ntt", logn) \o <<<<"multiply", 0>>>>) \o Kernels!Each("intt", logn) \in Seq(S)
    BY <2>3, <2>5, ConcatProperties
  <2> QED
    BY <2>6 DEF Kernels!Transforms
<1>2. CASE kernel = "generate"
  <2>1. <<"sample", 0>> \in S /\ <<"scale", 0>> \in S /\ <<"target", 0>> \in S
    BY <1>2 DEF AllowedPasses
  <2> HIDE DEF S
  <2>2. <<<<"sample", 0>>>> \in Seq(S) /\ <<<<"scale", 0>>, <<"target", 0>>>> \in Seq(S)
    BY <2>1, OneIn, TwoIn
  <2>3. <<<<"sample", 0>>>> \o Kernels!Transforms \in Seq(S)
    BY <1>1, <2>2, ConcatProperties
  <2>4. (<<<<"sample", 0>>>> \o Kernels!Transforms) \o <<<<"scale", 0>>, <<"target", 0>>>> \in Seq(S)
    BY <2>2, <2>3, ConcatProperties
  <2>5. Kernels!Program = (<<<<"sample", 0>>>> \o Kernels!Transforms) \o <<<<"scale", 0>>, <<"target", 0>>>>
    BY <1>2 DEF Kernels!Program
  <2> QED
    BY <2>4, <2>5 DEF S
<1> DEFINE E == ((Kernels!Transforms \o <<<<"norm", 0>>>>) \o Kernels!Each("reduce", LogBlock)) \o <<<<"result", 0>>>>
<1>3. CASE kernel # "generate"
  <2>1. <<"load", 0>> \in S /\ <<"norm", 0>> \in S /\ <<"result", 0>> \in S /\ <<"decode", 0>> \in S
        /\ {"reduce"} \X (0 .. LogBlock - 1) \subseteq S
    BY <1>3 DEF AllowedPasses
  <2> HIDE DEF S
  <2>2. /\ <<<<"load", 0>>>> \in Seq(S) /\ <<<<"decode", 0>>, <<"load", 0>>>> \in Seq(S)
        /\ <<<<"norm", 0>>>> \in Seq(S) /\ <<<<"result", 0>>>> \in Seq(S)
    BY <2>1, OneIn, TwoIn
  <2>3. Kernels!Each("reduce", LogBlock) \in Seq(S)
    BY <2>1, EachIn
  <2> DEFINE start == IF kernel = "raw" THEN <<<<"load", 0>>>> ELSE <<<<"decode", 0>>, <<"load", 0>>>>
             a == start \o Kernels!Transforms
             b == a \o <<<<"norm", 0>>>>
             c == b \o Kernels!Each("reduce", LogBlock)
  <2>4. start \in Seq(S)
    BY <2>2
  <2>5. Kernels!Program = c \o <<<<"result", 0>>>>
    BY <1>3 DEF Kernels!Program
  <2> HIDE DEF start
  <2>6. a \in Seq(S)
    BY <1>1, <2>4, ConcatProperties
  <2> HIDE DEF a
  <2>7. b \in Seq(S)
    BY <2>2, <2>6, ConcatProperties
  <2> HIDE DEF b
  <2>8. c \in Seq(S)
    BY <2>3, <2>7, ConcatProperties
  <2> HIDE DEF c
  <2>9. c \o <<<<"result", 0>>>> \in Seq(S)
    BY <2>2, <2>8, ConcatProperties
  <2> QED
    BY <2>5, <2>9 DEF S
<1> QED
  BY <1>2, <1>3

(* What a pass that is under way can be.                                   *)
PassNow ==
  /\ Kernels!Kind \in {"sample", "decode", "load", "ntt", "multiply", "intt", "scale", "target",
                       "norm", "reduce", "result"}
  /\ Kernels!Kind \in {"ntt", "intt"} => Kernels!Round \in 0 .. logn - 1
  /\ Kernels!Kind = "reduce" => Kernels!Round \in 0 .. LogBlock - 1
  /\ Kernels!Kind \in {"load", "norm"} => kernel # "generate"

LEMMA PassIs ==
  ASSUME kernel \in {"generate", "raw", "compressed"}, logn \in Nat, LogBlock \in Nat,
         pass \in 0 .. Len(Kernels!Program), ~ Kernels!Finished
  PROVE  PassNow /\ pass + 1 \in 0 .. Len(Kernels!Program)
<1> DEFINE S == AllowedPasses(kernel, logn, LogBlock)
           P == Kernels!Program
<1>1. P \in Seq(S)
  BY ProgramIn
<1>2. pass + 1 \in 1 .. Len(P)
  <2>1. pass # Len(P)
    BY DEF Kernels!Finished
  <2> HIDE DEF P
  <2> QED
    BY <1>1, <2>1, LenProperties DEF P
<1>3. P[pass + 1] \in S
  <2> HIDE DEF P, S
  <2> QED
    BY <1>1, <1>2, ElementOfSeq
<1>4. PICK e \in S : Kernels!Kind = e[1] /\ Kernels!Round = e[2]
  <2> HIDE DEF S
  <2> QED
    BY <1>3 DEF Kernels!Kind, Kernels!Round
<1>5. PassNow
  BY <1>4 DEF PassNow, AllowedPasses
<1> QED
  BY <1>2, <1>5

-----------------------------------------------------------------------------
(* What stays as it is while the passes do.                                *)
LEMMA SizesAre ==
  ASSUME Kernels!BlockAssumption, Kernels!Given
  PROVE  /\ logn \in 1 .. 10 /\ LogBlock \in 0 .. 10
         /\ Kernels!N = Power2(logn) /\ Kernels!BlockDim = Power2(LogBlock)
         /\ Power2(logn) \in Nat \ {0} /\ Power2(LogBlock) \in Nat \ {0}
         /\ Kernels!Degrees(logn) = 0 .. Power2(logn) - 1
         /\ Kernels!Threads = 0 .. Power2(LogBlock) - 1
         /\ Kernels!Polys(logn) = [0 .. Power2(logn) - 1 -> Kernels!Residues]
<1>1. logn \in 1 .. 10 /\ LogBlock \in 0 .. 10
  BY DEF Kernels!BlockAssumption, Kernels!Given
<1>2. logn \in 0 .. 10
  BY <1>1
<1>3. Kernels!N = Power2(logn) /\ Kernels!BlockDim = Power2(LogBlock)
  BY Zenon DEF Kernels!N, Kernels!BlockDim, Power2
<1>4. Kernels!Threads = 0 .. Power2(LogBlock) - 1
  BY <1>3, Zenon DEF Kernels!Threads
<1>5. Power2(logn) \in Nat \ {0} /\ Power2(LogBlock) \in Nat \ {0}
  BY <1>1, <1>2, PowerIs
<1> QED
  BY <1>1, <1>2, <1>3, <1>4, <1>5, PolysAre

LEMMA CellsAre ==
  ASSUME Kernels!BlockAssumption, Kernels!Given
  PROVE  /\ \A i \in Kernels!Degrees(logn) : <<"tt", i>> \in Kernels!Cells /\ <<"hm", i>> \in Kernels!Cells
         /\ \A th \in Kernels!Threads : <<"sum", th>> \in Kernels!Cells
         /\ <<"ok", 0>> \in Kernels!Cells
         /\ \A cell \in Kernels!Cells : cell = <<cell[1], cell[2]>> /\ cell[1] \in Kernels!Arrays /\ cell[2] \in Nat
<1> DEFINE n == Power2(logn)   b == Power2(LogBlock)   most == IF b > n THEN b ELSE n
<1>1. n \in Nat \ {0} /\ b \in Nat \ {0}
  BY SizesAre
<1>2. Kernels!Degrees(logn) = 0 .. n - 1 /\ Kernels!Threads = 0 .. b - 1
  BY SizesAre
<1>3. Kernels!Cells = Kernels!Arrays \X (0 .. most - 1)
  BY SizesAre, Zenon DEF Kernels!Cells
<1> HIDE DEF n, b
<1>4. most \in Nat \ {0} /\ 0 .. n - 1 \subseteq 0 .. most - 1 /\ 0 .. b - 1 \subseteq 0 .. most - 1 /\ 0 \in 0 .. most - 1
  BY <1>1
<1>5. {"tt", "hm", "sum", "ok"} = Kernels!Arrays
  BY DEF Kernels!Arrays
<1> HIDE DEF most
<1>6. \A a \in Kernels!Arrays, i \in 0 .. most - 1 : <<a, i>> \in Kernels!Cells
  BY <1>3
<1>7. ASSUME NEW cell \in Kernels!Cells
      PROVE  cell = <<cell[1], cell[2]>> /\ cell[1] \in Kernels!Arrays /\ cell[2] \in Nat
  <2>1. PICK a \in Kernels!Arrays, i \in 0 .. most - 1 : cell = <<a, i>>
    BY <1>3
  <2> QED
    BY <1>4, <2>1
<1> QED
  BY <1>2, <1>4, <1>5, <1>6, <1>7

LEMMA StaysGiven ==
  ASSUME Kernels!Given, UNCHANGED <<kernel, logn, given>>
  PROVE  Kernels!Given'
BY DEF Kernels!Given, Kernels!Degrees, Kernels!Polys

LEMMA SamePass ==
  ASSUME UNCHANGED <<kernel, logn>>
  PROVE  /\ Kernels!Program' = Kernels!Program
         /\ Kernels!Cells' = Kernels!Cells
         /\ Kernels!Degrees(logn)' = Kernels!Degrees(logn)
         /\ Kernels!Polys(logn)' = Kernels!Polys(logn)
<1>1. kernel' = kernel /\ logn' = logn
  OBVIOUS
<1>2. Kernels!Program' = Kernels!Program
  BY <1>1, Zenon DEF Kernels!Program, Kernels!Transforms, Kernels!Each
<1>3. Kernels!Cells' = Kernels!Cells
  BY <1>1, Zenon DEF Kernels!Cells, Kernels!N
<1> QED
  BY <1>1, <1>2, <1>3, Zenon DEF Kernels!Degrees, Kernels!Polys

LEMMA SameOwners ==
  ASSUME UNCHANGED <<kernel, logn, pass>>
  PROVE  /\ Kernels!Finished' = Kernels!Finished
         /\ \A cell : Kernels!Owner(cell)' = Kernels!Owner(cell)
<1>1. Kernels!Program' = Kernels!Program /\ kernel' = kernel /\ logn' = logn /\ pass' = pass
  BY SamePass
<1>2. Kernels!Finished' = Kernels!Finished /\ Kernels!Kind' = Kernels!Kind /\ Kernels!Round' = Kernels!Round
  BY <1>1, Zenon DEF Kernels!Finished, Kernels!Kind, Kernels!Round
<1> QED
  BY <1>1, <1>2, Zenon DEF Kernels!Owner, Kernels!LowerOf, Kernels!Butterfly, Kernels!Stride

LEMMA TouchKeeps ==
  ASSUME Kernels!SharesInv, ~ Kernels!Finished, NEW th \in Kernels!Threads, NEW read, NEW written,
         \A cell \in Kernels!Cells : cell \in read \cup written => Kernels!Owner(cell) = th,
         Kernels!Touch(th, read, written), UNCHANGED <<kernel, logn, pass>>
  PROVE  /\ readers' \in [Kernels!Cells' -> SUBSET Kernels!Threads]
         /\ writers' \in [Kernels!Cells' -> SUBSET Kernels!Threads]
         /\ \A cell \in Kernels!Cells' : IF Kernels!Finished' THEN Kernels!Touched(cell)' = {}
                                         ELSE Kernels!Touched(cell)' \subseteq {Kernels!Owner(cell)'}
<1> DEFINE C == Kernels!Cells
<1>1. /\ readers \in [C -> SUBSET Kernels!Threads] /\ writers \in [C -> SUBSET Kernels!Threads]
      /\ \A cell \in C : readers[cell] \cup writers[cell] \subseteq {Kernels!Owner(cell)}
  BY DEF Kernels!SharesInv, Kernels!Touched
<1>2. /\ readers' = [c \in C |-> IF c \in read THEN readers[c] \cup {th} ELSE readers[c]]
      /\ writers' = [c \in C |-> IF c \in written THEN writers[c] \cup {th} ELSE writers[c]]
  BY DEF Kernels!Touch
<1>3. C' = C /\ Kernels!Finished' = Kernels!Finished /\ \A cell : Kernels!Owner(cell)' = Kernels!Owner(cell)
  BY SamePass, SameOwners
<1>4. \A cell \in C : cell \in read \cup written => Kernels!Owner(cell) = th
  OBVIOUS
<1> HIDE DEF C
<1>5. readers' \in [C -> SUBSET Kernels!Threads] /\ writers' \in [C -> SUBSET Kernels!Threads]
  BY <1>1, <1>2
<1>6. ASSUME NEW cell \in C PROVE readers'[cell] \cup writers'[cell] \subseteq {Kernels!Owner(cell)}
  <2>1. CASE cell \in read \cup written
    BY <1>1, <1>2, <1>4, <2>1
  <2>2. CASE cell \notin read \cup written
    BY <1>1, <1>2, <2>2
  <2> QED
    BY <2>1, <2>2
<1>7. \A cell : Kernels!Touched(cell)' = readers'[cell] \cup writers'[cell]
  BY DEF Kernels!Touched
<1> QED
  BY <1>3, <1>5, <1>6, <1>7 DEF C

(* Where a thread that still has something to do in this pass is.          *)
LEMMA StridesAre ==
  ASSUME LogBlock \in 0 .. 10, NEW k \in 0 .. LogBlock - 1
  PROVE  /\ Kernels!Stride(k) = Power2(LogBlock - 1 - k) /\ Kernels!Stride(k) \in Nat \ {0}
         /\ Kernels!Stride(k) + Kernels!Stride(k) <= Power2(LogBlock)
<1>1. Kernels!Stride(k) = Power2(LogBlock - 1 - k)
  BY Zenon DEF Kernels!Stride, Power2
<1>2. LogBlock - 1 - k \in 0 .. 9 /\ LogBlock - 1 - k \in 0 .. 10 /\ (LogBlock - 1 - k) + 1 \in 0 .. 10
      /\ (LogBlock - 1 - k) + 1 <= LogBlock
  OBVIOUS
<1>3. Power2(LogBlock - 1 - k) \in Nat \ {0}
  BY <1>2, PowerIs
<1>4. Power2((LogBlock - 1 - k) + 1) = 2 * Power2(LogBlock - 1 - k)
  BY <1>2, PowerSteps
<1>5. Power2((LogBlock - 1 - k) + 1) <= Power2(LogBlock)
  BY <1>2, PowersGrow
<1>6. Power2(LogBlock) \in Nat
  BY PowerIs
<1> QED
  BY <1>1, <1>3, <1>4, <1>5, <1>6

LEMMA WorkIs ==
  ASSUME Kernels!BlockAssumption, Kernels!Given, Kernels!SharesInv, ~ Kernels!Finished,
         NEW th \in Kernels!Threads, loops[th] < Kernels!Limit(th)
  PROVE  /\ PassNow
         /\ Kernels!OverCoefficients =>
              loops[th] \in 0 .. Power2(logn) - 1 /\ loops[th] % Power2(LogBlock) = th
         /\ Kernels!Kind = "reduce" =>
              /\ Kernels!Stride(Kernels!Round) \in Nat \ {0}
              /\ loops[th] = th /\ th < Kernels!Stride(Kernels!Round)
              /\ th + Kernels!Stride(Kernels!Round) \in Kernels!Threads
         /\ Kernels!Kind \in {"decode", "result"} => th = 0
<1> DEFINE n == Power2(logn)   b == Power2(LogBlock)
<1>1. /\ logn \in 1 .. 10 /\ LogBlock \in 0 .. 10 /\ n \in Nat \ {0} /\ b \in Nat \ {0}
      /\ Kernels!N = n /\ Kernels!BlockDim = b /\ Kernels!Threads = 0 .. b - 1
  BY SizesAre
<1>2. PassNow
  BY <1>1, PassIs DEF Kernels!Given, Kernels!SharesInv
<1>3. loops[th] \in Nat /\ loops[th] >= th /\ (loops[th] - th) % b = 0 /\ th \in 0 .. b - 1
  BY <1>1 DEF Kernels!SharesInv
<1> HIDE DEF n, b
<1>4. ASSUME Kernels!OverCoefficients PROVE loops[th] \in 0 .. n - 1 /\ loops[th] % b = th
  <2>1. Kernels!Limit(th) = n
    BY <1>1, <1>4 DEF Kernels!Limit, Kernels!OverCoefficients
  <2>2. PICK q \in Nat : loops[th] - th = b * q
    <3>1. loops[th] - th \in Nat
      BY <1>1, <1>3
    <3>2. PICK a \in Nat : a = loops[th] - th
      BY <3>1
    <3>3. a = b * (a \div b) + (a % b) /\ a \div b \in Nat /\ b * (a \div b) \in Nat
      BY <1>1, <3>2, Quotient
    <3> QED
      BY <1>3, <3>2, <3>3
  <2>3. b * q + th \in Nat /\ (b * q + th) % b = th
    <3>1. b \in Nat \ {0} /\ q \in Nat /\ th \in 0 .. b - 1
      BY <1>1, <1>3
    <3> QED
      BY <3>1, DivisionIs, Zenon
  <2>4. b * q \in Nat
    BY <1>1, SMT
  <2>5. loops[th] = b * q + th
    BY <1>1, <1>3, <2>2, <2>4
  <2> QED
    BY <1>1, <1>3, <2>1, <2>3, <2>5
<1>5. ASSUME Kernels!Kind = "reduce"
      PROVE  /\ Kernels!Stride(Kernels!Round) \in Nat \ {0}
             /\ loops[th] = th /\ th < Kernels!Stride(Kernels!Round)
             /\ th + Kernels!Stride(Kernels!Round) \in Kernels!Threads
  <2> DEFINE s == Kernels!Stride(Kernels!Round)
  <2>1. Kernels!Round \in 0 .. LogBlock - 1
    BY <1>2, <1>5 DEF PassNow
  <2>2. s \in Nat \ {0} /\ s + s <= b
    BY <1>1, <2>1, StridesAre DEF b
  <2>3. Kernels!Limit(th) = th + (IF th < s THEN 1 ELSE 0)
    BY <1>5, Zenon DEF Kernels!Limit, Kernels!OverCoefficients, Kernels!Stride
  <2> HIDE DEF s
  <2>4. loops[th] = th /\ th < s
    BY <1>1, <1>3, <2>2, <2>3
  <2>5. th + s \in Kernels!Threads
    BY <1>1, <1>3, <2>2, <2>4
  <2> QED
    BY <2>2, <2>4, <2>5 DEF s
<1>6. ASSUME Kernels!Kind \in {"decode", "result"} PROVE th = 0
  <2>1. Kernels!Limit(th) = IF th = 0 THEN 1 ELSE th
    BY <1>6 DEF Kernels!Limit, Kernels!OverCoefficients
  <2> QED
    BY <1>1, <1>3, <2>1
<1> QED
  BY <1>2, <1>4, <1>5, <1>6 DEF n, b

LEMMA OwnersAre ==
  ASSUME NEW i
  PROVE  /\ Kernels!Kind \notin {"decode", "ntt", "intt"} =>
              Kernels!Owner(<<"tt", i>>) = i % Kernels!BlockDim /\ Kernels!Owner(<<"hm", i>>) = i % Kernels!BlockDim
         /\ Kernels!Kind = "ntt" =>
              Kernels!Owner(<<"tt", i>>) = Kernels!LowerOf(i, 2^(logn - Kernels!Round)) % Kernels!BlockDim
         /\ Kernels!Kind = "intt" =>
              Kernels!Owner(<<"tt", i>>) = Kernels!LowerOf(i, 2 * 2^(Kernels!Round)) % Kernels!BlockDim
         /\ Kernels!Kind = "decode" => Kernels!Owner(<<"hm", i>>) = 0 /\ Kernels!Owner(<<"ok", i>>) = 0
         /\ Kernels!Kind = "reduce" =>
              Kernels!Owner(<<"sum", i>>) =
                IF i >= Kernels!Stride(Kernels!Round) THEN i - Kernels!Stride(Kernels!Round) ELSE i
         /\ Kernels!Kind # "reduce" => Kernels!Owner(<<"sum", i>>) = i
BY DEF Kernels!Owner

(* A thread's next place is its own again.                                 *)
LEMMA LoopKeeps ==
  ASSUME Kernels!BlockAssumption, Kernels!Given, Kernels!SharesInv, NEW th \in Kernels!Threads,
         loops' = [loops EXCEPT ![th] = Kernels!NextIteration(@)]
  PROVE  /\ loops' \in [Kernels!Threads -> Nat]
         /\ \A s \in Kernels!Threads : loops'[s] >= s /\ (loops'[s] - s) % Kernels!BlockDim = 0
<1> DEFINE b == Power2(LogBlock)
<1>1. b \in Nat \ {0} /\ Kernels!BlockDim = b /\ Kernels!Threads = 0 .. b - 1
  BY SizesAre
<1>2. /\ loops \in [Kernels!Threads -> Nat]
      /\ \A s \in Kernels!Threads : loops[s] >= s /\ (loops[s] - s) % b = 0
  BY <1>1 DEF Kernels!SharesInv
<1>3. loops' = [loops EXCEPT ![th] = loops[th] + b]
  BY <1>1 DEF Kernels!NextIteration
<1> HIDE DEF b
<1>4. PICK z \in Nat : z = loops[th] /\ z >= th /\ (z - th) % b = 0
  BY <1>2
<1>5. th \in Nat
  BY <1>1
<1>6. (z + b - th) % b = 0 /\ z + b >= th /\ z + b \in Nat
  <2>1. PICK a \in Nat : a = z - th
    BY <1>4, <1>5
  <2>2. a \div b \in Nat /\ b * (a \div b) \in Nat /\ a = b * (a \div b) + (a % b)
    BY <1>1, Quotient
  <2>3. PICK q \in Nat : q = a \div b
    BY <2>2
  <2>4. a = b * q /\ b * q \in Nat
    BY <1>4, <2>1, <2>2, <2>3
  <2>5. b * (q + 1) = b * q + b
    BY <1>1, SMT
  <2>6. 0 \in 0 .. b - 1 /\ q + 1 \in Nat
    BY <1>1
  <2>7. (b * (q + 1) + 0) % b = 0
    BY <1>1, <2>6, DivisionIs
  <2>8. z + b - th = b * (q + 1) + 0
    <3>1. PICK p \in Nat : p = b * q
      BY <2>4
    <3>2. p = z - th
      BY <2>1, <2>4, <3>1
    <3>4. b \in Nat
      BY <1>1
    <3>5. z + b - th = p + b
      BY <1>5, <3>2, <3>4
    <3>3. b * (q + 1) + 0 = p + b
      BY <1>1, <2>5, <3>1
    <3> QED
      BY <3>3, <3>5
  <2>9. (z + b - th) % b = 0
    BY <2>7, <2>8
  <2>10. z + b >= th /\ z + b \in Nat
    BY <1>1, <1>4, <1>5
  <2> QED
    BY <2>9, <2>10, Zenon
<1>7. loops' = [loops EXCEPT ![th] = z + b]
  BY <1>3, <1>4
<1>8. loops' \in [Kernels!Threads -> Nat]
  BY <1>2, <1>6, <1>7
<1>9. ASSUME NEW s \in Kernels!Threads PROVE loops'[s] >= s /\ (loops'[s] - s) % b = 0
  <2>1. CASE s = th
    <3>1. loops'[s] = z + b
      BY <1>2, <1>7, <2>1
    <3>2. loops'[s] - s = z + b - th
      <4>1. b \in Nat
        BY <1>1
      <4> QED
        BY <1>5, <2>1, <3>1, <4>1
    <3> QED
      BY <1>6, <2>1, <3>1, <3>2
  <2>2. CASE s # th
    <3>1. loops'[s] = loops[s]
      BY <1>2, <1>7, <2>2
    <3> QED
      BY <1>2, <3>1
  <2> QED
    BY <2>1, <2>2
<1> QED
  BY <1>1, <1>8, <1>9

(* The two places of a butterfly belong to the thread of the lower one.    *)
LEMMA LowersAre ==
  ASSUME NEW k \in Nat, NEW l \in Nat, NEW i \in Nat, Paired(k, l, i), i % Power2(l + 1) < Power2(l)
  PROVE  /\ Kernels!Butterfly(i, Power2(l + 1))
         /\ Kernels!LowerOf(i, Power2(l + 1)) = i
         /\ Kernels!LowerOf(i + Power2(l), Power2(l + 1)) = i
<1> DEFINE h == Power2(l)   size == Power2(l + 1)
<1>1. h \in Nat /\ size = 2 * h /\ size \div 2 = h /\ (i + h) % size >= h
  BY DEF Paired
<1>2. size \in Nat \ {0} /\ i + h \in Nat
  BY DEF Paired
<1>3. PICK a \in Nat : a = (i + h) % size
  BY <1>2, Quotient
<1> HIDE DEF h, size
<1>4. ~ ((i + h) % size < size \div 2)
  BY <1>1, <1>3
<1>5. i % size < size \div 2
  BY <1>1 DEF h, size
<1>6. i + h - h = i
  BY <1>1
<1>7. (i + h) - size \div 2 = i
  BY <1>1, <1>6
<1>8. Kernels!LowerOf(i, size) = i /\ Kernels!Butterfly(i, size)
  BY <1>5, Zenon DEF Kernels!LowerOf, Kernels!Butterfly
<1>9. Kernels!LowerOf(i + h, size) = i
  BY <1>4, <1>7, Zenon DEF Kernels!LowerOf, Kernels!Butterfly
<1> QED
  BY <1>8, <1>9 DEF h, size

LEMMA NttPlaces ==
  ASSUME Kernels!BlockAssumption, Kernels!Given, Kernels!Kind = "ntt", Kernels!Round \in 0 .. logn - 1,
         NEW c \in 0 .. Power2(logn) - 1
  PROVE  /\ Paired(Kernels!Round, logn - Kernels!Round - 1, c)
         /\ Kernels!NttTwiddle(Power2(Kernels!Round), c, Power2(logn - Kernels!Round)) \in Kernels!Residues
         /\ (logn - Kernels!Round - 1) + 1 = logn - Kernels!Round
         /\ Kernels!Round + (logn - Kernels!Round - 1) + 1 = logn
         /\ c % Power2(logn - Kernels!Round) < Power2(logn - Kernels!Round - 1) =>
              /\ Kernels!Owner(<<"tt", c>>) = c % Power2(LogBlock)
              /\ Kernels!Owner(<<"tt", c + Power2(logn - Kernels!Round - 1)>>) = c % Power2(LogBlock)
<1> DEFINE k == Kernels!Round   l == logn - Kernels!Round - 1
<1>0. logn \in 1 .. 10 /\ Power2(logn) \in Nat
  BY SizesAre
<1>1. k \in Nat /\ l \in Nat /\ k + l <= 9 /\ k + l + 1 = logn /\ l + 1 = logn - k /\ c \in Nat
  BY <1>0
<1> HIDE DEF k
<1>2. c \in 0 .. Power2(k + l + 1) - 1
  BY <1>1
<1>3. Paired(k, l, c)
  BY <1>1, <1>2, PairOf
<1>4. Kernels!NttTwiddle(Power2(k), c, Power2(l + 1)) \in Kernels!Residues
  BY <1>1, <1>2, TwiddlesIn
<1>5. ASSUME c % Power2(l + 1) < Power2(l)
      PROVE  /\ Kernels!Owner(<<"tt", c>>) = c % Power2(LogBlock)
             /\ Kernels!Owner(<<"tt", c + Power2(l)>>) = c % Power2(LogBlock)
  <2>1. \A i : Kernels!Owner(<<"tt", i>>) = Kernels!LowerOf(i, 2^(logn - k)) % Kernels!BlockDim
    BY OwnersAre DEF k
  <2>2. \A i : Kernels!Owner(<<"tt", i>>) = Kernels!LowerOf(i, Power2(logn - k)) % Kernels!BlockDim
    BY <2>1, Zenon DEF Power2
  <2>3. Kernels!LowerOf(c, Power2(l + 1)) = c /\ Kernels!LowerOf(c + Power2(l), Power2(l + 1)) = c
    BY <1>1, <1>3, <1>5, LowersAre
  <2>4. Kernels!BlockDim = Power2(LogBlock)
    BY SizesAre
  <2> HIDE DEF l
  <2> QED
    BY <1>1, <2>2, <2>3, <2>4
<1> QED
  BY <1>1, <1>3, <1>4, <1>5 DEF k

LEMMA INttPlaces ==
  ASSUME Kernels!BlockAssumption, Kernels!Given, Kernels!Kind = "intt", Kernels!Round \in 0 .. logn - 1,
         NEW c \in 0 .. Power2(logn) - 1
  PROVE  /\ Paired(logn - Kernels!Round - 1, Kernels!Round, c)
         /\ Kernels!INttTwiddle(Power2(logn - Kernels!Round - 1), c, Power2(Kernels!Round)) \in Kernels!Residues
         /\ (logn - Kernels!Round - 1) + Kernels!Round + 1 = logn
         /\ c % Power2(Kernels!Round + 1) < Power2(Kernels!Round) =>
              /\ Kernels!Owner(<<"tt", c>>) = c % Power2(LogBlock)
              /\ Kernels!Owner(<<"tt", c + Power2(Kernels!Round)>>) = c % Power2(LogBlock)
<1> DEFINE l == Kernels!Round   k == logn - Kernels!Round - 1
<1>n. logn \in 1 .. 10 /\ Power2(logn) \in Nat
  BY SizesAre
<1>1. k \in Nat /\ l \in Nat /\ k + l <= 9 /\ k + l + 1 = logn /\ c \in Nat
  BY <1>n
<1>0. l \in 0 .. 9
  BY <1>n
<1> HIDE DEF l
<1>2. c \in 0 .. Power2(k + l + 1) - 1
  BY <1>1
<1>3. Paired(k, l, c)
  BY <1>1, <1>2, PairOf
<1>4. Kernels!INttTwiddle(Power2(k), c, Power2(l)) \in Kernels!Residues
  BY <1>1, <1>2, TwiddlesIn
<1>5. ASSUME c % Power2(l + 1) < Power2(l)
      PROVE  /\ Kernels!Owner(<<"tt", c>>) = c % Power2(LogBlock)
             /\ Kernels!Owner(<<"tt", c + Power2(l)>>) = c % Power2(LogBlock)
  <2>1. \A i : Kernels!Owner(<<"tt", i>>) = Kernels!LowerOf(i, 2 * 2^l) % Kernels!BlockDim
    BY OwnersAre DEF l
  <2>2. \A i : Kernels!Owner(<<"tt", i>>) = Kernels!LowerOf(i, 2 * Power2(l)) % Kernels!BlockDim
    BY <2>1, Zenon DEF Power2
  <2>3. Kernels!LowerOf(c, Power2(l + 1)) = c /\ Kernels!LowerOf(c + Power2(l), Power2(l + 1)) = c
    BY <1>1, <1>3, <1>5, LowersAre
  <2>4. Kernels!BlockDim = Power2(LogBlock)
    BY SizesAre
  <2>5. Power2(l + 1) = 2 * Power2(l)
    BY <1>0, PowerSteps
  <2> HIDE DEF k
  <2> QED
    BY <1>1, <2>2, <2>3, <2>4, <2>5
<1> QED
  BY <1>1, <1>3, <1>4, <1>5 DEF l

(* The butterflies of the kernels, with the powers named.                  *)
NttTouch(th, c) ==
  LET s == Power2(logn - Kernels!Round)   h == Power2(logn - Kernels!Round - 1)
      v == Kernels!mq_montymul(tt[c + h], Kernels!NttTwiddle(Power2(Kernels!Round), c, s))
  IN  IF c % s < h
        THEN /\ tt' = [tt EXCEPT ![c] = Kernels!mq_add(tt[c], v), ![c + h] = Kernels!mq_sub(tt[c], v)]
             /\ Kernels!Touch(th, {}, {<<"tt", c>>, <<"tt", c + h>>})
        ELSE UNCHANGED <<tt, readers, writers>>

LEMMA NttStep ==
  ASSUME Kernels!BlockAssumption, Kernels!Given, Kernels!Round \in 0 .. logn - 1,
         NEW c \in 0 .. Power2(logn) - 1, NEW th, Kernels!NttIteration(th, c)
  PROVE  NttTouch(th, c)
<1> DEFINE s == Power2(logn - Kernels!Round)   h == Power2(logn - Kernels!Round - 1)
<1>1. Kernels!Kind = "ntt"
  BY DEF Kernels!NttIteration
<1>2. s \div 2 = h
  <2>1. /\ Paired(Kernels!Round, logn - Kernels!Round - 1, c)
        /\ (logn - Kernels!Round - 1) + 1 = logn - Kernels!Round
    BY <1>1, NttPlaces
  <2> QED
    BY <2>1 DEF Paired
<1>3. LET ht == s \div 2
          v == Kernels!mq_montymul(tt[c + ht], Kernels!NttTwiddle(Power2(Kernels!Round), c, s))
      IN  IF c % s < s \div 2
            THEN /\ tt' = [tt EXCEPT ![c] = Kernels!mq_add(tt[c], v), ![c + ht] = Kernels!mq_sub(tt[c], v)]
                 /\ Kernels!Touch(th, {}, {<<"tt", c>>, <<"tt", c + ht>>})
            ELSE UNCHANGED <<tt, readers, writers>>
  BY Zenon DEF Kernels!NttIteration, Kernels!Butterfly, Power2
<1> HIDE DEF s, h
<1>4. LET v == Kernels!mq_montymul(tt[c + h], Kernels!NttTwiddle(Power2(Kernels!Round), c, s))
      IN  IF c % s < h
            THEN /\ tt' = [tt EXCEPT ![c] = Kernels!mq_add(tt[c], v), ![c + h] = Kernels!mq_sub(tt[c], v)]
                 /\ Kernels!Touch(th, {}, {<<"tt", c>>, <<"tt", c + h>>})
            ELSE UNCHANGED <<tt, readers, writers>>
  BY <1>2, <1>3, Zenon
<1> QED
  BY <1>4 DEF NttTouch, s, h

INttTouch(th, c) ==
  LET s == Power2(Kernels!Round + 1)   h == Power2(Kernels!Round)
      w == Kernels!mq_sub(tt[c], tt[c + h])
      v == Kernels!mq_montymul(w, Kernels!INttTwiddle(Power2(logn - Kernels!Round - 1), c, h))
  IN  IF c % s < h
        THEN /\ tt' = [tt EXCEPT ![c] = Kernels!mq_add(tt[c], tt[c + h]), ![c + h] = v]
             /\ Kernels!Touch(th, {}, {<<"tt", c>>, <<"tt", c + h>>})
        ELSE UNCHANGED <<tt, readers, writers>>

LEMMA INttStep ==
  ASSUME Kernels!BlockAssumption, Kernels!Given, Kernels!Round \in 0 .. logn - 1,
         NEW c \in 0 .. Power2(logn) - 1, NEW th, Kernels!INttIteration(th, c)
  PROVE  INttTouch(th, c)
<1> DEFINE s == Power2(Kernels!Round + 1)   h == Power2(Kernels!Round)
<1>1. Kernels!Kind = "intt"
  BY DEF Kernels!INttIteration
<1>2. s \div 2 = h /\ s = 2 * h
  <2>1. Paired(logn - Kernels!Round - 1, Kernels!Round, c)
    BY <1>1, INttPlaces
  <2> QED
    BY <2>1 DEF Paired
<1>3. LET w == Kernels!mq_sub(tt[c], tt[c + h])
          v == Kernels!mq_montymul(w, Kernels!INttTwiddle(Power2(logn - Kernels!Round - 1), c, h))
      IN  IF c % (2 * h) < (2 * h) \div 2
            THEN /\ tt' = [tt EXCEPT ![c] = Kernels!mq_add(tt[c], tt[c + h]), ![c + h] = v]
                 /\ Kernels!Touch(th, {}, {<<"tt", c>>, <<"tt", c + h>>})
            ELSE UNCHANGED <<tt, readers, writers>>
  BY Zenon DEF Kernels!INttIteration, Kernels!Butterfly, Power2
<1> HIDE DEF s, h
<1>4. LET w == Kernels!mq_sub(tt[c], tt[c + h])
          v == Kernels!mq_montymul(w, Kernels!INttTwiddle(Power2(logn - Kernels!Round - 1), c, h))
      IN  IF c % s < h
            THEN /\ tt' = [tt EXCEPT ![c] = Kernels!mq_add(tt[c], tt[c + h]), ![c + h] = v]
                 /\ Kernels!Touch(th, {}, {<<"tt", c>>, <<"tt", c + h>>})
            ELSE UNCHANGED <<tt, readers, writers>>
  BY <1>2, <1>3, Zenon
<1> QED
  BY <1>4 DEF INttTouch, s, h

LEMMA SharesKept ==
  ASSUME Kernels!BlockAssumption, Kernels!Given, Kernels!SharesInv, ~ Kernels!Finished,
         NEW th \in Kernels!Threads, NEW read, NEW written,
         \A cell \in Kernels!Cells : cell \in read \cup written => Kernels!Owner(cell) = th,
         Kernels!Touch(th, read, written), UNCHANGED <<kernel, logn, pass>>,
         loops' = [loops EXCEPT ![th] = Kernels!NextIteration(@)]
  PROVE  Kernels!SharesInv'
<1>1. /\ readers' \in [Kernels!Cells' -> SUBSET Kernels!Threads]
      /\ writers' \in [Kernels!Cells' -> SUBSET Kernels!Threads]
      /\ \A cell \in Kernels!Cells' : IF Kernels!Finished' THEN Kernels!Touched(cell)' = {}
                                      ELSE Kernels!Touched(cell)' \subseteq {Kernels!Owner(cell)'}
  BY TouchKeeps
<1>2. /\ loops' \in [Kernels!Threads -> Nat]
      /\ \A s \in Kernels!Threads : loops'[s] >= s /\ (loops'[s] - s) % Kernels!BlockDim = 0
  BY LoopKeeps
<1>3. pass' \in 0 .. Len(Kernels!Program')
  <2>1. Kernels!Program' = Kernels!Program /\ pass' = pass
    BY SamePass
  <2> QED
    BY <2>1 DEF Kernels!SharesInv
<1> QED
  BY <1>1, <1>2, <1>3 DEF Kernels!SharesInv

LEMMA IterationShares ==
  ASSUME Kernels!BlockAssumption, Kernels!KernelsInv, NEW th \in Kernels!Threads, Kernels!Iteration(th)
  PROVE  Kernels!SharesInv'
<1> DEFINE c == loops[th]
<1>1. /\ Kernels!Given /\ Kernels!SharesInv /\ ~ Kernels!Finished /\ loops[th] < Kernels!Limit(th)
      /\ UNCHANGED <<kernel, logn, pass>> /\ loops' = [loops EXCEPT ![th] = Kernels!NextIteration(@)]
  BY DEF Kernels!KernelsInv, Kernels!Iteration
<1>2. /\ PassNow
      /\ Kernels!OverCoefficients => c \in 0 .. Power2(logn) - 1 /\ c % Power2(LogBlock) = th
      /\ Kernels!Kind = "reduce" =>
           /\ Kernels!Stride(Kernels!Round) \in Nat \ {0}
           /\ c = th /\ th < Kernels!Stride(Kernels!Round)
           /\ th + Kernels!Stride(Kernels!Round) \in Kernels!Threads
      /\ Kernels!Kind \in {"decode", "result"} => th = 0
  BY <1>1, WorkIs
<1>3. Kernels!BlockDim = Power2(LogBlock) /\ th \in Nat
  <2>1. Kernels!BlockDim = Power2(LogBlock) /\ Power2(LogBlock) \in Nat /\ Kernels!Threads = 0 .. Power2(LogBlock) - 1
    BY <1>1, SizesAre
  <2> QED
    BY <2>1
<1> HIDE DEF c
<1>4. ASSUME NEW read, NEW written, Kernels!Touch(th, read, written),
             \A cell \in read \cup written : Kernels!Owner(cell) = th
      PROVE  Kernels!SharesInv'
  <2>1. \A cell \in Kernels!Cells : cell \in read \cup written => Kernels!Owner(cell) = th
    BY <1>4
  <2> QED
    BY <1>1, <1>4, <2>1, SharesKept
<1>5. ASSUME UNCHANGED <<readers, writers>> PROVE Kernels!SharesInv'
  <2>1. Kernels!Touch(th, {}, {})
    BY <1>1, <1>5 DEF Kernels!Touch, Kernels!SharesInv
  <2> QED
    BY <1>4, <2>1
<1>6. ASSUME Kernels!OverCoefficients, Kernels!Kind \notin {"ntt", "intt"}
      PROVE  \A cell \in {<<"tt", c>>, <<"hm", c>>, <<"sum", th>>} : Kernels!Owner(cell) = th
  <2>1. Kernels!Kind \notin {"decode", "reduce", "ntt", "intt"}
    BY <1>6 DEF Kernels!OverCoefficients
  <2>2. c % Kernels!BlockDim = th
    BY <1>2, <1>3, <1>6
  <2> QED
    BY <2>1, <2>2, OwnersAre
<1>7. CASE Kernels!SampleIteration(th, c)
  <2>1. Kernels!OverCoefficients /\ Kernels!Kind \notin {"ntt", "intt"}
    BY <1>7 DEF Kernels!SampleIteration, Kernels!OverCoefficients
  <2>2. Kernels!Touch(th, {}, {<<"tt", c>>, <<"hm", c>>})
    BY <1>7 DEF Kernels!SampleIteration
  <2> QED
    BY <1>4, <1>6, <2>1, <2>2
<1>8. CASE Kernels!DecodeIteration(th, c)
  <2>1. Kernels!Kind = "decode"
    BY <1>8 DEF Kernels!DecodeIteration
  <2>2. th = 0
    BY <1>2, <2>1
  <2> DEFINE W == {<<"ok", 0>>} \cup (IF given.decoded THEN {<<"hm", d>> : d \in Kernels!Degrees(logn)} ELSE {})
  <2>3. Kernels!Touch(th, {}, W)
    BY <1>8 DEF Kernels!DecodeIteration
  <2>4. ASSUME NEW cell \in W PROVE Kernels!Owner(cell) = th
    <3>1. PICK a, i : a \in {"ok", "hm"} /\ cell = <<a, i>>
      BY <2>4
    <3>2. Kernels!Owner(<<"hm", i>>) = 0 /\ Kernels!Owner(<<"ok", i>>) = 0
      BY <2>1, OwnersAre
    <3> QED
      BY <2>2, <3>1, <3>2
  <2> HIDE DEF W
  <2> QED
    BY <1>4, <2>3, <2>4
<1>9. CASE Kernels!LoadIteration(th, c)
  <2>1. Kernels!OverCoefficients /\ Kernels!Kind \notin {"ntt", "intt"}
    BY <1>9 DEF Kernels!LoadIteration, Kernels!OverCoefficients
  <2> DEFINE W == {<<"tt", c>>} \cup (IF kernel = "raw" THEN {<<"hm", c>>} ELSE {})
  <2>2. Kernels!Touch(th, {}, W)
    BY <1>9 DEF Kernels!LoadIteration
  <2>3. W \subseteq {<<"tt", c>>, <<"hm", c>>, <<"sum", th>>}
    OBVIOUS
  <2> HIDE DEF W
  <2> QED
    BY <1>4, <1>6, <2>1, <2>2, <2>3
<1>10. CASE Kernels!NttIteration(th, c)
  <2>1. Kernels!Kind = "ntt" /\ Kernels!OverCoefficients
    BY <1>10 DEF Kernels!NttIteration, Kernels!OverCoefficients
  <2>2. Kernels!Round \in 0 .. logn - 1 /\ c \in 0 .. Power2(logn) - 1 /\ c % Power2(LogBlock) = th
    BY <1>2, <2>1 DEF PassNow
  <2>3. NttTouch(th, c)
    BY <1>1, <1>10, <2>2, NttStep
  <2> DEFINE h == Power2(logn - Kernels!Round - 1)
  <2>4. CASE c % Power2(logn - Kernels!Round) < h
    <3>1. Kernels!Owner(<<"tt", c>>) = th /\ Kernels!Owner(<<"tt", c + h>>) = th
      BY <1>1, <2>1, <2>2, <2>4, NttPlaces
    <3>2. Kernels!Touch(th, {}, {<<"tt", c>>, <<"tt", c + h>>})
      BY <2>3, <2>4 DEF NttTouch
    <3> HIDE DEF h
    <3> QED
      BY <1>4, <3>1, <3>2
  <2>5. CASE ~ (c % Power2(logn - Kernels!Round) < h)
    BY <1>5, <2>3, <2>5 DEF NttTouch
  <2> QED
    BY <2>4, <2>5
<1>11. CASE Kernels!INttIteration(th, c)
  <2>1. Kernels!Kind = "intt" /\ Kernels!OverCoefficients
    BY <1>11 DEF Kernels!INttIteration, Kernels!OverCoefficients
  <2>2. Kernels!Round \in 0 .. logn - 1 /\ c \in 0 .. Power2(logn) - 1 /\ c % Power2(LogBlock) = th
    BY <1>2, <2>1 DEF PassNow
  <2>3. INttTouch(th, c)
    BY <1>1, <1>11, <2>2, INttStep
  <2> DEFINE h == Power2(Kernels!Round)
  <2>4. CASE c % Power2(Kernels!Round + 1) < h
    <3>1. Kernels!Owner(<<"tt", c>>) = th /\ Kernels!Owner(<<"tt", c + h>>) = th
      BY <1>1, <2>1, <2>2, <2>4, INttPlaces
    <3>2. Kernels!Touch(th, {}, {<<"tt", c>>, <<"tt", c + h>>})
      BY <2>3, <2>4 DEF INttTouch
    <3> HIDE DEF h
    <3> QED
      BY <1>4, <3>1, <3>2
  <2>5. CASE ~ (c % Power2(Kernels!Round + 1) < h)
    BY <1>5, <2>3, <2>5 DEF INttTouch
  <2> QED
    BY <2>4, <2>5
<1>12. CASE Kernels!MultiplyIteration(th, c)
  <2>1. Kernels!OverCoefficients /\ Kernels!Kind \notin {"ntt", "intt"}
    BY <1>12 DEF Kernels!MultiplyIteration, Kernels!OverCoefficients
  <2>2. Kernels!Touch(th, {}, {<<"tt", c>>})
    BY <1>12 DEF Kernels!MultiplyIteration
  <2> QED
    BY <1>4, <1>6, <2>1, <2>2
<1>13. CASE Kernels!TargetIteration(th, c)
  <2>1. Kernels!OverCoefficients /\ Kernels!Kind \notin {"ntt", "intt"}
    BY <1>13 DEF Kernels!TargetIteration, Kernels!OverCoefficients
  <2>2. Kernels!Touch(th, {<<"tt", c>>, <<"hm", c>>}, {})
    BY <1>13 DEF Kernels!TargetIteration
  <2> QED
    BY <1>4, <1>6, <2>1, <2>2
<1>14. CASE Kernels!NormIteration(th, c)
  <2>1. Kernels!OverCoefficients /\ Kernels!Kind \notin {"ntt", "intt"}
    BY <1>14 DEF Kernels!NormIteration, Kernels!OverCoefficients
  <2>2. Kernels!Touch(th, {<<"tt", c>>, <<"hm", c>>}, {<<"sum", th>>})
    BY <1>14 DEF Kernels!NormIteration
  <2> QED
    BY <1>4, <1>6, <2>1, <2>2
<1>15. CASE Kernels!ReduceIteration(th, c)
  <2> DEFINE s == Kernels!Stride(Kernels!Round)
  <2>1. Kernels!Kind = "reduce"
    BY <1>15 DEF Kernels!ReduceIteration
  <2>2. Kernels!Touch(th, {<<"sum", th + s>>}, {<<"sum", th>>})
    BY <1>15 DEF Kernels!ReduceIteration
  <2>3. s \in Nat /\ th < s
    BY <1>2, <2>1
  <2>4. \A i : Kernels!Owner(<<"sum", i>>) = IF i >= s THEN i - s ELSE i
    BY <2>1, OwnersAre
  <2> HIDE DEF s
  <2>5. ~ (th >= s) /\ th + s >= s /\ (th + s) - s = th
    BY <1>3, <2>3
  <2>6. Kernels!Owner(<<"sum", th + s>>) = th /\ Kernels!Owner(<<"sum", th>>) = th
    BY <2>4, <2>5
  <2> QED
    BY <1>4, <2>2, <2>6
<1>16. CASE Kernels!ResultIteration(th, c)
  <2>1. Kernels!Kind = "result"
    BY <1>16 DEF Kernels!ResultIteration
  <2>2. th = 0 /\ Kernels!Owner(<<"sum", 0>>) = 0
    BY <1>2, <2>1, OwnersAre
  <2>3. Kernels!Touch(th, {<<"sum", 0>>}, {})
    BY <1>16 DEF Kernels!ResultIteration
  <2> QED
    BY <1>4, <2>2, <2>3
<1> QED
  BY <1>7, <1>8, <1>9, <1>10, <1>11, <1>12, <1>13, <1>14, <1>15, <1>16 DEF Kernels!Iteration, c

(* What one iteration stores is in range.                                  *)
LEMMA Int8In == ASSUME NEW z \in Int PROVE Kernels!Int8(z) \in -128 .. 127
<1>1. (z + 128) % 256 \in 0 .. 255
  BY SMT
<1> QED
  BY <1>1, SMT DEF Kernels!Int8

LEMMA SquareIn == ASSUME NEW z \in Int PROVE z * z \in Nat
BY SMT

LEMMA CenteredIn == ASSUME NEW z \in Kernels!Residues PROVE Kernels!Centered(z) \in Int
<1>1. z \in Int
  BY ResidueIs
<1>2. Kernels!Q \in Int
  BY QIs
<1> QED
  BY <1>1, <1>2 DEF Kernels!Centered

LEMMA SmallIn ==
  ASSUME NEW z \in -128 .. 127 PROVE Kernels!mq_conv_small(z) \in Kernels!Residues
<1>1. z \in Int /\ - 12289 <= z /\ z < 12289
  BY SMT
<1> QED
  BY <1>1, ConvSmallIn

LEMMA TtKept ==
  ASSUME Kernels!BlockAssumption, Kernels!Given, tt \in Kernels!Polys(logn),
         NEW c \in 0 .. Power2(logn) - 1, NEW d \in 0 .. Power2(logn) - 1,
         NEW v \in Kernels!Residues, NEW w \in Kernels!Residues
  PROVE  /\ tt[c] \in Kernels!Residues /\ tt[d] \in Kernels!Residues
         /\ [tt EXCEPT ![c] = v] \in Kernels!Polys(logn)
         /\ [tt EXCEPT ![c] = v, ![d] = w] \in Kernels!Polys(logn)
BY SizesAre

LEMMA OutKept ==
  ASSUME NEW D, NEW S, NEW P, NEW T,
         stored \in [s1 : [D -> S], s2 : [D -> S], target : P, result : T]
  PROVE  /\ \A c \in D : \A v, w \in S :
              [stored EXCEPT !.s1[c] = v, !.s2[c] = w] \in [s1 : [D -> S], s2 : [D -> S], target : P, result : T]
         /\ \A p \in P : [stored EXCEPT !.target = p] \in [s1 : [D -> S], s2 : [D -> S], target : P, result : T]
         /\ \A r \in T : [stored EXCEPT !.result = r] \in [s1 : [D -> S], s2 : [D -> S], target : P, result : T]
OBVIOUS

LEMMA ValuesKept ==
  ASSUME UNCHANGED <<kernel, logn>>,
         tt' \in Kernels!Polys(logn), sums' \in [Kernels!Threads -> Nat], decoded' \in BOOLEAN,
         stored' \in [s1 : [Kernels!Degrees(logn) -> -128 .. 127], s2 : [Kernels!Degrees(logn) -> -128 .. 127],
                      target : Kernels!Polys(logn), result : {"none", "accept", "reject"}]
  PROVE  Kernels!ValuesInv'
<1>1. Kernels!Polys(logn)' = Kernels!Polys(logn) /\ Kernels!Degrees(logn)' = Kernels!Degrees(logn)
  BY SamePass
<1> QED
  BY <1>1 DEF Kernels!ValuesInv

LEMMA PartsOfGiven ==
  ASSUME Kernels!Given
  PROVE  \A d \in Kernels!Degrees(logn) :
           /\ given.s1[d] \in Int /\ given.s2[d] \in Int /\ given.hm[d] \in Int
           /\ kernel # "generate" => given.hm[d] \in Kernels!Residues /\ -12289 <= given.s2[d] /\ given.s2[d] < 12289
           /\ given.h[d] \in Kernels!Residues
<1> DEFINE D == Kernels!Degrees(logn)   P == Kernels!Polys(logn)
<1>1. P = [D -> Kernels!Residues]
  BY Zenon DEF Kernels!Polys
<1>2. logn \in 1 .. 10 /\ given.key \in P /\ given.h = Kernels!to_ntt_monty(given.key, logn)
  BY DEF Kernels!Given
<1>3. given.h \in P
  BY <1>2, KeyIn
<1>4. /\ given.s1 \in [D -> Int] /\ given.s2 \in [D -> Int] /\ given.hm \in [D -> Int]
      /\ kernel # "generate" => given.hm \in P
      /\ kernel # "generate" => \A d \in D : given.s2[d] \in -(Kernels!Q - 1) .. Kernels!Q - 1
  BY DEF Kernels!Given
<1>5. \A z \in -(Kernels!Q - 1) .. Kernels!Q - 1 : -12289 <= z /\ z < 12289
  <2>1. \A n \in Nat : \A z \in -(n - 1) .. n - 1 : -n <= z /\ z < n
    BY SMT
  <2> QED
    BY <2>1, QIs
<1> HIDE DEF D, P
<1> QED
  BY <1>1, <1>3, <1>4, <1>5 DEF D

LEMMA IterationValues ==
  ASSUME Kernels!BlockAssumption, Kernels!KernelsInv, NEW th \in Kernels!Threads, Kernels!Iteration(th)
  PROVE  Kernels!ValuesInv'
<1> DEFINE c == loops[th]   D == Kernels!Degrees(logn)   P == Kernels!Polys(logn)   S == -128 .. 127
           Verdicts == {"none", "accept", "reject"}
           Outs == [s1 : [D -> S], s2 : [D -> S], target : P, result : Verdicts]
           F == Kernels!Residues
<1>1. /\ Kernels!Given /\ Kernels!SharesInv /\ ~ Kernels!Finished /\ loops[th] < Kernels!Limit(th)
      /\ UNCHANGED <<kernel, logn, given>>
  BY DEF Kernels!KernelsInv, Kernels!Iteration
<1>2. tt \in P /\ sums \in [Kernels!Threads -> Nat] /\ decoded \in BOOLEAN /\ stored \in Outs
  BY DEF Kernels!KernelsInv, Kernels!ValuesInv
<1>3. /\ PassNow
      /\ Kernels!OverCoefficients => c \in 0 .. Power2(logn) - 1
      /\ Kernels!Kind = "reduce" => th + Kernels!Stride(Kernels!Round) \in Kernels!Threads
  BY <1>1, WorkIs
<1>4. D = 0 .. Power2(logn) - 1 /\ logn \in 1 .. 10
  BY <1>1, SizesAre
<1>5. /\ \A d \in D : given.s1[d] \in Int /\ given.s2[d] \in Int /\ given.h[d] \in F
      /\ kernel # "generate" =>
           \A d \in D : given.hm[d] \in F /\ -12289 <= given.s2[d] /\ given.s2[d] < 12289
  BY <1>1, PartsOfGiven
<1> HIDE DEF c, D, P, S, Verdicts, F
<1>6. ASSUME tt' \in P, sums' \in [Kernels!Threads -> Nat], decoded' \in BOOLEAN, stored' \in Outs
      PROVE  Kernels!ValuesInv'
  BY <1>1, <1>6, ValuesKept DEF D, P, S, Verdicts
<1>7. /\ \A d \in D : tt[d] \in F
      /\ \A d \in D : \A v \in F : [tt EXCEPT ![d] = v] \in P
      /\ \A d, e \in D : \A v, w \in F : [tt EXCEPT ![d] = v, ![e] = w] \in P
  <2>1. \A d, e \in 0 .. Power2(logn) - 1 : \A v, w \in Kernels!Residues :
          /\ tt[d] \in Kernels!Residues
          /\ [tt EXCEPT ![d] = v] \in Kernels!Polys(logn)
          /\ [tt EXCEPT ![d] = v, ![e] = w] \in Kernels!Polys(logn)
    BY <1>1, <1>2, TtKept DEF P
  <2>2. \E v : v \in Kernels!Residues
    BY ConstantsIn
  <2> QED
    BY <1>4, <2>1, <2>2 DEF F, P
<1>8. /\ \A d \in D : \A v, w \in S : [stored EXCEPT !.s1[d] = v, !.s2[d] = w] \in Outs
      /\ \A p \in P : [stored EXCEPT !.target = p] \in Outs
      /\ \A r \in Verdicts : [stored EXCEPT !.result = r] \in Outs
  BY <1>2, OutKept
<1> HIDE DEF Outs
<1>9. CASE Kernels!SampleIteration(th, c)
  <2>1. Kernels!OverCoefficients
    BY <1>9 DEF Kernels!SampleIteration, Kernels!OverCoefficients
  <2>2. c \in D
    BY <1>3, <1>4, <2>1
  <2>3. Kernels!Int8(given.s1[c]) \in S /\ Kernels!Int8(given.s2[c]) \in S
    BY <1>5, <2>2, Int8In DEF S
  <2>4. Kernels!mq_conv_small(Kernels!Int8(given.s2[c])) \in F
    BY <2>3, SmallIn DEF S, F
  <2>5. /\ stored' = [stored EXCEPT !.s1[c] = Kernels!Int8(given.s1[c]), !.s2[c] = Kernels!Int8(given.s2[c])]
        /\ tt' = [tt EXCEPT ![c] = Kernels!mq_conv_small(Kernels!Int8(given.s2[c]))]
        /\ sums' = sums /\ decoded' = decoded
    BY <1>9 DEF Kernels!SampleIteration, Kernels!Stored
  <2>6. tt' \in P /\ stored' \in Outs
    BY <1>7, <1>8, <2>2, <2>3, <2>4, <2>5
  <2> QED
    BY <1>2, <1>6, <2>5, <2>6
<1>10. CASE Kernels!DecodeIteration(th, c)
  <2>1. decoded' = given.decoded /\ tt' = tt /\ sums' = sums /\ stored' = stored
    BY <1>10 DEF Kernels!DecodeIteration
  <2>2. given.decoded \in BOOLEAN
    BY <1>1 DEF Kernels!Given
  <2> QED
    BY <1>2, <1>6, <2>1, <2>2
<1>11. CASE Kernels!LoadIteration(th, c)
  <2>1. Kernels!OverCoefficients /\ Kernels!Kind = "load"
    BY <1>11 DEF Kernels!LoadIteration, Kernels!OverCoefficients
  <2>2. c \in D /\ kernel # "generate"
    BY <1>3, <1>4, <2>1 DEF PassNow
  <2>3. Kernels!mq_conv_small(given.s2[c]) \in F
    BY <1>5, <2>2, ConvSmallIn DEF F
  <2>4. tt' = [tt EXCEPT ![c] = Kernels!mq_conv_small(given.s2[c])] /\ UNCHANGED <<sums, decoded, stored>>
    BY <1>11 DEF Kernels!LoadIteration
  <2>5. tt' \in P
    BY <1>7, <2>2, <2>3, <2>4
  <2> QED
    BY <1>2, <1>6, <2>4, <2>5
<1>12. CASE Kernels!NttIteration(th, c)
  <2>1. Kernels!Kind = "ntt" /\ Kernels!OverCoefficients /\ UNCHANGED <<sums, decoded, stored>>
    BY <1>12 DEF Kernels!NttIteration, Kernels!OverCoefficients
  <2>2. Kernels!Round \in 0 .. logn - 1 /\ c \in 0 .. Power2(logn) - 1
    BY <1>3, <2>1 DEF PassNow
  <2>3. NttTouch(th, c)
    BY <1>1, <1>12, <2>2, NttStep
  <2> DEFINE h == Power2(logn - Kernels!Round - 1)   s == Power2(logn - Kernels!Round)
             w == Kernels!NttTwiddle(Power2(Kernels!Round), c, s)
             v == Kernels!mq_montymul(tt[c + h], w)
  <2>4. CASE c % s < h
    <3>1. tt' = [tt EXCEPT ![c] = Kernels!mq_add(tt[c], v), ![c + h] = Kernels!mq_sub(tt[c], v)]
      BY <2>3, <2>4 DEF NttTouch
    <3>2. /\ Paired(Kernels!Round, logn - Kernels!Round - 1, c) /\ w \in F
          /\ (logn - Kernels!Round - 1) + 1 = logn - Kernels!Round
          /\ Kernels!Round + (logn - Kernels!Round - 1) + 1 = logn
      BY <1>1, <2>1, <2>2, NttPlaces DEF F
    <3>3. c + h \in D /\ c \in D
      BY <1>4, <2>2, <2>4, <3>2 DEF Paired
    <3> HIDE DEF h, w
    <3>4. v \in F
      BY <1>7, <3>2, <3>3, MontymulExact DEF F
    <3> HIDE DEF v
    <3>5. Kernels!mq_add(tt[c], v) \in F /\ Kernels!mq_sub(tt[c], v) \in F
      BY <1>7, <3>3, <3>4, SumsExact DEF F
    <3>6. tt' \in P
      BY <1>7, <3>1, <3>3, <3>5
    <3> QED
      BY <1>2, <1>6, <2>1, <3>6
  <2>5. CASE ~ (c % s < h)
    <3>1. tt' = tt
      BY <2>3, <2>5 DEF NttTouch
    <3> QED
      BY <1>2, <1>6, <2>1, <3>1
  <2> QED
    BY <2>4, <2>5
<1>13. CASE Kernels!INttIteration(th, c)
  <2>1. Kernels!Kind = "intt" /\ Kernels!OverCoefficients /\ UNCHANGED <<sums, decoded, stored>>
    BY <1>13 DEF Kernels!INttIteration, Kernels!OverCoefficients
  <2>2. Kernels!Round \in 0 .. logn - 1 /\ c \in 0 .. Power2(logn) - 1
    BY <1>3, <2>1 DEF PassNow
  <2>3. INttTouch(th, c)
    BY <1>1, <1>13, <2>2, INttStep
  <2> DEFINE h == Power2(Kernels!Round)   s == Power2(Kernels!Round + 1)
             w == Kernels!INttTwiddle(Power2(logn - Kernels!Round - 1), c, h)
             d == Kernels!mq_sub(tt[c], tt[c + h])
  <2>4. CASE c % s < h
    <3>1. tt' = [tt EXCEPT ![c] = Kernels!mq_add(tt[c], tt[c + h]), ![c + h] = Kernels!mq_montymul(d, w)]
      BY <2>3, <2>4 DEF INttTouch
    <3>2. /\ Paired(logn - Kernels!Round - 1, Kernels!Round, c) /\ w \in F
          /\ (logn - Kernels!Round - 1) + Kernels!Round + 1 = logn
      BY <1>1, <2>1, <2>2, INttPlaces DEF F
    <3>3. c + h \in D /\ c \in D
      BY <1>4, <2>2, <2>4, <3>2 DEF Paired
    <3> HIDE DEF h, w
    <3>4. Kernels!mq_add(tt[c], tt[c + h]) \in F /\ d \in F
      BY <1>7, <3>3, SumsExact DEF F
    <3> HIDE DEF d
    <3>5. Kernels!mq_montymul(d, w) \in F
      BY <3>2, <3>4, MontymulExact DEF F
    <3>6. tt' \in P
      BY <1>7, <3>1, <3>3, <3>4, <3>5
    <3> QED
      BY <1>2, <1>6, <2>1, <3>6
  <2>5. CASE ~ (c % s < h)
    <3>1. tt' = tt
      BY <2>3, <2>5 DEF INttTouch
    <3> QED
      BY <1>2, <1>6, <2>1, <3>1
  <2> QED
    BY <2>4, <2>5
<1>14. CASE Kernels!MultiplyIteration(th, c)
  <2> DEFINE factor == IF Kernels!Kind = "multiply" THEN given.h[c] ELSE Kernels!InverseOfDegree(logn)
  <2>1. Kernels!OverCoefficients /\ UNCHANGED <<sums, decoded, stored>>
        /\ tt' = [tt EXCEPT ![c] = Kernels!mq_montymul(tt[c], factor)]
    BY <1>14 DEF Kernels!MultiplyIteration, Kernels!OverCoefficients
  <2>2. c \in D
    BY <1>3, <1>4, <2>1
  <2>3. Kernels!InverseOfDegree(logn) \in F
    BY <1>4, InverseIn DEF F
  <2>4. factor \in F
    BY <1>5, <2>2, <2>3
  <2> HIDE DEF factor
  <2>5. Kernels!mq_montymul(tt[c], factor) \in F
    BY <1>7, <2>2, <2>4, MontymulExact DEF F
  <2>6. tt' \in P
    BY <1>7, <2>1, <2>2, <2>5
  <2> QED
    BY <1>2, <1>6, <2>1, <2>6
<1>15. CASE Kernels!TargetIteration(th, c)
  <2> DEFINE u0 == Kernels!mq_conv_small(Kernels!Int8(given.s1[c]))
             v == IF u0 - tt[c] >= 0 THEN u0 - tt[c] ELSE u0 + Kernels!Q - tt[c]
  <2>1. Kernels!OverCoefficients /\ UNCHANGED <<tt, sums, decoded>> /\ stored' = [stored EXCEPT !.target[c] = v]
    BY <1>15 DEF Kernels!TargetIteration, Kernels!OverCoefficients
  <2>2. c \in D
    BY <1>3, <1>4, <2>1
  <2>3. Kernels!Int8(given.s1[c]) \in -128 .. 127
    BY <1>5, <2>2, Int8In
  <2>4. u0 \in F /\ tt[c] \in F
    BY <1>7, <2>2, <2>3, SmallIn DEF F
  <2> HIDE DEF u0
  <2>5. v \in F
    <3>1. PICK x \in Nat, y \in Nat : x = u0 /\ y = tt[c] /\ x <= 12288 /\ y <= 12288
      BY <2>4, ResidueIs DEF F
    <3>2. v = IF x - y >= 0 THEN x - y ELSE x + 12289 - y
      BY <3>1, QIs
    <3>3. v \in Nat /\ v <= 12288
      BY <3>1, <3>2
    <3> HIDE DEF v
    <3> QED
      BY <3>3, ResidueIs DEF F
  <2> HIDE DEF v
  <2>6. stored.target \in P
    BY <1>2 DEF Outs
  <2>7. [stored.target EXCEPT ![c] = v] \in P
    <3>1. P = [D -> F]
      BY Zenon DEF P, D, F, Kernels!Polys
    <3> QED
      BY <2>2, <2>5, <2>6, <3>1
  <2>8. stored' = [stored EXCEPT !.target = [stored.target EXCEPT ![c] = v]]
    BY <1>2, <2>1 DEF Outs
  <2>9. stored' \in Outs
    BY <1>8, <2>7, <2>8
  <2> QED
    BY <1>2, <1>6, <2>1, <2>9
<1>16. CASE Kernels!NormIteration(th, c)
  <2> DEFINE m == Kernels!mq_montymul(tt[c], Kernels!InverseOfDegree(logn))
             s1n == Kernels!Centered(Kernels!mq_sub(m, given.hm[c]))
  <2>1. /\ Kernels!OverCoefficients /\ Kernels!Kind = "norm" /\ UNCHANGED <<tt, decoded, stored>>
        /\ sums' = [sums EXCEPT ![th] = @ + s1n * s1n + given.s2[c] * given.s2[c]]
    BY <1>16 DEF Kernels!NormIteration, Kernels!OverCoefficients, Kernels!NormTerm
  <2>2. c \in D /\ kernel # "generate"
    BY <1>3, <1>4, <2>1 DEF PassNow
  <2>3. Kernels!InverseOfDegree(logn) \in F
    BY <1>4, InverseIn DEF F
  <2>4. m \in F
    BY <1>7, <2>2, <2>3, MontymulExact DEF F
  <2> HIDE DEF m
  <2>5. Kernels!mq_sub(m, given.hm[c]) \in F
    BY <1>5, <2>2, <2>4, SumsExact DEF F
  <2>6. s1n \in Int
    BY <2>5, CenteredIn DEF F
  <2> HIDE DEF s1n
  <2>7. s1n * s1n \in Nat /\ given.s2[c] * given.s2[c] \in Nat
    BY <1>5, <2>2, <2>6, SquareIn
  <2>8. PICK a \in Nat, b \in Nat : a = s1n * s1n /\ b = given.s2[c] * given.s2[c]
    BY <2>7
  <2>9. sums' = [sums EXCEPT ![th] = sums[th] + a + b]
    BY <2>1, <2>8
  <2>10. sums' \in [Kernels!Threads -> Nat]
    BY <1>2, <2>9
  <2> QED
    BY <1>2, <1>6, <2>1, <2>10
<1>17. CASE Kernels!ReduceIteration(th, c)
  <2> DEFINE s == Kernels!Stride(Kernels!Round)
  <2>1. /\ Kernels!Kind = "reduce" /\ UNCHANGED <<tt, decoded, stored>>
        /\ sums' = [sums EXCEPT ![th] = @ + sums[th + s]]
    BY <1>17 DEF Kernels!ReduceIteration
  <2>2. th + s \in Kernels!Threads
    BY <1>3, <2>1
  <2> HIDE DEF s
  <2>3. sums' \in [Kernels!Threads -> Nat]
    BY <1>2, <2>1, <2>2
  <2> QED
    BY <1>2, <1>6, <2>1, <2>3
<1>18. CASE Kernels!ResultIteration(th, c)
  <2>1. UNCHANGED <<tt, sums, decoded>>
        /\ \E r \in Verdicts : stored' = [stored EXCEPT !.result = r]
    BY <1>18 DEF Kernels!ResultIteration, Verdicts
  <2> QED
    BY <1>2, <1>6, <1>8, <2>1
<1> QED
  BY <1>9, <1>10, <1>11, <1>12, <1>13, <1>14, <1>15, <1>16, <1>17, <1>18 DEF Kernels!Iteration, c

(* After a barrier nothing has been touched, and every thread stands at    *)
(* its first place.                                                        *)
AtBarrier ==
  /\ pass \in 0 .. Len(Kernels!Program)
  /\ loops = [th \in Kernels!Threads |-> th]
  /\ readers = [c \in Kernels!Cells |-> {}] /\ writers = [c \in Kernels!Cells |-> {}]

LEMMA AllUntouched == Kernels!BlockAssumption /\ Kernels!Given /\ AtBarrier => Kernels!SharesInv
<1> SUFFICES ASSUME Kernels!BlockAssumption, Kernels!Given, AtBarrier PROVE Kernels!SharesInv
  OBVIOUS
<1> USE DEF AtBarrier
<1>1. Kernels!Threads = 0 .. Power2(LogBlock) - 1 /\ Kernels!BlockDim = Power2(LogBlock)
      /\ Power2(LogBlock) \in Nat \ {0}
  BY SizesAre
<1>2. loops \in [Kernels!Threads -> Nat] /\ \A th \in Kernels!Threads : loops[th] = th /\ th \in Nat
  BY <1>1
<1>3. 0 % Kernels!BlockDim = 0
  <2>1. \A b \in Nat \ {0} : 0 % b = 0
    BY SMT
  <2> QED
    BY <1>1, <2>1
<1>4. \A th \in Kernels!Threads : loops[th] >= th /\ (loops[th] - th) % Kernels!BlockDim = 0
  <2> TAKE th \in Kernels!Threads
  <2>1. loops[th] - th = 0 /\ loops[th] >= th
    BY <1>2
  <2> QED
    BY <1>3, <2>1
<1>5. \A cell \in Kernels!Cells : Kernels!Touched(cell) = {}
  BY DEF Kernels!Touched
<1>6. readers \in [Kernels!Cells -> SUBSET Kernels!Threads] /\ writers \in [Kernels!Cells -> SUBSET Kernels!Threads]
  OBVIOUS
<1> QED
  BY <1>2, <1>4, <1>5, <1>6 DEF Kernels!SharesInv

LEMMA KernelsStart ==
  ASSUME Kernels!BlockAssumption, Kernels!Given, Kernels!Init
  PROVE  Kernels!KernelsInv
<1> DEFINE D == Kernels!Degrees(logn)   P == Kernels!Polys(logn)   S == -128 .. 127
<1>1. Kernels!SharesInv
  <2>1. Kernels!Program \in Seq(AllowedPasses(kernel, logn, LogBlock))
    <3>1. kernel \in {"generate", "raw", "compressed"} /\ logn \in Nat /\ LogBlock \in Nat
      BY DEF Kernels!Given, Kernels!BlockAssumption
    <3> QED
      BY <3>1, ProgramIn
  <2>2. Len(Kernels!Program) \in Nat
    BY <2>1, LenProperties
  <2>3. pass \in 0 .. Len(Kernels!Program)
    BY <2>2 DEF Kernels!Init
  <2> QED
    BY <2>3, AllUntouched DEF Kernels!Init, AtBarrier
<1>2. [d \in D |-> 0] \in P
  <2>1. 0 \in Kernels!Residues
    BY ConstantsIn
  <2>2. P = [D -> Kernels!Residues]
    BY Zenon DEF Kernels!Polys
  <2> HIDE DEF D, P
  <2> QED
    BY <2>1, <2>2
<1>3. [d \in D |-> 0] \in [D -> S]
  <2> HIDE DEF D
  <2> QED
    OBVIOUS
<1>4. /\ tt = [d \in D |-> 0] /\ sums = [th \in Kernels!Threads |-> 0] /\ decoded = FALSE
      /\ stored = [s1 |-> [d \in D |-> 0], s2 |-> [d \in D |-> 0], target |-> [d \in D |-> 0], result |-> "none"]
  BY DEF Kernels!Init
<1> HIDE DEF D, P, S
<1>5. stored \in [s1 : [D -> S], s2 : [D -> S], target : P, result : {"none", "accept", "reject"}]
  BY <1>2, <1>3, <1>4
<1>6. sums \in [Kernels!Threads -> Nat]
  BY <1>4
<1>7. Kernels!ValuesInv
  BY <1>2, <1>4, <1>5, <1>6 DEF Kernels!ValuesInv, D, P, S
<1> QED
  BY <1>1, <1>7 DEF Kernels!KernelsInv

LEMMA BarrierKeeps ==
  ASSUME Kernels!BlockAssumption, Kernels!KernelsInv, Kernels!Barrier
  PROVE  Kernels!KernelsInv'
<1>1. /\ Kernels!Given /\ Kernels!ValuesInv /\ Kernels!SharesInv /\ ~ Kernels!Finished
      /\ UNCHANGED <<kernel, logn, given, tt, sums, decoded>>
      /\ IF Kernels!Kind = "decode" /\ ~ decoded
           THEN pass' = Len(Kernels!Program) /\ stored' = [stored EXCEPT !.result = "reject"]
           ELSE pass' = pass + 1 /\ UNCHANGED stored
      /\ loops' = [th \in Kernels!Threads |-> th]
      /\ readers' = [c \in Kernels!Cells |-> {}] /\ writers' = [c \in Kernels!Cells |-> {}]
  BY DEF Kernels!KernelsInv, Kernels!Barrier
<1>2. Kernels!Given'
  BY <1>1, StaysGiven
<1>3. Kernels!Program' = Kernels!Program /\ Kernels!Cells' = Kernels!Cells
  BY <1>1, SamePass
<1>4. Len(Kernels!Program) \in Nat /\ pass + 1 \in 0 .. Len(Kernels!Program)
  <2>1. kernel \in {"generate", "raw", "compressed"} /\ logn \in Nat /\ LogBlock \in Nat
    BY <1>1 DEF Kernels!Given, Kernels!BlockAssumption
  <2>2. pass \in 0 .. Len(Kernels!Program)
    BY <1>1 DEF Kernels!SharesInv
  <2>3. pass + 1 \in 0 .. Len(Kernels!Program)
    BY <1>1, <2>1, <2>2, PassIs
  <2>4. Kernels!Program \in Seq(AllowedPasses(kernel, logn, LogBlock))
    BY <2>1, ProgramIn
  <2> QED
    BY <2>3, <2>4, LenProperties
<1>5. pass' \in 0 .. Len(Kernels!Program')
  BY <1>1, <1>3, <1>4
<1>6. Kernels!SharesInv'
  <2>1. /\ loops' = [th \in Kernels!Threads' |-> th] /\ readers' = [c \in Kernels!Cells' |-> {}]
        /\ writers' = [c \in Kernels!Cells' |-> {}]
    BY <1>1, <1>3
  <2>2. AtBarrier'
    BY <1>5, <2>1 DEF AtBarrier
  <2> QED
    BY <1>2, <2>2, AllUntouched, PTL
<1>7. Kernels!ValuesInv'
  <2> DEFINE Outs == [s1 : [Kernels!Degrees(logn) -> -128 .. 127], s2 : [Kernels!Degrees(logn) -> -128 .. 127],
                      target : Kernels!Polys(logn), result : {"none", "accept", "reject"}]
  <2>1. tt \in Kernels!Polys(logn) /\ sums \in [Kernels!Threads -> Nat] /\ decoded \in BOOLEAN /\ stored \in Outs
    BY <1>1 DEF Kernels!ValuesInv
  <2>2. [stored EXCEPT !.result = "reject"] \in Outs
    BY <2>1, OutKept
  <2>3. stored' \in Outs
    <3> HIDE DEF Outs
    <3> QED
      BY <1>1, <2>1, <2>2
  <2> QED
    BY <1>1, <2>1, <2>3, ValuesKept
<1> QED
  BY <1>2, <1>6, <1>7 DEF Kernels!KernelsInv

LEMMA KernelsStay ==
  ASSUME Kernels!KernelsInv, UNCHANGED Kernels!vars
  PROVE  Kernels!KernelsInv'
<1>1. UNCHANGED <<kernel, logn, given, pass, loops, tt, sums, decoded, stored, readers, writers>>
  BY DEF Kernels!vars
<1>2. Kernels!Given'
  BY <1>1, StaysGiven DEF Kernels!KernelsInv
<1>3. /\ Kernels!Program' = Kernels!Program /\ Kernels!Cells' = Kernels!Cells
      /\ Kernels!Finished' = Kernels!Finished /\ \A cell : Kernels!Owner(cell)' = Kernels!Owner(cell)
  BY <1>1, SamePass, SameOwners
<1>4. Kernels!SharesInv'
  BY <1>1, <1>3 DEF Kernels!KernelsInv, Kernels!SharesInv, Kernels!Touched
<1>5. Kernels!ValuesInv'
  BY <1>1, ValuesKept DEF Kernels!KernelsInv, Kernels!ValuesInv
<1> QED
  BY <1>2, <1>4, <1>5 DEF Kernels!KernelsInv

LEMMA KernelsStep ==
  ASSUME Kernels!BlockAssumption, Kernels!KernelsInv, [Kernels!Next]_(Kernels!vars)
  PROVE  Kernels!KernelsInv'
<1>1. ASSUME NEW th \in Kernels!Threads, Kernels!Iteration(th) PROVE Kernels!KernelsInv'
  <2>1. Kernels!Given'
    BY <1>1, StaysGiven DEF Kernels!KernelsInv, Kernels!Iteration
  <2>2. Kernels!SharesInv' /\ Kernels!ValuesInv'
    BY <1>1, IterationShares, IterationValues
  <2> QED
    BY <2>1, <2>2 DEF Kernels!KernelsInv
<1> QED
  BY <1>1, BarrierKeeps, KernelsStay DEF Kernels!Next

(* In every kernel, for any block of a power of two up to 1024 threads and *)
(* any degree, under any schedule of the threads, coefficients stay        *)
(* reduced, sums stay non-negative, and each shared cell belongs to one    *)
(* thread between two barriers.                                            *)
THEOREM KernelsInvariant == Kernels!BlockAssumption => (Kernels!Spec => []Kernels!KernelsInv)
<1> SUFFICES ASSUME Kernels!BlockAssumption PROVE Kernels!Spec => []Kernels!KernelsInv
  OBVIOUS
<1>1. Kernels!Given /\ Kernels!Init => Kernels!KernelsInv
  BY KernelsStart
<1>2. Kernels!KernelsInv /\ [Kernels!Next]_(Kernels!vars) => Kernels!KernelsInv'
  BY KernelsStep
<1> QED
  BY <1>1, <1>2, PTL DEF Kernels!Spec

(* What the threads of a block share stays typed, and no two threads touch *)
(* a cell that one of them writes.                                         *)
LEMMA KernelsAreSafe ==
  ASSUME Kernels!BlockAssumption, Kernels!KernelsInv
  PROVE  Kernels!TypeOK /\ Kernels!NoRace
<1>1. Kernels!Given /\ Kernels!ValuesInv /\ Kernels!SharesInv
  BY DEF Kernels!KernelsInv
<1>2. Kernels!TypeOK
  <2>1. \A th \in Kernels!Threads : sums[th] >= 0
    BY <1>1 DEF Kernels!ValuesInv
  <2>2. /\ tt \in Kernels!Polys(logn) /\ stored.target \in Kernels!Polys(logn)
        /\ stored.s1 \in [Kernels!Degrees(logn) -> -128 .. 127]
        /\ stored.s2 \in [Kernels!Degrees(logn) -> -128 .. 127]
    BY <1>1 DEF Kernels!ValuesInv
  <2>3. /\ pass \in 0 .. Len(Kernels!Program)
        /\ \A c \in Kernels!Cells : readers[c] \subseteq Kernels!Threads /\ writers[c] \subseteq Kernels!Threads
    BY <1>1 DEF Kernels!SharesInv
  <2>4. \A d \in Kernels!Degrees(logn) : stored.s1[d] \in -128 .. 127 /\ stored.s2[d] \in -128 .. 127
    BY <2>2
  <2> QED
    BY <2>1, <2>2, <2>3, <2>4 DEF Kernels!TypeOK
<1>3. ASSUME NEW c \in Kernels!Cells, writers[c] # {}
      PROVE  Cardinality(readers[c] \cup writers[c]) = 1
  <2>1. IF Kernels!Finished THEN readers[c] \cup writers[c] = {} ELSE readers[c] \cup writers[c] \subseteq {Kernels!Owner(c)}
    BY <1>1 DEF Kernels!SharesInv, Kernels!Touched
  <2>2. readers[c] \cup writers[c] = {Kernels!Owner(c)}
    BY <1>3, <2>1
  <2> QED
    BY <2>2, FS_Singleton
<1>4. Kernels!NoRace
  BY <1>3 DEF Kernels!NoRace, Kernels!Cardinality, Cardinality
<1> QED
  BY <1>2, <1>4

(* The inputs of the run are among those a kernel may be given.            *)
Coded(s, T) == Len(s) \in {2, 4, 8} /\ s \in Seq(T)
Small == {z \in Int : -12288 <= z /\ z <= 12288}

LEMMA Coded2 == \A T, a, b : a \in T /\ b \in T => Coded(<<a, b>>, T)
BY DEF Coded

LEMMA Coded4 ==
  \A T, a, b, c, d : a \in T /\ b \in T /\ c \in T /\ d \in T => Coded(<<a, b, c, d>>, T)
BY DEF Coded

LEMMA Coded8 ==
  \A T, a, b, c, d, e, f, g, h :
    /\ a \in T /\ b \in T /\ c \in T /\ d \in T /\ e \in T /\ f \in T /\ g \in T /\ h \in T
    => Coded(<<a, b, c, d, e, f, g, h>>, T)
BY DEF Coded

LEMMA KeysAre == \A key \in Kernels!Keys : Coded(key, Kernels!Residues)
<1>1. \A z \in {4091, 12288, 77, 0, 6145, 5, 1, 9000, 3, 7} : z \in Kernels!Residues
  BY ResidueIs
<1>2. Coded(<<4091, 12288>>, Kernels!Residues)
  BY <1>1, Coded2
<1>3. Coded(<<77, 0, 6145, 12288>>, Kernels!Residues)
  BY <1>1, Coded4
<1>4. Coded(<<5, 0, 12288, 1, 9000, 3, 7, 4091>>, Kernels!Residues)
  BY <1>1, Coded8
<1> QED
  BY <1>2, <1>3, <1>4 DEF Kernels!Keys

Pair(s, T, U) == Coded(s[1], T) /\ Coded(s[2], U) /\ Len(s[1]) = Len(s[2])

LEMMA PairOfCoded ==
  \A T, U, r, s : Coded(r, T) /\ Coded(s, U) /\ Len(r) = Len(s) => Pair(<<r, s>>, T, U)
BY DEF Pair

LEMMA SamplesAre == \A s \in Kernels!Samples : Pair(s, Int, Int)
<1>1. Pair(<<<<300, -5>>, <<127, -128>>>>, Int, Int)
  <2> DEFINE r == <<300, -5>>   v == <<127, -128>>
  <2>1. Coded(r, Int) /\ Coded(v, Int)
    BY Coded2
  <2>2. Len(r) = Len(v)
    OBVIOUS
  <2> HIDE DEF r, v
  <2>3. Pair(<<r, v>>, Int, Int)
    BY <2>1, <2>2, PairOfCoded
  <2> QED
    BY <2>3 DEF r, v
<1>2. Pair(<<<<-1, 2815>>, <<-200, 3>>>>, Int, Int)
  <2> DEFINE r == <<-1, 2815>>   v == <<-200, 3>>
  <2>1. Coded(r, Int) /\ Coded(v, Int)
    BY Coded2
  <2>2. Len(r) = Len(v)
    OBVIOUS
  <2> HIDE DEF r, v
  <2>3. Pair(<<r, v>>, Int, Int)
    BY <2>1, <2>2, PairOfCoded
  <2> QED
    BY <2>3 DEF r, v
<1>3. Pair(<<<<0, 7, -129, 12>>, <<128, -4, 250, 1>>>>, Int, Int)
  <2> DEFINE r == <<0, 7, -129, 12>>   v == <<128, -4, 250, 1>>
  <2>1. Coded(r, Int) /\ Coded(v, Int)
    BY Coded4
  <2>2. Len(r) = Len(v)
    OBVIOUS
  <2> HIDE DEF r, v
  <2>3. Pair(<<r, v>>, Int, Int)
    BY <2>1, <2>2, PairOfCoded
  <2> QED
    BY <2>3 DEF r, v
<1>4. Pair(<<<<1, 700, 0, -3, 2, -130, 9, 4>>, <<0, 5, -6, 2047, 1, 0, 0, -8>>>>, Int, Int)
  <2> DEFINE r == <<1, 700, 0, -3, 2, -130, 9, 4>>   v == <<0, 5, -6, 2047, 1, 0, 0, -8>>
  <2>1. Coded(r, Int) /\ Coded(v, Int)
    BY Coded8
  <2>2. Len(r) = Len(v)
    OBVIOUS
  <2> HIDE DEF r, v
  <2>3. Pair(<<r, v>>, Int, Int)
    BY <2>1, <2>2, PairOfCoded
  <2> QED
    BY <2>3 DEF r, v
<1> QED
  BY <1>1, <1>2, <1>3, <1>4 DEF Kernels!Samples

LEMMA SignedAre == \A s \in Kernels!Signed : Pair(s, Kernels!Residues, Small)
<1> DEFINE p1 == <<<<0, 0>>, <<0, 0>>>>
           p2 == <<<<551, 29>>, <<0, 0>>>>
           p3 == <<<<552, 0>>, <<0, 0>>>>
           p4 == <<<<6144, 3>>, <<-20, 2047>>>>
           p5 == <<<<551, 29>>, <<-1, 2>>>>
           p6 == <<<<791, 0, 21, 2>>, <<0, 0, 0, 0>>>>
           p7 == <<<<791, 0, 21, 5>>, <<0, 0, 0, 0>>>>
           p8 == <<<<1, 12288, 9, 0>>, <<0, -3, 2, 0>>>>
           p9 == <<<<3, 0, 0, 1, 0, 0, 1100, 0>>, <<0, 0, 0, 0, 0, 0, 0, 1>>>>
<1>1. \A z \in {0, 551, 29, 552, 6144, 3, 791, 21, 2, 5, 1, 12288, 9, 1100} : z \in Kernels!Residues
  BY ResidueIs
<1>2. \A z \in {0, -20, 2047, -1, 2, -3, 1} : z \in Small
  BY DEF Small
<1>3. Pair(p1, Kernels!Residues, Small)
  <2> DEFINE r == <<0, 0>>   v == <<0, 0>>
  <2>1. Coded(r, Kernels!Residues) /\ Coded(v, Small)
    BY <1>1, <1>2, Coded2
  <2>2. Len(r) = Len(v)
    OBVIOUS
  <2> HIDE DEF r, v
  <2>3. Pair(<<r, v>>, Kernels!Residues, Small)
    BY <2>1, <2>2, PairOfCoded
  <2> QED
    BY <2>3 DEF r, v
<1>4. Pair(p2, Kernels!Residues, Small)
  <2> DEFINE r == <<551, 29>>   v == <<0, 0>>
  <2>1. Coded(r, Kernels!Residues) /\ Coded(v, Small)
    BY <1>1, <1>2, Coded2
  <2>2. Len(r) = Len(v)
    OBVIOUS
  <2> HIDE DEF r, v
  <2>3. Pair(<<r, v>>, Kernels!Residues, Small)
    BY <2>1, <2>2, PairOfCoded
  <2> QED
    BY <2>3 DEF r, v
<1>5. Pair(p3, Kernels!Residues, Small)
  <2> DEFINE r == <<552, 0>>   v == <<0, 0>>
  <2>1. Coded(r, Kernels!Residues) /\ Coded(v, Small)
    BY <1>1, <1>2, Coded2
  <2>2. Len(r) = Len(v)
    OBVIOUS
  <2> HIDE DEF r, v
  <2>3. Pair(<<r, v>>, Kernels!Residues, Small)
    BY <2>1, <2>2, PairOfCoded
  <2> QED
    BY <2>3 DEF r, v
<1>6. Pair(p4, Kernels!Residues, Small)
  <2> DEFINE r == <<6144, 3>>   v == <<-20, 2047>>
  <2>1. Coded(r, Kernels!Residues) /\ Coded(v, Small)
    BY <1>1, <1>2, Coded2
  <2>2. Len(r) = Len(v)
    OBVIOUS
  <2> HIDE DEF r, v
  <2>3. Pair(<<r, v>>, Kernels!Residues, Small)
    BY <2>1, <2>2, PairOfCoded
  <2> QED
    BY <2>3 DEF r, v
<1>7. Pair(p5, Kernels!Residues, Small)
  <2> DEFINE r == <<551, 29>>   v == <<-1, 2>>
  <2>1. Coded(r, Kernels!Residues) /\ Coded(v, Small)
    BY <1>1, <1>2, Coded2
  <2>2. Len(r) = Len(v)
    OBVIOUS
  <2> HIDE DEF r, v
  <2>3. Pair(<<r, v>>, Kernels!Residues, Small)
    BY <2>1, <2>2, PairOfCoded
  <2> QED
    BY <2>3 DEF r, v
<1>8. Pair(p6, Kernels!Residues, Small)
  <2> DEFINE r == <<791, 0, 21, 2>>   v == <<0, 0, 0, 0>>
  <2>1. Coded(r, Kernels!Residues) /\ Coded(v, Small)
    BY <1>1, <1>2, Coded4
  <2>2. Len(r) = Len(v)
    OBVIOUS
  <2> HIDE DEF r, v
  <2>3. Pair(<<r, v>>, Kernels!Residues, Small)
    BY <2>1, <2>2, PairOfCoded
  <2> QED
    BY <2>3 DEF r, v
<1>9. Pair(p7, Kernels!Residues, Small)
  <2> DEFINE r == <<791, 0, 21, 5>>   v == <<0, 0, 0, 0>>
  <2>1. Coded(r, Kernels!Residues) /\ Coded(v, Small)
    BY <1>1, <1>2, Coded4
  <2>2. Len(r) = Len(v)
    OBVIOUS
  <2> HIDE DEF r, v
  <2>3. Pair(<<r, v>>, Kernels!Residues, Small)
    BY <2>1, <2>2, PairOfCoded
  <2> QED
    BY <2>3 DEF r, v
<1>10. Pair(p8, Kernels!Residues, Small)
  <2> DEFINE r == <<1, 12288, 9, 0>>   v == <<0, -3, 2, 0>>
  <2>1. Coded(r, Kernels!Residues) /\ Coded(v, Small)
    BY <1>1, <1>2, Coded4
  <2>2. Len(r) = Len(v)
    OBVIOUS
  <2> HIDE DEF r, v
  <2>3. Pair(<<r, v>>, Kernels!Residues, Small)
    BY <2>1, <2>2, PairOfCoded
  <2> QED
    BY <2>3 DEF r, v
<1>11. Pair(p9, Kernels!Residues, Small)
  <2> DEFINE r == <<3, 0, 0, 1, 0, 0, 1100, 0>>   v == <<0, 0, 0, 0, 0, 0, 0, 1>>
  <2>1. Coded(r, Kernels!Residues) /\ Coded(v, Small)
    BY <1>1, <1>2, Coded8
  <2>2. Len(r) = Len(v)
    OBVIOUS
  <2> HIDE DEF r, v
  <2>3. Pair(<<r, v>>, Kernels!Residues, Small)
    BY <2>1, <2>2, PairOfCoded
  <2> QED
    BY <2>3 DEF r, v
<1>12. Kernels!Signed = {p1, p2, p3, p4, p5, p6, p7, p8, p9}
  BY DEF Kernels!Signed
<1> HIDE DEF p1, p2, p3, p4, p5, p6, p7, p8, p9
<1> QED
  BY <1>3, <1>4, <1>5, <1>6, <1>7, <1>8, <1>9, <1>10, <1>11, <1>12

(* Of such a sequence, the polynomial of its entries.                      *)
LEMMA LogIs ==
  ASSUME NEW s, Len(s) \in {2, 4, 8}
  PROVE  Kernels!Log(s) \in 1 .. 3 /\ Power2(Kernels!Log(s)) = Len(s)
<1>1. Power2(1) = 2 /\ Power2(2) = 4 /\ Power2(3) = 8
  BY SMT DEF Power2
<1>2. Kernels!Log(s) = CHOOSE l \in 1 .. 3 : Power2(l) = Len(s)
  BY Zenon DEF Kernels!Log, Power2
<1>3. \E l \in 1 .. 3 : Power2(l) = Len(s)
  <2>1. 1 \in 1 .. 3 /\ 2 \in 1 .. 3 /\ 3 \in 1 .. 3
    OBVIOUS
  <2>2. Len(s) = 2 \/ Len(s) = 4 \/ Len(s) = 8
    OBVIOUS
  <2> QED
    BY <1>1, <2>1, <2>2, Zenon
<1> QED
  BY <1>2, <1>3

LEMMA VectorIs ==
  ASSUME NEW T, NEW s, Coded(s, T), NEW l \in 1 .. 3, Power2(l) = Len(s)
  PROVE  Kernels!V(s) \in [Kernels!Degrees(l) -> T]
<1>1. Kernels!Degrees(l) = 0 .. Len(s) - 1
  <2>1. l \in 0 .. 10
    OBVIOUS
  <2> QED
    BY <2>1, PolysAre
<1>2. s \in Seq(T) /\ Len(s) \in Nat
  BY DEF Coded
<1>3. \A d \in 0 .. Len(s) - 1 : s[d + 1] \in T
  <2> TAKE d \in 0 .. Len(s) - 1
  <2>1. d + 1 \in 1 .. Len(s)
    BY <1>2
  <2> QED
    BY <1>2, <2>1, ElementOfSeq
<1>4. Kernels!V(s) = [d \in 0 .. Len(s) - 1 |-> s[d + 1]]
  BY DEF Kernels!V
<1> QED
  BY <1>1, <1>3, <1>4

LEMMA StartsAre == Kernels!MCInit => Kernels!Given /\ Kernels!Init
<1> SUFFICES ASSUME Kernels!MCInit PROVE Kernels!Given
  BY DEF Kernels!MCInit
<1>1. PICK key \in Kernels!Keys :
        \/ \E s \in Kernels!Samples : /\ Len(s[1]) = Len(key)
                                      /\ Kernels!Prepare("generate", Kernels!Log(key), s[1], s[2], s[1], key, FALSE)
        \/ \E s \in Kernels!Signed, k \in {"raw", "compressed"}, yes \in BOOLEAN :
             /\ Len(s[1]) = Len(key)
             /\ Kernels!Prepare(k, Kernels!Log(key), s[2], s[2], s[1], key, yes)
  BY Zenon DEF Kernels!MCInit
<1>2. Coded(key, Kernels!Residues)
  BY KeysAre
<1> DEFINE l == Kernels!Log(key)
<1>3. l \in 1 .. 3 /\ Power2(l) = Len(key)
  BY <1>2, LogIs DEF Coded
<1> HIDE DEF l
<1>4. Kernels!Polys(l) = [Kernels!Degrees(l) -> Kernels!Residues]
  BY Zenon DEF Kernels!Polys
<1>5. Kernels!V(key) \in Kernels!Polys(l)
  BY <1>2, <1>3, <1>4, VectorIs
<1>6. ASSUME NEW k, NEW a, NEW b, NEW m, NEW yes \in BOOLEAN, Kernels!Prepare(k, l, a, b, m, key, yes),
             k \in {"generate", "raw", "compressed"}, Kernels!V(a) \in [Kernels!Degrees(l) -> Int],
             Kernels!V(b) \in [Kernels!Degrees(l) -> Int], Kernels!V(m) \in [Kernels!Degrees(l) -> Int],
             k # "generate" => Kernels!V(b) \in [Kernels!Degrees(l) -> Small] /\ Kernels!V(m) \in Kernels!Polys(l)
      PROVE  Kernels!Given
  <2>1. /\ kernel = k /\ logn = l
        /\ given = [s1 |-> Kernels!V(a), s2 |-> Kernels!V(b), hm |-> Kernels!V(m), key |-> Kernels!V(key),
                    h |-> Kernels!to_ntt_monty(Kernels!V(key), l), decoded |-> yes]
    BY <1>6 DEF Kernels!Prepare
  <2>2. /\ given.s1 = Kernels!V(a) /\ given.s2 = Kernels!V(b) /\ given.hm = Kernels!V(m)
        /\ given.key = Kernels!V(key) /\ given.h = Kernels!to_ntt_monty(Kernels!V(key), l) /\ given.decoded = yes
    BY <2>1
  <2>3. l \in 1 .. 10
    BY <1>3
  <2>4. k # "generate" => \A d \in Kernels!Degrees(l) : Kernels!V(b)[d] \in -(Kernels!Q - 1) .. Kernels!Q - 1
    <3>1. \A n \in Nat : \A z \in Int : -(n - 1) <= z /\ z <= n - 1 => z \in -(n - 1) .. n - 1
      OBVIOUS
    <3>2. \A z \in Small : z \in -(Kernels!Q - 1) .. Kernels!Q - 1
      <4>1. Kernels!Q \in Nat /\ Kernels!Q - 1 = 12288
        BY QIs
      <4>2. \A z \in Small : z \in Int /\ -(Kernels!Q - 1) <= z /\ z <= Kernels!Q - 1
        BY <4>1 DEF Small
      <4> QED
        BY <3>1, <4>1, <4>2
    <3> QED
      BY <1>6, <3>2
  <2> QED
    BY <1>5, <1>6, <2>1, <2>2, <2>3, <2>4 DEF Kernels!Given
<1>7. CASE \E s \in Kernels!Samples : /\ Len(s[1]) = Len(key)
                                      /\ Kernels!Prepare("generate", l, s[1], s[2], s[1], key, FALSE)
  <2> PICK s \in Kernels!Samples : /\ Len(s[1]) = Len(key)
                                   /\ Kernels!Prepare("generate", l, s[1], s[2], s[1], key, FALSE)
    BY <1>7
  <2>1. Coded(s[1], Int) /\ Coded(s[2], Int) /\ Len(s[1]) = Len(s[2])
    BY SamplesAre DEF Pair
  <2>2. Kernels!V(s[1]) \in [Kernels!Degrees(l) -> Int] /\ Kernels!V(s[2]) \in [Kernels!Degrees(l) -> Int]
    BY <1>3, <2>1, VectorIs
  <2> QED
    BY <1>6, <2>2
<1>8. CASE \E s \in Kernels!Signed, k \in {"raw", "compressed"}, yes \in BOOLEAN :
             /\ Len(s[1]) = Len(key)
             /\ Kernels!Prepare(k, l, s[2], s[2], s[1], key, yes)
  <2> PICK s \in Kernels!Signed, k \in {"raw", "compressed"}, yes \in BOOLEAN :
             /\ Len(s[1]) = Len(key)
             /\ Kernels!Prepare(k, l, s[2], s[2], s[1], key, yes)
    BY <1>8
  <2>1. Coded(s[1], Kernels!Residues) /\ Coded(s[2], Small) /\ Len(s[1]) = Len(s[2])
    BY SignedAre DEF Pair
  <2>2. /\ Kernels!V(s[1]) \in [Kernels!Degrees(l) -> Kernels!Residues]
        /\ Kernels!V(s[2]) \in [Kernels!Degrees(l) -> Small]
    BY <1>3, <2>1, VectorIs
  <2>3. Kernels!Residues \subseteq Int /\ Small \subseteq Int
    BY ResidueIs DEF Small
  <2>4. \A f, D, T : f \in [D -> T] /\ T \subseteq Int => f \in [D -> Int]
    OBVIOUS
  <2>5. Kernels!V(s[1]) \in [Kernels!Degrees(l) -> Int] /\ Kernels!V(s[2]) \in [Kernels!Degrees(l) -> Int]
    BY <2>2, <2>3, <2>4
  <2> QED
    BY <1>4, <1>6, <2>2, <2>5
<1> QED
  BY <1>1, <1>7, <1>8 DEF l

(* A block of the GPU works without a race and in range (all three kernels *)
(* of soko_gpu_offline.cu), for any degree and any block.                  *)
THEOREM BlocksSafe ==
  Kernels!BlockAssumption => (Kernels!Spec => [](Kernels!TypeOK /\ Kernels!NoRace))
<1> SUFFICES ASSUME Kernels!BlockAssumption
             PROVE  Kernels!Spec => [](Kernels!TypeOK /\ Kernels!NoRace)
  OBVIOUS
<1>1. Kernels!KernelsInv => Kernels!TypeOK /\ Kernels!NoRace
  BY KernelsAreSafe
<1> QED
  BY <1>1, KernelsInvariant, PTL
=============================================================================
