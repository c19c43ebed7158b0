----------------------------- MODULE GpuKernels ------------------------------
(***************************************************************************)
(* The three kernels of src/cuda/soko_gpu_offline.cu: one block of threads *)
(* per token, each thread working on every blockDim-th coefficient, with a *)
(* barrier after each pass.                                                *)
(*                                                                         *)
(* One step of a thread is one iteration of its loop.  What it reads and   *)
(* writes of the shared memory is recorded until the next barrier, so that *)
(* NoRace shows a whole iteration to be a sound step.                      *)
(***************************************************************************)
EXTENDS Ntt, Sequences, FiniteSets

CONSTANTS
  LogBlock   \* blockDim.x = 2^LogBlock, 256 in the host code

BlockAssumption == LogBlock \in 0 .. 10   \* the most threads a block can have

BlockDim == 2^LogBlock
Threads  == 0 .. BlockDim - 1

VARIABLES
  kernel,  \* "generate", "raw" or "compressed"
  logn,
  input,   \* s1, s2: samples before they are stored; hm; decoded; h
  pass,    \* the number of barriers behind the block
  j,       \* each thread's loop variable
  tt,      \* u1_shared, tt_shared
  sum,     \* sum_shared
  ok,      \* decode_ok
  out,     \* the token's place in the banks
  readers, writers  \* of each shared cell, since the barrier
vars == <<kernel, logn, input, pass, j, tt, sum, ok, out, readers, writers>>

N     == 2^logn

(* Shared cells.  "hm" stands for every array that is filled in the first  *)
(* pass and read in a later one: hm_shared, s2_shared, u0_shared.          *)
Arrays == {"tt", "hm", "sum", "ok"}
Cells == Arrays \X (0 .. (IF BlockDim > N THEN BlockDim ELSE N) - 1)

verify_l2bound_device == <<101498, 208714, 428865, 892039, 1852696, 3842630,
                           7959734, 16468416, 34034726, 70265242>>

(* A value stored into an int8_t.                                          *)
Int8(z) == ((z + 128) % 256) - 128

-----------------------------------------------------------------------------
(* Slips the code could contain, none of them used below.                  *)

StoresFullSample(z)    == z
NextIterationDense(c)  == c + 1
NormTermUnbalanced(w)  == w
-----------------------------------------------------------------------------
(* The passes of a kernel, in order; a barrier stands between two of them. *)
Each(kind, count) == [k \in 1 .. count |-> <<kind, k - 1>>]

Transforms == Each("ntt", logn) \o <<<<"multiply", 0>>>> \o Each("intt", logn)

Program ==
  CASE kernel = "generate" ->
         <<<<"sample", 0>>>> \o Transforms \o <<<<"scale", 0>>, <<"target", 0>>>>
    [] kernel = "raw" ->
         <<<<"load", 0>>>> \o Transforms \o <<<<"norm", 0>>>> \o Each("reduce", LogBlock)
           \o <<<<"result", 0>>>>
    [] kernel = "compressed" ->
         <<<<"decode", 0>>, <<"load", 0>>>> \o Transforms \o <<<<"norm", 0>>>>
           \o Each("reduce", LogBlock) \o <<<<"result", 0>>>>

Finished == pass = Len(Program)
Kind  == Program[pass + 1][1]
Round == Program[pass + 1][2]

(* Loops over coefficients, and what thread 0 or the lower threads do.     *)
OverCoefficients == Kind \notin {"decode", "reduce", "result"}

Limit(t) ==
  CASE OverCoefficients -> N
    [] Kind = "reduce"  -> t + (IF t < 2^(LogBlock - 1 - Round) THEN 1 ELSE 0)
    [] OTHER            -> IF t = 0 THEN 1 ELSE t

NextIteration(c) == c + BlockDim

Through(t) == j[t] >= Limit(t)

(* What thread t does to a cell in this pass.                              *)
Touch(t, read, written) ==
  /\ readers' = [c \in Cells |-> IF c \in read THEN readers[c] \cup {t} ELSE readers[c]]
  /\ writers' = [c \in Cells |-> IF c \in written THEN writers[c] \cup {t} ELSE writers[c]]

-----------------------------------------------------------------------------
Stored(z) == Int8(z)

(* What a kernel may be given: any samples, and signatures, messages and   *)
(* keys of coefficients that are reduced, for any degree of the scheme.    *)
Given ==
  /\ kernel \in {"generate", "raw", "compressed"} /\ logn \in 1 .. 10
  /\ input.s1 \in [Degrees(logn) -> Int] /\ input.s2 \in [Degrees(logn) -> Int]
  /\ kernel # "generate" => \A d \in Degrees(logn) : input.s2[d] \in -(Q - 1) .. Q - 1
  /\ input.hm \in [Degrees(logn) -> Int] /\ input.decoded \in BOOLEAN
  /\ kernel # "generate" => input.hm \in Polys(logn)
  /\ input.key \in Polys(logn) /\ input.h = to_ntt_monty(input.key, logn)

Init ==
  /\ pass = 0
  /\ j = [t \in Threads |-> t]
  /\ tt = [d \in Degrees(logn) |-> 0]
  /\ sum = [t \in Threads |-> 0]
  /\ ok = FALSE
  /\ out = [s1 |-> [d \in Degrees(logn) |-> 0], s2 |-> [d \in Degrees(logn) |-> 0],
            target |-> [d \in Degrees(logn) |-> 0], result |-> "none"]
  /\ readers = [c \in Cells |-> {}]
  /\ writers = [c \in Cells |-> {}]

(* Samples are truncated before anything is computed from them.            *)
SampleIteration(t, c) ==
  /\ Kind = "sample"
  /\ out' = [out EXCEPT !.s1[c] = Stored(input.s1[c]), !.s2[c] = Stored(input.s2[c])]
  /\ tt' = [tt EXCEPT ![c] = mq_conv_small(Int8(input.s2[c]))]
  /\ Touch(t, {}, {<<"tt", c>>, <<"hm", c>>})
  /\ UNCHANGED <<sum, ok>>

DecodeIteration(t, c) ==
  /\ Kind = "decode"
  /\ ok' = input.decoded
  /\ Touch(t, {}, {<<"ok", 0>>} \cup (IF input.decoded THEN {<<"hm", d>> : d \in Degrees(logn)} ELSE {}))
  /\ UNCHANGED <<tt, sum, out>>

LoadIteration(t, c) ==
  /\ Kind = "load"
  /\ tt' = [tt EXCEPT ![c] = mq_conv_small(input.s2[c])]
  /\ Touch(t, {}, {<<"tt", c>>} \cup (IF kernel = "raw" THEN {<<"hm", c>>} ELSE {}))
  /\ UNCHANGED <<sum, ok, out>>

(* Places of the upper halves are left to the threads of the lower ones.   *)
Butterfly(c, t) == c % t < t \div 2

NttIteration(t, c) ==
  LET m == 2^Round   size == 2^(logn - Round)   ht == size \div 2
      v == mq_montymul(tt[c + ht], NttTwiddle(m, c, size))
  IN  /\ Kind = "ntt"
      /\ IF Butterfly(c, size)
           THEN /\ tt' = [tt EXCEPT ![c] = mq_add(tt[c], v), ![c + ht] = mq_sub(tt[c], v)]
                /\ Touch(t, {}, {<<"tt", c>>, <<"tt", c + ht>>})
           ELSE UNCHANGED <<tt, readers, writers>>
      /\ UNCHANGED <<sum, ok, out>>

INttIteration(t, c) ==
  LET m == 2^(logn - Round - 1)   size == 2^Round
      w == mq_sub(tt[c], tt[c + size])
  IN  /\ Kind = "intt"
      /\ IF Butterfly(c, 2 * size)
           THEN /\ tt' = [tt EXCEPT ![c] = mq_add(tt[c], tt[c + size]),
                                    ![c + size] = mq_montymul(w, INttTwiddle(m, c, size))]
                /\ Touch(t, {}, {<<"tt", c>>, <<"tt", c + size>>})
           ELSE UNCHANGED <<tt, readers, writers>>
      /\ UNCHANGED <<sum, ok, out>>

(* By the key, or by 1/n.                                                  *)
MultiplyIteration(t, c) ==
  /\ Kind \in {"multiply", "scale"}
  /\ tt' = [tt EXCEPT ![c] = mq_montymul(tt[c], IF Kind = "multiply" THEN input.h[c]
                                                ELSE InverseOfDegree(logn))]
  /\ Touch(t, {}, {<<"tt", c>>})
  /\ UNCHANGED <<sum, ok, out>>

TargetIteration(t, c) ==
  LET u0 == mq_conv_small(Int8(input.s1[c]))
  IN  /\ Kind = "target"
      /\ out' = [out EXCEPT !.target[c] = IF u0 - tt[c] >= 0 THEN u0 - tt[c] ELSE u0 + Q - tt[c]]
      /\ Touch(t, {<<"tt", c>>, <<"hm", c>>}, {})
      /\ UNCHANGED <<tt, sum, ok>>

NormTerm(w) == Centered(w)

(* The thread's own sum; the code stores it after its last iteration.      *)
NormIteration(t, c) ==
  LET s1n == NormTerm(mq_sub(mq_montymul(tt[c], InverseOfDegree(logn)), input.hm[c]))
  IN  /\ Kind = "norm"
      /\ sum' = [sum EXCEPT ![t] = @ + s1n * s1n + input.s2[c] * input.s2[c]]
      /\ Touch(t, {<<"tt", c>>, <<"hm", c>>}, {<<"sum", t>>})
      /\ UNCHANGED <<tt, ok, out>>

Stride(k) == 2^(LogBlock - 1 - k)

ReduceIteration(t, c) ==
  /\ Kind = "reduce"
  /\ sum' = [sum EXCEPT ![t] = @ + sum[t + Stride(Round)]]
  /\ Touch(t, {<<"sum", t + Stride(Round)>>}, {<<"sum", t>>})
  /\ UNCHANGED <<tt, ok, out>>

ResultIteration(t, c) ==
  /\ Kind = "result"
  /\ out' = [out EXCEPT !.result =
               IF sum[0] <= 3 * verify_l2bound_device[logn] THEN "accept" ELSE "reject"]
  /\ Touch(t, {<<"sum", 0>>}, {})
  /\ UNCHANGED <<tt, sum, ok>>

(* Iterations of the transforms leave out every place of an upper half     *)
(* with `continue'; decode and result are under `if (tid == 0)'.           *)
Iteration(t) ==
  /\ ~Finished
  /\ j[t] < Limit(t)
  /\ \/ SampleIteration(t, j[t])   \/ DecodeIteration(t, j[t])
     \/ LoadIteration(t, j[t])     \/ NttIteration(t, j[t])
     \/ INttIteration(t, j[t])     \/ MultiplyIteration(t, j[t])
     \/ TargetIteration(t, j[t])   \/ NormIteration(t, j[t])
     \/ ReduceIteration(t, j[t])   \/ ResultIteration(t, j[t])
  /\ j' = [j EXCEPT ![t] = NextIteration(@)]
  /\ UNCHANGED <<kernel, logn, input, pass>>

(* The barrier opens when every thread has ended its loop.  After a failed *)
(* decoding all of them return, thread 0 with the verdict.                 *)
Barrier ==
  /\ ~Finished
  /\ \A t \in Threads : Through(t)
  /\ IF Kind = "decode" /\ ~ok
       THEN pass' = Len(Program) /\ out' = [out EXCEPT !.result = "reject"]
       ELSE pass' = pass + 1 /\ UNCHANGED out
  /\ j' = [t \in Threads |-> t]
  /\ readers' = [c \in Cells |-> {}]
  /\ writers' = [c \in Cells |-> {}]
  /\ UNCHANGED <<kernel, logn, input, tt, sum, ok>>

Next == Barrier \/ \E t \in Threads : Iteration(t)
Spec == Given /\ Init /\ [][Next]_vars

-----------------------------------------------------------------------------
TypeOK ==
  /\ tt \in Polys(logn)
  /\ out.target \in Polys(logn)
  /\ \A d \in Degrees(logn) : out.s1[d] \in -128 .. 127 /\ out.s2[d] \in -128 .. 127
  /\ pass \in 0 .. Len(Program)
  /\ \A t \in Threads : sum[t] >= 0
  /\ \A c \in Cells : readers[c] \subseteq Threads /\ writers[c] \subseteq Threads

(* Between two barriers a shared cell that one thread writes is not        *)
(* touched by another (the loops of all three kernels).                    *)
NoRace == \A c \in Cells : writers[c] # {} => Cardinality(readers[c] \cup writers[c]) = 1

(* The thread that has a cell to itself until the next barrier: of a       *)
(* transform's two places, the one that works on the lower.                *)
LowerOf(i, size) == IF Butterfly(i, size) THEN i ELSE i - size \div 2

Owner(cell) ==
  LET i == cell[2] IN
  CASE cell[1] = "sum" -> IF Kind = "reduce" /\ i >= Stride(Round) THEN i - Stride(Round) ELSE i
    [] cell[1] = "ok" \/ (cell[1] = "hm" /\ Kind = "decode") -> 0
    [] cell[1] \in {"tt", "hm"} /\ Kind = "ntt" -> LowerOf(i, 2^(logn - Round)) % BlockDim
    [] cell[1] \in {"tt", "hm"} /\ Kind = "intt" -> LowerOf(i, 2 * 2^Round) % BlockDim
    [] OTHER -> i % BlockDim

Touched(cell) == readers[cell] \cup writers[cell]

(* What is stored is in range, whatever the threads have done so far.      *)
ValuesInv ==
  /\ tt \in Polys(logn)
  /\ sum \in [Threads -> Nat]
  /\ ok \in BOOLEAN
  /\ out \in [s1 : [Degrees(logn) -> -128 .. 127], s2 : [Degrees(logn) -> -128 .. 127],
              target : Polys(logn), result : {"none", "accept", "reject"}]

(* Each thread works on its own places, and cells are touched by their     *)
(* owners only.                                                            *)
SharesInv ==
  /\ pass \in 0 .. Len(Program)
  /\ j \in [Threads -> Nat]
  /\ \A t \in Threads : j[t] >= t /\ (j[t] - t) % BlockDim = 0
  /\ readers \in [Cells -> SUBSET Threads]
  /\ writers \in [Cells -> SUBSET Threads]
  /\ \A cell \in Cells : IF Finished THEN Touched(cell) = {} ELSE Touched(cell) \subseteq {Owner(cell)}

KernelsInv == Given /\ ValuesInv /\ SharesInv

(* A generated token satisfies target = s1 - h * s2 for the samples as     *)
(* they are stored, whatever the order of the threads (kernel 1).          *)
TokenConsistent ==
  (kernel = "generate" /\ Finished) =>
    \A product \in {Times([d \in Degrees(logn) |-> out.s2[d] % Q], input.key, logn)} :
      \A d \in Degrees(logn) : out.target[d] = (out.s1[d] - product[d]) % Q

(* A signature is accepted exactly when it could be decoded and its        *)
(* squared norm is at most three times the bound (kernels 2 and 3).        *)
SquaredNorm ==
  LET product == Times([d \in Degrees(logn) |-> input.s2[d] % Q], input.key, logn)
      s1      == [d \in Degrees(logn) |-> Centered((product[d] - input.hm[d]) % Q)]
  IN  Total([d \in Degrees(logn) |-> s1[d] * s1[d] + input.s2[d] * input.s2[d]])

VerdictRight ==
  (kernel # "generate" /\ Finished) =>
    (out.result = "accept" <=>
       (kernel = "raw" \/ input.decoded) /\ SquaredNorm <= 3 * verify_l2bound_device[logn])

-----------------------------------------------------------------------------
(* A block of four threads on two coefficients, where some threads have    *)
(* nothing to do, on four, and on eight, where each works twice.           *)

V(s) == [d \in 0 .. Len(s) - 1 |-> s[d + 1]]

(* Samples beyond the range of an int8_t occur: the magnitude goes to 2815.*)
Samples == {<<<<300, -5>>, <<127, -128>>>>,
            <<<<-1, 2815>>, <<-200, 3>>>>,
            <<<<0, 7, -129, 12>>, <<128, -4, 250, 1>>>>,
            <<<<1, 700, 0, -3, 2, -130, 9, 4>>, <<0, 5, -6, 2047, 1, 0, 0, -8>>>>}

Keys == {<<4091, 12288>>, <<77, 0, 6145, 12288>>,
         <<5, 0, 12288, 1, 9000, 3, 7, 4091>>}

(* Hashed messages and signatures around three times the bound of two      *)
(* coefficients, 304494, and of four, 626142.                              *)
Signed == {<<<<0, 0>>, <<0, 0>>>>, <<<<551, 29>>, <<0, 0>>>>, <<<<552, 0>>, <<0, 0>>>>,
           <<<<6144, 3>>, <<-20, 2047>>>>, <<<<551, 29>>, <<-1, 2>>>>,
           <<<<791, 0, 21, 2>>, <<0, 0, 0, 0>>>>, <<<<791, 0, 21, 5>>, <<0, 0, 0, 0>>>>,
           <<<<1, 12288, 9, 0>>, <<0, -3, 2, 0>>>>,
           <<<<3, 0, 0, 1, 0, 0, 1100, 0>>, <<0, 0, 0, 0, 0, 0, 0, 1>>>>}

Log(s) == CHOOSE l \in 1 .. 3 : 2^l = Len(s)

Prepare(k, l, s1, s2, hm, key, decoded) ==
  /\ kernel = k /\ logn = l
  /\ input = [s1 |-> V(s1), s2 |-> V(s2), hm |-> V(hm), key |-> V(key),
              h |-> to_ntt_monty(V(key), l), decoded |-> decoded]

MCInit ==
  /\ \E key \in Keys :
       \/ \E s \in Samples : /\ Len(s[1]) = Len(key)
                             /\ Prepare("generate", Log(key), s[1], s[2], s[1], key, FALSE)
       \/ \E s \in Signed, k \in {"raw", "compressed"}, decoded \in BOOLEAN :
            /\ Len(s[1]) = Len(key)
            /\ Prepare(k, Log(key), s[2], s[2], s[1], key, decoded)
  /\ Init
=============================================================================
