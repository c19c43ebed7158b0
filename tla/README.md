# Verification of SOKO

SOKO measures Falcon (FN-DSA) signing split into an offline part, which makes
one-time *presign tokens* in bulk on a CPU or a GPU, and an online part, which
uses one token per signature.  A token must never be used for two signatures:
two signatures from one token reveal the signing key.  Most of this project is
therefore about where tokens are, who may write them, and how often each is used.

## Inventory

| Component | Source | State | Operations |
|---|---|---|---|
| Refill pipeline | `src/backends/soko_falcon_pipeline.c` | ring of token references, `bank_remaining`, `banks[].available`, `next_seed`, the worker structure with its atomic flags, the storage of the banks | `init`, `acquire`, `destroy`, thread procedure |
| Online driver | `benchmarks/soko_token_benchmark.c` | ok, fail and attempt counts, signature bank | `run_online_cpu_mt`, `run_online_cpu_pipeline`, `run_verify_batch_*`, `run_token_step` |
| Refill simulator | `benchmarks/soko_refill_simulator.c` | queued tokens, refill in flight with size and completion time, clock, counters | `maybe_start_refill`, `settle_refills`, `run_simulation_case` |
| GPU loader | `src/backends/soko_gpu_backend.c` | `gpu_loader_state`, module handle, function pointers | `soko_gpu_backend_load`, one wrapper per GPU call |
| CUDA host code | `cuda/soko_gpu_offline.cu` | cached tables, keys and buffers on the device, `g_cached_logn`, CUDA's error latch | generate, reset, two batch verifications |
| Falcon key state, token helpers | `src/backends/soko_falcon_common.c` | key material, buffers of each signer | prepare, destroy, sign with a token, verify |
| CPU and CPU-MT generation | `src/backends/soko_cpu_backend.c`, `soko_cpumt_backend.c` | the banks, one generator | generate tokens |
| OO-Ed25519 | `src/backends/oo_ed25519.c` | none of its own | key pair, token, sign, verify |
| Certificate benchmarks | `benchmarks/bench_cert_*.c` | chain of certificates, timings | build, sign, verify chain |
| OO-Falcon GPU benchmark | `benchmarks/bench_oofalcon_gpu_tokens.c` | as the online driver | an older copy of it |
| FN-DSA | `submodules/FN-DSA` | SHAKE256 contexts, keys, the caller's temporary buffer | key generation, signing, verification, codecs |

All paths are below `src/` of the repository checkout.

How they interact.  The online driver fills two banks through the GPU loader
and the CUDA code and hands them to the refill pipeline; it then calls `acquire`
and signs, in turn, until it has enough signatures or an error, and calls
`destroy`.  The pipeline starts one worker thread per refill; the worker calls
the GPU and reports through the shared worker structure.  The simulator uses the
same backends to measure how long one batch takes and then runs a
discrete-event model of its own.  The certificate benchmarks stand alone.  All of
them call FN-DSA: for keys, for the hash of a message and for verification; the
kernels do again, on the device, what `shake.c` and `vrfy.c` do.

What is hard.  The pipeline has two threads, no lock, three atomic flags and
memory handed out by reference; all its rules about who may write which bank
follow from the order of a few loads and stores.  The loader and the CUDA host
code cache results, failures included, across calls.  The simulator's clock
lets several refills complete between two arrivals.  The drivers account for
failures in more than one place.  FN-DSA is sequential, but dense: constant-time
code that decides by carries, two builds of one algorithm, one buffer cut into
parts that overlap in time, numbers whose assumed lengths are never measured.

What makes each component correct:

- *pipeline*: a token is handed out once, whole, and stays whole until it was
  used; ring and counters agree; no error that cannot happen; no wait without an
  end; nothing touched after `destroy`.
- *online driver*: every token is signed at most once and counted once; `ok +
  fail` is the number of tokens.
- *simulator*: tokens are conserved (capacity + produced = served + queued), the
  queue never exceeds its capacity, one refill at a time, the loop ends.
- *GPU loader*: function pointers are called only after a successful load.
- *CUDA host code*: a call that returns success used the tables and keys of its
  own arguments; nothing stays allocated or registered after a call.
- *key state and token helpers*: a key is used only when prepared; changing the
  layout of a token loses nothing.
- *certificate benchmarks*: a chain is accepted only if each link is, and an average
  divides what was measured.
- *FN-DSA*: what is signed verifies and nothing else does; one encoding per object;
  no buffer too small, no part of it used for two things at a time; both builds
  compute the same; an accepted key solves the NTRU equation.

## Modules

| Part of the code | Modules | Checked in the runs |
|---|---|---|
| refill pipeline | `RefillPipeline`, `TokenService`; proofs `RefillPipelineProofs` | `refill_two_banks`, `refill_three_banks`, `refill_liveness` |
| refill simulator | `RefillSimulator`; `MCRefillSimulator`; `RefillSimulatorProofs` | `refill_simulator` |
| token benchmark, online stage | `OnlineBench`; `OnlineBenchProofs` | `online_bench`, `pipeline_mode` |
| GPU loader and CUDA host code | `GpuBackend`; `GpuBackendProofs` | `gpu_backend`, `tokens_target`, `errors_own` |
| key state, CPU generation, batch verification | `KeyState`, `PresignCpu`, `VerifyBatch`; `MCHost`; `ThreadsProofs` | `host` |
| kernels of the GPU | `GpuKernels`; `MCHost`; `ThreadsProofs` | `host` |
| certificate chains | `CertChain`; `MCHost`; `FalconApiProofs` | `host` |
| FN-DSA: hashed and random bytes | `HashToPoint`, `Sponge`, `Prng`, `Keccak`; `MCHost`; `StreamsProofs` | `host` |
| FN-DSA: `falcon.c` and the norm check | `FalconApi`, `FalconNorm`; `MCHost`; `FalconApiProofs`, `HostProofs` | `host` |
| FN-DSA: arithmetic, verification, codecs, signing, samplers, sizes | `ModQ`, `Ntt`, `FalconVerify`, `FalconCodec`, `FalconFft`, `FalconSign`, `FalconSampler`, `GpuSampler`, `FalconSizes`; `MCNtt`, `MCFalconSign`, `MCFalconSizes`, `MCFalcon`; `FalconApiProofs` (the sizes) | `falcon` |
| FN-DSA: key generation | `NtruModp`, `NtruInt`, `NtruBezout`, `KeygenSolve`, `KeygenPlan`; `MCNtru`, `MCKeygen` | `keygen` |

Modules build on each other where the code does: `FalconVerify` and `GpuKernels` on
`Ntt` and `ModQ`, `FalconSign` on `FalconFft`, `FalconApi` and `KeygenPlan` on
`FalconSizes`, `NtruBezout` on `NtruInt` and that on `NtruModp`; `KeygenSolve` takes
what these three show for granted and computes with integers.

Three runs check several parts that share no state.  `MCFalcon`, `MCKeygen` and
`MCHost` have a variable `part`, chosen at the start and never changed; each step
is a step of that part's module, instantiated with the variables `x1`, `x2`, ...,
and each property is a conjunction of that module's named properties, guarded by
`part`.  So a behaviour of such a run is a behaviour of one module, and a property
is about one subject, not about everything.  Their bounds are constants of the
configuration files.  `PartsAssumption` in each of the three repeats what the
instantiated modules assume of their constants, and TLC evaluates it.

`MCHost` instantiates the parts that are proved about by way of their proof
modules (`Api == INSTANCE FalconApiProofs ...`, `Work == INSTANCE ThreadsProofs ...`,
`Streams == INSTANCE StreamsProofs ...`).  A proof module for several parts
instantiates the other ones in turn, as in `Work!Batch`, `Work!Key`,
`Streams!Sponge`, `Streams!Prng` and `Api!Certs`.  That way their theorems are theorems about
the instances that TLC runs, and `HostProofs` carries them over to the joined
specification.

### RefillPipeline

State.  `items`, `head`, `tail`, `count` are `soko_token_queue_t`; `remaining`
and `available` are `bank_remaining` and `banks[].available`; `inFlight`,
`done`, `started`, `wBank`, `wSeed`, `result`, `wThread` are the worker
structure.  `content[b]` abstracts the storage of a bank to the ordinal of the
seed it was generated from, or `Torn` while the GPU writes it and after a failed
call.  A token is a pair of such a seed and a place in the bank; `view` is the
reference last handed out, resolved through `content` at the moment it is used.
`tpc` and `targ` are the places and arguments of the worker threads, `handles`
the thread handles that are open, and `lastSigned` is a history variable.

Steps.  The consumer is sequential code, cut where another thread's store can
fall between two of its loads:

| Action | Code |
|---|---|
| `LoadDone` | entry of `acquire`: is `done` set? |
| `CollectFailed`, `CollectOnEntry`, `CollectWaiting` | rest of `soko_finish_completed_refill`: join, clear `done`, test `result`, queue the bank, restock the counter |
| `SkipRefill`, `StartRefill`, `StartFails` | the test of `count` and `in_flight`, `soko_find_empty_bank`, `soko_start_refill_worker` and its failure |
| `WaitSeesDone` | leaving the waiting loop; its other iterations only sleep |
| `PopToken` | `soko_queue_pop`, the counters, the view |
| `SignToken` | the caller's signing with the view |
| `CallDestroy`, `Destroy` | `soko_falcon_refill_pipeline_destroy` |

The worker has one action per store: `ThreadBegin`, `ThreadGenerated` (the call
returns success or an error), `ThreadStoreDone`, `ThreadClearInFlight`,
`ThreadExit`.  `StartRefill` is one action although it stores three flags: no
thread of an earlier refill can still store to the structure then
(`OneBusyThread`, proved), and the new thread does not exist before its end.  The
function's own test of `inFlight` (line 146) is kept (`WorkerBusy`), though it never
holds: `acquire` tested the same flag just before, and a worker only clears it.

Atomics are sequentially consistent, as `atomic_load` and `atomic_store` are by
default, and they order the plain stores to `result` and to the bank before
`done`.

The race on entry of `acquire`.  Between the load of `done` and the load of
`in_flight` the worker may store both.  `acquire` then starts another refill
over one that was completed and never collected: its tokens are lost and made
again under the next seed, its handle is overwritten and never closed, and an
error it reported goes unnoticed.  The model contains this race (`StartRefill`
with `started` already true), and the properties show what survives it: the old
thread is past its last store, the bank is the same empty bank, tokens stay in
order.  In the abstract service this is `GiveUp`.

Properties.

- `QueueMatchesBanks`: ring and `bank_remaining` agree on the tokens left, each
  once and in order.
- `RefillAvoidsLiveBanks`: no refill writes a bank with a queued token or with
  the token the caller is signing with.
- `OneBusyThread`, `JoinReachesBusyThread`: the shared worker structure has one
  user, and the stored handle is that user's.
- `NoQueueError`: the codes -212, -214, -215 cannot be returned.
- `NoUseAfterFree`: `destroy` leaves no thread that will touch freed memory.
- `WaitHasRefill`: the waiting loop is never entered without a started refill.
- `TokensSignedInOrder`: each signing uses a whole token later than all before.
- `AcquireReturns`, `DestroyReturns`: liveness.
- `ImplementsTokenService`: refinement of `TokenService`.
- `IInv`: the inductive invariant of the proofs, of which `OneBusyThread`,
  `WaitHasRefill` and the types are conjuncts.

Just before the actions that use them the module lists variants of single
helpers (`IsEmptyBankAlmost`, `CanJoinNoWait`, ...): slips the code could
contain.  No action uses them; substituting one for its original makes the
property paired with it fail (see Slips below; the other modules have them too).

### TokenService

A first-in first-out pool of tokens: `Replenish` appends a batch of the next
seed, `GiveUp` loses seeds, `Take` hands out the front.  The mapping takes the
pool to be what the queue's references point at in the banks' *present* content,
so an overwritten token would show as a change of the pool.  The last seed used
counts as used only when its refill was collected, failed or was overtaken.

### RefillSimulator

One case of the consume-only simulator, `run_simulation_case`.  Variables are the
locals of that function; `cfg` holds what a case fixes (capacity, batch, measured
time of a refill, interval between arrivals, tokens to serve), any combination of
which TLC tries.  `NextRequest` is the loop's condition, `Settle` one iteration of
`settle_refills` for the arrival, `Serve` and `Starve` the two branches for the
request, `FinalSettle` and `Finish` the last call.  `MaybeStartRefill` is
`maybe_start_refill`; as in the code it is the last thing settling and serving do.
`lastEvent`, a history variable, is the time of the arrival or completion handled
last.  Times are integers; the rounding of doubles is not modelled, the rounding
up of the threshold is.

The difficulty is that the program does not step from event to event.  It jumps
from arrival to arrival and settles then, in a loop, completions that lie in the
past, each of which may start the next refill in the past too, while sizes were
fixed when refills started.

- `RefillNotMissed`: no refill is forgotten, however late it is settled.
- `NoStarvation`: if a batch covers the demand of one refill's time, and fits
  into the queue above the threshold, no request is refused.  The second
  condition matters: with little room above the threshold refills are cut to the
  free slots, and with a capacity of 6, batches of 4 and a refill time of 4
  intervals requests do starve although a full batch would do.
- `Terminates`; `SimulatorInv`, the inductive invariant, of which these are
  conjuncts: `TokensConserved`, `QueueWithinCapacity` (queue, counters and the
  refill in flight agree, and a refill fits when it is settled),
  `CompletionInReach`, `EventsInOrder` (no event is handled before an earlier one).

### OnlineBench

The token benchmark's online stage for one step of the sweep: signing with every
token of a bank, verifying the signatures, counting.  `threads`, `backend` and
`pipelineMode` are the options; TLC tries all combinations.  `at`, `todo`, `good`
and `bad` belong to the threads of an OpenMP team: where a thread is, the tokens
left of its block, the private counts of the reduction.  `signSuccess`, `signFail`
and `attempts` are `sign_success`, `fail` and `total_attempts_ok`; `sigLen`
abstracts `sig_lens` to whether an entry was written and whether there is a
signature.  `signed` and `accepted` are history variables.

`phase` follows the code: `Choose` is the test at the entry of
`run_online_cpu_pipeline`; `SignNext` is one iteration of the signing loop,
`LoopDone` its end for one thread, `AddSigned`, `AddUnsigned` and `AddAttempts`
the atomic additions behind it; `Signed` the end of the parallel region.
Verification is `VerifyNext`, `AddAccepted` and `AddRejected` on the CPU,
`Prepare` and `VerifyRaw`, or `VerifyFull`, on the GPU (`GpuVerifyFails`: the
program exits), and `Report` the sums at the end.  A team of one thread is the
sequential code.  Which thread has which token is OpenMP's business: `Owner` is
its static schedule and marked external.  The model has no state between a
thread's two atomic additions other than its place, and threads pass there in
any order.

- `CountsExact`: the figures reported are those of the tokens.  With verification
  wholly on the GPU a token whose signing failed counts as two failures: once in
  `fail`, once as an invalid signature of length 0.  The property says so.
- `LengthsWritten`: verification reads no length that signing did not write, and
  a length says there is a signature exactly where one was made.  `sig_lens`
  comes from `malloc` and is not cleared.
- `SignedOnce`: no two threads sign with one token.
- `PipelineModeUsesPipeline` is violated.  `README.md:123` and the banner printed
  by the program announce the refill pipeline for `--pipeline`; but
  `run_token_step` makes one bank of all the tokens asked for, and
  `run_online_cpu_pipeline` takes the pipeline only if one bank holds fewer, so
  the fallback always runs.  The `pipeline` phase is there for the branch and
  is never reached; what the pipeline does when used is `RefillPipeline`.
- `BenchInv`, the inductive invariant, is proved and not run.

### GpuBackend

A call to the GPU as its caller sees it: the loader `soko_gpu_backend.c` and the
host code of `soko_gpu_offline.cu`.  The loader tries once to find the library and
its symbols and keeps the outcome, also a failed one (`loader`, `module`,
`functions`).  The CUDA host code keeps, between calls, a stream and an event, the
NTT tables on the host and on the device (`hostTables`, `table`), and two public
keys: one in the form for making tokens, one for verifying (`deviceKey`, each
with the `hash` and `cachedLogn` its cache is looked up by).  `lastError` is
CUDA's own memory of the last error; `buffers` and `registered` are what the
call has allocated and page-locked.

A call goes through places: `load`, `setup`, `tables`, `key`, `alloc`; then
`launch`, `register`, `copyOut` when tokens are made, or `register`, `copyIn`,
`launch`, `copyOut` when signatures are verified.  Every CUDA call may fail.
Failures checked at once end the call; the copies of tables and keys and the
registering of banks are not checked, and only show in `lastError`, which the
call takes with `cudaGetLastError` after the launch.

- `OwnKeyUsed`: success means the kernel worked with the key of this call.  A copy
  of the verifying key that failed leaves the hash of the key it should have
  made, and a next call with that key would find it there.  It does not come to
  that, because the error makes this verification fail and a failed verification
  ends the benchmark (`soko_token_benchmark.c:761-766`).  For making tokens, where
  a failure does not end the benchmark, the cache is never found filled:
  `ensure_ntt_tables` clears `g_cached_logn` in each call.
- `TablesUsed`: nor did it work with tables that were not copied, unless that
  copy failed in an earlier call.
- `AllReleased`: nothing stays allocated or page-locked after a call.  Each exit has
  its own cleanup, as in the code: `Freed(exit)` and `Unregistered(exit)` are what the
  lines at that exit release, and the slip forgets one buffer at one of them;
  `CallsResolved`: pointers are called only after a successful load.
- Proved, not run: `GpuInv`, the inductive invariant, and `LeftoverReportedOnce`: a
  left-over error makes one later call fail and no more.  Errors that destroy
  the CUDA context make each later call fail by itself.
- `SuccessMeansTarget` is violated.  `cuda/soko_gpu_offline.h:35,38` says what a
  token made contains.  When the copy of a table fails in the first (cold)
  generation, that one fails, but leaves the table allocated; the next one
  (`run_token_step` makes it regardless, lines 1519-1531) finds it there and
  succeeds without the table ever having been set.
- `ErrorMeansFailure` is violated.  A failure that does not matter, as that of the
  optional `cudaHostRegister`, stays in `lastError` and makes the next call fail
  although nothing in it failed.

CUDA's error state is external to the repository: an error stays until it is taken,
and resetting the device may or may not clear it.

### KeyState and PresignCpu

`KeyState` is `soko_falcon_common.c`: one key state that is prepared (any of its
allocations and decodings may fail), threads with buffers of their own that sign
under it with tokens they may share, and the release of everything.  `heap` is
the set of allocated blocks, a polynomial is told apart by what it was computed
from.  The signer proper is external: it reads samples, target and hash and
leaves its target buffer overwritten, which is why the caller hands it a copy.  The
preparation is one action, whichever stage ends it: no signer exists before it
returns and every failure leaves by the same cleanup, which frees what the pointers
name.

- `NothingLost`: every allocated block is pointed at, at each place, after each
  failure; `SignsUnderKey`, `OwnSignature`: a signature is one of the thread's
  own message under the prepared key; `TokenIntact`: signing leaves a token that
  another thread may be using as it was.
- `KeyStateInv`, the inductive invariant, is proved and not run.

`PresignCpu` is the loop over tokens of the CPU back ends, by one thread or by a
team: `TokensComplete` (all of them, once, each target from the samples beside it)
and `TargetsKept` (what is complete is not touched again); `PresignInv` is what
is proved for them.

### Certificate benchmarks: CertChain, VerifyBatch

`CertChain` covers the six drivers `bench_cert_*.c`.  A driver says which operation
follows which, each at a level of the chain (`Plain`, `OoFalcon`, `OoEd25519`,
`OoDilithium`: the nesting of its loops); an operation is an action, and `at` is the
one that comes next.  The drivers differ in that order, in what they do when a signature fails, and in
what they do before the message is known (a sample, a token, a table of nonces).

- `SilenceMeansChain`: an iteration without a complaint leaves an unbroken chain,
  in spite of certificates kept from earlier iterations when signing fails;
  `ComplaintMeansFailure`: and no complaint comes of the order of operations.
- `TimesPerRun`: what each printed average divides was measured once per
  iteration.  `NonceOnce`: no sample or group of nonces signs twice under a key.
- `ChainInv` is the inductive invariant, about which more below.

`VerifyBatch` is the multi-threaded batch at the end of the Falcon benchmark.  Each
thread counts failures in a private sum (`share`), and the reduction adds the sums
of the threads one after the other, in any order (`Reduce`, `joined`).  A
thread without a workspace skips the loop the others share out, which OpenMP
does not define; the model takes the outcomes of a static schedule, a region
that never ends among them (`Hang`).  `ZeroMeansAllVerified` holds in all of them,
as the thread counts the whole batch as failed; `FailuresExact` if every thread
has its workspace.  `VerifyBatchInv` is the inductive invariant.

### The kernels: GpuKernels, GpuSampler

`GpuKernels` has the threads of a block go through the passes of the three kernels,
one loop iteration per step, with a barrier after each pass.  What a step reads
and writes of shared memory is recorded up to the barrier, and `NoRace` says that
no two threads touch a cell one of them writes, so that a whole iteration is a
sound step.  `Spec` starts from anything a kernel may be given (`Given`); the run
from a few such inputs.  `KernelsInv` is the inductive invariant: each cell has an
`Owner` until the next barrier.
`TokenConsistent`: the target of a token is that of the samples *stored*;
`VerdictRight`: the verdict is that of the norm.

`GpuSampler` computes with the code's constants in words of 64 bits, represented as
bytes: the table at each of its thresholds (`ThresholdsCounted`), the division by a
multiplication (`DivisionExact`) and the exponential (`LimitInRange`) for every
argument that occurs, each sample once (`EachValueOnce`), the seeding
(`OwnGenerator`, `StepUndone`: no two tokens or places share a generator's state).

### FN-DSA: arithmetic, hashing, codecs

| Module | Code | Shows |
|---|---|---|
| `ModQ` | `vrfy.c`, `mq_*` | exact results modulo 12289, for every operand y |
| `Ntt` | `mq_NTT`, `mq_iNTT` with their tables | products modulo X^n + 1; values at all roots |
| `FalconVerify` | `vrfy.c` from line 635 | acceptance exactly of short vectors; key recovery and completion |
| `FalconNorm` | `common.c`, `sign.c` | the saturating norm is exact whatever wraps (proved) |
| `HashToPoint` | `common.c` | the constant-time squeeze gives the plain polynomial (proved) |
| `FalconCodec` | `codec.c` | inverse, lengths agree, one encoding per polynomial |
| `Keccak` | `process_block`, `keccakf1600_device` | unrolled and plain permutation agree, on every state (proved) |
| `Sponge` | `shake.c`, the device's one block | any cutting into calls gives the same (proved) |
| `Prng` | `rng.c`, `inner.h` | no value for signing is given twice; both builds agree (proved) |

They are pure algorithms, stated as operators and recursive functions and checked
against reference definitions (sums, integers, sets).  Where the code shifts words
the module says how they are represented: lanes and accumulators are sets or
sequences of bits, buffers sequences of small bytes.  `Keccak` leaves the
permutation visible, `Sponge` opaque; `Prng` takes the ChaCha20 block as opaque.

### FN-DSA: signing

`FalconFft` replaces the floating-point numbers by a finite field in which -1 is no
square: the transforms, the LDL tree and the sampling then compute what they
would if no operation rounded, and equations between them can be checked exactly.
Rounding to an integer takes the representative around zero.

- `FalconFft`: `fft.c`, also the bodies with vectors (`FALCON_AVX2`), against sums
  over coefficients.
- `FalconSign`: `ffLDL_*`, `ffSampling_*`, `expand_privkey`, `do_sign_tree`,
  `do_sign_dyn` and the unrolled lowest levels, the plain ones and those with
  vectors of two lanes (`RotatedV`, `AddMulV`, `TurnedV`, `MovedFourV`).  Polynomials live at addresses of
  one memory that holds only what was written, so that a buffer used too early
  stops the model and one overwritten too early shows.  The integer sampler is a
  deterministic stand-in that logs center and leaf.  `RoomKept`: the scratch space
  is that of the comments; `WaysAgree`: with and without an expanded key the
  sampler gets the same calls; `PointOfLattice`: the signature differs from the
  hashed message by the sampled point of the lattice, also after attempts that
  were refused, although message and signature share a buffer; `NearestPlane`: the
  norm is the sum of leaf times squared distance, which only the right centers
  give.
- `FalconSampler`: the half-Gaussian by limbs and by vectors, the lazy comparison of
  the coin, the bimodal step, for standard deviations of 32/26 to 32/18.

The memory of `FalconSign` is one function; `After(m, p, result)` says that a result
is computed from an m that holds something at p.  It changes no value: it makes
TLC evaluate m once before the many references to it.

### FN-DSA: functions for applications

`FalconSizes` states how each function of `falcon.c` divides its buffer, at any
address; `FalconApi` puts the functions together: contexts, keys, signatures of
three types, the loop of attempts, verification; objects may be changed on their
way.  An encoded object is a record of header, length and what it decodes to; a
SHAKE256 context is what was put in and how often it was taken from.

- `PartsFit`, `PartsSuitable`, `MoveKeepsKey`, `EncodingsFill`, `CompressedWithin`,
  `StackSuffices`, `TablesRight` and the proofs below.
- `OnlySignedAccepted`, `SignedAccepted`, `OneEncoding`, `NoncesDiffer`,
  `RoomForSignature`, `LengthLeft` (a failed call leaves the caller's length).
- `ApiInv`, the inductive invariant, is proved and not run.  Its parts besides
  properties: `NoncesTaken`, `StreamInv`, `CallInv`, `PointsSigned`, `HashTaken`,
  `SignatureThere`.

### FN-DSA: key generation

`NtruModp` (small primes), `NtruInt` (big integers as words) and `NtruBezout`
(the binary GCD) are `keygen.c`'s arithmetic in words of W bits; W stands for 31
and, as `modp_R2` needs, W + 1 is a power of two.  `KeygenSolve` is the search for
a key above them: f and g are drawn until the tests pass, then F and G are
lifted from degree 1 and reduced at each degree by passes with a scale that
falls.  A number is an integer in the range of its words and primes, so that what
does not fit wraps as in the code; the quotients are exact, and tested before they
are rounded for being small enough to be (`Below`); the test of the orthogonalized
norm is a choice.  `KeygenPlan` holds no numbers: it is the layout
of the one buffer at every stage of every function, for the ten degrees with the
code's tables, and the lengths assumed by the reduction.

- `AcceptedSolves`: an accepted key solves the equation over the integers, also when
  the words are too short for half the numbers on the way (part `tight`).
- `OddResultants`, `EquationAtEveryDegree`, `PassesKeepEquation`, `ReducedAtEnd`,
  `AssumedLengthRight`: why the steps in between are right when words suffice.
- `RoomEnough`, `PartsApart`, `MovesSafe`, `WordsHoldLength`, `WindowReaches`.  That the
  reduced F and G fit the words they are then cut to is not claimed: by the tables'
  margins alone it does not follow at depths 3 and 5, and the code checks the
  result at the end instead.

## Runs

| Run | Instance | Distinct states | Shows |
|---|---|---|---|
| `refill_two_banks` | 2 banks of 2, threshold 1, 9 calls, caller goes on after errors | 309,304 | safety, refinement, `IInv` |
| `refill_three_banks` | 3 banks of 2, threshold 6, 7 calls, caller stops at an error | 154,099 | banks refilled out of turn, the ring filled up to one below its capacity: queue and counters agree |
| `refill_liveness` | 2 banks of 2, threshold 1, 7 calls, errors and retries | 29,960 | liveness under `FairSpec` |
| `refill_simulator` | 600 cases: capacity 2-6, batch 1-4, refill time 0-9, interval 1-3, 12 tokens served | about 31,000 | the simulator's loop, its invariant and its end |
| `online_bench` | 5 tokens, teams of 1 to 3 threads, four ways to verify | 79,854 | counts, lengths and tokens of the online stage |
| `pipeline_mode` | 2 tokens, 1 thread | - | violation: `--pipeline` does not use the pipeline |
| `gpu_backend` | 2 keys, any number of calls | 40,847 | success used the own key and tables, nothing is left behind |
| `tokens_target` | 1 key | - | violation: tokens made without the tables |
| `errors_own` | 1 key | - | violation: an error reported by a later call |
| `falcon` | 9 parts, below | 141,466 | FN-DSA without key generation, streams and interface |
| `keygen` | 6 parts, below | 110,470 | key generation |
| `host` | 11 parts, below | 325,954 | the code around the scheme, its interface and its streams |

The parts of the last three, with their instances and the property that speaks of
them:

| Run | Part | Instance | Property |
|---|---|---|---|
| `falcon` | `modq`, `ntt` | every y against eight x; n = 2 to 16 | `ArithmeticExact` |
| | `verify` | five keys of degree 2 and 4 | `VerificationRight` |
| | `codec` | 2 coefficients, 4 bytes of 3 bits | `EncodingsUnique` |
| | `gauss` | limbs of all thresholds, centers in eighths | `SamplerRight` |
| | `device` | table thresholds, every step of y, a few seeds | `SamplerRight` |
| | `fft` | degrees 2 to 32, both builds | `TransformsRight` |
| | `sign` | degrees 2 to 16, 7 keys, 3 attempts, both builds | `SigningRight` |
| | `sizes` | all ten degrees, 16 addresses | `SizesRight` |
| `keygen` | `modp`, `ints` | words of 7 bits, four primes, up to three words | `ArithmeticRight` |
| | `bezout` | three words of 3 bits, about 3,600 pairs | `BezoutRight` |
| | `solve` | degrees 2, 4, 8, q = 17, words of 12 bits: all numbers fit | `OnlySolutions` |
| | `tight` | the same, words of 7 bits: half of them do not | `OnlySolutions` |
| | `plan` | ten degrees, the code's tables | `PlanRight` |
| `host` | `norm` | words of 4 bits, 6 squares | `ShortExactly` |
| | `kernels` | 4 threads on 2, 4 and 8 coefficients | `DeviceRight`, `BatchesRight` |
| | `keccak` | eight states, 24 rounds | `StreamsRight` |
| | `hash` | 4 coefficients, 11 samples, every pattern of rejections | `StreamsRight` |
| | `sponge` | blocks of 4, messages and outputs of 10 bytes | `StreamsRight` |
| | `prng` | 2 blocks of 4 words, several refills | `StreamsRight` |
| | `key` | 2 threads, 2 tokens, 2 messages, 2 signatures each | `KeyStateRight` |
| | `presign` | up to 4 tokens, teams of 1 to 3 | `BatchesRight`, `NothingTakenBack` |
| | `batch` | 1 to 3 threads, 1 to 4 signatures | `BatchesRight` |
| | `certs` | 6 drivers, 1 to 3 levels, 1 to 3 iterations | `ChainsRight` |
| | `api` | 2 degrees, 2 keys, 3 events after each other | `ApiRight`, `NothingTakenBack` |

### Bounds and fairness

Bounds.  `MaxCalls` bounds the calls of `acquire`, and with them threads and
seeds.  Nine calls consume the first bank, refill and consume both banks again,
wrap the ring twice, and leave room for failed refills, failed thread creations
and overtaken refills in between; every refill moves to the same states up to
the seed.  Banks of two tokens distinguish first and last token.  The benchmark
uses two banks; three make `soko_find_empty_bank` choose.  Thresholds 1 and 6
are the extremes of the caller's clamp (`soko_token_benchmark.c:1582-1587`)
relative to the ring: ask when one token is left, ask always.  `RetryAfterError`
covers a caller that goes on after an error; the benchmark's stops.

The simulator's cases cover refills that take no time, less and more than the
interval between arrivals, several completions between two arrivals, batches
larger than the queue, thresholds clamped at both ends, and producers too slow
for the rate; twelve tokens are more than twice the largest queue.

Five tokens among three threads make blocks of different sizes and leave each
thread one to order against the others; every token may fail or succeed at
each stage.  Fewer tokens than threads would only leave threads without a
block; the proofs cover that.

`GpuBackend` has no counters, so the number of calls is not bounded.  A second key
is what makes a stale one visible; the proofs cover any number.

The algorithms of FN-DSA are checked in small words and small degrees.  What a
small word must keep is that the cases are the same: norms wrap several times
(four bits), compressed codes cross byte boundaries in every way (three-bit bytes),
products of two words need two, the primes lie between half a word and a word
and have the roots that the transforms need, numbers have up to three words of
which the GCD sees two.  Where constants matter (q and the transforms' tables, the
samplers' tables, the rounds of Keccak, the sizes of objects and the tables of
lengths in key generation) they are the code's.  Linear operations are tried on a
basis.  q = 17 makes X^8 + 1 split as X^1024 + 1 does modulo 12289.  The sixteen
addresses of `sizes` are all there are modulo the largest alignment.

The part `api` stops a behaviour after a call that failed before it changed anything
and after a verification (`CONSTRAINT MCContinued`): the other variables are then
those of a state it goes on from anyway.  Degrees 1 and 16 are the least and one
whose three lengths of a signature differ.

The certificate drivers need three levels for a certificate that is neither the
root's nor the client's, and a second iteration for a stale one; the third tells
one replaced key from two.  Batches of four with teams of three have shares of
unequal size, threads without a share, and an item for each.  Most of these runs
end: their configurations switch the check for deadlock off and say so.

Fairness.  The simulator is one thread that keeps running: `WF_vars(Step)`.  In
`RefillPipeline`, `FairSpec` assumes that a consumer inside `acquire` or `destroy`
keeps running and that a worker thread keeps running and its GPU call returns:
both are operating-system threads and nothing in the code suspends them.  The
caller need not call again.  `AcquireReturns` is conditional on a threshold of
at least 0: with a negative one `acquire` on an empty queue would wait for ever;
the only caller clamps it to at least 1.

`TLC` reports a deadlock for a consumer or thread that is stuck: `Finished` is
the only intended end, after `destroy`, with all threads gone.

### Slips

Most modules list slips before the definitions they vary: one helper
of the code as a plausible mistake would have it, never used.  `PROJECT.json` pairs one
with each property.  A combined property has several conjuncts, and the
others show that each of them is worth having: put in place of the helper they vary,
TLC finds the property violated.

| Property | Slips it also catches |
|---|---|
| `IInv` | RefillPipeline: `RestockedForgotten` |
| `SimulatorInv` | RefillSimulator: `AvailableAtZero`, `SettleOneWhole`, `WantWhole`, `CompletionFromArrival`, `DueByNext` |
| `CountsExact` | OnlineBench: `OkTotalBoth` |
| `OwnKeyUsed` | GpuBackend: `KeyThereIfSame` |
| `AllReleased` | GpuBackend: `FreedOnFailureButLast` |
| `ShortExactly` | FalconNorm: `SaturatedNever` |
| `ArithmeticExact` | ModQ: `AddQIfNotPositive`, `CorrectionOtherSign`; Ntt: `NttTwiddleOfPair` |
| `VerificationRight` | ModQ: `mq_montysqrPlain`; FalconVerify: `QuotientPlain`, `BalancedUp`, `AnyZeroFirst` |
| `EncodingsUnique` | FalconCodec: `OutOfRangeHigh`, `WrittenFlushUnchecked` |
| `SamplerRight` | FalconSampler: `BorrowNot`, `SaturatedNot`, `WithoutSign`; GpuSampler: `AboveByTopOnly`, `QuotientUnhalved`, `NextTermSwapped`, `KeepsBothZeros`, `MixWithoutToken`, `BUnchanged` |
| `TransformsRight` | FalconFft: `TwiddleOfHalf`, `MulAdjUnsigned`, `DivideByNorm`, `MultiplierConjugated`, `SplitTwistPlain` |
| `SigningRight` | FalconSign: `treesizeOfChildren`, `SubtreesSwapped`, `RotatedBack` |
| `SizesRight` | FalconSizes: `ToNextAlways`, `ToDouble`, `max_fg_bits9`, `CompressedWithoutTail`, `PlacesOneLess`, `KeygenByDegree` |
| `ArithmeticRight` | NtruModp: `SubtractNever`, `OneSquaringLess`, `ExponentOneMore`, `AboveHalf`, `RevOfWholeTable`, `ProductsOfHalves`; NtruInt: `NothingShiftedIn`, `BitsFlippedOnly` |
| `BezoutRight` | NtruInt: `TakenUnlessNegative`; NtruBezout: `BudgetOfOne`, `HighestOnly` |
| `OnlySolutions` | KeygenSolve: `NoFloor`, `AnySum`, `NotAlternated`, `AtMostOneGain`, `LengthOfMultiple`, `ShorterEarly` |
| `PlanRight` | FalconSizes: `TempByDegree`; KeygenPlan: `SecondBehindK`, `EarlyWord`, `FasterScale` |
| `DeviceRight` | GpuKernels: `NextIterationDense`, `StoresFullSample`, `NormTermUnbalanced` |
| `StreamsRight` | HashToPoint: `TargetAfterTwice`, `MovesNowExact`, `SubtractIfLarger`; Sponge: `ChunkOfCall`, `PadPlaceNext`, `IsFullByOne`, `DeviceBlockShort`; Prng: `SameCounter`, `BlockByBlock`, `OneLane`; Keccak: `SecondPlace`, `OrTermsPlain` |
| `KeyStateRight` | KeyState: `EncodesHashBuffer`, `FreedWithSecondNone`, `DerivedWithoutLast` |
| `BatchesRight` | PresignCpu: `RequestedOnly`, `ChunkRounded`; VerifyBatch: `AllocateRetry`, `RefusedInverted`; GpuKernels: `NextIterationDense`, `StoresFullSample` |
| `ChainsRight` | CertChain: `VerifyShort`, `PlainEarly`, `ResignShort`, `GroupFromZero` |
| `ApiRight` | FalconApi: `PositiveFormat`, `SpaceUnchecked`, `AnyPoint`, `PaddingAnywhere`, `TakenNever` |

## Proofs

Proved for every `BankCount >= 2`, `TokensPerBank >= 1`, integer `Threshold` and
number of calls, from `PipelineAssumption` alone (the argument checks of
`soko_falcon_refill_pipeline_init`):

- `IInvHolds`: `Spec => []IInv`, with one lemma per group of actions.
- `TypeCorrect`, `QueueMatches`, `QueueErrorFree`, `WaitingHasRefill`, `OneBusy`,
  `JoinReaches`, `LiveBanksAvoided`, `FreedUntouched`, `SignedInOrder`: every
  safety property of the runs.
- `Refinement`: `Spec => ImplementsTokenService`.
- `ServiceInOrder`, `ServiceNeverTwice`: the abstract pool stays in order, and the
  pipeline, as it implements the pool, hands out nothing twice.

The argument.  None of the properties is inductive alone.  `WorkerInv` says that
a thread that may still store to the worker structure implies `inFlight`, that
`inFlight` implies it is the thread of the stored handle, that a started refill
has an empty bank, and that the bank holds the tokens of its seed once the call
succeeded.  `CallerInv` says what the consumer knows at each place, in
particular that it is never signing with a token of the bank being refilled.
Why the last holds although the counter of the view's bank may be zero: a
refill starts only inside `acquire`, when the previous view is dead.
`QueueMatchesBanks` turns an empty counter into "no queued token", which is why
the GPU cannot disturb the ring, and, by counting references
(`RoomForEmptyBank`, with the library's facts on cardinality), into "the whole
bank fits".  `TokensInOrder` orders last token, queue and the refill to come.

`RefillSimulatorProofs` proves every safety property of the simulator for all
capacities of at least 2, and all positive batches, intervals and targets, from
`SimulatorAssumption`: `SimulatorInvHolds`, `TypeCorrect`, `StockConserved`,
`QueueBounded`, `RefillKeptUp`, `CompletionTimely`, `NeverStarves` and
`OrderedEvents`.  `NeverStarves` needs `TokensLast`: the tokens queued, one per
interval, last until the refill in flight completes, and while none is in flight
the queue is above the threshold.  A request takes one token and one interval; a
settled batch adds at least one refill's time (`Lasting`); a refill started at the
threshold finds enough tokens because the threshold covers one refill's time in
spite of rounding and clamps (`CeilingCovers`, `ThresholdFacts`).

`OnlineBenchProofs` proves `BenchInvHolds`, `TypeCorrect`, `ExactCounts`,
`LengthsKnown` and `NoTokenTwice` for any number of tokens and threads, from
`OnlineAssumption`.  `BenchInv` reads every count as the size of a set: a thread's
private counts are those of the part of its block that it is through with, the
shared ones those of the blocks of the threads past the addition concerned.
One more token adds one (`PlusOne`), one more thread adds its block
(`PlusBlock`, `SharedGrows`), and when all threads have joined the blocks make up
the bank.  Nothing about the schedule is used but that each token has one owner.

`GpuBackendProofs` proves `GpuInvHolds`, `TypeCorrect`, `OwnKey`,
`TablesWereThere`, `NothingHeld`, `Resolved` and `ReportedOnce` for any set of
keys.  `OwnKeyUsed` is not inductive: whether the kernel works with the right
key depends on copies made, unchecked, calls ago.  `KeysInv` says that a hash
vouches for the key on the device, unless the present call is a verification
that is bound to fail and to exit; `TablesInv` that a table not copied is known
of: from `lastError` up to the launch, from `tablesLost` afterwards.

`ThreadsProofs` has the threads at work: generation, batch verification, signers
under one key, blocks of the GPU.  All four are proved by saying which part each
thread has to itself, and what it is through with.

- `PresignInvariant`, `TargetsStay`, `AllTokensMade` (`PresignCpu`, for any bank size
  and any number of threads).  In its chunk, a thread has completed what is behind
  it and touched nothing before it; chunks are apart and cover the bank, rounding
  included, so that no other thread's step disturbs this (`WorkerInv`).  The
  number of draws is twice the places sampled: a sample is one that was drawn.
- `BatchInvariant`, `ReportTrue` (`VerifyBatch`, for any batch and team).  Shares of a
  static schedule are apart and cover the batch, the first ones being larger by
  one.  A private sum is the number of refused items in what the thread has
  verified; what was added is the number of refused items in the shares joined,
  unless a thread without workspace was among them, and then it is at least the
  whole batch (`VerifyBatchInv`).  So zero means that nobody was.
- `KeyStateInvariant`, `KeyStateSafe` (`KeyState`, for any sets of threads, tokens
  and messages).  `NothingLost` follows from the blocks being those of the
  pointers at every place: all of the key's or none, each signer's two or none.
  `OwnSignature` needs what stands in a thread's own buffers at each place
  (`SignerInv`), which is that of no other thread.
- `KernelsInvariant`, `BlocksSafe` (`GpuKernels`, for all ten degrees, blocks of every
  power of two up to 1024 threads, every input and every order of the threads).
  Between two barriers a place belongs to the thread whose number it has modulo the
  block; in a pass of a transform the upper place of a butterfly belongs to the
  thread of the lower, in a round of the sum the upper half to the lower half
  (`OwnersAre`, `NttPlaces`, `INttPlaces`).  That the number of passes, the strides and
  the places follow from the degree is proved of the sequences `Program` builds
  (`ProgramIn`, `PassIs`, `StridesAre`).  Stored values stay in range (`ValuesInv`)
  because every operation of `ModQ` is exact for every pair of operands, which is
  `ModqExact`.  Loops that fill tables and transforms (`Ntt`) are reasoned about by
  the least number at which they would fail (`Iterates`).  `StartsAre` shows the
  inputs of the run to be legal ones.

`StreamsProofs` has the three parts that turn a stream into pieces, and the permutation.

- `HashInvariant`, `HashesAgree` (`HashToPoint`, for any number of coefficients, of
  samples beyond, and any samples rejected).  A value's jump is the number of
  rejected samples before it, and a later value's jump is no smaller.  Before the
  pass of distance p, a value has moved by the bits of its jump below p
  (`PlaceBefore`); in the midst of a pass those looked at have moved by one bit
  more (`PlaceOf`).  No two values meet, since along the values both the rank and
  the jump grow; so the place a value moves to is free, as the comment at
  `common.c:155` has it, and `v` counts the values looked at.  When p is beyond
  every jump, nothing of a jump is left and a value stands at its rank.
- `SpongeInvariant`, `CutsAgree` (`Sponge`, for every rate of at least two bytes and
  any calls).  The state is a function of the number of bytes put in, and after
  the flip of the number taken out; what a call was is not part of it.  The GPU's
  block is the last one of a message shorter than a block.
- `PrngInvariant`, `DrawnOnce` (`Prng`, for any number of blocks and words).  A word
  that was given is of a block before those in the buffer or stands before the
  pointer; no two cells hold the same word.  This survives `prng_get_bytes`, which
  copies from the wrong place (see the observations): what it gives has been
  given before or is passed by the pointer.
- `KeccakInvariant`, `PermutationsAgree` (`Keccak`, for every state; the runs try
  eight).  `process_block` keeps six lanes inverted, adds inverted column sums to
  columns 0 and 3, and replaces "and" by "or" accordingly.  `KeccakInv` says which
  lanes are inverted before the first step, after it (`InvertedAfterTheta`) and after
  the last, and that each is at the place its round has for it.  A lane is any set
  of bits, so that the Boolean identities of all 25 rows in both rounds are
  proved, not sampled; the tables of places and of offsets are compared entry by
  entry (`PlacesAre`, `OffsetsAre`, `ChiTables`), and the 24 moves bring each lane back to
  its place (`MovedBack`).

`FalconApiProofs` has `falcon.c` and the certificate drivers.

- `ApiInvariant`, `LengthsLeft`, `CallsRight` (`FalconApi`, for any set of pieces of
  data, bound on attempts and number of calls).  All nonces are taken from one
  stream, so that the one being signed with is in no signature yet
  (`NoncesTaken`, `Unused`); it stands first in the context that is hashed, and in
  the copy every further attempt starts from (`StreamInv`, `CallInv`); hence a
  signature that decodes and was not changed has the point of one that was signed
  (`PointsSigned`), and the verifier compares points.  `OneEncoding` is a matter
  of the lengths: for each type but zero only one of those tried passes the tests.
- `SignTreeFits`, `KeygenFits`, `MakePublicFits`, `ExpandFits`, `SignDynFits`,
  `VerifyFits` and `ExpandedKeyFits` (`FalconSizes`) for every degree n and every
  address: the parts a function cuts out of its buffer are inside it, apart and
  aligned (for `SignDynFits` without the alignment of the hashed point, see the
  observations below).  The sizes allow seven bytes for alignment to eight; a
  function that aligns twice fits because an even address costs at most six
  (`EvenAlignedTo8`).

- `ChainInvariant`, `ChainsSafe` (`CertChain`, for chains and runs of any length,
  whichever signatures fail).  What holds at a place of a driver depends on all the
  places before it in the iteration, and each driver has other ones.  `Rank` numbers
  the places of the driver at hand so that every step but the return to the
  beginning goes to a larger number (`StepGoesOn`), and to the next place there is:
  an operation has been passed exactly if its number is smaller (`Moves`).  In these
  terms one invariant serves all six.  `TimesInv`: a level's count is the number of
  iterations over, and one more if its operation is passed.  `SignaturesInv`: a
  certificate that is passed is right unless a signature failed, one that is
  checked is right or was complained about; this needs that between a signature
  and its verification neither key is made anew, which is the order of the ranks.
  `NoncesInv`: the present sample or group was spent only by the levels that have
  signed with it, and no two levels have one key.

`HostProofs` proves `NormCheckExact` for any word size, set of squares and bound below
half a word: an accumulator that wraps at 2 * Half and collects its top bits
answers exactly, however many terms there are.  `SumInv` relates it to the exact
sum: equal as long as no top bit was seen, and from then on the sum is above every
bound.  The step needs that one square is at most Half, so that a sum that wraps
shows its top bit on the way (`AddStep`).

It then carries the parts' theorems over to the joined run, whose properties they
are: `KeyStateHolds`, `BatchesHold`, `StreamsHold`, `ApiHolds`, `ChainsHold` and
`NothingUndone` are theorems of `MCSpec`, for every value of the bounds in `Host.cfg`.  `part` never
changes (`PartStays`), so a behaviour is one of its first part and stutters in
the variables of the others; its steps are that part's steps (`OwnStep`, `OwnBlock`,
`OwnChain`, `OwnBehaviour`) and satisfy its specification, and the properties of the others hold
because their guard does not (`OtherParts`).

The assumptions.  Sizes are natural numbers, positive where the code needs it; a
rate has room for two padding bytes; a value of the generator is shorter than its
buffer; `None`, `Null` and `Unset` are none of the values they stand beside.
`ApiAssumption` also states the first eleven powers of two, for which the prover
has no theory.  `BlockAssumption` has blocks of 2^LogBlock threads, at most 1024, as
the launches of `soko_gpu_offline.cu` do, and `Given` coefficients that are reduced.  TLC evaluates all of them in the runs.

Only model-checked: `AcquireReturns`, `DestroyReturns` and `Terminates`,
liveness being out of the prover's reach; what the algorithms of FN-DSA compute
from their inputs, recursively or by loops over them (transforms and the division
modulo q, verification, codecs, signing, key generation, the samplers), since an
induction over data cannot be stated for a general predicate; `KeygenPlan` and the
tables of `FalconSizes`, which are ten degrees with the code's numbers and checked
completely; and of `GpuKernels` what the kernels compute (`TokenConsistent`,
`VerdictRight`), which is again a transform.

## Hazards

The `hazards` of `PROJECT.json` are those that weigh most, each with the properties
that would catch it.  The others, with the invariant or the conjunct of a
combined property that is about them:

| Line | What can go wrong | Covered by |
|---|---|---|
| `soko_falcon_pipeline.c:129` | the worker writes a bank without a lock while the consumer pops from the other; the only separation is the bank counter tested before the start | `RefillAvoidsLiveBanks`, `ImplementsTokenService` |
| `soko_falcon_pipeline.c:132` | done is stored before in_flight and both after result and the bank: a consumer that sees either flag relies on what was stored before it | `TokensSignedInOrder`, `NoQueueError`, `JoinReachesBusyThread` |
| `soko_falcon_pipeline.c:194` | a whole bank is pushed one token at a time; if it did not fit, half of it would stay queued while its counter says zero | `NoQueueError`, `QueueMatchesBanks` |
| `soko_falcon_pipeline.c:162` | the thread cannot be created after the seed was used up, done cleared and the bank marked unavailable, possibly over a refill that was never collected | `WaitHasRefill`, `AcquireReturns`, `OneBusyThread` |
| `soko_falcon_pipeline.c:177` | the join waits without a limit for a GPU call to return | `DestroyReturns`, `AcquireReturns` |
| `soko_falcon_pipeline.c:250` | tokens_per_bank * bank_count is an int product and may overflow for very large banks | none: the benchmark's bank sizes stay below 2^20; the bound is an assumption of the model |
| `soko_token_benchmark.c:1343` | a token whose signing failed counts as a failure in the loop and, in the GPU verification modes, again as a failed verification | none: run_online_cpu_pipeline's own accounting after its loop; the same sum in run_online_cpu_mt is covered by CountsExact |
| `soko_token_benchmark.c:1216` | the multi-threaded signing path splits tokens among threads with private scratch memory and sums ok, fail and attempts by reduction | `CountsExact`, `SignedOnce` |
| `soko_refill_simulator.c:589` | the loop ends only when enough tokens were served, so a producer that delivers nothing would keep it running | `Terminates` |
| `soko_refill_simulator.c:564` | init of the SOKO backend may fail after allocating its key state and banks; they are not released | none: in the repository's one caller, main, the SOKO back end is the last one and a failed init leaves its loop, so the program ends right after; no property would say more than that |
| `soko_refill_simulator.c:517` | the size of a refill is fixed when it starts and applied when it is settled, after requests that changed the queue and possibly after several other refills | `QueueWithinCapacity`, `TokensConserved` |
| `soko_gpu_offline.cu:309` | the copy of the verification key is unchecked and its hash is stored all the same: a later call with the key would skip the copy | `OwnKeyUsed` |
| `soko_gpu_offline.cu:1238` | when the second or third asynchronous copy fails, the first may still run while its bank is unregistered; only the cudaFree that follows waits for it | none: depends on CUDA's implicit synchronisation, which the code nowhere states; transfers are not modelled one by one |
| `common.c:298` | the first half's sum arrives saturated and goes on from there; signing must accept what verification accepts | `ShortExactly` |
| `codec.c:392` | an encoding may end exactly at the end of the buffer or need one byte more | `LengthsAgree`, `ReadBack` |
| `inner.h:835` | values of eight bytes and of one byte are taken from one buffer; a read across its end, or an empty buffer left behind, would give a byte twice or read beyond it | `TypeOK`, `NothingTwice` |
| `rng.c:331` | the AVX2 and the portable generator must lay out their blocks alike, or a seed would give different keys in different builds | `BuildsAgree` |
| `shake.c:1116` | a message is injected in pieces that end anywhere in a block; a full block has to be permuted exactly once | `AbsorbedAsOne`, `SqueezedAsOne` |
| `soko_gpu_offline.cu:434` | the GPU hashes the benchmark's messages with its own permutation and padding; it must reproduce the CPU's hash or every signature fails | `DeviceAgrees`, `LanesAgree` |
| `soko_gpu_offline.cu:1013` | a block leaves the kernel between two barriers when a signature cannot be decoded; all threads must leave together | `VerdictRight`; that the kernel ends is not checked |
| `soko_gpu_offline.cu:951` | the tree sum halves the block and loses terms unless the block is a power of two and threads beyond the degree contribute zero | `VerdictRight` |
| `soko_gpu_offline.cu:659` | the division by a constant must be exact and leave a shift of at least one for every y the table can give | `DivisionExact` |
| `soko_gpu_offline.cu:554` | nine products of the exponential come close to 2^64; an overflow would accept wrong samples without any trace | `LimitInRange` |
| `soko_gpu_offline.cu:702` | zero has one sign and would be drawn twice as often as it should | `EachValueOnce` |
| `soko_gpu_offline.cu:745` | two coefficients, or the two samples of one, that start from the same generator make a token's halves equal | `OwnGenerator` |
| `soko_falcon_common.c:78` | the result of falcon_keygen_make is ignored; the buffers are decoded whatever it returned | none: its size errors cannot occur here, since the lengths are those of its own macros; its internal errors are outside this model, which takes the buffers it leaves as undecodable or as a key |
| `fft.c:1254` | the last level of a split has no pair of values left: f0 and f1 are the two real numbers themselves, in one body by a copy before the loop, in the other by falling through to the plain code | `HalvesRight` |
| `sign.c:825` | the sampling's scratch space begins inside the caller's: the depth of the recursion must not carry it past the six or nine polynomials the sizes of falcon.h leave | `RoomKept` |
| `sign.c:438` | the last two levels of the recursion are written out, twice for the plain build and twice for the vector one; each must make the calls the recursion would, in its order | `WaysAgree`, `NearestPlane` |
| `sign.c:1279` | the half-Gaussian is written twice, with borrows over 24-bit limbs and with compares over 15 + 57 bits; a wrong limb of a rare threshold changes the distribution and no test sees it | `BuildsAgree` |
| `sign.c:1302` | a negative exponent is truncated the wrong way and shifts by a negative count | `ExponentNotNegative` |
| `sign.c:1402` | the two half-Gaussians share zero unless one is moved by one, and a negative center must be rounded down, not towards zero | `EachIntegerOnce` |
| `falcon.c:195` | the encoded key's length comes from a macro and from the widths of codec.c; a difference at one degree makes key generation fail there | `EncodingsFill`, `TablesRight` |
| `falcon.h:327` | a caller allocates the documented maximum of a compressed signature; a longer one would make signing fail once in a long while | `CompressedWithin` |
| `common.c:118` | 63 places on the stack take the candidates that fit nowhere else | `StackSuffices` |
| `falcon.c:616` | an expanded key may be moved in memory; its contents are found again only by its alignment | `MoveKeepsKey` |
| `falcon.c:883` | zeros after a signature are allowed for some combinations of type and length only; otherwise a signature has several encodings | `OneEncoding` |
| `falcon.c:371` | the loop writes nonce, code and padding into a buffer checked only before the loop, against the type and degree asked for | `RoomForSignature` |
| `falcon.c:321` | nonces, keys and sampler seeds are taken from one SHAKE256 stream in an order the caller chooses | `NoncesDiffer` |
| `keygen.c:753` | the constants for Montgomery form come from a fixed number of squarings that fits 31 bits only | `PowersExact` |
| `keygen.c:966` | the tables are filled in bit-reversed order of the degree at hand from a table for degree 1024; halving the degree uses the same tables' first half | `TransformExact`, `HalvingExact` |
| `keygen.c:1282` | a rebuilt number is made signed by a comparison with half the product, word by word and with bits carried between words | `RebuiltExact`, `BalancedExact` |
| `keygen.c:1952` | sums of scaled signed numbers carry a signed word that is cast from an unsigned one; the shorter number is extended by its sign | `ScaledExact`, `WordwiseExact` |
| `keygen.c:1740` | the number of passes is fixed in advance: were a pass to shrink the numbers by less than 30 bits, coprime numbers would be refused or wrong coefficients returned | `BezoutRight` |
| `keygen.c:4123` | the binary GCD needs odd resultants, of which only the parity of the last coefficient drawn takes care, all degrees above | `OddResultants` |
| `keygen.c:2990` | F is multiplied by g at the other root of each pair and G by f at the other: pairs swapped, or the first with its own, break the equation one degree up | `EquationAtEveryDegree` |
| `keygen.c:3292` | the reduction must end with a pass without scaling, from whatever scale it started; leaving earlier leaves F and G unreduced and too long for the next degree | `ReducedAtEnd`, `TypeOK` |
| `keygen.c:3279` | the length of F and G is assumed and never measured: a pass that gains less than assumed drops words that still hold digits | `AssumedLengthRight`, `PassesKeepEquation` |
| `keygen.c:3488` | the tables and f, g are squeezed together by memmoves one after another, with sources and targets that overlap those of the others | `MovesSafe` |
| `keygen.c:3176` | only the ten highest words, as assumed and not measured, are looked at in a pass; were words dropped slower than the scale falls, k would be zero and F and G never shrink | `WindowReaches`, `WordsHoldLength` |
| `bench_cert_oofalcon.c:174` | each driver has its own order of key generation, offline work, signing and verification; a certificate over a key that is then replaced fails only from the second iteration on | `ComplaintMeansFailure` |
| `bench_cert_falcon.c:183` | the time of a certificate is booked to its signer, one level up from the certificate; an average divides by the iterations whatever was measured | `TimesPerRun` |
| `bench_cert_falcon.c:191` | without a buffer for the message's signature the iterations end early, yet the averages divide by all of them | none: TimesPerRun holds only of a loop that was not broken off; nothing in the repository says what the averages mean after a failed allocation |

## Observations

Three disagreements are shown by runs and listed under `findings` in `PROJECT.json`.
Modelling met others, which no run shows because nothing in the repository gets
there or nothing comes of it:

- `prng_get_bytes` (`rng.c:371`) copies from the start of the buffer and not from its
  pointer, so that short calls return the same bytes again.  Nothing calls it.
- Samples of the GPU, magnitudes up to 2815 by its table, are stored as `int8_t`
  (`soko_gpu_offline.cu:709`).  The target is computed from what was stored, so the
  token is consistent (`TokenConsistent`) though its distribution is cut.
- The comment at `sign.c:1352` allows standard deviations up to 1.9; at 1.88 the
  exponent of the rejection (`sign.c:1430`) can be negative.
- `falcon.h:77` asks for no alignment of `tmp`; `falcon_sign_dyn_finish`
  (`falcon.c:396`) places 16-bit words at the address it is given.
- `falcon.h:238` describes `FALCON_ERR_BADSIG` for signatures that were decoded; a
  degree that differs from the key's gives it before (`falcon.c:800`).
- `zint_bezout` for y = 1 (`keygen.c:1893`) does not return the coefficients of its
  comment; the solver's later check refuses what comes of it.
- The comment at `bench_cert_oodilithium.c:186` says that the group index cycles;
  `group = 1 + iter` (line 193) does not, so that iterations need as many groups.

## Not modelled

- Allocation failures and argument checks of `init` (-210, -211), which leave no
  pipeline behind; `wait_ms`; the stubs of a build without CUDA or Windows.
- 32-bit wrap of `next_seed` and overflow of `tokens_per_bank * bank_count`: far
  beyond the sizes of the program.
- Whether two seeds give different tokens: the model takes distinct seeds to be
  distinct batches.
- The simulator's floating-point rounding, its option parsing and output, and the
  set-up of its back ends.
- Of the token benchmark: options, keys and offline generation, timing and
  output, the order of the stages in `run_token_step`, the signing loop around
  `acquire` (it is the caller in `RefillPipeline`) and the verification after it.
- Of the GPU code: more than one `logn`, argument checks, calls from two threads (a
  refill and a verification on the GPU could only meet after the loop of
  `run_online_cpu_pipeline`, which `run_token_step` never enters: `pipeline_mode`), the time at which a transfer that has been started really reads
  its bank, and the device's decoding of compressed signatures, whose outcome is
  a choice in `GpuKernels`.
- Of FN-DSA: the rounding of `fpr.c` and `fpr.h`, that is the error of the
  transforms and what it does to the distribution; the table of `mkgauss` and the
  test of the orthogonalized norm; the wrap of the sums that `poly_sub_scaled_ntt`
  rebuilds (`keygen.c:2166`) and the error of quotients taken from ten words
  (`keygen.c:3176`), since quotients and products are exact in the model; the
  returns of `FALCON_ERR_INTERNAL` (`falcon.c:180-214` and `294`), which take a code of
  another length than the macros' (`EncodingsFill` excludes it at every degree) or a
  key that `keygen` itself would have refused; the ChaCha20 block function; reading randomness from the system; the
  assembly and intrinsics beyond the order and lanes of their operations.
- `oo_ed25519.c` beyond its place in `CertChain`: null checks and one call each into a
  library that the repository does not contain.  The lazy signer
  (`sign_dyn_lazy_offline`, `sign_dyn_lazy_online`) is in no file of the repository
  either; `KeyState`, `PresignCpu` and `CertChain` take it from its callers.
- Of the certificate benchmarks: options and output, the first allocations of a
  chain, and the signing of the verification batch.
- `bench_oofalcon_gpu_tokens.c`: an older copy of the token benchmark, with the same
  functions under the same names.
- The scripts: calls of compilers and programs without state of their own.

## Plan

1. Done with proofs: `RefillPipeline` and `TokenService`, `RefillSimulator`,
   `OnlineBench`, `GpuBackend`, `FalconNorm`, the buffers of `FalconSizes`,
   `KeyState`, `PresignCpu`, `VerifyBatch`, `HashToPoint`, `Sponge`, `Prng`, `Keccak`,
   `FalconApi`, `CertChain`, `ModQ` but for its division, and the races and ranges of
   `GpuKernels`.
2. Done, model-checked: what the kernels compute, FN-DSA from its transforms to key
   generation.
3. Next: the emulated floating-point numbers of `fpr.c` on small mantissas, against
   exact rounding.
