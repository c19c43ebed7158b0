--------------------------- MODULE RefillPipeline ---------------------------
(***************************************************************************)
(* The asynchronous refill pipeline of src/src/backends/                   *)
(* soko_falcon_pipeline.c: one consumer thread (the caller of acquire and  *)
(* destroy) draws one-time presign tokens from a ring of token references, *)
(* and a worker thread, created once per refill, has the GPU fill a whole  *)
(* bank of tokens in the background.                                       *)
(*                                                                         *)
(* The two threads share the worker structure (in_flight, done, started,   *)
(* result, ...) and the storage of the banks.  The consumer is modelled    *)
(* with one action per atomic load that another thread's store can race    *)
(* with; everything between two such loads touches only data the consumer  *)
(* owns at that point and is one action.  Atomics are sequentially         *)
(* consistent.                                                             *)
(***************************************************************************)
EXTENDS Integers

CONSTANTS
  BankCount,        \* number of token banks
  TokensPerBank,    \* tokens of one bank
  Threshold,        \* refill_threshold: refill when no more tokens are queued
  MaxCalls,         \* bound: calls of acquire before destroy
  RetryAfterError   \* TRUE: the caller may call acquire again after an error

ASSUME PipelineAssumption ==
  /\ BankCount \in Nat /\ BankCount >= 2
  /\ TokensPerBank \in Nat /\ TokensPerBank >= 1
  /\ Threshold \in Int
  /\ MaxCalls \in Nat
  /\ RetryAfterError \in BOOLEAN

Bank     == 0 .. BankCount - 1
Index    == 0 .. TokensPerBank - 1
Capacity == TokensPerBank * BankCount
Slot     == 0 .. Capacity - 1
Ref      == [bank_id : Bank, token_index : Index]

(* The refill started in the i-th call of acquire runs in thread i. *)
Thread   == 1 .. MaxCalls
NoThread == 0

(* Content of a bank a GPU call is writing, or has failed to write.  A     *)
(* filled bank holds the ordinal of its seed: s stands for the 32-bit seed *)
(* seed_base - 1 + s, so that distinct ordinals are distinct seeds for the *)
(* first 2^32 refills.                                                     *)
Torn == -1

GpuFailure       == 10     \* any nonzero result of the GPU call
EnqueueErrorIdle == -212   \* enqueue failed on entry of acquire
StartError       == -213   \* the worker thread could not be created
EnqueueErrorWait == -214   \* enqueue failed while waiting for a refill
EmptyError       == -215   \* pop from an empty queue

VARIABLES
  items, head, tail, count,   \* soko_token_queue_t
  remaining, available,       \* bank_remaining[], banks[].available
  nextSeed,                   \* next_seed
  inFlight, done, started,    \* the worker's atomic flags
  wBank, wSeed, result,       \* the worker's bank_id, seed, result
  wThread,                    \* the worker's thread handle
  tpc, targ, handles,         \* worker threads: place, arguments, open handles
  content,                    \* what the storage of each bank holds
  pc, calls, ret, view,       \* the consumer, its last result and token view
  lastSigned                  \* history: the token signed last

queueVars  == <<items, head, tail, count>>
bankVars   == <<remaining, available>>
workerVars == <<inFlight, done, started, wBank, wSeed, result, wThread>>
threadVars == <<tpc, targ, handles>>
callerVars == <<calls, ret, view, lastSigned>>
vars == <<queueVars, bankVars, nextSeed, workerVars, threadVars, content,
          pc, callerVars>>

-----------------------------------------------------------------------------
(* The ring of token references *)

(* The slot k places behind the head, and the reference it holds. *)
SlotAt(k) == (head + k) % Capacity
Queued(k) == items[SlotAt(k)]

(* The token a reference points at: the seed of its bank's present content *)
(* and its place in the bank.                                              *)
TokenOf(ref) == <<content[ref.bank_id], ref.token_index>>

(* Tokens 0, 1, ... of bank b are pushed one by one, until the queue is    *)
(* full: pushed is how many fit.                                           *)
Fits   == TokensPerBank <= Capacity - count
Pushed == IF Fits THEN TokensPerBank ELSE Capacity - count

SlotAdvance(s, n) == (s + n) % Capacity

EnqueueBank(b) ==
  /\ items' = [s \in Slot |->
       LET i == (s - tail) % Capacity
       IN  IF i < Pushed THEN [bank_id |-> b, token_index |-> i] ELSE items[s]]
  /\ tail' = SlotAdvance(tail, Pushed)
  /\ count' = count + Pushed
  /\ UNCHANGED head

(* soko_falcon_refill_pipeline_init, after a successful call: the tokens   *)
(* of bank 0 are queued.  The caller has filled every bank with the tokens *)
(* of one seed (ordinal 0), so bank 1 starts as a copy of bank 0.  Slots   *)
(* that were never pushed to hold arbitrary values, and the flags of banks *)
(* beyond these two are left as the caller made them.                      *)
Init ==
  /\ items = [s \in Slot |->
       [bank_id |-> 0, token_index |-> s % TokensPerBank]]
  /\ head = 0
  /\ tail = TokensPerBank
  /\ count = TokensPerBank
  /\ remaining = [b \in Bank |-> IF b = 0 THEN TokensPerBank ELSE 0]
  /\ available \in {flag \in [Bank -> BOOLEAN] : ~flag[0] /\ flag[1]}
  /\ nextSeed = 1
  /\ inFlight = FALSE /\ done = FALSE /\ started = FALSE
  /\ wBank = 0 /\ wSeed = 0 /\ result = 0 /\ wThread = NoThread
  /\ tpc = [t \in Thread |-> "unborn"]
  /\ targ = [t \in Thread |-> [bank |-> 0, seed |-> 0]]
  /\ handles = {}
  /\ content = [b \in Bank |-> 0]
  /\ pc = "caller" /\ calls = 0 /\ ret = 0
  /\ view = [bank_id |-> 0, token_index |-> 0]
  /\ lastSigned = <<0, -1>>

-----------------------------------------------------------------------------
(* The worker thread: soko_refill_thread_proc *)

(* The thread runs, reads its arguments from the worker structure and      *)
(* calls the GPU, which writes the bank until the call returns.            *)
ThreadBegin(t) ==
  /\ tpc[t] = "new"
  /\ tpc' = [tpc EXCEPT ![t] = "generating"]
  /\ targ' = [targ EXCEPT ![t] = [bank |-> wBank, seed |-> wSeed]]
  /\ content' = [content EXCEPT ![wBank] = Torn]
  /\ UNCHANGED <<queueVars, bankVars, nextSeed, workerVars, handles, pc,
                 callerVars>>

(* The GPU call returns: the bank holds the tokens of the seed, or nothing *)
(* that can be relied on.                                                  *)
ThreadGenerated(t, status) ==
  /\ tpc[t] = "generating"
  /\ tpc' = [tpc EXCEPT ![t] = "generated"]
  /\ result' = status
  /\ content' = [content EXCEPT ![targ[t].bank] =
                   IF status = 0 THEN targ[t].seed ELSE Torn]
  /\ UNCHANGED <<queueVars, bankVars, nextSeed, inFlight, done, started, wBank,
                 wSeed, wThread, targ, handles, pc, callerVars>>

ThreadStoreDone(t) ==
  /\ tpc[t] = "generated"
  /\ tpc' = [tpc EXCEPT ![t] = "flagged"]
  /\ done' = TRUE
  /\ UNCHANGED <<queueVars, bankVars, nextSeed, inFlight, started, wBank,
                 wSeed, result, wThread, targ, handles, content, pc, callerVars>>

ThreadClearInFlight(t) ==
  /\ tpc[t] = "flagged"
  /\ tpc' = [tpc EXCEPT ![t] = "cleared"]
  /\ inFlight' = FALSE
  /\ UNCHANGED <<queueVars, bankVars, nextSeed, done, started, wBank, wSeed,
                 result, wThread, targ, handles, content, pc, callerVars>>

ThreadExit(t) ==
  /\ tpc[t] = "cleared"
  /\ tpc' = [tpc EXCEPT ![t] = "exited"]
  /\ UNCHANGED <<queueVars, bankVars, nextSeed, workerVars, targ, handles,
                 content, pc, callerVars>>

ThreadStep(t) ==
  \/ ThreadBegin(t)
  \/ \E status \in {0, GpuFailure} : ThreadGenerated(t, status)
  \/ ThreadStoreDone(t)
  \/ ThreadClearInFlight(t)
  \/ ThreadExit(t)

-----------------------------------------------------------------------------
(* Slips this code could plausibly contain, each a variant of the helper   *)
(* below it is named after.  No action uses them: they show that the       *)
(* properties at the end of the module would notice.                       *)

CanJoinNoWait            == TRUE                       \* no WaitForSingleObject
CanJoinAwaitsDone        == done /\ (started => tpc[wThread] = "exited")
DoneAfterCollectStays    == done                       \* done is not reset
RefillSucceededUnchecked == TRUE                       \* result is ignored
RestockedForgotten(b)    == remaining
RestockedOneShort(b)     == [remaining EXCEPT ![b] = TokensPerBank - 1]
InFlightUnset            == FALSE                      \* in_flight is not set
NeedsRefillCrossing      == count = Threshold /\ ~inFlight
IsEmptyBankAlmost(b)     == remaining[b] <= 1

-----------------------------------------------------------------------------
(* The consumer: soko_falcon_refill_pipeline_acquire and _destroy, called  *)
(* as run_online_cpu_pipeline does: acquire a token, sign with it, acquire *)
(* the next; destroy after the last one or after an error.                 *)

Return(code) == pc' = "caller" /\ ret' = code

CallAcquire ==
  /\ pc = "caller"
  /\ calls < MaxCalls
  /\ ret = 0 \/ RetryAfterError
  /\ calls' = calls + 1
  /\ pc' = "finish"
  /\ UNCHANGED <<queueVars, bankVars, nextSeed, workerVars, threadVars, content,
                 ret, view, lastSigned>>

(* soko_finish_completed_refill on entry of acquire: the load of done.     *)
LoadDone ==
  /\ pc = "finish"
  /\ pc' = IF done THEN "collect" ELSE "decide"
  /\ UNCHANGED <<queueVars, bankVars, nextSeed, workerVars, threadVars, content,
                 callerVars>>

(* soko_join_refill_worker: wait for the thread to exit, close its handle. *)
CanJoin == started => tpc[wThread] = "exited"

JoinWorker ==
  /\ CanJoin
  /\ started' = FALSE
  /\ wThread' = IF started THEN NoThread ELSE wThread
  /\ handles' = IF started THEN handles \ {wThread} ELSE handles

(* The rest of soko_finish_completed_refill, with done found set.          *)
DoneAfterCollect == FALSE
RefillSucceeded  == result = 0
Restocked(b)     == [remaining EXCEPT ![b] = TokensPerBank]

(* The worker reported an error: acquire returns it.                       *)
CollectFailed ==
  /\ pc \in {"collect", "collectWaiting"}
  /\ JoinWorker
  /\ done' = DoneAfterCollect
  /\ ~RefillSucceeded
  /\ Return(result)
  /\ UNCHANGED <<queueVars, bankVars, nextSeed, inFlight, wBank, wSeed, result,
                 tpc, targ, content, calls, view, lastSigned>>

(* The bank is full again: its tokens are queued and acquire goes on.  If  *)
(* they did not fit, acquire would return enqueueError.                    *)
CollectFilled(next, enqueueError) ==
  /\ JoinWorker
  /\ done' = DoneAfterCollect
  /\ RefillSucceeded
  /\ EnqueueBank(wBank)
  /\ IF Fits
     THEN /\ remaining' = Restocked(wBank)
          /\ available' = [available EXCEPT ![wBank] = FALSE]
          /\ pc' = next
          /\ UNCHANGED ret
     ELSE /\ UNCHANGED bankVars
          /\ Return(enqueueError)
  /\ UNCHANGED <<nextSeed, inFlight, wBank, wSeed, result, tpc, targ, content,
                 calls, view, lastSigned>>

CollectOnEntry == pc = "collect" /\ CollectFilled("decide", EnqueueErrorIdle)
CollectWaiting == pc = "collectWaiting" /\ CollectFilled("pop", EnqueueErrorWait)

(* The second load of the worker's flags, and the choice it leads to.  The *)
(* worker may have stored done and then in_flight since LoadDone.          *)
NeedsRefill   == count <= Threshold /\ ~inFlight
IsEmptyBank(b) == remaining[b] = 0
FirstEmpty(b) == IsEmptyBank(b) /\ \A c \in Bank : c < b => ~IsEmptyBank(c)

SkipRefill ==
  /\ pc = "decide"
  /\ ~(NeedsRefill /\ \E b \in Bank : IsEmptyBank(b))
  /\ pc' = "wait"
  /\ UNCHANGED <<queueVars, bankVars, nextSeed, workerVars, threadVars, content,
                 callerVars>>

(* The bank's flag is cleared and a seed used up whether or not a worker   *)
(* can be started.                                                         *)
ChooseBank(b) ==
  /\ pc = "decide"
  /\ NeedsRefill
  /\ FirstEmpty(b)
  /\ available' = [available EXCEPT ![b] = FALSE]
  /\ nextSeed' = nextSeed + 1
  /\ UNCHANGED <<queueVars, remaining, targ, content, calls, view, lastSigned>>

(* soko_start_refill_worker.  It loads in_flight once more: no step of the *)
(* worker between the two loads matters, since it only clears the flag.    *)
WorkerBusy == inFlight

PrepareWorker(b) ==
  /\ wBank' = b
  /\ wSeed' = nextSeed
  /\ result' = 0
  /\ done' = FALSE

InFlightAtStart == TRUE

StartRefill(b) ==
  /\ ChooseBank(b)
  /\ ~WorkerBusy
  /\ PrepareWorker(b)
  /\ inFlight' = InFlightAtStart
  /\ started' = TRUE
  /\ wThread' = calls
  /\ tpc' = [tpc EXCEPT ![calls] = "new"]
  /\ handles' = handles \cup {calls}
  /\ pc' = "wait"
  /\ UNCHANGED ret

(* The worker is busy, or no thread can be created for it; the old handle  *)
(* is overwritten then.                                                    *)
StartFails(b) ==
  /\ ChooseBank(b)
  /\ IF WorkerBusy
     THEN UNCHANGED workerVars
     ELSE /\ PrepareWorker(b)
          /\ inFlight' = FALSE
          /\ started' = FALSE
          /\ wThread' = NoThread
  /\ Return(StartError)
  /\ UNCHANGED <<tpc, handles>>

(* The waiting loop, left when done is seen set; an iteration that sees it *)
(* clear only sleeps, and is a stuttering step.                            *)
WaitSeesDone ==
  /\ pc = "wait"
  /\ count = 0
  /\ done
  /\ pc' = "collectWaiting"
  /\ UNCHANGED <<queueVars, bankVars, nextSeed, workerVars, threadVars, content,
                 callerVars>>

(* soko_queue_pop and the bookkeeping of the popped token's bank; the view *)
(* handed out points into the storage of that bank.                        *)
PopToken ==
  /\ pc = "pop" \/ (pc = "wait" /\ count > 0)
  /\ IF count <= 0
     THEN /\ Return(EmptyError)
          /\ UNCHANGED <<queueVars, bankVars, view>>
     ELSE LET ref == Queued(0)
          IN  /\ head' = SlotAdvance(head, 1)
              /\ count' = count - 1
              /\ remaining' = [remaining EXCEPT ![ref.bank_id] = @ - 1]
              /\ available' = [available EXCEPT ![ref.bank_id] =
                                 @ \/ remaining[ref.bank_id] = 1]
              /\ view' = ref
              /\ ret' = 0
              /\ pc' = "sign"
              /\ UNCHANGED <<items, tail>>
  /\ UNCHANGED <<nextSeed, workerVars, threadVars, content, calls, lastSigned>>

(* The caller has signed with the token, read through the view.            *)
SignToken ==
  /\ pc = "sign"
  /\ lastSigned' = TokenOf(view)
  /\ pc' = "caller"
  /\ UNCHANGED <<queueVars, bankVars, nextSeed, workerVars, threadVars, content,
                 calls, ret, view>>

CallDestroy ==
  /\ pc = "caller"
  /\ pc' = "destroy"
  /\ UNCHANGED <<queueVars, bankVars, nextSeed, workerVars, threadVars, content,
                 callerVars>>

(* Join a started worker, then free the pipeline and all it holds.         *)
Destroy ==
  /\ pc = "destroy"
  /\ JoinWorker
  /\ pc' = "freed"
  /\ UNCHANGED <<queueVars, bankVars, nextSeed, inFlight, done, wBank, wSeed,
                 result, tpc, targ, content, callerVars>>

AcquireStep ==
  \/ LoadDone
  \/ CollectFailed
  \/ CollectOnEntry
  \/ CollectWaiting
  \/ SkipRefill
  \/ \E b \in Bank : StartRefill(b)
  \/ \E b \in Bank : StartFails(b)
  \/ WaitSeesDone
  \/ PopToken

Consumer == CallAcquire \/ AcquireStep \/ SignToken \/ CallDestroy \/ Destroy

Finished ==
  /\ pc = "freed"
  /\ \A t \in Thread : tpc[t] \in {"unborn", "exited"}
  /\ UNCHANGED vars

Next == Consumer \/ (\E t \in Thread : ThreadStep(t)) \/ Finished

(* Both threads keep being scheduled and a GPU call returns; the caller is *)
(* not obliged to call again.                                              *)
Fairness ==
  /\ WF_vars(AcquireStep)
  /\ WF_vars(Destroy)
  /\ \A t \in Thread : WF_vars(ThreadStep(t))

Spec     == Init /\ [][Next]_vars
FairSpec == Spec /\ Fairness

-----------------------------------------------------------------------------
(* Properties *)

TypeOK ==
  /\ items \in [Slot -> Ref]
  /\ head \in Slot /\ tail \in Slot /\ count \in 0 .. Capacity
  /\ remaining \in [Bank -> 0 .. TokensPerBank]
  /\ available \in [Bank -> BOOLEAN]
  /\ nextSeed \in Nat
  /\ inFlight \in BOOLEAN /\ done \in BOOLEAN /\ started \in BOOLEAN
  /\ wBank \in Bank /\ wSeed \in Nat /\ result \in {0, GpuFailure}
  /\ wThread \in Thread \cup {NoThread}
  /\ tpc \in [Thread -> {"unborn", "new", "generating", "generated", "flagged",
                         "cleared", "exited"}]
  /\ targ \in [Thread -> [bank : Bank, seed : Nat]]
  /\ handles \in SUBSET Thread
  /\ content \in [Bank -> Nat \cup {Torn}]
  /\ pc \in {"caller", "finish", "collect", "decide", "wait", "collectWaiting",
             "pop", "sign", "destroy", "freed"}
  /\ calls \in 0 .. MaxCalls
  /\ ret \in {0, GpuFailure, EnqueueErrorIdle, StartError, EnqueueErrorWait,
              EmptyError}
  /\ view \in Ref
  /\ lastSigned \in (Nat \cup {Torn}) \X (Index \cup {-1})

(* The queue holds, of every bank, exactly the tokens bank_remaining says  *)
(* are left, each once and in their order: the two records the code keeps  *)
(* of the same fact, in the ring and in the counters, never disagree.      *)
QueueMatchesBanks ==
  /\ tail = SlotAt(count)
  /\ \A k \in 0 .. count - 1 :
       Queued(k).token_index >= TokensPerBank - remaining[Queued(k).bank_id]
  /\ \A k, m \in 0 .. count - 1 :
       k < m /\ Queued(k).bank_id = Queued(m).bank_id
         => Queued(k).token_index < Queued(m).token_index
  /\ \A b \in Bank : \A i \in TokensPerBank - remaining[b] .. TokensPerBank - 1 :
       \E k \in 0 .. count - 1 :
         Queued(k) = [bank_id |-> b, token_index |-> i]

(* A thread that has yet to call the GPU, or is in the call.               *)
MayWrite(t) == tpc[t] \in {"new", "generating"}
TargetOf(t) == IF tpc[t] = "new" THEN wBank ELSE targ[t].bank

(* While a thread may write a bank, no token of that bank is queued and    *)
(* the caller is not signing with one, not even with the bank's last       *)
(* token, whose counter has already dropped to zero.                       *)
RefillAvoidsLiveBanks ==
  \A t \in Thread : MayWrite(t) =>
    /\ remaining[TargetOf(t)] = 0
    /\ pc = "sign" => view.bank_id # TargetOf(t)

(* At most one thread is between its creation and its last store to the    *)
(* worker structure, which all threads share.                              *)
BusyThread(t) == tpc[t] \in {"new", "generating", "generated", "flagged"}

OneBusyThread ==
  \A t, u \in Thread : BusyThread(t) /\ BusyThread(u) => t = u

(* A refill the consumer has not collected runs in the thread whose handle *)
(* the worker structure holds, so that a join waits for that very thread.  *)
JoinReachesBusyThread ==
  \A t \in Thread : BusyThread(t) => started /\ wThread = t /\ t \in handles

(* The errors for a full or an empty queue cannot happen: the ring has     *)
(* room for every bank it is asked to take, and acquire never pops before  *)
(* a token is there.                                                       *)
NoQueueError == ret \notin {EnqueueErrorIdle, EnqueueErrorWait, EmptyError}

(* When destroy has freed the pipeline, no thread will touch the worker    *)
(* structure or a bank again, even one whose handle was overwritten.       *)
NoUseAfterFree ==
  pc = "freed" => \A t \in Thread : tpc[t] \in {"unborn", "cleared", "exited"}

(* An acquire that waits on an empty queue has a refill to wait for.       *)
WaitHasRefill ==
  pc = "wait" /\ count = 0 /\ Threshold >= 0 => started

(* Each signing uses a whole token, and one later than any used before: a  *)
(* later seed, or a later place under the same seed.  So no token is ever  *)
(* used twice, and none whose bank was being overwritten.                  *)
Later(new, old) ==
  \/ new[1] > old[1]
  \/ new[1] = old[1] /\ new[2] > old[2]

TokensSignedInOrder ==
  [][pc = "sign" /\ pc' = "caller" => Later(lastSigned', lastSigned)]_vars

(* acquire returns, with a token or an error, provided the queue can ask   *)
(* for a refill when it is empty.                                          *)
InAcquire == pc \in {"finish", "collect", "decide", "wait", "collectWaiting",
                     "pop"}

AcquireReturns == Threshold >= 0 => (InAcquire ~> pc \in {"sign", "caller"})

(* destroy returns, waiting at most for the refill in flight.              *)
DestroyReturns == pc = "destroy" ~> pc = "freed"

(* The token handed out last, and the first seed not yet delivered, failed *)
(* or overtaken by a later refill.                                         *)
LastToken == IF pc = "sign" THEN TokenOf(view) ELSE lastSigned
SeedLimit == IF started THEN wSeed ELSE nextSeed

(* What the queue's references point at in the banks' present content.     *)
QueuedTokens == [k \in 1 .. count |-> TokenOf(Queued(k - 1))]

(* The pipeline implements the token service: tokens are handed out in the *)
(* order they were generated, each once, and a token that waits in the     *)
(* queue does not change, as it would if its bank were overwritten.        *)
Service == INSTANCE TokenService WITH
  BatchSize <- TokensPerBank,
  pool <- QueuedTokens,
  last <- LastToken,
  high <- SeedLimit - 1

ImplementsTokenService == Service!Spec

-----------------------------------------------------------------------------
(* The inductive invariant: the properties above hold because of it.       *)

(* Only the thread in the worker structure is busy, and in_flight is set   *)
(* no longer than it is; a started refill has a bank to itself; and that   *)
(* bank holds the tokens of the refill's seed once the call succeeded.     *)
WorkerInv ==
  /\ \A t \in Thread : BusyThread(t) =>
       inFlight /\ started /\ wThread = t
  /\ inFlight => started /\ wThread \in Thread /\ BusyThread(wThread)
  /\ started => wThread \in handles /\ remaining[wBank] = 0
  /\ \A t \in Thread : tpc[t] = "generating" =>
       targ[t] = [bank |-> wBank, seed |-> wSeed]
  /\ nextSeed = wSeed + 1
  /\ started /\ result = 0
       /\ tpc[wThread] \in {"generated", "flagged", "cleared", "exited"}
         => content[wBank] = wSeed

(* What the consumer knows at each place. *)
CallerInv ==
  /\ InAcquire => calls \in Thread
  /\ pc \in {"collect", "collectWaiting"} => done
  /\ done /\ pc # "freed" => started
  /\ pc = "pop" => count > 0
  /\ pc = "freed" => ~started
  /\ pc = "sign" /\ started => view.bank_id # wBank

(* From the token handed out last through the queue, tokens come in the    *)
(* order of their seeds and places, all before the refill to come.         *)
TokensInOrder ==
  /\ LastToken[1] < SeedLimit
  /\ pc = "sign" => Later(LastToken, lastSigned)
  /\ \A k \in 0 .. count - 1 :
       /\ TokenOf(Queued(k))[1] < SeedLimit
       /\ Later(TokenOf(Queued(k)), LastToken)
  /\ \A k, m \in 0 .. count - 1 :
       k < m => Later(TokenOf(Queued(m)), TokenOf(Queued(k)))

IInv ==
  /\ TypeOK
  /\ QueueMatchesBanks
  /\ WorkerInv
  /\ CallerInv
  /\ TokensInOrder
  /\ NoQueueError
  /\ WaitHasRefill

=============================================================================
