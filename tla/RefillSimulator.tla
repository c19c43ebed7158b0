-------------------------- MODULE RefillSimulator --------------------------
(***************************************************************************)
(* One case of the consume-only simulation of                              *)
(* src/benchmarks/soko_refill_simulator.c: requests for a token arrive at  *)
(* equal intervals, and a refill, started when few tokens are queued,      *)
(* takes a fixed time.  The program jumps from arrival to arrival and      *)
(* settles at each the refills that completed since the last.              *)
(*                                                                         *)
(* Times are whole numbers of a unit small enough for the case; the code   *)
(* uses doubles, whose rounding is not modelled.                           *)
(***************************************************************************)
EXTENDS Integers

CONSTANTS
  Capacities,   \* values of --queue, at least 2
  Batches,      \* values of --gpu-batch
  BatchTimes,   \* measured times of one refill, 0 included
  Intervals,    \* times between arrivals, 1 / token_rate
  Targets       \* values of --consume-target

ASSUME SimulatorAssumption ==
  /\ Capacities \subseteq Nat \ {0, 1}
  /\ Batches \subseteq Nat \ {0}
  /\ BatchTimes \subseteq Nat
  /\ Intervals \subseteq Nat \ {0}
  /\ Targets \subseteq Nat \ {0}

Config == [capacity : Capacities, batch : Batches, time : BatchTimes,
           interval : Intervals, target : Targets]

VARIABLES
  cfg,                      \* the case: sim_config_t, the rate, the batch time
  threshold,                \* refill_threshold_tokens
  queued,                   \* queued_tokens
  inFlight, batchSize,      \* refill_in_flight, refill_batch_size
  completeTime,             \* refill_complete_time
  nextArrival, endTime,     \* next_arrival_time, simulated_end_time
  produced, served, starved,
  pc,
  lastEvent                 \* history: time of the arrival or completion
                            \* handled last

refillVars == <<inFlight, batchSize, completeTime>>
vars == <<cfg, threshold, queued, refillVars, nextArrival, endTime, produced,
          served, starved, pc, lastEvent>>

-----------------------------------------------------------------------------
(* Slips the code could contain, none of them used by an action.           *)

ClampSwapped(n, c)        == IF n > 1 THEN 1 ELSE IF n >= c.capacity THEN c.capacity - 1 ELSE n
StartsBelow(q, flying)    == ~flying /\ q < threshold
StartsAnytime(q, flying)  == ~flying
WantWhole(q)              == cfg.batch
CompletionFromArrival(t)  == nextArrival + cfg.time
DueByNext(now)            == inFlight /\ completeTime <= now + cfg.interval
AvailableAtZero           == queued >= 0

-----------------------------------------------------------------------------
(* rate_based_refill_threshold: the tokens that arrive for during 1.2      *)
(* refills, rounded up, but at least 1 and less than the capacity.         *)
Unclamped(c) == (6 * c.time + 5 * c.interval - 1) \div (5 * c.interval)
Clamp(n, c)  == IF n < 1 THEN 1 ELSE IF n >= c.capacity THEN c.capacity - 1 ELSE n
RateThreshold(c) == Clamp(Unclamped(c), c)

(* The queue starts full, no refill is running.                            *)
Init ==
  /\ cfg \in Config
  /\ threshold = RateThreshold(cfg)
  /\ queued = cfg.capacity
  /\ inFlight = FALSE /\ batchSize = 0 /\ completeTime = 0
  /\ nextArrival = 0 /\ endTime = 0
  /\ produced = 0 /\ served = 0 /\ starved = 0
  /\ pc = "loop"
  /\ lastEvent = 0

(* maybe_start_refill, with q tokens queued at time t: a refill of as many *)
(* tokens as fit.                                                          *)
Starts(q, flying) == ~flying /\ q <= threshold /\ q < cfg.capacity
Want(q) == IF cfg.batch > cfg.capacity - q THEN cfg.capacity - q ELSE cfg.batch
Completion(t) == t + cfg.time

MaybeStartRefill(t, q, flying) ==
  \/ /\ Starts(q, flying)
     /\ inFlight' = TRUE
     /\ batchSize' = Want(q)
     /\ completeTime' = Completion(t)
  \/ /\ ~Starts(q, flying)
     /\ inFlight' = flying
     /\ batchSize' = IF flying THEN batchSize ELSE 0
     /\ UNCHANGED completeTime

(* The condition of the loop of settle_refills.                            *)
Due(now) == inFlight /\ completeTime <= now

(* A refill that completed is settled; the next may start at the time the  *)
(* last completed.                                                         *)
Settled(amount, now) ==
  /\ Due(now)
  /\ queued' = queued + batchSize
  /\ produced' = produced + amount
  /\ MaybeStartRefill(completeTime, queued', FALSE)
  /\ lastEvent' = completeTime
  /\ UNCHANGED <<cfg, threshold, nextArrival, endTime, served, starved, pc>>

SettleOneWhole(now) == Settled(cfg.batch, now)   \* a slip
SettleOne(now)      == Settled(batchSize, now)

NextRequest ==
  /\ pc = "loop"
  /\ pc' = IF served < cfg.target THEN "settle" ELSE "final"
  /\ UNCHANGED <<cfg, threshold, queued, refillVars, nextArrival, endTime,
                 produced, served, starved, lastEvent>>

Settle == pc = "settle" /\ SettleOne(nextArrival)

Arrival ==
  /\ pc = "settle"
  /\ ~Due(nextArrival)
  /\ MaybeStartRefill(nextArrival, queued', inFlight)
  /\ endTime' = nextArrival
  /\ nextArrival' = nextArrival + cfg.interval
  /\ lastEvent' = nextArrival
  /\ pc' = "loop"
  /\ UNCHANGED <<cfg, threshold, produced>>

Available == queued > 0

Serve ==
  /\ Available
  /\ queued' = queued - 1
  /\ served' = served + 1
  /\ UNCHANGED starved
  /\ Arrival

Starve ==
  /\ ~Available
  /\ starved' = starved + 1
  /\ UNCHANGED <<queued, served>>
  /\ Arrival

FinalSettle == pc = "final" /\ SettleOne(endTime)

Finish ==
  /\ pc = "final"
  /\ ~Due(endTime)
  /\ pc' = "done"
  /\ UNCHANGED <<cfg, threshold, queued, refillVars, nextArrival, endTime,
                 produced, served, starved, lastEvent>>

Step == NextRequest \/ Settle \/ Serve \/ Starve \/ FinalSettle \/ Finish
Done == pc = "done" /\ UNCHANGED vars
Next == Step \/ Done

Spec     == Init /\ [][Next]_vars
FairSpec == Spec /\ WF_vars(Step)

-----------------------------------------------------------------------------
(* Properties *)

TypeOK ==
  /\ cfg \in Config /\ threshold \in Nat
  /\ queued \in Nat
  /\ inFlight \in BOOLEAN /\ batchSize \in Nat /\ completeTime \in Nat
  /\ nextArrival \in Nat /\ endTime \in Nat
  /\ produced \in Nat /\ served \in Nat /\ starved \in Nat
  /\ pc \in {"loop", "settle", "final", "done"}
  /\ lastEvent \in Nat

(* Every token counted as produced is queued or was served: the rates the  *)
(* case reports are those of one stock of tokens.                          *)
TokensConserved == queued + served = cfg.capacity + produced

(* The refill in flight fits: its size was fixed when it started, and only *)
(* requests have changed the queue since.                                  *)
QueueWithinCapacity == queued + batchSize <= cfg.capacity

(* No refill is forgotten: when a request has been handled and few tokens  *)
(* are left, a refill is in flight, even if the last one completed long    *)
(* before the request that settled it.                                     *)
RefillNotMissed == pc = "loop" /\ queued <= threshold => inFlight

(* At most one refill's time passes from a request to the completion of    *)
(* the refill in flight, so that lazily settled refills run end to end.    *)
CompletionInReach ==
  inFlight => /\ completeTime <= lastEvent + cfg.time
              /\ lastEvent <= completeTime

(* If a refill brings at least what is asked for while it runs, and the    *)
(* queue has room for a whole batch above the threshold the rate calls     *)
(* for, no request is ever refused: the threshold is high enough.          *)
KeepsUp ==
  /\ cfg.batch * cfg.interval >= cfg.time
  /\ RateThreshold(cfg) + cfg.batch <= cfg.capacity

NoStarvation == KeepsUp => starved = 0

(* Why requests are served: the tokens queued last until the refill in     *)
(* flight completes, that refill is a whole batch, and while none is in    *)
(* flight the queue is above the threshold.                                *)
TokensLast ==
  KeepsUp /\ pc \in {"loop", "settle"} =>
    IF inFlight
    THEN /\ batchSize = cfg.batch
         /\ queued * cfg.interval >= completeTime - nextArrival
    ELSE queued > threshold

(* The inductive invariant of the proofs.                                  *)
SimulatorInv ==
  /\ TypeOK
  /\ threshold = RateThreshold(cfg)
  /\ pc \in {"loop", "settle"} => lastEvent <= nextArrival
  /\ TokensConserved
  /\ QueueWithinCapacity
  /\ RefillNotMissed
  /\ CompletionInReach
  /\ TokensLast
  /\ NoStarvation

(* The jump from arrival to arrival handles arrivals and completions in    *)
(* the order of their times, as an event-by-event simulation would.        *)
EventsInOrder == [][lastEvent' >= lastEvent]_vars

(* The case ends, however slow the refills are.                            *)
Terminates == <>(pc = "done")

=============================================================================
