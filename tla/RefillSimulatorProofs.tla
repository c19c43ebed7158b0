----------------------- MODULE RefillSimulatorProofs -----------------------
(***************************************************************************)
(* Proofs about RefillSimulator: its invariants, the order of its events,  *)
(* and that a producer that keeps up never lets a request starve, for all  *)
(* capacities, batch sizes, times and rates.                               *)
(***************************************************************************)
EXTENDS RefillSimulator, TLAPS

(* Rounding up loses nothing: n tokens, arriving one per interval, cover   *)
(* the time of the refill with its margin of a fifth.                      *)
LEMMA CeilingCovers ==
  ASSUME NEW c \in Config
  PROVE  /\ Unclamped(c) \in Int
         /\ Unclamped(c) * c.interval >= c.time
<1> DEFINE d == 5 * c.interval
           a == 6 * c.time + d - 1
<1>1. c.interval \in Nat \ {0} /\ c.time \in Nat
  BY SimulatorAssumption DEF Config
<1>2. d \in Nat \ {0} /\ a \in Nat
  BY <1>1
<1>3. /\ a \div d \in Int
      /\ a - d < d * (a \div d)
  <2> HIDE DEF d, a
  <2> QED  BY <1>2, SMTT(30)
<1>4. Unclamped(c) = a \div d
  BY DEF Unclamped
<1> DEFINE u == a \div d
<1>5. 6 * c.time - 1 < (5 * c.interval) * u
  BY <1>1, <1>3
<1>6. u \in Int
  BY <1>3
<1> HIDE DEF u
<1>7. (5 * c.interval) * u = 5 * (u * c.interval)
  BY <1>1, <1>6, SMT
<1>8. u * c.interval \in Int
  BY <1>1, <1>6, SMT
<1>9. u * c.interval >= c.time
  BY <1>1, <1>5, <1>7, <1>8, SMT
<1> QED  BY <1>4, <1>6, <1>9 DEF u

(* The threshold lies strictly inside the queue; where the producer keeps  *)
(* up, it covers the time of a refill in spite of the clamps.              *)
LEMMA ThresholdFacts ==
  ASSUME NEW c \in Config
  PROVE  /\ RateThreshold(c) \in 1 .. c.capacity - 1
         /\ c.batch * c.interval >= c.time /\ RateThreshold(c) + c.batch <= c.capacity
              => RateThreshold(c) * c.interval >= c.time
<1> DEFINE u == Unclamped(c)
<1>1. /\ c.interval \in Nat \ {0} /\ c.time \in Nat
      /\ c.capacity \in Nat \ {0, 1} /\ c.batch \in Nat \ {0}
  BY SimulatorAssumption DEF Config
<1>2. u \in Int /\ u * c.interval >= c.time
  BY CeilingCovers
<1>3. RateThreshold(c) = IF u < 1 THEN 1 ELSE IF u >= c.capacity THEN c.capacity - 1 ELSE u
  BY DEF RateThreshold, Clamp
<1> HIDE DEF u
<1>4. RateThreshold(c) \in 1 .. c.capacity - 1
  BY <1>1, <1>2, <1>3
<1>5. CASE u < 1
  <2>1. u * c.interval <= 0
    BY <1>1, <1>2, <1>5, SMT
  <2>2. RateThreshold(c) * c.interval = c.interval
    BY <1>1, <1>3, <1>5
  <2> QED  BY <1>1, <1>2, <1>4, <2>1, <2>2
<1>6. CASE u >= c.capacity
  <2>1. SUFFICES ASSUME c.batch * c.interval >= c.time,
                        RateThreshold(c) + c.batch <= c.capacity
                 PROVE  RateThreshold(c) * c.interval >= c.time
    BY <1>4
  <2>2. c.batch = 1
    BY <1>1, <1>2, <1>3, <1>6, <2>1
  <2>3. c.interval >= c.time
    BY <1>1, <2>1, <2>2
  <2> DEFINE r == RateThreshold(c)
  <2>4. r \in Nat \ {0}
    BY <1>1, <1>4
  <2> HIDE DEF r
  <2>5. r * c.interval >= c.interval
    BY <1>1, <2>4, SMT
  <2>6. r * c.interval \in Int
    BY <1>1, <2>4, SMT
  <2>7. r * c.interval >= c.time
    BY <1>1, <2>3, <2>5, <2>6, SMT
  <2> QED  BY <2>7 DEF r
<1>7. CASE ~(u < 1) /\ ~(u >= c.capacity)
  BY <1>2, <1>3, <1>4, <1>7
<1> QED  BY <1>5, <1>6, <1>7

-----------------------------------------------------------------------------

(* Types and threshold of a case, as most steps below need them.           *)
LEMMA CaseFacts ==
  ASSUME SimulatorInv
  PROVE  /\ cfg.capacity \in Nat \ {0, 1} /\ cfg.batch \in Nat \ {0}
         /\ cfg.time \in Nat /\ cfg.interval \in Nat \ {0}
         /\ threshold \in 1 .. cfg.capacity - 1
         /\ KeepsUp => threshold * cfg.interval >= cfg.time
<1>1. cfg \in Config /\ threshold = RateThreshold(cfg)
  BY DEF SimulatorInv, TypeOK
<1>2. /\ cfg.capacity \in Nat \ {0, 1} /\ cfg.batch \in Nat \ {0}
      /\ cfg.time \in Nat /\ cfg.interval \in Nat \ {0}
  BY <1>1, SimulatorAssumption DEF Config
<1> QED  BY <1>1, <1>2, ThresholdFacts DEF KeepsUp

(* A batch more lasts a batch of intervals more, a token less one less.    *)
LEMMA Lasting ==
  ASSUME NEW q \in Int, NEW n \in Int, NEW i \in Int
  PROVE  /\ q * i \in Int
         /\ (q + n) * i = q * i + n * i
         /\ (q - 1) * i = q * i - i
BY SMT

LEMMA InitInv == Init => SimulatorInv
<1> SUFFICES ASSUME Init PROVE SimulatorInv
  OBVIOUS
<1>1. /\ cfg \in Config /\ threshold = RateThreshold(cfg)
      /\ cfg.capacity \in Nat
  BY SimulatorAssumption DEF Init, Config
<1>2. threshold \in 1 .. cfg.capacity - 1
  BY <1>1, ThresholdFacts
<1>3. TypeOK
  <2>1. threshold \in Nat /\ queued \in Nat /\ lastEvent \in Nat
    BY <1>1, <1>2 DEF Init
  <2>2. inFlight \in BOOLEAN /\ batchSize \in Nat /\ completeTime \in Nat
    BY DEF Init
  <2>3. /\ nextArrival \in Nat /\ endTime \in Nat
        /\ produced \in Nat /\ served \in Nat /\ starved \in Nat
        /\ pc \in {"loop", "settle", "final", "done"}
    BY DEF Init
  <2> QED  BY <1>1, <2>1, <2>2, <2>3 DEF TypeOK
<1> QED
  BY <1>1, <1>2, <1>3 DEF Init, SimulatorInv, TokensConserved,
     QueueWithinCapacity, RefillNotMissed, CompletionInReach, TokensLast,
     NoStarvation

(* A settled refill: for the requests up to now, none of which is later    *)
(* than the next arrival while the loop runs.                              *)
LEMMA SettlePreserves ==
  ASSUME SimulatorInv, NEW now \in Int, SettleOne(now), pc \in {"settle", "final"},
         pc = "settle" => now = nextArrival
  PROVE  SimulatorInv'
<1> USE DEF SettleOne, Settled
<1>1. /\ cfg.capacity \in Nat \ {0, 1} /\ cfg.batch \in Nat \ {0}
      /\ cfg.time \in Nat /\ cfg.interval \in Nat \ {0}
      /\ threshold \in 1 .. cfg.capacity - 1
      /\ cfg.capacity' = cfg.capacity
  BY CaseFacts
<1>2. /\ TypeOK /\ inFlight /\ completeTime <= now
      /\ queued + batchSize <= cfg.capacity
  BY DEF SimulatorInv, Due, QueueWithinCapacity
<1>3. /\ queued' \in Nat /\ produced' \in Nat
      /\ queued' = queued + batchSize /\ queued' <= cfg.capacity
  BY <1>1, <1>2 DEF TypeOK
<1>4. \/ /\ queued' <= threshold /\ inFlight' = TRUE
         /\ batchSize' = Want(queued') /\ completeTime' = completeTime + cfg.time
      \/ /\ queued' > threshold /\ inFlight' = FALSE
         /\ batchSize' = 0 /\ completeTime' = completeTime
  BY <1>1, <1>3 DEF MaybeStartRefill, Starts, Completion
<1>5. /\ Want(queued') \in Nat
      /\ Want(queued') <= cfg.capacity - queued'
      /\ cfg.capacity - queued' >= cfg.batch => Want(queued') = cfg.batch
  BY <1>1, <1>3 DEF Want
<1>6. TypeOK'
  <2>1. inFlight' \in BOOLEAN
    BY <1>4
  <2>2. batchSize' \in Nat /\ completeTime' \in Nat /\ lastEvent' \in Nat
    BY <1>1, <1>2, <1>4, <1>5 DEF TypeOK
  <2>3. /\ cfg' = cfg /\ threshold' = threshold /\ nextArrival' = nextArrival
        /\ endTime' = endTime /\ served' = served /\ starved' = starved /\ pc' = pc
    OBVIOUS
  <2> QED  BY <1>2, <1>3, <2>1, <2>2, <2>3 DEF TypeOK
<1>7. threshold' = RateThreshold(cfg)' /\ (pc \in {"loop", "settle"} => lastEvent <= nextArrival)'
  BY <1>2 DEF SimulatorInv, RateThreshold, Clamp, Unclamped
<1>8. TokensConserved'
  BY <1>1, <1>2 DEF SimulatorInv, TokensConserved, TypeOK
<1>9. QueueWithinCapacity'
  BY <1>1, <1>3, <1>4, <1>5 DEF QueueWithinCapacity
<1>10. RefillNotMissed'
  BY DEF RefillNotMissed
<1>11. CompletionInReach'
  BY <1>1, <1>2, <1>4 DEF CompletionInReach, TypeOK
<1>12. TokensLast'
  <2>1. SUFFICES ASSUME KeepsUp', pc' \in {"loop", "settle"}
                 PROVE  IF inFlight'
                        THEN /\ batchSize' = cfg.batch
                             /\ queued' * cfg.interval >= completeTime' - nextArrival
                        ELSE queued' > threshold
    BY DEF TokensLast
  <2>2. KeepsUp /\ pc = "settle"
    BY <2>1 DEF KeepsUp, RateThreshold, Clamp, Unclamped
  <2>3. /\ batchSize = cfg.batch
        /\ queued * cfg.interval >= completeTime - nextArrival
        /\ cfg.batch * cfg.interval >= cfg.time
        /\ threshold + cfg.batch <= cfg.capacity
    BY <1>2, <2>2 DEF SimulatorInv, TokensLast, KeepsUp
  <2>4. CASE queued' > threshold /\ inFlight' = FALSE
    BY <2>4
  <2>5. CASE /\ queued' <= threshold /\ inFlight' = TRUE
             /\ batchSize' = Want(queued') /\ completeTime' = completeTime + cfg.time
    <3>1. batchSize' = cfg.batch
      BY <1>1, <1>3, <1>5, <2>3, <2>5
    <3>2. /\ queued' * cfg.interval = queued * cfg.interval + cfg.batch * cfg.interval
          /\ queued * cfg.interval \in Int /\ cfg.batch * cfg.interval \in Int
      BY <1>1, <1>2, <1>3, <2>3, Lasting DEF TypeOK
    <3>3. queued' * cfg.interval >= completeTime' - nextArrival
      BY <1>1, <1>2, <2>3, <2>5, <3>2 DEF TypeOK
    <3> QED  BY <2>5, <3>1, <3>3
  <2> QED  BY <1>4, <2>4, <2>5
<1>13. NoStarvation'
  BY DEF SimulatorInv, NoStarvation, KeepsUp, RateThreshold, Clamp, Unclamped
<1> QED
  BY <1>6, <1>7, <1>8, <1>9, <1>10, <1>11, <1>12, <1>13 DEF SimulatorInv

(* A request, served or refused; refused ones do not occur where the       *)
(* producer keeps up.                                                      *)
LEMMA ArrivalPreserves ==
  ASSUME SimulatorInv, Serve \/ Starve
  PROVE  SimulatorInv'
<1> USE DEF Serve, Starve, Arrival, Available
<1>1. /\ cfg.capacity \in Nat \ {0, 1} /\ cfg.batch \in Nat \ {0}
      /\ cfg.time \in Nat /\ cfg.interval \in Nat \ {0}
      /\ threshold \in 1 .. cfg.capacity - 1
      /\ KeepsUp => threshold * cfg.interval >= cfg.time
  BY CaseFacts
<1>2. /\ TypeOK /\ pc = "settle"
      /\ queued + batchSize <= cfg.capacity
      /\ inFlight => completeTime > nextArrival
  BY DEF SimulatorInv, Due, QueueWithinCapacity, TypeOK
<1>3. /\ cfg' = cfg /\ threshold' = threshold /\ produced' = produced
      /\ pc' = "loop" /\ endTime' = nextArrival /\ lastEvent' = nextArrival
      /\ nextArrival' = nextArrival + cfg.interval
  OBVIOUS
<1>4. \/ /\ queued > 0 /\ queued' = queued - 1
         /\ served' = served + 1 /\ starved' = starved
      \/ /\ queued = 0 /\ queued' = 0
         /\ served' = served /\ starved' = starved + 1
  BY <1>2 DEF TypeOK
<1>5. /\ queued' \in Nat /\ queued' <= cfg.capacity /\ queued' <= queued
      /\ served' \in Nat /\ starved' \in Nat
  BY <1>1, <1>2, <1>4 DEF TypeOK
<1>6. \/ /\ inFlight /\ inFlight' = TRUE
         /\ batchSize' = batchSize /\ completeTime' = completeTime
      \/ /\ ~inFlight /\ queued' <= threshold /\ inFlight' = TRUE
         /\ batchSize' = Want(queued') /\ completeTime' = nextArrival + cfg.time
      \/ /\ ~inFlight /\ queued' > threshold /\ inFlight' = FALSE
         /\ batchSize' = 0 /\ completeTime' = completeTime
  BY <1>1, <1>2, <1>5 DEF MaybeStartRefill, Starts, Completion, TypeOK
<1>7. /\ Want(queued') \in Nat
      /\ Want(queued') <= cfg.capacity - queued'
      /\ cfg.capacity - queued' >= cfg.batch => Want(queued') = cfg.batch
  BY <1>1, <1>5 DEF Want
<1>8. TypeOK'
  <2>1. inFlight' \in BOOLEAN
    BY <1>6
  <2>2. batchSize' \in Nat /\ completeTime' \in Nat
    BY <1>1, <1>2, <1>6, <1>7 DEF TypeOK
  <2>3. nextArrival' \in Nat /\ lastEvent' \in Nat /\ endTime' \in Nat
    BY <1>1, <1>2, <1>3 DEF TypeOK
  <2> QED  BY <1>2, <1>3, <1>5, <2>1, <2>2, <2>3 DEF TypeOK
<1>9. threshold' = RateThreshold(cfg)' /\ (pc \in {"loop", "settle"} => lastEvent <= nextArrival)'
  BY <1>1, <1>2, <1>3 DEF SimulatorInv, TypeOK, RateThreshold, Clamp, Unclamped
<1>10. TokensConserved'
  BY <1>1, <1>2, <1>3, <1>4 DEF SimulatorInv, TokensConserved, TypeOK
<1>11. QueueWithinCapacity'
  BY <1>1, <1>2, <1>3, <1>5, <1>6, <1>7 DEF QueueWithinCapacity, TypeOK
<1>12. RefillNotMissed'
  BY <1>1, <1>3, <1>5, <1>6 DEF RefillNotMissed
<1>13. CompletionInReach'
  BY <1>1, <1>2, <1>3, <1>6 DEF SimulatorInv, CompletionInReach, TypeOK
<1>14. ASSUME KeepsUp
       PROVE  /\ starved' = 0
              /\ IF inFlight'
                 THEN /\ batchSize' = cfg.batch
                      /\ queued' * cfg.interval >= completeTime' - nextArrival'
                 ELSE queued' > threshold
  <2>1. /\ starved = 0
        /\ inFlight => /\ batchSize = cfg.batch
                       /\ queued * cfg.interval >= completeTime - nextArrival
        /\ ~inFlight => queued > threshold
        /\ cfg.batch * cfg.interval >= cfg.time
        /\ threshold + cfg.batch <= cfg.capacity
    BY <1>2, <1>14 DEF SimulatorInv, TokensLast, NoStarvation, KeepsUp
  <2>2. queued > 0
    <3>1. CASE inFlight
      <4>1. queued * cfg.interval > 0
        BY <1>1, <1>2, <2>1, <3>1, Lasting DEF TypeOK
      <4> QED  BY <1>1, <1>2, <4>1 DEF TypeOK
    <3>2. CASE ~inFlight
      BY <1>1, <1>2, <2>1, <3>2 DEF TypeOK
    <3> QED  BY <3>1, <3>2
  <2>3. queued' = queued - 1 /\ starved' = 0
    BY <1>4, <2>1, <2>2
  <2>4. /\ queued * cfg.interval \in Int
        /\ queued' * cfg.interval = queued * cfg.interval - cfg.interval
    BY <1>1, <1>2, <2>3, Lasting DEF TypeOK
  <2>5. CASE inFlight /\ inFlight' = TRUE /\ batchSize' = batchSize /\ completeTime' = completeTime
    BY <1>1, <1>2, <1>3, <2>1, <2>3, <2>4, <2>5 DEF TypeOK
  <2>6. CASE /\ ~inFlight /\ queued' <= threshold /\ inFlight' = TRUE
             /\ batchSize' = Want(queued') /\ completeTime' = nextArrival + cfg.time
    <3>1. queued' = threshold
      BY <1>1, <1>2, <2>1, <2>3, <2>6 DEF TypeOK
    <3>2. queued' * cfg.interval >= cfg.time
      BY <1>1, <1>14, <3>1
    <3>3. queued' * cfg.interval >= completeTime' - nextArrival'
      BY <1>1, <1>2, <1>3, <2>4, <2>6, <3>2 DEF TypeOK
    <3>4. batchSize' = cfg.batch
      BY <1>1, <1>7, <2>1, <2>6, <3>1
    <3> QED  BY <2>3, <2>6, <3>3, <3>4
  <2>7. CASE ~inFlight /\ queued' > threshold /\ inFlight' = FALSE
    BY <2>3, <2>7
  <2> QED  BY <1>6, <2>5, <2>6, <2>7
<1>15. KeepsUp' = KeepsUp
  BY <1>3 DEF KeepsUp, RateThreshold, Clamp, Unclamped
<1>16. TokensLast' /\ NoStarvation'
  BY <1>3, <1>14, <1>15 DEF TokensLast, NoStarvation
<1> QED
  BY <1>8, <1>9, <1>10, <1>11, <1>12, <1>13, <1>16 DEF SimulatorInv

(* The steps of the loop that only move on.                                *)
LEMMA MovingOnPreserves ==
  ASSUME SimulatorInv, NextRequest \/ Finish \/ UNCHANGED vars
  PROVE  SimulatorInv'
<1>1. /\ UNCHANGED <<cfg, threshold, queued, refillVars, nextArrival, endTime,
                     produced, served, starved, lastEvent>>
      /\ \/ pc' = pc
         \/ pc = "loop" /\ pc' \in {"settle", "final"}
         \/ pc = "final" /\ pc' = "done"
  BY DEF NextRequest, Finish, vars, refillVars
<1>2. TypeOK'
  BY <1>1 DEF SimulatorInv, TypeOK, refillVars
<1>3. /\ threshold' = RateThreshold(cfg)' /\ KeepsUp' = KeepsUp
  BY <1>1 DEF SimulatorInv, KeepsUp, RateThreshold, Clamp, Unclamped
<1>4. (pc \in {"loop", "settle"} => lastEvent <= nextArrival)'
  BY <1>1 DEF SimulatorInv
<1>5. TokensConserved' /\ QueueWithinCapacity' /\ RefillNotMissed' /\ CompletionInReach'
  BY <1>1 DEF SimulatorInv, TokensConserved, QueueWithinCapacity,
     RefillNotMissed, CompletionInReach, refillVars
<1>6. TokensLast' /\ NoStarvation'
  BY <1>1, <1>3 DEF SimulatorInv, TokensLast, NoStarvation, refillVars
<1> QED
  BY <1>2, <1>3, <1>4, <1>5, <1>6 DEF SimulatorInv

LEMMA StepInv == SimulatorInv /\ [Next]_vars => SimulatorInv'
<1> SUFFICES ASSUME SimulatorInv, [Next]_vars PROVE SimulatorInv'
  OBVIOUS
<1>1. CASE NextRequest \/ Finish \/ UNCHANGED vars
  BY <1>1, MovingOnPreserves
<1>2. CASE Settle
  BY <1>2, SettlePreserves DEF Settle, SimulatorInv, TypeOK
<1>3. CASE Serve \/ Starve
  BY <1>3, ArrivalPreserves
<1>4. CASE FinalSettle
  BY <1>4, SettlePreserves DEF FinalSettle, SimulatorInv, TypeOK
<1> QED  BY <1>1, <1>2, <1>3, <1>4 DEF Next, Step, Done

-----------------------------------------------------------------------------

(* run_simulation_case keeps the inductive invariant: its tokens balance,  *)
(* no refill is forgotten, and the tokens last where the producer keeps up.*)
THEOREM SimulatorInvHolds == Spec => []SimulatorInv
BY InitInv, StepInv, PTL DEF Spec

(* The counters and times of a case are natural numbers: the queue is      *)
(* never overdrawn.                                                        *)
THEOREM TypeCorrect == Spec => []TypeOK
<1>1. SimulatorInv => TypeOK
  BY DEF SimulatorInv
<1> QED  BY <1>1, SimulatorInvHolds, PTL

(* settle_refills and the requests keep one stock: what is produced is     *)
(* queued or served.                                                       *)
THEOREM StockConserved == Spec => []TokensConserved
<1>1. SimulatorInv => TokensConserved
  BY DEF SimulatorInv
<1> QED  BY <1>1, SimulatorInvHolds, PTL

(* settle_refills never overfills the queue, although maybe_start_refill   *)
(* fixed the size of the refill before the requests that followed.         *)
THEOREM QueueBounded == Spec => []QueueWithinCapacity
<1>1. SimulatorInv => QueueWithinCapacity
  BY DEF SimulatorInv
<1> QED  BY <1>1, SimulatorInvHolds, PTL

(* maybe_start_refill is called often enough: after every request with few *)
(* tokens left a refill is in flight.                                      *)
THEOREM RefillKeptUp == Spec => []RefillNotMissed
<1>1. SimulatorInv => RefillNotMissed
  BY DEF SimulatorInv
<1> QED  BY <1>1, SimulatorInvHolds, PTL

(* The refill in flight completes within one refill's time of the last     *)
(* event, however late settle_refills restarted it.                        *)
THEOREM CompletionTimely == Spec => []CompletionInReach
<1>1. SimulatorInv => CompletionInReach
  BY DEF SimulatorInv
<1> QED  BY <1>1, SimulatorInvHolds, PTL

(* rate_based_refill_threshold is high enough: if a batch brings what is   *)
(* asked for during a refill and fits above the threshold, no request is   *)
(* refused.                                                                *)
THEOREM NeverStarves == Spec => []NoStarvation
<1>1. SimulatorInv => NoStarvation
  BY DEF SimulatorInv
<1> QED  BY <1>1, SimulatorInvHolds, PTL

(* run_simulation_case handles arrivals and completions in the order of    *)
(* their times, although it settles completions late.                      *)
THEOREM OrderedEvents == Spec => EventsInOrder
<1>1. SimulatorInv /\ [Next]_vars => [lastEvent' >= lastEvent]_vars
  <2> SUFFICES ASSUME SimulatorInv, [Next]_vars PROVE [lastEvent' >= lastEvent]_vars
    OBVIOUS
  <2>1. CASE Settle \/ FinalSettle
    BY <2>1 DEF Settle, FinalSettle, SettleOne, Settled, Due, SimulatorInv, CompletionInReach
  <2>2. CASE Serve \/ Starve
    BY <2>2 DEF Serve, Starve, Arrival, SimulatorInv
  <2>3. CASE NextRequest \/ Finish \/ UNCHANGED vars
    BY <2>3 DEF NextRequest, Finish, vars, SimulatorInv, TypeOK
  <2> QED  BY <2>1, <2>2, <2>3 DEF Next, Step, Done
<1> QED  BY <1>1, SimulatorInvHolds, PTL DEF Spec, EventsInOrder

=============================================================================
