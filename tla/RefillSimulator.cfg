\* All small cases: refills faster and slower than the requests, batches smaller and larger than the queue.
CONSTANTS
  Capacities <- SmallCapacities
  Batches <- SmallBatches
  BatchTimes <- SmallTimes
  Intervals <- SmallIntervals
  Targets <- SmallTargets
SPECIFICATION FairSpec
INVARIANTS
  RefillNotMissed
  NoStarvation
  SimulatorInv
PROPERTIES
  Terminates
