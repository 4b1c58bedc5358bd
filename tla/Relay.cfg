\* Failing calls, crashes, a lost session and a stop on two replicas.
SPECIFICATION FairSpec
CONSTANTS
  Replicas = {r1, r2}
  Nobody = Nobody
  BatchSize = 2
  Interval = 1
  MaxBackoff = 3
  MaxRows = 2
  MaxFaults = 1
  MaxLost = 1
  MaxStops = 1
INVARIANTS OneDrain MarkedWasProduced
PROPERTIES KeepsOrder EveryRowPublished
