\* Two members hand the partition over, crash, and once cannot write a dead letter.
SPECIFICATION FairSpec
CONSTANTS
  Members = {m1, m2}
  Nobody = Nobody
  Events = {e1, e2, e3}
  Undecodable = {e3}
  FromBeginning = FALSE
  MaxAttempts = 2
  MaxMessages = 3
  MaxDisturbances = 1
  MaxOutages = 1
INVARIANTS NothingSkipped EffectOnce
PROPERTIES KeepsDelivery EventuallySettled
\* Every message may be settled and every bound spent: the system stops.
CHECK_DEADLOCK FALSE
