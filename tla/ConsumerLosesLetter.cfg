\* A message whose dead letter could not be written is passed over.
SPECIFICATION Spec
CONSTANTS
  Members = {m1, m2}
  Nobody = Nobody
  Events = {e1, e2}
  Undecodable = {}
  FromBeginning = FALSE
  MaxAttempts = 2
  MaxMessages = 2
  MaxDisturbances = 0
  MaxOutages = 1
INVARIANT NoLetterLost
\* Every message may be settled and every bound spent: the system stops.
CHECK_DEADLOCK FALSE
