\* One command; the attempts of its charge run out.
SPECIFICATION FairSpec
CONSTANTS
  Commands = {c1}
  Decisions <- AnyDecision
  MaxAttempts = 2
  MaxFaults = 2
  MaxSignals = 0
PROPERTY ExhaustedChargeCompensates
\* The order's charge ends.
CHECK_DEADLOCK FALSE
