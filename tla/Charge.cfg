\* Two commands for one order, two webhooks, attempts that fail or time out.
SPECIFICATION FairSpec
CONSTANTS
  Commands = {c1, c2}
  Decisions <- AnyDecision
  MaxAttempts = 2
  MaxFaults = 2
  MaxSignals = 2
INVARIANTS WorkflowSpeaksFirst
PROPERTIES KeepsChargeContract EveryChargeAnswered
\* The order's charge ends.
CHECK_DEADLOCK FALSE
