\* A re-driven ReserveStock succeeds after the first one failed.
SPECIFICATION Spec
CONSTANTS
  Orders = {o1}
  MaxAttempts = 1
  MaxDisturbances = 0
  ManualCancel = FALSE
  ManualConfirm = FALSE
INVARIANT CancellationReleasesHold
\* Every order may be settled: the system stops.
CHECK_DEADLOCK FALSE
