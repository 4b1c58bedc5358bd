\* Crashes, redeliveries, lost messages, re-drives and both manual endpoints.
SPECIFICATION FairSpec
CONSTANTS
  Orders = {o1}
  MaxAttempts = 1
  MaxDisturbances = 1
  ManualCancel = TRUE
  ManualConfirm = TRUE
INVARIANTS SagaAgreesWithOrder ConfirmedIsPaidAndHeld CancelledIsNotPaid
INVARIANTS OneVerdict CompensationReleasesHold
PROPERTIES CommandsFollowSaga KeepsContract SagaSettles
\* Every order may be settled: the system stops.
CHECK_DEADLOCK FALSE
