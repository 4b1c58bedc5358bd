\* Two calls that overlap; so many attempts that no failed job is needed.
SPECIFICATION Spec
CONSTANTS
  Requests = {r1, r2}
  MaxUploads = 1
  MaxJobAttempts = 5
  MaxStops = 0
INVARIANT CompletedEndsReady
CHECK_DEADLOCK FALSE
