\* Contention, expired locks and deadlocks never leave a call without an answer.
SPECIFICATION SortedSpec
CONSTANTS
  o1 = o1
  o2 = o2
  Calls <- ThreeCalls
  Nobody = Nobody
  Items <- TwoItems
  Orders <- OneOrder
  Stock <- ScarceStock
  Need <- OneNeed
  MaxFaults = 2
PROPERTY EveryCallAnswered
\* Every call may be answered: the system stops.
CHECK_DEADLOCK FALSE
