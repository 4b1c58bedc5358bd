\* Three concurrent calls of any kind; two faults, so both locks of a call may expire.
SPECIFICATION Spec
CONSTANTS
  o1 = o1
  o2 = o2
  Calls = {c1, c2, c3}
  Nobody = Nobody
  Items <- TwoItems
  Orders <- TwoOrders
  Stock <- ScarceStock
  Need <- TwoNeeds
  MaxFaults = 2
SYMMETRY CallSymmetry
INVARIANTS Conservation AllOrNothing ExclusiveUnlessOverrun ReservedUntilReleased
PROPERTY KeepsStockContract
\* Every call may be answered: the system stops.
CHECK_DEADLOCK FALSE
