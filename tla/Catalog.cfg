\* Two writes, one request that reads, a rating, an item that may exist.
SPECIFICATION FairSpec
CONSTANTS
  Restaurant = r
  Items = {i1}
  Calls = {c1, c2}
  Readers = {p1}
  MaxRatings = 1
  MaxFaults = 1
CHECK_DEADLOCK FALSE
INVARIANTS LogIsHistory ListedItemsVanish
PROPERTIES KeepsReadModel ViewsCatchUp
