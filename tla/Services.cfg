\* Each service on a small instance of its own; small instances because their sum is explored.
SPECIFICATION ServicesSpec
CONSTANTS
  Drivers = {d1, d2}
  Orders = {o1, o2}
  Members = {a, b}
  Sockets = {a, b}
  RateLimit = 1
  MaxDeliveries = 2
  NoOne = NoOne
  Channels = {email, push}
  Consumers = {a, b}
  MaxRetries = 1
  MaxAttempts = 2
  MaxCrashes = 1
  Requests = {a, b}
  MaxUploads = 2
  MaxJobAttempts = 2
  MaxStops = 1
  ReviewedOrders = {o1, o2, o3}
  Submits = {a, b}
  MaxSubmissions = 4
  MaxRatingEvents = 2
  MaxUpdates = 1
  MaxLate = 1
  Keys = {k1, k2}
  Carts <- SmallCarts
  Menus <- SmallMenus
  Pricings <- SmallPricings
  MaxMoney = 10
  MaxOrders = 3
  NoOrder = NoOrder
  Hits = {a, b}
  Limit = 1
  MaxCount = 3
  MaxWindows = 2
  Tenants = {t1}
  Global = Global
  Values = {v1, v2}
  Unset = Unset
  Editors = {a, b}
  Readers = {r1}
  Enforced = FALSE
  MaxChanges = 2
  Admins = {a1, a2, a3}
  Slugs = {"s1", "s2"}
  Usernames = {"u1", "u2"}
  MaxMishaps = 1
  Placed = {o1, o2}
  Total <- SmallTotals
  Sellers <- SmallSellers
  Nowhere = Nowhere
  MaxDay = 1
  MaxEvents = 3
  MaxRows = 3
  OrderRows = {o1, o2}
  Processes = {p1}
  MaxMonth = 2
  MaxSwaps = 2
SYMMETRY ServicesSymmetry
INVARIANTS DriverHasOneOrder NotificationsAreTrue CompletedIsProcessed RatingsCountReviews ReadSidesAgree KeyPlacesOneOrder PartitionsKeepOrders EdgeRecovers StaleIsEnding NoSilentOrphan
PROPERTY AssignmentIsFinal
\* Calls, messages and uploads are bounded: a service stops when all are done.
CHECK_DEADLOCK FALSE
