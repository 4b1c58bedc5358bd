---------------------------- MODULE MCServices ----------------------------
(***************************************************************************)
(* The services around the order for TLC.  They share no state: in every   *)
(* behaviour one of them, chosen at the start, runs and the others rest,   *)
(* so that one run checks each of them on its own instance.                *)
(***************************************************************************)
EXTENDS DriverAssignment, Sequences, TLC

CONSTANTS
  Channels, Consumers, MaxRetries, MaxAttempts, MaxCrashes,          \* Notification
  Requests, MaxUploads, MaxJobAttempts, MaxStops,                    \* MediaUpload
  ReviewedOrders, Submits, MaxSubmissions,                           \* ReviewRatings
  MaxRatingEvents, MaxUpdates, MaxLate,                              \* RatingViews
  Keys, Carts, Menus, Pricings, MaxMoney, MaxOrders, NoOrder,        \* PlaceOrder, with Requests
  Hits, Limit, MaxCount, MaxWindows,                                 \* GatewayEdge
  Tenants, Global, Values, Unset, Editors, Readers, Enforced, MaxChanges,  \* Settings
  Admins, Slugs, Usernames, MaxMishaps,                              \* Provisioning
  Placed, Total, Sellers, Nowhere, MaxDay, MaxEvents, MaxRows,         \* OrdersFact
  OrderRows, Processes, MaxMonth, MaxSwaps                           \* OrderPartitions

VARIABLES
  running,
  message, tries, processed, dispatch, status, job, made, worker, failures, reached, parked, crashes,
  media, object, thumbnail, request, completed, overtaken, thumbJob, jobTries, maker, loaded, uploads, stops,
  eligible, reviews, submission, begun, outbox, ratings, overlapped,
  changes, rated, changePos, ratingPos, exists, rating, missed, late,
  call, drawn, claims, orders, sagas, commands, answered,
  inward, count, expires, window, refusedIn, breaker, mayProbe,
  entries, editor, saved, topic, position, cache, reader, doubtful,
  tenants, admin, users, roles, links, told, mishaps,
  day, published, consumed, refused, inserted, table,
  month, ordersTable, items, written, layout, partitions, strays, jobs, ensured, migration, raced, swaps

N == INSTANCE Notification
M == INSTANCE MediaUpload
R == INSTANCE ReviewRatings
V == INSTANCE RatingViews
P == INSTANCE PlaceOrder
G == INSTANCE GatewayEdge
S == INSTANCE Settings
A == INSTANCE Provisioning
F == INSTANCE OrdersFact
T == INSTANCE OrderPartitions

ASSUME ServicesAssumption ==
  /\ N!NotificationBounds /\ M!MediaBounds /\ R!SubmissionBound /\ V!ViewBounds
  /\ P!MoneyAssumption /\ G!EdgeBounds /\ S!OwnerAssumption /\ S!SettingsBounds /\ A!MishapBound
  /\ F!FactBounds /\ T!PartitionBounds

notificationVars ==
  <<message, tries, processed, dispatch, status, job, made, worker, failures, reached, parked, crashes>>
mediaVars ==
  <<media, object, thumbnail, request, completed, overtaken, thumbJob, jobTries, maker, loaded, uploads, stops>>
reviewVars ==
  <<eligible, reviews, submission, begun, outbox, ratings, overlapped>>
viewsVars ==
  <<changes, rated, changePos, ratingPos, exists, rating, missed, late>>
placeVars ==
  <<call, drawn, claims, orders, sagas, commands, answered>>
edgeVars ==
  <<inward, count, expires, window, refusedIn, breaker, mayProbe>>
settingsVars ==
  <<entries, editor, saved, topic, position, cache, reader, doubtful>>
authVars ==
  <<tenants, admin, users, roles, links, told, mishaps>>
factVars ==
  <<day, published, consumed, refused, inserted, table>>
partitionVars ==
  <<month, ordersTable, items, written, layout, partitions, strays, jobs, ensured, migration, raced, swaps>>

Services ==
  {"delivery", "notification", "media", "review", "views", "order", "gateway", "settings", "auth",
   "analytics", "partitions"}

-----------------------------------------------------------------------------
(* Small instances: a line or two, a menu that fits, one whose prices      *)
(* overflow, one that lacks an item and one that has it sold out.          *)

Line(item, qty) == [item |-> item, qty |-> qty]
Entry(restaurant, price, available) ==
  [restaurant |-> restaurant, price |-> price, available |-> available]
Pricing(fee, bps, discount) == [fee |-> fee, bps |-> bps, discount |-> discount]

SmallCarts == {<<Line(1, 2)>>, <<Line(1, 1), Line(2, 1)>>}
SmallMenus ==
  {[i \in {1, 2} |-> Entry(1, 3, TRUE)], [i \in {1, 2} |-> Entry(i, 0, TRUE)],
   [i \in {1} |-> Entry(1, 7, TRUE)], [i \in {1, 2} |-> Entry(1, 1, i = 1)]}
SmallPricings == {Pricing(1, 2000, 0), Pricing(0, 0, 9)}

SmallTotals == [o \in Placed |-> IF o = CHOOSE p \in Placed : TRUE THEN 2 ELSE 3]
SmallSellers == [o \in Placed |-> SmallTotals[o]]

\* Two of every kind of actor, and the same two: each kind is interchangeable.
ServicesSymmetry == Permutations(Members)

-----------------------------------------------------------------------------
ServicesInit ==
  /\ running \in Services
  /\ Init
  /\ running = "delivery" \/ \A o \in Orders : verdict[o] = "OrderConfirmed"
  /\ N!Init /\ M!Init /\ R!Init /\ V!Init /\ P!Init /\ G!Init /\ S!Init /\ A!Init
  /\ F!Init /\ T!Init

Only(service) ==
  /\ running = service /\ running' = service
  /\ IF service = "delivery"     THEN TRUE ELSE UNCHANGED vars
  /\ IF service = "notification" THEN TRUE ELSE UNCHANGED notificationVars
  /\ IF service = "media"        THEN TRUE ELSE UNCHANGED mediaVars
  /\ IF service = "review"       THEN TRUE ELSE UNCHANGED reviewVars
  /\ IF service = "views"        THEN TRUE ELSE UNCHANGED viewsVars
  /\ IF service = "order"        THEN TRUE ELSE UNCHANGED placeVars
  /\ IF service = "gateway"      THEN TRUE ELSE UNCHANGED edgeVars
  /\ IF service = "settings"     THEN TRUE ELSE UNCHANGED settingsVars
  /\ IF service = "auth"         THEN TRUE ELSE UNCHANGED authVars
  /\ IF service = "analytics"    THEN TRUE ELSE UNCHANGED factVars
  /\ IF service = "partitions"   THEN TRUE ELSE UNCHANGED partitionVars

Delivery ==
  \/ Only("delivery") /\ \E m \in Members, o \in Orders : StartConfirmed(m, o)
  \/ Only("delivery") /\ \E m \in Members, o \in Orders : ReleaseCancelled(m, o)
  \/ Only("delivery") /\ \E m \in Members : AssignDriver(m)
  \/ Only("delivery") /\ \E m \in Members : BroadcastAssignment(m)
  \/ Only("delivery") /\ \E m \in Members : Abandon(m)
  \/ Only("delivery") /\ \E s \in Sockets, d \in Drivers : Connect(s, d)
  \/ Only("delivery") /\ \E s \in Sockets, newSecond, onGlobe \in BOOLEAN : OnLocation(s, newSecond, onGlobe)
  \/ Only("delivery") /\ \E s \in Sockets : Drop(s)
  \/ Only("delivery") /\ \E s \in Sockets : HandleDisconnect(s)
  \/ Only("delivery") /\ \E o \in Orders : OnJoinOrder(o)

NotificationSteps ==
  \/ Only("notification") /\ \E c \in Consumers : N!CreatePendingBatch(c)
  \/ Only("notification") /\ \E c \in Consumers : N!FindPendingByEvent(c)
  \/ Only("notification") /\ \E c \in Consumers, ch \in Channels : N!Enqueue(c, ch)
  \/ Only("notification") /\ \E c \in Consumers : N!Settle(c)
  \/ Only("notification") /\ \E c \in Consumers : N!FailDispatch(c)
  \/ Only("notification") /\ \E ch \in Channels : N!Take(ch)
  \/ Only("notification") /\ \E ch \in Channels : N!Send(ch)
  \/ Only("notification") /\ \E ch \in Channels : N!MarkSent(ch)
  \/ Only("notification") /\ \E ch \in Channels : N!CompleteJob(ch)
  \/ Only("notification") /\ \E ch \in Channels : N!FailJob(ch)
  \/ Only("notification") /\ \E f \in failures : N!MarkFailed(f)
  \/ Only("notification") /\ \E f \in failures : N!Park(f)
  \/ Only("notification") /\ \E f \in failures : N!MarkDead(f)
  \/ Only("notification") /\ \E f \in failures : N!FailHandler(f)
  \/ Only("notification") /\ N!Crash

MediaSteps ==
  \/ Only("media") /\ M!CreateUpload
  \/ Only("media") /\ \E size \in {"SMALL", "LARGE"} : M!PutByClient(size)
  \/ Only("media") /\ \E r \in Requests : M!FindById(r)
  \/ Only("media") /\ \E r \in Requests : M!AlreadyReady(r)
  \/ Only("media") /\ \E r \in Requests : M!StatObject(r)
  \/ Only("media") /\ \E r \in Requests : M!RemoveObject(r)
  \/ Only("media") /\ \E r \in Requests : M!SelectUploaded(r)
  \/ Only("media") /\ \E r \in Requests : M!SaveUploaded(r)
  \/ Only("media") /\ \E r \in Requests : M!EnqueueThumbnail(r)
  \/ Only("media") /\ \E r \in Requests : M!FailCompletion(r)
  \/ Only("media") /\ M!FindForProcessing
  \/ Only("media") /\ M!GetObject
  \/ Only("media") /\ M!PutThumbnail
  \/ Only("media") /\ M!SelectReady
  \/ Only("media") /\ M!SaveReady
  \/ Only("media") /\ M!CompleteThumbnail
  \/ Only("media") /\ M!FailThumbnail
  \/ Only("media") /\ M!StopService

ReviewSteps ==
  \/ Only("review") /\ \E o \in ReviewedOrders : R!RecordEligibility(o)
  \/ Only("review") /\ \E c \in Submits, o \in ReviewedOrders : R!FindEligible(c, o)
  \/ Only("review") /\ \E c \in Submits : R!SaveReview(c)
  \/ Only("review") /\ \E c \in Submits : R!AggregateForRestaurant(c)
  \/ Only("review") /\ \E c \in Submits : R!CommitReview(c)
  \/ Only("review") /\ \E c \in Submits : R!RollbackReview(c)
  \/ Only("review") /\ R!PublishRating

ViewSteps ==
  \/ Only("views") /\ \E event \in {"RestaurantUpdated", "RestaurantDeleted"} : V!ChangeRestaurant(event)
  \/ Only("views") /\ V!RateRestaurant
  \/ Only("views") /\ \E v \in V!Views : V!ConsumeChange(v)
  \/ Only("views") /\ \E v \in V!Views : V!ConsumeRating(v)
  \/ Only("views") /\ V!RedeliverChange
  \/ Only("views") /\ V!RedeliverRating
  \/ Only("views") /\ V!ApplyLate

OrderSteps ==
  \/ Only("order") /\ \E r \in Requests, k \in Keys, cart \in Carts : P!FindOrderId(r, k, cart)
  \/ Only("order") /\ \E r \in Requests, menu \in Menus, pricing \in Pricings : P!CreateOrder(r, menu, pricing)
  \/ Only("order") /\ \E r \in Requests : P!SaveKey(r)
  \/ Only("order") /\ \E r \in Requests : P!CommitOrder(r)
  \/ Only("order") /\ \E r \in Requests : P!AnswerPlaced(r)
  \/ Only("order") /\ \E r \in Requests : P!ResolveConcurrentClaim(r)
  \/ Only("order") /\ \E r \in Requests : P!LoadExisting(r)
  \/ Only("order") /\ \E r \in Requests : P!FailPlacement(r)

GatewaySteps ==
  \/ Only("gateway") /\ \E r \in Hits : G!Incr(r)
  \/ Only("gateway") /\ \E r \in Hits : G!Ttl(r)
  \/ Only("gateway") /\ \E r \in Hits : G!Expire(r)
  \/ Only("gateway") /\ \E r \in Hits : G!FailOpen(r)
  \/ Only("gateway") /\ \E r \in Hits : G!Fire(r)
  \/ Only("gateway") /\ \E r \in Hits : G!Succeed(r)
  \/ Only("gateway") /\ \E r \in Hits : G!FailCall(r)
  \/ Only("gateway") /\ G!WindowEnds
  \/ Only("gateway") /\ G!ResetTimeout
  \/ Only("gateway") /\ G!StopGateway

SettingsSteps ==
  \/ Only("settings") /\ \E e \in Editors, o \in S!Owners, value \in Values : S!FindEntry(e, o, value)
  \/ Only("settings") /\ \E e \in Editors : S!SaveEntry(e)
  \/ Only("settings") /\ \E e \in Editors : S!PublishChange(e)
  \/ Only("settings") /\ \E e \in Editors : S!LoseChange(e)
  \/ Only("settings") /\ \E r \in Readers, t \in Tenants : S!GetInt(r, t)
  \/ Only("settings") /\ \E r \in Readers : S!FetchValue(r)
  \/ Only("settings") /\ \E r \in Readers : S!FetchFails(r)
  \/ Only("settings") /\ \E r \in Readers : S!SetCache(r)
  \/ Only("settings") /\ \E r \in Readers : S!Return(r)
  \/ Only("settings") /\ \E t \in Tenants : S!ExpireEntry(t)
  \/ Only("settings") /\ S!HandleMessage
  \/ Only("settings") /\ S!RestartClient

AuthSteps ==
  \/ Only("auth") /\ \E a \in Admins, slug \in Slugs : A!FindBySlug(a, slug)
  \/ Only("auth") /\ \E a \in Admins : A!SaveTenant(a)
  \/ Only("auth") /\ \E a \in Admins, username \in Usernames : A!Authenticate(a, username)
  \/ Only("auth") /\ \E a \in Admins : A!CreateUserRecord(a)
  \/ Only("auth") /\ \E a \in Admins : A!AssignRealmRole(a)
  \/ Only("auth") /\ \E a \in Admins : A!RoleFails(a)
  \/ Only("auth") /\ \E a \in Admins : A!SaveLink(a)
  \/ Only("auth") /\ \E a \in Admins : A!LinkFails(a)
  \/ Only("auth") /\ \E a \in Admins : A!DeleteUserRecord(a)
  \/ Only("auth") /\ \E a \in Admins : A!DeletionFails(a)
  \/ Only("auth") /\ \E a \in Admins : A!LoseCreated(a)
  \/ Only("auth") /\ \E a \in Admins : A!LoseLinked(a)
  \/ Only("auth") /\ \E a \in Admins : A!StopAuth(a)

AnalyticsSteps ==
  \/ Only("analytics") /\ \E type \in F!EventType, o \in Placed : F!Announce(type, o)
  \/ Only("analytics") /\ F!AnnounceAgain
  \/ Only("analytics") /\ F!DayEnds
  \/ Only("analytics") /\ F!Handle
  \/ Only("analytics") /\ F!ParkEvent
  \/ Only("analytics") /\ F!Merge

PartitionSteps ==
  \/ Only("partitions") /\ \E r \in OrderRows : T!InsertOrder(r)
  \/ Only("partitions") /\ \E r \in OrderRows : T!UpdateStatus(r)
  \/ Only("partitions") /\ T!MonthTurns
  \/ Only("partitions") /\ \E p \in Processes : T!EnsureUpcomingPartitions(p)
  \/ Only("partitions") /\ \E p \in Processes : T!EnsurePartition(p)
  \/ Only("partitions") /\ \E p \in Processes : T!StopProcess(p)
  \/ Only("partitions") /\ T!CopyRows
  \/ Only("partitions") /\ T!CompareCounts
  \/ Only("partitions") /\ T!SwapToPartitioned
  \/ Only("partitions") /\ T!SwapBack

ServicesNext ==
  \/ Delivery \/ NotificationSteps \/ MediaSteps \/ ReviewSteps \/ ViewSteps
  \/ OrderSteps \/ GatewaySteps \/ SettingsSteps \/ AuthSteps \/ AnalyticsSteps \/ PartitionSteps

allVars == <<running, vars, notificationVars, mediaVars, reviewVars, viewsVars, placeVars, edgeVars, settingsVars, authVars,
             factVars, partitionVars>>

ServicesSpec == ServicesInit /\ [][ServicesNext]_allVars

-----------------------------------------------------------------------------
(* The properties of the services, stated in their modules, each with the  *)
(* type invariant of its module; a service that rests stays at its start.  *)

\* apps/notification forgets nothing, and its rows say what happened.
NotificationsAreTrue == running = "notification" => N!TypeOK /\ N!NoNotificationForgotten /\ N!RowTellsTheTruth

\* apps/media: a completed upload has its thumbnail or its job.
CompletedIsProcessed == running = "media" => M!TypeOK /\ M!CompletedIsProcessed

\* apps/review: rating events count the reviews there are.
RatingsCountReviews == running = "review" => R!TypeOK /\ R!RatingsCountReviews

\* The read sides agree with the events they are made from: the ratings shown by
\* catalog and search, once caught up, and the dashboards, which count an order once.
ReadSidesAgree ==
  /\ running = "views" => V!TypeOK /\ V!CaughtUpViewsAgree
  /\ running = "analytics" => F!TypeOK /\ F!DashboardsCountOnce

\* apps/order: an idempotency key places one order.
KeyPlacesOneOrder == running = "order" => P!TypeOK /\ P!KeyPlacesOneOrder

\* apps/order: no migration and no missing partition takes an order away.
PartitionsKeepOrders == running = "partitions" => T!TypeOK /\ T!PartitionsKeepOrders

\* apps/gateway: no window and no open breaker turns callers away for ever.
EdgeRecovers == running = "gateway" => G!TypeOK /\ G!EdgeRecovers

\* The settings client: what is stale is about to end.
StaleIsEnding == running = "settings" => S!TypeOK /\ S!StaleIsEnding

\* apps/auth: nobody is left half provisioned in silence.
NoSilentOrphan == running = "auth" => A!TypeOK /\ A!NoSilentOrphan
=============================================================================
