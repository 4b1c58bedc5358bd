# Verification of the food delivery backend

TLA+ models of the services under `apps/` and the libraries under `libs/shared/`
of this repository, TLC runs that check them on small instances, and theorems
about them that TLAPS proves for every value of their constants.

    tlc -config SagaFaults.cfg MCOrderSaga.tla     # one run; PROJECT.json lists all
    tlapm OrderSagaProofs.tla                      # one proof module

`PROJECT.json` holds the components, the runs, one mutant per checked property,
the map from definitions to source lines, the findings and the hazards.

## 1. The system

Thirteen NestJS services talk over HTTP (through the gateway), gRPC and Kafka.
Each service that publishes events has its own PostgreSQL database with an outbox
table; each that consumes them records processed event ids in a table.

| Component | State it keeps | Operations | What is hard | What makes it correct |
|---|---|---|---|---|
| **order: saga** (`apps/order/src/application/saga`, `interface/messaging`) | `orders`, `order_saga`, `order_outbox`, `processed_events` | start with the order; handle inventory and payment replies; reaper re-drives; operator replays | replies late, repeated, dead-lettered; reaper acts on a stale read; customers change the order meanwhile | order and saga agree; one verdict; confirmed means charged and held; cancelled means not charged and released; every saga ends |
| **order: commands** (`application/order`) | the same, `idempotency_keys`, monthly partitions | place (with a key), cancel, confirm | two requests with one key; cancel and confirm overtake the saga; a migration of the table while the service runs | one order per key; no verdict overwritten; no order lost by a migration |
| **inventory** | `stock`, `reservations`, Redis locks, own outbox | reserve and release, by command and by gRPC | locks that expire, overlapping transactions, partial shortage, replays | no oversell, whole reservations, stock conserved |
| **payment** | a Temporal workflow per order, own outbox | start charge, provider webhook, reply | duplicate commands, workflow that failed, signal and timer race | one charge per order, its reply true |
| **shared messaging** (`libs/shared/messaging`) | outbox rows, Kafka offsets, processed events | relay tick, consume with retries, dead-letter, deduplicate | crashes between produce and mark or effect and commit; rebalances | at least once to Kafka, in order per key; effect once; nothing skipped |
| **shared locking** | Redis keys with owner and TTL | lock a set of keys, release | TTL ends under a holder; deadlock | exclusion while the TTL lasts; a deadline on waiting |
| **shared persistence** | advisory lock; a read replica | `withAdvisoryLock`; route queries | session lost under the lock; stale replica | one drain or sweep at a time |
| **catalog** | restaurants, menu items, outbox (Debezium), read model, Redis cache | create, update (versioned), delete; project; cached reads | events of two tables out of order; cache filled with an old read | read model converges; cache not stale for longer than its TTL |
| **review** | eligibility, reviews, outbox | learn of confirmed orders; submit; publish rating | concurrent aggregates | one review per order; the last rating published is the true one |
| **search** | an Elasticsearch index | upsert, update rating, delete | versioned and unversioned writes mix, no ledger of processed events | the index agrees with catalog once caught up, unless an event came late |
| **delivery** | Redis geo set, assignments, sockets | assign on confirmation, release, locations | reconnects, two orders for one driver | a driver has one order |
| **notification** | rows, BullMQ queue | dispatch event, send, retry, fail | late failure after success | status tells the truth |
| **media** | objects, MinIO, BullMQ | create upload, complete, thumbnail | completing twice, while a job runs, saves of a row read before | a completed upload has its thumbnail or its job |
| **gateway** | circuit breakers, rate counters | forward, limit | half-open probes, counter without expiry | no caller is turned away for ever; the breaker recovers |
| **config and settings client** | settings, cached copies | change, read | invalidation races with a read | copies are not stale for ever |
| **shared cache** | Redis entries | cache-aside, invalidate | as above | as above |
| **auth** | Keycloak and local user | provision with compensation | second step fails, an answer is lost | no orphan user in silence |
| **analytics** | a ClickHouse table | ingest, query | redelivered events, merges that have not run | an order counts once |
| contracts, errors, health, jwt, logging, observability, tenancy, config | none that others depend on | | | |
| e2e suites, tools, infra | | | | |

How they interact in an order's life: `PlaceOrder` commits order, saga and a
`ReserveStock` outbox row; order's relay produces it to `inventory.commands`;
inventory's consumer reserves and appends its reply to its own outbox; its relay
produces that to `inventory.replies`; order's consumer moves order and saga and
appends `ChargePayment`; payment starts the workflow, which after a provider
webhook or a timeout appends a reply; order confirms, or appends `ReleaseStock`
and, when that is answered, cancels. `OrderConfirmed` and `OrderCancelled` reach
review, delivery, notification and analytics.

## 2. Modules

| Module | Models | Extends, instantiates |
|---|---|---|
| `OrderContract` | what checkout promises a customer | |
| `OrderSaga` | order's handlers, reaper and manual endpoints with relay, inventory's and payment's consumers around them | `OrderContract` |
| `OrderSagaProofs` | its theorems | |
| `StockContract` | what inventory promises the saga | |
| `Inventory` | reserve and release with Redis locks, transactions, indexes | `StockContract` |
| `InventoryProofs` | its theorems | |
| `DeliveryContract` | what the shared consumer promises a handler | |
| `KafkaConsumer` | consumer group, retries, dead letters, offsets, deduplication | `DeliveryContract` |
| `KafkaConsumerProofs` | its theorems | |
| `OutboxContract` | what an outbox promises the consumers of its topic | |
| `OutboxRelay` | timer, advisory lock, batches, marks, back-off | `OutboxContract` |
| `OutboxRelayProofs` | its theorems | |
| `ChargeContract` | what payment promises the saga | |
| `ChargeWorkflow` | the commands, Temporal workflow and reply activity of one charge | `ChargeContract` |
| `ChargeWorkflowProofs` | its theorems | |
| `ReadModelContract` | what catalog promises readers of a restaurant | |
| `Catalog` | a restaurant and its items: commands, outbox, read model, cache | `ReadModelContract` |
| `CatalogProofs` | its theorems | |
| `DriverAssignment` | drivers, sockets and the assignment of orders to them | |
| `PlaceOrder` | `POST /orders`: idempotency keys, prices, the transaction | |
| `OrderPartitions` | the monthly partitions of `orders`, their migrations and maintenance | |
| `ReviewRatings` | reviews of one restaurant and the rating events they publish | |
| `RatingViews` | that restaurant in catalog's read model and in the search index | |
| `Notification` | the rows, jobs and failures of one event's notifications | |
| `MediaUpload` | one upload and its thumbnail | |
| `GatewayEdge` | rate limiter and circuit breaker | |
| `Settings` | settings, their change events and a client's cache | |
| `Provisioning` | tenants and users in Keycloak and Postgres | |
| `OrdersFact` | the table of order facts and its dashboards | |
| `MCServices` | the eleven modules above, side by side | `DriverAssignment`; the others |
| `OrderServicesProofs` | theorems about `PlaceOrder`, `OrderPartitions`, `ReviewRatings`, `RatingViews` and `OrdersFact` | `MCServices` |
| `SupportServicesProofs` | theorems about `DriverAssignment`, `Notification`, `MediaUpload`, `GatewayEdge`, `Settings` and `Provisioning` | `MCServices` |
| other `MC*` | symmetry sets and constants for TLC | |

The models fit together along their contracts. `OrderSaga` takes inventory's
effects as atomic steps: `Inventory` implements `StockContract`, where they are.
It takes the outbox as a prefix that is relayed in order and may be repeated:
`OutboxRelay` implements `OutboxContract`. It takes a message as handled in log
order, again after a disturbance, and once by its event id: `KafkaConsumer`
implements `DeliveryContract`. And it takes payment as one that decides a charge once
and replies with that verdict: `ChargeWorkflow` implements `ChargeContract`.

### OrderSaga

All rows and partitions are per order, since Kafka keys by aggregate id. One
action is one handler's transaction.

| Actions | Code |
|---|---|
| `PlaceOrder`, `CancelOrder`, `ReleaseAfterCancel`, `ConfirmOrder` | `application/order/commands/*.handler.ts` |
| `RelayPublish`, `RelayMark`, `RelayRestart` | one drain of order's relay, see `OutboxRelay` |
| `ReserveEffect`, `ReleaseEffect`, `ReplyToCommand`, `InventoryRestart` | `inventory-command.consumer.ts`: the effect commits first, the reply and the processed event in a second transaction |
| `StartCharge`, `RepeatPaymentReply`, `IgnoreCharge`, `FinishCharge`, `FailCharge` | `payment-command.consumer.ts`, `temporal-workflow-gateway.adapter.ts`, `charge-workflow.ts` |
| `HandleStockReserved`, `HandleSagaCancellation`, `HandlePaymentSucceeded`, `HandlePaymentFailed`, `Ignore*` | `handle-inventory-reply.handler.ts`, `handle-payment-reply.handler.ts` |
| `ReaperRead`, `ReaperRedrive`, `ReaperSkip`, `ReplaySaga` | `saga-reaper.provider.ts`, `saga-reconciler.ts`, `saga-admin.controller.ts` |
| `DeadLetter*` | a message given up after its retries |

Abstractions. Time is left out: a timeout, a lease or the reaper's age threshold
may pass at any moment. The reply outboxes of inventory and payment are folded
into their reply topics, whose messages may come again (`Disturb`). The rows of
one order are numbered by commit, while the relay sorts by `created_at`; the two
agree per order because every transaction that writes such a row first waits for
the order's saga row. The reaper's advisory lock is the single `reading` per
order. Requests that are refused before they touch state are not actions. `manual` is
the model's own note that an order was decided by hand and whether the gRPC release
of its stock is still due; the properties use it to leave such orders out where the
code gives no promise for them. Cancelling or confirming by hand changes the order
row only: the saga's next reply is refused by the order and dead-lettered, and every
re-drive meets the same refusal until its budget is spent; a confirmation by hand does
not ask for the charge. `OrderContract` has both as `DecideByHand`.

### Inventory

A call is one execution of `ReserveStockHandler` or `ReleaseStockHandler`,
whichever of command consumer or gRPC started it. `pc` follows it through
`RedisDistributedLock.withLocks` (keys in order, back-off with all locks freed,
deadline, owner-checked release) and through its transaction, one statement an
action. A transaction's writes are kept with the call (`taken`, `written`,
`returned`) until it commits or is discarded; PostgreSQL's row locks and unique
index make other calls wait. `Expire` ends a lock under its holder. Items are
numbers in the order of their lock keys; an item without a stock row has no
stock. The fencing counter is issued and never checked by the code, so it is left
out. A fault is an expiry, a Redis or database error, or a killed process.

### KafkaConsumer

One partition, a group whose members may both believe they own it. A member
fetches at its position, decodes, marks the event processed and works in one
transaction, retries up to `MaxAttempts`, dead-letters, and commits offset + 1.
`Assign` moves the partition at any time; the old owner goes on with what it has
in hand. External are the broker and the client library: `eachMessage` that
throws is sought back, one that returns is not. A disturbance is a crash, a
rebalance of a busy member or a failed commit; an outage is a dead letter that
cannot be written (`unwritten`). `origin` is where the group began: with
`fromBeginning` false, the default, a group without a committed offset starts at the
end of the log, so every assignment before the first commit moves `origin` up, past
what an earlier member had fetched and not finished. `DeliveryContract` promises
nothing of the messages below it.

### OutboxRelay

The rows of one key and one topic, the relays of all replicas. `Place` names
where a tick is: timer armed, asking for the lock, draining, its fetching
transaction open (row locks held, `SKIP LOCKED` for others), producing, unlocking.
`LoseSession` breaks the database connection that holds the advisory lock; the
drain, which uses other connections, goes on. A batch that fails leaves a prefix
of its rows in Kafka. `start()` is called once per process. Not modelled: an
unlock that fails on a session that lives on. `stop()` clears a pending timer only: called
during a tick it finds a timer that has fired, and the tick's end arms a new one, so
the relay ticks on until the process exits.

### ChargeWorkflow

One order's workflow, the `ChargePayment` commands that start it or find it there, and
the webhooks that signal it. Temporal is external: one workflow per id
(`REJECT_DUPLICATE`), activities handed out again after a failure or a timeout, up to
`maximumAttempts`. An attempt that timed out may be running still and commit beside a
later one, or after the workflow failed: `emission` has a place for every attempt. A
signal to a workflow that does not run is dropped. A replay after a worker's crash
takes the same steps again and is no action. `Decisions` holds every result the
workflow's code handles; the charge activity of today never returns `pending`, which
its test doubles do. Not modelled: Stripe's signature check, which precedes
the signal and keeps no state.

### Catalog

One restaurant and the ids its items may have. A row is its state and version: the
content is the one that version was written with. A command is what it read (by then
perhaps old) and then its transaction; `DeleteRestaurant` is three steps, because it
lists its items in one statement, deletes rows in others and writes its outbox rows
last. `log` is the topic, an aggregate at a time: Debezium publishes an aggregate's
outbox rows in commit order, while restaurant and items are on partitions of their own,
which the projector reads independently (`pos`). That each event is applied once is
`KafkaConsumer`'s business; here an event may be dead-lettered (`skipped`), or come
again and repeat only its cache step, as the handler does. `at` and `held` are the steps
of those who write the cache: `syncRestaurantCache` after the event of either
projector, and `cacheAside` of a request, which has loaded and not stored yet. A soft
deletion changes the row's version too; nothing reads it afterwards, so the model's
version stays. Items' events leave the cache alone. Left out: the value of a rating, the cached
list of restaurants (time to live 5 s), the backfill script, the audit log.

What the model shows besides its properties, as the code is: a request that loaded
before an eviction stores after it, so Redis tells of a deleted restaurant until the
time to live ends
(`plans/260725-2139-food-delivery-microservices/phase-07c-cache-strategies.md:78` says
"An inactive/deleted restaurant is evicted, never served stale from cache."); "no such row" is cached as well; and an item created
between the check of its restaurant, or the listing, and the restaurant's deletion stays
in the read model, since no event announces its deletion. `ListedItemsVanish` is
therefore about listed items, and `ViewsCatchUp` needs `Expire`.

### DriverAssignment

One tenant. The Lua scripts `CLAIM_FIRST_FREE` and `RELEASE_ORDER` are atomic (`Claim`,
`Release`); what goes before them is not: a member of the consumer group reads the
tenant's drivers who are online (`StartConfirmed`) and claims one later (`AssignDriver`). The consumer
keeps no record of processed events, so an event may come again, up to `MaxDeliveries`
times, and to two members at once. Positions only order the candidates; any order is
possible. `OnLocation` is the WebSocket handler with its limit per second, `Drop` the
loss of a connection and `HandleDisconnect` the server's later notice of it.

What the model shows besides its property: the late notice of an old socket removes a
driver who reconnected from the geo set until the next location, and only a cancelled
order is released, which never was confirmed and so never had a driver. A driver is
busy for ever after the first order
(`plans/260725-2139-food-delivery-microservices/phase-04b-delivery-realtime-tracking.md:9`
says "`OrderCancelled` now releases the assignment"). An order that finds no driver is not tried again.

### PlaceOrder

One user's requests. `FindOrderId` looks the key up, `CreateOrder` has catalog's menu and
the settings and computes the amounts, `SaveKey` inserts the key and waits for an open
transaction that has it, `CommitOrder` commits order, saga and `ReserveStock` row
together. Who loses the race reads the winner's order (`ResolveConcurrentClaim`). What
catalog and the settings answer may change with every call: `Menus` and `Pricings`. An amount beyond
`MaxMoney` stands for one its column refuses. `OrderSaga!PlaceOrder` begins where this ends.

### OrderPartitions

`CopyRows`, `CompareCounts` and `SwapToPartitioned` are the statements of the
migration's one transaction; orders are placed and moved on between them until the swap
takes its lock. `EnsureUpcomingPartitions` and `EnsurePartition` are the maintenance of a
process, which may stop or find a month that has rows in DEFAULT. `SwapBack` is `down()`.
`raced` notes the rows a migration missed, and `PartitionsKeepOrders` speaks of all
others: an order committed after the count and before the lock is dropped with the old
table, and a change of status after the copy is undone, since the counts still agree
(`plans/260725-2139-food-delivery-microservices/phase-07a-orders-partitioning.md` asks for
"migrating the existing rows without loss"). Re-adding the foreign key of `order_items`
keeps `down()` from losing inserted orders in the same way.

### ReviewRatings and RatingViews

A rating is modelled by the set of orders whose reviews it counts. A submission saves,
aggregates and commits at read committed, so neither of two that overlap may count
the other; the row's `created_at` is the begin of its transaction, and the relay sends in
that order. `overlapped` notes such a case, and `RatingsCountReviews` says that
otherwise the last rating published counts every review.

`RatingViews` begins with the two topics that catalog and search consume independently.
A rating sets one field and carries no version: before the restaurant is known it finds
no row (`missed`). Search keeps no record of processed events, so one applied late (`late`)
puts an older rating back, or brings a deleted document back:
`elasticsearch-restaurant-search.repository.ts:39-69` compares versions in neither
update, while `plans/260725-2139-food-delivery-microservices/phase-04a-search-elasticsearch.md:7`
claims an "External-version guard (occurredAt epoch) against resurrection".
`CaughtUpViewsAgree` is about behaviours in which neither happened.

### Notification and MediaUpload

`Notification` follows one event: a consumer creates a row per channel and the processed
event in one transaction, then queues a job for each; a redelivery finds what is still
pending. Worker and handler of BullMQ's `failed` event are separate (`failures`): the
handler of an attempt may run after the next attempt has sent. `RowTellsTheTruth` says
what a row's status still means then, `NoNotificationForgotten` that what no provider has
accepted still has its job or its event.

`MediaUpload` follows one upload: the client may put the object several times, two
requests complete it, each acting on the row it read first, and a job with the upload's id
makes the thumbnail. TypeORM's `save` is two steps, for requests and worker alike: a
select (`SelectUploaded`, `SelectReady`), and an update of the columns that differ from
what was selected (`SaveUploaded`, `SaveReady`, by `Saved`). So a save may set a READY row
back, with its thumbnail key or without, depending on what it selected; `overtaken` notes
that. Any call to Postgres, MinIO or Redis may fail, and its answer may be lost
(`FailCompletion`, `FailThumbnail`); a stop of the service loses requests and the attempt
of a job.

`CompletedIsProcessed` is what the code keeps: a client that was told that its upload is
complete has its thumbnail or a job, and the row is READY or has its job unless it was set
back. A job that fails for good counts as one there: it stays in Redis (`removeOnFail: false`), and BullMQ
ignores an addition with its id. `CompletedEndsReady` is what the repository's texts
say, and it is violated (section 4).

### GatewayEdge, Settings, Provisioning

`GatewayEdge`: a hit is `INCR`, then `TTL` or `EXPIRE`, then the call through opossum's
breaker, with the window's end, other requests and a stop of the process between any
two. A counter left without an expiry is given one by the next hit, and
`EdgeRecovers` rests on that.

`Settings`: an entry is saved, then announced, or not, if Kafka fails (`LoseChange`); a
reader of the client fetches and then stores; the consumer evicts between the two.
`StaleIsEnding` says that a stale entry is about to be evicted, was stored by a read
that was under way, or lost its announcement, and then ends with its time to live. apps/config reads the tenant's
entry and the global one in two queries at once, which the model takes together (`Resolve`):
a pair that mixes two moments is cached as an older value is, by a read that was under way
during the changes. `Enforced` is the verification of identities that
`libs/shared/tenancy` does where it has a key.

`Provisioning`: user and role in Keycloak, the link in Postgres, and both compensations.
A mishap is an answer lost after its effect, or a stop. Nobody is left half provisioned
unless a mishap happened or the compensation failed, which the caller is told.

### OrdersFact

Every delivery inserts a row with its own `ingested` time; `Merge` drops rows another of
the same order replaces. The queries read `FINAL` (`Final`), which leaves those out
whether merged or not. A sum counts units (`SumOf`), so that it is a cardinality and needs
no recursion; `Best` are the restaurants that `ORDER BY` and `LIMIT` leave, ties broken
either way. `DashboardsCountOnce` compares the three dashboards with the events and with
each other. An order from before its restaurant was a column has none (`Nowhere`): it counts
in summary and series, and not among the top restaurants.

### MCServices

These eleven share no state. `running` chooses one of them at the start, and the others
rest, so that the run explores the sum of their instances. A property of the run is the
type invariant of a module and its property, where that module runs.

## 3. Runs

Every pass run exhausts its instance. Bounds count faults, not steps.

| Run | Instance | Shows |
|---|---|---|
| `saga_faults` | 1 order, 1 re-drive, both manual endpoints, 1 disturbance, fair | the rows of order, saga, charge and hold agree; one verdict; the outbox follows the saga; compensation releases the hold; `OrderContract` is implemented; every saga nobody overtook by hand ends or is escalated |
| `inventory_calls` | 3 calls, 2 orders, 2 scarce items, 2 faults | stock is conserved, reservations are whole and last, locks exclude, `StockContract` is implemented |
| `inventory_answers` | 3 calls, 1 order, 2 items, 2 faults, fair | every call is answered |
| `consumer` | 2 members, 3 messages of 3 events, one undecodable, 1 disturbance, 1 outage, fair | nothing below the offset is unsettled; `DeliveryContract` is implemented; an event takes effect once; every message takes effect or is buried |
| `relay` | 2 replicas, 2 rows, batches of 2, 1 fault, 1 lost session, 1 stop, fair | one drain at a time and rows in order until the session is lost; what is marked was produced; every row is produced and marked; the back-off is bounded |
| `charge` | 2 commands, 2 attempts an activity, 2 faults, 2 webhooks, fair | the workflow replies once and first; no reply contradicts another; `ChargeContract` is implemented; a started charge is answered or its attempts ran out |
| `catalog` | 1 restaurant, 1 item, 2 commands, 1 reading request, 1 rating, 1 fault, fair | events are histories; listed items vanish; `ReadModelContract` is implemented; read model and cache catch up |
| `services` | the eleven modules from `DriverAssignment` to `OrdersFact`, bounds below | a driver has one order, for good; no notification is forgotten, and its row is true; a completed upload is processed; ratings count reviews; read sides and dashboards agree with events; a key places one order; migrations keep orders; the edge recovers; stale settings end; no user is orphaned in silence |
| `saga_dangling_hold` | 1 order, 1 re-drive, no fault | violation, section 4 |
| `consumer_loses_letter` | 2 members, 2 messages, 1 outage | violation, section 4 |
| `charge_exhausted` | 1 command, 2 attempts, 2 faults, fair | violation, section 4 |
| `media_set_back` | 2 requests, 1 upload, 5 attempts, no stop | violation, section 4 |

Why the bounds are enough to be of use. Sagas share nothing but the reaper, which
handles one at a time, so one order shows what one order can do. One re-drive already
meets its own original; a disturbance, a re-drive and a customer's cancellation at
any moment overlap in every order. Three calls on two orders allow two releases of
one order, or a replay beside a rival for its items; two faults let both locks of one
call expire. Three messages contain a repeated event at any place, also across the
hand-over of the partition. Two commands make every pair of update, creation and
deletion overlap; three actors write the cache. Two rows in one batch let a batch fail half-way. What
remains true for every size is the business of section 5.

The bounds of `services` are the smallest in which each of its hazards happens: two of
every kind of concurrent actor (consumers, requests, submitters, hits, editors), which
are the same two model values and interchangeable; 2 drivers, orders and deliveries; 2
channels, 2 attempts and a crash; 2 uploads and attempts and a stop; 3 reviewed orders in
4 submissions; 2 ratings, an update and a late event; 2 keys for 3 orders, with amounts
that fit and that do not; a limit of 1 and 2 windows; a tenant beside the global owner
and 2 changes; 3 provisioning calls, so that two names and slugs collide, and a mishap; 2
orders over 2 days in 3 events and 3 rows; 2 orders, 3 months and 2 migrations.

Fairness, and why the code justifies it.

- `OrderSaga`: the relay re-arms after every drain (shown by `EveryRowPublished`),
  consumers poll, Temporal runs its workflows, the reaper's `setInterval` never
  stops. `ReaperRead` has strong fairness: a saga may leave and re-enter the
  reaper's reach, and each sweep visits every stranded saga.
- `Inventory`: a call's steps run on; `TimeOut` has strong fairness since a call
  may alternate between locking and backing off while its deadline passes; a lock
  expires by its TTL; PostgreSQL detects deadlocks.
- `KafkaConsumer`: a member's handler runs on; an orphan partition is assigned.
- `OutboxRelay`: Node fires timers and runs ticks on; a dead replica is started.
- `ChargeWorkflow`: a handler runs on; Temporal's timer ends the wait; a worker takes
  the awaited attempt and ends it, unless a fault does. An attempt Temporal gave up
  need never end.

- `Catalog`: consumers poll, who began to load stores or evicts, keys expire. Commands
  need not go on.

The services of `MCServices` are checked for safety only and state no fairness; what
must happen eventually is stated there as somebody being left who is going to do it
(`NoNotificationForgotten`, `CompletedIsProcessed`, `EdgeRecovers`, `StaleIsEnding`).

Failures are never fair: they may happen or not, within their bound.

## 4. Findings

Four runs are expected to end in a violation; each contradicts a text of the
repository. `PROJECT.json` quotes it.

- `saga_dangling_hold`: a `ReserveStock` whose first delivery failed for lack of
  stock and is delivered again by a re-drive runs its effect again. If stock came
  back meanwhile it is reserved for an order already cancelled; nobody releases it.
- `consumer_loses_letter`: if the dead letter cannot be written, the message is left
  uncommitted, but `eachMessage` returns, and the next commit passes it over.
- `charge_exhausted`: when an activity's attempts run out the workflow fails, and nothing
  replies. A repeated command finds a workflow that is not completed and does nothing,
  so the saga is not compensated: it waits until its re-drives are spent.
- `media_set_back`: two calls complete an upload. One read the row while it was PENDING
  and saves it after the other's job has made it READY: the row is UPLOADED again. Its
  own addition of a job is ignored as long as the finished one is in Redis. Both
  calls are answered, and nothing makes the row READY until somebody completes the
  upload once more. The 5 attempts keep the other way out of reach: with
  `MaxJobAttempts = 3`, as in the code, TLC finds the same invariant violated by a job that failed for
  good and is kept, so that a later call is answered but enqueues nothing, where
  `plans/260725-2139-food-delivery-microservices/phase-04c-media-minio-uploads.md:77` says
  "re-complete re-enqueues (jobId dedup)".

Another is in `Settings` and needs one read: the settings client sends roles and a tenant
without a signature (`settings-client.ts:34`), so services that verify identities answer
401, and every setting falls back to the caller's default with a warning in the log (`Authorized`;
`SettingTakesEffect` fails with `Enforced = TRUE`), where
`plans/260725-2139-food-delivery-microservices/phase-06a-config-service-and-client.md:21`
has the next order reflect a change.

The other divergences met while modelling are part of the models and named in
section 2: sagas stranded by a decision by hand, the start of a group that died before
its first commit, `stop()` during a tick, a deleted restaurant or an orphaned item
that catalog goes on showing, drivers who stay busy, rows that race with the
migration, and ratings and late events that overwrite newer ones.

## 5. Theorems

Assumptions are the named `ASSUME`s of the modules (bounds are natural numbers,
`Nobody` is not a member, every order needs something, and so on), which TLC
evaluates in the runs, and what a theorem states itself. Nothing else is assumed.

**OrderSaga.** `SagaInv` is inductive, with and without the manual endpoints. The checked invariants alone are not: that a
confirmed order is charged follows from what each saga state implies
(`StatusFits`, `ChargeFits`: before `STOCK_RESERVED` there is no charge anywhere, not
even as a row; replies tell the workflow's outcome), that it is held from
`HoldFits` (no release exists in outbox, topic or reply before compensation), and
the re-drive budget from `BudgetFits` (a reaper in mid-sweep has budget left).
From it: `TypeCorrect`, `VerdictsAgree`, `VerdictIsUnique`, `ConfirmationIsBacked`,
`CancellationIsFree`, `OutboxFollowsSaga` and, step by step, `ImplementsContract`: a
charge is decided only while the saga is at `STOCK_RESERVED`, where the order is
reserved or was decided by hand.
`CompensationIsComplete` (for `CompensationReleasesHold`) needs more than states: the
order of commands. `CompensationInv` says that in the outbox every reservation comes before
every release, that, however often rows are published again, the partition ends in a
release or one is still ahead of the relay, and that after a release has been handled
only a reservation behind it can hold stock again.

**Inventory.** `InventoryInv` adds to the invariants what an open transaction has
written (`ReserveFits`, `ReleaseFits`), which rows exist, and who may hold which lock
(`LocksFit`). Conservation is then a count: the units of ACTIVE rows plus available
stock, corrected by what open transactions have taken and returned. From it:
`InventoryTypeCorrect` (stock never negative), `StockConserved`, `WholeOrNothing`,
`LocksExclude`, `ReservationLasts`, `ImplementsStockContract`. The first three hold
although locks expire: the guarded UPDATE and the unique index carry them.

**KafkaConsumer.** `EffectInv` ties processed events, open transactions and effects:
`TypeCorrect`, `SingleEffect`. `ConsumerInv` adds that no position or offset runs ahead of
what is settled since `origin`, which only grows and not after the first commit:
`NoGaps`, `ImplementsDelivery`. They hold for both values of `fromBeginning` and any
number of outages, because an unwritten dead letter counts as given up there.

**OutboxRelay.** `RelayInv`: what a drain has sent is in Kafka, so what it marks is,
however many drains run: `TypeCorrect`, `NoRowIsLost`. `OrderInv` adds, until a session is
lost, that exactly the holder of the lock drains, so nothing is locked when it
fetches, and a batch of the oldest rows has no gaps: `DrainsExclude`,
`ImplementsOutbox`.

**ChargeWorkflow.** `ChargeInv` adds which step goes with which result (`StepFits`), that
no attempt was picked up before there is an outcome (`EmissionsFit`), and that the
order's processed event and its first reply are one fact (`RepliesFit`): `TypeCorrect`,
`SpeaksFirst`, `ImplementsChargeContract`, for any number of commands and attempts.

**Catalog.** `CatalogInv` ties a row to its log (`RowsFit`: a live row's version is the
length of its log, which has no deletion), says what a command may rely on
since it read (`CallsFit`: nobody else has the id of an item to be created, what was
listed exists, and once the deletion is over ends its log with a deletion), and that the
read model has no row whose last projected event is a deletion (`ViewsFit`). A
transaction only ever extends a log by a deletion or the next version (`Extends`), and
all else follows from that: `TypeCorrect`, `EventsAreHistory`, `ListedVanish`,
`ImplementsReadModel`, for any items, requests, ratings and faults.

**The services around.** `OrderServicesProofs` and `SupportServicesProofs` extend
`MCServices`, because the properties that the run `services` checks are defined there. Each
service has two theorems: one about its own module's `Spec`, for every value of the
constants that meets its assumptions, and one, named `...Service`, that where it is the
service that runs in `ServicesSpec` the checked property holds (`KeyPlacesOneOrder`,
`NotificationsAreTrue`, and so on, with the types); views and analytics share
`ReadSidesService`. Both rest on the same inductive invariant: a
step of `ServicesNext` is a step of the service that runs (`Turns`) and that service's step
is one of its module. The inductive invariants:

- `DeliveryInv` adds to `DriverHasOneOrder` that only confirmed orders have a driver or are
  in a member's hands (`ClaimsAreConfirmed`) and which sockets have a driver:
  `DeliveryTypeCorrect`, `OneOrderPerDriver`, and, since a release then finds nothing,
  `AssignmentsAreFinal`, for any number of consumers and deliveries.
- `NotificationInv` says, channel by channel, that what no provider has accepted is a job
  in Redis or in the hands of a consumer that will not settle before it is queued
  (`ChannelFits`, `DispatchFits`), and that a failure event is of a job that is there, or
  whose message got through after all, and once parked has its dead letter (`FailureFits`): `NoNotificationLost`.
- `MediaInv` says what a completing request may believe of the row it read and of the one
  its save selected (`ReadFits`), that only the worker makes a row READY, which was not
  when its save selected it, and that a worker about to drop its job has the thumbnail and
  a READY row, unless one was set back (`MakerFits`): `UploadsAreProcessed`.
- `EdgeInv`: every request is in a window that has begun, so a new window has refused
  nobody: `GatewayRecovers`.
- `SettingsInv` extends `StaleIsEnding` from the cache to what readers hold on its way there
  (`ReadsAreEnding`): `StaleValuesEnd`. `EffectInv` proves `UnsignedSettingsTakeEffect`, which
  assumes `~Enforced`: that settings fall back to defaults is due to the signature alone.
- `AuthInv`: how far a call is says which of user, role and link there are
  (`AdminFits`): `OrphansAreKnown`.
- `PlaceInv` adds what a call may believe at each step (`CallsFollowClaims`) and that one
  call at a time has a key inserted and not committed (`OneClaimant`):
  `PlaceTypeCorrect`, where every stored amount fits its column, and `OneOrderPerKey`, for
  any requests, carts, menus and prices.
- `PartitionsInv` says that a row in the migration's copy that it has not missed is there as
  it is (`CopyFits`), and that maintenance that met no error has made the
  partitions of its month and the next (`MaintenanceFits`, `EnsuredHavePartitions`):
  `NoOrderLost`. The migration compares counts, which tell a copy that lacks a row from
  one that does not only where the rows are finitely many; the theorem assumes
  `IsFiniteSet(OrderRows)`.
- `ReviewInv`: an open submission has counted its own review and committed ones, and as long
  as none overlapped it is the only one and has counted all (`AloneFits`, `NewestCounts`):
  `EveryReviewCounts`.
- `ViewsInv` strengthens `CaughtUpViewsAgree` to views that did not catch up yet: each shows
  the state after the events it has applied (`ViewFits`): `ViewsShowTheEvents`.
- `FactInv`: an order has one verdict however often it is announced, a row tells the verdict of
  its order, rows differ in when they were ingested, and of every order the newest row
  is there, which no merge drops (`NewestIsThere`): `DashboardsCountOrders`. Its rows and the
  announced orders are then in bijection (`RowsMatchOrders`), and equal terms have equal sums
  (`SumOfImages`); the days and the restaurants split the rows into groups, and the sums of
  the groups add up (`SumOfGroups`); among finitely many restaurants there are some with the
  highest revenues, so that `Best` is what its text says (`GreatestExists`, `BestFits`). That
  all restaurants fit under the limit takes finitely many orders: `IsFiniteSet(Placed)` is
  assumed. With `ViewService` it gives `ReadSidesService`, all of `ReadSidesAgree`.

### What is only model-checked

Liveness (`SagaSettles`, `EveryCallAnswered`, `EventuallySettled`, `EveryRowPublished`,
`EveryChargeAnswered`, `ViewsCatchUp`): the prover has no rules for fairness and ENABLED.
Every invariant and every action property of a passing run is stated by a theorem.

## 6. What is left

The order of the work was: what moves money and stock; the messaging under it; the
read side; the services around. Worth adding, in this order:

1. A composition of the saga with the reply outboxes unfolded, two relays and their
   order by `created_at`.
2. Liveness of the job queues under BullMQ's fairness.

### Not modelled

- `libs/shared/` contracts, errors, health, jwt, logging, observability, tenancy and
  config: message types, mappings and request context, without state of their own. Where
  tenancy decides something it is a constant (`Settings`' `Enforced`).
- The gateway's token guard, its pass-through of sessions to Keycloak and its
  routes: they keep nothing.
- Query endpoints; the routing of reads to replicas, on which no decision rests.
- Catalog's cached list of restaurants, its backfill script and its audit log.
- End-to-end suites, seed data, load scripts, dashboards, compose files, manifests.

About a sixth of the implementation's lines are mapped. The rest is largely
without a state change to model: tests are the largest part of the repository, and
what remains beside the handlers above is wiring of modules, transfer objects, entity
mappers, accessors, HTTP and gRPC plumbing, telemetry and tools.
