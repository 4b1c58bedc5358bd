---------------------------- MODULE OrdersFact ----------------------------
(***************************************************************************)
(* apps/analytics: order.events into ClickHouse's orders_fact, and the     *)
(* three dashboards read from it.  There is no ledger of processed events: *)
(* every delivery inserts a row, background merges keep the newest row of  *)
(* an order, and until they ran the queries must leave out the others.     *)
(*                                                                         *)
(* One tenant: the table's key and every query carry the tenant.  Kafka    *)
(* and ClickHouse are external; the user of an order is in no answer.      *)
(***************************************************************************)
EXTENDS Integers, Sequences, FiniteSetsExt, Functions

CONSTANTS
  Placed,     \* the orders that are announced
  Total,      \* what each is worth
  Sellers,    \* and the restaurant of each
  Nowhere,    \* the empty restaurant_id: of orders from before the column, too
  MaxDay,     \* bound on the days a behaviour spans
  MaxEvents,  \* bound on the events published
  MaxRows     \* bound on the rows inserted

FactBounds ==
  /\ MaxDay \in Nat /\ MaxEvents \in Nat /\ MaxRows \in Nat
  /\ Total \in [Placed -> Nat] /\ DOMAIN Sellers = Placed

VARIABLES
  day,        \* today
  published,  \* order.events
  consumed,   \* committed offset of the group analytics-order-events
  refused,     \* offsets dead-lettered after every retry failed
  inserted,   \* how many rows were ever inserted: the newest's ingested_at
  table       \* orders_fact: the rows no merge has removed

topicVars == <<day, published>>
groupVars == <<consumed, refused>>
tableVars == <<inserted, table>>
vars == <<topicVars, groupVars, tableVars>>

EventType == {"OrderPlaced", "OrderConfirmed", "OrderCancelled"}

FactRow ==
  [order : Placed, restaurant : Range(Sellers) \cup {Nowhere}, total : Range(Total),
   status : {"CONFIRMED", "CANCELLED"}, day : 0..MaxDay, ingested : 1..MaxRows]

Init ==
  /\ day = 0 /\ published = <<>>
  /\ consumed = 0 /\ refused = {}
  /\ inserted = 0 /\ table = {}

-----------------------------------------------------------------------------
(* The order service announces an order and, once, its verdict; its relay  *)
(* may publish a row of the outbox again, with the time it carries.        *)

Decided(o) == \E e \in Range(published) : e.order = o /\ e.type # "OrderPlaced"

Announce(type, o) ==
  /\ Len(published) < MaxEvents
  /\ type # "OrderPlaced" => ~Decided(o)
  /\ published' = Append(published, [type |-> type, order |-> o, occurred |-> day])
  /\ UNCHANGED <<day, groupVars, tableVars>>

AnnounceAgain ==
  /\ Len(published) < MaxEvents
  /\ \E e \in Range(published) : published' = Append(published, e)
  /\ UNCHANGED <<day, groupVars, tableVars>>

DayEnds ==
  /\ day < MaxDay
  /\ day' = day + 1
  /\ UNCHANGED <<published, groupVars, tableVars>>

-----------------------------------------------------------------------------
(* Ingestion.                                                              *)

Delivered == published[consumed + 1]

\* OrderConfirmed names its restaurant, OrderCancelled does not.
RowOf(e) ==
  [order |-> e.order, total |-> Total[e.order], day |-> e.occurred,
   status     |-> IF e.type = "OrderConfirmed" THEN "CONFIRMED" ELSE "CANCELLED",
   restaurant |-> IF e.type = "OrderConfirmed" THEN Sellers[e.order] ELSE Nowhere,
   ingested   |-> inserted + 1]

Write(row) ==
  /\ inserted < MaxRows
  /\ inserted' = inserted + 1
  /\ table' = table \cup {row}

Commit == consumed' = consumed + 1

\* A placed order is passed over.  A row is written before the offset commits:
\* the event comes again when the consumer stops, or the answer is lost, between.
Handle ==
  /\ consumed < Len(published)
  /\ IF Delivered.type = "OrderPlaced"
     THEN Commit /\ UNCHANGED tableVars
     ELSE Write(RowOf(Delivered)) /\ (Commit \/ UNCHANGED consumed)
  /\ UNCHANGED <<topicVars, refused>>

\* ClickHouse refused the row, or its answers were lost, in every attempt.
ParkEvent ==
  /\ consumed < Len(published) /\ Delivered.type # "OrderPlaced"
  /\ Commit /\ refused' = refused \cup {consumed'}
  /\ UNCHANGED <<topicVars, tableVars>>

\* ReplacingMergeTree(ingested_at): a merge drops the older of two rows of a key.
Merge ==
  /\ \E old, new \in table :
       /\ old.order = new.order /\ old.ingested < new.ingested
       /\ table' = table \ {old}
  /\ UNCHANGED <<topicVars, groupVars, inserted>>

Next ==
  \/ \E type \in EventType, o \in Placed : Announce(type, o)
  \/ AnnounceAgain \/ DayEnds
  \/ Handle \/ ParkEvent \/ Merge

Spec == Init /\ [][Next]_vars

-----------------------------------------------------------------------------
(* The dashboards.                                                         *)

\* Mutant: FROM orders_fact, without FINAL.
EveryRow == table

\* FROM orders_fact FINAL: of every key the newest row.
Final == {row \in table : \A other \in table : other.order = row.order => other.ingested <= row.ingested}

\* parseDateRange: any other range is a bad request.
ValidRange(from, to) == from <= to

Rows(status, from, to) == {row \in Final : row.status = status /\ row.day \in from..to}

\* sum(): of the numbers f[x] there are, a sum counts the units.
Units(f) == UNION {{x} \X (1..f[x]) : x \in DOMAIN f}
SumOf(f) == Cardinality(Units(f))

Point(rows) ==
  [revenueCents |-> SumOf([row \in rows |-> row.total]), orderCount |-> Cardinality(rows)]

Summary(from, to) ==
  [revenueCents   |-> Point(Rows("CONFIRMED", from, to)).revenueCents,
   confirmedCount |-> Cardinality(Rows("CONFIRMED", from, to)),
   cancelledCount |-> Cardinality(Rows("CANCELLED", from, to))]

\* GROUP BY day.
RevenueSeries(from, to) ==
  LET rows == Rows("CONFIRMED", from, to)
  IN  [d \in {row.day : row \in rows} |-> Point({row \in rows : row.day = d})]

Named(rows) == {row.restaurant : row \in rows}
At(r, rows) == Point({row \in rows : row.restaurant = r})

\* ORDER BY revenue_cents DESC LIMIT: ties are broken freely.
Best(rows, limit) ==
  CHOOSE some \in SUBSET Named(rows) :
    /\ Cardinality(some) = Min({limit, Cardinality(Named(rows))})
    /\ \A r \in some, other \in Named(rows) \ some :
         At(r, rows).revenueCents >= At(other, rows).revenueCents

\* GROUP BY restaurant_id.
TopRestaurants(from, to, limit) ==
  LET rows == {row \in Rows("CONFIRMED", from, to) : row.restaurant # Nowhere}
  IN  [r \in Best(rows, limit) |-> At(r, rows)]

-----------------------------------------------------------------------------
(* The state is what the declarations say.                                 *)
TypeOK ==
  /\ day \in 0..MaxDay
  /\ published \in Seq([type : EventType, order : Placed, occurred : 0..MaxDay])
  /\ consumed \in 0..Len(published)
  /\ refused \in SUBSET (1..Len(published))
  /\ inserted \in 0..MaxRows
  /\ table \in SUBSET FactRow

\* What was consumed and not dead-lettered is in the table; what was dead-lettered,
\* or is being consumed, may be.
Ingested == {published[i] : i \in (1..consumed) \ refused}
Doubtful == {published[i] : i \in DOMAIN published \cap (refused \cup {consumed + 1})}

Announced(events, type, from, to) ==
  {e.order : e \in {f \in events : f.type = type /\ f.occurred \in from..to}}

Revenue(points) == SumOf([p \in DOMAIN points |-> points[p].revenueCents])

\* The dashboards tell of these events, and agree with each other.
ShowEvents(events, from, to) ==
  LET confirmed == Announced(events, "OrderConfirmed", from, to)
      summary == Summary(from, to)
      top == TopRestaurants(from, to, 1)
      all == TopRestaurants(from, to, Cardinality(Placed))
  IN  /\ summary.revenueCents = SumOf([o \in confirmed |-> Total[o]])
      /\ summary.confirmedCount = Cardinality(confirmed)
      /\ summary.cancelledCount = Cardinality(Announced(events, "OrderCancelled", from, to))
      /\ Revenue(RevenueSeries(from, to)) = summary.revenueCents
      /\ Revenue(all) = SumOf([o \in {o \in confirmed : Sellers[o] # Nowhere} |-> Total[o]])
      /\ \A r \in DOMAIN top : top[r] = all[r]

\* However often events were published, delivered and inserted, and whatever
\* merges ran, the dashboards count every ingested order once, at the time of
\* its verdict, and agree with each other.
DashboardsCountOnce ==
  \E some \in SUBSET Doubtful :
    \A from \in 0..MaxDay, to \in 0..MaxDay :
      ValidRange(from, to) => ShowEvents(Ingested \cup some, from, to)
=============================================================================
