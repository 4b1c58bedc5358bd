------------------------ MODULE OrderServicesProofs -------------------------
(***************************************************************************)
(* Proofs about the services that keep orders, their reviews and facts:    *)
(* the placing of orders, the partitions of their table, the ratings, the  *)
(* two views that show them, and the dashboards.  Each is proved for any   *)
(* values of its constants, in its module's Spec and where MCServices runs *)
(* it.                                                                     *)
(*                                                                         *)
(* Whatever names an operator of a service's module has its letter before  *)
(* it: P for PlaceOrder, T for OrderPartitions, R for ReviewRatings, V for *)
(* RatingViews and F for OrdersFact.                                       *)
(***************************************************************************)
EXTENDS MCServices, FiniteSetTheorems, FunctionTheorems, TLAPS

\* Each step belongs to the service that runs, which stays the same.
LEMMA Turns ==
  ASSUME [ServicesNext]_allVars
  PROVE  /\ running' = running
         /\ running = "order" => OrderSteps \/ UNCHANGED allVars
         /\ running = "partitions" => PartitionSteps \/ UNCHANGED allVars
         /\ running = "review" => ReviewSteps \/ UNCHANGED allVars
         /\ running = "views" => ViewSteps \/ UNCHANGED allVars
         /\ running = "analytics" => AnalyticsSteps \/ UNCHANGED allVars
<1>1. Delivery => running = "delivery" /\ running' = running
  BY DEF Delivery, Only
<1>2. NotificationSteps => running = "notification" /\ running' = running
  BY DEF NotificationSteps, Only
<1>3. MediaSteps => running = "media" /\ running' = running
  BY DEF MediaSteps, Only
<1>4. ReviewSteps => running = "review" /\ running' = running
  BY DEF ReviewSteps, Only
<1>5. ViewSteps => running = "views" /\ running' = running
  BY DEF ViewSteps, Only
<1>6. OrderSteps => running = "order" /\ running' = running
  BY DEF OrderSteps, Only
<1>7. GatewaySteps => running = "gateway" /\ running' = running
  BY DEF GatewaySteps, Only
<1>8. SettingsSteps => running = "settings" /\ running' = running
  BY DEF SettingsSteps, Only
<1>9. AuthSteps => running = "auth" /\ running' = running
  BY DEF AuthSteps, Only
<1>10. AnalyticsSteps => running = "analytics" /\ running' = running
  BY DEF AnalyticsSteps, Only
<1>11. PartitionSteps => running = "partitions" /\ running' = running
  BY DEF PartitionSteps, Only
<1>12. CASE UNCHANGED allVars
  BY <1>12 DEF allVars
<1> QED
  BY <1>1, <1>2, <1>3, <1>4, <1>5, <1>6, <1>7, <1>8, <1>9, <1>10, <1>11, <1>12 DEF ServicesNext

-----------------------------------------------------------------------------
(* PlaceOrder.  KeyPlacesOneOrder rests on what a call may believe: one    *)
(* that inserted the key is the only one and nobody has committed it, one  *)
(* that lost it finds the winner's order, and one that loads or has placed *)
(* an order holds the one that the key claims.                             *)

\* What each call knows is still so.
CallsFollowClaims ==
  \A r \in Requests :
    /\ call[r].pc # "IDLE" => call[r].key \in Keys
    /\ call[r].pc \in {"BEGIN", "CLAIMED"} => call[r].id \in P!OrderIds
    /\ call[r].pc = "CLAIMED" => claims[call[r].key] = NoOrder
    /\ call[r].pc = "LOST" => claims[call[r].key] # NoOrder
    /\ call[r].pc \in {"PLACED", "LOAD"} => /\ call[r].id = claims[call[r].key]
                                            /\ call[r].id # NoOrder

\* The unique index lets one open transaction have a key.
OneClaimant ==
  \A q, r \in Requests :
    call[q].pc = "CLAIMED" /\ call[r].pc = "CLAIMED" /\ call[q].key = call[r].key => q = r

\* The inductive invariant.
PlaceInv == P!TypeOK /\ P!KeyPlacesOneOrder /\ CallsFollowClaims /\ OneClaimant

\* What a call is doing.
CallRecord ==
  [pc : {"IDLE", "BUILD", "BEGIN", "CLAIMED", "PLACED", "LOST", "LOAD"},
   key : Keys \cup {NoOrder}, cart : Carts \cup {<<>>},
   id : P!OrderIds \cup {NoOrder}, amounts : P!AmountRecord]

\* Amounts of no order.
LEMMA NothingFits == ASSUME P!MoneyAssumption PROVE P!Nothing \in P!AmountRecord
BY DEF P!MoneyAssumption, P!Nothing, P!AmountRecord

\* The record of a call that is not there.
LEMMA NoCallFits == ASSUME P!MoneyAssumption PROVE P!NoCall \in CallRecord /\ P!NoCall.pc = "IDLE"
BY NothingFits DEF P!NoCall, CallRecord

\* What a call that starts, moves on or ends may do while the tables stay.
LEMMA CallStep ==
  ASSUME PlaceInv, NEW r \in Requests, NEW c \in CallRecord,
         call' = [call EXCEPT ![r] = c],
         UNCHANGED P!tables, drawn' \in 0..MaxOrders,
         answered' \in [Keys -> SUBSET (P!OrderIds \cup {NoOrder})],
         \A k \in Keys : answered'[k] \subseteq answered[k] \cup ({claims[k]} \ {NoOrder}),
         c.pc # "IDLE" => c.key \in Keys,
         c.pc \in {"BEGIN", "CLAIMED"} => c.id \in P!OrderIds,
         c.pc = "CLAIMED" => /\ claims[c.key] = NoOrder
                             /\ \A q \in Requests : ~(call[q].pc = "CLAIMED" /\ call[q].key = c.key),
         c.pc = "LOST" => claims[c.key] # NoOrder,
         c.pc \in {"PLACED", "LOAD"} => c.id = claims[c.key] /\ c.id # NoOrder
  PROVE  PlaceInv'
<1>1. \A q \in Requests : call'[q] = IF q = r THEN c ELSE call[q]
  BY DEF PlaceInv, P!TypeOK
<1>2. call' \in [Requests -> CallRecord]
  BY DEF PlaceInv, P!TypeOK, CallRecord
<1>3. P!TypeOK'
  BY <1>2 DEF PlaceInv, P!TypeOK, CallRecord, P!tables
<1>4. P!KeyPlacesOneOrder'
  BY DEF PlaceInv, P!KeyPlacesOneOrder, P!tables
<1>5. claims' = claims
  BY DEF P!tables
<1>6. CallsFollowClaims'
  BY <1>1, <1>5 DEF PlaceInv, CallsFollowClaims
<1>7. OneClaimant'
  BY <1>1 DEF PlaceInv, OneClaimant
<1> QED
  BY <1>3, <1>4, <1>6, <1>7 DEF PlaceInv

\* The invariant holds at the start.
LEMMA PlaceInit == ASSUME P!MoneyAssumption, P!Init PROVE PlaceInv
<1>1. P!TypeOK
  BY NoCallFits DEF P!Init, P!TypeOK, CallRecord, P!MoneyAssumption
<1>2. P!KeyPlacesOneOrder
  BY DEF P!Init, P!KeyPlacesOneOrder
<1>3. CallsFollowClaims /\ OneClaimant
  BY NoCallFits DEF P!Init, CallsFollowClaims, OneClaimant
<1> QED
  BY <1>1, <1>2, <1>3 DEF PlaceInv

\* Nothing was added to the answers.
LEMMA SameAnswers ==
  ASSUME PlaceInv, UNCHANGED answered
  PROVE  /\ answered' \in [Keys -> SUBSET (P!OrderIds \cup {NoOrder})]
         /\ \A k \in Keys : answered'[k] \subseteq answered[k] \cup ({claims[k]} \ {NoOrder})
BY DEF PlaceInv, P!TypeOK

\* An answer that names the order of the key.
LEMMA AnswerKeeps ==
  ASSUME P!MoneyAssumption, PlaceInv, NEW r \in Requests, call[r].key \in Keys,
         claims[call[r].key] # NoOrder, P!Answer(r, claims[call[r].key]), UNCHANGED <<drawn, P!tables>>
  PROVE  PlaceInv'
<1> DEFINE k == call[r].key
<1>1. claims[k] \in P!OrderIds
  BY DEF PlaceInv, P!TypeOK
<1>2. answered' = [answered EXCEPT ![k] = @ \cup {claims[k]}] /\ call' = [call EXCEPT ![r] = P!NoCall]
  BY DEF P!Answer
<1>3. answered' \in [Keys -> SUBSET (P!OrderIds \cup {NoOrder})]
  BY <1>1, <1>2 DEF PlaceInv, P!TypeOK
<1>4. \A j \in Keys : answered'[j] \subseteq answered[j] \cup ({claims[j]} \ {NoOrder})
  BY <1>2 DEF PlaceInv, P!TypeOK
<1>5. drawn' \in 0..MaxOrders
  BY DEF PlaceInv, P!TypeOK
<1> QED
  BY <1>2, <1>3, <1>4, <1>5, NoCallFits, CallStep

\* The lookup of the key.
LEMMA FindKeeps ==
  ASSUME P!MoneyAssumption, PlaceInv, NEW r \in Requests, NEW k \in Keys, NEW cart \in Carts,
         P!FindOrderId(r, k, cart)
  PROVE  PlaceInv'
<1> DEFINE c == [pc |-> IF claims[k] = NoOrder THEN "BUILD" ELSE "LOAD",
                 key |-> k, cart |-> cart, id |-> claims[k], amounts |-> P!Nothing]
<1>1. claims[k] \in P!OrderIds \cup {NoOrder}
  BY DEF PlaceInv, P!TypeOK
<1>2. c \in CallRecord
  BY <1>1, NothingFits DEF CallRecord
<1>3. call' = [call EXCEPT ![r] = c] /\ UNCHANGED <<P!tables, drawn, answered>>
  BY DEF P!FindOrderId
<1>4. c.pc \in {"BUILD", "LOAD"} /\ (c.pc = "LOAD" => claims[k] # NoOrder) /\ c.key = k /\ c.id = claims[k]
  OBVIOUS
<1>5. drawn' \in 0..MaxOrders
  BY <1>3 DEF PlaceInv, P!TypeOK
<1> HIDE DEF c
<1> QED
  BY <1>2, <1>3, <1>4, <1>5, SameAnswers, CallStep

\* The order is built: an id that was never drawn.
LEMMA CreateKeeps ==
  ASSUME P!MoneyAssumption, PlaceInv, NEW r \in Requests, NEW menu, NEW pricing,
         P!CreateOrder(r, menu, pricing)
  PROVE  PlaceInv'
<1> DEFINE a == P!Amounts(P!Lines(call[r].cart, menu), pricing)
           c == [pc |-> "BEGIN", key |-> call[r].key, cart |-> <<>>, id |-> drawn', amounts |-> a]
<1>1. call[r].pc = "BUILD" /\ P!AmountsFit(a) /\ drawn < MaxOrders /\ drawn' = drawn + 1
  BY DEF P!CreateOrder
<1>2. call' = [call EXCEPT ![r] = c] /\ UNCHANGED <<P!tables, answered>>
  BY DEF P!CreateOrder, PlaceInv, P!TypeOK
<1>3. a \in P!AmountRecord
  BY <1>1 DEF P!Amounts, P!AmountsFit, P!AmountRecord, P!Fits
<1>4. drawn' \in 0..MaxOrders /\ drawn' \in P!OrderIds
  BY <1>1 DEF PlaceInv, P!TypeOK, P!MoneyAssumption, P!OrderIds
<1>5. call[r].key \in Keys
  BY <1>1 DEF PlaceInv, CallsFollowClaims
<1> HIDE DEF a
<1>6. c \in CallRecord
  BY <1>3, <1>4, <1>5 DEF CallRecord
<1>7. c.pc = "BEGIN" /\ c.key \in Keys /\ c.id \in P!OrderIds
  BY <1>4, <1>5
<1> HIDE DEF c
<1> QED
  BY <1>2, <1>4, <1>6, <1>7, SameAnswers, CallStep

\* The record of a call that moves on.
LEMMA CallMoved ==
  ASSUME PlaceInv, NEW r \in Requests, NEW pc \in {"CLAIMED", "LOST", "PLACED", "LOAD"},
         call[r].pc # "IDLE"
  PROVE  LET c == [call[r] EXCEPT !.pc = pc]
         IN  /\ c \in CallRecord /\ c.pc = pc
             /\ c.key = call[r].key /\ c.id = call[r].id /\ c.key \in Keys
<1>1. call[r] \in CallRecord
  BY DEF PlaceInv, P!TypeOK, CallRecord
<1>2. call[r].key \in Keys
  BY DEF PlaceInv, CallsFollowClaims
<1> QED
  BY <1>1, <1>2 DEF CallRecord

\* The key is inserted, or the insertion loses.
LEMMA SaveKeeps ==
  ASSUME P!MoneyAssumption, PlaceInv, NEW r \in Requests, P!SaveKey(r)
  PROVE  PlaceInv'
<1> DEFINE pc == IF claims[call[r].key] = NoOrder THEN "CLAIMED" ELSE "LOST"
           c == [call[r] EXCEPT !.pc = pc]
<1>1. call[r].pc = "BEGIN" /\ call[r].id \in P!OrderIds
  BY DEF P!SaveKey, PlaceInv, CallsFollowClaims
<1>2. call' = [call EXCEPT ![r] = c] /\ UNCHANGED <<P!tables, drawn, answered>>
  BY DEF P!SaveKey, PlaceInv, P!TypeOK
<1>3. /\ c \in CallRecord /\ c.pc = pc
      /\ c.key = call[r].key /\ c.id = call[r].id /\ c.key \in Keys
  BY <1>1, CallMoved
<1>4. \A q \in Requests : ~(call[q].pc = "CLAIMED" /\ call[q].key = c.key)
  BY <1>3 DEF P!SaveKey
<1>5. pc \in {"CLAIMED", "LOST"} /\ (pc = "CLAIMED" => claims[c.key] = NoOrder)
        /\ (pc = "LOST" => claims[c.key] # NoOrder)
  BY <1>3
<1>6. drawn' \in 0..MaxOrders
  BY <1>2 DEF PlaceInv, P!TypeOK
<1> HIDE DEF c, pc
<1> QED
  BY <1>1, <1>2, <1>3, <1>4, <1>5, <1>6, SameAnswers, CallStep

\* Who lost the key reads who won it.
LEMMA ResolveKeeps ==
  ASSUME P!MoneyAssumption, PlaceInv, NEW r \in Requests, P!ResolveConcurrentClaim(r)
  PROVE  PlaceInv'
<1> DEFINE k == call[r].key
           c == [call[r] EXCEPT !.pc = "LOAD", !.id = claims[k]]
<1>1. call[r].pc = "LOST" /\ k \in Keys /\ claims[k] # NoOrder
  BY DEF P!ResolveConcurrentClaim, PlaceInv, CallsFollowClaims
<1>2. call' = [call EXCEPT ![r] = c] /\ UNCHANGED <<P!tables, drawn, answered>>
  BY <1>1 DEF P!ResolveConcurrentClaim, PlaceInv, P!TypeOK
<1>3. call[r] \in CallRecord /\ claims[k] \in P!OrderIds \cup {NoOrder}
  BY <1>1 DEF PlaceInv, P!TypeOK, CallRecord
<1>4. c \in CallRecord /\ c.pc = "LOAD" /\ c.key = k /\ c.id = claims[k]
  BY <1>3 DEF CallRecord
<1>5. drawn' \in 0..MaxOrders
  BY <1>2 DEF PlaceInv, P!TypeOK
<1> HIDE DEF c, k
<1> QED
  BY <1>1, <1>2, <1>4, <1>5, SameAnswers, CallStep

\* A call fails.
LEMMA FailKeeps ==
  ASSUME P!MoneyAssumption, PlaceInv, NEW r \in Requests, P!FailPlacement(r)
  PROVE  PlaceInv'
<1>1. call' = [call EXCEPT ![r] = P!NoCall] /\ UNCHANGED <<P!tables, drawn, answered>>
  BY DEF P!FailPlacement
<1>2. drawn' \in 0..MaxOrders
  BY <1>1 DEF PlaceInv, P!TypeOK
<1> QED
  BY <1>1, <1>2, NoCallFits, SameAnswers, CallStep

\* Who answers holds the order that the key claims.
LEMMA AnswersKeep ==
  ASSUME P!MoneyAssumption, PlaceInv, NEW r \in Requests, P!AnswerPlaced(r) \/ P!LoadExisting(r)
  PROVE  PlaceInv'
<1>1. /\ call[r].key \in Keys /\ call[r].id = claims[call[r].key] /\ call[r].id # NoOrder
      /\ UNCHANGED <<drawn, P!tables>>
  BY DEF P!AnswerPlaced, P!LoadExisting, PlaceInv, CallsFollowClaims
<1>2. \E o \in orders : o.id = call[r].id
  BY <1>1 DEF PlaceInv, P!KeyPlacesOneOrder
<1>3. P!Answer(r, claims[call[r].key])
  BY <1>1, <1>2 DEF P!AnswerPlaced, P!LoadExisting
<1> QED
  BY <1>1, <1>3, AnswerKeeps

\* The commit: the key goes from unclaimed to the order that is inserted.
LEMMA CommitKeeps ==
  ASSUME P!MoneyAssumption, PlaceInv, NEW r \in Requests, P!CommitOrder(r)
  PROVE  PlaceInv'
<1> DEFINE k == call[r].key
           id == call[r].id
           o == [id |-> id, key |-> k, amounts |-> call[r].amounts]
           c == [call[r] EXCEPT !.pc = "PLACED"]
<1>1. call[r].pc = "CLAIMED" /\ k \in Keys /\ id \in P!OrderIds /\ claims[k] = NoOrder
  BY DEF P!CommitOrder, PlaceInv, CallsFollowClaims
<1>2. /\ claims' = [claims EXCEPT ![k] = id] /\ orders' = orders \cup {o}
      /\ sagas' = sagas \cup {id} /\ commands' = commands \cup {id}
      /\ call' = [call EXCEPT ![r] = c] /\ UNCHANGED <<drawn, answered>>
  BY DEF P!CommitOrder, PlaceInv, P!TypeOK
<1>3. c \in CallRecord /\ c.pc = "PLACED" /\ c.key = k /\ c.id = id
  BY <1>1, CallMoved
<1>4. o \in P!OrderRecord /\ o.id = id /\ o.key = k
  BY <1>1 DEF PlaceInv, P!TypeOK, P!OrderRecord
<1>5. id # NoOrder
  BY <1>1 DEF P!OrderIds, P!MoneyAssumption
<1> HIDE DEF c, o, k, id
<1>6. \A j \in Keys : claims'[j] = IF j = k THEN id ELSE claims[j]
  BY <1>1, <1>2 DEF PlaceInv, P!TypeOK
<1>7. \A q \in Requests : call'[q] = IF q = r THEN c ELSE call[q]
  BY <1>2 DEF PlaceInv, P!TypeOK
<1>8. P!TypeOK'
  <2>1. call' \in [Requests -> CallRecord]
    BY <1>2, <1>3 DEF PlaceInv, P!TypeOK, CallRecord
  <2>2. claims' \in [Keys -> P!OrderIds \cup {NoOrder}]
    BY <1>1, <1>2 DEF PlaceInv, P!TypeOK
  <2> QED
    BY <1>1, <1>2, <1>4, <2>1, <2>2 DEF PlaceInv, P!TypeOK, CallRecord
<1>9. P!KeyPlacesOneOrder'
  <2>1. \A p \in orders' : claims'[p.key] = p.id
    <3>1. \A p \in orders : p.key \in Keys /\ p.id \in P!OrderIds /\ claims[p.key] = p.id
      BY DEF PlaceInv, P!TypeOK, P!OrderRecord, P!KeyPlacesOneOrder
    <3>2. \A p \in orders : p.key # k
      BY <1>1, <3>1 DEF P!OrderIds, P!MoneyAssumption
    <3> QED
      BY <1>1, <1>2, <1>4, <1>6, <3>1, <3>2
  <2>2. \A j \in Keys : claims'[j] # NoOrder =>
          /\ \E p \in orders' : p.id = claims'[j] /\ p.key = j
          /\ claims'[j] \in sagas' \cap commands'
    BY <1>2, <1>4, <1>6 DEF PlaceInv, P!KeyPlacesOneOrder
  <2>3. \A j \in Keys : answered'[j] \subseteq {claims'[j]} \ {NoOrder}
    BY <1>1, <1>2, <1>6 DEF PlaceInv, P!KeyPlacesOneOrder
  <2> QED
    BY <2>1, <2>2, <2>3 DEF P!KeyPlacesOneOrder
<1>10. OneClaimant'
  BY <1>3, <1>7 DEF PlaceInv, OneClaimant
<1>11. CallsFollowClaims'
  <2> SUFFICES ASSUME NEW q \in Requests
               PROVE  /\ call'[q].pc # "IDLE" => call'[q].key \in Keys
                      /\ call'[q].pc \in {"BEGIN", "CLAIMED"} => call'[q].id \in P!OrderIds
                      /\ call'[q].pc = "CLAIMED" => claims'[call'[q].key] = NoOrder
                      /\ call'[q].pc = "LOST" => claims'[call'[q].key] # NoOrder
                      /\ call'[q].pc \in {"PLACED", "LOAD"} => /\ call'[q].id = claims'[call'[q].key]
                                                               /\ call'[q].id # NoOrder
    BY DEF CallsFollowClaims
  <2>1. CASE q = r
    BY <2>1, <1>1, <1>3, <1>5, <1>6, <1>7
  <2>2. CASE q # r
    <3>1. call'[q] = call[q]
      BY <2>2, <1>7
    <3>2. call[q].pc = "CLAIMED" => call[q].key # k
      BY <2>2, <1>1 DEF PlaceInv, OneClaimant, k
    <3>3. call[q].pc \in {"PLACED", "LOAD"} => call[q].key # k
      BY <1>1 DEF PlaceInv, CallsFollowClaims
    <3> QED
      BY <3>1, <3>2, <3>3, <1>5, <1>6 DEF PlaceInv, CallsFollowClaims
  <2> QED
    BY <2>1, <2>2
<1> QED
  BY <1>8, <1>9, <1>10, <1>11 DEF PlaceInv

\* Every step keeps the invariant.
LEMMA PlaceStep == ASSUME P!MoneyAssumption, PlaceInv, [P!Next]_(P!vars) PROVE PlaceInv'
<1>1. ASSUME NEW r \in Requests, P!Place(r) PROVE PlaceInv'
  BY <1>1, FindKeeps, CreateKeeps, SaveKeeps, CommitKeeps, AnswersKeep, ResolveKeeps, FailKeeps DEF P!Place
<1>2. CASE UNCHANGED P!vars
  BY <1>2 DEF PlaceInv, P!TypeOK, P!KeyPlacesOneOrder, CallsFollowClaims, OneClaimant, P!vars, P!tables
<1> QED
  BY <1>1, <1>2 DEF P!Next

\* The types and the rest at once.
LEMMA PlaceKept == ASSUME PlaceInv PROVE P!TypeOK /\ P!KeyPlacesOneOrder
BY DEF PlaceInv

\* Calls and tables are of their types: what PlaceOrderHandler stores fits the
\* columns of orders and order_items.
THEOREM PlaceTypeCorrect == ASSUME P!MoneyAssumption PROVE P!Spec => []P!TypeOK
<1>1. P!Init => PlaceInv
  BY PlaceInit
<1>2. PlaceInv /\ [P!Next]_(P!vars) => PlaceInv'
  BY PlaceStep
<1>3. PlaceInv => P!TypeOK
  BY PlaceKept
<1> QED
  BY <1>1, <1>2, <1>3, PTL DEF P!Spec

\* An idempotency key places one order and every answer names it, for any
\* number of overlapping, failing and repeated calls of POST /orders.
THEOREM OneOrderPerKey == ASSUME P!MoneyAssumption PROVE P!Spec => []P!KeyPlacesOneOrder
<1>1. P!Init => PlaceInv
  BY PlaceInit
<1>2. PlaceInv /\ [P!Next]_(P!vars) => PlaceInv'
  BY PlaceStep
<1>3. PlaceInv => P!KeyPlacesOneOrder
  BY PlaceKept
<1> QED
  BY <1>1, <1>2, <1>3, PTL DEF P!Spec

\* What order does here it does in its module.
LEMMA PlaceTurn ==
  ASSUME running = "order", [ServicesNext]_allVars
  PROVE  [P!Next]_(P!vars)
<1>1. CASE OrderSteps
  BY <1>1 DEF OrderSteps, P!Next, P!Place
<1>2. CASE UNCHANGED allVars
  BY <1>2 DEF allVars, placeVars, P!vars, P!tables
<1> QED
  BY <1>1, <1>2, Turns

\* The same of the service that MCServices runs, with the types.
THEOREM OrderService == ServicesSpec => []KeyPlacesOneOrder
<1> DEFINE Inv == running = "order" => PlaceInv
<1>1. ServicesInit => Inv
  BY PlaceInit, ServicesAssumption DEF ServicesInit
<1>2. Inv /\ [ServicesNext]_allVars => Inv'
  <2> SUFFICES ASSUME Inv, [ServicesNext]_allVars, running' = "order" PROVE PlaceInv'
    OBVIOUS
  <2>1. running = "order"
    BY Turns
  <2> QED
    BY <2>1, PlaceStep, PlaceTurn, ServicesAssumption
<1>3. Inv => KeyPlacesOneOrder
  BY PlaceKept DEF KeyPlacesOneOrder
<1> QED
  BY <1>1, <1>2, <1>3, PTL DEF ServicesSpec

-----------------------------------------------------------------------------
(* OrderPartitions.  A migration knows what its copy misses: a row that is *)
(* in the copy and was not missed is there as it is, and what came after   *)
(* the count is missed.  Maintenance that met no error has made the        *)
(* partitions of its month and the next, and rows in DEFAULT have none.    *)

\* The count of the model is that of the theorems about finite sets.
LEMMA SameCount == \A U : T!Cardinality(U) = Cardinality(U)
BY DEF T!Cardinality, Cardinality

\* An order that was never placed is nowhere.
UnplacedIsAbsent ==
  \A r \in OrderRows \ items :
    ordersTable[r] = T!Absent /\ written[r] = T!Absent /\ migration.copy[r] = T!Absent

\* A migration knows which rows its copy no longer holds as they are.
CopyFits ==
  /\ \A r \in T!Present(migration.copy) :
       /\ r \in T!Present(ordersTable)
       /\ r \notin migration.missed => migration.copy[r] = ordersTable[r]
  /\ migration.stage = "COUNTED" /\ layout = "PLAIN" =>
       T!Present(ordersTable) \subseteq T!Present(migration.copy) \cup migration.missed
  /\ migration # T!NoMigration => swaps < MaxSwaps

\* A maintenance that met no error has the partitions of the months behind it.
MaintenanceFits(p) ==
  /\ Len(jobs[p].left) = 2 => jobs[p].left[1] = jobs[p].now /\ jobs[p].left[2] = jobs[p].now + 1
  /\ Len(jobs[p].left) = 1 => /\ jobs[p].left[1] = jobs[p].now + 1
                              /\ jobs[p].clean => jobs[p].now \in partitions
  /\ Len(jobs[p].left) \in 0..2

\* What was ensured has its partitions, and a row in DEFAULT has none.
EnsuredHavePartitions ==
  /\ \A m \in ensured : m \in partitions /\ m + 1 \in partitions
  /\ \A r \in strays : r \in items /\ ordersTable[r].month \notin partitions

\* The inductive invariant.
PartitionsInv ==
  /\ T!TypeOK /\ T!PartitionsKeepOrders
  /\ UnplacedIsAbsent /\ CopyFits /\ EnsuredHavePartitions
  /\ \A p \in Processes : MaintenanceFits(p)

\* What the maintenance of a process is doing.
MaintenanceJob == [now : 0..MaxMonth, left : Seq(T!Months), clean : BOOLEAN]
\* What a migration is doing.
MigrationRecord == [stage : {"NONE", "COPIED", "COUNTED"}, copy : [OrderRows -> T!OrderRow],
              months : SUBSET T!Months, missed : SUBSET OrderRows]

\* The records of what is not there.
LEMMA EmptyTablesFit ==
  ASSUME T!PartitionBounds
  PROVE  /\ T!Absent \in T!OrderRow /\ T!NoRows \in [OrderRows -> T!OrderRow] /\ T!Present(T!NoRows) = {}
         /\ T!NoJob \in MaintenanceJob /\ T!NoJob.left = <<>> /\ Len(T!NoJob.left) = 0
         /\ T!NoMigration \in MigrationRecord /\ T!NoMigration.copy = T!NoRows /\ T!NoMigration.stage = "NONE"
         /\ \A r \in OrderRows : T!NoRows[r] = T!Absent
<1>1. T!Absent \in T!OrderRow
  BY DEF T!PartitionBounds, T!Absent, T!OrderRow
<1>2. /\ T!NoRows \in [OrderRows -> T!OrderRow] /\ T!Present(T!NoRows) = {}
      /\ \A r \in OrderRows : T!NoRows[r] = T!Absent
  BY <1>1 DEF T!NoRows, T!Present
<1>3. T!NoJob \in MaintenanceJob /\ T!NoJob.left = <<>> /\ Len(T!NoJob.left) = 0
  BY DEF T!PartitionBounds, T!NoJob, MaintenanceJob
<1>4. T!NoMigration \in MigrationRecord /\ T!NoMigration.copy = T!NoRows /\ T!NoMigration.stage = "NONE"
  BY <1>2 DEF T!NoMigration, MigrationRecord
<1> QED
  BY <1>1, <1>2, <1>3, <1>4

\* The invariant holds at the start.
LEMMA PartitionsInit == ASSUME T!PartitionBounds, T!Init PROVE PartitionsInv
<1> USE EmptyTablesFit
<1>1. T!TypeOK
  <2>1. jobs \in [Processes -> MaintenanceJob] /\ migration \in MigrationRecord
    BY DEF T!Init
  <2>2. month \in 0..MaxMonth /\ swaps \in 0..MaxSwaps
    BY DEF T!Init, T!PartitionBounds
  <2> QED
    BY <2>1, <2>2 DEF T!Init, T!TypeOK, MaintenanceJob, MigrationRecord
<1>2. \A p \in Processes : MaintenanceFits(p)
  BY DEF T!Init, MaintenanceFits
<1>3. T!PartitionsKeepOrders /\ UnplacedIsAbsent /\ EnsuredHavePartitions
  BY DEF T!Init, T!PartitionsKeepOrders, T!OrdersOutliveMigrations, T!StraysWereUnforeseen,
     UnplacedIsAbsent, EnsuredHavePartitions
<1>4. CopyFits
  BY DEF T!Init, CopyFits
<1> QED
  BY <1>1, <1>2, <1>3, <1>4 DEF PartitionsInv

\* The types.
LEMMA PartitionFacts ==
  ASSUME T!PartitionBounds, PartitionsInv
  PROVE  /\ MaxMonth \in Nat /\ MaxSwaps \in Nat /\ month \in 0..MaxMonth /\ swaps \in 0..MaxSwaps
         /\ ordersTable \in [OrderRows -> T!OrderRow] /\ written \in [OrderRows -> T!OrderRow]
         /\ items \in SUBSET OrderRows /\ layout \in {"PLAIN", "PARTITIONED"}
         /\ partitions \in SUBSET T!Months /\ strays \in SUBSET OrderRows
         /\ jobs \in [Processes -> MaintenanceJob] /\ ensured \in SUBSET (0..MaxMonth)
         /\ migration \in MigrationRecord /\ raced \in SUBSET OrderRows
BY DEF T!PartitionBounds, PartitionsInv, T!TypeOK, MaintenanceJob, MigrationRecord

\* The type invariant of the next state, with the names of the records.
LEMMA PartitionTypes ==
  ASSUME /\ month' \in 0..MaxMonth /\ swaps' \in 0..MaxSwaps
         /\ ordersTable' \in [OrderRows -> T!OrderRow] /\ written' \in [OrderRows -> T!OrderRow]
         /\ items' \in SUBSET OrderRows /\ layout' \in {"PLAIN", "PARTITIONED"}
         /\ partitions' \in SUBSET T!Months /\ strays' \in SUBSET OrderRows
         /\ jobs' \in [Processes -> MaintenanceJob] /\ ensured' \in SUBSET (0..MaxMonth)
         /\ migration' \in MigrationRecord /\ raced' \in SUBSET OrderRows
  PROVE  T!TypeOK'
BY DEF T!TypeOK, MaintenanceJob, MigrationRecord

\* A step of the service: one row changes, and a migration that is under way
\* notes it if it has missed it.
LEMMA RowStep ==
  ASSUME T!PartitionBounds, PartitionsInv, NEW r \in OrderRows, NEW row \in T!OrderRow,
         T!Put(r, row), row # T!Absent, items' = items \cup {r},
         strays' \in SUBSET OrderRows,
         strays' \subseteq strays \cup {r},
         r \in strays' => /\ row.month \notin partitions
                          /\ {row.month - 1, row.month} \cap ensured = {},
         \/ migration' = migration
         \/ migration # T!NoMigration /\ migration' = [migration EXCEPT !.missed = @ \cup {r}],
         r \in T!Present(migration.copy) => r \in migration'.missed,
         migration.stage = "COUNTED" /\ layout = "PLAIN" => r \in migration'.missed,
         UNCHANGED <<month, layout, partitions, T!jobVars, raced, swaps>>
  PROVE  PartitionsInv'
<1> USE PartitionFacts DEF T!jobVars
<1>1. \A q \in OrderRows : /\ ordersTable'[q] = IF q = r THEN row ELSE ordersTable[q]
                           /\ written'[q] = IF q = r THEN row ELSE written[q]
  BY DEF T!Put
<1>2. /\ migration' \in MigrationRecord /\ migration'.stage = migration.stage
      /\ migration'.copy = migration.copy /\ migration'.missed \in {migration.missed, migration.missed \cup {r}}
  BY DEF MigrationRecord
<1>3. T!TypeOK'
  <2>1. ordersTable' \in [OrderRows -> T!OrderRow] /\ written' \in [OrderRows -> T!OrderRow]
    BY DEF T!Put
  <2> QED
    BY <1>2, <2>1, PartitionTypes
<1>4. UnplacedIsAbsent'
  BY <1>1, <1>2 DEF PartitionsInv, UnplacedIsAbsent
<1>5. CopyFits'
  <2>1. T!Present(migration'.copy) = T!Present(migration.copy) /\ T!Present(ordersTable') = T!Present(ordersTable) \cup {r}
    BY <1>1, <1>2 DEF T!Present
  <2>2. \A q \in T!Present(migration.copy) :
          /\ q \in T!Present(ordersTable')
          /\ q \notin migration'.missed => migration.copy[q] = ordersTable'[q]
    BY <1>1, <1>2, <2>1 DEF PartitionsInv, CopyFits, T!Present
  <2>3. migration'.stage = "COUNTED" /\ layout' = "PLAIN" =>
          T!Present(ordersTable') \subseteq T!Present(migration'.copy) \cup migration'.missed
    BY <1>2, <2>1 DEF PartitionsInv, CopyFits
  <2>4. migration' # T!NoMigration => swaps' < MaxSwaps
    BY DEF PartitionsInv, CopyFits
  <2> QED
    BY <1>2, <2>1, <2>2, <2>3, <2>4 DEF CopyFits
<1>6. EnsuredHavePartitions'
  BY <1>1 DEF PartitionsInv, EnsuredHavePartitions
<1>7. T!OrdersOutliveMigrations'
  BY <1>1 DEF PartitionsInv, T!PartitionsKeepOrders, T!OrdersOutliveMigrations
<1>8. T!StraysWereUnforeseen'
  BY <1>1 DEF PartitionsInv, T!PartitionsKeepOrders, T!StraysWereUnforeseen
<1>9. \A p \in Processes : MaintenanceFits(p)'
  BY DEF PartitionsInv, MaintenanceFits
<1> QED
  BY <1>3, <1>4, <1>5, <1>6, <1>7, <1>8, <1>9 DEF PartitionsInv, T!PartitionsKeepOrders

\* A migration that is under way goes on or is given up; the rows stay.
LEMMA MigrationStep ==
  ASSUME T!PartitionBounds, PartitionsInv, migration' \in MigrationRecord,
         \A r \in OrderRows \ items : migration'.copy[r] = T!Absent,
         CopyFits', UNCHANGED <<month, T!rowVars, T!layoutVars, T!jobVars, raced, swaps>>
  PROVE  PartitionsInv'
<1> USE PartitionFacts DEF T!rowVars, T!layoutVars, T!jobVars
<1>1. T!TypeOK'
  BY PartitionTypes
<1>2. UnplacedIsAbsent'
  BY DEF PartitionsInv, UnplacedIsAbsent
<1>3. EnsuredHavePartitions' /\ T!OrdersOutliveMigrations' /\ T!StraysWereUnforeseen'
  BY DEF PartitionsInv, EnsuredHavePartitions, T!PartitionsKeepOrders, T!OrdersOutliveMigrations,
     T!StraysWereUnforeseen
<1>4. \A p \in Processes : MaintenanceFits(p)'
  BY DEF PartitionsInv, MaintenanceFits
<1> QED
  BY <1>1, <1>2, <1>3, <1>4 DEF PartitionsInv, T!PartitionsKeepOrders

\* The swap: no order is lost but those that the copy has missed.
LEMMA SwapStep ==
  ASSUME T!PartitionBounds, PartitionsInv, NEW to \in {"PLAIN", "PARTITIONED"}, NEW months \in SUBSET T!Months,
         T!Swap(to, months), migration # T!NoMigration, migration' = T!NoMigration,
         \A r \in OrderRows \ (raced \cup migration.missed) : migration.copy[r] = written[r],
         UNCHANGED <<month, items, written>>
  PROVE  PartitionsInv'
<1> USE PartitionFacts, EmptyTablesFit
<1>1. /\ ordersTable' = migration.copy /\ layout' = to /\ partitions' = months /\ strays' = {}
      /\ ensured' = {} /\ raced' = raced \cup migration.missed /\ swaps' = swaps + 1
      /\ jobs' = [p \in Processes |-> [jobs[p] EXCEPT !.clean = FALSE]]
  BY DEF T!Swap
<1>2. /\ migration.copy \in [OrderRows -> T!OrderRow] /\ migration.missed \in SUBSET OrderRows
      /\ swaps' \in 0..MaxSwaps
  BY <1>1 DEF MigrationRecord, PartitionsInv, CopyFits
<1>3. jobs' \in [Processes -> MaintenanceJob] /\ \A p \in Processes : MaintenanceFits(p)'
  <2>1. ASSUME NEW p \in Processes
        PROVE  /\ [jobs[p] EXCEPT !.clean = FALSE] \in MaintenanceJob
               /\ [jobs[p] EXCEPT !.clean = FALSE].left = jobs[p].left
               /\ [jobs[p] EXCEPT !.clean = FALSE].now = jobs[p].now
               /\ ~[jobs[p] EXCEPT !.clean = FALSE].clean
    BY DEF MaintenanceJob
  <2> QED
    BY <1>1, <2>1 DEF PartitionsInv, MaintenanceFits
<1>4. T!TypeOK'
  BY <1>1, <1>2, <1>3, PartitionTypes
<1>5. UnplacedIsAbsent' /\ CopyFits' /\ EnsuredHavePartitions'
  BY <1>1 DEF PartitionsInv, UnplacedIsAbsent, CopyFits, EnsuredHavePartitions
<1>6. T!PartitionsKeepOrders'
  BY <1>1 DEF T!PartitionsKeepOrders, T!OrdersOutliveMigrations, T!StraysWereUnforeseen
<1> QED
  BY <1>3, <1>4, <1>5, <1>6 DEF PartitionsInv

\* Of finitely many orders, a copy with as many rows as the table has them all.
LEMMA EqualCounts ==
  ASSUME IsFiniteSet(OrderRows), T!PartitionBounds, PartitionsInv,
         Cardinality(T!Present(migration.copy)) = Cardinality(T!Present(ordersTable))
  PROVE  T!Present(migration.copy) = T!Present(ordersTable)
<1>1. T!Present(migration.copy) \in SUBSET T!Present(ordersTable)
  BY DEF PartitionsInv, CopyFits
<1>2. IsFiniteSet(T!Present(ordersTable))
  <2>1. T!Present(ordersTable) \in SUBSET OrderRows
    BY DEF T!Present
  <2> QED
    BY <2>1, FS_Subset
<1> QED
  BY <1>1, <1>2, FS_Subset

\* Every step keeps the invariant.
LEMMA PartitionsStep ==
  ASSUME IsFiniteSet(OrderRows), T!PartitionBounds, PartitionsInv, [T!Next]_(T!vars)
  PROVE  PartitionsInv'
<1> USE DEF T!rowVars, T!layoutVars, T!jobVars, T!migrationVars
<1>1. /\ MaxMonth \in Nat /\ MaxSwaps \in Nat /\ month \in 0..MaxMonth /\ swaps \in 0..MaxSwaps
      /\ ordersTable \in [OrderRows -> T!OrderRow] /\ written \in [OrderRows -> T!OrderRow]
      /\ items \in SUBSET OrderRows /\ layout \in {"PLAIN", "PARTITIONED"}
      /\ partitions \in SUBSET T!Months /\ strays \in SUBSET OrderRows
      /\ jobs \in [Processes -> MaintenanceJob] /\ ensured \in SUBSET (0..MaxMonth)
      /\ migration \in MigrationRecord /\ raced \in SUBSET OrderRows
  BY PartitionFacts
<1>2. ASSUME NEW r \in OrderRows, T!InsertOrder(r) PROVE PartitionsInv'
  <2> DEFINE row == [status |-> "PENDING", month |-> month]
  <2>1. row \in T!OrderRow /\ row # T!Absent /\ row.month = month
    BY <1>1 DEF T!OrderRow, T!Absent
  <2>2. /\ r \notin items /\ T!Put(r, row) /\ items' = items \cup {r}
        /\ UNCHANGED <<month, layout, partitions, T!jobVars, raced, swaps>>
    BY <1>2 DEF T!InsertOrder
  <2>3. r \notin strays /\ ordersTable[r] = T!Absent /\ migration.copy[r] = T!Absent
    BY <2>2 DEF PartitionsInv, EnsuredHavePartitions, UnplacedIsAbsent
  <2>4. /\ strays' \in SUBSET OrderRows /\ strays' \subseteq strays \cup {r}
        /\ r \in strays' => month \notin partitions
    BY <1>1, <1>2, <2>3 DEF T!InsertOrder
  <2>5. r \in strays' => {month - 1, month} \cap ensured = {}
    BY <1>1, <2>4 DEF PartitionsInv, EnsuredHavePartitions
  <2>6. r \notin T!Present(migration.copy)
    BY <2>3 DEF T!Present
  <2>7. /\ \/ migration' = migration
           \/ migration # T!NoMigration /\ migration' = [migration EXCEPT !.missed = @ \cup {r}]
        /\ migration.stage = "COUNTED" /\ layout = "PLAIN" => r \in migration'.missed
    <3>1. CASE migration.stage = "COUNTED" /\ layout = "PLAIN"
      <4>1. migration' = [migration EXCEPT !.missed = @ \cup {r}]
        BY <1>2, <3>1 DEF T!InsertOrder
      <4>2. migration # T!NoMigration
        BY <3>1, EmptyTablesFit
      <4>3. r \in migration'.missed
        BY <1>1, <4>1 DEF MigrationRecord
      <4> QED
        BY <4>1, <4>2, <4>3
    <3>2. CASE ~(migration.stage = "COUNTED" /\ layout = "PLAIN")
      BY <1>2, <3>2 DEF T!InsertOrder
    <3> QED
      BY <3>1, <3>2
  <2> HIDE DEF row
  <2> QED
    BY <1>1, <2>1, <2>2, <2>4, <2>5, <2>6, <2>7, RowStep
<1>3. ASSUME NEW r \in OrderRows, T!UpdateStatus(r) PROVE PartitionsInv'
  <2> DEFINE row == [ordersTable[r] EXCEPT !.status = "CANCELLED"]
  <2>1. /\ ordersTable[r] \in T!OrderRow /\ ordersTable[r].status = "PENDING" /\ T!Put(r, row)
        /\ UNCHANGED <<month, items, layout, partitions, strays, T!jobVars, raced, swaps>>
    BY <1>1, <1>3 DEF T!UpdateStatus
  <2>2. row \in T!OrderRow /\ row.status = "CANCELLED" /\ row.month = ordersTable[r].month
    BY <2>1 DEF T!OrderRow
  <2>3. row # T!Absent /\ ordersTable[r] # T!Absent
    BY <2>1, <2>2 DEF T!Absent
  <2>4. r \in T!Present(ordersTable) /\ r \in items
    BY <2>3 DEF T!Present, PartitionsInv, UnplacedIsAbsent
  <2>5. r \in strays => /\ row.month \notin partitions /\ {row.month - 1, row.month} \cap ensured = {}
    BY <2>2 DEF PartitionsInv, EnsuredHavePartitions, T!PartitionsKeepOrders, T!StraysWereUnforeseen
  <2>6. migration' = IF r \in T!Present(migration.copy)
                     THEN [migration EXCEPT !.missed = @ \cup {r}] ELSE migration
    BY <1>3 DEF T!UpdateStatus
  <2>7. /\ \/ migration' = migration
           \/ migration # T!NoMigration /\ migration' = [migration EXCEPT !.missed = @ \cup {r}]
        /\ r \in T!Present(migration.copy) => r \in migration'.missed
    <3>1. CASE r \in T!Present(migration.copy)
      <4>1. migration # T!NoMigration
        BY <3>1, EmptyTablesFit
      <4>2. migration' = [migration EXCEPT !.missed = @ \cup {r}]
        BY <2>6, <3>1
      <4>3. r \in migration'.missed
        BY <1>1, <4>2 DEF MigrationRecord
      <4> QED
        BY <4>1, <4>2, <4>3
    <3>2. CASE r \notin T!Present(migration.copy)
      BY <2>6, <3>2
    <3> QED
      BY <3>1, <3>2
  <2>8. migration.stage = "COUNTED" /\ layout = "PLAIN" => r \in migration'.missed
    <3>1. r \in migration.missed => r \in migration'.missed
      BY <1>1, <2>7 DEF MigrationRecord
    <3> QED
      BY <2>4, <2>7, <3>1 DEF PartitionsInv, CopyFits
  <2> HIDE DEF row
  <2> QED
    BY <1>1, <2>1, <2>2, <2>3, <2>4, <2>5, <2>7, <2>8, RowStep
<1>4. ASSUME T!MonthTurns PROVE PartitionsInv'
  <2>1. T!TypeOK'
    BY <1>1, <1>4, PartitionTypes DEF T!MonthTurns
  <2> QED
    BY <1>4, <2>1 DEF T!MonthTurns, PartitionsInv, T!PartitionsKeepOrders, T!OrdersOutliveMigrations,
       T!StraysWereUnforeseen, UnplacedIsAbsent, CopyFits, EnsuredHavePartitions, MaintenanceFits
<1>5. ASSUME NEW p \in Processes, NEW work \in MaintenanceJob, jobs' = [jobs EXCEPT ![p] = work],
             Len(work.left) \in 0..2,
             Len(work.left) = 2 => work.left[1] = work.now /\ work.left[2] = work.now + 1,
             Len(work.left) = 1 => work.left[1] = work.now + 1 /\ (work.clean => work.now \in partitions'),
             \/ partitions' = partitions
             \/ \E m \in T!Months : T!CanCreate(m) /\ partitions' = partitions \cup {m},
             \/ ensured' = ensured
             \/ \E now \in 0..MaxMonth : /\ ensured' = ensured \cup {now}
                                         /\ now \in partitions' /\ now + 1 \in partitions',
             UNCHANGED <<month, T!rowVars, layout, strays, T!migrationVars>>
      PROVE  PartitionsInv'
  <2>1. \A q \in Processes : jobs'[q] = IF q = p THEN work ELSE jobs[q]
    BY <1>1, <1>5
  <2>2. jobs' \in [Processes -> MaintenanceJob]
    BY <1>1, <1>5
  <2>3. partitions' \in SUBSET T!Months /\ ensured' \in SUBSET (0..MaxMonth) /\ partitions \subseteq partitions'
    BY <1>1, <1>5
  <2>4. T!TypeOK'
    BY <1>1, <1>5, <2>2, <2>3, PartitionTypes
  <2>5. \A q \in Processes : MaintenanceFits(q)'
    BY <1>5, <2>1, <2>3 DEF PartitionsInv, MaintenanceFits
  <2>6. \A r \in strays : r \in items /\ ordersTable[r].month \notin partitions'
    BY <1>5 DEF PartitionsInv, EnsuredHavePartitions, T!CanCreate
  <2>7. EnsuredHavePartitions'
    <3>1. \A m \in ensured' : m \in partitions' /\ m + 1 \in partitions'
      BY <1>5, <2>3 DEF PartitionsInv, EnsuredHavePartitions
    <3> QED
      BY <1>5, <2>6, <3>1 DEF EnsuredHavePartitions
  <2>8. T!StraysWereUnforeseen'
    <3>1. \A r \in strays : ordersTable[r].month \in 0..MaxMonth
      BY <1>1 DEF T!OrderRow
    <3>2. \A m \in ensured' : m \in 0..MaxMonth /\ m \in partitions' /\ m + 1 \in partitions'
      BY <2>3, <2>7 DEF EnsuredHavePartitions
    <3>3. ASSUME NEW r \in strays, NEW m \in ensured'
          PROVE  m # ordersTable[r].month - 1 /\ m # ordersTable[r].month
      <4>1. ordersTable[r].month \in 0..MaxMonth /\ ordersTable[r].month \notin partitions'
        BY <2>6, <3>1
      <4>2. m \in 0..MaxMonth /\ m \in partitions' /\ m + 1 \in partitions'
        BY <3>2
      <4> QED
        BY <1>1, <4>1, <4>2
    <3> QED
      BY <1>5, <3>3 DEF T!StraysWereUnforeseen
  <2> QED
    BY <1>5, <2>4, <2>5, <2>7, <2>8 DEF PartitionsInv, T!PartitionsKeepOrders, T!OrdersOutliveMigrations,
       UnplacedIsAbsent, CopyFits
<1>6. ASSUME NEW p \in Processes, T!EnsureUpcomingPartitions(p) PROVE PartitionsInv'
  <2> DEFINE work == [now |-> month, left |-> T!Upcoming(month), clean |-> TRUE]
  <2>1. /\ T!Upcoming(month) \in Seq(T!Months) /\ Len(T!Upcoming(month)) = 2
        /\ T!Upcoming(month)[1] = month /\ T!Upcoming(month)[2] = month + 1
    BY <1>1 DEF T!Upcoming, T!Months
  <2>2. work \in MaintenanceJob /\ work.left = T!Upcoming(month) /\ work.now = month
    BY <1>1, <2>1 DEF MaintenanceJob
  <2>3. jobs' = [jobs EXCEPT ![p] = work] /\ UNCHANGED <<month, T!rowVars, T!layoutVars, ensured, T!migrationVars>>
    BY <1>6 DEF T!EnsureUpcomingPartitions
  <2> HIDE DEF work
  <2>4. /\ Len(work.left) \in 0..2
        /\ Len(work.left) = 2 => work.left[1] = work.now /\ work.left[2] = work.now + 1
        /\ Len(work.left) = 1 => work.left[1] = work.now + 1 /\ (work.clean => work.now \in partitions')
    BY <2>1, <2>2
  <2>5. partitions' = partitions /\ ensured' = ensured /\ UNCHANGED <<month, T!rowVars, layout, strays, T!migrationVars>>
    BY <2>3 DEF T!layoutVars
  <2> QED
    BY <1>5, <2>2, <2>3, <2>4, <2>5
<1>7. ASSUME NEW p \in Processes, T!StopProcess(p) PROVE PartitionsInv'
  <2>1. /\ jobs' = [jobs EXCEPT ![p] = T!NoJob]
        /\ UNCHANGED <<month, T!rowVars, T!layoutVars, ensured, T!migrationVars>>
    BY <1>7 DEF T!StopProcess
  <2>2. T!NoJob \in MaintenanceJob /\ Len(T!NoJob.left) = 0
    BY EmptyTablesFit DEF T!NoJob
  <2>3. /\ Len(T!NoJob.left) \in 0..2
        /\ Len(T!NoJob.left) = 2 => T!NoJob.left[1] = T!NoJob.now /\ T!NoJob.left[2] = T!NoJob.now + 1
        /\ Len(T!NoJob.left) = 1 => T!NoJob.left[1] = T!NoJob.now + 1 /\ (T!NoJob.clean => T!NoJob.now \in partitions')
    BY <2>2
  <2>4. partitions' = partitions /\ ensured' = ensured /\ UNCHANGED <<month, T!rowVars, layout, strays, T!migrationVars>>
    BY <2>1 DEF T!layoutVars
  <2> QED
    BY <1>5, <2>1, <2>2, <2>3, <2>4
<1>8. ASSUME NEW p \in Processes, T!EnsurePartition(p) PROVE PartitionsInv'
  <2> DEFINE left == jobs[p].left
             m == Head(left)
             rest == Tail(left)
             work == [now |-> jobs[p].now, left |-> rest, clean |-> jobs[p].clean /\ m \in partitions']
  <2>1. /\ left \in Seq(T!Months) /\ jobs[p].now \in 0..MaxMonth /\ jobs[p].clean \in BOOLEAN
        /\ left # <<>>
    BY <1>1, <1>8 DEF MaintenanceJob, T!EnsurePartition
  <2>2. /\ m \in T!Months /\ rest \in Seq(T!Months) /\ m = left[1] /\ Len(rest) = Len(left) - 1
        /\ Len(left) \in Nat /\ Len(left) > 0
        /\ \A i \in 1..Len(rest) : rest[i] = left[i + 1]
    BY <2>1
  <2>3. /\ Len(left) \in 0..2
        /\ Len(left) = 2 => left[1] = jobs[p].now /\ left[2] = jobs[p].now + 1
        /\ Len(left) = 1 => left[1] = jobs[p].now + 1 /\ (jobs[p].clean => jobs[p].now \in partitions)
    BY DEF PartitionsInv, MaintenanceFits
  <2>4. /\ partitions' \in {partitions} \cup IF T!CanCreate(m) THEN {partitions \cup {m}} ELSE {}
        /\ jobs' = [jobs EXCEPT ![p] = work]
        /\ ensured' = IF rest = <<>> /\ jobs'[p].clean THEN ensured \cup {jobs[p].now} ELSE ensured
        /\ UNCHANGED <<month, T!rowVars, layout, strays, T!migrationVars>>
    BY <1>8 DEF T!EnsurePartition
  <2>5. \/ partitions' = partitions
        \/ T!CanCreate(m) /\ partitions' = partitions \cup {m}
    BY <2>4
  <2>6. work \in MaintenanceJob /\ work.now = jobs[p].now /\ work.left = rest
        /\ (work.clean <=> jobs[p].clean /\ m \in partitions')
    BY <2>1, <2>2 DEF MaintenanceJob
  <2> HIDE DEF work, m, rest, left
  <2>7. jobs'[p] = work
    BY <1>1, <2>4
  <2>8. /\ Len(work.left) \in 0..2
        /\ Len(work.left) = 2 => work.left[1] = work.now /\ work.left[2] = work.now + 1
        /\ Len(work.left) = 1 => work.left[1] = work.now + 1 /\ (work.clean => work.now \in partitions')
    <3>1. CASE Len(left) = 1
      <4>1. Len(work.left) = 0
        BY <2>2, <2>6, <3>1
      <4> QED
        BY <4>1
    <3>2. CASE Len(left) = 2
      <4>1. Len(work.left) = 1 /\ 1 \in 1..Len(rest)
        BY <2>2, <2>6, <3>2
      <4>2. m = jobs[p].now /\ work.left[1] = work.now + 1
        BY <2>2, <2>3, <2>6, <3>2, <4>1
      <4>3. work.clean => work.now \in partitions'
        BY <2>6, <4>2
      <4> QED
        BY <4>1, <4>2, <4>3
    <3> QED
      BY <2>2, <2>3, <3>1, <3>2
  <2>9. ensured' = ensured \/ \E now \in 0..MaxMonth : /\ ensured' = ensured \cup {now}
                                                       /\ now \in partitions' /\ now + 1 \in partitions'
    <3>1. CASE rest = <<>> /\ work.clean
      <4>1. Len(left) = 1
        BY <2>2, <3>1
      <4>2. m = jobs[p].now + 1 /\ jobs[p].now \in partitions
        BY <2>2, <2>3, <2>6, <3>1, <4>1
      <4>3. jobs[p].now \in partitions' /\ m \in partitions'
        BY <2>5, <2>6, <3>1, <4>2
      <4>4. ensured' = ensured \cup {jobs[p].now}
        BY <2>4, <2>7, <3>1
      <4>5. jobs[p].now + 1 \in partitions'
        BY <4>2, <4>3
      <4> QED
        BY <2>1, <4>3, <4>4, <4>5, Zenon
    <3>2. CASE ~(rest = <<>> /\ work.clean)
      BY <2>4, <2>7, <3>2
    <3> QED
      BY <3>1, <3>2
  <2> QED
    BY <1>5, <2>2, <2>4, <2>5, <2>6, <2>8, <2>9
<1>9. ASSUME T!CopyRows PROVE PartitionsInv'
  <2> DEFINE months == IF layout = "PLAIN" THEN T!Span ELSE {}
             copied == [stage |-> "COPIED", copy |-> ordersTable, missed |-> {}, months |-> months]
  <2>1. /\ migration' = copied /\ swaps < MaxSwaps
        /\ UNCHANGED <<month, T!rowVars, T!layoutVars, T!jobVars, raced, swaps>>
    BY <1>9 DEF T!CopyRows
  <2>2. months \in SUBSET T!Months
    BY DEF T!Span
  <2> HIDE DEF months
  <2>3. /\ copied \in MigrationRecord /\ copied.stage = "COPIED" /\ copied.copy = ordersTable /\ copied.missed = {}
    BY <1>1, <2>2 DEF MigrationRecord
  <2> HIDE DEF copied
  <2>4. \A r \in OrderRows \ items : migration'.copy[r] = T!Absent
    BY <2>1, <2>3 DEF PartitionsInv, UnplacedIsAbsent
  <2>5. CopyFits'
    BY <2>1, <2>3 DEF CopyFits
  <2> QED
    BY <2>1, <2>3, <2>4, <2>5, MigrationStep
<1>10. ASSUME T!CompareCounts PROVE PartitionsInv'
  <2>1. UNCHANGED <<month, T!rowVars, T!layoutVars, T!jobVars, raced, swaps>> /\ migration.stage = "COPIED"
    BY <1>10 DEF T!CompareCounts
  <2>2. CASE Cardinality(T!Present(migration.copy)) = Cardinality(T!Present(ordersTable))
    <3> DEFINE counted == [migration EXCEPT !.stage = "COUNTED"]
    <3>1. migration' = counted
      BY <1>10, <2>2, SameCount DEF T!CompareCounts
    <3>2. /\ counted \in MigrationRecord /\ counted.stage = "COUNTED" /\ counted.copy = migration.copy
          /\ counted.missed = migration.missed
      BY <1>1 DEF MigrationRecord
    <3>3. T!Present(migration.copy) = T!Present(ordersTable)
      BY <2>2, EqualCounts
    <3>4. migration # T!NoMigration
      BY <2>1, EmptyTablesFit
    <3> HIDE DEF counted
    <3>5. CopyFits'
      BY <2>1, <3>1, <3>2, <3>3, <3>4 DEF PartitionsInv, CopyFits
    <3>6. \A r \in OrderRows \ items : migration'.copy[r] = T!Absent
      BY <3>1, <3>2 DEF PartitionsInv, UnplacedIsAbsent
    <3> QED
      BY <2>1, <3>1, <3>2, <3>5, <3>6, MigrationStep
  <2>3. CASE Cardinality(T!Present(migration.copy)) # Cardinality(T!Present(ordersTable))
    <3>1. migration' = T!NoMigration
      BY <1>10, <2>3, SameCount DEF T!CompareCounts
    <3>2. CopyFits'
      BY <3>1, EmptyTablesFit DEF CopyFits
    <3> QED
      BY <2>1, <3>1, <3>2, EmptyTablesFit, MigrationStep
  <2> QED
    BY <2>2, <2>3
<1>11. ASSUME T!SwapToPartitioned PROVE PartitionsInv'
  <2>1. /\ migration.stage = "COUNTED" /\ layout = "PLAIN" /\ T!Swap("PARTITIONED", migration.months)
        /\ migration' = T!NoMigration /\ UNCHANGED <<month, items, written>>
    BY <1>11 DEF T!SwapToPartitioned
  <2>2. migration # T!NoMigration /\ migration.months \in SUBSET T!Months
    BY <1>1, <2>1, EmptyTablesFit DEF MigrationRecord
  <2>3. ASSUME NEW r \in OrderRows \ (raced \cup migration.missed) PROVE migration.copy[r] = written[r]
    <3>1. ordersTable[r] = written[r]
      BY DEF PartitionsInv, T!PartitionsKeepOrders, T!OrdersOutliveMigrations
    <3>2. CASE r \in T!Present(migration.copy)
      BY <3>1, <3>2 DEF PartitionsInv, CopyFits
    <3>3. CASE r \notin T!Present(migration.copy)
      <4>1. r \notin T!Present(ordersTable)
        BY <2>1, <3>3 DEF PartitionsInv, CopyFits
      <4> QED
        BY <3>1, <3>3, <4>1 DEF T!Present
    <3> QED
      BY <3>2, <3>3
  <2> QED
    BY <2>1, <2>2, <2>3, SwapStep
<1>12. ASSUME T!SwapBack PROVE PartitionsInv'
  <2>1. /\ migration.stage = "COUNTED" /\ migration' = T!NoMigration /\ UNCHANGED <<month, items, written>>
    BY <1>12 DEF T!SwapBack
  <2>2. migration # T!NoMigration
    BY <2>1, EmptyTablesFit
  <2>3. CASE items \subseteq T!Present(migration.copy)
    <3>1. ASSUME NEW r \in OrderRows \ (raced \cup migration.missed) PROVE migration.copy[r] = written[r]
      <4>1. CASE r \in items
        BY <2>3, <4>1 DEF PartitionsInv, CopyFits, T!PartitionsKeepOrders, T!OrdersOutliveMigrations
      <4>2. CASE r \notin items
        BY <4>2 DEF PartitionsInv, UnplacedIsAbsent
      <4> QED
        BY <4>1, <4>2
    <3>2. T!Swap("PLAIN", {})
      BY <1>12, <2>3 DEF T!SwapBack
    <3> QED
      BY <2>1, <2>2, <3>1, <3>2, SwapStep
  <2>4. CASE ~(items \subseteq T!Present(migration.copy))
    <3>1. UNCHANGED <<month, T!rowVars, T!layoutVars, T!jobVars, raced, swaps>>
      BY <1>12, <2>1, <2>4 DEF T!SwapBack
    <3>2. CopyFits'
      BY <2>1, EmptyTablesFit DEF CopyFits
    <3> QED
      BY <2>1, <3>1, <3>2, EmptyTablesFit, MigrationStep
  <2> QED
    BY <2>3, <2>4
<1>13. CASE UNCHANGED T!vars
  BY <1>13 DEF T!vars, PartitionsInv, T!TypeOK, T!PartitionsKeepOrders, T!OrdersOutliveMigrations,
     T!StraysWereUnforeseen, UnplacedIsAbsent, CopyFits, EnsuredHavePartitions, MaintenanceFits
<1> QED
  BY <1>2, <1>3, <1>4, <1>6, <1>7, <1>8, <1>9, <1>10, <1>11, <1>12, <1>13 DEF T!Next

\* Any number of migrations, there and back, with any orders placed and changed
\* meanwhile, keep the orders they have not raced; and a month that was ensured
\* leaves no row to DEFAULT.  A count tells the copy from the table only of
\* finitely many orders.
THEOREM NoOrderLost == ASSUME T!PartitionBounds, IsFiniteSet(OrderRows) PROVE T!Spec => []T!PartitionsKeepOrders
<1>1. T!Init => PartitionsInv
  BY PartitionsInit
<1>2. PartitionsInv /\ [T!Next]_(T!vars) => PartitionsInv'
  BY PartitionsStep
<1>3. PartitionsInv => T!PartitionsKeepOrders
  BY DEF PartitionsInv
<1> QED
  BY <1>1, <1>2, <1>3, PTL DEF T!Spec

\* What partitions does here it does in its module.
LEMMA PartitionTurn ==
  ASSUME running = "partitions", [ServicesNext]_allVars
  PROVE  [T!Next]_(T!vars)
<1>1. CASE PartitionSteps
  BY <1>1 DEF PartitionSteps, T!Next
<1>2. CASE UNCHANGED allVars
  BY <1>2 DEF allVars, partitionVars, T!vars, T!rowVars, T!layoutVars, T!jobVars, T!migrationVars
<1> QED
  BY <1>1, <1>2, Turns

\* The same of the service that MCServices runs, with the types.
THEOREM PartitionService == ASSUME IsFiniteSet(OrderRows) PROVE ServicesSpec => []PartitionsKeepOrders
<1> DEFINE Inv == running = "partitions" => PartitionsInv
<1>1. ServicesInit => Inv
  BY PartitionsInit, ServicesAssumption DEF ServicesInit
<1>2. Inv /\ [ServicesNext]_allVars => Inv'
  <2> SUFFICES ASSUME Inv, [ServicesNext]_allVars, running' = "partitions" PROVE PartitionsInv'
    OBVIOUS
  <2>1. running = "partitions"
    BY Turns
  <2> QED
    BY <2>1, PartitionsStep, PartitionTurn, ServicesAssumption
<1>3. Inv => PartitionsKeepOrders
  BY DEF PartitionsInv, PartitionsKeepOrders
<1> QED
  BY <1>1, <1>2, <1>3, PTL DEF ServicesSpec

-----------------------------------------------------------------------------
(* ReviewRatings.  An open submission has counted its own review and       *)
(* committed ones.  Where none overlap it is the only one, the last that   *)
(* began, and has counted all; so does the newest row of the outbox.       *)

\* What an open submission has written and counted so far.
SubmissionFits(c) ==
  submission[c].pc # "IDLE" =>
    /\ submission[c].order \subseteq eligible
    /\ submission[c].begun \in 1..begun
    /\ submission[c].pc = "AGGREGATED" =>
         /\ submission[c].order \subseteq submission[c].counted
         /\ submission[c].counted \subseteq reviews \cup submission[c].order

\* Where none overlap, an open submission is the only one and the last begun.
AloneFits(c) ==
  ~overlapped /\ submission[c] # R!NoSubmission =>
    /\ submission[c].begun = begun
    /\ \A row \in outbox : row.begun < begun
    /\ \A d \in Submits : submission[d] # R!NoSubmission => d = c
    /\ submission[c].pc = "AGGREGATED" => submission[c].counted = reviews \cup submission[c].order

\* Where none overlap, the newest row, which is published last, counts all.
NewestCounts ==
  ~overlapped /\ outbox # {} =>
    \E row \in outbox : /\ row.counted = reviews
                        /\ \A other \in outbox : other # row => other.begun < row.begun

\* The inductive invariant.
ReviewInv ==
  /\ R!TypeOK /\ R!RatingsCountReviews /\ NewestCounts
  /\ \A row \in outbox : row.begun <= begun
  /\ \A c \in Submits : SubmissionFits(c) /\ AloneFits(c)

\* What a call of POST /reviews is doing.
SubmissionRecord ==
  [pc : {"IDLE", "FOUND", "INSERTED", "AGGREGATED"}, order : SUBSET ReviewedOrders,
   begun : 0..MaxSubmissions, counted : SUBSET ReviewedOrders]
\* A rating event that is not yet published.
OutboxRow == [begun : 1..MaxSubmissions, counted : SUBSET ReviewedOrders]

\* The record of a call that is not there.
LEMMA NoSubmissionFits == ASSUME R!SubmissionBound PROVE R!NoSubmission \in SubmissionRecord /\ R!NoSubmission.pc = "IDLE"
BY DEF R!SubmissionBound, R!NoSubmission, SubmissionRecord

\* The types.
LEMMA ReviewFacts ==
  ASSUME R!SubmissionBound, ReviewInv
  PROVE  /\ MaxSubmissions \in Nat /\ begun \in 0..MaxSubmissions
         /\ submission \in [Submits -> SubmissionRecord]
         /\ eligible \in SUBSET ReviewedOrders /\ reviews \in SUBSET eligible
         /\ outbox \in SUBSET OutboxRow /\ ratings \in Seq(SUBSET ReviewedOrders)
         /\ \A row \in outbox : row.begun <= begun /\ row.begun \in Nat
         /\ \A c \in Submits : SubmissionFits(c) /\ AloneFits(c) /\ submission[c].begun \in Nat
BY DEF R!SubmissionBound, ReviewInv, R!TypeOK, SubmissionRecord, OutboxRow

\* The invariant holds at the start.
LEMMA ReviewInit == ASSUME R!SubmissionBound, R!Init PROVE ReviewInv
<1>1. R!TypeOK
  <2>1. submission \in [Submits -> SubmissionRecord]
    BY NoSubmissionFits DEF R!Init
  <2>2. begun \in 0..MaxSubmissions /\ ratings \in Seq(SUBSET ReviewedOrders)
    BY DEF R!Init, R!SubmissionBound
  <2>3. overlapped \in BOOLEAN
    BY Zenon DEF R!Init
  <2> QED
    BY <2>1, <2>2, <2>3 DEF R!Init, R!TypeOK, SubmissionRecord
<1>2. R!RatingsCountReviews
  BY DEF R!Init, R!RatingsCountReviews, R!Events, R!ToSet
<1>3. \A c \in Submits : SubmissionFits(c) /\ AloneFits(c)
  BY NoSubmissionFits DEF R!Init, SubmissionFits, AloneFits
<1> QED
  BY <1>1, <1>2, <1>3 DEF R!Init, ReviewInv, NewestCounts

\* A submission that does not commit goes on or ends.
LEMMA SubmissionStep ==
  ASSUME R!SubmissionBound, ReviewInv, NEW c \in Submits, NEW s \in SubmissionRecord,
         submission[c] # R!NoSubmission,
         submission' = [submission EXCEPT ![c] = s],
         UNCHANGED <<eligible, reviews, begun, outbox, ratings, overlapped>>,
         \/ s = R!NoSubmission
         \/ /\ submission[c].pc # "IDLE"
            /\ s.order = submission[c].order /\ s.begun = submission[c].begun
            /\ s.pc = "AGGREGATED" => s.counted = reviews \cup s.order
  PROVE  ReviewInv'
<1> USE ReviewFacts, NoSubmissionFits
<1>1. \A d \in Submits : submission'[d] = IF d = c THEN s ELSE submission[d]
  OBVIOUS
<1>2. R!TypeOK'
  <2>1. submission' \in [Submits -> SubmissionRecord]
    OBVIOUS
  <2> QED
    BY <2>1 DEF ReviewInv, R!TypeOK, SubmissionRecord
<1>3. \A d \in Submits : SubmissionFits(d)'
  BY <1>1 DEF SubmissionFits
<1>4. \A d \in Submits : AloneFits(d)'
  BY <1>1 DEF AloneFits
<1>5. R!RatingsCountReviews' /\ NewestCounts'
  BY DEF ReviewInv, R!RatingsCountReviews, NewestCounts, R!Events
<1> QED
  BY <1>2, <1>3, <1>4, <1>5 DEF ReviewInv

\* Every step keeps it.
LEMMA ReviewStep == ASSUME R!SubmissionBound, ReviewInv, [R!Next]_(R!vars) PROVE ReviewInv'
<1>1. ASSUME NEW o \in ReviewedOrders, R!RecordEligibility(o) PROVE ReviewInv'
  <2>1. eligible' = eligible \cup {o} /\ UNCHANGED <<reviews, submission, begun, outbox, ratings, overlapped>>
    BY <1>1 DEF R!RecordEligibility
  <2>2. R!TypeOK'
    BY <2>1 DEF ReviewInv, R!TypeOK
  <2>3. \A c \in Submits : SubmissionFits(c)' /\ AloneFits(c)'
    BY <2>1 DEF ReviewInv, SubmissionFits, AloneFits
  <2> QED
    BY <2>1, <2>2, <2>3 DEF ReviewInv, R!RatingsCountReviews, NewestCounts, R!Events
<1>2. ASSUME NEW c \in Submits, NEW o \in ReviewedOrders, R!FindEligible(c, o) PROVE ReviewInv'
  <2> DEFINE s == [pc |-> "FOUND", order |-> {o}, begun |-> begun', counted |-> {}]
  <2>1. /\ submission[c] = R!NoSubmission /\ o \in eligible /\ begun' = begun + 1
        /\ begun' \in 1..MaxSubmissions /\ UNCHANGED <<eligible, reviews, outbox, ratings>>
    BY <1>2, ReviewFacts DEF R!FindEligible
  <2>2. s \in SubmissionRecord /\ s.pc = "FOUND" /\ s.order = {o} /\ s.begun = begun'
    BY <2>1 DEF SubmissionRecord
  <2>3. submission' = [submission EXCEPT ![c] = s]
    BY <1>2 DEF R!FindEligible
  <2>4. /\ overlapped' \in BOOLEAN
        /\ ~overlapped' => ~overlapped /\ \A d \in Submits : submission[d] = R!NoSubmission
    <3>1. overlapped' = (overlapped \/ \E d \in Submits : submission[d] # R!NoSubmission)
      BY <1>2 DEF R!FindEligible
    <3>2. (overlapped \/ \E d \in Submits : submission[d] # R!NoSubmission) \in BOOLEAN
      OBVIOUS
    <3>3. overlapped' \in BOOLEAN
      BY <3>1, <3>2, Zenon
    <3>4. ~overlapped' => ~overlapped /\ \A d \in Submits : submission[d] = R!NoSubmission
      BY <3>1, Zenon
    <3> QED
      BY <3>3, <3>4
  <2> HIDE DEF s
  <2>5. \A d \in Submits : submission'[d] = IF d = c THEN s ELSE submission[d]
    BY <2>3, ReviewFacts
  <2>6. R!TypeOK'
    <3>1. submission' \in [Submits -> SubmissionRecord]
      BY <2>2, <2>3, ReviewFacts
    <3> QED
      BY <2>1, <2>4, <3>1 DEF ReviewInv, R!TypeOK, SubmissionRecord
  <2>7. \A d \in Submits : SubmissionFits(d)'
    <3>1. SubmissionFits(c)'
      BY <2>1, <2>2, <2>5, ReviewFacts DEF SubmissionFits
    <3>2. ASSUME NEW d \in Submits, d # c PROVE SubmissionFits(d)'
      BY <2>1, <2>5, <3>2, ReviewFacts DEF SubmissionFits
    <3> QED
      BY <3>1, <3>2
  <2>8. ASSUME NEW d \in Submits PROVE AloneFits(d)'
    <3> SUFFICES ASSUME ~overlapped' PROVE AloneFits(d)'
      BY DEF AloneFits
    <3>1. \A row \in outbox' : row.begun < begun'
      BY <2>1, ReviewFacts
    <3>2. \A e \in Submits : submission'[e] # R!NoSubmission => e = c
      BY <2>4, <2>5
    <3> QED
      BY <2>2, <2>5, <3>1, <3>2 DEF AloneFits
  <2>9. R!RatingsCountReviews' /\ NewestCounts'
    BY <2>1, <2>4 DEF ReviewInv, R!RatingsCountReviews, NewestCounts, R!Events
  <2>10. \A row \in outbox' : row.begun <= begun'
    BY <2>1, ReviewFacts
  <2> QED
    BY <2>6, <2>7, <2>8, <2>9, <2>10 DEF ReviewInv
<1>3. ASSUME NEW c \in Submits, R!SaveReview(c) PROVE ReviewInv'
  <2> DEFINE s == IF submission[c].order \subseteq reviews THEN R!NoSubmission
                  ELSE [submission[c] EXCEPT !.pc = "INSERTED"]
  <2>1. /\ submission[c].pc = "FOUND" /\ submission' = [submission EXCEPT ![c] = s]
        /\ UNCHANGED <<eligible, reviews, begun, outbox, ratings, overlapped>>
    BY <1>3, ReviewFacts DEF R!SaveReview
  <2>2. submission[c] \in SubmissionRecord /\ submission[c] # R!NoSubmission
    BY <2>1, ReviewFacts, NoSubmissionFits
  <2>3. /\ s \in SubmissionRecord
        /\ \/ s = R!NoSubmission
           \/ s.pc = "INSERTED" /\ s.order = submission[c].order /\ s.begun = submission[c].begun
    <3>1. CASE submission[c].order \subseteq reviews
      <4>1. s = R!NoSubmission
        BY <3>1
      <4> HIDE DEF s
      <4> QED
        BY <4>1, NoSubmissionFits
    <3>2. CASE ~(submission[c].order \subseteq reviews)
      <4> DEFINE moved == [submission[c] EXCEPT !.pc = "INSERTED"]
      <4>1. s = moved
        BY <3>2
      <4>2. /\ moved \in SubmissionRecord /\ moved.pc = "INSERTED" /\ moved.order = submission[c].order
            /\ moved.begun = submission[c].begun
        BY <2>2 DEF SubmissionRecord
      <4> HIDE DEF moved, s
      <4> QED
        BY <4>1, <4>2
    <3> QED
      BY <3>1, <3>2
  <2> HIDE DEF s
  <2> QED
    BY <2>1, <2>2, <2>3, SubmissionStep
<1>4. ASSUME NEW c \in Submits, R!AggregateForRestaurant(c) PROVE ReviewInv'
  <2> DEFINE s == [submission[c] EXCEPT !.pc = "AGGREGATED", !.counted = reviews \cup submission[c].order]
  <2>1. /\ submission[c].pc = "INSERTED" /\ submission' = [submission EXCEPT ![c] = s]
        /\ UNCHANGED <<eligible, reviews, begun, outbox, ratings, overlapped>>
    BY <1>4, ReviewFacts DEF R!AggregateForRestaurant
  <2>2. submission[c] \in SubmissionRecord /\ submission[c] # R!NoSubmission
    BY <2>1, ReviewFacts, NoSubmissionFits
  <2>3. reviews \in SUBSET ReviewedOrders
    BY ReviewFacts
  <2>4. /\ s \in SubmissionRecord /\ s.order = submission[c].order /\ s.begun = submission[c].begun
        /\ s.counted = reviews \cup s.order
    BY <2>2, <2>3 DEF SubmissionRecord
  <2> HIDE DEF s
  <2> QED
    BY <2>1, <2>2, <2>4, SubmissionStep
<1>5. ASSUME NEW c \in Submits, R!RollbackReview(c) PROVE ReviewInv'
  BY <1>5, NoSubmissionFits, SubmissionStep DEF R!RollbackReview
<1>6. ASSUME NEW c \in Submits, R!CommitReview(c) PROVE ReviewInv'
  <2> DEFINE order == submission[c].order
             row == [begun |-> submission[c].begun, counted |-> submission[c].counted]
  <2>1. /\ submission[c].pc = "AGGREGATED" /\ submission[c] \in SubmissionRecord
        /\ reviews' = reviews \cup order /\ outbox' = outbox \cup {row}
        /\ submission' = [submission EXCEPT ![c] = R!NoSubmission]
        /\ UNCHANGED <<eligible, begun, ratings, overlapped>>
    BY <1>6, ReviewFacts DEF R!CommitReview
  <2>2. /\ order \in SUBSET eligible /\ submission[c].begun \in 1..begun
        /\ order \subseteq submission[c].counted /\ submission[c].counted \subseteq reviews \cup order
    BY <2>1, ReviewFacts DEF SubmissionFits
  <2>3. row \in OutboxRow /\ row.begun \in 1..begun /\ row.begun = submission[c].begun /\ row.counted = submission[c].counted
    BY <2>1, <2>2, ReviewFacts DEF SubmissionRecord, OutboxRow
  <2>4. submission[c] # R!NoSubmission
    BY <2>1, NoSubmissionFits
  <2>5. ~overlapped => /\ row.begun = begun /\ \A other \in outbox : other.begun < begun
                       /\ row.counted = reviews \cup order
                       /\ \A d \in Submits : submission[d] # R!NoSubmission => d = c
    BY <2>1, <2>3, <2>4, ReviewFacts DEF AloneFits
  <2> HIDE DEF row, order
  <2>6. \A d \in Submits : submission'[d] = IF d = c THEN R!NoSubmission ELSE submission[d]
    BY <2>1, ReviewFacts
  <2>7. R!TypeOK'
    <3>1. submission' \in [Submits -> SubmissionRecord]
      BY <2>1, NoSubmissionFits, ReviewFacts
    <3>2. reviews' \in SUBSET eligible /\ outbox' \in SUBSET OutboxRow
      BY <2>1, <2>2, <2>3, ReviewFacts
    <3> QED
      BY <2>1, <3>1, <3>2 DEF ReviewInv, R!TypeOK, SubmissionRecord, OutboxRow
  <2>8. \A d \in Submits : SubmissionFits(d)'
    BY <2>1, <2>6, NoSubmissionFits, ReviewFacts DEF SubmissionFits
  <2>9. \A d \in Submits : AloneFits(d)'
    BY <2>1, <2>5, <2>6 DEF AloneFits
  <2>10. NewestCounts'
    BY <2>1, <2>5 DEF NewestCounts
  <2>11. R!RatingsCountReviews'
    <3>1. R!Events' = R!Events \cup {row.counted}
      BY <2>1 DEF R!Events
    <3>2. \A counted \in R!Events' : counted \subseteq reviews'
      BY <2>1, <2>2, <2>3, <3>1 DEF ReviewInv, R!RatingsCountReviews
    <3>3. \A o \in reviews' : \E counted \in R!Events' : o \in counted
      BY <2>1, <2>2, <2>3, <3>1 DEF ReviewInv, R!RatingsCountReviews
    <3>4. outbox' # {}
      BY <2>1
    <3> QED
      BY <3>2, <3>3, <3>4 DEF R!RatingsCountReviews
  <2>12. \A other \in outbox' : other.begun <= begun'
    BY <2>1, <2>3, ReviewFacts
  <2> QED
    BY <2>7, <2>8, <2>9, <2>10, <2>11, <2>12 DEF ReviewInv
<1>7. ASSUME R!PublishRating PROVE ReviewInv'
  <2>1. PICK row \in outbox : /\ \A other \in outbox : row.begun <= other.begun
                              /\ outbox' = outbox \ {row} /\ ratings' = Append(ratings, row.counted)
                              /\ UNCHANGED <<eligible, reviews, submission, begun, overlapped>>
    BY <1>7 DEF R!PublishRating
  <2>2. row \in OutboxRow /\ row.counted \in SUBSET ReviewedOrders
    BY ReviewFacts DEF OutboxRow
  <2>3. /\ ratings' \in Seq(SUBSET ReviewedOrders) /\ Len(ratings') = Len(ratings) + 1
        /\ Len(ratings) \in Nat /\ ratings'[Len(ratings) + 1] = row.counted
        /\ \A i \in 1..Len(ratings) : ratings'[i] = ratings[i]
        /\ DOMAIN ratings = 1..Len(ratings) /\ DOMAIN ratings' = 1..Len(ratings')
    BY <2>1, <2>2, ReviewFacts
  <2>4. R!TypeOK'
    BY <2>1, <2>3 DEF ReviewInv, R!TypeOK
  <2>5. \A c \in Submits : SubmissionFits(c)' /\ AloneFits(c)'
    BY <2>1, ReviewFacts DEF SubmissionFits, AloneFits
  <2>6. NewestCounts'
    <3> SUFFICES ASSUME ~overlapped, outbox' # {}
                 PROVE  \E newest \in outbox' :
                          /\ newest.counted = reviews
                          /\ \A other \in outbox' : other # newest => other.begun < newest.begun
      BY <2>1 DEF NewestCounts
    <3>1. PICK newest \in outbox : /\ newest.counted = reviews
                                   /\ \A other \in outbox : other # newest => other.begun < newest.begun
      BY DEF ReviewInv, NewestCounts
    <3>2. newest # row
      <4>1. PICK other \in outbox : other # row
        BY <2>1
      <4>2. row.begun <= other.begun /\ row.begun \in Nat /\ other.begun \in Nat
        BY <2>1, ReviewFacts
      <4> QED
        BY <3>1, <4>1, <4>2
    <3> QED
      BY <2>1, <3>1, <3>2
  <2>7. R!RatingsCountReviews'
    <3>1. R!ToSet(ratings') = R!ToSet(ratings) \cup {row.counted}
      BY <2>3 DEF R!ToSet
    <3>2. R!Events' = R!Events
      BY <2>1, <3>1 DEF R!Events
    <3>3. ~overlapped /\ outbox' = {} => R!Last(ratings') = reviews
      <4>1. R!Last(ratings') = row.counted
        BY <2>3 DEF R!Last
      <4>2. outbox' = {} => outbox = {row}
        BY <2>1
      <4> QED
        BY <4>1, <4>2 DEF ReviewInv, NewestCounts
    <3> QED
      BY <2>1, <3>2, <3>3 DEF ReviewInv, R!RatingsCountReviews
  <2> QED
    BY <2>1, <2>4, <2>5, <2>6, <2>7 DEF ReviewInv
<1>8. CASE UNCHANGED R!vars
  BY <1>8 DEF R!vars, ReviewInv, R!TypeOK, R!RatingsCountReviews, NewestCounts, R!Events, SubmissionFits, AloneFits
<1> QED
  BY <1>1, <1>2, <1>3, <1>4, <1>5, <1>6, <1>7, <1>8 DEF R!Next, R!SubmitReview

\* Announced ratings count committed reviews only and leave none out, and the
\* one published last counts all as long as no two submissions overlapped, for
\* any number of calls.
THEOREM EveryReviewCounts == ASSUME R!SubmissionBound PROVE R!Spec => []R!RatingsCountReviews
<1>1. R!Init => ReviewInv
  BY ReviewInit
<1>2. ReviewInv /\ [R!Next]_(R!vars) => ReviewInv'
  BY ReviewStep
<1>3. ReviewInv => R!RatingsCountReviews
  BY DEF ReviewInv
<1> QED
  BY <1>1, <1>2, <1>3, PTL DEF R!Spec

\* What review does here it does in its module.
LEMMA ReviewTurn ==
  ASSUME running = "review", [ServicesNext]_allVars
  PROVE  [R!Next]_(R!vars)
<1>1. CASE ReviewSteps
  BY <1>1 DEF ReviewSteps, R!Next, R!SubmitReview
<1>2. CASE UNCHANGED allVars
  BY <1>2 DEF allVars, reviewVars, R!vars
<1> QED
  BY <1>1, <1>2, Turns

\* The same of the service that MCServices runs, with the types.
THEOREM ReviewService == ServicesSpec => []RatingsCountReviews
<1> DEFINE Inv == running = "review" => ReviewInv
<1>1. ServicesInit => Inv
  BY ReviewInit, ServicesAssumption DEF ServicesInit
<1>2. Inv /\ [ServicesNext]_allVars => Inv'
  <2> SUFFICES ASSUME Inv, [ServicesNext]_allVars, running' = "review" PROVE ReviewInv'
    OBVIOUS
  <2>1. running = "review"
    BY Turns
  <2> QED
    BY <2>1, ReviewStep, ReviewTurn, ServicesAssumption
<1>3. Inv => RatingsCountReviews
  BY DEF ReviewInv, RatingsCountReviews
<1> QED
  BY <1>1, <1>2, <1>3, PTL DEF ServicesSpec

-----------------------------------------------------------------------------
(* RatingViews.  A view that no late event overtook shows the state after  *)
(* the events it has applied, caught up or not.                            *)

\* A deletion is the last event, and no view is ahead of its topics.
TopicsFit ==
  /\ Len(changes) > 0
  /\ \A i \in 1..Len(changes) : changes[i] = "RestaurantDeleted" => i = Len(changes)
  /\ \A v \in V!Views : changePos[v] \in 0..Len(changes) /\ ratingPos[v] \in 0..rated

\* What an orderly view shows is the state after the events it has applied,
\* caught up or not.
ViewFits(v) ==
  /\ v \in exists <=> changePos[v] > 0 /\ changes[changePos[v]] # "RestaurantDeleted"
  /\ v \in exists /\ v \notin missed => rating[v] = ratingPos[v]
  /\ changePos[v] = 0 /\ ratingPos[v] > 0 => v \in missed

\* Catalog's view always is, search's as long as no event was applied late.
Orderly(v) == v = "search" => late = 0

\* The inductive invariant.
ViewsInv == V!TypeOK /\ TopicsFit /\ \A v \in V!Views : Orderly(v) => ViewFits(v)

\* What catalog announces of a restaurant.
ChangeEvents == {"RestaurantCreated", "RestaurantUpdated", "RestaurantDeleted"}

\* The invariant holds at the start.
LEMMA ViewsInit == ASSUME V!ViewBounds, V!Init PROVE ViewsInv
<1>1. /\ changes \in Seq(ChangeEvents) /\ Len(changes) = 1 /\ changes[1] = "RestaurantCreated"
      /\ rated = 0 /\ late = 0 /\ exists = {} /\ missed = {}
      /\ \A v \in V!Views : changePos[v] = 0 /\ ratingPos[v] = 0
  BY DEF V!Init, ChangeEvents
<1>2. V!TypeOK
  BY <1>1 DEF V!Init, V!TypeOK, V!ViewBounds, ChangeEvents
<1>3. TopicsFit
  BY <1>1 DEF TopicsFit
<1>4. \A v \in V!Views : ViewFits(v)
  BY <1>1 DEF ViewFits
<1> QED
  BY <1>2, <1>3, <1>4 DEF ViewsInv

\* The types, and the invariant for one view.
LEMMA ViewFacts ==
  ASSUME V!ViewBounds, ViewsInv
  PROVE  /\ MaxRatingEvents \in Nat /\ MaxLate \in Nat
         /\ changes \in Seq(ChangeEvents) /\ Len(changes) \in Nat /\ Len(changes) > 0
         /\ rated \in 0..MaxRatingEvents /\ late \in 0..MaxLate
         /\ changePos \in [V!Views -> Nat] /\ ratingPos \in [V!Views -> 0..MaxRatingEvents]
         /\ exists \in SUBSET V!Views /\ missed \in SUBSET V!Views
         /\ rating \in [V!Views -> 0..MaxRatingEvents]
         /\ \A v \in V!Views : /\ changePos[v] \in 0..Len(changes) /\ ratingPos[v] \in 0..rated
                               /\ Orderly(v) => ViewFits(v)
BY DEF V!ViewBounds, ViewsInv, V!TypeOK, TopicsFit, ChangeEvents

\* One view takes a step through its topics while they stay.
LEMMA ViewStep ==
  ASSUME V!ViewBounds, ViewsInv, NEW v \in V!Views, NEW p \in 0..Len(changes), NEW q \in 0..rated,
         NEW n \in 0..MaxRatingEvents,
         UNCHANGED V!topicVars,
         changePos' = [changePos EXCEPT ![v] = p], ratingPos' = [ratingPos EXCEPT ![v] = q],
         exists' \in {exists, exists \cup {v}, exists \ {v}},
         missed' \in {missed, missed \cup {v}, missed \ {v}},
         rating' = [rating EXCEPT ![v] = n],
         late' = late \/ (late' \in 1..MaxLate /\ v = "search"),
         Orderly(v)' => ViewFits(v)'
  PROVE  ViewsInv'
<1> USE ViewFacts
<1>1. /\ \A u \in V!Views : changePos'[u] = IF u = v THEN p ELSE changePos[u]
      /\ \A u \in V!Views : ratingPos'[u] = IF u = v THEN q ELSE ratingPos[u]
      /\ \A u \in V!Views : rating'[u] = IF u = v THEN n ELSE rating[u]
      /\ changes' = changes /\ rated' = rated
  BY DEF V!topicVars
<1>2. TopicsFit'
  BY <1>1 DEF TopicsFit, ViewsInv
<1>3. V!TypeOK'
  <2>1. /\ exists' \in SUBSET V!Views /\ missed' \in SUBSET V!Views
        /\ rating' \in [V!Views -> 0..MaxRatingEvents] /\ changePos' \in [V!Views -> Nat]
        /\ ratingPos' \in [V!Views -> 0..MaxRatingEvents]
    OBVIOUS
  <2>2. late' \in 0..MaxLate
    OBVIOUS
  <2> QED
    BY <1>1, <2>1, <2>2 DEF V!TypeOK, ChangeEvents
<1>4. ASSUME NEW u \in V!Views, Orderly(u)' PROVE ViewFits(u)'
  <2>1. CASE u = v
    BY <1>4, <2>1
  <2>2. CASE u # v
    <3>1. Orderly(u)
      BY <1>4, <2>2 DEF Orderly
    <3>2. ViewFits(u)
      BY <3>1
    <3>3. /\ u \in exists' <=> u \in exists
          /\ u \in missed' <=> u \in missed
      BY <2>2
    <3> QED
      BY <1>1, <2>2, <3>2, <3>3 DEF ViewFits
  <2> QED
    BY <2>1, <2>2
<1> QED
  BY <1>2, <1>3, <1>4 DEF ViewsInv

\* The topics grow behind what the views have applied.
LEMMA TopicStep ==
  ASSUME V!ViewBounds, ViewsInv, UNCHANGED <<V!posVars, V!viewVars, late>>,
         \/ UNCHANGED changes
         \/ ~V!Deleted /\ \E event \in ChangeEvents : changes' = Append(changes, event),
         rated' \in {rated, rated + 1}, rated' \in 0..MaxRatingEvents
  PROVE  ViewsInv'
<1> USE ViewFacts DEF V!posVars, V!viewVars
<1>1. CASE UNCHANGED changes
  BY <1>1 DEF ViewsInv, V!TypeOK, TopicsFit, ViewFits, Orderly, ChangeEvents
<1>2. CASE ~V!Deleted /\ \E event \in ChangeEvents : changes' = Append(changes, event)
  <2>1. PICK event \in ChangeEvents : changes' = Append(changes, event)
    BY <1>2
  <2>2. /\ changes' \in Seq(ChangeEvents) /\ Len(changes') = Len(changes) + 1
        /\ \A i \in 1..Len(changes) : changes'[i] = changes[i]
    BY <2>1
  <2>3. changes[Len(changes)] # "RestaurantDeleted"
    BY <1>2 DEF V!Deleted
  <2>4. V!TypeOK'
    BY <2>2 DEF V!TypeOK, ChangeEvents
  <2>5. TopicsFit'
    <3>1. \A i \in 1..Len(changes) : changes'[i] # "RestaurantDeleted"
      BY <2>2, <2>3 DEF TopicsFit, ViewsInv
    <3>2. \A i \in 1..Len(changes') : changes'[i] = "RestaurantDeleted" => i = Len(changes')
      BY <2>2, <3>1
    <3>3. \A v \in V!Views : changePos'[v] \in 0..Len(changes') /\ ratingPos'[v] \in 0..rated'
      BY <2>2
    <3> QED
      BY <2>2, <3>2, <3>3 DEF TopicsFit
  <2>6. ASSUME NEW v \in V!Views, Orderly(v)' PROVE ViewFits(v)'
    <3>1. ViewFits(v) /\ changePos[v] \in 0..Len(changes)
      BY <2>6 DEF Orderly
    <3>2. changePos[v] > 0 => changes'[changePos[v]] = changes[changePos[v]]
      BY <2>2, <3>1
    <3> QED
      BY <3>1, <3>2 DEF ViewFits
  <2> QED
    BY <2>4, <2>5, <2>6 DEF ViewsInv
<1> QED
  BY <1>1, <1>2

\* What an event does to the view, in the terms of ViewStep.
LEMMA ChangeApplied ==
  ASSUME V!ViewBounds, ViewsInv, NEW v \in V!Views, NEW event \in ChangeEvents, V!ApplyChange(v, event)
  PROVE  /\ missed' = missed /\ exists' \in {exists, exists \cup {v}, exists \ {v}}
         /\ \E n \in 0..MaxRatingEvents : rating' = [rating EXCEPT ![v] = n]
         /\ Orderly(v) /\ event = "RestaurantDeleted" => v \notin exists'
         /\ event # "RestaurantDeleted" =>
              /\ v \in exists' /\ rating'[v] = IF v \in exists THEN rating[v] ELSE 0
<1>1. /\ rating = [rating EXCEPT ![v] = rating[v]] /\ rating[v] \in 0..MaxRatingEvents
      /\ 0 \in 0..MaxRatingEvents
      /\ [rating EXCEPT ![v] = 0][v] = 0 
  BY ViewFacts
<1>2. CASE event = "RestaurantDeleted"
  <2>1. V!Remove(v)
    BY <1>2 DEF V!ApplyChange
  <2>2. Orderly(v) => ~(v = "search" /\ late > 0)
    BY DEF Orderly
  <2> QED
    BY <1>1, <1>2, <2>1, <2>2 DEF V!Remove
<1>3. CASE event # "RestaurantDeleted"
  BY <1>1, <1>3 DEF V!ApplyChange, V!Upsert
<1> QED
  BY <1>2, <1>3

\* A rating counts in a view that has the restaurant.
LEMMA RatingApplied ==
  ASSUME V!ViewBounds, ViewsInv, NEW v \in V!Views, NEW n \in 0..MaxRatingEvents, V!UpdateRating(v, n)
  PROVE  /\ exists' = exists /\ missed' \in {missed, missed \cup {v}, missed \ {v}}
         /\ \E m \in 0..MaxRatingEvents : rating' = [rating EXCEPT ![v] = m]
         /\ v \in exists' => v \notin missed' /\ rating'[v] = n
         /\ v \notin exists' => v \in missed'
<1>1. rating = [rating EXCEPT ![v] = rating[v]] /\ rating[v] \in 0..MaxRatingEvents
        /\ [rating EXCEPT ![v] = n][v] = n
  BY ViewFacts
<1> QED
  BY <1>1 DEF V!UpdateRating

\* Every step keeps the invariant.
LEMMA ViewsStep == ASSUME V!ViewBounds, ViewsInv, [V!Next]_(V!vars) PROVE ViewsInv'
<1> USE DEF V!posVars, V!topicVars
<1>1. /\ MaxRatingEvents \in Nat /\ MaxLate \in Nat
      /\ changes \in Seq(ChangeEvents) /\ Len(changes) \in Nat /\ Len(changes) > 0
      /\ rated \in 0..MaxRatingEvents /\ late \in 0..MaxLate
      /\ changePos \in [V!Views -> Nat] /\ ratingPos \in [V!Views -> 0..MaxRatingEvents]
      /\ \A v \in V!Views : /\ changePos[v] \in 0..Len(changes) /\ ratingPos[v] \in 0..rated
                            /\ changePos = [changePos EXCEPT ![v] = changePos[v]]
                            /\ ratingPos = [ratingPos EXCEPT ![v] = ratingPos[v]]
                            /\ Orderly(v) => ViewFits(v)
      /\ \A i \in 1..Len(changes) : changes[i] \in ChangeEvents
      /\ \A i \in 1..Len(changes) : changes[i] = "RestaurantDeleted" => i = Len(changes)
      /\ "search" \in V!Views
  BY ViewFacts DEF ViewsInv, TopicsFit, V!Views
<1>2. ASSUME NEW event \in {"RestaurantUpdated", "RestaurantDeleted"}, V!ChangeRestaurant(event)
      PROVE  ViewsInv'
  BY <1>1, <1>2, TopicStep DEF V!ChangeRestaurant, ChangeEvents
<1>3. ASSUME V!RateRestaurant PROVE ViewsInv'
  BY <1>1, <1>3, TopicStep DEF V!RateRestaurant
<1>4. ASSUME NEW v \in V!Views, V!ConsumeChange(v) PROVE ViewsInv'
  <2> DEFINE p == changePos[v] + 1
  <2>1. /\ p \in 1..Len(changes) /\ changePos' = [changePos EXCEPT ![v] = p] /\ changePos'[v] = p
        /\ UNCHANGED <<changes, rated, ratingPos, late>>
    BY <1>1, <1>4 DEF V!ConsumeChange
  <2>2. changes[p] \in ChangeEvents /\ V!ApplyChange(v, changes[p])
    BY <1>1, <1>4, <2>1 DEF V!ConsumeChange
  <2>3. ViewFits(v)' \/ ~Orderly(v)
    <3> SUFFICES ASSUME Orderly(v) PROVE ViewFits(v)'
      OBVIOUS
    <3>1. ViewFits(v)
      BY <1>1
    <3>2. CASE changes[p] = "RestaurantDeleted"
      BY <1>1, <2>1, <2>2, <3>2, ChangeApplied DEF ViewFits
    <3>3. CASE changes[p] # "RestaurantDeleted"
      <4>1. /\ v \in exists' /\ missed' = missed
            /\ rating'[v] = IF v \in exists THEN rating[v] ELSE 0
        BY <2>2, <3>3, ChangeApplied
      <4>2. v \in exists <=> changePos[v] > 0
        BY <1>1, <2>1, <3>1 DEF ViewFits
      <4> QED
        BY <1>1, <2>1, <3>1, <3>3, <4>1, <4>2 DEF ViewFits
    <3> QED
      BY <3>2, <3>3
  <2>4. Orderly(v)' => ViewFits(v)'
    BY <2>1, <2>3 DEF Orderly
  <2>5. PICK n \in 0..MaxRatingEvents : rating' = [rating EXCEPT ![v] = n]
    BY <2>2, ChangeApplied
  <2>6. missed' = missed /\ exists' \in {exists, exists \cup {v}, exists \ {v}}
    BY <2>2, ChangeApplied
  <2>7. p \in 0..Len(changes) /\ ratingPos[v] \in 0..rated /\ ratingPos' = [ratingPos EXCEPT ![v] = ratingPos[v]]
    BY <1>1, <2>1
  <2> HIDE DEF p
  <2> QED
    BY <2>1, <2>4, <2>5, <2>6, <2>7, ViewStep
<1>5. ASSUME NEW v \in V!Views, V!ConsumeRating(v) PROVE ViewsInv'
  <2> DEFINE q == ratingPos[v] + 1
  <2>1. /\ q \in 1..rated /\ ratingPos' = [ratingPos EXCEPT ![v] = q] /\ ratingPos'[v] = q
        /\ UNCHANGED <<changes, rated, changePos, late>>
    BY <1>1, <1>5 DEF V!ConsumeRating
  <2>2. q \in 0..MaxRatingEvents /\ V!UpdateRating(v, q)
    BY <1>1, <1>5, <2>1 DEF V!ConsumeRating
  <2>3. Orderly(v)' => ViewFits(v)'
    BY <1>1, <2>1, <2>2, RatingApplied DEF Orderly, ViewFits
  <2>4. PICK n \in 0..MaxRatingEvents : rating' = [rating EXCEPT ![v] = n]
    BY <2>2, RatingApplied
  <2>5. exists' = exists /\ missed' \in {missed, missed \cup {v}, missed \ {v}}
    BY <2>2, RatingApplied
  <2>6. q \in 0..rated /\ changePos[v] \in 0..Len(changes) /\ changePos' = [changePos EXCEPT ![v] = changePos[v]]
    BY <1>1, <2>1
  <2> HIDE DEF q
  <2> QED
    BY <2>1, <2>3, <2>4, <2>5, <2>6, ViewStep
<1>6. ASSUME NEW v \in V!Views, v = "search", UNCHANGED <<changes, rated, changePos, ratingPos>>,
             late' = late \/ late' \in 1..MaxLate,
             \/ \E event \in ChangeEvents : V!ApplyChange(v, event)
             \/ \E n \in 0..MaxRatingEvents : V!UpdateRating(v, n),
             Orderly(v)' => ViewFits(v)'
      PROVE  ViewsInv'
  <2>1. /\ missed' \in {missed, missed \cup {v}, missed \ {v}}
        /\ exists' \in {exists, exists \cup {v}, exists \ {v}}
        /\ \E n \in 0..MaxRatingEvents : rating' = [rating EXCEPT ![v] = n]
    BY <1>6, ChangeApplied, RatingApplied
  <2>2. PICK n \in 0..MaxRatingEvents : rating' = [rating EXCEPT ![v] = n]
    BY <2>1
  <2>3. changePos' = [changePos EXCEPT ![v] = changePos[v]] /\ ratingPos' = [ratingPos EXCEPT ![v] = ratingPos[v]]
        /\ changePos[v] \in 0..Len(changes) /\ ratingPos[v] \in 0..rated
    BY <1>1, <1>6
  <2> QED
    BY <1>6, <2>1, <2>2, <2>3, ViewStep
<1>7. ASSUME V!RedeliverChange PROVE ViewsInv'
  <2> DEFINE v == "search"
             p == changePos[v]
  <2>1. /\ p \in 1..Len(changes) /\ changes[p] \in ChangeEvents /\ V!ApplyChange(v, changes[p])
        /\ UNCHANGED <<changes, rated, changePos, ratingPos, late>>
    BY <1>1, <1>7 DEF V!RedeliverChange
  <2>2. Orderly(v)' => ViewFits(v)'
    <3> SUFFICES ASSUME Orderly(v)' PROVE ViewFits(v)'
      OBVIOUS
    <3>1. Orderly(v) /\ ViewFits(v)
      BY <1>1, <2>1 DEF Orderly
    <3> QED
      BY <1>1, <2>1, <3>1, ChangeApplied DEF ViewFits
  <2> QED
    BY <1>1, <1>6, <2>1, <2>2
<1>8. ASSUME V!RedeliverRating PROVE ViewsInv'
  <2> DEFINE v == "search"
             q == ratingPos[v]
  <2>1. /\ q \in 0..MaxRatingEvents /\ q > 0 /\ V!UpdateRating(v, q)
        /\ UNCHANGED <<changes, rated, changePos, ratingPos, late>>
    BY <1>1, <1>8 DEF V!RedeliverRating
  <2>2. Orderly(v)' => ViewFits(v)'
    <3> SUFFICES ASSUME Orderly(v)' PROVE ViewFits(v)'
      OBVIOUS
    <3>1. Orderly(v) /\ ViewFits(v)
      BY <1>1, <2>1 DEF Orderly
    <3> QED
      BY <1>1, <2>1, <3>1, RatingApplied DEF ViewFits
  <2> QED
    BY <1>1, <1>6, <2>1, <2>2
<1>9. ASSUME V!ApplyLate PROVE ViewsInv'
  <2>1. late' \in 1..MaxLate /\ UNCHANGED <<changes, rated, changePos, ratingPos>>
    BY <1>1, <1>9 DEF V!ApplyLate
  <2>2. ~Orderly("search")'
    BY <2>1 DEF Orderly
  <2>3. ASSUME NEW i \in 1..(changePos["search"] - 1) PROVE changes[i] \in ChangeEvents
    BY <1>1, <2>3
  <2>4. ASSUME NEW n \in 1..(ratingPos["search"] - 1) PROVE n \in 0..MaxRatingEvents
    BY <1>1, <2>4
  <2>5. \/ \E event \in ChangeEvents : V!ApplyChange("search", event)
        \/ \E n \in 0..MaxRatingEvents : V!UpdateRating("search", n)
    BY <1>9, <2>3, <2>4 DEF V!ApplyLate
  <2> QED
    BY <1>1, <1>6, <2>1, <2>2, <2>5
<1>10. CASE UNCHANGED V!vars
  BY <1>1, <1>10, TopicStep DEF V!vars
<1> QED
  BY <1>2, <1>3, <1>4, <1>5, <1>7, <1>8, <1>9, <1>10 DEF V!Next, V!Consume

\* It implies the agreement of the views that caught up.
LEMMA ViewsAgree == ASSUME V!ViewBounds, ViewsInv PROVE V!CaughtUpViewsAgree
BY ViewFacts DEF V!CaughtUpViewsAgree, V!CaughtUp, V!Deleted, ViewFits, Orderly

\* A view that caught up with its two topics shows what they say, however
\* updates and ratings interleaved and were redelivered.
THEOREM ViewsShowTheEvents == ASSUME V!ViewBounds PROVE V!Spec => []V!CaughtUpViewsAgree
<1>1. V!Init => ViewsInv
  BY ViewsInit
<1>2. ViewsInv /\ [V!Next]_(V!vars) => ViewsInv'
  BY ViewsStep
<1>3. ViewsInv => V!CaughtUpViewsAgree
  BY ViewsAgree
<1> QED
  BY <1>1, <1>2, <1>3, PTL DEF V!Spec

\* What views does here it does in its module.
LEMMA ViewTurn ==
  ASSUME running = "views", [ServicesNext]_allVars
  PROVE  [V!Next]_(V!vars)
<1>1. CASE ViewSteps
  BY <1>1 DEF ViewSteps, V!Next, V!Consume
<1>2. CASE UNCHANGED allVars
  BY <1>2 DEF allVars, viewsVars, V!vars, V!topicVars, V!posVars, V!viewVars
<1> QED
  BY <1>1, <1>2, Turns

\* The same of the views that MCServices runs, with the types: the first half
\* of its ReadSidesAgree.
THEOREM ViewService == ServicesSpec => [](running = "views" => V!TypeOK /\ V!CaughtUpViewsAgree)
<1> DEFINE Inv == running = "views" => ViewsInv
<1>1. ServicesInit => Inv
  BY ViewsInit, ServicesAssumption DEF ServicesInit
<1>2. Inv /\ [ServicesNext]_allVars => Inv'
  <2> SUFFICES ASSUME Inv, [ServicesNext]_allVars, running' = "views" PROVE ViewsInv'
    OBVIOUS
  <2>1. running = "views"
    BY Turns
  <2> QED
    BY <2>1, ViewsStep, ViewTurn, ServicesAssumption
<1>3. Inv => (running = "views" => V!TypeOK /\ V!CaughtUpViewsAgree)
  BY ViewsAgree, ServicesAssumption DEF ViewsInv
<1> QED
  BY <1>1, <1>2, <1>3, PTL DEF ServicesSpec

-----------------------------------------------------------------------------
(* OrdersFact.  An order has one verdict, so its rows differ only in when  *)
(* they were ingested; a merge never drops the newest, which is the one    *)
(* that FINAL returns.                                                     *)

IsVerdict(e) == e.type \in {"OrderConfirmed", "OrderCancelled"}

\* What RowOf writes of an event, whenever it is ingested.
Tells(row, e) ==
  /\ row.order = e.order /\ row.day = e.occurred /\ row.total = Total[e.order]
  /\ row.status = (IF e.type = "OrderConfirmed" THEN "CONFIRMED" ELSE "CANCELLED")
  /\ row.restaurant = (IF e.type = "OrderConfirmed" THEN Sellers[e.order] ELSE Nowhere)

VerdictsAreFinal ==
  \A i, j \in DOMAIN published :
    /\ IsVerdict(published[i]) /\ IsVerdict(published[j])
    /\ published[i].order = published[j].order
    => published[i] = published[j]

RowsTellVerdicts ==
  \A row \in table : \E i \in 1..Len(published) :
    i <= consumed + 1 /\ IsVerdict(published[i]) /\ Tells(row, published[i])

IngestedHaveRows ==
  \A i \in 1..consumed : i \notin refused /\ IsVerdict(published[i]) =>
    \E row \in table : row.order = published[i].order

NewestIsThere == \A row \in table : \E new \in F!Final : new.order = row.order

\* A row is known by when it was ingested.
RowsAreDistinct ==
  /\ \A row \in table : row.ingested <= inserted
  /\ \A row, other \in table : row.ingested = other.ingested => row = other

FactInv ==
  /\ F!TypeOK /\ VerdictsAreFinal /\ RowsTellVerdicts /\ IngestedHaveRows
  /\ NewestIsThere /\ RowsAreDistinct

FactEvent == [type : F!EventType, order : Placed, occurred : 0..MaxDay]

LEMMA FactInit == ASSUME F!FactBounds, F!Init PROVE FactInv
BY DEF F!Init, F!FactBounds, FactInv, F!TypeOK, VerdictsAreFinal, RowsTellVerdicts,
  IngestedHaveRows, NewestIsThere, RowsAreDistinct, F!Final

LEMMA FactTypes ==
  ASSUME FactInv
  PROVE  /\ day \in 0..MaxDay
         /\ published \in Seq(FactEvent)
         /\ consumed \in 0..Len(published)
         /\ refused \in SUBSET (1..Len(published))
         /\ inserted \in 0..MaxRows
         /\ table \in SUBSET F!FactRow
BY DEF FactInv, F!TypeOK, FactEvent

\* What publishing an event does: the events before stay where they are.
LEMMA PublishStep ==
  ASSUME F!FactBounds, FactInv, NEW e \in FactEvent,
         published' = Append(published, e),
         UNCHANGED <<day, consumed, refused, inserted, table>>,
         \A i \in DOMAIN published :
           IsVerdict(published[i]) /\ IsVerdict(e) /\ published[i].order = e.order => published[i] = e
  PROVE  FactInv'
<1>1. /\ published' \in Seq(FactEvent) /\ Len(published') = Len(published) + 1
      /\ Len(published) \in Nat /\ DOMAIN published = 1..Len(published)
      /\ DOMAIN published' = 1..Len(published')
      /\ \A i \in 1..Len(published) : published'[i] = published[i]
      /\ published'[Len(published) + 1] = e
  BY FactTypes
<1>2. F!TypeOK'
  BY <1>1 DEF FactInv, F!TypeOK, FactEvent
<1>3. VerdictsAreFinal'
  BY <1>1 DEF FactInv, VerdictsAreFinal, IsVerdict
<1>4. RowsTellVerdicts'
  BY <1>1 DEF FactInv, RowsTellVerdicts, IsVerdict, Tells
<1>5. IngestedHaveRows'
  BY <1>1, FactTypes DEF FactInv, IngestedHaveRows, IsVerdict
<1>6. NewestIsThere' /\ RowsAreDistinct'
  BY DEF FactInv, NewestIsThere, RowsAreDistinct, F!Final
<1> QED
  BY <1>2, <1>3, <1>4, <1>5, <1>6 DEF FactInv

\* What an insertion does, whether its offset commits or not.
LEMMA WriteStep ==
  ASSUME F!FactBounds, FactInv, consumed < Len(published), IsVerdict(F!Delivered),
         F!Write(F!RowOf(F!Delivered)), consumed' \in {consumed, consumed + 1},
         UNCHANGED <<day, published, refused>>
  PROVE  FactInv'
<1> DEFINE e == published[consumed + 1]
           new == F!RowOf(e)
<1>1. /\ consumed \in Nat /\ Len(published) \in Nat /\ DOMAIN published = 1..Len(published)
      /\ consumed + 1 \in 1..Len(published) /\ e \in FactEvent /\ IsVerdict(e)
      /\ inserted \in Nat /\ inserted + 1 \in 1..MaxRows
      /\ inserted' = inserted + 1 /\ table' = table \cup {new}
  BY FactTypes DEF F!Delivered, F!Write, F!FactBounds
<1>2. new.ingested = inserted + 1 /\ new.order = e.order /\ Tells(new, e)
  BY DEF F!RowOf, Tells
<1>3. new \in F!FactRow
  BY <1>1 DEF F!RowOf, F!FactRow, FactEvent, F!FactBounds, F!Range
<1>4. \A row \in table : row.ingested \in Nat /\ row.ingested <= inserted
  BY FactTypes DEF FactInv, RowsAreDistinct, F!FactRow
<1>11. consumed \in Nat /\ consumed' \in Nat /\ consumed <= consumed'
  BY <1>1
<1>12. \A n \in Nat : consumed <= n =>
         consumed + 1 <= n + 1 /\ \A i \in Int : i <= consumed + 1 => i <= n + 1
  BY <1>11
<1>13. consumed + 1 <= consumed' + 1 /\ \A i \in Int : i <= consumed + 1 => i <= consumed' + 1
  BY <1>11, <1>12
<1> HIDE DEF e, new
<1>5. F!TypeOK'
  BY <1>1, <1>3, FactTypes DEF FactInv, F!TypeOK
<1>6. VerdictsAreFinal'
  BY DEF FactInv, VerdictsAreFinal, IsVerdict
<1>7. RowsTellVerdicts'
  <2>1. ASSUME NEW row \in table
        PROVE \E i \in 1..Len(published) : i <= consumed' + 1 /\ IsVerdict(published[i]) /\ Tells(row, published[i])
    <3>1. PICK i \in 1..Len(published) : i <= consumed + 1 /\ IsVerdict(published[i]) /\ Tells(row, published[i])
      BY DEF FactInv, RowsTellVerdicts
    <3>2. i <= consumed' + 1
      BY <1>13, <3>1
    <3> QED
      BY <3>1, <3>2
  <2>2. \E i \in 1..Len(published) : i <= consumed' + 1 /\ IsVerdict(published[i]) /\ Tells(new, published[i])
    <3>1. consumed + 1 <= consumed' + 1
      BY <1>13
    <3> QED
      BY <1>1, <1>2, <3>1 DEF e
  <2> QED
    BY <1>1, <2>1, <2>2 DEF RowsTellVerdicts, IsVerdict, Tells
<1>8. IngestedHaveRows'
  <2> SUFFICES ASSUME NEW i \in 1..consumed', i \notin refused, IsVerdict(published[i])
               PROVE  \E row \in table' : row.order = published[i].order
    BY DEF IngestedHaveRows, IsVerdict
  <2>1. CASE i \in 1..consumed
    BY <1>1, <2>1 DEF FactInv, IngestedHaveRows
  <2>2. CASE i = consumed + 1
    BY <1>1, <1>2, <2>2 DEF e
  <2> QED
    BY <1>1, <2>1, <2>2
<1>9. NewestIsThere'
  <2>1. new \in F!Final'
    BY <1>1, <1>2, <1>4 DEF F!Final
  <2>2. ASSUME NEW row \in table, row.order # new.order PROVE \E some \in F!Final' : some.order = row.order
    <3>1. PICK some \in F!Final : some.order = row.order
      BY DEF FactInv, NewestIsThere
    <3>2. some \in F!Final'
      BY <1>1, <2>2, <3>1 DEF F!Final
    <3> QED
      BY <3>1, <3>2
  <2> QED
    BY <1>1, <2>1, <2>2 DEF NewestIsThere
<1>10. RowsAreDistinct'
  BY <1>1, <1>2, <1>4 DEF FactInv, RowsAreDistinct
<1> QED
  BY <1>5, <1>6, <1>7, <1>8, <1>9, <1>10 DEF FactInv

\* What a commit without a row does: the event was a placed order or is refused.
LEMMA CommitStep ==
  ASSUME F!FactBounds, FactInv, consumed < Len(published), F!Commit,
         UNCHANGED <<day, published, inserted, table>>,
         \/ UNCHANGED refused /\ ~IsVerdict(F!Delivered)
         \/ refused' = refused \cup {consumed'}
  PROVE  FactInv'
<1>1. /\ consumed \in Nat /\ Len(published) \in Nat /\ DOMAIN published = 1..Len(published)
      /\ consumed' = consumed + 1 /\ consumed + 1 \in 1..Len(published)
      /\ refused \subseteq refused' /\ refused' \in SUBSET (1..Len(published))
  BY FactTypes DEF F!Commit
<1>2. F!TypeOK'
  BY <1>1, FactTypes DEF FactInv, F!TypeOK
<1>3. VerdictsAreFinal' /\ NewestIsThere' /\ RowsAreDistinct'
  BY DEF FactInv, VerdictsAreFinal, NewestIsThere, RowsAreDistinct, F!Final, IsVerdict
<1>4. RowsTellVerdicts'
  <2> SUFFICES ASSUME NEW row \in table
               PROVE \E i \in 1..Len(published) : i <= consumed' + 1 /\ IsVerdict(published[i]) /\ Tells(row, published[i])
    BY DEF RowsTellVerdicts, IsVerdict, Tells
  <2>1. PICK i \in 1..Len(published) : i <= consumed + 1 /\ IsVerdict(published[i]) /\ Tells(row, published[i])
    BY DEF FactInv, RowsTellVerdicts
  <2>2. i <= consumed' + 1
    BY <1>1, <2>1
  <2> QED
    BY <2>1, <2>2
<1>5. IngestedHaveRows'
  <2> SUFFICES ASSUME NEW i \in 1..consumed', i \notin refused', IsVerdict(published[i])
               PROVE  \E row \in table : row.order = published[i].order
    BY DEF IngestedHaveRows, IsVerdict
  <2>1. i \in 1..consumed /\ i \notin refused
    BY <1>1 DEF F!Delivered, IsVerdict
  <2> QED
    BY <2>1 DEF FactInv, IngestedHaveRows
<1> QED
  BY <1>2, <1>3, <1>4, <1>5 DEF FactInv

\* A merge drops no row that FINAL returns.
LEMMA MergeStep ==
  ASSUME F!FactBounds, FactInv, F!Merge
  PROVE  FactInv'
<1>1. PICK old, new \in table :
        old.order = new.order /\ old.ingested < new.ingested /\ table' = table \ {old}
  BY DEF F!Merge
<1>2. UNCHANGED <<day, published, consumed, refused, inserted>>
  BY DEF F!Merge, F!topicVars, F!groupVars
<1>3. old.ingested \in Int /\ new.ingested \in Int
  BY FactTypes DEF F!FactRow
<1>4. F!TypeOK' /\ VerdictsAreFinal' /\ RowsTellVerdicts' /\ RowsAreDistinct'
  BY <1>1, <1>2 DEF FactInv, F!TypeOK, VerdictsAreFinal, RowsTellVerdicts, RowsAreDistinct, IsVerdict, Tells
<1>5. F!Final \subseteq F!Final'
  BY <1>1, <1>3 DEF F!Final
<1>6. NewestIsThere'
  BY <1>1, <1>5 DEF FactInv, NewestIsThere
<1>7. \A row \in table : \E other \in table' : other.order = row.order
  <2> SUFFICES ASSUME NEW row \in table PROVE \E other \in table' : other.order = row.order
    OBVIOUS
  <2>1. new \in table'
    BY <1>1, <1>3
  <2> QED
    BY <1>1, <2>1
<1>8. IngestedHaveRows'
  BY <1>2, <1>7 DEF FactInv, IngestedHaveRows, IsVerdict
<1> QED
  BY <1>4, <1>6, <1>8 DEF FactInv

LEMMA FactStep == ASSUME F!FactBounds, FactInv, [F!Next]_(F!vars) PROVE FactInv'
<1>1. ASSUME NEW type \in F!EventType, NEW o \in Placed, F!Announce(type, o) PROVE FactInv'
  <2> DEFINE e == [type |-> type, order |-> o, occurred |-> day]
  <2>1. e \in FactEvent
    BY FactTypes DEF FactEvent
  <2>2. /\ published' = Append(published, e)
        /\ UNCHANGED <<day, consumed, refused, inserted, table>>
    BY <1>1 DEF F!Announce, F!groupVars, F!tableVars
  <2>3. \A i \in DOMAIN published :
          IsVerdict(published[i]) /\ IsVerdict(e) /\ published[i].order = e.order => published[i] = e
    BY <1>1 DEF F!Announce, F!Decided, F!Range, IsVerdict
  <2> HIDE DEF e
  <2> QED
    BY <2>1, <2>2, <2>3, PublishStep
<1>2. ASSUME F!AnnounceAgain PROVE FactInv'
  <2>1. PICK j \in DOMAIN published : published' = Append(published, published[j])
    BY <1>2 DEF F!AnnounceAgain, F!Range
  <2>2. published[j] \in FactEvent /\ UNCHANGED <<day, consumed, refused, inserted, table>>
    BY <1>2, FactTypes DEF F!AnnounceAgain, F!groupVars, F!tableVars
  <2>3. \A i \in DOMAIN published :
          IsVerdict(published[i]) /\ IsVerdict(published[j]) /\ published[i].order = published[j].order
          => published[i] = published[j]
    BY DEF FactInv, VerdictsAreFinal
  <2> QED
    BY <2>1, <2>2, <2>3, PublishStep
<1>3. CASE F!DayEnds
  <2>1. F!TypeOK'
    BY <1>3, FactTypes DEF F!DayEnds, F!groupVars, F!tableVars, FactInv, F!TypeOK, F!FactBounds
  <2>2. UNCHANGED <<published, consumed, refused, inserted, table>>
    BY <1>3 DEF F!DayEnds, F!groupVars, F!tableVars
  <2> QED
    BY <2>1, <2>2 DEF FactInv, VerdictsAreFinal, RowsTellVerdicts, IngestedHaveRows, NewestIsThere,
      RowsAreDistinct, F!Final, IsVerdict, Tells
<1>4. CASE F!Handle
  <2>1. consumed < Len(published) /\ UNCHANGED <<day, published, refused>>
    BY <1>4 DEF F!Handle, F!topicVars
  <2>2. CASE F!Delivered.type = "OrderPlaced"
    BY <1>4, <2>1, <2>2, CommitStep DEF F!Handle, F!tableVars, IsVerdict
  <2>3. CASE F!Delivered.type # "OrderPlaced"
    <3>1. F!Delivered \in FactEvent
      BY <2>1, FactTypes DEF F!Delivered
    <3>2. IsVerdict(F!Delivered)
      BY <2>3, <3>1 DEF FactEvent, F!EventType, IsVerdict
    <3>3. F!Write(F!RowOf(F!Delivered)) /\ consumed' \in {consumed, consumed + 1}
      BY <1>4, <2>3 DEF F!Handle, F!Commit
    <3> QED
      BY <2>1, <3>2, <3>3, WriteStep
  <2> QED
    BY <2>2, <2>3
<1>5. CASE F!ParkEvent
  BY <1>5, CommitStep DEF F!ParkEvent, F!topicVars, F!tableVars
<1>6. CASE UNCHANGED F!vars
  BY <1>6 DEF F!vars, F!topicVars, F!groupVars, F!tableVars, FactInv, F!TypeOK, VerdictsAreFinal,
    RowsTellVerdicts, IngestedHaveRows, NewestIsThere, RowsAreDistinct, F!Final, IsVerdict, Tells
<1> QED
  BY <1>1, <1>2, <1>3, <1>4, <1>5, <1>6, MergeStep DEF F!Next

\* The events that the table tells of, among those that are perhaps ingested.
Told == {e \in F!Doubtful : \E row \in table : row.order = e.order}
Events == F!Ingested \cup Told

LEMMA EventsFit ==
  ASSUME FactInv
  PROVE  /\ \A row \in table : \E e \in Events : IsVerdict(e) /\ Tells(row, e)
         /\ \A e \in Events : IsVerdict(e) => \E row \in table : row.order = e.order
         /\ \A e, f \in Events : IsVerdict(e) /\ IsVerdict(f) /\ e.order = f.order => e = f
<1>1. consumed \in Nat /\ Len(published) \in Nat /\ consumed <= Len(published) /\ DOMAIN published = 1..Len(published)
  BY FactTypes
<1>2. ASSUME NEW row \in table PROVE \E e \in Events : IsVerdict(e) /\ Tells(row, e)
  <2>1. PICK i \in 1..Len(published) : i <= consumed + 1 /\ IsVerdict(published[i]) /\ Tells(row, published[i])
    BY DEF FactInv, RowsTellVerdicts
  <2>2. CASE i \in refused \cup {consumed + 1}
    <3>1. published[i] \in F!Doubtful
      BY <1>1, <2>2 DEF F!Doubtful
    <3>2. published[i] \in Events
      BY <2>1, <3>1 DEF Events, Told, Tells
    <3> QED
      BY <2>1, <3>2
  <2>3. CASE i \notin refused \cup {consumed + 1}
    <3>1. i \in (1..consumed) \ refused
      BY <1>1, <2>1, <2>3
    <3>2. published[i] \in Events
      BY <3>1 DEF Events, F!Ingested
    <3> QED
      BY <2>1, <3>2
  <2> QED
    BY <2>2, <2>3
<1>3. ASSUME NEW e \in Events, IsVerdict(e) PROVE \E row \in table : row.order = e.order
  BY <1>3 DEF Events, Told, F!Ingested, FactInv, IngestedHaveRows
<1>4. \A e \in Events : \E i \in DOMAIN published : e = published[i]
  BY <1>1 DEF Events, Told, F!Ingested, F!Doubtful
<1>5. ASSUME NEW e \in Events, NEW f \in Events, IsVerdict(e), IsVerdict(f), e.order = f.order
      PROVE e = f
  BY <1>4, <1>5 DEF FactInv, VerdictsAreFinal
<1> QED
  BY <1>2, <1>3, <1>5

\* Of an order FINAL returns one row.
LEMMA FinalIsUnique ==
  ASSUME FactInv, NEW row \in F!Final, NEW other \in F!Final, row.order = other.order
  PROVE  row = other
<1>1. row \in table /\ other \in table /\ row.ingested <= other.ingested /\ other.ingested <= row.ingested
  BY DEF F!Final
<1>2. row.ingested \in Int /\ other.ingested \in Int
  BY <1>1, FactTypes DEF F!FactRow
<1> QED
  BY <1>1, <1>2 DEF FactInv, RowsAreDistinct

StatusOf(type) == IF type = "OrderConfirmed" THEN "CONFIRMED" ELSE "CANCELLED"

\* The orders of a verdict in a range of days are those of the rows of its status.
LEMMA RowsShowOrders ==
  ASSUME FactInv, NEW type \in {"OrderConfirmed", "OrderCancelled"}, NEW from, NEW to
  PROVE  F!Announced(Events, type, from, to) = {row.order : row \in F!Rows(StatusOf(type), from, to)}
<1>1. ASSUME NEW o \in F!Announced(Events, type, from, to)
      PROVE \E row \in F!Rows(StatusOf(type), from, to) : row.order = o
  <2>1. PICK e \in Events : e.type = type /\ e.occurred \in from..to /\ e.order = o
    BY DEF F!Announced
  <2>2. PICK row \in F!Final : row.order = o
    BY <2>1, EventsFit DEF IsVerdict, FactInv, NewestIsThere
  <2>3. PICK f \in Events : IsVerdict(f) /\ Tells(row, f)
    BY EventsFit DEF F!Final
  <2>4. f = e
    BY <2>1, <2>2, <2>3, EventsFit DEF Tells, IsVerdict
  <2> QED
    BY <2>1, <2>2, <2>3, <2>4 DEF F!Rows, Tells, StatusOf
<1>2. ASSUME NEW row \in F!Rows(StatusOf(type), from, to)
      PROVE row.order \in F!Announced(Events, type, from, to)
  <2>1. row \in table /\ row.status = StatusOf(type) /\ row.day \in from..to
    BY DEF F!Rows, F!Final
  <2>2. PICK e \in Events : IsVerdict(e) /\ Tells(row, e)
    BY <2>1, EventsFit
  <2>3. e.type = type /\ e.occurred \in from..to /\ e.order = row.order
    BY <2>1, <2>2 DEF IsVerdict, Tells, StatusOf
  <2> QED
    BY <2>3 DEF F!Announced
<1> QED
  BY <1>1, <1>2

\* The instance counts as FiniteSets does.
LEMMA SameFactCount == \A U : F!Cardinality(U) = Cardinality(U)
BY DEF F!Cardinality, Cardinality

\* The units of a numbering.
LEMMA UnitsFit ==
  ASSUME NEW Base, NEW f \in [Base -> Nat]
  PROVE  \A u : u \in F!Units(f) <=> \E x \in Base, n \in Nat : n \in 1..f[x] /\ u = <<x, n>>
BY DEF F!Units

\* A sum of finitely many naturals counts a finite set.
LEMMA SumIsFinite ==
  ASSUME NEW Base, IsFiniteSet(Base), NEW f \in [Base -> Nat]
  PROVE  /\ IsFiniteSet(F!Units(f))
         /\ F!SumOf(f) = Cardinality(F!Units(f))
         /\ F!SumOf(f) \in Nat
<1> DEFINE strip == [x \in Base |-> {x} \X (1..f[x])]
           strips == {{x} \X (1..f[x]) : x \in Base}
<1>1. IsFiniteSet(strips)
  <2>1. strip \in Surjection(Base, strips)
    BY DEF Surjection
  <2> QED
    BY <2>1, FS_Surjection
<1>2. ASSUME NEW x \in Base PROVE IsFiniteSet({x} \X (1..f[x]))
  <2>1. IsFiniteSet({x})
    BY FS_Singleton
  <2>2. IsFiniteSet(1..f[x])
    BY FS_Interval
  <2> QED
    BY <2>1, <2>2, FS_Product
<1>3. \A some \in strips : IsFiniteSet(some)
  BY <1>2
<1>4. F!Units(f) = UNION strips
  BY DEF F!Units
<1> HIDE DEF strips
<1>5. IsFiniteSet(F!Units(f))
  BY <1>1, <1>3, <1>4, FS_UNION
<1>6. F!SumOf(f) = Cardinality(F!Units(f))
  BY SameFactCount DEF F!SumOf
<1> QED
  BY <1>5, <1>6, FS_CardinalityType

\* Equal terms, one for one, have equal sums.
LEMMA SumOfImages ==
  ASSUME NEW Base, IsFiniteSet(Base), NEW Image, NEW f \in [Base -> Nat], NEW g \in [Image -> Nat],
         NEW b \in Bijection(Base, Image), \A x \in Base : g[b[x]] = f[x]
  PROVE  F!SumOf(g) = F!SumOf(f)
<1> DEFINE move == [u \in F!Units(f) |-> <<b[u[1]], u[2]>>]
<1>1. /\ b \in [Base -> Image] /\ \A x, y \in Base : b[x] = b[y] => x = y
      /\ \A z \in Image : \E x \in Base : b[x] = z
  BY DEF Bijection, Injection, Surjection, IsInjective
<1>2. ASSUME NEW u \in F!Units(f) PROVE move[u] \in F!Units(g)
  <2>1. PICK x \in Base, n \in Nat : n \in 1..f[x] /\ u = <<x, n>>
    BY UnitsFit
  <2>2. b[x] \in Image /\ n \in 1..g[b[x]] /\ move[u] = <<b[x], n>>
    BY <1>1, <2>1
  <2> QED
    BY <2>2, UnitsFit
<1>3. ASSUME NEW u \in F!Units(f), NEW v \in F!Units(f), move[u] = move[v] PROVE u = v
  <2>1. PICK x \in Base, n \in Nat : n \in 1..f[x] /\ u = <<x, n>>
    BY UnitsFit
  <2>2. PICK y \in Base, m \in Nat : m \in 1..f[y] /\ v = <<y, m>>
    BY UnitsFit
  <2> QED
    BY <1>1, <1>3, <2>1, <2>2
<1>4. ASSUME NEW w \in F!Units(g) PROVE \E u \in F!Units(f) : move[u] = w
  <2>1. PICK z \in Image, n \in Nat : n \in 1..g[z] /\ w = <<z, n>>
    BY UnitsFit
  <2>2. PICK x \in Base : b[x] = z
    BY <1>1
  <2>3. <<x, n>> \in F!Units(f)
    BY <2>1, <2>2, UnitsFit
  <2> QED
    BY <2>1, <2>2, <2>3
<1>5. move \in Bijection(F!Units(f), F!Units(g))
  BY <1>2, <1>3, <1>4 DEF Bijection, Injection, Surjection, IsInjective
<1>6. IsFiniteSet(F!Units(f))
  BY SumIsFinite
<1>7. Cardinality(F!Units(g)) = Cardinality(F!Units(f))
  BY <1>5, <1>6, FS_Bijection DEF ExistsBijection
<1> QED
  BY <1>7, SameFactCount DEF F!SumOf

\* A numbering f of Base split by the keys of its members: the group of each key,
\* the part of f over that group, and what the part sums up to.
Split(Base, f, K, key, group, part, sum) ==
  /\ IsFiniteSet(Base) /\ f \in [Base -> Nat] /\ key \in [Base -> K] /\ group \in [K -> SUBSET Base]
  /\ \A k \in K : \A x \in Base : x \in group[k] <=> key[x] = k
  /\ \A k \in K : part[k] \in [group[k] -> Nat] /\ \A x \in group[k] : part[k][x] = f[x]
  /\ sum \in [K -> Nat] /\ \A k \in K : sum[k] = F!SumOf(part[k])

\* A sum over groups of the sums within them is the sum of all.
LEMMA SumOfGroups ==
  ASSUME NEW Base, NEW f, NEW K, NEW key, NEW group, NEW part, NEW sum,
         Split(Base, f, K, key, group, part, sum)
  PROVE  F!SumOf(sum) = F!SumOf(f)
<1> /\ IsFiniteSet(Base) /\ f \in [Base -> Nat] /\ key \in [Base -> K] /\ group \in [K -> SUBSET Base]
    /\ \A k \in K : \A x \in Base : x \in group[k] <=> key[x] = k
    /\ \A k \in K : part[k] \in [group[k] -> Nat] /\ \A x \in group[k] : part[k][x] = f[x]
    /\ sum \in [K -> Nat] /\ \A k \in K : sum[k] = F!SumOf(part[k])
  BY DEF Split
<1> DEFINE enum == [k \in K |-> CHOOSE b : b \in Bijection(1..sum[k], F!Units(part[k]))]
           move == [u \in F!Units(sum) |-> enum[u[1]][u[2]]]
<1>1. ASSUME NEW k \in K
      PROVE  /\ enum[k] \in Bijection(1..sum[k], F!Units(part[k]))
             /\ \A w : w \in F!Units(part[k]) <=> w \in F!Units(f) /\ key[w[1]] = k
  <2>1. group[k] \in SUBSET Base /\ part[k] \in [group[k] -> Nat]
    OBVIOUS
  <2>2. IsFiniteSet(group[k])
    BY <2>1, FS_Subset
  <2>3. IsFiniteSet(F!Units(part[k])) /\ sum[k] = Cardinality(F!Units(part[k]))
    BY <2>1, <2>2, SumIsFinite
  <2>4. ExistsBijection(1..sum[k], F!Units(part[k]))
    BY <2>3, FS_CardinalityType
  <2>5. enum[k] \in Bijection(1..sum[k], F!Units(part[k]))
    BY <2>4 DEF ExistsBijection
  <2>6. \A w : w \in F!Units(part[k]) <=> \E x \in group[k], n \in Nat : n \in 1..part[k][x] /\ w = <<x, n>>
    BY <2>1, UnitsFit
  <2>7. \A w : w \in F!Units(f) <=> \E x \in Base, n \in Nat : n \in 1..f[x] /\ w = <<x, n>>
    BY UnitsFit
  <2>8. \A w : w \in F!Units(part[k]) <=> w \in F!Units(f) /\ key[w[1]] = k
    BY <2>6, <2>7
  <2> QED
    BY <2>5, <2>8
<1>2. ASSUME NEW k \in K
      PROVE  /\ \A n \in 1..sum[k] : enum[k][n] \in F!Units(f) /\ key[enum[k][n][1]] = k
             /\ \A n, m \in 1..sum[k] : enum[k][n] = enum[k][m] => n = m
             /\ \A w \in F!Units(f) : key[w[1]] = k => \E n \in 1..sum[k] : enum[k][n] = w
  <2> HIDE DEF enum
  <2>1. /\ enum[k] \in [1..sum[k] -> F!Units(part[k])]
        /\ \A n, m \in 1..sum[k] : enum[k][n] = enum[k][m] => n = m
        /\ \A w \in F!Units(part[k]) : \E n \in 1..sum[k] : enum[k][n] = w
    BY <1>1 DEF Bijection, Injection, Surjection, IsInjective
  <2> QED
    BY <1>1, <2>1
<1>3. \A u : u \in F!Units(sum) <=> \E k \in K, n \in Nat : n \in 1..sum[k] /\ u = <<k, n>>
  BY UnitsFit
<1> HIDE DEF enum
<1>4. ASSUME NEW u \in F!Units(sum) PROVE move[u] \in F!Units(f)
  BY <1>2, <1>3
<1>5. ASSUME NEW u \in F!Units(sum), NEW v \in F!Units(sum), move[u] = move[v] PROVE u = v
  <2>1. PICK k \in K, n \in Nat : n \in 1..sum[k] /\ u = <<k, n>>
    BY <1>3
  <2>2. PICK l \in K, m \in Nat : m \in 1..sum[l] /\ v = <<l, m>>
    BY <1>3
  <2>3. enum[k][n] = enum[l][m]
    BY <1>5, <2>1, <2>2
  <2>4. key[enum[k][n][1]] = k /\ key[enum[l][m][1]] = l
    BY <1>2, <2>1, <2>2
  <2>5. k = l
    BY <2>3, <2>4
  <2>6. n = m
    BY <1>2, <2>1, <2>2, <2>3, <2>5
  <2> QED
    BY <2>1, <2>2, <2>5, <2>6
<1>6. ASSUME NEW w \in F!Units(f) PROVE \E u \in F!Units(sum) : move[u] = w
  <2>1. PICK x \in Base, i \in Nat : i \in 1..f[x] /\ w = <<x, i>>
    BY UnitsFit
  <2>2. key[x] \in K /\ key[w[1]] = key[x]
    BY <2>1
  <2>3. PICK n \in 1..sum[key[x]] : enum[key[x]][n] = w
    BY <1>2, <2>2
  <2>4. <<key[x], n>> \in F!Units(sum)
    BY <1>3, <2>2
  <2> QED
    BY <2>3, <2>4
<1>7. move \in Bijection(F!Units(sum), F!Units(f))
  BY <1>4, <1>5, <1>6 DEF Bijection, Injection, Surjection, IsInjective
<1> HIDE DEF move
<1>8. IsFiniteSet(F!Units(f))
  BY SumIsFinite
<1>9. ExistsBijection(F!Units(f), F!Units(sum))
  BY <1>7, Fun_ExistsBijSymmetric DEF ExistsBijection
<1>10. Cardinality(F!Units(sum)) = Cardinality(F!Units(f))
  BY <1>8, <1>9, FS_Bijection
<1> QED
  BY <1>10, SameFactCount DEF F!SumOf

\* Among finitely many there is one with the greatest number.
LEMMA GreatestExists ==
  ASSUME NEW Base, IsFiniteSet(Base), Base # {}, NEW f \in [Base -> Nat]
  PROVE  \E x \in Base : \A y \in Base : f[x] >= f[y]
<1> DEFINE above(x) == {y \in Base : f[y] > f[x]}
           all == {above(x) : x \in Base}
<1>1. IsWellFoundedOn(StrictSubsetOrdering(Base), SUBSET Base)
  BY FS_StrictSubsetOrderingWellFounded, FS_FiniteSubsetsOfFinite
<1>2. all \subseteq SUBSET Base /\ all # {}
  <2>1. PICK x \in Base : TRUE
    OBVIOUS
  <2>2. above(x) \in all
    OBVIOUS
  <2>3. \A z \in Base : above(z) \in SUBSET Base
    OBVIOUS
  <2> HIDE DEF above
  <2> QED
    BY <2>2, <2>3
<1> HIDE DEF all
<1>3. PICK least \in all : \A other \in all : ~ (<<other, least>> \in StrictSubsetOrdering(Base))
  BY <1>1, <1>2, WFMin
<1> USE DEF all
<1>4. PICK x \in Base : least = above(x)
  OBVIOUS
<1>5. ASSUME NEW y \in Base, f[y] > f[x] PROVE FALSE
  <2>1. above(y) \subseteq above(x) /\ y \in above(x) /\ y \notin above(y)
    BY <1>5
  <2>2. above(y) \in all
    OBVIOUS
  <2>3. <<above(y), above(x)>> \in StrictSubsetOrdering(Base)
    <3>1. above(y) \in SUBSET Base /\ above(x) \in SUBSET Base /\ above(y) # above(x)
      BY <2>1
    <3> HIDE DEF above
    <3> QED
      BY <2>1, <3>1 DEF StrictSubsetOrdering
  <2> QED
    BY <1>3, <1>4, <2>2, <2>3
<1> QED
  BY <1>5

\* The rows of a status are finitely many, and one of each order.
LEMMA RowsFinite ==
  ASSUME F!FactBounds, FactInv, NEW label, NEW from, NEW to
  PROVE  /\ IsFiniteSet(F!Rows(label, from, to))
         /\ F!Rows(label, from, to) \subseteq F!Final
         /\ F!Rows(label, from, to) \subseteq F!FactRow
<1> DEFINE rows == F!Rows(label, from, to)
           when == [row \in rows |-> row.ingested]
<1>1. rows \subseteq F!Final /\ F!Final \subseteq table
  BY DEF F!Rows, F!Final
<1>2. rows \subseteq F!FactRow
  BY <1>1, FactTypes
<1> HIDE DEF rows
<1>3. \A row \in rows : row.ingested \in 1..MaxRows
  BY <1>2 DEF F!FactRow
<1>4. \A row, other \in rows : row.ingested = other.ingested => row = other
  BY <1>1 DEF FactInv, RowsAreDistinct
<1>5. when \in Injection(rows, 1..MaxRows)
  BY <1>3, <1>4 DEF Injection, IsInjective
<1>6. IsFiniteSet(1..MaxRows)
  BY FS_Interval DEF F!FactBounds
<1> QED
  BY <1>1, <1>2, <1>5, <1>6, FS_Injection DEF rows

\* Every order has its row.
LEMMA RowsMatchOrders ==
  ASSUME FactInv, NEW type \in {"OrderConfirmed", "OrderCancelled"}, NEW from, NEW to
  PROVE  LET rows == F!Rows(StatusOf(type), from, to)
         IN  [row \in rows |-> row.order] \in Bijection(rows, F!Announced(Events, type, from, to))
<1> DEFINE rows == F!Rows(StatusOf(type), from, to)
           shown == F!Announced(Events, type, from, to)
           order == [row \in rows |-> row.order]
<1>1. rows \subseteq F!Final
  BY DEF F!Rows
<1>2. shown = {row.order : row \in rows}
  BY RowsShowOrders
<1> HIDE DEF rows, shown
<1>3. \A row, other \in rows : row.order = other.order => row = other
  BY <1>1, FinalIsUnique
<1>4. order \in [rows -> shown] /\ \A o \in shown : \E row \in rows : order[row] = o
  BY <1>2
<1>5. order \in Bijection(rows, shown)
  BY <1>3, <1>4 DEF Bijection, Injection, Surjection, IsInjective
<1> QED
  BY <1>5 DEF rows, shown

\* There are as many.
LEMMA RowsCountOrders ==
  ASSUME F!FactBounds, FactInv, NEW type \in {"OrderConfirmed", "OrderCancelled"}, NEW from, NEW to
  PROVE  Cardinality(F!Rows(StatusOf(type), from, to)) = Cardinality(F!Announced(Events, type, from, to))
<1> DEFINE rows == F!Rows(StatusOf(type), from, to)
           shown == F!Announced(Events, type, from, to)
<1>1. IsFiniteSet(rows)
  BY RowsFinite
<1>2. [row \in rows |-> row.order] \in Bijection(rows, shown)
  BY RowsMatchOrders
<1> HIDE DEF rows, shown
<1> QED
  BY <1>1, <1>2, FS_Bijection DEF ExistsBijection, rows, shown

\* A confirmed row has the total and the restaurant of its order.
LEMMA ConfirmedRows ==
  ASSUME FactInv, NEW from, NEW to, NEW row \in F!Rows("CONFIRMED", from, to)
  PROVE  row.total = Total[row.order] /\ row.restaurant = Sellers[row.order]
<1>1. row \in table /\ row.status = "CONFIRMED"
  BY DEF F!Rows, F!Final
<1>2. PICK e \in Events : IsVerdict(e) /\ Tells(row, e)
  BY <1>1, EventsFit
<1> QED
  BY <1>1, <1>2 DEF Tells, IsVerdict

\* A choice of the best restaurants is one: where all are asked for, all of
\* them, and where one is, one with the greatest revenue.
LEMMA BestFits ==
  ASSUME NEW rows, IsFiniteSet(rows), NEW limit \in Nat,
         limit = 1 \/ limit >= Cardinality(F!Named(rows)),
         \A r \in F!Named(rows) : F!At(r, rows).revenueCents \in Nat
  PROVE  /\ F!Best(rows, limit) \subseteq F!Named(rows)
         /\ limit >= Cardinality(F!Named(rows)) => F!Best(rows, limit) = F!Named(rows)
<1> DEFINE named == F!Named(rows)
           revenue == [r \in named |-> F!At(r, rows).revenueCents]
           Allowed(some) ==
             /\ F!Cardinality(some) = F!Min({limit, F!Cardinality(named)})
             /\ \A r \in some, other \in named \ some :
                  F!At(r, rows).revenueCents >= F!At(other, rows).revenueCents
<1>1. IsFiniteSet(named) /\ Cardinality(named) \in Nat
  <2>1. [row \in rows |-> row.restaurant] \in Surjection(rows, named)
    BY DEF F!Named, Surjection
  <2>2. IsFiniteSet(named)
    BY <2>1, FS_Surjection
  <2> QED
    BY <2>2, FS_CardinalityType
<1>2. revenue \in [named -> Nat]
  OBVIOUS
<1>3. F!Best(rows, limit) = CHOOSE some \in SUBSET named : Allowed(some)
  BY DEF F!Best
<1> HIDE DEF named
<1>4. F!Min({limit, Cardinality(named)}) = IF limit <= Cardinality(named) THEN limit ELSE Cardinality(named)
  <2> DEFINE least == IF limit <= Cardinality(named) THEN limit ELSE Cardinality(named)
  <2>1. \A m \in {limit, Cardinality(named)} :
          (\A n \in {limit, Cardinality(named)} : m <= n) <=> m = least
    BY <1>1
  <2>2. least \in {limit, Cardinality(named)}
    OBVIOUS
  <2> QED
    BY <2>1, <2>2 DEF F!Min
<1>5. \E some \in SUBSET named : Allowed(some)
  <2>1. CASE limit >= Cardinality(named)
    <3>1. Allowed(named)
      BY <1>1, <1>4, <2>1, SameFactCount
    <3> QED
      BY <3>1
  <2>2. CASE limit < Cardinality(named)
    <3>1. limit = 1 /\ named # {}
      BY <1>1, <2>2, FS_EmptySet DEF named
    <3>2. PICK r \in named : \A other \in named : revenue[r] >= revenue[other]
      BY <1>1, <1>2, <3>1, GreatestExists
    <3>3. Cardinality({r}) = 1
      BY FS_Singleton
    <3>4. Allowed({r})
      BY <1>1, <1>4, <2>2, <3>1, <3>2, <3>3, SameFactCount
    <3> QED
      BY <3>4
  <2> QED
    BY <1>1, <2>1, <2>2
<1>6. F!Best(rows, limit) \in SUBSET named /\ Allowed(F!Best(rows, limit))
  <2> HIDE DEF Allowed
  <2> QED
    BY <1>3, <1>5
<1>7. ASSUME limit >= Cardinality(named) PROVE F!Best(rows, limit) = named
  <2>1. Cardinality(F!Best(rows, limit)) = Cardinality(named)
    BY <1>1, <1>4, <1>6, <1>7, SameFactCount
  <2> QED
    BY <1>1, <1>6, <2>1, FS_Subset
<1> QED
  BY <1>6, <1>7 DEF named

\* The points of the groups of the rows of each key.
Grouped(rows, K, key, group, points) ==
  /\ IsFiniteSet(rows) /\ \A row \in rows : row.total \in Nat
  /\ key \in [rows -> K] /\ group \in [K -> SUBSET rows]
  /\ \A k \in K : \A row \in rows : row \in group[k] <=> key[row] = k
  /\ DOMAIN points = K /\ \A k \in K : points[k] = F!Point(group[k])

\* Their revenues sum up to that of all rows.
LEMMA PointsSum ==
  ASSUME NEW rows, NEW K, NEW key, NEW group, NEW points, Grouped(rows, K, key, group, points)
  PROVE  /\ F!Revenue(points) = F!SumOf([row \in rows |-> row.total])
         /\ \A k \in K : points[k].revenueCents \in Nat
<1> /\ IsFiniteSet(rows) /\ \A row \in rows : row.total \in Nat
    /\ key \in [rows -> K] /\ group \in [K -> SUBSET rows]
    /\ \A k \in K : \A row \in rows : row \in group[k] <=> key[row] = k
    /\ DOMAIN points = K /\ \A k \in K : points[k] = F!Point(group[k])
  BY DEF Grouped
<1> DEFINE total == [row \in rows |-> row.total]
           part == [k \in K |-> [row \in group[k] |-> row.total]]
           sum == [k \in K |-> points[k].revenueCents]
<1>1. total \in [rows -> Nat]
  OBVIOUS
<1>2. ASSUME NEW k \in K
      PROVE  /\ part[k] \in [group[k] -> Nat] /\ \A row \in group[k] : part[k][row] = total[row]
             /\ sum[k] = F!SumOf(part[k]) /\ points[k].revenueCents = sum[k] /\ sum[k] \in Nat
  <2>1. points[k].revenueCents = F!SumOf(part[k])
    BY DEF F!Point
  <2>2. group[k] \in SUBSET rows
    OBVIOUS
  <2>3. part[k] \in [group[k] -> Nat] /\ \A row \in group[k] : part[k][row] = total[row]
    BY <2>2
  <2> HIDE DEF part
  <2>4. F!SumOf(part[k]) \in Nat
    BY <2>2, <2>3, FS_Subset, SumIsFinite
  <2> QED
    BY <2>1, <2>3, <2>4
<1>3. sum \in [K -> Nat]
  BY <1>2
<1>4. F!Revenue(points) = F!SumOf(sum)
  BY DEF F!Revenue
<1> HIDE DEF sum, total, part
<1>5. Split(rows, total, K, key, group, part, sum)
  BY <1>1, <1>2, <1>3 DEF Split
<1>6. F!SumOf(sum) = F!SumOf(total)
  BY <1>5, SumOfGroups
<1> QED
  BY <1>2, <1>4, <1>6 DEF sum, total

\* Where every order has its row, the rows sum up to what the orders are worth.
LEMMA RowsSum ==
  ASSUME F!FactBounds, NEW some, IsFiniteSet(some), NEW shown, shown \subseteq Placed,
         [row \in some |-> row.order] \in Bijection(some, shown),
         \A row \in some : row.total = Total[row.order]
  PROVE  F!SumOf([o \in shown |-> Total[o]]) = F!SumOf([row \in some |-> row.total])
<1> DEFINE order == [row \in some |-> row.order]
           worth == [o \in shown |-> Total[o]]
           total == [row \in some |-> row.total]
<1>1. worth \in [shown -> Nat]
  BY DEF F!FactBounds
<1>2. \A row \in some : row.order \in shown /\ order[row] = row.order
  BY DEF Bijection, Surjection
<1>3. total \in [some -> Nat] /\ \A row \in some : worth[order[row]] = total[row]
  BY <1>1, <1>2
<1>4. order \in Bijection(some, shown)
  OBVIOUS
<1> HIDE DEF worth, total, order
<1>5. F!SumOf(worth) = F!SumOf(total)
  BY <1>1, <1>3, <1>4, SumOfImages
<1> QED
  BY <1>5 DEF worth, total

\* The dashboards of a range of days.
LEMMA DashboardsFit ==
  ASSUME F!FactBounds, IsFiniteSet(Placed), FactInv, NEW from, NEW to
  PROVE  F!ShowEvents(Events, from, to)
<1> DEFINE rows == F!Rows("CONFIRMED", from, to)
           confirmed == F!Announced(Events, "OrderConfirmed", from, to)
           sold == {row \in rows : row.restaurant # Nowhere}
           attributed == {o \in confirmed : Sellers[o] # Nowhere}
           total == [row \in rows |-> row.total]
           order == [row \in rows |-> row.order]
           summary == F!Summary(from, to)
           Top(limit) == F!TopRestaurants(from, to, limit)
<1>1. /\ StatusOf("OrderConfirmed") = "CONFIRMED" /\ StatusOf("OrderCancelled") = "CANCELLED"
      /\ "OrderConfirmed" \in {"OrderConfirmed", "OrderCancelled"}
      /\ "OrderCancelled" \in {"OrderConfirmed", "OrderCancelled"}
  BY DEF StatusOf
<1>2. IsFiniteSet(rows) /\ rows \subseteq F!Final /\ rows \subseteq F!FactRow
  BY RowsFinite
<1>3. order \in Bijection(rows, confirmed) /\ Cardinality(confirmed) = Cardinality(rows)
  BY <1>1, RowsMatchOrders, RowsCountOrders
<1>4. \A row \in rows : row.total = Total[row.order] /\ row.restaurant = Sellers[row.order] /\ row.order \in Placed
  BY <1>2, ConfirmedRows DEF F!FactRow
<1>5. \A row \in rows : row.total \in Nat
  BY <1>4 DEF F!FactBounds
<1>6. confirmed \subseteq Placed
  <2>1. \A z \in confirmed : \E row \in rows : order[row] = z
    BY <1>3 DEF Bijection, Surjection
  <2> QED
    BY <1>4, <2>1
<1>7. summary.revenueCents = F!SumOf(total)
  BY DEF F!Summary, F!Point
<1>8. /\ summary.confirmedCount = F!Cardinality(rows)
      /\ summary.cancelledCount = F!Cardinality(F!Rows("CANCELLED", from, to))
  BY DEF F!Summary
<1>9. F!RevenueSeries(from, to) = [d \in {row.day : row \in rows} |-> F!Point({row \in rows : row.day = d})]
  BY DEF F!RevenueSeries
<1>10. \A limit : Top(limit) = [r \in F!Best(sold, limit) |-> F!At(r, sold)]
  BY DEF F!TopRestaurants
<1>11. Cardinality(F!Rows("CANCELLED", from, to)) = Cardinality(F!Announced(Events, "OrderCancelled", from, to))
  BY <1>1, RowsCountOrders
<1> HIDE DEF rows, confirmed
<1>12. F!SumOf([o \in confirmed |-> Total[o]]) = F!SumOf(total)
  BY <1>2, <1>3, <1>4, <1>6, RowsSum
<1>13. IsFiniteSet(sold) /\ Cardinality(sold) <= Cardinality(rows) /\ attributed \subseteq Placed
  BY <1>2, <1>6, FS_Subset
<1>14. F!SumOf([o \in attributed |-> Total[o]]) = F!SumOf([row \in sold |-> row.total])
  <2> DEFINE part == [row \in sold |-> row.order]
  <2>1. \A row, other \in rows : row.order = other.order => row = other
    BY <1>3 DEF Bijection, Injection, IsInjective
  <2>2. \A row \in rows : row.order \in confirmed
    BY <1>3 DEF Bijection, Surjection
  <2>3. \A o \in confirmed : \E row \in rows : row.order = o
    BY <1>3 DEF Bijection, Surjection
  <2>4. part \in [sold -> attributed] /\ \A o \in attributed : \E row \in sold : part[row] = o
    BY <1>4, <2>2, <2>3
  <2>5. part \in Bijection(sold, attributed)
    BY <2>1, <2>4 DEF Bijection, Injection, Surjection, IsInjective
  <2> QED
    BY <1>4, <1>13, <2>5, RowsSum
<1> HIDE DEF attributed
<1>15. F!Revenue(F!RevenueSeries(from, to)) = F!SumOf(total)
  <2> DEFINE days == {row.day : row \in rows}
             dayOf == [row \in rows |-> row.day]
             points == F!RevenueSeries(from, to)
             group == [d \in days |-> {row \in rows : row.day = d}]
  <2>1. dayOf \in [rows -> days] /\ DOMAIN points = days
    BY <1>9
  <2>2. \A d \in days : points[d] = F!Point(group[d])
    BY <1>9
  <2>3. group \in [days -> SUBSET rows] /\ \A d \in days : \A row \in rows : row \in group[d] <=> dayOf[row] = d
    OBVIOUS
  <2> HIDE DEF days, dayOf, group, points
  <2>4. Grouped(rows, days, dayOf, group, points)
    BY <1>2, <1>5, <2>1, <2>2, <2>3 DEF Grouped
  <2>5. F!Revenue(points) = F!SumOf([row \in rows |-> row.total])
    BY <2>4, PointsSum
  <2> QED
    BY <2>5 DEF points
<1>16. /\ IsFiniteSet(F!Named(sold)) /\ Cardinality(Placed) \in Nat
       /\ Cardinality(Placed) >= Cardinality(F!Named(sold))
  <2>1. [row \in sold |-> row.restaurant] \in Surjection(sold, F!Named(sold))
    BY DEF F!Named, Surjection
  <2>2. IsFiniteSet(F!Named(sold)) /\ Cardinality(F!Named(sold)) <= Cardinality(sold)
    BY <1>13, <2>1, FS_Surjection
  <2>3. IsFiniteSet(confirmed) /\ Cardinality(confirmed) <= Cardinality(Placed)
    BY <1>6, FS_Subset
  <2>4. Cardinality(F!Named(sold)) \in Nat /\ Cardinality(rows) \in Nat /\ Cardinality(sold) \in Nat /\ Cardinality(Placed) \in Nat
    BY <1>2, <1>13, <2>2, FS_CardinalityType
  <2> QED
    BY <1>3, <1>13, <2>2, <2>3, <2>4
<1>17. /\ F!Revenue([r \in F!Named(sold) |-> F!At(r, sold)]) = F!SumOf([row \in sold |-> row.total])
       /\ \A r \in F!Named(sold) : F!At(r, sold).revenueCents \in Nat
  <2> DEFINE named == F!Named(sold)
             restaurant == [row \in sold |-> row.restaurant]
             points == [r \in named |-> F!At(r, sold)]
             group == [r \in named |-> {row \in sold : row.restaurant = r}]
  <2>1. restaurant \in [sold -> named] /\ DOMAIN points = named
    BY DEF F!Named
  <2>2. group \in [named -> SUBSET sold] /\ \A r \in named : \A row \in sold : row \in group[r] <=> restaurant[row] = r
    OBVIOUS
  <2>3. \A r \in named : points[r] = F!At(r, sold) /\ points[r] = F!Point(group[r])
    BY DEF F!At
  <2> HIDE DEF named, restaurant, points, group
  <2>4. Grouped(sold, named, restaurant, group, points)
    BY <1>5, <1>13, <2>1, <2>2, <2>3 DEF Grouped
  <2>5. /\ F!Revenue(points) = F!SumOf([row \in sold |-> row.total])
        /\ \A r \in named : points[r].revenueCents \in Nat
    BY <2>4, PointsSum
  <2> QED
    BY <2>3, <2>5 DEF named, points
<1>18. F!Best(sold, Cardinality(Placed)) = F!Named(sold) /\ F!Best(sold, 1) \subseteq F!Named(sold)
  BY <1>5, <1>13, <1>16, <1>17, BestFits
<1>19. Top(F!Cardinality(Placed)) = [r \in F!Named(sold) |-> F!At(r, sold)]
  BY <1>10, <1>18, SameFactCount
<1>20. \A r \in DOMAIN Top(1) : Top(1)[r] = Top(F!Cardinality(Placed))[r]
  BY <1>10, <1>18, <1>19
<1> HIDE DEF Top, summary, total
<1>21. F!Revenue(Top(F!Cardinality(Placed))) = F!SumOf([o \in attributed |-> Total[o]])
  BY <1>14, <1>17, <1>19
<1> QED
  BY <1>3, <1>7, <1>8, <1>11, <1>12, <1>15, <1>20, <1>21, SameFactCount DEF Top, summary, rows, confirmed, attributed, F!ShowEvents

\* The events told of are those consumed and some that are in doubt.
LEMMA FactsAgree ==
  ASSUME F!FactBounds, IsFiniteSet(Placed), FactInv
  PROVE  F!DashboardsCountOnce
<1>1. Told \in SUBSET F!Doubtful
  BY DEF Told
<1>2. \A from, to : F!ShowEvents(F!Ingested \cup Told, from, to)
  BY DashboardsFit DEF Events
<1> QED
  BY <1>1, <1>2 DEF F!DashboardsCountOnce

\* However often events are published, delivered and inserted, and whatever
\* merges ran, the queries of apps/analytics enum every ingested order once, at
\* the time of its verdict, and agree with each other, their sums included.
THEOREM DashboardsCountOrders ==
  ASSUME F!FactBounds, IsFiniteSet(Placed)
  PROVE  F!Spec => [](F!TypeOK /\ F!DashboardsCountOnce)
<1>1. F!Init => FactInv
  BY FactInit
<1>2. FactInv /\ [F!Next]_(F!vars) => FactInv'
  BY FactStep
<1>3. FactInv => F!TypeOK /\ F!DashboardsCountOnce
  BY FactsAgree DEF FactInv
<1> QED
  BY <1>1, <1>2, <1>3, PTL DEF F!Spec

\* What analytics does here it does in its module.
LEMMA AnalyticsTurn ==
  ASSUME running = "analytics", [ServicesNext]_allVars
  PROVE  [F!Next]_(F!vars)
<1>1. CASE AnalyticsSteps
  BY <1>1 DEF AnalyticsSteps, F!Next
<1>2. CASE UNCHANGED allVars
  BY <1>2 DEF allVars, factVars, F!vars, F!topicVars, F!groupVars, F!tableVars
<1> QED
  BY <1>1, <1>2, Turns

\* MCServices' ReadSidesAgree, of the views that catalog and search keep of ratings
\* and of the dashboards, whatever finitely many orders are announced.
THEOREM ReadSidesService == ASSUME IsFiniteSet(Placed) PROVE ServicesSpec => []ReadSidesAgree
<1> DEFINE Inv == running = "analytics" => FactInv
           Agrees == running = "analytics" => F!TypeOK /\ F!DashboardsCountOnce
           Shows == running = "views" => V!TypeOK /\ V!CaughtUpViewsAgree
<1>1. ServicesInit => Inv
  BY FactInit, ServicesAssumption DEF ServicesInit
<1>2. Inv /\ [ServicesNext]_allVars => Inv'
  <2> SUFFICES ASSUME Inv, [ServicesNext]_allVars, running' = "analytics" PROVE FactInv'
    OBVIOUS
  <2>1. running = "analytics"
    BY Turns
  <2> QED
    BY <2>1, FactStep, AnalyticsTurn, ServicesAssumption
<1>3. Inv => Agrees
  BY FactsAgree, ServicesAssumption DEF FactInv
<1>4. ServicesSpec => []Shows
  BY ViewService
<1>5. Agrees /\ Shows => ReadSidesAgree
  BY DEF ReadSidesAgree
<1> HIDE DEF Inv, Agrees, Shows
<1> QED
  BY <1>1, <1>2, <1>3, <1>4, <1>5, PTL DEF ServicesSpec
=============================================================================
