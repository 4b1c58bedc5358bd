----------------------- MODULE SupportServicesProofs ------------------------
(***************************************************************************)
(* Proofs about the services beside the order: the assignment of drivers,  *)
(* notifications, uploads, the gateway, the settings client and the        *)
(* provisioning of users.  Each is proved for any values of its constants, *)
(* in its module's Spec and where MCServices runs it.                      *)
(*                                                                         *)
(* Whatever names an operator of a service's module has its letter before  *)
(* it: N for Notification, M for MediaUpload, G for GatewayEdge, S for     *)
(* Settings and A for Provisioning; DriverAssignment's have none.          *)
(***************************************************************************)
EXTENDS MCServices, TLAPS

\* Each step belongs to the service that runs, which stays the same.
LEMMA Turns ==
  ASSUME [ServicesNext]_allVars
  PROVE  /\ running' = running
         /\ running = "notification" => NotificationSteps \/ UNCHANGED allVars
         /\ running = "media" => MediaSteps \/ UNCHANGED allVars
         /\ running = "gateway" => GatewaySteps \/ UNCHANGED allVars
         /\ running = "settings" => SettingsSteps \/ UNCHANGED allVars
         /\ running = "auth" => AuthSteps \/ UNCHANGED allVars
<1>1. Delivery => running = "delivery" /\ running' = running
  BY DEF Delivery, Only
<1>2. NotificationSteps => running = "notification" /\ running' = running
  BY DEF NotificationSteps, Only
<1>3. MediaSteps => running = "media" /\ running' = running
  BY DEF MediaSteps, Only
<1>4. ReviewSteps => running = "review" /\ running' = running
  BY DEF ReviewSteps, Only
<1>5. ViewSteps => running = "views" /\ running' = running
  BY DEF ViewSteps, Only
<1>6. OrderSteps => running = "order" /\ running' = running
  BY DEF OrderSteps, Only
<1>7. GatewaySteps => running = "gateway" /\ running' = running
  BY DEF GatewaySteps, Only
<1>8. SettingsSteps => running = "settings" /\ running' = running
  BY DEF SettingsSteps, Only
<1>9. AuthSteps => running = "auth" /\ running' = running
  BY DEF AuthSteps, Only
<1>10. AnalyticsSteps => running = "analytics" /\ running' = running
  BY DEF AnalyticsSteps, Only
<1>11. PartitionSteps => running = "partitions" /\ running' = running
  BY DEF PartitionSteps, Only
<1>12. CASE UNCHANGED allVars
  BY <1>12 DEF allVars
<1> QED
  BY <1>1, <1>2, <1>3, <1>4, <1>5, <1>6, <1>7, <1>8, <1>9, <1>10, <1>11, <1>12 DEF ServicesNext

-----------------------------------------------------------------------------
(* DriverAssignment.  DriverHasOneOrder is inductive: a claim takes a      *)
(* driver that is not busy for an order that has none, whatever roster it  *)
(* read before.  That an assignment is final also needs the verdicts: only *)
(* a confirmed order is claimed, so the release of a cancelled one finds   *)
(* nothing to release.                                                     *)

\* What keeps releases away from assignments.
ClaimsAreConfirmed ==
  /\ \A m \in Members : handling[m].pc = "CLAIM" =>
       /\ handling[m].order \in Orders
       /\ verdict[handling[m].order] = "OrderConfirmed"
  /\ \A o \in Orders : verdict[o] = "OrderCancelled" => assigned[o] = NoOne

\* A connection that is not closed belongs to a driver.
SocketsHaveDrivers == \A s \in Sockets : socket[s].state # "CLOSED" => socket[s].driver \in Drivers

DeliveryInv == TypeOK /\ DriverHasOneOrder /\ ClaimsAreConfirmed /\ SocketsHaveDrivers

Roster == [Orders -> Drivers \cup {NoOne}]

StoreType == assigned \in Roster /\ busy \in SUBSET Drivers /\ ordersOf \in [Drivers -> SUBSET Orders]

\* Changes of the keys are changes of the right kind.
LEMMA ClaimType ==
  ASSUME StoreType, NEW o \in Orders, NEW candidates, Claim(o, candidates)
  PROVE  StoreType'
BY NoOneAssumption DEF StoreType, Roster, Claim, Free, storeVars

LEMMA ReleaseType ==
  ASSUME StoreType, NEW o \in Orders, Release(o)
  PROVE  StoreType'
<1>1. CASE assigned[o] = NoOne
  BY <1>1 DEF StoreType, Release, storeVars
<1>2. CASE assigned[o] # NoOne
  <2>1. assigned[o] \in Drivers
    BY <1>2 DEF StoreType, Roster
  <2> QED
    BY <1>2, <2>1 DEF StoreType, Roster, Release
<1> QED
  BY <1>1, <1>2

\* A claim leaves one order to a driver: it takes one that has none.
LEMMA ClaimKeepsOne ==
  ASSUME StoreType, DriverHasOneOrder, NEW o \in Orders, NEW candidates, Claim(o, candidates)
  PROVE  DriverHasOneOrder'
<1>1. CASE assigned[o] # NoOne \/ candidates \cap Free = {}
  BY <1>1 DEF Claim, storeVars, DriverHasOneOrder
<1>2. CASE ~(assigned[o] # NoOne \/ candidates \cap Free = {})
  <2>1. PICK d \in candidates \cap Free :
          /\ assigned' = [assigned EXCEPT ![o] = d]
          /\ busy' = busy \cup {d}
          /\ ordersOf' = [ordersOf EXCEPT ![d] = @ \cup {o}]
    BY <1>2 DEF Claim
  <2>2. d \in Drivers /\ d \notin busy /\ d # NoOne
    BY <2>1, NoOneAssumption DEF Free
  <2>3. assigned[o] = NoOne
    BY <1>2
  <2>4. ordersOf[d] = {} /\ \A p \in Orders : assigned[p] # d
    BY <2>2 DEF DriverHasOneOrder
  <2>5. \A p \in Orders : assigned'[p] = IF p = o THEN d ELSE assigned[p]
    BY <2>1 DEF StoreType, Roster
  <2>6. \A e \in Drivers : ordersOf'[e] = IF e = d THEN {o} ELSE ordersOf[e]
    BY <2>1, <2>4 DEF StoreType
  <2>7. (\A p, q \in Orders : assigned[p] # NoOne /\ assigned[p] = assigned[q] => p = q)'
    BY <2>4, <2>5 DEF DriverHasOneOrder
  <2>8. (\A e \in Drivers : ordersOf[e] = {p \in Orders : assigned[p] = e})'
    <3> SUFFICES ASSUME NEW e \in Drivers
                 PROVE  ordersOf'[e] = {p \in Orders : assigned'[p] = e}
      OBVIOUS
    <3>1. CASE e = d
      BY <3>1, <2>4, <2>5, <2>6
    <3>2. CASE e # d
      <4>1. ordersOf'[e] = {p \in Orders : assigned[p] = e}
        BY <3>2, <2>6 DEF DriverHasOneOrder
      <4>2. \A p \in Orders : assigned'[p] = e <=> assigned[p] = e
        BY <3>2, <2>3, <2>5, NoOneAssumption
      <4> QED
        BY <4>1, <4>2
    <3> QED
      BY <3>1, <3>2
  <2>9. (busy = {e \in Drivers : ordersOf[e] # {}})'
    BY <2>1, <2>2, <2>6 DEF DriverHasOneOrder
  <2> QED
    BY <2>7, <2>8, <2>9 DEF DriverHasOneOrder
<1> QED
  BY <1>1, <1>2

\* A release takes an order from the driver that has it.
LEMMA ReleaseKeepsOne ==
  ASSUME StoreType, DriverHasOneOrder, NEW o \in Orders, Release(o)
  PROVE  DriverHasOneOrder'
<1>1. CASE assigned[o] = NoOne
  BY <1>1 DEF Release, storeVars, DriverHasOneOrder
<1>2. CASE assigned[o] # NoOne
  <2> DEFINE d == assigned[o]
  <2>1. /\ assigned' = [assigned EXCEPT ![o] = NoOne]
        /\ ordersOf' = [ordersOf EXCEPT ![d] = @ \ {o}]
        /\ busy' = IF ordersOf[d] \ {o} = {} THEN busy \ {d} ELSE busy
    BY <1>2 DEF Release
  <2>2. d \in Drivers
    BY <1>2 DEF StoreType, Roster
  <2>3. \A p \in Orders : assigned'[p] = IF p = o THEN NoOne ELSE assigned[p]
    BY <2>1 DEF StoreType, Roster
  <2>4. \A e \in Drivers : ordersOf'[e] = IF e = d THEN ordersOf[d] \ {o} ELSE ordersOf[e]
    BY <2>1, <2>2 DEF StoreType
  <2>5. ordersOf[d] = {o}
    BY <1>2, <2>2 DEF DriverHasOneOrder
  <2>6. (\A p, q \in Orders : assigned[p] # NoOne /\ assigned[p] = assigned[q] => p = q)'
    BY <2>3 DEF DriverHasOneOrder
  <2>7. (\A e \in Drivers : ordersOf[e] = {p \in Orders : assigned[p] = e})'
    <3> SUFFICES ASSUME NEW e \in Drivers
                 PROVE  ordersOf'[e] = {p \in Orders : assigned'[p] = e}
      OBVIOUS
    <3>1. \A p \in Orders : assigned'[p] = e <=> assigned[p] = e /\ p # o
      BY <2>3, NoOneAssumption
    <3>2. ordersOf'[e] = ordersOf[e] \ {o}
      BY <2>4, <1>2 DEF DriverHasOneOrder
    <3>3. ordersOf[e] = {p \in Orders : assigned[p] = e}
      BY DEF DriverHasOneOrder
    <3> QED
      BY <3>1, <3>2, <3>3
  <2>8. (busy = {e \in Drivers : ordersOf[e] # {}})'
    BY <2>1, <2>2, <2>4, <2>5 DEF DriverHasOneOrder
  <2> QED
    BY <2>6, <2>7, <2>8 DEF DriverHasOneOrder
<1> QED
  BY <1>1, <1>2

LEMMA DeliveryInit == Init => DeliveryInv
<1> SUFFICES ASSUME Init PROVE DeliveryInv
  OBVIOUS
<1>1. TypeOK
  BY LimitAssumption DEF Init, TypeOK, Idle, Closed
<1>2. DriverHasOneOrder
  <2>1. \A o \in Orders : assigned[o] = NoOne
    BY DEF Init
  <2>2. \A d \in Drivers : ordersOf[d] = {} /\ d # NoOne
    BY NoOneAssumption DEF Init
  <2>3. busy = {}
    BY DEF Init
  <2> QED
    BY <2>1, <2>2, <2>3 DEF DriverHasOneOrder
<1>3. ClaimsAreConfirmed
  BY DEF Init, ClaimsAreConfirmed, Idle
<1>4. SocketsHaveDrivers
  BY DEF Init, SocketsHaveDrivers, Closed
<1> QED
  BY <1>1, <1>2, <1>3, <1>4 DEF DeliveryInv

\* The keys do not change where Claim and Release are not called.
LEMMA SameStore ==
  ASSUME DriverHasOneOrder, UNCHANGED storeVars
  PROVE  DriverHasOneOrder'
BY DEF DriverHasOneOrder, storeVars

LEMMA StartKeeps ==
  ASSUME DeliveryInv, NEW m \in Members, NEW o \in Orders, StartConfirmed(m, o)
  PROVE  DeliveryInv'
<1> USE DEF DeliveryInv, StartConfirmed
<1>1. delivered' \in [Orders -> 0..MaxDeliveries]
  BY LimitAssumption DEF TypeOK
<1>2. handling' \in [Members -> [pc : {"IDLE", "CLAIM", "BROADCAST"},
                                 order : Orders \cup {NoOne}, candidates : SUBSET Drivers]]
  BY DEF TypeOK
<1>3. TypeOK'
  BY <1>1, <1>2 DEF TypeOK, storeVars, socketVars
<1>4. DriverHasOneOrder'
  BY SameStore
<1>5. ClaimsAreConfirmed'
  BY DEF ClaimsAreConfirmed, TypeOK, storeVars
<1>6. SocketsHaveDrivers'
  BY DEF DeliveryInv, SocketsHaveDrivers, socketVars, StartConfirmed
<1> QED
  BY <1>3, <1>4, <1>5, <1>6

LEMMA AssignKeeps ==
  ASSUME DeliveryInv, NEW m \in Members, AssignDriver(m)
  PROVE  DeliveryInv'
<1> DEFINE o == handling[m].order
<1>1. o \in Orders /\ verdict[o] = "OrderConfirmed"
  BY DEF DeliveryInv, ClaimsAreConfirmed, AssignDriver
<1>2. StoreType /\ Claim(o, handling[m].candidates)
  BY DEF DeliveryInv, TypeOK, StoreType, Roster, AssignDriver
<1>3. StoreType' /\ DriverHasOneOrder'
  BY <1>1, <1>2, ClaimType, ClaimKeepsOne DEF DeliveryInv
<1>4. handling' \in [Members -> [pc : {"IDLE", "CLAIM", "BROADCAST"},
                                 order : Orders \cup {NoOne}, candidates : SUBSET Drivers]]
  <2>1. handling[m] \in [pc : {"IDLE", "CLAIM", "BROADCAST"},
                         order : Orders \cup {NoOne}, candidates : SUBSET Drivers]
    BY DEF DeliveryInv, TypeOK
  <2>2. [handling[m] EXCEPT !.pc = "BROADCAST", !.candidates = {}]
          \in [pc : {"IDLE", "CLAIM", "BROADCAST"}, order : Orders \cup {NoOne}, candidates : SUBSET Drivers]
    BY <2>1
  <2>3. Idle \in [pc : {"IDLE", "CLAIM", "BROADCAST"}, order : Orders \cup {NoOne}, candidates : SUBSET Drivers]
    BY DEF Idle
  <2> QED
    BY <2>2, <2>3 DEF DeliveryInv, TypeOK, AssignDriver
<1>5. TypeOK'
  BY <1>3, <1>4 DEF DeliveryInv, TypeOK, StoreType, Roster, AssignDriver, orderVars, socketVars
<1>6. \A n \in Members : handling'[n].pc = "CLAIM" => handling'[n] = handling[n]
  <2>1. handling'[m].pc # "CLAIM"
    BY DEF DeliveryInv, TypeOK, AssignDriver, Idle
  <2>2. \A n \in Members : n # m => handling'[n] = handling[n]
    BY DEF DeliveryInv, TypeOK, AssignDriver
  <2> QED
    BY <2>1, <2>2
<1>7. verdict' = verdict
  BY DEF AssignDriver, orderVars
<1>8. \A p \in Orders : p # o => assigned'[p] = assigned[p]
  BY <1>2 DEF Claim, storeVars, StoreType, Roster
<1>9. ClaimsAreConfirmed'
  BY <1>1, <1>6, <1>7, <1>8 DEF DeliveryInv, ClaimsAreConfirmed
<1>10. SocketsHaveDrivers'
  BY DEF DeliveryInv, SocketsHaveDrivers, socketVars, AssignDriver
<1> QED
  BY <1>3, <1>5, <1>9, <1>10 DEF DeliveryInv

LEMMA ReleaseKeeps ==
  ASSUME DeliveryInv, NEW m \in Members, NEW o \in Orders, ReleaseCancelled(m, o)
  PROVE  DeliveryInv' /\ UNCHANGED assigned
<1>1. StoreType /\ Release(o) /\ assigned[o] = NoOne
  BY DEF DeliveryInv, TypeOK, StoreType, Roster, ReleaseCancelled, ClaimsAreConfirmed
<1>2. UNCHANGED storeVars
  BY <1>1 DEF Release
<1>3. delivered' \in [Orders -> 0..MaxDeliveries]
  BY LimitAssumption DEF DeliveryInv, TypeOK, ReleaseCancelled
<1>4. TypeOK'
  BY <1>2, <1>3 DEF DeliveryInv, TypeOK, ReleaseCancelled, storeVars, socketVars
<1>5. DriverHasOneOrder'
  BY <1>2, SameStore DEF DeliveryInv
<1>6. ClaimsAreConfirmed'
  BY <1>2 DEF DeliveryInv, ClaimsAreConfirmed, ReleaseCancelled, storeVars
<1>7. SocketsHaveDrivers'
  BY DEF DeliveryInv, SocketsHaveDrivers, socketVars, ReleaseCancelled
<1> QED
  BY <1>2, <1>4, <1>5, <1>6, <1>7 DEF DeliveryInv, storeVars

\* A member that goes back to rest claims nothing.
LEMMA RestKeeps ==
  ASSUME DeliveryInv, NEW m \in Members, handling' = [handling EXCEPT ![m] = Idle],
         UNCHANGED <<orderVars, online, storeVars, socketVars, rooms>>
  PROVE  DeliveryInv'
<1>1. handling' \in [Members -> [pc : {"IDLE", "CLAIM", "BROADCAST"},
                                 order : Orders \cup {NoOne}, candidates : SUBSET Drivers]]
  BY DEF DeliveryInv, TypeOK, Idle
<1>2. TypeOK'
  BY <1>1 DEF DeliveryInv, TypeOK, orderVars, storeVars, socketVars
<1>3. DriverHasOneOrder'
  BY SameStore DEF DeliveryInv
<1>4. ClaimsAreConfirmed'
  BY DEF DeliveryInv, ClaimsAreConfirmed, TypeOK, Idle, orderVars, storeVars
<1>5. SocketsHaveDrivers'
  BY DEF DeliveryInv, SocketsHaveDrivers, socketVars
<1> QED
  BY <1>2, <1>3, <1>4, <1>5 DEF DeliveryInv

\* Sockets and rooms leave orders, members and the three keys alone.
LEMMA SocketKeeps ==
  ASSUME DeliveryInv, TypeOK', SocketsHaveDrivers', UNCHANGED <<orderVars, handling, storeVars>>
  PROVE  DeliveryInv'
<1>1. DriverHasOneOrder'
  BY SameStore DEF DeliveryInv
<1>2. ClaimsAreConfirmed'
  BY DEF DeliveryInv, ClaimsAreConfirmed, orderVars, storeVars
<1> QED
  BY <1>1, <1>2 DEF DeliveryInv

LEMMA SocketType ==
  ASSUME DeliveryInv, NEW s \in Sockets, OnSocket(s)
  PROVE  TypeOK'
<1> USE LimitAssumption DEF DeliveryInv, TypeOK, orderVars, storeVars, socketVars
<1>1. ASSUME NEW d \in Drivers, Connect(s, d) PROVE TypeOK'
  BY <1>1 DEF Connect, Closed
<1>2. ASSUME NEW newSecond \in BOOLEAN, NEW onGlobe \in BOOLEAN,
            OnLocation(s, newSecond, onGlobe) PROVE TypeOK'
  <2>1. Counted(s, newSecond) \in 0..RateLimit /\ Counted(s, newSecond) < RateLimit
    BY <1>2 DEF OnLocation, Allow, Counted
  <2>2. sent' \in [Sockets -> 0..RateLimit]
    BY <1>2, <2>1 DEF OnLocation
  <2>3. online' \in SUBSET Drivers
    BY <1>2 DEF OnLocation, SocketsHaveDrivers
  <2> QED
    BY <1>2, <2>2, <2>3 DEF OnLocation
<1>3. ASSUME Drop(s) PROVE TypeOK'
  BY <1>3 DEF Drop
<1>4. ASSUME HandleDisconnect(s) PROVE TypeOK'
  BY <1>4 DEF HandleDisconnect, Closed
<1> QED
  BY <1>1, <1>2, <1>3, <1>4 DEF OnSocket

LEMMA SocketDrivers ==
  ASSUME DeliveryInv, NEW s \in Sockets, OnSocket(s)
  PROVE  SocketsHaveDrivers' /\ UNCHANGED <<orderVars, handling, storeVars>>
<1> USE DEF DeliveryInv, TypeOK, SocketsHaveDrivers
<1>1. ASSUME NEW d \in Drivers, Connect(s, d) PROVE SocketsHaveDrivers'
  BY <1>1 DEF Connect
<1>2. ASSUME NEW newSecond \in BOOLEAN, NEW onGlobe \in BOOLEAN,
            OnLocation(s, newSecond, onGlobe) PROVE SocketsHaveDrivers'
  BY <1>2 DEF OnLocation
<1>3. ASSUME Drop(s) PROVE SocketsHaveDrivers'
  BY <1>3 DEF Drop
<1>4. ASSUME HandleDisconnect(s) PROVE SocketsHaveDrivers'
  BY <1>4 DEF HandleDisconnect, Closed
<1>5. UNCHANGED <<orderVars, handling, storeVars>>
  BY DEF OnSocket, Connect, OnLocation, Drop, HandleDisconnect
<1> QED
  BY <1>1, <1>2, <1>3, <1>4, <1>5 DEF OnSocket

LEMMA JoinKeeps ==
  ASSUME DeliveryInv, NEW o \in Orders, OnJoinOrder(o)
  PROVE  DeliveryInv' /\ UNCHANGED assigned
<1>1. TypeOK'
  BY DEF DeliveryInv, TypeOK, OnJoinOrder, orderVars, storeVars, socketVars
<1>2. SocketsHaveDrivers'
  BY DEF DeliveryInv, SocketsHaveDrivers, OnJoinOrder, socketVars
<1> QED
  BY <1>1, <1>2, SocketKeeps DEF OnJoinOrder, storeVars

LEMMA DeliveryStep ==
  ASSUME DeliveryInv, [Next]_vars
  PROVE  DeliveryInv'
<1>1. ASSUME NEW m \in Members, HandleOrderEvent(m) PROVE DeliveryInv'
  <2>1. ASSUME NEW o \in Orders, StartConfirmed(m, o) PROVE DeliveryInv'
    BY <2>1, StartKeeps
  <2>2. ASSUME NEW o \in Orders, ReleaseCancelled(m, o) PROVE DeliveryInv'
    BY <2>2, ReleaseKeeps
  <2>3. CASE AssignDriver(m)
    BY <2>3, AssignKeeps
  <2>4. CASE BroadcastAssignment(m)
    BY <2>4, RestKeeps DEF BroadcastAssignment
  <2>5. CASE Abandon(m)
    BY <2>5, RestKeeps DEF Abandon
  <2> QED
    BY <1>1, <2>1, <2>2, <2>3, <2>4, <2>5 DEF HandleOrderEvent
<1>2. ASSUME NEW s \in Sockets, OnSocket(s) PROVE DeliveryInv'
  BY <1>2, SocketType, SocketDrivers, SocketKeeps
<1>3. ASSUME NEW o \in Orders, OnJoinOrder(o) PROVE DeliveryInv'
  BY <1>3, JoinKeeps
<1>4. CASE UNCHANGED vars
  <2>1. TypeOK' /\ SocketsHaveDrivers'
    BY <1>4 DEF DeliveryInv, TypeOK, SocketsHaveDrivers, vars, orderVars, storeVars, socketVars
  <2> QED
    BY <1>4, <2>1, SocketKeeps DEF vars
<1> QED
  BY <1>1, <1>2, <1>3, <1>4 DEF Next

\* Members, connections, rosters and the three keys are of their types in
\* every behaviour of apps/delivery.
THEOREM DeliveryTypeCorrect == Spec => []TypeOK
<1>1. Init => DeliveryInv
  BY DeliveryInit
<1>2. DeliveryInv /\ [Next]_vars => DeliveryInv'
  BY DeliveryStep
<1>3. DeliveryInv => TypeOK
  BY DEF DeliveryInv
<1> QED
  BY <1>1, <1>2, <1>3, PTL DEF Spec

\* CLAIM_FIRST_FREE and RELEASE_ORDER keep assign:{tenant}, its busy set and
\* the sets of the drivers in agreement, and no driver gets a second order,
\* for any number of consumers that claim with any rosters.
THEOREM OneOrderPerDriver == Spec => []DriverHasOneOrder
<1>1. Init => DeliveryInv
  BY DeliveryInit
<1>2. DeliveryInv /\ [Next]_vars => DeliveryInv'
  BY DeliveryStep
<1>3. DeliveryInv => DriverHasOneOrder
  BY DEF DeliveryInv
<1> QED
  BY <1>1, <1>2, <1>3, PTL DEF Spec

\* A step leaves an assigned order with its driver.
LEMMA AssignmentStays ==
  ASSUME DeliveryInv, Next, NEW p \in Orders, assigned[p] # NoOne
  PROVE  assigned'[p] = assigned[p]
<1>1. ASSUME NEW m \in Members, HandleOrderEvent(m) PROVE assigned'[p] = assigned[p]
  <2>1. ASSUME NEW o \in Orders, ReleaseCancelled(m, o) PROVE UNCHANGED assigned
    BY <2>1, ReleaseKeeps
  <2>2. CASE AssignDriver(m)
    <3>1. Claim(handling[m].order, handling[m].candidates) /\ handling[m].order \in Orders
      BY <2>2 DEF AssignDriver, DeliveryInv, ClaimsAreConfirmed
    <3>2. assigned \in [Orders -> Drivers \cup {NoOne}]
      BY DEF DeliveryInv, TypeOK
    <3> QED
      BY <3>1, <3>2 DEF Claim, storeVars
  <2> QED
    BY <1>1, <2>1, <2>2 DEF HandleOrderEvent, StartConfirmed, BroadcastAssignment, Abandon, storeVars
<1>2. ASSUME NEW s \in Sockets, OnSocket(s) PROVE UNCHANGED assigned
  BY <1>2, SocketDrivers DEF storeVars
<1>3. ASSUME NEW o \in Orders, OnJoinOrder(o) PROVE UNCHANGED assigned
  BY <1>3 DEF OnJoinOrder, storeVars
<1> QED
  BY <1>1, <1>2, <1>3 DEF Next

\* The assignment of an order is final: neither a redelivered OrderConfirmed
\* nor an OrderCancelled moves it.
THEOREM AssignmentsAreFinal == Spec => AssignmentIsFinal
<1>1. Init => DeliveryInv
  BY DeliveryInit
<1>2. DeliveryInv /\ [Next]_vars => DeliveryInv'
  BY DeliveryStep
<1>3. DeliveryInv /\ [Next]_vars => [\A o \in Orders : assigned[o] # NoOne => assigned'[o] = assigned[o]]_vars
  BY AssignmentStays
<1> QED
  BY <1>1, <1>2, <1>3, PTL DEF Spec, AssignmentIsFinal

-----------------------------------------------------------------------------
(* Notification.  As long as no provider has the message, Redis has the    *)
(* job, or a consumer that will not settle before has it to queue.  A row  *)
(* says FAILED or DEAD only of a job that is there.                        *)

\* What a consumer is doing.
DispatchRecord == [pc : {"IDLE", "FIND", "ENQUEUE"}, todo : SUBSET Channels]

\* A "failed" event of BullMQ.
FailureEvent == [channel : Channels, attempts : 1..MaxAttempts, isParked : BOOLEAN]

\* A provider has the message, or Redis has the job.
InHand(ch) == ch \in reached \/ job[ch] # "NONE"

\* The job, its worker and the row of a channel.
ChannelFits(ch) ==
  /\ worker[ch] # "IDLE" => job[ch] = "ACTIVE"
  /\ worker[ch] \in {"MARK", "DONE"} => ch \in reached
  /\ job[ch] \in {"WAITING", "ACTIVE"} => made[ch] < MaxAttempts
  /\ status[ch] = "NONE" => ~processed
  /\ status[ch] \in {"FAILED", "DEAD"} => InHand(ch)
  /\ status[ch] = "SENT" => ch \in reached
  /\ status[ch] = "DEAD" => ch \in parked

\* A consumer has written the rows, and misses none it has still to queue.
DispatchFits(d) ==
  /\ d.pc # "IDLE" => processed
  /\ d.pc = "ENQUEUE" => \A ch \in Channels : ch \in d.todo \/ InHand(ch)

\* A failure is that of a job that is still there, or whose message got through
\* after all.
FailureFits(f) == InHand(f.channel) /\ (f.isParked => f.channel \in parked)

\* The inductive invariant.
NotificationInv ==
  /\ N!TypeOK
  /\ \A ch \in Channels : ChannelFits(ch)
  /\ \A c \in Consumers : DispatchFits(dispatch[c])
  /\ \A f \in failures : FailureFits(f)
  /\ message = "SETTLED" => \A ch \in Channels : InHand(ch)

\* The types.
LEMMA NotificationTypes ==
  ASSUME N!NotificationBounds, NotificationInv
  PROVE  /\ message \in {"UNSETTLED", "SETTLED", "DEAD_LETTERED"} /\ tries \in 0..MaxRetries
         /\ processed \in BOOLEAN /\ dispatch \in [Consumers -> DispatchRecord]
         /\ status \in [Channels -> {"NONE", "PENDING", "SENT", "FAILED", "DEAD"}]
         /\ job \in [Channels -> {"NONE", "WAITING", "ACTIVE", "FAILED"}]
         /\ made \in [Channels -> 0..MaxAttempts]
         /\ worker \in [Channels -> {"IDLE", "SEND", "MARK", "DONE"}]
         /\ failures \in SUBSET FailureEvent
         /\ reached \in SUBSET Channels /\ parked \in SUBSET Channels
         /\ crashes \in 0..MaxCrashes
         /\ MaxRetries \in Nat \ {0} /\ MaxAttempts \in Nat \ {0} /\ MaxCrashes \in Nat
  BY DEF NotificationInv, N!TypeOK, N!NotificationBounds, DispatchRecord, FailureEvent

\* The invariant holds at the start.
LEMMA NotificationInit ==
  ASSUME N!NotificationBounds, N!Init
  PROVE  NotificationInv
<1>1. N!Resting \in DispatchRecord /\ N!Resting.pc = "IDLE"
  BY DEF N!Resting, DispatchRecord
<1>2. /\ tries \in 0..MaxRetries /\ crashes \in 0..MaxCrashes /\ made \in [Channels -> 0..MaxAttempts]
  BY DEF N!Init, N!NotificationBounds
<1>3. processed \in BOOLEAN /\ ~processed
  BY Zenon DEF N!Init
<1>4. N!TypeOK
  BY <1>1, <1>2, <1>3 DEF N!Init, N!TypeOK, DispatchRecord
<1> QED
  BY <1>1, <1>3, <1>4 DEF N!Init, NotificationInv, ChannelFits, DispatchFits, FailureFits

\* One channel's job, worker and row move, and nothing slips out of hand.
LEMMA ChannelStep ==
  ASSUME N!NotificationBounds, NotificationInv, NEW ch \in Channels,
         UNCHANGED <<message, tries, processed, dispatch, parked, crashes>>,
         NEW s \in {"NONE", "PENDING", "SENT", "FAILED", "DEAD"},
         NEW j \in {"NONE", "WAITING", "ACTIVE", "FAILED"},
         NEW n \in 0..MaxAttempts,
         NEW w \in {"IDLE", "SEND", "MARK", "DONE"},
         status' = [status EXCEPT ![ch] = s], job' = [job EXCEPT ![ch] = j],
         made' = [made EXCEPT ![ch] = n], worker' = [worker EXCEPT ![ch] = w],
         reached' \in SUBSET Channels, reached \subseteq reached',
         InHand(ch) => ch \in reached' \/ j # "NONE",
         w # "IDLE" => j = "ACTIVE",
         w \in {"MARK", "DONE"} => ch \in reached',
         j \in {"WAITING", "ACTIVE"} => n < MaxAttempts,
         s = "NONE" => ~processed,
         s \in {"FAILED", "DEAD"} => InHand(ch),
         s = "SENT" => ch \in reached',
         s = "DEAD" => ch \in parked,
         failures' \in SUBSET FailureEvent,
         \A f \in failures' \ failures : f.channel = ch /\ (ch \in reached' \/ j # "NONE") /\ ~f.isParked
  PROVE  NotificationInv'
<1>1. /\ status' \in [Channels -> {"NONE", "PENDING", "SENT", "FAILED", "DEAD"}]
      /\ job' \in [Channels -> {"NONE", "WAITING", "ACTIVE", "FAILED"}]
      /\ made' \in [Channels -> 0..MaxAttempts]
      /\ worker' \in [Channels -> {"IDLE", "SEND", "MARK", "DONE"}]
  BY NotificationTypes
<1>2. \A c \in Channels : /\ status'[c] = IF c = ch THEN s ELSE status[c]
                          /\ job'[c] = IF c = ch THEN j ELSE job[c]
                          /\ made'[c] = IF c = ch THEN n ELSE made[c]
                          /\ worker'[c] = IF c = ch THEN w ELSE worker[c]
  BY NotificationTypes
<1>3. \A c \in Channels : InHand(c) => InHand(c)'
  BY <1>2 DEF InHand
<1>4. ASSUME NEW c \in Channels PROVE ChannelFits(c)'
  <2>1. CASE c = ch
    <3>1. status'[ch] = s /\ job'[ch] = j /\ made'[ch] = n /\ worker'[ch] = w
      BY <1>2
    <3> QED
      BY <1>3, <2>1, <3>1 DEF ChannelFits
  <2>2. CASE c # ch
    <3>1. status'[c] = status[c] /\ job'[c] = job[c] /\ made'[c] = made[c] /\ worker'[c] = worker[c]
      BY <1>2, <2>2
    <3> QED
      BY <1>3, <3>1 DEF NotificationInv, ChannelFits
  <2> QED
    BY <2>1, <2>2
<1>5. \A c \in Consumers : DispatchFits(dispatch[c])'
  BY <1>3 DEF NotificationInv, DispatchFits
<1>6. \A f \in failures' : FailureFits(f)'
  <2>1. ASSUME NEW f \in failures', f \in failures PROVE FailureFits(f)'
    <3>1. f.channel \in Channels
      BY NotificationTypes, <2>1 DEF FailureEvent
    <3> QED
      BY <1>3, <2>1, <3>1 DEF NotificationInv, FailureFits
  <2>2. ASSUME NEW f \in failures', f \notin failures PROVE FailureFits(f)'
    BY <1>2, <2>2 DEF FailureFits, InHand
  <2> QED
    BY <2>1, <2>2
<1>7. message' = "SETTLED" => \A c \in Channels : InHand(c)'
  BY <1>3 DEF NotificationInv
<1>8. processed' \in BOOLEAN
  BY NotificationTypes, Zenon
<1>9. /\ message' \in {"UNSETTLED", "SETTLED", "DEAD_LETTERED"} /\ tries' \in 0..MaxRetries
      /\ dispatch' \in [Consumers -> DispatchRecord] /\ parked' \in SUBSET Channels /\ crashes' \in 0..MaxCrashes
  BY NotificationTypes
<1>10. N!TypeOK'
  BY <1>1, <1>8, <1>9 DEF N!TypeOK, DispatchRecord, FailureEvent
<1> QED
  BY <1>4, <1>5, <1>6, <1>7, <1>10 DEF NotificationInv

\* One consumer moves, with the message and the rows.
LEMMA DispatchStep ==
  ASSUME N!NotificationBounds, NotificationInv, NEW c \in Consumers, NEW d \in DispatchRecord,
         dispatch' = [dispatch EXCEPT ![c] = d],
         DispatchFits(d),
         UNCHANGED <<status, processed, job, made, worker, failures, reached, parked, crashes>>,
         message' \in {"UNSETTLED", "SETTLED", "DEAD_LETTERED"},
         message' = "SETTLED" => \A ch \in Channels : InHand(ch),
         tries' \in 0..MaxRetries
  PROVE  NotificationInv'
<1>1. /\ dispatch' \in [Consumers -> DispatchRecord]
      /\ \A b \in Consumers : dispatch'[b] = IF b = c THEN d ELSE dispatch[b]
  BY NotificationTypes
<1>2. \A ch \in Channels : InHand(ch)' <=> InHand(ch)
  BY DEF InHand
<1>3. \A ch \in Channels : ChannelFits(ch)'
  BY <1>2 DEF NotificationInv, ChannelFits
<1>4. \A b \in Consumers : DispatchFits(dispatch[b])'
  BY <1>1, <1>2 DEF NotificationInv, DispatchFits
<1>5. \A f \in failures' : FailureFits(f)'
  BY DEF NotificationInv, FailureFits, InHand
<1>6. processed' \in BOOLEAN
  BY NotificationTypes, Zenon
<1>7. /\ status' \in [Channels -> {"NONE", "PENDING", "SENT", "FAILED", "DEAD"}]
      /\ job' \in [Channels -> {"NONE", "WAITING", "ACTIVE", "FAILED"}]
      /\ made' \in [Channels -> 0..MaxAttempts]
      /\ worker' \in [Channels -> {"IDLE", "SEND", "MARK", "DONE"}]
      /\ failures' \in SUBSET FailureEvent /\ reached' \in SUBSET Channels
      /\ parked' \in SUBSET Channels /\ crashes' \in 0..MaxCrashes
  BY NotificationTypes
<1>8. N!TypeOK'
  BY <1>1, <1>6, <1>7 DEF N!TypeOK, DispatchRecord, FailureEvent
<1> QED
  BY <1>2, <1>3, <1>4, <1>5, <1>8 DEF NotificationInv

\* A failure handler moves on, or dies.
LEMMA HandlerStep ==
  ASSUME N!NotificationBounds, NotificationInv, NEW ch \in Channels, InHand(ch),
         UNCHANGED <<message, tries, processed, dispatch, job, made, worker, reached>>,
         NEW s \in {"FAILED", "DEAD"},
         status' = status \/ status' = [status EXCEPT ![ch] = s],
         s = "DEAD" => ch \in parked',
         parked' \in SUBSET Channels, parked \subseteq parked',
         crashes' \in 0..MaxCrashes,
         failures' \in SUBSET FailureEvent,
         \A f \in failures' \ failures : f.channel = ch /\ ch \in parked'
  PROVE  NotificationInv'
<1>1. /\ status' \in [Channels -> {"NONE", "PENDING", "SENT", "FAILED", "DEAD"}]
      /\ \A c \in Channels : status'[c] = status[c] \/ (c = ch /\ status'[c] = s)
  BY NotificationTypes
<1>2. \A c \in Channels : InHand(c)' <=> InHand(c)
  BY DEF InHand
<1>3. \A c \in Channels : ChannelFits(c)'
  BY <1>1, <1>2 DEF NotificationInv, ChannelFits
<1>4. \A c \in Consumers : DispatchFits(dispatch[c])'
  BY <1>2 DEF NotificationInv, DispatchFits
<1>5. \A f \in failures' : FailureFits(f)'
  <2>1. ASSUME NEW f \in failures', f \in failures PROVE FailureFits(f)'
    <3>1. f.channel \in Channels
      BY NotificationTypes, <2>1 DEF FailureEvent
    <3> QED
      BY <1>2, <2>1, <3>1 DEF NotificationInv, FailureFits
  <2>2. ASSUME NEW f \in failures', f \notin failures PROVE FailureFits(f)'
    BY <1>2, <2>2 DEF FailureFits
  <2> QED
    BY <2>1, <2>2
<1>6. processed' \in BOOLEAN
  BY NotificationTypes, Zenon
<1>7. /\ message' \in {"UNSETTLED", "SETTLED", "DEAD_LETTERED"} /\ tries' \in 0..MaxRetries
      /\ dispatch' \in [Consumers -> DispatchRecord]
      /\ job' \in [Channels -> {"NONE", "WAITING", "ACTIVE", "FAILED"}]
      /\ made' \in [Channels -> 0..MaxAttempts]
      /\ worker' \in [Channels -> {"IDLE", "SEND", "MARK", "DONE"}]
      /\ reached' \in SUBSET Channels
  BY NotificationTypes
<1>8. N!TypeOK'
  BY <1>1, <1>6, <1>7 DEF N!TypeOK, DispatchRecord, FailureEvent
<1> QED
  BY <1>2, <1>3, <1>4, <1>5, <1>8 DEF NotificationInv

\* A consumer's step keeps it.
LEMMA ConsumeStep ==
  ASSUME N!NotificationBounds, NotificationInv, NEW c \in Consumers, N!Consume(c)
  PROVE  NotificationInv'
<1>1. /\ message \in {"UNSETTLED", "SETTLED", "DEAD_LETTERED"} /\ tries \in 0..MaxRetries
      /\ processed \in BOOLEAN /\ dispatch \in [Consumers -> DispatchRecord]
      /\ status \in [Channels -> {"NONE", "PENDING", "SENT", "FAILED", "DEAD"}]
      /\ job \in [Channels -> {"NONE", "WAITING", "ACTIVE", "FAILED"}]
      /\ made \in [Channels -> 0..MaxAttempts]
      /\ worker \in [Channels -> {"IDLE", "SEND", "MARK", "DONE"}]
      /\ failures \in SUBSET FailureEvent
      /\ reached \in SUBSET Channels /\ parked \in SUBSET Channels
      /\ crashes \in 0..MaxCrashes
      /\ MaxRetries \in Nat \ {0} /\ MaxAttempts \in Nat \ {0} /\ MaxCrashes \in Nat
  BY NotificationTypes
<1>2. /\ \A ch \in Channels : ChannelFits(ch)
      /\ DispatchFits(dispatch[c])
      /\ message = "SETTLED" => \A ch \in Channels : InHand(ch)
  BY DEF NotificationInv
<1>3. ASSUME N!CreatePendingBatch(c) PROVE NotificationInv'
  <2> DEFINE d == [dispatch[c] EXCEPT !.pc = "FIND"]
  <2>1. d \in DispatchRecord /\ d.pc = "FIND"
    BY <1>1 DEF DispatchRecord
  <2>2. /\ processed' = TRUE /\ dispatch' = [dispatch EXCEPT ![c] = d]
        /\ status' = IF processed THEN status ELSE [ch \in Channels |-> "PENDING"]
        /\ UNCHANGED <<message, tries, job, made, worker, failures, reached, parked, crashes>>
    BY <1>3 DEF N!CreatePendingBatch, N!jobVars, N!outVars
  <2> HIDE DEF d
  <2>3. /\ dispatch' \in [Consumers -> DispatchRecord]
        /\ \A b \in Consumers : dispatch'[b] = IF b = c THEN d ELSE dispatch[b]
    BY <1>1, <2>1, <2>2
  <2>4. \A ch \in Channels : InHand(ch)' <=> InHand(ch)
    BY <2>2 DEF InHand
  <2>5. \A b \in Consumers : DispatchFits(dispatch[b])'
    BY <2>1, <2>2, <2>3, <2>4 DEF NotificationInv, DispatchFits
  <2>6. status' \in [Channels -> {"NONE", "PENDING", "SENT", "FAILED", "DEAD"}]
    BY <1>1, <2>2
  <2>7. \A ch \in Channels : ChannelFits(ch)'
    <3>1. CASE processed
      BY <1>2, <2>2, <2>4, <3>1 DEF ChannelFits
    <3>2. CASE ~processed
      <4>1. \A ch \in Channels : status'[ch] = "PENDING"
        BY <2>2, <3>2
      <4> QED
        BY <1>2, <2>2, <4>1 DEF ChannelFits
    <3> QED
      BY <3>1, <3>2
  <2>8. processed' \in BOOLEAN
    BY <2>2, Zenon
  <2>9. N!TypeOK'
    BY <1>1, <2>2, <2>3, <2>6, <2>8 DEF N!TypeOK, DispatchRecord, FailureEvent
  <2>10. \A f \in failures' : FailureFits(f)'
    BY <2>2 DEF NotificationInv, FailureFits, InHand
  <2>11. message' = "SETTLED" => \A ch \in Channels : InHand(ch)'
    BY <1>2, <2>2, <2>4
  <2> QED
    BY <2>5, <2>11, <2>7, <2>9, <2>10 DEF NotificationInv
<1>4. ASSUME N!FindPendingByEvent(c) PROVE NotificationInv'
  <2> DEFINE d == [pc |-> "ENQUEUE", todo |-> {ch \in Channels : status[ch] = "PENDING"}]
  <2>1. d \in DispatchRecord /\ d.pc = "ENQUEUE" /\ \A ch \in Channels : ch \in d.todo <=> status[ch] = "PENDING"
    BY DEF DispatchRecord
  <2>2. /\ dispatch[c].pc = "FIND" /\ dispatch' = [dispatch EXCEPT ![c] = d]
        /\ UNCHANGED <<message, tries, processed, status, job, made, worker, failures, reached, parked, crashes>>
    BY <1>4 DEF N!FindPendingByEvent, N!jobVars, N!outVars
  <2> HIDE DEF d
  <2>3. processed
    BY <1>2, <2>2 DEF DispatchFits
  <2>4. \A ch \in Channels : ch \in d.todo \/ InHand(ch)
    BY <1>1, <1>2, <2>1, <2>3 DEF ChannelFits, InHand
  <2>5. DispatchFits(d)
    BY <2>1, <2>3, <2>4 DEF DispatchFits
  <2> QED
    BY <1>1, <1>2, <2>1, <2>2, <2>5, DispatchStep
<1>5. ASSUME NEW ch \in Channels, N!Enqueue(c, ch) PROVE NotificationInv'
  <2> DEFINE d == [dispatch[c] EXCEPT !.todo = @ \ {ch}]
  <2>1. d \in DispatchRecord /\ d.pc = dispatch[c].pc /\ d.todo = dispatch[c].todo \ {ch}
    BY <1>1 DEF DispatchRecord
  <2>2. /\ dispatch[c].pc = "ENQUEUE" /\ dispatch' = [dispatch EXCEPT ![c] = d]
        /\ N!AddJob(ch)
        /\ UNCHANGED <<message, tries, processed, status, worker, failures, reached, parked, crashes>>
    BY <1>5 DEF N!Enqueue, N!outVars
  <2> HIDE DEF d
  <2>3. /\ dispatch' \in [Consumers -> DispatchRecord]
        /\ \A b \in Consumers : dispatch'[b] = IF b = c THEN d ELSE dispatch[b]
    BY <1>1, <2>1, <2>2
  <2>4. /\ job' \in [Channels -> {"NONE", "WAITING", "ACTIVE", "FAILED"}]
        /\ made' \in [Channels -> 0..MaxAttempts]
        /\ job'[ch] # "NONE"
        /\ \A b \in Channels : \/ job'[b] = job[b] /\ made'[b] = made[b]
                               \/ b = ch /\ job[b] = "NONE" /\ job'[b] = "WAITING" /\ made'[b] = 0
    BY <1>1, <2>2 DEF N!AddJob
  <2>5. InHand(ch)' /\ \A b \in Channels : InHand(b) => InHand(b)'
    BY <2>2, <2>4 DEF InHand
  <2>6. ASSUME NEW b \in Channels PROVE ChannelFits(b)'
    BY <1>1, <1>2, <2>2, <2>4, <2>5 DEF ChannelFits
  <2>7. \A b \in Consumers : DispatchFits(dispatch[b])'
    <3>1. /\ d.pc # "IDLE" => processed'
          /\ d.pc = "ENQUEUE" => \A b \in Channels : b \in d.todo \/ InHand(b)'
      BY <1>2, <2>1, <2>2, <2>5 DEF DispatchFits
    <3> QED
      BY <2>2, <2>3, <2>5, <3>1 DEF NotificationInv, DispatchFits
  <2>8. \A f \in failures' : FailureFits(f)'
    <3>1. \A f \in failures : f.channel \in Channels
      BY <1>1 DEF FailureEvent
    <3> QED
      BY <2>2, <2>5, <3>1 DEF NotificationInv, FailureFits
  <2>9. processed' \in BOOLEAN
    BY <1>1, <2>2, Zenon
  <2>10. N!TypeOK'
    BY <1>1, <2>2, <2>3, <2>4, <2>9 DEF N!TypeOK, DispatchRecord, FailureEvent
  <2> QED
    BY <1>2, <2>2, <2>5, <2>6, <2>7, <2>8, <2>10 DEF NotificationInv
<1>6. N!Resting \in DispatchRecord /\ DispatchFits(N!Resting)
  BY DEF N!Resting, DispatchRecord, DispatchFits
<1>7. ASSUME N!Settle(c) PROVE NotificationInv'
  <2>1. /\ dispatch[c] = [pc |-> "ENQUEUE", todo |-> {}] /\ message' = "SETTLED"
        /\ dispatch' = [dispatch EXCEPT ![c] = N!Resting]
        /\ UNCHANGED <<tries, processed, status, job, made, worker, failures, reached, parked, crashes>>
    BY <1>7 DEF N!Settle, N!jobVars, N!outVars
  <2>2. \A ch \in Channels : InHand(ch)
    BY <1>2, <2>1 DEF DispatchFits
  <2> QED
    BY <1>1, <1>6, <2>1, <2>2, DispatchStep
<1>8. ASSUME N!FailDispatch(c) PROVE NotificationInv'
  <2>1. /\ tries < MaxRetries /\ tries' = tries + 1
        /\ message' = message \/ message' = "DEAD_LETTERED"
        /\ dispatch' = [dispatch EXCEPT ![c] = N!Resting]
        /\ UNCHANGED <<processed, status, job, made, worker, failures, reached, parked, crashes>>
    BY <1>8 DEF N!FailDispatch, N!jobVars, N!outVars
  <2>2. tries' \in 0..MaxRetries
    BY <1>1, <2>1
  <2>3. /\ message' \in {"UNSETTLED", "SETTLED", "DEAD_LETTERED"}
        /\ message' = "SETTLED" => \A ch \in Channels : InHand(ch)
    BY <1>1, <1>2, <2>1
  <2> QED
    BY <1>6, <2>1, <2>2, <2>3, DispatchStep
<1> QED
  BY <1>3, <1>4, <1>5, <1>7, <1>8 DEF N!Consume

\* A worker's step keeps it.
LEMMA WorkStep ==
  ASSUME N!NotificationBounds, NotificationInv, NEW ch \in Channels, N!Work(ch)
  PROVE  NotificationInv'
<1> DEFINE s == status[ch]
           j == job[ch]
           n == made[ch]
           w == worker[ch]
<1>1. /\ s \in {"NONE", "PENDING", "SENT", "FAILED", "DEAD"}
      /\ j \in {"NONE", "WAITING", "ACTIVE", "FAILED"}
      /\ n \in 0..MaxAttempts
      /\ w \in {"IDLE", "SEND", "MARK", "DONE"}
      /\ failures \in SUBSET FailureEvent
      /\ reached \in SUBSET Channels
      /\ MaxAttempts \in Nat \ {0}
  BY NotificationTypes
<1>2. /\ status = [status EXCEPT ![ch] = s] /\ job = [job EXCEPT ![ch] = j]
      /\ made = [made EXCEPT ![ch] = n] /\ worker = [worker EXCEPT ![ch] = w]
  BY NotificationTypes
<1>3. /\ w # "IDLE" => j = "ACTIVE"
      /\ w \in {"MARK", "DONE"} => ch \in reached
      /\ j \in {"WAITING", "ACTIVE"} => n < MaxAttempts
      /\ s = "NONE" => ~processed
      /\ s \in {"FAILED", "DEAD"} => InHand(ch)
      /\ s = "SENT" => ch \in reached
      /\ s = "DEAD" => ch \in parked
      /\ InHand(ch) <=> (ch \in reached \/ j # "NONE")
  BY DEF NotificationInv, ChannelFits, InHand
<1>4. \A f \in failures \ failures : f.channel = ch /\ (ch \in reached' \/ j # "NONE") /\ ~f.isParked
  OBVIOUS
<1>5. ASSUME N!Take(ch) PROVE NotificationInv'
  <2> DEFINE to == IF s = "SENT" THEN "DONE" ELSE "SEND"
  <2>1. /\ j = "WAITING" /\ job' = [job EXCEPT ![ch] = "ACTIVE"] /\ worker' = [worker EXCEPT ![ch] = to]
        /\ UNCHANGED <<message, tries, processed, dispatch, status, made, failures, reached, parked, crashes>>
    BY <1>5 DEF N!Take, N!consumeVars, N!outVars
  <2>2. status' = [status EXCEPT ![ch] = s] /\ made' = [made EXCEPT ![ch] = n]
    BY <1>2, <2>1
  <2>3. to \in {"SEND", "DONE"} /\ (to = "DONE" => ch \in reached)
    BY <1>3
  <2> HIDE DEF s, j, n, w, to
  <2> QED
    BY <1>1, <1>3, <2>1, <2>2, <2>3, ChannelStep
<1>6. ASSUME N!Send(ch) PROVE NotificationInv'
  <2>1. /\ w = "SEND" /\ reached' = reached \cup {ch} /\ worker' = [worker EXCEPT ![ch] = "MARK"]
        /\ UNCHANGED <<message, tries, processed, dispatch, status, job, made, failures, parked, crashes>>
    BY <1>6 DEF N!Send, N!consumeVars
  <2>2. status' = [status EXCEPT ![ch] = s] /\ job' = [job EXCEPT ![ch] = j] /\ made' = [made EXCEPT ![ch] = n]
    BY <1>2, <2>1
  <2>3. /\ ch \in reached' /\ j = "ACTIVE" /\ n < MaxAttempts
        /\ reached' \in SUBSET Channels /\ reached \subseteq reached'
        /\ failures' \in SUBSET FailureEvent /\ failures' \ failures = {}
    BY <1>1, <1>3, <2>1
  <2> HIDE DEF s, j, n, w
  <2> QED
    BY <1>1, <1>3, <2>1, <2>2, <2>3, ChannelStep
<1>7. ASSUME N!MarkSent(ch) PROVE NotificationInv'
  <2>1. /\ w = "MARK" /\ status' = [status EXCEPT ![ch] = "SENT"] /\ worker' = [worker EXCEPT ![ch] = "DONE"]
        /\ UNCHANGED <<message, tries, processed, dispatch, job, made, failures, reached, parked, crashes>>
    BY <1>7 DEF N!MarkSent, N!consumeVars, N!outVars
  <2>2. job' = [job EXCEPT ![ch] = j] /\ made' = [made EXCEPT ![ch] = n]
    BY <1>2, <2>1
  <2> HIDE DEF s, j, n, w
  <2> QED
    BY <1>1, <1>3, <2>1, <2>2, ChannelStep
<1>8. ASSUME N!CompleteJob(ch) PROVE NotificationInv'
  <2>1. /\ w = "DONE" /\ job' = [job EXCEPT ![ch] = "NONE"] /\ worker' = [worker EXCEPT ![ch] = "IDLE"]
        /\ UNCHANGED <<message, tries, processed, dispatch, status, made, failures, reached, parked, crashes>>
    BY <1>8 DEF N!CompleteJob, N!consumeVars, N!outVars
  <2>2. status' = [status EXCEPT ![ch] = s] /\ made' = [made EXCEPT ![ch] = n]
    BY <1>2, <2>1
  <2>3. ch \in reached' /\ (s = "DEAD" => ch \in parked) /\ (s = "NONE" => ~processed)
    BY <1>3, <2>1
  <2>4. /\ s \in {"FAILED", "DEAD"} => InHand(ch)
        /\ failures' \in SUBSET FailureEvent /\ failures' \ failures = {}
        /\ reached' \in SUBSET Channels /\ reached \subseteq reached'
    BY <1>1, <1>3, <2>1
  <2>5. "NONE" \in {"NONE", "WAITING", "ACTIVE", "FAILED"} /\ "IDLE" \in {"IDLE", "SEND", "MARK", "DONE"}
    OBVIOUS
  <2> HIDE DEF s, j, n, w
  <2> QED
    BY <1>1, <2>1, <2>2, <2>3, <2>4, <2>5, ChannelStep
<1>9. ASSUME N!FailJob(ch) PROVE NotificationInv'
  <2> DEFINE more == n + 1
             to == IF more < MaxAttempts THEN "WAITING" ELSE "FAILED"
             event == [channel |-> ch, attempts |-> more, isParked |-> FALSE]
  <2>1. /\ w \in {"SEND", "MARK"} /\ made' = [made EXCEPT ![ch] = more]
        /\ worker' = [worker EXCEPT ![ch] = "IDLE"]
        /\ UNCHANGED <<message, tries, processed, dispatch, status, reached, parked, crashes>>
    BY <1>9 DEF N!FailJob, N!consumeVars, N!outVars
  <2>2. made'[ch] = more
    BY <2>1, NotificationTypes
  <2>3. job' = [job EXCEPT ![ch] = to] /\ failures' = failures \cup {event}
    BY <1>9, <2>2 DEF N!FailJob
  <2>4. status' = [status EXCEPT ![ch] = s]
    BY <1>2, <2>1
  <2>5. n < MaxAttempts
    BY <1>3, <2>1
  <2>6. more \in 1..MaxAttempts
    BY <1>1, <2>5
  <2>7. event \in FailureEvent /\ event.channel = ch /\ event.isParked = FALSE
    BY <2>6 DEF FailureEvent
  <2>8. to \in {"WAITING", "FAILED"} /\ (to = "WAITING" => more < MaxAttempts)
    OBVIOUS
  <2> HIDE DEF s, j, n, w, more, to, event
  <2>9. /\ failures' \in SUBSET FailureEvent
        /\ \A f \in failures' \ failures : f.channel = ch /\ (ch \in reached' \/ to # "NONE") /\ ~f.isParked
    BY <1>1, <2>3, <2>7, <2>8
  <2>10. more \in 0..MaxAttempts
    BY <2>6
  <2>11. /\ s \in {"FAILED", "DEAD"} => InHand(ch)
         /\ (s = "DEAD" => ch \in parked) /\ (s = "NONE" => ~processed) /\ (s = "SENT" => ch \in reached')
         /\ reached' \in SUBSET Channels /\ reached \subseteq reached'
         /\ to \in {"NONE", "WAITING", "ACTIVE", "FAILED"} /\ to # "NONE"
         /\ (to \in {"WAITING", "ACTIVE"} => more < MaxAttempts)
    BY <1>1, <1>3, <2>1, <2>8
  <2> QED
    BY <1>1, <2>1, <2>3, <2>4, <2>9, <2>10, <2>11, ChannelStep
<1> QED
  BY <1>5, <1>6, <1>7, <1>8, <1>9 DEF N!Work

\* A failure handler's step keeps it.
LEMMA FailureStep ==
  ASSUME N!NotificationBounds, NotificationInv, NEW f \in failures, N!HandleSendFailure(f)
  PROVE  NotificationInv'
<1>1. /\ failures \in SUBSET FailureEvent /\ f \in FailureEvent
      /\ parked \in SUBSET Channels /\ crashes \in 0..MaxCrashes /\ MaxCrashes \in Nat
  BY NotificationTypes
<1>2. f.channel \in Channels /\ InHand(f.channel) /\ (f.isParked => f.channel \in parked)
  BY <1>1 DEF NotificationInv, FailureFits, FailureEvent
<1>3. failures \ {f} \in SUBSET FailureEvent /\ (failures \ {f}) \ failures = {}
  BY <1>1
<1>4. ASSUME N!MarkFailed(f) PROVE NotificationInv'
  <2>1. /\ status' = [status EXCEPT ![f.channel] = "FAILED"] /\ failures' = failures \ {f}
        /\ UNCHANGED <<message, tries, processed, dispatch, job, made, worker, reached, parked, crashes>>
    BY <1>4 DEF N!MarkFailed, N!consumeVars, N!jobVars, N!outVars
  <2> QED
    BY <1>1, <1>2, <1>3, <2>1, HandlerStep
<1>5. ASSUME N!Park(f) PROVE NotificationInv'
  <2> DEFINE event == [f EXCEPT !.isParked = TRUE]
  <2>1. /\ parked' = parked \cup {f.channel} /\ failures' = (failures \ {f}) \cup {event}
        /\ UNCHANGED <<message, tries, processed, dispatch, status, job, made, worker, reached, crashes>>
    BY <1>5 DEF N!Park, N!consumeVars, N!jobVars
  <2>2. event \in FailureEvent /\ event.channel = f.channel
    BY <1>1 DEF FailureEvent
  <2> HIDE DEF event
  <2>3. /\ failures' \in SUBSET FailureEvent
        /\ \A g \in failures' \ failures : g.channel = f.channel /\ f.channel \in parked'
    BY <1>1, <2>1, <2>2
  <2> QED
    BY <1>1, <1>2, <2>1, <2>3, HandlerStep
<1>6. ASSUME N!MarkDead(f) PROVE NotificationInv'
  <2>1. /\ f.isParked /\ status' = [status EXCEPT ![f.channel] = "DEAD"] /\ failures' = failures \ {f}
        /\ UNCHANGED <<message, tries, processed, dispatch, job, made, worker, reached, parked, crashes>>
    BY <1>6 DEF N!MarkDead, N!consumeVars, N!jobVars, N!outVars
  <2> QED
    BY <1>1, <1>2, <1>3, <2>1, HandlerStep
<1>7. ASSUME N!FailHandler(f) PROVE NotificationInv'
  <2>1. /\ crashes < MaxCrashes /\ crashes' = crashes + 1 /\ failures' = failures \ {f}
        /\ UNCHANGED <<message, tries, processed, dispatch, status, job, made, worker, reached, parked>>
    BY <1>7 DEF N!FailHandler, N!consumeVars, N!jobVars, N!outVars
  <2>2. crashes' \in 0..MaxCrashes
    BY <1>1, <2>1
  <2> QED
    BY <1>1, <1>2, <1>3, <2>1, <2>2, HandlerStep
<1> QED
  BY <1>4, <1>5, <1>6, <1>7 DEF N!HandleSendFailure

\* A crash of all replicas keeps it.
LEMMA NotificationCrash ==
  ASSUME N!NotificationBounds, NotificationInv, N!Crash
  PROVE  NotificationInv'
<1>1. /\ crashes < MaxCrashes /\ crashes' = crashes + 1
      /\ dispatch' = [c \in Consumers |-> N!Resting]
      /\ job' = [ch \in Channels |-> IF job[ch] = "ACTIVE" THEN "WAITING" ELSE job[ch]]
      /\ worker' = [ch \in Channels |-> "IDLE"] /\ failures' = {}
      /\ UNCHANGED <<message, tries, processed, status, made, reached, parked>>
  BY DEF N!Crash, N!outVars
<1>2. crashes' \in 0..MaxCrashes
  BY <1>1, NotificationTypes
<1>3. N!Resting \in DispatchRecord /\ N!Resting.pc = "IDLE"
  BY DEF N!Resting, DispatchRecord
<1>4. /\ dispatch' \in [Consumers -> DispatchRecord] /\ \A c \in Consumers : dispatch'[c].pc = "IDLE"
  BY <1>1, <1>3
<1>5. /\ job' \in [Channels -> {"NONE", "WAITING", "ACTIVE", "FAILED"}]
      /\ worker' \in [Channels -> {"IDLE", "SEND", "MARK", "DONE"}]
      /\ \A ch \in Channels : /\ worker'[ch] = "IDLE"
                              /\ job'[ch] = job[ch] \/ (job[ch] = "ACTIVE" /\ job'[ch] = "WAITING")
  BY <1>1, NotificationTypes
<1>6. \A ch \in Channels : InHand(ch)' <=> InHand(ch)
  BY <1>1, <1>5 DEF InHand
<1>7. \A ch \in Channels : ChannelFits(ch)'
  BY <1>1, <1>5, <1>6 DEF NotificationInv, ChannelFits
<1>8. \A c \in Consumers : DispatchFits(dispatch[c])'
  BY <1>4 DEF DispatchFits
<1>9. processed' \in BOOLEAN
  BY <1>1, NotificationTypes, Zenon
<1>10. N!TypeOK'
  BY <1>1, <1>2, <1>4, <1>5, <1>9, NotificationTypes DEF N!TypeOK, DispatchRecord, FailureEvent
<1> QED
  BY <1>1, <1>6, <1>7, <1>8, <1>10 DEF NotificationInv

\* Every step keeps it.
LEMMA NotificationStep ==
  ASSUME N!NotificationBounds, NotificationInv, [N!Next]_(N!vars)
  PROVE  NotificationInv'
<1>1. CASE UNCHANGED N!vars
  <2>1. UNCHANGED <<message, tries, processed, dispatch, status, job, made, worker, failures, reached, parked, crashes>>
    BY <1>1 DEF N!vars, N!consumeVars, N!jobVars, N!outVars
  <2> QED
    BY <2>1 DEF NotificationInv, N!TypeOK, ChannelFits, DispatchFits, FailureFits, InHand
<1> QED
  BY <1>1, ConsumeStep, WorkStep, FailureStep, NotificationCrash DEF N!Next

\* It implies what the service promises.
LEMMA NotificationKept ==
  ASSUME NotificationInv
  PROVE  N!NoNotificationForgotten /\ N!RowTellsTheTruth
  BY DEF NotificationInv, N!NoNotificationForgotten, N!RowTellsTheTruth, ChannelFits, InHand

\* No notification of a settled event is lost, and its row says what happened
\* to it, for any channels, retries, attempts and crashes.
THEOREM NoNotificationLost == ASSUME N!NotificationBounds PROVE N!Spec => [](N!NoNotificationForgotten /\ N!RowTellsTheTruth)
<1>1. N!Init => NotificationInv
  BY NotificationInit
<1>2. NotificationInv /\ [N!Next]_(N!vars) => NotificationInv'
  BY NotificationStep
<1>3. NotificationInv => (N!NoNotificationForgotten /\ N!RowTellsTheTruth)
  BY NotificationKept
<1> QED
  BY <1>1, <1>2, <1>3, PTL DEF N!Spec

\* What notification does here it does in its module.
LEMMA NotificationTurn ==
  ASSUME running = "notification", [ServicesNext]_allVars
  PROVE  [N!Next]_(N!vars)
<1>1. CASE NotificationSteps
  BY <1>1 DEF NotificationSteps, N!Next, N!Consume, N!Work, N!HandleSendFailure
<1>2. CASE UNCHANGED allVars
  BY <1>2 DEF allVars, notificationVars, N!vars, N!consumeVars, N!jobVars, N!outVars
<1> QED
  BY <1>1, <1>2, Turns

\* The same of the service that MCServices runs, with the types.
THEOREM NotificationService == ServicesSpec => []NotificationsAreTrue
<1> DEFINE Inv == running = "notification" => NotificationInv
<1>1. ServicesInit => Inv
  BY NotificationInit, ServicesAssumption DEF ServicesInit
<1>2. Inv /\ [ServicesNext]_allVars => Inv'
  <2> SUFFICES ASSUME Inv, [ServicesNext]_allVars, running' = "notification" PROVE NotificationInv'
    OBVIOUS
  <2>1. running = "notification"
    BY Turns
  <2> QED
    BY <2>1, NotificationStep, NotificationTurn, ServicesAssumption
<1>3. Inv => NotificationsAreTrue
  BY NotificationKept DEF NotificationInv, NotificationsAreTrue
<1> QED
  BY <1>1, <1>2, <1>3, PTL DEF ServicesSpec

-----------------------------------------------------------------------------
(* MediaUpload.  Only the worker makes the row READY, and its job leaves   *)
(* Redis only when the row is, or a save has set it back.                  *)

\* What a call that completes the upload is doing.
MediaCall ==
  [pc : {"IDLE", "FOUND", "REMOVE", "SAVE", "UPDATE", "ENQUEUE"}, row : M!MediaRow, seen : M!MediaRow]

\* The row names its thumbnail when it is READY, and only then.
Truthful(row) == row.named <=> row.status = "READY"

\* A call saves the row that it read while it was PENDING.  As long as no save
\* set a row back, one that was read READY still is, and saves select truth.
ReadFits(c) ==
  /\ c.row.status = "PENDING" => ~c.row.named
  /\ c.row.status = "READY" => thumbnail /\ (overtaken \/ media.status = "READY")
  /\ c.pc \in {"SAVE", "UPDATE"} => c.row.status = "PENDING"
  /\ c.pc = "UPDATE" => overtaken \/ Truthful(c.seen)

\* The worker runs an active job on a row that is not READY, until it has made it
\* so; and an unfinished job has attempts left.
MakerFits ==
  /\ maker # "IDLE" => thumbJob = "ACTIVE"
  /\ maker \in {"GET", "PUT", "SAVE", "UPDATE"} => media.status # "READY"
  /\ maker \in {"SAVE", "UPDATE", "DONE"} => thumbnail
  /\ maker = "UPDATE" => loaded.status # "READY" /\ (overtaken \/ ~loaded.named)
  /\ maker = "DONE" => overtaken \/ media.status = "READY"
  /\ thumbJob \in {"WAITING", "ACTIVE"} => jobTries < MaxJobAttempts

\* What a client was told.
ToldFits ==
  completed # "NO" =>
    thumbJob # "NONE" \/ (thumbnail /\ (overtaken \/ media.status = "READY"))

\* The row.
RowFits ==
  /\ overtaken \/ Truthful(media)
  /\ media.status = "READY" \/ media.named => thumbnail
  /\ media.status = "PENDING" => ~media.named

\* The inductive invariant.
MediaInv ==
  /\ M!TypeOK
  /\ RowFits
  /\ ToldFits
  /\ \A r \in Requests : ReadFits(request[r])
  /\ MakerFits

\* TypeOK with the parts that steps leave alone.
LEMMA MediaTypes ==
  ASSUME M!MediaBounds, MediaInv
  PROVE  /\ media \in M!MediaRow /\ completed \in {"NO", "YES", "FAILED"} /\ overtaken \in BOOLEAN
         /\ object \in {"NONE", "SMALL", "LARGE"}
         /\ thumbnail \in BOOLEAN /\ request \in [Requests -> MediaCall]
         /\ thumbJob \in {"NONE", "WAITING", "ACTIVE", "FAILED"} /\ jobTries \in 0..MaxJobAttempts
         /\ maker \in {"IDLE", "GET", "PUT", "SAVE", "UPDATE", "DONE"} /\ loaded \in M!MediaRow
         /\ uploads \in 0..MaxUploads /\ stops \in 0..MaxStops
         /\ MaxUploads \in Nat /\ MaxJobAttempts \in Nat \ {0} /\ MaxStops \in Nat
  BY DEF MediaInv, M!TypeOK, M!MediaBounds, MediaCall

\* A call that is not there has read nothing.
LEMMA RestFits ==
  /\ ReadFits(M!AtRest) /\ M!AtRest \in MediaCall
  /\ M!NoRow \in M!MediaRow /\ M!NoRow.status = "NONE" /\ ~M!NoRow.named
<1>1. M!NoRow \in M!MediaRow
  BY Zenon DEF M!NoRow, M!MediaRow
<1>2. M!NoRow.status = "NONE" /\ ~M!NoRow.named
  BY Zenon DEF M!NoRow
<1>3. M!AtRest \in MediaCall /\ M!AtRest.row = M!NoRow /\ M!AtRest.pc = "IDLE"
  BY <1>1 DEF M!AtRest, MediaCall
<1> QED
  BY <1>1, <1>2, <1>3 DEF ReadFits

\* The invariant holds at the start.
LEMMA MediaInit ==
  ASSUME M!MediaBounds, M!Init
  PROVE  MediaInv
<1>1. /\ request \in [Requests -> MediaCall] /\ \A r \in Requests : ReadFits(request[r])
  BY RestFits DEF M!Init
<1>2. media = M!NoRow /\ loaded = M!NoRow
  BY DEF M!Init
<1>3. uploads \in 0..MaxUploads /\ stops \in 0..MaxStops /\ jobTries \in 0..MaxJobAttempts
  BY DEF M!Init, M!MediaBounds
<1>4. overtaken \in BOOLEAN /\ thumbnail \in BOOLEAN
  BY Zenon DEF M!Init
<1>5. object = "NONE" /\ maker = "IDLE" /\ thumbJob = "NONE" /\ completed = "NO"
  BY DEF M!Init
<1>6. M!TypeOK
  BY <1>1, <1>2, <1>3, <1>4, <1>5, RestFits DEF M!TypeOK, MediaCall
<1>7. RowFits
  BY <1>2, RestFits DEF RowFits, Truthful
<1> QED
  BY <1>1, <1>5, <1>6, <1>7 DEF MediaInv, MakerFits, ToldFits

\* One call moves and leaves the row alone.
LEMMA MediaCallStep ==
  ASSUME M!MediaBounds, MediaInv, NEW r \in Requests, NEW c \in MediaCall,
         request' = [request EXCEPT ![r] = c],
         ReadFits(c),
         UNCHANGED <<media, overtaken, thumbnail, maker, loaded, uploads, stops>>,
         object' \in {"NONE", "SMALL", "LARGE"},
         completed' \in {"NO", "YES", "FAILED"},
         ToldFits',
         \/ UNCHANGED <<thumbJob, jobTries>>
         \/ thumbJob = "NONE" /\ thumbJob' = "WAITING" /\ jobTries' = 0
  PROVE  MediaInv'
<1>1. /\ request' \in [Requests -> MediaCall]
      /\ \A q \in Requests : request'[q] = IF q = r THEN c ELSE request[q]
  BY MediaTypes
<1>2. \A q \in Requests : ReadFits(request[q])'
  BY <1>1 DEF MediaInv, ReadFits
<1>3. thumbJob' \in {"NONE", "WAITING", "ACTIVE", "FAILED"} /\ jobTries' \in 0..MaxJobAttempts
  BY MediaTypes
<1>4. MakerFits'
  BY MediaTypes DEF MediaInv, MakerFits
<1>5. overtaken' \in BOOLEAN /\ thumbnail' \in BOOLEAN
  BY MediaTypes, Zenon
<1>6. /\ maker' \in {"IDLE", "GET", "PUT", "SAVE", "UPDATE", "DONE"} /\ loaded' \in M!MediaRow
      /\ media' \in M!MediaRow /\ uploads' \in 0..MaxUploads /\ stops' \in 0..MaxStops
  BY MediaTypes
<1>7. M!TypeOK'
  BY <1>1, <1>3, <1>5, <1>6 DEF M!TypeOK, MediaCall
<1>8. RowFits'
  BY DEF MediaInv, RowFits
<1> QED
  BY <1>2, <1>4, <1>7, <1>8 DEF MediaInv

\* The worker moves, or the job is taken from it.
LEMMA MakerStep ==
  ASSUME M!MediaBounds, MediaInv,
         UNCHANGED <<overtaken, object, request, uploads, stops>>,
         media' \in M!MediaRow,
         media' = media \/ (thumbnail /\ media'.status = "READY" /\ (overtaken \/ media'.named)),
         thumbnail' \in BOOLEAN, thumbnail => thumbnail',
         loaded' \in M!MediaRow,
         maker' \in {"IDLE", "GET", "PUT", "SAVE", "UPDATE", "DONE"},
         thumbJob' \in {"NONE", "WAITING", "ACTIVE", "FAILED"},
         thumbJob' # "NONE" \/ (thumbnail /\ (overtaken \/ media.status = "READY")),
         completed' \in {"NO", "YES", "FAILED"},
         jobTries' \in 0..MaxJobAttempts,
         MakerFits'
  PROVE  MediaInv'
<1>1. RowFits'
  BY DEF MediaInv, RowFits, Truthful
<1>2. ToldFits'
  BY DEF ToldFits
<1>3. \A r \in Requests : ReadFits(request[r])'
  BY DEF MediaInv, ReadFits
<1>4. overtaken' \in BOOLEAN
  BY MediaTypes, Zenon
<1>5. /\ object' \in {"NONE", "SMALL", "LARGE"} /\ request' \in [Requests -> MediaCall]
      /\ uploads' \in 0..MaxUploads /\ stops' \in 0..MaxStops
  BY MediaTypes
<1>6. M!TypeOK'
  BY <1>4, <1>5 DEF M!TypeOK, MediaCall
<1> QED
  BY <1>1, <1>2, <1>3, <1>6 DEF MediaInv

\* A save's update: what it writes differs from what was selected.
LEMMA SavedFacts ==
  ASSUME media \in M!MediaRow, NEW want \in M!MediaRow, NEW seen \in M!MediaRow
  PROVE  /\ M!Saved(want, seen) \in M!MediaRow
         /\ M!Saved(want, seen).status = IF want.status # seen.status THEN want.status ELSE media.status
         /\ ~want.named /\ seen.named => ~M!Saved(want, seen).named
         /\ want.named /\ ~seen.named => M!Saved(want, seen).named
         /\ (want.named <=> seen.named) => M!Saved(want, seen).named = media.named
<1> DEFINE newStatus == IF want.status # seen.status THEN want.status ELSE media.status
           newNamed == IF want.named # seen.named THEN want.named ELSE media.named
<1>1. want.named \in BOOLEAN /\ seen.named \in BOOLEAN /\ media.named \in BOOLEAN
  BY Zenon DEF M!MediaRow
<1>2. newStatus \in {"NONE", "PENDING", "UPLOADED", "READY"}
  BY DEF M!MediaRow
<1>3. newNamed \in BOOLEAN
  BY <1>1, Zenon
<1>4. M!Saved(want, seen) = [status |-> newStatus, named |-> newNamed]
  BY Zenon DEF M!Saved
<1>5. ~want.named /\ seen.named => ~newNamed
  BY <1>1, Zenon
<1>6. want.named /\ ~seen.named => newNamed
  BY <1>1, Zenon
<1>7. (want.named <=> seen.named) => newNamed = media.named
  BY <1>1, Zenon
<1> HIDE DEF newNamed, newStatus
<1>8. M!Saved(want, seen) \in M!MediaRow
  <2>1. [status |-> newStatus, named |-> newNamed] \in M!MediaRow
    <3> SUFFICES ASSUME NEW a \in {"NONE", "PENDING", "UPLOADED", "READY"}, NEW b \in BOOLEAN
                 PROVE  [status |-> a, named |-> b] \in M!MediaRow
      BY <1>2, <1>3
    <3> QED
      BY DEF M!MediaRow
  <2> QED
    BY <1>4, <2>1, Zenon
<1>9. M!Saved(want, seen).status = newStatus
  BY <1>4
<1>10. M!Saved(want, seen).named = newNamed
  BY <1>4
<1> QED
  BY <1>5, <1>6, <1>7, <1>8, <1>9, <1>10, Zenon DEF newStatus

\* A call that marks the row changes it to UPLOADED, or leaves the status alone.
LEMMA SaveUploadedStep ==
  ASSUME M!MediaBounds, MediaInv, NEW r \in Requests, M!SaveUploaded(r)
  PROVE  MediaInv'
<1> DEFINE want == [request[r].row EXCEPT !.status = "UPLOADED"]
           c == [request[r] EXCEPT !.pc = "ENQUEUE", !.seen = M!NoRow]
<1>1. /\ request[r].pc = "UPDATE" /\ request[r] \in MediaCall
      /\ media' = M!Saved(want, request[r].seen)
      /\ overtaken' = (overtaken \/ (media.status = "READY" /\ media'.status # "READY"))
      /\ request' = [request EXCEPT ![r] = c]
      /\ UNCHANGED <<completed, object, thumbnail, thumbJob, jobTries, maker, loaded, uploads, stops>>
  BY MediaTypes DEF M!SaveUploaded, M!bucketVars, M!jobVars, MediaCall
<1>2. /\ request[r].row \in M!MediaRow /\ request[r].seen \in M!MediaRow
      /\ request[r].row.status = "PENDING" /\ ~request[r].row.named
      /\ overtaken \/ Truthful(request[r].seen)
  BY <1>1 DEF MediaInv, ReadFits, MediaCall
<1>3. want \in M!MediaRow /\ want.status = "UPLOADED" /\ ~want.named
  <2>1. want.named = request[r].row.named
    BY <1>2 DEF M!MediaRow
  <2> QED
    BY <1>2, <2>1 DEF M!MediaRow
<1>4. c \in MediaCall /\ c.pc = "ENQUEUE" /\ c.row = request[r].row
  BY <1>1, RestFits DEF MediaCall
<1> HIDE DEF want, c
<1>5. /\ media' \in M!MediaRow
      /\ media'.status = IF want.status # request[r].seen.status THEN want.status ELSE media.status
      /\ media'.named => media.named /\ ~request[r].seen.named
      /\ ~request[r].seen.named => media'.named = media.named
  <2>1. media'.named \in BOOLEAN /\ request[r].seen.named \in BOOLEAN /\ media.named \in BOOLEAN
    BY <1>1, <1>2, <1>3, SavedFacts, MediaTypes, Zenon DEF M!MediaRow
  <2>2. ~request[r].seen.named => media'.named = media.named
    BY <1>1, <1>2, <1>3, <2>1, SavedFacts, MediaTypes
  <2>3. request[r].seen.named => ~media'.named
    BY <1>1, <1>2, <1>3, SavedFacts, MediaTypes
  <2> QED
    BY <1>1, <1>2, <1>3, <2>1, <2>2, <2>3, SavedFacts, MediaTypes
<1>6. media'.status = "UPLOADED" \/ (media'.status = media.status /\ request[r].seen.status = "UPLOADED")
  BY <1>3, <1>5
<1>7. /\ overtaken' \/ ~overtaken
      /\ overtaken => overtaken'
      /\ ~overtaken' /\ media.status = "READY" => media'.status = "READY"
      /\ media'.status = "READY" => media.status = "READY"
  BY <1>1, <1>6
<1>8. RowFits'
  <2>1. media.status = "READY" \/ media.named => thumbnail
    BY DEF MediaInv, RowFits
  <2>2. media'.status = "READY" \/ media'.named => thumbnail'
    BY <1>1, <1>5, <1>7, <2>1
  <2>3. ASSUME ~overtaken' PROVE Truthful(media')
    <3>1. Truthful(media) /\ Truthful(request[r].seen)
      BY <1>2, <1>7, <2>3 DEF MediaInv, RowFits
    <3>2. CASE media'.status = "READY"
      <4>1. media.status = "READY" /\ request[r].seen.status = "UPLOADED"
        BY <1>6, <1>7, <3>2
      <4>2. media.named /\ ~request[r].seen.named
        BY <3>1, <4>1 DEF Truthful
      <4>3. media'.named = media.named
        BY <1>5, <4>2
      <4> QED
        BY <3>2, <4>2, <4>3 DEF Truthful
    <3>3. CASE media'.status # "READY"
      <4>1. media.status # "READY"
        BY <1>7, <2>3, <3>3
      <4>2. ~media'.named
        BY <1>5, <3>1, <4>1 DEF Truthful
      <4> QED
        BY <3>3, <4>2 DEF Truthful
    <3> QED
      BY <3>2, <3>3
  <2>4. media'.status = "PENDING" => ~media'.named
    BY <1>5, <1>6 DEF MediaInv, RowFits
  <2> QED
    BY <2>2, <2>3, <2>4 DEF RowFits, Truthful
<1>9. ToldFits'
  BY <1>1, <1>7 DEF MediaInv, ToldFits
<1>10. \A q \in Requests : ReadFits(request[q])'
  <2> SUFFICES ASSUME NEW q \in Requests PROVE ReadFits(request[q])'
    OBVIOUS
  <2>1. ReadFits(request[q]) /\ ReadFits(request[r])
    BY DEF MediaInv
  <2>2. CASE q = r
    <3>1. request'[q] = c
      BY <1>1, <2>2, MediaTypes
    <3> QED
      BY <1>1, <1>2, <1>4, <3>1 DEF ReadFits
  <2>3. CASE q # r
    <3>1. request'[q] = request[q]
      BY <1>1, <2>3, MediaTypes
    <3> QED
      BY <1>1, <1>7, <2>1, <3>1 DEF ReadFits
  <2> QED
    BY <2>2, <2>3
<1>11. MakerFits'
  BY <1>1, <1>7 DEF MediaInv, MakerFits
<1>12. M!TypeOK'
  <2>1. overtaken' \in BOOLEAN /\ thumbnail' \in BOOLEAN
    BY <1>1, MediaTypes, Zenon
  <2>2. request' \in [Requests -> MediaCall]
    BY <1>1, <1>4, MediaTypes
  <2> QED
    BY <1>1, <1>5, <2>1, <2>2, MediaTypes DEF M!TypeOK, MediaCall
<1> QED
  BY <1>8, <1>9, <1>10, <1>11, <1>12 DEF MediaInv

\* The worker's update of a row that is not READY.
LEMMA ThumbnailedFacts ==
  ASSUME M!MediaBounds, MediaInv, maker = "UPDATE"
  PROVE  LET row == M!Saved(M!Thumbnailed, loaded)
         IN  row \in M!MediaRow /\ row.status = "READY" /\ (overtaken \/ row.named)
<1>1. M!Thumbnailed \in M!MediaRow /\ M!Thumbnailed.status = "READY" /\ M!Thumbnailed.named
  BY Zenon DEF M!Thumbnailed, M!MediaRow
<1>2. loaded \in M!MediaRow /\ loaded.status # "READY" /\ (overtaken \/ ~loaded.named)
  BY MediaTypes DEF MediaInv, MakerFits
<1> QED
  BY <1>1, <1>2, SavedFacts, MediaTypes

\* Every step keeps it.
LEMMA MediaStep ==
  ASSUME M!MediaBounds, MediaInv, [M!Next]_(M!vars)
  PROVE  MediaInv'
<1>1. /\ media \in M!MediaRow /\ completed \in {"NO", "YES", "FAILED"} /\ overtaken \in BOOLEAN
      /\ object \in {"NONE", "SMALL", "LARGE"}
      /\ thumbnail \in BOOLEAN /\ request \in [Requests -> MediaCall]
      /\ thumbJob \in {"NONE", "WAITING", "ACTIVE", "FAILED"} /\ jobTries \in 0..MaxJobAttempts
      /\ maker \in {"IDLE", "GET", "PUT", "SAVE", "UPDATE", "DONE"} /\ loaded \in M!MediaRow
      /\ uploads \in 0..MaxUploads /\ stops \in 0..MaxStops
      /\ MaxUploads \in Nat /\ MaxJobAttempts \in Nat \ {0} /\ MaxStops \in Nat
  BY MediaTypes
<1>2. RowFits /\ ToldFits /\ MakerFits /\ \A r \in Requests : ReadFits(request[r])
  BY DEF MediaInv
<1>3. CASE UNCHANGED M!vars
  <2>1. UNCHANGED <<media, completed, overtaken, object, thumbnail, request, thumbJob, jobTries, maker,
                    loaded, uploads, stops>>
    BY <1>3 DEF M!vars, M!rowVars, M!bucketVars, M!jobVars
  <2> QED
    BY <2>1 DEF MediaInv, M!TypeOK, RowFits, Truthful, ToldFits, ReadFits, MakerFits
<1>4. ASSUME M!CreateUpload PROVE MediaInv'
  <2>1. /\ media = M!NoRow /\ media' = [status |-> "PENDING", named |-> FALSE]
        /\ UNCHANGED <<completed, overtaken, object, thumbnail, request, thumbJob, jobTries, maker,
                       loaded, uploads, stops>>
    BY <1>4 DEF M!CreateUpload, M!bucketVars, M!jobVars
  <2>2. media' \in M!MediaRow /\ media'.status = "PENDING" /\ ~media'.named
    BY <2>1, Zenon DEF M!MediaRow
  <2>3. RowFits' /\ media.status # "READY"
    BY <2>1, <2>2, RestFits DEF RowFits, Truthful
  <2>4. ToldFits' /\ MakerFits' /\ \A r \in Requests : ReadFits(request[r])'
    BY <1>2, <2>1, <2>2, <2>3 DEF ToldFits, MakerFits, ReadFits
  <2> QED
    BY <1>1, <2>1, <2>2, <2>3, <2>4 DEF MediaInv, M!TypeOK, MediaCall
<1>5. ASSUME NEW size \in {"SMALL", "LARGE"}, M!PutByClient(size) PROVE MediaInv'
  <2>1. /\ object' = size /\ uploads' = uploads + 1 /\ uploads < MaxUploads
        /\ UNCHANGED <<media, completed, overtaken, thumbnail, request, thumbJob, jobTries, maker,
                       loaded, stops>>
    BY <1>5 DEF M!PutByClient, M!rowVars, M!jobVars
  <2>2. uploads' \in 0..MaxUploads /\ object' \in {"NONE", "SMALL", "LARGE"}
    BY <1>1, <2>1
  <2> QED
    BY <2>1, <2>2 DEF MediaInv, M!TypeOK, RowFits, Truthful, ToldFits, ReadFits, MakerFits
<1>6. ASSUME NEW r \in Requests, M!FindById(r) PROVE MediaInv'
  <2> DEFINE found == [pc |-> "FOUND", row |-> media, seen |-> M!NoRow]
  <2>1. found \in MediaCall /\ found.row = media /\ found.pc = "FOUND"
    BY <1>1, RestFits DEF MediaCall
  <2>2. /\ request' = [request EXCEPT ![r] = found]
        /\ UNCHANGED <<media, completed, overtaken, object, thumbnail, thumbJob, jobTries, maker,
                       loaded, uploads, stops>>
    BY <1>6 DEF M!FindById, M!rowVars, M!bucketVars, M!jobVars
  <2> HIDE DEF found
  <2>3. ReadFits(found)
    BY <1>2, <2>1 DEF ReadFits, RowFits
  <2>4. ToldFits'
    BY <1>2, <2>2 DEF ToldFits
  <2> QED
    BY <1>1, <2>1, <2>2, <2>3, <2>4, MediaCallStep
<1>7. ASSUME NEW r \in Requests, M!AlreadyReady(r) PROVE MediaInv'
  <2>1. /\ request' = [request EXCEPT ![r] = M!AtRest] /\ completed' = "YES"
        /\ request[r].row.status = "READY"
        /\ UNCHANGED <<media, overtaken, object, thumbnail, thumbJob, jobTries, maker, loaded, uploads, stops>>
    BY <1>7 DEF M!AlreadyReady, M!Answer, M!bucketVars, M!jobVars
  <2>2. thumbnail /\ (overtaken \/ media.status = "READY")
    BY <1>2, <2>1 DEF ReadFits
  <2>3. ToldFits'
    BY <2>1, <2>2 DEF ToldFits
  <2> QED
    BY <1>1, <2>1, <2>3, RestFits, MediaCallStep
<1>8. ASSUME NEW r \in Requests, M!Answer(r), object' \in {"NONE", "SMALL", "LARGE"},
             UNCHANGED <<media, completed, overtaken, thumbnail, thumbJob, jobTries, maker, loaded,
                         uploads, stops>>
      PROVE  MediaInv'
  <2>1. request' = [request EXCEPT ![r] = M!AtRest] /\ ToldFits'
    BY <1>2, <1>8 DEF M!Answer, ToldFits
  <2> QED
    BY <1>1, <1>8, <2>1, RestFits, MediaCallStep
<1>9. ASSUME NEW r \in Requests, NEW pc \in {"REMOVE", "SAVE", "ENQUEUE"}, M!Goto(r, pc),
             pc = "SAVE" => request[r].row.status = "PENDING",
             UNCHANGED <<media, completed, overtaken, object, thumbnail, thumbJob, jobTries, maker,
                         loaded, uploads, stops>>
      PROVE  MediaInv'
  <2> DEFINE c == [request[r] EXCEPT !.pc = pc]
  <2>1. c \in MediaCall /\ c.pc = pc /\ c.row = request[r].row
    BY <1>1 DEF MediaCall
  <2>2. request' = [request EXCEPT ![r] = c] /\ ToldFits'
    BY <1>2, <1>9 DEF M!Goto, ToldFits
  <2> HIDE DEF c
  <2>3. ReadFits(c)
    BY <1>2, <1>9, <2>1 DEF ReadFits
  <2> QED
    BY <1>1, <1>9, <2>1, <2>2, <2>3, MediaCallStep
<1>10. ASSUME NEW r \in Requests, M!StatObject(r) PROVE MediaInv'
  <2>1. UNCHANGED <<media, completed, overtaken, object, thumbnail, thumbJob, jobTries, maker, loaded,
                    uploads, stops>>
    BY <1>10 DEF M!StatObject, M!rowVars, M!bucketVars, M!jobVars
  <2>2. CASE M!Answer(r)
    BY <1>1, <1>8, <2>1, <2>2
  <2>3. CASE M!Goto(r, "REMOVE")
    BY <1>9, <2>1, <2>3
  <2>4. CASE M!Goto(r, "SAVE") /\ request[r].row.status = "PENDING"
    BY <1>9, <2>1, <2>4
  <2>5. CASE M!Goto(r, "ENQUEUE")
    BY <1>9, <2>1, <2>5
  <2> QED
    BY <1>1, <1>10, <2>2, <2>3, <2>4, <2>5 DEF M!StatObject
<1>11. ASSUME NEW r \in Requests, M!RemoveObject(r) PROVE MediaInv'
  <2>1. /\ M!Answer(r) /\ object' = "NONE"
        /\ UNCHANGED <<media, completed, overtaken, thumbnail, thumbJob, jobTries, maker, loaded, uploads, stops>>
    BY <1>11 DEF M!RemoveObject, M!rowVars, M!jobVars
  <2> QED
    BY <1>8, <2>1
<1>12. ASSUME NEW r \in Requests, M!SelectUploaded(r) PROVE MediaInv'
  <2> DEFINE c == [request[r] EXCEPT !.pc = "UPDATE", !.seen = media]
  <2>1. c \in MediaCall /\ c.pc = "UPDATE" /\ c.row = request[r].row /\ c.seen = media
    BY <1>1 DEF MediaCall
  <2>2. /\ request[r].pc = "SAVE" /\ request' = [request EXCEPT ![r] = c]
        /\ UNCHANGED <<media, completed, overtaken, object, thumbnail, thumbJob, jobTries, maker,
                       loaded, uploads, stops>>
    BY <1>1, <1>12 DEF M!SelectUploaded, M!rowVars, M!bucketVars, M!jobVars
  <2> HIDE DEF c
  <2>3. ReadFits(c)
    BY <1>2, <2>1, <2>2 DEF ReadFits, RowFits
  <2>4. ToldFits'
    BY <1>2, <2>2 DEF ToldFits
  <2> QED
    BY <1>1, <2>1, <2>2, <2>3, <2>4, MediaCallStep
<1>13. ASSUME NEW r \in Requests, M!SaveUploaded(r) PROVE MediaInv'
  BY <1>13, SaveUploadedStep
<1>14. ASSUME NEW r \in Requests, M!EnqueueThumbnail(r) PROVE MediaInv'
  <2>1. /\ request' = [request EXCEPT ![r] = M!AtRest] /\ completed' \in {completed, "YES"}
        /\ UNCHANGED <<media, overtaken, object, thumbnail, maker, loaded, uploads, stops>>
    BY <1>14 DEF M!EnqueueThumbnail, M!Answer, M!bucketVars
  <2>2. \/ thumbJob # "NONE" /\ UNCHANGED <<thumbJob, jobTries>>
        \/ thumbJob = "NONE" /\ thumbJob' = "WAITING" /\ jobTries' = 0
    BY <1>14 DEF M!EnqueueThumbnail
  <2>3. ToldFits'
    BY <2>2 DEF ToldFits
  <2> QED
    BY <1>1, <2>1, <2>2, <2>3, RestFits, MediaCallStep
<1>15. ASSUME NEW r \in Requests, M!FailCompletion(r) PROVE MediaInv'
  <2>1. /\ request' = [request EXCEPT ![r] = M!AtRest] /\ completed' \in {completed, "FAILED"}
        /\ completed = "NO" => completed' = "NO"
        /\ UNCHANGED <<media, overtaken, object, thumbnail, thumbJob, jobTries, maker, loaded, uploads, stops>>
    BY <1>15 DEF M!FailCompletion, M!FailedSince, M!Answer, M!bucketVars, M!jobVars
  <2>2. ToldFits'
    BY <1>2, <2>1 DEF ToldFits
  <2> QED
    BY <1>1, <2>1, <2>2, RestFits, MediaCallStep
<1>16. ASSUME M!FindForProcessing PROVE MediaInv'
  <2>1. /\ maker = "IDLE" /\ thumbJob = "WAITING" /\ thumbJob' = "ACTIVE"
        /\ maker' = IF media.status = "READY" THEN "DONE" ELSE "GET"
        /\ UNCHANGED <<media, completed, overtaken, object, thumbnail, request, jobTries, loaded, uploads, stops>>
    BY <1>16 DEF M!FindForProcessing, M!Worker, M!bucketVars
  <2>2. MakerFits'
    BY <1>2, <2>1 DEF RowFits, MakerFits
  <2> QED
    BY <1>1, <2>1, <2>2, MakerStep
<1>17. ASSUME M!GetObject PROVE MediaInv'
  <2>1. /\ maker = "GET" /\ maker' = "PUT"
        /\ UNCHANGED <<media, completed, overtaken, object, thumbnail, request, thumbJob, jobTries, loaded,
                       uploads, stops>>
    BY <1>17 DEF M!GetObject, M!Worker, M!bucketVars
  <2>2. MakerFits' /\ thumbJob = "ACTIVE"
    BY <1>2, <2>1 DEF MakerFits
  <2> QED
    BY <1>1, <2>1, <2>2, MakerStep
<1>18. ASSUME M!PutThumbnail PROVE MediaInv'
  <2>1. /\ maker = "PUT" /\ maker' = "SAVE" /\ thumbnail' = TRUE
        /\ UNCHANGED <<media, completed, overtaken, object, request, thumbJob, jobTries, loaded, uploads, stops>>
    BY <1>18 DEF M!PutThumbnail, M!Worker
  <2>2. MakerFits' /\ thumbJob = "ACTIVE"
    BY <1>2, <2>1 DEF MakerFits
  <2>3. thumbnail' \in BOOLEAN
    BY <2>1, Zenon
  <2> QED
    BY <1>1, <2>1, <2>2, <2>3, MakerStep
<1>19. ASSUME M!SelectReady PROVE MediaInv'
  <2>1. /\ maker = "SAVE" /\ maker' = "UPDATE" /\ loaded' = media
        /\ UNCHANGED <<media, completed, overtaken, object, thumbnail, request, thumbJob, jobTries, uploads, stops>>
    BY <1>19 DEF M!SelectReady, M!Worker, M!bucketVars
  <2>2. MakerFits' /\ thumbJob = "ACTIVE"
    BY <1>2, <2>1 DEF MakerFits, RowFits, Truthful
  <2> QED
    BY <1>1, <2>1, <2>2, MakerStep
<1>20. ASSUME M!SaveReady PROVE MediaInv'
  <2>1. /\ maker = "UPDATE" /\ maker' = "DONE" /\ media' = M!Saved(M!Thumbnailed, loaded)
        /\ loaded' = M!NoRow
        /\ UNCHANGED <<completed, overtaken, object, thumbnail, request, thumbJob, jobTries, uploads, stops>>
    BY <1>20 DEF M!SaveReady, M!Worker, M!bucketVars
  <2>2. media' \in M!MediaRow /\ media'.status = "READY" /\ (overtaken \/ media'.named)
    BY <2>1, ThumbnailedFacts
  <2>3. MakerFits' /\ thumbJob = "ACTIVE" /\ thumbnail
    BY <1>2, <2>1, <2>2 DEF MakerFits
  <2> QED
    BY <1>1, <2>1, <2>2, <2>3, RestFits, MakerStep
<1>21. ASSUME M!CompleteThumbnail PROVE MediaInv'
  <2>1. /\ maker = "DONE" /\ maker' = "IDLE" /\ thumbJob' = "NONE"
        /\ UNCHANGED <<media, completed, overtaken, object, thumbnail, request, jobTries, loaded, uploads, stops>>
    BY <1>21 DEF M!CompleteThumbnail, M!Worker, M!bucketVars
  <2>2. MakerFits' /\ thumbnail /\ (overtaken \/ media.status = "READY")
    BY <1>2, <2>1 DEF MakerFits
  <2> QED
    BY <1>1, <2>1, <2>2, MakerStep
<1>22. ASSUME M!FailThumbnail PROVE MediaInv'
  <2>1. /\ maker # "IDLE" /\ maker' = "IDLE" /\ jobTries' = jobTries + 1 /\ loaded' = M!NoRow
        /\ media' = media \/ (maker = "UPDATE" /\ media' = M!Saved(M!Thumbnailed, loaded))
        /\ thumbJob' = IF jobTries' < MaxJobAttempts THEN "WAITING" ELSE "FAILED"
        /\ completed' \in {completed, "FAILED"}
        /\ UNCHANGED <<overtaken, object, thumbnail, request, uploads, stops>>
    BY <1>22 DEF M!FailThumbnail, M!FailedSince, M!Worker, M!bucketVars
  <2>2. /\ media' \in M!MediaRow
        /\ media' = media \/ (thumbnail /\ media'.status = "READY" /\ (overtaken \/ media'.named))
    BY <1>1, <1>2, <2>1, ThumbnailedFacts DEF MakerFits
  <2>3. jobTries' \in 0..MaxJobAttempts
    BY <1>1, <1>2, <2>1 DEF MakerFits
  <2>4. MakerFits'
    BY <1>1, <2>1, <2>3 DEF MakerFits
  <2>5. completed' \in {"NO", "YES", "FAILED"} /\ thumbJob' \in {"WAITING", "FAILED"}
    BY <1>1, <2>1
  <2> QED
    BY <1>1, <2>1, <2>2, <2>3, <2>4, <2>5, RestFits, MakerStep
<1>23. ASSUME M!StopService PROVE MediaInv'
  <2>1. /\ stops < MaxStops /\ stops' = stops + 1 /\ request' = [r \in Requests |-> M!AtRest]
        /\ maker' = "IDLE" /\ thumbJob' = IF thumbJob = "ACTIVE" THEN "WAITING" ELSE thumbJob
        /\ loaded' = M!NoRow
        /\ UNCHANGED <<media, completed, overtaken, object, thumbnail, jobTries, uploads>>
    BY <1>23 DEF M!StopService, M!rowVars, M!bucketVars
  <2>2. stops' \in 0..MaxStops /\ request' \in [Requests -> MediaCall]
    BY <1>1, <2>1, RestFits
  <2>3. \A r \in Requests : ReadFits(request[r])'
    BY <2>1, RestFits DEF ReadFits
  <2>4. MakerFits' /\ ToldFits' /\ RowFits' /\ thumbJob' \in {"NONE", "WAITING", "ACTIVE", "FAILED"}
    BY <1>1, <1>2, <2>1 DEF MakerFits, ToldFits, RowFits, Truthful
  <2>5. M!TypeOK'
    BY <1>1, <2>1, <2>2, <2>4, RestFits DEF M!TypeOK, MediaCall
  <2> QED
    BY <2>3, <2>4, <2>5 DEF MediaInv
<1> QED
  BY <1>3, <1>4, <1>5, <1>6, <1>7, <1>10, <1>11, <1>12, <1>13, <1>14, <1>15, <1>16, <1>17,
     <1>18, <1>19, <1>20, <1>21, <1>22, <1>23 DEF M!Next, M!CompleteUpload, M!GenerateThumbnail

\* It implies that completed uploads are processed.
LEMMA MediaProcessed ==
  ASSUME MediaInv
  PROVE  M!CompletedIsProcessed
  BY DEF MediaInv, RowFits, ToldFits, Truthful, M!CompletedIsProcessed

\* A client that was told that its upload is complete has a thumbnail, or Redis
\* the job for it; and unless a save set it back, its row is READY or has its job.
THEOREM UploadsAreProcessed == ASSUME M!MediaBounds PROVE M!Spec => []M!CompletedIsProcessed
<1>1. M!Init => MediaInv
  BY MediaInit
<1>2. MediaInv /\ [M!Next]_(M!vars) => MediaInv'
  BY MediaStep
<1>3. MediaInv => M!CompletedIsProcessed
  BY MediaProcessed
<1> QED
  BY <1>1, <1>2, <1>3, PTL DEF M!Spec

\* What media does here it does in its module.
LEMMA MediaTurn ==
  ASSUME running = "media", [ServicesNext]_allVars
  PROVE  [M!Next]_(M!vars)
<1>1. CASE MediaSteps
  BY <1>1 DEF MediaSteps, M!Next, M!CompleteUpload, M!GenerateThumbnail
<1>2. CASE UNCHANGED allVars
  BY <1>2 DEF allVars, mediaVars, M!vars, M!rowVars, M!bucketVars, M!jobVars
<1> QED
  BY <1>1, <1>2, Turns

\* The same of the service that MCServices runs, with the types.
THEOREM MediaService == ServicesSpec => []CompletedIsProcessed
<1> DEFINE Inv == running = "media" => MediaInv
<1>1. ServicesInit => Inv
  BY MediaInit, ServicesAssumption DEF ServicesInit
<1>2. Inv /\ [ServicesNext]_allVars => Inv'
  <2> SUFFICES ASSUME Inv, [ServicesNext]_allVars, running' = "media" PROVE MediaInv'
    OBVIOUS
  <2>1. running = "media"
    BY Turns
  <2> QED
    BY <2>1, MediaStep, MediaTurn, ServicesAssumption
<1>3. Inv => CompletedIsProcessed
  BY MediaProcessed DEF MediaInv, CompletedIsProcessed
<1> QED
  BY <1>1, <1>2, <1>3, PTL DEF ServicesSpec

-----------------------------------------------------------------------------
(* GatewayEdge.  Requests are in windows that have begun, so a window that *)
(* begins has refused nobody; one that finds no expiry sets it before it   *)
(* refuses.                                                                *)

\* Hits are in windows that have begun, so a window that begins has refused
\* nobody.
HitsInWindows ==
  /\ count > 0 => window > 0
  /\ refusedIn \subseteq 1..window
  /\ \A r \in Hits : inward[r].window \in 0..window
  /\ \A r \in Hits : inward[r].pc \in {"TTL", "EXPIRE"} => inward[r].window > 0

\* The inductive invariant.
EdgeInv == G!TypeOK /\ G!EdgeRecovers /\ HitsInWindows

\* What a caller's request is doing.
HitRecord == [pc : {"IDLE", "TTL", "EXPIRE", "FORWARD", "CALLING"}, count : 0..MaxCount, window : 0..MaxWindows]

\* The record of a request that is not there.
LEMMA AwayFits == ASSUME G!EdgeBounds PROVE G!Away \in HitRecord /\ G!Away.pc = "IDLE" /\ G!Away.window = 0
BY DEF G!EdgeBounds, G!Away, HitRecord

\* It holds at the start.
LEMMA EdgeInit == ASSUME G!EdgeBounds, G!Init PROVE EdgeInv
<1>1. G!TypeOK
  <2>1. inward \in [Hits -> HitRecord]
    BY AwayFits DEF G!Init
  <2>2. count \in 0..MaxCount /\ window \in 0..MaxWindows /\ breaker = "CLOSED" /\ refusedIn = {}
    BY DEF G!EdgeBounds, G!Init
  <2>3. expires \in BOOLEAN /\ mayProbe \in BOOLEAN
    BY Zenon DEF G!Init
  <2> QED
    BY <2>1, <2>2, <2>3 DEF G!TypeOK, HitRecord
<1>2. G!EdgeRecovers
  BY DEF G!Init, G!EdgeRecovers
<1>3. HitsInWindows
  BY AwayFits DEF G!Init, HitsInWindows
<1> QED
  BY <1>1, <1>2, <1>3 DEF EdgeInv

\* What a hit becomes that moves on.
LEMMA HitMoves ==
  ASSUME EdgeInv, NEW r \in Hits, NEW pc \in {"EXPIRE", "FORWARD", "CALLING"}
  PROVE  LET c == [inward[r] EXCEPT !.pc = pc]
         IN  /\ c \in HitRecord /\ c.pc = pc /\ c.window = inward[r].window
             /\ [inward EXCEPT ![r].pc = pc] = [inward EXCEPT ![r] = c]
<1>1. inward[r] \in HitRecord /\ inward \in [Hits -> HitRecord]
  BY DEF EdgeInv, G!TypeOK, HitRecord
<1> QED
  BY <1>1 DEF HitRecord

\* One hit changes, in a window that has begun, and with it what was refused;
\* the key keeps its count, and its expiry while it lasts.
LEMMA HitStep ==
  ASSUME G!EdgeBounds, EdgeInv, NEW r \in Hits, NEW c \in HitRecord,
         inward' = [inward EXCEPT ![r] = c], UNCHANGED <<count, window>>,
         expires' \in BOOLEAN, count > 0 /\ expires => expires',
         c.window \in 0..window, c.pc \in {"TTL", "EXPIRE"} => c.window > 0,
         \/ refusedIn' = refusedIn
         \/ /\ inward[r].window \in 1..window
            /\ refusedIn' = refusedIn \cup {inward[r].window} /\ (count > 0 => expires'),
         breaker' \in {"CLOSED", "OPEN", "HALF_OPEN"}, mayProbe' \in BOOLEAN,
         breaker' = "HALF_OPEN" /\ ~mayProbe' =>
           c.pc = "CALLING" \/ (inward[r].pc # "CALLING" /\ UNCHANGED <<breaker, mayProbe>>)
  PROVE  EdgeInv'
<1>1. \A q \in Hits : inward'[q] = IF q = r THEN c ELSE inward[q]
  BY DEF EdgeInv, G!TypeOK
<1>2. inward' \in [Hits -> HitRecord] /\ inward \in [Hits -> HitRecord]
  BY DEF EdgeInv, G!TypeOK, HitRecord
<1>3. refusedIn' \subseteq 1..window
  BY DEF EdgeInv, HitsInWindows
<1>4. G!TypeOK'
  <2>1. window \in 0..MaxWindows
    BY DEF EdgeInv, G!TypeOK
  <2> QED
    BY <1>2, <1>3, <2>1 DEF G!EdgeBounds, EdgeInv, G!TypeOK, HitRecord
<1>5. HitsInWindows'
  BY <1>1, <1>3 DEF EdgeInv, HitsInWindows
<1>6. G!EdgeRecovers'
  BY <1>1, <1>2 DEF EdgeInv, G!EdgeRecovers
<1> QED
  BY <1>4, <1>5, <1>6 DEF EdgeInv

\* Every step keeps it.
LEMMA EdgeStep == ASSUME G!EdgeBounds, EdgeInv, [G!Next]_(G!vars) PROVE EdgeInv'
<1> USE AwayFits DEF G!limitVars, G!breakerVars
<1>1. /\ inward \in [Hits -> HitRecord] /\ count \in 0..MaxCount /\ window \in 0..MaxWindows
      /\ MaxCount \in Nat /\ MaxWindows \in Nat /\ expires \in BOOLEAN
      /\ breaker \in {"CLOSED", "OPEN", "HALF_OPEN"} /\ mayProbe \in BOOLEAN
      /\ \A r \in Hits : /\ inward[r].window \in 0..window
                         /\ inward[r].pc \in {"TTL", "EXPIRE"} => inward[r].window > 0
  BY DEF G!EdgeBounds, EdgeInv, G!TypeOK, HitsInWindows, HitRecord
<1>2. ASSUME NEW r \in Hits, G!Incr(r) PROVE EdgeInv'
  <2> DEFINE c == [pc |-> IF count' = 1 THEN "EXPIRE" ELSE "TTL", count |-> count', window |-> window']
  <2>1. /\ count' = count + 1 /\ count' \in 0..MaxCount
        /\ window' \in 0..MaxWindows /\ window' > 0
        /\ window' = IF count = 0 THEN window + 1 ELSE window
    BY <1>1, <1>2 DEF G!Incr, EdgeInv, HitsInWindows
  <2>2. c \in HitRecord /\ c.pc \in {"TTL", "EXPIRE"} /\ c.window = window'
    BY <2>1 DEF HitRecord
  <2>3. inward' = [inward EXCEPT ![r] = c] /\ UNCHANGED <<expires, refusedIn, breaker, mayProbe>>
    BY <1>2 DEF G!Incr
  <2>4. inward[r].pc # "CALLING"
    BY <1>2 DEF G!Incr
  <2> HIDE DEF c
  <2>5. \A q \in Hits : inward'[q] = IF q = r THEN c ELSE inward[q]
    BY <1>1, <2>3
  <2>6. refusedIn' \subseteq 1..window
    BY <2>3 DEF EdgeInv, HitsInWindows
  <2>7. G!TypeOK'
    <3>1. inward' \in [Hits -> HitRecord]
      BY <1>1, <2>2, <2>3
    <3> QED
      BY <1>1, <2>1, <2>3, <3>1 DEF EdgeInv, G!TypeOK, HitRecord
  <2>8. HitsInWindows'
    BY <1>1, <2>1, <2>2, <2>5, <2>6 DEF HitsInWindows
  <2>9. G!EdgeRecovers'
    BY <1>1, <2>1, <2>3, <2>4, <2>5, <2>6 DEF EdgeInv, G!EdgeRecovers
  <2> QED
    BY <2>7, <2>8, <2>9 DEF EdgeInv
<1>3. ASSUME NEW r \in Hits, inward[r].pc \in {"TTL", "EXPIRE"}, G!Decide(r),
             UNCHANGED <<count, window, breaker, mayProbe>>, expires' \in BOOLEAN, count > 0 => expires'
      PROVE  EdgeInv'
  <2>1. inward[r].window \in 1..window
    BY <1>1, <1>3
  <2>2. CASE inward[r].count > Limit
    <3>1. refusedIn' = refusedIn \cup {inward[r].window} /\ inward' = [inward EXCEPT ![r] = G!Away]
      BY <2>2, <1>3 DEF G!Decide
    <3>2. G!Away.window \in 0..window /\ G!Away.pc \notin {"TTL", "EXPIRE"}
      BY <1>1
    <3>3. inward[r].pc # "CALLING"
      BY <1>3
    <3> QED
      BY <1>1, <1>3, <2>1, <3>1, <3>2, <3>3, HitStep
  <2>3. CASE ~(inward[r].count > Limit)
    <3>1. refusedIn' = refusedIn /\ inward' = [inward EXCEPT ![r].pc = "FORWARD"]
      BY <2>3, <1>3 DEF G!Decide
    <3> QED
      BY <1>1, <1>3, <3>1, HitMoves, HitStep
  <2> QED
    BY <2>2, <2>3
<1>4. ASSUME NEW r \in Hits, G!Ttl(r) PROVE EdgeInv'
  <2>1. CASE count > 0 /\ expires
    BY <1>1, <1>3, <1>4, <2>1 DEF G!Ttl
  <2>2. CASE ~(count > 0 /\ expires)
    BY <1>1, <1>4, <2>2, HitMoves, HitStep DEF G!Ttl
  <2> QED
    BY <2>1, <2>2
<1>5. ASSUME NEW r \in Hits, G!Expire(r) PROVE EdgeInv'
  <2>1. /\ inward[r].pc \in {"TTL", "EXPIRE"} /\ G!Decide(r)
        /\ UNCHANGED <<count, window, breaker, mayProbe>>
    BY <1>5 DEF G!Expire
  <2>2. expires' = (count > 0)
    BY <1>5 DEF G!Expire
  <2>3. expires' \in BOOLEAN
    <3>1. (count > 0) \in BOOLEAN
      OBVIOUS
    <3> QED
      BY <2>2, <3>1, Zenon
  <2>4. count > 0 => expires'
    BY <2>2
  <2> QED
    BY <1>3, <2>1, <2>3, <2>4
<1>6. ASSUME NEW r \in Hits, G!FailOpen(r) PROVE EdgeInv'
  BY <1>1, <1>6, HitMoves, HitStep DEF G!FailOpen
<1>7. ASSUME NEW r \in Hits, G!Fire(r) PROVE EdgeInv'
  <2>1. inward[r].pc = "FORWARD" /\ UNCHANGED <<count, expires, window, refusedIn, breaker>>
    BY <1>7 DEF G!Fire
  <2>2. CASE breaker = "CLOSED" \/ mayProbe
    <3>1. inward' = [inward EXCEPT ![r].pc = "CALLING"] /\ mayProbe' = FALSE
      BY <1>7, <2>2 DEF G!Fire
    <3> QED
      BY <1>1, <2>1, <3>1, HitMoves, HitStep
  <2>3. CASE ~(breaker = "CLOSED" \/ mayProbe)
    <3>1. inward' = [inward EXCEPT ![r] = G!Away] /\ mayProbe' = mayProbe
      BY <1>7, <2>3 DEF G!Fire
    <3>2. G!Away.window \in 0..window /\ G!Away.pc \notin {"TTL", "EXPIRE"}
      BY <1>1
    <3> QED
      BY <1>1, <2>1, <3>1, <3>2, HitStep
  <2> QED
    BY <2>2, <2>3
<1>8. ASSUME NEW r \in Hits, G!Succeed(r) \/ G!FailCall(r) PROVE EdgeInv'
  <2>1. /\ inward' = [inward EXCEPT ![r] = G!Away] /\ UNCHANGED <<count, expires, window, refusedIn>>
        /\ breaker' \in {"CLOSED", "OPEN"} /\ mayProbe' \in BOOLEAN
    BY <1>1, <1>8 DEF G!Succeed, G!FailCall
  <2>2. G!Away.window \in 0..window /\ G!Away.pc \notin {"TTL", "EXPIRE"}
    BY <1>1
  <2> QED
    BY <1>1, <2>1, <2>2, HitStep
<1>9. ASSUME G!WindowEnds \/ G!ResetTimeout PROVE EdgeInv'
  <2>1. CASE G!WindowEnds
    <3>1. /\ count' = 0 /\ expires' = FALSE /\ UNCHANGED <<inward, window, refusedIn, breaker, mayProbe>>
      BY <2>1 DEF G!WindowEnds
    <3>2. expires' \in BOOLEAN
      BY <3>1, Zenon
    <3>3. G!TypeOK'
      BY <1>1, <3>1, <3>2 DEF EdgeInv, G!TypeOK
    <3> QED
      BY <1>1, <3>1, <3>3 DEF EdgeInv, HitsInWindows, G!EdgeRecovers
  <2>2. CASE G!ResetTimeout
    BY <1>1, <2>2 DEF G!ResetTimeout, EdgeInv, G!TypeOK, HitsInWindows, G!EdgeRecovers
  <2> QED
    BY <1>9, <2>1, <2>2
<1>10. ASSUME G!StopGateway PROVE EdgeInv'
  <2>1. inward' \in [Hits -> HitRecord] /\ \A r \in Hits : inward'[r] = G!Away
    BY <1>10 DEF G!StopGateway, G!EdgeBounds
  <2>2. /\ breaker' = "CLOSED" /\ mayProbe' = FALSE /\ UNCHANGED <<count, expires, window, refusedIn>>
    BY <1>10 DEF G!StopGateway
  <2>3. G!TypeOK'
    BY <2>1, <2>2 DEF EdgeInv, G!TypeOK, HitRecord
  <2>4. HitsInWindows' /\ G!EdgeRecovers'
    BY <1>1, <2>1, <2>2 DEF EdgeInv, HitsInWindows, G!EdgeRecovers
  <2> QED
    BY <2>3, <2>4 DEF EdgeInv
<1>11. CASE UNCHANGED G!vars
  BY <1>11 DEF G!vars, EdgeInv, G!TypeOK, HitsInWindows, G!EdgeRecovers
<1> QED
  BY <1>2, <1>4, <1>5, <1>6, <1>7, <1>8, <1>9, <1>10, <1>11 DEF G!Next, G!Handle

\* A window that has refused a request has an expiry, and a half-open breaker
\* has a probe to come or under way, for any limit, requests and restarts.
THEOREM GatewayRecovers == ASSUME G!EdgeBounds PROVE G!Spec => []G!EdgeRecovers
<1>1. G!Init => EdgeInv
  BY EdgeInit
<1>2. EdgeInv /\ [G!Next]_(G!vars) => EdgeInv'
  BY EdgeStep
<1>3. EdgeInv => G!EdgeRecovers
  BY DEF EdgeInv
<1> QED
  BY <1>1, <1>2, <1>3, PTL DEF G!Spec

\* What gateway does here it does in its module.
LEMMA GatewayTurn ==
  ASSUME running = "gateway", [ServicesNext]_allVars
  PROVE  [G!Next]_(G!vars)
<1>1. CASE GatewaySteps
  BY <1>1 DEF GatewaySteps, G!Next, G!Handle
<1>2. CASE UNCHANGED allVars
  BY <1>2 DEF allVars, edgeVars, G!vars, G!limitVars, G!breakerVars
<1> QED
  BY <1>1, <1>2, Turns

\* The same of the service that MCServices runs, with the types.
THEOREM GatewayService == ServicesSpec => []EdgeRecovers
<1> DEFINE Inv == running = "gateway" => EdgeInv
<1>1. ServicesInit => Inv
  BY EdgeInit, ServicesAssumption DEF ServicesInit
<1>2. Inv /\ [ServicesNext]_allVars => Inv'
  <2> SUFFICES ASSUME Inv, [ServicesNext]_allVars, running' = "gateway" PROVE EdgeInv'
    OBVIOUS
  <2>1. running = "gateway"
    BY Turns
  <2> QED
    BY <2>1, EdgeStep, GatewayTurn, ServicesAssumption
<1>3. Inv => EdgeRecovers
  BY DEF EdgeInv, EdgeRecovers
<1> QED
  BY <1>1, <1>2, <1>3, PTL DEF ServicesSpec

-----------------------------------------------------------------------------
(* Settings.  A value in the cache, or on its way there, that is not the   *)
(* one a read should get is about to be evicted, or is doubtful.           *)

\* What ends a value that is no longer what a read would get.
Ending(t) == S!Announced(t) \/ t \in doubtful

\* A value on its way to the cache is as good as one that is there.
ReadsAreEnding ==
  \A t \in Tenants : \A r \in S!UnderWay(t) : reader[r].got # S!Resolve(t) => Ending(t)

\* An entry once set stays set.
EntriesStay ==
  /\ \A e \in Editors : editor[e].pc = "SAVE" => editor[e].value \in Values
  /\ \A r \in Readers : reader[r].pc = "FETCH" /\ reader[r].isSet =>
       S!Resolve(reader[r].tenant) # Unset
  /\ \A r \in Readers : reader[r].pc = "FETCH" => ~reader[r].reached
  /\ \A r \in Readers : reader[r].pc = "SET" => reader[r].got # Unset

\* The inductive invariant of StaleIsEnding.
SettingsInv == S!TypeOK /\ S!StaleIsEnding /\ ReadsAreEnding

\* What an editor is doing.
EditRecord == [pc : {"IDLE", "SAVE", "PUBLISH"}, owner : S!Owners, value : Values \cup {Unset}, isNew : BOOLEAN]
\* What a reader is doing.
ReadingRecord == [pc : {"IDLE", "FETCH", "SET", "RETURN"}, tenant : S!Owners,
            got : Values \cup {Unset}, isSet : BOOLEAN, reached : BOOLEAN]

\* The records of who is doing nothing.
LEMMA IdleClientFits ==
  /\ S!NotEditing \in EditRecord /\ S!NotEditing.pc = "IDLE"
  /\ S!NotReading \in ReadingRecord /\ S!NotReading.pc = "IDLE"
BY DEF S!NotEditing, S!NotReading, EditRecord, ReadingRecord, S!Owners

\* What a read should get is a value or nothing.
LEMMA ResolveFits == ASSUME S!TypeOK, NEW t \in S!Owners PROVE S!Resolve(t) \in Values \cup {Unset}
BY DEF S!TypeOK, S!Resolve, S!Owners

\* The invariant holds at the start.
LEMMA SettingsInit == ASSUME S!SettingsBounds, S!Init PROVE SettingsInv
<1>1. S!TypeOK
  <2>1. editor \in [Editors -> EditRecord] /\ reader \in [Readers -> ReadingRecord]
    BY IdleClientFits DEF S!Init
  <2>2. saved \in 0..MaxChanges /\ topic \in Seq(S!Owners) /\ position \in 0..Len(topic)
    BY DEF S!Init, S!SettingsBounds
  <2> QED
    BY <2>1, <2>2 DEF S!Init, S!TypeOK, EditRecord, ReadingRecord
<1>2. S!StaleIsEnding
  BY DEF S!Init, S!StaleIsEnding
<1>3. ReadsAreEnding
  BY IdleClientFits DEF S!Init, ReadsAreEnding, S!UnderWay
<1> QED
  BY <1>1, <1>2, <1>3 DEF SettingsInv

\* A step that neither changes what a read would get, nor ends a doubt, nor an
\* announcement, nor brings a value that is not current.
LEMMA QuietStep ==
  ASSUME SettingsInv, S!TypeOK',
         \A t \in Tenants : S!Resolve(t)' = S!Resolve(t),
         \A t \in Tenants : Ending(t) => Ending(t)',
         \A t \in Tenants :
           cache'[t] \in {Unset, cache[t], S!Resolve(t)}
             \/ \E r \in S!UnderWay(t) : cache'[t] = reader[r].got,
         \A r \in Readers : reader'[r].pc = "SET" =>
           \/ reader'[r] = reader[r]
           \/ reader'[r].tenant \in Tenants => reader'[r].got = S!Resolve(reader'[r].tenant)
  PROVE  SettingsInv'
<1>1. ASSUME NEW t \in Tenants, NEW r \in S!UnderWay(t)', reader'[r].got # S!Resolve(t)'
      PROVE  Ending(t)'
  <2>1. r \in Readers /\ reader'[r].pc = "SET" /\ reader'[r].tenant = t
    BY <1>1 DEF S!UnderWay
  <2>2. S!Resolve(t)' = S!Resolve(t)
    OBVIOUS
  <2>3. reader'[r] = reader[r]
    BY <1>1, <2>1, <2>2
  <2>4. r \in S!UnderWay(t) /\ reader[r].got # S!Resolve(t)
    BY <1>1, <2>1, <2>2, <2>3 DEF S!UnderWay
  <2> QED
    BY <2>4 DEF SettingsInv, ReadsAreEnding
<1>2. ASSUME NEW t \in Tenants, cache'[t] \notin {Unset, S!Resolve(t)'}
      PROVE  Ending(t)'
  <2>1. S!Resolve(t)' = S!Resolve(t)
    OBVIOUS
  <2>2. CASE cache'[t] = cache[t]
    BY <1>2, <2>1, <2>2 DEF SettingsInv, S!StaleIsEnding, Ending
  <2>3. CASE \E r \in S!UnderWay(t) : cache'[t] = reader[r].got
    BY <1>2, <2>1, <2>3 DEF SettingsInv, ReadsAreEnding
  <2> QED
    BY <1>2, <2>1, <2>2, <2>3
<1>3. ReadsAreEnding'
  BY <1>1 DEF ReadsAreEnding
<1>4. S!StaleIsEnding'
  BY <1>2 DEF S!StaleIsEnding, Ending
<1> QED
  BY <1>3, <1>4 DEF SettingsInv

\* Forget leaves nothing of these tenants behind that nothing ends.
LEMMA ForgetKeeps ==
  ASSUME SettingsInv, S!TypeOK', NEW ts \in SUBSET Tenants, S!Forget(ts),
         UNCHANGED <<entries, editor, topic, reader>>,
         \A t \in Tenants \ ts : S!Announced(t) => S!Announced(t)'
  PROVE  SettingsInv'
<1>1. \A t \in Tenants : S!Resolve(t)' = S!Resolve(t) /\ S!UnderWay(t)' = S!UnderWay(t)
  BY DEF S!Resolve, S!UnderWay
<1>2. \A t \in Tenants : cache'[t] = IF t \in ts THEN Unset ELSE cache[t]
  BY DEF S!Forget
<1>3. \A t \in Tenants \ ts : Ending(t) => Ending(t)'
  BY DEF S!Forget, Ending
<1>4. \A t \in ts : (\E r \in S!UnderWay(t) : reader[r].got # S!Resolve(t)) => t \in doubtful'
  BY DEF S!Forget
<1>5. S!StaleIsEnding'
  BY <1>1, <1>2, <1>3 DEF SettingsInv, S!StaleIsEnding, Ending
<1>6. ReadsAreEnding'
  BY <1>1, <1>3, <1>4 DEF SettingsInv, ReadsAreEnding, Ending
<1> QED
  BY <1>5, <1>6 DEF SettingsInv

\* An entry concerns tenants.
LEMMA ConcernedFits == ASSUME NEW owner \in S!Owners PROVE S!Concerned(owner) \in SUBSET Tenants
BY DEF S!Concerned, S!Owners

\* Every step keeps the types.
LEMMA SettingsTypes == ASSUME S!SettingsBounds, S!TypeOK, [S!Next]_(S!vars) PROVE S!TypeOK'
<1> USE DEF S!configVars, S!clientVars
<1>1. /\ entries \in [S!Owners -> Values \cup {Unset}] /\ saved \in 0..MaxChanges /\ MaxChanges \in Nat
      /\ editor \in [Editors -> EditRecord] /\ reader \in [Readers -> ReadingRecord]
      /\ topic \in Seq(S!Owners) /\ position \in 0..Len(topic)
      /\ cache \in [Tenants -> Values \cup {Unset}] /\ doubtful \in SUBSET Tenants
  BY DEF S!SettingsBounds, S!TypeOK, EditRecord, ReadingRecord
<1>2. SUFFICES
             /\ entries' \in [S!Owners -> Values \cup {Unset}] /\ saved' \in 0..MaxChanges
             /\ editor' \in [Editors -> EditRecord] /\ reader' \in [Readers -> ReadingRecord]
             /\ topic' \in Seq(S!Owners) /\ position' \in 0..Len(topic')
             /\ cache' \in [Tenants -> Values \cup {Unset}] /\ doubtful' \in SUBSET Tenants
  BY DEF S!TypeOK, EditRecord, ReadingRecord
<1>3. ASSUME NEW e \in Editors, NEW owner \in S!Owners, NEW value \in Values, S!FindEntry(e, owner, value)
      PROVE  editor' \in [Editors -> EditRecord]
  <2>1. [pc |-> "SAVE", owner |-> owner, value |-> value, isNew |-> entries[owner] = Unset] \in EditRecord
    BY DEF EditRecord
  <2> QED
    BY <1>1, <1>3, <2>1 DEF S!FindEntry
<1>4. ASSUME NEW e \in Editors, S!SaveEntry(e)
      PROVE  /\ entries' \in [S!Owners -> Values \cup {Unset}] /\ saved' \in 0..MaxChanges
             /\ editor' \in [Editors -> EditRecord]
  <2>1. editor[e] \in EditRecord
    BY <1>1
  <2>2. editor[e].owner \in S!Owners /\ editor[e].value \in Values \cup {Unset}
        /\ [editor[e] EXCEPT !.pc = "PUBLISH"] \in EditRecord
    BY <2>1 DEF EditRecord
  <2>3. \/ editor' = [editor EXCEPT ![e] = S!NotEditing] /\ UNCHANGED <<entries, saved>>
        \/ /\ entries' = [entries EXCEPT ![editor[e].owner] = editor[e].value]
           /\ saved' = saved + 1 /\ saved < MaxChanges
           /\ editor' = [editor EXCEPT ![e] = [editor[e] EXCEPT !.pc = "PUBLISH"]]
    BY <1>1, <1>4 DEF S!SaveEntry
  <2>4. CASE UNCHANGED <<entries, saved>>
    BY <1>1, <2>2, <2>3, <2>4, IdleClientFits
  <2>5. CASE /\ entries' = [entries EXCEPT ![editor[e].owner] = editor[e].value]
             /\ saved' = saved + 1 /\ saved < MaxChanges
             /\ editor' = [editor EXCEPT ![e] = [editor[e] EXCEPT !.pc = "PUBLISH"]]
    <3>1. saved' \in 0..MaxChanges
      BY <1>1, <2>5
    <3>2. entries' \in [S!Owners -> Values \cup {Unset}]
      BY <1>1, <2>2, <2>5
    <3>3. editor' \in [Editors -> EditRecord]
      BY <1>1, <2>2, <2>5
    <3> QED
      BY <3>1, <3>2, <3>3
  <2> QED
    BY <2>3, <2>4, <2>5
<1>5. ASSUME NEW e \in Editors, S!PublishChange(e)
      PROVE  editor' \in [Editors -> EditRecord] /\ topic' \in Seq(S!Owners) /\ position' \in 0..Len(topic')
  <2>1. editor[e].owner \in S!Owners
    BY <1>1 DEF EditRecord
  <2>2. topic' = Append(topic, editor[e].owner) /\ position' = position
        /\ editor' = [editor EXCEPT ![e] = S!NotEditing]
    BY <1>5 DEF S!PublishChange
  <2>3. topic' \in Seq(S!Owners) /\ Len(topic') = Len(topic) + 1 /\ Len(topic) \in Nat
    BY <1>1, <2>1, <2>2
  <2> QED
    BY <1>1, <2>2, <2>3, IdleClientFits
<1>6. ASSUME NEW e \in Editors, S!LoseChange(e)
      PROVE  editor' \in [Editors -> EditRecord] /\ doubtful' \in SUBSET Tenants
  <2>1. editor[e].owner \in S!Owners
    BY <1>1 DEF EditRecord
  <2> QED
    BY <1>1, <1>6, <2>1, IdleClientFits, ConcernedFits DEF S!LoseChange
<1>7. ASSUME NEW r \in Readers, NEW t \in Tenants, S!GetInt(r, t) PROVE reader' \in [Readers -> ReadingRecord]
  <2>1. [S!NotReading EXCEPT !.pc = "FETCH", !.tenant = t, !.isSet = (S!Resolve(t) # Unset)] \in ReadingRecord
    BY DEF S!NotReading, ReadingRecord, S!Owners
  <2> QED
    BY <1>1, <1>7, <2>1 DEF S!GetInt
<1>8. ASSUME NEW r \in Readers, S!FetchValue(r) PROVE reader' \in [Readers -> ReadingRecord]
  <2> DEFINE pc == IF S!Authorized /\ S!Resolve(reader[r].tenant) # Unset THEN "SET" ELSE "RETURN"
             got == IF S!Authorized THEN S!Resolve(reader[r].tenant) ELSE Unset
  <2>1. reader[r] \in ReadingRecord /\ got \in Values \cup {Unset} /\ pc \in {"SET", "RETURN"}
    BY <1>1, ResolveFits DEF ReadingRecord
  <2>2. reader' = [reader EXCEPT ![r] = [reader[r] EXCEPT !.pc = pc, !.got = got, !.reached = TRUE]]
    BY <1>1, <1>8 DEF S!FetchValue
  <2> HIDE DEF pc, got
  <2>3. [reader[r] EXCEPT !.pc = pc, !.got = got, !.reached = TRUE] \in ReadingRecord
    BY <2>1 DEF ReadingRecord
  <2> QED
    BY <1>1, <2>2, <2>3
<1>9. ASSUME NEW r \in Readers, S!FetchFails(r) \/ S!SetCache(r)
      PROVE  reader' \in [Readers -> ReadingRecord] /\ cache' \in [Tenants -> Values \cup {Unset}]
  <2>1. reader[r] \in ReadingRecord
    BY <1>1
  <2>2. [reader[r] EXCEPT !.pc = "RETURN"] \in ReadingRecord /\ reader[r].got \in Values \cup {Unset}
    BY <2>1 DEF ReadingRecord
  <2>3. reader' = [reader EXCEPT ![r] = [reader[r] EXCEPT !.pc = "RETURN"]]
    BY <1>1, <1>9 DEF S!FetchFails, S!SetCache
  <2>4. cache' = cache \/ cache' = [cache EXCEPT ![reader[r].tenant] = reader[r].got]
    BY <1>9 DEF S!FetchFails, S!SetCache
  <2> QED
    BY <1>1, <2>2, <2>3, <2>4
<1>10. ASSUME NEW ts \in SUBSET Tenants, S!Forget(ts)
       PROVE  cache' \in [Tenants -> Values \cup {Unset}] /\ doubtful' \in SUBSET Tenants
  BY <1>1, <1>10 DEF S!Forget
<1>11. ASSUME NEW r \in Readers, S!Return(r) PROVE reader' \in [Readers -> ReadingRecord]
  BY <1>1, <1>11, IdleClientFits DEF S!Return
<1>12. ASSUME S!HandleMessage
       PROVE  /\ position' \in 0..Len(topic')
              /\ cache' \in [Tenants -> Values \cup {Unset}] /\ doubtful' \in SUBSET Tenants
  <2>1. position' = position + 1 /\ position' \in 1..Len(topic) /\ topic' = topic
    BY <1>1, <1>12 DEF S!HandleMessage
  <2>2. topic[position'] \in S!Owners
    BY <1>1, <2>1
  <2>3. S!Forget(S!Concerned(topic[position']))
    BY <1>12 DEF S!HandleMessage, S!Evict
  <2> QED
    BY <1>10, <2>1, <2>2, <2>3, ConcernedFits
<1>13. ASSUME S!RestartClient
       PROVE  /\ position' \in 0..Len(topic') /\ reader' \in [Readers -> ReadingRecord]
              /\ cache' \in [Tenants -> Values \cup {Unset}] /\ doubtful' \in SUBSET Tenants
  BY <1>1, <1>13, IdleClientFits DEF S!RestartClient
<1>14. CASE \E e \in Editors : S!UpsertConfigValue(e)
  BY <1>1, <1>3, <1>4, <1>5, <1>6, <1>14 DEF S!UpsertConfigValue, S!FindEntry, S!SaveEntry, S!PublishChange, S!LoseChange
<1>15. CASE \E r \in Readers : S!Read(r)
  BY <1>1, <1>7, <1>8, <1>9, <1>11, <1>15 DEF S!Read, S!GetInt, S!FetchValue, S!FetchFails, S!SetCache, S!Return
<1>16. CASE \E t \in Tenants : S!ExpireEntry(t)
  BY <1>1, <1>10, <1>16 DEF S!ExpireEntry
<1>17. CASE S!HandleMessage \/ S!RestartClient
  BY <1>1, <1>12, <1>13, <1>17 DEF S!HandleMessage, S!RestartClient
<1>18. CASE UNCHANGED S!vars
  BY <1>1, <1>18 DEF S!vars
<1> QED
  BY <1>14, <1>15, <1>16, <1>17, <1>18 DEF S!Next

\* Every step keeps the invariant.
LEMMA SettingsStep == ASSUME S!OwnerAssumption, S!SettingsBounds, SettingsInv, [S!Next]_(S!vars) PROVE SettingsInv'
<1> USE DEF S!configVars, S!clientVars
<1>1. S!TypeOK /\ S!TypeOK'
  BY SettingsTypes DEF SettingsInv
<1>2. /\ editor \in [Editors -> EditRecord] /\ reader \in [Readers -> ReadingRecord]
      /\ entries \in [S!Owners -> Values \cup {Unset}] /\ cache \in [Tenants -> Values \cup {Unset}]
      /\ topic \in Seq(S!Owners) /\ position \in 0..Len(topic) /\ Len(topic) \in Nat
  BY <1>1 DEF S!TypeOK, EditRecord, ReadingRecord
<1>3. ASSUME NEW e \in Editors, NEW owner \in S!Owners, NEW value \in Values, S!FindEntry(e, owner, value)
      PROVE  SettingsInv'
  <2>1. \A t \in Tenants : S!Resolve(t)' = S!Resolve(t)
    BY <1>3 DEF S!FindEntry, S!Resolve
  <2>2. \A t \in Tenants : Ending(t) => Ending(t)'
    BY <1>2, <1>3, IdleClientFits DEF S!FindEntry, Ending, S!Announced
  <2> QED
    BY <1>1, <1>3, <2>1, <2>2, QuietStep DEF S!FindEntry
<1>4. ASSUME NEW e \in Editors, S!SaveEntry(e) PROVE SettingsInv'
  <2> DEFINE owner == editor[e].owner
  <2>1. owner \in S!Owners /\ editor[e].pc = "SAVE"
    BY <1>2, <1>4 DEF EditRecord, S!SaveEntry
  <2>2. UNCHANGED <<topic, position, cache, doubtful, reader>>
    BY <1>4 DEF S!SaveEntry
  <2>3. \A t \in Tenants : Ending(t) => Ending(t)'
    <3>1. \A d \in Editors : editor[d].pc = "PUBLISH" => editor'[d] = editor[d]
      BY <1>2, <1>4, <2>1 DEF S!SaveEntry
    <3> QED
      BY <2>2, <3>1 DEF Ending, S!Announced
  <2>4. CASE UNCHANGED entries
    <3>1. \A t \in Tenants : S!Resolve(t)' = S!Resolve(t)
      BY <2>4 DEF S!Resolve
    <3> QED
      BY <1>1, <2>2, <2>3, <3>1, QuietStep
  <2>5. CASE /\ entries' = [entries EXCEPT ![owner] = editor[e].value]
             /\ editor' = [editor EXCEPT ![e] = [editor[e] EXCEPT !.pc = "PUBLISH"]]
    <3>1. editor'[e].pc = "PUBLISH" /\ editor'[e].owner = owner
      BY <1>2, <2>5 DEF EditRecord
    <3>2. \A t \in S!Concerned(owner) : Ending(t)'
      BY <3>1 DEF Ending, S!Announced
    <3>3. \A t \in Tenants \ S!Concerned(owner) : S!Resolve(t)' = S!Resolve(t)
      BY <1>2, <2>1, <2>5 DEF S!Concerned, S!Resolve, S!Owners
    <3>4. \A t \in Tenants : S!UnderWay(t)' = S!UnderWay(t)
      BY <2>2 DEF S!UnderWay
    <3>5. S!StaleIsEnding'
      BY <2>2, <2>3, <3>2, <3>3 DEF SettingsInv, S!StaleIsEnding, Ending
    <3>6. ReadsAreEnding'
      BY <2>2, <2>3, <3>2, <3>3, <3>4 DEF SettingsInv, ReadsAreEnding
    <3> QED
      BY <1>1, <3>5, <3>6 DEF SettingsInv
  <2>6. \/ UNCHANGED entries
        \/ /\ entries' = [entries EXCEPT ![owner] = editor[e].value]
           /\ editor' = [editor EXCEPT ![e] = [editor[e] EXCEPT !.pc = "PUBLISH"]]
    BY <1>2, <1>4 DEF S!SaveEntry
  <2> QED
    BY <2>4, <2>5, <2>6
<1>5. ASSUME NEW e \in Editors, S!PublishChange(e) PROVE SettingsInv'
  <2>1. /\ topic' = Append(topic, editor[e].owner) /\ editor' = [editor EXCEPT ![e] = S!NotEditing]
        /\ UNCHANGED <<entries, position, cache, doubtful, reader>>
    BY <1>5 DEF S!PublishChange
  <2>2. editor[e].owner \in S!Owners
    BY <1>2 DEF EditRecord
  <2>3. /\ Len(topic') = Len(topic) + 1 /\ topic'[Len(topic) + 1] = editor[e].owner
        /\ \A i \in 1..Len(topic) : topic'[i] = topic[i]
    BY <1>2, <2>1, <2>2
  <2>4. \A t \in Tenants : S!Resolve(t)' = S!Resolve(t)
    BY <2>1 DEF S!Resolve
  <2>5. ASSUME NEW t \in Tenants, Ending(t) PROVE Ending(t)'
    <3>1. CASE t \in doubtful
      BY <2>1, <3>1 DEF Ending
    <3>2. CASE \E d \in Editors : editor[d].pc = "PUBLISH" /\ t \in S!Concerned(editor[d].owner)
      <4>1. PICK d \in Editors : editor[d].pc = "PUBLISH" /\ t \in S!Concerned(editor[d].owner)
        BY <3>2
      <4>2. CASE d = e
        <5>1. t \in S!Concerned(topic'[Len(topic')]) /\ Len(topic') \in (position' + 1)..Len(topic')
          BY <1>2, <2>1, <2>3, <4>1, <4>2
        <5> QED
          BY <5>1 DEF Ending, S!Announced
      <4>3. CASE d # e
        BY <1>2, <2>1, <4>1, <4>3 DEF Ending, S!Announced
      <4> QED
        BY <4>2, <4>3
    <3>3. CASE \E i \in (position + 1)..Len(topic) : t \in S!Concerned(topic[i])
      <4>1. PICK i \in (position + 1)..Len(topic) : t \in S!Concerned(topic[i])
        BY <3>3
      <4>2. i \in (position' + 1)..Len(topic') /\ topic'[i] = topic[i]
        BY <1>2, <2>1, <2>3, <4>1
      <4> QED
        BY <4>1, <4>2 DEF Ending, S!Announced
    <3> QED
      BY <2>5, <3>1, <3>2, <3>3 DEF Ending, S!Announced
  <2> QED
    BY <1>1, <2>1, <2>4, <2>5, QuietStep
<1>6. ASSUME NEW e \in Editors, S!LoseChange(e) PROVE SettingsInv'
  <2>1. \A t \in Tenants : S!Resolve(t)' = S!Resolve(t)
    BY <1>6 DEF S!LoseChange, S!Resolve
  <2>2. \A t \in Tenants : Ending(t) => Ending(t)'
    BY <1>2, <1>6 DEF S!LoseChange, Ending, S!Announced
  <2> QED
    BY <1>1, <1>6, <2>1, <2>2, QuietStep DEF S!LoseChange
<1>7. ASSUME NEW r \in Readers, S!Read(r) PROVE SettingsInv'
  <2>1. UNCHANGED <<entries, editor, topic, position, doubtful>>
    BY <1>7 DEF S!Read, S!GetInt, S!FetchValue, S!FetchFails, S!SetCache, S!Return
  <2>2. \A t \in Tenants : S!Resolve(t)' = S!Resolve(t) /\ (Ending(t) => Ending(t)')
    BY <2>1 DEF S!Resolve, Ending, S!Announced
  <2>3. reader[r] \in ReadingRecord
    BY <1>2
  <2>4. \A t \in Tenants :
           cache'[t] \in {Unset, cache[t], S!Resolve(t)}
             \/ \E q \in S!UnderWay(t) : cache'[t] = reader[q].got
    BY <1>2, <1>7 DEF S!Read, S!GetInt, S!FetchValue, S!FetchFails, S!SetCache, S!Return, S!UnderWay
  <2>5. \A q \in Readers \ {r} : reader'[q] = reader[q]
    BY <1>2, <1>7 DEF S!Read, S!GetInt, S!FetchValue, S!FetchFails, S!SetCache, S!Return
  <2>6. reader'[r].pc = "SET" => reader'[r].got = S!Resolve(reader'[r].tenant)
    <3>1. CASE S!FetchValue(r)
      BY <1>2, <2>3, <3>1 DEF S!FetchValue, ReadingRecord
    <3>2. CASE reader'[r].pc # "SET"
      BY <3>2
    <3>3. ASSUME NEW t \in Tenants, S!GetInt(r, t) PROVE reader'[r].pc = "FETCH"
      BY <1>2, <3>3 DEF S!GetInt, S!NotReading
    <3>4. ASSUME S!FetchFails(r) \/ S!SetCache(r) PROVE reader'[r].pc = "RETURN"
      BY <1>2, <2>3, <3>4 DEF S!FetchFails, S!SetCache, ReadingRecord
    <3>5. ASSUME S!Return(r) PROVE reader'[r].pc = "IDLE"
      BY <1>2, <3>5, IdleClientFits DEF S!Return
    <3> QED
      BY <1>7, <3>1, <3>2, <3>3, <3>4, <3>5 DEF S!Read
  <2> QED
    BY <1>1, <2>2, <2>4, <2>5, <2>6, QuietStep
<1>8. ASSUME NEW t \in Tenants, S!ExpireEntry(t) PROVE SettingsInv'
  BY <1>1, <1>8, ForgetKeeps DEF S!ExpireEntry, S!Announced
<1>9. ASSUME S!HandleMessage PROVE SettingsInv'
  <2>1. position' = position + 1 /\ position' \in 1..Len(topic) /\ UNCHANGED <<entries, editor, topic, reader>>
    BY <1>2, <1>9 DEF S!HandleMessage
  <2>2. topic[position'] \in S!Owners
    BY <1>2, <2>1
  <2>3. S!Forget(S!Concerned(topic[position']))
    BY <1>9 DEF S!HandleMessage, S!Evict
  <2>4. \A t \in Tenants \ S!Concerned(topic[position']) : S!Announced(t) => S!Announced(t)'
    BY <1>2, <2>1 DEF S!Announced
  <2> QED
    BY <1>1, <2>1, <2>2, <2>3, <2>4, ConcernedFits, ForgetKeeps
<1>10. ASSUME S!RestartClient PROVE SettingsInv'
  BY <1>1, <1>10, IdleClientFits DEF S!RestartClient, SettingsInv, S!StaleIsEnding, ReadsAreEnding, S!UnderWay
<1>11. CASE UNCHANGED S!vars
  BY <1>11 DEF S!vars, SettingsInv, S!TypeOK, S!StaleIsEnding, ReadsAreEnding, S!UnderWay, S!Resolve, Ending, S!Announced
<1> QED
  BY <1>3, <1>4, <1>5, <1>6, <1>7, <1>8, <1>9, <1>10, <1>11 DEF S!Next, S!UpsertConfigValue

\* The inductive invariant of SettingTakesEffect.
EffectInv == S!TypeOK /\ EntriesStay /\ S!SettingTakesEffect

\* It holds at the start.
LEMMA EffectInit == ASSUME S!SettingsBounds, S!Init PROVE EffectInv
<1>1. S!TypeOK
  BY SettingsInit DEF SettingsInv
<1>2. EntriesStay /\ S!SettingTakesEffect
  BY IdleClientFits DEF S!Init, EntriesStay, S!SettingTakesEffect
<1> QED
  BY <1>1, <1>2 DEF EffectInv

\* Every step keeps it where the server does not ask for signatures.
LEMMA EffectStep ==
  ASSUME S!OwnerAssumption, S!SettingsBounds, ~Enforced, EffectInv, [S!Next]_(S!vars)
  PROVE  EffectInv'
<1> USE DEF S!configVars, S!clientVars
<1>1. S!TypeOK /\ S!TypeOK'
  BY SettingsTypes DEF EffectInv
<1>2. /\ editor \in [Editors -> EditRecord] /\ reader \in [Readers -> ReadingRecord]
      /\ entries \in [S!Owners -> Values \cup {Unset}]
  BY <1>1 DEF S!TypeOK, EditRecord, ReadingRecord
<1>3. ASSUME UNCHANGED reader,
             \A t \in S!Owners : S!Resolve(t) # Unset => S!Resolve(t)' # Unset,
             \A e \in Editors : editor'[e].pc = "SAVE" => editor'[e].value \in Values
      PROVE  EffectInv'
  <2>1. \A r \in Readers : reader[r].tenant \in S!Owners
    BY <1>2 DEF ReadingRecord
  <2> QED
    BY <1>1, <1>3, <2>1 DEF EffectInv, EntriesStay, S!SettingTakesEffect
<1>4. ASSUME NEW r \in Readers, NEW c \in ReadingRecord, reader' = [reader EXCEPT ![r] = c],
             UNCHANGED <<entries, editor>>,
             c.pc = "FETCH" => (c.isSet => S!Resolve(c.tenant) # Unset) /\ ~c.reached,
             c.pc = "SET" => c.got # Unset,
             c.pc = "RETURN" /\ c.isSet /\ c.reached => c.got # Unset
      PROVE  EffectInv'
  <2>1. \A q \in Readers : reader'[q] = IF q = r THEN c ELSE reader[q]
    BY <1>2, <1>4
  <2>2. \A t \in S!Owners : S!Resolve(t)' = S!Resolve(t)
    BY <1>4 DEF S!Resolve
  <2>3. \A q \in Readers : reader[q].tenant \in S!Owners /\ c.tenant \in S!Owners
    BY <1>2 DEF ReadingRecord
  <2>4. EntriesStay'
    BY <1>4, <2>1, <2>2, <2>3 DEF EffectInv, EntriesStay
  <2>5. S!SettingTakesEffect'
    BY <1>4, <2>1 DEF EffectInv, S!SettingTakesEffect
  <2> QED
    BY <1>1, <2>4, <2>5 DEF EffectInv
<1>5. ASSUME NEW e \in Editors, S!UpsertConfigValue(e) PROVE EffectInv'
  <2>1. \A d \in Editors : editor'[d].pc = "SAVE" => editor'[d].value \in Values
    <3>1. \A d \in Editors \ {e} : editor'[d] = editor[d]
      BY <1>2, <1>5 DEF S!UpsertConfigValue, S!FindEntry, S!SaveEntry, S!PublishChange, S!LoseChange
    <3>2. editor'[e].pc = "SAVE" => editor'[e].value \in Values
      BY <1>2, <1>5, IdleClientFits DEF S!UpsertConfigValue, S!FindEntry, S!SaveEntry, S!PublishChange, S!LoseChange, EditRecord
    <3> QED
      BY <3>1, <3>2 DEF EffectInv, EntriesStay
  <2>2. \A t \in S!Owners : S!Resolve(t) # Unset => S!Resolve(t)' # Unset
    <3>1. CASE UNCHANGED entries
      BY <3>1 DEF S!Resolve
    <3>2. CASE S!SaveEntry(e)
      <4>1. editor[e].value \in Values /\ editor[e].value # Unset /\ editor[e].owner \in S!Owners
        BY <1>2, <3>2 DEF S!SaveEntry, EffectInv, EntriesStay, S!OwnerAssumption, EditRecord
      <4>2. \A t \in S!Owners : entries'[t] \in {entries[t], editor[e].value}
        BY <1>2, <3>2, <4>1 DEF S!SaveEntry
      <4> QED
        BY <4>1, <4>2 DEF S!Resolve, S!Owners
    <3> QED
      BY <1>5, <3>1, <3>2 DEF S!UpsertConfigValue, S!FindEntry, S!PublishChange, S!LoseChange
  <2> QED
    BY <1>3, <1>5, <2>1, <2>2 DEF S!UpsertConfigValue, S!FindEntry, S!SaveEntry, S!PublishChange, S!LoseChange
<1>6. ASSUME NEW r \in Readers, S!Read(r) PROVE EffectInv'
  <2>1. UNCHANGED <<entries, editor>> /\ reader[r] \in ReadingRecord
    BY <1>2, <1>6 DEF S!Read, S!GetInt, S!FetchValue, S!FetchFails, S!SetCache, S!Return
  <2>2. ASSUME NEW t \in Tenants, S!GetInt(r, t) PROVE EffectInv'
    <3> DEFINE c == [S!NotReading EXCEPT !.pc = "FETCH", !.tenant = t, !.isSet = (S!Resolve(t) # Unset)]
    <3>1. c \in ReadingRecord /\ c.pc = "FETCH" /\ (c.isSet <=> S!Resolve(t) # Unset) /\ c.tenant = t /\ ~c.reached
      BY DEF S!NotReading, ReadingRecord, S!Owners
    <3>2. reader' = [reader EXCEPT ![r] = c]
      BY <2>2 DEF S!GetInt
    <3> HIDE DEF c
    <3> QED
      BY <1>4, <2>1, <3>1, <3>2
  <2>3. CASE S!FetchValue(r)
    <3> DEFINE got == S!Resolve(reader[r].tenant)
               pc == IF got # Unset THEN "SET" ELSE "RETURN"
               c == [reader[r] EXCEPT !.pc = pc, !.got = got, !.reached = TRUE]
    <3>1. got \in Values \cup {Unset} /\ pc \in {"SET", "RETURN"}
      BY <1>1, <2>1, ResolveFits DEF ReadingRecord
    <3>2. reader' = [reader EXCEPT ![r] = c]
      BY <1>2, <2>3 DEF S!FetchValue, S!Authorized
    <3>3. c.isSet = reader[r].isSet /\ c.pc = pc /\ c.got = got /\ c \in ReadingRecord
      BY <2>1, <3>1 DEF ReadingRecord
    <3>4. reader[r].isSet => got # Unset
      BY <2>3 DEF S!FetchValue, EffectInv, EntriesStay
    <3> HIDE DEF c, got
    <3> QED
      BY <1>4, <2>1, <3>1, <3>2, <3>3, <3>4
  <2>4. CASE S!FetchFails(r)
    <3> DEFINE c == [reader[r] EXCEPT !.pc = "RETURN"]
    <3>1. c \in ReadingRecord /\ c.pc = "RETURN" /\ c.reached = reader[r].reached
      BY <2>1 DEF ReadingRecord
    <3>2. ~reader[r].reached /\ reader' = [reader EXCEPT ![r] = c]
      BY <1>2, <2>4 DEF S!FetchFails, EffectInv, EntriesStay
    <3> HIDE DEF c
    <3> QED
      BY <1>4, <2>1, <3>1, <3>2
  <2>5. CASE S!SetCache(r)
    <3> DEFINE c == [reader[r] EXCEPT !.pc = "RETURN"]
    <3>1. c \in ReadingRecord /\ c.pc = "RETURN" /\ c.got = reader[r].got
      BY <2>1 DEF ReadingRecord
    <3>2. reader' = [reader EXCEPT ![r] = c] /\ reader[r].got # Unset
      BY <1>2, <2>5 DEF S!SetCache, EffectInv, EntriesStay
    <3> HIDE DEF c
    <3> QED
      BY <1>4, <2>1, <3>1, <3>2
  <2>6. CASE S!Return(r)
    BY <1>4, <2>1, <2>6, IdleClientFits DEF S!Return
  <2> QED
    BY <1>6, <2>2, <2>3, <2>4, <2>5, <2>6 DEF S!Read
<1>7. CASE S!HandleMessage \/ \E t \in Tenants : S!ExpireEntry(t)
  BY <1>3, <1>7 DEF S!HandleMessage, S!ExpireEntry, EffectInv, EntriesStay, S!Resolve
<1>8. CASE S!RestartClient
  BY <1>1, <1>8, IdleClientFits DEF S!RestartClient, EffectInv, EntriesStay, S!SettingTakesEffect
<1>9. CASE UNCHANGED S!vars
  BY <1>3, <1>9 DEF S!vars, EffectInv, EntriesStay, S!Resolve
<1> QED
  BY <1>5, <1>6, <1>7, <1>8, <1>9 DEF S!Next

\* What the settings client has cached is what the next read would get, or a
\* change is on its way to evict it, or its announcement was lost or overtaken;
\* for any tenants, editors and readers.
THEOREM StaleValuesEnd == ASSUME S!OwnerAssumption, S!SettingsBounds PROVE S!Spec => []S!StaleIsEnding
<1>1. S!Init => SettingsInv
  BY SettingsInit
<1>2. SettingsInv /\ [S!Next]_(S!vars) => SettingsInv'
  BY SettingsStep
<1>3. SettingsInv => S!StaleIsEnding
  BY DEF SettingsInv
<1> QED
  BY <1>1, <1>2, <1>3, PTL DEF S!Spec

\* Where the server asks for no signature, a read whose fetch met no error gets
\* a setting that is there.  (Where signatures are enforced none does.)
THEOREM UnsignedSettingsTakeEffect == ASSUME S!OwnerAssumption, S!SettingsBounds, ~Enforced PROVE S!Spec => []S!SettingTakesEffect
<1>1. S!Init => EffectInv
  BY EffectInit
<1>2. EffectInv /\ [S!Next]_(S!vars) => EffectInv'
  BY EffectStep
<1>3. EffectInv => S!SettingTakesEffect
  BY DEF EffectInv
<1> QED
  BY <1>1, <1>2, <1>3, PTL DEF S!Spec

\* What settings does here it does in its module.
LEMMA SettingsTurn ==
  ASSUME running = "settings", [ServicesNext]_allVars
  PROVE  [S!Next]_(S!vars)
<1>1. CASE SettingsSteps
  BY <1>1 DEF SettingsSteps, S!Next, S!UpsertConfigValue, S!Read
<1>2. CASE UNCHANGED allVars
  BY <1>2 DEF allVars, settingsVars, S!vars, S!configVars, S!clientVars
<1> QED
  BY <1>1, <1>2, Turns

\* The first of these of the service that MCServices runs, with the types.
THEOREM SettingsService == ServicesSpec => []StaleIsEnding
<1> DEFINE Inv == running = "settings" => SettingsInv
<1>1. ServicesInit => Inv
  BY SettingsInit, ServicesAssumption DEF ServicesInit
<1>2. Inv /\ [ServicesNext]_allVars => Inv'
  <2> SUFFICES ASSUME Inv, [ServicesNext]_allVars, running' = "settings" PROVE SettingsInv'
    OBVIOUS
  <2>1. running = "settings"
    BY Turns
  <2> QED
    BY <2>1, SettingsStep, SettingsTurn, ServicesAssumption
<1>3. Inv => StaleIsEnding
  BY DEF SettingsInv, StaleIsEnding
<1> QED
  BY <1>1, <1>2, <1>3, PTL DEF ServicesSpec

-----------------------------------------------------------------------------
(* Provisioning.  How far a call is says which of the user, the role and   *)
(* the link there are.                                                     *)

\* What a call has done so far says how far it is.
AdminFits(a) ==
  /\ admin[a].pc \in {"NEW", "SAVE_TENANT", "CREATE_USER"} => a \notin users \cup links
  /\ admin[a].pc = "SAVE_TENANT" => admin[a].name \in Slugs
  /\ admin[a].pc = "ASSIGN_ROLE" => a \in users
  /\ admin[a].pc = "SAVE_LINK" => a \in users /\ a \in roles
  /\ admin[a].pc # "ENDED" => told[a] = "NOTHING" /\ (a \in links => a \in mishaps)
  /\ told[a] = "CREATED" => admin[a].name \in tenants

\* All calls do.
AdminsFit == \A a \in Admins : AdminFits(a)

\* The inductive invariant.
AuthInv == A!TypeOK /\ A!NoSilentOrphan /\ AdminsFit

\* What a call is doing.
AdminCall == [pc : {"NEW", "SAVE_TENANT", "CREATE_USER", "ASSIGN_ROLE", "SAVE_LINK", "UNDO", "ENDED"},
              name : Slugs \cup Usernames \cup {""}]
\* What a call was told.
Outcome == {"NOTHING", "CREATED", "CONFLICT", "PROVISIONED", "FAILED", "ORPHANED"}

\* What must be so of the call that takes a step.
MoverFits(a) ==
  /\ a \in roles => a \in users
  /\ a \in users => A!Complete(a) \/ a \in mishaps \/ admin[a].pc # "ENDED" \/ told[a] = "ORPHANED"
  /\ told[a] = "PROVISIONED" => A!Complete(a)
  /\ a \in links => a \in users \/ a \in mishaps
  /\ AdminFits(a)

\* One call moves, with what it adds to or takes from the tables.
LEMMA AdminStep ==
  ASSUME AuthInv, NEW a \in Admins, NEW c \in AdminCall, NEW x \in Outcome,
         admin' = [admin EXCEPT ![a] = c], told' = [told EXCEPT ![a] = x],
         tenants' \in SUBSET Slugs, tenants \subseteq tenants',
         users' \in {users, users \cup {a}, users \ {a}},
         roles' \in {roles, roles \cup {a}, roles \ {a}},
         links' \in {links, links \cup {a}},
         mishaps' \in {mishaps, mishaps \cup {a}},
         MoverFits(a)',
         \A b \in users \ {a} : a \in users' => admin[b].name # c.name,
         \A b \in Admins \ {a} : x = "CREATED" /\ told[b] = "CREATED" => admin[b].name # c.name
  PROVE  AuthInv'
<1>1. \A b \in Admins : admin'[b] = IF b = a THEN c ELSE admin[b]
  BY DEF AuthInv, A!TypeOK
<1>2. \A b \in Admins : told'[b] = IF b = a THEN x ELSE told[b]
  BY DEF AuthInv, A!TypeOK
<1>3. \A b \in Admins \ {a} : /\ b \in users' <=> b \in users
                              /\ b \in roles' <=> b \in roles
                              /\ b \in links' <=> b \in links
                              /\ b \in mishaps' <=> b \in mishaps
  OBVIOUS
<1>4. A!TypeOK'
  <2>1. roles' \in SUBSET users'
    BY DEF AuthInv, A!TypeOK, MoverFits
  <2>2. admin' \in [Admins -> AdminCall] /\ told' \in [Admins -> Outcome]
    BY DEF AuthInv, A!TypeOK, AdminCall, Outcome
  <2>3. users' \in SUBSET Admins /\ links' \in SUBSET Admins /\ mishaps' \in SUBSET Admins
    BY DEF AuthInv, A!TypeOK
  <2> QED
    BY <2>1, <2>2, <2>3 DEF A!TypeOK, AdminCall, Outcome
<1>5. AdminsFit'
  <2>1. ASSUME NEW b \in Admins \ {a} PROVE AdminFits(b)'
    BY <1>1, <1>2, <1>3 DEF AuthInv, AdminsFit, AdminFits
  <2> QED
    BY <2>1 DEF AdminsFit, MoverFits
<1>6. A!NoSilentOrphan'
  <2>1. ASSUME NEW b \in users' PROVE \/ A!Complete(b)' \/ b \in mishaps'
                                      \/ admin'[b].pc # "ENDED" \/ told'[b] = "ORPHANED"
    <3>1. CASE b = a
      BY <3>1 DEF MoverFits
    <3>2. CASE b # a
      BY <1>1, <1>2, <1>3, <1>4, <3>2 DEF AuthInv, A!NoSilentOrphan, A!Complete, A!TypeOK
    <3> QED
      BY <3>1, <3>2
  <2>2. ASSUME NEW b \in Admins, told'[b] = "PROVISIONED" PROVE A!Complete(b)'
    <3>1. CASE b = a
      BY <2>2, <3>1 DEF MoverFits
    <3>2. CASE b # a
      BY <1>2, <1>3, <2>2, <3>2 DEF AuthInv, A!NoSilentOrphan, A!Complete
    <3> QED
      BY <3>1, <3>2
  <2>3. ASSUME NEW b \in links' PROVE b \in users' \/ b \in mishaps'
    <3>1. CASE b = a
      BY <2>3, <3>1 DEF MoverFits
    <3>2. CASE b # a
      BY <1>3, <1>4, <2>3, <3>2 DEF AuthInv, A!NoSilentOrphan, A!TypeOK
    <3> QED
      BY <3>1, <3>2
  <2>4. ASSUME NEW b \in users', NEW d \in users', admin'[b].name = admin'[d].name PROVE b = d
    <3>1. b \in Admins /\ d \in Admins
      BY <1>4 DEF A!TypeOK
    <3>2. CASE b = a
      BY <1>1, <1>3, <2>4, <3>1, <3>2
    <3>3. CASE d = a
      BY <1>1, <1>3, <2>4, <3>1, <3>3
    <3>4. CASE b # a /\ d # a
      BY <1>1, <1>3, <2>4, <3>1, <3>4 DEF AuthInv, A!NoSilentOrphan
    <3> QED
      BY <3>2, <3>3, <3>4
  <2>5. \A b, d \in Admins : told'[b] = "CREATED" /\ told'[d] = "CREATED"
                               /\ admin'[b].name = admin'[d].name => b = d
    BY <1>1, <1>2 DEF AuthInv, A!NoSilentOrphan
  <2> QED
    BY <2>1, <2>2, <2>3, <2>4, <2>5 DEF A!NoSilentOrphan
<1> QED
  BY <1>4, <1>5, <1>6 DEF AuthInv

\* The invariant holds at the start.
LEMMA AuthInit == ASSUME A!Init PROVE AuthInv
<1>1. \A a \in Admins : admin[a] = [pc |-> "NEW", name |-> ""] /\ told[a] = "NOTHING"
  BY DEF A!Init
<1>2. A!TypeOK
  <2>1. [pc |-> "NEW", name |-> ""] \in AdminCall
    BY DEF AdminCall
  <2>2. admin \in [Admins -> AdminCall] /\ told \in [Admins -> Outcome]
    BY <2>1 DEF A!Init, Outcome
  <2> QED
    BY <2>2 DEF A!Init, A!TypeOK, AdminCall, Outcome
<1>3. A!NoSilentOrphan
  BY <1>1 DEF A!Init, A!NoSilentOrphan
<1>4. AdminsFit
  BY <1>1 DEF A!Init, AdminsFit, AdminFits
<1> QED
  BY <1>2, <1>3, <1>4 DEF AuthInv

\* The facts of a call that has not ended.
LEMMA AdminFacts ==
  ASSUME AuthInv, NEW a \in Admins
  PROVE  /\ admin[a] \in AdminCall /\ admin \in [Admins -> AdminCall]
         /\ told[a] \in Outcome /\ told \in [Admins -> Outcome]
         /\ tenants \in SUBSET Slugs /\ (a \in roles => a \in users) /\ AdminFits(a)
         /\ a \in links => a \in users \/ a \in mishaps
         /\ a \in users => \A b \in users \ {a} : admin[b].name # admin[a].name
BY DEF AuthInv, A!TypeOK, A!NoSilentOrphan, AdminsFit, AdminCall, Outcome

\* A new call takes a slug or a username.
LEMMA AdminBegins ==
  ASSUME AuthInv, NEW a \in Admins, NEW c \in AdminCall, admin[a].pc = "NEW",
         admin' = [admin EXCEPT ![a] = c], UNCHANGED <<tenants, users, roles, links, mishaps, told>>,
         c.pc = "CREATE_USER" \/ (c.pc = "SAVE_TENANT" /\ c.name \in Slugs)
  PROVE  AuthInv'
<1>1. /\ a \notin users /\ a \notin links /\ a \notin roles /\ told[a] = "NOTHING"
      /\ tenants \in SUBSET Slugs
  BY AdminFacts DEF AdminFits
<1>2. admin'[a] = c /\ told' = [told EXCEPT ![a] = "NOTHING"] /\ told'[a] = "NOTHING"
  BY <1>1, AdminFacts
<1>3. MoverFits(a)'
  BY <1>1, <1>2 DEF MoverFits, AdminFits
<1>4. "NOTHING" \in Outcome
  BY DEF Outcome
<1> QED
  BY <1>1, <1>2, <1>3, <1>4, AdminStep

\* A call keeps its name when it moves on.
LEMMA AdminKeepsName ==
  ASSUME NEW rec \in AdminCall, NEW to \in {"ASSIGN_ROLE", "SAVE_LINK", "UNDO", "ENDED"}
  PROVE  /\ [rec EXCEPT !.pc = to] \in AdminCall
         /\ [rec EXCEPT !.pc = to].pc = to /\ [rec EXCEPT !.pc = to].name = rec.name
BY DEF AdminCall

\* A call that has its slug or username goes on or ends.
LEMMA AdminMoves ==
  ASSUME AuthInv, NEW a \in Admins, NEW to \in {"ASSIGN_ROLE", "SAVE_LINK", "UNDO", "ENDED"},
         NEW x \in Outcome \ {"CREATED"},
         admin' = [admin EXCEPT ![a].pc = to],
         told' = [told EXCEPT ![a] = x] \/ (told' = told /\ x = told[a]),
         UNCHANGED tenants,
         users' \in {users, users \cup {a}, users \ {a}},
         roles' \in {roles, roles \cup {a}, roles \ {a}},
         links' \in {links, links \cup {a}},
         mishaps' \in {mishaps, mishaps \cup {a}},
         a \in users' => a \in users \/ \A b \in users : admin[b].name # admin[a].name,
         a \in roles' => a \in users',
         a \in users' => \/ a \in roles' /\ a \in links'
                        \/ a \in mishaps' \/ to # "ENDED" \/ x = "ORPHANED",
         x = "PROVISIONED" => a \in users' /\ a \in roles' /\ a \in links',
         a \in links' => a \in users' \/ a \in mishaps',
         to \in {"ASSIGN_ROLE", "SAVE_LINK"} => a \in users',
         to = "SAVE_LINK" => a \in roles',
         to # "ENDED" => x = "NOTHING" /\ (a \in links' => a \in mishaps')
  PROVE  AuthInv'
<1> DEFINE c == [admin[a] EXCEPT !.pc = to]
<1>1. admin[a] \in AdminCall
  BY AdminFacts
<1>2. c \in AdminCall /\ c.pc = to /\ c.name = admin[a].name
  BY <1>1, AdminKeepsName
<1>3. admin' = [admin EXCEPT ![a] = c]
  BY AdminFacts
<1>4. told' = [told EXCEPT ![a] = x]
  BY AdminFacts
<1> HIDE DEF c
<1>5. admin'[a] = c /\ told'[a] = x
  BY <1>3, <1>4, AdminFacts
<1>6. MoverFits(a)'
  BY <1>2, <1>5 DEF MoverFits, AdminFits, A!Complete
<1>7. \A b \in users \ {a} : a \in users' => admin[b].name # c.name
  BY <1>2, AdminFacts
<1>8. x # "CREATED" /\ tenants' \in SUBSET Slugs /\ tenants \subseteq tenants'
  BY AdminFacts
<1> QED
  BY <1>2, <1>3, <1>4, <1>6, <1>7, <1>8, AdminStep

\* Every step of a call keeps the invariant.
LEMMA AdminsKeep ==
  ASSUME AuthInv, NEW a \in Admins,
         A!CreateTenant(a) \/ A!ProvisionUser(a) \/ A!LoseCreated(a) \/ A!LoseLinked(a) \/ A!StopAuth(a)
  PROVE  AuthInv'
<1> USE DEF A!storeVars, A!Step, A!End
<1>1. /\ admin[a] \in AdminCall /\ admin \in [Admins -> AdminCall]
      /\ told[a] \in Outcome /\ told \in [Admins -> Outcome]
      /\ tenants \in SUBSET Slugs /\ (a \in roles => a \in users)
      /\ a \in links => a \in users \/ a \in mishaps
      /\ admin[a].pc \in {"NEW", "SAVE_TENANT", "CREATE_USER"} =>
           a \notin users /\ a \notin links /\ a \notin roles
      /\ admin[a].pc = "SAVE_TENANT" => admin[a].name \in Slugs
      /\ admin[a].pc = "ASSIGN_ROLE" => a \in users
      /\ admin[a].pc = "SAVE_LINK" => a \in users /\ a \in roles
      /\ admin[a].pc # "ENDED" => told[a] = "NOTHING" /\ (a \in links => a \in mishaps)
  BY AdminFacts DEF AdminFits
<1>2. Outcome = {"NOTHING", "CREATED", "CONFLICT", "PROVISIONED", "FAILED", "ORPHANED"}
  BY DEF Outcome
<1>3. ASSUME NEW slug \in Slugs, A!FindBySlug(a, slug) PROVE AuthInv'
  <2>1. admin[a].pc = "NEW" /\ UNCHANGED <<tenants, users, roles, links, mishaps>>
    BY <1>3 DEF A!FindBySlug
  <2>2. CASE slug \in tenants
    <3>1. admin' = [admin EXCEPT ![a].pc = "ENDED"] /\ told' = [told EXCEPT ![a] = "CONFLICT"]
      BY <1>3, <2>2 DEF A!FindBySlug
    <3> QED
      BY <1>1, <1>2, <2>1, <3>1, AdminMoves
  <2>3. CASE slug \notin tenants
    <3> DEFINE c == [pc |-> "SAVE_TENANT", name |-> slug]
    <3>1. c \in AdminCall /\ c.pc = "SAVE_TENANT" /\ c.name \in Slugs
      BY DEF AdminCall
    <3>2. admin' = [admin EXCEPT ![a] = c] /\ told' = told
      BY <1>3, <2>3 DEF A!FindBySlug
    <3> HIDE DEF c
    <3> QED
      BY <1>1, <2>1, <3>1, <3>2, AdminBegins
  <2> QED
    BY <2>2, <2>3
<1>4. ASSUME NEW username \in Usernames, A!Authenticate(a, username) PROVE AuthInv'
  <2> DEFINE c == [pc |-> "CREATE_USER", name |-> username]
  <2>1. admin[a].pc = "NEW" /\ UNCHANGED <<tenants, users, roles, links, mishaps, told>>
    BY <1>4 DEF A!Authenticate
  <2>2. c \in AdminCall /\ c.pc = "CREATE_USER"
    BY DEF AdminCall
  <2>3. admin' = [admin EXCEPT ![a] = c]
    BY <1>4 DEF A!Authenticate
  <2> HIDE DEF c
  <2> QED
    BY <1>1, <2>1, <2>2, <2>3, AdminBegins
<1>5. ASSUME A!SaveTenant(a) PROVE AuthInv'
  <2>1. /\ admin[a].pc = "SAVE_TENANT" /\ UNCHANGED <<users, roles, links, mishaps>>
        /\ tenants' = tenants \cup {admin[a].name}
    BY <1>5 DEF A!SaveTenant
  <2>2. CASE admin[a].name \in tenants
    <3>1. tenants' = tenants
      BY <2>1, <2>2
    <3>2. admin' = [admin EXCEPT ![a].pc = "ENDED"] /\ told' = [told EXCEPT ![a] = "CONFLICT"]
      BY <1>5, <2>2 DEF A!SaveTenant
    <3> QED
      BY <1>1, <1>2, <2>1, <3>1, <3>2, AdminMoves
  <2>3. CASE admin[a].name \notin tenants
    <3> DEFINE c == [admin[a] EXCEPT !.pc = "ENDED"]
    <3>1. c \in AdminCall /\ c.pc = "ENDED" /\ c.name = admin[a].name
      BY <1>1, AdminKeepsName
    <3>2. admin' = [admin EXCEPT ![a] = c] /\ told' = [told EXCEPT ![a] = "CREATED"]
      BY <1>1, <1>5, <2>3 DEF A!SaveTenant
    <3> HIDE DEF c
    <3>3. admin'[a] = c /\ told'[a] = "CREATED"
      BY <1>1, <3>2
    <3>4. MoverFits(a)'
      BY <1>1, <2>1, <3>1, <3>3 DEF MoverFits, AdminFits
    <3>5. \A b \in Admins \ {a} : told[b] = "CREATED" => admin[b].name # c.name
      BY <2>3, <3>1, AdminFacts DEF AdminFits
    <3>6. tenants' \in SUBSET Slugs /\ tenants \subseteq tenants' /\ a \notin users'
      BY <1>1, <2>1
    <3>7. "CREATED" \in Outcome
      BY <1>2
    <3> QED
      BY <2>1, <3>1, <3>2, <3>4, <3>5, <3>6, <3>7, AdminStep
  <2> QED
    BY <2>2, <2>3
<1>6. ASSUME A!CreateUserRecord(a) PROVE AuthInv'
  <2>1. admin[a].pc = "CREATE_USER" /\ UNCHANGED <<tenants, roles, links, mishaps>>
    BY <1>6 DEF A!CreateUserRecord
  <2>2. CASE \E b \in users : admin[b].name = admin[a].name
    <3>1. /\ admin' = [admin EXCEPT ![a].pc = "ENDED"] /\ told' = [told EXCEPT ![a] = "CONFLICT"]
          /\ users' = users
      BY <1>6, <2>2 DEF A!CreateUserRecord
    <3> QED
      BY <1>1, <1>2, <2>1, <3>1, AdminMoves
  <2>3. CASE ~ \E b \in users : admin[b].name = admin[a].name
    <3>1. /\ admin' = [admin EXCEPT ![a].pc = "ASSIGN_ROLE"] /\ told' = told
          /\ users' = users \cup {a}
      BY <1>6, <2>3 DEF A!CreateUserRecord
    <3> QED
      BY <1>1, <1>2, <2>1, <2>3, <3>1, AdminMoves
  <2> QED
    BY <2>2, <2>3
<1>7. ASSUME A!AssignRealmRole(a) PROVE AuthInv'
  BY <1>1, <1>2, <1>7, AdminMoves DEF A!AssignRealmRole
<1>8. ASSUME A!RoleFails(a) PROVE AuthInv'
  BY <1>1, <1>2, <1>8, AdminMoves DEF A!RoleFails
<1>9. ASSUME A!LinkFails(a) PROVE AuthInv'
  BY <1>1, <1>2, <1>9, AdminMoves DEF A!LinkFails
<1>10. ASSUME A!SaveLink(a) PROVE AuthInv'
  BY <1>1, <1>2, <1>10, AdminMoves DEF A!SaveLink
<1>11. ASSUME A!DeleteUserRecord(a) PROVE AuthInv'
  <2>1. /\ admin' = [admin EXCEPT ![a].pc = "ENDED"] /\ told' = [told EXCEPT ![a] = "FAILED"]
        /\ users' = users \ {a} /\ roles' = roles \ {a} /\ UNCHANGED <<tenants, links, mishaps>>
        /\ admin[a].pc = "UNDO"
    BY <1>11 DEF A!DeleteUserRecord
  <2>2. a \notin users' /\ a \notin roles' /\ (a \in links' => a \in mishaps')
    BY <1>1, <2>1
  <2> QED
    BY <1>1, <1>2, <2>1, <2>2, AdminMoves
<1>12. ASSUME A!DeletionFails(a) PROVE AuthInv'
  BY <1>1, <1>2, <1>12, AdminMoves DEF A!DeletionFails
<1>13. ASSUME A!LoseCreated(a) PROVE AuthInv'
  <2>1. /\ admin' = [admin EXCEPT ![a].pc = "ENDED"] /\ told' = [told EXCEPT ![a] = "FAILED"]
        /\ users' = users \cup {a} /\ mishaps' = mishaps \cup {a} /\ UNCHANGED <<tenants, roles, links>>
        /\ admin[a].pc = "CREATE_USER" /\ \A b \in users : admin[b].name # admin[a].name
    BY <1>13 DEF A!LoseCreated, A!Mishap
  <2>2. a \in users' /\ a \in mishaps' /\ a \notin links' /\ a \notin roles'
    BY <1>1, <2>1
  <2> QED
    BY <1>1, <1>2, <2>1, <2>2, AdminMoves
<1>14. ASSUME A!LoseLinked(a) PROVE AuthInv'
  BY <1>1, <1>2, <1>14, AdminMoves DEF A!LoseLinked, A!Mishap
<1>15. ASSUME A!StopAuth(a) PROVE AuthInv'
  BY <1>1, <1>2, <1>15, AdminMoves DEF A!StopAuth, A!Mishap
<1> QED
  BY <1>3, <1>4, <1>5, <1>6, <1>7, <1>8, <1>9, <1>10, <1>11, <1>12, <1>13, <1>14, <1>15
     DEF A!CreateTenant, A!ProvisionUser

\* Every step does.
LEMMA AuthStep == ASSUME AuthInv, [A!Next]_(A!vars) PROVE AuthInv'
<1>1. CASE UNCHANGED A!vars
  BY <1>1 DEF A!vars, A!storeVars, AuthInv, A!TypeOK, A!NoSilentOrphan, AdminsFit, AdminFits, A!Complete
<1> QED
  BY <1>1, AdminsKeep DEF A!Next

\* Nobody is left half provisioned in silence, and a username and a slug belong
\* to one call, for any number of overlapping, failing and interrupted calls.
THEOREM OrphansAreKnown == A!Spec => []A!NoSilentOrphan
<1>1. A!Init => AuthInv
  BY AuthInit
<1>2. AuthInv /\ [A!Next]_(A!vars) => AuthInv'
  BY AuthStep
<1>3. AuthInv => A!NoSilentOrphan
  BY DEF AuthInv
<1> QED
  BY <1>1, <1>2, <1>3, PTL DEF A!Spec

\* What auth does here it does in its module.
LEMMA AuthTurn ==
  ASSUME running = "auth", [ServicesNext]_allVars
  PROVE  [A!Next]_(A!vars)
<1>1. CASE AuthSteps
  BY <1>1 DEF AuthSteps, A!Next, A!CreateTenant, A!ProvisionUser
<1>2. CASE UNCHANGED allVars
  BY <1>2 DEF allVars, authVars, A!vars, A!storeVars
<1> QED
  BY <1>1, <1>2, Turns

\* The same of the service that MCServices runs, with the types.
THEOREM AuthService == ServicesSpec => []NoSilentOrphan
<1> DEFINE Inv == running = "auth" => AuthInv
<1>1. ServicesInit => Inv
  BY AuthInit, ServicesAssumption DEF ServicesInit
<1>2. Inv /\ [ServicesNext]_allVars => Inv'
  <2> SUFFICES ASSUME Inv, [ServicesNext]_allVars, running' = "auth" PROVE AuthInv'
    OBVIOUS
  <2>1. running = "auth"
    BY Turns
  <2> QED
    BY <2>1, AuthStep, AuthTurn, ServicesAssumption
<1>3. Inv => NoSilentOrphan
  BY DEF AuthInv, NoSilentOrphan
<1> QED
  BY <1>1, <1>2, <1>3, PTL DEF ServicesSpec
=============================================================================
