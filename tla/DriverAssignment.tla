-------------------------- MODULE DriverAssignment --------------------------
(***************************************************************************)
(* apps/delivery for one tenant: drivers on WebSockets whose positions are *)
(* a Redis sorted set, the Lua scripts that bind an order to a driver and  *)
(* release it, the consumer of order.events that runs them, and the rooms  *)
(* customers join to watch their order.                                    *)
(*                                                                         *)
(* An order announces one verdict, OrderConfirmed or OrderCancelled (see   *)
(* OrderSaga!OneVerdict).  The consumer keeps no record of processed       *)
(* events: the message comes again after a failure, a lost answer or a     *)
(* rebalance, and two members of the group may handle it at once.  Every   *)
(* replica has its own sockets; Redis is shared.  Positions matter only by *)
(* being there: any order of the candidates is possible.                   *)
(***************************************************************************)
EXTENDS Integers, FiniteSets

CONSTANTS
  Drivers, Orders,
  Members,        \* consumers of order.events that may handle a message
  Sockets,        \* WebSocket connections of drivers
  RateLimit,      \* locations a socket may send in one second
  MaxDeliveries,  \* bound on how often an order's verdict is delivered
  NoOne           \* the absence of a driver or an order

ASSUME NoOneAssumption == NoOne \notin Drivers /\ NoOne \notin Orders
ASSUME LimitAssumption == RateLimit \in Nat \ {0} /\ MaxDeliveries \in Nat

VARIABLES
  verdict,    \* the event each order's saga ends with
  delivered,  \* how often it was handed to a member
  handling,   \* what each member is doing
  online,     \* geo:{tenant}:drivers
  assigned,   \* assign:{tenant}, NoOne where the hash has no field
  busy,       \* assign:{tenant}:busy
  ordersOf,   \* assign:{tenant}:driver:{driver}
  socket,     \* the driver of a connection and how far its end has come
  sent,       \* locations counted by its rate limiter in this second
  rooms       \* orders somebody watches

orderVars == <<verdict, delivered>>
storeVars == <<assigned, busy, ordersOf>>
socketVars == <<socket, sent>>
vars == <<orderVars, handling, online, storeVars, socketVars, rooms>>

Idle == [pc |-> "IDLE", order |-> NoOne, candidates |-> {}]
Closed == [driver |-> NoOne, state |-> "CLOSED"]

Init ==
  /\ verdict \in [Orders -> {"OrderConfirmed", "OrderCancelled"}]
  /\ delivered = [o \in Orders |-> 0]
  /\ handling = [m \in Members |-> Idle]
  /\ online = {}
  /\ assigned = [o \in Orders |-> NoOne]
  /\ busy = {}
  /\ ordersOf = [d \in Drivers |-> {}]
  /\ socket = [s \in Sockets |-> Closed]
  /\ sent = [s \in Sockets |-> 0]
  /\ rooms = {}

-----------------------------------------------------------------------------
(* Orders.                                                                 *)

Free == Drivers \ busy

\* Mutant: a candidate of the roster is taken though it is busy by now.
ClaimAnyone(o, candidates) ==
  IF assigned[o] # NoOne \/ candidates = {}
  THEN UNCHANGED storeVars
  ELSE \E d \in candidates :
         /\ assigned' = [assigned EXCEPT ![o] = d]
         /\ busy' = busy \cup {d}
         /\ ordersOf' = [ordersOf EXCEPT ![d] = @ \cup {o}]

\* Mutant: the incumbent is not looked for.
ClaimAgain(o, candidates) ==
  IF candidates \cap Free = {}
  THEN UNCHANGED storeVars
  ELSE \E d \in candidates \cap Free :
         /\ assigned' = [assigned EXCEPT ![o] = d]
         /\ busy' = busy \cup {d}
         /\ ordersOf' = [ordersOf EXCEPT ![d] = @ \cup {o}]

\* CLAIM_FIRST_FREE: the incumbent, else the first candidate not busy.
Claim(o, candidates) ==
  IF assigned[o] # NoOne \/ candidates \cap Free = {}
  THEN UNCHANGED storeVars
  ELSE \E d \in candidates \cap Free :
         /\ assigned' = [assigned EXCEPT ![o] = d]
         /\ busy' = busy \cup {d}
         /\ ordersOf' = [ordersOf EXCEPT ![d] = @ \cup {o}]

\* RELEASE_ORDER: the driver is free again when it holds no other order.
Release(o) ==
  IF assigned[o] = NoOne
  THEN UNCHANGED storeVars
  ELSE LET d == assigned[o] IN
       /\ assigned' = [assigned EXCEPT ![o] = NoOne]
       /\ ordersOf' = [ordersOf EXCEPT ![d] = @ \ {o}]
       /\ busy' = IF ordersOf[d] \ {o} = {} THEN busy \ {d} ELSE busy

\* A member takes the message; it reads the roster before it claims.
StartConfirmed(m, o) ==
  /\ handling[m] = Idle
  /\ verdict[o] = "OrderConfirmed" /\ delivered[o] < MaxDeliveries
  /\ delivered' = [delivered EXCEPT ![o] = @ + 1]
  /\ handling' = [handling EXCEPT
       ![m] = [pc |-> "CLAIM", order |-> o, candidates |-> online]]
  /\ UNCHANGED <<verdict, online, storeVars, socketVars, rooms>>

\* Only a claim that made the assignment is announced.
AssignDriver(m) ==
  /\ handling[m].pc = "CLAIM"
  /\ Claim(handling[m].order, handling[m].candidates)
  /\ handling' = [handling EXCEPT ![m] =
       IF assigned' = assigned THEN Idle ELSE [@ EXCEPT !.pc = "BROADCAST", !.candidates = {}]]
  /\ UNCHANGED <<orderVars, online, socketVars, rooms>>

BroadcastAssignment(m) ==
  /\ handling[m].pc = "BROADCAST"
  /\ handling' = [handling EXCEPT ![m] = Idle]
  /\ UNCHANGED <<orderVars, online, storeVars, socketVars, rooms>>

ReleaseCancelled(m, o) ==
  /\ handling[m] = Idle
  /\ verdict[o] = "OrderCancelled" /\ delivered[o] < MaxDeliveries
  /\ delivered' = [delivered EXCEPT ![o] = @ + 1]
  /\ Release(o)
  /\ UNCHANGED <<verdict, handling, online, socketVars, rooms>>

\* A replica stops or Redis fails: what the member had done in Redis stays.
Abandon(m) ==
  /\ handling[m] # Idle
  /\ handling' = [handling EXCEPT ![m] = Idle]
  /\ UNCHANGED <<orderVars, online, storeVars, socketVars, rooms>>

-----------------------------------------------------------------------------
(* Sockets.                                                                *)

\* The handshake has verified the token of a driver.
Connect(s, d) ==
  /\ socket[s] = Closed
  /\ socket' = [socket EXCEPT ![s] = [driver |-> d, state |-> "OPEN"]]
  /\ sent' = [sent EXCEPT ![s] = 0]
  /\ UNCHANGED <<orderVars, handling, online, storeVars, rooms>>

\* What a limiter has counted when a message comes.
Counted(s, newSecond) == IF newSecond THEN 0 ELSE sent[s]

Allow(s, newSecond) == Counted(s, newSecond) < RateLimit

\* A location over the limit is dropped; one that passes counts, and if it is
\* on the globe makes the driver searchable and goes to the rooms of its orders.
OnLocation(s, newSecond, onGlobe) ==
  /\ socket[s].state = "OPEN"
  /\ Allow(s, newSecond)
  /\ sent' = [sent EXCEPT ![s] = Counted(s, newSecond) + 1]
  /\ online' = IF onGlobe THEN online \cup {socket[s].driver} ELSE online
  /\ UNCHANGED <<orderVars, handling, storeVars, socket, rooms>>

Drop(s) ==
  /\ socket[s].state = "OPEN"
  /\ socket' = [socket EXCEPT ![s].state = "DROPPED"]
  /\ UNCHANGED <<orderVars, handling, online, storeVars, sent, rooms>>

\* The server notices the end of a connection, perhaps after the driver has
\* connected to another replica.
HandleDisconnect(s) ==
  /\ socket[s].state = "DROPPED"
  /\ online' = online \ {socket[s].driver}
  /\ socket' = [socket EXCEPT ![s] = Closed]
  /\ UNCHANGED <<orderVars, handling, storeVars, sent, rooms>>

OnJoinOrder(o) ==
  /\ assigned[o] # NoOne
  /\ rooms' = rooms \cup {o}
  /\ UNCHANGED <<orderVars, handling, online, storeVars, socketVars>>

-----------------------------------------------------------------------------
HandleOrderEvent(m) ==
  \/ \E o \in Orders : StartConfirmed(m, o) \/ ReleaseCancelled(m, o)
  \/ AssignDriver(m) \/ BroadcastAssignment(m) \/ Abandon(m)

OnSocket(s) ==
  \/ \E d \in Drivers : Connect(s, d)
  \/ \E newSecond, onGlobe \in BOOLEAN : OnLocation(s, newSecond, onGlobe)
  \/ Drop(s) \/ HandleDisconnect(s)

Next ==
  \/ \E m \in Members : HandleOrderEvent(m)
  \/ \E s \in Sockets : OnSocket(s)
  \/ \E o \in Orders : OnJoinOrder(o)

Spec == Init /\ [][Next]_vars

-----------------------------------------------------------------------------
(* The state is what the declarations say.                                 *)
TypeOK ==
  /\ verdict \in [Orders -> {"OrderConfirmed", "OrderCancelled"}]
  /\ delivered \in [Orders -> 0..MaxDeliveries]
  /\ handling \in [Members -> [pc : {"IDLE", "CLAIM", "BROADCAST"},
                               order : Orders \cup {NoOne}, candidates : SUBSET Drivers]]
  /\ online \in SUBSET Drivers
  /\ assigned \in [Orders -> Drivers \cup {NoOne}]
  /\ busy \in SUBSET Drivers
  /\ ordersOf \in [Drivers -> SUBSET Orders]
  /\ socket \in [Sockets -> [driver : Drivers \cup {NoOne},
                             state : {"CLOSED", "OPEN", "DROPPED"}]]
  /\ sent \in [Sockets -> 0..RateLimit]
  /\ rooms \in SUBSET Orders

\* A driver has at most one order, and the three keys tell the same: the set
\* of a driver's orders is what the hash says, and the busy ones are those
\* that have an order.  It must hold while members claim with rosters they
\* read earlier, the same event is handled twice at once and some are cut off.
DriverHasOneOrder ==
  /\ \A o, p \in Orders : assigned[o] # NoOne /\ assigned[o] = assigned[p] => o = p
  /\ \A d \in Drivers : ordersOf[d] = {o \in Orders : assigned[o] = d}
  /\ busy = {d \in Drivers : ordersOf[d] # {}}

\* An order keeps the driver it was given: no redelivery of its event, with
\* other drivers online by then, and no release moves it to another.
AssignmentIsFinal ==
  [][\A o \in Orders : assigned[o] # NoOne => assigned'[o] = assigned[o]]_vars

=============================================================================
