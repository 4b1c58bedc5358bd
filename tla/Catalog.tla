------------------------------ MODULE Catalog ------------------------------
(***************************************************************************)
(* One restaurant and its menu items in apps/catalog: commands that read a *)
(* row and write it in a later transaction together with an outbox row;    *)
(* the topic Debezium makes of the outbox; the read model its projector    *)
(* keeps; and the restaurant's entry in Redis, written by both projectors  *)
(* (catalog and rating events) and by requests that miss.                  *)
(*                                                                         *)
(* Rows of other restaurants share nothing with these.  Of a row only the  *)
(* version matters: the content is the one that version was written with.  *)
(* Debezium and Kafka are external: outbox rows come in the order of their *)
(* commits, aggregate by aggregate, and the processed events make each of  *)
(* them take effect once (see KafkaConsumer).                              *)
(***************************************************************************)
EXTENDS Integers, Sequences, FiniteSets

CONSTANTS
  Restaurant,  \* the restaurant's row
  Items,       \* the rows its menu items may have
  Calls,       \* HTTP requests that write
  Readers,     \* HTTP requests that read through the cache
  MaxRatings,  \* bound on the rating events of one behaviour
  MaxFaults    \* bound on the faults of one behaviour

Syncers == {"catalog", "rating"}
Rows == Items \cup {Restaurant}
Actors == Readers \cup Syncers

ASSUME RowsAssumption == Restaurant \notin Items
ASSUME ActorsAssumption == Readers \cap Syncers = {}
ASSUME BoundsAssumption == MaxRatings \in Nat /\ MaxFaults \in Nat

VARIABLES
  row,      \* the write model
  log,      \* catalog.events: the versions written, 0 for a deletion
  call,     \* the commands
  pos,      \* how far the projector is
  read,     \* the version in the read model, 0 without a row
  skipped,  \* rows of which an event was dead-lettered
  at,       \* what is being done to the cache, by whom
  held,     \* the version it was done with
  cache,    \* the entry in Redis: one version (0 for "no such row"), or empty
  ratings, faults

writeVars == <<row, log, call>>
viewVars == <<pos, read, skipped>>
cacheVars == <<at, held, cache>>
boundVars == <<ratings, faults>>
vars == <<writeVars, viewVars, cacheVars, boundVars>>

NoCall == [pc |-> "IDLE", op |-> "UPDATE", target |-> Restaurant, version |-> 0,
           listed |-> {}, items |-> {}]

\* The restaurant was created, and so may some items have been.
Init ==
  /\ \E made \in SUBSET Items :
       /\ row = [a \in Rows |-> IF a \in Items \ made THEN [state |-> "NONE", version |-> 0]
                                ELSE [state |-> "LIVE", version |-> 1]]
       /\ log = [a \in Rows |-> IF a \in Items \ made THEN <<>> ELSE <<1>>]
  /\ call = [c \in Calls |-> NoCall]
  /\ pos = [a \in Rows |-> 0]
  /\ read = [a \in Rows |-> 0]
  /\ skipped = {}
  /\ at = [x \in Actors |-> "IDLE"]
  /\ held = [x \in Actors |-> 0]
  /\ cache = {}
  /\ ratings = 0 /\ faults = 0

Live(a) == row[a].state = "LIVE"

Fault ==
  /\ faults < MaxFaults
  /\ faults' = faults + 1
  /\ UNCHANGED ratings

-----------------------------------------------------------------------------
(* Commands: what is read before the transaction                           *)

Begin(c, op, a) ==
  /\ call[c].pc = "IDLE"
  /\ call' = [call EXCEPT ![c] = [pc |-> "READ", op |-> op, target |-> a,
                                  version |-> row[a].version, listed |-> {}, items |-> {}]]
  /\ UNCHANGED <<row, log, viewVars, cacheVars, boundVars>>

ReadRestaurant(c) == Live(Restaurant) /\ \E op \in {"UPDATE", "DELETE"} : Begin(c, op, Restaurant)

ReadItem(c) == \E i \in Items : Live(i) /\ \E op \in {"UPDATE", "DELETE"} : Begin(c, op, i)

\* The item's id is random: nobody else has it.
CheckParent(c) ==
  /\ Live(Restaurant)
  /\ \E i \in Items :
       /\ row[i].state = "NONE"
       /\ \A d \in Calls : call[d].op = "CREATE" => call[d].target # i
       /\ Begin(c, "CREATE", i)

Doing(c, op) == call[c].pc = "READ" /\ call[c].op = op

Return(c) == call' = [call EXCEPT ![c].pc = "DONE"]

\* The transaction fails, and with it all it did.
FailCall(c) ==
  /\ call[c].pc \in {"READ", "LISTED", "MARKED"}
  /\ Fault
  /\ call' = [call EXCEPT ![c] = [NoCall EXCEPT !.pc = "DONE"]]
  /\ UNCHANGED <<row, log, viewVars, cacheVars>>

-----------------------------------------------------------------------------
(* Commands: the transaction                                               *)

\* Only a deletion of the restaurant keeps row locks over several statements.
Locked(a) == \E c \in Calls : call[c].pc = "MARKED" /\ a \in call[c].items \cup {Restaurant}

Write(a, version) ==
  /\ row' = [row EXCEPT ![a] = [state |-> "LIVE", version |-> version]]
  /\ log' = [log EXCEPT ![a] = Append(@, version)]

CreateMenuItem(c) ==
  /\ Doing(c, "CREATE")
  /\ Write(call[c].target, 1)
  /\ Return(c)
  /\ UNCHANGED <<viewVars, cacheVars, boundVars>>

\* Mutant: the UPDATE's WHERE has the id only.
SameId(c) == TRUE

\* updateVersioned: a soft deletion changes the version as well.
Unchanged(c) ==
  LET a == call[c].target IN Live(a) /\ row[a].version = call[c].version

UpdateVersioned(c) ==
  /\ Doing(c, "UPDATE")
  /\ ~Locked(call[c].target)
  /\ Return(c)
  /\ IF Unchanged(c)
     THEN Write(call[c].target, call[c].version + 1)
     ELSE UNCHANGED <<row, log>>
  /\ UNCHANGED <<viewVars, cacheVars, boundVars>>

DeleteMenuItem(c) ==
  LET i == call[c].target IN
  /\ Doing(c, "DELETE") /\ i \in Items
  /\ ~Locked(i)
  /\ row' = [row EXCEPT ![i].state = "DELETED"]
  /\ log' = [log EXCEPT ![i] = Append(@, 0)]
  /\ Return(c)
  /\ UNCHANGED <<viewVars, cacheVars, boundVars>>

\* The deletion of the restaurant lists the items it will announce ...
FindAllByRestaurant(c) ==
  /\ Doing(c, "DELETE") /\ call[c].target = Restaurant
  /\ call' = [call EXCEPT ![c].pc = "LISTED", ![c].listed = {i \in Items : Live(i)}]
  /\ UNCHANGED <<row, log, viewVars, cacheVars, boundVars>>

\* Mutant: the deletion is announced outside of the transaction.
AnnounceAtOnce(c) ==
  /\ call[c].pc = "LISTED"
  /\ ~Locked(Restaurant)
  /\ call' = [call EXCEPT ![c].pc = "MARKED",
                          ![c].items = {i \in Items : row[i].state # "NONE"}]
  /\ log' = [log EXCEPT ![Restaurant] = Append(@, 0)]
  /\ UNCHANGED <<row, viewVars, cacheVars, boundVars>>

\* ... soft-deletes the rows it finds then ...
SoftDelete(c) ==
  /\ call[c].pc = "LISTED"
  /\ ~Locked(Restaurant)
  /\ call' = [call EXCEPT ![c].pc = "MARKED",
                          ![c].items = {i \in Items : row[i].state # "NONE"}]
  /\ UNCHANGED <<row, log, viewVars, cacheVars, boundVars>>

\* Mutant: the items' own events are left out.
RestaurantOnly(c) == {Restaurant}

Announced(c) == call[c].listed \cup {Restaurant}

\* ... and commits with the events of the restaurant and the listed items.
DeleteRestaurant(c) ==
  /\ call[c].pc = "MARKED"
  /\ row' = [a \in Rows |-> IF a \in call[c].items \cup {Restaurant}
                            THEN [row[a] EXCEPT !.state = "DELETED"] ELSE row[a]]
  /\ log' = [a \in Rows |-> IF a \in Announced(c) THEN Append(log[a], 0) ELSE log[a]]
  /\ Return(c)
  /\ UNCHANGED <<viewVars, cacheVars, boundVars>>

-----------------------------------------------------------------------------
(* The projectors                                                          *)

NextEvent(a) == log[a][pos[a] + 1]

\* The consumer of an aggregate's partition has an event, and its last one,
\* cache included, is done.
MayProject(a) ==
  /\ pos[a] < Len(log[a])
  /\ a = Restaurant => at["catalog"] = "IDLE"

Advance(a) == pos' = [pos EXCEPT ![a] = @ + 1]

\* The read model after the event; the restaurant's removal takes its items.
Applied(a, event) ==
  [b \in Rows |->
     IF b = a THEN event
     ELSE IF a = Restaurant /\ event = 0 THEN 0
     ELSE read[b]]

ApplyCatalogEvent(a) ==
  /\ MayProject(a)
  /\ Advance(a)
  /\ read' = Applied(a, NextEvent(a))
  /\ at' = IF a = Restaurant
           THEN [at EXCEPT !["catalog"] = IF NextEvent(a) = 0 THEN "EVICT" ELSE "LOAD"]
           ELSE at
  /\ UNCHANGED <<writeVars, skipped, held, cache, boundVars>>

\* The event is given up after its retries.
DeadLetter(a) ==
  /\ MayProject(a)
  /\ Fault
  /\ Advance(a)
  /\ skipped' = skipped \cup {a}
  /\ UNCHANGED <<writeVars, read, cacheVars>>

\* The last event is delivered again: its effect is skipped, its sync is not.
\* (Redelivered after its dead letter, it is an event that was never given up.)
Redeliver ==
  /\ pos[Restaurant] > 0 /\ Restaurant \notin skipped
  /\ at["catalog"] = "IDLE"
  /\ Fault
  /\ at' = [at EXCEPT !["catalog"] =
              IF log[Restaurant][pos[Restaurant]] = 0 THEN "EVICT" ELSE "LOAD"]
  /\ UNCHANGED <<writeVars, viewVars, held, cache>>

\* A rating event: the rating is not kept here, the sync is.
ApplyReviewEvent ==
  /\ ratings < MaxRatings
  /\ at["rating"] = "IDLE"
  /\ ratings' = ratings + 1
  /\ at' = [at EXCEPT !["rating"] = "LOAD"]
  /\ UNCHANGED <<writeVars, viewVars, held, cache, faults>>

-----------------------------------------------------------------------------
(* The restaurant's entry in Redis                                         *)

\* A request finds no entry ...
Miss(p) ==
  /\ at[p] = "IDLE"
  /\ cache = {}
  /\ at' = [at EXCEPT ![p] = "LOAD"]
  /\ UNCHANGED <<writeVars, viewVars, held, cache, boundVars>>

\* ... or Redis fails it.
FailGet(p) ==
  /\ at[p] = "IDLE"
  /\ Fault
  /\ at' = [at EXCEPT ![p] = "LOAD"]
  /\ UNCHANGED <<writeVars, viewVars, held, cache>>

\* A projector that finds no row evicts; a request keeps even that.
Load(x) ==
  /\ at[x] = "LOAD"
  /\ held' = [held EXCEPT ![x] = read[Restaurant]]
  /\ at' = [at EXCEPT ![x] = IF x \in Syncers /\ read[Restaurant] = 0 THEN "EVICT" ELSE "STORE"]
  /\ UNCHANGED <<writeVars, viewVars, cache, boundVars>>

WriteThrough(x) ==
  /\ at[x] = "STORE"
  /\ cache' = {held[x]}
  /\ at' = [at EXCEPT ![x] = "IDLE"]
  /\ held' = [held EXCEPT ![x] = 0]
  /\ UNCHANGED <<writeVars, viewVars, boundVars>>

Invalidate(x) ==
  /\ at[x] = "EVICT"
  /\ cache' = {}
  /\ at' = [at EXCEPT ![x] = "IDLE"]
  /\ held' = [held EXCEPT ![x] = 0]
  /\ UNCHANGED <<writeVars, viewVars, boundVars>>

\* Errors of Redis are logged, those of a projector's load swallowed; a
\* request whose load fails fails.
FailCache(x) ==
  /\ at[x] # "IDLE"
  /\ Fault
  /\ at' = [at EXCEPT ![x] = "IDLE"]
  /\ held' = [held EXCEPT ![x] = 0]
  /\ UNCHANGED <<writeVars, viewVars, cache>>

\* Mutant: entries are SET without a time to live.
NeverExpire == FALSE /\ UNCHANGED vars

\* RESTAURANT_CACHE_TTL_MS is over.
Expire ==
  /\ cache # {}
  /\ cache' = {}
  /\ UNCHANGED <<writeVars, viewVars, at, held, boundVars>>

-----------------------------------------------------------------------------
Command(c) ==
  \/ ReadRestaurant(c) \/ ReadItem(c) \/ CheckParent(c)
  \/ CreateMenuItem(c) \/ UpdateVersioned(c) \/ DeleteMenuItem(c)
  \/ FindAllByRestaurant(c) \/ SoftDelete(c) \/ DeleteRestaurant(c)
  \/ FailCall(c)

CacheStep(x) == Load(x) \/ WriteThrough(x) \/ Invalidate(x)

Next ==
  \/ \E c \in Calls : Command(c)
  \/ \E a \in Rows : ApplyCatalogEvent(a) \/ DeadLetter(a)
  \/ Redeliver
  \/ ApplyReviewEvent
  \/ \E p \in Readers : Miss(p) \/ FailGet(p)
  \/ \E x \in Actors : CacheStep(x) \/ FailCache(x)
  \/ Expire

Spec == Init /\ [][Next]_vars

\* Consumers poll, what they and a request began they finish, and keys expire.
Fairness ==
  /\ \A a \in Rows : WF_vars(ApplyCatalogEvent(a))
  /\ \A x \in Actors : WF_vars(CacheStep(x))
  /\ WF_vars(Expire)

FairSpec == Spec /\ Fairness

-----------------------------------------------------------------------------
CallRecord ==
  [pc : {"IDLE", "READ", "LISTED", "MARKED", "DONE"}, op : {"CREATE", "UPDATE", "DELETE"},
   target : Rows, version : Nat, listed : SUBSET Items, items : SUBSET Items]

WriteTypes ==
  /\ row \in [Rows -> [state : {"NONE", "LIVE", "DELETED"}, version : Nat]]
  /\ log \in [Rows -> Seq(Nat)]
  /\ call \in [Calls -> CallRecord]

ViewTypes ==
  /\ pos \in [Rows -> Nat]
  /\ \A a \in Rows : pos[a] <= Len(log[a])
  /\ read \in [Rows -> Nat]
  /\ skipped \subseteq Rows

CacheTypes ==
  /\ at \in [Actors -> {"IDLE", "LOAD", "STORE", "EVICT"}]
  /\ held \in [Actors -> Nat]
  /\ cache \subseteq Nat

BoundTypes == ratings \in 0 .. MaxRatings /\ faults \in 0 .. MaxFaults

\* Types: in particular a projector is never ahead of its topic.
TypeOK == WriteTypes /\ ViewTypes /\ CacheTypes /\ BoundTypes

\* The events of a row are its history: its versions one by one, and nothing
\* after its deletion but deletions, whatever requests overlap.
LogIsHistory ==
  \A a \in Rows : \A k \in 1 .. Len(log[a]) :
    /\ log[a][k] \in {0, k}
    /\ \A j \in 1 .. k - 1 : log[a][j] = 0 => log[a][k] = 0

\* An item that the deletion of its restaurant listed is not left in the read
\* model, in whatever order the partitions of the two are projected.
ListedItemsVanish ==
  \A c \in Calls : \A i \in call[c].listed :
    call[c].pc = "DONE" /\ pos[i] = Len(log[i]) /\ i \notin skipped => read[i] = 0

Gone == row[Restaurant].state = "DELETED"
Told == \E k \in 1 .. pos[Restaurant] : log[Restaurant][k] = 0

\* Readers of the read model see a restaurant grow, go, and not come back.
Contract ==
  INSTANCE ReadModelContract
  WITH written <- row[Restaurant].version,
       deleted <- Gone,
       told <- Told,
       shown <- read[Restaurant]

KeepsReadModel == Contract!Spec

\* Once the writes are over, the read model shows the restaurant as it is and
\* Redis tells nothing else, whoever filled the cache with what he read before.
ViewsCatchUp ==
  <>[](/\ cache \subseteq {read[Restaurant]}
       /\ Restaurant \notin skipped =>
          read[Restaurant] = IF Live(Restaurant) THEN row[Restaurant].version ELSE 0)

-----------------------------------------------------------------------------
(* Why it is so.                                                           *)

\* A row and its log.
RowFits(r, l) ==
  /\ r.state = "NONE" => l = <<>>
  /\ r.state = "LIVE" => Len(l) = r.version /\ \A k \in 1 .. Len(l) : l[k] # 0
  /\ \A k \in 1 .. Len(l) : l[k] <= r.version

RowsFit ==
  /\ row[Restaurant].state # "NONE"
  /\ \A a \in Rows : RowFits(row[a], log[a])

Exists(a) == row[a].state # "NONE"

EndsDeleted(a) == log[a] # <<>> /\ log[a][Len(log[a])] = 0

\* What a command may rely on.
CallFits(c) ==
  /\ call[c].pc = "IDLE" => call[c].op # "CREATE"
  /\ Doing(c, "CREATE") =>
       /\ ~Exists(call[c].target)
       /\ \A d \in Calls \ {c} : call[d].op = "CREATE" => call[d].target # call[c].target
  /\ Doing(c, "DELETE") => Exists(call[c].target)
  /\ call[c].pc \in {"IDLE", "READ"} => call[c].listed = {}
  /\ \A i \in call[c].listed \cup call[c].items : Exists(i)
  /\ call[c].pc = "MARKED" => call[c].listed \subseteq call[c].items
  /\ call[c].pc = "DONE" => \A i \in call[c].listed : EndsDeleted(i)

CallsFit == \A c \in Calls : CallFits(c)

\* What the read model has seen.
ViewsFit ==
  /\ \A a \in Rows \ skipped : pos[a] > 0 /\ log[a][pos[a]] = 0 => read[a] = 0
  /\ read[Restaurant] <= pos[Restaurant]

\* The inductive invariant.
CatalogInv == TypeOK /\ LogIsHistory /\ RowsFit /\ CallsFit /\ ViewsFit
=============================================================================
