---------------------------- MODULE RatingViews ----------------------------
(***************************************************************************)
(* One restaurant's row in catalog's read model and its document in the    *)
(* search index, both fed by two topics: catalog.events, which creates,    *)
(* updates and deletes it, and review.events, which only sets its rating.  *)
(* The topics are consumed independently: a rating may come before the     *)
(* restaurant or after its deletion.                                       *)
(*                                                                         *)
(* Catalog records the events it processed; search has no such record: a   *)
(* member of its group that lost its partition may apply an event long     *)
(* after the new owner went on.  Elasticsearch is external.                *)
(***************************************************************************)
EXTENDS Integers, Sequences

CONSTANTS
  MaxRatingEvents,  \* bound on the rating events of one behaviour
  MaxUpdates,       \* bound on the updates of the restaurant
  MaxLate           \* bound on the events a former owner applies late

ViewBounds == MaxRatingEvents \in Nat /\ MaxUpdates \in Nat /\ MaxLate \in Nat

Views == {"catalog", "search"}

VARIABLES
  changes,    \* the restaurant's events in catalog.events
  rated,      \* how many rating events are in review.events: the n-th says n
  changePos,  \* how far each view has applied the former
  ratingPos,  \* and the latter
  exists,     \* the views that have the restaurant
  rating,     \* the rating they show
  missed,     \* views in which the last rating event found no restaurant
  late        \* events applied late in search

topicVars == <<changes, rated>>
posVars == <<changePos, ratingPos>>
viewVars == <<exists, rating, missed>>
vars == <<topicVars, posVars, viewVars, late>>

Init ==
  /\ changes = <<"RestaurantCreated">> /\ rated = 0
  /\ changePos = [v \in Views |-> 0]
  /\ ratingPos = [v \in Views |-> 0]
  /\ exists = {}
  /\ rating = [v \in Views |-> 0]
  /\ missed = {} /\ late = 0

-----------------------------------------------------------------------------
(* The topics grow.                                                        *)

Deleted == changes[Len(changes)] = "RestaurantDeleted"

ChangeRestaurant(event) ==
  /\ ~Deleted
  /\ event = "RestaurantUpdated" => Len(changes) <= MaxUpdates
  /\ changes' = Append(changes, event)
  /\ UNCHANGED <<rated, posVars, viewVars, late>>

RateRestaurant ==
  /\ rated < MaxRatingEvents
  /\ rated' = rated + 1
  /\ UNCHANGED <<changes, posVars, viewVars, late>>

-----------------------------------------------------------------------------
(* What an event does to a view.                                           *)

\* Mutant: the event's row or document replaces the one that is there.
Replace(v) ==
  /\ exists' = exists \cup {v}
  /\ rating' = [rating EXCEPT ![v] = 0]
  /\ missed' = missed

\* INSERT ... ON CONFLICT and the partial update of a document: neither
\* touches the rating of a restaurant that is there; a new one has none.
Upsert(v) ==
  /\ exists' = exists \cup {v}
  /\ rating' = IF v \in exists THEN rating ELSE [rating EXCEPT ![v] = 0]
  /\ missed' = missed

\* The index compares versions: a document that an event applied late brought
\* back may have a higher one than its deletion, which is then passed over.
Remove(v) ==
  /\ \/ exists' = exists \ {v} /\ rating' = [rating EXCEPT ![v] = 0]
     \/ v = "search" /\ late > 0 /\ UNCHANGED <<exists, rating>>
  /\ missed' = missed

ApplyChange(v, event) ==
  IF event = "RestaurantDeleted" THEN Remove(v) ELSE Upsert(v)

\* No row or document: the update changes nothing.
UpdateRating(v, n) ==
  /\ exists' = exists
  /\ rating' = IF v \in exists THEN [rating EXCEPT ![v] = n] ELSE rating
  /\ missed' = IF v \in exists THEN missed \ {v} ELSE missed \cup {v}

ConsumeChange(v) ==
  /\ changePos[v] < Len(changes)
  /\ changePos' = [changePos EXCEPT ![v] = @ + 1]
  /\ ApplyChange(v, changes[changePos'[v]])
  /\ UNCHANGED <<topicVars, ratingPos, late>>

ConsumeRating(v) ==
  /\ ratingPos[v] < rated
  /\ ratingPos' = [ratingPos EXCEPT ![v] = @ + 1]
  /\ UpdateRating(v, ratingPos'[v])
  /\ UNCHANGED <<topicVars, changePos, late>>

\* The offset of the last event is not committed: it comes again.  Catalog
\* finds it processed, search applies it again.
RedeliverChange ==
  /\ changePos["search"] > 0
  /\ ApplyChange("search", changes[changePos["search"]])
  /\ UNCHANGED <<topicVars, posVars, late>>

RedeliverRating ==
  /\ ratingPos["search"] > 0
  /\ UpdateRating("search", ratingPos["search"])
  /\ UNCHANGED <<topicVars, posVars, late>>

\* A former owner of search's partition applies an event others have passed.
ApplyLate ==
  /\ late < MaxLate
  /\ late' = late + 1
  /\ \/ \E i \in 1..(changePos["search"] - 1) : ApplyChange("search", changes[i])
     \/ \E n \in 1..(ratingPos["search"] - 1) : UpdateRating("search", n)
  /\ UNCHANGED <<topicVars, posVars>>

Consume(v) == ConsumeChange(v) \/ ConsumeRating(v)

Next ==
  \/ \E event \in {"RestaurantUpdated", "RestaurantDeleted"} : ChangeRestaurant(event)
  \/ RateRestaurant
  \/ \E v \in Views : Consume(v)
  \/ RedeliverChange \/ RedeliverRating \/ ApplyLate

Spec == Init /\ [][Next]_vars

-----------------------------------------------------------------------------
(* The state is what the declarations say.                                 *)
TypeOK ==
  /\ changes \in Seq({"RestaurantCreated", "RestaurantUpdated", "RestaurantDeleted"})
  /\ rated \in 0..MaxRatingEvents
  /\ changePos \in [Views -> Nat]
  /\ ratingPos \in [Views -> 0..MaxRatingEvents]
  /\ exists \in SUBSET Views
  /\ rating \in [Views -> 0..MaxRatingEvents]
  /\ missed \in SUBSET Views
  /\ late \in 0..MaxLate

CaughtUp(v) == changePos[v] = Len(changes) /\ ratingPos[v] = rated

\* A view that has caught up shows the restaurant unless it was deleted, with
\* the rating announced last, however updates and ratings interleaved and were
\* redelivered: only a rating that came before the restaurant is lost, and, in
\* search, only an event applied late may leave an older state.
CaughtUpViewsAgree ==
  \A v \in Views :
    CaughtUp(v) /\ (v = "search" => late = 0) =>
      /\ v \in exists <=> ~Deleted
      /\ v \in exists /\ v \notin missed => rating[v] = rated

=============================================================================
