--------------------------- MODULE ReviewRatings ---------------------------
(***************************************************************************)
(* apps/review for one restaurant: the consumer of order.events that makes *)
(* orders eligible, the submissions of reviews and the rating events they  *)
(* append to review_outbox in the transaction that saves the review.       *)
(*                                                                         *)
(* Transactions run at READ COMMITTED: a submission aggregates the reviews *)
(* committed by then and its own, so of two that overlap neither may count *)
(* the other.  An aggregate is modelled by the orders whose reviews it     *)
(* counts.  A row's created_at is the start of its transaction, and the    *)
(* relay publishes the rows it sees in that order (see OutboxRelay).       *)
(***************************************************************************)
EXTENDS Integers, Sequences, FiniteSets, SequencesExt

CONSTANTS
  ReviewedOrders,  \* confirmed orders of the restaurant
  Submits,         \* calls of POST /reviews
  MaxSubmissions   \* bound on the transactions of one behaviour

SubmissionBound == MaxSubmissions \in Nat

VARIABLES
  eligible,    \* review_eligible_orders
  reviews,     \* the orders with a committed review
  submission,  \* what each call is doing
  begun,       \* transactions started so far: the clock of created_at
  outbox,      \* committed rows not yet published
  ratings,     \* review.events: the reviews each event counts
  overlapped   \* a transaction started while another was open

vars == <<eligible, reviews, submission, begun, outbox, ratings, overlapped>>

NoSubmission == [pc |-> "IDLE", order |-> {}, begun |-> 0, counted |-> {}]

Init ==
  /\ eligible = {}
  /\ reviews = {}
  /\ submission = [c \in Submits |-> NoSubmission]
  /\ begun = 0
  /\ outbox = {}
  /\ ratings = <<>>
  /\ overlapped = FALSE

\* The submissions that have an uncommitted review.
Inserted == {c \in Submits : submission[c].pc \in {"INSERTED", "AGGREGATED"}}

\* OrderConfirmed, applied once or again: the upsert is the same row.
RecordEligibility(o) ==
  /\ eligible' = eligible \cup {o}
  /\ UNCHANGED <<reviews, submission, begun, outbox, ratings, overlapped>>

\* A valid rating for an eligible order of the caller's own: the transaction
\* starts.  Every other answer changes nothing.
FindEligible(c, o) ==
  /\ submission[c] = NoSubmission
  /\ o \in eligible
  /\ begun < MaxSubmissions
  /\ begun' = begun + 1
  /\ submission' = [submission EXCEPT
       ![c] = [pc |-> "FOUND", order |-> {o}, begun |-> begun', counted |-> {}]]
  /\ overlapped' = (overlapped \/ \E d \in Submits : submission[d] # NoSubmission)
  /\ UNCHANGED <<eligible, reviews, outbox, ratings>>

\* The unique index on order_id: wait for an open transaction that has the
\* order, and fail when one has committed it.
SaveReview(c) ==
  /\ submission[c].pc = "FOUND"
  /\ \A d \in Inserted : submission[d].order # submission[c].order
  /\ submission' = [submission EXCEPT ![c] =
       IF submission[c].order \subseteq reviews THEN NoSubmission ELSE [@ EXCEPT !.pc = "INSERTED"]]
  /\ UNCHANGED <<eligible, reviews, begun, outbox, ratings, overlapped>>

\* Mutant: the aggregate is read outside the transaction.
AggregateOutside(c) ==
  /\ submission[c].pc = "INSERTED"
  /\ submission' = [submission EXCEPT ![c].pc = "AGGREGATED", ![c].counted = reviews]
  /\ UNCHANGED <<eligible, reviews, begun, outbox, ratings, overlapped>>

AggregateForRestaurant(c) ==
  /\ submission[c].pc = "INSERTED"
  /\ submission' = [submission EXCEPT
       ![c].pc = "AGGREGATED", ![c].counted = reviews \cup submission[c].order]
  /\ UNCHANGED <<eligible, reviews, begun, outbox, ratings, overlapped>>

\* The rating event is appended and the transaction commits.
CommitReview(c) ==
  /\ submission[c].pc = "AGGREGATED"
  /\ reviews' = reviews \cup submission[c].order
  /\ outbox' = outbox \cup {[begun |-> submission[c].begun, counted |-> submission[c].counted]}
  /\ submission' = [submission EXCEPT ![c] = NoSubmission]
  /\ UNCHANGED <<eligible, begun, ratings, overlapped>>

RollbackReview(c) ==
  /\ submission[c] # NoSubmission
  /\ submission' = [submission EXCEPT ![c] = NoSubmission]
  /\ UNCHANGED <<eligible, reviews, begun, outbox, ratings, overlapped>>

\* fetchUnpublished takes the oldest row it can see.
PublishRating ==
  \E row \in outbox :
    /\ \A other \in outbox : row.begun <= other.begun
    /\ outbox' = outbox \ {row}
    /\ ratings' = Append(ratings, row.counted)
    /\ UNCHANGED <<eligible, reviews, submission, begun, overlapped>>

SubmitReview(c) ==
  \/ \E o \in ReviewedOrders : FindEligible(c, o)
  \/ SaveReview(c) \/ AggregateForRestaurant(c) \/ CommitReview(c) \/ RollbackReview(c)

Next ==
  \/ \E o \in ReviewedOrders : RecordEligibility(o)
  \/ \E c \in Submits : SubmitReview(c)
  \/ PublishRating

Spec == Init /\ [][Next]_vars

-----------------------------------------------------------------------------
Events == {row.counted : row \in outbox} \cup ToSet(ratings)

(* The state is what the declarations say.                                 *)
TypeOK ==
  /\ eligible \in SUBSET ReviewedOrders
  /\ reviews \in SUBSET eligible
  /\ submission \in [Submits -> [pc : {"IDLE", "FOUND", "INSERTED", "AGGREGATED"},
                                 order : SUBSET ReviewedOrders, begun : 0..MaxSubmissions,
                                 counted : SUBSET ReviewedOrders]]
  /\ begun \in 0..MaxSubmissions
  /\ outbox \in SUBSET [begun : 1..MaxSubmissions, counted : SUBSET ReviewedOrders]
  /\ ratings \in Seq(SUBSET ReviewedOrders)
  /\ overlapped \in BOOLEAN

\* Announced ratings count real reviews and no review goes uncounted: each
\* event counts committed reviews only, every review is counted by one, and
\* as long as no two transactions overlapped, the event published last is the
\* restaurant's rating: it counts all of them.
RatingsCountReviews ==
  /\ \A counted \in Events : counted \subseteq reviews
  /\ \A o \in reviews : \E counted \in Events : o \in counted
  /\ ~overlapped /\ outbox = {} /\ reviews # {} => Last(ratings) = reviews

=============================================================================
