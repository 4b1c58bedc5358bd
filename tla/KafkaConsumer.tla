---------------------------- MODULE KafkaConsumer ----------------------------
(***************************************************************************)
(* The shared Kafka consumer (libs/shared/messaging): the replicas of one  *)
(* service are a consumer group; every message goes through eachMessage,   *)
(* which decodes it, runs the handler up to MaxAttempts times, then        *)
(* commits its offset or writes a dead letter first.  Handlers are         *)
(* transactions guarded by the processed_events table.                     *)
(*                                                                         *)
(* One partition: partitions share nothing.  Kafka's group protocol and    *)
(* the client library are modelled from how they are used: an assignment   *)
(* starts at the committed offset; a commit is refused unless the member   *)
(* has the partition; a member that lost it finishes what it is handling;  *)
(* eachMessage that throws is seeked back, one that returns is not.        *)
(*                                                                         *)
(* A disturbance is a crash, a rebalance away from a live member or a      *)
(* failed commit.  An outage keeps a dead letter from being written.       *)
(***************************************************************************)
EXTENDS Integers, Sequences, FiniteSets

CONSTANTS
  Members,          \* replicas in the group
  Nobody,           \* owner of an unassigned partition
  Events,           \* event ids
  Undecodable,      \* events whose message has no valid envelope
  FromBeginning,    \* where a group without a committed offset starts
  MaxAttempts,      \* handler attempts per delivery
  MaxMessages,      \* bound on the log
  MaxDisturbances,  \* bound on the disturbances of one behaviour
  MaxOutages        \* bound on the messages whose dead letter is not written

ASSUME MembersAssumption == Nobody \notin Members
ASSUME EventsAssumption == Undecodable \subseteq Events
ASSUME FromBeginningAssumption == FromBeginning \in BOOLEAN
ASSUME MaxAttemptsAssumption == MaxAttempts \in Nat \ {0}
ASSUME BoundsAssumption ==
  MaxMessages \in Nat /\ MaxDisturbances \in Nat /\ MaxOutages \in Nat

VARIABLES
  log,           \* event ids of the partition's messages
  committed,     \* messages below the committed offset, or NoOffset
  origin,        \* messages below the place where the group began
  assigned,      \* the member that has the partition
  position,      \* messages each member has fetched, in memory
  pc,            \* where each member is
  at,            \* place in the log of the message a member is handling
  attempt,       \* failed attempts of that delivery
  processed,     \* processed_events as committed
  applied,       \* event ids whose effect is committed, in that order
  letters,       \* places in the log that have a dead letter
  unwritten,     \* places whose dead letter could once not be written
  disturbances

memberVars == <<position, pc, at, attempt>>
effectVars == <<processed, applied>>
boundVars == <<unwritten, disturbances>>
vars == <<log, committed, origin, assigned, memberVars, effectVars, letters, boundVars>>

NoOffset == -1
Place == {"IDLE", "HANDLING", "WORKING", "BURYING", "COMMITTING"}

Init ==
  /\ log = <<>>
  /\ committed = NoOffset
  /\ origin = 0
  /\ assigned \in Members
  /\ position = [m \in Members |-> 0]
  /\ pc = [m \in Members |-> "IDLE"]
  /\ at = [m \in Members |-> 0]
  /\ attempt = [m \in Members |-> 0]
  /\ processed = {}
  /\ applied = <<>>
  /\ letters = {}
  /\ unwritten = {}
  /\ disturbances = 0

Disturb ==
  /\ disturbances < MaxDisturbances
  /\ disturbances' = disturbances + 1
  /\ UNCHANGED unwritten

Move(m, place) == pc' = [pc EXCEPT ![m] = place]
EventOf(m) == log[at[m]]

-----------------------------------------------------------------------------
(* The partition and the group.                                            *)

\* An outbox relay produces an event, or produces it again.
Publish(e) ==
  /\ Len(log) < MaxMessages
  /\ log' = Append(log, e)
  /\ UNCHANGED <<committed, origin, assigned, memberVars, effectVars, letters, boundVars>>

StartPosition ==
  IF committed # NoOffset THEN committed
  ELSE IF FromBeginning THEN 0 ELSE Len(log)

\* A member gets the partition, from nobody or from a member that is too slow.
\* Until an offset is committed, the group begins anew.
Assign(m) ==
  /\ assigned # m
  /\ IF assigned = Nobody THEN UNCHANGED boundVars ELSE Disturb
  /\ assigned' = m
  /\ position' = [position EXCEPT ![m] = StartPosition]
  /\ origin' = IF committed = NoOffset THEN StartPosition ELSE origin
  /\ UNCHANGED <<log, committed, pc, at, attempt, effectVars, letters>>

\* The open transaction is rolled back, what was fetched is forgotten.
Crash(m) ==
  /\ assigned = m \/ pc[m] # "IDLE"
  /\ Disturb
  /\ assigned' = IF assigned = m THEN Nobody ELSE assigned
  /\ Move(m, "IDLE")
  /\ UNCHANGED <<log, committed, origin, position, at, attempt, effectVars, letters>>

Fetch(m) ==
  /\ assigned = m /\ pc[m] = "IDLE" /\ position[m] < Len(log)
  /\ position' = [position EXCEPT ![m] = @ + 1]
  /\ at' = [at EXCEPT ![m] = position[m] + 1]
  /\ attempt' = [attempt EXCEPT ![m] = 0]
  /\ Move(m, IF log[position[m] + 1] \in Undecodable THEN "BURYING" ELSE "HANDLING")
  /\ UNCHANGED <<log, committed, origin, assigned, effectVars, letters, boundVars>>

-----------------------------------------------------------------------------
(* The handler: one transaction that inserts the event id, then works.     *)

\* Mutant: the duplicate check does not wait for an uncommitted insert.
NotWaited(m) == FALSE

\* The unique index waits for another transaction that inserted the same id.
InDoubt(m) ==
  \E n \in Members \ {m} : pc[n] = "WORKING" /\ EventOf(n) = EventOf(m)

\* Mutant: the event id is committed before the work.
MarkAtOnce(m) ==
  /\ pc[m] = "HANDLING"
  /\ ~InDoubt(m) /\ EventOf(m) \notin processed
  /\ Move(m, "WORKING")
  /\ processed' = processed \cup {EventOf(m)}
  /\ UNCHANGED <<log, committed, origin, assigned, position, at, attempt, applied, letters,
                 boundVars>>

MarkProcessed(m) ==
  /\ pc[m] = "HANDLING"
  /\ ~InDoubt(m) /\ EventOf(m) \notin processed
  /\ Move(m, "WORKING")
  /\ UNCHANGED <<log, committed, origin, assigned, position, at, attempt, effectVars, letters,
                 boundVars>>

\* DuplicateEventError: nothing to do.
SkipDuplicate(m) ==
  /\ pc[m] = "HANDLING"
  /\ ~InDoubt(m) /\ EventOf(m) \in processed
  /\ Move(m, "COMMITTING")
  /\ UNCHANGED <<log, committed, origin, assigned, position, at, attempt, effectVars, letters,
                 boundVars>>

\* Mutant: the attempts are not counted.
RetryForever(m) ==
  /\ Move(m, "HANDLING")
  /\ UNCHANGED attempt

RetryOrBury(m) ==
  /\ attempt' = [attempt EXCEPT ![m] = @ + 1]
  /\ Move(m, IF attempt[m] + 1 < MaxAttempts THEN "HANDLING" ELSE "BURYING")

\* Mutant: the event id is not part of the transaction.
ForgetEvent(m) ==
  /\ pc[m] = "WORKING"
  /\ applied' = Append(applied, EventOf(m))
  /\ \/ Move(m, "COMMITTING") /\ UNCHANGED attempt
     \/ RetryOrBury(m)
  /\ UNCHANGED <<log, committed, origin, assigned, position, at, processed, letters, boundVars>>

\* The work and the event id commit together; the answer may get lost.
CommitWork(m) ==
  /\ pc[m] = "WORKING"
  /\ processed' = processed \cup {EventOf(m)}
  /\ applied' = Append(applied, EventOf(m))
  /\ \/ Move(m, "COMMITTING") /\ UNCHANGED attempt
     \/ RetryOrBury(m)
  /\ UNCHANGED <<log, committed, origin, assigned, position, at, letters, boundVars>>

FailAttempt(m) ==
  /\ pc[m] \in {"HANDLING", "WORKING"}
  /\ RetryOrBury(m)
  /\ UNCHANGED <<log, committed, origin, assigned, position, at, effectVars, letters, boundVars>>

-----------------------------------------------------------------------------
(* deadLetterThenCommit, and the commit.                                   *)

Bury(m) ==
  /\ pc[m] = "BURYING"
  /\ letters' = letters \cup {at[m]}
  /\ Move(m, "COMMITTING")
  /\ UNCHANGED <<log, committed, origin, assigned, position, at, attempt, effectVars, boundVars>>

\* The dead letter topic fails three times: eachMessage returns without a
\* commit, and the next fetch goes on with the next message.
FailToBury(m) ==
  /\ pc[m] = "BURYING"
  /\ at[m] \in unwritten \/ Cardinality(unwritten) < MaxOutages
  /\ unwritten' = unwritten \cup {at[m]}
  /\ Move(m, "IDLE")
  /\ UNCHANGED <<log, committed, origin, assigned, position, at, attempt, effectVars, letters,
                 disturbances>>

OffsetOf(m) == at[m]

CommitOffset(m) ==
  /\ pc[m] = "COMMITTING" /\ assigned = m
  /\ committed' = OffsetOf(m)
  /\ Move(m, "IDLE")
  /\ UNCHANGED <<log, origin, assigned, position, at, attempt, effectVars, letters, boundVars>>

\* eachMessage throws; the library seeks back to the message.
FailToCommit(m) ==
  /\ pc[m] = "COMMITTING"
  /\ IF assigned = m THEN Disturb ELSE UNCHANGED boundVars
  /\ position' = [position EXCEPT ![m] = at[m] - 1]
  /\ Move(m, "IDLE")
  /\ UNCHANGED <<log, committed, origin, assigned, at, attempt, effectVars, letters>>

-----------------------------------------------------------------------------
HandlerStep(m) ==
  MarkProcessed(m) \/ SkipDuplicate(m) \/ CommitWork(m) \/ FailAttempt(m)

MemberStep(m) ==
  \/ Fetch(m) \/ HandlerStep(m) \/ Bury(m) \/ FailToBury(m)
  \/ CommitOffset(m) \/ FailToCommit(m)

Next ==
  \/ \E e \in Events : Publish(e)
  \/ \E m \in Members : MemberStep(m) \/ Assign(m) \/ Crash(m)

Spec == Init /\ [][Next]_vars

\* Node runs a member on, whatever its handler does; the broker gives an
\* orphaned partition to some member.
Fairness ==
  /\ \A m \in Members : WF_vars(MemberStep(m))
  /\ WF_vars(\E m \in Members : assigned = Nobody /\ Assign(m))

FairSpec == Spec /\ Fairness

-----------------------------------------------------------------------------
(* Properties.                                                             *)

Applied(e) == \E i \in DOMAIN applied : applied[i] = e
Settled(k) == Applied(log[k]) \/ k \in letters \cup unwritten
UpTo(k) == \A j \in origin + 1 .. k : Settled(j)

TypeOK ==
  /\ log \in Seq(Events) /\ Len(log) <= MaxMessages
  /\ committed \in {NoOffset} \cup 0 .. Len(log)
  /\ origin \in 0 .. IF FromBeginning THEN 0 ELSE Len(log)
  /\ assigned \in Members \cup {Nobody}
  /\ position \in [Members -> 0 .. Len(log)]
  /\ pc \in [Members -> Place]
  /\ at \in [Members -> 0 .. Len(log)]
  /\ attempt \in [Members -> 0 .. MaxAttempts]
  /\ processed \subseteq Events
  /\ applied \in Seq(Events)
  /\ letters \subseteq 1 .. Len(log)
  /\ unwritten \subseteq 1 .. Len(log)
  /\ disturbances \in 0 .. MaxDisturbances

\* Restarts, rebalances and failed commits lose nothing from where the group
\* began: a message below the committed offset took effect, or a dead letter of it
\* was at least tried.
NothingSkipped == committed # NoOffset => UpTo(committed)

\* And the dead letter was not only tried.
NoLetterLost ==
  \A k \in DOMAIN log : origin < k /\ k <= committed => Applied(log[k]) \/ k \in letters

\* An event takes effect at most once, although it is produced again, delivered
\* again, or handled by two members at a time.
EffectOnce == \A i, j \in DOMAIN applied : applied[i] = applied[j] => i = j

\* The consumer keeps its contract towards the handler: no gaps, log order, and
\* a single effect per event.
Contract == INSTANCE DeliveryContract WITH
  buried <- letters \cup unwritten, kept <- committed # NoOffset

KeepsDelivery == Contract!Spec

\* Every message takes effect or is buried, unless the group began after it: a failing handler does not stall the
\* partition, a crash does not leave a message behind.
EventuallySettled ==
  \A k \in 1 .. MaxMessages :
    k \in DOMAIN log ~> k \in DOMAIN log /\ (k <= origin \/ Settled(k))

-----------------------------------------------------------------------------
(* The inductive strengthening of the invariants above, part by part.      *)

\* processed_events and the effects agree, and at most one open transaction has
\* inserted an event id.
EffectsFit ==
  /\ processed = {applied[i] : i \in DOMAIN applied}
  /\ \A m, n \in Members :
       /\ pc[m] = "WORKING" => EventOf(m) \notin processed
       /\ pc[m] = "WORKING" /\ pc[n] = "WORKING" /\ EventOf(m) = EventOf(n) => m = n

\* A member that is not idle has a message, and budget for its next attempt.
DeliveryFits(m) ==
  /\ pc[m] # "IDLE" => at[m] > 0
  /\ pc[m] \in {"HANDLING", "WORKING"} => attempt[m] < MaxAttempts

EffectInv ==
  /\ TypeOK /\ EffectsFit /\ EffectOnce
  /\ \A m \in Members : DeliveryFits(m)

\* Before the message a member handles, or fetches next, everything is settled.
ProgressFits(m) ==
  /\ pc[m] # "IDLE" => UpTo(at[m] - 1)
  /\ pc[m] = "COMMITTING" => Settled(at[m])
  /\ assigned = m =>
       \/ UpTo(position[m])
       \/ pc[m] # "IDLE" /\ position[m] = at[m]

ConsumerInv ==
  /\ EffectInv /\ NothingSkipped
  /\ \A m \in Members : ProgressFits(m)
=============================================================================
