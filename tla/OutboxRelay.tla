----------------------------- MODULE OutboxRelay -----------------------------
(***************************************************************************)
(* The outbox relay (libs/shared/messaging) on the replicas of a service:  *)
(* a timer starts a tick; the tick takes a session-level advisory lock,    *)
(* fetches the oldest unpublished rows, produces them to Kafka and marks   *)
(* them; then it arms the timer again, later if something failed.          *)
(*                                                                         *)
(* Rows are those of one key (one aggregate) and topic, numbered by        *)
(* created_at.  A fault is a crash or a failing call; a lost session is a  *)
(* broken database connection that takes the advisory lock with it while   *)
(* the drain, which uses other connections, goes on.                       *)
(***************************************************************************)
EXTENDS Integers, Sequences, FiniteSets

CONSTANTS
  Replicas,     \* replicas of the service, each with one relay
  Nobody,       \* holder of the free advisory lock
  BatchSize,    \* rows fetched by one drain
  Interval,     \* intervalMs
  MaxBackoff,   \* maxBackoffMs
  MaxRows,      \* bound on the rows
  MaxFaults,    \* bound on the faults of one behaviour
  MaxLost,      \* bound on the lost sessions of one behaviour
  MaxStops      \* bound on the calls of stop()

ASSUME ReplicasAssumption == Nobody \notin Replicas
ASSUME BatchSizeAssumption == BatchSize \in Nat \ {0}
ASSUME BackoffAssumption ==
  Interval \in Nat \ {0} /\ MaxBackoff \in Nat /\ Interval <= MaxBackoff
ASSUME BoundsAssumption ==
  MaxRows \in Nat /\ MaxFaults \in Nat /\ MaxLost \in Nat /\ MaxStops \in Nat

VARIABLES
  rows,      \* rows committed to the outbox
  marked,    \* rows with published_at set
  attempts,  \* the rows' attempts column
  log,       \* row numbers in the partition
  lock,      \* the session that holds the advisory lock
  pc,        \* where each relay's tick is
  batch,     \* rows a drain has fetched
  sent,      \* rows of the batch that are in Kafka
  failed,    \* did the tick throw?
  backoff,   \* currentBackoffMs
  stopped,   \* relays whose stop() was called
  faults, lost, stops

tableVars == <<rows, marked, attempts>>
drainVars == <<batch, sent>>
tickVars == <<failed, backoff>>
boundVars == <<faults, lost, stops>>
vars == <<tableVars, log, lock, pc, drainVars, tickVars, stopped, boundVars>>

Place == {"OFF", "WAITING", "LOCKING", "DRAINING", "FETCHING", "PRODUCING", "UNLOCKING"}

Lowest(S) == CHOOSE i \in S : \A j \in S : i <= j

Init ==
  /\ rows = 0
  /\ marked = {}
  /\ attempts = [i \in 1 .. MaxRows |-> 0]
  /\ log = <<>>
  /\ lock = Nobody
  /\ pc = [r \in Replicas |-> "OFF"]
  /\ batch = [r \in Replicas |-> {}]
  /\ sent = [r \in Replicas |-> {}]
  /\ failed = [r \in Replicas |-> FALSE]
  /\ backoff = [r \in Replicas |-> Interval]
  /\ stopped = {}
  /\ faults = 0 /\ lost = 0 /\ stops = 0

Fault ==
  /\ faults < MaxFaults
  /\ faults' = faults + 1
  /\ UNCHANGED <<lost, stops>>

Move(r, place) == pc' = [pc EXCEPT ![r] = place]

\* The drain is over; its transaction and its batch are gone.
EndDrain(r, error) ==
  /\ Move(r, "UNLOCKING")
  /\ failed' = [failed EXCEPT ![r] = error]
  /\ batch' = [batch EXCEPT ![r] = {}]
  /\ sent' = [sent EXCEPT ![r] = {}]

-----------------------------------------------------------------------------
(* The service, its lifecycle and the timer.                               *)

\* A transaction of the service commits a row.
CommitRow ==
  /\ rows < MaxRows
  /\ rows' = rows + 1
  /\ UNCHANGED <<marked, attempts, log, lock, pc, drainVars, tickVars, stopped, boundVars>>

Start(r) ==
  /\ pc[r] = "OFF" /\ r \notin stopped
  /\ Move(r, "WAITING")
  /\ backoff' = [backoff EXCEPT ![r] = Interval]
  /\ UNCHANGED <<tableVars, log, lock, drainVars, failed, stopped, boundVars>>

\* A pending timer is cleared; a tick that runs has none, and goes on.
Stop(r) ==
  /\ pc[r] # "OFF" /\ r \notin stopped
  /\ stops < MaxStops
  /\ stops' = stops + 1
  /\ stopped' = stopped \cup {r}
  /\ IF pc[r] = "WAITING" THEN Move(r, "OFF") ELSE UNCHANGED pc
  /\ UNCHANGED <<tableVars, log, lock, drainVars, tickVars, faults, lost>>

Fire(r) ==
  /\ pc[r] = "WAITING"
  /\ Move(r, "LOCKING")
  /\ UNCHANGED <<tableVars, log, lock, drainVars, tickVars, stopped, boundVars>>

NextBackoff(r) == IF 2 * backoff[r] < MaxBackoff THEN 2 * backoff[r] ELSE MaxBackoff

\* tick() arms the timer whether or not the drain failed.
Rearm(r, error) ==
  /\ Move(r, "WAITING")
  /\ backoff' = [backoff EXCEPT ![r] = IF error THEN NextBackoff(r) ELSE Interval]

-----------------------------------------------------------------------------
(* withAdvisoryLock                                                        *)

\* Mutant: the drain does not ask for the lock.
AlwaysFree(r) == TRUE

LockFree(r) == lock = Nobody

TryLock(r) ==
  /\ pc[r] = "LOCKING" /\ LockFree(r)
  /\ lock' = r
  /\ Move(r, "DRAINING")
  /\ UNCHANGED <<tableVars, log, drainVars, tickVars, stopped, boundVars>>

\* ran: false is not an error.
SkipTick(r) ==
  /\ pc[r] = "LOCKING" /\ ~LockFree(r)
  /\ Rearm(r, FALSE)
  /\ UNCHANGED <<tableVars, log, lock, drainVars, failed, stopped, boundVars>>

FailToLock(r) ==
  /\ pc[r] = "LOCKING"
  /\ Fault
  /\ Rearm(r, TRUE)
  /\ UNCHANGED <<tableVars, log, lock, drainVars, failed, stopped>>

\* Mutant: the lock is freed only if the drain succeeded.
KeepLockOnError(r) ==
  /\ pc[r] = "UNLOCKING"
  /\ lock' = IF lock = r /\ ~failed[r] THEN Nobody ELSE lock
  /\ Rearm(r, failed[r] \/ lock # r)
  /\ UNCHANGED <<tableVars, log, drainVars, failed, stopped, boundVars>>

\* pg_advisory_unlock fails, and with it the tick, if the session is lost.
Unlock(r) ==
  /\ pc[r] = "UNLOCKING"
  /\ lock' = IF lock = r THEN Nobody ELSE lock
  /\ Rearm(r, failed[r] \/ lock # r)
  /\ UNCHANGED <<tableVars, log, drainVars, failed, stopped, boundVars>>

LoseSession(r) ==
  /\ lock = r
  /\ lost < MaxLost
  /\ lost' = lost + 1
  /\ lock' = Nobody
  /\ UNCHANGED <<tableVars, log, pc, drainVars, tickVars, stopped, faults, stops>>

-----------------------------------------------------------------------------
(* drainBatch                                                              *)

\* SKIP LOCKED: rows that another fetch has locked are left out.
LockedRows == UNION {IF pc[s] = "FETCHING" THEN batch[s] ELSE {} : s \in Replicas}

\* Mutant: rows are fetched in any order.
SomeOf(S) == IF S = {} THEN {} ELSE {CHOOSE i \in S : \A j \in S : j <= i}

\* ORDER BY created_at LIMIT BatchSize
OldestOf(S) == {i \in S : Cardinality({j \in S : j < i}) < BatchSize}

FetchUnpublished(r) ==
  /\ pc[r] = "DRAINING"
  /\ LET found == OldestOf((1 .. rows) \ (marked \cup LockedRows))
     IN  IF found = {} THEN EndDrain(r, FALSE)
         ELSE /\ Move(r, "FETCHING")
              /\ batch' = [batch EXCEPT ![r] = found]
              /\ UNCHANGED <<sent, failed>>
  /\ UNCHANGED <<tableVars, log, lock, backoff, stopped, boundVars>>

FailToFetch(r) ==
  /\ pc[r] = "DRAINING"
  /\ Fault
  /\ EndDrain(r, TRUE)
  /\ UNCHANGED <<tableVars, log, lock, backoff, stopped>>

\* The fetching transaction commits: its row locks are released.
EndFetch(r) ==
  /\ pc[r] = "FETCHING"
  /\ Move(r, "PRODUCING")
  /\ UNCHANGED <<tableVars, log, lock, drainVars, tickVars, stopped, boundVars>>

\* publishBatch: one row after the other reaches the partition.
Produce(r) ==
  /\ pc[r] = "PRODUCING" /\ sent[r] # batch[r]
  /\ LET i == Lowest(batch[r] \ sent[r])
     IN  /\ log' = Append(log, i)
         /\ sent' = [sent EXCEPT ![r] = @ \cup {i}]
  /\ UNCHANGED <<tableVars, lock, pc, batch, tickVars, stopped, boundVars>>

\* publishBatch throws after some rows; their attempts are counted, if possible.
FailToProduce(r) ==
  /\ pc[r] = "PRODUCING" /\ sent[r] # batch[r]
  /\ Fault
  /\ \/ attempts' = [i \in 1 .. MaxRows |-> IF i \in batch[r] THEN attempts[i] + 1
                                            ELSE attempts[i]]
     \/ UNCHANGED attempts
  /\ EndDrain(r, TRUE)
  /\ UNCHANGED <<rows, marked, log, lock, backoff, stopped>>

\* Mutant: a batch is marked before all of it is produced.
AllFetched(r) == pc[r] = "PRODUCING"

AllSent(r) == pc[r] = "PRODUCING" /\ sent[r] = batch[r]

MarkPublished(r) ==
  /\ AllSent(r)
  /\ marked' = marked \cup batch[r]
  /\ EndDrain(r, FALSE)
  /\ UNCHANGED <<rows, attempts, log, lock, backoff, stopped, boundVars>>

\* The update fails, or only its answer is lost.
FailToMark(r) ==
  /\ AllSent(r)
  /\ Fault
  /\ marked' \in {marked, marked \cup batch[r]}
  /\ EndDrain(r, TRUE)
  /\ UNCHANGED <<rows, attempts, log, lock, backoff, stopped>>

\* The process dies, and is started again.
Crash(r) ==
  /\ pc[r] # "OFF"
  /\ Fault
  /\ Move(r, "OFF")
  /\ lock' = IF lock = r THEN Nobody ELSE lock
  /\ batch' = [batch EXCEPT ![r] = {}]
  /\ sent' = [sent EXCEPT ![r] = {}]
  /\ UNCHANGED <<tableVars, log, tickVars, stopped>>

-----------------------------------------------------------------------------
DrainStep(r) ==
  \/ FetchUnpublished(r) \/ FailToFetch(r) \/ EndFetch(r) \/ Produce(r)
  \/ FailToProduce(r) \/ MarkPublished(r) \/ FailToMark(r)

TickStep(r) == Fire(r) \/ TryLock(r) \/ SkipTick(r) \/ FailToLock(r) \/ Unlock(r)

Next ==
  \/ CommitRow
  \/ \E r \in Replicas :
       Start(r) \/ Stop(r) \/ TickStep(r) \/ DrainStep(r) \/ LoseSession(r) \/ Crash(r)

Spec == Init /\ [][Next]_vars

\* Node fires timers and runs ticks on; a replica that died is started again.
Fairness == \A r \in Replicas : WF_vars(Start(r)) /\ WF_vars(TickStep(r) \/ DrainStep(r))

FairSpec == Spec /\ Fairness

-----------------------------------------------------------------------------
(* Properties.                                                             *)

Produced(i) == \E k \in DOMAIN log : log[k] = i

TypeOK ==
  /\ rows \in 0 .. MaxRows
  /\ marked \subseteq 1 .. rows
  /\ attempts \in [1 .. MaxRows -> Nat]
  /\ log \in Seq(1 .. rows)
  /\ lock \in Replicas \cup {Nobody}
  /\ pc \in [Replicas -> Place]
  /\ batch \in [Replicas -> SUBSET (1 .. rows)]
  /\ sent \in [Replicas -> SUBSET (1 .. rows)]
  /\ failed \in [Replicas -> BOOLEAN]
  /\ backoff \in [Replicas -> Interval .. MaxBackoff]
  /\ stopped \subseteq Replicas
  /\ faults \in 0 .. MaxFaults /\ lost \in 0 .. MaxLost /\ stops \in 0 .. MaxStops

\* A row that will not be fetched again is in Kafka, whatever failed on the way
\* and however many drains ran at a time.
MarkedWasProduced == \A i \in marked : Produced(i)

Draining(r) == pc[r] \in {"DRAINING", "FETCHING", "PRODUCING", "UNLOCKING"}

\* Until a session is lost, one replica drains at a time.
OneDrain == lost = 0 => \A r, s \in Replicas : Draining(r) /\ Draining(s) => r = s

\* The relay keeps the outbox contract; the rows of a key first reach Kafka in
\* their order until a session is lost.
Contract == INSTANCE OutboxContract WITH ordered <- lost = 0

KeepsOrder == Contract!Spec

\* Every committed row is produced and marked, as long as a replica is not
\* stopped: no failure ends the chain of ticks.
EveryRowPublished ==
  Cardinality(Replicas) > MaxStops =>
    \A i \in 1 .. MaxRows : i <= rows ~> i \in marked

-----------------------------------------------------------------------------
(* The inductive strengthening of the invariants above, part by part.      *)

\* What a drain has sent is in Kafka.
DrainFits(r) ==
  /\ sent[r] \subseteq batch[r]
  /\ \A i \in sent[r] : Produced(i)
  /\ batch[r] # {} => pc[r] \in {"FETCHING", "PRODUCING"}

RelayInv ==
  /\ TypeOK /\ MarkedWasProduced
  /\ \A r \in Replicas : DrainFits(r)

\* Until a session is lost the lock tells who drains, and no row that is older
\* than a row of a batch is missing from it.
LockFits(r) == Draining(r) <=> lock = r

BatchFits(r) ==
  \A i \in batch[r] : \A j \in 1 .. i : j \in batch[r] \/ j \in marked

OrderInv ==
  /\ RelayInv
  /\ lost = 0 => \A r \in Replicas : LockFits(r) /\ BatchFits(r)
=============================================================================
