---------------------------- MODULE Notification ----------------------------
(***************************************************************************)
(* apps/notification for one order event: the consumer that writes one row *)
(* per enabled channel and then queues a job for each, BullMQ with the     *)
(* rows' ids as job ids, the workers that send, and the handler of the     *)
(* "failed" event that records a failure or parks the notification.        *)
(*                                                                         *)
(* The row, the job and the failure handler move apart: the handler of an  *)
(* attempt runs while the next attempt does.  BullMQ is external: it keeps *)
(* a job until it completes, keeps a failed one for ever and ignores an    *)
(* addition whose id it still has.  Events share nothing with each other.  *)
(***************************************************************************)
EXTENDS Integers, FiniteSets

CONSTANTS
  Channels,     \* the enabled ones; the unique index allows a row for each
  Consumers,    \* members of the group that may handle the message
  MaxRetries,   \* deliveries of the message before it is dead-lettered
  MaxAttempts,  \* NOTIFY_MAX_ATTEMPTS
  MaxCrashes    \* bound on crashes of replicas in one behaviour

NotificationBounds == MaxRetries \in Nat \ {0} /\ MaxAttempts \in Nat \ {0} /\ MaxCrashes \in Nat

VARIABLES
  message,     \* the event in order.events
  tries,       \* deliveries that failed
  processed,   \* the event's row in processed_events
  dispatch,    \* what each consumer is doing
  status,      \* the rows of notifications
  job,         \* the jobs in Redis
  made,        \* attemptsMade of the job
  worker,      \* what the worker of the job is doing
  failures,    \* "failed" events whose handler has not finished
  reached,     \* channels whose provider accepted the message
  parked,      \* channels parked to notify-dlq
  crashes

consumeVars == <<message, tries, processed, dispatch>>
jobVars == <<job, made, worker>>
outVars == <<reached, parked>>
vars == <<consumeVars, status, jobVars, failures, outVars, crashes>>

Resting == [pc |-> "IDLE", todo |-> {}]

Init ==
  /\ message = "UNSETTLED" /\ tries = 0
  /\ processed = FALSE
  /\ dispatch = [c \in Consumers |-> Resting]
  /\ status = [ch \in Channels |-> "NONE"]
  /\ job = [ch \in Channels |-> "NONE"]
  /\ made = [ch \in Channels |-> 0]
  /\ worker = [ch \in Channels |-> "IDLE"]
  /\ failures = {}
  /\ reached = {} /\ parked = {}
  /\ crashes = 0

-----------------------------------------------------------------------------
(* The consumer.                                                           *)

\* Mutant: an event processed before is taken for done.
SkipProcessed(c) ==
  /\ message = "UNSETTLED"
  /\ dispatch[c].pc = "IDLE"
  /\ processed' = TRUE
  /\ status' = IF processed THEN status ELSE [ch \in Channels |-> "PENDING"]
  /\ dispatch' = [dispatch EXCEPT ![c].pc = IF processed THEN "ENQUEUE" ELSE "FIND"]
  /\ UNCHANGED <<message, tries, jobVars, failures, outVars, crashes>>

\* IdempotentConsumer.runOnce: the rows of all channels, once.
CreatePendingBatch(c) ==
  /\ message = "UNSETTLED"
  /\ dispatch[c].pc = "IDLE"
  /\ processed' = TRUE
  /\ status' = IF processed THEN status ELSE [ch \in Channels |-> "PENDING"]
  /\ dispatch' = [dispatch EXCEPT ![c].pc = "FIND"]
  /\ UNCHANGED <<message, tries, jobVars, failures, outVars, crashes>>

FindPendingByEvent(c) ==
  /\ dispatch[c].pc = "FIND"
  /\ dispatch' = [dispatch EXCEPT
       ![c] = [pc |-> "ENQUEUE", todo |-> {ch \in Channels : status[ch] = "PENDING"}]]
  /\ UNCHANGED <<message, tries, processed, status, jobVars, failures, outVars, crashes>>

\* queue.add with the row's id: ignored while the job is in Redis.
AddJob(ch) ==
  IF job[ch] = "NONE"
  THEN job' = [job EXCEPT ![ch] = "WAITING"] /\ made' = [made EXCEPT ![ch] = 0]
  ELSE UNCHANGED <<job, made>>

Enqueue(c, ch) ==
  /\ dispatch[c].pc = "ENQUEUE" /\ ch \in dispatch[c].todo
  /\ AddJob(ch)
  /\ dispatch' = [dispatch EXCEPT ![c].todo = @ \ {ch}]
  /\ UNCHANGED <<message, tries, processed, status, worker, failures, outVars, crashes>>

\* The offset is committed when every row found was queued.
Settle(c) ==
  /\ dispatch[c] = [pc |-> "ENQUEUE", todo |-> {}]
  /\ message' = "SETTLED"
  /\ dispatch' = [dispatch EXCEPT ![c] = Resting]
  /\ UNCHANGED <<tries, processed, status, jobVars, failures, outVars, crashes>>

\* A database or Redis error anywhere in the handler: retried, then set aside.
FailDispatch(c) ==
  /\ dispatch[c] # Resting
  /\ tries < MaxRetries
  /\ tries' = tries + 1
  /\ message' = IF tries' = MaxRetries /\ message = "UNSETTLED" THEN "DEAD_LETTERED" ELSE message
  /\ dispatch' = [dispatch EXCEPT ![c] = Resting]
  /\ UNCHANGED <<processed, status, jobVars, failures, outVars, crashes>>

-----------------------------------------------------------------------------
(* The workers.                                                            *)

Take(ch) ==
  /\ job[ch] = "WAITING"
  /\ job' = [job EXCEPT ![ch] = "ACTIVE"]
  /\ worker' = [worker EXCEPT ![ch] = IF status[ch] = "SENT" THEN "DONE" ELSE "SEND"]
  /\ UNCHANGED <<consumeVars, status, made, failures, outVars, crashes>>

Send(ch) ==
  /\ worker[ch] = "SEND"
  /\ reached' = reached \cup {ch}
  /\ worker' = [worker EXCEPT ![ch] = "MARK"]
  /\ UNCHANGED <<consumeVars, status, job, made, failures, parked, crashes>>

MarkSent(ch) ==
  /\ worker[ch] = "MARK"
  /\ status' = [status EXCEPT ![ch] = "SENT"]
  /\ worker' = [worker EXCEPT ![ch] = "DONE"]
  /\ UNCHANGED <<consumeVars, job, made, failures, outVars, crashes>>

\* removeOnComplete: the id is free again.
CompleteJob(ch) ==
  /\ worker[ch] = "DONE"
  /\ job' = [job EXCEPT ![ch] = "NONE"]
  /\ worker' = [worker EXCEPT ![ch] = "IDLE"]
  /\ UNCHANGED <<consumeVars, status, made, failures, outVars, crashes>>

\* The provider refuses, or the row cannot be read or marked: the job is
\* delayed or, its attempts used up, kept as failed; the event follows.
FailJob(ch) ==
  /\ worker[ch] \in {"SEND", "MARK"}
  /\ made' = [made EXCEPT ![ch] = @ + 1]
  /\ job' = [job EXCEPT ![ch] = IF made'[ch] < MaxAttempts THEN "WAITING" ELSE "FAILED"]
  /\ worker' = [worker EXCEPT ![ch] = "IDLE"]
  /\ failures' = failures \cup {[channel |-> ch, attempts |-> made'[ch], isParked |-> FALSE]}
  /\ UNCHANGED <<consumeVars, status, outVars, crashes>>

\* HandleSendFailureHandler below the limit.
MarkFailed(f) ==
  /\ f.attempts < MaxAttempts
  /\ status' = [status EXCEPT ![f.channel] = "FAILED"]
  /\ failures' = failures \ {f}
  /\ UNCHANGED <<consumeVars, jobVars, outVars, crashes>>

\* At the limit: parked first, marked after.
Park(f) ==
  /\ f.attempts >= MaxAttempts /\ ~f.isParked
  /\ parked' = parked \cup {f.channel}
  /\ failures' = (failures \ {f}) \cup {[f EXCEPT !.isParked = TRUE]}
  /\ UNCHANGED <<consumeVars, status, jobVars, reached, crashes>>

MarkDead(f) ==
  /\ f.isParked
  /\ status' = [status EXCEPT ![f.channel] = "DEAD"]
  /\ failures' = failures \ {f}
  /\ UNCHANGED <<consumeVars, jobVars, outVars, crashes>>

\* The handler's error is only logged.
FailHandler(f) ==
  /\ crashes < MaxCrashes
  /\ crashes' = crashes + 1
  /\ failures' = failures \ {f}
  /\ UNCHANGED <<consumeVars, status, jobVars, outVars>>

\* All replicas stop.  Jobs that were active are stalled and wait again; what
\* only a process knew is gone.
Crash ==
  /\ crashes < MaxCrashes
  /\ crashes' = crashes + 1
  /\ dispatch' = [c \in Consumers |-> Resting]
  /\ job' = [ch \in Channels |-> IF job[ch] = "ACTIVE" THEN "WAITING" ELSE job[ch]]
  /\ worker' = [ch \in Channels |-> "IDLE"]
  /\ failures' = {}
  /\ UNCHANGED <<message, tries, processed, status, made, outVars>>

-----------------------------------------------------------------------------
Consume(c) ==
  \/ CreatePendingBatch(c) \/ FindPendingByEvent(c)
  \/ \E ch \in Channels : Enqueue(c, ch)
  \/ Settle(c) \/ FailDispatch(c)

Work(ch) == Take(ch) \/ Send(ch) \/ MarkSent(ch) \/ CompleteJob(ch) \/ FailJob(ch)

HandleSendFailure(f) == MarkFailed(f) \/ Park(f) \/ MarkDead(f) \/ FailHandler(f)

Next ==
  \/ \E c \in Consumers : Consume(c)
  \/ \E ch \in Channels : Work(ch)
  \/ \E f \in failures : HandleSendFailure(f)
  \/ Crash

Spec == Init /\ [][Next]_vars

-----------------------------------------------------------------------------
(* The state is what the declarations say.                                 *)
TypeOK ==
  /\ message \in {"UNSETTLED", "SETTLED", "DEAD_LETTERED"}
  /\ tries \in 0..MaxRetries
  /\ processed \in BOOLEAN
  /\ dispatch \in [Consumers -> [pc : {"IDLE", "FIND", "ENQUEUE"}, todo : SUBSET Channels]]
  /\ status \in [Channels -> {"NONE", "PENDING", "SENT", "FAILED", "DEAD"}]
  /\ job \in [Channels -> {"NONE", "WAITING", "ACTIVE", "FAILED"}]
  /\ made \in [Channels -> 0..MaxAttempts]
  /\ worker \in [Channels -> {"IDLE", "SEND", "MARK", "DONE"}]
  /\ failures \in SUBSET [channel : Channels, attempts : 1..MaxAttempts, isParked : BOOLEAN]
  /\ reached \in SUBSET Channels
  /\ parked \in SUBSET Channels
  /\ crashes \in 0..MaxCrashes

\* A notification is never forgotten: as long as its provider has not accepted
\* it, either Redis has its job (to be run, or kept as failed) or the event
\* will be delivered again; only the dead letter of an event whose rows could
\* not all be queued leaves one behind.
NoNotificationForgotten ==
  \A ch \in Channels : ch \in reached \/ job[ch] # "NONE" \/ message # "SETTLED"

\* What the row says happened: SENT only for what the provider accepted, DEAD
\* only for what was parked, whatever the order in which the worker, the late
\* handlers of earlier failures and a crash leave the row.
RowTellsTheTruth ==
  \A ch \in Channels :
    /\ status[ch] = "SENT" => ch \in reached
    /\ status[ch] = "DEAD" => ch \in parked

=============================================================================
