--------------------------- MODULE ChargeWorkflow ---------------------------
(***************************************************************************)
(* The charge of one order (apps/payment): commands start its Temporal     *)
(* workflow or find it there; the workflow charges, may wait for the       *)
(* provider's webhook, and emits the reply; activities are retried.        *)
(*                                                                         *)
(* Temporal is external: it runs one workflow per id (REJECT_DUPLICATE),   *)
(* records its progress durably, and hands an activity out again when an   *)
(* attempt failed or timed out.  An attempt that timed out may still be    *)
(* running on a worker and commit later.  A workflow that a worker replays *)
(* after a crash takes the same steps again, so replay is no action here.  *)
(***************************************************************************)
EXTENDS Integers, Sequences

CONSTANTS
  Commands,     \* ChargePayment messages of the order
  Decisions,    \* what the charge activity may return
  MaxAttempts,  \* maximumAttempts of an activity
  MaxFaults,    \* bound on the faults of one behaviour
  MaxSignals    \* bound on the webhooks of one behaviour

Outcome == {"SUCCEEDED", "DECLINED"}

ASSUME DecisionsAssumption == Decisions \subseteq [outcome : Outcome, pending : BOOLEAN]
ASSUME AttemptsAssumption == MaxAttempts \in Nat \ {0}
ASSUME BoundsAssumption == MaxFaults \in Nat /\ MaxSignals \in Nat

VARIABLES
  at,          \* where the handler of each command is
  status,      \* the workflow's execution status
  step,        \* what the workflow waits for
  attempt,     \* the attempt of the activity it waits for
  decided,     \* the charge activity's result
  reconciled,  \* the provider's last signal
  outcome,     \* what the workflow settles on, and returns
  emission,    \* each attempt of emitReply on its worker
  processed,   \* is the order's id in processed_events?
  replies,     \* payment_outbox, in order
  faults, signals

runVars == <<status, step, attempt>>
resultVars == <<decided, reconciled, outcome>>
emitVars == <<emission, processed, replies>>
boundVars == <<faults, signals>>
vars == <<at, runVars, resultVars, emitVars, boundVars>>

Attempts == 1 .. MaxAttempts

Init ==
  /\ at = [c \in Commands |-> "IDLE"]
  /\ status = "NONE"
  /\ step = "NOTHING"
  /\ attempt = 0
  /\ decided = "OPEN" /\ reconciled = "OPEN" /\ outcome = "OPEN"
  /\ emission = [k \in Attempts |-> "IDLE"]
  /\ processed = FALSE
  /\ replies = <<>>
  /\ faults = 0 /\ signals = 0

Fault ==
  /\ faults < MaxFaults
  /\ faults' = faults + 1
  /\ UNCHANGED signals

Move(c, place) == at' = [at EXCEPT ![c] = place]

AppendReply(result, author) ==
  replies' = Append(replies, [outcome |-> result, by |-> author])

-----------------------------------------------------------------------------
(* A command's handler                                                     *)

Receive(c) ==
  /\ at[c] = "IDLE"
  /\ Move(c, "STARTING")
  /\ UNCHANGED <<runVars, resultVars, emitVars, boundVars>>

\* The workflow exists from here on.
BeginRun ==
  /\ status = "NONE"
  /\ status' = "RUNNING"
  /\ step' = "CHARGE"
  /\ attempt' = 1

StartCharge(c) ==
  /\ at[c] = "STARTING"
  /\ BeginRun
  /\ Move(c, "DONE")
  /\ UNCHANGED <<resultVars, emitVars, boundVars>>

StartDuplicate(c) ==
  /\ at[c] = "STARTING" /\ status # "NONE"
  /\ Move(c, "DESCRIBING")
  /\ UNCHANGED <<runVars, resultVars, emitVars, boundVars>>

\* Temporal does not answer, whether or not it started the workflow.  The
\* consumer tries again, and gives the message up in the end.
FailToStart(c) ==
  /\ at[c] = "STARTING"
  /\ Fault
  /\ BeginRun \/ UNCHANGED runVars
  /\ \E place \in {"STARTING", "DROPPED"} : Move(c, place)
  /\ UNCHANGED <<resultVars, emitVars>>

Completed == status = "COMPLETED"

Describe(c) ==
  /\ at[c] = "DESCRIBING"
  /\ Move(c, IF Completed THEN "RECOVERING" ELSE "DONE")
  /\ UNCHANGED <<runVars, resultVars, emitVars, boundVars>>

RecoverReply(c) ==
  /\ at[c] = "RECOVERING"
  /\ AppendReply(outcome, "recovery")
  /\ Move(c, "DONE")
  /\ UNCHANGED <<runVars, resultVars, emission, processed, boundVars>>

\* Errors of describe, result and append are logged; the message is done.
FailToRecover(c) ==
  /\ at[c] \in {"DESCRIBING", "RECOVERING"}
  /\ Fault
  /\ Move(c, "DONE")
  /\ UNCHANGED <<runVars, resultVars, emitVars>>

\* The consumer goes down before it commits the message's offset.
Redeliver(c) ==
  /\ at[c] \in {"DESCRIBING", "RECOVERING", "DONE"}
  /\ Fault
  /\ Move(c, "STARTING")
  /\ UNCHANGED <<runVars, resultVars, emitVars>>

-----------------------------------------------------------------------------
(* The workflow                                                            *)

\* Mutant: the reply is not emitted while the provider is silent.
SettleWhenTold ==
  /\ step = "WAIT" /\ reconciled # "OPEN"
  /\ outcome' = reconciled
  /\ step' = "EMIT" /\ attempt' = 1
  /\ UNCHANGED <<at, status, decided, reconciled, emitVars, boundVars>>

Settle(result) ==
  /\ outcome' = IF reconciled # "OPEN" THEN reconciled ELSE result
  /\ step' = "EMIT" /\ attempt' = 1

Charge(decision) ==
  /\ step = "CHARGE"
  /\ decided' = decision.outcome
  /\ IF decision.pending
     THEN step' = "WAIT" /\ UNCHANGED <<attempt, outcome>>
     ELSE Settle(decision.outcome)
  /\ UNCHANGED <<at, status, reconciled, emitVars, boundVars>>

\* The signal came, or RECONCILE_WINDOW is over.
EndWait ==
  /\ step = "WAIT"
  /\ Settle(decided)
  /\ UNCHANGED <<at, status, decided, reconciled, emitVars, boundVars>>

\* A verified webhook.  A workflow that is not running is not found, and the
\* provider gets its 200 all the same.
Signal(result) ==
  /\ signals < MaxSignals
  /\ signals' = signals + 1
  /\ reconciled' = IF status = "RUNNING" THEN result ELSE reconciled
  /\ UNCHANGED <<at, runVars, decided, outcome, emitVars, faults>>

LastAttempt == attempt = MaxAttempts

\* The attempt failed or timed out.  After the last the workflow fails with it.
EndAttempt ==
  IF LastAttempt
  THEN /\ status' = "FAILED" /\ step' = "NOTHING"
       /\ UNCHANGED attempt
  ELSE /\ attempt' = attempt + 1
       /\ UNCHANGED <<status, step>>

ChargeFails ==
  /\ step = "CHARGE"
  /\ Fault
  /\ EndAttempt
  /\ UNCHANGED <<at, resultVars, emitVars>>

-----------------------------------------------------------------------------
(* The emitReply activity                                                  *)

PickUp ==
  /\ step = "EMIT" /\ emission[attempt] = "IDLE"
  /\ emission' = [emission EXCEPT ![attempt] = "RUNNING"]
  /\ UNCHANGED <<at, runVars, resultVars, processed, replies, boundVars>>

\* Mutant: the reply tells what the provider said last.
LastWord == IF reconciled # "OPEN" THEN reconciled ELSE outcome

Reply == outcome

\* Mutant: the order's id is not looked up.
CommitAgain(k) ==
  /\ emission[k] = "RUNNING"
  /\ emission' = [emission EXCEPT ![k] = "COMMITTED"]
  /\ processed' = TRUE
  /\ AppendReply(Reply, "workflow")
  /\ UNCHANGED <<at, runVars, resultVars, boundVars>>

\* markProcessed and append in one transaction; a second time is a no-op.
CommitReply(k) ==
  /\ emission[k] = "RUNNING"
  /\ emission' = [emission EXCEPT ![k] = "COMMITTED"]
  /\ processed' = TRUE
  /\ IF processed THEN UNCHANGED replies ELSE AppendReply(Reply, "workflow")
  /\ UNCHANGED <<at, runVars, resultVars, boundVars>>

Complete ==
  /\ step = "EMIT" /\ emission[attempt] = "COMMITTED"
  /\ status' = "COMPLETED"
  /\ step' = "NOTHING"
  /\ UNCHANGED <<at, attempt, resultVars, emitVars, boundVars>>

\* The transaction fails and the worker says so.
EmitFails ==
  /\ step = "EMIT" /\ emission[attempt] = "RUNNING"
  /\ Fault
  /\ emission' = [emission EXCEPT ![attempt] = "ABORTED"]
  /\ EndAttempt
  /\ UNCHANGED <<at, resultVars, processed, replies>>

\* The worker is slow, gone, or its answer is lost.
EmitTimesOut ==
  /\ step = "EMIT"
  /\ Fault
  /\ EndAttempt
  /\ UNCHANGED <<at, resultVars, emitVars>>

-----------------------------------------------------------------------------
HandlerStep(c) == StartCharge(c) \/ StartDuplicate(c) \/ Describe(c) \/ RecoverReply(c)
HandlerFault(c) == FailToStart(c) \/ FailToRecover(c) \/ Redeliver(c)

WorkflowStep ==
  \/ \E decision \in Decisions : Charge(decision)
  \/ EndWait
  \/ PickUp
  \/ Complete

Next ==
  \/ \E c \in Commands : Receive(c) \/ HandlerStep(c) \/ HandlerFault(c)
  \/ WorkflowStep
  \/ \E k \in Attempts : CommitReply(k)
  \/ \E result \in Outcome : Signal(result)
  \/ ChargeFails \/ EmitFails \/ EmitTimesOut

Spec == Init /\ [][Next]_vars

\* Handlers run on, and so do Temporal, its timer and a worker that has the
\* awaited attempt.  An attempt that timed out need not end.
Fairness ==
  /\ \A c \in Commands : WF_vars(HandlerStep(c))
  /\ WF_vars(WorkflowStep)
  /\ \A k \in Attempts : WF_vars(step = "EMIT" /\ attempt = k /\ CommitReply(k))

FairSpec == Spec /\ Fairness

-----------------------------------------------------------------------------
Place == {"IDLE", "STARTING", "DESCRIBING", "RECOVERING", "DONE", "DROPPED"}

\* Types: in particular the attempts stay within maximumAttempts.
TypeOK ==
  /\ at \in [Commands -> Place]
  /\ status \in {"NONE", "RUNNING", "COMPLETED", "FAILED"}
  /\ step \in {"NOTHING", "CHARGE", "WAIT", "EMIT"}
  /\ attempt \in 0 .. MaxAttempts
  /\ decided \in Outcome \cup {"OPEN"}
  /\ reconciled \in Outcome \cup {"OPEN"}
  /\ outcome \in Outcome \cup {"OPEN"}
  /\ emission \in [Attempts -> {"IDLE", "RUNNING", "COMMITTED", "ABORTED"}]
  /\ processed \in BOOLEAN
  /\ replies \in Seq([outcome : Outcome, by : {"workflow", "recovery"}])
  /\ faults \in 0 .. MaxFaults
  /\ signals \in 0 .. MaxSignals

\* The workflow speaks once and first, although attempts that timed out may
\* commit beside a later one or after the workflow has ended; whatever follows
\* was asked for by a repeated command.
WorkflowSpeaksFirst ==
  \A i \in DOMAIN replies : replies[i].by = "workflow" <=> i = 1

Told == [i \in DOMAIN replies |-> replies[i].outcome]

\* payment.replies never tell two verdicts: neither a webhook that comes while
\* the reply is emitted nor a recovery changes what was said.
Contract ==
  INSTANCE ChargeContract
  WITH asked <- status # "NONE", verdict <- outcome, told <- Told

KeepsChargeContract == Contract!Spec

\* A charge that was started is replied to, unless its attempts run out.
EveryChargeAnswered ==
  status = "RUNNING" ~> replies # <<>> \/ status = "FAILED"

\* docs/system-architecture.md: a charge whose retries are used up leads to
\* the saga's compensation, which a PaymentFailed reply begins.
ExhaustedChargeCompensates ==
  status = "FAILED" ~> \E i \in DOMAIN replies : replies[i].outcome = "DECLINED"

-----------------------------------------------------------------------------
(* Why it is so: what the state of the workflow says about its results, its *)
(* emissions and the outbox.                                               *)

StepFits ==
  /\ status = "RUNNING" <=> step # "NOTHING"
  /\ status = "NONE" => outcome = "OPEN"
  /\ step # "NOTHING" => attempt # 0
  /\ step \in {"CHARGE", "WAIT"} => outcome = "OPEN"
  /\ step = "WAIT" => decided # "OPEN"
  /\ step = "EMIT" => outcome # "OPEN"

EmissionsFit ==
  /\ \A k \in Attempts : emission[k] # "IDLE" => outcome # "OPEN"
  /\ \A k \in Attempts : emission[k] = "COMMITTED" => processed

RepliesFit ==
  /\ processed <=> replies # <<>>
  /\ processed => outcome # "OPEN"
  /\ \A i \in DOMAIN replies : replies[i].outcome = outcome
  /\ status = "COMPLETED" => processed
  /\ \A c \in Commands : at[c] = "RECOVERING" => Completed

\* The inductive invariant.
ChargeInv == TypeOK /\ WorkflowSpeaksFirst /\ StepFits /\ EmissionsFit /\ RepliesFit
=============================================================================
