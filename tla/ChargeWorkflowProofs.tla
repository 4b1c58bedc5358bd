------------------------ MODULE ChargeWorkflowProofs ------------------------
(***************************************************************************)
(* ChargeWorkflow for any commands, attempts, faults and webhooks: the     *)
(* workflow speaks once and first, and all replies tell its one outcome.   *)
(***************************************************************************)
EXTENDS ChargeWorkflow, SequenceTheorems, TLAPS

USE DecisionsAssumption, AttemptsAssumption, BoundsAssumption

\* Counting a fault respects the bound.
LEMMA FaultTypes ==
  ASSUME TypeOK, Fault
  PROVE  faults' \in 0 .. MaxFaults /\ signals' \in 0 .. MaxSignals
<1>1. faults \in 0 .. MaxFaults /\ signals \in 0 .. MaxSignals
  BY DEF TypeOK
<1> QED
  BY <1>1 DEF Fault

\* Ending an attempt keeps the run well-typed and the workflow in step.
LEMMA EndAttemptFits ==
  ASSUME TypeOK, StepFits, step # "NOTHING", EndAttempt
  PROVE  /\ status' \in {"RUNNING", "FAILED"} /\ step' \in {step, "NOTHING"}
         /\ attempt' \in 1 .. MaxAttempts
         /\ status' = "RUNNING" <=> step' # "NOTHING"
<1>1. attempt \in 1 .. MaxAttempts /\ status = "RUNNING"
  BY DEF TypeOK, StepFits
<1>2. CASE LastAttempt
  BY <1>1, <1>2 DEF EndAttempt
<1>3. CASE ~LastAttempt
  BY <1>1, <1>3 DEF EndAttempt, LastAttempt
<1> QED
  BY <1>2, <1>3

\* A reply that tells the outcome keeps the outbox consistent, if the workflow
\* writes the first and a recovery any other.
LEMMA AppendFits ==
  ASSUME TypeOK, WorkflowSpeaksFirst, RepliesFit, NEW author,
         outcome # "OPEN", outcome' = outcome,
         \/ author = "workflow" /\ ~processed
         \/ author = "recovery" /\ processed,
         AppendReply(outcome, author)
  PROVE  /\ replies' \in Seq([outcome : Outcome, by : {"workflow", "recovery"}])
         /\ replies' # <<>>
         /\ \A i \in DOMAIN replies' : replies'[i].outcome = outcome'
         /\ WorkflowSpeaksFirst'
<1> DEFINE new == [outcome |-> outcome, by |-> author]
<1>1. /\ replies \in Seq([outcome : Outcome, by : {"workflow", "recovery"}])
      /\ new \in [outcome : Outcome, by : {"workflow", "recovery"}]
      /\ processed <=> replies # <<>>
  BY DEF TypeOK, RepliesFit
<1>2. replies' = Append(replies, new)
  BY DEF AppendReply
<1>3. /\ Len(replies) \in Nat
      /\ DOMAIN replies = 1 .. Len(replies)
      /\ DOMAIN replies' = 1 .. Len(replies) + 1
      /\ replies'[Len(replies) + 1] = new
      /\ \A i \in DOMAIN replies : replies'[i] = replies[i]
  BY <1>1, <1>2
<1>4. \A i \in DOMAIN replies' : i \in DOMAIN replies \/ i = Len(replies) + 1
  BY <1>3
<1>5. \A i \in DOMAIN replies' : replies'[i].outcome = outcome'
  BY <1>3, <1>4 DEF RepliesFit
<1>6. new.by = "workflow" <=> Len(replies) + 1 = 1
  BY <1>1, <1>3
<1>7. WorkflowSpeaksFirst'
  <2> SUFFICES ASSUME NEW i \in DOMAIN replies'
               PROVE  replies'[i].by = "workflow" <=> i = 1
    BY DEF WorkflowSpeaksFirst
  <2>1. CASE i \in DOMAIN replies
    BY <2>1, <1>3 DEF WorkflowSpeaksFirst
  <2>2. CASE i = Len(replies) + 1
    BY <2>2, <1>3, <1>6
  <2> QED
    BY <1>4, <2>1, <2>2
<1> QED
  BY <1>1, <1>2, <1>5, <1>7

\* The strengthened invariant holds in every state.
THEOREM ChargeInvariant == Spec => []ChargeInv
<1>1. Init => ChargeInv
  <2> SUFFICES ASSUME Init PROVE ChargeInv
    OBVIOUS
  <2>1. replies = <<>> /\ DOMAIN replies = {}
    BY DEF Init
  <2>2. TypeOK
    <3>1. 0 \in 0 .. MaxAttempts /\ 0 \in 0 .. MaxFaults /\ 0 \in 0 .. MaxSignals
      OBVIOUS
    <3>2. <<>> \in Seq([outcome : Outcome, by : {"workflow", "recovery"}])
      OBVIOUS
    <3>3. at \in [Commands -> Place]
      BY DEF Init, Place
    <3>4. emission \in [Attempts -> {"IDLE", "RUNNING", "COMMITTED", "ABORTED"}]
      BY DEF Init
    <3> QED
      BY <3>1, <3>2, <3>3, <3>4 DEF Init, TypeOK
  <2>3. WorkflowSpeaksFirst /\ StepFits
    BY <2>1 DEF Init, WorkflowSpeaksFirst, StepFits
  <2>4. EmissionsFit
    BY DEF Init, EmissionsFit
  <2>5. RepliesFit
    BY <2>1 DEF Init, RepliesFit
  <2> QED
    BY <2>2, <2>3, <2>4, <2>5 DEF ChargeInv
<1>2. ASSUME ChargeInv, [Next]_vars PROVE ChargeInv'
  <2> USE <1>2 DEF ChargeInv
  <2>1. ASSUME NEW c \in Commands,
               Receive(c) \/ StartDuplicate(c) \/ Describe(c) \/ FailToRecover(c)
                 \/ Redeliver(c)
        PROVE  ChargeInv'
    <3>1. /\ UNCHANGED <<runVars, resultVars, emitVars>>
          /\ \E place \in Place :
               Move(c, place) /\ (place = "RECOVERING" => Completed)
      BY <2>1 DEF Receive, StartDuplicate, Describe, FailToRecover, Redeliver, Place
    <3>2. faults' \in 0 .. MaxFaults /\ signals' \in 0 .. MaxSignals
      BY <2>1, FaultTypes DEF Receive, StartDuplicate, Describe, FailToRecover, Redeliver,
         boundVars, TypeOK
    <3>3. TypeOK'
      BY <3>1, <3>2 DEF TypeOK, Move, runVars, resultVars, emitVars
    <3>4. RepliesFit'
      BY <3>1 DEF RepliesFit, TypeOK, Move, runVars, resultVars, emitVars, Completed
    <3> QED
      BY <3>1, <3>3, <3>4 DEF WorkflowSpeaksFirst, StepFits, EmissionsFit, runVars,
         resultVars, emitVars
  <2>2. ASSUME NEW c \in Commands, StartCharge(c) \/ FailToStart(c) PROVE ChargeInv'
    <3>1. /\ UNCHANGED <<resultVars, emitVars>>
          /\ BeginRun \/ UNCHANGED runVars
          /\ \E place \in Place : Move(c, place) /\ place # "RECOVERING"
      BY <2>2 DEF StartCharge, FailToStart, Place
    <3>2. faults' \in 0 .. MaxFaults /\ signals' \in 0 .. MaxSignals
      BY <2>2, FaultTypes DEF StartCharge, FailToStart, boundVars, TypeOK
    <3>3. TypeOK'
      BY <3>1, <3>2 DEF TypeOK, Move, BeginRun, runVars, resultVars, emitVars
    <3>4. RepliesFit'
      BY <3>1 DEF RepliesFit, TypeOK, Move, BeginRun, runVars, resultVars, emitVars, Completed
    <3>5. StepFits'
      BY <3>1 DEF StepFits, BeginRun, runVars, resultVars
    <3> QED
      BY <3>1, <3>3, <3>4, <3>5 DEF WorkflowSpeaksFirst, EmissionsFit, resultVars, emitVars
  <2>3. ASSUME NEW c \in Commands, RecoverReply(c) PROVE ChargeInv'
    <3>1. at[c] = "RECOVERING" /\ processed /\ outcome # "OPEN"
      BY <2>3 DEF RecoverReply, RepliesFit, Completed
    <3>2. /\ AppendReply(outcome, "recovery") /\ Move(c, "DONE")
          /\ UNCHANGED <<runVars, resultVars, emission, processed, boundVars>>
      BY <2>3 DEF RecoverReply
    <3>3. /\ replies' \in Seq([outcome : Outcome, by : {"workflow", "recovery"}])
          /\ replies' # <<>> /\ \A i \in DOMAIN replies' : replies'[i].outcome = outcome'
          /\ WorkflowSpeaksFirst'
      BY <3>1, <3>2, AppendFits DEF resultVars
    <3>4. TypeOK'
      BY <3>2, <3>3 DEF TypeOK, Move, Place, runVars, resultVars, boundVars
    <3>5. RepliesFit'
      BY <3>1, <3>2, <3>3 DEF RepliesFit, TypeOK, Move, runVars, resultVars, Completed
    <3> QED
      BY <3>2, <3>3, <3>4, <3>5 DEF StepFits, EmissionsFit, runVars, resultVars
  <2>4. ASSUME NEW decision \in Decisions, Charge(decision) PROVE ChargeInv'
    <3>1. /\ step = "CHARGE" /\ outcome = "OPEN" /\ status = "RUNNING"
          /\ attempt # 0 /\ ~processed
      BY <2>4 DEF Charge, StepFits, RepliesFit
    <3>2. decision.outcome \in Outcome /\ "OPEN" \notin Outcome
      BY DEF Outcome
    <3>3. /\ decided' = decision.outcome
          /\ UNCHANGED <<at, status, reconciled, emitVars, boundVars>>
          /\ \/ step' = "WAIT" /\ UNCHANGED <<attempt, outcome>>
             \/ step' = "EMIT" /\ attempt' = 1 /\ outcome' \in Outcome
      BY <2>4, <3>2 DEF Charge, Settle, TypeOK
    <3> QED
      BY <3>1, <3>2, <3>3 DEF TypeOK, WorkflowSpeaksFirst, StepFits, EmissionsFit,
         RepliesFit, Completed, emitVars, boundVars
  <2>5. CASE EndWait
    <3>1. /\ step = "WAIT" /\ outcome = "OPEN" /\ status = "RUNNING"
          /\ decided \in Outcome /\ ~processed
      BY <2>5 DEF EndWait, StepFits, RepliesFit, TypeOK
    <3>2. "OPEN" \notin Outcome
      BY DEF Outcome
    <3>3. /\ UNCHANGED <<at, status, decided, reconciled, emitVars, boundVars>>
          /\ step' = "EMIT" /\ attempt' = 1 /\ outcome' \in Outcome
      BY <2>5, <3>1 DEF EndWait, Settle, TypeOK
    <3> QED
      BY <3>1, <3>2, <3>3 DEF TypeOK, WorkflowSpeaksFirst, StepFits, EmissionsFit,
         RepliesFit, Completed, emitVars, boundVars
  <2>6. ASSUME NEW result \in Outcome, Signal(result) PROVE ChargeInv'
    <3>1. /\ UNCHANGED <<at, runVars, decided, outcome, emitVars, faults>>
          /\ reconciled' \in {reconciled, result}
          /\ signals < MaxSignals /\ signals' = signals + 1
      BY <2>6 DEF Signal
    <3> QED
      BY <3>1 DEF TypeOK, WorkflowSpeaksFirst, StepFits, EmissionsFit, RepliesFit,
         Completed, runVars, emitVars
  <2>7. CASE PickUp
    <3>1. /\ UNCHANGED <<at, runVars, resultVars, processed, replies, boundVars>>
          /\ outcome # "OPEN"
          /\ emission' = [emission EXCEPT ![attempt] = "RUNNING"]
      BY <2>7 DEF PickUp, StepFits
    <3> QED
      BY <3>1 DEF TypeOK, WorkflowSpeaksFirst, StepFits, EmissionsFit, RepliesFit,
         Completed, runVars, resultVars, boundVars
  <2>8. ASSUME NEW k \in Attempts, CommitReply(k) PROVE ChargeInv'
    <3>1. /\ outcome # "OPEN" /\ processed' = TRUE
          /\ emission' = [emission EXCEPT ![k] = "COMMITTED"]
          /\ UNCHANGED <<at, runVars, resultVars, boundVars>>
      BY <2>8 DEF CommitReply, EmissionsFit
    <3>2. /\ replies' \in Seq([outcome : Outcome, by : {"workflow", "recovery"}])
          /\ replies' # <<>> /\ \A i \in DOMAIN replies' : replies'[i].outcome = outcome'
          /\ WorkflowSpeaksFirst'
      <4>1. CASE processed
        BY <2>8, <3>1, <4>1 DEF CommitReply, TypeOK, RepliesFit, WorkflowSpeaksFirst,
           resultVars
      <4>2. CASE ~processed
        <5>1. AppendReply(outcome, "workflow")
          BY <2>8, <4>2 DEF CommitReply, Reply
        <5> QED
          BY <3>1, <4>2, <5>1, AppendFits DEF resultVars
      <4> QED
        BY <4>1, <4>2
    <3>3. TypeOK'
      BY <3>1, <3>2 DEF TypeOK, runVars, resultVars, boundVars
    <3>4. RepliesFit' /\ EmissionsFit' /\ StepFits'
      BY <3>1, <3>2 DEF TypeOK, RepliesFit, EmissionsFit, StepFits, Completed, runVars,
         resultVars
    <3> QED
      BY <3>2, <3>3, <3>4
  <2>9. CASE Complete
    <3>1. /\ processed /\ outcome # "OPEN" /\ step' = "NOTHING" /\ status' = "COMPLETED"
          /\ UNCHANGED <<at, attempt, resultVars, emitVars, boundVars>>
      BY <2>9 DEF Complete, EmissionsFit, RepliesFit, StepFits, TypeOK, Attempts
    <3> QED
      BY <3>1 DEF TypeOK, WorkflowSpeaksFirst, StepFits, EmissionsFit, RepliesFit,
         Completed, resultVars, emitVars, boundVars
  <2>10. CASE ChargeFails \/ EmitFails \/ EmitTimesOut
    <3>1. /\ EndAttempt /\ Fault
          /\ step \in {"CHARGE", "EMIT"} /\ step # "NOTHING" /\ status = "RUNNING"
          /\ UNCHANGED <<at, resultVars, processed, replies>>
          /\ \/ UNCHANGED emission
             \/ emission[attempt] = "RUNNING"
                  /\ emission' = [emission EXCEPT ![attempt] = "ABORTED"]
      BY <2>10 DEF ChargeFails, EmitFails, EmitTimesOut, StepFits, emitVars
    <3>2. /\ status' \in {"RUNNING", "FAILED"} /\ step' \in {step, "NOTHING"}
          /\ attempt' \in 1 .. MaxAttempts
          /\ status' = "RUNNING" <=> step' # "NOTHING"
      BY <3>1, EndAttemptFits
    <3>3. faults' \in 0 .. MaxFaults /\ signals' \in 0 .. MaxSignals
      BY <3>1, FaultTypes
    <3>4. TypeOK'
      BY <3>1, <3>2, <3>3 DEF TypeOK, resultVars
    <3>5. StepFits' /\ EmissionsFit'
      BY <3>1, <3>2 DEF TypeOK, StepFits, EmissionsFit, resultVars
    <3>6. RepliesFit' /\ WorkflowSpeaksFirst'
      BY <3>1, <3>2 DEF RepliesFit, WorkflowSpeaksFirst, Completed, resultVars
    <3> QED
      BY <3>4, <3>5, <3>6
  <2>11. CASE UNCHANGED vars
    BY <2>11 DEF vars, runVars, resultVars, emitVars, boundVars, TypeOK,
       WorkflowSpeaksFirst, StepFits, EmissionsFit, RepliesFit, Completed
  <2> QED
    BY <2>1, <2>2, <2>3, <2>4, <2>5, <2>6, <2>7, <2>8, <2>9, <2>10, <2>11
       DEF Next, HandlerStep, HandlerFault, WorkflowStep
<1> QED
  BY <1>1, <1>2, PTL DEF Spec

\* Types, whatever fails: attempts stay within maximumAttempts.
THEOREM TypeCorrect == Spec => []TypeOK
BY ChargeInvariant, PTL DEF ChargeInv

\* The workflow's own reply is one and the first, although attempts that
\* timed out may commit at any time.
THEOREM SpeaksFirst == Spec => []WorkflowSpeaksFirst
BY ChargeInvariant, PTL DEF ChargeInv

-----------------------------------------------------------------------------
\* Appending a reply appends its outcome to what was told.
LEMMA ToldAppend ==
  ASSUME TypeOK, NEW author \in {"workflow", "recovery"}, outcome \in Outcome,
         AppendReply(outcome, author)
  PROVE  Told' = Append(Told, outcome)
<1> DEFINE new == [outcome |-> outcome, by |-> author]
<1>1. replies \in Seq([outcome : Outcome, by : {"workflow", "recovery"}])
  BY DEF TypeOK
<1>2. replies' = Append(replies, new)
  BY DEF AppendReply
<1>3. /\ Len(replies) \in Nat
      /\ DOMAIN replies = 1 .. Len(replies)
      /\ DOMAIN replies' = 1 .. Len(replies) + 1
      /\ replies'[Len(replies) + 1] = new
      /\ \A i \in DOMAIN replies : replies'[i] = replies[i]
  BY <1>1, <1>2
<1>4. ASSUME NEW result \in Seq([outcome : Outcome, by : {"workflow", "recovery"}])
      PROVE  LET told == [i \in DOMAIN result |-> result[i].outcome]
             IN  told \in Seq(Outcome) /\ Len(told) = Len(result)
  <2> DEFINE told == [i \in DOMAIN result |-> result[i].outcome]
  <2>1. Len(result) \in Nat /\ DOMAIN result = 1 .. Len(result)
    BY <1>4
  <2>2. ASSUME NEW i \in 1 .. Len(result) PROVE result[i].outcome \in Outcome
    <3>1. result[i] \in [outcome : Outcome, by : {"workflow", "recovery"}]
      BY <1>4, ElementOfSeq
    <3> QED
      BY <3>1
  <2>3. told \in [1 .. Len(result) -> Outcome]
    BY <2>1, <2>2
  <2>4. told \in Seq(Outcome)
    BY <2>1, <2>3, SeqDef
  <2>5. Len(told) = Len(result)
    BY <2>1, <2>3, <2>4
  <2> QED
    BY <2>4, <2>5
<1>5. Told \in Seq(Outcome) /\ Len(Told) = Len(replies)
  BY <1>1, <1>4 DEF Told
<1>6. replies' \in Seq([outcome : Outcome, by : {"workflow", "recovery"}])
  BY <1>1, <1>2
<1>7. Told' \in Seq(Outcome) /\ Len(Told') = Len(replies')
  BY <1>4, <1>6 DEF Told
<1>8. /\ Append(Told, outcome) \in Seq(Outcome)
      /\ Len(Append(Told, outcome)) = Len(replies) + 1
  BY <1>3, <1>5
<1>9. Len(Told') = Len(replies) + 1
  BY <1>1, <1>2, <1>7
<1>10. ASSUME NEW i \in 1 .. Len(Told') PROVE Told'[i] = Append(Told, outcome)[i]
  <2>1. Told'[i] = replies'[i].outcome
    BY <1>3, <1>9 DEF Told
  <2>2. CASE i = Len(replies) + 1
    BY <2>1, <2>2, <1>3, <1>5
  <2>3. CASE i \in DOMAIN replies
    <3>1. i \in 1 .. Len(Told)
      BY <2>3, <1>3, <1>5
    <3>2. Append(Told, outcome)[i] = Told[i]
      BY <3>1, <1>5
    <3>3. Told'[i] = replies[i].outcome
      BY <2>1, <2>3, <1>3
    <3> QED
      BY <2>3, <3>2, <3>3 DEF Told
  <2>4. i \in 1 .. Len(replies) + 1
    BY <1>9
  <2>5. i \in 1 .. Len(replies) \/ i = Len(replies) + 1
    BY <2>4, <1>3
  <2> QED
    BY <2>2, <2>3, <2>5, <1>3
<1> QED
  BY <1>7, <1>8, <1>9, <1>10, <1>5, SeqEqual

\* Every step of the workflow, its activities and its handlers is one the
\* contract allows: one verdict, and replies that tell it.
THEOREM ImplementsChargeContract == Spec => KeepsChargeContract
<1> DEFINE asked == status # "NONE"
<1>1. Init => Contract!Init
  BY DEF Init, Contract!Init, Told
<1>2. ASSUME ChargeInv, [Next]_vars PROVE [Contract!Next]_(Contract!vars)
  <2> USE <1>2 DEF ChargeInv
  <2>1. ASSUME UNCHANGED <<status, outcome, replies>> PROVE UNCHANGED Contract!vars
    BY <2>1 DEF Contract!vars, Told
  <2>2. ASSUME status # "NONE" /\ status' # "NONE", UNCHANGED <<outcome, replies>>
        PROVE  UNCHANGED Contract!vars
    BY <2>2 DEF Contract!vars, Told
  <2>3. ASSUME NEW c \in Commands,
               Receive(c) \/ StartDuplicate(c) \/ Describe(c) \/ FailToRecover(c)
                 \/ Redeliver(c)
        PROVE  UNCHANGED Contract!vars
    BY <2>1, <2>3 DEF Receive, StartDuplicate, Describe, FailToRecover, Redeliver, runVars,
       resultVars, emitVars
  <2>4. ASSUME NEW c \in Commands, StartCharge(c) \/ FailToStart(c)
        PROVE  [Contract!Next]_(Contract!vars)
    <3>1. CASE BeginRun
      <4>1. (status' # "NONE") = TRUE /\ outcome' = outcome /\ Told' = Told
        BY <2>4, <3>1 DEF StartCharge, FailToStart, BeginRun, resultVars, emitVars, Told
      <4> QED
        BY <4>1 DEF Contract!Next, Contract!Ask
    <3>2. CASE UNCHANGED runVars
      BY <2>1, <2>4, <3>2 DEF StartCharge, FailToStart, runVars, resultVars, emitVars
    <3> QED
      BY <2>4, <3>1, <3>2 DEF StartCharge, FailToStart
  <2>5. ASSUME NEW author \in {"workflow", "recovery"}, outcome # "OPEN",
               AppendReply(outcome, author), UNCHANGED <<runVars, resultVars>>
        PROVE  Contract!Next
    <3>1. Told' = Append(Told, outcome) /\ UNCHANGED <<status, outcome>>
      BY <2>5, ToldAppend DEF runVars, resultVars, TypeOK
    <3> QED
      BY <2>5, <3>1 DEF Contract!Next, Contract!Reply
  <2>6. ASSUME NEW c \in Commands, RecoverReply(c) PROVE Contract!Next
    BY <2>5, <2>6 DEF RecoverReply, RepliesFit, Completed
  <2>7. ASSUME outcome = "OPEN", outcome' \in Outcome, status = "RUNNING",
               UNCHANGED <<status, replies>>
        PROVE  Contract!Next
    BY <2>7 DEF Contract!Next, Contract!Decide, Contract!Verdict, Outcome, Told
  <2>8. ASSUME NEW decision \in Decisions, Charge(decision)
        PROVE  [Contract!Next]_(Contract!vars)
    <3>1. /\ outcome = "OPEN" /\ status = "RUNNING" /\ UNCHANGED <<status, replies>>
          /\ decision.outcome \in Outcome
      BY <2>8 DEF Charge, StepFits, emitVars
    <3>2. outcome' \in Outcome \/ UNCHANGED outcome
      BY <2>8, <3>1 DEF Charge, Settle, TypeOK
    <3> QED
      BY <2>1, <2>7, <3>1, <3>2
  <2>9. CASE EndWait
    <3>1. outcome = "OPEN" /\ status = "RUNNING" /\ UNCHANGED <<status, replies>>
      BY <2>9 DEF EndWait, StepFits, emitVars
    <3>2. outcome' \in Outcome
      BY <2>9 DEF EndWait, Settle, TypeOK, StepFits
    <3> QED
      BY <2>7, <3>1, <3>2
  <2>10. ASSUME NEW k \in Attempts, CommitReply(k) PROVE [Contract!Next]_(Contract!vars)
    <3>1. outcome # "OPEN" /\ UNCHANGED <<runVars, resultVars>>
      BY <2>10 DEF CommitReply, EmissionsFit
    <3>2. UNCHANGED replies \/ AppendReply(outcome, "workflow")
      BY <2>10 DEF CommitReply, Reply
    <3> QED
      BY <2>1, <2>5, <3>1, <3>2 DEF runVars, resultVars
  <2>11. CASE PickUp \/ Complete \/ ChargeFails \/ EmitFails \/ EmitTimesOut
    <3>1. status = "RUNNING" /\ UNCHANGED <<outcome, replies>>
      BY <2>11 DEF PickUp, Complete, ChargeFails, EmitFails, EmitTimesOut, StepFits,
         resultVars, emitVars
    <3>2. status' # "NONE"
      BY <2>11, <3>1 DEF PickUp, Complete, ChargeFails, EmitFails, EmitTimesOut,
         EndAttempt, runVars
    <3> QED
      BY <2>2, <3>1, <3>2
  <2>12. ASSUME NEW result \in Outcome, Signal(result) PROVE UNCHANGED Contract!vars
    BY <2>1, <2>12 DEF Signal, runVars, emitVars
  <2>13. CASE UNCHANGED vars
    BY <2>1, <2>13 DEF vars, runVars, resultVars, emitVars
  <2> QED
    BY <2>3, <2>4, <2>6, <2>8, <2>9, <2>10, <2>11, <2>12, <2>13
       DEF Next, HandlerStep, HandlerFault, WorkflowStep
<1> QED
  BY <1>1, <1>2, ChargeInvariant, PTL DEF Spec, KeepsChargeContract, Contract!Spec
=============================================================================
