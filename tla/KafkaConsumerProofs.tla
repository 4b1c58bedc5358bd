------------------------ MODULE KafkaConsumerProofs ------------------------
(***************************************************************************)
(* KafkaConsumer for any group, events, log length and number of faults.   *)
(* An effect is single (EffectInv), and from where the group began nothing *)
(* is skipped (ConsumerInv).                                               *)
(***************************************************************************)
EXTENDS KafkaConsumer, TLAPS

USE MembersAssumption, EventsAssumption, FromBeginningAssumption,
    MaxAttemptsAssumption, BoundsAssumption

\* Initially nothing is delivered.
LEMMA InitInv == Init => ConsumerInv
<1> SUFFICES ASSUME Init PROVE ConsumerInv
  OBVIOUS
<1>1. TypeOK
  BY DEF Init, TypeOK, NoOffset, Place
<1>2. EffectsFit /\ EffectOnce /\ \A m \in Members : DeliveryFits(m)
  BY DEF Init, EffectsFit, EffectOnce, DeliveryFits
<1>3. NothingSkipped /\ \A m \in Members : ProgressFits(m)
  BY DEF Init, NothingSkipped, NoOffset, ProgressFits, UpTo
<1> QED
  BY <1>1, <1>2, <1>3 DEF ConsumerInv, EffectInv

\* The message of a busy member.
LEMMA BusyEvent ==
  ASSUME EffectInv, NEW m \in Members, pc[m] # "IDLE"
  PROVE  at[m] \in 1 .. Len(log) /\ EventOf(m) \in Events
<1>1. at[m] \in 1 .. Len(log)
  BY DEF EffectInv, TypeOK, DeliveryFits
<1>2. log \in Seq(Events)
  BY DEF EffectInv, TypeOK
<1> QED
  BY <1>1, <1>2 DEF EventOf

\* What a retry leaves of a delivery.
LEMMA RetryTypes ==
  ASSUME TypeOK, NEW m \in Members, RetryOrBury(m), DeliveryFits(m),
         pc[m] \in {"HANDLING", "WORKING"}
  PROVE  /\ pc' \in [Members -> Place] /\ attempt' \in [Members -> 0 .. MaxAttempts]
         /\ pc'[m] \in {"HANDLING", "BURYING"}
         /\ pc'[m] = "HANDLING" => attempt'[m] < MaxAttempts
         /\ \A n \in Members \ {m} : pc'[n] = pc[n] /\ attempt'[n] = attempt[n]
  BY DEF RetryOrBury, Move, TypeOK, Place, DeliveryFits

\* Types are kept, and so is what a delivery needs.
LEMMA TypeStep ==
  ASSUME EffectInv, [Next]_vars
  PROVE  TypeOK' /\ \A m \in Members : DeliveryFits(m)'
<1> USE DEF EffectInv
<1>1. CASE UNCHANGED vars
  BY <1>1 DEF vars, memberVars, effectVars, boundVars, TypeOK, DeliveryFits
<1>2. ASSUME NEW e \in Events, Publish(e) PROVE TypeOK' /\ \A m \in Members : DeliveryFits(m)'
  BY <1>2 DEF Publish, memberVars, effectVars, boundVars, TypeOK, DeliveryFits
<1>3. ASSUME NEW m \in Members, Fetch(m)
      PROVE  TypeOK' /\ \A n \in Members : DeliveryFits(n)'
  BY <1>3 DEF Fetch, Move, memberVars, effectVars, boundVars, TypeOK, Place, DeliveryFits
<1>4. ASSUME NEW m \in Members, MarkProcessed(m) \/ SkipDuplicate(m)
      PROVE  TypeOK' /\ \A n \in Members : DeliveryFits(n)'
  BY <1>4 DEF MarkProcessed, SkipDuplicate, Move, effectVars, boundVars, TypeOK, Place,
              DeliveryFits
<1>5. ASSUME NEW m \in Members, CommitWork(m)
      PROVE  TypeOK' /\ \A n \in Members : DeliveryFits(n)'
  <2>1. EventOf(m) \in Events
    BY <1>5, BusyEvent DEF CommitWork
  <2>2. /\ processed' \subseteq Events /\ applied' \in Seq(Events)
        /\ UNCHANGED <<log, committed, origin, assigned, position, at, letters, boundVars>>
    BY <1>5, <2>1 DEF CommitWork, TypeOK
  <2>3. CASE Move(m, "COMMITTING") /\ UNCHANGED attempt
    BY <2>2, <2>3, <1>5 DEF CommitWork, Move, boundVars, TypeOK, Place, DeliveryFits
  <2>4. CASE RetryOrBury(m)
    BY <2>2, <2>4, <1>5, RetryTypes DEF CommitWork, boundVars, TypeOK, Place, DeliveryFits
  <2> QED
    BY <2>3, <2>4, <1>5 DEF CommitWork
<1>6. ASSUME NEW m \in Members, FailAttempt(m)
      PROVE  TypeOK' /\ \A n \in Members : DeliveryFits(n)'
  BY <1>6, RetryTypes DEF FailAttempt, effectVars, boundVars, TypeOK, Place, DeliveryFits
<1>7. ASSUME NEW m \in Members, Bury(m)
      PROVE  TypeOK' /\ \A n \in Members : DeliveryFits(n)'
  <2>1. at[m] \in 1 .. Len(log)
    BY <1>7, BusyEvent DEF Bury
  <2> QED
    BY <1>7, <2>1 DEF Bury, Move, effectVars, boundVars, TypeOK, Place, DeliveryFits
<1>8. ASSUME NEW m \in Members, FailToBury(m)
      PROVE  TypeOK' /\ \A n \in Members : DeliveryFits(n)'
  <2>1. unwritten' \subseteq 1 .. Len(log)
    BY <1>8, BusyEvent DEF FailToBury, TypeOK
  <2> QED
    BY <1>8, <2>1 DEF FailToBury, Move, effectVars, TypeOK, Place, DeliveryFits
<1>9. ASSUME NEW m \in Members, CommitOffset(m)
      PROVE  TypeOK' /\ \A n \in Members : DeliveryFits(n)'
  BY <1>9 DEF CommitOffset, OffsetOf, Move, effectVars, boundVars, TypeOK, Place, DeliveryFits
<1>10. ASSUME NEW m \in Members, FailToCommit(m)
       PROVE  TypeOK' /\ \A n \in Members : DeliveryFits(n)'
  <2>1. at[m] - 1 \in 0 .. Len(log)
    <3>1. at[m] \in 1 .. Len(log)
      BY <1>10, BusyEvent DEF FailToCommit
    <3>2. Len(log) \in Nat
      BY DEF TypeOK
    <3> QED
      BY <3>1, <3>2
  <2>2. position' \in [Members -> 0 .. Len(log)]
    BY <1>10, <2>1 DEF FailToCommit, TypeOK
  <2>3. disturbances' \in 0 .. MaxDisturbances /\ UNCHANGED unwritten
    BY <1>10 DEF FailToCommit, Disturb, boundVars, TypeOK
  <2> QED
    BY <1>10, <2>2, <2>3 DEF FailToCommit, Move, effectVars, TypeOK, Place, DeliveryFits
<1>11. ASSUME NEW m \in Members, Assign(m)
       PROVE  TypeOK' /\ \A n \in Members : DeliveryFits(n)'
  <2>1. StartPosition \in 0 .. Len(log)
    BY DEF StartPosition, TypeOK
  <2>2. position' \in [Members -> 0 .. Len(log)]
    BY <1>11, <2>1 DEF Assign, TypeOK
  <2>3. disturbances' \in 0 .. MaxDisturbances /\ UNCHANGED unwritten
    BY <1>11 DEF Assign, Disturb, boundVars, TypeOK
  <2>4. origin' \in 0 .. IF FromBeginning THEN 0 ELSE Len(log)
    BY <1>11 DEF Assign, StartPosition, TypeOK
  <2> QED
    BY <1>11, <2>2, <2>3, <2>4 DEF Assign, effectVars, TypeOK, DeliveryFits
<1>12. ASSUME NEW m \in Members, Crash(m)
       PROVE  TypeOK' /\ \A n \in Members : DeliveryFits(n)'
  BY <1>12 DEF Crash, Disturb, Move, effectVars, boundVars, TypeOK, Place, DeliveryFits
<1> QED
  BY <1>1, <1>2, <1>3, <1>4, <1>5, <1>6, <1>7, <1>8, <1>9, <1>10, <1>11, <1>12
  DEF Next, MemberStep, HandlerStep

\* The log only grows at its end, so a busy member keeps its message.
LEMMA LogGrows ==
  ASSUME EffectInv, [Next]_vars
  PROVE  /\ Len(log) <= Len(log')
         /\ \A k \in 1 .. Len(log) : log'[k] = log[k]
<1>1. CASE UNCHANGED log
  BY <1>1 DEF EffectInv, TypeOK
<1>2. ASSUME NEW e \in Events, Publish(e)
      PROVE  Len(log) <= Len(log') /\ \A k \in 1 .. Len(log) : log'[k] = log[k]
  BY <1>2 DEF Publish, EffectInv, TypeOK
<1> QED
  BY <1>1, <1>2
  DEF Next, MemberStep, HandlerStep, Fetch, MarkProcessed, SkipDuplicate, CommitWork,
      FailAttempt, Bury, FailToBury, CommitOffset, FailToCommit, Assign, Crash, vars

\* Who is in a transaction after a step that commits none.
LEMMA QuietEffects ==
  ASSUME EffectInv, [Next]_vars, UNCHANGED effectVars,
         \A m \in Members : pc'[m] = "WORKING" => pc[m] = "WORKING" /\ at'[m] = at[m]
  PROVE  EffectsFit' /\ EffectOnce'
<1>1. ASSUME NEW m \in Members, pc'[m] = "WORKING" PROVE EventOf(m)' = EventOf(m)
  <2>1. at[m] \in 1 .. Len(log) /\ at'[m] = at[m]
    BY <1>1, BusyEvent
  <2> QED
    BY <2>1, LogGrows DEF EventOf
<1> QED
  BY <1>1 DEF EffectInv, EffectsFit, EffectOnce, effectVars

LEMMA EffectStep ==
  ASSUME EffectInv, [Next]_vars
  PROVE  EffectsFit' /\ EffectOnce'
<1> USE DEF EffectInv
<1>1. CASE UNCHANGED vars
  BY <1>1, QuietEffects DEF vars, memberVars
<1>2. ASSUME NEW e \in Events, Publish(e) PROVE EffectsFit' /\ EffectOnce'
  BY <1>2, QuietEffects DEF Publish, memberVars
<1>3. ASSUME NEW m \in Members,
             \/ Fetch(m) \/ SkipDuplicate(m) \/ FailAttempt(m) \/ Bury(m) \/ FailToBury(m)
             \/ CommitOffset(m) \/ FailToCommit(m) \/ Assign(m) \/ Crash(m)
      PROVE  EffectsFit' /\ EffectOnce'
  <2>1. UNCHANGED effectVars
    BY <1>3 DEF Fetch, SkipDuplicate, FailAttempt, Bury, FailToBury, CommitOffset,
                FailToCommit, Assign, Crash, effectVars
  <2>2. \A n \in Members : pc'[n] = "WORKING" => pc[n] = "WORKING" /\ at'[n] = at[n]
    BY <1>3 DEF Fetch, SkipDuplicate, FailAttempt, Bury, FailToBury, CommitOffset,
                FailToCommit, Assign, Crash, RetryOrBury, Move, TypeOK
  <2> QED
    BY <2>1, <2>2, QuietEffects
<1>4. ASSUME NEW m \in Members, MarkProcessed(m) PROVE EffectsFit' /\ EffectOnce'
  <2>1. \A n \in Members : EventOf(n)' = EventOf(n)
    BY <1>4 DEF MarkProcessed, EventOf
  <2>2. \A n \in Members : pc'[n] = "WORKING" => n = m \/ pc[n] = "WORKING"
    BY <1>4 DEF MarkProcessed, Move, TypeOK
  <2>3. UNCHANGED effectVars
    BY <1>4 DEF MarkProcessed
  <2> QED
    BY <1>4, <2>1, <2>2, <2>3
    DEF MarkProcessed, InDoubt, EffectsFit, EffectOnce, effectVars
<1>5. ASSUME NEW m \in Members, CommitWork(m) PROVE EffectsFit' /\ EffectOnce'
  <2>1. /\ EventOf(m) \in Events /\ EventOf(m) \notin processed
        /\ \A n \in Members \ {m} : pc[n] = "WORKING" => EventOf(n) # EventOf(m)
    BY <1>5, BusyEvent DEF CommitWork, EffectsFit
  <2>2. \A n \in Members : EventOf(n)' = EventOf(n)
    BY <1>5 DEF CommitWork, EventOf
  <2>3. \A n \in Members : pc'[n] = "WORKING" => n # m /\ pc[n] = "WORKING"
    BY <1>5 DEF CommitWork, RetryOrBury, Move, TypeOK
  <2>4. /\ applied' = Append(applied, EventOf(m))
        /\ processed' = processed \cup {EventOf(m)}
    BY <1>5 DEF CommitWork
  <2>5. /\ DOMAIN applied' = DOMAIN applied \cup {Len(applied) + 1}
        /\ \A i \in DOMAIN applied : applied'[i] = applied[i]
        /\ applied'[Len(applied) + 1] = EventOf(m)
    BY <2>1, <2>4 DEF TypeOK
  <2>6. processed' = {applied'[i] : i \in DOMAIN applied'}
    BY <2>4, <2>5 DEF EffectsFit
  <2>7. EffectOnce'
    BY <2>1, <2>5 DEF EffectOnce, EffectsFit
  <2> QED
    BY <2>1, <2>2, <2>3, <2>4, <2>6, <2>7 DEF EffectsFit
<1> QED
  BY <1>1, <1>2, <1>3, <1>4, <1>5 DEF Next, MemberStep, HandlerStep

\* The part of the invariant that needs no assumption about faults.
THEOREM EffectInvariant == Spec => []EffectInv
<1>1. Init => EffectInv
  BY InitInv DEF ConsumerInv
<1>2. EffectInv /\ [Next]_vars => EffectInv'
  BY TypeStep, EffectStep DEF EffectInv
<1> QED
  BY <1>1, <1>2, PTL DEF Spec

\* Types, the log's bounds and the handler's budget.
THEOREM TypeCorrect == Spec => []TypeOK
BY EffectInvariant, PTL DEF EffectInv

\* Whatever is redelivered, reassigned, dead-lettered or skipped, an event takes
\* effect at most once.
THEOREM SingleEffect == Spec => []EffectOnce
BY EffectInvariant, PTL DEF EffectInv

-----------------------------------------------------------------------------
(* Gaps.                                                                   *)

\* The group may begin later, never earlier, and only until it has an offset.
LEMMA OriginGrows ==
  ASSUME EffectInv, [Next]_vars
  PROVE  /\ origin \in Nat /\ origin' \in Nat /\ origin <= origin'
         /\ origin' # origin => committed = NoOffset
<1>1. Len(log) \in Nat /\ origin \in Nat /\ origin \in 0 .. IF FromBeginning THEN 0 ELSE Len(log)
  BY DEF EffectInv, TypeOK
<1>2. CASE UNCHANGED origin
  BY <1>1, <1>2
<1>3. ASSUME NEW m \in Members, Assign(m), committed = NoOffset
      PROVE  origin' \in Nat /\ origin <= origin'
  BY <1>1, <1>3 DEF Assign, StartPosition
<1> QED
  BY <1>1, <1>2, <1>3
  DEF Next, MemberStep, HandlerStep, Publish, Fetch, MarkProcessed, SkipDuplicate, CommitWork,
      FailAttempt, Bury, FailToBury, CommitOffset, FailToCommit, Assign, Crash, vars

\* What is settled stays settled.
LEMMA SettledStays ==
  ASSUME EffectInv, [Next]_vars
  PROVE  /\ \A k \in 1 .. Len(log) : Settled(k) => Settled(k)'
         /\ \A k \in 0 .. Len(log) : UpTo(k) => UpTo(k)'
<1>1. letters \cup unwritten \subseteq letters' \cup unwritten'
  BY DEF Next, MemberStep, HandlerStep, Publish, Fetch, MarkProcessed, SkipDuplicate,
         CommitWork, FailAttempt, Bury, FailToBury, CommitOffset, FailToCommit, Assign, Crash,
         Disturb, boundVars, vars
<1>2. \A e \in Events : Applied(e) => Applied(e)'
  <2>1. CASE UNCHANGED applied
    BY <2>1 DEF Applied
  <2>2. ASSUME NEW m \in Members, CommitWork(m), NEW e \in Events, Applied(e)
        PROVE  Applied(e)'
    <3>1. applied' = Append(applied, EventOf(m)) /\ EventOf(m) \in Events
      BY <2>2, BusyEvent DEF CommitWork
    <3>2. DOMAIN applied \subseteq DOMAIN applied' /\ \A i \in DOMAIN applied : applied'[i] = applied[i]
      BY <3>1 DEF EffectInv, TypeOK
    <3> QED
      BY <2>2, <3>2 DEF Applied
  <2> QED
    BY <2>1, <2>2
    DEF Next, MemberStep, HandlerStep, Publish, Fetch, MarkProcessed, SkipDuplicate,
        FailAttempt, Bury, FailToBury, CommitOffset, FailToCommit, Assign, Crash, vars,
        effectVars
<1>3. \A k \in 1 .. Len(log) : log[k] \in Events /\ log'[k] = log[k]
  <2>1. \A k \in 1 .. Len(log) : log'[k] = log[k]
    BY LogGrows
  <2>2. log \in Seq(Events)
    BY DEF EffectInv, TypeOK
  <2> QED
    BY <2>1, <2>2
<1>4. \A k \in 1 .. Len(log) : Settled(k) => Settled(k)'
  BY <1>1, <1>2, <1>3 DEF Settled
<1>5. ASSUME NEW k \in 0 .. Len(log), UpTo(k) PROVE UpTo(k)'
  <2>1. Len(log) \in Nat
    BY DEF EffectInv, TypeOK
  <2> QED
    BY <1>4, <1>5, <2>1, OriginGrows DEF UpTo
<1> QED
  BY <1>4, <1>5

\* One more settled message.
LEMMA OneMore ==
  ASSUME origin \in Nat, NEW k \in Nat \ {0}, UpTo(k - 1), Settled(k)
  PROVE  UpTo(k)
BY DEF UpTo

\* A step after which m is where it was, has what it had and knows what it knew.
LEMMA StandsStill ==
  ASSUME ConsumerInv, [Next]_vars, NEW m \in Members,
         pc'[m] = pc[m], at'[m] = at[m],
         assigned' = m => assigned = m /\ position'[m] = position[m]
  PROVE  ProgressFits(m)'
<1>1. /\ at[m] \in 0 .. Len(log) /\ position[m] \in 0 .. Len(log) /\ Len(log) \in Nat
      /\ pc[m] # "IDLE" => at[m] \in 1 .. Len(log)
  BY BusyEvent DEF ConsumerInv, EffectInv, TypeOK
<1>2. pc'[m] # "IDLE" => UpTo(at[m] - 1)'
  BY <1>1, SettledStays DEF ConsumerInv, ProgressFits
<1>3. pc'[m] = "COMMITTING" => Settled(at[m])'
  BY <1>1, SettledStays DEF ConsumerInv, ProgressFits
<1>4. assigned' = m /\ UpTo(position[m]) => UpTo(position[m])'
  BY <1>1, SettledStays DEF ConsumerInv
<1> QED
  BY <1>2, <1>3, <1>4 DEF ConsumerInv, ProgressFits, UpTo, Settled

\* A busy member that stays busy with its message.
LEMMA StaysBusy ==
  ASSUME ConsumerInv, [Next]_vars, NEW m \in Members,
         pc[m] # "IDLE", pc'[m] # "IDLE", UNCHANGED <<at, assigned, position>>,
         pc'[m] = "COMMITTING" => Settled(at[m])'
  PROVE  ProgressFits(m)'
<1>1. at[m] \in 1 .. Len(log) /\ position[m] \in 0 .. Len(log) /\ Len(log) \in Nat
  BY BusyEvent DEF ConsumerInv, EffectInv, TypeOK
<1>2. UpTo(at[m] - 1)'
  BY <1>1, SettledStays DEF ConsumerInv, ProgressFits
<1>3. UpTo(position[m]) => UpTo(position[m])'
  BY <1>1, SettledStays DEF ConsumerInv
<1> QED
  BY <1>2, <1>3 DEF ConsumerInv, ProgressFits, UpTo, Settled

\* The committed offset stays behind what is settled unless it is moved.
LEMMA OffsetStands ==
  ASSUME ConsumerInv, [Next]_vars, UNCHANGED committed
  PROVE  NothingSkipped'
<1>1. committed # NoOffset => committed \in 0 .. Len(log)
  BY DEF ConsumerInv, EffectInv, TypeOK
<1> QED
  BY <1>1, SettledStays DEF ConsumerInv, NothingSkipped, UpTo, Settled

\* The other members of the group.
LEMMA OthersStand ==
  ASSUME ConsumerInv, [Next]_vars, NEW m \in Members, NEW n \in Members \ {m},
         MemberStep(m) \/ Assign(m) \/ Crash(m)
  PROVE  ProgressFits(n)'
<1>1. /\ pc'[n] = pc[n] /\ at'[n] = at[n]
      /\ assigned' = n => assigned = n /\ position'[n] = position[n]
  BY DEF MemberStep, HandlerStep, Fetch, MarkProcessed, SkipDuplicate, CommitWork,
         FailAttempt, Bury, FailToBury, CommitOffset, FailToCommit, Assign, Crash,
         RetryOrBury, Move, ConsumerInv, EffectInv, TypeOK
<1> QED
  BY <1>1, StandsStill

\* Everything before the message a member fetches is settled.
LEMMA FetchStep ==
  ASSUME ConsumerInv, [Next]_vars, NEW m \in Members, Fetch(m)
  PROVE  NothingSkipped' /\ ProgressFits(m)'
<1>1. NothingSkipped'
  BY OffsetStands DEF Fetch
<1>2. UpTo(position[m]) /\ position[m] \in 0 .. Len(log)
  BY DEF Fetch, ConsumerInv, ProgressFits, EffectInv, TypeOK
<1>3. /\ pc'[m] \in {"HANDLING", "BURYING"}
      /\ at'[m] = position[m] + 1 /\ position'[m] = position[m] + 1
  BY DEF Fetch, Move, ConsumerInv, EffectInv, TypeOK
<1>4. \A k \in 0 .. Len(log) : UpTo(k) => UpTo(k)'
  BY SettledStays DEF ConsumerInv
<1>5. PICK k \in 0 .. Len(log) : k = position[m]
  BY <1>2
<1>6. at'[m] - 1 = k /\ UpTo(k)'
  BY <1>2, <1>3, <1>4, <1>5
<1> QED
  BY <1>1, <1>3, <1>6 DEF ProgressFits, UpTo, Settled

\* The handler, or the dead letter, settles the message or leaves it open.
LEMMA SettleStep ==
  ASSUME ConsumerInv, [Next]_vars, NEW m \in Members, HandlerStep(m) \/ Bury(m)
  PROVE  NothingSkipped' /\ ProgressFits(m)'
<1>1. NothingSkipped'
  BY OffsetStands
  DEF HandlerStep, MarkProcessed, SkipDuplicate, CommitWork, FailAttempt, Bury
<1>2. UNCHANGED <<log, at, assigned, position>>
  BY DEF HandlerStep, MarkProcessed, SkipDuplicate, CommitWork, FailAttempt, Bury
<1>3. pc[m] # "IDLE" /\ pc'[m] # "IDLE"
  BY DEF HandlerStep, MarkProcessed, SkipDuplicate, CommitWork, FailAttempt, Bury,
         RetryOrBury, Move, ConsumerInv, EffectInv, TypeOK
<1>4. ASSUME pc'[m] = "COMMITTING" PROVE Settled(at[m])'
  <2>1. CASE SkipDuplicate(m)
    <3>1. Applied(EventOf(m)) /\ UNCHANGED applied
      BY <2>1 DEF SkipDuplicate, effectVars, ConsumerInv, EffectInv, EffectsFit, Applied
    <3> QED
      BY <3>1, <1>2 DEF Applied, Settled, EventOf
  <2>2. CASE CommitWork(m)
    <3>1. applied' = Append(applied, EventOf(m)) /\ EventOf(m) \in Events
      BY <2>2, BusyEvent DEF CommitWork, ConsumerInv
    <3>2. applied \in Seq(Events)
      BY DEF ConsumerInv, EffectInv, TypeOK
    <3>3. Len(applied) + 1 \in DOMAIN applied' /\ applied'[Len(applied) + 1] = EventOf(m)
      BY <3>1, <3>2
    <3> QED
      BY <3>3, <1>2 DEF Applied, Settled, EventOf
  <2>3. CASE Bury(m)
    BY <2>3, <1>2 DEF Bury, Settled
  <2>4. ~MarkProcessed(m) /\ ~FailAttempt(m)
    BY <1>4 DEF MarkProcessed, FailAttempt, RetryOrBury, Move, ConsumerInv, EffectInv, TypeOK
  <2> QED
    BY <2>1, <2>2, <2>3, <2>4 DEF HandlerStep
<1> QED
  BY <1>1, <1>2, <1>3, <1>4, StaysBusy

\* The offset that is committed has everything settled before it.
LEMMA OffsetStep ==
  ASSUME ConsumerInv, [Next]_vars, NEW m \in Members, CommitOffset(m)
  PROVE  NothingSkipped' /\ ProgressFits(m)'
<1>1. /\ at[m] \in 1 .. Len(log) /\ Len(log) \in Nat /\ position[m] \in 0 .. Len(log)
      /\ UpTo(at[m] - 1) /\ Settled(at[m]) /\ assigned = m
      /\ UpTo(position[m]) \/ position[m] = at[m]
  BY BusyEvent DEF CommitOffset, ConsumerInv, ProgressFits, EffectInv, TypeOK
<1>2. UpTo(at[m])
  BY <1>1, OneMore, OriginGrows DEF ConsumerInv
<1>3. /\ UNCHANGED <<log, origin, applied, letters, unwritten, position>>
      /\ committed' = at[m] /\ pc'[m] = "IDLE"
  BY DEF CommitOffset, OffsetOf, Move, effectVars, boundVars, ConsumerInv, EffectInv, TypeOK
<1> QED
  BY <1>1, <1>2, <1>3 DEF NothingSkipped, ProgressFits, UpTo, Settled, Applied

\* A refused commit goes back to the message.
LEMMA SeekStep ==
  ASSUME ConsumerInv, [Next]_vars, NEW m \in Members, FailToCommit(m)
  PROVE  NothingSkipped' /\ ProgressFits(m)'
<1>1. UpTo(at[m] - 1)
  BY DEF FailToCommit, ConsumerInv, ProgressFits
<1>2. /\ UNCHANGED <<log, committed, origin, applied, letters, unwritten>>
      /\ position'[m] = at[m] - 1 /\ pc'[m] = "IDLE"
  BY DEF FailToCommit, Disturb, Move, effectVars, boundVars, ConsumerInv, EffectInv, TypeOK
<1> QED
  BY <1>1, <1>2, OffsetStands DEF ProgressFits, UpTo, Settled, Applied

\* A new assignment starts behind what is settled.
LEMMA AssignStep ==
  ASSUME ConsumerInv, [Next]_vars, NEW m \in Members, Assign(m)
  PROVE  NothingSkipped' /\ ProgressFits(m)'
<1>1. /\ UNCHANGED <<log, committed, applied, letters, unwritten, pc, at>>
      /\ position'[m] = StartPosition /\ assigned' = m
  BY DEF Assign, Disturb, effectVars, boundVars, ConsumerInv, EffectInv, TypeOK
<1>2. NothingSkipped'
  BY <1>1, OffsetStands
<1>3. UpTo(position[m])'
  <2>1. CASE committed = NoOffset
    BY <1>1, <2>1 DEF Assign, UpTo, StartPosition, ConsumerInv, EffectInv, TypeOK
  <2>2. CASE committed # NoOffset
    BY <1>1, <1>2, <2>2 DEF StartPosition, NothingSkipped, UpTo, Settled, Applied
  <2> QED BY <2>1, <2>2
<1>4. pc'[m] # "IDLE" => UpTo(at[m] - 1)'
  <2>1. ASSUME pc[m] # "IDLE" PROVE UpTo(at[m] - 1)'
    <3>1. at[m] - 1 \in 0 .. Len(log)
      BY <2>1, BusyEvent DEF ConsumerInv, EffectInv, TypeOK
    <3>2. UpTo(at[m] - 1)
      BY <2>1 DEF ConsumerInv, ProgressFits
    <3>3. PICK k \in 0 .. Len(log) : k = at[m] - 1
      BY <3>1
    <3>4. UpTo(k)'
      BY <3>2, <3>3, SettledStays DEF ConsumerInv
    <3> QED BY <1>1, <3>3, <3>4
  <2> QED BY <1>1, <2>1
<1>5. pc'[m] = "COMMITTING" => Settled(at[m])'
  BY <1>1 DEF ConsumerInv, ProgressFits, Settled, Applied
<1> QED
  BY <1>1, <1>2, <1>3, <1>4, <1>5 DEF ProgressFits

\* A message whose dead letter is not written counts as settled, and is passed.
LEMMA FailToBuryStep ==
  ASSUME ConsumerInv, [Next]_vars, NEW m \in Members, FailToBury(m)
  PROVE  NothingSkipped' /\ ProgressFits(m)'
<1>1. /\ at[m] \in 1 .. Len(log) /\ Len(log) \in Nat /\ position[m] \in 0 .. Len(log)
      /\ UpTo(at[m] - 1)
      /\ assigned = m => UpTo(position[m]) \/ position[m] = at[m]
  BY BusyEvent DEF FailToBury, ConsumerInv, ProgressFits, EffectInv, TypeOK
<1>2. /\ UNCHANGED <<committed, assigned, position, at>> /\ pc'[m] = "IDLE"
      /\ at[m] \in unwritten'
  BY DEF FailToBury, Move, ConsumerInv, EffectInv, TypeOK
<1>3. Settled(at[m])' /\ UpTo(at[m] - 1)'
  <2>1. at[m] - 1 \in 0 .. Len(log)
    BY <1>1
  <2>2. UpTo(at[m] - 1)'
    BY <1>1, <1>2, <2>1, SettledStays DEF ConsumerInv
  <2> QED
    BY <1>2, <2>2 DEF Settled
<1>4. UpTo(at[m])'
  BY <1>1, <1>2, <1>3 DEF UpTo
<1>5. UpTo(position[m]) => UpTo(position[m])'
  BY <1>1, <1>2, SettledStays DEF ConsumerInv
<1> QED
  BY <1>1, <1>2, <1>4, <1>5, OffsetStands DEF ProgressFits

LEMMA CrashStep ==
  ASSUME ConsumerInv, [Next]_vars, NEW m \in Members, Crash(m)
  PROVE  NothingSkipped' /\ ProgressFits(m)'
<1>1. UNCHANGED committed /\ pc'[m] = "IDLE" /\ assigned' # m
  BY DEF Crash, Move, ConsumerInv, EffectInv, TypeOK
<1> QED
  BY <1>1, OffsetStands DEF ProgressFits

LEMMA ConsumerStep ==
  ASSUME ConsumerInv, [Next]_vars
  PROVE  ConsumerInv'
<1>1. EffectInv'
  BY TypeStep, EffectStep DEF ConsumerInv, EffectInv
<1>2. ASSUME UNCHANGED vars \/ \E e \in Events : Publish(e)
      PROVE  NothingSkipped' /\ \A m \in Members : ProgressFits(m)'
  <2>1. UNCHANGED <<committed, pc, at, assigned, position>>
    BY <1>2 DEF vars, memberVars, Publish
  <2> QED
    BY <2>1, OffsetStands, StandsStill
<1>3. ASSUME NEW m \in Members, MemberStep(m) \/ Assign(m) \/ Crash(m)
      PROVE  NothingSkipped' /\ ProgressFits(m)'
  BY <1>3, FetchStep, SettleStep, FailToBuryStep, OffsetStep, SeekStep, AssignStep, CrashStep
  DEF MemberStep
<1>4. NothingSkipped' /\ \A m \in Members : ProgressFits(m)'
  BY <1>2, <1>3, OthersStand DEF Next
<1> QED
  BY <1>1, <1>4 DEF ConsumerInv

\* The whole invariant: deliveries, offsets and effects fit together.
THEOREM ConsumerInvariant == Spec => []ConsumerInv
<1>1. ConsumerInv /\ [Next]_vars => ConsumerInv'
  BY ConsumerStep
<1> QED
  BY InitInv, <1>1, PTL DEF Spec

\* From where the group began, no message below the committed offset is without an
\* effect, unless a dead letter of it was at least tried.
THEOREM NoGaps == Spec => []NothingSkipped
BY ConsumerInvariant, PTL DEF ConsumerInv

-----------------------------------------------------------------------------
(* The contract.                                                           *)

LEMMA ContractInit == Init => Contract!Init
BY DEF Init, Contract!Init

\* The contract's operators are those of the consumer.
LEMMA SameOperators ==
  /\ \A e : Contract!Applied(e) <=> Applied(e)
  /\ \A k : Contract!Settled(k) <=> Settled(k)
  /\ \A k : Contract!UpTo(k) <=> UpTo(k)
BY DEF Contract!Applied, Applied, Contract!Settled, Settled, Contract!UpTo, UpTo

LEMMA ContractStep ==
  ASSUME ConsumerInv, [Next]_vars
  PROVE  [Contract!Next]_(Contract!vars)
<1>1. CASE UNCHANGED <<log, applied, letters, unwritten, origin, committed>>
  BY <1>1 DEF Contract!vars
<1>2. ASSUME NEW e \in Events, Publish(e) PROVE Contract!Next
  BY <1>2 DEF Publish, effectVars, boundVars, Contract!Next, Contract!Publish
<1>3. ASSUME NEW m \in Members, CommitWork(m) PROVE Contract!Next
  <2>1. at[m] \in DOMAIN log /\ UpTo(at[m] - 1)
    BY <1>3, BusyEvent DEF CommitWork, ConsumerInv, EffectInv, TypeOK, ProgressFits
  <2>2. ~Applied(EventOf(m))
    BY <1>3 DEF CommitWork, ConsumerInv, EffectInv, EffectsFit, Applied
  <2>3. Contract!Apply(at[m])
    BY <1>3, <2>1, <2>2, SameOperators DEF CommitWork, EventOf, boundVars, Contract!Apply
  <2> QED
    BY <2>1, <2>3 DEF Contract!Next
<1>4. ASSUME NEW m \in Members, Bury(m) \/ FailToBury(m) PROVE Contract!Next
  <2>1. at[m] \in DOMAIN log /\ UpTo(at[m] - 1)
    BY <1>4, BusyEvent DEF Bury, FailToBury, ConsumerInv, EffectInv, TypeOK, ProgressFits
  <2>2. (letters \cup unwritten)' = letters \cup unwritten \cup {at[m]}
    BY <1>4 DEF Bury, FailToBury, boundVars
  <2>3. Contract!Bury(at[m])
    BY <1>4, <2>1, <2>2, SameOperators DEF Bury, FailToBury, effectVars, Contract!Bury
  <2> QED
    BY <2>1, <2>3 DEF Contract!Next
<1>5. ASSUME NEW m \in Members, CommitOffset(m) PROVE Contract!Next
  <2>1. at[m] # NoOffset
    BY <1>5 DEF CommitOffset, NoOffset, ConsumerInv, EffectInv, TypeOK
  <2>2. Contract!Commit
    BY <1>5, <2>1 DEF CommitOffset, OffsetOf, effectVars, boundVars, Contract!Commit
  <2> QED
    BY <2>2 DEF Contract!Next
<1>6. ASSUME NEW m \in Members, Assign(m) PROVE [Contract!Next]_(Contract!vars)
  <2>1. UNCHANGED <<log, applied, letters, unwritten, committed>>
    BY <1>6 DEF Assign, Disturb, effectVars, boundVars
  <2>2. CASE committed = NoOffset
    <3>1. origin' \in origin .. Len(log)
      BY <1>6, <2>2, OriginGrows DEF Assign, StartPosition, ConsumerInv, EffectInv, TypeOK
    <3>2. Contract!Begin
      BY <2>1, <2>2, <3>1 DEF Contract!Begin
    <3> QED
      BY <3>2 DEF Contract!Next
  <2>3. CASE committed # NoOffset
    BY <1>6, <2>1, <2>3 DEF Assign, Contract!vars
  <2> QED BY <2>2, <2>3
<1> QED
  BY <1>1, <1>2, <1>3, <1>4, <1>5, <1>6
  DEF Next, MemberStep, HandlerStep, Fetch, MarkProcessed, SkipDuplicate, FailAttempt,
      FailToCommit, Crash, Disturb, vars, effectVars, boundVars

\* The consumer keeps its contract: log order, no gaps, single effects.
THEOREM ImplementsDelivery == Spec => KeepsDelivery
<1>1. ConsumerInv /\ [Next]_vars => [Contract!Next]_(Contract!vars)
  BY ContractStep
<1> QED
  BY ConsumerInvariant, ContractInit, <1>1, PTL DEF Spec, KeepsDelivery, Contract!Spec
=============================================================================
