------------------------- MODULE OutboxRelayProofs -------------------------
(***************************************************************************)
(* OutboxRelay for any replicas, batches, rows and number of faults.  A    *)
(* marked row was produced whatever fails (RelayInv); one replica drains   *)
(* at a time, and rows are produced in their order, until a session is     *)
(* lost (OrderInv).                                                        *)
(***************************************************************************)
EXTENDS OutboxRelay, WellFoundedInduction, FiniteSetTheorems, TLAPS

USE ReplicasAssumption, BatchSizeAssumption, BackoffAssumption, BoundsAssumption

\* A set of rows that is not empty has an oldest one.
LEMMA LowestIn ==
  ASSUME NEW S \in SUBSET Nat, S # {}
  PROVE  Lowest(S) \in S /\ \A j \in S : Lowest(S) <= j
<1>1. PICK x \in S : \A y \in S : ~ (<<y, x>> \in OpToRel(<, Nat))
  BY NatLessThanWellFounded, WFMin
<1>2. ASSUME NEW y \in S PROVE x <= y
  <2>1. x \in Nat /\ y \in Nat
    OBVIOUS
  <2>2. ~ (<<y, x>> \in OpToRel(<, Nat))
    BY <1>1
  <2>3. ~ (y < x)
    BY <2>1, <2>2 DEF OpToRel
  <2> QED
    BY <2>1, <2>3
<1> QED
  BY <1>2 DEF Lowest

\* The row a drain produces next.
LEMMA NextRow ==
  ASSUME TypeOK, NEW r \in Replicas, DrainFits(r), sent[r] # batch[r]
  PROVE  LET i == Lowest(batch[r] \ sent[r])
         IN  /\ i \in batch[r] /\ i \notin sent[r] /\ i \in 1 .. rows
             /\ \A j \in batch[r] : j < i => j \in sent[r]
<1> DEFINE S == batch[r] \ sent[r]
<1>1. batch[r] \subseteq 1 .. rows /\ rows \in Nat
  BY DEF TypeOK
<1>2. S # {} /\ S \in SUBSET Nat
  BY <1>1 DEF DrainFits
<1>3. Lowest(S) \in S /\ \A j \in S : Lowest(S) <= j
  <2> HIDE DEF S
  <2> QED
    BY <1>2, LowestIn
<1> QED
  BY <1>1, <1>3

\* Counting a fault respects the bounds.
LEMMA FaultTypes ==
  ASSUME TypeOK, Fault
  PROVE  faults' \in 0 .. MaxFaults /\ lost' = lost /\ stops' = stops
<1>1. faults \in 0 .. MaxFaults /\ MaxFaults \in Nat
  BY DEF TypeOK
<1>2. faults < MaxFaults /\ faults' = faults + 1 /\ lost' = lost /\ stops' = stops
  BY DEF Fault
<1> QED
  BY <1>1, <1>2

\* What a tick leaves behind is well-typed.
LEMMA RearmTypes ==
  ASSUME TypeOK, NEW r \in Replicas, NEW error \in BOOLEAN, Rearm(r, error)
  PROVE  pc' \in [Replicas -> Place] /\ backoff' \in [Replicas -> Interval .. MaxBackoff]
<1>1. NextBackoff(r) \in Interval .. MaxBackoff
  BY DEF NextBackoff, TypeOK
<1>2. pc' \in [Replicas -> Place]
  BY DEF Rearm, Move, TypeOK, Place
<1>3. Interval \in Interval .. MaxBackoff
  OBVIOUS
<1> QED
  BY <1>1, <1>2, <1>3 DEF Rearm, TypeOK

\* What a drain leaves behind is well-typed.
LEMMA EndDrainTypes ==
  ASSUME TypeOK, NEW r \in Replicas, NEW error \in BOOLEAN, EndDrain(r, error)
  PROVE  /\ pc' \in [Replicas -> Place] /\ failed' \in [Replicas -> BOOLEAN]
         /\ batch' \in [Replicas -> SUBSET (1 .. rows)]
         /\ sent' \in [Replicas -> SUBSET (1 .. rows)]
  BY DEF EndDrain, Move, TypeOK, Place

\* Types are kept.
LEMMA TypeStep ==
  ASSUME RelayInv, [Next]_vars
  PROVE  TypeOK'
<1> USE DEF RelayInv
<1>1. CASE UNCHANGED vars
  BY <1>1 DEF vars, tableVars, drainVars, tickVars, boundVars, TypeOK
<1>2. CASE CommitRow
  <2>1. rows \in Nat /\ 1 .. rows \subseteq 1 .. rows'
    BY <1>2 DEF CommitRow, TypeOK
  <2>2. rows' \in 0 .. MaxRows /\ marked' \subseteq 1 .. rows' /\ log' \in Seq(1 .. rows')
    BY <1>2, <2>1 DEF CommitRow, TypeOK
  <2>3. batch' \in [Replicas -> SUBSET (1 .. rows')] /\ sent' \in [Replicas -> SUBSET (1 .. rows')]
    BY <1>2, <2>1 DEF CommitRow, drainVars, TypeOK
  <2> QED
    BY <1>2, <2>2, <2>3 DEF CommitRow, tickVars, boundVars, TypeOK
<1>3. ASSUME NEW r \in Replicas, Start(r) PROVE TypeOK'
  <2>1. Interval \in Interval .. MaxBackoff
    OBVIOUS
  <2> QED
    BY <1>3, <2>1 DEF Start, Move, tableVars, drainVars, boundVars, TypeOK, Place
<1>4. ASSUME NEW r \in Replicas, Stop(r) PROVE TypeOK'
  <2>1. pc' \in [Replicas -> Place] /\ stopped' \subseteq Replicas
    BY <1>4 DEF Stop, Move, TypeOK, Place
  <2>2. stops' \in 0 .. MaxStops
    BY <1>4 DEF Stop, TypeOK
  <2> QED
    BY <1>4, <2>1, <2>2 DEF Stop, tableVars, drainVars, tickVars, TypeOK
<1>5. ASSUME NEW r \in Replicas, Fire(r) \/ TryLock(r) \/ EndFetch(r) PROVE TypeOK'
  <2>1. pc' \in [Replicas -> Place] /\ lock' \in Replicas \cup {Nobody}
    BY <1>5 DEF Fire, TryLock, EndFetch, Move, TypeOK, Place
  <2>2. UNCHANGED <<rows, marked, attempts, log, batch, sent, failed, backoff, stopped, faults,
                    lost, stops>>
    BY <1>5 DEF Fire, TryLock, EndFetch, tableVars, drainVars, tickVars, boundVars
  <2> QED
    BY <2>1, <2>2 DEF TypeOK
<1>6. ASSUME NEW r \in Replicas, SkipTick(r) \/ FailToLock(r) PROVE TypeOK'
  <2>1. pc' \in [Replicas -> Place] /\ backoff' \in [Replicas -> Interval .. MaxBackoff]
    BY <1>6, RearmTypes DEF SkipTick, FailToLock
  <2>2. faults' \in 0 .. MaxFaults /\ lost' = lost /\ stops' = stops
    BY <1>6, FaultTypes DEF SkipTick, FailToLock, boundVars, TypeOK
  <2> QED
    BY <1>6, <2>1, <2>2 DEF SkipTick, FailToLock, tableVars, drainVars, TypeOK
<1>7. ASSUME NEW r \in Replicas, Unlock(r) PROVE TypeOK'
  <2>1. (failed[r] \/ lock # r) \in BOOLEAN
    OBVIOUS
  <2>2. pc' \in [Replicas -> Place] /\ backoff' \in [Replicas -> Interval .. MaxBackoff]
    BY <1>7, RearmTypes DEF Unlock
  <2> QED
    BY <1>7, <2>2 DEF Unlock, tableVars, drainVars, boundVars, TypeOK
<1>8. ASSUME NEW r \in Replicas, LoseSession(r) PROVE TypeOK'
  BY <1>8 DEF LoseSession, tableVars, drainVars, tickVars, TypeOK
<1>9. ASSUME NEW r \in Replicas, FetchUnpublished(r) PROVE TypeOK'
  <2> DEFINE found == OldestOf((1 .. rows) \ (marked \cup LockedRows))
  <2>1. found \subseteq 1 .. rows
    BY DEF OldestOf
  <2>2. CASE EndDrain(r, FALSE)
    BY <1>9, <2>2, EndDrainTypes DEF FetchUnpublished, tableVars, boundVars, TypeOK
  <2>3. CASE Move(r, "FETCHING") /\ batch' = [batch EXCEPT ![r] = found]
             /\ UNCHANGED <<sent, failed>>
    <3> HIDE DEF found
    <3> QED
      BY <1>9, <2>1, <2>3 DEF FetchUnpublished, Move, tableVars, boundVars, TypeOK, Place
  <2> QED
    BY <1>9, <2>2, <2>3 DEF FetchUnpublished
<1>10. ASSUME NEW r \in Replicas, FailToFetch(r) PROVE TypeOK'
  BY <1>10, EndDrainTypes, FaultTypes DEF FailToFetch, tableVars, TypeOK
<1>11. ASSUME NEW r \in Replicas, Produce(r) PROVE TypeOK'
  <2>1. PICK i \in 1 .. rows : i = Lowest(batch[r] \ sent[r])
    BY <1>11, NextRow DEF Produce
  <2>2. log \in Seq(1 .. rows) /\ log' = Append(log, i)
        /\ sent' = [sent EXCEPT ![r] = @ \cup {i}]
    BY <1>11, <2>1 DEF Produce, TypeOK
  <2>3. log' \in Seq(1 .. rows)
    BY <2>2
  <2>4. sent' \in [Replicas -> SUBSET (1 .. rows)]
    BY <2>1, <2>2 DEF TypeOK
  <2> QED
    BY <1>11, <2>3, <2>4 DEF Produce, tableVars, tickVars, boundVars, TypeOK
<1>12. ASSUME NEW r \in Replicas, FailToProduce(r) PROVE TypeOK'
  <2>1. attempts \in [1 .. MaxRows -> Nat]
    BY DEF TypeOK
  <2>2. attempts' \in [1 .. MaxRows -> Nat]
    <3>1. CASE UNCHANGED attempts
      BY <2>1, <3>1
    <3>2. CASE attempts' = [i \in 1 .. MaxRows |-> IF i \in batch[r] THEN attempts[i] + 1
                                                   ELSE attempts[i]]
      BY <2>1, <3>2
    <3> QED
      BY <1>12, <3>1, <3>2 DEF FailToProduce
  <2> QED
    BY <1>12, <2>2, EndDrainTypes, FaultTypes DEF FailToProduce, TypeOK
<1>13. ASSUME NEW r \in Replicas, MarkPublished(r) \/ FailToMark(r) PROVE TypeOK'
  <2>1. marked' \subseteq 1 .. rows
    BY <1>13 DEF MarkPublished, FailToMark, TypeOK
  <2>2. EndDrain(r, FALSE) \/ EndDrain(r, TRUE)
    BY <1>13 DEF MarkPublished, FailToMark
  <2>3. /\ pc' \in [Replicas -> Place] /\ failed' \in [Replicas -> BOOLEAN]
        /\ batch' \in [Replicas -> SUBSET (1 .. rows)]
        /\ sent' \in [Replicas -> SUBSET (1 .. rows)]
    BY <2>2, EndDrainTypes
  <2>4. faults' \in 0 .. MaxFaults /\ lost' = lost /\ stops' = stops
    BY <1>13, FaultTypes DEF MarkPublished, FailToMark, boundVars, TypeOK
  <2> QED
    BY <1>13, <2>1, <2>3, <2>4 DEF MarkPublished, FailToMark, TypeOK
<1>14. ASSUME NEW r \in Replicas, Crash(r) PROVE TypeOK'
  BY <1>14, FaultTypes DEF Crash, Move, tableVars, tickVars, TypeOK, Place
<1> QED
  BY <1>1, <1>2, <1>3, <1>4, <1>5, <1>6, <1>7, <1>8, <1>9, <1>10, <1>11, <1>12, <1>13, <1>14
  DEF Next, TickStep, DrainStep

\* The log only grows, so what was produced stays produced.
LEMMA ProducedLasts ==
  ASSUME RelayInv, [Next]_vars, NEW i, Produced(i)
  PROVE  Produced(i)'
<1>1. CASE log' = log
  BY <1>1 DEF Produced
<1>2. ASSUME NEW r \in Replicas, Produce(r) PROVE Produced(i)'
  <2>1. PICK j \in 1 .. rows : j = Lowest(batch[r] \ sent[r])
    BY <1>2, NextRow DEF Produce, RelayInv
  <2>2. log \in Seq(1 .. rows) /\ log' = Append(log, j)
    BY <1>2, <2>1 DEF Produce, RelayInv, TypeOK
  <2> QED
    BY <2>2 DEF Produced
<1> QED
  BY <1>1, <1>2
  DEF Next, TickStep, DrainStep, vars, CommitRow, Start, Stop, Fire, TryLock, SkipTick, FailToLock,
      Unlock, LoseSession, FetchUnpublished, FailToFetch, EndFetch, FailToProduce, MarkPublished,
      FailToMark, Crash

\* What a drain has sent is produced, and only what it has sent is marked.
LEMMA ProducedStep ==
  ASSUME RelayInv, [Next]_vars
  PROVE  MarkedWasProduced' /\ \A r \in Replicas : DrainFits(r)'
<1> USE DEF RelayInv
<1> DEFINE Goal == MarkedWasProduced' /\ \A r \in Replicas : DrainFits(r)'
<1>1. ASSUME NEW r \in Replicas, NEW error, EndDrain(r, error)
      PROVE  \A s \in Replicas : DrainFits(s)'
  BY <1>1, ProducedLasts DEF EndDrain, Move, TypeOK, DrainFits
<1>2. ASSUME UNCHANGED marked PROVE MarkedWasProduced'
  BY <1>2, ProducedLasts DEF MarkedWasProduced
<1>3. ASSUME UNCHANGED drainVars, NEW r \in Replicas,
             pc'[r] # pc[r] => pc[r] \notin {"FETCHING", "PRODUCING"} \/ pc'[r] = "PRODUCING"
      PROVE  DrainFits(r)'
  BY <1>3, ProducedLasts DEF drainVars, DrainFits
<1>4. CASE UNCHANGED <<drainVars, pc, marked>>
  BY <1>2, <1>3, <1>4
<1>5. ASSUME NEW r \in Replicas, Start(r) \/ Stop(r) \/ TickStep(r) \/ EndFetch(r) \/ LoseSession(r)
      PROVE  Goal
  <2>1. UNCHANGED <<drainVars, marked>>
    BY <1>5 DEF Start, Stop, TickStep, Fire, TryLock, SkipTick, FailToLock, Unlock, EndFetch,
                LoseSession, tableVars, drainVars
  <2>2. \A s \in Replicas :
          pc'[s] # pc[s] => pc[s] \notin {"FETCHING", "PRODUCING"} \/ pc'[s] = "PRODUCING"
    BY <1>5 DEF Start, Stop, TickStep, Fire, TryLock, SkipTick, FailToLock, Unlock, Rearm, EndFetch,
                LoseSession, Move, TypeOK
  <2> QED
    BY <1>2, <1>3, <2>1, <2>2
<1>6. ASSUME NEW r \in Replicas, FetchUnpublished(r) PROVE Goal
  <2> DEFINE found == OldestOf((1 .. rows) \ (marked \cup LockedRows))
  <2>1. CASE Move(r, "FETCHING") /\ batch' = [batch EXCEPT ![r] = found]
             /\ UNCHANGED <<sent, failed>>
    <3>1. sent[r] = {}
      BY <1>6 DEF FetchUnpublished, DrainFits
    <3> HIDE DEF found
    <3>2. \A s \in Replicas : DrainFits(s)'
      BY <2>1, <3>1, ProducedLasts DEF Move, TypeOK, DrainFits
    <3> QED
      BY <1>2, <1>6, <3>2 DEF FetchUnpublished, tableVars
  <2> QED
    BY <1>1, <1>2, <1>6, <2>1 DEF FetchUnpublished, tableVars
<1>7. ASSUME NEW r \in Replicas, FailToFetch(r) \/ FailToProduce(r) PROVE Goal
  BY <1>1, <1>2, <1>7 DEF FailToFetch, FailToProduce, tableVars
<1>8. ASSUME NEW r \in Replicas, Produce(r) PROVE Goal
  <2>1. PICK i \in 1 .. rows : i = Lowest(batch[r] \ sent[r]) /\ i \in batch[r]
    BY <1>8, NextRow DEF Produce
  <2>2. /\ log \in Seq(1 .. rows) /\ log' = Append(log, i)
        /\ sent' = [sent EXCEPT ![r] = @ \cup {i}] /\ UNCHANGED <<marked, pc, batch>>
    BY <1>8, <2>1 DEF Produce, tableVars, TypeOK
  <2>3. Produced(i)'
    BY <2>2 DEF Produced
  <2>4. \A s \in Replicas : DrainFits(s)'
    BY <2>1, <2>2, <2>3, ProducedLasts DEF TypeOK, DrainFits
  <2> QED
    BY <1>2, <2>2, <2>4
<1>9. ASSUME NEW r \in Replicas, MarkPublished(r) \/ FailToMark(r) PROVE Goal
  <2>1. marked' \subseteq marked \cup batch[r] /\ batch[r] = sent[r]
    BY <1>9 DEF MarkPublished, FailToMark, AllSent
  <2>2. MarkedWasProduced'
    BY <2>1, ProducedLasts DEF MarkedWasProduced, DrainFits
  <2> QED
    BY <1>1, <1>9, <2>2 DEF MarkPublished, FailToMark
<1>10. ASSUME NEW r \in Replicas, Crash(r) PROVE Goal
  <2>1. \A s \in Replicas : DrainFits(s)'
    BY <1>10, ProducedLasts DEF Crash, Move, TypeOK, DrainFits
  <2> QED
    BY <1>2, <1>10, <2>1 DEF Crash, tableVars
<1> QED
  BY <1>4, <1>5, <1>6, <1>7, <1>8, <1>9, <1>10
  DEF Next, TickStep, DrainStep, CommitRow, vars, tableVars

\* Initially there is nothing to drain.
LEMMA InitInv == Init => OrderInv
<1> SUFFICES ASSUME Init PROVE OrderInv
  OBVIOUS
<1>1. TypeOK
  BY DEF Init, TypeOK, Place
<1>2. MarkedWasProduced /\ \A r \in Replicas : DrainFits(r) /\ LockFits(r) /\ BatchFits(r)
  BY DEF Init, MarkedWasProduced, DrainFits, LockFits, Draining, BatchFits
<1> QED
  BY <1>1, <1>2 DEF OrderInv, RelayInv

\* The part of the invariant that needs no assumption about faults.
THEOREM RelayInvariant == Spec => []RelayInv
<1>1. RelayInv /\ [Next]_vars => RelayInv'
  BY TypeStep, ProducedStep DEF RelayInv
<1>2. Init => RelayInv
  BY InitInv DEF OrderInv
<1> QED
  BY <1>1, <1>2, PTL DEF Spec

\* Types; in particular the backoff never exceeds its maximum.
THEOREM TypeCorrect == Spec => []TypeOK
BY RelayInvariant, PTL DEF RelayInv

\* Whatever fails, and however many drains run at a time, a row that will not be
\* fetched again is in Kafka.
THEOREM NoRowIsLost == Spec => []MarkedWasProduced
BY RelayInvariant, PTL DEF RelayInv

-----------------------------------------------------------------------------
(* Order, until a session is lost.                                         *)

\* A lost session is not found again.
LEMMA LostStays ==
  ASSUME RelayInv, [Next]_vars, lost' = 0
  PROVE  lost = 0 /\ \A r \in Replicas : ~LoseSession(r)
<1>1. lost \in Nat
  BY DEF RelayInv, TypeOK
<1>2. \A r \in Replicas : ~LoseSession(r)
  BY <1>1 DEF LoseSession
<1> QED
  BY <1>2 DEF Next, TickStep, DrainStep, vars, boundVars, CommitRow, Start, Stop, Fire, TryLock,
              SkipTick, FailToLock, Unlock, FetchUnpublished, FailToFetch, EndFetch, Produce,
              FailToProduce, MarkPublished, FailToMark, Crash, Fault

\* Of a set of rows, the oldest are without gaps.
LEMMA OldestHasNoGaps ==
  ASSUME NEW S, NEW n \in Nat, S \subseteq 1 .. n,
         NEW i \in OldestOf(S), NEW j \in S, j < i
  PROVE  j \in OldestOf(S)
<1> DEFINE below(k) == {h \in S : h < k}
<1>1. IsFiniteSet(S)
  <2>1. IsFiniteSet(1 .. n)
    BY FS_Interval
  <2> QED
    BY <2>1, FS_Subset
<1>2. below(j) \subseteq below(i) /\ IsFiniteSet(below(i))
  <2>1. i \in S /\ \A h \in S : h \in Nat
    BY DEF OldestOf
  <2>2. below(i) \subseteq S /\ below(j) \subseteq below(i)
    <3>1. ASSUME NEW h \in S, h < j PROVE h < i
      BY <2>1, <3>1
    <3> QED
      BY <3>1
  <2> HIDE DEF below
  <2> QED
    BY <1>1, <2>2, FS_Subset
<1>3. Cardinality(below(j)) <= Cardinality(below(i)) /\ IsFiniteSet(below(j))
  BY <1>2, FS_Subset
<1>4. Cardinality(below(i)) < BatchSize
  BY DEF OldestOf
<1>5. Cardinality(below(j)) \in Nat /\ Cardinality(below(i)) \in Nat
  BY <1>2, <1>3, FS_CardinalityType
<1>6. Cardinality(below(j)) < BatchSize
  <2> HIDE DEF below
  <2> QED
    BY <1>3, <1>4, <1>5
<1> QED
  BY <1>6 DEF OldestOf

\* The lock tells who drains.
LEMMA LockStep ==
  ASSUME OrderInv, [Next]_vars, lost' = 0
  PROVE  \A r \in Replicas : LockFits(r)'
<1> USE DEF OrderInv, RelayInv
<1>0. lost = 0
  BY LostStays
<1>1. CASE UNCHANGED <<lock, pc>>
  BY <1>0, <1>1 DEF LockFits, Draining
<1>2. ASSUME NEW r \in Replicas, Start(r) \/ Stop(r) \/ Fire(r) \/ SkipTick(r) \/ FailToLock(r)
      PROVE  \A s \in Replicas : LockFits(s)'
  BY <1>0, <1>2 DEF Start, Stop, Fire, SkipTick, FailToLock, Rearm, Move, TypeOK, LockFits, Draining
<1>3. ASSUME NEW r \in Replicas, TryLock(r) \/ Unlock(r) \/ Crash(r)
      PROVE  \A s \in Replicas : LockFits(s)'
  BY <1>0, <1>3 DEF TryLock, LockFree, Unlock, Rearm, Crash, Move, TypeOK, LockFits, Draining
<1>4. ASSUME NEW r \in Replicas, DrainStep(r) PROVE \A s \in Replicas : LockFits(s)'
  BY <1>0, <1>4 DEF DrainStep, FetchUnpublished, FailToFetch, EndFetch, Produce, FailToProduce, AllSent,
              MarkPublished, FailToMark, EndDrain, Move, TypeOK, LockFits, Draining
<1>5. ASSUME NEW r \in Replicas, LoseSession(r) PROVE FALSE
  BY <1>5, LostStays
<1> QED
  BY <1>1, <1>2, <1>3, <1>4, <1>5 DEF Next, TickStep, CommitRow, vars

\* Whoever drains, drains alone.
LEMMA DrainsAlone ==
  ASSUME OrderInv, lost = 0, NEW r \in Replicas, NEW s \in Replicas, Draining(r), Draining(s)
  PROVE  r = s
  BY DEF OrderInv, LockFits

\* A drain finds no row locked by another.
LEMMA NothingLocked ==
  ASSUME OrderInv, lost = 0, NEW r \in Replicas, pc[r] = "DRAINING"
  PROVE  LockedRows = {}
<1>1. ASSUME NEW s \in Replicas PROVE pc[s] # "FETCHING"
  BY DrainsAlone DEF Draining
<1> QED
  BY <1>1 DEF LockedRows

\* A batch leaves out no older row that is unmarked.
LEMMA BatchStep ==
  ASSUME OrderInv, lost = 0, [Next]_vars
  PROVE  \A r \in Replicas : BatchFits(r)'
<1> USE DEF OrderInv, RelayInv
<1>1. ASSUME NEW r \in Replicas, NEW error, EndDrain(r, error), marked \subseteq marked'
      PROVE  \A s \in Replicas : BatchFits(s)'
  BY <1>1 DEF EndDrain, TypeOK, BatchFits
<1>2. CASE UNCHANGED <<batch, marked>>
  BY <1>2 DEF BatchFits
<1>3. ASSUME NEW r \in Replicas, FetchUnpublished(r)
      PROVE  \A s \in Replicas : BatchFits(s)'
  <2> DEFINE free == (1 .. rows) \ (marked \cup LockedRows)
  <2>1. free = (1 .. rows) \ marked
    BY <1>3, NothingLocked DEF FetchUnpublished
  <2>2. rows \in Nat /\ OldestOf(free) \subseteq free
    BY DEF TypeOK, OldestOf
  <2>3. ASSUME NEW i \in OldestOf(free), NEW j \in 1 .. i
        PROVE  j \in OldestOf(free) \/ j \in marked
    <3>1. i \in 1 .. rows /\ i \in free
      BY <2>2
    <3>2. CASE j = i
      BY <3>2
    <3>3. CASE j < i /\ j \notin marked
      <4>1. j \in free /\ free \subseteq 1 .. rows
        BY <2>1, <2>2, <3>1, <3>3
      <4> HIDE DEF free
      <4> QED
        BY <2>2, <3>3, <4>1, OldestHasNoGaps
    <3> QED
      BY <3>1, <3>2, <3>3, <2>2
  <2>4. CASE Move(r, "FETCHING") /\ batch' = [batch EXCEPT ![r] = OldestOf(free)]
    <3> HIDE DEF free
    <3> QED
      BY <1>3, <2>3, <2>4 DEF FetchUnpublished, tableVars, TypeOK, BatchFits
  <2>5. UNCHANGED marked
    BY <1>3 DEF FetchUnpublished, tableVars
  <2> QED
    BY <1>1, <1>3, <2>4, <2>5 DEF FetchUnpublished
<1>4. ASSUME NEW r \in Replicas, FailToFetch(r) \/ FailToProduce(r) \/ MarkPublished(r)
                               \/ FailToMark(r)
      PROVE  \A s \in Replicas : BatchFits(s)'
  BY <1>1, <1>4 DEF FailToFetch, FailToProduce, MarkPublished, FailToMark, tableVars
<1>5. ASSUME NEW r \in Replicas, Crash(r) PROVE \A s \in Replicas : BatchFits(s)'
  BY <1>5 DEF Crash, tableVars, TypeOK, BatchFits
<1> QED
  BY <1>2, <1>3, <1>4, <1>5
  DEF Next, TickStep, DrainStep, vars, tableVars, drainVars, CommitRow, Start, Stop, Fire, TryLock,
      SkipTick, FailToLock, Unlock, LoseSession, EndFetch, Produce

\* The whole invariant: lock, batches, marks and log fit together.
THEOREM OrderInvariant == Spec => []OrderInv
<1>1. OrderInv /\ [Next]_vars => OrderInv'
  <2> SUFFICES ASSUME OrderInv, [Next]_vars PROVE OrderInv'
    OBVIOUS
  <2>1. RelayInv'
    BY TypeStep, ProducedStep DEF OrderInv, RelayInv
  <2>2. lost' = 0 => \A r \in Replicas : LockFits(r)' /\ BatchFits(r)'
    BY LockStep, BatchStep, LostStays DEF OrderInv
  <2> QED
    BY <2>1, <2>2 DEF OrderInv
<1> QED
  BY InitInv, <1>1, PTL DEF Spec

\* Until a session is lost, one replica drains at a time.
THEOREM DrainsExclude == Spec => []OneDrain
<1>1. OrderInv => OneDrain
  BY DrainsAlone DEF OneDrain
<1> QED
  BY OrderInvariant, <1>1, PTL

\* Every step of the relay is one of the contract, or a stutter.
LEMMA ContractStep ==
  ASSUME OrderInv, [Next]_vars
  PROVE  [Contract!Next]_(Contract!vars)
<1> USE DEF Contract!vars, OrderInv, RelayInv
<1>1. CASE UNCHANGED <<rows, log, lost>>
  BY <1>1
<1>2. CASE CommitRow
  BY <1>2 DEF CommitRow, boundVars, Contract!Next, Contract!Commit
<1>3. ASSUME NEW r \in Replicas, Produce(r) PROVE Contract!Next
  <2>1. PICK i \in 1 .. rows : /\ i = Lowest(batch[r] \ sent[r]) /\ i \in batch[r]
                               /\ \A j \in batch[r] : j < i => j \in sent[r]
    BY <1>3, NextRow DEF Produce
  <2>2. log' = Append(log, i) /\ UNCHANGED <<rows, lost>> /\ rows \in Nat
    BY <1>3, <2>1 DEF Produce, tableVars, boundVars, TypeOK
  <2>3. ASSUME lost = 0, NEW j \in 1 .. i - 1 PROVE Contract!Produced(j)
    <3>1. j \in 1 .. i /\ j < i
      BY <2>2
    <3>2. j \in sent[r] \/ j \in marked
      BY <2>1, <2>3, <3>1 DEF BatchFits
    <3>3. Produced(j)
      BY <3>2 DEF MarkedWasProduced, DrainFits
    <3> QED
      BY <3>3 DEF Produced, Contract!Produced
  <2>4. Contract!Produce(i)
    BY <2>2, <2>3 DEF Contract!Produce
  <2> QED
    BY <2>4 DEF Contract!Next
<1>4. ASSUME NEW r \in Replicas, LoseSession(r) PROVE Contract!Next
  <2>1. lost \in Nat /\ lost' = lost + 1 /\ UNCHANGED <<rows, log>>
    BY <1>4 DEF LoseSession, tableVars, TypeOK
  <2>2. Contract!LoseExclusion
    BY <2>1 DEF Contract!LoseExclusion
  <2> QED
    BY <2>2 DEF Contract!Next
<1> QED
  BY <1>1, <1>2, <1>3, <1>4
  DEF Next, TickStep, DrainStep, vars, tableVars, boundVars, Start, Stop, Fire, TryLock, SkipTick,
      FailToLock, Unlock, FetchUnpublished, FailToFetch, EndFetch, FailToProduce, MarkPublished,
      FailToMark, Crash, Fault

\* The relay keeps its contract: only committed rows are produced, and the rows of
\* a key first reach Kafka in their order until a session is lost.
THEOREM ImplementsOutbox == Spec => KeepsOrder
<1>1. Init => Contract!Init
  BY DEF Init, Contract!Init
<1>2. OrderInv /\ [Next]_vars => [Contract!Next]_(Contract!vars)
  BY ContractStep
<1> QED
  BY OrderInvariant, <1>1, <1>2, PTL DEF Spec, KeepsOrder, Contract!Spec
=============================================================================
