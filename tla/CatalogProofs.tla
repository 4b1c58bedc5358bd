--------------------------- MODULE CatalogProofs ---------------------------
(***************************************************************************)
(* Catalog for any items, requests, ratings and faults: the events of a    *)
(* row are its history, the items a deletion listed vanish, and the read   *)
(* model keeps its contract.                                               *)
(***************************************************************************)
EXTENDS Catalog, SequenceTheorems, TLAPS

USE RowsAssumption, ActorsAssumption, BoundsAssumption

\* A fault is counted within its bound.
LEMMA FaultBounds ==
  ASSUME BoundTypes, Fault
  PROVE  BoundTypes'
BY DEF BoundTypes, Fault

\* The elements of a log that grew by one.
LEMMA AppendElements ==
  ASSUME NEW s \in Seq(Nat), NEW v \in Nat
  PROVE  /\ Append(s, v) \in Seq(Nat)
         /\ Append(s, v) # <<>>
         /\ Len(s) \in Nat
         /\ Len(Append(s, v)) = Len(s) + 1
         /\ Append(s, v)[Len(s) + 1] = v
         /\ \A k \in 1 .. Len(s) : Append(s, v)[k] = s[k] /\ s[k] \in Nat
OBVIOUS

\* How a transaction may extend a log.
Extends(a, s) ==
  \/ s = log[a]
  \/ s = Append(log[a], 0)
  \/ /\ s = Append(log[a], Len(log[a]) + 1)
     /\ \A k \in 1 .. Len(log[a]) : log[a][k] # 0

\* A log so extended is well-typed, still the history of its row, and what was
\* read of it is as it was.
LEMMA ExtendsHistory ==
  ASSUME WriteTypes, LogIsHistory, NEW a \in Rows, NEW s, Extends(a, s)
  PROVE  /\ s \in Seq(Nat)
         /\ Len(log[a]) \in Nat /\ Len(log[a]) <= Len(s)
         /\ \A k \in 1 .. Len(log[a]) : s[k] = log[a][k]
         /\ \A k \in 1 .. Len(s) :
              /\ s[k] \in {0, k}
              /\ \A j \in 1 .. k - 1 : s[j] = 0 => s[k] = 0
<1>1. log[a] \in Seq(Nat) /\ Len(log[a]) \in Nat
  BY DEF WriteTypes
<1>2. \A k \in 1 .. Len(log[a]) :
        log[a][k] \in {0, k} /\ \A j \in 1 .. k - 1 : log[a][j] = 0 => log[a][k] = 0
  BY DEF LogIsHistory
<1>3. CASE s = log[a]
  BY <1>1, <1>2, <1>3
<1>4. ASSUME NEW v \in Nat, s = Append(log[a], v),
             \/ v = 0
             \/ v = Len(log[a]) + 1 /\ \A k \in 1 .. Len(log[a]) : log[a][k] # 0
      PROVE  /\ s \in Seq(Nat) /\ Len(log[a]) <= Len(s)
             /\ \A k \in 1 .. Len(log[a]) : s[k] = log[a][k]
             /\ \A k \in 1 .. Len(s) :
                  /\ s[k] \in {0, k}
                  /\ \A j \in 1 .. k - 1 : s[j] = 0 => s[k] = 0
  <2>1. /\ s \in Seq(Nat)
        /\ Len(s) = Len(log[a]) + 1
        /\ s[Len(log[a]) + 1] = v
        /\ \A k \in 1 .. Len(log[a]) : s[k] = log[a][k]
    BY <1>1, <1>4, AppendElements
  <2>2. ASSUME NEW k \in 1 .. Len(s)
        PROVE  /\ s[k] \in {0, k}
               /\ \A j \in 1 .. k - 1 : s[j] = 0 => s[k] = 0
    <3>1. CASE k \in 1 .. Len(log[a])
      <4>1. \A j \in 1 .. k - 1 : j \in 1 .. Len(log[a])
        BY <3>1, <1>1
      <4> QED
        BY <3>1, <4>1, <1>2, <2>1
    <3>2. CASE k = Len(log[a]) + 1
      <4>1. \A j \in 1 .. k - 1 : j \in 1 .. Len(log[a])
        BY <3>2, <1>1
      <4> QED
        BY <3>2, <4>1, <1>4, <2>1
    <3> QED
      BY <3>1, <3>2, <2>1, <1>1
  <2> QED
    BY <2>1, <2>2, <1>1
<1>5. CASE s = Append(log[a], 0)
  <2>1. 0 \in Nat
    OBVIOUS
  <2> QED
    BY <1>1, <1>4, <1>5, <2>1
<1>6. CASE /\ s = Append(log[a], Len(log[a]) + 1)
           /\ \A k \in 1 .. Len(log[a]) : log[a][k] # 0
  <2>1. Len(log[a]) + 1 \in Nat
    BY <1>1
  <2> QED
    BY <1>1, <1>4, <1>6, <2>1
<1> QED
  BY <1>3, <1>5, <1>6 DEF Extends

\* Whatever a transaction appends, the logs stay histories and the read model
\* and its projector stay where they fit.
LEMMA HistoryGrows ==
  ASSUME WriteTypes, ViewTypes, LogIsHistory, ViewsFit, UNCHANGED viewVars,
         \A a \in Rows : Extends(a, log'[a])
  PROVE  LogIsHistory' /\ ViewTypes' /\ ViewsFit'
<1>1. ASSUME NEW a \in Rows
      PROVE  /\ Len(log[a]) \in Nat /\ Len(log[a]) <= Len(log'[a]) /\ Len(log'[a]) \in Nat
             /\ \A k \in 1 .. Len(log[a]) : log'[a][k] = log[a][k]
             /\ \A k \in 1 .. Len(log'[a]) :
                  log'[a][k] \in {0, k} /\ \A j \in 1 .. k - 1 : log'[a][j] = 0 => log'[a][k] = 0
  <2>1. log'[a] \in Seq(Nat)
    BY ExtendsHistory
  <2> QED
    BY <2>1, ExtendsHistory
<1>2. pos' = pos /\ read' = read /\ skipped' = skipped
  BY DEF viewVars
<1>3. LogIsHistory'
  BY <1>1 DEF LogIsHistory
<1>4. ViewTypes'
  <2>1. \A a \in Rows : pos[a] \in Nat /\ pos[a] <= Len(log[a])
    BY DEF ViewTypes
  <2>2. \A a \in Rows : pos'[a] <= Len(log'[a])
    BY <1>1, <1>2, <2>1
  <2> QED
    BY <1>2, <2>2 DEF ViewTypes
<1>5. ViewsFit'
  <2>1. ASSUME NEW a \in Rows \ skipped, pos[a] > 0, log'[a][pos[a]] = 0
        PROVE  read[a] = 0
    <3>1. pos[a] \in 1 .. Len(log[a])
      BY <1>1, <2>1 DEF ViewTypes
    <3>2. log[a][pos[a]] = 0
      BY <3>1, <1>1, <2>1
    <3> QED
      BY <3>2, <2>1 DEF ViewsFit
  <2> QED
    BY <1>2, <2>1 DEF ViewsFit
<1> QED
  BY <1>3, <1>4, <1>5

-----------------------------------------------------------------------------
(* What a command does to its rows and to the other commands               *)

LEMMA LogTypes ==
  ASSUME WriteTypes, NEW a \in Rows
  PROVE  log[a] \in Seq(Nat) /\ Len(log[a]) \in Nat /\ row[a].version \in Nat
BY DEF WriteTypes

\* A row that is written gets its version.
LEMMA WrittenRow ==
  ASSUME WriteTypes, NEW a \in Rows, RowFits(row[a], log[a]), NEW v,
         \/ row[a].state = "LIVE" /\ v = row[a].version + 1
         \/ row[a].state = "NONE" /\ v = 1
  PROVE  /\ v \in Nat /\ v = Len(log[a]) + 1
         /\ \A k \in 1 .. Len(log[a]) : log[a][k] # 0
         /\ RowFits([state |-> "LIVE", version |-> v], Append(log[a], v))
<1> DEFINE l == Append(log[a], v)
<1>1. log[a] \in Seq(Nat) /\ Len(log[a]) \in Nat /\ row[a].version \in Nat
  BY LogTypes
<1>2. /\ v \in Nat /\ v = Len(log[a]) + 1
      /\ \A k \in 1 .. Len(log[a]) : log[a][k] # 0 /\ log[a][k] <= v
  <2>1. CASE row[a].state = "LIVE" /\ v = row[a].version + 1
    <3>1. /\ Len(log[a]) = row[a].version
          /\ \A k \in 1 .. Len(log[a]) : log[a][k] # 0 /\ log[a][k] <= row[a].version
      BY <2>1 DEF RowFits
    <3>2. \A k \in 1 .. Len(log[a]) : log[a][k] \in Nat
      BY <1>1
    <3> QED
      BY <1>1, <2>1, <3>1, <3>2
  <2>2. CASE row[a].state = "NONE" /\ v = 1
    <3>1. log[a] = <<>>
      BY <2>2 DEF RowFits
    <3> QED
      BY <2>2, <3>1
  <2> QED
    BY <2>1, <2>2
<1>3. /\ Len(l) = Len(log[a]) + 1 /\ l[Len(log[a]) + 1] = v
      /\ \A k \in 1 .. Len(log[a]) : l[k] = log[a][k]
  BY <1>1, <1>2, AppendElements
<1>4. \A k \in 1 .. Len(l) : k \in 1 .. Len(log[a]) \/ k = Len(log[a]) + 1
  BY <1>1, <1>3
<1> HIDE DEF l
<1>5. \A k \in 1 .. Len(l) : l[k] # 0 /\ l[k] <= v
  <2>1. v # 0 /\ v <= v
    BY <1>1, <1>2
  <2> QED
    BY <1>2, <1>3, <1>4, <2>1
<1>6. RowFits([state |-> "LIVE", version |-> v], l)
  BY <1>2, <1>3, <1>5 DEF RowFits
<1> QED
  BY <1>2, <1>6 DEF l

\* A row that is deleted keeps its version, and its log gets a 0, if anything.
LEMMA DeletedRow ==
  ASSUME WriteTypes, NEW a \in Rows, RowFits(row[a], log[a]),
         NEW l \in {log[a], Append(log[a], 0)}
  PROVE  RowFits([row[a] EXCEPT !.state = "DELETED"], l)
<1>1. log[a] \in Seq(Nat) /\ Len(log[a]) \in Nat /\ row[a].version \in Nat
  BY LogTypes
<1>2. [row[a] EXCEPT !.state = "DELETED"].version = row[a].version
  BY DEF WriteTypes
<1>3. [row[a] EXCEPT !.state = "DELETED"].state = "DELETED"
  BY DEF WriteTypes
<1>4. \A k \in 1 .. Len(l) : l[k] <= row[a].version
  <2>1. \A k \in 1 .. Len(log[a]) : log[a][k] <= row[a].version
    BY DEF RowFits
  <2>2. CASE l = log[a]
    BY <2>1, <2>2
  <2>3. CASE l = Append(log[a], 0)
    <3>1. 0 \in Nat
      OBVIOUS
    <3>2. /\ Len(l) = Len(log[a]) + 1 /\ l[Len(log[a]) + 1] = 0
          /\ \A k \in 1 .. Len(log[a]) : l[k] = log[a][k]
      BY <1>1, <2>3, <3>1, AppendElements
    <3>3. \A k \in 1 .. Len(l) : k \in 1 .. Len(log[a]) \/ k = Len(log[a]) + 1
      BY <1>1, <3>2
    <3>4. 0 <= row[a].version
      BY <1>1
    <3> QED
      BY <2>1, <3>2, <3>3, <3>4
  <2> QED
    BY <2>2, <2>3
<1> QED
  BY <1>2, <1>3, <1>4 DEF RowFits

\* A log that ends with a deletion only gets more of them.
LEMMA StaysDeleted ==
  ASSUME WriteTypes, NEW a \in Rows, EndsDeleted(a), Extends(a, log'[a])
  PROVE  EndsDeleted(a)'
<1>1. log[a] \in Seq(Nat) /\ Len(log[a]) \in Nat /\ Len(log[a]) \in 1 .. Len(log[a])
  <2>1. log[a] \in Seq(Nat) /\ Len(log[a]) \in Nat /\ log[a] # <<>>
    BY LogTypes DEF EndsDeleted
  <2> QED
    BY <2>1
<1>2. log'[a] = log[a] \/ log'[a] = Append(log[a], 0)
  BY <1>1 DEF Extends, EndsDeleted
<1>3. CASE log'[a] = Append(log[a], 0)
  <2>1. 0 \in Nat
    OBVIOUS
  <2> QED
    BY <1>1, <1>3, <2>1, AppendElements DEF EndsDeleted
<1> QED
  BY <1>2, <1>3 DEF EndsDeleted

\* What a step of one command leaves the other commands to rely on.
LEMMA OthersFit ==
  ASSUME WriteTypes, WriteTypes', CallsFit, NEW c \in Calls, NEW d \in Calls \ {c},
         call'[d] = call[d],
         \A a \in Rows : Extends(a, log'[a]),
         \A a \in Rows : Exists(a) => Exists(a)',
         \A a \in Rows : ~Exists(a) /\ Doing(d, "CREATE") /\ call[d].target = a => ~Exists(a)',
         call'[c].op = "CREATE" =>
           \/ call[c].op = "CREATE" /\ call[c].target = call'[c].target
           \/ call[d].op = "CREATE" => call[d].target # call'[c].target,
         \A e \in Calls \ {c} : call'[e] = call[e]
  PROVE  CallFits(d)'
<1>1. CallFits(d) /\ call[d] \in CallRecord
  BY DEF CallsFit, WriteTypes
<1> QED
  BY <1>1, StaysDeleted DEF CallFits, Doing, CallRecord, Rows

Written == WriteTypes /\ RowsFit /\ CallsFit

\* What a command that leaves the rows alone may do to its own record.
LEMMA ReadStep ==
  ASSUME Written, NEW c \in Calls, NEW n \in CallRecord,
         call' = [call EXCEPT ![c] = n], row' = row, log' = log,
         CallFits(c)',
         n.op = "CREATE" =>
           \/ call[c].op = "CREATE" /\ call[c].target = n.target
           \/ \A d \in Calls : call[d].op = "CREATE" => call[d].target # n.target
  PROVE  Written' /\ \A a \in Rows : Extends(a, log'[a])
<1>1. \A a \in Rows : Extends(a, log'[a])
  BY DEF Extends
<1>2. WriteTypes'
  BY DEF Written, WriteTypes
<1>3. RowsFit'
  BY DEF Written, RowsFit, RowFits
<1>4. call'[c] = n /\ \A e \in Calls \ {c} : call'[e] = call[e]
  BY DEF Written, WriteTypes
<1>5. \A a \in Rows : Exists(a)' <=> Exists(a)
  BY DEF Exists
<1>6. ASSUME NEW d \in Calls \ {c}
      PROVE  CallFits(d)'
  BY <1>1, <1>2, <1>4, <1>5, OthersFit DEF Written
<1> QED
  BY <1>1, <1>2, <1>3, <1>6 DEF Written, CallsFit

LEMMA BeginFits ==
  ASSUME Written, NEW c \in Calls, NEW op \in {"CREATE", "UPDATE", "DELETE"}, NEW a \in Rows,
         Begin(c, op, a),
         op = "CREATE" =>
           /\ ~Exists(a)
           /\ \A d \in Calls : call[d].op = "CREATE" => call[d].target # a,
         op = "DELETE" => Exists(a)
  PROVE  Written' /\ \A b \in Rows : Extends(b, log'[b])
<1> DEFINE n == [pc |-> "READ", op |-> op, target |-> a, version |-> row[a].version,
                 listed |-> {}, items |-> {}]
<1>1. /\ n.pc = "READ" /\ n.op = op /\ n.target = a
      /\ n.listed = {} /\ n.items = {}
  OBVIOUS
<1>2. n \in CallRecord
  BY LogTypes DEF CallRecord, Written
<1>3. call' = [call EXCEPT ![c] = n] /\ row' = row /\ log' = log
  BY DEF Begin
<1> HIDE DEF n
<1>4. call'[c] = n /\ \A d \in Calls \ {c} : call'[d] = call[d]
  BY <1>3 DEF Written, WriteTypes
<1>5. CallFits(c)'
  BY <1>1, <1>3, <1>4 DEF CallFits, Doing, Exists
<1> QED
  BY <1>1, <1>2, <1>3, <1>5, ReadStep

\* A command that writes: the row of its target, or nothing, and returns.
LEMMA WriteStep ==
  ASSUME Written, NEW c \in Calls, call[c].pc # "DONE", Return(c),
         row' \in [Rows -> [state : {"NONE", "LIVE", "DELETED"}, version : Nat]],
         log' \in [Rows -> Seq(Nat)],
         \A a \in Rows : RowFits(row[a], log[a]) => RowFits(row'[a], log'[a]),
         \A a \in Rows : Extends(a, log'[a]),
         \A a \in Rows : Exists(a) => Exists(a)',
         \A a \in Rows : ~Exists(a) /\ Exists(a)' => call[c].op = "CREATE" /\ call[c].target = a,
         \A i \in call[c].listed : EndsDeleted(i)'
  PROVE  Written'
<1>1. /\ call'[c] = [call[c] EXCEPT !.pc = "DONE"]
      /\ \A d \in Calls \ {c} : call'[d] = call[d]
      /\ call \in [Calls -> CallRecord] /\ call[c] \in CallRecord
  BY DEF Written, WriteTypes, Return
<1>2. call' \in [Calls -> CallRecord]
  BY <1>1 DEF Return, CallRecord
<1>3. WriteTypes'
  BY <1>2 DEF WriteTypes
<1>4. RowsFit'
  BY DEF Written, RowsFit, Exists, Rows
<1>5. /\ call'[c].pc = "DONE" /\ call'[c].op = call[c].op /\ call'[c].target = call[c].target
      /\ call'[c].listed = call[c].listed /\ call'[c].items = call[c].items
  BY <1>1 DEF CallRecord
<1>6. CallFits(c)'
  <2>1. \A i \in call[c].listed \cup call[c].items : Exists(i) /\ i \in Rows
    BY <1>1 DEF Written, CallsFit, CallFits, CallRecord, Rows
  <2>2. \A i \in call[c].listed \cup call[c].items : Exists(i)'
    BY <2>1
  <2> QED
    BY <1>5, <2>2 DEF CallFits, Doing
<1>7. ASSUME NEW d \in Calls \ {c}
      PROVE  CallFits(d)'
  <2>1. ASSUME NEW a \in Rows, ~Exists(a), Doing(d, "CREATE"), call[d].target = a
        PROVE  ~Exists(a)'
    BY <2>1 DEF Written, CallsFit, CallFits
  <2> QED
    BY <1>1, <1>3, <1>5, <2>1, OthersFit DEF Written
<1> QED
  BY <1>3, <1>4, <1>6, <1>7 DEF Written, CallsFit

\* A command that writes its target's row.
LEMMA RowWrite ==
  ASSUME Written, NEW c \in Calls, call[c].pc = "READ", Return(c), NEW v,
         Write(call[c].target, v),
         \/ row[call[c].target].state = "LIVE" /\ v = row[call[c].target].version + 1
         \/ /\ row[call[c].target].state = "NONE" /\ v = 1
            /\ call[c].op = "CREATE"
  PROVE  Written' /\ \A a \in Rows : Extends(a, log'[a])
<1> DEFINE t == call[c].target
<1>1. t \in Rows /\ call[c].listed = {}
  BY DEF Written, WriteTypes, CallRecord, CallsFit, CallFits
<1>2. RowFits(row[t], log[t])
  BY <1>1 DEF Written, RowsFit
<1>3. /\ v \in Nat /\ v = Len(log[t]) + 1
      /\ \A k \in 1 .. Len(log[t]) : log[t][k] # 0
      /\ RowFits([state |-> "LIVE", version |-> v], Append(log[t], v))
  BY <1>1, <1>2, WrittenRow DEF Written
<1>4. Append(log[t], v) \in Seq(Nat)
  BY <1>1, <1>3, LogTypes, AppendElements DEF Written
<1>5. /\ row' = [row EXCEPT ![t] = [state |-> "LIVE", version |-> v]]
      /\ log' = [log EXCEPT ![t] = Append(log[t], v)]
  BY DEF Write
<1>6. row \in [Rows -> [state : {"NONE", "LIVE", "DELETED"}, version : Nat]] /\ log \in [Rows -> Seq(Nat)]
  BY DEF Written, WriteTypes
<1>7. /\ row' \in [Rows -> [state : {"NONE", "LIVE", "DELETED"}, version : Nat]]
      /\ log' \in [Rows -> Seq(Nat)]
  BY <1>3, <1>4, <1>5, <1>6
<1>8. /\ row'[t] = [state |-> "LIVE", version |-> v] /\ log'[t] = Append(log[t], v)
      /\ \A a \in Rows \ {t} : row'[a] = row[a] /\ log'[a] = log[a]
  BY <1>1, <1>5, <1>6
<1>9. \A a \in Rows : RowFits(row[a], log[a]) => RowFits(row'[a], log'[a])
  BY <1>3, <1>8
<1>10. \A a \in Rows : Extends(a, log'[a])
  BY <1>3, <1>8 DEF Extends
<1>11. \A a \in Rows : Exists(a) => Exists(a)'
  BY <1>8 DEF Exists
<1>12. \A a \in Rows : ~Exists(a) /\ Exists(a)' => call[c].op = "CREATE" /\ t = a
  BY <1>8 DEF Exists
<1> HIDE DEF t
<1> QED
  BY <1>1, <1>7, <1>9, <1>10, <1>11, <1>12, WriteStep DEF t

\* A command that deletes rows, and announces it of some of them.
LEMMA RowsDelete ==
  ASSUME Written, NEW c \in Calls, call[c].pc \in {"READ", "MARKED"}, Return(c),
         NEW D \in SUBSET Rows, NEW A \in SUBSET Rows, A \subseteq D,
         \A a \in D : Exists(a), call[c].listed \subseteq A,
         row' = [a \in Rows |-> IF a \in D THEN [row[a] EXCEPT !.state = "DELETED"] ELSE row[a]],
         log' = [a \in Rows |-> IF a \in A THEN Append(log[a], 0) ELSE log[a]]
  PROVE  Written' /\ \A a \in Rows : Extends(a, log'[a])
<1>1. row \in [Rows -> [state : {"NONE", "LIVE", "DELETED"}, version : Nat]] /\ log \in [Rows -> Seq(Nat)]
  BY DEF Written, WriteTypes
<1>2. 0 \in Nat
  OBVIOUS
<1>3. \A a \in Rows : /\ Append(log[a], 0) \in Seq(Nat)
                      /\ Append(log[a], 0) # <<>>
                      /\ Append(log[a], 0)[Len(Append(log[a], 0))] = 0
  BY <1>1, <1>2, AppendElements
<1>4. /\ row' \in [Rows -> [state : {"NONE", "LIVE", "DELETED"}, version : Nat]]
      /\ log' \in [Rows -> Seq(Nat)]
  BY <1>1, <1>3
<1>5. ASSUME NEW a \in Rows, RowFits(row[a], log[a])
      PROVE  RowFits(row'[a], log'[a])
  <2>1. log'[a] \in {log[a], Append(log[a], 0)}
    OBVIOUS
  <2>2. CASE a \in D
    BY <1>5, <2>1, <2>2, DeletedRow DEF Written
  <2>3. CASE a \notin D
    BY <1>5, <2>3
  <2> QED
    BY <2>2, <2>3
<1>6. \A a \in Rows : Extends(a, log'[a])
  BY DEF Extends
<1>7. \A a \in Rows : Exists(a) <=> Exists(a)'
  BY <1>1 DEF Exists
<1>8. \A i \in call[c].listed : EndsDeleted(i)'
  BY <1>3 DEF EndsDeleted
<1> QED
  BY <1>4, <1>5, <1>6, <1>7, <1>8, WriteStep

\* Every command keeps the rows and the commands as they should be, and the
\* logs histories.
LEMMA CommandWrites ==
  ASSUME Written, LogIsHistory, NEW c \in Calls, Command(c)
  PROVE  Written' /\ \A a \in Rows : Extends(a, log'[a])
<1> USE DEF Written
<1>1. /\ call \in [Calls -> CallRecord] /\ call[c] \in CallRecord /\ CallFits(c)
      /\ call[c].target \in Rows /\ call[c].listed \subseteq Rows /\ call[c].items \subseteq Rows
      /\ Items \subseteq Rows /\ Restaurant \in Rows
  BY DEF WriteTypes, CallsFit, CallRecord, Rows
<1>2. \A a \in Rows : RowFits(row[a], log[a])
  BY DEF RowsFit
<1>3. ASSUME row' = row, log' = log
      PROVE  \A a \in Rows : RowFits(row[a], log[a]) => RowFits(row'[a], log'[a])
  BY <1>3
<1>4. CASE ReadRestaurant(c)
  <2>1. PICK op \in {"UPDATE", "DELETE"} : Begin(c, op, Restaurant)
    BY <1>4 DEF ReadRestaurant
  <2> QED
    BY <1>1, <1>4, <2>1, BeginFits DEF ReadRestaurant, Live, Exists
<1>5. CASE ReadItem(c)
  <2>1. PICK i \in Items, op \in {"UPDATE", "DELETE"} : Live(i) /\ Begin(c, op, i)
    BY <1>5 DEF ReadItem
  <2> QED
    BY <1>1, <2>1, BeginFits DEF Live, Exists
<1>6. CASE CheckParent(c)
  <2>1. PICK i \in Items :
          /\ row[i].state = "NONE"
          /\ \A d \in Calls : call[d].op = "CREATE" => call[d].target # i
          /\ Begin(c, "CREATE", i)
    BY <1>6 DEF CheckParent
  <2> QED
    BY <1>1, <2>1, BeginFits DEF Exists
<1>7. CASE FindAllByRestaurant(c)
  <2> DEFINE n == [call[c] EXCEPT !.pc = "LISTED", !.listed = {i \in Items : Live(i)}]
  <2>1. call' = [call EXCEPT ![c] = n] /\ row' = row /\ log' = log /\ Doing(c, "DELETE")
    BY <1>7 DEF FindAllByRestaurant
  <2>2. /\ n \in CallRecord /\ n.pc = "LISTED" /\ n.op = "DELETE"
        /\ n.listed = {i \in Items : Live(i)} /\ n.items = call[c].items
    BY <1>1, <2>1 DEF CallRecord, Doing
  <2> HIDE DEF n
  <2>3. call'[c] = n
    BY <1>1, <2>1
  <2>4. CallFits(c)'
    BY <1>1, <2>1, <2>2, <2>3 DEF CallFits, Doing, Exists, Live
  <2> QED
    BY <2>1, <2>2, <2>4, ReadStep
<1>8. CASE SoftDelete(c)
  <2> DEFINE n == [call[c] EXCEPT !.pc = "MARKED",
                                  !.items = {i \in Items : row[i].state # "NONE"}]
  <2>1. call' = [call EXCEPT ![c] = n] /\ row' = row /\ log' = log /\ call[c].pc = "LISTED"
    BY <1>8 DEF SoftDelete
  <2>2. /\ n \in CallRecord /\ n.pc = "MARKED" /\ n.op = call[c].op /\ n.target = call[c].target
        /\ n.items = {i \in Items : row[i].state # "NONE"} /\ n.listed = call[c].listed
    BY <1>1 DEF CallRecord
  <2> HIDE DEF n
  <2>3. call'[c] = n
    BY <1>1, <2>1
  <2>4. call[c].listed \subseteq Items
    BY <1>1 DEF CallRecord
  <2>5. CallFits(c)'
    BY <1>1, <2>1, <2>2, <2>3, <2>4 DEF CallFits, Doing, Exists
  <2> QED
    BY <2>1, <2>2, <2>5, ReadStep
<1>9. CASE FailCall(c)
  <2> DEFINE n == [NoCall EXCEPT !.pc = "DONE"]
  <2>1. call' = [call EXCEPT ![c] = n] /\ row' = row /\ log' = log
    BY <1>9 DEF FailCall
  <2>2. /\ n \in CallRecord /\ n.pc = "DONE" /\ n.op = "UPDATE" /\ n.listed = {} /\ n.items = {}
    BY <1>1 DEF CallRecord, NoCall
  <2> HIDE DEF n
  <2>3. call'[c] = n
    BY <1>1, <2>1
  <2>4. CallFits(c)'
    BY <2>2, <2>3 DEF CallFits, Doing
  <2> QED
    BY <2>1, <2>2, <2>4, ReadStep
<1>10. CASE CreateMenuItem(c)
  <2>1. /\ Doing(c, "CREATE") /\ Write(call[c].target, 1) /\ Return(c)
    BY <1>10 DEF CreateMenuItem
  <2>2. row[call[c].target].state = "NONE"
    BY <1>1, <2>1 DEF CallFits, Exists
  <2> QED
    BY <1>1, <2>1, <2>2, RowWrite DEF Doing
<1>11. CASE UpdateVersioned(c)
  <2>1. Doing(c, "UPDATE") /\ Return(c)
    BY <1>11 DEF UpdateVersioned
  <2>2. CASE Unchanged(c) /\ Write(call[c].target, call[c].version + 1)
    BY <1>1, <2>1, <2>2, RowWrite DEF Doing, Unchanged, Live
  <2>3. CASE row' = row /\ log' = log
    <3>1. /\ call[c].pc = "READ" /\ call[c].listed = {}
      BY <1>1, <2>1 DEF Doing, CallFits
    <3>2. \A a \in Rows : Extends(a, log'[a])
      BY <2>3 DEF Extends
    <3>3. \A a \in Rows : Exists(a)' <=> Exists(a)
      BY <2>3 DEF Exists
    <3> QED
      BY <1>3, <2>1, <2>3, <3>1, <3>2, <3>3, WriteStep DEF WriteTypes
  <2> QED
    BY <1>11, <2>2, <2>3 DEF UpdateVersioned
<1>12. CASE DeleteMenuItem(c)
  <2> DEFINE i == call[c].target
  <2>1. /\ Doing(c, "DELETE") /\ Return(c) /\ i \in Items
        /\ row' = [row EXCEPT ![i].state = "DELETED"]
        /\ log' = [log EXCEPT ![i] = Append(@, 0)]
    BY <1>12 DEF DeleteMenuItem
  <2>2. /\ call[c].pc = "READ" /\ call[c].listed = {} /\ Exists(i) /\ i \in Rows
    BY <1>1, <2>1 DEF Doing, CallFits
  <2> HIDE DEF i
  <2>3. /\ row' = [a \in Rows |-> IF a \in {i} THEN [row[a] EXCEPT !.state = "DELETED"]
                                 ELSE row[a]]
        /\ log' = [a \in Rows |-> IF a \in {i} THEN Append(log[a], 0) ELSE log[a]]
    BY <2>1, <2>2 DEF WriteTypes
  <2>4. /\ {i} \in SUBSET Rows /\ {i} \subseteq {i} /\ call[c].listed \subseteq {i}
        /\ \A a \in {i} : Exists(a)
    BY <2>2
  <2>5. call[c].pc \in {"READ", "MARKED"} /\ Return(c)
    BY <2>1, <2>2
  <2> HIDE DEF Written
  <2> QED
    BY <2>3, <2>4, <2>5, RowsDelete
<1>13. CASE DeleteRestaurant(c)
  <2> DEFINE D == call[c].items \cup {Restaurant}
  <2>1. /\ call[c].pc = "MARKED" /\ Return(c)
        /\ row' = [a \in Rows |-> IF a \in D THEN [row[a] EXCEPT !.state = "DELETED"] ELSE row[a]]
        /\ log' = [a \in Rows |-> IF a \in Announced(c) THEN Append(log[a], 0) ELSE log[a]]
    BY <1>13 DEF DeleteRestaurant
  <2>2. /\ Announced(c) \subseteq D /\ call[c].listed \subseteq Announced(c)
        /\ D \in SUBSET Rows /\ Announced(c) \in SUBSET Rows
    BY <1>1, <2>1 DEF CallFits, Announced
  <2>3. \A a \in D : Exists(a)
    BY <1>1 DEF CallFits, RowsFit, Exists
  <2> HIDE DEF D
  <2> QED
    BY <2>1, <2>2, <2>3, RowsDelete
<1> QED
  BY <1>4, <1>5, <1>6, <1>7, <1>8, <1>9, <1>10, <1>11, <1>12, <1>13 DEF Command

-----------------------------------------------------------------------------
(* The invariant                                                           *)

Fits == Written /\ LogIsHistory /\ ViewTypes /\ ViewsFit

LEMMA InvParts ==
  /\ CatalogInv <=> Fits /\ CacheTypes /\ BoundTypes
  /\ CatalogInv' <=> Fits' /\ CacheTypes' /\ BoundTypes'
BY DEF CatalogInv, TypeOK, Fits, Written

\* Nothing of this depends on the cache.
LEMMA FitsStays ==
  ASSUME Fits, UNCHANGED <<writeVars, viewVars>>
  PROVE  Fits'
<1>1. UNCHANGED <<row, log, call, pos, read, skipped>>
  BY DEF writeVars, viewVars
<1>2. Written'
  BY <1>1 DEF Fits, Written, WriteTypes, RowsFit, CallsFit, CallFits, Exists, EndsDeleted, Doing
<1>3. LogIsHistory' /\ ViewTypes' /\ ViewsFit'
  BY <1>1 DEF Fits, LogIsHistory, ViewTypes, ViewsFit
<1> QED
  BY <1>2, <1>3 DEF Fits

LEMMA CommandFits ==
  ASSUME Fits, BoundTypes, NEW c \in Calls, Command(c)
  PROVE  Fits' /\ BoundTypes' /\ UNCHANGED <<viewVars, cacheVars>>
<1>1. UNCHANGED <<viewVars, cacheVars>> /\ (UNCHANGED boundVars \/ Fault)
  BY DEF Command, ReadRestaurant, ReadItem, CheckParent, Begin, CreateMenuItem, UpdateVersioned,
         DeleteMenuItem, FindAllByRestaurant, SoftDelete, DeleteRestaurant, FailCall
<1>2. Written' /\ \A a \in Rows : Extends(a, log'[a])
  BY CommandWrites DEF Fits
<1>3. LogIsHistory' /\ ViewTypes' /\ ViewsFit'
  BY <1>1, <1>2, HistoryGrows DEF Fits, Written
<1>4. BoundTypes'
  BY <1>1, FaultBounds DEF boundVars, BoundTypes
<1> QED
  BY <1>1, <1>2, <1>3, <1>4 DEF Fits

\* The next event of a row, and where it leaves the projector.
LEMMA NextEventFits ==
  ASSUME Fits, NEW a \in Rows, MayProject(a)
  PROVE  /\ pos[a] \in Nat /\ pos[a] + 1 \in 1 .. Len(log[a]) /\ Len(log[a]) \in Nat
         /\ NextEvent(a) = log[a][pos[a] + 1] /\ NextEvent(a) \in Nat
         /\ NextEvent(a) \in {0, pos[a] + 1} /\ NextEvent(a) <= row[a].version
         /\ pos[a] > 0 /\ log[a][pos[a]] = 0 => NextEvent(a) = 0
<1>1. log[a] \in Seq(Nat) /\ Len(log[a]) \in Nat /\ pos[a] \in Nat
  BY LogTypes DEF Fits, Written, ViewTypes
<1>2. pos[a] + 1 \in 1 .. Len(log[a])
  BY <1>1 DEF MayProject
<1>3. log[a][pos[a] + 1] \in Nat
  BY <1>1, <1>2
<1>4. log[a][pos[a] + 1] \in {0, pos[a] + 1}
  BY <1>2 DEF Fits, LogIsHistory
<1>5. log[a][pos[a] + 1] <= row[a].version
  BY <1>2 DEF Fits, Written, RowsFit, RowFits
<1>6. ASSUME pos[a] > 0, log[a][pos[a]] = 0
      PROVE  log[a][pos[a] + 1] = 0
  <2>1. pos[a] \in 1 .. (pos[a] + 1) - 1
    BY <1>1, <1>6
  <2> QED
    BY <1>2, <1>6, <2>1 DEF Fits, LogIsHistory
<1> QED
  BY <1>1, <1>2, <1>3, <1>4, <1>5, <1>6 DEF NextEvent

LEMMA WritesStay ==
  ASSUME Fits, UNCHANGED writeVars
  PROVE  Written' /\ LogIsHistory'
<1>1. UNCHANGED <<row, log, call>>
  BY DEF writeVars
<1> QED
  BY <1>1 DEF Fits, Written, WriteTypes, RowsFit, CallsFit, CallFits, Exists, EndsDeleted, Doing,
              LogIsHistory

LEMMA ProjectFits ==
  ASSUME Fits, NEW a \in Rows, ApplyCatalogEvent(a)
  PROVE  Fits'
<1>1. /\ MayProject(a) /\ pos' = [pos EXCEPT ![a] = pos[a] + 1]
      /\ read' = Applied(a, NextEvent(a)) /\ skipped' = skipped /\ UNCHANGED writeVars
      /\ log' = log
  BY DEF ApplyCatalogEvent, Advance, writeVars
<1>2. pos \in [Rows -> Nat] /\ read \in [Rows -> Nat] /\ \A b \in Rows : pos[b] <= Len(log[b])
  BY DEF Fits, ViewTypes
<1>3. /\ pos'[a] = pos[a] + 1 /\ \A b \in Rows \ {a} : pos'[b] = pos[b]
      /\ pos' \in [Rows -> Nat]
  BY <1>1, <1>2
<1>4. /\ read'[a] = NextEvent(a)
      /\ \A b \in Rows \ {a} : read'[b] \in {0, read[b]}
      /\ a = Restaurant \/ read'[Restaurant] = read[Restaurant]
      /\ read' \in [Rows -> Nat]
  BY <1>1, <1>2, NextEventFits DEF Applied, Rows
<1>5. ViewTypes'
  <2>1. \A b \in Rows : pos'[b] <= Len(log[b])
    BY <1>1, <1>2, <1>3, NextEventFits
  <2> QED
    BY <1>1, <1>3, <1>4, <2>1 DEF Fits, ViewTypes
<1>6. ViewsFit'
  <2>1. ASSUME NEW b \in Rows \ skipped, pos'[b] > 0, log[b][pos'[b]] = 0
        PROVE  read'[b] = 0
    <3>1. CASE b = a
      BY <1>1, <1>3, <1>4, <2>1, <3>1, NextEventFits
    <3>2. CASE b # a
      <4>1. read[b] = 0
        BY <1>3, <2>1, <3>2 DEF Fits, ViewsFit
      <4> QED
        BY <1>4, <3>2, <4>1
    <3> QED
      BY <3>1, <3>2
  <2>2. read'[Restaurant] <= pos'[Restaurant]
    <3>1. read[Restaurant] <= pos[Restaurant] /\ Restaurant \in Rows
      BY DEF Fits, ViewsFit, Rows
    <3>2. CASE a = Restaurant
      <4>1. NextEvent(a) <= pos[a] + 1
        BY <1>1, NextEventFits
      <4> QED
        BY <1>3, <1>4, <3>2, <4>1
    <3>3. CASE a # Restaurant
      BY <1>3, <1>4, <3>1, <3>3
    <3> QED
      BY <3>2, <3>3
  <2> QED
    BY <1>1, <2>1, <2>2 DEF ViewsFit
<1> QED
  BY <1>1, <1>5, <1>6, WritesStay DEF Fits

LEMMA DeadLetterFits ==
  ASSUME Fits, NEW a \in Rows, DeadLetter(a)
  PROVE  Fits'
<1>1. /\ MayProject(a) /\ pos' = [pos EXCEPT ![a] = pos[a] + 1]
      /\ read' = read /\ skipped' = skipped \cup {a} /\ UNCHANGED writeVars
      /\ log' = log
  BY DEF DeadLetter, Advance, writeVars
<1>2. pos \in [Rows -> Nat] /\ \A b \in Rows : pos[b] <= Len(log[b])
  BY DEF Fits, ViewTypes
<1>3. /\ pos'[a] = pos[a] + 1 /\ \A b \in Rows \ {a} : pos'[b] = pos[b]
      /\ pos' \in [Rows -> Nat]
  BY <1>1, <1>2
<1>4. ViewTypes'
  <2>1. \A b \in Rows : pos'[b] <= Len(log[b])
    BY <1>1, <1>2, <1>3, NextEventFits
  <2> QED
    BY <1>1, <1>3, <2>1 DEF Fits, ViewTypes
<1>5. ViewsFit'
  <2>1. \A b \in Rows \ skipped' : pos'[b] = pos[b] /\ b \in Rows \ skipped
    BY <1>1, <1>3
  <2>2. read[Restaurant] <= pos'[Restaurant]
    <3>1. read[Restaurant] <= pos[Restaurant] /\ Restaurant \in Rows /\ read[Restaurant] \in Nat
      BY DEF Fits, ViewsFit, Rows, ViewTypes
    <3>2. pos'[Restaurant] \in {pos[Restaurant], pos[Restaurant] + 1} /\ pos[Restaurant] \in Nat
      BY <1>2, <1>3, <3>1
    <3> QED
      BY <3>1, <3>2
  <2> QED
    BY <1>1, <2>1, <2>2 DEF Fits, ViewsFit
<1> QED
  BY <1>1, <1>4, <1>5, WritesStay DEF Fits

LEMMA InitFits ==
  ASSUME Init
  PROVE  CatalogInv
<1>1. PICK made \in SUBSET Items :
        /\ row = [a \in Rows |-> IF a \in Items \ made THEN [state |-> "NONE", version |-> 0]
                                 ELSE [state |-> "LIVE", version |-> 1]]
        /\ log = [a \in Rows |-> IF a \in Items \ made THEN <<>> ELSE <<1>>]
  BY DEF Init
<1>2. /\ call = [c \in Calls |-> NoCall] /\ pos = [a \in Rows |-> 0] /\ read = [a \in Rows |-> 0]
      /\ skipped = {} /\ at = [x \in Actors |-> "IDLE"] /\ held = [x \in Actors |-> 0]
      /\ cache = {} /\ ratings = 0 /\ faults = 0 /\ Restaurant \in Rows
  BY DEF Init, Rows
<1>3. <<>> \in Seq(Nat) /\ <<1>> \in Seq(Nat) /\ Len(<<>>) = 0 /\ Len(<<1>>) = 1 /\ <<1>>[1] = 1
  OBVIOUS
<1>4. \A a \in Rows :
        \/ log[a] = <<>> /\ row[a] = [state |-> "NONE", version |-> 0] /\ a # Restaurant
        \/ log[a] = <<1>> /\ row[a] = [state |-> "LIVE", version |-> 1]
  BY <1>1
<1>5. WriteTypes
  <2>1. NoCall \in CallRecord
    BY <1>2 DEF NoCall, CallRecord
  <2> QED
    BY <1>1, <1>2, <1>3, <2>1 DEF WriteTypes
<1>6. RowsFit
  <2>1. row[Restaurant].state # "NONE"
    BY <1>2, <1>4
  <2>2. ASSUME NEW a \in Rows
        PROVE  RowFits(row[a], log[a])
    <3>1. CASE log[a] = <<>> /\ row[a] = [state |-> "NONE", version |-> 0]
      BY <1>3, <3>1 DEF RowFits
    <3>2. CASE log[a] = <<1>> /\ row[a] = [state |-> "LIVE", version |-> 1]
      <4>1. \A k \in 1 .. 1 : k = 1
        OBVIOUS
      <4> QED
        BY <1>3, <3>2, <4>1 DEF RowFits
    <3> QED
      BY <1>4, <3>1, <3>2
  <2> QED
    BY <2>1, <2>2 DEF RowsFit
<1>7. CallsFit
  BY <1>2 DEF CallsFit, CallFits, NoCall, Doing
<1>8. LogIsHistory
  <2>1. ASSUME NEW a \in Rows, NEW k \in 1 .. Len(log[a])
        PROVE  k = 1 /\ log[a][k] = 1
    <3>1. log[a] = <<>> \/ log[a] = <<1>>
      BY <1>4
    <3>2. k \in Int /\ 1 <= k /\ k <= Len(log[a])
      BY <1>3, <3>1
    <3>3. log[a] = <<1>>
      BY <1>3, <3>1, <3>2
    <3> QED
      BY <1>3, <3>2, <3>3
  <2>2. \A k \in 1 .. 1 : ~\E j \in 1 .. k - 1 : TRUE
    OBVIOUS
  <2> QED
    BY <2>1, <2>2 DEF LogIsHistory
<1>9. ViewTypes /\ ViewsFit
  <2>1. \A a \in Rows : Len(log[a]) \in Nat
    BY <1>5, LogTypes
  <2> QED
    BY <1>2, <2>1 DEF ViewTypes, ViewsFit
<1>10. CacheTypes /\ BoundTypes
  BY <1>2 DEF CacheTypes, BoundTypes
<1> QED
  BY <1>5, <1>6, <1>7, <1>8, <1>9, <1>10, InvParts DEF Fits, Written

\* The cache keeps its types, whatever is done to it.
LEMMA CacheFits ==
  ASSUME Fits, CacheTypes,
         \/ \E a \in Rows : ApplyCatalogEvent(a)
         \/ Redeliver \/ ApplyReviewEvent
         \/ \E p \in Readers : Miss(p) \/ FailGet(p)
         \/ \E x \in Actors : CacheStep(x) \/ FailCache(x)
         \/ Expire
  PROVE  CacheTypes'
<1>1. /\ at \in [Actors -> {"IDLE", "LOAD", "STORE", "EVICT"}]
      /\ held \in [Actors -> Nat] /\ cache \subseteq Nat /\ read[Restaurant] \in Nat
  BY DEF CacheTypes, Fits, ViewTypes, Rows
<1>2. /\ \/ at' = at
         \/ \E x \in Actors : \E v \in {"IDLE", "LOAD", "STORE", "EVICT"} :
              at' = [at EXCEPT ![x] = v]
      /\ held' = held \/ \E x \in Actors : \E v \in Nat : held' = [held EXCEPT ![x] = v]
      /\ cache' \in {{}, cache} \/ \E x \in Actors : cache' = {held[x]}
  <2>1. CASE \E a \in Rows : ApplyCatalogEvent(a)
    BY <2>1 DEF ApplyCatalogEvent, Actors, Syncers
  <2>2. CASE Redeliver \/ ApplyReviewEvent
    BY <2>2 DEF Redeliver, ApplyReviewEvent, Actors, Syncers
  <2>3. CASE \E p \in Readers : Miss(p) \/ FailGet(p)
    BY <2>3 DEF Miss, FailGet, Actors
  <2>4. ASSUME NEW x \in Actors, Load(x)
        PROVE  <1>2!1 /\ <1>2!2 /\ <1>2!3
    BY <1>1, <2>4 DEF Load
  <2>5. ASSUME NEW x \in Actors, WriteThrough(x) \/ Invalidate(x) \/ FailCache(x)
        PROVE  <1>2!1 /\ <1>2!2 /\ <1>2!3
    BY <1>1, <2>5 DEF WriteThrough, Invalidate, FailCache
  <2>6. CASE Expire
    BY <2>6 DEF Expire
  <2> QED
    BY <2>1, <2>2, <2>3, <2>4, <2>5, <2>6 DEF CacheStep
<1>3. at' \in [Actors -> {"IDLE", "LOAD", "STORE", "EVICT"}]
  BY <1>1, <1>2
<1>4. held' \in [Actors -> Nat]
  BY <1>1, <1>2
<1>5. cache' \subseteq Nat
  <2>1. CASE cache' \in {{}, cache}
    BY <1>1, <2>1
  <2>2. ASSUME NEW x \in Actors, cache' = {held[x]}
        PROVE  cache' \subseteq Nat
    <3>1. held[x] \in Nat
      BY <1>1
    <3> QED
      BY <2>2, <3>1
  <2> QED
    BY <1>2, <2>1, <2>2
<1> QED
  BY <1>3, <1>4, <1>5 DEF CacheTypes

\* Every step keeps the invariant.
LEMMA StepFits ==
  ASSUME CatalogInv, [Next]_vars
  PROVE  CatalogInv'
<1>1. Fits /\ CacheTypes /\ BoundTypes
  BY InvParts
<1>2. CASE \E c \in Calls : Command(c)
  <2>1. Fits' /\ BoundTypes' /\ UNCHANGED cacheVars
    BY <1>1, <1>2, CommandFits
  <2>2. CacheTypes'
    BY <1>1, <2>1 DEF CacheTypes, cacheVars
  <2> QED
    BY <2>1, <2>2, InvParts
<1>3. ASSUME NEW a \in Rows, ApplyCatalogEvent(a)
      PROVE  CatalogInv'
  <2>1. Fits' /\ CacheTypes'
    BY <1>1, <1>3, ProjectFits, CacheFits
  <2>2. BoundTypes'
    BY <1>1, <1>3 DEF ApplyCatalogEvent, boundVars, BoundTypes
  <2> QED
    BY <2>1, <2>2, InvParts
<1>4. ASSUME NEW a \in Rows, DeadLetter(a)
      PROVE  CatalogInv'
  <2>1. Fits' /\ BoundTypes'
    BY <1>1, <1>4, DeadLetterFits, FaultBounds DEF DeadLetter
  <2>2. CacheTypes'
    BY <1>1, <1>4 DEF DeadLetter, cacheVars, CacheTypes
  <2> QED
    BY <2>1, <2>2, InvParts
<1>5. CASE \/ Redeliver \/ ApplyReviewEvent
           \/ \E p \in Readers : Miss(p) \/ FailGet(p)
           \/ \E x \in Actors : CacheStep(x) \/ FailCache(x)
           \/ Expire
  <2>1. CacheTypes'
    BY <1>1, <1>5, CacheFits
  <2>2. UNCHANGED <<writeVars, viewVars>>
    BY <1>5 DEF Redeliver, ApplyReviewEvent, Miss, FailGet, CacheStep, Load, WriteThrough,
                Invalidate, FailCache, Expire
  <2>3. Fits'
    BY <1>1, <2>2, FitsStays
  <2>4. UNCHANGED boundVars \/ Fault \/ ApplyReviewEvent
    BY <1>5 DEF Redeliver, Miss, FailGet, CacheStep, Load, WriteThrough, Invalidate, FailCache,
                Expire
  <2>5. BoundTypes'
    <3>1. CASE UNCHANGED boundVars
      BY <1>1, <3>1 DEF boundVars, BoundTypes
    <3>2. CASE ApplyReviewEvent
      BY <1>1, <3>2 DEF ApplyReviewEvent, BoundTypes
    <3> QED
      BY <1>1, <2>4, <3>1, <3>2, FaultBounds
  <2> QED
    BY <2>1, <2>3, <2>5, InvParts
<1>6. CASE UNCHANGED vars
  <2>1. UNCHANGED <<writeVars, viewVars>> /\ UNCHANGED cacheVars /\ UNCHANGED boundVars
    BY <1>6 DEF vars
  <2>2. Fits' /\ CacheTypes' /\ BoundTypes'
    BY <1>1, <2>1, FitsStays DEF cacheVars, boundVars, CacheTypes, BoundTypes
  <2> QED
    BY <2>2, InvParts
<1> QED
  BY <1>2, <1>3, <1>4, <1>5, <1>6 DEF Next

\* The inductive invariant of catalog.
THEOREM CatalogInvariant == Spec => []CatalogInv
<1>1. Init => CatalogInv
  BY InitFits
<1>2. CatalogInv /\ [Next]_vars => CatalogInv'
  BY StepFits
<1> QED
  BY <1>1, <1>2, PTL DEF Spec

\* Types, and a projector that is never ahead of its topic.
THEOREM TypeCorrect == Spec => []TypeOK
<1>1. CatalogInv => TypeOK
  BY DEF CatalogInv
<1> QED
  BY <1>1, CatalogInvariant, PTL

\* Versioned updates, deletions and creations that overlap write a history.
THEOREM EventsAreHistory == Spec => []LogIsHistory
<1>1. CatalogInv => LogIsHistory
  BY DEF CatalogInv
<1> QED
  BY <1>1, CatalogInvariant, PTL

\* What the deletion of a restaurant listed does not stay in the read model.
THEOREM ListedVanish == Spec => []ListedItemsVanish
<1>1. CatalogInv => ListedItemsVanish
  <2> SUFFICES ASSUME CatalogInv, NEW c \in Calls, NEW i \in call[c].listed,
                      call[c].pc = "DONE", pos[i] = Len(log[i]), i \notin skipped
               PROVE  read[i] = 0
    BY DEF ListedItemsVanish
  <2>1. i \in Rows
    BY DEF CatalogInv, TypeOK, WriteTypes, CallRecord, Rows
  <2>2. EndsDeleted(i)
    BY DEF CatalogInv, CallsFit, CallFits
  <2>3. log[i] \in Seq(Nat) /\ Len(log[i]) > 0
    <3>1. log[i] \in Seq(Nat) /\ log[i] # <<>>
      BY <2>1, <2>2 DEF CatalogInv, TypeOK, WriteTypes, EndsDeleted
    <3> QED
      BY <3>1
  <2> QED
    BY <2>1, <2>2, <2>3 DEF EndsDeleted, CatalogInv, ViewsFit
<1> QED
  BY <1>1, CatalogInvariant, PTL

-----------------------------------------------------------------------------
(* The contract                                                            *)

version == row[Restaurant].version
seen == pos[Restaurant]

\* Whether readers were told of the deletion depends on what was projected.
LEMMA ToldStays ==
  ASSUME Fits, pos' = pos, \A a \in Rows : Extends(a, log'[a])
  PROVE  Told' = Told
<1>1. Restaurant \in Rows /\ seen \in Nat /\ seen <= Len(log[Restaurant])
  BY DEF Rows, Fits, ViewTypes, seen
<1>2. /\ Len(log[Restaurant]) \in Nat
      /\ \A k \in 1 .. Len(log[Restaurant]) : log'[Restaurant][k] = log[Restaurant][k]
  BY <1>1, ExtendsHistory DEF Fits, Written
<1>3. \A k \in 1 .. seen : k \in 1 .. Len(log[Restaurant])
  BY <1>1, <1>2
<1>4. \A k \in 1 .. seen : log'[Restaurant][k] = log[Restaurant][k]
  BY <1>2, <1>3
<1> QED
  BY <1>4 DEF Told, seen

\* A command writes the restaurant's next version, deletes it, or neither.
LEMMA CommandKeepsContract ==
  ASSUME Fits, NEW c \in Calls, Command(c), UNCHANGED viewVars
  PROVE  [Contract!Next]_(Contract!vars)
<1>1. read' = read /\ Told' = Told
  <2>1. pos' = pos /\ read' = read
    BY DEF viewVars
  <2> QED
    BY <2>1, CommandWrites, ToldStays DEF Fits
<1>2. /\ row \in [Rows -> [state : {"NONE", "LIVE", "DELETED"}, version : Nat]]
      /\ Restaurant \in Rows /\ Exists(Restaurant) /\ version \in Nat
      /\ CallFits(c)
  BY DEF Fits, Written, WriteTypes, RowsFit, Exists, Rows, version, CallsFit
<1>3. CASE row'[Restaurant] = row[Restaurant]
  BY <1>1, <1>3 DEF Contract!vars, Gone
<1>4. CASE UpdateVersioned(c) /\ row'[Restaurant] # row[Restaurant]
  <2>1. /\ Unchanged(c) /\ Write(call[c].target, call[c].version + 1)
        /\ call[c].target = Restaurant
    BY <1>2, <1>4 DEF UpdateVersioned, Write
  <2>2. /\ row[Restaurant].state = "LIVE"
        /\ row'[Restaurant] = [state |-> "LIVE", version |-> version + 1]
    BY <1>2, <2>1 DEF Unchanged, Live, Write, version
  <2>3. Contract!Write
    BY <1>1, <2>2 DEF Contract!Write, Gone, version
  <2> QED
    BY <2>3 DEF Contract!Next
<1>5. CASE DeleteRestaurant(c)
  <2>1. row'[Restaurant] = [row[Restaurant] EXCEPT !.state = "DELETED"]
    BY <1>2, <1>5 DEF DeleteRestaurant
  <2>2. row'[Restaurant].state = "DELETED" /\ row'[Restaurant].version = version
    BY <1>2, <2>1 DEF version
  <2>3. Contract!Delete
    BY <1>1, <2>2 DEF Contract!Delete, Gone, version
  <2> QED
    BY <2>3 DEF Contract!Next
<1>6. CASE CreateMenuItem(c)
  <2>1. row'[Restaurant] = row[Restaurant]
    BY <1>2, <1>6 DEF CreateMenuItem, Doing, CallFits, Exists, Write
  <2> QED
    BY <1>3, <2>1
<1>7. CASE DeleteMenuItem(c)
  <2>1. row'[Restaurant] = row[Restaurant]
    BY <1>2, <1>7 DEF DeleteMenuItem
  <2> QED
    BY <1>3, <2>1
<1>8. CASE \/ ReadRestaurant(c) \/ ReadItem(c) \/ CheckParent(c)
           \/ FindAllByRestaurant(c) \/ SoftDelete(c) \/ FailCall(c)
  <2>1. row' = row
    BY <1>8 DEF ReadRestaurant, ReadItem, CheckParent, Begin, FindAllByRestaurant, SoftDelete,
                FailCall
  <2> QED
    BY <1>3, <2>1
<1> QED
  BY <1>3, <1>4, <1>5, <1>6, <1>7, <1>8 DEF Command

\* What was projected when one more event of the restaurant is.
LEMMA ToldGrows ==
  ASSUME Fits, MayProject(Restaurant), log' = log, pos' = [pos EXCEPT ![Restaurant] = seen + 1]
  PROVE  /\ seen \in Nat
         /\ NextEvent(Restaurant) = 0 => Gone /\ Told'
         /\ NextEvent(Restaurant) # 0 => ~Told /\ ~Told'
<1>1. /\ Restaurant \in Rows /\ seen \in Nat /\ seen + 1 \in 1 .. Len(log[Restaurant])
      /\ NextEvent(Restaurant) = log[Restaurant][seen + 1]
  BY NextEventFits DEF Rows, seen
<1>2. pos'[Restaurant] = seen + 1
  BY <1>1 DEF Fits, ViewTypes
<1>3. \A k \in 1 .. seen : k \in 1 .. (seen + 1) - 1
  BY <1>1
<1>4. \A k \in 1 .. seen : log[Restaurant][k] = 0 => log[Restaurant][seen + 1] = 0
  BY <1>1, <1>3 DEF Fits, LogIsHistory
<1>5. CASE NextEvent(Restaurant) = 0
  <2>1. ~Live(Restaurant) /\ row[Restaurant].state # "NONE"
    BY <1>1, <1>5 DEF Fits, Written, RowsFit, RowFits, Live
  <2>2. Gone
    BY <1>1, <2>1 DEF Fits, Written, WriteTypes, Live, Gone
  <2>3. seen + 1 \in 1 .. seen + 1
    BY <1>1
  <2>4. Told'
    BY <1>1, <1>2, <1>5, <2>3 DEF Told
  <2> QED
    BY <1>1, <1>5, <2>2, <2>4
<1>6. CASE NextEvent(Restaurant) # 0
  <2>1. ~Told
    BY <1>1, <1>4, <1>6 DEF Told, seen
  <2>2. \A k \in 1 .. seen + 1 : k \in 1 .. seen \/ k = seen + 1
    BY <1>1
  <2>3. \A k \in 1 .. seen + 1 : log[Restaurant][k] # 0
    BY <1>1, <1>4, <1>6, <2>2
  <2>4. ~Told'
    BY <1>2, <2>3 DEF Told
  <2> QED
    BY <1>1, <1>6, <2>1, <2>4
<1> QED
  BY <1>5, <1>6

\* A projector shows the next version, or tells of the deletion.
LEMMA ProjectorKeepsContract ==
  ASSUME Fits, NEW a \in Rows, ApplyCatalogEvent(a) \/ DeadLetter(a)
  PROVE  [Contract!Next]_(Contract!vars)
<1>1. /\ MayProject(a) /\ pos' = [pos EXCEPT ![a] = pos[a] + 1]
      /\ row' = row /\ log' = log
      /\ read' = read \/ read' = Applied(a, NextEvent(a))
  BY DEF ApplyCatalogEvent, DeadLetter, Advance, writeVars
<1>2. /\ Restaurant \in Rows /\ pos \in [Rows -> Nat]
      /\ read \in [Rows -> Nat] /\ read[Restaurant] <= seen /\ version \in Nat
  BY DEF Fits, ViewTypes, Rows, ViewsFit, seen, Written, WriteTypes, version
<1>3. CASE a # Restaurant
  <2>1. read'[Restaurant] = read[Restaurant] /\ pos'[Restaurant] = pos[Restaurant]
    BY <1>1, <1>2, <1>3 DEF Applied
  <2>2. Told' = Told
    BY <1>1, <2>1 DEF Told
  <2> QED
    BY <1>1, <2>1, <2>2 DEF Contract!vars, Gone
<1>4. CASE a = Restaurant
  <2>1. /\ seen \in Nat
        /\ NextEvent(a) = 0 => Gone /\ Told'
        /\ NextEvent(a) # 0 => ~Told /\ ~Told'
    BY <1>1, <1>4, ToldGrows DEF seen
  <2>2. read'[Restaurant] = read[Restaurant] \/ read'[Restaurant] = NextEvent(a)
    BY <1>1, <1>2, <1>4 DEF Applied
  <2>3. CASE NextEvent(a) = 0
    <3>1. read'[Restaurant] \in {0, read[Restaurant]} /\ row' = row /\ Gone /\ Told'
      BY <1>1, <2>1, <2>2, <2>3
    <3>2. Contract!Tell
      BY <3>1 DEF Contract!Tell, Gone
    <3> QED
      BY <3>2 DEF Contract!Next
  <2>4. CASE NextEvent(a) # 0
    <3>1. NextEvent(a) = seen + 1 /\ NextEvent(a) <= version
      BY <1>1, <1>4, <2>4, NextEventFits DEF seen, version
    <3>2. Told' = Told
      BY <2>1, <2>4 DEF Told
    <3>4. CASE read'[Restaurant] = read[Restaurant]
      BY <1>1, <3>2, <3>4 DEF Contract!vars, Gone
    <3>3. CASE read'[Restaurant] = NextEvent(a)
      <4>1. read'[Restaurant] \in read[Restaurant] + 1 .. version
        BY <1>2, <2>1, <3>1, <3>3
      <4>2. Contract!Show
        BY <1>1, <2>1, <2>4, <3>2, <4>1 DEF Contract!Show, Gone, version
      <4> QED
        BY <4>2 DEF Contract!Next
    <3> QED
      BY <2>2, <3>3, <3>4
  <2> QED
    BY <2>3, <2>4
<1> QED
  BY <1>3, <1>4

\* The read model keeps its contract: versions in their order, and nothing of a
\* restaurant after its deletion was projected.
THEOREM ImplementsReadModel == Spec => KeepsReadModel
<1>1. Init => Contract!Init
  <2> SUFFICES ASSUME Init PROVE Contract!Init
    OBVIOUS
  <2>1. Restaurant \in Rows \ Items
    BY DEF Rows
  <2>2. row[Restaurant] = [state |-> "LIVE", version |-> 1]
    BY <2>1 DEF Init
  <2>3. read[Restaurant] = 0 /\ pos[Restaurant] = 0
    BY <2>1 DEF Init
  <2>4. ~Told
    BY <2>3 DEF Told
  <2> QED
    BY <2>2, <2>3, <2>4 DEF Contract!Init, Gone
<1>2. CatalogInv /\ [Next]_vars => [Contract!Next]_(Contract!vars)
  <2> SUFFICES ASSUME CatalogInv, [Next]_vars
               PROVE  [Contract!Next]_(Contract!vars)
    OBVIOUS
  <2>1. Fits /\ BoundTypes
    BY InvParts
  <2>2. ASSUME NEW c \in Calls, Command(c)
        PROVE  [Contract!Next]_(Contract!vars)
    BY <2>1, <2>2, CommandFits, CommandKeepsContract
  <2>3. ASSUME NEW a \in Rows, ApplyCatalogEvent(a) \/ DeadLetter(a)
        PROVE  [Contract!Next]_(Contract!vars)
    BY <2>1, <2>3, ProjectorKeepsContract
  <2>4. ASSUME UNCHANGED <<writeVars, viewVars>>
        PROVE  UNCHANGED Contract!vars
    <3>1. UNCHANGED <<row, log, pos, read>>
      BY <2>4 DEF writeVars, viewVars
    <3> QED
      BY <3>1 DEF Contract!vars, Gone, Told
  <2>5. CASE \/ Redeliver \/ ApplyReviewEvent
             \/ \E p \in Readers : Miss(p) \/ FailGet(p)
             \/ \E x \in Actors : CacheStep(x) \/ FailCache(x)
             \/ Expire \/ UNCHANGED vars
    <3>1. UNCHANGED <<writeVars, viewVars>>
      BY <2>5 DEF Redeliver, ApplyReviewEvent, Miss, FailGet, CacheStep, Load, WriteThrough,
                  Invalidate, FailCache, Expire, vars
    <3> QED
      BY <2>4, <3>1
  <2> QED
    BY <2>2, <2>3, <2>5 DEF Next
<1> QED
  BY <1>1, <1>2, CatalogInvariant, PTL DEF Spec, KeepsReadModel, Contract!Spec
=============================================================================
