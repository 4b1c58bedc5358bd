-------------------------- MODULE OrderPartitions --------------------------
(***************************************************************************)
(* apps/order's table "orders", partitioned by month: the migration that   *)
(* copies it into a partitioned table and swaps the two, the one back, and *)
(* the job that creates the partitions of this month and the next.         *)
(*                                                                         *)
(* The service goes on while a migration runs.  A migration is one         *)
(* transaction at read committed: each statement sees what is committed by *)
(* then, and the first that keeps writers out is the swap.  PostgreSQL is  *)
(* external: a row goes to the partition of its month or, for want of one, *)
(* to DEFAULT, and a month that has rows in DEFAULT gets no partition.     *)
(***************************************************************************)
EXTENDS Integers, Sequences, FiniteSets

CONSTANTS
  OrderRows,  \* orders that may be placed
  Processes,  \* processes of apps/order, each with a maintenance job
  MaxMonth,   \* bound on the months a behaviour spans
  MaxSwaps    \* bound on the migrations that succeed

PartitionBounds == MaxMonth \in Nat /\ MaxSwaps \in Nat

Months == 0..MaxMonth + 1

VARIABLES
  month,       \* the current one
  ordersTable, \* status and month of each row of "orders"
  items,       \* orders with rows in order_items
  written,     \* what was last committed for each order
  layout,      \* is the table partitioned?
  partitions,  \* months with a partition
  strays,      \* rows in DEFAULT
  jobs,        \* the maintenance of each process
  ensured,     \* months whose maintenance met no error, in this layout
  migration,   \* the running one: its stage, its copy, the rows it has missed
  raced,       \* rows that a migration that succeeded has missed
  swaps        \* migrations that succeeded

rowVars == <<ordersTable, items, written>>
layoutVars == <<layout, partitions, strays>>
jobVars == <<jobs, ensured>>
migrationVars == <<migration, raced, swaps>>
vars == <<month, rowVars, layoutVars, jobVars, migrationVars>>

Absent == [status |-> "NONE", month |-> 0]
NoRows == [r \in OrderRows |-> Absent]
NoJob == [now |-> 0, left |-> <<>>, clean |-> FALSE]
NoMigration == [stage |-> "NONE", copy |-> NoRows, months |-> {}, missed |-> {}]

Present(table) == {r \in OrderRows : table[r] # Absent}

Init ==
  /\ month = 0
  /\ ordersTable = NoRows /\ items = {} /\ written = NoRows
  /\ layout = "PLAIN" /\ partitions = {} /\ strays = {}
  /\ jobs = [p \in Processes |-> NoJob] /\ ensured = {}
  /\ migration = NoMigration /\ raced = {} /\ swaps = 0

-----------------------------------------------------------------------------
(* The service.                                                            *)

Put(r, row) ==
  /\ ordersTable' = [ordersTable EXCEPT ![r] = row]
  /\ written' = [written EXCEPT ![r] = row]

\* The way back misses no inserted order: see SwapBack.
InsertOrder(r) ==
  /\ r \notin items
  /\ Put(r, [status |-> "PENDING", month |-> month])
  /\ items' = items \cup {r}
  /\ strays' = IF layout = "PARTITIONED" /\ month \notin partitions THEN strays \cup {r} ELSE strays
  /\ migration' = IF migration.stage = "COUNTED" /\ layout = "PLAIN"
                  THEN [migration EXCEPT !.missed = @ \cup {r}] ELSE migration
  /\ UNCHANGED <<month, layout, partitions, jobVars, raced, swaps>>

\* No count tells that a row changed after it was copied.
UpdateStatus(r) ==
  /\ ordersTable[r].status = "PENDING"
  /\ Put(r, [ordersTable[r] EXCEPT !.status = "CANCELLED"])
  /\ migration' = IF r \in Present(migration.copy)
                  THEN [migration EXCEPT !.missed = @ \cup {r}] ELSE migration
  /\ UNCHANGED <<month, items, layoutVars, jobVars, raced, swaps>>

MonthTurns ==
  /\ month < MaxMonth
  /\ month' = month + 1
  /\ UNCHANGED <<rowVars, layoutVars, jobVars, migrationVars>>

-----------------------------------------------------------------------------
(* The maintenance job: at the start of a process, and monthly.            *)

\* Mutant: the months to come, but not the current one.
NextMonth(now) == <<now + 1>>

Upcoming(now) == <<now, now + 1>>

EnsureUpcomingPartitions(p) ==
  /\ jobs[p].left = <<>>
  /\ jobs' = [jobs EXCEPT ![p] = [now |-> month, left |-> Upcoming(month), clean |-> TRUE]]
  /\ UNCHANGED <<month, rowVars, layoutVars, ensured, migrationVars>>

CanCreate(m) ==
  /\ layout = "PARTITIONED"
  /\ \A r \in strays : ordersTable[r].month # m

\* An error is logged, and the next month is tried.
EnsurePartition(p) ==
  /\ jobs[p].left # <<>>
  /\ LET m == Head(jobs[p].left)
         rest == Tail(jobs[p].left)
     IN  /\ partitions' \in {partitions} \cup IF CanCreate(m) THEN {partitions \cup {m}} ELSE {}
         /\ jobs' = [jobs EXCEPT ![p] = [now |-> jobs[p].now, left |-> rest,
                                         clean |-> jobs[p].clean /\ m \in partitions']]
         /\ ensured' = IF rest = <<>> /\ jobs'[p].clean THEN ensured \cup {jobs[p].now} ELSE ensured
  /\ UNCHANGED <<month, rowVars, layout, strays, migrationVars>>

StopProcess(p) ==
  /\ jobs[p].left # <<>>
  /\ jobs' = [jobs EXCEPT ![p] = NoJob]
  /\ UNCHANGED <<month, rowVars, layoutVars, ensured, migrationVars>>

-----------------------------------------------------------------------------
(* The migrations.                                                         *)

\* The months from the oldest row's to the next one.
Span ==
  LET used == {ordersTable[r].month : r \in Present(ordersTable)} \cup {month}
  IN  {m \in Months : m <= month + 1 /\ \E u \in used : u <= m}

CopyRows ==
  /\ migration = NoMigration /\ swaps < MaxSwaps
  /\ migration' = [stage |-> "COPIED", copy |-> ordersTable, missed |-> {},
                   months |-> IF layout = "PLAIN" THEN Span ELSE {}]
  /\ UNCHANGED <<month, rowVars, layoutVars, jobVars, raced, swaps>>

\* Mutant: the copy is taken for complete.
TrustCopy ==
  /\ migration.stage = "COPIED"
  /\ migration' = [migration EXCEPT !.stage = "COUNTED"]
  /\ UNCHANGED <<month, rowVars, layoutVars, jobVars, raced, swaps>>

\* An exception rolls the migration back.
CompareCounts ==
  /\ migration.stage = "COPIED"
  /\ migration' = IF Cardinality(Present(migration.copy)) = Cardinality(Present(ordersTable))
                  THEN [migration EXCEPT !.stage = "COUNTED"] ELSE NoMigration
  /\ UNCHANGED <<month, rowVars, layoutVars, jobVars, raced, swaps>>

Swap(to, months) ==
  /\ ordersTable' = migration.copy
  /\ layout' = to /\ partitions' = months /\ strays' = {}
  /\ jobs' = [p \in Processes |-> [jobs[p] EXCEPT !.clean = FALSE]] /\ ensured' = {}
  /\ raced' = raced \cup migration.missed
  /\ swaps' = swaps + 1

\* From here on writers wait; the old table is dropped, whatever it holds.
SwapToPartitioned ==
  /\ migration.stage = "COUNTED" /\ layout = "PLAIN"
  /\ Swap("PARTITIONED", migration.months)
  /\ migration' = NoMigration
  /\ UNCHANGED <<month, items, written>>

\* The foreign key of order_items comes back, and refuses items without order.
SwapBack ==
  /\ migration.stage = "COUNTED" /\ layout = "PARTITIONED"
  /\ IF items \subseteq Present(migration.copy)
     THEN Swap("PLAIN", {})
     ELSE UNCHANGED <<ordersTable, layoutVars, jobVars, raced, swaps>>
  /\ migration' = NoMigration
  /\ UNCHANGED <<month, items, written>>

Next ==
  \/ \E r \in OrderRows : InsertOrder(r) \/ UpdateStatus(r)
  \/ MonthTurns
  \/ \E p \in Processes : EnsureUpcomingPartitions(p) \/ EnsurePartition(p) \/ StopProcess(p)
  \/ CopyRows \/ CompareCounts \/ SwapToPartitioned \/ SwapBack

Spec == Init /\ [][Next]_vars

-----------------------------------------------------------------------------
OrderRow == [status : {"NONE", "PENDING", "CANCELLED"}, month : 0..MaxMonth]

(* The state is what the declarations say.                                 *)
TypeOK ==
  /\ month \in 0..MaxMonth
  /\ ordersTable \in [OrderRows -> OrderRow] /\ written \in [OrderRows -> OrderRow]
  /\ items \in SUBSET OrderRows
  /\ layout \in {"PLAIN", "PARTITIONED"}
  /\ partitions \in SUBSET Months /\ strays \in SUBSET OrderRows
  /\ jobs \in [Processes -> [now : 0..MaxMonth, left : Seq(Months), clean : BOOLEAN]]
  /\ ensured \in SUBSET (0..MaxMonth)
  /\ migration \in [stage : {"NONE", "COPIED", "COUNTED"}, copy : [OrderRows -> OrderRow],
                    months : SUBSET Months, missed : SUBSET OrderRows]
  /\ raced \in SUBSET OrderRows /\ swaps \in 0..MaxSwaps

\* An order outlives every migration, there and back, with the status it was
\* given last, unless it was placed between the migration's count and its swap,
\* or changed between its copy and its swap.
OrdersOutliveMigrations ==
  \A r \in OrderRows \ raced : ordersTable[r] = written[r]

\* Maintenance that met no error in the month before, or in the month itself,
\* leaves no order of a month to DEFAULT, from which no partition takes it back.
StraysWereUnforeseen ==
  \A r \in strays : {ordersTable[r].month - 1, ordersTable[r].month} \cap ensured = {}

PartitionsKeepOrders == OrdersOutliveMigrations /\ StraysWereUnforeseen
=============================================================================
