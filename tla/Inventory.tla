----------------------------- MODULE Inventory -----------------------------
(***************************************************************************)
(* apps/inventory: reserving and releasing the stock of an order, for      *)
(* concurrent calls from the saga's Kafka consumer and from gRPC, on       *)
(* several replicas.  A call locks the items in Redis (with a time to      *)
(* live), then runs one READ COMMITTED transaction on the stock and        *)
(* reservation tables.  The locks may expire under a slow call, so rows    *)
(* and indexes have to keep the books on their own.                        *)
(*                                                                         *)
(* Items are numbers in the order in which keys are sorted.  An item       *)
(* without a stock row behaves like one with no stock.  A fault is a lock  *)
(* that expires in use, a crash, or a failing Redis or database command.   *)
(***************************************************************************)
EXTENDS Integers, FiniteSets

CONSTANTS
  Items,      \* item ids of one tenant
  Orders,     \* order ids
  Calls,      \* calls of ReserveStock and ReleaseStock, retries included
  Stock,      \* units on hand, per item
  Need,       \* units an order asks for, per item
  Nobody,     \* owner of a free lock
  MaxFaults   \* bound on the faults of one behaviour

ASSUME ItemsAssumption == Items \subseteq Nat /\ IsFiniteSet(Items)
ASSUME CallsAssumption == IsFiniteSet(Calls) /\ Nobody \notin Calls
ASSUME StockAssumption == Stock \in [Items -> Nat]
\* normalizeItems refuses an order without items.
ASSUME NeedAssumption ==
  /\ Need \in [Orders -> [Items -> Nat]]
  /\ \A o \in Orders : \E i \in Items : Need[o][i] > 0
ASSUME MaxFaultsAssumption == MaxFaults \in Nat

VARIABLES
  call,       \* kind and order of each call
  pc,         \* where each call is
  keys,       \* items whose locks the call wants
  holding,    \* items whose locks the call believes it holds
  lock,       \* Redis: owner of each item's lock
  overran,    \* calls that lost a lock while they used it
  available,  \* stock.available as committed, per item
  row,        \* reservations as committed: status of the row of a call and item
  todo,       \* rows a release has read and not handled yet
  taken,      \* items decremented by the call's open transaction
  added,      \* items with a row inserted by the open transaction
  freed,      \* rows set to RELEASED by the open transaction
  returned,   \* items increased by the open transaction
  answer,     \* what the caller gets
  faults

lockVars == <<keys, holding, lock, overran>>
txVars == <<todo, taken, added, freed, returned>>
tableVars == <<available, row>>
vars == <<call, pc, lockVars, tableVars, txVars, answer, faults>>

Kind == {"RESERVE", "RELEASE"}
Place == {"NEW", "LOCKING", "BACKOFF", "WORKING", "LEAVING", "DONE"}
RowStatus == {"NONE", "ACTIVE", "RELEASED"}
Answer == {"NONE", "OK", "SHORT", "CONFLICT", "CONTENTION", "ERROR"}
RowId == Calls \X Items

OrderOf(c) == call[c].order
Needed(o) == {i \in Items : Need[o][i] > 0}
Lowest(S) == CHOOSE i \in S : \A j \in S : i <= j
Highest(S) == CHOOSE i \in S : \A j \in S : j <= i

Init ==
  /\ call \in [Calls -> [kind : Kind, order : Orders]]
  /\ pc = [c \in Calls |-> "NEW"]
  /\ keys = [c \in Calls |-> {}]
  /\ holding = [c \in Calls |-> {}]
  /\ lock = [i \in Items |-> Nobody]
  /\ overran = {}
  /\ available = Stock
  /\ row = [id \in RowId |-> "NONE"]
  /\ todo = [c \in Calls |-> {}]
  /\ taken = [c \in Calls |-> {}]
  /\ added = [c \in Calls |-> {}]
  /\ freed = [c \in Calls |-> {}]
  /\ returned = [c \in Calls |-> {}]
  /\ answer = [c \in Calls |-> "NONE"]
  /\ faults = 0

Fault ==
  /\ faults < MaxFaults
  /\ faults' = faults + 1

Move(c, place) == pc' = [pc EXCEPT ![c] = place]
Reply(c, result) == answer' = [answer EXCEPT ![c] = result]

-----------------------------------------------------------------------------
(* Rows, row locks and the unique index, as PostgreSQL keeps them.         *)

\* Mutant: the rows of every order are found.
FindActiveOfAll(o) == {id \in RowId : row[id] = "ACTIVE"}

\* findActiveByOrder: the committed ACTIVE rows of an order.
FindActive(o) == {id \in RowId : row[id] = "ACTIVE" /\ OrderOf(id[1]) = o}

\* The entries of the unique index on ACTIVE rows.
Reserved(o) == {i \in Items : \E c \in Calls : OrderOf(c) = o /\ row[<<c, i>>] = "ACTIVE"}

\* An uncommitted UPDATE keeps its row locked.
WritesStock(c, i) == i \in taken[c] \cup returned[c]
WritesRow(c, id) == id \in freed[c]

\* An index entry in doubt: an uncommitted insert or release of the order's item.
InDoubt(c, o, i) ==
  \/ i \in added[c] /\ OrderOf(c) = o
  \/ \E id \in freed[c] : id[2] = i /\ OrderOf(id[1]) = o

StockFree(c, i) == \A d \in Calls \ {c} : ~WritesStock(d, i)
RowFree(c, id) == \A d \in Calls \ {c} : ~WritesRow(d, id)
EntryFree(c, i) == \A d \in Calls \ {c} : ~InDoubt(d, OrderOf(c), i)

Suffices(c, i) == available[i] >= Need[OrderOf(c)][i]

\* The next item of a reservation, and the row and item a release is at.
NextItem(c) == Lowest(Needed(OrderOf(c)) \ taken[c])
ItemToInsert(c) == Lowest(taken[c] \ added[c])
ItemsFreed(c) == {id[2] : id \in freed[c]}

\* The open transaction leaves nothing behind.
Discard(c) ==
  /\ todo' = [todo EXCEPT ![c] = {}]
  /\ taken' = [taken EXCEPT ![c] = {}]
  /\ added' = [added EXCEPT ![c] = {}]
  /\ freed' = [freed EXCEPT ![c] = {}]
  /\ returned' = [returned EXCEPT ![c] = {}]

-----------------------------------------------------------------------------
(* A call arrives; withLocks takes the keys in order, all or none.         *)

CallReserve(c) ==
  /\ pc[c] = "NEW" /\ call[c].kind = "RESERVE"
  /\ keys' = [keys EXCEPT ![c] = Needed(OrderOf(c))]
  /\ Move(c, "LOCKING")
  /\ UNCHANGED <<call, holding, lock, overran, tableVars, txVars, answer, faults>>

\* A release asks for the locks of the rows it finds, outside any lock.
CallRelease(c) ==
  /\ pc[c] = "NEW" /\ call[c].kind = "RELEASE"
  /\ keys' = [keys EXCEPT ![c] = {id[2] : id \in FindActive(OrderOf(c))}]
  /\ IF FindActive(OrderOf(c)) = {}
     THEN Move(c, "DONE") /\ Reply(c, "OK")
     ELSE Move(c, "LOCKING") /\ UNCHANGED answer
  /\ UNCHANGED <<call, holding, lock, overran, tableVars, txVars, faults>>

NextKey(c) == Lowest(keys[c] \ holding[c])

Acquire(c) ==
  /\ pc[c] = "LOCKING" /\ keys[c] # holding[c]
  /\ lock[NextKey(c)] = Nobody
  /\ lock' = [lock EXCEPT ![NextKey(c)] = c]
  /\ holding' = [holding EXCEPT ![c] = @ \cup {NextKey(c)}]
  /\ UNCHANGED <<call, pc, keys, overran, tableVars, txVars, answer, faults>>

Contend(c) ==
  /\ pc[c] = "LOCKING" /\ keys[c] # holding[c]
  /\ lock[NextKey(c)] # Nobody
  /\ Move(c, "BACKOFF")
  /\ UNCHANGED <<call, lockVars, tableVars, txVars, answer, faults>>

\* Mutant: the key is deleted whoever owns it.
FreeAnyLock(c, i) == [lock EXCEPT ![i] = Nobody]

\* RELEASE_SCRIPT: only the owner's token deletes the key.
FreeOwnLock(c, i) == IF lock[i] = c THEN [lock EXCEPT ![i] = Nobody] ELSE lock

\* releaseAll; a lock that cannot be freed is left to expire.
Unlock(c) ==
  /\ pc[c] \in {"BACKOFF", "LEAVING"} /\ holding[c] # {}
  /\ LET i == Highest(holding[c])
     IN  /\ holding' = [holding EXCEPT ![c] = @ \ {i}]
         /\ \/ lock' = FreeOwnLock(c, i) /\ UNCHANGED faults
            \/ Fault /\ UNCHANGED lock
  /\ UNCHANGED <<call, pc, keys, overran, tableVars, txVars, answer>>

Retry(c) ==
  /\ pc[c] = "BACKOFF" /\ holding[c] = {}
  /\ Move(c, "LOCKING")
  /\ UNCHANGED <<call, lockVars, tableVars, txVars, answer, faults>>

\* LockContentionError: the waiting time is over.
TimeOut(c) ==
  /\ pc[c] = "BACKOFF" /\ holding[c] = {}
  /\ Move(c, "DONE") /\ Reply(c, "CONTENTION")
  /\ UNCHANGED <<call, lockVars, tableVars, txVars, faults>>

Finish(c) ==
  /\ pc[c] = "LEAVING" /\ holding[c] = {}
  /\ Move(c, "DONE")
  /\ UNCHANGED <<call, lockVars, tableVars, txVars, answer, faults>>

\* PX ttl: a lock nobody uses any more, or one its owner still relies on.
Expire(i) ==
  /\ lock[i] # Nobody
  /\ IF i \in holding[lock[i]]
     THEN Fault /\ overran' = overran \cup {lock[i]}
     ELSE UNCHANGED <<faults, overran>>
  /\ lock' = [lock EXCEPT ![i] = Nobody]
  /\ UNCHANGED <<call, pc, keys, holding, tableVars, txVars, answer>>

-----------------------------------------------------------------------------
(* reserveWithinTransaction                                                *)

Locked(c) == pc[c] = "LOCKING" /\ holding[c] = keys[c]

\* An order that holds stock is a replay; it must be for the same items.
ReserveAgain(c) ==
  /\ Locked(c) /\ call[c].kind = "RESERVE"
  /\ LET rows == FindActive(OrderOf(c))
     IN  /\ rows # {}
         /\ Reply(c, IF {id[2] : id \in rows} = Needed(OrderOf(c)) THEN "OK" ELSE "CONFLICT")
  /\ Move(c, "LEAVING")
  /\ UNCHANGED <<call, lockVars, tableVars, txVars, faults>>

BeginReserve(c) ==
  /\ Locked(c) /\ call[c].kind = "RESERVE"
  /\ FindActive(OrderOf(c)) = {}
  /\ Move(c, "WORKING")
  /\ UNCHANGED <<call, lockVars, tableVars, txVars, answer, faults>>

Reserving(c) == pc[c] = "WORKING" /\ call[c].kind = "RESERVE"

\* decrementIfAvailable waits for the row, then tests and updates it.
AtItem(c) ==
  /\ Reserving(c)
  /\ added[c] = taken[c] /\ taken[c] # Needed(OrderOf(c))
  /\ StockFree(c, NextItem(c))

Decrement(c) ==
  /\ AtItem(c) /\ Suffices(c, NextItem(c))
  /\ taken' = [taken EXCEPT ![c] = @ \cup {NextItem(c)}]
  /\ UNCHANGED <<call, pc, lockVars, tableVars, todo, added, freed, returned, answer, faults>>

\* Mutant: what was already reserved is committed.
KeepWhenShort(c) ==
  /\ AtItem(c) /\ ~Suffices(c, NextItem(c))
  /\ available' = [i \in Items |-> IF i \in taken[c] THEN available[i] - Need[OrderOf(c)][i]
                                   ELSE available[i]]
  /\ row' = [id \in RowId |-> IF id[1] = c /\ id[2] \in added[c] THEN "ACTIVE" ELSE row[id]]
  /\ Discard(c)
  /\ Move(c, "LEAVING") /\ Reply(c, "SHORT")
  /\ UNCHANGED <<call, lockVars, faults>>

RunShort(c) ==
  /\ AtItem(c) /\ ~Suffices(c, NextItem(c))
  /\ Discard(c)
  /\ Move(c, "LEAVING") /\ Reply(c, "SHORT")
  /\ UNCHANGED <<call, lockVars, tableVars, faults>>

\* The unique index waits for an entry in doubt, then accepts or refuses.
AtInsert(c) ==
  /\ Reserving(c)
  /\ added[c] # taken[c]
  /\ EntryFree(c, ItemToInsert(c))

EntryTaken(c) == ItemToInsert(c) \in Reserved(OrderOf(c))

InsertRow(c) ==
  /\ AtInsert(c) /\ ~EntryTaken(c)
  /\ added' = [added EXCEPT ![c] = @ \cup {ItemToInsert(c)}]
  /\ UNCHANGED <<call, pc, lockVars, tableVars, todo, taken, freed, returned, answer, faults>>

ViolateIndex(c) ==
  /\ AtInsert(c) /\ EntryTaken(c)
  /\ Discard(c)
  /\ Move(c, "LEAVING") /\ Reply(c, "CONFLICT")
  /\ UNCHANGED <<call, lockVars, tableVars, faults>>

CommitReserve(c) ==
  /\ Reserving(c) /\ added[c] = Needed(OrderOf(c))
  /\ available' = [i \in Items |-> IF i \in taken[c] THEN available[i] - Need[OrderOf(c)][i]
                                   ELSE available[i]]
  /\ row' = [id \in RowId |-> IF id[1] = c /\ id[2] \in added[c] THEN "ACTIVE" ELSE row[id]]
  /\ Discard(c)
  /\ Move(c, "LEAVING") /\ Reply(c, "OK")
  /\ UNCHANGED <<call, lockVars, faults>>

-----------------------------------------------------------------------------
(* releaseWithinTransaction                                                *)

BeginRelease(c) ==
  /\ Locked(c) /\ call[c].kind = "RELEASE"
  /\ todo' = [todo EXCEPT ![c] = FindActive(OrderOf(c))]
  /\ IF FindActive(OrderOf(c)) = {}
     THEN Move(c, "LEAVING") /\ Reply(c, "OK")
     ELSE Move(c, "WORKING") /\ UNCHANGED answer
  /\ UNCHANGED <<call, lockVars, tableVars, taken, added, freed, returned, faults>>

Releasing(c) == pc[c] = "WORKING" /\ call[c].kind = "RELEASE"

\* Mutant: a row is set to RELEASED whatever its status.
AnyRow(id) == TRUE

StillActive(id) == row[id] = "ACTIVE"

\* releaseIfActive waits for the row; a row released meanwhile is skipped.
FreeRow(c) ==
  /\ Releasing(c) /\ returned[c] = ItemsFreed(c)
  /\ \E id \in todo[c] :
       /\ RowFree(c, id)
       /\ todo' = [todo EXCEPT ![c] = @ \ {id}]
       /\ freed' = IF StillActive(id) THEN [freed EXCEPT ![c] = @ \cup {id}] ELSE freed
  /\ UNCHANGED <<call, pc, lockVars, tableVars, taken, added, returned, answer, faults>>

\* increaseAvailable, for the row just freed.
ItemToReturn(c) == Lowest(ItemsFreed(c) \ returned[c])

ReturnStock(c) ==
  /\ Releasing(c) /\ returned[c] # ItemsFreed(c)
  /\ StockFree(c, ItemToReturn(c))
  /\ returned' = [returned EXCEPT ![c] = @ \cup {ItemToReturn(c)}]
  /\ UNCHANGED <<call, pc, lockVars, tableVars, todo, taken, added, freed, answer, faults>>

\* Mutant: the transaction stays open.
NeverCommitted(c) ==
  /\ Releasing(c) /\ todo[c] = {} /\ returned[c] = ItemsFreed(c)
  /\ Move(c, "LEAVING") /\ Reply(c, "OK")
  /\ UNCHANGED <<call, lockVars, tableVars, txVars, faults>>

CommitRelease(c) ==
  /\ Releasing(c) /\ todo[c] = {} /\ returned[c] = ItemsFreed(c)
  /\ available' = [i \in Items |-> IF i \in returned[c] THEN available[i] + Need[OrderOf(c)][i]
                                   ELSE available[i]]
  /\ row' = [id \in RowId |-> IF id \in freed[c] THEN "RELEASED" ELSE row[id]]
  /\ Discard(c)
  /\ Move(c, "LEAVING") /\ Reply(c, "OK")
  /\ UNCHANGED <<call, lockVars, faults>>

-----------------------------------------------------------------------------
(* Failures.                                                               *)

\* Whom the statement a call is at has to wait for.
WaitsFor(c) ==
  {d \in Calls \ {c} :
     \/ /\ Reserving(c) /\ added[c] = taken[c] /\ taken[c] # Needed(OrderOf(c))
        /\ WritesStock(d, NextItem(c))
     \/ /\ Reserving(c) /\ added[c] # taken[c]
        /\ InDoubt(d, OrderOf(c), ItemToInsert(c))
     \/ /\ Releasing(c) /\ returned[c] # ItemsFreed(c)
        /\ WritesStock(d, ItemToReturn(c))
     \/ /\ Releasing(c) /\ returned[c] = ItemsFreed(c) /\ todo[c] # {}
        /\ \A id \in todo[c] : ~RowFree(c, id)
        /\ \E id \in todo[c] : WritesRow(d, id)}

Deadlocked(c) ==
  \E S \in SUBSET Calls :
    c \in S /\ \A d \in S : WaitsFor(d) \cap S # {}

\* PostgreSQL breaks a deadlock, or a statement or the commit fails.
Abort(c) ==
  /\ pc[c] = "WORKING"
  /\ \/ Deadlocked(c) /\ UNCHANGED faults
     \/ Fault
  /\ Discard(c)
  /\ Move(c, "LEAVING") /\ Reply(c, "ERROR")
  /\ UNCHANGED <<call, lockVars, tableVars>>

\* The process dies, or Redis fails while locking: the transaction is rolled
\* back and the locks stay until they expire.
Crash(c) ==
  /\ pc[c] \notin {"NEW", "DONE"}
  /\ Fault
  /\ Discard(c)
  /\ holding' = [holding EXCEPT ![c] = {}]
  /\ Move(c, "DONE") /\ Reply(c, "ERROR")
  /\ UNCHANGED <<call, keys, lock, overran, tableVars>>

-----------------------------------------------------------------------------
LockStep(c) ==
  \/ CallReserve(c) \/ CallRelease(c) \/ Acquire(c) \/ Contend(c) \/ Unlock(c)
  \/ Retry(c) \/ TimeOut(c) \/ Finish(c)

ReserveStep(c) ==
  \/ ReserveAgain(c) \/ BeginReserve(c) \/ Decrement(c) \/ RunShort(c)
  \/ InsertRow(c) \/ ViolateIndex(c) \/ CommitReserve(c)

ReleaseStep(c) == BeginRelease(c) \/ FreeRow(c) \/ ReturnStock(c) \/ CommitRelease(c)

Next ==
  \/ \E c \in Calls : LockStep(c) \/ ReserveStep(c) \/ ReleaseStep(c) \/ Abort(c) \/ Crash(c)
  \/ \E i \in Items : Expire(i)

Spec == Init /\ [][Next]_vars

\* Node runs every call on; Redis expires keys; PostgreSQL detects deadlocks.
\* A call that backs off is not owed the locks, only its deadline.
Fairness ==
  /\ \A c \in Calls :
       /\ WF_vars(LockStep(c) \/ ReserveStep(c) \/ ReleaseStep(c) \/ Abort(c))
       /\ SF_vars(TimeOut(c))
  /\ \A i \in Items : WF_vars(Expire(i))

FairSpec == Spec /\ Fairness

-----------------------------------------------------------------------------
(* Properties.                                                             *)

TypeOK ==
  /\ call \in [Calls -> [kind : Kind, order : Orders]]
  /\ pc \in [Calls -> Place]
  /\ keys \in [Calls -> SUBSET Items]
  /\ holding \in [Calls -> SUBSET Items]
  /\ \A c \in Calls : holding[c] \subseteq keys[c]
  /\ lock \in [Items -> Calls \cup {Nobody}]
  /\ overran \subseteq Calls
  /\ available \in [Items -> Nat]
  /\ row \in [RowId -> RowStatus]
  /\ todo \in [Calls -> SUBSET RowId]
  /\ taken \in [Calls -> SUBSET Items]
  /\ added \in [Calls -> SUBSET Items]
  /\ freed \in [Calls -> SUBSET RowId]
  /\ returned \in [Calls -> SUBSET Items]
  /\ answer \in [Calls -> Answer]
  /\ faults \in 0 .. MaxFaults

\* The units of an item that committed reservations hold.
Units(i) ==
  UNION {{c} \X (1 .. Need[OrderOf(c)][i]) : c \in {d \in Calls : row[<<d, i>>] = "ACTIVE"}}

\* What is available and what is reserved is what there was: no unit is sold
\* twice, lost, or returned twice, even when locks expire under their owners.
Conservation == \A i \in Items : available[i] + Cardinality(Units(i)) = Stock[i]

\* An order holds all of its items or none, and each of them once.
AllOrNothing ==
  \A o \in Orders :
    /\ Reserved(o) \in {{}, Needed(o)}
    /\ \A id, other \in RowId :
         /\ id[2] = other[2] /\ OrderOf(id[1]) = o /\ OrderOf(other[1]) = o
         /\ row[id] = "ACTIVE" /\ row[other] = "ACTIVE"
         => id = other

\* Two calls work on one item at a time only after one of them outlived its
\* lock: an expired owner never frees the lock of its successor.
ExclusiveUnlessOverrun ==
  \A c, d \in Calls :
    /\ c # d /\ pc[c] = "WORKING" /\ pc[d] = "WORKING"
    /\ keys[c] \cap keys[d] # {}
    => c \in overran \/ d \in overran

\* A reservation that was answered OK lasts until a release of that order runs.
ReservedUntilReleased ==
  \A c \in Calls :
    /\ call[c].kind = "RESERVE" /\ answer[c] = "OK"
    /\ \A d \in Calls :
         call[d].kind = "RELEASE" /\ OrderOf(d) = OrderOf(c) => pc[d] = "NEW"
    => Reserved(OrderOf(c)) = Needed(OrderOf(c))

\* Inventory implements its contract: what commits is a whole reservation or a
\* whole release.
Contract == INSTANCE StockContract WITH held <- {o \in Orders : Reserved(o) # {}}

KeepsStockContract == Contract!Spec

\* Every call is answered: contention ends at the deadline, deadlocks are broken.
EveryCallAnswered == \A c \in Calls : pc[c] # "NEW" ~> pc[c] = "DONE"

-----------------------------------------------------------------------------
(* The inductive strengthening of the invariants above, part by part.      *)

\* The rows of a call are written once, for all items of its order together.
RowsFit(c) ==
  /\ pc[c] \in {"NEW", "LOCKING", "BACKOFF", "WORKING"} =>
       \A i \in Items : row[<<c, i>>] = "NONE"
  /\ \A i \in Items : row[<<c, i>>] # "NONE" => i \in Needed(OrderOf(c))
  /\ \A i, j \in Needed(OrderOf(c)) : row[<<c, i>>] = row[<<c, j>>]

\* What a call believes of its locks is true unless one has expired.
LocksFit(c) ==
  /\ pc[c] \in {"NEW", "DONE"} => holding[c] = {}
  /\ pc[c] = "WORKING" => holding[c] = keys[c]
  /\ \A i \in holding[c] : lock[i] = c \/ c \in overran

\* What a reservation has decremented is still there, and its entries are free.
ReserveFits(c) ==
  /\ taken[c] # {} => Reserving(c)
  /\ added[c] \subseteq taken[c] /\ taken[c] \subseteq Needed(OrderOf(c))
  /\ \A i \in taken[c] : Suffices(c, i)
  /\ \A i \in added[c] : i \notin Reserved(OrderOf(c))

\* A release has read one whole reservation; it frees all of it or, if another
\* release was faster, nothing.
ReleaseFits(c) ==
  /\ todo[c] \cup freed[c] # {} => Releasing(c)
  /\ returned[c] \subseteq ItemsFreed(c)
  /\ \A id \in todo[c] \cup freed[c] : OrderOf(id[1]) = OrderOf(c) /\ row[id] # "NONE"
  /\ \A id, other \in todo[c] \cup freed[c] : id[1] = other[1]
  /\ \A id \in freed[c] : row[id] = "ACTIVE"
  /\ Releasing(c) =>
       \/ {id[2] : id \in todo[c] \cup freed[c]} = Needed(OrderOf(c))
       \/ freed[c] = {} /\ \A id \in todo[c] : row[id] = "RELEASED"

\* Row locks: no two open transactions write one row.
WritesApart ==
  \A c, d \in Calls :
    c # d => /\ (taken[c] \cup returned[c]) \cap (taken[d] \cup returned[d]) = {}
             /\ freed[c] \cap freed[d] = {}

InventoryInv ==
  /\ TypeOK /\ Conservation /\ AllOrNothing /\ WritesApart
  /\ \A i \in Items : IsFiniteSet(Units(i))
  /\ \A c \in Calls : RowsFit(c) /\ LocksFit(c) /\ ReserveFits(c) /\ ReleaseFits(c)
=============================================================================
