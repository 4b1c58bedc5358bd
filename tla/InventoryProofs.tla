-------------------------- MODULE InventoryProofs --------------------------
(***************************************************************************)
(* Inventory keeps its books and its contract for any number of calls,     *)
(* orders, items and faults, whatever happens to the Redis locks.          *)
(*                                                                         *)
(* InventoryInv is inductive.  Most actions either leave tables and open   *)
(* transactions alone (QuietStep) or give a transaction up (DiscardStep);  *)
(* the statements of a transaction disturb ReserveFits or ReleaseFits of   *)
(* their own call only; the two commits are the ones that change tables.   *)
(***************************************************************************)
EXTENDS Inventory, WellFoundedInduction, FiniteSetTheorems, TLAPS

\* A set of items that is not empty has a lowest one.
LEMMA LowestIn ==
  ASSUME NEW S \in SUBSET Items, S # {}
  PROVE  Lowest(S) \in S
  <1>1. S \subseteq Nat
    BY ItemsAssumption
  <1>2. PICK x \in S : \A y \in S : ~ (<<y, x>> \in OpToRel(<, Nat))
    BY <1>1, NatLessThanWellFounded, WFMin
  <1>3. ASSUME NEW y \in S PROVE x <= y
    <2>1. x \in Nat /\ y \in Nat
      BY <1>1
    <2>2. ~ (<<y, x>> \in OpToRel(<, Nat))
      BY <1>2
    <2>3. ~ (y < x)
      BY <2>1, <2>2 DEF OpToRel
    <2> QED BY <2>1, <2>3
  <1> QED BY <1>3 DEF Lowest

\* The orders of calls, and what an order needs, never change.
LEMMA OrderFacts ==
  ASSUME TypeOK
  PROVE  /\ \A c \in Calls : OrderOf(c) \in Orders
         /\ \A o \in Orders : Needed(o) \subseteq Items /\ Needed(o) # {}
         /\ \A o \in Orders, i \in Items : Need[o][i] \in Nat
         /\ \A o \in Orders, i \in Items : i \notin Needed(o) => Need[o][i] = 0
  BY NeedAssumption DEF TypeOK, OrderOf, Needed

\* Before the first call nothing is reserved.
THEOREM InitInv == Init => InventoryInv
  <1> SUFFICES ASSUME Init PROVE InventoryInv
    OBVIOUS
  <1>1. TypeOK
    BY StockAssumption, MaxFaultsAssumption DEF Init, TypeOK, Place, RowStatus, Answer
  <1>2. \A i \in Items : Units(i) = {}
    BY DEF Init, Units, RowId
  <1>3. Conservation /\ \A i \in Items : IsFiniteSet(Units(i))
    <2>1. ASSUME NEW i \in Items
          PROVE  IsFiniteSet(Units(i)) /\ available[i] + Cardinality(Units(i)) = Stock[i]
      <3>1. IsFiniteSet(Units(i)) /\ Cardinality(Units(i)) = 0
        BY <1>2, FS_EmptySet
      <3>2. available[i] = Stock[i] /\ Stock[i] \in Nat
        BY StockAssumption DEF Init
      <3> QED BY <3>1, <3>2
    <2> QED BY <2>1 DEF Conservation
  <1>4. \A o \in Orders : Reserved(o) = {}
    BY DEF Init, Reserved, RowId
  <1>5. AllOrNothing
    BY <1>4 DEF AllOrNothing, Init, RowId
  <1>6. WritesApart
    BY DEF Init, WritesApart
  <1>7. \A c \in Calls : RowsFit(c) /\ LocksFit(c) /\ ReserveFits(c) /\ ReleaseFits(c)
    BY <1>1, OrderFacts DEF Init, RowsFit, LocksFit, ReserveFits, ReleaseFits, ItemsFreed, Reserving,
       Releasing, RowId
  <1> QED BY <1>1, <1>3, <1>5, <1>6, <1>7 DEF InventoryInv

-----------------------------------------------------------------------------
(* Steps that change neither tables nor open transactions.                 *)

\* Tables that do not change keep the books.
LEMMA TablesKept ==
  ASSUME InventoryInv, UNCHANGED <<call, tableVars>>
  PROVE  /\ Conservation' /\ AllOrNothing'
         /\ \A i \in Items : IsFiniteSet(Units(i)') /\ Units(i)' = Units(i)
         /\ \A o \in Orders : Reserved(o)' = Reserved(o)
         /\ \A c \in Calls : OrderOf(c)' = OrderOf(c)
  <1> USE DEF tableVars
  <1>1. \A c \in Calls : OrderOf(c)' = OrderOf(c)
    BY DEF OrderOf
  <1>2. \A o \in Orders : Reserved(o)' = Reserved(o)
    BY DEF Reserved, OrderOf
  <1>3. \A i \in Items : Units(i)' = Units(i)
    BY DEF Units, OrderOf
  <1>4. \A i \in Items : IsFiniteSet(Units(i)')
    BY <1>3 DEF InventoryInv
  <1>5. Conservation'
    BY <1>3 DEF InventoryInv, Conservation
  <1>6. AllOrNothing'
    BY <1>2 DEF InventoryInv, AllOrNothing, OrderOf
  <1> QED BY <1>1, <1>2, <1>3, <1>4, <1>5, <1>6

\* A call that moves on without writing a row.
QuietMove(c) ==
  \/ pc'[c] = pc[c]
  \/ pc[c] # "WORKING" /\ pc'[c] = "DONE"
  \/ pc[c] # "WORKING" /\ pc'[c] = "LEAVING"
  \/ pc[c] \in {"NEW", "LOCKING", "BACKOFF"} /\ pc'[c] \in {"LOCKING", "BACKOFF"}
  \/ pc[c] = "LOCKING" /\ pc'[c] = "WORKING" /\ call[c].kind = "RESERVE"

\* Locking, waiting, answering and expiring touch only the locks.
LEMMA QuietStep ==
  ASSUME InventoryInv, TypeOK', UNCHANGED <<call, tableVars, txVars>>,
         \A c \in Calls : QuietMove(c) /\ LocksFit(c)'
  PROVE  InventoryInv'
  <1> USE DEF tableVars, txVars
  <1>1. WritesApart'
    BY DEF InventoryInv, WritesApart
  <1>2. ASSUME NEW c \in Calls PROVE RowsFit(c)'
    BY <1>2, TablesKept DEF InventoryInv, RowsFit, QuietMove, Needed
  <1>3. ASSUME NEW c \in Calls PROVE ReserveFits(c)'
    <2>1. OrderOf(c) \in Orders
      BY OrderFacts DEF InventoryInv
    <2> QED BY <1>3, <2>1, TablesKept DEF InventoryInv, ReserveFits, QuietMove, Reserving,
               Suffices, Needed
  <1>4. ASSUME NEW c \in Calls PROVE ReleaseFits(c)'
    <2>1. \A d \in Calls : OrderOf(d)' = OrderOf(d)
      BY TablesKept
    <2>2. Releasing(c)' => Releasing(c)
      BY <1>4 DEF QuietMove, Releasing
    <2>3. Releasing(c) => Releasing(c)'
      BY <1>4 DEF QuietMove, Releasing
    <2>4. todo[c] \cup freed[c] \subseteq RowId
      BY DEF InventoryInv, TypeOK
    <2> QED BY <1>4, <2>1, <2>2, <2>3, <2>4 DEF InventoryInv, ReleaseFits, ItemsFreed, Needed, RowId
  <1> QED BY <1>1, <1>2, <1>3, <1>4, TablesKept DEF InventoryInv

\* A call that keeps its locks keeps believing the truth about them.
LEMMA LocksKept ==
  ASSUME InventoryInv, NEW c \in Calls, NEW place \in Place \ {"NEW"}, Move(c, place),
         UNCHANGED <<call, lockVars>>,
         place = "DONE" => holding[c] = {},
         place = "WORKING" => holding[c] = keys[c]
  PROVE  \A d \in Calls : LocksFit(d)'
  <1> SUFFICES ASSUME NEW d \in Calls PROVE LocksFit(d)'
    OBVIOUS
  <1>1. LocksFit(d) /\ pc \in [Calls -> Place]
    BY DEF InventoryInv, TypeOK
  <1>2. d # c => pc'[d] = pc[d]
    BY <1>1 DEF Move
  <1>3. pc'[c] = place
    BY <1>1 DEF Move
  <1> QED BY <1>1, <1>2, <1>3 DEF LocksFit, lockVars

\* The place and the answer of one call change within their types.
LEMMA MoveType ==
  ASSUME TypeOK, NEW c \in Calls, NEW place \in Place, Move(c, place)
  PROVE  /\ pc' \in [Calls -> Place] /\ pc'[c] = place
         /\ \A d \in Calls \ {c} : pc'[d] = pc[d]
  BY DEF TypeOK, Move

\* An answer is one of the answers.
LEMMA ReplyType ==
  ASSUME TypeOK, NEW c \in Calls, NEW result \in Answer, Reply(c, result)
  PROVE  answer' \in [Calls -> Answer]
  BY DEF TypeOK, Reply

\* A fault stays within its bound.
LEMMA FaultType ==
  ASSUME TypeOK
  PROVE  /\ Fault => faults' \in 0 .. MaxFaults
         /\ UNCHANGED faults => faults' \in 0 .. MaxFaults
  BY MaxFaultsAssumption DEF TypeOK, Fault

\* A step that leaves locks, tables and transactions alone keeps their types.
LEMMA OtherTypes ==
  ASSUME TypeOK
  PROVE  /\ UNCHANGED lockVars =>
              /\ keys' \in [Calls -> SUBSET Items] /\ holding' \in [Calls -> SUBSET Items]
              /\ \A c \in Calls : holding'[c] \subseteq keys'[c]
              /\ lock' \in [Items -> Calls \cup {Nobody}] /\ overran' \subseteq Calls
         /\ UNCHANGED tableVars =>
              available' \in [Items -> Nat] /\ row' \in [RowId -> RowStatus]
         /\ UNCHANGED txVars =>
              /\ todo' \in [Calls -> SUBSET RowId] /\ freed' \in [Calls -> SUBSET RowId]
              /\ taken' \in [Calls -> SUBSET Items] /\ added' \in [Calls -> SUBSET Items]
              /\ returned' \in [Calls -> SUBSET Items]
         /\ UNCHANGED call => call' \in [Calls -> [kind : Kind, order : Orders]]
  BY DEF TypeOK, lockVars, tableVars, txVars

-----------------------------------------------------------------------------
(* The steps of withLocks.                                                 *)

\* A reservation asks for the locks of its items.
LEMMA CallReserveInv ==
  ASSUME InventoryInv, NEW c \in Calls, CallReserve(c)
  PROVE  InventoryInv'
  <1>1. TypeOK /\ pc[c] = "NEW" /\ holding[c] = {} /\ "LOCKING" \in Place
    BY DEF InventoryInv, CallReserve, LocksFit, Place
  <1>2. keys' = [keys EXCEPT ![c] = Needed(OrderOf(c))] /\ Needed(OrderOf(c)) \subseteq Items
    BY <1>1, OrderFacts DEF CallReserve
  <1>3. TypeOK'
    BY <1>1, <1>2, MoveType, OtherTypes DEF TypeOK, CallReserve
  <1>4. ASSUME NEW d \in Calls PROVE QuietMove(d) /\ LocksFit(d)'
    BY <1>1, <1>2, <1>4, MoveType DEF InventoryInv, CallReserve, QuietMove, LocksFit
  <1> QED BY <1>3, <1>4, QuietStep DEF CallReserve

\* A release asks for the locks of the items its order holds now.
LEMMA CallReleaseInv ==
  ASSUME InventoryInv, NEW c \in Calls, CallRelease(c)
  PROVE  InventoryInv'
  <1>1. TypeOK /\ pc[c] = "NEW" /\ holding[c] = {}
    BY DEF InventoryInv, CallRelease, LocksFit
  <1>2. PICK place \in {"DONE", "LOCKING"} : Move(c, place)
    BY DEF CallRelease
  <1>3. place \in Place /\ "OK" \in Answer
    BY DEF Place, Answer
  <1>4. {id[2] : id \in FindActive(OrderOf(c))} \subseteq Items
    BY DEF FindActive, RowId
  <1>5. answer' \in [Calls -> Answer]
    BY <1>1, <1>3, ReplyType DEF CallRelease, TypeOK
  <1>6. TypeOK'
    BY <1>1, <1>2, <1>3, <1>4, <1>5, MoveType, OtherTypes DEF TypeOK, CallRelease
  <1>7. ASSUME NEW d \in Calls PROVE QuietMove(d) /\ LocksFit(d)'
    <2>1. keys \in [Calls -> SUBSET Items] /\ UNCHANGED <<holding, lock, overran>> /\ LocksFit(d)
      BY <1>1 DEF InventoryInv, TypeOK, CallRelease
    <2>2. d # c => keys'[d] = keys[d] /\ pc'[d] = pc[d]
      BY <1>1, <1>2, <1>3, <2>1, MoveType DEF CallRelease
    <2>3. pc'[c] \in {"DONE", "LOCKING"}
      BY <1>1, <1>2, <1>3, MoveType
    <2> QED BY <1>1, <2>1, <2>2, <2>3 DEF QuietMove, LocksFit
  <1> QED BY <1>6, <1>7, QuietStep DEF CallRelease

\* A lock is taken only from nobody.
LEMMA AcquireInv ==
  ASSUME InventoryInv, NEW c \in Calls, Acquire(c)
  PROVE  InventoryInv'
  <1>1. TypeOK /\ pc[c] = "LOCKING" /\ holding[c] \subseteq keys[c] /\ keys[c] \subseteq Items
    BY DEF InventoryInv, Acquire, TypeOK
  <1>2. NextKey(c) \in keys[c] \ holding[c]
    BY <1>1, LowestIn DEF Acquire, NextKey
  <1>3. TypeOK'
    BY <1>1, <1>2, OtherTypes DEF TypeOK, Acquire
  <1>4. ASSUME NEW d \in Calls PROVE QuietMove(d) /\ LocksFit(d)'
    <2>1. lock \in [Items -> Calls \cup {Nobody}] /\ holding \in [Calls -> SUBSET Items]
      BY <1>1 DEF TypeOK
    <2>2. LocksFit(d) /\ Nobody # d
      BY CallsAssumption DEF InventoryInv
    <2> QED BY <1>1, <1>2, <2>1, <2>2 DEF Acquire, QuietMove, LocksFit
  <1> QED BY <1>3, <1>4, QuietStep DEF Acquire

\* A contended call backs off with the locks it has.
LEMMA ContendInv ==
  ASSUME InventoryInv, NEW c \in Calls, Contend(c)
  PROVE  InventoryInv'
  <1>1. TypeOK /\ pc[c] = "LOCKING" /\ "BACKOFF" \in Place \ {"NEW"} /\ Move(c, "BACKOFF")
    BY DEF InventoryInv, Contend, Place
  <1>2. answer' \in [Calls -> Answer]
    BY <1>1 DEF Contend, TypeOK
  <1>3. TypeOK'
    BY <1>1, <1>2, MoveType, OtherTypes DEF TypeOK, Contend
  <1>4. \A d \in Calls : LocksFit(d)'
    BY <1>1, LocksKept DEF Contend
  <1>5. \A d \in Calls : QuietMove(d)
    BY <1>1, MoveType DEF QuietMove, Contend
  <1> QED BY <1>3, <1>4, <1>5, QuietStep DEF Contend

\* An owner frees its own lock only, also when that lock has expired.
LEMMA UnlockInv ==
  ASSUME InventoryInv, NEW c \in Calls, Unlock(c)
  PROVE  InventoryInv'
  <1>1. TypeOK
    BY DEF InventoryInv
  <1>2. PICK i : /\ holding' = [holding EXCEPT ![c] = @ \ {i}]
                 /\ lock' = FreeOwnLock(c, i) \/ UNCHANGED lock
    BY DEF Unlock
  <1>3. lock' \in [Items -> Calls \cup {Nobody}] /\ holding' \in [Calls -> SUBSET Items]
    BY <1>1, <1>2 DEF TypeOK, FreeOwnLock
  <1>4. \A d \in Calls : holding'[d] \subseteq holding[d]
    BY <1>1, <1>2 DEF TypeOK
  <1>5. faults' \in 0 .. MaxFaults
    BY <1>1, FaultType DEF Unlock
  <1>6. TypeOK'
    BY <1>1, <1>3, <1>4, <1>5, OtherTypes DEF TypeOK, Unlock
  <1>7. ASSUME NEW d \in Calls PROVE QuietMove(d) /\ LocksFit(d)'
    <2>1. lock \in [Items -> Calls \cup {Nobody}] /\ holding \in [Calls -> SUBSET Items]
      BY <1>1 DEF TypeOK
    <2>2. LocksFit(d) /\ UNCHANGED <<pc, keys, overran>> /\ pc[c] \in {"BACKOFF", "LEAVING"}
      BY DEF InventoryInv, Unlock
    <2>3. ASSUME NEW j \in holding'[d] PROVE lock'[j] = d \/ d \in overran
      <3>1. j \in holding[d] /\ j \in Items
        BY <1>4, <2>1, <2>3
      <3>2. CASE d = c
        <4>1. j # i
          BY <1>2, <2>1, <2>3, <3>2
        <4> QED BY <1>2, <2>1, <2>2, <3>1, <4>1 DEF FreeOwnLock, LocksFit
      <3>3. CASE d # c
        BY <1>2, <2>1, <2>2, <3>1, <3>3 DEF FreeOwnLock, LocksFit
      <3> QED BY <3>2, <3>3
    <2>4. d # c => holding'[d] = holding[d]
      BY <1>2, <2>1
    <2> QED BY <1>4, <2>2, <2>3, <2>4 DEF QuietMove, LocksFit
  <1> QED BY <1>6, <1>7, QuietStep DEF Unlock

\* A call that retries has given its locks back.
LEMMA RetryInv ==
  ASSUME InventoryInv, NEW c \in Calls, Retry(c)
  PROVE  InventoryInv'
  <1>1. TypeOK /\ pc[c] = "BACKOFF" /\ "LOCKING" \in Place \ {"NEW"} /\ Move(c, "LOCKING")
    BY DEF InventoryInv, Retry, Place
  <1>2. answer' \in [Calls -> Answer]
    BY <1>1 DEF Retry, TypeOK
  <1>3. TypeOK'
    BY <1>1, <1>2, MoveType, OtherTypes DEF TypeOK, Retry
  <1>4. \A d \in Calls : LocksFit(d)'
    BY <1>1, LocksKept DEF Retry
  <1>5. \A d \in Calls : QuietMove(d)
    BY <1>1, MoveType DEF QuietMove, Retry
  <1> QED BY <1>3, <1>4, <1>5, QuietStep DEF Retry

\* A call that gives up has given its locks back.
LEMMA TimeOutInv ==
  ASSUME InventoryInv, NEW c \in Calls, TimeOut(c)
  PROVE  InventoryInv'
  <1>1. TypeOK /\ pc[c] = "BACKOFF" /\ "DONE" \in Place \ {"NEW"} /\ Move(c, "DONE")
    BY DEF InventoryInv, TimeOut, Place
  <1>2. answer' \in [Calls -> Answer]
    BY <1>1, ReplyType DEF TimeOut, Answer
  <1>3. TypeOK'
    BY <1>1, <1>2, MoveType, OtherTypes DEF TypeOK, TimeOut
  <1>4. \A d \in Calls : LocksFit(d)'
    BY <1>1, LocksKept DEF TimeOut
  <1>5. \A d \in Calls : QuietMove(d)
    BY <1>1, MoveType DEF QuietMove, TimeOut
  <1> QED BY <1>3, <1>4, <1>5, QuietStep DEF TimeOut

\* A call is done when it has given its locks back.
LEMMA FinishInv ==
  ASSUME InventoryInv, NEW c \in Calls, Finish(c)
  PROVE  InventoryInv'
  <1>1. TypeOK /\ pc[c] = "LEAVING" /\ "DONE" \in Place \ {"NEW"} /\ Move(c, "DONE")
    BY DEF InventoryInv, Finish, Place
  <1>2. answer' \in [Calls -> Answer]
    BY <1>1 DEF Finish, TypeOK
  <1>3. TypeOK'
    BY <1>1, <1>2, MoveType, OtherTypes DEF TypeOK, Finish
  <1>4. \A d \in Calls : LocksFit(d)'
    BY <1>1, LocksKept DEF Finish
  <1>5. \A d \in Calls : QuietMove(d)
    BY <1>1, MoveType DEF QuietMove, Finish
  <1> QED BY <1>3, <1>4, <1>5, QuietStep DEF Finish

\* A replay changes no row.
LEMMA ReserveAgainInv ==
  ASSUME InventoryInv, NEW c \in Calls, ReserveAgain(c)
  PROVE  InventoryInv'
  <1>1. TypeOK /\ pc[c] = "LOCKING" /\ "LEAVING" \in Place \ {"NEW"} /\ Move(c, "LEAVING")
    BY DEF InventoryInv, ReserveAgain, Place, Locked
  <1>2. answer' \in [Calls -> Answer]
    BY <1>1, ReplyType DEF ReserveAgain, Answer
  <1>3. TypeOK'
    BY <1>1, <1>2, MoveType, OtherTypes DEF TypeOK, ReserveAgain
  <1>4. \A d \in Calls : LocksFit(d)'
    BY <1>1, LocksKept DEF ReserveAgain, Locked
  <1>5. \A d \in Calls : QuietMove(d)
    BY <1>1, MoveType DEF QuietMove, ReserveAgain
  <1> QED BY <1>3, <1>4, <1>5, QuietStep DEF ReserveAgain

\* A transaction begins under the locks the call believes it has.
LEMMA BeginReserveInv ==
  ASSUME InventoryInv, NEW c \in Calls, BeginReserve(c)
  PROVE  InventoryInv'
  <1>1. TypeOK /\ pc[c] = "LOCKING" /\ "WORKING" \in Place \ {"NEW"} /\ Move(c, "WORKING")
    BY DEF InventoryInv, BeginReserve, Place, Locked
  <1>2. answer' \in [Calls -> Answer]
    BY <1>1 DEF BeginReserve, TypeOK
  <1>3. TypeOK'
    BY <1>1, <1>2, MoveType, OtherTypes DEF TypeOK, BeginReserve
  <1>4. \A d \in Calls : LocksFit(d)'
    BY <1>1, LocksKept DEF BeginReserve, Locked
  <1>5. \A d \in Calls : QuietMove(d)
    BY <1>1, MoveType DEF QuietMove, BeginReserve
  <1> QED BY <1>3, <1>4, <1>5, QuietStep DEF BeginReserve

\* A lock that expires under its owner makes the owner an overrunner.
LEMMA ExpireInv ==
  ASSUME InventoryInv, NEW i \in Items, Expire(i)
  PROVE  InventoryInv'
  <1>1. TypeOK /\ lock[i] \in Calls
    BY DEF InventoryInv, Expire, TypeOK
  <1>2. faults' \in 0 .. MaxFaults /\ overran \subseteq overran' /\ overran' \subseteq Calls
        /\ (i \in holding[lock[i]] => lock[i] \in overran')
    BY <1>1, FaultType DEF Expire, TypeOK
  <1>3. lock' = [lock EXCEPT ![i] = Nobody] /\ lock' \in [Items -> Calls \cup {Nobody}]
    BY <1>1 DEF Expire, TypeOK
  <1>4. TypeOK'
    BY <1>1, <1>2, <1>3, OtherTypes DEF TypeOK, Expire
  <1>5. ASSUME NEW d \in Calls PROVE QuietMove(d) /\ LocksFit(d)'
    <2>1. lock \in [Items -> Calls \cup {Nobody}] /\ holding \in [Calls -> SUBSET Items]
      BY <1>1 DEF TypeOK
    <2>2. LocksFit(d) /\ UNCHANGED <<pc, keys, holding>>
      BY DEF InventoryInv, Expire
    <2> QED BY <1>2, <1>3, <2>1, <2>2 DEF QuietMove, LocksFit
  <1> QED BY <1>4, <1>5, QuietStep DEF Expire

-----------------------------------------------------------------------------
(* A transaction that is rolled back.                                      *)

\* Giving a transaction up writes nothing.
LEMMA DiscardStep ==
  ASSUME InventoryInv, NEW c \in Calls, Discard(c), UNCHANGED <<call, tableVars>>,
         pc[c] # "NEW", pc'[c] \in {"LEAVING", "DONE"},
         \A d \in Calls \ {c} : pc'[d] = pc[d],
         \A d \in Calls : LocksFit(d)',
         \* the rest of the types
         pc' \in [Calls -> Place], answer' \in [Calls -> Answer],
         faults' \in 0 .. MaxFaults,
         keys' \in [Calls -> SUBSET Items], holding' \in [Calls -> SUBSET Items],
         \A d \in Calls : holding'[d] \subseteq keys'[d],
         lock' \in [Items -> Calls \cup {Nobody}], overran' \subseteq Calls
  PROVE  InventoryInv'
  <1> USE DEF tableVars
  <1>1. TypeOK /\ OrderOf(c) \in Orders
    BY OrderFacts DEF InventoryInv
  <1>2. /\ todo'[c] = {} /\ taken'[c] = {} /\ added'[c] = {} /\ freed'[c] = {}
        /\ returned'[c] = {}
        /\ \A d \in Calls \ {c} :
             /\ todo'[d] = todo[d] /\ taken'[d] = taken[d] /\ added'[d] = added[d]
             /\ freed'[d] = freed[d] /\ returned'[d] = returned[d]
    BY <1>1 DEF Discard, TypeOK
  <1>3. /\ todo' \in [Calls -> SUBSET RowId] /\ freed' \in [Calls -> SUBSET RowId]
        /\ taken' \in [Calls -> SUBSET Items] /\ added' \in [Calls -> SUBSET Items]
        /\ returned' \in [Calls -> SUBSET Items]
    BY <1>1 DEF Discard, TypeOK
  <1>4. TypeOK'
    BY <1>1, <1>3, OtherTypes DEF TypeOK
  <1>5. WritesApart'
    BY <1>2 DEF InventoryInv, WritesApart
  <1>6. ASSUME NEW d \in Calls PROVE RowsFit(d)'
    BY TablesKept DEF InventoryInv, RowsFit, Needed
  <1>7. ASSUME NEW d \in Calls PROVE ReserveFits(d)'
    <2>1. CASE d = c
      BY <1>2, <2>1 DEF ReserveFits
    <2>2. CASE d # c
      <3>1. OrderOf(d) \in Orders /\ OrderOf(d)' = OrderOf(d)
        BY <1>1, OrderFacts, TablesKept
      <3>2. pc'[d] = pc[d] /\ taken'[d] = taken[d] /\ added'[d] = added[d] /\ ReserveFits(d)
        BY <1>2, <2>2 DEF InventoryInv
      <3> QED BY <3>1, <3>2, TablesKept DEF ReserveFits, Reserving, Suffices, Needed
    <2> QED BY <2>1, <2>2
  <1>8. ASSUME NEW d \in Calls PROVE ReleaseFits(d)'
    <2>1. CASE d = c
      BY <1>2, <2>1 DEF ReleaseFits, ItemsFreed, Releasing
    <2>2. CASE d # c
      <3>1. \A e \in Calls : OrderOf(e)' = OrderOf(e)
        BY TablesKept
      <3>2. /\ pc'[d] = pc[d] /\ todo'[d] = todo[d] /\ freed'[d] = freed[d]
            /\ returned'[d] = returned[d] /\ ReleaseFits(d)
        BY <1>2, <2>2 DEF InventoryInv
      <3>3. todo[d] \cup freed[d] \subseteq RowId
        BY <1>1 DEF TypeOK
      <3> QED BY <3>1, <3>2, <3>3 DEF ReleaseFits, Releasing, ItemsFreed, Needed, RowId
    <2> QED BY <2>1, <2>2
  <1> QED BY <1>4, <1>5, <1>6, <1>7, <1>8, TablesKept DEF InventoryInv


\* An order that cannot have everything gets nothing.
LEMMA RunShortInv ==
  ASSUME InventoryInv, NEW c \in Calls, RunShort(c)
  PROVE  InventoryInv'
  <1>1. TypeOK /\ pc[c] = "WORKING" /\ "LEAVING" \in Place \ {"NEW"} /\ Move(c, "LEAVING")
    BY DEF InventoryInv, RunShort, Place, AtItem, Reserving
  <1>2. answer' \in [Calls -> Answer]
    BY <1>1, ReplyType DEF RunShort, Answer
  <1>3. faults' \in 0 .. MaxFaults
    BY <1>1, FaultType DEF RunShort
  <1>4. \A d \in Calls : LocksFit(d)'
    BY <1>1, LocksKept DEF RunShort
  <1> QED BY <1>1, <1>2, <1>3, <1>4, MoveType, OtherTypes, DiscardStep DEF RunShort

\* An order that already holds stock does not get it twice.
LEMMA ViolateIndexInv ==
  ASSUME InventoryInv, NEW c \in Calls, ViolateIndex(c)
  PROVE  InventoryInv'
  <1>1. TypeOK /\ pc[c] = "WORKING" /\ "LEAVING" \in Place \ {"NEW"} /\ Move(c, "LEAVING")
    BY DEF InventoryInv, ViolateIndex, Place, AtInsert, Reserving
  <1>2. answer' \in [Calls -> Answer]
    BY <1>1, ReplyType DEF ViolateIndex, Answer
  <1>3. faults' \in 0 .. MaxFaults
    BY <1>1, FaultType DEF ViolateIndex
  <1>4. \A d \in Calls : LocksFit(d)'
    BY <1>1, LocksKept DEF ViolateIndex
  <1> QED BY <1>1, <1>2, <1>3, <1>4, MoveType, OtherTypes, DiscardStep DEF ViolateIndex

\* A transaction that fails, or is chosen to break a deadlock, writes nothing.
LEMMA AbortInv ==
  ASSUME InventoryInv, NEW c \in Calls, Abort(c)
  PROVE  InventoryInv'
  <1>1. TypeOK /\ pc[c] = "WORKING" /\ "LEAVING" \in Place \ {"NEW"} /\ Move(c, "LEAVING")
    BY DEF InventoryInv, Abort, Place
  <1>2. answer' \in [Calls -> Answer]
    BY <1>1, ReplyType DEF Abort, Answer
  <1>3. faults' \in 0 .. MaxFaults
    BY <1>1, FaultType DEF Abort
  <1>4. \A d \in Calls : LocksFit(d)'
    BY <1>1, LocksKept DEF Abort
  <1> QED BY <1>1, <1>2, <1>3, <1>4, MoveType, OtherTypes, DiscardStep DEF Abort

\* A crash rolls the transaction back and forgets the locks.
LEMMA CrashInv ==
  ASSUME InventoryInv, NEW c \in Calls, Crash(c)
  PROVE  InventoryInv'
  <1>1. TypeOK /\ pc[c] # "NEW" /\ "DONE" \in Place /\ Move(c, "DONE")
    BY DEF InventoryInv, Crash, Place
  <1>2. answer' \in [Calls -> Answer]
    BY <1>1, ReplyType DEF Crash, Answer
  <1>3. faults' \in 0 .. MaxFaults
    BY <1>1, FaultType DEF Crash
  <1>4. /\ holding' \in [Calls -> SUBSET Items] /\ holding'[c] = {}
        /\ \A d \in Calls \ {c} : holding'[d] = holding[d]
        /\ UNCHANGED <<call, keys, lock, overran, tableVars>>
    BY <1>1 DEF Crash, TypeOK
  <1>5. pc' \in [Calls -> Place] /\ pc'[c] = "DONE" /\ \A d \in Calls \ {c} : pc'[d] = pc[d]
    BY <1>1, MoveType
  <1>6. ASSUME NEW d \in Calls PROVE LocksFit(d)'
    BY <1>4, <1>5 DEF InventoryInv, LocksFit
  <1>7. \A d \in Calls : holding'[d] \subseteq keys'[d]
    BY <1>1, <1>4 DEF TypeOK
  <1>8. /\ keys' \in [Calls -> SUBSET Items] /\ lock' \in [Items -> Calls \cup {Nobody}]
        /\ overran' \subseteq Calls
    BY <1>1, <1>4 DEF TypeOK
  <1> QED BY <1>1, <1>2, <1>3, <1>4, <1>5, <1>6, <1>7, <1>8, DiscardStep DEF Crash

-----------------------------------------------------------------------------
(* The statements of a transaction.                                        *)

\* A statement disturbs only what is said of open transactions.
LEMMA StatementStep ==
  ASSUME InventoryInv, UNCHANGED <<call, pc, lockVars, tableVars, answer, faults>>,
         todo' \in [Calls -> SUBSET RowId], freed' \in [Calls -> SUBSET RowId],
         taken' \in [Calls -> SUBSET Items], added' \in [Calls -> SUBSET Items],
         returned' \in [Calls -> SUBSET Items],
         WritesApart', \A d \in Calls : ReserveFits(d)' /\ ReleaseFits(d)'
  PROVE  InventoryInv'
  <1>1. TypeOK'
    BY OtherTypes DEF InventoryInv, TypeOK
  <1>2. ASSUME NEW d \in Calls PROVE RowsFit(d)' /\ LocksFit(d)'
    BY TablesKept DEF InventoryInv, RowsFit, LocksFit, Needed, tableVars, lockVars
  <1> QED BY <1>1, <1>2, TablesKept DEF InventoryInv

\* A transaction without a statement of its own stays as it was.
LEMMA OtherTransactions ==
  ASSUME InventoryInv, NEW d \in Calls, UNCHANGED <<call, tableVars>>, pc'[d] = pc[d]
  PROVE  /\ taken'[d] = taken[d] /\ added'[d] = added[d] => ReserveFits(d)'
         /\ todo'[d] = todo[d] /\ freed'[d] = freed[d] /\ returned'[d] = returned[d]
              => ReleaseFits(d)'
  <1> USE DEF tableVars
  <1>1. /\ OrderOf(d) \in Orders /\ todo[d] \cup freed[d] \subseteq RowId
        /\ \A e \in Calls : OrderOf(e)' = OrderOf(e)
    BY OrderFacts, TablesKept DEF InventoryInv, TypeOK
  <1>2. ReserveFits(d) /\ ReleaseFits(d)
    BY DEF InventoryInv
  <1>3. ASSUME taken'[d] = taken[d], added'[d] = added[d] PROVE ReserveFits(d)'
    BY <1>1, <1>2, <1>3, TablesKept DEF ReserveFits, Reserving, Suffices, Needed
  <1>4. ASSUME todo'[d] = todo[d], freed'[d] = freed[d], returned'[d] = returned[d]
        PROVE  ReleaseFits(d)'
    BY <1>1, <1>2, <1>4 DEF ReleaseFits, Releasing, ItemsFreed, Needed, RowId
  <1> QED BY <1>3, <1>4

\* A decrement is tested against what is committed, under the row's lock.
LEMMA DecrementInv ==
  ASSUME InventoryInv, NEW c \in Calls, Decrement(c)
  PROVE  InventoryInv'
  <1> DEFINE i == NextItem(c)
  <1>1. TypeOK /\ ReserveFits(c) /\ OrderOf(c) \in Orders
    BY OrderFacts DEF InventoryInv
  <1>2. i \in Needed(OrderOf(c)) \ taken[c] /\ i \in Items
    BY <1>1, LowestIn, OrderFacts DEF NextItem, Decrement, AtItem, ReserveFits
  <1>3. StockFree(c, i) /\ Suffices(c, i) /\ Reserving(c)
    BY DEF Decrement, AtItem
  <1>4. /\ taken' \in [Calls -> SUBSET Items] /\ taken'[c] = taken[c] \cup {i}
        /\ \A d \in Calls \ {c} : taken'[d] = taken[d]
    BY <1>1, <1>2 DEF Decrement, TypeOK
  <1>5. UNCHANGED <<call, pc, lockVars, tableVars, todo, added, freed, returned, answer, faults>>
    BY DEF Decrement
  <1> HIDE DEF i
  <1>6. WritesApart'
    BY <1>3, <1>4, <1>5 DEF InventoryInv, WritesApart, StockFree, WritesStock
  <1>7. ReserveFits(c)'
    BY <1>1, <1>2, <1>3, <1>4, <1>5, TablesKept
       DEF ReserveFits, Reserving, Suffices, Needed, tableVars
  <1>8. ASSUME NEW d \in Calls PROVE ReserveFits(d)' /\ ReleaseFits(d)'
    BY <1>4, <1>5, <1>7, OtherTransactions
  <1>9. /\ todo' \in [Calls -> SUBSET RowId] /\ freed' \in [Calls -> SUBSET RowId]
        /\ added' \in [Calls -> SUBSET Items] /\ returned' \in [Calls -> SUBSET Items]
    BY <1>1, <1>5 DEF TypeOK
  <1> QED BY <1>4, <1>5, <1>6, <1>8, <1>9, StatementStep

\* A row is inserted only while the index has no entry for it.
LEMMA InsertRowInv ==
  ASSUME InventoryInv, NEW c \in Calls, InsertRow(c)
  PROVE  InventoryInv'
  <1> DEFINE i == ItemToInsert(c)
  <1>1. TypeOK /\ ReserveFits(c) /\ OrderOf(c) \in Orders /\ taken[c] \subseteq Items
    BY OrderFacts DEF InventoryInv, TypeOK
  <1>2. i \in taken[c] \ added[c]
    BY <1>1, LowestIn DEF ItemToInsert, InsertRow, AtInsert, ReserveFits
  <1>3. i \notin Reserved(OrderOf(c)) /\ Reserving(c)
    BY DEF InsertRow, AtInsert, EntryTaken
  <1>4. /\ added' \in [Calls -> SUBSET Items] /\ added'[c] = added[c] \cup {i}
        /\ \A d \in Calls \ {c} : added'[d] = added[d]
    BY <1>1, <1>2 DEF InsertRow, TypeOK
  <1>5. UNCHANGED <<call, pc, lockVars, tableVars, todo, taken, freed, returned, answer, faults>>
    BY DEF InsertRow
  <1> HIDE DEF i
  <1>6. WritesApart'
    BY <1>5 DEF InventoryInv, WritesApart
  <1>7. ReserveFits(c)'
    BY <1>1, <1>2, <1>3, <1>4, <1>5, TablesKept
       DEF ReserveFits, Reserving, Suffices, Needed, tableVars
  <1>8. ASSUME NEW d \in Calls PROVE ReserveFits(d)' /\ ReleaseFits(d)'
    BY <1>4, <1>5, <1>7, OtherTransactions
  <1>9. /\ todo' \in [Calls -> SUBSET RowId] /\ freed' \in [Calls -> SUBSET RowId]
        /\ taken' \in [Calls -> SUBSET Items] /\ returned' \in [Calls -> SUBSET Items]
    BY <1>1, <1>5 DEF TypeOK
  <1> QED BY <1>4, <1>5, <1>6, <1>8, <1>9, StatementStep

\* The active rows of an order are one whole reservation.
LEMMA WholeReservation ==
  ASSUME InventoryInv, NEW o \in Orders, FindActive(o) # {}
  PROVE  /\ {id[2] : id \in FindActive(o)} = Needed(o)
         /\ \A id, other \in FindActive(o) : id[1] = other[1]
  <1>1. AllOrNothing /\ \A c \in Calls : RowsFit(c)
    BY DEF InventoryInv
  <1>2. {id[2] : id \in FindActive(o)} = Reserved(o)
    <2>1. ASSUME NEW id \in FindActive(o) PROVE id[2] \in Reserved(o)
      <3>1. id = <<id[1], id[2]>> /\ id[1] \in Calls /\ id[2] \in Items
        BY DEF FindActive, RowId
      <3> QED BY <3>1 DEF FindActive, Reserved
    <2>2. ASSUME NEW i \in Reserved(o) PROVE i \in {id[2] : id \in FindActive(o)}
      <3>1. PICK c \in Calls : OrderOf(c) = o /\ row[<<c, i>>] = "ACTIVE"
        BY DEF Reserved
      <3>2. <<c, i>> \in FindActive(o)
        BY <3>1 DEF FindActive, RowId, Reserved
      <3> QED BY <3>2
    <2> QED BY <2>1, <2>2
  <1>3. Reserved(o) = Needed(o)
    BY <1>1, <1>2 DEF AllOrNothing
  <1>4. ASSUME NEW id \in FindActive(o), NEW other \in FindActive(o) PROVE id[1] = other[1]
    <2>1. /\ id \in RowId /\ other \in RowId /\ OrderOf(id[1]) = o /\ OrderOf(other[1]) = o
          /\ row[id] = "ACTIVE" /\ row[other] = "ACTIVE"
      BY DEF FindActive
    <2>2. id = <<id[1], id[2]>> /\ id[1] \in Calls /\ other[2] \in Items
      BY <2>1 DEF RowId
    <2>3. id[2] \in Needed(o) /\ other[2] \in Needed(o)
      BY <1>2, <1>3
    <2>4. row[<<id[1], other[2]>>] = "ACTIVE"
      BY <1>1, <2>1, <2>2, <2>3 DEF RowsFit
    <2>5. <<id[1], other[2]>> \in RowId
      BY <2>2 DEF RowId
    <2>6. <<id[1], other[2]>> = other
      BY <1>1, <2>1, <2>4, <2>5 DEF AllOrNothing
    <2> QED BY <2>6
  <1> QED BY <1>2, <1>3, <1>4

\* A release reads one whole reservation, or finds nothing to do.
LEMMA BeginReleaseInv ==
  ASSUME InventoryInv, NEW c \in Calls, BeginRelease(c)
  PROVE  InventoryInv'
  <1> DEFINE rows == FindActive(OrderOf(c))
  <1>1. /\ TypeOK /\ OrderOf(c) \in Orders /\ pc[c] = "LOCKING" /\ holding[c] = keys[c]
        /\ call[c].kind = "RELEASE"
    BY OrderFacts DEF InventoryInv, BeginRelease, Locked
  <1>2. /\ todo[c] = {} /\ taken[c] = {} /\ added[c] = {} /\ freed[c] = {} /\ returned[c] = {}
    BY <1>1 DEF InventoryInv, ReserveFits, ReleaseFits, Reserving, Releasing, ItemsFreed
  <1>3. UNCHANGED <<call, lockVars, tableVars, taken, added, freed, returned, faults>>
        /\ todo' = [todo EXCEPT ![c] = rows]
    BY DEF BeginRelease
  <1>4. CASE rows = {}
    <2>1. todo' = todo /\ Move(c, "LEAVING") /\ Reply(c, "OK")
      BY <1>1, <1>2, <1>3, <1>4 DEF TypeOK, BeginRelease
    <2>2. "LEAVING" \in Place \ {"NEW"} /\ "OK" \in Answer
      BY DEF Place, Answer
    <2>3. TypeOK'
      BY <1>1, <1>3, <2>1, <2>2, MoveType, ReplyType, OtherTypes DEF TypeOK, txVars
    <2>4. \A d \in Calls : LocksFit(d)'
      BY <1>3, <2>1, <2>2, LocksKept
    <2>5. \A d \in Calls : QuietMove(d)
      BY <1>1, <2>1, <2>2, MoveType DEF QuietMove
    <2> QED BY <1>3, <2>1, <2>3, <2>4, <2>5, QuietStep DEF txVars
  <1>5. CASE rows # {}
    <2>1. UNCHANGED answer /\ Move(c, "WORKING") /\ "WORKING" \in Place \ {"NEW"}
      BY <1>5 DEF BeginRelease, Place
    <2>2. rows \subseteq RowId /\ \A id \in rows : OrderOf(id[1]) = OrderOf(c) /\ row[id] = "ACTIVE"
      BY DEF FindActive
    <2>3. {id[2] : id \in rows} = Needed(OrderOf(c)) /\ \A id, other \in rows : id[1] = other[1]
      BY <1>1, <1>5, WholeReservation
    <2> HIDE DEF rows
    <2>4. todo' \in [Calls -> SUBSET RowId] /\ todo'[c] = rows
          /\ \A d \in Calls \ {c} : todo'[d] = todo[d]
      BY <1>1, <1>3, <2>2 DEF TypeOK
    <2>5. pc' \in [Calls -> Place] /\ pc'[c] = "WORKING" /\ \A d \in Calls \ {c} : pc'[d] = pc[d]
      BY <1>1, <2>1, MoveType
    <2>6. TypeOK'
      BY <1>1, <1>3, <2>1, <2>4, <2>5, OtherTypes DEF TypeOK
    <2>7. \A d \in Calls : LocksFit(d)'
      BY <1>1, <1>3, <2>1, LocksKept
    <2>8. ASSUME NEW d \in Calls PROVE RowsFit(d)'
      BY <1>1, <1>3, <2>5, TablesKept DEF InventoryInv, RowsFit, Needed, tableVars
    <2>9. WritesApart'
      BY <1>3 DEF InventoryInv, WritesApart
    <2>10. ReserveFits(c)' /\ ReleaseFits(c)'
      <3>1. \A d \in Calls : OrderOf(d)' = OrderOf(d)
        BY <1>3, TablesKept
      <3>2. freed'[c] = {} /\ returned'[c] = {} /\ taken'[c] = {} /\ added'[c] = {}
        BY <1>2, <1>3
      <3>3. ReserveFits(c)'
        BY <3>2 DEF ReserveFits
      <3>4. Releasing(c)'
        BY <1>1, <1>3, <2>5 DEF Releasing
      <3>5. todo'[c] \cup freed'[c] = rows
        BY <2>4, <3>2
      <3>6. ReleaseFits(c)'
        BY <1>3, <2>2, <2>3, <3>1, <3>2, <3>4, <3>5
           DEF ReleaseFits, ItemsFreed, Needed, RowId, tableVars
      <3> QED BY <3>3, <3>6
    <2>11. ASSUME NEW d \in Calls \ {c} PROVE ReserveFits(d)' /\ ReleaseFits(d)'
      BY <1>3, <2>4, <2>5, OtherTransactions
    <2> QED BY <1>3, <2>6, <2>7, <2>8, <2>9, <2>10, <2>11, TablesKept DEF InventoryInv
  <1> QED BY <1>4, <1>5

\* A row is freed once; a row another release freed first makes the rest void.
LEMMA FreeRowInv ==
  ASSUME InventoryInv, NEW c \in Calls, FreeRow(c)
  PROVE  InventoryInv'
  <1>1. TypeOK /\ ReleaseFits(c) /\ OrderOf(c) \in Orders /\ Releasing(c)
        /\ returned[c] = ItemsFreed(c)
    BY OrderFacts DEF InventoryInv, FreeRow
  <1>2. PICK id \in todo[c] :
          /\ RowFree(c, id)
          /\ todo' = [todo EXCEPT ![c] = @ \ {id}]
          /\ freed' = IF StillActive(id) THEN [freed EXCEPT ![c] = @ \cup {id}] ELSE freed
    BY DEF FreeRow
  <1>3. id \in RowId /\ id = <<id[1], id[2]>> /\ id[1] \in Calls /\ id[2] \in Items
    BY <1>1 DEF TypeOK, RowId
  <1>4. UNCHANGED <<call, pc, lockVars, tableVars, taken, added, returned, answer, faults>>
    BY DEF FreeRow
  <1>5. /\ todo' \in [Calls -> SUBSET RowId] /\ freed' \in [Calls -> SUBSET RowId]
        /\ todo'[c] = todo[c] \ {id}
        /\ freed'[c] = IF StillActive(id) THEN freed[c] \cup {id} ELSE freed[c]
        /\ \A d \in Calls \ {c} : todo'[d] = todo[d] /\ freed'[d] = freed[d]
    BY <1>1, <1>2, <1>3 DEF TypeOK
  <1>6. WritesApart'
    BY <1>2, <1>4, <1>5 DEF InventoryInv, WritesApart, RowFree, WritesRow
  <1>7. ReleaseFits(c)'
    <2>1. \A d \in Calls : OrderOf(d)' = OrderOf(d)
      BY <1>4, TablesKept
    <2>2. row' = row /\ returned' = returned /\ Releasing(c)'
      BY <1>1, <1>4 DEF tableVars, Releasing
    <2>3. todo'[c] \cup freed'[c] \subseteq todo[c] \cup freed[c]
          /\ todo[c] \cup freed[c] \subseteq RowId
      BY <1>1, <1>5 DEF TypeOK
    <2>4. /\ returned'[c] \subseteq {x[2] : x \in freed'[c]}
          /\ \A x \in todo'[c] \cup freed'[c] :
               OrderOf(x[1])' = OrderOf(c)' /\ row'[x] # "NONE"
          /\ \A x, y \in todo'[c] \cup freed'[c] : x[1] = y[1]
          /\ \A x \in freed'[c] : row'[x] = "ACTIVE"
      BY <1>1, <1>5, <2>1, <2>2, <2>3 DEF ReleaseFits, ItemsFreed, StillActive, RowId
    <2>5. CASE row[id] = "ACTIVE"
      <3>1. todo'[c] \cup freed'[c] = todo[c] \cup freed[c]
        BY <1>5, <2>5 DEF StillActive
      <3>2. {x[2] : x \in todo[c] \cup freed[c]} = Needed(OrderOf(c))
        BY <1>1, <2>5 DEF ReleaseFits
      <3> QED BY <2>1, <2>2, <2>4, <3>1, <3>2 DEF ReleaseFits, ItemsFreed, Needed
    <2>6. CASE row[id] # "ACTIVE"
      <3>1. row[id] = "RELEASED"
        BY <1>1, <1>3, <2>6 DEF ReleaseFits, TypeOK, RowStatus
      <3>2. ASSUME NEW x \in todo[c] \cup freed[c] PROVE row[x] = "RELEASED"
        <4>1. x = <<x[1], x[2]>> /\ x[1] = id[1] /\ x[2] \in Items /\ x \in RowId
          BY <1>1, <2>3 DEF ReleaseFits, RowId
        <4>2. row[x] # "NONE" /\ RowsFit(id[1])
          BY <1>1, <1>3 DEF ReleaseFits, InventoryInv
        <4>3. x[2] \in Needed(OrderOf(id[1])) /\ id[2] \in Needed(OrderOf(id[1]))
          BY <1>3, <3>1, <4>1, <4>2 DEF RowsFit
        <4> QED BY <1>3, <3>1, <4>1, <4>2, <4>3 DEF RowsFit
      <3>3. freed[c] = {}
        BY <1>1, <3>2 DEF ReleaseFits
      <3>4. freed'[c] = {} /\ \A x \in todo'[c] : row'[x] = "RELEASED"
        BY <1>5, <2>2, <2>6, <3>2, <3>3 DEF StillActive
      <3> QED BY <2>2, <2>4, <3>4 DEF ReleaseFits, ItemsFreed
    <2> QED BY <2>5, <2>6
  <1>8. ASSUME NEW d \in Calls PROVE ReserveFits(d)' /\ ReleaseFits(d)'
    BY <1>4, <1>5, <1>7, OtherTransactions
  <1>9. /\ taken' \in [Calls -> SUBSET Items] /\ added' \in [Calls -> SUBSET Items]
        /\ returned' \in [Calls -> SUBSET Items]
    BY <1>1, <1>4 DEF TypeOK
  <1> QED BY <1>4, <1>5, <1>6, <1>8, <1>9, StatementStep

\* Stock is returned under the row's lock, for a row this release freed.
LEMMA ReturnStockInv ==
  ASSUME InventoryInv, NEW c \in Calls, ReturnStock(c)
  PROVE  InventoryInv'
  <1> DEFINE i == ItemToReturn(c)
  <1>1. TypeOK /\ ReleaseFits(c) /\ ItemsFreed(c) \subseteq Items
    BY DEF InventoryInv, TypeOK, ItemsFreed, RowId
  <1>2. i \in ItemsFreed(c) /\ i \in Items
    BY <1>1, LowestIn DEF ItemToReturn, ReturnStock, ReleaseFits
  <1>3. StockFree(c, i)
    BY DEF ReturnStock
  <1>4. /\ returned' \in [Calls -> SUBSET Items] /\ returned'[c] = returned[c] \cup {i}
        /\ \A d \in Calls \ {c} : returned'[d] = returned[d]
    BY <1>1, <1>2 DEF ReturnStock, TypeOK
  <1>5. UNCHANGED <<call, pc, lockVars, tableVars, todo, taken, added, freed, answer, faults>>
    BY DEF ReturnStock
  <1> HIDE DEF i
  <1>6. WritesApart'
    BY <1>3, <1>4, <1>5 DEF InventoryInv, WritesApart, StockFree, WritesStock
  <1>7. ReleaseFits(c)'
    <2>1. (\A d \in Calls : OrderOf(d)' = OrderOf(d)) /\ todo[c] \cup freed[c] \subseteq RowId
      BY <1>1, <1>5, TablesKept DEF TypeOK
    <2>2. Releasing(c)' = Releasing(c) /\ row' = row
      BY <1>5 DEF Releasing, tableVars
    <2> QED BY <1>1, <1>2, <1>4, <1>5, <2>1, <2>2 DEF ReleaseFits, ItemsFreed, Needed, RowId
  <1>8. ASSUME NEW d \in Calls PROVE ReserveFits(d)' /\ ReleaseFits(d)'
    BY <1>4, <1>5, <1>7, OtherTransactions
  <1>9. /\ todo' \in [Calls -> SUBSET RowId] /\ freed' \in [Calls -> SUBSET RowId]
        /\ taken' \in [Calls -> SUBSET Items] /\ added' \in [Calls -> SUBSET Items]
    BY <1>1, <1>5 DEF TypeOK
  <1> QED BY <1>4, <1>5, <1>6, <1>8, <1>9, StatementStep

-----------------------------------------------------------------------------
(* The commits.                                                            *)

\* The units one reservation of an item holds.
UnitsOf(c, i) == {c} \X (1 .. Need[OrderOf(c)][i])

\* They are as many as the order needs.
LEMMA UnitsOfCount ==
  ASSUME TypeOK, NEW c \in Calls, NEW i \in Items
  PROVE  IsFiniteSet(UnitsOf(c, i)) /\ Cardinality(UnitsOf(c, i)) = Need[OrderOf(c)][i]
  <1> DEFINE n == Need[OrderOf(c)][i]
  <1>1. n \in Nat
    BY OrderFacts
  <1> HIDE DEF n
  <1>2. IsFiniteSet(1 .. n) /\ Cardinality(1 .. n) = n
    <2>1. 1 \in Int /\ n \in Int
      BY <1>1
    <2>2. IsFiniteSet(1 .. n) /\ Cardinality(1 .. n) = IF 1 > n THEN 0 ELSE n - 1 + 1
      BY <2>1, FS_Interval
    <2>3. n = IF 1 > n THEN 0 ELSE n - 1 + 1
      BY <1>1
    <2> QED BY <2>2, <2>3
  <1>3. IsFiniteSet({c}) /\ Cardinality({c}) = 1
    BY FS_Singleton
  <1>4. IsFiniteSet({c} \X (1 .. n)) /\ Cardinality({c} \X (1 .. n)) = 1 * n
    BY <1>2, <1>3, FS_Product
  <1> QED BY <1>1, <1>4 DEF UnitsOf, n

\* A unit is held by the call that reserved it.
LEMMA UnitsMember ==
  ASSUME NEW i \in Items
  PROVE  /\ \A u : u \in Units(i) <=>
                    \E d \in Calls : row[<<d, i>>] = "ACTIVE" /\ u \in UnitsOf(d, i)
         /\ \A c, d \in Calls : \A u : u \in UnitsOf(c, i) /\ u \in UnitsOf(d, i) => c = d
         /\ \A c \in Calls : row[<<c, i>>] = "ACTIVE" => UnitsOf(c, i) \subseteq Units(i)
         /\ \A c \in Calls : row[<<c, i>>] # "ACTIVE" => UnitsOf(c, i) \cap Units(i) = {}
  <1>1. Units(i) = UNION {UnitsOf(d, i) : d \in {e \in Calls : row[<<e, i>>] = "ACTIVE"}}
    BY DEF Units, UnitsOf
  <1>2. \A u : u \in Units(i) <=>
                \E d \in Calls : row[<<d, i>>] = "ACTIVE" /\ u \in UnitsOf(d, i)
    BY <1>1
  <1>3. \A c, d \in Calls : \A u : u \in UnitsOf(c, i) /\ u \in UnitsOf(d, i) => c = d
    BY DEF UnitsOf
  <1> QED BY <1>2, <1>3

\* A unit held after a step is held by a row that is active after it.
LEMMA UnitsMemberAfter ==
  ASSUME NEW i \in Items, UNCHANGED call
  PROVE  \A u : u \in Units(i)' <=>
                 \E d \in Calls : row'[<<d, i>>] = "ACTIVE" /\ u \in UnitsOf(d, i)
  <1>1. Units(i)' = UNION {UnitsOf(d, i) : d \in {e \in Calls : row'[<<e, i>>] = "ACTIVE"}}
    BY DEF Units, UnitsOf, OrderOf
  <1> QED BY <1>1

\* A new reservation of an item adds its units.
LEMMA UnitsAdded ==
  ASSUME InventoryInv, NEW c \in Calls, NEW i \in Items, row[<<c, i>>] # "ACTIVE"
  PROVE  /\ IsFiniteSet(Units(i) \cup UnitsOf(c, i))
         /\ Cardinality(Units(i) \cup UnitsOf(c, i)) = Cardinality(Units(i)) + Need[OrderOf(c)][i]
  <1>1. IsFiniteSet(Units(i)) /\ IsFiniteSet(UnitsOf(c, i)) /\ Cardinality(UnitsOf(c, i)) = Need[OrderOf(c)][i]
    BY UnitsOfCount DEF InventoryInv
  <1>2. Units(i) \cap UnitsOf(c, i) = {}
    BY UnitsMember
  <1>3. Cardinality(Units(i) \cap UnitsOf(c, i)) = 0
    BY <1>2, FS_EmptySet
  <1>4. /\ IsFiniteSet(Units(i) \cup UnitsOf(c, i))
        /\ Cardinality(Units(i) \cup UnitsOf(c, i)) =
             Cardinality(Units(i)) + Cardinality(UnitsOf(c, i)) - Cardinality(Units(i) \cap UnitsOf(c, i))
    BY <1>1, FS_Union
  <1>5. Cardinality(Units(i)) \in Nat /\ Need[OrderOf(c)][i] \in Nat
    BY <1>1, FS_CardinalityType, OrderFacts DEF InventoryInv
  <1> QED BY <1>1, <1>3, <1>4, <1>5

\* A reservation that ends gives its units back.
LEMMA UnitsRemoved ==
  ASSUME InventoryInv, NEW c \in Calls, NEW i \in Items, row[<<c, i>>] = "ACTIVE"
  PROVE  /\ IsFiniteSet(Units(i) \ UnitsOf(c, i))
         /\ Cardinality(Units(i) \ UnitsOf(c, i)) = Cardinality(Units(i)) - Need[OrderOf(c)][i]
  <1>1. IsFiniteSet(Units(i)) /\ Cardinality(UnitsOf(c, i)) = Need[OrderOf(c)][i]
    BY UnitsOfCount DEF InventoryInv
  <1>2. Units(i) \cap UnitsOf(c, i) = UnitsOf(c, i)
    BY UnitsMember
  <1>3. /\ IsFiniteSet(Units(i) \ UnitsOf(c, i))
        /\ Cardinality(Units(i) \ UnitsOf(c, i)) =
             Cardinality(Units(i)) - Cardinality(Units(i) \cap UnitsOf(c, i))
    BY <1>1, FS_Difference
  <1> QED BY <1>1, <1>2, <1>3

\* What a reservation commits: all items of an order that held none.
LEMMA CommitReserveEffect ==
  ASSUME InventoryInv, NEW c \in Calls, CommitReserve(c)
  PROVE  LET o == OrderOf(c) IN
         /\ taken[c] = Needed(o) /\ added[c] = Needed(o) /\ Reserved(o) = {}
         /\ \A i \in Items :
              /\ row[<<c, i>>] = "NONE"
              /\ row'[<<c, i>>] = IF i \in Needed(o) THEN "ACTIVE" ELSE "NONE"
              /\ available[i] >= Need[o][i] /\ available'[i] = available[i] - Need[o][i]
         /\ \A d \in Calls \ {c}, i \in Items : row'[<<d, i>>] = row[<<d, i>>]
         /\ row' \in [RowId -> RowStatus] /\ available' \in [Items -> Nat]
         /\ \A d \in Calls : OrderOf(d)' = OrderOf(d)
  <1> DEFINE o == OrderOf(c)
  <1>1. /\ TypeOK /\ o \in Orders /\ ReserveFits(c) /\ RowsFit(c) /\ AllOrNothing
        /\ Reserving(c) /\ added[c] = Needed(o)
    BY OrderFacts DEF InventoryInv, CommitReserve
  <1>2. taken[c] = Needed(o) /\ Needed(o) # {} /\ Needed(o) \subseteq Items
    BY <1>1, OrderFacts DEF ReserveFits
  <1>3. Reserved(o) = {}
    BY <1>1, <1>2 DEF ReserveFits, AllOrNothing
  <1>4. \A d \in Calls : OrderOf(d)' = OrderOf(d)
    BY DEF CommitReserve, OrderOf
  <1>5. row' = [id \in RowId |-> IF id[1] = c /\ id[2] \in added[c] THEN "ACTIVE" ELSE row[id]]
    BY DEF CommitReserve
  <1>6. row' \in [RowId -> RowStatus]
    BY <1>1, <1>5 DEF TypeOK, RowStatus
  <1>7. ASSUME NEW i \in Items
        PROVE  /\ row[<<c, i>>] = "NONE"
               /\ row'[<<c, i>>] = IF i \in Needed(o) THEN "ACTIVE" ELSE "NONE"
    <2>1. row[<<c, i>>] = "NONE"
      BY <1>1 DEF RowsFit, Reserving
    <2>2. <<c, i>> \in RowId
      BY DEF RowId
    <2> QED BY <1>1, <1>5, <2>1, <2>2
  <1>8. ASSUME NEW d \in Calls \ {c}, NEW i \in Items PROVE row'[<<d, i>>] = row[<<d, i>>]
    <2>1. <<d, i>> \in RowId
      BY DEF RowId
    <2> QED BY <1>5, <2>1
  <1>9. ASSUME NEW i \in Items
        PROVE  available[i] >= Need[o][i] /\ available'[i] = available[i] - Need[o][i]
    <2>1. available[i] \in Nat /\ Need[o][i] \in Nat
      BY <1>1, OrderFacts DEF TypeOK
    <2>2. available'[i] = IF i \in taken[c] THEN available[i] - Need[o][i] ELSE available[i]
      BY DEF CommitReserve
    <2>3. CASE i \in Needed(o)
      BY <1>1, <1>2, <2>2, <2>3 DEF ReserveFits, Suffices
    <2>4. CASE i \notin Needed(o)
      BY <1>1, <1>2, <2>1, <2>2, <2>4, OrderFacts
    <2> QED BY <2>3, <2>4
  <1>10. available' \in [Items -> Nat]
    <2>1. \A i \in Items : available[i] - Need[o][i] \in Nat
      BY <1>1, <1>9, OrderFacts DEF TypeOK
    <2>2. available' = [i \in Items |-> available'[i]]
      BY DEF CommitReserve
    <2>3. \A i \in Items : available'[i] \in Nat
      BY <1>9, <2>1
    <2> QED BY <2>2, <2>3
  <1> QED BY <1>1, <1>2, <1>3, <1>4, <1>6, <1>7, <1>8, <1>9, <1>10

\* Its units leave the stock and join the reserved ones.
LEMMA CommitReserveBooks ==
  ASSUME InventoryInv, NEW c \in Calls, CommitReserve(c)
  PROVE  Conservation' /\ \A i \in Items : IsFiniteSet(Units(i)')
  <1>1. ASSUME NEW i \in Items
        PROVE  IsFiniteSet(Units(i)') /\ available'[i] + Cardinality(Units(i)') = Stock[i]
    <2> DEFINE o == OrderOf(c)
    <2>1. TypeOK /\ o \in Orders /\ Need[o][i] \in Nat /\ UNCHANGED call
          /\ (i \notin Needed(o) => Need[o][i] = 0)
      BY OrderFacts DEF InventoryInv, CommitReserve
    <2>2. /\ row[<<c, i>>] = "NONE"
          /\ row'[<<c, i>>] = IF i \in Needed(o) THEN "ACTIVE" ELSE "NONE"
          /\ available'[i] = available[i] - Need[o][i]
          /\ \A d \in Calls \ {c} : row'[<<d, i>>] = row[<<d, i>>]
      BY CommitReserveEffect
    <2>3. i \notin Needed(o) => UnitsOf(c, i) = {}
      BY <2>1 DEF UnitsOf
    <2>4. Units(i)' = Units(i) \cup UnitsOf(c, i)
      <3>1. \A u : u \in Units(i)' <=>
                    \E d \in Calls : row'[<<d, i>>] = "ACTIVE" /\ u \in UnitsOf(d, i)
        BY <2>1, UnitsMemberAfter
      <3>2. \A u : u \in Units(i) <=>
                    \E d \in Calls : row[<<d, i>>] = "ACTIVE" /\ u \in UnitsOf(d, i)
        BY UnitsMember
      <3>3. \A u : u \in Units(i)' <=> u \in Units(i) \/ u \in UnitsOf(c, i)
        BY <2>2, <2>3, <3>1, <3>2
      <3> QED BY <3>3
    <2>5. available[i] \in Nat /\ Stock[i] \in Nat /\ available[i] + Cardinality(Units(i)) = Stock[i]
      BY <2>1, StockAssumption DEF InventoryInv, TypeOK, Conservation
    <2>6. IsFiniteSet(Units(i)) /\ Cardinality(Units(i)) \in Nat
      BY FS_CardinalityType DEF InventoryInv
    <2>7. /\ IsFiniteSet(Units(i) \cup UnitsOf(c, i))
          /\ Cardinality(Units(i) \cup UnitsOf(c, i)) = Cardinality(Units(i)) + Need[o][i]
      BY <2>2, UnitsAdded
    <2> QED BY <2>1, <2>2, <2>4, <2>5, <2>6, <2>7
  <1> QED BY <1>1 DEF Conservation

\* The open transaction of one call ends, the others stay as they are.
LEMMA Discarded ==
  ASSUME TypeOK, NEW c \in Calls, Discard(c)
  PROVE  /\ todo' \in [Calls -> SUBSET RowId] /\ todo'[c] = {}
         /\ taken' \in [Calls -> SUBSET Items] /\ taken'[c] = {}
         /\ added' \in [Calls -> SUBSET Items] /\ added'[c] = {}
         /\ freed' \in [Calls -> SUBSET RowId] /\ freed'[c] = {}
         /\ returned' \in [Calls -> SUBSET Items] /\ returned'[c] = {}
         /\ \A d \in Calls \ {c} :
              /\ todo'[d] = todo[d] /\ taken'[d] = taken[d] /\ added'[d] = added[d]
              /\ freed'[d] = freed[d] /\ returned'[d] = returned[d]
  BY DEF TypeOK, Discard

\* The order now holds all it needs; other orders hold what they held.
LEMMA CommitReserveWhole ==
  ASSUME InventoryInv, NEW c \in Calls, CommitReserve(c)
  PROVE  /\ AllOrNothing'
         /\ \A p \in Orders :
              Reserved(p)' = IF p = OrderOf(c) THEN Needed(p) ELSE Reserved(p)
  <1>0. PICK o \in Orders : o = OrderOf(c)
    BY OrderFacts DEF InventoryInv
  <1>1. TypeOK /\ o \in Orders /\ AllOrNothing /\ Needed(o) \subseteq Items
    BY OrderFacts DEF InventoryInv
  <1>2. /\ \A i \in Items :
             row'[<<c, i>>] = (IF i \in Needed(o) THEN "ACTIVE" ELSE "NONE")
        /\ \A d \in Calls \ {c}, i \in Items : row'[<<d, i>>] = row[<<d, i>>]
        /\ \A d \in Calls : OrderOf(d)' = OrderOf(d)
        /\ \A i \in Items : row[<<c, i>>] = "NONE"
        /\ Reserved(o) = {}
    BY <1>0, CommitReserveEffect
  <1>3. \A d \in Calls, i \in Items : OrderOf(d) = o => row[<<d, i>>] # "ACTIVE"
    BY <1>2 DEF Reserved
  <1>4. \A p \in Orders, i \in Items :
          i \in Reserved(p)' <=> \E d \in Calls : OrderOf(d) = p /\ row'[<<d, i>>] = "ACTIVE"
    BY <1>2 DEF Reserved
  <1>5. \A p \in Orders : Reserved(p)' \subseteq Items /\ Reserved(p) \subseteq Items
    BY DEF Reserved
  <1>6. Reserved(o)' = Needed(o)
    <2>1. ASSUME NEW i \in Items PROVE i \in Reserved(o)' <=> i \in Needed(o)
      <3>1. \A d \in Calls \ {c} : OrderOf(d) = o => row'[<<d, i>>] # "ACTIVE"
        BY <1>2, <1>3
      <3>2. row'[<<c, i>>] = "ACTIVE" <=> i \in Needed(o)
        BY <1>0, <1>2
      <3> QED BY <1>0, <1>4, <3>1, <3>2
    <2> QED BY <1>1, <1>5, <2>1
  <1>7. ASSUME NEW p \in Orders \ {o} PROVE Reserved(p)' = Reserved(p)
    <2>1. \A i \in Items : i \in Reserved(p)' <=> i \in Reserved(p)
      BY <1>0, <1>2, <1>4 DEF Reserved
    <2> QED BY <1>5, <2>1
  <1>8. ASSUME NEW p \in Orders, NEW x \in RowId, NEW y \in RowId, x[2] = y[2],
               OrderOf(x[1])' = p, OrderOf(y[1])' = p, row'[x] = "ACTIVE", row'[y] = "ACTIVE"
        PROVE  x = y
    <2>1. /\ x = <<x[1], x[2]>> /\ x[1] \in Calls /\ x[2] \in Items
          /\ y = <<y[1], y[2]>> /\ y[1] \in Calls /\ y[2] \in Items
      BY DEF RowId
    <2>2. OrderOf(x[1]) = p /\ OrderOf(y[1]) = p
      BY <1>2, <1>8, <2>1
    <2>3. CASE p = o
      <3>1. x[1] = c /\ y[1] = c
        BY <1>2, <1>3, <1>8, <2>1, <2>2, <2>3
      <3> QED BY <1>8, <2>1, <3>1
    <2>4. CASE p # o
      <3>1. x[1] # c /\ y[1] # c
        BY <1>0, <2>2, <2>4
      <3>2. row[x] = "ACTIVE" /\ row[y] = "ACTIVE"
        BY <1>2, <1>8, <2>1, <3>1
      <3> QED BY <1>1, <1>8, <2>2, <3>2 DEF AllOrNothing
    <2> QED BY <2>3, <2>4
  <1>9. ASSUME NEW p \in Orders PROVE Reserved(p)' \in {{}, Needed(p)}
    BY <1>1, <1>6, <1>7 DEF AllOrNothing
  <1>10. AllOrNothing'
    BY <1>8, <1>9 DEF AllOrNothing, Needed
  <1> QED BY <1>0, <1>6, <1>7, <1>10

\* A reservation commits all items of its order, under locks on their rows.
LEMMA CommitReserveInv ==
  ASSUME InventoryInv, NEW c \in Calls, CommitReserve(c)
  PROVE  InventoryInv'
  <1> DEFINE o == OrderOf(c)
  <1>1. /\ TypeOK /\ o \in Orders /\ WritesApart
        /\ Discard(c) /\ Move(c, "LEAVING") /\ Reply(c, "OK")
        /\ UNCHANGED <<call, lockVars, faults>>
    BY OrderFacts DEF InventoryInv, CommitReserve
  <1>2. /\ taken[c] = Needed(o)
        /\ \A i \in Items :
             /\ row[<<c, i>>] = "NONE"
             /\ row'[<<c, i>>] = (IF i \in Needed(o) THEN "ACTIVE" ELSE "NONE")
             /\ available'[i] = available[i] - Need[o][i]
        /\ \A d \in Calls \ {c}, i \in Items : row'[<<d, i>>] = row[<<d, i>>]
        /\ row' \in [RowId -> RowStatus] /\ available' \in [Items -> Nat]
        /\ \A d \in Calls : OrderOf(d)' = OrderOf(d)
    BY CommitReserveEffect
  <1>3. "LEAVING" \in Place \ {"NEW"} /\ "OK" \in Answer
    BY DEF Place, Answer
  <1>4. /\ pc' \in [Calls -> Place] /\ pc'[c] = "LEAVING"
        /\ \A d \in Calls \ {c} : pc'[d] = pc[d]
    BY <1>1, <1>3, MoveType
  <1>5. answer' \in [Calls -> Answer]
    BY <1>1, <1>3, ReplyType
  <1>6. TypeOK'
    BY <1>1, <1>2, <1>4, <1>5, Discarded, OtherTypes DEF TypeOK
  <1>7. \A d \in Calls : LocksFit(d)'
    BY <1>1, <1>3, LocksKept
  <1>8. WritesApart'
    BY <1>1, Discarded DEF WritesApart
  <1>9. ASSUME NEW d \in Calls PROVE RowsFit(d)'
    <2>1. RowsFit(d)
      BY DEF InventoryInv
    <2>2. CASE d = c
      BY <1>2, <1>4, <2>2 DEF RowsFit, Needed
    <2>3. CASE d # c
      BY <1>2, <1>4, <2>1, <2>3 DEF RowsFit, Needed
    <2> QED BY <2>2, <2>3
  <1>10. ReserveFits(c)' /\ ReleaseFits(c)'
    <2>1. ~ Releasing(c)'
      BY <1>4 DEF Releasing
    <2> QED BY <1>1, <2>1, Discarded DEF ReserveFits, ReleaseFits, ItemsFreed
  <1>11. ASSUME NEW d \in Calls \ {c} PROVE ReserveFits(d)'
    <2>1. /\ ReserveFits(d) /\ taken'[d] = taken[d] /\ added'[d] = added[d]
          /\ (Reserving(d)' <=> Reserving(d)) /\ taken[d] \subseteq Items /\ OrderOf(d) \in Orders
      BY <1>1, <1>4, Discarded, OrderFacts DEF InventoryInv, Reserving, TypeOK
    <2>2. \A i \in taken[d] : i \notin Needed(o)
      BY <1>1, <1>2 DEF WritesApart
    <2>3. \A i \in taken[d] : available'[i] = available[i]
      <3>1. ASSUME NEW i \in taken[d] PROVE available[i] - Need[o][i] = available[i]
        <4>1. Need[o][i] = 0 /\ available[i] \in Nat
          BY <1>1, <2>1, <2>2, OrderFacts DEF TypeOK
        <4> QED BY <4>1
      <3> QED BY <1>2, <2>1, <3>1
    <2>4. \A i \in taken[d] : Suffices(d, i)'
      BY <1>2, <2>1, <2>3 DEF ReserveFits, Suffices
    <2>5. \A i \in added[d] : i \notin Reserved(OrderOf(d))'
      <3>1. PICK p \in Orders : p = OrderOf(d) /\ p = OrderOf(d)'
        BY <1>2, <2>1
      <3>2. Reserved(p)' = IF p = o THEN Needed(p) ELSE Reserved(p)
        BY CommitReserveWhole
      <3>3. \A i \in added[d] : i \notin Reserved(p)'
        BY <2>1, <2>2, <3>1, <3>2 DEF ReserveFits
      <3> QED BY <3>1, <3>3 DEF Reserved
    <2>6. \A i \in added'[d] : i \notin Reserved(OrderOf(d))'
      BY <2>1, <2>5
    <2> QED BY <1>2, <2>1, <2>4, <2>6 DEF ReserveFits, Needed
  <1>12. ASSUME NEW d \in Calls \ {c} PROVE ReleaseFits(d)'
    <2>1. /\ ReleaseFits(d) /\ todo'[d] = todo[d] /\ freed'[d] = freed[d] /\ returned'[d] = returned[d]
          /\ (Releasing(d)' <=> Releasing(d)) /\ todo[d] \cup freed[d] \subseteq RowId
      BY <1>1, <1>4, Discarded DEF InventoryInv, Releasing, TypeOK
    <2>2. ASSUME NEW id \in todo[d] \cup freed[d] PROVE row'[id] = row[id]
      <3>1. id = <<id[1], id[2]>> /\ id[1] \in Calls /\ id[2] \in Items
        BY <2>1 DEF RowId
      <3>2. row[id] # "NONE"
        BY <2>1 DEF ReleaseFits
      <3> QED BY <1>2, <3>1, <3>2
    <2>3. \A id \in todo[d] \cup freed[d] : OrderOf(id[1])' = OrderOf(id[1])
      BY <1>2, <2>1 DEF RowId
    <2> QED BY <1>2, <2>1, <2>2, <2>3 DEF ReleaseFits, ItemsFreed, Needed
  <1> QED BY <1>6, <1>7, <1>8, <1>9, <1>10, <1>11, <1>12, CommitReserveBooks, CommitReserveWhole
          DEF InventoryInv

\* What a release commits if it freed anything: a whole reservation q is given back.
LEMMA CommitReleaseEffect ==
  ASSUME InventoryInv, NEW c \in Calls, CommitRelease(c), freed[c] # {},
         NEW o \in Orders, o = OrderOf(c)
  PROVE  \E q \in Calls :
           /\ OrderOf(q) = o /\ freed[c] = {q} \X Needed(o)
           /\ \A i \in Needed(o) : row[<<q, i>>] = "ACTIVE" /\ row'[<<q, i>>] = "RELEASED"
           /\ \A i \in Items \ Needed(o) : row[<<q, i>>] = "NONE" /\ row'[<<q, i>>] = "NONE"
           /\ \A d \in Calls \ {q}, i \in Items : row'[<<d, i>>] = row[<<d, i>>]
           /\ \A i \in Items : available'[i] = available[i] + Need[o][i]
           /\ row' \in [RowId -> RowStatus] /\ available' \in [Items -> Nat]
           /\ \A d \in Calls : OrderOf(d)' = OrderOf(d)
  <1>1. /\ TypeOK /\ ReleaseFits(c) /\ Releasing(c) /\ todo[c] = {}
        /\ returned[c] = ItemsFreed(c) /\ Needed(o) \subseteq Items
        /\ freed[c] \subseteq RowId
    BY OrderFacts DEF InventoryInv, CommitRelease, TypeOK
  <1>2. PICK first \in freed[c] : TRUE
    OBVIOUS
  <1> DEFINE q == first[1]
  <1>3. q \in Calls /\ \A id \in freed[c] : id[1] = q
    BY <1>1, <1>2 DEF ReleaseFits, RowId
  <1>4. OrderOf(q) = o /\ \A id \in freed[c] : row[id] = "ACTIVE"
    BY <1>1, <1>2 DEF ReleaseFits
  <1>5. {id[2] : id \in freed[c]} = Needed(o)
    <2>1. todo[c] \cup freed[c] = freed[c]
      BY <1>1
    <2> QED BY <1>1, <2>1 DEF ReleaseFits
  <1>6. \A id \in freed[c] : id = <<id[1], id[2]>> /\ id[2] \in Items
    BY <1>1 DEF RowId
  <1> HIDE DEF q
  <1>7. freed[c] = {q} \X Needed(o)
    <2>1. ASSUME NEW i \in Needed(o) PROVE <<q, i>> \in freed[c]
      <3>1. PICK id \in freed[c] : id[2] = i
        BY <1>5
      <3> QED BY <1>3, <1>6, <3>1
    <2>2. ASSUME NEW id \in freed[c] PROVE id \in {q} \X Needed(o)
      <3>1. id[2] \in Needed(o)
        BY <1>5
      <3> QED BY <1>3, <1>6, <3>1
    <2>3. {q} \X Needed(o) \subseteq freed[c]
      BY <2>1
    <2> QED BY <2>2, <2>3
  <1>8. row' = [id \in RowId |-> IF id \in freed[c] THEN "RELEASED" ELSE row[id]]
    BY DEF CommitRelease
  <1>9. row' \in [RowId -> RowStatus]
    BY <1>1, <1>8 DEF TypeOK, RowStatus
  <1>10. ASSUME NEW i \in Needed(o) PROVE row[<<q, i>>] = "ACTIVE" /\ row'[<<q, i>>] = "RELEASED"
    <2>1. <<q, i>> \in freed[c] /\ <<q, i>> \in RowId
      BY <1>1, <1>3, <1>7 DEF RowId
    <2> QED BY <1>4, <1>8, <2>1
  <1>11. ASSUME NEW i \in Items \ Needed(o)
         PROVE  row[<<q, i>>] = "NONE" /\ row'[<<q, i>>] = "NONE"
    <2>1. <<q, i>> \notin freed[c] /\ <<q, i>> \in RowId
      BY <1>3, <1>7 DEF RowId
    <2>2. row[<<q, i>>] = "NONE"
      BY <1>3, <1>4 DEF InventoryInv, RowsFit
    <2> QED BY <1>8, <2>1, <2>2
  <1>12. ASSUME NEW d \in Calls \ {q}, NEW i \in Items PROVE row'[<<d, i>>] = row[<<d, i>>]
    <2>1. <<d, i>> \notin freed[c] /\ <<d, i>> \in RowId
      BY <1>7 DEF RowId
    <2> QED BY <1>8, <2>1
  <1>13. ASSUME NEW i \in Items
         PROVE  available'[i] = available[i] + Need[o][i] /\ available'[i] \in Nat
    <2>1. available[i] \in Nat /\ Need[o][i] \in Nat /\ (i \notin Needed(o) => Need[o][i] = 0)
      BY <1>1, OrderFacts DEF TypeOK
    <2>2. returned[c] = Needed(o)
      BY <1>1, <1>5 DEF ItemsFreed
    <2>3. available'[i] = IF i \in returned[c] THEN available[i] + Need[o][i] ELSE available[i]
      BY DEF CommitRelease
    <2> QED BY <2>1, <2>2, <2>3
  <1>14. available' \in [Items -> Nat]
    <2>1. available' = [i \in Items |-> available'[i]]
      BY DEF CommitRelease
    <2> QED BY <1>13, <2>1
  <1>15. \A d \in Calls : OrderOf(d)' = OrderOf(d)
    BY DEF CommitRelease, OrderOf
  <1> QED BY <1>3, <1>4, <1>7, <1>9, <1>10, <1>11, <1>12, <1>13, <1>14, <1>15

\* Its units return to the stock, once.
LEMMA CommitReleaseBooks ==
  ASSUME InventoryInv, NEW c \in Calls, CommitRelease(c), freed[c] # {}
  PROVE  Conservation' /\ \A i \in Items : IsFiniteSet(Units(i)')
  <1>0. PICK o \in Orders : o = OrderOf(c)
    BY OrderFacts DEF InventoryInv
  <1>1. PICK q \in Calls :
          /\ OrderOf(q) = o
          /\ \A i \in Needed(o) : row[<<q, i>>] = "ACTIVE" /\ row'[<<q, i>>] = "RELEASED"
          /\ \A i \in Items \ Needed(o) : row[<<q, i>>] = "NONE" /\ row'[<<q, i>>] = "NONE"
          /\ \A d \in Calls \ {q}, i \in Items : row'[<<d, i>>] = row[<<d, i>>]
          /\ \A i \in Items : available'[i] = available[i] + Need[o][i]
    BY <1>0, CommitReleaseEffect
  <1>2. TypeOK /\ UNCHANGED call
    BY DEF InventoryInv, CommitRelease
  <1>3. ASSUME NEW i \in Items
        PROVE  IsFiniteSet(Units(i)') /\ available'[i] + Cardinality(Units(i)') = Stock[i]
    <2>1. available[i] \in Nat /\ Stock[i] \in Nat /\ available[i] + Cardinality(Units(i)) = Stock[i]
      BY <1>2, StockAssumption DEF InventoryInv, TypeOK, Conservation
    <2>2. IsFiniteSet(Units(i)) /\ Cardinality(Units(i)) \in Nat
      BY FS_CardinalityType DEF InventoryInv
    <2>3. Need[o][i] \in Nat /\ (i \notin Needed(o) => Need[o][i] = 0)
      BY <1>2, OrderFacts
    <2>4. \A u : u \in Units(i)' <=>
                  \E d \in Calls : row'[<<d, i>>] = "ACTIVE" /\ u \in UnitsOf(d, i)
      BY <1>2, UnitsMemberAfter
    <2>5. /\ \A u : u \in Units(i) <=>
                    \E d \in Calls : row[<<d, i>>] = "ACTIVE" /\ u \in UnitsOf(d, i)
          /\ \A d, e \in Calls : \A u : u \in UnitsOf(d, i) /\ u \in UnitsOf(e, i) => d = e
      BY UnitsMember
    <2>6. CASE i \in Needed(o)
      <3>1. row[<<q, i>>] = "ACTIVE" /\ row'[<<q, i>>] # "ACTIVE"
        BY <1>1, <2>6
      <3>2. ASSUME NEW u PROVE u \in Units(i)' <=> u \in Units(i) /\ u \notin UnitsOf(q, i)
        <4>1. ASSUME NEW d \in Calls, row'[<<d, i>>] = "ACTIVE", u \in UnitsOf(d, i)
              PROVE  u \in Units(i) /\ u \notin UnitsOf(q, i)
          <5>1. d # q /\ row[<<d, i>>] = "ACTIVE"
            BY <1>1, <3>1, <4>1
          <5> QED BY <2>5, <4>1, <5>1
        <4>2. ASSUME NEW d \in Calls, row[<<d, i>>] = "ACTIVE", u \in UnitsOf(d, i),
                     u \notin UnitsOf(q, i)
              PROVE  row'[<<d, i>>] = "ACTIVE"
          BY <1>1, <4>2
        <4> QED BY <2>4, <2>5, <4>1, <4>2
      <3>3. Units(i)' = Units(i) \ UnitsOf(q, i)
        BY <3>2
      <3>4. /\ IsFiniteSet(Units(i) \ UnitsOf(q, i))
            /\ Cardinality(Units(i) \ UnitsOf(q, i)) = Cardinality(Units(i)) - Need[OrderOf(q)][i]
        BY <3>1, UnitsRemoved
      <3> QED BY <1>1, <2>1, <2>2, <2>3, <3>3, <3>4
    <2>7. CASE i \notin Needed(o)
      <3>1. \A d \in Calls : row'[<<d, i>>] = row[<<d, i>>]
        BY <1>1, <2>7
      <3>2. \A u : u \in Units(i)' <=> u \in Units(i)
        BY <2>4, <2>5, <3>1
      <3>3. Units(i)' = Units(i)
        BY <3>2
      <3> QED BY <1>1, <2>1, <2>2, <2>3, <2>7, <3>3
    <2> QED BY <2>6, <2>7
  <1> QED BY <1>3 DEF Conservation

\* The order now holds nothing; other orders hold what they held.
LEMMA CommitReleaseWhole ==
  ASSUME InventoryInv, NEW c \in Calls, CommitRelease(c), freed[c] # {}
  PROVE  /\ AllOrNothing'
         /\ \A p \in Orders : Reserved(p)' = IF p = OrderOf(c) THEN {} ELSE Reserved(p)
         /\ Reserved(OrderOf(c)) = Needed(OrderOf(c))
  <1>0. PICK o \in Orders : o = OrderOf(c)
    BY OrderFacts DEF InventoryInv
  <1>1. PICK q \in Calls :
          /\ OrderOf(q) = o
          /\ \A i \in Needed(o) : row[<<q, i>>] = "ACTIVE" /\ row'[<<q, i>>] = "RELEASED"
          /\ \A i \in Items \ Needed(o) : row[<<q, i>>] = "NONE" /\ row'[<<q, i>>] = "NONE"
          /\ \A d \in Calls \ {q}, i \in Items : row'[<<d, i>>] = row[<<d, i>>]
          /\ \A d \in Calls : OrderOf(d)' = OrderOf(d)
    BY <1>0, CommitReleaseEffect
  <1>2. TypeOK /\ AllOrNothing /\ Needed(o) \subseteq Items /\ Needed(o) # {}
    BY OrderFacts DEF InventoryInv
  <1>3. Reserved(o) = Needed(o)
    <2>1. PICK i \in Needed(o) : TRUE
      BY <1>2
    <2>2. i \in Reserved(o)
      BY <1>1, <1>2 DEF Reserved
    <2> QED BY <1>2, <2>2 DEF AllOrNothing
  <1>4. ASSUME NEW d \in Calls \ {q}, NEW i \in Items, OrderOf(d) = o
        PROVE  row[<<d, i>>] # "ACTIVE"
    <2> SUFFICES ASSUME row[<<d, i>>] = "ACTIVE" PROVE FALSE
      OBVIOUS
    <2>1. i \in Reserved(o)
      BY <1>4 DEF Reserved
    <2>2. row[<<q, i>>] = "ACTIVE"
      BY <1>1, <1>3, <2>1
    <2>3. <<d, i>> \in RowId /\ <<q, i>> \in RowId
      BY DEF RowId
    <2>4. <<d, i>> = <<q, i>>
      BY <1>1, <1>2, <1>4, <2>2, <2>3 DEF AllOrNothing
    <2> QED BY <2>4
  <1>5. \A p \in Orders, i \in Items :
          i \in Reserved(p)' <=> \E d \in Calls : OrderOf(d) = p /\ row'[<<d, i>>] = "ACTIVE"
    BY <1>1 DEF Reserved
  <1>6. \A d \in Calls, i \in Items : OrderOf(d) = o => row'[<<d, i>>] # "ACTIVE"
    BY <1>1, <1>4
  <1>7. \A p \in Orders : Reserved(p)' \subseteq Items /\ Reserved(p) \subseteq Items
    BY DEF Reserved
  <1>8. Reserved(o)' = {}
    <2>1. \A i \in Items : i \notin Reserved(o)'
      BY <1>5, <1>6
    <2> QED BY <1>7, <2>1
  <1>9. ASSUME NEW p \in Orders \ {o} PROVE Reserved(p)' = Reserved(p)
    <2>1. \A d \in Calls, i \in Items : OrderOf(d) = p => row'[<<d, i>>] = row[<<d, i>>]
      BY <1>1
    <2>2. ASSUME NEW i \in Items PROVE i \in Reserved(p)' <=> i \in Reserved(p)
      <3>1. i \in Reserved(p) <=> \E d \in Calls : OrderOf(d) = p /\ row[<<d, i>>] = "ACTIVE"
        BY DEF Reserved
      <3>2. i \in Reserved(p)' <=> \E d \in Calls : OrderOf(d) = p /\ row'[<<d, i>>] = "ACTIVE"
        BY <1>5
      <3> QED BY <2>1, <3>1, <3>2
    <2> QED BY <1>7, <2>2
  <1>10. ASSUME NEW p \in Orders, NEW x \in RowId, NEW y \in RowId, x[2] = y[2],
                OrderOf(x[1])' = p, OrderOf(y[1])' = p, row'[x] = "ACTIVE", row'[y] = "ACTIVE"
         PROVE  x = y
    <2>1. /\ x = <<x[1], x[2]>> /\ x[1] \in Calls /\ x[2] \in Items
          /\ y = <<y[1], y[2]>> /\ y[1] \in Calls /\ y[2] \in Items
      BY DEF RowId
    <2>2. OrderOf(x[1]) = p /\ OrderOf(y[1]) = p
      BY <1>1, <1>10, <2>1
    <2>3. p # o
      BY <1>6, <1>10, <2>1, <2>2
    <2>4. x[1] # q /\ y[1] # q
      BY <1>1, <2>2, <2>3
    <2>5. row[x] = "ACTIVE" /\ row[y] = "ACTIVE"
      BY <1>1, <1>10, <2>1, <2>4
    <2> QED BY <1>2, <1>10, <2>2, <2>5 DEF AllOrNothing
  <1>11. ASSUME NEW p \in Orders PROVE Reserved(p)' \in {{}, Needed(p)}
    BY <1>2, <1>8, <1>9 DEF AllOrNothing
  <1>12. AllOrNothing'
    BY <1>10, <1>11 DEF AllOrNothing, Needed
  <1> QED BY <1>0, <1>3, <1>8, <1>9, <1>12

\* A release commits a whole reservation's return, or nothing.
LEMMA CommitReleaseInv ==
  ASSUME InventoryInv, NEW c \in Calls, CommitRelease(c)
  PROVE  InventoryInv'
  <1>0. PICK o \in Orders : o = OrderOf(c)
    BY OrderFacts DEF InventoryInv
  <1>1. /\ TypeOK /\ WritesApart /\ Releasing(c) /\ returned[c] = ItemsFreed(c)
        /\ Discard(c) /\ Move(c, "LEAVING") /\ Reply(c, "OK")
        /\ UNCHANGED <<call, lockVars, faults>>
    BY DEF InventoryInv, CommitRelease
  <1>2. "LEAVING" \in Place \ {"NEW"} /\ "OK" \in Answer
    BY DEF Place, Answer
  <1>3. /\ pc' \in [Calls -> Place] /\ pc'[c] = "LEAVING"
        /\ \A d \in Calls \ {c} : pc'[d] = pc[d]
    BY <1>1, <1>2, MoveType
  <1>4. answer' \in [Calls -> Answer]
    BY <1>1, <1>2, ReplyType
  <1>5. \A d \in Calls : LocksFit(d)'
    BY <1>1, <1>2, LocksKept
  <1>6. CASE freed[c] = {}
    <2>1. returned[c] = {}
      BY <1>1, <1>6 DEF ItemsFreed
    <2>2. UNCHANGED tableVars
      BY <1>1, <1>6, <2>1 DEF CommitRelease, tableVars, TypeOK
    <2>3. /\ pc[c] # "NEW" /\ faults' \in 0 .. MaxFaults
          /\ keys' \in [Calls -> SUBSET Items] /\ holding' \in [Calls -> SUBSET Items]
          /\ \A d \in Calls : holding'[d] \subseteq keys'[d]
          /\ lock' \in [Items -> Calls \cup {Nobody}] /\ overran' \subseteq Calls
      BY <1>1 DEF TypeOK, lockVars, Releasing
    <2> QED BY <1>1, <1>3, <1>4, <1>5, <2>2, <2>3, DiscardStep
  <1>7. CASE freed[c] # {}
    <2>1. PICK q \in Calls :
            /\ OrderOf(q) = o /\ freed[c] = {q} \X Needed(o)
            /\ \A i \in Needed(o) : row[<<q, i>>] = "ACTIVE" /\ row'[<<q, i>>] = "RELEASED"
            /\ \A i \in Items \ Needed(o) : row[<<q, i>>] = "NONE" /\ row'[<<q, i>>] = "NONE"
            /\ \A d \in Calls \ {q}, i \in Items : row'[<<d, i>>] = row[<<d, i>>]
            /\ \A i \in Items : available'[i] = available[i] + Need[o][i]
            /\ row' \in [RowId -> RowStatus] /\ available' \in [Items -> Nat]
            /\ \A d \in Calls : OrderOf(d)' = OrderOf(d)
      BY <1>0, <1>7, CommitReleaseEffect
    <2>2. TypeOK'
      BY <1>1, <1>3, <1>4, <2>1, Discarded, OtherTypes DEF TypeOK
    <2>3. WritesApart'
      BY <1>1, Discarded DEF WritesApart
    <2>4. ASSUME NEW d \in Calls PROVE RowsFit(d)'
      <3>1. RowsFit(d)
        BY DEF InventoryInv
      <3>2. CASE d = q
        <4>1. pc[q] \notin {"NEW", "LOCKING", "BACKOFF", "WORKING"}
          <5>1. PICK i \in Needed(o) : i \in Items
            BY <1>1, OrderFacts
          <5> QED BY <2>1, <3>1, <3>2, <5>1 DEF RowsFit
        <4>2. pc'[q] \notin {"NEW", "LOCKING", "BACKOFF", "WORKING"}
          BY <1>3, <4>1
        <4> QED BY <2>1, <3>2, <4>2 DEF RowsFit, Needed
      <3>3. CASE d # q
        BY <1>3, <2>1, <3>1, <3>3 DEF RowsFit, Needed
      <3> QED BY <3>2, <3>3
    <2>5. ReserveFits(c)' /\ ReleaseFits(c)'
      <3>1. ~ Releasing(c)'
        BY <1>3 DEF Releasing
      <3> QED BY <1>1, <3>1, Discarded DEF ReserveFits, ReleaseFits, ItemsFreed
    <2>6. ASSUME NEW d \in Calls \ {c} PROVE ReserveFits(d)'
      <3>1. /\ ReserveFits(d) /\ taken'[d] = taken[d] /\ added'[d] = added[d]
            /\ (Reserving(d)' <=> Reserving(d)) /\ taken[d] \subseteq Items
        BY <1>1, <1>3, Discarded DEF InventoryInv, Reserving, TypeOK
      <3>2. PICK p \in Orders : p = OrderOf(d) /\ p = OrderOf(d)'
        BY <1>1, <2>1, OrderFacts
      <3>3. ASSUME NEW i \in taken[d] PROVE available'[i] >= Need[p][i]
        <4>1. available[i] \in Nat /\ Need[o][i] \in Nat /\ Need[p][i] \in Nat
          BY <1>1, <3>1, OrderFacts DEF TypeOK
        <4>2. available[i] >= Need[p][i]
          BY <3>1, <3>2 DEF ReserveFits, Suffices
        <4>3. available'[i] = available[i] + Need[o][i]
          BY <2>1, <3>1
        <4> QED BY <4>1, <4>2, <4>3
      <3>4. \A i \in taken[d] : Suffices(d, i)'
        BY <3>2, <3>3 DEF Suffices
      <3>5. Reserved(p)' = IF p = o THEN {} ELSE Reserved(p)
        BY <1>0, <1>7, CommitReleaseWhole
      <3>6. \A i \in added[d] : i \notin Reserved(p)'
        BY <3>1, <3>2, <3>5 DEF ReserveFits
      <3>7. \A i \in added'[d] : i \notin Reserved(OrderOf(d))'
        BY <3>1, <3>2, <3>6 DEF Reserved
      <3> QED BY <3>1, <3>2, <3>4, <3>7 DEF ReserveFits, Needed
    <2>7. ASSUME NEW d \in Calls \ {c} PROVE ReleaseFits(d)'
      <3>1. /\ ReleaseFits(d) /\ todo'[d] = todo[d] /\ freed'[d] = freed[d]
            /\ returned'[d] = returned[d] /\ (Releasing(d)' <=> Releasing(d))
            /\ todo[d] \cup freed[d] \subseteq RowId
        BY <1>1, <1>3, Discarded DEF InventoryInv, Releasing, TypeOK
      <3>2. ASSUME NEW id \in RowId
            PROVE  row'[id] = IF id \in freed[c] THEN "RELEASED" ELSE row[id]
        BY DEF CommitRelease
      <3>3. freed[c] \cap freed[d] = {}
        BY <1>1 DEF WritesApart
      <3>4. \A id \in todo[d] \cup freed[d] : OrderOf(id[1])' = OrderOf(id[1])
        BY <2>1, <3>1 DEF RowId
      <3>5. /\ \A id \in todo[d] \cup freed[d] : row'[id] # "NONE"
            /\ \A id \in freed[d] : row'[id] = "ACTIVE"
        BY <3>1, <3>2, <3>3 DEF ReleaseFits
      <3>6. (\A id \in todo[d] : row[id] = "RELEASED") => \A id \in todo[d] : row'[id] = "RELEASED"
        BY <3>1, <3>2
      <3> QED BY <2>1, <3>1, <3>4, <3>5, <3>6 DEF ReleaseFits, ItemsFreed, Needed
    <2> QED BY <1>5, <1>7, <2>2, <2>3, <2>4, <2>5, <2>6, <2>7, CommitReleaseBooks,
               CommitReleaseWhole DEF InventoryInv
  <1> QED BY <1>6, <1>7

-----------------------------------------------------------------------------
(* The theorems.                                                           *)

\* Every step, or none, keeps the invariant.
LEMMA StepInv == InventoryInv /\ [Next]_vars => InventoryInv'
  <1> SUFFICES ASSUME InventoryInv, [Next]_vars PROVE InventoryInv'
    OBVIOUS
  <1>1. ASSUME NEW c \in Calls, LockStep(c) PROVE InventoryInv'
    BY <1>1, CallReserveInv, CallReleaseInv, AcquireInv, ContendInv, UnlockInv, RetryInv,
       TimeOutInv, FinishInv DEF LockStep
  <1>2. ASSUME NEW c \in Calls, ReserveStep(c) PROVE InventoryInv'
    BY <1>2, ReserveAgainInv, BeginReserveInv, DecrementInv, RunShortInv, InsertRowInv,
       ViolateIndexInv, CommitReserveInv DEF ReserveStep
  <1>3. ASSUME NEW c \in Calls, ReleaseStep(c) PROVE InventoryInv'
    BY <1>3, BeginReleaseInv, FreeRowInv, ReturnStockInv, CommitReleaseInv DEF ReleaseStep
  <1>4. ASSUME NEW c \in Calls, Abort(c) \/ Crash(c) PROVE InventoryInv'
    BY <1>4, AbortInv, CrashInv
  <1>5. ASSUME NEW i \in Items, Expire(i) PROVE InventoryInv'
    BY <1>5, ExpireInv
  <1>6. CASE UNCHANGED vars
    <2>1. TypeOK'
      BY <1>6 DEF InventoryInv, TypeOK, vars, lockVars, tableVars, txVars
    <2>2. \A c \in Calls : QuietMove(c) /\ LocksFit(c)'
      BY <1>6 DEF InventoryInv, QuietMove, LocksFit, vars, lockVars
    <2> QED BY <1>6, <2>1, <2>2, QuietStep DEF vars
  <1> QED BY <1>1, <1>2, <1>3, <1>4, <1>5, <1>6 DEF Next

\* The parts of the invariant hold in every reachable state.
THEOREM InventoryInvariant == Spec => []InventoryInv
  BY InitInv, StepInv, PTL DEF Spec

\* Every variable of the service keeps its type; available stock never runs
\* negative, which the table's CHECK constraint would refuse.
THEOREM InventoryTypeCorrect == Spec => []TypeOK
  <1>1. InventoryInv => TypeOK
    BY DEF InventoryInv
  <1> QED BY <1>1, InventoryInvariant, PTL

\* No unit is sold twice, lost or returned twice.
THEOREM StockConserved == Spec => []Conservation
  <1>1. InventoryInv => Conservation
    BY DEF InventoryInv
  <1> QED BY <1>1, InventoryInvariant, PTL

\* An order holds all of its items once, or none.
THEOREM WholeOrNothing == Spec => []AllOrNothing
  <1>1. InventoryInv => AllOrNothing
    BY DEF InventoryInv
  <1> QED BY <1>1, InventoryInvariant, PTL

\* Calls that share an item exclude each other while their locks last.
THEOREM LocksExclude == Spec => []ExclusiveUnlessOverrun
  <1>1. ASSUME InventoryInv PROVE ExclusiveUnlessOverrun
    <2> SUFFICES ASSUME NEW c \in Calls, NEW d \in Calls, c # d, pc[c] = "WORKING",
                        pc[d] = "WORKING", keys[c] \cap keys[d] # {}
                 PROVE  c \in overran \/ d \in overran
      BY DEF ExclusiveUnlessOverrun
    <2>1. PICK i \in keys[c] : i \in keys[d]
      OBVIOUS
    <2>2. holding[c] = keys[c] /\ holding[d] = keys[d]
      BY <1>1 DEF InventoryInv, LocksFit
    <2>3. (lock[i] = c \/ c \in overran) /\ (lock[i] = d \/ d \in overran)
      BY <1>1, <2>1, <2>2 DEF InventoryInv, LocksFit
    <2> QED BY <2>3
  <1> QED BY <1>1, InventoryInvariant, PTL

\* A step that writes no table, takes no call back, and answers OK to a
\* reservation only for an order that holds stock.
WritesNothing ==
  /\ UNCHANGED <<call, tableVars>>
  /\ \A d \in Calls : pc'[d] = "NEW" => pc[d] = "NEW"
  /\ \A d \in Calls :
       call[d].kind = "RESERVE" /\ answer'[d] = "OK" =>
         answer[d] = "OK" \/ FindActive(OrderOf(d)) # {}

\* Only the two commits write tables.
LEMMA OnlyCommitsWrite ==
  ASSUME InventoryInv, [Next]_vars
  PROVE  WritesNothing \/ \E c \in Calls : CommitReserve(c) \/ CommitRelease(c)
  <1>1. pc \in [Calls -> Place] /\ answer \in [Calls -> Answer]
    BY DEF InventoryInv, TypeOK
  <1> USE <1>1
  <1>2. ASSUME NEW c \in Calls, LockStep(c) PROVE WritesNothing
    <2>1. CASE CallReserve(c)
      BY <2>1 DEF CallReserve, Move, WritesNothing
    <2>2. CASE CallRelease(c)
      BY <2>2 DEF CallRelease, Move, Reply, WritesNothing
    <2>3. CASE Acquire(c)
      BY <2>3 DEF Acquire, WritesNothing
    <2>4. CASE Contend(c)
      BY <2>4 DEF Contend, Move, WritesNothing
    <2>5. CASE Unlock(c)
      BY <2>5 DEF Unlock, WritesNothing
    <2>6. CASE Retry(c)
      BY <2>6 DEF Retry, Move, WritesNothing
    <2>7. CASE TimeOut(c)
      BY <2>7 DEF TimeOut, Move, Reply, WritesNothing
    <2>8. CASE Finish(c)
      BY <2>8 DEF Finish, Move, WritesNothing
    <2> QED BY <1>2, <2>1, <2>2, <2>3, <2>4, <2>5, <2>6, <2>7, <2>8 DEF LockStep
  <1>3. ASSUME NEW c \in Calls, ReserveStep(c), ~ CommitReserve(c) PROVE WritesNothing
    <2>1. CASE ReserveAgain(c)
      BY <2>1 DEF ReserveAgain, Move, Reply, WritesNothing
    <2>2. CASE BeginReserve(c)
      BY <2>2 DEF BeginReserve, Move, WritesNothing
    <2>3. CASE Decrement(c)
      BY <2>3 DEF Decrement, WritesNothing
    <2>4. CASE RunShort(c)
      BY <2>4 DEF RunShort, Move, Reply, WritesNothing
    <2>5. CASE InsertRow(c)
      BY <2>5 DEF InsertRow, WritesNothing
    <2>6. CASE ViolateIndex(c)
      BY <2>6 DEF ViolateIndex, Move, Reply, WritesNothing
    <2> QED BY <1>3, <2>1, <2>2, <2>3, <2>4, <2>5, <2>6 DEF ReserveStep
  <1>4. ASSUME NEW c \in Calls, ReleaseStep(c), ~ CommitRelease(c) PROVE WritesNothing
    <2>1. CASE BeginRelease(c)
      <3>1. call[c].kind # "RESERVE"
        BY <2>1 DEF BeginRelease
      <3> QED BY <2>1, <3>1 DEF BeginRelease, Move, Reply, WritesNothing
    <2>2. CASE FreeRow(c)
      BY <2>2 DEF FreeRow, WritesNothing
    <2>3. CASE ReturnStock(c)
      BY <2>3 DEF ReturnStock, WritesNothing
    <2> QED BY <1>4, <2>1, <2>2, <2>3 DEF ReleaseStep
  <1>5. ASSUME NEW c \in Calls, Abort(c) PROVE WritesNothing
    BY <1>5 DEF Abort, Move, Reply, WritesNothing
  <1>6. ASSUME NEW c \in Calls, Crash(c) PROVE WritesNothing
    BY <1>6 DEF Crash, Move, Reply, WritesNothing
  <1>7. ASSUME NEW i \in Items, Expire(i) PROVE WritesNothing
    BY <1>7 DEF Expire, WritesNothing
  <1>8. CASE UNCHANGED vars
    BY <1>8 DEF vars, WritesNothing
  <1> QED BY <1>2, <1>3, <1>4, <1>5, <1>6, <1>7, <1>8 DEF Next

\* A reservation answered OK is not taken away before its order is released.
LEMMA ReservedStep ==
  ASSUME InventoryInv, ReservedUntilReleased, [Next]_vars
  PROVE  ReservedUntilReleased'
  <1> SUFFICES ASSUME NEW c \in Calls, NEW o \in Orders, o = OrderOf(c), call'[c].kind = "RESERVE",
                      answer'[c] = "OK",
                      \A d \in Calls : call'[d].kind = "RELEASE" /\ OrderOf(d)' = OrderOf(c)'
                                       => pc'[d] = "NEW"
               PROVE  Reserved(OrderOf(c))' = Needed(OrderOf(c))'
    BY OrderFacts DEF ReservedUntilReleased, InventoryInv
  <1>1. TypeOK
    BY DEF InventoryInv
  <1>2. call' = call
    BY OnlyCommitsWrite DEF WritesNothing, CommitReserve, CommitRelease
  <1>3. \A d \in Calls : OrderOf(d)' = OrderOf(d)
    BY <1>2 DEF OrderOf
  <1>4. Reserved(o)' = Needed(o) => Reserved(OrderOf(c))' = Needed(OrderOf(c))'
    BY <1>3 DEF Reserved, Needed
  <1>5. ASSUME WritesNothing PROVE Reserved(o)' = Needed(o)
    <2>1. \A d \in Calls : call[d].kind = "RELEASE" /\ OrderOf(d) = OrderOf(c) => pc[d] = "NEW"
      BY <1>2, <1>3, <1>5 DEF WritesNothing
    <2>2. Reserved(o)' = Reserved(o)
      BY <1>5, TablesKept DEF WritesNothing
    <2>3. CASE answer[c] = "OK"
      BY <1>2, <2>1, <2>2, <2>3 DEF ReservedUntilReleased
    <2>4. CASE answer[c] # "OK"
      <3>1. FindActive(o) # {}
        BY <1>2, <1>5, <2>4 DEF WritesNothing
      <3>2. Reserved(o) # {}
        BY <3>1 DEF FindActive, Reserved, RowId
      <3> QED BY <2>2, <3>2 DEF InventoryInv, AllOrNothing
    <2> QED BY <2>3, <2>4
  <1>6. ASSUME NEW d \in Calls, CommitReserve(d) PROVE Reserved(o)' = Needed(o)
    <2>1. Reserved(o)' = IF o = OrderOf(d) THEN Needed(o) ELSE Reserved(o)
      BY <1>6, CommitReserveWhole
    <2>2. pc' = [pc EXCEPT ![d] = "LEAVING"] /\ call[d].kind = "RESERVE"
          /\ answer' = [answer EXCEPT ![d] = "OK"]
      BY <1>6 DEF CommitReserve, Move, Reply, Reserving
    <2>3. CASE o # OrderOf(d)
      <3>1. c # d /\ answer[c] = "OK"
        BY <1>1, <2>2, <2>3 DEF TypeOK
      <3>2. \A e \in Calls : call[e].kind = "RELEASE" /\ OrderOf(e) = OrderOf(c) => pc[e] = "NEW"
        BY <1>1, <1>2, <1>3, <2>2 DEF TypeOK
      <3> QED BY <1>2, <2>1, <2>3, <3>1, <3>2 DEF ReservedUntilReleased
    <2> QED BY <2>1, <2>3
  <1>7. ASSUME NEW d \in Calls, CommitRelease(d) PROVE Reserved(o)' = Needed(o)
    <2>1. pc' = [pc EXCEPT ![d] = "LEAVING"] /\ call[d].kind = "RELEASE" /\ pc[d] = "WORKING"
          /\ answer' = [answer EXCEPT ![d] = "OK"]
      BY <1>7 DEF CommitRelease, Move, Reply, Releasing
    <2>2. OrderOf(d) # o
      BY <1>1, <1>2, <1>3, <2>1 DEF TypeOK
    <2>3. c # d /\ answer[c] = "OK"
      BY <1>1, <2>1, <2>2 DEF TypeOK
    <2>4. \A e \in Calls : call[e].kind = "RELEASE" /\ OrderOf(e) = OrderOf(c) => pc[e] = "NEW"
      BY <1>1, <1>2, <1>3, <2>1, <2>2 DEF TypeOK
    <2>5. Reserved(o) = Needed(o)
      BY <1>2, <2>3, <2>4 DEF ReservedUntilReleased
    <2>6. CASE freed[d] = {}
      <3>1. UNCHANGED tableVars
        BY <1>1, <1>7, <2>6 DEF CommitRelease, tableVars, TypeOK, ItemsFreed
      <3> QED BY <1>2, <2>5, <3>1, TablesKept
    <2>7. CASE freed[d] # {}
      BY <1>7, <2>2, <2>5, <2>7, CommitReleaseWhole
    <2> QED BY <2>6, <2>7
  <1> QED BY <1>4, <1>5, <1>6, <1>7, OnlyCommitsWrite

\* A reservation answered OK lasts until a release of its order runs.
THEOREM ReservationLasts == Spec => []ReservedUntilReleased
  <1>1. Init => ReservedUntilReleased
    BY DEF Init, ReservedUntilReleased
  <1> QED BY <1>1, ReservedStep, InventoryInvariant, PTL DEF Spec

\* The detailed service implements the contract the order saga relies on.
THEOREM ImplementsStockContract == Spec => KeepsStockContract
  <1>1. Init => Contract!Init
    <2>1. Init => \A o \in Orders : Reserved(o) = {}
      BY DEF Init, Reserved, RowId
    <2> QED BY <2>1 DEF Init, Contract!Init
  <1>2. ASSUME InventoryInv, WritesNothing PROVE UNCHANGED Contract!vars
    <2>1. available' = available /\ \A o \in Orders : Reserved(o)' = Reserved(o)
      BY <1>2, TablesKept DEF WritesNothing, tableVars
    <2> QED BY <2>1 DEF Contract!vars
  <1>3. ASSUME InventoryInv, NEW c \in Calls, CommitReserve(c) PROVE Contract!Next
    <2>1. PICK o \in Orders : o = OrderOf(c)
      BY <1>3, OrderFacts DEF InventoryInv
    <2>2. /\ Reserved(o) = {} /\ Needed(o) # {}
          /\ \A i \in Items : available[i] >= Need[o][i] /\ available'[i] = available[i] - Need[o][i]
          /\ available' \in [Items -> Nat]
      BY <1>3, <2>1, CommitReserveEffect, OrderFacts DEF InventoryInv
    <2>3. \A p \in Orders : Reserved(p)' = IF p = o THEN Needed(p) ELSE Reserved(p)
      BY <1>3, <2>1, CommitReserveWhole
    <2>4. {p \in Orders : Reserved(p)' # {}} = {p \in Orders : Reserved(p) # {}} \cup {o}
      BY <2>2, <2>3
    <2>5. available' = [i \in Items |-> available[i] - Need[o][i]]
      BY <2>2
    <2>6. Contract!Reserve(o)
      BY <2>2, <2>4, <2>5 DEF Contract!Reserve
    <2> QED BY <2>6 DEF Contract!Next
  <1>4. ASSUME InventoryInv, NEW c \in Calls, CommitRelease(c) PROVE [Contract!Next]_(Contract!vars)
    <2>1. PICK o \in Orders : o = OrderOf(c)
      BY <1>4, OrderFacts DEF InventoryInv
    <2>2. CASE freed[c] = {}
      <3>1. UNCHANGED <<call, tableVars>>
        BY <1>4, <2>2 DEF CommitRelease, tableVars, InventoryInv, TypeOK, ItemsFreed
      <3>2. available' = available /\ \A p \in Orders : Reserved(p)' = Reserved(p)
        BY <1>4, <3>1, TablesKept DEF tableVars
      <3> QED BY <3>2 DEF Contract!vars
    <2>3. CASE freed[c] # {}
      <3>1. /\ Reserved(o) = Needed(o) /\ Needed(o) # {}
            /\ \A i \in Items : available'[i] = available[i] + Need[o][i]
            /\ available' \in [Items -> Nat]
        BY <1>4, <2>1, <2>3, CommitReleaseEffect, CommitReleaseWhole, OrderFacts DEF InventoryInv
      <3>2. \A p \in Orders : Reserved(p)' = IF p = o THEN {} ELSE Reserved(p)
        BY <1>4, <2>1, <2>3, CommitReleaseWhole
      <3>3. {p \in Orders : Reserved(p)' # {}} = {p \in Orders : Reserved(p) # {}} \ {o}
        BY <3>2
      <3>4. available' = [i \in Items |-> available[i] + Need[o][i]]
        BY <3>1
      <3>5. Contract!Release(o)
        BY <3>1, <3>3, <3>4 DEF Contract!Release
      <3> QED BY <3>5 DEF Contract!Next
    <2> QED BY <2>2, <2>3
  <1>5. InventoryInv /\ [Next]_vars => [Contract!Next]_(Contract!vars)
    BY <1>2, <1>3, <1>4, OnlyCommitsWrite
  <1> QED BY <1>1, <1>5, InventoryInvariant, PTL DEF Spec, KeepsStockContract, Contract!Spec
=============================================================================
