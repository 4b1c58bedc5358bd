-------------------------- MODULE OrderSagaProofs --------------------------
(***************************************************************************)
(* The safety of the order saga for any set of orders, any re-drive budget *)
(* and any number of disturbances, with or without the manual endpoints.   *)
(*                                                                         *)
(* SagaInv is inductive.  Every action works on one order: TypeOK is       *)
(* re-established once per action, and the rest of the invariant, OrderInv, *)
(* only for the order of the action (UntouchedKeepsInv gives the others).  *)
(* CompensationInv is inductive beside it.                                 *)
(***************************************************************************)
EXTENDS OrderSaga, TLAPS

\* What SagaInv says of one order.
AgreesWithOrder(o) ==
  /\ saga[o] = "COMPLETED" => order[o] = "CONFIRMED"
  /\ saga[o] = "CANCELLED" => order[o] = "CANCELLED"
  /\ order[o] = "CONFIRMED" /\ manual[o] = "NO" => saga[o] = "COMPLETED"
  /\ order[o] = "CANCELLED" /\ manual[o] = "NO" => saga[o] = "CANCELLED"

HasOneVerdict(o) ==
  \A i, j \in DOMAIN outbox[o] :
    /\ outbox[o][i] = "OrderConfirmed" => saga[o] = "COMPLETED"
    /\ outbox[o][i] = "OrderCancelled" => saga[o] = "CANCELLED"
    /\ outbox[o][i] \in OrderEvent /\ outbox[o][j] \in OrderEvent => i = j

OrderInv(o) ==
  /\ AgreesWithOrder(o) /\ HasOneVerdict(o) /\ StatusFits(o) /\ ChargeFits(o)
  /\ HoldFits(o) /\ CommandsFit(o) /\ BudgetFits(o)

\* The inductive invariant is the type invariant and one part per order.
LEMMA SagaInvByOrder == SagaInv <=> TypeOK /\ \A o \in Orders : OrderInv(o)
  BY DEF SagaInv, OrderInv, SagaAgreesWithOrder, AgreesWithOrder, OneVerdict, HasOneVerdict

-----------------------------------------------------------------------------
(* Sequences.                                                              *)

\* What Append does to the rows of an outbox or a partition.
LEMMA AppendFacts ==
  ASSUME NEW S, NEW s \in Seq(S), NEW e \in S
  PROVE  /\ Append(s, e) \in Seq(S)
         /\ Len(s) \in Nat
         /\ Len(Append(s, e)) = Len(s) + 1
         /\ DOMAIN s = 1 .. Len(s)
         /\ DOMAIN Append(s, e) = 1 .. Len(s) + 1
         /\ \A i \in 1 .. Len(s) : Append(s, e)[i] = s[i]
         /\ Append(s, e)[Len(s) + 1] = e
  OBVIOUS

\* An append adds exactly its element.
LEMMA RowsOfAppend ==
  ASSUME NEW S, NEW s \in Seq(S), NEW e \in S
  PROVE  Rows(Append(s, e)) = Rows(s) \cup {e}
  <1>1. \A x : x \in Rows(Append(s, e)) => x \in Rows(s) \cup {e}
    BY AppendFacts DEF Rows
  <1>2. \A x : x \in Rows(s) => x \in Rows(Append(s, e))
    BY AppendFacts DEF Rows
  <1>3. e \in Rows(Append(s, e))
    BY AppendFacts DEF Rows
  <1> QED BY <1>1, <1>2, <1>3

\* A new outbox or partition has no rows.
LEMMA RowsOfEmpty == Rows(<<>>) = {}
  BY DEF Rows

-----------------------------------------------------------------------------
USE DEF Manual, NonTerminal, SagaState, OrderStatus, orderVars, relayVars, inventoryVars, paymentVars,
        consumerVars, faultVars

\* Before any order is placed the invariant holds.
THEOREM InitInv == Init => SagaInv
  <1> SUFFICES ASSUME Init PROVE TypeOK /\ \A o \in Orders : OrderInv(o)
    BY SagaInvByOrder
  <1>1. TypeOK
    BY MaxAttemptsAssumption, MaxDisturbancesAssumption DEF Init, TypeOK, OrderTypeOK,
       RelayTypeOK, CommandTypeOK, InventoryTypeOK, PaymentTypeOK, ConsumerTypeOK, FaultTypeOK,
       ChargeState
  <1>2. ASSUME NEW o \in Orders PROVE OrderInv(o)
    BY RowsOfEmpty DEF Init, OrderInv, AgreesWithOrder, HasOneVerdict, StatusFits, ChargeFits, NoCharge,
       HoldFits, CommandsFit, BudgetFits
  <1> QED BY <1>1, <1>2


\* A handler that leaves a group of variables alone keeps its types.
LEMMA TypeUnchanged ==
  ASSUME TypeOK
  PROVE  /\ UNCHANGED orderVars => OrderTypeOK'
         /\ UNCHANGED <<relayVars, outbox>> => RelayTypeOK'
         /\ UNCHANGED <<commands, charges>> => CommandTypeOK'
         /\ UNCHANGED inventoryVars => InventoryTypeOK'
         /\ UNCHANGED paymentVars => PaymentTypeOK'
         /\ UNCHANGED consumerVars => ConsumerTypeOK'
         /\ UNCHANGED faultVars => FaultTypeOK'
  BY DEF TypeOK, OrderTypeOK, RelayTypeOK, CommandTypeOK, InventoryTypeOK, PaymentTypeOK,
     ConsumerTypeOK, FaultTypeOK, orderVars, relayVars, inventoryVars, paymentVars,
     consumerVars, faultVars

\* A disturbance stays within its bound.
LEMMA DisturbType ==
  ASSUME TypeOK
  PROVE  disturbances \in 0 .. MaxDisturbances
         /\ (Disturb => disturbances' \in 0 .. MaxDisturbances)
  BY MaxDisturbancesAssumption DEF TypeOK, FaultTypeOK, Disturb

\* Appending a row keeps the relay's window inside the outbox.
LEMMA OutboxGrows ==
  ASSUME TypeOK, NEW o \in Orders, NEW row \in OutboxRow, AppendRow(o, row),
         UNCHANGED relayVars
  PROVE  outbox' \in [Orders -> Seq(OutboxRow)] /\ RelayTypeOK'
  <1>1. outbox \in [Orders -> Seq(OutboxRow)] /\ outbox' = [outbox EXCEPT ![o] = Append(outbox[o], row)]
    BY DEF TypeOK, OrderTypeOK, AppendRow
  <1>2. outbox' \in [Orders -> Seq(OutboxRow)]
    BY <1>1, AppendFacts
  <1>3. ASSUME NEW p \in Orders PROVE marked'[p] <= relayed'[p] /\ relayed'[p] <= Len(outbox'[p])
    <2>1. relayed[p] \in Nat /\ marked[p] <= relayed[p] /\ relayed[p] <= Len(outbox[p])
      BY DEF TypeOK, RelayTypeOK
    <2>2. Len(outbox'[p]) >= Len(outbox[p])
      BY <1>1, AppendFacts
    <2>3. Len(outbox[p]) \in Nat /\ Len(outbox'[p]) \in Nat
      BY <1>1, <1>2
    <2> QED BY <2>1, <2>2, <2>3 DEF relayVars
  <1> QED BY <1>2, <1>3 DEF TypeOK, RelayTypeOK, relayVars

-----------------------------------------------------------------------------
(* A step of one order leaves OrderInv of every other order alone.         *)

Untouched(p) ==
  /\ order'[p] = order[p] /\ saga'[p] = saga[p] /\ attempts'[p] = attempts[p]
  /\ reading'[p] = reading[p] /\ outbox'[p] = outbox[p]
  /\ manual'[p] = manual[p]
  /\ commands'[p] = commands[p] /\ commandOffset'[p] = commandOffset[p]
  /\ charges'[p] = charges[p] /\ charge'[p] = charge[p]
  /\ stockReplies'[p] = stockReplies[p] /\ paymentReplies'[p] = paymentReplies[p]
  /\ held'[p] = held[p] /\ effect'[p] = effect[p]

\* A step that touches nothing of an order keeps that order's invariant.
LEMMA UntouchedKeepsInv ==
  ASSUME NEW p \in Orders, OrderInv(p), Untouched(p)
  PROVE  OrderInv(p)'
  <1> USE DEF Untouched
  <1>1. AgreesWithOrder(p)' /\ StatusFits(p)' /\ BudgetFits(p)'
    BY DEF OrderInv, AgreesWithOrder, StatusFits, BudgetFits
  <1>2. HasOneVerdict(p)'
    BY DEF OrderInv, HasOneVerdict
  <1>3. ChargeFits(p)'
    BY DEF OrderInv, ChargeFits, NoCharge, Rows
  <1>4. HoldFits(p)'
    BY DEF OrderInv, HoldFits, Rows
  <1>5. CommandsFit(p)'
    BY DEF OrderInv, CommandsFit, Rows, HasCommand
  <1> QED BY <1>1, <1>2, <1>3, <1>4, <1>5 DEF OrderInv

\* For a step of one order it is enough to check that order.
LEMMA OneOrderSuffices ==
  ASSUME SagaInv, NEW o \in Orders, TypeOK', OrderInv(o)',
         \A p \in Orders \ {o} : Untouched(p)
  PROVE  SagaInv'
  <1>1. ASSUME NEW p \in Orders PROVE OrderInv(p)'
    <2>1. CASE p = o
      BY <2>1
    <2>2. CASE p # o
      BY <2>2, SagaInvByOrder, UntouchedKeepsInv
    <2> QED BY <2>1, <2>2
  <1> QED BY <1>1 DEF SagaInv, OrderInv, SagaAgreesWithOrder, AgreesWithOrder, OneVerdict,
             HasOneVerdict

-----------------------------------------------------------------------------
(* Rows that enter the outbox.                                             *)

\* The outbox after the append of one row.
LEMMA AppendedRow ==
  ASSUME TypeOK, NEW o \in Orders, NEW row \in OutboxRow, AppendRow(o, row)
  PROVE  /\ outbox[o] \in Seq(OutboxRow)
         /\ outbox'[o] = Append(outbox[o], row)
         /\ Rows(outbox'[o]) = Rows(outbox[o]) \cup {row}
         /\ \A i \in DOMAIN outbox'[o] :
              \/ i \in DOMAIN outbox[o] /\ outbox'[o][i] = outbox[o][i]
              \/ i = Len(outbox[o]) + 1 /\ outbox'[o][i] = row
         /\ DOMAIN outbox[o] \subseteq DOMAIN outbox'[o]
  <1>1. outbox[o] \in Seq(OutboxRow) /\ outbox'[o] = Append(outbox[o], row)
    BY DEF AppendRow, TypeOK, OrderTypeOK
  <1> QED BY <1>1, AppendFacts, RowsOfAppend

\* A row that is no verdict, added before the verdict or beside it.
LEMMA CommandKeepsVerdict ==
  ASSUME TypeOK, NEW o \in Orders, HasOneVerdict(o),
         NEW row \in OutboxRow \ OrderEvent, AppendRow(o, row),
         saga[o] \in {"COMPLETED", "CANCELLED"} => saga'[o] = saga[o]
  PROVE  HasOneVerdict(o)'
  <1>1. \A i \in DOMAIN outbox'[o] :
          outbox'[o][i] \in OrderEvent =>
            i \in DOMAIN outbox[o] /\ outbox'[o][i] = outbox[o][i]
    BY AppendedRow
  <1> QED BY <1>1 DEF HasOneVerdict, OrderEvent

\* The first verdict.
LEMMA EventIsVerdict ==
  ASSUME TypeOK, NEW o \in Orders, HasOneVerdict(o), saga[o] \in NonTerminal,
         NEW row \in OrderEvent, AppendRow(o, row),
         row = "OrderConfirmed" => saga'[o] = "COMPLETED",
         row = "OrderCancelled" => saga'[o] = "CANCELLED"
  PROVE  HasOneVerdict(o)'
  <1>1. row \in OutboxRow
    BY DEF OutboxRow
  <1>2. \A i \in DOMAIN outbox[o] : outbox[o][i] \notin OrderEvent
    BY DEF HasOneVerdict, OrderEvent
  <1>3. \A i \in DOMAIN outbox'[o] :
          outbox'[o][i] \in OrderEvent => i = Len(outbox[o]) + 1 /\ outbox'[o][i] = row
    BY <1>1, <1>2, AppendedRow
  <1> QED BY <1>3 DEF HasOneVerdict, OrderEvent

-----------------------------------------------------------------------------
(* The customer's steps.                                                   *)

\* Placing an order starts a consistent saga.
LEMMA PlaceOrderInv ==
  ASSUME SagaInv, NEW o \in Orders, PlaceOrder(o)
  PROVE  SagaInv'
  <1>1. TypeOK /\ OrderInv(o)
    BY SagaInvByOrder
  <1>2. TypeOK'
    <2>1. OrderTypeOK' /\ RelayTypeOK'
      BY <1>1, OutboxGrows DEF PlaceOrder, TypeOK, OrderTypeOK, OutboxRow, InventoryCommand
    <2> QED BY <1>1, <2>1, TypeUnchanged DEF PlaceOrder, TypeOK
  <1>3. OrderInv(o)'
    <2>1. "ReserveStock" \in OutboxRow \ OrderEvent
      BY DEF OutboxRow, InventoryCommand, OrderEvent
    <2>2. saga[o] = "NONE" /\ saga'[o] = "STARTED" /\ order'[o] = "PENDING"
      BY <1>1 DEF PlaceOrder, TypeOK, OrderTypeOK, OrderInv, StatusFits
    <2>3. AgreesWithOrder(o)' /\ StatusFits(o)' /\ BudgetFits(o)'
      BY <1>1, <2>2 DEF PlaceOrder, OrderInv, AgreesWithOrder, StatusFits, BudgetFits
    <2>4. HasOneVerdict(o)'
      BY <1>1, <2>1, <2>2, CommandKeepsVerdict DEF PlaceOrder, OrderInv
    <2>5. Rows(outbox'[o]) = Rows(outbox[o]) \cup {"ReserveStock"}
      BY <1>1, <2>1, AppendedRow DEF PlaceOrder
    <2>6. ChargeFits(o)'
      BY <1>1, <2>2, <2>5 DEF PlaceOrder, OrderInv, ChargeFits, NoCharge
    <2>7. HoldFits(o)'
      BY <1>1, <2>2, <2>5 DEF PlaceOrder, OrderInv, StatusFits, HoldFits
    <2>8. CommandsFit(o)'
      BY <1>1, <2>1, AppendedRow DEF PlaceOrder, OrderInv, CommandsFit, HasCommand
    <2> QED BY <2>3, <2>4, <2>6, <2>7, <2>8 DEF OrderInv
  <1>4. \A p \in Orders \ {o} : Untouched(p)
    BY <1>1 DEF Untouched, PlaceOrder, AppendRow, TypeOK, OrderTypeOK, CommandTypeOK,
       InventoryTypeOK, PaymentTypeOK, ConsumerTypeOK
  <1> QED BY <1>2, <1>3, <1>4, OneOrderSuffices

\* Cancelling by hand, behind the saga's back, contradicts no verdict.
LEMMA CancelOrderInv ==
  ASSUME SagaInv, NEW o \in Orders, CancelOrder(o)
  PROVE  SagaInv'
  <1>1. TypeOK /\ OrderInv(o)
    BY SagaInvByOrder
  <1>2. TypeOK'
    <2>1. OrderTypeOK' /\ RelayTypeOK'
      BY <1>1 DEF CancelOrder, TypeOK, OrderTypeOK, RelayTypeOK
    <2> QED BY <1>1, <2>1, TypeUnchanged DEF CancelOrder, TypeOK
  <1>3. OrderInv(o)'
    <2>1. AgreesWithOrder(o)' /\ StatusFits(o)' /\ BudgetFits(o)'
      BY <1>1 DEF CancelOrder, TypeOK, OrderTypeOK, CanMove, OrderInv, AgreesWithOrder,
         StatusFits, BudgetFits
    <2>2. HasOneVerdict(o)' /\ CommandsFit(o)'
      BY <1>1 DEF CancelOrder, OrderInv, HasOneVerdict, CommandsFit, Rows, HasCommand
    <2>3. ChargeFits(o)' /\ HoldFits(o)'
      BY <1>1 DEF CancelOrder, TypeOK, OrderTypeOK, CanMove, OrderInv, ChargeFits, NoCharge,
         HoldFits, Rows
    <2> QED BY <2>1, <2>2, <2>3 DEF OrderInv
  <1>4. \A p \in Orders \ {o} : Untouched(p)
    BY <1>1 DEF Untouched, CancelOrder, TypeOK, OrderTypeOK, CommandTypeOK,
       InventoryTypeOK, PaymentTypeOK, ConsumerTypeOK
  <1> QED BY <1>2, <1>3, <1>4, OneOrderSuffices

\* The gRPC release takes only the stock of a cancelled order.
LEMMA ReleaseAfterCancelInv ==
  ASSUME SagaInv, NEW o \in Orders, ReleaseAfterCancel(o)
  PROVE  SagaInv'
  <1>1. TypeOK /\ OrderInv(o)
    BY SagaInvByOrder
  <1>2. TypeOK'
    <2>1. OrderTypeOK' /\ RelayTypeOK' /\ InventoryTypeOK'
      BY <1>1 DEF ReleaseAfterCancel, TypeOK, OrderTypeOK, RelayTypeOK, InventoryTypeOK
    <2>2. FaultTypeOK'
      BY <1>1, MaxDisturbancesAssumption DEF ReleaseAfterCancel, Disturb, TypeOK, FaultTypeOK
    <2> QED BY <1>1, <2>1, <2>2, TypeUnchanged DEF ReleaseAfterCancel, TypeOK
  <1>3. OrderInv(o)'
    <2>1. order[o] = "CANCELLED"
      BY <1>1 DEF ReleaseAfterCancel, OrderInv, StatusFits
    <2>2. AgreesWithOrder(o)' /\ StatusFits(o)' /\ BudgetFits(o)'
      BY <1>1 DEF ReleaseAfterCancel, OrderInv, AgreesWithOrder, StatusFits, BudgetFits
    <2>3. HasOneVerdict(o)' /\ CommandsFit(o)'
      BY <1>1 DEF ReleaseAfterCancel, OrderInv, HasOneVerdict, CommandsFit, Rows, HasCommand
    <2>4. ChargeFits(o)' /\ HoldFits(o)'
      BY <1>1, <2>1 DEF ReleaseAfterCancel, OrderInv, ChargeFits, NoCharge, HoldFits, Rows
    <2> QED BY <2>2, <2>3, <2>4 DEF OrderInv
  <1>4. \A p \in Orders \ {o} : Untouched(p)
    BY <1>1 DEF Untouched, ReleaseAfterCancel, TypeOK, OrderTypeOK, CommandTypeOK,
       InventoryTypeOK, PaymentTypeOK, ConsumerTypeOK
  <1> QED BY <1>2, <1>3, <1>4, OneOrderSuffices

\* Confirming by hand, behind the saga's back, contradicts no verdict.
LEMMA ConfirmOrderInv ==
  ASSUME SagaInv, NEW o \in Orders, ConfirmOrder(o)
  PROVE  SagaInv'
  <1>1. TypeOK /\ OrderInv(o)
    BY SagaInvByOrder
  <1>2. TypeOK'
    <2>1. OrderTypeOK' /\ RelayTypeOK'
      BY <1>1 DEF ConfirmOrder, TypeOK, OrderTypeOK, RelayTypeOK
    <2> QED BY <1>1, <2>1, TypeUnchanged DEF ConfirmOrder, TypeOK
  <1>3. OrderInv(o)'
    <2>1. AgreesWithOrder(o)' /\ StatusFits(o)' /\ BudgetFits(o)'
      BY <1>1 DEF ConfirmOrder, TypeOK, OrderTypeOK, CanMove, OrderInv, AgreesWithOrder,
         StatusFits, BudgetFits
    <2>2. HasOneVerdict(o)' /\ CommandsFit(o)'
      BY <1>1 DEF ConfirmOrder, OrderInv, HasOneVerdict, CommandsFit, Rows, HasCommand
    <2>3. ChargeFits(o)' /\ HoldFits(o)'
      BY <1>1 DEF ConfirmOrder, TypeOK, OrderTypeOK, CanMove, OrderInv, ChargeFits, NoCharge,
         HoldFits, Rows
    <2> QED BY <2>1, <2>2, <2>3 DEF OrderInv
  <1>4. \A p \in Orders \ {o} : Untouched(p)
    BY <1>1 DEF Untouched, ConfirmOrder, TypeOK, OrderTypeOK, CommandTypeOK,
       InventoryTypeOK, PaymentTypeOK, ConsumerTypeOK
  <1> QED BY <1>2, <1>3, <1>4, OneOrderSuffices

-----------------------------------------------------------------------------
(* The relay's steps.                                                      *)

\* Every message the relay produces is a row of the outbox.
LEMMA RelayPublishInv ==
  ASSUME SagaInv, NEW o \in Orders, RelayPublish(o)
  PROVE  SagaInv'
  <1>1. TypeOK /\ OrderInv(o)
    BY SagaInvByOrder
  <1>2. TypeOK'
    <2>1. RelayTypeOK'
      BY <1>1 DEF RelayPublish, TypeOK, OrderTypeOK, RelayTypeOK
    <2>2. CommandTypeOK'
      BY <1>1, AppendFacts DEF RelayPublish, TypeOK, RelayTypeOK, CommandTypeOK
    <2> QED BY <1>1, <2>1, <2>2, TypeUnchanged DEF RelayPublish, TypeOK
  <1>3. OrderInv(o)'
    <2> DEFINE id == relayed[o] + 1
    <2>1. outbox[o] \in Seq(OutboxRow) /\ commands[o] \in Seq(Nat \ {0})
          /\ relayed[o] \in Nat /\ charges[o] \in Nat /\ commandOffset[o] \in Nat
      BY <1>1 DEF TypeOK, OrderTypeOK, RelayTypeOK, CommandTypeOK, ConsumerTypeOK
    <2>2. id \in DOMAIN outbox[o] /\ outbox[o][id] \in Rows(outbox[o])
      BY <2>1 DEF RelayPublish, Rows
    <2>3. commands'[o] = commands[o] \/ commands'[o] = Append(commands[o], id)
      BY <1>1 DEF RelayPublish, TypeOK, CommandTypeOK
    <2>4. AgreesWithOrder(o)' /\ StatusFits(o)' /\ BudgetFits(o)'
      BY <1>1 DEF RelayPublish, OrderInv, AgreesWithOrder, StatusFits, BudgetFits
    <2>5. HasOneVerdict(o)' /\ HoldFits(o)'
      BY <1>1 DEF RelayPublish, OrderInv, HasOneVerdict, HoldFits, Rows
    <2>6. ChargeFits(o)'
      <3>1. charges'[o] = charges[o] \/ "ChargePayment" \in Rows(outbox[o])
        BY <1>1, <2>2 DEF RelayPublish, TypeOK, CommandTypeOK
      <3>2. NoCharge(o) => NoCharge(o)'
        BY <3>1 DEF RelayPublish, NoCharge, Rows
      <3> QED BY <1>1, <3>2 DEF RelayPublish, OrderInv, ChargeFits, Rows
    <2>7. CommandsFit(o)'
      <3>1. Rows(commands'[o]) \subseteq Rows(commands[o]) \cup {id}
        <4>1. id \in Nat \ {0}
          BY <2>1
        <4>2. Rows(Append(commands[o], id)) = Rows(commands[o]) \cup {id}
          BY <2>1, <4>1, RowsOfAppend
        <4> QED BY <2>3, <4>2
      <3>2. Len(commands'[o]) >= Len(commands[o])
        BY <2>1, <2>3, AppendFacts
      <3> QED BY <1>1, <2>1, <2>2, <2>3, <3>1, <3>2, AppendFacts
              DEF RelayPublish, OrderInv, CommandsFit, HasCommand
    <2> QED BY <2>4, <2>5, <2>6, <2>7 DEF OrderInv
  <1>4. \A p \in Orders \ {o} : Untouched(p)
    BY <1>1 DEF Untouched, RelayPublish, TypeOK, OrderTypeOK, CommandTypeOK,
       InventoryTypeOK, PaymentTypeOK, ConsumerTypeOK
  <1> QED BY <1>2, <1>3, <1>4, OneOrderSuffices

\* Marking follows publishing.
LEMMA RelayMarkInv ==
  ASSUME SagaInv, NEW o \in Orders, RelayMark(o)
  PROVE  SagaInv'
  <1>1. TypeOK /\ OrderInv(o)
    BY SagaInvByOrder
  <1>2. TypeOK'
    <2>1. RelayTypeOK'
      BY <1>1 DEF RelayMark, TypeOK, OrderTypeOK, RelayTypeOK
    <2> QED BY <1>1, <2>1, TypeUnchanged DEF RelayMark, TypeOK
  <1>3. OrderInv(o)'
    <2> Untouched(o)
      BY DEF RelayMark, Untouched
    <2> QED BY <1>1, UntouchedKeepsInv
  <1>4. \A p \in Orders \ {o} : Untouched(p)
    BY <1>1 DEF Untouched, RelayMark, TypeOK, OrderTypeOK, CommandTypeOK,
       InventoryTypeOK, PaymentTypeOK, ConsumerTypeOK
  <1> QED BY <1>2, <1>3, <1>4, OneOrderSuffices

\* A relay that starts again from the unmarked rows only repeats messages.
LEMMA RelayRestartInv ==
  ASSUME SagaInv, NEW o \in Orders, RelayRestart(o)
  PROVE  SagaInv'
  <1>1. TypeOK /\ OrderInv(o)
    BY SagaInvByOrder
  <1>2. TypeOK'
    <2>1. RelayTypeOK'
      BY <1>1 DEF RelayRestart, TypeOK, OrderTypeOK, RelayTypeOK
    <2>2. FaultTypeOK'
      BY <1>1, MaxDisturbancesAssumption DEF RelayRestart, Disturb, TypeOK, FaultTypeOK
    <2> QED BY <1>1, <2>1, <2>2, TypeUnchanged DEF RelayRestart, TypeOK
  <1>3. OrderInv(o)'
    <2> Untouched(o)
      BY DEF RelayRestart, Untouched
    <2> QED BY <1>1, UntouchedKeepsInv
  <1>4. \A p \in Orders \ {o} : Untouched(p)
    BY <1>1 DEF Untouched, RelayRestart, TypeOK, OrderTypeOK, CommandTypeOK,
       InventoryTypeOK, PaymentTypeOK, ConsumerTypeOK
  <1> QED BY <1>2, <1>3, <1>4, OneOrderSuffices

-----------------------------------------------------------------------------
(* Inventory's steps.                                                    *)

\* The command at the head of the partition is a row of the outbox.
LEMMA CommandIsRow ==
  ASSUME TypeOK, NEW o \in Orders, CommandsFit(o), HasCommand(o)
  PROVE  CommandId(o) \in Nat \ {0} /\ Command(o) \in Rows(outbox[o])
  <1>1. commands[o] \in Seq(Nat \ {0}) /\ commandOffset[o] \in Nat
    BY DEF TypeOK, CommandTypeOK, ConsumerTypeOK
  <1>2. commandOffset[o] + 1 \in DOMAIN commands[o]
    BY <1>1 DEF HasCommand
  <1>3. CommandId(o) \in Rows(commands[o]) /\ CommandId(o) \in Nat \ {0}
    BY <1>1, <1>2 DEF CommandId, Rows
  <1> QED BY <1>3 DEF CommandsFit, Command, Rows

\* A reservation, also a repeated one, never takes a hold away.
LEMMA ReserveEffectInv ==
  ASSUME SagaInv, NEW o \in Orders, ReserveEffect(o)
  PROVE  SagaInv'
  <1>1. TypeOK /\ OrderInv(o)
    BY SagaInvByOrder
  <1>2. TypeOK'
    <2>1. InventoryTypeOK'
      BY <1>1 DEF ReserveEffect, TypeOK, InventoryTypeOK, StockReply
    <2> QED BY <1>1, <2>1, TypeUnchanged DEF ReserveEffect, TypeOK
  <1>3. OrderInv(o)'
    <2>2. AgreesWithOrder(o)' /\ StatusFits(o)' /\ BudgetFits(o)'
      BY <1>1 DEF ReserveEffect, OrderInv, AgreesWithOrder, StatusFits, BudgetFits
    <2>3. HasOneVerdict(o)' /\ ChargeFits(o)'
      BY <1>1 DEF ReserveEffect, OrderInv, HasOneVerdict, ChargeFits, NoCharge, Rows
    <2>4. HoldFits(o)'
      BY <1>1 DEF ReserveEffect, TypeOK, InventoryTypeOK, OrderInv, HoldFits, Rows
    <2>5. CommandsFit(o)'
      BY <1>1 DEF ReserveEffect, OrderInv, CommandsFit, HasCommand, Rows
    <2> QED BY <2>2, <2>3, <2>4, <2>5 DEF OrderInv
  <1>4. \A p \in Orders \ {o} : Untouched(p)
    BY <1>1 DEF Untouched, ReserveEffect, TypeOK, OrderTypeOK, CommandTypeOK,
       InventoryTypeOK, PaymentTypeOK, ConsumerTypeOK
  <1> QED BY <1>2, <1>3, <1>4, OneOrderSuffices

\* A release runs only for a saga in compensation.
LEMMA ReleaseEffectInv ==
  ASSUME SagaInv, NEW o \in Orders, ReleaseEffect(o)
  PROVE  SagaInv'
  <1>1. TypeOK /\ OrderInv(o)
    BY SagaInvByOrder
  <1>2. TypeOK'
    <2>1. InventoryTypeOK'
      BY <1>1 DEF ReleaseEffect, TypeOK, InventoryTypeOK, StockReply
    <2> QED BY <1>1, <2>1, TypeUnchanged DEF ReleaseEffect, TypeOK
  <1>3. OrderInv(o)'
    <2>1. saga[o] \in {"COMPENSATING", "CANCELLED"}
      BY <1>1, CommandIsRow DEF ReleaseEffect, OrderInv, HoldFits
    <2>2. AgreesWithOrder(o)' /\ StatusFits(o)' /\ BudgetFits(o)'
      BY <1>1 DEF ReleaseEffect, OrderInv, AgreesWithOrder, StatusFits, BudgetFits
    <2>3. HasOneVerdict(o)' /\ ChargeFits(o)'
      BY <1>1 DEF ReleaseEffect, OrderInv, HasOneVerdict, ChargeFits, NoCharge, Rows
    <2>4. HoldFits(o)'
      BY <1>1, <2>1 DEF ReleaseEffect, TypeOK, InventoryTypeOK, OrderInv, HoldFits, Rows
    <2>5. CommandsFit(o)'
      BY <1>1 DEF ReleaseEffect, OrderInv, CommandsFit, HasCommand, Rows
    <2> QED BY <2>2, <2>3, <2>4, <2>5 DEF OrderInv
  <1>4. \A p \in Orders \ {o} : Untouched(p)
    BY <1>1 DEF Untouched, ReleaseEffect, TypeOK, OrderTypeOK, CommandTypeOK,
       InventoryTypeOK, PaymentTypeOK, ConsumerTypeOK
  <1> QED BY <1>2, <1>3, <1>4, OneOrderSuffices

\* The reply says what the committed effect was.
LEMMA ReplyToCommandInv ==
  ASSUME SagaInv, NEW o \in Orders, ReplyToCommand(o)
  PROVE  SagaInv'
  <1>1. TypeOK /\ OrderInv(o)
    BY SagaInvByOrder
  <1>2. TypeOK'
    <2>1. effect[o] \in StockReply /\ CommandId(o) \in Nat
      BY <1>1, CommandIsRow DEF ReplyToCommand, TypeOK, InventoryTypeOK, OrderInv, CommandsFit
    <2>2. InventoryTypeOK'
      BY <1>1, <2>1, AppendFacts DEF ReplyToCommand, TypeOK, InventoryTypeOK
    <2>3. ConsumerTypeOK'
      BY <1>1 DEF ReplyToCommand, TypeOK, ConsumerTypeOK
    <2>4. FaultTypeOK'
      BY <1>1, DisturbType DEF ReplyToCommand, Disturb, DeadLetter, TypeOK, FaultTypeOK, Topic
    <2> QED BY <1>1, <2>2, <2>3, <2>4, TypeUnchanged DEF ReplyToCommand, TypeOK
  <1>3. OrderInv(o)'
    <2>1. effect[o] \in StockReply /\ stockReplies[o] \in Seq(StockReply) /\ effect'[o] = "NONE"
      BY <1>1 DEF ReplyToCommand, TypeOK, InventoryTypeOK
    <2>2. Rows(stockReplies'[o]) \subseteq Rows(stockReplies[o]) \cup {effect[o]}
      BY <1>1, <2>1, RowsOfAppend DEF ReplyToCommand, TypeOK, InventoryTypeOK
    <2>3. AgreesWithOrder(o)' /\ StatusFits(o)' /\ BudgetFits(o)'
      BY <1>1 DEF ReplyToCommand, OrderInv, AgreesWithOrder, StatusFits, BudgetFits
    <2>4. HasOneVerdict(o)' /\ ChargeFits(o)'
      BY <1>1 DEF ReplyToCommand, OrderInv, HasOneVerdict, ChargeFits, NoCharge, Rows
    <2>5. HoldFits(o)'
      BY <1>1, <2>1, <2>2 DEF ReplyToCommand, OrderInv, HoldFits
    <2>6. CommandsFit(o)'
      BY <1>1, <2>1 DEF ReplyToCommand, OrderInv, CommandsFit, Rows
    <2> QED BY <2>3, <2>4, <2>5, <2>6 DEF OrderInv
  <1>4. \A p \in Orders \ {o} : Untouched(p)
    BY <1>1 DEF Untouched, ReplyToCommand, TypeOK, OrderTypeOK, CommandTypeOK,
       InventoryTypeOK, PaymentTypeOK, ConsumerTypeOK
  <1> QED BY <1>2, <1>3, <1>4, OneOrderSuffices

\* A crash between effect and reply leaves the hold as it is.
LEMMA InventoryRestartInv ==
  ASSUME SagaInv, NEW o \in Orders, InventoryRestart(o)
  PROVE  SagaInv'
  <1>1. TypeOK /\ OrderInv(o)
    BY SagaInvByOrder
  <1>2. TypeOK'
    <2>1. InventoryTypeOK'
      BY <1>1 DEF InventoryRestart, TypeOK, InventoryTypeOK
    <2>2. FaultTypeOK'
      BY <1>1, DisturbType DEF InventoryRestart, Disturb, DeadLetter, TypeOK, FaultTypeOK, Topic
    <2> QED BY <1>1, <2>1, <2>2, TypeUnchanged DEF InventoryRestart, TypeOK
  <1>3. OrderInv(o)'
    <2>1. effect'[o] = "NONE"
      BY <1>1 DEF InventoryRestart, TypeOK, InventoryTypeOK
    <2>2. AgreesWithOrder(o)' /\ StatusFits(o)' /\ BudgetFits(o)'
      BY <1>1 DEF InventoryRestart, OrderInv, AgreesWithOrder, StatusFits, BudgetFits
    <2>3. HasOneVerdict(o)' /\ ChargeFits(o)'
      BY <1>1 DEF InventoryRestart, OrderInv, HasOneVerdict, ChargeFits, NoCharge, Rows
    <2>4. HoldFits(o)' /\ CommandsFit(o)'
      BY <1>1, <2>1 DEF InventoryRestart, OrderInv, HoldFits, CommandsFit, Rows
    <2> QED BY <2>2, <2>3, <2>4 DEF OrderInv
  <1>4. \A p \in Orders \ {o} : Untouched(p)
    BY <1>1 DEF Untouched, InventoryRestart, TypeOK, OrderTypeOK, CommandTypeOK,
       InventoryTypeOK, PaymentTypeOK, ConsumerTypeOK
  <1> QED BY <1>2, <1>3, <1>4, OneOrderSuffices

\* A lost command leaves the hold as it is.
LEMMA DeadLetterCommandInv ==
  ASSUME SagaInv, NEW o \in Orders, DeadLetterCommand(o)
  PROVE  SagaInv'
  <1>1. TypeOK /\ OrderInv(o)
    BY SagaInvByOrder
  <1>2. TypeOK'
    <2>1. InventoryTypeOK'
      BY <1>1 DEF DeadLetterCommand, TypeOK, InventoryTypeOK
    <2>2. FaultTypeOK'
      BY <1>1, DisturbType DEF DeadLetterCommand, Disturb, DeadLetter, TypeOK, FaultTypeOK, Topic
    <2>3. ConsumerTypeOK'
      BY <1>1 DEF DeadLetterCommand, TypeOK, ConsumerTypeOK
    <2> QED BY <1>1, <2>1, <2>2, <2>3, TypeUnchanged DEF DeadLetterCommand, TypeOK
  <1>3. OrderInv(o)'
    <2>1. effect'[o] = "NONE"
      BY <1>1 DEF DeadLetterCommand, TypeOK, InventoryTypeOK
    <2>2. AgreesWithOrder(o)' /\ StatusFits(o)' /\ BudgetFits(o)'
      BY <1>1 DEF DeadLetterCommand, OrderInv, AgreesWithOrder, StatusFits, BudgetFits
    <2>3. HasOneVerdict(o)' /\ ChargeFits(o)'
      BY <1>1 DEF DeadLetterCommand, OrderInv, HasOneVerdict, ChargeFits, NoCharge, Rows
    <2>4. HoldFits(o)' /\ CommandsFit(o)'
      BY <1>1, <2>1 DEF DeadLetterCommand, OrderInv, HoldFits, CommandsFit, Rows
    <2> QED BY <2>2, <2>3, <2>4 DEF OrderInv
  <1>4. \A p \in Orders \ {o} : Untouched(p)
    BY <1>1 DEF Untouched, DeadLetterCommand, DeadLetter, TypeOK, OrderTypeOK, CommandTypeOK,
       InventoryTypeOK, PaymentTypeOK, ConsumerTypeOK
  <1> QED BY <1>2, <1>3, <1>4, OneOrderSuffices

-----------------------------------------------------------------------------
(* Payment's steps.                                                        *)

\* A charge in progress was asked for.
LEMMA NoChargeIsQuiet ==
  ASSUME TypeOK, NEW o \in Orders, OrderInv(o), charges[o] > 0 \/ charge[o] # "NONE"
  PROVE  ~NoCharge(o)
  BY DEF TypeOK, CommandTypeOK, NoCharge

\* Consuming a charge command keeps the command counters natural.
LEMMA SettleType ==
  ASSUME TypeOK, NEW o \in Orders, SettleCharge(o) \/ charges' = [charges EXCEPT ![o] = @ - 1],
         charges[o] > 0, UNCHANGED commands
  PROVE  CommandTypeOK'
  <1>1. charges[o] \in Nat /\ charges[o] - 1 \in Nat
    BY DEF TypeOK, CommandTypeOK
  <1> QED BY <1>1 DEF TypeOK, CommandTypeOK, SettleCharge

\* A charge starts only after the saga reserved the stock.
LEMMA StartChargeInv ==
  ASSUME SagaInv, NEW o \in Orders, StartCharge(o)
  PROVE  SagaInv'
  <1>1. TypeOK /\ OrderInv(o)
    BY SagaInvByOrder
  <1>2. TypeOK'
    <2>1. PaymentTypeOK'
      BY <1>1 DEF StartCharge, SettleCharge, TypeOK, PaymentTypeOK, ChargeState
    <2>2. CommandTypeOK'
      BY <1>1, SettleType DEF StartCharge, SettleCharge, TypeOK, CommandTypeOK
    <2>3. FaultTypeOK'
      BY <1>1, DisturbType DEF StartCharge, SettleCharge, Disturb, DeadLetter, TypeOK, FaultTypeOK, Topic
    <2> QED BY <1>1, <2>1, <2>2, <2>3, TypeUnchanged DEF StartCharge, TypeOK
  <1>3. OrderInv(o)'
    <2>1. AgreesWithOrder(o)' /\ StatusFits(o)' /\ BudgetFits(o)'
      BY <1>1 DEF StartCharge, OrderInv, AgreesWithOrder, StatusFits, BudgetFits
    <2>2. HasOneVerdict(o)' /\ HoldFits(o)' /\ CommandsFit(o)'
      BY <1>1 DEF StartCharge, OrderInv, HasOneVerdict, HoldFits, CommandsFit, HasCommand, Rows
    <2>3. ChargeFits(o)'
      <3>1. ~NoCharge(o)
        BY <1>1, NoChargeIsQuiet DEF StartCharge, SettleCharge
      <3>2. charge[o] = "NONE" /\ charge'[o] = "RUNNING"
        BY <1>1 DEF StartCharge, TypeOK, PaymentTypeOK
      <3> QED BY <1>1, <3>1, <3>2 DEF StartCharge, OrderInv, ChargeFits, Rows
    <2> QED BY <2>1, <2>2, <2>3 DEF OrderInv
  <1>4. \A p \in Orders \ {o} : Untouched(p)
    BY <1>1 DEF Untouched, StartCharge, SettleCharge, TypeOK, OrderTypeOK, CommandTypeOK,
       InventoryTypeOK, PaymentTypeOK, ConsumerTypeOK
  <1> QED BY <1>2, <1>3, <1>4, OneOrderSuffices

\* A reply that tells the outcome of the charge keeps ChargeFits.
LEMMA ReplyTellsOutcome ==
  ASSUME TypeOK, NEW o \in Orders, NEW outcome \in ChargeOutcome,
         AppendPaymentReply(o, ReplyFor(outcome))
  PROVE  /\ paymentReplies' \in [Orders -> Seq(PaymentReply)]
         /\ Rows(paymentReplies'[o]) = Rows(paymentReplies[o]) \cup {ReplyFor(outcome)}
  <1>1. ReplyFor(outcome) \in PaymentReply
    BY DEF ReplyFor, PaymentReply
  <1>2. paymentReplies \in [Orders -> Seq(PaymentReply)]
    BY DEF TypeOK, PaymentTypeOK
  <1> QED BY <1>1, <1>2, AppendFacts, RowsOfAppend DEF AppendPaymentReply

\* A repeated payment reply tells the outcome again.
LEMMA RepeatPaymentReplyInv ==
  ASSUME SagaInv, NEW o \in Orders, RepeatPaymentReply(o)
  PROVE  SagaInv'
  <1>1. TypeOK /\ OrderInv(o)
    BY SagaInvByOrder
  <1>2. TypeOK'
    <2>1. PaymentTypeOK'
      BY <1>1, ReplyTellsOutcome DEF RepeatPaymentReply, SettleCharge, TypeOK, PaymentTypeOK
    <2>2. CommandTypeOK'
      BY <1>1, SettleType DEF RepeatPaymentReply, SettleCharge, TypeOK, CommandTypeOK
    <2>3. FaultTypeOK'
      BY <1>1, DisturbType DEF RepeatPaymentReply, SettleCharge, Disturb, DeadLetter, TypeOK, FaultTypeOK, Topic
    <2> QED BY <1>1, <2>1, <2>2, <2>3, TypeUnchanged DEF RepeatPaymentReply, TypeOK
  <1>3. OrderInv(o)'
    <2>1. AgreesWithOrder(o)' /\ StatusFits(o)' /\ BudgetFits(o)'
      BY <1>1 DEF RepeatPaymentReply, OrderInv, AgreesWithOrder, StatusFits, BudgetFits
    <2>2. HasOneVerdict(o)' /\ HoldFits(o)' /\ CommandsFit(o)'
      BY <1>1 DEF RepeatPaymentReply, OrderInv, HasOneVerdict, HoldFits, CommandsFit, HasCommand, Rows
    <2>3. ChargeFits(o)'
      <3>1. ~NoCharge(o)
        BY <1>1, NoChargeIsQuiet DEF RepeatPaymentReply, SettleCharge
      <3>2. Rows(paymentReplies'[o]) = Rows(paymentReplies[o]) \cup {ReplyFor(charge[o])}
        BY <1>1, ReplyTellsOutcome DEF RepeatPaymentReply
      <3> QED BY <1>1, <3>1, <3>2
              DEF RepeatPaymentReply, OrderInv, ChargeFits, ReplyFor, ChargeOutcome
    <2> QED BY <2>1, <2>2, <2>3 DEF OrderInv
  <1>4. \A p \in Orders \ {o} : Untouched(p)
    BY <1>1 DEF Untouched, RepeatPaymentReply, SettleCharge, AppendPaymentReply, TypeOK, OrderTypeOK, CommandTypeOK,
       InventoryTypeOK, PaymentTypeOK, ConsumerTypeOK
  <1> QED BY <1>2, <1>3, <1>4, OneOrderSuffices

\* A command for a running or failed workflow changes nothing.
LEMMA IgnoreChargeInv ==
  ASSUME SagaInv, NEW o \in Orders, IgnoreCharge(o)
  PROVE  SagaInv'
  <1>1. TypeOK /\ OrderInv(o)
    BY SagaInvByOrder
  <1>2. TypeOK'
    <2>1. CommandTypeOK'
      BY <1>1, SettleType DEF IgnoreCharge, TypeOK, CommandTypeOK
    <2>2. FaultTypeOK'
      BY <1>1, DisturbType DEF IgnoreCharge, Disturb, DeadLetter, TypeOK, FaultTypeOK, Topic
    <2> QED BY <1>1, <2>1, <2>2, TypeUnchanged DEF IgnoreCharge, TypeOK
  <1>3. OrderInv(o)'
    <2>1. AgreesWithOrder(o)' /\ StatusFits(o)' /\ BudgetFits(o)'
      BY <1>1 DEF IgnoreCharge, OrderInv, AgreesWithOrder, StatusFits, BudgetFits
    <2>2. HasOneVerdict(o)' /\ HoldFits(o)' /\ CommandsFit(o)'
      BY <1>1 DEF IgnoreCharge, OrderInv, HasOneVerdict, HoldFits, CommandsFit, HasCommand, Rows
    <2>3. ChargeFits(o)'
      <3>1. ~NoCharge(o)
        BY <1>1, NoChargeIsQuiet DEF IgnoreCharge
      <3> QED BY <1>1, <3>1 DEF IgnoreCharge, OrderInv, ChargeFits, Rows
    <2> QED BY <2>1, <2>2, <2>3 DEF OrderInv
  <1>4. \A p \in Orders \ {o} : Untouched(p)
    BY <1>1 DEF Untouched, IgnoreCharge, TypeOK, OrderTypeOK, CommandTypeOK,
       InventoryTypeOK, PaymentTypeOK, ConsumerTypeOK
  <1> QED BY <1>2, <1>3, <1>4, OneOrderSuffices

\* A lost charge command changes nothing but its topic.
LEMMA DeadLetterChargeInv ==
  ASSUME SagaInv, NEW o \in Orders, DeadLetterCharge(o)
  PROVE  SagaInv'
  <1>1. TypeOK /\ OrderInv(o)
    BY SagaInvByOrder
  <1>2. TypeOK'
    <2>1. CommandTypeOK'
      BY <1>1, SettleType DEF DeadLetterCharge, TypeOK, CommandTypeOK
    <2>2. FaultTypeOK'
      BY <1>1, DisturbType DEF DeadLetterCharge, Disturb, DeadLetter, TypeOK, FaultTypeOK, Topic
    <2> QED BY <1>1, <2>1, <2>2, TypeUnchanged DEF DeadLetterCharge, TypeOK
  <1>3. OrderInv(o)'
    <2>1. AgreesWithOrder(o)' /\ StatusFits(o)' /\ BudgetFits(o)'
      BY <1>1 DEF DeadLetterCharge, OrderInv, AgreesWithOrder, StatusFits, BudgetFits
    <2>2. HasOneVerdict(o)' /\ HoldFits(o)' /\ CommandsFit(o)'
      BY <1>1 DEF DeadLetterCharge, OrderInv, HasOneVerdict, HoldFits, CommandsFit, HasCommand, Rows
    <2>3. ChargeFits(o)'
      <3>1. ~NoCharge(o)
        BY <1>1, NoChargeIsQuiet DEF DeadLetterCharge
      <3> QED BY <1>1, <3>1 DEF DeadLetterCharge, OrderInv, ChargeFits, Rows
    <2> QED BY <2>1, <2>2, <2>3 DEF OrderInv
  <1>4. \A p \in Orders \ {o} : Untouched(p)
    BY <1>1 DEF Untouched, DeadLetterCharge, TypeOK, OrderTypeOK, CommandTypeOK,
       InventoryTypeOK, PaymentTypeOK, ConsumerTypeOK
  <1> QED BY <1>2, <1>3, <1>4, OneOrderSuffices

\* The first payment reply tells the outcome.
LEMMA FinishChargeInv ==
  ASSUME SagaInv, NEW o \in Orders, FinishCharge(o)
  PROVE  SagaInv'
  <1>1. TypeOK /\ OrderInv(o)
    BY SagaInvByOrder
  <1>2. TypeOK'
    <2>1. PaymentTypeOK'
      BY <1>1, ReplyTellsOutcome DEF FinishCharge, TypeOK, PaymentTypeOK, ChargeState
    <2> QED BY <1>1, <2>1, TypeUnchanged DEF FinishCharge, TypeOK
  <1>3. OrderInv(o)'
    <2>1. AgreesWithOrder(o)' /\ StatusFits(o)' /\ BudgetFits(o)'
      BY <1>1 DEF FinishCharge, OrderInv, AgreesWithOrder, StatusFits, BudgetFits
    <2>2. HasOneVerdict(o)' /\ HoldFits(o)' /\ CommandsFit(o)'
      BY <1>1 DEF FinishCharge, OrderInv, HasOneVerdict, HoldFits, CommandsFit, HasCommand, Rows
    <2>3. ChargeFits(o)'
      <3>1. ~NoCharge(o)
        BY <1>1, NoChargeIsQuiet DEF FinishCharge
      <3>2. PICK outcome \in ChargeOutcome :
              charge'[o] = outcome /\ AppendPaymentReply(o, ReplyFor(outcome))
        BY <1>1 DEF FinishCharge, TypeOK, PaymentTypeOK
      <3>3. Rows(paymentReplies'[o]) = Rows(paymentReplies[o]) \cup {ReplyFor(outcome)}
        BY <1>1, <3>2, ReplyTellsOutcome
      <3> QED BY <1>1, <3>1, <3>2, <3>3
              DEF FinishCharge, OrderInv, ChargeFits, ReplyFor, ChargeOutcome
    <2> QED BY <2>1, <2>2, <2>3 DEF OrderInv
  <1>4. \A p \in Orders \ {o} : Untouched(p)
    BY <1>1 DEF Untouched, FinishCharge, AppendPaymentReply, TypeOK, OrderTypeOK, CommandTypeOK,
       InventoryTypeOK, PaymentTypeOK, ConsumerTypeOK
  <1> QED BY <1>2, <1>3, <1>4, OneOrderSuffices

\* A failed workflow has emitted no reply.
LEMMA FailChargeInv ==
  ASSUME SagaInv, NEW o \in Orders, FailCharge(o)
  PROVE  SagaInv'
  <1>1. TypeOK /\ OrderInv(o)
    BY SagaInvByOrder
  <1>2. TypeOK'
    <2>1. PaymentTypeOK'
      BY <1>1 DEF FailCharge, TypeOK, PaymentTypeOK, ChargeState
    <2>2. FaultTypeOK'
      BY <1>1, DisturbType DEF FailCharge, Disturb, DeadLetter, TypeOK, FaultTypeOK, Topic
    <2> QED BY <1>1, <2>1, <2>2, TypeUnchanged DEF FailCharge, TypeOK
  <1>3. OrderInv(o)'
    <2>1. AgreesWithOrder(o)' /\ StatusFits(o)' /\ BudgetFits(o)'
      BY <1>1 DEF FailCharge, OrderInv, AgreesWithOrder, StatusFits, BudgetFits
    <2>2. HasOneVerdict(o)' /\ HoldFits(o)' /\ CommandsFit(o)'
      BY <1>1 DEF FailCharge, OrderInv, HasOneVerdict, HoldFits, CommandsFit, HasCommand, Rows
    <2>3. ChargeFits(o)'
      <3>1. ~NoCharge(o)
        BY <1>1, NoChargeIsQuiet DEF FailCharge
      <3>2. charge[o] = "RUNNING" /\ charge'[o] = "FAILED"
        BY <1>1 DEF FailCharge, TypeOK, PaymentTypeOK
      <3> QED BY <1>1, <3>1, <3>2 DEF FailCharge, OrderInv, ChargeFits, Rows
    <2> QED BY <2>1, <2>2, <2>3 DEF OrderInv
  <1>4. \A p \in Orders \ {o} : Untouched(p)
    BY <1>1 DEF Untouched, FailCharge, TypeOK, OrderTypeOK, CommandTypeOK,
       InventoryTypeOK, PaymentTypeOK, ConsumerTypeOK
  <1> QED BY <1>2, <1>3, <1>4, OneOrderSuffices

-----------------------------------------------------------------------------
(* The steps of order's reply consumers.                                   *)

\* The reply a consumer handles is in its partition.
LEMMA ReplyIsRow ==
  ASSUME TypeOK, NEW o \in Orders
  PROVE  /\ HasStockReply(o) => NextStockReply(o) \in Rows(stockReplies[o])
         /\ HasPaymentReply(o) => NextPaymentReply(o) \in Rows(paymentReplies[o])
         /\ StockEvent(o) \in Topic \X Nat
         /\ PaymentEvent(o) \in Topic \X Nat
  <1>1. /\ stockReplies[o] \in Seq(StockReply) /\ stockOffset[o] \in Nat
        /\ paymentReplies[o] \in Seq(PaymentReply) /\ paymentOffset[o] \in Nat
    BY DEF TypeOK, InventoryTypeOK, PaymentTypeOK, ConsumerTypeOK
  <1>2. HasStockReply(o) => NextStockReply(o) \in Rows(stockReplies[o])
    BY <1>1 DEF HasStockReply, NextStockReply, Rows
  <1>3. HasPaymentReply(o) => NextPaymentReply(o) \in Rows(paymentReplies[o])
    BY <1>1 DEF HasPaymentReply, NextPaymentReply, Rows
  <1>4. StockEvent(o) \in Topic \X Nat /\ PaymentEvent(o) \in Topic \X Nat
    BY <1>1 DEF StockEvent, PaymentEvent, Topic
  <1> QED BY <1>2, <1>3, <1>4

\* Committing a reply's offset, or dying before it, keeps the types.
LEMMA SettleReplyType ==
  ASSUME TypeOK, NEW o \in Orders, SettleStockReply(o) \/ SettlePaymentReply(o),
         UNCHANGED deadLetters
  PROVE  ConsumerTypeOK' /\ FaultTypeOK'
  <1>1. ConsumerTypeOK'
    BY DEF SettleStockReply, SettlePaymentReply, TypeOK, ConsumerTypeOK
  <1>2. FaultTypeOK'
    BY DisturbType DEF SettleStockReply, SettlePaymentReply, TypeOK, FaultTypeOK
  <1> QED BY <1>1, <1>2

\* Marking a reply as processed keeps the types.
LEMMA MarkSeenType ==
  ASSUME TypeOK, NEW o \in Orders, NEW event \in Topic \X Nat, MarkSeen(o, event)
  PROVE  orderSeen' \in [Orders -> SUBSET (Topic \X Nat)]
  <1>1. orderSeen \in [Orders -> SUBSET (Topic \X Nat)]
    BY DEF TypeOK, OrderTypeOK
  <1>2. orderSeen[o] \cup {event} \in SUBSET (Topic \X Nat)
    BY <1>1
  <1> QED BY <1>1, <1>2 DEF MarkSeen

\* The saga state each reply is acted upon in.
LEMMA AwaitedStates ==
  /\ Awaits("StockReserved") = "STARTED" /\ Awaits("StockReservationFailed") = "STARTED"
  /\ Awaits("StockReleased") = "COMPENSATING"
  /\ Awaits("PaymentSucceeded") = "STOCK_RESERVED" /\ Awaits("PaymentFailed") = "STOCK_RESERVED"
  BY DEF Awaits, PaymentReply

\* A reserved order has its stock and nothing is charged yet.
LEMMA HandleStockReservedInv ==
  ASSUME SagaInv, NEW o \in Orders, HandleStockReserved(o)
  PROVE  SagaInv'
  <1>1. TypeOK /\ OrderInv(o)
    BY SagaInvByOrder
  <1>2. TypeOK'
    <2>1. "ChargePayment" \in OutboxRow
      BY DEF OutboxRow
    <2>2. orderSeen' \in [Orders -> SUBSET (Topic \X Nat)]
      BY <1>1, MarkSeenType, ReplyIsRow DEF HandleStockReserved
    <2>3. OrderTypeOK' /\ RelayTypeOK'
      BY <1>1, <2>1, <2>2, OutboxGrows DEF HandleStockReserved, MoveOrder, TypeOK, OrderTypeOK
    <2>4. ConsumerTypeOK' /\ FaultTypeOK'
      BY <1>1, SettleReplyType DEF HandleStockReserved
    <2> QED BY <1>1, <2>3, <2>4, TypeUnchanged DEF HandleStockReserved, TypeOK
  <1>3. OrderInv(o)'
    <2>1. saga[o] = "STARTED" /\ saga'[o] = "STOCK_RESERVED" /\ "StockReserved" \in Rows(stockReplies[o])
      BY <1>1, ReplyIsRow, AwaitedStates DEF HandleStockReserved, FreshStockReply, TypeOK, OrderTypeOK
    <2>2. order'[o] = "RESERVED" /\ CanMove(order[o], "RESERVED")
      BY <1>1 DEF HandleStockReserved, MoveOrder, TypeOK, OrderTypeOK
    <2>3. "ChargePayment" \in OutboxRow \ OrderEvent /\ AppendRow(o, "ChargePayment")
      BY DEF HandleStockReserved, OutboxRow, OrderEvent
    <2>4. Rows(outbox'[o]) = Rows(outbox[o]) \cup {"ChargePayment"}
      BY <1>1, <2>3, AppendedRow
    <2>5. AgreesWithOrder(o)' /\ StatusFits(o)' /\ BudgetFits(o)'
      BY <1>1, <2>1, <2>2 DEF HandleStockReserved, OrderInv, AgreesWithOrder, StatusFits, BudgetFits, CanMove
    <2>6. HasOneVerdict(o)'
      BY <1>1, <2>1, <2>3, CommandKeepsVerdict DEF OrderInv
    <2>7. ChargeFits(o)'
      BY <1>1, <2>1, <2>4 DEF HandleStockReserved, OrderInv, ChargeFits, NoCharge
    <2>8. HoldFits(o)'
      BY <1>1, <2>1, <2>2, <2>4 DEF HandleStockReserved, OrderInv, HoldFits, CanMove
    <2>9. CommandsFit(o)'
      BY <1>1, <2>3, AppendedRow DEF HandleStockReserved, SettleStockReply, OrderInv, CommandsFit, HasCommand
    <2> QED BY <2>5, <2>6, <2>7, <2>8, <2>9 DEF OrderInv
  <1>4. \A p \in Orders \ {o} : Untouched(p)
    BY <1>1 DEF Untouched, HandleStockReserved, MoveOrder, AppendRow, SettleStockReply, TypeOK, OrderTypeOK, CommandTypeOK,
       InventoryTypeOK, PaymentTypeOK, ConsumerTypeOK
  <1> QED BY <1>2, <1>3, <1>4, OneOrderSuffices

\* A saga that cancels has charged nothing.
LEMMA HandleSagaCancellationInv ==
  ASSUME SagaInv, NEW o \in Orders, HandleSagaCancellation(o)
  PROVE  SagaInv'
  <1>1. TypeOK /\ OrderInv(o)
    BY SagaInvByOrder
  <1>2. TypeOK'
    <2>1. "OrderCancelled" \in OutboxRow
      BY DEF OutboxRow, OrderEvent
    <2>2. orderSeen' \in [Orders -> SUBSET (Topic \X Nat)]
      BY <1>1, MarkSeenType, ReplyIsRow DEF HandleSagaCancellation
    <2>3. OrderTypeOK' /\ RelayTypeOK'
      BY <1>1, <2>1, <2>2, OutboxGrows DEF HandleSagaCancellation, MoveOrder, TypeOK, OrderTypeOK
    <2>4. ConsumerTypeOK' /\ FaultTypeOK'
      BY <1>1, SettleReplyType DEF HandleSagaCancellation
    <2> QED BY <1>1, <2>3, <2>4, TypeUnchanged DEF HandleSagaCancellation, TypeOK
  <1>3. OrderInv(o)'
    <2>1. /\ saga[o] \in {"STARTED", "COMPENSATING"}
          /\ saga'[o] = "CANCELLED"
      BY <1>1, AwaitedStates DEF HandleSagaCancellation, FreshStockReply, TypeOK, OrderTypeOK
    <2>2. order'[o] = "CANCELLED" /\ CanMove(order[o], "CANCELLED")
      BY <1>1 DEF HandleSagaCancellation, MoveOrder, TypeOK, OrderTypeOK
    <2>3. "OrderCancelled" \in OutboxRow /\ AppendRow(o, "OrderCancelled")
      BY DEF HandleSagaCancellation, OutboxRow, OrderEvent
    <2>4. Rows(outbox'[o]) = Rows(outbox[o]) \cup {"OrderCancelled"}
      BY <1>1, <2>3, AppendedRow
    <2>5. AgreesWithOrder(o)' /\ StatusFits(o)' /\ BudgetFits(o)'
      BY <1>1, <2>1, <2>2 DEF HandleSagaCancellation, OrderInv, AgreesWithOrder, StatusFits, BudgetFits, CanMove
    <2>6. HasOneVerdict(o)'
      BY <1>1, <2>1, <2>3, EventIsVerdict DEF OrderInv, OrderEvent
    <2>7. ChargeFits(o)'
      BY <1>1, <2>1, <2>4 DEF HandleSagaCancellation, OrderInv, ChargeFits, NoCharge
    <2>8. HoldFits(o)'
      BY <1>1, <2>1, <2>2, <2>4 DEF HandleSagaCancellation, OrderInv, HoldFits, CanMove
    <2>9. CommandsFit(o)'
      BY <1>1, <2>3, AppendedRow DEF HandleSagaCancellation, SettleStockReply, OrderInv, CommandsFit, HasCommand
    <2> QED BY <2>5, <2>6, <2>7, <2>8, <2>9 DEF OrderInv
  <1>4. \A p \in Orders \ {o} : Untouched(p)
    BY <1>1 DEF Untouched, HandleSagaCancellation, MoveOrder, AppendRow, SettleStockReply, TypeOK, OrderTypeOK, CommandTypeOK,
       InventoryTypeOK, PaymentTypeOK, ConsumerTypeOK
  <1> QED BY <1>2, <1>3, <1>4, OneOrderSuffices

\* A saga that completes was paid and its stock is held.
LEMMA HandlePaymentSucceededInv ==
  ASSUME SagaInv, NEW o \in Orders, HandlePaymentSucceeded(o)
  PROVE  SagaInv'
  <1>1. TypeOK /\ OrderInv(o)
    BY SagaInvByOrder
  <1>2. TypeOK'
    <2>1. "OrderConfirmed" \in OutboxRow
      BY DEF OutboxRow, OrderEvent
    <2>2. orderSeen' \in [Orders -> SUBSET (Topic \X Nat)]
      BY <1>1, MarkSeenType, ReplyIsRow DEF HandlePaymentSucceeded
    <2>3. OrderTypeOK' /\ RelayTypeOK'
      BY <1>1, <2>1, <2>2, OutboxGrows DEF HandlePaymentSucceeded, MoveOrder, TypeOK, OrderTypeOK
    <2>4. ConsumerTypeOK' /\ FaultTypeOK'
      BY <1>1, SettleReplyType DEF HandlePaymentSucceeded
    <2> QED BY <1>1, <2>3, <2>4, TypeUnchanged DEF HandlePaymentSucceeded, TypeOK
  <1>3. OrderInv(o)'
    <2>1. saga[o] = "STOCK_RESERVED" /\ saga'[o] = "COMPLETED"
          /\ "PaymentSucceeded" \in Rows(paymentReplies[o])
      BY <1>1, ReplyIsRow, AwaitedStates DEF HandlePaymentSucceeded, FreshPaymentReply, TypeOK, OrderTypeOK
    <2>2. order'[o] = "CONFIRMED" /\ CanMove(order[o], "CONFIRMED")
      BY <1>1 DEF HandlePaymentSucceeded, MoveOrder, TypeOK, OrderTypeOK
    <2>3. "OrderConfirmed" \in OutboxRow /\ AppendRow(o, "OrderConfirmed")
      BY DEF HandlePaymentSucceeded, OutboxRow, OrderEvent
    <2>4. Rows(outbox'[o]) = Rows(outbox[o]) \cup {"OrderConfirmed"}
      BY <1>1, <2>3, AppendedRow
    <2>5. AgreesWithOrder(o)' /\ StatusFits(o)' /\ BudgetFits(o)'
      BY <1>1, <2>1, <2>2 DEF HandlePaymentSucceeded, OrderInv, AgreesWithOrder, StatusFits, BudgetFits, CanMove
    <2>6. HasOneVerdict(o)'
      BY <1>1, <2>1, <2>3, EventIsVerdict DEF OrderInv, OrderEvent
    <2>7. ChargeFits(o)'
      BY <1>1, <2>1, <2>4 DEF HandlePaymentSucceeded, OrderInv, ChargeFits, NoCharge
    <2>8. HoldFits(o)'
      BY <1>1, <2>1, <2>2, <2>4 DEF HandlePaymentSucceeded, OrderInv, HoldFits, CanMove
    <2>9. CommandsFit(o)'
      BY <1>1, <2>3, AppendedRow DEF HandlePaymentSucceeded, SettlePaymentReply, OrderInv, CommandsFit, HasCommand
    <2> QED BY <2>5, <2>6, <2>7, <2>8, <2>9 DEF OrderInv
  <1>4. \A p \in Orders \ {o} : Untouched(p)
    BY <1>1 DEF Untouched, HandlePaymentSucceeded, MoveOrder, AppendRow, SettlePaymentReply, TypeOK, OrderTypeOK, CommandTypeOK,
       InventoryTypeOK, PaymentTypeOK, ConsumerTypeOK
  <1> QED BY <1>2, <1>3, <1>4, OneOrderSuffices

\* Compensation begins only after the charge was declined.
LEMMA HandlePaymentFailedInv ==
  ASSUME SagaInv, NEW o \in Orders, HandlePaymentFailed(o)
  PROVE  SagaInv'
  <1>1. TypeOK /\ OrderInv(o)
    BY SagaInvByOrder
  <1>2. TypeOK'
    <2>1. "ReleaseStock" \in OutboxRow
      BY DEF OutboxRow, InventoryCommand
    <2>2. orderSeen' \in [Orders -> SUBSET (Topic \X Nat)]
      BY <1>1, MarkSeenType, ReplyIsRow DEF HandlePaymentFailed
    <2>3. OrderTypeOK' /\ RelayTypeOK'
      BY <1>1, <2>1, <2>2, OutboxGrows DEF HandlePaymentFailed, TypeOK, OrderTypeOK
    <2>4. ConsumerTypeOK' /\ FaultTypeOK'
      BY <1>1, SettleReplyType DEF HandlePaymentFailed
    <2> QED BY <1>1, <2>3, <2>4, TypeUnchanged DEF HandlePaymentFailed, TypeOK
  <1>3. OrderInv(o)'
    <2>1. saga[o] = "STOCK_RESERVED" /\ saga'[o] = "COMPENSATING"
          /\ "PaymentFailed" \in Rows(paymentReplies[o])
      BY <1>1, ReplyIsRow, AwaitedStates DEF HandlePaymentFailed, FreshPaymentReply, TypeOK, OrderTypeOK
    <2>2. order'[o] = order[o]
      BY DEF HandlePaymentFailed
    <2>3. "ReleaseStock" \in OutboxRow \ OrderEvent /\ AppendRow(o, "ReleaseStock")
      BY DEF HandlePaymentFailed, OutboxRow, InventoryCommand, OrderEvent
    <2>4. Rows(outbox'[o]) = Rows(outbox[o]) \cup {"ReleaseStock"}
      BY <1>1, <2>3, AppendedRow
    <2>5. AgreesWithOrder(o)' /\ StatusFits(o)' /\ BudgetFits(o)'
      BY <1>1, <2>1, <2>2 DEF HandlePaymentFailed, OrderInv, AgreesWithOrder, StatusFits, BudgetFits, CanMove
    <2>6. HasOneVerdict(o)'
      BY <1>1, <2>1, <2>3, CommandKeepsVerdict DEF OrderInv
    <2>7. ChargeFits(o)'
      BY <1>1, <2>1, <2>4 DEF HandlePaymentFailed, OrderInv, ChargeFits, NoCharge
    <2>8. HoldFits(o)'
      BY <1>1, <2>1, <2>2, <2>4 DEF HandlePaymentFailed, OrderInv, HoldFits
    <2>9. CommandsFit(o)'
      BY <1>1, <2>3, AppendedRow DEF HandlePaymentFailed, SettlePaymentReply, OrderInv, CommandsFit, HasCommand
    <2> QED BY <2>5, <2>6, <2>7, <2>8, <2>9 DEF OrderInv
  <1>4. \A p \in Orders \ {o} : Untouched(p)
    BY <1>1 DEF Untouched, HandlePaymentFailed, AppendRow, SettlePaymentReply, TypeOK, OrderTypeOK, CommandTypeOK,
       InventoryTypeOK, PaymentTypeOK, ConsumerTypeOK
  <1> QED BY <1>2, <1>3, <1>4, OneOrderSuffices

\* Skipping a duplicate or late stock reply changes no verdict.
LEMMA IgnoreStockReplyInv ==
  ASSUME SagaInv, NEW o \in Orders, IgnoreStockReply(o)
  PROVE  SagaInv'
  <1>1. TypeOK /\ OrderInv(o)
    BY SagaInvByOrder
  <1>2. TypeOK'
    <2>1. orderSeen' \in [Orders -> SUBSET (Topic \X Nat)]
      BY <1>1, MarkSeenType, ReplyIsRow DEF IgnoreStockReply
    <2>2. OrderTypeOK' /\ RelayTypeOK'
      BY <1>1, <2>1 DEF IgnoreStockReply, TypeOK, OrderTypeOK, RelayTypeOK
    <2>3. ConsumerTypeOK' /\ FaultTypeOK'
      BY <1>1, SettleReplyType DEF IgnoreStockReply
    <2> QED BY <1>1, <2>2, <2>3, TypeUnchanged DEF IgnoreStockReply, TypeOK
  <1>3. OrderInv(o)'
    <2> Untouched(o)
      BY DEF IgnoreStockReply, SettleStockReply, Untouched
    <2> QED BY <1>1, UntouchedKeepsInv
  <1>4. \A p \in Orders \ {o} : Untouched(p)
    BY <1>1 DEF Untouched, IgnoreStockReply, SettleStockReply, TypeOK, OrderTypeOK, CommandTypeOK,
       InventoryTypeOK, PaymentTypeOK, ConsumerTypeOK
  <1> QED BY <1>2, <1>3, <1>4, OneOrderSuffices

\* Skipping a duplicate or late payment reply changes no verdict.
LEMMA IgnorePaymentReplyInv ==
  ASSUME SagaInv, NEW o \in Orders, IgnorePaymentReply(o)
  PROVE  SagaInv'
  <1>1. TypeOK /\ OrderInv(o)
    BY SagaInvByOrder
  <1>2. TypeOK'
    <2>1. orderSeen' \in [Orders -> SUBSET (Topic \X Nat)]
      BY <1>1, MarkSeenType, ReplyIsRow DEF IgnorePaymentReply
    <2>2. OrderTypeOK' /\ RelayTypeOK'
      BY <1>1, <2>1 DEF IgnorePaymentReply, TypeOK, OrderTypeOK, RelayTypeOK
    <2>3. ConsumerTypeOK' /\ FaultTypeOK'
      BY <1>1, SettleReplyType DEF IgnorePaymentReply
    <2> QED BY <1>1, <2>2, <2>3, TypeUnchanged DEF IgnorePaymentReply, TypeOK
  <1>3. OrderInv(o)'
    <2> Untouched(o)
      BY DEF IgnorePaymentReply, SettlePaymentReply, Untouched
    <2> QED BY <1>1, UntouchedKeepsInv
  <1>4. \A p \in Orders \ {o} : Untouched(p)
    BY <1>1 DEF Untouched, IgnorePaymentReply, SettlePaymentReply, TypeOK, OrderTypeOK, CommandTypeOK,
       InventoryTypeOK, PaymentTypeOK, ConsumerTypeOK
  <1> QED BY <1>2, <1>3, <1>4, OneOrderSuffices

\* A dead-lettered stock reply changes neither order nor saga.
LEMMA DeadLetterStockReplyInv ==
  ASSUME SagaInv, NEW o \in Orders, DeadLetterStockReply(o)
  PROVE  SagaInv'
  <1>1. TypeOK /\ OrderInv(o)
    BY SagaInvByOrder
  <1>2. TypeOK'
    <2>1. ConsumerTypeOK'
      BY <1>1 DEF DeadLetterStockReply, TypeOK, ConsumerTypeOK
    <2>2. FaultTypeOK'
      BY <1>1, DisturbType DEF DeadLetterStockReply, Disturb, DeadLetter, TypeOK, FaultTypeOK, Topic
    <2> QED BY <1>1, <2>1, <2>2, TypeUnchanged DEF DeadLetterStockReply, TypeOK
  <1>3. OrderInv(o)'
    <2> Untouched(o)
      BY DEF DeadLetterStockReply, DeadLetter, Untouched
    <2> QED BY <1>1, UntouchedKeepsInv
  <1>4. \A p \in Orders \ {o} : Untouched(p)
    BY <1>1 DEF Untouched, DeadLetterStockReply, DeadLetter, TypeOK, OrderTypeOK, CommandTypeOK,
       InventoryTypeOK, PaymentTypeOK, ConsumerTypeOK
  <1> QED BY <1>2, <1>3, <1>4, OneOrderSuffices

\* A dead-lettered payment reply changes neither order nor saga.
LEMMA DeadLetterPaymentReplyInv ==
  ASSUME SagaInv, NEW o \in Orders, DeadLetterPaymentReply(o)
  PROVE  SagaInv'
  <1>1. TypeOK /\ OrderInv(o)
    BY SagaInvByOrder
  <1>2. TypeOK'
    <2>1. ConsumerTypeOK'
      BY <1>1 DEF DeadLetterPaymentReply, TypeOK, ConsumerTypeOK
    <2>2. FaultTypeOK'
      BY <1>1, DisturbType DEF DeadLetterPaymentReply, Disturb, DeadLetter, TypeOK, FaultTypeOK, Topic
    <2> QED BY <1>1, <2>1, <2>2, TypeUnchanged DEF DeadLetterPaymentReply, TypeOK
  <1>3. OrderInv(o)'
    <2> Untouched(o)
      BY DEF DeadLetterPaymentReply, DeadLetter, Untouched
    <2> QED BY <1>1, UntouchedKeepsInv
  <1>4. \A p \in Orders \ {o} : Untouched(p)
    BY <1>1 DEF Untouched, DeadLetterPaymentReply, DeadLetter, TypeOK, OrderTypeOK, CommandTypeOK,
       InventoryTypeOK, PaymentTypeOK, ConsumerTypeOK
  <1> QED BY <1>2, <1>3, <1>4, OneOrderSuffices

-----------------------------------------------------------------------------
(* The reaper's steps.                                                     *)

\* The reaper starts on a saga only with budget left.
LEMMA ReaperReadInv ==
  ASSUME SagaInv, NEW o \in Orders, ReaperRead(o)
  PROVE  SagaInv'
  <1>1. TypeOK /\ OrderInv(o)
    BY SagaInvByOrder
  <1>2. TypeOK'
    <2>1. OrderTypeOK' /\ RelayTypeOK'
      BY <1>1 DEF ReaperRead, Stranded, TypeOK, OrderTypeOK, RelayTypeOK
    <2> QED BY <1>1, <2>1, TypeUnchanged DEF ReaperRead, TypeOK
  <1>3. OrderInv(o)'
    <2>1. AgreesWithOrder(o)' /\ StatusFits(o)' /\ BudgetFits(o)'
      BY <1>1, MaxAttemptsAssumption DEF ReaperRead, MayRedrive, TypeOK, OrderTypeOK, OrderInv, AgreesWithOrder, StatusFits, BudgetFits
    <2>2. HasOneVerdict(o)' /\ HoldFits(o)' /\ CommandsFit(o)'
      BY <1>1 DEF ReaperRead, OrderInv, HasOneVerdict, HoldFits, CommandsFit, HasCommand, Rows
    <2>3. ChargeFits(o)'
      BY <1>1 DEF ReaperRead, OrderInv, ChargeFits, NoCharge, Rows
    <2> QED BY <2>1, <2>2, <2>3 DEF OrderInv
  <1>4. \A p \in Orders \ {o} : Untouched(p)
    BY <1>1 DEF Untouched, ReaperRead, TypeOK, OrderTypeOK, CommandTypeOK,
       InventoryTypeOK, PaymentTypeOK, ConsumerTypeOK
  <1> QED BY <1>2, <1>3, <1>4, OneOrderSuffices

\* A sweep that finds the saga moved writes nothing.
LEMMA ReaperSkipInv ==
  ASSUME SagaInv, NEW o \in Orders, ReaperSkip(o)
  PROVE  SagaInv'
  <1>1. TypeOK /\ OrderInv(o)
    BY SagaInvByOrder
  <1>2. TypeOK'
    <2>1. OrderTypeOK' /\ RelayTypeOK'
      BY <1>1 DEF ReaperSkip, TypeOK, OrderTypeOK, RelayTypeOK
    <2>2. FaultTypeOK'
      BY <1>1, DisturbType DEF ReaperSkip, Disturb, DeadLetter, TypeOK, FaultTypeOK, Topic
    <2> QED BY <1>1, <2>1, <2>2, TypeUnchanged DEF ReaperSkip, TypeOK
  <1>3. OrderInv(o)'
    <2>1. AgreesWithOrder(o)' /\ StatusFits(o)' /\ BudgetFits(o)'
      BY <1>1 DEF ReaperSkip, TypeOK, OrderTypeOK, OrderInv, AgreesWithOrder, StatusFits, BudgetFits
    <2>2. HasOneVerdict(o)' /\ HoldFits(o)' /\ CommandsFit(o)'
      BY <1>1 DEF ReaperSkip, OrderInv, HasOneVerdict, HoldFits, CommandsFit, HasCommand, Rows
    <2>3. ChargeFits(o)'
      BY <1>1 DEF ReaperSkip, OrderInv, ChargeFits, NoCharge, Rows
    <2> QED BY <2>1, <2>2, <2>3 DEF OrderInv
  <1>4. \A p \in Orders \ {o} : Untouched(p)
    BY <1>1 DEF Untouched, ReaperSkip, TypeOK, OrderTypeOK, CommandTypeOK,
       InventoryTypeOK, PaymentTypeOK, ConsumerTypeOK
  <1> QED BY <1>2, <1>3, <1>4, OneOrderSuffices

\* An operator's replay gives the budget back and no more.
LEMMA ReplaySagaInv ==
  ASSUME SagaInv, NEW o \in Orders, ReplaySaga(o)
  PROVE  SagaInv'
  <1>1. TypeOK /\ OrderInv(o)
    BY SagaInvByOrder
  <1>2. TypeOK'
    <2>1. OrderTypeOK' /\ RelayTypeOK'
      BY <1>1, MaxAttemptsAssumption DEF ReplaySaga, TypeOK, OrderTypeOK, RelayTypeOK
    <2>2. FaultTypeOK'
      BY <1>1, DisturbType DEF ReplaySaga, Disturb, DeadLetter, TypeOK, FaultTypeOK, Topic
    <2> QED BY <1>1, <2>1, <2>2, TypeUnchanged DEF ReplaySaga, TypeOK
  <1>3. OrderInv(o)'
    <2>1. AgreesWithOrder(o)' /\ StatusFits(o)' /\ BudgetFits(o)'
      BY <1>1, MaxAttemptsAssumption DEF ReplaySaga, TypeOK, OrderTypeOK, OrderInv, AgreesWithOrder, StatusFits, BudgetFits
    <2>2. HasOneVerdict(o)' /\ HoldFits(o)' /\ CommandsFit(o)'
      BY <1>1 DEF ReplaySaga, OrderInv, HasOneVerdict, HoldFits, CommandsFit, HasCommand, Rows
    <2>3. ChargeFits(o)'
      BY <1>1 DEF ReplaySaga, OrderInv, ChargeFits, NoCharge, Rows
    <2> QED BY <2>1, <2>2, <2>3 DEF OrderInv
  <1>4. \A p \in Orders \ {o} : Untouched(p)
    BY <1>1 DEF Untouched, ReplaySaga, TypeOK, OrderTypeOK, CommandTypeOK,
       InventoryTypeOK, PaymentTypeOK, ConsumerTypeOK
  <1> QED BY <1>2, <1>3, <1>4, OneOrderSuffices

\* A re-driven command belongs to the state the saga is still in.
LEMMA ReaperRedriveInv ==
  ASSUME SagaInv, NEW o \in Orders, ReaperRedrive(o)
  PROVE  SagaInv'
  <1>1. TypeOK /\ OrderInv(o)
    BY SagaInvByOrder
  <1>2. TypeOK'
    <2>1. PendingCommand(reading[o]) \in OutboxRow
      BY <1>1 DEF ReaperRedrive, PendingCommand, OutboxRow, InventoryCommand, TypeOK, OrderTypeOK
    <2>2. attempts[o] \in 0 .. MaxAttempts /\ attempts[o] < MaxAttempts
      BY <1>1 DEF ReaperRedrive, TypeOK, OrderTypeOK, OrderInv, BudgetFits
    <2>3. OrderTypeOK' /\ RelayTypeOK'
      BY <1>1, <2>1, <2>2, MaxAttemptsAssumption, OutboxGrows DEF ReaperRedrive, TypeOK, OrderTypeOK
    <2> QED BY <1>1, <2>3, TypeUnchanged DEF ReaperRedrive, TypeOK
  <1>3. OrderInv(o)'
    <2> DEFINE row == PendingCommand(saga[o])
    <2>1. saga[o] \in NonTerminal /\ AppendRow(o, row) /\ reading'[o] = "IDLE"
      BY <1>1 DEF ReaperRedrive, StateUnchanged, TypeOK, OrderTypeOK
    <2>2. /\ row \in OutboxRow \ OrderEvent
          /\ row = "ChargePayment" <=> saga[o] = "STOCK_RESERVED"
          /\ row = "ReleaseStock" <=> saga[o] = "COMPENSATING"
      BY <2>1 DEF PendingCommand, OutboxRow, InventoryCommand, OrderEvent
    <2> HIDE DEF row
    <2>3. Rows(outbox'[o]) = Rows(outbox[o]) \cup {row}
      BY <1>1, <2>1, <2>2, AppendedRow
    <2>4. AgreesWithOrder(o)' /\ StatusFits(o)' /\ BudgetFits(o)'
      BY <1>1, <2>1 DEF ReaperRedrive, OrderInv, AgreesWithOrder, StatusFits, BudgetFits
    <2>5. HasOneVerdict(o)'
      BY <1>1, <2>1, <2>2, CommandKeepsVerdict DEF ReaperRedrive, OrderInv
    <2>6. ChargeFits(o)'
      BY <1>1, <2>2, <2>3 DEF ReaperRedrive, OrderInv, ChargeFits, NoCharge
    <2>7. HoldFits(o)'
      BY <1>1, <2>2, <2>3 DEF ReaperRedrive, OrderInv, HoldFits
    <2>8. CommandsFit(o)'
      BY <1>1, <2>1, <2>2, AppendedRow DEF ReaperRedrive, OrderInv, CommandsFit, HasCommand
    <2> QED BY <2>4, <2>5, <2>6, <2>7, <2>8 DEF OrderInv
  <1>4. \A p \in Orders \ {o} : Untouched(p)
    BY <1>1 DEF Untouched, ReaperRedrive, AppendRow, TypeOK, OrderTypeOK, CommandTypeOK,
       InventoryTypeOK, PaymentTypeOK, ConsumerTypeOK
  <1> QED BY <1>2, <1>3, <1>4, OneOrderSuffices

-----------------------------------------------------------------------------
(* The theorems.                                                           *)

\* Every handler, with everything it calls, keeps the invariant.
THEOREM StepInv == SagaInv /\ [Next]_vars => SagaInv'
  <1> SUFFICES ASSUME SagaInv, [Next]_vars PROVE SagaInv'
    OBVIOUS
  <1>1. ASSUME NEW o \in Orders, CustomerStep(o) PROVE SagaInv'
    BY <1>1, PlaceOrderInv, CancelOrderInv, ReleaseAfterCancelInv, ConfirmOrderInv
       DEF CustomerStep
  <1>2. ASSUME NEW o \in Orders, RelayStep(o) PROVE SagaInv'
    BY <1>2, RelayPublishInv, RelayMarkInv, RelayRestartInv
       DEF RelayStep
  <1>3. ASSUME NEW o \in Orders, InventoryStep(o) PROVE SagaInv'
    BY <1>3, ReserveEffectInv, ReleaseEffectInv, ReplyToCommandInv, InventoryRestartInv,
            DeadLetterCommandInv
       DEF InventoryStep
  <1>4. ASSUME NEW o \in Orders, PaymentStep(o) PROVE SagaInv'
    BY <1>4, StartChargeInv, RepeatPaymentReplyInv, IgnoreChargeInv, DeadLetterChargeInv,
            FinishChargeInv, FailChargeInv
       DEF PaymentStep
  <1>5. ASSUME NEW o \in Orders, ReplyStep(o) PROVE SagaInv'
    BY <1>5, HandleStockReservedInv, HandleSagaCancellationInv, IgnoreStockReplyInv,
            DeadLetterStockReplyInv, HandlePaymentSucceededInv,
            HandlePaymentFailedInv, IgnorePaymentReplyInv, DeadLetterPaymentReplyInv
       DEF ReplyStep
  <1>6. ASSUME NEW o \in Orders, ReaperStep(o) PROVE SagaInv'
    BY <1>6, ReaperReadInv, ReaperRedriveInv, ReaperSkipInv, ReplaySagaInv
       DEF ReaperStep
  <1>7. CASE UNCHANGED vars
    <2>1. \A p \in Orders : Untouched(p)
      BY <1>7 DEF vars, Untouched
    <2>2. TypeOK'
      BY <1>7, SagaInvByOrder, TypeUnchanged DEF vars, TypeOK
    <2>3. \A p \in Orders : OrderInv(p)'
      BY <2>1, SagaInvByOrder, UntouchedKeepsInv
    <2> QED BY <2>2, <2>3 DEF SagaInv, OrderInv, SagaAgreesWithOrder, AgreesWithOrder,
               OneVerdict, HasOneVerdict
  <1> QED BY <1>1, <1>2, <1>3, <1>4, <1>5, <1>6, <1>7 DEF Next

\* Whatever fails, is repeated or is done by hand, the rows of order, saga,
\* outbox, charge and reservation fit together.
THEOREM SagaInvariant == Spec => []SagaInv
  BY InitInv, StepInv, PTL DEF Spec

\* The types, the relay's window and the re-drive budget.
THEOREM TypeCorrect == Spec => []TypeOK
  <1>1. SagaInv => TypeOK
    BY DEF SagaInv
  <1> QED BY <1>1, SagaInvariant, PTL

\* The order row never contradicts the verdict of the saga row.
THEOREM VerdictsAgree == Spec => []SagaAgreesWithOrder
  <1>1. SagaInv => SagaAgreesWithOrder
    BY DEF SagaInv
  <1> QED BY <1>1, SagaInvariant, PTL

\* One order announces one verdict, once.
THEOREM VerdictIsUnique == Spec => []OneVerdict
  <1>1. SagaInv => OneVerdict
    BY DEF SagaInv
  <1> QED BY <1>1, SagaInvariant, PTL

\* An order confirmed by the saga was charged and its stock is held.
THEOREM ConfirmationIsBacked == Spec => []ConfirmedIsPaidAndHeld
  <1>1. SagaInv => ConfirmedIsPaidAndHeld
    BY DEF SagaInv, SagaAgreesWithOrder, ChargeFits, HoldFits, ConfirmedIsPaidAndHeld
  <1> QED BY <1>1, SagaInvariant, PTL

\* An order cancelled by the saga was not charged.
THEOREM CancellationIsFree == Spec => []CancelledIsNotPaid
  <1>1. SagaInv => CancelledIsNotPaid
    BY DEF SagaInv, SagaAgreesWithOrder, ChargeFits, NoCharge, CancelledIsNotPaid
  <1> QED BY <1>1, SagaInvariant, PTL

-----------------------------------------------------------------------------
(* The steps of the outbox and of the contract.                           *)

\* The command each non-terminal saga state waits on.
LEMMA PendingCommands ==
  /\ PendingCommand("STARTED") = "ReserveStock"
  /\ PendingCommand("STOCK_RESERVED") = "ChargePayment"
  /\ PendingCommand("COMPENSATING") = "ReleaseStock"
  BY DEF PendingCommand

\* A handler that writes no row satisfies the action property.
LEMMA QuietOutbox ==
  ASSUME TypeOK, UNCHANGED outbox
  PROVE  \A p \in Orders : RowFollowsSaga(p)
  <1>1. \A p \in Orders : Len(outbox[p]) \in Nat
    BY DEF TypeOK, OrderTypeOK
  <1> QED BY <1>1 DEF RowFollowsSaga

\* A handler that writes one row the saga calls for satisfies it.
LEMMA AppendFollows ==
  ASSUME TypeOK, NEW o \in Orders, NEW row \in OutboxRow, AppendRow(o, row),
         row \notin OrderEvent => saga'[o] \in NonTerminal /\ row = PendingCommand(saga'[o]),
         row = "OrderConfirmed" => saga'[o] = "COMPLETED",
         row = "OrderCancelled" => saga'[o] = "CANCELLED"
  PROVE  \A p \in Orders : RowFollowsSaga(p)
  <1>1. LastRow(outbox'[o]) = row
    BY AppendedRow, AppendFacts DEF LastRow
  <1>2. \A p \in Orders \ {o} : Len(outbox'[p]) = Len(outbox[p]) /\ Len(outbox[p]) \in Nat
    BY DEF AppendRow, TypeOK, OrderTypeOK
  <1> QED BY <1>1, <1>2 DEF RowFollowsSaga

\* No stale or late handler writes a command the saga does not wait for.
THEOREM OutboxFollowsSaga == Spec => CommandsFollowSaga
  <1>1. ASSUME SagaInv, Next PROVE \A p \in Orders : RowFollowsSaga(p)
    <2> USE SagaInvByOrder DEF TypeOK, OrderTypeOK
    <2>1. PICK o \in Orders :
            \/ CustomerStep(o) \/ RelayStep(o) \/ InventoryStep(o)
            \/ PaymentStep(o) \/ ReplyStep(o) \/ ReaperStep(o)
      BY <1>1 DEF Next
    <2>2. CASE PlaceOrder(o)
      <3>1. saga'[o] = "STARTED" /\ "ReserveStock" \in OutboxRow \ OrderEvent
        BY <1>1, <2>2 DEF PlaceOrder, OutboxRow, InventoryCommand, OrderEvent
      <3> QED BY <1>1, <2>2, <3>1, AppendFollows, PendingCommands DEF PlaceOrder, OrderEvent
    <2>3. CASE HandleStockReserved(o)
      <3>1. saga'[o] = "STOCK_RESERVED" /\ "ChargePayment" \in OutboxRow \ OrderEvent
        BY <1>1, <2>3 DEF HandleStockReserved, OutboxRow, OrderEvent
      <3> QED BY <1>1, <2>3, <3>1, AppendFollows, PendingCommands
              DEF HandleStockReserved, OrderEvent
    <2>4. CASE HandleSagaCancellation(o)
      <3>1. saga'[o] = "CANCELLED" /\ "OrderCancelled" \in OutboxRow \cap OrderEvent
        BY <1>1, <2>4 DEF HandleSagaCancellation, OutboxRow, OrderEvent
      <3> QED BY <1>1, <2>4, <3>1, AppendFollows DEF HandleSagaCancellation
    <2>5. CASE HandlePaymentSucceeded(o)
      <3>1. saga'[o] = "COMPLETED" /\ "OrderConfirmed" \in OutboxRow \cap OrderEvent
        BY <1>1, <2>5 DEF HandlePaymentSucceeded, OutboxRow, OrderEvent
      <3> QED BY <1>1, <2>5, <3>1, AppendFollows DEF HandlePaymentSucceeded
    <2>6. CASE HandlePaymentFailed(o)
      <3>1. saga'[o] = "COMPENSATING" /\ "ReleaseStock" \in OutboxRow \ OrderEvent
        BY <1>1, <2>6 DEF HandlePaymentFailed, OutboxRow, InventoryCommand, OrderEvent
      <3> QED BY <1>1, <2>6, <3>1, AppendFollows, PendingCommands
              DEF HandlePaymentFailed, OrderEvent
    <2>7. CASE ReaperRedrive(o)
      <3>1. saga'[o] = reading[o] /\ reading[o] \in NonTerminal
        BY <1>1, <2>7 DEF ReaperRedrive, StateUnchanged
      <3>2. PendingCommand(reading[o]) \in OutboxRow \ OrderEvent
        BY <3>1, PendingCommands DEF OutboxRow, InventoryCommand, OrderEvent
      <3> QED BY <1>1, <2>7, <3>1, <3>2, AppendFollows DEF ReaperRedrive, OrderEvent
    <2>8. CASE UNCHANGED outbox
      BY <1>1, <2>8, QuietOutbox
    <2>9. \/ PlaceOrder(o) \/ HandleStockReserved(o) \/ HandleSagaCancellation(o)
          \/ HandlePaymentSucceeded(o) \/ HandlePaymentFailed(o) \/ ReaperRedrive(o)
          \/ UNCHANGED outbox
      BY <2>1 DEF CustomerStep, CancelOrder, ReleaseAfterCancel, ConfirmOrder,
         RelayStep, RelayPublish, RelayMark, RelayRestart, InventoryStep, ReserveEffect,
         ReleaseEffect, ReplyToCommand, InventoryRestart, DeadLetterCommand, PaymentStep,
         StartCharge, RepeatPaymentReply, IgnoreCharge, DeadLetterCharge, FinishCharge,
         FailCharge, ReplyStep, IgnoreStockReply, DeadLetterStockReply, IgnorePaymentReply,
         DeadLetterPaymentReply, ReaperStep, ReaperRead, ReaperSkip, ReplaySaga
    <2> QED BY <2>2, <2>3, <2>4, <2>5, <2>6, <2>7, <2>8, <2>9
  <1>2. SagaInv /\ [Next]_vars => [\A o \in Orders : RowFollowsSaga(o)]_vars
    BY <1>1
  <1> QED BY <1>2, SagaInvariant, PTL DEF Spec, CommandsFollowSaga

\* A step that decides no order by hand shows the contract the same set of
\* orders decided by hand.
LEMMA SameHands ==
  ASSUME \/ UNCHANGED manual
         \/ \E o \in Orders : TypeOK /\ ReleaseAfterCancel(o)
  PROVE  UNCHANGED ByHand
  <1>1. \A p \in Orders : manual'[p] # "NO" <=> manual[p] # "NO"
    BY DEF ReleaseAfterCancel, TypeOK, OrderTypeOK
  <1> QED BY <1>1 DEF ByHand

\* Every step of the system is a step of the customer's contract or invisible
\* to it.
THEOREM ImplementsContract == Spec => KeepsContract
  <1>1. Init => Contract!Init
    BY DEF Init, Contract!Init, Payment, ChargeOutcome, ByHand
  <1>2. ASSUME SagaInv, NEW o \in Orders, PlaceOrder(o) PROVE Contract!Place(o)
    <2>1. UNCHANGED ByHand
      BY <1>2, SameHands DEF PlaceOrder
    <2> QED BY <1>2, <2>1 DEF PlaceOrder, Contract!Place, Payment
  <1>3. ASSUME SagaInv, NEW o \in Orders, HandleStockReserved(o) PROVE Contract!Reserve(o)
    <2>1. UNCHANGED ByHand
      BY <1>3, SameHands DEF HandleStockReserved
    <2> QED BY <1>3, <2>1 DEF HandleStockReserved, MoveOrder, CanMove, Contract!Reserve, Payment
  <1>4. ASSUME SagaInv, NEW o \in Orders, FinishCharge(o) PROVE Contract!Charge(o)
    <2>1. TypeOK /\ OrderInv(o)
      BY <1>4, SagaInvByOrder
    <2>2. charge[o] = "RUNNING"
      BY <1>4 DEF FinishCharge
    <2>3. saga[o] = "STOCK_RESERVED"
      BY <2>1, <2>2 DEF OrderInv, ChargeFits, NoCharge, TypeOK, OrderTypeOK
    <2>4. order[o] = "RESERVED" \/ o \in ByHand
      BY <2>1, <2>3 DEF OrderInv, AgreesWithOrder, StatusFits, ByHand
    <2>5. PICK outcome \in ChargeOutcome : charge' = [charge EXCEPT ![o] = outcome]
      BY <1>4 DEF FinishCharge
    <2>6. Payment' = [Payment EXCEPT ![o] = outcome] /\ Payment[o] = "OPEN"
      BY <2>1, <2>2, <2>5 DEF Payment, ChargeOutcome, TypeOK, PaymentTypeOK
    <2>7. UNCHANGED ByHand
      BY <1>4, SameHands DEF FinishCharge
    <2> QED BY <1>4, <2>4, <2>5, <2>6, <2>7 DEF FinishCharge, Contract!Charge, ChargeOutcome
  <1>5. ASSUME SagaInv, NEW o \in Orders, HandlePaymentSucceeded(o) PROVE Contract!Confirm(o)
    <2>1. TypeOK /\ OrderInv(o)
      BY <1>5, SagaInvByOrder
    <2>2. charge[o] = "SUCCEEDED"
      BY <1>5, <2>1, ReplyIsRow DEF HandlePaymentSucceeded, FreshPaymentReply, OrderInv,
         ChargeFits
    <2>3. UNCHANGED ByHand
      BY <1>5, SameHands DEF HandlePaymentSucceeded
    <2> QED BY <1>5, <2>2, <2>3 DEF HandlePaymentSucceeded, MoveOrder, CanMove,
               Contract!Confirm, Payment, ChargeOutcome
  <1>6. ASSUME SagaInv, NEW o \in Orders, HandleSagaCancellation(o) PROVE Contract!Cancel(o)
    <2>1. TypeOK /\ OrderInv(o)
      BY <1>6, SagaInvByOrder
    <2>2. saga[o] \in {"STARTED", "COMPENSATING"}
      BY <1>6, AwaitedStates DEF HandleSagaCancellation, FreshStockReply
    <2>3. \/ order[o] = "PENDING" /\ charge[o] = "NONE"
          \/ order[o] = "RESERVED" /\ charge[o] = "DECLINED"
      BY <1>6, <2>1, <2>2 DEF HandleSagaCancellation, MoveOrder, CanMove, OrderInv, StatusFits,
         ChargeFits, NoCharge
    <2>4. UNCHANGED ByHand
      BY <1>6, SameHands DEF HandleSagaCancellation
    <2> QED BY <1>6, <2>3, <2>4 DEF HandleSagaCancellation, MoveOrder, Contract!Cancel,
               Payment, ChargeOutcome
  <1>7. ASSUME SagaInv, NEW o \in Orders, CancelOrder(o) \/ ConfirmOrder(o)
        PROVE  Contract!DecideByHand(o)
    <2>1. manual \in [Orders -> Manual]
      BY <1>7 DEF SagaInv, TypeOK, OrderTypeOK
    <2>2. PICK how \in {"RELEASING", "DONE"} : manual' = [manual EXCEPT ![o] = how]
      BY <1>7 DEF CancelOrder, ConfirmOrder
    <2>3. \A p \in Orders : manual'[p] # "NO" <=> manual[p] # "NO" \/ p = o
      BY <2>1, <2>2
    <2>4. ByHand' = ByHand \cup {o}
      BY <2>3 DEF ByHand
    <2>5. Payment' = Payment
      BY <1>7 DEF CancelOrder, ConfirmOrder, Payment
    <2> QED BY <1>7, <2>4, <2>5 DEF CancelOrder, ConfirmOrder, CanMove, Contract!DecideByHand
  <1>8. ASSUME SagaInv, NEW o \in Orders, StartCharge(o) \/ FailCharge(o)
        PROVE  UNCHANGED Contract!vars
    <2>1. Payment' = Payment
      BY <1>8 DEF StartCharge, FailCharge, Payment, ChargeOutcome, SagaInv, TypeOK,
         PaymentTypeOK
    <2>2. UNCHANGED ByHand
      BY <1>8, SameHands DEF StartCharge, FailCharge
    <2> QED BY <1>8, <2>1, <2>2 DEF StartCharge, FailCharge, Contract!vars
  <1>9. ASSUME SagaInv, NEW o \in Orders, ReleaseAfterCancel(o) PROVE UNCHANGED Contract!vars
    <2>1. UNCHANGED ByHand
      BY <1>9, SameHands DEF SagaInv
    <2> QED BY <1>9, <2>1 DEF ReleaseAfterCancel, Contract!vars, Payment
  <1>10. ASSUME UNCHANGED <<order, charge, manual>> PROVE UNCHANGED Contract!vars
    BY <1>10 DEF Contract!vars, Payment, ByHand
  <1>11. SagaInv /\ [Next]_vars => [Contract!Next]_(Contract!vars)
    <2> SUFFICES ASSUME SagaInv, [Next]_vars PROVE [Contract!Next]_(Contract!vars)
      OBVIOUS
    <2>1. CASE UNCHANGED vars
      BY <2>1, <1>10 DEF vars
    <2>2. ASSUME NEW o \in Orders,
            \/ CustomerStep(o) \/ RelayStep(o) \/ InventoryStep(o)
            \/ PaymentStep(o) \/ ReplyStep(o) \/ ReaperStep(o)
          PROVE  [Contract!Next]_(Contract!vars)
      <3>1. \/ PlaceOrder(o) \/ HandleStockReserved(o) \/ FinishCharge(o)
            \/ HandlePaymentSucceeded(o) \/ HandleSagaCancellation(o)
            \/ CancelOrder(o) \/ ConfirmOrder(o) \/ ReleaseAfterCancel(o)
            \/ StartCharge(o) \/ FailCharge(o) \/ UNCHANGED <<order, charge, manual>>
        BY <2>2 DEF CustomerStep,
           RelayStep, RelayPublish, RelayMark, RelayRestart, InventoryStep, ReserveEffect,
           ReleaseEffect, ReplyToCommand, InventoryRestart, DeadLetterCommand, PaymentStep,
           RepeatPaymentReply, IgnoreCharge, DeadLetterCharge, ReplyStep, IgnoreStockReply,
           DeadLetterStockReply, IgnorePaymentReply, HandlePaymentFailed,
           DeadLetterPaymentReply, ReaperStep, ReaperRead, ReaperRedrive, ReaperSkip,
           ReplaySaga
      <3> QED BY <3>1, <1>2, <1>3, <1>4, <1>5, <1>6, <1>7, <1>8, <1>9, <1>10
              DEF Contract!Next
    <2> QED BY <2>1, <2>2 DEF Next
  <1> QED BY <1>1, <1>11, SagaInvariant, PTL DEF Spec, KeepsContract, Contract!Spec

-----------------------------------------------------------------------------
(* The compensation releases the hold.  In the outbox all reservations come *)
(* before all releases; the relay repeats rows only up to the end of what   *)
(* it has; so the partition ends in a release, or one is yet to come, and   *)
(* what inventory handles last is a release.                                *)

\* The saga never asks for a reservation again once it has asked for a release.
ReservesFirst(o) ==
  \A i, j \in DOMAIN outbox[o] :
    outbox[o][i] = "ReserveStock" /\ outbox[o][j] = "ReleaseStock" => i < j

\* However often rows are repeated, a release is the last command of the
\* partition or still to be published.
ReleaseIsAhead(o) ==
  "ReleaseStock" \in Rows(outbox[o]) =>
    \/ \E i \in DOMAIN outbox[o] : i > relayed[o] /\ outbox[o][i] = "ReleaseStock"
    \/ commands[o] # <<>> /\ outbox[o][LastRow(commands[o])] = "ReleaseStock"

\* What a release has freed is held again only by a reservation behind it.
ReleaseTakesEffect(o) ==
  /\ commandOffset[o] <= Len(commands[o])
  /\ effect[o] # "NONE" /\ Command(o) = "ReleaseStock" => ~held[o]
  /\ /\ held[o] /\ commandOffset[o] > 0
     /\ outbox[o][commands[o][commandOffset[o]]] = "ReleaseStock"
     /\ "inventory.commands" \notin deadLetters[o]
     => HasCommand(o) /\ Command(o) = "ReserveStock"

CompensationFits(o) == ReservesFirst(o) /\ ReleaseIsAhead(o) /\ ReleaseTakesEffect(o)

CompensationInv == \A o \in Orders : CompensationFits(o)

\* The rows of an order and the commands made of them.
LEMMA PartitionFacts ==
  ASSUME SagaInv, NEW o \in Orders
  PROVE  /\ outbox[o] \in Seq(OutboxRow) /\ commands[o] \in Seq(Nat \ {0})
         /\ relayed[o] \in Nat /\ relayed[o] <= Len(outbox[o]) /\ commandOffset[o] \in Nat
         /\ held[o] \in BOOLEAN
         /\ Len(outbox[o]) \in Nat /\ Len(commands[o]) \in Nat
         /\ DOMAIN outbox[o] = 1 .. Len(outbox[o])
         /\ DOMAIN commands[o] = 1 .. Len(commands[o])
         /\ \A i \in DOMAIN commands[o] : commands[o][i] \in DOMAIN outbox[o]
         /\ effect[o] # "NONE" => HasCommand(o)
  <1>1. TypeOK /\ CommandsFit(o)
    BY SagaInvByOrder DEF OrderInv
  <1>2. /\ outbox[o] \in Seq(OutboxRow) /\ commands[o] \in Seq(Nat \ {0})
        /\ relayed[o] \in Nat /\ relayed[o] <= Len(outbox[o]) /\ commandOffset[o] \in Nat
        /\ held[o] \in BOOLEAN
    BY <1>1 DEF TypeOK, OrderTypeOK, RelayTypeOK, CommandTypeOK, ConsumerTypeOK, InventoryTypeOK
  <1> QED BY <1>1, <1>2 DEF CommandsFit, Rows

-----------------------------------------------------------------------------
(* Steps that neither append nor publish nor handle a command.             *)

StaysCalm(o) ==
  /\ outbox'[o] = outbox[o] /\ commands'[o] = commands[o]
  /\ relayed'[o] <= relayed[o] /\ relayed'[o] \in Nat
  /\ commandOffset'[o] = commandOffset[o]
  /\ effect'[o] \in {effect[o], "NONE"}
  /\ held'[o] => held[o]
  /\ deadLetters[o] \subseteq deadLetters'[o]

\* A repeated row, a lost effect or a release by hand only helps.
LEMMA CalmKeeps ==
  ASSUME SagaInv, NEW o \in Orders, CompensationFits(o), StaysCalm(o)
  PROVE  CompensationFits(o)'
  <1> USE DEF StaysCalm
  <1>1. ReservesFirst(o)'
    BY DEF CompensationFits, ReservesFirst
  <1>2. ReleaseIsAhead(o)'
    <2>1. \A i \in DOMAIN outbox[o] : i > relayed[o] => i > relayed'[o]
      BY PartitionFacts
    <2> QED BY <2>1 DEF CompensationFits, ReleaseIsAhead, Rows, LastRow
  <1>3. ReleaseTakesEffect(o)'
    BY DEF CompensationFits, ReleaseTakesEffect, HasCommand, Command, CommandId
  <1> QED BY <1>1, <1>2, <1>3 DEF CompensationFits

\* A row that enters the outbox: a release is ahead of the relay, and a
\* reservation enters only while no release was asked for.
LEMMA AppendKeepsCompensation ==
  ASSUME SagaInv, SagaInv', NEW o \in Orders, CompensationFits(o),
         NEW row \in OutboxRow, AppendRow(o, row), row = "ReserveStock" => saga'[o] = "STARTED",
         UNCHANGED <<relayed, commands, commandOffset, effect, held, deadLetters>>
  PROVE  CompensationFits(o)'
  <1> DEFINE n == Len(outbox[o])
  <1>1. /\ outbox'[o] = Append(outbox[o], row) /\ n \in Nat
        /\ DOMAIN outbox[o] = 1 .. n /\ DOMAIN outbox'[o] = 1 .. n + 1
        /\ \A i \in 1 .. n : outbox'[o][i] = outbox[o][i]
        /\ outbox'[o][n + 1] = row
        /\ Rows(outbox'[o]) = Rows(outbox[o]) \cup {row}
    BY SagaInvByOrder, AppendedRow, AppendFacts
  <1>2. row = "ReserveStock" => "ReleaseStock" \notin Rows(outbox'[o])
    BY DEF SagaInv, HoldFits
  <1>3. ReservesFirst(o)'
    <2> SUFFICES ASSUME NEW i \in 1 .. n + 1, NEW j \in 1 .. n + 1,
                        outbox'[o][i] = "ReserveStock", outbox'[o][j] = "ReleaseStock"
                 PROVE  i < j
      BY <1>1 DEF ReservesFirst
    <2>1. row # "ReserveStock"
      BY <1>1, <1>2 DEF Rows
    <2>2. i \in 1 .. n
      BY <1>1, <2>1
    <2>3. CASE j = n + 1
      BY <1>1, <2>2, <2>3
    <2>4. CASE j \in 1 .. n
      BY <1>1, <2>2, <2>4 DEF CompensationFits, ReservesFirst
    <2> QED BY <1>1, <2>3, <2>4
  <1>4. ReleaseIsAhead(o)'
    <2>1. CASE row = "ReleaseStock"
      <3>1. n + 1 > relayed[o] /\ n + 1 \in DOMAIN outbox'[o]
        BY <1>1, PartitionFacts
      <3> QED BY <1>1, <2>1, <3>1 DEF ReleaseIsAhead
    <2>2. CASE row # "ReleaseStock" /\ "ReleaseStock" \in Rows(outbox[o])
      <3>1. CASE \E i \in DOMAIN outbox[o] : i > relayed[o] /\ outbox[o][i] = "ReleaseStock"
        BY <1>1, <3>1 DEF ReleaseIsAhead
      <3>2. CASE commands[o] # <<>> /\ outbox[o][LastRow(commands[o])] = "ReleaseStock"
        <4>1. LastRow(commands[o]) \in 1 .. n
          BY <1>1, <3>2, PartitionFacts DEF LastRow
        <4> QED BY <1>1, <3>2, <4>1 DEF ReleaseIsAhead, LastRow
      <3> QED BY <2>2, <3>1, <3>2 DEF CompensationFits, ReleaseIsAhead
    <2> QED BY <1>1, <2>1, <2>2 DEF ReleaseIsAhead
  <1>5. ReleaseTakesEffect(o)'
    <2>1. \A i \in DOMAIN commands[o] : outbox'[o][commands[o][i]] = outbox[o][commands[o][i]]
      BY <1>1, PartitionFacts
    <2>2. HasCommand(o) => Command(o)' = Command(o)
      BY <2>1, PartitionFacts DEF HasCommand, Command, CommandId
    <2>3. commandOffset[o] > 0 /\ commandOffset[o] <= Len(commands[o]) =>
            commandOffset[o] \in DOMAIN commands[o]
      BY PartitionFacts
    <2> QED BY <2>1, <2>2, <2>3, PartitionFacts
            DEF CompensationFits, ReleaseTakesEffect, HasCommand
  <1> QED BY <1>3, <1>4, <1>5 DEF CompensationFits

-----------------------------------------------------------------------------
(* The relay and inventory.                                                *)

\* The row that is published is the release that was ahead, or comes before it.
LEMMA PublishKeepsCompensation ==
  ASSUME SagaInv, NEW o \in Orders, CompensationFits(o), RelayPublish(o)
  PROVE  CompensationFits(o)'
  <1> DEFINE id == relayed[o] + 1
  <1>1. /\ outbox' = outbox /\ relayed'[o] = id /\ id \in DOMAIN outbox[o] /\ id \in Nat \ {0}
        /\ commandOffset' = commandOffset /\ effect' = effect /\ held' = held
        /\ deadLetters' = deadLetters
    BY PartitionFacts, SagaInvByOrder DEF RelayPublish, TypeOK, RelayTypeOK
  <1>2. commands'[o] = IF outbox[o][id] \in InventoryCommand THEN Append(commands[o], id) ELSE commands[o]
    BY SagaInvByOrder DEF RelayPublish, TypeOK, CommandTypeOK
  <1>3. /\ Len(commands'[o]) >= Len(commands[o]) /\ Len(commands'[o]) \in Nat
        /\ \A i \in DOMAIN commands[o] : commands'[o][i] = commands[o][i]
    BY <1>1, <1>2, PartitionFacts, AppendFacts
  <1>4. ReservesFirst(o)'
    BY <1>1 DEF CompensationFits, ReservesFirst
  <1>5. ReleaseIsAhead(o)'
    <2> SUFFICES ASSUME "ReleaseStock" \in Rows(outbox[o])
                 PROVE  \/ \E i \in DOMAIN outbox[o] : i > id /\ outbox[o][i] = "ReleaseStock"
                        \/ commands'[o] # <<>> /\ outbox[o][LastRow(commands'[o])] = "ReleaseStock"
      BY <1>1 DEF ReleaseIsAhead, Rows
    <2>1. CASE outbox[o][id] = "ReleaseStock"
      <3>1. commands'[o] = Append(commands[o], id)
        BY <1>2, <2>1 DEF InventoryCommand
      <3>2. commands'[o] # <<>> /\ LastRow(commands'[o]) = id
        <4>1. commands[o] \in Seq(Nat \ {0})
          BY PartitionFacts
        <4>2. Append(commands[o], id)[Len(Append(commands[o], id))] = id
              /\ Append(commands[o], id) # <<>>
          BY <1>1, <4>1
        <4> QED BY <3>1, <4>2 DEF LastRow
      <3> QED BY <2>1, <3>2
    <2>2. CASE outbox[o][id] = "ReserveStock"
      <3>1. PICK i \in DOMAIN outbox[o] : outbox[o][i] = "ReleaseStock"
        BY DEF Rows
      <3>2. i > id
        BY <1>1, <2>2, <3>1, PartitionFacts DEF CompensationFits, ReservesFirst
      <3> QED BY <3>1, <3>2
    <2>3. CASE outbox[o][id] \notin InventoryCommand
      <3>1. commands'[o] = commands[o]
        BY <1>2, <2>3
      <3>2. \A i \in DOMAIN outbox[o] : i > relayed[o] /\ outbox[o][i] = "ReleaseStock" => i > id
        BY <1>1, <2>3, PartitionFacts DEF InventoryCommand
      <3> QED BY <3>1, <3>2 DEF CompensationFits, ReleaseIsAhead
    <2> QED BY <2>1, <2>2, <2>3 DEF InventoryCommand
  <1>6. ReleaseTakesEffect(o)'
    <2>1. HasCommand(o) => HasCommand(o)' /\ Command(o)' = Command(o)
      <3> SUFFICES ASSUME HasCommand(o) PROVE HasCommand(o)' /\ Command(o)' = Command(o)
        OBVIOUS
      <3>1. commandOffset[o] + 1 \in DOMAIN commands[o]
        BY PartitionFacts DEF HasCommand
      <3>2. commandOffset'[o] < Len(commands'[o])
        BY <1>1, <1>3, PartitionFacts DEF HasCommand
      <3> QED BY <1>1, <1>3, <3>1, <3>2 DEF HasCommand, Command, CommandId
    <2>2. commandOffset[o] > 0 /\ commandOffset[o] <= Len(commands[o]) =>
            commands'[o][commandOffset[o]] = commands[o][commandOffset[o]]
      BY <1>3, PartitionFacts
    <2>3. commandOffset[o] <= Len(commands'[o])
      BY <1>3, PartitionFacts DEF CompensationFits, ReleaseTakesEffect
    <2> QED BY <1>1, <2>1, <2>2, <2>3, PartitionFacts DEF CompensationFits, ReleaseTakesEffect
  <1> QED BY <1>4, <1>5, <1>6 DEF CompensationFits

\* A step of inventory's consumer: the partition and what is ahead stay.
LEMMA ConsumerKeepsPartition ==
  ASSUME NEW o \in Orders, CompensationFits(o), UNCHANGED <<outbox, relayed, commands>>
  PROVE  ReservesFirst(o)' /\ ReleaseIsAhead(o)'
  BY DEF CompensationFits, ReservesFirst, ReleaseIsAhead, Rows, LastRow

\* Inventory's steps: only a reservation at the head holds stock, and a
\* release is passed only after it took effect or was dead-lettered.
LEMMA InventoryKeepsCompensation ==
  ASSUME SagaInv, NEW o \in Orders, CompensationFits(o), InventoryStep(o)
  PROVE  CompensationFits(o)'
  <1>1. TypeOK
    BY SagaInvByOrder
  <1>2. CASE ReserveEffect(o)
    <2>1. ReleaseTakesEffect(o)'
      BY <1>1, <1>2 DEF ReserveEffect, CompensationFits, ReleaseTakesEffect, HasCommand, Command,
         CommandId
    <2> QED BY <1>2, <2>1, ConsumerKeepsPartition DEF ReserveEffect, CompensationFits
  <1>3. CASE ReleaseEffect(o)
    <2>1. ~held'[o]
      BY <1>1, <1>3 DEF ReleaseEffect, TypeOK, InventoryTypeOK
    <2>2. ReleaseTakesEffect(o)'
      BY <1>3, <2>1 DEF ReleaseEffect, CompensationFits, ReleaseTakesEffect
    <2> QED BY <1>3, <2>2, ConsumerKeepsPartition DEF ReleaseEffect, CompensationFits
  <1>4. CASE ReplyToCommand(o)
    <2>1. effect'[o] = "NONE" /\ effect[o] # "NONE" /\ UNCHANGED <<outbox, commands, held, deadLetters>>
      BY <1>1, <1>4 DEF ReplyToCommand, TypeOK, InventoryTypeOK
    <2>2. HasCommand(o)
      BY <2>1, PartitionFacts
    <2>3. ASSUME commandOffset' = commandOffset PROVE ReleaseTakesEffect(o)'
      BY <2>1, <2>3 DEF CompensationFits, ReleaseTakesEffect, HasCommand, Command, CommandId
    <2>4. ASSUME commandOffset' = [commandOffset EXCEPT ![o] = @ + 1]
          PROVE  ReleaseTakesEffect(o)'
      <3>1. commandOffset'[o] = commandOffset[o] + 1
        BY <1>1, <2>4 DEF TypeOK, ConsumerTypeOK
      <3>2. outbox'[o][commands'[o][commandOffset'[o]]] = Command(o)
        BY <2>1, <3>1 DEF Command, CommandId
      <3>3. commandOffset'[o] <= Len(commands[o])
        BY <2>2, <3>1, PartitionFacts DEF HasCommand
      <3> QED BY <2>1, <3>2, <3>3 DEF CompensationFits, ReleaseTakesEffect
    <2>5. ReleaseTakesEffect(o)'
      BY <1>4, <2>3, <2>4 DEF ReplyToCommand
    <2> QED BY <1>4, <2>5, ConsumerKeepsPartition DEF ReplyToCommand, CompensationFits
  <1>5. CASE InventoryRestart(o)
    <2>1. StaysCalm(o)
      BY <1>1, <1>5, PartitionFacts DEF InventoryRestart, StaysCalm, TypeOK, InventoryTypeOK
    <2> QED BY <2>1, CalmKeeps
  <1>6. CASE DeadLetterCommand(o)
    <2>1. /\ effect'[o] = "NONE" /\ "inventory.commands" \in deadLetters'[o]
          /\ commandOffset'[o] = commandOffset[o] + 1 /\ commands' = commands
      BY <1>1, <1>6 DEF DeadLetterCommand, DeadLetter, TypeOK, InventoryTypeOK, FaultTypeOK,
         ConsumerTypeOK
    <2>2. commandOffset'[o] <= Len(commands'[o])
      BY <1>6, <2>1, PartitionFacts DEF DeadLetterCommand, HasCommand
    <2>3. ReleaseTakesEffect(o)'
      BY <2>1, <2>2 DEF ReleaseTakesEffect
    <2> QED BY <1>6, <2>3, ConsumerKeepsPartition DEF DeadLetterCommand, CompensationFits
  <1> QED BY <1>2, <1>3, <1>4, <1>5, <1>6 DEF InventoryStep

-----------------------------------------------------------------------------
(* All steps.                                                              *)

\* Every step of an order is calm for the others.
LEMMA OthersStayCalm ==
  ASSUME SagaInv, NEW o \in Orders, NEW p \in Orders \ {o},
         \/ CustomerStep(o) \/ RelayStep(o) \/ InventoryStep(o)
         \/ PaymentStep(o) \/ ReplyStep(o) \/ ReaperStep(o)
  PROVE  StaysCalm(p)
  <1>1. /\ outbox \in [Orders -> Seq(OutboxRow)] /\ commands \in [Orders -> Seq(Nat \ {0})]
        /\ relayed \in [Orders -> Nat] /\ commandOffset \in [Orders -> Nat]
        /\ effect \in [Orders -> StockReply \cup {"NONE"}] /\ held \in [Orders -> BOOLEAN]
        /\ deadLetters \in [Orders -> SUBSET Topic]
    BY SagaInvByOrder DEF TypeOK, OrderTypeOK, RelayTypeOK, CommandTypeOK, InventoryTypeOK,
       ConsumerTypeOK, FaultTypeOK
  <1>2. CASE CustomerStep(o)
    <2>1. CASE PlaceOrder(o)
      BY <1>1, <2>1 DEF PlaceOrder, AppendRow, StaysCalm
    <2>2. CASE CancelOrder(o)
      BY <1>1, <2>2 DEF CancelOrder, StaysCalm
    <2>3. CASE ReleaseAfterCancel(o)
      BY <1>1, <2>3 DEF ReleaseAfterCancel, StaysCalm
    <2>4. CASE ConfirmOrder(o)
      BY <1>1, <2>4 DEF ConfirmOrder, StaysCalm
    <2> QED BY <1>2, <2>1, <2>2, <2>3, <2>4 DEF CustomerStep
  <1>3. CASE RelayStep(o)
    <2>1. CASE RelayPublish(o)
      BY <1>1, <2>1 DEF RelayPublish, StaysCalm
    <2>2. CASE RelayMark(o)
      BY <1>1, <2>2 DEF RelayMark, StaysCalm
    <2>3. CASE RelayRestart(o)
      BY <1>1, <2>3 DEF RelayRestart, StaysCalm
    <2> QED BY <1>3, <2>1, <2>2, <2>3 DEF RelayStep
  <1>4. CASE InventoryStep(o)
    <2>1. CASE ReserveEffect(o)
      BY <1>1, <2>1 DEF ReserveEffect, StaysCalm
    <2>2. CASE ReleaseEffect(o)
      BY <1>1, <2>2 DEF ReleaseEffect, StaysCalm
    <2>3. CASE ReplyToCommand(o)
      BY <1>1, <2>3 DEF ReplyToCommand, StaysCalm
    <2>4. CASE InventoryRestart(o)
      BY <1>1, <2>4 DEF InventoryRestart, StaysCalm
    <2>5. CASE DeadLetterCommand(o)
      BY <1>1, <2>5 DEF DeadLetterCommand, DeadLetter, StaysCalm
    <2> QED BY <1>4, <2>1, <2>2, <2>3, <2>4, <2>5 DEF InventoryStep
  <1>5. CASE PaymentStep(o)
    <2>1. CASE StartCharge(o)
      BY <1>1, <2>1 DEF StartCharge, StaysCalm
    <2>2. CASE RepeatPaymentReply(o)
      BY <1>1, <2>2 DEF RepeatPaymentReply, StaysCalm
    <2>3. CASE IgnoreCharge(o)
      BY <1>1, <2>3 DEF IgnoreCharge, StaysCalm
    <2>4. CASE DeadLetterCharge(o)
      BY <1>1, <2>4 DEF DeadLetterCharge, DeadLetter, StaysCalm
    <2>5. CASE FinishCharge(o)
      BY <1>1, <2>5 DEF FinishCharge, StaysCalm
    <2>6. CASE FailCharge(o)
      BY <1>1, <2>6 DEF FailCharge, StaysCalm
    <2> QED BY <1>5, <2>1, <2>2, <2>3, <2>4, <2>5, <2>6 DEF PaymentStep
  <1>6. CASE ReplyStep(o)
    <2>1. CASE HandleStockReserved(o)
      BY <1>1, <2>1 DEF HandleStockReserved, AppendRow, SettleStockReply, StaysCalm
    <2>2. CASE HandleSagaCancellation(o)
      BY <1>1, <2>2 DEF HandleSagaCancellation, AppendRow, SettleStockReply, StaysCalm
    <2>3. CASE IgnoreStockReply(o)
      BY <1>1, <2>3 DEF IgnoreStockReply, SettleStockReply, StaysCalm
    <2>4. CASE DeadLetterStockReply(o)
      BY <1>1, <2>4 DEF DeadLetterStockReply, DeadLetter, StaysCalm
    <2>5. CASE HandlePaymentSucceeded(o)
      BY <1>1, <2>5 DEF HandlePaymentSucceeded, AppendRow, SettlePaymentReply, StaysCalm
    <2>6. CASE HandlePaymentFailed(o)
      BY <1>1, <2>6 DEF HandlePaymentFailed, AppendRow, SettlePaymentReply, StaysCalm
    <2>7. CASE IgnorePaymentReply(o)
      BY <1>1, <2>7 DEF IgnorePaymentReply, SettlePaymentReply, StaysCalm
    <2>8. CASE DeadLetterPaymentReply(o)
      BY <1>1, <2>8 DEF DeadLetterPaymentReply, DeadLetter, StaysCalm
    <2> QED BY <1>6, <2>1, <2>2, <2>3, <2>4, <2>5, <2>6, <2>7, <2>8 DEF ReplyStep
  <1>7. CASE ReaperStep(o)
    <2>1. CASE ReaperRead(o)
      BY <1>1, <2>1 DEF ReaperRead, StaysCalm
    <2>2. CASE ReaperRedrive(o)
      BY <1>1, <2>2 DEF ReaperRedrive, AppendRow, StaysCalm
    <2>3. CASE ReaperSkip(o)
      BY <1>1, <2>3 DEF ReaperSkip, StaysCalm
    <2>4. CASE ReplaySaga(o)
      BY <1>1, <2>4 DEF ReplaySaga, StaysCalm
    <2> QED BY <1>7, <2>1, <2>2, <2>3, <2>4 DEF ReaperStep
  <1> QED BY <1>2, <1>3, <1>4, <1>5, <1>6, <1>7

\* Steps of an order that append no row and are neither the relay's publication
\* nor inventory's.
LEMMA CalmSteps ==
  ASSUME SagaInv, NEW o \in Orders,
         \/ CancelOrder(o) \/ ReleaseAfterCancel(o) \/ ConfirmOrder(o)
         \/ RelayMark(o) \/ RelayRestart(o) \/ PaymentStep(o)
         \/ IgnoreStockReply(o) \/ DeadLetterStockReply(o)
         \/ IgnorePaymentReply(o) \/ DeadLetterPaymentReply(o)
         \/ ReaperRead(o) \/ ReaperSkip(o) \/ ReplaySaga(o)
  PROVE  StaysCalm(o)
  <1>1. TypeOK
    BY SagaInvByOrder
  <1> USE <1>1, PartitionFacts DEF StaysCalm, TypeOK, OrderTypeOK, RelayTypeOK, CommandTypeOK,
      InventoryTypeOK, ConsumerTypeOK, FaultTypeOK
  <1>2. CASE CancelOrder(o) \/ ReleaseAfterCancel(o) \/ ConfirmOrder(o)
    BY <1>2 DEF CancelOrder, ReleaseAfterCancel, ConfirmOrder
  <1>3. CASE RelayMark(o) \/ RelayRestart(o)
    BY <1>3 DEF RelayMark, RelayRestart
  <1>4. CASE PaymentStep(o)
    BY <1>4 DEF PaymentStep, StartCharge, RepeatPaymentReply, IgnoreCharge, DeadLetterCharge,
       FinishCharge, FailCharge, DeadLetter
  <1>5. CASE IgnoreStockReply(o) \/ DeadLetterStockReply(o)
    BY <1>5 DEF IgnoreStockReply, DeadLetterStockReply, SettleStockReply, DeadLetter
  <1>6. CASE IgnorePaymentReply(o) \/ DeadLetterPaymentReply(o)
    BY <1>6 DEF IgnorePaymentReply, DeadLetterPaymentReply, SettlePaymentReply, DeadLetter
  <1>7. CASE ReaperRead(o) \/ ReaperSkip(o) \/ ReplaySaga(o)
    BY <1>7 DEF ReaperRead, ReaperSkip, ReplaySaga
  <1> QED BY <1>2, <1>3, <1>4, <1>5, <1>6, <1>7

\* Steps that append a row.
LEMMA AppendingSteps ==
  ASSUME SagaInv, SagaInv', NEW o \in Orders, CompensationFits(o),
         \/ PlaceOrder(o) \/ HandleStockReserved(o) \/ HandleSagaCancellation(o)
         \/ HandlePaymentSucceeded(o) \/ HandlePaymentFailed(o) \/ ReaperRedrive(o)
  PROVE  CompensationFits(o)'
  <1>1. TypeOK
    BY SagaInvByOrder
  <1> USE DEF OutboxRow, InventoryCommand, OrderEvent
  <1>2. CASE PlaceOrder(o)
    <2>1. saga'[o] = "STARTED"
      BY <1>1, <1>2 DEF PlaceOrder, TypeOK, OrderTypeOK
    <2> QED BY <1>2, <2>1, AppendKeepsCompensation DEF PlaceOrder
  <1>3. CASE HandleStockReserved(o)
    BY <1>3, AppendKeepsCompensation DEF HandleStockReserved, SettleStockReply
  <1>4. CASE HandleSagaCancellation(o)
    BY <1>4, AppendKeepsCompensation DEF HandleSagaCancellation, SettleStockReply
  <1>5. CASE HandlePaymentSucceeded(o)
    BY <1>5, AppendKeepsCompensation DEF HandlePaymentSucceeded, SettlePaymentReply
  <1>6. CASE HandlePaymentFailed(o)
    BY <1>6, AppendKeepsCompensation DEF HandlePaymentFailed, SettlePaymentReply
  <1>7. CASE ReaperRedrive(o)
    <2>1. saga'[o] = reading[o] /\ reading[o] \in NonTerminal
      BY <1>1, <1>7 DEF ReaperRedrive, StateUnchanged, TypeOK, OrderTypeOK
    <2>2. /\ PendingCommand(reading[o]) \in OutboxRow
          /\ PendingCommand(reading[o]) = "ReserveStock" => saga'[o] = "STARTED"
      BY <2>1, PendingCommands
    <2> QED BY <1>7, <2>2, AppendKeepsCompensation DEF ReaperRedrive
  <1> QED BY <1>2, <1>3, <1>4, <1>5, <1>6, <1>7

\* Before any order there is nothing to compensate.
LEMMA InitCompensation == Init => CompensationInv
  <1> SUFFICES ASSUME Init, NEW o \in Orders PROVE CompensationFits(o)
    BY DEF CompensationInv
  <1> QED BY RowsOfEmpty
          DEF Init, CompensationFits, ReservesFirst, ReleaseIsAhead, ReleaseTakesEffect

\* Every step keeps the order of commands and the effect of a release.
LEMMA StepCompensation ==
  SagaInv /\ SagaInv' /\ CompensationInv /\ [Next]_vars => CompensationInv'
  <1> SUFFICES ASSUME SagaInv, SagaInv', CompensationInv, [Next]_vars, NEW p \in Orders
               PROVE  CompensationFits(p)'
    BY DEF CompensationInv
  <1>1. CompensationFits(p)
    BY DEF CompensationInv
  <1>2. CASE UNCHANGED vars
    <2>1. StaysCalm(p)
      BY <1>2, PartitionFacts DEF StaysCalm, vars
    <2> QED BY <1>1, <2>1, CalmKeeps
  <1>3. CASE Next
    <2>1. PICK o \in Orders :
            \/ CustomerStep(o) \/ RelayStep(o) \/ InventoryStep(o)
            \/ PaymentStep(o) \/ ReplyStep(o) \/ ReaperStep(o)
      BY <1>3 DEF Next
    <2>2. CASE p # o
      BY <1>1, <2>1, <2>2, OthersStayCalm, CalmKeeps
    <2>3. CASE p = o
      BY <1>1, <2>1, <2>3, CalmSteps, CalmKeeps, AppendingSteps, PublishKeepsCompensation,
         InventoryKeepsCompensation DEF CustomerStep, RelayStep, ReplyStep, ReaperStep
    <2> QED BY <2>2, <2>3
  <1> QED BY <1>2, <1>3

\* Once a compensation was ordered and everything is handled, no stock stays held.
THEOREM CompensationIsComplete == Spec => []CompensationReleasesHold
  <1>1. SagaInv /\ CompensationInv => CompensationReleasesHold
    <2> SUFFICES ASSUME SagaInv, CompensationInv, NEW o \in Orders,
                        "ReleaseStock" \in Rows(outbox[o]), Drained(o), deadLetters[o] = {}, held[o]
                 PROVE  FALSE
      BY DEF CompensationReleasesHold
    <2>1. CompensationFits(o)
      BY DEF CompensationInv
    <2>2. commands[o] # <<>> /\ outbox[o][LastRow(commands[o])] = "ReleaseStock"
      BY <2>1, PartitionFacts DEF CompensationFits, ReleaseIsAhead, Drained
    <2>3. commandOffset[o] > 0 /\ commandOffset[o] = Len(commands[o])
      BY <2>2, PartitionFacts DEF Drained
    <2>4. HasCommand(o)
      BY <2>1, <2>2, <2>3 DEF CompensationFits, ReleaseTakesEffect, LastRow
    <2> QED BY <2>3, <2>4, PartitionFacts DEF HasCommand
  <1> QED BY <1>1, InitCompensation, StepCompensation, SagaInvariant, PTL DEF Spec
=============================================================================
