----------------------------- MODULE OrderSaga -----------------------------
(***************************************************************************)
(* The order saga: apps/order drives every order through reserve -> charge *)
(* -> confirm, with compensation, by commands and replies that travel      *)
(* through a transactional outbox and Kafka; apps/inventory and            *)
(* apps/payment take part as consumers; the saga reaper re-drives stranded *)
(* sagas; customers and restaurants may cancel or confirm by hand.         *)
(*                                                                         *)
(* Every table row and topic partition below is per order: Kafka keys by   *)
(* aggregate id, so one order's messages stay in one partition, in order.  *)
(* Time is abstracted: a timeout may pass at any moment.                   *)
(*                                                                         *)
(* A disturbance is a crash, a redelivery, a dead letter caused by an      *)
(* outage, or an operator's replay.  MaxDisturbances bounds how many one   *)
(* behaviour contains.                                                     *)
(***************************************************************************)
EXTENDS Integers, Sequences

CONSTANTS
  Orders,           \* ids of the orders customers may place
  MaxAttempts,      \* SAGA_RECONCILER_MAX_ATTEMPTS
  MaxDisturbances,  \* bound on the faults of one behaviour
  ManualCancel,     \* is POST /orders/:id/cancel used?
  ManualConfirm     \* is POST /orders/:id/confirm used?

ASSUME MaxAttemptsAssumption == MaxAttempts \in Nat
ASSUME MaxDisturbancesAssumption == MaxDisturbances \in Nat
ASSUME ManualAssumption == ManualCancel \in BOOLEAN /\ ManualConfirm \in BOOLEAN

VARIABLES
  order,          \* orders.status, "NONE" before the order exists
  saga,           \* order_saga.state, "NONE" before the saga exists
  attempts,       \* order_saga.attempts
  reading,        \* the state the reaper read before it decides, or "IDLE"
  outbox,         \* event types of the rows ever appended to order_outbox
  relayed,        \* rows the running drain has handed to Kafka
  marked,         \* rows with published_at set
  manual,         \* was the order changed by hand, and is the gRPC release still due?
  commands,       \* inventory.commands: outbox row ids, in partition order
  commandOffset,  \* committed offset of inventory's consumer
  charges,        \* payment.commands: unconsumed ChargePayment messages
  stockReplies,   \* inventory.replies: event types, in partition order
  stockOffset,    \* committed offset of order's inventory-reply consumer
  paymentReplies, \* payment.replies: event types, in partition order
  paymentOffset,  \* committed offset of order's payment-reply consumer
  orderSeen,      \* processed_events of order: <<topic, offset>> of a reply
  held,           \* does the order have ACTIVE reservations in inventory?
  effect,         \* reply to a command whose effect is committed, or "NONE"
  inventorySeen,  \* processed_events of inventory: outbox row ids
  charge,         \* the Temporal workflow charge-<order>
  deadLetters,    \* topics of which a message was dead-lettered
  disturbances

orderVars == <<order, saga, attempts, reading, outbox, orderSeen, manual>>
relayVars == <<relayed, marked>>
inventoryVars == <<held, effect, inventorySeen, stockReplies>>
paymentVars == <<charge, paymentReplies>>
consumerVars == <<commandOffset, stockOffset, paymentOffset>>
faultVars == <<deadLetters, disturbances>>
vars == <<orderVars, relayVars, inventoryVars, paymentVars, consumerVars,
          faultVars, commands, charges>>

Manual == {"NO", "RELEASING", "DONE"}
OrderStatus == {"PENDING", "RESERVED", "CONFIRMED", "CANCELLED"}
NonTerminal == {"STARTED", "STOCK_RESERVED", "COMPENSATING"}
SagaState == NonTerminal \cup {"COMPLETED", "CANCELLED"}
StockReply == {"StockReserved", "StockReservationFailed", "StockReleased"}
PaymentReply == {"PaymentSucceeded", "PaymentFailed"}
InventoryCommand == {"ReserveStock", "ReleaseStock"}
OrderEvent == {"OrderConfirmed", "OrderCancelled"}
OutboxRow == InventoryCommand \cup {"ChargePayment"} \cup OrderEvent
Topic == {"inventory.commands", "payment.commands", "inventory.replies",
          "payment.replies"}

Rows(s) == {s[i] : i \in DOMAIN s}

Init ==
  /\ order = [o \in Orders |-> "NONE"]
  /\ saga = [o \in Orders |-> "NONE"]
  /\ attempts = [o \in Orders |-> 0]
  /\ reading = [o \in Orders |-> "IDLE"]
  /\ outbox = [o \in Orders |-> <<>>]
  /\ relayed = [o \in Orders |-> 0]
  /\ marked = [o \in Orders |-> 0]
  /\ manual = [o \in Orders |-> "NO"]
  /\ commands = [o \in Orders |-> <<>>]
  /\ commandOffset = [o \in Orders |-> 0]
  /\ charges = [o \in Orders |-> 0]
  /\ stockReplies = [o \in Orders |-> <<>>]
  /\ stockOffset = [o \in Orders |-> 0]
  /\ paymentReplies = [o \in Orders |-> <<>>]
  /\ paymentOffset = [o \in Orders |-> 0]
  /\ orderSeen = [o \in Orders |-> {}]
  /\ held = [o \in Orders |-> FALSE]
  /\ effect = [o \in Orders |-> "NONE"]
  /\ inventorySeen = [o \in Orders |-> {}]
  /\ charge = [o \in Orders |-> "NONE"]
  /\ deadLetters = [o \in Orders |-> {}]
  /\ disturbances = 0

Disturb ==
  /\ disturbances < MaxDisturbances
  /\ disturbances' = disturbances + 1

DeadLetter(o, topic) ==
  deadLetters' = [deadLetters EXCEPT ![o] = @ \cup {topic}]

AppendRow(o, row) == outbox' = [outbox EXCEPT ![o] = Append(@, row)]

\* Mutant: a confirmed order can still be cancelled.
LaxCanMove(status, next) ==
  \/ status = "PENDING" /\ next \in {"RESERVED", "CANCELLED"}
  \/ status = "RESERVED" /\ next \in {"CONFIRMED", "CANCELLED"}
  \/ status = "CONFIRMED" /\ next = "CANCELLED"

\* Order's ALLOWED_TRANSITIONS: what order.reserve(), confirm(), cancel() accept.
CanMove(status, next) ==
  \/ status = "PENDING" /\ next \in {"RESERVED", "CANCELLED"}
  \/ status = "RESERVED" /\ next \in {"CONFIRMED", "CANCELLED"}

-----------------------------------------------------------------------------
(* Placing an order, and the two manual endpoints.                         *)

\* One transaction: order PENDING, saga STARTED, ReserveStock in the outbox.
PlaceOrder(o) ==
  /\ order[o] = "NONE"
  /\ order' = [order EXCEPT ![o] = "PENDING"]
  /\ saga' = [saga EXCEPT ![o] = "STARTED"]
  /\ AppendRow(o, "ReserveStock")
  /\ UNCHANGED <<attempts, reading, orderSeen, manual, relayVars, inventoryVars,
                 paymentVars, consumerVars, faultVars, commands, charges>>

\* The order row moves by itself; the saga row and the outbox are not touched.
CancelOrder(o) ==
  /\ ManualCancel
  /\ CanMove(order[o], "CANCELLED")
  /\ order' = [order EXCEPT ![o] = "CANCELLED"]
  /\ manual' = [manual EXCEPT ![o] = "RELEASING"]
  /\ UNCHANGED <<saga, attempts, reading, outbox, orderSeen, relayVars, inventoryVars,
                 paymentVars, consumerVars, faultVars, commands, charges>>

\* The gRPC call after the cancellation; a failure is logged and forgotten.
ReleaseAfterCancel(o) ==
  /\ manual[o] = "RELEASING"
  /\ manual' = [manual EXCEPT ![o] = "DONE"]
  /\ \/ held' = [held EXCEPT ![o] = FALSE] /\ UNCHANGED disturbances
     \/ Disturb /\ UNCHANGED held
  /\ UNCHANGED <<order, saga, attempts, reading, outbox, orderSeen, relayVars, effect,
                 inventorySeen, stockReplies, paymentVars, consumerVars, deadLetters,
                 commands, charges>>

ConfirmOrder(o) ==
  /\ ManualConfirm
  /\ CanMove(order[o], "CONFIRMED")
  /\ order' = [order EXCEPT ![o] = "CONFIRMED"]
  /\ manual' = [manual EXCEPT ![o] = "DONE"]
  /\ UNCHANGED <<saga, attempts, reading, outbox, orderSeen, relayVars, inventoryVars,
                 paymentVars, consumerVars, faultVars, commands, charges>>

-----------------------------------------------------------------------------
(* The outbox relay: fetch rows in order, produce them, mark them.         *)

RelayPublish(o) ==
  /\ relayed[o] < Len(outbox[o])
  /\ relayed' = [relayed EXCEPT ![o] = @ + 1]
  /\ LET id == relayed[o] + 1
         row == outbox[o][id]
     IN  /\ commands' = IF row \in InventoryCommand
                        THEN [commands EXCEPT ![o] = Append(@, id)] ELSE commands
         /\ charges' = IF row = "ChargePayment"
                       THEN [charges EXCEPT ![o] = @ + 1] ELSE charges
  /\ UNCHANGED <<orderVars, marked, inventoryVars, paymentVars, consumerVars, faultVars>>

RelayMark(o) ==
  /\ marked[o] < relayed[o]
  /\ marked' = [marked EXCEPT ![o] = relayed[o]]
  /\ UNCHANGED <<orderVars, relayed, inventoryVars, paymentVars, consumerVars, faultVars,
                 commands, charges>>

\* The relay dies, or the publish or the update fails, after some rows are in
\* Kafka: the next drain produces every unmarked row again.
RelayRestart(o) ==
  /\ marked[o] < relayed[o]
  /\ Disturb
  /\ relayed' = [relayed EXCEPT ![o] = marked[o]]
  /\ UNCHANGED <<orderVars, marked, inventoryVars, paymentVars, consumerVars, deadLetters,
                 commands, charges>>

-----------------------------------------------------------------------------
(* Inventory's command consumer: the effect commits first, the reply in a  *)
(* second transaction guarded by processed_events, the offset last.        *)

HasCommand(o) == commandOffset[o] < Len(commands[o])
CommandId(o) == commands[o][commandOffset[o] + 1]
Command(o) == outbox[o][CommandId(o)]

\* A replay of a held order succeeds; else stock may suffice or not.
ReserveEffect(o) ==
  /\ effect[o] = "NONE" /\ HasCommand(o) /\ Command(o) = "ReserveStock"
  /\ \/ /\ held' = [held EXCEPT ![o] = TRUE]
        /\ effect' = [effect EXCEPT ![o] = "StockReserved"]
     \/ /\ ~held[o]
        /\ effect' = [effect EXCEPT ![o] = "StockReservationFailed"]
        /\ UNCHANGED held
  /\ UNCHANGED <<orderVars, relayVars, inventorySeen, stockReplies, paymentVars,
                 consumerVars, faultVars, commands, charges>>

ReleaseEffect(o) ==
  /\ effect[o] = "NONE" /\ HasCommand(o) /\ Command(o) = "ReleaseStock"
  /\ held' = [held EXCEPT ![o] = FALSE]
  /\ effect' = [effect EXCEPT ![o] = "StockReleased"]
  /\ UNCHANGED <<orderVars, relayVars, inventorySeen, stockReplies, paymentVars,
                 consumerVars, faultVars, commands, charges>>

\* The reply is appended once per command id; then the offset is committed,
\* unless the consumer dies first and the command is redelivered.
ReplyToCommand(o) ==
  /\ effect[o] # "NONE"
  /\ stockReplies' = IF CommandId(o) \in inventorySeen[o] THEN stockReplies
                     ELSE [stockReplies EXCEPT ![o] = Append(@, effect[o])]
  /\ inventorySeen' = [inventorySeen EXCEPT ![o] = @ \cup {CommandId(o)}]
  /\ effect' = [effect EXCEPT ![o] = "NONE"]
  /\ \/ /\ commandOffset' = [commandOffset EXCEPT ![o] = @ + 1]
        /\ UNCHANGED disturbances
     \/ Disturb /\ UNCHANGED commandOffset
  /\ UNCHANGED <<orderVars, relayVars, held, paymentVars, stockOffset, paymentOffset,
                 deadLetters, commands, charges>>

\* A crash between the effect and the reply: the command will be redelivered.
InventoryRestart(o) ==
  /\ effect[o] # "NONE"
  /\ Disturb
  /\ effect' = [effect EXCEPT ![o] = "NONE"]
  /\ UNCHANGED <<orderVars, relayVars, held, inventorySeen, stockReplies, paymentVars,
                 consumerVars, deadLetters, commands, charges>>

\* Three failed attempts (lock contention, database down), before or after
\* the effect committed.
DeadLetterCommand(o) ==
  /\ HasCommand(o)
  /\ Disturb
  /\ DeadLetter(o, "inventory.commands")
  /\ effect' = [effect EXCEPT ![o] = "NONE"]
  /\ commandOffset' = [commandOffset EXCEPT ![o] = @ + 1]
  /\ UNCHANGED <<orderVars, relayVars, held, inventorySeen, stockReplies, paymentVars,
                 stockOffset, paymentOffset, commands, charges>>

-----------------------------------------------------------------------------
(* Payment: the command consumer starts one Temporal workflow per order;   *)
(* a command that finds it COMPLETED makes payment reply once more.        *)

ChargeOutcome == {"SUCCEEDED", "DECLINED"}
ChargeState == {"NONE", "RUNNING", "FAILED"} \cup ChargeOutcome

\* Mutant: the two replies are swapped.
SwappedReplyFor(outcome) ==
  IF outcome = "SUCCEEDED" THEN "PaymentFailed" ELSE "PaymentSucceeded"

ReplyFor(outcome) ==
  IF outcome = "SUCCEEDED" THEN "PaymentSucceeded" ELSE "PaymentFailed"

AppendPaymentReply(o, reply) ==
  paymentReplies' = [paymentReplies EXCEPT ![o] = Append(@, reply)]

\* The offset is committed, or the consumer dies first and the command is
\* redelivered.
SettleCharge(o) ==
  /\ charges[o] > 0
  /\ \/ charges' = [charges EXCEPT ![o] = @ - 1] /\ UNCHANGED disturbances
     \/ Disturb /\ UNCHANGED charges

StartCharge(o) ==
  /\ charge[o] = "NONE"
  /\ SettleCharge(o)
  /\ charge' = [charge EXCEPT ![o] = "RUNNING"]
  /\ UNCHANGED <<orderVars, relayVars, inventoryVars, paymentReplies, consumerVars,
                 deadLetters, commands>>

RepeatPaymentReply(o) ==
  /\ charge[o] \in ChargeOutcome
  /\ SettleCharge(o)
  /\ AppendPaymentReply(o, ReplyFor(charge[o]))
  /\ UNCHANGED <<orderVars, relayVars, inventoryVars, charge, consumerVars,
                 deadLetters, commands>>

\* A workflow that runs or has failed is left alone, and so is one that cannot
\* be described or whose reply cannot be appended (the error is swallowed).
IgnoreCharge(o) ==
  /\ charges[o] > 0
  /\ charges' = [charges EXCEPT ![o] = @ - 1]
  /\ \/ charge[o] \in {"RUNNING", "FAILED"} /\ UNCHANGED disturbances
     \/ charge[o] \in ChargeOutcome /\ Disturb
  /\ UNCHANGED <<orderVars, relayVars, inventoryVars, paymentVars, consumerVars,
                 deadLetters, commands>>

\* Temporal unreachable for three attempts.
DeadLetterCharge(o) ==
  /\ charges[o] > 0
  /\ Disturb
  /\ charges' = [charges EXCEPT ![o] = @ - 1]
  /\ DeadLetter(o, "payment.commands")
  /\ UNCHANGED <<orderVars, relayVars, inventoryVars, paymentVars, consumerVars, commands>>

\* The workflow decides, emits its reply (once: keyed by the order id) and
\* completes.  A command handled between the last two is a no-op, as it would
\* have been just before them.
FinishCharge(o) ==
  /\ charge[o] = "RUNNING"
  /\ \E outcome \in ChargeOutcome :
       /\ charge' = [charge EXCEPT ![o] = outcome]
       /\ AppendPaymentReply(o, ReplyFor(outcome))
  /\ UNCHANGED <<orderVars, relayVars, inventoryVars, consumerVars, faultVars, commands,
                 charges>>

\* An activity fails in each of its five attempts: no reply is emitted.
FailCharge(o) ==
  /\ charge[o] = "RUNNING"
  /\ Disturb
  /\ charge' = [charge EXCEPT ![o] = "FAILED"]
  /\ UNCHANGED <<orderVars, relayVars, inventoryVars, paymentReplies, consumerVars,
                 deadLetters, commands, charges>>

-----------------------------------------------------------------------------
(* Order's reply consumers.  A handler runs in one transaction with its    *)
(* processed_events mark; the offset is committed afterwards.              *)

HasStockReply(o) == stockOffset[o] < Len(stockReplies[o])
NextStockReply(o) == stockReplies[o][stockOffset[o] + 1]
StockEvent(o) == <<"inventory.replies", stockOffset[o] + 1>>
HasPaymentReply(o) == paymentOffset[o] < Len(paymentReplies[o])
NextPaymentReply(o) == paymentReplies[o][paymentOffset[o] + 1]
PaymentEvent(o) == <<"payment.replies", paymentOffset[o] + 1>>

MarkSeen(o, event) == orderSeen' = [orderSeen EXCEPT ![o] = @ \cup {event}]

SettleStockReply(o) ==
  \/ /\ stockOffset' = [stockOffset EXCEPT ![o] = @ + 1]
     /\ UNCHANGED <<paymentOffset, commandOffset, disturbances>>
  \/ Disturb /\ UNCHANGED consumerVars

SettlePaymentReply(o) ==
  \/ /\ paymentOffset' = [paymentOffset EXCEPT ![o] = @ + 1]
     /\ UNCHANGED <<stockOffset, commandOffset, disturbances>>
  \/ Disturb /\ UNCHANGED consumerVars

\* The saga state in which a reply is acted upon; any other ignores it.
Awaits(reply) ==
  CASE reply \in {"StockReserved", "StockReservationFailed"} -> "STARTED"
    [] reply = "StockReleased" -> "COMPENSATING"
    [] reply \in PaymentReply -> "STOCK_RESERVED"

\* The order status a reply moves to; PaymentFailed leaves the order alone.
OrderTarget(reply) ==
  CASE reply = "StockReserved" -> "RESERVED"
    [] reply \in {"StockReservationFailed", "StockReleased"} -> "CANCELLED"
    [] reply = "PaymentSucceeded" -> "CONFIRMED"

FreshStockReply(o, reply) ==
  /\ HasStockReply(o)
  /\ NextStockReply(o) = reply
  /\ StockEvent(o) \notin orderSeen[o]
  /\ saga[o] = Awaits(reply)

FreshPaymentReply(o, reply) ==
  /\ HasPaymentReply(o)
  /\ NextPaymentReply(o) = reply
  /\ PaymentEvent(o) \notin orderSeen[o]
  /\ saga[o] = Awaits(reply)

MoveOrder(o, next) ==
  /\ CanMove(order[o], next)
  /\ order' = [order EXCEPT ![o] = next]

HandleStockReserved(o) ==
  /\ FreshStockReply(o, "StockReserved")
  /\ MoveOrder(o, "RESERVED")
  /\ saga' = [saga EXCEPT ![o] = "STOCK_RESERVED"]
  /\ AppendRow(o, "ChargePayment")
  /\ MarkSeen(o, StockEvent(o))
  /\ SettleStockReply(o)
  /\ UNCHANGED <<attempts, reading, manual, relayVars, inventoryVars, paymentVars,
                 deadLetters, commands, charges>>

\* cancelOrder: the reservation failed, or the compensation is complete.
HandleSagaCancellation(o) ==
  /\ \/ FreshStockReply(o, "StockReservationFailed")
     \/ FreshStockReply(o, "StockReleased")
  /\ MoveOrder(o, "CANCELLED")
  /\ saga' = [saga EXCEPT ![o] = "CANCELLED"]
  /\ AppendRow(o, "OrderCancelled")
  /\ MarkSeen(o, StockEvent(o))
  /\ SettleStockReply(o)
  /\ UNCHANGED <<attempts, reading, manual, relayVars, inventoryVars, paymentVars,
                 deadLetters, commands, charges>>

\* A duplicate, or a reply the saga does not wait for: marked and committed.
IgnoreStockReply(o) ==
  /\ HasStockReply(o)
  /\ ~FreshStockReply(o, NextStockReply(o))
  /\ MarkSeen(o, StockEvent(o))
  /\ SettleStockReply(o)
  /\ UNCHANGED <<order, saga, attempts, reading, outbox, manual, relayVars,
                 inventoryVars, paymentVars, deadLetters, commands, charges>>

\* The order refuses the move in each attempt, or the database is down: the
\* transaction is rolled back and the reply goes to the dead-letter topic.
DeadLetterStockReply(o) ==
  /\ HasStockReply(o)
  /\ \/ /\ FreshStockReply(o, NextStockReply(o))
        /\ ~CanMove(order[o], OrderTarget(NextStockReply(o)))
        /\ UNCHANGED disturbances
     \/ Disturb
  /\ DeadLetter(o, "inventory.replies")
  /\ stockOffset' = [stockOffset EXCEPT ![o] = @ + 1]
  /\ UNCHANGED <<orderVars, relayVars, inventoryVars, paymentVars, commandOffset,
                 paymentOffset, commands, charges>>

HandlePaymentSucceeded(o) ==
  /\ FreshPaymentReply(o, "PaymentSucceeded")
  /\ MoveOrder(o, "CONFIRMED")
  /\ saga' = [saga EXCEPT ![o] = "COMPLETED"]
  /\ AppendRow(o, "OrderConfirmed")
  /\ MarkSeen(o, PaymentEvent(o))
  /\ SettlePaymentReply(o)
  /\ UNCHANGED <<attempts, reading, manual, relayVars, inventoryVars, paymentVars,
                 deadLetters, commands, charges>>

\* Mutant: the order is cancelled and announced before the stock is back.
EagerPaymentFailed(o) ==
  /\ FreshPaymentReply(o, "PaymentFailed")
  /\ MoveOrder(o, "CANCELLED")
  /\ saga' = [saga EXCEPT ![o] = "COMPENSATING"]
  /\ outbox' = [outbox EXCEPT ![o] = @ \o <<"OrderCancelled", "ReleaseStock">>]
  /\ MarkSeen(o, PaymentEvent(o))
  /\ SettlePaymentReply(o)
  /\ UNCHANGED <<attempts, reading, manual, relayVars, inventoryVars, paymentVars,
                 deadLetters, commands, charges>>

\* Mutant: the release command is not sent.
ForgottenRelease(o) ==
  /\ FreshPaymentReply(o, "PaymentFailed")
  /\ saga' = [saga EXCEPT ![o] = "COMPENSATING"]
  /\ MarkSeen(o, PaymentEvent(o))
  /\ SettlePaymentReply(o)
  /\ UNCHANGED <<order, outbox, attempts, reading, manual, relayVars, inventoryVars,
                 paymentVars, deadLetters, commands, charges>>

HandlePaymentFailed(o) ==
  /\ FreshPaymentReply(o, "PaymentFailed")
  /\ saga' = [saga EXCEPT ![o] = "COMPENSATING"]
  /\ AppendRow(o, "ReleaseStock")
  /\ MarkSeen(o, PaymentEvent(o))
  /\ SettlePaymentReply(o)
  /\ UNCHANGED <<order, attempts, reading, manual, relayVars, inventoryVars, paymentVars,
                 deadLetters, commands, charges>>

IgnorePaymentReply(o) ==
  /\ HasPaymentReply(o)
  /\ ~FreshPaymentReply(o, NextPaymentReply(o))
  /\ MarkSeen(o, PaymentEvent(o))
  /\ SettlePaymentReply(o)
  /\ UNCHANGED <<order, saga, attempts, reading, outbox, manual, relayVars,
                 inventoryVars, paymentVars, deadLetters, commands, charges>>

DeadLetterPaymentReply(o) ==
  /\ HasPaymentReply(o)
  /\ \/ /\ FreshPaymentReply(o, "PaymentSucceeded")
        /\ ~CanMove(order[o], "CONFIRMED")
        /\ UNCHANGED disturbances
     \/ Disturb
  /\ DeadLetter(o, "payment.replies")
  /\ paymentOffset' = [paymentOffset EXCEPT ![o] = @ + 1]
  /\ UNCHANGED <<orderVars, relayVars, inventoryVars, paymentVars, commandOffset,
                 stockOffset, commands, charges>>

-----------------------------------------------------------------------------
(* The saga reaper: one sweep at a time (advisory lock), one saga at a     *)
(* time; it decides on what it read and writes in a later transaction.     *)

\* Mutant: compensation is not swept.
StrandedForward(state) == state \in {"STARTED", "STOCK_RESERVED"}

Stranded(state) == state \in NonTerminal

MayRedrive(o) == attempts[o] < MaxAttempts

PendingCommand(state) ==
  CASE state = "STARTED" -> "ReserveStock"
    [] state = "STOCK_RESERVED" -> "ChargePayment"
    [] state = "COMPENSATING" -> "ReleaseStock"

\* The saga is older than the timeout and its budget is not spent; a spent
\* budget is escalated, which changes nothing.
ReaperRead(o) ==
  /\ \A p \in Orders : reading[p] = "IDLE"
  /\ Stranded(saga[o])
  /\ MayRedrive(o)
  /\ reading' = [reading EXCEPT ![o] = saga[o]]
  /\ UNCHANGED <<order, saga, attempts, outbox, orderSeen, manual, relayVars,
                 inventoryVars, paymentVars, consumerVars, faultVars, commands, charges>>

\* Mutant: the update is not guarded by the state that was read.
UnguardedState(o) == TRUE

StateUnchanged(o) == saga[o] = reading[o]

ReaperRedrive(o) ==
  /\ reading[o] # "IDLE"
  /\ StateUnchanged(o)
  /\ attempts' = [attempts EXCEPT ![o] = @ + 1]
  /\ AppendRow(o, PendingCommand(reading[o]))
  /\ reading' = [reading EXCEPT ![o] = "IDLE"]
  /\ UNCHANGED <<order, saga, orderSeen, manual, relayVars, inventoryVars,
                 paymentVars, consumerVars, faultVars, commands, charges>>

\* The saga moved on since it was read (SagaStateChangedError), or the reaper
\* dies: nothing is written.
ReaperSkip(o) ==
  /\ reading[o] # "IDLE"
  /\ \/ ~StateUnchanged(o) /\ UNCHANGED disturbances
     \/ Disturb
  /\ reading' = [reading EXCEPT ![o] = "IDLE"]
  /\ UNCHANGED <<order, saga, attempts, outbox, orderSeen, manual, relayVars,
                 inventoryVars, paymentVars, consumerVars, deadLetters, commands, charges>>

\* POST /orders/sagas/:orderId/replay
ReplaySaga(o) ==
  /\ saga[o] \in NonTerminal
  /\ attempts[o] > 0
  /\ Disturb
  /\ attempts' = [attempts EXCEPT ![o] = 0]
  /\ UNCHANGED <<order, saga, reading, outbox, orderSeen, manual, relayVars,
                 inventoryVars, paymentVars, consumerVars, deadLetters, commands, charges>>

-----------------------------------------------------------------------------
CustomerStep(o) ==
  PlaceOrder(o) \/ CancelOrder(o) \/ ReleaseAfterCancel(o) \/ ConfirmOrder(o)

RelayStep(o) == RelayPublish(o) \/ RelayMark(o) \/ RelayRestart(o)

InventoryStep(o) ==
  \/ ReserveEffect(o) \/ ReleaseEffect(o) \/ ReplyToCommand(o)
  \/ InventoryRestart(o) \/ DeadLetterCommand(o)

PaymentStep(o) ==
  \/ StartCharge(o) \/ RepeatPaymentReply(o) \/ IgnoreCharge(o) \/ DeadLetterCharge(o)
  \/ FinishCharge(o) \/ FailCharge(o)

ReplyStep(o) ==
  \/ HandleStockReserved(o) \/ HandleSagaCancellation(o) \/ IgnoreStockReply(o)
  \/ DeadLetterStockReply(o)
  \/ HandlePaymentSucceeded(o) \/ HandlePaymentFailed(o) \/ IgnorePaymentReply(o)
  \/ DeadLetterPaymentReply(o)

ReaperStep(o) ==
  ReaperRead(o) \/ ReaperRedrive(o) \/ ReaperSkip(o) \/ ReplaySaga(o)

Next ==
  \E o \in Orders :
    \/ CustomerStep(o) \/ RelayStep(o) \/ InventoryStep(o)
    \/ PaymentStep(o) \/ ReplyStep(o) \/ ReaperStep(o)

Spec == Init /\ [][Next]_vars

\* The relay's timer re-arms after every drain and its mark is retried; the
\* consumers poll; Temporal runs its workflows; the reaper's interval timer
\* never stops and its sweep visits every stranded saga in turn.
Fairness ==
  \A o \in Orders :
    /\ WF_vars(RelayPublish(o)) /\ WF_vars(RelayMark(o))
    /\ WF_vars(ReserveEffect(o) \/ ReleaseEffect(o)) /\ WF_vars(ReplyToCommand(o))
    /\ WF_vars(StartCharge(o) \/ RepeatPaymentReply(o) \/ IgnoreCharge(o))
    /\ WF_vars(FinishCharge(o))
    /\ WF_vars(ReplyStep(o))
    /\ SF_vars(ReaperRead(o)) /\ WF_vars(ReaperRedrive(o) \/ ReaperSkip(o))
    /\ WF_vars(ReleaseAfterCancel(o))

FairSpec == Spec /\ Fairness

-----------------------------------------------------------------------------
(* Properties.                                                             *)

Terminal(o) == saga[o] \in {"COMPLETED", "CANCELLED"}
Escalated(o) == saga[o] \in NonTerminal /\ attempts[o] = MaxAttempts

OrderTypeOK ==
  /\ order \in [Orders -> OrderStatus \cup {"NONE"}]
  /\ saga \in [Orders -> SagaState \cup {"NONE"}]
  /\ attempts \in [Orders -> 0 .. MaxAttempts]
  /\ reading \in [Orders -> NonTerminal \cup {"IDLE"}]
  /\ outbox \in [Orders -> Seq(OutboxRow)]
  /\ orderSeen \in [Orders -> SUBSET (Topic \X Nat)]
  /\ manual \in [Orders -> Manual]

RelayTypeOK ==
  /\ relayed \in [Orders -> Nat] /\ marked \in [Orders -> Nat]
  /\ \A o \in Orders : marked[o] <= relayed[o] /\ relayed[o] <= Len(outbox[o])

CommandTypeOK ==
  /\ commands \in [Orders -> Seq(Nat \ {0})]
  /\ charges \in [Orders -> Nat]

InventoryTypeOK ==
  /\ held \in [Orders -> BOOLEAN]
  /\ effect \in [Orders -> StockReply \cup {"NONE"}]
  /\ inventorySeen \in [Orders -> SUBSET Nat]
  /\ stockReplies \in [Orders -> Seq(StockReply)]

PaymentTypeOK ==
  /\ charge \in [Orders -> ChargeState]
  /\ paymentReplies \in [Orders -> Seq(PaymentReply)]

ConsumerTypeOK ==
  /\ commandOffset \in [Orders -> Nat]
  /\ stockOffset \in [Orders -> Nat]
  /\ paymentOffset \in [Orders -> Nat]

FaultTypeOK ==
  /\ deadLetters \in [Orders -> SUBSET Topic]
  /\ disturbances \in 0 .. MaxDisturbances

\* Besides the types: the relay never runs ahead of the outbox or behind its
\* marks, and no saga is re-driven more than MaxAttempts times.
TypeOK ==
  /\ OrderTypeOK /\ RelayTypeOK /\ CommandTypeOK /\ InventoryTypeOK
  /\ PaymentTypeOK /\ ConsumerTypeOK /\ FaultTypeOK

\* The order row and the saga row, written by different handlers, never
\* disagree on the verdict; an order nobody changed by hand moves in lockstep.
SagaAgreesWithOrder ==
  \A o \in Orders :
    /\ saga[o] = "COMPLETED" => order[o] = "CONFIRMED"
    /\ saga[o] = "CANCELLED" => order[o] = "CANCELLED"
    /\ order[o] = "CONFIRMED" /\ manual[o] = "NO" => saga[o] = "COMPLETED"
    /\ order[o] = "CANCELLED" /\ manual[o] = "NO" => saga[o] = "CANCELLED"

\* An order the saga confirmed was charged, and inventory holds its stock,
\* whatever was redelivered, re-driven or republished on the way.
ConfirmedIsPaidAndHeld ==
  \A o \in Orders :
    order[o] = "CONFIRMED" /\ manual[o] = "NO" => charge[o] = "SUCCEEDED" /\ held[o]

\* No customer pays for an order the saga cancelled.
CancelledIsNotPaid ==
  \A o \in Orders :
    order[o] = "CANCELLED" /\ manual[o] = "NO" => charge[o] # "SUCCEEDED"

\* The outbox announces one verdict per order, the one the saga reached.
OneVerdict ==
  \A o \in Orders :
    \A i, j \in DOMAIN outbox[o] :
      /\ outbox[o][i] = "OrderConfirmed" => saga[o] = "COMPLETED"
      /\ outbox[o][i] = "OrderCancelled" => saga[o] = "CANCELLED"
      /\ outbox[o][i] \in OrderEvent /\ outbox[o][j] \in OrderEvent => i = j

\* Everything sent for the order has been published, handled and answered.
Drained(o) ==
  /\ relayed[o] = Len(outbox[o]) /\ marked[o] = relayed[o]
  /\ commandOffset[o] = Len(commands[o]) /\ effect[o] = "NONE"
  /\ charges[o] = 0 /\ charge[o] # "RUNNING"
  /\ stockOffset[o] = Len(stockReplies[o])
  /\ paymentOffset[o] = Len(paymentReplies[o])
  /\ manual[o] # "RELEASING"

\* Once a compensation was ordered and everything is handled, no stock stays
\* held: a re-driven or republished ReserveStock never outlives the release.
CompensationReleasesHold ==
  \A o \in Orders :
    /\ "ReleaseStock" \in Rows(outbox[o])
    /\ Drained(o) /\ deadLetters[o] = {}
    => ~held[o]

\* A row enters the outbox only when the saga it leaves behind calls for it:
\* a stale reaper or a late reply never writes a command of an earlier stage.
LastRow(rows) == rows[Len(rows)]

RowFollowsSaga(o) ==
  Len(outbox'[o]) > Len(outbox[o]) =>
    /\ LastRow(outbox'[o]) \notin OrderEvent =>
         /\ saga'[o] \in NonTerminal
         /\ LastRow(outbox'[o]) = PendingCommand(saga'[o])
    /\ LastRow(outbox'[o]) = "OrderConfirmed" => saga'[o] = "COMPLETED"
    /\ LastRow(outbox'[o]) = "OrderCancelled" => saga'[o] = "CANCELLED"

CommandsFollowSaga == [][\A o \in Orders : RowFollowsSaga(o)]_vars

\* The service keeps the customer's contract: an undecided or failed workflow
\* counts as an open payment.
Payment == [o \in Orders |-> IF charge[o] \in ChargeOutcome THEN charge[o] ELSE "OPEN"]

ByHand == {o \in Orders : manual[o] # "NO"}

Contract == INSTANCE OrderContract WITH status <- order, payment <- Payment, byHand <- ByHand

KeepsContract == Contract!Spec

\* Every saga ends, or its re-drive budget is spent and it is escalated,
\* although messages are lost, repeated and delayed; unless somebody decided the
\* order by hand, behind the saga's back.
SagaSettles ==
  \A o \in Orders : saga[o] # "NONE" ~> Terminal(o) \/ Escalated(o) \/ manual[o] # "NO"

\* A cancelled order holds no stock once everything is handled.
CancellationReleasesHold ==
  \A o \in Orders :
    order[o] = "CANCELLED" /\ Drained(o) /\ deadLetters[o] = {} => ~held[o]

-----------------------------------------------------------------------------
(* The inductive strengthening of the invariants above, part by part.      *)

NoCharge(o) ==
  charge[o] = "NONE" /\ charges[o] = 0 /\ "ChargePayment" \notin Rows(outbox[o])

\* Which order statuses a saga state can meet.
StatusFits(o) ==
  /\ saga[o] = "NONE" <=> order[o] = "NONE"
  /\ saga[o] = "STARTED" => order[o] \in {"PENDING", "CANCELLED"}
  /\ saga[o] \in {"STOCK_RESERVED", "COMPENSATING"} =>
       order[o] \in {"RESERVED", "CONFIRMED", "CANCELLED"}
  /\ manual[o] = "RELEASING" => order[o] = "CANCELLED"
  /\ manual[o] = "DONE" => order[o] \in {"CONFIRMED", "CANCELLED"}

\* The charge is requested after the reservation, and its replies tell the truth.
ChargeFits(o) ==
  /\ saga[o] \in {"NONE", "STARTED"} => NoCharge(o)
  /\ saga[o] = "COMPLETED" => charge[o] = "SUCCEEDED"
  /\ saga[o] = "COMPENSATING" => charge[o] = "DECLINED"
  /\ saga[o] = "CANCELLED" => NoCharge(o) \/ charge[o] = "DECLINED"
  /\ "PaymentSucceeded" \in Rows(paymentReplies[o]) => charge[o] = "SUCCEEDED"
  /\ "PaymentFailed" \in Rows(paymentReplies[o]) => charge[o] = "DECLINED"

\* Stock is released only under compensation, so a reservation that was
\* reported lasts while the order is alive.
HoldFits(o) ==
  /\ \/ "ReleaseStock" \in Rows(outbox[o])
     \/ effect[o] = "StockReleased"
     \/ "StockReleased" \in Rows(stockReplies[o])
     => saga[o] \in {"COMPENSATING", "CANCELLED"}
  /\ /\ saga[o] \notin {"COMPENSATING", "CANCELLED"}
     /\ order[o] # "CANCELLED"
     /\ \/ effect[o] = "StockReserved"
        \/ "StockReserved" \in Rows(stockReplies[o])
        \/ saga[o] \in {"STOCK_RESERVED", "COMPLETED"}
     => held[o]

\* Inventory's consumer works on commands that are in the outbox.
CommandsFit(o) ==
  /\ Rows(commands[o]) \subseteq DOMAIN outbox[o]
  /\ effect[o] # "NONE" => HasCommand(o)

\* The reaper has budget for the command it is about to write.
BudgetFits(o) == reading[o] # "IDLE" => attempts[o] < MaxAttempts

SagaInv ==
  /\ TypeOK
  /\ SagaAgreesWithOrder
  /\ OneVerdict
  /\ \A o \in Orders :
       StatusFits(o) /\ ChargeFits(o) /\ HoldFits(o) /\ CommandsFit(o) /\ BudgetFits(o)
=============================================================================
