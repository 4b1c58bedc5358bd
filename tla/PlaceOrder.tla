----------------------------- MODULE PlaceOrder -----------------------------
(***************************************************************************)
(* POST /orders in apps/order, for one user: the lookup of the idempotency *)
(* key, the menu that catalog answers, the prices, and the transaction     *)
(* that claims the key and inserts the order, its saga and the ReserveStock *)
(* command with which OrderSaga begins.                                    *)
(*                                                                         *)
(* A client repeats a request with its key, also while the first is under  *)
(* way.  The transactions run in Postgres at READ COMMITTED: the insertion *)
(* of a key waits for an open transaction that inserted the same key.      *)
(* What catalog and the settings answer may change from call to call.      *)
(***************************************************************************)
EXTENDS Integers, Sequences, FiniteSets, SequencesExt

CONSTANTS
  Requests,   \* calls that may be under way at once
  Keys,       \* idempotency keys of the user
  Carts,      \* sequences of lines [item, qty] a client sends
  Menus,      \* what catalog may answer: for the items it knows, a record
              \* [restaurant, price, available]
  Pricings,   \* records [fee, bps, discount] of the tenant's settings
  MaxMoney,   \* MAX_MONEY_CENTS, the largest value of an integer column
  MaxOrders,  \* bound on the order ids drawn in one behaviour
  NoOrder

MoneyAssumption == MaxMoney \in Nat /\ MaxOrders \in Nat /\ NoOrder \notin Nat

VARIABLES
  call,      \* what each request does: its key, its cart, the order it built
  drawn,     \* order ids drawn so far
  claims,    \* idempotency_keys
  orders,    \* orders, with their items' amounts
  sagas,     \* the orders with a row in order_sagas
  commands,  \* the orders whose ReserveStock is in order_outbox
  answered   \* the orders the requests with a key were answered; NoOrder is
             \* the conflict "is being created"

tables == <<claims, orders, sagas, commands>>
vars == <<call, drawn, tables, answered>>

Nothing == [subtotal |-> 0, vat |-> 0, total |-> 0]

NoCall == [pc |-> "IDLE", key |-> NoOrder, cart |-> <<>>, id |-> NoOrder, amounts |-> Nothing]

Init ==
  /\ call = [r \in Requests |-> NoCall]
  /\ drawn = 0
  /\ claims = [k \in Keys |-> NoOrder]
  /\ orders = {}
  /\ sagas = {} /\ commands = {}
  /\ answered = [k \in Keys |-> {}]

-----------------------------------------------------------------------------
(* The order a cart makes.                                                 *)

\* A line, or a subtotal, VAT or total that does not fit the column, is a 400.
Fits(amount) == amount \in 0..MaxMoney

Lines(cart, menu) == [n \in DOMAIN cart |-> cart[n].qty * menu[cart[n].item].price]

\* The cart can be ordered: known, available items of one restaurant.
Orderable(cart, menu) ==
  /\ cart # <<>>
  /\ \A n \in DOMAIN cart :
       /\ cart[n].qty > 0
       /\ cart[n].item \in DOMAIN menu
       /\ menu[cart[n].item].available
       /\ menu[cart[n].item].restaurant = menu[cart[1].item].restaurant
       /\ Fits(cart[n].qty * menu[cart[n].item].price)

NotNegative(amount) == IF amount > 0 THEN amount ELSE 0

Subtotal(lines) == FoldLeft(LAMBDA a, b : a + b, 0, lines)

Amounts(lines, pricing) ==
  LET subtotal == Subtotal(lines)
      vat == (subtotal * pricing.bps) \div 10000
  IN  [subtotal |-> subtotal, vat |-> vat,
       total |-> NotNegative(subtotal + pricing.fee + vat - pricing.discount)]

ValidPricing(pricing) == Fits(pricing.fee) /\ Fits(pricing.bps) /\ Fits(pricing.discount)

AmountsFit(amounts) == Fits(amounts.subtotal) /\ Fits(amounts.vat) /\ Fits(amounts.total)

-----------------------------------------------------------------------------
(* The handler.                                                            *)

Answer(r, what) ==
  /\ answered' = [answered EXCEPT ![call[r].key] = @ \cup {what}]
  /\ call' = [call EXCEPT ![r] = NoCall]

\* A valid request: its key is looked up.
FindOrderId(r, k, cart) ==
  /\ call[r] = NoCall
  /\ call' = [call EXCEPT ![r] =
       [pc |-> IF claims[k] = NoOrder THEN "BUILD" ELSE "LOAD",
        key |-> k, cart |-> cart, id |-> claims[k], amounts |-> Nothing]]
  /\ UNCHANGED <<drawn, tables, answered>>

\* Order.create; a cart that cannot be ordered is refused and nothing changes.
CreateOrder(r, menu, pricing) ==
  /\ call[r].pc = "BUILD"
  /\ Orderable(call[r].cart, menu) /\ ValidPricing(pricing)
  /\ LET amounts == Amounts(Lines(call[r].cart, menu), pricing)
     IN  /\ AmountsFit(amounts)
         /\ drawn < MaxOrders
         /\ drawn' = drawn + 1
         /\ call' = [call EXCEPT ![r] =
              [pc |-> "BEGIN", key |-> @.key, cart |-> <<>>, id |-> drawn', amounts |-> amounts]]
  /\ UNCHANGED <<tables, answered>>

\* Mutant: no unique index on the key.
SaveAnyKey(r) ==
  /\ call[r].pc = "BEGIN"
  /\ call' = [call EXCEPT ![r].pc = "CLAIMED"]
  /\ UNCHANGED <<drawn, tables, answered>>

\* The transaction inserts the key.
SaveKey(r) ==
  /\ call[r].pc = "BEGIN"
  /\ \A q \in Requests : ~(call[q].pc = "CLAIMED" /\ call[q].key = call[r].key)
  /\ call' = [call EXCEPT ![r].pc = IF claims[call[r].key] = NoOrder THEN "CLAIMED" ELSE "LOST"]
  /\ UNCHANGED <<drawn, tables, answered>>

\* The order, its saga and the command follow; all of it commits.
CommitOrder(r) ==
  /\ call[r].pc = "CLAIMED"
  /\ LET id == call[r].id IN
     /\ claims' = [claims EXCEPT ![call[r].key] = id]
     /\ orders' = orders \cup {[id |-> id, key |-> call[r].key, amounts |-> call[r].amounts]}
     /\ sagas' = sagas \cup {id}
     /\ commands' = commands \cup {id}
  /\ call' = [call EXCEPT ![r].pc = "PLACED"]
  /\ UNCHANGED <<drawn, answered>>

AnswerPlaced(r) ==
  /\ call[r].pc = "PLACED"
  /\ Answer(r, call[r].id)
  /\ UNCHANGED <<drawn, tables>>

\* The unique violation: the winner's order is read.
ResolveConcurrentClaim(r) ==
  /\ call[r].pc = "LOST"
  /\ IF claims[call[r].key] = NoOrder
     THEN Answer(r, NoOrder)
     ELSE /\ call' = [call EXCEPT ![r].pc = "LOAD", ![r].id = claims[call[r].key]]
          /\ UNCHANGED answered
  /\ UNCHANGED <<drawn, tables>>

LoadExisting(r) ==
  /\ call[r].pc = "LOAD"
  /\ Answer(r, IF \E o \in orders : o.id = call[r].id THEN call[r].id ELSE NoOrder)
  /\ UNCHANGED <<drawn, tables>>

\* A refused cart, an error of catalog or Postgres, or a crash: an open
\* transaction rolls back, a committed one stays, no order is answered.
FailPlacement(r) ==
  /\ call[r] # NoCall
  /\ call' = [call EXCEPT ![r] = NoCall]
  /\ UNCHANGED <<drawn, tables, answered>>

-----------------------------------------------------------------------------
Place(r) ==
  \/ \E k \in Keys, cart \in Carts : FindOrderId(r, k, cart)
  \/ \E menu \in Menus, pricing \in Pricings : CreateOrder(r, menu, pricing)
  \/ SaveKey(r) \/ CommitOrder(r) \/ AnswerPlaced(r)
  \/ ResolveConcurrentClaim(r) \/ LoadExisting(r) \/ FailPlacement(r)

Next == \E r \in Requests : Place(r)

Spec == Init /\ [][Next]_vars

-----------------------------------------------------------------------------
OrderIds == 1..MaxOrders

AmountRecord == [subtotal : 0..MaxMoney, vat : 0..MaxMoney, total : 0..MaxMoney]

OrderRecord == [id : OrderIds, key : Keys, amounts : AmountRecord]

(* The state is what the declarations say.                                 *)
TypeOK ==
  /\ call \in [Requests -> [pc : {"IDLE", "BUILD", "BEGIN", "CLAIMED", "PLACED", "LOST", "LOAD"},
                            key : Keys \cup {NoOrder}, cart : Carts \cup {<<>>},
                            id : OrderIds \cup {NoOrder}, amounts : AmountRecord]]
  /\ drawn \in 0..MaxOrders
  /\ claims \in [Keys -> OrderIds \cup {NoOrder}]
  /\ orders \in SUBSET OrderRecord
  /\ sagas \in SUBSET OrderIds
  /\ commands \in SUBSET OrderIds
  /\ answered \in [Keys -> SUBSET (OrderIds \cup {NoOrder})]

\* A key places one order: however requests with it overlap, fail and are
\* repeated, there is no other order than the one it claims, that order has
\* its saga and its command, every answer names it, and no client is told that
\* its order is still being created.
KeyPlacesOneOrder ==
  /\ \A o \in orders : claims[o.key] = o.id
  /\ \A k \in Keys : claims[k] # NoOrder =>
       /\ \E o \in orders : o.id = claims[k] /\ o.key = k
       /\ claims[k] \in sagas \cap commands
  /\ \A k \in Keys : answered[k] \subseteq {claims[k]} \ {NoOrder}

=============================================================================
