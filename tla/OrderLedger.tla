----------------------------- MODULE OrderLedger -----------------------------
(* What POST /api/orders promises, with no transactions, connections, crashes *)
(* or timeouts in it: an order is placed at one instant and takes its whole   *)
(* cart out of the stock; a client told 201 has an order, a client told 400   *)
(* has none, never will, and could not have had one; a client told 500 knows  *)
(* nothing, and its order may still be placed later.                          *)
EXTENDS CartDemand

CONSTANTS Requests,   \* the POST /api/orders requests
          Garbled     \* those whose body is not a CreateOrderRequest

VARIABLES cart,       \* the cart of each request
          stock,      \* the stock column of each product
          placed,     \* the requests whose order exists
          answer      \* the status each request was given, 0 before

ledgerVars == <<cart, stock, placed, answer>>

LedgerInit ==
  /\ cart \in [Requests -> Carts]
  /\ stock = InitStock
  /\ placed = {}
  /\ answer = [r \in Requests |-> 0]

Acceptable(r) == r \notin Garbled /\ Fulfillable(cart[r], stock)

Place(r) ==
  /\ r \notin placed
  /\ answer[r] \in {0, 500}
  /\ Acceptable(r)
  /\ placed' = placed \cup {r}
  /\ stock' = [p \in Products |-> stock[p] - TotalDemand(cart[r], p)]
  /\ UNCHANGED <<cart, answer>>

Confirm(r) ==
  /\ answer[r] = 0
  /\ r \in placed
  /\ answer' = [answer EXCEPT ![r] = 201]
  /\ UNCHANGED <<cart, stock, placed>>

Refuse(r) ==
  /\ answer[r] = 0
  /\ r \notin placed
  /\ ~Acceptable(r)
  /\ answer' = [answer EXCEPT ![r] = 400]
  /\ UNCHANGED <<cart, stock, placed>>

Fail(r) ==
  /\ answer[r] = 0
  /\ answer' = [answer EXCEPT ![r] = 500]
  /\ UNCHANGED <<cart, stock, placed>>

LedgerNext == \E r \in Requests : Place(r) \/ Confirm(r) \/ Refuse(r) \/ Fail(r)

LedgerSpec == LedgerInit /\ [][LedgerNext]_ledgerVars
=============================================================================
