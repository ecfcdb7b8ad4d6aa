------------------------------ MODULE ClientHub ------------------------------
(* The load generator of backend/internal/client (hub.go, client.go) against  *)
(* the order service, of which it sees what OrderLedger promises.  Its carts  *)
(* are drawn from the stock as it was when the hub started.                   *)
EXTENDS CartDemand

CONSTANTS Clients,     \* the users LoadUsers has found
          OrdersCount, \* orders each of them sends
          MaxItems     \* lines of a cart at most

Requests == Clients \X (1..OrdersCount)

(* LoadProducts: the rows with stock, read once.                              *)
OnSale == {p \in Products : InitStock[p] > 0}

(* A slip: the quantity is not held against the stock.                        *)
UpToThree(p) == 3

MaxQty(p) == IF InitStock[p] < 3 THEN InitStock[p] ELSE 3

(* The id travels in the nested product.                                      *)
HubLines ==
  {[product_id |-> 0, nested_id |-> p, quantity |-> q] : p \in OnSale, q \in 1..3}

(* Client.MakeCart: the head of a permutation of the products, a quantity     *)
(* for each.                                                                  *)
MakeCart ==
  LET Drawn(n) ==
        {c \in [1..n -> HubLines] :
           /\ \A i \in 1..n : c[i].quantity <= MaxQty(c[i].nested_id)
           /\ \A i, k \in 1..n : i # k => c[i].nested_id # c[k].nested_id}
  IN  UNION {Drawn(n) : n \in 1..(IF Cardinality(OnSale) < MaxItems THEN Cardinality(OnSale)
                                                                  ELSE MaxItems)}

ASSUME HubAssumption ==
  /\ Clients # {} /\ IsFiniteSet(Clients)
  /\ OrdersCount \in Nat
  /\ MaxItems \in Nat \ {0}
  /\ OnSale # {}
  /\ MakeCart \subseteq Carts

VARIABLES
  cart, stock, placed, answer,   \* the ledger's: see OrderLedger
  sent,          \* the orders each client has sent
  pc,            \* where each client's goroutine is
  ctxDone,       \* the hub's context is done
  successCount,
  failureCount

ledgerVars == <<cart, stock, placed, answer>>
vars == <<ledgerVars, sent, pc, ctxDone, successCount, failureCount>>

Service == INSTANCE OrderLedger WITH Garbled <- {}

TypeOK ==
  /\ cart \in [Requests -> MakeCart \cup {<< >>}]
  /\ stock \in [Products -> Nat]
  /\ placed \subseteq Requests
  /\ answer \in [Requests -> {0, 201, 400, 500}]
  /\ sent \in [Clients -> 0..OrdersCount]
  /\ pc \in [Clients -> {"next", "post", "done"}]
  /\ ctxDone \in BOOLEAN
  /\ successCount \in Nat
  /\ failureCount \in Nat

Init ==
  /\ cart = [r \in Requests |-> << >>]
  /\ stock = InitStock
  /\ placed = {}
  /\ answer = [r \in Requests |-> 0]
  /\ sent = [c \in Clients |-> 0]
  /\ pc = [c \in Clients |-> "next"]
  /\ ctxDone = FALSE
  /\ successCount = 0
  /\ failureCount = 0

-----------------------------------------------------------------------------
(* The order a client waits for.                                              *)
Current(c) == <<c, sent[c]>>

Goto(c, l) == pc' = [pc EXCEPT ![c] = l]

(* A slip: one order too many.                                                *)
PostOneMore(c) ==
  /\ pc[c] = "next"
  /\ ~ctxDone
  /\ sent[c] <= OrdersCount
  /\ \E new \in MakeCart : cart' = [cart EXCEPT ![<<c, sent[c] + 1>>] = new]
  /\ sent' = [sent EXCEPT ![c] = @ + 1]
  /\ Goto(c, "post")
  /\ UNCHANGED <<stock, placed, answer, ctxDone, successCount, failureCount>>

PostOrder(c) ==
  /\ pc[c] = "next"
  /\ ~ctxDone
  /\ sent[c] < OrdersCount
  /\ \E new \in MakeCart : cart' = [cart EXCEPT ![<<c, sent[c] + 1>>] = new]
  /\ sent' = [sent EXCEPT ![c] = @ + 1]
  /\ Goto(c, "post")
  /\ UNCHANGED <<stock, placed, answer, ctxDone, successCount, failureCount>>

(* A slip: every answer counted as an order.                                  *)
AnyAnswerDispatched(c) ==
  /\ pc[c] = "post"
  /\ answer[Current(c)] # 0
  /\ successCount' = successCount + 1
  /\ Goto(c, "next")
  /\ UNCHANGED <<ledgerVars, sent, ctxDone, failureCount>>

OrderDispatched(c) ==
  /\ pc[c] = "post"
  /\ answer[Current(c)] = 201
  /\ successCount' = successCount + 1
  /\ Goto(c, "next")
  /\ UNCHANGED <<ledgerVars, sent, ctxDone, failureCount>>

OrderFailed(c) ==
  /\ pc[c] = "post"
  /\ answer[Current(c)] >= 400
  /\ failureCount' = failureCount + 1
  /\ Goto(c, "next")
  /\ UNCHANGED <<ledgerVars, sent, ctxDone, successCount>>

(* A slip: http.Client without its Timeout: only an answer ends the wait.     *)
PostHangs(c) ==
  /\ pc[c] = "post"
  /\ answer[Current(c)] # 0
  /\ failureCount' = failureCount + 1
  /\ Goto(c, "next")
  /\ UNCHANGED <<ledgerVars, sent, ctxDone, successCount>>

(* No answer within 5 seconds, or none that arrives: the order may have been  *)
(* placed, may be placed yet, or may never have reached the service.          *)
PostFails(c) ==
  /\ pc[c] = "post"
  /\ failureCount' = failureCount + 1
  /\ Goto(c, "next")
  /\ UNCHANGED <<ledgerVars, sent, ctxDone, successCount>>

ClientReturns(c) ==
  /\ pc[c] = "next"
  /\ ctxDone \/ sent[c] = OrdersCount
  /\ Goto(c, "done")
  /\ UNCHANGED <<ledgerVars, sent, ctxDone, successCount, failureCount>>

(* The timeout of the hub, or a signal.  Requests under way are not told.     *)
ContextDone ==
  /\ ~ctxDone
  /\ ctxDone' = TRUE
  /\ UNCHANGED <<ledgerVars, sent, pc, successCount, failureCount>>

(* The service at work on an order it has been sent.                          *)
Serve(r) ==
  /\ r[2] <= sent[r[1]]
  /\ Service!Place(r) \/ Service!Confirm(r) \/ Service!Refuse(r) \/ Service!Fail(r)
  /\ UNCHANGED <<sent, pc, ctxDone, successCount, failureCount>>

Goroutine(c) ==
  PostOrder(c) \/ OrderDispatched(c) \/ OrderFailed(c) \/ PostFails(c) \/ ClientReturns(c)

Next ==
  \/ \E c \in Clients : Goroutine(c)
  \/ \E r \in Requests : Serve(r)
  \/ ContextDone

Spec == Init /\ [][Next]_vars

(* Goroutines run and a request ends by its timeout; nothing is asked of the  *)
(* service.                                                                   *)
FairSpec == Spec /\ \A c \in Clients : WF_vars(Goroutine(c))

-----------------------------------------------------------------------------
Posting == {c \in Clients : pc[c] = "post"}

(* What "clienthub execution finished" reports bounds the orders there are:   *)
(* each success is an order, and an order that is not a success was counted   *)
(* as a failure or is still waited for.                                       *)
ReportBoundsOrders ==
  /\ successCount <= Cardinality(placed)
  /\ Cardinality(placed) <= successCount + failureCount + Cardinality(Posting)

(* Carts are made from a stock read at the start and never asked again: such  *)
(* a cart is refused only because orders have meanwhile taken a product it    *)
(* names below what the hub saw.                                              *)
RefusedOnlyWhenStale ==
  \A r \in Requests : answer[r] = 400 =>
    \E i \in 1..Len(cart[r]) : stock[cart[r][i].nested_id] < InitStock[cart[r][i].nested_id]

(* wg.Wait() returns: no client waits for ever, even if the service is silent.*)
HubEnds == <>(\A c \in Clients : pc[c] = "done")
-----------------------------------------------------------------------------
(* The invariant the proofs rest on.                                          *)

(* The orders that were sent, and those their clients no longer wait for.     *)
Sent == {r \in Requests : r[2] <= sent[r[1]]}
Returned == {r \in Sent : r = Current(r[1]) => pc[r[1]] # "post"}

(* The service only knows what was sent.                                      *)
SentOnly ==
  /\ \A r \in Sent : cart[r] \in MakeCart
  /\ placed \subseteq Sent
  /\ \A r \in Requests : answer[r] # 0 => r \in Sent
  /\ \A r \in Requests : answer[r] = 201 => r \in placed
  /\ \A c \in Posting : sent[c] > 0

(* Every order sent is counted once or waited for, and every success counted  *)
(* is of an order of its own.                                                 *)
CountsAddUp ==
  /\ successCount + failureCount + Cardinality(Posting) = Cardinality(Sent)
  /\ successCount <= Cardinality(placed \cap Returned)

(* Stock is only taken.                                                       *)
StockShrinks == \A p \in Products : stock[p] <= InitStock[p]

HubInv ==
  /\ TypeOK
  /\ SentOnly
  /\ CountsAddUp
  /\ StockShrinks
  /\ RefusedOnlyWhenStale
=============================================================================
