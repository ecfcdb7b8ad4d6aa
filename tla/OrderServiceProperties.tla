------------------------ MODULE OrderServiceProperties ------------------------
(* What OrderService must guarantee.                                          *)
EXTENDS OrderService

Committed == {r \in Requests : tx[r] = "committed"}

(* The abstract ledger: an order is placed when its transaction commits.      *)
Ledger == INSTANCE OrderLedger WITH placed <- Committed, answer <- status

(* order_repo.go and order_handler.go implement the promise of OrderLedger:   *)
(* whole carts are taken from the stock at one instant, 201 is only said of a *)
(* committed order, 400 only of a cart that could not be met by the committed *)
(* stock and never is, and a 500 may hide an order that commits later.        *)
LedgerSpec == Ledger!LedgerSpec

(* Create never sells what is not there (the stock check at order_repo.go:115 *)
(* against the row it has locked): no committed stock is negative, and any    *)
(* subset of the open transactions fits it, whichever of them commit.         *)
NoOversell ==
  \A p \in Products :
    /\ stock[p] >= 0
    /\ \A r \in Requests : Live(r) => items[r][p] <= stock[p]

(* What the carts of a line have taken of p, one cart after another.          *)
TakenBy(carts, p) ==
  LET t[k \in 0..Len(carts)] ==
        IF k = 0 THEN 0 ELSE t[k - 1] + TotalDemand(carts[k], p)
  IN  t

(* Each cart of a line is met by what those before it left, the last of them  *)
(* leaves the given stock.                                                    *)
ServedInTurn(carts, left) ==
  /\ \A k \in 1..Len(carts) :
       Fulfillable(carts[k], [p \in Products |-> InitStock[p] - TakenBy(carts, p)[k - 1]])
  /\ \A p \in Products : left[p] + TakenBy(carts, p)[Len(carts)] = InitStock[p]

(* The ways to put the requests of S in a line.                               *)
LinesOf(S) ==
  {l \in [1..Cardinality(S) -> S] : \A j, k \in 1..Cardinality(S) : l[j] = l[k] => j = k}

(* However transactions overlap, fail and end in doubt, the orders there are  *)
(* might have been served one at a time, and together they have taken what is *)
(* gone: the UPDATE at order_repo.go:119 loses no decrement of another order  *)
(* and none is left of an order that does not exist.                          *)
StockAddsUp ==
  \E line \in LinesOf(Committed) :
    ServedInTurn([k \in 1..Cardinality(Committed) |-> cart[line[k]]], stock)

(* SELECT ... FOR UPDATE and rollback on every path: two transactions never   *)
(* hold uncommitted decrements of the same row, whatever became of their      *)
(* handlers and connections.                                                  *)
RowExclusive ==
  \A p \in Products : \A r, s \in Requests :
    r # s /\ Live(r) /\ Live(s) => items[r][p] = 0 \/ items[s][p] = 0

(* Products are locked in cart order (order_repo.go:90), so circles of waits  *)
(* happen; they need a request whose cart names its products out of order.    *)
CyclesNeedUnsortedCarts ==
  \A S \in SUBSET Requests : WaitCycle(S) => \E r \in S : ~Ascending(cart[r])

(* PublishOrderCreated runs after Commit: no event, queued or delivered, is   *)
(* of an order that does not exist or may still be rolled back.               *)
NoPhantomEvent ==
  \A r \in Requests : event[r] # "none" \/ delivered[r] > 0 => tx[r] = "committed"

(* Every request that is received is answered unless its pod dies: waits for  *)
(* a connection, a row or the writer all end.                                 *)
RequestsAnswered ==
  \A r \in Requests : pc[r] \in InFlight ~> (status[r] # 0 \/ pc[r] = "dead")

(* A row a transaction has locked is freed, also when its client, its pod or  *)
(* its connection is gone.                                                    *)
LocksReleased == \A p \in Products : []<>(owner[p] = NoTx)

(* Every committed order is announced, or is one of the excused ones.         *)
OrdersAnnounced ==
  \A r \in Requests :
    tx[r] = "committed" ~> (delivered[r] > 0 \/ event[r] = "lost"
                              \/ status[r] = 500 \/ pc[r] = "dead")

(* internal/metrics/metrics.go:43 calls orders_amount_rubles_total the "Total *)
(* monetary amount of all created orders": once its handler is through, an    *)
(* order that exists has been counted.  It does not hold: the handler adds to *)
(* the counters only when Commit returned no error, and an interrupted Commit *)
(* may have created the order.                                                *)
AmountCoversEveryOrder ==
  \A r \in Requests : pc[r] = "done" /\ tx[r] = "committed" => counted[r] = "success"
-----------------------------------------------------------------------------
(* The invariant the proofs rest on: what ties the handler, its transaction,  *)
(* the rows and the answer of each request together.                          *)

(* The transaction a handler believes in, by where the handler is.            *)
TxOfHandler ==
  \A r \in Requests :
    /\ pc[r] \in {"new", "begin"} => tx[r] = "none" /\ done[r] = 0
    /\ pc[r] \in {"line", "update", "batch", "commit"} => tx[r] = "open"
    /\ pc[r] = "refuse" => tx[r] \in {"none", "open"}
    /\ pc[r] \in {"publish", "await"} => tx[r] = "committed"
    /\ pc[r] \in {"fail", "done", "dead"} => tx[r] # "open"
    /\ r \in Garbled => pc[r] \in {"new", "done"} /\ tx[r] = "none"

(* The answer given, against the transaction.                                 *)
TxOfAnswer ==
  \A r \in Requests :
    /\ status[r] # 0 => pc[r] = "done"
    /\ status[r] = 201 => tx[r] = "committed"
    /\ status[r] = 400 => tx[r] \in {"none", "doomed"}

(* A transaction has taken exactly what the lines behind it ask for, and      *)
(* only a cart gone through to its end is committed.                          *)
ItemsOfLines ==
  \A r \in Requests :
    /\ done[r] <= Len(cart[r])
    /\ \A i \in 1..done[r] : KnownLine(cart[r][i])
    /\ \A p \in Products :
         items[r][p] = IF tx[r] \in {"none", "aborted"} THEN 0
                       ELSE Demand(cart[r], p)[done[r]]
    /\ pc[r] \in {"batch", "commit"} \/ tx[r] \in {"indoubt", "committed"}
         => done[r] = Len(cart[r]) /\ HasItems(r)

(* Rows are locked by live transactions, by those that changed them, and for  *)
(* a line the handler has reached.                                            *)
LocksOfLines ==
  \A r \in Requests : \A p \in Products :
    /\ owner[p] = r => Live(r)
    /\ Live(r) /\ items[r][p] # 0 => owner[p] = r
    /\ owner[p] = r /\ pc[r] \in {"line", "update"} =>
         \E i \in 1..Len(cart[r]) :
            /\ ResolveProductID(cart[r][i]) = p
            /\ i <= done[r] \/ (pc[r] = "update" /\ i = done[r] + 1)

(* Between the stock check and the UPDATE the checked row stays locked and    *)
(* the checked stock stays there.                                             *)
CheckedStock ==
  \A r \in Requests :
    pc[r] = "update" => /\ MoreLines(r)
                        /\ Target(r) \in Products
                        /\ owner[Target(r)] = r
                        /\ Visible(r, Target(r)) >= Wanted(r)

(* All of that holds whoever else locks and sets the rows.                    *)
OrdersInv(Holders) ==
  /\ TypedWith(Holders)
  /\ TxOfHandler
  /\ TxOfAnswer
  /\ ItemsOfLines
  /\ LocksOfLines
  /\ CheckedStock
  /\ NoOversell
  /\ NoPhantomEvent

(* A refusal on its way out is still justified by the committed stock, while  *)
(* nothing but orders changes it.                                             *)
JustRefusals ==
  \A r \in Requests : pc[r] = "refuse" => ~Fulfillable(cart[r], stock)

IndInv == OrdersInv(Requests \cup {NoTx}) /\ JustRefusals
=============================================================================
