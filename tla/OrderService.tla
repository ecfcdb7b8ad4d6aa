---------------------------- MODULE OrderService ----------------------------
(* POST /api/orders of the order-service, statement by statement: the handler *)
(* (internal/handler/order_handler.go), the transaction it runs in PostgreSQL *)
(* (internal/repository/order_repo.go) and the event it publishes to Kafka    *)
(* (internal/kafka/producer.go), for several requests on several pods.        *)
(*                                                                            *)
(* PostgreSQL, the connection pool and the kafka-go writer are external: they *)
(* appear as the code uses them (row locks, READ COMMITTED, a deadlock        *)
(* detector, a bounded pool, a batch that is retried until acknowledged).     *)
EXTENDS CartDemand

CONSTANTS Requests,   \* the POST /api/orders requests
          Garbled,    \* those whose body is not a CreateOrderRequest
          Pods,       \* replicas of the order-service
          Home,       \* the pod that serves each request
          MaxConns,   \* connections in a pod's pool
          MaxCopies,  \* appends of one event the writer attempts
          Faults,     \* the kinds of fault that may occur
          NoTx        \* the owner of an unlocked row

FaultKinds == {"cancel",   \* the client goes away, its request context ends
               "db",       \* a statement fails or its connection is lost
               "broker",   \* Kafka refuses an event or loses an acknowledgement
               "crash"}    \* a pod is killed

ASSUME ServiceAssumption ==
  /\ Garbled \subseteq Requests
  /\ Home \in [Requests -> Pods]
  /\ MaxConns \in Nat \ {0}
  /\ MaxCopies \in Nat \ {0}
  /\ Faults \subseteq FaultKinds
  /\ NoTx \notin Requests

VARIABLES
  cart,       \* the cart each request carries
  pc,         \* where its handler is
  cancelled,  \* its request context is done
  done,       \* the lines of the cart the loop has been through
  tx,         \* its transaction
  items,      \* the units its transaction has taken, per product
  owner,      \* the request whose transaction holds each row's lock
  stock,      \* the committed stock column
  status,     \* the HTTP status written, 0 before
  counted,    \* the label under which the live pod has counted the request
  event,      \* its OrderCreatedEvent in the writer of the pod
  delivered   \* the copies of that event in the topic

vars == <<cart, pc, cancelled, done, tx, items, owner, stock, status, counted,
          event, delivered>>
replyVars == <<status, counted>>
busVars == <<event, delivered>>
dbVars == <<tx, items, owner, stock>>

InFlight == {"begin", "line", "update", "batch", "commit", "refuse", "fail",
             "publish", "await"}
Locations == InFlight \cup {"new", "done", "dead"}

(* A transaction is open while the handler drives it; aborted once the server *)
(* has rolled it back under the handler's feet; doomed when its connection is *)
(* gone and the server has yet to notice; indoubt when that happened with the *)
(* COMMIT on its way.                                                         *)
TxStates == {"none", "open", "aborted", "doomed", "indoubt", "committed"}

(* Rows may be locked by others than requests, where there are others.        *)
TypedWith(Holders) ==
  /\ cart \in [Requests -> Carts]
  /\ pc \in [Requests -> Locations]
  /\ cancelled \in [Requests -> BOOLEAN]
  /\ done \in [Requests -> Nat]
  /\ tx \in [Requests -> TxStates]
  /\ items \in [Requests -> [Products -> Nat]]
  /\ owner \in [Products -> Holders]
  /\ stock \in [Products -> Int]
  /\ status \in [Requests -> {0, 201, 400, 500}]
  /\ counted \in [Requests -> {"none", "bad_request", "failed", "success"}]
  /\ event \in [Requests -> {"none", "queued", "acked", "lost"}]
  /\ delivered \in [Requests -> 0..MaxCopies]

TypeOK == TypedWith(Requests \cup {NoTx})

Init ==
  /\ cart \in [Requests -> Carts]
  /\ pc = [r \in Requests |-> "new"]
  /\ cancelled = [r \in Requests |-> FALSE]
  /\ done = [r \in Requests |-> 0]
  /\ tx = [r \in Requests |-> "none"]
  /\ items = [r \in Requests |-> [p \in Products |-> 0]]
  /\ owner = [p \in Products |-> NoTx]
  /\ stock = InitStock
  /\ status = [r \in Requests |-> 0]
  /\ counted = [r \in Requests |-> "none"]
  /\ event = [r \in Requests |-> "none"]
  /\ delivered = [r \in Requests |-> 0]

-----------------------------------------------------------------------------
(* The transaction as the statements see it.                                  *)

Live(r) == tx[r] \in {"open", "doomed", "indoubt"}

(* A slip: one loop for the nested ids, then one for the direct ids.          *)
NamedDirectly(line) == line.product_id > 0
NamedNested(line) == ~NamedDirectly(line)
NestedIdsFirst(r) ==
  (SelectSeq(cart[r], NamedNested) \o SelectSeq(cart[r], NamedDirectly))[done[r] + 1]

CurrentLine(r) == cart[r][done[r] + 1]
MoreLines(r) == done[r] < Len(cart[r])
Target(r) == ResolveProductID(CurrentLine(r))
Wanted(r) == EffectiveQty(CurrentLine(r))

(* The stock a transaction reads: the committed value less its own updates.   *)
Visible(r, p) == stock[p] - items[r][p]

(* A slip: statements sent through the pool instead of the transaction.       *)
RowsUnlocked(r, p) == TRUE

LockFree(r, p) == owner[p] \in {r, NoTx}

HasItemsUnchecked(r) == TRUE   \* a slip: the check after the loop forgotten

(* Some line has been recorded in orderItems.                                 *)
HasItems(r) == \E p \in Products : items[r][p] # 0

(* Rolling back undoes the updates and frees the rows.                        *)
Undo(r) ==
  /\ items' = [items EXCEPT ![r] = [p \in Products |-> 0]]
  /\ owner' = [p \in Products |-> IF owner[p] = r THEN NoTx ELSE owner[p]]
  /\ UNCHANGED stock

(* Committing makes the updates the stock and frees the rows.                 *)
Apply(r) ==
  /\ stock' = [p \in Products |-> stock[p] - items[r][p]]
  /\ owner' = [p \in Products |-> IF owner[p] = r THEN NoTx ELSE owner[p]]
  /\ UNCHANGED items

(* A handler holds a connection from Begin until Commit or the deferred       *)
(* Rollback hands it back.                                                    *)
HoldsConn(r) ==
  pc[r] \in {"line", "update", "batch", "commit", "refuse", "fail"} /\ tx[r] # "none"
InUse(pod) == {r \in Requests : Home[r] = pod /\ HoldsConn(r)}

(* A call to the database may fail because the request context is done or     *)
(* because something breaks.                                                  *)
MayFail(r) == cancelled[r] \/ "db" \in Faults

Goto(r, l) == pc' = [pc EXCEPT ![r] = l]
SetTx(r, s) == tx' = [tx EXCEPT ![r] = s]

(* The lock a handler's statement waits for, and the circles of such waits    *)
(* PostgreSQL's deadlock detector looks for.                                  *)
Waiting(r) ==
  /\ pc[r] \in {"line", "update"}
  /\ tx[r] = "open"
  /\ MoreLines(r)
  /\ Target(r) \in Products
  /\ ~LockFree(r, Target(r))

WaitCycle(S) ==
  /\ S # {}
  /\ \A r \in S : Waiting(r) /\ owner[Target(r)] \in S
  /\ \A r \in S : \E s \in S : owner[Target(s)] = r

-----------------------------------------------------------------------------
(* The handler, from the request to the end of the transaction.               *)

(* OrderHandler.Create cannot decode the body.                                *)
DecodeFails(r) ==
  /\ pc[r] = "new"
  /\ r \in Garbled
  /\ Goto(r, "done")
  /\ status' = [status EXCEPT ![r] = 400]
  /\ counted' = [counted EXCEPT ![r] = "bad_request"]
  /\ UNCHANGED <<cart, cancelled, done, dbVars, busVars>>

(* OrderRepository.Create refuses an empty item list before it asks for a     *)
(* connection.                                                                *)
Receive(r) ==
  /\ pc[r] = "new"
  /\ r \notin Garbled
  /\ Goto(r, IF cart[r] = << >> THEN "refuse" ELSE "begin")
  /\ UNCHANGED <<cart, cancelled, done, dbVars, replyVars, busVars>>

(* pool.Begin waits for a free connection of the pod's pool.                  *)
Begin(r) ==
  /\ pc[r] = "begin"
  /\ ~cancelled[r]
  /\ Cardinality(InUse(Home[r])) < MaxConns
  /\ Goto(r, "line")
  /\ SetTx(r, "open")
  /\ UNCHANGED <<cart, cancelled, done, items, owner, stock, replyVars, busVars>>

BeginFails(r) ==
  /\ pc[r] = "begin"
  /\ MayFail(r)
  /\ Goto(r, "fail")
  /\ UNCHANGED <<cart, cancelled, done, dbVars, replyVars, busVars>>

SkipLine(r) ==
  /\ pc[r] = "line"
  /\ MoreLines(r)
  /\ Target(r) = 0
  /\ done' = [done EXCEPT ![r] = @ + 1]
  /\ UNCHANGED <<cart, pc, cancelled, dbVars, replyVars, busVars>>

(* SELECT ... FOR UPDATE finds no row.                                        *)
UnknownProduct(r) ==
  /\ pc[r] = "line"
  /\ ~cancelled[r]
  /\ MoreLines(r)
  /\ Target(r) \notin Products \cup {0}
  /\ Goto(r, "refuse")
  /\ UNCHANGED <<cart, cancelled, done, dbVars, replyVars, busVars>>

(* A slip: FOR UPDATE left out, the stock is read without the lock.           *)
SelectWithoutLock(r) ==
  /\ pc[r] = "line"
  /\ ~cancelled[r]
  /\ MoreLines(r)
  /\ Target(r) \in Products
  /\ Goto(r, IF Visible(r, Target(r)) < Wanted(r) THEN "refuse" ELSE "update")
  /\ UNCHANGED <<cart, cancelled, done, dbVars, replyVars, busVars>>

(* SELECT ... FOR UPDATE waits for the row, locks it and reads the stock; the *)
(* handler compares what it read with the quantity.                           *)
SelectForUpdate(r) ==
  /\ pc[r] = "line"
  /\ ~cancelled[r]
  /\ MoreLines(r)
  /\ Target(r) \in Products
  /\ LockFree(r, Target(r))
  /\ owner' = [owner EXCEPT ![Target(r)] = r]
  /\ Goto(r, IF Visible(r, Target(r)) < Wanted(r) THEN "refuse" ELSE "update")
  /\ UNCHANGED <<cart, cancelled, done, tx, items, stock, replyVars, busVars>>

(* A slip: a second line for a product replaces what the first one took.      *)
UpdateOverwrites(r) ==
  /\ pc[r] = "update"
  /\ ~cancelled[r]
  /\ LockFree(r, Target(r))
  /\ owner' = [owner EXCEPT ![Target(r)] = r]
  /\ items' = [items EXCEPT ![r][Target(r)] = Wanted(r)]
  /\ done' = [done EXCEPT ![r] = @ + 1]
  /\ Goto(r, "line")
  /\ UNCHANGED <<cart, cancelled, tx, stock, replyVars, busVars>>

(* UPDATE products SET stock = stock - qty; like any UPDATE it takes the row's *)
(* lock, which the SELECT already holds.                                      *)
UpdateStock(r) ==
  /\ pc[r] = "update"
  /\ ~cancelled[r]
  /\ LockFree(r, Target(r))
  /\ owner' = [owner EXCEPT ![Target(r)] = r]
  /\ items' = [items EXCEPT ![r][Target(r)] = @ + Wanted(r)]
  /\ done' = [done EXCEPT ![r] = @ + 1]
  /\ Goto(r, "line")
  /\ UNCHANGED <<cart, cancelled, tx, stock, replyVars, busVars>>

(* Every line was skipped.                                                    *)
EmptyOrder(r) ==
  /\ pc[r] = "line"
  /\ ~MoreLines(r)
  /\ ~HasItems(r)
  /\ Goto(r, "refuse")
  /\ UNCHANGED <<cart, cancelled, done, dbVars, replyVars, busVars>>

InsertOrder(r) ==
  /\ pc[r] = "line"
  /\ ~cancelled[r]
  /\ ~MoreLines(r)
  /\ HasItems(r)
  /\ Goto(r, "batch")
  /\ UNCHANGED <<cart, cancelled, done, dbVars, replyVars, busVars>>

(* A slip: the event handed to the writer before the transaction commits.     *)
PublishBeforeCommit(r) ==
  /\ pc[r] = "batch"
  /\ ~cancelled[r]
  /\ event' = [event EXCEPT ![r] = "queued"]
  /\ Goto(r, "commit")
  /\ UNCHANGED <<cart, cancelled, done, dbVars, replyVars, delivered>>

InsertItems(r) ==
  /\ pc[r] = "batch"
  /\ ~cancelled[r]
  /\ Goto(r, "commit")
  /\ UNCHANGED <<cart, cancelled, done, dbVars, replyVars, busVars>>

Commit(r) ==
  /\ pc[r] = "commit"
  /\ ~cancelled[r]
  /\ SetTx(r, "committed")
  /\ Apply(r)
  /\ Goto(r, "publish")
  /\ UNCHANGED <<cart, cancelled, done, replyVars, busVars>>

-----------------------------------------------------------------------------
(* A transaction that fails.                                                  *)

(* The handler is about to run, or waits in, a statement of its transaction.  *)
AtStatement(r) ==
  \/ pc[r] \in {"update", "batch", "commit"}
  \/ pc[r] = "line" /\ MoreLines(r) /\ Target(r) # 0
  \/ pc[r] = "line" /\ ~MoreLines(r) /\ HasItems(r)

(* The server reports an error: it has rolled the transaction back by then.   *)
StatementError(r) ==
  /\ AtStatement(r)
  /\ "db" \in Faults
  /\ SetTx(r, "aborted")
  /\ Undo(r)
  /\ Goto(r, "fail")
  /\ UNCHANGED <<cart, cancelled, done, replyVars, busVars>>

(* The context ends or the connection breaks.  pgx closes the connection; the *)
(* server goes on holding the locks until it finds out.                       *)
ConnectionLost(r) ==
  /\ AtStatement(r)
  /\ MayFail(r)
  /\ SetTx(r, "doomed")
  /\ Goto(r, "fail")
  /\ UNCHANGED <<cart, cancelled, done, items, owner, stock, replyVars, busVars>>

(* The same with the COMMIT already sent: its outcome is the server's.        *)
CommitInterrupted(r) ==
  /\ pc[r] = "commit"
  /\ MayFail(r)
  /\ SetTx(r, "indoubt")
  /\ Goto(r, "fail")
  /\ UNCHANGED <<cart, cancelled, done, items, owner, stock, replyVars, busVars>>

(* The deadlock detector picks a member of a circle of waits.                 *)
DeadlockVictim(r) ==
  /\ \E S \in SUBSET Requests : r \in S /\ WaitCycle(S)
  /\ SetTx(r, "aborted")
  /\ Undo(r)
  /\ Goto(r, "fail")
  /\ UNCHANGED <<cart, cancelled, done, replyVars, busVars>>

NoRollback(r) == UNCHANGED dbVars   \* a slip: the deferred call forgotten

(* The deferred tx.Rollback(ctx).  With the context done, or the connection   *)
(* broken, it only closes the connection.                                     *)
Rollback(r) ==
  \/ tx[r] = "open" /\ ~cancelled[r] /\ SetTx(r, "none") /\ Undo(r)
  \/ /\ tx[r] = "open"
     /\ MayFail(r)
     /\ SetTx(r, "doomed")
     /\ UNCHANGED <<items, owner, stock>>
  \/ tx[r] = "aborted" /\ SetTx(r, "none") /\ UNCHANGED <<items, owner, stock>>
  \/ tx[r] \notin {"open", "aborted"} /\ UNCHANGED dbVars

AlwaysBadRequest(r) == 400   \* a slip: every error answered alike

ErrorStatus(r) == IF pc[r] = "refuse" THEN 400 ELSE 500

(* OrderRepository.Create returns an error: rollback, metric, error answer.   *)
Unwind(r) ==
  /\ pc[r] \in {"refuse", "fail"}
  /\ Rollback(r)
  /\ status' = [status EXCEPT ![r] = ErrorStatus(r)]
  /\ counted' = [counted EXCEPT ![r] = "failed"]
  /\ Goto(r, "done")
  /\ UNCHANGED <<cart, cancelled, done, busVars>>

(* The server finds the connection gone.                                      *)
ServerAbort(r) ==
  /\ tx[r] \in {"doomed", "indoubt"}
  /\ SetTx(r, "none")
  /\ Undo(r)
  /\ UNCHANGED <<cart, pc, cancelled, done, replyVars, busVars>>

(* The COMMIT had arrived.                                                    *)
InDoubtCommit(r) ==
  /\ tx[r] = "indoubt"
  /\ SetTx(r, "committed")
  /\ Apply(r)
  /\ UNCHANGED <<cart, pc, cancelled, done, replyVars, busVars>>

-----------------------------------------------------------------------------
(* After the commit: metrics, event, answer.                                  *)

(* A slip: the event never handed to the writer.                              *)
CountOnly(r) ==
  /\ pc[r] = "publish"
  /\ counted' = [counted EXCEPT ![r] = "success"]
  /\ Goto(r, "await")
  /\ UNCHANGED <<cart, cancelled, done, dbVars, status, busVars>>

(* The handler counts the order and hands the event to the writer.            *)
Publish(r) ==
  /\ pc[r] = "publish"
  /\ counted' = [counted EXCEPT ![r] = "success"]
  /\ event' = [event EXCEPT ![r] = "queued"]
  /\ Goto(r, "await")
  /\ UNCHANGED <<cart, cancelled, done, dbVars, status, delivered>>

(* WriteMessages fails before it queues anything; the error is discarded.     *)
PublishFails(r) ==
  /\ pc[r] = "publish"
  /\ cancelled[r] \/ "broker" \in Faults
  /\ counted' = [counted EXCEPT ![r] = "success"]
  /\ event' = [event EXCEPT ![r] = "lost"]
  /\ status' = [status EXCEPT ![r] = 201]
  /\ Goto(r, "done")
  /\ UNCHANGED <<cart, cancelled, done, dbVars, delivered>>

(* A slip: publishing repeated until the broker has acknowledged.             *)
AnswerWhenAcked(r) ==
  /\ pc[r] = "await"
  /\ event[r] = "acked"
  /\ status' = [status EXCEPT ![r] = 201]
  /\ Goto(r, "done")
  /\ UNCHANGED <<cart, cancelled, done, dbVars, counted, busVars>>

(* WriteMessages returns: the batch was written or given up, or the context   *)
(* ended while it was still queued.  The answer is 201 whatever it returned.  *)
Answer(r) ==
  /\ pc[r] = "await"
  /\ event[r] # "queued" \/ cancelled[r]
  /\ status' = [status EXCEPT ![r] = 201]
  /\ Goto(r, "done")
  /\ UNCHANGED <<cart, cancelled, done, dbVars, counted, busVars>>

(* The leader appends the event and acknowledges it (RequireOne).             *)
BrokerAppend(r) ==
  /\ event[r] = "queued"
  /\ delivered[r] < MaxCopies
  /\ delivered' = [delivered EXCEPT ![r] = @ + 1]
  /\ event' = [event EXCEPT ![r] = "acked"]
  /\ UNCHANGED <<cart, pc, cancelled, done, dbVars, replyVars>>

(* The acknowledgement is lost: the writer will send the event again.         *)
BrokerAckLost(r) ==
  /\ "broker" \in Faults
  /\ event[r] = "queued"
  /\ delivered[r] < MaxCopies
  /\ delivered' = [delivered EXCEPT ![r] = @ + 1]
  /\ UNCHANGED <<cart, pc, cancelled, done, dbVars, replyVars, event>>

(* The writer's attempts are used up.                                         *)
BrokerGiveUp(r) ==
  /\ event[r] = "queued"
  /\ "broker" \in Faults
  /\ event' = [event EXCEPT ![r] = "lost"]
  /\ UNCHANGED <<cart, pc, cancelled, done, dbVars, replyVars, delivered>>

-----------------------------------------------------------------------------
(* The environment.                                                           *)

(* The client closes its connection: net/http cancels the request context.    *)
Cancel(r) ==
  /\ "cancel" \in Faults
  /\ pc[r] \in InFlight
  /\ ~cancelled[r]
  /\ cancelled' = [cancelled EXCEPT ![r] = TRUE]
  /\ UNCHANGED <<cart, pc, done, dbVars, replyVars, busVars>>

(* A pod's process ends with its handlers, counters and unsent events; the    *)
(* server is left with their transactions.                                    *)
Hit(pod) == {h \in Requests : Home[h] = pod /\ pc[h] \in InFlight}

Dies(pod) ==
  LET Sending == {h \in Hit(pod) : pc[h] = "commit" /\ tx[h] = "open"}
  IN  /\ pc' = [r \in Requests |-> IF r \in Hit(pod) THEN "dead" ELSE pc[r]]
      /\ \E S \in SUBSET Sending :
           tx' = [r \in Requests |->
                    CASE r \in S -> "indoubt"
                      [] r \in Hit(pod) \ S /\ tx[r] = "open" -> "doomed"
                      [] r \in Hit(pod) \ S /\ tx[r] = "aborted" -> "none"
                      [] OTHER -> tx[r]]
      /\ counted' = [r \in Requests |-> IF Home[r] = pod THEN "none" ELSE counted[r]]
      /\ event' = [r \in Requests |->
                     IF Home[r] = pod /\ event[r] = "queued" THEN "lost" ELSE event[r]]
      /\ UNCHANGED <<cart, cancelled, done, items, owner, stock, status, delivered>>

(* It is killed.                                                              *)
Crash(pod) ==
  /\ "crash" \in Faults
  /\ Hit(pod) # {} \/ \E r \in Requests : Home[r] = pod /\ event[r] = "queued"
  /\ Dies(pod)

-----------------------------------------------------------------------------
(* What a handler does when nothing fails, and how it fails.                  *)
Proceed(r) ==
  \/ DecodeFails(r) \/ Receive(r) \/ Begin(r)
  \/ SkipLine(r) \/ UnknownProduct(r) \/ SelectForUpdate(r) \/ UpdateStock(r)
  \/ EmptyOrder(r) \/ InsertOrder(r) \/ InsertItems(r) \/ Commit(r) \/ Unwind(r)
  \/ Publish(r) \/ Answer(r)

Falter(r) ==
  \/ BeginFails(r) \/ StatementError(r) \/ ConnectionLost(r)
  \/ CommitInterrupted(r) \/ PublishFails(r)

ServerSettles(r) == ServerAbort(r) \/ InDoubtCommit(r)
Broker(r) == BrokerAppend(r) \/ BrokerAckLost(r) \/ BrokerGiveUp(r)

Next ==
  \/ \E r \in Requests : \/ Proceed(r) \/ Falter(r) \/ DeadlockVictim(r)
                         \/ ServerSettles(r) \/ Broker(r) \/ Cancel(r)
  \/ \E pod \in Pods : Crash(pod)

Spec == Init /\ [][Next]_vars

(* Goroutines run, PostgreSQL grants free rows, notices dead connections and  *)
(* breaks deadlocks, a done context is seen, the writer's batches are sent.   *)
(* Nothing is assumed of clients, faults and crashes.                         *)
Fairness ==
  \A r \in Requests :
    /\ WF_vars(Proceed(r))
    /\ WF_vars(cancelled[r] /\ Falter(r))
    /\ WF_vars(DeadlockVictim(r))
    /\ WF_vars(ServerSettles(r))
    /\ WF_vars(Broker(r))

FairSpec == Spec /\ Fairness
=============================================================================
