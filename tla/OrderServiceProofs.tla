------------------------- MODULE OrderServiceProofs -------------------------
(* OrderService keeps its promises for every number of requests, pods and     *)
(* connections, every catalogue, every set of carts and every kind of fault.  *)
(*                                                                            *)
(* IndInv is inductive: InitStep, one lemma per conjunct for Next, and        *)
(* StutterStep.  The properties follow from it, the refinement of OrderLedger *)
(* from it and the map of each step to a ledger step, and from that step the  *)
(* conservation of stock.                                                     *)
EXTENDS OrderServiceProperties, CartDemandProofs, SequenceTheorems

(* A transaction with a statement to run is open.                             *)
LEMMA StatementWhere ==
  ASSUME NEW r \in Requests, AtStatement(r)
  PROVE  pc[r] \in {"line", "update", "batch", "commit"}
  BY DEF AtStatement

(* What becomes of a request whose transaction is the victim of a deadlock:   *)
(* it was waiting for a row, and all of it is undone.                         *)
Beaten(r) ==
  /\ pc[r] \in {"line", "update"}
  /\ SetTx(r, "aborted")
  /\ Undo(r)
  /\ Goto(r, "fail")
  /\ UNCHANGED <<cart, cancelled, done, replyVars, busVars>>

(* What happens to orders, whoever they share rows with and whatever it is    *)
(* that breaks a deadlock or kills a pod.                                     *)
OrdersStep ==
  \/ \E r \in Requests : \/ Proceed(r) \/ Falter(r) \/ Beaten(r)
                         \/ ServerSettles(r) \/ Broker(r) \/ Cancel(r)
  \/ \E pod \in Pods : Dies(pod)

(* The detector of OrderService picks such a request.                         *)
LEMMA VictimEffect ==
  ASSUME NEW r \in Requests, DeadlockVictim(r)
  PROVE  Beaten(r)
  BY DEF DeadlockVictim, WaitCycle, Waiting, Beaten

(* So a step of OrderService is one of those.                                 *)
LEMMA StepsOfOrders == Next => OrdersStep
  BY VictimEffect DEF Next, OrdersStep, Crash

(* A line that is there to be processed has an id and a positive quantity.    *)
LEMMA CurrentLineFacts ==
  ASSUME NEW r \in Requests, cart[r] \in Carts, done[r] \in Nat, MoreLines(r)
  PROVE  /\ cart[r] \in Carts /\ done[r] \in Nat
         /\ Len(cart[r]) \in Nat
         /\ done[r] + 1 \in 1..Len(cart[r])
         /\ Target(r) \in Int
         /\ Wanted(r) \in Nat \ {0}
<1>1. Len(cart[r]) \in Nat
  BY LengthFact
<1>2. done[r] + 1 \in 1..Len(cart[r])
  BY <1>1 DEF MoreLines
<1> QED
  BY <1>1, <1>2, LineFacts DEF Target, Wanted, CurrentLine

-----------------------------------------------------------------------------
(* The initial states.                                                        *)
LEMMA InitStep == Init => IndInv
<1> SUFFICES ASSUME Init PROVE IndInv
  OBVIOUS
<1>1. TypeOK
  BY CatalogueAssumption, ServiceAssumption DEF Init, TypeOK, TypedWith, Locations, InFlight, TxStates
<1>2. TxOfHandler /\ TxOfAnswer /\ CheckedStock /\ JustRefusals /\ NoPhantomEvent
  BY DEF Init, TxOfHandler, TxOfAnswer, CheckedStock, JustRefusals, NoPhantomEvent
<1>3. ItemsOfLines
  BY LengthFact DEF Init, ItemsOfLines
<1>4. LocksOfLines
  BY ServiceAssumption DEF Init, LocksOfLines, Live
<1>5. NoOversell
  BY CatalogueAssumption DEF Init, NoOversell, Live
<1> QED
  BY <1>1, <1>2, <1>3, <1>4, <1>5 DEF IndInv, OrdersInv, TypeOK

(* The deferred rollback leaves a typed database.                             *)
LEMMA RollbackType ==
  ASSUME NEW Holders, Requests \cup {NoTx} \subseteq Holders, TypedWith(Holders), NEW r \in Requests, Rollback(r)
  PROVE  /\ tx' \in [Requests -> TxStates]
         /\ items' \in [Requests -> [Products -> Nat]]
         /\ owner' \in [Products -> Holders]
         /\ stock' \in [Products -> Int]
<1> USE DEF SetTx, Undo, dbVars, TxStates
<1>1. CASE tx[r] = "open" /\ ~cancelled[r] /\ SetTx(r, "none") /\ Undo(r)
  BY <1>1 DEF TypedWith
<1>2. CASE SetTx(r, "doomed") /\ UNCHANGED <<items, owner, stock>>
  BY <1>2 DEF TypedWith
<1>3. CASE SetTx(r, "none") /\ UNCHANGED <<items, owner, stock>>
  BY <1>3 DEF TypedWith
<1>4. CASE UNCHANGED dbVars
  BY <1>4 DEF TypedWith
<1> QED
  BY <1>1, <1>2, <1>3, <1>4 DEF Rollback

(* Every step keeps the types.                                                *)
LEMMA TypeStep ==
  ASSUME NEW Holders, Requests \cup {NoTx} \subseteq Holders, OrdersInv(Holders), OrdersStep
  PROVE  TypedWith(Holders)'
<1> USE DEF Goto, SetTx, Undo, Apply, dbVars, replyVars, busVars,
            Locations, InFlight, TxStates
<1>0. TypedWith(Holders)
  BY DEF OrdersInv
<1>1. ASSUME NEW r \in Requests, Proceed(r) PROVE TypedWith(Holders)'
  <2>1. CASE DecodeFails(r)
    BY <1>0, <2>1 DEF DecodeFails, TypedWith
  <2>2. CASE Receive(r)
    BY <1>0, <2>2 DEF Receive, TypedWith
  <2>3. CASE Begin(r)
    BY <1>0, <2>3 DEF Begin, TypedWith
  <2>4. CASE SkipLine(r)
    BY <1>0, <2>4 DEF SkipLine, TypedWith
  <2>5. CASE UnknownProduct(r)
    BY <1>0, <2>5 DEF UnknownProduct, TypedWith
  <2>6. CASE SelectForUpdate(r)
    BY <1>0, <2>6 DEF SelectForUpdate, TypedWith
  <2>7. CASE UpdateStock(r)
    <3>1. /\ Target(r) \in Products /\ Wanted(r) \in Nat
          /\ done[r] \in Nat /\ items[r][Target(r)] \in Nat
      BY <1>0, <2>7, CurrentLineFacts DEF OrdersInv, CheckedStock, UpdateStock, TypedWith
    <3>2. items[r][Target(r)] + Wanted(r) \in Nat /\ done[r] + 1 \in Nat
      BY <3>1
    <3> QED
      BY <1>0, <2>7, <3>1, <3>2 DEF UpdateStock, TypedWith
  <2>8. CASE EmptyOrder(r)
    BY <1>0, <2>8 DEF EmptyOrder, TypedWith
  <2>9. CASE InsertOrder(r)
    BY <1>0, <2>9 DEF InsertOrder, TypedWith
  <2>10. CASE InsertItems(r)
    BY <1>0, <2>10 DEF InsertItems, TypedWith
  <2>11. CASE Commit(r)
    BY <1>0, <2>11 DEF Commit, TypedWith
  <2>12. CASE Unwind(r)
    <3>1. /\ tx' \in [Requests -> TxStates]
          /\ items' \in [Requests -> [Products -> Nat]]
          /\ owner' \in [Products -> Holders]
          /\ stock' \in [Products -> Int]
      <4>1. Rollback(r)
        BY <2>12 DEF Unwind
      <4> QED
        BY ONLY <1>0, <4>1, RollbackType, r \in Requests, Requests \cup {NoTx} \subseteq Holders
    <3>2. /\ pc' = [pc EXCEPT ![r] = "done"] /\ counted' = [counted EXCEPT ![r] = "failed"]
          /\ status' = [status EXCEPT ![r] = ErrorStatus(r)]
          /\ UNCHANGED <<cart, cancelled, done, event, delivered>>
      BY <2>12 DEF Unwind
    <3>3. ErrorStatus(r) \in {0, 201, 400, 500}
      BY DEF ErrorStatus
    <3> QED
      BY <1>0, <3>1, <3>2, <3>3 DEF TypedWith
  <2>13. CASE Publish(r)
    BY <1>0, <2>13 DEF Publish, TypedWith
  <2>14. CASE Answer(r)
    BY <1>0, <2>14 DEF Answer, TypedWith
  <2> QED
    BY <1>1, <2>1, <2>2, <2>3, <2>4, <2>5, <2>6, <2>7, <2>8, <2>9, <2>10, <2>11, <2>12, <2>13, <2>14 DEF Proceed
<1>2. ASSUME NEW r \in Requests, Falter(r) PROVE TypedWith(Holders)'
  <2>1. CASE BeginFails(r)
    BY <1>0, <2>1 DEF BeginFails, TypedWith
  <2>2. CASE StatementError(r)
    BY <1>0, <2>2 DEF StatementError, TypedWith
  <2>3. CASE ConnectionLost(r)
    BY <1>0, <2>3 DEF ConnectionLost, TypedWith
  <2>4. CASE CommitInterrupted(r)
    BY <1>0, <2>4 DEF CommitInterrupted, TypedWith
  <2>5. CASE PublishFails(r)
    BY <1>0, <2>5 DEF PublishFails, TypedWith
  <2> QED
    BY <1>2, <2>1, <2>2, <2>3, <2>4, <2>5 DEF Falter
<1>3. ASSUME NEW r \in Requests, ServerSettles(r) PROVE TypedWith(Holders)'
  <2>1. CASE ServerAbort(r)
    BY <1>0, <2>1 DEF ServerAbort, TypedWith
  <2>2. CASE InDoubtCommit(r)
    BY <1>0, <2>2 DEF InDoubtCommit, TypedWith
  <2> QED
    BY <1>3, <2>1, <2>2 DEF ServerSettles
<1>4. ASSUME NEW r \in Requests, Broker(r) PROVE TypedWith(Holders)'
  <2>1. CASE BrokerAppend(r)
    BY <1>0, <2>1, ServiceAssumption DEF BrokerAppend, TypedWith
  <2>2. CASE BrokerAckLost(r)
    BY <1>0, <2>2, ServiceAssumption DEF BrokerAckLost, TypedWith
  <2>3. CASE BrokerGiveUp(r)
    BY <1>0, <2>3, ServiceAssumption DEF BrokerGiveUp, TypedWith
  <2> QED
    BY <1>4, <2>1, <2>2, <2>3 DEF Broker
<1>5. ASSUME NEW r \in Requests, Beaten(r) PROVE TypedWith(Holders)'
  BY <1>0, <1>5 DEF Beaten, TypedWith
<1>6. ASSUME NEW r \in Requests, Cancel(r) PROVE TypedWith(Holders)'
  BY <1>0, <1>6 DEF Cancel, TypedWith
<1>7. ASSUME NEW pod \in Pods, Dies(pod) PROVE TypedWith(Holders)'
  BY <1>0, <1>7 DEF Dies, Hit, TypedWith
<1> QED
  BY <1>1, <1>2, <1>3, <1>4, <1>5, <1>6, <1>7 DEF OrdersStep

(* Every step keeps the handler and its transaction in agreement.             *)
LEMMA TxOfHandlerStep ==
  ASSUME NEW Holders, Requests \cup {NoTx} \subseteq Holders, OrdersInv(Holders), OrdersStep
  PROVE  TxOfHandler'
<1> USE DEF Goto, SetTx, Undo, Apply, dbVars, replyVars, busVars, Locations, InFlight
<1>0. TypedWith(Holders) /\ TxOfHandler
  BY DEF OrdersInv
<1>1. ASSUME NEW r \in Requests, Proceed(r) PROVE TxOfHandler'
  <2>1. CASE DecodeFails(r)
    BY <1>0, <2>1 DEF DecodeFails, TypedWith, TxOfHandler
  <2>2. CASE Receive(r)
    BY <1>0, <2>2 DEF Receive, TypedWith, TxOfHandler
  <2>3. CASE Begin(r)
    BY <1>0, <2>3 DEF Begin, TypedWith, TxOfHandler
  <2>4. CASE SkipLine(r)
    BY <1>0, <2>4 DEF SkipLine, TypedWith, TxOfHandler
  <2>5. CASE UnknownProduct(r)
    BY <1>0, <2>5 DEF UnknownProduct, TypedWith, TxOfHandler
  <2>6. CASE SelectForUpdate(r)
    BY <1>0, <2>6 DEF SelectForUpdate, TypedWith, TxOfHandler
  <2>7. CASE UpdateStock(r)
    BY <1>0, <2>7 DEF UpdateStock, TypedWith, TxOfHandler
  <2>8. CASE EmptyOrder(r)
    BY <1>0, <2>8 DEF EmptyOrder, TypedWith, TxOfHandler
  <2>9. CASE InsertOrder(r)
    BY <1>0, <2>9 DEF InsertOrder, TypedWith, TxOfHandler
  <2>10. CASE InsertItems(r)
    BY <1>0, <2>10 DEF InsertItems, TypedWith, TxOfHandler
  <2>11. CASE Commit(r)
    BY <1>0, <2>11 DEF Commit, TypedWith, TxOfHandler
  <2>12. CASE Unwind(r)
    BY <1>0, <2>12 DEF Rollback, Unwind, TypedWith, TxOfHandler
  <2>13. CASE Publish(r)
    BY <1>0, <2>13 DEF Publish, TypedWith, TxOfHandler
  <2>14. CASE Answer(r)
    BY <1>0, <2>14 DEF Answer, TypedWith, TxOfHandler
  <2> QED
    BY <1>1, <2>1, <2>2, <2>3, <2>4, <2>5, <2>6, <2>7, <2>8, <2>9, <2>10, <2>11, <2>12, <2>13, <2>14 DEF Proceed
<1>2. ASSUME NEW r \in Requests, Falter(r) PROVE TxOfHandler'
  <2>1. CASE BeginFails(r)
    BY <1>0, <2>1 DEF BeginFails, TypedWith, TxOfHandler
  <2>2. CASE StatementError(r)
    BY <1>0, <2>2, StatementWhere DEF StatementError, TypedWith, TxOfHandler
  <2>3. CASE ConnectionLost(r)
    BY <1>0, <2>3, StatementWhere DEF ConnectionLost, TypedWith, TxOfHandler
  <2>4. CASE CommitInterrupted(r)
    BY <1>0, <2>4 DEF CommitInterrupted, TypedWith, TxOfHandler
  <2>5. CASE PublishFails(r)
    BY <1>0, <2>5 DEF PublishFails, TypedWith, TxOfHandler
  <2> QED
    BY <1>2, <2>1, <2>2, <2>3, <2>4, <2>5 DEF Falter
<1>3. ASSUME NEW r \in Requests, ServerSettles(r) PROVE TxOfHandler'
  <2>1. CASE ServerAbort(r)
    BY <1>0, <2>1 DEF ServerAbort, TypedWith, TxOfHandler
  <2>2. CASE InDoubtCommit(r)
    BY <1>0, <2>2 DEF InDoubtCommit, TypedWith, TxOfHandler
  <2> QED
    BY <1>3, <2>1, <2>2 DEF ServerSettles
<1>4. ASSUME NEW r \in Requests, Broker(r) PROVE TxOfHandler'
  <2>1. CASE BrokerAppend(r)
    BY <1>0, <2>1 DEF BrokerAppend, TypedWith, TxOfHandler
  <2>2. CASE BrokerAckLost(r)
    BY <1>0, <2>2 DEF BrokerAckLost, TypedWith, TxOfHandler
  <2>3. CASE BrokerGiveUp(r)
    BY <1>0, <2>3 DEF BrokerGiveUp, TypedWith, TxOfHandler
  <2> QED
    BY <1>4, <2>1, <2>2, <2>3 DEF Broker
<1>5. ASSUME NEW r \in Requests, Beaten(r) PROVE TxOfHandler'
  <2>1. /\ pc[r] \in {"line", "update"}
        /\ SetTx(r, "aborted") /\ Undo(r) /\ Goto(r, "fail")
        /\ UNCHANGED <<cart, cancelled, done, replyVars, busVars>>
    BY <1>5 DEF Beaten
  <2> QED
    BY <1>0, <2>1 DEF TypedWith, TxOfHandler
<1>6. ASSUME NEW r \in Requests, Cancel(r) PROVE TxOfHandler'
  BY <1>0, <1>6 DEF Cancel, TypedWith, TxOfHandler
<1>7. ASSUME NEW pod \in Pods, Dies(pod) PROVE TxOfHandler'
  BY <1>0, <1>7 DEF Dies, Hit, TypedWith, TxOfHandler
<1> QED
  BY <1>1, <1>2, <1>3, <1>4, <1>5, <1>6, <1>7 DEF OrdersStep

(* Every step keeps the answer and the transaction in agreement.              *)
LEMMA TxOfAnswerStep ==
  ASSUME NEW Holders, Requests \cup {NoTx} \subseteq Holders, OrdersInv(Holders), OrdersStep
  PROVE  TxOfAnswer'
<1> USE DEF Goto, SetTx, Undo, Apply, dbVars, replyVars, busVars, InFlight
<1>0. TypedWith(Holders) /\ TxOfHandler /\ TxOfAnswer
  BY DEF OrdersInv
<1>1. ASSUME NEW r \in Requests, Proceed(r) PROVE TxOfAnswer'
  <2>1. CASE DecodeFails(r)
    BY <1>0, <2>1 DEF DecodeFails, TypedWith, TxOfHandler, TxOfAnswer
  <2>2. CASE Receive(r)
    BY <1>0, <2>2 DEF Receive, TypedWith, TxOfHandler, TxOfAnswer
  <2>3. CASE Begin(r)
    BY <1>0, <2>3 DEF Begin, TypedWith, TxOfHandler, TxOfAnswer
  <2>4. CASE SkipLine(r)
    BY <1>0, <2>4 DEF SkipLine, TypedWith, TxOfHandler, TxOfAnswer
  <2>5. CASE UnknownProduct(r)
    BY <1>0, <2>5 DEF UnknownProduct, TypedWith, TxOfHandler, TxOfAnswer
  <2>6. CASE SelectForUpdate(r)
    BY <1>0, <2>6 DEF SelectForUpdate, TypedWith, TxOfHandler, TxOfAnswer
  <2>7. CASE UpdateStock(r)
    BY <1>0, <2>7 DEF UpdateStock, TypedWith, TxOfHandler, TxOfAnswer
  <2>8. CASE EmptyOrder(r)
    BY <1>0, <2>8 DEF EmptyOrder, TypedWith, TxOfHandler, TxOfAnswer
  <2>9. CASE InsertOrder(r)
    BY <1>0, <2>9 DEF InsertOrder, TypedWith, TxOfHandler, TxOfAnswer
  <2>10. CASE InsertItems(r)
    BY <1>0, <2>10 DEF InsertItems, TypedWith, TxOfHandler, TxOfAnswer
  <2>11. CASE Commit(r)
    BY <1>0, <2>11 DEF Commit, TypedWith, TxOfHandler, TxOfAnswer
  <2>12. CASE Unwind(r)
    BY <1>0, <2>12 DEF Rollback, ErrorStatus, Unwind, TypedWith, TxOfHandler, TxOfAnswer
  <2>13. CASE Publish(r)
    BY <1>0, <2>13 DEF Publish, TypedWith, TxOfHandler, TxOfAnswer
  <2>14. CASE Answer(r)
    BY <1>0, <2>14 DEF Answer, TypedWith, TxOfHandler, TxOfAnswer
  <2> QED
    BY <1>1, <2>1, <2>2, <2>3, <2>4, <2>5, <2>6, <2>7, <2>8, <2>9, <2>10, <2>11, <2>12, <2>13, <2>14 DEF Proceed
<1>2. ASSUME NEW r \in Requests, Falter(r) PROVE TxOfAnswer'
  <2>1. CASE BeginFails(r)
    BY <1>0, <2>1 DEF BeginFails, TypedWith, TxOfHandler, TxOfAnswer
  <2>2. CASE StatementError(r)
    BY <1>0, <2>2, StatementWhere DEF StatementError, TypedWith, TxOfHandler, TxOfAnswer
  <2>3. CASE ConnectionLost(r)
    BY <1>0, <2>3, StatementWhere DEF ConnectionLost, TypedWith, TxOfHandler, TxOfAnswer
  <2>4. CASE CommitInterrupted(r)
    BY <1>0, <2>4 DEF CommitInterrupted, TypedWith, TxOfHandler, TxOfAnswer
  <2>5. CASE PublishFails(r)
    BY <1>0, <2>5 DEF PublishFails, TypedWith, TxOfHandler, TxOfAnswer
  <2> QED
    BY <1>2, <2>1, <2>2, <2>3, <2>4, <2>5 DEF Falter
<1>3. ASSUME NEW r \in Requests, ServerSettles(r) PROVE TxOfAnswer'
  <2>1. CASE ServerAbort(r)
    BY <1>0, <2>1 DEF ServerAbort, TypedWith, TxOfHandler, TxOfAnswer
  <2>2. CASE InDoubtCommit(r)
    BY <1>0, <2>2 DEF InDoubtCommit, TypedWith, TxOfHandler, TxOfAnswer
  <2> QED
    BY <1>3, <2>1, <2>2 DEF ServerSettles
<1>4. ASSUME NEW r \in Requests, Broker(r) PROVE TxOfAnswer'
  <2>1. CASE BrokerAppend(r)
    BY <1>0, <2>1 DEF BrokerAppend, TypedWith, TxOfHandler, TxOfAnswer
  <2>2. CASE BrokerAckLost(r)
    BY <1>0, <2>2 DEF BrokerAckLost, TypedWith, TxOfHandler, TxOfAnswer
  <2>3. CASE BrokerGiveUp(r)
    BY <1>0, <2>3 DEF BrokerGiveUp, TypedWith, TxOfHandler, TxOfAnswer
  <2> QED
    BY <1>4, <2>1, <2>2, <2>3 DEF Broker
<1>5. ASSUME NEW r \in Requests, Beaten(r) PROVE TxOfAnswer'
  <2>1. /\ pc[r] \in {"line", "update"}
        /\ SetTx(r, "aborted") /\ Undo(r) /\ Goto(r, "fail")
        /\ UNCHANGED <<cart, cancelled, done, replyVars, busVars>>
    BY <1>5 DEF Beaten
  <2> QED
    BY <1>0, <2>1 DEF TypedWith, TxOfHandler, TxOfAnswer
<1>6. ASSUME NEW r \in Requests, Cancel(r) PROVE TxOfAnswer'
  BY <1>0, <1>6 DEF Cancel, TypedWith, TxOfHandler, TxOfAnswer
<1>7. ASSUME NEW pod \in Pods, Dies(pod) PROVE TxOfAnswer'
  BY <1>0, <1>7 DEF Dies, Hit, TypedWith, TxOfHandler, TxOfAnswer
<1> QED
  BY <1>1, <1>2, <1>3, <1>4, <1>5, <1>6, <1>7 DEF OrdersStep

(* Every step keeps what a transaction took equal to what its lines ask for.  *)
LEMMA ItemsOfLinesStep ==
  ASSUME NEW Holders, Requests \cup {NoTx} \subseteq Holders, OrdersInv(Holders), OrdersStep
  PROVE  ItemsOfLines'
<1> USE DEF Goto, SetTx, Undo, Apply, dbVars, replyVars, busVars
<1>0. TypedWith(Holders) /\ TxOfHandler /\ ItemsOfLines /\ CheckedStock
  BY DEF OrdersInv
<1>1. ASSUME NEW r \in Requests, Proceed(r) PROVE ItemsOfLines'
  <2>1. CASE DecodeFails(r)
    BY <1>0, <2>1 DEF DecodeFails, TypedWith, TxOfHandler, ItemsOfLines, CheckedStock, HasItems
  <2>2. CASE Receive(r)
    BY <1>0, <2>2 DEF Receive, TypedWith, TxOfHandler, ItemsOfLines, CheckedStock, HasItems
  <2>3. CASE Begin(r)
    <3>1. \A p \in Products : Demand(cart[r], p)[0] = 0
      BY <1>0, DemandSteps DEF TypedWith
    <3> QED
      BY <1>0, <2>3, <3>1 DEF Begin, TypedWith, TxOfHandler, ItemsOfLines, HasItems
  <2>4. CASE SkipLine(r)
    <3>1. /\ cart[r] \in Carts /\ done[r] \in Nat /\ Len(cart[r]) \in Nat
          /\ done[r] + 1 \in 1..Len(cart[r])
      BY <1>0, <2>4, CurrentLineFacts DEF SkipLine, TypedWith
    <3>2. ResolveProductID(cart[r][done[r] + 1]) = 0
      BY <2>4 DEF SkipLine, Target, CurrentLine
    <3>3. KnownLine(cart[r][done[r] + 1])
      BY <3>2 DEF KnownLine
    <3>4. \A p \in Products : LineDemand(cart[r][done[r] + 1], p) = 0
      BY <3>2, CatalogueAssumption DEF LineDemand
    <3>5. \A p \in Products : Demand(cart[r], p)[done[r] + 1] =
            Demand(cart[r], p)[done[r]] + LineDemand(cart[r][done[r] + 1], p)
      BY <3>1, DemandSteps
    <3>6. \A p \in Products : Demand(cart[r], p)[done[r] + 1] = Demand(cart[r], p)[done[r]]
      BY <3>1, <3>4, <3>5, DemandType
    <3> QED
      BY <1>0, <2>4, <3>1, <3>3, <3>6 DEF SkipLine, TypedWith, TxOfHandler, ItemsOfLines, HasItems
  <2>5. CASE UnknownProduct(r)
    BY <1>0, <2>5 DEF UnknownProduct, TypedWith, TxOfHandler, ItemsOfLines, CheckedStock, HasItems
  <2>6. CASE SelectForUpdate(r)
    BY <1>0, <2>6 DEF SelectForUpdate, TypedWith, TxOfHandler, ItemsOfLines, CheckedStock, HasItems
  <2>7. CASE UpdateStock(r)
    <3>1. /\ cart[r] \in Carts /\ done[r] \in Nat /\ Len(cart[r]) \in Nat
          /\ done[r] + 1 \in 1..Len(cart[r])
          /\ Target(r) \in Products /\ Wanted(r) \in Nat \ {0}
      BY <1>0, <2>7, CurrentLineFacts DEF UpdateStock, CheckedStock, TypedWith
    <3>2. KnownLine(cart[r][done[r] + 1])
      BY <3>1 DEF KnownLine, Target, CurrentLine
    <3>3. \A p \in Products : Demand(cart[r], p)[done[r] + 1] =
            Demand(cart[r], p)[done[r]] + (IF p = Target(r) THEN Wanted(r) ELSE 0)
      BY <3>1, DemandSteps DEF LineDemand, Target, Wanted, CurrentLine
    <3>4. \A p \in Products : items[r][p] = Demand(cart[r], p)[done[r]]
      BY <1>0, <2>7 DEF UpdateStock, TxOfHandler, ItemsOfLines
    <3>5. \A p \in Products : items'[r][p] = Demand(cart[r], p)[done[r] + 1]
      BY <1>0, <2>7, <3>1, <3>3, <3>4, DemandType DEF UpdateStock, TypedWith
    <3>6. \A s \in Requests \ {r} : items'[s] = items[s] /\ done'[s] = done[s] /\ pc'[s] = pc[s]
      BY <1>0, <2>7 DEF UpdateStock, TypedWith
    <3>7. done'[r] = done[r] + 1 /\ pc'[r] = "line" /\ tx[r] = "open" /\ UNCHANGED <<cart, tx>>
      BY <1>0, <2>7 DEF UpdateStock, TypedWith, TxOfHandler
    <3> SUFFICES ASSUME NEW s \in Requests PROVE (ItemsOfLines!(s))'
      BY DEF ItemsOfLines
    <3>8. CASE s = r
      BY <1>0, <3>1, <3>2, <3>5, <3>7, <3>8 DEF TypedWith, TxOfHandler, ItemsOfLines, HasItems
    <3>9. CASE s # r
      BY <1>0, <3>6, <3>7, <3>9 DEF TypedWith, TxOfHandler, ItemsOfLines, HasItems
    <3> QED
      BY <3>8, <3>9
  <2>8. CASE EmptyOrder(r)
    BY <1>0, <2>8 DEF EmptyOrder, TypedWith, TxOfHandler, ItemsOfLines, CheckedStock, HasItems
  <2>9. CASE InsertOrder(r)
    <3>1. done[r] = Len(cart[r])
      BY <1>0, <2>9, LengthFact DEF InsertOrder, MoreLines, TypedWith, ItemsOfLines
    <3> QED
      BY <1>0, <2>9, <3>1 DEF InsertOrder, TypedWith, TxOfHandler, ItemsOfLines, HasItems
  <2>10. CASE InsertItems(r)
    BY <1>0, <2>10 DEF InsertItems, TypedWith, TxOfHandler, ItemsOfLines, CheckedStock, HasItems
  <2>11. CASE Commit(r)
    BY <1>0, <2>11 DEF Commit, TypedWith, TxOfHandler, ItemsOfLines, CheckedStock, HasItems
  <2>12. CASE Unwind(r)
    <3>1. CASE tx[r] = "open" /\ SetTx(r, "none") /\ Undo(r)
      BY <1>0, <2>12, <3>1 DEF Unwind, TypedWith, TxOfHandler, ItemsOfLines, HasItems
    <3>2. CASE tx[r] = "open" /\ SetTx(r, "doomed") /\ UNCHANGED <<items, owner, stock>>
      BY <1>0, <2>12, <3>2 DEF Unwind, TypedWith, TxOfHandler, ItemsOfLines, HasItems
    <3>3. CASE tx[r] = "aborted" /\ SetTx(r, "none") /\ UNCHANGED <<items, owner, stock>>
      BY <1>0, <2>12, <3>3 DEF Unwind, TypedWith, TxOfHandler, ItemsOfLines, HasItems
    <3>4. CASE UNCHANGED dbVars
      BY <1>0, <2>12, <3>4 DEF Unwind, TypedWith, TxOfHandler, ItemsOfLines, HasItems
    <3> QED
      BY <2>12, <3>1, <3>2, <3>3, <3>4 DEF Unwind, Rollback
  <2>13. CASE Publish(r)
    BY <1>0, <2>13 DEF Publish, TypedWith, TxOfHandler, ItemsOfLines, CheckedStock, HasItems
  <2>14. CASE Answer(r)
    BY <1>0, <2>14 DEF Answer, TypedWith, TxOfHandler, ItemsOfLines, CheckedStock, HasItems
  <2> QED
    BY <1>1, <2>1, <2>2, <2>3, <2>4, <2>5, <2>6, <2>7, <2>8, <2>9, <2>10, <2>11, <2>12, <2>13, <2>14 DEF Proceed
<1>2. ASSUME NEW r \in Requests, Falter(r) PROVE ItemsOfLines'
  <2>1. CASE BeginFails(r)
    BY <1>0, <2>1 DEF BeginFails, TypedWith, TxOfHandler, ItemsOfLines, CheckedStock, HasItems
  <2>2. CASE StatementError(r)
    BY <1>0, <2>2, StatementWhere DEF StatementError, TypedWith, TxOfHandler, ItemsOfLines, CheckedStock, HasItems
  <2>3. CASE ConnectionLost(r)
    <3>1. pc[r] \in {"line", "update", "batch", "commit"}
      BY <2>3, StatementWhere DEF ConnectionLost
    <3> QED
      BY <1>0, <2>3, <3>1 DEF ConnectionLost, TypedWith, TxOfHandler, ItemsOfLines, HasItems
  <2>4. CASE CommitInterrupted(r)
    BY <1>0, <2>4 DEF CommitInterrupted, TypedWith, TxOfHandler, ItemsOfLines, CheckedStock, HasItems
  <2>5. CASE PublishFails(r)
    BY <1>0, <2>5 DEF PublishFails, TypedWith, TxOfHandler, ItemsOfLines, CheckedStock, HasItems
  <2> QED
    BY <1>2, <2>1, <2>2, <2>3, <2>4, <2>5 DEF Falter
<1>3. ASSUME NEW r \in Requests, ServerSettles(r) PROVE ItemsOfLines'
  <2>1. CASE ServerAbort(r)
    BY <1>0, <2>1 DEF ServerAbort, TypedWith, TxOfHandler, ItemsOfLines, CheckedStock, HasItems
  <2>2. CASE InDoubtCommit(r)
    BY <1>0, <2>2 DEF InDoubtCommit, TypedWith, TxOfHandler, ItemsOfLines, CheckedStock, HasItems
  <2> QED
    BY <1>3, <2>1, <2>2 DEF ServerSettles
<1>4. ASSUME NEW r \in Requests, Broker(r) PROVE ItemsOfLines'
  <2>1. CASE BrokerAppend(r)
    BY <1>0, <2>1 DEF BrokerAppend, TypedWith, TxOfHandler, ItemsOfLines, CheckedStock, HasItems
  <2>2. CASE BrokerAckLost(r)
    BY <1>0, <2>2 DEF BrokerAckLost, TypedWith, TxOfHandler, ItemsOfLines, CheckedStock, HasItems
  <2>3. CASE BrokerGiveUp(r)
    BY <1>0, <2>3 DEF BrokerGiveUp, TypedWith, TxOfHandler, ItemsOfLines, CheckedStock, HasItems
  <2> QED
    BY <1>4, <2>1, <2>2, <2>3 DEF Broker
<1>5. ASSUME NEW r \in Requests, Beaten(r) PROVE ItemsOfLines'
  <2>1. /\ pc[r] \in {"line", "update"}
        /\ SetTx(r, "aborted") /\ Undo(r) /\ Goto(r, "fail")
        /\ UNCHANGED <<cart, cancelled, done, replyVars, busVars>>
    BY <1>5 DEF Beaten
  <2> QED
    BY <1>0, <2>1 DEF TypedWith, TxOfHandler, ItemsOfLines, CheckedStock, HasItems
<1>6. ASSUME NEW r \in Requests, Cancel(r) PROVE ItemsOfLines'
  BY <1>0, <1>6 DEF Cancel, TypedWith, TxOfHandler, ItemsOfLines, CheckedStock, HasItems
<1>7. ASSUME NEW pod \in Pods, Dies(pod) PROVE ItemsOfLines'
  BY <1>0, <1>7 DEF Dies, Hit, TypedWith, TxOfHandler, ItemsOfLines, CheckedStock, HasItems
<1> QED
  BY <1>1, <1>2, <1>3, <1>4, <1>5, <1>6, <1>7 DEF OrdersStep

(* Every step keeps a row locked by the live transaction that changed it.     *)
LEMMA LocksOfLinesStep ==
  ASSUME NEW Holders, Requests \cup {NoTx} \subseteq Holders, OrdersInv(Holders), OrdersStep
  PROVE  LocksOfLines'
<1> USE DEF Goto, SetTx, Undo, Apply, dbVars, replyVars, busVars
<1>0. TypedWith(Holders) /\ TxOfHandler /\ ItemsOfLines /\ LocksOfLines /\ CheckedStock
  BY DEF OrdersInv
<1>1. ASSUME NEW r \in Requests, Proceed(r) PROVE LocksOfLines'
  <2>1. CASE DecodeFails(r)
    BY <1>0, <2>1 DEF DecodeFails, TypedWith, TxOfHandler, ItemsOfLines, LocksOfLines, CheckedStock, Live
  <2>2. CASE Receive(r)
    BY <1>0, <2>2 DEF Receive, TypedWith, TxOfHandler, ItemsOfLines, LocksOfLines, CheckedStock, Live
  <2>3. CASE Begin(r)
    BY <1>0, <2>3 DEF Begin, TypedWith, TxOfHandler, ItemsOfLines, LocksOfLines, CheckedStock, Live
  <2>4. CASE SkipLine(r)
    BY <1>0, <2>4 DEF SkipLine, TypedWith, TxOfHandler, ItemsOfLines, LocksOfLines, CheckedStock, Live
  <2>5. CASE UnknownProduct(r)
    BY <1>0, <2>5 DEF UnknownProduct, TypedWith, TxOfHandler, ItemsOfLines, LocksOfLines, CheckedStock, Live
  <2>6. CASE SelectForUpdate(r)
    <3>1. /\ done[r] + 1 \in 1..Len(cart[r]) /\ done[r] \in Nat
          /\ Target(r) = ResolveProductID(cart[r][done[r] + 1])
      BY <1>0, <2>6, CurrentLineFacts DEF SelectForUpdate, Target, CurrentLine, TypedWith
    <3>2. Target(r) \in Products /\ owner[Target(r)] \in {r, NoTx}
      BY <2>6 DEF SelectForUpdate, LockFree
    <3>3. tx[r] = "open" /\ pc[r] = "line" /\ UNCHANGED <<cart, done, tx, items>>
          /\ pc' \in {[pc EXCEPT ![r] = "refuse"], [pc EXCEPT ![r] = "update"]}
          /\ owner' = [owner EXCEPT ![Target(r)] = r]
      BY <1>0, <2>6 DEF SelectForUpdate, TxOfHandler
    <3>4. CASE pc' = [pc EXCEPT ![r] = "refuse"]
      BY <1>0, <3>1, <3>2, <3>3, <3>4, ServiceAssumption DEF TypedWith, TxOfHandler, LocksOfLines, Live
    <3>5. CASE pc' = [pc EXCEPT ![r] = "update"]
      BY <1>0, <3>1, <3>2, <3>3, <3>5, ServiceAssumption DEF TypedWith, TxOfHandler, LocksOfLines, Live
    <3> QED
      BY <3>3, <3>4, <3>5
  <2>7. CASE UpdateStock(r)
    <3>1. /\ done[r] + 1 \in 1..Len(cart[r]) /\ done[r] \in Nat
          /\ Target(r) = ResolveProductID(cart[r][done[r] + 1]) /\ Target(r) \in Products
          /\ owner[Target(r)] = r
      BY <1>0, <2>7, CurrentLineFacts DEF UpdateStock, CheckedStock, Target, CurrentLine, TypedWith
    <3>2. /\ tx[r] = "open" /\ pc[r] = "update" /\ UNCHANGED <<cart, tx>>
          /\ owner' = [owner EXCEPT ![Target(r)] = r]
          /\ done' = [done EXCEPT ![r] = done[r] + 1]
          /\ items' = [items EXCEPT ![r][Target(r)] = items[r][Target(r)] + Wanted(r)]
          /\ pc' = [pc EXCEPT ![r] = "line"]
      BY <1>0, <2>7 DEF UpdateStock, TxOfHandler
    <3>3. owner' = owner
      BY <1>0, <3>1, <3>2 DEF TypedWith
    <3> SUFFICES ASSUME NEW s \in Requests, NEW p \in Products PROVE (LocksOfLines!(s)!(p))'
      BY DEF LocksOfLines
    <3>4. CASE s = r
      <4>1. /\ done'[r] = done[r] + 1 /\ pc'[r] = "line" /\ owner'[p] = owner[p]
            /\ p # Target(r) => items'[r][p] = items[r][p]
        BY <1>0, <3>1, <3>2, <3>3 DEF TypedWith
      <4>2. owner[p] = r => \E i \in 1..Len(cart[r]) :
              ResolveProductID(cart[r][i]) = p /\ i <= done[r] + 1
        BY <1>0, <3>1, <3>2 DEF LocksOfLines
      <4>3. items[r][p] # 0 => owner[p] = r
        BY <1>0, <3>2 DEF LocksOfLines, Live
      <4> QED
        BY <3>1, <3>2, <3>4, <4>1, <4>2, <4>3 DEF Live
    <3>5. CASE s # r
      BY <1>0, <3>2, <3>3, <3>5 DEF TypedWith, TxOfHandler, LocksOfLines, Live
    <3> QED
      BY <3>4, <3>5
  <2>8. CASE EmptyOrder(r)
    BY <1>0, <2>8 DEF EmptyOrder, TypedWith, TxOfHandler, ItemsOfLines, LocksOfLines, CheckedStock, Live
  <2>9. CASE InsertOrder(r)
    BY <1>0, <2>9 DEF InsertOrder, TypedWith, TxOfHandler, ItemsOfLines, LocksOfLines, CheckedStock, Live
  <2>10. CASE InsertItems(r)
    BY <1>0, <2>10 DEF InsertItems, TypedWith, TxOfHandler, ItemsOfLines, LocksOfLines, CheckedStock, Live
  <2>11. CASE Commit(r)
    BY <1>0, <2>11, ServiceAssumption DEF Commit, TypedWith, TxOfHandler, LocksOfLines, Live
  <2>12. CASE Unwind(r)
    <3>1. CASE tx[r] = "open" /\ SetTx(r, "none") /\ Undo(r)
      BY <1>0, <2>12, <3>1, ServiceAssumption DEF Unwind, TypedWith, TxOfHandler, LocksOfLines, Live
    <3>2. CASE tx[r] = "open" /\ SetTx(r, "doomed") /\ UNCHANGED <<items, owner, stock>>
      BY <1>0, <2>12, <3>2, ServiceAssumption DEF Unwind, TypedWith, TxOfHandler, LocksOfLines, Live
    <3>3. CASE tx[r] = "aborted" /\ SetTx(r, "none") /\ UNCHANGED <<items, owner, stock>>
      BY <1>0, <2>12, <3>3, ServiceAssumption DEF Unwind, TypedWith, TxOfHandler, LocksOfLines, Live
    <3>4. CASE UNCHANGED dbVars
      BY <1>0, <2>12, <3>4, ServiceAssumption DEF Unwind, TypedWith, TxOfHandler, LocksOfLines, Live
    <3> QED
      BY <2>12, <3>1, <3>2, <3>3, <3>4 DEF Unwind, Rollback
  <2>13. CASE Publish(r)
    BY <1>0, <2>13 DEF Publish, TypedWith, TxOfHandler, ItemsOfLines, LocksOfLines, CheckedStock, Live
  <2>14. CASE Answer(r)
    BY <1>0, <2>14 DEF Answer, TypedWith, TxOfHandler, ItemsOfLines, LocksOfLines, CheckedStock, Live
  <2> QED
    BY <1>1, <2>1, <2>2, <2>3, <2>4, <2>5, <2>6, <2>7, <2>8, <2>9, <2>10, <2>11, <2>12, <2>13, <2>14 DEF Proceed
<1>2. ASSUME NEW r \in Requests, Falter(r) PROVE LocksOfLines'
  <2>1. CASE BeginFails(r)
    BY <1>0, <2>1 DEF BeginFails, TypedWith, TxOfHandler, ItemsOfLines, LocksOfLines, CheckedStock, Live
  <2>2. CASE StatementError(r)
    BY <1>0, <2>2, ServiceAssumption, StatementWhere DEF StatementError, TypedWith, TxOfHandler, LocksOfLines, Live
  <2>3. CASE ConnectionLost(r)
    BY <1>0, <2>3, StatementWhere DEF ConnectionLost, TypedWith, TxOfHandler, ItemsOfLines, LocksOfLines, CheckedStock, Live
  <2>4. CASE CommitInterrupted(r)
    BY <1>0, <2>4 DEF CommitInterrupted, TypedWith, TxOfHandler, ItemsOfLines, LocksOfLines, CheckedStock, Live
  <2>5. CASE PublishFails(r)
    BY <1>0, <2>5 DEF PublishFails, TypedWith, TxOfHandler, ItemsOfLines, LocksOfLines, CheckedStock, Live
  <2> QED
    BY <1>2, <2>1, <2>2, <2>3, <2>4, <2>5 DEF Falter
<1>3. ASSUME NEW r \in Requests, ServerSettles(r) PROVE LocksOfLines'
  <2>1. CASE ServerAbort(r)
    BY <1>0, <2>1, ServiceAssumption DEF ServerAbort, TypedWith, TxOfHandler, LocksOfLines, Live
  <2>2. CASE InDoubtCommit(r)
    BY <1>0, <2>2, ServiceAssumption DEF InDoubtCommit, TypedWith, TxOfHandler, LocksOfLines, Live
  <2> QED
    BY <1>3, <2>1, <2>2 DEF ServerSettles
<1>4. ASSUME NEW r \in Requests, Broker(r) PROVE LocksOfLines'
  <2>1. CASE BrokerAppend(r)
    BY <1>0, <2>1 DEF BrokerAppend, TypedWith, TxOfHandler, ItemsOfLines, LocksOfLines, CheckedStock, Live
  <2>2. CASE BrokerAckLost(r)
    BY <1>0, <2>2 DEF BrokerAckLost, TypedWith, TxOfHandler, ItemsOfLines, LocksOfLines, CheckedStock, Live
  <2>3. CASE BrokerGiveUp(r)
    BY <1>0, <2>3 DEF BrokerGiveUp, TypedWith, TxOfHandler, ItemsOfLines, LocksOfLines, CheckedStock, Live
  <2> QED
    BY <1>4, <2>1, <2>2, <2>3 DEF Broker
<1>5. ASSUME NEW r \in Requests, Beaten(r) PROVE LocksOfLines'
  <2>1. /\ pc[r] \in {"line", "update"}
        /\ SetTx(r, "aborted") /\ Undo(r) /\ Goto(r, "fail")
        /\ UNCHANGED <<cart, cancelled, done, replyVars, busVars>>
    BY <1>5 DEF Beaten
  <2> QED
    BY <1>0, <2>1, ServiceAssumption DEF TypedWith, TxOfHandler, ItemsOfLines, LocksOfLines, CheckedStock, Live
<1>6. ASSUME NEW r \in Requests, Cancel(r) PROVE LocksOfLines'
  BY <1>0, <1>6 DEF Cancel, TypedWith, TxOfHandler, ItemsOfLines, LocksOfLines, CheckedStock, Live
<1>7. ASSUME NEW pod \in Pods, Dies(pod) PROVE LocksOfLines'
  BY <1>0, <1>7 DEF Dies, Hit, TypedWith, TxOfHandler, ItemsOfLines, LocksOfLines, CheckedStock, Live
<1> QED
  BY <1>1, <1>2, <1>3, <1>4, <1>5, <1>6, <1>7 DEF OrdersStep

(* A step keeps what has been checked if it starts no update and leaves those *)
(* that are under way their lines, their rows and the stock of these.         *)
LEMMA CheckedStays ==
  ASSUME CheckedStock, cart' = cart,
         \A s \in Requests : pc'[s] = "update" =>
           /\ pc[s] = "update" /\ done'[s] = done[s] /\ items'[s] = items[s]
           /\ \A p \in Products : owner[p] = s => owner'[p] = s /\ stock'[p] = stock[p]
  PROVE  CheckedStock'
<1> SUFFICES ASSUME NEW s \in Requests, pc'[s] = "update" PROVE (CheckedStock!(s)!2)'
  BY DEF CheckedStock
<1>1. /\ MoreLines(s) /\ Target(s) \in Products /\ owner[Target(s)] = s
      /\ Visible(s, Target(s)) >= Wanted(s)
  BY DEF CheckedStock
<1>2. done'[s] = done[s] /\ items'[s] = items[s]
  OBVIOUS
<1>3. owner'[Target(s)] = s /\ stock'[Target(s)] = stock[Target(s)]
  BY <1>1
<1> QED
  BY <1>1, <1>2, <1>3 DEF MoreLines, Target, Wanted, CurrentLine, Visible

(* The checked row stays locked and the checked stock stays there.            *)
LEMMA CheckedStockStep ==
  ASSUME NEW Holders, Requests \cup {NoTx} \subseteq Holders, OrdersInv(Holders), OrdersStep
  PROVE  CheckedStock'
<1> USE DEF Goto, SetTx, Undo, Apply, dbVars, replyVars, busVars
<1>0. TypedWith(Holders) /\ TxOfHandler /\ ItemsOfLines /\ LocksOfLines /\ CheckedStock /\ NoOversell
  BY DEF OrdersInv
<1>1. ASSUME NEW r \in Requests, Proceed(r) PROVE CheckedStock'
  <2>1. CASE DecodeFails(r)
    BY <1>0, <2>1, CheckedStays DEF DecodeFails, TypedWith, TxOfHandler
  <2>2. CASE Receive(r)
    BY <1>0, <2>2, CheckedStays DEF Receive, TypedWith, TxOfHandler
  <2>3. CASE Begin(r)
    BY <1>0, <2>3, CheckedStays DEF Begin, TypedWith, TxOfHandler
  <2>4. CASE SkipLine(r)
    <3>1. /\ \A s \in Requests : pc[s] = "update" => done'[s] = done[s]
          /\ UNCHANGED <<cart, pc, items, owner, stock>>
      BY <1>0, <2>4 DEF SkipLine, TypedWith
    <3> QED
      BY <1>0, <3>1 DEF TypedWith, TxOfHandler, CheckedStock, MoreLines, Target, Wanted, CurrentLine, Visible
  <2>5. CASE UnknownProduct(r)
    BY <1>0, <2>5, CheckedStays DEF UnknownProduct, TypedWith, TxOfHandler
  <2>6. CASE SelectForUpdate(r)
    <3>1. /\ MoreLines(r) /\ Target(r) \in Products /\ LockFree(r, Target(r))
          /\ Wanted(r) \in Nat /\ Visible(r, Target(r)) \in Int
      BY <1>0, <2>6, CurrentLineFacts DEF SelectForUpdate, Visible, TypedWith
    <3>2. /\ owner' = [owner EXCEPT ![Target(r)] = r]
          /\ UNCHANGED <<cart, done, tx, items, stock>>
          /\ \A s \in Requests \ {r} : pc'[s] = pc[s]
          /\ pc'[r] = "update" => Visible(r, Target(r)) >= Wanted(r)
      BY <1>0, <2>6, <3>1 DEF SelectForUpdate, TypedWith
    <3>3. SUFFICES ASSUME NEW s \in Requests, pc'[s] = "update" PROVE (CheckedStock!(s)!2)'
      BY DEF CheckedStock
    <3>4. CASE s = r
      <4>1. owner'[Target(r)] = r
        BY <1>0, <3>1, <3>2 DEF TypedWith
      <4> QED
        BY <3>1, <3>2, <3>3, <3>4, <4>1 DEF MoreLines, Target, Wanted, CurrentLine, Visible
    <3>5. CASE s # r
      <4>1. pc[s] = "update"
        BY <3>2, <3>3, <3>5
      <4>2. /\ MoreLines(s) /\ Target(s) \in Products /\ owner[Target(s)] = s
            /\ Visible(s, Target(s)) >= Wanted(s)
        BY <1>0, <4>1 DEF CheckedStock
      <4>3. owner'[Target(s)] = s
        BY <1>0, <3>1, <3>2, <3>5, <4>2, ServiceAssumption DEF LockFree, TypedWith
      <4> QED
        BY <3>2, <4>2, <4>3 DEF MoreLines, Target, Wanted, CurrentLine, Visible
    <3> QED
      BY <3>4, <3>5
  <2>7. CASE UpdateStock(r)
    <3>1. Target(r) \in Products /\ owner[Target(r)] = r
      BY <1>0, <2>7 DEF UpdateStock, CheckedStock
    <3>2. owner' = owner /\ UNCHANGED <<cart, stock>>
      BY <1>0, <2>7, <3>1 DEF UpdateStock, TypedWith
    <3>3. /\ pc'[r] = "line"
          /\ \A s \in Requests \ {r} :
               pc'[s] = pc[s] /\ done'[s] = done[s] /\ items'[s] = items[s]
      BY <1>0, <2>7 DEF UpdateStock, TypedWith
    <3>4. \A s \in Requests : pc'[s] = "update" =>
            pc[s] = "update" /\ done'[s] = done[s] /\ items'[s] = items[s]
      BY <3>3
    <3> QED
      BY <1>0, <3>2, <3>4, CheckedStays
  <2>8. CASE EmptyOrder(r)
    BY <1>0, <2>8, CheckedStays DEF EmptyOrder, TypedWith, TxOfHandler
  <2>9. CASE InsertOrder(r)
    BY <1>0, <2>9, CheckedStays DEF InsertOrder, TypedWith, TxOfHandler
  <2>10. CASE InsertItems(r)
    BY <1>0, <2>10, CheckedStays DEF InsertItems, TypedWith, TxOfHandler
  <2>11. CASE Commit(r)
    BY <1>0, <2>11, CheckedStays DEF Commit, TypedWith, TxOfHandler, LocksOfLines, Live
  <2>12. CASE Unwind(r)
    BY <1>0, <2>12, CheckedStays DEF Rollback, Unwind, TypedWith, TxOfHandler
  <2>13. CASE Publish(r)
    BY <1>0, <2>13, CheckedStays DEF Publish, TypedWith, TxOfHandler
  <2>14. CASE Answer(r)
    BY <1>0, <2>14, CheckedStays DEF Answer, TypedWith, TxOfHandler
  <2> QED
    BY <1>1, <2>1, <2>2, <2>3, <2>4, <2>5, <2>6, <2>7, <2>8, <2>9, <2>10, <2>11, <2>12, <2>13, <2>14 DEF Proceed
<1>2. ASSUME NEW r \in Requests, Falter(r) PROVE CheckedStock'
  <2>1. CASE BeginFails(r)
    BY <1>0, <2>1, CheckedStays DEF BeginFails, TypedWith, TxOfHandler
  <2>2. CASE StatementError(r)
    BY <1>0, <2>2, StatementWhere, CheckedStays DEF StatementError, TypedWith, TxOfHandler
  <2>3. CASE ConnectionLost(r)
    BY <1>0, <2>3, StatementWhere, CheckedStays DEF ConnectionLost, TypedWith, TxOfHandler
  <2>4. CASE CommitInterrupted(r)
    BY <1>0, <2>4, CheckedStays DEF CommitInterrupted, TypedWith, TxOfHandler
  <2>5. CASE PublishFails(r)
    BY <1>0, <2>5, CheckedStays DEF PublishFails, TypedWith, TxOfHandler
  <2> QED
    BY <1>2, <2>1, <2>2, <2>3, <2>4, <2>5 DEF Falter
<1>3. ASSUME NEW r \in Requests, ServerSettles(r) PROVE CheckedStock'
  <2>1. CASE ServerAbort(r)
    BY <1>0, <2>1, CheckedStays DEF ServerAbort, TypedWith, TxOfHandler
  <2>2. CASE InDoubtCommit(r)
    BY <1>0, <2>2, CheckedStays DEF InDoubtCommit, TypedWith, TxOfHandler, LocksOfLines, Live
  <2> QED
    BY <1>3, <2>1, <2>2 DEF ServerSettles
<1>4. ASSUME NEW r \in Requests, Broker(r) PROVE CheckedStock'
  <2>1. CASE BrokerAppend(r)
    BY <1>0, <2>1, CheckedStays DEF BrokerAppend, TypedWith, TxOfHandler
  <2>2. CASE BrokerAckLost(r)
    BY <1>0, <2>2, CheckedStays DEF BrokerAckLost, TypedWith, TxOfHandler
  <2>3. CASE BrokerGiveUp(r)
    BY <1>0, <2>3, CheckedStays DEF BrokerGiveUp, TypedWith, TxOfHandler
  <2> QED
    BY <1>4, <2>1, <2>2, <2>3 DEF Broker
<1>5. ASSUME NEW r \in Requests, Beaten(r) PROVE CheckedStock'
  <2>1. /\ pc[r] \in {"line", "update"}
        /\ SetTx(r, "aborted") /\ Undo(r) /\ Goto(r, "fail")
        /\ UNCHANGED <<cart, cancelled, done, replyVars, busVars>>
    BY <1>5 DEF Beaten
  <2> QED
    BY <1>0, <2>1, CheckedStays DEF TypedWith, TxOfHandler
<1>6. ASSUME NEW r \in Requests, Cancel(r) PROVE CheckedStock'
  BY <1>0, <1>6, CheckedStays DEF Cancel, TypedWith, TxOfHandler
<1>7. ASSUME NEW pod \in Pods, Dies(pod) PROVE CheckedStock'
  BY <1>0, <1>7, CheckedStays DEF Dies, Hit, TypedWith, TxOfHandler
<1> QED
  BY <1>1, <1>2, <1>3, <1>4, <1>5, <1>6, <1>7 DEF OrdersStep

(* No step takes more than there is.                                          *)
LEMMA NoOversellStep ==
  ASSUME NEW Holders, Requests \cup {NoTx} \subseteq Holders, OrdersInv(Holders), OrdersStep
  PROVE  NoOversell'
<1> USE DEF Goto, SetTx, Undo, Apply, dbVars, replyVars, busVars
<1>0. TypedWith(Holders) /\ TxOfHandler /\ ItemsOfLines /\ LocksOfLines /\ CheckedStock /\ NoOversell
  BY DEF OrdersInv
<1>1. ASSUME NEW r \in Requests, Proceed(r) PROVE NoOversell'
  <2>1. CASE DecodeFails(r)
    BY <1>0, <2>1 DEF DecodeFails, TypedWith, TxOfHandler, ItemsOfLines, LocksOfLines, CheckedStock, NoOversell, Live
  <2>2. CASE Receive(r)
    BY <1>0, <2>2 DEF Receive, TypedWith, TxOfHandler, ItemsOfLines, LocksOfLines, CheckedStock, NoOversell, Live
  <2>3. CASE Begin(r)
    BY <1>0, <2>3 DEF Begin, TypedWith, TxOfHandler, ItemsOfLines, LocksOfLines, CheckedStock, NoOversell, Live
  <2>4. CASE SkipLine(r)
    BY <1>0, <2>4 DEF SkipLine, TypedWith, TxOfHandler, ItemsOfLines, LocksOfLines, CheckedStock, NoOversell, Live
  <2>5. CASE UnknownProduct(r)
    BY <1>0, <2>5 DEF UnknownProduct, TypedWith, TxOfHandler, ItemsOfLines, LocksOfLines, CheckedStock, NoOversell, Live
  <2>6. CASE SelectForUpdate(r)
    BY <1>0, <2>6 DEF SelectForUpdate, TypedWith, TxOfHandler, ItemsOfLines, LocksOfLines, CheckedStock, NoOversell, Live
  <2>7. CASE UpdateStock(r)
    <3>1. /\ Target(r) \in Products /\ Wanted(r) \in Nat
          /\ items[r][Target(r)] + Wanted(r) <= stock[Target(r)]
      BY <1>0, <2>7, CurrentLineFacts DEF UpdateStock, CheckedStock, Visible, TypedWith
    <3>2. /\ items' = [items EXCEPT ![r][Target(r)] = items[r][Target(r)] + Wanted(r)]
          /\ tx[r] = "open" /\ UNCHANGED <<tx, stock>>
      BY <1>0, <2>7 DEF UpdateStock, TxOfHandler
    <3> QED
      BY <1>0, <3>1, <3>2 DEF TypedWith, NoOversell, Live
  <2>8. CASE EmptyOrder(r)
    BY <1>0, <2>8 DEF EmptyOrder, TypedWith, TxOfHandler, ItemsOfLines, LocksOfLines, CheckedStock, NoOversell, Live
  <2>9. CASE InsertOrder(r)
    BY <1>0, <2>9 DEF InsertOrder, TypedWith, TxOfHandler, ItemsOfLines, LocksOfLines, CheckedStock, NoOversell, Live
  <2>10. CASE InsertItems(r)
    BY <1>0, <2>10 DEF InsertItems, TypedWith, TxOfHandler, ItemsOfLines, LocksOfLines, CheckedStock, NoOversell, Live
  <2>11. CASE Commit(r)
    <3>1. /\ tx[r] = "open" /\ tx' = [tx EXCEPT ![r] = "committed"] /\ UNCHANGED items
          /\ \A p \in Products : stock'[p] = stock[p] - items[r][p]
      BY <1>0, <2>11 DEF Commit, TxOfHandler
    <3>2. \A p \in Products : stock'[p] >= 0 /\ (items[r][p] = 0 => stock'[p] = stock[p])
      BY <1>0, <3>1 DEF NoOversell, TypedWith, Live
    <3>3. \A s \in Requests, p \in Products :
             s # r /\ Live(s) => items[s][p] = 0 \/ items[r][p] = 0
      BY <1>0, <3>1 DEF LocksOfLines, Live
    <3>4. \A s \in Requests : tx'[s] \in {"open", "doomed", "indoubt"} => s # r /\ Live(s)
      BY <1>0, <3>1 DEF TypedWith, Live
    <3> QED
      BY <1>0, <3>1, <3>2, <3>3, <3>4 DEF NoOversell, Live
  <2>12. CASE Unwind(r)
    <3>1. CASE tx[r] = "open" /\ SetTx(r, "none") /\ Undo(r)
      BY <1>0, <2>12, <3>1 DEF Unwind, TypedWith, TxOfHandler, NoOversell, Live
    <3>2. CASE tx[r] = "open" /\ SetTx(r, "doomed") /\ UNCHANGED <<items, owner, stock>>
      BY <1>0, <2>12, <3>2 DEF Unwind, TypedWith, TxOfHandler, NoOversell, Live
    <3>3. CASE tx[r] = "aborted" /\ SetTx(r, "none") /\ UNCHANGED <<items, owner, stock>>
      BY <1>0, <2>12, <3>3 DEF Unwind, TypedWith, TxOfHandler, NoOversell, Live
    <3>4. CASE UNCHANGED dbVars
      BY <1>0, <2>12, <3>4 DEF Unwind, TypedWith, TxOfHandler, NoOversell, Live
    <3> QED
      BY <2>12, <3>1, <3>2, <3>3, <3>4 DEF Unwind, Rollback
  <2>13. CASE Publish(r)
    BY <1>0, <2>13 DEF Publish, TypedWith, TxOfHandler, ItemsOfLines, LocksOfLines, CheckedStock, NoOversell, Live
  <2>14. CASE Answer(r)
    BY <1>0, <2>14 DEF Answer, TypedWith, TxOfHandler, ItemsOfLines, LocksOfLines, CheckedStock, NoOversell, Live
  <2> QED
    BY <1>1, <2>1, <2>2, <2>3, <2>4, <2>5, <2>6, <2>7, <2>8, <2>9, <2>10, <2>11, <2>12, <2>13, <2>14 DEF Proceed
<1>2. ASSUME NEW r \in Requests, Falter(r) PROVE NoOversell'
  <2>1. CASE BeginFails(r)
    BY <1>0, <2>1 DEF BeginFails, TypedWith, TxOfHandler, ItemsOfLines, LocksOfLines, CheckedStock, NoOversell, Live
  <2>2. CASE StatementError(r)
    BY <1>0, <2>2, StatementWhere DEF StatementError, TypedWith, TxOfHandler, ItemsOfLines, LocksOfLines, CheckedStock, NoOversell, Live
  <2>3. CASE ConnectionLost(r)
    BY <1>0, <2>3, StatementWhere DEF ConnectionLost, TypedWith, TxOfHandler, ItemsOfLines, LocksOfLines, CheckedStock, NoOversell, Live
  <2>4. CASE CommitInterrupted(r)
    BY <1>0, <2>4 DEF CommitInterrupted, TypedWith, TxOfHandler, ItemsOfLines, LocksOfLines, CheckedStock, NoOversell, Live
  <2>5. CASE PublishFails(r)
    BY <1>0, <2>5 DEF PublishFails, TypedWith, TxOfHandler, ItemsOfLines, LocksOfLines, CheckedStock, NoOversell, Live
  <2> QED
    BY <1>2, <2>1, <2>2, <2>3, <2>4, <2>5 DEF Falter
<1>3. ASSUME NEW r \in Requests, ServerSettles(r) PROVE NoOversell'
  <2>1. CASE ServerAbort(r)
    BY <1>0, <2>1 DEF ServerAbort, TypedWith, TxOfHandler, ItemsOfLines, LocksOfLines, CheckedStock, NoOversell, Live
  <2>2. CASE InDoubtCommit(r)
    BY <1>0, <2>2 DEF InDoubtCommit, TypedWith, TxOfHandler, ItemsOfLines, LocksOfLines, CheckedStock, NoOversell, Live
  <2> QED
    BY <1>3, <2>1, <2>2 DEF ServerSettles
<1>4. ASSUME NEW r \in Requests, Broker(r) PROVE NoOversell'
  <2>1. CASE BrokerAppend(r)
    BY <1>0, <2>1 DEF BrokerAppend, TypedWith, TxOfHandler, ItemsOfLines, LocksOfLines, CheckedStock, NoOversell, Live
  <2>2. CASE BrokerAckLost(r)
    BY <1>0, <2>2 DEF BrokerAckLost, TypedWith, TxOfHandler, ItemsOfLines, LocksOfLines, CheckedStock, NoOversell, Live
  <2>3. CASE BrokerGiveUp(r)
    BY <1>0, <2>3 DEF BrokerGiveUp, TypedWith, TxOfHandler, ItemsOfLines, LocksOfLines, CheckedStock, NoOversell, Live
  <2> QED
    BY <1>4, <2>1, <2>2, <2>3 DEF Broker
<1>5. ASSUME NEW r \in Requests, Beaten(r) PROVE NoOversell'
  <2>1. /\ pc[r] \in {"line", "update"}
        /\ SetTx(r, "aborted") /\ Undo(r) /\ Goto(r, "fail")
        /\ UNCHANGED <<cart, cancelled, done, replyVars, busVars>>
    BY <1>5 DEF Beaten
  <2> QED
    BY <1>0, <2>1 DEF TypedWith, TxOfHandler, ItemsOfLines, LocksOfLines, CheckedStock, NoOversell, Live
<1>6. ASSUME NEW r \in Requests, Cancel(r) PROVE NoOversell'
  BY <1>0, <1>6 DEF Cancel, TypedWith, TxOfHandler, ItemsOfLines, LocksOfLines, CheckedStock, NoOversell, Live
<1>7. ASSUME NEW pod \in Pods, Dies(pod) PROVE NoOversell'
  BY <1>0, <1>7 DEF Dies, Hit, TypedWith, TxOfHandler, ItemsOfLines, LocksOfLines, CheckedStock, NoOversell, Live
<1> QED
  BY <1>1, <1>2, <1>3, <1>4, <1>5, <1>6, <1>7 DEF OrdersStep

(* An event is only ever handed over after the commit.                        *)
LEMMA NoPhantomEventStep ==
  ASSUME NEW Holders, Requests \cup {NoTx} \subseteq Holders, OrdersInv(Holders), OrdersStep
  PROVE  NoPhantomEvent'
<1> USE DEF Goto, SetTx, Undo, Apply, dbVars, replyVars, busVars
<1>0. TypedWith(Holders) /\ TxOfHandler /\ NoPhantomEvent
  BY DEF OrdersInv
<1>1. ASSUME NEW r \in Requests, Proceed(r) PROVE NoPhantomEvent'
  <2>1. CASE DecodeFails(r)
    BY <1>0, <2>1 DEF DecodeFails, TypedWith, TxOfHandler, NoPhantomEvent
  <2>2. CASE Receive(r)
    BY <1>0, <2>2 DEF Receive, TypedWith, TxOfHandler, NoPhantomEvent
  <2>3. CASE Begin(r)
    BY <1>0, <2>3 DEF Begin, TypedWith, TxOfHandler, NoPhantomEvent
  <2>4. CASE SkipLine(r)
    BY <1>0, <2>4 DEF SkipLine, TypedWith, TxOfHandler, NoPhantomEvent
  <2>5. CASE UnknownProduct(r)
    BY <1>0, <2>5 DEF UnknownProduct, TypedWith, TxOfHandler, NoPhantomEvent
  <2>6. CASE SelectForUpdate(r)
    BY <1>0, <2>6 DEF SelectForUpdate, TypedWith, TxOfHandler, NoPhantomEvent
  <2>7. CASE UpdateStock(r)
    BY <1>0, <2>7 DEF UpdateStock, TypedWith, TxOfHandler, NoPhantomEvent
  <2>8. CASE EmptyOrder(r)
    BY <1>0, <2>8 DEF EmptyOrder, TypedWith, TxOfHandler, NoPhantomEvent
  <2>9. CASE InsertOrder(r)
    BY <1>0, <2>9 DEF InsertOrder, TypedWith, TxOfHandler, NoPhantomEvent
  <2>10. CASE InsertItems(r)
    BY <1>0, <2>10 DEF InsertItems, TypedWith, TxOfHandler, NoPhantomEvent
  <2>11. CASE Commit(r)
    BY <1>0, <2>11 DEF Commit, TypedWith, TxOfHandler, NoPhantomEvent
  <2>12. CASE Unwind(r)
    BY <1>0, <2>12 DEF Rollback, Unwind, TypedWith, TxOfHandler, NoPhantomEvent
  <2>13. CASE Publish(r)
    BY <1>0, <2>13 DEF Publish, TypedWith, TxOfHandler, NoPhantomEvent
  <2>14. CASE Answer(r)
    BY <1>0, <2>14 DEF Answer, TypedWith, TxOfHandler, NoPhantomEvent
  <2> QED
    BY <1>1, <2>1, <2>2, <2>3, <2>4, <2>5, <2>6, <2>7, <2>8, <2>9, <2>10, <2>11, <2>12, <2>13, <2>14 DEF Proceed
<1>2. ASSUME NEW r \in Requests, Falter(r) PROVE NoPhantomEvent'
  <2>1. CASE BeginFails(r)
    BY <1>0, <2>1 DEF BeginFails, TypedWith, TxOfHandler, NoPhantomEvent
  <2>2. CASE StatementError(r)
    <3>1. tx[r] = "open"
      BY <1>0, <2>2, StatementWhere DEF StatementError, TypedWith, TxOfHandler
    <3> QED
      BY <1>0, <2>2, <3>1 DEF StatementError, TypedWith, NoPhantomEvent
  <2>3. CASE ConnectionLost(r)
    <3>1. tx[r] = "open"
      BY <1>0, <2>3, StatementWhere DEF ConnectionLost, TypedWith, TxOfHandler
    <3> QED
      BY <1>0, <2>3, <3>1 DEF ConnectionLost, TypedWith, NoPhantomEvent
  <2>4. CASE CommitInterrupted(r)
    BY <1>0, <2>4 DEF CommitInterrupted, TypedWith, TxOfHandler, NoPhantomEvent
  <2>5. CASE PublishFails(r)
    BY <1>0, <2>5 DEF PublishFails, TypedWith, TxOfHandler, NoPhantomEvent
  <2> QED
    BY <1>2, <2>1, <2>2, <2>3, <2>4, <2>5 DEF Falter
<1>3. ASSUME NEW r \in Requests, ServerSettles(r) PROVE NoPhantomEvent'
  <2>1. CASE ServerAbort(r)
    BY <1>0, <2>1 DEF ServerAbort, TypedWith, TxOfHandler, NoPhantomEvent
  <2>2. CASE InDoubtCommit(r)
    BY <1>0, <2>2 DEF InDoubtCommit, TypedWith, TxOfHandler, NoPhantomEvent
  <2> QED
    BY <1>3, <2>1, <2>2 DEF ServerSettles
<1>4. ASSUME NEW r \in Requests, Broker(r) PROVE NoPhantomEvent'
  <2>1. CASE BrokerAppend(r)
    BY <1>0, <2>1 DEF BrokerAppend, TypedWith, TxOfHandler, NoPhantomEvent
  <2>2. CASE BrokerAckLost(r)
    BY <1>0, <2>2 DEF BrokerAckLost, TypedWith, TxOfHandler, NoPhantomEvent
  <2>3. CASE BrokerGiveUp(r)
    BY <1>0, <2>3 DEF BrokerGiveUp, TypedWith, TxOfHandler, NoPhantomEvent
  <2> QED
    BY <1>4, <2>1, <2>2, <2>3 DEF Broker
<1>5. ASSUME NEW r \in Requests, Beaten(r) PROVE NoPhantomEvent'
  <2>1. /\ pc[r] \in {"line", "update"}
        /\ SetTx(r, "aborted") /\ Undo(r) /\ Goto(r, "fail")
        /\ UNCHANGED <<cart, cancelled, done, replyVars, busVars>>
    BY <1>5 DEF Beaten
  <2> QED
    BY <1>0, <2>1 DEF TypedWith, TxOfHandler, NoPhantomEvent
<1>6. ASSUME NEW r \in Requests, Cancel(r) PROVE NoPhantomEvent'
  BY <1>0, <1>6 DEF Cancel, TypedWith, TxOfHandler, NoPhantomEvent
<1>7. ASSUME NEW pod \in Pods, Dies(pod) PROVE NoPhantomEvent'
  BY <1>0, <1>7 DEF Dies, Hit, TypedWith, TxOfHandler, NoPhantomEvent
<1> QED
  BY <1>1, <1>2, <1>3, <1>4, <1>5, <1>6, <1>7 DEF OrdersStep

(* All of this together is kept.                                              *)
LEMMA OrdersInvStep ==
  ASSUME NEW Holders, Requests \cup {NoTx} \subseteq Holders, OrdersInv(Holders), OrdersStep
  PROVE  OrdersInv(Holders)'
  BY TypeStep, TxOfHandlerStep, TxOfAnswerStep, ItemsOfLinesStep, LocksOfLinesStep,
     CheckedStockStep, NoOversellStep, NoPhantomEventStep DEF OrdersInv

(* Others may lock rows no order has locked, and set the stock of those.      *)
LEMMA OthersKeep ==
  ASSUME NEW Holders, Requests \cup {NoTx} \subseteq Holders, OrdersInv(Holders),
         UNCHANGED <<cart, pc, cancelled, done, tx, items, replyVars, busVars>>,
         owner' \in [Products -> Holders],
         stock' \in [Products -> Nat],
         \A p \in Products : \A r \in Requests : owner'[p] = r <=> owner[p] = r,
         \A p \in Products : owner[p] \in Requests => stock'[p] = stock[p]
  PROVE  OrdersInv(Holders)'
<1> USE DEF OrdersInv, replyVars, busVars
<1>1. TypedWith(Holders)'
  BY DEF TypedWith
<1>2. TxOfHandler' /\ TxOfAnswer' /\ NoPhantomEvent'
  BY DEF TxOfHandler, TxOfAnswer, NoPhantomEvent
<1>3. ItemsOfLines'
  BY DEF ItemsOfLines, HasItems
<1>4. LocksOfLines'
  BY DEF LocksOfLines, Live
<1>5. CheckedStock'
  <2> SUFFICES ASSUME NEW r \in Requests, pc[r] = "update" PROVE (CheckedStock!(r)!2)'
    BY DEF CheckedStock
  <2>1. /\ MoreLines(r) /\ Target(r) \in Products /\ owner[Target(r)] = r
        /\ Visible(r, Target(r)) >= Wanted(r)
    BY DEF CheckedStock
  <2>2. owner'[Target(r)] = r /\ stock'[Target(r)] = stock[Target(r)]
    BY <2>1
  <2> QED
    BY <2>1, <2>2 DEF MoreLines, Target, Wanted, CurrentLine, Visible
<1>6. NoOversell'
  <2>1. \A p \in Products : stock'[p] \in Nat
    OBVIOUS
  <2>2. \A p \in Products, r \in Requests : Live(r) /\ items[r][p] # 0 => stock'[p] = stock[p]
    BY DEF LocksOfLines
  <2>3. \A p \in Products, r \in Requests : Live(r) => items[r][p] <= stock'[p]
    BY <2>1, <2>2 DEF NoOversell
  <2> QED
    BY <2>1, <2>3 DEF NoOversell, Live
<1> QED
  BY <1>1, <1>2, <1>3, <1>4, <1>5, <1>6

-----------------------------------------------------------------------------
(* What a step of an order means to its client and to the stock: nothing, ... *)
Refusing == {r \in Requests : pc[r] = "refuse"}

Quiet ==
  /\ UNCHANGED <<cart, stock, status>>
  /\ Committed' = Committed
  /\ Refusing' \subseteq Refusing

(* ... that its cart cannot be met and it will be refused, ...                *)
TurnsDown(r) ==
  /\ UNCHANGED <<cart, stock, status>>
  /\ Committed' = Committed
  /\ Refusing' = Refusing \cup {r}
  /\ r \notin Committed \cup Refusing
  /\ status[r] = 0
  /\ ~Fulfillable(cart[r], stock)

(* ... that it exists, and has taken its cart, ...                            *)
Places(r) ==
  /\ UNCHANGED <<cart, status>>
  /\ r \notin Garbled \cup Committed \cup Refusing
  /\ status[r] \in {0, 500}
  /\ Fulfillable(cart[r], stock)
  /\ stock' = [p \in Products |-> stock[p] - TotalDemand(cart[r], p)]
  /\ Committed' = Committed \cup {r}
  /\ Refusing' = Refusing

(* ... or that it is answered, with a reason.                                 *)
Answers(r, s) ==
  /\ UNCHANGED <<cart, stock>>
  /\ Committed' = Committed
  /\ Refusing' = Refusing \ {r}
  /\ status[r] = 0
  /\ status' = [status EXCEPT ![r] = s]
  /\ \/ s = 201 /\ r \in Committed \ Refusing
     \/ s = 400 /\ r \in (Refusing \cup Garbled) \ Committed
     \/ s = 500 /\ r \notin Refusing

Outcome ==
  Quiet \/ \E r \in Requests : TurnsDown(r) \/ Places(r) \/ \E s \in {201, 400, 500} : Answers(r, s)

(* Most steps are quiet.                                                      *)
LEMMA QuietSteps ==
  ASSUME UNCHANGED <<cart, stock, status>>,
         \A s \in Requests : tx'[s] = "committed" <=> tx[s] = "committed",
         \A s \in Requests : pc'[s] = "refuse" => pc[s] = "refuse"
  PROVE  Outcome
  BY DEF Outcome, Quiet, Committed, Refusing

(* So is the failure of an open transaction.                                  *)
LEMMA FailingIsQuiet ==
  ASSUME NEW r \in Requests, UNCHANGED <<cart, stock, status>>, tx[r] = "open",
         tx \in [Requests -> TxStates], pc \in [Requests -> Locations],
         tx' = [tx EXCEPT ![r] = "aborted"] \/ tx' = [tx EXCEPT ![r] = "doomed"],
         pc' = [pc EXCEPT ![r] = "fail"]
  PROVE  Outcome
<1>1. \A s \in Requests : tx'[s] = "committed" <=> tx[s] = "committed"
  OBVIOUS
<1>2. \A s \in Requests : pc'[s] = "refuse" => pc[s] = "refuse"
  OBVIOUS
<1> QED
  BY <1>1, <1>2, QuietSteps

(* A refusal that begins.                                                     *)
LEMMA TurnedDownSteps ==
  ASSUME NEW r \in Requests, UNCHANGED <<cart, stock, status>>,
         pc \in [Requests -> Locations], pc[r] # "refuse",
         pc' = [pc EXCEPT ![r] = "refuse"],
         \A s \in Requests : tx'[s] = tx[s],
         tx[r] # "committed", status[r] = 0,
         ~Fulfillable(cart[r], stock)
  PROVE  Outcome
<1>1. Committed' = Committed /\ Refusing' = Refusing \cup {r} /\ r \notin Committed \cup Refusing
  BY DEF Committed, Refusing
<1> QED
  BY <1>1 DEF Outcome, TurnsDown

(* An answer ends a refusal and commits nothing.                              *)
LEMMA AnswerMoves ==
  ASSUME NEW r \in Requests,
         pc \in [Requests -> Locations], pc' = [pc EXCEPT ![r] = "done"],
         \A q \in Requests : tx'[q] = "committed" <=> tx[q] = "committed"
  PROVE  Committed' = Committed /\ Refusing' = Refusing \ {r}
<1>1. /\ pc'[r] = "done"
      /\ \A q \in Requests \ {r} : pc'[q] = pc[q]
  OBVIOUS
<1> QED
  BY <1>1 DEF Committed, Refusing

(* The answer that an order exists, ...                                       *)
LEMMA ConfirmSteps ==
  ASSUME NEW r \in Requests, UNCHANGED <<cart, stock, tx>>,
         pc \in [Requests -> Locations], pc' = [pc EXCEPT ![r] = "done"],
         status[r] = 0, status' = [status EXCEPT ![r] = 201],
         tx[r] = "committed", pc[r] # "refuse"
  PROVE  Outcome
<1>1. Committed' = Committed /\ Refusing' = Refusing \ {r}
  BY AnswerMoves
<1>2. r \in Committed /\ r \notin Refusing
  BY DEF Committed, Refusing
<1>3. Answers(r, 201)
  BY <1>1, <1>2 DEF Answers
<1> QED
  BY <1>3 DEF Outcome

(* ... or will not, ...                                                       *)
LEMMA RefuseSteps ==
  ASSUME NEW r \in Requests, UNCHANGED <<cart, stock>>,
         pc \in [Requests -> Locations], pc' = [pc EXCEPT ![r] = "done"],
         \A q \in Requests : tx'[q] = "committed" <=> tx[q] = "committed",
         status[r] = 0, status' = [status EXCEPT ![r] = 400],
         tx[r] # "committed", pc[r] = "refuse" \/ r \in Garbled
  PROVE  Outcome
<1>1. Committed' = Committed /\ Refusing' = Refusing \ {r}
  BY AnswerMoves
<1>2. r \notin Committed /\ (r \in Refusing \/ r \in Garbled)
  BY DEF Committed, Refusing
<1>3. Answers(r, 400)
  BY <1>1, <1>2 DEF Answers
<1> QED
  BY <1>3 DEF Outcome

(* ... or that something failed.                                              *)
LEMMA FailSteps ==
  ASSUME NEW r \in Requests, UNCHANGED <<cart, stock>>,
         pc \in [Requests -> Locations], pc' = [pc EXCEPT ![r] = "done"],
         \A q \in Requests : tx'[q] = "committed" <=> tx[q] = "committed",
         status[r] = 0, status' = [status EXCEPT ![r] = 500], pc[r] # "refuse"
  PROVE  Outcome
<1>1. Committed' = Committed /\ Refusing' = Refusing \ {r}
  BY AnswerMoves
<1>2. r \notin Refusing
  BY DEF Refusing
<1>3. Answers(r, 500)
  BY <1>1, <1>2 DEF Answers
<1> QED
  BY <1>3 DEF Outcome

(* At the end of the loop the transaction has taken the demand of the cart.   *)
LEMMA ItemsAreDemand ==
  ASSUME ItemsOfLines, NEW r \in Requests, done[r] = Len(cart[r]),
         tx[r] \notin {"none", "aborted"}
  PROVE  \A p \in Products : items[r][p] = TotalDemand(cart[r], p)
  BY DEF ItemsOfLines, TotalDemand

(* A transaction about to commit can be met by the committed stock.           *)
LEMMA ReadyIsFulfillable ==
  ASSUME ItemsOfLines, NoOversell, NEW r \in Requests, cart[r] \in Carts,
         done[r] = Len(cart[r]), tx[r] \notin {"none", "aborted"}, HasItems(r), Live(r)
  PROVE  Fulfillable(cart[r], stock)
<1>1. \A p \in Products : items[r][p] = TotalDemand(cart[r], p)
  BY ItemsAreDemand
<1>2. \A i \in 1..Len(cart[r]) : KnownLine(cart[r][i])
  BY DEF ItemsOfLines
<1>3. PICK p \in Products : TotalDemand(cart[r], p) # 0
  BY <1>1 DEF HasItems
<1>4. \E i \in 1..Len(cart[r]) : ResolveProductID(cart[r][i]) # 0
  <2>1. PICK i \in 1..Len(cart[r]) : ResolveProductID(cart[r][i]) = p
    BY <1>3, DemandedIsNamed
  <2> QED
    BY <2>1, CatalogueAssumption
<1>5. \A q \in Products : TotalDemand(cart[r], q) <= stock[q]
  BY <1>1 DEF NoOversell
<1> QED
  BY <1>2, <1>4, <1>5 DEF Fulfillable

(* A commit, whoever sees it, places the order.                               *)
LEMMA PlacingSteps ==
  ASSUME NEW Holders, OrdersInv(Holders), NEW r \in Requests,
         tx[r] \in {"open", "indoubt"}, pc[r] = "commit" \/ tx[r] = "indoubt",
         SetTx(r, "committed"), Apply(r), UNCHANGED <<cart, status>>,
         pc[r] # "refuse",
         \A s \in Requests : pc'[s] = "refuse" <=> pc[s] = "refuse"
  PROVE  Outcome
<1>0. TypedWith(Holders) /\ TxOfHandler /\ TxOfAnswer /\ ItemsOfLines /\ NoOversell
  BY DEF OrdersInv
<1>1. r \notin Garbled /\ status[r] \in {0, 500}
  BY <1>0 DEF TypedWith, TxOfHandler, TxOfAnswer
<1>2. /\ done[r] = Len(cart[r]) /\ HasItems(r) /\ Live(r) /\ cart[r] \in Carts
      /\ tx[r] \notin {"none", "aborted"}
  BY <1>0 DEF ItemsOfLines, Live, TypedWith
<1>3. stock' = [p \in Products |-> stock[p] - TotalDemand(cart[r], p)]
  BY <1>0, <1>2, ItemsAreDemand DEF Apply
<1>4. /\ Committed' = Committed \cup {r} /\ Refusing' = Refusing
      /\ r \notin Committed \cup Refusing
  BY <1>0 DEF SetTx, TypedWith, Committed, Refusing
<1>5. Fulfillable(cart[r], stock)
  BY <1>0, <1>2, ReadyIsFulfillable
<1>6. Places(r)
  BY <1>1, <1>3, <1>4, <1>5 DEF Places
<1> QED
  BY <1>6 DEF Outcome

(* Every step of an order has one of these outcomes.                          *)
LEMMA OutcomeStep ==
  ASSUME NEW Holders, Requests \cup {NoTx} \subseteq Holders, OrdersInv(Holders), OrdersStep
  PROVE  Outcome
<1> USE DEF Goto, SetTx, Undo, dbVars, replyVars, busVars
<1>0. TypedWith(Holders) /\ TxOfHandler /\ TxOfAnswer /\ ItemsOfLines /\ NoOversell
  BY DEF OrdersInv
<1>1. ASSUME NEW r \in Requests, Proceed(r) PROVE Outcome
  <2>1. CASE DecodeFails(r)
    <3>1. /\ tx[r] = "none" /\ status[r] = 0 /\ status' = [status EXCEPT ![r] = 400]
          /\ pc \in [Requests -> Locations] /\ pc' = [pc EXCEPT ![r] = "done"]
          /\ r \in Garbled /\ UNCHANGED <<cart, stock, tx>>
      BY <1>0, <2>1 DEF DecodeFails, TypedWith, TxOfHandler, TxOfAnswer
    <3>2. \A q \in Requests : tx'[q] = "committed" <=> tx[q] = "committed"
      BY <3>1
    <3>3. UNCHANGED <<cart, stock>> /\ tx[r] # "committed"
      BY <3>1
    <3> QED
      BY <3>1, <3>2, <3>3, RefuseSteps
  <2>2. CASE Receive(r)
    <3>1. CASE cart[r] = << >>
      <4>1. /\ UNCHANGED <<cart, stock, status, tx>> /\ pc' = [pc EXCEPT ![r] = "refuse"]
            /\ pc \in [Requests -> Locations] /\ pc[r] = "new" /\ tx[r] = "none" /\ status[r] = 0
        BY <1>0, <2>2, <3>1 DEF Receive, TypedWith, TxOfHandler, TxOfAnswer
      <4>2. ~Fulfillable(cart[r], stock)
        BY <3>1 DEF Fulfillable
      <4> QED
        BY <4>1, <4>2, TurnedDownSteps
    <3>2. CASE cart[r] # << >>
      BY <1>0, <2>2, <3>2, QuietSteps DEF Receive, TypedWith
    <3> QED
      BY <3>1, <3>2
  <2>3. CASE Begin(r)
    BY <1>0, <2>3, QuietSteps DEF Begin, TypedWith, TxOfHandler
  <2>4. CASE SkipLine(r)
    BY <1>0, <2>4, QuietSteps DEF SkipLine, TypedWith, TxOfHandler
  <2>5. CASE UnknownProduct(r)
    <3>1. /\ UNCHANGED <<cart, stock, status, tx>> /\ pc' = [pc EXCEPT ![r] = "refuse"]
          /\ pc \in [Requests -> Locations] /\ pc[r] = "line" /\ tx[r] = "open" /\ status[r] = 0
      BY <1>0, <2>5 DEF UnknownProduct, TypedWith, TxOfHandler, TxOfAnswer
    <3>2. done[r] + 1 \in 1..Len(cart[r]) /\ ~KnownLine(cart[r][done[r] + 1])
      BY <1>0, <2>5, CurrentLineFacts
         DEF UnknownProduct, KnownLine, Target, CurrentLine, TypedWith
    <3>3. ~Fulfillable(cart[r], stock)
      BY <3>2 DEF Fulfillable
    <3> QED
      BY <3>1, <3>3, TurnedDownSteps
  <2>6. CASE SelectForUpdate(r)
    <3>1. CASE Visible(r, Target(r)) < Wanted(r)
      <4> DEFINE p == Target(r)
      <4>1. /\ cart[r] \in Carts /\ done[r] \in Nat /\ Len(cart[r]) \in Nat
            /\ done[r] + 1 \in 1..Len(cart[r]) /\ Wanted(r) \in Nat
            /\ p \in Products /\ tx[r] = "open"
        BY <1>0, <2>6, CurrentLineFacts DEF SelectForUpdate, TxOfHandler, TypedWith
      <4>2. LineDemand(cart[r][done[r] + 1], p) = Wanted(r)
        BY DEF LineDemand, Target, Wanted, CurrentLine
      <4>3. Demand(cart[r], p)[done[r] + 1] = Demand(cart[r], p)[done[r]] + Wanted(r)
        BY <4>1, <4>2, DemandSteps
      <4>4. items[r][p] = Demand(cart[r], p)[done[r]]
        BY <1>0, <4>1 DEF ItemsOfLines
      <4>5. Demand(cart[r], p)[done[r] + 1] <= TotalDemand(cart[r], p)
        BY <4>1, DemandMonotone
      <4>6. TotalDemand(cart[r], p) \in Nat /\ stock[p] \in Int /\ items[r][p] \in Nat
        BY <1>0, <4>1, TotalType DEF TypedWith
      <4>7. ~(TotalDemand(cart[r], p) <= stock[p])
        BY <3>1, <4>1, <4>3, <4>4, <4>5, <4>6 DEF Visible
      <4>8. ~Fulfillable(cart[r], stock)
        BY <4>1, <4>7 DEF Fulfillable
      <4>9. /\ UNCHANGED <<cart, stock, status, tx>> /\ pc' = [pc EXCEPT ![r] = "refuse"]
            /\ pc \in [Requests -> Locations] /\ pc[r] = "line" /\ status[r] = 0
        BY <1>0, <2>6, <3>1 DEF SelectForUpdate, TypedWith, TxOfHandler, TxOfAnswer
      <4> QED
        BY <4>1, <4>8, <4>9, TurnedDownSteps
    <3>2. CASE ~(Visible(r, Target(r)) < Wanted(r))
      BY <1>0, <2>6, <3>2, QuietSteps DEF SelectForUpdate, TypedWith
    <3> QED
      BY <3>1, <3>2
  <2>7. CASE UpdateStock(r)
    BY <1>0, <2>7, QuietSteps DEF UpdateStock, TypedWith, TxOfHandler
  <2>8. CASE EmptyOrder(r)
    <3>1. /\ UNCHANGED <<cart, stock, status, tx>> /\ pc' = [pc EXCEPT ![r] = "refuse"]
          /\ pc \in [Requests -> Locations] /\ pc[r] = "line" /\ tx[r] = "open" /\ status[r] = 0
      BY <1>0, <2>8 DEF EmptyOrder, TypedWith, TxOfHandler, TxOfAnswer
    <3>2. cart[r] \in Carts /\ done[r] = Len(cart[r])
      BY <1>0, <2>8, LengthFact DEF EmptyOrder, MoreLines, TypedWith, ItemsOfLines
    <3>3. \A p \in Products : TotalDemand(cart[r], p) = 0
      BY <1>0, <2>8, <3>1, <3>2 DEF EmptyOrder, HasItems, ItemsOfLines, TotalDemand
    <3>4. ~Fulfillable(cart[r], stock)
      BY <3>2, <3>3, NothingDemanded
    <3> QED
      BY <3>1, <3>4, TurnedDownSteps
  <2>9. CASE InsertOrder(r)
    BY <1>0, <2>9, QuietSteps DEF InsertOrder, TypedWith, TxOfHandler
  <2>10. CASE InsertItems(r)
    BY <1>0, <2>10, QuietSteps DEF InsertItems, TypedWith, TxOfHandler
  <2>11. CASE Commit(r)
    <3>1. /\ pc[r] = "commit" /\ tx[r] = "open" /\ UNCHANGED <<cart, status>>
          /\ SetTx(r, "committed") /\ Apply(r)
          /\ \A s \in Requests : pc'[s] = "refuse" <=> pc[s] = "refuse"
      BY <1>0, <2>11 DEF Commit, TypedWith, TxOfHandler
    <3> HIDE DEF SetTx
    <3> QED
      BY <3>1, PlacingSteps
  <2>12. CASE Unwind(r)
    <3>1. /\ UNCHANGED <<cart, stock>> /\ status[r] = 0 /\ pc[r] \in {"refuse", "fail"}
          /\ status' = [status EXCEPT ![r] = ErrorStatus(r)]
          /\ pc \in [Requests -> Locations] /\ pc' = [pc EXCEPT ![r] = "done"]
      BY <1>0, <2>12 DEF Unwind, Rollback, TxOfAnswer, TypedWith
    <3>2. \A s \in Requests : tx'[s] = "committed" <=> tx[s] = "committed"
      BY <1>0, <2>12 DEF Unwind, Rollback, TypedWith
    <3>3. pc[r] = "refuse" => tx[r] # "committed"
      BY <1>0 DEF TxOfHandler
    <3>4. CASE pc[r] = "refuse"
      <4>1. status' = [status EXCEPT ![r] = 400]
        BY <3>1, <3>4 DEF ErrorStatus
      <4> QED
        BY <3>1, <3>2, <3>3, <3>4, <4>1, RefuseSteps
    <3>5. CASE pc[r] = "fail"
      <4>1. status' = [status EXCEPT ![r] = 500] /\ pc[r] # "refuse"
        BY <3>1, <3>5 DEF ErrorStatus
      <4> QED
        BY <3>1, <3>2, <4>1, FailSteps
    <3> QED
      BY <3>1, <3>4, <3>5
  <2>13. CASE Publish(r)
    BY <1>0, <2>13, QuietSteps DEF Publish, TypedWith, TxOfHandler
  <2>14. CASE Answer(r)
    <3>1. /\ tx[r] = "committed" /\ status[r] = 0 /\ status' = [status EXCEPT ![r] = 201]
          /\ pc \in [Requests -> Locations] /\ pc[r] # "refuse" /\ pc' = [pc EXCEPT ![r] = "done"]
          /\ UNCHANGED <<cart, stock, tx>>
      BY <1>0, <2>14 DEF Answer, TypedWith, TxOfHandler, TxOfAnswer
    <3> QED
      BY <3>1, ConfirmSteps
  <2> QED
    BY <1>1, <2>1, <2>2, <2>3, <2>4, <2>5, <2>6, <2>7, <2>8, <2>9, <2>10, <2>11, <2>12, <2>13, <2>14 DEF Proceed
<1>2. ASSUME NEW r \in Requests, Falter(r) PROVE Outcome
  <2>1. CASE BeginFails(r)
    BY <1>0, <2>1, QuietSteps DEF BeginFails, TypedWith, TxOfHandler
  <2>2. CASE StatementError(r)
    <3>1. tx[r] = "open" /\ UNCHANGED <<cart, stock, status>>
      BY <1>0, <2>2, StatementWhere DEF StatementError, TypedWith, TxOfHandler
    <3>2. tx' = [tx EXCEPT ![r] = "aborted"] /\ pc' = [pc EXCEPT ![r] = "fail"]
      BY <2>2 DEF StatementError
    <3> QED
      BY <3>1, <3>2, <1>0, FailingIsQuiet DEF TypedWith
  <2>3. CASE ConnectionLost(r)
    <3>1. tx[r] = "open" /\ UNCHANGED <<cart, stock, status>>
      BY <1>0, <2>3, StatementWhere DEF ConnectionLost, TypedWith, TxOfHandler
    <3>2. tx' = [tx EXCEPT ![r] = "doomed"] /\ pc' = [pc EXCEPT ![r] = "fail"]
      BY <2>3 DEF ConnectionLost
    <3> QED
      BY <3>1, <3>2, <1>0, FailingIsQuiet DEF TypedWith
  <2>4. CASE CommitInterrupted(r)
    BY <1>0, <2>4, QuietSteps DEF CommitInterrupted, TypedWith, TxOfHandler
  <2>5. CASE PublishFails(r)
    <3>1. /\ tx[r] = "committed" /\ status[r] = 0 /\ status' = [status EXCEPT ![r] = 201]
          /\ pc \in [Requests -> Locations] /\ pc[r] # "refuse" /\ pc' = [pc EXCEPT ![r] = "done"]
          /\ UNCHANGED <<cart, stock, tx>>
      BY <1>0, <2>5 DEF PublishFails, TypedWith, TxOfHandler, TxOfAnswer
    <3> QED
      BY <3>1, ConfirmSteps
  <2> QED
    BY <1>2, <2>1, <2>2, <2>3, <2>4, <2>5 DEF Falter
<1>3. ASSUME NEW r \in Requests, ServerSettles(r) PROVE Outcome
  <2>1. CASE ServerAbort(r)
    BY <1>0, <2>1, QuietSteps DEF ServerAbort, TypedWith, TxOfHandler
  <2>2. CASE InDoubtCommit(r)
    <3>1. /\ tx[r] = "indoubt" /\ pc[r] # "refuse" /\ UNCHANGED <<cart, pc, status>>
          /\ SetTx(r, "committed") /\ Apply(r)
      BY <1>0, <2>2 DEF InDoubtCommit, TxOfHandler
    <3> HIDE DEF SetTx
    <3> QED
      BY <3>1, PlacingSteps
  <2> QED
    BY <1>3, <2>1, <2>2 DEF ServerSettles
<1>4. ASSUME NEW r \in Requests, Broker(r) PROVE Outcome
  BY <1>4, QuietSteps DEF Broker, BrokerAppend, BrokerAckLost, BrokerGiveUp
<1>5. ASSUME NEW r \in Requests, Beaten(r) PROVE Outcome
  BY <1>0, <1>5, QuietSteps DEF Beaten, TypedWith, TxOfHandler
<1>6. ASSUME NEW r \in Requests, Cancel(r) PROVE Outcome
  BY <1>6, QuietSteps DEF Cancel
<1>7. ASSUME NEW pod \in Pods, Dies(pod) PROVE Outcome
  <2>1. /\ UNCHANGED <<cart, stock, status>>
        /\ \A s \in Requests : pc'[s] \in {pc[s], "dead"}
    BY <1>7 DEF Dies
  <2>2. \A s \in Requests : tx'[s] = "committed" <=> tx[s] = "committed"
    BY <1>0, <1>7 DEF Dies, Hit, TypedWith, TxOfHandler
  <2> QED
    BY <2>1, <2>2, QuietSteps
<1> QED
  BY <1>1, <1>2, <1>3, <1>4, <1>5, <1>6, <1>7 DEF OrdersStep

-----------------------------------------------------------------------------
(* A refusal stays justified: what orders do to the stock is shrink it.       *)
LEMMA JustRefusalsStep ==
  ASSUME IndInv, OrdersStep
  PROVE  JustRefusals'
<1>0. TypedWith(Requests \cup {NoTx}) /\ JustRefusals
  BY DEF IndInv, OrdersInv
<1>1. Outcome
  BY OutcomeStep DEF IndInv
<1>2. \A r \in Requests : cart[r] \in Carts /\ (pc[r] = "refuse" <=> r \in Refusing)
                                          /\ (pc'[r] = "refuse" <=> r \in Refusing')
  BY <1>0 DEF TypedWith, Refusing
<1>3. CASE Quiet
  BY <1>0, <1>2, <1>3 DEF Quiet, JustRefusals
<1>4. ASSUME NEW r \in Requests, TurnsDown(r) PROVE JustRefusals'
  BY <1>0, <1>2, <1>4 DEF TurnsDown, JustRefusals
<1>5. ASSUME NEW r \in Requests, Places(r) PROVE JustRefusals'
  <2>1. \A p \in Products : TotalDemand(cart[r], p) \in Nat /\ stock[p] \in Int
    BY <1>0, <1>2, TotalType DEF TypedWith
  <2>2. \A p \in Products : stock[p] \in Int /\ stock'[p] \in Int /\ stock'[p] <= stock[p]
    BY <1>5, <2>1 DEF Places
  <2>3. Refusing' = Refusing /\ cart' = cart
    BY <1>5 DEF Places
  <2>4. \A s \in Requests : ~Fulfillable(cart[s], stock) => ~Fulfillable(cart[s], stock')
    BY <1>2, <2>2, LessIsNotMore
  <2> QED
    BY <1>0, <1>2, <2>3, <2>4 DEF JustRefusals
<1>6. ASSUME NEW r \in Requests, NEW s \in {201, 400, 500}, Answers(r, s) PROVE JustRefusals'
  BY <1>0, <1>2, <1>6 DEF Answers, JustRefusals
<1> QED
  BY <1>1, <1>3, <1>4, <1>5, <1>6 DEF Outcome

(* Whatever happens to orders keeps IndInv.                                   *)
LEMMA IndInvKept ==
  ASSUME IndInv, OrdersStep
  PROVE  IndInv'
  BY OrdersInvStep, JustRefusalsStep DEF IndInv

(* Nor does nothing at all change anything.                                   *)
LEMMA StutterStep == IndInv /\ UNCHANGED vars => IndInv'
<1> SUFFICES ASSUME IndInv, UNCHANGED vars PROVE IndInv'
  OBVIOUS
<1>1. owner \in [Products -> Requests \cup {NoTx}] /\ stock \in [Products -> Nat]
  BY DEF IndInv, OrdersInv, TypedWith, NoOversell
<1>2. OrdersInv(Requests \cup {NoTx})'
  BY <1>1, OthersKeep DEF IndInv, vars, replyVars, busVars
<1> QED
  BY <1>2 DEF IndInv, JustRefusals, vars

-----------------------------------------------------------------------------
(* IndInv holds of every reachable state.                                     *)
THEOREM Invariance == Spec => []IndInv
<1>1. IndInv /\ [Next]_vars => IndInv'
  BY IndInvKept, StepsOfOrders, StutterStep
<1> QED
  BY InitStep, <1>1, PTL DEF Spec

(* The types of the state are as declared.                                    *)
THEOREM TypeCorrect == Spec => []TypeOK
<1>1. IndInv => TypeOK
  BY DEF IndInv, OrdersInv, TypeOK
<1> QED
  BY <1>1, Invariance, PTL

(* Create never sells what is not there.                                      *)
THEOREM NeverOversold == Spec => []NoOversell
<1>1. IndInv => NoOversell
  BY DEF IndInv, OrdersInv
<1> QED
  BY <1>1, Invariance, PTL

(* Uncommitted decrements of one row belong to one transaction.               *)
THEOREM RowsExclusive == Spec => []RowExclusive
<1>1. IndInv => RowExclusive
  BY ServiceAssumption DEF IndInv, OrdersInv, LocksOfLines, RowExclusive
<1> QED
  BY <1>1, Invariance, PTL

(* Every event in the writer or the topic is of a committed order.            *)
THEOREM EventsAreOfOrders == Spec => []NoPhantomEvent
<1>1. IndInv => NoPhantomEvent
  BY DEF IndInv, OrdersInv
<1> QED
  BY <1>1, Invariance, PTL

(* A request that waits with a sorted cart waits for a greater id than those  *)
(* of the rows it holds.                                                      *)
LEMMA WaitersClimb ==
  ASSUME NEW Holders, OrdersInv(Holders), NEW r \in Requests, Waiting(r), Ascending(cart[r]),
         NEW p \in Products, owner[p] = r
  PROVE  p < Target(r)
<1>0. TypedWith(Holders) /\ ItemsOfLines /\ LocksOfLines /\ CheckedStock
  BY DEF OrdersInv
<1>1. /\ pc[r] = "line" /\ MoreLines(r) /\ Target(r) \in Products
      /\ owner[Target(r)] # r
  BY <1>0 DEF Waiting, LockFree, CheckedStock
<1>2. PICK i \in 1..Len(cart[r]) : ResolveProductID(cart[r][i]) = p /\ i <= done[r]
  BY <1>0, <1>1 DEF LocksOfLines
<1>3. /\ done[r] + 1 \in 1..Len(cart[r]) /\ i < done[r] + 1
      /\ Target(r) = ResolveProductID(cart[r][done[r] + 1])
  <2>1. done[r] \in Nat /\ done[r] + 1 \in 1..Len(cart[r])
    BY <1>0, <1>1, CurrentLineFacts DEF TypedWith
  <2> QED
    BY <1>2, <2>1 DEF Target, CurrentLine
<1>4. p \in Nat \ {0} /\ Target(r) \in Nat \ {0}
  BY <1>1, CatalogueAssumption
<1>5. p <= Target(r)
  BY <1>2, <1>3, <1>4 DEF Ascending
<1> QED
  BY <1>1, <1>4, <1>5

(* Whoever waits in a circle waits for a row of another one in it; so waits   *)
(* cannot all be for greater ids than those of the rows held.                 *)
LEMMA NoClimbingCircle ==
  ASSUME NEW S, S # {}, NEW wants \in [S -> Products],
         \A x \in S : owner[wants[x]] \in S,
         \A x \in S : \A p \in Products : owner[p] = x => p < wants[x]
  PROVE  FALSE
<1> DEFINE T == {wants[x] : x \in S}
<1>1. T \in SUBSET Nat /\ IsFiniteSet(T) /\ T # {}
  <2>1. T \subseteq Products /\ T # {}
    OBVIOUS
  <2>2. IsFiniteSet(T)
    BY <2>1, CatalogueAssumption, FS_Subset
  <2> QED
    BY <2>1, <2>2, CatalogueAssumption
<1>2. PICK q \in T : \A t \in T : t <= q
  <2> HIDE DEF T
  <2> QED
    BY <1>1, GreatestNatural
<1>3. PICK x \in S : q = wants[x]
  OBVIOUS
<1>4. q \in Products /\ owner[q] \in S
  BY <1>3
<1>5. q < wants[owner[q]] /\ wants[owner[q]] \in T
  BY <1>4
<1>6. q \in Nat /\ wants[owner[q]] \in Nat
  BY <1>1, <1>5
<1> QED
  BY <1>2, <1>5, <1>6

(* So a circle of requests has one whose cart was not sorted.                 *)
LEMMA CyclesFollow == IndInv => CyclesNeedUnsortedCarts
<1> SUFFICES ASSUME IndInv, NEW S \in SUBSET Requests, WaitCycle(S),
                    \A r \in S : Ascending(cart[r])
             PROVE  FALSE
  BY DEF CyclesNeedUnsortedCarts
<1> DEFINE wants == [r \in S |-> Target(r)]
<1>1. \A r \in S : Waiting(r) /\ wants[r] = Target(r) /\ Target(r) \in Products
                 /\ owner[Target(r)] \in S
  BY DEF WaitCycle, Waiting
<1>2. \A r \in S : \A p \in Products : owner[p] = r => p < Target(r)
  BY <1>1, WaitersClimb DEF IndInv
<1>3. S # {} /\ wants \in [S -> Products]
  BY <1>1 DEF WaitCycle
<1> HIDE DEF wants
<1> QED
  BY <1>1, <1>2, <1>3, NoClimbingCircle

(* Requests whose carts are sorted by product id never deadlock.              *)
THEOREM SortedCartsNeverDeadlock == Spec => []CyclesNeedUnsortedCarts
BY CyclesFollow, Invariance, PTL

-----------------------------------------------------------------------------
(* The refinement of OrderLedger.  Its operators on carts are those of CartDemand.*)
LEMMA SameDemand ==
  ASSUME NEW c, NEW p
  PROVE  Ledger!TotalDemand(c, p) = TotalDemand(c, p)
  BY Zenon DEF Ledger!TotalDemand, TotalDemand, Ledger!Demand, Demand, Ledger!LineDemand,
     LineDemand, Ledger!EffectiveQty, EffectiveQty, Ledger!ResolveProductID, ResolveProductID

(* Nor is what the ledger accepts any different.                              *)
LEMMA SameFulfillable ==
  ASSUME NEW c, NEW a
  PROVE  Ledger!Fulfillable(c, a) <=> Fulfillable(c, a)
  BY SameDemand DEF Ledger!Fulfillable, Fulfillable, Ledger!KnownLine, KnownLine,
     Ledger!ResolveProductID, ResolveProductID

(* A step of the ledger, or none.                                            *)
LedgerStepped == Ledger!LedgerNext \/ UNCHANGED Ledger!ledgerVars

(* Steps that touch neither stock, answers nor committed transactions.        *)
LEMMA LedgerStutters ==
  ASSUME UNCHANGED <<cart, stock, status>>,
         \A s \in Requests : tx'[s] = "committed" <=> tx[s] = "committed"
  PROVE  LedgerStepped
<1>1. Committed' = Committed
  BY DEF Committed
<1> QED
  BY <1>1 DEF LedgerStepped, Ledger!ledgerVars

(* Every step of the service is a step of the ledger, or none.                *)
LEMMA LedgerStep ==
  ASSUME IndInv, OrdersStep
  PROVE  LedgerStepped
<1> USE DEF LedgerStepped, Ledger!LedgerNext
<1>1. Outcome
  BY OutcomeStep DEF IndInv
<1>2. \A r \in Requests : r \in Refusing => ~Fulfillable(cart[r], stock)
  BY DEF IndInv, JustRefusals, Refusing
<1>3. CASE Quiet
  BY <1>3 DEF Quiet, Ledger!ledgerVars
<1>4. ASSUME NEW r \in Requests, TurnsDown(r) PROVE LedgerStepped
  BY <1>4 DEF TurnsDown, Ledger!ledgerVars
<1>5. ASSUME NEW r \in Requests, Places(r) PROVE LedgerStepped
  <2>1. Ledger!Place(r)
    BY <1>5, SameDemand, SameFulfillable DEF Places, Ledger!Place, Ledger!Acceptable
  <2> QED
    BY <2>1
<1>6. ASSUME NEW r \in Requests, NEW s \in {201, 400, 500}, Answers(r, s) PROVE LedgerStepped
  <2>1. /\ UNCHANGED <<cart, stock, Committed>> /\ status[r] = 0
        /\ status' = [status EXCEPT ![r] = s]
    BY <1>6 DEF Answers
  <2>2. CASE s = 201
    <3>1. r \in Committed
      BY <1>6, <2>2 DEF Answers
    <3>2. Ledger!Confirm(r)
      BY <2>1, <2>2, <3>1 DEF Ledger!Confirm
    <3> QED
      BY <3>2
  <2>3. CASE s = 400
    <3>1. r \notin Committed /\ ~Ledger!Acceptable(r)
      BY <1>2, <1>6, <2>3, SameFulfillable DEF Answers, Ledger!Acceptable
    <3>2. Ledger!Refuse(r)
      BY <2>1, <2>3, <3>1 DEF Ledger!Refuse
    <3> QED
      BY <3>2
  <2>4. CASE s = 500
    <3>1. Ledger!Fail(r)
      BY <2>1, <2>4 DEF Ledger!Fail
    <3> QED
      BY <3>1
  <2> QED
    BY <2>2, <2>3, <2>4
<1> QED
  BY <1>1, <1>3, <1>4, <1>5, <1>6 DEF Outcome

(* The service implements the ledger.                                         *)
THEOREM ServiceImplementsLedger == Spec => LedgerSpec
<1>1. Init => Ledger!LedgerInit
  BY DEF Init, Ledger!LedgerInit, Committed
<1>2. IndInv /\ [Next]_vars => [Ledger!LedgerNext]_(Ledger!ledgerVars)
  <2>1. ASSUME IndInv, Next PROVE [Ledger!LedgerNext]_(Ledger!ledgerVars)
    BY <2>1, LedgerStep, StepsOfOrders DEF LedgerStepped
  <2>2. ASSUME UNCHANGED vars PROVE UNCHANGED Ledger!ledgerVars
    BY <2>2 DEF vars, Ledger!ledgerVars, Committed
  <2> QED
    BY <2>1, <2>2
<1> QED
  BY <1>1, <1>2, Invariance, PTL DEF Spec, LedgerSpec, Ledger!LedgerSpec

-----------------------------------------------------------------------------
(* The stock adds up.  First, what a line of n carts takes.                   *)
CartLine(carts, n) == n \in Nat /\ carts \in [1..n -> Carts]

(* Its length is n.                                                           *)
LEMMA LineLength == ASSUME NEW n, NEW carts, CartLine(carts, n) PROVE Len(carts) = n
<1>1. carts \in Seq(Carts)
  BY SeqDef DEF CartLine
<1> QED
  BY <1>1, LenProperties DEF CartLine

(* TakenBy solves its recursive definition, ...                               *)
LEMMA TakenUnfolds ==
  ASSUME NEW n, NEW carts, CartLine(carts, n), NEW p
  PROVE  TakenBy(carts, p) =
           [k \in 0..n |->
              IF k = 0 THEN 0 ELSE TakenBy(carts, p)[k - 1] + TotalDemand(carts[k], p)]
<1> DEFINE f == [k \in 1..n |-> TotalDemand(carts[k], p)]
           Solves(t) ==
             t = [k \in 0..n |-> IF k = 0 THEN 0 ELSE t[k - 1] + TotalDemand(carts[k], p)]
<1>0. n \in Nat
  BY DEF CartLine
<1>1. \A k \in 0..n : k # 0 => f[k] = TotalDemand(carts[k], p)
  BY <1>0
<1>2. PICK t : t = [k \in 0..n |-> IF k = 0 THEN 0 ELSE t[k - 1] + f[k]]
  BY <1>0, RunningSums
<1> HIDE DEF f
<1>3. \E e : Solves(e)
  BY <1>1, <1>2
<1>4. TakenBy(carts, p) = CHOOSE e : Solves(e)
  BY LineLength DEF TakenBy
<1> QED
  BY <1>3, <1>4

(* ... so it starts at 0 ...                                                  *)
LEMMA NothingTaken ==
  ASSUME NEW n, NEW carts, CartLine(carts, n), NEW p
  PROVE  TakenBy(carts, p)[0] = 0
<1> DEFINE t == TakenBy(carts, p)
<1>1. t = [k \in 0..n |-> IF k = 0 THEN 0 ELSE t[k - 1] + TotalDemand(carts[k], p)]
  BY TakenUnfolds
<1> HIDE DEF t
<1>2. 0 \in 0..n
  BY DEF CartLine
<1>3. t[0] = 0
  BY <1>1, <1>2
<1> QED
  BY <1>3 DEF t

(* ... and grows cart by cart.                                                *)
LEMMA NextTaken ==
  ASSUME NEW n, NEW carts, CartLine(carts, n), NEW p, NEW k \in Nat, k + 1 <= n
  PROVE  /\ TotalDemand(carts[k + 1], p) \in Nat
         /\ TakenBy(carts, p)[k + 1] = TakenBy(carts, p)[k] + TotalDemand(carts[k + 1], p)
<1> DEFINE t == TakenBy(carts, p)
<1>1. t = [j \in 0..n |-> IF j = 0 THEN 0 ELSE t[j - 1] + TotalDemand(carts[j], p)]
  BY TakenUnfolds
<1> HIDE DEF t
<1>2. k + 1 \in 0..n /\ k + 1 # 0 /\ (k + 1) - 1 = k /\ k + 1 \in 1..n
  BY DEF CartLine
<1>3. t[k + 1] = t[k] + TotalDemand(carts[k + 1], p)
  BY <1>1, <1>2
<1>4. carts[k + 1] \in Carts
  BY <1>2 DEF CartLine
<1> QED
  BY <1>3, <1>4, TotalType DEF t

(* A number of units is taken.                                                *)
LEMMA TakenType ==
  ASSUME NEW n, NEW carts, CartLine(carts, n), NEW p
  PROVE  \A k \in 0..n : TakenBy(carts, p)[k] \in Nat
<1> DEFINE Typed == {k \in Nat : k <= n => TakenBy(carts, p)[k] \in Nat}
<1>0. n \in Nat
  BY DEF CartLine
<1>1. 0 \in Typed
  BY NothingTaken
<1>2. ASSUME NEW k \in Typed PROVE k + 1 \in Typed
  <2> SUFFICES ASSUME k + 1 <= n PROVE TakenBy(carts, p)[k + 1] \in Nat
    OBVIOUS
  <2>1. k \in Nat /\ TakenBy(carts, p)[k] \in Nat
    BY <1>0
  <2>2. /\ TotalDemand(carts[k + 1], p) \in Nat
        /\ TakenBy(carts, p)[k + 1] = TakenBy(carts, p)[k] + TotalDemand(carts[k + 1], p)
    BY <2>1, NextTaken
  <2> QED
    BY <2>1, <2>2
<1>3. Typed = Nat
  <2>1. Typed \in SUBSET Nat
    OBVIOUS
  <2> HIDE DEF Typed
  <2> QED
    BY <1>1, <1>2, <2>1, InductionOnSets
<1> QED
  BY <1>0, <1>3

(* A line whose first n carts are those of another line.                      *)
StartsWith(more, m, carts, n) ==
  /\ CartLine(carts, n) /\ CartLine(more, m) /\ n <= m
  /\ \A k \in 1..n : more[k] = carts[k]

(* More carts at the end change nothing for those before them.                *)
LEMMA TakenBefore ==
  ASSUME NEW n, NEW m, NEW carts, NEW more, StartsWith(more, m, carts, n), NEW p
  PROVE  \A k \in 0..n : TakenBy(more, p)[k] = TakenBy(carts, p)[k]
<1> DEFINE Same == {k \in Nat : k <= n => TakenBy(more, p)[k] = TakenBy(carts, p)[k]}
<1>0. CartLine(carts, n) /\ CartLine(more, m)
  BY DEF StartsWith
<1>1. n \in Nat /\ m \in Nat /\ n <= m /\ \A k \in 1..n : more[k] = carts[k]
  BY DEF StartsWith, CartLine
<1>2. 0 \in Same
  BY <1>0, NothingTaken
<1>3. ASSUME NEW k \in Same PROVE k + 1 \in Same
  <2> SUFFICES ASSUME k + 1 <= n
               PROVE  TakenBy(more, p)[k + 1] = TakenBy(carts, p)[k + 1]
    OBVIOUS
  <2>1. /\ k \in Nat /\ k + 1 <= m /\ more[k + 1] = carts[k + 1]
        /\ TakenBy(more, p)[k] = TakenBy(carts, p)[k]
    BY <1>1
  <2>2. TakenBy(carts, p)[k + 1] = TakenBy(carts, p)[k] + TotalDemand(carts[k + 1], p)
    BY <1>0, <2>1, NextTaken
  <2>3. TakenBy(more, p)[k + 1] = TakenBy(more, p)[k] + TotalDemand(more[k + 1], p)
    BY <1>0, <2>1, NextTaken
  <2> QED
    BY <2>1, <2>2, <2>3
<1>4. Same = Nat
  <2>1. Same \in SUBSET Nat
    OBVIOUS
  <2> HIDE DEF Same
  <2> QED
    BY <1>2, <1>3, <2>1, InductionOnSets
<1> QED
  BY <1>1, <1>4

(* A cart that is met by what a line has left can be served after it.         *)
LEMMA ServedLast ==
  ASSUME NEW n, NEW m, NEW carts, NEW more, StartsWith(more, m, carts, n), m = n + 1,
         NEW left, left \in [Products -> Int], ServedInTurn(carts, left),
         Fulfillable(more[m], left),
         NEW next, next = [p \in Products |-> left[p] - TotalDemand(more[m], p)]
  PROVE  ServedInTurn(more, next)
<1>0. CartLine(carts, n) /\ CartLine(more, m)
  BY DEF StartsWith
<1>1. Len(carts) = n /\ Len(more) = m /\ n \in Nat /\ n \in 0..n
  BY <1>0, LineLength DEF CartLine
<1>2. \A p \in Products : \A k \in 0..n : TakenBy(more, p)[k] = TakenBy(carts, p)[k]
  BY TakenBefore
<1>3. \A p \in Products : /\ TakenBy(carts, p)[n] \in Nat
                          /\ left[p] + TakenBy(carts, p)[n] = InitStock[p]
                          /\ left[p] \in Int /\ InitStock[p] \in Nat
  BY <1>0, <1>1, TakenType, CatalogueAssumption DEF ServedInTurn
<1>4. ASSUME NEW k \in 1..m
      PROVE  Fulfillable(more[k],
                         [p \in Products |-> InitStock[p] - TakenBy(more, p)[k - 1]])
  <2>1. CASE k \in 1..n
    <3>1. k - 1 \in 0..n
      BY <1>1, <2>1
    <3>2. [p \in Products |-> InitStock[p] - TakenBy(more, p)[k - 1]]
            = [p \in Products |-> InitStock[p] - TakenBy(carts, p)[k - 1]]
      BY <1>2, <3>1
    <3>3. Fulfillable(carts[k], [p \in Products |-> InitStock[p] - TakenBy(carts, p)[k - 1]])
      BY <1>1, <2>1 DEF ServedInTurn
    <3>4. more[k] = carts[k]
      BY <2>1 DEF StartsWith
    <3> QED
      BY <3>2, <3>3, <3>4
  <2>2. CASE k = m
    <3>1. k - 1 = n
      BY <1>1, <2>2
    <3>2. \A p \in Products : InitStock[p] - TakenBy(more, p)[n] = left[p]
      BY <1>1, <1>2, <1>3
    <3>3. [p \in Products |-> InitStock[p] - TakenBy(more, p)[k - 1]] = left
      BY <3>1, <3>2
    <3> QED
      BY <2>2, <3>3
  <2> QED
    BY <1>1, <2>1, <2>2
<1>5. ASSUME NEW p \in Products
      PROVE  next[p] + TakenBy(more, p)[m] = InitStock[p]
  <2>1. /\ TotalDemand(more[m], p) \in Nat
        /\ TakenBy(more, p)[m] = TakenBy(more, p)[n] + TotalDemand(more[m], p)
    <3>1. n \in Nat /\ n + 1 <= m
      BY <1>1
    <3>2. /\ TotalDemand(more[n + 1], p) \in Nat
          /\ TakenBy(more, p)[n + 1] = TakenBy(more, p)[n] + TotalDemand(more[n + 1], p)
      BY <1>0, <3>1, NextTaken
    <3> QED
      BY <3>2
  <2>2. TakenBy(more, p)[n] = TakenBy(carts, p)[n]
    BY <1>1, <1>2
  <2> QED
    BY <1>3, <2>1, <2>2
<1> QED
  BY <1>1, <1>4, <1>5 DEF ServedInTurn

(* The orders there are are finitely many, and the stock adds up.             *)
Booked == IsFiniteSet(Committed) /\ StockAddsUp

(* It does at the start, ...                                                  *)
LEMMA BookedInit == Init => Booked
<1> SUFFICES ASSUME Init PROVE Booked
  OBVIOUS
<1> DEFINE n == Cardinality(Committed)
<1>1. Committed = {}
  BY DEF Init, Committed
<1>2. IsFiniteSet(Committed) /\ n \in Nat /\ n = 0
  BY <1>1, FS_EmptySet
<1>3. PICK line : line \in LinesOf(Committed)
  <2>1. [k \in 1..n |-> k] \in [1..n -> Committed] /\ \A k \in 1..n : FALSE
    BY <1>2
  <2> QED
    BY <1>2, <2>1 DEF LinesOf
<1> DEFINE carts == [k \in 1..n |-> cart[line[k]]]
<1> HIDE DEF n
<1>4. CartLine(carts, n) /\ \A k \in 1..n : FALSE
  BY <1>2 DEF CartLine
<1> HIDE DEF carts
<1>5. Len(carts) = n
  BY <1>4, LineLength
<1>6. ASSUME NEW p \in Products PROVE TakenBy(carts, p)[n] = 0
  <2>1. TakenBy(carts, p)[0] = 0
    BY <1>4, NothingTaken
  <2> QED
    BY <1>2, <2>1
<1>7. \A p \in Products : stock[p] = InitStock[p] /\ InitStock[p] \in Nat
  BY CatalogueAssumption DEF Init
<1>8. ServedInTurn(carts, stock)
  BY <1>4, <1>5, <1>6, <1>7 DEF ServedInTurn
<1> QED
  BY <1>2, <1>3, <1>8 DEF Booked, StockAddsUp, carts, n

(* ... and an order that is placed goes to the end of the line.               *)
LEMMA PlacedLast ==
  ASSUME Booked, cart \in [Requests -> Carts], stock \in [Products -> Int],
         NEW r \in Requests, r \notin Committed, Fulfillable(cart[r], stock),
         cart' = cart, Committed' = Committed \cup {r},
         stock' = [p \in Products |-> stock[p] - TotalDemand(cart[r], p)]
  PROVE  Booked'
<1> DEFINE n == Cardinality(Committed)
           m == Cardinality(Committed')
<1>1. /\ IsFiniteSet(Committed') /\ n \in Nat /\ m \in Nat /\ m = n + 1
  BY FS_AddElement, FS_CardinalityType DEF Booked
<1>2. PICK line \in LinesOf(Committed) : ServedInTurn([k \in 1..n |-> cart[line[k]]], stock)
  BY DEF Booked, StockAddsUp
<1> HIDE DEF n, m
<1>3. /\ line \in [1..n -> Committed]
      /\ \A j, k \in 1..n : line[j] = line[k] => j = k
  BY <1>2 DEF LinesOf, n
<1> DEFINE longer == [k \in 1..m |-> IF k = m THEN r ELSE line[k]]
           carts == [k \in 1..n |-> cart[line[k]]]
           more == [k \in 1..m |-> cart[longer[k]]]
<1>4. \A k \in 1..m : k = m \/ (k \in 1..n /\ k # m)
  BY <1>1
<1>5. /\ longer \in [1..m -> Committed']
      /\ \A j, k \in 1..m : longer[j] = longer[k] => j = k
  BY <1>3, <1>4
<1>6. longer \in LinesOf(Committed')
  <2> HIDE DEF longer
  <2> QED
    BY <1>5 DEF LinesOf, m
<1>7. Committed' \subseteq Requests /\ Committed \subseteq Requests
  BY DEF Committed
<1>8. carts \in [1..n -> Carts] /\ more \in [1..m -> Carts]
  <2> HIDE DEF longer
  <2> QED
    BY <1>3, <1>5, <1>7
<1>9. m \in 1..m /\ \A k \in 1..n : k \in 1..m /\ k # m
  BY <1>1
<1>10. more[m] = cart[r] /\ \A k \in 1..n : more[k] = carts[k]
  BY <1>9
<1> HIDE DEF carts, more
<1>11. ServedInTurn(carts, stock)
  BY <1>2 DEF carts
<1>12. stock' = [p \in Products |-> stock[p] - TotalDemand(more[m], p)]
  BY <1>10
<1>13. ServedInTurn(more, stock')
  <2>1. StartsWith(more, m, carts, n) /\ m = n + 1
    BY <1>1, <1>8, <1>10 DEF StartsWith, CartLine
  <2>2. Fulfillable(more[m], stock)
    BY <1>10
  <2> QED
    BY <1>11, <1>12, <2>1, <2>2, ServedLast
<1>14. StockAddsUp'
  <2>1. more = [k \in 1..Cardinality(Committed') |-> cart'[longer[k]]]
    BY DEF more, m
  <2> HIDE DEF longer
  <2> QED
    BY <1>6, <1>13, <2>1 DEF StockAddsUp
<1> QED
  BY <1>1, <1>14 DEF Booked

(* Nothing else the ledger does changes stock or carts.                       *)
LEMMA BookedStep ==
  ASSUME Booked, cart \in [Requests -> Carts], stock \in [Products -> Int], LedgerStepped
  PROVE  Booked'
<1>1. CASE UNCHANGED <<cart, stock, Committed>>
  BY <1>1 DEF Booked, StockAddsUp
<1>2. ASSUME NEW r \in Requests, Ledger!Place(r) PROVE Booked'
  <2>1. /\ r \notin Committed /\ Fulfillable(cart[r], stock)
        /\ cart' = cart /\ Committed' = Committed \cup {r}
        /\ stock' = [p \in Products |-> stock[p] - TotalDemand(cart[r], p)]
    BY <1>2, SameDemand, SameFulfillable DEF Ledger!Place, Ledger!Acceptable
  <2> QED
    BY <2>1, PlacedLast
<1>3. ASSUME NEW r \in Requests, Ledger!Confirm(r) \/ Ledger!Refuse(r) \/ Ledger!Fail(r)
      PROVE  UNCHANGED <<cart, stock, Committed>>
  BY <1>3 DEF Ledger!Confirm, Ledger!Refuse, Ledger!Fail
<1> QED
  BY <1>1, <1>2, <1>3 DEF LedgerStepped, Ledger!LedgerNext, Ledger!ledgerVars

(* The orders there are might have been served one at a time.                 *)
THEOREM StockIsConserved == Spec => []StockAddsUp
<1>1. IndInv /\ Booked /\ [Next]_vars => Booked'
  <2> SUFFICES ASSUME IndInv, Booked, [Next]_vars PROVE Booked'
    OBVIOUS
  <2>1. LedgerStepped
    <3>1. CASE Next
      BY <3>1, LedgerStep, StepsOfOrders
    <3>2. CASE UNCHANGED vars
      BY <3>2 DEF vars, LedgerStepped, Ledger!ledgerVars, Committed
    <3> QED
      BY <3>1, <3>2
  <2>2. cart \in [Requests -> Carts] /\ stock \in [Products -> Int]
    BY DEF IndInv, OrdersInv, TypedWith
  <2> QED
    BY <2>1, <2>2, BookedStep
<1>2. Booked => StockAddsUp
  BY DEF Booked
<1> QED
  BY <1>1, <1>2, BookedInit, Invariance, PTL DEF Spec
=============================================================================
