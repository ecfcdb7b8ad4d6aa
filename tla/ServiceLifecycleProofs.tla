------------------------ MODULE ServiceLifecycleProofs ------------------------
(* What rollouts, probes and kills cannot break, for any number of pods,      *)
(* requests and stops, and every kind of fault.  LifeInv is inductive: that   *)
(* what happens to orders keeps IndInv is OrderServiceProofs', and a pod that *)
(* closes adds two steps of its own, BeginRejected and PublishRejected.       *)
EXTENDS ServiceLifecycle, OrderServiceProofs

(* The closed pool sends a handler away, which keeps the handlers' invariant. *)
LEMMA BeginRejectedKeeps ==
  ASSUME IndInv, NEW r \in Requests, BeginRejected(r)
  PROVE  IndInv'
<1> USE DEF Goto, dbVars, replyVars, busVars, Locations, InFlight
<1>0. /\ TypeOK /\ TxOfHandler /\ TxOfAnswer /\ ItemsOfLines /\ LocksOfLines /\ CheckedStock
      /\ JustRefusals /\ NoOversell /\ NoPhantomEvent
  BY DEF IndInv, OrdersInv, TypeOK
<1>1. /\ pc[r] = "begin" /\ pc' = [pc EXCEPT ![r] = "fail"]
      /\ UNCHANGED <<cart, cancelled, done, tx, items, owner, stock, status, counted, event, delivered>>
  BY DEF BeginRejected
<1>2. \A s \in Requests : pc'[s] = IF s = r THEN "fail" ELSE pc[s]
  BY <1>0, <1>1 DEF TypeOK, TypedWith
<1>3. TypeOK'
  BY <1>0, <1>1 DEF TypeOK, TypedWith
<1>4. TxOfHandler' /\ TxOfAnswer'
  BY <1>0, <1>1, <1>2 DEF TxOfHandler, TxOfAnswer
<1>5. ItemsOfLines' /\ LocksOfLines'
  BY <1>0, <1>1, <1>2 DEF ItemsOfLines, LocksOfLines, HasItems, Live
<1>6. CheckedStock'
  BY <1>0, <1>1, <1>2 DEF CheckedStock, MoreLines, Target, Wanted, CurrentLine, Visible
<1>7. JustRefusals' /\ NoOversell' /\ NoPhantomEvent'
  BY <1>0, <1>1, <1>2 DEF JustRefusals, NoOversell, NoPhantomEvent, Live
<1> QED
  BY <1>3, <1>4, <1>5, <1>6, <1>7 DEF IndInv, OrdersInv, TypeOK

(* By the closed writer, which loses its event.                               *)
LEMMA PublishRejectedKeeps ==
  ASSUME IndInv, NEW r \in Requests, PublishRejected(r)
  PROVE  IndInv'
<1> USE DEF Goto, dbVars, replyVars, busVars, Locations, InFlight
<1>0. /\ TypeOK /\ TxOfHandler /\ TxOfAnswer /\ ItemsOfLines /\ LocksOfLines /\ CheckedStock
      /\ JustRefusals /\ NoOversell /\ NoPhantomEvent
  BY DEF IndInv, OrdersInv, TypeOK
<1>1. /\ pc[r] = "publish" /\ pc' = [pc EXCEPT ![r] = "done"]
      /\ counted' = [counted EXCEPT ![r] = "success"]
      /\ event' = [event EXCEPT ![r] = "lost"]
      /\ status' = [status EXCEPT ![r] = 201]
      /\ UNCHANGED <<cart, cancelled, done, tx, items, owner, stock, delivered>>
  BY DEF PublishRejected
<1>2. \A s \in Requests : /\ pc'[s] = IF s = r THEN "done" ELSE pc[s]
                          /\ status'[s] = IF s = r THEN 201 ELSE status[s]
                          /\ event'[s] = IF s = r THEN "lost" ELSE event[s]
  BY <1>0, <1>1 DEF TypeOK, TypedWith
<1>3. TypeOK'
  BY <1>0, <1>1 DEF TypeOK, TypedWith
<1>4. tx[r] = "committed"
  BY <1>0, <1>1 DEF TxOfHandler
<1>5. TxOfHandler' /\ TxOfAnswer'
  BY <1>0, <1>1, <1>2, <1>4 DEF TxOfHandler, TxOfAnswer
<1>6. ItemsOfLines' /\ LocksOfLines'
  BY <1>0, <1>1, <1>2 DEF ItemsOfLines, LocksOfLines, HasItems, Live
<1>7. CheckedStock'
  BY <1>0, <1>1, <1>2 DEF CheckedStock, MoreLines, Target, Wanted, CurrentLine, Visible
<1>8. JustRefusals' /\ NoOversell' /\ NoPhantomEvent'
  BY <1>0, <1>1, <1>2, <1>4 DEF JustRefusals, NoOversell, NoPhantomEvent, Live
<1> QED
  BY <1>3, <1>5, <1>6, <1>7, <1>8 DEF IndInv, OrdersInv, TypeOK

(* What the end of a process does to each of its handlers.                    *)
LEMMA DeathFacts ==
  ASSUME TypeOK, NEW pod \in Pods, Dies(pod)
  PROVE  /\ UNCHANGED <<cart, cancelled, done, items, owner, stock, status, delivered>>
         /\ pc' \in [Requests -> Locations] /\ tx' \in [Requests -> TxStates]
         /\ \A r \in Requests :
              /\ pc'[r] = IF r \in Hit(pod) THEN "dead" ELSE pc[r]
              /\ r \notin Hit(pod) => tx'[r] = tx[r]
              /\ tx[r] = "open" /\ r \in Hit(pod) => tx'[r] \in {"doomed", "indoubt"}
              /\ tx'[r] = "indoubt" => tx[r] = "indoubt" \/ pc[r] = "commit"
              /\ tx[r] # "open" => tx'[r] = tx[r] \/ (tx[r] = "aborted" /\ tx'[r] = "none")
              /\ event'[r] = IF Home[r] = pod /\ event[r] = "queued" THEN "lost" ELSE event[r]
<1> DEFINE Sending == {h \in Hit(pod) : pc[h] = "commit" /\ tx[h] = "open"}
<1>1. PICK S \in SUBSET Sending :
        tx' = [r \in Requests |-> CASE r \in S -> "indoubt"
                                    [] r \in Hit(pod) \ S /\ tx[r] = "open" -> "doomed"
                                    [] r \in Hit(pod) \ S /\ tx[r] = "aborted" -> "none"
                                    [] OTHER -> tx[r]]
  BY DEF Dies
<1>2. /\ UNCHANGED <<cart, cancelled, done, items, owner, stock, status, delivered>>
      /\ \A r \in Requests :
           /\ pc'[r] = IF r \in Hit(pod) THEN "dead" ELSE pc[r]
           /\ event'[r] = IF Home[r] = pod /\ event[r] = "queued" THEN "lost" ELSE event[r]
      /\ pc' \in [Requests -> Locations]
  BY DEF Dies, TypeOK, TypedWith, Locations
<1>3. ASSUME NEW r \in Requests
      PROVE  /\ tx'[r] \in TxStates
             /\ r \notin Hit(pod) => tx'[r] = tx[r]
             /\ tx[r] = "open" /\ r \in Hit(pod) => tx'[r] \in {"doomed", "indoubt"}
             /\ tx'[r] = "indoubt" => tx[r] = "indoubt" \/ pc[r] = "commit"
             /\ tx[r] # "open" => tx'[r] = tx[r] \/ (tx[r] = "aborted" /\ tx'[r] = "none")
  <2>1. CASE r \in S
    BY <1>1, <2>1 DEF TxStates
  <2>2. CASE r \notin S
    BY <1>1, <2>2 DEF TypeOK, TypedWith, TxStates
  <2> QED
    BY <2>1, <2>2
<1>4. tx' \in [Requests -> TxStates]
  BY <1>1, <1>3
<1> QED
  BY <1>2, <1>3, <1>4

-----------------------------------------------------------------------------
(* What a step of a handler, or its failing, does to the request: where the   *)
(* handler may go, and what becomes of its transaction and its event.         *)
HandlerEffect(r) ==
  /\ pc[r] \in InFlight \cup {"new"} /\ pc'[r] \in (InFlight \cup {"done"}) \ {"new"}
  /\ pc'[r] = "begin" => pc[r] = "new"
  /\ pc'[r] = "batch" => AtInsertOrder(r)
  /\ Live(r)' => Live(r) \/ pc[r] = "begin"
  /\ event'[r] = "acked" => event[r] = "acked"
  /\ event'[r] = "lost" => event[r] = "lost" \/ cancelled[r] \/ "broker" \in Faults
  /\ event'[r] = "queued" => event[r] = "queued" \/ (pc[r] = "publish" /\ pc'[r] = "await")
  /\ pc'[r] = "await" => event'[r] # "none"
  /\ tx'[r] = "indoubt" => pc'[r] = "fail" \/ (pc'[r] = "done" /\ status'[r] = 500)
  /\ tx'[r] = "committed" /\ pc'[r] = "done" => event'[r] # "none" \/ status'[r] = 500
  /\ UNCHANGED <<cancelled, delivered>>
  /\ \A s \in Requests : s # r => /\ pc'[s] = pc[s] /\ tx'[s] = tx[s]
                                 /\ event'[s] = event[s] /\ status'[s] = status[s]

LEMMA HandlerEffects ==
  ASSUME TypeOK, TxOfHandler, EventsAccounted,
         NEW r \in Requests, Proceed(r) \/ Falter(r) \/ DeadlockVictim(r)
  PROVE  HandlerEffect(r)
<1> USE DEF Goto, SetTx, dbVars, replyVars, busVars, InFlight, Live, HandlerEffect
<1>0. /\ TxOfHandler
      /\ pc \in [Requests -> Locations] /\ tx \in [Requests -> TxStates]
      /\ event \in [Requests -> {"none", "queued", "acked", "lost"}]
      /\ status \in [Requests -> {0, 201, 400, 500}]
      /\ pc[r] = "await" => event[r] # "none"
  BY DEF TypeOK, TypedWith, EventsAccounted
<1>1. CASE Proceed(r)
  <2>1. CASE DecodeFails(r)
    BY <1>0, <2>1 DEF DecodeFails, TxOfHandler
  <2>2. CASE Receive(r)
    BY <1>0, <2>2 DEF Receive, TxOfHandler
  <2>3. CASE Begin(r)
    BY <1>0, <2>3 DEF Begin, TxOfHandler
  <2>4. CASE SkipLine(r)
    BY <1>0, <2>4 DEF SkipLine, TxOfHandler
  <2>5. CASE UnknownProduct(r)
    BY <1>0, <2>5 DEF UnknownProduct, TxOfHandler
  <2>6. CASE SelectForUpdate(r)
    BY <1>0, <2>6 DEF SelectForUpdate, TxOfHandler
  <2>7. CASE UpdateStock(r)
    BY <1>0, <2>7 DEF UpdateStock, TxOfHandler
  <2>8. CASE EmptyOrder(r)
    BY <1>0, <2>8 DEF EmptyOrder, TxOfHandler
  <2>9. CASE InsertOrder(r)
    BY <1>0, <2>9 DEF InsertOrder, AtInsertOrder, TxOfHandler
  <2>10. CASE InsertItems(r)
    BY <1>0, <2>10 DEF InsertItems, TxOfHandler
  <2>11. CASE Commit(r)
    BY <1>0, <2>11 DEF Commit, Apply, TxOfHandler
  <2>12. CASE Unwind(r)
    BY <1>0, <2>12 DEF Unwind, Rollback, Undo, ErrorStatus, TxOfHandler
  <2>13. CASE Publish(r)
    BY <1>0, <2>13 DEF Publish, TxOfHandler
  <2>14. CASE Answer(r)
    BY <1>0, <2>14 DEF Answer, TxOfHandler
  <2> QED
    BY <1>1, <2>1, <2>2, <2>3, <2>4, <2>5, <2>6, <2>7, <2>8, <2>9, <2>10, <2>11, <2>12, <2>13, <2>14 DEF Proceed
<1>2. CASE Falter(r)
  <2>1. CASE BeginFails(r)
    BY <1>0, <2>1 DEF BeginFails, TxOfHandler
  <2>2. CASE StatementError(r)
    BY <1>0, <2>2, StatementWhere DEF StatementError, Undo, TxOfHandler
  <2>3. CASE ConnectionLost(r)
    BY <1>0, <2>3, StatementWhere DEF ConnectionLost, TxOfHandler
  <2>4. CASE CommitInterrupted(r)
    BY <1>0, <2>4 DEF CommitInterrupted, TxOfHandler
  <2>5. CASE PublishFails(r)
    BY <1>0, <2>5 DEF PublishFails, TxOfHandler
  <2> QED
    BY <1>2, <2>1, <2>2, <2>3, <2>4, <2>5 DEF Falter
<1>3. CASE DeadlockVictim(r)
  BY <1>0, <1>3, VictimEffect DEF Beaten, TxOfHandler
<1> QED
  BY <1>1, <1>2, <1>3

(* A handler that fails was at work, and is through or unwinds.               *)
LEMMA FalterEnds ==
  ASSUME TypeOK, NEW r \in Requests, Falter(r) \/ DeadlockVictim(r)
  PROVE  pc[r] \in InFlight /\ pc'[r] \in {"fail", "done"}
<1> USE DEF Goto, InFlight
<1>1. CASE DeadlockVictim(r)
  BY <1>1, VictimEffect DEF Beaten, TypeOK, TypedWith
<1>2. CASE Falter(r)
  BY <1>2, StatementWhere DEF Falter, BeginFails, StatementError, ConnectionLost,
                              CommitInterrupted, PublishFails, TypeOK, TypedWith
<1> QED
  BY <1>1, <1>2

(* What the server, the broker and a client that leaves do to the requests.   *)
LEMMA QuietEffects ==
  ASSUME TypeOK, NEW r \in Requests, ServerSettles(r) \/ Broker(r) \/ Cancel(r)
  PROVE  /\ UNCHANGED <<pc, status>>
         /\ \A s \in Requests :
              /\ Live(s)' => Live(s)
              /\ tx'[s] = "indoubt" => tx[s] = "indoubt"
              /\ tx'[s] = "committed" => tx[s] \in {"committed", "indoubt"}
              /\ cancelled[s] => cancelled'[s]
              /\ delivered[s] > 0 => delivered'[s] > 0
              /\ \/ event'[s] = event[s]
                 \/ event[s] = "queued" /\ event'[s] = "acked" /\ delivered'[s] > 0
                 \/ event[s] = "queued" /\ event'[s] = "lost" /\ "broker" \in Faults
<1> USE DEF Goto, SetTx, dbVars, replyVars, busVars, Live
<1>0. /\ \A s \in Requests : delivered[s] \in Nat
      /\ tx \in [Requests -> TxStates] /\ delivered \in [Requests -> 0..MaxCopies]
      /\ event \in [Requests -> {"none", "queued", "acked", "lost"}]
      /\ cancelled \in [Requests -> BOOLEAN]
  BY ServiceAssumption DEF TypeOK, TypedWith
<1>1. CASE ServerAbort(r)
  BY <1>0, <1>1 DEF ServerAbort, Undo
<1>2. CASE InDoubtCommit(r)
  BY <1>0, <1>2 DEF InDoubtCommit, Apply
<1>3. CASE BrokerAppend(r)
  BY <1>0, <1>3 DEF BrokerAppend
<1>4. CASE BrokerAckLost(r)
  BY <1>0, <1>4 DEF BrokerAckLost
<1>5. CASE BrokerGiveUp(r)
  BY <1>0, <1>5 DEF BrokerGiveUp
<1>6. CASE Cancel(r)
  BY <1>0, <1>6 DEF Cancel
<1> QED
  BY <1>1, <1>2, <1>3, <1>4, <1>5, <1>6 DEF ServerSettles, Broker

(* The steps of a pod on its own phase: all but its end.                      *)
PodStep(pod) ==
  \/ Start(pod) \/ SchemaStep(pod) \/ Terminate(pod) \/ ProbeFails(pod) \/ ProbeSucceeds(pod)
  \/ Drained(pod) \/ ShutdownOverrun(pod) \/ ProducerClosed(pod)

(* The pods start as the invariant says.                                      *)
LEMMA LifeStart == LifeInit => LifeInv
<1> SUFFICES ASSUME LifeInit PROVE LifeInv
  OBVIOUS
<1>1. IndInv
  BY InitStep DEF LifeInit
<1>2. LifeTypeOK
  <2>1. 0 \in 0..Len(LockOrder) /\ 0 \in 0..FailureThreshold - 1 /\ 0 \in 0..MaxStops
    BY LifecycleAssumption DEF LockOrder
  <2> QED
    BY <2>1 DEF LifeInit, LifeTypeOK, Phases
<1>3. TouchedInOrder /\ SchemaHasOrders /\ StopsInOrder
  BY DEF LifeInit, TouchedInOrder, SchemaHasOrders, StopsInOrder, Init
<1>4. EventsAccounted
  BY DEF LifeInit, EventsAccounted, Init
<1> QED
  BY <1>1, <1>2, <1>3, <1>4 DEF LifeInv

(* The types are kept.                                                        *)
LEMMA LifeTypeStep ==
  ASSUME LifeInv, LifeNext
  PROVE  LifeTypeOK'
<1> USE DEF Enter, Phases
<1>0. LifeTypeOK
  BY DEF LifeInv
<1>1. FailureThreshold \in Nat \ {0} /\ MaxStops \in Nat /\ Len(LockOrder) = 2
  BY LifecycleAssumption DEF LockOrder
<1>2. ASSUME NEW r \in Requests, Handle(r) PROVE LifeTypeOK'
  <2>1. touched' \in [Requests -> SUBSET Tables]
    BY <1>0, <1>2 DEF LifeTypeOK, Handle, Touch, Tables
  <2> QED
    BY <1>0, <1>2, <2>1 DEF LifeTypeOK, Handle, podVars
<1>3. ASSUME NEW r \in Requests, BeginRejected(r) \/ PublishRejected(r) \/ Settle(r) PROVE LifeTypeOK'
  BY <1>0, <1>3 DEF LifeTypeOK, BeginRejected, PublishRejected, Settle, podVars
<1>4. ASSUME NEW pod \in Pods, Terminate(pod) PROVE LifeTypeOK'
  <2>1. 0 \in 0..Len(LockOrder) /\ 0 \in 0..FailureThreshold - 1 /\ stops' \in 0..MaxStops
    BY <1>0, <1>1, <1>4 DEF Terminate, LifeTypeOK
  <2> QED
    BY <1>0, <1>4, <2>1 DEF LifeTypeOK, Terminate
<1>5. ASSUME NEW pod \in Pods, SchemaStep(pod) PROVE LifeTypeOK'
  <2>1. CASE LookForTables(pod)
    BY <1>0, <2>1 DEF LookForTables, LifeTypeOK
  <2>2. CASE CreateTables(pod) \/ CreateConflict(pod)
    BY <1>0, <2>2 DEF CreateTables, CreateConflict, LifeTypeOK
  <2>3. CASE LockTable(pod)
    <3>1. locked[pod] + 1 \in 0..Len(LockOrder)
      BY <1>0, <1>1, <2>3 DEF LockTable, LifeTypeOK
    <3> QED
      BY <1>0, <2>3, <3>1 DEF LockTable, LifeTypeOK
  <2>4. CASE Serve(pod)
    <3>1. 0 \in 0..Len(LockOrder)
      BY <1>1
    <3> QED
      BY <1>0, <2>4, <3>1 DEF Serve, LifeTypeOK
  <2> QED
    BY <1>5, <2>1, <2>2, <2>3, <2>4 DEF SchemaStep
<1>6. ASSUME NEW pod \in Pods, ProbeFails(pod) PROVE LifeTypeOK'
  <2>1. CASE misses[pod] + 1 < FailureThreshold
    <3>1. misses[pod] + 1 \in 0..FailureThreshold - 1
      BY <1>0, <1>1, <2>1 DEF LifeTypeOK
    <3> QED
      BY <1>0, <1>6, <2>1, <3>1 DEF ProbeFails, LifeTypeOK
  <2> QED
    BY <1>4, <1>6, <2>1 DEF ProbeFails
<1>7. ASSUME NEW pod \in Pods, ProbeSucceeds(pod) PROVE LifeTypeOK'
  <2>1. 0 \in 0..FailureThreshold - 1
    BY <1>1
  <2> QED
    BY <1>0, <1>7, <2>1 DEF ProbeSucceeds, LifeTypeOK
<1>8. ASSUME NEW pod \in Pods, Start(pod) \/ Stopping(pod) \/ Kill(pod) PROVE LifeTypeOK'
  <2>1. CASE Start(pod)
    BY <1>0, <2>1 DEF Start, LifeTypeOK
  <2>2. CASE Drained(pod) \/ ShutdownOverrun(pod)
    BY <1>0, <2>2 DEF Drained, ShutdownOverrun, LifeTypeOK
  <2>3. CASE ProducerClosed(pod) \/ Exit(pod) \/ Kill(pod)
    BY <1>0, <2>3 DEF ProducerClosed, Exit, Kill, LifeTypeOK
  <2> QED
    BY <1>8, <2>1, <2>2, <2>3 DEF Stopping
<1> QED
  BY <1>2, <1>3, <1>4, <1>5, <1>6, <1>7, <1>8 DEF LifeNext

(* What those steps of a pod lead to.                                         *)
LEMMA PodEffects ==
  ASSUME LifeTypeOK, SchemaHasOrders, NEW pod \in Pods, PodStep(pod)
  PROVE  /\ UNCHANGED <<vars, touched>>
         /\ \A q \in Pods : /\ late[q] => late'[q]
                            /\ q # pod => phase'[q] = phase[q] /\ locked'[q] = locked[q]
         /\ locked'[pod] > 0 =>
              /\ phase'[pod] = "locking"
              /\ locked[pod] > 0 \/ (locked[pod] = 0 /\ ~TableBusy(pod))
         /\ phase'[pod] = "closing" => phase[pod] = "closing" \/ Hit(pod) = {} \/ late'[pod]
         /\ phase'[pod] = "leaving" =>
              \/ phase[pod] = "leaving"
              \/ /\ phase[pod] = "closing"
                 /\ \A r \in Requests : Home[r] = pod => event[r] # "queued"
<1> USE DEF Enter
<1>0. /\ phase \in [Pods -> Phases] /\ late \in [Pods -> BOOLEAN] /\ locked \in [Pods -> 0..Len(LockOrder)]
      /\ locked[pod] \in Nat /\ (locked[pod] > 0 => phase[pod] = "locking")
  BY DEF LifeTypeOK, SchemaHasOrders, LockOrder
<1>1. CASE Start(pod)
  BY <1>0, <1>1 DEF Start
<1>2. CASE LookForTables(pod)
  BY <1>0, <1>2 DEF LookForTables
<1>3. CASE CreateTables(pod) \/ CreateConflict(pod)
  BY <1>0, <1>3 DEF CreateTables, CreateConflict
<1>4. CASE LockTable(pod)
  BY <1>0, <1>4 DEF LockTable
<1>5. CASE Serve(pod)
  BY <1>0, <1>5 DEF Serve
<1>6. CASE Terminate(pod)
  BY <1>0, <1>6 DEF Terminate
<1>7. CASE ProbeFails(pod)
  BY <1>0, <1>6, <1>7 DEF ProbeFails
<1>8. CASE ProbeSucceeds(pod)
  BY <1>0, <1>8 DEF ProbeSucceeds
<1>9. CASE Drained(pod)
  BY <1>0, <1>9 DEF Drained
<1>10. CASE ShutdownOverrun(pod)
  BY <1>0, <1>10 DEF ShutdownOverrun
<1>11. CASE ProducerClosed(pod)
  BY <1>0, <1>11 DEF ProducerClosed
<1> QED
  BY <1>1, <1>2, <1>3, <1>4, <1>5, <1>6, <1>7, <1>8, <1>9, <1>10, <1>11 DEF PodStep, SchemaStep

(* Every step is a handler's, the environment's, or a pod's.                  *)
LEMMA LifeSteps ==
  ASSUME LifeNext
  PROVE  \/ \E r \in Requests : /\ Proceed(r) /\ Permitted(r) /\ Touch(r)
                               /\ UNCHANGED podVars
         \/ \E r \in Requests : (Falter(r) \/ DeadlockVictim(r)) /\ UNCHANGED <<podVars, touched>>
         \/ \E r \in Requests : /\ ServerSettles(r) \/ Broker(r) \/ Cancel(r)
                               /\ UNCHANGED <<podVars, touched>>
         \/ \E r \in Requests : BeginRejected(r) \/ PublishRejected(r)
         \/ \E pod \in Pods : PodStep(pod)
         \/ \E pod \in Pods : Exit(pod) \/ Kill(pod)
  BY DEF LifeNext, Handle, Settle, PodStep, Stopping

(* IndInv is kept by all of them: rollouts break none of the handlers' rules. *)
LEMMA IndInvStep ==
  ASSUME LifeInv, LifeNext
  PROVE  IndInv'
<1>0. IndInv
  BY DEF LifeInv
<1>1. ASSUME NEW r \in Requests,
             \/ Proceed(r) \/ Falter(r) \/ DeadlockVictim(r)
             \/ ServerSettles(r) \/ Broker(r) \/ Cancel(r)
      PROVE  IndInv'
  BY <1>0, <1>1, IndInvKept, StepsOfOrders DEF Next
<1>2. ASSUME NEW r \in Requests, BeginRejected(r) \/ PublishRejected(r) PROVE IndInv'
  BY <1>0, <1>2, BeginRejectedKeeps, PublishRejectedKeeps
<1>3. ASSUME NEW pod \in Pods, PodStep(pod) PROVE IndInv'
  <2>1. UNCHANGED vars
    BY <1>3, PodEffects DEF LifeInv
  <2> QED
    BY <1>0, <2>1, StutterStep
<1>4. ASSUME NEW pod \in Pods, Exit(pod) \/ Kill(pod) PROVE IndInv'
  BY <1>0, <1>4, IndInvKept DEF OrdersStep, Exit, Kill
<1> QED
  BY <1>1, <1>2, <1>3, <1>4, LifeSteps

(* Inserts are noted where they happen, and happen in order.                  *)
LEMMA TouchedStep ==
  ASSUME LifeInv, LifeNext
  PROVE  TouchedInOrder'
<1> USE DEF InFlight
<1>0. TypeOK /\ TxOfHandler /\ TouchedInOrder /\ EventsAccounted /\ LifeTypeOK /\ SchemaHasOrders
  BY DEF LifeInv, IndInv, OrdersInv, TypeOK
<1>1. ASSUME NEW r \in Requests, Proceed(r), Touch(r) PROVE TouchedInOrder'
  <2>1. HandlerEffect(r)
    BY <1>0, <1>1, HandlerEffects
  <2>2. /\ touched' = [touched EXCEPT ![r] =
                          touched[r] \cup (IF AtInsertOrder(r) THEN {"orders"} ELSE {})
                                     \cup (IF pc[r] = "batch" THEN {"order_items"} ELSE {})]
        /\ \A s \in Requests : s # r => touched'[s] = touched[s]
    BY <1>0, <1>1 DEF Touch, LifeTypeOK
  <2>3. touched'[r] = touched[r] \cup (IF AtInsertOrder(r) THEN {"orders"} ELSE {})
                                 \cup (IF pc[r] = "batch" THEN {"order_items"} ELSE {})
    BY <1>0, <2>2 DEF LifeTypeOK
  <2>4. pc'[r] = "begin" => touched'[r] = {}
    BY <1>0, <2>1, <2>3 DEF HandlerEffect, TouchedInOrder, AtInsertOrder
  <2>5. pc'[r] = "batch" => "orders" \in touched'[r]
    BY <2>1, <2>3 DEF HandlerEffect
  <2>6. "order_items" \in touched'[r] => "orders" \in touched'[r]
    BY <1>0, <2>3 DEF TouchedInOrder
  <2> QED
    BY <1>0, <2>1, <2>2, <2>4, <2>5, <2>6 DEF HandlerEffect, TouchedInOrder
<1>2. ASSUME NEW r \in Requests, Falter(r) \/ DeadlockVictim(r), UNCHANGED touched
      PROVE  TouchedInOrder'
  <2>1. HandlerEffect(r) /\ pc'[r] \in {"fail", "done"}
    BY <1>0, <1>2, HandlerEffects, FalterEnds
  <2> QED
    BY <1>0, <1>2, <2>1 DEF HandlerEffect, TouchedInOrder
<1>3. ASSUME NEW r \in Requests, ServerSettles(r) \/ Broker(r) \/ Cancel(r), UNCHANGED touched
      PROVE  TouchedInOrder'
  BY <1>0, <1>3, QuietEffects DEF TouchedInOrder
<1>4. ASSUME NEW r \in Requests, BeginRejected(r) \/ PublishRejected(r) PROVE TouchedInOrder'
  BY <1>0, <1>4 DEF BeginRejected, PublishRejected, Goto, TouchedInOrder, TypeOK, TypedWith
<1>5. ASSUME NEW pod \in Pods, PodStep(pod) PROVE TouchedInOrder'
  <2>1. UNCHANGED <<vars, touched>>
    BY <1>0, <1>5, PodEffects
  <2> QED
    BY <1>0, <2>1 DEF TouchedInOrder, vars
<1>6. ASSUME NEW pod \in Pods, Exit(pod) \/ Kill(pod) PROVE TouchedInOrder'
  <2>1. Dies(pod) /\ UNCHANGED touched
    BY <1>6 DEF Exit, Kill
  <2>2. \A r \in Requests : pc'[r] \in {pc[r], "dead"}
    BY <1>0, <2>1, DeathFacts
  <2> QED
    BY <1>0, <2>1, <2>2 DEF TouchedInOrder
<1> QED
  BY <1>1, <1>2, <1>3, <1>4, <1>5, <1>6, LifeSteps

(* A schema step that has locked orders keeps them to itself.                 *)
LEMMA SchemaStepKeeps ==
  ASSUME LifeInv, LifeNext
  PROVE  SchemaHasOrders'
<1> USE DEF InFlight
<1>0. TypeOK /\ TxOfHandler /\ TouchedInOrder /\ EventsAccounted /\ LifeTypeOK /\ SchemaHasOrders
  BY DEF LifeInv, IndInv, OrdersInv, TypeOK
<1>1. ASSUME NEW r \in Requests, Proceed(r), Permitted(r), Touch(r), UNCHANGED podVars
      PROVE  SchemaHasOrders'
  <2>1. HandlerEffect(r)
    BY <1>0, <1>1, HandlerEffects
  <2>2. \A s \in Requests : s # r => touched'[s] = touched[s] /\ (Live(s)' <=> Live(s))
    BY <1>0, <1>1, <2>1 DEF Touch, LifeTypeOK, HandlerEffect, Live
  <2>3. touched'[r] = touched[r] \cup (IF AtInsertOrder(r) THEN {"orders"} ELSE {})
                                 \cup (IF pc[r] = "batch" THEN {"order_items"} ELSE {})
    BY <1>0, <1>1 DEF Touch, LifeTypeOK
  <2>4. ASSUME NEW pod \in Pods, locked[pod] > 0, Live(r)', "orders" \in touched'[r] PROVE FALSE
    <3>1. phase[pod] = "locking" /\ locked[pod] \in Nat
      BY <1>0, <2>4 DEF SchemaHasOrders, LifeTypeOK, LockOrder
    <3>2. ~InsertAllowed("orders")
      <4>1. 1 \in 1..Len(LockOrder) /\ LockOrder[1] = "orders" /\ ~(locked[pod] + 1 < 1)
        BY <3>1 DEF LockOrder
      <4> QED
        BY <3>1, <4>1 DEF InsertAllowed
    <3>3. ~AtInsertOrder(r)
      BY <1>1, <3>2 DEF Permitted
    <3>4. "orders" \in touched[r]
      BY <2>3, <2>4, <3>3
    <3>5. pc[r] # "begin"
      BY <1>0, <3>4 DEF TouchedInOrder
    <3>6. Live(r)
      BY <2>1, <2>4, <3>5 DEF HandlerEffect
    <3> QED
      BY <1>0, <2>4, <3>4, <3>6 DEF SchemaHasOrders
  <2> QED
    BY <1>0, <1>1, <2>2, <2>4 DEF SchemaHasOrders, podVars
<1>2. ASSUME UNCHANGED <<podVars, touched>>, \A s \in Requests : Live(s)' => Live(s) \/ touched[s] = {}
      PROVE  SchemaHasOrders'
  BY <1>0, <1>2 DEF SchemaHasOrders, podVars
<1>3. ASSUME NEW r \in Requests, Falter(r) \/ DeadlockVictim(r), UNCHANGED <<podVars, touched>>
      PROVE  SchemaHasOrders'
  <2>1. HandlerEffect(r)
    BY <1>0, <1>3, HandlerEffects
  <2>2. \A s \in Requests : Live(s)' => Live(s) \/ touched[s] = {}
    BY <1>0, <2>1 DEF HandlerEffect, TouchedInOrder, Live
  <2> QED
    BY <1>2, <1>3, <2>2
<1>4. ASSUME NEW r \in Requests, ServerSettles(r) \/ Broker(r) \/ Cancel(r),
             UNCHANGED <<podVars, touched>>
      PROVE  SchemaHasOrders'
  BY <1>0, <1>2, <1>4, QuietEffects
<1>5. ASSUME NEW r \in Requests, BeginRejected(r) \/ PublishRejected(r) PROVE SchemaHasOrders'
  <2>1. UNCHANGED <<podVars, touched>> /\ \A s \in Requests : Live(s)' <=> Live(s)
    BY <1>5 DEF BeginRejected, PublishRejected, Live, dbVars
  <2> QED
    BY <1>2, <2>1
<1>6. ASSUME NEW pod \in Pods, PodStep(pod) PROVE SchemaHasOrders'
  <2>1. /\ UNCHANGED touched /\ \A s \in Requests : Live(s)' <=> Live(s)
        /\ \A q \in Pods : q # pod => phase'[q] = phase[q] /\ locked'[q] = locked[q]
        /\ locked'[pod] > 0 => /\ phase'[pod] = "locking"
                               /\ locked[pod] > 0 \/ (locked[pod] = 0 /\ ~TableBusy(pod))
    BY <1>0, <1>6, PodEffects DEF vars, Live
  <2>2. locked[pod] = 0 /\ ~TableBusy(pod) => \A s \in Requests : Live(s) => "orders" \notin touched[s]
    BY DEF TableBusy, LockOrder
  <2> QED
    BY <1>0, <2>1, <2>2 DEF SchemaHasOrders
<1>7. ASSUME NEW pod \in Pods, Exit(pod) \/ Kill(pod) PROVE SchemaHasOrders'
  <2>1. Dies(pod) /\ UNCHANGED <<locked, touched>> /\ phase[pod] \in {"closing", "leaving"}
    BY <1>7 DEF Exit, Kill
  <2>2. \A q \in Pods : q # pod => phase'[q] = phase[q]
    BY <1>0, <1>7 DEF Exit, Kill, Enter, LifeTypeOK
  <2>3. ~(locked[pod] > 0)
    BY <1>0, <2>1 DEF SchemaHasOrders
  <2>4. \A s \in Requests : Live(s)' => Live(s)
    <3>1. ASSUME NEW s \in Requests, Live(s)' PROVE Live(s)
      BY <1>0, <2>1, <3>1, DeathFacts DEF Live
    <3> QED
      BY <3>1
  <2> QED
    BY <1>0, <2>1, <2>2, <2>3, <2>4 DEF SchemaHasOrders
<1> QED
  BY <1>1, <1>3, <1>4, <1>5, <1>6, <1>7, LifeSteps

(* A pod whose Shutdown returned in time has no handlers any more, and one    *)
(* whose writer is closed has nothing in it.                                  *)
LEMMA StopsStep ==
  ASSUME LifeInv, LifeNext
  PROVE  StopsInOrder'
<1> USE DEF InFlight
<1>0. /\ TypeOK /\ TxOfHandler /\ EventsAccounted /\ LifeTypeOK /\ SchemaHasOrders /\ StopsInOrder
      /\ Home \in [Requests -> Pods]
  BY ServiceAssumption DEF LifeInv, IndInv, OrdersInv, TypeOK
<1>1. ASSUME NEW r \in Requests, HandlerEffect(r), UNCHANGED podVars,
             pc[r] = "new" => phase[Home[r]] = "serving",
             event'[r] = "queued" => event[r] = "queued" \/ phase[Home[r]] \notin {"closing", "leaving"}
      PROVE  StopsInOrder'
  <2>1. ASSUME NEW pod \in Pods, phase[pod] \in {"closing", "leaving"}
        PROVE  Hit(pod)' \subseteq Hit(pod)
    BY <1>1, <2>1 DEF Hit, HandlerEffect, podVars
  <2>2. \A s \in Requests : s # r => event'[s] = event[s]
    BY <1>1 DEF HandlerEffect
  <2> QED
    BY <1>0, <1>1, <2>1, <2>2 DEF StopsInOrder, podVars
<1>2. ASSUME NEW r \in Requests, Proceed(r), Permitted(r), UNCHANGED podVars PROVE StopsInOrder'
  <2>1. HandlerEffect(r)
    BY <1>0, <1>2, HandlerEffects
  <2> QED
    BY <1>1, <1>2, <2>1 DEF HandlerEffect, Permitted
<1>3. ASSUME NEW r \in Requests, Falter(r) \/ DeadlockVictim(r), UNCHANGED podVars PROVE StopsInOrder'
  <2>1. HandlerEffect(r) /\ pc[r] \in InFlight /\ pc'[r] \in {"fail", "done"}
    BY <1>0, <1>3, HandlerEffects, FalterEnds
  <2> QED
    BY <1>1, <1>3, <2>1 DEF HandlerEffect
<1>4. ASSUME NEW r \in Requests, ServerSettles(r) \/ Broker(r) \/ Cancel(r), UNCHANGED podVars
      PROVE  StopsInOrder'
  <2>1. \A pod \in Pods : Hit(pod)' = Hit(pod)
    BY <1>0, <1>4, QuietEffects DEF Hit
  <2>2. \A s \in Requests : event'[s] = "queued" => event[s] = "queued"
    BY <1>0, <1>4, QuietEffects
  <2> QED
    BY <1>0, <1>4, <2>1, <2>2 DEF StopsInOrder, podVars
<1>5. ASSUME NEW r \in Requests, BeginRejected(r) \/ PublishRejected(r) PROVE StopsInOrder'
  <2>1. /\ \A pod \in Pods : Hit(pod)' \subseteq Hit(pod)
        /\ \A s \in Requests : event'[s] = "queued" => event[s] = "queued"
        /\ UNCHANGED podVars
    BY <1>0, <1>5 DEF BeginRejected, PublishRejected, Goto, Hit, TypeOK, TypedWith, busVars
  <2> QED
    BY <1>0, <2>1 DEF StopsInOrder, podVars
<1>6. ASSUME NEW pod \in Pods, PodStep(pod) PROVE StopsInOrder'
  <2>1. /\ UNCHANGED vars
        /\ \A q \in Pods : /\ late[q] => late'[q]
                           /\ q # pod => phase'[q] = phase[q]
        /\ phase'[pod] = "closing" => phase[pod] = "closing" \/ Hit(pod) = {} \/ late'[pod]
        /\ phase'[pod] = "leaving" =>
             \/ phase[pod] = "leaving"
             \/ /\ phase[pod] = "closing"
                /\ \A r \in Requests : Home[r] = pod => event[r] # "queued"
    BY <1>0, <1>6, PodEffects
  <2>2. UNCHANGED event /\ \A q \in Pods : Hit(q)' = Hit(q)
    BY <2>1 DEF vars, Hit
  <2> QED
    BY <1>0, <2>1, <2>2 DEF StopsInOrder
<1>7. ASSUME NEW pod \in Pods, Exit(pod) \/ Kill(pod) PROVE StopsInOrder'
  <2>1. /\ Dies(pod) /\ phase'[pod] = "down"
        /\ \A q \in Pods : /\ q # pod => phase'[q] = phase[q]
                           /\ late[q] => late'[q]
    BY <1>0, <1>7 DEF Exit, Kill, Enter, LifeTypeOK
  <2>2. /\ \A q \in Pods : Hit(q)' \subseteq Hit(q)
        /\ \A s \in Requests : event'[s] = "queued" => event[s] = "queued"
    BY <1>0, <2>1, DeathFacts DEF Hit
  <2> QED
    BY <1>0, <2>1, <2>2 DEF StopsInOrder
<1> QED
  BY <1>2, <1>3, <1>4, <1>5, <1>6, <1>7, LifeSteps

(* Every event that is lost has an excuse, and every handler that died had a  *)
(* pod that was late.                                                         *)
LEMMA EventsStep ==
  ASSUME LifeInv, LifeNext
  PROVE  EventsAccounted'
<1> USE DEF InFlight
<1>0. /\ TypeOK /\ TxOfHandler /\ EventsAccounted /\ LifeTypeOK /\ SchemaHasOrders /\ StopsInOrder
      /\ Home \in [Requests -> Pods]
  BY ServiceAssumption DEF LifeInv, IndInv, OrdersInv, TypeOK
<1>1. ASSUME NEW r \in Requests, Proceed(r) \/ Falter(r) \/ DeadlockVictim(r), UNCHANGED podVars
      PROVE  EventsAccounted'
  <2>1. HandlerEffect(r)
    BY <1>0, <1>1, HandlerEffects
  <2> QED
    BY <1>0, <1>1, <2>1 DEF HandlerEffect, EventsAccounted, podVars
<1>2. ASSUME NEW r \in Requests, ServerSettles(r) \/ Broker(r) \/ Cancel(r), UNCHANGED podVars
      PROVE  EventsAccounted'
  <2> SUFFICES ASSUME NEW s \in Requests
               PROVE  /\ event'[s] = "acked" => delivered'[s] > 0
                      /\ event'[s] = "lost" => cancelled'[s] \/ "broker" \in Faults \/ late[Home[s]]
                      /\ pc[s] = "dead" => late[Home[s]]
                      /\ pc[s] = "await" => event'[s] # "none"
                      /\ tx'[s] = "indoubt" =>
                            pc[s] \in {"fail", "dead"} \/ (pc[s] = "done" /\ status[s] = 500)
                      /\ tx'[s] = "committed" /\ pc[s] = "done" => event'[s] # "none" \/ status[s] = 500
    BY <1>0, <1>2, QuietEffects DEF EventsAccounted, podVars
  <2>1. /\ tx'[s] = "indoubt" => tx[s] = "indoubt"
        /\ tx'[s] = "committed" => tx[s] \in {"committed", "indoubt"}
        /\ cancelled[s] => cancelled'[s]
        /\ delivered[s] > 0 => delivered'[s] > 0
        /\ \/ event'[s] = event[s]
           \/ event[s] = "queued" /\ event'[s] = "acked" /\ delivered'[s] > 0
           \/ event[s] = "queued" /\ event'[s] = "lost" /\ "broker" \in Faults
    BY <1>0, <1>2, QuietEffects
  <2> QED
    BY <1>0, <2>1 DEF EventsAccounted
<1>3. ASSUME NEW r \in Requests, BeginRejected(r) PROVE EventsAccounted'
  BY <1>0, <1>3 DEF BeginRejected, Goto, EventsAccounted, TypeOK, TypedWith, TxOfHandler, dbVars, replyVars,
                    busVars, podVars
<1>4. ASSUME NEW r \in Requests, PublishRejected(r) PROVE EventsAccounted'
  <2>1. Home[r] \in Pods /\ r \in Hit(Home[r]) /\ phase[Home[r]] \in {"closing", "leaving"}
    BY <1>0, <1>4 DEF PublishRejected, Hit
  <2>2. late[Home[r]]
    BY <1>0, <2>1 DEF StopsInOrder
  <2> QED
    BY <1>0, <1>4, <2>2 DEF PublishRejected, Goto, EventsAccounted, TypeOK, TypedWith, TxOfHandler, dbVars,
                            podVars
<1>5. ASSUME NEW pod \in Pods, PodStep(pod) PROVE EventsAccounted'
  <2>1. UNCHANGED vars /\ \A q \in Pods : late[q] => late'[q]
    BY <1>0, <1>5, PodEffects
  <2>2. \A r \in Requests : Home[r] \in Pods
    BY <1>0
  <2> QED
    BY <1>0, <2>1, <2>2 DEF EventsAccounted, vars
<1>6. ASSUME NEW pod \in Pods, Exit(pod) \/ Kill(pod) PROVE EventsAccounted'
  <2>1. Dies(pod) /\ \A q \in Pods : late[q] => late'[q]
    BY <1>0, <1>6 DEF Exit, Kill, LifeTypeOK
  <2>2. Hit(pod) # {} => late'[pod]
    BY <1>0, <1>6 DEF Exit, Kill, StopsInOrder, LifeTypeOK
  <2>3. \A r \in Requests : Home[r] = pod /\ event[r] = "queued" => late'[pod]
    BY <1>0, <1>6 DEF Exit, Kill, StopsInOrder, LifeTypeOK
  <2> SUFFICES ASSUME NEW r \in Requests
               PROVE  /\ event'[r] = "acked" => delivered[r] > 0
                      /\ event'[r] = "lost" => cancelled[r] \/ "broker" \in Faults \/ late'[Home[r]]
                      /\ pc'[r] = "dead" => late'[Home[r]]
                      /\ pc'[r] = "await" => event'[r] # "none"
                      /\ tx'[r] = "indoubt" =>
                            pc'[r] \in {"fail", "dead"} \/ (pc'[r] = "done" /\ status[r] = 500)
                      /\ tx'[r] = "committed" /\ pc'[r] = "done" => event'[r] # "none" \/ status[r] = 500
    BY <1>0, <2>1, DeathFacts DEF EventsAccounted
  <2>4. /\ Home[r] \in Pods /\ (late[Home[r]] => late'[Home[r]])
        /\ event'[r] = "lost" => event[r] = "lost" \/ late'[Home[r]]
        /\ event'[r] # "lost" => event'[r] = event[r]
        /\ event[r] # "none" => event'[r] # "none"
    BY <1>0, <2>1, <2>3, DeathFacts
  <2>5. CASE r \in Hit(pod)
    <3>1. pc'[r] = "dead" /\ late'[Home[r]]
      BY <1>0, <2>1, <2>2, <2>5, DeathFacts DEF Hit
    <3> QED
      BY <1>0, <2>4, <3>1 DEF EventsAccounted
  <2>6. CASE r \notin Hit(pod)
    <3>1. pc'[r] = pc[r] /\ tx'[r] = tx[r]
      BY <1>0, <2>1, <2>6, DeathFacts
    <3> QED
      BY <1>0, <2>4, <3>1 DEF EventsAccounted
  <2> QED
    BY <2>5, <2>6
<1> QED
  BY <1>1, <1>2, <1>3, <1>4, <1>5, <1>6, LifeSteps

-----------------------------------------------------------------------------
(* LifeInv holds through every start, probe, stop, overrun and kill of pods,  *)
(* with handlers anywhere (main.go around order_handler.go, order_repo.go).   *)
THEOREM LifeInvariance == LifeSpec => []LifeInv
<1>1. LifeInv /\ [LifeNext]_lifeVars => LifeInv'
  <2> SUFFICES ASSUME LifeInv, [LifeNext]_lifeVars PROVE LifeInv'
    OBVIOUS
  <2>1. CASE LifeNext
    BY <2>1, IndInvStep, LifeTypeStep, TouchedStep, SchemaStepKeeps, StopsStep, EventsStep DEF LifeInv
  <2>2. CASE UNCHANGED lifeVars
    <3>1. IndInv'
      BY <2>2, StutterStep DEF LifeInv, lifeVars
    <3>2. UNCHANGED vars /\ UNCHANGED <<schema, phase, locked, misses, stops, late, touched>>
      BY <2>2 DEF lifeVars, podVars
    <3>3. LifeTypeOK' /\ TouchedInOrder' /\ EventsAccounted'
      BY <3>2 DEF LifeInv, LifeTypeOK, TouchedInOrder, EventsAccounted, vars
    <3>4. SchemaHasOrders' /\ StopsInOrder'
      BY <3>2 DEF LifeInv, SchemaHasOrders, StopsInOrder, Hit, Live, vars
    <3> QED
      BY <3>1, <3>3, <3>4 DEF LifeInv
  <2> QED
    BY <2>1, <2>2 DEF LifeNext
<1> QED
  BY LifeStart, <1>1, PTL DEF LifeSpec

(* A schema step that holds one table never waits for the other: Migrate and  *)
(* the orders lock them in the same order.                                    *)
THEOREM SchemaStepsNeverBlockHalfway == LifeSpec => []LockedPodsDoNotWait
<1>1. LifeInv => LockedPodsDoNotWait
  <2> SUFFICES ASSUME LifeInv, NEW pod \in Pods, phase[pod] = "locking",
                      locked[pod] \in 1..(Len(LockOrder) - 1),
                      NEW r \in Requests, Live(r), LockOrder[locked[pod] + 1] \in touched[r]
               PROVE  FALSE
    BY DEF LockedPodsDoNotWait, TableBusy
  <2>1. locked[pod] = 1 /\ LockOrder[locked[pod] + 1] = "order_items"
    BY DEF LockOrder
  <2>2. "orders" \in touched[r]
    BY <2>1 DEF LifeInv, TouchedInOrder
  <2> QED
    BY <2>1, <2>2 DEF LifeInv, SchemaHasOrders
<1> QED
  BY <1>1, LifeInvariance, PTL

(* A pod that is stopped in time leaves no order silent: Shutdown comes before*)
(* Producer.Close, and that before the exit.                                  *)
THEOREM TimelyStopsAreLossless == LifeSpec => []TimelyStopsLoseNothing
<1>1. LifeInv => TimelyStopsLoseNothing
  <2> SUFFICES ASSUME LifeInv, NEW r \in Requests, tx[r] = "committed", pc[r] \in {"done", "dead"}
               PROVE  \/ delivered[r] > 0 \/ event[r] = "queued"
                      \/ cancelled[r] \/ status[r] = 500 \/ "broker" \in Faults
                      \/ late[Home[r]]
    BY DEF TimelyStopsLoseNothing
  <2>1. event[r] \in {"none", "queued", "acked", "lost"}
    BY DEF LifeInv, IndInv, OrdersInv, TypeOK, TypedWith
  <2> QED
    BY <2>1 DEF LifeInv, EventsAccounted
<1> QED
  BY <1>1, LifeInvariance, PTL

(* Nor do rollouts make Create sell what is not there.                        *)
THEOREM RolloutsNeverOversell == LifeSpec => []NoOversell
<1>1. LifeInv => NoOversell
  BY DEF LifeInv, IndInv, OrdersInv, TypeOK
<1> QED
  BY <1>1, LifeInvariance, PTL

(* Every step in the life of the pods is a step of the ledger, or none.       *)
LEMMA LifeLedgerStep ==
  ASSUME LifeInv, [LifeNext]_lifeVars
  PROVE  LedgerStepped
<1>0. IndInv /\ TypeOK /\ TxOfHandler /\ TxOfAnswer
  BY DEF LifeInv, IndInv, OrdersInv, TypeOK
<1>1. ASSUME NEW r \in Requests,
             \/ Proceed(r) \/ Falter(r) \/ DeadlockVictim(r)
             \/ ServerSettles(r) \/ Broker(r) \/ Cancel(r)
      PROVE  LedgerStepped
  BY <1>0, <1>1, LedgerStep, StepsOfOrders DEF Next
<1>2. ASSUME NEW r \in Requests, BeginRejected(r) PROVE LedgerStepped
  BY <1>2, LedgerStutters DEF BeginRejected, dbVars, replyVars
<1>3. ASSUME NEW r \in Requests, PublishRejected(r) PROVE LedgerStepped
  <2>1. /\ tx[r] = "committed" /\ status[r] = 0 /\ status' = [status EXCEPT ![r] = 201]
        /\ UNCHANGED <<cart, stock, tx>>
    BY <1>0, <1>3 DEF PublishRejected, dbVars, TxOfHandler, TxOfAnswer
  <2>2. r \in Committed /\ Committed' = Committed
    BY <2>1 DEF Committed
  <2>3. Ledger!Confirm(r)
    BY <2>1, <2>2 DEF Ledger!Confirm
  <2> QED
    BY <2>3 DEF LedgerStepped, Ledger!LedgerNext
<1>4. ASSUME NEW pod \in Pods, PodStep(pod) PROVE LedgerStepped
  <2>1. UNCHANGED vars
    BY <1>4, PodEffects DEF LifeInv
  <2> QED
    BY <2>1, LedgerStutters DEF vars
<1>5. ASSUME NEW pod \in Pods, Exit(pod) \/ Kill(pod) PROVE LedgerStepped
  <2>1. Dies(pod)
    BY <1>5 DEF Exit, Kill
  <2>2. /\ UNCHANGED <<cart, stock, status>>
        /\ \A s \in Requests : tx'[s] = "committed" <=> tx[s] = "committed"
    BY <1>0, <2>1, DeathFacts
  <2> QED
    BY <2>2, LedgerStutters
<1>6. CASE UNCHANGED lifeVars
  BY <1>6, LedgerStutters DEF lifeVars, vars
<1> QED
  BY <1>1, <1>2, <1>3, <1>4, <1>5, <1>6, LifeSteps

(* The promise of OrderLedger holds through the life of the pods: starting,   *)
(* stopping and killing them answers no order wrongly and places none twice.  *)
THEOREM LifeImplementsLedger == LifeSpec => LedgerSpec
<1>1. LifeInit => Ledger!LedgerInit
  BY DEF LifeInit, Init, Ledger!LedgerInit, Committed
<1>2. LifeInv /\ [LifeNext]_lifeVars => [Ledger!LedgerNext]_(Ledger!ledgerVars)
  BY LifeLedgerStep DEF LedgerStepped
<1> QED
  BY <1>1, <1>2, LifeInvariance, PTL DEF LifeSpec, LedgerSpec, Ledger!LedgerSpec

(* Nor does it lose or double what an order has taken.                        *)
THEOREM RolloutsConserveStock == LifeSpec => []StockAddsUp
<1>1. LifeInit => Booked
  BY BookedInit DEF LifeInit
<1>2. LifeInv /\ Booked /\ [LifeNext]_lifeVars => Booked'
  <2> SUFFICES ASSUME LifeInv, Booked, [LifeNext]_lifeVars PROVE Booked'
    OBVIOUS
  <2>1. cart \in [Requests -> Carts] /\ stock \in [Products -> Int]
    BY DEF LifeInv, IndInv, OrdersInv, TypedWith
  <2> QED
    BY <2>1, BookedStep, LifeLedgerStep
<1>3. Booked => StockAddsUp
  BY DEF Booked
<1> QED
  BY <1>1, <1>2, <1>3, LifeInvariance, PTL DEF LifeSpec
=============================================================================
