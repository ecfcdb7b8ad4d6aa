-------------------------- MODULE ServiceLifecycle --------------------------
(* The life of order-service pods (main.go), around the handlers of           *)
(* OrderService: schema step, serving under probes, SIGTERM, Shutdown with a  *)
(* deadline, Producer.Close, pool.Close, exit, restart.                       *)
(*                                                                            *)
(* Kubernetes, PostgreSQL's table locks and the writer's Close are external.  *)
(* CREATE INDEX IF NOT EXISTS takes a SHARE lock on its table before it looks *)
(* for the index, an INSERT a ROW EXCLUSIVE lock; both last to the end of the *)
(* transaction, and the second conflicts with the first, held or waited for.  *)
EXTENDS OrderServiceProperties

CONSTANTS FailureThreshold,  \* failed liveness probes in a row until a restart
          MaxStops           \* bound: how often pods are told to stop

ASSUME LifecycleAssumption == FailureThreshold \in Nat \ {0} /\ MaxStops \in Nat

VARIABLES
  schema,   \* the tables orders and order_items exist
  phase,    \* where each pod's process is
  locked,   \* how many tables its schema step has locked
  misses,   \* liveness probes it has failed in a row
  stops,    \* how often pods were told to stop, by a rollout or a probe
  late,     \* it was killed, or its Shutdown once overran the deadline
  touched   \* the tables each request's transaction has inserted into

podVars == <<schema, phase, locked, misses, stops, late>>
lifeVars == <<vars, podVars, touched>>

Phases == {"down", "starting", "creating", "locking", "serving", "draining",
           "closing", "leaving"}
Tables == {"orders", "order_items"}

(* The tables the CREATE INDEX statements of Migrate lock, in their order.    *)
ItemsFirst == << "order_items", "orders" >>   \* a slip: the other order
LockOrder == << "orders", "order_items" >>

LifeTypeOK ==
  /\ schema \in BOOLEAN
  /\ phase \in [Pods -> Phases]
  /\ locked \in [Pods -> 0..Len(LockOrder)]
  /\ misses \in [Pods -> 0..FailureThreshold - 1]
  /\ stops \in 0..MaxStops
  /\ late \in [Pods -> BOOLEAN]
  /\ touched \in [Requests -> SUBSET Tables]

LifeInit ==
  /\ Init
  /\ schema = FALSE
  /\ phase = [pod \in Pods |-> "down"]
  /\ locked = [pod \in Pods |-> 0]
  /\ misses = [pod \in Pods |-> 0]
  /\ stops = 0
  /\ late = [pod \in Pods |-> FALSE]
  /\ touched = [r \in Requests |-> {}]

Enter(pod, ph) == phase' = [phase EXCEPT ![pod] = ph]

-----------------------------------------------------------------------------
(* The schema step.                                                           *)

Start(pod) ==
  /\ phase[pod] = "down"
  /\ Enter(pod, "starting")
  /\ UNCHANGED <<vars, schema, locked, misses, stops, late, touched>>

(* A slip: CREATE TABLE without IF NOT EXISTS.                                *)
AlwaysCreate(pod) ==
  /\ phase[pod] = "starting"
  /\ Enter(pod, "creating")
  /\ UNCHANGED <<vars, schema, locked, misses, stops, late, touched>>

(* CREATE TABLE IF NOT EXISTS finds the tables, or does not.                  *)
LookForTables(pod) ==
  /\ phase[pod] = "starting"
  /\ Enter(pod, IF schema THEN "locking" ELSE "creating")
  /\ UNCHANGED <<vars, schema, locked, misses, stops, late, touched>>

CreateTables(pod) ==
  /\ phase[pod] = "creating"
  /\ ~schema
  /\ schema' = TRUE
  /\ Enter(pod, "serving")
  /\ UNCHANGED <<vars, locked, misses, stops, late, touched>>

(* Another pod's CREATE TABLE has won: a unique violation, os.Exit(1).        *)
CreateConflict(pod) ==
  /\ phase[pod] = "creating"
  /\ schema
  /\ Enter(pod, "down")
  /\ UNCHANGED <<vars, schema, locked, misses, stops, late, touched>>

(* A live transaction has inserted into the next table to be locked.          *)
TableBusy(pod) == \E r \in Requests : Live(r) /\ LockOrder[locked[pod] + 1] \in touched[r]

LockTable(pod) ==
  /\ phase[pod] = "locking"
  /\ locked[pod] < Len(LockOrder)
  /\ ~TableBusy(pod)
  /\ locked' = [locked EXCEPT ![pod] = @ + 1]
  /\ UNCHANGED <<vars, schema, phase, misses, stops, late, touched>>

(* The schema step commits; the producer is made and the server listens.      *)
Serve(pod) ==
  /\ phase[pod] = "locking"
  /\ locked[pod] = Len(LockOrder)
  /\ Enter(pod, "serving")
  /\ locked' = [locked EXCEPT ![pod] = 0]
  /\ UNCHANGED <<vars, schema, misses, stops, late, touched>>

(* An INSERT waits for a schema step that has locked its table or wants to.   *)
InsertAllowed(table) ==
  \A pod \in Pods : \A k \in 1..Len(LockOrder) :
    phase[pod] = "locking" /\ LockOrder[k] = table => locked[pod] + 1 < k

-----------------------------------------------------------------------------
(* Handlers, as their pod lets them.                                          *)

AtInsertOrder(r) == pc[r] = "line" /\ ~MoreLines(r) /\ HasItems(r)

(* Only a serving pod accepts requests; a pool that is closing lends nothing; *)
(* a closed writer takes nothing.                                             *)
Permitted(r) ==
  /\ pc[r] = "new" => phase[Home[r]] = "serving"
  /\ pc[r] = "begin" => phase[Home[r]] # "leaving"
  /\ pc[r] = "publish" => phase[Home[r]] \notin {"closing", "leaving"}
  /\ AtInsertOrder(r) => InsertAllowed("orders")
  /\ pc[r] = "batch" => InsertAllowed("order_items")

Touch(r) ==
  touched' = [touched EXCEPT ![r] =
                @ \cup (IF AtInsertOrder(r) THEN {"orders"} ELSE {})
                  \cup (IF pc[r] = "batch" THEN {"order_items"} ELSE {})]

Handle(r) == Permitted(r) /\ Proceed(r) /\ Touch(r) /\ UNCHANGED podVars

(* pool.Begin of a closed pool.                                               *)
BeginRejected(r) ==
  /\ pc[r] = "begin"
  /\ phase[Home[r]] = "leaving"
  /\ Goto(r, "fail")
  /\ UNCHANGED <<cart, cancelled, done, dbVars, replyVars, busVars, podVars, touched>>

(* WriteMessages of a closed writer: the error is discarded, the answer 201.  *)
PublishRejected(r) ==
  /\ pc[r] = "publish"
  /\ phase[Home[r]] \in {"closing", "leaving"}
  /\ counted' = [counted EXCEPT ![r] = "success"]
  /\ event' = [event EXCEPT ![r] = "lost"]
  /\ status' = [status EXCEPT ![r] = 201]
  /\ Goto(r, "done")
  /\ UNCHANGED <<cart, cancelled, done, dbVars, delivered, podVars, touched>>

-----------------------------------------------------------------------------
(* Probes and the end.                                                        *)

(* SIGTERM, with the pod where it is: NotifyContext ends the schema step.     *)
Terminate(pod) ==
  /\ phase[pod] \in {"starting", "creating", "locking", "serving"}
  /\ stops < MaxStops
  /\ stops' = stops + 1
  /\ Enter(pod, IF phase[pod] = "serving" THEN "draining" ELSE "down")
  /\ locked' = [locked EXCEPT ![pod] = 0]
  /\ misses' = [misses EXCEPT ![pod] = 0]
  /\ UNCHANGED <<vars, schema, late, touched>>

(* A slip: one failed probe too many is tolerated.                            *)
OneMoreMiss(pod) ==
  /\ phase[pod] = "serving"
  /\ Cardinality(InUse(pod)) = MaxConns
  /\ IF misses[pod] < FailureThreshold
     THEN misses' = [misses EXCEPT ![pod] = @ + 1]
          /\ UNCHANGED <<vars, schema, phase, locked, stops, late, touched>>
     ELSE Terminate(pod)

(* Health gets no connection within its two seconds; after enough of these    *)
(* the kubelet stops the pod.                                                 *)
ProbeFails(pod) ==
  /\ phase[pod] = "serving"
  /\ Cardinality(InUse(pod)) = MaxConns
  /\ IF misses[pod] + 1 < FailureThreshold
     THEN misses' = [misses EXCEPT ![pod] = @ + 1]
          /\ UNCHANGED <<vars, schema, phase, locked, stops, late, touched>>
     ELSE Terminate(pod)

ProbeSucceeds(pod) ==
  /\ phase[pod] = "serving"
  /\ misses[pod] > 0
  /\ Cardinality(InUse(pod)) < MaxConns
  /\ misses' = [misses EXCEPT ![pod] = 0]
  /\ UNCHANGED <<vars, schema, phase, locked, stops, late, touched>>

(* A slip: the listener closed, handlers not waited for.                      *)
StopListening(pod) ==
  /\ phase[pod] = "draining"
  /\ Enter(pod, "closing")
  /\ UNCHANGED <<vars, schema, locked, misses, stops, late, touched>>

(* server.Shutdown returns: no handler is left.                               *)
Drained(pod) ==
  /\ phase[pod] = "draining"
  /\ Hit(pod) = {}
  /\ Enter(pod, "closing")
  /\ UNCHANGED <<vars, schema, locked, misses, stops, late, touched>>

(* ShutdownTimeout is over: the handlers go on, and so does main.             *)
ShutdownOverrun(pod) ==
  /\ phase[pod] = "draining"
  /\ Hit(pod) # {}
  /\ Enter(pod, "closing")
  /\ late' = [late EXCEPT ![pod] = TRUE]
  /\ UNCHANGED <<vars, schema, locked, misses, stops, touched>>

(* Producer.Close waits for the batches of the writer.                        *)
ProducerClosed(pod) ==
  /\ phase[pod] = "closing"
  /\ \A r \in Requests : Home[r] = pod => event[r] # "queued"
  /\ Enter(pod, "leaving")
  /\ UNCHANGED <<vars, schema, locked, misses, stops, late, touched>>

(* pool.Close waits for every connection to be handed back; main returns, and *)
(* with it whatever handlers are left.                                        *)
Exit(pod) ==
  /\ phase[pod] = "leaving"
  /\ InUse(pod) = {}
  /\ Dies(pod)
  /\ Enter(pod, "down")
  /\ UNCHANGED <<schema, locked, misses, stops, late, touched>>

(* The grace period is over, longer than ShutdownTimeout: SIGKILL.            *)
Kill(pod) ==
  /\ phase[pod] \in {"closing", "leaving"}
  /\ Dies(pod)
  /\ Enter(pod, "down")
  /\ late' = [late EXCEPT ![pod] = TRUE]
  /\ UNCHANGED <<schema, locked, misses, stops, touched>>

-----------------------------------------------------------------------------
Settle(r) ==
  (Falter(r) \/ DeadlockVictim(r) \/ ServerSettles(r) \/ Broker(r) \/ Cancel(r))
    /\ UNCHANGED <<podVars, touched>>

SchemaStep(pod) ==
  LookForTables(pod) \/ CreateTables(pod) \/ CreateConflict(pod) \/ LockTable(pod) \/ Serve(pod)

Stopping(pod) == Drained(pod) \/ ShutdownOverrun(pod) \/ ProducerClosed(pod) \/ Exit(pod)

LifeNext ==
  \/ \E r \in Requests : \/ Handle(r) \/ BeginRejected(r) \/ PublishRejected(r) \/ Settle(r)
  \/ \E pod \in Pods : \/ Start(pod) \/ SchemaStep(pod) \/ Terminate(pod) \/ ProbeFails(pod)
                       \/ ProbeSucceeds(pod) \/ Stopping(pod) \/ Kill(pod)

LifeSpec == LifeInit /\ [][LifeNext]_lifeVars

(* As in OrderService; and the kubelet restarts a container that has ended,   *)
(* main goes on.  Nothing is assumed of SIGTERM, probes and SIGKILL.          *)
LifeFairness ==
  /\ \A r \in Requests :
       /\ WF_lifeVars(Handle(r) \/ BeginRejected(r) \/ PublishRejected(r))
       /\ WF_lifeVars(cancelled[r] /\ Falter(r) /\ UNCHANGED <<podVars, touched>>)
       /\ WF_lifeVars(DeadlockVictim(r) /\ UNCHANGED <<podVars, touched>>)
       /\ WF_lifeVars(ServerSettles(r) /\ UNCHANGED <<podVars, touched>>)
       /\ WF_lifeVars(Broker(r) /\ UNCHANGED <<podVars, touched>>)
  /\ \A pod \in Pods :
       WF_lifeVars(Start(pod)) /\ WF_lifeVars(SchemaStep(pod)) /\ WF_lifeVars(Stopping(pod))

FairLifeSpec == LifeSpec /\ LifeFairness

-----------------------------------------------------------------------------
(* main.go:102-114, Shutdown before Close: a pod that is stopped in time      *)
(* leaves no order silent.  An order whose handler is through, or gone, has   *)
(* its event in the topic or in the writer, unless its client left, COMMIT    *)
(* was in doubt, or its pod was late.                                         *)
TimelyStopsLoseNothing ==
  \A r \in Requests :
    tx[r] = "committed" /\ pc[r] \in {"done", "dead"} =>
      \/ delivered[r] > 0 \/ event[r] = "queued"
      \/ cancelled[r] \/ status[r] = 500 \/ "broker" \in Faults
      \/ late[Home[r]]

(* Migrate locks orders before order_items, as every order does: a starting   *)
(* pod that has locked one table never waits for the other, so that it and a  *)
(* running order never wait for one another.                                  *)
LockedPodsDoNotWait ==
  \A pod \in Pods :
    phase[pod] = "locking" /\ locked[pod] \in 1..(Len(LockOrder) - 1) => ~TableBusy(pod)

(* Replicas that race to create the schema, wait for the tables of running    *)
(* orders, are probed without a free connection and stopped, all come to      *)
(* serve again.                                                               *)
PodsComeUp == \A pod \in Pods : []<>(phase[pod] = "serving")

(* A pod that is told to stop ends, even one whose handlers wait for rows.    *)
PodsStop == \A pod \in Pods : phase[pod] = "draining" ~> phase[pod] = "down"
-----------------------------------------------------------------------------
(* The invariant the proofs rest on, with that of the handlers.               *)

(* An order inserts into orders before order_items, and into neither before   *)
(* its transaction begins.                                                    *)
TouchedInOrder ==
  \A r \in Requests :
    /\ pc[r] \in {"new", "begin"} => touched[r] = {}
    /\ pc[r] = "batch" => "orders" \in touched[r]
    /\ "order_items" \in touched[r] => "orders" \in touched[r]

(* A schema step that has a lock has orders: no live order holds it.          *)
SchemaHasOrders ==
  \A pod \in Pods : locked[pod] > 0 =>
    /\ phase[pod] = "locking"
    /\ \A r \in Requests : Live(r) => "orders" \notin touched[r]

(* Once Shutdown has returned in time there are no handlers, and once Close   *)
(* has, there is nothing in the writer.                                       *)
StopsInOrder ==
  \A pod \in Pods :
    /\ phase[pod] \in {"closing", "leaving"} => Hit(pod) = {} \/ late[pod]
    /\ phase[pod] = "leaving" => \A r \in Requests : Home[r] = pod => event[r] # "queued"

(* What has become of each event, and why.                                    *)
EventsAccounted ==
  \A r \in Requests :
    /\ event[r] = "acked" => delivered[r] > 0
    /\ event[r] = "lost" => cancelled[r] \/ "broker" \in Faults \/ late[Home[r]]
    /\ pc[r] = "dead" => late[Home[r]]
    /\ pc[r] = "await" => event[r] # "none"
    /\ tx[r] = "indoubt" => pc[r] \in {"fail", "dead"} \/ (pc[r] = "done" /\ status[r] = 500)
    /\ tx[r] = "committed" /\ pc[r] = "done" => event[r] # "none" \/ status[r] = 500

LifeInv ==
  /\ IndInv
  /\ LifeTypeOK
  /\ TouchedInOrder
  /\ SchemaHasOrders
  /\ StopsInOrder
  /\ EventsAccounted
=============================================================================
