---------------------------- MODULE OrderQueries ----------------------------
(* GET /api/orders and GET /api/orders/{id} of the order-service: the List    *)
(* and Get handlers (order_handler.go) and their queries (order_repo.go),     *)
(* each query a snapshot of its own, while orders are being created.          *)
(*                                                                            *)
(* An order gets its created_at when its transaction begins (NOW()) and can   *)
(* be seen once that commits, with its items.  Listed is a client of List     *)
(* that walks through all pages, which is what limit, offset and total are    *)
(* for; no such client is in the repository.                                  *)
EXTENDS Integers, FiniteSets

CONSTANTS Orders,        \* the orders that will be created
          OrderUser,     \* the user of each
          Users,         \* ids of users, not 0
          Filters,       \* values of the user_id parameter
          Limits,        \* values of the limit parameter
          DefaultLimit,  \* the page size where the client gives none
          MaxClock,      \* bound: the instants created_at can tell apart
          Walkers,       \* clients that walk through the list
          Getters        \* clients that ask for one order

ASSUME QueriesAssumption ==
  /\ IsFiniteSet(Orders)
  /\ OrderUser \in [Orders -> Users]
  /\ Users \subseteq Nat \ {0}
  /\ Limits \subseteq Int
  /\ DefaultLimit \in Nat \ {0}
  /\ MaxClock \in Nat \ {0}

VARIABLES
  clock,      \* the time as created_at shows it
  created,    \* the created_at of each order, 0 before its transaction
  orderRows,  \* the committed rows of orders
  itemRows,   \* the orders whose committed items are in order_items
  wpc,        \* where each walk is
  asked,      \* its parameters
  offset,     \* the offset of its next request
  old,        \* the orders that could be seen when the walk began
  known,      \* the orders that could be seen when its request arrived
  total,      \* the last total
  seen,       \* the orders it was shown
  wcut,       \* a page broke off
  gpc,        \* where each Get is
  target,     \* the order it asks for
  early,      \* that order could be seen when the request arrived
  body        \* which of its items are answered; "cut": those that came in time

orderVars == <<clock, created, orderRows, itemRows>>
walkVars == <<wpc, asked, offset, old, known, total, seen, wcut>>
getVars == <<gpc, target, early, body>>
queryVars == <<orderVars, walkVars, getVars>>

QueriesTypeOK ==
  /\ clock \in 1..MaxClock
  /\ created \in [Orders -> 0..clock]
  /\ orderRows \subseteq {o \in Orders : created[o] # 0}
  /\ itemRows \subseteq Orders
  /\ wpc \in [Walkers -> {"new", "count", "page", "turn", "end", "failed"}]
  /\ asked \in [Walkers -> [user : Filters, limit : Limits]]
  /\ offset \in [Walkers -> Nat]
  /\ old \in [Walkers -> SUBSET Orders]
  /\ known \in [Walkers -> SUBSET Orders]
  /\ total \in [Walkers -> 0..Cardinality(Orders)]
  /\ seen \in [Walkers -> SUBSET Orders]
  /\ wcut \in [Walkers -> BOOLEAN]
  /\ gpc \in [Getters -> {"new", "order", "items", "found", "missing", "failed"}]
  /\ target \in [Getters -> Orders]
  /\ early \in [Getters -> BOOLEAN]
  /\ body \in [Getters -> {"none", "cut", "all"}]

QueriesInit ==
  /\ clock = 1
  /\ created = [o \in Orders |-> 0]
  /\ orderRows = {}
  /\ itemRows = {}
  /\ wpc = [w \in Walkers |-> "new"]
  /\ asked \in [Walkers -> [user : Filters, limit : Limits]]
  /\ offset = [w \in Walkers |-> 0]
  /\ old = [w \in Walkers |-> {}]
  /\ known = [w \in Walkers |-> {}]
  /\ total = [w \in Walkers |-> 0]
  /\ seen = [w \in Walkers |-> {}]
  /\ wcut = [w \in Walkers |-> FALSE]
  /\ gpc = [g \in Getters |-> "new"]
  /\ target \in [Getters -> Orders]
  /\ early = [g \in Getters |-> FALSE]
  /\ body = [g \in Getters |-> "none"]

-----------------------------------------------------------------------------
(* Orders appear.                                                             *)

Tick ==
  /\ clock < MaxClock
  /\ clock' = clock + 1
  /\ UNCHANGED <<created, orderRows, itemRows, walkVars, getVars>>

BeginOrder(o) ==
  /\ created[o] = 0
  /\ created' = [created EXCEPT ![o] = clock]
  /\ UNCHANGED <<clock, orderRows, itemRows, walkVars, getVars>>

(* A slip: the items inserted after the commit.                               *)
ItemsAfterCommit(o) ==
  /\ created[o] # 0
  /\ \/ o \notin orderRows /\ orderRows' = orderRows \cup {o} /\ UNCHANGED itemRows
     \/ o \in orderRows \ itemRows /\ itemRows' = itemRows \cup {o} /\ UNCHANGED orderRows
  /\ UNCHANGED <<clock, created, walkVars, getVars>>

CommitOrder(o) ==
  /\ created[o] # 0
  /\ o \notin orderRows
  /\ orderRows' = orderRows \cup {o}
  /\ itemRows' = itemRows \cup {o}
  /\ UNCHANGED <<clock, created, walkVars, getVars>>

-----------------------------------------------------------------------------
(* List.                                                                      *)

(* What the handler makes of limit, and answers; what the repository reads.   *)
AnsweredLimit(w) == IF asked[w].limit > 0 THEN asked[w].limit ELSE DefaultLimit
CappedLimit(w) == 1   \* a slip: a cap in the repository the answer does not tell
PageLimit(w) == AnsweredLimit(w)

(* WHERE ($1 = 0 OR user_id = $1); what is not a number is 0.                 *)
UserID(w) == IF asked[w].user \in Users THEN asked[w].user ELSE 0
Matching(w) == {o \in orderRows : UserID(w) \in {0, OrderUser[o]}}

Least(a, b) == IF a < b THEN a ELSE b

AnyOf(S, k) == {T \in SUBSET S : Cardinality(T) = k}   \* a slip: no ORDER BY

(* The first k of S by created_at, descending; equal ones come in any order.  *)
FirstOf(S, k) ==
  {T \in SUBSET S : Cardinality(T) = k /\ \A o \in T : \A p \in S \ T : created[o] >= created[p]}

(* LIMIT and OFFSET: what may be on the page.                                 *)
Pages(w) ==
  LET S == Matching(w)
      Skipped == FirstOf(S, Least(offset[w], Cardinality(S)))
      Page(T) == FirstOf(S \ T, Least(PageLimit(w), Cardinality(S \ T)))
  IN  UNION {Page(T) : T \in Skipped}

(* The next request of a walk arrives.                                        *)
Listed(w) ==
  /\ wpc[w] \in {"new", "turn"}
  /\ wpc' = [wpc EXCEPT ![w] = "count"]
  /\ known' = [known EXCEPT ![w] = orderRows]
  /\ old' = [old EXCEPT ![w] = IF wpc[w] = "new" THEN orderRows ELSE @]
  /\ UNCHANGED <<orderVars, asked, offset, total, seen, wcut, getVars>>

(* A slip: the total taken over from the first page.                          *)
CountOnce(w) ==
  /\ wpc[w] = "count"
  /\ total' = [total EXCEPT ![w] = IF offset[w] = 0 THEN Cardinality(Matching(w)) ELSE @]
  /\ wpc' = [wpc EXCEPT ![w] = "page"]
  /\ UNCHANGED <<orderVars, asked, offset, old, known, seen, wcut, getVars>>

(* A slip: rows counted after a join with the items, two per order.           *)
CountJoined(w) ==
  /\ wpc[w] = "count"
  /\ total' = [total EXCEPT ![w] = 2 * Cardinality(Matching(w))]
  /\ wpc' = [wpc EXCEPT ![w] = "page"]
  /\ UNCHANGED <<orderVars, asked, offset, old, known, seen, wcut, getVars>>

CountOrders(w) ==
  /\ wpc[w] = "count"
  /\ total' = [total EXCEPT ![w] = Cardinality(Matching(w))]
  /\ wpc' = [wpc EXCEPT ![w] = "page"]
  /\ UNCHANGED <<orderVars, asked, offset, old, known, seen, wcut, getVars>>

(* The page is answered; the client goes on by the limit it was told, until a *)
(* page is not full.                                                          *)
Shown(w, P) ==
  /\ seen' = [seen EXCEPT ![w] = @ \cup P]
  /\ IF Cardinality(P) < AnsweredLimit(w)
     THEN wpc' = [wpc EXCEPT ![w] = "end"] /\ UNCHANGED offset
     ELSE /\ wpc' = [wpc EXCEPT ![w] = "turn"]
          /\ offset' = [offset EXCEPT ![w] = @ + AnsweredLimit(w)]
  /\ UNCHANGED <<orderVars, asked, old, known, total, getVars>>

ReadPage(w) ==
  /\ wpc[w] = "page"
  /\ \E P \in Pages(w) : Shown(w, P)
  /\ UNCHANGED wcut

(* The connection breaks while rows come: rows.Err() is not looked at and the *)
(* rows so far are answered as the page.                                      *)
CutPage(w) ==
  /\ wpc[w] = "page"
  /\ \E P \in Pages(w) : \E k \in 0..Cardinality(P) - 1 : \E Q \in FirstOf(P, k) : Shown(w, Q)
  /\ wcut' = [wcut EXCEPT ![w] = TRUE]

(* A query fails: 500.                                                        *)
ListFails(w) ==
  /\ wpc[w] \in {"count", "page"}
  /\ wpc' = [wpc EXCEPT ![w] = "failed"]
  /\ UNCHANGED <<orderVars, asked, offset, old, known, total, seen, wcut, getVars>>

-----------------------------------------------------------------------------
(* Get.                                                                       *)

Asked(g) ==
  /\ gpc[g] = "new"
  /\ gpc' = [gpc EXCEPT ![g] = "order"]
  /\ early' = [early EXCEPT ![g] = target[g] \in orderRows]
  /\ UNCHANGED <<orderVars, walkVars, target, body>>

ReadOrder(g) ==
  /\ gpc[g] = "order"
  /\ gpc' = [gpc EXCEPT ![g] = IF target[g] \in orderRows THEN "items" ELSE "missing"]
  /\ UNCHANGED <<orderVars, walkVars, target, early, body>>

ReadItems(g) ==
  /\ gpc[g] = "items"
  /\ gpc' = [gpc EXCEPT ![g] = "found"]
  /\ body' = [body EXCEPT ![g] = IF target[g] \in itemRows THEN "all" ELSE "none"]
  /\ UNCHANGED <<orderVars, walkVars, target, early>>

(* The connection breaks before or while items come: the same.                *)
CutItems(g) ==
  /\ gpc[g] = "items"
  /\ gpc' = [gpc EXCEPT ![g] = "found"]
  /\ body' = [body EXCEPT ![g] = "cut"]
  /\ UNCHANGED <<orderVars, walkVars, target, early>>

GetFails(g) ==
  /\ gpc[g] \in {"order", "items"}
  /\ gpc' = [gpc EXCEPT ![g] = "failed"]
  /\ UNCHANGED <<orderVars, walkVars, target, early, body>>

-----------------------------------------------------------------------------
Walk(w) == Listed(w) \/ CountOrders(w) \/ ReadPage(w) \/ CutPage(w) \/ ListFails(w)
Get(g) == Asked(g) \/ ReadOrder(g) \/ ReadItems(g) \/ CutItems(g) \/ GetFails(g)

QueriesNext ==
  \/ Tick
  \/ \E o \in Orders : BeginOrder(o) \/ CommitOrder(o)
  \/ \E w \in Walkers : Walk(w)
  \/ \E g \in Getters : Get(g)

QueriesSpec == QueriesInit /\ [][QueriesNext]_queryVars

-----------------------------------------------------------------------------
(* The orders on the list that come before o whatever the tie-break, and      *)
(* whether o has an equal.                                                    *)
Ahead(w, o) == {p \in Matching(w) : created[p] > created[o]}
Tied(w, o) == \E p \in Matching(w) \ {o} : created[p] = created[o]

(* Pages are cut by offset while orders appear, also ones whose created_at is *)
(* older than what a walk has shown already (order_repo.go:263).  Rows only   *)
(* move towards later pages: a walk that ends has been shown every order that *)
(* was there when it began, unless a page broke off, or another order has the *)
(* same created_at.                                                           *)
WalksMissNothingOld ==
  \A w \in Walkers : wpc[w] = "end" =>
    \A o \in (old[w] \cap Matching(w)) \ seen[w] :
      wcut[w] \/ Tied(w, o)

(* The total is counted before the page is read: it may fall behind the page, *)
(* but never behind what could be seen when the request arrived, nor is it    *)
(* ahead of what can be seen now.                                             *)
TotalsAreRecent ==
  \A w \in Walkers : wpc[w] = "page" =>
    /\ Cardinality(known[w] \cap Matching(w)) <= total[w]
    /\ total[w] <= Cardinality(Matching(w))

(* GetByID reads the order and its items in two statements, outside any       *)
(* transaction: an order that could be seen is found, and an order found has  *)
(* all its items, unless the connection broke (rows.Err(), order_repo.go:246, *)
(* is not looked at: the answer then is a 200 like any other).                *)
FoundOrdersHaveItems ==
  \A g \in Getters :
    /\ early[g] => gpc[g] # "missing"
    /\ gpc[g] = "found" => body[g] # "none"
-----------------------------------------------------------------------------
(* The invariant the proofs rest on.                                          *)

(* An order is committed with its items, and nothing is seen before.          *)
RowsInStep ==
  /\ itemRows = orderRows
  /\ \A w \in Walkers : old[w] \cup known[w] \subseteq orderRows

(* No walk has passed what it has not shown: an order that it still owes lies *)
(* at its offset or behind.                                                   *)
NothingPassed ==
  \A w \in Walkers :
    /\ wpc[w] = "new" => offset[w] = 0
    /\ wpc[w] \in {"count", "page", "turn"} =>
         \A o \in (old[w] \cap Matching(w)) \ seen[w] :
           wcut[w] \/ Tied(w, o) \/ offset[w] <= Cardinality(Ahead(w, o))

(* A Get that has found its order, or must, can see it.                       *)
TargetsSeen ==
  \A g \in Getters : early[g] \/ gpc[g] = "items" => target[g] \in orderRows

QueriesInv ==
  /\ QueriesTypeOK
  /\ RowsInStep
  /\ NothingPassed
  /\ WalksMissNothingOld
  /\ TotalsAreRecent
  /\ TargetsSeen
  /\ FoundOrdersHaveItems
=============================================================================
