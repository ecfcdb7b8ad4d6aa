------------------------- MODULE OrderQueriesProofs -------------------------
(* What a walk through the list misses, how far its totals may be off, and    *)
(* what a Get finds, for any orders, users, limits and clients: QueriesInv is *)
(* inductive.                                                                 *)
EXTENDS OrderQueries, FiniteSetTheorems, TLAPS

(* Sets of orders are finite.                                                 *)
LEMMA OrderSets ==
  ASSUME NEW S \in SUBSET Orders
  PROVE  /\ IsFiniteSet(S) /\ Cardinality(S) \in Nat
         /\ Cardinality(S) <= Cardinality(Orders) /\ Cardinality(Orders) \in Nat
  BY QueriesAssumption, FS_Subset, FS_CardinalityType

(* A page holds at least one order; the list is of orders that can be seen.   *)
LEMMA ListFacts ==
  ASSUME QueriesTypeOK, NEW w \in Walkers
  PROVE  /\ AnsweredLimit(w) \in Nat \ {0}
         /\ offset[w] \in Nat
         /\ Matching(w) \subseteq orderRows
         /\ Matching(w) \subseteq Orders
         /\ \A o \in Orders : created[o] \in Nat
<1>1. asked[w].limit \in Int
  BY QueriesAssumption DEF QueriesTypeOK
<1>2. AnsweredLimit(w) \in Nat \ {0}
  BY <1>1, QueriesAssumption DEF AnsweredLimit
<1>3. \A o \in Orders : created[o] \in Nat
  <2>1. clock \in Nat
    BY QueriesAssumption DEF QueriesTypeOK
  <2> QED
    BY <2>1 DEF QueriesTypeOK
<1> QED
  BY <1>2, <1>3 DEF QueriesTypeOK, Matching

(* A page is taken from the list, behind what offset skips.                   *)
LEMMA PageShape ==
  ASSUME QueriesTypeOK, NEW w \in Walkers, NEW P \in Pages(w)
  PROVE  \E T \in SUBSET Matching(w) :
           /\ T \in FirstOf(Matching(w), Least(offset[w], Cardinality(Matching(w))))
           /\ P \in FirstOf(Matching(w) \ T,
                            Least(AnsweredLimit(w), Cardinality(Matching(w) \ T)))
  BY DEF Pages, FirstOf, PageLimit

(* A page never passes an order it does not show, unless it has an equal: it  *)
(* is full, and the next one still begins at that order or before it.         *)
LEMMA PagesPassNothing ==
  ASSUME QueriesTypeOK, NEW w \in Walkers, NEW P \in Pages(w),
         NEW o \in Matching(w) \ P, ~Tied(w, o), offset[w] <= Cardinality(Ahead(w, o))
  PROVE  /\ Cardinality(P) = AnsweredLimit(w)
         /\ offset[w] + AnsweredLimit(w) <= Cardinality(Ahead(w, o))
<1> DEFINE S == Matching(w)
           A == Ahead(w, o)
<1>0. /\ AnsweredLimit(w) \in Nat \ {0} /\ offset[w] \in Nat /\ S \subseteq Orders
      /\ \A p \in S : created[p] \in Nat
  BY ListFacts
<1>1. PICK T \in SUBSET S :
        /\ T \in FirstOf(S, Least(offset[w], Cardinality(S)))
        /\ P \in FirstOf(S \ T, Least(AnsweredLimit(w), Cardinality(S \ T)))
  BY PageShape
<1>2. /\ A \subseteq S \ {o}
      /\ \A p \in S \ {o} : created[p] >= created[o] => p \in A
      /\ \A p \in A : ~(created[o] >= created[p])
  BY <1>0 DEF Ahead, Tied
<1>3. P \in SUBSET (S \ T)
  BY <1>1 DEF FirstOf
<1> HIDE DEF S, A
<1>4. /\ \A X \in SUBSET S : IsFiniteSet(X) /\ Cardinality(X) \in Nat
      /\ \A X \in SUBSET S : \A Y \in SUBSET X :
            /\ Cardinality(Y) <= Cardinality(X)
            /\ Cardinality(Y) = Cardinality(X) => Y = X
  <2>1. \A X \in SUBSET S : IsFiniteSet(X) /\ Cardinality(X) \in Nat
    BY <1>0, OrderSets
  <2> QED
    BY <2>1, FS_Subset
<1>5. o \in S
  BY DEF S
<1>6. offset[w] < Cardinality(S)
  <2>1. A # S /\ A \in SUBSET S
    BY <1>2, <1>5
  <2>2. Cardinality(A) \in Nat /\ Cardinality(S) \in Nat /\ Cardinality(A) <= Cardinality(S)
        /\ Cardinality(A) # Cardinality(S)
    BY <1>4, <2>1
  <2> QED
    BY <1>0, <2>2 DEF A
<1>7. /\ Cardinality(T) = offset[w]
      /\ \A t \in T : \A p \in S \ T : created[t] >= created[p]
  <2>1. Cardinality(S) \in Nat
    BY <1>4
  <2> QED
    BY <1>0, <1>1, <1>6, <2>1 DEF FirstOf, Least
<1>8. o \notin T
  <2> SUFFICES ASSUME o \in T PROVE FALSE
    OBVIOUS
  <2>1. A \in SUBSET (T \ {o})
    BY <1>2, <1>7
  <2>2. Cardinality(T \ {o}) = Cardinality(T) - 1
    BY <1>4, FS_RemoveElement
  <2>3. Cardinality(A) <= Cardinality(T \ {o})
    BY <1>4, <2>1
  <2>4. Cardinality(A) \in Nat /\ Cardinality(T) \in Nat
    BY <1>2, <1>4
  <2> QED
    BY <1>7, <2>2, <2>3, <2>4 DEF A
<1>9. Cardinality(P) = AnsweredLimit(w)
  <2>1. o \in (S \ T) \ P
    BY <1>5, <1>8
  <2>2. P \in SUBSET S /\ S \ T \in SUBSET S /\ P # S \ T
    BY <1>3, <2>1
  <2>3. Cardinality(P) # Cardinality(S \ T)
    BY <1>3, <1>4, <2>2
  <2> QED
    BY <1>1, <2>3 DEF FirstOf, Least
<1>10. T \cup P \in SUBSET A
  <2>1. \A p \in P : created[p] >= created[o]
    BY <1>1, <1>5, <1>8 DEF FirstOf
  <2> QED
    BY <1>2, <1>3, <1>5, <1>7, <1>8, <2>1
<1>11. Cardinality(T \cup P) = Cardinality(T) + Cardinality(P)
  <2>1. T \in SUBSET S /\ P \in SUBSET S /\ T \cap P = {}
    BY <1>3
  <2>2. IsFiniteSet(T) /\ IsFiniteSet(P) /\ Cardinality(T) \in Nat /\ Cardinality(P) \in Nat
    BY <1>4, <2>1
  <2>3. Cardinality(T \cup P) = Cardinality(T) + Cardinality(P) - Cardinality(T \cap P)
    BY <2>2, FS_Union
  <2>4. Cardinality(T \cap P) = 0
    BY <2>1, FS_EmptySet
  <2> QED
    BY <2>2, <2>3, <2>4
<1>12. Cardinality(T \cup P) <= Cardinality(A)
  BY <1>2, <1>4, <1>10
<1> QED
  BY <1>7, <1>9, <1>11, <1>12 DEF A

-----------------------------------------------------------------------------
(* The queries start as the invariant says.                                   *)
LEMMA QueriesStart == QueriesInit => QueriesInv
<1> SUFFICES ASSUME QueriesInit PROVE QueriesInv
  OBVIOUS
<1>1. QueriesTypeOK
  <2>1. /\ clock \in 1..MaxClock
        /\ created \in [Orders -> 0..clock]
    BY QueriesAssumption DEF QueriesInit
  <2>2. total \in [Walkers -> 0..Cardinality(Orders)]
    BY OrderSets DEF QueriesInit
  <2> QED
    BY <2>1, <2>2 DEF QueriesInit, QueriesTypeOK
<1>2. RowsInStep /\ NothingPassed /\ WalksMissNothingOld /\ TotalsAreRecent
  BY DEF QueriesInit, RowsInStep, NothingPassed, WalksMissNothingOld, TotalsAreRecent
<1>3. TargetsSeen /\ FoundOrdersHaveItems
  BY DEF QueriesInit, TargetsSeen, FoundOrdersHaveItems
<1> QED
  BY <1>1, <1>2, <1>3 DEF QueriesInv

(* Orders that appear disturb nothing: what could be seen stays as it is, and *)
(* the list only grows.                                                       *)
LEMMA AppearingKeeps ==
  ASSUME QueriesInv, QueriesTypeOK', UNCHANGED <<walkVars, getVars>>,
         orderRows \subseteq orderRows', itemRows' = orderRows',
         \A o \in orderRows : created'[o] = created[o]
  PROVE  QueriesInv'
<1> USE DEF walkVars, getVars
<1>0. /\ QueriesTypeOK /\ RowsInStep /\ NothingPassed /\ WalksMissNothingOld
      /\ TotalsAreRecent /\ TargetsSeen /\ FoundOrdersHaveItems
  BY DEF QueriesInv
<1>1. ASSUME NEW w \in Walkers
      PROVE  /\ Matching(w) \subseteq Matching(w)'
             /\ Matching(w)' \subseteq Orders
             /\ Matching(w) \subseteq orderRows
             /\ old[w] \cap Matching(w)' = old[w] \cap Matching(w)
             /\ known[w] \cap Matching(w)' = known[w] \cap Matching(w)
  <2>1. old[w] \cup known[w] \subseteq orderRows
    BY <1>0 DEF RowsInStep
  <2> QED
    BY <2>1 DEF Matching, UserID, QueriesTypeOK
<1>2. ASSUME NEW w \in Walkers, NEW o \in Matching(w)
      PROVE  /\ Tied(w, o) => Tied(w, o)'
             /\ Ahead(w, o) \subseteq Ahead(w, o)'
             /\ Cardinality(Ahead(w, o)) <= Cardinality(Ahead(w, o)')
             /\ Cardinality(Ahead(w, o)) \in Nat /\ Cardinality(Ahead(w, o)') \in Nat
  <2>1. \A p \in Matching(w) : created'[p] = created[p]
    BY <1>1
  <2>2. Tied(w, o) => Tied(w, o)'
    BY <1>1, <2>1 DEF Tied
  <2>3. Ahead(w, o) \subseteq Ahead(w, o)' /\ Ahead(w, o)' \subseteq Orders
    BY <1>1, <2>1 DEF Ahead
  <2> QED
    BY <2>2, <2>3, OrderSets, FS_Subset
<1>3. RowsInStep'
  BY <1>0 DEF RowsInStep
<1>4. NothingPassed'
  <2> SUFFICES ASSUME NEW w \in Walkers, wpc[w] \in {"count", "page", "turn"},
                      NEW o \in (old[w] \cap Matching(w)) \ seen[w],
                      ~wcut[w], ~Tied(w, o)'
               PROVE  offset[w] <= Cardinality(Ahead(w, o)')
    BY <1>0, <1>1 DEF NothingPassed
  <2>1. offset[w] <= Cardinality(Ahead(w, o)) /\ offset[w] \in Nat
    BY <1>0, <1>2, ListFacts DEF NothingPassed
  <2> QED
    BY <1>2, <2>1
<1>5. WalksMissNothingOld'
  <2> SUFFICES ASSUME NEW w \in Walkers, wpc[w] = "end",
                      NEW o \in (old[w] \cap Matching(w)) \ seen[w]
               PROVE  wcut[w] \/ Tied(w, o)'
    BY <1>1 DEF WalksMissNothingOld
  <2> QED
    BY <1>0, <1>2 DEF WalksMissNothingOld
<1>6. TotalsAreRecent'
  <2> SUFFICES ASSUME NEW w \in Walkers, wpc[w] = "page"
               PROVE  /\ Cardinality(known[w] \cap Matching(w)') <= total[w]
                      /\ total[w] <= Cardinality(Matching(w)')
    BY DEF TotalsAreRecent
  <2>1. Cardinality(known[w] \cap Matching(w)') <= total[w]
    BY <1>0, <1>1 DEF TotalsAreRecent
  <2>2. Cardinality(Matching(w)) <= Cardinality(Matching(w)')
    BY <1>1, OrderSets, FS_Subset
  <2>3. total[w] <= Cardinality(Matching(w)) /\ total[w] \in Nat
    <3>1. Cardinality(Orders) \in Nat /\ total[w] \in 0..Cardinality(Orders)
      BY <1>0, OrderSets DEF QueriesTypeOK
    <3>2. total[w] <= Cardinality(Matching(w))
      BY <1>0 DEF TotalsAreRecent
    <3> QED
      BY <3>1, <3>2
  <2>4. Cardinality(Matching(w)) \in Nat /\ Cardinality(Matching(w)') \in Nat
    BY <1>1, OrderSets
  <2> QED
    BY <2>1, <2>2, <2>3, <2>4
<1>7. TargetsSeen' /\ FoundOrdersHaveItems'
  BY <1>0 DEF TargetsSeen, FoundOrdersHaveItems
<1> QED
  BY <1>3, <1>4, <1>5, <1>6, <1>7 DEF QueriesInv

(* The clock ticks, an order begins, an order is committed.                   *)
LEMMA OrderSteps ==
  ASSUME QueriesInv, Tick \/ \E o \in Orders : BeginOrder(o) \/ CommitOrder(o)
  PROVE  QueriesInv'
<1>0. /\ QueriesTypeOK /\ itemRows = orderRows
      /\ MaxClock \in Nat /\ clock \in Nat /\ clock >= 1 /\ clock <= MaxClock
  BY QueriesAssumption DEF QueriesInv, RowsInStep, QueriesTypeOK
<1>1. CASE Tick
  <2>1. /\ clock' = clock + 1 /\ clock' \in 1..MaxClock
        /\ UNCHANGED <<created, orderRows, itemRows, walkVars, getVars>>
    BY <1>0, <1>1 DEF Tick
  <2>2. created' \in [Orders -> 0..clock']
    <3>1. \A o \in Orders : created[o] \in 0..clock'
      BY <1>0, <2>1 DEF QueriesTypeOK
    <3> QED
      BY <1>0, <2>1, <3>1 DEF QueriesTypeOK
  <2>3. QueriesTypeOK'
    BY <1>0, <2>1, <2>2 DEF QueriesTypeOK, walkVars, getVars
  <2> QED
    BY <1>0, <2>1, <2>3, AppearingKeeps
<1>2. ASSUME NEW o \in Orders, BeginOrder(o) PROVE QueriesInv'
  <2>1. /\ created[o] = 0 /\ created' = [created EXCEPT ![o] = clock]
        /\ UNCHANGED <<clock, orderRows, itemRows, walkVars, getVars>>
    BY <1>2 DEF BeginOrder
  <2>2. created' \in [Orders -> 0..clock']
    <3>1. clock \in 0..clock
      BY <1>0
    <3> QED
      BY <1>0, <2>1, <3>1 DEF QueriesTypeOK
  <2>3. \A p \in Orders : created'[p] = IF p = o THEN clock ELSE created[p]
    BY <1>0, <2>1 DEF QueriesTypeOK
  <2>4. orderRows \subseteq {p \in Orders : created'[p] # 0}
    BY <1>0, <2>1, <2>3 DEF QueriesTypeOK
  <2>5. QueriesTypeOK'
    BY <1>0, <2>1, <2>2, <2>4 DEF QueriesTypeOK, walkVars, getVars
  <2>6. \A p \in orderRows : created'[p] = created[p]
    BY <1>0, <2>1, <2>3 DEF QueriesTypeOK
  <2> QED
    BY <1>0, <2>1, <2>5, <2>6, AppearingKeeps
<1>3. ASSUME NEW o \in Orders, CommitOrder(o) PROVE QueriesInv'
  <2>1. /\ created[o] # 0 /\ orderRows' = orderRows \cup {o} /\ itemRows' = itemRows \cup {o}
        /\ UNCHANGED <<clock, created, walkVars, getVars>>
    BY <1>3 DEF CommitOrder
  <2>2. QueriesTypeOK'
    BY <1>0, <2>1 DEF QueriesTypeOK, walkVars, getVars
  <2> QED
    BY <1>0, <2>1, <2>2, AppearingKeeps
<1> QED
  BY <1>1, <1>2, <1>3

(* What a walk reads of the table stays as it is when only walks or Gets go   *)
(* on.                                                                        *)
LEMMA SameList ==
  ASSUME UNCHANGED <<created, orderRows, asked>>, NEW w, NEW o
  PROVE  /\ Matching(w)' = Matching(w)
         /\ Ahead(w, o)' = Ahead(w, o)
         /\ Tied(w, o)' <=> Tied(w, o)
         /\ AnsweredLimit(w)' = AnsweredLimit(w)
  BY DEF Matching, UserID, Ahead, Tied, AnsweredLimit

(* The next request of a walk arrives.                                        *)
LEMMA ListedStep ==
  ASSUME QueriesInv, NEW w \in Walkers, Listed(w)
  PROVE  QueriesInv'
<1> USE DEF orderVars, getVars
<1>0. /\ QueriesTypeOK /\ RowsInStep /\ NothingPassed /\ WalksMissNothingOld
      /\ TotalsAreRecent /\ TargetsSeen /\ FoundOrdersHaveItems
  BY DEF QueriesInv
<1>1. /\ wpc[w] \in {"new", "turn"}
      /\ wpc' = [wpc EXCEPT ![w] = "count"]
      /\ known' = [known EXCEPT ![w] = orderRows]
      /\ old' = [old EXCEPT ![w] = IF wpc[w] = "new" THEN orderRows ELSE old[w]]
      /\ UNCHANGED <<orderVars, asked, offset, total, seen, wcut, getVars>>
  BY DEF Listed
<1>2. \A v \in Walkers : /\ wpc'[v] = IF v = w THEN "count" ELSE wpc[v]
                         /\ known'[v] = IF v = w THEN orderRows ELSE known[v]
                         /\ old'[v] = IF v = w /\ wpc[w] = "new" THEN orderRows ELSE old[v]
  BY <1>0, <1>1 DEF QueriesTypeOK
<1>3. QueriesTypeOK'
  <2>1. orderRows \in SUBSET Orders
    BY <1>0 DEF QueriesTypeOK
  <2>2. known' \in [Walkers -> SUBSET Orders] /\ old' \in [Walkers -> SUBSET Orders]
    BY <1>0, <1>1, <2>1 DEF QueriesTypeOK
  <2>3. wpc' \in [Walkers -> {"new", "count", "page", "turn", "end", "failed"}]
    BY <1>0, <1>1 DEF QueriesTypeOK
  <2> QED
    BY <1>0, <1>1, <2>2, <2>3 DEF QueriesTypeOK
<1>4. RowsInStep'
  BY <1>0, <1>1, <1>2 DEF RowsInStep
<1>5. NothingPassed'
  <2> SUFFICES ASSUME NEW v \in Walkers
               PROVE  /\ wpc'[v] = "new" => offset[v] = 0
                      /\ wpc'[v] \in {"count", "page", "turn"} =>
                           \A o \in (old'[v] \cap Matching(v)) \ seen[v] :
                             wcut[v] \/ Tied(v, o) \/ offset[v] <= Cardinality(Ahead(v, o))
    BY <1>1, SameList DEF NothingPassed
  <2>1. CASE v = w /\ wpc[w] = "new"
    <3>1. offset[w] = 0
      BY <1>0, <2>1 DEF NothingPassed
    <3>2. \A o : Ahead(w, o) \in SUBSET Orders
      BY <1>0, ListFacts DEF Ahead
    <3>3. \A o : 0 <= Cardinality(Ahead(w, o))
      BY <3>2, OrderSets
    <3> QED
      BY <1>2, <2>1, <3>1, <3>3
  <2>2. CASE ~(v = w /\ wpc[w] = "new")
    BY <1>0, <1>1, <1>2, <2>2 DEF NothingPassed
  <2> QED
    BY <2>1, <2>2
<1>6. WalksMissNothingOld' /\ TotalsAreRecent'
  <2>1. WalksMissNothingOld'
    BY <1>0, <1>1, <1>2, SameList DEF WalksMissNothingOld
  <2>2. \A v \in Walkers : wpc'[v] = "page" => wpc[v] = "page" /\ known'[v] = known[v]
    BY <1>2
  <2>3. TotalsAreRecent'
    BY <1>0, <1>1, <2>2, SameList DEF TotalsAreRecent
  <2> QED
    BY <2>1, <2>3
<1>7. TargetsSeen' /\ FoundOrdersHaveItems'
  BY <1>0, <1>1 DEF TargetsSeen, FoundOrdersHaveItems
<1> QED
  BY <1>3, <1>4, <1>5, <1>6, <1>7 DEF QueriesInv

(* The matching orders are counted: those known when the request arrived are  *)
(* among them.                                                                *)
LEMMA CountStep ==
  ASSUME QueriesInv, NEW w \in Walkers, CountOrders(w)
  PROVE  QueriesInv'
<1> USE DEF orderVars, getVars
<1>0. /\ QueriesTypeOK /\ RowsInStep /\ NothingPassed /\ WalksMissNothingOld
      /\ TotalsAreRecent /\ TargetsSeen /\ FoundOrdersHaveItems
  BY DEF QueriesInv
<1>1. /\ wpc[w] = "count"
      /\ total' = [total EXCEPT ![w] = Cardinality(Matching(w))]
      /\ wpc' = [wpc EXCEPT ![w] = "page"]
      /\ UNCHANGED <<orderVars, asked, offset, old, known, seen, wcut, getVars>>
  BY DEF CountOrders
<1>2. \A v \in Walkers : /\ wpc'[v] = IF v = w THEN "page" ELSE wpc[v]
                         /\ total'[v] = IF v = w THEN Cardinality(Matching(w)) ELSE total[v]
  BY <1>0, <1>1 DEF QueriesTypeOK
<1>3. /\ Cardinality(Matching(w)) \in Nat
      /\ Cardinality(Matching(w)) \in 0..Cardinality(Orders)
      /\ Cardinality(known[w] \cap Matching(w)) <= Cardinality(Matching(w))
  <2>1. Matching(w) \in SUBSET Orders
    BY <1>0, ListFacts
  <2>2. /\ Cardinality(Matching(w)) \in Nat /\ Cardinality(Orders) \in Nat
        /\ Cardinality(Matching(w)) <= Cardinality(Orders) /\ IsFiniteSet(Matching(w))
    BY <2>1, OrderSets
  <2>3. Cardinality(known[w] \cap Matching(w)) <= Cardinality(Matching(w))
    BY <2>2, FS_Subset
  <2> QED
    BY <2>2, <2>3
<1>4. QueriesTypeOK'
  <2>1. total' \in [Walkers -> 0..Cardinality(Orders)]
    BY <1>0, <1>1, <1>3 DEF QueriesTypeOK
  <2>2. wpc' \in [Walkers -> {"new", "count", "page", "turn", "end", "failed"}]
    BY <1>0, <1>1 DEF QueriesTypeOK
  <2> QED
    BY <1>0, <1>1, <2>1, <2>2 DEF QueriesTypeOK
<1>5. RowsInStep'
  BY <1>0, <1>1 DEF RowsInStep
<1>6. NothingPassed' /\ WalksMissNothingOld'
  BY <1>0, <1>1, <1>2, SameList DEF NothingPassed, WalksMissNothingOld
<1>7. TotalsAreRecent'
  <2> SUFFICES ASSUME NEW v \in Walkers, wpc'[v] = "page"
               PROVE  /\ Cardinality(known[v] \cap Matching(v)) <= total'[v]
                      /\ total'[v] <= Cardinality(Matching(v))
    BY <1>1, SameList DEF TotalsAreRecent
  <2>1. CASE v = w
    BY <1>2, <1>3, <2>1
  <2>2. CASE v # w
    BY <1>0, <1>2, <2>2 DEF TotalsAreRecent
  <2> QED
    BY <2>1, <2>2
<1>8. TargetsSeen' /\ FoundOrdersHaveItems'
  BY <1>0, <1>1 DEF TargetsSeen, FoundOrdersHaveItems
<1> QED
  BY <1>4, <1>5, <1>6, <1>7, <1>8 DEF QueriesInv

(* A page is answered, whole or cut.  Of a whole one PagesPassNothing tells   *)
(* what it leaves; one that broke off is marked.                              *)
LEMMA PageStep ==
  ASSUME QueriesInv, NEW w \in Walkers, ReadPage(w) \/ CutPage(w)
  PROVE  QueriesInv'
<1> USE DEF orderVars, getVars
<1>0. /\ QueriesTypeOK /\ RowsInStep /\ NothingPassed /\ WalksMissNothingOld
      /\ TotalsAreRecent /\ TargetsSeen /\ FoundOrdersHaveItems
  BY DEF QueriesInv
<1>1. /\ wpc[w] = "page" /\ AnsweredLimit(w) \in Nat \ {0} /\ offset[w] \in Nat
      /\ Matching(w) \subseteq Orders
  BY <1>0, ListFacts DEF ReadPage, CutPage
<1>2. PICK Q \in SUBSET Orders :
         /\ Shown(w, Q)
         /\ wcut' \in [Walkers -> BOOLEAN]
         /\ \A v \in Walkers : v # w => wcut'[v] = wcut[v]
         /\ wcut'[w] \/ (Q \in Pages(w) /\ ~wcut[w])
  <2>1. ASSUME NEW P \in Pages(w) PROVE P \in SUBSET Orders
    BY <1>0, <1>1, PageShape DEF FirstOf
  <2>2. CASE ReadPage(w)
    BY <1>0, <2>1, <2>2 DEF ReadPage, QueriesTypeOK
  <2>3. CASE CutPage(w)
    <3>1. PICK P \in Pages(w) : \E k \in 0..Cardinality(P) - 1 : \E Q \in FirstOf(P, k) : Shown(w, Q)
      BY <2>3 DEF CutPage
    <3>2. PICK Q \in SUBSET P : Shown(w, Q)
      BY <3>1 DEF FirstOf
    <3>3. wcut' = [wcut EXCEPT ![w] = TRUE]
      BY <2>3 DEF CutPage
    <3> QED
      BY <1>0, <2>1, <3>2, <3>3 DEF QueriesTypeOK
  <2> QED
    BY <2>2, <2>3
<1>3. PICK l \in {"end", "turn"}, n \in Nat :
         /\ wpc' = [wpc EXCEPT ![w] = l]
         /\ offset' = [offset EXCEPT ![w] = n]
         /\ seen' = [seen EXCEPT ![w] = seen[w] \cup Q]
         /\ IF Cardinality(Q) < AnsweredLimit(w)
            THEN l = "end" /\ n = offset[w]
            ELSE l = "turn" /\ n = offset[w] + AnsweredLimit(w)
         /\ UNCHANGED <<orderVars, asked, old, known, total, getVars>>
  <2>1. offset = [offset EXCEPT ![w] = offset[w]]
    BY <1>0 DEF QueriesTypeOK
  <2>2. offset[w] + AnsweredLimit(w) \in Nat
    BY <1>1
  <2> QED
    BY <1>1, <1>2, <2>1, <2>2 DEF Shown
<1>4. \A v \in Walkers : /\ wpc'[v] = IF v = w THEN l ELSE wpc[v]
                         /\ offset'[v] = IF v = w THEN n ELSE offset[v]
                         /\ seen'[v] = IF v = w THEN seen[w] \cup Q ELSE seen[v]
  BY <1>0, <1>3 DEF QueriesTypeOK
<1>5. QueriesTypeOK'
  <2>1. /\ wpc' \in [Walkers -> {"new", "count", "page", "turn", "end", "failed"}]
        /\ offset' \in [Walkers -> Nat]
    BY <1>0, <1>3 DEF QueriesTypeOK
  <2>2. seen' \in [Walkers -> SUBSET Orders]
    <3>1. seen[w] \cup Q \in SUBSET Orders
      BY <1>0 DEF QueriesTypeOK
    <3> QED
      BY <1>0, <1>3, <3>1 DEF QueriesTypeOK
  <2> QED
    BY <1>0, <1>2, <1>3, <2>1, <2>2 DEF QueriesTypeOK
<1>6. RowsInStep'
  BY <1>0, <1>3 DEF RowsInStep
<1>7. ASSUME NEW o \in (old[w] \cap Matching(w)) \ (seen[w] \cup Q), ~wcut'[w], ~Tied(w, o)
      PROVE  l = "turn" /\ n <= Cardinality(Ahead(w, o))
  <2>1. Q \in Pages(w) /\ offset[w] <= Cardinality(Ahead(w, o))
    BY <1>0, <1>1, <1>2, <1>7 DEF NothingPassed
  <2>2. /\ Cardinality(Q) = AnsweredLimit(w)
        /\ offset[w] + AnsweredLimit(w) <= Cardinality(Ahead(w, o))
    BY <1>0, <1>7, <2>1, PagesPassNothing
  <2> QED
    BY <1>1, <1>3, <2>2
<1>8. NothingPassed'
  <2> SUFFICES ASSUME NEW v \in Walkers
               PROVE  /\ wpc'[v] = "new" => offset'[v] = 0
                      /\ wpc'[v] \in {"count", "page", "turn"} =>
                           \A o \in (old[v] \cap Matching(v)) \ seen'[v] :
                             wcut'[v] \/ Tied(v, o) \/ offset'[v] <= Cardinality(Ahead(v, o))
    BY <1>3, SameList DEF NothingPassed
  <2>1. CASE v = w
    BY <1>4, <1>7, <2>1
  <2>2. CASE v # w
    BY <1>0, <1>2, <1>4, <2>2 DEF NothingPassed
  <2> QED
    BY <2>1, <2>2
<1>9. WalksMissNothingOld'
  <2> SUFFICES ASSUME NEW v \in Walkers, wpc'[v] = "end",
                      NEW o \in (old[v] \cap Matching(v)) \ seen'[v]
               PROVE  wcut'[v] \/ Tied(v, o)
    BY <1>3, SameList DEF WalksMissNothingOld
  <2>1. CASE v = w
    BY <1>4, <1>7, <2>1
  <2>2. CASE v # w
    BY <1>0, <1>2, <1>4, <2>2 DEF WalksMissNothingOld
  <2> QED
    BY <2>1, <2>2
<1>10. TotalsAreRecent'
  BY <1>0, <1>3, <1>4, SameList DEF TotalsAreRecent
<1>11. TargetsSeen' /\ FoundOrdersHaveItems'
  BY <1>0, <1>3 DEF TargetsSeen, FoundOrdersHaveItems
<1> QED
  BY <1>5, <1>6, <1>8, <1>9, <1>10, <1>11 DEF QueriesInv

(* A query of List fails.                                                     *)
LEMMA ListFailsStep ==
  ASSUME QueriesInv, NEW w \in Walkers, ListFails(w)
  PROVE  QueriesInv'
<1> USE DEF orderVars, getVars
<1>0. /\ QueriesTypeOK /\ RowsInStep /\ NothingPassed /\ WalksMissNothingOld
      /\ TotalsAreRecent /\ TargetsSeen /\ FoundOrdersHaveItems
  BY DEF QueriesInv
<1>1. /\ wpc' = [wpc EXCEPT ![w] = "failed"]
      /\ UNCHANGED <<orderVars, asked, offset, old, known, total, seen, wcut, getVars>>
  BY DEF ListFails
<1>2. \A v \in Walkers : wpc'[v] = IF v = w THEN "failed" ELSE wpc[v]
  BY <1>0, <1>1 DEF QueriesTypeOK
<1>3. QueriesTypeOK'
  BY <1>0, <1>1 DEF QueriesTypeOK
<1>4. NothingPassed' /\ WalksMissNothingOld' /\ TotalsAreRecent'
  <2>1. \A v \in Walkers : wpc'[v] # "failed" => wpc'[v] = wpc[v]
    BY <1>2
  <2>2. NothingPassed'
    BY <1>0, <1>1, <2>1, SameList DEF NothingPassed
  <2>3. WalksMissNothingOld'
    BY <1>0, <1>1, <2>1, SameList DEF WalksMissNothingOld
  <2>4. TotalsAreRecent'
    BY <1>0, <1>1, <2>1, SameList DEF TotalsAreRecent
  <2> QED
    BY <2>2, <2>3, <2>4
<1>5. RowsInStep' /\ TargetsSeen' /\ FoundOrdersHaveItems'
  BY <1>0, <1>1 DEF RowsInStep, TargetsSeen, FoundOrdersHaveItems
<1> QED
  BY <1>3, <1>4, <1>5 DEF QueriesInv

(* A Get goes on: what it could see, it can still see.                        *)
LEMMA GetStep ==
  ASSUME QueriesInv, NEW g \in Getters, Get(g)
  PROVE  QueriesInv'
<1> USE DEF orderVars, walkVars
<1>0. /\ QueriesTypeOK /\ RowsInStep /\ NothingPassed /\ WalksMissNothingOld
      /\ TotalsAreRecent /\ TargetsSeen /\ FoundOrdersHaveItems
  BY DEF QueriesInv
<1>1. UNCHANGED <<orderVars, walkVars, target>>
  BY DEF Get, Asked, ReadOrder, ReadItems, CutItems, GetFails
<1>2. QueriesTypeOK'
  <2>1. gpc' \in [Getters -> {"new", "order", "items", "found", "missing", "failed"}]
    BY <1>0 DEF QueriesTypeOK, Get, Asked, ReadOrder, ReadItems, CutItems, GetFails
  <2>2. body' \in [Getters -> {"none", "cut", "all"}]
    BY <1>0 DEF QueriesTypeOK, Get, Asked, ReadOrder, ReadItems, CutItems, GetFails
  <2>3. early' = early \/ \E b \in BOOLEAN : early' = [early EXCEPT ![g] = b]
    <3>1. early' = early \/ early' = [early EXCEPT ![g] = target[g] \in orderRows]
      BY DEF Get, Asked, ReadOrder, ReadItems, CutItems, GetFails
    <3>2. (target[g] \in orderRows) \in BOOLEAN
      OBVIOUS
    <3> QED
      BY <3>1, <3>2, Zenon
  <2>4. early' \in [Getters -> BOOLEAN]
    <3>1. early \in [Getters -> BOOLEAN]
      BY <1>0 DEF QueriesTypeOK
    <3> QED
      BY <2>3, <3>1
  <2> QED
    BY <1>0, <1>1, <2>1, <2>2, <2>4 DEF QueriesTypeOK
<1>3. NothingPassed' /\ WalksMissNothingOld' /\ TotalsAreRecent'
  BY <1>0, <1>1, SameList DEF NothingPassed, WalksMissNothingOld, TotalsAreRecent
<1>4. RowsInStep'
  BY <1>0, <1>1 DEF RowsInStep
<1>5. TargetsSeen'
  BY <1>0, <1>1 DEF TargetsSeen, QueriesTypeOK, Get, Asked, ReadOrder, ReadItems, CutItems, GetFails
<1>6. FoundOrdersHaveItems'
  <2> SUFFICES ASSUME NEW h \in Getters
               PROVE  /\ early'[h] => gpc'[h] # "missing"
                      /\ gpc'[h] = "found" => body'[h] # "none"
    BY DEF FoundOrdersHaveItems
  <2>1. CASE h # g
    BY <1>0, <2>1 DEF FoundOrdersHaveItems, QueriesTypeOK, Get, Asked, ReadOrder, ReadItems,
                      CutItems, GetFails
  <2>2. CASE h = g
    BY <1>0, <2>2 DEF FoundOrdersHaveItems, TargetsSeen, RowsInStep, QueriesTypeOK,
                      Get, Asked, ReadOrder, ReadItems, CutItems, GetFails
  <2> QED
    BY <2>1, <2>2
<1> QED
  BY <1>2, <1>3, <1>4, <1>5, <1>6 DEF QueriesInv

-----------------------------------------------------------------------------
(* QueriesInv holds however orders appear, walks turn pages and Gets are      *)
(* answered, in any order.                                                    *)
THEOREM QueriesInvariance == QueriesSpec => []QueriesInv
<1>1. QueriesInv /\ [QueriesNext]_queryVars => QueriesInv'
  <2> SUFFICES ASSUME QueriesInv, [QueriesNext]_queryVars PROVE QueriesInv'
    OBVIOUS
  <2>1. CASE Tick \/ \E o \in Orders : BeginOrder(o) \/ CommitOrder(o)
    BY <2>1, OrderSteps
  <2>2. ASSUME NEW w \in Walkers, Walk(w) PROVE QueriesInv'
    BY <2>2, ListedStep, CountStep, PageStep, ListFailsStep DEF Walk
  <2>3. ASSUME NEW g \in Getters, Get(g) PROVE QueriesInv'
    BY <2>3, GetStep
  <2>4. CASE UNCHANGED queryVars
    <3>1. QueriesTypeOK' /\ itemRows' = orderRows'
      BY <2>4 DEF queryVars, orderVars, walkVars, getVars, QueriesInv, QueriesTypeOK, RowsInStep
    <3> QED
      BY <2>4, <3>1, AppearingKeeps DEF queryVars, orderVars
  <2> QED
    BY <2>1, <2>2, <2>3, <2>4 DEF QueriesNext
<1> QED
  BY QueriesStart, <1>1, PTL DEF QueriesSpec

(* A walk that ends has shown every order that was there when it began, but   *)
(* for pages that broke off and for equals in created_at.                     *)
THEOREM WalksAreComplete == QueriesSpec => []WalksMissNothingOld
<1>1. QueriesInv => WalksMissNothingOld
  BY DEF QueriesInv
<1> QED
  BY <1>1, QueriesInvariance, PTL

(* The total lies between what was known and what can be seen.                *)
THEOREM TotalsBracket == QueriesSpec => []TotalsAreRecent
<1>1. QueriesInv => TotalsAreRecent
  BY DEF QueriesInv
<1> QED
  BY <1>1, QueriesInvariance, PTL

(* An order that could be seen is found, and one that is found has its items. *)
THEOREM GetsAreWhole == QueriesSpec => []FoundOrdersHaveItems
<1>1. QueriesInv => FoundOrdersHaveItems
  BY DEF QueriesInv
<1> QED
  BY <1>1, QueriesInvariance, PTL
=============================================================================
