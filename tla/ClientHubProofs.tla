--------------------------- MODULE ClientHubProofs ---------------------------
(* The report of the hub and its refusals, for any number of clients, orders  *)
(* and products: HubInv is inductive.                                         *)
EXTENDS ClientHub, CartDemandProofs

(* The service's operators on carts are those of CartDemand.                  *)
LEMMA ServiceDemand ==
  ASSUME NEW c, NEW p
  PROVE  Service!TotalDemand(c, p) = TotalDemand(c, p)
  BY Zenon DEF Service!TotalDemand, TotalDemand, Service!Demand, Demand, Service!LineDemand,
     LineDemand, Service!EffectiveQty, EffectiveQty, Service!ResolveProductID, ResolveProductID

(* And it accepts what they say is fulfillable: no body of the hub is garbled.*)
LEMMA ServiceAccepts ==
  ASSUME NEW r
  PROVE  Service!Acceptable(r) <=> Fulfillable(cart[r], stock)
  BY ServiceDemand DEF Service!Acceptable, Service!Fulfillable, Fulfillable, Service!KnownLine,
     KnownLine, Service!ResolveProductID, ResolveProductID

(* What MakeCart makes: a few lines, each of another product that was on sale,*)
(* of no more units than there were.                                          *)
LEMMA MadeCarts ==
  ASSUME NEW c \in MakeCart
  PROVE  /\ c \in Carts
         /\ Len(c) \in Nat \ {0}
         /\ \A i \in 1..Len(c) : /\ c[i].nested_id \in OnSale
                                 /\ ResolveProductID(c[i]) = c[i].nested_id
                                 /\ EffectiveQty(c[i]) \in Nat \ {0}
                                 /\ EffectiveQty(c[i]) <= InitStock[c[i].nested_id]
         /\ \A i, k \in 1..Len(c) : i # k => c[i].nested_id # c[k].nested_id
<1>1. c \in Carts /\ Len(c) \in Nat /\ DOMAIN c = 1..Len(c)
  BY HubAssumption, CartsAssumption
<1> DEFINE most == IF Cardinality(OnSale) < MaxItems THEN Cardinality(OnSale) ELSE MaxItems
<1>2. PICK n \in 1..most :
        /\ c \in [1..n -> HubLines]
        /\ \A i \in 1..n : c[i].quantity <= MaxQty(c[i].nested_id)
        /\ \A i, k \in 1..n : i # k => c[i].nested_id # c[k].nested_id
  BY DEF MakeCart
<1>3. most \in Nat
  <2>1. IsFiniteSet(OnSale)
    BY CatalogueAssumption, FS_Subset DEF OnSale
  <2> QED
    BY <2>1, FS_CardinalityType, HubAssumption
<1>4. n \in Nat \ {0} /\ n = Len(c)
  <2>1. n \in Nat \ {0}
    <3> HIDE DEF most
    <3> QED
      BY <1>3
  <2>2. 1..n = 1..Len(c)
    BY <1>1, <1>2
  <2>3. n \in 1..Len(c)
    BY <2>1, <2>2
  <2>4. Len(c) \in 1..Len(c)
    BY <1>1, <2>3
  <2>5. Len(c) \in 1..n
    BY <2>2, <2>4
  <2>6. Len(c) \in Nat /\ n <= Len(c) /\ Len(c) <= n
    BY <1>1, <2>3, <2>5
  <2> HIDE DEF most
  <2>7. n = Len(c)
    BY <2>1, <2>6
  <2> QED
    BY <2>1, <2>7
<1>5. ASSUME NEW i \in 1..n
      PROVE  /\ c[i].nested_id \in OnSale
             /\ ResolveProductID(c[i]) = c[i].nested_id
             /\ EffectiveQty(c[i]) \in Nat \ {0}
             /\ EffectiveQty(c[i]) <= InitStock[c[i].nested_id]
  <2>1. PICK p \in OnSale, q \in 1..3 : c[i] = [product_id |-> 0, nested_id |-> p, quantity |-> q]
    BY <1>2 DEF HubLines
  <2>2. q <= MaxQty(p) /\ InitStock[p] \in Nat
    BY <1>2, <2>1, CatalogueAssumption DEF OnSale
  <2> QED
    BY <2>1, <2>2 DEF ResolveProductID, EffectiveQty, MaxQty
<1> QED
  BY <1>1, <1>2, <1>4, <1>5

(* Such a cart asks for no more of a product than there was: a product is     *)
(* named by one line at most.                                                 *)
LEMMA MadeDemand ==
  ASSUME NEW c \in MakeCart, NEW p \in Products
  PROVE  TotalDemand(c, p) <= InitStock[p]
<1> DEFINE Asked(n) == IF \E i \in 1..n : c[i].nested_id = p THEN InitStock[p] ELSE 0
           Bounded == {n \in Nat : n <= Len(c) => Demand(c, p)[n] <= Asked(n)}
<1>0. c \in Carts /\ Len(c) \in Nat /\ InitStock[p] \in Nat
  BY MadeCarts, CatalogueAssumption
<1>1. 0 \in Bounded
  BY <1>0, DemandSteps
<1>2. ASSUME NEW n \in Bounded PROVE n + 1 \in Bounded
  <2> SUFFICES ASSUME n + 1 <= Len(c) PROVE Demand(c, p)[n + 1] <= Asked(n + 1)
    OBVIOUS
  <2>1. /\ n \in Nat /\ n + 1 \in 1..Len(c) /\ (n + 1) - 1 = n /\ n \in 0..Len(c)
        /\ Demand(c, p)[n] <= Asked(n)
    BY <1>0
  <2>2. Demand(c, p)[n + 1] = Demand(c, p)[n] + LineDemand(c[n + 1], p)
    BY <1>0, <2>1, DemandSteps
  <2>3. Demand(c, p)[n] \in Nat
    BY <1>0, <2>1, DemandType
  <2>4. CASE c[n + 1].nested_id = p
    <3>1. LineDemand(c[n + 1], p) \in Nat /\ LineDemand(c[n + 1], p) <= InitStock[p]
      BY <1>0, <2>1, <2>4, MadeCarts DEF LineDemand
    <3>2. \A i \in 1..n : i \in 1..Len(c) /\ i # n + 1
      BY <1>0, <2>1
    <3>3. Asked(n) = 0
      BY <2>1, <2>4, <3>2, MadeCarts
    <3>4. Asked(n + 1) = InitStock[p]
      BY <2>1, <2>4
    <3> HIDE DEF Asked
    <3> QED
      BY <1>0, <2>1, <2>2, <2>3, <3>1, <3>3, <3>4
  <2>5. CASE c[n + 1].nested_id # p
    <3>1. LineDemand(c[n + 1], p) = 0
      BY <2>1, <2>5, MadeCarts DEF LineDemand
    <3>2. \A i \in 1..(n + 1) : i \in 1..n \/ i = n + 1
      BY <2>1
    <3>3. \A i \in 1..n : i \in 1..(n + 1)
      BY <2>1
    <3>4. Asked(n + 1) = Asked(n)
      BY <2>5, <3>2, <3>3
    <3> HIDE DEF Asked
    <3> QED
      BY <2>1, <2>2, <2>3, <3>1, <3>4
  <2> QED
    BY <2>4, <2>5
<1>3. Bounded = Nat
  <2>1. Bounded \in SUBSET Nat
    OBVIOUS
  <2> HIDE DEF Bounded
  <2> QED
    BY <1>1, <1>2, <2>1, InductionOnSets
<1>4. Demand(c, p)[Len(c)] <= Asked(Len(c))
  <2>1. Len(c) \in Bounded
    <3> HIDE DEF Bounded
    <3> QED
      BY <1>0, <1>3
  <2> QED
    BY <1>0, <2>1
<1>5. Demand(c, p)[Len(c)] \in Nat
  BY <1>0, DemandType
<1> QED
  BY <1>0, <1>4, <1>5 DEF TotalDemand

(* If a stock cannot meet such a cart, it is below what the hub saw, and that *)
(* of a product the cart names.                                               *)
LEMMA RefusedIsStale ==
  ASSUME NEW c \in MakeCart, NEW a \in [Products -> Nat], ~Fulfillable(c, a)
  PROVE  \E i \in 1..Len(c) : a[c[i].nested_id] < InitStock[c[i].nested_id]
<1>1. c \in Carts /\ Len(c) \in Nat \ {0}
  BY MadeCarts
<1>2. \A i \in 1..Len(c) : c[i].nested_id \in Products /\ ResolveProductID(c[i]) = c[i].nested_id
  BY MadeCarts DEF OnSale
<1>3. \A i \in 1..Len(c) : KnownLine(c[i]) /\ ResolveProductID(c[i]) # 0
  BY <1>2, CatalogueAssumption DEF KnownLine
<1>4. PICK p \in Products : ~(TotalDemand(c, p) <= a[p])
  BY <1>1, <1>3 DEF Fulfillable
<1>5. TotalDemand(c, p) \in Nat /\ TotalDemand(c, p) <= InitStock[p] /\ a[p] \in Nat /\ InitStock[p] \in Nat
  BY <1>1, TotalType, MadeDemand, CatalogueAssumption
<1>6. PICK i \in 1..Len(c) : ResolveProductID(c[i]) = p
  BY <1>1, <1>4, <1>5, DemandedIsNamed
<1> QED
  BY <1>2, <1>4, <1>5, <1>6

-----------------------------------------------------------------------------
(* Orders and clients are finitely many, and so are their subsets.            *)
LEMMA FiniteFacts ==
  /\ \A S \in SUBSET Requests : IsFiniteSet(S) /\ Cardinality(S) \in Nat
  /\ \A S \in SUBSET Clients : IsFiniteSet(S) /\ Cardinality(S) \in Nat
<1>1. IsFiniteSet(1..OrdersCount) /\ IsFiniteSet(Clients)
  BY HubAssumption, FS_Interval
<1>2. IsFiniteSet(Requests)
  BY <1>1, FS_Product DEF Requests
<1>3. \A S \in SUBSET Requests : IsFiniteSet(S)
  BY <1>2, FS_Subset
<1>4. \A S \in SUBSET Clients : IsFiniteSet(S)
  BY <1>1, FS_Subset
<1> QED
  BY <1>3, <1>4, FS_CardinalityType

(* The current order of a client, and the one it sends next.                  *)
LEMMA OrderFacts ==
  ASSUME TypeOK, NEW c \in Clients
  PROVE  /\ sent[c] \in Nat /\ sent[c] <= OrdersCount /\ OrdersCount \in Nat
         /\ \A k \in 1..OrdersCount : <<c, k>> \in Requests
         /\ sent[c] > 0 => Current(c) \in Sent
         /\ Current(c)[1] = c /\ Current(c)[2] = sent[c]
<1>1. sent[c] \in 0..OrdersCount /\ OrdersCount \in Nat
  BY HubAssumption DEF TypeOK
<1>2. \A k \in 1..OrdersCount : <<c, k>> \in Requests
  BY DEF Requests
<1>3. sent[c] > 0 => sent[c] \in 1..OrdersCount
  BY <1>1
<1>4. sent[c] > 0 => <<c, sent[c]>> \in Requests
  BY <1>2, <1>3
<1> QED
  BY <1>1, <1>2, <1>4 DEF Current, Sent

(* An order is a client and a number.                                         *)
LEMMA OrdersArePairs ==
  ASSUME NEW r \in Requests
  PROVE  r[1] \in Clients /\ r[2] \in 1..OrdersCount /\ r = <<r[1], r[2]>>
  BY DEF Requests

(* The hub starts as the invariant says.                                      *)
LEMMA HubStart == Init => HubInv
<1> SUFFICES ASSUME Init PROVE HubInv
  OBVIOUS
<1>1. Sent = {} /\ Posting = {} /\ placed = {}
  <2>1. \A r \in Requests : ~(r[2] <= sent[r[1]])
    BY OrdersArePairs, HubAssumption DEF Init
  <2> QED
    BY <2>1 DEF Init, Sent, Posting
<1>2. TypeOK
  <2>1. 0 \in 0..OrdersCount /\ InitStock \in [Products -> Nat]
    BY CatalogueAssumption, HubAssumption
  <2> QED
    BY <1>1, <2>1 DEF Init, TypeOK
<1>3. SentOnly
  BY <1>1 DEF Init, SentOnly
<1>4. CountsAddUp
  BY <1>1, FS_EmptySet DEF Init, CountsAddUp
<1>5. StockShrinks /\ RefusedOnlyWhenStale
  BY CatalogueAssumption DEF Init, StockShrinks, RefusedOnlyWhenStale
<1> QED
  BY <1>2, <1>3, <1>4, <1>5 DEF HubInv

(* A client sends an order.                                                   *)
LEMMA PostOrderStep ==
  ASSUME HubInv, NEW c \in Clients, PostOrder(c)
  PROVE  HubInv'
<1> USE DEF ledgerVars
<1> DEFINE new == <<c, sent[c] + 1>>
<1>0. TypeOK /\ SentOnly /\ CountsAddUp /\ StockShrinks /\ RefusedOnlyWhenStale
  BY DEF HubInv
<1>1. sent[c] + 1 \in 1..OrdersCount /\ new \in Requests /\ new \notin Sent
  <2>1. sent[c] + 1 \in 1..OrdersCount
    BY <1>0, OrderFacts DEF PostOrder
  <2> QED
    BY <1>0, <2>1, OrderFacts DEF Sent
<1>2. PICK d \in MakeCart : cart' = [cart EXCEPT ![new] = d]
  BY DEF PostOrder
<1>3. /\ \A r \in Requests : cart'[r] = IF r = new THEN d ELSE cart[r]
      /\ cart' \in [Requests -> MakeCart \cup {<< >>}]
  BY <1>0, <1>1, <1>2 DEF TypeOK
<1>4. /\ sent' \in [Clients -> 0..OrdersCount]
      /\ \A k \in Clients : sent'[k] = IF k = c THEN sent[c] + 1 ELSE sent[k]
  <2>1. sent[c] + 1 \in 0..OrdersCount
    BY <1>1
  <2> QED
    BY <1>0, <2>1 DEF PostOrder, TypeOK
<1>5. /\ pc' \in [Clients -> {"next", "post", "done"}]
      /\ \A k \in Clients : pc'[k] = IF k = c THEN "post" ELSE pc[k]
      /\ pc[c] = "next"
  BY <1>0 DEF PostOrder, Goto, TypeOK
<1>6. UNCHANGED <<stock, placed, answer, ctxDone, successCount, failureCount>>
  BY DEF PostOrder
<1>7. TypeOK'
  BY <1>0, <1>3, <1>4, <1>5, <1>6 DEF TypeOK
<1>8. Sent' = Sent \cup {new}
  <2>1. ASSUME NEW r \in Requests
        PROVE  r[2] <= sent'[r[1]] <=> r[2] <= sent[r[1]] \/ r = new
    <3>1. r[1] \in Clients /\ r[2] \in Nat /\ r = <<r[1], r[2]>> /\ sent[c] \in Nat
      BY <1>0, OrdersArePairs, OrderFacts
    <3>2. CASE r[1] # c
      BY <1>4, <3>1, <3>2
    <3>3. CASE r[1] = c
      <4>1. r = new <=> r[2] = sent[c] + 1
        BY <3>1, <3>3
      <4> QED
        BY <1>4, <3>1, <3>3, <4>1
    <3> QED
      BY <3>2, <3>3
  <2> QED
    BY <1>1, <2>1 DEF Sent
<1>9. SentOnly'
  <2>1. ASSUME NEW k \in Posting' PROVE sent'[k] > 0
    <3>1. CASE k = c
      BY <1>1, <1>4, <3>1
    <3>2. CASE k # c
      <4>1. k \in Posting /\ sent'[k] = sent[k]
        BY <1>4, <1>5, <3>2 DEF Posting
      <4> QED
        BY <1>0, <4>1 DEF SentOnly
    <3> QED
      BY <3>1, <3>2
  <2> QED
    BY <1>0, <1>3, <1>6, <1>8, <2>1 DEF SentOnly, Sent
<1>10. Returned' = Returned
  <2>1. ASSUME NEW r \in Requests
        PROVE  r \in Returned' <=> r \in Returned
    <3>1. r[1] \in Clients /\ r[2] \in Nat /\ r = <<r[1], r[2]>> /\ sent[c] \in Nat
      BY <1>0, OrdersArePairs, OrderFacts
    <3>2. CASE r[1] # c
      BY <1>4, <1>5, <1>8, <3>1, <3>2 DEF Returned, Current
    <3>3. CASE r[1] = c
      <4>1. r \in Sent <=> r[2] <= sent[c]
        BY <3>3 DEF Sent
      <4>2. r \in Returned <=> r \in Sent
        BY <1>5, <3>3 DEF Returned
      <4>3. r = Current(c)' <=> r = new
        BY <1>4 DEF Current
      <4>4. r \in Returned' <=> r \in Sent /\ r # new
        BY <1>5, <1>8, <3>3, <4>3, <1>1 DEF Returned
      <4> QED
        BY <1>1, <4>2, <4>4
    <3> QED
      BY <3>2, <3>3
  <2> QED
    BY <2>1 DEF Returned, Sent
<1>11. CountsAddUp'
  <2>1. Posting' = Posting \cup {c} /\ c \notin Posting /\ Posting \subseteq Clients
    BY <1>5 DEF Posting
  <2>2. Cardinality(Posting') = Cardinality(Posting) + 1
    BY <2>1, FiniteFacts, FS_AddElement
  <2>3. Cardinality(Sent') = Cardinality(Sent) + 1
    BY <1>1, <1>8, FiniteFacts, FS_AddElement DEF Sent
  <2>4. /\ Cardinality(Posting) \in Nat /\ Cardinality(Sent) \in Nat
        /\ successCount \in Nat /\ failureCount \in Nat
    BY <1>0, <2>1, FiniteFacts DEF Sent, TypeOK
  <2> QED
    BY <1>0, <1>6, <1>10, <2>2, <2>3, <2>4 DEF CountsAddUp
<1>12. RefusedOnlyWhenStale'
  <2>1. \A r \in Requests : answer[r] = 400 => cart'[r] = cart[r]
    BY <1>0, <1>1, <1>3 DEF SentOnly
  <2> QED
    BY <1>0, <1>6, <2>1 DEF RefusedOnlyWhenStale
<1> QED
  BY <1>0, <1>6, <1>7, <1>9, <1>11, <1>12 DEF HubInv, StockShrinks

(* What every way for a client to stop waiting has in common: its order is    *)
(* one more that was returned, and it is one client less that posts.          *)
LEMMA ReturnFacts ==
  ASSUME HubInv, NEW c \in Clients, pc[c] = "post", Goto(c, "next"),
         UNCHANGED <<ledgerVars, sent, ctxDone>>
  PROVE  /\ SentOnly' /\ StockShrinks' /\ RefusedOnlyWhenStale'
         /\ (successCount \in Nat /\ failureCount \in Nat)' => TypeOK'
         /\ Current(c) \in Sent \ Returned
         /\ Returned' = Returned \cup {Current(c)}
         /\ Sent' = Sent
         /\ Cardinality(Posting) = Cardinality(Posting') + 1
         /\ Cardinality(Posting') \in Nat
<1> USE DEF ledgerVars
<1>0. TypeOK /\ SentOnly /\ StockShrinks /\ RefusedOnlyWhenStale
  BY DEF HubInv
<1>1. /\ pc' \in [Clients -> {"next", "post", "done"}]
      /\ \A k \in Clients : pc'[k] = IF k = c THEN "next" ELSE pc[k]
  BY <1>0 DEF Goto, TypeOK
<1>2. Sent' = Sent
  BY DEF Sent
<1>3. Posting' = Posting \ {c} /\ c \in Posting /\ Posting \subseteq Clients
  BY <1>1 DEF Posting
<1>4. SentOnly'
  <2>1. \A k \in Posting' : sent'[k] > 0
    BY <1>0, <1>3 DEF SentOnly
  <2> QED
    BY <1>0, <1>2, <2>1 DEF SentOnly
<1>5. StockShrinks' /\ RefusedOnlyWhenStale'
  BY <1>0 DEF StockShrinks, RefusedOnlyWhenStale
<1>6. (successCount \in Nat /\ failureCount \in Nat)' => TypeOK'
  BY <1>0, <1>1 DEF TypeOK
<1>7. Current(c) \in Sent /\ Current(c)[1] = c
  BY <1>0, <1>3, OrderFacts DEF SentOnly
<1>8. Current(c) \notin Returned
  BY <1>7 DEF Returned
<1>9. Returned' = Returned \cup {Current(c)}
  <2>1. ASSUME NEW r \in Requests
        PROVE  r \in Returned' <=> r \in Returned \/ r = Current(c)
    <3>1. r[1] \in Clients
      BY OrdersArePairs
    <3>2. \A k : Current(k)' = Current(k)
      BY DEF Current
    <3>3. CASE r[1] # c
      <4>1. r # Current(c) /\ pc'[r[1]] = pc[r[1]]
        BY <1>1, <1>7, <3>1, <3>3
      <4> QED
        BY <1>2, <3>2, <4>1 DEF Returned
    <3>4. CASE r[1] = c
      <4>1. pc'[r[1]] # "post" /\ pc[r[1]] = "post"
        BY <1>1, <3>4
      <4> QED
        BY <1>2, <1>7, <3>2, <3>4, <4>1 DEF Returned
    <3> QED
      BY <3>3, <3>4
  <2> QED
    BY <1>7, <2>1 DEF Returned, Sent
<1>10. Cardinality(Posting) = Cardinality(Posting') + 1 /\ Cardinality(Posting') \in Nat
  <2>1. Posting' \subseteq Clients /\ Posting = Posting' \cup {c} /\ c \notin Posting'
    BY <1>3
  <2>2. IsFiniteSet(Posting') /\ Cardinality(Posting') \in Nat
    BY <2>1, FiniteFacts
  <2>3. Cardinality(Posting' \cup {c}) = Cardinality(Posting') + 1
    BY <2>1, <2>2, FS_AddElement
  <2> QED
    BY <2>1, <2>2, <2>3
<1> QED
  BY <1>2, <1>4, <1>5, <1>6, <1>7, <1>8, <1>9, <1>10

(* A client is told 201: a success more, and an order of its own.             *)
LEMMA DispatchedStep ==
  ASSUME HubInv, NEW c \in Clients, OrderDispatched(c)
  PROVE  HubInv'
<1> USE DEF ledgerVars
<1>0. TypeOK /\ SentOnly /\ CountsAddUp
  BY DEF HubInv
<1>1. /\ pc[c] = "post" /\ Goto(c, "next") /\ UNCHANGED <<ledgerVars, sent, ctxDone>>
      /\ answer[Current(c)] = 201 /\ successCount' = successCount + 1
      /\ UNCHANGED <<placed, failureCount>>
  BY DEF OrderDispatched
<1>2. successCount \in Nat /\ failureCount \in Nat
  BY <1>0 DEF TypeOK
<1>3. Current(c) \in placed /\ Current(c) \in Requests
  <2>1. Current(c) \in Requests
    BY <1>1, ReturnFacts DEF Sent
  <2> QED
    BY <1>0, <1>1, <2>1 DEF SentOnly
<1>4. placed' \cap Returned' = (placed \cap Returned) \cup {Current(c)}
  BY <1>1, <1>3, ReturnFacts
<1>5. /\ IsFiniteSet(placed \cap Returned) /\ Cardinality(placed \cap Returned) \in Nat
      /\ Current(c) \notin placed \cap Returned
  <2>1. placed \cap Returned \subseteq Requests
    BY DEF Returned, Sent
  <2> QED
    BY <1>1, <2>1, ReturnFacts, FiniteFacts
<1>6. Cardinality(placed' \cap Returned') = Cardinality(placed \cap Returned) + 1
  BY <1>4, <1>5, FS_AddElement
<1>7. CountsAddUp'
  <2>1. /\ Cardinality(Posting) = Cardinality(Posting') + 1
        /\ Cardinality(Posting') \in Nat /\ Sent' = Sent
    BY <1>1, ReturnFacts
  <2>2. successCount + failureCount + Cardinality(Posting) = Cardinality(Sent)
    BY <1>0 DEF CountsAddUp
  <2>3. successCount <= Cardinality(placed \cap Returned)
    BY <1>0 DEF CountsAddUp
  <2>4. successCount' + failureCount' + Cardinality(Posting') = Cardinality(Sent')
    BY <1>1, <1>2, <2>1, <2>2
  <2>5. successCount' <= Cardinality(placed' \cap Returned')
    BY <1>1, <1>2, <1>5, <1>6, <2>3
  <2> QED
    BY <2>4, <2>5 DEF CountsAddUp
<1> QED
  BY <1>1, <1>2, <1>7, ReturnFacts DEF HubInv

(* A client is told 400 or 500, or nothing in time: a failure more.           *)
LEMMA FailedStep ==
  ASSUME HubInv, NEW c \in Clients, OrderFailed(c) \/ PostFails(c)
  PROVE  HubInv'
<1> USE DEF ledgerVars
<1>0. TypeOK /\ SentOnly /\ CountsAddUp
  BY DEF HubInv
<1>1. /\ pc[c] = "post" /\ Goto(c, "next") /\ UNCHANGED <<ledgerVars, sent, ctxDone>>
      /\ failureCount' = failureCount + 1
      /\ UNCHANGED <<placed, successCount>>
  BY DEF OrderFailed, PostFails
<1>2. successCount \in Nat /\ failureCount \in Nat
  BY <1>0 DEF TypeOK
<1>3. Cardinality(placed \cap Returned) <= Cardinality(placed' \cap Returned')
  <2>1. /\ placed \cap Returned \subseteq placed' \cap Returned'
        /\ placed' \cap Returned' \subseteq Requests
    BY <1>0, <1>1, ReturnFacts DEF TypeOK
  <2> QED
    BY <2>1, FiniteFacts, FS_Subset
<1>4. /\ Cardinality(placed \cap Returned) \in Nat
      /\ Cardinality(placed' \cap Returned') \in Nat
  <2>1. placed \cap Returned \subseteq Requests /\ placed' \cap Returned' \subseteq Requests
    BY <1>0, <1>1 DEF TypeOK
  <2> QED
    BY <2>1, FiniteFacts
<1>5. CountsAddUp'
  <2>1. /\ Cardinality(Posting) = Cardinality(Posting') + 1
        /\ Cardinality(Posting') \in Nat /\ Sent' = Sent
    BY <1>1, ReturnFacts
  <2>2. successCount + failureCount + Cardinality(Posting) = Cardinality(Sent)
    BY <1>0 DEF CountsAddUp
  <2>3. successCount <= Cardinality(placed \cap Returned)
    BY <1>0 DEF CountsAddUp
  <2>4. successCount' + failureCount' + Cardinality(Posting') = Cardinality(Sent')
    BY <1>1, <1>2, <2>1, <2>2
  <2>5. successCount' <= Cardinality(placed' \cap Returned')
    BY <1>1, <1>2, <1>3, <1>4, <2>3
  <2> QED
    BY <2>4, <2>5 DEF CountsAddUp
<1> QED
  BY <1>1, <1>2, <1>5, ReturnFacts DEF HubInv

(* A client that is done, or a hub that is told to end, counts nothing.       *)
LEMMA EndStep ==
  ASSUME HubInv, (\E c \in Clients : ClientReturns(c)) \/ ContextDone
  PROVE  HubInv'
<1> USE DEF ledgerVars
<1>0. TypeOK /\ SentOnly /\ CountsAddUp /\ StockShrinks /\ RefusedOnlyWhenStale
  BY DEF HubInv
<1>1. /\ UNCHANGED <<cart, stock, placed, answer, sent, successCount, failureCount>>
      /\ ctxDone' \in BOOLEAN
      /\ pc' \in [Clients -> {"next", "post", "done"}]
  <2>1. ASSUME NEW c \in Clients, ClientReturns(c)
        PROVE  /\ UNCHANGED <<cart, stock, placed, answer, sent, successCount, failureCount>>
               /\ ctxDone' \in BOOLEAN
               /\ pc' \in [Clients -> {"next", "post", "done"}]
    BY <1>0, <2>1 DEF ClientReturns, Goto, TypeOK
  <2>2. CASE ContextDone
    BY <1>0, <2>2 DEF ContextDone, TypeOK
  <2> QED
    BY <2>1, <2>2
<1>2. \A k \in Clients : pc'[k] = "post" <=> pc[k] = "post"
  BY <1>0 DEF ClientReturns, ContextDone, Goto, TypeOK
<1>3. Sent' = Sent /\ Posting' = Posting
  BY <1>1, <1>2 DEF Sent, Posting
<1>4. Returned' = Returned
  <2>1. \A r \in Sent : r[1] \in Clients
    BY OrdersArePairs DEF Sent
  <2> QED
    BY <1>1, <1>2, <1>3, <2>1 DEF Returned, Current
<1>5. TypeOK'
  BY <1>0, <1>1 DEF TypeOK
<1>6. SentOnly' /\ CountsAddUp'
  BY <1>0, <1>1, <1>3, <1>4 DEF SentOnly, CountsAddUp
<1> QED
  BY <1>0, <1>1, <1>5, <1>6 DEF HubInv, StockShrinks, RefusedOnlyWhenStale

(* The service places an order that was sent, once, and takes its units.      *)
LEMMA PlaceStep ==
  ASSUME HubInv, NEW r \in Requests, Serve(r), Service!Place(r)
  PROVE  HubInv'
<1>0. TypeOK /\ SentOnly /\ CountsAddUp /\ StockShrinks /\ RefusedOnlyWhenStale
  BY DEF HubInv
<1>1. /\ r \in Sent /\ placed' = placed \cup {r}
      /\ stock' = [p \in Products |-> stock[p] - TotalDemand(cart[r], p)]
      /\ Fulfillable(cart[r], stock)
      /\ UNCHANGED <<cart, answer, sent, pc, ctxDone, successCount, failureCount>>
  BY ServiceDemand, ServiceAccepts DEF Serve, Sent, Service!Place
<1>2. cart[r] \in Carts
  BY <1>0, <1>1, HubAssumption DEF SentOnly
<1>3. ASSUME NEW p \in Products
      PROVE  stock'[p] \in Nat /\ stock'[p] <= stock[p] /\ stock[p] \in Nat
  <2>1. TotalDemand(cart[r], p) \in Nat /\ TotalDemand(cart[r], p) <= stock[p] /\ stock[p] \in Nat
    BY <1>0, <1>1, <1>2, TotalType DEF Fulfillable, TypeOK
  <2> QED
    BY <1>1, <2>1
<1>4. TypeOK'
  BY <1>0, <1>1, <1>3 DEF TypeOK
<1>5. Sent' = Sent /\ Posting' = Posting /\ Returned' = Returned
  BY <1>1 DEF Sent, Posting, Returned, Current
<1>6. SentOnly'
  BY <1>0, <1>1, <1>5 DEF SentOnly
<1>7. CountsAddUp'
  <2>1. /\ placed \cap Returned \subseteq placed' \cap Returned'
        /\ placed \cap Returned \subseteq Requests
        /\ placed' \cap Returned' \subseteq Requests
    BY <1>0, <1>1, <1>5 DEF TypeOK
  <2>2. /\ Cardinality(placed \cap Returned) <= Cardinality(placed' \cap Returned')
        /\ Cardinality(placed \cap Returned) \in Nat
        /\ Cardinality(placed' \cap Returned') \in Nat
    BY <2>1, FiniteFacts, FS_Subset
  <2>3. successCount \in Nat /\ successCount' = successCount
    BY <1>0, <1>1 DEF TypeOK
  <2>4. successCount <= Cardinality(placed \cap Returned)
    BY <1>0 DEF CountsAddUp
  <2>5. successCount' <= Cardinality(placed' \cap Returned')
    BY <2>2, <2>3, <2>4
  <2>6. (successCount + failureCount + Cardinality(Posting) = Cardinality(Sent))'
    BY <1>0, <1>1, <1>5 DEF CountsAddUp
  <2> QED
    BY <2>5, <2>6 DEF CountsAddUp
<1>8. StockShrinks'
  <2>1. ASSUME NEW p \in Products PROVE stock'[p] <= InitStock[p]
    <3>1. stock[p] <= InitStock[p] /\ InitStock[p] \in Nat
      BY <1>0, CatalogueAssumption DEF StockShrinks
    <3> QED
      BY <1>3, <3>1
  <2> QED
    BY <2>1 DEF StockShrinks
<1>9. RefusedOnlyWhenStale'
  <2> SUFFICES ASSUME NEW q \in Requests, answer[q] = 400
               PROVE  \E i \in 1..Len(cart[q]) :
                         stock'[cart[q][i].nested_id] < InitStock[cart[q][i].nested_id]
    BY <1>1 DEF RefusedOnlyWhenStale
  <2>1. PICK i \in 1..Len(cart[q]) :
           stock[cart[q][i].nested_id] < InitStock[cart[q][i].nested_id]
    BY <1>0 DEF RefusedOnlyWhenStale
  <2>2. cart[q] \in MakeCart
    BY <1>0 DEF SentOnly
  <2>3. cart[q][i].nested_id \in Products
    BY <2>2, MadeCarts DEF OnSale
  <2>4. \A p \in Products : InitStock[p] \in Nat
    BY CatalogueAssumption
  <2>5. stock'[cart[q][i].nested_id] < InitStock[cart[q][i].nested_id]
    BY <1>3, <2>1, <2>3, <2>4
  <2> QED
    BY <2>5
<1> QED
  BY <1>4, <1>6, <1>7, <1>8, <1>9 DEF HubInv

(* The service answers an order that was sent.  What it cannot meet is stale: *)
(* the cart was made from the stock the hub saw.                              *)
LEMMA AnswerStep ==
  ASSUME HubInv, NEW r \in Requests, Serve(r),
         Service!Confirm(r) \/ Service!Refuse(r) \/ Service!Fail(r)
  PROVE  HubInv'
<1>0. TypeOK /\ SentOnly /\ CountsAddUp /\ StockShrinks /\ RefusedOnlyWhenStale
  BY DEF HubInv
<1>1. /\ r \in Sent
      /\ UNCHANGED <<cart, stock, placed, sent, pc, ctxDone, successCount, failureCount>>
  BY DEF Serve, Sent, Service!Confirm, Service!Refuse, Service!Fail
<1>2. PICK a \in {201, 400, 500} :
         /\ answer' = [answer EXCEPT ![r] = a]
         /\ a = 201 => r \in placed
         /\ a = 400 => ~Fulfillable(cart[r], stock)
  BY ServiceAccepts DEF Service!Confirm, Service!Refuse, Service!Fail
<1>3. /\ answer' \in [Requests -> {0, 201, 400, 500}]
      /\ \A q \in Requests : answer'[q] = IF q = r THEN a ELSE answer[q]
  BY <1>0, <1>2 DEF TypeOK
<1>4. TypeOK'
  BY <1>0, <1>1, <1>3 DEF TypeOK
<1>5. Sent' = Sent /\ Posting' = Posting /\ Returned' = Returned
  BY <1>1 DEF Sent, Posting, Returned, Current
<1>6. SentOnly' /\ CountsAddUp' /\ StockShrinks'
  BY <1>0, <1>1, <1>2, <1>3, <1>5 DEF SentOnly, CountsAddUp, StockShrinks
<1>7. RefusedOnlyWhenStale'
  <2>1. ASSUME a = 400
        PROVE  \E i \in 1..Len(cart[r]) : stock[cart[r][i].nested_id] < InitStock[cart[r][i].nested_id]
    BY <1>0, <1>1, <1>2, <2>1, RefusedIsStale DEF SentOnly, TypeOK
  <2> QED
    BY <1>0, <1>1, <1>3, <2>1 DEF RefusedOnlyWhenStale
<1> QED
  BY <1>4, <1>6, <1>7 DEF HubInv

-----------------------------------------------------------------------------
(* HubInv holds whatever the clients, the service and the clock do, in any    *)
(* order: hub.go and client.go count every order they send exactly once.      *)
THEOREM HubInvariance == Spec => []HubInv
<1>1. HubInv /\ [Next]_vars => HubInv'
  <2> SUFFICES ASSUME HubInv, [Next]_vars PROVE HubInv'
    OBVIOUS
  <2>1. ASSUME NEW c \in Clients, Goroutine(c) PROVE HubInv'
    BY <2>1, PostOrderStep, DispatchedStep, FailedStep, EndStep DEF Goroutine
  <2>2. ASSUME NEW r \in Requests, Serve(r) PROVE HubInv'
    BY <2>2, PlaceStep, AnswerStep DEF Serve
  <2>3. CASE ContextDone
    BY <2>3, EndStep
  <2>4. CASE UNCHANGED vars
    BY <2>4 DEF vars, ledgerVars, HubInv, TypeOK, SentOnly, CountsAddUp, StockShrinks,
                RefusedOnlyWhenStale, Sent, Returned, Posting, Current
  <2> QED
    BY <2>1, <2>2, <2>3, <2>4 DEF Next
<1> QED
  BY HubStart, <1>1, PTL DEF Spec

(* What "clienthub execution finished" reports bounds the orders there are,   *)
(* whatever was answered late or not at all.                                  *)
THEOREM ReportIsBound == Spec => []ReportBoundsOrders
<1>1. HubInv => ReportBoundsOrders
  <2> SUFFICES ASSUME HubInv PROVE ReportBoundsOrders
    OBVIOUS
  <2>1. /\ placed \subseteq Sent /\ Sent \subseteq Requests /\ placed \subseteq Requests
        /\ placed \cap Returned \subseteq placed /\ Posting \subseteq Clients
    BY DEF HubInv, SentOnly, Sent, Posting
  <2>2. Cardinality(placed) <= Cardinality(Sent)
    BY <2>1, FiniteFacts, FS_Subset
  <2>3. Cardinality(placed \cap Returned) <= Cardinality(placed)
    BY <2>1, FiniteFacts, FS_Subset
  <2>4. /\ Cardinality(placed) \in Nat /\ Cardinality(Sent) \in Nat
        /\ Cardinality(placed \cap Returned) \in Nat
    BY <2>1, FiniteFacts
  <2>5. /\ successCount \in Nat
        /\ successCount + failureCount + Cardinality(Posting) = Cardinality(Sent)
        /\ successCount <= Cardinality(placed \cap Returned)
    BY DEF HubInv, TypeOK, CountsAddUp
  <2> QED
    BY <2>2, <2>3, <2>4, <2>5 DEF ReportBoundsOrders
<1> QED
  BY <1>1, HubInvariance, PTL

(* A cart made from the stock the hub read is refused only because that stock *)
(* has meanwhile shrunk.                                                      *)
THEOREM RefusalsAreStale == Spec => []RefusedOnlyWhenStale
<1>1. HubInv => RefusedOnlyWhenStale
  BY DEF HubInv
<1> QED
  BY <1>1, HubInvariance, PTL
=============================================================================
