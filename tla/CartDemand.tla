----------------------------- MODULE CartDemand -----------------------------
(* Carts and what they ask of the catalogue: the CreateOrderRequest items of  *)
(* services/order-service/internal/model/order.go and the per-line rules at   *)
(* the head of the loop of OrderRepository.Create.                            *)
(*                                                                            *)
(* Titles, prices and totals are left out: no decision of the code reads      *)
(* them.  A cart is a sequence of lines, a product is its id.                 *)
EXTENDS Integers, Sequences, FiniteSets

CONSTANTS Products,   \* ids of the rows of the products table
          Carts,      \* the carts clients may send
          InitStock   \* the stock column when the service starts

Line == [product_id : Int, nested_id : Int, quantity : Int]

ASSUME CatalogueAssumption ==
  /\ Products \subseteq Nat \ {0}
  /\ IsFiniteSet(Products)
  /\ InitStock \in [Products -> Nat]

ASSUME CartsAssumption == Carts \subseteq Seq(Line)

(* CartItemInput.ResolveProductID: the direct id wins, else the nested one.   *)
(* 0 means "no product": the loop skips the line.                             *)
ResolveProductID(line) ==
  IF line.product_id > 0 THEN line.product_id ELSE line.nested_id

(* A quantity that is missing, zero or negative is read as one.               *)
EffectiveQty(line) == IF line.quantity <= 0 THEN 1 ELSE line.quantity

LineDemand(line, p) == IF ResolveProductID(line) = p THEN EffectiveQty(line) ELSE 0

(* Demand(c, p)[i] is the number of units of p in the first i lines of c.     *)
Demand(c, p) ==
  LET d[i \in 0..Len(c)] == IF i = 0 THEN 0 ELSE d[i - 1] + LineDemand(c[i], p)
  IN  d

TotalDemand(c, p) == Demand(c, p)[Len(c)]

(* A line the service can act on: it is skipped or names an existing row.     *)
KnownLine(line) == ResolveProductID(line) \in Products \cup {0}

(* What the service promises to accept: every line known, something ordered,  *)
(* and enough of each product in the given stock for the whole cart.          *)
Fulfillable(c, available) ==
  /\ \A i \in 1..Len(c) : KnownLine(c[i])
  /\ \E i \in 1..Len(c) : ResolveProductID(c[i]) # 0
  /\ \A p \in Products : TotalDemand(c, p) <= available[p]

(* The lines that name a product do so in ascending order of its id.          *)
Ascending(c) ==
  \A i, j \in 1..Len(c) :
     i < j /\ ResolveProductID(c[i]) # 0 /\ ResolveProductID(c[j]) # 0
       => ResolveProductID(c[i]) <= ResolveProductID(c[j])
=============================================================================
