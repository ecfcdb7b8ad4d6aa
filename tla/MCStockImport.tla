---------------------------- MODULE MCStockImport ----------------------------
(* An instance of StockImport for TLC.                                        *)
EXTENDS StockImport, TLC

CONSTANTS r1, podA, i1, i2

Entity(p, n) == [id |-> p, stock |-> n]
One(p, q) == [product_id |-> p, nested_id |-> 0, quantity |-> q]

ThreeProducts == {1, 2, 3}
LittleStock == (1 :> 2) @@ (2 :> 1) @@ (3 :> 1)

(* Carts in either order, and one that needs an import to be served.          *)
ImportCarts ==
  { << One(1, 2), One(2, 1) >>, << One(2, 1), One(1, 1) >>, << One(3, 2), One(1, 1) >> }

(* Two batches, out of order as a whole; and one batch out of order.          *)
TwoFeeds ==
  { << Entity(2, 1), Entity(3, 2), Entity(1, 0) >>, << Entity(2, 2), Entity(1, 2) >> }

OnePod == [r \in Requests |-> podA]
=============================================================================
