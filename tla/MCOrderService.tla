--------------------------- MODULE MCOrderService ---------------------------
(* Instances of OrderService for TLC.                                         *)
EXTENDS OrderServiceProperties, TLC

CONSTANTS r1, r2, r3, podA, podB

(* A line with a direct product id and one whose id is nested.                *)
Direct(p, q) == [product_id |-> p, nested_id |-> 0, quantity |-> q]
Nested(p, q) == [product_id |-> 0, nested_id |-> p, quantity |-> q]
(* Both ids given and different: the direct one must win.                     *)
Both(p, n, q) == [product_id |-> p, nested_id |-> n, quantity |-> q]

TwoProducts == {1, 2}
ScarceStock == (1 :> 3) @@ (2 :> 2)

(* Carts that compete for both rows: in either order, with a repeated         *)
(* product, with a quantity to be read as one.                                *)
RivalCarts ==
  { << Direct(1, 1), Nested(2, 2) >>,
    << Direct(2, 1), Direct(1, 2) >>,
    << Both(1, 2, 1), Both(2, 1, -1), Direct(2, 1) >>,
    << Direct(1, 2), Direct(0, 1), Nested(1, 0) >> }

(* Carts the service must refuse.                                             *)
OddCarts ==
  { << >>,
    << Direct(0, 2) >>,
    << Direct(1, 1), Nested(-4, 1) >>,
    << Direct(2, 1), Direct(2, 2) >> }

AllCarts == RivalCarts \cup OddCarts

(* Carts for runs with faults.                                                *)
PlainCarts == { << Direct(1, 2), Direct(2, 1) >>, << Direct(2, 1), Direct(1, 1) >> }

OnePod == [r \in Requests |-> podA]
TwoPods == [r \in Requests |-> IF r = r1 THEN podA ELSE podB]
=============================================================================
