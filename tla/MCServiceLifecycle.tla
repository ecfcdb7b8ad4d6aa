-------------------------- MODULE MCServiceLifecycle --------------------------
(* An instance of ServiceLifecycle for TLC.                                   *)
EXTENDS ServiceLifecycle, TLC

CONSTANTS r1, r2, podA, podB

One(p, q) == [product_id |-> p, nested_id |-> 0, quantity |-> q]

TwoProducts == {1, 2}
ScarceStock == (1 :> 2) @@ (2 :> 2)

(* Carts in opposite orders; the stock serves the first one, once.            *)
OpposedCarts == { << One(1, 2), One(2, 1) >>, << One(2, 1), One(1, 3) >> }

TwoPods == [r \in Requests |-> IF r = r1 THEN podA ELSE podB]
=============================================================================
