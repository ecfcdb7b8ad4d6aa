---------------------------- MODULE MCClientHub ----------------------------
(* An instance of ClientHub for TLC.                                          *)
EXTENDS ClientHub, TLC

CONSTANTS c1, c2

(* One product with two units left, one sold out.                             *)
TwoProducts == {1, 2}
LittleStock == (1 :> 2) @@ (2 :> 0)
=============================================================================
