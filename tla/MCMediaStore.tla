---------------------------- MODULE MCMediaStore ----------------------------
(* An instance of MediaStore for TLC: its sets are model values.              *)
EXTENDS MediaStore

CONSTANTS s1, s2, m1, i1, u1, u2, t1, t2, p1, p2, f1, v1
=============================================================================
