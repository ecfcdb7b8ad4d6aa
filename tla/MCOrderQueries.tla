--------------------------- MODULE MCOrderQueries ---------------------------
(* An instance of OrderQueries for TLC.                                       *)
EXTENDS OrderQueries, TLC

CONSTANTS o1, o2, o3, w1, g1

(* Two users; the filter may name one of them, nobody, or be no number.       *)
TwoUsers == {1, 2}
ByUser == [o \in Orders |-> IF o = o3 THEN 2 ELSE 1]
SomeFilters == {1, 0}

(* A page size, and one that the handler replaces.                            *)
SomeLimits == {1, -1}

SameUser == Permutations({o1, o2})
=============================================================================
