--------------------------- MODULE MCPictureTable ---------------------------
(* Instances of PictureTable for TLC: the products and the users table.       *)
EXTENDS PictureTable, TLC

CONSTANTS i1, i2, m1, m2, ann, bob, uuidA, uuidB

(* Products are known by their external_id, which names their objects too.    *)
TwoProducts == {1, 2}
ByExternalId == [e \in Items |-> e]

(* The whole catalogue, and the part that a section filter leaves of it.      *)
ProductFeeds == { << 1, 2 >>, << 2 >> }

(* Users are known by their email, their objects are named after a uuid.      *)
TwoUsers == {ann, bob}
ByUuid == [e \in Items |-> IF e = ann THEN uuidA ELSE uuidB]
UserFeeds == { << ann, bob >>, << bob >> }

Runs == Permutations({m1, m2})
ImportRuns == Permutations({i1, i2})
=============================================================================
