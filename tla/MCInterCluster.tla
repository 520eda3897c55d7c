--------------------------- MODULE MCInterCluster ---------------------------
(* For TLC, a message that comes in while the leader changes. *)
EXTENDS InterCluster

CONSTANTS i1, l1

MCKind == [c \in {i1, l1} |-> IF c = i1 THEN "incoming" ELSE "leader"]
=============================================================================
