----------------------------- MODULE MCTopoSort -----------------------------
(* Four tables, one with up to two foreign keys and three with at most one, *)
(* to any of the tables or to one that is not created.                     *)
EXTENDS TopoSortOrder, TLC

UpTo(keys) == UNION {[1..k -> 0..4] : k \in 0..keys}

MCInputs == {<<a, b, c, d>> : a \in UpTo(1), b \in UpTo(2), c \in UpTo(1), d \in UpTo(1)}
=============================================================================
