----------------------------- MODULE MCQueryTasks -----------------------------
(* Small instances of QueryTasks. *)
EXTENDS QueryTasks

CONSTANTS t1, t2, t3

FirstUrgent == [t \in Task |-> IF t = t1 THEN 1 ELSE 0]
=============================================================================
