----------------------------- MODULE MCTaskTable -----------------------------
(* Two or three processors and a table smaller than the number of tasks,   *)
(* so that probes race for the last slot and one of them has to roll back. *)
EXTENDS TaskTable, TLC

CONSTANTS c1, c2, c3, p1, p2, p3

MCSymmetry == Permutations({c1, c2, c3}) \cup Permutations({p1, p2, p3})
==============================================================================
