---------------------------- MODULE MCTraceRings ----------------------------
(* Two processors with a task and an interrupt level, rings of two and      *)
(* three slots, three events.                                               *)
EXTENDS TraceRings, TLC

CONSTANTS c1, c2

MCRequests == Rings \X {1, 4}

MCSymmetry == Permutations({c1, c2})
==============================================================================
