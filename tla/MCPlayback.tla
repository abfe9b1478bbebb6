----------------------------- MODULE MCPlayback -----------------------------
(* A trace of four events in three batches: two events share a batch, and  *)
(* each following batch is due after a delay.                              *)
EXTENDS Playback

CONSTANTS c1, c2, l1, l2

MCTs == <<0, 1, 3, 5>>
MCFilters == {{1, 3}, {4}}
MCAll == {{1, 2, 3, 4}}

(* Two loops and one command to disturb them, or one loop at a time.       *)
MCSetups ==
    {[room |-> 2, ops |-> Ops \ {"speed"}, max |-> 3],
     [room |-> 1, ops |-> {"play", "pause", "seek", "speed"}, max |-> 3]}
MCTwoLoops == {[room |-> 2, ops |-> {"play", "pause"}, max |-> 4]}
=============================================================================
