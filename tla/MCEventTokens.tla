---------------------------- MODULE MCEventTokens ----------------------------
(* Four events on one processor, interrupted twice, and clocks that are    *)
(* together, ahead and behind by more than a gap class.                    *)
EXTENDS EventTokens

MCThresholds == <<1, 2>>
==============================================================================
