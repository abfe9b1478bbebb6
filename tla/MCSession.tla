------------------------------ MODULE MCSession ------------------------------
(* Two writers and the patrol thread; two turns of either loop, so that    *)
(* there is a first, a last and an unfinished turn.                        *)
EXTENDS Session, TLC

CONSTANTS w1, w2, p, none

MCSymmetry == Permutations({w1, w2})
==============================================================================
