------------------------------ MODULE MCConsole ------------------------------
(* A two-byte ring on two processors. The texts are shorter and longer     *)
(* than the ring, so that a write starts at every cell, wraps, and is cut. *)
EXTENDS Console, TLC

CONSTANTS c1, c2, a, b

MCTexts == {<<a>>, <<b, a, b>>}
==============================================================================
