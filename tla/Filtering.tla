----------------------------- MODULE Filtering -----------------------------
(***************************************************************************)
(* Leaving out of a sequence what does not pass a test, as the `continue`  *)
(* of a for loop does (format_memory_for_prompt in hackbot_memory.rs,      *)
(* next_batch in trace_replayer.rs). The test is given by the set of what  *)
(* passes, and the recursion is a function's: the provers can reason about *)
(* this, and not about SelectSeq, whose parameter is an operator.          *)
(***************************************************************************)
EXTENDS Integers, Sequences

(* The elements of s that are in S, in their order.                        *)
Passing(s, S) ==
    LET F[i \in 0 .. Len(s)] ==
            IF i = 0 THEN << >>
            ELSE IF s[i] \in S THEN Append(F[i - 1], s[i])
            ELSE F[i - 1]
    IN  F[Len(s)]
=============================================================================
