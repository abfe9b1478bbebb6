------------------------------ MODULE MCUnloading ------------------------------
(* The bounds of each component.                                           *)
(*   loading  the three tracepoints of the code, found or not, and their   *)
(*            probes                                                       *)
(*   alerts   two probes, a ring of two that is full, or that a third      *)
(*            alert wraps around, the patrol thread, and one user who may  *)
(*            read at any time                                             *)
(*   ngram    two processors that see five events, and a threshold every   *)
(*            two, so that both processors cross one together              *)
(*   model    two loads, of files of both formats, with or without a       *)
(*            header, and too short, exact or too long, each allocation    *)
(*            failing or not; one conversation                             *)
EXTENDS Unloading

CONSTANTS a, b, u, p

MCTracepoints == <<"sched", "syscall", "io">>
MCPrompts == {<<3>>}
==============================================================================
