------------------------------- MODULE MCSensing -------------------------------
(* The bounds of each component.                                           *)
(*   features  one processor, one system call, a window of two events and  *)
(*             of one unit of time: enough for a window to fill and to     *)
(*             restart, for an interrupt to come during a probe of a task, *)
(*             and for a report to start over                              *)
(*   rings     two processors with a task and an interrupt level, rings of *)
(*             two and three slots, three events, reports of one entry, of *)
(*             a whole ring and of a number out of range                   *)
(*   tokens    four events on one processor, three levels of interruption, *)
(*             clocks together, ahead and behind by a gap class            *)
(*   totals    two contexts, three events: a system call within the table  *)
(*             and one beyond it; requests on both sides of the one bound  *)
(*             between buckets, and one whose latency is not known         *)
EXTENDS Sensing, TLC

CONSTANTS a, b

MCIds == {1}
MCLatencies == {0, 2}
MCCpus == {a, b}
MCRequests ==
    {<<"token", 1>>, <<"token", 4>>, <<"sched", 4>>, <<"syscall", 3>>,
     <<"io", 1>>}
MCThresholds == <<1, 2>>
MCBounds == <<3>>
MCCalls == {0, 1}
MCStarts == {0, 6, 9}
MCSymmetry == Permutations(MCCpus)
==============================================================================
