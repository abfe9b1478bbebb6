------------------------------- MODULE MCServer -------------------------------
(* The bounds of each model.                                               *)
(*   gateway   two small traces. The first has a fork and what the child   *)
(*             does in the same instant, out of order with an earlier      *)
(*             line, between lines that are skipped; the second cannot be  *)
(*             read to its end                                             *)
(*   playback  one loop at a time, and one command of any kind besides the *)
(*             one that starts it (MCPlayback has more)                    *)
EXTENDS Server

CONSTANTS c1, c2, l1

MCTs == <<0, 1>>
MCFilters == {{1}}
MCSetups == {[room |-> 1, ops |-> Ops, max |-> 2]}

Line(ts, type, pid, payload) ==
    [kind |-> "event",
     event |-> [ts |-> ts, type |-> type, pid |-> pid, payload |-> payload]]

Blank == [kind |-> "blank"]

Story ==
    <<Line(1, "process_fork", 1, [parent_pid |-> 1, child_pid |-> 2]),
      Line(1, "syscall_enter", 2, [nr |-> 2, name |-> "open"]),
      [kind |-> "garbage"],
      Line(0, "gpu_submit", 3, [batch_size |-> 1]),
      Line(1, "sched_switch", 2, [prev_pid |-> 1]),
      Blank,
      Line(3, "process_exit", 2, [exit_code |-> 0])>>

CutShort == <<Line(0, "power_trace", 1, [watts |-> 5, domain |-> "pkg"]),
              [kind |-> "broken"]>>

MCFiles == {Story, CutShort}
==============================================================================
