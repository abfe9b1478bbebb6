-------------------------------- MODULE World --------------------------------
(***************************************************************************)
(* What a trace means: the events of hackbot-types, the loader of trace    *)
(* files (trace_loader.rs) and the rules by which world_model.rs turns     *)
(* events into processes, file descriptors and connections.                *)
(*                                                                         *)
(* A line of a file is a record with a field `kind`: "blank", "garbage"    *)
(* (not an event), "broken" (an I/O error while reading) or "event", which *)
(* carries the event and whether its payload fits its type. Names, cpu and *)
(* tid are left out, and last_event_ts, which nothing reads.               *)
(***************************************************************************)
EXTENDS Integers, Sequences, FiniteSets, SequencesExt, TLC

NoPid == 0

EventTypes ==
    {"syscall_enter", "syscall_exit", "sched_switch", "power_trace",
     "process_fork", "process_exit", "gpu_submit", "gpu_complete"}

(* validate_payload: the fields the schema of the type insists on.         *)
Schema(type) ==
    CASE type = "syscall_enter" -> {"nr", "name"}
      [] type = "syscall_exit" -> {"nr", "name", "ret"}
      [] type = "sched_switch" -> {"prev_pid", "next_pid", "prev_state"}
      [] type = "power_trace" -> {"watts", "domain"}
      [] type = "process_fork" -> {"parent_pid", "child_pid"}
      [] type = "process_exit" -> {"exit_code"}
      [] type \in {"gpu_submit", "gpu_complete"} -> {"batch_size"}

Valid(line) ==
    /\ line.kind = "event"
    /\ Schema(line.event.type) \subseteq DOMAIN line.event.payload

------------------------------------------------------------------------------
(* trace_loader.rs *)

(* Mutation: an event goes before those with the same time.                *)
InsertBefore(events, e) ==
    LET k == Cardinality({i \in DOMAIN events : events[i].ts < e.ts})
    IN  InsertAt(events, k + 1, e)

(* sort_by_key is stable: an event goes behind those with the same time.   *)
Insert(events, e) ==
    LET k == Cardinality({i \in DOMAIN events : events[i].ts <= e.ts})
    IN  InsertAt(events, k + 1, e)

Broken(lines) == \E i \in DOMAIN lines : lines[i].kind = "broken"

LoadTrace(lines) ==
    FoldLeft(LAMBDA events, line : Insert(events, line.event),
             << >>, SelectSeq(lines, Valid))

------------------------------------------------------------------------------
(* world_model.rs *)

EmptyWorld == [procs |-> << >>, conns |-> << >>, fds |-> {}]

NewProcess == [parent |-> NoPid, status |-> "running", syscalls |-> 0, gpu |-> 0]

Ensure(w, pid) == [w EXCEPT !.procs = @ @@ (pid :> NewProcess)]

SetStatus(w, pid, status) ==
    IF pid \in DOMAIN w.procs THEN [w EXCEPT !.procs[pid].status = status] ELSE w

SyscallEnter(w, e) ==
    [Ensure(w, e.pid) EXCEPT !.procs[e.pid].syscalls = @ + 1,
                             !.procs[e.pid].status = "running"]

SyscallExit(w, e) ==
    [Ensure(w, e.pid) EXCEPT
        !.fds = IF e.payload.name = "open" /\ e.payload.ret >= 0
                THEN @ \cup {<<e.pid, e.payload.ret>>} ELSE @]

(* Only processes already known are switched.                              *)
SchedSwitch(w, e) ==
    SetStatus(SetStatus(w, e.payload.prev_pid, "sleeping"),
              e.payload.next_pid, "running")

ProcessFork(w, e) ==
    LET child == e.payload.child_pid
    IN  [Ensure(Ensure(w, e.payload.parent_pid), child) EXCEPT
            !.procs[child].parent = e.payload.parent_pid,
            !.procs[child].status = "running",
            !.conns = Append(@, <<e.payload.parent_pid, child>>)]

ProcessExit(w, e) == SetStatus(w, e.pid, "exited")

GpuSubmit(w, e) ==
    [Ensure(w, e.pid) EXCEPT !.procs[e.pid].gpu = @ + 1,
                             !.procs[e.pid].status = "running"]

ProcessEvent(w, e) ==
    CASE e.type = "syscall_enter" -> SyscallEnter(w, e)
      [] e.type = "syscall_exit" -> SyscallExit(w, e)
      [] e.type = "sched_switch" -> SchedSwitch(w, e)
      [] e.type = "power_trace" -> w
      [] e.type = "process_fork" -> ProcessFork(w, e)
      [] e.type = "process_exit" -> ProcessExit(w, e)
      [] e.type = "gpu_submit" -> GpuSubmit(w, e)
      [] e.type = "gpu_complete" -> Ensure(w, e.pid)

ProcessEvents(w, events) == FoldLeft(ProcessEvent, w, events)

(* rebuild_to: from nothing, the events up to and including the time.      *)
RebuildTo(events, ts) ==
    ProcessEvents(EmptyWorld, SelectSeq(events, LAMBDA e : e.ts <= ts))
==============================================================================
