------------------------------ MODULE TaskTable ------------------------------
(***************************************************************************)
(* The per-task counters of hackbot_trace.c: on every context switch the   *)
(* sched_switch probe looks the next task up in a fixed table and counts   *)
(* it, or takes a free slot by an atomic increment of n_tasks;             *)
(* hackbot_trace_read_sched prints the first slots. There is no lock.      *)
(*                                                                         *)
(* A probe runs with preemption off, so a processor runs one at a time.    *)
(* The scheduler gives a task to one processor at a time, save for the     *)
(* idle tasks: each processor has its own, and all of them have pid 0.     *)
(* Exit of a task and reuse of its pid are left out.                       *)
(***************************************************************************)
EXTENDS Integers, Sequences, FiniteSets

CONSTANTS
    CPU,         \* processors
    Pid,         \* pids of the tasks that exist, the idle tasks' excepted
    Zero,        \* pid 0: in a slot, "not published"; of a task, idle
    NoName,      \* contents of a comm nobody has written
    MaxTracked,  \* MAX_TRACKED_TASKS
    ShowMax,     \* tasks a report shows, 10 in the code
    MaxSwitches  \* bound on the number of context switches to any one task

ASSUME TableAssumption ==
    /\ IsFiniteSet(CPU)
    /\ Zero \notin Pid
    /\ NoName \notin Pid \cup {Zero}
    /\ MaxTracked \in Nat \ {0}
    /\ ShowMax \in Nat
    /\ MaxSwitches \in Nat

VARIABLES
    n_tasks,  \* sched_agg.n_tasks
    pid,      \* tasks[].pid
    count,    \* tasks[].count
    comm,     \* tasks[].comm, as the pid of the task it names
    pc,       \* where each processor's probe is
    next,     \* the task each processor runs or is switching to
    limit,    \* n of each probe, the clamped n_tasks
    at,       \* i of each probe; once a slot is reserved, that slot
    reader,   \* the report being printed: where it is, its n, i, slot_pid
    report,   \* the entries printed so far
    switches, \* history: switches to each task
    claimed   \* history: slots ever handed out

table == <<n_tasks, pid, count, comm>>
probe == <<pc, next, limit, at>>
reading == <<reader, report>>
vars == <<table, probe, reading, switches, claimed>>

Slots == 0 .. MaxTracked - 1
AnyPid == Pid \cup {Zero}

Clamp(n) == IF n < MaxTracked THEN n ELSE MaxTracked
Lesser(a, b) == IF a < b THEN a ELSE b

At(c, from, to) == pc[c] = from /\ pc' = [pc EXCEPT ![c] = to]

------------------------------------------------------------------------------
(* hackbot_probe_sched_switch, "Update per-task counter for 'next'" *)

Switch(c, p) ==
    /\ At(c, "idle", "scan")
    /\ p # next[c]
    /\ p = Zero \/ \A d \in CPU : next[d] # p
    /\ switches[p] < MaxSwitches
    /\ switches' = [switches EXCEPT ![p] = @ + 1]
    /\ next' = [next EXCEPT ![c] = p]
    /\ limit' = [limit EXCEPT ![c] = Clamp(n_tasks)]
    /\ at' = [at EXCEPT ![c] = 0]
    /\ UNCHANGED <<table, reading, claimed>>

Matches(c) == pid[at[c]] # Zero /\ pid[at[c]] = next[c]

CountMatch(c) ==
    /\ At(c, "scan", "idle")
    /\ at[c] < limit[c]
    /\ Matches(c)
    /\ count' = [count EXCEPT ![at[c]] = @ + 1]
    /\ UNCHANGED <<n_tasks, pid, comm, next, limit, at, reading, switches,
                   claimed>>

Skip(c) ==
    /\ At(c, "scan", "scan")
    /\ at[c] < limit[c]
    /\ ~Matches(c)
    /\ at' = [at EXCEPT ![c] = @ + 1]
    /\ UNCHANGED <<table, next, limit, reading, switches, claimed>>

TableFull(c) ==
    /\ At(c, "scan", "idle")
    /\ at[c] = limit[c]
    /\ limit[c] = MaxTracked
    /\ UNCHANGED <<table, next, limit, at, reading, switches, claimed>>

(* Mutation: n_tasks is incremented from the value the scan started with.  *)
ReserveStale(c) ==
    /\ At(c, "scan", "fill")
    /\ at[c] = limit[c]
    /\ limit[c] < MaxTracked
    /\ n_tasks' = limit[c] + 1
    /\ claimed' = limit[c] + 1
    /\ UNCHANGED <<pid, count, comm, next, limit, at, reading, switches>>

(* atomic_inc_return(&n_tasks) - 1                                         *)
Reserve(c) ==
    /\ At(c, "scan", IF n_tasks < MaxTracked THEN "fill" ELSE "lost")
    /\ at[c] = limit[c]
    /\ limit[c] < MaxTracked
    /\ n_tasks' = n_tasks + 1
    /\ at' = [at EXCEPT ![c] = n_tasks]
    /\ claimed' = IF n_tasks < MaxTracked THEN claimed + 1 ELSE claimed
    /\ UNCHANGED <<pid, count, comm, next, limit, reading, switches>>

(* Mutations: the switch that takes the slot is not counted; the name is   *)
(* not copied.                                                             *)
FillUncounted(c) ==
    /\ At(c, "fill", "publish")
    /\ comm' = [comm EXCEPT ![at[c]] = next[c]]
    /\ UNCHANGED <<n_tasks, pid, count, next, limit, at, reading, switches,
                   claimed>>

FillUnnamed(c) ==
    /\ At(c, "fill", "publish")
    /\ count' = [count EXCEPT ![at[c]] = 1]
    /\ UNCHANGED <<n_tasks, pid, comm, next, limit, at, reading, switches,
                   claimed>>

Fill(c) ==
    /\ At(c, "fill", "publish")
    /\ comm' = [comm EXCEPT ![at[c]] = next[c]]
    /\ count' = [count EXCEPT ![at[c]] = 1]
    /\ UNCHANGED <<n_tasks, pid, next, limit, at, reading, switches, claimed>>

Publish(c) ==
    /\ At(c, "publish", "idle")
    /\ pid' = [pid EXCEPT ![at[c]] = next[c]]
    /\ UNCHANGED <<n_tasks, count, comm, next, limit, at, reading, switches,
                   claimed>>

RollBack(c) ==
    /\ At(c, "lost", "idle")
    /\ n_tasks' = n_tasks - 1
    /\ UNCHANGED <<pid, count, comm, next, limit, at, reading, switches,
                   claimed>>

------------------------------------------------------------------------------
(* hackbot_trace_read_sched, "Top tasks" *)

ReadStart ==
    /\ reader.pc = "off"
    /\ reader' = [pc |-> "look", limit |-> Lesser(Clamp(n_tasks), ShowMax),
                  at |-> 0, slot_pid |-> Zero]
    /\ report' = << >>
    /\ UNCHANGED <<table, probe, switches, claimed>>

ReadLook ==
    /\ reader.pc = "look"
    /\ reader.at < reader.limit
    /\ reader' = IF pid[reader.at] = Zero
                 THEN [reader EXCEPT !.at = @ + 1]
                 ELSE [reader EXCEPT !.pc = "print", !.slot_pid = pid[reader.at]]
    /\ UNCHANGED <<table, probe, report, switches, claimed>>

ReadPrint ==
    /\ reader.pc = "print"
    /\ report' = IF count[reader.at] = 0 THEN report
                 ELSE Append(report, [pid |-> reader.slot_pid,
                                      comm |-> comm[reader.at],
                                      count |-> count[reader.at]])
    /\ reader' = [reader EXCEPT !.pc = "look", !.at = @ + 1]
    /\ UNCHANGED <<table, probe, switches, claimed>>

(* All slots shown, or no room for more text.                              *)
ReadEnd ==
    /\ reader.pc = "look"
    /\ reader.at = reader.limit \/ report # << >>
    /\ reader' = [reader EXCEPT !.pc = "off"]
    /\ UNCHANGED <<table, probe, report, switches, claimed>>

------------------------------------------------------------------------------
(* The table is zeroed memory; every processor starts in its idle task.    *)
Init ==
    /\ n_tasks = 0
    /\ pid = [s \in Slots |-> Zero]
    /\ count = [s \in Slots |-> 0]
    /\ comm = [s \in Slots |-> NoName]
    /\ pc = [c \in CPU |-> "idle"]
    /\ next = [c \in CPU |-> Zero]
    /\ limit = [c \in CPU |-> 0]
    /\ at = [c \in CPU |-> 0]
    /\ reader = [pc |-> "off", limit |-> 0, at |-> 0, slot_pid |-> Zero]
    /\ report = << >>
    /\ switches = [p \in AnyPid |-> 0]
    /\ claimed = 0

ProbeStep(c) ==
    \/ CountMatch(c) \/ Skip(c) \/ TableFull(c) \/ Reserve(c)
    \/ Fill(c) \/ Publish(c) \/ RollBack(c)

Next ==
    \/ \E c \in CPU, p \in AnyPid : Switch(c, p)
    \/ \E c \in CPU : ProbeStep(c)
    \/ ReadStart \/ ReadLook \/ ReadPrint \/ ReadEnd

Spec == Init /\ [][Next]_vars

------------------------------------------------------------------------------
Owners == {c \in CPU : pc[c] \in {"fill", "publish"}}
Lost == {c \in CPU : pc[c] = "lost"}
Probing(p) == {c \in CPU : pc[c] # "idle" /\ next[c] = p}

(* The shape of the state.                                                 *)
TypeOK ==
    /\ n_tasks \in Nat
    /\ pid \in [Slots -> AnyPid]
    /\ count \in [Slots -> Nat]
    /\ comm \in [Slots -> AnyPid \cup {NoName}]
    /\ pc \in [CPU -> {"idle", "scan", "fill", "publish", "lost"}]
    /\ next \in [CPU -> AnyPid]
    /\ limit \in [CPU -> 0 .. MaxTracked]
    /\ at \in [CPU -> Nat]
    /\ reader \in [pc : {"off", "look", "print"}, limit : 0 .. MaxTracked,
                   at : 0 .. MaxTracked, slot_pid : AnyPid]
    /\ report \in Seq([pid : AnyPid, comm : AnyPid \cup {NoName}, count : Nat])
    /\ switches \in [AnyPid -> Nat]
    /\ claimed \in 0 .. MaxTracked

(* Whatever processors race for the last slots, no two of them fill the    *)
(* same slot, none writes beyond the table or into a published slot, and a *)
(* roll-back never takes a slot that is in use out of the range later      *)
(* scans and reports look at.                                              *)
SlotsExclusive ==
    /\ \A c \in Owners : at[c] \in Slots /\ at[c] < n_tasks /\ pid[at[c]] = Zero
    /\ \A c, d \in Owners : c # d => at[c] # at[d]
    /\ \A s \in Slots : pid[s] # Zero => s < n_tasks

(* n_tasks overshoots by the probes that lost the race, and by no more:    *)
(* when they have rolled back it is the number of slots handed out.        *)
OvershootIsLosers ==
    /\ n_tasks = claimed + Cardinality(Lost)
    /\ Lost # {} => claimed = MaxTracked

(* The count of a task in the table is the number of switches to it since  *)
(* the trace began: none is lost, none counted twice, and a task that      *)
(* moves between processors never gets a second slot.                      *)
CountsExact ==
    \A s \in Slots : pid[s] # Zero =>
        /\ count[s] + Cardinality(Probing(pid[s])) = switches[pid[s]]
        /\ \A u \in Slots : pid[u] = pid[s] => u = s

(* A report prints only whole entries, and no task twice.                  *)
ReportsWhole ==
    \A i \in DOMAIN report :
        /\ report[i].comm = report[i].pid
        /\ report[i].count > 0
        /\ \A j \in DOMAIN report : report[j].pid = report[i].pid => i = j

==============================================================================
