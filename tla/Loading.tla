-------------------------------- MODULE Loading --------------------------------
(***************************************************************************)
(* How the module starts and stops (hackbot_device.rs), with every step    *)
(* that may fail: what the sensory layer allocates and registers           *)
(* (hackbot_trace_init, hackbot_ngram_init), its rollback, the patrol      *)
(* thread and the device, and all of it again on unloading. The probes     *)
(* that are registered so far run from the moment they are.                *)
(*                                                                         *)
(* A probe at work is the tracepoint it is for and the learner, if it found*)
(* one. The patrol thread's own life and the readers' are module Anomaly,  *)
(* kprobes are Kprobe and the model is Inference.                          *)
(***************************************************************************)
EXTENDS Integers, Sequences

CONSTANT Tracepoints \* in the order of their registration

ASSUME LoadingAssumption ==
    Tracepoints \in Seq(STRING) /\ Len(Tracepoints) > 0

VARIABLES
    found,       \* tracepoints this kernel has
    memory,      \* allocations held: the state, a ring for each, the learner
    probes,      \* tracepoints whose probe is registered
    running,     \* probes at work
    trace_state, \* trace_state is set
    console,     \* hackbot_con is registered
    patrol,      \* the patrol thread exists
    device,      \* /dev/hackbot exists
    pc,          \* what comes next
    at           \* number of the tracepoint it is for

trace == <<memory, probes, trace_state>>
others == <<console, patrol, device>>
control == <<pc, at>>
vars == <<found, trace, running, others, control>>

Last == Len(Tracepoints)
Names == {Tracepoints[i] : i \in DOMAIN Tracepoints}

------------------------------------------------------------------------------
(* Probes *)

ProbeStarts(k) ==
    /\ k \in probes
    /\ running' = running \cup {<<k, memory \cap {"ngram"}>>}
    /\ UNCHANGED <<found, trace, others, control>>

ProbeEnds(x) ==
    /\ x \in running
    /\ running' = running \ {x}
    /\ UNCHANGED <<found, trace, others, control>>

------------------------------------------------------------------------------
(* Loading: HackbotModule::init *)

Goto(from, to) == pc = from /\ pc' = to /\ UNCHANGED <<found, running>>

InitConsole ==
    /\ Goto("console", "state")
    /\ console' = TRUE
    /\ UNCHANGED <<trace, patrol, device, at>>

(* hackbot_trace_init: a failure is reported and loading goes on.          *)
AllocState(ok) ==
    /\ Goto("state", IF ok THEN "rings" ELSE "patrol")
    /\ memory' = IF ok THEN {"state"} ELSE {}
    /\ UNCHANGED <<probes, trace_state, others, at>>

AllocRings(rings) ==
    /\ Goto("rings", IF rings = Names THEN "ngram" ELSE "free")
    /\ memory' = memory \cup rings
    /\ UNCHANGED <<probes, trace_state, others, at>>

(* hackbot_ngram_init: tracing does without it.                            *)
InitNgram(ok) ==
    /\ Goto("ngram", "register")
    /\ memory' = IF ok THEN memory \cup {"ngram"} ELSE memory
    /\ at' = 1
    /\ UNCHANGED <<probes, trace_state, others>>

Register ==
    /\ Goto("register", "register")
    /\ at <= Last
    /\ probes' = probes \cup ({Tracepoints[at]} \cap found)
    /\ at' = at + 1
    /\ UNCHANGED <<memory, trace_state, others>>

(* Mutation: the jump is to the label after the right one.                 *)
RegisterFailsTooFar ==
    /\ Goto("register", "rollback")
    /\ at <= Last
    /\ Tracepoints[at] \in found
    /\ at' = IF at > 2 THEN at - 2 ELSE 0
    /\ UNCHANGED <<trace, others>>

(* err_io, err_syscall, err_sched: the jump depends on the probe refused.  *)
RegisterFails ==
    /\ Goto("register", "rollback")
    /\ at <= Last
    /\ Tracepoints[at] \in found
    /\ at' = at - 1
    /\ UNCHANGED <<trace, others>>

Activate ==
    /\ Goto("register", "patrol")
    /\ at > Last
    /\ trace_state' = TRUE
    /\ UNCHANGED <<memory, probes, others, at>>

Unwind ==
    /\ Goto("rollback", IF at > 0 THEN "rollback" ELSE "rolled back")
    /\ probes' = IF at > 0 THEN probes \ {Tracepoints[at]} ELSE probes
    /\ at' = IF at > 0 THEN at - 1 ELSE 0
    /\ UNCHANGED <<memory, trace_state, others>>

(* Mutation: nobody waits for the probes that are at work.                 *)
SynchronizeNot(from, to) ==
    /\ Goto(from, to)
    /\ UNCHANGED <<trace, others, at>>

(* tracepoint_synchronize_unregister()                                     *)
Synchronize(from, to) ==
    /\ Goto(from, to)
    /\ running = {}
    /\ UNCHANGED <<trace, others, at>>

ExitNgram(from, to) ==
    /\ Goto(from, to)
    /\ memory' = memory \ {"ngram"}
    /\ UNCHANGED <<probes, trace_state, others, at>>

FreeAll(from, to) ==
    /\ Goto(from, to)
    /\ memory' = memory \ ({"state"} \cup Names)
    /\ trace_state' = FALSE
    /\ UNCHANGED <<probes, others, at>>

StartPatrol(ok) ==
    /\ Goto("patrol", "device")
    /\ patrol' = ok
    /\ UNCHANGED <<trace, console, device, at>>

(* Where this fails, so does loading, and nothing is undone.               *)
RegisterDevice(ok) ==
    /\ Goto("device", IF ok THEN "loaded" ELSE "refused")
    /\ device' = ok
    /\ UNCHANGED <<trace, console, patrol, at>>

------------------------------------------------------------------------------
(* Unloading: HackbotModule::drop *)

(* rmmod, once nobody has the device open.                                 *)
Unload ==
    /\ Goto("loaded", "stop patrol")
    /\ UNCHANGED <<trace, others, at>>

(* Then hackbot_trace_exit, which returns where trace_state is not set.    *)
StopPatrol ==
    /\ Goto("stop patrol", IF trace_state THEN "unregister" ELSE "exit console")
    /\ patrol' = FALSE
    /\ at' = 1
    /\ UNCHANGED <<trace, console, device>>

Unregister ==
    /\ Goto("unregister", IF at <= Last THEN "unregister" ELSE "unregistered")
    /\ probes' = IF at <= Last THEN probes \ {Tracepoints[at]} ELSE probes
    /\ at' = at + 1
    /\ UNCHANGED <<memory, trace_state, others>>

ExitConsole ==
    /\ Goto("exit console", "exit device")
    /\ console' = FALSE
    /\ UNCHANGED <<trace, patrol, device, at>>

ExitDevice ==
    /\ Goto("exit device", "unloaded")
    /\ device' = FALSE
    /\ UNCHANGED <<trace, console, patrol, at>>

(* insmod once more: the module's data is new.                             *)
Reload ==
    /\ Goto("unloaded", "console")
    /\ UNCHANGED <<trace, others, at>>

------------------------------------------------------------------------------
Init ==
    /\ found \in SUBSET Names
    /\ memory = {} /\ probes = {} /\ running = {}
    /\ trace_state = FALSE /\ console = FALSE
    /\ patrol = FALSE /\ device = FALSE
    /\ pc = "console"
    /\ at = 0

LoadStep ==
    \/ InitConsole
    \/ \E ok \in BOOLEAN :
           AllocState(ok) \/ InitNgram(ok) \/ StartPatrol(ok) \/ RegisterDevice(ok)
    \/ \E rings \in SUBSET Names : AllocRings(rings)
    \/ Register \/ RegisterFails \/ Activate
    \/ Unwind \/ Synchronize("rolled back", "forget")
    \/ ExitNgram("forget", "free") \/ FreeAll("free", "patrol")

UnloadStep ==
    \/ StopPatrol
    \/ Unregister \/ Synchronize("unregistered", "exit ngram")
    \/ ExitNgram("exit ngram", "release") \/ FreeAll("release", "exit console")
    \/ ExitConsole \/ ExitDevice

Next ==
    \/ LoadStep \/ Unload \/ UnloadStep \/ Reload
    \/ \E k \in Names : ProbeStarts(k)
    \/ \E x \in running : ProbeEnds(x)

Spec == Init /\ [][Next]_vars

------------------------------------------------------------------------------
(* The shape of the state.                                                 *)
TypeOK ==
    /\ found \subseteq Names /\ probes \subseteq found
    /\ memory \subseteq Names \cup {"state", "ngram"}
    /\ running \subseteq Names \X SUBSET {"ngram"}
    /\ {trace_state, console, patrol, device} \subseteq BOOLEAN

(* "all probes we asked for are on, or none" (hackbot_trace.c:997): after  *)
(* hackbot_trace_init, whatever failed in it, the probes of all the        *)
(* tracepoints there are registered, with the memory they use; or none is, *)
(* none is at work and nothing is allocated.                               *)
AllOrNone ==
    pc \in {"patrol", "device", "loaded", "refused"} =>
        IF trace_state
        THEN probes = found /\ Names \cup {"state"} \subseteq memory
        ELSE probes = {} /\ running = {} /\ memory = {}

(* A probe at work finds the state and the rings allocated, and the        *)
(* learner if it has looked it up, in the middle of loading, of a rollback *)
(* and of unloading.                                                       *)
MemoryInUse ==
    \A x \in running :
        /\ Names \cup {"state"} \subseteq memory
        /\ x[2] \subseteq memory

(* An unloaded module has left nothing behind, whatever failed when it was *)
(* loaded.                                                                 *)
UnloadsClean ==
    pc = "unloaded" =>
        /\ memory = {} /\ probes = {} /\ running = {}
        /\ ~trace_state /\ ~console /\ ~patrol /\ ~device

==============================================================================
