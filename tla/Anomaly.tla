------------------------------- MODULE Anomaly -------------------------------
(***************************************************************************)
(* Anomaly alerts and the patrol thread: the alert half of                 *)
(* hackbot_ngram.c (generate_alert, the wait queue, read_alerts), the      *)
(* thread of hackbot_patrol.c and the order in which the module unloads    *)
(* (hackbot_device.rs, hackbot_trace_exit, hackbot_ngram_exit).            *)
(*                                                                         *)
(* Probes run on every processor and take no lock. Everyone else is a      *)
(* sleeping context: the patrol thread, users who run the trace tool, and  *)
(* the module's unloading. An alert is its number, in the order in which   *)
(* ring slots were handed out; 0 is an empty slot. Scores, fields, time    *)
(* (so that a cooldown may or may not be over) and the tearing of an entry *)
(* that is read while it is written are left out.                          *)
(***************************************************************************)
EXTENDS Integers, Sequences, FiniteSets

CONSTANTS
    CPU,       \* processors
    User,      \* user processes that read alerts
    Patrol,    \* the patrol thread, which reads them as well
    RingSize,  \* NGRAM_ALERT_RING_SIZE
    Counts,    \* numbers of alerts readers ask for
    MaxReads,  \* bound on the reads in progress at a time
    MaxAlerts  \* bound: no probe starts once this many alerts exist

(* What the constants are; the modules that give them values assume it.    *)
AnomalyAssumption ==
    /\ Patrol \notin User
    /\ RingSize \in Nat \ {0}
    /\ Counts \subseteq 1 .. RingSize
    /\ MaxReads \in Nat /\ MaxAlerts \in Nat

VARIABLES
    taken,      \* alert_ring_head + 1, slots handed out so far
    ring,       \* alert_ring
    count,      \* alert_count
    pending,    \* alert_pending
    lapped,     \* history: a probe was overtaken by a whole ring of alerts
    probe,      \* each processor's probe: where it is and its alert
    patrol,     \* where the patrol thread is
    asleep,     \* it is marked as sleeping: a wake-up is what it needs
    signalled,  \* prepare_to_wait_event() found a signal
    woken,      \* wait_or_timeout() returned > 0
    reader,     \* reads of alerts in progress
    should_stop,\* kthread_should_stop()
    registered, \* the tracepoints are registered
    unload      \* how far unloading is

alerting == <<taken, ring, count, lapped, probe>>
thread == <<patrol, asleep, signalled, woken>>
ending == <<should_stop, registered, unload>>
vars == <<alerting, pending, thread, reader, ending>>

Readers == User \cup {Patrol}
NoProbe == [pc |-> "idle", alert |-> 0]
NoRead == [pc |-> "idle", head |-> 0, count |-> 0,
           i |-> 0, report |-> << >>, quiet |-> FALSE]

Quiet == \A c \in CPU : probe[c].pc = "idle"

------------------------------------------------------------------------------
(* generate_alert, on an event past the threshold and the grace period     *)

(* A probe whose cooldown is not over only adds to suppressed_count.        *)
Debounce(c) ==
    /\ registered
    /\ probe[c].pc = "idle"
    /\ taken < MaxAlerts
    /\ probe' = [probe EXCEPT ![c].pc = "slot"]
    /\ reader' = [r \in Readers |-> [reader[r] EXCEPT !.quiet = FALSE]]
    /\ UNCHANGED <<taken, ring, count, lapped, pending, thread, ending>>

ProbeAt(c, from, to) ==
    /\ probe[c].pc = from
    /\ probe' = [probe EXCEPT ![c].pc = to]
    /\ UNCHANGED <<reader, ending>>

ProbeEnds(c) ==
    /\ probe[c].pc = "wake"
    /\ probe' = [probe EXCEPT ![c] = NoProbe]
    /\ UNCHANGED <<reader, ending>>

TakeSlot(c) ==
    /\ probe[c].pc = "slot"
    /\ taken' = taken + 1
    /\ probe' = [probe EXCEPT ![c] = [pc |-> "write", alert |-> taken + 1]]
    /\ UNCHANGED <<ring, count, lapped, pending, thread, reader, ending>>

WriteEntry(c) ==
    /\ ProbeAt(c, "write", "count")
    /\ LET slot == (probe[c].alert - 1) % RingSize
       IN  /\ ring' = [ring EXCEPT ![slot] = probe[c].alert]
           /\ lapped' = (lapped \/ ring[slot] > probe[c].alert)
    /\ UNCHANGED <<taken, count, pending, thread>>

CountAlert(c) ==
    /\ ProbeAt(c, "count", "mark")
    /\ count' = count + 1
    /\ UNCHANGED <<taken, ring, lapped, pending, thread>>

Mark(c) ==
    /\ ProbeAt(c, "mark", "wake")
    /\ pending' = pending + 1
    /\ UNCHANGED <<taken, ring, count, lapped, thread>>

(* Mutation: nobody is woken.                                              *)
WakeNobody(c) ==
    /\ ProbeEnds(c)
    /\ UNCHANGED <<taken, ring, count, lapped, pending, thread>>

Wake(c) ==
    /\ ProbeEnds(c)
    /\ asleep' = (asleep /\ patrol \notin {"queued", "waiting"})
    /\ UNCHANGED <<taken, ring, count, lapped, pending, patrol, signalled,
                   woken>>

ProbeStep(c) ==
    \/ TakeSlot(c) \/ WriteEntry(c) \/ CountAlert(c) \/ Mark(c) \/ Wake(c)

------------------------------------------------------------------------------
(* hackbot_patrol_fn and wait_event_interruptible_timeout *)

PatrolAt(from, to) ==
    /\ patrol = from
    /\ patrol' = to
    /\ UNCHANGED <<alerting, reader, ending>>

(* The first 30 seconds, cut short by kthread_stop().                      *)
Delay(timeout) ==
    /\ PatrolAt("delay", "top")
    /\ timeout \/ should_stop
    /\ UNCHANGED <<pending, asleep, signalled, woken>>

Top ==
    /\ PatrolAt("top", IF should_stop THEN "off" ELSE "tick")
    /\ UNCHANGED <<pending, asleep, signalled, woken>>

(* hackbot_patrol_tick(): the agent may run the trace tool on the way.     *)
TickEnds ==
    /\ reader[Patrol].pc = "idle"
    /\ PatrolAt("tick", "wait")
    /\ UNCHANGED <<pending, asleep, signalled, woken>>

WaitReturns(from, ret) ==
    /\ PatrolAt(from, "after")
    /\ asleep' = FALSE
    /\ woken' = ret
    /\ UNCHANGED <<pending, signalled>>

WaitEnters ==
    \/ pending > 0 /\ WaitReturns("wait", TRUE)
    \/ pending = 0 /\ PatrolAt("wait", "prepare")
          /\ UNCHANGED <<pending, asleep, signalled, woken>>

Prepare ==
    /\ PatrolAt("prepare", "queued")
    /\ asleep' = TRUE
    /\ signalled' = should_stop
    /\ UNCHANGED <<pending, woken>>

Recheck ==
    \/ pending > 0 /\ WaitReturns("queued", TRUE)
    \/ pending = 0 /\ signalled /\ WaitReturns("queued", FALSE)
    \/ pending = 0 /\ ~signalled /\ PatrolAt("queued", "waiting")
          /\ UNCHANGED <<pending, asleep, signalled, woken>>

Woken ==
    /\ ~asleep
    /\ PatrolAt("waiting", "prepare")
    /\ UNCHANGED <<pending, asleep, signalled, woken>>

Timeout == WaitReturns("waiting", pending > 0)

(* The locals of wait_or_timeout() are gone when it returns.               *)
After ==
    /\ PatrolAt("after", IF woken /\ pending > 0 THEN "clear" ELSE "top")
    /\ woken' = FALSE
    /\ signalled' = FALSE
    /\ UNCHANGED <<pending, asleep>>

Clear ==
    /\ PatrolAt("clear", "top")
    /\ pending' = 0
    /\ UNCHANGED <<asleep, signalled, woken>>

PatrolStep ==
    \/ Delay(FALSE) \/ Top \/ TickEnds \/ WaitEnters \/ Prepare
    \/ Recheck \/ Woken \/ After \/ Clear

------------------------------------------------------------------------------
(* hackbot_ngram_read_alerts *)

(* A user's file keeps the module loaded; the patrol reads within a tick.  *)
ReadCall(r, n) ==
    /\ reader[r].pc = "idle"
    /\ Cardinality({q \in Readers : reader[q].pc # "idle"}) < MaxReads
    /\ IF r = Patrol THEN patrol = "tick" ELSE unload = "loaded"
    /\ reader' = [reader EXCEPT ![r] =
                     [NoRead EXCEPT !.pc = "total", !.head = taken - 1,
                                    !.count = n, !.quiet = Quiet /\ ~lapped]]
    /\ UNCHANGED <<alerting, pending, thread, ending>>

ReadTotal(r) ==
    /\ reader[r].pc = "total"
    /\ reader' = [reader EXCEPT ![r] =
                     IF count = 0 THEN [NoRead EXCEPT !.pc = "clear"]
                     ELSE [@ EXCEPT !.pc = "scan"]]
    /\ UNCHANGED <<alerting, pending, thread, ending>>

(* Mutation: head is taken for the next slot to be written.                *)
ReadEntryEarlier(r) ==
    LET start == (reader[r].head - reader[r].count + RingSize) % RingSize
        entry == ring[(start + reader[r].i) % RingSize]
    IN  /\ reader[r].pc = "scan"
        /\ reader[r].i < reader[r].count
        /\ reader' = [reader EXCEPT
               ![r].i = @ + 1,
               ![r].report = IF entry = 0 THEN @ ELSE Append(@, entry)]
        /\ UNCHANGED <<alerting, pending, thread, ending>>

ReadEntry(r) ==
    LET start == (reader[r].head - reader[r].count + 1 + RingSize) % RingSize
        entry == ring[(start + reader[r].i) % RingSize]
    IN  /\ reader[r].pc = "scan"
        /\ reader[r].i < reader[r].count
        /\ reader' = [reader EXCEPT
               ![r].i = @ + 1,
               ![r].report = IF entry = 0 THEN @ ELSE Append(@, entry)]
        /\ UNCHANGED <<alerting, pending, thread, ending>>

ReadScanned(r) ==
    /\ reader[r].pc = "scan"
    /\ reader[r].i = reader[r].count
    /\ reader' = [reader EXCEPT ![r] = [NoRead EXCEPT !.pc = "clear"]]
    /\ UNCHANGED <<alerting, pending, thread, ending>>

ReadClear(r) ==
    /\ reader[r].pc = "clear"
    /\ reader' = [reader EXCEPT ![r] = NoRead]
    /\ pending' = 0
    /\ UNCHANGED <<alerting, thread, ending>>

ReadStep(r) == ReadTotal(r) \/ ReadEntry(r) \/ ReadScanned(r) \/ ReadClear(r)

------------------------------------------------------------------------------
(* Unloading: hackbot_device.rs drop(), trace_exit, ngram_exit *)

UnloadAt(from, to) ==
    /\ unload = from
    /\ unload' = to
    /\ UNCHANGED <<alerting, pending, reader>>

(* Mutation: the thread is not woken.                                      *)
StopPatrolUnwoken ==
    /\ \A u \in User : reader[u].pc = "idle"
    /\ UnloadAt("loaded", "joining")
    /\ should_stop' = TRUE
    /\ UNCHANGED <<thread, registered>>

(* kthread_stop() sets the flag and wakes the thread, signal pending.      *)
StopPatrol ==
    /\ \A u \in User : reader[u].pc = "idle"
    /\ UnloadAt("loaded", "joining")
    /\ should_stop' = TRUE
    /\ asleep' = FALSE
    /\ UNCHANGED <<patrol, signalled, woken, registered>>

PatrolJoined ==
    /\ patrol = "off"
    /\ UnloadAt("joining", "joined")
    /\ UNCHANGED <<thread, should_stop, registered>>

Unregister ==
    /\ UnloadAt("joined", "draining")
    /\ registered' = FALSE
    /\ UNCHANGED <<thread, should_stop>>

(* Mutation: probes in flight are not waited for.                          *)
SynchronizeNot ==
    /\ UnloadAt("draining", "drained")
    /\ UNCHANGED <<thread, should_stop, registered>>

Synchronize ==
    /\ Quiet
    /\ UnloadAt("draining", "drained")
    /\ UNCHANGED <<thread, should_stop, registered>>

Free ==
    /\ UnloadAt("drained", "freed")
    /\ UNCHANGED <<thread, should_stop, registered>>

UnloadStep == PatrolJoined \/ Unregister \/ Synchronize \/ Free

------------------------------------------------------------------------------
(* After hackbot_trace_init and hackbot_patrol_start. A thread that could  *)
(* not be created is a stopped one.                                        *)
Init ==
    /\ taken = 0
    /\ ring = [s \in 0 .. RingSize - 1 |-> 0]
    /\ count = 0
    /\ pending = 0
    /\ lapped = FALSE
    /\ probe = [c \in CPU |-> NoProbe]
    /\ patrol \in {"delay", "off"}
    /\ asleep = FALSE
    /\ signalled = FALSE
    /\ woken = FALSE
    /\ reader = [r \in Readers |-> NoRead]
    /\ should_stop = FALSE
    /\ registered = TRUE
    /\ unload = "loaded"

Next ==
    \/ \E c \in CPU : Debounce(c) \/ ProbeStep(c)
    \/ PatrolStep \/ Delay(TRUE) \/ Timeout
    \/ \E r \in Readers, n \in Counts : ReadCall(r, n)
    \/ \E r \in Readers : ReadStep(r)
    \/ StopPatrol \/ UnloadStep

Spec == Init /\ [][Next]_vars

(* Running contexts go on running. Nothing is assumed of timeouts but the  *)
(* first delay's, of users, or of anyone unloading the module. The agent   *)
(* loop takes a bounded number of turns, so that a tick which keeps        *)
(* reading alerts still ends: hence strong fairness for the patrol.        *)
Fairness ==
    /\ \A c \in CPU : WF_vars(ProbeStep(c))
    /\ SF_vars(PatrolStep)
    /\ WF_vars(Delay(TRUE))
    /\ \A r \in Readers : WF_vars(ReadStep(r))
    /\ WF_vars(UnloadStep)

FairSpec == Spec /\ Fairness

------------------------------------------------------------------------------

(* Memory is freed only when nobody can be using it: no probe on any       *)
(* processor, no reader, no patrol thread, whatever they were doing when   *)
(* unloading began.                                                        *)
FreedMemoryUnused ==
    unload = "freed" =>
        /\ Quiet /\ ~registered
        /\ patrol = "off"
        /\ \A r \in Readers : reader[r].pc = "idle"

(* A report no probe disturbed prints the most recent alerts, oldest       *)
(* first, wherever the ring has wrapped - as long as no probe was held up  *)
(* between taking its slot and filling it while RingSize more were taken.  *)
QuietReportExact ==
    \A r \in Readers :
        reader[r].quiet /\ reader[r].pc = "scan"
            /\ reader[r].i = reader[r].count =>
            LET n == taken
                k == IF n < reader[r].count THEN n ELSE reader[r].count
            IN  reader[r].report = [i \in 1 .. k |-> n - k + i]

(* An alert does not wait for the patrol interval to run out: the patrol   *)
(* is woken for it, or someone has read the alerts, or it is told to stop. *)
AlertsNoticed ==
    pending > 0 /\ patrol # "off" ~> pending = 0 \/ should_stop

(* Unloading ends: the patrol thread answers kthread_stop() from whatever  *)
(* it was doing.                                                           *)
UnloadEnds == unload = "joining" ~> unload = "freed"
==============================================================================
