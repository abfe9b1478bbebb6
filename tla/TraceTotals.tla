------------------------------ MODULE TraceTotals ------------------------------
(***************************************************************************)
(* The totals of hackbot_trace.c: every probe counts its event with atomic *)
(* increments, one after another, and a report reads the same counters one *)
(* after another, while "trace reset" clears some of them.                 *)
(*                                                                         *)
(* The probes at work are those of a set of contexts; that an interrupt    *)
(* stops the probe below it is one way they interleave. A block request    *)
(* completes at time Now and was started at one of Starts, 0 where nobody  *)
(* noted it. Counters do not wrap. Counts per task are in TaskTable.       *)
(***************************************************************************)
EXTENDS Integers, Sequences, FiniteSetsExt

CONSTANTS
    Contexts,   \* where probes run
    MaxSyscall, \* MAX_SYSCALL_ID
    Bounds,     \* the bounds between latency buckets, in microseconds
    Ids,        \* system calls made
    Starts,     \* start times of block requests
    Now,        \* the time they complete
    Width,      \* 2^32, the range of a latency
    MaxEvents   \* bound on the number of events

(* What the constants are; the modules that give them values assume it.    *)
TotalsAssumption ==
    /\ {MaxSyscall, Now, MaxEvents} \subseteq Nat /\ Width \in Nat \ {0}
    /\ Ids \subseteq Int /\ Starts \subseteq Nat
    /\ IsFiniteSet(Ids) /\ IsFiniteSet(Starts) /\ IsFiniteSet(Contexts)
    /\ Bounds \in Seq(Nat)
    /\ \A i, j \in DOMAIN Bounds : i < j => Bounds[i] < Bounds[j]

Channel == {"sched", "syscall", "io"}
Event == {<<"sched", 0>>} \cup ({"syscall"} \X Ids) \cup ({"io"} \X Starts)

VARIABLES
    total,         \* sched_agg.total, syscall_agg.total, io_agg.total
    since,         \* total_since_reset of each
    total_latency, \* io_agg.total_latency_us
    counts,        \* syscall_agg.per_syscall and io_agg.lat_buckets, from 1 on
    probe,         \* the probe of each context
    reader,        \* the report being printed
    begun,         \* history: probes begun for each event
    ended,         \* history: probes ended for each event
    events         \* history: events so far

history == <<begun, ended, events>>
totals == <<total, since, total_latency, counts>>
vars == <<totals, probe, reader, history>>

Idle == [pc |-> "idle", event |-> <<"sched", 0>>]
NoRead == [pc |-> "off", ch |-> "sched", total |-> 0, latency |-> 0,
           shown |-> << >>, before |-> [e \in Event |-> 0]]
Rows(ch) == CASE ch = "sched" -> 0 [] ch = "syscall" -> MaxSyscall
              [] ch = "io" -> Len(Bounds) + 1
Over(e, h) == MapThenSumSet(LAMBDA x : h[x], e)

------------------------------------------------------------------------------
(* The probes *)

(* Mutation: a request without a start time counts like any other.         *)
MeasuredAlways(start) == Now > start

(* latency_valid                                                           *)
Measured(start) == start > 0 /\ Now > start
Latency(start) == (Now - start) % Width

(* The counters an event adds to besides its total: none or one.           *)
Bucket(latency) == Cardinality({i \in DOMAIN Bounds : Bounds[i] <= latency}) + 1
Row(e) == CASE e[1] = "sched" -> {}
            [] e[1] = "syscall" -> {e[2] + 1} \cap (1 .. MaxSyscall)
            [] e[1] = "io" -> IF Measured(e[2]) THEN {Bucket(Latency(e[2]))}
                              ELSE {}

Fire(x, e) ==
    /\ probe[x].pc = "idle"
    /\ events < MaxEvents
    /\ events' = events + 1
    /\ begun' = [begun EXCEPT ![e] = @ + 1]
    /\ probe' = [probe EXCEPT ![x] = [pc |-> "total", event |-> e]]
    /\ UNCHANGED <<totals, reader, ended>>

Counted(x, pc) ==
    LET done == pc = "row" /\ Row(probe[x].event) = {}
    IN  /\ probe' = [probe EXCEPT ![x] = IF done THEN Idle ELSE [@ EXCEPT !.pc = pc]]
        /\ ended' = IF done THEN [ended EXCEPT ![probe[x].event] = @ + 1] ELSE ended
        /\ UNCHANGED <<reader, begun, events>>

(* atomic64_inc of total, and of total_since_reset: as no report reads the *)
(* latter, the two are one step.                                           *)
CountTotal(x) ==
    LET e == probe[x].event
    IN  /\ probe[x].pc = "total"
        /\ total' = [total EXCEPT ![e[1]] = @ + 1]
        /\ since' = [since EXCEPT ![e[1]] = @ + 1]
        /\ Counted(x, IF e[1] = "io" /\ Measured(e[2]) THEN "latency" ELSE "row")
        /\ UNCHANGED <<total_latency, counts>>

CountLatency(x) ==
    /\ probe[x].pc = "latency"
    /\ total_latency' = total_latency + Latency(probe[x].event[2])
    /\ Counted(x, "row")
    /\ UNCHANGED <<total, since, counts>>

CountRow(x) ==
    LET e == probe[x].event
    IN  /\ probe[x].pc = "row"
        /\ \E i \in Row(e) : counts' = [counts EXCEPT ![e[1]][i] = @ + 1]
        /\ probe' = [probe EXCEPT ![x] = Idle]
        /\ ended' = [ended EXCEPT ![e] = @ + 1]
        /\ UNCHANGED <<total, since, total_latency, reader, begun, events>>

------------------------------------------------------------------------------
(* hackbot_trace_read_sched, _syscall and _io, hackbot_trace_reset *)

ReadTotal(ch) ==
    /\ reader.pc = "off"
    /\ reader' = [NoRead EXCEPT !.pc = IF ch = "io" THEN "latency" ELSE "rows",
                      !.ch = ch, !.total = total[ch], !.before = ended]
    /\ UNCHANGED <<totals, probe, history>>

ReadLatency ==
    /\ reader.pc = "latency"
    /\ reader' = [reader EXCEPT !.pc = "rows", !.latency = total_latency]
    /\ UNCHANGED <<totals, probe, history>>

ReadRow ==
    /\ reader.pc = "rows"
    /\ Len(reader.shown) < Rows(reader.ch)
    /\ reader' = [reader EXCEPT
           !.shown = Append(@, counts[reader.ch][Len(@) + 1])]
    /\ UNCHANGED <<totals, probe, history>>

ReadEnd ==
    /\ reader.pc = "rows"
    /\ Len(reader.shown) = Rows(reader.ch)
    /\ reader' = [reader EXCEPT !.pc = "done"]
    /\ UNCHANGED <<totals, probe, history>>

ReadReturn ==
    /\ reader.pc = "done"
    /\ reader' = NoRead
    /\ UNCHANGED <<totals, probe, history>>

Reset ==
    /\ since' = [ch \in Channel |-> 0]
    /\ UNCHANGED <<total, total_latency, counts, probe, reader, history>>

------------------------------------------------------------------------------
Init ==
    /\ total = [ch \in Channel |-> 0]
    /\ since = [ch \in Channel |-> 0]
    /\ total_latency = 0
    /\ counts = [ch \in Channel |-> [i \in 1 .. Rows(ch) |-> 0]]
    /\ probe = [x \in Contexts |-> Idle]
    /\ reader = NoRead
    /\ begun = [e \in Event |-> 0]
    /\ ended = [e \in Event |-> 0]
    /\ events = 0

Next ==
    \/ \E x \in Contexts :
           \/ CountTotal(x) \/ CountLatency(x) \/ CountRow(x)
           \/ \E e \in Event : Fire(x, e)
    \/ \E ch \in Channel : ReadTotal(ch)
    \/ ReadLatency \/ ReadRow \/ ReadEnd \/ ReadReturn
    \/ Reset

Spec == Init /\ [][Next]_vars

------------------------------------------------------------------------------
(* The shape of the state.                                                 *)
TypeOK ==
    /\ total \in [Channel -> Nat] /\ since \in [Channel -> Nat]
    /\ total_latency \in Nat
    /\ \A ch \in Channel : counts[ch] \in [1 .. Rows(ch) -> Nat]
    /\ \A x \in Contexts : probe[x].event \in Event
    /\ Len(reader.shown) <= Rows(reader.ch)

Between(low, shown, high) == low <= shown /\ shown <= high
Known == {e \in Event : e[1] = "io" /\ e[2] \in 1 .. Now - 1}
Sum(h) == Over(Known, [e \in Known |-> h[e] * ((Now - e[2]) % Width)])
InRow(i) == IF reader.ch = "syscall" THEN Event \cap {<<"syscall", i - 1>>}
            ELSE {e \in Known :
                LET l == (Now - e[2]) % Width
                IN  /\ i > 1 => Bounds[i - 1] <= l
                    /\ i <= Len(Bounds) => l < Bounds[i]}

(* Each number of a report lies between the events that were counted when  *)
(* it began and those begun when it ended, and only requests whose latency *)
(* is known count in the sum and the histogram of latencies: no count is   *)
(* lost or made twice, whatever probes run meanwhile, and a report that no *)
(* probe disturbed is exact.                                               *)
ReportsBounded ==
    reader.pc = "done" =>
        /\ LET all == {e \in Event : e[1] = reader.ch}
           IN  Between(Over(all, reader.before), reader.total, Over(all, begun))
        /\ reader.ch = "io" =>
               Between(Sum(reader.before), reader.latency, Sum(begun))
        /\ \A i \in DOMAIN reader.shown :
               Between(Over(InRow(i), reader.before), reader.shown[i],
                       Over(InRow(i), begun))

==============================================================================
