------------------------------ MODULE TraceRings ------------------------------
(***************************************************************************)
(* The rings the probes of hackbot_trace.c and hackbot_tokenizer.c write   *)
(* and the reports that print their last entries: one ring of raw events   *)
(* for each tracepoint and one of tokens for all. A slot is taken by an    *)
(* atomic increment of the head and filled afterwards; readers take no     *)
(* lock either, and nothing tells them which slots are yet to be filled.   *)
(*                                                                         *)
(* Each processor runs a probe in the context of a task, and another one   *)
(* on top of it when a block request completes in an interrupt; a context  *)
(* switch has interrupts off. An event is its number, 0 an empty slot. The *)
(* tearing of an entry that is read while it is written is left out, as in *)
(* module Anomaly: the reports judged here are those no probe disturbed.   *)
(***************************************************************************)
EXTENDS Integers, Sequences, FiniteSets

CONSTANTS
    CPU,       \* processors
    RawSize,   \* RAW_RING_SIZE
    TokenSize, \* TOKEN_RING_SIZE
    Requests,  \* the reports asked for: a ring and a number of entries
    Default,   \* entries shown where that is out of range, 20 in the code
    MaxEvents  \* bound on the number of events

(* What the constants are; the modules that give them values assume it.    *)
RingsAssumption ==
    /\ IsFiniteSet(CPU)
    /\ {RawSize, TokenSize} \subseteq Nat \ {0}
    /\ Requests \subseteq {"sched", "syscall", "io", "token"} \X Nat
    /\ Default \in (1 .. RawSize) \cap (1 .. TokenSize)
    /\ MaxEvents \in Nat

VARIABLES
    head,   \* sched_ring_head, syscall_ring_head, io_ring_head, token_ring_head
    ring,   \* the slots of each ring
    total,  \* token_total_count
    probe,  \* the probe of each context
    reader, \* the report being printed
    report, \* its entries so far
    order,  \* history: the events of each ring, in the order of their slots
    lapped, \* history: a slot was handed out again while it was being filled
    events  \* history: events so far

rings == <<head, ring, total, order, lapped>>
reading == <<reader, report>>
vars == <<rings, probe, reading, events>>

Kind == {"sched", "syscall", "io"}
Rings == Kind \cup {"token"}
Context == CPU \X {"task", "irq"}
Size(r) == IF r = "token" THEN TokenSize ELSE RawSize
Slots(r) == 0 .. Size(r) - 1
Empty == 0

NoProbe == [pc |-> "idle", kind |-> "io", event |-> 0, ring |-> "io", at |-> 0]
NoRead == [pc |-> "off", ring |-> "token", count |-> 0, start |-> 0, i |-> 0,
           total |-> 0, quiet |-> FALSE]

Irq(x) == <<x[1], "irq">>
Task(x) == <<x[1], "task">>
Running(x) == x[2] = "task" => probe[Irq(x)].pc = "idle"
Quiet == \A x \in Context : probe[x].pc = "idle"

------------------------------------------------------------------------------
(* hackbot_probe_sched_switch, _sys_enter and _block_rq_complete *)

Masked(x) == probe[Task(x)].pc # "idle" /\ probe[Task(x)].kind = "sched"

(* atomic_inc_return(&head) & (SIZE - 1)                                   *)
TakeSlot(x, r, k, e) ==
    LET at == (head[r] + 1) % Size(r)
    IN  /\ head' = [head EXCEPT ![r] = @ + 1]
        /\ order' = [order EXCEPT ![r] = Append(@, e)]
        /\ lapped' = [lapped EXCEPT ![r] = @ \/ \E y \in Context :
                          /\ probe[y].pc = "fill"
                          /\ probe[y].ring = r /\ probe[y].at = at]
        /\ probe' = [probe EXCEPT ![x] =
              [pc |-> "fill", kind |-> k, event |-> e, ring |-> r, at |-> at]]

(* A tracepoint is hit: the probe begins with the raw ring of its kind.    *)
Fire(x, k) ==
    /\ events < MaxEvents
    /\ Running(x)
    /\ probe[x].pc = "idle"
    /\ x[2] = "irq" => k = "io" /\ ~Masked(x)
    /\ events' = events + 1
    /\ TakeSlot(x, k, k, events')
    /\ reader' = [reader EXCEPT !.quiet = FALSE]
    /\ UNCHANGED <<ring, total, report>>

Fill(x) ==
    /\ Running(x)
    /\ probe[x].pc = "fill"
    /\ ring' = [ring EXCEPT ![probe[x].ring][probe[x].at] = probe[x].event]
    /\ probe' = [probe EXCEPT ![x].pc = "filled"]
    /\ UNCHANGED <<head, total, order, lapped, reading, events>>

(* Then comes the ring of tokens.                                          *)
Tokenize(x) ==
    /\ Running(x)
    /\ probe[x].pc = "filled"
    /\ probe[x].ring # "token"
    /\ TakeSlot(x, "token", probe[x].kind, probe[x].event)
    /\ UNCHANGED <<ring, total, reading, events>>

CountToken(x) ==
    /\ Running(x)
    /\ probe[x].pc = "filled"
    /\ probe[x].ring = "token"
    /\ total' = total + 1
    /\ probe' = [probe EXCEPT ![x] = NoProbe]
    /\ UNCHANGED <<head, ring, order, lapped, reading, events>>

------------------------------------------------------------------------------
(* hackbot_trace_read_sched_raw, _syscall_raw, _io_raw, hackbot_tokenizer_read *)

Count(r, n) == IF n \in 1 .. Size(r) THEN n ELSE Default

(* Mutation: the tokens are walked from where raw events are.              *)
StartAsRaw(r, n) == (head[r] - n) % Size(r)

StartOf(r, n) ==
    IF r = "token" THEN (head[r] - n + 1 + Size(r)) % Size(r)
    ELSE (head[r] - n) % Size(r)

ReadStart(r, n) ==
    /\ reader.pc = "off"
    /\ reader' = [NoRead EXCEPT
          !.pc = IF r = "token" THEN "total" ELSE "look", !.ring = r,
          !.count = Count(r, n), !.start = StartOf(r, Count(r, n)), !.quiet = Quiet]
    /\ report' = << >>
    /\ UNCHANGED <<rings, probe, events>>

(* With no token yet there is nothing to walk.                             *)
ReadTotal ==
    /\ reader.pc = "total"
    /\ reader' = [reader EXCEPT !.pc = IF total = 0 THEN "done" ELSE "look",
                                !.total = total]
    /\ UNCHANGED <<rings, probe, report, events>>

Here == ring[reader.ring][(reader.start + reader.i) % Size(reader.ring)]

ReadEntry ==
    /\ reader.pc = "look"
    /\ reader.i < reader.count
    /\ report' = IF Here = Empty THEN report ELSE Append(report, Here)
    /\ reader' = [reader EXCEPT !.i = @ + 1]
    /\ UNCHANGED <<rings, probe, events>>

(* All entries walked, or no room for more text.                           *)
ReadEnd ==
    /\ reader.pc = "look"
    /\ reader.i = reader.count \/ report # << >>
    /\ reader' = [reader EXCEPT !.pc = "done"]
    /\ UNCHANGED <<rings, probe, report, events>>

ReadReturn ==
    /\ reader.pc = "done"
    /\ reader' = NoRead
    /\ report' = << >>
    /\ UNCHANGED <<rings, probe, events>>

------------------------------------------------------------------------------
(* Raw rings are zeroed and so are their heads; the head of the tokens     *)
(* starts one before the first slot.                                       *)
Init ==
    /\ head = [r \in Rings |-> IF r = "token" THEN -1 ELSE 0]
    /\ ring = [r \in Rings |-> [s \in Slots(r) |-> Empty]]
    /\ total = 0
    /\ probe = [x \in Context |-> NoProbe]
    /\ reader = NoRead
    /\ report = << >>
    /\ order = [r \in Rings |-> << >>]
    /\ lapped = [r \in Rings |-> FALSE]
    /\ events = 0

ProbeStep(x) ==
    Fill(x) \/ Tokenize(x) \/ CountToken(x)

Next ==
    \/ \E x \in Context, k \in Kind : Fire(x, k)
    \/ \E x \in Context : ProbeStep(x)
    \/ \E request \in Requests : ReadStart(request[1], request[2])
    \/ ReadTotal \/ ReadEntry \/ ReadEnd \/ ReadReturn

Spec == Init /\ [][Next]_vars

------------------------------------------------------------------------------
(* The shape of the state.                                                 *)
TypeOK ==
    /\ head \in [Rings -> -1 .. MaxEvents]
    /\ \A r \in Rings : ring[r] \in [Slots(r) -> 0 .. MaxEvents]
    /\ total \in 0 .. MaxEvents
    /\ \A x \in Context : probe[x].at \in Slots(probe[x].ring)
    /\ reader.start \in Slots(reader.ring) /\ reader.i \in 0 .. reader.count
    /\ events \in 0 .. MaxEvents

Last(s, n) == IF Len(s) <= n THEN s ELSE SubSeq(s, Len(s) - n + 1, Len(s))
Newest(r, n) == Last(order[r], n)

(* A report that was walked to its end while no probe ran, from a ring     *)
(* where no probe was ever overtaken by a whole ring of events.            *)
Undisturbed ==
    /\ reader.pc = "done" /\ reader.quiet
    /\ reader.i = reader.count \/ reader.total = 0
    /\ ~lapped[reader.ring]

(* Such a report of the tokens is the last tokens of all processors in     *)
(* order, wherever the ring has wrapped, and says how many there have been.*)
TokenReportExact ==
    Undisturbed /\ reader.ring = "token" =>
        /\ report = Newest("token", reader.count)
        /\ reader.total = Len(order["token"])

(* A report of raw events short of the whole ring shows events in order,   *)
(* one after the other, and misses at most the newest one.                 *)
RawReportConsecutive ==
    /\ reader.pc = "done" /\ reader.quiet /\ reader.i = reader.count
    /\ ~lapped[reader.ring]
    /\ reader.ring \in Kind /\ reader.count < RawSize
    => \E skip \in {0, 1} :
           LET s == order[reader.ring]
           IN  report = Last(SubSeq(s, 1, Len(s) - skip), Len(report))

(* "last 20 raw sched_switch events" (hackbot_tools.rs:621): an            *)
(* undisturbed report of raw events shows the last ones. Violated: the     *)
(* head is the slot written last, not the next, so the newest event is     *)
(* left out, or comes first where the whole ring is asked for.             *)
RawReportNewest ==
    /\ reader.pc = "done" /\ reader.quiet /\ reader.i = reader.count
    /\ reader.ring \in Kind /\ ~lapped[reader.ring]
    => report = Newest(reader.ring, reader.count)

==============================================================================
