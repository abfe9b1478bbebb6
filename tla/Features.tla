------------------------------- MODULE Features -------------------------------
(***************************************************************************)
(* The feature vectors of hackbot_trace.c: every probe updates the vector  *)
(* of its tracepoint and processor inside a sequence count, with           *)
(* interrupts off; a report copies the vectors of one processor after      *)
(* another, starting over where the count shows a probe at work.           *)
(*                                                                         *)
(* A processor runs a probe and, on top of it, that of a block request     *)
(* that completes in an interrupt. A vector is stored and copied in two    *)
(* parts, the window of values and the rest, in either order; a store that *)
(* changes nothing is no step. Sequence counts do not wrap. Runqueue       *)
(* lengths and queue depths, which nothing ever sets, are left out.        *)
(***************************************************************************)
EXTENDS Integers, Sequences, FiniteSets, Filtering

CONSTANTS
    NrCpus,    \* processors are 1 .. NrCpus, in the order of a report
    Window,    \* FEATURE_WINDOW
    SECOND,    \* 1000000000 ns, in units of time
    Ids,       \* system calls
    Latencies, \* latencies of block requests, 0 where it is not known
    Modulus,   \* 2^64, the range of a time stamp
    MaxTime,   \* bound on the time that passes
    MaxEvents  \* bound on the number of events

ASSUME FeaturesAssumption ==
    /\ NrCpus \in Nat
    /\ {Window, SECOND, Modulus} \subseteq Nat \ {0}
    /\ Ids \cup Latencies \subseteq Nat
    /\ {MaxTime, MaxEvents} \subseteq Nat
    /\ SECOND + MaxTime + 1 < Modulus

VARIABLES
    clock,         \* time since boot
    seq,           \* sequence count of each vector
    features,      \* the vectors: sched_pcpu, syscall_pcpu, io_pcpu
    probe,         \* the probe of each context
    reader,        \* the report being printed
    report,        \* its rows so far
    published,     \* history: the values of each vector between probes
    fired,         \* history: the events of each vector
    events         \* history: events so far

vectors == <<seq, features, published, fired, events>>
reading == <<reader, report>>
vars == <<clock, vectors, probe, reading>>

CPU == 1 .. NrCpus
Channel == {"sched", "syscall", "io"}
Context == CPU \X {"task", "irq"}
Part == {"window", "rate"}
Start == SECOND + 1

Zeros == [i \in 1 .. Window |-> 0]
NoFeatures == [window |-> [values |-> Zeros, ids |-> Zeros],
               rate |-> [last |-> 0, count |-> 0, from |-> 0]]
NoProbe == [pc |-> "idle", ch |-> "io", now |-> 0, value |-> 0,
            new |-> NoFeatures, todo |-> {}]
NoRead == [pc |-> "off", ch |-> "io", cpu |-> 1, seq |-> 0, todo |-> {},
           copy |-> NoFeatures]

Values(ch) == CASE ch = "sched" -> {0} [] ch = "syscall" -> Ids
                [] ch = "io" -> Latencies
Vectors == Channel \X CPU
Of(x) == <<probe[x].ch, x[1]>>

Irq(x) == <<x[1], "irq">>
Task(x) == <<x[1], "task">>
Running(x) == x[2] = "task" => probe[Irq(x)].pc = "idle"
At(x, pc) == Running(x) /\ probe[x].pc = pc

------------------------------------------------------------------------------
(* The probes *)

(* A context switch has interrupts off, local_irq_save() keeps them off    *)
(* inside the sequence count.                                              *)
Masked(x) ==
    LET p == probe[Task(x)]
    IN  p.pc # "idle" /\ (p.ch = "sched" \/ p.pc = "store")

Tick ==
    /\ clock < Start + MaxTime
    /\ clock' = clock + 1
    /\ UNCHANGED <<vectors, probe, reading>>

Fire(x, ch, value) ==
    /\ At(x, "idle")
    /\ x[2] = "irq" => ch = "io" /\ ~Masked(x)
    /\ events < MaxEvents
    /\ events' = events + 1
    /\ probe' = [probe EXCEPT ![x] = [NoProbe EXCEPT
          !.pc = "begin", !.ch = ch, !.now = clock, !.value = value]]
    /\ UNCHANGED <<clock, seq, features, published, fired, reading>>

(* shift_u32_window                                                        *)
Shift(window, value) == Append(Tail(window), value)

(* Mutation: the time of the last event is kept with that of the window.   *)
UpdatedLate(f, ch, now, value) ==
    LET restart == (now - f.rate.from) % Modulus > SECOND
        known == IF ch = "io" THEN value # 0 ELSE f.rate.last # 0
        latest == IF ch = "io" THEN value ELSE (now - f.rate.last) % Modulus
        values == IF known THEN Shift(f.window.values, latest)
                  ELSE f.window.values
    IN  [window |-> [values |-> values,
                     ids |-> IF ch = "syscall" THEN Shift(f.window.ids, value)
                             ELSE f.window.ids],
         rate |-> IF restart THEN [last |-> now, count |-> 1, from |-> now]
                  ELSE [f.rate EXCEPT !.count = @ + 1]]

Updated(f, ch, now, value) ==
    LET restart == (now - f.rate.from) % Modulus > SECOND
        known == IF ch = "io" THEN value # 0 ELSE f.rate.last # 0
        latest == IF ch = "io" THEN value ELSE (now - f.rate.last) % Modulus
        values == IF known THEN Shift(f.window.values, latest)
                  ELSE f.window.values
    IN  [window |-> [values |-> values,
                     ids |-> IF ch = "syscall" THEN Shift(f.window.ids, value)
                             ELSE f.window.ids],
         rate |-> [last |-> IF ch = "io" THEN 0 ELSE now,
                   count |-> IF restart THEN 1 ELSE f.rate.count + 1,
                   from |-> IF restart THEN now ELSE f.rate.from]]

WriteBegin(x) ==
    LET v == Of(x)
        new == Updated(features[v], probe[x].ch, probe[x].now, probe[x].value)
    IN  /\ At(x, "begin")
        /\ seq' = [seq EXCEPT ![v] = @ + 1]
        /\ fired' = [fired EXCEPT ![v] = Append(@,
                        [now |-> probe[x].now, value |-> probe[x].value])]
        /\ probe' = [probe EXCEPT ![x].pc = "store", ![x].new = new,
              ![x].todo = {part \in Part : new[part] # features[v][part]}]
        /\ UNCHANGED <<clock, features, published, events, reading>>

Store(x, part) ==
    /\ At(x, "store")
    /\ part \in probe[x].todo
    /\ features' = [features EXCEPT ![Of(x)][part] = probe[x].new[part]]
    /\ probe' = [probe EXCEPT ![x].todo = @ \ {part}]
    /\ UNCHANGED <<clock, seq, published, fired, events, reading>>

WriteEnd(x) ==
    /\ At(x, "store")
    /\ probe[x].todo = {}
    /\ seq' = [seq EXCEPT ![Of(x)] = @ + 1]
    /\ published' = [published EXCEPT ![Of(x)] = Append(@, features[Of(x)])]
    /\ probe' = [probe EXCEPT ![x] = NoProbe]
    /\ UNCHANGED <<clock, features, fired, events, reading>>

------------------------------------------------------------------------------
(* hackbot_trace_read_sched, _syscall and _io *)

ReadOf(ch, cpu) == [NoRead EXCEPT !.pc = "begin", !.ch = ch, !.cpu = cpu]

ReadStart(ch) ==
    /\ reader.pc = "off"
    /\ reader' = ReadOf(ch, 1)
    /\ UNCHANGED <<clock, vectors, probe, report>>

Vector == <<reader.ch, reader.cpu>>

(* read_seqcount_begin() waits until the count is even.                    *)
ReadBegin ==
    /\ reader.pc = "begin"
    /\ reader.cpu <= NrCpus
    /\ seq[Vector] % 2 = 0
    /\ reader' = [reader EXCEPT !.pc = "copy", !.seq = seq[Vector],
                                !.todo = Part]
    /\ UNCHANGED <<clock, vectors, probe, report>>

ReadCopy(part) ==
    /\ reader.pc = "copy"
    /\ part \in reader.todo
    /\ reader' = [reader EXCEPT !.copy[part] = features[Vector][part],
                                !.todo = @ \ {part}]
    /\ UNCHANGED <<clock, vectors, probe, report>>

ReadRetry ==
    /\ reader.pc = "copy"
    /\ reader.todo = {}
    /\ seq[Vector] # reader.seq
    /\ reader' = ReadOf(reader.ch, reader.cpu)
    /\ UNCHANGED <<clock, vectors, probe, report>>

Suppressed(f, ch) ==
    f.rate.count = 0 /\ IF ch = "io" THEN f.rate.from = 0 ELSE f.rate.last = 0

(* Mutation: the sequence count is not looked at again.                     *)
ReadRowUnchecked ==
    /\ reader.pc = "copy"
    /\ reader.todo = {}
    /\ report' = IF Suppressed(reader.copy, reader.ch) THEN report
                 ELSE Append(report, [cpu |-> reader.cpu, seq |-> reader.seq,
                                      features |-> reader.copy])
    /\ reader' = ReadOf(reader.ch, reader.cpu + 1)
    /\ UNCHANGED <<clock, vectors, probe>>

ReadRow ==
    /\ reader.pc = "copy"
    /\ reader.todo = {}
    /\ seq[Vector] = reader.seq
    /\ report' = IF Suppressed(reader.copy, reader.ch) THEN report
                 ELSE Append(report, [cpu |-> reader.cpu, seq |-> reader.seq,
                                      features |-> reader.copy])
    /\ reader' = ReadOf(reader.ch, reader.cpu + 1)
    /\ UNCHANGED <<clock, vectors, probe>>

(* All processors shown, or no room for more text.                         *)
ReadEnd ==
    /\ reader.pc = "begin"
    /\ reader.cpu > NrCpus \/ report # << >>
    /\ reader' = NoRead
    /\ report' = << >>
    /\ UNCHANGED <<clock, vectors, probe>>

------------------------------------------------------------------------------
Init ==
    /\ clock = Start
    /\ seq = [v \in Vectors |-> 0]
    /\ features = [v \in Vectors |-> NoFeatures]
    /\ probe = [x \in Context |-> NoProbe]
    /\ reader = NoRead
    /\ report = << >>
    /\ published = [v \in Vectors |-> <<NoFeatures>>]
    /\ fired = [v \in Vectors |-> << >>]
    /\ events = 0

ProbeStep(x) ==
    \/ WriteBegin(x) \/ WriteEnd(x)
    \/ \E part \in Part : Store(x, part)

ReadStep ==
    \/ ReadBegin \/ ReadRetry \/ ReadRow \/ ReadEnd
    \/ \E part \in Part : ReadCopy(part)

Next ==
    \/ \E x \in Context, ch \in Channel : \E value \in Values(ch) :
           Fire(x, ch, value)
    \/ \E x \in Context : ProbeStep(x)
    \/ \E ch \in Channel : ReadStart(ch)
    \/ ReadStep
    \/ Tick

Spec == Init /\ [][Next]_vars

------------------------------------------------------------------------------
(* The shape of the state.                                                 *)
TypeOK ==
    /\ clock \in Start .. Start + MaxTime
    /\ seq \in [Vectors -> Nat]
    /\ \A x \in Context : probe[x].ch \in Channel /\ probe[x].todo \subseteq Part
    /\ reader.cpu \in 1 .. NrCpus + 1 /\ reader.todo \subseteq Part

(* Every row of a report is one value its vector had between two probes,   *)
(* the one that was there when its sequence count was read: never a        *)
(* mixture, whatever probes ran or interrupted one another meanwhile.      *)
RowsWhole ==
    \A i \in DOMAIN report :
        report[i].features =
            published[<<reader.ch, report[i].cpu>>][report[i].seq \div 2 + 1]

LastOf(s, n) == IF Len(s) <= n THEN s ELSE SubSeq(s, Len(s) - n + 1, Len(s))
Padded(s) == LastOf(Zeros \o s, Window)
Intervals(s) == [i \in 1 .. Len(s) - 1 |-> s[i + 1].now - s[i].now]
Known(s) == Passing([i \in DOMAIN s |-> s[i].value], Latencies \ {0})

(* After its k-th event, a vector holds the last intervals between events  *)
(* of its tracepoint on its processor, or the last known latencies, and    *)
(* the number of events in a window of at most a second that ends with     *)
(* this event, though other probes interrupt the one that updates it. Two  *)
(* probes of block requests may pass each other, so their windows of time  *)
(* are left out.                                                           *)
VectorsHonest ==
    \A v \in Vectors : \A k \in 1 .. Len(published[v]) - 1 :
        LET s == SubSeq(fired[v], 1, k)
            f == published[v][k + 1]
        IN  IF v[1] = "io" THEN f.window.values = Padded(Known(s))
            ELSE /\ f.window.values = Padded(Intervals(s))
                 /\ v[1] = "syscall" =>
                        f.window.ids = Padded([i \in 1 .. k |-> s[i].value])
                 /\ s[k].now - f.rate.from \in 0 .. SECOND
                 /\ f.rate.count =
                        Cardinality({i \in 1 .. k : s[i].now >= f.rate.from})

==============================================================================
