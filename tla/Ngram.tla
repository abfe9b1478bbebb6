-------------------------------- MODULE Ngram --------------------------------
(***************************************************************************)
(* The learning half of hackbot_ngram.c: every tracepoint event is scored  *)
(* against two tables of bigram counts and then counted in them, and every *)
(* so many events one processor is elected to have a table's counts halved *)
(* by a work item. Probes take no lock; the work item runs beside them.    *)
(*                                                                         *)
(* An event's eight fields are taken to move together, so that one table   *)
(* stands for the eight and its surprise counts NrFields times; an event   *)
(* is scored at one moment, before it is counted. Stored scores, the       *)
(* classification and the alerts (module Anomaly) are left out.            *)
(***************************************************************************)
EXTENDS Integers, FiniteSets

CONSTANTS
    CPU,              \* processors
    Dim,              \* NGRAM_DIM, token values of a field
    NrFields,         \* TOK_NR_FIELDS
    MaxSurprise,      \* NGRAM_MAX_SURPRISE
    LearnThreshold,   \* NGRAM_LEARN_THRESHOLD
    BaselineInterval, \* NGRAM_BASELINE_HALVE_INTERVAL, 0 for never
    AdaptiveInterval, \* NGRAM_ADAPTIVE_HALVE_INTERVAL, 0 for never
    MaxEvents         \* bound on the number of events

(* What the constants are; the modules that give them values assume it.    *)
NgramAssumption ==
    /\ IsFiniteSet(CPU) /\ CPU # {}
    /\ Dim \in Nat \ {0}
    /\ {NrFields, MaxSurprise, LearnThreshold, MaxEvents} \subseteq Nat
    /\ {BaselineInterval, AdaptiveInterval} \subseteq Nat

VARIABLES
    cell,          \* count[i][j] as <<i, j>>, row_total[i] as <<i, Dim>>
    total_events,  \* of each model
    next_halve_at, \* of each model
    work,          \* halve_work: queued, and where the worker is in it
    prev,          \* prev_token of each processor, None before the first
    probe,         \* the event each processor is counting
    elected,       \* history: elections won
    events,        \* history: events so far
    unload         \* how far unloading is, and the model it has got to

model == <<cell, total_events, next_halve_at>>
vars == <<model, work, prev, probe, elected, events, unload>>

Model == {"baseline", "adaptive"}
Interval(m) == IF m = "baseline" THEN BaselineInterval ELSE AdaptiveInterval
Token == 0 .. Dim - 1
None == Dim
Row(i) == <<i, Dim>>
Cells == Token \X (0 .. Dim)

NoProbe == [pc |-> "idle", m |-> "baseline", token |-> 0, learn |-> FALSE,
            cur |-> 0, threshold |-> 0]
NoWork == [pc |-> "idle", queued |-> FALSE, at |-> <<0, 0>>, v |-> 0]

Quiet == \A c \in CPU : probe[c].pc = "idle"

------------------------------------------------------------------------------
(* hackbot_ngram_process *)

ilog2(n) == CHOOSE k \in 0 .. n : 2^k <= n /\ n < 2^(k + 1)

Surprise(m, i, j) ==
    LET rt == cell[m][Row(i)]
        ct == cell[m][<<i, j>>]
    IN  CASE ct = 0 \/ rt = 0 -> MaxSurprise
          [] ct >= rt /\ rt > 0 -> 0
          [] OTHER -> ilog2(rt) - ilog2(ct)

Arrives(c) ==
    /\ unload.at = "loaded"
    /\ probe[c].pc = "idle"
    /\ events < MaxEvents
    /\ events' = events + 1
    /\ UNCHANGED <<model, work, elected, unload>>

FirstEvent(c, token) ==
    /\ Arrives(c)
    /\ prev[c] = None
    /\ prev' = [prev EXCEPT ![c] = token]
    /\ UNCHANGED probe

(* Mutation: the adaptive model learns whatever happens.                   *)
EventUngated(c, token) ==
    /\ Arrives(c)
    /\ prev[c] # None
    /\ probe' = [probe EXCEPT ![c] =
          [NoProbe EXCEPT !.pc = "count", !.token = token, !.learn = TRUE]]
    /\ UNCHANGED prev

Event(c, token) ==
    /\ Arrives(c)
    /\ prev[c] # None
    /\ probe' = [probe EXCEPT ![c] =
          [NoProbe EXCEPT
              !.pc = "count", !.token = token,
              !.learn = NrFields * Surprise("adaptive", prev[c], token)
                            < LearnThreshold]]
    /\ UNCHANGED prev

(* The model is updated: on to the adaptive one, or the event is done with.*)
Updated(c) ==
    IF probe[c].m = "baseline" /\ probe[c].learn
    THEN /\ probe' = [probe EXCEPT ![c].m = "adaptive", ![c].pc = "count"]
         /\ UNCHANGED prev
    ELSE /\ probe' = [probe EXCEPT ![c] = NoProbe]
         /\ prev' = [prev EXCEPT ![c] = probe[c].token]

Bump(c, key) ==
    /\ cell' = [cell EXCEPT ![probe[c].m][key] = @ + 1]
    /\ UNCHANGED <<total_events, next_halve_at, work, prev, elected, events,
                   unload>>

CountBigram(c) ==
    /\ probe[c].pc = "count"
    /\ Bump(c, <<prev[c], probe[c].token>>)
    /\ probe' = [probe EXCEPT ![c].pc = "row"]

CountRow(c) ==
    /\ probe[c].pc = "row"
    /\ Bump(c, Row(prev[c]))
    /\ probe' = [probe EXCEPT ![c].pc = "total"]

CountEvent(c) ==
    LET m == probe[c].m
        cur == total_events[m] + 1
    IN  /\ probe[c].pc = "total"
        /\ total_events' = [total_events EXCEPT ![m] = cur]
        /\ IF Interval(m) = 0
           THEN Updated(c)
           ELSE /\ probe' = [probe EXCEPT ![c].pc = "elect", ![c].cur = cur]
                /\ UNCHANGED prev
        /\ UNCHANGED <<cell, next_halve_at, work, elected, events, unload>>

(* Mutation: the event that reaches the threshold does not stand.          *)
StandLate(c) ==
    LET threshold == next_halve_at[probe[c].m]
    IN  /\ probe[c].pc = "elect"
        /\ IF probe[c].cur > threshold
           THEN /\ probe' = [probe EXCEPT ![c].pc = "cmpxchg",
                                          ![c].threshold = threshold]
                /\ UNCHANGED prev
           ELSE Updated(c)
        /\ UNCHANGED <<model, work, elected, events, unload>>

Stand(c) ==
    LET threshold == next_halve_at[probe[c].m]
    IN  /\ probe[c].pc = "elect"
        /\ IF probe[c].cur >= threshold
           THEN /\ probe' = [probe EXCEPT ![c].pc = "cmpxchg",
                                          ![c].threshold = threshold]
                /\ UNCHANGED prev
           ELSE Updated(c)
        /\ UNCHANGED <<model, work, elected, events, unload>>

Elect(c) ==
    LET m == probe[c].m
    IN  /\ probe[c].pc = "cmpxchg"
        /\ \/ /\ next_halve_at[m] = probe[c].threshold
              /\ next_halve_at' = [next_halve_at EXCEPT ![m] = @ + Interval(m)]
              /\ elected' = [elected EXCEPT ![m] = @ + 1]
              /\ probe' = [probe EXCEPT ![c].pc = "schedule"]
              /\ UNCHANGED prev
           \/ /\ next_halve_at[m] # probe[c].threshold
              /\ Updated(c)
              /\ UNCHANGED <<next_halve_at, elected>>
        /\ UNCHANGED <<cell, total_events, work, events, unload>>

(* schedule_work() does nothing when the work is queued already.           *)
Schedule(c) ==
    /\ probe[c].pc = "schedule"
    /\ work' = [work EXCEPT ![probe[c].m].queued = TRUE]
    /\ Updated(c)
    /\ UNCHANGED <<model, elected, events, unload>>

ProbeStep(c) ==
    \/ CountBigram(c) \/ CountRow(c) \/ CountEvent(c)
    \/ Stand(c) \/ Elect(c) \/ Schedule(c)

------------------------------------------------------------------------------
(* halve_work_fn, on a worker thread *)

WorkUnchanged ==
    UNCHANGED <<total_events, next_halve_at, prev, probe, elected, events,
                unload>>

HalveStart(m) ==
    /\ work[m].queued /\ work[m].pc = "idle"
    /\ work' = [work EXCEPT ![m] = [NoWork EXCEPT !.pc = "read"]]
    /\ UNCHANGED cell /\ WorkUnchanged

(* A row's counts in order, its total, and on to the next row.             *)
NextCell(at) ==
    IF at[2] < Dim THEN <<at[1], at[2] + 1>> ELSE <<at[1] + 1, 0>>

Advance(m) ==
    LET at == NextCell(work[m].at)
    IN  work' = [work EXCEPT ![m] =
            IF at[1] < Dim
            THEN [@ EXCEPT !.pc = "read", !.at = at, !.v = 0]
            ELSE [NoWork EXCEPT !.queued = work[m].queued]]

HalveRead(m) ==
    LET v == cell[m][work[m].at]
    IN  /\ work[m].pc = "read"
        /\ IF v > 0
           THEN work' = [work EXCEPT ![m].pc = "set", ![m].v = v]
           ELSE Advance(m)
        /\ UNCHANGED cell /\ WorkUnchanged

HalveSet(m) ==
    /\ work[m].pc = "set"
    /\ cell' = [cell EXCEPT ![m][work[m].at] = work[m].v \div 2]
    /\ Advance(m)
    /\ WorkUnchanged

HalveStep(m) == HalveStart(m) \/ HalveRead(m) \/ HalveSet(m)

------------------------------------------------------------------------------
(* hackbot_trace_exit and hackbot_ngram_exit *)

UnloadTo(at, m) ==
    /\ unload' = [at |-> at, m |-> m]
    /\ UNCHANGED <<model, prev, probe, elected, events>>

Unregister ==
    /\ unload.at = "loaded"
    /\ UnloadTo("draining", "baseline")
    /\ UNCHANGED work

Synchronize ==
    /\ unload.at = "draining"
    /\ Quiet
    /\ UnloadTo("cancel", "baseline")
    /\ UNCHANGED work

CancelWork ==
    /\ unload.at = "cancel"
    /\ work' = [work EXCEPT ![unload.m].queued = FALSE]
    /\ UnloadTo("flush", unload.m)

(* Mutation: cancel_work() where cancel_work_sync() is called for.         *)
FlushWorkNot ==
    /\ unload.at = "flush"
    /\ IF unload.m = "baseline" THEN UnloadTo("cancel", "adaptive")
                                ELSE UnloadTo("freed", "adaptive")
    /\ UNCHANGED work

FlushWork ==
    /\ unload.at = "flush"
    /\ work[unload.m].pc = "idle"
    /\ IF unload.m = "baseline" THEN UnloadTo("cancel", "adaptive")
                                ELSE UnloadTo("freed", "adaptive")
    /\ UNCHANGED work

------------------------------------------------------------------------------
(* hackbot_ngram_init *)

Init ==
    /\ cell = [m \in Model |-> [k \in Cells |-> 0]]
    /\ total_events = [m \in Model |-> 0]
    /\ next_halve_at = [m \in Model |-> Interval(m)]
    /\ work = [m \in Model |-> NoWork]
    /\ prev = [c \in CPU |-> None]
    /\ probe = [c \in CPU |-> NoProbe]
    /\ elected = [m \in Model |-> 0]
    /\ events = 0
    /\ unload = [at |-> "loaded", m |-> "baseline"]

Next ==
    \/ \E c \in CPU, token \in Token : FirstEvent(c, token) \/ Event(c, token)
    \/ \E c \in CPU : ProbeStep(c)
    \/ \E m \in Model : HalveStep(m)
    \/ Unregister \/ Synchronize \/ CancelWork \/ FlushWork

Spec == Init /\ [][Next]_vars

------------------------------------------------------------------------------

(* Exactly one processor has the counts halved each time a threshold is    *)
(* crossed, whoever else saw the same crossing: the threshold moves on by  *)
(* one interval per election won.                                          *)
OneElected ==
    \A m \in Model : next_halve_at[m] = Interval(m) * (1 + elected[m])

(* No crossing goes unnoticed: when no event is being counted, the next    *)
(* threshold lies ahead of the events counted and no more than an interval *)
(* ahead, even though a loser of an election does not look again. It takes *)
(* an interval no shorter than the number of processors.                   *)
HalvingKeepsUp ==
    \A m \in Model :
        Quiet /\ Interval(m) >= Cardinality(CPU) =>
            /\ total_events[m] < next_halve_at[m]
            /\ next_halve_at[m] <= total_events[m] + Interval(m)

(* When the models are freed no probe is counting in them, the halving is  *)
(* neither running nor waiting to run, and it will not be asked for again. *)
FreedModelUnused ==
    unload.at = "freed" =>
        Quiet /\ \A m \in Model : work[m].pc = "idle" /\ ~work[m].queued

(* The adaptive model, from which alerts are raised, never learns: it is   *)
(* gated by its own surprise, an unseen bigram has the greatest surprise   *)
(* in every field, and so it stays as empty as it starts, however often    *)
(* a bigram comes up.                                                      *)
AdaptiveStaysEmpty ==
    NrFields * MaxSurprise >= LearnThreshold =>
        /\ total_events["adaptive"] = 0
        /\ \A k \in Cells : cell["adaptive"][k] = 0
==============================================================================
