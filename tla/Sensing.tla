------------------------------- MODULE Sensing -------------------------------
(***************************************************************************)
(* Four components of the sensory layer side by side. They share no state, *)
(* so that interleaving them would show nothing: in each behaviour one of  *)
(* them is active and the others stay as they start.                       *)
(*   features  module Features: the vectors under a sequence count         *)
(*   rings     module TraceRings: the rings of events and their reports    *)
(*   tokens    module EventTokens: what a probe does with its processor's  *)
(*             state                                                       *)
(*   totals    module TraceTotals: the counters and their reports          *)
(***************************************************************************)
EXTENDS Features

CONSTANTS
    Cpus, RawSize, TokenSize, Requests, Default, \* of TraceRings
    Thresholds, MaxSkew, MaxNesting, MaxTokens,  \* of EventTokens
    Contexts, MaxSyscall, Bounds, Calls, Starts, Completed, Width,
    MaxCounted                                   \* of TraceTotals

VARIABLES
    active, \* the component that moves
    head, ring, ring_total, ring_probe, ring_reader, ring_report, order,
    lapped, ring_events,
    raw_clock, skew, stack, prev_ns, last_token, prev_token, tokens,
    token_events, learnt, touched, nested,
    agg_total, agg_since, agg_latency, agg_counts, agg_probe, agg_reader,
    agg_begun, agg_ended, agg_events

Rings == INSTANCE TraceRings WITH
    CPU <- Cpus, total <- ring_total, probe <- ring_probe,
    reader <- ring_reader, report <- ring_report, events <- ring_events

Tokens == INSTANCE EventTokens WITH
    clock <- raw_clock, events <- token_events, MaxEvents <- MaxTokens

Totals == INSTANCE TraceTotals WITH
    total <- agg_total, since <- agg_since, total_latency <- agg_latency,
    counts <- agg_counts, probe <- agg_probe, reader <- agg_reader,
    begun <- agg_begun, ended <- agg_ended, events <- agg_events,
    Ids <- Calls, Now <- Completed, MaxEvents <- MaxCounted

ASSUME RingsAreAssumption == Rings!RingsAssumption
ASSUME TokensAreAssumption == Tokens!TokensAssumption
ASSUME TotalsAreAssumption == Totals!TotalsAssumption

ofRings == <<head, ring, ring_total, ring_probe, ring_reader, ring_report,
             order, lapped, ring_events>>
ofTokens == <<raw_clock, skew, stack, prev_ns, last_token, prev_token, tokens,
              token_events, learnt, touched, nested>>
ofTotals == <<agg_total, agg_since, agg_latency, agg_counts, agg_probe,
              agg_reader, agg_begun, agg_ended, agg_events>>
all == <<active, vars, ofRings, ofTokens, ofTotals>>

SensingInit ==
    /\ Init /\ Rings!Init /\ Tokens!Init /\ Totals!Init
    /\ \/ active \in {"features", "rings", "totals"} /\ skew = 0
       \/ active = "tokens"

SensingNext ==
    \/ /\ active = "features" /\ Next
       /\ UNCHANGED <<active, ofRings, ofTokens, ofTotals>>
    \/ /\ active = "rings" /\ Rings!Next
       /\ UNCHANGED <<active, vars, ofTokens, ofTotals>>
    \/ /\ active = "tokens" /\ Tokens!Next
       /\ UNCHANGED <<active, vars, ofRings, ofTotals>>
    \/ /\ active = "totals" /\ Totals!Next
       /\ UNCHANGED <<active, vars, ofRings, ofTokens>>

SensingSpec == SensingInit /\ [][SensingNext]_all

------------------------------------------------------------------------------
(* Reports of the rings that no probe disturbed: that of the tokens is the *)
(* last tokens of all processors in order, wherever the ring has wrapped,  *)
(* one of raw events is consecutive and misses at most the newest one.     *)
RingReportsInOrder == Rings!TokenReportExact /\ Rings!RawReportConsecutive

(* Events whose probes no other interrupts are learnt, each after the one  *)
(* before it, with the gap class of the time between them if both are      *)
(* stamped by the same clock.                                              *)
WholeEventsTrue == Tokens!WholeEventsLearnt /\ Tokens!GapsHonest

(* Each number of a report of totals lies between the events counted when  *)
(* it began and those begun when it ended: none is lost or counted twice.  *)
TotalsBounded == Totals!ReportsBounded
==============================================================================
