------------------------------ MODULE Unloading ------------------------------
(***************************************************************************)
(* Loading and unloading of the module together with the two components    *)
(* that unloading has to stop at their work, the halves of                 *)
(* hackbot_ngram.c, and with the language model, which is loaded when the  *)
(* device is opened and freed at the end. Each has a model of unloading as *)
(* far as it is concerned and they share no other state, so that           *)
(* interleaving them would show nothing: in each behaviour one of them is  *)
(* active and the others stay as they start.                               *)
(*   loading  module Loading: every step of loading that may fail          *)
(*   alerts   module Anomaly: the alerts, their readers and the patrol     *)
(*   ngram    module Ngram: the learner and the halving of its tables      *)
(*   model    module Inference: the allocations of the language model      *)
(***************************************************************************)
EXTENDS Loading

CONSTANTS
    CPU,                                         \* of Anomaly and of Ngram
    User, Patrol, RingSize, Counts, MaxReads, MaxAlerts,        \* of Anomaly
    Dim, NrFields, MaxSurprise, LearnThreshold, BaselineInterval, \* of Ngram
    AdaptiveInterval, MaxEvents,
    ModelDim, HiddenDim, NLayers, NHeads, NKvHeads, HeadDim,    \* of Inference
    VocabSize, GroupSize, MaxSeq, TokSize, Prompts, MaxNew, MaxLoads, MaxChats

VARIABLES
    active, \* the component that moves
    taken, ring, count, pending, lapped, probe, thread, asleep, signalled,
    woken, reader, should_stop, registered, unload,
    cell, total_events, next_halve_at, work, prev, counting, elected, events,
    learner,
    model_pc, file, slot, heap, refs, mem, hist, todo, left, loads, chats

Alerts == INSTANCE Anomaly WITH patrol <- thread
Grams == INSTANCE Ngram WITH probe <- counting, unload <- learner

Net == INSTANCE Inference WITH Dim <- ModelDim, pc <- model_pc

ASSUME AlertsAssumption == Alerts!AnomalyAssumption
ASSUME GramsAssumption == Grams!NgramAssumption
ASSUME NetAssumption == Net!ShapeAssumption

ofAlerts == <<taken, ring, count, pending, lapped, probe, thread, asleep,
              signalled, woken, reader, should_stop, registered, unload>>
ofGrams == <<cell, total_events, next_halve_at, work, prev, counting, elected,
             events, learner>>
ofNet == <<model_pc, file, slot, heap, refs, mem, hist, todo, left, loads,
             chats>>
all == <<active, vars, ofAlerts, ofGrams, ofNet>>

SystemInit ==
    /\ Init /\ Alerts!Init /\ Grams!Init /\ Net!Init
    /\ \/ active = "loading"
       \/ active = "alerts" /\ found = Names
       \/ active \in {"ngram", "model"} /\ found = Names /\ thread = "off"

SystemNext ==
    \/ /\ active = "loading" /\ Next
       /\ UNCHANGED <<active, ofAlerts, ofGrams, ofNet>>
    \/ /\ active = "alerts" /\ Alerts!Next
       /\ UNCHANGED <<active, vars, ofGrams, ofNet>>
    \/ /\ active = "ngram" /\ Grams!Next
       /\ UNCHANGED <<active, vars, ofAlerts, ofNet>>
    \/ /\ active = "model" /\ Net!Next
       /\ UNCHANGED <<active, vars, ofAlerts, ofGrams>>

System == SystemInit /\ [][SystemNext]_all

(* The fairness of Anomaly, in the behaviours that are its own.            *)
FairSystem == System /\ (active = "alerts" => Alerts!Fairness)

------------------------------------------------------------------------------

(* Memory is freed only when no probe, no reader and no patrol thread can  *)
(* be using it, and an unloaded module has left nothing behind, whatever   *)
(* failed when it was loaded.                                              *)
FreedMemoryUnused ==
    /\ UnloadsClean
    /\ Alerts!FreedMemoryUnused

(* A report of alerts that no probe disturbed prints the last ones, oldest *)
(* first, wherever the ring has wrapped.                                   *)
QuietReportExact == Alerts!QuietReportExact

(* Of the processors that see a model cross its threshold together exactly *)
(* one has it halved, and no crossing goes unnoticed.                      *)
HalvingKeepsUp == Grams!OneElected /\ Grams!HalvingKeepsUp

(* The learner's tables are freed when no probe counts in them and the     *)
(* halving neither runs nor waits to run.                                  *)
FreedModelUnused == Grams!FreedModelUnused

(* The adaptive model, gated by its own surprise, stays as empty as it     *)
(* starts.                                                                 *)
AdaptiveStaysEmpty == Grams!AdaptiveStaysEmpty

(* Loads of the language model that fail anywhere and are tried again leak *)
(* nothing and free nothing twice, and unloading frees all of it.          *)
HeapMatchesSlot == Net!HeapMatchesSlot

(* An alert wakes the patrol, or someone reads it, or the patrol is told   *)
(* to stop: it does not wait for the patrol interval to run out.           *)
AlertsNoticed == active = "alerts" => Alerts!AlertsNoticed

(* Unloading ends, whatever the patrol thread was doing.                   *)
UnloadEnds == active = "alerts" => Alerts!UnloadEnds
==============================================================================
