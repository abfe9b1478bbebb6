------------------------------ MODULE EventTokens ------------------------------
(***************************************************************************)
(* What a tracepoint probe does with the state of its processor: the event *)
(* becomes a token (hackbot_tokenizer.c), the token is left in last_token, *)
(* and the learner (hackbot_ngram_process) is given a pointer to it.       *)
(*                                                                         *)
(* All of this is per-CPU state that no other processor touches, so one    *)
(* processor is the whole system. What makes it hard is nesting: a         *)
(* completed block request interrupts a probe of a system call or of       *)
(* another request wherever it is, and runs to its end; a context switch   *)
(* has interrupts off. The two kinds of clock differ by a skew: probes of  *)
(* block requests read the clock that NTP adjusts, the others the raw one. *)
(*                                                                         *)
(* A token is its category, its gap class and, as history, the number of   *)
(* its event and the raw time of it. The fields that come straight from a  *)
(* table or from an argument are left out; scoring and counting the pair   *)
(* of tokens are module Ngram.                                             *)
(***************************************************************************)
EXTENDS Integers, Sequences, FiniteSets

CONSTANTS
    Thresholds, \* bounds of the gap classes, in units of time
    Modulus,    \* 2^64, the range of a time stamp
    MaxSkew,    \* how far the two clocks may have drifted apart
    MaxNesting, \* probes that interrupt one another
    MaxTime,    \* bound on the time that passes
    MaxEvents   \* bound on the number of events

(* What the constants are; the modules that give them values assume it.    *)
TokensAssumption ==
    /\ Thresholds \in Seq(Nat \ {0})
    /\ {MaxSkew, MaxTime, MaxEvents} \subseteq Nat
    /\ MaxNesting \in Nat \ {0}
    /\ Modulus \in Nat \ {0} /\ MaxTime + 3 * MaxSkew + 1 < Modulus

VARIABLES
    clock,      \* the raw clock
    skew,       \* what the adjusted clock is ahead of it
    stack,      \* the probes running, the interrupting one last
    prev_ns,    \* hackbot_tok_cpu.prev_ns
    last_token, \* hackbot_tok_cpu.last_token
    prev_token, \* ngram_cpu_state.prev_token, NoToken while ~has_prev
    tokens,     \* history: every last_token in turn
    events,     \* history: events so far
    learnt,     \* history: pairs of tokens the learner was given
    touched,    \* history: events whose probe was interrupted, and
    nested      \* history: events whose probe did interrupt another

times == <<clock, skew>>
state == <<prev_ns, last_token, prev_token>>
history == <<events, tokens, learnt, touched, nested>>
vars == <<times, stack, state, history>>

Kind == {"sched", "syscall", "io"}
Start == MaxSkew + 1
NoToken == [category |-> "none", gap |-> 0, event |-> 0, at |-> 0]

Top == stack[Len(stack)]
Under == SubSeq(stack, 1, Len(stack) - 1)

------------------------------------------------------------------------------
(* The tracepoints and the clocks *)

MayFire(k) ==
    \/ stack = << >>
    \/ /\ k = "io"
       /\ Len(stack) \in 1 .. MaxNesting - 1
       /\ Top.kind # "sched"

(* ktime_get_ns() for block requests, ktime_get_raw_fast_ns() elsewhere.   *)
Now(k) == IF k = "io" THEN clock + skew ELSE clock

Fire(k) ==
    /\ events < MaxEvents
    /\ MayFire(k)
    /\ events' = events + 1
    /\ stack' = Append(stack, [kind |-> k, event |-> events', at |-> clock,
                               now |-> Now(k), pc |-> "gap", gap |-> 0])
    /\ IF stack = << >> THEN UNCHANGED <<touched, nested>>
       ELSE /\ touched' = touched \cup {Top.event}
            /\ nested' = nested \cup {events'}
    /\ UNCHANGED <<times, state, tokens, learnt>>

Tick ==
    /\ clock < Start + MaxTime
    /\ clock' = clock + 1
    /\ UNCHANGED <<skew, stack, state, history>>

ProbeAt(from, to) ==
    /\ stack # << >>
    /\ Top.pc = from
    /\ stack' = [stack EXCEPT ![Len(stack)].pc = to]
    /\ UNCHANGED <<times, events, touched, nested>>

ProbeEnds(from) ==
    /\ stack # << >>
    /\ Top.pc = from
    /\ stack' = Under
    /\ UNCHANGED <<times, events, touched, nested>>

------------------------------------------------------------------------------
(* hackbot_tokenize_*, store_token *)

GAP_DORMANT == Len(Thresholds)

quantize_gap_ns(delta) ==
    Cardinality({i \in DOMAIN Thresholds : delta >= Thresholds[i]})

compute_gap_class(now) ==
    IF prev_ns = 0 THEN GAP_DORMANT
    ELSE quantize_gap_ns((now - prev_ns) % Modulus)

Tokenize ==
    /\ stack # << >>
    /\ Top.pc = "gap"
    /\ stack' = [stack EXCEPT ![Len(stack)].pc = "last",
                              ![Len(stack)].gap = compute_gap_class(Top.now)]
    /\ UNCHANGED <<times, state, history>>

StoreLast ==
    /\ ProbeAt("last", "time")
    /\ last_token' = [category |-> Top.kind, gap |-> Top.gap,
                      event |-> Top.event, at |-> Top.at]
    /\ tokens' = Append(tokens, last_token')
    /\ UNCHANGED <<prev_ns, prev_token, learnt>>

StoreTime ==
    /\ ProbeAt("time", "process")
    /\ prev_ns' = Top.now
    /\ UNCHANGED <<last_token, prev_token, tokens, learnt>>

------------------------------------------------------------------------------
(* hackbot_ngram_process(hackbot_tokenizer_last_token()) *)

FirstEvent ==
    /\ ProbeEnds("process")
    /\ prev_token = NoToken
    /\ prev_token' = last_token
    /\ UNCHANGED <<prev_ns, last_token, tokens, learnt>>

(* Mutation: the token is saved as the previous one before the models look.*)
LearnSaved ==
    /\ ProbeAt("process", "save")
    /\ prev_token # NoToken
    /\ learnt' = learnt \cup {<<last_token, last_token>>}
    /\ UNCHANGED <<state, tokens>>

(* Both models are given the previous token and what the pointer shows now.*)
Learn ==
    /\ ProbeAt("process", "save")
    /\ prev_token # NoToken
    /\ learnt' = learnt \cup {<<prev_token, last_token>>}
    /\ UNCHANGED <<state, tokens>>

Save ==
    /\ ProbeEnds("save")
    /\ prev_token' = last_token
    /\ UNCHANGED <<prev_ns, last_token, tokens, learnt>>

------------------------------------------------------------------------------
Init ==
    /\ clock = Start
    /\ skew \in -MaxSkew .. MaxSkew
    /\ stack = << >>
    /\ prev_ns = 0
    /\ last_token = NoToken
    /\ prev_token = NoToken
    /\ tokens = << >>
    /\ events = 0
    /\ learnt = {}
    /\ touched = {}
    /\ nested = {}

Next ==
    \/ \E k \in Kind : Fire(k)
    \/ Tick
    \/ Tokenize \/ StoreLast \/ StoreTime
    \/ FirstEvent \/ Learn \/ Save

Spec == Init /\ [][Next]_vars

------------------------------------------------------------------------------
(* The shape of the state.                                                 *)
TypeOK ==
    /\ clock \in Start .. Start + MaxTime
    /\ skew \in -MaxSkew .. MaxSkew
    /\ Len(stack) <= MaxNesting
    /\ prev_ns \in 0 .. Modulus - 1
    /\ last_token.gap \in 0 .. GAP_DORMANT

Whole(i) == tokens[i].event \notin touched
Alone(i) == Whole(i) /\ tokens[i].event \notin nested
Learnt(i) ==
    \/ tokens[i] = prev_token
    \/ \E pair \in learnt : tokens[i] \in {pair[1], pair[2]}
Elapsed(i) == tokens[i].at - tokens[i - 1].at

(* Interruptions disturb only what they interrupt: between probes, each    *)
(* event whose probe was not interrupted itself has been learnt, and after *)
(* the event before it when that one was not interrupted either, though    *)
(* the learner looks at the token through a pointer to a variable that     *)
(* other probes overwrite.                                                 *)
WholeEventsLearnt ==
    stack = << >> =>
        \A i \in DOMAIN tokens : Whole(i) =>
            /\ Learnt(i)
            /\ i > 1 /\ Whole(i - 1) => <<tokens[i - 1], tokens[i]>> \in learnt

(* The gap class of an event is that of the time since the event before it *)
(* if both were stamped by the same clock, the earlier had the processor   *)
(* to itself and the later was not interrupted.                            *)
GapsHonest ==
    \A i \in 2 .. Len(tokens) :
        /\ Alone(i - 1) /\ Whole(i)
        /\ (tokens[i - 1].category = "io") = (tokens[i].category = "io")
        => tokens[i].gap = quantize_gap_ns(Elapsed(i))

(* "learn from EVERY event" (docs/KERNEL_AS_LANGUAGE_PLAN.md:222): between *)
(* probes, every token is part of a pair that was learnt, or is the one the *)
(* next pair will begin with. Violated: a probe that is interrupted after  *)
(* it stored its token processes the token of the interrupting one, a      *)
(* second time, and its own is never learnt.                               *)
EveryEventLearnt ==
    stack = << >> => \A i \in DOMAIN tokens : Learnt(i)

==============================================================================
