------------------------------ MODULE Playback ------------------------------
(***************************************************************************)
(* Trace playback in the server: gateway.rs (command handlers and playback *)
(* loops), trace_replayer.rs (position, play/pause, batches) and the       *)
(* rebuild half of world_model.rs.                                         *)
(*                                                                         *)
(* Everything shared sits behind one tokio mutex, which serves its waiters *)
(* in order. A client connection handles one command at a time; every Play *)
(* spawns one more playback loop. A loop takes the mutex three times per   *)
(* round - to check `playing`, to fetch a batch and to apply it - and      *)
(* next_batch() keeps it while it waits for play() and while it sleeps.    *)
(*                                                                         *)
(* An event is its index in the trace; the world model is the sequence of  *)
(* events process_event() was called with since its last reset. The loops  *)
(* that rebroadcast the world every 500 ms change none of this and are     *)
(* left out.                                                               *)
(***************************************************************************)
EXTENDS Integers, Sequences, FiniteSets, SequencesExt, Filtering

CONSTANTS
    Clients,     \* connections that send commands
    Loops,       \* identities of playback loops
    Ts,          \* timestamps of the loaded trace, in order
    Window,      \* BATCH_WINDOW_NS
    Filters,     \* event sets the clients' filters let through
    Setups,      \* the bounds of a run: how many loops are alive at a time,
                 \* the kinds of command sent and how many of them
    NoCommand    \* a client whose last command is done

Ops == {"load", "play", "pause", "seek", "speed", "filter"}

ASSUME PlaybackAssumption ==
    /\ IsFiniteSet(Clients) /\ IsFiniteSet(Loops)
    /\ Ts \in Seq(Nat) /\ Ts # << >>
    /\ \A i, j \in DOMAIN Ts : i <= j => Ts[i] <= Ts[j]
    /\ Window \in Nat
    /\ \A s \in Setups : /\ s.room \in 1 .. Cardinality(Loops)
                         /\ s.ops \subseteq Ops
                         /\ s.max \in Nat
    /\ Filters \subseteq SUBSET DOMAIN Ts

VARIABLES
    queue,      \* tasks waiting for the gateway mutex; its head holds it
    cmd,        \* the command each client has in hand
    setup,      \* the bounds of this behaviour, one of Setups
    sent,       \* commands sent so far
    loaded,     \* a replayer exists
    playing,    \* replayer.playing
    pos,        \* index of the next event, replayer.position + 1
    filter,     \* events that pass the filters
    playPermit, \* play_notify holds a permit
    seekPermit, \* seek_notify holds a permit
    world,      \* events applied to the world model since its reset
    pc,         \* where each playback loop is
    batch,      \* the batch each loop has collected
    base,       \* history: what the last seek or load left: next event,
                \* rebuilt events, stale and skipped events since
    stale,      \* history: loops whose batch predates that seek or load
    late        \* history: batches fetched while paused since the last Play

replayer == <<loaded, playing, pos, filter, playPermit, seekPermit>>
history == <<base, stale, late>>
vars == <<queue, cmd, setup, sent, replayer, world, pc, batch, history>>

N == Len(Ts)
Everything == DOMAIN Ts
Prefix(k) == [i \in 1 .. k |-> i]

Holds(t) == queue # << >> /\ Head(queue) = t
Release == queue' = Tail(queue)

------------------------------------------------------------------------------
(* handle_command: parse, take the mutex, act, release. *)

Commands ==
    {[op |-> o] : o \in Ops \ {"seek", "filter"}}
    \cup [op : {"seek"}, to : {Ts[i] : i \in 1 .. N}]
    \cup [op : {"filter"}, pass : Filters]

HasInHand(c, op) == cmd[c] # NoCommand /\ cmd[c].op = op

(* The connection's reader takes the next message and queues for the mutex.*)
Send(c, m) ==
    /\ cmd[c] = NoCommand
    /\ sent < setup.max
    /\ m.op \in setup.ops
    /\ m.op = "play" =>
          Cardinality({l \in Loops : pc[l] # "off"})
              + Cardinality({d \in Clients : HasInHand(d, "play")})
              < setup.room
    /\ sent' = sent + 1
    /\ cmd' = [cmd EXCEPT ![c] = m]
    /\ queue' = Append(queue, c)
    /\ UNCHANGED <<replayer, world, pc, batch, history>>

Handles(c, op) ==
    /\ Holds(c)
    /\ HasInHand(c, op)
    /\ cmd' = [cmd EXCEPT ![c] = NoCommand]
    /\ Release
    /\ UNCHANGED sent

(* Mutation: the world is rebuilt without a reset.                         *)
RepositionOnTop(next, rebuilt) ==
    /\ pos' = next
    /\ world' = world \o Prefix(rebuilt)
    /\ base' = [next |-> next, rebuilt |-> rebuilt, stale |-> << >>,
                skipped |-> {}]
    /\ stale' = {l \in Loops : batch[l] # << >>}

(* What a seek or a load means for the bookkeeping of events.              *)
Reposition(next, rebuilt) ==
    /\ pos' = next
    /\ world' = Prefix(rebuilt)
    /\ base' = [next |-> next, rebuilt |-> rebuilt, stale |-> << >>,
                skipped |-> {}]
    /\ stale' = {l \in Loops : batch[l] # << >>}

(* A new replayer: paused, at the start, unfiltered, fresh notifiers. The  *)
(* handler resets the world load_trace() filled.                           *)
Load(c) ==
    /\ Handles(c, "load")
    /\ \/ /\ loaded' = TRUE
          /\ playing' = FALSE
          /\ filter' = Everything
          /\ playPermit' = FALSE
          /\ seekPermit' = FALSE
          /\ Reposition(1, 0)
          /\ late' = 0
       \/ UNCHANGED <<replayer, world, history>>  \* no such file
    /\ UNCHANGED <<pc, batch>>

(* Without a replayer a command only takes and releases the mutex.         *)
Ignore(c) ==
    /\ ~loaded
    /\ \E o \in Ops \ {"load"} : Handles(c, o)
    /\ UNCHANGED <<replayer, world, pc, batch, history>>

(* Mutation: play starts over.                                             *)
PlayRestarts(c) ==
    /\ loaded
    /\ Handles(c, "play")
    /\ playing' = TRUE
    /\ playPermit' = TRUE
    /\ pos' = 1
    /\ \E l \in Loops :
           /\ pc[l] = "off"
           /\ pc' = [pc EXCEPT ![l] = "check"]
    /\ late' = 0
    /\ UNCHANGED <<loaded, filter, seekPermit, world, batch, base, stale>>

Play(c) ==
    /\ loaded
    /\ Handles(c, "play")
    /\ playing' = TRUE
    /\ playPermit' = TRUE
    /\ \E l \in Loops :
           /\ pc[l] = "off"
           /\ pc' = [pc EXCEPT ![l] = "check"]
    /\ late' = 0
    /\ UNCHANGED <<loaded, pos, filter, seekPermit, world, batch, base, stale>>

Pause(c) ==
    /\ loaded
    /\ Handles(c, "pause")
    /\ playing' = FALSE
    /\ UNCHANGED <<loaded, pos, filter, playPermit, seekPermit, world, pc,
                   batch, history>>

(* Events strictly before the target lie behind the new position; the      *)
(* world is rebuilt from those up to and including the target.             *)
Seek(c) ==
    LET target == cmd[c].to
    IN  /\ loaded
        /\ Handles(c, "seek")
        /\ Reposition(Cardinality({i \in 1 .. N : Ts[i] < target}) + 1,
                      Cardinality({i \in 1 .. N : Ts[i] <= target}))
        /\ seekPermit' = TRUE
        /\ UNCHANGED <<loaded, playing, filter, playPermit, pc, batch, late>>

(* The speed scales delays, which this model does not measure.             *)
Speed(c) ==
    /\ loaded
    /\ Handles(c, "speed")
    /\ UNCHANGED <<replayer, world, pc, batch, history>>

SetFilter(c) ==
    /\ loaded
    /\ Handles(c, "filter")
    /\ filter' = cmd[c].pass
    /\ UNCHANGED <<loaded, playing, pos, playPermit, seekPermit, world, pc,
                   batch, history>>

Handle(c) ==
    \/ Load(c) \/ Ignore(c) \/ Play(c) \/ Pause(c)
    \/ Seek(c) \/ Speed(c) \/ SetFilter(c)

------------------------------------------------------------------------------
(* One playback loop. *)

Request(l) ==
    /\ pc[l] \in {"check", "batch", "apply", "finish"}
    /\ ~Contains(queue, l)
    /\ queue' = Append(queue, l)
    /\ UNCHANGED <<cmd, sent, replayer, world, pc, batch, history>>

(* Mutation: a loop does not look at `playing`.                            *)
CheckLoadedOnly(l) ==
    /\ pc[l] = "check"
    /\ Holds(l)
    /\ Release
    /\ pc' = [pc EXCEPT ![l] = IF loaded THEN "batch" ELSE "off"]
    /\ UNCHANGED <<cmd, sent, replayer, world, batch, history>>

Check(l) ==
    /\ pc[l] = "check"
    /\ Holds(l)
    /\ Release
    /\ pc' = [pc EXCEPT ![l] = IF loaded /\ playing THEN "batch" ELSE "off"]
    /\ UNCHANGED <<cmd, sent, replayer, world, batch, history>>

(* next_batch() at the end of the trace returns None.                      *)
Exhausted(l) ==
    /\ pc[l] = "batch"
    /\ Holds(l)
    /\ pos > N
    /\ Release
    /\ pc' = [pc EXCEPT ![l] = "finish"]
    /\ UNCHANGED <<cmd, sent, replayer, world, batch, history>>

(* The events within Window of the next one.                               *)
BatchEnd == CHOOSE j \in pos .. N :
                /\ Ts[j] - Ts[pos] <= Window
                /\ j < N => Ts[j + 1] - Ts[pos] > Window

MustWait == BatchEnd < N /\ Ts[BatchEnd + 1] - Ts[pos] > Window

(* Mutation: a pause holds nothing back.                                   *)
MayFetchAlways == TRUE

(* A paused replayer waits for a permit of play_notify.                    *)
MayFetch == playing \/ playPermit

(* A batch is returned at once, or after a delay, or - when the filter     *)
(* left nothing of it - the next one is collected.                         *)
Deliver(l, kept) ==
    \/ MustWait /\ pc' = [pc EXCEPT ![l] = "sleep"] /\ UNCHANGED queue
    \/ kept # << >> /\ pc' = [pc EXCEPT ![l] = "apply"] /\ Release
    \/ kept = << >> /\ UNCHANGED <<pc, queue>>

(* The mutex is held all the while, waits included.                        *)
Collect(l) ==
    /\ pc[l] = "batch"
    /\ Holds(l)
    /\ pos <= N
    /\ MayFetch
    /\ playPermit' = (playing /\ playPermit)
    /\ LET range == SubSeq(Prefix(N), pos, BatchEnd)
           kept == Passing(range, filter)
       IN  /\ batch' = [batch EXCEPT ![l] = kept]
           /\ base' = [base EXCEPT !.skipped = @ \cup (ToSet(range) \ filter)]
           /\ stale' = stale \ {l}
           /\ Deliver(l, kept)
    /\ pos' = BatchEnd + 1
    /\ late' = IF playing THEN late ELSE late + 1
    /\ UNCHANGED <<cmd, sent, loaded, playing, filter, seekPermit, world>>

(* The sleep ends when its time is over or when seek_notify has a permit.  *)
Awake(l) ==
    /\ pc[l] = "sleep"
    /\ IF batch[l] = << >>
       THEN pc' = [pc EXCEPT ![l] = "batch"] /\ UNCHANGED queue
       ELSE pc' = [pc EXCEPT ![l] = "apply"] /\ Release
    /\ UNCHANGED <<cmd, sent, loaded, playing, pos, filter, playPermit, world,
                   batch, history>>

TimerFires(l) == Awake(l) /\ UNCHANGED seekPermit
SeekWakes(l) == seekPermit /\ Awake(l) /\ seekPermit' = FALSE

(* process_events and the broadcast of the batch.                          *)
Apply(l) ==
    /\ pc[l] = "apply"
    /\ Holds(l)
    /\ Release
    /\ world' = world \o batch[l]
    /\ base' = IF l \in stale THEN [base EXCEPT !.stale = @ \o batch[l]]
               ELSE base
    /\ stale' = stale \ {l}
    /\ batch' = [batch EXCEPT ![l] = << >>]
    /\ pc' = [pc EXCEPT ![l] = "check"]
    /\ UNCHANGED <<cmd, sent, replayer, late>>

Finish(l) ==
    /\ pc[l] = "finish"
    /\ Holds(l)
    /\ Release
    /\ playing' = FALSE
    /\ pc' = [pc EXCEPT ![l] = "off"]
    /\ UNCHANGED <<cmd, sent, loaded, pos, filter, playPermit, seekPermit,
                   world, batch, history>>

LoopStep(l) ==
    \/ Request(l) \/ Check(l) \/ Exhausted(l) \/ Collect(l)
    \/ TimerFires(l) \/ SeekWakes(l) \/ Apply(l) \/ Finish(l)

------------------------------------------------------------------------------
(* main.rs loads the sample trace if it is there; load_trace() runs all of *)
(* it through the world model, and nothing resets that.                    *)
Init ==
    /\ queue = << >>
    /\ cmd = [c \in Clients |-> NoCommand]
    /\ setup \in Setups
    /\ sent = 0
    /\ loaded \in BOOLEAN
    /\ playing = FALSE
    /\ pos = 1
    /\ filter = Everything
    /\ playPermit = FALSE
    /\ seekPermit = FALSE
    /\ world = IF loaded THEN Prefix(N) ELSE << >>
    /\ pc = [l \in Loops |-> "off"]
    /\ batch = [l \in Loops |-> << >>]
    /\ base = [next |-> 1, rebuilt |-> Len(world), stale |-> << >>,
               skipped |-> {}]
    /\ stale = {}
    /\ late = 0

Next ==
    /\ UNCHANGED setup
    /\ \/ \E c \in Clients, m \in Commands : Send(c, m)
       \/ \E c \in Clients : Handle(c)
       \/ \E l \in Loops : LoopStep(l)

Spec == Init /\ [][Next]_vars

(* The runtime polls every ready task, and timers fire. Whether a seek     *)
(* permit or the timer ends a sleep does not matter here.                  *)
Fairness ==
    /\ \A c \in Clients : WF_vars(Handle(c) /\ UNCHANGED setup)
    /\ \A l \in Loops : WF_vars(LoopStep(l) /\ UNCHANGED setup)

FairSpec == Spec /\ Fairness

------------------------------------------------------------------------------
InFlight(e) == \E l \in Loops \ stale : Contains(batch[l], e)

Count(s, e) == Cardinality({i \in DOMAIN s : s[i] = e})

(* However many loops run, and wherever seeks, loads and filters fall      *)
(* between fetching and applying a batch, every event the position has     *)
(* passed since the last seek or load is accounted for exactly once: in    *)
(* the world, in the hands of one loop, or skipped by a filter. What else  *)
(* is in the world was rebuilt there, or comes from a batch fetched before.*)
EventsAccounted ==
    \A e \in Everything :
        Count(world, e) =
            (IF e <= base.rebuilt THEN 1 ELSE 0)
            + Count(base.stale, e)
            + (IF /\ base.next <= e /\ e < pos
                  /\ e \notin base.skipped /\ ~InFlight(e)
               THEN 1 ELSE 0)

(* After a Pause at most one more batch is fetched until the next Play,    *)
(* however many loops are still running: the permit the Play left behind   *)
(* lets one through, and the next loop blocks.                             *)
OneLateBatch == late <= 1

(* Every command a client sends is carried out in the end.                 *)
CommandsServed ==
    \A c \in Clients : cmd[c] # NoCommand ~> cmd[c] = NoCommand

(* One loop alive at a time, and no trace loaded under it.                 *)
Alone == setup.room = 1 /\ "load" \notin setup.ops

(* As long as one loop runs at a time, the mutex it keeps while it sleeps  *)
(* and waits never stops a command for good. (With two loops, or a load    *)
(* between a loop's check and its fetch, it can: CommandsServed fails.)    *)
ServedWhenAlone == Alone => CommandsServed

(* With one loop alive the events played after a seek arrive in trace      *)
(* order, after what a batch fetched before the seek may still add: what a *)
(* viewer sees is never rearranged. (With two loops it can be.)            *)
InOrder ==
    Alone =>
    \A i, j \in base.rebuilt + Len(base.stale) + 1 .. Len(world) :
        i < j => world[i] < world[j]
==============================================================================
