------------------------------- MODULE Gateway -------------------------------
(***************************************************************************)
(* Connections to the server (handle_ws in gateway.rs): the first state a  *)
(* client is sent, its subscription to the broadcast channel, the tasks    *)
(* that carry messages to it and read its commands, and what the command   *)
(* handlers, the playback loop and its 500 ms ticker broadcast.            *)
(*                                                                         *)
(* A handler keeps the gateway mutex without awaiting anything and is one  *)
(* step. Two things keep it across an await and are modelled by `lock`: a  *)
(* connection being sent its first state, and next_batch(), asleep. How    *)
(* waiters queue for the mutex and what several loops do to each other is  *)
(* the subject of Playback; here one loop is alive at a time.              *)
(***************************************************************************)
EXTENDS World

CONSTANTS
    Clients,     \* browsers
    Watched,     \* those whose messages the model follows
    Files,       \* contents of the trace files, sequences of lines
    Window,      \* BATCH_WINDOW_NS
    Cap,         \* capacity of the broadcast channel, 256 in the code
    MailCap,     \* capacity of a client's mpsc channel, 64 in the code
    MaxCommands, \* bound on the number of commands handled
    MaxConnects, \* bound on the number of connections made
    NoOne        \* nobody keeps the mutex

(* What the constants are; the modules that give them values assume it.    *)
GatewayAssumption ==
    /\ Watched \subseteq Clients
    /\ Cap \in Nat \ {0} /\ MailCap \in Nat \ {0}
    /\ Window \in Nat /\ MaxCommands \in Nat /\ MaxConnects \in Nat

VARIABLES
    lock,      \* who keeps the mutex across an await
    events,    \* GatewayState.events, the loaded trace
    loaded,    \* a replayer exists
    playing,   \* replayer.playing
    pos,       \* replayer.position + 1
    world,     \* the world model
    loop,      \* where the playback loop is
    batch,     \* the batch next_batch() returned to it
    ticker,    \* the loop that broadcasts snapshots is running
    conn,      \* how far each connection has got
    backlog,   \* broadcasts the client's receiver has yet to take
    lagged,    \* the channel has overwritten some of them
    mailbox,   \* the mpsc channel; one message past MailCap is the one the
               \* forwarder holds while it waits for room
    view,      \* the last state a client was sent, with the events since
               \* applied to it; fresh: it was broadcast, not the first one
    handled,   \* commands handled so far
    connects   \* connections made so far

player == <<events, loaded, playing, pos, world>>
playback == <<loop, batch, ticker>>
delivery == <<backlog, lagged, mailbox>>
vars == <<lock, player, playback, conn, delivery, view, handled, connects>>

N == Len(events)

Status ==
    IF pos > N THEN "stopped" ELSE IF playing THEN "playing" ELSE "paused"

(* A snapshot and the playback status sent right behind it are one message *)
(* here: both are sent under one hold of the mutex.                        *)
WorldMsg(w) == [msg |-> "world_state", world |-> w, status |-> Status]
EventsMsg(es) == [msg |-> "events", batch |-> es]
NoView == [world |-> EmptyWorld, fresh |-> FALSE, status |-> "unknown"]

PlaybackMsg == [msg |-> "playback", status |-> Status]

------------------------------------------------------------------------------
(* The broadcast channel keeps Cap messages for each receiver. One that    *)
(* falls further behind gets an error, which is all the code looks at: the *)
(* messages kept for it are never taken.                                   *)

Subscribed(c) == c \in Watched /\ conn[c] = "open"

Overrun(c) == Len(backlog[c]) = Cap

(* Mutation: a full channel makes the sender wait.                         *)
BroadcastWaits(m) ==
    /\ \A c \in Clients : Subscribed(c) => ~Overrun(c)
    /\ backlog' = [c \in Clients |->
                      IF Subscribed(c) THEN Append(backlog[c], m) ELSE << >>]
    /\ UNCHANGED <<lagged, mailbox>>

Broadcast(m) ==
    /\ lagged' = [c \in Clients |->
                     Subscribed(c) /\ (lagged[c] \/ Overrun(c))]
    /\ backlog' = [c \in Clients |->
                      IF Subscribed(c) /\ ~lagged'[c]
                      THEN Append(backlog[c], m) ELSE << >>]
    /\ UNCHANGED mailbox

Snapshot == Broadcast(WorldMsg(world)')

------------------------------------------------------------------------------
(* handle_ws *)

(* The first state is sent with the mutex held.                            *)
Greet(c) ==
    /\ conn[c] = "off" /\ connects < MaxConnects
    /\ lock = NoOne
    /\ lock' = c
    /\ connects' = connects + 1
    /\ conn' = [conn EXCEPT ![c] = "greeting"]
    /\ UNCHANGED <<player, playback, delivery, view, handled>>

Greeted(c) ==
    /\ conn[c] = "greeting"
    /\ view' = [view EXCEPT ![c] =
                   [world |-> world, fresh |-> FALSE, status |-> "unknown"]]
    /\ lock' = NoOne
    /\ conn' = [conn EXCEPT ![c] = "greeted"]
    /\ UNCHANGED <<player, playback, delivery, handled, connects>>

(* The mutex is taken a second time to subscribe.                          *)
Subscribe(c) ==
    /\ conn[c] = "greeted"
    /\ lock = NoOne
    /\ conn' = [conn EXCEPT ![c] = "open"]
    /\ UNCHANGED <<lock, player, playback, delivery, view, handled, connects>>

HasRoom(c) == Len(mailbox[c]) <= MailCap

Forward(c) ==
    /\ conn[c] = "open" /\ ~lagged[c]
    /\ backlog[c] # << >> /\ HasRoom(c)
    /\ mailbox' = [mailbox EXCEPT ![c] = Append(@, Head(backlog[c]))]
    /\ backlog' = [backlog EXCEPT ![c] = Tail(@)]
    /\ UNCHANGED <<lock, player, playback, conn, lagged, view, handled, connects>>

(* Mutation: the forwarder goes on with the messages that are left.        *)
NoticeLagNot(c) ==
    /\ conn[c] = "open" /\ lagged[c] /\ HasRoom(c)
    /\ lagged' = [lagged EXCEPT ![c] = FALSE]
    /\ UNCHANGED <<lock, player, playback, conn, backlog, mailbox, view, handled, connects>>

(* recv() is an error, the forwarder ends and drops its two channels.      *)
NoticeLag(c) ==
    /\ conn[c] = "open" /\ lagged[c] /\ HasRoom(c)
    /\ lagged' = [lagged EXCEPT ![c] = FALSE]
    /\ conn' = [conn EXCEPT ![c] = "draining"]
    /\ UNCHANGED <<lock, player, playback, backlog, mailbox, view, handled, connects>>

(* What a message makes of a client's view.                                *)
Show(v, m) ==
    IF m.msg = "world_state"
    THEN [world |-> m.world, fresh |-> TRUE, status |-> m.status]
    ELSE IF m.msg = "events"
         THEN [v EXCEPT !.world = ProcessEvents(@, m.batch)]
         ELSE [v EXCEPT !.status = m.status]

(* The write task sends a message and the client takes it.                 *)
Read(c) ==
    /\ conn[c] \in {"open", "draining"}
    /\ mailbox[c] # << >>
    /\ view' = [view EXCEPT ![c] = Show(@, Head(mailbox[c]))]
    /\ mailbox' = [mailbox EXCEPT ![c] = Tail(@)]
    /\ UNCHANGED <<lock, player, playback, conn, backlog, lagged, handled, connects>>

(* The write task ends and handle_ws returns; the read task is detached and*)
(* goes on serving commands of a client that is told nothing any more.     *)
Cut(c) ==
    /\ conn[c] = "draining" /\ mailbox[c] = << >>
    /\ conn' = [conn EXCEPT ![c] = "cut"]
    /\ UNCHANGED <<lock, player, playback, delivery, view, handled, connects>>

(* The client goes away, and may come back as a new connection.            *)
Close(c) ==
    /\ conn[c] # "off"
    /\ conn' = [conn EXCEPT ![c] = "off"]
    /\ backlog' = [backlog EXCEPT ![c] = << >>]
    /\ lagged' = [lagged EXCEPT ![c] = FALSE]
    /\ mailbox' = [mailbox EXCEPT ![c] = << >>]
    /\ lock' = IF lock = c THEN NoOne ELSE lock
    /\ view' = [view EXCEPT ![c] = NoView]
    /\ UNCHANGED <<player, playback, handled, connects>>

Connection(c) ==
    \/ Greet(c) \/ Greeted(c) \/ Subscribe(c) \/ Forward(c) \/ NoticeLag(c)
    \/ Read(c) \/ Cut(c) \/ Close(c)

------------------------------------------------------------------------------
(* handle_command *)

Handles(c) ==
    /\ conn[c] \in {"open", "draining", "cut"}
    /\ lock = NoOne
    /\ handled < MaxCommands
    /\ handled' = handled + 1
    /\ UNCHANGED <<lock, conn, view, connects>>

(* A new replayer, and a world reset after load_trace() has filled it.     *)
Load(c, f) ==
    /\ Handles(c)
    /\ ~Broken(f)
    /\ events' = LoadTrace(f)
    /\ world' = EmptyWorld
    /\ loaded' = TRUE /\ playing' = FALSE /\ pos' = 1
    /\ Snapshot
    /\ UNCHANGED playback

Play(c) ==
    /\ Handles(c) /\ loaded /\ loop = "off"
    /\ playing' = TRUE
    /\ loop' = "on"
    /\ ticker' = TRUE
    /\ UNCHANGED <<events, loaded, pos, world, batch>>
    /\ Broadcast(PlaybackMsg')

Pause(c) ==
    /\ Handles(c) /\ loaded
    /\ playing' = FALSE
    /\ UNCHANGED <<events, loaded, pos, world, playback>>
    /\ Broadcast(PlaybackMsg')

(* A new speed changes nothing here, but is announced.                     *)
Speed(c) ==
    /\ Handles(c) /\ loaded
    /\ UNCHANGED <<player, playback>>
    /\ Broadcast(PlaybackMsg)

Seek(c, ts) ==
    /\ Handles(c) /\ loaded
    /\ pos' = Cardinality({i \in 1 .. N : events[i].ts < ts}) + 1
    /\ world' = RebuildTo(events, ts)
    /\ UNCHANGED <<events, loaded, playing, playback>>
    /\ Snapshot

Command(c) ==
    \/ \E f \in Files : Load(c, f)
    \/ Play(c)
    \/ Pause(c) \/ Speed(c)
    \/ \E i \in 1 .. N : Seek(c, events[i].ts)

------------------------------------------------------------------------------
(* start_playback *)

(* One round: the check of `playing` and the fetch of a batch.             *)
Round ==
    /\ loop = "on" /\ lock = NoOne
    /\ \/ /\ ~playing
          /\ loop' = "off" /\ ticker' = FALSE
          /\ UNCHANGED <<lock, pos, batch>>
       \/ /\ playing /\ pos > N
          /\ loop' = "finish"
          /\ UNCHANGED <<lock, pos, batch, ticker>>
       \/ /\ playing /\ pos <= N
          /\ LET near == {i \in pos .. N : events[i].ts <= events[pos].ts + Window}
                 end == pos + Cardinality(near)
             IN  /\ pos' = end
                 /\ batch' = SubSeq(events, pos, end - 1)
                 /\ \/ end > N /\ loop' = "apply" /\ UNCHANGED lock
                    \/ end <= N /\ loop' = "asleep" /\ lock' = "loop"
          /\ UNCHANGED ticker
    /\ UNCHANGED <<events, loaded, playing, world, conn, delivery, view, handled, connects>>

(* next_batch() returns when its sleep is over and releases the mutex.     *)
Wake ==
    /\ loop = "asleep"
    /\ loop' = "apply"
    /\ lock' = NoOne
    /\ UNCHANGED <<player, batch, ticker, conn, delivery, view, handled, connects>>

Apply ==
    /\ loop = "apply" /\ lock = NoOne
    /\ world' = ProcessEvents(world, batch)
    /\ loop' = "on"
    /\ batch' = << >>
    /\ Broadcast(EventsMsg(batch))
    /\ UNCHANGED <<lock, events, loaded, playing, pos, ticker, conn, view, handled, connects>>

(* Mutation: the end of playback is not announced.                         *)
FinishSilently ==
    /\ loop = "finish" /\ lock = NoOne
    /\ playing' = FALSE
    /\ loop' = "off" /\ ticker' = FALSE
    /\ UNCHANGED <<lock, events, loaded, pos, world, batch, conn, delivery, view, handled, connects>>

Finish ==
    /\ loop = "finish" /\ lock = NoOne
    /\ playing' = FALSE
    /\ loop' = "off" /\ ticker' = FALSE
    /\ UNCHANGED <<lock, events, loaded, pos, world, batch, conn, view, handled, connects>>
    /\ Broadcast(PlaybackMsg')

(* Every 500 ms, for as long as playback goes on.                          *)
Tick ==
    /\ ticker /\ lock = NoOne
    /\ ticker' = playing
    /\ UNCHANGED <<lock, player, loop, batch, conn, view, handled, connects>>
    /\ IF playing THEN Broadcast(WorldMsg(world)) ELSE UNCHANGED delivery

LoopStep == Round \/ Wake \/ Apply \/ Finish

------------------------------------------------------------------------------
(* main.rs loads the default trace, if it can.                             *)
Init ==
    /\ lock = NoOne
    /\ \E f \in Files :
           /\ loaded \in {FALSE, ~Broken(f)}
           /\ events = IF loaded THEN LoadTrace(f) ELSE << >>
    /\ playing = FALSE
    /\ pos = 1
    /\ world = ProcessEvents(EmptyWorld, events)
    /\ loop = "off" /\ batch = << >> /\ ticker = FALSE
    /\ conn = [c \in Clients |-> "off"]
    /\ backlog = [c \in Clients |-> << >>]
    /\ lagged = [c \in Clients |-> FALSE]
    /\ mailbox = [c \in Clients |-> << >>]
    /\ view = [c \in Clients |-> NoView]
    /\ handled = 0 /\ connects = 0

Next ==
    \/ \E c \in Clients : Connection(c) \/ Command(c)
    \/ LoopStep
    \/ Tick

Spec == Init /\ [][Next]_vars

(* The runtime runs every ready task, and the bounds leave the mutex free  *)
(* in the end. A client takes the first state it is sent; nothing says     *)
(* that it ever reads on.                                                  *)
Fairness ==
    /\ WF_vars(LoopStep) /\ WF_vars(Tick)
    /\ \A c \in Clients : WF_vars(Greeted(c))

FairSpec == Spec /\ Fairness

------------------------------------------------------------------------------
Listening(c) == Subscribed(c) /\ ~lagged[c]

(* What messages make of a view, one after the other.                      *)
Shown(v, ms) ==
    LET V[k \in 0 .. Len(ms)] == IF k = 0 THEN v ELSE Show(V[k - 1], ms[k])
    IN  V[Len(ms)]

(* What a client will show once all that is under way has arrived.         *)
Final(c) == Shown(view[c], mailbox[c] \o backlog[c])

(* A client that keeps up is never led astray: once a snapshot is on its   *)
(* way to it, that snapshot and the events behind it give the server's     *)
(* world, whatever was sought, loaded or played since. (The state sent on  *)
(* connecting is not part of this: what changes before the subscription is *)
(* lost on the client.)                                                    *)
InStep == \A c \in Watched :
    Listening(c) /\ Final(c).fresh => Final(c).world = world

(* When no playback loop is left, no client that keeps up goes on showing  *)
(* a playback under way.                                                   *)
ControlsSettle == \A c \in Watched :
    Listening(c) /\ loop = "off" => Final(c).status # "playing"

(* Connections and parents name processes that are there.                  *)
Closed(w) ==
    /\ \A i \in DOMAIN w.conns : ToSet(w.conns[i]) \subseteq DOMAIN w.procs
    /\ \A p \in DOMAIN w.procs : w.procs[p].parent \in DOMAIN w.procs \cup {NoPid}

Arranged(f) ==
    LET Before(i, j) == \/ f[i].event.ts < f[j].event.ts
                        \/ f[i].event.ts = f[j].event.ts /\ i < j
        place == SetToSortSeq({i \in DOMAIN f : Valid(f[i])}, Before)
    IN  [k \in DOMAIN place |-> f[place[k]].event]

(* A loaded trace has every valid line of its file exactly once, ordered   *)
(* by time and, among equal times, as in the file: seeking searches it by  *)
(* halves, and a fork precedes what its child does in the same instant, so *)
(* that worlds are closed, and what every client has been shown of them.   *)
TraceFaithful ==
    /\ \A c \in Clients : Closed(world) /\ Closed(view[c].world)
    /\ loaded => \E f \in Files : ~Broken(f) /\ events = Arranged(f)

(* Clients that have stopped reading do not hold up playback: it comes to  *)
(* its end, and its ticker with it.                                        *)
SlowClientsHarmless == loop # "off" \/ ticker ~> loop = "off" /\ ~ticker
==============================================================================
