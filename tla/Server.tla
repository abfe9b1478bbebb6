-------------------------------- MODULE Server --------------------------------
(***************************************************************************)
(* The two models of the server, gateway.rs, side by side. Playback has    *)
(* several playback loops and who waits for the mutex, with the world as a *)
(* sequence of events; Gateway has one loop, the world itself and those    *)
(* who watch it. They are models of the same state at two levels of detail *)
(* and not two parts of it, so that in each behaviour one of them is       *)
(* active and the other stays as it starts.                                *)
(***************************************************************************)
EXTENDS Playback

CONSTANTS Watched, Files, Cap, MailCap, MaxCommands, MaxConnects, NoOne

VARIABLES
    active, \* the model that moves
    lock, events, gate_loaded, gate_playing, gate_pos, gate_world, loop,
    gate_batch, ticker, conn, backlog, lagged, mailbox, view, handled, connects

Gate == INSTANCE Gateway WITH
    loaded <- gate_loaded, playing <- gate_playing, pos <- gate_pos,
    world <- gate_world, batch <- gate_batch

ASSUME GateAssumption == Gate!GatewayAssumption

ofGate == <<lock, events, gate_loaded, gate_playing, gate_pos, gate_world,
            loop, gate_batch, ticker, conn, backlog, lagged, mailbox, view,
            handled, connects>>
all == <<active, vars, ofGate>>

ServerInit ==
    /\ Init /\ Gate!Init
    /\ \/ active = "playback" /\ ~gate_loaded
       \/ active = "gateway" /\ ~loaded

ServerNext ==
    \/ active = "playback" /\ Next /\ UNCHANGED <<active, ofGate>>
    \/ active = "gateway" /\ Gate!Next /\ UNCHANGED <<active, vars>>

ServerSpec == ServerInit /\ [][ServerNext]_all

(* The fairness of Gateway: while it stays as it starts, it has nothing    *)
(* under way and this asks nothing of it.                                  *)
FairServer == ServerSpec /\ Gate!Fairness

------------------------------------------------------------------------------

(* A client that keeps up is never led astray: the last snapshot sent to   *)
(* it and the events sent since give the server's world.                   *)
InStep == Gate!InStep

(* Nor does it go on showing a playback that has ended.                    *)
ControlsSettle == Gate!ControlsSettle

(* A loaded trace is its file's valid lines, stably sorted, so that worlds *)
(* are closed, and what every client has been shown of them.               *)
TraceFaithful == Gate!TraceFaithful

(* Clients that have stopped reading do not hold up playback.              *)
SlowClientsHarmless == Gate!SlowClientsHarmless
==============================================================================
