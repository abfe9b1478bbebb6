------------------------------ MODULE MCAgentTools ------------------------------
(* The agent loop that talks to a server, and the kprobes of its tools.    *)
(* They share no state, so that one of them is active in each behaviour    *)
(* and the other is not in use.                                            *)
(*   kprobe  two agents and rmmod, two processors, three functions to      *)
(*           probe and two slots, so that the third attachment finds none  *)
(*   agent   one question and at most three turns, with texts that need    *)
(*           escaping, that call tools with and without a closing tag, and *)
(*           that run over every bound                                     *)
EXTENDS Kprobe

CONSTANTS u1, u2, r, c1, c2, f, g, h

VARIABLES
    active, \* the component that moves
    pc, prompt, model, iteration, messages, lastPair, answer, task, request,
    sent, wire, raw, reply, turns, received, said, cut

Remote == INSTANCE Agent WITH
    Prompts <- {<<"newline">>, <<"why", "\"", "newline">>},
    Says <- {<<"so", "\\", "newline">>,
             <<"ctl", "<tool>", "space", "ps", "</tool>">>,
             <<"<tool>", "dmesg", "space", "1", "newline", "more">>,
             <<"<tool>", "ro", "ot", "</tool>">>},
    Formats <- {"text:'"}, Names <- {<<"llama", "\\", "\"">>},
    Prints <- {<<>>, <<"a", "newline", "b", "newline", "c">>},
    Tools <- {<<"ps">>, <<"dmesg">>}, Iterations <- 3, Budget <- 52,
    MaxToolOutput <- 4, MaxResponse <- 10, RecvBuf <- 4, NameMax <- 3

ASSUME AgentIsAssumption == Remote!AgentAssumption

ofRemote == <<pc, prompt, model, iteration, messages, lastPair, answer, task,
              request, sent, wire, raw, reply, turns, received, said, cut>>

None == "none"
NoRemote ==
    /\ pc = None /\ prompt = None /\ model = None /\ iteration = None
    /\ messages = None /\ lastPair = None /\ answer = None /\ task = None
    /\ request = None /\ sent = None /\ wire = None /\ raw = None
    /\ reply = None /\ turns = None /\ received = None /\ said = None
    /\ cut = None

MCInit ==
    /\ Init
    /\ \/ active = "kprobe" /\ NoRemote
       \/ active = "agent" /\ Remote!Init

MCNext ==
    \/ active = "kprobe" /\ Next /\ UNCHANGED <<active, ofRemote>>
    \/ active = "agent" /\ Remote!Next /\ UNCHANGED <<active, vars>>

MCSpec == MCInit /\ [][MCNext]_<<active, vars, ofRemote>>

(* The server can read every request that was sent completely, as the      *)
(* conversation with its latest tool calls.                                *)
RequestDecodes == active = "agent" => Remote!RequestDecodes

(* An answer that arrives complete is understood as what the server said.  *)
ReplyWhole == active = "agent" => Remote!ReplyWhole
==============================================================================
