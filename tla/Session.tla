------------------------------- MODULE Session -------------------------------
(***************************************************************************)
(* Questions to the agent: the character device (hackbot_device.rs), the   *)
(* two agent loops (hackbot_vllm.rs, hackbot_agent.rs), the agent's memory *)
(* and the patrol tick (hackbot_memory.rs).                                *)
(*                                                                         *)
(* Every write to the device and every patrol tick is a session. Writers   *)
(* share RESPONSE, guarded by its lock and the flag `busy`; all sessions   *)
(* share MODEL, whose lock a local session keeps for all of its turns, and *)
(* MEMORY. A text is abstracted to whether it is empty, an answer to that  *)
(* and to whether the model ended it itself. What the tools do is left to  *)
(* their own modules; reading the device copies RESPONSE under its lock.   *)
(***************************************************************************)
EXTENDS Integers, Sequences, Filtering

CONSTANTS
    Writer,      \* open files that are written to
    Patrol,      \* the patrol thread
    Nobody,      \* MODEL is not locked
    Modes,       \* the INFERENCE_MODEs the module may be built with
    VllmTurns,   \* MAX_AGENT_ITERATIONS
    LocalTurns,  \* LOCAL_MAX_ITERATIONS
    MemoryMax,   \* MEMORY_MAX_ENTRIES
    MaxSessions  \* bound on the number of sessions

ASSUME SessionAssumption ==
    /\ Patrol \notin Writer
    /\ Nobody \notin Writer \cup {Patrol}
    /\ Modes \subseteq {"auto", "local", "vllm"}
    /\ {VllmTurns, LocalTurns, MemoryMax} \subseteq Nat \ {0}
    /\ MaxSessions \in Nat

VARIABLES
    mode,      \* INFERENCE_MODE, which never changes
    busy,      \* RESPONSE.busy
    response,  \* the session whose text RESPONSE holds; 0: not ready
    model,     \* who holds the lock of MODEL
    loaded,    \* MODEL.loaded
    entries,   \* MEMORY.entries
    head,      \* MEMORY.head
    findings,  \* history: everything ever recorded
    pc,        \* where each session is
    turn,      \* iteration, from 1
    answer,    \* the answer each session has put together
    serial,    \* history: number of each actor's current session
    asked      \* history: sessions begun

memory == <<entries, head, findings>>
history == <<serial, asked>>
vars == <<mode, busy, response, model, loaded, memory, pc, turn, answer,
          history>>

Actors == Writer \cup {Patrol}
Slots == 0 .. MemoryMax - 1

(* An answer: is there any text, and did the model end it itself?          *)
Blank == [text |-> FALSE, final |-> FALSE]
Empty == [source |-> "none", by |-> 0]

Goto(s, from, to) == pc[s] = from /\ pc' = [pc EXCEPT ![s] = to]

(* Mutation: a full memory keeps its oldest entries.                       *)
RecordAtEnd(source, s) ==
    LET entry == [source |-> source, by |-> serial[s]]
    IN  /\ entries' = [entries EXCEPT ![head] = entry]
        /\ head' = IF head + 1 < MemoryMax THEN head + 1 ELSE head
        /\ findings' = Append(findings, entry)

(* record_finding                                                          *)
Record(source, s) ==
    LET entry == [source |-> source, by |-> serial[s]]
    IN  /\ entries' = [entries EXCEPT ![head] = entry]
        /\ head' = (head + 1) % MemoryMax
        /\ findings' = Append(findings, entry)

------------------------------------------------------------------------------
(* open() and write_iter() *)

(* The firmware may be missing or unusable; a later open tries again.      *)
Open ==
    /\ model = Nobody
    /\ loaded' \in {loaded, TRUE}
    /\ UNCHANGED <<busy, response, model, memory, pc, turn, answer, history, mode>>

Begin(s) ==
    /\ asked < MaxSessions
    /\ asked' = asked + 1
    /\ serial' = [serial EXCEPT ![s] = asked + 1]
    /\ answer' = [answer EXCEPT ![s] = Blank]
    /\ UNCHANGED <<response, model, loaded, memory, turn, mode>>

(* Mutation: `busy` is not looked at.                                      *)
WriteStartAnyway(w) ==
    /\ Goto(w, "idle", "copy")
    /\ busy' = TRUE
    /\ Begin(w)

(* Past the size limit; a busy device refuses with EBUSY.                  *)
WriteStart(w) ==
    /\ Goto(w, "idle", "copy")
    /\ ~busy
    /\ busy' = TRUE
    /\ Begin(w)

(* The prompt is copied in: nothing, a fault, a blank line or a question.  *)
CopyPrompt(w) ==
    /\ \/ Goto(w, "copy", "drop") /\ UNCHANGED answer
       \/ Goto(w, "copy", "publish")
             /\ answer' = [answer EXCEPT ![w].text = TRUE]
       \/ Goto(w, "copy", "dispatch") /\ UNCHANGED answer
    /\ UNCHANGED <<busy, response, model, loaded, memory, turn, history, mode>>

Publish(w) ==
    /\ Goto(w, "publish", "drop")
    /\ response' = serial[w]
    /\ UNCHANGED <<busy, model, loaded, memory, turn, answer, history, mode>>

(* BusyGuard: on every way out.                                            *)
DropGuard(w) ==
    /\ Goto(w, "drop", "idle")
    /\ busy' = FALSE
    /\ UNCHANGED <<response, model, loaded, memory, turn, answer, history, mode>>

------------------------------------------------------------------------------
(* agent_loop and agent_loop_local *)

InLoop(s) == UNCHANGED <<busy, response, loaded, history, mode>>

Dispatch(s) ==
    /\ mode = "auto" => model = Nobody
    /\ LET useLocal == mode = "local" \/ (mode = "auto" /\ loaded)
       IN  Goto(s, "dispatch", IF useLocal THEN "lock" ELSE "discover")
    /\ InLoop(s)
    /\ UNCHANGED <<model, memory, turn, answer>>

(* Without a model: ENODEV, or vLLM unless the mode forbids it.            *)
LocalLock(s) ==
    /\ model = Nobody
    /\ \/ loaded /\ Goto(s, "lock", "local") /\ model' = s
       \/ /\ ~loaded
          /\ Goto(s, "lock", IF mode = "local" THEN "failed" ELSE "discover")
          /\ UNCHANGED model
    /\ turn' = [turn EXCEPT ![s] = 1]
    /\ InLoop(s)
    /\ UNCHANGED <<memory, answer>>

(* A generation gives nothing or finds the context full, or it is a final  *)
(* answer, or it calls a tool, perhaps after some text. A tool called in   *)
(* the last turn ends the answer with its output.                          *)
LocalTurn(s) ==
    /\ \/ Goto(s, "local", "local_end") /\ UNCHANGED <<turn, answer>>
       \/ /\ Goto(s, "local", "local_end")
          /\ answer' = [answer EXCEPT ![s].text = TRUE, ![s].final = TRUE]
          /\ UNCHANGED turn
       \/ /\ turn[s] = LocalTurns
          /\ Goto(s, "local", "local_end")
          /\ answer' = [answer EXCEPT ![s].text = TRUE, ![s].final = TRUE]
          /\ UNCHANGED turn
       \/ /\ turn[s] < LocalTurns
          /\ Goto(s, "local", "local")
          /\ \E prefix \in BOOLEAN :
                 answer' = [answer EXCEPT ![s].text = @ \/ prefix]
          /\ turn' = [turn EXCEPT ![s] = @ + 1]
    /\ InLoop(s)
    /\ UNCHANGED <<model, memory>>

(* Mutation: the lock is never given back.                                 *)
LocalEndKept(s) ==
    /\ Goto(s, "local_end", "answered")
    /\ answer' = [answer EXCEPT ![s].text = TRUE]
    /\ InLoop(s)
    /\ UNCHANGED <<model, memory, turn>>

(* "Local inference produced no output" is an answer like any other.       *)
LocalEnd(s) ==
    /\ Goto(s, "local_end", "answered")
    /\ model' = Nobody
    /\ answer' = [answer EXCEPT ![s].text = TRUE]
    /\ InLoop(s)
    /\ UNCHANGED <<memory, turn>>

------------------------------------------------------------------------------
(* agent_loop_vllm *)

(* discover_model_name, then the memory goes into the system prompt.       *)
Discover(s) ==
    /\ \/ Goto(s, "discover", "failed")
       \/ Goto(s, "discover", "vllm")
    /\ turn' = [turn EXCEPT ![s] = 1]
    /\ answer' = [answer EXCEPT ![s] = Blank]
    /\ InLoop(s)
    /\ UNCHANGED <<model, memory>>

(* The call fails, or the reply is final, or it calls a tool. The text of  *)
(* an earlier turn makes a failure a stop. What is said in an earlier turn *)
(* is dropped when the last turn has to end with a tool's output.          *)
VllmTurn(s) ==
    /\ \/ ~answer[s].text /\ Goto(s, "vllm", "failed")
             /\ UNCHANGED <<turn, answer>>
       \/ answer[s].text /\ Goto(s, "vllm", "vllm_end")
             /\ UNCHANGED <<turn, answer>>
       \/ /\ Goto(s, "vllm", "vllm_end")
          /\ \E text \in BOOLEAN :
                 answer' = [answer EXCEPT ![s].text = @ \/ text,
                                          ![s].final = TRUE]
          /\ UNCHANGED turn
       \/ /\ turn[s] = VllmTurns
          /\ Goto(s, "vllm", "vllm_end")
          /\ answer' = [answer EXCEPT ![s].text = TRUE, ![s].final = TRUE]
          /\ UNCHANGED turn
       \/ /\ turn[s] < VllmTurns
          /\ Goto(s, "vllm", "vllm")
          /\ \E prefix \in BOOLEAN :
                 answer' = [answer EXCEPT ![s].text = @ \/ prefix]
          /\ turn' = [turn EXCEPT ![s] = @ + 1]
    /\ InLoop(s)
    /\ UNCHANGED <<model, memory>>

(* Whoever asked, the finding is recorded as the user's.                   *)
VllmEnd(s) ==
    /\ Goto(s, "vllm_end", "answered")
    /\ answer' = [answer EXCEPT ![s].text = @ \/ ~answer[s].final]
    /\ IF answer[s].final /\ answer[s].text
       THEN Record("user", s)
       ELSE UNCHANGED memory
    /\ InLoop(s)
    /\ UNCHANGED <<model, turn>>

------------------------------------------------------------------------------
(* process_prompt makes a text of errors and ends every text in a newline. *)

Reply(w) ==
    /\ Goto(w, "answered", "publish") \/ Goto(w, "failed", "publish")
    /\ answer' = [answer EXCEPT ![w].text = TRUE]
    /\ InLoop(w)
    /\ UNCHANGED <<model, memory, turn>>

(* hackbot_patrol_tick *)

PatrolStart ==
    /\ Goto(Patrol, "idle", "dispatch")
    /\ Begin(Patrol)
    /\ UNCHANGED busy

PatrolEnd ==
    /\ Goto(Patrol, "answered", "idle") \/ Goto(Patrol, "failed", "idle")
    /\ IF pc[Patrol] = "answered" /\ answer[Patrol].text
       THEN Record("patrol", Patrol)
       ELSE UNCHANGED memory
    /\ InLoop(Patrol)
    /\ UNCHANGED <<model, turn, answer>>

------------------------------------------------------------------------------
Init ==
    /\ mode \in Modes
    /\ busy = FALSE
    /\ response = 0
    /\ model = Nobody
    /\ loaded = FALSE
    /\ entries = [i \in Slots |-> Empty]
    /\ head = 0
    /\ findings = << >>
    /\ pc = [s \in Actors |-> "idle"]
    /\ turn = [s \in Actors |-> 1]
    /\ answer = [s \in Actors |-> Blank]
    /\ serial = [s \in Actors |-> 0]
    /\ asked = 0

ServerStep(s) == Discover(s) \/ VllmTurn(s)

OwnStep(s) ==
    \/ s \in Writer /\ (CopyPrompt(s) \/ Publish(s) \/ DropGuard(s) \/ Reply(s))
    \/ s = Patrol /\ PatrolEnd
    \/ Dispatch(s) \/ LocalLock(s) \/ LocalTurn(s) \/ LocalEnd(s) \/ VllmEnd(s)

Next ==
    \/ Open
    \/ \E w \in Writer : WriteStart(w)
    \/ PatrolStart
    \/ \E s \in Actors : OwnStep(s) \/ ServerStep(s)

Spec == Init /\ [][Next]_vars

(* Running code runs on, and the locks are taken in turn.                  *)
Fairness == \A s \in Actors : SF_vars(OwnStep(s))

(* The vLLM server answers or closes the connection. Nothing in the module *)
(* sees to this: no timeout is set on its sockets.                         *)
ServerAnswers == \A s \in Actors : WF_vars(ServerStep(s))

FairSpec == Spec /\ Fairness /\ ServerAnswers

------------------------------------------------------------------------------
Writing == {w \in Writer : pc[w] # "idle"}

(* format_memory_for_prompt: the occupied slots, from head around.         *)
Formatted ==
    LET inOrder == [i \in 1 .. MemoryMax |->
                       entries[(head + i - 1) % MemoryMax]]
        occupied == {entries[i] : i \in Slots} \ {Empty}
    IN  Passing(inOrder, occupied)

(* At most one write is in progress, `busy` is set exactly as long as it   *)
(* is, on every way out of it, and the answer a writer has published is    *)
(* still there when its write returns.                                     *)
SingleWriter ==
    /\ \A v, w \in Writing : v = w
    /\ busy <=> Writing # {}
    /\ \A w \in Writing : pc[w] = "drop" =>
           \/ response = serial[w]
           \/ answer[w] = Blank          \* nothing was asked

(* What goes into a prompt is the newest findings, oldest first, however   *)
(* often the ring has wrapped.                                             *)
MemoryIsRecent ==
    LET n == Len(findings)
        k == IF n < MemoryMax THEN n ELSE MemoryMax
    IN  Formatted = SubSeq(findings, n - k + 1, n)

(* If vLLM answers, every session ends: the device is never busy for ever. *)
SessionsEnd == \A s \in Actors : pc[s] # "idle" ~> pc[s] = "idle"

------------------------------------------------------------------------------
==============================================================================
