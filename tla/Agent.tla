-------------------------------- MODULE Agent --------------------------------
(***************************************************************************)
(* One question answered with the help of a vLLM server: process_prompt    *)
(* and agent_loop_vllm (hackbot_vllm.rs), the HTTP exchanges over a TCP    *)
(* socket and the JSON of hackbot_net.rs, and the parsing and running of   *)
(* tool calls (hackbot_tools.rs).                                          *)
(*                                                                         *)
(* A text is a sequence of symbols: a word, a tag or a fixed piece of the  *)
(* protocol is one symbol, and so is every character that the escaping and *)
(* the parsing treat in a way of its own.  A length counts symbols.  The   *)
(* server, the network and what a tool prints are the environment; locks   *)
(* and other sessions are in Session, the kprobe tool in Kprobe.           *)
(***************************************************************************)
EXTENDS Integers, FiniteSets, SequencesExt

CONSTANTS Prompts,        \* what may be asked
          Says,           \* what the model may answer to a conversation
          Formats,        \* the fields it may answer in, of FieldPatterns
          Names,          \* the names a server may have for its model
          Prints,         \* what a tool may print
          Tools,          \* the names execute_tool knows
          Iterations,     \* MAX_AGENT_ITERATIONS
          Budget,         \* VLLM_CONTEXT_BUDGET
          MaxToolOutput, MaxResponse, RecvBuf, NameMax

(* What the constants are; the modules that give them values assume it.    *)
AgentAssumption ==
  /\ {Iterations, Budget, MaxToolOutput, MaxResponse, RecvBuf, NameMax}
       \subseteq Nat \ {0}
  /\ MaxToolOutput > 1

VARIABLES pc,        \* where the session is
          prompt, model,
          iteration, \* from 1
          messages,  \* the JSON array of the conversation
          lastPair,  \* last_asst and last_tool
          answer,    \* final_answer
          task,      \* which request: "models" or "chat"
          request, sent,
          wire,      \* what the server has sent and we have not received
          raw,       \* raw_response
          reply,     \* what vllm_call returns
          turns,     \* history: each tool call's assistant and tool texts
          received,  \* what of the request has reached the server
          said,      \* what the server answers, once it has
          cut        \* does the server break off its answer?

conversation == <<prompt, model, iteration, messages, lastPair, answer, turns>>
exchange == <<task, request, sent, wire, raw, received, said, cut>>
vars == <<pc, conversation, exchange, reply>>

Identity == <<"identity">>
None == <<>>
Nothing == [kind |-> "nothing", text |-> None]

-----------------------------------------------------------------------------
(* Text. *)

IndexOf(s, t) == {k \in 1..Len(s) : s[k] = t}
First(S) == CHOOSE k \in S : \A j \in S : k <= j
From(s, k) == SubSeq(s, k, Len(s))
UpTo(s, n) == SubSeq(s, 1, Min({n, Len(s)}))

(* The field names extract_text_from_json looks for, in its order; each    *)
(* ends with the quote that opens the value.                               *)
Content == "content:'"
FieldPatterns == <<Content, "content: '", "text:'", "text: '">>

(* json_escape; a field name has quotes, too.                              *)
JsonEscape(text) ==
  FlattenSeq([k \in 1..Len(text) |->
    CASE text[k] \in {"\\", "\""} \cup Range(FieldPatterns) -> <<"\\", text[k]>>
      [] text[k] = "newline" -> <<"\\", "n">>
      [] text[k] = "ctl" -> <<"\\", "u", "0001">>
      [] OTHER -> <<text[k]>>])

(* json_unescape: a \u sequence is left as it is. *)
JsonUnescape(text) ==
  LET plain == "n" :> "newline" @@ "\\" :> "\\" @@ "\"" :> "\""
      rest[k \in 1..(Len(text) + 1)] ==
        IF k > Len(text) THEN <<>>
        ELSE IF text[k] = "\\" /\ k < Len(text)
             THEN (IF text[k+1] \in DOMAIN plain
                   THEN <<plain[text[k+1]]>> ELSE <<"\\", text[k+1]>>) \o rest[k+2]
             ELSE <<text[k]>> \o rest[k+1]
  IN  rest[1]

(* Mutation: a quote ends the string, escaped or not.                      *)
StringEndPlain(json, start) ==
  LET quotes == {k \in start..Len(json) : json[k] = "\""}
  IN  IF quotes = {} THEN 0 ELSE First(quotes)

(* find_json_string_end: where the string that starts at k ends, or 0. *)
StringEnd(json, start) ==
  LET end[k \in 1..(Len(json) + 2)] ==
        CASE k > Len(json) -> 0
          [] k <= Len(json) /\ json[k] = "\"" -> k
          [] k <= Len(json) /\ json[k] = "\\" -> end[k + 2]
          [] OTHER -> end[k + 1]
  IN  end[start]

Absent == <<"absent">>

(* The string after the first of the patterns that occurs, if any.         *)
Field(json, patterns) ==
  LET present == {n \in 1..Len(patterns) : IndexOf(json, patterns[n]) # {}}
      start == First(IndexOf(json, patterns[First(present)])) + 1
  IN  IF present = {} \/ StringEnd(json, start) = 0 THEN Absent
      ELSE SubSeq(json, start, StringEnd(json, start) - 1)

(* append_message_to_json *)
AppendMessage(json, role, content) ==
  (IF json # <<>> /\ Last(json) = "]" THEN Append(Front(json), ",") ELSE <<"[">>)
  \o <<"{", role, Content>> \o JsonEscape(content) \o <<"\"", "}", "]">>

-----------------------------------------------------------------------------
(* Tool calls. *)

Blank == {"space", "newline"}
Trim(text) ==
  LET solid == {k \in 1..Len(text) : text[k] \notin Blank}
  IN  IF solid = {} THEN <<>> ELSE SubSeq(text, Min(solid), Max(solid))

(* parse_tool_call: the name and the text before the call, an empty name   *)
(* when there is none.                                                     *)
ParseToolCall(text) ==
  LET open == First(IndexOf(text, "<tool>"))
      inside == From(text, open + 1)
      ends == IF IndexOf(inside, "</tool>") # {} THEN IndexOf(inside, "</tool>")
              ELSE IndexOf(inside, "newline")
      content == IF ends = {} THEN inside ELSE SubSeq(inside, 1, First(ends) - 1)
  IN  IF IndexOf(text, "<tool>") = {} THEN [name |-> None, prefix |-> text]
      ELSE [name |-> UpTo(Trim(content), NameMax),
            prefix |-> SubSeq(text, 1, open - 1)]

(* What `dmesg n` shows of the log. *)
LastLines(log, n) ==
  LET breaks == {k \in IndexOf(log, "newline") :
                   Cardinality({j \in IndexOf(log, "newline") : j >= k}) = n + 1}
  IN  IF n = 0 THEN log ELSE IF breaks = {} THEN <<>> ELSE From(log, First(breaks) + 1)

Number(args) == IF args = None THEN 0
                ELSE CASE args[1] = "1" -> 1 [] args[1] = "2" -> 2 [] OTHER -> 0

(* execute_tool, for what the tool would print. *)
ToolOutput(call, printed) ==
  LET gap == IndexOf(call, "space")
      name == IF gap = {} THEN call ELSE SubSeq(call, 1, First(gap) - 1)
      args == IF gap = {} THEN None ELSE Trim(From(call, First(gap) + 1))
      output == CASE name \notin Tools -> <<"[unknown]">> \o name
                  [] name = <<"dmesg">> -> LastLines(printed, Number(args))
                  [] OTHER -> printed
      shown == IF output = None THEN <<"[no output]">> ELSE output
  IN  IF Len(shown) > MaxToolOutput - 1
      THEN Append(UpTo(shown, MaxToolOutput - 1), "[truncated]") ELSE shown

-----------------------------------------------------------------------------
(* HTTP. *)

(* parse_http_status and find_http_body *)
Status(text) == IF text = None THEN 0 ELSE IF text[1] = "HTTP/1.1 200" THEN 200 ELSE 500
Body(text) ==
  LET gap == IndexOf(text, "blank line")
  IN  IF gap = {} THEN text ELSE From(text, First(gap) + 1)

(* build_vllm_request and the request for the model's name.                *)
ChatRequest(name, json) ==
  LET body == <<"{", "model:'">> \o JsonEscape(name) \o <<"\"", "messages:">>
                \o json \o <<"}">>
  IN  <<"POST", ToString(Len(body)), "blank line">> \o body
ModelsRequest == <<"GET", "blank line">>

(* The server: it may refuse, or answer something else than a completion;  *)
(* its JSON escapes what JSON asks to be escaped.                          *)
Answers ==
  {[kind |-> k, text |-> None] : k \in {"refusal", "other"}}
    \cup (IF task = "models" THEN {[kind |-> "id:'", text |-> n] : n \in Names}
          ELSE {[kind |-> f, text |-> t] : f \in Formats, t \in Says})

AnswerText(a) ==
  CASE a.kind = "refusal" -> <<"HTTP/1.1 500", "blank line", "reason">>
    [] a.kind = "other" -> <<"HTTP/1.1 200", "blank line", "{", "}">>
    [] OTHER -> <<"HTTP/1.1 200", "blank line", "{", a.kind>>
                  \o JsonEscape(a.text) \o <<"\"", "}">>

-----------------------------------------------------------------------------
(* One exchange with the server. *)

Request(what, text) ==
  /\ task' = what
  /\ request' = text
  /\ sent' = 0
  /\ raw' = None
  /\ received' = None
  /\ said' = Nothing
  /\ cut' = FALSE
  /\ wire' = None
  /\ pc' = "connect"

(* agent_loop_vllm's end, and process_prompt's: the model has said its     *)
(* last word, or its last turn is over.  The turns cannot run out          *)
(* otherwise, so the note that they have is only appended after an error.  *)
Conclude(text) ==
  /\ answer' = IF text # None /\ Last(text) = "newline" THEN text
               ELSE Append(text, "newline")
  /\ pc' = "done"

(* The exchange fails: the question does, unless there is something to     *)
(* show already.                                                           *)
Fail ==
  /\ answer' = IF task = "chat" /\ answer # None
               THEN answer \o <<"[vLLM error]", "[stopped]", "newline">>
               ELSE <<"[inference error]", "newline">>
  /\ pc' = "done"
  /\ UNCHANGED <<prompt, model, iteration, messages, lastPair, turns, reply, exchange>>

Connect ==
  /\ pc = "connect"
  /\ pc' = "send"
  /\ UNCHANGED <<conversation, exchange, reply>>

(* Mutation: every part is sent from the start of the request.             *)
SendAgain ==
  /\ pc = "send"
  /\ sent < Len(request)
  /\ \E n \in 1..(Len(request) - sent) :
       /\ received' = received \o UpTo(request, n)
       /\ sent' = sent + n
  /\ UNCHANGED <<pc, conversation, task, request, wire, raw, said, cut, reply>>

(* send_all; the kernel takes as much as it likes.                         *)
Send ==
  /\ pc = "send"
  /\ sent < Len(request)
  /\ \E n \in 1..(Len(request) - sent) :
       /\ received' = received \o SubSeq(request, sent + 1, sent + n)
       /\ sent' = sent + n
  /\ UNCHANGED <<pc, conversation, task, request, wire, raw, said, cut, reply>>

SendDone ==
  /\ pc = "send"
  /\ sent = Len(request)
  /\ pc' = "receive"
  /\ UNCHANGED <<conversation, exchange, reply>>

(* The server answers in full or breaks off, and closes the connection.    *)
Answer ==
  /\ pc = "receive"
  /\ said = Nothing
  /\ \E a \in Answers :
       /\ said' = a
       /\ \/ wire' = AnswerText(a) /\ cut' = FALSE
          \/ /\ cut' = TRUE
             /\ \E n \in 0..(Len(AnswerText(a)) - 1) : wire' = UpTo(AnswerText(a), n)
  /\ UNCHANGED <<pc, conversation, task, request, sent, raw, received, reply>>

(* recv_all: whatever has arrived, up to the size of the buffer.           *)
Receive ==
  /\ pc = "receive"
  /\ Len(raw) < MaxResponse
  /\ \E n \in 1..Min({RecvBuf, Len(wire)}) :
       /\ raw' = raw \o UpTo(wire, n)
       /\ wire' = From(wire, n + 1)
  /\ UNCHANGED <<pc, conversation, task, request, sent, received, said, cut, reply>>

(* The connection is closed, or the answer is longer than we take.         *)
ReceiveDone ==
  /\ pc = "receive"
  /\ said # Nothing
  /\ wire = None \/ Len(raw) >= MaxResponse
  /\ pc' = task
  /\ UNCHANGED <<conversation, exchange, reply>>

(* connect, sendmsg or recvmsg returns an error.                           *)
NetworkFails == pc \in {"connect", "send", "receive"} /\ Fail

-----------------------------------------------------------------------------
(* The question. *)

Stripped(text) == IF text # None /\ Last(text) = "newline" THEN Front(text) ELSE text

(* process_prompt *)
Ask ==
  /\ pc = "ask"
  /\ \E p \in Prompts :
       IF Stripped(p) = None
       THEN /\ answer' = <<"[empty prompt]", "newline">>
            /\ pc' = "done"
            /\ UNCHANGED <<prompt, exchange>>
       ELSE /\ prompt' = Stripped(p)
            /\ Request("models", ModelsRequest)
            /\ UNCHANGED answer
  /\ UNCHANGED <<model, iteration, messages, lastPair, turns, reply>>

Opening == AppendMessage(AppendMessage(None, "system", Identity), "user", prompt)

(* discover_model_name *)
Discover ==
  /\ pc = "models"
  /\ LET name == Field(Body(raw), <<"id:'">>)
     IN  IF Status(raw) # 200 \/ name = Absent
         THEN Fail
         ELSE /\ model' = JsonUnescape(name)
              /\ messages' = Opening
              /\ pc' = "top"
              /\ UNCHANGED <<prompt, iteration, lastPair, answer, turns,
                             exchange, reply>>

(* The head of the loop: a conversation over the budget is cut down to the *)
(* question and the last tool call.                                        *)
Rebuilt ==
  IF Len(messages) <= Budget THEN messages
  ELSE IF lastPair = None THEN Opening
  ELSE AppendMessage(AppendMessage(Opening, "assistant", <<"[truncated]">> \o lastPair[1]),
                     "user", lastPair[2])

Top ==
  /\ pc = "top"
  /\ messages' = Rebuilt
  /\ Request("chat", ChatRequest(model, Rebuilt))
  /\ UNCHANGED <<prompt, model, iteration, lastPair, answer, turns,
                 reply>>

(* The rest of vllm_call *)
Understand ==
  /\ pc = "chat"
  /\ LET body == Body(raw)
         text == Field(body, FieldPatterns)
     IN  IF Status(raw) = 0 THEN Fail
         ELSE /\ reply' = CASE Status(raw) # 200 -> <<"[HTTP 500]">> \o body
                            [] Status(raw) = 200 /\ text = Absent ->
                                 <<"[raw response]">> \o body
                            [] OTHER -> JsonUnescape(text)
              /\ pc' = "turn"
              /\ UNCHANGED <<conversation, exchange>>

AssistantText(call) == call.prefix \o <<"<tool>">> \o call.name \o <<"</tool>">>
ToolText(call, output) == <<"[Tool]">> \o call.name \o output \o <<"[End Tool]">>

FinalAnswer ==
  /\ pc = "turn"
  /\ ParseToolCall(reply).name = None
  /\ Conclude(answer \o reply)
  /\ UNCHANGED <<prompt, model, iteration, messages, lastPair, turns, reply,
                 exchange>>

(* A tool call in the last turn ends the answer with the tool's output,    *)
(* and with the text of this turn only.                                    *)
ToolCall ==
  /\ pc = "turn"
  /\ LET call == ParseToolCall(reply)
     IN  /\ call.name # None
         /\ \E printed \in Prints :
              LET output == ToolOutput(call.name, printed)
                  pair == <<AssistantText(call), ToolText(call, output)>>
              IN  IF iteration = Iterations
                  THEN /\ Conclude((IF call.prefix = None THEN None
                                    ELSE call.prefix \o <<"newline", "newline">>)
                                     \o output)
                       /\ UNCHANGED <<iteration, messages, lastPair, turns>>
                  ELSE /\ lastPair' = pair
                       /\ turns' = Append(turns, pair)
                       /\ messages' = AppendMessage(AppendMessage(messages, "assistant",
                                                       pair[1]), "user", pair[2])
                       /\ answer' = answer \o call.prefix
                       /\ iteration' = iteration + 1
                       /\ pc' = "top"
  /\ UNCHANGED <<prompt, model, reply, exchange>>

Init ==
  /\ pc = "ask"
  /\ iteration = 1
  /\ prompt = None /\ model = None /\ messages = None /\ lastPair = None
  /\ answer = None /\ reply = None
  /\ task = "models" /\ request = None /\ sent = 0 /\ wire = None /\ raw = None
  /\ turns = None /\ received = None /\ said = Nothing /\ cut = FALSE

Next ==
  \/ Ask \/ Discover \/ Top \/ Understand \/ FinalAnswer \/ ToolCall
  \/ Connect \/ Send \/ SendDone \/ Answer \/ Receive \/ ReceiveDone \/ NetworkFails

Spec == Init /\ [][Next]_vars

-----------------------------------------------------------------------------
(* Reference: what a JSON parser makes of a request.                       *)

(* The value of the string that starts at k, with the place after it.      *)
Parsed(text, start) ==
  LET value[k \in 1..(Len(text) + 1)] ==
        CASE k > Len(text) -> [text |-> <<"unterminated">>, next |-> k]
          [] k <= Len(text) /\ text[k] = "\"" -> [text |-> None, next |-> k + 1]
          [] k <= Len(text) /\ text[k] = "\\" /\ text[k+1] = "u" ->
               LET rest == value[k + 3]
               IN  [rest EXCEPT !.text = <<"ctl">> \o @]
          [] k <= Len(text) /\ text[k] = "\\" /\ text[k+1] # "u" ->
               LET rest == value[k + 2]
                   char == IF text[k+1] = "n" THEN "newline" ELSE text[k+1]
               IN  [rest EXCEPT !.text = <<char>> \o @]
          [] OTHER -> LET rest == value[k + 1]
                      IN  [rest EXCEPT !.text = <<text[k]>> \o @]
  IN  value[start]

(* The messages of the array whose first element starts at k.              *)
ParsedMessages(text, start) ==
  LET list[k \in 1..(Len(text) + 1)] ==
        IF k + 2 > Len(text) \/ text[k] # "{" \/ text[k+2] # Content THEN <<"malformed">>
        ELSE LET string == Parsed(text, k + 3)
                 message == <<text[k+1], string.text>>
                 rest == From(text, string.next)
             IN  CASE UpTo(rest, 2) = <<"}", ",">> -> <<message>> \o list[string.next + 2]
                   [] rest = <<"}", "]", "}">> -> <<message>>
                   [] OTHER -> <<"malformed">>
  IN  list[start]

(* The last n tool calls, as a conversation tells them.                    *)
Told(n, noted) ==
  FlattenSeq([k \in 1..n |->
    LET pair == turns[Len(turns) - n + k]
    IN  <<<<"assistant", IF noted /\ k = 1 THEN <<"[truncated]">> \o pair[1] ELSE pair[1]>>,
          <<"user", pair[2]>>>>])

(* A chat request that has been sent completely is one the server can      *)
(* read, in spite of partial sends, quotes, backslashes, newlines and      *)
(* control characters in prompts, names and tool outputs: it names the     *)
(* model the server offered, and its messages are the identity, the        *)
(* question and then the latest tool calls with their results, in order    *)
(* and with roles alternating.  Only earlier calls may be missing, the     *)
(* last one never; when they are the model is told so; and a request with  *)
(* more than the last call is within the budget.                           *)
RequestDecodes ==
  pc = "receive" /\ task = "chat" /\ sent = Len(request) =>
    LET body == Body(received)
        name == Parsed(body, 3)
        read == ParsedMessages(body, name.next + 2)
    IN  /\ received[2] = ToString(Len(body))
        /\ UpTo(body, 2) = <<"{", "model:'">>
        /\ name.text = model
        /\ SubSeq(body, name.next, name.next + 1) = <<"messages:", "[">>
        /\ \E n \in Min({1, Len(turns)})..Len(turns), noted \in BOOLEAN :
             /\ read = <<<<"system", Identity>>, <<"user", prompt>>>> \o Told(n, noted)
             /\ n < Len(turns) => noted
             /\ n > 1 => Len(messages) <= Budget

(* An answer that arrives complete is understood as what the server said,  *)
(* in whatever chunks it was received and whatever had to be escaped; only *)
(* a control character stays in its escaped form.  The same holds for the  *)
(* model's name.                                                           *)
ReplyWhole ==
  LET heard == FlattenSeq([k \in 1..Len(said.text) |->
                 IF said.text[k] = "ctl" THEN <<"\\", "u", "0001">> ELSE <<said.text[k]>>])
  IN  ~cut /\ wire = None =>
        /\ pc = "turn" /\ said.kind \in Formats => reply = heard
        /\ pc = "top" /\ turns = None => model = heard
=============================================================================
