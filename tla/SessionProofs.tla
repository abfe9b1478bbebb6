---------------------------- MODULE SessionProofs ----------------------------
(***************************************************************************)
(* Theorems about the module Session, for any number of writers, turns and *)
(* sessions and any size of the memory: one write at a time, and what a    *)
(* prompt shows of the memory.                                             *)
(***************************************************************************)
EXTENDS Session, Lemmas

USE SessionAssumption

Locations ==
    {"idle", "copy", "publish", "drop", "dispatch", "lock", "local",
     "local_end", "discover", "vllm", "vllm_end", "answered", "failed"}

(* Where a session is once its prompt is copied in.                        *)
Inside == Locations \ {"idle", "copy", "drop"}

Answer == [text : BOOLEAN, final : BOOLEAN]

------------------------------------------------------------------------------
(* One write at a time *)

(* What the values of the variables look like.                             *)
Shape ==
    /\ busy \in BOOLEAN
    /\ pc \in [Actors -> Locations]
    /\ answer \in [Actors -> Answer]
    /\ serial \in [Actors -> Nat]
    /\ asked \in Nat

(* One writer at most is in a write, and `busy` says whether one is.       *)
OneWriter ==
    /\ \A v, w \in Writer : pc[v] # "idle" /\ pc[w] # "idle" => v = w
    /\ busy <=> \E w \in Writer : pc[w] # "idle"

(* Nothing is answered before the prompt is read, and a write that is over *)
(* has published its answer or was not asked anything.                     *)
Published ==
    \A w \in Writer :
        /\ pc[w] = "copy" => answer[w] = Blank
        /\ pc[w] = "drop" => response = serial[w] \/ answer[w] = Blank

SInv == Shape /\ OneWriter /\ Published

(* A session that goes on between copying its prompt and the end.          *)
LEMMA GoesOn ==
    ASSUME SInv, NEW s \in Actors, NEW to \in Inside,
           pc[s] # "idle", pc' = [pc EXCEPT ![s] = to],
           answer' \in [Actors -> Answer],
           \A t \in Actors \ {s} : answer'[t] = answer[t],
           UNCHANGED <<busy, response, serial, asked>>
    PROVE  SInv'
<1>1. /\ pc'[s] = to /\ to \in Locations
      /\ to # "idle" /\ to # "copy" /\ to # "drop"
      /\ \A t \in Actors \ {s} : pc'[t] = pc[t]
      /\ pc' \in [Actors -> Locations]
  BY DEF SInv, Shape, Inside
<1>2. Shape'
  BY <1>1 DEF SInv, Shape
<1>3. OneWriter'
  <2>1. \A w \in Writer : w \in Actors /\ (pc'[w] # "idle" <=> pc[w] # "idle")
    BY <1>1 DEF Actors
  <2> QED
    BY <2>1 DEF SInv, OneWriter
<1>4. Published'
  <2>1. ASSUME NEW w \in Writer, pc'[w] \in {"copy", "drop"}
        PROVE  pc'[w] = pc[w] /\ answer'[w] = answer[w]
    BY <1>1, <2>1 DEF Actors
  <2> QED
    BY <2>1 DEF SInv, Published, Actors
<1> QED
  BY <1>2, <1>3, <1>4 DEF SInv

(* Steps that leave the answer alone.                                      *)
LEMMA GoesOnQuietly ==
    ASSUME SInv, NEW s \in Actors, NEW to \in Inside,
           pc[s] # "idle", pc' = [pc EXCEPT ![s] = to],
           UNCHANGED <<busy, response, serial, asked, answer>>
    PROVE  SInv'
<1>1. answer' \in [Actors -> Answer]
  BY DEF SInv, Shape
<1> QED
  BY <1>1, GoesOn

(* Steps that change the session's own answer.                             *)
LEMMA GoesOnWith ==
    ASSUME SInv, NEW s \in Actors, NEW to \in Inside,
           pc[s] # "idle", pc' = [pc EXCEPT ![s] = to],
           NEW a \in Answer, answer' = [answer EXCEPT ![s] = a],
           UNCHANGED <<busy, response, serial, asked>>
    PROVE  SInv'
<1>1. answer' \in [Actors -> Answer]
      /\ \A t \in Actors \ {s} : answer'[t] = answer[t]
  BY DEF SInv, Shape
<1> QED
  BY <1>1, GoesOn

LEMMA SInvInit ==
    ASSUME Init PROVE SInv
<1>1. \A s \in Actors : pc[s] = "idle"
  BY DEF Init
<1>2. busy = FALSE /\ \A w \in Writer : w \in Actors
  BY DEF Init, Actors
<1>3. Shape
  <2>1. Blank \in Answer /\ "idle" \in Locations
    BY DEF Blank, Answer, Locations
  <2> QED
    BY <1>2, <2>1 DEF Init, Shape
<1>4. OneWriter /\ Published
  BY <1>1, <1>2 DEF OneWriter, Published
<1> QED
  BY <1>3, <1>4 DEF SInv

LEMMA WriteStarts ==
    ASSUME SInv, NEW w \in Writer, WriteStart(w) PROVE SInv'
<1>1. /\ w \in Actors /\ pc[w] = "idle" /\ pc' = [pc EXCEPT ![w] = "copy"]
      /\ ~busy /\ busy' = TRUE
      /\ asked' = asked + 1 /\ serial' = [serial EXCEPT ![w] = asked + 1]
      /\ answer' = [answer EXCEPT ![w] = Blank]
      /\ response' = response
  BY DEF WriteStart, Begin, Goto, Actors
<1>2. Blank \in Answer /\ "copy" \in Locations
  BY DEF Blank, Answer, Locations
<1>3. Shape'
  BY <1>1, <1>2 DEF SInv, Shape
<1>4. \A v \in Writer : v \in Actors /\ pc[v] = "idle"
  BY <1>1 DEF SInv, OneWriter, Actors
<1>5. pc'[w] = "copy" /\ answer'[w] = Blank
      /\ \A v \in Writer \ {w} : pc'[v] = "idle"
  BY <1>1, <1>4 DEF SInv, Shape
<1>6. OneWriter'
  BY <1>1, <1>5 DEF OneWriter
<1>7. Published'
  BY <1>5 DEF Published
<1> QED
  BY <1>3, <1>6, <1>7 DEF SInv

LEMMA PromptCopied ==
    ASSUME SInv, NEW w \in Writer, CopyPrompt(w) PROVE SInv'
<1>1. /\ w \in Actors /\ pc[w] = "copy"
      /\ UNCHANGED <<busy, response, serial, asked>>
  BY DEF CopyPrompt, Goto, Actors, history
<1>2. CASE pc' = [pc EXCEPT ![w] = "drop"] /\ UNCHANGED answer
  <2>1. /\ pc'[w] = "drop" /\ answer'[w] = Blank
        /\ \A v \in Actors \ {w} : pc'[v] = pc[v]
        /\ pc' \in [Actors -> Locations]
    BY <1>1, <1>2 DEF SInv, Shape, Published, Locations
  <2>2. Shape'
    BY <1>1, <1>2, <2>1 DEF SInv, Shape
  <2>3. OneWriter'
    <3>1. \A v \in Writer : pc'[v] # "idle" <=> pc[v] # "idle"
      BY <1>1, <2>1 DEF Actors
    <3> QED
      BY <1>1, <3>1 DEF SInv, OneWriter
  <2>4. Published'
    <3> SUFFICES ASSUME NEW v \in Writer
                 PROVE  /\ pc'[v] = "copy" => answer'[v] = Blank
                        /\ pc'[v] = "drop" => \/ response' = serial'[v]
                                              \/ answer'[v] = Blank
      BY DEF Published
    <3>1. CASE v = w
      BY <2>1, <3>1
    <3>2. CASE v # w
      BY <1>1, <1>2, <2>1, <3>2 DEF SInv, Published, Actors
    <3> QED
      BY <3>1, <3>2
  <2> QED
    BY <2>2, <2>3, <2>4 DEF SInv
<1>3. CASE /\ pc' = [pc EXCEPT ![w] = "publish"]
           /\ answer' = [answer EXCEPT ![w].text = TRUE]
  <2>1. [answer[w] EXCEPT !.text = TRUE] \in Answer
    BY <1>1 DEF SInv, Shape, Answer
  <2> QED
    BY <1>1, <1>3, <2>1, GoesOnWith DEF Inside, Locations
<1>4. CASE pc' = [pc EXCEPT ![w] = "dispatch"] /\ UNCHANGED answer
  BY <1>1, <1>4, GoesOnQuietly DEF Inside, Locations
<1> QED
  BY <1>2, <1>3, <1>4 DEF CopyPrompt, Goto

LEMMA AnswerPublished ==
    ASSUME SInv, NEW w \in Writer, Publish(w) PROVE SInv'
<1>1. /\ w \in Actors /\ pc[w] = "publish" /\ pc' = [pc EXCEPT ![w] = "drop"]
      /\ response' = serial[w]
      /\ UNCHANGED <<busy, serial, asked, answer>>
  BY DEF Publish, Goto, Actors, history
<1>2. Shape' /\ pc'[w] = "drop" /\ \A v \in Actors \ {w} : pc'[v] = pc[v]
  BY <1>1 DEF SInv, Shape, Locations
<1>3. \A v \in Writer \ {w} : v \in Actors /\ pc'[v] = "idle"
  BY <1>1, <1>2 DEF SInv, OneWriter, Actors
<1>4. OneWriter'
  <2>1. busy /\ pc'[w] # "idle"
    BY <1>1, <1>2 DEF SInv, OneWriter
  <2> QED
    BY <1>1, <1>3, <2>1 DEF OneWriter
<1>5. Published'
  BY <1>1, <1>2, <1>3 DEF Published
<1> QED
  BY <1>2, <1>4, <1>5 DEF SInv

LEMMA GuardDropped ==
    ASSUME SInv, NEW w \in Writer, DropGuard(w) PROVE SInv'
<1>1. /\ w \in Actors /\ pc[w] = "drop" /\ pc' = [pc EXCEPT ![w] = "idle"]
      /\ busy' = FALSE
      /\ UNCHANGED <<response, serial, asked, answer>>
  BY DEF DropGuard, Goto, Actors, history
<1>2. Shape' /\ pc'[w] = "idle" /\ \A v \in Actors \ {w} : pc'[v] = pc[v]
  BY <1>1 DEF SInv, Shape, Locations
<1>3. \A v \in Writer : pc'[v] = "idle"
  BY <1>1, <1>2 DEF SInv, OneWriter, Actors
<1>4. OneWriter' /\ Published'
  BY <1>1, <1>3 DEF OneWriter, Published
<1> QED
  BY <1>2, <1>4 DEF SInv

(* The patrol thread is no writer.                                         *)
LEMMA PatrolMoves ==
    ASSUME SInv, NEW to \in Locations, pc' = [pc EXCEPT ![Patrol] = to],
           Shape', \A w \in Writer : /\ serial'[w] = serial[w]
                                     /\ answer'[w] = answer[w],
           UNCHANGED <<busy, response>>
    PROVE  SInv'
<1>1. \A w \in Writer : w \in Actors /\ w # Patrol /\ pc'[w] = pc[w]
  BY DEF SInv, Shape, Actors
<1>2. OneWriter' /\ Published'
  BY <1>1 DEF SInv, OneWriter, Published
<1> QED
  BY <1>2 DEF SInv

LEMMA PatrolStarts ==
    ASSUME SInv, PatrolStart PROVE SInv'
<1>1. /\ Patrol \in Actors /\ "dispatch" \in Locations /\ Blank \in Answer
      /\ pc' = [pc EXCEPT ![Patrol] = "dispatch"]
      /\ asked' = asked + 1
      /\ serial' = [serial EXCEPT ![Patrol] = asked + 1]
      /\ answer' = [answer EXCEPT ![Patrol] = Blank]
      /\ UNCHANGED <<busy, response>>
  BY DEF PatrolStart, Begin, Goto, Actors, Locations, Blank, Answer
<1>2. Shape' /\ \A w \in Writer : /\ serial'[w] = serial[w]
                                  /\ answer'[w] = answer[w]
  BY <1>1 DEF SInv, Shape, Actors
<1> QED
  BY <1>1, <1>2, PatrolMoves

LEMMA PatrolEnds ==
    ASSUME SInv, PatrolEnd PROVE SInv'
<1>1. /\ Patrol \in Actors /\ "idle" \in Locations
      /\ pc' = [pc EXCEPT ![Patrol] = "idle"]
      /\ UNCHANGED <<busy, response, serial, asked, answer>>
  BY DEF PatrolEnd, Goto, Actors, Locations, InLoop, history
<1>2. Shape'
  BY <1>1 DEF SInv, Shape
<1> QED
  BY <1>1, <1>2, PatrolMoves

LEMMA LoopDispatches ==
    ASSUME SInv, NEW s \in Actors, Dispatch(s) \/ LocalLock(s) PROVE SInv'
<1>1. PICK to \in {"lock", "discover", "local", "failed"} :
          pc[s] # "idle" /\ pc' = [pc EXCEPT ![s] = to]
  BY DEF Dispatch, LocalLock, Goto
<1>2. UNCHANGED <<busy, response, serial, asked, answer>>
  BY DEF Dispatch, LocalLock, InLoop, history
<1>3. to \in Inside
  BY <1>1 DEF Inside, Locations
<1> QED
  BY <1>1, <1>2, <1>3, GoesOnQuietly

LEMMA LoopTurns ==
    ASSUME SInv, NEW s \in Actors, LocalTurn(s) \/ VllmTurn(s) PROVE SInv'
<1>1. PICK to \in {"local", "local_end", "vllm", "vllm_end", "failed"} :
          pc[s] # "idle" /\ pc' = [pc EXCEPT ![s] = to]
  BY DEF LocalTurn, VllmTurn, Goto
<1>2. UNCHANGED <<busy, response, serial, asked>>
  BY DEF LocalTurn, VllmTurn, InLoop, history
<1>3. to \in Inside
  BY <1>1 DEF Inside, Locations
<1>4. answer[s].text \in BOOLEAN /\ answer[s].final \in BOOLEAN
      /\ answer \in [Actors -> Answer] /\ answer[s] \in Answer
  BY DEF SInv, Shape, Answer
<1>5. CASE UNCHANGED answer
  BY <1>1, <1>2, <1>3, <1>5, GoesOnQuietly
<1>6. CASE answer' = [answer EXCEPT ![s].text = TRUE, ![s].final = TRUE]
  <2>1. PICK a \in Answer : a = [answer[s] EXCEPT !.text = TRUE, !.final = TRUE]
    BY <1>4 DEF Answer
  <2>2. answer' = [answer EXCEPT ![s] = a]
    BY <1>4, <1>6, <2>1
  <2> QED
    BY <1>1, <1>2, <1>3, <2>2, GoesOnWith
<1>7. ASSUME NEW t \in BOOLEAN,
             answer' = [answer EXCEPT ![s].text = @ \/ t]
      PROVE  SInv'
  <2>1. PICK a \in Answer : a = [answer[s] EXCEPT !.text = @ \/ t]
    BY <1>4 DEF Answer
  <2>2. answer' = [answer EXCEPT ![s] = a]
    BY <1>4, <1>7, <2>1
  <2> QED
    BY <1>1, <1>2, <1>3, <2>2, GoesOnWith
<1>8. ASSUME NEW t \in BOOLEAN,
             answer' = [answer EXCEPT ![s].text = @ \/ t, ![s].final = TRUE]
      PROVE  SInv'
  <2>1. PICK a \in Answer : a = [answer[s] EXCEPT !.text = @ \/ t,
                                                  !.final = TRUE]
    BY <1>4 DEF Answer
  <2>2. answer' = [answer EXCEPT ![s] = a]
    BY <1>4, <1>8, <2>1
  <2> QED
    BY <1>1, <1>2, <1>3, <2>2, GoesOnWith
<1> QED
  BY <1>5, <1>6, <1>7, <1>8 DEF LocalTurn, VllmTurn

LEMMA LoopEnds ==
    ASSUME SInv, NEW s \in Actors,
           LocalEnd(s) \/ VllmEnd(s) \/ Discover(s) \/ Reply(s)
    PROVE  SInv'
<1>1. PICK to \in {"answered", "failed", "vllm", "publish"} :
          pc[s] # "idle" /\ pc' = [pc EXCEPT ![s] = to]
  BY DEF LocalEnd, VllmEnd, Discover, Reply, Goto
<1>2. UNCHANGED <<busy, response, serial, asked>>
  BY DEF LocalEnd, VllmEnd, Discover, Reply, InLoop, history
<1>3. to \in Inside
  BY <1>1 DEF Inside, Locations
<1>4. answer[s].text \in BOOLEAN /\ answer[s].final \in BOOLEAN
      /\ answer \in [Actors -> Answer] /\ answer[s] \in Answer
  BY DEF SInv, Shape, Answer
<1>5. CASE answer' = [answer EXCEPT ![s].text = TRUE]
  <2>1. PICK a \in Answer : a = [answer[s] EXCEPT !.text = TRUE]
    BY <1>4 DEF Answer
  <2>2. answer' = [answer EXCEPT ![s] = a]
    BY <1>4, <1>5, <2>1
  <2> QED
    BY <1>1, <1>2, <1>3, <2>2, GoesOnWith
<1>6. CASE answer' = [answer EXCEPT ![s] = Blank]
  BY <1>1, <1>2, <1>3, <1>6, GoesOnWith DEF Answer, Blank
<1>7. CASE answer' = [answer EXCEPT ![s].text = @ \/ ~answer[s].final]
  <2>1. PICK a \in Answer : a = [answer[s] EXCEPT !.text = @ \/ ~answer[s].final]
    BY <1>4 DEF Answer
  <2>2. answer' = [answer EXCEPT ![s] = a]
    BY <1>4, <1>7, <2>1
  <2> QED
    BY <1>1, <1>2, <1>3, <2>2, GoesOnWith
<1> QED
  BY <1>5, <1>6, <1>7 DEF LocalEnd, VllmEnd, Discover, Reply

(* Every step keeps the invariant.                                         *)
LEMMA SInvNext ==
    ASSUME SInv, [Next]_vars PROVE SInv'
<1>1. CASE Open
  BY <1>1 DEF Open, SInv, Shape, OneWriter, Published, history
<1>2. CASE UNCHANGED vars
  BY <1>2 DEF vars, SInv, Shape, OneWriter, Published, history
<1>3. ASSUME NEW w \in Writer, WriteStart(w) PROVE SInv'
  BY <1>3, WriteStarts
<1>4. CASE PatrolStart
  BY <1>4, PatrolStarts
<1>5. ASSUME NEW s \in Actors, OwnStep(s) PROVE SInv'
  <2>1. CASE s \in Writer /\ CopyPrompt(s)
    BY <2>1, PromptCopied
  <2>2. CASE s \in Writer /\ Publish(s)
    BY <2>2, AnswerPublished
  <2>3. CASE s \in Writer /\ DropGuard(s)
    BY <2>3, GuardDropped
  <2>4. CASE PatrolEnd
    BY <2>4, PatrolEnds
  <2>5. CASE Dispatch(s) \/ LocalLock(s)
    BY <2>5, LoopDispatches
  <2>6. CASE LocalTurn(s)
    BY <2>6, LoopTurns
  <2>7. CASE LocalEnd(s) \/ VllmEnd(s) \/ Reply(s)
    BY <2>7, LoopEnds
  <2> QED
    BY <1>5, <2>1, <2>2, <2>3, <2>4, <2>5, <2>6, <2>7 DEF OwnStep
<1>6. ASSUME NEW s \in Actors, ServerStep(s) PROVE SInv'
  <2>1. CASE Discover(s)
    BY <2>1, LoopEnds
  <2>2. CASE VllmTurn(s)
    BY <2>2, LoopTurns
  <2> QED
    BY <1>6, <2>1, <2>2 DEF ServerStep
<1> QED
  BY <1>1, <1>2, <1>3, <1>4, <1>5, <1>6 DEF Next

LEMMA SInvSingle == SInv => SingleWriter
<1> SUFFICES ASSUME SInv PROVE SingleWriter
  OBVIOUS
<1>1. \A w \in Writing : w \in Writer /\ pc[w] # "idle"
  BY DEF Writing
<1>2. \A v, w \in Writing : v = w
  BY <1>1 DEF SInv, OneWriter
<1>3. busy <=> Writing # {}
  BY DEF SInv, OneWriter, Writing
<1>4. \A w \in Writing : pc[w] = "drop" => response = serial[w] \/ answer[w] = Blank
  BY <1>1 DEF SInv, Published
<1> QED
  BY <1>2, <1>3, <1>4 DEF SingleWriter

(* At most one write to the device is in progress, `busy` is set exactly   *)
(* as long as it is, and the answer a writer has published is still in     *)
(* RESPONSE when its write returns (write_iter and BusyGuard).             *)
THEOREM SingleWriterCorrect == Spec => []SingleWriter
<1>1. Spec => []SInv
  BY SInvInit, SInvNext, PTL DEF Spec
<1> QED
  BY <1>1, SInvSingle, PTL

------------------------------------------------------------------------------
(* The memory *)

Finding == [source : {"user", "patrol"}, by : Nat]

(* Of the ring: the slot of a finding is its number modulo the size, the   *)
(* newest MemoryMax are there, and the others are free until it wraps.     *)
Ring ==
    /\ findings \in Seq(Finding)
    /\ entries \in [Slots -> Finding \cup {Empty}]
    /\ head = Len(findings) % MemoryMax
    /\ \A i \in 1 .. Len(findings) :
           i > Len(findings) - MemoryMax =>
               entries[(i - 1) % MemoryMax] = findings[i]
    /\ \A j \in Slots : j >= Len(findings) => entries[j] = Empty

MInv == Ring /\ serial \in [Actors -> Nat] /\ asked \in Nat

LEMMA MInvInit ==
    ASSUME Init PROVE MInv
<1>1. /\ findings = << >> /\ head = 0 /\ asked = 0
      /\ entries = [i \in Slots |-> Empty]
      /\ serial = [s \in Actors |-> 0]
  BY DEF Init
<1>2. 0 % MemoryMax = 0
  <2>1. 0 \in 0 .. MemoryMax - 1
    OBVIOUS
  <2> QED
    BY <2>1, ModSmall
<1>3. Ring
  BY <1>1, <1>2 DEF Ring
<1> QED
  BY <1>1, <1>3 DEF MInv

LEMMA Recorded ==
    ASSUME MInv, NEW source \in {"user", "patrol"}, NEW s \in Actors,
           Record(source, s)
    PROVE  Ring'
<1>1. PICK e \in Finding :
          /\ e = [source |-> source, by |-> serial[s]]
          /\ entries' = [entries EXCEPT ![head] = e]
          /\ head' = (head + 1) % MemoryMax
          /\ findings' = Append(findings, e)
  BY DEF Record, Finding, MInv
<1>2. PICK n \in Nat, M \in Nat \ {0} : n = Len(findings) /\ M = MemoryMax
  BY DEF MInv, Ring
<1>3. /\ findings' \in Seq(Finding) /\ Len(findings') = n + 1
      /\ \A i \in 1 .. n : findings'[i] = findings[i]
      /\ findings'[n + 1] = e
  BY <1>1, <1>2 DEF MInv, Ring
<1>4. head = n % M /\ head \in Slots /\ Slots = 0 .. M - 1
  BY <1>2, DivMod DEF MInv, Ring, Slots
<1>5. entries' \in [Slots -> Finding \cup {Empty}] /\ entries'[head] = e
      /\ \A j \in Slots \ {head} : entries'[j] = entries[j]
  BY <1>1, <1>4 DEF MInv, Ring
<1>6. head' = (n + 1) % M
  <2>1. 1 \in 0 .. M
    OBVIOUS
  <2>2. ((n % M) + 1) % M = (n + 1) % M
    BY <2>1, ModModAdd
  <2> QED
    BY <1>1, <1>2, <1>4, <2>2
<1>7. ASSUME NEW i \in 1 .. n + 1, i > n + 1 - M
      PROVE  entries'[(i - 1) % M] = findings'[i]
  <2>1. CASE i = n + 1
    BY <1>3, <1>4, <1>5, <2>1
  <2>2. CASE i \in 1 .. n
    <3>1. PICK a \in Nat, k \in 1 .. M - 1 : a = i - 1 /\ a + k = n
      <4>1. i - 1 \in Nat /\ n - (i - 1) \in 1 .. M - 1
            /\ (i - 1) + (n - (i - 1)) = n
        BY <1>7, <2>2
      <4> QED
        BY <4>1
    <3>2. n % M # a % M
      BY <3>1, ModDistinct
    <3>3. a % M \in Slots
      BY <1>4, DivMod
    <3>4. entries[a % M] = findings[i]
      BY <1>2, <1>7, <2>2, <3>1 DEF MInv, Ring
    <3> QED
      BY <1>3, <1>4, <1>5, <2>2, <3>1, <3>2, <3>3, <3>4
  <2> QED
    BY <2>1, <2>2
<1>8. ASSUME NEW j \in Slots, j >= n + 1 PROVE entries'[j] = Empty
  <2>1. n \in 0 .. M - 1 /\ j >= n
    BY <1>4, <1>8
  <2>2. n % M = n
    BY <2>1, ModSmall
  <2>3. j # head
    BY <1>4, <1>8, <2>2
  <2> QED
    BY <1>2, <1>5, <2>1, <2>3 DEF MInv, Ring
<1> QED
  BY <1>2, <1>3, <1>5, <1>6, <1>7, <1>8 DEF Ring

LEMMA MemoryKept ==
    ASSUME MInv, UNCHANGED memory PROVE Ring'
BY DEF MInv, Ring, memory, Slots

(* Every step keeps the invariant.                                         *)
LEMMA MInvNext ==
    ASSUME MInv, [Next]_vars PROVE MInv'
<1>1. serial' \in [Actors -> Nat] /\ asked' \in Nat
  <2>1. ASSUME NEW s \in Actors, Begin(s)
        PROVE  serial' \in [Actors -> Nat] /\ asked' \in Nat
    BY <2>1 DEF Begin, MInv
  <2>2. CASE UNCHANGED history
    BY <2>2 DEF history, MInv
  <2>3. UNCHANGED history \/ \E s \in Actors : Begin(s)
    <3>1. CASE \E w \in Writer : WriteStart(w)
      BY <3>1 DEF WriteStart, Actors
    <3>2. CASE PatrolStart
      BY <3>2 DEF PatrolStart, Actors
    <3>3. CASE \E s \in Actors : OwnStep(s)
      BY <3>3 DEF OwnStep, CopyPrompt, Publish, DropGuard, Reply, PatrolEnd,
                  Dispatch, LocalLock, LocalTurn, LocalEnd, VllmEnd, InLoop
    <3>4. CASE \E s \in Actors : ServerStep(s)
      BY <3>4 DEF ServerStep, Discover, VllmTurn, InLoop
    <3>5. CASE Open \/ UNCHANGED vars
      BY <3>5 DEF Open, vars
    <3> QED
      BY <3>1, <3>2, <3>3, <3>4, <3>5 DEF Next
  <2> QED
    BY <2>1, <2>2, <2>3
<1>2. Ring'
  <2>1. ASSUME NEW s \in Actors, VllmEnd(s) PROVE Ring'
    <3>1. Record("user", s) \/ UNCHANGED memory
      BY <2>1 DEF VllmEnd
    <3> QED
      BY <3>1, Recorded, MemoryKept
  <2>2. CASE PatrolEnd
    <3>1. Record("patrol", Patrol) \/ UNCHANGED memory
      BY <2>2 DEF PatrolEnd
    <3> QED
      BY <3>1, Recorded, MemoryKept DEF Actors
  <2>3. \/ UNCHANGED memory
        \/ PatrolEnd
        \/ \E s \in Actors : VllmEnd(s)
    <3>1. CASE \E w \in Writer : WriteStart(w)
      BY <3>1 DEF WriteStart, Begin
    <3>2. CASE PatrolStart
      BY <3>2 DEF PatrolStart, Begin
    <3>3. CASE \E s \in Actors : OwnStep(s)
      BY <3>3 DEF OwnStep, CopyPrompt, Publish, DropGuard, Reply,
                  Dispatch, LocalLock, LocalTurn, LocalEnd
    <3>4. CASE \E s \in Actors : ServerStep(s)
      BY <3>4 DEF ServerStep, Discover, VllmTurn
    <3>5. CASE Open \/ UNCHANGED vars
      BY <3>5 DEF Open, vars
    <3> QED
      BY <3>1, <3>2, <3>3, <3>4, <3>5 DEF Next
  <2> QED
    BY <2>1, <2>2, <2>3, MemoryKept
<1> QED
  BY <1>1, <1>2 DEF MInv

(* The slots from head around hold nothing until the ring has wrapped, and *)
(* then the newest findings, oldest first.                                 *)
LEMMA InOrderOfAge ==
    ASSUME Ring, NEW n \in Nat, n = Len(findings),
           NEW k \in Nat, k = IF n < MemoryMax THEN n ELSE MemoryMax
    PROVE  /\ \A i \in 1 .. MemoryMax - k :
                  entries[(head + i - 1) % MemoryMax] = Empty
           /\ \A i \in 1 .. k :
                  entries[(head + (MemoryMax - k + i) - 1) % MemoryMax]
                      = findings[n - k + i]
<1>1. PICK M \in Nat \ {0} : M = MemoryMax
  OBVIOUS
<1>2. head = n % M /\ Slots = 0 .. M - 1
  BY <1>1 DEF Ring, Slots
<1>6. k <= n /\ k <= M /\ (k = n \/ k = M) /\ (k < M => k = n)
  BY <1>1
<1>3. ASSUME NEW i \in 1 .. M
      PROVE  (head + i - 1) % M = (n + (i - 1)) % M
  <2>1. PICK d \in 0 .. M : d = i - 1
    BY <1>3
  <2>2. ((n % M) + d) % M = (n + d) % M
    BY ModModAdd
  <2>3. n % M \in Int /\ (n % M) + d = (n % M) + i - 1
    BY <2>1, DivMod
  <2> QED
    BY <1>2, <2>1, <2>2, <2>3
<1>4. ASSUME NEW i \in 1 .. M - k PROVE entries[(head + i - 1) % M] = Empty
  <2>1. PICK j \in 0 .. M - 1 : j = n + (i - 1) /\ j >= n /\ i \in 1 .. M
    <3>1. n + (i - 1) \in 0 .. M - 1 /\ n + (i - 1) >= n /\ i \in 1 .. M
      BY <1>4, <1>6
    <3> QED
      BY <3>1
  <2>2. j % M = j
    BY ModSmall
  <2> QED
    BY <1>2, <1>3, <2>1, <2>2 DEF Ring
<1>5. ASSUME NEW i \in 1 .. k
      PROVE  entries[(head + (M - k + i) - 1) % M] = findings[n - k + i]
  <2>1. PICK a \in Nat, h \in 1 .. M :
            /\ a = n - k + i - 1 /\ h = M - k + i
            /\ a + M = n + (h - 1)
            /\ a + 1 \in 1 .. n /\ a + 1 > n - M /\ a + 1 = n - k + i
    <3>1. i \in Nat /\ 1 <= i /\ i <= k /\ M \in Nat
      OBVIOUS
    <3>2. n - k + i - 1 \in Nat /\ M - k + i \in 1 .. M
      BY <1>6, <3>1
    <3>3. /\ (n - k + i - 1) + M = n + ((M - k + i) - 1)
          /\ (n - k + i - 1) + 1 = n - k + i
      BY <1>6, <3>1
    <3>4. n - k + i \in 1 .. n /\ n - k + i > n - M
      BY <1>6, <3>1
    <3> QED
      BY <3>2, <3>3, <3>4
  <2>2. (a + M) % M = a % M
    <3>1. M \in 0 .. M
      OBVIOUS
    <3>2. (a + M) % M = IF (a % M) + M < M THEN (a % M) + M ELSE (a % M) + M - M
      BY <3>1, ModAdd
    <3>3. a % M \in 0 .. M - 1
      BY DivMod
    <3> QED
      BY <3>2, <3>3
  <2>3. entries[a % M] = findings[a + 1]
    <3>1. (a + 1) - 1 = a
      OBVIOUS
    <3> QED
      BY <1>1, <2>1, <3>1 DEF Ring
  <2>4. (head + h - 1) % M = a % M
    BY <1>3, <2>1, <2>2
  <2> QED
    BY <2>1, <2>3, <2>4
<1> QED
  BY <1>1, <1>4, <1>5

LEMMA MInvRecent ==
    ASSUME MInv PROVE MemoryIsRecent
<1>0. MemoryMax \in Nat \ {0} /\ Len(findings) \in Nat
  BY DEF MInv, Ring
<1>1. PICK n \in Nat, k \in Nat :
          /\ n = Len(findings)
          /\ k = IF n < MemoryMax THEN n ELSE MemoryMax
          /\ k <= n /\ k <= MemoryMax
  BY <1>0
<1>2. PICK s : s = [i \in 1 .. MemoryMax |->
                       entries[(head + i - 1) % MemoryMax]]
  OBVIOUS
<1>3. PICK S : S = {entries[i] : i \in Slots} \ {Empty}
  OBVIOUS
<1>4. PICK e \in Nat : e = MemoryMax - k
  BY <1>0, <1>1
<1>5. Ring
  BY DEF MInv
<1>6. /\ \A i \in 1 .. e : s[i] = Empty
      /\ \A i \in 1 .. k : s[e + i] = findings[n - k + i]
  <2>1. /\ \A i \in 1 .. e : i \in 1 .. MemoryMax
        /\ \A i \in 1 .. k : e + i \in 1 .. MemoryMax
    BY <1>0, <1>1, <1>4
  <2>2. /\ \A i \in 1 .. MemoryMax - k :
               entries[(head + i - 1) % MemoryMax] = Empty
        /\ \A i \in 1 .. k :
               entries[(head + (MemoryMax - k + i) - 1) % MemoryMax]
                   = findings[n - k + i]
    BY <1>1, <1>5, InOrderOfAge
  <2> QED
    BY <1>2, <1>4, <2>1, <2>2
<1>7. \A i \in 1 .. MemoryMax : (head + i - 1) % MemoryMax \in Slots
  <2> SUFFICES ASSUME NEW i \in 1 .. MemoryMax
               PROVE  (head + i - 1) % MemoryMax \in Slots
    OBVIOUS
  <2>1. head \in 0 .. MemoryMax - 1
    BY <1>5, <1>1, DivMod DEF Ring
  <2>2. PICK a \in Nat : a = head + i - 1
    BY <2>1
  <2>3. a % MemoryMax \in 0 .. MemoryMax - 1
    BY DivMod
  <2> QED
    BY <2>2, <2>3 DEF Slots
<1>8. /\ s \in Seq(Finding \cup {Empty}) /\ Len(s) = MemoryMax
      /\ \A i \in 1 .. e : s[i] \notin S
      /\ \A i \in e + 1 .. Len(s) : s[i] \in S
  <2>1. s \in Seq(Finding \cup {Empty}) /\ Len(s) = MemoryMax
    <3>1. \A i \in 1 .. MemoryMax :
             entries[(head + i - 1) % MemoryMax] \in Finding \cup {Empty}
      BY <1>5, <1>7 DEF Ring
    <3> QED
      BY <1>0, <1>2, <3>1
  <2>2. \A i \in 1 .. e : s[i] \notin S
    BY <1>3, <1>6
  <2>3. ASSUME NEW i \in e + 1 .. MemoryMax PROVE s[i] \in S
    <3>1. PICK j \in 1 .. k : i = e + j /\ n - k + j \in 1 .. n
      <4>1. i \in Int /\ e + 1 <= i /\ i <= e + k /\ k <= n
        BY <1>0, <1>1, <1>4, <2>3
      <4>2. i - e \in 1 .. k /\ i = e + (i - e)
        BY <4>1
      <4>3. n - k + (i - e) \in 1 .. n
        BY <4>1
      <4> QED
        BY <4>2, <4>3
    <3>2. s[i] = findings[n - k + j]
      BY <1>6, <3>1
    <3>3. findings[n - k + j] \in Finding
      BY <1>1, <1>5, <3>1 DEF Ring
    <3>4. Empty \notin Finding
      BY DEF Empty, Finding
    <3>5. s[i] \in {entries[t] : t \in Slots}
      BY <1>2, <1>4, <1>7, <2>3
    <3> QED
      BY <1>3, <3>2, <3>3, <3>4, <3>5
  <2> QED
    BY <2>1, <2>2, <2>3
<1>9. Passing(s, S) = [i \in 1 .. k |-> s[e + i]]
  <2>1. e \in 0 .. Len(s) /\ Len(s) - e = k
    BY <1>1, <1>4, <1>8
  <2>2. Passing(s, S) = [i \in 1 .. Len(s) - e |-> s[e + i]]
    <3>1. PICK E : E = Finding \cup {Empty}
      OBVIOUS
    <3>2. PICK z \in Seq(E) : z = s
      BY <1>8, <3>1
    <3>3. /\ \A i \in 1 .. e : z[i] \notin S
          /\ \A i \in e + 1 .. Len(z) : z[i] \in S
          /\ e \in 0 .. Len(z)
      BY <1>8, <2>1, <3>2
    <3>4. Passing(z, S) = [i \in 1 .. Len(z) - e |-> z[e + i]]
      BY <3>3, PassingSuffix, SMTT(20)
    <3> QED
      BY <3>2, <3>4
  <2> QED
    BY <2>1, <2>2
<1>10. Formatted = Passing(s, S)
  BY <1>2, <1>3 DEF Formatted
<1>11. SubSeq(findings, n - k + 1, n) = [i \in 1 .. k |-> findings[n - k + i]]
  <2>1. PICK f \in Seq(Finding), a \in Nat : f = findings /\ a = n - k
    BY <1>1, <1>5 DEF Ring
  <2>2. /\ SubSeq(f, a + 1, n) \in Seq(Finding)
        /\ Len(SubSeq(f, a + 1, n)) = k
        /\ \A i \in 1 .. k : SubSeq(f, a + 1, n)[i] = f[a + i]
    BY <1>1, <2>1, SMTT(30)
  <2>3. SubSeq(f, a + 1, n) = [i \in 1 .. k |-> f[a + i]]
    <3>1. PICK t \in Seq(Finding) : t = SubSeq(f, a + 1, n)
      BY <2>2
    <3>2. t = [i \in 1 .. Len(t) |-> t[i]]
      OBVIOUS
    <3> QED
      BY <2>2, <3>1, <3>2
  <2> QED
    BY <2>1, <2>3
<1>12. [i \in 1 .. k |-> s[e + i]] = [i \in 1 .. k |-> findings[n - k + i]]
  BY <1>6
<1> QED
  BY <1>1, <1>9, <1>10, <1>11, <1>12 DEF MemoryIsRecent

(* What format_memory_for_prompt puts into a prompt is the newest findings *)
(* recorded, oldest first, at most MEMORY_MAX_ENTRIES of them, however     *)
(* often record_finding has gone around the ring.                          *)
THEOREM MemoryCorrect == Spec => []MemoryIsRecent
<1>1. Spec => []MInv
  BY MInvInit, MInvNext, PTL DEF Spec
<1> QED
  BY <1>1, MInvRecent, PTL

==============================================================================
