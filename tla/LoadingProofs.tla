----------------------------- MODULE LoadingProofs -----------------------------
(***************************************************************************)
(* Proofs about loading and unloading, about the two components that       *)
(* unloading has to stop at their work, the halves of hackbot_ngram.c, and *)
(* about the memory of the language model:                                 *)
(*   Loading  for any sequence of tracepoints, nothing a probe uses is     *)
(*            ever freed, the probes are on all together or not at all,    *)
(*            and an unloaded module has left nothing behind               *)
(*   Anomaly  for any number of processors and readers and any ring, the   *)
(*            alerts are freed when nobody can be using them, and a report *)
(*            that nothing disturbed is exact                              *)
(*   Ngram    for any number of processors, tokens and any intervals, the  *)
(*            tables are freed when nobody can be using them, halving      *)
(*            keeps up, and the adaptive model stays empty                 *)
(*   Inference  for any shape of the model, any files and any number of    *)
(*            loads, what is allocated is what the slot points to          *)
(* and of Unloading, which puts the four together. The constants are what  *)
(* the assumptions say: LoadingAssumption, AlertsAssumption and            *)
(* GramsAssumption.                                                        *)
(***************************************************************************)
EXTENDS Unloading, Lemmas

Full == {"state"} \cup Names
All == Full \cup {"ngram"}
Before(n) == {Tracepoints[i] : i \in {j \in 1 .. Last : j < n}}
From(n) == {Tracepoints[i] : i \in {j \in 1 .. Last : j >= n}}

Off == probes = {} /\ running = {}
Sensing == trace_state = TRUE /\ probes = found /\ Full \subseteq memory
Blind == trace_state = FALSE /\ Off /\ memory = {}

Early == {"console", "state", "rings", "ngram", "register", "rollback",
          "rolled back", "forget", "free"}
Middle == {"patrol", "device", "loaded", "refused", "stop patrol"}
Late == {"unregister", "unregistered", "exit ngram", "release",
         "exit console", "exit device", "unloaded"}

(* What is allocated and registered at each step of hackbot_trace_init.    *)
WhileLoading ==
    /\ pc \in Early => trace_state = FALSE
    /\ pc \in {"console", "state"} => Off /\ memory = {}
    /\ pc = "rings" => Off /\ memory = {"state"}
    /\ pc = "ngram" => Off /\ memory = Full
    /\ pc = "register" => /\ Full \subseteq memory /\ at \in 1 .. Last + 1
                          /\ probes = Before(at) \cap found
    /\ pc = "rollback" => /\ Full \subseteq memory /\ at \in 0 .. Last
                          /\ probes \subseteq Before(at + 1)
    /\ pc = "rolled back" => Full \subseteq memory /\ probes = {}
    /\ pc = "forget" => Off
    /\ pc = "free" => Off /\ memory \subseteq Full

Between == pc \in Middle => Sensing \/ Blind

(* What is still held at each step of HackbotModule::drop.                 *)
WhileUnloading ==
    /\ pc \in Late => patrol = FALSE
    /\ pc = "unregister" => /\ Full \subseteq memory /\ at \in Nat
                            /\ probes \subseteq From(at)
    /\ pc = "unregistered" => Full \subseteq memory /\ probes = {}
    /\ pc = "exit ngram" => Off
    /\ pc = "release" => Off /\ memory \subseteq Full
    /\ pc \in {"exit console", "exit device", "unloaded"} => Blind
    /\ pc \in {"exit device", "unloaded"} => console = FALSE
    /\ pc = "unloaded" => device = FALSE

(* The inductive invariant.                                                *)
IInv ==
    /\ TypeOK
    /\ pc \in Early \cup Middle \cup Late
    /\ WhileLoading /\ Between /\ WhileUnloading
    /\ MemoryInUse

------------------------------------------------------------------------------
(* Nothing comes before the first tracepoint, every one before the end, and *)
(* one more is one more.                                                   *)
LEMMA Positions ==
    /\ Last \in Nat /\ Names = {Tracepoints[i] : i \in 1 .. Last}
    /\ Before(1) = {} /\ Before(Last + 1) = Names
    /\ From(1) = Names
    /\ \A n \in Nat : n > Last => From(n) = {}
    /\ \A n \in 1 .. Last : /\ Tracepoints[n] \in Names
                            /\ Before(n + 1) = Before(n) \cup {Tracepoints[n]}
                            /\ From(n) = From(n + 1) \cup {Tracepoints[n]}
<1>1. Last \in Nat /\ DOMAIN Tracepoints = 1 .. Last
  BY LoadingAssumption DEF Last
<1>2. Names = {Tracepoints[i] : i \in 1 .. Last}
  BY <1>1 DEF Names
<1>3. Before(1) = {} /\ Before(Last + 1) = Names /\ From(1) = Names
  BY <1>1, <1>2 DEF Before, From
<1>4. \A n \in Nat : n > Last => From(n) = {}
  BY <1>1 DEF From
<1>5. ASSUME NEW n \in 1 .. Last
      PROVE  /\ Tracepoints[n] \in Names
             /\ Before(n + 1) = Before(n) \cup {Tracepoints[n]}
             /\ From(n) = From(n + 1) \cup {Tracepoints[n]}
  <2>1. Tracepoints[n] \in Names
    BY <1>2
  <2>2. Before(n + 1) = Before(n) \cup {Tracepoints[n]}
    <3>1. {j \in 1 .. Last : j < n + 1} = {j \in 1 .. Last : j < n} \cup {n}
      BY <1>1
    <3> QED BY <3>1 DEF Before
  <2>3. From(n) = From(n + 1) \cup {Tracepoints[n]}
    <3>1. {j \in 1 .. Last : j >= n} = {j \in 1 .. Last : j >= n + 1} \cup {n}
      BY <1>1
    <3> QED BY <3>1 DEF From
  <2> QED BY <2>1, <2>2, <2>3
<1> QED BY <1>1, <1>2, <1>3, <1>4, <1>5

(* Loading begins with nothing.                                            *)
LEMMA InitInvariant == Init => IInv
BY DEF Init, IInv, TypeOK, Early, Middle, Late, WhileLoading, Between,
       WhileUnloading, MemoryInUse, Off

(* Probes at work need what is allocated wherever probes are registered.   *)
LEMMA ProbesKeepInvariant ==
    ASSUME IInv, \/ \E k \in Names : ProbeStarts(k)
                 \/ \E x \in running : ProbeEnds(x)
    PROVE  IInv'
<1>1. /\ UNCHANGED <<found, memory, probes, trace_state, console, patrol,
                     device, pc, at>>
      /\ \A x \in running' \ running :
             /\ probes # {}
             /\ x \in Names \X SUBSET {"ngram"}
             /\ x[2] \subseteq memory
  BY DEF ProbeStarts, ProbeEnds, trace, others, control
<1>2. running' # {} => Full \subseteq memory /\ ~(Off /\ Off')
  BY <1>1 DEF IInv, Early, Middle, Late, WhileLoading, Between, WhileUnloading,
       Off, Sensing, Blind, MemoryInUse, Full
<1>3. Off => Off'
  BY <1>1 DEF Off
<1>4. TypeOK'
  BY <1>1 DEF IInv, TypeOK, Names
<1>5. MemoryInUse'
  BY <1>1, <1>2 DEF IInv, MemoryInUse, Full
<1>6. WhileLoading'
  BY <1>1, <1>3 DEF IInv, WhileLoading
<1>7. Between'
  BY <1>1, <1>3 DEF IInv, Between, Sensing, Blind
<1>8. WhileUnloading'
  BY <1>1, <1>3 DEF IInv, WhileUnloading, Blind
<1> QED
  BY <1>1, <1>4, <1>5, <1>6, <1>7, <1>8 DEF IInv

(* One step of the rollback takes back the last probe that is registered.  *)
LEMMA UnwindKeepsInvariant == ASSUME IInv, Unwind PROVE IInv'
<1>1. /\ pc = "rollback" /\ at \in 0 .. Last /\ Last \in Nat
      /\ probes \subseteq Before(at + 1) /\ Full \subseteq memory
  BY Positions DEF IInv, WhileLoading, Unwind, Goto
<1>2. TypeOK' /\ MemoryInUse' /\ trace_state' = FALSE
  BY <1>1 DEF Unwind, Goto, IInv, TypeOK, MemoryInUse, WhileLoading, Early,
              others
<1>3. CASE at > 0
  <2>1. /\ at' = at - 1 /\ at \in 1 .. Last
        /\ probes' = probes \ {Tracepoints[at]}
        /\ pc' = "rollback" /\ memory' = memory
    BY <1>1, <1>3 DEF Unwind, Goto
  <2>2. Before(at + 1) = Before(at) \cup {Tracepoints[at]} /\ at' + 1 = at
    BY <1>1, <2>1, Positions
  <2>3. probes' \subseteq Before(at' + 1) /\ at' \in 0 .. Last
    BY <1>1, <2>1, <2>2
  <2>4. WhileLoading'
    BY <1>1, <1>2, <2>1, <2>3 DEF WhileLoading, Early, Before, Full
  <2>5. Between' /\ WhileUnloading' /\ pc' \in Early
    BY <2>1 DEF Between, WhileUnloading, Early, Middle, Late
  <2> QED
    BY <1>2, <2>4, <2>5 DEF IInv
<1>4. CASE at = 0
  <2>1. at + 1 = 1
    BY <1>4
  <2>2. /\ probes' = {} /\ pc' = "rolled back" /\ memory' = memory
    <3>1. Before(at + 1) = {}
      BY <2>1, Positions
    <3>2. ~(at > 0)
      BY <1>1, <1>4
    <3> QED
      BY <1>1, <3>1, <3>2 DEF Unwind, Goto
  <2>3. WhileLoading'
    BY <1>1, <1>2, <2>2 DEF WhileLoading, Early, Full
  <2>4. Between' /\ WhileUnloading' /\ pc' \in Early
    BY <2>2 DEF Between, WhileUnloading, Early, Middle, Late
  <2> QED
    BY <1>2, <2>3, <2>4 DEF IInv
<1> QED BY <1>1, <1>3, <1>4

(* A step of loading, a failure and the steps of its rollback included.    *)
LEMMA LoadKeepsInvariant == ASSUME IInv, LoadStep PROVE IInv'
<1> USE Positions DEF IInv, TypeOK, Early, Middle, Late, WhileLoading, Between,
        WhileUnloading, MemoryInUse, Off, Sensing, Blind, Full, Goto,
        trace, others
<1>1. ASSUME InitConsole PROVE IInv'
  BY <1>1 DEF InitConsole
<1>2. ASSUME NEW ok \in BOOLEAN, AllocState(ok) PROVE IInv'
  BY <1>2 DEF AllocState
<1>3. ASSUME NEW rings \in SUBSET Names, AllocRings(rings) PROVE IInv'
  BY <1>3 DEF AllocRings
<1>4. ASSUME NEW ok \in BOOLEAN, InitNgram(ok) PROVE IInv'
  BY <1>4 DEF InitNgram
<1>5. ASSUME Register PROVE IInv'
  BY <1>5 DEF Register
<1>6. ASSUME RegisterFails PROVE IInv'
  BY <1>6 DEF RegisterFails
<1>7. ASSUME Activate PROVE IInv'
  <2>1. at = Last + 1
    BY <1>7 DEF Activate, IInv, WhileLoading, Goto
  <2>2. probes = found
    BY <1>7, <2>1 DEF Activate, IInv, TypeOK, WhileLoading, Goto
  <2> QED
    BY <1>7, <2>2 DEF Activate
<1>8. ASSUME Unwind PROVE IInv'
  BY <1>8, UnwindKeepsInvariant
<1>9. ASSUME Synchronize("rolled back", "forget") PROVE IInv'
  BY <1>9 DEF Synchronize
<1>10. ASSUME ExitNgram("forget", "free") PROVE IInv'
  BY <1>10 DEF ExitNgram
<1>11. ASSUME FreeAll("free", "patrol") PROVE IInv'
  BY <1>11 DEF FreeAll
<1>12. ASSUME NEW ok \in BOOLEAN, StartPatrol(ok) PROVE IInv'
  BY <1>12 DEF StartPatrol
<1>13. ASSUME NEW ok \in BOOLEAN, RegisterDevice(ok) PROVE IInv'
  BY <1>13 DEF RegisterDevice
<1> QED
  BY <1>1, <1>2, <1>3, <1>4, <1>5, <1>6, <1>7, <1>8, <1>9, <1>10, <1>11, <1>12,
     <1>13 DEF LoadStep

(* A step of unloading, and what comes before and after it.                *)
LEMMA UnloadKeepsInvariant ==
    ASSUME IInv, Unload \/ UnloadStep \/ Reload PROVE IInv'
<1> USE Positions DEF IInv, TypeOK, Early, Middle, Late, WhileLoading, Between,
        WhileUnloading, MemoryInUse, Off, Sensing, Blind, Full, Goto,
        trace, others
<1>1. ASSUME Unload PROVE IInv'
  BY <1>1 DEF Unload
<1>2. ASSUME StopPatrol PROVE IInv'
  BY <1>2 DEF StopPatrol
<1>3. ASSUME Unregister PROVE IInv'
  BY <1>3 DEF Unregister
<1>4. ASSUME Synchronize("unregistered", "exit ngram") PROVE IInv'
  BY <1>4 DEF Synchronize
<1>5. ASSUME ExitNgram("exit ngram", "release") PROVE IInv'
  BY <1>5 DEF ExitNgram
<1>6. ASSUME FreeAll("release", "exit console") PROVE IInv'
  BY <1>6 DEF FreeAll
<1>7. ASSUME ExitConsole PROVE IInv'
  BY <1>7 DEF ExitConsole
<1>8. ASSUME ExitDevice PROVE IInv'
  BY <1>8 DEF ExitDevice
<1>9. ASSUME Reload PROVE IInv'
  BY <1>9 DEF Reload
<1> QED
  BY <1>1, <1>2, <1>3, <1>4, <1>5, <1>6, <1>7, <1>8, <1>9 DEF UnloadStep

(* The invariant holds in every state of the specification.                *)
LEMMA Invariance == Spec => []IInv
<1>1. IInv /\ [Next]_vars => IInv'
  <2> SUFFICES ASSUME IInv, [Next]_vars PROVE IInv'
    OBVIOUS
  <2>1. CASE UNCHANGED vars
    BY <2>1, ZenonT(60) DEF vars, trace, others, control, IInv, TypeOK, WhileLoading,
       Between, WhileUnloading, MemoryInUse, Off, Sensing, Blind
  <2>2. CASE Next
    BY <2>2, ProbesKeepInvariant, LoadKeepsInvariant, UnloadKeepsInvariant
       DEF Next
  <2> QED BY <2>1, <2>2
<1> QED BY <1>1, InitInvariant, PTL DEF Spec

(* "all probes we asked for are on, or none", for any tracepoints.         *)
THEOREM AllOrNoneCorrect == Spec => []AllOrNone
<1>1. IInv => AllOrNone
  BY DEF IInv, Between, Middle, Sensing, Blind, Off, Full, AllOrNone
<1> QED BY <1>1, Invariance, PTL

(* No probe at work has its memory freed, in loading, rollback, unloading. *)
THEOREM MemoryCorrect == Spec => []MemoryInUse
BY Invariance, PTL DEF IInv

(* What was loaded, in part or in full, is all gone after unloading.       *)
THEOREM UnloadCorrect == Spec => []UnloadsClean
<1>1. IInv => UnloadsClean
  BY DEF IInv, WhileUnloading, Late, Blind, Off, UnloadsClean
<1> QED BY <1>1, Invariance, PTL

------------------------------------------------------------------------------
(***************************************************************************)
(* The alerts and the patrol thread, module Anomaly.                       *)
(***************************************************************************)
Readers == Alerts!Readers
Cells == 0 .. RingSize - 1

(* The types of the alerts' state.                                         *)
ReadPC == {"idle", "total", "scan", "clear"}
Probe == [pc : {"idle", "slot", "write", "count", "mark", "wake"},
          alert : Nat]
Read == [pc : ReadPC, head : Int, count : 0 .. RingSize, i : Nat,
         report : Seq(Nat), quiet : BOOLEAN]

Shape ==
    /\ taken \in Nat
    /\ ring \in [Cells -> Nat]
    /\ probe \in [CPU -> Probe]
    /\ reader \in [Readers -> Read]
    /\ \A r \in Readers : reader[r].i <= reader[r].count

(* A user reads only while the module is loaded and the patrol within a    *)
(* tick; the thread has ended when the tracepoints are unregistered, and   *)
(* no probe is left, nor begins, when what they use is freed.              *)
Stopping ==
    /\ unload # "loaded" =>
          \A u \in User \ {Patrol} : reader[u].pc = "idle"
    /\ reader[Patrol].pc # "idle" => thread = "tick"
    /\ unload \in {"joined", "draining", "drained", "freed"} => thread = "off"
    /\ unload \in {"draining", "drained", "freed"} => registered = FALSE
    /\ unload \in {"drained", "freed"} => Alerts!Quiet

------------------------------------------------------------------------------
(* The thread that has ended takes no step, and a tick ends after its reads.*)
LEMMA ThreadSteps ==
    ASSUME Alerts!PatrolStep \/ Alerts!Delay(TRUE) \/ Alerts!Timeout
    PROVE  /\ UNCHANGED <<taken, ring, count, lapped, probe, reader,
                          should_stop, registered, unload>>
           /\ thread # "off"
           /\ thread = "tick" => reader[Patrol].pc = "idle"
<1> USE DEF Alerts!PatrolAt, Alerts!WaitReturns, Alerts!alerting, Alerts!ending
<1>1. ASSUME NEW b \in BOOLEAN, Alerts!Delay(b) PROVE thread = "delay"
  BY <1>1 DEF Alerts!Delay
<1>2. \A b \in BOOLEAN : Alerts!Delay(b) =>
          UNCHANGED <<taken, ring, count, lapped, probe, reader, should_stop,
                      registered, unload>>
  BY DEF Alerts!Delay
<1>3. CASE \E b \in BOOLEAN : Alerts!Delay(b)
  BY <1>1, <1>2, <1>3
<1>4. CASE Alerts!Top \/ Alerts!WaitEnters \/ Alerts!Prepare
  BY <1>4 DEF Alerts!Top, Alerts!WaitEnters, Alerts!Prepare
<1>5. CASE Alerts!Recheck \/ Alerts!Woken \/ Alerts!Timeout
  BY <1>5 DEF Alerts!Recheck, Alerts!Woken, Alerts!Timeout
<1>6. CASE Alerts!TickEnds \/ Alerts!After \/ Alerts!Clear
  BY <1>6 DEF Alerts!TickEnds, Alerts!After, Alerts!Clear
<1> QED
  BY <1>3, <1>4, <1>5, <1>6 DEF Alerts!PatrolStep

(* What the steps of a probe leave alone, and where they leave the probe.  *)
LEMMA ProbeSteps ==
    ASSUME Shape, NEW c \in CPU, Alerts!ProbeStep(c)
    PROVE  /\ UNCHANGED <<thread, reader, should_stop, registered, unload>>
           /\ probe[c].pc # "idle"
           /\ \A d \in CPU \ {c} : probe'[d] = probe[d]
<1> USE DEF Alerts!ProbeAt, Alerts!ProbeEnds, Alerts!thread, Alerts!ending,
        Probe
<1>1. probe \in [CPU -> Probe]
  BY DEF Shape
<1>2. CASE Alerts!TakeSlot(c)
  BY <1>1, <1>2 DEF Alerts!TakeSlot
<1>3. CASE Alerts!WriteEntry(c)
  BY <1>1, <1>3 DEF Alerts!WriteEntry
<1>4. CASE Alerts!CountAlert(c) \/ Alerts!Mark(c)
  BY <1>1, <1>4 DEF Alerts!CountAlert, Alerts!Mark
<1>5. CASE Alerts!Wake(c)
  BY <1>1, <1>5 DEF Alerts!Wake
<1> QED
  BY <1>2, <1>3, <1>4, <1>5 DEF Alerts!ProbeStep

(* What a reader's step leaves alone.                                      *)
LEMMA ReadSteps ==
    ASSUME Shape, NEW r \in Readers, Alerts!ReadStep(r)
    PROVE  /\ UNCHANGED <<taken, ring, count, lapped, probe, thread,
                          should_stop, registered, unload>>
           /\ reader[r].pc # "idle"
           /\ \A q \in Readers \ {r} : reader'[q] = reader[q]
<1> USE DEF Alerts!alerting, Alerts!thread, Alerts!ending
<1>1. reader \in [Readers -> Read]
  BY DEF Shape
<1>2. \A q \in Readers \ {r} : reader'[q] = reader[q]
  <2>1. \E x : reader' = [reader EXCEPT ![r] = x]
    BY <1>1 DEF Alerts!ReadStep, Alerts!ReadTotal, Alerts!ReadEntry,
                Alerts!ReadScanned, Alerts!ReadClear
  <2> QED
    BY <1>1, <2>1
<1> QED
  BY <1>2 DEF Alerts!ReadStep, Alerts!ReadTotal, Alerts!ReadEntry,
              Alerts!ReadScanned, Alerts!ReadClear

(* A read begins for a user while the module is loaded, or within a tick.  *)
LEMMA ReadCalls ==
    ASSUME Shape, NEW r \in Readers, NEW n, Alerts!ReadCall(r, n)
    PROVE  /\ UNCHANGED <<taken, ring, count, lapped, probe, thread,
                          should_stop, registered, unload>>
           /\ IF r = Patrol THEN thread = "tick" ELSE unload = "loaded"
           /\ reader' = [reader EXCEPT ![r] =
                  [Alerts!NoRead EXCEPT
                      !.pc = "total", !.head = taken - 1, !.count = n,
                      !.quiet = Alerts!Quiet /\ ~lapped]]
           /\ \A q \in Readers \ {r} : reader'[q] = reader[q]
<1>1. reader \in [Readers -> Read]
  BY DEF Shape
<1> QED
  BY <1>1 DEF Alerts!ReadCall, Alerts!alerting, Alerts!thread, Alerts!ending

(* The fields of a read, and those of a read before it begins, when it is  *)
(* about to return, and when it goes on.                                   *)
LEMMA ReadFields ==
    ASSUME NEW y \in Read
    PROVE  /\ y.head \in Int /\ y.count \in 0 .. RingSize /\ y.i \in Nat
           /\ y.report \in Seq(Nat)
BY DEF Read

LEMMA NoReadType ==
    ASSUME Alerts!AnomalyAssumption
    PROVE  /\ Alerts!NoRead \in Read
           /\ Alerts!NoRead.pc = "idle" /\ Alerts!NoRead.quiet = FALSE
           /\ Alerts!NoRead.i <= Alerts!NoRead.count
<1>1. RingSize \in Nat \ {0}
  BY DEF Alerts!AnomalyAssumption
<1> QED
  BY <1>1 DEF Alerts!NoRead, Read, ReadPC

LEMMA ReadAt ==
    ASSUME NEW y \in Read, NEW to \in ReadPC
    PROVE  /\ [y EXCEPT !.pc = to] \in Read
           /\ [y EXCEPT !.pc = to].pc = to
           /\ [y EXCEPT !.pc = to].quiet = y.quiet
           /\ [y EXCEPT !.pc = to].head = y.head
           /\ [y EXCEPT !.pc = to].count = y.count
           /\ [y EXCEPT !.pc = to].i = y.i
           /\ [y EXCEPT !.pc = to].report = y.report
BY DEF Read

ReadOn(y, s) == [y EXCEPT !.i = y.i + 1, !.report = s]

LEMMA ReadGoesOn ==
    ASSUME NEW y \in Read, NEW s \in Seq(Nat)
    PROVE  /\ ReadOn(y, s) \in Read /\ ReadOn(y, s).pc = y.pc
           /\ ReadOn(y, s).quiet = y.quiet /\ ReadOn(y, s).head = y.head
           /\ ReadOn(y, s).count = y.count /\ ReadOn(y, s).i = y.i + 1
           /\ ReadOn(y, s).report = s
<1>1. PICK n \in Nat : n = y.i + 1
  BY DEF Read
<1>2. PICK x : x = ReadOn(y, s)
  OBVIOUS
<1>3. x = [y EXCEPT !.i = n, !.report = s]
  BY <1>1, <1>2 DEF ReadOn
<1>4. x \in Read
  BY <1>3 DEF Read
<1>5. x.i = n /\ x.report = s /\ x.pc = y.pc /\ x.quiet = y.quiet
      /\ x.head = y.head /\ x.count = y.count
  BY <1>3 DEF Read
<1> QED
  BY <1>1, <1>2, <1>4, <1>5

LEMMA ShapeInit ==
    ASSUME Alerts!AnomalyAssumption, Alerts!Init PROVE Shape /\ Stopping
<1>1. RingSize \in Nat \ {0}
  BY DEF Alerts!AnomalyAssumption
<1>2. Alerts!NoRead \in Read /\ Alerts!NoRead.pc = "idle"
  BY NoReadType
<1>3. Alerts!NoProbe \in Probe
  BY DEF Alerts!NoProbe, Probe
<1>4. Patrol \in Readers /\ User \subseteq Readers
  BY DEF Readers, Alerts!Readers
<1>5. /\ taken = 0 /\ ring = [s \in Cells |-> 0] /\ unload = "loaded"
      /\ probe = [c \in CPU |-> Alerts!NoProbe]
      /\ reader = [r \in Readers |-> Alerts!NoRead]
  BY DEF Alerts!Init, Cells, Readers
<1>6. Shape
  <2>1. reader \in [Readers -> Read] /\ \A r \in Readers : reader[r] = Alerts!NoRead
    BY <1>2, <1>5
  <2> QED
    BY <1>3, <1>5, <2>1 DEF Shape, Alerts!NoRead
<1>7. Stopping
  BY <1>2, <1>4, <1>5 DEF Stopping
<1> QED
  BY <1>6, <1>7

LEMMA ShapeDebounce ==
    ASSUME Shape, NEW c \in CPU, Alerts!Debounce(c) PROVE Shape'
<1>1. /\ UNCHANGED <<taken, ring>>
      /\ probe' = [probe EXCEPT ![c].pc = "slot"]
      /\ reader' = [r \in Readers |-> [reader[r] EXCEPT !.quiet = FALSE]]
  BY DEF Alerts!Debounce, Readers
<1>2. ASSUME NEW r \in Readers
      PROVE  /\ [reader[r] EXCEPT !.quiet = FALSE] \in Read
             /\ [reader[r] EXCEPT !.quiet = FALSE].i = reader[r].i
             /\ [reader[r] EXCEPT !.quiet = FALSE].count = reader[r].count
  <2>1. PICK x \in Read : x = reader[r]
    BY DEF Shape
  <2> QED
    BY <2>1 DEF Read
<1>3. reader' \in [Readers -> Read]
      /\ \A r \in Readers : reader'[r].i <= reader'[r].count
  BY <1>1, <1>2 DEF Shape
<1>4. probe' \in [CPU -> Probe]
  BY <1>1 DEF Shape, Probe
<1> QED
  BY <1>1, <1>3, <1>4 DEF Shape

LEMMA ShapeProbe ==
    ASSUME Shape, NEW c \in CPU, Alerts!ProbeStep(c) PROVE Shape'
<1> DEFINE Type == [CPU -> Probe]
<1>1. UNCHANGED reader
  BY ProbeSteps
<1>2. taken \in Nat /\ ring \in [Cells -> Nat] /\ probe \in Type
  BY DEF Shape
<1>3. taken' \in Nat /\ ring' \in [Cells -> Nat] /\ probe' \in Type
  <2> USE DEF Alerts!ProbeAt, Alerts!ProbeEnds, Probe
  <2>1. CASE Alerts!TakeSlot(c)
    BY <1>2, <2>1 DEF Alerts!TakeSlot
  <2>2. CASE Alerts!WriteEntry(c)
    <3>1. probe[c].alert \in Nat
      BY <1>2
    <3> QED
      BY <1>2, <2>2, <3>1 DEF Alerts!WriteEntry
  <2>3. CASE Alerts!CountAlert(c) \/ Alerts!Mark(c)
    BY <1>2, <2>3 DEF Alerts!CountAlert, Alerts!Mark
  <2>4. CASE Alerts!Wake(c)
    BY <1>2, <2>4 DEF Alerts!Wake, Alerts!NoProbe
  <2> QED
    BY <2>1, <2>2, <2>3, <2>4 DEF Alerts!ProbeStep
<1> QED
  BY <1>1, <1>3 DEF Shape

(* A step that changes one read.                                           *)
LEMMA ShapeReader ==
    ASSUME Shape, NEW r \in Readers, UNCHANGED <<taken, ring, probe>>,
           NEW x \in Read, reader' = [reader EXCEPT ![r] = x], x.i <= x.count
    PROVE  Shape'
BY DEF Shape

LEMMA ShapeCall ==
    ASSUME Alerts!AnomalyAssumption, Shape, NEW r \in Readers, NEW n \in Counts,
           Alerts!ReadCall(r, n)
    PROVE  Shape'
<1>0. RingSize \in Nat \ {0} /\ Counts \subseteq 1 .. RingSize
  BY DEF Alerts!AnomalyAssumption
<1>1. PICK x : x = [Alerts!NoRead EXCEPT
                       !.pc = "total", !.head = taken - 1, !.count = n,
                       !.quiet = Alerts!Quiet /\ ~lapped]
  OBVIOUS
<1>2. x = [pc |-> "total", head |-> taken - 1, count |-> n, i |-> 0,
           report |-> << >>, quiet |-> Alerts!Quiet /\ ~lapped]
  BY <1>1 DEF Alerts!NoRead
<1>3. n \in 0 .. RingSize /\ taken - 1 \in Int /\ 0 <= n
  BY <1>0 DEF Shape
<1>4. x \in Read /\ x.i <= x.count
  BY <1>2, <1>3 DEF Read, ReadPC
<1>5. reader' = [reader EXCEPT ![r] = x] /\ UNCHANGED <<taken, ring, probe>>
  BY <1>1, ReadCalls
<1> QED
  BY <1>4, <1>5, ShapeReader

LEMMA ShapeRead ==
    ASSUME Alerts!AnomalyAssumption, Shape, NEW r \in Readers, Alerts!ReadStep(r)
    PROVE  Shape'
<1>0. RingSize \in Nat \ {0}
  BY DEF Alerts!AnomalyAssumption
<1>1. UNCHANGED <<taken, ring, probe>>
  BY ReadSteps
<1>2. PICK y \in Read : y = reader[r] /\ y.i <= y.count
  BY DEF Shape
<1>3. PICK z \in Read : z = [Alerts!NoRead EXCEPT !.pc = "clear"] /\ z.i <= z.count
  <2>1. Alerts!NoRead \in Read /\ Alerts!NoRead.i <= Alerts!NoRead.count
    BY NoReadType
  <2>2. PICK w \in Read : w = Alerts!NoRead /\ w.i <= w.count
    BY <2>1
  <2>3. "clear" \in ReadPC
    BY DEF ReadPC
  <2>4. /\ [w EXCEPT !.pc = "clear"] \in Read
        /\ [w EXCEPT !.pc = "clear"].i = w.i
        /\ [w EXCEPT !.pc = "clear"].count = w.count
    BY <2>3, ReadAt
  <2> QED
    BY <2>2, <2>4
<1>4. CASE Alerts!ReadTotal(r)
  <2>0. PICK x : x = [y EXCEPT !.pc = "scan"]
    OBVIOUS
  <2>1. x \in Read /\ x.i <= x.count
    <3>1. "scan" \in ReadPC
      BY DEF ReadPC
    <3>2. x \in Read
      BY <2>0, <3>1, ReadAt
    <3>3. x.i = y.i /\ x.count = y.count
      BY <2>0, <3>1, ReadAt
    <3> QED
      BY <1>2, <3>2, <3>3
  <2>2. \/ reader' = [reader EXCEPT ![r] = x]
        \/ reader' = [reader EXCEPT ![r] = z]
    BY <1>2, <1>3, <1>4, <2>0 DEF Alerts!ReadTotal
  <2> QED
    BY <1>1, <1>3, <2>1, <2>2, ShapeReader
<1>5. CASE Alerts!ReadEntry(r)
  <2>1. PICK entry :
            /\ y.i < y.count
            /\ \E a \in Int : entry = ring[a % RingSize]
            /\ reader' = [reader EXCEPT
                   ![r] = [y EXCEPT !.i = @ + 1,
                                    !.report = IF entry = 0 THEN @
                                               ELSE Append(@, entry)]]
    <3>1. y.head \in Int /\ y.count \in Int /\ y.i \in Int
      BY ReadFields
    <3>2. PICK a \in Int :
              a = ((y.head - y.count + 1 + RingSize) % RingSize) + y.i
      BY <1>0, <3>1
    <3> QED
      BY <1>2, <1>5, <3>2 DEF Alerts!ReadEntry
  <2>2. entry \in Nat
    <3>1. PICK a \in Int : entry = ring[a % RingSize]
      BY <2>1
    <3>2. a % RingSize \in Cells
      BY <1>0 DEF Cells
    <3> QED
      BY <3>1, <3>2 DEF Shape
  <2>3. PICK s \in Seq(Nat) :
            s = IF entry = 0 THEN y.report ELSE Append(y.report, entry)
    <3>1. y.report \in Seq(Nat) /\ Append(y.report, entry) \in Seq(Nat)
      BY <2>2, ReadFields
    <3> QED
      BY <3>1, Zenon
  <2>4. reader' = [reader EXCEPT ![r] = ReadOn(y, s)]
    BY <2>1, <2>3 DEF ReadOn
  <2>5. ReadOn(y, s) \in Read
    BY ReadGoesOn
  <2>6. ReadOn(y, s).i <= ReadOn(y, s).count
    <3>1. ReadOn(y, s).i = y.i + 1 /\ ReadOn(y, s).count = y.count
      BY ReadGoesOn
    <3> QED
      BY <2>1, <3>1, ReadFields
  <2> QED
    BY <1>1, <2>4, <2>5, <2>6, ShapeReader
<1>6. CASE Alerts!ReadScanned(r)
  BY <1>1, <1>3, <1>6, ShapeReader DEF Alerts!ReadScanned
<1>7. CASE Alerts!ReadClear(r)
  BY <1>1, <1>7, NoReadType, ShapeReader DEF Alerts!ReadClear
<1> QED
  BY <1>4, <1>5, <1>6, <1>7 DEF Alerts!ReadStep

LEMMA ShapeNext ==
    ASSUME Alerts!AnomalyAssumption, Shape, [Alerts!Next]_Alerts!vars PROVE Shape'
<1>1. CASE UNCHANGED Alerts!vars
  BY <1>1 DEF Alerts!vars, Alerts!alerting, Shape
<1>2. CASE Alerts!PatrolStep \/ Alerts!Delay(TRUE) \/ Alerts!Timeout
  BY <1>2, ThreadSteps DEF Shape
<1>3. CASE Alerts!StopPatrol \/ Alerts!UnloadStep
  BY <1>3 DEF Shape, Alerts!StopPatrol, Alerts!UnloadStep, Alerts!PatrolJoined,
     Alerts!Unregister, Alerts!Synchronize, Alerts!Free, Alerts!UnloadAt,
     Alerts!alerting
<1>4. CASE \E c \in CPU : Alerts!Debounce(c) \/ Alerts!ProbeStep(c)
  BY <1>4, ShapeDebounce, ShapeProbe
<1>5. CASE \E r \in Readers, n \in Counts : Alerts!ReadCall(r, n)
  BY <1>5, ShapeCall
<1>6. CASE \E r \in Readers : Alerts!ReadStep(r)
  BY <1>6, ShapeRead
<1> QED
  BY <1>1, <1>2, <1>3, <1>4, <1>5, <1>6 DEF Alerts!Next, Readers

(* A probe begins only while the tracepoints are registered, and leaves    *)
(* the reads where they are.                                               *)
LEMMA Begins ==
    ASSUME Shape, NEW c \in CPU, Alerts!Debounce(c)
    PROVE  /\ registered
           /\ UNCHANGED <<taken, ring, count, lapped, thread, should_stop,
                          registered, unload>>
           /\ \A r \in Readers : reader'[r].pc = reader[r].pc
<1>1. reader' = [r \in Readers |-> [reader[r] EXCEPT !.quiet = FALSE]]
  BY DEF Alerts!Debounce, Readers
<1>2. ASSUME NEW r \in Readers PROVE reader'[r].pc = reader[r].pc
  <2>1. PICK x \in Read : x = reader[r]
    BY DEF Shape
  <2> QED
    BY <1>1, <2>1 DEF Read
<1> QED
  BY <1>2 DEF Alerts!Debounce, Alerts!thread, Alerts!ending

LEMMA StoppingNext ==
    ASSUME Shape, Stopping, [Alerts!Next]_Alerts!vars PROVE Stopping'
<1> USE DEF Stopping, Alerts!Quiet
<1>0. Patrol \in Readers /\ User \subseteq Readers
  BY DEF Readers, Alerts!Readers
<1>1. CASE UNCHANGED Alerts!vars
  BY <1>1 DEF Alerts!vars, Alerts!alerting, Alerts!thread, Alerts!ending
<1>2. CASE Alerts!PatrolStep \/ Alerts!Delay(TRUE) \/ Alerts!Timeout
  BY <1>2, ThreadSteps
<1>3. CASE Alerts!StopPatrol \/ Alerts!UnloadStep
  <2> USE DEF Alerts!UnloadAt, Alerts!alerting, Alerts!thread
  <2>1. CASE Alerts!StopPatrol
    BY <2>1 DEF Alerts!StopPatrol
  <2>2. CASE Alerts!PatrolJoined
    BY <2>2 DEF Alerts!PatrolJoined
  <2>3. CASE Alerts!Unregister
    BY <2>3 DEF Alerts!Unregister
  <2>4. CASE Alerts!Synchronize
    BY <2>4 DEF Alerts!Synchronize
  <2>5. CASE Alerts!Free
    BY <2>5 DEF Alerts!Free
  <2> QED
    BY <1>3, <2>1, <2>2, <2>3, <2>4, <2>5 DEF Alerts!UnloadStep
<1>4. ASSUME NEW c \in CPU, Alerts!Debounce(c) PROVE Stopping'
  BY <1>0, <1>4, Begins
<1>5. ASSUME NEW c \in CPU, Alerts!ProbeStep(c) PROVE Stopping'
  BY <1>5, ProbeSteps
<1>6. ASSUME NEW r \in Readers, NEW n \in Counts, Alerts!ReadCall(r, n)
      PROVE  Stopping'
  BY <1>0, <1>6, ReadCalls
<1>7. ASSUME NEW r \in Readers, Alerts!ReadStep(r) PROVE Stopping'
  BY <1>0, <1>7, ReadSteps DEF Readers, Alerts!Readers
<1> QED
  BY <1>1, <1>2, <1>3, <1>4, <1>5, <1>6, <1>7 DEF Alerts!Next, Readers

LEMMA StoppingCorrect ==
    ASSUME Alerts!AnomalyAssumption PROVE Alerts!Spec => [](Shape /\ Stopping)
<1>1. Alerts!Init => Shape /\ Stopping
  BY ShapeInit
<1>2. (Shape /\ Stopping) /\ [Alerts!Next]_Alerts!vars => (Shape /\ Stopping)'
  BY ShapeNext, StoppingNext
<1> QED
  BY <1>1, <1>2, PTL DEF Alerts!Spec

(* Memory is freed only when no probe on any processor, no reader and no   *)
(* patrol thread can be using it, whatever they were doing when unloading  *)
(* began, for any number of processors and users.                          *)
THEOREM AlertsMemoryCorrect ==
    ASSUME Alerts!AnomalyAssumption PROVE Alerts!Spec => []Alerts!FreedMemoryUnused
<1>1. Shape /\ Stopping => Alerts!FreedMemoryUnused
  BY DEF Stopping, Alerts!FreedMemoryUnused, Alerts!Readers
<1> QED
  BY <1>1, StoppingCorrect, PTL

------------------------------------------------------------------------------
(* What a slot has is an alert of its own, or it is empty.                 *)
Own(cells, n) ==
    \A s \in Cells : cells[s] # 0 =>
        cells[s] \in 1 .. n /\ (cells[s] - 1) % RingSize = s

(* A probe that has its slot, and not yet filled it.                       *)
Writing(p, alert) == \E c \in CPU : p[c].pc = "write" /\ p[c].alert = alert

(* The newest alerts are in the ring, or about to be.                      *)
Newest(cells, n, p) ==
    \A alert \in 1 .. n :
        alert > n - RingSize =>
            cells[(alert - 1) % RingSize] = alert \/ Writing(p, alert)

Filled ==
    /\ Own(ring, taken)
    /\ \A c \in CPU : probe[c].pc = "write" => probe[c].alert \in 1 .. taken
    /\ ~lapped => Newest(ring, taken, probe)

(* How many slots an undisturbed read finds empty before the first alert,  *)
(* and what it has reported when it has been at i of them.                 *)
Ahead(n, size) == IF size > n THEN size - n ELSE 0
Reported(n, size, i, s) ==
    LET e == Ahead(n, size)
    IN  /\ Len(s) = IF i <= e THEN 0 ELSE i - e
        /\ \A j \in 1 .. Len(s) : s[j] = n - (size - e) + j

Undisturbed ==
    \A r \in Readers : reader[r].quiet =>
        /\ Alerts!Quiet /\ ~lapped
        /\ reader[r].head = taken - 1
        /\ Reported(taken, reader[r].count, reader[r].i, reader[r].report)

(* What a read finds at its next slot.                                     *)
LEMMA Found ==
    ASSUME RingSize \in Nat \ {0}, NEW cells \in [Cells -> Nat],
           NEW n \in Nat, NEW size \in 1 .. RingSize, NEW i \in 0 .. size - 1,
           Own(cells, n),
           \A alert \in 1 .. n : alert > n - RingSize =>
               cells[(alert - 1) % RingSize] = alert,
           NEW entry,
           entry = cells[((((n - 1) - size + 1 + RingSize) % RingSize) + i)
                             % RingSize]
    PROVE  /\ i < Ahead(n, size) => entry = 0
           /\ i >= Ahead(n, size) => entry = n - size + i + 1
<1> DEFINE N == RingSize
<1>1. PICK t \in Nat : t = n - size + N /\ t = (n - 1) - size + 1 + N
  OBVIOUS
<1>2. entry = cells[(t + i) % N]
  <2>1. i \in 0 .. N
    OBVIOUS
  <2> QED
    BY <1>1, <2>1, ModModAdd
<1>3. ASSUME i < Ahead(n, size) PROVE entry = 0
  <2>1. t + i \in 0 .. N - 1 /\ t + i >= n
    BY <1>1, <1>3 DEF Ahead
  <2>2. (t + i) % N = t + i /\ t + i \in Cells
    BY <2>1, ModSmall DEF Cells
  <2>3. ASSUME entry # 0 PROVE FALSE
    <3>1. entry \in 1 .. n /\ (entry - 1) % N = t + i
      BY <1>2, <2>2, <2>3 DEF Own
    <3>2. entry - 1 \in 0 .. N - 1
      BY <2>1, <3>1
    <3>3. (entry - 1) % N = entry - 1
      BY <3>2, ModSmall
    <3> QED
      BY <2>1, <3>1, <3>3
  <2> QED
    BY <2>3
<1>4. ASSUME i >= Ahead(n, size) PROVE entry = n - size + i + 1
  <2>1. PICK p \in Nat : p = n - size + i /\ t + i = p + N
    BY <1>1, <1>4 DEF Ahead
  <2>2. (p + N) % N = p % N
    <3>1. p % N \in 0 .. N - 1
      BY DivMod
    <3>2. N \in 0 .. N /\ ~((p % N) + N < N) /\ (p % N) + N - N = p % N
      BY <3>1
    <3> QED
      BY <3>2, ModAdd
  <2>3. p + 1 \in 1 .. n /\ p + 1 > n - N /\ (p + 1) - 1 = p
    BY <2>1
  <2>4. cells[p % N] = p + 1
    BY <2>3
  <2> QED
    BY <1>2, <2>1, <2>2, <2>4
<1> QED
  BY <1>3, <1>4

(* One more slot of an undisturbed read.                                   *)
LEMMA AheadIs ==
    ASSUME NEW n \in Nat, NEW size \in Nat
    PROVE  /\ Ahead(n, size) \in Nat
           /\ Ahead(n, size) = 0 \/ Ahead(n, size) = size - n
           /\ n - (size - Ahead(n, size)) \in Nat
           /\ size - Ahead(n, size) = IF n < size THEN n ELSE size
BY DEF Ahead

LEMMA AppendAt ==
    ASSUME NEW q \in Seq(Nat), NEW entry \in Nat
    PROVE  /\ Append(q, entry) \in Seq(Nat)
           /\ Len(Append(q, entry)) = Len(q) + 1
           /\ Append(q, entry)[Len(q) + 1] = entry
           /\ \A j \in 1 .. Len(q) : Append(q, entry)[j] = q[j]
<1>1. Append(q, entry) \in Seq(Nat)
  OBVIOUS
<1>2. Len(Append(q, entry)) = Len(q) + 1
  OBVIOUS
<1>3. Append(q, entry)[Len(q) + 1] = entry
  OBVIOUS
<1>4. ASSUME NEW j \in 1 .. Len(q) PROVE Append(q, entry)[j] = q[j]
  OBVIOUS
<1> QED
  BY <1>1, <1>2, <1>3, <1>4

LEMMA ReportedOn ==
    ASSUME NEW n \in Nat, NEW size \in Nat, NEW i \in Nat,
           NEW q \in Seq(Nat), Reported(n, size, i, q)
    PROVE  /\ i < Ahead(n, size) => Reported(n, size, i + 1, q)
           /\ i >= Ahead(n, size) =>
                 Reported(n, size, i + 1, Append(q, n - size + i + 1))
<1>1. PICK e \in Nat : e = Ahead(n, size) /\ (e = 0 \/ e = size - n)
  BY AheadIs
<1>2. /\ i <= e => Len(q) = 0
      /\ ~(i <= e) => Len(q) = i - e
      /\ \A j \in 1 .. Len(q) : q[j] = n - (size - e) + j
  BY <1>1 DEF Reported
<1>3. ASSUME i < e PROVE Reported(n, size, i + 1, q)
  <2>1. Len(q) = (IF i + 1 <= e THEN 0 ELSE i + 1 - e)
    BY <1>2, <1>3
  <2> QED
    BY <1>1, <1>2, <2>1 DEF Reported
<1>4. ASSUME ~(i < e)
      PROVE Reported(n, size, i + 1, Append(q, n - size + i + 1))
  <2>1. PICK entry \in Nat : entry = n - size + i + 1
    <3>1. n - (size - e) \in Nat /\ ~(i < e)
      BY <1>1, <1>4, AheadIs
    <3>2. n - size + i + 1 \in Nat
      BY <3>1
    <3> QED
      BY <3>2
  <2>2. PICK m \in Nat : m = Len(q) /\ m = i - e
    BY <1>1, <1>2, <1>4
  <2>3. PICK s \in Seq(Nat) :
           /\ s = Append(q, entry) /\ Len(s) = m + 1 /\ s[m + 1] = entry
           /\ \A j \in 1 .. m : s[j] = q[j]
    <3>1. PICK s \in Seq(Nat) : s = Append(q, entry)
      BY AppendAt
    <3>2. /\ Len(s) = Len(q) + 1 /\ s[Len(q) + 1] = entry
          /\ \A j \in 1 .. Len(q) : s[j] = q[j]
      BY <3>1, AppendAt
    <3> QED
      BY <2>2, <3>1, <3>2
  <2>4. Len(s) = m + 1 /\ s[m + 1] = entry /\ \A j \in 1 .. m : s[j] = q[j]
    BY <2>3
  <2>5. entry = n - (size - e) + (m + 1) /\ m + 1 = i + 1 - e
    <3>1. e \in Int /\ m = i - e /\ entry = n - size + i + 1
      BY <1>1, <2>1, <2>2
    <3> QED
      BY <3>1
  <2>6. \A j \in 1 .. m + 1 : s[j] = n - (size - e) + j
    <3>1. \A j \in 1 .. m + 1 : j \in 1 .. m \/ j = m + 1
      OBVIOUS
    <3> QED
      BY <1>2, <2>2, <2>4, <2>5, <3>1
  <2>7. Len(s) = (IF i + 1 <= e THEN 0 ELSE i + 1 - e)
    BY <1>1, <1>4, <2>4, <2>5
  <2>8. Reported(n, size, i + 1, s)
    <3>1. \A j \in 1 .. Len(s) : s[j] = n - (size - e) + j
      BY <2>4, <2>6
    <3> QED
      BY <1>1, <2>7, <3>1 DEF Reported
  <2> QED
    BY <2>1, <2>3, <2>8
<1> QED
  BY <1>1, <1>3, <1>4, AheadIs
------------------------------------------------------------------------------
(* The steps that neither take a slot nor fill one.                        *)
LEMMA FilledKept ==
    ASSUME Filled, UNCHANGED <<taken, ring, lapped>>,
           \A c \in CPU : /\ probe'[c].pc = "write" <=> probe[c].pc = "write"
                          /\ probe'[c].pc = "write" =>
                                probe'[c].alert = probe[c].alert
    PROVE  Filled'
<1>1. \A alert : Writing(probe, alert) => Writing(probe', alert)
  BY DEF Writing
<1>2. Newest(ring, taken, probe) => Newest(ring, taken, probe')
  BY <1>1 DEF Newest
<1>3. \A c \in CPU : probe'[c].pc = "write" => probe'[c].alert \in 1 .. taken
  BY DEF Filled
<1> QED
  BY <1>2, <1>3 DEF Filled

LEMMA OwnGrows ==
    ASSUME NEW cells, NEW n \in Nat, Own(cells, n) PROVE Own(cells, n + 1)
BY DEF Own

LEMMA FilledTake ==
    ASSUME RingSize \in Nat \ {0}, Shape, Filled,
           NEW c \in CPU, Alerts!TakeSlot(c)
    PROVE  Filled'
<1>1. PICK n \in Nat : n = taken
  BY DEF Shape
<1>2. PICK p \in [CPU -> Probe] : p = probe
  BY DEF Shape
<1>3. PICK x : x = [pc |-> "write", alert |-> n + 1]
  OBVIOUS
<1>4. /\ p[c].pc = "slot" /\ taken' = n + 1 /\ probe' = [p EXCEPT ![c] = x]
      /\ UNCHANGED <<ring, lapped>>
  BY <1>1, <1>2, <1>3 DEF Alerts!TakeSlot
<1>5. PICK q : q = probe' /\ q[c] = x /\ \A d \in CPU \ {c} : q[d] = p[d]
  BY <1>2, <1>4
<1>6. \A d \in CPU : q[d].pc = "write" => q[d].alert \in 1 .. n + 1
  <2>1. \A d \in CPU : p[d].pc = "write" => p[d].alert \in 1 .. n
    BY <1>1, <1>2 DEF Filled
  <2>2. n + 1 \in 1 .. n + 1 /\ \A k \in 1 .. n : k \in 1 .. n + 1
    OBVIOUS
  <2> QED
    BY <1>3, <1>5, <2>1, <2>2
<1>7. ASSUME Newest(ring, n, p) PROVE Newest(ring, n + 1, q)
  <2>1. Writing(q, n + 1)
    BY <1>3, <1>5 DEF Writing
  <2>2. \A k : Writing(p, k) => Writing(q, k)
    BY <1>4, <1>5 DEF Writing
  <2>3. \A k \in 1 .. n + 1 : k > (n + 1) - RingSize =>
            k = n + 1 \/ (k \in 1 .. n /\ k > n - RingSize)
    OBVIOUS
  <2> QED
    BY <1>7, <2>1, <2>2, <2>3 DEF Newest
<1>8. Own(ring, n + 1)
  BY <1>1, OwnGrows DEF Filled
<1> QED
  BY <1>1, <1>2, <1>4, <1>5, <1>6, <1>7, <1>8 DEF Filled

(* A slot is written over by its own alert, or by one that a whole ring of *)
(* alerts has overtaken.                                                   *)
LEMMA Apart ==
    ASSUME RingSize \in Nat \ {0}, NEW n \in Nat, NEW a \in 1 .. n,
           NEW b \in 1 .. n, b > n - RingSize, b < a
    PROVE  (b - 1) % RingSize # (a - 1) % RingSize
<1>1. PICK k \in 1 .. RingSize - 1 : k = a - b
  OBVIOUS
<1>2. b - 1 \in Nat /\ (b - 1) + k = a - 1
  BY <1>1
<1> QED
  BY <1>2, ModDistinct

LEMMA FilledWrite ==
    ASSUME RingSize \in Nat \ {0}, Shape, Filled,
           NEW c \in CPU, Alerts!WriteEntry(c)
    PROVE  Filled'
<1>1. PICK n \in Nat : n = taken
  BY DEF Shape
<1>2. PICK p \in [CPU -> Probe] : p = probe
  BY DEF Shape
<1>3. PICK a \in 1 .. n : a = p[c].alert
  BY <1>1, <1>2 DEF Alerts!WriteEntry, Alerts!ProbeAt, Filled
<1>4. PICK w \in Cells : w = (a - 1) % RingSize
  <2>1. a - 1 \in Nat
    OBVIOUS
  <2> QED
    BY <2>1, DivMod DEF Cells
<1>5. PICK cells \in [Cells -> Nat] : cells = ring
  BY DEF Shape
<1>6. /\ p[c].pc = "write" /\ probe' = [p EXCEPT ![c].pc = "count"]
      /\ ring' = [cells EXCEPT ![w] = a]
      /\ lapped' = (lapped \/ cells[w] > a)
      /\ UNCHANGED taken
  BY <1>2, <1>3, <1>4, <1>5 DEF Alerts!WriteEntry, Alerts!ProbeAt
<1>7. PICK q : /\ q = probe' /\ q[c].pc = "count"
               /\ \A d \in CPU \ {c} : q[d] = p[d]
  BY <1>2, <1>6 DEF Probe
<1>8. PICK after : /\ after = ring' /\ after[w] = a
                   /\ \A v \in Cells \ {w} : after[v] = cells[v]
  BY <1>5, <1>6
<1>9. Own(after, n)
  BY <1>1, <1>3, <1>4, <1>5, <1>8 DEF Filled, Own
<1>10. \A d \in CPU : q[d].pc = "write" => q[d].alert \in 1 .. n
  BY <1>1, <1>2, <1>7 DEF Filled
<1>11. ASSUME ~(cells[w] > a), Newest(cells, n, p), NEW b \in 1 .. n,
              b > n - RingSize
       PROVE  after[(b - 1) % RingSize] = b \/ Writing(q, b)
  <2>1. PICK v \in Cells : v = (b - 1) % RingSize
    <3>1. b - 1 \in Nat
      OBVIOUS
    <3> QED
      BY <3>1, DivMod DEF Cells
  <2>2. cells[v] = b \/ Writing(p, b)
    BY <1>11, <2>1 DEF Newest
  <2>3. CASE b = a
    BY <1>4, <1>8, <2>1, <2>3
  <2>4. CASE b # a /\ Writing(p, b)
    BY <1>3, <1>7, <2>4 DEF Writing
  <2>5. CASE b # a /\ cells[v] = b /\ v # w
    BY <1>8, <2>1, <2>5
  <2>6. ~(b # a /\ cells[v] = b /\ v = w)
    <3>1. b < a => v # w
      BY <1>4, <1>11, <2>1, Apart
    <3> QED
      BY <1>11, <3>1
  <2> QED
    BY <2>2, <2>3, <2>4, <2>5, <2>6
<1>12. ~lapped' => Newest(after, n, q)
  <2>1. ~lapped' => ~(cells[w] > a) /\ Newest(cells, n, p)
    BY <1>1, <1>2, <1>5, <1>6 DEF Filled
  <2> QED
    BY <1>11, <2>1 DEF Newest
<1> QED
  BY <1>1, <1>6, <1>7, <1>8, <1>9, <1>10, <1>12 DEF Filled

LEMMA FilledProbe ==
    ASSUME RingSize \in Nat \ {0}, Shape, Filled, NEW c \in CPU,
           Alerts!ProbeStep(c)
    PROVE  Filled'
<1>1. PICK p \in [CPU -> Probe] : p = probe
  BY DEF Shape
<1>2. ASSUME UNCHANGED <<taken, ring, lapped>>, p[c].pc # "write",
             NEW x, probe' = [p EXCEPT ![c] = x], x.pc # "write"
      PROVE  Filled'
  <2>1. \A d \in CPU : /\ probe'[d].pc = "write" <=> p[d].pc = "write"
                       /\ probe'[d].pc = "write" => probe'[d].alert = p[d].alert
    BY <1>1, <1>2
  <2> QED
    BY <1>1, <1>2, <2>1, FilledKept
<1>3. CASE Alerts!CountAlert(c)
  <2>1. PICK x : x = [p[c] EXCEPT !.pc = "mark"]
    OBVIOUS
  <2>2. x.pc # "write"
    BY <1>1, <2>1 DEF Probe
  <2> QED
    BY <1>1, <1>2, <1>3, <2>1, <2>2 DEF Alerts!CountAlert, Alerts!ProbeAt
<1>4. CASE Alerts!Mark(c)
  <2>1. PICK x : x = [p[c] EXCEPT !.pc = "wake"]
    OBVIOUS
  <2>2. x.pc # "write"
    BY <1>1, <2>1 DEF Probe
  <2> QED
    BY <1>1, <1>2, <1>4, <2>1, <2>2 DEF Alerts!Mark, Alerts!ProbeAt
<1>5. CASE Alerts!Wake(c)
  <2>1. Alerts!NoProbe.pc # "write"
    BY DEF Alerts!NoProbe
  <2> QED
    BY <1>1, <1>2, <1>5, <2>1 DEF Alerts!Wake, Alerts!ProbeEnds
<1> QED
  BY <1>3, <1>4, <1>5, FilledTake, FilledWrite DEF Alerts!ProbeStep

LEMMA FilledDebounce ==
    ASSUME Shape, Filled, NEW c \in CPU, Alerts!Debounce(c) PROVE Filled'
<1>1. PICK p \in [CPU -> Probe] : p = probe
  BY DEF Shape
<1>2. p[c].pc = "idle" /\ probe' = [p EXCEPT ![c].pc = "slot"]
      /\ UNCHANGED <<taken, ring, lapped>>
  BY <1>1, Begins DEF Alerts!Debounce
<1>3. \A d \in CPU : /\ probe'[d].pc = "write" <=> p[d].pc = "write"
                     /\ probe'[d].pc = "write" => probe'[d].alert = p[d].alert
  BY <1>1, <1>2 DEF Probe
<1> QED
  BY <1>1, <1>2, <1>3, FilledKept

LEMMA FilledNext ==
    ASSUME Alerts!AnomalyAssumption, Shape, Filled, [Alerts!Next]_Alerts!vars
    PROVE  Filled'
<1>0. RingSize \in Nat \ {0}
  BY DEF Alerts!AnomalyAssumption
<1>1. ASSUME UNCHANGED <<taken, ring, lapped, probe>> PROVE Filled'
  BY <1>1 DEF Filled, Newest, Writing
<1>2. CASE UNCHANGED Alerts!vars
  BY <1>1, <1>2 DEF Alerts!vars, Alerts!alerting
<1>3. CASE Alerts!PatrolStep \/ Alerts!Delay(TRUE) \/ Alerts!Timeout
  BY <1>1, <1>3, ThreadSteps
<1>4. CASE Alerts!StopPatrol \/ Alerts!UnloadStep
  BY <1>1, <1>4 DEF Alerts!StopPatrol, Alerts!UnloadStep, Alerts!PatrolJoined,
     Alerts!Unregister, Alerts!Synchronize, Alerts!Free, Alerts!UnloadAt,
     Alerts!alerting
<1>5. CASE \E c \in CPU : Alerts!Debounce(c) \/ Alerts!ProbeStep(c)
  BY <1>0, <1>5, FilledDebounce, FilledProbe
<1>6. CASE \E r \in Readers, n \in Counts : Alerts!ReadCall(r, n)
  BY <1>1, <1>6, ReadCalls
<1>7. CASE \E r \in Readers : Alerts!ReadStep(r)
  BY <1>1, <1>7, ReadSteps
<1> QED
  BY <1>2, <1>3, <1>4, <1>5, <1>6, <1>7 DEF Alerts!Next, Readers

------------------------------------------------------------------------------
(* A read that nothing disturbed is quiet no more once a probe begins, and *)
(* while it is quiet there is no probe to take a step.                     *)
Calm(y) ==
    y.quiet => /\ Alerts!Quiet /\ ~lapped
               /\ y.head = taken - 1
               /\ Reported(taken, y.count, y.i, y.report)

LEMMA UndisturbedIs == Undisturbed <=> \A r \in Readers : Calm(reader[r])
BY DEF Undisturbed, Calm

LEMMA UndisturbedReader ==
    ASSUME Shape, Undisturbed, NEW r \in Readers,
           UNCHANGED <<taken, lapped, probe>>,
           NEW x, reader' = [reader EXCEPT ![r] = x], Calm(x)
    PROVE  Undisturbed'
<1>1. PICK f \in [Readers -> Read] : f = reader
  BY DEF Shape
<1>2. PICK g : g = reader' /\ g[r] = x /\ \A q \in Readers \ {r} : g[q] = f[q]
  BY <1>1
<1>3. \A q \in Readers : Calm(g[q])
  BY <1>1, <1>2, UndisturbedIs
<1>4. \A q \in Readers : Calm(g[q])'
  BY <1>3 DEF Calm, Alerts!Quiet
<1> QED
  BY <1>2, <1>4 DEF Undisturbed, Calm

(* What a read of an undisturbed ring finds in the next slot it goes to.   *)
LEMMA CalmEntry ==
    ASSUME RingSize \in Nat \ {0}, Shape, Filled, NEW y \in Read, y.quiet,
           Calm(y), y.i < y.count, NEW entry,
           entry = ring[(((y.head - y.count + 1 + RingSize) % RingSize) + y.i)
                            % RingSize]
    PROVE  /\ y.i < Ahead(taken, y.count) => entry = 0
           /\ y.i >= Ahead(taken, y.count) => entry = taken - y.count + y.i + 1
<1>1. PICK n \in Nat : n = taken
  BY DEF Shape
<1>2. PICK size \in 1 .. RingSize : size = y.count
  BY ReadFields
<1>3. PICK i \in 0 .. size - 1 : i = y.i
  BY <1>2, ReadFields
<1>4. y.head = n - 1 /\ ~lapped /\ Alerts!Quiet
  BY <1>1 DEF Calm
<1>5. PICK cells \in [Cells -> Nat] : cells = ring
  BY DEF Shape
<1>6. \A alert : ~Writing(probe, alert)
  BY <1>4 DEF Writing, Alerts!Quiet
<1>7. /\ Own(cells, n)
      /\ \A alert \in 1 .. n : alert > n - RingSize =>
             cells[(alert - 1) % RingSize] = alert
  BY <1>1, <1>4, <1>5, <1>6 DEF Filled, Newest
<1>8. entry = cells[((((n - 1) - size + 1 + RingSize) % RingSize) + i) % RingSize]
  BY <1>2, <1>3, <1>4, <1>5
<1>9. /\ i < Ahead(n, size) => entry = 0
      /\ i >= Ahead(n, size) => entry = n - size + i + 1
  BY <1>7, <1>8, Found
<1> QED
  BY <1>1, <1>2, <1>3, <1>9

LEMMA CalmOn ==
    ASSUME RingSize \in Nat \ {0}, Shape, Filled, NEW y \in Read, Calm(y),
           y.i < y.count, NEW entry \in Nat,
           entry = ring[(((y.head - y.count + 1 + RingSize) % RingSize) + y.i)
                            % RingSize]
    PROVE  /\ entry = 0 => Calm(ReadOn(y, y.report))
           /\ entry # 0 => Calm(ReadOn(y, Append(y.report, entry)))
<1>1. y.report \in Seq(Nat) /\ Append(y.report, entry) \in Seq(Nat)
  BY ReadFields
<1>2. ASSUME NEW s \in Seq(Nat),
             y.quiet => Reported(taken, y.count, y.i + 1, s)
      PROVE  Calm(ReadOn(y, s))
  BY <1>2, ReadGoesOn DEF Calm
<1>3. PICK n \in Nat, size \in Nat, i \in Nat, e \in Nat :
          n = taken /\ size = y.count /\ i = y.i /\ e = Ahead(n, size)
  <2>1. taken \in Nat /\ y.count \in Nat /\ y.i \in Nat
    BY ReadFields DEF Shape
  <2> QED
    BY <2>1, AheadIs
<1>4. ASSUME y.quiet
      PROVE  /\ Reported(n, size, i, y.report)
             /\ i < e => entry = 0
             /\ i >= e => entry = n - size + i + 1
  BY <1>3, <1>4, CalmEntry DEF Calm
<1>5. i >= e => n - size + i + 1 # 0
  <2>1. n - (size - e) \in Nat
    BY <1>3, AheadIs
  <2> QED
    BY <1>3, <2>1
<1>6. ASSUME y.quiet
      PROVE  /\ entry = 0 => Reported(n, size, i + 1, y.report)
             /\ entry # 0 => Reported(n, size, i + 1, Append(y.report, entry))
  <2>1. i < e => Reported(n, size, i + 1, y.report)
    BY <1>1, <1>3, <1>4, <1>6, ReportedOn
  <2>2. i >= e =>
            Reported(n, size, i + 1, Append(y.report, n - size + i + 1))
    BY <1>1, <1>3, <1>4, <1>6, ReportedOn
  <2>3. CASE i < e
    BY <1>4, <1>6, <2>1, <2>3
  <2>4. CASE i >= e
    <3>1. entry = n - size + i + 1 /\ entry # 0
      BY <1>4, <1>5, <1>6, <2>4
    <3> QED
      BY <2>2, <2>4, <3>1
  <2>5. i < e \/ i >= e
    OBVIOUS
  <2> QED
    BY <2>3, <2>4, <2>5
<1>7. entry = 0 => Calm(ReadOn(y, y.report))
  BY <1>1, <1>2, <1>3, <1>6
<1>8. entry # 0 => Calm(ReadOn(y, Append(y.report, entry)))
  BY <1>1, <1>2, <1>3, <1>6
<1> QED
  BY <1>7, <1>8

LEMMA UndisturbedRead ==
    ASSUME Alerts!AnomalyAssumption, Shape, Filled, Undisturbed,
           NEW r \in Readers, Alerts!ReadStep(r)
    PROVE  Undisturbed'
<1>0. RingSize \in Nat \ {0}
  BY DEF Alerts!AnomalyAssumption
<1>1. UNCHANGED <<taken, lapped, probe>>
  BY ReadSteps
<1>2. PICK y \in Read : y = reader[r]
  BY DEF Shape
<1>3. Calm(y)
  BY <1>2, UndisturbedIs
<1>4. PICK z : z = [Alerts!NoRead EXCEPT !.pc = "clear"]
  OBVIOUS
<1>5. Calm(z) /\ Calm(Alerts!NoRead)
  <2>1. Alerts!NoRead.quiet = FALSE
    BY NoReadType
  <2>2. z.quiet = FALSE
    BY <1>4 DEF Alerts!NoRead
  <2> QED
    BY <2>1, <2>2 DEF Calm
<1>6. CASE Alerts!ReadTotal(r)
  <2>0. PICK x : x = [y EXCEPT !.pc = "scan"]
    OBVIOUS
  <2>1. "scan" \in ReadPC
    BY DEF ReadPC
  <2>2. /\ x.quiet = y.quiet /\ x.head = y.head /\ x.count = y.count
        /\ x.i = y.i /\ x.report = y.report
    BY <2>0, <2>1, ReadAt
  <2>3. Calm(x)
    BY <1>3, <2>2 DEF Calm
  <2>4. \/ reader' = [reader EXCEPT ![r] = x]
        \/ reader' = [reader EXCEPT ![r] = z]
    BY <1>2, <1>4, <1>6, <2>0 DEF Alerts!ReadTotal
  <2> QED
    BY <1>1, <1>5, <2>3, <2>4, UndisturbedReader
<1>7. CASE Alerts!ReadEntry(r)
  <2>1. PICK entry :
            /\ y.i < y.count
            /\ entry = ring[(((y.head - y.count + 1 + RingSize) % RingSize) + y.i)
                                % RingSize]
            /\ reader' = [reader EXCEPT
                   ![r] = [y EXCEPT !.i = @ + 1,
                                    !.report = IF entry = 0 THEN @
                                               ELSE Append(@, entry)]]
    BY <1>2, <1>7 DEF Alerts!ReadEntry
  <2>2. entry \in Nat
    <3>1. y.head \in Int /\ y.count \in Int /\ y.i \in Int
      BY ReadFields
    <3>2. PICK a \in Int : entry = ring[a % RingSize]
      BY <1>0, <2>1, <3>1
    <3>3. a % RingSize \in Cells
      BY <1>0 DEF Cells
    <3> QED
      BY <3>2, <3>3 DEF Shape
  <2>3. PICK s : s = IF entry = 0 THEN y.report ELSE Append(y.report, entry)
    OBVIOUS
  <2>4. reader' = [reader EXCEPT ![r] = ReadOn(y, s)]
    BY <2>1, <2>3 DEF ReadOn
  <2>5. Calm(ReadOn(y, s))
    <3>1. /\ entry = 0 => Calm(ReadOn(y, y.report))
          /\ entry # 0 => Calm(ReadOn(y, Append(y.report, entry)))
      BY <1>0, <1>3, <2>1, <2>2, CalmOn
    <3> QED
      BY <2>3, <3>1, Zenon
  <2> QED
    BY <1>1, <2>4, <2>5, UndisturbedReader
<1>8. CASE Alerts!ReadScanned(r)
  BY <1>1, <1>4, <1>5, <1>8, UndisturbedReader DEF Alerts!ReadScanned
<1>9. CASE Alerts!ReadClear(r)
  BY <1>1, <1>5, <1>9, UndisturbedReader DEF Alerts!ReadClear
<1> QED
  BY <1>6, <1>7, <1>8, <1>9 DEF Alerts!ReadStep

LEMMA UndisturbedCall ==
    ASSUME Alerts!AnomalyAssumption, Shape, Undisturbed,
           NEW r \in Readers, NEW n \in Counts, Alerts!ReadCall(r, n)
    PROVE  Undisturbed'
<1>0. RingSize \in Nat \ {0} /\ Counts \subseteq 1 .. RingSize
  BY DEF Alerts!AnomalyAssumption
<1>1. PICK x : x = [Alerts!NoRead EXCEPT
                       !.pc = "total", !.head = taken - 1, !.count = n,
                       !.quiet = Alerts!Quiet /\ ~lapped]
  OBVIOUS
<1>2. x = [pc |-> "total", head |-> taken - 1, count |-> n, i |-> 0,
           report |-> << >>, quiet |-> Alerts!Quiet /\ ~lapped]
  BY <1>1 DEF Alerts!NoRead
<1>3. Reported(taken, n, 0, << >>)
  <2>1. Ahead(taken, n) \in Nat
    <3>1. taken \in Nat /\ n \in Nat
      BY <1>0 DEF Shape
    <3> QED
      BY <3>1, AheadIs
  <2> QED
    BY <2>1 DEF Reported
<1>4. Calm(x)
  BY <1>2, <1>3 DEF Calm
<1>5. reader' = [reader EXCEPT ![r] = x] /\ UNCHANGED <<taken, lapped, probe>>
  BY <1>1, ReadCalls
<1> QED
  BY <1>4, <1>5, UndisturbedReader

LEMMA UndisturbedDebounce ==
    ASSUME Shape, NEW c \in CPU, Alerts!Debounce(c) PROVE Undisturbed'
<1>1. reader' = [r \in Readers |-> [reader[r] EXCEPT !.quiet = FALSE]]
  BY DEF Alerts!Debounce, Readers
<1>2. ASSUME NEW r \in Readers PROVE reader'[r].quiet = FALSE
  <2>1. PICK x \in Read : x = reader[r]
    BY DEF Shape
  <2> QED
    BY <1>1, <2>1 DEF Read
<1> QED
  BY <1>2 DEF Undisturbed

LEMMA UndisturbedNext ==
    ASSUME Alerts!AnomalyAssumption, Shape, Filled, Undisturbed,
           [Alerts!Next]_Alerts!vars
    PROVE  Undisturbed'
<1>1. ASSUME UNCHANGED <<taken, lapped, probe, reader>> PROVE Undisturbed'
  BY <1>1 DEF Undisturbed, Alerts!Quiet
<1>2. CASE UNCHANGED Alerts!vars
  BY <1>1, <1>2 DEF Alerts!vars, Alerts!alerting
<1>3. CASE Alerts!PatrolStep \/ Alerts!Delay(TRUE) \/ Alerts!Timeout
  BY <1>1, <1>3, ThreadSteps
<1>4. CASE Alerts!StopPatrol \/ Alerts!UnloadStep
  BY <1>1, <1>4 DEF Alerts!StopPatrol, Alerts!UnloadStep, Alerts!PatrolJoined,
     Alerts!Unregister, Alerts!Synchronize, Alerts!Free, Alerts!UnloadAt,
     Alerts!alerting
<1>5. ASSUME NEW c \in CPU, Alerts!Debounce(c) PROVE Undisturbed'
  BY <1>5, UndisturbedDebounce
<1>6. ASSUME NEW c \in CPU, Alerts!ProbeStep(c) PROVE Undisturbed'
  <2>1. ~Alerts!Quiet /\ UNCHANGED reader
    BY <1>6, ProbeSteps DEF Alerts!Quiet
  <2>2. \A r \in Readers : ~reader[r].quiet
    BY <2>1 DEF Undisturbed
  <2> QED
    BY <2>1, <2>2 DEF Undisturbed
<1>7. CASE \E r \in Readers, n \in Counts : Alerts!ReadCall(r, n)
  BY <1>7, UndisturbedCall
<1>8. CASE \E r \in Readers : Alerts!ReadStep(r)
  BY <1>8, UndisturbedRead
<1> QED
  BY <1>2, <1>3, <1>4, <1>5, <1>6, <1>7, <1>8 DEF Alerts!Next, Readers

LEMMA UndisturbedInit ==
    ASSUME Alerts!AnomalyAssumption, Alerts!Init PROVE Filled /\ Undisturbed
<1>1. RingSize \in Nat \ {0}
  BY DEF Alerts!AnomalyAssumption
<1>2. /\ taken = 0 /\ ring = [s \in Cells |-> 0]
      /\ probe = [c \in CPU |-> Alerts!NoProbe]
      /\ reader = [r \in Readers |-> Alerts!NoRead]
  BY DEF Alerts!Init, Cells, Readers
<1>3. Filled
  <2>1. Own(ring, taken)
    BY <1>2 DEF Own
  <2>2. \A c \in CPU : probe[c].pc # "write"
    BY <1>2 DEF Alerts!NoProbe
  <2>3. Newest(ring, taken, probe)
    BY <1>2 DEF Newest
  <2> QED
    BY <2>1, <2>2, <2>3 DEF Filled
<1>4. Undisturbed
  BY <1>2, NoReadType DEF Undisturbed
<1> QED
  BY <1>3, <1>4

LEMMA ReportExact ==
    ASSUME NEW n \in Nat, NEW size \in Nat, NEW s \in Seq(Nat),
           Reported(n, size, size, s), NEW k \in Nat,
           k = IF n < size THEN n ELSE size
    PROVE  s = [i \in 1 .. k |-> n - k + i]
<1>1. PICK e \in Nat : e = Ahead(n, size) /\ (e = 0 \/ e = size - n)
                       /\ size - e = k
  <2>1. PICK e \in Nat : e = Ahead(n, size) /\ (e = 0 \/ e = size - n)
                         /\ size - e = IF n < size THEN n ELSE size
    BY AheadIs
  <2> QED
    BY <2>1
<1>2. Len(s) = (IF size <= e THEN 0 ELSE size - e)
      /\ \A j \in 1 .. Len(s) : s[j] = n - (size - e) + j
  BY <1>1 DEF Reported
<1>3. Len(s) = k
  BY <1>1, <1>2
<1>4. \A j \in 1 .. k : s[j] = n - k + j
  BY <1>1, <1>2, <1>3
<1>5. s = [j \in 1 .. k |-> s[j]]
  BY <1>3
<1> QED
  BY <1>4, <1>5

(* A read that no probe disturbed prints the most recent alerts, oldest    *)
(* first and none left out, wherever the ring has wrapped, for every size  *)
(* of it and however many alerts are asked for.                            *)
THEOREM AlertsReportCorrect ==
    ASSUME Alerts!AnomalyAssumption
    PROVE  Alerts!Spec => []Alerts!QuietReportExact
<1>1. Alerts!Init => Shape /\ Filled /\ Undisturbed
  BY ShapeInit, UndisturbedInit
<1>2. (Shape /\ Filled /\ Undisturbed) /\ [Alerts!Next]_Alerts!vars
          => (Shape /\ Filled /\ Undisturbed)'
  BY ShapeNext, FilledNext, UndisturbedNext
<1>3. Shape /\ Filled /\ Undisturbed => Alerts!QuietReportExact
  <2> SUFFICES ASSUME Shape, Undisturbed, NEW r \in Readers,
                      reader[r].quiet, reader[r].i = reader[r].count
               PROVE  LET k == IF taken < reader[r].count THEN taken
                               ELSE reader[r].count
                      IN  reader[r].report = [i \in 1 .. k |-> taken - k + i]
    BY DEF Alerts!QuietReportExact, Readers
  <2>1. PICK y \in Read : y = reader[r]
    BY DEF Shape
  <2>2. PICK n \in Nat, size \in Nat : n = taken /\ size = y.count
    <3>1. taken \in Nat /\ y.count \in Nat
      BY ReadFields DEF Shape
    <3> QED
      BY <3>1
  <2>3. PICK k \in Nat : k = IF n < size THEN n ELSE size
    <3>1. (IF n < size THEN n ELSE size) \in Nat
      OBVIOUS
    <3> QED
      BY <3>1
  <2>4. Reported(n, size, size, y.report)
    BY <2>1, <2>2 DEF Undisturbed
  <2>5. y.report = [i \in 1 .. k |-> n - k + i]
    <3>1. y.report \in Seq(Nat)
      BY ReadFields
    <3> QED
      BY <2>3, <2>4, <3>1, ReportExact
  <2> QED
    BY <2>1, <2>2, <2>3, <2>5, Zenon
<1> QED
  BY <1>1, <1>2, <1>3, PTL DEF Alerts!Spec

------------------------------------------------------------------------------
(***************************************************************************)
(* The learner and the halving of its tables, module Ngram.                *)
(***************************************************************************)
Model == Grams!Model
Token == Grams!Token
Grid == Grams!Cells

(* The types of the learner's state.                                       *)
CountPC == {"idle", "count", "row", "total", "elect", "cmpxchg", "schedule"}
Counting == [pc : CountPC, m : Model, token : Token, learn : BOOLEAN,
             cur : Nat, threshold : Nat]
Halving == [pc : {"idle", "read", "set"}, queued : BOOLEAN, at : Grid, v : Nat]

Tables ==
    /\ cell \in [Model -> [Grid -> Nat]]
    /\ total_events \in [Model -> Nat]
    /\ next_halve_at \in [Model -> Nat]
    /\ elected \in [Model -> Nat]

Learner ==
    /\ Tables
    /\ work \in [Model -> Halving]
    /\ prev \in [CPU -> 0 .. Dim]
    /\ counting \in [CPU -> Counting]
    /\ learner \in [at : {"loaded", "draining", "cancel", "flush", "freed"},
                    m : Model]

LEMMA HalvingQueued ==
    ASSUME NEW w \in [Model -> Halving], NEW m \in Model, NEW b \in BOOLEAN
    PROVE  [w EXCEPT ![m].queued = b] \in [Model -> Halving]
<1>1. PICK h \in Halving : h = w[m]
  OBVIOUS
<1>2. PICK g \in Halving : g = [h EXCEPT !.queued = b]
  BY DEF Halving
<1>3. [w EXCEPT ![m].queued = b] = [w EXCEPT ![m] = g]
  BY <1>1, <1>2
<1> QED
  BY <1>3

------------------------------------------------------------------------------
(* The fields of an event that is being counted, and of it as it goes on.  *)
LEMMA CountingFields ==
    ASSUME NEW y \in Counting
    PROVE  /\ y.pc \in CountPC /\ y.m \in Model /\ y.token \in Token
           /\ y.learn \in BOOLEAN /\ y.cur \in Nat /\ y.threshold \in Nat
BY DEF Counting

GoesTo(y, to) == [y EXCEPT !.pc = to]
Stands(y, cur) == [y EXCEPT !.pc = "elect", !.cur = cur]
Bids(y, threshold) == [y EXCEPT !.pc = "cmpxchg", !.threshold = threshold]
Learns(y) == [y EXCEPT !.m = "adaptive", !.pc = "count"]

LEMMA GoesToIs ==
    ASSUME NEW y \in Counting, NEW to \in CountPC, NEW x, x = GoesTo(y, to)
    PROVE  /\ x \in Counting /\ x.pc = to /\ x.m = y.m /\ x.learn = y.learn
           /\ x.cur = y.cur /\ x.threshold = y.threshold
BY DEF Counting, GoesTo

LEMMA StandsIs ==
    ASSUME NEW y \in Counting, NEW cur \in Nat, NEW x, x = Stands(y, cur)
    PROVE  /\ x \in Counting /\ x.pc = "elect" /\ x.m = y.m
           /\ x.learn = y.learn /\ x.cur = cur
BY DEF Counting, CountPC, Stands

LEMMA BidsIs ==
    ASSUME NEW y \in Counting, NEW threshold \in Nat, NEW x,
           x = Bids(y, threshold)
    PROVE  /\ x \in Counting /\ x.pc = "cmpxchg" /\ x.m = y.m
           /\ x.learn = y.learn /\ x.cur = y.cur /\ x.threshold = threshold
BY DEF Counting, CountPC, Bids

LEMMA LearnsIs ==
    ASSUME NEW y \in Counting, NEW x, x = Learns(y)
    PROVE  /\ x \in Counting /\ x.pc = "count" /\ x.m = "adaptive"
BY DEF Counting, CountPC, Learns, Model, Grams!Model

LEMMA NoProbeIs ==
    ASSUME Grams!NgramAssumption
    PROVE  /\ Grams!NoProbe \in Counting /\ Grams!NoProbe.pc = "idle"
           /\ Grams!NoProbe.m = "baseline" /\ Grams!NoProbe.learn = FALSE
<1>1. 0 \in Token /\ "baseline" \in Model
  BY DEF Grams!NgramAssumption, Token, Grams!Token, Model, Grams!Model
<1> QED
  BY <1>1 DEF Grams!NoProbe, Counting, CountPC

(* An event done with in one model goes on to the adaptive one if it is to *)
(* be learnt there, and is done with otherwise.                            *)
LEMMA UpdatedIs ==
    ASSUME Grams!NgramAssumption, Learner, NEW c \in CPU, Grams!Updated(c)
    PROVE  /\ \E x \in Counting :
                 /\ counting' = [counting EXCEPT ![c] = x]
                 /\ \/ /\ counting[c].m = "baseline" /\ counting[c].learn
                       /\ x = Learns(counting[c])
                    \/ x = Grams!NoProbe
           /\ prev' \in [CPU -> 0 .. Dim]
<1>1. PICK y \in Counting : y = counting[c]
  BY DEF Learner
<1>2. CASE y.m = "baseline" /\ y.learn
  <2>1. PICK x : x = Learns(y)
    OBVIOUS
  <2>2. counting' = [counting EXCEPT ![c] = x] /\ UNCHANGED prev
    BY <1>1, <1>2, <2>1 DEF Grams!Updated, Learns
  <2>3. x \in Counting
    BY <2>1, LearnsIs
  <2> QED
    BY <1>1, <1>2, <2>1, <2>2, <2>3 DEF Learner
<1>3. CASE ~(y.m = "baseline" /\ y.learn)
  <2>1. /\ counting' = [counting EXCEPT ![c] = Grams!NoProbe]
        /\ prev' = [prev EXCEPT ![c] = y.token]
    BY <1>1, <1>3 DEF Grams!Updated
  <2>2. y.token \in 0 .. Dim
    BY CountingFields DEF Token, Grams!Token, Grams!NgramAssumption
  <2>3. prev' \in [CPU -> 0 .. Dim]
    BY <2>1, <2>2 DEF Learner
  <2> QED
    BY <2>1, <2>3, NoProbeIs
<1> QED
  BY <1>2, <1>3

------------------------------------------------------------------------------
(* What the steps of an event change.                                      *)
LEMMA CountsIs ==
    ASSUME Learner, NEW c \in CPU, NEW y \in Counting, y = counting[c],
           Grams!CountBigram(c) \/ Grams!CountRow(c)
    PROVE  /\ y.pc \in {"count", "row"}
           /\ \E to \in {"row", "total"} :
                 counting' = [counting EXCEPT ![c] = GoesTo(y, to)]
           /\ UNCHANGED <<total_events, next_halve_at, elected, work, prev,
                          learner>>
           /\ cell' \in [Model -> [Grid -> Nat]]
           /\ \A m \in Model \ {y.m} : cell'[m] = cell[m]
<1>1. PICK key : cell' = [cell EXCEPT ![y.m][key] = @ + 1]
  BY DEF Grams!CountBigram, Grams!CountRow, Grams!Bump
<1>2. y.m \in Model
  BY CountingFields
<1>3. PICK f \in [Model -> [Grid -> Nat]] : f = cell
  BY DEF Learner, Tables
<1>4. PICK row : row = [f[y.m] EXCEPT ![key] = @ + 1]
  OBVIOUS
<1>5. row \in [Grid -> Nat]
  <2>1. PICK g \in [Grid -> Nat] : g = f[y.m]
    BY <1>2, <1>3
  <2>2. row = [k \in Grid |-> IF k = key THEN g[k] + 1 ELSE g[k]]
    BY <1>4, <2>1
  <2>3. \A k \in Grid : g[k] \in Nat /\ g[k] + 1 \in Nat
    BY <2>1
  <2> QED
    BY <2>2, <2>3
<1>6. cell' = [f EXCEPT ![y.m] = row]
  BY <1>1, <1>3, <1>4
<1>7. /\ cell' \in [Model -> [Grid -> Nat]]
      /\ \A m \in Model \ {y.m} : cell'[m] = cell[m]
  BY <1>2, <1>3, <1>5, <1>6
<1>8. y.pc \in {"count", "row"}
  BY DEF Grams!CountBigram, Grams!CountRow
<1>9. \E to \in {"row", "total"} :
          counting' = [counting EXCEPT ![c] = GoesTo(y, to)]
  BY DEF Grams!CountBigram, Grams!CountRow, GoesTo
<1>10. UNCHANGED <<total_events, next_halve_at, elected, work, prev, learner>>
  BY DEF Grams!CountBigram, Grams!CountRow, Grams!Bump
<1> QED
  BY <1>7, <1>8, <1>9, <1>10

LEMMA CountEventIs ==
    ASSUME Learner, NEW c \in CPU, NEW y \in Counting, y = counting[c],
           NEW cur \in Nat, cur = total_events[y.m] + 1, Grams!CountEvent(c)
    PROVE  /\ y.pc = "total"
           /\ total_events' = [total_events EXCEPT ![y.m] = cur]
           /\ UNCHANGED <<cell, next_halve_at, elected, work, learner>>
           /\ \/ Grams!Interval(y.m) = 0 /\ Grams!Updated(c)
              \/ /\ counting' = [counting EXCEPT ![c] = Stands(y, cur)]
                 /\ UNCHANGED prev
BY DEF Grams!CountEvent, Stands

LEMMA StandIs ==
    ASSUME Learner, NEW c \in CPU, NEW y \in Counting, y = counting[c],
           NEW threshold \in Nat, threshold = next_halve_at[y.m],
           Grams!Stand(c)
    PROVE  /\ y.pc = "elect"
           /\ UNCHANGED <<cell, total_events, next_halve_at, elected, work,
                          learner>>
           /\ \/ /\ y.cur >= threshold
                 /\ counting' = [counting EXCEPT ![c] = Bids(y, threshold)]
                 /\ UNCHANGED prev
              \/ ~(y.cur >= threshold) /\ Grams!Updated(c)
BY DEF Grams!Stand, Grams!model, Bids

LEMMA ElectIs ==
    ASSUME Learner, NEW c \in CPU, NEW y \in Counting, y = counting[c],
           Grams!Elect(c)
    PROVE  /\ y.pc = "cmpxchg"
           /\ UNCHANGED <<cell, total_events, work, learner>>
           /\ \/ /\ next_halve_at[y.m] = y.threshold
                 /\ next_halve_at' =
                       [next_halve_at EXCEPT ![y.m] = @ + Grams!Interval(y.m)]
                 /\ elected' = [elected EXCEPT ![y.m] = @ + 1]
                 /\ counting' = [counting EXCEPT ![c] = GoesTo(y, "schedule")]
                 /\ UNCHANGED prev
              \/ /\ next_halve_at[y.m] # y.threshold
                 /\ UNCHANGED <<next_halve_at, elected>>
                 /\ Grams!Updated(c)
BY DEF Grams!Elect, GoesTo

LEMMA ScheduleIs ==
    ASSUME Learner, NEW c \in CPU, NEW y \in Counting, y = counting[c],
           Grams!Schedule(c)
    PROVE  /\ y.pc = "schedule"
           /\ work' = [work EXCEPT ![y.m].queued = TRUE]
           /\ UNCHANGED <<cell, total_events, next_halve_at, elected, learner>>
           /\ Grams!Updated(c)
BY DEF Grams!Schedule, Grams!model

(* An event is never counted but from where it has been, and on no other   *)
(* processor.                                                              *)
LEMMA CountingMoves ==
    ASSUME Grams!NgramAssumption, Learner, NEW c \in CPU, Grams!ProbeStep(c)
    PROVE  /\ counting[c].pc # "idle"
           /\ prev' \in [CPU -> 0 .. Dim]
           /\ UNCHANGED learner
           /\ \E x \in Counting : counting' = [counting EXCEPT ![c] = x]
<1>1. PICK y \in Counting : y = counting[c]
  BY DEF Learner
<1>2. /\ y.m \in Model /\ y.pc \in CountPC
      /\ total_events[y.m] \in Nat /\ next_halve_at[y.m] \in Nat
  BY CountingFields DEF Learner, Tables
<1>3. prev \in [CPU -> 0 .. Dim]
  BY DEF Learner
<1>4. CASE Grams!CountBigram(c) \/ Grams!CountRow(c)
  <2>1. \A to \in {"row", "total"} : GoesTo(y, to) \in Counting
    BY GoesToIs DEF CountPC
  <2> QED
    BY <1>1, <1>3, <1>4, <2>1, CountsIs
<1>5. CASE Grams!CountEvent(c)
  <2>1. PICK cur \in Nat : cur = total_events[y.m] + 1
    BY <1>2
  <2>2. Stands(y, cur) \in Counting
    BY StandsIs
  <2> QED
    BY <1>1, <1>3, <1>5, <2>1, <2>2, CountEventIs, UpdatedIs
<1>6. CASE Grams!Stand(c)
  <2>1. Bids(y, next_halve_at[y.m]) \in Counting
    BY <1>2, BidsIs
  <2> QED
    BY <1>1, <1>2, <1>3, <1>6, <2>1, StandIs, UpdatedIs
<1>7. CASE Grams!Elect(c)
  <2>1. GoesTo(y, "schedule") \in Counting
    BY GoesToIs DEF CountPC
  <2> QED
    BY <1>1, <1>3, <1>7, <2>1, ElectIs, UpdatedIs
<1>8. CASE Grams!Schedule(c)
  BY <1>1, <1>8, ScheduleIs, UpdatedIs
<1> QED
  BY <1>4, <1>5, <1>6, <1>7, <1>8 DEF Grams!ProbeStep

------------------------------------------------------------------------------
(* What the halving changes, and that it ends where it is not asked for.   *)
LEMMA HalvingFields ==
    ASSUME NEW w \in Halving
    PROVE  /\ w.pc \in {"idle", "read", "set"} /\ w.queued \in BOOLEAN
           /\ w.at \in Grid /\ w.v \in Nat
BY DEF Halving

LEMMA NoWorkIs ==
    ASSUME Grams!NgramAssumption
    PROVE  /\ Grams!NoWork \in Halving
           /\ Grams!NoWork.pc = "idle" /\ Grams!NoWork.queued = FALSE
           /\ [Grams!NoWork EXCEPT !.pc = "read"] \in Halving
           /\ [Grams!NoWork EXCEPT !.pc = "read"].pc = "read"
           /\ [Grams!NoWork EXCEPT !.pc = "read"].queued = FALSE
<1>1. <<0, 0>> \in Grid
  BY DEF Grams!NgramAssumption, Grid, Grams!Cells, Grams!Token
<1> QED
  BY <1>1 DEF Grams!NoWork, Halving

LEMMA NextCellIs ==
    ASSUME Grams!NgramAssumption, NEW place \in Grid,
           Grams!NextCell(place)[1] < Dim
    PROVE  Grams!NextCell(place) \in Grid
<1>1. PICK i \in 0 .. Dim - 1, j \in 0 .. Dim : place = <<i, j>>
  BY DEF Grid, Grams!Cells, Grams!Token
<1>2. Dim \in Nat \ {0}
  BY DEF Grams!NgramAssumption
<1>3. CASE j < Dim
  <2>1. Grams!NextCell(place) = <<i, j + 1>>
    BY <1>1, <1>3 DEF Grams!NextCell
  <2>2. i \in 0 .. Dim - 1 /\ j + 1 \in 0 .. Dim
    BY <1>2, <1>3
  <2> QED
    BY <2>1, <2>2 DEF Grid, Grams!Cells, Grams!Token
<1>4. CASE ~(j < Dim)
  <2>1. Grams!NextCell(place) = <<i + 1, 0>>
    BY <1>1, <1>4 DEF Grams!NextCell
  <2>2. i + 1 \in 0 .. Dim - 1 /\ 0 \in 0 .. Dim
    BY <1>2, <2>1
  <2> QED
    BY <2>1, <2>2 DEF Grid, Grams!Cells, Grams!Token
<1> QED
  BY <1>3, <1>4

LEMMA AdvanceIs ==
    ASSUME Grams!NgramAssumption, Learner, NEW m \in Model, Grams!Advance(m)
    PROVE  \E w \in Halving : /\ work' = [work EXCEPT ![m] = w]
                              /\ w.queued = work[m].queued /\ w.pc # "set"
<1>1. PICK y \in Halving : y = work[m]
  BY DEF Learner
<1>2. PICK place : place = Grams!NextCell(y.at)
  OBVIOUS
<1>3. CASE place[1] < Dim
  <2>1. PICK w : w = [y EXCEPT !.pc = "read", !.at = place, !.v = 0]
    OBVIOUS
  <2>2. place \in Grid
    BY <1>2, <1>3, HalvingFields, NextCellIs
  <2>3. w \in Halving /\ w.queued = y.queued /\ w.pc = "read"
    BY <2>1, <2>2 DEF Halving
  <2>4. work' = [work EXCEPT ![m] = w]
    BY <1>1, <1>2, <1>3, <2>1 DEF Grams!Advance
  <2> QED
    BY <1>1, <2>3, <2>4
<1>4. CASE ~(place[1] < Dim)
  <2>1. PICK w : w = [Grams!NoWork EXCEPT !.queued = y.queued]
    OBVIOUS
  <2>2. Grams!NoWork \in Halving /\ Grams!NoWork.pc = "idle"
    BY NoWorkIs
  <2>3. w \in Halving /\ w.queued = y.queued /\ w.pc = "idle"
    BY <2>1, <2>2 DEF Halving
  <2>4. work' = [work EXCEPT ![m] = w]
    BY <1>1, <1>2, <1>4, <2>1 DEF Grams!Advance
  <2> QED
    BY <1>1, <2>3, <2>4
<1> QED
  BY <1>3, <1>4

LEMMA HalveIs ==
    ASSUME Grams!NgramAssumption, Learner, NEW m \in Model,
           Grams!HalveStep(m)
    PROVE  /\ UNCHANGED <<total_events, next_halve_at, prev, counting, elected,
                          learner>>
           /\ work[m].queued \/ work[m].pc # "idle"
           /\ \E w \in Halving :
                 /\ work' = [work EXCEPT ![m] = w]
                 /\ w.queued => work[m].queued
                 /\ w.pc = "set" => cell[m][work[m].at] > 0
           /\ cell' \in [Model -> [Grid -> Nat]]
           /\ \A n \in Model : n # m \/ work[m].pc # "set" => cell'[n] = cell[n]
<1>1. PICK y \in Halving : y = work[m]
  BY DEF Learner
<1>2. PICK f \in [Model -> [Grid -> Nat]] : f = cell
  BY DEF Learner, Tables
<1>3. UNCHANGED <<total_events, next_halve_at, prev, counting, elected, learner>>
  BY DEF Grams!HalveStep, Grams!HalveStart, Grams!HalveRead, Grams!HalveSet,
         Grams!WorkUnchanged
<1>4. CASE Grams!HalveStart(m)
  BY <1>1, <1>2, <1>3, <1>4, NoWorkIs DEF Grams!HalveStart
<1>5. CASE Grams!HalveRead(m)
  <2>1. y.pc = "read" /\ UNCHANGED cell
    BY <1>1, <1>5 DEF Grams!HalveRead
  <2>2. CASE cell[m][y.at] > 0
    <3>1. PICK v \in Nat : v = f[m][y.at]
      BY <1>2, HalvingFields
    <3>2. PICK w : w = [y EXCEPT !.pc = "set", !.v = v]
      OBVIOUS
    <3>3. w \in Halving /\ w.queued = y.queued
      BY <3>2 DEF Halving
    <3>4. work' = [work EXCEPT ![m] = w]
      BY <1>1, <1>2, <1>5, <2>2, <3>1, <3>2 DEF Grams!HalveRead
    <3> QED
      BY <1>1, <1>2, <1>3, <2>1, <2>2, <3>3, <3>4
  <2>3. CASE ~(cell[m][y.at] > 0)
    <3>1. Grams!Advance(m)
      BY <1>1, <1>5, <2>3 DEF Grams!HalveRead
    <3> QED
      BY <1>1, <1>2, <1>3, <2>1, <3>1, AdvanceIs
  <2> QED
    BY <2>2, <2>3
<1>6. CASE Grams!HalveSet(m)
  <2>1. /\ y.pc = "set" /\ Grams!Advance(m)
        /\ cell' = [f EXCEPT ![m][y.at] = y.v \div 2]
    BY <1>1, <1>2, <1>6 DEF Grams!HalveSet
  <2>2. y.v \div 2 \in Nat
    BY HalvingFields
  <2>3. /\ cell' \in [Model -> [Grid -> Nat]]
        /\ \A n \in Model : n # m => cell'[n] = f[n]
    BY <2>1, <2>2
  <2> QED
    BY <1>1, <1>2, <1>3, <2>1, <2>3, AdvanceIs
<1> QED
  BY <1>4, <1>5, <1>6 DEF Grams!HalveStep

------------------------------------------------------------------------------
(* What an event and unloading change.                                     *)
Arriving(c, token, learn) ==
    [Grams!NoProbe EXCEPT !.pc = "count", !.token = token, !.learn = learn]

LEMMA ArrivingIs ==
    ASSUME Grams!NgramAssumption, NEW c, NEW token \in Token,
           NEW learn, learn = TRUE \/ learn = FALSE, NEW x,
           x = Arriving(c, token, learn)
    PROVE  /\ x \in Counting /\ x.pc = "count" /\ x.m = "baseline"
           /\ x.learn <=> learn
<1>1. "baseline" \in Model /\ "count" \in CountPC
  BY DEF Model, Grams!Model, CountPC
<1>2. x = [pc |-> "count", m |-> "baseline", token |-> token, learn |-> learn,
           cur |-> 0, threshold |-> 0]
  BY DEF Arriving, Grams!NoProbe
<1>3. x \in Counting /\ x.pc = "count" /\ x.m = "baseline"
  <2>1. CASE learn = TRUE
    BY <1>1, <1>2, <2>1 DEF Counting
  <2>2. CASE learn = FALSE
    <3>1. x = [pc |-> "count", m |-> "baseline", token |-> token,
               learn |-> FALSE, cur |-> 0, threshold |-> 0]
      BY <1>2, <2>2
    <3> QED
      BY <1>1, <3>1 DEF Counting
  <2> QED
    BY <2>1, <2>2
<1>4. x.learn <=> learn
  BY <1>2
<1> QED
  BY <1>3, <1>4

LEMMA FirstEventIs ==
    ASSUME Grams!NgramAssumption, Learner, NEW c \in CPU, NEW token \in Token,
           Grams!FirstEvent(c, token)
    PROVE  /\ learner.at = "loaded"
           /\ UNCHANGED <<cell, total_events, next_halve_at, elected, work,
                          counting, learner>>
           /\ prev' \in [CPU -> 0 .. Dim]
<1>1. token \in 0 .. Dim
  BY DEF Token, Grams!Token, Grams!NgramAssumption
<1> QED
  BY <1>1 DEF Learner, Grams!FirstEvent, Grams!Arrives, Grams!model

LEMMA EventIs ==
    ASSUME Grams!NgramAssumption, Learner, NEW c \in CPU, NEW token \in Token,
           Grams!Event(c, token)
    PROVE  /\ learner.at = "loaded"
           /\ UNCHANGED <<cell, total_events, next_halve_at, elected, work,
                          prev, learner>>
           /\ counting[c].pc = "idle" /\ prev[c] \in Token
           /\ \E x \in Counting :
                 /\ counting' = [counting EXCEPT ![c] = x]
                 /\ x.pc = "count" /\ x.m = "baseline"
                 /\ x.learn => NrFields * Grams!Surprise("adaptive", prev[c], token)
                                    < LearnThreshold
<1>1. PICK learn : learn = (NrFields * Grams!Surprise("adaptive", prev[c], token)
                              < LearnThreshold)
  OBVIOUS
<1>2. learn = TRUE \/ learn = FALSE
  BY <1>1
<1>3. PICK x : x = Arriving(c, token, learn)
  OBVIOUS
<1>4. /\ x \in Counting /\ x.pc = "count" /\ x.m = "baseline"
      /\ x.learn <=> learn
  BY <1>2, <1>3, ArrivingIs
<1>5. /\ learner.at = "loaded" /\ counting[c].pc = "idle" /\ prev[c] # Dim
      /\ UNCHANGED <<cell, total_events, next_halve_at, elected, work, prev,
                     learner>>
  BY DEF Grams!Event, Grams!Arrives, Grams!model, Grams!None
<1>6. counting' = [counting EXCEPT ![c] = x]
  BY <1>1, <1>3 DEF Grams!Event, Arriving
<1>7. prev[c] \in Token
  <2>1. prev[c] \in 0 .. Dim
    BY DEF Learner
  <2> QED
    BY <1>5, <2>1 DEF Token, Grams!Token, Grams!NgramAssumption
<1> QED
  BY <1>1, <1>4, <1>5, <1>6, <1>7

LEMMA UnloadIs ==
    ASSUME Learner,
           Grams!Unregister \/ Grams!Synchronize \/ Grams!CancelWork
               \/ Grams!FlushWork
    PROVE  UNCHANGED <<cell, total_events, next_halve_at, prev, counting,
                       elected>>
BY DEF Grams!Unregister, Grams!Synchronize, Grams!CancelWork,
       Grams!FlushWork, Grams!UnloadTo, Grams!model

LEMMA LearnerInit ==
    ASSUME Grams!NgramAssumption, Grams!Init PROVE Learner
<1>1. \A m \in Model : Grams!Interval(m) \in Nat
  BY DEF Grams!NgramAssumption, Grams!Interval
<1>2. Tables
  BY <1>1 DEF Grams!Init, Tables, Model, Grid
<1>3. work \in [Model -> Halving] /\ counting \in [CPU -> Counting]
  BY NoWorkIs, NoProbeIs DEF Grams!Init, Model
<1>4. prev \in [CPU -> 0 .. Dim]
  BY DEF Grams!Init, Grams!None, Grams!NgramAssumption
<1>5. learner \in [at : {"loaded", "draining", "cancel", "flush", "freed"},
                   m : Model]
  BY DEF Grams!Init, Model, Grams!Model
<1> QED
  BY <1>2, <1>3, <1>4, <1>5 DEF Learner

LEMMA LearnerProbe ==
    ASSUME Grams!NgramAssumption, Learner, NEW c \in CPU, Grams!ProbeStep(c)
    PROVE  Learner'
<1>1. PICK y \in Counting : y = counting[c]
  BY DEF Learner
<1>2. y.m \in Model
  BY CountingFields
<1>3. counting' \in [CPU -> Counting]
  <2>1. PICK x \in Counting : counting' = [counting EXCEPT ![c] = x]
    BY CountingMoves
  <2> QED
    BY <2>1 DEF Learner
<1>4. prev' \in [CPU -> 0 .. Dim] /\ UNCHANGED learner
  BY CountingMoves
<1>5. ASSUME Tables', UNCHANGED work PROVE Learner'
  BY <1>3, <1>4, <1>5 DEF Learner
<1>6. CASE Grams!CountBigram(c) \/ Grams!CountRow(c)
  BY <1>1, <1>5, <1>6, CountsIs DEF Learner, Tables
<1>7. CASE Grams!CountEvent(c)
  <2>1. PICK cur \in Nat : cur = total_events[y.m] + 1
    BY <1>2 DEF Learner, Tables
  <2>2. /\ total_events' = [total_events EXCEPT ![y.m] = cur]
        /\ UNCHANGED <<cell, next_halve_at, elected, work>>
    BY <1>1, <1>7, <2>1, CountEventIs
  <2>3. total_events' \in [Model -> Nat]
    BY <1>2, <2>1, <2>2 DEF Learner, Tables
  <2> QED
    BY <1>5, <2>2, <2>3 DEF Learner, Tables
<1>8. CASE Grams!Stand(c)
  <2>1. next_halve_at[y.m] \in Nat
    BY <1>2 DEF Learner, Tables
  <2> QED
    BY <1>1, <1>5, <1>8, <2>1, StandIs DEF Learner, Tables
<1>9. CASE Grams!Elect(c)
  <2>1. Grams!Interval(y.m) \in Nat
    BY DEF Grams!NgramAssumption, Grams!Interval
  <2>2. next_halve_at' \in [Model -> Nat] /\ elected' \in [Model -> Nat]
    <3>1. PICK n \in Nat : n = Grams!Interval(y.m)
      BY <2>1
    <3>2. next_halve_at \in [Model -> Nat] /\ elected \in [Model -> Nat]
      BY DEF Learner, Tables
    <3>3. \/ /\ next_halve_at' = [next_halve_at EXCEPT ![y.m] = @ + n]
             /\ elected' = [elected EXCEPT ![y.m] = @ + 1]
          \/ UNCHANGED <<next_halve_at, elected>>
      BY <1>1, <1>9, <3>1, ElectIs
    <3> QED
      BY <1>2, <3>2, <3>3
  <2>3. UNCHANGED <<cell, total_events, work>>
    BY <1>1, <1>9, ElectIs
  <2> QED
    BY <1>5, <2>2, <2>3 DEF Learner, Tables
<1>10. CASE Grams!Schedule(c)
  <2>1. work' = [work EXCEPT ![y.m].queued = TRUE]
    BY <1>1, <1>10, ScheduleIs
  <2>2. work' \in [Model -> Halving]
    <3>1. work \in [Model -> Halving]
      BY DEF Learner
    <3> QED
      BY <1>2, <2>1, <3>1, HalvingQueued
  <2>3. Tables'
    BY <1>1, <1>10, ScheduleIs DEF Learner, Tables
  <2> QED
    BY <1>3, <1>4, <2>2, <2>3 DEF Learner
<1> QED
  BY <1>6, <1>7, <1>8, <1>9, <1>10 DEF Grams!ProbeStep

LEMMA LearnerUnload ==
    ASSUME Learner,
           Grams!Unregister \/ Grams!Synchronize \/ Grams!CancelWork
               \/ Grams!FlushWork
    PROVE  Learner'
<1>1. work' \in [Model -> Halving]
  <2>1. learner.m \in Model
    BY DEF Learner
  <2> QED
    <3>1. work \in [Model -> Halving]
      BY DEF Learner
    <3>2. \/ UNCHANGED work
          \/ work' = [work EXCEPT ![learner.m].queued = FALSE]
      BY DEF Grams!Unregister, Grams!Synchronize, Grams!CancelWork,
             Grams!FlushWork
    <3>3. [work EXCEPT ![learner.m].queued = FALSE] \in [Model -> Halving]
      BY <2>1, <3>1, HalvingQueued
    <3> QED
      BY <3>1, <3>2, <3>3
<1>2. learner' \in [at : {"loaded", "draining", "cancel", "flush", "freed"},
                    m : Model]
  <2>1. {"baseline", "adaptive", learner.m} \subseteq Model
    BY DEF Learner, Model, Grams!Model
  <2> QED
    BY <2>1 DEF Grams!Unregister, Grams!Synchronize, Grams!CancelWork,
                Grams!FlushWork, Grams!UnloadTo
<1> QED
  BY <1>1, <1>2, UnloadIs DEF Learner, Tables

LEMMA LearnerNext ==
    ASSUME Grams!NgramAssumption, Learner, [Grams!Next]_Grams!vars
    PROVE  Learner'
<1>1. CASE UNCHANGED Grams!vars
  BY <1>1 DEF Grams!vars, Grams!model, Learner, Tables
<1>2. ASSUME NEW c \in CPU, NEW token \in Token, Grams!FirstEvent(c, token)
      PROVE  Learner'
  BY <1>2, FirstEventIs DEF Learner, Tables
<1>3. ASSUME NEW c \in CPU, NEW token \in Token, Grams!Event(c, token)
      PROVE  Learner'
  BY <1>3, EventIs DEF Learner, Tables
<1>4. CASE \E c \in CPU : Grams!ProbeStep(c)
  BY <1>4, LearnerProbe
<1>5. ASSUME NEW m \in Model, Grams!HalveStep(m) PROVE Learner'
  BY <1>5, HalveIs DEF Learner, Tables
<1>6. CASE Grams!Unregister \/ Grams!Synchronize \/ Grams!CancelWork
               \/ Grams!FlushWork
  BY <1>6, LearnerUnload
<1> QED
  BY <1>1, <1>2, <1>3, <1>4, <1>5, <1>6 DEF Grams!Next, Model, Token

------------------------------------------------------------------------------
(* What unloading has stopped: no processor counts once it has waited for  *)
(* the probes, and the halving of a model is over once it has flushed it.  *)
Over(m) == work[m].pc = "idle" /\ ~work[m].queued

Freeing ==
    /\ learner.at \in {"cancel", "flush", "freed"} => Grams!Quiet
    /\ learner.at = "flush" => ~work[learner.m].queued
    /\ learner.at \in {"cancel", "flush", "freed"} /\ learner.m = "adaptive" =>
           Over("baseline")
    /\ learner.at = "freed" => learner.m = "adaptive" /\ Over("adaptive")

LEMMA FreeingUnload ==
    ASSUME Learner, Freeing,
           Grams!Unregister \/ Grams!Synchronize \/ Grams!CancelWork
               \/ Grams!FlushWork
    PROVE  Freeing'
<1>1. PICK f \in [Model -> Halving] : f = work
  BY DEF Learner
<1>2. PICK m \in Model : m = learner.m
  BY DEF Learner
<1>3. m = "baseline" \/ m = "adaptive"
  BY <1>2 DEF Model, Grams!Model
<1>4. Grams!Quiet <=> Grams!Quiet'
  BY UnloadIs DEF Grams!Quiet
<1>5. CASE Grams!Unregister
  BY <1>5 DEF Grams!Unregister, Grams!UnloadTo, Freeing
<1>6. CASE Grams!Synchronize
  BY <1>4, <1>6 DEF Grams!Synchronize, Grams!UnloadTo, Freeing
<1>7. CASE Grams!CancelWork
  <2>1. /\ learner.at = "cancel" /\ learner' = [at |-> "flush", m |-> m]
        /\ work' = [f EXCEPT ![m].queued = FALSE]
    BY <1>1, <1>2, <1>7 DEF Grams!CancelWork, Grams!UnloadTo
  <2>2. PICK g : g = work' /\ g[m].queued = FALSE
                 /\ \A n \in Model : n # m => g[n] = f[n]
    BY <1>1, <2>1 DEF Halving
  <2>3. m = "adaptive" => Over("baseline")'
    <3>1. "baseline" \in Model
      BY DEF Model, Grams!Model
    <3> QED
      BY <1>1, <1>2, <2>1, <2>2, <3>1 DEF Freeing, Over
  <2> QED
    BY <1>4, <2>1, <2>2, <2>3 DEF Freeing
<1>8. CASE Grams!FlushWork
  <2>1. /\ learner.at = "flush" /\ work[m].pc = "idle" /\ UNCHANGED work
        /\ ~work[m].queued /\ Grams!Quiet
    BY <1>2, <1>8 DEF Grams!FlushWork, Freeing
  <2>2. CASE m = "baseline"
    <3>1. learner' = [at |-> "cancel", m |-> "adaptive"]
      BY <1>2, <1>8, <2>2 DEF Grams!FlushWork, Grams!UnloadTo
    <3> QED
      BY <1>4, <2>1, <2>2, <3>1 DEF Freeing, Over
  <2>3. CASE m = "adaptive"
    <3>1. learner' = [at |-> "freed", m |-> "adaptive"]
      BY <1>2, <1>8, <2>3 DEF Grams!FlushWork, Grams!UnloadTo
    <3>2. Over("baseline")
      BY <1>2, <2>1, <2>3 DEF Freeing
    <3> QED
      BY <1>4, <2>1, <2>3, <3>1, <3>2 DEF Freeing, Over
  <2> QED
    BY <1>3, <2>2, <2>3
<1> QED
  BY <1>5, <1>6, <1>7, <1>8

LEMMA FreeingHalve ==
    ASSUME Grams!NgramAssumption, Learner, Freeing, NEW m \in Model,
           Grams!HalveStep(m)
    PROVE  Freeing'
<1>1. PICK w \in Halving : /\ work' = [work EXCEPT ![m] = w]
                           /\ w.queued => work[m].queued
  BY HalveIs
<1>2. UNCHANGED <<counting, learner>> /\ ~Over(m)
  BY HalveIs DEF Over
<1>3. /\ work'[m] = w
      /\ \A n \in Model : n # m => work'[n] = work[n]
  BY <1>1 DEF Learner
<1>4. \A n \in Model : Over(n) => Over(n)'
  BY <1>2, <1>3 DEF Over
<1>5. \A n \in Model : ~work[n].queued => ~work'[n].queued
  BY <1>1, <1>3
<1>6. learner.m \in Model /\ "baseline" \in Model /\ "adaptive" \in Model
  BY DEF Learner, Model, Grams!Model
<1> QED
  BY <1>2, <1>4, <1>5, <1>6 DEF Freeing, Grams!Quiet

LEMMA FreeingNext ==
    ASSUME Grams!NgramAssumption, Learner, Freeing, [Grams!Next]_Grams!vars
    PROVE  Freeing'
<1>1. CASE UNCHANGED Grams!vars
  BY <1>1 DEF Grams!vars, Freeing, Over, Grams!Quiet
<1>2. ASSUME learner.at \in {"loaded", "draining"}, UNCHANGED learner
      PROVE  Freeing'
  BY <1>2 DEF Freeing
<1>3. ASSUME NEW c \in CPU, NEW token \in Token, Grams!FirstEvent(c, token)
      PROVE  Freeing'
  BY <1>2, <1>3, FirstEventIs
<1>4. ASSUME NEW c \in CPU, NEW token \in Token, Grams!Event(c, token)
      PROVE  Freeing'
  BY <1>2, <1>4, EventIs
<1>5. ASSUME NEW c \in CPU, Grams!ProbeStep(c) PROVE Freeing'
  <2>1. ~Grams!Quiet /\ UNCHANGED learner
    BY <1>5, CountingMoves DEF Grams!Quiet
  <2> QED
    BY <1>2, <2>1 DEF Freeing, Learner
<1>6. ASSUME NEW m \in Model, Grams!HalveStep(m) PROVE Freeing'
  BY <1>6, FreeingHalve
<1>7. CASE Grams!Unregister \/ Grams!Synchronize \/ Grams!CancelWork
               \/ Grams!FlushWork
  BY <1>7, FreeingUnload
<1> QED
  BY <1>1, <1>3, <1>4, <1>5, <1>6, <1>7 DEF Grams!Next, Model, Token

(* When the learner's tables are freed no processor counts in them, and    *)
(* the halving neither runs nor waits to run, for any number of processors *)
(* and any intervals.                                                      *)
THEOREM GramsMemoryCorrect ==
    ASSUME Grams!NgramAssumption
    PROVE  Grams!Spec => []Grams!FreedModelUnused
<1>1. Grams!Init => Learner /\ Freeing
  BY LearnerInit DEF Grams!Init, Freeing
<1>2. (Learner /\ Freeing) /\ [Grams!Next]_Grams!vars => (Learner /\ Freeing)'
  BY LearnerNext, FreeingNext
<1>3. Freeing => Grams!FreedModelUnused
  BY DEF Freeing, Over, Grams!FreedModelUnused, Grams!Model
<1> QED
  BY <1>1, <1>2, <1>3, PTL DEF Grams!Spec

------------------------------------------------------------------------------
(* The adaptive model of a learner whose threshold no unseen bigram is     *)
(* under: its table is empty, so that every bigram is unseen in it and no  *)
(* event is learnt.                                                        *)
Gated == NrFields * MaxSurprise >= LearnThreshold

Unlearnt ==
    /\ total_events["adaptive"] = 0
    /\ \A k \in Grid : cell["adaptive"][k] = 0
    /\ work["adaptive"].pc # "set"
    /\ \A c \in CPU : counting[c].m = "baseline" /\ ~counting[c].learn

LEMMA UnlearntEvent ==
    ASSUME Grams!NgramAssumption, Learner, Gated, Unlearnt,
           NEW c \in CPU, NEW token \in Token, Grams!Event(c, token)
    PROVE  Unlearnt'
<1>1. PICK i \in Token : i = prev[c]
  BY EventIs
<1>2. Grams!Surprise("adaptive", i, token) = MaxSurprise
  <2>1. Grams!Row(i) \in Grid /\ <<i, token>> \in Grid
    BY DEF Grid, Grams!Cells, Token, Grams!Token, Grams!Row,
           Grams!NgramAssumption
  <2>2. cell["adaptive"][Grams!Row(i)] = 0 /\ cell["adaptive"][<<i, token>>] = 0
    BY <2>1 DEF Unlearnt
  <2> QED
    BY <2>2 DEF Grams!Surprise
<1>3. PICK p \in Int : p = NrFields * MaxSurprise
  BY DEF Grams!NgramAssumption
<1>4. PICK t \in Int : t = LearnThreshold
  BY DEF Grams!NgramAssumption
<1>5. ~(p < t)
  BY <1>3, <1>4 DEF Gated
<1>6. PICK x \in Counting :
          /\ counting' = [counting EXCEPT ![c] = x]
          /\ x.m = "baseline"
          /\ x.learn => p < t
  BY <1>1, <1>2, <1>3, <1>4, EventIs
<1>7. counting \in [CPU -> Counting]
  BY DEF Learner
<1>8. \A d \in CPU : counting'[d] = IF d = c THEN x ELSE counting[d]
  BY <1>6, <1>7
<1>9. \A d \in CPU : counting'[d].m = "baseline" /\ ~counting'[d].learn
  BY <1>5, <1>6, <1>8 DEF Unlearnt
<1>10. UNCHANGED <<cell, total_events, work>>
  BY EventIs
<1> QED
  BY <1>9, <1>10 DEF Unlearnt

LEMMA UnlearntProbe ==
    ASSUME Grams!NgramAssumption, Learner, Unlearnt, NEW c \in CPU,
           Grams!ProbeStep(c)
    PROVE  Unlearnt'
<1>1. PICK y \in Counting : y = counting[c] /\ y.m = "baseline" /\ ~y.learn
  BY DEF Learner, Unlearnt
<1>2. counting \in [CPU -> Counting]
  BY DEF Learner
<1>3. ASSUME NEW x \in Counting, counting' = [counting EXCEPT ![c] = x],
             x.m = "baseline", ~x.learn
      PROVE  \A d \in CPU : counting'[d].m = "baseline" /\ ~counting'[d].learn
  <2>1. \A d \in CPU : counting'[d] = IF d = c THEN x ELSE counting[d]
    BY <1>2, <1>3
  <2> QED
    BY <1>3, <2>1 DEF Unlearnt
<1>4. Grams!Updated(c) =>
          \A d \in CPU : counting'[d].m = "baseline" /\ ~counting'[d].learn
  BY <1>1, <1>3, NoProbeIs, UpdatedIs
<1>5. "baseline" # "adaptive" /\ "adaptive" \in Model /\ "baseline" \in Model
  BY DEF Model, Grams!Model
<1>6. CASE Grams!CountBigram(c) \/ Grams!CountRow(c)
  <2>1. \A to \in {"row", "total"} :
            /\ GoesTo(y, to) \in Counting /\ GoesTo(y, to).m = "baseline"
            /\ ~GoesTo(y, to).learn
    BY <1>1, GoesToIs DEF CountPC
  <2>2. \A d \in CPU : counting'[d].m = "baseline" /\ ~counting'[d].learn
    BY <1>1, <1>3, <1>6, <2>1, CountsIs
  <2>3. UNCHANGED <<total_events, work>> /\ cell'["adaptive"] = cell["adaptive"]
    BY <1>1, <1>5, <1>6, CountsIs
  <2> QED
    BY <2>2, <2>3 DEF Unlearnt
<1>7. CASE Grams!CountEvent(c)
  <2>1. PICK cur \in Nat : cur = total_events[y.m] + 1
    BY <1>1, <1>5 DEF Learner, Tables
  <2>2. \A d \in CPU : counting'[d].m = "baseline" /\ ~counting'[d].learn
    BY <1>1, <1>3, <1>4, <1>7, <2>1, CountEventIs, StandsIs
  <2>3. total_events' = [total_events EXCEPT !["baseline"] = cur]
        /\ UNCHANGED <<cell, work>>
    BY <1>1, <1>7, <2>1, CountEventIs
  <2> QED
    BY <1>5, <2>2, <2>3 DEF Unlearnt, Learner, Tables
<1>8. CASE Grams!Stand(c)
  <2>1. PICK threshold \in Nat : threshold = next_halve_at[y.m]
    BY <1>1, <1>5 DEF Learner, Tables
  <2>2. \A d \in CPU : counting'[d].m = "baseline" /\ ~counting'[d].learn
    BY <1>1, <1>3, <1>4, <1>8, <2>1, StandIs, BidsIs
  <2> QED
    BY <1>1, <1>8, <2>1, <2>2, StandIs DEF Unlearnt
<1>9. CASE Grams!Elect(c)
  <2>1. /\ GoesTo(y, "schedule") \in Counting
        /\ GoesTo(y, "schedule").m = "baseline" /\ ~GoesTo(y, "schedule").learn
    BY <1>1, GoesToIs DEF CountPC
  <2>2. \A d \in CPU : counting'[d].m = "baseline" /\ ~counting'[d].learn
    BY <1>1, <1>3, <1>4, <1>9, <2>1, ElectIs
  <2> QED
    BY <1>1, <1>9, <2>2, ElectIs DEF Unlearnt
<1>10. CASE Grams!Schedule(c)
  <2>1. work' = [work EXCEPT !["baseline"].queued = TRUE]
        /\ UNCHANGED <<cell, total_events>>
    BY <1>1, <1>10, ScheduleIs
  <2>2. work'["adaptive"] = work["adaptive"]
    BY <1>5, <2>1 DEF Learner
  <2> QED
    BY <1>1, <1>4, <1>10, <2>1, <2>2, ScheduleIs DEF Unlearnt
<1> QED
  BY <1>6, <1>7, <1>8, <1>9, <1>10 DEF Grams!ProbeStep

LEMMA UnlearntHalve ==
    ASSUME Grams!NgramAssumption, Learner, Unlearnt, NEW m \in Model,
           Grams!HalveStep(m)
    PROVE  Unlearnt'
<1>1. PICK w \in Halving : /\ work' = [work EXCEPT ![m] = w]
                           /\ w.pc = "set" => cell[m][work[m].at] > 0
  BY HalveIs
<1>2. UNCHANGED <<total_events, counting>>
  BY HalveIs
<1>3. "adaptive" \in Model /\ work["adaptive"].pc # "set"
  BY DEF Model, Grams!Model, Unlearnt
<1>4. cell'["adaptive"] = cell["adaptive"]
  BY <1>3, HalveIs
<1>5. work'["adaptive"].pc # "set"
  <2>1. CASE m = "adaptive"
    <3>1. work[m].at \in Grid
      BY HalvingFields DEF Learner
    <3>2. ~(cell[m][work[m].at] > 0)
      BY <2>1, <3>1 DEF Unlearnt
    <3>3. work'[m] = w
      BY <1>1 DEF Learner
    <3> QED
      BY <1>1, <2>1, <3>2, <3>3
  <2>2. CASE m # "adaptive"
    <3>1. work'["adaptive"] = work["adaptive"]
      BY <1>1, <1>3, <2>2 DEF Learner
    <3> QED
      BY <1>3, <3>1
  <2> QED
    BY <2>1, <2>2
<1> QED
  BY <1>2, <1>4, <1>5 DEF Unlearnt

LEMMA UnlearntNext ==
    ASSUME Grams!NgramAssumption, Learner, Gated, Unlearnt,
           [Grams!Next]_Grams!vars
    PROVE  Unlearnt'
<1>1. CASE UNCHANGED Grams!vars
  BY <1>1 DEF Grams!vars, Grams!model, Unlearnt
<1>2. ASSUME NEW c \in CPU, NEW token \in Token, Grams!FirstEvent(c, token)
      PROVE  Unlearnt'
  BY <1>2, FirstEventIs DEF Unlearnt
<1>3. CASE \E c \in CPU, token \in Token : Grams!Event(c, token)
  BY <1>3, UnlearntEvent
<1>4. CASE \E c \in CPU : Grams!ProbeStep(c)
  BY <1>4, UnlearntProbe
<1>5. CASE \E m \in Model : Grams!HalveStep(m)
  BY <1>5, UnlearntHalve
<1>6. CASE Grams!Unregister \/ Grams!Synchronize \/ Grams!CancelWork
               \/ Grams!FlushWork
  <2>1. "adaptive" \in Model /\ learner.m \in Model
    BY DEF Model, Grams!Model, Learner
  <2>2. work'["adaptive"].pc = work["adaptive"].pc
    <3>1. work \in [Model -> Halving]
      BY DEF Learner
    <3>2. \/ UNCHANGED work
          \/ work' = [work EXCEPT ![learner.m].queued = FALSE]
      BY <1>6 DEF Grams!Unregister, Grams!Synchronize, Grams!CancelWork,
                  Grams!FlushWork
    <3> QED
      BY <2>1, <3>1, <3>2 DEF Halving
  <2> QED
    BY <1>6, <2>2, UnloadIs DEF Unlearnt
<1> QED
  BY <1>1, <1>2, <1>3, <1>4, <1>5, <1>6 DEF Grams!Next, Model, Token

(* The adaptive model, gated by its own surprise, stays as empty as it     *)
(* starts: for every number of processors, tokens and fields and every     *)
(* threshold that an unseen bigram does not pass under.                    *)
THEOREM GramsAdaptiveCorrect ==
    ASSUME Grams!NgramAssumption
    PROVE  Grams!Spec => []Grams!AdaptiveStaysEmpty
<1>1. Grams!Init => Learner /\ (Gated => Unlearnt)
  <2> SUFFICES ASSUME Grams!Init PROVE Unlearnt
    BY LearnerInit
  <2>1. "adaptive" \in Model
    BY DEF Model, Grams!Model
  <2> QED
    BY <2>1, NoProbeIs, NoWorkIs DEF Grams!Init, Unlearnt, Model, Grid
<1>2. (Learner /\ (Gated => Unlearnt)) /\ [Grams!Next]_Grams!vars
          => (Learner /\ (Gated => Unlearnt))'
  <2>1. Gated <=> Gated'
    BY DEF Gated
  <2> QED
    BY <2>1, LearnerNext, UnlearntNext
<1>3. (Gated => Unlearnt) => Grams!AdaptiveStaysEmpty
  BY DEF Gated, Unlearnt, Grams!AdaptiveStaysEmpty, Grid
<1> QED
  BY <1>1, <1>2, <1>3, PTL DEF Grams!Spec

------------------------------------------------------------------------------
(* One threshold passed, one election won.                                 *)
LEMMA Distributes ==
    ASSUME NEW i \in Nat, NEW e \in Nat
    PROVE  i * (1 + e) + i = i * (1 + (e + 1))
OBVIOUS

LEMMA IntervalIs ==
    ASSUME Grams!NgramAssumption, NEW m PROVE Grams!Interval(m) \in Nat
BY DEF Grams!Interval, Grams!NgramAssumption

(* The steps other than winning an election leave the thresholds alone.    *)
LEMMA ThresholdsMove ==
    ASSUME Grams!NgramAssumption, Learner, Grams!Next
    PROVE  \/ UNCHANGED <<next_halve_at, elected>>
           \/ \E m \in Model :
                 /\ next_halve_at' =
                       [next_halve_at EXCEPT ![m] = @ + Grams!Interval(m)]
                 /\ elected' = [elected EXCEPT ![m] = @ + 1]
<1>1. ASSUME NEW c \in CPU, NEW token \in Token,
             Grams!FirstEvent(c, token) \/ Grams!Event(c, token)
      PROVE  UNCHANGED <<next_halve_at, elected>>
  BY <1>1, FirstEventIs, EventIs
<1>2. ASSUME NEW m \in Model, Grams!HalveStep(m)
      PROVE  UNCHANGED <<next_halve_at, elected>>
  BY <1>2, HalveIs
<1>3. CASE Grams!Unregister \/ Grams!Synchronize \/ Grams!CancelWork
               \/ Grams!FlushWork
  BY <1>3, UnloadIs DEF Grams!Unregister, Grams!Synchronize, Grams!CancelWork,
                        Grams!FlushWork, Grams!UnloadTo, Grams!model
<1>4. ASSUME NEW c \in CPU, Grams!ProbeStep(c), ~Grams!Elect(c)
      PROVE  UNCHANGED <<next_halve_at, elected>>
  BY <1>4 DEF Grams!ProbeStep, Grams!CountBigram, Grams!CountRow, Grams!Bump,
              Grams!CountEvent, Grams!Stand, Grams!Schedule, Grams!model
<1>5. ASSUME NEW c \in CPU, Grams!Elect(c)
      PROVE  \/ UNCHANGED <<next_halve_at, elected>>
             \/ \E m \in Model :
                   /\ next_halve_at' =
                         [next_halve_at EXCEPT ![m] = @ + Grams!Interval(m)]
                   /\ elected' = [elected EXCEPT ![m] = @ + 1]
  <2>1. PICK y \in Counting : y = counting[c] /\ y.m \in Model
    BY CountingFields DEF Learner
  <2> QED
    BY <1>5, <2>1, ElectIs
<1> QED
  BY <1>1, <1>2, <1>3, <1>4, <1>5 DEF Grams!Next, Model, Token

LEMMA OneElectedNext ==
    ASSUME Grams!NgramAssumption, Learner, Grams!OneElected,
           [Grams!Next]_Grams!vars
    PROVE  Grams!OneElected'
<1>1. CASE UNCHANGED <<next_halve_at, elected>>
  BY <1>1 DEF Grams!OneElected, Grams!Interval
<1>2. ASSUME NEW m \in Model,
             next_halve_at' =
                 [next_halve_at EXCEPT ![m] = @ + Grams!Interval(m)],
             elected' = [elected EXCEPT ![m] = @ + 1]
      PROVE  Grams!OneElected'
  <2>1. PICK i \in Nat, e \in Nat : i = Grams!Interval(m) /\ e = elected[m]
    BY IntervalIs DEF Learner, Tables
  <2>2. next_halve_at[m] = i * (1 + e)
    BY <2>1 DEF Grams!OneElected, Model
  <2>3. next_halve_at'[m] = i * (1 + e) + i /\ elected'[m] = e + 1
    BY <1>2, <2>1, <2>2 DEF Learner, Tables
  <2>4. next_halve_at'[m] = i * (1 + elected'[m])
    BY <2>3, Distributes
  <2>5. \A n \in Model : n # m => next_halve_at'[n] = next_halve_at[n]
                                  /\ elected'[n] = elected[n]
    BY <1>2 DEF Learner, Tables
  <2> QED
    BY <2>1, <2>4, <2>5 DEF Grams!OneElected, Model, Grams!Interval
<1> QED
  BY <1>1, <1>2, ThresholdsMove DEF Grams!vars, Grams!model

------------------------------------------------------------------------------
(* Every event since the threshold is with a processor that may still have *)
(* the threshold moved: it has not looked at it, or looked when it was     *)
(* what it is.                                                             *)
Sees(y, m, n, e) ==
    /\ y.m = m /\ y.cur = e
    /\ y.pc = "elect" \/ (y.pc = "cmpxchg" /\ y.threshold = n)

Seen(p, m, n, e) == \E c \in CPU : Sees(p[c], m, n, e)

Standing(y, t) ==
    /\ y.pc \in {"elect", "cmpxchg"} => y.cur <= t
    /\ y.pc = "cmpxchg" => y.threshold <= y.cur

Rising(p, m, n, t) ==
    /\ n <= t + Grams!Interval(m)
    /\ \A e \in n .. t : Seen(p, m, n, e)
    /\ \A c \in CPU : p[c].m = m => Standing(p[c], t)

(* The instance has its own names for the operators of FiniteSets.         *)
LEMMA SameCardinality ==
    /\ IsFiniteSet(CPU) <=> Grams!IsFiniteSet(CPU)
    /\ Cardinality(CPU) = Grams!Cardinality(CPU)
<1>1. IsFiniteSet(CPU) <=> Grams!IsFiniteSet(CPU)
  BY DEF Grams!IsFiniteSet, IsFiniteSet
<1>2. Cardinality(CPU) = Grams!Cardinality(CPU)
  BY DEF Grams!Cardinality, Cardinality
<1> QED
  BY <1>1, <1>2

(* There are no more of them than processors.                              *)
LEMMA Few ==
    ASSUME Grams!NgramAssumption, NEW p, NEW m, NEW n \in Nat, NEW t \in Nat,
           \A e \in n .. t : Seen(p, m, n, e)
    PROVE  Cardinality(CPU) \in Nat \ {0} /\ t < n + Cardinality(CPU)
<1>1. IsFiniteSet(CPU) /\ CPU # {}
  BY SameCardinality DEF Grams!NgramAssumption
<1>2. Cardinality(CPU) \in Nat \ {0}
  BY <1>1, FS_CardinalityType, FS_EmptySet
<1>3. CASE t < n
  BY <1>2, <1>3
<1>4. CASE ~(t < n)
  <2>1. PICK f \in [CPU -> n .. t] :
            f = [c \in CPU |-> IF p[c].cur \in n .. t THEN p[c].cur ELSE n]
    <3>1. n \in n .. t
      BY <1>4
    <3> QED
      BY <3>1
  <2>2. \A e \in n .. t : \E c \in CPU : f[c] = e
    BY <2>1 DEF Seen, Sees
  <2>3. f \in Surjection(CPU, n .. t)
    BY <2>1, <2>2 DEF Surjection
  <2>4. Cardinality(n .. t) <= Cardinality(CPU)
    BY <1>1, <2>3, FS_Surjection
  <2>5. Cardinality(n .. t) = t - n + 1
    BY <1>4, FS_Interval
  <2> QED
    BY <1>2, <2>4, <2>5
<1> QED
  BY <1>3, <1>4

(* A step of one processor that may still see what it saw.                 *)
LEMMA RisingMove ==
    ASSUME NEW p \in [CPU -> Counting], NEW c \in CPU, NEW x \in Counting,
           NEW q, q[c] = x, \A d \in CPU : d # c => q[d] = p[d], NEW m, NEW n \in Nat,
           NEW t \in Nat, Rising(p, m, n, t),
           \A e \in n .. t : Sees(p[c], m, n, e) => Sees(x, m, n, e),
           x.m = m => Standing(x, t)
    PROVE  Rising(q, m, n, t)
<1>1. q[c] = x /\ \A d \in CPU : d # c => q[d] = p[d]
  OBVIOUS
<1>2. ASSUME NEW e \in n .. t PROVE Seen(q, m, n, e)
  <2>1. PICK d \in CPU : Sees(p[d], m, n, e)
    BY DEF Rising, Seen
  <2>2. Sees(q[d], m, n, e)
    BY <1>1, <2>1
  <2> QED
    BY <2>2 DEF Seen
<1>3. \A d \in CPU : q[d].m = m => Standing(q[d], t)
  BY <1>1 DEF Rising
<1> QED
  BY <1>2, <1>3 DEF Rising

LEMMA RisingAside ==
    ASSUME NEW p \in [CPU -> Counting], NEW c \in CPU, NEW x \in Counting,
           NEW q, q = [p EXCEPT ![c] = x], NEW m, NEW n \in Nat,
           NEW t \in Nat, Rising(p, m, n, t),
           p[c].m = m => p[c].pc \notin {"elect", "cmpxchg"},
           x.m = m => x.pc \notin {"elect", "cmpxchg"}
    PROVE  Rising(q, m, n, t)
<1>1. \A e \in n .. t : ~Sees(p[c], m, n, e)
  BY DEF Sees
<1>2. x.m = m => Standing(x, t)
  BY DEF Standing
<1>3. q[c] = x /\ \A d \in CPU : d # c => q[d] = p[d]
  OBVIOUS
<1> QED
  BY <1>1, <1>2, <1>3, RisingMove

(* An event is counted, and is with its processor.                         *)
LEMMA RisingCount ==
    ASSUME NEW p \in [CPU -> Counting], NEW c \in CPU, NEW x \in Counting,
           NEW q, q[c] = x, \A d \in CPU : d # c => q[d] = p[d], NEW m, NEW n \in Nat,
           NEW t \in Nat, Grams!Interval(m) \in Nat, Rising(p, m, n, t),
           p[c].pc = "total",
           x.m = m, x.pc = "elect", x.cur = t + 1
    PROVE  Rising(q, m, n, t + 1)
<1>1. q[c] = x /\ \A d \in CPU : d # c => q[d] = p[d]
  OBVIOUS
<1>2. ASSUME NEW e \in n .. t + 1 PROVE Seen(q, m, n, e)
  <2>1. CASE e = t + 1
    BY <1>1, <2>1 DEF Seen, Sees
  <2>2. CASE e # t + 1
    <3>1. e \in n .. t
      BY <2>2
    <3>2. PICK d \in CPU : Sees(p[d], m, n, e)
      BY <3>1 DEF Rising, Seen
    <3>3. d # c
      BY <3>2 DEF Sees
    <3> QED
      BY <1>1, <3>2, <3>3 DEF Seen
  <2> QED
    BY <2>1, <2>2
<1>3. ASSUME NEW d \in CPU, q[d].m = m PROVE Standing(q[d], t + 1)
  <2>1. CASE d = c
    BY <1>1, <2>1 DEF Standing
  <2>2. CASE d # c
    <3>1. p[d] \in Counting /\ p[d].cur \in Nat
      BY CountingFields
    <3>2. q[d] = p[d] /\ Standing(p[d], t)
      BY <1>1, <1>3, <2>2 DEF Rising
    <3> QED
      BY <3>1, <3>2 DEF Standing
  <2> QED
    BY <2>1, <2>2
<1>4. n <= (t + 1) + Grams!Interval(m)
  BY DEF Rising
<1> QED
  BY <1>2, <1>3, <1>4 DEF Rising

(* The threshold is seen to have been passed, or not to have been.         *)
LEMMA RisingStand ==
    ASSUME NEW p \in [CPU -> Counting], NEW c \in CPU, NEW x \in Counting,
           NEW q, q[c] = x, \A d \in CPU : d # c => q[d] = p[d], NEW m, NEW n \in Nat,
           NEW t \in Nat, Rising(p, m, n, t),
           p[c].m = m, p[c].pc = "elect",
           \/ /\ x.m = m /\ x.pc = "cmpxchg" /\ x.cur = p[c].cur
              /\ x.threshold = n /\ p[c].cur >= n
           \/ x.pc \notin {"elect", "cmpxchg"} /\ ~(p[c].cur >= n)
    PROVE  Rising(q, m, n, t)
<1>1. p[c].cur \in Nat
  BY CountingFields
<1>2. p[c].cur <= t
  BY DEF Rising, Standing
<1>3. \A e \in n .. t : Sees(p[c], m, n, e) => Sees(x, m, n, e)
  BY <1>1 DEF Sees
<1>4. Standing(x, t)
  BY <1>1, <1>2 DEF Standing
<1>5. q[c] = x /\ \A d \in CPU : d # c => q[d] = p[d]
  OBVIOUS
<1> QED
  BY <1>3, <1>4, <1>5, RisingMove

(* The threshold is moved past every event, and by no more than it may be. *)
LEMMA RisingElect ==
    ASSUME Grams!NgramAssumption,
           NEW p \in [CPU -> Counting], NEW c \in CPU, NEW x \in Counting,
           NEW q, q[c] = x, \A d \in CPU : d # c => q[d] = p[d], NEW m, NEW n \in Nat,
           NEW t \in Nat, Rising(p, m, n, t),
           Grams!Interval(m) >= Cardinality(CPU),
           p[c].m = m, p[c].pc = "cmpxchg", p[c].threshold = n,
           x.pc \notin {"elect", "cmpxchg"}
    PROVE  Rising(q, m, n + Grams!Interval(m), t)
<1>1. PICK i \in Nat : i = Grams!Interval(m)
  BY IntervalIs
<1>2. n <= t
  <2>1. p[c].cur \in Nat
    BY CountingFields
  <2> QED
    BY <2>1 DEF Rising, Standing
<1>3. t < n + i
  <2>1. Cardinality(CPU) \in Nat \ {0} /\ t < n + Cardinality(CPU)
    BY Few DEF Rising
  <2>2. PICK k \in Nat : k = Cardinality(CPU)
    BY <2>1
  <2> QED
    BY <1>1, <2>1, <2>2
<1>4. \A d \in CPU : q[d].m = m => Standing(q[d], t)
  <2>1. q[c] = x /\ \A d \in CPU : d # c => q[d] = p[d]
    OBVIOUS
  <2>2. Standing(x, t)
    BY DEF Standing
  <2> QED
    BY <2>1, <2>2 DEF Rising
<1>5. \A e \in n + i .. t : Seen(q, m, n + i, e)
  BY <1>3
<1>6. n + i <= t + i
  BY <1>2
<1> QED
  BY <1>1, <1>4, <1>5, <1>6 DEF Rising

Fresh(m) == Grams!Interval(m) >= Cardinality(CPU)

Keeping ==
    \A m \in Model :
        Fresh(m) => Rising(counting, m, next_halve_at[m], total_events[m])

(* An event done with in a model is no longer seen there.                  *)
LEMMA UpdatedPC ==
    ASSUME Grams!NgramAssumption, Learner, NEW c \in CPU, Grams!Updated(c)
    PROVE  \E x \in Counting : /\ counting' = [counting EXCEPT ![c] = x]
                               /\ x.pc \notin {"elect", "cmpxchg"}
<1>1. counting[c] \in Counting
  BY DEF Learner
<1>2. PICK x \in Counting : /\ counting' = [counting EXCEPT ![c] = x]
                            /\ x = Learns(counting[c]) \/ x = Grams!NoProbe
  BY UpdatedIs
<1>3. x.pc = "count" \/ x.pc = "idle"
  BY <1>1, <1>2, LearnsIs, NoProbeIs
<1> QED
  BY <1>2, <1>3

LEMMA KeepingAside ==
    ASSUME Learner, Keeping, NEW c \in CPU,
           counting[c].pc \notin {"elect", "cmpxchg"},
           NEW x \in Counting, counting' = [counting EXCEPT ![c] = x],
           x.pc \notin {"elect", "cmpxchg"},
           UNCHANGED <<next_halve_at, total_events>>
    PROVE  Keeping'
<1>1. PICK p \in [CPU -> Counting] : p = counting
  BY DEF Learner
<1>2. PICK q : q = counting' /\ q = [p EXCEPT ![c] = x]
  BY <1>1
<1> SUFFICES ASSUME NEW m \in Model, Fresh(m)
             PROVE  Rising(q, m, next_halve_at[m], total_events[m])
  BY <1>2 DEF Keeping, Rising, Seen, Sees, Standing, Fresh, Grams!Interval
<1>3. PICK n \in Nat, t \in Nat : n = next_halve_at[m] /\ t = total_events[m]
  BY DEF Learner, Tables
<1>4. Rising(p, m, n, t)
  BY <1>1, <1>3 DEF Keeping
<1>5. Rising(q, m, n, t)
  BY <1>1, <1>2, <1>4, RisingAside
<1> QED
  BY <1>3, <1>5

LEMMA KeepingCount ==
    ASSUME Grams!NgramAssumption, Learner, Keeping, NEW c \in CPU,
           Grams!CountEvent(c)
    PROVE  Keeping'
<1>1. PICK p \in [CPU -> Counting] : p = counting
  BY DEF Learner
<1>2. PICK y \in Counting : y = p[c] /\ y = counting[c] /\ y.m \in Model
  BY <1>1, CountingFields
<1>3. PICK t \in [Model -> Nat] : t = total_events
  BY DEF Learner, Tables
<1>4. PICK cur \in Nat : cur = t[y.m] + 1
  BY <1>2, <1>3
<1>5. /\ y.pc = "total" /\ total_events' = [t EXCEPT ![y.m] = cur]
      /\ UNCHANGED next_halve_at
      /\ \/ Grams!Interval(y.m) = 0 /\ Grams!Updated(c)
         \/ counting' = [p EXCEPT ![c] = Stands(y, cur)]
  BY <1>1, <1>2, <1>3, <1>4, CountEventIs
<1>6. PICK x \in Counting : /\ counting' = [p EXCEPT ![c] = x]
                            /\ \/ /\ Grams!Interval(y.m) = 0
                                  /\ x.pc \notin {"elect", "cmpxchg"}
                               \/ x.pc = "elect" /\ x.m = y.m /\ x.cur = cur
  BY <1>1, <1>5, StandsIs, UpdatedPC
<1>7. PICK q : q = counting' /\ q = [p EXCEPT ![c] = x]
  BY <1>6
<1>8. ASSUME NEW m \in Model, Fresh(m)
      PROVE  Rising(q, m, next_halve_at[m], total_events'[m])
  <2>1. PICK n \in Nat : n = next_halve_at[m]
    BY DEF Learner, Tables
  <2>2. t[m] \in Nat /\ Rising(p, m, n, t[m])
    BY <1>1, <1>3, <1>8, <2>1 DEF Keeping
  <2>3. CASE m = y.m
    <3>1. Grams!Interval(m) \in Nat /\ Grams!Interval(m) # 0
      <4>1. Cardinality(CPU) \in Nat \ {0}
        BY SameCardinality, FS_CardinalityType, FS_EmptySet
           DEF Grams!NgramAssumption
      <4> QED
        BY <1>8, <4>1, IntervalIs DEF Fresh
    <3>2. x.pc = "elect" /\ x.m = m /\ x.cur = t[m] + 1
      BY <1>4, <1>6, <2>3, <3>1
    <3>3. Rising(q, m, n, t[m] + 1)
      <4>1. q[c] = x /\ \A d \in CPU : d # c => q[d] = p[d]
        BY <1>7
      <4>2. PICK k \in Nat : k = t[m]
        BY <2>2
      <4>3. /\ Rising(p, m, n, k) /\ p[c].pc = "total"
            /\ x.m = m /\ x.pc = "elect" /\ x.cur = k + 1
        BY <1>2, <1>5, <2>2, <3>2, <4>2
      <4>4. Rising(q, m, n, k + 1)
        BY <3>1, <4>1, <4>3, RisingCount
      <4> QED
        BY <4>2, <4>4
    <3>4. total_events'[m] = t[m] + 1
      BY <1>3, <1>4, <1>5, <2>3
    <3> QED
      BY <2>1, <3>3, <3>4
  <2>4. CASE m # y.m
    <3>1. x.m = m => x.pc \notin {"elect", "cmpxchg"}
      BY <1>6, <2>4
    <3>2. Rising(q, m, n, t[m])
      BY <1>2, <1>5, <1>7, <2>2, <3>1, RisingAside
    <3>3. total_events'[m] = t[m]
      BY <1>3, <1>5, <2>4
    <3> QED
      BY <2>1, <3>2, <3>3
  <2> QED
    BY <2>3, <2>4
<1> QED
  BY <1>5, <1>7, <1>8
     DEF Keeping, Rising, Seen, Sees, Standing, Fresh, Grams!Interval

LEMMA KeepingStand ==
    ASSUME Grams!NgramAssumption, Learner, Keeping, NEW c \in CPU,
           Grams!Stand(c)
    PROVE  Keeping'
<1>1. PICK p \in [CPU -> Counting] : p = counting
  BY DEF Learner
<1>2. PICK y \in Counting : y = p[c] /\ y = counting[c] /\ y.m \in Model
  BY <1>1, CountingFields
<1>3. PICK threshold \in Nat : threshold = next_halve_at[y.m]
  BY <1>2 DEF Learner, Tables
<1>4. /\ y.pc = "elect" /\ UNCHANGED <<next_halve_at, total_events>>
      /\ \/ /\ y.cur >= threshold
            /\ counting' = [p EXCEPT ![c] = Bids(y, threshold)]
         \/ ~(y.cur >= threshold) /\ Grams!Updated(c)
  BY <1>1, <1>2, <1>3, StandIs
<1>5. PICK x \in Counting :
          /\ counting' = [p EXCEPT ![c] = x]
          /\ \/ /\ x.m = y.m /\ x.pc = "cmpxchg" /\ x.cur = y.cur
                /\ x.threshold = threshold /\ y.cur >= threshold
             \/ x.pc \notin {"elect", "cmpxchg"} /\ ~(y.cur >= threshold)
  BY <1>1, <1>4, BidsIs, UpdatedPC
<1>6. PICK q : q = counting' /\ q = [p EXCEPT ![c] = x]
  BY <1>5
<1>7. ASSUME NEW m \in Model, Fresh(m)
      PROVE  Rising(q, m, next_halve_at[m], total_events[m])
  <2>1. PICK n \in Nat, t \in Nat : n = next_halve_at[m] /\ t = total_events[m]
    BY DEF Learner, Tables
  <2>2. Rising(p, m, n, t)
    BY <1>1, <1>7, <2>1 DEF Keeping
  <2>3. CASE m = y.m
    <3>1. Rising(q, m, n, t)
      <4>1. q[c] = x /\ \A d \in CPU : d # c => q[d] = p[d]
        BY <1>6
      <4>2. /\ p[c].m = m /\ p[c].pc = "elect"
            /\ \/ /\ x.m = m /\ x.pc = "cmpxchg" /\ x.cur = p[c].cur
                  /\ x.threshold = n /\ p[c].cur >= n
               \/ x.pc \notin {"elect", "cmpxchg"} /\ ~(p[c].cur >= n)
        BY <1>2, <1>3, <1>4, <1>5, <2>1, <2>3
      <4> QED
        BY <2>2, <4>1, <4>2, RisingStand
    <3> QED
      BY <2>1, <3>1
  <2>4. CASE m # y.m
    <3>1. x.m = m => x.pc \notin {"elect", "cmpxchg"}
      BY <1>5, <2>4
    <3>2. Rising(q, m, n, t)
      BY <1>2, <1>6, <2>2, <2>4, <3>1, RisingAside
    <3> QED
      BY <2>1, <3>2
  <2> QED
    BY <2>3, <2>4
<1> QED
  BY <1>4, <1>6, <1>7
     DEF Keeping, Rising, Seen, Sees, Standing, Fresh, Grams!Interval

LEMMA KeepingElect ==
    ASSUME Grams!NgramAssumption, Learner, Keeping, NEW c \in CPU,
           Grams!Elect(c)
    PROVE  Keeping'
<1>1. PICK p \in [CPU -> Counting] : p = counting
  BY DEF Learner
<1>2. PICK y \in Counting : y = p[c] /\ y = counting[c] /\ y.m \in Model
  BY <1>1, CountingFields
<1>3. PICK N \in [Model -> Nat] : N = next_halve_at
  BY DEF Learner, Tables
<1>4. /\ y.pc = "cmpxchg" /\ UNCHANGED total_events
      /\ \/ /\ N[y.m] = y.threshold
            /\ next_halve_at' = [N EXCEPT ![y.m] = @ + Grams!Interval(y.m)]
            /\ counting' = [p EXCEPT ![c] = GoesTo(y, "schedule")]
         \/ /\ N[y.m] # y.threshold /\ UNCHANGED next_halve_at
            /\ Grams!Updated(c)
  BY <1>1, <1>2, <1>3, ElectIs
<1>5. PICK x \in Counting :
          /\ counting' = [p EXCEPT ![c] = x]
          /\ x.pc \notin {"elect", "cmpxchg"}
  <2>1. GoesTo(y, "schedule") \in Counting /\ GoesTo(y, "schedule").pc = "schedule"
    BY GoesToIs DEF CountPC
  <2> QED
    BY <1>1, <1>4, <2>1, UpdatedPC
<1>6. PICK q : q = counting' /\ q = [p EXCEPT ![c] = x]
  BY <1>5
<1>7. ASSUME NEW m \in Model, Fresh(m)
      PROVE  Rising(q, m, next_halve_at'[m], total_events[m])
  <2>1. PICK n \in Nat, t \in Nat : n = N[m] /\ t = total_events[m]
    BY <1>3 DEF Learner, Tables
  <2>2. Rising(p, m, n, t)
    BY <1>1, <1>3, <1>7, <2>1 DEF Keeping
  <2>3. CASE m # y.m
    <3>1. Rising(q, m, n, t)
      BY <1>2, <1>5, <1>6, <2>2, <2>3, RisingAside
    <3>2. next_halve_at'[m] = n
      BY <1>3, <1>4, <2>1, <2>3
    <3> QED
      BY <2>1, <3>1, <3>2
  <2>4. CASE m = y.m /\ n = y.threshold
    <3>1. Rising(q, m, n + Grams!Interval(m), t)
      <4>1. q[c] = x /\ \A d \in CPU : d # c => q[d] = p[d]
        BY <1>6
      <4>2. p[c].m = m /\ p[c].pc = "cmpxchg" /\ p[c].threshold = n
        BY <1>2, <1>4, <2>4
      <4>3. Grams!Interval(m) >= Cardinality(CPU)
        BY <1>7 DEF Fresh
      <4> QED
        BY <1>5, <2>2, <4>1, <4>2, <4>3, RisingElect
    <3>2. next_halve_at'[m] = n + Grams!Interval(m)
      BY <1>2, <1>3, <1>4, <2>1, <2>4
    <3> QED
      BY <2>1, <3>1, <3>2
  <2>5. CASE m = y.m /\ n # y.threshold
    <3>1. \A e \in n .. t : ~Sees(p[c], m, n, e)
      BY <1>2, <1>4, <2>5 DEF Sees
    <3>2. Standing(x, t)
      BY <1>5 DEF Standing
    <3>3. q[c] = x /\ \A d \in CPU : d # c => q[d] = p[d]
      BY <1>6
    <3>4. Rising(q, m, n, t)
      BY <2>2, <3>1, <3>2, <3>3, RisingMove
    <3>5. next_halve_at'[m] = n
      BY <1>3, <1>4, <2>1, <2>5
    <3> QED
      BY <2>1, <3>4, <3>5
  <2> QED
    BY <2>3, <2>4, <2>5
<1> QED
  BY <1>4, <1>6, <1>7
     DEF Keeping, Rising, Seen, Sees, Standing, Fresh, Grams!Interval

LEMMA KeepingProbe ==
    ASSUME Grams!NgramAssumption, Learner, Keeping, NEW c \in CPU,
           Grams!ProbeStep(c)
    PROVE  Keeping'
<1>1. PICK y \in Counting : y = counting[c]
  BY DEF Learner
<1>2. CASE Grams!CountBigram(c) \/ Grams!CountRow(c)
  <2>1. y.pc \notin {"elect", "cmpxchg"}
        /\ UNCHANGED <<next_halve_at, total_events>>
    BY <1>1, <1>2, CountsIs
  <2>2. PICK to \in {"row", "total"} :
            counting' = [counting EXCEPT ![c] = GoesTo(y, to)]
    BY <1>1, <1>2, CountsIs
  <2>3. /\ GoesTo(y, to) \in Counting
        /\ GoesTo(y, to).pc \notin {"elect", "cmpxchg"}
    BY GoesToIs DEF CountPC
  <2> QED
    BY <1>1, <2>1, <2>2, <2>3, KeepingAside
<1>3. CASE Grams!Schedule(c)
  <2>1. /\ y.pc \notin {"elect", "cmpxchg"} /\ Grams!Updated(c)
        /\ UNCHANGED <<next_halve_at, total_events>>
    BY <1>1, <1>3, ScheduleIs
  <2> QED
    BY <1>1, <2>1, UpdatedPC, KeepingAside
<1> QED
  BY <1>2, <1>3, KeepingCount, KeepingStand, KeepingElect DEF Grams!ProbeStep

LEMMA KeepingNext ==
    ASSUME Grams!NgramAssumption, Learner, Keeping, [Grams!Next]_Grams!vars
    PROVE  Keeping'
<1>1. ASSUME UNCHANGED <<counting, next_halve_at, total_events>> PROVE Keeping'
  BY <1>1 DEF Keeping, Rising, Seen, Sees, Standing, Fresh, Grams!Interval
<1>2. CASE UNCHANGED Grams!vars
  BY <1>1, <1>2 DEF Grams!vars, Grams!model
<1>3. ASSUME NEW c \in CPU, NEW token \in Token, Grams!FirstEvent(c, token)
      PROVE  Keeping'
  BY <1>1, <1>3, FirstEventIs
<1>4. ASSUME NEW c \in CPU, NEW token \in Token, Grams!Event(c, token)
      PROVE  Keeping'
  <2>1. PICK x \in Counting :
            counting' = [counting EXCEPT ![c] = x] /\ x.pc = "count"
    BY <1>4, EventIs
  <2>2. /\ counting[c].pc \notin {"elect", "cmpxchg"}
        /\ UNCHANGED <<next_halve_at, total_events>>
    BY <1>4, EventIs
  <2> QED
    BY <2>1, <2>2, KeepingAside
<1>5. CASE \E c \in CPU : Grams!ProbeStep(c)
  BY <1>5, KeepingProbe
<1>6. ASSUME NEW m \in Model, Grams!HalveStep(m) PROVE Keeping'
  BY <1>1, <1>6, HalveIs
<1>7. CASE Grams!Unregister \/ Grams!Synchronize \/ Grams!CancelWork
               \/ Grams!FlushWork
  BY <1>1, <1>7, UnloadIs
<1> QED
  BY <1>2, <1>3, <1>4, <1>5, <1>6, <1>7 DEF Grams!Next, Model, Token

LEMMA KeepingInit ==
    ASSUME Grams!NgramAssumption, Grams!Init PROVE Keeping
<1>1. ASSUME NEW m \in Model, Fresh(m)
      PROVE  Rising(counting, m, next_halve_at[m], total_events[m])
  <2>1. PICK i \in Nat : i = Grams!Interval(m)
    BY IntervalIs
  <2>2. Cardinality(CPU) \in Nat \ {0}
    BY SameCardinality, FS_CardinalityType, FS_EmptySet
       DEF Grams!NgramAssumption
  <2>3. i # 0
    BY <1>1, <2>1, <2>2 DEF Fresh
  <2>4. next_halve_at[m] = i /\ total_events[m] = 0
    BY <2>1 DEF Grams!Init, Model
  <2>5. \A c \in CPU : counting[c].pc = "idle"
    BY NoProbeIs DEF Grams!Init
  <2>6. \A c \in CPU : Standing(counting[c], 0)
    BY <2>5 DEF Standing
  <2>7. Rising(counting, m, i, 0)
    BY <2>1, <2>3, <2>6 DEF Rising
  <2> QED
    BY <2>4, <2>7
<1> QED
  BY <1>1 DEF Keeping

(* Of the processors that see a model cross its threshold together exactly *)
(* one has it halved, and no crossing goes unnoticed if the interval is no *)
(* shorter than the number of processors, however many these are.          *)
THEOREM GramsHalvingCorrect ==
    ASSUME Grams!NgramAssumption
    PROVE  Grams!Spec => [](Grams!OneElected /\ Grams!HalvingKeepsUp)
<1>1. Grams!Init => Learner /\ Grams!OneElected /\ Keeping
  <2>1. ASSUME Grams!Init PROVE Grams!OneElected
    <3> SUFFICES ASSUME NEW m \in Model
                 PROVE  next_halve_at[m] = Grams!Interval(m) * (1 + elected[m])
      BY DEF Grams!OneElected, Model
    <3>1. PICK i \in Nat : i = Grams!Interval(m)
      BY IntervalIs
    <3>2. next_halve_at[m] = i /\ elected[m] = 0
      BY <2>1, <3>1 DEF Grams!Init, Model
    <3> QED
      BY <3>1, <3>2
  <2> QED
    BY <2>1, LearnerInit, KeepingInit
<1>2. (Learner /\ Grams!OneElected /\ Keeping) /\ [Grams!Next]_Grams!vars
          => (Learner /\ Grams!OneElected /\ Keeping)'
  BY LearnerNext, OneElectedNext, KeepingNext
<1>3. Learner /\ Keeping => Grams!HalvingKeepsUp
  <2> SUFFICES ASSUME Learner, Keeping, NEW m \in Model, Grams!Quiet,
                      Grams!Interval(m) >= Grams!Cardinality(CPU)
               PROVE  /\ total_events[m] < next_halve_at[m]
                      /\ next_halve_at[m] <= total_events[m] + Grams!Interval(m)
    BY DEF Grams!HalvingKeepsUp, Model
  <2>1. PICK n \in Nat, t \in Nat : n = next_halve_at[m] /\ t = total_events[m]
    BY DEF Learner, Tables
  <2>2. Rising(counting, m, n, t)
    BY <2>1, SameCardinality DEF Keeping, Fresh
  <2>3. \A e : ~Seen(counting, m, n, e)
    BY DEF Grams!Quiet, Seen, Sees
  <2>4. t < n
    <3>1. ~(n <= t)
      BY <2>2, <2>3 DEF Rising
    <3> QED
      BY <3>1
  <2> QED
    BY <2>1, <2>2, <2>4 DEF Rising
<1> QED
  BY <1>1, <1>2, <1>3, PTL DEF Grams!Spec

------------------------------------------------------------------------------
(***************************************************************************)
(* The memory of the language model, module Inference.                     *)
(***************************************************************************)

(* One allocation of each of these kinds is live; these pointers are set.  *)
HeapOf(h, H) == h = [k \in Net!Kinds |-> IF k \in H THEN 1 ELSE 0]
SlotOf(s, S) == /\ DOMAIN s = Net!Kinds /\ s = [k \in Net!Kinds |-> s[k]]
                /\ \A k \in Net!Kinds : s[k] <=> k \in S

(* What is live, and what the slot has of it, at each step of a load.      *)
Stage(at_pc, H, S) ==
    \/ at_pc \in {"idle", "chat"} /\ H = S /\ (S = {} \/ "sorted" \in S)
    \/ at_pc = "data" /\ H = {} /\ S = {}
    \/ at_pc = "parse" /\ H = {"data"} /\ S = {}
    \/ at_pc = "weights" /\ H = {"data", "tok"} /\ S = {}
    \/ at_pc = "state" /\ H = {"data", "tok"} /\ S = {"data", "tok"}
    \/ at_pc = "vocab" /\ H = S /\ "data" \in S /\ "sorted" \notin S

Staged(at_pc, h, s) ==
    \E H, S \in SUBSET Net!Kinds : HeapOf(h, H) /\ SlotOf(s, S) /\ Stage(at_pc, H, S)
ModelInv == Staged(model_pc, heap, slot)

LEMMA HeapAlloc ==
    ASSUME NEW H \in SUBSET Net!Kinds, NEW h, HeapOf(h, H),
           NEW kind \in Net!Kinds, kind \notin H,
           NEW g, g = [h EXCEPT ![kind] = @ + 1]
    PROVE  HeapOf(g, H \cup {kind})
BY DEF HeapOf

LEMMA HeapFree ==
    ASSUME NEW H \in SUBSET Net!Kinds, NEW h, HeapOf(h, H), NEW F \in SUBSET H,
           NEW g, g = [k \in Net!Kinds |-> IF k \in F THEN h[k] - 1 ELSE h[k]]
    PROVE  HeapOf(g, H \ F)
<1>1. \A k \in Net!Kinds : h[k] = IF k \in H THEN 1 ELSE 0
  BY DEF HeapOf
<1>2. \A k \in Net!Kinds : g[k] = IF k \in H \ F THEN 1 ELSE 0
  BY <1>1
<1> QED
  BY <1>2 DEF HeapOf

LEMMA SlotSet ==
    ASSUME NEW S \in SUBSET Net!Kinds, SlotOf(slot, S),
           NEW kinds \in SUBSET Net!Kinds
    PROVE  Net!Set(kinds) = kinds \cap S
BY DEF SlotOf, Net!Set

LEMMA SlotNull == SlotOf(Net!Null, {})
BY DEF SlotOf, Net!Null

LEMMA SlotWith ==
    ASSUME NEW S \in SUBSET Net!Kinds, NEW s, SlotOf(s, S),
           NEW kind \in Net!Kinds, NEW r, r = [s EXCEPT ![kind] = TRUE]
    PROVE  SlotOf(r, S \cup {kind})
BY DEF SlotOf

LEMMA SlotWithout ==
    ASSUME NEW S \in SUBSET Net!Kinds, NEW s, SlotOf(s, S),
           NEW kind \in Net!Kinds, NEW r, r = [s EXCEPT ![kind] = FALSE]
    PROVE  SlotOf(r, S \ {kind})
BY DEF SlotOf

LEMMA HeapNone == HeapOf([k \in Net!Kinds |-> 0], {})
BY DEF HeapOf

(* The memory and the slot as they are, at a place in the code.            *)
LEMMA AtStage ==
    ASSUME ModelInv
    PROVE  \E H, S \in SUBSET Net!Kinds :
               HeapOf(heap, H) /\ SlotOf(slot, S) /\ Stage(model_pc, H, S)
BY DEF ModelInv, Staged

LEMMA NowStaged ==
    ASSUME NEW H \in SUBSET Net!Kinds, NEW S \in SUBSET Net!Kinds,
           HeapOf(heap', H), SlotOf(slot', S), Stage(model_pc', H, S)
    PROVE  ModelInv'
BY DEF ModelInv, Staged

LEMMA ModelStays ==
    ASSUME ModelInv, UNCHANGED <<model_pc, heap, slot>>
    PROVE  ModelInv'
BY DEF ModelInv, Staged

LEMMA ModelInit == Net!Init => ModelInv
<1> SUFFICES ASSUME Net!Init PROVE ModelInv
  OBVIOUS
<1>1. model_pc = "idle" /\ slot = Net!Null /\ heap = [k \in Net!Kinds |-> 0]
  BY DEF Net!Init
<1>2. HeapOf(heap, {}) /\ SlotOf(slot, {})
  BY <1>1, HeapNone, SlotNull
<1>3. Stage(model_pc, {}, {})
  BY <1>1 DEF Stage
<1> QED
  BY <1>2, <1>3 DEF ModelInv, Staged

LEMMA ModelRequest ==
    ASSUME ModelInv, NEW f, Net!RequestFirmware(f)
    PROVE  ModelInv'
<1>1. PICK H, S \in SUBSET Net!Kinds :
         HeapOf(heap, H) /\ SlotOf(slot, S) /\ Stage(model_pc, H, S)
  BY AtStage
<1>2. /\ model_pc = "idle" /\ model_pc' = "data" /\ ~ slot["sorted"]
      /\ heap' = heap /\ slot' = slot
  BY DEF Net!RequestFirmware, Net!Loaded
<1>3. "sorted" \notin S
  BY <1>1, <1>2 DEF SlotOf, Net!Kinds
<1>4. Stage(model_pc', H, S)
  BY <1>1, <1>2, <1>3 DEF Stage
<1> QED
  BY <1>1, <1>2, <1>4, NowStaged

LEMMA ModelAllocData ==
    ASSUME ModelInv, Net!AllocData
    PROVE  ModelInv'
<1>1. PICK H, S \in SUBSET Net!Kinds :
         HeapOf(heap, H) /\ SlotOf(slot, S) /\ Stage(model_pc, H, S)
  BY AtStage
<1>2. model_pc = "data" /\ slot' = slot
  BY DEF Net!AllocData, Net!Load
<1>3. H = {} /\ S = {}
  BY <1>1, <1>2 DEF Stage
<1>4. "data" \in Net!Kinds
  BY DEF Net!Kinds
<1>5. CASE model_pc' = "parse" /\ Net!Alloc("data")
  <2>1. HeapOf(heap', H \cup {"data"})
    BY <1>1, <1>3, <1>4, <1>5, HeapAlloc DEF Net!Alloc
  <2>2. Stage(model_pc', H \cup {"data"}, S)
    BY <1>3, <1>5 DEF Stage
  <2> QED
    BY <1>1, <1>2, <1>4, <2>1, <2>2, NowStaged
<1>6. CASE model_pc' = "idle" /\ heap' = heap
  <2>1. Stage(model_pc', H, S)
    BY <1>3, <1>6 DEF Stage
  <2> QED
    BY <1>1, <1>2, <1>6, <2>1, NowStaged
<1> QED
  BY <1>5, <1>6 DEF Net!AllocData, Net!Load

LEMMA ModelAllocIndex ==
    ASSUME ModelInv, Net!AllocIndex
    PROVE  ModelInv'
<1>1. PICK H, S \in SUBSET Net!Kinds :
         HeapOf(heap, H) /\ SlotOf(slot, S) /\ Stage(model_pc, H, S)
  BY AtStage
<1>2. model_pc = "parse" /\ slot' = slot
  BY DEF Net!AllocIndex, Net!Load
<1>3. H = {"data"} /\ S = {}
  BY <1>1, <1>2 DEF Stage
<1>4. {"data", "tok"} \subseteq Net!Kinds
  BY DEF Net!Kinds
<1>5. CASE model_pc' = "weights" /\ Net!Alloc("tok")
  <2>1. HeapOf(heap', H \cup {"tok"})
    BY <1>1, <1>3, <1>4, <1>5, HeapAlloc DEF Net!Alloc
  <2>2. Stage(model_pc', H \cup {"tok"}, S)
    BY <1>3, <1>5 DEF Stage
  <2> QED
    BY <1>1, <1>2, <1>4, <2>1, <2>2, NowStaged
<1>6. CASE model_pc' = "idle" /\ Net!Free({"data"})
  <2>1. HeapOf(heap', H \ {"data"})
    BY <1>1, <1>3, <1>6, HeapFree DEF Net!Free
  <2>2. Stage(model_pc', H \ {"data"}, S)
    BY <1>3, <1>6 DEF Stage
  <2> QED
    BY <1>1, <1>2, <2>1, <2>2, NowStaged
<1> QED
  BY <1>5, <1>6 DEF Net!AllocIndex, Net!Load

LEMMA ModelParseWeights ==
    ASSUME ModelInv, Net!ParseWeights
    PROVE  ModelInv'
<1>1. PICK H, S \in SUBSET Net!Kinds :
         HeapOf(heap, H) /\ SlotOf(slot, S) /\ Stage(model_pc, H, S)
  BY AtStage
<1>2. model_pc = "weights"
  BY DEF Net!ParseWeights, Net!Load
<1>3. H = {"data", "tok"} /\ S = {}
  BY <1>1, <1>2 DEF Stage
<1>4. {"data", "tok"} \subseteq Net!Kinds
  BY DEF Net!Kinds
<1>5. CASE /\ model_pc' = "state" /\ heap' = heap
           /\ slot' = [slot EXCEPT !["tok"] = TRUE, !["data"] = TRUE]
  <2>1. PICK s : s = [slot EXCEPT !["tok"] = TRUE]
    OBVIOUS
  <2>2. SlotOf(s, S \cup {"tok"})
    BY <1>1, <1>4, <2>1, SlotWith
  <2>3. slot' = [s EXCEPT !["data"] = TRUE]
    BY <1>5, <2>1
  <2>4. SlotOf(slot', (S \cup {"tok"}) \cup {"data"})
    BY <1>4, <2>2, <2>3, SlotWith
  <2>5. Stage(model_pc', H, (S \cup {"tok"}) \cup {"data"})
    BY <1>3, <1>5 DEF Stage
  <2> QED
    BY <1>1, <1>4, <1>5, <2>4, <2>5, NowStaged
<1>6. CASE model_pc' = "idle" /\ Net!Free({"tok", "data"}) /\ slot' = slot
  <2>1. HeapOf(heap', H \ {"tok", "data"})
    BY <1>1, <1>3, <1>6, HeapFree DEF Net!Free
  <2>2. Stage(model_pc', H \ {"tok", "data"}, S)
    BY <1>3, <1>6 DEF Stage
  <2> QED
    BY <1>1, <1>6, <2>1, <2>2, NowStaged
<1> QED
  BY <1>5, <1>6 DEF Net!ParseWeights, Net!Load

LEMMA ModelAllocInference ==
    ASSUME ModelInv, Net!AllocInference
    PROVE  ModelInv'
<1>1. PICK H, S \in SUBSET Net!Kinds :
         HeapOf(heap, H) /\ SlotOf(slot, S) /\ Stage(model_pc, H, S)
  BY AtStage
<1>2. model_pc = "state"
  BY DEF Net!AllocInference, Net!Load
<1>3. H = {"data", "tok"} /\ S = {"data", "tok"}
  BY <1>1, <1>2 DEF Stage
<1>4. {"data", "tok"} \subseteq Net!Kinds
  BY DEF Net!Kinds
<1>5. PICK kind \in {"fpu", "inf"} :
         kind = IF file.version = 2 THEN "fpu" ELSE "inf"
  OBVIOUS
<1>6. kind \in Net!Kinds /\ kind \notin {"data", "tok", "sorted"}
  BY <1>5 DEF Net!Kinds
<1>7. CASE /\ model_pc' = "vocab" /\ Net!Alloc(kind)
           /\ slot' = [slot EXCEPT ![kind] = TRUE]
  <2>1. HeapOf(heap', H \cup {kind})
    BY <1>1, <1>3, <1>6, <1>7, HeapAlloc DEF Net!Alloc
  <2>2. SlotOf(slot', S \cup {kind})
    BY <1>1, <1>6, <1>7, SlotWith
  <2>3. Stage(model_pc', H \cup {kind}, S \cup {kind})
    BY <1>3, <1>6, <1>7 DEF Stage
  <2> QED
    BY <1>1, <1>6, <2>1, <2>2, <2>3, NowStaged
<1>8. CASE /\ model_pc' = "idle"
           /\ Net!Free(Net!Set({"tok"}) \cup {"data"})
           /\ slot' = [slot EXCEPT !["tok"] = FALSE, !["data"] = FALSE]
  <2>1. Net!Set({"tok"}) = {"tok"}
    BY <1>1, <1>3, <1>4, SlotSet
  <2>2. HeapOf(heap', H \ {"tok", "data"})
    <3>1. PICK F \in SUBSET H : F = {"tok", "data"}
      BY <1>3
    <3>2. F = Net!Set({"tok"}) \cup {"data"}
      BY <2>1, <3>1
    <3>3. HeapOf(heap', H \ F)
      BY <1>1, <1>8, <3>2, HeapFree DEF Net!Free
    <3> QED
      BY <3>1, <3>3
  <2>3. PICK s : s = [slot EXCEPT !["tok"] = FALSE]
    OBVIOUS
  <2>4. SlotOf(s, S \ {"tok"})
    BY <1>1, <1>4, <2>3, SlotWithout
  <2>5. slot' = [s EXCEPT !["data"] = FALSE]
    BY <1>8, <2>3
  <2>6. SlotOf(slot', (S \ {"tok"}) \ {"data"})
    BY <1>4, <2>4, <2>5, SlotWithout
  <2>7. Stage(model_pc', H \ {"tok", "data"}, (S \ {"tok"}) \ {"data"})
    BY <1>3, <1>8 DEF Stage
  <2> QED
    BY <1>1, <2>2, <2>6, <2>7, NowStaged
<1> QED
  BY <1>5, <1>7, <1>8 DEF Net!AllocInference, Net!Load

LEMMA ModelBuildVocab ==
    ASSUME ModelInv, Net!BuildVocab
    PROVE  ModelInv'
<1>1. PICK H, S \in SUBSET Net!Kinds :
         HeapOf(heap, H) /\ SlotOf(slot, S) /\ Stage(model_pc, H, S)
  BY AtStage
<1>2. model_pc = "vocab" /\ model_pc' = "idle"
  BY DEF Net!BuildVocab, Net!Load
<1>3. H = S /\ "data" \in S /\ "sorted" \notin S
  BY <1>1, <1>2 DEF Stage
<1>4. "sorted" \in Net!Kinds /\ {"fpu", "inf", "tok"} \subseteq Net!Kinds
      /\ Net!Kinds = {"fpu", "inf", "tok", "data", "sorted"}
  BY DEF Net!Kinds
<1>5. CASE Net!Alloc("sorted") /\ slot' = [slot EXCEPT !["sorted"] = TRUE]
  <2>1. HeapOf(heap', H \cup {"sorted"})
    BY <1>1, <1>3, <1>4, <1>5, HeapAlloc DEF Net!Alloc
  <2>2. SlotOf(slot', S \cup {"sorted"})
    BY <1>1, <1>4, <1>5, SlotWith
  <2>3. Stage(model_pc', H \cup {"sorted"}, S \cup {"sorted"})
    BY <1>2, <1>3 DEF Stage
  <2> QED
    BY <1>1, <1>4, <2>1, <2>2, <2>3, NowStaged
<1>6. CASE /\ Net!Free(Net!Set({"fpu", "inf", "tok"}) \cup {"data"})
           /\ slot' = Net!Null
  <2>1. PICK F \in SUBSET H : F = Net!Set({"fpu", "inf", "tok"}) \cup {"data"}
                              /\ H \ F = {}
    <3>1. Net!Set({"fpu", "inf", "tok"}) = {"fpu", "inf", "tok"} \cap S
      BY <1>1, <1>4, SlotSet
    <3>2. Net!Set({"fpu", "inf", "tok"}) \cup {"data"} \in SUBSET H
      BY <1>3, <3>1
    <3>3. \A k \in H : k \in Net!Set({"fpu", "inf", "tok"}) \cup {"data"}
      <4> SUFFICES ASSUME NEW k \in H
                   PROVE  k \in {"fpu", "inf", "tok"} \cap S \/ k = "data"
        BY <3>1
      <4>1. k \in Net!Kinds /\ k \in S /\ k # "sorted"
        BY <1>3
      <4> QED
        BY <1>4, <4>1
    <3> QED
      BY <3>2, <3>3
  <2>2. HeapOf(heap', H \ F)
    BY <1>1, <1>6, <2>1, HeapFree DEF Net!Free
  <2>3. SlotOf(slot', {})
    BY <1>6, SlotNull
  <2>4. Stage(model_pc', {}, {})
    BY <1>2 DEF Stage
  <2> QED
    BY <2>1, <2>2, <2>3, <2>4, NowStaged
<1> QED
  BY <1>5, <1>6 DEF Net!BuildVocab

LEMMA ModelUnload ==
    ASSUME ModelInv, Net!Unload
    PROVE  ModelInv'
<1>1. PICK H, S \in SUBSET Net!Kinds :
         HeapOf(heap, H) /\ SlotOf(slot, S) /\ Stage(model_pc, H, S)
  BY AtStage
<1>2. /\ model_pc = "idle" /\ model_pc' = "idle"
      /\ Net!Free(Net!Set(Net!Kinds)) /\ slot' = Net!Null
  BY DEF Net!Unload
<1>3. H = S
  BY <1>1, <1>2 DEF Stage
<1>4. Net!Set(Net!Kinds) = H
  BY <1>1, <1>3, SlotSet
<1>5. HeapOf(heap', H \ H)
  BY <1>1, <1>2, <1>4, HeapFree DEF Net!Free
<1>6. SlotOf(slot', {})
  BY <1>2, SlotNull
<1>7. Stage(model_pc', {}, {})
  BY <1>2 DEF Stage
<1>8. H \ H = {}
  OBVIOUS
<1> QED
  BY <1>5, <1>6, <1>7, <1>8, NowStaged

LEMMA ModelStartChat ==
    ASSUME ModelInv, NEW prompt, Net!StartChat(prompt)
    PROVE  ModelInv'
<1>1. PICK H, S \in SUBSET Net!Kinds :
         HeapOf(heap, H) /\ SlotOf(slot, S) /\ Stage(model_pc, H, S)
  BY AtStage
<1>2. /\ model_pc = "idle" /\ model_pc' = "chat"
      /\ heap' = heap /\ slot' = slot
  BY DEF Net!StartChat
<1>3. Stage(model_pc', H, S)
  BY <1>1, <1>2 DEF Stage
<1> QED
  BY <1>1, <1>2, <1>3, NowStaged

LEMMA ModelEndChat ==
    ASSUME ModelInv, Net!EndChat
    PROVE  ModelInv'
<1>1. PICK H, S \in SUBSET Net!Kinds :
         HeapOf(heap, H) /\ SlotOf(slot, S) /\ Stage(model_pc, H, S)
  BY AtStage
<1>2. /\ model_pc = "chat" /\ model_pc' = "idle"
      /\ heap' = heap /\ slot' = slot
  BY DEF Net!EndChat
<1>3. Stage(model_pc', H, S)
  BY <1>1, <1>2 DEF Stage
<1> QED
  BY <1>1, <1>2, <1>3, NowStaged

LEMMA ModelNext == ModelInv /\ [Net!Next]_Net!vars => ModelInv'
<1> SUFFICES ASSUME ModelInv, [Net!Next]_Net!vars PROVE ModelInv'
  OBVIOUS
<1>1. ASSUME NEW f, Net!RequestFirmware(f) PROVE ModelInv'
  BY <1>1, ModelRequest
<1>2. CASE Net!AllocData \/ Net!AllocIndex
  BY <1>2, ModelAllocData, ModelAllocIndex
<1>3. CASE Net!ParseWeights
  BY <1>3, ModelParseWeights
<1>4. CASE Net!AllocInference
  BY <1>4, ModelAllocInference
<1>5. CASE Net!BuildVocab \/ Net!Unload
  BY <1>5, ModelBuildVocab, ModelUnload
<1>6. ASSUME NEW prompt, Net!StartChat(prompt) PROVE ModelInv'
  BY <1>6, ModelStartChat
<1>7. CASE Net!Forward
  BY <1>7, ModelStays DEF Net!Forward
<1>8. ASSUME NEW token, Net!Sample(token) PROVE ModelInv'
  BY <1>8, ModelStays DEF Net!Sample
<1>9. CASE Net!EndChat
  BY <1>9, ModelEndChat
<1>10. CASE UNCHANGED Net!vars
  BY <1>10, ModelStays DEF Net!vars
<1> QED
  BY <1>1, <1>2, <1>3, <1>4, <1>5, <1>6, <1>7, <1>8, <1>9, <1>10
     DEF Net!Next

LEMMA MemoryHeld == ModelInv => HeapMatchesSlot
<1> SUFFICES ASSUME ModelInv, model_pc = "idle", NEW k \in Net!Kinds
             PROVE  /\ heap[k] = IF slot[k] THEN 1 ELSE 0
                    /\ slot[k] => Net!Loaded
  BY DEF HeapMatchesSlot, Net!HeapMatchesSlot
<1>1. PICK H, S \in SUBSET Net!Kinds :
         HeapOf(heap, H) /\ SlotOf(slot, S) /\ Stage(model_pc, H, S)
  BY AtStage
<1>2. H = S /\ (S = {} \/ "sorted" \in S)
  BY <1>1 DEF Stage
<1>3. heap[k] = IF k \in S THEN 1 ELSE 0
  BY <1>1, <1>2 DEF HeapOf
<1>4. (slot[k] <=> k \in S) /\ (Net!Loaded <=> "sorted" \in S)
  BY <1>1 DEF SlotOf, Net!Loaded, Net!Kinds
<1> QED
  BY <1>2, <1>3, <1>4

(* What is allocated for the language model is what its slot points to,    *)
(* wherever a load has failed: nothing leaks and nothing is freed twice.   *)
THEOREM ModelMemoryCorrect == Net!Spec => []HeapMatchesSlot
BY ModelInit, ModelNext, MemoryHeld, PTL DEF Net!Spec

------------------------------------------------------------------------------
(***************************************************************************)
(* The four together, module Unloading.                                    *)
(***************************************************************************)

(* In every behaviour of the whole each component behaves as its own       *)
(* module says, or stays as it is.                                         *)
THEOREM SystemImplements ==
    System => Spec /\ Alerts!Spec /\ Grams!Spec /\ Net!Spec
<1>1. SystemInit => Init /\ Alerts!Init /\ Grams!Init /\ Net!Init
  BY DEF SystemInit
<1>2. [SystemNext]_all => [Next]_vars
  BY DEF SystemNext, all
<1>3. [SystemNext]_all => [Alerts!Next]_Alerts!vars
  <2>1. UNCHANGED ofAlerts => UNCHANGED Alerts!vars
    BY DEF ofAlerts, Alerts!vars, Alerts!alerting, Alerts!thread, Alerts!ending
  <2> QED
    BY <2>1 DEF SystemNext, all
<1>4. [SystemNext]_all => [Grams!Next]_Grams!vars
  <2>1. UNCHANGED ofGrams => UNCHANGED Grams!vars
    BY DEF ofGrams, Grams!vars, Grams!model
  <2> QED
    BY <2>1 DEF SystemNext, all
<1>5. [SystemNext]_all => [Net!Next]_Net!vars
  <2>1. UNCHANGED ofNet => UNCHANGED Net!vars
    BY DEF ofNet, Net!vars
  <2> QED
    BY <2>1 DEF SystemNext, all
<1> QED
  BY <1>1, <1>2, <1>3, <1>4, <1>5, PTL
     DEF System, Spec, Alerts!Spec, Grams!Spec, Net!Spec

(* Nothing is left of an unloaded module, and what it freed nobody uses:   *)
(* no probe, no reader and no patrol thread, whatever failed when it was   *)
(* loaded and whatever they were doing when unloading began.               *)
THEOREM FreedMemoryCorrect == System => []FreedMemoryUnused
BY SystemImplements, UnloadCorrect, AlertsMemoryCorrect, AlertsAssumption,
   PTL DEF FreedMemoryUnused

(* A report that no probe disturbed is the last alerts, oldest first, for  *)
(* every size of the ring and however many alerts are asked for.           *)
THEOREM QuietReportCorrect == System => []QuietReportExact
BY SystemImplements, AlertsReportCorrect, AlertsAssumption,
   PTL DEF QuietReportExact

(* Of the probes that see a threshold crossed exactly one has the table    *)
(* halved, and no crossing goes unnoticed, for every number of processors. *)
THEOREM HalvingCorrect == System => []HalvingKeepsUp
BY SystemImplements, GramsHalvingCorrect, GramsAssumption,
   PTL DEF HalvingKeepsUp

(* The learner's tables are freed when no probe and no halving uses them.  *)
THEOREM FreedModelCorrect == System => []FreedModelUnused
BY SystemImplements, GramsMemoryCorrect, GramsAssumption,
   PTL DEF FreedModelUnused

(* What nothing has been learnt in stays so: no event scores below the     *)
(* threshold of the adaptive model while it is empty.                      *)
THEOREM AdaptiveEmptyCorrect == System => []AdaptiveStaysEmpty
BY SystemImplements, GramsAdaptiveCorrect, GramsAssumption,
   PTL DEF AdaptiveStaysEmpty

(* The memory of the language model is what its slot names: loads that     *)
(* fail anywhere, for any file and any number of times, leak nothing and   *)
(* free nothing twice, and unloading frees all of it.                      *)
THEOREM ModelHeapCorrect == System => []HeapMatchesSlot
BY SystemImplements, ModelMemoryCorrect, PTL
==============================================================================
