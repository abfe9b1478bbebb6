----------------------------- MODULE KprobeProofs -----------------------------
(***************************************************************************)
(* Proofs about the kprobe tool (hackbot_kprobe.c): its table of probes    *)
(* says what the kernel does, an attachment counts its own hits, and no    *)
(* handler runs for a slot that is free or a module that is gone.          *)
(***************************************************************************)
EXTENDS Kprobe, Lemmas

Inside == {"scan", "register", "attached", "find", "disarm", "drain", "free",
           "report", "next"}
Outside == {"idle", "attach", "detach", "check", "cleanup"}
Symbols == Symbol \cup {NoSymbol}
Entry == [active : BOOLEAN, symbol : Symbols, count : Nat]
Place == [pc : Inside \cup Outside, symbol : Symbols, slot : 0 .. MaxKprobes]

(***************************************************************************)
(* The inductive invariant. Who holds the mutex is known by where it is;   *)
(* the table may differ from the kernel only in the slot the holder works  *)
(* on, which nobody else touches but the handlers.                         *)
(***************************************************************************)
Shape ==
    /\ slots \in [Slot -> Entry]
    /\ mutex \in Caller \cup {Nobody}
    /\ call \in [Caller -> Place]
    /\ armed \subseteq Slot
    /\ handler \in [CPU -> 0 .. MaxKprobes]
    /\ hits \in [Slot -> Nat]
    /\ unloaded \in BOOLEAN

(* Who is inside has the mutex.                                            *)
Excluded == \A u \in Caller : call[u].pc \in Inside <=> mutex = u

At(u, s, pcs) == call[u].pc \in pcs /\ call[u].slot = s

(* What a caller that works on a slot relies on.                           *)
Works(u) ==
    LET pc == call[u].pc
        f == call[u].symbol
        s == call[u].slot
    IN  /\ pc \in {"attach", "scan"} => f \in Symbol
        /\ pc \in {"register", "attached"} =>
              /\ s \in Slot /\ f \in Symbol
              /\ ~slots[s].active /\ slots[s].symbol = f
              /\ Probing(f) = {}
              /\ s \in armed <=> pc = "attached"
        /\ pc = "register" => slots[s].count = 0
        /\ pc \in {"disarm", "drain", "free"} =>
              /\ s \in Slot /\ slots[s].active
              /\ s \in armed <=> pc = "disarm"
        /\ pc = "free" => \A c \in CPU : handler[c] # s
Working == \A u \in Caller : Works(u)

(* The table and the kernel differ at most in the slot somebody works on.  *)
Table ==
    /\ \A s \in armed : ~slots[s].active =>
           \E u \in Caller : At(u, s, {"attached"})
    /\ \A s \in Slot \ armed : slots[s].active =>
           \E u \in Caller : At(u, s, {"drain", "free"})
    /\ \A s \in Slot : slots[s].active => slots[s].symbol \in Symbol
    /\ \A s, t \in Slot :
           /\ slots[s].active /\ slots[t].active
           /\ slots[s].symbol = slots[t].symbol
           => s = t

(* A handler runs for an armed probe, or for one that is waited for.       *)
Handling ==
    \A c \in CPU : handler[c] # NoSlot =>
        \/ handler[c] \in armed
        \/ \E u \in Caller : At(u, handler[c], {"drain"})

(* The module leaves when nobody uses it, and clears one slot after the    *)
(* other.                                                                  *)
Leaving ==
    LET pc == call[Rmmod].pc
    IN  /\ pc \in {"idle", "cleanup", "next", "disarm", "drain", "free"}
        /\ pc \in {"idle", "cleanup"} => call[Rmmod].slot = NoSlot
        /\ pc # "idle" => ~unloaded /\ \A u \in User : call[u].pc = "idle"
        /\ \A t \in Slot : slots[t].active =>
              /\ pc = "next" => t >= Following(Rmmod)
              /\ pc \in {"disarm", "drain", "free"} => t >= call[Rmmod].slot
        /\ unloaded => /\ \A u \in Caller : call[u].pc = "idle"
                       /\ \A t \in Slot : ~slots[t].active

KInv == /\ Shape /\ Excluded /\ Working /\ Table /\ Handling /\ CountsOwnHits
        /\ Leaving

LEMMA FirstIsLeast ==
    ASSUME NEW S \in SUBSET Slot, S # {}
    PROVE  First(S) \in S /\ \A t \in S : First(S) <= t
<1>1. S \in SUBSET Nat
  BY KprobeAssumption DEF Slot
<1> QED
  BY <1>1, Least DEF First

(* A handler that starts or ends changes the count of its slot by one.     *)
Handlers(s) == {c \in CPU : handler[c] = s}

LEMMA HandlerStarts ==
    ASSUME Shape, NEW c \in CPU, NEW s,
           handler[c] = NoSlot, s # NoSlot, handler' = [handler EXCEPT ![c] = s]
    PROVE  /\ Cardinality(Handlers(s)) \in Nat
           /\ Cardinality(Handlers(s)') = Cardinality(Handlers(s)) + 1
           /\ \A r : r # s /\ r # NoSlot => Handlers(r)' = Handlers(r)
<1>1. IsFiniteSet(Handlers(s))
  BY KprobeAssumption, FS_Subset DEF Handlers
<1>2. /\ Handlers(s)' = Handlers(s) \cup {c} /\ c \notin Handlers(s)
      /\ \A r : r # s /\ r # NoSlot => Handlers(r)' = Handlers(r)
  BY DEF Handlers, Shape
<1>3. Cardinality(Handlers(s)') = Cardinality(Handlers(s)) + 1
  BY <1>1, <1>2, FS_AddElement
<1> QED
  BY <1>1, <1>2, <1>3, FS_CardinalityType

LEMMA HandlerEnds ==
    ASSUME Shape, NEW c \in CPU, NEW s,
           handler[c] = s, s # NoSlot, handler' = [handler EXCEPT ![c] = NoSlot]
    PROVE  /\ Cardinality(Handlers(s)) \in Nat
           /\ Cardinality(Handlers(s)') = Cardinality(Handlers(s)) - 1
           /\ \A r : r # s /\ r # NoSlot => Handlers(r)' = Handlers(r)
<1>1. IsFiniteSet(Handlers(s))
  BY KprobeAssumption, FS_Subset DEF Handlers
<1>2. /\ Handlers(s)' = Handlers(s) \ {c} /\ c \in Handlers(s)
      /\ \A r : r # s /\ r # NoSlot => Handlers(r)' = Handlers(r)
  BY DEF Handlers, Shape
<1>3. Cardinality(Handlers(s)') = Cardinality(Handlers(s)) - 1
  BY <1>1, <1>2, FS_RemoveElement
<1> QED
  BY <1>1, <1>2, <1>3, FS_CardinalityType

------------------------------------------------------------------------------
LEMMA ConstantTypes ==
    /\ FreeSlot \in Entry /\ NoCall \in Place
    /\ NoSlot \in 0 .. MaxKprobes /\ NoSlot \notin Slot
    /\ Slot \subseteq 0 .. MaxKprobes /\ 0 .. MaxKprobes = Slot \cup {NoSlot}
<1>1. /\ NoSlot \in 0 .. MaxKprobes /\ NoSlot \notin Slot
      /\ Slot \subseteq 0 .. MaxKprobes /\ 0 .. MaxKprobes = Slot \cup {NoSlot}
  BY KprobeAssumption DEF NoSlot, Slot
<1>2. FreeSlot \in Entry
  BY DEF FreeSlot, Entry, Symbols
<1>3. NoCall \in Place
  BY <1>1 DEF NoCall, Place, Symbols, Outside
<1> QED
  BY <1>1, <1>2, <1>3

LEMMA KInit == Init => KInv
<1> SUFFICES ASSUME Init PROVE KInv
  OBVIOUS
<1>1. Shape
  <2>1. hits \in [Slot -> Nat] /\ unloaded \in BOOLEAN /\ armed \subseteq Slot
    BY DEF Init
  <2>2. slots \in [Slot -> Entry] /\ call \in [Caller -> Place]
    BY ConstantTypes DEF Init
  <2>3. handler \in [CPU -> 0 .. MaxKprobes]
    BY ConstantTypes DEF Init
  <2> QED
    BY <2>1, <2>2, <2>3 DEF Init, Shape
<1>2. /\ \A u \in Caller : call[u] = NoCall
      /\ \A s \in Slot : ~slots[s].active
      /\ armed = {} /\ mutex = Nobody /\ ~unloaded
      /\ \A c \in CPU : handler[c] = NoSlot
  BY DEF Init, FreeSlot
<1>3. Excluded /\ Working /\ Table /\ Handling /\ CountsOwnHits /\ Leaving
  BY <1>2, KprobeAssumption DEF Excluded, Inside, Works, Working, Table, Handling,
     CountsOwnHits, Leaving, NoCall, Caller
<1> QED
  BY <1>1, <1>3 DEF KInv

(* What every step can use.                                                *)
LEMMA Facts ==
    ASSUME KInv, NEW u \in Caller
    PROVE  /\ call[u] \in Place /\ call[u].pc \in Inside \cup Outside
           /\ call[u].symbol \in Symbols /\ call[u].slot \in 0 .. MaxKprobes
           /\ u # Nobody
           /\ call[u].pc \in Inside <=> mutex = u
BY KprobeAssumption DEF KInv, Shape, Place, Excluded

(* Next to the holder of the mutex everybody waits.                        *)
LEMMA OthersWait ==
    ASSUME KInv, NEW u \in Caller, mutex = u, NEW v \in Caller, v # u,
           call'[v] = call[v]
    PROVE  Works(v)' /\ call[v].pc \notin Inside
<1>1. call[v].pc \notin Inside
  BY DEF KInv, Excluded
<1>2. Works(v)
  BY DEF KInv, Working
<1> QED
  BY <1>1, <1>2 DEF Works, Inside

(* A step of one caller moves nobody else.                                 *)
Alone(u) == \A v \in Caller : v # u => call'[v] = call[v]

LEMMA MovesTo ==
    ASSUME Shape, NEW u \in Caller, NEW pc \in Inside \cup Outside,
           call' = [call EXCEPT ![u].pc = pc]
    PROVE  /\ call' \in [Caller -> Place] /\ Alone(u)
           /\ call'[u].pc = pc
           /\ call'[u].symbol = call[u].symbol /\ call'[u].slot = call[u].slot
<1>1. call \in [Caller -> Place] /\ call[u] \in Place
  BY DEF Shape
<1>2. PICK p \in Place : p = [call[u] EXCEPT !.pc = pc]
  BY <1>1 DEF Place
<1>3. call' = [call EXCEPT ![u] = p]
  BY <1>1, <1>2
<1>4. call' \in [Caller -> Place] /\ call'[u] = p /\ Alone(u)
  BY <1>1, <1>3 DEF Alone
<1> QED
  BY <1>1, <1>2, <1>4 DEF Place

LEMMA MovesOn ==
    ASSUME Shape, NEW u \in Caller, NEW slot \in 0 .. MaxKprobes,
           call' = [call EXCEPT ![u].slot = slot]
    PROVE  /\ call' \in [Caller -> Place] /\ Alone(u)
           /\ call'[u].slot = slot
           /\ call'[u].symbol = call[u].symbol /\ call'[u].pc = call[u].pc
<1>1. call \in [Caller -> Place] /\ call[u] \in Place
  BY DEF Shape
<1>2. PICK p \in Place : p = [call[u] EXCEPT !.slot = slot]
  BY <1>1 DEF Place
<1>3. call' = [call EXCEPT ![u] = p]
  BY <1>1, <1>2
<1>4. call' \in [Caller -> Place] /\ call'[u] = p /\ Alone(u)
  BY <1>1, <1>3 DEF Alone
<1> QED
  BY <1>1, <1>2, <1>4 DEF Place

LEMMA MovesToSlot ==
    ASSUME Shape, NEW u \in Caller, NEW pc \in Inside \cup Outside,
           NEW slot \in 0 .. MaxKprobes,
           call' = [call EXCEPT ![u].pc = pc, ![u].slot = slot]
    PROVE  /\ call' \in [Caller -> Place] /\ Alone(u)
           /\ call'[u].pc = pc
           /\ call'[u].symbol = call[u].symbol /\ call'[u].slot = slot
<1>1. call \in [Caller -> Place] /\ call[u] \in Place
  BY DEF Shape
<1>2. PICK p \in Place : p = [call[u] EXCEPT !.pc = pc, !.slot = slot]
  BY <1>1 DEF Place
<1>3. call' = [call EXCEPT ![u] = p]
  BY <1>1, <1>2
<1>4. call' \in [Caller -> Place] /\ call'[u] = p /\ Alone(u)
  BY <1>1, <1>3 DEF Alone
<1> QED
  BY <1>1, <1>2, <1>4 DEF Place

LEMMA MovesOut ==
    ASSUME Shape, NEW u \in Caller,
           call' = [call EXCEPT ![u] = NoCall]
    PROVE  /\ call' \in [Caller -> Place] /\ Alone(u)
           /\ call'[u].pc = "idle" /\ call'[u].slot = NoSlot
BY ConstantTypes DEF Shape, NoCall, Alone

(* Handlers come and go: nobody who works on a slot is disturbed.          *)
LEMMA KHit ==
    ASSUME KInv, NEW c \in CPU, NEW s \in Slot, Hit(c, s)
    PROVE  KInv'
<1>1. /\ s \in armed /\ handler[c] = NoSlot
      /\ handler' = [handler EXCEPT ![c] = s]
      /\ hits' = [hits EXCEPT ![s] = @ + 1]
      /\ UNCHANGED <<slots, mutex, call, armed, unloaded>>
  BY DEF Hit
<1>2. Shape
  BY DEF KInv
<1>3. /\ handler'[c] = s /\ \A d \in CPU : d # c => handler'[d] = handler[d]
      /\ hits'[s] = hits[s] + 1 /\ hits[s] \in Nat
      /\ \A t \in Slot : t # s => hits'[t] = hits[t]
  BY <1>1, <1>2 DEF Shape
<1>4. Shape'
  <2>1. hits' \in [Slot -> Nat]
    BY <1>1, <1>2, <1>3 DEF Shape
  <2>2. handler' \in [CPU -> 0 .. MaxKprobes]
    BY <1>1, <1>2, ConstantTypes DEF Shape
  <2> QED
    BY <1>1, <1>2, <2>1, <2>2 DEF Shape
<1>5. Working'
  <2> SUFFICES ASSUME NEW u \in Caller PROVE Works(u)'
    BY DEF Working
  <2>1. Works(u)
    BY DEF KInv, Working
  <2>2. call[u].pc = "free" => call[u].slot # s
    BY <1>1, <2>1 DEF Works
  <2>3. call[u].pc = "free" => \A d \in CPU : handler'[d] # call[u].slot
    BY <1>3, <2>1, <2>2 DEF Works
  <2>4. Probing(call[u].symbol)' = Probing(call[u].symbol)
    BY <1>1 DEF Probing
  <2> QED
    BY <1>1, <2>1, <2>3, <2>4 DEF Works
<1>6. Handling'
  BY <1>1, <1>3 DEF KInv, Handling, At
<1>7. CountsOwnHits'
  <2>1. /\ s # NoSlot
        /\ \A t \in armed : t \in Slot /\ t # NoSlot
    BY <1>1, <1>2, ConstantTypes DEF Shape
  <2>2. /\ Cardinality(Handlers(s)) \in Nat
        /\ Cardinality(Handlers(s)') = Cardinality(Handlers(s)) + 1
        /\ \A r : r # s /\ r # NoSlot => Handlers(r)' = Handlers(r)
    BY <1>1, <1>2, <2>1, HandlerStarts
  <2>3. slots[s].count \in Nat
    BY <1>2 DEF Shape, Entry
  <2> SUFFICES ASSUME NEW t \in armed
               PROVE  slots[t].count + Cardinality(Handlers(t)') = hits'[t]
    BY <1>1 DEF CountsOwnHits, Handlers
  <2>4. slots[t].count + Cardinality(Handlers(t)) = hits[t]
    BY DEF KInv, CountsOwnHits, Handlers
  <2>5. CASE t = s
    BY <1>3, <2>2, <2>3, <2>4, <2>5
  <2>6. CASE t # s
    BY <1>3, <2>1, <2>2, <2>4, <2>6
  <2> QED
    BY <2>5, <2>6
<1>8. Excluded' /\ Table' /\ Leaving'
  BY <1>1 DEF KInv, Excluded, Table, At, Leaving, Following
<1> QED
  BY <1>4, <1>5, <1>6, <1>7, <1>8 DEF KInv

LEMMA KPreHandler ==
    ASSUME KInv, NEW c \in CPU, PreHandler(c)
    PROVE  KInv'
<1>1. Shape
  BY DEF KInv
<1>2. PICK s \in Slot : s = handler[c]
  BY <1>1, ConstantTypes DEF PreHandler, Shape
<1>3. /\ slots' = [slots EXCEPT ![s].count = @ + 1]
      /\ handler' = [handler EXCEPT ![c] = NoSlot]
      /\ UNCHANGED <<mutex, call, armed, hits, unloaded>>
  BY <1>2 DEF PreHandler
<1>4. /\ slots[s] \in Entry /\ slots'[s] = [slots[s] EXCEPT !.count = @ + 1]
      /\ \A t \in Slot : t # s => slots'[t] = slots[t]
  BY <1>1, <1>3 DEF Shape
<1>5. /\ \A t \in Slot : /\ slots'[t].active = slots[t].active
                        /\ slots'[t].symbol = slots[t].symbol
      /\ slots'[s].count = slots[s].count + 1 /\ slots[s].count \in Nat
      /\ slots'[s] \in Entry
  BY <1>4 DEF Entry
<1>6. Shape'
  <2>1. slots' \in [Slot -> Entry]
    BY <1>1, <1>3, <1>4, <1>5 DEF Shape
  <2>2. handler' \in [CPU -> 0 .. MaxKprobes]
    BY <1>1, <1>3, ConstantTypes DEF Shape
  <2> QED
    BY <1>1, <1>3, <2>1, <2>2 DEF Shape
<1>7. \A d \in CPU : handler'[d] = NoSlot \/ handler'[d] = handler[d]
  BY <1>1, <1>3 DEF Shape
<1>8. Working'
  <2> SUFFICES ASSUME NEW u \in Caller PROVE Works(u)'
    BY DEF Working
  <2>1. Works(u)
    BY DEF KInv, Working
  <2>2. call[u].pc = "register" => call[u].slot # s
    <3>1. CASE s \in armed
      BY <2>1, <3>1 DEF Works
    <3>2. CASE s \notin armed /\ call[u].pc = "register"
      <4>1. PICK v \in Caller : At(v, s, {"drain"})
        BY <1>2, <3>2, ConstantTypes DEF KInv, Handling
      <4>2. mutex = u /\ mutex = v
        BY <3>2, <4>1 DEF KInv, Excluded, At, Inside
      <4> QED
        BY <3>2, <4>1, <4>2 DEF At
    <3> QED
      BY <3>1, <3>2
  <2>3. Probing(call[u].symbol)' = Probing(call[u].symbol)
    BY <1>3, <1>5 DEF Probing
  <2>4. call[u].pc = "free" => \A d \in CPU : handler'[d] # call[u].slot
    BY <1>7, <2>1, ConstantTypes DEF Works
  <2> QED
    BY <1>3, <1>4, <1>5, <2>1, <2>2, <2>3, <2>4 DEF Works
<1>9. Handling'
  BY <1>3, <1>7 DEF KInv, Handling, At
<1>10. CountsOwnHits'
  <2>1. /\ s # NoSlot
        /\ \A t \in armed : t \in Slot /\ t # NoSlot
    BY <1>1, ConstantTypes DEF Shape
  <2>2. /\ Cardinality(Handlers(s)) \in Nat
        /\ Cardinality(Handlers(s)') = Cardinality(Handlers(s)) - 1
        /\ \A r : r # s /\ r # NoSlot => Handlers(r)' = Handlers(r)
    BY <1>1, <1>2, <1>3, <2>1, HandlerEnds
  <2> SUFFICES ASSUME NEW t \in armed
               PROVE  slots'[t].count + Cardinality(Handlers(t)') = hits[t]
    BY <1>3 DEF CountsOwnHits, Handlers
  <2>3. slots[t].count + Cardinality(Handlers(t)) = hits[t]
    BY DEF KInv, CountsOwnHits, Handlers
  <2>4. CASE t = s
    BY <1>5, <2>2, <2>3, <2>4
  <2>5. CASE t # s
    BY <1>4, <2>1, <2>2, <2>3, <2>5
  <2> QED
    BY <2>4, <2>5
<1>11. Excluded'
  BY <1>3 DEF KInv, Excluded
<1>12. Table'
  <2>1. armed \subseteq Slot
    BY <1>1 DEF Shape
  <2> QED
    BY <1>3, <1>5, <2>1 DEF KInv, Table, At
<1>13. Leaving'
  BY <1>3, <1>5 DEF KInv, Leaving, Following
<1> QED
  BY <1>6, <1>8, <1>9, <1>10, <1>11, <1>12, <1>13 DEF KInv

------------------------------------------------------------------------------
(* What a step of caller u needs beside what it does itself.               *)

LEMMA ExclusionStays ==
    ASSUME KInv, NEW u \in Caller, Alone(u),
           \/ mutex' = mutex /\ (call'[u].pc \in Inside <=> call[u].pc \in Inside)
           \/ mutex = Nobody /\ mutex' = u /\ call'[u].pc \in Inside
           \/ mutex = u /\ mutex' = Nobody /\ call'[u].pc \notin Inside
    PROVE  Excluded'
<1>1. \A v \in Caller : v # Nobody
  BY KprobeAssumption
<1> QED
  BY <1>1 DEF KInv, Excluded, Alone

LEMMA LeavingStays ==
    ASSUME KInv, NEW u \in User, Alone(u), call[u].pc # "idle",
           unloaded' = unloaded
    PROVE  Leaving'
<1>1. u # Rmmod /\ Rmmod \in Caller /\ u \in Caller
  BY KprobeAssumption DEF Caller
<1>2. call[Rmmod].pc = "idle" /\ ~unloaded /\ call[Rmmod].slot = NoSlot
  BY <1>1 DEF KInv, Leaving
<1> QED
  BY <1>1, <1>2 DEF Leaving, Alone

(* A step between two places where a slot is as the table says.            *)
LEMMA TableStays ==
    ASSUME KInv, NEW u \in Caller, Alone(u),
           UNCHANGED <<slots, armed, handler, hits>>,
           call[u].pc \notin {"attached", "drain", "free"}
    PROVE  /\ Table' /\ Handling' /\ CountsOwnHits'
           /\ \A v \in Caller : v # u => Works(v)'
<1>1. \A v \in Caller : \A s, pcs :
          pcs \subseteq {"attached", "drain", "free"} /\ At(v, s, pcs) => At(v, s, pcs)'
  BY DEF At, Alone
<1>2. Table'
  BY <1>1 DEF KInv, Table
<1>3. Handling' /\ CountsOwnHits'
  BY <1>1 DEF KInv, Handling, CountsOwnHits
<1>4. ASSUME NEW v \in Caller, v # u PROVE Works(v)'
  <2>1. Works(v) /\ call'[v] = call[v]
    BY <1>4 DEF KInv, Working, Alone
  <2>2. \A f : Probing(f)' = Probing(f)
    BY DEF Probing
  <2> QED
    BY <2>1, <2>2 DEF Works
<1> QED
  BY <1>2, <1>3, <1>4

LEMMA KCall ==
    ASSUME KInv, NEW u \in User, NEW op \in {"attach", "detach", "check"},
           NEW symbol \in Symbols, op # "check" => symbol \in Symbol,
           Call(u, op, symbol)
    PROVE  KInv'
<1>1. Shape /\ u \in Caller /\ u # Rmmod /\ Rmmod \in Caller
  BY KprobeAssumption DEF KInv, Caller
<1>2. /\ call[u].pc = "idle" /\ call[Rmmod].pc = "idle" /\ ~unloaded
      /\ UNCHANGED <<slots, mutex, armed, handler, hits, unloaded>>
  BY DEF Call, CoreUnchanged
<1>3. PICK c : c = [NoCall EXCEPT !.pc = op, !.symbol = symbol]
  OBVIOUS
<1>4. c \in Place /\ c.pc = op /\ c.symbol = symbol
  BY <1>3, ConstantTypes DEF NoCall, Place, Outside
<1>5. call' = [call EXCEPT ![u] = c]
  BY <1>3 DEF Call
<1>6. call' \in [Caller -> Place] /\ call'[u] = c /\ Alone(u)
  BY <1>1, <1>4, <1>5 DEF Shape, Alone
<1>7. Shape'
  BY <1>1, <1>2, <1>6 DEF Shape
<1>8. Excluded'
  BY <1>1, <1>2, <1>4, <1>6, ExclusionStays DEF Inside
<1>9. /\ Table' /\ Handling' /\ CountsOwnHits'
      /\ \A v \in Caller : v # u => Works(v)'
  BY <1>1, <1>2, <1>6, TableStays
<1>10. Works(u)'
  BY <1>4, <1>6 DEF Works
<1>11. Leaving'
  <2>1. call[Rmmod].slot = NoSlot
    BY <1>2 DEF KInv, Leaving
  <2> QED
    BY <1>1, <1>2, <1>6, <2>1 DEF Leaving, Alone
<1> QED
  BY <1>7, <1>8, <1>9, <1>10, <1>11 DEF KInv, Working

LEMMA KLock ==
    ASSUME KInv, NEW u \in Caller, LockStep(u)
    PROVE  KInv'
<1>1. Shape /\ Works(u)
  BY DEF KInv, Working
<1>2. PICK pc : /\ <<call[u].pc, pc>> \in {<<"attach", "scan">>, <<"detach", "find">>,
                                        <<"check", "report">>, <<"cleanup", "next">>}
                /\ Lock(u, call[u].pc, pc)
  BY DEF LockStep, Lock
<1>3. /\ mutex = Nobody /\ mutex' = u /\ call' = [call EXCEPT ![u].pc = pc]
      /\ UNCHANGED <<slots, armed, handler, hits, unloaded>>
      /\ pc \in Inside /\ call[u].pc \in Outside
  BY <1>2 DEF Lock, CoreUnchanged, Inside, Outside
<1>4. /\ call' \in [Caller -> Place] /\ call'[u].pc = pc /\ Alone(u)
      /\ call'[u].symbol = call[u].symbol /\ call'[u].slot = call[u].slot
  BY <1>1, <1>3, MovesTo
<1>5. Shape'
  BY <1>1, <1>3, <1>4 DEF Shape
<1>6. Excluded'
  BY <1>3, <1>4, ExclusionStays
<1>7. /\ Table' /\ Handling' /\ CountsOwnHits'
      /\ \A v \in Caller : v # u => Works(v)'
  BY <1>2, <1>3, <1>4, TableStays
<1>8. Works(u)'
  BY <1>1, <1>2, <1>4 DEF Works
<1>9. Leaving'
  <2>1. CASE u = Rmmod
    <3>1. call[u].pc = "cleanup" /\ pc = "next"
      BY <1>2, <2>1 DEF KInv, Leaving
    <3>2. call[u].slot = NoSlot /\ ~unloaded /\ \A v \in User : call[v].pc = "idle"
      BY <2>1, <3>1 DEF KInv, Leaving
    <3>3. \A v \in User : v \in Caller /\ v # Rmmod
      BY KprobeAssumption DEF Caller
    <3> QED
      BY <1>3, <1>4, <2>1, <3>1, <3>2, <3>3 DEF Leaving, Following, Alone, Slot
  <2>2. CASE u # Rmmod
    BY <1>2, <1>3, <1>4, <2>2, LeavingStays DEF Caller
  <2> QED
    BY <2>1, <2>2
<1> QED
  BY <1>5, <1>6, <1>7, <1>8, <1>9 DEF KInv, Working

LEMMA KUnload ==
    ASSUME KInv, Unload
    PROVE  KInv'
<1>1. Shape /\ Rmmod \in Caller /\ \A v \in User : v \in Caller /\ v # Rmmod
  BY KprobeAssumption DEF KInv, Caller
<1>2. /\ ~unloaded /\ \A v \in Caller : call[v].pc = "idle"
      /\ call' = [call EXCEPT ![Rmmod].pc = "cleanup"]
      /\ UNCHANGED <<slots, mutex, armed, handler, hits, unloaded>>
  BY DEF Unload, CoreUnchanged
<1>3. /\ call' \in [Caller -> Place] /\ call'[Rmmod].pc = "cleanup" /\ Alone(Rmmod)
      /\ call'[Rmmod].slot = call[Rmmod].slot
  <2>1. PICK pc \in Inside \cup Outside : pc = "cleanup"
    BY DEF Outside
  <2> QED
    BY <1>1, <1>2, <2>1, MovesTo
<1>4. Shape'
  BY <1>1, <1>2, <1>3 DEF Shape
<1>5. Excluded'
  BY <1>1, <1>2, <1>3, ExclusionStays DEF Inside
<1>6. /\ Table' /\ Handling' /\ CountsOwnHits'
      /\ \A v \in Caller : v # Rmmod => Works(v)'
  BY <1>1, <1>2, <1>3, TableStays
<1>7. Works(Rmmod)'
  BY <1>3 DEF Works
<1>8. Leaving'
  <2>1. call[Rmmod].slot = NoSlot
    BY <1>1, <1>2 DEF KInv, Leaving
  <2> QED
    BY <1>1, <1>2, <1>3, <2>1 DEF Leaving, Alone
<1> QED
  BY <1>4, <1>5, <1>6, <1>7, <1>8 DEF KInv, Working

(* Calls that return without having touched the table.                     *)
LEMMA KReturns ==
    ASSUME KInv, NEW u \in Caller, call[u].pc \in {"scan", "find", "report"},
           Returns(u), UNCHANGED <<slots, armed, handler, hits, unloaded>>
    PROVE  KInv'
<1>1. Shape /\ u \in User
  BY DEF KInv, Leaving, Caller
<1>2. /\ call' \in [Caller -> Place] /\ call'[u].pc = "idle" /\ Alone(u)
      /\ mutex' = Nobody
  BY <1>1, MovesOut DEF Returns
<1>3. Shape'
  BY <1>1, <1>2 DEF Shape
<1>4. mutex = u
  BY DEF KInv, Excluded, Inside
<1>5. Excluded'
  BY <1>2, <1>4, ExclusionStays DEF Inside
<1>6. /\ Table' /\ Handling' /\ CountsOwnHits'
      /\ \A v \in Caller : v # u => Works(v)'
  BY <1>2, TableStays
<1>7. Works(u)'
  BY <1>2 DEF Works
<1>8. Leaving'
  BY <1>1, <1>2, LeavingStays
<1> QED
  BY <1>3, <1>5, <1>6, <1>7, <1>8 DEF KInv, Working

(* While the holder of the mutex is not in the middle of a change, the     *)
(* table says what is armed.                                               *)
LEMMA TableAgrees ==
    ASSUME KInv, NEW u \in Caller, mutex = u, NEW s \in Slot,
           call[u].slot = s => call[u].pc \notin {"attached", "drain", "free"}
    PROVE  /\ s \in armed <=> slots[s].active
           /\ s \notin armed => Handlers(s) = {}
<1>1. \A v \in Caller : At(v, s, {"attached", "drain", "free"}) => v = u
  BY DEF KInv, Excluded, At, Inside
<1>2. \A v \in Caller : ~At(v, s, {"attached", "drain", "free"})
  BY <1>1 DEF At
<1>3. \A v \in Caller : /\ ~At(v, s, {"attached"}) /\ ~At(v, s, {"drain"})
                       /\ ~At(v, s, {"drain", "free"})
  BY <1>2 DEF At
<1>4. s \in armed <=> slots[s].active
  BY <1>3 DEF KInv, Table
<1>5. s \notin armed => Handlers(s) = {}
  <2>1. s # NoSlot
    BY ConstantTypes
  <2>2. ASSUME s \notin armed, NEW c \in Handlers(s) PROVE FALSE
    BY <1>3, <2>1, <2>2 DEF KInv, Handling, Handlers
  <2> QED
    BY <2>2
<1> QED
  BY <1>4, <1>5

(* The first free slot is named: nothing is armed there.                   *)
LEMMA KClaim ==
    ASSUME KInv, NEW u \in Caller, call[u].pc = "scan",
           Probing(call[u].symbol) = {}, NEW s \in Slot, s \in Free,
           slots' = [slots EXCEPT ![s] = [FreeSlot EXCEPT !.symbol = call[u].symbol]],
           call' = [call EXCEPT ![u].pc = "register", ![u].slot = s],
           UNCHANGED <<mutex, armed, handler, hits, unloaded>>
    PROVE  KInv'
<1>1. Shape /\ Works(u) /\ u \in User /\ mutex = u
  BY DEF KInv, Working, Leaving, Caller, Excluded, Inside
<1>2. PICK f \in Symbol : f = call[u].symbol
  BY <1>1 DEF Works
<1>3. /\ call' \in [Caller -> Place] /\ call'[u].pc = "register" /\ Alone(u)
      /\ call'[u].slot = s /\ call'[u].symbol = f
  <2>1. PICK pc \in Inside \cup Outside : pc = "register"
    BY DEF Inside
  <2>2. s \in 0 .. MaxKprobes
    BY ConstantTypes
  <2> QED
    BY <1>1, <1>2, <2>1, <2>2, MovesToSlot, ZenonT(40)
<1>e. PICK e : e = [FreeSlot EXCEPT !.symbol = f]
  OBVIOUS
<1>4. e \in Entry /\ ~e.active /\ e.symbol = f /\ e.count = 0
  BY <1>e DEF FreeSlot, Entry, Symbols
<1>5. /\ slots'[s] = e /\ \A t \in Slot : t # s => slots'[t] = slots[t]
      /\ slots' \in [Slot -> Entry]
  BY <1>1, <1>2, <1>e, <1>4 DEF Shape
<1>6. s \notin armed /\ ~slots[s].active
  BY <1>1, TableAgrees DEF Free
<1>7. Shape'
  BY <1>1, <1>3, <1>5 DEF Shape
<1>8. Excluded'
  BY <1>3, ExclusionStays DEF Inside
<1>9. \A t \in Slot : slots'[t].active => t # s /\ slots[t].active
  BY <1>4, <1>5
<1>10. \A t \in armed : t \in Slot /\ t # s /\ slots[t].active
  BY <1>1, <1>6, TableAgrees DEF Shape
<1>11. \A t \in Slot \ armed : ~slots[t].active
  BY <1>1, TableAgrees
<1>12. Table'
  BY <1>5, <1>9, <1>10, <1>11 DEF KInv, Table
<1>13. Handling'
  BY <1>3 DEF KInv, Handling, At, Alone
<1>14. CountsOwnHits'
  BY <1>5, <1>10 DEF KInv, CountsOwnHits
<1>15. \A v \in Caller : v # u => Works(v)'
  BY <1>1, <1>3, OthersWait DEF Alone
<1>16. Works(u)'
  <2>1. {t \in Slot : slots'[t].active /\ slots'[t].symbol = f} = {}
    BY <1>2, <1>5, <1>9 DEF Probing
  <2>2. ~slots'[s].active /\ slots'[s].symbol = f /\ slots'[s].count = 0
    BY <1>4, <1>5
  <2> QED
    BY <1>3, <1>6, <2>1, <2>2 DEF Works, Probing
<1>17. Leaving'
  BY <1>1, <1>3, LeavingStays
<1> QED
  BY <1>7, <1>8, <1>12, <1>13, <1>14, <1>15, <1>16, <1>17 DEF KInv, Working

LEMMA KScan ==
    ASSUME KInv, NEW u \in Caller, Scan(u)
    PROVE  KInv'
<1>1. CASE Returns(u) /\ UNCHANGED slots
  BY <1>1, KReturns DEF Scan, CoreUnchanged
<1>2. CASE Free # {} /\ ~(Returns(u) /\ UNCHANGED slots)
  <2>1. Free \in SUBSET Slot
    BY DEF Free
  <2>2. PICK s \in Free : s = First(Free)
    BY <1>2, <2>1, FirstIsLeast
  <2> QED
    BY <1>2, <2>1, <2>2, KClaim DEF Scan, CoreUnchanged
<1> QED
  BY <1>1, <1>2 DEF Scan

(* register_kprobe() fails and the slot is free, or the probe is armed:    *)
(* from here on its hits count.                                            *)
LEMMA KRegister ==
    ASSUME KInv, NEW u \in Caller, Register(u)
    PROVE  KInv'
<1>1. Shape /\ Works(u) /\ call[u].pc = "register" /\ u \in User /\ mutex = u
  BY DEF Register, KInv, Working, Leaving, Caller, Excluded, Inside
<1>2. PICK s \in Slot : s = call[u].slot
  BY <1>1 DEF Works
<1>3. /\ ~slots[s].active /\ slots[s].count = 0 /\ s \notin armed
      /\ slots[s].symbol \in Symbol /\ slots[s].symbol = call[u].symbol
      /\ Probing(call[u].symbol) = {}
  BY <1>1, <1>2 DEF Works
<1>4. Handlers(s) = {}
  BY <1>1, <1>2, <1>3, TableAgrees
<1>5. \A t \in Slot : t \in armed <=> slots[t].active
  BY <1>1, TableAgrees
<1>6. armed \subseteq Slot
  BY <1>1 DEF Shape
<1>7. CASE /\ slots' = [slots EXCEPT ![s] = FreeSlot]
           /\ Returns(u) /\ UNCHANGED <<armed, handler, hits, unloaded>>
  <2>1. /\ call' \in [Caller -> Place] /\ Alone(u) /\ call'[u].pc = "idle"
        /\ mutex' = Nobody
    BY <1>1, <1>7, MovesOut DEF Returns
  <2>2. /\ ~slots'[s].active /\ \A t \in Slot : t # s => slots'[t] = slots[t]
        /\ slots' \in [Slot -> Entry]
    BY <1>1, <1>7, ConstantTypes DEF Shape, FreeSlot
  <2>3. Shape'
    BY <1>1, <1>7, <2>1, <2>2 DEF Shape
  <2>4. Excluded'
    BY <1>1, <2>1, ExclusionStays DEF Inside
  <2>5. Table'
    BY <1>3, <1>5, <1>6, <1>7, <2>2 DEF KInv, Table
  <2>6. Handling'
    BY <1>1, <1>7, <2>1 DEF KInv, Handling, At, Alone
  <2>7. CountsOwnHits'
    BY <1>3, <1>6, <1>7, <2>2 DEF KInv, CountsOwnHits
  <2>8. \A v \in Caller : Works(v)'
    <3>1. Works(u)'
      BY <2>1 DEF Works
    <3> QED
      BY <1>1, <2>1, <3>1, OthersWait DEF Alone
  <2>9. Leaving'
    BY <1>1, <1>7, <2>1, LeavingStays
  <2> QED
    BY <2>3, <2>4, <2>5, <2>6, <2>7, <2>8, <2>9 DEF KInv, Working
<1>8. CASE /\ armed' = armed \cup {s} /\ hits' = [hits EXCEPT ![s] = 0]
           /\ call' = [call EXCEPT ![u].pc = "attached"]
           /\ UNCHANGED <<slots, mutex, handler, unloaded>>
  <2>1. /\ call' \in [Caller -> Place] /\ Alone(u) /\ call'[u].pc = "attached"
        /\ call'[u].slot = s /\ call'[u].symbol = call[u].symbol
    <3>1. PICK pc \in Inside \cup Outside : pc = "attached"
      BY DEF Inside
    <3> QED
      BY <1>1, <1>2, <1>8, <3>1, MovesTo
  <2>2. /\ hits' \in [Slot -> Nat] /\ hits'[s] = 0
        /\ \A t \in Slot : t # s => hits'[t] = hits[t]
    BY <1>1, <1>8 DEF Shape
  <2>3. Shape'
    BY <1>1, <1>8, <2>1, <2>2 DEF Shape
  <2>4. Excluded'
    BY <1>1, <1>8, <2>1, ExclusionStays DEF Inside
  <2>5. Table'
    <3>1. At(u, s, {"attached"})'
      BY <2>1 DEF At
    <3> QED
      BY <1>5, <1>6, <1>8, <3>1 DEF KInv, Table
  <2>6. Handling'
    BY <1>1, <1>8, <2>1 DEF KInv, Handling, At, Alone
  <2>7. CountsOwnHits'
    <3> SUFFICES ASSUME NEW t \in armed'
                 PROVE  slots[t].count + Cardinality(Handlers(t)) = hits'[t]
      BY <1>8 DEF CountsOwnHits, Handlers
    <3>1. CASE t = s
      <4>1. Cardinality(Handlers(s)) = 0
        BY <1>4, FS_EmptySet
      <4> QED
        BY <1>3, <2>2, <3>1, <4>1
    <3>2. CASE t # s
      BY <1>6, <1>8, <2>2, <3>2 DEF KInv, CountsOwnHits, Handlers
    <3> QED
      BY <3>1, <3>2
  <2>8. \A v \in Caller : Works(v)'
    <3>1. Works(u)'
      BY <1>3, <1>8, <2>1 DEF Works, Probing
    <3> QED
      BY <1>1, <2>1, <3>1, OthersWait DEF Alone
  <2>9. Leaving'
    BY <1>1, <1>8, <2>1, LeavingStays
  <2> QED
    BY <2>3, <2>4, <2>5, <2>6, <2>7, <2>8, <2>9 DEF KInv, Working
<1> QED
  BY <1>2, <1>7, <1>8 DEF Register, CoreUnchanged

LEMMA KActivate ==
    ASSUME KInv, NEW u \in Caller, Activate(u)
    PROVE  KInv'
<1>1. Shape /\ Works(u) /\ call[u].pc = "attached" /\ u \in User /\ mutex = u
  BY DEF Activate, KInv, Working, Leaving, Caller, Excluded, Inside
<1>2. PICK s \in Slot : s = call[u].slot
  BY <1>1 DEF Works
<1>3. /\ s \in armed /\ slots[s].symbol \in Symbol
      /\ \A t \in Slot : ~(slots[t].active /\ slots[t].symbol = slots[s].symbol)
  BY <1>1, <1>2 DEF Works, Probing
<1>4. /\ slots' = [slots EXCEPT ![s].active = TRUE]
      /\ Returns(u) /\ UNCHANGED <<armed, handler, hits, unloaded>>
  BY <1>2 DEF Activate, CoreUnchanged
<1>5. /\ call' \in [Caller -> Place] /\ Alone(u) /\ call'[u].pc = "idle"
      /\ mutex' = Nobody
  BY <1>1, <1>4, MovesOut DEF Returns
<1>6. /\ slots'[s].active /\ slots'[s].symbol = slots[s].symbol
      /\ slots'[s].count = slots[s].count
      /\ \A t \in Slot : t # s => slots'[t] = slots[t]
      /\ slots' \in [Slot -> Entry]
  BY <1>1, <1>4 DEF Shape, Entry
<1>7. \A t \in Slot : t # s => (t \in armed <=> slots[t].active)
  BY <1>1, <1>2, TableAgrees
<1>8. armed \subseteq Slot
  BY <1>1 DEF Shape
<1>9. Shape'
  BY <1>1, <1>4, <1>5, <1>6 DEF Shape
<1>10. Excluded'
  BY <1>1, <1>5, ExclusionStays DEF Inside
<1>11. Table'
  <2>1. /\ \A t \in armed : slots'[t].active
        /\ \A t \in Slot \ armed : ~slots'[t].active
    BY <1>3, <1>6, <1>7, <1>8
  <2>2. \A t \in Slot : slots'[t].active => slots'[t].symbol \in Symbol
    BY <1>3, <1>6 DEF KInv, Table
  <2>3. ASSUME NEW t \in Slot, NEW r \in Slot, slots'[t].active, slots'[r].active,
               slots'[t].symbol = slots'[r].symbol
        PROVE  t = r
    BY <1>3, <1>6, <2>3 DEF KInv, Table
  <2> QED
    BY <1>4, <2>1, <2>2, <2>3 DEF Table
<1>12. Handling'
  BY <1>1, <1>4, <1>5 DEF KInv, Handling, At, Alone
<1>13. CountsOwnHits'
  BY <1>4, <1>6, <1>8 DEF KInv, CountsOwnHits
<1>14. \A v \in Caller : Works(v)'
  <2>1. Works(u)'
    BY <1>5 DEF Works
  <2> QED
    BY <1>1, <1>5, <2>1, OthersWait DEF Alone
<1>15. Leaving'
  BY <1>1, <1>4, <1>5, LeavingStays
<1> QED
  BY <1>9, <1>10, <1>11, <1>12, <1>13, <1>14, <1>15 DEF KInv, Working

------------------------------------------------------------------------------
(* Detaching, by a user or slot after slot when the module leaves.         *)

(* An active slot is picked; the kernel has its probe.                     *)
LEMMA KPick ==
    ASSUME KInv, NEW u \in Caller, NEW s \in Slot, slots[s].active,
           \/ u \in User /\ call[u].pc = "find"
           \/ /\ u = Rmmod /\ call[u].pc = "next"
              /\ \A t \in Slot : slots[t].active => s <= t,
           call' = [call EXCEPT ![u].pc = "disarm", ![u].slot = s],
           UNCHANGED <<slots, mutex, armed, handler, hits, unloaded>>
    PROVE  KInv'
<1>1. Shape /\ mutex = u
  BY DEF KInv, Excluded, Inside
<1>2. s \in armed
  BY <1>1, TableAgrees
<1>3. /\ call' \in [Caller -> Place] /\ Alone(u) /\ call'[u].pc = "disarm"
      /\ call'[u].slot = s
  <2>1. PICK pc \in Inside \cup Outside : pc = "disarm"
    BY DEF Inside
  <2>2. s \in 0 .. MaxKprobes
    BY ConstantTypes
  <2>3. call' = [call EXCEPT ![u].pc = pc, ![u].slot = s]
    BY <2>1
  <2>4. /\ call' \in [Caller -> Place] /\ Alone(u) /\ call'[u].pc = pc
        /\ call'[u].slot = s
    BY <1>1, <2>2, <2>3, MovesToSlot, ZenonT(40)
  <2> QED
    BY <2>1, <2>4
<1>4. Shape'
  BY <1>1, <1>3 DEF Shape
<1>5. Excluded'
  BY <1>3, ExclusionStays DEF Inside
<1>6. /\ Table' /\ Handling' /\ CountsOwnHits'
      /\ \A v \in Caller : v # u => Works(v)'
  BY <1>3, TableStays
<1>7. Works(u)'
  BY <1>2, <1>3 DEF Works
<1>8. Leaving'
  <2>1. CASE u = Rmmod
    <3>1. ~unloaded /\ \A v \in User : call[v].pc = "idle" /\ v # Rmmod /\ v \in Caller
      BY <2>1, KprobeAssumption DEF KInv, Leaving, Caller
    <3>2. \A t \in Slot : slots[t].active => t >= s
      BY <2>1, KprobeAssumption DEF Slot
    <3> QED
      BY <1>3, <2>1, <3>1, <3>2 DEF Leaving, Alone
  <2>2. CASE u # Rmmod
    BY <1>3, <2>2, LeavingStays
  <2> QED
    BY <2>1, <2>2
<1> QED
  BY <1>4, <1>5, <1>6, <1>7, <1>8 DEF KInv, Working

LEMMA KFind ==
    ASSUME KInv, NEW u \in Caller, Find(u)
    PROVE  KInv'
<1>1. call[u].pc = "find" /\ u \in User
  BY DEF Find, KInv, Leaving, Caller
<1>2. CASE Returns(u)
  BY <1>1, <1>2, KReturns DEF Find, CoreUnchanged
<1>3. CASE Probing(call[u].symbol) # {} /\ ~Returns(u)
  <2>1. PICK found \in SUBSET Slot : found = Probing(call[u].symbol)
    BY DEF Probing
  <2>2. PICK s \in Slot : s = First(found) /\ slots[s].active
    BY <1>3, <2>1, FirstIsLeast DEF Probing
  <2>3. /\ call' = [call EXCEPT ![u].pc = "disarm", ![u].slot = s]
        /\ UNCHANGED <<slots, mutex, armed, handler, hits, unloaded>>
    BY <1>3, <2>1, <2>2 DEF Find, CoreUnchanged
  <2> QED
    BY <1>1, <2>2, <2>3, KPick
<1> QED
  BY <1>2, <1>3 DEF Find

LEMMA KNextSlot ==
    ASSUME KInv, NextSlot
    PROVE  KInv'
<1>1. Shape /\ call[Rmmod].pc = "next" /\ Rmmod \in Caller /\ mutex = Rmmod
  BY DEF NextSlot, KInv, Excluded, Inside, Caller
<1>2. PICK left \in SUBSET Slot :
          left = {t \in Slot : t >= Following(Rmmod) /\ slots[t].active}
  OBVIOUS
<1>3. \A t \in Slot : slots[t].active <=> t \in left
  BY <1>1, <1>2 DEF KInv, Leaving
<1>4. CASE left # {}
  <2>1. PICK s \in Slot : s = First(left) /\ s \in left /\ \A t \in left : s <= t
    BY <1>4, FirstIsLeast
  <2>2. /\ call' = [call EXCEPT ![Rmmod].pc = "disarm", ![Rmmod].slot = s]
        /\ UNCHANGED <<slots, mutex, armed, handler, hits, unloaded>>
    BY <1>2, <1>4, <2>1 DEF NextSlot, CoreUnchanged
  <2>3. slots[s].active /\ \A t \in Slot : slots[t].active => s <= t
    BY <1>3, <2>1
  <2> QED
    BY <1>1, <2>2, <2>3, KPick
<1>5. CASE left = {}
  <2>1. /\ Returns(Rmmod) /\ unloaded'
        /\ UNCHANGED <<slots, armed, handler, hits>>
    BY <1>2, <1>5 DEF NextSlot, CoreUnchanged
  <2>2. /\ call' \in [Caller -> Place] /\ Alone(Rmmod) /\ call'[Rmmod].pc = "idle"
        /\ call'[Rmmod].slot = NoSlot /\ mutex' = Nobody
    BY <1>1, <2>1, MovesOut DEF Returns
  <2>3. Shape'
    BY <1>1, <2>1, <2>2 DEF Shape, NextSlot
  <2>4. Excluded'
    BY <1>1, <2>2, ExclusionStays DEF Inside
  <2>5. /\ Table' /\ Handling' /\ CountsOwnHits'
        /\ \A v \in Caller : v # Rmmod => Works(v)'
    BY <1>1, <2>1, <2>2, TableStays
  <2>6. Works(Rmmod)'
    BY <2>2 DEF Works
  <2>7. Leaving'
    <3>1. \A v \in Caller : call'[v].pc = "idle"
      BY <1>1, <2>2 DEF KInv, Leaving, Caller, Alone
    <3>2. \A t \in Slot : ~slots[t].active
      BY <1>3, <1>5
    <3> QED
      BY <1>1, <2>1, <2>2, <3>1, <3>2 DEF Leaving
  <2> QED
    BY <2>3, <2>4, <2>5, <2>6, <2>7 DEF KInv, Working
<1> QED
  BY <1>4, <1>5

LEMMA KReportLine ==
    ASSUME KInv, NEW u \in Caller, ReportLine(u)
    PROVE  KInv'
<1>1. Shape /\ call[u].pc = "report" /\ u \in User
  BY DEF ReportLine, KInv, Leaving, Caller
<1>2. PICK s \in 0 .. MaxKprobes : s = Following(u)
  BY <1>1, KprobeAssumption DEF ReportLine, Following, Shape, Place, NoSlot
<1>3. /\ call' = [call EXCEPT ![u].slot = s]
      /\ UNCHANGED <<slots, mutex, armed, handler, hits, unloaded>>
  BY <1>2 DEF ReportLine, CoreUnchanged
<1>4. call' \in [Caller -> Place] /\ Alone(u) /\ call'[u].pc = call[u].pc
  BY <1>1, <1>3, MovesOn
<1>5. Shape'
  BY <1>1, <1>3, <1>4 DEF Shape
<1>6. Excluded'
  BY <1>3, <1>4, ExclusionStays
<1>7. /\ Table' /\ Handling' /\ CountsOwnHits'
      /\ \A v \in Caller : v # u => Works(v)'
  BY <1>1, <1>3, <1>4, TableStays
<1>8. Works(u)'
  BY <1>1, <1>4 DEF Works
<1>9. Leaving'
  BY <1>1, <1>3, <1>4, LeavingStays
<1> QED
  BY <1>5, <1>6, <1>7, <1>8, <1>9 DEF KInv, Working

(* unregister_kprobe(): from here on no handler starts, and those that run *)
(* are waited for.                                                         *)
LEMMA KDisarm ==
    ASSUME KInv, NEW u \in Caller, Disarm(u)
    PROVE  KInv'
<1>1. Shape /\ Works(u) /\ call[u].pc = "disarm" /\ mutex = u
  BY DEF Disarm, Goes, KInv, Working, Excluded, Inside
<1>2. PICK s \in Slot : s = call[u].slot
  BY <1>1 DEF Works
<1>3. /\ slots[s].active /\ s \in armed /\ armed \subseteq Slot
      /\ \A t \in Slot : t \in armed <=> slots[t].active
  BY <1>1, <1>2, TableAgrees DEF Works, Shape
<1>4. /\ call' = [call EXCEPT ![u].pc = "drain"] /\ armed' = armed \ {s}
      /\ UNCHANGED <<slots, mutex, handler, hits, unloaded>>
  BY <1>2 DEF Disarm, Goes
<1>5. /\ call' \in [Caller -> Place] /\ Alone(u) /\ call'[u].pc = "drain"
      /\ call'[u].slot = s
  <2>1. PICK pc \in Inside \cup Outside : pc = "drain"
    BY DEF Inside
  <2> QED
    BY <1>1, <1>2, <1>4, <2>1, MovesTo
<1>6. Shape'
  BY <1>1, <1>3, <1>4, <1>5 DEF Shape
<1>7. Excluded'
  BY <1>1, <1>4, <1>5, ExclusionStays DEF Inside
<1>8. At(u, s, {"drain", "free"})' /\ At(u, s, {"drain"})'
  BY <1>5 DEF At
<1>9. Table'
  BY <1>3, <1>4, <1>8 DEF KInv, Table
<1>10. Handling'
  <2> SUFFICES ASSUME NEW c \in CPU, handler[c] # NoSlot, handler[c] # s
               PROVE  handler[c] \in armed
    BY <1>4, <1>8 DEF Handling
  <2>1. ~\E v \in Caller : At(v, handler[c], {"drain"})
    BY <1>1 DEF KInv, Excluded, At, Inside
  <2> QED
    BY <2>1 DEF KInv, Handling
<1>11. CountsOwnHits'
  BY <1>4 DEF KInv, CountsOwnHits
<1>12. \A v \in Caller : Works(v)'
  <2>1. Works(u)'
    BY <1>3, <1>4, <1>5 DEF Works
  <2> QED
    BY <1>1, <1>5, <2>1, OthersWait DEF Alone
<1>13. Leaving'
  <2>1. CASE u = Rmmod
    BY <1>1, <1>2, <1>4, <1>5, <2>1, KprobeAssumption DEF KInv, Leaving, Alone, Caller
  <2>2. CASE u # Rmmod
    BY <1>1, <1>4, <1>5, <2>2, LeavingStays DEF Caller
  <2> QED
    BY <2>1, <2>2
<1> QED
  BY <1>6, <1>7, <1>9, <1>10, <1>11, <1>12, <1>13 DEF KInv, Working

LEMMA KDrain ==
    ASSUME KInv, NEW u \in Caller, Drain(u)
    PROVE  KInv'
<1>1. Shape /\ Works(u) /\ call[u].pc = "drain" /\ mutex = u
  BY DEF Drain, Goes, KInv, Working, Excluded, Inside
<1>2. PICK s \in Slot : s = call[u].slot
  BY <1>1 DEF Works
<1>3. /\ call' = [call EXCEPT ![u].pc = "free"] /\ \A c \in CPU : handler[c] # s
      /\ UNCHANGED <<slots, mutex, armed, handler, hits, unloaded>>
  BY <1>2 DEF Drain, Goes, CoreUnchanged
<1>4. /\ call' \in [Caller -> Place] /\ Alone(u) /\ call'[u].pc = "free"
      /\ call'[u].slot = s
  <2>1. PICK pc \in Inside \cup Outside : pc = "free"
    BY DEF Inside
  <2> QED
    BY <1>1, <1>2, <1>3, <2>1, MovesTo
<1>5. Shape'
  BY <1>1, <1>3, <1>4 DEF Shape
<1>6. Excluded'
  BY <1>1, <1>3, <1>4, ExclusionStays DEF Inside
<1>7. \A v \in Caller : call[v].pc \in {"attached", "drain", "free"} => v = u
  BY <1>1 DEF KInv, Excluded, Inside
<1>8. Table'
  <2>1. At(u, s, {"drain", "free"})'
    BY <1>4 DEF At
  <2>2. \A t \in armed : slots[t].active
    BY <1>1, <1>7 DEF KInv, Table, At
  <2>3. \A t \in Slot \ armed : slots[t].active => t = s
    BY <1>2, <1>7 DEF KInv, Table, At
  <2> QED
    BY <1>3, <2>1, <2>2, <2>3 DEF KInv, Table
<1>9. Handling'
  <2> SUFFICES ASSUME NEW c \in CPU, handler[c] # NoSlot
               PROVE  handler[c] \in armed
    BY <1>3 DEF Handling
  <2>1. ~\E v \in Caller : At(v, handler[c], {"drain"})
    BY <1>2, <1>3, <1>7 DEF At
  <2> QED
    BY <2>1 DEF KInv, Handling
<1>10. CountsOwnHits'
  BY <1>3 DEF KInv, CountsOwnHits
<1>11. \A v \in Caller : Works(v)'
  <2>1. Works(u)'
    BY <1>1, <1>2, <1>3, <1>4 DEF Works
  <2> QED
    BY <1>1, <1>4, <2>1, OthersWait DEF Alone
<1>12. Leaving'
  <2>1. CASE u = Rmmod
    BY <1>1, <1>2, <1>3, <1>4, <2>1, KprobeAssumption DEF KInv, Leaving, Alone, Caller
  <2>2. CASE u # Rmmod
    BY <1>1, <1>3, <1>4, <2>2, LeavingStays DEF Caller
  <2> QED
    BY <2>1, <2>2
<1> QED
  BY <1>5, <1>6, <1>8, <1>9, <1>10, <1>11, <1>12 DEF KInv, Working

LEMMA KFreeSymbol ==
    ASSUME KInv, NEW u \in Caller, FreeSymbol(u)
    PROVE  KInv'
<1>1. Shape /\ Works(u) /\ call[u].pc = "free" /\ mutex = u
  BY DEF FreeSymbol, KInv, Working, Excluded, Inside
<1>2. PICK s \in Slot : s = call[u].slot
  BY <1>1 DEF Works
<1>3. /\ slots' = [slots EXCEPT ![s] = FreeSlot]
      /\ UNCHANGED <<armed, handler, hits, unloaded>>
  BY <1>2 DEF FreeSymbol, CoreUnchanged
<1>4. s \notin armed /\ \A c \in CPU : handler[c] # s
  BY <1>1, <1>2 DEF Works
<1>5. /\ ~slots'[s].active /\ \A t \in Slot : t # s => slots'[t] = slots[t]
      /\ slots' \in [Slot -> Entry]
  BY <1>1, <1>3, ConstantTypes DEF Shape, FreeSlot
<1>6. /\ call' \in [Caller -> Place] /\ Alone(u)
      /\ call'[u].pc \in {"idle", "next"}
      /\ IF u = Rmmod THEN call'[u].pc = "next" /\ call'[u].slot = s /\ mutex' = mutex
                      ELSE call'[u].pc = "idle" /\ mutex' = Nobody
  <2>1. CASE u = Rmmod
    <3>1. call' = [call EXCEPT ![u].pc = "next"] /\ mutex' = mutex
      BY <2>1 DEF FreeSymbol
    <3>2. PICK pc \in Inside \cup Outside : pc = "next"
      BY DEF Inside
    <3> QED
      BY <1>1, <1>2, <2>1, <3>1, <3>2, MovesTo
  <2>2. CASE u # Rmmod
    BY <1>1, <2>2, MovesOut DEF FreeSymbol, Returns
  <2> QED
    BY <2>1, <2>2
<1>7. Shape'
  BY <1>1, <1>3, <1>5, <1>6 DEF Shape
<1>8. Excluded'
  <2>1. CASE u = Rmmod
    BY <1>1, <1>6, <2>1, ExclusionStays DEF Inside
  <2>2. CASE u # Rmmod
    BY <1>1, <1>6, <2>2, ExclusionStays DEF Inside
  <2> QED
    BY <2>1, <2>2
<1>9. \A v \in Caller : call[v].pc \in {"attached", "drain", "free"} => v = u
  BY <1>1 DEF KInv, Excluded, Inside
<1>10. /\ \A t \in armed : t \in Slot /\ t # s /\ slots[t].active
       /\ \A t \in Slot \ armed : slots[t].active => t = s
  BY <1>1, <1>2, <1>4, <1>9 DEF KInv, Table, At, Shape
<1>11. Table'
  BY <1>3, <1>5, <1>10 DEF KInv, Table
<1>12. Handling'
  <2> SUFFICES ASSUME NEW c \in CPU, handler[c] # NoSlot
               PROVE  handler[c] \in armed
    BY <1>3 DEF Handling
  <2>1. ~\E v \in Caller : At(v, handler[c], {"drain"})
    BY <1>1, <1>9 DEF At
  <2> QED
    BY <2>1 DEF KInv, Handling
<1>13. CountsOwnHits'
  BY <1>3, <1>5, <1>10 DEF KInv, CountsOwnHits
<1>14. \A v \in Caller : Works(v)'
  <2>1. Works(u)'
    BY <1>6 DEF Works
  <2> QED
    BY <1>1, <1>6, <2>1, OthersWait DEF Alone
<1>15. Leaving'
  <2>1. CASE u = Rmmod
    <3>1. ~unloaded /\ \A v \in User : call[v].pc = "idle" /\ v # Rmmod /\ v \in Caller
      BY <1>1, <2>1, KprobeAssumption DEF KInv, Leaving, Caller
    <3>2. \A t \in Slot : slots'[t].active => t >= s + 1
      <4>1. \A t \in Slot : slots[t].active => t >= s
        BY <1>1, <1>2, <2>1 DEF KInv, Leaving
      <4>2. \A t \in Slot : t \in Int /\ s \in Int
        BY DEF Slot
      <4> QED
        BY <1>5, <4>1, <4>2
    <3>3. s # NoSlot
      BY ConstantTypes
    <3> QED
      BY <1>3, <1>6, <2>1, <3>1, <3>2, <3>3 DEF Leaving, Alone, Following
  <2>2. CASE u # Rmmod
    BY <1>1, <1>3, <1>6, <2>2, LeavingStays DEF Caller
  <2> QED
    BY <2>1, <2>2
<1> QED
  BY <1>7, <1>8, <1>11, <1>12, <1>13, <1>14, <1>15 DEF KInv, Working

------------------------------------------------------------------------------
LEMMA KNext == KInv /\ [Next]_vars => KInv'
<1> SUFFICES ASSUME KInv, [Next]_vars PROVE KInv'
  OBVIOUS
<1>1. ASSUME NEW c \in CPU, PreHandler(c) \/ \E s \in Slot : Hit(c, s)
      PROVE  KInv'
  BY <1>1, KPreHandler, KHit
<1>2. ASSUME NEW u \in User, NEW symbol \in Symbol, NEW op \in {"attach", "detach"},
             Call(u, op, symbol)
      PROVE  KInv'
  BY <1>2, KCall DEF Symbols
<1>3. ASSUME NEW u \in User, Call(u, "check", NoSymbol) PROVE KInv'
  BY <1>3, KCall DEF Symbols
<1>4. ASSUME NEW u \in Caller, LockStep(u) PROVE KInv'
  BY <1>4, KLock
<1>5. ASSUME NEW u \in Caller, InsideStep(u) PROVE KInv'
  <2>1. ReportEnd(u) => KInv'
    BY KReturns DEF ReportEnd, CoreUnchanged
  <2> QED
    BY <1>5, <2>1, KScan, KRegister, KActivate, KFind, KDisarm, KDrain,
       KFreeSymbol, KReportLine, KNextSlot DEF InsideStep
<1>6. CASE Unload
  BY <1>6, KUnload
<1>7. CASE UNCHANGED vars
  <2>1. \A v \in Caller : Works(v)'
    BY <1>7 DEF vars, KInv, Working, Works, Probing
  <2> QED
    BY <1>7, <2>1 DEF vars, KInv, Shape, Excluded, Working, Table, At, Handling,
       CountsOwnHits, Leaving, Following
<1> QED
  BY <1>1, <1>2, <1>3, <1>4, <1>5, <1>6, <1>7 DEF Next

LEMMA KprobeInvariance == Spec => []KInv
BY KInit, KNext, PTL DEF Spec

LEMMA TableHolds ==
    ASSUME KInv
    PROVE  TableMatchesCore
<1>1. armed \subseteq Slot
  BY DEF KInv, Shape
<1>2. ASSUME mutex = Nobody
      PROVE  armed = {s \in Slot : slots[s].active}
  <2>1. \A u \in Caller : call[u].pc \notin Inside
    BY <1>2, KprobeAssumption DEF KInv, Excluded
  <2>2. \A u \in Caller : call[u].pc \notin {"attached", "drain", "free"}
    BY <2>1 DEF Inside
  <2> QED
    BY <1>1, <2>2 DEF KInv, Table, At
<1>3. ASSUME mutex # Nobody PROVE call[mutex].pc # "idle"
  BY <1>3 DEF KInv, Shape, Excluded, Inside
<1>4. \A s, t \in Slot :
          /\ slots[s].active /\ slots[t].active
          /\ slots[s].symbol = slots[t].symbol
          => s = t
  BY DEF KInv, Table
<1>5. unloaded => \A s \in Slot : ~slots[s].active
  BY DEF KInv, Leaving
<1> QED
  BY <1>2, <1>3, <1>4, <1>5 DEF TableMatchesCore

(* Between calls the table of kprobes says what the kernel does, and       *)
(* nothing is armed once the module is gone.                               *)
THEOREM TableCorrect == Spec => []TableMatchesCore
BY TableHolds, KprobeInvariance, PTL

(* An attachment counts all of its own hits and no others.                 *)
THEOREM CountsCorrect == Spec => []CountsOwnHits
<1>1. KInv => CountsOwnHits
  BY DEF KInv
<1> QED
  BY <1>1, KprobeInvariance, PTL

LEMMA HandlersHold ==
    ASSUME KInv
    PROVE  HandlersSafe
<1> SUFFICES ASSUME NEW c \in CPU, handler[c] # NoSlot
             PROVE  ~unloaded /\ slots[handler[c]].symbol # NoSymbol
  BY DEF HandlersSafe
<1>1. PICK s \in Slot : s = handler[c]
  BY ConstantTypes DEF KInv, Shape
<1>2. CASE \E u \in Caller : At(u, s, {"drain"})
  <2>1. PICK u \in Caller : call[u].pc = "drain" /\ call[u].slot = s
    BY <1>2 DEF At
  <2>2. slots[s].active
    BY <2>1 DEF KInv, Working, Works
  <2> QED
    BY <1>1, <2>1, <2>2, KprobeAssumption DEF KInv, Leaving, Table
<1>3. CASE s \in armed
  <2>1. CASE slots[s].active
    BY <1>1, <2>1, KprobeAssumption DEF KInv, Leaving, Table
  <2>2. CASE ~slots[s].active
    <3>1. PICK u \in Caller : call[u].pc = "attached" /\ call[u].slot = s
      BY <1>3, <2>2 DEF KInv, Table, At
    <3>2. slots[s].symbol \in Symbol /\ ~unloaded
      BY <3>1 DEF KInv, Working, Works, Leaving
    <3> QED
      BY <1>1, <3>2, KprobeAssumption
  <2> QED
    BY <2>1, <2>2
<1> QED
  BY <1>1, <1>2, <1>3 DEF KInv, Handling

(* A handler that runs finds its slot as it was when its probe was armed:  *)
(* detaching and unloading wait for it.                                    *)
THEOREM HandlersCorrect == Spec => []HandlersSafe
BY HandlersHold, KprobeInvariance, PTL
===============================================================================
