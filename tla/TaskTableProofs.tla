--------------------------- MODULE TaskTableProofs ---------------------------
(***************************************************************************)
(* Proofs about the task table of hackbot_trace.c: however many processors *)
(* race for however few slots, no slot has two owners, and n_tasks is past *)
(* the slots handed out by exactly the probes that have to roll back.      *)
(***************************************************************************)
EXTENDS TaskTable, FiniteSetTheorems, TLAPS

(* n_tasks counts the slots handed out and the probes that came too late,  *)
(* of which there are none before the table is full.                       *)
Tally == OvershootIsLosers

(* A slot being filled was handed out, to one probe, and is unpublished.   *)
Owned ==
    /\ \A c \in Owners :
          at[c] \in Slots /\ at[c] < claimed /\ pid[at[c]] = Zero
    /\ \A c, d \in Owners : c # d => at[c] # at[d]

(* Only slots that were handed out are published.                          *)
Published == \A s \in Slots : pid[s] # Zero => s < claimed

(* The report prints a slot it has looked at.                              *)
Looked == reader.pc = "print" => reader.at < reader.limit

IInv == TypeOK /\ Tally /\ Owned /\ Published /\ Looked

LEMMA LostFinite == IsFiniteSet(Lost)
BY TableAssumption, FS_Subset DEF Lost

(* Before the table is full n_tasks is exactly the slots handed out.       *)
LEMMA Handed ==
    ASSUME IInv
    PROVE  /\ claimed <= n_tasks
           /\ n_tasks < MaxTracked => n_tasks = claimed /\ Lost = {}
           /\ n_tasks >= MaxTracked => claimed = MaxTracked
<1>1. Cardinality(Lost) \in Nat /\ (Cardinality(Lost) = 0 <=> Lost = {})
  BY LostFinite, FS_CardinalityType, FS_EmptySet
<1>2. /\ n_tasks \in Nat /\ claimed \in 0 .. MaxTracked /\ MaxTracked \in Nat
      /\ n_tasks = claimed + Cardinality(Lost)
      /\ Lost # {} => claimed = MaxTracked
  BY TableAssumption DEF IInv, TypeOK, Tally, OvershootIsLosers
<1> QED
  BY <1>1, <1>2

(* A step that hands out, publishes and gives back nothing.                *)
LEMMA Undisturbed ==
    ASSUME IInv, Owners' = Owners, Lost' = Lost,
           UNCHANGED <<n_tasks, claimed, pid>>,
           \A c \in Owners : at'[c] = at[c]
    PROVE  Tally' /\ Owned' /\ Published'
BY DEF IInv, Tally, OvershootIsLosers, Owned, Published

LEMMA InitIInv == Init => IInv
<1> SUFFICES ASSUME Init PROVE IInv
  OBVIOUS
<1>1. TypeOK
  BY TableAssumption DEF Init, TypeOK, Slots, AnyPid
<1>2. Lost = {} /\ Owners = {}
  BY DEF Init, Lost, Owners
<1>3. Tally
  BY <1>2, FS_EmptySet DEF Init, Tally, OvershootIsLosers
<1> QED
  BY <1>1, <1>2, <1>3 DEF Init, IInv, Owned, Published, Looked

(* A probe that scans or is not running owns nothing and has lost nothing. *)
LEMMA Unowned ==
    ASSUME TypeOK, NEW c \in CPU, NEW to \in {"idle", "scan"},
           pc[c] \in {"idle", "scan"}, pc' = [pc EXCEPT ![c] = to]
    PROVE  /\ Owners' = Owners /\ Lost' = Lost
           /\ c \notin Owners
           /\ pc' \in [CPU -> {"idle", "scan", "fill", "publish", "lost"}]
BY DEF TypeOK, Owners, Lost

LEMMA ISwitch ==
    ASSUME IInv, NEW c \in CPU, NEW p \in AnyPid, Switch(c, p)
    PROVE  IInv'
<1>1. TypeOK
  BY DEF IInv
<1>2. /\ pc[c] = "idle" /\ pc' = [pc EXCEPT ![c] = "scan"]
      /\ at' = [at EXCEPT ![c] = 0]
      /\ UNCHANGED <<table, reading, claimed>>
  BY DEF Switch, At
<1>3. /\ Owners' = Owners /\ Lost' = Lost /\ c \notin Owners
      /\ pc' \in [CPU -> {"idle", "scan", "fill", "publish", "lost"}]
  BY <1>1, <1>2, Unowned
<1>4. Clamp(n_tasks) \in 0 .. MaxTracked
  BY <1>1, TableAssumption DEF TypeOK, Clamp
<1>5. TypeOK'
  BY <1>1, <1>2, <1>3, <1>4, SMTT(30) DEF Switch, TypeOK, table, reading
<1>6. \A d \in Owners : at'[d] = at[d]
  BY <1>1, <1>2, <1>3 DEF TypeOK, Owners
<1>7. Tally' /\ Owned' /\ Published'
  BY <1>2, <1>3, <1>6, Undisturbed DEF table
<1> QED
  BY <1>2, <1>5, <1>7 DEF IInv, Looked, reading

(* The three ways a scan goes on or ends without a slot of its own.        *)
LEMMA IScan ==
    ASSUME IInv, NEW c \in CPU, CountMatch(c) \/ Skip(c) \/ TableFull(c)
    PROVE  IInv'
<1>1. TypeOK
  BY DEF IInv
<1>2. PICK to \in {"idle", "scan"} :
          pc[c] = "scan" /\ pc' = [pc EXCEPT ![c] = to]
  BY DEF CountMatch, Skip, TableFull, At
<1>3. /\ Owners' = Owners /\ Lost' = Lost /\ c \notin Owners
      /\ pc' \in [CPU -> {"idle", "scan", "fill", "publish", "lost"}]
  BY <1>1, <1>2, Unowned
<1>4. /\ UNCHANGED <<n_tasks, pid, comm, next, limit, reading, switches,
                     claimed>>
      /\ at' \in [CPU -> Nat] /\ \A d \in Owners : at'[d] = at[d]
  <2>1. CASE Skip(c)
    <3>1. /\ UNCHANGED <<n_tasks, pid, comm, next, limit, reading, switches,
                         claimed>>
          /\ at' = [at EXCEPT ![c] = @ + 1]
      BY <2>1 DEF Skip, table
    <3>2. at \in [CPU -> Nat] /\ Owners \subseteq CPU
      BY <1>1 DEF TypeOK, Owners
    <3> QED
      BY <1>3, <3>1, <3>2
  <2>2. CASE CountMatch(c) \/ TableFull(c)
    <3>1. /\ UNCHANGED <<n_tasks, pid, comm, next, limit, reading, switches,
                         claimed>>
          /\ at' = at
      BY <2>2 DEF CountMatch, TableFull, table
    <3> QED
      BY <1>1, <3>1 DEF TypeOK
  <2> QED
    BY <2>1, <2>2
<1>5. count' \in [Slots -> Nat]
  BY <1>1 DEF CountMatch, Skip, TableFull, table, TypeOK
<1>6. TypeOK'
  BY <1>1, <1>3, <1>4, <1>5 DEF TypeOK, reading
<1>7. Tally' /\ Owned' /\ Published'
  BY <1>3, <1>4, Undisturbed
<1> QED
  BY <1>4, <1>6, <1>7 DEF IInv, Looked, reading

(* The probe gets the first slot never handed out, or it has lost and the  *)
(* table is full already.                                                  *)
LEMMA IReserve ==
    ASSUME IInv, NEW c \in CPU, Reserve(c)
    PROVE  IInv'
<1>1. /\ pc[c] = "scan"
      /\ pc' = [pc EXCEPT ![c] =
                    IF n_tasks < MaxTracked THEN "fill" ELSE "lost"]
      /\ n_tasks' = n_tasks + 1 /\ at' = [at EXCEPT ![c] = n_tasks]
      /\ claimed' = IF n_tasks < MaxTracked THEN claimed + 1 ELSE claimed
      /\ UNCHANGED <<pid, count, comm, next, limit, reader, report, switches>>
  BY DEF Reserve, At, reading
<1>2. /\ TypeOK /\ n_tasks \in Nat /\ MaxTracked \in Nat
      /\ claimed \in 0 .. MaxTracked
  BY TableAssumption DEF IInv, TypeOK
<1>3. TypeOK'
  <2>1. claimed' \in 0 .. MaxTracked /\ n_tasks' \in Nat
    BY <1>1, <1>2, Handed
  <2> QED
    BY <1>1, <1>2, <2>1 DEF TypeOK
<1>4. CASE n_tasks < MaxTracked
  <2>1. claimed = n_tasks /\ Lost = {} /\ claimed' = n_tasks + 1
    BY <1>1, <1>4, Handed
  <2>2. Lost' = {} /\ Owners' = Owners \cup {c}
    BY <1>1, <1>2, <1>4, <2>1 DEF TypeOK, Lost, Owners
  <2>3. Tally'
    BY <1>1, <1>2, <2>1, <2>2, FS_EmptySet DEF Tally, OvershootIsLosers
  <2>4. /\ at'[c] = n_tasks /\ n_tasks \in Slots /\ pid[n_tasks] = Zero
        /\ \A d \in Owners : at'[d] = at[d] /\ at[d] \in Slots
                             /\ at[d] < n_tasks /\ pid[at[d]] = Zero
    <3>1. at'[c] = n_tasks /\ \A d \in CPU : d # c => at'[d] = at[d]
      BY <1>1, <1>2 DEF TypeOK
    <3>2. c \notin Owners
      BY <1>1 DEF Owners
    <3>3. n_tasks \in Slots
      BY <1>2, <1>4 DEF Slots
    <3>4. pid[n_tasks] = Zero
      BY <1>2, <2>1, <3>3 DEF IInv, Published
    <3> QED
      BY <2>1, <3>1, <3>2, <3>3, <3>4 DEF IInv, Owned, Owners
  <2>5. Owned'
    <3>1. \A d \in Owners' :
              at'[d] \in Slots /\ at'[d] < claimed' /\ pid'[at'[d]] = Zero
      BY <1>1, <1>2, <2>1, <2>2, <2>4 DEF Slots
    <3>2. \A d, e \in Owners' : d # e => at'[d] # at'[e]
      BY <1>2, <2>2, <2>4 DEF IInv, Owned, Slots
    <3> QED
      BY <3>1, <3>2 DEF Owned
  <2>6. Published'
    BY <1>1, <1>2, <2>1 DEF IInv, Published, Slots
  <2> QED
    BY <1>1, <1>3, <2>3, <2>5, <2>6 DEF IInv, Looked
<1>5. CASE n_tasks >= MaxTracked
  <2>1. claimed = MaxTracked /\ claimed' = claimed
    BY <1>1, <1>2, <1>5, Handed
  <2>2. Lost' = Lost \cup {c} /\ c \notin Lost /\ Owners' = Owners
    BY <1>1, <1>2, <1>5 DEF TypeOK, Lost, Owners
  <2>3. Cardinality(Lost') = Cardinality(Lost) + 1 /\ Cardinality(Lost) \in Nat
    BY <2>2, LostFinite, FS_AddElement, FS_CardinalityType
  <2>4. Tally'
    BY <1>1, <1>2, <2>1, <2>3 DEF IInv, Tally, OvershootIsLosers
  <2>5. \A d \in Owners : at'[d] = at[d]
    BY <1>1, <1>2 DEF TypeOK, Owners
  <2>6. Owned' /\ Published'
    BY <1>1, <2>1, <2>2, <2>5 DEF IInv, Owned, Published
  <2> QED
    BY <1>1, <1>3, <2>4, <2>6 DEF IInv, Looked
<1> QED
  BY <1>2, <1>4, <1>5

LEMMA IFill ==
    ASSUME IInv, NEW c \in CPU, Fill(c)
    PROVE  IInv'
<1>1. /\ pc[c] = "fill" /\ pc' = [pc EXCEPT ![c] = "publish"]
      /\ comm' = [comm EXCEPT ![at[c]] = next[c]]
      /\ count' = [count EXCEPT ![at[c]] = 1]
      /\ UNCHANGED <<n_tasks, pid, next, limit, at, reader, report, switches,
                     claimed>>
  BY DEF Fill, At, reading
<1>2. TypeOK
  BY DEF IInv
<1>3. Owners' = Owners /\ Lost' = Lost
  BY <1>1, <1>2 DEF TypeOK, Owners, Lost
<1>4. comm' \in [Slots -> AnyPid \cup {NoName}] /\ count' \in [Slots -> Nat]
  BY <1>1, <1>2 DEF TypeOK
<1>5. TypeOK'
  BY <1>1, <1>2, <1>4 DEF TypeOK
<1>6. Tally' /\ Owned' /\ Published'
  BY <1>1, <1>3, Undisturbed
<1> QED
  BY <1>1, <1>5, <1>6 DEF IInv, Looked

(* The slot is the prober's own: no other owner's slot is published by it. *)
LEMMA IPublish ==
    ASSUME IInv, NEW c \in CPU, Publish(c)
    PROVE  IInv'
<1>1. /\ pc[c] = "publish" /\ pc' = [pc EXCEPT ![c] = "idle"]
      /\ pid' = [pid EXCEPT ![at[c]] = next[c]]
      /\ UNCHANGED <<n_tasks, count, comm, next, limit, at, reader, report,
                     switches, claimed>>
  BY DEF Publish, At, reading
<1>2. TypeOK
  BY DEF IInv
<1>3. Owners' = Owners \ {c} /\ c \in Owners /\ Lost' = Lost
  BY <1>1, <1>2 DEF TypeOK, Owners, Lost
<1>4. TypeOK'
  BY <1>1, <1>2 DEF TypeOK
<1>5. Tally'
  BY <1>1, <1>3 DEF IInv, Tally, OvershootIsLosers
<1>6. \A s \in Slots : s # at[c] => pid'[s] = pid[s]
  BY <1>1, <1>2 DEF TypeOK
<1>7. Owned'
  BY <1>1, <1>3, <1>6 DEF IInv, Owned
<1>8. Published'
  BY <1>1, <1>3, <1>6 DEF IInv, Owned, Published
<1> QED
  BY <1>1, <1>4, <1>5, <1>7, <1>8 DEF IInv, Looked

LEMMA IRollBack ==
    ASSUME IInv, NEW c \in CPU, RollBack(c)
    PROVE  IInv'
<1>1. /\ pc[c] = "lost" /\ pc' = [pc EXCEPT ![c] = "idle"]
      /\ n_tasks' = n_tasks - 1
      /\ UNCHANGED <<pid, count, comm, next, limit, at, reader, report,
                     switches, claimed>>
  BY DEF RollBack, At, reading
<1>2. /\ TypeOK /\ n_tasks \in Nat /\ claimed \in Nat
      /\ n_tasks = claimed + Cardinality(Lost)
      /\ Lost # {} => claimed = MaxTracked
  BY TableAssumption DEF IInv, TypeOK, Tally, OvershootIsLosers
<1>3. Owners' = Owners /\ Lost' = Lost \ {c} /\ c \in Lost
  BY <1>1, <1>2 DEF TypeOK, Owners, Lost
<1>4. /\ Cardinality(Lost') = Cardinality(Lost) - 1
      /\ Cardinality(Lost) \in Nat /\ Cardinality(Lost') \in Nat
  BY <1>3, LostFinite, FS_RemoveElement, FS_CardinalityType
<1>5. Tally'
  BY <1>1, <1>2, <1>3, <1>4 DEF Tally, OvershootIsLosers
<1>6. n_tasks' \in Nat
  BY <1>1, <1>2, <1>4
<1>7. TypeOK'
  BY <1>1, <1>2, <1>6 DEF TypeOK
<1>8. Owned' /\ Published'
  BY <1>1, <1>3 DEF IInv, Owned, Published
<1> QED
  BY <1>1, <1>5, <1>7, <1>8 DEF IInv, Looked

(* The report changes nothing a probe looks at.                            *)
LEMMA IRead ==
    ASSUME IInv, ReadStart \/ ReadLook \/ ReadPrint \/ ReadEnd
    PROVE  IInv'
<1>1. UNCHANGED <<table, probe, switches, claimed>>
  BY DEF ReadStart, ReadLook, ReadPrint, ReadEnd
<1>2. TypeOK /\ Looked /\ MaxTracked \in Nat /\ ShowMax \in Nat
  BY TableAssumption DEF IInv
<1>3. /\ reader' \in [pc : {"off", "look", "print"}, limit : 0 .. MaxTracked,
                      at : 0 .. MaxTracked, slot_pid : AnyPid]
      /\ report' \in Seq([pid : AnyPid, comm : AnyPid \cup {NoName},
                          count : Nat])
      /\ Looked'
  <2>1. CASE ReadStart
    <3>1. Lesser(Clamp(n_tasks), ShowMax) \in 0 .. MaxTracked
      BY <1>2 DEF TypeOK, Lesser, Clamp
    <3> QED
      BY <1>2, <2>1, <3>1 DEF ReadStart, TypeOK, Looked, AnyPid
  <2>2. CASE ReadLook
    <3>1. /\ reader.at < reader.limit /\ reader.pc = "look"
          /\ reader.at \in Slots /\ pid[reader.at] \in AnyPid
          /\ reader.at + 1 \in 0 .. MaxTracked /\ report' = report
      BY <1>2, <2>2 DEF ReadLook, TypeOK, Slots
    <3>2. CASE pid[reader.at] = Zero
      BY <1>2, <2>2, <3>1, <3>2 DEF ReadLook, TypeOK, Looked
    <3>3. CASE pid[reader.at] # Zero
      BY <1>2, <2>2, <3>1, <3>3 DEF ReadLook, TypeOK, Looked
    <3> QED
      BY <3>2, <3>3
  <2>3. CASE ReadPrint
    <3>1. /\ reader.pc = "print" /\ reader.at \in Slots
          /\ reader.at + 1 \in 0 .. MaxTracked
          /\ reader' = [reader EXCEPT !.pc = "look", !.at = reader.at + 1]
      BY <1>2, <2>3 DEF ReadPrint, TypeOK, Looked, Slots
    <3>2. [pid |-> reader.slot_pid, comm |-> comm[reader.at],
           count |-> count[reader.at]]
              \in [pid : AnyPid, comm : AnyPid \cup {NoName}, count : Nat]
      BY <1>2, <3>1 DEF TypeOK
    <3> DEFINE Entry == [pid : AnyPid, comm : AnyPid \cup {NoName},
                         count : Nat]
               entry == [pid |-> reader.slot_pid, comm |-> comm[reader.at],
                         count |-> count[reader.at]]
    <3>3. /\ report \in Seq(Entry) /\ entry \in Entry
          /\ report' = report \/ report' = Append(report, entry)
      BY <1>2, <2>3, <3>2 DEF ReadPrint, TypeOK
    <3> HIDE DEF Entry, entry
    <3>4. report' \in Seq(Entry)
      BY <3>3
    <3>5. report' \in Seq([pid : AnyPid, comm : AnyPid \cup {NoName},
                           count : Nat])
      BY <3>4 DEF Entry
    <3> QED
      BY <1>2, <3>1, <3>5 DEF TypeOK, Looked
  <2>4. CASE ReadEnd
    BY <1>2, <2>4 DEF ReadEnd, TypeOK, Looked
  <2> QED
    BY <2>1, <2>2, <2>3, <2>4
<1>4. TypeOK'
  BY <1>1, <1>2, <1>3 DEF TypeOK, table, probe
<1>5. Owners' = Owners /\ Lost' = Lost
  BY <1>1 DEF probe, Owners, Lost
<1>6. Tally' /\ Owned' /\ Published'
  BY <1>1, <1>5, Undisturbed DEF table, probe
<1> QED
  BY <1>3, <1>4, <1>6 DEF IInv

LEMMA NextIInv == IInv /\ [Next]_vars => IInv'
<1> SUFFICES ASSUME IInv, [Next]_vars PROVE IInv'
  OBVIOUS
<1>1. ASSUME NEW c \in CPU, NEW p \in AnyPid, Switch(c, p) PROVE IInv'
  BY <1>1, ISwitch
<1>2. ASSUME NEW c \in CPU, ProbeStep(c) PROVE IInv'
  BY <1>2, IScan, IReserve, IFill, IPublish, IRollBack DEF ProbeStep
<1>3. CASE ReadStart \/ ReadLook \/ ReadPrint \/ ReadEnd
  BY <1>3, IRead
<1>4. CASE UNCHANGED vars
  <2>1. Owners' = Owners /\ Lost' = Lost
    BY <1>4 DEF vars, probe, Owners, Lost
  <2>2. Tally' /\ Owned' /\ Published'
    BY <1>4, <2>1, Undisturbed DEF vars, table, probe
  <2> QED
    BY <1>4, <2>2 DEF IInv, TypeOK, Looked, vars, table, probe, reading
<1> QED
  BY <1>1, <1>2, <1>3, <1>4 DEF Next

LEMMA TableInvariance == Spec => []IInv
BY InitIInv, NextIInv, PTL DEF Spec

(* The table's state keeps its type: no scan or report is given a limit    *)
(* past the end of the table, however far n_tasks overshoots.              *)
THEOREM TableTypeCorrect == Spec => []TypeOK
BY TableInvariance, PTL DEF IInv

(* n_tasks passes the slots handed out by the probes that lost, whose      *)
(* roll-backs are therefore all that is needed.                            *)
THEOREM OvershootCorrect == Spec => []OvershootIsLosers
BY TableInvariance, PTL DEF IInv, Tally

(* No slot has two owners, no owner writes past the table or into a slot   *)
(* that is published, and no roll-back hides a slot in use.                *)
THEOREM SlotsCorrect == Spec => []SlotsExclusive
<1>1. IInv => SlotsExclusive
  <2> SUFFICES ASSUME IInv PROVE SlotsExclusive
    OBVIOUS
  <2>1. claimed <= n_tasks
    BY Handed
  <2>2. n_tasks \in Nat /\ claimed \in Nat /\ MaxTracked \in Nat
    BY TableAssumption DEF IInv, TypeOK
  <2>3. \A c \in Owners :
            at[c] \in Slots /\ at[c] < n_tasks /\ pid[at[c]] = Zero
    BY <2>1, <2>2 DEF IInv, Owned, Slots
  <2>4. \A s \in Slots : pid[s] # Zero => s < n_tasks
    BY <2>1, <2>2 DEF IInv, Published, Slots
  <2> QED
    BY <2>3, <2>4 DEF SlotsExclusive, IInv, Owned
<1> QED
  BY <1>1, TableInvariance, PTL

------------------------------------------------------------------------------
(***************************************************************************)
(* The second invariant, on top of the first: what the table and a report  *)
(* say of the tasks.                                                       *)
(***************************************************************************)

(* A task other than an idle one runs on one processor at most.            *)
Runner ==
    \A c, d \in CPU : next[c] # Zero /\ next[c] = next[d] => c = d

(* A published slot is whole, its count exact and its task in no other.    *)
Entries ==
    \A s \in Slots : pid[s] # Zero =>
        /\ comm[s] = pid[s]
        /\ count[s] > 0
        /\ count[s] + Cardinality(Probing(pid[s])) = switches[pid[s]]
        /\ \A u \in Slots : pid[u] = pid[s] => u = s

(* A scan has the slot of its task still before it; a probe that owns a    *)
(* slot, or came too late for one, has a task without a slot, and an owner *)
(* owns it at the first switch to that task.                               *)
Pending ==
    \A c \in CPU :
        /\ pc[c] = "scan" /\ next[c] # Zero =>
              \A s \in Slots : pid[s] = next[c] => at[c] <= s /\ s < limit[c]
        /\ c \in Owners \cup Lost /\ next[c] # Zero =>
              \A s \in Slots : pid[s] # next[c]
        /\ c \in Owners /\ next[c] # Zero => switches[next[c]] = 1
        /\ pc[c] = "publish" => count[at[c]] = 1 /\ comm[at[c]] = next[c]

(* A switch that ends without a slot has found the table full, and full it *)
(* stays: a task with neither slot nor owner has not been switched to yet, *)
(* or its first probe is under way.                                        *)
Full == \A c \in CPU : limit[c] = MaxTracked => claimed = MaxTracked

Unseen ==
    claimed < MaxTracked =>
        \A p \in Pid :
            /\ \A s \in Slots : pid[s] # p
            /\ \A c \in Owners : next[c] # p
            => switches[p] = Cardinality(Probing(p))

(* A report has printed slots below the one it looks at, each once.        *)
Printed ==
    /\ reader.pc = "print" => /\ reader.slot_pid # Zero
                              /\ reader.slot_pid = pid[reader.at]
    /\ \A i \in DOMAIN report :
          /\ report[i].comm = report[i].pid
          /\ report[i].count > 0
          /\ report[i].pid # Zero
          /\ \E s \in Slots : s < reader.at /\ pid[s] = report[i].pid
          /\ \A j \in DOMAIN report : report[j].pid = report[i].pid => i = j

TInv == Runner /\ Entries /\ Pending /\ Full /\ Unseen /\ Printed

(* Of the probes under way for a task there is one, or none.               *)
LEMMA ProbingCount ==
    ASSUME NEW p
    PROVE  /\ Cardinality(Probing(p)) \in Nat
           /\ Probing(p) = {} => Cardinality(Probing(p)) = 0
           /\ \A c : Probing(p) = {c} => Cardinality(Probing(p)) = 1
<1>1. IsFiniteSet(Probing(p))
  BY TableAssumption, FS_Subset DEF Probing
<1> QED
  BY <1>1, FS_CardinalityType, FS_EmptySet, FS_Singleton

LEMMA ProbingAlone ==
    ASSUME Runner, NEW p, p # Zero, NEW c \in CPU, c \in Probing(p)
    PROVE  Probing(p) = {c}
BY DEF Runner, Probing

(* The report is not disturbed by what leaves the published slots alone.   *)
LEMMA PrintedStays ==
    ASSUME IInv, Printed, UNCHANGED <<reader, report>>,
           \A s \in Slots : pid[s] # Zero => pid'[s] = pid[s]
    PROVE  Printed'
<1>1. reader.pc = "print" => reader.at \in Slots
  BY TableAssumption DEF IInv, TypeOK, Looked, Slots
<1> QED
  BY <1>1 DEF Printed

LEMMA TInit == Init => TInv
<1> SUFFICES ASSUME Init PROVE TInv
  OBVIOUS
<1>1. \A p : Probing(p) = {}
  BY DEF Init, Probing
<1>2. Unseen
  BY <1>1, FS_EmptySet DEF Init, Unseen, AnyPid
<1>3. Runner /\ Entries /\ Pending /\ Full /\ Printed
  BY TableAssumption DEF Init, Runner, Entries, Pending, Full, Printed, Owners
<1> QED
  BY <1>2, <1>3 DEF TInv

LEMMA TSwitch ==
    ASSUME IInv, TInv, NEW c \in CPU, NEW p \in AnyPid, Switch(c, p)
    PROVE  TInv'
<1> USE DEF TInv
<1>1. /\ pc[c] = "idle" /\ pc' = [pc EXCEPT ![c] = "scan"]
      /\ p = Zero \/ \A d \in CPU : next[d] # p
      /\ switches' = [switches EXCEPT ![p] = @ + 1]
      /\ next' = [next EXCEPT ![c] = p]
      /\ limit' = [limit EXCEPT ![c] = Clamp(n_tasks)]
      /\ at' = [at EXCEPT ![c] = 0]
      /\ UNCHANGED <<n_tasks, pid, count, comm, reader, report, claimed>>
  BY DEF Switch, At, table, reading
<1>2. TypeOK /\ Published
  BY DEF IInv
<1>3. /\ pc'[c] = "scan" /\ next'[c] = p /\ at'[c] = 0
      /\ limit'[c] = Clamp(n_tasks)
      /\ \A d \in CPU : d # c =>
            /\ pc'[d] = pc[d] /\ next'[d] = next[d]
            /\ limit'[d] = limit[d] /\ at'[d] = at[d]
      /\ switches'[p] = switches[p] + 1
      /\ \A q \in AnyPid : q # p => switches'[q] = switches[q]
  BY <1>1, <1>2 DEF TypeOK
<1>4. Owners' = Owners /\ Lost' = Lost /\ c \notin Owners \cup Lost
  BY <1>1, <1>3 DEF Owners, Lost
<1>5. \A q : q # p => Probing(q)' = Probing(q)
  BY <1>1, <1>3 DEF Probing
<1>6. p # Zero => Probing(p) = {} /\ Probing(p)' = {c}
  BY <1>1, <1>3 DEF Probing
<1>7. /\ \A q : q # p => Cardinality(Probing(q))' = Cardinality(Probing(q))
      /\ p # Zero => /\ Cardinality(Probing(p)) = 0
                     /\ Cardinality(Probing(p))' = 1
  <2>1. p # Zero => Cardinality(Probing(p)) = 0
    BY <1>6, ProbingCount
  <2>2. p # Zero => Cardinality(Probing(p)') = 1
    BY <1>6, FS_Singleton
  <2> QED
    BY <1>5, <2>1, <2>2
<1>8. Runner'
  BY <1>1, <1>3 DEF Runner
<1>9. Entries'
  <2> SUFFICES ASSUME NEW s \in Slots, NEW q \in AnyPid, q = pid[s], q # Zero
               PROVE  count[s] + Cardinality(Probing(q))' = switches'[q]
    BY <1>1, <1>2 DEF Entries, TypeOK
  <2>1. /\ count[s] \in Nat /\ switches[q] \in Nat
        /\ Cardinality(Probing(q)) \in Nat
        /\ count[s] + Cardinality(Probing(q)) = switches[q]
    BY <1>2, ProbingCount DEF TypeOK, Entries
  <2> QED
    BY <1>3, <1>7, <2>1
<1>10. Pending'
  <2>1. \A s \in Slots : pid[s] # Zero => 0 <= s /\ s < Clamp(n_tasks)
    BY <1>2, Handed, TableAssumption DEF Published, Slots, Clamp, TypeOK
  <2>2. \A d \in CPU :
            /\ pc'[d] = "scan" /\ next'[d] # Zero =>
                  \A s \in Slots : pid[s] = next'[d] =>
                      at'[d] <= s /\ s < limit'[d]
            /\ pc'[d] = "publish" => count[at'[d]] = 1 /\ comm[at'[d]] = next'[d]
    BY <1>3, <2>1 DEF Pending
  <2>3. ASSUME NEW d \in Owners \cup Lost, next'[d] # Zero
        PROVE  /\ \A s \in Slots : pid[s] # next'[d]
               /\ d \in Owners => switches'[next'[d]] = 1
    <3>1. d \in CPU /\ d # c /\ next'[d] = next[d]
      BY <1>3, <1>4 DEF Owners, Lost
    <3>2. next[d] \in AnyPid /\ next[d] # p
      BY <1>1, <1>2, <2>3, <3>1 DEF TypeOK
    <3>3. /\ \A s \in Slots : pid[s] # next[d]
          /\ d \in Owners => switches[next[d]] = 1
      BY <2>3, <3>1 DEF Pending
    <3> QED
      BY <1>3, <3>1, <3>2, <3>3
  <2> QED
    BY <1>1, <1>4, <2>2, <2>3 DEF Pending
<1>11. Full'
  BY <1>1, <1>2, <1>3, Handed, TableAssumption DEF Full, Clamp, TypeOK
<1>12. Unseen'
  <2> SUFFICES ASSUME claimed < MaxTracked, NEW q \in Pid,
                      \A s \in Slots : pid[s] # q,
                      \A d \in Owners : next'[d] # q
               PROVE  switches'[q] = Cardinality(Probing(q))'
    BY <1>1, <1>4 DEF Unseen
  <2>1. switches[q] = Cardinality(Probing(q))
    BY <1>3, <1>4 DEF Unseen, Owners
  <2>2. q # Zero /\ q \in AnyPid
    BY TableAssumption DEF AnyPid
  <2> QED
    BY <1>3, <1>7, <2>1, <2>2
<1>13. Printed'
  BY <1>1, PrintedStays
<1> QED
  BY <1>8, <1>9, <1>10, <1>11, <1>12, <1>13

LEMMA TSkip ==
    ASSUME IInv, TInv, NEW c \in CPU, Skip(c)
    PROVE  TInv'
<1> USE DEF TInv
<1>1. /\ pc[c] = "scan" /\ pc' = [pc EXCEPT ![c] = "scan"]
      /\ pid[at[c]] = Zero \/ pid[at[c]] # next[c]
      /\ at' = [at EXCEPT ![c] = @ + 1]
      /\ UNCHANGED <<n_tasks, pid, count, comm, next, limit, reader, report,
                     switches, claimed>>
  BY DEF Skip, At, table, reading, Matches
<1>2. TypeOK
  BY DEF IInv
<1>3. /\ pc' = pc /\ at'[c] = at[c] + 1 /\ at[c] \in Nat
      /\ \A d \in CPU : d # c => at'[d] = at[d]
  BY <1>1, <1>2 DEF TypeOK
<1>4. /\ Owners' = Owners /\ Lost' = Lost /\ c \notin Owners
      /\ \A q : Probing(q)' = Probing(q)
  BY <1>1, <1>3 DEF Owners, Lost, Probing
<1>5. Runner' /\ Full'
  BY <1>1 DEF Runner, Full
<1>6. Entries'
  BY <1>1, <1>4 DEF Entries
<1>7. Pending'
  <2>1. next[c] # Zero =>
            \A s \in Slots : pid[s] = next[c] => at'[c] <= s /\ s < limit[c]
    BY <1>1, <1>3 DEF Pending, Slots
  <2>2. \A d \in CPU : pc[d] = "publish" => at'[d] = at[d]
    BY <1>1, <1>3
  <2> QED
    BY <1>1, <1>3, <1>4, <2>1, <2>2 DEF Pending
<1>8. Unseen'
  BY <1>1, <1>4 DEF Unseen
<1>9. Printed'
  BY <1>1, PrintedStays
<1> QED
  BY <1>5, <1>6, <1>7, <1>8, <1>9

(* The probe counts its switch where it found its task, and is done.       *)
LEMMA TCountMatch ==
    ASSUME IInv, TInv, NEW c \in CPU, CountMatch(c)
    PROVE  TInv'
<1> USE DEF TInv
<1> DEFINE p == next[c]
<1>1. /\ pc[c] = "scan" /\ pc' = [pc EXCEPT ![c] = "idle"]
      /\ at[c] < limit[c] /\ pid[at[c]] = p /\ p # Zero
      /\ count' = [count EXCEPT ![at[c]] = @ + 1]
      /\ UNCHANGED <<n_tasks, pid, comm, next, limit, at, reader, report,
                     switches, claimed>>
  BY DEF CountMatch, At, reading, Matches
<1>2. TypeOK /\ Owned
  BY DEF IInv
<1>3. at[c] \in Slots /\ p \in AnyPid
  BY <1>1, <1>2, TableAssumption DEF TypeOK, Slots
<1>4. /\ pc'[c] = "idle" /\ \A d \in CPU : d # c => pc'[d] = pc[d]
      /\ count'[at[c]] = count[at[c]] + 1 /\ count[at[c]] \in Nat
      /\ \A s \in Slots : s # at[c] => count'[s] = count[s]
  BY <1>1, <1>2, <1>3 DEF TypeOK
<1>5. Owners' = Owners /\ Lost' = Lost
  BY <1>1, <1>4 DEF Owners, Lost
<1>6. \A q : q # p => Probing(q)' = Probing(q)
  BY <1>1, <1>4 DEF Probing
<1>7. Cardinality(Probing(p)) = 1 /\ Cardinality(Probing(p)') = 0
  <2>1. c \in Probing(p)
    BY <1>1 DEF Probing
  <2> HIDE DEF p
  <2>2. Probing(p) = {c}
    BY <1>1, <2>1, ProbingAlone
  <2>3. Probing(p)' = {}
    BY <1>1, <1>4, <2>2 DEF Probing, p
  <2> QED
    BY <2>2, <2>3, FS_EmptySet, FS_Singleton
<1>8. Runner' /\ Full'
  BY <1>1 DEF Runner, Full
<1>9. Entries'
  <2> SUFFICES ASSUME NEW s \in Slots, NEW q \in AnyPid, q = pid[s], q # Zero
               PROVE  /\ count'[s] > 0
                      /\ count'[s] + Cardinality(Probing(q)') = switches[q]
    BY <1>1, <1>2 DEF Entries, TypeOK
  <2>1. /\ count[s] \in Nat /\ switches[q] \in Nat
        /\ Cardinality(Probing(q)) \in Nat /\ count[s] > 0
        /\ count[s] + Cardinality(Probing(q)) = switches[q]
        /\ q = p => s = at[c]
    BY <1>1, <1>2, <1>3, ProbingCount DEF TypeOK, Entries
  <2>2. CASE q = p
    <3>1. Cardinality(Probing(q)) = 1 /\ Cardinality(Probing(q)') = 0
      BY <1>1, <1>7, <2>2
    <3> QED
      BY <1>4, <2>1, <2>2, <3>1
  <2>3. CASE q # p
    BY <1>1, <1>4, <1>6, <2>1, <2>3
  <2> QED
    BY <2>2, <2>3
<1>10. Pending'
  <2>1. \A d \in Owners : count'[at[d]] = count[at[d]]
    BY <1>1, <1>2, <1>4 DEF Owned
  <2>2. \A d \in CPU : pc[d] = "publish" => d \in Owners
    BY DEF Owners
  <2> QED
    BY <1>1, <1>4, <1>5, <2>1, <2>2 DEF Pending
<1>11. Unseen'
  <2> SUFFICES ASSUME claimed < MaxTracked, NEW q \in Pid,
                      \A s \in Slots : pid[s] # q, \A d \in Owners : next[d] # q
               PROVE  switches[q] = Cardinality(Probing(q)')
    BY <1>1, <1>5 DEF Unseen
  <2>1. q # p
    BY <1>1, <1>3
  <2> QED
    BY <1>6, <2>1 DEF Unseen
<1>12. Printed'
  BY <1>1, PrintedStays
<1> QED
  BY <1>8, <1>9, <1>10, <1>11, <1>12

(* A switch that is counted nowhere finds the table full, and its task has *)
(* no slot whose count would be short.                                     *)
LEMMA TUncounted ==
    ASSUME IInv, TInv, NEW c \in CPU, TableFull(c) \/ RollBack(c)
    PROVE  TInv'
<1> USE DEF TInv
<1> DEFINE p == next[c]
<1>1. /\ pc[c] \in {"scan", "lost"} /\ pc' = [pc EXCEPT ![c] = "idle"]
      /\ UNCHANGED <<pid, count, comm, next, limit, at, reader, report,
                     switches, claimed>>
  BY DEF TableFull, RollBack, At, table, reading
<1>2. TypeOK
  BY DEF IInv
<1>3. claimed = MaxTracked
  <2>1. CASE TableFull(c)
    BY <2>1 DEF TableFull, Full
  <2>2. CASE RollBack(c)
    <3>1. c \in Lost
      BY <2>2 DEF RollBack, At, Lost
    <3> QED
      BY <3>1 DEF IInv, Tally, OvershootIsLosers
  <2> QED
    BY <2>1, <2>2
<1>4. p # Zero => \A s \in Slots : pid[s] # p
  <2>1. CASE TableFull(c)
    <3>1. pc[c] = "scan" /\ at[c] = limit[c]
      BY <2>1 DEF TableFull, At
    <3> QED
      BY <1>2, <3>1, TableAssumption DEF Pending, Slots, TypeOK
  <2>2. CASE RollBack(c)
    <3>1. c \in Lost
      BY <2>2 DEF RollBack, At, Lost
    <3> QED
      BY <3>1 DEF Pending
  <2> QED
    BY <2>1, <2>2
<1>5. pc'[c] = "idle" /\ \A d \in CPU : d # c => pc'[d] = pc[d]
  BY <1>1, <1>2 DEF TypeOK
<1>6. Owners' = Owners /\ Lost' \subseteq Lost
  BY <1>1, <1>5 DEF Owners, Lost
<1>7. \A q : q # p => Probing(q)' = Probing(q)
  BY <1>1, <1>5 DEF Probing
<1>8. Runner' /\ Full'
  BY <1>1 DEF Runner, Full
<1>9. Entries'
  <2> SUFFICES ASSUME NEW s \in Slots, NEW q \in AnyPid, q = pid[s], q # Zero
               PROVE  count[s] + Cardinality(Probing(q)') = switches[q]
    BY <1>1, <1>2 DEF Entries, TypeOK
  <2>1. q # p
    BY <1>4
  <2> QED
    BY <1>7, <2>1 DEF Entries
<1>10. Pending'
  BY <1>1, <1>5, <1>6 DEF Pending
<1>11. Unseen'
  BY <1>1, <1>2, <1>3, TableAssumption DEF Unseen, TypeOK
<1>12. Printed'
  BY <1>1, PrintedStays
<1> QED
  BY <1>8, <1>9, <1>10, <1>11, <1>12

(* A probe that gets a slot is the first of its task: had there been one   *)
(* before, the task would have a slot or an owner, or the table be full.   *)
LEMMA TReserve ==
    ASSUME IInv, TInv, NEW c \in CPU, Reserve(c)
    PROVE  TInv'
<1> USE DEF TInv
<1> DEFINE p == next[c]
           to == IF n_tasks < MaxTracked THEN "fill" ELSE "lost"
<1>1. /\ pc[c] = "scan" /\ pc' = [pc EXCEPT ![c] = to]
      /\ at[c] = limit[c]
      /\ at' = [at EXCEPT ![c] = n_tasks]
      /\ claimed' = IF n_tasks < MaxTracked THEN claimed + 1 ELSE claimed
      /\ UNCHANGED <<pid, count, comm, next, limit, reader, report, switches>>
  BY DEF Reserve, At, reading
<1>2. TypeOK
  BY DEF IInv
<1>3. /\ pc'[c] = to /\ to \in {"fill", "lost"}
      /\ \A d \in CPU : d # c => pc'[d] = pc[d] /\ at'[d] = at[d]
  BY <1>1, <1>2 DEF TypeOK
<1>4. claimed < MaxTracked <=> n_tasks < MaxTracked
  BY <1>2, Handed, TableAssumption DEF TypeOK
<1>5. \A q : Probing(q)' = Probing(q)
  <2> HIDE DEF to
  <2> QED
    BY <1>1, <1>3 DEF Probing
<1>6. p # Zero => \A s \in Slots : pid[s] # p
  BY <1>1, <1>2, TableAssumption DEF Pending, Slots, TypeOK
<1>7. Runner' /\ Full'
  <2>1. claimed = MaxTracked => claimed' = MaxTracked
    BY <1>1, <1>2, <1>4, TableAssumption DEF TypeOK
  <2> QED
    BY <1>1, <2>1 DEF Runner, Full
<1>8. Entries'
  BY <1>1, <1>5 DEF Entries
<1>9. c \notin Owners
  BY <1>1 DEF Owners
<1>10. Owners' \subseteq Owners \cup {c} /\ Owners \subseteq Owners'
  BY <1>1, <1>3 DEF Owners
<1>11. Lost' \subseteq Lost \cup {c}
  BY <1>3 DEF Lost
<1>12. to = "fill" /\ p # Zero => switches[p] = 1
  <2> SUFFICES ASSUME to = "fill", p # Zero PROVE switches[p] = 1
    OBVIOUS
  <2>1. claimed < MaxTracked
    BY <1>4
  <2>2. p \in Pid
    BY <1>2 DEF TypeOK, AnyPid
  <2>3. \A d \in Owners : next[d] # p
    BY <1>9 DEF Runner, Owners
  <2>4. switches[p] = Cardinality(Probing(p))
    BY <1>6, <2>1, <2>2, <2>3 DEF Unseen
  <2>5. c \in Probing(p)
    BY <1>1 DEF Probing
  <2> HIDE DEF p
  <2>6. Cardinality(Probing(p)) = 1
    BY <2>5, ProbingAlone, ProbingCount
  <2> QED
    BY <2>4, <2>6
<1>13. Pending'
  <2> HIDE DEF to
  <2>1. ASSUME NEW d \in CPU
        PROVE  /\ pc'[d] = "scan" /\ next[d] # Zero =>
                    \A s \in Slots : pid[s] = next[d] =>
                        at'[d] <= s /\ s < limit[d]
               /\ pc'[d] = "publish" => count[at'[d]] = 1 /\ comm[at'[d]] = next[d]
    BY <1>3 DEF Pending
  <2>2. ASSUME NEW d \in Owners' \cup Lost', next[d] # Zero
        PROVE  \A s \in Slots : pid[s] # next[d]
    BY <1>6, <1>10, <1>11, <2>2 DEF Pending, Owners, Lost
  <2>3. ASSUME NEW d \in Owners', next[d] # Zero
        PROVE  switches[next[d]] = 1
    <3>1. CASE d = c
      <4>1. to = "fill"
        BY <1>3, <3>1 DEF Owners
      <4> QED
        BY <1>12, <2>3, <3>1, <4>1
    <3>2. CASE d # c
      BY <1>10, <2>3, <3>2 DEF Pending, Owners
    <3> QED
      BY <3>1, <3>2
  <2> QED
    BY <1>1, <2>1, <2>2, <2>3 DEF Pending
<1>14. Unseen'
  <2>1. claimed' < MaxTracked => claimed < MaxTracked
    BY <1>1, <1>2, <1>4, TableAssumption DEF TypeOK
  <2> QED
    BY <1>1, <1>5, <1>10, <2>1 DEF Unseen
<1>15. Printed'
  BY <1>1, PrintedStays
<1> QED
  BY <1>7, <1>8, <1>13, <1>14, <1>15

LEMMA TFill ==
    ASSUME IInv, TInv, NEW c \in CPU, Fill(c)
    PROVE  TInv'
<1> USE DEF TInv
<1>1. /\ pc[c] = "fill" /\ pc' = [pc EXCEPT ![c] = "publish"]
      /\ comm' = [comm EXCEPT ![at[c]] = next[c]]
      /\ count' = [count EXCEPT ![at[c]] = 1]
      /\ UNCHANGED <<n_tasks, pid, next, limit, at, reader, report, switches,
                     claimed>>
  BY DEF Fill, At, reading
<1>2. TypeOK /\ Owned
  BY DEF IInv
<1>3. c \in Owners /\ at[c] \in Slots /\ pid[at[c]] = Zero
  BY <1>1, <1>2 DEF Owners, Owned
<1>4. /\ pc'[c] = "publish" /\ \A d \in CPU : d # c => pc'[d] = pc[d]
      /\ comm'[at[c]] = next[c] /\ count'[at[c]] = 1
      /\ \A s \in Slots : s # at[c] => count'[s] = count[s] /\ comm'[s] = comm[s]
  BY <1>1, <1>2, <1>3 DEF TypeOK
<1>5. Owners' = Owners /\ Lost' = Lost
  BY <1>1, <1>4 DEF Owners, Lost
<1>6. \A q : Probing(q)' = Probing(q)
  BY <1>1, <1>4 DEF Probing
<1>7. Runner' /\ Full' /\ Unseen'
  BY <1>1, <1>5, <1>6 DEF Runner, Full, Unseen
<1>8. Entries'
  BY <1>1, <1>3, <1>4, <1>6 DEF Entries
<1>9. Pending'
  <2>1. \A d \in CPU : pc[d] = "publish" =>
            d \in Owners /\ d # c /\ at[d] \in Slots /\ at[d] # at[c]
    BY <1>1, <1>2, <1>3 DEF Owners, Owned
  <2>2. \A d \in CPU : pc'[d] = "publish" =>
            count'[at[d]] = 1 /\ comm'[at[d]] = next[d]
    BY <1>4, <2>1 DEF Pending
  <2>3. \A d \in CPU : pc'[d] = "scan" => pc[d] = "scan"
    BY <1>4
  <2> QED
    BY <1>1, <1>5, <2>2, <2>3 DEF Pending
<1>10. Printed'
  BY <1>1, PrintedStays
<1> QED
  BY <1>7, <1>8, <1>9, <1>10

(* The slot becomes its task's only one, with its one switch counted.      *)
LEMMA TPublish ==
    ASSUME IInv, TInv, NEW c \in CPU, Publish(c)
    PROVE  TInv'
<1> USE DEF TInv
<1> DEFINE p == next[c]
<1>1. /\ pc[c] = "publish" /\ pc' = [pc EXCEPT ![c] = "idle"]
      /\ pid' = [pid EXCEPT ![at[c]] = p]
      /\ UNCHANGED <<n_tasks, count, comm, next, limit, at, reader, report,
                     switches, claimed>>
  BY DEF Publish, At, reading
<1>2. TypeOK /\ Owned
  BY DEF IInv
<1>3. /\ c \in Owners /\ at[c] \in Slots /\ pid[at[c]] = Zero /\ p \in AnyPid
      /\ count[at[c]] = 1 /\ comm[at[c]] = p
      /\ p # Zero => switches[p] = 1 /\ \A s \in Slots : pid[s] # p
  BY <1>1, <1>2 DEF Owners, Owned, Pending, TypeOK
<1>4. /\ pc'[c] = "idle" /\ \A d \in CPU : d # c => pc'[d] = pc[d]
      /\ pid'[at[c]] = p /\ \A s \in Slots : s # at[c] => pid'[s] = pid[s]
  BY <1>1, <1>2, <1>3 DEF TypeOK
<1>5. Owners' = Owners \ {c} /\ Lost' = Lost
  BY <1>1, <1>4 DEF Owners, Lost
<1>6. \A q : q # p => Probing(q)' = Probing(q)
  BY <1>1, <1>4 DEF Probing
<1>7. p # Zero => Cardinality(Probing(p)') = 0
  <2> SUFFICES ASSUME p # Zero PROVE Probing(p)' = {}
    BY FS_EmptySet
  <2>1. c \in Probing(p)
    BY <1>1 DEF Probing
  <2>2. Probing(p) = {c}
    BY <2>1, ProbingAlone
  <2> QED
    BY <1>1, <1>4, <2>2 DEF Probing
<1>8. Runner' /\ Full'
  BY <1>1 DEF Runner, Full
<1>9. Entries'
  <2> SUFFICES ASSUME NEW s \in Slots, NEW q \in AnyPid, q = pid'[s], q # Zero
               PROVE  /\ comm[s] = q /\ count[s] > 0
                      /\ count[s] + Cardinality(Probing(q)') = switches[q]
                      /\ \A u \in Slots : pid'[u] = q => u = s
    BY <1>1, <1>2, <1>3, <1>4 DEF Entries, TypeOK
  <2>1. CASE s = at[c]
    <3>1. q = p
      BY <1>4, <2>1
    <3>2. Cardinality(Probing(q)') = 0
      BY <1>1, <1>7, <3>1
    <3> QED
      BY <1>3, <1>4, <2>1, <3>1, <3>2
  <2>2. CASE s # at[c]
    <3>1. q = pid[s] /\ q # p
      BY <1>3, <1>4, <2>2
    <3> QED
      BY <1>4, <1>6, <3>1 DEF Entries
  <2> QED
    BY <2>1, <2>2
<1>10. Pending'
  <2>1. \A d \in CPU : d # c /\ next[d] # Zero => next[d] # p
    BY DEF Runner
  <2>2. \A d \in CPU : pc'[d] # "idle" => d # c /\ pc'[d] = pc[d]
    BY <1>4
  <2>3. ASSUME NEW d \in CPU, pc'[d] = "scan", next[d] # Zero,
               NEW s \in Slots, pid'[s] = next[d]
        PROVE  at[d] <= s /\ s < limit[d]
    BY <1>4, <2>1, <2>2, <2>3 DEF Pending
  <2>4. ASSUME NEW d \in CPU, d \in Owners' \cup Lost', next[d] # Zero,
               NEW s \in Slots
        PROVE  pid'[s] # next[d]
    <3>1. d # c /\ d \in Owners \cup Lost
      BY <1>1, <1>5, <2>4 DEF Lost
    <3> QED
      BY <1>4, <2>1, <2>4, <3>1 DEF Pending
  <2>5. \A d \in Owners' : next[d] # Zero => switches[next[d]] = 1
    BY <1>5 DEF Pending, Owners
  <2> QED
    BY <1>1, <2>2, <2>3, <2>4, <2>5 DEF Pending
<1>11. Unseen'
  <2> SUFFICES ASSUME claimed < MaxTracked, NEW q \in Pid,
                      \A s \in Slots : pid'[s] # q,
                      \A d \in Owners' : next[d] # q
               PROVE  switches[q] = Cardinality(Probing(q)')
    BY <1>1 DEF Unseen
  <2>1. q # p /\ q # Zero
    BY <1>3, <1>4, TableAssumption
  <2>2. (\A s \in Slots : pid[s] # q) /\ (\A d \in Owners : next[d] # q)
    BY <1>3, <1>4, <1>5, <2>1
  <2> QED
    BY <1>6, <2>1, <2>2 DEF Unseen
<1>12. Printed'
  <2>1. \A s \in Slots : pid[s] # Zero => pid'[s] = pid[s]
    BY <1>3, <1>4
  <2> QED
    BY <1>1, <2>1, PrintedStays
<1> QED
  BY <1>8, <1>9, <1>10, <1>11, <1>12

(* A slot that is looked at stays as it is until it is printed, and no     *)
(* slot printed before holds the same task.                                *)
LEMMA TRead ==
    ASSUME IInv, TInv, ReadStart \/ ReadLook \/ ReadPrint \/ ReadEnd
    PROVE  TInv'
<1> USE DEF TInv
<1>1. UNCHANGED <<table, probe, switches, claimed>>
  BY DEF ReadStart, ReadLook, ReadPrint, ReadEnd
<1>2. TypeOK /\ Looked
  BY DEF IInv
<1>3. /\ Owners' = Owners /\ Lost' = Lost
      /\ \A q : Probing(q)' = Probing(q)
  BY <1>1 DEF probe, Owners, Lost, Probing
<1>4. Runner' /\ Full' /\ Unseen'
  BY <1>1, <1>3 DEF table, probe, Runner, Full, Unseen
<1>5. Entries' /\ Pending'
  BY <1>1, <1>3 DEF table, probe, Entries, Pending
<1>6. pid' = pid /\ reader.at \in Nat
  BY <1>1, <1>2, TableAssumption DEF table, TypeOK
<1>7. Printed'
  <2>1. CASE ReadStart
    BY <2>1 DEF ReadStart, Printed
  <2>2. CASE ReadLook
    <3>1. /\ report' = report /\ reader'.at \in {reader.at, reader.at + 1}
          /\ reader'.pc = "print" => /\ reader'.slot_pid # Zero
                                     /\ reader'.slot_pid = pid[reader'.at]
      BY <1>2, <2>2 DEF ReadLook, TypeOK
    <3>2. \A s \in Slots : s < reader.at => s < reader'.at
      BY <1>6, <3>1 DEF Slots
    <3> QED
      BY <1>6, <3>1, <3>2 DEF Printed
  <2>3. CASE ReadPrint
    <3> DEFINE a == reader.at
               entry == [pid |-> reader.slot_pid, comm |-> comm[a],
                         count |-> count[a]]
               n == Len(report)
    <3>1. /\ reader.pc = "print" /\ a \in Slots
          /\ reader'.pc = "look" /\ reader'.at = a + 1
          /\ report' = IF count[a] = 0 THEN report ELSE Append(report, entry)
      BY <1>2, <2>3, TableAssumption DEF ReadPrint, TypeOK, Looked, Slots
    <3>2. /\ entry.pid = pid[a] /\ entry.pid # Zero
          /\ entry.comm = entry.pid /\ entry.count > 0
          /\ \A s \in Slots : s < a => pid[s] # pid[a]
      BY <1>6, <3>1 DEF Printed, Entries, Slots
    <3>3. entry.count # 0
      BY <1>2, <3>1, <3>2 DEF TypeOK
    <3>4. report' = Append(report, entry)
      BY <3>1, <3>3
    <3>5. /\ n \in Nat /\ DOMAIN report = 1 .. n /\ DOMAIN report' = 1 .. n + 1
          /\ \A i \in 1 .. n : report'[i] = report[i]
          /\ report'[n + 1] = entry
      BY <1>2, <3>4 DEF TypeOK
    <3> HIDE DEF entry, n
    <3>6. \A i \in 1 .. n : report[i].pid # entry.pid
      BY <3>2, <3>5 DEF Printed
    <3>7. ASSUME NEW i \in 1 .. n + 1
          PROVE  /\ report'[i].comm = report'[i].pid
                 /\ report'[i].count > 0
                 /\ report'[i].pid # Zero
                 /\ \E s \in Slots : s < a + 1 /\ pid[s] = report'[i].pid
                 /\ \A j \in 1 .. n + 1 :
                        report'[j].pid = report'[i].pid => i = j
      <4>1. \A s \in Slots : s < a => s < a + 1
        BY <1>6 DEF Slots
      <4>2. a < a + 1
        BY <1>6
      <4>3. CASE i = n + 1
        <5>1. \A j \in 1 .. n + 1 : report'[j].pid = entry.pid => j = n + 1
          BY <3>5, <3>6
        <5> QED
          BY <3>1, <3>2, <3>5, <4>2, <4>3, <5>1
      <4>4. CASE i \in 1 .. n
        <5>1. /\ report[i].comm = report[i].pid /\ report[i].count > 0
              /\ report[i].pid # Zero
              /\ \E s \in Slots : s < a /\ pid[s] = report[i].pid
              /\ \A j \in 1 .. n : report[j].pid = report[i].pid => i = j
          BY <3>5, <4>4 DEF Printed
        <5>2. \A j \in 1 .. n + 1 : report'[j].pid = report'[i].pid => i = j
          BY <3>5, <3>6, <4>4, <5>1
        <5> QED
          BY <3>5, <4>1, <4>4, <5>1, <5>2
      <4> QED
        BY <3>5, <4>3, <4>4
    <3> QED
      BY <1>6, <3>1, <3>5, <3>7 DEF Printed
  <2>4. CASE ReadEnd
    BY <1>2, <1>6, <2>4 DEF ReadEnd, TypeOK, Printed
  <2> QED
    BY <2>1, <2>2, <2>3, <2>4
<1> QED
  BY <1>4, <1>5, <1>7

LEMMA TNext == IInv /\ TInv /\ [Next]_vars => TInv'
<1> SUFFICES ASSUME IInv, TInv, [Next]_vars PROVE TInv'
  OBVIOUS
<1>1. ASSUME NEW c \in CPU, NEW p \in AnyPid, Switch(c, p) PROVE TInv'
  BY <1>1, TSwitch
<1>2. ASSUME NEW c \in CPU, ProbeStep(c) PROVE TInv'
  BY <1>2, TCountMatch, TSkip, TUncounted, TReserve, TFill, TPublish
     DEF ProbeStep
<1>3. CASE ReadStart \/ ReadLook \/ ReadPrint \/ ReadEnd
  BY <1>3, TRead
<1>4. CASE UNCHANGED vars
  <2>1. Owners' = Owners /\ Lost' = Lost /\ \A q : Probing(q)' = Probing(q)
    BY <1>4 DEF vars, probe, Owners, Lost, Probing
  <2>2. UNCHANGED <<pid, count, comm, pc, next, limit, at, reader, report,
                    switches, claimed>>
    BY <1>4 DEF vars, table, probe, reading
  <2> QED
    BY <2>1, <2>2 DEF TInv, Runner, Entries, Pending, Full, Unseen, Printed
<1> QED
  BY <1>1, <1>2, <1>3, <1>4 DEF Next

LEMMA TaskInvariance == Spec => []TInv
BY TInit, TNext, TableInvariance, PTL DEF Spec

(* No switch to a task that has a slot is lost or counted twice, and no    *)
(* task has two slots, however its scans, its reservation and the probes   *)
(* of other processors interleave.                                         *)
THEOREM CountsCorrect == Spec => []CountsExact
<1>1. TInv => CountsExact
  BY DEF TInv, Entries, CountsExact
<1> QED
  BY <1>1, TaskInvariance, PTL

(* Reading without a lock, a report still prints whole entries only, and   *)
(* each task once.                                                         *)
THEOREM ReportsCorrect == Spec => []ReportsWhole
<1>1. TInv => ReportsWhole
  BY DEF TInv, Printed, ReportsWhole
<1> QED
  BY <1>1, TaskInvariance, PTL
==============================================================================
