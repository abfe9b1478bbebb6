-------------------------------- MODULE Kprobe --------------------------------
(***************************************************************************)
(* The kprobe tool: hackbot_kprobe.c, called by the agents' tool_kprobe    *)
(* and, when the module unloads, by the drop() of hackbot_device.rs. A     *)
(* mutex serialises attaching, detaching and reporting; hits are counted   *)
(* by handlers, which run on any processor and take no lock.               *)
(*                                                                         *)
(* The kernel's kprobe core is external: register_kprobe() fails or arms   *)
(* the probe before it returns, unregister_kprobe() disarms it and then    *)
(* waits for the handlers that are running. Invalid names, failures of     *)
(* memory and what a report says are left out.                             *)
(***************************************************************************)
EXTENDS Integers, FiniteSets

CONSTANTS
    User,       \* agents that use the tool: the patrol and user processes
    Rmmod,      \* the process that unloads the module
    CPU,        \* processors
    Symbol,     \* function names
    NoSymbol,   \* the symbol of a slot that has none
    MaxKprobes, \* MAX_KPROBES
    MaxHits     \* bound on the hits of one attachment

Caller == User \cup {Rmmod}
Nobody == "nobody"

ASSUME KprobeAssumption ==
    /\ Rmmod \notin User
    /\ Nobody \notin Caller
    /\ IsFiniteSet(CPU)
    /\ NoSymbol \notin Symbol
    /\ MaxKprobes \in Nat \ {0}
    /\ MaxHits \in Nat

VARIABLES
    slots,   \* active, symbol and count of each slot
    mutex,   \* the holder of kprobe_mutex, or Nobody
    call,    \* each caller: where it is, its symbol, the slot it is at
    armed,   \* kprobe core: slots whose probe is registered
    handler, \* the slot each processor's handler runs for, or NoSlot
    hits,    \* history: hits of each slot since its probe was registered
    unloaded \* the module is gone

vars == <<slots, mutex, call, armed, handler, hits, unloaded>>

Slot == 0 .. MaxKprobes - 1
NoSlot == MaxKprobes
FreeSlot == [active |-> FALSE, symbol |-> NoSymbol, count |-> 0]
NoCall == [pc |-> "idle", symbol |-> NoSymbol, slot |-> NoSlot]

Probing(symbol) ==
    {s \in Slot : slots[s].active /\ slots[s].symbol = symbol}
Free == {s \in Slot : ~slots[s].active}
First(S) == CHOOSE s \in S : \A t \in S : s <= t

(* The next turn of a loop over the slots.                                 *)
Following(u) == IF call[u].slot = NoSlot THEN 0 ELSE call[u].slot + 1

------------------------------------------------------------------------------
(* The processors: a probed function is called                             *)

Hit(c, s) ==
    /\ s \in armed
    /\ handler[c] = NoSlot
    /\ hits[s] < MaxHits
    /\ handler' = [handler EXCEPT ![c] = s]
    /\ hits' = [hits EXCEPT ![s] = @ + 1]
    /\ UNCHANGED <<slots, mutex, call, armed, unloaded>>

(* hackbot_kprobe_pre_handler *)
PreHandler(c) ==
    /\ handler[c] # NoSlot
    /\ slots' = [slots EXCEPT ![handler[c]].count = @ + 1]
    /\ handler' = [handler EXCEPT ![c] = NoSlot]
    /\ UNCHANGED <<mutex, call, armed, hits, unloaded>>

CoreUnchanged == UNCHANGED <<armed, handler, hits>>

------------------------------------------------------------------------------
(* Calls and the mutex *)

Call(u, op, symbol) ==
    /\ call[u].pc = "idle"
    /\ ~unloaded /\ call[Rmmod].pc = "idle"
    /\ call' = [call EXCEPT ![u] = [NoCall EXCEPT !.pc = op, !.symbol = symbol]]
    /\ CoreUnchanged /\ UNCHANGED <<slots, mutex, unloaded>>

Lock(u, from, to) ==
    /\ call[u].pc = from
    /\ mutex = Nobody
    /\ mutex' = u
    /\ call' = [call EXCEPT ![u].pc = to]
    /\ CoreUnchanged /\ UNCHANGED <<slots, unloaded>>

Goes(u, from, to) ==
    /\ call[u].pc = from
    /\ call' = [call EXCEPT ![u].pc = to]

Returns(u) ==
    /\ mutex' = Nobody
    /\ call' = [call EXCEPT ![u] = NoCall]

------------------------------------------------------------------------------
(* hackbot_kprobe_attach *)

(* Mutation: the dedup loop compares nothing.                              *)
ScanForFree(u) ==
    /\ call[u].pc = "scan"
    /\ \/ /\ Free = {}
          /\ Returns(u) /\ UNCHANGED slots
       \/ /\ Free # {}
          /\ slots' = [slots EXCEPT ![First(Free)] =
                          [FreeSlot EXCEPT !.symbol = call[u].symbol]]
          /\ call' = [call EXCEPT ![u].pc = "register", ![u].slot = First(Free)]
          /\ UNCHANGED mutex
    /\ CoreUnchanged /\ UNCHANGED unloaded

(* -EEXIST, -ENOSPC, or the first free slot is cleared and named.          *)
Scan(u) ==
    /\ call[u].pc = "scan"
    /\ \/ /\ Probing(call[u].symbol) # {} \/ Free = {}
          /\ Returns(u) /\ UNCHANGED slots
       \/ /\ Probing(call[u].symbol) = {} /\ Free # {}
          /\ slots' = [slots EXCEPT ![First(Free)] =
                          [FreeSlot EXCEPT !.symbol = call[u].symbol]]
          /\ call' = [call EXCEPT ![u].pc = "register", ![u].slot = First(Free)]
          /\ UNCHANGED mutex
    /\ CoreUnchanged /\ UNCHANGED unloaded

(* register_kprobe() fails, and the slot is free again, or arms the probe. *)
Register(u) ==
    LET s == call[u].slot
    IN  /\ call[u].pc = "register"
        /\ \/ /\ slots' = [slots EXCEPT ![s] = FreeSlot]
              /\ Returns(u)
              /\ CoreUnchanged
           \/ /\ armed' = armed \cup {s}
              /\ hits' = [hits EXCEPT ![s] = 0]
              /\ call' = [call EXCEPT ![u].pc = "attached"]
              /\ UNCHANGED <<slots, mutex, handler>>
        /\ UNCHANGED unloaded

(* Mutation: the slot is set up once its probe is armed.                   *)
ActivateAfresh(u) ==
    LET s == call[u].slot
    IN  /\ call[u].pc = "attached"
        /\ slots' = [slots EXCEPT ![s].active = TRUE, ![s].count = 0]
        /\ Returns(u)
        /\ CoreUnchanged /\ UNCHANGED unloaded

Activate(u) ==
    /\ call[u].pc = "attached"
    /\ slots' = [slots EXCEPT ![call[u].slot].active = TRUE]
    /\ Returns(u)
    /\ CoreUnchanged /\ UNCHANGED unloaded

------------------------------------------------------------------------------
(* hackbot_kprobe_detach and, for every slot, hackbot_kprobe_cleanup       *)

Find(u) ==
    LET found == Probing(call[u].symbol)
    IN  /\ call[u].pc = "find"
        /\ \/ found = {} /\ Returns(u)
           \/ /\ found # {}
              /\ call' = [call EXCEPT ![u].pc = "disarm", ![u].slot = First(found)]
              /\ UNCHANGED mutex
        /\ CoreUnchanged /\ UNCHANGED <<slots, unloaded>>

(* unregister_kprobe(), first half: no handler starts any more.            *)
Disarm(u) ==
    /\ Goes(u, "disarm", "drain")
    /\ armed' = armed \ {call[u].slot}
    /\ UNCHANGED <<slots, mutex, handler, hits, unloaded>>

(* Mutation: the probe is disarmed, its handlers are not waited for.       *)
DrainNot(u) ==
    /\ Goes(u, "drain", "free")
    /\ CoreUnchanged /\ UNCHANGED <<slots, mutex, unloaded>>

(* unregister_kprobe(), second half.                                       *)
Drain(u) ==
    /\ \A c \in CPU : handler[c] # call[u].slot
    /\ Goes(u, "drain", "free")
    /\ CoreUnchanged /\ UNCHANGED <<slots, mutex, unloaded>>

FreeSymbol(u) ==
    /\ call[u].pc = "free"
    /\ slots' = [slots EXCEPT ![call[u].slot] = FreeSlot]
    /\ IF u = Rmmod
       THEN call' = [call EXCEPT ![u].pc = "next"] /\ UNCHANGED mutex
       ELSE Returns(u)
    /\ CoreUnchanged /\ UNCHANGED unloaded

(* A user's file keeps the module loaded, and the patrol has stopped.      *)
Unload ==
    /\ ~unloaded
    /\ \A u \in Caller : call[u].pc = "idle"
    /\ call' = [call EXCEPT ![Rmmod].pc = "cleanup"]
    /\ CoreUnchanged /\ UNCHANGED <<slots, mutex, unloaded>>

NextSlot ==
    LET left == {t \in Slot : t >= Following(Rmmod) /\ slots[t].active}
    IN  /\ call[Rmmod].pc = "next"
        /\ \/ /\ left # {}
              /\ call' = [call EXCEPT ![Rmmod].pc = "disarm",
                                      ![Rmmod].slot = First(left)]
              /\ UNCHANGED <<mutex, unloaded>>
           \/ /\ left = {}
              /\ Returns(Rmmod)
              /\ unloaded' = TRUE
        /\ CoreUnchanged /\ UNCHANGED slots

------------------------------------------------------------------------------
(* hackbot_kprobe_check: a look at every slot, in order, and a line if it   *)
(* is active; it changes nothing                                           *)

ReportLine(u) ==
    /\ call[u].pc = "report"
    /\ Following(u) < MaxKprobes
    /\ call' = [call EXCEPT ![u].slot = Following(u)]
    /\ CoreUnchanged /\ UNCHANGED <<slots, mutex, unloaded>>

ReportEnd(u) ==
    /\ call[u].pc = "report"
    /\ Following(u) = MaxKprobes
    /\ Returns(u)
    /\ CoreUnchanged /\ UNCHANGED <<slots, unloaded>>

------------------------------------------------------------------------------
Init ==
    /\ slots = [s \in Slot |-> FreeSlot]
    /\ mutex = Nobody
    /\ call = [u \in Caller |-> NoCall]
    /\ armed = {}
    /\ handler = [c \in CPU |-> NoSlot]
    /\ hits = [s \in Slot |-> 0]
    /\ unloaded = FALSE

LockStep(u) ==
    \/ Lock(u, "attach", "scan") \/ Lock(u, "detach", "find")
    \/ Lock(u, "check", "report") \/ Lock(u, "cleanup", "next")

InsideStep(u) ==
    \/ Scan(u) \/ Register(u) \/ Activate(u)
    \/ Find(u) \/ Disarm(u) \/ Drain(u) \/ FreeSymbol(u)
    \/ ReportLine(u) \/ ReportEnd(u)
    \/ u = Rmmod /\ NextSlot

Next ==
    \/ \E c \in CPU : PreHandler(c) \/ \E s \in Slot : Hit(c, s)
    \/ \E u \in User, symbol \in Symbol, op \in {"attach", "detach"} :
          Call(u, op, symbol)
    \/ \E u \in User : Call(u, "check", NoSymbol)
    \/ \E u \in Caller : LockStep(u) \/ InsideStep(u)
    \/ Unload

Spec == Init /\ [][Next]_vars

------------------------------------------------------------------------------

(* Between calls the table says what the kernel does: the active slots are *)
(* the armed probes, no function is probed twice, and none is left armed   *)
(* once the module is gone. No call returns with the mutex.                *)
TableMatchesCore ==
    /\ mutex = Nobody =>
           /\ armed = {s \in Slot : slots[s].active}
           /\ \A s, t \in armed : slots[s].symbol = slots[t].symbol => s = t
           /\ unloaded => armed = {}
    /\ mutex # Nobody => call[mutex].pc # "idle"

(* An attachment counts its own hits, all of them and no other's, from the *)
(* moment the probe is armed, however slots are reused.                    *)
CountsOwnHits ==
    \A s \in armed :
        slots[s].count
            + Cardinality({c \in CPU : handler[c] = s}) = hits[s]

(* While a handler runs, the slot it counts in still has its symbol, and   *)
(* the module is there.                                                    *)
HandlersSafe ==
    \A c \in CPU : handler[c] # NoSlot =>
        ~unloaded /\ slots[handler[c]].symbol # NoSymbol
==============================================================================
