------------------------------- MODULE Console -------------------------------
(***************************************************************************)
(* hackbot_console.c: printk hands every message to hackbot_console_write, *)
(* which copies it into a circular buffer under a raw spinlock;            *)
(* hackbot_console_read copies the most recent bytes out under the same    *)
(* lock.                                                                   *)
(*                                                                         *)
(* A processor runs two nested contexts here: ordinary kernel code, which  *)
(* masks interrupts while it holds the lock, and an NMI, which can still   *)
(* stop that code anywhere and runs to its end before the code resumes.    *)
(* An NMI must therefore never wait for the lock.                          *)
(***************************************************************************)
EXTENDS Integers, Sequences

CONSTANTS
    CPU,       \* processors
    Byte,      \* byte values
    NoByte,    \* content of a cell nobody has written
    Free,      \* the lock has no owner
    BufSize,   \* HACKBOT_CONSOLE_BUF_SIZE
    Messages,  \* texts printk may hand over
    MaxLens,   \* maxlen arguments of readers
    MaxTotal   \* bound: no message is started once this many bytes were
               \* accepted, messages dropped included

ASSUME ConsoleAssumption ==
    /\ BufSize \in Nat \ {0}
    /\ Messages \subseteq Seq(Byte)
    /\ MaxLens \subseteq Nat \ {0}
    /\ MaxTotal \in Nat
    /\ NoByte \notin Byte
    /\ Free \notin CPU \X {"task", "nmi"}

VARIABLES
    buf,    \* console_buf
    head,   \* console_head
    total,  \* console_total
    lock,   \* owner of hackbot_con_lock
    drops,  \* console_nmi_drops
    pc,     \* where each context of each processor is
    text,   \* s[0..count) of each context's current write
    rd,     \* the current read of each processor: want, start, copy_len
    out,    \* bytes copied so far by the current read of each processor
    log,    \* history: every byte ever accepted
    ret     \* what the last completed read of each processor returned

ring == <<buf, head, total, log>>
reader == <<rd, out, ret>>
vars == <<buf, head, total, lock, drops, pc, text, rd, out, log, ret>>

Context == CPU \X {"task", "nmi"}
Cells == 0 .. BufSize - 1

NoRead == [want |-> 0, start |-> 0, len |-> 0]

LastBytes(s, n) == SubSeq(s, Len(s) - n + 1, Len(s))
Lesser(a, b) == IF a < b THEN a ELSE b

(* An NMI runs to completion before the context it stopped goes on.        *)
Running(t) == t[2] = "task" => pc[<<t[1], "nmi">>] = "idle"

At(t, from, to) ==
    /\ Running(t)
    /\ pc[t] = from
    /\ pc' = [pc EXCEPT ![t] = to]

------------------------------------------------------------------------------
(* hackbot_console_write *)

(* Mutation: an over-long message keeps its head.                          *)
WriteCallHead(t, m) ==
    /\ total + drops < MaxTotal
    /\ Len(m) > 0
    /\ At(t, "idle", "lock")
    /\ text' = [text EXCEPT ![t] =
                   IF Len(m) > BufSize THEN SubSeq(m, 1, BufSize) ELSE m]
    /\ UNCHANGED <<ring, lock, drops, reader>>

(* An empty message returns at once; an over-long one keeps its tail.      *)
WriteCall(t, m) ==
    /\ total + drops < MaxTotal
    /\ Len(m) > 0
    /\ At(t, "idle", "lock")
    /\ text' = [text EXCEPT ![t] =
                   IF Len(m) > BufSize THEN LastBytes(m, BufSize) ELSE m]
    /\ UNCHANGED <<ring, lock, drops, reader>>

WriteLock(t) ==
    /\ At(t, "lock", "copy")
    /\ lock = Free
    /\ lock' = t
    /\ UNCHANGED <<ring, drops, text, reader>>

(* Mutation: an NMI spins for the lock.                                    *)
NmiSpins(t) == t[2] = "nmi" /\ pc[t] = "lock" /\ lock # Free /\ UNCHANGED vars

(* trylock failed: the lock is busy, on this processor or on another.      *)
NmiDrop(t) ==
    /\ t[2] = "nmi"
    /\ At(t, "lock", "idle")
    /\ lock # Free
    /\ drops' = drops + 1
    /\ text' = [text EXCEPT ![t] = << >>]
    /\ UNCHANGED <<ring, lock, reader>>

(* Mutation: the first copy is not cut at the end of the buffer.           *)
FirstUncut(t) == Len(text[t])

First(t) == Lesser(BufSize - head, Len(text[t]))

CopyToEnd(t) ==
    /\ At(t, "copy", IF Len(text[t]) > First(t) THEN "wrap" ELSE "publish")
    /\ buf' = [i \in Cells |-> IF i \in head .. head + First(t) - 1
                               THEN text[t][i - head + 1] ELSE buf[i]]
    /\ UNCHANGED <<head, total, log, lock, drops, text, reader>>

CopyWrapped(t) ==
    /\ At(t, "wrap", "publish")
    /\ buf' = [i \in Cells |-> IF i < Len(text[t]) - First(t)
                               THEN text[t][First(t) + i + 1] ELSE buf[i]]
    /\ UNCHANGED <<head, total, log, lock, drops, text, reader>>

Publish(t) ==
    /\ At(t, "publish", "idle")
    /\ head' = (head + Len(text[t])) % BufSize
    /\ total' = total + Len(text[t])
    /\ log' = log \o text[t]
    /\ lock' = Free
    /\ text' = [text EXCEPT ![t] = << >>]
    /\ UNCHANGED <<buf, drops, reader>>

------------------------------------------------------------------------------
(* hackbot_console_read, in process context *)

ReadCall(c, n) ==
    /\ At(<<c, "task">>, "idle", "rlock")
    /\ rd' = [rd EXCEPT ![c].want = n]
    /\ UNCHANGED <<ring, lock, drops, text, out, ret>>

(* Mutation: a short read starts at the oldest byte.                       *)
ReadLockOldest(c) ==
    LET avail == IF total < BufSize THEN total ELSE BufSize
    IN  /\ At(<<c, "task">>, "rlock", "rcopy")
        /\ lock = Free
        /\ lock' = <<c, "task">>
        /\ rd' = [rd EXCEPT ![c].start = (head - avail + BufSize) % BufSize,
                            ![c].len = Lesser(avail, rd[c].want)]
        /\ UNCHANGED <<ring, drops, text, out, ret>>

ReadLock(c) ==
    LET avail == IF total < BufSize THEN total ELSE BufSize
        len == Lesser(avail, rd[c].want)
    IN  /\ At(<<c, "task">>, "rlock", "rcopy")
        /\ lock = Free
        /\ lock' = <<c, "task">>
        /\ rd' = [rd EXCEPT ![c].start = (head - len + BufSize) % BufSize,
                            ![c].len = len]
        /\ UNCHANGED <<ring, drops, text, out, ret>>

ReadByte(c) ==
    /\ At(<<c, "task">>, "rcopy", "rcopy")
    /\ Len(out[c]) < rd[c].len
    /\ out' = [out EXCEPT ![c] =
                  Append(@, buf[(rd[c].start + Len(@)) % BufSize])]
    /\ UNCHANGED <<ring, lock, drops, text, rd, ret>>

ReadUnlock(c) ==
    /\ At(<<c, "task">>, "rcopy", "idle")
    /\ Len(out[c]) = rd[c].len
    /\ ret' = [ret EXCEPT ![c] = out[c]]
    /\ lock' = Free
    /\ rd' = [rd EXCEPT ![c] = NoRead]
    /\ out' = [out EXCEPT ![c] = << >>]
    /\ UNCHANGED <<ring, drops, text>>

------------------------------------------------------------------------------
(* hackbot_console_init: head and total are reset before registration, so  *)
(* no write can run yet.                                                   *)
Init ==
    /\ buf = [i \in Cells |-> NoByte]
    /\ head = 0
    /\ total = 0
    /\ lock = Free
    /\ drops = 0
    /\ pc = [t \in Context |-> "idle"]
    /\ text = [t \in Context |-> << >>]
    /\ rd = [c \in CPU |-> NoRead]
    /\ out = [c \in CPU |-> << >>]
    /\ log = << >>
    /\ ret = [c \in CPU |-> << >>]

WriteStep(t) ==
    WriteLock(t) \/ NmiDrop(t) \/ CopyToEnd(t) \/ CopyWrapped(t) \/ Publish(t)

ReadStep(c) == ReadLock(c) \/ ReadByte(c) \/ ReadUnlock(c)

Next ==
    \/ \E t \in Context, m \in Messages : WriteCall(t, m)
    \/ \E t \in Context : WriteStep(t)
    \/ \E c \in CPU, n \in MaxLens : ReadCall(c, n)
    \/ \E c \in CPU : ReadStep(c)

Spec == Init /\ [][Next]_vars

ContextStep(t) == WriteStep(t) \/ (t[2] = "task" /\ ReadStep(t[1]))

(* A processor keeps executing its code, and the queued spinlock hands     *)
(* itself to waiters in turn: hence strong fairness for taking it.         *)
Fairness == \A t \in Context : SF_vars(ContextStep(t))

FairSpec == Spec /\ Fairness

------------------------------------------------------------------------------
Writing == {t \in Context : pc[t] \in {"copy", "wrap", "publish"}}
Reading == {c \in CPU : pc[<<c, "task">>] = "rcopy"}

(* The shape of the state.                                                 *)
TypeOK ==
    /\ buf \in [Cells -> Byte \cup {NoByte}]
    /\ head \in Cells
    /\ total \in Nat
    /\ lock \in Context \cup {Free}
    /\ drops \in Nat
    /\ pc \in [Context -> {"idle", "lock", "copy", "wrap", "publish",
                           "rlock", "rcopy"}]
    /\ text \in [Context -> Seq(Byte)]
    /\ rd \in [CPU -> [want : Nat, start : Cells, len : 0 .. BufSize]]
    /\ out \in [CPU -> Seq(Byte \cup {NoByte})]
    /\ log \in Seq(Byte)
    /\ ret \in [CPU -> Seq(Byte \cup {NoByte})]

(* The ring always holds the last BufSize bytes of the stream, byte j in   *)
(* cell (j - 1) mod BufSize, whatever lengths were written and wherever    *)
(* they wrapped - except while a writer is between its copies and the      *)
(* update of head, which the lock hides from every reader.                 *)
RingHoldsLastBytes ==
    /\ total = Len(log)
    /\ head = total % BufSize
    /\ Writing = {} =>
          \A j \in 1 .. Len(log) :
              j > Len(log) - BufSize => buf[(j - 1) % BufSize] = log[j]

(* At most one context is inside the critical section, and the lock word   *)
(* says which, even with NMIs entering from above.                         *)
LockOwnership ==
    /\ \A t \in Writing : lock = t
    /\ \A c \in Reading : lock = <<c, "task">>

(* A read never hands out a cell nobody wrote, and each byte it has copied *)
(* is the stream's byte at that position: no torn mixture of two messages. *)
ReadsAreSuffixes ==
    \A c \in Reading : \A i \in 1 .. Len(out[c]) :
        out[c][i] = log[Len(log) - rd[c].len + i]

(* Every write ends, whether accepted or dropped; in particular an NMI     *)
(* that stopped the owner of the lock on its own processor does not wait   *)
(* for it.                                                                 *)
WritesEnd == \A t \in Context : pc[t] = "lock" ~> pc[t] = "idle"

(* The driver implements the byte stream of ConsoleStream.                 *)
Stream == INSTANCE ConsoleStream WITH Readers <- CPU
ImplementsStream == Stream!Spec
==============================================================================
