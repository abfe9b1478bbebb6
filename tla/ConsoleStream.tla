---------------------------- MODULE ConsoleStream ----------------------------
(***************************************************************************)
(* What the dmesg capture of hackbot_console.c promises, without ring,     *)
(* lock or contexts: kernel messages form one byte stream; a message       *)
(* enters the stream whole (an over-long one as its last BufSize bytes) or *)
(* not at all; a read returns the most recent bytes of the stream, as many *)
(* as it asked for and the capture retains.                                *)
(***************************************************************************)
EXTENDS Integers, Sequences

CONSTANTS
    Readers,   \* processors a reader may run on
    Messages,  \* byte strings printk may hand over
    MaxLens,   \* buffer lengths a reader may pass
    BufSize    \* bytes retained

VARIABLES
    log,  \* the stream of bytes accepted so far
    ret   \* what the last completed read of each reader returned

LastBytes(s, n) == SubSeq(s, Len(s) - n + 1, Len(s))

AtMost(s, n) == IF Len(s) > n THEN LastBytes(s, n) ELSE s

Init ==
    /\ log = << >>
    /\ ret = [r \in Readers |-> << >>]

Accept(m) ==
    /\ log' = log \o AtMost(m, BufSize)
    /\ UNCHANGED ret

Return(r, n) ==
    /\ ret' = [ret EXCEPT ![r] = AtMost(AtMost(log, BufSize), n)]
    /\ UNCHANGED log

Next ==
    \/ \E m \in Messages : Accept(m)
    \/ \E r \in Readers, n \in MaxLens : Return(r, n)

Spec == Init /\ [][Next]_<<log, ret>>
==============================================================================
