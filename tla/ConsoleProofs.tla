---------------------------- MODULE ConsoleProofs ----------------------------
(***************************************************************************)
(* Proofs about the console ring, for every size of the ring, number of    *)
(* processors and set of messages.                                         *)
(***************************************************************************)
EXTENDS Console, Lemmas, SequenceTheorems

(* The tail of a text that is too long.                                    *)
LEMMA LastBytesType ==
    ASSUME NEW S, NEW s \in Seq(S), NEW n \in Nat, n <= Len(s)
    PROVE  /\ LastBytes(s, n) \in Seq(S)
           /\ Len(LastBytes(s, n)) = n
           /\ \A i \in 1 .. n : LastBytes(s, n)[i] = s[Len(s) - n + i]
<1>1. Len(s) - n + 1 \in 1 .. Len(s) + 1 /\ Len(s) \in Nat
  BY SMT
<1>2. \A i \in Len(s) - n + 1 .. Len(s) : s[i] \in S
  BY <1>1, SMT
<1>3. /\ SubSeq(s, Len(s) - n + 1, Len(s)) \in Seq(S)
      /\ Len(SubSeq(s, Len(s) - n + 1, Len(s))) = n
      /\ \A i \in 1 .. n : SubSeq(s, Len(s) - n + 1, Len(s))[i] = s[Len(s) - n + i]
  BY <1>1, <1>2, SMT
<1> QED
  BY <1>3 DEF LastBytes

(* The part of a message that enters the stream.                           *)
LEMMA FirstBounds ==
    ASSUME TypeOK, NEW t \in Context
    PROVE  First(t) \in 0 .. Len(text[t]) /\ First(t) <= BufSize - head
BY ConsoleAssumption, SMT DEF TypeOK, First, Lesser, Cells

(* Type correctness.                                                       *)
LEMMA TypeInit == Init => TypeOK
BY ConsoleAssumption, SMT DEF Init, TypeOK, Cells, Context, NoRead

LEMMA TypeNext == TypeOK /\ [Next]_vars => TypeOK'
<1> SUFFICES ASSUME TypeOK, [Next]_vars PROVE TypeOK'
  OBVIOUS
<1> USE ConsoleAssumption
<1>1. ASSUME NEW t \in Context, NEW m \in Messages, WriteCall(t, m)
      PROVE  TypeOK'
  <2>1. m \in Seq(Byte)
    OBVIOUS
  <2>2. Len(m) > BufSize => LastBytes(m, BufSize) \in Seq(Byte)
    BY <2>1, LastBytesType, SMT
  <2>3. text' \in [Context -> Seq(Byte)]
    BY <1>1, <2>1, <2>2 DEF WriteCall, TypeOK
  <2> QED
    BY <1>1, <2>3 DEF WriteCall, At, TypeOK, ring, reader
<1>2. ASSUME NEW t \in Context, WriteLock(t) PROVE TypeOK'
  BY <1>2 DEF WriteLock, At, TypeOK, ring, reader
<1>3. ASSUME NEW t \in Context, NmiDrop(t) PROVE TypeOK'
  BY <1>3 DEF NmiDrop, At, TypeOK, ring, reader
<1>4. ASSUME NEW t \in Context, CopyToEnd(t) PROVE TypeOK'
  <2>1. First(t) \in 0 .. Len(text[t])
    BY FirstBounds
  <2>2. ASSUME NEW i \in head .. head + First(t) - 1
        PROVE  text[t][i - head + 1] \in Byte
    BY <2>1, SMT DEF TypeOK, Cells
  <2>3. buf' \in [Cells -> Byte \cup {NoByte}]
    BY <1>4, <2>2 DEF CopyToEnd, TypeOK
  <2> QED
    BY <1>4, <2>3 DEF CopyToEnd, At, TypeOK, reader
<1>5. ASSUME NEW t \in Context, CopyWrapped(t) PROVE TypeOK'
  <2>1. First(t) \in 0 .. Len(text[t])
    BY FirstBounds
  <2>2. ASSUME NEW i \in Cells, i < Len(text[t]) - First(t)
        PROVE  text[t][First(t) + i + 1] \in Byte
    BY <2>1, <2>2, SMT DEF TypeOK, Cells
  <2>3. buf' \in [Cells -> Byte \cup {NoByte}]
    BY <1>5, <2>2 DEF CopyWrapped, TypeOK
  <2> QED
    BY <1>5, <2>3 DEF CopyWrapped, At, TypeOK, reader
<1>6. ASSUME NEW t \in Context, Publish(t) PROVE TypeOK'
  <2>1. head + Len(text[t]) \in Nat
    BY SMT DEF TypeOK, Cells
  <2>2. head' \in Cells
    BY <1>6, <2>1, DivMod DEF Publish, Cells
  <2>3. total' \in Nat
    BY <1>6, SMT DEF Publish, TypeOK
  <2>4. log' \in Seq(Byte)
    BY <1>6 DEF Publish, TypeOK
  <2>5. text' \in [Context -> Seq(Byte)]
    BY <1>6 DEF Publish, TypeOK
  <2> QED
    BY <1>6, <2>2, <2>3, <2>4, <2>5 DEF Publish, At, TypeOK, reader
<1>7. ASSUME NEW c \in CPU, NEW n \in MaxLens, ReadCall(c, n) PROVE TypeOK'
  <2>1. n \in Nat
    OBVIOUS
  <2>2. <<c, "task">> \in Context
    BY DEF Context
  <2> QED
    BY <1>7, <2>1, <2>2 DEF ReadCall, At, TypeOK, ring
<1>8. ASSUME NEW c \in CPU, ReadLock(c) PROVE TypeOK'
  <2> DEFINE avail == IF total < BufSize THEN total ELSE BufSize
             len == Lesser(avail, rd[c].want)
  <2>1. len \in 0 .. BufSize
    BY SMT DEF TypeOK, Lesser
  <2>2. head - len + BufSize \in Nat
    BY <2>1, SMT DEF TypeOK, Cells
  <2>3. (head - len + BufSize) % BufSize \in Cells
    BY <2>2, DivMod DEF Cells
  <2>4. <<c, "task">> \in Context
    BY DEF Context
  <2>5. rd' = [rd EXCEPT ![c].start = (head - len + BufSize) % BufSize,
                         ![c].len = len]
    BY <1>8 DEF ReadLock
  <2> HIDE DEF len
  <2>6. rd' \in [CPU -> [want : Nat, start : Cells, len : 0 .. BufSize]]
    BY <2>1, <2>3, <2>5, ZenonT(40) DEF TypeOK
  <2> QED
    BY <1>8, <2>4, <2>6 DEF ReadLock, At, TypeOK, ring
<1>9. ASSUME NEW c \in CPU, ReadByte(c) PROVE TypeOK'
  <2>1. rd[c].start + Len(out[c]) \in Nat
    BY SMT DEF TypeOK, Cells
  <2>2. (rd[c].start + Len(out[c])) % BufSize \in Cells
    BY <2>1, DivMod DEF Cells
  <2>3. out' \in [CPU -> Seq(Byte \cup {NoByte})]
    BY <1>9, <2>2 DEF ReadByte, TypeOK
  <2>4. <<c, "task">> \in Context
    BY DEF Context
  <2> QED
    BY <1>9, <2>3, <2>4 DEF ReadByte, At, TypeOK, ring
<1>10. ASSUME NEW c \in CPU, ReadUnlock(c) PROVE TypeOK'
  <2>1. NoRead \in [want : Nat, start : Cells, len : 0 .. BufSize]
    BY SMT DEF NoRead, Cells
  <2>2. <<c, "task">> \in Context
    BY DEF Context
  <2>3. rd' \in [CPU -> [want : Nat, start : Cells, len : 0 .. BufSize]]
    BY <1>10, <2>1 DEF ReadUnlock, TypeOK
  <2>4. out' \in [CPU -> Seq(Byte \cup {NoByte})]
    BY <1>10 DEF ReadUnlock, TypeOK
  <2>5. ret' \in [CPU -> Seq(Byte \cup {NoByte})]
    BY <1>10 DEF ReadUnlock, TypeOK
  <2>6. /\ lock' \in Context \cup {Free}
        /\ pc' \in [Context -> {"idle", "lock", "copy", "wrap", "publish",
                                "rlock", "rcopy"}]
    BY <1>10, <2>2 DEF ReadUnlock, At, TypeOK
  <2>7. UNCHANGED <<buf, head, total, drops, text, log>>
    BY <1>10 DEF ReadUnlock, ring
  <2> QED
    BY <2>3, <2>4, <2>5, <2>6, <2>7 DEF TypeOK
<1>11. CASE UNCHANGED vars
  BY <1>11 DEF vars, TypeOK
<1> QED
  BY <1>1, <1>2, <1>3, <1>4, <1>5, <1>6, <1>7, <1>8, <1>9, <1>10, <1>11
     DEF Next, WriteStep, ReadStep

(* The state always has its shape, whatever is printed and read.           *)
THEOREM TypeCorrect == Spec => []TypeOK
<1>1. TypeOK /\ [Next]_vars => TypeOK'
  BY TypeNext
<1> QED
  BY TypeInit, <1>1, PTL DEF Spec

------------------------------------------------------------------------------
(***************************************************************************)
(* The inductive invariant. A writer appends its text to the stream by     *)
(* degrees; before the copies, between them and after them the ring holds  *)
(* the last bytes of the first so many bytes of the stream it will be.     *)
(***************************************************************************)

(* Ring b holds the last BufSize of the first n bytes of s.                *)
Holds(b, s, n) ==
    \A j \in 1 .. n : j > n - BufSize => b[(j - 1) % BufSize] = s[j]

(* Lock owners, and who may be where.                                      *)
Exclusive ==
    /\ \A t \in Context :
           pc[t] \in {"copy", "wrap", "publish", "rcopy"} => lock = t
    /\ \A t \in Context : pc[t] \in {"rlock", "rcopy"} => t[2] = "task"

(* What a text is while it is being written.                               *)
Fits ==
    \A t \in Context :
        /\ pc[t] \in {"lock", "copy", "wrap", "publish"} =>
               Len(text[t]) \in 1 .. BufSize
        /\ pc[t] = "wrap" => First(t) = BufSize - head

Counters ==
    /\ total = Len(log)
    /\ head = total % BufSize

(* The ring at rest, and at each stage of a write.                         *)
Ring ==
    /\ Writing = {} => Holds(buf, log, Len(log))
    /\ \A t \in Context :
           /\ pc[t] = "copy" => Holds(buf, log \o text[t], Len(log))
           /\ pc[t] = "wrap" => Holds(buf, log \o text[t], Len(log) + First(t))
           /\ pc[t] = "publish" =>
                  Holds(buf, log \o text[t], Len(log) + Len(text[t]))

(* A read in progress walks along the end of the stream.                   *)
Walk ==
    /\ \A c \in CPU \ Reading : out[c] = << >>
    /\ \A c \in Reading :
           /\ rd[c].len <= Len(log)
           /\ rd[c].start = (Len(log) - rd[c].len) % BufSize
           /\ Len(out[c]) <= rd[c].len
           /\ \A i \in 1 .. Len(out[c]) :
                  out[c][i] = log[Len(log) - rd[c].len + i]

IInv == TypeOK /\ Exclusive /\ Fits /\ Counters /\ Ring /\ Walk

(* Copying a run of the stream to where it belongs extends what is held.   *)
LEMMA CopyRun ==
    ASSUME NEW b, NEW d, NEW s, NEW n \in Nat, NEW h \in Cells,
           NEW k \in 0 .. BufSize - h,
           h = n % BufSize,
           Holds(b, s, n),
           \A i \in Cells : d[i] = IF i \in h .. h + k - 1
                                   THEN s[n + (i - h) + 1] ELSE b[i]
    PROVE  Holds(d, s, n + k)
<1> USE ConsoleAssumption
<1> SUFFICES ASSUME NEW j \in 1 .. n + k, j > n + k - BufSize
             PROVE  d[(j - 1) % BufSize] = s[j]
  BY DEF Holds
<1>0. h \in Nat /\ h < BufSize /\ k \in 0 .. BufSize /\ h + k <= BufSize
  BY SMT DEF Cells
<1>1. CASE j > n
  <2> DEFINE i == j - n - 1
  <2>1. i \in 0 .. k - 1 /\ j - 1 = n + i /\ i \in 0 .. BufSize
    BY <1>0, <1>1, SMT
  <2>2. h + i < BufSize /\ h + i \in Cells /\ h + i \in h .. h + k - 1
    BY <1>0, <2>1, SMT DEF Cells
  <2> HIDE DEF i
  <2>3. (n + i) % BufSize = h + i
    BY <2>1, <2>2, ModAdd
  <2>4. (j - 1) % BufSize = h + i
    BY <2>1, <2>3
  <2>5. d[h + i] = s[n + ((h + i) - h) + 1]
    BY <2>2
  <2>6. n + ((h + i) - h) + 1 = j
    BY <2>1, <1>0, SMT
  <2> QED
    BY <2>4, <2>5, <2>6
<1>2. CASE j <= n
  <2> DEFINE c == (j - 1) % BufSize
  <2>1. j - 1 \in Nat
    BY SMT
  <2>2. c \in Cells
    BY <2>1, DivMod DEF Cells
  <2>3. b[c] = s[j]
    <3>1. j \in 1 .. n /\ j > n - BufSize
      BY <1>0, <1>2, SMT
    <3> QED
      BY <3>1 DEF Holds
  <2> HIDE DEF c
  <2>4. ASSUME c \in h .. h + k - 1 PROVE FALSE
    <3> DEFINE i == c - h
               e == n + i - (j - 1)
    <3>1. i \in 0 .. k - 1 /\ c = h + i /\ i \in 0 .. BufSize
      BY <1>0, <2>2, <2>4, SMT DEF Cells
    <3>2. e \in 1 .. BufSize - 1 /\ n + i = (j - 1) + e
      BY <1>0, <1>2, <3>1, SMT
    <3>3. h + i < BufSize
      BY <1>0, <3>1, SMT
    <3> HIDE DEF i, e
    <3>4. (n + i) % BufSize = c
      BY <3>1, <3>3, ModAdd
    <3>5. ((j - 1) + e) % BufSize # (j - 1) % BufSize
      BY <2>1, <3>2, ModDistinct
    <3> QED
      BY <3>2, <3>4, <3>5 DEF c
  <2>5. d[c] = b[c]
    BY <2>2, <2>4
  <2> QED
    BY <2>3, <2>5 DEF c
<1> QED
  BY <1>1, <1>2, SMT

(* A free lock means that nobody is inside; an owner is there alone.       *)
LEMMA LockFree ==
    ASSUME TypeOK, Exclusive, lock = Free
    PROVE  \A t \in Context : pc[t] \notin {"copy", "wrap", "publish", "rcopy"}
BY ConsoleAssumption DEF Exclusive, Context

LEMMA Alone ==
    ASSUME TypeOK, Exclusive, NEW t \in Context,
           pc[t] \in {"copy", "wrap", "publish", "rcopy"}
    PROVE  \A u \in Context :
               pc[u] \in {"copy", "wrap", "publish", "rcopy"} => u = t
BY DEF Exclusive

(* A stream keeps its bytes when a text is appended.                       *)
LEMMA Appended ==
    ASSUME TypeOK, NEW t \in Context
    PROVE  /\ log \in Seq(Byte) /\ text[t] \in Seq(Byte)
           /\ Len(log) \in Nat /\ Len(text[t]) \in Nat
           /\ log \o text[t] \in Seq(Byte)
           /\ Len(log \o text[t]) = Len(log) + Len(text[t])
           /\ \A j \in 1 .. Len(log) : (log \o text[t])[j] = log[j]
           /\ \A i \in 1 .. Len(text[t]) :
                  (log \o text[t])[Len(log) + i] = text[t][i]
BY SMT DEF TypeOK

(* The invariant holds at the start, when nothing has been written.        *)
LEMMA IInit == Init => IInv
<1> SUFFICES ASSUME Init PROVE IInv
  OBVIOUS
<1> USE ConsoleAssumption
<1>1. TypeOK
  BY TypeInit
<1>2. Exclusive /\ Fits
  BY DEF Init, Exclusive, Fits
<1>3. Counters
  BY ModSmall, SMT DEF Init, Counters
<1>4. Ring
  BY DEF Init, Ring, Holds
<1>5. Walk
  BY DEF Init, Walk, Reading, Context
<1> QED
  BY <1>1, <1>2, <1>3, <1>4, <1>5 DEF IInv

(* A writer that calls, waits, takes the lock or gives up touches neither  *)
(* ring nor stream.                                                        *)
LEMMA IWriteCall ==
    ASSUME IInv, NEW t \in Context, NEW m \in Messages, WriteCall(t, m), TypeOK'
    PROVE  IInv'
<1> USE ConsoleAssumption DEF IInv
<1>1. /\ pc[t] = "idle" /\ pc' = [pc EXCEPT ![t] = "lock"]
      /\ text' = [text EXCEPT ![t] =
                     IF Len(m) > BufSize THEN LastBytes(m, BufSize) ELSE m]
      /\ UNCHANGED <<buf, head, total, log, lock, rd, out>>
  BY DEF WriteCall, At, ring, reader
<1>2. Exclusive'
  BY <1>1 DEF Exclusive, TypeOK
<1>3. Fits'
  <2>1. Len(text'[t]) \in 1 .. BufSize
    <3>1. m \in Seq(Byte) /\ Len(m) \in Nat /\ Len(m) > 0
      BY SMT DEF WriteCall
    <3>2. CASE Len(m) > BufSize
      <4>1. Len(LastBytes(m, BufSize)) = BufSize
        BY <3>1, <3>2, LastBytesType, SMT
      <4> QED
        BY <1>1, <3>2, <4>1 DEF TypeOK
    <3>3. CASE ~(Len(m) > BufSize)
      BY <1>1, <3>1, <3>3, SMT DEF TypeOK
    <3> QED
      BY <3>2, <3>3
  <2>2. \A u \in Context : u # t => text'[u] = text[u] /\ pc'[u] = pc[u]
    BY <1>1 DEF TypeOK
  <2>3. pc'[t] = "lock"
    BY <1>1 DEF TypeOK
  <2> QED
    BY <1>1, <2>1, <2>2, <2>3 DEF Fits, First
<1>4. Counters'
  BY <1>1 DEF Counters
<1>5. Writing' = Writing /\ Reading' = Reading
  BY <1>1 DEF Writing, Reading, TypeOK, Context
<1>6. Ring'
  <2>1. \A u \in Context : u # t => text'[u] = text[u] /\ pc'[u] = pc[u]
    BY <1>1 DEF TypeOK
  <2>2. pc'[t] = "lock"
    BY <1>1 DEF TypeOK
  <2> QED
    BY <1>1, <1>5, <2>1, <2>2 DEF Ring, First
<1>7. Walk'
  BY <1>1, <1>5 DEF Walk
<1> QED
  BY <1>2, <1>3, <1>4, <1>6, <1>7

LEMMA IWriteLock ==
    ASSUME IInv, NEW t \in Context, WriteLock(t), TypeOK'
    PROVE  IInv'
<1> USE ConsoleAssumption DEF IInv
<1>1. /\ pc[t] = "lock" /\ pc' = [pc EXCEPT ![t] = "copy"]
      /\ lock = Free /\ lock' = t
      /\ UNCHANGED <<buf, head, total, log, text, rd, out>>
  BY DEF WriteLock, At, ring, reader
<1>2. \A u \in Context : pc[u] \notin {"copy", "wrap", "publish", "rcopy"}
  BY <1>1, LockFree
<1>3. Exclusive'
  BY <1>1, <1>2 DEF Exclusive, TypeOK
<1>4. Fits'
  BY <1>1 DEF Fits, First, TypeOK
<1>5. Counters'
  BY <1>1 DEF Counters
<1>6. Holds(buf, log, Len(log))
  BY <1>2 DEF Ring, Writing
<1>7. Ring'
  <2>1. Holds(buf, log \o text[t], Len(log))
    BY <1>6, Appended DEF Holds
  <2>2. Writing' # {}
    BY <1>1 DEF Writing, TypeOK
  <2>3. \A u \in Context : u # t => pc'[u] = pc[u]
    BY <1>1 DEF TypeOK
  <2>4. pc'[t] = "copy"
    BY <1>1 DEF TypeOK
  <2> QED
    BY <1>1, <1>2, <2>1, <2>2, <2>3, <2>4 DEF Ring
<1>8. Walk'
  <2>1. Reading' = Reading
    BY <1>1 DEF Reading, TypeOK, Context
  <2> QED
    BY <1>1, <2>1 DEF Walk
<1> QED
  BY <1>3, <1>4, <1>5, <1>7, <1>8

LEMMA INmiDrop ==
    ASSUME IInv, NEW t \in Context, NmiDrop(t), TypeOK'
    PROVE  IInv'
<1> USE ConsoleAssumption DEF IInv
<1>1. /\ pc[t] = "lock" /\ pc' = [pc EXCEPT ![t] = "idle"]
      /\ text' = [text EXCEPT ![t] = << >>]
      /\ UNCHANGED <<buf, head, total, log, lock, rd, out>>
  BY DEF NmiDrop, At, ring, reader
<1>2. \A u \in Context : u # t => text'[u] = text[u] /\ pc'[u] = pc[u]
  BY <1>1 DEF TypeOK
<1>3. pc'[t] = "idle"
  BY <1>1 DEF TypeOK
<1>4. Exclusive'
  BY <1>1, <1>2, <1>3 DEF Exclusive
<1>5. Fits'
  BY <1>1, <1>2, <1>3 DEF Fits, First
<1>6. Counters'
  BY <1>1 DEF Counters
<1>7. Writing' = Writing /\ Reading' = Reading
  BY <1>1 DEF Writing, Reading, TypeOK, Context
<1>8. Ring'
  BY <1>1, <1>2, <1>3, <1>7 DEF Ring, First
<1>9. Walk'
  BY <1>1, <1>7 DEF Walk
<1> QED
  BY <1>4, <1>5, <1>6, <1>8, <1>9

(* The two copies: each extends what the ring holds of the stream-to-be.   *)
LEMMA ICopyToEnd ==
    ASSUME IInv, NEW t \in Context, CopyToEnd(t), TypeOK'
    PROVE  IInv'
<1> USE ConsoleAssumption DEF IInv
<1> DEFINE k == First(t)
           s == log \o text[t]
           n == Len(log)
<1>1. /\ pc[t] = "copy"
      /\ pc' = [pc EXCEPT ![t] = IF Len(text[t]) > k THEN "wrap" ELSE "publish"]
      /\ buf' = [i \in Cells |-> IF i \in head .. head + k - 1
                                 THEN text[t][i - head + 1] ELSE buf[i]]
      /\ UNCHANGED <<head, total, log, lock, text, rd, out>>
  BY DEF CopyToEnd, At, reader
<1>2. /\ k \in 0 .. Len(text[t]) /\ k <= BufSize - head
      /\ Len(text[t]) \in 1 .. BufSize
      /\ k < Len(text[t]) => k = BufSize - head
  BY <1>1, SMT DEF First, Lesser, Fits, TypeOK, Cells
<1>3. pc'[t] = IF Len(text[t]) > k THEN "wrap" ELSE "publish"
  BY <1>1 DEF TypeOK
<1>4. \A u \in Context : u # t => pc'[u] = pc[u]
  BY <1>1 DEF TypeOK
<1>5. \A u \in Context :
          pc[u] \in {"copy", "wrap", "publish", "rcopy"} => u = t
  BY <1>1, Alone
<1>6. Holds(buf', s, n + k)
  <2>1. n \in Nat /\ head \in Cells /\ k \in 0 .. BufSize - head
    BY <1>2, SMT DEF TypeOK, Cells
  <2>2. head = n % BufSize
    BY DEF Counters
  <2>3. Holds(buf, s, n)
    BY <1>1 DEF Ring
  <2>4. ASSUME NEW i \in Cells
        PROVE  buf'[i] = IF i \in head .. head + k - 1
                         THEN s[n + (i - head) + 1] ELSE buf[i]
    <3>1. CASE i \in head .. head + k - 1
      <4>1. i - head + 1 \in 1 .. Len(text[t])
        BY <1>2, <3>1, SMTT(30) DEF TypeOK, Cells
      <4>2. s[n + (i - head + 1)] = text[t][i - head + 1]
        BY <4>1, Appended
      <4>3. n + (i - head + 1) = n + (i - head) + 1
        BY <2>1, SMT DEF Cells
      <4> QED
        BY <1>1, <3>1, <4>2, <4>3
    <3>2. CASE ~(i \in head .. head + k - 1)
      BY <1>1, <3>2
    <3> QED
      BY <3>1, <3>2
  <2> HIDE DEF k, s, n
  <2> QED
    BY <2>1, <2>2, <2>3, <2>4, CopyRun
<1>7. Exclusive'
  BY <1>1, <1>3, <1>4 DEF Exclusive
<1>8. Fits'
  BY <1>1, <1>2, <1>3, <1>4, SMT DEF Fits, First
<1>9. Counters'
  BY <1>1 DEF Counters
<1>10. Ring'
  <2>1. Writing' # {}
    BY <1>3 DEF Writing
  <2>2. Len(text[t]) > k \/ Len(text[t]) = k
    BY <1>2, SMT
  <2> QED
    BY <1>1, <1>3, <1>4, <1>5, <1>6, <2>1, <2>2 DEF Ring, First
<1>11. Walk'
  <2>1. Reading' = Reading
    BY <1>1, <1>3, <1>4 DEF Reading, Context
  <2> QED
    BY <1>1, <2>1 DEF Walk
<1> QED
  BY <1>7, <1>8, <1>9, <1>10, <1>11

LEMMA ICopyWrapped ==
    ASSUME IInv, NEW t \in Context, CopyWrapped(t), TypeOK'
    PROVE  IInv'
<1> USE ConsoleAssumption DEF IInv
<1> DEFINE f == First(t)
           k == Len(text[t]) - f
           s == log \o text[t]
           n == Len(log) + f
<1>1. /\ pc[t] = "wrap" /\ pc' = [pc EXCEPT ![t] = "publish"]
      /\ buf' = [i \in Cells |-> IF i < k THEN text[t][f + i + 1] ELSE buf[i]]
      /\ UNCHANGED <<head, total, log, lock, text, rd, out>>
  BY DEF CopyWrapped, At, reader
<1>2. /\ f = BufSize - head /\ f \in 1 .. BufSize
      /\ f \in 0 .. Len(text[t]) /\ Len(text[t]) \in 1 .. BufSize
  <2>1. f = BufSize - head /\ Len(text[t]) \in 1 .. BufSize
    BY <1>1 DEF Fits
  <2>2. f \in 0 .. Len(text[t])
    BY FirstBounds
  <2>3. head \in 0 .. BufSize - 1 /\ BufSize \in Nat
    BY DEF TypeOK, Cells, ConsoleAssumption
  <2> HIDE DEF f, IInv
  <2> QED
    BY <2>1, <2>2, <2>3, SMT
<1>3. pc'[t] = "publish"
  BY <1>1 DEF TypeOK
<1>4. \A u \in Context : u # t => pc'[u] = pc[u]
  BY <1>1 DEF TypeOK
<1>5. \A u \in Context :
          pc[u] \in {"copy", "wrap", "publish", "rcopy"} => u = t
  BY <1>1, Alone
<1>6. Holds(buf', s, n + k)
  <2>1. n \in Nat /\ 0 \in Cells /\ k \in 0 .. BufSize - 0
    BY <1>2, SMTT(30) DEF TypeOK, Cells
  <2>2. 0 = n % BufSize
    <3> DEFINE h == Len(log) % BufSize
    <3>1. Len(log) \in Nat /\ f \in 0 .. BufSize
      BY <1>2, SMT DEF TypeOK
    <3>2. h + f = BufSize /\ ~(h + f < BufSize)
      BY <1>2, SMT DEF Counters, TypeOK, Cells
    <3> HIDE DEF f
    <3>3. (Len(log) + f) % BufSize
              = IF h + f < BufSize THEN h + f ELSE h + f - BufSize
      BY <3>1, ModAdd
    <3>4. h \in Nat /\ f \in Nat /\ BufSize \in Nat
      BY <3>1, DivMod
    <3> HIDE DEF h
    <3>5. 0 = IF h + f < BufSize THEN h + f ELSE h + f - BufSize
      BY <3>2, <3>4, SMT
    <3> QED
      BY <3>3, <3>5
  <2>3. Holds(buf, s, n)
    BY <1>1 DEF Ring
  <2>4. ASSUME NEW i \in Cells
        PROVE  buf'[i] = IF i \in 0 .. 0 + k - 1
                         THEN s[n + (i - 0) + 1] ELSE buf[i]
    <3>0. i \in 0 .. 0 + k - 1 <=> i < k
      BY <2>1, SMT DEF Cells
    <3>1. CASE i < k
      <4>1. f + i + 1 \in 1 .. Len(text[t])
        BY <1>2, <3>1, SMT DEF Cells
      <4>2. s[Len(log) + (f + i + 1)] = text[t][f + i + 1]
        BY <4>1, Appended
      <4>3. Len(log) + (f + i + 1) = n + (i - 0) + 1
        BY <1>2, SMT DEF TypeOK, Cells
      <4> QED
        BY <1>1, <3>0, <3>1, <4>2, <4>3
    <3>2. CASE ~(i < k)
      BY <1>1, <3>0, <3>2
    <3> QED
      BY <3>1, <3>2
  <2> HIDE DEF k, s, n, f
  <2> QED
    BY <2>1, <2>2, <2>3, <2>4, CopyRun
<1>7. n + k = Len(log) + Len(text[t])
  BY <1>2, SMT DEF TypeOK
<1>8. Exclusive'
  BY <1>1, <1>3, <1>4 DEF Exclusive
<1>9. Fits'
  BY <1>1, <1>3, <1>4 DEF Fits, First
<1>10. Counters'
  BY <1>1 DEF Counters
<1>11. Ring'
  <2>1. Writing' # {}
    BY <1>3 DEF Writing
  <2> QED
    BY <1>1, <1>3, <1>4, <1>5, <1>6, <1>7, <2>1 DEF Ring, First
<1>12. Walk'
  <2>1. Reading' = Reading
    BY <1>1, <1>3, <1>4 DEF Reading, Context
  <2> QED
    BY <1>1, <2>1 DEF Walk
<1> QED
  BY <1>8, <1>9, <1>10, <1>11, <1>12

(* Publication makes the copied text part of the stream.                   *)
LEMMA IPublish ==
    ASSUME IInv, NEW t \in Context, Publish(t), TypeOK'
    PROVE  IInv'
<1> USE ConsoleAssumption DEF IInv
<1>1. /\ pc[t] = "publish" /\ pc' = [pc EXCEPT ![t] = "idle"]
      /\ head' = (head + Len(text[t])) % BufSize
      /\ total' = total + Len(text[t])
      /\ log' = log \o text[t]
      /\ text' = [text EXCEPT ![t] = << >>]
      /\ lock' = Free
      /\ UNCHANGED <<buf, rd, out>>
  BY DEF Publish, At, reader
<1>2. Len(text[t]) \in 0 .. BufSize
  BY <1>1, SMT DEF Fits
<1>3. \A u \in Context : u # t => text'[u] = text[u] /\ pc'[u] = pc[u]
  BY <1>1 DEF TypeOK
<1>4. pc'[t] = "idle"
  BY <1>1 DEF TypeOK
<1>5. \A u \in Context :
          pc[u] \in {"copy", "wrap", "publish", "rcopy"} => u = t
  BY <1>1, Alone
<1>6. \A u \in Context : pc'[u] \notin {"copy", "wrap", "publish", "rcopy"}
  BY <1>3, <1>4, <1>5
<1>7. Len(log') = Len(log) + Len(text[t])
  BY <1>1, Appended
<1>8. Exclusive'
  BY <1>3, <1>4, <1>6 DEF Exclusive
<1>9. Fits'
  <2>1. \A u \in Context : pc'[u] = "lock" => u # t
    BY <1>4
  <2> QED
    BY <1>3, <1>6, <2>1 DEF Fits
<1>10. Counters'
  <2>1. total' = Len(log')
    BY <1>1, <1>7 DEF Counters
  <2> DEFINE l == Len(log)
             k == Len(text[t])
  <2>2. l \in Nat /\ k \in 0 .. BufSize
    BY <1>2, SMT DEF TypeOK
  <2>3. head' = ((l % BufSize) + k) % BufSize
    BY <1>1 DEF Counters
  <2>4. total' = l + k
    BY <1>1 DEF Counters
  <2> HIDE DEF l, k
  <2>5. head' = total' % BufSize
    BY <2>2, <2>3, <2>4, ModModAdd
  <2> QED
    BY <2>1, <2>5 DEF Counters
<1>11. Ring'
  <2>1. Holds(buf, log \o text[t], Len(log) + Len(text[t]))
    BY <1>1 DEF Ring
  <2>2. Holds(buf', log', Len(log'))
    BY <1>1, <1>7, <2>1
  <2> QED
    BY <1>6, <2>2 DEF Ring
<1>12. Walk'
  <2>1. \A c \in CPU : c \notin Reading /\ c \notin Reading'
    BY <1>5, <1>6, <1>1 DEF Reading, Context
  <2> QED
    BY <1>1, <2>1 DEF Walk, Reading
<1> QED
  BY <1>8, <1>9, <1>10, <1>11, <1>12

(* A reader leaves the ring alone.                                         *)
LEMMA IReadCall ==
    ASSUME IInv, NEW c \in CPU, NEW n \in MaxLens, ReadCall(c, n), TypeOK'
    PROVE  IInv'
<1> USE ConsoleAssumption DEF IInv
<1> DEFINE t == <<c, "task">>
<1>0. t \in Context /\ t[1] = c /\ t[2] = "task"
  BY DEF Context
<1>1. /\ pc[t] = "idle" /\ pc' = [pc EXCEPT ![t] = "rlock"]
      /\ rd' = [rd EXCEPT ![c].want = n]
      /\ UNCHANGED <<buf, head, total, log, lock, text, out>>
  BY DEF ReadCall, At, ring
<1> HIDE DEF t
<1>2. pc'[t] = "rlock" /\ \A u \in Context : u # t => pc'[u] = pc[u]
  BY <1>0, <1>1 DEF TypeOK
<1>3. Exclusive'
  BY <1>0, <1>1, <1>2 DEF Exclusive
<1>4. Fits'
  BY <1>1, <1>2 DEF Fits, First
<1>5. Counters'
  BY <1>1 DEF Counters
<1>6. Writing' = Writing
  BY <1>1, <1>2 DEF Writing
<1>7. Ring'
  BY <1>1, <1>2, <1>6 DEF Ring, First
<1>8. Walk'
  <2>1. Reading' = Reading /\ c \notin Reading
    BY <1>0, <1>1, <1>2 DEF Reading, Context, t
  <2>2. \A d \in CPU : d # c => rd'[d] = rd[d]
    BY <1>1 DEF TypeOK
  <2>3. \A d \in Reading : d \in CPU /\ d # c
    BY <2>1 DEF Reading
  <2> QED
    BY <1>1, <2>1, <2>2, <2>3 DEF Walk
<1> QED
  BY <1>3, <1>4, <1>5, <1>7, <1>8

LEMMA IReadLock ==
    ASSUME IInv, NEW c \in CPU, ReadLock(c), TypeOK'
    PROVE  IInv'
<1> USE ConsoleAssumption DEF IInv
<1> DEFINE t == <<c, "task">>
           len == Lesser(IF total < BufSize THEN total ELSE BufSize, rd[c].want)
<1>0. t \in Context /\ t[1] = c /\ t[2] = "task"
  BY DEF Context
<1>1. /\ pc[t] = "rlock" /\ pc' = [pc EXCEPT ![t] = "rcopy"]
      /\ lock = Free /\ lock' = t
      /\ rd' = [rd EXCEPT ![c].start = (head - len + BufSize) % BufSize,
                          ![c].len = len]
      /\ UNCHANGED <<buf, head, total, log, text, out>>
  BY DEF ReadLock, At, ring
<1>2. len \in 0 .. BufSize /\ len <= total
  <2>1. total \in Nat /\ rd[c].want \in Nat
    BY DEF TypeOK
  <2> QED
    BY <2>1, SMT DEF Lesser
<1> HIDE DEF t, len
<1>3. pc'[t] = "rcopy" /\ \A u \in Context : u # t => pc'[u] = pc[u]
  BY <1>0, <1>1 DEF TypeOK
<1>4. \A u \in Context : pc[u] \notin {"copy", "wrap", "publish", "rcopy"}
  BY <1>1, LockFree
<1>5. Exclusive'
  BY <1>0, <1>1, <1>3, <1>4 DEF Exclusive
<1>6. Fits'
  BY <1>1, <1>3 DEF Fits, First
<1>7. Counters'
  BY <1>1 DEF Counters
<1>8. Ring'
  <2>1. Writing' = {} /\ Writing = {}
    BY <1>3, <1>4 DEF Writing
  <2> QED
    BY <1>1, <1>3, <1>4, <2>1 DEF Ring
<1>9. Walk'
  <2>1. Reading' = {c} /\ Reading = {}
    BY <1>0, <1>3, <1>4 DEF Reading, Context, t
  <2>2. out'[c] = << >>
    BY <1>1, <2>1 DEF Walk
  <2>3. rd'[c].len = len /\ rd'[c].start = (head - len + BufSize) % BufSize
    BY <1>1 DEF TypeOK
  <2>4. (head - len + BufSize) % BufSize = (Len(log) - len) % BufSize
    <3> DEFINE l == Len(log)
    <3>1. l \in Nat /\ len <= l /\ head = l % BufSize
      BY <1>2, SMT DEF Counters, TypeOK
    <3> HIDE DEF l
    <3>2. ((l % BufSize) - len + BufSize) % BufSize = (l - len) % BufSize
      BY <1>2, <3>1, ModBack
    <3> QED
      BY <3>1, <3>2 DEF l
  <2>5. len <= Len(log) /\ 0 <= len
    BY <1>2, SMT DEF Counters
  <2>6. log' = log
    BY <1>1
  <2>7. \A d \in CPU : out'[d] = << >>
    BY <1>1, <2>1, <2>2 DEF Walk
  <2>8. Len(out'[c]) = 0
    BY <2>2
  <2>9. /\ rd'[c].len <= Len(log')
        /\ rd'[c].start = (Len(log') - rd'[c].len) % BufSize
        /\ Len(out'[c]) <= rd'[c].len
    BY <2>3, <2>4, <2>5, <2>6, <2>8
  <2>10. 1 .. Len(out'[c]) = {}
    BY <2>8, SMT
  <2> QED
    BY <2>1, <2>7, <2>9, <2>10 DEF Walk
<1> QED
  BY <1>5, <1>6, <1>7, <1>8, <1>9

(* The cell a reader looks at next holds the next byte of the stream.      *)
LEMMA IReadByte ==
    ASSUME IInv, NEW c \in CPU, ReadByte(c), TypeOK'
    PROVE  IInv'
<1> USE ConsoleAssumption DEF IInv
<1> DEFINE t == <<c, "task">>
           k == Len(out[c])
           n == Len(log) - rd[c].len
           x == buf[(rd[c].start + k) % BufSize]
<1>0. t \in Context
  BY DEF Context
<1>1. /\ pc[t] = "rcopy" /\ pc' = pc
      /\ k < rd[c].len
      /\ out' = [out EXCEPT ![c] = Append(out[c], x)]
      /\ UNCHANGED <<buf, head, total, log, lock, text, rd>>
  BY <1>0 DEF ReadByte, At, ring, TypeOK
<1>2. \A u \in Context :
          pc[u] \in {"copy", "wrap", "publish", "rcopy"} => u = t
  BY <1>0, <1>1, Alone
<1>3. c \in Reading /\ Writing = {} /\ Reading' = Reading
  BY <1>0, <1>1, <1>2 DEF Reading, Writing
<1>4. x = log[n + k + 1]
  <2> DEFINE l == Len(log)
             len == rd[c].len
  <2>1. l \in Nat /\ k \in Nat /\ len \in 0 .. BufSize /\ n = l - len
    <3>1. log \in Seq(Byte) /\ out[c] \in Seq(Byte \cup {NoByte})
      BY DEF TypeOK
    <3>2. rd[c] \in [want : Nat, start : Cells, len : 0 .. BufSize]
      BY DEF TypeOK
    <3> QED
      BY <3>1, <3>2
  <2>2. len <= l /\ rd[c].start = n % BufSize /\ k < len
    BY <1>1, <1>3 DEF Walk
  <2>3. Holds(buf, log, l)
    BY <1>3 DEF Ring
  <2>4. x = buf[(rd[c].start + k) % BufSize]
    OBVIOUS
  <2> HIDE DEF l, len, k, n, x
  <2>5. /\ n \in Nat /\ k \in 0 .. BufSize
        /\ n + k + 1 \in 1 .. l /\ n + k + 1 > l - BufSize
        /\ (n + k + 1) - 1 = n + k
    BY <2>1, <2>2, SMT
  <2>6. buf[((n + k + 1) - 1) % BufSize] = log[n + k + 1]
    BY <2>3, <2>5 DEF Holds
  <2>7. ((n % BufSize) + k) % BufSize = (n + k) % BufSize
    BY <2>5, ModModAdd
  <2> QED
    BY <2>2, <2>4, <2>5, <2>6, <2>7
<1>5. Exclusive' /\ Fits' /\ Counters' /\ Ring'
  BY <1>1 DEF Exclusive, Fits, Counters, Ring, First, Writing
<1>6. Walk'
  <2>1. \A d \in CPU : d # c => out'[d] = out[d]
    BY <1>1 DEF TypeOK
  <2>2. out[c] \in Seq(Byte \cup {NoByte}) /\ out'[c] = Append(out[c], x)
    BY <1>1 DEF TypeOK
  <2>3. /\ Len(out'[c]) = k + 1 /\ k \in Nat
        /\ \A i \in 1 .. k : out'[c][i] = out[c][i]
        /\ out'[c][k + 1] = x
    BY <2>2, SMT
  <2>4. ASSUME NEW i \in 1 .. Len(out'[c])
        PROVE  out'[c][i] = log[n + i]
    <3>1. CASE i = k + 1
      <4>0. n \in Int
        BY SMT DEF TypeOK
      <4> HIDE DEF n, k
      <4>1. n + i = n + k + 1
        BY <2>3, <3>1, <4>0, SMT
      <4> QED
        BY <1>4, <2>3, <3>1, <4>1
    <3>2. CASE i \in 1 .. k
      BY <1>3, <2>3, <3>2 DEF Walk
    <3> QED
      BY <2>3, <3>1, <3>2, SMT
  <2>5. Len(out'[c]) <= rd[c].len
    BY <1>1, <2>3, SMT DEF TypeOK
  <2> HIDE DEF x, k
  <2> QED
    BY <1>1, <1>3, <2>1, <2>4, <2>5 DEF Walk
<1> QED
  BY <1>5, <1>6

LEMMA IReadUnlock ==
    ASSUME IInv, NEW c \in CPU, ReadUnlock(c), TypeOK'
    PROVE  IInv'
<1> USE ConsoleAssumption DEF IInv
<1> DEFINE t == <<c, "task">>
<1>0. t \in Context
  BY DEF Context
<1>1. /\ pc[t] = "rcopy" /\ pc' = [pc EXCEPT ![t] = "idle"]
      /\ lock' = Free
      /\ rd' = [rd EXCEPT ![c] = NoRead]
      /\ out' = [out EXCEPT ![c] = << >>]
      /\ UNCHANGED <<buf, head, total, log, text>>
  BY DEF ReadUnlock, At, ring
<1>2. \A u \in Context :
          pc[u] \in {"copy", "wrap", "publish", "rcopy"} => u = t
  BY <1>0, <1>1, Alone
<1> HIDE DEF t
<1>3. pc'[t] = "idle" /\ \A u \in Context : u # t => pc'[u] = pc[u]
  BY <1>0, <1>1 DEF TypeOK
<1>4. \A u \in Context : pc'[u] \notin {"copy", "wrap", "publish", "rcopy"}
  BY <1>2, <1>3
<1>5. Exclusive'
  BY <1>3, <1>4 DEF Exclusive
<1>6. Fits'
  BY <1>1, <1>3 DEF Fits, First
<1>7. Counters'
  BY <1>1 DEF Counters
<1>8. Ring'
  <2>1. Writing' = {} /\ Writing = {}
    BY <1>1, <1>2, <1>4 DEF Writing
  <2> QED
    BY <1>1, <1>4, <2>1 DEF Ring
<1>9. Walk'
  <2>1. Reading' = {} /\ Reading \subseteq {c}
    BY <1>2, <1>4 DEF Reading, Context, t
  <2>2. \A d \in CPU : out'[d] = << >>
    BY <1>1, <2>1 DEF Walk, TypeOK
  <2> QED
    BY <2>1, <2>2 DEF Walk
<1> QED
  BY <1>5, <1>6, <1>7, <1>8, <1>9

(* Every step keeps the invariant.                                         *)
LEMMA IInvNext == IInv /\ [Next]_vars => IInv'
<1> SUFFICES ASSUME IInv, [Next]_vars PROVE IInv'
  OBVIOUS
<1>0. TypeOK'
  BY TypeNext DEF IInv
<1>1. ASSUME NEW t \in Context, NEW m \in Messages, WriteCall(t, m) PROVE IInv'
  BY <1>0, <1>1, IWriteCall
<1>2. ASSUME NEW t \in Context, WriteStep(t) PROVE IInv'
  <2>1. CASE WriteLock(t)
    BY <1>0, <2>1, IWriteLock
  <2>2. CASE NmiDrop(t)
    BY <1>0, <2>2, INmiDrop
  <2>3. CASE CopyToEnd(t)
    BY <1>0, <2>3, ICopyToEnd
  <2>4. CASE CopyWrapped(t)
    BY <1>0, <2>4, ICopyWrapped
  <2>5. CASE Publish(t)
    BY <1>0, <2>5, IPublish
  <2> QED
    BY <1>2, <2>1, <2>2, <2>3, <2>4, <2>5 DEF WriteStep
<1>3. ASSUME NEW c \in CPU, NEW n \in MaxLens, ReadCall(c, n) PROVE IInv'
  BY <1>0, <1>3, IReadCall
<1>4. ASSUME NEW c \in CPU, ReadStep(c) PROVE IInv'
  <2>1. CASE ReadLock(c)
    BY <1>0, <2>1, IReadLock
  <2>2. CASE ReadByte(c)
    BY <1>0, <2>2, IReadByte
  <2>3. CASE ReadUnlock(c)
    BY <1>0, <2>3, IReadUnlock
  <2> QED
    BY <1>4, <2>1, <2>2, <2>3 DEF ReadStep
<1>5. CASE UNCHANGED vars
  BY <1>5, <1>0, ZenonT(40) DEF vars, IInv, Exclusive, Fits, First, Counters, Ring, Holds,
                    Walk, Writing, Reading
<1> QED
  BY <1>1, <1>2, <1>3, <1>4, <1>5 DEF Next

LEMMA Invariance == Spec => []IInv
<1> QED
  BY IInit, IInvNext, PTL DEF Spec

------------------------------------------------------------------------------
(* The ring holds the last BufSize bytes of the stream whenever no writer  *)
(* is between its copies and the update of head.                           *)
THEOREM RingCorrect == Spec => []RingHoldsLastBytes
<1>1. IInv => RingHoldsLastBytes
  BY DEF IInv, Counters, Ring, Holds, RingHoldsLastBytes
<1> QED
  BY Invariance, <1>1, PTL

(* Contexts inside the critical section own the lock, NMIs included.       *)
THEOREM LockOwned == Spec => []LockOwnership
<1>1. IInv => LockOwnership
  BY DEF IInv, Exclusive, LockOwnership, Writing, Reading, Context
<1> QED
  BY Invariance, <1>1, PTL

(* What a reader has copied is a contiguous piece of the stream's end.     *)
THEOREM ReadsCorrect == Spec => []ReadsAreSuffixes
<1>1. IInv => ReadsAreSuffixes
  BY DEF IInv, Walk, ReadsAreSuffixes
<1> QED
  BY Invariance, <1>1, PTL

------------------------------------------------------------------------------
(***************************************************************************)
(* The driver implements the byte stream of ConsoleStream: publishing a    *)
(* write is Accept, unlocking a read is Return, every other step stutters. *)
(* Beyond IInv, the mapping has to know where a text came from and how     *)
(* much of the stream a read has to deliver.                               *)
(***************************************************************************)
Origins ==
    /\ \A t \in Context :
           pc[t] \in {"lock", "copy", "wrap", "publish"} =>
               \E m \in Messages : text[t] = Stream!AtMost(m, BufSize)
    /\ \A c \in CPU :
           pc[<<c, "task">>] \in {"rlock", "rcopy"} => rd[c].want \in MaxLens
    /\ \A c \in Reading :
           rd[c].len = Lesser(Lesser(total, BufSize), rd[c].want)

LEMMA OriginsInit == Init => Origins
BY DEF Init, Origins, Context, Reading

LEMMA OriginsNext == IInv /\ Origins /\ [Next]_vars => Origins'
<1> SUFFICES ASSUME IInv, Origins, [Next]_vars PROVE Origins'
  OBVIOUS
<1> USE ConsoleAssumption
<1>0. TypeOK /\ Exclusive /\ TypeOK'
  BY TypeNext DEF IInv
<1>1. ASSUME NEW t \in Context, NEW m \in Messages, WriteCall(t, m)
      PROVE  Origins'
  <2>1. text'[t] = Stream!AtMost(m, BufSize)
    BY <1>0, <1>1 DEF WriteCall, TypeOK, Stream!AtMost, Stream!LastBytes, LastBytes
  <2>2. \A u \in Context : u # t => text'[u] = text[u] /\ pc'[u] = pc[u]
    BY <1>0, <1>1 DEF WriteCall, At, TypeOK
  <2>3. pc'[t] = "lock" /\ UNCHANGED <<rd, total>>
    BY <1>0, <1>1 DEF WriteCall, At, TypeOK, ring, reader
  <2> QED
    BY <2>1, <2>2, <2>3 DEF Origins, Reading, Context
<1>2. ASSUME NEW t \in Context, WriteLock(t) \/ CopyToEnd(t) \/ CopyWrapped(t)
      PROVE  Origins'
  <2>1. UNCHANGED <<text, rd, total>>
    BY <1>2 DEF WriteLock, CopyToEnd, CopyWrapped, ring, reader
  <2>2. /\ pc[t] \in {"lock", "copy", "wrap"}
        /\ pc'[t] \in {"copy", "wrap", "publish"}
        /\ \A u \in Context : u # t => pc'[u] = pc[u]
    BY <1>0, <1>2 DEF WriteLock, CopyToEnd, CopyWrapped, At, TypeOK
  <2> QED
    BY <2>1, <2>2 DEF Origins, Reading, Context
<1>3. ASSUME NEW t \in Context, NmiDrop(t) PROVE Origins'
  <2>1. /\ pc'[t] = "idle" /\ UNCHANGED <<rd, total>>
        /\ \A u \in Context : u # t => pc'[u] = pc[u] /\ text'[u] = text[u]
    BY <1>0, <1>3 DEF NmiDrop, At, TypeOK, ring, reader
  <2> QED
    BY <2>1 DEF Origins, Reading, Context
<1>4. ASSUME NEW t \in Context, Publish(t) PROVE Origins'
  <2>1. /\ pc[t] = "publish" /\ pc'[t] = "idle" /\ UNCHANGED rd
        /\ \A u \in Context : u # t => pc'[u] = pc[u] /\ text'[u] = text[u]
    BY <1>0, <1>4 DEF Publish, At, TypeOK, reader
  <2>2. Reading' = {} 
    BY <1>0, <2>1, Alone DEF Reading, Context
  <2> QED
    BY <2>1, <2>2 DEF Origins, Context
<1>5. ASSUME NEW c \in CPU, NEW n \in MaxLens, ReadCall(c, n) PROVE Origins'
  <2> DEFINE t == <<c, "task">>
  <2>1. /\ t \in Context /\ pc'[t] = "rlock" /\ UNCHANGED <<text, total>>
        /\ \A u \in Context : u # t => pc'[u] = pc[u]
    BY <1>0, <1>5 DEF ReadCall, At, TypeOK, ring, Context
  <2>2. rd'[c].want = n /\ \A d \in CPU : d # c => rd'[d] = rd[d]
    BY <1>0, <1>5 DEF ReadCall, TypeOK
  <2>3. c \notin Reading' /\ \A d \in CPU : d # c => <<d, "task">> # t
    BY <2>1 DEF Reading
  <2>4. \A d \in Reading' : d \in Reading /\ d # c
    BY <2>1, <2>3 DEF Reading, Context
  <2>5. \A d \in CPU : d # c => <<d, "task">> \in Context \ {t}
    BY <2>3 DEF Context
  <2> HIDE DEF t
  <2>6. \A u \in Context :
            pc'[u] \in {"lock", "copy", "wrap", "publish"} =>
                pc[u] \in {"lock", "copy", "wrap", "publish"}
    BY <2>1
  <2>7. \A d \in CPU :
            pc'[<<d, "task">>] \in {"rlock", "rcopy"} => rd'[d].want \in MaxLens
    BY <2>1, <2>2, <2>5 DEF Origins
  <2>8. \A d \in Reading' :
            rd'[d].len = Lesser(Lesser(total', BufSize), rd'[d].want)
    BY <2>1, <2>2, <2>4 DEF Origins, Reading
  <2> QED
    BY <2>1, <2>6, <2>7, <2>8 DEF Origins
<1>6. ASSUME NEW c \in CPU, ReadLock(c) PROVE Origins'
  <2> DEFINE t == <<c, "task">>
             len == Lesser(IF total < BufSize THEN total ELSE BufSize,
                           rd[c].want)
  <2>1. /\ t \in Context /\ pc[t] = "rlock" /\ pc'[t] = "rcopy"
        /\ UNCHANGED <<text, total>>
        /\ \A u \in Context : u # t => pc'[u] = pc[u]
        /\ lock = Free
        /\ rd' = [rd EXCEPT ![c].start = (head - len + BufSize) % BufSize,
                            ![c].len = len]
    BY <1>0, <1>6 DEF ReadLock, At, TypeOK, ring, Context
  <2>2. len = Lesser(Lesser(total, BufSize), rd[c].want)
    BY DEF Lesser
  <2> HIDE DEF len
  <2>3. /\ rd'[c].want = rd[c].want /\ rd'[c].len = len
        /\ \A d \in CPU : d # c => rd'[d] = rd[d]
    BY <1>0, <2>1 DEF TypeOK
  <2>4. Reading' = {c}
    BY <1>0, <2>1, LockFree DEF Reading, Context
  <2> HIDE DEF t
  <2> QED
    BY <2>1, <2>2, <2>3, <2>4 DEF Origins, Context, t
<1>7. ASSUME NEW c \in CPU, ReadByte(c) PROVE Origins'
  BY <1>0, <1>7 DEF ReadByte, At, TypeOK, ring, Context, Origins, Reading
<1>8. ASSUME NEW c \in CPU, ReadUnlock(c) PROVE Origins'
  <2> DEFINE t == <<c, "task">>
  <2>1. /\ t \in Context /\ pc'[t] = "idle" /\ UNCHANGED <<text, total>>
        /\ \A u \in Context : u # t => pc'[u] = pc[u]
    BY <1>0, <1>8 DEF ReadUnlock, At, TypeOK, ring, Context
  <2>2. \A d \in CPU : d # c => rd'[d] = rd[d]
    BY <1>0, <1>8 DEF ReadUnlock, TypeOK
  <2>3. \A d \in Reading' : d \in Reading /\ d # c
    BY <2>1 DEF Reading, Context
  <2>4. \A d \in CPU : d # c => <<d, "task">> \in Context \ {t}
    BY DEF Context
  <2> HIDE DEF t
  <2>5. \A u \in Context :
            pc'[u] \in {"lock", "copy", "wrap", "publish"} =>
                pc[u] \in {"lock", "copy", "wrap", "publish"}
    BY <2>1
  <2>6. \A d \in CPU :
            pc'[<<d, "task">>] \in {"rlock", "rcopy"} => rd'[d].want \in MaxLens
    BY <2>1, <2>2, <2>4 DEF Origins, t
  <2>7. \A d \in Reading' :
            rd'[d].len = Lesser(Lesser(total', BufSize), rd'[d].want)
    BY <2>1, <2>2, <2>3 DEF Origins, Reading
  <2> QED
    BY <2>1, <2>5, <2>6, <2>7 DEF Origins
<1>9. CASE UNCHANGED vars
  BY <1>9 DEF vars, Origins, Reading
<1> QED
  BY <1>1, <1>2, <1>3, <1>4, <1>5, <1>6, <1>7, <1>8, <1>9
     DEF Next, WriteStep, ReadStep

(* What ConsoleStream calls AtMost: a text, or its last n bytes.           *)
AtMost(s, n) == IF Len(s) > n THEN LastBytes(s, n) ELSE s

(* The retained bytes of a stream, cut once more to what a reader asked    *)
(* for, are its last so many bytes.                                        *)
LEMMA Retained ==
    ASSUME NEW S, NEW s \in Seq(S), NEW k \in Nat, NEW n \in Nat,
           NEW r, NEW l \in Nat,
           r = AtMost(AtMost(s, k), n),
           l = Lesser(Lesser(Len(s), k), n)
    PROVE  /\ r \in Seq(S)
           /\ Len(r) = l
           /\ \A i \in 1 .. l : r[i] = s[Len(s) - l + i]
<1> DEFINE q == AtMost(s, k)
           p == Lesser(Len(s), k)
<1>0. Len(s) \in Nat
  BY SMT
<1>1. /\ p \in Nat /\ p <= Len(s) /\ q \in Seq(S) /\ Len(q) = p
      /\ \A i \in 1 .. p : q[i] = s[Len(s) - p + i]
  <2>1. CASE Len(s) > k
    <3>1. p = k /\ q = LastBytes(s, k)
      BY <1>0, <2>1, SMT DEF Lesser, AtMost
    <3> QED
      BY <1>0, <2>1, <3>1, LastBytesType
  <2>2. CASE ~(Len(s) > k)
    <3>1. p = Len(s) /\ q = s
      BY <1>0, <2>2, SMT DEF Lesser, AtMost
    <3> QED
      BY <1>0, <3>1, SMT
  <2> QED
    BY <2>1, <2>2
<1>2. r = AtMost(q, n) /\ l = Lesser(p, n)
  OBVIOUS
<1> HIDE DEF p, q
<1>3. /\ l \in Nat /\ l <= p /\ r \in Seq(S) /\ Len(r) = l
      /\ \A i \in 1 .. l : r[i] = q[p - l + i]
  <2>1. CASE p > n
    <3>1. l = n /\ r = LastBytes(q, n) /\ n <= Len(q)
      BY <1>1, <1>2, <2>1, SMT
         DEF Lesser, AtMost
    <3>2. /\ LastBytes(q, n) \in Seq(S)
          /\ Len(LastBytes(q, n)) = n
          /\ \A i \in 1 .. n : LastBytes(q, n)[i] = q[Len(q) - n + i]
      BY <1>1, <3>1, LastBytesType, ZenonT(40)
    <3> QED
      BY <1>1, <2>1, <3>1, <3>2
  <2>2. CASE ~(p > n)
    <3>1. l = p /\ r = q
      BY <1>1, <1>2, <2>2, SMT DEF Lesser, AtMost
    <3> QED
      BY <1>1, <3>1, SMT
  <2> QED
    BY <2>1, <2>2
<1>4. ASSUME NEW i \in 1 .. l PROVE r[i] = s[Len(s) - l + i]
  <2>1. p \in Nat /\ l \in Nat /\ l <= p /\ p <= Len(s)
    BY <1>1, <1>3
  <2>2. p - l + i \in 1 .. p /\ Len(s) - p + (p - l + i) = Len(s) - l + i
    BY <1>0, <2>1, SMT
  <2> QED
    BY <1>1, <1>3, <2>2
<1> QED
  BY <1>3, <1>4

(* Releasing the lock after a read returns the most recent bytes.          *)
LEMMA ReturnStep ==
    ASSUME IInv, Origins, NEW c \in CPU, ReadUnlock(c)
    PROVE  \E n \in MaxLens : Stream!Return(c, n)
<1> USE ConsoleAssumption DEF IInv
<1> DEFINE n == rd[c].want
           l == Lesser(Lesser(Len(log), BufSize), n)
           r == Stream!AtMost(Stream!AtMost(log, BufSize), n)
           B == Byte \cup {NoByte}
<1>1. c \in Reading /\ n \in MaxLens
  BY DEF ReadUnlock, At, Origins, Reading
<1>2. Len(out[c]) = l /\ rd[c].len = l
  BY <1>1 DEF ReadUnlock, Origins, Counters
<1>3. log \in Seq(B) /\ out[c] \in Seq(B)
  BY SMT DEF TypeOK
<1>4. /\ r \in Seq(B) /\ Len(r) = l
      /\ \A i \in 1 .. l : r[i] = log[Len(log) - l + i]
  <2>1. n \in Nat /\ BufSize \in Nat
    BY <1>1
  <2> HIDE DEF n, B
  <2>2. r = AtMost(AtMost(log, BufSize), n)
    BY DEF Stream!AtMost, Stream!LastBytes, AtMost, LastBytes
  <2>3. l = Lesser(Lesser(Len(log), BufSize), n)
    OBVIOUS
  <2>4. l \in Nat /\ Len(log) \in Nat
    BY <1>3, <2>1, <2>3, SMT DEF Lesser
  <2> HIDE DEF r, l
  <2> QED
    BY <1>3, <2>1, <2>2, <2>3, <2>4, Retained
<1>5. \A i \in 1 .. l : out[c][i] = log[Len(log) - l + i]
  BY <1>1, <1>2 DEF Walk
<1> HIDE DEF n, l, r, B
<1>6. out[c] = r
  <2>1. Len(out[c]) = Len(r) /\ \A i \in 1 .. Len(out[c]) : out[c][i] = r[i]
    BY <1>2, <1>4, <1>5
  <2> QED
    BY <1>3, <1>4, <2>1, SeqEqual
<1>7. ret' = [ret EXCEPT ![c] = r] /\ log' = log
  BY <1>6 DEF ReadUnlock, ring
<1> QED
  BY <1>1, <1>7 DEF Stream!Return, n, r

(* Every step of the driver is a step of the stream or a stutter.          *)
LEMMA StreamNext ==
    IInv /\ Origins /\ [Next]_vars => [Stream!Next]_<<log, ret>>
<1> SUFFICES ASSUME IInv, Origins, [Next]_vars
             PROVE  Stream!Next \/ UNCHANGED <<log, ret>>
  OBVIOUS
<1>1. ASSUME NEW t \in Context, NEW m \in Messages, WriteCall(t, m)
      PROVE  UNCHANGED <<log, ret>>
  BY <1>1 DEF WriteCall, ring, reader
<1>2. ASSUME NEW t \in Context,
             WriteLock(t) \/ NmiDrop(t) \/ CopyToEnd(t) \/ CopyWrapped(t)
      PROVE  UNCHANGED <<log, ret>>
  BY <1>2 DEF WriteLock, NmiDrop, CopyToEnd, CopyWrapped, ring, reader
<1>3. ASSUME NEW t \in Context, Publish(t)
      PROVE  Stream!Next
  <2>1. PICK m \in Messages : text[t] = Stream!AtMost(m, BufSize)
    BY <1>3 DEF Publish, At, Origins
  <2>2. Stream!Accept(m)
    BY <1>3, <2>1 DEF Publish, reader, Stream!Accept
  <2> QED
    BY <2>2 DEF Stream!Next
<1>4. ASSUME NEW c \in CPU, NEW n \in MaxLens, ReadCall(c, n)
      PROVE  UNCHANGED <<log, ret>>
  BY <1>4 DEF ReadCall, ring
<1>5. ASSUME NEW c \in CPU, ReadLock(c) \/ ReadByte(c)
      PROVE  UNCHANGED <<log, ret>>
  BY <1>5 DEF ReadLock, ReadByte, ring
<1>6. ASSUME NEW c \in CPU, ReadUnlock(c)
      PROVE  Stream!Next
  BY <1>6, ReturnStep DEF Stream!Next
<1>7. CASE UNCHANGED vars
  BY <1>7 DEF vars
<1> QED
  BY <1>1, <1>2, <1>3, <1>4, <1>5, <1>6, <1>7 DEF Next, WriteStep, ReadStep

(* Every behaviour of the driver is one of the byte stream: messages enter *)
(* whole or not at all, reads return its most recent bytes.                *)
THEOREM StreamImplemented == Spec => ImplementsStream
<1>1. Init => Stream!Init
  BY DEF Init, Stream!Init
<1>2. Spec => [](IInv /\ Origins)
  BY Invariance, OriginsInit, OriginsNext, PTL DEF Spec
<1>3. IInv /\ Origins /\ [Next]_vars => [Stream!Next]_<<log, ret>>
  BY StreamNext
<1> QED
  BY <1>1, <1>2, <1>3, PTL DEF Spec, ImplementsStream, Stream!Spec
==============================================================================
