---------------------------- MODULE ServerProofs ----------------------------
(***************************************************************************)
(* Theorems about the server: of Playback, for any trace, any window, any  *)
(* number of clients and loops and any commands, what becomes of the       *)
(* events, how much is fetched after a pause and the order of arrival; of  *)
(* Gateway, for any files, clients, channels and bounds, what those who    *)
(* watch are shown in the end.                                             *)
(***************************************************************************)
EXTENDS Server, Lemmas

PCs == {"off", "check", "batch", "sleep", "apply", "finish"}

(* The loop's batch was collected since the last seek or load.             *)
Fresh(l) == l \in Loops \ stale

------------------------------------------------------------------------------
(* How often an event occurs *)

(* The trace is not empty.                                                 *)
LEMMA Length ==
    /\ N \in Nat \ {0} /\ Everything = 1 .. N
    /\ \A i \in 1 .. N : Ts[i] \in Nat
BY PlaybackAssumption DEF N, Everything

(* How many of the trace's events there are of some kind.                  *)
LEMMA Numbers ==
    ASSUME NEW S \in SUBSET (1 .. N) PROVE Cardinality(S) \in 0 .. N
<1>1. 1 \in Int /\ N \in Nat
  BY Length
<1>2. IsFiniteSet(1 .. N) /\ Cardinality(1 .. N) = N
  BY <1>1, FS_Interval, Length
<1>3. IsFiniteSet(S) /\ Cardinality(S) <= N
  BY <1>2, FS_Subset
<1>4. Cardinality(S) \in Nat
  BY <1>3, FS_CardinalityType
<1> QED
  BY <1>1, <1>3, <1>4

(* What is in a sequence, and where a sequence's elements are from.        *)
LEMMA ElementOf ==
    ASSUME NEW E, NEW s \in Seq(E), NEW i \in 1 .. Len(s)
    PROVE  s[i] \in E
OBVIOUS

LEMMA SequenceOf ==
    ASSUME NEW E, NEW s \in Seq(Nat), \A i \in 1 .. Len(s) : s[i] \in E
    PROVE  s \in Seq(E)
<1>1. s = [i \in 1 .. Len(s) |-> s[i]] /\ Len(s) \in Nat
  OBVIOUS
<1> QED
  BY <1>1

(* Occurrences can be counted, are none in an empty sequence, and add up.  *)
LEMMA CountType ==
    ASSUME NEW E, NEW s \in Seq(E), NEW e
    PROVE  IsFiniteSet({i \in DOMAIN s : s[i] = e}) /\ Count(s, e) \in Nat
<1> DEFINE At == {i \in DOMAIN s : s[i] = e}
<1>1. At \in SUBSET (1 .. Len(s)) /\ 1 \in Int /\ Len(s) \in Int
  OBVIOUS
<1>2. IsFiniteSet(1 .. Len(s))
  BY <1>1, FS_Interval
<1>3. IsFiniteSet(At)
  <2> HIDE DEF At
  <2> QED
    BY <1>1, <1>2, FS_Subset
<1>4. Cardinality(At) \in Nat
  <2> HIDE DEF At
  <2> QED
    BY <1>3, FS_CardinalityType
<1> QED
  BY <1>3, <1>4 DEF Count

LEMMA CountEmpty ==
    ASSUME NEW e PROVE Count(<< >>, e) = 0
<1>1. {i \in DOMAIN << >> : << >>[i] = e} = {}
  OBVIOUS
<1> QED
  BY <1>1, FS_EmptySet DEF Count

(* In an increasing sequence an event occurs once or not at all.           *)
LEMMA CountOnce ==
    ASSUME NEW s \in Seq(1 .. N), Increasing(s), NEW e
    PROVE  Count(s, e) = IF Contains(s, e) THEN 1 ELSE 0
<1> DEFINE At == {i \in DOMAIN s : s[i] = e}
<1>1. CASE Contains(s, e)
  <2>1. PICK i \in 1 .. Len(s) : s[i] = e
    BY <1>1 DEF Contains
  <2>2. At \subseteq {i}
    <3> SUFFICES ASSUME NEW j \in 1 .. Len(s), s[j] = e, j # i PROVE FALSE
      OBVIOUS
    <3>1. i < j \/ j < i
      OBVIOUS
    <3>2. s[i] < s[j] \/ s[j] < s[i]
      BY <3>1 DEF Increasing
    <3>3. s[i] \in 1 .. N
      BY ElementOf
    <3> QED
      BY <2>1, <3>2, <3>3, Length
  <2>3. At = {i}
    BY <2>1, <2>2
  <2>4. Cardinality(At) = 1
    BY <2>3, FS_Singleton
  <2> QED
    BY <1>1, <2>4 DEF Count
<1>2. CASE ~Contains(s, e)
  <2>1. At = {}
    BY <1>2 DEF Contains
  <2> QED
    BY <1>2, <2>1, FS_EmptySet DEF Count
<1> QED
  BY <1>1, <1>2

LEMMA CountConcat ==
    ASSUME NEW E, NEW s \in Seq(E), NEW t \in Seq(E), NEW e
    PROVE  Count(s \o t, e) = Count(s, e) + Count(t, e)
<1>1. PICK m \in Nat, n \in Nat : m = Len(s) /\ n = Len(t)
  OBVIOUS
<1>2. PICK S, T, B : /\ S = {i \in 1 .. m : s[i] = e}
                     /\ T = {i \in 1 .. n : t[i] = e}
                     /\ B = {i \in m + 1 .. m + n : t[i - m] = e}
  OBVIOUS
<1>3. IsFiniteSet(S) /\ IsFiniteSet(T) /\ Count(s, e) = Cardinality(S)
      /\ Count(t, e) = Cardinality(T)
  <2>1. S = {i \in DOMAIN s : s[i] = e} /\ T = {i \in DOMAIN t : t[i] = e}
    BY <1>1, <1>2
  <2> QED
    BY <2>1, CountType DEF Count
<1>4. IsFiniteSet(B) /\ Cardinality(B) = Cardinality(T)
  <2>1. PICK f : f = [i \in T |-> i + m]
    OBVIOUS
  <2>2. f \in Bijection(T, B)
    <3>1. f \in [T -> B]
      BY <1>2, <2>1
    <3>2. \A i, j \in T : f[i] = f[j] => i = j
      BY <1>2, <2>1
    <3>3. ASSUME NEW k \in B PROVE \E i \in T : f[i] = k
      <4>1. k - m \in T /\ (k - m) + m = k
        BY <1>2
      <4> QED
        BY <2>1, <4>1
    <3> QED
      BY <3>1, <3>2, <3>3 DEF Bijection, Injection, Surjection, IsInjective
  <2>3. ExistsBijection(T, B)
    BY <2>2 DEF ExistsBijection
  <2> QED
    BY <1>3, <2>3, FS_Bijection
<1>5. {i \in DOMAIN (s \o t) : (s \o t)[i] = e} = S \cup B
  <2>1. PICK u : u = s \o t
    OBVIOUS
  <2>2. /\ DOMAIN u = 1 .. m + n
        /\ \A i \in 1 .. m : u[i] = s[i]
        /\ \A i \in m + 1 .. m + n : u[i] = t[i - m]
    BY <1>1, <2>1
  <2>3. \A i \in 1 .. m + n : i \in 1 .. m \/ i \in m + 1 .. m + n
    OBVIOUS
  <2>4. 1 .. m \subseteq 1 .. m + n /\ m + 1 .. m + n \subseteq 1 .. m + n
    OBVIOUS
  <2>5. {i \in DOMAIN u : u[i] = e} = S \cup B
    BY <1>2, <2>2, <2>3, <2>4
  <2> QED
    BY <2>1, <2>5
<1>6. S \cap B = {}
  BY <1>2
<1>7. Cardinality(S \cup B) = Cardinality(S) + Cardinality(B)
  <2>1. Cardinality(S) \in Nat /\ Cardinality(B) \in Nat
    BY <1>3, <1>4, FS_CardinalityType
  <2>2. Cardinality(S \cup B)
            = Cardinality(S) + Cardinality(B) - Cardinality(S \cap B)
    BY <1>3, <1>4, FS_Union
  <2>3. Cardinality(S \cap B) = 0
    BY <1>6, FS_EmptySet
  <2> QED
    BY <2>1, <2>2, <2>3
<1> QED
  BY <1>3, <1>4, <1>5, <1>7 DEF Count

(* The rebuilt events are the first ones, once each.                       *)
LEMMA CountPrefix ==
    ASSUME NEW k \in 0 .. N, NEW e \in 1 .. N
    PROVE  /\ Prefix(k) \in Seq(1 .. N) /\ Len(Prefix(k)) = k
           /\ Count(Prefix(k), e) = IF e <= k THEN 1 ELSE 0
<1>1. /\ Prefix(k) \in Seq(1 .. N) /\ Len(Prefix(k)) = k
      /\ \A i \in 1 .. k : Prefix(k)[i] = i
  BY Length DEF Prefix
<1>2. Increasing(Prefix(k))
  BY <1>1 DEF Increasing
<1>3. Contains(Prefix(k), e) <=> e <= k
  BY <1>1, Length DEF Contains
<1> QED
  BY <1>1, <1>2, <1>3, CountOnce

------------------------------------------------------------------------------
(* The invariant behind the accounting of events *)

(* What the values of the variables look like.                             *)
Shape ==
    /\ pos \in 1 .. N + 1
    /\ world \in Seq(1 .. N)
    /\ base \in [next : 1 .. N + 1, rebuilt : 0 .. N,
                 stale : Seq(1 .. N), skipped : SUBSET (1 .. N)]
    /\ pc \in [Loops -> PCs]
    /\ batch \in [Loops -> Seq(1 .. N)]
    /\ stale \subseteq Loops

(* A loop has a batch only from fetching it to applying it, each event in  *)
(* it once; what a fresh one holds lies behind the position, after the     *)
(* last seek, and was not skipped.                                         *)
Batches ==
    \A l \in Loops :
        /\ batch[l] # << >> => pc[l] \in {"sleep", "apply"}
        /\ Increasing(batch[l])
        /\ l \in stale => batch[l] # << >>
        /\ l \notin stale =>
              \A i \in 1 .. Len(batch[l]) :
                  /\ base.next <= batch[l][i] /\ batch[l][i] < pos
                  /\ batch[l][i] \notin base.skipped

(* No event is in the fresh batches of two loops.                          *)
Apart ==
    \A l, m \in Loops \ stale : l # m =>
        \A i \in 1 .. Len(batch[l]), j \in 1 .. Len(batch[m]) :
            batch[l][i] # batch[m][j]

(* Only events behind the position have been skipped.                      *)
Behind ==
    /\ base.next <= pos
    /\ \A e \in base.skipped : e < pos
    /\ base.rebuilt + Len(base.stale) <= Len(world)

Accounts == Shape /\ Batches /\ Apart /\ Behind /\ EventsAccounted

(* What a loop that takes no batch and applies none does to its events.    *)
LEMMA Quiet ==
    ASSUME Accounts, UNCHANGED <<pos, world, base, batch, stale>>,
           pc' \in [Loops -> PCs],
           \A l \in Loops : batch[l] # << >> => pc'[l] \in {"sleep", "apply"}
    PROVE  Accounts'
<1>1. Shape'
  BY DEF Accounts, Shape
<1>2. Batches'
  BY DEF Accounts, Batches
<1>3. Apart' /\ Behind'
  BY DEF Accounts, Apart, Behind
<1>4. EventsAccounted'
  BY DEF Accounts, EventsAccounted, InFlight
<1> QED
  BY <1>1, <1>2, <1>3, <1>4 DEF Accounts

(* The accounts are right before anything is played, whether or not a trace *)
(* was loaded when the server started.                                     *)
LEMMA AccountsInit ==
    ASSUME Init PROVE Accounts
<1>1. /\ pos = 1 /\ stale = {}
      /\ pc = [l \in Loops |-> "off"] /\ batch = [l \in Loops |-> << >>]
      /\ base = [next |-> 1, rebuilt |-> Len(world), stale |-> << >>,
                 skipped |-> {}]
  BY DEF Init
<1>2. PICK k \in 0 .. N : world = Prefix(k) /\ k = Len(world)
  <2>1. Prefix(0) = << >> /\ 0 \in 0 .. N /\ N \in 0 .. N /\ 1 \in 1 .. N
    BY Length DEF Prefix
  <2>2. Len(Prefix(0)) = 0 /\ Len(Prefix(N)) = N
    BY <2>1, CountPrefix
  <2>3. CASE loaded
    BY <2>1, <2>2, <2>3 DEF Init
  <2>4. CASE ~loaded
    BY <2>1, <2>2, <2>4 DEF Init
  <2> QED
    BY <2>3, <2>4
<1>3. \A e \in 1 .. N : Count(world, e) = IF e <= k THEN 1 ELSE 0
  BY <1>2, CountPrefix
<1>4. world \in Seq(1 .. N)
  <2>1. 1 \in 1 .. N
    BY Length
  <2> QED
    BY <1>2, <2>1, CountPrefix
<1>5. Shape
  <2>1. 1 \in 1 .. N + 1 /\ {} \in SUBSET (1 .. N) /\ << >> \in Seq(1 .. N)
    BY Length
  <2>2. base \in [next : 1 .. N + 1, rebuilt : 0 .. N,
                  stale : Seq(1 .. N), skipped : SUBSET (1 .. N)]
    BY <1>1, <1>2, <2>1
  <2> QED
    BY <1>1, <1>4, <2>1, <2>2 DEF Shape, PCs
<1>6. \A l \in Loops : batch[l] = << >> /\ Len(batch[l]) = 0
  BY <1>1
<1>7. Batches
  BY <1>1, <1>6 DEF Batches, Increasing
<1>8. Apart
  BY <1>6 DEF Apart
<1>9. Behind
  <2>1. Len(base.stale) = 0 /\ base.rebuilt = k /\ k \in Nat
    BY <1>1, <1>2, Length
  <2> QED
    BY <1>1, <1>2, <2>1 DEF Behind
<1>10. EventsAccounted
  <2> SUFFICES ASSUME NEW e \in 1 .. N
               PROVE  Count(world, e) =
                          (IF e <= base.rebuilt THEN 1 ELSE 0)
                          + Count(base.stale, e)
                          + (IF /\ base.next <= e /\ e < pos
                                /\ e \notin base.skipped /\ ~InFlight(e)
                             THEN 1 ELSE 0)
    BY Length DEF EventsAccounted
  <2>1. Count(base.stale, e) = 0 /\ base.rebuilt = k /\ ~(e < pos)
    BY <1>1, <1>2, CountEmpty, Length
  <2> QED
    BY <1>3, <2>1
<1> QED
  BY <1>5, <1>7, <1>8, <1>9, <1>10 DEF Accounts

(* A seek or a load starts the accounts afresh.                            *)
LEMMA Repositioned ==
    ASSUME Accounts, NEW next \in 1 .. N + 1, NEW k \in 0 .. N,
           Reposition(next, k), UNCHANGED <<pc, batch>>
    PROVE  Accounts'
<1>1. /\ pos' = next /\ world' = Prefix(k)
      /\ base' = [next |-> next, rebuilt |-> k, stale |-> << >>,
                  skipped |-> {}]
      /\ stale' = {l \in Loops : batch[l] # << >>}
      /\ pc' = pc /\ batch' = batch
  BY DEF Reposition
<1>2. /\ world' \in Seq(1 .. N) /\ Len(world') = k
      /\ \A e \in 1 .. N : Count(world', e) = IF e <= k THEN 1 ELSE 0
  <2>1. 1 \in 1 .. N
    BY Length
  <2> QED
    BY <1>1, <2>1, CountPrefix
<1>3. Shape'
  <2>1. {} \in SUBSET (1 .. N) /\ << >> \in Seq(1 .. N)
    OBVIOUS
  <2>2. base' \in [next : 1 .. N + 1, rebuilt : 0 .. N,
                   stale : Seq(1 .. N), skipped : SUBSET (1 .. N)]
    BY <1>1, <2>1
  <2> QED
    BY <1>1, <1>2, <2>2 DEF Accounts, Shape
<1>4. \A l \in Loops \ stale' : batch'[l] = << >> /\ Len(batch'[l]) = 0
  BY <1>1
<1>5. Batches'
  <2> SUFFICES ASSUME NEW l \in Loops
               PROVE  /\ batch'[l] # << >> => pc'[l] \in {"sleep", "apply"}
                      /\ Increasing(batch'[l])
                      /\ l \in stale' => batch'[l] # << >>
                      /\ l \notin stale' =>
                            \A i \in 1 .. Len(batch'[l]) :
                                /\ base'.next <= batch'[l][i]
                                /\ batch'[l][i] < pos'
                                /\ batch'[l][i] \notin base'.skipped
    BY DEF Batches, Increasing
  <2>1. /\ batch'[l] # << >> => pc'[l] \in {"sleep", "apply"}
        /\ Increasing(batch'[l])
    BY <1>1 DEF Accounts, Batches
  <2>2. l \in stale' => batch'[l] # << >>
    BY <1>1
  <2> QED
    BY <1>4, <2>1, <2>2
<1>6. Apart'
  BY <1>4 DEF Apart
<1>7. Behind'
  <2>1. base'.next = next /\ pos' = next /\ next \in Nat /\ base'.skipped = {}
        /\ base'.rebuilt = k /\ k \in Nat /\ Len(base'.stale) = 0
    BY <1>1, Length
  <2> QED
    BY <1>2, <2>1 DEF Behind
<1>8. EventsAccounted'
  <2> SUFFICES ASSUME NEW e \in 1 .. N
               PROVE  (Count(world, e) =
                          (IF e <= base.rebuilt THEN 1 ELSE 0)
                          + Count(base.stale, e)
                          + (IF /\ base.next <= e /\ e < pos
                                /\ e \notin base.skipped /\ ~InFlight(e)
                             THEN 1 ELSE 0))'
    BY Length DEF EventsAccounted
  <2>1. /\ Count(base'.stale, e) = 0 /\ base'.rebuilt = k
        /\ ~(base'.next <= e /\ e < pos')
    BY <1>1, CountEmpty, Length
  <2> QED
    BY <1>2, <2>1
<1> QED
  BY <1>3, <1>5, <1>6, <1>7, <1>8 DEF Accounts

(* What a batch is, and where it ends.                                     *)
LEMMA BatchEnds ==
    ASSUME pos \in 1 .. N
    PROVE  BatchEnd \in pos .. N
<1>1. PICK p \in 1 .. N : p = pos
  OBVIOUS
<1>2. PICK D : D = {d \in 0 .. N - p : Ts[N - d] - Ts[p] <= Window}
  OBVIOUS
<1>3. D \in SUBSET Nat /\ N - p \in D
  <2>1. /\ N - p \in 0 .. N - p /\ N - (N - p) = p
        /\ Ts[p] - Ts[p] = 0 /\ 0 <= Window
    BY <1>1, Length, PlaybackAssumption
  <2>2. 0 .. N - p \subseteq Nat
    OBVIOUS
  <2> QED
    BY <1>2, <2>1, <2>2
<1>4. PICK d \in D : \A c \in D : d <= c
  BY <1>3, Least
<1>5. PICK j \in p .. N : j = N - d
  BY <1>1, <1>2, Length
<1>6. Ts[j] - Ts[p] <= Window
  BY <1>2, <1>5
<1>7. ASSUME j < N PROVE Ts[j + 1] - Ts[p] > Window
  <2>1. d - 1 \in 0 .. N - p /\ N - (d - 1) = j + 1 /\ d - 1 < d
    BY <1>1, <1>2, <1>5, <1>7, Length
  <2>2. d - 1 \notin D
    BY <1>3, <1>4, <2>1
  <2>3. ~(Ts[j + 1] - Ts[p] <= Window)
    BY <1>2, <2>1, <2>2
  <2>4. Ts[j + 1] \in Nat /\ Ts[p] \in Nat /\ Window \in Nat
    BY <1>1, <1>5, <1>7, Length, PlaybackAssumption
  <2> QED
    BY <2>3, <2>4
<1> DEFINE Ends(i) == /\ Ts[i] - Ts[p] <= Window
                      /\ i < N => Ts[i + 1] - Ts[p] > Window
<1>8. \E i \in p .. N : Ends(i)
  BY <1>5, <1>6, <1>7
<1>9. BatchEnd = CHOOSE i \in p .. N : Ends(i)
  BY <1>1 DEF BatchEnd
<1> HIDE DEF Ends
<1> QED
  BY <1>1, <1>8, <1>9

(* What Collect takes: the events from the position to the batch's end     *)
(* that pass the filter.                                                   *)
LEMMA Collected ==
    ASSUME NEW p \in 1 .. N, NEW q \in p .. N, NEW S, NEW range, NEW kept,
           range = SubSeq(Prefix(N), p, q), kept = Passing(range, S)
    PROVE  /\ ToSet(range) = p .. q
           /\ kept \in Seq(1 .. N) /\ Increasing(kept)
           /\ \A e : Contains(kept, e) <=> e \in (p .. q) \cap S
<1>1. PICK n \in Nat : n = q - p + 1
  BY Length
<1>2. PICK P \in Seq(Nat) : /\ P = Prefix(N) /\ Len(P) = N
                            /\ \A i \in 1 .. N : P[i] = i
  <2>1. /\ Prefix(N) \in Seq(Nat) /\ Len(Prefix(N)) = N
        /\ \A i \in 1 .. N : Prefix(N)[i] = i
    BY Length DEF Prefix
  <2> QED
    BY <2>1
<1>3. /\ range \in Seq(Nat) /\ Len(range) = n
      /\ \A i \in 1 .. n : range[i] = p + i - 1
  <2>1. /\ SubSeq(P, p, q) \in Seq(Nat) /\ Len(SubSeq(P, p, q)) = q - p + 1
        /\ \A i \in 1 .. q - p + 1 : SubSeq(P, p, q)[i] = P[p + i - 1]
    BY <1>2, Length
  <2>2. \A i \in 1 .. n : p + i - 1 \in 1 .. N
    BY <1>1, Length
  <2> QED
    BY <1>1, <1>2, <2>1, <2>2
<1>4. Elements(range) = p .. q
  <2>1. ASSUME NEW e \in p .. q PROVE \E i \in 1 .. n : range[i] = e
    <3>1. e - p + 1 \in 1 .. n /\ p + (e - p + 1) - 1 = e
      BY <1>1, Length
    <3> QED
      BY <1>3, <3>1
  <2>2. ASSUME NEW i \in 1 .. n PROVE range[i] \in p .. q
    BY <1>1, <1>3, Length
  <2> QED
    BY <1>3, <2>1, <2>2 DEF Elements
<1>5. ToSet(range) = p .. q
  <2>1. DOMAIN range = 1 .. Len(range)
    BY <1>3
  <2> QED
    BY <1>4, <2>1 DEF ToSet, Elements
<1>6. Increasing(range)
  <2> SUFFICES ASSUME NEW i \in 1 .. n, NEW j \in 1 .. n, i < j
               PROVE  range[i] < range[j]
    BY <1>3 DEF Increasing
  <2>1. range[i] = p + i - 1 /\ range[j] = p + j - 1
    BY <1>3
  <2>2. p \in Int
    BY Length
  <2> QED
    BY <2>1, <2>2
<1>7. kept \in Seq(Nat) /\ Increasing(kept) /\ Elements(kept) = (p .. q) \cap S
  BY <1>3, <1>4, <1>6, PassingIncreasing
<1>8. \A e : Contains(kept, e) <=> e \in (p .. q) \cap S
  BY <1>7 DEF Contains, Elements
<1>9. kept \in Seq(1 .. N)
  <2>1. \A i \in 1 .. Len(kept) : kept[i] \in p .. q
    BY <1>7 DEF Elements
  <2>2. p .. q \subseteq 1 .. N
    BY Length
  <2>3. \A i \in 1 .. Len(kept) : kept[i] \in 1 .. N
    BY <2>1, <2>2
  <2> QED
    BY <1>7, <2>3, SequenceOf
<1> QED
  BY <1>5, <1>7, <1>8, <1>9

(* The accounts of one event, with what the loops hold.                    *)
Held(st, bt, e) == \E m \in Loops \ st : Contains(bt[m], e)

Balance(w, b, p, st, bt, e) ==
    Count(w, e) =
        (IF e <= b.rebuilt THEN 1 ELSE 0)
        + Count(b.stale, e)
        + (IF /\ b.next <= e /\ e < p
              /\ e \notin b.skipped /\ ~Held(st, bt, e)
           THEN 1 ELSE 0)

(* The accounts are right if those of every event are.                     *)
LEMMA Balanced ==
    /\ EventsAccounted <=>
           \A e \in 1 .. N : Balance(world, base, pos, stale, batch, e)
    /\ EventsAccounted' <=>
           \A e \in 1 .. N : Balance(world', base', pos', stale', batch', e)
BY Length DEF EventsAccounted, InFlight, Balance, Held

(* Applying a batch.                                                       *)
LEMMA Applied ==
    ASSUME Accounts, NEW l \in Loops, Apply(l) PROVE Accounts'
<1>1. /\ pc[l] = "apply" /\ pos' = pos
      /\ world' = world \o batch[l]
      /\ base' = IF l \in stale THEN [base EXCEPT !.stale = @ \o batch[l]]
                 ELSE base
      /\ stale' = stale \ {l}
      /\ batch' = [batch EXCEPT ![l] = << >>]
      /\ pc' = [pc EXCEPT ![l] = "check"]
  BY DEF Apply, replayer
<1>2. PICK b \in Seq(1 .. N), w \in Seq(1 .. N), z \in Seq(1 .. N) :
          b = batch[l] /\ w = world /\ z = base.stale
  BY DEF Accounts, Shape
<1>3. /\ base'.next = base.next /\ base'.rebuilt = base.rebuilt
      /\ base'.skipped = base.skipped
      /\ base'.stale = IF l \in stale THEN z \o b ELSE z
      /\ base' \in [next : 1 .. N + 1, rebuilt : 0 .. N,
                   stale : Seq(1 .. N), skipped : SUBSET (1 .. N)]
  <2>1. PICK x \in [next : 1 .. N + 1, rebuilt : 0 .. N,
                    stale : Seq(1 .. N), skipped : SUBSET (1 .. N)] : x = base
    BY DEF Accounts, Shape
  <2>2. CASE l \in stale
    <3>1. PICK u : u = z \o b /\ u \in Seq(1 .. N)
      <4>1. z \o b \in Seq(1 .. N)
        OBVIOUS
      <4> QED
        BY <4>1
    <3>2. base' = [x EXCEPT !.stale = u]
      BY <1>1, <1>2, <2>1, <2>2, <3>1
    <3> QED
      BY <1>2, <2>1, <2>2, <3>1, <3>2
  <2>3. CASE l \notin stale
    BY <1>1, <1>2, <2>1, <2>3
  <2> QED
    BY <2>2, <2>3
<1>4. world' = w \o b /\ world' \in Seq(1 .. N)
  BY <1>1, <1>2
<1>5. /\ batch'[l] = << >> /\ Len(batch'[l]) = 0 /\ pc'[l] = "check"
      /\ \A m \in Loops \ {l} : batch'[m] = batch[m] /\ pc'[m] = pc[m]
  BY <1>1 DEF Accounts, Shape
<1>6. Shape'
  <2>1. pc' \in [Loops -> PCs]
    BY <1>1 DEF Accounts, Shape, PCs
  <2>2. batch' \in [Loops -> Seq(1 .. N)]
    <3>1. << >> \in Seq(1 .. N)
      OBVIOUS
    <3> QED
      BY <1>1, <3>1 DEF Accounts, Shape
  <2>3. stale' \subseteq Loops /\ pos' \in 1 .. N + 1
    BY <1>1 DEF Accounts, Shape
  <2> QED
    BY <1>3, <1>4, <2>1, <2>2, <2>3 DEF Shape
<1>7. Batches'
  <2> SUFFICES ASSUME NEW m \in Loops
               PROVE  /\ batch'[m] # << >> => pc'[m] \in {"sleep", "apply"}
                      /\ Increasing(batch'[m])
                      /\ m \in stale' => batch'[m] # << >>
                      /\ m \notin stale' =>
                            \A i \in 1 .. Len(batch'[m]) :
                                /\ base'.next <= batch'[m][i]
                                /\ batch'[m][i] < pos'
                                /\ batch'[m][i] \notin base'.skipped
    BY DEF Batches, Increasing
  <2>1. CASE m = l
    BY <1>1, <1>5, <2>1 DEF Increasing
  <2>2. CASE m # l
    BY <1>1, <1>3, <1>5, <2>2 DEF Accounts, Batches
  <2> QED
    BY <2>1, <2>2
<1>8. Apart'
  <2> SUFFICES ASSUME NEW m \in Loops \ stale', NEW k \in Loops \ stale', m # k,
                      NEW i \in 1 .. Len(batch'[m]),
                      NEW j \in 1 .. Len(batch'[k])
               PROVE  batch'[m][i] # batch'[k][j]
    BY DEF Apart
  <2>1. m # l /\ k # l
    BY <1>5
  <2>2. m \in Loops \ stale /\ k \in Loops \ stale
    BY <1>1, <2>1
  <2>3. batch'[m] = batch[m] /\ batch'[k] = batch[k]
    BY <1>5, <2>1
  <2>4. \A x \in 1 .. Len(batch[m]), y \in 1 .. Len(batch[k]) :
            batch[m][x] # batch[k][y]
    BY <2>2 DEF Accounts, Apart
  <2> QED
    BY <2>3, <2>4
<1>9. Behind'
  <2>1. /\ Len(w \o b) = Len(w) + Len(b) /\ Len(z \o b) = Len(z) + Len(b)
        /\ Len(w) \in Nat /\ Len(b) \in Nat /\ Len(z) \in Nat
    OBVIOUS
  <2>2. base.rebuilt \in Nat /\ base.rebuilt + Len(z) <= Len(w)
    BY <1>2, Length DEF Accounts, Behind, Shape
  <2>3. base'.rebuilt + Len(base'.stale) <= Len(world')
    BY <1>3, <1>4, <2>1, <2>2
  <2> QED
    BY <1>1, <1>3, <2>3 DEF Accounts, Behind
<1>10. ASSUME NEW e \in 1 .. N
       PROVE  Balance(world', base', pos', stale', batch', e)
  <2>1. Balance(w, base, pos, stale, batch, e)
    BY <1>2, Balanced DEF Accounts
  <2>2. Count(world', e) = Count(w, e) + Count(b, e)
    BY <1>4, CountConcat
  <2>3. /\ Count(w, e) \in Nat /\ Count(b, e) \in Nat /\ Count(z, e) \in Nat
    BY CountType
  <2>4. ~Contains(batch'[l], e)
    BY <1>5 DEF Contains
  <2>5. \A m \in Loops \ {l} : Contains(batch'[m], e) <=> Contains(batch[m], e)
    BY <1>5
  <2>6. CASE l \in stale
    <3>1. Count(base'.stale, e) = Count(z, e) + Count(b, e)
      BY <1>3, <2>6, CountConcat
    <3>2. Held(stale', batch', e) <=> Held(stale, batch, e)
      BY <1>1, <2>4, <2>5, <2>6 DEF Held
    <3> QED
      BY <1>1, <1>2, <1>3, <2>1, <2>2, <2>3, <3>1, <3>2, SMTT(30) DEF Balance
  <2>7. CASE l \notin stale
    <3>1. base'.stale = z
      BY <1>3, <2>7
    <3>2. CASE Contains(b, e)
      <4>1. Count(b, e) = 1
        <5>1. Increasing(b)
          BY <1>2 DEF Accounts, Batches
        <5> QED
          BY <3>2, <5>1, CountOnce
      <4>2. Held(stale, batch, e)
        BY <1>2, <2>7, <3>2 DEF Held
      <4>3. PICK i \in 1 .. Len(b) : b[i] = e
        BY <3>2 DEF Contains
      <4>4. base.next <= e /\ e < pos /\ e \notin base.skipped
        BY <1>2, <2>7, <4>3 DEF Accounts, Batches
      <4>5. ~Held(stale', batch', e)
        <5> SUFFICES ASSUME NEW m \in Loops \ stale', Contains(batch'[m], e)
                     PROVE  FALSE
          BY DEF Held
        <5>1. m # l /\ m \in Loops \ stale /\ Contains(batch[m], e)
          BY <1>1, <2>4, <2>5
        <5>2. PICK j \in 1 .. Len(batch[m]) : batch[m][j] = e
          BY <5>1 DEF Contains
        <5> QED
          BY <1>2, <2>7, <4>3, <5>1, <5>2 DEF Accounts, Apart
      <4> QED
        BY <1>1, <1>2, <1>3, <2>1, <2>2, <2>3, <3>1, <4>1, <4>2, <4>4, <4>5
           DEF Balance
    <3>3. CASE ~Contains(b, e)
      <4>1. Count(b, e) = 0
        <5>1. Increasing(b)
          BY <1>2 DEF Accounts, Batches
        <5> QED
          BY <3>3, <5>1, CountOnce
      <4>2. Held(stale', batch', e) <=> Held(stale, batch, e)
        BY <1>1, <1>2, <2>4, <2>5, <2>7, <3>3 DEF Held
      <4> QED
        BY <1>1, <1>2, <1>3, <2>1, <2>2, <2>3, <3>1, <4>1, <4>2 DEF Balance
    <3> QED
      BY <3>2, <3>3
  <2> QED
    BY <2>6, <2>7
<1> QED
  BY <1>6, <1>7, <1>8, <1>9, <1>10, Balanced DEF Accounts

(* Fetching a batch: of the events the position passes, the filter skips   *)
(* some and the loop holds the others.                                     *)
LEMMA Fetched ==
    ASSUME Accounts, NEW l \in Loops, Collect(l) PROVE Accounts'
<1>0. PICK p \in 1 .. N : p = pos
  BY Length DEF Accounts, Shape, Collect
<1>1. PICK q \in p .. N : p = pos /\ q = BatchEnd
  BY <1>0, BatchEnds
<1>2. PICK range, kept :
          /\ range = SubSeq(Prefix(N), p, q)
          /\ kept = Passing(range, filter)
          /\ batch' = [batch EXCEPT ![l] = kept]
          /\ base' = [base EXCEPT
                          !.skipped = @ \cup (ToSet(range) \ filter)]
          /\ Deliver(l, kept)
  BY <1>1 DEF Collect
<1>3. /\ pc[l] = "batch" /\ pos' = q + 1 /\ world' = world
      /\ stale' = stale \ {l}
  BY <1>1 DEF Collect
<1>4. /\ ToSet(range) = p .. q
      /\ kept \in Seq(1 .. N) /\ Increasing(kept)
      /\ \A e : Contains(kept, e) <=> e \in (p .. q) \cap filter
  BY <1>2, Collected, ZenonT(40)
<1>5. PICK S : S = (p .. q) \ filter
  OBVIOUS
<1>6. /\ base'.next = base.next /\ base'.rebuilt = base.rebuilt
      /\ base'.stale = base.stale /\ base'.skipped = base.skipped \cup S
      /\ base' \in [next : 1 .. N + 1, rebuilt : 0 .. N,
                   stale : Seq(1 .. N), skipped : SUBSET (1 .. N)]
  <2>1. PICK x \in [next : 1 .. N + 1, rebuilt : 0 .. N,
                    stale : Seq(1 .. N), skipped : SUBSET (1 .. N)] : x = base
    BY DEF Accounts, Shape
  <2>2. PICK u : u = x.skipped \cup S /\ u \in SUBSET (1 .. N)
    <3>1. S \subseteq 1 .. N
      BY <1>5, Length
    <3> QED
      BY <3>1
  <2>3. base' = [x EXCEPT !.skipped = u]
    BY <1>2, <1>4, <1>5, <2>1, <2>2
  <2> QED
    BY <2>1, <2>2, <2>3
<1>7. /\ batch' \in [Loops -> Seq(1 .. N)]
      /\ batch'[l] = kept
      /\ \A m \in Loops \ {l} : batch'[m] = batch[m]
  BY <1>2, <1>4 DEF Accounts, Shape
<1>8. /\ pc' \in [Loops -> PCs]
      /\ \A m \in Loops \ {l} : pc'[m] = pc[m]
      /\ kept # << >> => pc'[l] \in {"sleep", "apply"}
  <2>1. PICK to \in {"sleep", "apply", "batch"} :
            /\ pc' = [pc EXCEPT ![l] = to]
            /\ kept # << >> => to \in {"sleep", "apply"}
    <3>1. pc = [pc EXCEPT ![l] = "batch"]
      BY <1>3 DEF Accounts, Shape
    <3> QED
      BY <1>2, <3>1 DEF Deliver
  <2> QED
    BY <2>1 DEF Accounts, Shape, PCs
<1>9. batch[l] = << >> /\ l \notin stale
  BY <1>3 DEF Accounts, Batches
<1>10. p \in Nat /\ q \in Nat /\ base.next \in Nat /\ base.next <= p
       /\ \A e \in base.skipped : e \in Nat /\ e < p
  BY <1>1, Length DEF Accounts, Behind, Shape
<1>11. \A m \in Loops \ stale : \A i \in 1 .. Len(batch[m]) :
           /\ base.next <= batch[m][i] /\ batch[m][i] < p
           /\ batch[m][i] \notin base.skipped /\ batch[m][i] \in Nat
  <2> TAKE m \in Loops \ stale
  <2> TAKE i \in 1 .. Len(batch[m])
  <2>1. batch[m] \in Seq(1 .. N)
    BY DEF Accounts, Shape
  <2>2. batch[m][i] \in 1 .. N
    BY <2>1, ElementOf
  <2> QED
    BY <1>1, <2>2, Length DEF Accounts, Batches
<1>12. \A i \in 1 .. Len(kept) : kept[i] \in p .. q /\ kept[i] \in filter
  BY <1>4 DEF Contains
<1>13. Shape'
  <2>1. pos' \in 1 .. N + 1
    BY <1>3, Length
  <2>2. world' \in Seq(1 .. N) /\ stale' \subseteq Loops
    BY <1>3 DEF Accounts, Shape
  <2> QED
    BY <1>6, <1>7, <1>8, <2>1, <2>2 DEF Shape
<1>14. Batches'
  <2> SUFFICES ASSUME NEW m \in Loops
               PROVE  /\ batch'[m] # << >> => pc'[m] \in {"sleep", "apply"}
                      /\ Increasing(batch'[m])
                      /\ m \in stale' => batch'[m] # << >>
                      /\ m \notin stale' =>
                            \A i \in 1 .. Len(batch'[m]) :
                                /\ base'.next <= batch'[m][i]
                                /\ batch'[m][i] < pos'
                                /\ batch'[m][i] \notin base'.skipped
    BY DEF Batches, Increasing
  <2>1. CASE m = l
    <3>1. \A i \in 1 .. Len(kept) :
              /\ base.next <= kept[i] /\ kept[i] < q + 1
              /\ kept[i] \notin base.skipped \cup S
      BY <1>5, <1>10, <1>12
    <3> QED
      BY <1>3, <1>4, <1>6, <1>7, <1>8, <2>1, <3>1
  <2>2. CASE m # l
    <3>1. /\ batch[m] # << >> => pc[m] \in {"sleep", "apply"}
          /\ Increasing(batch[m])
          /\ m \in stale => batch[m] # << >>
      BY DEF Accounts, Batches
    <3>2. m \notin stale =>
              \A i \in 1 .. Len(batch[m]) :
                  /\ base.next <= batch[m][i] /\ batch[m][i] < q + 1
                  /\ batch[m][i] \notin base.skipped \cup S
      BY <1>5, <1>10, <1>11
    <3> QED
      BY <1>3, <1>6, <1>7, <1>8, <2>2, <3>1, <3>2
  <2> QED
    BY <2>1, <2>2
<1>15. Apart'
  <2> SUFFICES ASSUME NEW m \in Loops \ stale', NEW k \in Loops \ stale', m # k,
                      NEW i \in 1 .. Len(batch'[m]),
                      NEW j \in 1 .. Len(batch'[k])
               PROVE  batch'[m][i] # batch'[k][j]
    BY DEF Apart
  <2>1. m \in Loops \ stale /\ k \in Loops \ stale
    BY <1>3, <1>9
  <2>2. CASE m = l
    <3>1. batch'[m] = kept /\ batch'[k] = batch[k]
      BY <1>7, <2>2
    <3>2. kept[i] \in p .. q /\ batch[k][j] < p /\ batch[k][j] \in Nat
      BY <1>11, <1>12, <2>1, <3>1
    <3> QED
      BY <1>10, <3>1, <3>2
  <2>3. CASE k = l
    <3>1. batch'[k] = kept /\ batch'[m] = batch[m]
      BY <1>7, <2>3
    <3>2. kept[j] \in p .. q /\ batch[m][i] < p /\ batch[m][i] \in Nat
      BY <1>11, <1>12, <2>1, <3>1
    <3> QED
      BY <1>10, <3>1, <3>2
  <2>4. CASE m # l /\ k # l
    <3>1. batch'[m] = batch[m] /\ batch'[k] = batch[k]
      BY <1>7, <2>4
    <3>2. \A x \in 1 .. Len(batch[m]), y \in 1 .. Len(batch[k]) :
              batch[m][x] # batch[k][y]
      BY <2>1 DEF Accounts, Apart
    <3> QED
      BY <3>1, <3>2
  <2> QED
    BY <2>2, <2>3, <2>4
<1>16. Behind'
  <2>1. base.next <= q + 1
    BY <1>10
  <2>2. \A e \in base.skipped \cup S : e < q + 1
    BY <1>5, <1>10
  <2>3. base.rebuilt + Len(base.stale) <= Len(world)
    BY DEF Accounts, Behind
  <2> QED
    BY <1>3, <1>6, <2>1, <2>2, <2>3 DEF Behind
<1>17. ASSUME NEW e \in 1 .. N
       PROVE  Balance(world', base', pos', stale', batch', e)
  <2>1. Balance(world, base, pos, stale, batch, e)
    BY Balanced DEF Accounts
  <2>2. Held(stale', batch', e) <=> Held(stale, batch, e) \/ Contains(kept, e)
    <3>1. ~Contains(batch[l], e)
      BY <1>9 DEF Contains
    <3> QED
      BY <1>3, <1>7, <1>9, <3>1 DEF Held
  <2>3. (e < q + 1 /\ e \notin base.skipped \cup S /\ ~Held(stale', batch', e))
          <=> (e < p /\ e \notin base.skipped /\ ~Held(stale, batch, e))
    <3>1. e \in Nat
      BY Length
    <3>2. CASE e < p
      <4>1. e \notin p .. q /\ e < q + 1
        BY <1>10, <3>1, <3>2
      <4> QED
        BY <1>4, <1>5, <2>2, <3>2, <4>1
    <3>3. CASE ~(e < p) /\ e < q + 1
      <4>1. e \in p .. q
        BY <1>10, <3>1, <3>3
      <4> QED
        BY <1>4, <1>5, <2>2, <3>3, <4>1
    <3>4. CASE ~(e < q + 1)
      <4>1. ~(e < p)
        BY <1>10, <3>1, <3>4
      <4> QED
        BY <3>4, <4>1
    <3> QED
      BY <3>2, <3>3, <3>4
  <2> QED
    BY <1>1, <1>3, <1>6, <2>1, <2>3 DEF Balance
<1> QED
  BY <1>13, <1>14, <1>15, <1>16, <1>17, Balanced DEF Accounts

(* What a client does to the events: nothing, or start them afresh.        *)
LEMMA HandledAccounts ==
    ASSUME Accounts, NEW c \in Clients, Handle(c) PROVE Accounts'
<1> DEFINE Still == /\ UNCHANGED <<pos, world, base, batch, stale>>
                    /\ pc' \in [Loops -> PCs]
                    /\ \A l \in Loops :
                           batch[l] # << >> => pc'[l] \in {"sleep", "apply"}
<1>0. ASSUME Still PROVE Accounts'
  BY <1>0, Quiet
<1>1. ASSUME UNCHANGED <<pos, world, base, batch, stale, pc>> PROVE Still
  BY <1>1 DEF Accounts, Shape, Batches
<1>2. CASE Load(c)
  <2>1. CASE Reposition(1, 0)
    <3>1. 1 \in 1 .. N + 1 /\ 0 \in 0 .. N
      BY Length
    <3> QED
      BY <1>2, <2>1, <3>1, Repositioned DEF Load
  <2>2. CASE ~Reposition(1, 0)
    BY <1>0, <1>1, <1>2, <2>2 DEF Load, replayer, history
  <2> QED
    BY <2>1, <2>2
<1>3. CASE Ignore(c)
  BY <1>0, <1>1, <1>3 DEF Ignore, replayer, history
<1>4. CASE Play(c)
  <2>1. PICK l \in Loops : pc[l] = "off" /\ pc' = [pc EXCEPT ![l] = "check"]
    BY <1>4 DEF Play
  <2>2. UNCHANGED <<pos, world, base, batch, stale>>
    BY <1>4 DEF Play
  <2>3. pc' \in [Loops -> PCs]
    BY <2>1 DEF Accounts, Shape, PCs
  <2>4. batch[l] = << >>
    BY <2>1 DEF Accounts, Batches
  <2>5. \A m \in Loops : batch[m] # << >> => pc'[m] \in {"sleep", "apply"}
    BY <2>1, <2>4 DEF Accounts, Batches, Shape
  <2> QED
    BY <1>0, <2>2, <2>3, <2>5
<1>5. CASE Pause(c)
  BY <1>0, <1>1, <1>5 DEF Pause, history
<1>6. CASE Seek(c)
  <2>1. PICK t : t = cmd[c].to
    OBVIOUS
  <2>2. PICK A, B : /\ A = {i \in 1 .. N : Ts[i] < t}
                    /\ B = {i \in 1 .. N : Ts[i] <= t}
    OBVIOUS
  <2>3. Cardinality(A) \in 0 .. N /\ Cardinality(B) \in 0 .. N
    BY <2>2, Numbers
  <2>4. Cardinality(A) + 1 \in 1 .. N + 1
    BY <2>3, Length
  <2>5. /\ Reposition(Cardinality(A) + 1, Cardinality(B))
        /\ UNCHANGED <<pc, batch>>
    BY <1>6, <2>1, <2>2 DEF Seek
  <2> QED
    BY <2>3, <2>4, <2>5, Repositioned
<1>7. CASE Speed(c)
  BY <1>0, <1>1, <1>7 DEF Speed, replayer, history
<1>8. CASE SetFilter(c)
  BY <1>0, <1>1, <1>8 DEF SetFilter, history
<1> QED
  BY <1>2, <1>3, <1>4, <1>5, <1>6, <1>7, <1>8 DEF Handle

(* What a loop does to them besides fetching and applying a batch.         *)
LEMMA LoopAccounts ==
    ASSUME Accounts, NEW l \in Loops, LoopStep(l) PROVE Accounts'
<1>0. ASSUME UNCHANGED <<pos, world, base, batch, stale>>,
             \/ pc' = pc
             \/ \E to \in PCs : /\ pc' = [pc EXCEPT ![l] = to]
                                /\ \/ batch[l] = << >>
                                   \/ to \in {"sleep", "apply"}
      PROVE  Accounts'
  <2>1. pc' \in [Loops -> PCs]
    BY <1>0 DEF Accounts, Shape
  <2>2. \A m \in Loops : batch[m] # << >> => pc'[m] \in {"sleep", "apply"}
    BY <1>0 DEF Accounts, Shape, Batches
  <2> QED
    BY <1>0, <2>1, <2>2, Quiet
<1>1. pc[l] \notin {"sleep", "apply"} => batch[l] = << >>
  BY DEF Accounts, Batches
<1>2. CASE Request(l)
  BY <1>0, <1>2 DEF Request, replayer, history
<1>3. CASE Check(l)
  <2>1. PICK to \in {"batch", "off"} : pc' = [pc EXCEPT ![l] = to]
    BY <1>3 DEF Check
  <2> QED
    BY <1>0, <1>1, <1>3, <2>1 DEF Check, replayer, history, PCs
<1>4. CASE Exhausted(l)
  BY <1>0, <1>1, <1>4 DEF Exhausted, replayer, history, PCs
<1>5. CASE Collect(l)
  BY <1>5, Fetched
<1>6. CASE Awake(l)
  <2>1. PICK to \in {"batch", "apply"} :
            /\ pc' = [pc EXCEPT ![l] = to]
            /\ batch[l] = << >> \/ to = "apply"
    BY <1>6 DEF Awake
  <2> QED
    BY <1>0, <1>6, <2>1 DEF Awake, history, PCs
<1>7. CASE Apply(l)
  BY <1>7, Applied
<1>8. CASE Finish(l)
  BY <1>0, <1>1, <1>8 DEF Finish, history, PCs
<1> QED
  BY <1>2, <1>3, <1>4, <1>5, <1>6, <1>7, <1>8
     DEF LoopStep, TimerFires, SeekWakes

(* Every step keeps the accounts.                                          *)
LEMMA AccountsNext ==
    ASSUME Accounts, [Next]_vars PROVE Accounts'
<1>1. CASE UNCHANGED vars
  BY <1>1, Quiet DEF vars, replayer, history, Accounts, Shape, Batches
<1>2. ASSUME NEW c \in Clients, NEW m \in Commands, Send(c, m) PROVE Accounts'
  BY <1>2, Quiet DEF Send, replayer, history, Accounts, Shape, Batches
<1> QED
  BY <1>1, <1>2, HandledAccounts, LoopAccounts DEF Next

(* Every event the position has passed since the last seek or load is in   *)
(* the world, in the hands of exactly one loop, or was skipped by a        *)
(* filter, and none of them is in the world twice: for any trace, any      *)
(* number of playback loops, and wherever seeks, loads and filter changes  *)
(* fall between next_batch() and process_events().                         *)
THEOREM AccountsCorrect == Spec => []EventsAccounted
<1>1. Accounts => EventsAccounted
  BY DEF Accounts
<1> QED
  BY <1>1, AccountsInit, AccountsNext, PTL DEF Spec

------------------------------------------------------------------------------
(* A pause *)

(* A permit of play_notify is left only by a Play, which nothing fetched   *)
(* late has followed yet; while the replayer plays nothing is late.        *)
Lateness ==
    /\ late \in {0, 1}
    /\ playing \/ playPermit => late = 0

(* Every step keeps it.                                                    *)
LEMMA LatenessNext ==
    ASSUME Lateness, [Next]_vars PROVE Lateness'
<1>0. ASSUME UNCHANGED <<late, playPermit>>, (playing' = playing) \/ ~playing'
      PROVE  Lateness'
  BY <1>0 DEF Lateness
<1>1. CASE UNCHANGED vars
  BY <1>0, <1>1 DEF vars, replayer, history
<1>2. ASSUME NEW c \in Clients, NEW m \in Commands, Send(c, m) PROVE Lateness'
  BY <1>0, <1>2 DEF Send, replayer, history
<1>3. ASSUME NEW c \in Clients, Handle(c) PROVE Lateness'
  <2>1. CASE Load(c)
    BY <1>0, <2>1 DEF Load, replayer, history, Lateness
  <2>2. CASE Ignore(c)
    BY <1>0, <2>2 DEF Ignore, replayer, history
  <2>3. CASE Play(c)
    BY <2>3 DEF Play, Lateness
  <2>4. CASE Pause(c)
    BY <1>0, <2>4 DEF Pause, history
  <2>5. CASE Seek(c)
    BY <1>0, <2>5 DEF Seek
  <2>6. CASE Speed(c)
    BY <1>0, <2>6 DEF Speed, replayer, history
  <2>7. CASE SetFilter(c)
    BY <1>0, <2>7 DEF SetFilter, history
  <2> QED
    BY <1>3, <2>1, <2>2, <2>3, <2>4, <2>5, <2>6, <2>7 DEF Handle
<1>4. ASSUME NEW l \in Loops, LoopStep(l) PROVE Lateness'
  <2>1. CASE Collect(l)
    <3>1. /\ playing' = playing /\ (playing \/ playPermit)
          /\ playPermit' = (playing /\ playPermit)
          /\ late' = IF playing THEN late ELSE late + 1
      BY <2>1 DEF Collect, MayFetch
    <3>2. CASE playing
      <4>1. late = 0 /\ late' = late
        BY <3>1, <3>2 DEF Lateness
      <4> QED
        BY <4>1 DEF Lateness
    <3>3. CASE ~playing
      <4>1. late = 0 /\ late' = late + 1
        BY <3>1, <3>3 DEF Lateness
      <4>2. ~playing' /\ ~playPermit'
        <5>1. (playing /\ playPermit) = FALSE
          BY <3>3
        <5>2. playPermit' = FALSE
          BY <3>1, <5>1
        <5>3. ~playing'
          BY <2>1, <3>3 DEF Collect
        <5> QED
          BY <5>2, <5>3
      <4>3. late' = 1
        BY <4>1
      <4> QED
        BY <4>2, <4>3 DEF Lateness
    <3> QED
      BY <3>2, <3>3
  <2>2. CASE ~Collect(l)
    BY <1>0, <1>4, <2>2
       DEF LoopStep, Request, Check, Exhausted, TimerFires, SeekWakes, Awake,
           Apply, Finish, replayer, history
  <2> QED
    BY <2>1, <2>2
<1> QED
  BY <1>1, <1>2, <1>3, <1>4 DEF Next

(* However many playback loops there are and however the commands fall, at *)
(* most one batch is fetched after a Pause before the next Play: the one   *)
(* permit of play_notify is all that is left over.                         *)
THEOREM LateCorrect == Spec => []OneLateBatch
<1>1. Init => Lateness
  BY DEF Init, Lateness
<1>2. Lateness /\ [Next]_vars => Lateness'
  BY LatenessNext
<1>3. Lateness => OneLateBatch
  BY DEF Lateness, OneLateBatch
<1> QED
  BY <1>1, <1>2, <1>3, PTL DEF Spec

------------------------------------------------------------------------------
(* One loop at a time *)

Alive(l) == pc[l] # "off"
PlayInHand(c) == HasInHand(c, "play")

(* The loops alive and the Plays sent are one at most in all.              *)
OneLoop ==
    Alone =>
    /\ \A l, m \in Loops : Alive(l) /\ Alive(m) => l = m
    /\ \A c, d \in Clients : PlayInHand(c) /\ PlayInHand(d) => c = d
    /\ \A l \in Loops, c \in Clients : ~(Alive(l) /\ PlayInHand(c))

(* What has been played since the last seek is the end of the world, from  *)
(* this index on.                                                          *)
FirstPlayed == base.rebuilt + Len(base.stale) + 1

(* What was played lies behind the position and before any fresh batch;    *)
(* nothing is played while a stale batch is waiting.                       *)
PlayedFirst ==
    Alone =>
    \A i \in FirstPlayed .. Len(world) :
        /\ world[i] < pos
        /\ stale = {}
        /\ \A l \in Loops : \A j \in 1 .. Len(batch[l]) :
               world[i] < batch[l][j]

CommandType == cmd \in [Clients -> Commands \cup {NoCommand}]

Ordered == Accounts /\ CommandType /\ OneLoop /\ PlayedFirst /\ InOrder

(* A client has one command in hand or none.                               *)
LEMMA CommandsNext ==
    ASSUME CommandType, [Next]_vars PROVE CommandType'
<1>1. \/ cmd' = cmd
      \/ \E c \in Clients, m \in Commands \cup {NoCommand} :
             cmd' = [cmd EXCEPT ![c] = m]
  <2>1. CASE UNCHANGED vars
    BY <2>1 DEF vars
  <2>2. ASSUME NEW c \in Clients, NEW m \in Commands, Send(c, m)
        PROVE  cmd' = [cmd EXCEPT ![c] = m]
    BY <2>2 DEF Send
  <2>3. ASSUME NEW c \in Clients, Handle(c)
        PROVE  cmd' = [cmd EXCEPT ![c] = NoCommand]
    BY <2>3
       DEF Handle, Load, Ignore, Play, Pause, Seek, Speed, SetFilter, Handles
  <2>4. ASSUME NEW l \in Loops, LoopStep(l) PROVE cmd' = cmd
    BY <2>4 DEF LoopStep, Request, Check, Exhausted, Collect, TimerFires,
                SeekWakes, Awake, Apply, Finish
  <2> QED
    BY <2>1, <2>2, <2>3, <2>4 DEF Next
<1> QED
  BY <1>1 DEF CommandType

(* The bound on the loops alive keeps to one what may play.                *)
LEMMA OneLoopNext ==
    ASSUME CommandType, pc \in [Loops -> PCs], OneLoop, [Next]_vars
    PROVE  OneLoop'
<1> SUFFICES ASSUME Alone'
             PROVE  (/\ \A l, m \in Loops : Alive(l) /\ Alive(m) => l = m
                     /\ \A c, d \in Clients :
                            PlayInHand(c) /\ PlayInHand(d) => c = d
                     /\ \A l \in Loops, c \in Clients :
                            ~(Alive(l) /\ PlayInHand(c)))'
  BY DEF OneLoop
<1> DEFINE Goal == /\ \A l, m \in Loops : Alive(l) /\ Alive(m) => l = m
                   /\ \A c, d \in Clients :
                          PlayInHand(c) /\ PlayInHand(d) => c = d
                   /\ \A l \in Loops, c \in Clients :
                          ~(Alive(l) /\ PlayInHand(c))
<1>1. Alone
  BY DEF Alone, Next, vars
<1>2. /\ \A l, m \in Loops : Alive(l) /\ Alive(m) => l = m
      /\ \A c, d \in Clients : PlayInHand(c) /\ PlayInHand(d) => c = d
      /\ \A l \in Loops, c \in Clients : ~(Alive(l) /\ PlayInHand(c))
  BY <1>1 DEF OneLoop
<1>3. ASSUME \A l \in Loops : pc'[l] # "off" => pc[l] # "off",
             \A c \in Clients : PlayInHand(c)' => PlayInHand(c)
      PROVE  Goal'
  BY <1>2, <1>3 DEF Alive
<1>4. CASE UNCHANGED vars
  BY <1>3, <1>4 DEF vars, PlayInHand, HasInHand
<1>5. ASSUME NEW c \in Clients, NEW m \in Commands, Send(c, m) PROVE Goal'
  <2>1. cmd' = [cmd EXCEPT ![c] = m] /\ pc' = pc
    BY <1>5 DEF Send
  <2>2. \A d \in Clients \ {c} : cmd'[d] = cmd[d]
    BY <2>1 DEF CommandType
  <2>3. cmd'[c] = m
    BY <2>1 DEF CommandType
  <2>4. CASE m.op = "play"
    <3>1. PICK A, B : /\ A = {l \in Loops : pc[l] # "off"}
                      /\ B = {d \in Clients : HasInHand(d, "play")}
      OBVIOUS
    <3>2. Cardinality(A) + Cardinality(B) < 1
      BY <1>1, <1>5, <2>4, <3>1 DEF Send, Alone
    <3>3. IsFiniteSet(A) /\ IsFiniteSet(B)
      <4>1. A \in SUBSET Loops /\ B \in SUBSET Clients
        BY <3>1
      <4> QED
        BY <4>1, FS_Subset, PlaybackAssumption
    <3>4. Cardinality(A) \in Nat /\ Cardinality(B) \in Nat
      BY <3>3, FS_CardinalityType
    <3>5. Cardinality(A) = 0 /\ Cardinality(B) = 0
      BY <3>2, <3>4
    <3>6. A = {} /\ B = {}
      BY <3>3, <3>5, FS_EmptySet
    <3>7. \A l \in Loops : pc'[l] = "off"
      BY <2>1, <3>1, <3>6
    <3>8. \A d \in Clients \ {c} : ~PlayInHand(d)'
      BY <2>2, <3>1, <3>6 DEF PlayInHand, HasInHand
    <3> QED
      BY <3>7, <3>8 DEF Alive
  <2>5. CASE m.op # "play"
    <3>1. \A d \in Clients : PlayInHand(d)' => PlayInHand(d)
      BY <2>2, <2>3, <2>5 DEF PlayInHand, HasInHand
    <3> QED
      BY <1>3, <2>1, <3>1
  <2> QED
    BY <2>4, <2>5
<1>6. ASSUME NEW c \in Clients, Handle(c) PROVE Goal'
  <2>1. cmd' = [cmd EXCEPT ![c] = NoCommand]
    BY <1>6
       DEF Handle, Load, Ignore, Play, Pause, Seek, Speed, SetFilter, Handles
  <2>2. \A d \in Clients : PlayInHand(d)' => d # c /\ PlayInHand(d)
    BY <2>1 DEF CommandType, PlayInHand, HasInHand
  <2>3. CASE Play(c)
    <3>1. PICK l \in Loops : pc' = [pc EXCEPT ![l] = "check"]
      BY <2>3 DEF Play
    <3>2. PlayInHand(c)
      BY <2>3 DEF Play, Handles, PlayInHand
    <3>3. \A m \in Loops : pc[m] = "off"
      BY <1>2, <3>2 DEF Alive
    <3>4. \A m \in Loops : pc'[m] # "off" => m = l
      BY <3>1, <3>3
    <3>5. \A d \in Clients : ~PlayInHand(d)'
      BY <1>2, <2>2, <3>2
    <3> QED
      BY <3>4, <3>5 DEF Alive
  <2>4. CASE ~Play(c)
    <3>1. pc' = pc
      BY <1>6, <2>4 DEF Handle, Load, Ignore, Pause, Seek, Speed, SetFilter
    <3> QED
      BY <1>3, <2>2, <3>1
  <2> QED
    BY <2>3, <2>4
<1>7. ASSUME NEW l \in Loops, LoopStep(l) PROVE Goal'
  <2>1. cmd' = cmd
    BY <1>7 DEF LoopStep, Request, Check, Exhausted, Collect, TimerFires,
                SeekWakes, Awake, Apply, Finish
  <2>2. pc' = pc \/ (pc[l] # "off" /\ \E to : pc' = [pc EXCEPT ![l] = to])
    BY <1>7 DEF LoopStep, Request, Check, Exhausted, Collect, Deliver,
                TimerFires, SeekWakes, Awake, Apply, Finish
  <2>3. \A m \in Loops : pc'[m] # "off" => pc[m] # "off"
    BY <2>2
  <2>4. \A c \in Clients : PlayInHand(c)' => PlayInHand(c)
    BY <2>1 DEF PlayInHand, HasInHand
  <2> QED
    BY <1>3, <2>3, <2>4
<1> QED
  BY <1>4, <1>5, <1>6, <1>7 DEF Next

(* What a step can do to the events.                                       *)
LEMMA StepKinds ==
    ASSUME [Next]_vars
    PROVE  \/ UNCHANGED <<pos, world, base, batch, stale>>
           \/ \E next \in 1 .. N + 1, k \in 0 .. N : Reposition(next, k)
           \/ \E l \in Loops : Collect(l) \/ Apply(l)
<1> DEFINE Still == UNCHANGED <<pos, world, base, batch, stale>>
           Moved == \E next \in 1 .. N + 1, k \in 0 .. N : Reposition(next, k)
<1>1. ASSUME UNCHANGED vars PROVE Still
  BY <1>1 DEF vars, replayer, history
<1>2. ASSUME NEW c \in Clients, NEW m \in Commands, Send(c, m) PROVE Still
  BY <1>2 DEF Send, replayer, history
<1>3. ASSUME NEW c \in Clients, Handle(c) PROVE Still \/ Moved
  <2>1. CASE Load(c)
    <3>1. 1 \in 1 .. N + 1 /\ 0 \in 0 .. N
      BY Length
    <3>2. Reposition(1, 0) => Moved
      BY <3>1
    <3> HIDE DEF Moved
    <3> QED
      BY <2>1, <3>2 DEF Load, replayer, history
  <2>2. CASE Seek(c)
    <3>1. PICK t : t = cmd[c].to
      OBVIOUS
    <3>2. PICK A, B : /\ A = {i \in 1 .. N : Ts[i] < t}
                      /\ B = {i \in 1 .. N : Ts[i] <= t}
      OBVIOUS
    <3>3. Cardinality(A) \in 0 .. N /\ Cardinality(B) \in 0 .. N
      BY <3>2, Numbers
    <3>4. Cardinality(A) + 1 \in 1 .. N + 1
      BY <3>3, Length
    <3>5. Reposition(Cardinality(A) + 1, Cardinality(B))
      BY <2>2, <3>1, <3>2 DEF Seek
    <3> QED
      BY <3>3, <3>4, <3>5
  <2>3. CASE ~Load(c) /\ ~Seek(c)
    <3> HIDE DEF Moved
    <3> QED
      BY <1>3, <2>3
         DEF Handle, Ignore, Play, Pause, Speed, SetFilter, replayer, history
  <2> QED
    BY <2>1, <2>2, <2>3
<1>4. ASSUME NEW l \in Loops, LoopStep(l), ~Collect(l), ~Apply(l) PROVE Still
  BY <1>4 DEF LoopStep, Request, Check, Exhausted, TimerFires, SeekWakes,
              Awake, Finish, replayer, history
<1> HIDE DEF Still, Moved
<1>5. Still \/ Moved \/ \E l \in Loops : Collect(l) \/ Apply(l)
  <2>1. CASE UNCHANGED vars
    BY <1>1, <2>1
  <2>2. CASE \E c \in Clients, m \in Commands : Send(c, m)
    BY <1>2, <2>2
  <2>3. CASE \E c \in Clients : Handle(c)
    BY <1>3, <2>3
  <2>4. CASE \E l \in Loops : LoopStep(l)
    BY <1>4, <2>4
  <2> QED
    BY <2>1, <2>2, <2>3, <2>4 DEF Next
<1> QED
  BY <1>5 DEF Still, Moved

(* What arrives, arrives in order.                                         *)
LEMMA ArrivalNext ==
    ASSUME Accounts, OneLoop, PlayedFirst, InOrder, [Next]_vars
    PROVE  PlayedFirst' /\ InOrder'
<1> DEFINE First == \A i \in FirstPlayed .. Len(world) :
                        /\ world[i] < pos
                        /\ stale = {}
                        /\ \A l \in Loops : \A j \in 1 .. Len(batch[l]) :
                               world[i] < batch[l][j]
           Sorted == \A i, j \in FirstPlayed .. Len(world) :
                         i < j => world[i] < world[j]
<1> SUFFICES ASSUME Alone' PROVE First' /\ Sorted'
  BY DEF PlayedFirst, InOrder, FirstPlayed
<1>1. Alone
  BY DEF Alone, Next, vars
<1>2. First /\ Sorted
  BY <1>1 DEF PlayedFirst, InOrder, FirstPlayed
<1>3. CASE UNCHANGED <<pos, world, base, batch, stale>>
  BY <1>2, <1>3 DEF FirstPlayed
<1>4. ASSUME NEW next \in 1 .. N + 1, NEW k \in 0 .. N, Reposition(next, k)
      PROVE  First' /\ Sorted'
  <2>1. /\ world' = Prefix(k)
        /\ base' = [next |-> next, rebuilt |-> k, stale |-> << >>,
                    skipped |-> {}]
    BY <1>4 DEF Reposition
  <2>2. FirstPlayed' = k + 0 + 1
    BY <2>1 DEF FirstPlayed
  <2>3. Len(world') = k /\ k \in Nat
    BY <2>1, Length DEF Prefix
  <2>4. FirstPlayed' .. Len(world') = {}
    BY <2>2, <2>3
  <2> QED
    BY <2>4
<1>5. PICK f \in Nat, n \in Nat : f = FirstPlayed /\ n = Len(world)
  <2>1. FirstPlayed \in Nat /\ Len(world) \in Nat
    BY Length DEF Accounts, Shape, FirstPlayed
  <2> QED
    BY <2>1
<1>6. \A i \in f .. n : world[i] \in 1 .. N
  <2>1. base.rebuilt \in Nat /\ Len(base.stale) \in Nat
    BY Length DEF Accounts, Shape
  <2>2. 1 <= f
    BY <1>5, <2>1 DEF FirstPlayed
  <2>3. world \in Seq(1 .. N)
    BY DEF Accounts, Shape
  <2>4. \A i \in f .. n : i \in 1 .. Len(world)
    BY <1>5, <2>2
  <2> QED
    BY <2>3, <2>4, ElementOf
<1>7. ASSUME NEW l \in Loops, Collect(l) PROVE First' /\ Sorted'
  <2>0. PICK p \in 1 .. N : p = pos
    BY <1>7, Length DEF Accounts, Shape, Collect
  <2>1. PICK q \in p .. N : p = pos /\ q = BatchEnd
    BY <2>0, BatchEnds
  <2>2. PICK range, kept, S :
            /\ range = SubSeq(Prefix(N), p, q)
            /\ kept = Passing(range, filter)
            /\ batch' = [batch EXCEPT ![l] = kept]
            /\ base' = [base EXCEPT !.skipped = S]
    BY <1>7, <2>1 DEF Collect
  <2>3. pos' = q + 1 /\ world' = world /\ stale' = stale \ {l}
    BY <1>7, <2>1 DEF Collect
  <2>4. \A i \in 1 .. Len(kept) : kept[i] \in p .. q
    <3>1. \A e : Contains(kept, e) <=> e \in (p .. q) \cap filter
      BY <2>2, Collected
    <3> QED
      BY <3>1 DEF Contains
  <2>5. FirstPlayed' = f /\ Len(world') = n
    <3>1. PICK x \in [next : 1 .. N + 1, rebuilt : 0 .. N,
                      stale : Seq(1 .. N), skipped : SUBSET (1 .. N)] :
              x = base
      BY DEF Accounts, Shape
    <3>2. base' = [x EXCEPT !.skipped = S]
      BY <2>2, <3>1
    <3>3. base'.rebuilt = base.rebuilt /\ base'.stale = base.stale
      BY <3>1, <3>2
    <3> QED
      BY <1>5, <2>3, <3>3 DEF FirstPlayed
  <2>6. /\ batch'[l] = kept
        /\ \A m \in Loops \ {l} : batch'[m] = batch[m]
    BY <2>2 DEF Accounts, Shape
  <2>7. ASSUME NEW i \in f .. n
        PROVE  /\ world'[i] < pos' /\ stale' = {}
               /\ \A m \in Loops : \A j \in 1 .. Len(batch'[m]) :
                      world'[i] < batch'[m][j]
    <3>1. /\ world[i] < p /\ stale = {}
          /\ \A m \in Loops : \A j \in 1 .. Len(batch[m]) :
                 world[i] < batch[m][j]
      BY <1>2, <1>5, <2>1
    <3>2. world[i] \in Nat /\ p \in Nat
      BY <1>6, Length
    <3>3. world[i] < q + 1
      BY <3>1, <3>2
    <3>4. \A j \in 1 .. Len(kept) : world[i] < kept[j]
      BY <2>4, <3>1, <3>2
    <3> QED
      BY <2>3, <2>6, <3>1, <3>3, <3>4
  <2>8. First'
    BY <2>5, <2>7
  <2>9. Sorted'
    BY <1>2, <1>5, <2>3, <2>5
  <2> QED
    BY <2>8, <2>9
<1>8. ASSUME NEW l \in Loops, Apply(l) PROVE First' /\ Sorted'
  <2>1. /\ pc[l] = "apply" /\ pos' = pos
        /\ world' = world \o batch[l]
        /\ base' = IF l \in stale THEN [base EXCEPT !.stale = @ \o batch[l]]
                   ELSE base
        /\ stale' = stale \ {l}
        /\ batch' = [batch EXCEPT ![l] = << >>]
    BY <1>8 DEF Apply, replayer
  <2>2. PICK b \in Seq(1 .. N), w \in Seq(1 .. N), z \in Seq(1 .. N) :
            b = batch[l] /\ w = world /\ z = base.stale
    BY DEF Accounts, Shape
  <2>3. PICK k \in Nat : k = Len(b)
    OBVIOUS
  <2>4. /\ Len(world') = n + k
        /\ \A i \in 1 .. n : world'[i] = w[i]
        /\ \A i \in n + 1 .. n + k : world'[i] = b[i - n]
    BY <1>5, <2>1, <2>2, <2>3
  <2>5. 1 <= f
    <3>1. base.rebuilt \in Nat /\ Len(base.stale) \in Nat
      BY Length DEF Accounts, Shape
    <3> QED
      BY <1>5, <3>1 DEF FirstPlayed
  <2>6. CASE l \in stale
    <3>1. n < f
      <4>1. f .. n = {}
        BY <1>2, <1>5, <2>6
      <4>2. f <= n => f \in f .. n
        OBVIOUS
      <4> QED
        BY <4>1, <4>2
    <3>2. PICK u : u = z \o b
      OBVIOUS
    <3>4. base'.rebuilt = base.rebuilt /\ base'.stale = u
      <4>1. PICK x \in [next : 1 .. N + 1, rebuilt : 0 .. N,
                        stale : Seq(1 .. N), skipped : SUBSET (1 .. N)] :
                x = base
        BY DEF Accounts, Shape
      <4>2. base' = [x EXCEPT !.stale = u]
        BY <2>1, <2>2, <2>6, <3>2, <4>1
      <4> QED
        BY <4>1, <4>2
    <3>5. Len(u) = Len(z) + k /\ Len(z) \in Nat
      BY <2>3, <3>2
    <3>6. PICK r \in Nat, d \in Nat :
              r = base.rebuilt /\ d = Len(z) /\ r + d + 1 = f
      BY <1>5, <2>2, Length DEF Accounts, Shape, FirstPlayed
    <3>7. FirstPlayed' = f + k
      <4>1. base'.rebuilt = r /\ Len(base'.stale) = d + k
        BY <3>4, <3>5, <3>6
      <4>2. FirstPlayed' = r + (d + k) + 1
        BY <4>1 DEF FirstPlayed
      <4>3. r + d + 1 = f
        BY <3>6
      <4>4. r + (d + k) + 1 = f + k
        BY <4>3
      <4> QED
        BY <4>2, <4>4
    <3>9. f + k .. n + k = {}
      BY <3>1
    <3> QED
      BY <2>4, <3>7, <3>9
  <2>7. CASE l \notin stale
    <3>1. FirstPlayed' = f
      BY <1>5, <2>1, <2>7 DEF FirstPlayed
    <3>2. Increasing(b) /\ \A j \in 1 .. k : b[j] < pos
      BY <2>2, <2>3, <2>7 DEF Accounts, Batches
    <3>3. \A m \in Loops \ {l} : batch[m] = << >>
      <4>1. \A m \in Loops \ {l} : ~Alive(m)
        BY <1>1, <2>1 DEF OneLoop, Alive
      <4> QED
        BY <4>1 DEF Accounts, Batches, Alive
    <3>4. stale' = {}
      BY <2>1, <3>3 DEF Accounts, Batches, Shape
    <3>5. \A m \in Loops : batch'[m] = << >> /\ Len(batch'[m]) = 0
      BY <2>1, <3>3 DEF Accounts, Shape
    <3>6. \A i \in f .. n : /\ i \in 1 .. n /\ w[i] < pos
                            /\ \A j \in 1 .. k : w[i] < b[j]
      <4> TAKE i \in f .. n
      <4>1. i \in 1 .. n
        BY <2>5
      <4> QED
        BY <1>2, <1>5, <2>2, <2>3, <4>1
    <3>7. \A i \in f .. n + k : i \in f .. n
                                \/ (i \in n + 1 .. n + k /\ i - n \in 1 .. k)
      OBVIOUS
    <3>8. First'
      <4> SUFFICES ASSUME NEW i \in f .. n + k
                   PROVE  /\ world'[i] < pos' /\ stale' = {}
                          /\ \A m \in Loops : \A j \in 1 .. Len(batch'[m]) :
                                 world'[i] < batch'[m][j]
        BY <2>4, <3>1
      <4>1. world'[i] < pos'
        BY <2>1, <2>4, <3>2, <3>6, <3>7
      <4>2. \A m \in Loops : 1 .. Len(batch'[m]) = {}
        BY <3>5
      <4> QED
        BY <3>4, <4>1, <4>2
    <3>9. Sorted'
      <4> SUFFICES ASSUME NEW i \in f .. n + k, NEW j \in f .. n + k, i < j
                   PROVE  world'[i] < world'[j]
        BY <2>4, <3>1
      <4>1. CASE j \in f .. n
        <5>1. i \in f .. n
          BY <4>1
        <5>2. w[i] < w[j]
          BY <1>2, <1>5, <2>2, <4>1, <5>1
        <5> QED
          BY <2>4, <3>6, <4>1, <5>1, <5>2
      <4>2. CASE i \in f .. n /\ j \notin f .. n
        <5>1. j \in n + 1 .. n + k /\ j - n \in 1 .. k
          BY <3>7, <4>2
        <5> QED
          BY <2>4, <3>6, <4>2, <5>1
      <4>3. CASE i \notin f .. n
        <5>1. /\ i \in n + 1 .. n + k /\ i - n \in 1 .. k
              /\ j \in n + 1 .. n + k /\ j - n \in 1 .. k /\ i - n < j - n
          BY <3>7, <4>3
        <5>2. b[i - n] < b[j - n]
          BY <2>3, <3>2, <5>1 DEF Increasing
        <5> QED
          BY <2>4, <5>1, <5>2
      <4> QED
        BY <4>1, <4>2, <4>3
    <3> QED
      BY <3>8, <3>9
  <2> QED
    BY <2>6, <2>7
<1> HIDE DEF First, Sorted
<1> QED
  BY <1>3, <1>4, <1>7, <1>8, StepKinds

(* With one playback loop alive at a time, the events played since the     *)
(* last seek or load reach the world in trace order, after whatever a      *)
(* batch fetched before it still added: no seek, pause or filter change    *)
(* between fetching and applying rearranges them.                          *)
THEOREM OrderCorrect == Spec => []InOrder
<1>1. ASSUME Init PROVE Ordered
  <2>1. CommandType
    BY <1>1 DEF Init, CommandType
  <2>2. OneLoop
    BY <1>1 DEF Init, OneLoop, Alive, PlayInHand, HasInHand
  <2>3. FirstPlayed .. Len(world) = {}
    <3>1. FirstPlayed = Len(world) + 0 + 1
      BY <1>1 DEF Init, FirstPlayed
    <3>2. Len(world) \in Nat
      BY <1>1, AccountsInit DEF Accounts, Shape
    <3> QED
      BY <3>1, <3>2
  <2>4. PlayedFirst /\ InOrder
    BY <2>3 DEF PlayedFirst, InOrder, FirstPlayed
  <2> QED
    BY <1>1, <2>1, <2>2, <2>4, AccountsInit DEF Ordered
<1>2. ASSUME Ordered, [Next]_vars PROVE Ordered'
  BY <1>2, AccountsNext, CommandsNext, OneLoopNext, ArrivalNext
     DEF Ordered, Accounts, Shape
<1>3. Ordered => InOrder
  BY DEF Ordered
<1> QED
  BY <1>1, <1>2, <1>3, PTL DEF Spec

------------------------------------------------------------------------------
(* What messages make of a view *)

(* What views and the messages on their way look like. How events change a *)
(* world does not matter: a client and the server do the same with them.   *)
View(w, f, s) == [world |-> w, fresh |-> f, status |-> s]
Snap(w, s) == [msg |-> "world_state", world |-> w, status |-> s]
Said(s) == [msg |-> "playback", status |-> s]

IsView(v) == \E w, f, s : v = View(w, f, s)

IsMsg(m) ==
    \/ \E w, s : m = Snap(w, s)
    \/ \E b : m = Gate!EventsMsg(b)
    \/ \E s : m = Said(s)

(* A snapshot replaces a view, events are applied to it, and an            *)
(* announcement changes its status.                                        *)
LEMMA ShowSnap ==
    \A v, w, s : \E f : Gate!Show(v, Snap(w, s)) = View(w, f, s)
<1> SUFFICES ASSUME NEW v, NEW w, NEW s
             PROVE  \E f : Gate!Show(v, Snap(w, s)) = View(w, f, s)
  OBVIOUS
<1>1. PICK f : f = TRUE
  OBVIOUS
<1>2. Gate!Show(v, Snap(w, s)) = View(w, f, s)
  BY <1>1 DEF Gate!Show, Snap, View
<1> QED
  BY <1>2

LEMMA ShowEvents ==
    \A w, f, s, b : Gate!Show(View(w, f, s), Gate!EventsMsg(b))
                       = View(Gate!ProcessEvents(w, b), f, s)
BY DEF Gate!Show, Gate!EventsMsg, View

LEMMA ShowSaid ==
    \A w, f, s, t : Gate!Show(View(w, f, s), Said(t)) = View(w, f, t)
BY DEF Gate!Show, Said, View

LEMMA ViewFields ==
    ASSUME NEW w, NEW f, NEW s
    PROVE  /\ View(w, f, s).world = w /\ View(w, f, s).fresh = f
           /\ View(w, f, s).status = s
BY DEF View

LEMMA ShowView ==
    ASSUME NEW v, IsView(v), NEW m, IsMsg(m)
    PROVE  IsView(Gate!Show(v, m))
<1>1. PICK w, f, s : v = View(w, f, s)
  BY DEF IsView
<1>2. \E x, g, t : Gate!Show(v, m) = View(x, g, t)
  <2>1. CASE \E x, t : m = Snap(x, t)
    BY <2>1, ShowSnap
  <2>2. CASE \E b : m = Gate!EventsMsg(b)
    BY <1>1, <2>2, ShowEvents
  <2>3. CASE \E t : m = Said(t)
    BY <1>1, <2>3, ShowSaid
  <2> QED
    BY <2>1, <2>2, <2>3 DEF IsMsg
<1> QED
  BY <1>2 DEF IsView

(* One after the other.                                                    *)
ShowStep(v, ms, f, i) == IF i = 0 THEN v ELSE Gate!Show(f[i - 1], ms[i])

LEMMA ShownSteps ==
    ASSUME NEW v, NEW E, NEW ms \in Seq(E)
    PROVE  \E F : /\ \A i \in 0 .. Len(ms) : F[i] = ShowStep(v, ms, F, i)
                  /\ Gate!Shown(v, ms) = F[Len(ms)]
<1> DEFINE Good(n) ==
               \E f : f = [i \in 0 .. n |-> ShowStep(v, ms, f, i)]
           G == {n \in Nat : n <= Len(ms) => Good(n)}
<1>1. Len(ms) \in Nat
  OBVIOUS
<1>2. 0 \in G
  <2>1. PICK f : f = [i \in 0 .. 0 |-> v]
    OBVIOUS
  <2>2. f = [i \in 0 .. 0 |-> ShowStep(v, ms, f, i)]
    BY <2>1 DEF ShowStep
  <2>3. Good(0)
    BY <2>2
  <2> HIDE DEF Good
  <2> QED
    BY <2>3
<1>3. ASSUME NEW n \in Nat, n \in G PROVE n + 1 \in G
  <2>1. CASE n + 1 <= Len(ms)
    <3>1. PICK f : f = [i \in 0 .. n |-> ShowStep(v, ms, f, i)]
      BY <1>1, <1>3, <2>1
    <3>2. PICK g : g = [i \in 0 .. n + 1 |->
                           IF i <= n THEN f[i] ELSE ShowStep(v, ms, f, i)]
      OBVIOUS
    <3>3. ASSUME NEW i \in 0 .. n + 1 PROVE g[i] = ShowStep(v, ms, g, i)
      <4>1. CASE i = 0
        <5>1. 0 \in 0 .. n /\ 0 \in 0 .. n + 1 /\ 0 <= n
          OBVIOUS
        <5>2. g[0] = f[0]
          BY <3>2, <5>1
        <5>3. f[0] = ShowStep(v, ms, f, 0)
          BY <3>1, <5>1
        <5> QED
          BY <4>1, <5>2, <5>3 DEF ShowStep
      <4>2. CASE i # 0
        <5>1. g[i - 1] = f[i - 1] /\ i - 1 \in 0 .. n
          BY <3>2, <4>2
        <5>2. i <= n => f[i] = ShowStep(v, ms, f, i)
          BY <3>1
        <5>3. g[i] = ShowStep(v, ms, f, i)
          BY <3>2, <5>2
        <5> QED
          BY <4>2, <5>1, <5>3 DEF ShowStep
      <4> QED
        BY <4>1, <4>2
    <3>4. Good(n + 1)
      BY <3>2, <3>3
    <3> HIDE DEF Good
    <3> QED
      BY <3>4
  <2>2. CASE ~(n + 1 <= Len(ms))
    BY <2>2
  <2> QED
    BY <2>1, <2>2
<1>4. Len(ms) \in G
  <2> HIDE DEF G
  <2> QED
    BY <1>1, <1>2, <1>3, Inductive
<1> DEFINE C == CHOOSE f : f = [i \in 0 .. Len(ms) |-> ShowStep(v, ms, f, i)]
<1>5. C = [i \in 0 .. Len(ms) |-> ShowStep(v, ms, C, i)]
  BY <1>1, <1>4
<1>6. Gate!Shown(v, ms) = C[Len(ms)]
  BY DEF Gate!Shown, ShowStep
<1> HIDE DEF C
<1> QED
  BY <1>5, <1>6

LEMMA ShownNothing ==
    ASSUME NEW v PROVE Gate!Shown(v, << >>) = v
<1>1. PICK s \in Seq(Nat) : s = << >> /\ Len(s) = 0
  <2>1. << >> \in Seq(Nat) /\ Len(<< >>) = 0
    OBVIOUS
  <2> QED
    BY <2>1
<1>2. PICK F : /\ \A i \in 0 .. Len(s) : F[i] = ShowStep(v, s, F, i)
               /\ Gate!Shown(v, s) = F[Len(s)]
  BY ShownSteps
<1>3. F[0] = v
  BY <1>1, <1>2 DEF ShowStep
<1> QED
  BY <1>1, <1>2, <1>3

LEMMA ShownAppend ==
    ASSUME NEW v, NEW E, NEW s \in Seq(E), NEW m \in E
    PROVE  Gate!Shown(v, Append(s, m)) = Gate!Show(Gate!Shown(v, s), m)
<1>1. PICK n \in Nat : n = Len(s)
  OBVIOUS
<1>2. PICK t \in Seq(E) : /\ t = Append(s, m) /\ Len(t) = n + 1
                          /\ t[n + 1] = m /\ \A i \in 1 .. n : t[i] = s[i]
  <2>1. /\ Append(s, m) \in Seq(E) /\ Len(Append(s, m)) = n + 1
        /\ Append(s, m)[n + 1] = m
        /\ \A i \in 1 .. n : Append(s, m)[i] = s[i]
    BY <1>1
  <2> QED
    BY <2>1
<1>3. PICK F : /\ \A i \in 0 .. n : F[i] = ShowStep(v, s, F, i)
               /\ Gate!Shown(v, s) = F[n]
  BY <1>1, ShownSteps
<1>4. PICK H : /\ \A i \in 0 .. n + 1 : H[i] = ShowStep(v, t, H, i)
               /\ Gate!Shown(v, t) = H[n + 1]
  <2>1. \E H : /\ \A i \in 0 .. Len(t) : H[i] = ShowStep(v, t, H, i)
               /\ Gate!Shown(v, t) = H[Len(t)]
    BY ShownSteps
  <2> QED
    BY <1>2, <2>1
<1> DEFINE G == {i \in Nat : i <= n => H[i] = F[i]}
<1>5. 0 \in G
  BY <1>3, <1>4 DEF ShowStep
<1>6. ASSUME NEW i \in Nat, i \in G PROVE i + 1 \in G
  <2> SUFFICES ASSUME i + 1 <= n PROVE H[i + 1] = F[i + 1]
    OBVIOUS
  <2>1. /\ i + 1 \in 0 .. n /\ i + 1 \in 0 .. n + 1 /\ i + 1 \in 1 .. n
        /\ (i + 1) - 1 = i /\ i + 1 # 0 /\ H[i] = F[i]
    BY <1>6
  <2>2. /\ H[i + 1] = ShowStep(v, t, H, i + 1)
        /\ F[i + 1] = ShowStep(v, s, F, i + 1) /\ t[i + 1] = s[i + 1]
    BY <1>2, <1>3, <1>4, <2>1
  <2> QED
    BY <2>1, <2>2 DEF ShowStep
<1>7. Nat \subseteq G
  <2> HIDE DEF G
  <2> QED
    BY <1>5, <1>6, Inductive
<1>8. H[n] = F[n]
  BY <1>7
<1>9. H[n + 1] = Gate!Show(H[n], m)
  BY <1>2, <1>4 DEF ShowStep
<1> QED
  BY <1>2, <1>3, <1>4, <1>8, <1>9

LEMMA ShownHead ==
    ASSUME NEW v, NEW E, NEW s \in Seq(E), s # << >>
    PROVE  Gate!Shown(v, s) = Gate!Shown(Gate!Show(v, Head(s)), Tail(s))
<1>1. PICK n \in Nat : Len(s) = n + 1
  <2>1. Len(s) \in Nat /\ Len(s) # 0
    OBVIOUS
  <2>2. Len(s) - 1 \in Nat /\ Len(s) = (Len(s) - 1) + 1
    BY <2>1
  <2> QED
    BY <2>2
<1>2. PICK t \in Seq(E) : /\ t = Tail(s) /\ Len(t) = n
                          /\ \A i \in 1 .. n : t[i] = s[i + 1]
  <2>1. /\ Tail(s) \in Seq(E) /\ Len(Tail(s)) = n
        /\ \A i \in 1 .. n : Tail(s)[i] = s[i + 1]
    BY <1>1
  <2> QED
    BY <2>1
<1>3. PICK w : w = Gate!Show(v, s[1])
  OBVIOUS
<1>4. PICK F : /\ \A i \in 0 .. n + 1 : F[i] = ShowStep(v, s, F, i)
               /\ Gate!Shown(v, s) = F[n + 1]
  <2>1. \E H : /\ \A i \in 0 .. Len(s) : H[i] = ShowStep(v, s, H, i)
               /\ Gate!Shown(v, s) = H[Len(s)]
    BY ShownSteps
  <2> QED
    BY <1>1, <2>1
<1>5. PICK H : /\ \A i \in 0 .. n : H[i] = ShowStep(w, t, H, i)
               /\ Gate!Shown(w, t) = H[n]
  <2>1. \E H : /\ \A i \in 0 .. Len(t) : H[i] = ShowStep(w, t, H, i)
               /\ Gate!Shown(w, t) = H[Len(t)]
    BY ShownSteps
  <2> QED
    BY <1>2, <2>1
<1> DEFINE G == {i \in Nat : i <= n => H[i] = F[i + 1]}
<1>6. 0 \in G
  <2>1. F[0] = v /\ F[0 + 1] = Gate!Show(F[0], s[1]) /\ H[0] = w
    BY <1>4, <1>5 DEF ShowStep
  <2> QED
    BY <1>3, <2>1
<1>7. ASSUME NEW i \in Nat, i \in G PROVE i + 1 \in G
  <2> SUFFICES ASSUME i + 1 <= n PROVE H[i + 1] = F[(i + 1) + 1]
    OBVIOUS
  <2>1. /\ i + 1 \in 0 .. n /\ (i + 1) + 1 \in 0 .. n + 1 /\ i + 1 \in 1 .. n
        /\ (i + 1) - 1 = i /\ ((i + 1) + 1) - 1 = i + 1
        /\ i + 1 # 0 /\ (i + 1) + 1 # 0 /\ H[i] = F[i + 1]
    BY <1>7
  <2>2. /\ H[i + 1] = ShowStep(w, t, H, i + 1)
        /\ F[(i + 1) + 1] = ShowStep(v, s, F, (i + 1) + 1)
        /\ t[i + 1] = s[(i + 1) + 1]
    BY <1>2, <1>4, <1>5, <2>1
  <2> QED
    BY <2>1, <2>2 DEF ShowStep
<1>8. Nat \subseteq G
  <2> HIDE DEF G
  <2> QED
    BY <1>6, <1>7, Inductive
<1>9. H[n] = F[n + 1]
  BY <1>8
<1>10. Head(s) = s[1]
  BY <1>1
<1> QED
  BY <1>2, <1>3, <1>4, <1>5, <1>9, <1>10

------------------------------------------------------------------------------
(* The invariant of the gateway *)

ConnStates ==
    {"off", "greeting", "greeted", "open", "draining", "cut"}

IsMail(q) == \E E : q \in Seq(E) /\ \A m \in E : IsMsg(m)

(* What is in each connection's hands.                                     *)
GateShape ==
    /\ conn \in [Clients -> ConnStates]
    /\ lagged \in [Clients -> BOOLEAN]
    /\ DOMAIN backlog = Clients /\ DOMAIN mailbox = Clients
    /\ DOMAIN view = Clients
    /\ backlog = [c \in Clients |-> backlog[c]]
    /\ mailbox = [c \in Clients |-> mailbox[c]]
    /\ view = [c \in Clients |-> view[c]]
    /\ \A c \in Clients :
           IsMail(backlog[c]) /\ IsMail(mailbox[c]) /\ IsView(view[c])

(* Before it subscribes a connection has been told nothing but its first   *)
(* state.                                                                  *)
Untold ==
    \A c \in Clients :
        conn[c] \in {"off", "greeting", "greeted"} =>
            /\ backlog[c] = << >> /\ mailbox[c] = << >> /\ ~lagged[c]
            /\ ~view[c].fresh /\ view[c].status # "playing"

(* Whoever keeps up will show no playback under way while playback is      *)
(* paused.                                                                 *)
Told ==
    /\ \A c \in Clients :
           Gate!Listening(c) /\ ~gate_playing =>
               Gate!Final(c).status # "playing"
    /\ loop = "off" => ~gate_playing

GateInv == GateShape /\ Untold /\ Told /\ InStep

LEMMA MailAppend ==
    ASSUME NEW q, IsMail(q), NEW m, IsMsg(m)
    PROVE  IsMail(Append(q, m))
<1>1. PICK E : q \in Seq(E) /\ \A n \in E : IsMsg(n)
  BY DEF IsMail
<1>2. PICK F : F = E \cup {m}
  OBVIOUS
<1>3. q \in Seq(F) /\ m \in F
  BY <1>1, <1>2
<1>4. Append(q, m) \in Seq(F)
  BY <1>3
<1>5. \A n \in F : IsMsg(n)
  BY <1>1, <1>2
<1> QED
  BY <1>4, <1>5 DEF IsMail

LEMMA MailHead ==
    ASSUME NEW q, IsMail(q), q # << >>
    PROVE  IsMsg(Head(q)) /\ IsMail(Tail(q))
<1>1. PICK E : q \in Seq(E) /\ \A n \in E : IsMsg(n)
  BY DEF IsMail
<1>2. Head(q) \in E /\ Tail(q) \in Seq(E)
  BY <1>1
<1> QED
  BY <1>1, <1>2 DEF IsMail

LEMMA NoMail == IsMail(<< >>)
<1>1. PICK E : E = {}
  OBVIOUS
<1>2. << >> \in Seq(E) /\ \A m \in E : IsMsg(m)
  BY <1>1
<1> QED
  BY <1>2 DEF IsMail

(* What a client will show in the end: by one more message what that       *)
(* message makes of it, and unchanged as long as messages only move on.    *)
LEMMA FinalAppend ==
    ASSUME NEW p, IsMail(p), NEW q, IsMail(q), NEW v, NEW m
    PROVE  Gate!Shown(v, p \o Append(q, m))
               = Gate!Show(Gate!Shown(v, p \o q), m)
<1>1. PICK E1, E2 : p \in Seq(E1) /\ q \in Seq(E2)
  BY DEF IsMail
<1>2. PICK F : F = E1 \cup E2 \cup {m}
  OBVIOUS
<1>3. p \in Seq(F) /\ q \in Seq(F) /\ m \in F
  BY <1>1, <1>2
<1>4. p \o q \in Seq(F) /\ p \o Append(q, m) = Append(p \o q, m)
  BY <1>3
<1>5. PICK r \in Seq(F) : r = p \o q
  BY <1>4
<1>6. Gate!Shown(v, Append(r, m)) = Gate!Show(Gate!Shown(v, r), m)
  BY <1>3, ShownAppend
<1> QED
  BY <1>4, <1>5, <1>6

LEMMA FinalMove ==
    ASSUME NEW p, IsMail(p), NEW q, IsMail(q)
    PROVE  q # << >> => Append(p, Head(q)) \o Tail(q) = p \o q
<1>1. PICK E1, E2 : p \in Seq(E1) /\ q \in Seq(E2)
  BY DEF IsMail
<1>2. PICK E : E = E1 \cup E2
  OBVIOUS
<1>3. p \in Seq(E) /\ q \in Seq(E)
  BY <1>1, <1>2
<1> QED
  BY <1>3

LEMMA FinalHead ==
    ASSUME NEW p, IsMail(p), NEW q, IsMail(q), NEW v, p # << >>
    PROVE  Gate!Shown(Gate!Show(v, Head(p)), Tail(p) \o q)
               = Gate!Shown(v, p \o q)
<1>1. PICK E1, E2 : p \in Seq(E1) /\ q \in Seq(E2)
  BY DEF IsMail
<1>2. PICK E : E = E1 \cup E2
  OBVIOUS
<1>3. p \in Seq(E) /\ q \in Seq(E)
  BY <1>1, <1>2
<1>4. /\ p \o q \in Seq(E) /\ p \o q # << >>
      /\ Head(p \o q) = Head(p) /\ Tail(p \o q) = Tail(p) \o q
  BY <1>3
<1> QED
  BY <1>4, ShownHead

LEMMA ShownView ==
    ASSUME NEW v, IsView(v), NEW q, IsMail(q)
    PROVE  IsView(Gate!Shown(v, q))
<1>1. PICK E : q \in Seq(E) /\ \A m \in E : IsMsg(m)
  BY DEF IsMail
<1>2. PICK n \in Nat : n = Len(q)
  BY <1>1
<1>3. PICK F : /\ \A i \in 0 .. n : F[i] = ShowStep(v, q, F, i)
               /\ Gate!Shown(v, q) = F[n]
  BY <1>1, <1>2, ShownSteps
<1> DEFINE G == {i \in Nat : i <= n => IsView(F[i])}
<1>4. 0 \in G
  <2>1. F[0] = v
    BY <1>3 DEF ShowStep
  <2> QED
    BY <2>1
<1>5. ASSUME NEW i \in Nat, i \in G PROVE i + 1 \in G
  <2> SUFFICES ASSUME i + 1 <= n PROVE IsView(F[i + 1])
    OBVIOUS
  <2>1. /\ i + 1 \in 0 .. n /\ i + 1 \in 1 .. n /\ (i + 1) - 1 = i
        /\ i + 1 # 0 /\ IsView(F[i])
    BY <1>5
  <2>2. F[i + 1] = Gate!Show(F[i], q[i + 1])
    BY <1>3, <2>1 DEF ShowStep
  <2>3. q[i + 1] \in E
    BY <1>1, <1>2, <2>1
  <2>4. IsMsg(q[i + 1])
    BY <1>1, <2>3
  <2> QED
    BY <2>1, <2>2, <2>4, ShowView
<1>6. Nat \subseteq G
  <2> HIDE DEF G
  <2> QED
    BY <1>4, <1>5, Inductive
<1> QED
  BY <1>3, <1>6

LEMMA FinalView ==
    ASSUME GateShape, NEW c \in Clients
    PROVE  IsView(Gate!Final(c))
<1>1. IsMail(backlog[c]) /\ IsMail(mailbox[c]) /\ IsView(view[c])
  BY DEF GateShape
<1>2. PICK E1, E2 : /\ mailbox[c] \in Seq(E1) /\ \A m \in E1 : IsMsg(m)
                    /\ backlog[c] \in Seq(E2) /\ \A m \in E2 : IsMsg(m)
  BY <1>1 DEF IsMail
<1>3. PICK E : E = E1 \cup E2
  OBVIOUS
<1>4. mailbox[c] \in Seq(E) /\ backlog[c] \in Seq(E)
  BY <1>2, <1>3
<1>5. mailbox[c] \o backlog[c] \in Seq(E) /\ \A m \in E : IsMsg(m)
  BY <1>2, <1>3, <1>4
<1>6. IsMail(mailbox[c] \o backlog[c])
  BY <1>5 DEF IsMail
<1> QED
  BY <1>1, <1>6, ShownView DEF Gate!Final

(* A broadcast reaches whoever keeps up.                                   *)
LEMMA Broadcasts ==
    ASSUME GateShape, Untold, NEW m, IsMsg(m), Gate!Broadcast(m),
           UNCHANGED <<conn, view>>
    PROVE  /\ GateShape' /\ Untold'
           /\ \A c \in Clients : Gate!Listening(c)' =>
                 /\ Gate!Listening(c)
                 /\ Gate!Final(c)' = Gate!Show(Gate!Final(c), m)
<1>1. mailbox' = mailbox /\ conn' = conn /\ view' = view
  BY DEF Gate!Broadcast
<1>2. /\ DOMAIN backlog' = Clients
      /\ backlog' = [c \in Clients |-> backlog'[c]]
      /\ lagged' \in [Clients -> BOOLEAN]
      /\ \A c \in Clients :
            /\ lagged'[c] <=> Gate!Subscribed(c) /\ (lagged[c] \/ Gate!Overrun(c))
            /\ backlog'[c] = IF Gate!Subscribed(c) /\ ~lagged'[c]
                             THEN Append(backlog[c], m) ELSE << >>
  BY DEF Gate!Broadcast
<1>3. GateShape'
  <2>1. \A c \in Clients : IsMail(backlog'[c])
    <3> SUFFICES ASSUME NEW c \in Clients PROVE IsMail(backlog'[c])
      OBVIOUS
    <3>1. backlog'[c] = Append(backlog[c], m) \/ backlog'[c] = << >>
      BY <1>2
    <3>2. IsMail(Append(backlog[c], m))
      BY MailAppend DEF GateShape
    <3> QED
      BY <3>1, <3>2, NoMail
  <2> QED
    BY <1>1, <1>2, <2>1 DEF GateShape
<1>4. Untold'
  <2> SUFFICES ASSUME NEW c \in Clients,
                      conn[c] \in {"off", "greeting", "greeted"}
               PROVE  backlog'[c] = << >> /\ ~lagged'[c]
    BY <1>1 DEF Untold
  <2>1. ~Gate!Subscribed(c)
    BY DEF Gate!Subscribed
  <2> QED
    BY <1>2, <2>1
<1>5. ASSUME NEW c \in Clients, Gate!Listening(c)'
      PROVE  /\ Gate!Listening(c)
             /\ Gate!Final(c)' = Gate!Show(Gate!Final(c), m)
  <2>1. Gate!Subscribed(c) /\ ~lagged'[c]
    BY <1>1, <1>5 DEF Gate!Listening, Gate!Subscribed
  <2>2. ~lagged[c] /\ backlog'[c] = Append(backlog[c], m)
    BY <1>2, <2>1
  <2>3. IsMail(backlog[c]) /\ IsMail(mailbox[c])
    BY DEF GateShape
  <2>4. Gate!Shown(view[c], mailbox[c] \o Append(backlog[c], m))
            = Gate!Show(Gate!Shown(view[c], mailbox[c] \o backlog[c]), m)
    <3>1. PICK p, q, v : p = mailbox[c] /\ q = backlog[c] /\ v = view[c]
      OBVIOUS
    <3>2. IsMail(p) /\ IsMail(q) /\ IsMsg(m)
      BY <2>3, <3>1
    <3>3. Gate!Shown(v, p \o Append(q, m)) = Gate!Show(Gate!Shown(v, p \o q), m)
      BY <3>2, FinalAppend
    <3> QED
      BY <3>1, <3>3
  <2> QED
    BY <1>1, <2>1, <2>2, <2>4 DEF Gate!Final, Gate!Listening
<1> QED
  BY <1>3, <1>4, <1>5

(* A snapshot of the world sets everybody right.                           *)
LEMMA SentSnap ==
    ASSUME GateInv, NEW x, NEW s, x = gate_world', Gate!Broadcast(Snap(x, s)),
           UNCHANGED <<conn, view>>, ~gate_playing' => s # "playing",
           loop' = "off" => ~gate_playing'
    PROVE  GateInv'
<1>1. /\ GateShape' /\ Untold'
      /\ \A c \in Clients : Gate!Listening(c)' =>
            Gate!Final(c)' = Gate!Show(Gate!Final(c), Snap(x, s))
  <2>1. IsMsg(Snap(x, s))
    BY DEF IsMsg
  <2> QED
    BY <2>1, Broadcasts DEF GateInv
<1>2. ASSUME NEW c \in Clients, Gate!Listening(c)'
      PROVE  /\ Gate!Final(c)'.world = x
             /\ Gate!Final(c)'.status = s
  <2>1. PICK f : Gate!Final(c)' = View(x, f, s)
    BY <1>1, <1>2, ShowSnap
  <2> QED
    BY <2>1, ViewFields
<1>3. Told'
  BY <1>2 DEF Told
<1>4. InStep'
  <2>1. Watched \subseteq Clients
    BY GateAssumption DEF Gate!GatewayAssumption
  <2> QED
    BY <1>2, <2>1 DEF InStep, Gate!InStep
<1> QED
  BY <1>1, <1>3, <1>4 DEF GateInv

(* Events that are sent are those the world has taken in.                  *)
LEMMA SentEvents ==
    ASSUME GateInv, NEW x, NEW b, x = gate_world, Gate!Broadcast(Gate!EventsMsg(b)),
           gate_world' = Gate!ProcessEvents(x, b),
           UNCHANGED <<conn, view, gate_playing>>, loop' = "off" => ~gate_playing'
    PROVE  GateInv'
<1>1. /\ GateShape' /\ Untold'
      /\ \A c \in Clients : Gate!Listening(c)' =>
            /\ Gate!Listening(c)
            /\ Gate!Final(c)' = Gate!Show(Gate!Final(c), Gate!EventsMsg(b))
  <2>1. IsMsg(Gate!EventsMsg(b))
    BY DEF IsMsg
  <2> QED
    BY <2>1, Broadcasts DEF GateInv
<1>2. ASSUME NEW c \in Clients, Gate!Listening(c)'
      PROVE  /\ Gate!Final(c)'.fresh = Gate!Final(c).fresh
             /\ Gate!Final(c)'.status = Gate!Final(c).status
             /\ Gate!Final(c)'.world
                    = Gate!ProcessEvents(Gate!Final(c).world, b)
  <2>1. PICK w, f, s : Gate!Final(c) = View(w, f, s)
    BY FinalView DEF IsView, GateInv
  <2>2. Gate!Final(c)' = View(Gate!ProcessEvents(w, b), f, s)
    BY <1>1, <1>2, <2>1, ShowEvents
  <2> QED
    BY <2>1, <2>2, ViewFields
<1>3. Told'
  BY <1>1, <1>2 DEF Told, GateInv
<1>4. InStep'
  <2>1. Watched \subseteq Clients
    BY GateAssumption DEF Gate!GatewayAssumption
  <2>2. ASSUME NEW c \in Watched, Gate!Listening(c)', Gate!Final(c)'.fresh
        PROVE  Gate!Final(c)'.world = gate_world'
    <3>1. Gate!Listening(c) /\ Gate!Final(c).fresh
      BY <1>1, <1>2, <2>1, <2>2
    <3>2. Gate!Final(c).world = x
      BY <3>1 DEF GateInv, InStep, Gate!InStep
    <3> QED
      BY <1>2, <2>1, <2>2, <3>2
  <2> QED
    BY <2>2 DEF InStep, Gate!InStep
<1> QED
  BY <1>1, <1>3, <1>4 DEF GateInv

(* An announcement changes no world.                                       *)
LEMMA SentSaid ==
    ASSUME GateInv, NEW t, Gate!Broadcast(Said(t)),
           UNCHANGED <<conn, view, gate_world>>,
           ~gate_playing' => t # "playing", loop' = "off" => ~gate_playing'
    PROVE  GateInv'
<1>1. /\ GateShape' /\ Untold'
      /\ \A c \in Clients : Gate!Listening(c)' =>
            /\ Gate!Listening(c)
            /\ Gate!Final(c)' = Gate!Show(Gate!Final(c), Said(t))
  <2>1. IsMsg(Said(t))
    BY DEF IsMsg
  <2> QED
    BY <2>1, Broadcasts DEF GateInv
<1>2. ASSUME NEW c \in Clients, Gate!Listening(c)'
      PROVE  /\ Gate!Final(c)'.fresh = Gate!Final(c).fresh
             /\ Gate!Final(c)'.status = t
             /\ Gate!Final(c)'.world = Gate!Final(c).world
  <2>1. PICK w, f, s : Gate!Final(c) = View(w, f, s)
    BY FinalView DEF IsView, GateInv
  <2>2. Gate!Final(c)' = View(w, f, t)
    BY <1>1, <1>2, <2>1, ShowSaid
  <2> QED
    BY <2>1, <2>2, ViewFields
<1>3. Told'
  BY <1>1, <1>2 DEF Told, GateInv
<1>4. InStep'
  <2>1. Watched \subseteq Clients
    BY GateAssumption DEF Gate!GatewayAssumption
  <2>2. ASSUME NEW c \in Watched, Gate!Listening(c)', Gate!Final(c)'.fresh
        PROVE  Gate!Final(c)'.world = gate_world'
    <3>1. Gate!Listening(c) /\ Gate!Final(c).fresh
      BY <1>1, <1>2, <2>1, <2>2
    <3>2. Gate!Final(c).world = gate_world
      BY <3>1 DEF GateInv, InStep, Gate!InStep
    <3> QED
      BY <1>2, <2>1, <2>2, <3>2
  <2> QED
    BY <2>2 DEF InStep, Gate!InStep
<1> QED
  BY <1>1, <1>3, <1>4 DEF GateInv

(* Nothing is sent.                                                        *)
LEMMA SentNothing ==
    ASSUME GateInv, UNCHANGED <<conn, backlog, lagged, mailbox, view,
                                gate_world, gate_playing>>,
           loop' = "off" => ~gate_playing'
    PROVE  GateInv'
<1>1. GateShape'
  BY DEF GateInv, GateShape
<1>2. Untold'
  BY DEF GateInv, Untold
<1>3. \A c : /\ Gate!Listening(c)' <=> Gate!Listening(c)
            /\ Gate!Final(c)' = Gate!Final(c)
  BY DEF Gate!Listening, Gate!Final, Gate!Subscribed
<1>4. Told' /\ InStep'
  BY <1>3 DEF GateInv, Told, InStep, Gate!InStep
<1> QED
  BY <1>1, <1>2, <1>4 DEF GateInv

------------------------------------------------------------------------------
(* What a connection does *)

(* Only c's connection moves, and c will show what it would have shown or  *)
(* no more than its first state.                                           *)
LEMMA OneMoves ==
    ASSUME GateInv, NEW c \in Clients,
           UNCHANGED <<gate_world, gate_playing, loop>>,
           GateShape',
           \A d \in Clients \ {c} :
               /\ conn'[d] = conn[d] /\ lagged'[d] = lagged[d]
               /\ backlog'[d] = backlog[d] /\ mailbox'[d] = mailbox[d]
               /\ view'[d] = view[d],
           conn'[c] \in {"off", "greeting", "greeted"} =>
               /\ backlog'[c] = << >> /\ mailbox'[c] = << >> /\ ~lagged'[c]
               /\ ~view'[c].fresh /\ view'[c].status # "playing",
           Gate!Listening(c)' =>
               \/ Gate!Listening(c) /\ Gate!Final(c)' = Gate!Final(c)
               \/ /\ ~Gate!Final(c)'.fresh
                  /\ Gate!Final(c)'.status # "playing"
    PROVE  GateInv'
<1>1. Untold'
  <2> SUFFICES ASSUME NEW d \in Clients,
                      conn'[d] \in {"off", "greeting", "greeted"}
               PROVE  /\ backlog'[d] = << >> /\ mailbox'[d] = << >>
                      /\ ~lagged'[d]
                      /\ ~view'[d].fresh /\ view'[d].status # "playing"
    BY DEF Untold
  <2>1. CASE d = c
    BY <2>1
  <2>2. CASE d # c
    BY <2>2 DEF Untold, GateInv
  <2> QED
    BY <2>1, <2>2
<1>2. ASSUME NEW d \in Clients, d # c
      PROVE  /\ Gate!Listening(d)' <=> Gate!Listening(d)
             /\ Gate!Final(d)' = Gate!Final(d)
  BY <1>2 DEF Gate!Listening, Gate!Final, Gate!Subscribed
<1>3. Told'
  <2>1. ASSUME NEW d \in Clients, Gate!Listening(d)', ~gate_playing'
        PROVE  Gate!Final(d)'.status # "playing"
    <3>1. CASE d = c
      BY <2>1, <3>1 DEF Told, GateInv
    <3>2. CASE d # c
      BY <1>2, <2>1, <3>2 DEF Told, GateInv
    <3> QED
      BY <3>1, <3>2
  <2>2. loop' = "off" => ~gate_playing'
    BY DEF Told, GateInv
  <2> QED
    BY <2>1, <2>2 DEF Told
<1>4. InStep'
  <2>1. Watched \subseteq Clients
    BY GateAssumption DEF Gate!GatewayAssumption
  <2>2. ASSUME NEW d \in Watched, Gate!Listening(d)', Gate!Final(d)'.fresh
        PROVE  Gate!Final(d)'.world = gate_world'
    <3>1. CASE d = c
      BY <2>1, <2>2, <3>1 DEF InStep, Gate!InStep, GateInv
    <3>2. CASE d # c
      BY <1>2, <2>1, <2>2, <3>2 DEF InStep, Gate!InStep, GateInv
    <3> QED
      BY <3>1, <3>2
  <2> QED
    BY <2>2 DEF InStep, Gate!InStep
<1> QED
  BY <1>1, <1>3, <1>4 DEF GateInv

(* What an assignment to one client's entry makes of a function.           *)
LEMMA Assigned ==
    ASSUME NEW f, f = [d \in Clients |-> f[d]], NEW c \in Clients, NEW x,
           NEW g, g = [f EXCEPT ![c] = x]
    PROVE  /\ DOMAIN g = Clients /\ g = [d \in Clients |-> g[d]]
           /\ g[c] = x /\ \A d \in Clients \ {c} : g[d] = f[d]
OBVIOUS

LEMMA GreetKeeps ==
    ASSUME GateInv, NEW c \in Clients, Gate!Greet(c)
    PROVE  GateInv'
<1>1. /\ conn[c] = "off" /\ conn' = [conn EXCEPT ![c] = "greeting"]
      /\ UNCHANGED <<gate_world, gate_playing, loop, backlog, lagged, mailbox,
                     view>>
  BY DEF Gate!Greet, Gate!player, Gate!playback, Gate!delivery
<1>2. conn \in [Clients -> ConnStates]
  BY DEF GateInv, GateShape
<1>3. GateShape'
  BY <1>1, <1>2 DEF GateInv, GateShape, ConnStates
<1>4. /\ conn'[c] = "greeting"
      /\ \A d \in Clients \ {c} : conn'[d] = conn[d]
  BY <1>1, <1>2
<1>5. ~Gate!Listening(c)'
  BY <1>4 DEF Gate!Listening, Gate!Subscribed
<1>6. /\ backlog[c] = << >> /\ mailbox[c] = << >> /\ ~lagged[c]
      /\ ~view[c].fresh /\ view[c].status # "playing"
  BY <1>1 DEF GateInv, Untold
<1> QED
  BY <1>1, <1>3, <1>4, <1>5, <1>6, OneMoves

LEMMA GreetedKeeps ==
    ASSUME GateInv, NEW c \in Clients, Gate!Greeted(c)
    PROVE  GateInv'
<1>1. PICK v : v = View(gate_world, FALSE, "unknown")
  OBVIOUS
<1>2. /\ conn[c] = "greeting" /\ conn' = [conn EXCEPT ![c] = "greeted"]
      /\ view' = [view EXCEPT ![c] = v]
      /\ UNCHANGED <<gate_world, gate_playing, loop, backlog, lagged, mailbox>>
  BY <1>1 DEF Gate!Greeted, Gate!player, Gate!playback, Gate!delivery, View
<1>3. IsView(v) /\ ~v.fresh /\ v.status = "unknown"
  BY <1>1 DEF IsView, View
<1>4. conn \in [Clients -> ConnStates] /\ view = [d \in Clients |-> view[d]]
  BY DEF GateInv, GateShape
<1>5. /\ conn'[c] = "greeted" /\ conn' \in [Clients -> ConnStates]
      /\ \A d \in Clients \ {c} : conn'[d] = conn[d]
  BY <1>2, <1>4 DEF ConnStates
<1>6. /\ DOMAIN view' = Clients /\ view' = [d \in Clients |-> view'[d]]
      /\ view'[c] = v /\ \A d \in Clients \ {c} : view'[d] = view[d]
  BY <1>2, <1>4, Assigned
<1>7. GateShape'
  <2>1. \A d \in Clients : IsView(view'[d])
    BY <1>3, <1>6 DEF GateInv, GateShape
  <2> QED
    BY <1>2, <1>5, <1>6, <2>1 DEF GateInv, GateShape
<1>8. ~Gate!Listening(c)'
  BY <1>5 DEF Gate!Listening, Gate!Subscribed
<1>9. backlog[c] = << >> /\ mailbox[c] = << >> /\ ~lagged[c]
  BY <1>2 DEF GateInv, Untold
<1> QED
  BY <1>2, <1>3, <1>5, <1>6, <1>7, <1>8, <1>9, OneMoves

LEMMA SubscribeKeeps ==
    ASSUME GateInv, NEW c \in Clients, Gate!Subscribe(c)
    PROVE  GateInv'
<1>1. /\ conn[c] = "greeted" /\ conn' = [conn EXCEPT ![c] = "open"]
      /\ UNCHANGED <<gate_world, gate_playing, loop, backlog, lagged, mailbox,
                     view>>
  BY DEF Gate!Subscribe, Gate!player, Gate!playback, Gate!delivery
<1>2. conn \in [Clients -> ConnStates]
  BY DEF GateInv, GateShape
<1>3. GateShape'
  BY <1>1, <1>2 DEF GateInv, GateShape, ConnStates
<1>4. /\ conn'[c] = "open"
      /\ \A d \in Clients \ {c} : conn'[d] = conn[d]
  BY <1>1, <1>2
<1>5. /\ backlog[c] = << >> /\ mailbox[c] = << >>
      /\ ~view[c].fresh /\ view[c].status # "playing"
  BY <1>1 DEF GateInv, Untold
<1>6. Gate!Final(c)' = view[c]
  <2>1. << >> \o << >> = << >>
    OBVIOUS
  <2> QED
    BY <1>1, <1>5, <2>1, ShownNothing DEF Gate!Final
<1> QED
  BY <1>1, <1>3, <1>4, <1>5, <1>6, OneMoves

(* A message moves on to the client's own queue.                           *)
LEMMA ForwardKeeps ==
    ASSUME GateInv, NEW c \in Clients, Gate!Forward(c)
    PROVE  GateInv'
<1>1. PICK p, q, v : p = mailbox[c] /\ q = backlog[c] /\ v = view[c]
  OBVIOUS
<1>2. PICK p2, q2 : p2 = Append(p, Head(q)) /\ q2 = Tail(q)
  OBVIOUS
<1>3. /\ conn[c] = "open" /\ q # << >>
      /\ mailbox' = [mailbox EXCEPT ![c] = p2]
      /\ backlog' = [backlog EXCEPT ![c] = q2]
      /\ UNCHANGED <<gate_world, gate_playing, loop, conn, lagged, view>>
  BY <1>1, <1>2 DEF Gate!Forward, Gate!player, Gate!playback
<1>4. /\ mailbox = [d \in Clients |-> mailbox[d]]
      /\ backlog = [d \in Clients |-> backlog[d]]
      /\ IsMail(p) /\ IsMail(q)
  BY <1>1 DEF GateInv, GateShape
<1>5. /\ DOMAIN mailbox' = Clients /\ mailbox' = [d \in Clients |-> mailbox'[d]]
      /\ mailbox'[c] = p2
      /\ \A d \in Clients \ {c} : mailbox'[d] = mailbox[d]
  BY <1>3, <1>4, Assigned
<1>6. /\ DOMAIN backlog' = Clients /\ backlog' = [d \in Clients |-> backlog'[d]]
      /\ backlog'[c] = q2
      /\ \A d \in Clients \ {c} : backlog'[d] = backlog[d]
  BY <1>3, <1>4, Assigned
<1>7. IsMail(p2) /\ IsMail(q2)
  BY <1>2, <1>3, <1>4, MailHead, MailAppend
<1>8. GateShape'
  <2>1. \A d \in Clients : IsMail(mailbox'[d]) /\ IsMail(backlog'[d])
    BY <1>5, <1>6, <1>7 DEF GateInv, GateShape
  <2> QED
    BY <1>3, <1>5, <1>6, <2>1 DEF GateInv, GateShape
<1>9. Gate!Listening(c)' <=> Gate!Listening(c)
  BY <1>3 DEF Gate!Listening, Gate!Subscribed
<1>10. Gate!Final(c)' = Gate!Final(c)
  <2>1. p2 \o q2 = p \o q
    BY <1>2, <1>3, <1>4, FinalMove
  <2> QED
    BY <1>1, <1>3, <1>5, <1>6, <2>1 DEF Gate!Final
<1> QED
  BY <1>3, <1>5, <1>6, <1>8, <1>9, <1>10, OneMoves

LEMMA ReadKeeps ==
    ASSUME GateInv, NEW c \in Clients, Gate!Read(c)
    PROVE  GateInv'
<1>1. PICK p, q, v : p = mailbox[c] /\ q = backlog[c] /\ v = view[c]
  OBVIOUS
<1>2. PICK p2, v2 : p2 = Tail(p) /\ v2 = Gate!Show(v, Head(p))
  OBVIOUS
<1>3. /\ conn[c] \in {"open", "draining"} /\ p # << >>
      /\ mailbox' = [mailbox EXCEPT ![c] = p2]
      /\ view' = [view EXCEPT ![c] = v2]
      /\ UNCHANGED <<gate_world, gate_playing, loop, conn, lagged, backlog>>
  BY <1>1, <1>2 DEF Gate!Read, Gate!player, Gate!playback
<1>4. /\ mailbox = [d \in Clients |-> mailbox[d]]
      /\ view = [d \in Clients |-> view[d]]
      /\ IsMail(p) /\ IsMail(q) /\ IsView(v)
  BY <1>1 DEF GateInv, GateShape
<1>5. /\ DOMAIN mailbox' = Clients /\ mailbox' = [d \in Clients |-> mailbox'[d]]
      /\ mailbox'[c] = p2
      /\ \A d \in Clients \ {c} : mailbox'[d] = mailbox[d]
  BY <1>3, <1>4, Assigned
<1>6. /\ DOMAIN view' = Clients /\ view' = [d \in Clients |-> view'[d]]
      /\ view'[c] = v2
      /\ \A d \in Clients \ {c} : view'[d] = view[d]
  BY <1>3, <1>4, Assigned
<1>7. IsMail(p2) /\ IsView(v2)
  BY <1>2, <1>3, <1>4, MailHead, ShowView
<1>8. GateShape'
  <2>1. \A d \in Clients : IsMail(mailbox'[d]) /\ IsView(view'[d])
    BY <1>5, <1>6, <1>7 DEF GateInv, GateShape
  <2> QED
    BY <1>3, <1>5, <1>6, <2>1 DEF GateInv, GateShape
<1>9. Gate!Listening(c)' <=> Gate!Listening(c)
  BY <1>3 DEF Gate!Listening, Gate!Subscribed
<1>10. Gate!Final(c)' = Gate!Final(c)
  <2>1. Gate!Shown(v2, p2 \o q) = Gate!Shown(v, p \o q)
    BY <1>2, <1>3, <1>4, FinalHead
  <2> QED
    BY <1>1, <1>3, <1>5, <1>6, <2>1 DEF Gate!Final
<1>11. conn'[c] \notin {"off", "greeting", "greeted"}
  BY <1>3
<1> QED
  BY <1>3, <1>5, <1>6, <1>8, <1>9, <1>10, <1>11, OneMoves

LEMMA NoticeLagKeeps ==
    ASSUME GateInv, NEW c \in Clients, Gate!NoticeLag(c)
    PROVE  GateInv'
<1>1. /\ conn' = [conn EXCEPT ![c] = "draining"]
      /\ lagged' = [lagged EXCEPT ![c] = FALSE]
      /\ UNCHANGED <<gate_world, gate_playing, loop, backlog, mailbox, view>>
  BY DEF Gate!NoticeLag, Gate!player, Gate!playback
<1>2. conn \in [Clients -> ConnStates] /\ lagged \in [Clients -> BOOLEAN]
  BY DEF GateInv, GateShape
<1>3. /\ conn' \in [Clients -> ConnStates] /\ lagged' \in [Clients -> BOOLEAN]
      /\ conn'[c] = "draining"
      /\ \A d \in Clients \ {c} : conn'[d] = conn[d] /\ lagged'[d] = lagged[d]
  BY <1>1, <1>2 DEF ConnStates
<1>4. GateShape'
  BY <1>1, <1>3 DEF GateInv, GateShape
<1>5. ~Gate!Listening(c)'
  BY <1>3 DEF Gate!Listening, Gate!Subscribed
<1> QED
  BY <1>1, <1>3, <1>4, <1>5, OneMoves

LEMMA CutKeeps ==
    ASSUME GateInv, NEW c \in Clients, Gate!Cut(c)
    PROVE  GateInv'
<1>1. /\ conn' = [conn EXCEPT ![c] = "cut"]
      /\ UNCHANGED <<gate_world, gate_playing, loop, backlog, lagged, mailbox,
                     view>>
  BY DEF Gate!Cut, Gate!player, Gate!playback, Gate!delivery
<1>2. conn \in [Clients -> ConnStates]
  BY DEF GateInv, GateShape
<1>3. /\ conn' \in [Clients -> ConnStates] /\ conn'[c] = "cut"
      /\ \A d \in Clients \ {c} : conn'[d] = conn[d]
  BY <1>1, <1>2 DEF ConnStates
<1>4. GateShape'
  BY <1>1, <1>3 DEF GateInv, GateShape
<1>5. ~Gate!Listening(c)'
  BY <1>3 DEF Gate!Listening, Gate!Subscribed
<1> QED
  BY <1>1, <1>3, <1>4, <1>5, OneMoves

(* Everything a connection had goes with it.                               *)
LEMMA CloseKeeps ==
    ASSUME GateInv, NEW c \in Clients, Gate!Close(c)
    PROVE  GateInv'
<1>1. PICK w, v, e : /\ w = Gate!EmptyWorld /\ v = View(w, FALSE, "unknown")
                     /\ e = << >>
  OBVIOUS
<1>2. /\ conn' = [conn EXCEPT ![c] = "off"]
      /\ backlog' = [backlog EXCEPT ![c] = e]
      /\ lagged' = [lagged EXCEPT ![c] = FALSE]
      /\ mailbox' = [mailbox EXCEPT ![c] = e]
      /\ view' = [view EXCEPT ![c] = v]
      /\ UNCHANGED <<gate_world, gate_playing, loop>>
  BY <1>1 DEF Gate!Close, Gate!player, Gate!playback, Gate!NoView, View
<1>3. IsView(v) /\ ~v.fresh /\ v.status = "unknown" /\ IsMail(e)
  BY <1>1, NoMail DEF IsView, View
<1>4. /\ conn \in [Clients -> ConnStates] /\ lagged \in [Clients -> BOOLEAN]
      /\ view = [d \in Clients |-> view[d]]
      /\ backlog = [d \in Clients |-> backlog[d]]
      /\ mailbox = [d \in Clients |-> mailbox[d]]
  BY DEF GateInv, GateShape
<1>5. /\ conn' \in [Clients -> ConnStates] /\ lagged' \in [Clients -> BOOLEAN]
      /\ conn'[c] = "off" /\ ~lagged'[c]
      /\ \A d \in Clients \ {c} : conn'[d] = conn[d] /\ lagged'[d] = lagged[d]
  BY <1>2, <1>4 DEF ConnStates
<1>6. /\ DOMAIN view' = Clients /\ view' = [d \in Clients |-> view'[d]]
      /\ view'[c] = v /\ \A d \in Clients \ {c} : view'[d] = view[d]
  BY <1>2, <1>4, Assigned
<1>7. /\ DOMAIN backlog' = Clients /\ backlog' = [d \in Clients |-> backlog'[d]]
      /\ backlog'[c] = e
      /\ \A d \in Clients \ {c} : backlog'[d] = backlog[d]
  BY <1>2, <1>4, Assigned
<1>8. /\ DOMAIN mailbox' = Clients /\ mailbox' = [d \in Clients |-> mailbox'[d]]
      /\ mailbox'[c] = e
      /\ \A d \in Clients \ {c} : mailbox'[d] = mailbox[d]
  BY <1>2, <1>4, Assigned
<1>9. GateShape'
  <2>1. \A d \in Clients :
            IsView(view'[d]) /\ IsMail(backlog'[d]) /\ IsMail(mailbox'[d])
    BY <1>3, <1>6, <1>7, <1>8 DEF GateInv, GateShape
  <2> QED
    BY <1>5, <1>6, <1>7, <1>8, <2>1 DEF GateShape
<1>10. ~Gate!Listening(c)'
  BY <1>5 DEF Gate!Listening, Gate!Subscribed
<1> QED
  BY <1>1, <1>2, <1>3, <1>5, <1>6, <1>7, <1>8, <1>9, <1>10, OneMoves

------------------------------------------------------------------------------
(* What commands and the loop do *)

(* Paused or not loaded is not playing.                                    *)
LEMMA Statuses == ~gate_playing => Gate!Status # "playing"
BY DEF Gate!Status

LEMMA CommandKeeps ==
    ASSUME GateInv, NEW c \in Clients, Gate!Command(c)
    PROVE  GateInv'
<1>1. ASSUME Gate!Handles(c) PROVE UNCHANGED <<conn, view>>
  BY <1>1 DEF Gate!Handles
<1>2. loop = "off" => ~gate_playing
  BY DEF GateInv, Told
<1>3. ASSUME NEW f \in Files, Gate!Load(c, f) PROVE GateInv'
  <2>1. PICK x, s : x = gate_world' /\ s = Gate!Status'
    OBVIOUS
  <2>2. Gate!Broadcast(Snap(x, s))
    BY <1>3, <2>1 DEF Gate!Load, Gate!Snapshot, Gate!WorldMsg, Snap
  <2>3. ~gate_playing' /\ s # "playing"
    BY <1>3, <2>1, Statuses DEF Gate!Load, Gate!Status
  <2> QED
    BY <1>1, <1>3, <2>1, <2>2, <2>3, SentSnap DEF Gate!Load
<1>4. ASSUME Gate!Play(c) PROVE GateInv'
  <2>1. PICK s : s = Gate!Status'
    OBVIOUS
  <2>2. Gate!Broadcast(Said(s))
    BY <1>4, <2>1 DEF Gate!Play, Gate!PlaybackMsg, Said
  <2>3. gate_playing' /\ loop' # "off" /\ gate_world' = gate_world
    BY <1>4 DEF Gate!Play
  <2> QED
    BY <1>1, <1>4, <2>2, <2>3, SentSaid DEF Gate!Play
<1>5. ASSUME Gate!Pause(c) PROVE GateInv'
  <2>1. PICK s : s = Gate!Status'
    OBVIOUS
  <2>2. Gate!Broadcast(Said(s))
    BY <1>5, <2>1 DEF Gate!Pause, Gate!PlaybackMsg, Said
  <2>3. ~gate_playing' /\ s # "playing" /\ gate_world' = gate_world
    BY <1>5, <2>1 DEF Gate!Pause, Gate!Status
  <2> QED
    BY <1>1, <1>5, <2>2, <2>3, SentSaid DEF Gate!Pause
<1>6. ASSUME Gate!Speed(c) PROVE GateInv'
  <2>1. PICK s : s = Gate!Status
    OBVIOUS
  <2>2. Gate!Broadcast(Said(s))
    BY <1>6, <2>1 DEF Gate!Speed, Gate!PlaybackMsg, Said
  <2>3. UNCHANGED <<gate_playing, gate_world, loop>>
    BY <1>6 DEF Gate!Speed, Gate!player, Gate!playback
  <2> QED
    BY <1>1, <1>2, <1>6, <2>1, <2>2, <2>3, SentSaid, Statuses DEF Gate!Speed
<1>7. ASSUME NEW ts, Gate!Seek(c, ts) PROVE GateInv'
  <2>1. PICK x, s : x = gate_world' /\ s = Gate!Status'
    OBVIOUS
  <2>2. Gate!Broadcast(Snap(x, s))
    BY <1>7, <2>1 DEF Gate!Seek, Gate!Snapshot, Gate!WorldMsg, Snap
  <2>3. UNCHANGED <<gate_playing, loop>>
    BY <1>7 DEF Gate!Seek, Gate!playback
  <2>4. ~gate_playing' => s # "playing"
    BY <2>1 DEF Gate!Status
  <2> QED
    BY <1>1, <1>2, <1>7, <2>1, <2>2, <2>3, <2>4, SentSnap DEF Gate!Seek
<1> QED
  BY <1>3, <1>4, <1>5, <1>6, <1>7 DEF Gate!Command

LEMMA LoopKeeps ==
    ASSUME GateInv, Gate!LoopStep \/ Gate!Tick
    PROVE  GateInv'
<1>1. loop = "off" => ~gate_playing
  BY DEF GateInv, Told
<1>2. ASSUME Gate!Round PROVE GateInv'
  <2>1. UNCHANGED <<conn, backlog, lagged, mailbox, view, gate_world,
                    gate_playing>>
    BY <1>2 DEF Gate!Round, Gate!delivery
  <2>2. loop' = "off" => ~gate_playing
    BY <1>2 DEF Gate!Round
  <2> QED
    BY <2>1, <2>2, SentNothing
<1>3. ASSUME Gate!Wake PROVE GateInv'
  <2>1. /\ UNCHANGED <<conn, backlog, lagged, mailbox, view, gate_world,
                       gate_playing>>
        /\ loop' = "apply"
    BY <1>3 DEF Gate!Wake, Gate!delivery, Gate!player
  <2> QED
    BY <2>1, SentNothing
<1>4. ASSUME Gate!Apply PROVE GateInv'
  <2>1. PICK x, b : x = gate_world /\ b = gate_batch
    OBVIOUS
  <2>2. /\ Gate!Broadcast(Gate!EventsMsg(b))
        /\ gate_world' = Gate!ProcessEvents(x, b)
        /\ UNCHANGED <<conn, view, gate_playing>> /\ loop' = "on"
    BY <1>4, <2>1 DEF Gate!Apply
  <2> QED
    BY <2>1, <2>2, SentEvents
<1>5. ASSUME Gate!Finish PROVE GateInv'
  <2>1. PICK s : s = Gate!Status'
    OBVIOUS
  <2>2. Gate!Broadcast(Said(s))
    BY <1>5, <2>1 DEF Gate!Finish, Gate!PlaybackMsg, Said
  <2>3. ~gate_playing' /\ s # "playing"
        /\ UNCHANGED <<conn, view, gate_world>>
    BY <1>5, <2>1 DEF Gate!Finish, Gate!Status
  <2> QED
    BY <2>2, <2>3, SentSaid
<1>6. ASSUME Gate!Tick PROVE GateInv'
  <2>1. UNCHANGED <<gate_playing, gate_world, loop, conn, view>>
    BY <1>6 DEF Gate!Tick, Gate!player
  <2>2. CASE gate_playing
    <3>1. PICK x, s : x = gate_world /\ s = Gate!Status
      OBVIOUS
    <3>2. Gate!Broadcast(Snap(x, s))
      BY <1>6, <2>2, <3>1 DEF Gate!Tick, Gate!WorldMsg, Snap
    <3> QED
      BY <1>1, <2>1, <2>2, <3>1, <3>2, SentSnap
  <2>3. CASE ~gate_playing
    <3>1. UNCHANGED <<backlog, lagged, mailbox>>
      BY <1>6, <2>3 DEF Gate!Tick, Gate!delivery
    <3> QED
      BY <1>1, <2>1, <3>1, SentNothing
  <2> QED
    BY <2>2, <2>3
<1> QED
  BY <1>2, <1>3, <1>4, <1>5, <1>6 DEF Gate!LoopStep

LEMMA GateInit ==
    ASSUME Gate!Init PROVE GateInv
<1>1. PICK w, v, e : /\ w = Gate!EmptyWorld /\ v = View(w, FALSE, "unknown")
                     /\ e = << >>
  OBVIOUS
<1>2. /\ ~gate_playing /\ conn = [c \in Clients |-> "off"]
      /\ backlog = [c \in Clients |-> e]
      /\ lagged = [c \in Clients |-> FALSE]
      /\ mailbox = [c \in Clients |-> e]
      /\ view = [c \in Clients |-> v]
  BY <1>1 DEF Gate!Init, Gate!NoView, View
<1>3. IsView(v) /\ ~v.fresh /\ v.status = "unknown" /\ IsMail(e)
  BY <1>1, NoMail DEF IsView, View
<1>4. GateShape
  BY <1>2, <1>3 DEF GateShape, ConnStates
<1>5. Untold
  BY <1>1, <1>2, <1>3 DEF Untold
<1>6. \A c \in Clients : ~Gate!Listening(c)
  BY <1>2 DEF Gate!Listening, Gate!Subscribed
<1>7. Told
  BY <1>2, <1>6 DEF Told
<1>8. InStep
  <2>1. Watched \subseteq Clients
    BY GateAssumption DEF Gate!GatewayAssumption
  <2> QED
    BY <1>6, <2>1 DEF InStep, Gate!InStep
<1> QED
  BY <1>4, <1>5, <1>7, <1>8 DEF GateInv

LEMMA GateNext ==
    ASSUME GateInv, [Gate!Next]_ofGate PROVE GateInv'
<1>1. CASE UNCHANGED ofGate
  <2>1. UNCHANGED <<conn, backlog, lagged, mailbox, view, gate_world,
                    gate_playing, loop>>
    BY <1>1 DEF ofGate
  <2>2. loop = "off" => ~gate_playing
    BY DEF GateInv, Told
  <2> QED
    BY <2>1, <2>2, SentNothing
<1>2. ASSUME NEW c \in Clients, Gate!Connection(c) PROVE GateInv'
  BY <1>2, GreetKeeps, GreetedKeeps, SubscribeKeeps, ForwardKeeps,
     NoticeLagKeeps, ReadKeeps, CutKeeps, CloseKeeps DEF Gate!Connection
<1> QED
  BY <1>1, <1>2, CommandKeeps, LoopKeeps DEF Gate!Next

LEMMA GateInvariant == ServerSpec => []GateInv
<1>1. ServerInit => GateInv
  BY GateInit DEF ServerInit
<1>2. GateInv /\ [ServerNext]_all => GateInv'
  <2> SUFFICES ASSUME GateInv, [ServerNext]_all PROVE [Gate!Next]_ofGate
    BY GateNext
  <2> QED
    BY DEF ServerNext, all
<1> QED
  BY <1>1, <1>2, PTL DEF ServerSpec

(* Whatever is loaded, sought, played and paused, and whoever connects,    *)
(* leaves, stalls or falls behind: once a snapshot is on its way to a      *)
(* client that keeps up, what the client will show of it and of the events *)
(* behind it is the server's world.                                        *)
THEOREM InStepCorrect == ServerSpec => []InStep
<1>1. GateInv => InStep
  BY DEF GateInv
<1> QED
  BY <1>1, GateInvariant, PTL

(* When no playback loop is left, no client that keeps up will go on       *)
(* showing a playback under way.                                           *)
THEOREM ControlsCorrect == ServerSpec => []ControlsSettle
<1>1. GateInv => ControlsSettle
  <2>1. Watched \subseteq Clients
    BY GateAssumption DEF Gate!GatewayAssumption
  <2> QED
    BY <2>1 DEF GateInv, Told, ControlsSettle, Gate!ControlsSettle
<1> QED
  BY <1>1, GateInvariant, PTL
=============================================================================
