---------------------------- MODULE SensingProofs ----------------------------
(***************************************************************************)
(* Proofs about the sensory layer, a component after the other: feature    *)
(* vectors, rings of events, tokens, totals; and what follows of the four  *)
(* side by side.                                                           *)
(***************************************************************************)
EXTENDS Sensing, Lemmas, SequenceTheorems

(***************************************************************************)
(* The feature vectors of hackbot_trace.c: a report that is printed while  *)
(* probes run on every processor, and interrupt one another, prints whole  *)
(* vectors only.                                                           *)
(***************************************************************************)

Windows == {s \in Seq(Nat) : Len(s) = Window}
Feature == [window : [values : Windows, ids : Windows],
            rate : [last : Nat, count : Nat, from : Nat]]

(* A vector is its two parts; storing one leaves a vector.                 *)
LEMMA FeatureParts ==
    ASSUME NEW f \in Feature, NEW g \in Feature,
           \A part \in Part : f[part] = g[part]
    PROVE  f = g
BY DEF Feature, Part

LEMMA FeatureStored ==
    ASSUME NEW f \in Feature, NEW g \in Feature, NEW part \in Part
    PROVE  /\ [f EXCEPT ![part] = g[part]] \in Feature
           /\ [f EXCEPT ![part] = g[part]][part] = g[part]
BY DEF Feature, Part

LEMMA ShiftWindow ==
    ASSUME NEW w \in Windows, NEW v \in Nat
    PROVE  Shift(w, v) \in Windows
BY FeaturesAssumption DEF Windows, Shift

LEMMA ZerosWindow == Zeros \in Windows
BY FeaturesAssumption DEF Windows, Zeros

LEMMA ModuloType ==
    ASSUME NEW a \in Int
    PROVE  a % Modulus \in Nat
BY FeaturesAssumption, SMT

LEMMA AppendType ==
    ASSUME NEW S, NEW s \in Seq(S), NEW e \in S
    PROVE  Append(s, e) \in Seq(S)
OBVIOUS

LEMMA NoFeaturesType == NoFeatures \in Feature
BY ZerosWindow DEF NoFeatures, Feature

LEMMA UpdatedType ==
    ASSUME NEW f \in Feature, NEW ch \in Channel, NEW now \in Nat,
           NEW value \in Nat
    PROVE  Updated(f, ch, now, value) \in Feature
<1>1. /\ f.window.values \in Windows /\ f.window.ids \in Windows
      /\ f.rate.last \in Nat /\ f.rate.count \in Nat /\ f.rate.from \in Nat
  BY DEF Feature
<1>a. now - f.rate.last \in Int
  BY <1>1
<1>b. (now - f.rate.last) % Modulus \in Nat
  BY <1>a, ModuloType
<1>2. /\ Shift(f.window.values, value) \in Windows
      /\ Shift(f.window.ids, value) \in Windows
      /\ Shift(f.window.values, (now - f.rate.last) % Modulus) \in Windows
  BY <1>1, <1>b, ShiftWindow
<1> QED
  BY <1>1, <1>2 DEF Updated, Feature

------------------------------------------------------------------------------
(* The full shape of the state: every window keeps its length.             *)
Probe == [pc : {"idle", "begin", "store"}, ch : Channel, now : Nat,
          value : Nat, new : Feature, todo : SUBSET Part]
Reader == [pc : {"off", "begin", "copy"}, ch : Channel, cpu : 1 .. NrCpus + 1,
           seq : Nat, todo : SUBSET Part, copy : Feature]
Row == [cpu : CPU, seq : Nat, features : Feature]

Shape ==
    /\ clock \in Start .. Start + MaxTime
    /\ seq \in [Vectors -> Nat]
    /\ features \in [Vectors -> Feature]
    /\ probe \in [Context -> Probe]
    /\ reader \in Reader
    /\ reader.pc = "copy" => reader.cpu \in CPU
    /\ report \in Seq(Row)
    /\ published \in [Vectors -> Seq(Feature)]
    /\ fired \in [Vectors -> Seq([now : Nat, value : Nat])]
    /\ events \in Nat

LEMMA VectorOf ==
    ASSUME Shape, NEW x \in Context
    PROVE  Of(x) \in Vectors /\ probe[x] \in Probe
BY DEF Shape, Context, Of, Vectors, Probe

LEMMA ReadOfType ==
    ASSUME NEW ch \in Channel, NEW cpu \in 1 .. NrCpus + 1
    PROVE  /\ ReadOf(ch, cpu) \in Reader
           /\ ReadOf(ch, cpu).pc = "begin" /\ ReadOf(ch, cpu).ch = ch
           /\ ReadOf(ch, cpu).cpu = cpu
BY NoFeaturesType DEF ReadOf, NoRead, Reader

LEMMA ConstantTypes ==
    /\ NoProbe \in Probe /\ NoProbe.pc = "idle"
    /\ NoRead \in Reader /\ NoRead.pc = "off"
    /\ 1 \in 1 .. NrCpus + 1
BY FeaturesAssumption, NoFeaturesType DEF NoProbe, Probe, NoRead, Reader, Channel

LEMMA ShapeInit == Init => Shape
<1> SUFFICES ASSUME Init PROVE Shape
  OBVIOUS
<1>1. <<NoFeatures>> \in Seq(Feature)
  BY NoFeaturesType
<1> QED
  BY <1>1, FeaturesAssumption, NoFeaturesType, ConstantTypes
     DEF Init, Shape, Start

LEMMA ShapeNext == Shape /\ [Next]_vars => Shape'
<1> SUFFICES ASSUME Shape, [Next]_vars PROVE Shape'
  OBVIOUS
<1> USE FeaturesAssumption
<1>1. ASSUME NEW x \in Context, NEW ch \in Channel, NEW value \in Values(ch),
             Fire(x, ch, value)
      PROVE  Shape'
  <2> DEFINE p == [NoProbe EXCEPT !.pc = "begin", !.ch = ch, !.now = clock,
                                  !.value = value]
  <2>1. value \in Nat /\ clock \in Nat
    BY DEF Values, Channel, Shape, Start
  <2>2. p \in Probe
    BY <2>1, NoFeaturesType DEF NoProbe, Probe
  <2>3. /\ events' = events + 1 /\ probe' = [probe EXCEPT ![x] = p]
        /\ UNCHANGED <<clock, seq, features, published, fired, reader, report>>
    BY <1>1 DEF Fire, reading
  <2> HIDE DEF p
  <2> QED
    BY <2>2, <2>3 DEF Shape
<1>2. ASSUME NEW x \in Context, WriteBegin(x) PROVE Shape'
  <2> DEFINE v == Of(x)
             new == Updated(features[v], probe[x].ch, probe[x].now,
                            probe[x].value)
             parts == {part \in Part : new[part] # features[v][part]}
             e == [now |-> probe[x].now, value |-> probe[x].value]
  <2>1. /\ v \in Vectors /\ probe[x] \in Probe
        /\ features[v] \in Feature
    BY VectorOf DEF Shape
  <2>2. new \in Feature
    BY <2>1, UpdatedType DEF Probe
  <2>3. /\ seq' = [seq EXCEPT ![v] = @ + 1]
        /\ fired' = [fired EXCEPT ![v] = Append(@, e)]
        /\ probe' = [probe EXCEPT ![x].pc = "store", ![x].new = new,
                                  ![x].todo = parts]
        /\ UNCHANGED <<clock, features, published, events, reader, report>>
    BY <1>2 DEF WriteBegin, reading
  <2>4. parts \in SUBSET Part /\ e \in [now : Nat, value : Nat]
    BY <2>1 DEF Probe
  <2> HIDE DEF v, new, parts, e
  <2>5. probe' \in [Context -> Probe]
    <3>1. [probe[x] EXCEPT !.pc = "store", !.new = new, !.todo = parts] \in Probe
      BY <2>1, <2>2, <2>4 DEF Probe
    <3>2. probe' = [probe EXCEPT ![x] =
              [probe[x] EXCEPT !.pc = "store", !.new = new, !.todo = parts]]
      BY <2>3 DEF Shape
    <3> QED
      BY <3>1, <3>2 DEF Shape
  <2>6. fired' \in [Vectors -> Seq([now : Nat, value : Nat])]
    BY <2>1, <2>3, <2>4 DEF Shape
  <2>7. seq' \in [Vectors -> Nat]
    <3>1. seq[v] + 1 \in Nat /\ seq' = [seq EXCEPT ![v] = seq[v] + 1]
      BY <2>1, <2>3, SMTT(30) DEF Shape
    <3> QED
      BY <3>1 DEF Shape
  <2> QED
    BY <2>3, <2>5, <2>6, <2>7 DEF Shape
<1>3. ASSUME NEW x \in Context, WriteEnd(x) PROVE Shape'
  <2> DEFINE v == Of(x)
  <2>1. v \in Vectors /\ features[v] \in Feature
    BY VectorOf DEF Shape
  <2>2. /\ seq' = [seq EXCEPT ![v] = @ + 1]
        /\ published' = [published EXCEPT ![v] = Append(@, features[v])]
        /\ probe' = [probe EXCEPT ![x] = NoProbe]
        /\ UNCHANGED <<clock, features, fired, events, reader, report>>
    BY <1>3 DEF WriteEnd, reading
  <2> HIDE DEF v
  <2>3. seq' \in [Vectors -> Nat]
    <3>1. seq[v] + 1 \in Nat /\ seq' = [seq EXCEPT ![v] = seq[v] + 1]
      BY <2>1, <2>2 DEF Shape
    <3> QED
      BY <3>1 DEF Shape
  <2>4. published' \in [Vectors -> Seq(Feature)]
    BY <2>1, <2>2 DEF Shape
  <2>5. probe' \in [Context -> Probe]
    BY <2>2, ConstantTypes DEF Shape
  <2> QED
    BY <2>2, <2>3, <2>4, <2>5 DEF Shape
<1>4. ASSUME NEW x \in Context, NEW part \in Part, Store(x, part) PROVE Shape'
  <2> DEFINE v == Of(x)
             f == [features[v] EXCEPT ![part] = probe[x].new[part]]
  <2>1. v \in Vectors /\ probe[x] \in Probe /\ features[v] \in Feature
    BY VectorOf DEF Shape
  <2>2. f \in Feature
    BY <2>1, FeatureStored DEF Probe
  <2>3. /\ features' = [features EXCEPT ![v] = f]
        /\ probe' = [probe EXCEPT ![x].todo = @ \ {part}]
        /\ UNCHANGED <<clock, seq, published, fired, events, reader, report>>
    BY <1>4 DEF Store, reading
  <2> HIDE DEF v, f
  <2>4. features' \in [Vectors -> Feature]
    BY <2>1, <2>2, <2>3 DEF Shape
  <2>5. probe' \in [Context -> Probe]
    BY <2>1, <2>3 DEF Shape, Probe
  <2> QED
    BY <2>3, <2>4, <2>5 DEF Shape
<1>5. ASSUME NEW ch \in Channel, ReadStart(ch) PROVE Shape'
  BY <1>5, ReadOfType, ConstantTypes DEF ReadStart, Shape, vectors
<1>6. CASE ReadBegin
  <2>1. /\ reader.cpu \in CPU
        /\ reader' = [reader EXCEPT !.pc = "copy", !.seq = seq[Vector],
                                    !.todo = Part]
    BY <1>6 DEF ReadBegin, Shape, Reader, CPU
  <2>2. Vector \in Vectors
    BY <2>1 DEF Shape, Reader, Vector, Vectors
  <2>3. seq[Vector] \in Nat
    BY <2>2 DEF Shape
  <2>4. reader' \in Reader /\ reader'.cpu = reader.cpu
    BY <2>1, <2>3 DEF Shape, Reader
  <2> QED
    BY <1>6, <2>1, <2>4 DEF ReadBegin, Shape, vectors
<1>7. ASSUME NEW part \in Part, ReadCopy(part) PROVE Shape'
  <2> DEFINE f == [reader.copy EXCEPT ![part] = features[Vector][part]]
  <2>1. Vector \in Vectors
    BY <1>7 DEF ReadCopy, Shape, Reader, Vector, Vectors
  <2>2. f \in Feature
    BY <2>1, FeatureStored DEF Shape, Reader
  <2>3. reader' = [reader EXCEPT !.copy = f, !.todo = @ \ {part}]
    BY <1>7 DEF ReadCopy
  <2> HIDE DEF f
  <2>4. reader' \in Reader /\ reader'.cpu = reader.cpu /\ reader'.pc = reader.pc
    BY <2>2, <2>3 DEF Shape, Reader
  <2> QED
    BY <1>7, <2>4 DEF ReadCopy, Shape, vectors
<1>8. CASE ReadRetry
  BY <1>8, ReadOfType DEF ReadRetry, Shape, Reader, vectors
<1>9. CASE ReadRow
  <2> DEFINE row == [cpu |-> reader.cpu, seq |-> reader.seq,
                     features |-> reader.copy]
  <2>1. row \in Row /\ reader.cpu + 1 \in 1 .. NrCpus + 1 /\ reader.ch \in Channel
    BY <1>9, SMTT(30) DEF ReadRow, Shape, Reader, Row, CPU
  <2>2. /\ reader' = ReadOf(reader.ch, reader.cpu + 1)
        /\ report' = report \/ report' = Append(report, row)
        /\ UNCHANGED <<clock, vectors, probe>>
    BY <1>9 DEF ReadRow
  <2> HIDE DEF row
  <2>3. reader' \in Reader /\ reader'.pc = "begin"
    BY <2>1, <2>2, ReadOfType
  <2>4. report' \in Seq(Row)
    <3>1. report \in Seq(Row)
      BY DEF Shape
    <3>2. row \in Row /\ (report' = report \/ report' = Append(report, row))
      BY <2>1, <2>2
    <3>3. Append(report, row) \in Seq(Row)
      BY <3>1, <3>2, AppendType
    <3> QED
      BY <3>1, <3>2, <3>3
  <2> QED
    BY <2>2, <2>3, <2>4 DEF Shape, vectors
<1>10. CASE ReadEnd
  <2>1. << >> \in Seq(Row)
    OBVIOUS
  <2> QED
    BY <1>10, <2>1, ConstantTypes DEF ReadEnd, Shape, vectors
<1>11. CASE Tick
  BY <1>11 DEF Tick, Shape, vectors, reading, Start
<1>12. CASE UNCHANGED vars
  BY <1>12 DEF vars, vectors, reading, Shape
<1> QED
  BY <1>1, <1>2, <1>3, <1>4, <1>5, <1>6, <1>7, <1>8, <1>9, <1>10, <1>11, <1>12
     DEF Next, ProbeStep, ReadStep

------------------------------------------------------------------------------
(***************************************************************************)
(* The inductive invariant.                                                *)
(***************************************************************************)

(* An interrupt never comes on top of a probe that is storing.             *)
Unnested ==
    \A c \in CPU : probe[<<c, "irq">>].pc # "idle" =>
                       probe[<<c, "task">>].pc # "store"

Storing(v) == {x \in Context : probe[x].pc = "store" /\ Of(x) = v}

(* The count of a vector is odd while a probe stores into it, and only     *)
(* then.                                                                   *)
Parity == \A v \in Vectors : seq[v] % 2 = (IF Storing(v) = {} THEN 0 ELSE 1)

(* Half the count numbers the values a vector has had; unless a probe is   *)
(* storing into it, the vector has the last one.                           *)
Numbered ==
    \A v \in Vectors :
        /\ Len(published[v]) = seq[v] \div 2 + 1
        /\ Storing(v) = {} => features[v] = published[v][seq[v] \div 2 + 1]

(* As long as the count is what it was, each part a reader has copied is   *)
(* the part of one and the same value. Counts never come back.             *)
Copied ==
    reader.pc = "copy" =>
        /\ reader.seq % 2 = 0 /\ reader.seq <= seq[Vector]
        /\ seq[Vector] = reader.seq =>
              \A part \in Part \ reader.todo :
                  reader.copy[part] =
                      published[Vector][reader.seq \div 2 + 1][part]

(* The rows printed so far are values that were published.                 *)
Rows ==
    /\ reader.pc = "off" => report = << >>
    /\ \A i \in DOMAIN report :
          LET v == <<reader.ch, report[i].cpu>>
              k == report[i].seq \div 2 + 1
          IN  k \in 1 .. Len(published[v])
              /\ report[i].features = published[v][k]

FInv == Shape /\ Unnested /\ Parity /\ Numbered /\ Copied /\ Rows

LEMMA Halves ==
    ASSUME NEW n \in Nat
    PROVE  /\ n % 2 \in {0, 1}
           /\ n % 2 = 0 => (n + 1) % 2 = 1 /\ (n + 1) \div 2 = n \div 2
           /\ n % 2 = 1 => (n + 1) % 2 = 0 /\ (n + 1) \div 2 = n \div 2 + 1
           /\ n \div 2 \in Nat
BY SMT

LEMMA FInit == Init => FInv
<1> SUFFICES ASSUME Init PROVE FInv
  OBVIOUS
<1>1. \A x \in Context : probe[x].pc = "idle"
  BY DEF Init, NoProbe
<1>2. \A v : Storing(v) = {}
  BY <1>1 DEF Storing
<1>3. Unnested
  BY <1>1 DEF Unnested, Context
<1>4. Parity
  BY <1>2, SMT DEF Init, Parity
<1>5. Numbered
  <2> SUFFICES ASSUME NEW v \in Vectors
               PROVE  /\ Len(published[v]) = seq[v] \div 2 + 1
                      /\ features[v] = published[v][seq[v] \div 2 + 1]
    BY DEF Numbered
  <2>1. /\ seq[v] = 0 /\ features[v] = NoFeatures
        /\ published[v] = <<NoFeatures>>
    BY DEF Init
  <2>2. 0 \div 2 + 1 = 1
    BY SMT
  <2> QED
    BY <2>1, <2>2
<1>6. Copied /\ Rows
  BY DEF Init, Copied, Rows, NoRead
<1> QED
  BY <1>3, <1>4, <1>5, <1>6, ShapeInit DEF FInv

(* Steps that store nothing and publish nothing, as far as the vectors go. *)
LEMMA VectorsStay ==
    ASSUME FInv, UNCHANGED <<seq, features, published>>,
           \A v \in Vectors : Storing(v)' = Storing(v)
    PROVE  Parity' /\ Numbered'
BY DEF FInv, Parity, Numbered

LEMMA ReadingStays ==
    ASSUME FInv, UNCHANGED <<seq, published, reader, report>>
    PROVE  Copied' /\ Rows'
BY DEF FInv, Copied, Rows, Vector

LEMMA FFire ==
    ASSUME FInv, NEW x \in Context, NEW ch \in Channel,
           NEW value \in Values(ch), Fire(x, ch, value)
    PROVE  Unnested' /\ Parity' /\ Numbered' /\ Copied' /\ Rows'
<1>1. Shape /\ Unnested
  BY DEF FInv
<1>2. /\ probe[x].pc = "idle"
      /\ x[2] = "irq" => ~Masked(x)
      /\ x[2] = "task" => probe[<<x[1], "irq">>].pc = "idle"
      /\ UNCHANGED <<seq, features, published, reader, report>>
  BY DEF Fire, At, Running, Irq, reading
<1>3. probe'[x].pc = "begin" /\ \A y \in Context : y # x => probe'[y] = probe[y]
  BY <1>1 DEF Fire, Shape, NoProbe
<1>4. Unnested'
  <2> SUFFICES ASSUME NEW c \in CPU, probe'[<<c, "irq">>].pc # "idle"
               PROVE  probe'[<<c, "task">>].pc # "store"
    BY DEF Unnested
  <2>1. <<c, "irq">> \in Context /\ <<c, "task">> \in Context
    BY DEF Context
  <2>2. CASE x = <<c, "task">>
    BY <1>3, <2>2
  <2>3. CASE x = <<c, "irq">>
    <3>1. x[1] = c /\ x[2] = "irq" /\ x # <<c, "task">>
      BY <2>3
    <3>2. probe[<<c, "task">>].pc # "store"
      BY <1>2, <3>1 DEF Masked, Task
    <3> QED
      BY <1>3, <2>1, <3>1, <3>2
  <2>4. CASE x # <<c, "task">> /\ x # <<c, "irq">>
    BY <1>1, <1>3, <2>1, <2>4 DEF Unnested
  <2> QED
    BY <2>2, <2>3, <2>4
<1>5. \A v \in Vectors : Storing(v)' = Storing(v)
  <2>1. \A y \in Context : probe[y].pc = "store" \/ probe'[y].pc = "store"
                              => probe'[y] = probe[y]
    BY <1>2, <1>3
  <2> QED
    BY <2>1 DEF Storing, Of
<1> QED
  BY <1>2, <1>4, <1>5, VectorsStay, ReadingStays

(* Nobody else stores into the vector a running probe has to do with.      *)
LEMMA SoleWriter ==
    ASSUME FInv, NEW x \in Context, Running(x), probe[x].pc # "idle",
           NEW y \in Storing(Of(x))
    PROVE  y = x
<1>1. /\ y \in Context /\ y[1] = x[1] /\ probe[y].pc = "store"
      /\ x[1] \in CPU /\ x[2] \in {"task", "irq"} /\ y[2] \in {"task", "irq"}
      /\ x = <<x[1], x[2]>> /\ y = <<y[1], y[2]>>
  BY DEF Storing, Of, Context
<1>2. CASE x[2] = "task" /\ y[2] = "irq"
  BY <1>1, <1>2 DEF Running, Irq
<1>3. CASE x[2] = "irq" /\ y[2] = "task"
  BY <1>1, <1>3 DEF FInv, Unnested
<1> QED
  BY <1>1, <1>2, <1>3

LEMMA FWriteBegin ==
    ASSUME FInv, NEW x \in Context, WriteBegin(x)
    PROVE  Unnested' /\ Parity' /\ Numbered' /\ Copied' /\ Rows'
<1>1. Shape /\ Unnested
  BY DEF FInv
<1>2. PICK v \in Vectors : v = Of(x)
  BY <1>1, VectorOf
<1>3. /\ Running(x) /\ probe[x].pc = "begin"
      /\ seq' = [seq EXCEPT ![v] = @ + 1]
      /\ UNCHANGED <<features, published, reader, report>>
  BY <1>2 DEF WriteBegin, At, reading
<1>4. seq[v] \in Nat /\ probe[x] \in Probe
  BY <1>1, VectorOf DEF Shape
<1>5. /\ probe'[x].pc = "store" /\ probe'[x].ch = probe[x].ch
      /\ \A y \in Context : y # x => probe'[y] = probe[y]
  BY <1>1, <1>4 DEF WriteBegin, Shape, Probe
<1>6. seq'[v] = seq[v] + 1 /\ \A w \in Vectors : w # v => seq'[w] = seq[w]
  BY <1>1, <1>3 DEF Shape
<1>7. Unnested'
  <2> SUFFICES ASSUME NEW c \in CPU, probe'[<<c, "irq">>].pc # "idle"
               PROVE  probe'[<<c, "task">>].pc # "store"
    BY DEF Unnested
  <2>1. <<c, "irq">> \in Context /\ <<c, "task">> \in Context
    BY DEF Context
  <2>2. CASE x = <<c, "task">>
    BY <1>3, <1>5, <2>1, <2>2 DEF Running, Irq
  <2>3. CASE x = <<c, "irq">>
    BY <1>1, <1>3, <1>5, <2>1, <2>3 DEF Unnested
  <2>4. CASE x # <<c, "task">> /\ x # <<c, "irq">>
    BY <1>1, <1>5, <2>1, <2>4 DEF Unnested
  <2> QED
    BY <2>2, <2>3, <2>4
<1>8. Storing(v) = {}
  <2>1. \A y \in Storing(v) : y = x
    BY <1>2, <1>3, SoleWriter
  <2> QED
    BY <1>3, <2>1 DEF Storing
<1>9. seq[v] % 2 = 0
  BY <1>8 DEF FInv, Parity
<1>10. \A w : w # v => Storing(w)' = Storing(w)
  BY <1>2, <1>3, <1>5 DEF Storing, Of
<1>11. x \in Storing(v)'
  BY <1>2, <1>5 DEF Storing, Of
<1>12. Parity'
  <2>1. seq'[v] % 2 = 1 /\ Storing(v)' # {}
    BY <1>4, <1>6, <1>9, <1>11, Halves
  <2> QED
    BY <1>6, <1>10, <2>1 DEF FInv, Parity
<1>13. Numbered'
  <2>1. seq'[v] \div 2 = seq[v] \div 2 /\ Storing(v)' # {}
    BY <1>4, <1>6, <1>9, <1>11, Halves
  <2> QED
    BY <1>3, <1>6, <1>10, <2>1 DEF FInv, Numbered
<1>14. Copied'
  <2> SUFFICES ASSUME reader.pc = "copy"
               PROVE  /\ reader.seq % 2 = 0 /\ reader.seq <= seq'[Vector]
                      /\ seq'[Vector] = reader.seq =>
                            \A part \in Part \ reader.todo :
                                reader.copy[part] =
                                    published[Vector][reader.seq \div 2 + 1][part]
    BY <1>3 DEF Copied, Vector
  <2>1. Vector \in Vectors /\ seq[Vector] \in Nat /\ reader.seq \in Nat
    BY <1>1 DEF Shape, Reader, Vector, Vectors
  <2>2. /\ reader.seq % 2 = 0 /\ reader.seq <= seq[Vector]
        /\ seq[Vector] = reader.seq =>
              \A part \in Part \ reader.todo :
                  reader.copy[part] =
                      published[Vector][reader.seq \div 2 + 1][part]
    BY DEF FInv, Copied
  <2>3. CASE Vector = v
    BY <1>6, <2>1, <2>2, <2>3
  <2>4. CASE Vector # v
    BY <1>6, <2>1, <2>2, <2>4
  <2> QED
    BY <2>3, <2>4
<1>15. Rows'
  BY <1>3 DEF FInv, Rows
<1> QED
  BY <1>7, <1>12, <1>13, <1>14, <1>15

LEMMA FStore ==
    ASSUME FInv, NEW x \in Context, NEW part \in Part, Store(x, part)
    PROVE  Unnested' /\ Parity' /\ Numbered' /\ Copied' /\ Rows'
<1>1. Shape /\ Unnested
  BY DEF FInv
<1>2. PICK v \in Vectors : v = Of(x)
  BY <1>1, VectorOf
<1>3. /\ probe[x].pc = "store"
      /\ features' = [features EXCEPT ![v] =
                          [features[v] EXCEPT ![part] = probe[x].new[part]]]
      /\ UNCHANGED <<seq, published, reader, report>>
  BY <1>2 DEF Store, At, reading
<1>4. /\ probe'[x].pc = "store" /\ probe'[x].ch = probe[x].ch
      /\ \A y \in Context : y # x => probe'[y] = probe[y]
  BY <1>1, <1>3 DEF Store, Shape, Probe
<1>5. \A w \in Vectors : w # v => features'[w] = features[w]
  BY <1>1, <1>3 DEF Shape
<1>6. Unnested'
  BY <1>1, <1>3, <1>4 DEF Unnested, Context
<1>7. \A w : Storing(w)' = Storing(w)
  BY <1>3, <1>4 DEF Storing, Of
<1>8. Parity'
  BY <1>3, <1>7 DEF FInv, Parity
<1>9. Numbered'
  <2>1. Storing(v) # {}
    BY <1>2, <1>3 DEF Storing
  <2> QED
    BY <1>3, <1>5, <1>7, <2>1 DEF FInv, Numbered
<1> QED
  BY <1>3, <1>6, <1>8, <1>9, ReadingStays

LEMMA FWriteEnd ==
    ASSUME FInv, NEW x \in Context, WriteEnd(x)
    PROVE  Unnested' /\ Parity' /\ Numbered' /\ Copied' /\ Rows'
<1>1. Shape /\ Unnested
  BY DEF FInv
<1>2. PICK v \in Vectors : v = Of(x)
  BY <1>1, VectorOf
<1>3. /\ Running(x) /\ probe[x].pc = "store"
      /\ seq' = [seq EXCEPT ![v] = @ + 1]
      /\ published' = [published EXCEPT ![v] = Append(@, features[v])]
      /\ probe' = [probe EXCEPT ![x] = NoProbe]
      /\ UNCHANGED <<features, reader, report>>
  BY <1>2 DEF WriteEnd, At, reading
<1>4. /\ probe'[x].pc = "idle"
      /\ \A y \in Context : y # x => probe'[y] = probe[y]
  BY <1>1, <1>3, ConstantTypes DEF Shape
<1>5. /\ seq[v] \in Nat /\ seq'[v] = seq[v] + 1
      /\ \A w \in Vectors : w # v => seq'[w] = seq[w]
  BY <1>1, <1>3 DEF Shape
<1>6. Unnested'
  BY <1>1, <1>4 DEF Unnested, Context
<1>7. Storing(v) = {x}
  <2>1. x \in Storing(v)
    BY <1>2, <1>3 DEF Storing
  <2>2. \A y \in Storing(v) : y = x
    BY <1>2, <1>3, SoleWriter
  <2> QED
    BY <2>1, <2>2
<1>8. seq[v] % 2 = 1
  BY <1>7 DEF FInv, Parity
<1>9. Storing(v)' = {}
  <2>1. \A y \in Context : y # x => probe'[y] = probe[y]
    BY <1>4
  <2> QED
    BY <1>4, <1>7, <2>1 DEF Storing, Of
<1>10. \A w : w # v => Storing(w)' = Storing(w)
  BY <1>2, <1>3, <1>4 DEF Storing, Of
<1>11. seq'[v] % 2 = 0 /\ seq'[v] \div 2 = seq[v] \div 2 + 1
  BY <1>5, <1>8, Halves
<1>12. Parity'
  BY <1>5, <1>9, <1>10, <1>11 DEF FInv, Parity
<1>13. /\ published[v] \in Seq(Feature) /\ features[v] \in Feature
       /\ published'[v] = Append(published[v], features[v])
       /\ Len(published'[v]) = Len(published[v]) + 1
       /\ Len(published[v]) \in Nat
       /\ \A i \in 1 .. Len(published[v]) : published'[v][i] = published[v][i]
       /\ published'[v][Len(published[v]) + 1] = features[v]
       /\ \A w \in Vectors : w # v => published'[w] = published[w]
  BY <1>1, <1>3 DEF Shape
<1>14. Numbered'
  <2>1. Len(published[v]) = seq[v] \div 2 + 1
    BY DEF FInv, Numbered
  <2>2. /\ Len(published'[v]) = seq'[v] \div 2 + 1
        /\ features'[v] = published'[v][seq'[v] \div 2 + 1]
    BY <1>3, <1>11, <1>13, <2>1
  <2>3. \A w \in Vectors : w # v =>
            /\ Len(published'[w]) = seq'[w] \div 2 + 1
            /\ Storing(w)' = {} => features'[w] = published'[w][seq'[w] \div 2 + 1]
    BY <1>3, <1>5, <1>10, <1>13 DEF FInv, Numbered
  <2> QED
    BY <2>2, <2>3 DEF Numbered
<1>15. Copied'
  <2> SUFFICES ASSUME reader.pc = "copy"
               PROVE  /\ reader.seq % 2 = 0 /\ reader.seq <= seq'[Vector]
                      /\ seq'[Vector] = reader.seq =>
                            \A part \in Part \ reader.todo :
                                reader.copy[part] =
                                    published'[Vector][reader.seq \div 2 + 1][part]
    BY <1>3 DEF Copied, Vector
  <2>1. Vector \in Vectors /\ seq[Vector] \in Nat /\ reader.seq \in Nat
    BY <1>1 DEF Shape, Reader, Vector, Vectors
  <2>2. /\ reader.seq % 2 = 0 /\ reader.seq <= seq[Vector]
        /\ seq[Vector] = reader.seq =>
              \A part \in Part \ reader.todo :
                  reader.copy[part] =
                      published[Vector][reader.seq \div 2 + 1][part]
    BY DEF FInv, Copied
  <2>3. CASE Vector = v
    BY <1>5, <2>1, <2>2, <2>3
  <2>4. CASE Vector # v
    BY <1>5, <1>13, <2>1, <2>2, <2>4
  <2> QED
    BY <2>3, <2>4
<1>16. Rows'
  <2> SUFFICES ASSUME NEW i \in DOMAIN report,
                      NEW u, u = <<reader.ch, report[i].cpu>>,
                      NEW k, k = report[i].seq \div 2 + 1
               PROVE  /\ k \in 1 .. Len(published'[u])
                      /\ report[i].features = published'[u][k]
    BY <1>3 DEF FInv, Rows
  <2>1. k \in 1 .. Len(published[u]) /\ report[i].features = published[u][k]
    BY DEF FInv, Rows
  <2>2. u \in Vectors
    <3>1. report[i] \in Row /\ reader.ch \in Channel
      BY <1>1 DEF Shape, Reader
    <3> QED
      BY <3>1 DEF Row, Vectors
  <2> QED
    BY <1>13, <2>1, <2>2, SMTT(30)
<1> QED
  BY <1>6, <1>12, <1>14, <1>15, <1>16

(* Steps of the reader leave the vectors alone.                            *)
LEMMA ReadersStay ==
    ASSUME FInv, UNCHANGED <<clock, vectors, probe>>
    PROVE  Unnested' /\ Parity' /\ Numbered'
<1>1. UNCHANGED <<seq, features, published, probe>>
  BY DEF vectors
<1>2. \A v : Storing(v)' = Storing(v)
  BY <1>1 DEF Storing, Of
<1> QED
  BY <1>1, <1>2 DEF FInv, Unnested, Parity, Numbered

LEMMA FReadStart ==
    ASSUME FInv, NEW ch \in Channel, ReadStart(ch)
    PROVE  Unnested' /\ Parity' /\ Numbered' /\ Copied' /\ Rows'
<1>1. reader.pc = "off" /\ report = << >> /\ report' = report
  BY DEF FInv, Rows, ReadStart
<1>2. reader'.pc = "begin"
  BY ReadOfType, ConstantTypes DEF ReadStart
<1> QED
  BY <1>1, <1>2, ReadersStay DEF ReadStart, Copied, Rows

LEMMA FReadBegin ==
    ASSUME FInv, ReadBegin
    PROVE  Unnested' /\ Parity' /\ Numbered' /\ Copied' /\ Rows'
<1>1. Shape
  BY DEF FInv
<1>2. /\ seq[Vector] % 2 = 0
      /\ UNCHANGED <<seq, published, report>>
  BY DEF ReadBegin, vectors
<1>3. /\ reader'.pc = "copy" /\ reader'.ch = reader.ch
      /\ reader'.cpu = reader.cpu /\ reader'.seq = seq[Vector]
      /\ reader'.todo = Part
  BY <1>1 DEF ReadBegin, Shape, Reader
<1>4. seq[Vector] \in Nat
  <2>1. Vector \in Vectors
    BY <1>1 DEF ReadBegin, Shape, Reader, Vector, Vectors, CPU
  <2> QED
    BY <1>1, <2>1 DEF Shape
<1>5. Vector' = Vector
  BY <1>3 DEF Vector
<1>6. Copied'
  BY <1>2, <1>3, <1>4, <1>5 DEF Copied
<1>7. Rows'
  BY <1>2, <1>3 DEF FInv, Rows
<1> QED
  BY <1>6, <1>7, ReadersStay DEF ReadBegin

LEMMA FReadCopy ==
    ASSUME FInv, NEW part \in Part, ReadCopy(part)
    PROVE  Unnested' /\ Parity' /\ Numbered' /\ Copied' /\ Rows'
<1>1. Shape
  BY DEF FInv
<1>2. reader.pc = "copy" /\ UNCHANGED <<seq, published, report>>
  BY DEF ReadCopy, vectors
<1>3. Vector \in Vectors /\ reader \in Reader /\ features[Vector] \in Feature
  BY <1>1, <1>2 DEF Shape, Reader, Vector, Vectors
<1>4. /\ reader'.pc = "copy" /\ reader'.ch = reader.ch
      /\ reader'.cpu = reader.cpu /\ reader'.seq = reader.seq
      /\ reader'.todo = reader.todo \ {part}
      /\ reader'.copy = [reader.copy EXCEPT ![part] = features[Vector][part]]
  BY <1>3 DEF ReadCopy, Reader
<1>5. Vector' = Vector
  BY <1>4 DEF Vector
<1>6. Copied'
  <2>1. reader.seq % 2 = 0 /\ reader.seq <= seq[Vector]
    BY <1>2 DEF FInv, Copied
  <2>2. ASSUME seq[Vector] = reader.seq, NEW q \in Part \ reader'.todo
        PROVE  reader'.copy[q] = published[Vector][reader.seq \div 2 + 1][q]
    <3>1. Storing(Vector) = {}
      BY <1>3, <2>1, <2>2 DEF FInv, Parity
    <3>2. features[Vector] = published[Vector][reader.seq \div 2 + 1]
      BY <1>3, <2>2, <3>1 DEF FInv, Numbered
    <3>3. reader.copy \in Feature /\ DOMAIN reader.copy = Part
      BY <1>3 DEF Reader, Feature, Part
    <3>4. CASE q = part
      BY <1>4, <3>2, <3>3, <3>4
    <3>5. CASE q # part
      <4>1. q \in Part \ reader.todo /\ reader'.copy[q] = reader.copy[q]
        BY <1>4, <2>2, <3>3, <3>5
      <4> QED
        BY <1>2, <2>2, <4>1 DEF FInv, Copied
    <3> QED
      BY <3>4, <3>5
  <2> QED
    BY <1>2, <1>4, <1>5, <2>1, <2>2 DEF Copied
<1>7. Rows'
  BY <1>2, <1>4 DEF FInv, Rows
<1> QED
  BY <1>6, <1>7, ReadersStay DEF ReadCopy

LEMMA FReadRetry ==
    ASSUME FInv, ReadRetry
    PROVE  Unnested' /\ Parity' /\ Numbered' /\ Copied' /\ Rows'
<1>1. reader.ch \in Channel /\ reader.cpu \in 1 .. NrCpus + 1
  BY DEF FInv, Shape, Reader
<1>2. reader'.pc = "begin" /\ reader'.ch = reader.ch /\ report' = report
  BY <1>1, ReadOfType DEF ReadRetry
<1>3. published' = published
  BY DEF ReadRetry, vectors
<1> QED
  BY <1>2, <1>3, ReadersStay DEF ReadRetry, FInv, Copied, Rows

(* Both parts are of the value the count numbers: the copy is that value.  *)
LEMMA FReadRow ==
    ASSUME FInv, ReadRow
    PROVE  Unnested' /\ Parity' /\ Numbered' /\ Copied' /\ Rows'
<1>1. Shape
  BY DEF FInv
<1>2. /\ reader.pc = "copy" /\ reader.todo = {} /\ seq[Vector] = reader.seq
      /\ published' = published
  BY DEF ReadRow, vectors
<1>3. Vector \in Vectors /\ reader \in Reader /\ reader.cpu + 1 \in 1 .. NrCpus + 1
  BY <1>1, <1>2, FeaturesAssumption, SMTT(30) DEF Shape, Reader, Vector, Vectors, CPU
<1>4. PICK k : k = reader.seq \div 2 + 1
  OBVIOUS
<1>5. k \in 1 .. Len(published[Vector])
  <2>1. Len(published[Vector]) = k
    BY <1>2, <1>3, <1>4 DEF FInv, Numbered
  <2>2. reader.seq \in Nat
    BY <1>3 DEF Reader
  <2>3. k \in Nat /\ k >= 1
    BY <1>4, <2>2, Halves
  <2> QED
    BY <2>1, <2>3
<1>6. reader.copy = published[Vector][k]
  <2>1. published[Vector][k] \in Feature /\ reader.copy \in Feature
    BY <1>1, <1>3, <1>5 DEF Shape, Reader
  <2>2. \A part \in Part : reader.copy[part] = published[Vector][k][part]
    BY <1>2, <1>4 DEF FInv, Copied
  <2> QED
    BY <2>1, <2>2, FeatureParts
<1>7. PICK row : row = [cpu |-> reader.cpu, seq |-> reader.seq,
                        features |-> reader.copy]
  OBVIOUS
<1>8. report' = report \/ report' = Append(report, row)
  BY <1>7 DEF ReadRow
<1>9. reader'.pc = "begin" /\ reader'.ch = reader.ch
  BY <1>3, ReadOfType DEF ReadRow, Reader
<1>10. Rows'
  <2>1. ASSUME NEW i \in DOMAIN report,
               NEW u, u = <<reader.ch, report[i].cpu>>,
               NEW l, l = report[i].seq \div 2 + 1
        PROVE  l \in 1 .. Len(published[u]) /\ report[i].features = published[u][l]
    BY <2>1 DEF FInv, Rows
  <2>2. CASE report' = report
    BY <1>2, <1>9, <2>1, <2>2 DEF Rows
  <2>3. CASE report' = Append(report, row)
    <3> SUFFICES ASSUME NEW i \in DOMAIN report',
                        NEW u, u = <<reader.ch, report'[i].cpu>>,
                        NEW l, l = report'[i].seq \div 2 + 1
                 PROVE  /\ l \in 1 .. Len(published[u])
                        /\ report'[i].features = published[u][l]
      BY <1>2, <1>9 DEF Rows
    <3>1. /\ DOMAIN report' = 1 .. Len(report) + 1 /\ Len(report) \in Nat
          /\ DOMAIN report = 1 .. Len(report)
          /\ report'[Len(report) + 1] = row
          /\ \A j \in 1 .. Len(report) : report'[j] = report[j]
      BY <1>1, <2>3 DEF Shape
    <3>2. CASE i = Len(report) + 1
      BY <1>4, <1>5, <1>6, <1>7, <3>1, <3>2 DEF Vector
    <3>3. CASE i # Len(report) + 1
      <4>1. i \in DOMAIN report /\ report'[i] = report[i]
        BY <3>1, <3>3
      <4> QED
        BY <2>1, <4>1
    <3> QED
      BY <3>2, <3>3
  <2> QED
    BY <1>8, <2>2, <2>3
<1>11. Copied'
  BY <1>9 DEF Copied
<1> QED
  BY <1>10, <1>11, ReadersStay DEF ReadRow

LEMMA FReadEnd ==
    ASSUME FInv, ReadEnd
    PROVE  Unnested' /\ Parity' /\ Numbered' /\ Copied' /\ Rows'
<1>1. reader'.pc = "off" /\ report' = << >>
  BY ConstantTypes DEF ReadEnd
<1> QED
  BY <1>1, ReadersStay DEF ReadEnd, Copied, Rows

LEMMA FNext == FInv /\ [Next]_vars => FInv'
<1> SUFFICES ASSUME FInv, [Next]_vars PROVE FInv'
  OBVIOUS
<1>1. Shape'
  BY ShapeNext DEF FInv
<1>2. CASE Tick \/ UNCHANGED vars
  <2>1. UNCHANGED <<vectors, probe, reading>>
    BY <1>2 DEF Tick, vars
  <2>2. UNCHANGED <<seq, features, published, probe, reader, report>>
    BY <2>1 DEF vectors, reading
  <2>3. \A v : Storing(v)' = Storing(v)
    BY <2>2 DEF Storing, Of
  <2> QED
    BY <1>1, <2>2, <2>3, ReadingStays DEF FInv, Unnested, Parity, Numbered
<1>3. CASE ReadStep
  BY <1>1, <1>3, FReadBegin, FReadCopy, FReadRetry, FReadRow, FReadEnd
     DEF ReadStep, FInv
<1>4. ASSUME NEW x \in Context, ProbeStep(x) PROVE FInv'
  BY <1>1, <1>4, FWriteBegin, FStore, FWriteEnd DEF ProbeStep, FInv
<1>5. ASSUME NEW x \in Context, NEW ch \in Channel, NEW value \in Values(ch),
             Fire(x, ch, value)
      PROVE  FInv'
  BY <1>1, <1>5, FFire DEF FInv
<1>6. ASSUME NEW ch \in Channel, ReadStart(ch) PROVE FInv'
  BY <1>1, <1>6, FReadStart DEF FInv
<1> QED
  BY <1>2, <1>3, <1>4, <1>5, <1>6 DEF Next

LEMMA FeaturesInvariance == Spec => []FInv
BY FInit, FNext, PTL DEF Spec

(* A report prints whole vectors: every row is one value the vector had    *)
(* between two probes, the one of the sequence count it was copied under.  *)
THEOREM RowsCorrect == Spec => []RowsWhole
<1>1. FInv => RowsWhole
  BY DEF FInv, Rows, RowsWhole
<1> QED
  BY <1>1, FeaturesInvariance, PTL

------------------------------------------------------------------------------
(***************************************************************************)
(* What a vector says of the events it has seen.                           *)
(***************************************************************************)
Event == [now : Nat, value : Nat]

LEMMA SequenceIs ==
    ASSUME NEW S, NEW s \in Seq(S), NEW n \in Nat, Len(s) = n
    PROVE  s = [i \in 1 .. n |-> s[i]]
OBVIOUS

LEMMA AppendIs ==
    ASSUME NEW S, NEW s \in Seq(S), NEW e \in S
    PROVE  Append(s, e) = [i \in 1 .. Len(s) + 1 |->
                               IF i = Len(s) + 1 THEN e ELSE s[i]]
<1>0. Append(s, e) \in Seq(S)
  OBVIOUS
<1>1. PICK t \in Seq(S) : t = Append(s, e)
  BY <1>0
<1>2. /\ Len(t) = Len(s) + 1 /\ t[Len(s) + 1] = e
      /\ \A i \in 1 .. Len(s) : t[i] = s[i]
  BY <1>1
<1>3. t = [i \in 1 .. Len(t) |-> t[i]]
  OBVIOUS
<1>4. \A i \in 1 .. Len(s) + 1 : i # Len(s) + 1 => i \in 1 .. Len(s)
  OBVIOUS
<1> QED
  BY <1>1, <1>2, <1>3, <1>4

(* The last Window elements, and zeros where there are none.               *)
LEMMA PaddedIs ==
    ASSUME NEW t \in Seq(Nat)
    PROVE  Padded(t) = [i \in 1 .. Window |->
                            IF Len(t) + i <= Window THEN 0
                            ELSE t[Len(t) + i - Window]]
<1>1. PICK n \in Nat : n = Len(t)
  OBVIOUS
<1>2. PICK W \in Nat \ {0} : W = Window
  BY FeaturesAssumption
<1>3. PICK z \in Seq(Nat) :
          /\ z = Zeros \o t /\ Len(z) = W + n
          /\ \A j \in 1 .. W + n : z[j] = IF j <= W THEN 0 ELSE t[j - W]
  <2>1. PICK o \in Seq(Nat) : /\ o = Zeros /\ Len(o) = W
                              /\ \A j \in 1 .. W : o[j] = 0
    <3>1. Zeros \in Seq(Nat) /\ Len(Zeros) = W /\ \A j \in 1 .. W : Zeros[j] = 0
      BY <1>2 DEF Zeros
    <3> QED
      BY <3>1
  <2>2. o \o t \in Seq(Nat)
    OBVIOUS
  <2>3. Len(o \o t) = W + n
    BY <1>1, <2>1
  <2>4. \A j \in 1 .. W + n :
            (o \o t)[j] = IF j <= W THEN o[j] ELSE t[j - W]
    <3> TAKE j \in 1 .. W + n
    <3>1. j \in 1 .. Len(o) + Len(t)
      BY <1>1, <2>1
    <3> QED
      BY <2>1, <3>1
  <2>5. \A j \in 1 .. W + n :
            (o \o t)[j] = IF j <= W THEN 0 ELSE t[j - W]
    <3> TAKE j \in 1 .. W + n
    <3>1. CASE j <= W
      <4>1. j \in 1 .. W
        BY <3>1
      <4> QED
        BY <2>1, <2>4, <3>1, <4>1
    <3>2. CASE ~(j <= W)
      BY <2>4, <3>2
    <3> QED
      BY <3>1, <3>2
  <2> QED
    BY <2>1, <2>2, <2>3, <2>5
<1>4. Padded(t) = LastOf(z, W)
  BY <1>2, <1>3 DEF Padded
<1>5. LastOf(z, W) = [i \in 1 .. W |-> z[n + i]]
  <2>1. CASE n = 0
    <3>1. Len(z) = W
      BY <1>3, <2>1
    <3>2. LastOf(z, W) = z
      BY <3>1 DEF LastOf
    <3>3. z = [i \in 1 .. W |-> z[i]]
      BY <3>1
    <3>4. \A i \in 1 .. W : n + i = i
      BY <2>1
    <3> QED
      BY <3>2, <3>3, <3>4
  <2>2. CASE n > 0
    <3>1. LastOf(z, W) = SubSeq(z, n + 1, W + n)
      <4>1. ~(Len(z) <= W) /\ Len(z) - W + 1 = n + 1
        BY <1>3, <2>2
      <4> QED
        BY <1>3, <4>1 DEF LastOf
    <3>2. SubSeq(z, n + 1, W + n) = [i \in 1 .. W |-> z[n + i]]
      <4>1. SubSeq(z, n + 1, W + n) =
                [i \in 1 .. (W + n) - (n + 1) + 1 |-> z[n + 1 + i - 1]]
        OBVIOUS
      <4>2. (W + n) - (n + 1) + 1 = W
        OBVIOUS
      <4>3. \A i \in 1 .. W : n + 1 + i - 1 = n + i
        OBVIOUS
      <4> QED
        BY <4>1, <4>2, <4>3
    <3> QED
      BY <3>1, <3>2
  <2> QED
    BY <2>1, <2>2
<1>6. \A i \in 1 .. W : z[n + i] = IF n + i <= W THEN 0 ELSE t[n + i - W]
  BY <1>3
<1> QED
  BY <1>1, <1>2, <1>4, <1>5, <1>6

LEMMA PaddedEmpty == Padded(<< >>) = Zeros
<1>1. << >> \in Seq(Nat) /\ Len(<< >>) = 0
  OBVIOUS
<1>0. PICK t \in Seq(Nat) : t = << >> /\ Len(t) = 0
  BY <1>1
<1>2. Padded(t) = [i \in 1 .. Window |-> IF Len(t) + i <= Window THEN 0
                                         ELSE t[Len(t) + i - Window]]
  BY PaddedIs
<1>3. \A i \in 1 .. Window : Len(t) + i <= Window
  BY <1>0, FeaturesAssumption
<1> QED
  BY <1>0, <1>2, <1>3 DEF Zeros

(* Shifting a value into the window is padding the longer sequence.        *)
LEMMA PaddedStep ==
    ASSUME NEW t \in Seq(Nat), NEW x \in Nat
    PROVE  Padded(Append(t, x)) = Shift(Padded(t), x)
<1>1. PICK n \in Nat : n = Len(t)
  OBVIOUS
<1>2. PICK W \in Nat \ {0} : W = Window
  BY FeaturesAssumption
<1>3. PICK u \in Seq(Nat) : /\ u = Append(t, x) /\ Len(u) = n + 1
                            /\ u[n + 1] = x /\ \A i \in 1 .. n : u[i] = t[i]
  <2>1. /\ Append(t, x) \in Seq(Nat) /\ Len(Append(t, x)) = n + 1
        /\ Append(t, x)[n + 1] = x
        /\ \A i \in 1 .. n : Append(t, x)[i] = t[i]
    BY <1>1
  <2> QED
    BY <2>1
<1>4. Padded(u) = [i \in 1 .. W |-> IF n + 1 + i <= W THEN 0
                                    ELSE u[n + 1 + i - W]]
  BY <1>2, <1>3, PaddedIs
<1>5. PICK p : /\ p = Padded(t)
               /\ p = [i \in 1 .. W |-> IF n + i <= W THEN 0 ELSE t[n + i - W]]
  BY <1>1, <1>2, PaddedIs
<1>6. Shift(p, x) = [i \in 1 .. W |-> IF i = W THEN x ELSE p[i + 1]]
  <2>1. p \in Seq(Nat) /\ Len(p) = W
    <3>1. \A i \in 1 .. W : ~(n + i <= W) => n + i - W \in 1 .. n
      OBVIOUS
    <3>2. \A i \in 1 .. n : t[i] \in Nat
      BY <1>1
    <3> QED
      BY <1>5, <3>1, <3>2
  <2>2. /\ Tail(p) \in Seq(Nat) /\ Len(Tail(p)) = W - 1
        /\ \A i \in 1 .. W - 1 : Tail(p)[i] = p[i + 1]
    BY <2>1
  <2>3. /\ Append(Tail(p), x) \in Seq(Nat) /\ Len(Append(Tail(p), x)) = W
        /\ Append(Tail(p), x)[W] = x
        /\ \A i \in 1 .. W - 1 : Append(Tail(p), x)[i] = p[i + 1]
    BY <2>2
  <2>4. Append(Tail(p), x) = [i \in 1 .. W |-> Append(Tail(p), x)[i]]
    BY <2>3, SequenceIs
  <2>5. \A i \in 1 .. W : i = W \/ i \in 1 .. W - 1
    OBVIOUS
  <2> QED
    BY <2>3, <2>4, <2>5 DEF Shift
<1>7. ASSUME NEW i \in 1 .. W
      PROVE  (IF n + 1 + i <= W THEN 0 ELSE u[n + 1 + i - W])
                 = IF i = W THEN x ELSE p[i + 1]
  <2>1. CASE i = W
    BY <1>3, <2>1
  <2>2. CASE i # W
    <3>1. i + 1 \in 1 .. W /\ n + (i + 1) = n + 1 + i
      BY <2>2
    <3>2. p[i + 1] = IF n + (i + 1) <= W THEN 0 ELSE t[n + (i + 1) - W]
      BY <1>5, <3>1
    <3>3. ~(n + 1 + i <= W) => n + 1 + i - W \in 1 .. n
      BY <2>2
    <3> QED
      BY <1>3, <2>2, <3>1, <3>2, <3>3
  <2> QED
    BY <2>1, <2>2
<1> QED
  BY <1>3, <1>4, <1>5, <1>6, <1>7

(* The values and the intervals of one more event.                         *)
LEMMA ValuesStep ==
    ASSUME NEW s \in Seq(Event), NEW e \in Event
    PROVE  /\ [i \in 1 .. Len(s) |-> s[i].value] \in Seq(Nat)
           /\ [i \in 1 .. Len(Append(s, e)) |-> Append(s, e)[i].value]
                  = Append([i \in 1 .. Len(s) |-> s[i].value], e.value)
<1>1. PICK n \in Nat : n = Len(s)
  OBVIOUS
<1>2. \A i \in 1 .. n : s[i].value \in Nat
  <2>1. \A i \in 1 .. n : s[i] \in Event
    BY <1>1
  <2> QED
    BY <2>1 DEF Event
<1>3. PICK r : r = [i \in 1 .. n |-> s[i].value]
  OBVIOUS
<1>4. r \in Seq(Nat) /\ Len(r) = n
  BY <1>2, <1>3
<1>5. PICK t : /\ t = Append(s, e) /\ Len(t) = n + 1
               /\ t[n + 1] = e /\ \A i \in 1 .. n : t[i] = s[i]
  <2>1. /\ Len(Append(s, e)) = n + 1
        /\ Append(s, e)[n + 1] = e
        /\ \A i \in 1 .. n : Append(s, e)[i] = s[i]
    BY <1>1
  <2> QED
    BY <2>1
<1>6. /\ Append(r, e.value) =
             [i \in 1 .. n + 1 |-> IF i = n + 1 THEN e.value ELSE r[i]]
  BY <1>4
<1>7. \A i \in 1 .. n + 1 :
          t[i].value = IF i = n + 1 THEN e.value ELSE r[i]
  BY <1>3, <1>5
<1> QED
  BY <1>1, <1>3, <1>4, <1>5, <1>6, <1>7

(* The events have come in time.                                           *)
Timely(s, time) ==
    /\ \A i \in 1 .. Len(s) : s[i].now \in Start .. time
    /\ \A i, j \in 1 .. Len(s) : i <= j => s[i].now <= s[j].now

LEMMA IntervalsStep ==
    ASSUME NEW s \in Seq(Event), NEW e \in Event, NEW time \in Nat,
           Timely(Append(s, e), time)
    PROVE  /\ Intervals(s) \in Seq(Nat)
           /\ s = << >> => Intervals(s) = << >> /\ Intervals(Append(s, e)) = << >>
           /\ s # << >> => /\ e.now - s[Len(s)].now \in Nat
                           /\ Intervals(Append(s, e))
                                = Append(Intervals(s), e.now - s[Len(s)].now)
<1>1. PICK n \in Nat : n = Len(s)
  OBVIOUS
<1>2. PICK t : /\ t = Append(s, e) /\ Len(t) = n + 1
               /\ t[n + 1] = e /\ \A i \in 1 .. n : t[i] = s[i]
  <2>1. /\ Len(Append(s, e)) = n + 1
        /\ Append(s, e)[n + 1] = e
        /\ \A i \in 1 .. n : Append(s, e)[i] = s[i]
    BY <1>1
  <2> QED
    BY <2>1
<1>3. \A i \in 1 .. n + 1 : t[i].now \in Nat
  <2>1. Start \in Nat
    BY FeaturesAssumption DEF Start
  <2> QED
    BY <1>2, <2>1 DEF Timely
<1>4. \A i \in 1 .. n : t[i + 1].now - t[i].now \in Nat
  <2> TAKE i \in 1 .. n
  <2>1. i \in 1 .. n + 1 /\ i + 1 \in 1 .. n + 1 /\ i <= i + 1
    OBVIOUS
  <2>2. t[i].now <= t[i + 1].now
    BY <1>2, <2>1 DEF Timely
  <2> QED
    BY <1>3, <2>1, <2>2
<1>5. Intervals(t) = [i \in 1 .. n |-> t[i + 1].now - t[i].now]
  <2>1. (n + 1) - 1 = n
    OBVIOUS
  <2> QED
    BY <1>2, <2>1 DEF Intervals
<1>6. Intervals(s) = [i \in 1 .. n - 1 |-> t[i + 1].now - t[i].now]
  <2>1. \A i \in 1 .. n - 1 : i \in 1 .. n /\ i + 1 \in 1 .. n
    OBVIOUS
  <2>2. Intervals(s) = [i \in 1 .. n - 1 |-> s[i + 1].now - s[i].now]
    BY <1>1 DEF Intervals
  <2> QED
    BY <1>2, <2>1, <2>2
<1>7. CASE n = 0
  <2>1. s = << >> /\ Intervals(t) = << >> /\ Intervals(s) = << >>
    <3>1. s = << >>
      BY <1>1, <1>7, EmptySeq
    <3>2. \A m \in {n, n - 1} : \A i \in 1 .. m : FALSE
      BY <1>7
    <3>3. ASSUME NEW r, NEW m \in {n, n - 1},
                 r = [i \in 1 .. m |-> t[i + 1].now - t[i].now]
          PROVE  r = << >>
      <4>1. 1 .. m = 1 .. 0
        BY <1>7
      <4>2. r \in [1 .. 0 -> Nat]
        <5>1. \A i \in 1 .. 0 : t[i + 1].now - t[i].now \in Nat
          OBVIOUS
        <5> QED
          BY <3>3, <4>1, <5>1, Zenon
      <4>3. r \in Seq(Nat) /\ Len(r) = 0
        BY <4>2
      <4> QED
        BY <4>3, EmptySeq
    <3> QED
      BY <1>5, <1>6, <3>1, <3>3
  <2>2. << >> \in Seq(Nat)
    OBVIOUS
  <2> QED
    BY <1>2, <2>1, <2>2
<1>8. CASE n # 0
  <2>1. \A i \in 1 .. n - 1 : i \in 1 .. n
    OBVIOUS
  <2>2. Intervals(s) \in Seq(Nat) /\ Len(Intervals(s)) = n - 1
    <3>1. PICK m \in Nat : m = n - 1
      BY <1>8
    <3>2. \A i \in 1 .. m : t[i + 1].now - t[i].now \in Nat
      BY <1>4, <2>1, <3>1
    <3>3. PICK v : v = [i \in 1 .. m |-> t[i + 1].now - t[i].now]
      OBVIOUS
    <3>4. v \in [1 .. m -> Nat]
      BY <3>2, <3>3
    <3>5. v \in Seq(Nat) /\ Len(v) = m
      BY <3>4
    <3> QED
      BY <1>6, <3>1, <3>3, <3>5
  <2>3. n \in 1 .. n /\ s[n] = t[n] /\ s # << >>
    BY <1>1, <1>2, <1>8
  <2>4. PICK d \in Nat : d = t[n + 1].now - t[n].now
    BY <1>4, <2>3
  <2>5. Append(Intervals(s), d) =
            [i \in 1 .. n |-> IF i = n THEN d ELSE Intervals(s)[i]]
    <3> DEFINE r == Intervals(s)
    <3>1. r \in Seq(Nat) /\ Len(r) + 1 = n
      BY <2>2
    <3>2. Append(r, d) = [i \in 1 .. Len(r) + 1 |->
                              IF i = Len(r) + 1 THEN d ELSE r[i]]
      <4> HIDE DEF r
      <4> QED
        BY <3>1, AppendIs, SMTT(30)
    <3> QED
      BY <3>1, <3>2
  <2>6. \A i \in 1 .. n : (IF i = n THEN d ELSE Intervals(s)[i])
                              = t[i + 1].now - t[i].now
    <3> TAKE i \in 1 .. n
    <3>1. i # n => i \in 1 .. n - 1
      OBVIOUS
    <3> QED
      BY <1>6, <2>4, <3>1
  <2>7. Intervals(t) = Append(Intervals(s), d)
    BY <1>5, <2>5, <2>6
  <2> QED
    BY <1>1, <1>2, <2>2, <2>3, <2>4, <2>7
<1> QED
  BY <1>7, <1>8


LEMMA Elapsed ==
    ASSUME NEW last \in Nat, NEW now \in Nat, NEW from \in Nat,
           NEW second \in Nat, last <= now, last - from \in 0 .. second
    PROVE  /\ now >= from
           /\ ~(now - from > second) => now - from \in 0 .. second
           /\ now - from > second => \A a \in Nat : a <= last => a < now
OBVIOUS

(* The events since a time.                                                *)
Recent(s, time) == {i \in 1 .. Len(s) : s[i].now >= time}

(* The events t are the events s and, no earlier, the event e.             *)
Grown(s, e, t) ==
    /\ Len(t) = Len(s) + 1 /\ t[Len(s) + 1] = e
    /\ \A i \in 1 .. Len(s) : t[i] = s[i] /\ t[i].now <= s[Len(s)].now
    /\ \A i \in 1 .. Len(s) + 1 : t[i].now \in Nat /\ t[i].now <= e.now
    /\ e.now \in Nat /\ e.now > SECOND

LEMMA TimelyGrown ==
    ASSUME NEW s \in Seq(Event), NEW e \in Event, NEW time \in Nat,
           NEW t, t = Append(s, e), Timely(t, time)
    PROVE  Grown(s, e, t)
<1>1. PICK n \in Nat : n = Len(s)
  OBVIOUS
<1>2. /\ Len(t) = n + 1 /\ t[n + 1] = e
      /\ \A i \in 1 .. n : t[i] = s[i]
  BY <1>1
<1>3. /\ \A i \in 1 .. n + 1 : t[i].now \in Start .. time
      /\ \A i, j \in 1 .. n + 1 : i <= j => t[i].now <= t[j].now
  BY <1>2 DEF Timely
<1>4. Start \in Nat /\ Start > SECOND /\ SECOND \in Nat
  BY FeaturesAssumption DEF Start
<1>5. \A i \in 1 .. n + 1 : t[i].now \in Nat /\ t[i].now > SECOND
  <2> TAKE i \in 1 .. n + 1
  <2>1. PICK a : a = t[i].now
    OBVIOUS
  <2>2. a \in Start .. time
    BY <1>3, <2>1
  <2>3. a \in Nat /\ a > SECOND
    BY <1>4, <2>2
  <2> QED
    BY <2>1, <2>3
<1>6. n + 1 \in 1 .. n + 1 /\ \A i \in 1 .. n + 1 : i <= n + 1
  OBVIOUS
<1>7. \A i \in 1 .. n + 1 : t[i].now <= e.now
  BY <1>2, <1>3, <1>6
<1>8. \A i \in 1 .. n : t[i].now <= s[n].now
  <2> TAKE i \in 1 .. n
  <2>1. i \in 1 .. n + 1 /\ n \in 1 .. n + 1 /\ n \in 1 .. n /\ i <= n
    OBVIOUS
  <2> QED
    BY <1>2, <1>3, <2>1
<1>9. e.now \in Nat /\ e.now > SECOND
  BY <1>2, <1>5, <1>6
<1> QED
  BY <1>1, <1>2, <1>4, <1>5, <1>7, <1>8, <1>9 DEF Grown

(* The window of time starts over when an event comes more than a second   *)
(* after it began, and then no earlier event is in it.                     *)
LEMMA RateRestarts ==
    ASSUME NEW s \in Seq(Event), NEW e, NEW t, Grown(s, e, t),
           NEW from \in Nat,
           s # << >> => s[Len(s)].now - from \in 0 .. SECOND,
           e.now - from > SECOND
    PROVE  Cardinality(Recent(t, e.now)) = 1
<1>1. PICK n \in Nat : n = Len(s)
  OBVIOUS
<1>2. /\ Len(t) = n + 1 /\ t[n + 1] = e
      /\ \A i \in 1 .. n : t[i] = s[i]
      /\ \A i \in 1 .. n + 1 : t[i].now \in Nat
      /\ \A i \in 1 .. n : t[i].now <= s[n].now
      /\ e.now \in Nat /\ SECOND \in Nat
      /\ \A i \in 1 .. n + 1 : t[i].now <= e.now
  BY <1>1, FeaturesAssumption DEF Grown
<1>3. ASSUME NEW i \in 1 .. n PROVE ~(t[i].now >= e.now)
  <2>1. n \in 1 .. n /\ n \in 1 .. n + 1 /\ i \in 1 .. n + 1 /\ s # << >>
    BY <1>1
  <2>2. PICK last \in Nat : last = s[n].now
    BY <1>2, <2>1
  <2>3. PICK now \in Nat : now = e.now
    BY <1>2
  <2>4. PICK second \in Nat : second = SECOND
    BY <1>2
  <2>5. last - from \in 0 .. second /\ now - from > second /\ last <= now
    BY <1>1, <1>2, <2>1, <2>2, <2>3, <2>4
  <2>6. PICK a \in Nat : a = t[i].now
    BY <1>2, <2>1
  <2>7. a <= last
    BY <1>2, <2>2, <2>6
  <2>8. a < now
    BY <2>5, <2>7, Elapsed
  <2>9. ~(a >= now)
    BY <2>8
  <2> QED
    BY <2>3, <2>6, <2>9
<1>4. Recent(t, e.now) = {n + 1}
  <2>1. \A i \in 1 .. n + 1 : i = n + 1 \/ i \in 1 .. n
    OBVIOUS
  <2>2. n + 1 \in 1 .. n + 1 /\ t[n + 1].now >= e.now
    BY <1>2
  <2> QED
    BY <1>2, <1>3, <2>1, <2>2 DEF Recent
<1> QED
  BY <1>4, FS_Singleton

(* Otherwise it goes on, and the event is one more in it.                  *)
LEMMA RateGoesOn ==
    ASSUME NEW s \in Seq(Event), NEW e, NEW t, Grown(s, e, t),
           NEW from \in Nat,
           s = << >> => from = 0,
           s # << >> => s[Len(s)].now - from \in 0 .. SECOND,
           ~(e.now - from > SECOND)
    PROVE  /\ s # << >> /\ e.now - from \in 0 .. SECOND
           /\ Cardinality(Recent(t, from)) = Cardinality(Recent(s, from)) + 1
<1>1. PICK n \in Nat : n = Len(s)
  OBVIOUS
<1>2. /\ Len(t) = n + 1 /\ t[n + 1] = e
      /\ \A i \in 1 .. n : t[i] = s[i]
      /\ \A i \in 1 .. n + 1 : t[i].now \in Nat
      /\ e.now \in Nat /\ e.now > SECOND /\ SECOND \in Nat
      /\ \A i \in 1 .. n + 1 : t[i].now <= e.now
  BY <1>1, FeaturesAssumption DEF Grown
<1>3. PICK now \in Nat : now = e.now
  BY <1>2
<1>4. PICK second \in Nat : second = SECOND
  BY <1>2
<1>5. s # << >> /\ n # 0
  <2>1. ASSUME from = 0 PROVE FALSE
    BY <1>2, <2>1
  <2> QED
    BY <1>1, <2>1, EmptySeq
<1>6. now >= from /\ now - from \in 0 .. second
  <2>1. n \in 1 .. n /\ n \in 1 .. n + 1
    BY <1>5
  <2>2. PICK last \in Nat : last = s[n].now
    BY <1>2, <2>1
  <2>3. last - from \in 0 .. second /\ ~(now - from > second) /\ last <= now
    BY <1>1, <1>2, <1>3, <1>4, <1>5, <2>1, <2>2
  <2> QED
    BY <2>3, Elapsed
<1>7. Recent(t, from) = Recent(s, from) \cup {n + 1}
  <2>1. \A i \in 1 .. n + 1 : i = n + 1 \/ i \in 1 .. n
    OBVIOUS
  <2>2. n + 1 \in 1 .. n + 1 /\ t[n + 1].now >= from
    BY <1>2, <1>3, <1>6
  <2>3. \A i \in 1 .. n : i \in 1 .. n + 1
    OBVIOUS
  <2> QED
    BY <1>1, <1>2, <2>1, <2>2, <2>3 DEF Recent
<1>8. IsFiniteSet(Recent(s, from)) /\ n + 1 \notin Recent(s, from)
  <2>1. IsFiniteSet(1 .. n)
    BY FS_Interval
  <2>2. Recent(s, from) \subseteq 1 .. n
    BY <1>1 DEF Recent
  <2>3. IsFiniteSet(Recent(s, from))
    BY <2>1, <2>2, FS_Subset
  <2>4. n + 1 \notin 1 .. n
    OBVIOUS
  <2> QED
    BY <2>2, <2>3, <2>4
<1>9. Cardinality(Recent(t, from)) = Cardinality(Recent(s, from)) + 1
  BY <1>7, <1>8, FS_AddElement
<1> QED
  BY <1>3, <1>4, <1>5, <1>6, <1>9

(* What a vector says after the events s. Of block requests, only the      *)
(* latencies: two of them may come in the wrong order.                     *)
Honest(ch, s, f) ==
    IF ch = "io" THEN f.window.values = Padded(Known(s))
    ELSE /\ f.window.values = Padded(Intervals(s))
         /\ ch = "syscall" =>
                f.window.ids = Padded([i \in 1 .. Len(s) |-> s[i].value])
         /\ f.rate.last = IF s = << >> THEN 0 ELSE s[Len(s)].now
         /\ s = << >> => f.rate.from = 0
         /\ s # << >> => /\ s[Len(s)].now - f.rate.from \in 0 .. SECOND
                         /\ f.rate.count = Cardinality(Recent(s, f.rate.from))

LEMMA SubSeqOfAppend ==
    ASSUME NEW s \in Seq(Event), NEW e \in Event, NEW k \in 0 .. Len(s)
    PROVE  SubSeq(Append(s, e), 1, k) = SubSeq(s, 1, k)
<1>1. PICK t \in Seq(Event) : /\ t = Append(s, e)
                              /\ \A i \in 1 .. Len(s) : t[i] = s[i]
  <2>1. Append(s, e) \in Seq(Event)
    OBVIOUS
  <2>2. \A i \in 1 .. Len(s) : Append(s, e)[i] = s[i]
    OBVIOUS
  <2> QED
    BY <2>1, <2>2
<1>2. \A i \in 1 .. k : i \in 1 .. Len(s) /\ 1 + i - 1 = i
  OBVIOUS
<1>3. SubSeq(t, 1, k) = [i \in 1 .. k |-> t[i]]
  OBVIOUS
<1>4. SubSeq(s, 1, k) = [i \in 1 .. k |-> s[i]]
  OBVIOUS
<1> QED
  BY <1>1, <1>2, <1>3, <1>4

LEMMA HonestFirst ==
    ASSUME NEW ch PROVE Honest(ch, << >>, NoFeatures)
<1>1. /\ [i \in DOMAIN << >> |-> << >>[i].value] = << >>
      /\ [i \in 1 .. Len(<< >>) |-> << >>[i].value] = << >>
      /\ Intervals(<< >>) = << >>
  BY DEF Intervals
<1>2. Passing(<< >>, Latencies \ {0}) = << >>
  BY PassingEmpty
<1> QED
  BY <1>1, <1>2, PaddedEmpty DEF Honest, Known, NoFeatures

LEMMA KnownStep ==
    ASSUME NEW s \in Seq(Event), NEW e \in Event, e.value \in Latencies
    PROVE  /\ Known(s) \in Seq(Nat)
           /\ Known(Append(s, e)) = IF e.value = 0 THEN Known(s)
                                    ELSE Append(Known(s), e.value)
<1>1. PICK r \in Seq(Nat) : r = [i \in 1 .. Len(s) |-> s[i].value]
  BY ValuesStep
<1>2. Known(s) = Passing(r, Latencies \ {0})
  <2>1. DOMAIN s = 1 .. Len(s)
    OBVIOUS
  <2> QED
    BY <1>1, <2>1 DEF Known
<1>3. PICK t \in Seq(Event) : t = Append(s, e)
  <2>1. Append(s, e) \in Seq(Event)
    OBVIOUS
  <2> QED
    BY <2>1
<1>4. Known(t) = Passing(Append(r, e.value), Latencies \ {0})
  <2>1. DOMAIN t = 1 .. Len(t)
    OBVIOUS
  <2>2. [i \in 1 .. Len(t) |-> t[i].value] = Append(r, e.value)
    BY <1>1, <1>3, ValuesStep
  <2> QED
    BY <2>1, <2>2 DEF Known
<1>5. e.value \in Nat
  BY DEF Event
<1>6. /\ Passing(r, Latencies \ {0}) \in Seq(Nat)
      /\ Passing(Append(r, e.value), Latencies \ {0})
           = IF e.value \in Latencies \ {0}
             THEN Append(Passing(r, Latencies \ {0}), e.value)
             ELSE Passing(r, Latencies \ {0})
  <2>1. PICK S : S = Latencies \ {0}
    OBVIOUS
  <2>2. PICK value \in Nat : value = e.value
    BY <1>5
  <2>3. Passing(r, S) \in Seq(Nat)
    BY PassingAppend
  <2>4. value \in S => Passing(Append(r, value), S) = Append(Passing(r, S), value)
    BY PassingAppend
  <2>5. value \notin S => Passing(Append(r, value), S) = Passing(r, S)
    BY PassingAppend
  <2> QED
    BY <2>1, <2>2, <2>3, <2>4, <2>5
<1> QED
  BY <1>2, <1>3, <1>4, <1>6

(* The vector of the block requests, after one more of them.               *)
LEMMA UpdatedHonestIo ==
    ASSUME NEW s \in Seq(Event), NEW e \in Event, e.value \in Latencies,
           NEW f \in Feature, NEW ch, ch = "io", Honest(ch, s, f)
    PROVE  Honest(ch, Append(s, e), Updated(f, ch, e.now, e.value))
<1>1. PICK k \in Seq(Nat) : k = Known(s)
  BY KnownStep
<1>2. f.window.values = Padded(k)
  BY <1>1 DEF Honest
<1>3. Updated(f, ch, e.now, e.value).window.values =
          IF e.value = 0 THEN f.window.values
          ELSE Shift(f.window.values, e.value)
  <2>1. CASE e.value = 0
    BY <2>1 DEF Updated
  <2>2. CASE e.value # 0
    BY <2>2 DEF Updated
  <2> QED
    BY <2>1, <2>2
<1>4. Known(Append(s, e)) = IF e.value = 0 THEN k ELSE Append(k, e.value)
  BY <1>1, KnownStep
<1>5. e.value \in Nat
  BY DEF Event
<1>6. Padded(Append(k, e.value)) = Shift(Padded(k), e.value)
  BY <1>5, PaddedStep
<1> QED
  BY <1>2, <1>3, <1>4, <1>6 DEF Honest

LEMMA Elapses ==
    ASSUME NEW time \in Start .. Start + MaxTime, NEW now \in Start .. time,
           NEW past \in Nat, past <= now
    PROVE  (now - past) % Modulus = now - past
<1>1. now - past \in 0 .. Modulus - 1
  BY FeaturesAssumption DEF Start
<1>2. Modulus \in Nat \ {0}
  BY FeaturesAssumption
<1> QED
  BY <1>1, <1>2, ModSmall

(* The vectors of the context switches and system calls, after one more.   *)
LEMMA UpdatedHonestTask ==
    ASSUME NEW time \in Start .. Start + MaxTime, NEW ch \in Channel \ {"io"},
           NEW s \in Seq(Event), NEW e \in Event, Timely(Append(s, e), time),
           NEW f \in Feature, Honest(ch, s, f)
    PROVE  Honest(ch, Append(s, e), Updated(f, ch, e.now, e.value))
<1>0. time \in Nat /\ Start \in Nat \ {0}
  BY FeaturesAssumption DEF Start
<1>1. PICK t \in Seq(Event) :
          /\ t = Append(s, e) /\ Len(t) = Len(s) + 1 /\ t[Len(t)] = e
          /\ t # << >> /\ \A i \in 1 .. Len(s) : t[i] = s[i]
  <2>1. /\ Append(s, e) \in Seq(Event) /\ Len(Append(s, e)) = Len(s) + 1
        /\ Append(s, e)[Len(Append(s, e))] = e
        /\ Append(s, e) # << >>
        /\ \A i \in 1 .. Len(s) : Append(s, e)[i] = s[i]
    OBVIOUS
  <2> QED
    BY <2>1
<1>2. PICK g : g = Updated(f, ch, e.now, e.value)
  OBVIOUS
<1>3. PICK now \in Nat : now = e.now
  BY DEF Event
<1>4. /\ f.rate.last \in Nat /\ f.rate.from \in Nat /\ f.rate.count \in Nat
  BY DEF Feature
<1>5. /\ now \in Start .. time
      /\ s # << >> => f.rate.last <= now /\ f.rate.last # 0
  <2>1. Len(t) \in 1 .. Len(t)
    BY <1>1
  <2>2. now \in Start .. time
    BY <1>1, <1>3, <2>1 DEF Timely
  <2>3. ASSUME s # << >> PROVE f.rate.last <= now /\ f.rate.last # 0
    <3>1. Len(s) \in 1 .. Len(s) /\ Len(s) \in 1 .. Len(t) /\ Len(s) <= Len(t)
      BY <1>1, <2>3, EmptySeq
    <3>2. f.rate.last = s[Len(s)].now
      BY <2>3 DEF Honest
    <3>3. f.rate.last = t[Len(s)].now
      BY <1>1, <3>1, <3>2
    <3>4. t[Len(s)].now \in Start .. time /\ t[Len(s)].now <= t[Len(t)].now
      BY <1>1, <2>1, <3>1 DEF Timely
    <3> QED
      <4>1. f.rate.last \in Start .. time /\ f.rate.last <= now
        BY <1>1, <1>3, <3>3, <3>4
      <4>2. \A x \in Start .. time : x # 0
        BY <1>0
      <4> QED
        BY <4>1, <4>2
  <2> QED
    BY <2>2, <2>3
<1>6. s = << >> <=> f.rate.last = 0
  BY <1>5 DEF Honest
<1>7. f.rate.from <= now
  <2>1. CASE s = << >>
    BY <1>3, <2>1 DEF Honest
  <2>2. CASE s # << >>
    <3>1. f.rate.last - f.rate.from \in 0 .. SECOND
      BY <2>2 DEF Honest
    <3>2. SECOND \in Nat
      BY FeaturesAssumption
    <3> QED
      BY <1>4, <1>5, <2>2, <3>1, <3>2, Elapsed
  <2> QED
    BY <2>1, <2>2
<1>8. (now - f.rate.from) % Modulus = now - f.rate.from
  BY <1>4, <1>5, <1>7, Elapses
<1>9. g.window.values = Padded(Intervals(t))
  <2>1. CASE s = << >>
    <3>1. g.window.values = f.window.values
      BY <1>2, <1>6, <2>1 DEF Updated
    <3>2. Intervals(t) = Intervals(s)
      BY <1>0, <1>1, <2>1, IntervalsStep
    <3> QED
      BY <3>1, <3>2 DEF Honest
  <2>2. CASE s # << >>
    <3>1. (now - f.rate.last) % Modulus = now - f.rate.last
      BY <1>4, <1>5, <2>2, Elapses
    <3>2. g.window.values = Shift(f.window.values, now - f.rate.last)
      BY <1>2, <1>3, <1>6, <2>2, <3>1 DEF Updated
    <3>3. f.rate.last = s[Len(s)].now
      BY <2>2 DEF Honest
    <3>4. PICK u \in Seq(Nat) : u = Intervals(s)
      BY <1>0, IntervalsStep
    <3>5. PICK d \in Nat : d = now - f.rate.last /\ Intervals(t) = Append(u, d)
      BY <1>0, <1>1, <1>3, <2>2, <3>3, <3>4, IntervalsStep
    <3>6. Padded(Append(u, d)) = Shift(Padded(u), d)
      BY PaddedStep
    <3> QED
      BY <3>2, <3>4, <3>5, <3>6 DEF Honest
  <2> QED
    BY <2>1, <2>2
<1>10. ch = "syscall" => g.window.ids = Padded([i \in 1 .. Len(t) |-> t[i].value])
  <2> SUFFICES ASSUME ch = "syscall"
               PROVE  g.window.ids = Padded([i \in 1 .. Len(t) |-> t[i].value])
    OBVIOUS
  <2>1. PICK r \in Seq(Nat) : r = [i \in 1 .. Len(s) |-> s[i].value]
    BY ValuesStep
  <2>2. [i \in 1 .. Len(t) |-> t[i].value] = Append(r, e.value)
    BY <1>1, <2>1, ValuesStep
  <2>3. g.window.ids = Shift(f.window.ids, e.value)
    BY <1>2 DEF Updated
  <2>4. f.window.ids = Padded(r)
    BY <2>1 DEF Honest
  <2>5. e.value \in Nat
    BY DEF Event
  <2> QED
    BY <2>2, <2>3, <2>4, <2>5, PaddedStep
<1>11. g.rate.last = now
  BY <1>2, <1>3 DEF Updated
<1>12. /\ t[Len(t)].now - g.rate.from \in 0 .. SECOND
       /\ g.rate.count = Cardinality(Recent(t, g.rate.from))
  <2>1. PICK restart \in BOOLEAN : restart <=> now - f.rate.from > SECOND
    OBVIOUS
  <2>2. /\ g.rate.from = IF restart THEN now ELSE f.rate.from
        /\ g.rate.count = IF restart THEN 1 ELSE f.rate.count + 1
    BY <1>2, <1>3, <1>8, <2>1 DEF Updated
  <2>3. /\ s = << >> => f.rate.from = 0
        /\ s # << >> => /\ s[Len(s)].now - f.rate.from \in 0 .. SECOND
                        /\ f.rate.count = Cardinality(Recent(s, f.rate.from))
    BY DEF Honest
  <2>4. PICK from \in Nat : from = f.rate.from
    BY <1>4
  <2>5. Grown(s, e, t)
    BY <1>0, <1>1, TimelyGrown
  <2>6. CASE restart
    <3>1. e.now - from > SECOND /\ g.rate.from = e.now /\ g.rate.count = 1
      BY <1>3, <2>1, <2>2, <2>4, <2>6
    <3>2. s # << >> => s[Len(s)].now - from \in 0 .. SECOND
      BY <2>3, <2>4
    <3>3. Cardinality(Recent(t, e.now)) = 1
      BY <2>5, <3>1, <3>2, RateRestarts
    <3>4. e.now - e.now \in 0 .. SECOND
      <4>1. ASSUME NEW a \in Nat, NEW b \in Nat PROVE a - a \in 0 .. b
        OBVIOUS
      <4> QED
        BY <1>3, <4>1, FeaturesAssumption
    <3> QED
      BY <1>1, <3>1, <3>3, <3>4
  <2>7. CASE ~restart
    <3>1. /\ ~(e.now - from > SECOND) /\ g.rate.from = from
          /\ g.rate.count = f.rate.count + 1
      BY <1>3, <2>1, <2>2, <2>4, <2>7
    <3>2. /\ s = << >> => from = 0
          /\ s # << >> => s[Len(s)].now - from \in 0 .. SECOND
      BY <2>3, <2>4
    <3>3. s # << >>
      BY <2>5, <3>1, <3>2, RateGoesOn
    <3>4. e.now - from \in 0 .. SECOND
      BY <2>5, <3>1, <3>2, RateGoesOn
    <3>5. Cardinality(Recent(t, from)) = Cardinality(Recent(s, from)) + 1
      BY <2>5, <3>1, <3>2, RateGoesOn
    <3> QED
      BY <1>1, <2>3, <2>4, <3>1, <3>3, <3>4, <3>5
  <2> QED
    BY <2>6, <2>7
<1> QED
  BY <1>1, <1>2, <1>3, <1>9, <1>10, <1>11, <1>12 DEF Honest

------------------------------------------------------------------------------
(***************************************************************************)
(* The invariant: every value a vector has had is honest about the events  *)
(* up to its own, and so is the value a probe is storing. A context switch *)
(* or a system call is seen by a task, which no other task interrupts, so  *)
(* its time is no earlier than those of the events before it.              *)
(***************************************************************************)

(* A probe that has seen an event and is yet to work on the vector.        *)
Pending ==
    \A x \in Context :
        /\ probe[x].pc # "idle" /\ probe[x].ch # "io" => x[2] = "task"
        /\ probe[x].pc = "begin" =>
              /\ probe[x].value \in Values(probe[x].ch)
              /\ probe[x].now \in Start .. clock
              /\ probe[x].ch # "io" =>
                    \A i \in 1 .. Len(fired[Of(x)]) :
                        fired[Of(x)][i].now <= probe[x].now

Times == \A v \in Vectors : v[1] # "io" => Timely(fired[v], clock)

(* The event of a probe that is storing has no value of its own yet.       *)
Lengths ==
    \A v \in Vectors :
        Len(published[v]) = Len(fired[v]) + (IF Storing(v) = {} THEN 1 ELSE 0)

History ==
    \A v \in Vectors : \A k \in 0 .. Len(fired[v]) :
        k + 1 \in 1 .. Len(published[v]) =>
            Honest(v[1], SubSeq(fired[v], 1, k), published[v][k + 1])

(* What a probe stores, and what it has stored of it or need not store.    *)
Stores ==
    \A x \in Context : probe[x].pc = "store" =>
        /\ Honest(probe[x].ch, fired[Of(x)], probe[x].new)
        /\ \A part \in Part \ probe[x].todo :
               features[Of(x)][part] = probe[x].new[part]

VInv == Pending /\ Times /\ Lengths /\ History /\ Stores

LEMMA VInit == Init => VInv
<1> SUFFICES ASSUME Init PROVE VInv
  OBVIOUS
<1>1. \A x \in Context : probe[x].pc = "idle"
  BY DEF Init, NoProbe
<1>2. \A v : Storing(v) = {}
  BY <1>1 DEF Storing
<1>3. \A v \in Vectors : /\ fired[v] = << >> /\ Len(fired[v]) = 0
                         /\ published[v] = <<NoFeatures>>
                         /\ Len(published[v]) = 1
  BY DEF Init
<1>4. Pending /\ Stores
  BY <1>1 DEF Pending, Stores
<1>5. Times
  BY <1>3 DEF Times, Timely
<1>6. Lengths
  <2> SUFFICES ASSUME NEW v \in Vectors
               PROVE  Len(published[v]) =
                          Len(fired[v]) + (IF Storing(v) = {} THEN 1 ELSE 0)
    BY DEF Lengths
  <2>1. (IF Storing(v) = {} THEN 1 ELSE 0) = 1
    BY <1>2
  <2>2. Len(published[v]) = 1 /\ Len(fired[v]) = 0
    BY <1>3
  <2> QED
    BY <2>1, <2>2
<1>7. History
  <2> SUFFICES ASSUME NEW v \in Vectors, NEW k \in 0 .. Len(fired[v])
               PROVE  Honest(v[1], SubSeq(fired[v], 1, k), published[v][k + 1])
    BY DEF History
  <2>1. k = 0 /\ published[v][k + 1] = NoFeatures
    BY <1>3
  <2>2. SubSeq(fired[v], 1, k) = << >>
    BY <2>1, SubSeqEmpty
  <2>3. Honest(v[1], << >>, NoFeatures)
    BY HonestFirst
  <2> QED
    BY <2>1, <2>2, <2>3
<1> QED
  BY <1>4, <1>5, <1>6, <1>7 DEF VInv

(* Steps that leave the vectors and their histories as they are.           *)
LEMMA HistoryStays ==
    ASSUME VInv, UNCHANGED <<fired, published, features>>,
           \A v : Storing(v)' = Storing(v)
    PROVE  Lengths' /\ History'
BY DEF VInv, Lengths, History

LEMMA VTick ==
    ASSUME Shape, VInv, Tick
    PROVE  VInv'
<1>1. /\ clock \in Nat /\ clock' = clock + 1
      /\ UNCHANGED <<seq, features, published, fired, probe>>
  BY FeaturesAssumption DEF Tick, Shape, Start, vectors
<1>2. \A v : Storing(v)' = Storing(v)
  BY <1>1 DEF Storing, Of
<1>3. Start \in Nat /\ \A t \in Start .. clock : t \in Start .. clock + 1
  BY <1>1, FeaturesAssumption DEF Start
<1>4. Pending'
  BY <1>1, <1>3 DEF VInv, Pending, Of
<1>5. Times'
  <2> SUFFICES ASSUME NEW v \in Vectors, v[1] # "io"
               PROVE  Timely(fired[v], clock + 1)
    BY <1>1 DEF Times
  <2>1. Timely(fired[v], clock)
    BY DEF VInv, Times
  <2> QED
    BY <1>3, <2>1 DEF Timely
<1>6. Stores'
  BY <1>1 DEF VInv, Stores, Of
<1> QED
  BY <1>1, <1>2, <1>4, <1>5, <1>6, HistoryStays DEF VInv

LEMMA VStutter ==
    ASSUME VInv, UNCHANGED <<clock, features, published, fired, probe>>
    PROVE  VInv'
<1>1. \A v : Storing(v)' = Storing(v)
  BY DEF Storing, Of
<1>2. Pending' /\ Times' /\ Stores'
  BY DEF VInv, Pending, Times, Stores, Of
<1> QED
  BY <1>1, <1>2, HistoryStays DEF VInv

LEMMA ClockType ==
    ASSUME Shape
    PROVE  Start \in Nat /\ clock \in Nat /\ clock >= Start
<1>1. clock \in Start .. Start + MaxTime
  BY DEF Shape
<1>2. Start \in Nat /\ MaxTime \in Nat
  BY FeaturesAssumption DEF Start
<1> QED
  BY <1>1, <1>2

LEMMA VFire ==
    ASSUME FInv, VInv, NEW x \in Context, NEW ch \in Channel,
           NEW value \in Values(ch), Fire(x, ch, value)
    PROVE  VInv'
<1>1. Shape
  BY DEF FInv
<1>2. /\ probe[x].pc = "idle"
      /\ ch # "io" => x[2] = "task"
      /\ UNCHANGED <<clock, features, published, fired>>
  BY DEF Fire, At, Context
<1>3. /\ probe'[x].pc = "begin" /\ probe'[x].ch = ch
      /\ probe'[x].now = clock /\ probe'[x].value = value
      /\ \A y \in Context : y # x => probe'[y] = probe[y]
  BY <1>1 DEF Fire, Shape, NoProbe
<1>4. \A y \in Context : probe[y].pc = "store" \/ probe'[y].pc = "store"
                            => probe'[y] = probe[y]
  <2> TAKE y \in Context
  <2>1. probe[x].pc # "store" /\ probe'[x].pc # "store"
    BY <1>2, <1>3
  <2>2. y # x => probe'[y] = probe[y]
    BY <1>3
  <2> QED
    BY <2>1, <2>2
<1>5. \A v : Storing(v)' = Storing(v)
  BY <1>4 DEF Storing, Of
<1>6. Stores'
  BY <1>2, <1>4 DEF VInv, Stores, Of
<1>7. Times'
  BY <1>2 DEF VInv, Times
<1>8. Pending'
  <2> SUFFICES ASSUME NEW y \in Context
               PROVE  /\ probe'[y].pc # "idle" /\ probe'[y].ch # "io"
                            => y[2] = "task"
                      /\ probe'[y].pc = "begin" =>
                            /\ probe'[y].value \in Values(probe'[y].ch)
                            /\ probe'[y].now \in Start .. clock
                            /\ probe'[y].ch # "io" =>
                                  \A i \in 1 .. Len(fired[Of(y)']) :
                                      fired[Of(y)'][i].now <= probe'[y].now
    BY <1>2 DEF Pending, Of
  <2>1. CASE y # x
    BY <1>3, <2>1 DEF VInv, Pending, Of
  <2>2. CASE y = x
    <3>1. clock \in Start .. clock
      BY <1>1, ClockType
    <3>2. ASSUME ch # "io", NEW i \in 1 .. Len(fired[<<ch, x[1]>>])
          PROVE  fired[<<ch, x[1]>>][i].now <= clock
      <4>1. <<ch, x[1]>> \in Vectors /\ Timely(fired[<<ch, x[1]>>], clock)
        BY <3>2 DEF VInv, Times, Vectors, Context
      <4>2. fired[<<ch, x[1]>>][i].now \in Start .. clock
        BY <4>1 DEF Timely
      <4>3. Start \in Nat /\ clock \in Nat
        BY <1>1, ClockType
      <4>4. \A a \in Start .. clock : a <= clock
        BY <4>3
      <4> QED
        BY <4>2, <4>4
    <3>3. Of(x)' = <<ch, x[1]>>
      BY <1>3 DEF Of
    <3>4. ch # "io" => \A i \in 1 .. Len(fired[Of(x)']) :
                           fired[Of(x)'][i].now <= clock
      BY <3>2, <3>3
    <3>5. /\ probe'[x].ch # "io" => x[2] = "task"
          /\ probe'[x].value \in Values(probe'[x].ch)
          /\ probe'[x].now \in Start .. clock
      BY <1>2, <1>3, <3>1
    <3>6. probe'[x].ch # "io" =>
              \A i \in 1 .. Len(fired[Of(x)']) :
                  fired[Of(x)'][i].now <= probe'[x].now
      BY <1>3, <3>4
    <3> QED
      BY <2>2, <3>5, <3>6
  <2> QED
    BY <2>1, <2>2
<1> QED
  BY <1>2, <1>5, <1>6, <1>7, <1>8, HistoryStays DEF VInv

LEMMA VStore ==
    ASSUME FInv, VInv, NEW x \in Context, NEW part \in Part, Store(x, part)
    PROVE  VInv'
<1>1. Shape
  BY DEF FInv
<1>2. PICK v \in Vectors : v = Of(x) /\ v[1] = probe[x].ch
  BY <1>1, VectorOf DEF Of
<1>3. /\ Running(x) /\ probe[x].pc = "store" /\ probe[x] \in Probe
      /\ features' = [features EXCEPT ![v] =
                          [features[v] EXCEPT ![part] = probe[x].new[part]]]
      /\ UNCHANGED <<clock, published, fired>>
  BY <1>1, <1>2, VectorOf DEF Store, At
<1>4. /\ probe'[x].pc = "store" /\ probe'[x].ch = probe[x].ch
      /\ probe'[x].new = probe[x].new
      /\ probe'[x].todo = probe[x].todo \ {part}
      /\ \A y \in Context : y # x => probe'[y] = probe[y]
  BY <1>1, <1>3 DEF Store, Shape, Probe
<1>5. \A w \in Vectors : w # v => features'[w] = features[w]
  BY <1>1, <1>3 DEF Shape
<1>6. \A w : Storing(w)' = Storing(w)
  BY <1>3, <1>4 DEF Storing, Of
<1>7. Pending' /\ Times'
  BY <1>3, <1>4 DEF VInv, Pending, Times, Of
<1>8. Lengths'
  BY <1>3, <1>6 DEF VInv, Lengths
<1>9. History'
  BY <1>3 DEF VInv, History
<1>10. Stores'
  <2> SUFFICES ASSUME NEW y \in Context, probe'[y].pc = "store"
               PROVE  /\ Honest(probe'[y].ch, fired[Of(y)'], probe'[y].new)
                      /\ \A q \in Part \ probe'[y].todo :
                             features'[Of(y)'][q] = probe'[y].new[q]
    BY <1>3 DEF Stores, Of
  <2>1. CASE y # x
    <3>1. probe'[y] = probe[y] /\ Of(y)' = Of(y) /\ Of(y) \in Vectors
      BY <1>1, <1>4, <2>1, VectorOf DEF Of
    <3>2. Of(y) # v
      <4>1. Of(y) = v => y \in Storing(Of(x))
        BY <1>2, <3>1 DEF Storing
      <4> QED
        BY <1>3, <2>1, <4>1, SoleWriter
    <3> QED
      BY <1>5, <3>1, <3>2 DEF VInv, Stores
  <2>2. CASE y = x
    <3>1. Of(x)' = v
      BY <1>2, <1>4 DEF Of
    <3>2. PICK new \in Feature : new = probe[x].new
      BY <1>3 DEF Probe
    <3>3. PICK f \in Feature : f = features[v]
      BY <1>1 DEF Shape
    <3>4. PICK g : g = [f EXCEPT ![part] = new[part]]
      OBVIOUS
    <3>5. features'[v] = g
      BY <1>1, <1>3, <3>2, <3>3, <3>4 DEF Shape
    <3>6. /\ Honest(probe[x].ch, fired[v], new)
          /\ \A q \in Part \ probe[x].todo : f[q] = new[q]
      BY <1>2, <1>3, <3>2, <3>3 DEF VInv, Stores
    <3>7. \A q \in Part \ (probe[x].todo \ {part}) : g[q] = new[q]
      <4>1. g[part] = new[part] /\ \A q \in Part : q # part => g[q] = f[q]
        BY <3>4 DEF Feature, Part
      <4> QED
        BY <3>6, <4>1
    <3> QED
      BY <1>4, <2>2, <3>1, <3>2, <3>5, <3>6, <3>7
  <2> QED
    BY <2>1, <2>2
<1> QED
  BY <1>7, <1>8, <1>9, <1>10 DEF VInv

(* The event a probe has seen comes no earlier than those of its vector,   *)
(* and the vector it works on is honest about these.                       *)
LEMMA VWriteBegin ==
    ASSUME FInv, VInv, NEW x \in Context, WriteBegin(x)
    PROVE  VInv'
<1>1. Shape /\ clock \in Nat /\ clock \in Start .. Start + MaxTime
  BY ClockType DEF FInv, Shape
<1>2. PICK v \in Vectors : v = Of(x)
  BY <1>1, VectorOf
<1>3. PICK ch \in Channel : ch = probe[x].ch /\ v[1] = ch
  BY <1>2 DEF Of, Vectors
<1>4. PICK e \in Event : e = [now |-> probe[x].now, value |-> probe[x].value]
  <2>1. probe[x] \in Probe
    BY <1>1, VectorOf
  <2> QED
    BY <2>1 DEF Probe, Event
<1>5. PICK f \in Feature : f = features[v]
  BY <1>1 DEF Shape
<1>6. PICK s \in Seq(Event) : s = fired[v]
  BY <1>1 DEF Shape, Event
<1>7. PICK new : new = Updated(f, ch, e.now, e.value)
  OBVIOUS
<1>8. /\ Running(x) /\ probe[x].pc = "begin"
      /\ fired' = [fired EXCEPT ![v] = Append(s, e)]
      /\ UNCHANGED <<clock, features, published>>
  <2>1. fired' = [fired EXCEPT ![v] = Append(fired[v], e)]
    BY <1>2, <1>4 DEF WriteBegin
  <2> QED
    BY <1>6, <2>1 DEF WriteBegin, At
<1>9. /\ probe'[x].pc = "store" /\ probe'[x].ch = ch
      /\ probe'[x].new = new
      /\ probe'[x].todo = {part \in Part : new[part] # f[part]}
      /\ \A y \in Context : y # x => probe'[y] = probe[y]
  <2>1. probe[x] \in Probe /\ e.now = probe[x].now /\ e.value = probe[x].value
    BY <1>1, <1>4, VectorOf
  <2>2. probe' = [probe EXCEPT ![x].pc = "store", ![x].new = new,
                               ![x].todo = {part \in Part : new[part] # f[part]}]
    BY <1>2, <1>3, <1>5, <1>7, <2>1 DEF WriteBegin
  <2> QED
    BY <1>1, <1>3, <2>1, <2>2 DEF Shape, Probe
<1>10. /\ Append(s, e) \in Seq(Event) /\ Len(Append(s, e)) = Len(s) + 1
       /\ Append(s, e)[Len(s) + 1] = e
       /\ \A i \in 1 .. Len(s) : Append(s, e)[i] = s[i]
  OBVIOUS
<1>11. fired'[v] = Append(s, e) /\ \A w \in Vectors : w # v => fired'[w] = fired[w]
  BY <1>1, <1>8 DEF Shape
<1>12. Storing(v) = {}
  <2>1. \A y \in Storing(v) : y = x
    BY <1>2, <1>8, SoleWriter
  <2> QED
    BY <1>8, <2>1 DEF Storing
<1>13. x \in Storing(v)' /\ \A w : w # v => Storing(w)' = Storing(w)
  BY <1>2, <1>3, <1>8, <1>9 DEF Storing, Of
<1>14. /\ e.value \in Values(ch) /\ e.now \in Start .. clock
       /\ ch # "io" => /\ x[2] = "task"
                       /\ \A i \in 1 .. Len(s) : s[i].now <= e.now
  BY <1>2, <1>3, <1>4, <1>6, <1>8 DEF VInv, Pending
<1>15. Honest(ch, s, f)
  <2>1. Len(published[v]) = Len(s) + 1
    BY <1>6, <1>12 DEF VInv, Lengths
  <2>2. f = published[v][Len(published[v])]
    BY <1>5, <1>12 DEF FInv, Numbered
  <2>3. Len(s) \in 0 .. Len(s) /\ Len(s) + 1 \in 1 .. Len(published[v])
    BY <2>1
  <2>4. Honest(ch, SubSeq(s, 1, Len(s)), published[v][Len(s) + 1])
    BY <1>3, <1>6, <2>3 DEF VInv, History
  <2>5. SubSeq(s, 1, Len(s)) = s
    BY SubSeqFull
  <2> QED
    BY <2>1, <2>2, <2>4, <2>5
<1>16. ch # "io" => Timely(Append(s, e), clock)
  <2> SUFFICES ASSUME ch # "io" PROVE Timely(Append(s, e), clock)
    OBVIOUS
  <2>1. Timely(s, clock)
    BY <1>3, <1>6 DEF VInv, Times
  <2>2. PICK n \in Nat : n = Len(s)
    OBVIOUS
  <2>3. PICK t : t = Append(s, e) /\ Len(t) = n + 1 /\ t[n + 1] = e
                 /\ \A i \in 1 .. n : t[i] = s[i]
    BY <1>10, <2>2
  <2>4. \A i \in 1 .. n + 1 : i = n + 1 \/ i \in 1 .. n
    OBVIOUS
  <2>5. \A i \in 1 .. n + 1 : t[i].now \in Start .. clock
    BY <1>14, <2>1, <2>2, <2>3, <2>4 DEF Timely
  <2>6. ASSUME NEW i \in 1 .. n + 1, NEW j \in 1 .. n + 1, i <= j
        PROVE  t[i].now <= t[j].now
    <3>1. CASE j = n + 1 /\ i = n + 1
      <4>1. e.now \in Nat
        BY DEF Event
      <4> QED
        BY <2>3, <3>1, <4>1
    <3>2. CASE j = n + 1 /\ i # n + 1
      <4>1. i \in 1 .. n
        BY <2>4, <3>2
      <4> QED
        BY <1>14, <2>2, <2>3, <3>2, <4>1
    <3>3. CASE j # n + 1
      <4>1. i \in 1 .. n /\ j \in 1 .. n
        BY <2>6, <3>3
      <4> QED
        BY <2>1, <2>2, <2>3, <2>6, <4>1 DEF Timely
    <3> QED
      BY <3>1, <3>2, <3>3
  <2> QED
    BY <2>3, <2>5, <2>6 DEF Timely
<1>17. Honest(ch, Append(s, e), new)
  <2>1. CASE ch = "io"
    <3>1. e.value \in Latencies
      BY <1>14, <2>1 DEF Values
    <3> QED
      BY <1>7, <1>15, <2>1, <3>1, UpdatedHonestIo
  <2>2. CASE ch # "io"
    BY <1>1, <1>7, <1>15, <1>16, <2>2, UpdatedHonestTask
  <2> QED
    BY <2>1, <2>2
<1>18. Times'
  BY <1>3, <1>8, <1>11, <1>16 DEF VInv, Times
<1>19. Lengths'
  <2> SUFFICES ASSUME NEW w \in Vectors
               PROVE  Len(published[w]) =
                        Len(fired'[w]) + (IF Storing(w)' = {} THEN 1 ELSE 0)
    BY <1>8 DEF Lengths
  <2>1. Len(published[w]) =
            Len(fired[w]) + (IF Storing(w) = {} THEN 1 ELSE 0)
    BY DEF VInv, Lengths
  <2>2. CASE w = v
    <3>1. /\ (IF Storing(v) = {} THEN 1 ELSE 0) = 1
          /\ (IF Storing(v)' = {} THEN 1 ELSE 0) = 0
      BY <1>12, <1>13
    <3>2. Len(published[v]) = Len(s) + 1 /\ Len(fired'[v]) = Len(s) + 1
      BY <1>6, <1>10, <1>11, <2>1, <2>2, <3>1
    <3> QED
      BY <2>2, <3>1, <3>2
  <2>3. CASE w # v
    BY <1>11, <1>13, <2>1, <2>3
  <2> QED
    BY <2>2, <2>3
<1>20. History'
  <2> SUFFICES ASSUME NEW w \in Vectors, NEW k \in 0 .. Len(fired'[w]),
                      k + 1 \in 1 .. Len(published[w])
               PROVE  Honest(w[1], SubSeq(fired'[w], 1, k), published[w][k + 1])
    BY <1>8 DEF History
  <2>1. CASE w = v
    <3>1. Len(published[v]) = Len(s) + 1
      BY <1>6, <1>12 DEF VInv, Lengths
    <3>2. k \in 0 .. Len(s)
      BY <2>1, <3>1
    <3>3. SubSeq(Append(s, e), 1, k) = SubSeq(s, 1, k)
      BY <3>2, SubSeqOfAppend
    <3>4. Honest(v[1], SubSeq(s, 1, k), published[v][k + 1])
      BY <1>6, <2>1, <3>2 DEF VInv, History
    <3> QED
      BY <1>11, <2>1, <3>3, <3>4
  <2>2. CASE w # v
    BY <1>11, <2>2 DEF VInv, History
  <2> QED
    BY <2>1, <2>2
<1>21. Pending'
  <2> SUFFICES ASSUME NEW y \in Context
               PROVE  /\ probe'[y].pc # "idle" /\ probe'[y].ch # "io"
                            => y[2] = "task"
                      /\ probe'[y].pc = "begin" =>
                            /\ probe'[y].value \in Values(probe'[y].ch)
                            /\ probe'[y].now \in Start .. clock
                            /\ probe'[y].ch # "io" =>
                                  \A i \in 1 .. Len(fired'[Of(y)']) :
                                      fired'[Of(y)'][i].now <= probe'[y].now
    BY <1>8 DEF Pending, Of
  <2>1. CASE y = x
    BY <1>3, <1>8, <1>9, <1>14, <2>1
  <2>2. CASE y # x
    <3>1. probe'[y] = probe[y] /\ Of(y)' = Of(y) /\ Of(y) \in Vectors
      BY <1>1, <1>9, <2>2, VectorOf DEF Of
    <3>2. /\ probe[y].pc # "idle" /\ probe[y].ch # "io" => y[2] = "task"
          /\ probe[y].pc = "begin" =>
                /\ probe[y].value \in Values(probe[y].ch)
                /\ probe[y].now \in Start .. clock
                /\ probe[y].ch # "io" =>
                      \A i \in 1 .. Len(fired[Of(y)]) :
                          fired[Of(y)][i].now <= probe[y].now
      BY DEF VInv, Pending
    <3>3. probe[y].pc = "begin" /\ probe[y].ch # "io" => Of(y) # v
      <4> SUFFICES ASSUME probe[y].pc = "begin", probe[y].ch # "io", Of(y) = v
                   PROVE  FALSE
        OBVIOUS
      <4>1. y[2] = "task" /\ x[2] = "task" /\ y[1] = x[1]
        BY <1>2, <1>3, <1>14, <3>2 DEF Of
      <4> QED
        BY <2>2, <4>1 DEF Context
    <3>4. Of(y) # v => fired'[Of(y)] = fired[Of(y)]
      BY <1>11, <3>1
    <3> QED
      BY <3>1, <3>2, <3>3, <3>4
  <2> QED
    BY <2>1, <2>2
<1>22. Stores'
  <2> SUFFICES ASSUME NEW y \in Context, probe'[y].pc = "store"
               PROVE  /\ Honest(probe'[y].ch, fired'[Of(y)'], probe'[y].new)
                      /\ \A q \in Part \ probe'[y].todo :
                             features[Of(y)'][q] = probe'[y].new[q]
    BY <1>8 DEF Stores, Of
  <2>1. CASE y = x
    <3>1. Of(x)' = v
      BY <1>2, <1>3, <1>9 DEF Of
    <3>2. \A q \in Part \ probe'[x].todo : f[q] = new[q]
      BY <1>9
    <3> QED
      BY <1>5, <1>9, <1>11, <1>17, <2>1, <3>1, <3>2
  <2>2. CASE y # x
    <3>1. probe'[y] = probe[y] /\ Of(y)' = Of(y) /\ Of(y) \in Vectors
      BY <1>1, <1>9, <2>2, VectorOf DEF Of
    <3>2. Of(y) # v
      BY <1>12, <3>1 DEF Storing
    <3> QED
      BY <1>11, <3>1, <3>2 DEF VInv, Stores
  <2> QED
    BY <2>1, <2>2
<1> QED
  BY <1>18, <1>19, <1>20, <1>21, <1>22 DEF VInv

LEMMA VWriteEnd ==
    ASSUME FInv, VInv, NEW x \in Context, WriteEnd(x)
    PROVE  VInv'
<1>1. Shape
  BY DEF FInv
<1>2. PICK v \in Vectors : v = Of(x) /\ v[1] = probe[x].ch
  BY <1>1, VectorOf DEF Of
<1>3. /\ Running(x) /\ probe[x].pc = "store" /\ probe[x] \in Probe
      /\ probe[x].todo = {}
      /\ published' = [published EXCEPT ![v] = Append(@, features[v])]
      /\ probe' = [probe EXCEPT ![x] = NoProbe]
      /\ UNCHANGED <<clock, features, fired>>
  BY <1>1, <1>2, VectorOf DEF WriteEnd, At
<1>4. /\ probe'[x].pc = "idle"
      /\ \A y \in Context : y # x => probe'[y] = probe[y]
  BY <1>1, <1>3, ConstantTypes DEF Shape
<1>5. PICK f \in Feature : f = features[v]
  BY <1>1 DEF Shape
<1>6. PICK p \in Seq(Feature) : p = published[v]
  BY <1>1 DEF Shape
<1>7. /\ published'[v] = Append(p, f)
      /\ \A w \in Vectors : w # v => published'[w] = published[w]
  BY <1>1, <1>3, <1>5, <1>6 DEF Shape
<1>8. Storing(v) = {x}
  <2>1. x \in Storing(v)
    BY <1>2, <1>3 DEF Storing
  <2>2. \A y \in Storing(v) : y = x
    BY <1>2, <1>3, SoleWriter
  <2> QED
    BY <2>1, <2>2
<1>9. /\ Storing(v)' = {}
      /\ \A w : w # v => Storing(w)' = Storing(w)
  <2>1. \A w : Storing(w)' = Storing(w) \ {x}
    BY <1>4 DEF Storing, Of
  <2>2. \A w : w # v => x \notin Storing(w)
    BY <1>2 DEF Storing
  <2> QED
    BY <1>8, <2>1, <2>2
<1>10. PICK s \in Seq(Event) : s = fired[v] /\ Len(p) = Len(s)
  <2>1. Len(published[v]) = Len(fired[v]) + 0
    BY <1>8 DEF VInv, Lengths
  <2>2. fired[v] \in Seq(Event)
    BY <1>1 DEF Shape, Event
  <2> QED
    BY <1>6, <2>1, <2>2
<1>11. Honest(v[1], s, f)
  <2>1. PICK new \in Feature : new = probe[x].new
    BY <1>3 DEF Probe
  <2>2. \A part \in Part : f[part] = new[part]
    BY <1>2, <1>3, <1>5, <2>1 DEF VInv, Stores
  <2>3. f = new
    BY <2>2, FeatureParts
  <2> QED
    BY <1>2, <1>3, <1>10, <2>1, <2>3 DEF VInv, Stores
<1>12. Pending' /\ Times' /\ Stores'
  <2>1. Pending'
    BY <1>3, <1>4 DEF VInv, Pending, Of
  <2>2. Times'
    BY <1>3 DEF VInv, Times
  <2>3. Stores'
    BY <1>3, <1>4 DEF VInv, Stores, Of
  <2> QED
    BY <2>1, <2>2, <2>3
<1>13. Lengths'
  <2> SUFFICES ASSUME NEW w \in Vectors
               PROVE  Len(published'[w]) =
                        Len(fired[w]) + (IF Storing(w)' = {} THEN 1 ELSE 0)
    BY <1>3 DEF Lengths
  <2>1. CASE w = v
    <3>1. (IF Storing(v)' = {} THEN 1 ELSE 0) = 1
      BY <1>9
    <3>2. Len(Append(p, f)) = Len(p) + 1
      OBVIOUS
    <3> QED
      BY <1>7, <1>10, <2>1, <3>1, <3>2
  <2>2. CASE w # v
    BY <1>7, <1>9, <2>2 DEF VInv, Lengths
  <2> QED
    BY <2>1, <2>2
<1>14. History'
  <2> SUFFICES ASSUME NEW w \in Vectors, NEW k \in 0 .. Len(fired[w]),
                      k + 1 \in 1 .. Len(published'[w])
               PROVE  Honest(w[1], SubSeq(fired[w], 1, k), published'[w][k + 1])
    BY <1>3 DEF History
  <2>1. CASE w = v
    <3>1. /\ k \in 0 .. Len(s)
          /\ Append(p, f)[Len(s) + 1] = f
          /\ \A i \in 1 .. Len(s) : Append(p, f)[i] = p[i]
      BY <1>10, <2>1
    <3>2. CASE k = Len(s)
      <4>1. SubSeq(s, 1, Len(s)) = s
        BY SubSeqFull
      <4> QED
        BY <1>7, <1>10, <1>11, <2>1, <3>1, <3>2, <4>1
    <3>3. CASE k # Len(s)
      <4>1. k + 1 \in 1 .. Len(s) /\ k + 1 \in 1 .. Len(published[v])
        BY <1>6, <1>10, <3>1, <3>3
      <4>2. Honest(v[1], SubSeq(s, 1, k), p[k + 1])
        BY <1>6, <1>10, <2>1, <4>1 DEF VInv, History
      <4> QED
        BY <1>7, <1>10, <2>1, <3>1, <4>1, <4>2
    <3> QED
      BY <3>2, <3>3
  <2>2. CASE w # v
    BY <1>7, <2>2 DEF VInv, History
  <2> QED
    BY <2>1, <2>2
<1> QED
  BY <1>12, <1>13, <1>14 DEF VInv

LEMMA VNext == FInv /\ VInv /\ [Next]_vars => VInv'
<1> SUFFICES ASSUME FInv, VInv, [Next]_vars PROVE VInv'
  OBVIOUS
<1>0. Shape
  BY DEF FInv
<1>1. CASE Tick
  BY <1>0, <1>1, VTick
<1>2. CASE UNCHANGED vars
  BY <1>2, VStutter DEF vars, vectors
<1>3. CASE ReadStep
  BY <1>3, VStutter
     DEF ReadStep, ReadBegin, ReadCopy, ReadRetry, ReadRow, ReadEnd, vectors
<1>4. ASSUME NEW ch \in Channel, ReadStart(ch) PROVE VInv'
  BY <1>4, VStutter DEF ReadStart, vectors
<1>5. ASSUME NEW x \in Context, NEW ch \in Channel, NEW value \in Values(ch),
             Fire(x, ch, value)
      PROVE  VInv'
  BY <1>5, VFire
<1>6. ASSUME NEW x \in Context, ProbeStep(x) PROVE VInv'
  BY <1>6, VWriteBegin, VWriteEnd, VStore DEF ProbeStep
<1> QED
  BY <1>1, <1>2, <1>3, <1>4, <1>5, <1>6 DEF Next

LEMMA HonestVectors ==
    ASSUME FInv, VInv
    PROVE  VectorsHonest
<1> SUFFICES ASSUME NEW v \in Vectors, NEW k \in 1 .. Len(published[v]) - 1
             PROVE  LET s == SubSeq(fired[v], 1, k)
                        f == published[v][k + 1]
                    IN  IF v[1] = "io" THEN f.window.values = Padded(Known(s))
                        ELSE /\ f.window.values = Padded(Intervals(s))
                             /\ v[1] = "syscall" =>
                                    f.window.ids =
                                        Padded([i \in 1 .. k |-> s[i].value])
                             /\ s[k].now - f.rate.from \in 0 .. SECOND
                             /\ f.rate.count =
                                    Cardinality({i \in 1 .. k :
                                                     s[i].now >= f.rate.from})
  BY DEF VectorsHonest
<1>1. PICK n \in Nat : n = Len(fired[v]) /\ fired[v] \in Seq(Event)
  <2>1. fired[v] \in Seq(Event)
    BY DEF FInv, Shape, Event
  <2>2. Len(fired[v]) \in Nat
    BY <2>1
  <2> QED
    BY <2>1, <2>2
<1>2. k \in 0 .. n /\ k \in Nat /\ k \in 1 .. n /\ k + 1 \in 1 .. Len(published[v])
  <2>1. Len(published[v]) = n + (IF Storing(v) = {} THEN 1 ELSE 0)
    BY <1>1 DEF VInv, Lengths
  <2>2. Len(published[v]) = n + 1 \/ Len(published[v]) = n
    BY <2>1
  <2> QED
    BY <2>2
<1>3. PICK s \in Seq(Event) : s = SubSeq(fired[v], 1, k) /\ Len(s) = k
  <2>1. PICK t \in Seq(Event) : t = fired[v] /\ Len(t) = n
    BY <1>1
  <2>2. \A i \in 1 .. k : t[i] \in Event
    BY <1>2, <2>1
  <2>3. SubSeq(t, 1, k) \in Seq(Event) /\ Len(SubSeq(t, 1, k)) = k
    BY <1>2, <2>2, SubSeqProperties
  <2> QED
    BY <2>1, <2>3
<1>4. PICK f : f = published[v][k + 1]
  OBVIOUS
<1>5. Honest(v[1], s, f)
  BY <1>1, <1>2, <1>3, <1>4 DEF VInv, History
<1>6. s # << >>
  <2>1. k # 0
    BY <1>2
  <2>2. s = << >> => Len(s) = 0
    BY EmptySeq
  <2> QED
    BY <1>3, <2>1, <2>2
<1> QED
  BY <1>3, <1>4, <1>5, <1>6 DEF Honest, Recent

(* What a vector says between two probes is true of the events it has      *)
(* seen, though probes interrupt one another while they work on it.        *)
THEOREM VectorsCorrect == Spec => []VectorsHonest
<1>1. FInv /\ VInv => VectorsHonest
  BY HonestVectors
<1> QED
  BY <1>1, FInit, FNext, VInit, VNext, PTL DEF Spec

------------------------------------------------------------------------------
(***************************************************************************)
(* The rings of hackbot_trace.c: what a report prints while probes write.  *)
(* The argument has four parts: the shape of the state; the slots hold the *)
(* last events of their ring, but for those that a probe has numbered and  *)
(* has yet to store; a probe that has yet to count its event is on its     *)
(* way; and a report that no probe has disturbed has found the newest      *)
(* events so far, going back from the newest.                              *)
(***************************************************************************)
(* The place of an event in a ring: raw rings are written from the second  *)
(* slot on, that of the tokens from the first.                             *)
Off(r) == IF r = "token" THEN 1 ELSE 0
Place(r, j) == (j - Off(r)) % Rings!Size(r)

LEMMA RingSizes ==
    ASSUME NEW r \in Rings!Rings
    PROVE  /\ Rings!Size(r) \in Nat \ {0}
           /\ Rings!Slots(r) = 0 .. Rings!Size(r) - 1
           /\ Off(r) \in {0, 1}
           /\ Default \in 1 .. Rings!Size(r)
BY RingsAreAssumption DEF Rings!RingsAssumption, Rings!Size, Rings!Slots, Off

LEMMA PlaceType ==
    ASSUME NEW r \in Rings!Rings, NEW j \in Nat \ {0}
    PROVE  Place(r, j) \in Rings!Slots(r)
<1>1. PICK N \in Nat \ {0} : N = Rings!Size(r)
  BY RingSizes
<1>2. j - Off(r) \in Nat
  BY RingSizes
<1>3. (j - Off(r)) % N \in 0 .. N - 1
  BY <1>2, DivMod
<1> QED
  BY <1>1, <1>3, RingSizes DEF Place

(* Events less than one turn apart have different places, one turn apart   *)
(* the same.                                                               *)
LEMMA PlacesApart ==
    ASSUME NEW r \in Rings!Rings, NEW j \in Nat \ {0}, NEW k \in Nat \ {0},
           j < k, k - j < Rings!Size(r)
    PROVE  Place(r, j) # Place(r, k)
<1>1. PICK N \in Nat \ {0} : N = Rings!Size(r)
  BY RingSizes
<1>2. PICK a \in Nat : a = j - Off(r)
  BY RingSizes
<1>3. PICK d \in 1 .. N - 1 : d = k - j
  BY <1>1
<1>4. k - Off(r) = a + d
  BY <1>2, <1>3, RingSizes
<1>5. (a + d) % N # a % N
  BY ModDistinct
<1> QED
  BY <1>1, <1>2, <1>4, <1>5 DEF Place

LEMMA PlacesDiffer ==
    ASSUME NEW r \in Rings!Rings, NEW j \in Nat \ {0}, NEW k \in Nat \ {0},
           k - j < Rings!Size(r), j - k < Rings!Size(r),
           Place(r, j) = Place(r, k)
    PROVE  j = k
<1>1. ~(j < k)
  BY PlacesApart
<1>2. ~(k < j)
  BY PlacesApart
<1> QED
  BY <1>1, <1>2

LEMMA WholeTurn ==
    ASSUME NEW N \in Nat \ {0}, NEW a \in Nat
    PROVE  (a + N) % N = a % N
<1>1. a % N \in 0 .. N - 1
  BY DivMod
<1>2. N \in 0 .. N /\ ~((a % N) + N < N) /\ (a % N) + N - N = a % N
  BY <1>1
<1> QED
  BY <1>2, ModAdd

LEMMA PlaceTurn ==
    ASSUME NEW r \in Rings!Rings, NEW j \in Nat \ {0}
    PROVE  Place(r, j + Rings!Size(r)) = Place(r, j)
<1>1. PICK N \in Nat \ {0} : N = Rings!Size(r)
  BY RingSizes
<1>2. PICK a \in Nat : a = j - Off(r)
  BY RingSizes
<1>3. (j + N) - Off(r) = a + N
  BY <1>2, RingSizes
<1>4. (a + N) % N = a % N
  BY WholeTurn
<1> QED
  BY <1>1, <1>2, <1>3, <1>4 DEF Place

LEMMA ModNegative ==
    ASSUME NEW N \in Nat \ {0}, NEW a \in -N .. -1
    PROVE  a % N = a + N
BY SMT

------------------------------------------------------------------------------
(* Where a report looks. Of n entries of a ring with l events it shows the *)
(* first at Index(r, l, n, 0), the others after it; an index that is not   *)
(* positive stands for an event that never was, a place not yet written.   *)
Newer(r, l) == l - 1 + Off(r)
Index(r, l, n, i) == Newer(r, l) - n + i + 1
Narrow(r, n) == n + 1 - Off(r) <= Rings!Size(r)

LEMMA StartPlace ==
    ASSUME NEW r \in Rings!Rings, NEW l \in Nat, head[r] = l - Off(r),
           NEW n \in 1 .. Rings!Size(r),
           NEW a \in Nat, a = l - n + Rings!Size(r)
    PROVE  Rings!StartOf(r, n) = a % Rings!Size(r)
<1>1. PICK N \in Nat \ {0} : N = Rings!Size(r)
  BY RingSizes
<1>2. CASE r = "token"
  <2>1. head[r] - n + 1 + N = a
    BY <1>1, <1>2 DEF Off
  <2> QED
    BY <1>1, <1>2, <2>1 DEF Rings!StartOf
<1>3. CASE r # "token"
  <2>1. PICK b \in Int : b = l - n /\ b >= -N /\ a = b + N
    BY <1>1
  <2>2. head[r] - n = b
    BY <1>3, <2>1 DEF Off
  <2>3. b % N = a % N
    <3>1. CASE b \in Nat
      BY <2>1, <3>1, WholeTurn
    <3>2. CASE b < 0
      <4>1. b \in -N .. -1 /\ a \in 0 .. N - 1
        BY <2>1, <3>2
      <4>2. b % N = a
        BY <2>1, <4>1, ModNegative
      <4> QED
        BY <4>1, <4>2, ModSmall
    <3> QED
      BY <2>1, <3>1, <3>2
  <2> QED
    BY <1>1, <1>3, <2>2, <2>3 DEF Rings!StartOf
<1> QED
  BY <1>2, <1>3

LEMMA Walked ==
    ASSUME NEW r \in Rings!Rings, NEW l \in Nat, head[r] = l - Off(r),
           NEW n \in 1 .. Rings!Size(r), NEW i \in 0 .. n - 1,
           NEW at, at = (Rings!StartOf(r, n) + i) % Rings!Size(r)
    PROVE  /\ Index(r, l, n, i) >= 1 => at = Place(r, Index(r, l, n, i))
           /\ Index(r, l, n, i) < 1 =>
                 at = Place(r, Index(r, l, n, i) + Rings!Size(r))
<1>1. PICK N \in Nat \ {0} : N = Rings!Size(r)
  BY RingSizes
<1>2. PICK a \in Nat : a = l - n + N
  BY <1>1
<1>3. Rings!StartOf(r, n) = a % N
  BY <1>1, <1>2, StartPlace
<1>4. at = (a + i) % N
  <2>1. i \in 0 .. N
    BY <1>1
  <2> QED
    BY <1>1, <1>3, <2>1, ModModAdd
<1>5. PICK j \in Int : j = Index(r, l, n, i) /\ j = l + Off(r) - n + i
  BY RingSizes DEF Index, Newer
<1>6. ASSUME j >= 1 PROVE at = Place(r, j)
  <2>1. PICK b \in Nat : b = j - Off(r) /\ a + i = b + N
    BY <1>2, <1>5, <1>6, RingSizes
  <2>2. (b + N) % N = b % N
    BY WholeTurn
  <2> QED
    BY <1>1, <1>4, <2>1, <2>2 DEF Place
<1>7. at = Place(r, j + N)
  <2>1. PICK o \in {0, 1} : o = Off(r)
    BY RingSizes
  <2>2. n \in Nat /\ i \in Nat
    BY <1>1
  <2>3. (j + N) - o = a + i
    BY <1>2, <1>5, <2>1, <2>2
  <2> QED
    BY <1>1, <1>4, <2>1, <2>3 DEF Place
<1> QED
  BY <1>1, <1>5, <1>6, <1>7

------------------------------------------------------------------------------
(* The shape of the state of the rings.                                    *)
RingProbe == [pc : {"idle", "fill", "filled"}, kind : Rings!Kind, event : Nat,
              ring : Rings!Rings, at : Nat]
RingReader == [pc : {"off", "total", "look", "done"}, ring : Rings!Rings,
               count : Nat, start : Int, i : Nat, total : Nat, quiet : BOOLEAN]

RingShape ==
    /\ order \in [Rings!Rings -> Seq(Nat \ {0})]
    /\ head \in [Rings!Rings -> Int]
    /\ \A r \in Rings!Rings : head[r] = Len(order[r]) - Off(r)
    /\ DOMAIN ring = Rings!Rings
    /\ \A r \in Rings!Rings : ring[r] \in [Rings!Slots(r) -> Nat]
    /\ lapped \in [Rings!Rings -> BOOLEAN]
    /\ ring_total \in Nat
    /\ ring_probe \in [Rings!Context -> RingProbe]
    /\ \A x \in Rings!Context : ring_probe[x].pc # "idle" =>
           ring_probe[x].event # 0
           /\ ring_probe[x].at \in Rings!Slots(ring_probe[x].ring)
    /\ ring_reader \in RingReader
    /\ ring_report \in Seq(Nat)
    /\ ring_events \in Nat

(* The order of a ring and its length.                                     *)
LEMMA OrderOf ==
    ASSUME RingShape, NEW r \in Rings!Rings
    PROVE  order[r] \in Seq(Nat \ {0}) /\ Len(order[r]) \in Nat
<1>1. order \in [Rings!Rings -> Seq(Nat \ {0})]
  BY DEF RingShape
<1>2. order[r] \in Seq(Nat \ {0})
  BY <1>1
<1> QED
  BY <1>2

LEMMA RingShapeInit == Rings!Init => RingShape
<1> SUFFICES ASSUME Rings!Init PROVE RingShape
  OBVIOUS
<1>1. \A r \in Rings!Rings : 0 \in Rings!Slots(r)
  BY RingSizes
<1>2. << >> \in Seq(Nat) /\ << >> \in Seq(Nat \ {0})
  OBVIOUS
<1>3. Rings!NoProbe \in RingProbe /\ Rings!NoProbe.pc = "idle"
  BY DEF Rings!NoProbe, RingProbe, Rings!Rings, Rings!Kind
<1>4. Rings!NoRead \in RingReader
  BY DEF Rings!NoRead, RingReader, Rings!Rings, Rings!Kind
<1>5. \A r \in Rings!Rings : head[r] = Len(order[r]) - Off(r)
  BY DEF Rings!Init, Off
<1>6. head \in [Rings!Rings -> Int]
  BY DEF Rings!Init
<1> QED
  BY <1>2, <1>3, <1>4, <1>5, <1>6
     DEF Rings!Init, RingShape, Rings!Empty

(* A probe takes a slot: the place of the event that comes last by that.   *)
Filling(x, r, k, e, at) ==
    [pc |-> "fill", kind |-> k, event |-> e, ring |-> r, at |-> at]
FillerAt(p, x, r, at) == p[x].pc = "fill" /\ p[x].ring = r /\ p[x].at = at

LEMMA Taken ==
    ASSUME RingShape, NEW x \in Rings!Context, NEW r \in Rings!Rings,
           NEW k \in Rings!Kind, NEW e \in Nat \ {0}, Rings!TakeSlot(x, r, k, e)
    PROVE  \E at \in Rings!Slots(r) :
               /\ at = Place(r, Len(order[r]) + 1)
               /\ head' = [head EXCEPT ![r] = @ + 1]
               /\ order' = [order EXCEPT ![r] = Append(@, e)]
               /\ ring_probe' =
                     [ring_probe EXCEPT ![x] = Filling(x, r, k, e, at)]
               /\ lapped' \in [Rings!Rings -> BOOLEAN]
               /\ \A q \in Rings!Rings \ {r} : lapped'[q] = lapped[q]
               /\ ~lapped'[r] =>
                     /\ ~lapped[r]
                     /\ \A y \in Rings!Context : ~FillerAt(ring_probe, y, r, at)
<1>1. Len(order[r]) \in Nat
  BY DEF RingShape
<1>2. PICK at \in Rings!Slots(r) : at = Place(r, Len(order[r]) + 1)
  BY <1>1, PlaceType
<1>3. (head[r] + 1) % Rings!Size(r) = at
  <2>1. PICK o \in {0, 1} : o = Off(r)
    BY RingSizes
  <2>2. PICK l \in Nat : l = Len(order[r])
    BY <1>1
  <2>3. head[r] = l - o
    BY <2>1, <2>2 DEF RingShape
  <2>4. head[r] + 1 = (l + 1) - o
    BY <2>1, <2>2, <2>3
  <2> QED
    BY <1>2, <2>1, <2>2, <2>4 DEF Place
<1>4. PICK b \in BOOLEAN :
         b = (lapped[r] \/ \E y \in Rings!Context :
                 /\ ring_probe[y].pc = "fill"
                 /\ ring_probe[y].ring = r /\ ring_probe[y].at = at)
  OBVIOUS
<1>5. lapped \in [Rings!Rings -> BOOLEAN] /\ lapped' = [lapped EXCEPT ![r] = b]
  BY <1>3, <1>4 DEF Rings!TakeSlot, RingShape
<1>6. /\ lapped' \in [Rings!Rings -> BOOLEAN]
      /\ \A q \in Rings!Rings \ {r} : lapped'[q] = lapped[q]
      /\ lapped'[r] = b
  BY <1>5
<1>7. ~b => /\ ~lapped[r]
            /\ \A y \in Rings!Context : ~FillerAt(ring_probe, y, r, at)
  BY <1>4 DEF FillerAt
<1>8. /\ head' = [head EXCEPT ![r] = @ + 1]
      /\ order' = [order EXCEPT ![r] = Append(@, e)]
      /\ ring_probe' = [ring_probe EXCEPT ![x] = Filling(x, r, k, e, at)]
  BY <1>3 DEF Rings!TakeSlot, Filling
<1> QED
  BY <1>2, <1>6, <1>7, <1>8

LEMMA ShapeTaken ==
    ASSUME RingShape, NEW x \in Rings!Context, NEW r \in Rings!Rings,
           NEW k \in Rings!Kind, NEW e \in Nat \ {0}, Rings!TakeSlot(x, r, k, e)
    PROVE  /\ order' \in [Rings!Rings -> Seq(Nat \ {0})]
           /\ head' \in [Rings!Rings -> Int]
           /\ \A q \in Rings!Rings : head'[q] = Len(order'[q]) - Off(q)
           /\ lapped' \in [Rings!Rings -> BOOLEAN]
           /\ ring_probe' \in [Rings!Context -> RingProbe]
           /\ \A y \in Rings!Context : ring_probe'[y].pc # "idle" =>
                  ring_probe'[y].event # 0
                  /\ ring_probe'[y].at \in Rings!Slots(ring_probe'[y].ring)
<1>1. PICK at \in Rings!Slots(r) :
         /\ head' = [head EXCEPT ![r] = @ + 1]
         /\ order' = [order EXCEPT ![r] = Append(@, e)]
         /\ ring_probe' = [ring_probe EXCEPT ![x] = Filling(x, r, k, e, at)]
         /\ lapped' \in [Rings!Rings -> BOOLEAN]
  BY Taken
<1>2. PICK s \in Seq(Nat \ {0}) : s = order[r]
  BY DEF RingShape
<1>3. PICK t \in Seq(Nat \ {0}) : t = Append(s, e) /\ Len(t) = Len(s) + 1
  <2>1. Append(s, e) \in Seq(Nat \ {0})
    OBVIOUS
  <2>2. Len(Append(s, e)) = Len(s) + 1
    OBVIOUS
  <2> QED
    BY <2>1, <2>2
<1>4. order \in [Rings!Rings -> Seq(Nat \ {0})] /\ order' = [order EXCEPT ![r] = t]
  BY <1>1, <1>2, <1>3 DEF RingShape
<1>5. order' \in [Rings!Rings -> Seq(Nat \ {0})] /\ order'[r] = t
      /\ \A q \in Rings!Rings \ {r} : order'[q] = order[q]
  BY <1>4
<1>6. head \in [Rings!Rings -> Int] /\ head[r] = Len(s) - Off(r)
  BY <1>2 DEF RingShape
<1>7. head' \in [Rings!Rings -> Int] /\ head'[r] = head[r] + 1
      /\ \A q \in Rings!Rings \ {r} : head'[q] = head[q]
  BY <1>1, <1>6
<1>8. \A q \in Rings!Rings : head'[q] = Len(order'[q]) - Off(q)
  <2>1. head'[r] = Len(order'[r]) - Off(r)
    <3>1. PICK o \in {0, 1} : o = Off(r)
      BY RingSizes
    <3>2. PICK l \in Nat : l = Len(s) /\ Len(t) = l + 1
      BY <1>3
    <3> QED
      BY <1>5, <1>6, <1>7, <3>1, <3>2
  <2>2. \A q \in Rings!Rings \ {r} : head'[q] = Len(order'[q]) - Off(q)
    BY <1>5, <1>7 DEF RingShape
  <2> QED
    BY <2>1, <2>2
<1>9. PICK new \in RingProbe : new = Filling(x, r, k, e, at)
                               /\ new.event # 0 /\ new.ring = r /\ new.at = at
  <2>1. at \in Nat
    BY RingSizes
  <2>2. Filling(x, r, k, e, at) \in RingProbe
    BY <2>1 DEF Filling, RingProbe
  <2>3. /\ Filling(x, r, k, e, at).event = e
        /\ Filling(x, r, k, e, at).ring = r
        /\ Filling(x, r, k, e, at).at = at
    BY DEF Filling
  <2> QED
    BY <2>2, <2>3
<1>10. ring_probe \in [Rings!Context -> RingProbe]
       /\ ring_probe' = [ring_probe EXCEPT ![x] = new]
  BY <1>1, <1>9 DEF RingShape
<1>11. /\ ring_probe' \in [Rings!Context -> RingProbe]
       /\ ring_probe'[x] = new
       /\ \A y \in Rings!Context \ {x} : ring_probe'[y] = ring_probe[y]
  BY <1>10
<1>12. \A y \in Rings!Context : ring_probe'[y].pc # "idle" =>
           ring_probe'[y].event # 0
           /\ ring_probe'[y].at \in Rings!Slots(ring_probe'[y].ring)
  <2>1. \A y \in Rings!Context \ {x} : ring_probe'[y].pc # "idle" =>
           ring_probe'[y].event # 0
           /\ ring_probe'[y].at \in Rings!Slots(ring_probe'[y].ring)
    BY <1>11 DEF RingShape
  <2>2. ring_probe'[x].event # 0
        /\ ring_probe'[x].at \in Rings!Slots(ring_probe'[x].ring)
    BY <1>9, <1>11
  <2> QED
    BY <2>1, <2>2
<1> QED
  BY <1>1, <1>5, <1>7, <1>8, <1>11, <1>12

LEMMA ShapeFire ==
    ASSUME RingShape, NEW x \in Rings!Context, NEW k \in Rings!Kind,
           Rings!Fire(x, k)
    PROVE  RingShape'
<1>1. PICK e \in Nat \ {0} : e = ring_events'
  BY DEF Rings!Fire, RingShape
<1>2. k \in Rings!Rings /\ Rings!TakeSlot(x, k, k, e)
  BY <1>1 DEF Rings!Fire, Rings!Rings
<1>3. PICK rd \in RingReader : rd = ring_reader
  BY DEF RingShape
<1>4. [rd EXCEPT !.quiet = FALSE] \in RingReader
  BY DEF RingReader
<1>5. /\ ring_reader' = [rd EXCEPT !.quiet = FALSE]
      /\ UNCHANGED <<ring, ring_total, ring_report>>
  BY <1>3 DEF Rings!Fire
<1> QED
  BY <1>1, <1>2, <1>4, <1>5, ShapeTaken DEF RingShape

LEMMA ShapeTokenize ==
    ASSUME RingShape, NEW x \in Rings!Context, Rings!Tokenize(x)
    PROVE  RingShape'
<1>1. PICK p \in RingProbe : p = ring_probe[x] /\ p.pc = "filled" /\ p.event # 0
  BY DEF Rings!Tokenize, RingShape
<1>2. /\ "token" \in Rings!Rings /\ p.kind \in Rings!Kind
      /\ p.event \in Nat \ {0}
      /\ Rings!TakeSlot(x, "token", p.kind, p.event)
  BY <1>1 DEF Rings!Tokenize, Rings!Rings, RingProbe
<1>3. UNCHANGED <<ring, ring_total, ring_reader, ring_report, ring_events>>
  BY DEF Rings!Tokenize, Rings!reading
<1> QED
  BY <1>2, <1>3, ShapeTaken DEF RingShape

LEMMA ShapeFill ==
    ASSUME RingShape, NEW x \in Rings!Context, Rings!Fill(x)
    PROVE  RingShape'
<1>1. PICK p \in RingProbe :
         /\ p = ring_probe[x] /\ p.pc = "fill" /\ p.event # 0
         /\ p.at \in Rings!Slots(p.ring)
  BY DEF Rings!Fill, RingShape
<1>2. PICK r \in Rings!Rings, at \in Rings!Slots(p.ring), e \in Nat :
         r = p.ring /\ at = p.at /\ e = p.event
  BY <1>1 DEF RingProbe
<1>3. PICK cells \in [Rings!Slots(r) -> Nat] : cells = ring[r]
  BY DEF RingShape
<1>4. /\ ring' = [ring EXCEPT ![r] = [cells EXCEPT ![at] = e]]
      /\ ring_probe' = [ring_probe EXCEPT ![x] = [p EXCEPT !.pc = "filled"]]
      /\ UNCHANGED <<head, ring_total, order, lapped, ring_reader, ring_report,
                     ring_events>>
  BY <1>1, <1>2, <1>3 DEF Rings!Fill, Rings!reading, RingShape
<1>5. [cells EXCEPT ![at] = e] \in [Rings!Slots(r) -> Nat]
  BY <1>2, <1>3
<1>6. /\ DOMAIN ring' = Rings!Rings
      /\ \A q \in Rings!Rings : ring'[q] \in [Rings!Slots(q) -> Nat]
  <2>1. DOMAIN ring = Rings!Rings
        /\ \A q \in Rings!Rings : ring[q] \in [Rings!Slots(q) -> Nat]
    BY DEF RingShape
  <2>2. DOMAIN ring' = Rings!Rings /\ ring'[r] = [cells EXCEPT ![at] = e]
        /\ \A q \in Rings!Rings \ {r} : ring'[q] = ring[q]
    BY <1>4, <2>1
  <2> QED
    BY <1>5, <2>1, <2>2
<1>7. PICK new \in RingProbe :
         /\ new = [p EXCEPT !.pc = "filled"] /\ new.event # 0
         /\ new.at \in Rings!Slots(new.ring)
  <2>1. [p EXCEPT !.pc = "filled"] \in RingProbe
    BY DEF RingProbe
  <2>2. /\ [p EXCEPT !.pc = "filled"].event = p.event
        /\ [p EXCEPT !.pc = "filled"].at = p.at
        /\ [p EXCEPT !.pc = "filled"].ring = p.ring
    BY DEF RingProbe
  <2> QED
    BY <1>1, <2>1, <2>2
<1>8. /\ ring_probe' \in [Rings!Context -> RingProbe]
      /\ ring_probe'[x] = new
      /\ \A y \in Rings!Context \ {x} : ring_probe'[y] = ring_probe[y]
  BY <1>4, <1>7 DEF RingShape
<1>9. \A y \in Rings!Context : ring_probe'[y].pc # "idle" =>
          ring_probe'[y].event # 0
          /\ ring_probe'[y].at \in Rings!Slots(ring_probe'[y].ring)
  BY <1>7, <1>8 DEF RingShape
<1> QED
  BY <1>4, <1>6, <1>8, <1>9 DEF RingShape

LEMMA NoRingProbe == Rings!NoProbe \in RingProbe /\ Rings!NoProbe.pc = "idle"
BY DEF Rings!NoProbe, RingProbe, Rings!Rings, Rings!Kind

LEMMA ShapeCount ==
    ASSUME RingShape, NEW x \in Rings!Context, Rings!CountToken(x)
    PROVE  RingShape'
<1>1. PICK new \in RingProbe : new = Rings!NoProbe /\ new.pc = "idle"
  BY NoRingProbe
<1>2. /\ ring_total' = ring_total + 1
      /\ ring_probe' = [ring_probe EXCEPT ![x] = new]
      /\ UNCHANGED <<head, ring, order, lapped, ring_reader, ring_report,
                     ring_events>>
  BY <1>1 DEF Rings!CountToken, Rings!reading
<1>3. /\ ring_probe' \in [Rings!Context -> RingProbe]
      /\ ring_probe'[x] = new
      /\ \A y \in Rings!Context \ {x} : ring_probe'[y] = ring_probe[y]
  BY <1>2 DEF RingShape
<1>4. \A y \in Rings!Context : ring_probe'[y].pc # "idle" =>
          ring_probe'[y].event # 0
          /\ ring_probe'[y].at \in Rings!Slots(ring_probe'[y].ring)
  BY <1>1, <1>3 DEF RingShape
<1> QED
  BY <1>2, <1>3, <1>4 DEF RingShape

(* What a report begins with.                                              *)
Asked(r, n, quiet) ==
    [Rings!NoRead EXCEPT
        !.pc = IF r = "token" THEN "total" ELSE "look", !.ring = r,
        !.count = n, !.start = Rings!StartOf(r, n), !.quiet = quiet]

LEMMA CountType ==
    ASSUME NEW r \in Rings!Rings, NEW n \in Nat
    PROVE  Rings!Count(r, n) \in 1 .. Rings!Size(r)
BY RingSizes DEF Rings!Count

LEMMA RequestType ==
    ASSUME NEW request \in Requests
    PROVE  request[1] \in Rings!Rings /\ request[2] \in Nat
BY RingsAreAssumption DEF Rings!RingsAssumption, Rings!Rings, Rings!Kind

LEMMA StartType ==
    ASSUME RingShape, NEW r \in Rings!Rings, NEW n \in 1 .. Rings!Size(r)
    PROVE  Rings!StartOf(r, n) \in 0 .. Rings!Size(r) - 1
<1>1. PICK N \in Nat \ {0} : N = Rings!Size(r)
  BY RingSizes
<1>2. PICK l \in Nat : l = Len(order[r]) /\ head[r] = l - Off(r)
  <2>1. order[r] \in Seq(Nat \ {0})
    BY DEF RingShape
  <2> QED
    BY <2>1 DEF RingShape
<1>3. PICK a \in Nat : a = l - n + N
  BY <1>1
<1>4. Rings!StartOf(r, n) = a % N
  BY <1>1, <1>2, <1>3, StartPlace
<1> QED
  BY <1>1, <1>4, DivMod

LEMMA AskedType ==
    ASSUME RingShape, NEW r \in Rings!Rings, NEW n \in 1 .. Rings!Size(r),
           NEW quiet \in BOOLEAN
    PROVE  /\ Asked(r, n, quiet) \in RingReader
           /\ Asked(r, n, quiet).pc = (IF r = "token" THEN "total" ELSE "look")
           /\ Asked(r, n, quiet).ring = r
           /\ Asked(r, n, quiet).count = n
           /\ Asked(r, n, quiet).start = Rings!StartOf(r, n)
           /\ Asked(r, n, quiet).i = 0
           /\ Asked(r, n, quiet).quiet = quiet
<1>1. PICK a \in Int : a = Rings!StartOf(r, n)
  BY StartType, RingSizes
<1>2. n \in Nat
  BY RingSizes
<1> QED
  BY <1>1, <1>2 DEF Asked, Rings!NoRead, RingReader

LEMMA ReadStarts ==
    ASSUME RingShape, NEW request \in Requests,
           Rings!ReadStart(request[1], request[2])
    PROVE  \E r \in Rings!Rings, quiet \in BOOLEAN :
             \E n \in 1 .. Rings!Size(r) :
               /\ ring_reader' = Asked(r, n, quiet)
               /\ quiet = Rings!Quiet
               /\ ring_report' = << >>
               /\ UNCHANGED <<head, ring, ring_total, order, lapped, ring_probe,
                              ring_events>>
<1>1. PICK r \in Rings!Rings : r = request[1]
  BY RequestType
<1>2. PICK n \in 1 .. Rings!Size(r) : n = Rings!Count(r, request[2])
  BY RequestType, CountType
<1>3. PICK quiet \in BOOLEAN : quiet = Rings!Quiet
  BY DEF Rings!Quiet
<1>4. /\ ring_reader' = Asked(r, n, quiet)
      /\ ring_report' = << >>
      /\ UNCHANGED <<head, ring, ring_total, order, lapped, ring_probe,
                     ring_events>>
  BY <1>1, <1>2, <1>3 DEF Rings!ReadStart, Asked, Rings!rings
<1> QED
  BY <1>3, <1>4

LEMMA ShapeRead ==
    ASSUME RingShape,
           UNCHANGED <<head, ring, ring_total, order, lapped, ring_probe,
                       ring_events>>,
           ring_reader' \in RingReader, ring_report' \in Seq(Nat)
    PROVE  RingShape'
BY DEF RingShape

LEMMA ShapeReadStart ==
    ASSUME RingShape, NEW request \in Requests,
           Rings!ReadStart(request[1], request[2])
    PROVE  RingShape'
<1>1. PICK r \in Rings!Rings, quiet \in BOOLEAN :
         \E n \in 1 .. Rings!Size(r) :
           /\ ring_reader' = Asked(r, n, quiet)
           /\ ring_report' = << >>
           /\ UNCHANGED <<head, ring, ring_total, order, lapped, ring_probe,
                          ring_events>>
  BY ReadStarts
<1>2. ring_reader' \in RingReader
  BY <1>1, AskedType
<1> QED
  BY <1>1, <1>2, ShapeRead

(* What the slot shows that a report looks at next.                        *)
LEMMA HereType ==
    ASSUME RingShape PROVE Rings!Here \in Nat
<1>1. PICK r \in Rings!Rings : r = ring_reader.ring
  BY DEF RingShape, RingReader
<1>2. PICK N \in Nat \ {0} : N = Rings!Size(r) /\ Rings!Slots(r) = 0 .. N - 1
  BY RingSizes
<1>3. ring_reader.start + ring_reader.i \in Int
  BY DEF RingShape, RingReader
<1>4. (ring_reader.start + ring_reader.i) % N \in 0 .. N - 1
  BY <1>2, <1>3
<1> QED
  BY <1>1, <1>2, <1>4 DEF Rings!Here, RingShape

LEMMA ShapeReadOn ==
    ASSUME RingShape,
           \/ Rings!ReadTotal \/ Rings!ReadEntry \/ Rings!ReadEnd
           \/ Rings!ReadReturn
    PROVE  RingShape'
<1>1. PICK rd \in RingReader : rd = ring_reader
  BY DEF RingShape
<1>2. /\ UNCHANGED <<head, ring, ring_total, order, lapped, ring_probe,
                     ring_events>>
      /\ ring_total \in Nat /\ ring_report \in Seq(Nat)
  BY DEF Rings!ReadTotal, Rings!ReadEntry, Rings!ReadEnd, Rings!ReadReturn,
         Rings!rings, RingShape
<1>3. ASSUME Rings!ReadTotal PROVE RingShape'
  <2>1. ring_reader' = [rd EXCEPT
            !.pc = IF ring_total = 0 THEN "done" ELSE "look",
            !.total = ring_total]
        /\ ring_report' = ring_report
    BY <1>1, <1>3 DEF Rings!ReadTotal
  <2>2. ring_reader' \in RingReader
    BY <1>2, <2>1 DEF RingReader
  <2> QED
    BY <1>2, <2>1, <2>2, ShapeRead
<1>4. ASSUME Rings!ReadEntry PROVE RingShape'
  <2>1. ring_reader' = [rd EXCEPT !.i = @ + 1]
    BY <1>1, <1>4 DEF Rings!ReadEntry
  <2>2. ring_reader' \in RingReader
    BY <2>1 DEF RingReader
  <2>3. ring_report' \in Seq(Nat)
    BY <1>2, <1>4, HereType DEF Rings!ReadEntry
  <2> QED
    BY <1>2, <2>2, <2>3, ShapeRead
<1>5. ASSUME Rings!ReadEnd PROVE RingShape'
  <2>1. ring_reader' = [rd EXCEPT !.pc = "done"] /\ ring_report' = ring_report
    BY <1>1, <1>5 DEF Rings!ReadEnd
  <2>2. ring_reader' \in RingReader
    BY <2>1 DEF RingReader
  <2> QED
    BY <1>2, <2>1, <2>2, ShapeRead
<1>6. ASSUME Rings!ReadReturn PROVE RingShape'
  <2>1. ring_reader' \in RingReader /\ ring_report' = << >>
    BY <1>6 DEF Rings!ReadReturn, Rings!NoRead, RingReader, Rings!Rings,
                Rings!Kind
  <2> QED
    BY <1>2, <2>1, ShapeRead
<1> QED
  BY <1>3, <1>4, <1>5, <1>6

LEMMA RingShapeNext == RingShape /\ [Rings!Next]_(Rings!vars) => RingShape'
<1> SUFFICES ASSUME RingShape, [Rings!Next]_(Rings!vars) PROVE RingShape'
  OBVIOUS
<1>1. CASE UNCHANGED Rings!vars
  BY <1>1 DEF Rings!vars, Rings!rings, Rings!reading, RingShape
<1>2. CASE Rings!Next
  BY <1>2, ShapeFire, ShapeFill, ShapeTokenize, ShapeCount, ShapeReadStart,
     ShapeReadOn DEF Rings!Next, Rings!ProbeStep
<1> QED
  BY <1>1, <1>2

------------------------------------------------------------------------------
(* A ring of which no slot was handed out again while a probe was filling  *)
(* it: each of its newest events is in its place or a probe is about to    *)
(* put it there, probes are about to put there nothing else, and the       *)
(* places no event has had yet are empty.                                  *)
Latest(r, l) == {j \in 1 .. l : j > l - Rings!Size(r)}
Fills(p, r, at, e) ==
    \E x \in Rings!Context : FillerAt(p, x, r, at) /\ p[x].event = e

Held(r, cells, s, p) ==
    /\ \A j \in Latest(r, Len(s)) :
           cells[Place(r, j)] = s[j] \/ Fills(p, r, Place(r, j), s[j])
    /\ \A x \in Rings!Context, at \in Rings!Slots(r) : FillerAt(p, x, r, at) =>
           \E j \in Latest(r, Len(s)) : at = Place(r, j) /\ p[x].event = s[j]
    /\ \A j \in Nat :
           j > Len(s) /\ j <= Rings!Size(r) => cells[Place(r, j)] = 0

RingsHeld ==
    \A r \in Rings!Rings :
        ~lapped[r] => Held(r, ring[r], order[r], ring_probe)

LEMMA HeldInit == Rings!Init => RingsHeld
<1> SUFFICES ASSUME Rings!Init, NEW r \in Rings!Rings
             PROVE  Held(r, ring[r], order[r], ring_probe)
  BY DEF RingsHeld
<1>1. order[r] = << >> /\ Latest(r, Len(order[r])) = {}
  <2>1. order[r] = << >>
    BY DEF Rings!Init
  <2> QED
    BY <2>1 DEF Latest
<1>2. \A x \in Rings!Context, at \in Rings!Slots(r) :
          ~FillerAt(ring_probe, x, r, at)
  BY DEF Rings!Init, Rings!NoProbe, FillerAt
<1>3. ASSUME NEW j \in Nat, j > 0 PROVE ring[r][Place(r, j)] = 0
  <2>1. Place(r, j) \in Rings!Slots(r)
    BY <1>3, PlaceType
  <2> QED
    BY <2>1 DEF Rings!Init, Rings!Empty
<1>4. Len(order[r]) = 0
  BY <1>1
<1> QED
  BY <1>1, <1>2, <1>3, <1>4 DEF Held

(* A ring stays as it is when the probes at its slots do.                  *)
LEMMA HeldStays ==
    ASSUME NEW r, NEW cells, NEW s, NEW p, NEW q, Held(r, cells, s, p),
           \A x \in Rings!Context, at \in Rings!Slots(r) :
               /\ FillerAt(p, x, r, at) <=> FillerAt(q, x, r, at)
               /\ FillerAt(p, x, r, at) => p[x].event = q[x].event,
           \A j \in Latest(r, Len(s)) : Place(r, j) \in Rings!Slots(r)
    PROVE  Held(r, cells, s, q)
<1>1. \A at \in Rings!Slots(r) :
          \A e : Fills(p, r, at, e) => Fills(q, r, at, e)
  BY DEF Fills
<1> QED
  BY <1>1 DEF Held

LEMMA WindowPlaces ==
    ASSUME NEW r \in Rings!Rings, NEW l \in Nat, NEW j \in Latest(r, l)
    PROVE  Place(r, j) \in Rings!Slots(r) /\ j \in Nat \ {0}
BY PlaceType DEF Latest

(* An event takes its slot.                                                *)
LEMMA HeldTaken ==
    ASSUME RingShape, RingsHeld, NEW x \in Rings!Context, NEW r \in Rings!Rings,
           NEW k \in Rings!Kind, NEW e \in Nat \ {0}, Rings!TakeSlot(x, r, k, e),
           ring_probe[x].pc # "fill", UNCHANGED ring
    PROVE  RingsHeld'
<1>1. PICK at \in Rings!Slots(r) :
         /\ at = Place(r, Len(order[r]) + 1)
         /\ order' = [order EXCEPT ![r] = Append(@, e)]
         /\ ring_probe' = [ring_probe EXCEPT ![x] = Filling(x, r, k, e, at)]
         /\ \A q \in Rings!Rings \ {r} : lapped'[q] = lapped[q]
         /\ ~lapped'[r] =>
               /\ ~lapped[r]
               /\ \A y \in Rings!Context : ~FillerAt(ring_probe, y, r, at)
  BY Taken
<1>2. PICK p : /\ p = ring_probe /\ p[x].pc # "fill"
  OBVIOUS
<1>3. PICK q : /\ q = ring_probe'
               /\ q[x].pc = "fill" /\ q[x].ring = r /\ q[x].at = at
               /\ q[x].event = e
               /\ \A y \in Rings!Context \ {x} : q[y] = p[y]
  <2>1. PICK new : /\ new = Filling(x, r, k, e, at) /\ new.pc = "fill"
                   /\ new.ring = r /\ new.at = at /\ new.event = e
    <3>1. /\ Filling(x, r, k, e, at).pc = "fill"
          /\ Filling(x, r, k, e, at).ring = r
          /\ Filling(x, r, k, e, at).at = at
          /\ Filling(x, r, k, e, at).event = e
      BY DEF Filling
    <3> QED
      BY <3>1
  <2>2. DOMAIN p = Rings!Context /\ ring_probe' = [p EXCEPT ![x] = new]
    BY <1>1, <1>2, <2>1 DEF RingShape
  <2>3. ring_probe'[x] = new
        /\ \A y \in Rings!Context \ {x} : ring_probe'[y] = p[y]
    BY <2>2
  <2> QED
    BY <2>1, <2>3
<1>4. PICK s \in Seq(Nat \ {0}), l \in Nat : s = order[r] /\ l = Len(s)
  BY OrderOf
<1>5. PICK t : /\ t = order'[r] /\ Len(t) = l + 1 /\ t[l + 1] = e
               /\ \A j \in 1 .. l : t[j] = s[j]
  <2>1. order'[r] = Append(s, e)
    BY <1>1, <1>4 DEF RingShape
  <2>2. Len(Append(s, e)) = l + 1 /\ Append(s, e)[l + 1] = e
    BY <1>4
  <2>3. \A j \in 1 .. l : Append(s, e)[j] = s[j]
    BY <1>4
  <2> QED
    BY <2>1, <2>2, <2>3
<1>6. ASSUME NEW o \in Rings!Rings \ {r}, ~lapped'[o]
      PROVE  Held(o, ring'[o], order'[o], ring_probe')
  <2>1. order'[o] = order[o] /\ ring'[o] = ring[o] /\ ~lapped[o]
    BY <1>1, <1>6 DEF RingShape
  <2>2. Held(o, ring[o], order[o], p)
    BY <1>2, <1>6, <2>1 DEF RingsHeld
  <2>3. \A y \in Rings!Context, a \in Rings!Slots(o) :
            /\ FillerAt(p, y, o, a) <=> FillerAt(q, y, o, a)
            /\ FillerAt(p, y, o, a) => p[y].event = q[y].event
    BY <1>2, <1>3, <1>6 DEF FillerAt
  <2>4. Len(order[o]) \in Nat
    BY <1>6 DEF RingShape
  <2> QED
    BY <1>3, <1>6, <2>1, <2>2, <2>3, <2>4, WindowPlaces, HeldStays
<1>7. ASSUME ~lapped'[r] PROVE Held(r, ring'[r], order'[r], ring_probe')
  <2>1. PICK cells : cells = ring[r] /\ cells = ring'[r]
    OBVIOUS
  <2>2. Held(r, cells, s, p)
    BY <1>1, <1>2, <1>4, <1>7, <2>1 DEF RingsHeld
  <2>3. \A y \in Rings!Context : ~FillerAt(p, y, r, at)
    BY <1>1, <1>2, <1>7
  <2>4. PICK N \in Nat \ {0} : N = Rings!Size(r)
    BY RingSizes
  <2>5. \A y \in Rings!Context, a \in Rings!Slots(r) :
            /\ FillerAt(p, y, r, a) =>
                  y # x /\ FillerAt(q, y, r, a) /\ q[y].event = p[y].event
            /\ y # x /\ FillerAt(q, y, r, a) =>
                  FillerAt(p, y, r, a) /\ q[y].event = p[y].event
    BY <1>2, <1>3 DEF FillerAt
  <2>6. FillerAt(q, x, r, at) /\ q[x].event = e
    BY <1>3 DEF FillerAt
  <2>7. ASSUME NEW j \in Latest(r, l + 1)
        PROVE  cells[Place(r, j)] = t[j] \/ Fills(q, r, Place(r, j), t[j])
    <3>1. CASE j = l + 1
      BY <1>1, <1>4, <1>5, <2>6, <3>1 DEF Fills
    <3>2. CASE j # l + 1
      <4>1. j \in Latest(r, l) /\ j \in 1 .. l
        BY <2>4, <3>2 DEF Latest
      <4>2. cells[Place(r, j)] = s[j] \/ Fills(p, r, Place(r, j), s[j])
        BY <1>4, <2>2, <4>1 DEF Held
      <4>3. Place(r, j) \in Rings!Slots(r)
        BY <4>1, WindowPlaces
      <4> QED
        BY <1>5, <2>5, <4>1, <4>2, <4>3 DEF Fills
    <3> QED
      BY <3>1, <3>2
  <2>8. ASSUME NEW y \in Rings!Context, NEW a \in Rings!Slots(r),
               FillerAt(q, y, r, a)
        PROVE  \E j \in Latest(r, l + 1) : a = Place(r, j) /\ q[y].event = t[j]
    <3>1. CASE y = x
      <4>1. a = at
        BY <2>6, <2>8, <3>1 DEF FillerAt
      <4>2. l + 1 \in Latest(r, l + 1)
        BY <2>4 DEF Latest
      <4> QED
        BY <1>1, <1>4, <1>5, <2>6, <3>1, <4>1, <4>2
    <3>2. CASE y # x
      <4>1. FillerAt(p, y, r, a) /\ q[y].event = p[y].event
        BY <2>5, <2>8, <3>2
      <4>2. PICK j \in Latest(r, l) : a = Place(r, j) /\ p[y].event = s[j]
        BY <1>4, <2>2, <4>1 DEF Held
      <4>3. j \in 1 .. l /\ j > l - N
        BY <2>4 DEF Latest
      <4>4. j # (l + 1) - N
        <5>1. SUFFICES ASSUME j = (l + 1) - N PROVE FALSE
          OBVIOUS
        <5>2. j \in Nat \ {0} /\ j + N = l + 1
          BY <4>3, <5>1
        <5>3. Place(r, j) = Place(r, l + 1)
          BY <2>4, <5>2, PlaceTurn
        <5> QED
          BY <1>1, <1>4, <2>3, <4>1, <4>2, <5>3
      <4>5. j \in Latest(r, l + 1)
        BY <2>4, <4>3, <4>4 DEF Latest
      <4> QED
        BY <1>5, <4>1, <4>2, <4>3, <4>5
    <3> QED
      BY <3>1, <3>2
  <2>9. \A j \in Nat : j > l + 1 /\ j <= Rings!Size(r) =>
            cells[Place(r, j)] = 0
    <3>1. \A j \in Nat : j > l + 1 => j > l
      OBVIOUS
    <3> QED
      BY <1>4, <2>2, <3>1 DEF Held
  <2>10. \A j \in Latest(r, Len(t)) :
             cells[Place(r, j)] = t[j] \/ Fills(q, r, Place(r, j), t[j])
    BY <1>5, <2>7
  <2>11. \A y \in Rings!Context, a \in Rings!Slots(r) : FillerAt(q, y, r, a) =>
             \E j \in Latest(r, Len(t)) : a = Place(r, j) /\ q[y].event = t[j]
    BY <1>5, <2>8
  <2>12. Held(r, cells, t, q)
    BY <1>5, <2>9, <2>10, <2>11 DEF Held
  <2> QED
    BY <1>3, <1>5, <2>1, <2>12
<1> QED
  BY <1>6, <1>7 DEF RingsHeld

(* A probe fills its slot.                                                 *)
LEMMA HeldFill ==
    ASSUME RingShape, RingsHeld, NEW x \in Rings!Context, Rings!Fill(x)
    PROVE  RingsHeld'
<1>1. PICK v \in RingProbe :
         /\ v = ring_probe[x] /\ v.pc = "fill" /\ v.at \in Rings!Slots(v.ring)
  BY DEF Rings!Fill, RingShape
<1>2. PICK r \in Rings!Rings, at \in Rings!Slots(v.ring), e \in Nat :
         r = v.ring /\ at = v.at /\ e = v.event
  BY <1>1 DEF RingProbe
<1>3. PICK p : p = ring_probe
  OBVIOUS
<1>4. PICK cells \in [Rings!Slots(r) -> Nat] : cells = ring[r]
  BY DEF RingShape
<1>5. PICK after : /\ after = ring'[r] /\ after[at] = e
                   /\ \A a \in Rings!Slots(r) \ {at} : after[a] = cells[a]
  <2>1. ring' = [ring EXCEPT ![r] = [cells EXCEPT ![at] = e]]
    BY <1>1, <1>2, <1>4 DEF Rings!Fill, RingShape
  <2>2. ring'[r] = [cells EXCEPT ![at] = e]
    BY <2>1 DEF RingShape
  <2> QED
    BY <1>2, <1>4, <2>2
<1>6. \A o \in Rings!Rings \ {r} : ring'[o] = ring[o]
  BY <1>1, <1>2 DEF Rings!Fill, RingShape
<1>7. PICK q : /\ q = ring_probe' /\ q[x].pc = "filled"
               /\ \A y \in Rings!Context \ {x} : q[y] = p[y]
  <2>1. [v EXCEPT !.pc = "filled"].pc = "filled"
    BY DEF RingProbe
  <2>2. ring_probe' = [p EXCEPT ![x] = [v EXCEPT !.pc = "filled"]]
        /\ DOMAIN p = Rings!Context
    BY <1>1, <1>3 DEF Rings!Fill, RingShape
  <2>3. ring_probe'[x] = [v EXCEPT !.pc = "filled"]
        /\ \A y \in Rings!Context \ {x} : ring_probe'[y] = p[y]
    BY <2>2
  <2> QED
    BY <2>1, <2>3
<1>8. order' = order /\ lapped' = lapped
  BY DEF Rings!Fill
<1>9. p[x] = v
  BY <1>1, <1>3
<1>10. ASSUME NEW o \in Rings!Rings \ {r}, ~lapped'[o]
       PROVE  Held(o, ring'[o], order'[o], ring_probe')
  <2>1. Held(o, ring[o], order[o], p)
    BY <1>3, <1>8, <1>10 DEF RingsHeld
  <2>2. \A y \in Rings!Context, a \in Rings!Slots(o) :
            /\ FillerAt(p, y, o, a) <=> FillerAt(q, y, o, a)
            /\ FillerAt(p, y, o, a) => p[y].event = q[y].event
    BY <1>2, <1>7, <1>9, <1>10 DEF FillerAt
  <2>3. Len(order[o]) \in Nat
    BY <1>10 DEF RingShape
  <2> QED
    BY <1>6, <1>7, <1>8, <1>10, <2>1, <2>2, <2>3, WindowPlaces, HeldStays
<1>11. ASSUME ~lapped'[r] PROVE Held(r, ring'[r], order'[r], ring_probe')
  <2>1. PICK s \in Seq(Nat \ {0}), l \in Nat : s = order[r] /\ l = Len(s)
    BY OrderOf
  <2>2. Held(r, cells, s, p)
    BY <1>3, <1>4, <1>8, <1>11, <2>1 DEF RingsHeld
  <2>3. PICK N \in Nat \ {0} : N = Rings!Size(r)
    BY RingSizes
  <2>4. FillerAt(p, x, r, at) /\ p[x].event = e /\ at \in Rings!Slots(r)
    BY <1>1, <1>2, <1>9 DEF FillerAt
  <2>5. PICK w \in Latest(r, l) : at = Place(r, w) /\ e = s[w]
    BY <2>1, <2>2, <2>4 DEF Held
  <2>6. w \in 1 .. l /\ w > l - N
    BY <2>3 DEF Latest
  <2>7. \A y \in Rings!Context, a \in Rings!Slots(r) :
            /\ FillerAt(q, y, r, a) =>
                  FillerAt(p, y, r, a) /\ q[y].event = p[y].event
            /\ y # x /\ FillerAt(p, y, r, a) =>
                  FillerAt(q, y, r, a) /\ q[y].event = p[y].event
    BY <1>7 DEF FillerAt
  <2>8. ASSUME NEW j \in Latest(r, l)
        PROVE  after[Place(r, j)] = s[j] \/ Fills(q, r, Place(r, j), s[j])
    <3>1. j \in 1 .. l /\ j > l - N
      BY <2>3 DEF Latest
    <3>2. PICK a \in Rings!Slots(r) : a = Place(r, j)
      BY <2>1, WindowPlaces
    <3>3. CASE a = at
      <4>1. j \in Nat \ {0} /\ w \in Nat \ {0} /\ j - w < N /\ w - j < N
        BY <2>6, <3>1
      <4>2. j = w
        BY <2>3, <2>5, <3>2, <3>3, <4>1, PlacesDiffer
      <4> QED
        BY <1>5, <2>5, <3>2, <3>3, <4>2
    <3>4. CASE a # at
      <4>1. cells[a] = s[j] \/ Fills(p, r, a, s[j])
        BY <2>1, <2>2, <3>2 DEF Held
      <4>2. ASSUME Fills(p, r, a, s[j]) PROVE Fills(q, r, a, s[j])
        <5>1. PICK y \in Rings!Context :
                 FillerAt(p, y, r, a) /\ p[y].event = s[j]
          BY <4>2 DEF Fills
        <5>2. y # x
          BY <2>4, <3>4, <5>1 DEF FillerAt
        <5> QED
          BY <2>7, <5>1, <5>2 DEF Fills
      <4> QED
        BY <1>5, <3>2, <3>4, <4>1, <4>2
    <3> QED
      BY <3>3, <3>4
  <2>9. \A y \in Rings!Context, a \in Rings!Slots(r) : FillerAt(q, y, r, a) =>
            \E j \in Latest(r, l) : a = Place(r, j) /\ q[y].event = s[j]
    BY <2>1, <2>2, <2>7 DEF Held
  <2>10. ASSUME NEW j \in Nat, j > l, j <= Rings!Size(r)
         PROVE  after[Place(r, j)] = 0
    <3>1. j \in Nat \ {0} /\ w \in Nat \ {0} /\ j - w < N /\ w - j < N /\ j # w
      BY <2>3, <2>6, <2>10
    <3>2. Place(r, j) # at
      BY <2>3, <2>5, <3>1, PlacesDiffer
    <3>3. Place(r, j) \in Rings!Slots(r)
      BY <3>1, PlaceType
    <3>4. cells[Place(r, j)] = 0
      BY <2>1, <2>2, <2>10 DEF Held
    <3> QED
      BY <1>5, <3>2, <3>3, <3>4
  <2>11. Held(r, after, s, q)
    BY <2>1, <2>8, <2>9, <2>10 DEF Held
  <2> QED
    BY <1>5, <1>7, <1>8, <2>1, <2>11
<1> QED
  BY <1>10, <1>11 DEF RingsHeld

(* Nor do the other steps change what rings hold.                          *)
LEMMA HeldKept ==
    ASSUME RingsHeld, RingShape, UNCHANGED <<ring, order, lapped>>,
           \A y \in Rings!Context :
               ring_probe'[y] = ring_probe[y]
               \/ (ring_probe[y].pc # "fill" /\ ring_probe'[y].pc # "fill")
    PROVE  RingsHeld'
<1> SUFFICES ASSUME NEW r \in Rings!Rings, ~lapped'[r]
             PROVE  Held(r, ring'[r], order'[r], ring_probe')
  BY DEF RingsHeld
<1>1. Held(r, ring[r], order[r], ring_probe)
  BY DEF RingsHeld
<1>2. PICK p, q : p = ring_probe /\ q = ring_probe'
  OBVIOUS
<1>3. \A y \in Rings!Context, a \in Rings!Slots(r) :
          /\ FillerAt(p, y, r, a) <=> FillerAt(q, y, r, a)
          /\ FillerAt(p, y, r, a) => p[y].event = q[y].event
  BY <1>2 DEF FillerAt
<1>4. Len(order[r]) \in Nat
  BY DEF RingShape
<1> QED
  BY <1>1, <1>2, <1>3, <1>4, WindowPlaces, HeldStays

LEMMA HeldNext == RingShape /\ RingsHeld /\ [Rings!Next]_(Rings!vars) => RingsHeld'
<1> SUFFICES ASSUME RingShape, RingsHeld, [Rings!Next]_(Rings!vars)
             PROVE  RingsHeld'
  OBVIOUS
<1>1. ASSUME NEW x \in Rings!Context, NEW k \in Rings!Kind, Rings!Fire(x, k)
      PROVE  RingsHeld'
  <2>1. PICK e \in Nat \ {0} : e = ring_events'
    BY <1>1 DEF Rings!Fire, RingShape
  <2>2. /\ k \in Rings!Rings /\ Rings!TakeSlot(x, k, k, e)
        /\ ring_probe[x].pc # "fill" /\ UNCHANGED ring
    BY <1>1, <2>1 DEF Rings!Fire, Rings!Rings
  <2> QED
    BY <2>2, HeldTaken
<1>2. ASSUME NEW x \in Rings!Context, Rings!Tokenize(x) PROVE RingsHeld'
  <2>1. PICK p \in RingProbe :
           p = ring_probe[x] /\ p.pc = "filled" /\ p.event # 0
    BY <1>2 DEF Rings!Tokenize, RingShape
  <2>2. /\ "token" \in Rings!Rings /\ p.kind \in Rings!Kind
        /\ p.event \in Nat \ {0}
        /\ Rings!TakeSlot(x, "token", p.kind, p.event)
        /\ ring_probe[x].pc # "fill" /\ UNCHANGED ring
    BY <1>2, <2>1 DEF Rings!Tokenize, Rings!Rings, RingProbe
  <2> QED
    BY <2>2, HeldTaken
<1>3. ASSUME NEW x \in Rings!Context, Rings!CountToken(x) PROVE RingsHeld'
  <2>1. PICK new \in RingProbe : new = Rings!NoProbe /\ new.pc = "idle"
    BY NoRingProbe
  <2>2. /\ ring_probe[x].pc # "fill"
        /\ ring_probe' = [ring_probe EXCEPT ![x] = new]
        /\ UNCHANGED <<ring, order, lapped>>
    BY <1>3, <2>1 DEF Rings!CountToken
  <2>3. ring_probe'[x].pc # "fill"
        /\ \A y \in Rings!Context \ {x} : ring_probe'[y] = ring_probe[y]
    BY <2>1, <2>2 DEF RingShape
  <2> QED
    BY <2>2, <2>3, HeldKept
<1>4. ASSUME UNCHANGED <<ring, order, lapped, ring_probe>> PROVE RingsHeld'
  BY <1>4, HeldKept
<1>5. CASE UNCHANGED Rings!vars
  BY <1>4, <1>5 DEF Rings!vars, Rings!rings
<1>6. CASE Rings!Next
  <2>1. ASSUME NEW x \in Rings!Context, Rings!ProbeStep(x) PROVE RingsHeld'
    BY <1>2, <1>3, <2>1, HeldFill DEF Rings!ProbeStep
  <2>2. ASSUME NEW request \in Requests,
               Rings!ReadStart(request[1], request[2])
        PROVE  RingsHeld'
    BY <1>4, <2>2, ReadStarts
  <2>3. ASSUME \/ Rings!ReadTotal \/ Rings!ReadEntry \/ Rings!ReadEnd
               \/ Rings!ReadReturn
        PROVE  RingsHeld'
    <3>1. UNCHANGED <<ring, order, lapped, ring_probe>>
      BY <2>3 DEF Rings!ReadTotal, Rings!ReadEntry, Rings!ReadEnd,
                  Rings!ReadReturn, Rings!rings
    <3> QED
      BY <1>4, <3>1
  <2> QED
    BY <1>1, <1>6, <2>1, <2>2, <2>3 DEF Rings!Next
<1> QED
  BY <1>5, <1>6

------------------------------------------------------------------------------
(* Every token taken has been counted, or its probe is still to do that.   *)
Uncounted(p) == {x \in Rings!Context : p[x].pc # "idle" /\ p[x].ring = "token"}
Counted ==
    ring_total + Cardinality(Uncounted(ring_probe)) = Len(order["token"])

LEMMA SensingFiniteSet ==
    ASSUME NEW S, Rings!IsFiniteSet(S) PROVE IsFiniteSet(S)
BY DEF Rings!IsFiniteSet, IsFiniteSet

LEMMA ContextsFinite == IsFiniteSet(Rings!Context)
<1>1. IsFiniteSet(Cpus)
  BY RingsAreAssumption, SensingFiniteSet DEF Rings!RingsAssumption
<1>2. IsFiniteSet({"task", "irq"})
  <2>1. IsFiniteSet({} \cup {"task"})
    BY FS_EmptySet, FS_AddElement
  <2>2. IsFiniteSet(({} \cup {"task"}) \cup {"irq"})
    BY <2>1, FS_AddElement
  <2>3. ({} \cup {"task"}) \cup {"irq"} = {"task", "irq"}
    OBVIOUS
  <2> QED
    BY <2>2, <2>3
<1> QED
  BY <1>1, <1>2, FS_Product DEF Rings!Context

LEMMA UncountedFinite ==
    ASSUME NEW p
    PROVE  IsFiniteSet(Uncounted(p)) /\ Cardinality(Uncounted(p)) \in Nat
<1>1. Uncounted(p) \subseteq Rings!Context
  BY DEF Uncounted
<1> QED
  BY <1>1, ContextsFinite, FS_Subset, FS_CardinalityType

LEMMA CountedInit == Rings!Init => Counted
<1> SUFFICES ASSUME Rings!Init PROVE Counted
  OBVIOUS
<1>1. \A x \in Rings!Context : ring_probe[x].pc = "idle"
  BY DEF Rings!Init, Rings!NoProbe
<1>2. Uncounted(ring_probe) = {}
  BY <1>1 DEF Uncounted
<1>3. Cardinality(Uncounted(ring_probe)) = 0
  BY <1>2, FS_EmptySet
<1>4. ring_total = 0 /\ order["token"] = << >>
  BY DEF Rings!Init, Rings!Rings
<1>5. Len(order["token"]) = 0
  BY <1>4
<1> QED
  BY <1>3, <1>4, <1>5 DEF Counted

LEMMA CountedTaken ==
    ASSUME RingShape, Counted, NEW x \in Rings!Context, NEW r \in Rings!Rings,
           NEW k \in Rings!Kind, NEW e \in Nat \ {0}, Rings!TakeSlot(x, r, k, e),
           x \notin Uncounted(ring_probe), UNCHANGED ring_total
    PROVE  Counted'
<1>1. PICK at \in Rings!Slots(r) :
         /\ order' = [order EXCEPT ![r] = Append(@, e)]
         /\ ring_probe' = [ring_probe EXCEPT ![x] = Filling(x, r, k, e, at)]
  BY Taken
<1>2. PICK p, q : p = ring_probe /\ q = ring_probe'
  OBVIOUS
<1>3. /\ q[x].pc = "fill" /\ q[x].ring = r
      /\ \A y \in Rings!Context \ {x} : q[y] = p[y]
  <2>1. Filling(x, r, k, e, at).pc = "fill" /\ Filling(x, r, k, e, at).ring = r
    BY DEF Filling
  <2>2. DOMAIN p = Rings!Context
    BY <1>2 DEF RingShape
  <2>3. q[x] = Filling(x, r, k, e, at)
        /\ \A y \in Rings!Context \ {x} : q[y] = p[y]
    BY <1>1, <1>2, <2>2
  <2> QED
    BY <2>1, <2>3
<1>4. "token" \in Rings!Rings
  BY DEF Rings!Rings
<1>5. CASE r # "token"
  <2>1. Uncounted(q) = Uncounted(p)
    BY <1>2, <1>3, <1>5 DEF Uncounted
  <2>2. order'["token"] = order["token"]
    BY <1>1, <1>4, <1>5 DEF RingShape
  <2> QED
    BY <1>2, <2>1, <2>2 DEF Counted
<1>6. CASE r = "token"
  <2>1. Uncounted(q) = Uncounted(p) \cup {x} /\ x \notin Uncounted(p)
    BY <1>2, <1>3, <1>6 DEF Uncounted
  <2>2. PICK n \in Nat : n = Cardinality(Uncounted(p))
                         /\ Cardinality(Uncounted(q)) = n + 1
    <3>1. IsFiniteSet(Uncounted(p)) /\ Cardinality(Uncounted(p)) \in Nat
      BY UncountedFinite
    <3>2. Cardinality(Uncounted(p) \cup {x}) = Cardinality(Uncounted(p)) + 1
      BY <2>1, <3>1, FS_AddElement
    <3> QED
      BY <2>1, <3>1, <3>2
  <2>3. PICK s \in Seq(Nat \ {0}) : s = order["token"]
    BY <1>4 DEF RingShape
  <2>4. order'["token"] = Append(s, e)
    BY <1>1, <1>4, <1>6, <2>3 DEF RingShape
  <2>5. Len(Append(s, e)) = Len(s) + 1 /\ Len(s) \in Nat
    BY <2>3
  <2>6. ring_total \in Nat /\ ring_total + n = Len(s)
    BY <1>2, <2>2, <2>3 DEF Counted, RingShape
  <2> QED
    BY <1>2, <2>2, <2>4, <2>5, <2>6 DEF Counted
<1> QED
  BY <1>5, <1>6

LEMMA CountedCount ==
    ASSUME RingShape, Counted, NEW x \in Rings!Context, Rings!CountToken(x)
    PROVE  Counted'
<1>1. PICK new \in RingProbe : new = Rings!NoProbe /\ new.pc = "idle"
  BY NoRingProbe
<1>2. PICK p, q : p = ring_probe /\ q = ring_probe'
  OBVIOUS
<1>3. /\ p[x].pc = "filled" /\ p[x].ring = "token"
      /\ q = [p EXCEPT ![x] = new] /\ DOMAIN p = Rings!Context
      /\ ring_total' = ring_total + 1 /\ order' = order
  BY <1>1, <1>2 DEF Rings!CountToken, RingShape
<1>4. q[x].pc = "idle" /\ \A y \in Rings!Context \ {x} : q[y] = p[y]
  BY <1>1, <1>3
<1>5. Uncounted(q) = Uncounted(p) \ {x} /\ x \in Uncounted(p)
  BY <1>3, <1>4 DEF Uncounted
<1>6. PICK n \in Nat : n = Cardinality(Uncounted(p))
                       /\ Cardinality(Uncounted(q)) = n - 1
  <2>1. IsFiniteSet(Uncounted(p)) /\ Cardinality(Uncounted(p)) \in Nat
    BY UncountedFinite
  <2>2. Cardinality(Uncounted(p) \ {x}) = Cardinality(Uncounted(p)) - 1
    BY <1>5, <2>1, FS_RemoveElement
  <2> QED
    BY <1>5, <2>1, <2>2
<1>7. ring_total \in Nat /\ ring_total + n = Len(order["token"])
  BY <1>2, <1>6 DEF Counted, RingShape
<1> QED
  BY <1>2, <1>3, <1>6, <1>7 DEF Counted

LEMMA CountedKept ==
    ASSUME Counted, UNCHANGED <<ring_total, order>>,
           \A y \in Rings!Context :
               /\ ring_probe'[y].pc # "idle" <=> ring_probe[y].pc # "idle"
               /\ ring_probe'[y].ring = ring_probe[y].ring
    PROVE  Counted'
<1>1. PICK p, q : p = ring_probe /\ q = ring_probe'
  OBVIOUS
<1>2. Uncounted(q) = Uncounted(p)
  BY <1>1 DEF Uncounted
<1> QED
  BY <1>1, <1>2 DEF Counted

LEMMA CountedNext == RingShape /\ Counted /\ [Rings!Next]_(Rings!vars) => Counted'
<1> SUFFICES ASSUME RingShape, Counted, [Rings!Next]_(Rings!vars)
             PROVE  Counted'
  OBVIOUS
<1>1. ASSUME NEW x \in Rings!Context, NEW k \in Rings!Kind, Rings!Fire(x, k)
      PROVE  Counted'
  <2>1. PICK e \in Nat \ {0} : e = ring_events'
    BY <1>1 DEF Rings!Fire, RingShape
  <2>2. /\ k \in Rings!Rings /\ Rings!TakeSlot(x, k, k, e)
        /\ ring_probe[x].pc = "idle" /\ UNCHANGED ring_total
    BY <1>1, <2>1 DEF Rings!Fire, Rings!Rings
  <2>3. x \notin Uncounted(ring_probe)
    BY <2>2 DEF Uncounted
  <2> QED
    BY <2>2, <2>3, CountedTaken
<1>2. ASSUME NEW x \in Rings!Context, Rings!Tokenize(x) PROVE Counted'
  <2>1. PICK p \in RingProbe :
           p = ring_probe[x] /\ p.pc = "filled" /\ p.event # 0
    BY <1>2 DEF Rings!Tokenize, RingShape
  <2>2. /\ "token" \in Rings!Rings /\ p.kind \in Rings!Kind
        /\ p.event \in Nat \ {0}
        /\ Rings!TakeSlot(x, "token", p.kind, p.event)
        /\ ring_probe[x].ring # "token" /\ UNCHANGED ring_total
    BY <1>2, <2>1 DEF Rings!Tokenize, Rings!Rings, RingProbe
  <2>3. x \notin Uncounted(ring_probe)
    BY <2>2 DEF Uncounted
  <2> QED
    BY <2>2, <2>3, CountedTaken
<1>3. ASSUME NEW x \in Rings!Context, Rings!Fill(x) PROVE Counted'
  <2>1. PICK v \in RingProbe : v = ring_probe[x] /\ v.pc = "fill"
    BY <1>3 DEF Rings!Fill, RingShape
  <2>2. PICK new : /\ new = [v EXCEPT !.pc = "filled"] /\ new.pc = "filled"
                   /\ new.ring = v.ring
    <3>1. /\ [v EXCEPT !.pc = "filled"].pc = "filled"
          /\ [v EXCEPT !.pc = "filled"].ring = v.ring
      BY DEF RingProbe
    <3> QED
      BY <3>1
  <2>3. /\ ring_probe' = [ring_probe EXCEPT ![x] = new]
        /\ UNCHANGED <<ring_total, order>>
    BY <1>3, <2>1, <2>2 DEF Rings!Fill, RingShape
  <2>4. ring_probe'[x] = new
        /\ \A y \in Rings!Context \ {x} : ring_probe'[y] = ring_probe[y]
    BY <2>3 DEF RingShape
  <2> QED
    BY <2>1, <2>2, <2>3, <2>4, CountedKept
<1>4. ASSUME UNCHANGED <<ring_total, order, ring_probe>> PROVE Counted'
  BY <1>4, CountedKept
<1>5. CASE UNCHANGED Rings!vars
  BY <1>4, <1>5 DEF Rings!vars, Rings!rings
<1>6. CASE Rings!Next
  <2>1. ASSUME NEW x \in Rings!Context, Rings!ProbeStep(x) PROVE Counted'
    BY <1>2, <1>3, <2>1, CountedCount DEF Rings!ProbeStep
  <2>2. ASSUME NEW request \in Requests,
               Rings!ReadStart(request[1], request[2])
        PROVE  Counted'
    BY <1>4, <2>2, ReadStarts
  <2>3. ASSUME \/ Rings!ReadTotal \/ Rings!ReadEntry \/ Rings!ReadEnd
               \/ Rings!ReadReturn
        PROVE  Counted'
    <3>1. UNCHANGED <<ring_total, order, ring_probe>>
      BY <2>3 DEF Rings!ReadTotal, Rings!ReadEntry, Rings!ReadEnd,
                  Rings!ReadReturn, Rings!rings
    <3> QED
      BY <1>4, <3>1
  <2> QED
    BY <1>1, <1>6, <2>1, <2>2, <2>3 DEF Rings!Next
<1> QED
  BY <1>5, <1>6

------------------------------------------------------------------------------
(* What a report has after i of its n entries, the newest of which is the  *)
(* t-th event of s: the events from First(t, n) on, so many as Found says. *)
First(t, n) == IF t > n THEN t - n ELSE 0
Found(t, n, i) == IF t - n + i > First(t, n) THEN t - n + i - First(t, n) ELSE 0
Printed(s, t, n, i, q) ==
    /\ Len(q) = Found(t, n, i)
    /\ \A j \in 1 .. Len(q) : q[j] = s[First(t, n) + j]

LEMMA PrintedStart ==
    ASSUME NEW s, NEW t \in Int, NEW n \in Nat
    PROVE  Printed(s, t, n, 0, << >>)
<1>1. Found(t, n, 0) = 0
  BY DEF Found, First
<1>2. Len(<< >>) = 0
  OBVIOUS
<1> QED
  BY <1>1, <1>2 DEF Printed

LEMMA Appended ==
    ASSUME NEW q \in Seq(Nat), NEW e \in Nat
    PROVE  /\ Append(q, e) \in Seq(Nat)
           /\ Len(Append(q, e)) = Len(q) + 1
           /\ Append(q, e)[Len(q) + 1] = e
           /\ \A j \in 1 .. Len(q) : Append(q, e)[j] = q[j]
<1>1. Append(q, e) \in Seq(Nat) /\ Len(Append(q, e)) = Len(q) + 1
  OBVIOUS
<1>2. Append(q, e)[Len(q) + 1] = e
  OBVIOUS
<1>3. ASSUME NEW j \in 1 .. Len(q) PROVE Append(q, e)[j] = q[j]
  OBVIOUS
<1> QED
  BY <1>1, <1>2, <1>3

LEMMA PrintedOn ==
    ASSUME NEW s, NEW t \in Int, NEW n \in Nat, NEW i \in Nat,
           NEW q \in Seq(Nat), Printed(s, t, n, i, q), i < n,
           NEW e \in Nat
    PROVE  /\ t - n + i + 1 < 1 => Printed(s, t, n, i + 1, q)
           /\ t - n + i + 1 >= 1 /\ e = s[t - n + i + 1] =>
                 Printed(s, t, n, i + 1, Append(q, e))
<1>1. PICK f \in Nat : f = First(t, n) /\ (f = 0 \/ f = t - n) /\ f >= t - n
  <2>1. /\ First(t, n) \in Nat /\ First(t, n) >= t - n
        /\ First(t, n) = 0 \/ First(t, n) = t - n
    BY DEF First
  <2> QED
    BY <2>1
<1>2. PICK m \in Nat : m = Len(q)
  OBVIOUS
<1>3. PICK d \in Int : d = t - n /\ d + i = t - n + i /\ d + i - f = t - n + i - f
                      /\ (f = 0 \/ f = d) /\ f >= d
                      /\ d + i + 1 = t - n + i + 1
                      /\ d + (i + 1) = t - n + (i + 1)
                      /\ d + (i + 1) - f = t - n + (i + 1) - f
  BY <1>1
<1>6. m = (IF d + i > f THEN d + i - f ELSE 0)
  BY <1>1, <1>2, <1>3 DEF Printed, Found
<1>4. ASSUME t - n + i + 1 < 1 PROVE Printed(s, t, n, i + 1, q)
  <2>1. Found(t, n, i + 1) = 0 /\ m = 0
    BY <1>1, <1>3, <1>4, <1>6 DEF Found
  <2> QED
    BY <1>2, <2>1 DEF Printed
<1>5. ASSUME t - n + i + 1 >= 1, e = s[t - n + i + 1]
      PROVE  Printed(s, t, n, i + 1, Append(q, e))
  <2>1. f + (m + 1) = t - n + i + 1 /\ Found(t, n, i + 1) = m + 1
    <3>1. m = d + i - f
      BY <1>3, <1>5, <1>6
    <3>2. d + (i + 1) > f /\ d + (i + 1) - f = m + 1
      BY <1>3, <1>5, <3>1
    <3>3. Found(t, n, i + 1) = m + 1
      BY <1>1, <1>3, <3>2 DEF Found
    <3> QED
      BY <1>3, <3>1, <3>3
  <2>2. PICK a : /\ a = Append(q, e) /\ Len(a) = m + 1 /\ a[m + 1] = e
                 /\ \A j \in 1 .. m : a[j] = q[j]
    <3>1. PICK a : a = Append(q, e)
      OBVIOUS
    <3>2. /\ Len(a) = Len(q) + 1 /\ a[Len(q) + 1] = e
          /\ \A j \in 1 .. Len(q) : a[j] = q[j]
      BY <3>1, Appended
    <3> QED
      BY <1>2, <3>1, <3>2
  <2>3. ASSUME NEW j \in 1 .. m + 1 PROVE a[j] = s[f + j]
    <3>1. CASE j = m + 1
      BY <1>5, <2>1, <2>2, <3>1
    <3>2. CASE j # m + 1
      <4>1. j \in 1 .. m
        BY <3>2
      <4> QED
        BY <1>1, <1>2, <2>2, <4>1 DEF Printed
    <3> QED
      BY <3>1, <3>2
  <2> QED
    BY <1>1, <2>1, <2>2, <2>3 DEF Printed
<1> QED
  BY <1>4, <1>5

(* Where the index of an entry lies.                                       *)
LEMMA IndexBounds ==
    ASSUME NEW N \in Nat \ {0}, NEW l \in Nat, NEW n \in Nat, NEW i \in Nat,
           NEW o \in Nat, o <= 1, n + 1 - o <= N, i < n
    PROVE  \E j \in Int :
              /\ j = (l - 1 + o) - n + i + 1
              /\ j >= 1 => j \in 1 .. l /\ j > l - N
              /\ j < 1 => j + N \in Nat /\ j + N > l /\ j + N <= N
<1>1. PICK j \in Int : j = (l - 1 + o) - n + i + 1
  OBVIOUS
<1>2. j <= l /\ j > l - N
  BY <1>1
<1> QED
  BY <1>1, <1>2

LEMMA IndexIn ==
    ASSUME NEW r \in Rings!Rings, NEW l \in Nat, NEW n \in Nat, NEW i \in Nat,
           Narrow(r, n), i < n
    PROVE  \E j \in Int :
              /\ j = Index(r, l, n, i)
              /\ j >= 1 => j \in Latest(r, l)
              /\ j < 1 => /\ j + Rings!Size(r) \in Nat
                          /\ j + Rings!Size(r) > l
                          /\ j + Rings!Size(r) <= Rings!Size(r)
<1>0. PICK N \in Nat \ {0} : N = Rings!Size(r)
  BY RingSizes
<1>1. PICK o \in Nat : o = Off(r) /\ o <= 1
  BY RingSizes
<1>2. n + 1 - o <= N
  BY <1>0, <1>1 DEF Narrow
<1>3. Index(r, l, n, i) = (l - 1 + o) - n + i + 1
  BY <1>1 DEF Index, Newer
<1>4. PICK j \in Int :
         /\ j = (l - 1 + o) - n + i + 1
         /\ j >= 1 => j \in 1 .. l /\ j > l - N
         /\ j < 1 => j + N \in Nat /\ j + N > l /\ j + N <= N
  BY <1>1, <1>2, IndexBounds
<1> QED
  BY <1>0, <1>3, <1>4 DEF Latest

(* While no probe runs, what a ring holds is no more than its events.      *)
LEMMA HereIs ==
    ASSUME RingShape, NEW r \in Rings!Rings, NEW s \in Seq(Nat \ {0}),
           s = order[r], NEW l \in Nat, l = Len(s),
           Held(r, ring[r], s, ring_probe), Rings!Quiet,
           NEW n \in Nat, NEW i \in Nat, n \in 1 .. Rings!Size(r), i < n,
           Narrow(r, n), NEW at, at = (Rings!StartOf(r, n) + i) % Rings!Size(r)
    PROVE  IF Index(r, l, n, i) >= 1
           THEN ring[r][at] = s[Index(r, l, n, i)] /\ ring[r][at] # 0
           ELSE ring[r][at] = 0
<1>1. PICK N \in Nat \ {0} : N = Rings!Size(r)
  BY RingSizes
<1>2. PICK j \in Int :
         /\ j = Index(r, l, n, i)
         /\ j >= 1 => j \in Latest(r, l)
         /\ j < 1 => /\ j + Rings!Size(r) \in Nat
                     /\ j + Rings!Size(r) > l
                     /\ j + Rings!Size(r) <= Rings!Size(r)
  BY IndexIn
<1>3. head[r] = l - Off(r)
  BY DEF RingShape
<1>4. i \in 0 .. n - 1
  OBVIOUS
<1>5. CASE j >= 1
  <2>1. at = Place(r, j)
    BY <1>2, <1>3, <1>5, <1>4, Walked
  <2>2. j \in Latest(r, l) /\ j \in 1 .. l
    BY <1>2, <1>5 DEF Latest
  <2>3. ~Fills(ring_probe, r, at, s[j])
    BY DEF Fills, FillerAt, Rings!Quiet
  <2>4. ring[r][at] = s[j]
    BY <2>1, <2>2, <2>3 DEF Held
  <2>5. s[j] \in Nat \ {0}
    BY <2>2
  <2> QED
    BY <1>2, <1>5, <2>4, <2>5
<1>6. CASE j < 1
  <2>1. at = Place(r, j + N)
    BY <1>1, <1>2, <1>3, <1>6, <1>4, Walked
  <2>2. j + N \in Nat /\ j + N > l /\ j + N <= N
    BY <1>1, <1>2, <1>6
  <2>3. ring[r][at] = 0
    BY <1>1, <2>1, <2>2 DEF Held
  <2> QED
    BY <1>2, <1>6, <2>3
<1> QED
  BY <1>5, <1>6

(* A report that no probe has disturbed so far is walking along the newest *)
(* events of its ring, and has printed those it has been at. Of a whole    *)
(* ring of raw events nothing is said.                                     *)
Calm ==
    ring_reader.pc # "off" /\ ring_reader.quiet =>
        LET r == ring_reader.ring
            s == order[r]
        IN  /\ Rings!Quiet
            /\ ring_reader.count \in 1 .. Rings!Size(r)
            /\ ring_reader.start = Rings!StartOf(r, ring_reader.count)
            /\ ring_reader.i <= ring_reader.count
            /\ r = "token" /\ ring_reader.pc # "total" =>
                  ring_reader.total = Len(s)
            /\ ~lapped[r] /\ Narrow(r, ring_reader.count) =>
                  Printed(s, Newer(r, Len(s)), ring_reader.count,
                          ring_reader.i, ring_report)

LEMMA CalmInit == Rings!Init => Calm
BY DEF Rings!Init, Rings!NoRead, Calm

(* No report is undisturbed while a probe moves.                           *)
LEMMA CalmProbe ==
    ASSUME RingShape, Calm, NEW x \in Rings!Context,
           \/ \E k \in Rings!Kind : Rings!Fire(x, k)
           \/ Rings!ProbeStep(x)
    PROVE  Calm'
<1>1. PICK rd \in RingReader : rd = ring_reader
  BY DEF RingShape
<1>2. CASE \E k \in Rings!Kind : Rings!Fire(x, k)
  <2>1. ring_reader' = [rd EXCEPT !.quiet = FALSE]
    BY <1>1, <1>2 DEF Rings!Fire
  <2>2. ring_reader'.quiet = FALSE
    BY <2>1 DEF RingReader
  <2> QED
    BY <2>2 DEF Calm
<1>3. CASE Rings!ProbeStep(x)
  <2>1. ring_probe[x].pc # "idle" /\ ring_reader' = ring_reader
    BY <1>3 DEF Rings!ProbeStep, Rings!Fill, Rings!Tokenize, Rings!CountToken,
                Rings!reading
  <2>2. ~(ring_reader.pc # "off" /\ ring_reader.quiet)
    BY <2>1 DEF Calm, Rings!Quiet
  <2> QED
    BY <2>1, <2>2 DEF Calm
<1> QED
  BY <1>2, <1>3

(* While none does, all tokens are counted.                                *)
LEMMA QuietTotal ==
    ASSUME Counted, RingShape, Rings!Quiet
    PROVE  ring_total = Len(order["token"])
<1>1. Uncounted(ring_probe) = {}
  BY DEF Uncounted, Rings!Quiet
<1>2. Cardinality(Uncounted(ring_probe)) = 0
  BY <1>1, FS_EmptySet
<1> QED
  BY <1>2 DEF Counted, RingShape

LEMMA CalmReadStart ==
    ASSUME RingShape, NEW request \in Requests,
           Rings!ReadStart(request[1], request[2])
    PROVE  Calm'
<1>1. PICK r \in Rings!Rings, quiet \in BOOLEAN :
         \E n \in 1 .. Rings!Size(r) :
           /\ ring_reader' = Asked(r, n, quiet)
           /\ quiet = Rings!Quiet
           /\ ring_report' = << >>
           /\ UNCHANGED <<head, ring, ring_total, order, lapped, ring_probe,
                          ring_events>>
  BY ReadStarts
<1>2. PICK n \in 1 .. Rings!Size(r) : ring_reader' = Asked(r, n, quiet)
  BY <1>1
<1>3. PICK rd \in RingReader :
         /\ rd = ring_reader' /\ rd.ring = r /\ rd.count = n /\ rd.i = 0
         /\ rd.start = Rings!StartOf(r, n)
         /\ rd.pc = (IF r = "token" THEN "total" ELSE "look")
         /\ rd.quiet => Rings!Quiet
  BY <1>1, <1>2, AskedType
<1>4. n \in Nat /\ 0 <= n
  BY RingSizes
<1>5. Len(order[r]) \in Nat
  BY DEF RingShape
<1>6. Newer(r, Len(order[r])) \in Int
  BY <1>5, RingSizes DEF Newer
<1>7. Printed(order[r], Newer(r, Len(order[r])), n, 0, << >>)
  BY <1>4, <1>6, PrintedStart
<1>8. /\ rd.quiet => Rings!Quiet'
      /\ rd.start = Rings!StartOf(r, n)'
  BY <1>1, <1>3 DEF Rings!Quiet, Rings!StartOf
<1>9. r = "token" => rd.pc = "total"
  BY <1>3
<1> QED
  BY <1>1, <1>3, <1>4, <1>7, <1>8, <1>9 DEF Calm

LEMMA CalmReadTotal ==
    ASSUME RingShape, Counted, Calm, Rings!ReadTotal
    PROVE  Calm'
<1>1. PICK rd \in RingReader : rd = ring_reader /\ rd.pc = "total"
  BY DEF RingShape, Rings!ReadTotal
<1>2. PICK pc \in {"done", "look"} :
         pc = (IF ring_total = 0 THEN "done" ELSE "look")
  OBVIOUS
<1>3. /\ ring_reader' = [rd EXCEPT !.pc = pc, !.total = ring_total]
      /\ UNCHANGED <<head, ring, ring_total, order, lapped, ring_probe,
                     ring_report>>
  BY <1>1, <1>2 DEF Rings!ReadTotal, Rings!rings
<1>4. PICK new : /\ new = ring_reader' /\ new.total = ring_total
                 /\ new.ring = rd.ring /\ new.count = rd.count
                 /\ new.start = rd.start /\ new.i = rd.i
                 /\ new.quiet = rd.quiet
  <2>1. /\ [rd EXCEPT !.pc = pc, !.total = ring_total].total = ring_total
        /\ [rd EXCEPT !.pc = pc, !.total = ring_total].ring = rd.ring
        /\ [rd EXCEPT !.pc = pc, !.total = ring_total].count = rd.count
        /\ [rd EXCEPT !.pc = pc, !.total = ring_total].start = rd.start
        /\ [rd EXCEPT !.pc = pc, !.total = ring_total].i = rd.i
        /\ [rd EXCEPT !.pc = pc, !.total = ring_total].quiet = rd.quiet
    BY DEF RingReader
  <2> QED
    BY <1>3, <2>1
<1>5. SUFFICES ASSUME new.quiet PROVE Calm'
  BY <1>4 DEF Calm
<1>6. /\ Rings!Quiet
      /\ rd.count \in 1 .. Rings!Size(rd.ring)
      /\ rd.start = Rings!StartOf(rd.ring, rd.count)
      /\ rd.i <= rd.count
      /\ ~lapped[rd.ring] /\ Narrow(rd.ring, rd.count) =>
            Printed(order[rd.ring], Newer(rd.ring, Len(order[rd.ring])),
                    rd.count, rd.i, ring_report)
  BY <1>1, <1>4, <1>5 DEF Calm
<1>7. /\ Rings!Quiet'
      /\ rd.start = Rings!StartOf(rd.ring, rd.count)'
  BY <1>3, <1>6 DEF Rings!Quiet, Rings!StartOf
<1>8. ring_total = Len(order["token"])
  BY <1>6, QuietTotal
<1> QED
  BY <1>3, <1>4, <1>6, <1>7, <1>8 DEF Calm

LEMMA CalmReadEntry ==
    ASSUME RingShape, RingsHeld, Calm, Rings!ReadEntry
    PROVE  Calm'
<1>1. PICK rd \in RingReader : rd = ring_reader /\ rd.pc = "look"
  BY DEF RingShape, Rings!ReadEntry
<1>2. PICK r \in Rings!Rings, n \in Nat, i \in Nat :
         r = rd.ring /\ n = rd.count /\ i = rd.i
  BY DEF RingReader
<1>3. /\ ring_reader' = [rd EXCEPT !.i = @ + 1] /\ i < n
      /\ ring_report' = IF Rings!Here = 0 THEN ring_report
                        ELSE Append(ring_report, Rings!Here)
      /\ UNCHANGED <<head, ring, ring_total, order, lapped, ring_probe>>
  BY <1>1, <1>2 DEF Rings!ReadEntry, Rings!rings, Rings!Empty
<1>4. PICK new : /\ new = ring_reader' /\ new.total = rd.total
                 /\ new.ring = r /\ new.count = n /\ new.pc = "look"
                 /\ new.start = rd.start /\ new.i = i + 1
                 /\ new.quiet = rd.quiet
  <2>1. /\ [rd EXCEPT !.i = @ + 1].total = rd.total
        /\ [rd EXCEPT !.i = @ + 1].ring = rd.ring
        /\ [rd EXCEPT !.i = @ + 1].count = rd.count
        /\ [rd EXCEPT !.i = @ + 1].pc = rd.pc
        /\ [rd EXCEPT !.i = @ + 1].start = rd.start
        /\ [rd EXCEPT !.i = @ + 1].i = rd.i + 1
        /\ [rd EXCEPT !.i = @ + 1].quiet = rd.quiet
    BY DEF RingReader
  <2> QED
    BY <1>1, <1>2, <1>3, <2>1
<1>5. SUFFICES ASSUME new.quiet PROVE Calm'
  BY <1>4 DEF Calm
<1>6. PICK s \in Seq(Nat \ {0}), l \in Nat, q \in Seq(Nat) :
         s = order[r] /\ l = Len(s) /\ q = ring_report
  BY DEF RingShape
<1>7. /\ Rings!Quiet
      /\ n \in 1 .. Rings!Size(r)
      /\ rd.start = Rings!StartOf(r, n)
      /\ r = "token" => rd.total = l
      /\ ~lapped[r] /\ Narrow(r, n) =>
            Printed(s, Newer(r, l), n, i, q)
  BY <1>1, <1>2, <1>4, <1>5, <1>6 DEF Calm
<1>8. /\ Rings!Quiet'
      /\ rd.start = Rings!StartOf(r, n)'
  BY <1>3, <1>7 DEF Rings!Quiet, Rings!StartOf
<1>9. ASSUME ~lapped[r], Narrow(r, n)
      PROVE  Printed(s, Newer(r, l), n, i + 1, ring_report')
  <2>1. PICK at : at = (Rings!StartOf(r, n) + i) % Rings!Size(r)
    OBVIOUS
  <2>2. PICK e \in Nat : e = Rings!Here /\ e = ring[r][at]
    BY <1>1, <1>2, <1>7, <2>1, HereType DEF Rings!Here
  <2>3. Held(r, ring[r], s, ring_probe)
    BY <1>6, <1>9 DEF RingsHeld
  <2>4. IF Index(r, l, n, i) >= 1 THEN e = s[Index(r, l, n, i)] /\ e # 0
                                  ELSE e = 0
    <3>1. i < n /\ n \in 1 .. Rings!Size(r) /\ Rings!Quiet /\ Narrow(r, n)
      BY <1>3, <1>7, <1>9
    <3>2. IF Index(r, l, n, i) >= 1
          THEN ring[r][at] = s[Index(r, l, n, i)] /\ ring[r][at] # 0
          ELSE ring[r][at] = 0
      BY <1>6, <2>1, <2>3, <3>1, HereIs
    <3> QED
      BY <2>2, <3>2
  <2>5. PICK t \in Int : t = Newer(r, l) /\ Index(r, l, n, i) = t - n + i + 1
    BY RingSizes DEF Index, Newer
  <2>6. Printed(s, t, n, i, q)
    BY <1>7, <1>9, <2>5
  <2>7. CASE t - n + i + 1 >= 1
    <3>1. e = s[t - n + i + 1] /\ e # 0
      BY <2>4, <2>5, <2>7
    <3>2. Printed(s, t, n, i + 1, Append(q, e))
      BY <1>3, <2>6, <2>7, <3>1, PrintedOn
    <3> QED
      BY <1>3, <1>6, <2>2, <2>5, <3>1, <3>2
  <2>8. CASE t - n + i + 1 < 1
    <3>1. e = 0
      BY <2>4, <2>5, <2>8
    <3>2. Printed(s, t, n, i + 1, q)
      BY <1>3, <2>6, <2>8, PrintedOn
    <3> QED
      BY <1>3, <1>6, <2>2, <2>5, <3>1, <3>2
  <2> QED
    BY <2>7, <2>8
<1>10. i + 1 <= n
  BY <1>3
<1> QED
  BY <1>3, <1>4, <1>6, <1>7, <1>8, <1>9, <1>10 DEF Calm

LEMMA CalmReadEnd ==
    ASSUME RingShape, Calm, Rings!ReadEnd
    PROVE  Calm'
<1>1. PICK rd \in RingReader : rd = ring_reader /\ rd.pc = "look"
  BY DEF RingShape, Rings!ReadEnd
<1>2. /\ ring_reader' = [rd EXCEPT !.pc = "done"]
      /\ UNCHANGED <<head, ring, ring_total, order, lapped, ring_probe,
                     ring_report>>
  BY <1>1 DEF Rings!ReadEnd, Rings!rings
<1>3. PICK new : /\ new = ring_reader' /\ new.total = rd.total
                 /\ new.ring = rd.ring /\ new.count = rd.count
                 /\ new.start = rd.start /\ new.i = rd.i
                 /\ new.quiet = rd.quiet
  <2>1. /\ [rd EXCEPT !.pc = "done"].total = rd.total
        /\ [rd EXCEPT !.pc = "done"].ring = rd.ring
        /\ [rd EXCEPT !.pc = "done"].count = rd.count
        /\ [rd EXCEPT !.pc = "done"].start = rd.start
        /\ [rd EXCEPT !.pc = "done"].i = rd.i
        /\ [rd EXCEPT !.pc = "done"].quiet = rd.quiet
    BY DEF RingReader
  <2> QED
    BY <1>2, <2>1
<1>4. SUFFICES ASSUME new.quiet PROVE Calm'
  BY <1>3 DEF Calm
<1>5. /\ Rings!Quiet
      /\ rd.count \in 1 .. Rings!Size(rd.ring)
      /\ rd.start = Rings!StartOf(rd.ring, rd.count)
      /\ rd.i <= rd.count
      /\ rd.ring = "token" => rd.total = Len(order[rd.ring])
      /\ ~lapped[rd.ring] /\ Narrow(rd.ring, rd.count) =>
            Printed(order[rd.ring], Newer(rd.ring, Len(order[rd.ring])),
                    rd.count, rd.i, ring_report)
  BY <1>1, <1>3, <1>4 DEF Calm
<1>6. /\ Rings!Quiet'
      /\ rd.start = Rings!StartOf(rd.ring, rd.count)'
  BY <1>2, <1>5 DEF Rings!Quiet, Rings!StartOf
<1> QED
  BY <1>2, <1>3, <1>5, <1>6 DEF Calm

LEMMA CalmNext ==
    /\ RingShape /\ RingsHeld /\ Counted /\ Calm
    /\ [Rings!Next]_(Rings!vars)
    => Calm'
<1> SUFFICES ASSUME RingShape, RingsHeld, Counted, Calm,
                    [Rings!Next]_(Rings!vars)
             PROVE  Calm'
  OBVIOUS
<1>1. CASE UNCHANGED Rings!vars
  <2>1. UNCHANGED <<head, ring, ring_total, order, lapped, ring_probe,
                    ring_reader, ring_report>>
    BY <1>1 DEF Rings!vars, Rings!rings, Rings!reading
  <2> QED
    BY <2>1 DEF Calm, Rings!Quiet, Rings!StartOf
<1>2. CASE Rings!ReadReturn
  <2>1. ring_reader'.pc = "off"
    BY <1>2 DEF Rings!ReadReturn, Rings!NoRead
  <2> QED
    BY <2>1 DEF Calm
<1> QED
  BY <1>1, <1>2, CalmProbe, CalmReadStart, CalmReadTotal, CalmReadEntry,
     CalmReadEnd DEF Rings!Next

------------------------------------------------------------------------------
(* The end of a sequence, and what a report walked to its end has.         *)
BackFrom(l, m, a) ==
    /\ a = l - m + 1 /\ 1 <= a /\ a <= l + 1
    /\ l - a + 1 = m /\ (a <= l <=> m # 0)
    /\ \A j \in 1 .. m : a + j - 1 = l - m + j

LEMMA LastFrom ==
    ASSUME NEW l \in Nat, NEW m \in Nat, m < l
    PROVE  \E a \in Nat : BackFrom(l, m, a)
<1>1. PICK a \in Int : a = l - m + 1
  OBVIOUS
<1> QED
  BY <1>1 DEF BackFrom

LEMMA LastIs ==
    ASSUME NEW s \in Seq(Nat), NEW l \in Nat, l = Len(s), NEW m \in Nat,
           m <= l
    PROVE  /\ Rings!Last(s, m) \in Seq(Nat)
           /\ Len(Rings!Last(s, m)) = m
           /\ \A j \in 1 .. m : Rings!Last(s, m)[j] = s[l - m + j]
<1>1. CASE l = m
  <2>1. Rings!Last(s, m) = s
    BY <1>1 DEF Rings!Last
  <2>2. \A j \in 1 .. m : l - m + j = j
    BY <1>1
  <2> QED
    BY <1>1, <2>1, <2>2
<1>2. CASE m < l
  <2>1. PICK a \in Nat : BackFrom(l, m, a)
    BY <1>2, LastFrom, ZenonT(30)
  <2>2. Rings!Last(s, m) = SubSeq(s, a, l)
    BY <1>2, <2>1 DEF Rings!Last, BackFrom
  <2>3. \A j \in a .. l : s[j] \in Nat
    BY <2>1 DEF BackFrom
  <2>4. /\ SubSeq(s, a, l) \in Seq(Nat)
        /\ Len(SubSeq(s, a, l)) = IF a <= l THEN l - a + 1 ELSE 0
        /\ \A j \in 1 .. l - a + 1 : SubSeq(s, a, l)[j] = s[a + j - 1]
    BY <2>3, SubSeqProperties
  <2> QED
    BY <2>1, <2>2, <2>4 DEF BackFrom
<1> QED
  BY <1>1, <1>2

LEMMA PrintedWhole ==
    ASSUME NEW s \in Seq(Nat), NEW l \in Nat, l = Len(s), NEW n \in Nat,
           NEW q \in Seq(Nat), Printed(s, l, n, n, q)
    PROVE  q = Rings!Last(s, n)
<1>1. CASE l <= n
  <2>1. First(l, n) = 0 /\ Found(l, n, n) = l
    BY <1>1 DEF First, Found
  <2>2. Len(q) = l /\ \A j \in 1 .. l : q[j] = s[j]
    BY <2>1 DEF Printed
  <2>3. q = s
    BY <2>2, SeqEqual
  <2> QED
    BY <1>1, <2>3 DEF Rings!Last
<1>2. CASE n < l
  <2>1. First(l, n) = l - n /\ Found(l, n, n) = n
    BY <1>2 DEF First, Found
  <2>2. Len(q) = n /\ \A j \in 1 .. n : q[j] = s[l - n + j]
    BY <2>1 DEF Printed
  <2>3. /\ Rings!Last(s, n) \in Seq(Nat)
        /\ Len(Rings!Last(s, n)) = n
        /\ \A j \in 1 .. n : Rings!Last(s, n)[j] = s[l - n + j]
    <3>1. n <= l
      BY <1>2
    <3> QED
      BY <3>1, LastIs, ZenonT(30)
  <2>4. PICK w \in Seq(Nat) : w = Rings!Last(s, n)
    BY <2>3
  <2>5. Len(q) = Len(w) /\ \A j \in 1 .. Len(q) : q[j] = w[j]
    BY <2>2, <2>3, <2>4
  <2> QED
    BY <2>4, <2>5, SeqEqual
<1> QED
  BY <1>1, <1>2

(* What is found before t is all of it, or the last n.                     *)
LEMMA FoundAll ==
    ASSUME NEW t \in Nat, NEW n \in Nat
    PROVE  \E m \in Nat : /\ m = Found(t, n, n) /\ m <= t
                          /\ First(t, n) = t - m
                          /\ \A j \in 1 .. m : t - m + j \in 1 .. t
<1>1. CASE t <= n
  <2>1. First(t, n) = 0 /\ Found(t, n, n) = t
    BY <1>1 DEF First, Found
  <2> QED
    BY <2>1
<1>2. CASE n < t
  <2>1. First(t, n) = t - n /\ Found(t, n, n) = n
    BY <1>2 DEF First, Found
  <2> QED
    BY <1>2, <2>1
<1> QED
  BY <1>1, <1>2

LEMMA PrintedNone ==
    ASSUME NEW s \in Seq(Nat), Len(s) = 0, NEW n \in Nat, NEW i \in Nat, i <= n,
           NEW q \in Seq(Nat), Printed(s, 0, n, i, q)
    PROVE  q = Rings!Last(s, n)
<1>1. Len(q) = 0
  BY DEF Printed, Found, First
<1>2. Rings!Last(s, n) = s
  BY DEF Rings!Last
<1> QED
  BY <1>1, <1>2, SeqEqual

LEMMA PrintedBut ==
    ASSUME NEW s \in Seq(Nat), NEW l \in Nat, l = Len(s), NEW n \in Nat,
           NEW q \in Seq(Nat), Printed(s, l - 1, n, n, q)
    PROVE  \E skip \in {0, 1} :
               q = Rings!Last(SubSeq(s, 1, Len(s) - skip), Len(q))
<1>1. CASE l = 0
  <2>1. Len(q) = 0
    BY <1>1 DEF Printed, Found, First
  <2>2. q = << >>
    BY <2>1
  <2>3. SubSeq(s, 1, Len(s) - 0) = << >>
    BY <1>1, SubSeqEmpty
  <2>4. Rings!Last(<< >>, 0) = << >>
    BY DEF Rings!Last
  <2> QED
    BY <2>1, <2>2, <2>3, <2>4
<1>2. CASE l # 0
  <2>1. PICK t \in Nat : t = l - 1
    BY <1>2
  <2>2. \A j \in 1 .. t : s[j] \in Nat
    BY <2>1
  <2>3. PICK u : u = SubSeq(s, 1, t)
    OBVIOUS
  <2>4. /\ u \in Seq(Nat)
        /\ Len(u) = IF 1 <= t THEN t - 1 + 1 ELSE 0
        /\ \A j \in 1 .. t - 1 + 1 : u[j] = s[1 + j - 1]
    BY <2>2, <2>3, SubSeqProperties
  <2>5. Len(u) = t /\ \A j \in 1 .. t : u[j] = s[j]
    BY <2>1, <2>4
  <2>6. PICK m \in Nat : /\ m = Found(t, n, n) /\ m <= t
                         /\ First(t, n) = t - m
                         /\ \A j \in 1 .. m : t - m + j \in 1 .. t
    BY FoundAll
  <2>7. Len(q) = m /\ \A j \in 1 .. m : q[j] = u[t - m + j]
    <3>1. Printed(s, t, n, n, q)
      BY <2>1
    <3>2. Len(q) = m /\ \A j \in 1 .. m : q[j] = s[t - m + j]
      BY <2>6, <3>1 DEF Printed
    <3> QED
      BY <2>5, <2>6, <3>2
  <2>8. /\ Rings!Last(u, m) \in Seq(Nat)
        /\ Len(Rings!Last(u, m)) = m
        /\ \A j \in 1 .. m : Rings!Last(u, m)[j] = u[t - m + j]
    <3>1. u \in Seq(Nat) /\ t = Len(u) /\ m <= t
      BY <2>4, <2>5, <2>6
    <3> QED
      BY <3>1, LastIs, ZenonT(30)
  <2>9. q = Rings!Last(u, m)
    <3>1. PICK w \in Seq(Nat) : w = Rings!Last(u, m)
      BY <2>8
    <3>2. Len(q) = Len(w) /\ \A j \in 1 .. Len(q) : q[j] = w[j]
      BY <2>7, <2>8, <3>1
    <3> QED
      BY <3>1, <3>2, SeqEqual
  <2>10. Len(s) - 1 = t
    BY <2>1
  <2> QED
    BY <2>3, <2>7, <2>9, <2>10
<1> QED
  BY <1>1, <1>2

RingsInv == RingShape /\ RingsHeld /\ Counted /\ Calm

LEMMA ReportsFollow == RingsInv => RingReportsInOrder
<1> SUFFICES ASSUME RingsInv PROVE RingReportsInOrder
  OBVIOUS
<1>1. PICK rd \in RingReader : rd = ring_reader
  BY DEF RingsInv, RingShape
<1>2. PICK r \in Rings!Rings, n \in Nat, i \in Nat :
         r = rd.ring /\ n = rd.count /\ i = rd.i
  BY DEF RingReader
<1>3. PICK s \in Seq(Nat \ {0}), l \in Nat, q \in Seq(Nat) :
         s = order[r] /\ l = Len(s) /\ q = ring_report
  BY DEF RingsInv, RingShape
<1>4. s \in Seq(Nat)
  OBVIOUS
<1>5. ASSUME rd.pc = "done", rd.quiet, ~lapped[r]
      PROVE  /\ n \in 1 .. Rings!Size(r) /\ i <= n
             /\ r = "token" => rd.total = l
             /\ Narrow(r, n) => Printed(s, Newer(r, l), n, i, q)
  BY <1>1, <1>2, <1>3, <1>5 DEF RingsInv, Calm
<1>6. Rings!TokenReportExact
  <2>1. SUFFICES ASSUME Rings!Undisturbed, r = "token"
                 PROVE  q = Rings!Last(s, n) /\ rd.total = l
    BY <1>1, <1>2, <1>3 DEF Rings!TokenReportExact, Rings!Newest
  <2>2. rd.pc = "done" /\ rd.quiet /\ ~lapped[r] /\ (i = n \/ rd.total = 0)
    BY <1>1, <1>2, <2>1 DEF Rings!Undisturbed
  <2>3. Narrow(r, n) /\ Newer(r, l) = l
    <3>1. PICK N \in Nat \ {0} : N = Rings!Size(r) /\ n <= N
      BY <1>5, <2>2, RingSizes
    <3> QED
      BY <2>1, <3>1 DEF Narrow, Newer, Off
  <2>4. Printed(s, l, n, i, q) /\ rd.total = l /\ i <= n
    BY <1>5, <2>1, <2>2, <2>3
  <2>5. CASE i = n
    BY <1>3, <1>4, <2>4, <2>5, PrintedWhole
  <2>6. CASE rd.total = 0
    BY <1>3, <1>4, <2>4, <2>6, PrintedNone
  <2> QED
    BY <2>2, <2>4, <2>5, <2>6
<1>7. Rings!RawReportConsecutive
  <2>1. SUFFICES ASSUME rd.pc = "done", rd.quiet, i = n, ~lapped[r],
                        r \in Rings!Kind, n < RawSize
                 PROVE  \E skip \in {0, 1} :
                           q = Rings!Last(SubSeq(s, 1, Len(s) - skip), Len(q))
    BY <1>1, <1>2, <1>3 DEF Rings!RawReportConsecutive
  <2>2. r # "token"
    BY <2>1 DEF Rings!Kind
  <2>3. Rings!Size(r) = RawSize /\ RawSize \in Nat
    BY <2>2, RingsAreAssumption DEF Rings!Size, Rings!RingsAssumption
  <2>4. Narrow(r, n) /\ Newer(r, l) = l - 1
    BY <2>1, <2>2, <2>3 DEF Narrow, Newer, Off
  <2>5. Printed(s, l - 1, n, n, q)
    BY <1>5, <2>1, <2>4
  <2> QED
    BY <1>3, <1>4, <2>5, PrintedBut
<1> QED
  BY <1>6, <1>7 DEF RingReportsInOrder

LEMMA RingsInvInit == Rings!Init => RingsInv
BY RingShapeInit, HeldInit, CountedInit, CalmInit DEF RingsInv

LEMMA RingsInvNext == RingsInv /\ [Rings!Next]_(Rings!vars) => RingsInv'
BY RingShapeNext, HeldNext, CountedNext, CalmNext DEF RingsInv

(* A report of a ring that no probe disturbed is the last tokens in order, *)
(* wherever the ring has wrapped, or the last raw events but at most the   *)
(* newest (the readers of hackbot_trace.c, which take no lock).            *)
THEOREM RingReportsCorrect == Rings!Spec => []RingReportsInOrder
BY RingsInvInit, RingsInvNext, ReportsFollow, PTL DEF Rings!Spec

------------------------------------------------------------------------------
(***************************************************************************)
(* The probes of a processor: what the tokenizer and the learner keep      *)
(* while probes interrupt one another.                                     *)
(***************************************************************************)
(* The shape of the state of a processor. A gap class is what quantizing   *)
(* gives, or the dormant one.                                              *)
Gaps == {Tokens!quantize_gap_ns(delta) : delta \in Int}
            \cup {Tokens!GAP_DORMANT, 0}
Stored == {"time", "process", "save"}
Frame == [kind : Tokens!Kind, event : Nat, at : Int, now : Int,
          pc : {"gap", "last"} \cup Stored, gap : Gaps]
Token == [category : Tokens!Kind \cup {"none"}, gap : Gaps, event : Nat, at : Int]

TokenShape ==
    /\ raw_clock \in Int /\ skew \in Int
    /\ stack \in Seq(Frame)
    /\ prev_ns \in Int
    /\ last_token \in Token /\ prev_token \in Token
    /\ tokens \in Seq(Token)
    /\ token_events \in Nat
    /\ learnt \in SUBSET (Token \X Token)
    /\ touched \in SUBSET Nat /\ nested \in SUBSET Nat

LEMMA NoTokenType == Tokens!NoToken \in Token /\ Tokens!NoToken.event = 0
BY DEF Tokens!NoToken, Token, Gaps

LEMMA GapType ==
    ASSUME TokenShape, NEW now \in Int
    PROVE  Tokens!compute_gap_class(now) \in Gaps
<1>1. Modulus \in Nat \ {0}
  BY TokensAreAssumption DEF Tokens!TokensAssumption
<1>2. (now - prev_ns) % Modulus \in Int
  BY <1>1 DEF TokenShape
<1> QED
  BY <1>2 DEF Tokens!compute_gap_class, Gaps

LEMMA ConstantsOf ==
    /\ MaxSkew \in Nat /\ MaxTime \in Nat /\ MaxNesting \in Nat \ {0}
    /\ Modulus \in Nat \ {0} /\ MaxTime + 3 * MaxSkew + 1 < Modulus
    /\ Tokens!Start = MaxSkew + 1
BY TokensAreAssumption DEF Tokens!TokensAssumption, Tokens!Start

------------------------------------------------------------------------------
(* What the steps do to the stack: one frame more, the last one moved on,  *)
(* or the last one gone.                                                   *)
NewFrame(k) ==
    [kind |-> k, event |-> token_events + 1, at |-> raw_clock,
     now |-> Tokens!Now(k), pc |-> "gap", gap |-> 0]

Pushed(f) ==
    /\ stack' \in Seq(Frame)
    /\ Len(stack') = Len(stack) + 1
    /\ stack'[Len(stack) + 1] = f
    /\ \A j \in 1 .. Len(stack) : stack'[j] = stack[j]

Moved(f) ==
    /\ stack' \in Seq(Frame)
    /\ Len(stack) \in Nat \ {0}
    /\ Len(stack') = Len(stack)
    /\ stack'[Len(stack)] = f
    /\ \A j \in 1 .. Len(stack) - 1 : stack'[j] = stack[j]

Popped ==
    /\ stack' \in Seq(Frame)
    /\ Len(stack) \in Nat \ {0}
    /\ Len(stack') = Len(stack) - 1
    /\ \A j \in 1 .. Len(stack) - 1 : stack'[j] = stack[j]

LEMMA TopType ==
    ASSUME TokenShape, stack # << >>
    PROVE  /\ Len(stack) \in Nat \ {0}
           /\ Tokens!Top \in Frame /\ Tokens!Top = stack[Len(stack)]
BY DEF TokenShape, Tokens!Top

LEMMA FrameTypes ==
    ASSUME TokenShape, NEW j \in 1 .. Len(stack)
    PROVE  /\ stack[j] \in Frame /\ stack[j].event \in Nat
           /\ stack[j].at \in Int /\ stack[j].now \in Int
           /\ stack[j].kind \in Tokens!Kind
<1>1. PICK f \in Frame : f = stack[j]
  BY DEF TokenShape
<1>2. f.event \in Nat /\ f.at \in Int /\ f.now \in Int /\ f.kind \in Tokens!Kind
  BY DEF Frame
<1> QED
  BY <1>1, <1>2

LEMMA FirePushes ==
    ASSUME TokenShape, NEW k \in Tokens!Kind, Tokens!Fire(k)
    PROVE  \E f \in Frame :
              /\ Pushed(f)
              /\ f.kind = k /\ f.event = token_events + 1 /\ f.at = raw_clock
              /\ f.now = Tokens!Now(k) /\ f.pc = "gap"
<1>1. Tokens!Now(k) \in Int
  BY DEF TokenShape, Tokens!Now
<1>2. NewFrame(k) \in Frame
  BY <1>1 DEF NewFrame, Frame, TokenShape, Gaps
<1>3. /\ NewFrame(k).kind = k /\ NewFrame(k).event = token_events + 1
      /\ NewFrame(k).at = raw_clock /\ NewFrame(k).now = Tokens!Now(k)
      /\ NewFrame(k).pc = "gap"
  BY DEF NewFrame
<1>4. PICK f \in Frame : f = NewFrame(k)
  BY <1>2
<1>5. stack' = Append(stack, f)
  BY <1>4 DEF Tokens!Fire, NewFrame
<1>6. stack \in Seq(Frame)
  BY DEF TokenShape
<1>7. /\ Append(stack, f) \in Seq(Frame)
      /\ Len(Append(stack, f)) = Len(stack) + 1
  BY <1>6
<1>8. Append(stack, f)[Len(stack) + 1] = f
  BY <1>6
<1>9. \A j \in 1 .. Len(stack) : Append(stack, f)[j] = stack[j]
  BY <1>6
<1> QED
  BY <1>3, <1>4, <1>5, <1>7, <1>8, <1>9 DEF Pushed

LEMMA StackMoves ==
    ASSUME TokenShape, stack # << >>, NEW f \in Frame,
           stack' = [stack EXCEPT ![Len(stack)] = f]
    PROVE  Moved(f)
<1>1. stack \in Seq(Frame) /\ Len(stack) \in Nat \ {0}
  BY TopType DEF TokenShape
<1>2. [stack EXCEPT ![Len(stack)] = f] \in Seq(Frame)
  BY <1>1
<1>3. Len([stack EXCEPT ![Len(stack)] = f]) = Len(stack)
  BY <1>1
<1>4. [stack EXCEPT ![Len(stack)] = f][Len(stack)] = f
  BY <1>1
<1>5. \A j \in 1 .. Len(stack) - 1 :
          [stack EXCEPT ![Len(stack)] = f][j] = stack[j]
  BY <1>1
<1> QED
  BY <1>1, <1>2, <1>3, <1>4, <1>5 DEF Moved

LEMMA StepMoves ==
    ASSUME TokenShape, NEW from, NEW to \in Stored, Tokens!ProbeAt(from, to)
    PROVE  /\ stack # << >> /\ Tokens!Top.pc = from
           /\ \E f \in Frame :
                 /\ Moved(f) /\ f.pc = to
                 /\ f.kind = Tokens!Top.kind /\ f.event = Tokens!Top.event
                 /\ f.at = Tokens!Top.at /\ f.now = Tokens!Top.now
<1>1. stack # << >> /\ Tokens!Top.pc = from
  BY DEF Tokens!ProbeAt
<1>2. PICK top \in Frame : top = Tokens!Top /\ top = stack[Len(stack)]
  BY <1>1, TopType
<1>3. [top EXCEPT !.pc = to] \in Frame
  BY DEF Frame
<1>4. /\ [top EXCEPT !.pc = to].pc = to
      /\ [top EXCEPT !.pc = to].kind = top.kind
      /\ [top EXCEPT !.pc = to].event = top.event
      /\ [top EXCEPT !.pc = to].at = top.at
      /\ [top EXCEPT !.pc = to].now = top.now
  BY DEF Frame
<1>5. PICK f \in Frame : f = [top EXCEPT !.pc = to]
  BY <1>3
<1>6. stack' = [stack EXCEPT ![Len(stack)] = f]
  BY <1>1, <1>2, <1>5, TopType DEF Tokens!ProbeAt, TokenShape
<1>7. Moved(f)
  BY <1>1, <1>6, StackMoves
<1> QED
  BY <1>1, <1>2, <1>4, <1>5, <1>7

LEMMA TokenizeMoves ==
    ASSUME TokenShape, Tokens!Tokenize
    PROVE  \E f \in Frame :
              /\ Moved(f) /\ f.pc = "last"
              /\ f.kind = Tokens!Top.kind /\ f.event = Tokens!Top.event
              /\ f.at = Tokens!Top.at /\ f.now = Tokens!Top.now
              /\ f.gap = Tokens!compute_gap_class(Tokens!Top.now)
<1>1. stack # << >>
  BY DEF Tokens!Tokenize
<1>2. PICK top \in Frame : top = Tokens!Top /\ top = stack[Len(stack)]
  BY <1>1, TopType
<1>3. PICK g \in Gaps : g = Tokens!compute_gap_class(top.now)
  <2>1. top.now \in Int
    BY DEF Frame
  <2> QED
    BY <2>1, GapType
<1>4. [top EXCEPT !.pc = "last", !.gap = g] \in Frame
  BY DEF Frame
<1>5. /\ [top EXCEPT !.pc = "last", !.gap = g].pc = "last"
      /\ [top EXCEPT !.pc = "last", !.gap = g].kind = top.kind
      /\ [top EXCEPT !.pc = "last", !.gap = g].event = top.event
      /\ [top EXCEPT !.pc = "last", !.gap = g].at = top.at
      /\ [top EXCEPT !.pc = "last", !.gap = g].now = top.now
      /\ [top EXCEPT !.pc = "last", !.gap = g].gap = g
  BY DEF Frame
<1>6. PICK f \in Frame : f = [top EXCEPT !.pc = "last", !.gap = g]
  BY <1>4
<1>7. stack' = [stack EXCEPT ![Len(stack)] = f]
  BY <1>1, <1>2, <1>3, <1>6, TopType DEF Tokens!Tokenize, TokenShape
<1>8. Moved(f)
  BY <1>1, <1>7, StackMoves
<1> QED
  BY <1>2, <1>3, <1>5, <1>6, <1>8

LEMMA EndPops ==
    ASSUME TokenShape, NEW from, Tokens!ProbeEnds(from)
    PROVE  Popped /\ stack # << >> /\ Tokens!Top.pc = from
<1>1. stack # << >> /\ Tokens!Top.pc = from
      /\ stack' = SubSeq(stack, 1, Len(stack) - 1)
  BY DEF Tokens!ProbeEnds, Tokens!Under
<1>2. PICK s \in Seq(Frame), n \in Nat : s = stack /\ n = Len(s) - 1
                                         /\ Len(s) \in Nat \ {0}
  <2>1. stack \in Seq(Frame) /\ Len(stack) \in Nat \ {0}
    BY <1>1, TopType DEF TokenShape
  <2> QED
    BY <2>1
<1>3. \A i \in 1 .. n : s[i] \in Frame
  BY <1>2
<1>4. /\ SubSeq(s, 1, n) \in Seq(Frame)
      /\ Len(SubSeq(s, 1, n)) = IF 1 <= n THEN n - 1 + 1 ELSE 0
      /\ \A i \in 1 .. n - 1 + 1 : SubSeq(s, 1, n)[i] = s[1 + i - 1]
  BY <1>3, SubSeqProperties
<1>5. Len(SubSeq(s, 1, n)) = n /\ \A i \in 1 .. n : SubSeq(s, 1, n)[i] = s[i]
  BY <1>4
<1> QED
  BY <1>1, <1>2, <1>4, <1>5 DEF Popped

(* The token a probe leaves.                                               *)
TokenOf(f) ==
    [category |-> f.kind, gap |-> f.gap, event |-> f.event, at |-> f.at]

LEMMA TokenOfType ==
    ASSUME NEW f \in Frame
    PROVE  /\ TokenOf(f) \in Token
           /\ TokenOf(f).category = f.kind /\ TokenOf(f).gap = f.gap
           /\ TokenOf(f).event = f.event /\ TokenOf(f).at = f.at
BY DEF TokenOf, Frame, Token

Grows(token) ==
    /\ tokens' \in Seq(Token)
    /\ Len(tokens) \in Nat
    /\ Len(tokens') = Len(tokens) + 1
    /\ tokens'[Len(tokens) + 1] = token
    /\ \A i \in 1 .. Len(tokens) : tokens'[i] = tokens[i]

LEMMA TokensGrow ==
    ASSUME TokenShape, NEW token \in Token, tokens' = Append(tokens, token)
    PROVE  Grows(token)
<1>1. tokens \in Seq(Token) /\ Len(tokens) \in Nat
  BY DEF TokenShape
<1>2. /\ Append(tokens, token) \in Seq(Token)
      /\ Len(Append(tokens, token)) = Len(tokens) + 1
  BY <1>1
<1>3. Append(tokens, token)[Len(tokens) + 1] = token
  BY <1>1
<1>4. \A i \in 1 .. Len(tokens) : Append(tokens, token)[i] = tokens[i]
  BY <1>1
<1> QED
  BY <1>1, <1>2, <1>3, <1>4 DEF Grows

LEMMA TokenShapeInit == Tokens!Init => TokenShape
<1> SUFFICES ASSUME Tokens!Init PROVE TokenShape
  OBVIOUS
<1>1. raw_clock \in Int /\ skew \in Int
  BY ConstantsOf DEF Tokens!Init
<1>2. stack \in Seq(Frame) /\ tokens \in Seq(Token)
  BY DEF Tokens!Init
<1> QED
  BY <1>1, <1>2, NoTokenType DEF Tokens!Init, TokenShape

(* What the steps change beside the stack.                                 *)
LEMMA FireKeeps ==
    ASSUME TokenShape, NEW k \in Tokens!Kind, Tokens!Fire(k)
    PROVE  /\ UNCHANGED <<raw_clock, skew, prev_ns, last_token, prev_token,
                          tokens, learnt>>
           /\ token_events' = token_events + 1
           /\ stack = << >> => UNCHANGED <<touched, nested>>
           /\ stack # << >> =>
                 /\ touched' = touched \cup {Tokens!Top.event}
                 /\ nested' = nested \cup {token_events + 1}
BY DEF Tokens!Fire, Tokens!times, Tokens!state

LEMMA TickKeeps ==
    ASSUME TokenShape, Tokens!Tick
    PROVE  /\ UNCHANGED <<skew, stack, prev_ns, last_token, prev_token, tokens,
                          token_events, learnt, touched, nested>>
           /\ raw_clock' = raw_clock + 1 /\ raw_clock < Tokens!Start + MaxTime
BY DEF Tokens!Tick, Tokens!state, Tokens!history

LEMMA TokenizeKeeps ==
    ASSUME Tokens!Tokenize
    PROVE  /\ UNCHANGED <<raw_clock, skew, prev_ns, last_token, prev_token,
                          tokens, token_events, learnt, touched, nested>>
           /\ stack # << >> /\ Tokens!Top.pc = "gap"
BY DEF Tokens!Tokenize, Tokens!times, Tokens!state, Tokens!history

LEMMA StoreLastKeeps ==
    ASSUME TokenShape, Tokens!StoreLast
    PROVE  /\ UNCHANGED <<raw_clock, skew, prev_ns, prev_token, token_events,
                          learnt, touched, nested>>
           /\ stack # << >> /\ Tokens!Top.pc = "last"
           /\ last_token' = TokenOf(Tokens!Top)
           /\ Grows(TokenOf(Tokens!Top))
<1>1. /\ UNCHANGED <<raw_clock, skew, prev_ns, prev_token, token_events,
                     learnt, touched, nested>>
      /\ stack # << >> /\ Tokens!Top.pc = "last"
      /\ last_token' = TokenOf(Tokens!Top)
      /\ tokens' = Append(tokens, TokenOf(Tokens!Top))
  BY DEF Tokens!StoreLast, Tokens!ProbeAt, Tokens!times, TokenOf
<1>2. TokenOf(Tokens!Top) \in Token
  BY <1>1, TopType, TokenOfType
<1> QED
  BY <1>1, <1>2, TokensGrow

LEMMA StoreTimeKeeps ==
    ASSUME Tokens!StoreTime
    PROVE  /\ UNCHANGED <<raw_clock, skew, last_token, prev_token, tokens,
                          token_events, learnt, touched, nested>>
           /\ stack # << >> /\ Tokens!Top.pc = "time"
           /\ prev_ns' = Tokens!Top.now
BY DEF Tokens!StoreTime, Tokens!ProbeAt, Tokens!times

LEMMA FirstEventKeeps ==
    ASSUME Tokens!FirstEvent
    PROVE  /\ UNCHANGED <<raw_clock, skew, prev_ns, last_token, tokens,
                          token_events, learnt, touched, nested>>
           /\ prev_token = Tokens!NoToken /\ prev_token' = last_token
BY DEF Tokens!FirstEvent, Tokens!ProbeEnds, Tokens!times

LEMMA LearnKeeps ==
    ASSUME Tokens!Learn
    PROVE  /\ UNCHANGED <<raw_clock, skew, prev_ns, last_token, prev_token,
                          tokens, token_events, touched, nested>>
           /\ stack # << >> /\ Tokens!Top.pc = "process"
           /\ prev_token # Tokens!NoToken
           /\ learnt' = learnt \cup {<<prev_token, last_token>>}
BY DEF Tokens!Learn, Tokens!ProbeAt, Tokens!times, Tokens!state

LEMMA SaveKeeps ==
    ASSUME Tokens!Save
    PROVE  /\ UNCHANGED <<raw_clock, skew, prev_ns, last_token, tokens,
                          token_events, learnt, touched, nested>>
           /\ prev_token' = last_token
BY DEF Tokens!Save, Tokens!ProbeEnds, Tokens!times

LEMMA TokenShapeNext == TokenShape /\ [Tokens!Next]_(Tokens!vars) => TokenShape'
<1> SUFFICES ASSUME TokenShape, [Tokens!Next]_(Tokens!vars) PROVE TokenShape'
  OBVIOUS
<1>1. CASE UNCHANGED Tokens!vars
  BY <1>1 DEF Tokens!vars, Tokens!times, Tokens!state, Tokens!history, TokenShape
<1>2. ASSUME NEW k \in Tokens!Kind, Tokens!Fire(k) PROVE TokenShape'
  <2>1. stack' \in Seq(Frame)
    BY <1>2, FirePushes DEF Pushed
  <2>2. touched' \in SUBSET Nat /\ nested' \in SUBSET Nat
    <3>1. CASE stack = << >>
      BY <1>2, <3>1, FireKeeps DEF TokenShape
    <3>2. CASE stack # << >>
      <4>1. Tokens!Top.event \in Nat
        BY <3>2, TopType DEF Frame
      <4>2. /\ touched' = touched \cup {Tokens!Top.event}
            /\ nested' = nested \cup {token_events + 1}
        BY <1>2, <3>2, FireKeeps
      <4>3. /\ touched \in SUBSET Nat /\ nested \in SUBSET Nat
            /\ token_events + 1 \in Nat
        BY DEF TokenShape
      <4> QED
        BY <4>1, <4>2, <4>3
    <3> QED
      BY <3>1, <3>2
  <2> QED
    BY <1>2, <2>1, <2>2, FireKeeps DEF TokenShape
<1>3. ASSUME Tokens!Tick PROVE TokenShape'
  <2>1. raw_clock' \in Int
    BY <1>3, TickKeeps DEF TokenShape
  <2>2. UNCHANGED <<skew, stack, prev_ns, last_token, prev_token, tokens,
                    token_events, learnt, touched, nested>>
    BY <1>3, TickKeeps
  <2> QED
    BY <2>1, <2>2 DEF TokenShape
<1>4. ASSUME Tokens!Tokenize PROVE TokenShape'
  <2>1. stack' \in Seq(Frame)
    BY <1>4, TokenizeMoves DEF Moved
  <2> QED
    BY <1>4, <2>1, TokenizeKeeps DEF TokenShape
<1>5. ASSUME Tokens!StoreLast PROVE TokenShape'
  <2>1. stack' \in Seq(Frame)
    <3>1. Tokens!ProbeAt("last", "time") /\ "time" \in Stored
      BY <1>5 DEF Tokens!StoreLast, Stored
    <3> QED
      BY <3>1, StepMoves DEF Moved
  <2>2. last_token' \in Token /\ tokens' \in Seq(Token)
    BY <1>5, StoreLastKeeps, TopType, TokenOfType DEF Grows
  <2> QED
    BY <1>5, <2>1, <2>2, StoreLastKeeps DEF TokenShape
<1>6. ASSUME Tokens!StoreTime PROVE TokenShape'
  <2>1. stack' \in Seq(Frame)
    <3>1. Tokens!ProbeAt("time", "process") /\ "process" \in Stored
      BY <1>6 DEF Tokens!StoreTime, Stored
    <3> QED
      BY <3>1, StepMoves DEF Moved
  <2>2. prev_ns' \in Int
    BY <1>6, StoreTimeKeeps, TopType DEF Frame
  <2> QED
    BY <1>6, <2>1, <2>2, StoreTimeKeeps DEF TokenShape
<1>7. ASSUME Tokens!FirstEvent PROVE TokenShape'
  <2>1. stack' \in Seq(Frame)
    BY <1>7, EndPops DEF Tokens!FirstEvent, Popped
  <2> QED
    BY <1>7, <2>1, FirstEventKeeps DEF TokenShape
<1>8. ASSUME Tokens!Learn PROVE TokenShape'
  <2>1. stack' \in Seq(Frame)
    <3>1. Tokens!ProbeAt("process", "save") /\ "save" \in Stored
      BY <1>8 DEF Tokens!Learn, Stored
    <3> QED
      BY <3>1, StepMoves DEF Moved
  <2>2. learnt' \in SUBSET (Token \X Token)
    <3>1. learnt' = learnt \cup {<<prev_token, last_token>>}
      BY <1>8, LearnKeeps
    <3> QED
      BY <3>1 DEF TokenShape
  <2> QED
    BY <1>8, <2>1, <2>2, LearnKeeps DEF TokenShape
<1>9. ASSUME Tokens!Save PROVE TokenShape'
  <2>1. stack' \in Seq(Frame)
    BY <1>9, EndPops DEF Tokens!Save, Popped
  <2> QED
    BY <1>9, <2>1, SaveKeeps DEF TokenShape
<1> QED
  BY <1>1, <1>2, <1>3, <1>4, <1>5, <1>6, <1>7, <1>8, <1>9 DEF Tokens!Next

------------------------------------------------------------------------------
(* The probes that are running: all have events of their own, those below  *)
(* the last one have been interrupted, those above the first have          *)
(* interrupted another, and each is stamped by its clock.                  *)
Stamp(kind, at) == IF kind = "io" THEN at + skew ELSE at

Piled ==
    /\ \A j \in 1 .. Len(stack) :
           /\ stack[j].event >= 1 /\ stack[j].event <= token_events
           /\ stack[j].at >= Tokens!Start /\ stack[j].at <= raw_clock
           /\ stack[j].now = Stamp(stack[j].kind, stack[j].at)
    /\ \A j \in 1 .. Len(stack) - 1 : stack[j].event \in touched
    /\ \A j \in 2 .. Len(stack) : stack[j].event \in nested
    /\ \A j, k \in 1 .. Len(stack) : j < k => stack[j].event # stack[k].event
    /\ \A e \in touched \cup nested : e >= 1 /\ e <= token_events
    /\ raw_clock >= Tokens!Start /\ raw_clock <= Tokens!Start + MaxTime
    /\ skew >= -MaxSkew /\ skew <= MaxSkew

LEMMA RunningInit == Tokens!Init => Piled
<1> SUFFICES ASSUME Tokens!Init PROVE Piled
  OBVIOUS
<1>1. Len(stack) = 0 /\ touched = {} /\ nested = {}
  BY DEF Tokens!Init
<1>2. /\ raw_clock >= Tokens!Start /\ raw_clock <= Tokens!Start + MaxTime
      /\ skew >= -MaxSkew /\ skew <= MaxSkew
  BY ConstantsOf DEF Tokens!Init
<1> QED
  BY <1>1, <1>2 DEF Piled

LEMMA RunningMove ==
    ASSUME Piled, NEW f \in Frame, Moved(f),
           f.kind = Tokens!Top.kind, f.event = Tokens!Top.event,
           f.at = Tokens!Top.at, f.now = Tokens!Top.now,
           UNCHANGED <<raw_clock, skew, token_events, touched, nested>>
    PROVE  Piled'
<1>1. PICK d \in Nat \ {0} : d = Len(stack) /\ Len(stack') = d
  BY DEF Moved
<1>2. \A j \in 1 .. d : j = d \/ j \in 1 .. d - 1
  OBVIOUS
<1>3. \A j \in 1 .. d :
          /\ stack'[j].kind = stack[j].kind /\ stack'[j].event = stack[j].event
          /\ stack'[j].at = stack[j].at /\ stack'[j].now = stack[j].now
  BY <1>1, <1>2 DEF Moved, Tokens!Top
<1>4. \A j \in 1 .. d :
          /\ stack'[j].event >= 1 /\ stack'[j].event <= token_events
          /\ stack'[j].at >= Tokens!Start /\ stack'[j].at <= raw_clock
          /\ stack'[j].now = Stamp(stack'[j].kind, stack'[j].at)
  BY <1>1, <1>3 DEF Piled, Stamp
<1>5. /\ \A j \in 1 .. d - 1 : stack'[j].event \in touched
      /\ \A j \in 2 .. d : stack'[j].event \in nested
  BY <1>1, <1>3 DEF Piled
<1>6. \A j, k \in 1 .. d : j < k => stack'[j].event # stack'[k].event
  BY <1>1, <1>3 DEF Piled
<1> QED
  BY <1>1, <1>4, <1>5, <1>6 DEF Piled, Stamp

LEMMA RunningPop ==
    ASSUME Piled, Popped,
           UNCHANGED <<raw_clock, skew, token_events, touched, nested>>
    PROVE  Piled'
<1>1. PICK d \in Nat \ {0} : d = Len(stack) /\ Len(stack') = d - 1
  BY DEF Popped
<1>2. \A j \in 1 .. d - 1 : stack'[j] = stack[j]
  BY <1>1 DEF Popped
<1>3. \A j \in 1 .. (d - 1) - 1 : j \in 1 .. d - 1
  BY <1>1
<1>4. \A j \in 2 .. d - 1 : j \in 2 .. d /\ j \in 1 .. d - 1
  BY <1>1
<1>5. \A j \in 1 .. d - 1 : j \in 1 .. d
  BY <1>1
<1> QED
  BY <1>1, <1>2, <1>3, <1>4, <1>5 DEF Piled, Stamp

LEMMA RunningFire ==
    ASSUME TokenShape, Piled, NEW k \in Tokens!Kind, Tokens!Fire(k)
    PROVE  Piled'
<1>1. PICK f \in Frame :
         /\ Pushed(f)
         /\ f.kind = k /\ f.event = token_events + 1 /\ f.at = raw_clock
         /\ f.now = Tokens!Now(k)
  BY FirePushes
<1>2. /\ UNCHANGED <<raw_clock, skew>> /\ token_events' = token_events + 1
      /\ stack = << >> => UNCHANGED <<touched, nested>>
      /\ stack # << >> =>
            /\ touched' = touched \cup {Tokens!Top.event}
            /\ nested' = nested \cup {token_events + 1}
  BY FireKeeps
<1>3. PICK d \in Nat : d = Len(stack) /\ Len(stack') = d + 1
                       /\ (d = 0 <=> stack = << >>)
  BY <1>1 DEF Pushed, TokenShape
<1>4. PICK E \in Nat : E = token_events
  BY DEF TokenShape
<1>5. stack'[d + 1] = f /\ \A j \in 1 .. d : stack'[j] = stack[j]
  BY <1>1, <1>3 DEF Pushed
<1>6. \A j \in 1 .. d : stack[j].event \in Nat
  BY <1>3, FrameTypes
<1>7. f.now = Stamp(f.kind, f.at)
  BY <1>1 DEF Tokens!Now, Stamp
<1>8. ASSUME NEW j \in 1 .. d + 1
      PROVE  /\ stack'[j].event >= 1 /\ stack'[j].event <= E + 1
             /\ stack'[j].at >= Tokens!Start /\ stack'[j].at <= raw_clock
             /\ stack'[j].now = Stamp(stack'[j].kind, stack'[j].at)
  <2>1. CASE j = d + 1
    <3>1. f.event = E + 1 /\ raw_clock \in Int
      BY <1>1, <1>4 DEF TokenShape
    <3>2. raw_clock >= Tokens!Start /\ raw_clock <= raw_clock
      BY <3>1 DEF Piled
    <3>3. stack'[j] = f /\ E + 1 >= 1 /\ E + 1 <= E + 1
      BY <1>5, <2>1
    <3> QED
      BY <1>1, <1>7, <3>1, <3>2, <3>3
  <2>2. CASE j # d + 1
    <3>1. j \in 1 .. d
      BY <2>2
    <3> QED
      BY <1>3, <1>4, <1>5, <1>6, <3>1 DEF Piled
  <2> QED
    BY <2>1, <2>2
<1>9. ASSUME NEW j \in 1 .. (d + 1) - 1 PROVE stack'[j].event \in touched'
  <2>1. j \in 1 .. d /\ d # 0
    OBVIOUS
  <2>2. touched' = touched \cup {stack[d].event}
    BY <1>2, <1>3, <2>1 DEF Tokens!Top
  <2>3. j = d \/ j \in 1 .. d - 1
    BY <2>1
  <2> QED
    BY <1>3, <1>5, <2>1, <2>2, <2>3 DEF Piled
<1>10. ASSUME NEW j \in 2 .. d + 1 PROVE stack'[j].event \in nested'
  <2>1. d # 0 /\ nested' = nested \cup {E + 1}
    BY <1>2, <1>3, <1>4
  <2>2. CASE j = d + 1
    BY <1>1, <1>4, <1>5, <2>1, <2>2
  <2>3. CASE j # d + 1
    <3>1. j \in 2 .. d /\ j \in 1 .. d
      BY <2>3
    <3> QED
      BY <1>3, <1>5, <2>1, <3>1 DEF Piled
  <2> QED
    BY <2>2, <2>3
<1>11. ASSUME NEW i \in 1 .. d + 1, NEW j \in 1 .. d + 1, i < j
       PROVE  stack'[i].event # stack'[j].event
  <2>1. i \in 1 .. d
    BY <1>11
  <2>2. CASE j = d + 1
    <3>1. stack[i].event <= E /\ stack[i].event \in Nat
      BY <1>3, <1>4, <1>6, <2>1 DEF Piled
    <3> QED
      BY <1>1, <1>4, <1>5, <2>1, <2>2, <3>1
  <2>3. CASE j # d + 1
    <3>1. j \in 1 .. d
      BY <2>3
    <3> QED
      BY <1>3, <1>5, <1>11, <2>1, <3>1 DEF Piled
  <2> QED
    BY <2>2, <2>3
<1>12. ASSUME NEW e \in touched' \cup nested' PROVE e >= 1 /\ e <= E + 1
  <2>1. \A o \in touched \cup nested : o \in Nat /\ o >= 1 /\ o <= E
    BY <1>4 DEF TokenShape, Piled
  <2>2. CASE stack = << >>
    BY <1>2, <1>12, <2>1, <2>2
  <2>3. CASE stack # << >>
    <3>1. Tokens!Top.event \in Nat /\ Tokens!Top.event >= 1
          /\ Tokens!Top.event <= E
      BY <1>3, <1>4, <1>6, <2>3 DEF Tokens!Top, Piled
    <3>2. e \in touched \cup nested \/ e = Tokens!Top.event \/ e = E + 1
      BY <1>2, <1>4, <1>12, <2>3
    <3> QED
      BY <2>1, <3>1, <3>2
  <2> QED
    BY <2>2, <2>3
<1>13. /\ token_events' = E + 1 /\ raw_clock' = raw_clock /\ skew' = skew
  BY <1>2, <1>4
<1> QED
  BY <1>3, <1>8, <1>9, <1>10, <1>11, <1>12, <1>13 DEF Piled, Stamp

LEMMA RunningTick ==
    ASSUME TokenShape, Piled, Tokens!Tick
    PROVE  Piled'
<1>1. /\ UNCHANGED <<skew, stack, token_events, touched, nested>>
      /\ raw_clock' = raw_clock + 1 /\ raw_clock < Tokens!Start + MaxTime
  BY TickKeeps
<1>2. raw_clock \in Int /\ Tokens!Start \in Int /\ MaxTime \in Int
  BY ConstantsOf DEF TokenShape
<1>3. \A j \in 1 .. Len(stack) : stack[j].at \in Int
  BY FrameTypes
<1>4. \A j \in 1 .. Len(stack) : stack[j].at <= raw_clock + 1
  BY <1>2, <1>3 DEF Piled
<1>5. raw_clock + 1 >= Tokens!Start /\ raw_clock + 1 <= Tokens!Start + MaxTime
  BY <1>1, <1>2 DEF Piled
<1> QED
  BY <1>1, <1>4, <1>5 DEF Piled, Stamp

(* What a step does to the last frame alone, by the steps that do it.      *)
MovesOn(f) ==
    /\ Moved(f)
    /\ f.kind = Tokens!Top.kind /\ f.event = Tokens!Top.event
    /\ f.at = Tokens!Top.at /\ f.now = Tokens!Top.now

LEMMA Movers ==
    ASSUME TokenShape
    PROVE  /\ Tokens!Tokenize => \E f \in Frame : MovesOn(f) /\ f.pc = "last"
              /\ f.gap = Tokens!compute_gap_class(Tokens!Top.now)
           /\ Tokens!StoreLast => \E f \in Frame : MovesOn(f) /\ f.pc = "time"
           /\ Tokens!StoreTime => \E f \in Frame : MovesOn(f) /\ f.pc = "process"
           /\ Tokens!Learn => \E f \in Frame : MovesOn(f) /\ f.pc = "save"
<1>1. ASSUME Tokens!Tokenize
      PROVE  \E f \in Frame : MovesOn(f) /\ f.pc = "last"
                 /\ f.gap = Tokens!compute_gap_class(Tokens!Top.now)
  BY <1>1, TokenizeMoves DEF MovesOn
<1>2. "time" \in Stored /\ "process" \in Stored /\ "save" \in Stored
  BY DEF Stored
<1>3. ASSUME NEW from, NEW to \in Stored, Tokens!ProbeAt(from, to)
      PROVE  \E f \in Frame : MovesOn(f) /\ f.pc = to
  BY <1>3, StepMoves DEF MovesOn
<1>4. /\ Tokens!StoreLast => Tokens!ProbeAt("last", "time")
      /\ Tokens!StoreTime => Tokens!ProbeAt("time", "process")
      /\ Tokens!Learn => Tokens!ProbeAt("process", "save")
  BY DEF Tokens!StoreLast, Tokens!StoreTime, Tokens!Learn
<1> QED
  BY <1>1, <1>2, <1>3, <1>4

LEMMA Poppers ==
    ASSUME TokenShape
    PROVE  /\ Tokens!FirstEvent => Popped /\ stack # << >>
                                   /\ Tokens!Top.pc = "process"
           /\ Tokens!Save => Popped /\ stack # << >> /\ Tokens!Top.pc = "save"
<1>1. /\ Tokens!FirstEvent => Tokens!ProbeEnds("process")
      /\ Tokens!Save => Tokens!ProbeEnds("save")
  BY DEF Tokens!FirstEvent, Tokens!Save
<1> QED
  BY <1>1, EndPops

LEMMA PiledNext == TokenShape /\ Piled /\ [Tokens!Next]_(Tokens!vars) => Piled'
<1> SUFFICES ASSUME TokenShape, Piled, [Tokens!Next]_(Tokens!vars)
             PROVE  Piled'
  OBVIOUS
<1>1. CASE UNCHANGED Tokens!vars
  BY <1>1 DEF Tokens!vars, Tokens!times, Tokens!state, Tokens!history, Piled,
              Stamp
<1>2. ASSUME \/ Tokens!Tokenize \/ Tokens!StoreLast \/ Tokens!StoreTime
             \/ Tokens!Learn
      PROVE  Piled'
  <2>1. UNCHANGED <<raw_clock, skew, token_events, touched, nested>>
    BY <1>2, TokenizeKeeps, StoreLastKeeps, StoreTimeKeeps, LearnKeeps
  <2>2. \E f \in Frame : MovesOn(f)
    BY <1>2, Movers
  <2> QED
    BY <2>1, <2>2, RunningMove DEF MovesOn
<1>3. ASSUME Tokens!FirstEvent \/ Tokens!Save PROVE Piled'
  <2>1. UNCHANGED <<raw_clock, skew, token_events, touched, nested>>
    BY <1>3, FirstEventKeeps, SaveKeeps
  <2> QED
    BY <1>3, <2>1, Poppers, RunningPop
<1> QED
  BY <1>1, <1>2, <1>3, RunningFire, RunningTick DEF Tokens!Next

------------------------------------------------------------------------------
(* What has been stored: every token is that of an event, a probe that has *)
(* yet to store its own has none, and the last one is that of the last     *)
(* probe if this has stored it and nothing has interrupted it.             *)
Count == Len(tokens)
Depth == Len(stack)
TopStored == Depth > 0 /\ stack[Depth].pc \in Stored

StoredSo ==
    /\ \A i \in 1 .. Count :
           /\ tokens[i].event >= 1 /\ tokens[i].event <= token_events
           /\ tokens[i].at >= Tokens!Start /\ tokens[i].at <= raw_clock
           /\ tokens[i].category \in Tokens!Kind
    /\ \A j \in 1 .. Depth : stack[j].pc \notin Stored =>
           \A i \in 1 .. Count : tokens[i].event # stack[j].event
    /\ \A j \in 1 .. Depth : stack[j].pc \in Stored => Count > 0
    /\ last_token = IF Count > 0 THEN tokens[Count] ELSE Tokens!NoToken
    /\ TopStored /\ stack[Depth].event \notin touched =>
           /\ tokens[Count].event = stack[Depth].event
           /\ tokens[Count].category = stack[Depth].kind
           /\ tokens[Count].at = stack[Depth].at

LEMMA TokenTypes ==
    ASSUME TokenShape, NEW i \in 1 .. Count
    PROVE  /\ tokens[i] \in Token /\ tokens[i].event \in Nat
           /\ tokens[i].at \in Int
<1>1. PICK token \in Token : token = tokens[i]
  BY DEF TokenShape, Count
<1>2. token.event \in Nat /\ token.at \in Int
  BY DEF Token
<1> QED
  BY <1>1, <1>2

LEMMA StoredInit == Tokens!Init => StoredSo
<1> SUFFICES ASSUME Tokens!Init PROVE StoredSo
  OBVIOUS
<1>1. Len(stack) = 0 /\ Len(tokens) = 0 /\ last_token = Tokens!NoToken
  BY DEF Tokens!Init
<1> QED
  BY <1>1 DEF StoredSo, TopStored, Depth, Count

LEMMA StoredMove ==
    ASSUME TokenShape, StoredSo, NEW f \in Frame, MovesOn(f),
           f.pc \in Stored <=> Tokens!Top.pc \in Stored,
           UNCHANGED <<raw_clock, token_events, touched, tokens, last_token>>
    PROVE  StoredSo'
<1>1. PICK d \in Nat \ {0} : d = Depth /\ Depth' = d
  BY DEF MovesOn, Moved, Depth
<1>2. \A j \in 1 .. d : j = d \/ j \in 1 .. d - 1
  OBVIOUS
<1>3. /\ \A j \in 1 .. d : /\ stack'[j].event = stack[j].event
                           /\ stack'[j].pc \in Stored <=> stack[j].pc \in Stored
      /\ stack'[d].kind = stack[d].kind /\ stack'[d].at = stack[d].at
  BY <1>1, <1>2 DEF MovesOn, Moved, Tokens!Top, Depth
<1>4. Count' = Count
  BY DEF Count
<1>5. d \in 1 .. d
  OBVIOUS
<1> QED
  BY <1>1, <1>3, <1>4, <1>5 DEF StoredSo, TopStored

LEMMA StoredPop ==
    ASSUME TokenShape, Piled, StoredSo, Popped,
           UNCHANGED <<raw_clock, token_events, touched, tokens, last_token>>
    PROVE  StoredSo'
<1>1. PICK d \in Nat \ {0} : d = Depth /\ Depth' = d - 1
  BY DEF Popped, Depth
<1>2. \A j \in 1 .. d - 1 : j \in 1 .. d /\ stack'[j] = stack[j]
  BY <1>1 DEF Popped, Depth
<1>3. TopStored' => stack'[d - 1].event \in touched
  <2>1. TopStored' => d - 1 \in 1 .. d - 1
    BY <1>1 DEF TopStored
  <2> QED
    BY <1>1, <1>2, <2>1 DEF Piled, Depth
<1>4. Count' = Count
  BY DEF Count
<1> QED
  BY <1>1, <1>2, <1>3, <1>4 DEF StoredSo

LEMMA StoredFire ==
    ASSUME TokenShape, StoredSo, NEW k \in Tokens!Kind, Tokens!Fire(k)
    PROVE  StoredSo'
<1>1. PICK f \in Frame :
         Pushed(f) /\ f.event = token_events + 1 /\ f.pc = "gap"
  BY FirePushes
<1>2. UNCHANGED <<raw_clock, tokens, last_token>>
      /\ token_events' = token_events + 1
  BY FireKeeps
<1>3. PICK d \in Nat : d = Depth /\ Depth' = d + 1
  BY <1>1 DEF Pushed, TokenShape, Depth
<1>4. stack'[d + 1] = f /\ \A j \in 1 .. d : stack'[j] = stack[j]
  BY <1>1, <1>3 DEF Pushed, Depth
<1>5. f.pc \notin Stored
  BY <1>1 DEF Stored
<1>6. \A j \in 1 .. d + 1 : j = d + 1 \/ j \in 1 .. d
  OBVIOUS
<1>7. \A i \in 1 .. Count : tokens[i].event \in Nat
  BY TokenTypes
<1>8. \A i \in 1 .. Count :
          tokens[i].event <= token_events + 1 /\ tokens[i].event # f.event
  BY <1>1, <1>7 DEF StoredSo, TokenShape
<1>9. ~TopStored'
  BY <1>3, <1>4, <1>5 DEF TopStored
<1>10. Count' = Count
  BY <1>2 DEF Count
<1>11. ASSUME NEW j \in 1 .. d + 1
       PROVE  /\ stack'[j].pc \notin Stored =>
                    \A i \in 1 .. Count : tokens[i].event # stack'[j].event
              /\ stack'[j].pc \in Stored => Count > 0
  BY <1>3, <1>4, <1>5, <1>6, <1>8 DEF StoredSo
<1> QED
  BY <1>2, <1>3, <1>8, <1>9, <1>10, <1>11 DEF StoredSo

LEMMA StoredTick ==
    ASSUME TokenShape, StoredSo, Tokens!Tick
    PROVE  StoredSo'
<1>1. /\ UNCHANGED <<stack, tokens, last_token, token_events, touched>>
      /\ raw_clock' = raw_clock + 1
  BY TickKeeps
<1>2. \A i \in 1 .. Count : tokens[i].at \in Int
  BY TokenTypes
<1>3. \A i \in 1 .. Count : tokens[i].at <= raw_clock + 1
  BY <1>2 DEF StoredSo, TokenShape
<1> QED
  BY <1>1, <1>3 DEF StoredSo, TopStored, Depth, Count

LEMMA StoredStoreLast ==
    ASSUME TokenShape, Piled, StoredSo, Tokens!StoreLast
    PROVE  StoredSo'
<1>1. PICK f \in Frame : MovesOn(f) /\ f.pc = "time"
  BY Movers
<1>2. /\ UNCHANGED <<raw_clock, token_events, touched>>
      /\ stack # << >> /\ Tokens!Top.pc = "last"
      /\ last_token' = TokenOf(Tokens!Top)
      /\ Grows(TokenOf(Tokens!Top))
  BY StoreLastKeeps
<1>3. PICK d \in Nat \ {0} : d = Depth /\ Depth' = d /\ Tokens!Top = stack[d]
  BY <1>1 DEF MovesOn, Moved, Depth, Tokens!Top
<1>4. PICK top \in Frame : top = stack[d] /\ top.pc = "last"
  BY <1>2, <1>3, TopType
<1>5. PICK token : /\ token = TokenOf(top) /\ token.category = top.kind
                   /\ token.event = top.event /\ token.at = top.at
  BY TokenOfType
<1>6. /\ f.event = top.event /\ f.kind = top.kind /\ f.at = top.at
      /\ stack'[d] = f /\ \A j \in 1 .. d - 1 : stack'[j] = stack[j]
  BY <1>1, <1>3, <1>4 DEF MovesOn, Moved, Depth
<1>7. PICK n \in Nat : n = Count /\ Count' = n + 1
  BY <1>2 DEF Grows, Count
<1>8. tokens'[n + 1] = token /\ \A i \in 1 .. n : tokens'[i] = tokens[i]
  BY <1>2, <1>3, <1>4, <1>5, <1>7 DEF Grows, Count
<1>9. \A i \in 1 .. n + 1 : i = n + 1 \/ i \in 1 .. n
  OBVIOUS
<1>10. ASSUME NEW i \in 1 .. n + 1
       PROVE  /\ tokens'[i].event >= 1 /\ tokens'[i].event <= token_events
              /\ tokens'[i].at >= Tokens!Start /\ tokens'[i].at <= raw_clock
              /\ tokens'[i].category \in Tokens!Kind
  <2>1. CASE i = n + 1
    <3>1. d \in 1 .. Len(stack)
      BY <1>3 DEF Depth
    <3> QED
      BY <1>4, <1>5, <1>8, <2>1, <3>1, FrameTypes DEF Piled
  <2>2. CASE i # n + 1
    <3>1. i \in 1 .. n
      BY <2>2
    <3> QED
      BY <1>7, <1>8, <3>1 DEF StoredSo
  <2> QED
    BY <2>1, <2>2
<1>11. ASSUME NEW j \in 1 .. d, stack'[j].pc \notin Stored,
              NEW i \in 1 .. n + 1
       PROVE  tokens'[i].event # stack'[j].event
  <2>1. j # d
    BY <1>1, <1>6, <1>11 DEF Stored
  <2>2. j \in 1 .. d - 1
    BY <2>1
  <2>3. stack'[j] = stack[j] /\ j < d
    BY <1>6, <2>2
  <2>4. CASE i = n + 1
    <3>1. stack[j].event # stack[d].event
      <4>1. j \in 1 .. Len(stack) /\ d \in 1 .. Len(stack)
        BY <1>3 DEF Depth
      <4> QED
        BY <2>3, <4>1 DEF Piled
    <3> QED
      BY <1>4, <1>5, <1>8, <2>3, <2>4, <3>1
  <2>5. CASE i # n + 1
    <3>1. i \in 1 .. n
      BY <2>5
    <3> QED
      BY <1>3, <1>7, <1>8, <1>11, <2>3, <3>1 DEF StoredSo
  <2> QED
    BY <2>4, <2>5
<1>12. last_token' = tokens'[n + 1]
  BY <1>2, <1>3, <1>4, <1>5, <1>8
<1>13. n + 1 > 0
  OBVIOUS
<1> QED
  BY <1>2, <1>3, <1>5, <1>6, <1>7, <1>8, <1>10, <1>11, <1>12, <1>13
     DEF StoredSo

LEMMA StoredNext ==
    TokenShape /\ Piled /\ StoredSo /\ [Tokens!Next]_(Tokens!vars) => StoredSo'
<1> SUFFICES ASSUME TokenShape, Piled, StoredSo, [Tokens!Next]_(Tokens!vars)
             PROVE  StoredSo'
  OBVIOUS
<1>1. CASE UNCHANGED Tokens!vars
  BY <1>1 DEF Tokens!vars, Tokens!times, Tokens!state, Tokens!history, StoredSo,
              TopStored, Depth, Count
<1>2. ASSUME Tokens!Tokenize \/ Tokens!StoreTime \/ Tokens!Learn
      PROVE  StoredSo'
  <2>1. UNCHANGED <<raw_clock, token_events, touched, tokens, last_token>>
    BY <1>2, TokenizeKeeps, StoreTimeKeeps, LearnKeeps
  <2>2. \E f \in Frame : /\ MovesOn(f)
                         /\ f.pc \in Stored <=> Tokens!Top.pc \in Stored
    BY <1>2, Movers, TokenizeKeeps, StoreTimeKeeps, LearnKeeps DEF Stored
  <2> QED
    BY <2>1, <2>2, StoredMove
<1>3. ASSUME Tokens!FirstEvent \/ Tokens!Save PROVE StoredSo'
  <2>1. UNCHANGED <<raw_clock, token_events, touched, tokens, last_token>>
    BY <1>3, FirstEventKeeps, SaveKeeps
  <2> QED
    BY <1>3, <2>1, Poppers, StoredPop
<1> QED
  BY <1>1, <1>2, <1>3, StoredFire, StoredTick, StoredStoreLast DEF Tokens!Next

------------------------------------------------------------------------------
(* What the learner has been given. A probe about to save has had the      *)
(* previous token learnt, and the last one if none runs above it. A token  *)
(* whose probe was not interrupted is learnt, or its probe is just about   *)
(* to; after the one before it, which is the previous token from when its  *)
(* probe ended until the next one is learnt.                               *)
Paired(token) == \E pair \in learnt : token \in {pair[1], pair[2]}
Own == Depth > 0 /\ stack[Depth].event = tokens[Count].event
ToLearn(i) ==
    /\ i = Count /\ Own
    /\ stack[Depth].pc \in {"time", "process"}

Learning ==
    /\ \A j \in 1 .. Depth : stack[j].pc = "save" =>
           prev_token # Tokens!NoToken /\ Paired(prev_token)
    /\ Depth > 0 /\ stack[Depth].pc = "save" => Paired(last_token)
    /\ \A i \in 1 .. Count : Tokens!Whole(i) =>
           tokens[i] = prev_token \/ Paired(tokens[i]) \/ ToLearn(i)
    /\ \A i \in 2 .. Count : Tokens!Whole(i) /\ Tokens!Whole(i - 1) =>
           \/ <<tokens[i - 1], tokens[i]>> \in learnt
           \/ ToLearn(i) /\ prev_token = tokens[i - 1]
    /\ Count > 0 /\ Tokens!Whole(Count) => Own \/ prev_token = tokens[Count]

LEMMA LearningInit == Tokens!Init => Learning
<1> SUFFICES ASSUME Tokens!Init PROVE Learning
  OBVIOUS
<1>1. Depth = 0 /\ Count = 0
  BY DEF Tokens!Init, Depth, Count
<1> QED
  BY <1>1 DEF Learning

LEMMA LearningFire ==
    ASSUME TokenShape, Learning, NEW k \in Tokens!Kind, Tokens!Fire(k)
    PROVE  Learning'
<1>1. PICK f \in Frame : Pushed(f) /\ f.pc = "gap"
  BY FirePushes
<1>2. /\ UNCHANGED <<last_token, prev_token, tokens, learnt>>
      /\ stack = << >> => UNCHANGED touched
      /\ stack # << >> => touched' = touched \cup {Tokens!Top.event}
  BY FireKeeps
<1>3. PICK d \in Nat : d = Depth /\ Depth' = d + 1 /\ (d = 0 <=> stack = << >>)
  BY <1>1 DEF Pushed, TokenShape, Depth
<1>4. /\ stack'[d + 1] = f /\ \A j \in 1 .. d : stack'[j] = stack[j]
      /\ \A j \in 1 .. d + 1 : j = d + 1 \/ j \in 1 .. d
  BY <1>1, <1>3 DEF Pushed, Depth
<1>5. PICK n \in Nat : n = Count /\ Count' = n
  BY <1>2 DEF Count, TokenShape
<1>6. \A i \in Nat : Tokens!Whole(i)' => Tokens!Whole(i)
  BY <1>2 DEF Tokens!Whole
<1>7. n > 0 /\ Tokens!Whole(n)' => ~Own
  BY <1>2, <1>3, <1>5 DEF Own, Tokens!Whole, Tokens!Top, Depth
<1>8. \A i \in 1 .. n : Tokens!Whole(i)' => ~ToLearn(i)
  BY <1>5, <1>7 DEF ToLearn
<1>9. \A token : Paired(token)' <=> Paired(token)
  BY <1>2 DEF Paired
<1>10. \A j \in 1 .. d + 1 : stack'[j].pc = "save" =>
           prev_token # Tokens!NoToken /\ Paired(prev_token)
  BY <1>1, <1>3, <1>4 DEF Learning
<1>11. stack'[d + 1].pc # "save"
  BY <1>1, <1>4
<1>12. \A i \in 1 .. n : Tokens!Whole(i)' =>
           tokens[i] = prev_token \/ Paired(tokens[i])
  BY <1>5, <1>6, <1>8 DEF Learning
<1>13. \A i \in 2 .. n : Tokens!Whole(i)' /\ Tokens!Whole(i - 1)' =>
           <<tokens[i - 1], tokens[i]>> \in learnt
  <2>1. \A i \in 2 .. n : i \in 1 .. n /\ i \in Nat /\ i - 1 \in Nat
    OBVIOUS
  <2> QED
    BY <1>5, <1>6, <1>8, <2>1 DEF Learning
<1>14. n > 0 /\ Tokens!Whole(n)' => prev_token = tokens[n]
  BY <1>5, <1>6, <1>7 DEF Learning
<1> QED
  BY <1>2, <1>3, <1>5, <1>9, <1>10, <1>11, <1>12, <1>13, <1>14 DEF Learning

LEMMA LearningMove ==
    ASSUME TokenShape, Learning, NEW f \in Frame, MovesOn(f), f.pc # "save",
           Tokens!Top.pc \in {"time", "process"} => f.pc \in {"time", "process"},
           UNCHANGED <<touched, tokens, last_token, prev_token, learnt>>
    PROVE  Learning'
<1>1. PICK d \in Nat \ {0} : d = Depth /\ Depth' = d
  BY DEF MovesOn, Moved, Depth
<1>2. /\ stack'[d] = f /\ f.event = stack[d].event
      /\ \A j \in 1 .. d - 1 : stack'[j] = stack[j]
      /\ \A j \in 1 .. d : j = d \/ j \in 1 .. d - 1
  BY <1>1 DEF MovesOn, Moved, Tokens!Top, Depth
<1>3. Count' = Count /\ (Own' <=> Own)
  BY <1>1, <1>2 DEF Count, Own
<1>4. \A i : ToLearn(i) => ToLearn(i)'
  BY <1>1, <1>2, <1>3 DEF ToLearn, Tokens!Top, Depth
<1>5. \A token : Paired(token)' <=> Paired(token)
  BY DEF Paired
<1>6. \A i : Tokens!Whole(i)' <=> Tokens!Whole(i)
  BY DEF Tokens!Whole
<1>7. \A j \in 1 .. d : stack'[j].pc = "save" =>
          prev_token # Tokens!NoToken /\ Paired(prev_token)
  BY <1>1, <1>2 DEF Learning
<1> QED
  BY <1>1, <1>2, <1>3, <1>4, <1>5, <1>6, <1>7 DEF Learning

LEMMA LearningStoreLast ==
    ASSUME TokenShape, StoredSo, Learning, Tokens!StoreLast
    PROVE  Learning'
<1>1. PICK f \in Frame : MovesOn(f) /\ f.pc = "time"
  BY Movers
<1>2. /\ UNCHANGED <<prev_token, learnt, touched>>
      /\ Tokens!Top.pc = "last" /\ stack # << >>
      /\ last_token' = TokenOf(Tokens!Top)
      /\ Grows(TokenOf(Tokens!Top))
  BY StoreLastKeeps
<1>3. PICK d \in Nat \ {0} : d = Depth /\ Depth' = d /\ Tokens!Top = stack[d]
  BY <1>1 DEF MovesOn, Moved, Depth, Tokens!Top
<1>4. PICK token : /\ token = TokenOf(Tokens!Top)
                   /\ token.event = stack[d].event
  BY <1>2, <1>3, TopType, TokenOfType
<1>5. /\ stack'[d] = f /\ f.event = stack[d].event
      /\ \A j \in 1 .. d - 1 : stack'[j] = stack[j]
      /\ \A j \in 1 .. d : j = d \/ j \in 1 .. d - 1
  BY <1>1, <1>3 DEF MovesOn, Moved, Depth
<1>6. PICK n \in Nat : n = Count /\ Count' = n + 1
  BY <1>2 DEF Grows, Count
<1>7. /\ tokens'[n + 1] = token
      /\ \A i \in 1 .. n : tokens'[i] = tokens[i]
      /\ \A i \in 1 .. n + 1 : i = n + 1 \/ i \in 1 .. n
  BY <1>2, <1>4, <1>6 DEF Grows, Count
<1>8. Own' /\ ToLearn(n + 1)'
  BY <1>1, <1>3, <1>4, <1>5, <1>6, <1>7 DEF Own, ToLearn
<1>9. \A i \in 1 .. n : ~ToLearn(i) /\ (i = n => ~Own)
  <2>1. stack[d].pc = "last" /\ "last" \notin Stored
    BY <1>2, <1>3 DEF Stored
  <2>2. \A i \in 1 .. n : tokens[i].event # stack[d].event
    BY <1>3, <1>6, <2>1 DEF StoredSo
  <2> QED
    BY <1>3, <1>6, <2>2 DEF Own, ToLearn
<1>10. \A t : Paired(t)' <=> Paired(t)
  BY <1>2 DEF Paired
<1>11. \A i \in 1 .. n : Tokens!Whole(i)' <=> Tokens!Whole(i)
  BY <1>2, <1>7 DEF Tokens!Whole
<1>12. \A j \in 1 .. d : stack'[j].pc = "save" =>
           prev_token # Tokens!NoToken /\ Paired(prev_token)
  BY <1>1, <1>3, <1>5 DEF Learning
<1>13. \A i \in 1 .. n + 1 : Tokens!Whole(i)' =>
           tokens'[i] = prev_token \/ Paired(tokens'[i]) \/ ToLearn(i)'
  BY <1>6, <1>7, <1>8, <1>9, <1>11 DEF Learning
<1>14. ASSUME NEW i \in 2 .. n + 1, Tokens!Whole(i)', Tokens!Whole(i - 1)'
       PROVE  \/ <<tokens'[i - 1], tokens'[i]>> \in learnt
              \/ ToLearn(i)' /\ prev_token = tokens'[i - 1]
  <2>1. CASE i = n + 1
    <3>1. n \in 1 .. n /\ i - 1 = n
      BY <1>14, <2>1
    <3>2. Tokens!Whole(n) /\ n > 0 /\ ~Own
      BY <1>9, <1>11, <1>14, <3>1
    <3>3. prev_token = tokens[n]
      BY <1>6, <3>2 DEF Learning
    <3> QED
      BY <1>7, <1>8, <2>1, <3>1, <3>3
  <2>2. CASE i # n + 1
    <3>1. i \in 2 .. n /\ i \in 1 .. n /\ i - 1 \in 1 .. n
      BY <2>2
    <3>2. <<tokens[i - 1], tokens[i]>> \in learnt
      BY <1>6, <1>9, <1>11, <1>14, <3>1 DEF Learning
    <3> QED
      BY <1>7, <3>1, <3>2
  <2> QED
    BY <2>1, <2>2
<1>15. stack'[d].pc # "save"
  BY <1>1, <1>5
<1> QED
  BY <1>2, <1>3, <1>6, <1>8, <1>10, <1>12, <1>13, <1>14, <1>15 DEF Learning

LEMMA TokensReal ==
    ASSUME TokenShape, StoredSo, NEW i \in 1 .. Count
    PROVE  tokens[i] # Tokens!NoToken
<1>1. tokens[i].event \in Nat /\ tokens[i].event >= 1
  BY TokenTypes DEF StoredSo
<1> QED
  BY <1>1, NoTokenType

LEMMA LearningLearn ==
    ASSUME TokenShape, StoredSo, Learning, Tokens!Learn
    PROVE  Learning'
<1>1. PICK f \in Frame : MovesOn(f)
  BY Movers
<1>2. /\ UNCHANGED <<last_token, prev_token, tokens, touched>>
      /\ prev_token # Tokens!NoToken
      /\ learnt' = learnt \cup {<<prev_token, last_token>>}
  BY LearnKeeps
<1>3. PICK d \in Nat \ {0} : d = Depth /\ Depth' = d
  BY <1>1 DEF MovesOn, Moved, Depth
<1>4. stack'[d].event = stack[d].event
  BY <1>1, <1>3 DEF MovesOn, Moved, Tokens!Top, Depth
<1>5. PICK n \in Nat : n = Count /\ Count' = n
  BY <1>2 DEF Count, TokenShape
<1>6. Own' <=> Own
  BY <1>2, <1>3, <1>4, <1>5 DEF Own
<1>7. Paired(prev_token)' /\ Paired(last_token)'
  <2>1. <<prev_token, last_token>> \in learnt'
    BY <1>2
  <2> QED
    BY <1>2, <2>1 DEF Paired
<1>8. \A token : Paired(token) => Paired(token)'
  BY <1>2 DEF Paired
<1>9. n > 0 => last_token = tokens[n]
  BY <1>5 DEF StoredSo
<1>10. \A i \in Nat : Tokens!Whole(i)' <=> Tokens!Whole(i)
  BY <1>2 DEF Tokens!Whole
<1>11. \A i \in 1 .. n : ToLearn(i) => tokens[i] = last_token
  BY <1>5, <1>9 DEF ToLearn
<1>12. \A i \in 1 .. n : Tokens!Whole(i) =>
           tokens[i] = prev_token \/ Paired(tokens[i])'
  BY <1>2, <1>5, <1>7, <1>8, <1>11 DEF Learning
<1>13. \A i \in 2 .. n : Tokens!Whole(i) /\ Tokens!Whole(i - 1) =>
           <<tokens[i - 1], tokens[i]>> \in learnt'
  <2>1. \A i \in 2 .. n : i \in 1 .. n /\ i \in Nat
    OBVIOUS
  <2> QED
    BY <1>2, <1>5, <1>11, <2>1 DEF Learning
<1>14. n > 0 /\ Tokens!Whole(n) => Own \/ prev_token = tokens[n]
  BY <1>5 DEF Learning
<1>15. \A i \in 2 .. n : i \in Nat /\ i - 1 \in Nat
  OBVIOUS
<1> QED
  BY <1>2, <1>3, <1>5, <1>6, <1>7, <1>10, <1>12, <1>13, <1>14, <1>15
     DEF Learning

(* A probe ends: the previous token is now the last one.                   *)
LEMMA LearningEnds ==
    ASSUME TokenShape, StoredSo, Learning, Popped, prev_token' = last_token,
           UNCHANGED <<last_token, tokens, learnt, touched>>,
           stack[Depth].pc \in Stored,
           \A i \in 1 .. Count : tokens[i] = prev_token => Paired(tokens[i]),
           \A i \in 2 .. Count : ToLearn(i) => prev_token # tokens[i - 1],
           \A j \in 1 .. Depth - 1 : stack[j].pc = "save" => Paired(last_token)
    PROVE  Learning'
<1>1. PICK d \in Nat \ {0} : d = Depth /\ Depth' = d - 1
  BY DEF Popped, Depth
<1>2. \A j \in 1 .. d - 1 : stack'[j] = stack[j]
  BY <1>1 DEF Popped, Depth
<1>3. PICK n \in Nat : n = Count /\ Count' = n
  BY DEF Count, TokenShape
<1>4. n > 0 /\ last_token = tokens[n]
  <2>1. d \in 1 .. d
    OBVIOUS
  <2> QED
    BY <1>1, <1>3, <2>1 DEF StoredSo
<1>5. last_token # Tokens!NoToken
  BY <1>3, <1>4, TokensReal
<1>7. \A i \in Nat : Tokens!Whole(i)' <=> Tokens!Whole(i)
  BY DEF Tokens!Whole
<1>8. \A j \in 1 .. d - 1 : stack'[j].pc = "save" => Paired(last_token)
  BY <1>1, <1>2
<1>9. d - 1 > 0 => d - 1 \in 1 .. d - 1
  OBVIOUS
<1>10. \A i \in 1 .. n : Tokens!Whole(i) =>
           tokens[i] = last_token \/ Paired(tokens[i])
  BY <1>3, <1>4 DEF Learning, ToLearn
<1>11. \A i \in 2 .. n : Tokens!Whole(i) /\ Tokens!Whole(i - 1) =>
           <<tokens[i - 1], tokens[i]>> \in learnt
  BY <1>3 DEF Learning
<1>12. /\ \A i \in 2 .. n : i \in Nat /\ i - 1 \in Nat
       /\ \A i \in 1 .. n : i \in Nat
  OBVIOUS
<1>13. \A j \in 1 .. d - 1 : stack'[j].pc = "save" =>
           prev_token' # Tokens!NoToken /\ Paired(prev_token)'
  BY <1>5, <1>8 DEF Paired
<1>14. d - 1 > 0 /\ stack'[d - 1].pc = "save" => Paired(last_token)'
  BY <1>8, <1>9 DEF Paired
<1>15. \A i \in 1 .. n : Tokens!Whole(i)' =>
           tokens'[i] = prev_token' \/ Paired(tokens[i])'
  BY <1>7, <1>10, <1>12 DEF Paired
<1>16. \A i \in 2 .. n : Tokens!Whole(i)' /\ Tokens!Whole(i - 1)' =>
           <<tokens'[i - 1], tokens'[i]>> \in learnt'
  BY <1>7, <1>11, <1>12
<1>17. prev_token' = tokens'[n]
  BY <1>4
<1> QED
  BY <1>1, <1>3, <1>13, <1>14, <1>15, <1>16, <1>17 DEF Learning

LEMMA LearningFirstEvent ==
    ASSUME TokenShape, StoredSo, Learning, Tokens!FirstEvent
    PROVE  Learning'
<1>1. /\ Popped /\ stack[Depth].pc = "process"
      /\ UNCHANGED <<last_token, tokens, learnt, touched>>
      /\ prev_token = Tokens!NoToken /\ prev_token' = last_token
  BY Poppers, FirstEventKeeps DEF Tokens!Top, Depth
<1>2. stack[Depth].pc \in Stored
  BY <1>1 DEF Stored
<1>3. \A i \in 1 .. Count : tokens[i] # prev_token
  BY <1>1, TokensReal
<1>4. \A i \in 2 .. Count : i - 1 \in 1 .. Count
  BY DEF Count, TokenShape
<1>5. \A j \in 1 .. Depth - 1 : stack[j].pc # "save"
  <2>1. \A j \in 1 .. Depth - 1 : j \in 1 .. Depth
    BY DEF Depth, TokenShape
  <2> QED
    BY <1>1, <2>1 DEF Learning
<1> QED
  BY <1>1, <1>2, <1>3, <1>4, <1>5, LearningEnds

LEMMA LearningSave ==
    ASSUME TokenShape, StoredSo, Learning, Tokens!Save
    PROVE  Learning'
<1>1. /\ Popped /\ stack[Depth].pc = "save" /\ Depth \in Nat \ {0}
      /\ UNCHANGED <<last_token, tokens, learnt, touched>>
      /\ prev_token' = last_token
  BY Poppers, SaveKeeps, TopType DEF Tokens!Top, Depth
<1>2. stack[Depth].pc \in Stored
  BY <1>1 DEF Stored
<1>3. Paired(prev_token) /\ Paired(last_token)
  <2>1. Depth \in 1 .. Depth
    BY <1>1
  <2> QED
    BY <1>1, <2>1 DEF Learning
<1>4. \A i : ~ToLearn(i)
  BY <1>1 DEF ToLearn
<1> QED
  BY <1>1, <1>2, <1>3, <1>4, LearningEnds

LEMMA LearningNext ==
    TokenShape /\ Piled /\ StoredSo /\ Learning /\ [Tokens!Next]_(Tokens!vars)
        => Learning'
<1> SUFFICES ASSUME TokenShape, Piled, StoredSo, Learning,
                    [Tokens!Next]_(Tokens!vars)
             PROVE  Learning'
  OBVIOUS
<1>1. ASSUME UNCHANGED <<stack, last_token, prev_token, tokens, learnt,
                         touched>>
      PROVE  Learning'
  BY <1>1 DEF Learning, Depth, Count, Own, ToLearn, Paired, Tokens!Whole
<1>2. CASE UNCHANGED Tokens!vars
  BY <1>1, <1>2 DEF Tokens!vars, Tokens!state, Tokens!history
<1>3. ASSUME Tokens!Tick PROVE Learning'
  BY <1>1, <1>3, TickKeeps
<1>4. ASSUME Tokens!Tokenize PROVE Learning'
  <2>1. /\ UNCHANGED <<touched, tokens, last_token, prev_token, learnt>>
        /\ Tokens!Top.pc = "gap"
    BY <1>4, TokenizeKeeps
  <2>2. PICK f \in Frame : MovesOn(f) /\ f.pc = "last"
    BY <1>4, Movers
  <2> QED
    BY <2>1, <2>2, LearningMove
<1>5. ASSUME Tokens!StoreTime PROVE Learning'
  <2>1. UNCHANGED <<touched, tokens, last_token, prev_token, learnt>>
    BY <1>5, StoreTimeKeeps
  <2>2. PICK f \in Frame : MovesOn(f) /\ f.pc = "process"
    BY <1>5, Movers
  <2> QED
    BY <2>1, <2>2, LearningMove
<1> QED
  BY <1>2, <1>3, <1>4, <1>5, LearningFire, LearningStoreLast, LearningLearn,
     LearningFirstEvent, LearningSave DEF Tokens!Next

------------------------------------------------------------------------------
(* Where the time of the last token is, while neither its probe nor another *)
(* was disturbed: before prev_ns is set to it only its own probe runs;      *)
(* afterwards, nothing that could overwrite it is between gap and time.     *)
SameClock(category, kind) == (category = "io") = (kind = "io")
LastAlone == Count > 0 /\ Tokens!Alone(Count)
LastStamp == Stamp(tokens[Count].category, tokens[Count].at)

Waiting ==
    LastAlone /\ ~Own =>
        /\ prev_ns = LastStamp
        /\ \A j \in 1 .. Depth : /\ stack[j].pc \notin Stored
                                 /\ stack[j].at >= tokens[Count].at

Ending ==
    LastAlone /\ Own /\ stack[Depth].pc \in {"process", "save"} =>
        prev_ns = LastStamp

Measured ==
    /\ Depth > 0 /\ stack[Depth].pc = "last"
    /\ stack[Depth].event \notin touched
    /\ LastAlone /\ SameClock(tokens[Count].category, stack[Depth].kind)
    => stack[Depth].gap =
           Tokens!quantize_gap_ns(stack[Depth].at - tokens[Count].at)

Timed == Waiting /\ Ending /\ Measured /\ Tokens!GapsHonest
TokensInv == TokenShape /\ Piled /\ StoredSo /\ Learning /\ Timed

LEMMA TimedInit == Tokens!Init => Timed
<1> SUFFICES ASSUME Tokens!Init PROVE Timed
  OBVIOUS
<1>1. Depth = 0 /\ Count = 0 /\ Len(tokens) = 0
  BY DEF Tokens!Init, Depth, Count
<1> QED
  BY <1>1 DEF Timed, Waiting, Ending, Measured, LastAlone, Tokens!GapsHonest

(* An event after which nothing else was stored and whose probe runs alone *)
(* has the stack to itself.                                                *)
LEMMA AloneAlone ==
    ASSUME TokenShape, Piled, LastAlone, Own
    PROVE  Depth = 1
<1>1. PICK d \in Nat \ {0} : d = Depth
  BY DEF Own, Depth, TokenShape
<1>2. stack[d].event \notin nested
  BY <1>1 DEF LastAlone, Tokens!Alone, Own
<1>3. d >= 2 => d \in 2 .. Len(stack)
  BY <1>1 DEF Depth
<1> QED
  BY <1>1, <1>2, <1>3 DEF Piled

(* Nothing is on the stack that has stored its token but the probe of the  *)
(* last one.                                                               *)
LEMMA StoredIsOwn ==
    ASSUME Timed, LastAlone, TopStored, Depth \in Nat
    PROVE  Own
<1>1. Depth \in 1 .. Depth
  BY DEF TopStored
<1> QED
  BY <1>1 DEF Timed, Waiting, TopStored

(* The steps that leave the tokens alone cannot make the gaps wrong.       *)
LEMMA GapsKept ==
    ASSUME TokenShape, Tokens!GapsHonest, tokens' = tokens,
           touched \subseteq touched',
           \A i \in 1 .. Count : Tokens!Alone(i)' => Tokens!Alone(i)
    PROVE  Tokens!GapsHonest'
<1>1. PICK n \in Nat : n = Count /\ Len(tokens) = n /\ Len(tokens') = n
  BY DEF Count, TokenShape
<1>2. \A i \in 2 .. n : i - 1 \in 1 .. n
  OBVIOUS
<1>3. \A i \in 2 .. n : Tokens!Alone(i - 1)' => Tokens!Alone(i - 1)
  BY <1>1, <1>2
<1>4. \A i \in 2 .. n : Tokens!Whole(i)' => Tokens!Whole(i)
  BY DEF Tokens!Whole
<1>5. \A i : Tokens!Elapsed(i)' = Tokens!Elapsed(i)
  BY DEF Tokens!Elapsed
<1> QED
  BY <1>1, <1>3, <1>4, <1>5 DEF Tokens!GapsHonest

LEMMA TimedFire ==
    ASSUME TokenShape, Piled, StoredSo, Timed, NEW k \in Tokens!Kind,
           Tokens!Fire(k)
    PROVE  Timed'
<1>1. PICK f \in Frame :
         /\ Pushed(f) /\ f.event = token_events + 1 /\ f.at = raw_clock
         /\ f.pc = "gap"
  BY FirePushes
<1>2. /\ UNCHANGED <<skew, prev_ns, tokens>>
      /\ stack = << >> => UNCHANGED <<touched, nested>>
      /\ stack # << >> => /\ touched' = touched \cup {Tokens!Top.event}
                          /\ nested' = nested \cup {token_events + 1}
  BY FireKeeps
<1>3. PICK d \in Nat : d = Depth /\ Depth' = d + 1 /\ (d = 0 <=> stack = << >>)
  BY <1>1 DEF Pushed, TokenShape, Depth
<1>4. /\ stack'[d + 1] = f /\ \A j \in 1 .. d : stack'[j] = stack[j]
      /\ \A j \in 1 .. d + 1 : j = d + 1 \/ j \in 1 .. d
  BY <1>1, <1>3 DEF Pushed, Depth
<1>5. PICK n \in Nat : n = Count /\ Count' = n
  BY <1>2 DEF Count, TokenShape
<1>6. \A i \in 1 .. n : Tokens!Alone(i)' => Tokens!Alone(i)
  BY <1>2 DEF Tokens!Alone, Tokens!Whole
<1>7. LastAlone' => LastAlone
  BY <1>5, <1>6 DEF LastAlone
<1>8. LastAlone' => ~Own
  BY <1>2, <1>3, <1>5 DEF LastAlone, Own, Tokens!Alone, Tokens!Whole,
     Tokens!Top, Depth
<1>9. LastAlone' => ~Own'
  <2>1. ASSUME n > 0 PROVE tokens[n].event # token_events + 1
    <3>1. n \in 1 .. Count
      BY <1>5, <2>1
    <3>2. tokens[n].event \in Nat /\ tokens[n].event <= token_events
      BY <3>1, TokenTypes DEF StoredSo
    <3> QED
      BY <3>2 DEF TokenShape
  <2> QED
    BY <1>1, <1>2, <1>3, <1>4, <1>5, <2>1 DEF LastAlone, Own
<1>10. Waiting'
  <2> SUFFICES ASSUME LastAlone' PROVE
          /\ prev_ns' = LastStamp'
          /\ \A j \in 1 .. Depth' : /\ stack'[j].pc \notin Stored
                                    /\ stack'[j].at >= tokens'[Count'].at
    BY DEF Waiting
  <2>1. /\ prev_ns = LastStamp
        /\ \A j \in 1 .. d : /\ stack[j].pc \notin Stored
                             /\ stack[j].at >= tokens[n].at
    BY <1>3, <1>5, <1>7, <1>8 DEF Timed, Waiting
  <2>2. f.pc \notin Stored /\ f.at >= tokens[n].at
    <3>1. n \in 1 .. Count
      BY <1>5 DEF LastAlone
    <3>2. tokens[n].at \in Int /\ tokens[n].at <= raw_clock
      BY <3>1, TokenTypes DEF StoredSo
    <3>3. raw_clock >= tokens[n].at
      BY <3>2 DEF TokenShape
    <3> QED
      BY <1>1, <3>3 DEF Stored
  <2>3. prev_ns' = LastStamp'
    BY <1>2, <1>5, <2>1 DEF LastStamp, Stamp
  <2> QED
    BY <1>2, <1>3, <1>4, <1>5, <2>1, <2>2, <2>3
<1>11. Ending'
  BY <1>9 DEF Ending
<1>12. Measured'
  BY <1>1, <1>3, <1>4 DEF Measured
<1>13. touched \subseteq touched' /\ Tokens!GapsHonest
  BY <1>2 DEF Timed
<1>14. Tokens!GapsHonest'
  BY <1>2, <1>5, <1>6, <1>13, GapsKept
<1> QED
  BY <1>10, <1>11, <1>12, <1>14 DEF Timed

(* The gap of a probe above nothing that has stored: with the clocks apart *)
(* by less than the raw one started at, the difference does not wrap.      *)
LEMMA NoWrap ==
    ASSUME NEW early \in Int, NEW late \in Int, NEW ahead \in Int,
           NEW n \in Int, NEW span \in Nat, NEW most \in Nat,
           ahead >= -most, early >= most + 1,
           late >= early, late <= most + 1 + span, span < n
    PROVE  /\ early # 0 /\ early + ahead # 0
           /\ (late - early) % n = late - early
           /\ ((late + ahead) - (early + ahead)) % n = late - early
<1>1. early # 0 /\ early + ahead # 0
  OBVIOUS
<1>2. late - early \in Nat /\ late - early < n
  OBVIOUS
<1>3. (late + ahead) - (early + ahead) = late - early
  OBVIOUS
<1>4. (late - early) % n = late - early
  BY <1>2
<1> QED
  BY <1>1, <1>3, <1>4

LEMMA GapMeasured ==
    ASSUME TokenShape, Piled, StoredSo, NEW j \in 1 .. Depth,
           NEW i \in 1 .. Count, stack[j].at >= tokens[i].at,
           prev_ns = Stamp(tokens[i].category, tokens[i].at),
           SameClock(tokens[i].category, stack[j].kind)
    PROVE  Tokens!compute_gap_class(stack[j].now) =
               Tokens!quantize_gap_ns(stack[j].at - tokens[i].at)
<1>1. PICK early \in Int : early = tokens[i].at
  BY TokenTypes
<1>2. PICK late \in Int : late = stack[j].at
  BY FrameTypes DEF Depth
<1>3. early >= MaxSkew + 1
  BY <1>1, ConstantsOf DEF StoredSo
<1>4. late <= (MaxSkew + 1) + MaxTime /\ stack[j].now = Stamp(stack[j].kind, late)
  <2>1. /\ late <= raw_clock /\ raw_clock <= (MaxSkew + 1) + MaxTime
        /\ stack[j].now = Stamp(stack[j].kind, late)
    BY <1>2, ConstantsOf DEF Piled, Depth
  <2>2. raw_clock \in Int /\ MaxSkew \in Int /\ MaxTime \in Int
    BY ConstantsOf DEF TokenShape
  <2> QED
    BY <2>1, <2>2
<1>5. skew \in Int /\ skew >= -MaxSkew
  BY DEF TokenShape, Piled
<1>6. MaxSkew \in Nat /\ MaxTime \in Nat /\ Modulus \in Int /\ MaxTime < Modulus
  BY ConstantsOf
<1>7. /\ early # 0 /\ early + skew # 0
      /\ (late - early) % Modulus = late - early
      /\ ((late + skew) - (early + skew)) % Modulus = late - early
  <2>1. late >= early
    BY <1>1, <1>2
  <2>2. late <= MaxSkew + 1 + MaxTime
    BY <1>4
  <2> QED
    BY <1>3, <1>5, <1>6, <2>1, <2>2, NoWrap
<1>8. prev_ns # 0 /\ (stack[j].now - prev_ns) % Modulus = late - early
  <2>1. CASE stack[j].kind = "io"
    <3>1. prev_ns = early + skew /\ stack[j].now = late + skew
      BY <1>1, <1>4, <2>1 DEF SameClock, Stamp
    <3> QED
      BY <1>7, <3>1
  <2>2. CASE stack[j].kind # "io"
    <3>1. prev_ns = early /\ stack[j].now = late
      BY <1>1, <1>4, <2>2 DEF SameClock, Stamp
    <3> QED
      BY <1>7, <3>1
  <2> QED
    BY <2>1, <2>2
<1> QED
  BY <1>1, <1>2, <1>8 DEF Tokens!compute_gap_class

LEMMA TimedTokenize ==
    ASSUME TokenShape, Piled, StoredSo, Timed, Tokens!Tokenize
    PROVE  Timed'
<1>1. PICK f \in Frame :
         /\ MovesOn(f) /\ f.pc = "last"
         /\ f.gap = Tokens!compute_gap_class(Tokens!Top.now)
  BY Movers
<1>2. /\ UNCHANGED <<skew, prev_ns, tokens, touched, nested>>
      /\ Tokens!Top.pc = "gap"
  BY TokenizeKeeps
<1>3. PICK d \in Nat \ {0} : d = Depth /\ Depth' = d
  BY <1>1 DEF MovesOn, Moved, Depth
<1>4. /\ stack'[d] = f /\ stack[d] = Tokens!Top
      /\ \A j \in 1 .. d - 1 : stack'[j] = stack[j]
      /\ \A j \in 1 .. d : j = d \/ j \in 1 .. d - 1
      /\ f.event = stack[d].event /\ f.at = stack[d].at /\ f.kind = stack[d].kind
      /\ d \in 1 .. d
  BY <1>1, <1>3 DEF MovesOn, Moved, Tokens!Top, Depth
<1>5. PICK n \in Nat : n = Count /\ Count' = n
  BY <1>2 DEF Count, TokenShape
<1>6. \A i : Tokens!Alone(i)' <=> Tokens!Alone(i)
  BY <1>2 DEF Tokens!Alone, Tokens!Whole
<1>7. LastAlone' <=> LastAlone
  BY <1>5, <1>6 DEF LastAlone
<1>8. n > 0 => ~Own /\ ~Own'
  <2>1. stack[d].pc \notin Stored
    BY <1>2, <1>4 DEF Stored
  <2>2. n > 0 => tokens[n].event # stack[d].event
    BY <1>3, <1>4, <1>5, <2>1 DEF StoredSo
  <2> QED
    BY <1>2, <1>3, <1>4, <1>5, <2>2 DEF Own
<1>9. LastAlone =>
          /\ prev_ns = LastStamp
          /\ \A j \in 1 .. d : /\ stack[j].pc \notin Stored
                               /\ stack[j].at >= tokens[n].at
  BY <1>3, <1>5, <1>8 DEF Timed, Waiting, LastAlone
<1>10. LastStamp' = LastStamp
  BY <1>2, <1>5 DEF LastStamp, Stamp
<1>11. f.pc \notin Stored
  BY <1>1 DEF Stored
<1>12. Waiting'
  BY <1>2, <1>3, <1>4, <1>5, <1>7, <1>9, <1>10, <1>11 DEF Waiting
<1>13. Ending'
  BY <1>5, <1>8 DEF Ending, LastAlone
<1>14. LastAlone /\ SameClock(tokens[n].category, stack[d].kind) =>
           f.gap = Tokens!quantize_gap_ns(stack[d].at - tokens[n].at)
  <2> SUFFICES ASSUME LastAlone, SameClock(tokens[n].category, stack[d].kind)
               PROVE  Tokens!compute_gap_class(stack[d].now) =
                          Tokens!quantize_gap_ns(stack[d].at - tokens[n].at)
    BY <1>1, <1>4
  <2>1. n \in 1 .. Count
    BY <1>5 DEF LastAlone
  <2>2. stack[d].at >= tokens[n].at /\ prev_ns = LastStamp
    BY <1>4, <1>9
  <2> QED
    BY <1>3, <1>4, <1>5, <2>1, <2>2, GapMeasured DEF LastStamp
<1>15. Measured'
  BY <1>2, <1>3, <1>4, <1>5, <1>7, <1>14 DEF Measured
<1>16. Tokens!GapsHonest'
  BY <1>2, <1>6, GapsKept DEF Timed
<1> QED
  BY <1>12, <1>13, <1>15, <1>16 DEF Timed

(* The time of the probe that stores it, when it is the last token's, is   *)
(* that of the token.                                                      *)
LEMMA TimedStoreTime ==
    ASSUME TokenShape, Piled, StoredSo, Timed, Tokens!StoreTime
    PROVE  Timed'
<1>1. PICK f \in Frame : MovesOn(f) /\ f.pc = "process"
  BY Movers
<1>2. /\ UNCHANGED <<skew, tokens, touched, nested>>
      /\ Tokens!Top.pc = "time" /\ prev_ns' = Tokens!Top.now
  BY StoreTimeKeeps
<1>3. PICK d \in Nat \ {0} : d = Depth /\ Depth' = d
  BY <1>1 DEF MovesOn, Moved, Depth
<1>4. /\ stack'[d] = f /\ stack[d] = Tokens!Top /\ f.event = stack[d].event
      /\ d \in 1 .. d
  BY <1>1, <1>3 DEF MovesOn, Moved, Tokens!Top, Depth
<1>5. PICK n \in Nat : n = Count /\ Count' = n
  BY <1>2 DEF Count, TokenShape
<1>6. \A i : Tokens!Alone(i)' <=> Tokens!Alone(i)
  BY <1>2 DEF Tokens!Alone, Tokens!Whole
<1>7. LastAlone' <=> LastAlone
  BY <1>5, <1>6 DEF LastAlone
<1>8. TopStored
  BY <1>2, <1>3, <1>4 DEF TopStored, Stored
<1>9. LastAlone => Own
  BY <1>3, <1>8, StoredIsOwn
<1>10. LastAlone => Own'
  BY <1>2, <1>3, <1>4, <1>5, <1>9 DEF Own
<1>11. LastAlone => prev_ns' = LastStamp
  <2> SUFFICES ASSUME LastAlone PROVE prev_ns' = LastStamp
    OBVIOUS
  <2>1. stack[d].event \notin touched
    BY <1>3, <1>9 DEF Own, LastAlone, Tokens!Alone, Tokens!Whole
  <2>2. tokens[n].category = stack[d].kind /\ tokens[n].at = stack[d].at
    BY <1>3, <1>5, <1>8, <2>1 DEF StoredSo
  <2>3. stack[d].now = Stamp(stack[d].kind, stack[d].at)
    BY <1>3, <1>4 DEF Piled, Depth
  <2> QED
    BY <1>2, <1>4, <1>5, <2>2, <2>3 DEF LastStamp
<1>12. LastStamp' = LastStamp
  BY <1>2, <1>5 DEF LastStamp, Stamp
<1>13. Waiting'
  BY <1>7, <1>10 DEF Waiting
<1>14. Ending'
  BY <1>7, <1>11, <1>12 DEF Ending
<1>15. Measured'
  BY <1>1, <1>3, <1>4 DEF Measured
<1>16. Tokens!GapsHonest'
  BY <1>2, <1>6, GapsKept DEF Timed
<1> QED
  BY <1>13, <1>14, <1>15, <1>16 DEF Timed

LEMMA TimedLearn ==
    ASSUME TokenShape, Timed, Tokens!Learn
    PROVE  Timed'
<1>1. PICK f \in Frame : MovesOn(f) /\ f.pc = "save"
  BY Movers
<1>2. /\ UNCHANGED <<skew, prev_ns, tokens, touched, nested>>
      /\ Tokens!Top.pc = "process"
  BY LearnKeeps
<1>3. PICK d \in Nat \ {0} : d = Depth /\ Depth' = d
  BY <1>1 DEF MovesOn, Moved, Depth
<1>4. stack'[d] = f /\ stack[d] = Tokens!Top /\ f.event = stack[d].event
  BY <1>1, <1>3 DEF MovesOn, Moved, Tokens!Top, Depth
<1>5. Count' = Count /\ LastStamp' = LastStamp
  BY <1>2 DEF Count, LastStamp, Stamp
<1>6. \A i : Tokens!Alone(i)' <=> Tokens!Alone(i)
  BY <1>2 DEF Tokens!Alone, Tokens!Whole
<1>7. LastAlone' <=> LastAlone
  BY <1>5, <1>6 DEF LastAlone
<1>8. TopStored
  BY <1>2, <1>3, <1>4 DEF TopStored, Stored
<1>9. LastAlone => Own
  BY <1>3, <1>8, StoredIsOwn
<1>10. LastAlone => Own'
  BY <1>2, <1>3, <1>4, <1>5, <1>9 DEF Own
<1>11. LastAlone => prev_ns = LastStamp
  BY <1>2, <1>3, <1>4, <1>9 DEF Timed, Ending
<1>12. Waiting'
  BY <1>7, <1>10 DEF Waiting
<1>13. Ending'
  BY <1>2, <1>5, <1>7, <1>11 DEF Ending
<1>14. Measured'
  BY <1>1, <1>3, <1>4 DEF Measured
<1>15. Tokens!GapsHonest'
  BY <1>2, <1>6, GapsKept DEF Timed
<1> QED
  BY <1>12, <1>13, <1>14, <1>15 DEF Timed

(* The probe of an event that had the processor to itself was alone on the *)
(* stack.                                                                  *)
LEMMA TimedEnds ==
    ASSUME TokenShape, Piled, Timed, Popped,
           stack[Depth].pc \in {"process", "save"},
           UNCHANGED <<skew, prev_ns, tokens, touched, nested>>
    PROVE  Timed'
<1>1. PICK d \in Nat \ {0} : d = Depth /\ Depth' = d - 1
  BY DEF Popped, Depth
<1>2. Count' = Count /\ LastStamp' = LastStamp
  BY DEF Count, LastStamp, Stamp
<1>3. \A i : Tokens!Alone(i)' <=> Tokens!Alone(i)
  BY DEF Tokens!Alone, Tokens!Whole
<1>4. LastAlone' <=> LastAlone
  BY <1>2, <1>3 DEF LastAlone
<1>5. TopStored
  BY <1>1 DEF TopStored, Stored
<1>6. LastAlone => Own
  BY <1>1, <1>5, StoredIsOwn
<1>7. LastAlone => prev_ns = LastStamp
  BY <1>6 DEF Timed, Ending
<1>8. LastAlone => Depth' = 0
  BY <1>1, <1>6, AloneAlone
<1>9. Waiting'
  BY <1>2, <1>4, <1>7, <1>8 DEF Waiting
<1>10. Ending'
  BY <1>2, <1>4, <1>7 DEF Ending
<1>11. Measured'
  BY <1>4, <1>8 DEF Measured
<1>12. Tokens!GapsHonest'
  BY <1>3, GapsKept DEF Timed
<1> QED
  BY <1>9, <1>10, <1>11, <1>12 DEF Timed

(* The new token has the gap of its probe, and time is still to be stored. *)
LEMMA TimedStoreLast ==
    ASSUME TokenShape, Timed, Tokens!StoreLast
    PROVE  Timed'
<1>1. PICK f \in Frame : MovesOn(f) /\ f.pc = "time"
  BY Movers
<1>2. /\ UNCHANGED <<touched, nested>>
      /\ Tokens!Top.pc = "last" /\ stack # << >>
      /\ Grows(TokenOf(Tokens!Top))
  BY StoreLastKeeps
<1>3. PICK d \in Nat \ {0} : d = Depth /\ Depth' = d /\ Tokens!Top = stack[d]
  BY <1>1 DEF MovesOn, Moved, Depth, Tokens!Top
<1>4. PICK token : /\ token = TokenOf(Tokens!Top)
                   /\ token.event = stack[d].event /\ token.at = stack[d].at
                   /\ token.category = stack[d].kind /\ token.gap = stack[d].gap
  BY <1>2, <1>3, TopType, TokenOfType
<1>5. stack'[d] = f /\ f.event = stack[d].event /\ stack[d].pc = "last"
  BY <1>1, <1>2, <1>3 DEF MovesOn, Moved, Depth
<1>6. PICK n \in Nat : /\ n = Count /\ Count' = n + 1
                       /\ n = Len(tokens) /\ Len(tokens') = n + 1
  BY <1>2 DEF Grows, Count
<1>7. /\ tokens'[n + 1] = token
      /\ \A i \in 1 .. n : tokens'[i] = tokens[i]
  BY <1>2, <1>4, <1>6 DEF Grows
<1>8. Own' /\ Depth' > 0
  BY <1>3, <1>4, <1>5, <1>6, <1>7 DEF Own
<1>9. Waiting' /\ Ending' /\ Measured'
  BY <1>1, <1>3, <1>5, <1>8 DEF Waiting, Ending, Measured
<1>10. \A i \in 1 .. n : /\ Tokens!Whole(i)' <=> Tokens!Whole(i)
                         /\ Tokens!Alone(i)' <=> Tokens!Alone(i)
  BY <1>2, <1>7 DEF Tokens!Alone, Tokens!Whole
<1>11. ASSUME NEW i \in 2 .. n + 1,
              Tokens!Alone(i - 1)', Tokens!Whole(i)',
              SameClock(tokens'[i - 1].category, tokens'[i].category)
       PROVE  tokens'[i].gap =
                  Tokens!quantize_gap_ns(tokens'[i].at - tokens'[i - 1].at)
  <2>1. i - 1 \in 1 .. n /\ tokens'[i - 1] = tokens[i - 1]
        /\ Tokens!Alone(i - 1)
    BY <1>7, <1>10, <1>11
  <2>2. CASE i = n + 1
    <3>1. n > 0 /\ i - 1 = n
      BY <2>1, <2>2
    <3>2. LastAlone
      BY <1>6, <2>1, <3>1 DEF LastAlone
    <3>3. stack[d].event \notin touched
      BY <1>2, <1>4, <1>7, <1>11, <2>2 DEF Tokens!Whole
    <3>4. SameClock(tokens[n].category, stack[d].kind)
      BY <1>4, <1>7, <1>11, <2>1, <2>2, <3>1
    <3>5. stack[d].gap = Tokens!quantize_gap_ns(stack[d].at - tokens[n].at)
      BY <1>3, <1>5, <1>6, <3>2, <3>3, <3>4 DEF Timed, Measured
    <3> QED
      BY <1>4, <1>7, <2>1, <2>2, <3>1, <3>5
  <2>3. CASE i # n + 1
    <3>1. i \in 2 .. Len(tokens) /\ i \in 1 .. n
      BY <1>6, <2>3
    <3> QED
      BY <1>7, <1>10, <1>11, <2>1, <3>1
         DEF Timed, Tokens!GapsHonest, Tokens!Elapsed, SameClock
  <2> QED
    BY <2>2, <2>3
<1>12. Tokens!GapsHonest'
  BY <1>6, <1>11 DEF Tokens!GapsHonest, Tokens!Elapsed, SameClock
<1> QED
  BY <1>9, <1>12 DEF Timed

LEMMA TimedNext ==
    TokenShape /\ Piled /\ StoredSo /\ Timed /\ [Tokens!Next]_(Tokens!vars)
        => Timed'
<1> SUFFICES ASSUME TokenShape, Piled, StoredSo, Timed,
                    [Tokens!Next]_(Tokens!vars)
             PROVE  Timed'
  OBVIOUS
<1>1. ASSUME UNCHANGED <<skew, stack, prev_ns, tokens, touched, nested>>
      PROVE  Timed'
  BY <1>1 DEF Timed, Waiting, Ending, Measured, Tokens!GapsHonest, Depth, Count,
     Own, LastAlone, LastStamp, Stamp, Tokens!Alone, Tokens!Whole,
     Tokens!Elapsed
<1>2. CASE UNCHANGED Tokens!vars
  BY <1>1, <1>2 DEF Tokens!vars, Tokens!times, Tokens!state, Tokens!history
<1>3. ASSUME Tokens!Tick PROVE Timed'
  BY <1>1, <1>3, TickKeeps
<1>4. ASSUME Tokens!FirstEvent \/ Tokens!Save PROVE Timed'
  <2>1. /\ Popped /\ stack[Depth].pc \in {"process", "save"}
        /\ UNCHANGED <<skew, prev_ns, tokens, touched, nested>>
    BY <1>4, Poppers, FirstEventKeeps, SaveKeeps DEF Tokens!Top, Depth
  <2> QED
    BY <2>1, TimedEnds
<1> QED
  BY <1>2, <1>3, <1>4, TimedFire, TimedTokenize, TimedStoreLast,
     TimedStoreTime, TimedLearn DEF Tokens!Next

LEMMA WholeEventsFollow == TokensInv => Tokens!WholeEventsLearnt /\ Tokens!GapsHonest
<1> SUFFICES ASSUME TokensInv PROVE Tokens!WholeEventsLearnt
  BY DEF TokensInv, Timed
<1>1. PICK n \in Nat : n = Count /\ DOMAIN tokens = 1 .. n
  BY DEF TokensInv, TokenShape, Count
<1> SUFFICES ASSUME stack = << >>, NEW i \in 1 .. n, Tokens!Whole(i)
             PROVE  /\ Tokens!Learnt(i)
                    /\ i > 1 /\ Tokens!Whole(i - 1) =>
                           <<tokens[i - 1], tokens[i]>> \in learnt
  BY <1>1 DEF Tokens!WholeEventsLearnt
<1>2. ~Own
  BY DEF Own, Depth
<1>3. tokens[i] = prev_token \/ Paired(tokens[i])
  BY <1>1, <1>2 DEF TokensInv, Learning, ToLearn
<1>4. i > 1 /\ Tokens!Whole(i - 1) => <<tokens[i - 1], tokens[i]>> \in learnt
  <2>1. i > 1 => i \in 2 .. n
    OBVIOUS
  <2> QED
    BY <1>1, <1>2, <2>1 DEF TokensInv, Learning, ToLearn
<1> QED
  BY <1>3, <1>4 DEF Tokens!Learnt, Paired

LEMMA TokensInvInit == Tokens!Init => TokensInv
BY TokenShapeInit, RunningInit, StoredInit, LearningInit, TimedInit
   DEF TokensInv

LEMMA TokensInvNext == TokensInv /\ [Tokens!Next]_(Tokens!vars) => TokensInv'
BY TokenShapeNext, PiledNext, StoredNext, LearningNext, TimedNext
   DEF TokensInv

(* However probes interrupt one another, between probes each event whose   *)
(* probe was not interrupted has been learnt, after the one before it, and *)
(* its gap class is that of the time since that one (hackbot_tokenizer.c,  *)
(* hackbot_ngram_process).                                                 *)
THEOREM WholeEventsCorrect == Tokens!Spec => []WholeEventsTrue
<1>1. TokensInv => WholeEventsTrue
  BY WholeEventsFollow DEF WholeEventsTrue
<1> QED
  BY <1>1, TokensInvInit, TokensInvNext, PTL DEF Tokens!Spec

------------------------------------------------------------------------------
(***************************************************************************)
(* The totals of hackbot_trace.c. A counter is the sum, over the events it *)
(* counts, of how often they were counted, by probes that have ended and   *)
(* by those that are past it. So the argument is about sums: what they are *)
(* of functions that differ at one event, and that they grow with the      *)
(* functions. A number of a report was such a sum when it was read, after  *)
(* the events that had ended before and of those begun since.              *)
(***************************************************************************)

(* What the sum of h over the subset s of S is, given the sums over        *)
(* smaller ones.                                                           *)
Chosen(s) == CHOOSE x \in s : TRUE
SumStep(h, f, s) == IF s = {} THEN 0 ELSE h[Chosen(s)] + f[s \ {Chosen(s)}]
Sums(h, f, S) == \A s \in SUBSET S : f[s] = SumStep(h, f, s)

LEMMA OverIs ==
    ASSUME NEW S, NEW h
    PROVE  Totals!Over(S, h) =
               (CHOOSE f : f = [s \in SUBSET S |-> SumStep(h, f, s)])[S]
BY DEF Totals!Over, Totals!MapThenSumSet, Totals!MapThenFoldSet, SumStep, Chosen

(* Induction over the subsets of a finite set.                             *)
LEMMA SubsetInduction ==
    ASSUME NEW S, IsFiniteSet(S), NEW G, {} \in G,
           \A s \in SUBSET S : s # {} /\ s \ {Chosen(s)} \in G => s \in G
    PROVE  SUBSET S \subseteq G
<1> DEFINE H == {n \in Nat : \A s \in SUBSET S : Cardinality(s) = n => s \in G}
<1>1. \A s \in SUBSET S : IsFiniteSet(s) /\ Cardinality(s) \in Nat
  BY FS_Subset, FS_CardinalityType
<1>2. 0 \in H
  <2>1. \A s \in SUBSET S : Cardinality(s) = 0 => s = {}
    BY <1>1, FS_EmptySet
  <2> QED
    BY <2>1
<1>3. ASSUME NEW n \in Nat, n \in H PROVE n + 1 \in H
  <2> SUFFICES ASSUME NEW s \in SUBSET S, Cardinality(s) = n + 1 PROVE s \in G
    OBVIOUS
  <2>1. s # {}
    BY FS_EmptySet
  <2>2. Chosen(s) \in s
    BY <2>1 DEF Chosen
  <2>3. s \ {Chosen(s)} \in SUBSET S
    OBVIOUS
  <2>4. Cardinality(s \ {Chosen(s)}) = n
    BY <1>1, <2>2, FS_RemoveElement
  <2> QED
    BY <1>3, <2>1, <2>3, <2>4
<1>4. Nat \subseteq H
  <2> HIDE DEF H
  <2> QED
    BY <1>2, <1>3, Inductive
<1> QED
  BY <1>1, <1>4

(* Sums over subsets are a function, and the only one.                     *)
LEMMA SumsUnique ==
    ASSUME NEW S, IsFiniteSet(S), NEW h, NEW f, NEW g,
           Sums(h, f, S), Sums(h, g, S)
    PROVE  \A s \in SUBSET S : f[s] = g[s]
<1> DEFINE G == {s \in SUBSET S : f[s] = g[s]}
<1>1. {} \in G
  BY DEF Sums, SumStep
<1>2. ASSUME NEW s \in SUBSET S, s # {}, s \ {Chosen(s)} \in G PROVE s \in G
  BY <1>2 DEF Sums, SumStep
<1>3. SUBSET S \subseteq G
  <2> HIDE DEF G
  <2> QED
    BY <1>1, <1>2, SubsetInduction
<1> QED
  BY <1>3

LEMMA SumsExist ==
    ASSUME NEW S, IsFiniteSet(S), NEW h, \A x \in S : h[x] \in Nat
    PROVE  \E f \in [SUBSET S -> Nat] : Sums(h, f, S)
<1> DEFINE D(n) == {s \in SUBSET S : Cardinality(s) <= n}
           Good(n) == \E f \in [D(n) -> Nat] :
                         \A s \in D(n) : f[s] = SumStep(h, f, s)
           G == {n \in Nat : Good(n)}
<1>1. \A s \in SUBSET S : IsFiniteSet(s) /\ Cardinality(s) \in Nat
  BY FS_Subset, FS_CardinalityType
<1>2. \A s \in SUBSET S : s # {} =>
          /\ Chosen(s) \in s /\ Chosen(s) \in S
          /\ s \ {Chosen(s)} \in SUBSET S
          /\ Cardinality(s \ {Chosen(s)}) = Cardinality(s) - 1
  <2> TAKE s \in SUBSET S
  <2> HAVE s # {}
  <2>1. Chosen(s) \in s
    BY DEF Chosen
  <2> QED
    BY <1>1, <2>1, FS_RemoveElement
<1>3. 0 \in G
  <2>1. \A s \in D(0) : s = {}
    BY <1>1, FS_EmptySet
  <2>2. PICK f : f = [s \in D(0) |-> 0]
    OBVIOUS
  <2>3. f \in [D(0) -> Nat]
    BY <2>2
  <2>4. \A s \in D(0) : f[s] = SumStep(h, f, s)
    BY <2>1, <2>2 DEF SumStep
  <2> QED
    BY <2>3, <2>4
<1>4. ASSUME NEW n \in Nat, n \in G PROVE n + 1 \in G
  <2>1. PICK f \in [D(n) -> Nat] : \A s \in D(n) : f[s] = SumStep(h, f, s)
    BY <1>4
  <2>2. PICK g : g = [s \in D(n + 1) |-> SumStep(h, f, s)]
    OBVIOUS
  <2>3. \A s \in D(n + 1) : s # {} => s \ {Chosen(s)} \in D(n)
    BY <1>1, <1>2
  <2>4. \A s \in D(n + 1) : SumStep(h, f, s) \in Nat
    BY <1>2, <2>1, <2>3 DEF SumStep
  <2>5. g \in [D(n + 1) -> Nat]
    BY <2>2, <2>4
  <2>6. \A s \in D(n) : s \in D(n + 1) /\ g[s] = f[s]
    BY <1>1, <2>1, <2>2
  <2>7. \A s \in D(n + 1) : SumStep(h, g, s) = SumStep(h, f, s)
    BY <2>3, <2>6 DEF SumStep
  <2>8. \A s \in D(n + 1) : g[s] = SumStep(h, g, s)
    BY <2>2, <2>7
  <2>9. Good(n + 1) /\ n + 1 \in Nat
    <3> HIDE DEF D
    <3> QED
      BY <2>5, <2>8
  <2> QED
    BY <2>9
<1>5. Nat \subseteq G
  <2> HIDE DEF G
  <2> QED
    BY <1>3, <1>4, Inductive
<1>6. Cardinality(S) \in Nat
  BY FS_CardinalityType
<1>7. D(Cardinality(S)) = SUBSET S
  BY FS_Subset
<1>8. Good(Cardinality(S))
  BY <1>5, <1>6
<1> QED
  BY <1>7, <1>8 DEF Sums

(* The operator of the community modules is such a sum.                    *)
LEMMA OverSums ==
    ASSUME NEW S, IsFiniteSet(S), NEW h, \A x \in S : h[x] \in Nat
    PROVE  \E f \in [SUBSET S -> Nat] :
              Sums(h, f, S) /\ Totals!Over(S, h) = f[S]
<1>1. PICK g \in [SUBSET S -> Nat] : Sums(h, g, S)
  BY SumsExist
<1>2. g = [s \in SUBSET S |-> SumStep(h, g, s)]
  BY <1>1 DEF Sums
<1>3. PICK f : /\ f = [s \in SUBSET S |-> SumStep(h, f, s)]
               /\ Totals!Over(S, h) = f[S]
  <2> DEFINE C == CHOOSE f : f = [s \in SUBSET S |-> SumStep(h, f, s)]
  <2>1. C = [s \in SUBSET S |-> SumStep(h, C, s)]
    BY <1>2
  <2>2. Totals!Over(S, h) = C[S]
    BY OverIs
  <2> HIDE DEF C
  <2> QED
    BY <2>1, <2>2
<1>4. Sums(h, f, S)
  BY <1>3 DEF Sums
<1>5. S \in SUBSET S /\ f[S] = g[S]
  BY <1>1, <1>4, SumsUnique
<1> QED
  BY <1>1, <1>3, <1>5

(* Of functions that differ at one place, the sums differ by as much.      *)
LEMMA SumAt ==
    ASSUME NEW S, IsFiniteSet(S), NEW h, NEW k, NEW e,
           \A x \in S : h[x] \in Nat /\ k[x] \in Nat,
           \A x \in S : x # e => k[x] = h[x]
    PROVE  /\ Totals!Over(S, h) \in Nat /\ Totals!Over(S, k) \in Nat
           /\ e \in S => Totals!Over(S, k) + h[e] = Totals!Over(S, h) + k[e]
           /\ e \notin S => Totals!Over(S, k) = Totals!Over(S, h)
<1>1. PICK f \in [SUBSET S -> Nat] : Sums(h, f, S) /\ Totals!Over(S, h) = f[S]
  BY OverSums
<1>2. PICK g \in [SUBSET S -> Nat] : Sums(k, g, S) /\ Totals!Over(S, k) = g[S]
  BY OverSums
<1> DEFINE G == {s \in SUBSET S :
                     /\ e \in s => g[s] + h[e] = f[s] + k[e]
                     /\ e \notin s => g[s] = f[s]}
<1>3. {} \in G
  BY <1>1, <1>2 DEF Sums, SumStep
<1>4. ASSUME NEW s \in SUBSET S, s # {}, s \ {Chosen(s)} \in G PROVE s \in G
  <2>1. PICK c \in S : c = Chosen(s) /\ c \in s
    <3>1. Chosen(s) \in s
      BY <1>4 DEF Chosen
    <3> QED
      BY <3>1
  <2>2. PICK t \in SUBSET S : t = s \ {c}
    OBVIOUS
  <2>3. f[s] = h[c] + f[t] /\ g[s] = k[c] + g[t]
    BY <1>1, <1>2, <1>4, <2>1, <2>2 DEF Sums, SumStep
  <2>4. f[t] \in Nat /\ g[t] \in Nat /\ h[c] \in Nat /\ k[c] \in Nat
    BY <1>1, <1>2, <2>1
  <2>5. /\ e \in t => g[t] + h[e] = f[t] + k[e]
        /\ e \notin t => g[t] = f[t]
    BY <1>4, <2>1, <2>2
  <2>6. CASE c = e
    <3>1. e \in s /\ e \notin t
      BY <2>1, <2>2, <2>6
    <3>2. g[s] + h[e] = f[s] + k[e]
      BY <2>3, <2>4, <2>5, <2>6, <3>1
    <3> QED
      BY <3>1, <3>2
  <2>7. CASE c # e
    <3>1. k[c] = h[c] /\ (e \in s <=> e \in t)
      BY <2>1, <2>2, <2>7
    <3>2. e \in s => h[e] \in Nat /\ k[e] \in Nat
      OBVIOUS
    <3>3. e \in s => g[s] + h[e] = f[s] + k[e]
      BY <2>3, <2>4, <2>5, <3>1, <3>2
    <3>4. e \notin s => g[s] = f[s]
      BY <2>3, <2>5, <3>1
    <3> QED
      BY <3>3, <3>4
  <2> QED
    BY <2>6, <2>7
<1>5. SUBSET S \subseteq G
  <2> HIDE DEF G
  <2> QED
    BY <1>3, <1>4, SubsetInduction
<1>6. S \in G
  BY <1>5
<1> QED
  BY <1>1, <1>2, <1>6

LEMMA SumMore ==
    ASSUME NEW S, IsFiniteSet(S), NEW h, NEW k,
           \A x \in S : h[x] \in Nat /\ k[x] \in Nat /\ h[x] <= k[x]
    PROVE  Totals!Over(S, h) <= Totals!Over(S, k)
<1>1. PICK f \in [SUBSET S -> Nat] : Sums(h, f, S) /\ Totals!Over(S, h) = f[S]
  BY OverSums
<1>2. PICK g \in [SUBSET S -> Nat] : Sums(k, g, S) /\ Totals!Over(S, k) = g[S]
  BY OverSums
<1> DEFINE G == {s \in SUBSET S : f[s] <= g[s]}
<1>3. {} \in G
  <2>1. {} \in SUBSET S /\ f[{}] = 0 /\ g[{}] = 0
    BY <1>1, <1>2 DEF Sums, SumStep
  <2> QED
    BY <2>1
<1>4. ASSUME NEW s \in SUBSET S, s # {}, s \ {Chosen(s)} \in G PROVE s \in G
  <2>1. PICK c \in S : c = Chosen(s)
    <3>1. Chosen(s) \in s
      BY <1>4 DEF Chosen
    <3> QED
      BY <3>1
  <2>2. PICK t \in SUBSET S : t = s \ {c}
    OBVIOUS
  <2>3. f[s] = h[c] + f[t] /\ g[s] = k[c] + g[t]
    BY <1>1, <1>2, <1>4, <2>1, <2>2 DEF Sums, SumStep
  <2>4. f[t] \in Nat /\ g[t] \in Nat /\ h[c] \in Nat /\ k[c] \in Nat
    BY <1>1, <1>2, <2>1
  <2>5. f[t] <= g[t] /\ h[c] <= k[c]
    BY <1>4, <2>1, <2>2
  <2>6. f[s] <= g[s]
    BY <2>3, <2>4, <2>5
  <2> QED
    BY <2>6
<1>5. SUBSET S \subseteq G
  <2> HIDE DEF G
  <2> QED
    BY <1>3, <1>4, SubsetInduction
<1>6. S \in G
  BY <1>5
<1> QED
  BY <1>1, <1>2, <1>6

LEMMA SumOfNone ==
    ASSUME NEW S, IsFiniteSet(S), NEW h, \A x \in S : h[x] = 0
    PROVE  Totals!Over(S, h) = 0
<1>1. PICK f \in [SUBSET S -> Nat] : Sums(h, f, S) /\ Totals!Over(S, h) = f[S]
  <2>1. \A x \in S : h[x] \in Nat
    OBVIOUS
  <2> QED
    BY <2>1, OverSums
<1> DEFINE G == {s \in SUBSET S : f[s] = 0}
<1>2. {} \in G
  BY <1>1 DEF Sums, SumStep
<1>3. ASSUME NEW s \in SUBSET S, s # {}, s \ {Chosen(s)} \in G PROVE s \in G
  <2>1. PICK c \in S : c = Chosen(s)
    <3>1. Chosen(s) \in s
      BY <1>3 DEF Chosen
    <3> QED
      BY <3>1
  <2>2. f[s] = h[c] + f[s \ {c}]
    BY <1>1, <1>3, <2>1 DEF Sums, SumStep
  <2>3. f[s \ {c}] = 0 /\ h[c] = 0
    BY <1>3, <2>1
  <2> QED
    BY <2>2, <2>3
<1>4. SUBSET S \subseteq G
  <2> HIDE DEF G
  <2> QED
    BY <1>2, <1>3, SubsetInduction
<1>5. S \in G
  BY <1>4
<1> QED
  BY <1>1, <1>5

------------------------------------------------------------------------------
(* What events are, and what counts which of them.                         *)
Latent(e) == (Completed - e[2]) % Width

LEMMA TotalsFiniteSet ==
    ASSUME NEW S
    PROVE  (Totals!IsFiniteSet(S) <=> IsFiniteSet(S))
           /\ Totals!Cardinality(S) = Cardinality(S)
BY DEF Totals!IsFiniteSet, IsFiniteSet, Totals!Cardinality, Cardinality

LEMMA TotalsConstants ==
    /\ IsFiniteSet(Contexts) /\ IsFiniteSet(Calls) /\ IsFiniteSet(Starts)
    /\ MaxSyscall \in Nat /\ Completed \in Nat /\ Width \in Nat \ {0}
    /\ Calls \subseteq Int /\ Starts \subseteq Nat
    /\ Bounds \in Seq(Nat)
    /\ \A i, j \in DOMAIN Bounds : i < j => Bounds[i] < Bounds[j]
BY TotalsAreAssumption, TotalsFiniteSet DEF Totals!TotalsAssumption

LEMMA EventParts ==
    ASSUME NEW e \in Totals!Event
    PROVE  /\ e = <<e[1], e[2]>> /\ e[1] \in Totals!Channel /\ e[2] \in Int
           /\ e[1] = "syscall" => e[2] \in Calls
           /\ e[1] = "io" => e[2] \in Starts /\ e[2] \in Nat
<1>1. CASE e \in {<<"sched", 0>>}
  <2>1. e = <<"sched", 0>>
    BY <1>1
  <2> QED
    BY <2>1 DEF Totals!Channel
<1>2. CASE e \in {"syscall"} \X Calls
  <2>1. e = <<"syscall", e[2]>> /\ e[1] = "syscall" /\ e[2] \in Calls
    BY <1>2
  <2> QED
    BY <2>1, TotalsConstants DEF Totals!Channel
<1>3. CASE e \in {"io"} \X Starts
  <2>1. e = <<"io", e[2]>> /\ e[1] = "io" /\ e[2] \in Starts
    BY <1>3
  <2> QED
    BY <2>1, TotalsConstants DEF Totals!Channel
<1> QED
  BY <1>1, <1>2, <1>3 DEF Totals!Event

LEMMA EventsFinite == IsFiniteSet(Totals!Event)
<1>1. /\ IsFiniteSet({<<"sched", 0>>})
      /\ IsFiniteSet({"syscall"}) /\ IsFiniteSet({"io"})
  BY FS_Singleton
<1>2. IsFiniteSet({"syscall"} \X Calls) /\ IsFiniteSet({"io"} \X Starts)
  BY <1>1, TotalsConstants, FS_Product
<1>3. IsFiniteSet({<<"sched", 0>>} \cup ({"syscall"} \X Calls))
  BY <1>1, <1>2, FS_Union
<1>4. IsFiniteSet(({<<"sched", 0>>} \cup ({"syscall"} \X Calls))
                      \cup ({"io"} \X Starts))
  BY <1>2, <1>3, FS_Union
<1> QED
  BY <1>4 DEF Totals!Event

(* The events of a channel, and those a row of a report counts.            *)
OfChannel(ch) == {e \in Totals!Event : e[1] = ch}
Counts(ch, i) ==
    IF ch = "syscall" THEN Totals!Event \cap {<<"syscall", i - 1>>}
    ELSE {e \in Totals!Known :
              /\ i > 1 => Bounds[i - 1] <= Latent(e)
              /\ i <= Len(Bounds) => Latent(e) < Bounds[i]}

LEMMA LatentType ==
    ASSUME NEW e \in Totals!Event
    PROVE  Latent(e) \in Nat
<1>1. Completed - e[2] \in Int
  BY TotalsConstants, EventParts
<1> QED
  BY <1>1, TotalsConstants, DivMod DEF Latent

LEMMA KnownMeasured ==
    ASSUME NEW e \in Totals!Event
    PROVE  e \in Totals!Known <=> e[1] = "io" /\ Totals!Measured(e[2])
BY EventParts, TotalsConstants DEF Totals!Known, Totals!Measured

LEMMA PartsFinite ==
    /\ \A ch : IsFiniteSet(OfChannel(ch)) /\ OfChannel(ch) \subseteq Totals!Event
    /\ IsFiniteSet(Totals!Known) /\ Totals!Known \subseteq Totals!Event
    /\ \A ch, i : IsFiniteSet(Counts(ch, i)) /\ Counts(ch, i) \subseteq Totals!Event
<1>1. /\ \A ch : OfChannel(ch) \subseteq Totals!Event
      /\ Totals!Known \subseteq Totals!Event
  BY DEF OfChannel, Totals!Known
<1>2. \A ch, i : Counts(ch, i) \subseteq Totals!Event
  BY <1>1 DEF Counts
<1>3. \A S \in SUBSET Totals!Event : IsFiniteSet(S)
  BY EventsFinite, FS_Subset
<1> QED
  BY <1>1, <1>2, <1>3

(* A latency is in the bucket between the bounds it lies between.          *)
LEMMA BucketIs ==
    ASSUME NEW l \in Nat, NEW i \in 1 .. Len(Bounds) + 1
    PROVE  i = Totals!Bucket(l) <=> /\ i > 1 => Bounds[i - 1] <= l
                                    /\ i <= Len(Bounds) => l < Bounds[i]
<1>1. PICK n \in Nat : n = Len(Bounds) /\ DOMAIN Bounds = 1 .. n
  BY TotalsConstants
<1>2. \A j \in 1 .. n : Bounds[j] \in Nat
  BY <1>1, TotalsConstants
<1>3. \A j, k \in 1 .. n : j < k => Bounds[j] < Bounds[k]
  BY <1>1, TotalsConstants
<1>4. PICK A : A = {j \in 1 .. n : Bounds[j] <= l}
  OBVIOUS
<1>5. PICK k \in 0 .. n : A = 1 .. k
  <2>1. CASE 1 .. n \ A = {}
    <3>1. A = 1 .. n
      BY <1>4, <2>1
    <3> QED
      BY <3>1
  <2>2. CASE 1 .. n \ A # {}
    <3>1. 1 .. n \ A \in SUBSET Nat
      OBVIOUS
    <3>2. PICK m \in 1 .. n \ A : \A j \in 1 .. n \ A : m <= j
      BY <2>2, <3>1, Least
    <3>3. \A j \in 1 .. m - 1 : j \in A
      BY <3>2
    <3>4. l < Bounds[m]
      BY <1>2, <1>4, <3>2
    <3>5. \A j \in A : j \in 1 .. n /\ Bounds[j] <= l
      BY <1>4
    <3>6. \A j \in A : j < m
      <4> TAKE j \in A
      <4> SUFFICES ASSUME j >= m PROVE FALSE
        BY <3>5
      <4>1. Bounds[m] <= Bounds[j]
        BY <1>2, <1>3, <3>2, <3>5
      <4> QED
        BY <1>2, <3>2, <3>4, <3>5, <4>1
    <3>7. A = 1 .. m - 1
      <4>1. A \subseteq 1 .. m - 1
        BY <3>2, <3>5, <3>6
      <4>2. 1 .. m - 1 \subseteq A
        BY <3>3
      <4> QED
        BY <4>1, <4>2
    <3> QED
      BY <3>2, <3>7
  <2> QED
    BY <2>1, <2>2
<1>6. Totals!Bucket(l) = k + 1
  <2>1. Cardinality(1 .. k) = k
    BY FS_Interval
  <2>2. {j \in DOMAIN Bounds : Bounds[j] <= l} = 1 .. k
    BY <1>1, <1>4, <1>5
  <2> QED
    BY <2>1, <2>2, TotalsFiniteSet DEF Totals!Bucket
<1>7. i > 1 => (Bounds[i - 1] <= l <=> i - 1 \in 1 .. k)
  <2>1. i > 1 => i - 1 \in 1 .. n
    BY <1>1
  <2> QED
    BY <1>4, <1>5, <2>1
<1>8. i <= n => (l < Bounds[i] <=> i \notin 1 .. k)
  <2>1. i <= n => i \in 1 .. n
    BY <1>1
  <2>2. i \in 1 .. n => (l < Bounds[i] <=> ~(Bounds[i] <= l))
    BY <1>2
  <2> QED
    BY <1>4, <1>5, <2>1, <2>2
<1>9. i \in 1 .. n + 1
  BY <1>1
<1>10. (i > 1 => i - 1 \in 1 .. k) /\ (i <= n => i \notin 1 .. k) <=> i = k + 1
  BY <1>5, <1>9
<1> QED
  BY <1>1, <1>6, <1>7, <1>8, <1>10

(* A probe's row is the one that counts its event.                         *)
LEMMA RowCounts ==
    ASSUME NEW e \in Totals!Event, NEW ch \in Totals!Channel,
           NEW i \in 1 .. Totals!Rows(ch)
    PROVE  e \in Counts(ch, i) <=> ch = e[1] /\ i \in Totals!Row(e)
<1>1. e = <<e[1], e[2]>> /\ e[1] \in Totals!Channel /\ e[2] \in Int
  BY EventParts
<1>2. CASE ch = "sched"
  BY <1>2 DEF Totals!Rows
<1>3. CASE ch = "syscall"
  <2>1. Totals!Rows(ch) = MaxSyscall /\ MaxSyscall \in Nat
    BY <1>3, TotalsConstants DEF Totals!Rows
  <2>2. e \in Counts(ch, i) <=> e = <<"syscall", i - 1>>
    BY <1>3 DEF Counts
  <2>3. e = <<"syscall", i - 1>> <=> e[1] = "syscall" /\ e[2] = i - 1
    BY <1>1
  <2>4. e[1] = "syscall" =>
            Totals!Row(e) = {e[2] + 1} \cap (1 .. MaxSyscall)
    BY DEF Totals!Row
  <2>5. e[2] = i - 1 <=> i = e[2] + 1
    BY <1>1, <2>1
  <2> QED
    BY <1>3, <2>1, <2>2, <2>3, <2>4, <2>5
<1>4. CASE ch = "io"
  <2>1. Totals!Rows(ch) = Len(Bounds) + 1
    BY <1>4 DEF Totals!Rows
  <2>2. CASE e \in Totals!Known
    <3>1. e[1] = "io" /\ Totals!Measured(e[2])
      BY <2>2, KnownMeasured
    <3>2. Totals!Row(e) = {Totals!Bucket(Latent(e))}
      BY <3>1 DEF Totals!Row, Totals!Latency, Latent
    <3>3. e \in Counts(ch, i) <=>
              /\ i > 1 => Bounds[i - 1] <= Latent(e)
              /\ i <= Len(Bounds) => Latent(e) < Bounds[i]
      BY <1>4, <2>2 DEF Counts
    <3> QED
      BY <1>4, <2>1, <3>1, <3>2, <3>3, BucketIs, LatentType
  <2>3. CASE e \notin Totals!Known
    <3>1. e \notin Counts(ch, i)
      BY <1>4, <2>3 DEF Counts
    <3>2. e[1] = "io" => Totals!Row(e) = {}
      BY <2>3, KnownMeasured DEF Totals!Row
    <3> QED
      BY <1>4, <3>1, <3>2
  <2> QED
    BY <2>2, <2>3
<1> QED
  BY <1>2, <1>3, <1>4 DEF Totals!Channel

(* An event has one row at most, and a request with a known latency has.   *)
LEMMA OneRow ==
    ASSUME NEW e \in Totals!Event
    PROVE  /\ \A i, j \in Totals!Row(e) : i = j
           /\ e \in Totals!Known => Totals!Row(e) # {}
<1>1. e[1] \in {"sched", "syscall", "io"}
  BY EventParts DEF Totals!Channel
<1> QED
  BY <1>1, KnownMeasured DEF Totals!Row

LEMMA RowIn ==
    ASSUME NEW e \in Totals!Event
    PROVE  Totals!Row(e) \subseteq 1 .. Totals!Rows(e[1])
<1>1. e[1] \in {"sched", "syscall", "io"}
  BY EventParts DEF Totals!Channel
<1>2. ASSUME e[1] = "io" PROVE Totals!Bucket(Latent(e)) \in 1 .. Len(Bounds) + 1
  <2>1. PICK n \in Nat : n = Len(Bounds) /\ DOMAIN Bounds = 1 .. n
    BY TotalsConstants
  <2>2. PICK A : A = {j \in DOMAIN Bounds : Bounds[j] <= Latent(e)}
    OBVIOUS
  <2>3. IsFiniteSet(1 .. n) /\ Cardinality(1 .. n) = n
    BY FS_Interval
  <2>4. A \subseteq 1 .. n
    BY <2>1, <2>2
  <2>5. Cardinality(A) \in Nat /\ Cardinality(A) <= n
    BY <2>3, <2>4, FS_Subset, FS_CardinalityType
  <2>6. Totals!Bucket(Latent(e)) = Cardinality(A) + 1
    BY <2>2, TotalsFiniteSet DEF Totals!Bucket
  <2> QED
    BY <2>1, <2>5, <2>6
<1> QED
  BY <1>1, <1>2 DEF Totals!Row, Totals!Rows, Totals!Latency, Latent

(* Sums of products with a latency.                                        *)
LEMMA OneMore ==
    ASSUME NEW n \in Nat, NEW l \in Nat
    PROVE  n * l \in Nat /\ (n + 1) * l = n * l + l
OBVIOUS

LEMMA TimesMore ==
    ASSUME NEW m \in Nat, NEW n \in Nat, NEW l \in Nat, m <= n
    PROVE  m * l \in Nat /\ n * l \in Nat /\ m * l <= n * l
<1>1. PICK d \in Nat : n = m + d
  <2>1. n - m \in Nat /\ n = m + (n - m)
    OBVIOUS
  <2> QED
    BY <2>1
<1>2. n * l = m * l + d * l
  BY <1>1
<1>3. m * l \in Nat /\ d * l \in Nat
  OBVIOUS
<1> QED
  BY <1>2, <1>3

(* A set from which one element may have gone or to which it came.         *)
LEMMA SizeAt ==
    ASSUME NEW S \in SUBSET Contexts, NEW T \in SUBSET Contexts, NEW x \in Contexts,
           \A y \in Contexts : y # x => (y \in S <=> y \in T)
    PROVE  /\ Cardinality(S) \in Nat /\ Cardinality(T) \in Nat
           /\ x \in S /\ x \notin T => Cardinality(S) = Cardinality(T) + 1
           /\ x \notin S /\ x \in T => Cardinality(T) = Cardinality(S) + 1
           /\ (x \in S <=> x \in T) => Cardinality(T) = Cardinality(S)
<1>1. IsFiniteSet(S) /\ IsFiniteSet(T)
  BY TotalsConstants, FS_Subset
<1>2. Cardinality(S) \in Nat /\ Cardinality(T) \in Nat
  BY <1>1, FS_CardinalityType
<1>3. ASSUME x \in S, x \notin T PROVE Cardinality(S) = Cardinality(T) + 1
  <2>1. S = T \cup {x}
    BY <1>3
  <2> QED
    BY <1>1, <1>3, <2>1, FS_AddElement
<1>4. ASSUME x \notin S, x \in T PROVE Cardinality(T) = Cardinality(S) + 1
  <2>1. T = S \cup {x}
    BY <1>4
  <2> QED
    BY <1>1, <1>4, <2>1, FS_AddElement
<1>5. ASSUME x \in S <=> x \in T PROVE S = T
  BY <1>5
<1> QED
  BY <1>2, <1>3, <1>4, <1>5

------------------------------------------------------------------------------
(* The invariant: what the counters hold of each event.                    *)

(* The probes at work on an event, past its total, and past its latency.   *)
Busy(p, e) == {x \in Contexts : p[x].event = e /\ p[x].pc # "idle"}
Past(p, e) == {x \in Contexts : p[x].event = e /\ p[x].pc \in {"latency", "row"}}
AtRow(p, e) == {x \in Contexts : p[x].event = e /\ p[x].pc = "row"}

Totaled(h, p) ==
    [e \in Totals!Event |-> h[e] + Cardinality(Past(p, e))]
Delays(h, p) ==
    [e \in Totals!Event |-> (h[e] + Cardinality(AtRow(p, e))) * Latent(e)]

TotalsShape ==
    /\ agg_total \in [Totals!Channel -> Nat] /\ agg_latency \in Nat
    /\ agg_counts = [ch \in Totals!Channel |-> agg_counts[ch]]
    /\ \A ch \in Totals!Channel : agg_counts[ch] \in [1 .. Totals!Rows(ch) -> Nat]
    /\ agg_begun \in [Totals!Event -> Nat] /\ agg_ended \in [Totals!Event -> Nat]

ProbeShape ==
    /\ agg_probe \in [Contexts -> [pc : {"idle", "total", "latency", "row"},
                                   event : Totals!Event]]
    /\ \A x \in Contexts :
           /\ agg_probe[x].pc = "latency" => agg_probe[x].event \in Totals!Known
           /\ agg_probe[x].pc = "row" => Totals!Row(agg_probe[x].event) # {}

(* Each counter is the sum over its events of the times they were counted. *)
BegunAndEnded(b, h, p) ==
    \A e \in Totals!Event : b[e] = h[e] + Cardinality(Busy(p, e))
TotalsToldBy(t, m) ==
    \A ch \in Totals!Channel : t[ch] = Totals!Over(OfChannel(ch), m)
TotalsTell(t, h, p) == TotalsToldBy(t, Totaled(h, p))
LatenciesTell(l, h, p) == l = Totals!Over(Totals!Known, Delays(h, p))
RowsTell(c, h) ==
    \A ch \in Totals!Channel : \A i \in 1 .. Totals!Rows(ch) :
        c[ch][i] = Totals!Over(Counts(ch, i), h)
Tally ==
    /\ BegunAndEnded(agg_begun, agg_ended, agg_probe)
    /\ TotalsTell(agg_total, agg_ended, agg_probe)
    /\ LatenciesTell(agg_latency, agg_ended, agg_probe)
    /\ RowsTell(agg_counts, agg_ended)

ReaderShape ==
    agg_reader \in [pc : {"off", "latency", "rows", "done"},
                    ch : Totals!Channel, total : Nat, latency : Nat,
                    shown : Seq(Nat), before : [Totals!Event -> Nat]]

(* What a report has read so far lies between the sums for the events that *)
(* ended before it and for those begun by now.                             *)
Reported ==
    agg_reader.pc # "off" =>
        /\ \A e \in Totals!Event : agg_reader.before[e] <= agg_ended[e]
        /\ Totals!Between(Totals!Over(OfChannel(agg_reader.ch), agg_reader.before),
                          agg_reader.total,
                          Totals!Over(OfChannel(agg_reader.ch), agg_begun))
        /\ agg_reader.pc \in {"rows", "done"} /\ agg_reader.ch = "io" =>
               Totals!Between(Totals!Sum(agg_reader.before), agg_reader.latency,
                              Totals!Sum(agg_begun))
        /\ Len(agg_reader.shown) <= Totals!Rows(agg_reader.ch)
        /\ \A i \in 1 .. Len(agg_reader.shown) :
               Totals!Between(
                   Totals!Over(Counts(agg_reader.ch, i), agg_reader.before),
                   agg_reader.shown[i],
                   Totals!Over(Counts(agg_reader.ch, i), agg_begun))

TotalsInv == TotalsShape /\ ProbeShape /\ Tally /\ ReaderShape /\ Reported

------------------------------------------------------------------------------
(* Lemmas on the sums and the sets of probes.                              *)
LEMMA OverType ==
    ASSUME NEW S, IsFiniteSet(S), NEW h, \A x \in S : h[x] \in Nat
    PROVE  Totals!Over(S, h) \in Nat
<1>1. PICK f \in [SUBSET S -> Nat] : Sums(h, f, S) /\ Totals!Over(S, h) = f[S]
  BY OverSums
<1>2. S \in SUBSET S
  OBVIOUS
<1> QED
  BY <1>1, <1>2

LEMMA SumSame ==
    ASSUME NEW S, IsFiniteSet(S), NEW h, NEW k,
           \A x \in S : h[x] \in Nat /\ k[x] = h[x]
    PROVE  Totals!Over(S, k) = Totals!Over(S, h) /\ Totals!Over(S, h) \in Nat
<1>1. \A x \in S : h[x] \in Nat
  OBVIOUS
<1>2. \A x \in S : k[x] \in Nat
  OBVIOUS
<1>3. Totals!Over(S, h) \in Nat /\ Totals!Over(S, k) \in Nat
  BY <1>1, <1>2, OverType
<1>4. /\ \A x \in S : h[x] \in Nat /\ k[x] \in Nat /\ h[x] <= k[x]
      /\ \A x \in S : k[x] \in Nat /\ h[x] \in Nat /\ k[x] <= h[x]
  BY <1>2
<1>5. Totals!Over(S, h) <= Totals!Over(S, k)
  BY <1>4, SumMore
<1>6. Totals!Over(S, k) <= Totals!Over(S, h)
  BY <1>4, SumMore
<1> QED
  BY <1>3, <1>5, <1>6

LEMMA SumAdd ==
    ASSUME NEW S, IsFiniteSet(S), NEW h, NEW k, NEW e, NEW d \in Nat,
           \A x \in S : h[x] \in Nat /\ k[x] \in Nat,
           \A x \in S : x # e => k[x] = h[x],
           e \in S => k[e] = h[e] + d
    PROVE  /\ Totals!Over(S, h) \in Nat
           /\ e \in S => Totals!Over(S, k) = Totals!Over(S, h) + d
           /\ e \notin S => Totals!Over(S, k) = Totals!Over(S, h)
<1>1. /\ Totals!Over(S, h) \in Nat /\ Totals!Over(S, k) \in Nat
      /\ e \in S => Totals!Over(S, k) + h[e] = Totals!Over(S, h) + k[e]
      /\ e \notin S => Totals!Over(S, k) = Totals!Over(S, h)
  BY SumAt
<1>2. ASSUME e \in S PROVE Totals!Over(S, k) = Totals!Over(S, h) + d
  <2>1. h[e] \in Nat /\ k[e] = h[e] + d
    BY <1>2
  <2> QED
    BY <1>1, <1>2, <2>1
<1> QED
  BY <1>1, <1>2

OthersStay(p, q, x) == \A y \in Contexts : y # x => q[y] = p[y]
LEMMA BusyAt ==
    ASSUME NEW p, NEW q, NEW x \in Contexts, NEW e, OthersStay(p, q, x)
    PROVE  /\ Cardinality(Busy(p, e)) \in Nat
           /\ Cardinality(Busy(q, e)) \in Nat
           /\ x \in Busy(p, e) /\ x \notin Busy(q, e) =>
                  Cardinality(Busy(p, e)) = Cardinality(Busy(q, e)) + 1
           /\ x \notin Busy(p, e) /\ x \in Busy(q, e) =>
                  Cardinality(Busy(q, e)) = Cardinality(Busy(p, e)) + 1
           /\ (x \in Busy(p, e) <=> x \in Busy(q, e)) =>
                  Cardinality(Busy(q, e)) = Cardinality(Busy(p, e))
<1>1. PICK S, T : S = Busy(p, e) /\ T = Busy(q, e)
  OBVIOUS
<1>2. S \in SUBSET Contexts /\ T \in SUBSET Contexts
  BY <1>1 DEF Busy
<1>3. \A y \in Contexts : y # x => (y \in S <=> y \in T)
  BY <1>1 DEF Busy, OthersStay
<1>4. /\ Cardinality(S) \in Nat /\ Cardinality(T) \in Nat
      /\ x \in S /\ x \notin T => Cardinality(S) = Cardinality(T) + 1
      /\ x \notin S /\ x \in T => Cardinality(T) = Cardinality(S) + 1
      /\ (x \in S <=> x \in T) => Cardinality(T) = Cardinality(S)
  BY <1>2, <1>3, SizeAt
<1> QED
  BY <1>1, <1>4

LEMMA PastAt ==
    ASSUME NEW p, NEW q, NEW x \in Contexts, NEW e, OthersStay(p, q, x)
    PROVE  /\ Cardinality(Past(p, e)) \in Nat
           /\ Cardinality(Past(q, e)) \in Nat
           /\ x \in Past(p, e) /\ x \notin Past(q, e) =>
                  Cardinality(Past(p, e)) = Cardinality(Past(q, e)) + 1
           /\ x \notin Past(p, e) /\ x \in Past(q, e) =>
                  Cardinality(Past(q, e)) = Cardinality(Past(p, e)) + 1
           /\ (x \in Past(p, e) <=> x \in Past(q, e)) =>
                  Cardinality(Past(q, e)) = Cardinality(Past(p, e))
<1>1. PICK S, T : S = Past(p, e) /\ T = Past(q, e)
  OBVIOUS
<1>2. S \in SUBSET Contexts /\ T \in SUBSET Contexts
  BY <1>1 DEF Past
<1>3. \A y \in Contexts : y # x => (y \in S <=> y \in T)
  BY <1>1 DEF Past, OthersStay
<1>4. /\ Cardinality(S) \in Nat /\ Cardinality(T) \in Nat
      /\ x \in S /\ x \notin T => Cardinality(S) = Cardinality(T) + 1
      /\ x \notin S /\ x \in T => Cardinality(T) = Cardinality(S) + 1
      /\ (x \in S <=> x \in T) => Cardinality(T) = Cardinality(S)
  BY <1>2, <1>3, SizeAt
<1> QED
  BY <1>1, <1>4

LEMMA AtRowAt ==
    ASSUME NEW p, NEW q, NEW x \in Contexts, NEW e, OthersStay(p, q, x)
    PROVE  /\ Cardinality(AtRow(p, e)) \in Nat
           /\ Cardinality(AtRow(q, e)) \in Nat
           /\ x \in AtRow(p, e) /\ x \notin AtRow(q, e) =>
                  Cardinality(AtRow(p, e)) = Cardinality(AtRow(q, e)) + 1
           /\ x \notin AtRow(p, e) /\ x \in AtRow(q, e) =>
                  Cardinality(AtRow(q, e)) = Cardinality(AtRow(p, e)) + 1
           /\ (x \in AtRow(p, e) <=> x \in AtRow(q, e)) =>
                  Cardinality(AtRow(q, e)) = Cardinality(AtRow(p, e))
<1>1. PICK S, T : S = AtRow(p, e) /\ T = AtRow(q, e)
  OBVIOUS
<1>2. S \in SUBSET Contexts /\ T \in SUBSET Contexts
  BY <1>1 DEF AtRow
<1>3. \A y \in Contexts : y # x => (y \in S <=> y \in T)
  BY <1>1 DEF AtRow, OthersStay
<1>4. /\ Cardinality(S) \in Nat /\ Cardinality(T) \in Nat
      /\ x \in S /\ x \notin T => Cardinality(S) = Cardinality(T) + 1
      /\ x \notin S /\ x \in T => Cardinality(T) = Cardinality(S) + 1
      /\ (x \in S <=> x \in T) => Cardinality(T) = Cardinality(S)
  BY <1>2, <1>3, SizeAt
<1> QED
  BY <1>1, <1>4

LEMMA SetSizes ==
    ASSUME NEW p, NEW e
    PROVE  /\ Cardinality(Busy(p, e)) \in Nat
           /\ Cardinality(Past(p, e)) \in Nat /\ Cardinality(AtRow(p, e)) \in Nat
           /\ Cardinality(Past(p, e)) <= Cardinality(Busy(p, e))
           /\ Cardinality(AtRow(p, e)) <= Cardinality(Busy(p, e))
<1>1. PICK A, B, C : A = Busy(p, e) /\ B = Past(p, e) /\ C = AtRow(p, e)
  OBVIOUS
<1>2. A \subseteq Contexts /\ B \subseteq A /\ C \subseteq A
  BY <1>1 DEF Busy, Past, AtRow
<1>3. IsFiniteSet(A)
  BY <1>2, TotalsConstants, FS_Subset
<1> QED
  BY <1>1, <1>2, <1>3, FS_Subset, FS_CardinalityType

(* The sums for the events counted in part.                                *)
LEMMA SumsTypes ==
    ASSUME NEW h \in [Totals!Event -> Nat], NEW p, NEW e \in Totals!Event
    PROVE  /\ h[e] \in Nat
           /\ Totaled(h, p)[e] = h[e] + Cardinality(Past(p, e))
           /\ Totaled(h, p)[e] \in Nat
           /\ Delays(h, p)[e] = (h[e] + Cardinality(AtRow(p, e))) * Latent(e)
           /\ Delays(h, p)[e] \in Nat
<1>1. h[e] \in Nat
  OBVIOUS
<1>2. /\ Cardinality(Past(p, e)) \in Nat /\ Cardinality(AtRow(p, e)) \in Nat
      /\ Latent(e) \in Nat
  BY SetSizes, LatentType
<1>3. h[e] + Cardinality(AtRow(p, e)) \in Nat
  BY <1>1, <1>2
<1>4. (h[e] + Cardinality(AtRow(p, e))) * Latent(e) \in Nat
  BY <1>2, <1>3, OneMore
<1> QED
  BY <1>1, <1>2, <1>4 DEF Totaled, Delays

(* The sums do not tell apart what they do not count.                      *)
LEMMA TallySame ==
    ASSUME NEW h \in [Totals!Event -> Nat], NEW p, NEW q, NEW t, NEW l,
           \A e \in Totals!Event :
               /\ Cardinality(Past(q, e)) = Cardinality(Past(p, e))
               /\ Cardinality(AtRow(q, e)) = Cardinality(AtRow(p, e))
    PROVE  /\ TotalsTell(t, h, p) => TotalsTell(t, h, q)
           /\ LatenciesTell(l, h, p) => LatenciesTell(l, h, q)
BY DEF TotalsTell, TotalsToldBy, LatenciesTell, Totaled, Delays

(* How each counter follows what it counts.                                *)
LEMMA ToldAdd ==
    ASSUME NEW m, NEW n, NEW t, NEW u, NEW e, TotalsToldBy(t, m),
           \A f \in Totals!Event : m[f] \in Nat /\ n[f] \in Nat,
           n[e] = m[e] + 1, \A f \in Totals!Event : f # e => n[f] = m[f],
           u[e[1]] = t[e[1]] + 1, e \in Totals!Event,
           \A ch \in Totals!Channel : ch # e[1] => u[ch] = t[ch]
    PROVE  TotalsToldBy(u, n)
<1> SUFFICES ASSUME NEW ch \in Totals!Channel
             PROVE  u[ch] = Totals!Over(OfChannel(ch), n)
  BY DEF TotalsToldBy
<1>1. PICK S : S = OfChannel(ch)
  OBVIOUS
<1>2. IsFiniteSet(S) /\ S \subseteq Totals!Event
  BY <1>1, PartsFinite
<1>3. /\ \A f \in S : m[f] \in Nat /\ n[f] \in Nat
      /\ \A f \in S : f # e => n[f] = m[f]
      /\ e \in S => n[e] = m[e] + 1
  BY <1>2
<1>4. /\ e \in S => Totals!Over(S, n) = Totals!Over(S, m) + 1
      /\ e \notin S => Totals!Over(S, n) = Totals!Over(S, m)
  BY <1>2, <1>3, SumAdd
<1>5. t[ch] = Totals!Over(S, m)
  BY <1>1 DEF TotalsToldBy
<1>6. e \in S <=> ch = e[1]
  BY <1>1 DEF OfChannel
<1> QED
  BY <1>1, <1>4, <1>5, <1>6

LEMMA TotalsStay ==
    ASSUME NEW h \in [Totals!Event -> Nat], NEW k \in [Totals!Event -> Nat],
           NEW p, NEW q, NEW t, TotalsTell(t, h, p),
           \A f \in Totals!Event : Totaled(k, q)[f] = Totaled(h, p)[f]
    PROVE  TotalsTell(t, k, q)
<1>1. Totaled(k, q) = Totaled(h, p)
  BY DEF Totaled
<1> QED
  BY <1>1 DEF TotalsTell, TotalsToldBy

LEMMA LatenciesAdd ==
    ASSUME NEW h \in [Totals!Event -> Nat], NEW k \in [Totals!Event -> Nat],
           NEW p, NEW q, NEW l, NEW d \in Nat,
           NEW e \in Totals!Known, LatenciesTell(l, h, p),
           Delays(k, q)[e] = Delays(h, p)[e] + d,
           \A f \in Totals!Known : f # e => Delays(k, q)[f] = Delays(h, p)[f]
    PROVE  LatenciesTell(l + d, k, q)
<1>1. IsFiniteSet(Totals!Known) /\ Totals!Known \subseteq Totals!Event
  BY PartsFinite
<1>2. PICK S, m, n : S = Totals!Known /\ m = Delays(h, p) /\ n = Delays(k, q)
  OBVIOUS
<1>3. \A f \in Totals!Event : Delays(h, p)[f] \in Nat /\ Delays(k, q)[f] \in Nat
  BY SumsTypes
<1>4. /\ \A f \in S : m[f] \in Nat /\ n[f] \in Nat
      /\ \A f \in S : f # e => n[f] = m[f]
      /\ e \in S /\ n[e] = m[e] + d
      /\ IsFiniteSet(S)
  BY <1>1, <1>2, <1>3
<1>5. Totals!Over(S, n) = Totals!Over(S, m) + d
  BY <1>4, SumAdd
<1> QED
  BY <1>2, <1>5 DEF LatenciesTell

LEMMA LatenciesStay ==
    ASSUME NEW h \in [Totals!Event -> Nat], NEW k \in [Totals!Event -> Nat],
           NEW p, NEW q, NEW l, LatenciesTell(l, h, p),
           \A f \in Totals!Known : Delays(k, q)[f] = Delays(h, p)[f]
    PROVE  LatenciesTell(l, k, q)
<1>1. IsFiniteSet(Totals!Known) /\ Totals!Known \subseteq Totals!Event
  BY PartsFinite
<1>2. PICK S, m, n : S = Totals!Known /\ m = Delays(h, p) /\ n = Delays(k, q)
  OBVIOUS
<1>3. \A f \in Totals!Event : Delays(h, p)[f] \in Nat
  BY SumsTypes
<1>4. /\ \A f \in S : m[f] \in Nat /\ n[f] = m[f]
      /\ IsFiniteSet(S)
  BY <1>1, <1>2, <1>3
<1>5. Totals!Over(S, n) = Totals!Over(S, m)
  BY <1>4, SumSame
<1> QED
  BY <1>2, <1>5 DEF LatenciesTell

LEMMA RowsStay ==
    ASSUME NEW h \in [Totals!Event -> Nat], NEW k, NEW c, RowsTell(c, h),
           \A f \in Totals!Event : Totals!Row(f) # {} => k[f] = h[f]
    PROVE  RowsTell(c, k)
<1> SUFFICES ASSUME NEW ch \in Totals!Channel, NEW i \in 1 .. Totals!Rows(ch)
             PROVE  c[ch][i] = Totals!Over(Counts(ch, i), k)
  BY DEF RowsTell
<1>1. PICK S : S = Counts(ch, i)
  OBVIOUS
<1>2. IsFiniteSet(S) /\ S \subseteq Totals!Event
  BY <1>1, PartsFinite
<1>3. \A f \in S : Totals!Row(f) # {}
  BY <1>1, <1>2, RowCounts
<1>4. \A f \in S : h[f] \in Nat /\ k[f] = h[f]
  BY <1>2, <1>3
<1>5. Totals!Over(S, k) = Totals!Over(S, h)
  BY <1>2, <1>4, SumSame
<1> QED
  BY <1>1, <1>5 DEF RowsTell

OneAdded(c, b, c1, j) ==
    \A ch \in Totals!Channel : \A i \in 1 .. Totals!Rows(ch) :
        /\ ch = c1 /\ i = j => b[ch][i] = c[ch][i] + 1
        /\ ~(ch = c1 /\ i = j) => b[ch][i] = c[ch][i]

LEMMA RowsAdd ==
    ASSUME NEW h \in [Totals!Event -> Nat], NEW k \in [Totals!Event -> Nat],
           NEW c, NEW b, RowsTell(c, h), NEW e \in Totals!Event,
           NEW j \in Totals!Row(e),
           k[e] = h[e] + 1, \A f \in Totals!Event : f # e => k[f] = h[f],
           OneAdded(c, b, e[1], j)
    PROVE  RowsTell(b, k)
<1> SUFFICES ASSUME NEW ch \in Totals!Channel, NEW i \in 1 .. Totals!Rows(ch)
             PROVE  b[ch][i] = Totals!Over(Counts(ch, i), k)
  BY DEF RowsTell
<1>1. PICK S : S = Counts(ch, i)
  OBVIOUS
<1>2. IsFiniteSet(S) /\ S \subseteq Totals!Event
  BY <1>1, PartsFinite
<1>3. e \in S <=> ch = e[1] /\ i = j
  <2>1. e \in S <=> ch = e[1] /\ i \in Totals!Row(e)
    BY <1>1, RowCounts
  <2>2. i \in Totals!Row(e) <=> i = j
    BY OneRow
  <2> QED
    BY <2>1, <2>2
<1>4. /\ \A f \in S : h[f] \in Nat /\ k[f] \in Nat
      /\ \A f \in S : f # e => k[f] = h[f]
      /\ e \in S => k[e] = h[e] + 1
  BY <1>2
<1>5. /\ e \in S => Totals!Over(S, k) = Totals!Over(S, h) + 1
      /\ e \notin S => Totals!Over(S, k) = Totals!Over(S, h)
  BY <1>2, <1>4, SumAdd
<1>6. c[ch][i] = Totals!Over(S, h)
  BY <1>1 DEF RowsTell
<1> QED
  BY <1>1, <1>3, <1>5, <1>6 DEF OneAdded

(* The types once more, one place each.                                    *)
LEMMA ProbeIs ==
    ASSUME ProbeShape, NEW x \in Contexts
    PROVE  /\ agg_probe[x].event \in Totals!Event
           /\ agg_probe[x].pc \in {"idle", "total", "latency", "row"}
           /\ agg_probe[x].pc = "latency" => agg_probe[x].event \in Totals!Known
           /\ agg_probe[x].pc = "row" => Totals!Row(agg_probe[x].event) # {}
BY DEF ProbeShape

ProbeAt(pc, e) == [pc |-> pc, event |-> e]
LEMMA ProbeAtIs ==
    ASSUME NEW pc, NEW e
    PROVE  ProbeAt(pc, e).pc = pc /\ ProbeAt(pc, e).event = e
BY DEF ProbeAt

(* A probe that moves to a state that has the shape.                       *)
MovedTo(q, x, pc, e) ==
    /\ q \in [Contexts -> [pc : {"idle", "total", "latency", "row"},
                            event : Totals!Event]]
    /\ \A y \in Contexts :
           /\ q[y].pc = "latency" => q[y].event \in Totals!Known
           /\ q[y].pc = "row" => Totals!Row(q[y].event) # {}
    /\ q[x].pc = pc /\ q[x].event = e
    /\ OthersStay(agg_probe, q, x)

LEMMA ProbeShapeMoved ==
    ASSUME ProbeShape, NEW x \in Contexts, NEW e \in Totals!Event,
           NEW pc \in {"idle", "total", "latency", "row"},
           pc = "latency" => e \in Totals!Known,
           pc = "row" => Totals!Row(e) # {},
           NEW q, q = [agg_probe EXCEPT ![x] = ProbeAt(pc, e)]
    PROVE  MovedTo(q, x, pc, e)
<1>1. ProbeAt(pc, e) \in [pc : {"idle", "total", "latency", "row"},
                          event : Totals!Event]
  BY DEF ProbeAt
<1>2. agg_probe \in [Contexts -> [pc : {"idle", "total", "latency", "row"},
                                  event : Totals!Event]]
  BY DEF ProbeShape
<1>3. /\ q[x] = ProbeAt(pc, e)
      /\ \A y \in Contexts : y # x => q[y] = agg_probe[y]
  BY <1>2
<1>4. q \in [Contexts -> [pc : {"idle", "total", "latency", "row"},
                          event : Totals!Event]]
  BY <1>1, <1>2
<1>5. q[x].pc = pc /\ q[x].event = e
  BY <1>3, ProbeAtIs
<1>6. ASSUME NEW y \in Contexts
      PROVE  /\ q[y].pc = "latency" => q[y].event \in Totals!Known
             /\ q[y].pc = "row" => Totals!Row(q[y].event) # {}
  BY <1>3, <1>5, ProbeIs
<1> QED
  BY <1>3, <1>4, <1>5, <1>6 DEF MovedTo, OthersStay

LEMMA TotalsFire ==
    ASSUME TotalsInv, NEW x \in Contexts, NEW e \in Totals!Event,
           Totals!Fire(x, e)
    PROVE  (TotalsShape /\ ProbeShape /\ Tally)'
<1>1. /\ agg_probe[x].pc = "idle"
      /\ agg_begun' = [agg_begun EXCEPT ![e] = @ + 1]
      /\ agg_probe' = [agg_probe EXCEPT ![x] = ProbeAt("total", e)]
      /\ agg_total' = agg_total /\ agg_latency' = agg_latency
      /\ agg_counts' = agg_counts /\ agg_ended' = agg_ended
  BY DEF Totals!Fire, Totals!totals, ProbeAt
<1>2. TotalsShape /\ ProbeShape /\ Tally
  BY DEF TotalsInv
<1>3. /\ agg_begun \in [Totals!Event -> Nat]
      /\ agg_ended \in [Totals!Event -> Nat]
  BY <1>2 DEF TotalsShape
<1>4. /\ agg_begun' \in [Totals!Event -> Nat]
      /\ agg_begun'[e] = agg_begun[e] + 1
      /\ \A f \in Totals!Event : f # e => agg_begun'[f] = agg_begun[f]
  BY <1>1, <1>3
<1>5. MovedTo(agg_probe', x, "total", e)
  <2>1. "total" \in {"idle", "total", "latency", "row"}
    OBVIOUS
  <2>2. /\ "total" = "latency" => e \in Totals!Known
        /\ "total" = "row" => Totals!Row(e) # {}
    OBVIOUS
  <2> QED
    BY <1>1, <1>2, <2>1, <2>2, ProbeShapeMoved
<1>6. ASSUME NEW f \in Totals!Event
      PROVE  /\ Cardinality(Past(agg_probe', f)) = Cardinality(Past(agg_probe, f))
             /\ Cardinality(AtRow(agg_probe', f)) = Cardinality(AtRow(agg_probe, f))
             /\ Cardinality(Busy(agg_probe, f)) \in Nat
             /\ f # e => Cardinality(Busy(agg_probe', f))
                             = Cardinality(Busy(agg_probe, f))
             /\ f = e => Cardinality(Busy(agg_probe', f))
                             = Cardinality(Busy(agg_probe, f)) + 1
  <2>1. /\ OthersStay(agg_probe, agg_probe', x)
        /\ agg_probe'[x].pc = "total" /\ agg_probe'[x].event = e
    BY <1>5 DEF MovedTo
  <2>2. /\ x \notin Past(agg_probe, f) /\ x \notin Past(agg_probe', f)
        /\ x \notin AtRow(agg_probe, f) /\ x \notin AtRow(agg_probe', f)
        /\ x \notin Busy(agg_probe, f) /\ (x \in Busy(agg_probe', f) <=> f = e)
    BY <1>1, <2>1 DEF Past, AtRow, Busy
  <2> QED
    BY <2>1, <2>2, BusyAt, PastAt, AtRowAt
<1>7. ASSUME NEW f \in Totals!Event
      PROVE  agg_begun'[f] = agg_ended'[f] + Cardinality(Busy(agg_probe', f))
  <2>1. agg_begun[f] = agg_ended[f] + Cardinality(Busy(agg_probe, f))
    BY <1>2 DEF Tally, BegunAndEnded
  <2>2. agg_ended[f] \in Nat /\ agg_ended'[f] = agg_ended[f]
    BY <1>1, <1>3
  <2> QED
    BY <1>4, <1>6, <2>1, <2>2
<1>8. /\ TotalsTell(agg_total, agg_ended, agg_probe')
      /\ LatenciesTell(agg_latency, agg_ended, agg_probe')
  BY <1>2, <1>3, <1>6, TallySame DEF Tally
<1>9. Tally'
  BY <1>1, <1>2, <1>7, <1>8 DEF Tally, BegunAndEnded, TotalsTell,
     LatenciesTell, RowsTell
<1>10. ProbeShape'
  BY <1>5 DEF ProbeShape, MovedTo
<1>11. TotalsShape'
  BY <1>1, <1>2, <1>4 DEF TotalsShape
<1> QED
  BY <1>9, <1>10, <1>11

LEMMA TotalsCountTotal ==
    ASSUME TotalsInv, NEW x \in Contexts, Totals!CountTotal(x)
    PROVE  /\ (TotalsShape /\ ProbeShape /\ Tally)'
           /\ \A f \in Totals!Event : agg_ended[f] <= agg_ended'[f]
<1>1. TotalsShape /\ ProbeShape /\ Tally
  BY DEF TotalsInv
<1>2. PICK e \in Totals!Event : e = agg_probe[x].event
  BY <1>1, ProbeIs
<1>3. PICK to \in {"latency", "row"} :
          to = IF e[1] = "io" /\ Totals!Measured(e[2]) THEN "latency" ELSE "row"
  OBVIOUS
<1>4. /\ agg_probe[x].pc = "total"
      /\ agg_total' = [agg_total EXCEPT ![e[1]] = @ + 1]
      /\ agg_latency' = agg_latency /\ agg_counts' = agg_counts
      /\ agg_begun' = agg_begun
      /\ Totals!Counted(x, to)
  BY <1>2, <1>3 DEF Totals!CountTotal, Totals!Counted
<1>5. to = "latency" <=> e \in Totals!Known
  BY <1>3, KnownMeasured
<1>6. e[1] \in Totals!Channel
  BY EventParts
<1>7. /\ agg_total \in [Totals!Channel -> Nat]
      /\ agg_begun \in [Totals!Event -> Nat] /\ agg_ended \in [Totals!Event -> Nat]
  BY <1>1 DEF TotalsShape
<1>8. agg_total' \in [Totals!Channel -> Nat]
  BY <1>4, <1>6, <1>7
<1>9. /\ TotalsTell(agg_total, agg_ended, agg_probe)
      /\ LatenciesTell(agg_latency, agg_ended, agg_probe)
      /\ RowsTell(agg_counts, agg_ended)
      /\ \A f \in Totals!Event :
            agg_begun[f] = agg_ended[f] + Cardinality(Busy(agg_probe, f))
  BY <1>1 DEF Tally, BegunAndEnded
<1>10. CASE to = "row" /\ Totals!Row(e) = {}
  <2>1. /\ agg_probe' = [agg_probe EXCEPT ![x] = ProbeAt("idle", <<"sched", 0>>)]
        /\ agg_ended' = [agg_ended EXCEPT ![e] = @ + 1]
    BY <1>2, <1>4, <1>10 DEF Totals!Counted, Totals!Idle, ProbeAt
  <2>2. MovedTo(agg_probe', x, "idle", <<"sched", 0>>)
    <3>1. /\ "idle" \in {"idle", "total", "latency", "row"}
          /\ <<"sched", 0>> \in Totals!Event
      BY DEF Totals!Event
    <3>2. "idle" # "latency" /\ "idle" # "row"
      OBVIOUS
    <3> QED
      BY <1>1, <2>1, <3>1, <3>2, ProbeShapeMoved
  <2>3. /\ OthersStay(agg_probe, agg_probe', x) /\ agg_probe'[x].pc = "idle"
    BY <2>2 DEF MovedTo
  <2>4. /\ agg_ended' \in [Totals!Event -> Nat]
        /\ agg_ended'[e] = agg_ended[e] + 1
        /\ \A f \in Totals!Event : f # e => agg_ended'[f] = agg_ended[f]
    BY <1>7, <2>1
  <2>5. ASSUME NEW f \in Totals!Event
        PROVE  /\ Cardinality(Past(agg_probe', f))
                      = Cardinality(Past(agg_probe, f))
               /\ Cardinality(AtRow(agg_probe', f))
                      = Cardinality(AtRow(agg_probe, f))
               /\ Cardinality(Busy(agg_probe', f)) \in Nat
               /\ f # e => Cardinality(Busy(agg_probe', f))
                               = Cardinality(Busy(agg_probe, f))
               /\ f = e => Cardinality(Busy(agg_probe, f))
                               = Cardinality(Busy(agg_probe', f)) + 1
    <3>1. /\ x \notin Past(agg_probe, f) /\ x \notin Past(agg_probe', f)
          /\ x \notin AtRow(agg_probe, f) /\ x \notin AtRow(agg_probe', f)
          /\ (x \in Busy(agg_probe, f) <=> f = e) /\ x \notin Busy(agg_probe', f)
      BY <1>2, <1>4, <2>3 DEF Past, AtRow, Busy
    <3> QED
      BY <2>3, <3>1, BusyAt, PastAt, AtRowAt
  <2>6. ASSUME NEW f \in Totals!Event
        PROVE  agg_begun'[f] = agg_ended'[f] + Cardinality(Busy(agg_probe', f))
    <3>1. agg_ended[f] \in Nat
      BY <1>7
    <3> QED
      BY <1>4, <1>9, <2>4, <2>5, <3>1
  <2>7. /\ Totaled(agg_ended', agg_probe')[e] = Totaled(agg_ended, agg_probe)[e] + 1
        /\ \A f \in Totals!Event : f # e =>
              Totaled(agg_ended', agg_probe')[f] = Totaled(agg_ended, agg_probe)[f]
    <3>1. \A f \in Totals!Event :
              /\ Totaled(agg_ended', agg_probe')[f]
                     = agg_ended'[f] + Cardinality(Past(agg_probe', f))
              /\ Totaled(agg_ended, agg_probe)[f]
                     = agg_ended[f] + Cardinality(Past(agg_probe, f))
              /\ agg_ended[f] \in Nat /\ Cardinality(Past(agg_probe, f)) \in Nat
      BY <1>7, <2>4, SumsTypes, SetSizes
    <3> QED
      BY <2>4, <2>5, <3>1
  <2>8. TotalsTell(agg_total', agg_ended', agg_probe')
    <3>1. PICK m, n, u : /\ m = Totaled(agg_ended, agg_probe)
                         /\ n = Totaled(agg_ended', agg_probe') /\ u = agg_total'
      OBVIOUS
    <3>2. \A f \in Totals!Event : m[f] \in Nat /\ n[f] \in Nat
      BY <1>7, <2>4, <3>1, SumsTypes
    <3>3. TotalsToldBy(agg_total, m)
      BY <1>9, <3>1 DEF TotalsTell
    <3>4. n[e] = m[e] + 1 /\ \A f \in Totals!Event : f # e => n[f] = m[f]
      BY <2>7, <3>1
    <3>5. /\ u[e[1]] = agg_total[e[1]] + 1
          /\ \A ch \in Totals!Channel : ch # e[1] => u[ch] = agg_total[ch]
      BY <1>4, <1>6, <1>7, <3>1
    <3>6. TotalsToldBy(u, n)
      BY <3>2, <3>3, <3>4, <3>5, ToldAdd
    <3> QED
      BY <3>1, <3>6 DEF TotalsTell
  <2>9. \A f \in Totals!Known :
            Delays(agg_ended', agg_probe')[f] = Delays(agg_ended, agg_probe)[f]
    <3> TAKE f \in Totals!Known
    <3>1. f \in Totals!Event /\ f # e
      BY <1>5, <1>10, PartsFinite
    <3>2. agg_ended'[f] = agg_ended[f]
      BY <2>4, <3>1
    <3> QED
      BY <2>5, <3>1, <3>2 DEF Delays
  <2>10. LatenciesTell(agg_latency', agg_ended', agg_probe')
    BY <1>4, <1>7, <1>9, <2>4, <2>9, LatenciesStay
  <2>11. RowsTell(agg_counts', agg_ended')
    BY <1>4, <1>7, <1>9, <1>10, <2>4, RowsStay
  <2>12. Tally'
    BY <2>6, <2>8, <2>10, <2>11 DEF Tally, BegunAndEnded
  <2>13. ProbeShape'
    BY <2>2 DEF ProbeShape, MovedTo
  <2>14. TotalsShape'
    BY <1>1, <1>4, <1>8, <2>4 DEF TotalsShape
  <2>15. \A f \in Totals!Event : agg_ended[f] <= agg_ended'[f]
    BY <1>7, <2>4
  <2> QED
    BY <2>12, <2>13, <2>14, <2>15
<1>11. CASE ~(to = "row" /\ Totals!Row(e) = {})
  <2>1. /\ agg_probe' = [agg_probe EXCEPT ![x] = ProbeAt(to, e)]
        /\ agg_ended' = agg_ended
    <3>1. /\ agg_probe' = [agg_probe EXCEPT ![x] = [@ EXCEPT !.pc = to]]
          /\ agg_ended' = agg_ended
      BY <1>2, <1>4, <1>11 DEF Totals!Counted
    <3>2. [agg_probe[x] EXCEPT !.pc = to] = ProbeAt(to, e)
      BY <1>1, <1>2 DEF ProbeShape, ProbeAt
    <3> QED
      BY <3>1, <3>2
  <2>2. MovedTo(agg_probe', x, to, e)
    <3>1. to \in {"idle", "total", "latency", "row"}
      OBVIOUS
    <3>2. /\ to = "latency" => e \in Totals!Known
          /\ to = "row" => Totals!Row(e) # {}
      BY <1>5, <1>11
    <3> QED
      BY <1>1, <2>1, <3>1, <3>2, ProbeShapeMoved
  <2>3. /\ OthersStay(agg_probe, agg_probe', x) /\ agg_probe'[x].pc = to
        /\ agg_probe'[x].event = e
    BY <2>2 DEF MovedTo
  <2>4. ASSUME NEW f \in Totals!Event
        PROVE  /\ Cardinality(Past(agg_probe, f)) \in Nat
               /\ f # e => Cardinality(Past(agg_probe', f))
                               = Cardinality(Past(agg_probe, f))
               /\ f = e => Cardinality(Past(agg_probe', f))
                               = Cardinality(Past(agg_probe, f)) + 1
               /\ f # e \/ to = "latency" =>
                      Cardinality(AtRow(agg_probe', f))
                          = Cardinality(AtRow(agg_probe, f))
               /\ Cardinality(Busy(agg_probe', f)) = Cardinality(Busy(agg_probe, f))
    <3>1. /\ x \notin Past(agg_probe, f) /\ (x \in Past(agg_probe', f) <=> f = e)
          /\ x \notin AtRow(agg_probe, f)
          /\ f # e \/ to = "latency" => x \notin AtRow(agg_probe', f)
          /\ (x \in Busy(agg_probe, f) <=> x \in Busy(agg_probe', f))
      BY <1>2, <1>3, <1>4, <2>3 DEF Past, AtRow, Busy
    <3> QED
      BY <2>3, <3>1, BusyAt, PastAt, AtRowAt
  <2>5. ASSUME NEW f \in Totals!Event
        PROVE  agg_begun'[f] = agg_ended'[f] + Cardinality(Busy(agg_probe', f))
    BY <1>4, <1>9, <2>1, <2>4
  <2>6. /\ Totaled(agg_ended', agg_probe')[e] = Totaled(agg_ended, agg_probe)[e] + 1
        /\ \A f \in Totals!Event : f # e =>
              Totaled(agg_ended', agg_probe')[f] = Totaled(agg_ended, agg_probe)[f]
    <3>1. \A f \in Totals!Event :
              /\ Totaled(agg_ended', agg_probe')[f]
                     = agg_ended[f] + Cardinality(Past(agg_probe', f))
              /\ Totaled(agg_ended, agg_probe)[f]
                     = agg_ended[f] + Cardinality(Past(agg_probe, f))
              /\ agg_ended[f] \in Nat
      BY <1>7, <2>1, SumsTypes
    <3> QED
      BY <2>4, <3>1
  <2>7. TotalsTell(agg_total', agg_ended', agg_probe')
    <3>1. PICK m, n, u : /\ m = Totaled(agg_ended, agg_probe)
                         /\ n = Totaled(agg_ended', agg_probe') /\ u = agg_total'
      OBVIOUS
    <3>2. \A f \in Totals!Event : m[f] \in Nat /\ n[f] \in Nat
      BY <1>7, <2>1, <3>1, SumsTypes
    <3>3. TotalsToldBy(agg_total, m)
      BY <1>9, <3>1 DEF TotalsTell
    <3>4. n[e] = m[e] + 1 /\ \A f \in Totals!Event : f # e => n[f] = m[f]
      BY <2>6, <3>1
    <3>5. /\ u[e[1]] = agg_total[e[1]] + 1
          /\ \A ch \in Totals!Channel : ch # e[1] => u[ch] = agg_total[ch]
      BY <1>4, <1>6, <1>7, <3>1
    <3>6. TotalsToldBy(u, n)
      BY <3>2, <3>3, <3>4, <3>5, ToldAdd
    <3> QED
      BY <3>1, <3>6 DEF TotalsTell
  <2>8. \A f \in Totals!Known :
            Delays(agg_ended', agg_probe')[f] = Delays(agg_ended, agg_probe)[f]
    <3> TAKE f \in Totals!Known
    <3>1. f \in Totals!Event /\ (f # e \/ to = "latency")
      BY <1>5, PartsFinite
    <3> QED
      BY <2>1, <2>4, <3>1 DEF Delays
  <2>9. LatenciesTell(agg_latency', agg_ended', agg_probe')
    BY <1>4, <1>7, <1>9, <2>1, <2>8, LatenciesStay
  <2>10. RowsTell(agg_counts', agg_ended')
    BY <1>4, <1>9, <2>1
  <2>11. Tally'
    BY <2>5, <2>7, <2>9, <2>10 DEF Tally, BegunAndEnded
  <2>12. ProbeShape'
    BY <2>2 DEF ProbeShape, MovedTo
  <2>13. TotalsShape'
    BY <1>1, <1>4, <1>8, <2>1 DEF TotalsShape
  <2>14. \A f \in Totals!Event : agg_ended[f] <= agg_ended'[f]
    BY <1>7, <2>1
  <2> QED
    BY <2>11, <2>12, <2>13, <2>14
<1> QED
  BY <1>10, <1>11

LEMMA TotalsCountLatency ==
    ASSUME TotalsInv, NEW x \in Contexts, Totals!CountLatency(x)
    PROVE  /\ (TotalsShape /\ ProbeShape /\ Tally)'
           /\ \A f \in Totals!Event : agg_ended[f] <= agg_ended'[f]
<1>1. TotalsShape /\ ProbeShape /\ Tally
  BY DEF TotalsInv
<1>2. PICK e \in Totals!Event : e = agg_probe[x].event
  BY <1>1, ProbeIs
<1>3. agg_probe[x].pc = "latency" /\ e \in Totals!Known
  BY <1>1, <1>2, ProbeIs DEF Totals!CountLatency
<1>4. Totals!Row(e) # {}
  BY <1>3, OneRow
<1>5. /\ agg_probe' = [agg_probe EXCEPT ![x] = ProbeAt("row", e)]
      /\ agg_latency' = agg_latency + Latent(e)
      /\ agg_total' = agg_total /\ agg_counts' = agg_counts
      /\ agg_begun' = agg_begun /\ agg_ended' = agg_ended
  <2>1. /\ Totals!Counted(x, "row") /\ agg_latency' = agg_latency + Latent(e)
        /\ agg_total' = agg_total /\ agg_counts' = agg_counts
        /\ agg_begun' = agg_begun
    BY <1>2 DEF Totals!CountLatency, Totals!Counted, Totals!Latency, Latent
  <2>2. /\ agg_probe' = [agg_probe EXCEPT ![x] = [@ EXCEPT !.pc = "row"]]
        /\ agg_ended' = agg_ended
    BY <1>2, <1>4, <2>1 DEF Totals!Counted
  <2>3. [agg_probe[x] EXCEPT !.pc = "row"] = ProbeAt("row", e)
    BY <1>1, <1>2 DEF ProbeShape, ProbeAt
  <2> QED
    BY <2>1, <2>2, <2>3
<1>6. MovedTo(agg_probe', x, "row", e)
  <2>1. /\ "row" \in {"idle", "total", "latency", "row"}
        /\ "row" = "latency" => e \in Totals!Known
        /\ "row" = "row" => Totals!Row(e) # {}
    BY <1>4
  <2> QED
    BY <1>1, <1>5, <2>1, ProbeShapeMoved
<1>7. /\ OthersStay(agg_probe, agg_probe', x) /\ agg_probe'[x].pc = "row"
      /\ agg_probe'[x].event = e
  BY <1>6 DEF MovedTo
<1>8. ASSUME NEW f \in Totals!Event
      PROVE  /\ Cardinality(Past(agg_probe', f)) = Cardinality(Past(agg_probe, f))
             /\ Cardinality(AtRow(agg_probe, f)) \in Nat
             /\ f # e => Cardinality(AtRow(agg_probe', f))
                             = Cardinality(AtRow(agg_probe, f))
             /\ f = e => Cardinality(AtRow(agg_probe', f))
                             = Cardinality(AtRow(agg_probe, f)) + 1
             /\ Cardinality(Busy(agg_probe', f)) = Cardinality(Busy(agg_probe, f))
  <2>1. /\ (x \in Past(agg_probe, f) <=> x \in Past(agg_probe', f))
        /\ x \notin AtRow(agg_probe, f) /\ (x \in AtRow(agg_probe', f) <=> f = e)
        /\ (x \in Busy(agg_probe, f) <=> x \in Busy(agg_probe', f))
    BY <1>2, <1>3, <1>7 DEF Past, AtRow, Busy
  <2> QED
    BY <1>7, <2>1, BusyAt, PastAt, AtRowAt
<1>9. /\ agg_begun \in [Totals!Event -> Nat] /\ agg_ended \in [Totals!Event -> Nat]
      /\ agg_latency \in Nat /\ Latent(e) \in Nat
  BY <1>1, LatentType DEF TotalsShape
<1>10. BegunAndEnded(agg_begun', agg_ended', agg_probe')
  BY <1>1, <1>5, <1>8 DEF Tally, BegunAndEnded
<1>11. TotalsTell(agg_total', agg_ended', agg_probe')
  <2>1. \A f \in Totals!Event :
            Totaled(agg_ended, agg_probe')[f] = Totaled(agg_ended, agg_probe)[f]
    BY <1>8 DEF Totaled
  <2> QED
    BY <1>1, <1>5, <1>9, <2>1, TotalsStay DEF Tally
<1>12. LatenciesTell(agg_latency', agg_ended', agg_probe')
  <2>1. Delays(agg_ended, agg_probe')[e]
            = Delays(agg_ended, agg_probe)[e] + Latent(e)
    <3>1. PICK n \in Nat : n = agg_ended[e] + Cardinality(AtRow(agg_probe, e))
      BY <1>8, <1>9
    <3>2. agg_ended[e] + Cardinality(AtRow(agg_probe', e)) = n + 1
      BY <1>8, <1>9, <3>1
    <3>3. /\ Delays(agg_ended, agg_probe)[e] = n * Latent(e)
          /\ Delays(agg_ended, agg_probe')[e] = (n + 1) * Latent(e)
      BY <3>1, <3>2 DEF Delays
    <3>4. (n + 1) * Latent(e) = n * Latent(e) + Latent(e)
      BY <1>9, OneMore
    <3> QED
      BY <3>3, <3>4
  <2>2. \A f \in Totals!Known : f # e =>
            Delays(agg_ended, agg_probe')[f] = Delays(agg_ended, agg_probe)[f]
    BY <1>8, PartsFinite DEF Delays
  <2>3. PICK l, d : l = agg_latency /\ d = Latent(e)
    OBVIOUS
  <2>4. LatenciesTell(l, agg_ended, agg_probe) /\ d \in Nat
    BY <1>1, <1>9, <2>3 DEF Tally
  <2>5. LatenciesTell(l + d, agg_ended, agg_probe')
    BY <1>3, <1>9, <2>1, <2>2, <2>3, <2>4, LatenciesAdd
  <2> QED
    BY <1>5, <2>3, <2>5
<1>13. RowsTell(agg_counts', agg_ended')
  BY <1>1, <1>5 DEF Tally
<1>14. Tally'
  BY <1>10, <1>11, <1>12, <1>13 DEF Tally
<1>15. ProbeShape'
  BY <1>6 DEF ProbeShape, MovedTo
<1>16. TotalsShape'
  BY <1>1, <1>5, <1>9 DEF TotalsShape
<1>17. \A f \in Totals!Event : agg_ended[f] <= agg_ended'[f]
  BY <1>5, <1>9
<1> QED
  BY <1>14, <1>15, <1>16, <1>17

LEMMA TotalsCountRow ==
    ASSUME TotalsInv, NEW x \in Contexts, Totals!CountRow(x)
    PROVE  /\ (TotalsShape /\ ProbeShape /\ Tally)'
           /\ \A f \in Totals!Event : agg_ended[f] <= agg_ended'[f]
<1>1. TotalsShape /\ ProbeShape /\ Tally
  BY DEF TotalsInv
<1>2. PICK e \in Totals!Event : e = agg_probe[x].event
  BY <1>1, ProbeIs
<1>3. PICK j \in Totals!Row(e) :
          agg_counts' = [agg_counts EXCEPT ![e[1]][j] = @ + 1]
  BY <1>2 DEF Totals!CountRow
<1>4. /\ agg_probe[x].pc = "row"
      /\ agg_probe' = [agg_probe EXCEPT ![x] = ProbeAt("idle", <<"sched", 0>>)]
      /\ agg_ended' = [agg_ended EXCEPT ![e] = @ + 1]
      /\ agg_total' = agg_total /\ agg_latency' = agg_latency
      /\ agg_begun' = agg_begun
  BY <1>2 DEF Totals!CountRow, Totals!Idle, ProbeAt
<1>5. MovedTo(agg_probe', x, "idle", <<"sched", 0>>)
  <2>1. /\ "idle" \in {"idle", "total", "latency", "row"}
        /\ <<"sched", 0>> \in Totals!Event
    BY DEF Totals!Event
  <2>2. "idle" # "latency" /\ "idle" # "row"
    OBVIOUS
  <2> QED
    BY <1>1, <1>4, <2>1, <2>2, ProbeShapeMoved
<1>6. OthersStay(agg_probe, agg_probe', x) /\ agg_probe'[x].pc = "idle"
  BY <1>5 DEF MovedTo
<1>7. /\ agg_begun \in [Totals!Event -> Nat] /\ agg_ended \in [Totals!Event -> Nat]
      /\ agg_counts = [ch \in Totals!Channel |-> agg_counts[ch]]
      /\ \A ch \in Totals!Channel :
            agg_counts[ch] \in [1 .. Totals!Rows(ch) -> Nat]
  BY <1>1 DEF TotalsShape
<1>8. /\ agg_ended' \in [Totals!Event -> Nat]
      /\ agg_ended'[e] = agg_ended[e] + 1
      /\ \A f \in Totals!Event : f # e => agg_ended'[f] = agg_ended[f]
  BY <1>4, <1>7
<1>9. ASSUME NEW f \in Totals!Event
      PROVE  /\ Cardinality(Past(agg_probe', f)) \in Nat
             /\ Cardinality(AtRow(agg_probe', f)) \in Nat
             /\ Cardinality(Busy(agg_probe', f)) \in Nat
             /\ f # e =>
                    /\ Cardinality(Past(agg_probe', f))
                           = Cardinality(Past(agg_probe, f))
                    /\ Cardinality(AtRow(agg_probe', f))
                           = Cardinality(AtRow(agg_probe, f))
                    /\ Cardinality(Busy(agg_probe', f))
                           = Cardinality(Busy(agg_probe, f))
             /\ f = e =>
                    /\ Cardinality(Past(agg_probe, f))
                           = Cardinality(Past(agg_probe', f)) + 1
                    /\ Cardinality(AtRow(agg_probe, f))
                           = Cardinality(AtRow(agg_probe', f)) + 1
                    /\ Cardinality(Busy(agg_probe, f))
                           = Cardinality(Busy(agg_probe', f)) + 1
  <2>1. /\ (x \in Past(agg_probe, f) <=> f = e) /\ x \notin Past(agg_probe', f)
        /\ (x \in AtRow(agg_probe, f) <=> f = e) /\ x \notin AtRow(agg_probe', f)
        /\ (x \in Busy(agg_probe, f) <=> f = e) /\ x \notin Busy(agg_probe', f)
    BY <1>2, <1>4, <1>6 DEF Past, AtRow, Busy
  <2> QED
    BY <1>6, <2>1, BusyAt, PastAt, AtRowAt
<1>10. BegunAndEnded(agg_begun', agg_ended', agg_probe')
  <2>1. \A f \in Totals!Event :
            agg_begun[f] = agg_ended[f] + Cardinality(Busy(agg_probe, f))
    BY <1>1 DEF Tally, BegunAndEnded
  <2>2. ASSUME NEW f \in Totals!Event
        PROVE  agg_begun'[f] = agg_ended'[f] + Cardinality(Busy(agg_probe', f))
    <3>1. agg_ended[f] \in Nat /\ agg_begun'[f] = agg_begun[f]
      BY <1>4, <1>7
    <3>2. CASE f = e
      <4>1. PICK m \in Nat : m = Cardinality(Busy(agg_probe', f))
        BY <1>9
      <4>2. Cardinality(Busy(agg_probe, f)) = m + 1
        BY <1>9, <3>2, <4>1
      <4>3. agg_ended'[f] = agg_ended[f] + 1
        BY <1>8, <3>2
      <4> QED
        BY <2>1, <3>1, <4>1, <4>2, <4>3
    <3>3. CASE f # e
      BY <1>8, <1>9, <2>1, <3>1, <3>3
    <3> QED
      BY <3>2, <3>3
  <2> QED
    BY <2>2 DEF BegunAndEnded
<1>11. TotalsTell(agg_total', agg_ended', agg_probe')
  <2>1. ASSUME NEW f \in Totals!Event
        PROVE  Totaled(agg_ended', agg_probe')[f] = Totaled(agg_ended, agg_probe)[f]
    <3>1. agg_ended[f] \in Nat
      BY <1>7
    <3>2. agg_ended'[f] + Cardinality(Past(agg_probe', f))
              = agg_ended[f] + Cardinality(Past(agg_probe, f))
      <4>1. PICK m \in Nat : m = Cardinality(Past(agg_probe', f))
        BY <1>9
      <4>2. CASE f = e
        <5>1. Cardinality(Past(agg_probe, f)) = m + 1
          BY <1>9, <4>1, <4>2
        <5>2. agg_ended'[f] = agg_ended[f] + 1
          BY <1>8, <4>2
        <5> QED
          BY <3>1, <4>1, <5>1, <5>2
      <4>3. CASE f # e
        BY <1>8, <1>9, <4>3
      <4> QED
        BY <4>2, <4>3
    <3> QED
      BY <3>2 DEF Totaled
  <2>2. TotalsTell(agg_total, agg_ended, agg_probe)
    BY <1>1 DEF Tally
  <2>3. TotalsTell(agg_total, agg_ended', agg_probe')
    BY <1>7, <1>8, <2>1, <2>2, TotalsStay
  <2> QED
    BY <1>4, <2>3
<1>12. LatenciesTell(agg_latency', agg_ended', agg_probe')
  <2>1. ASSUME NEW f \in Totals!Event
        PROVE  Delays(agg_ended', agg_probe')[f] = Delays(agg_ended, agg_probe)[f]
    <3>1. agg_ended[f] \in Nat
      BY <1>7
    <3>2. agg_ended'[f] + Cardinality(AtRow(agg_probe', f))
              = agg_ended[f] + Cardinality(AtRow(agg_probe, f))
      <4>1. PICK m \in Nat : m = Cardinality(AtRow(agg_probe', f))
        BY <1>9
      <4>2. CASE f = e
        <5>1. Cardinality(AtRow(agg_probe, f)) = m + 1
          BY <1>9, <4>1, <4>2
        <5>2. agg_ended'[f] = agg_ended[f] + 1
          BY <1>8, <4>2
        <5> QED
          BY <3>1, <4>1, <5>1, <5>2
      <4>3. CASE f # e
        BY <1>8, <1>9, <4>3
      <4> QED
        BY <4>2, <4>3
    <3> QED
      BY <3>2 DEF Delays
  <2>2. LatenciesTell(agg_latency, agg_ended, agg_probe)
        /\ \A f \in Totals!Known :
               Delays(agg_ended', agg_probe')[f] = Delays(agg_ended, agg_probe)[f]
    BY <1>1, <2>1, PartsFinite DEF Tally
  <2>3. LatenciesTell(agg_latency, agg_ended', agg_probe')
    BY <1>7, <1>8, <2>2, LatenciesStay
  <2> QED
    BY <1>4, <2>3
<1>13. e[1] \in Totals!Channel /\ j \in 1 .. Totals!Rows(e[1])
  BY EventParts, RowIn
<1>14. /\ agg_counts' = [ch \in Totals!Channel |-> agg_counts'[ch]]
       /\ \A ch \in Totals!Channel :
             agg_counts'[ch] \in [1 .. Totals!Rows(ch) -> Nat]
       /\ \A ch \in Totals!Channel : \A i \in 1 .. Totals!Rows(ch) :
             /\ ch = e[1] /\ i = j => agg_counts'[ch][i] = agg_counts[ch][i] + 1
             /\ ~(ch = e[1] /\ i = j) => agg_counts'[ch][i] = agg_counts[ch][i]
  <2>1. PICK c, b : c = agg_counts[e[1]] /\ b = [c EXCEPT ![j] = @ + 1]
    OBVIOUS
  <2>2. c \in [1 .. Totals!Rows(e[1]) -> Nat]
    BY <1>7, <1>13, <2>1
  <2>3. /\ b \in [1 .. Totals!Rows(e[1]) -> Nat] /\ b[j] = c[j] + 1
        /\ \A i \in 1 .. Totals!Rows(e[1]) : i # j => b[i] = c[i]
    <3>1. PICK D : D = 1 .. Totals!Rows(e[1])
      OBVIOUS
    <3>2. c \in [D -> Nat] /\ j \in D /\ b = [c EXCEPT ![j] = @ + 1]
      BY <1>13, <2>1, <2>2, <3>1
    <3>3. c[j] + 1 \in Nat
      BY <3>2
    <3>4. b[j] = c[j] + 1 /\ \A i \in D : i # j => b[i] = c[i]
      BY <3>2
    <3>5. b \in [D -> Nat]
      BY <3>2, <3>3
    <3> QED
      BY <3>1, <3>4, <3>5
  <2>4. agg_counts' = [agg_counts EXCEPT ![e[1]] = b]
    BY <1>3, <2>1
  <2>5. /\ agg_counts' = [ch \in Totals!Channel |-> agg_counts'[ch]]
        /\ agg_counts'[e[1]] = b
        /\ \A ch \in Totals!Channel : ch # e[1] => agg_counts'[ch] = agg_counts[ch]
    BY <1>7, <1>13, <2>4
  <2> QED
    BY <1>7, <2>1, <2>3, <2>5
<1>15. RowsTell(agg_counts', agg_ended')
  <2>1. RowsTell(agg_counts, agg_ended)
    BY <1>1 DEF Tally
  <2> QED
    <3>1. PICK b, k : b = agg_counts' /\ k = agg_ended'
      OBVIOUS
    <3>2. /\ k \in [Totals!Event -> Nat] /\ k[e] = agg_ended[e] + 1
          /\ \A f \in Totals!Event : f # e => k[f] = agg_ended[f]
      BY <1>8, <3>1
    <3>3. OneAdded(agg_counts, b, e[1], j)
      BY <1>14, <3>1 DEF OneAdded
    <3>4. RowsTell(b, k)
      BY <1>7, <2>1, <3>2, <3>3, RowsAdd
    <3> QED
      BY <3>1, <3>4
<1>16. Tally'
  BY <1>10, <1>11, <1>12, <1>15 DEF Tally
<1>17. ProbeShape'
  BY <1>5 DEF ProbeShape, MovedTo
<1>18. TotalsShape'
  BY <1>1, <1>4, <1>8, <1>14 DEF TotalsShape
<1>19. \A f \in Totals!Event : agg_ended[f] <= agg_ended'[f]
  BY <1>7, <1>8
<1> QED
  BY <1>16, <1>17, <1>18, <1>19

------------------------------------------------------------------------------
(* Reports. More events, larger sums.                                      *)
LEMMA SumsMore ==
    ASSUME NEW h \in [Totals!Event -> Nat], NEW k \in [Totals!Event -> Nat],
           \A e \in Totals!Event : h[e] <= k[e]
    PROVE  /\ \A S \in SUBSET Totals!Event :
                  /\ Totals!Over(S, h) \in Nat /\ Totals!Over(S, k) \in Nat
                  /\ Totals!Over(S, h) <= Totals!Over(S, k)
           /\ Totals!Sum(h) \in Nat /\ Totals!Sum(k) \in Nat
           /\ Totals!Sum(h) <= Totals!Sum(k)
<1>1. ASSUME NEW S \in SUBSET Totals!Event
      PROVE  /\ Totals!Over(S, h) \in Nat /\ Totals!Over(S, k) \in Nat
             /\ Totals!Over(S, h) <= Totals!Over(S, k)
  <2>1. IsFiniteSet(S)
    BY EventsFinite, FS_Subset
  <2>2. \A e \in S : h[e] \in Nat /\ k[e] \in Nat /\ h[e] <= k[e]
    OBVIOUS
  <2>3. (\A e \in S : h[e] \in Nat) /\ (\A e \in S : k[e] \in Nat)
    OBVIOUS
  <2>4. Totals!Over(S, h) \in Nat /\ Totals!Over(S, k) \in Nat
    BY <2>1, <2>3, OverType
  <2> QED
    BY <2>1, <2>2, <2>4, SumMore
<1>2. PICK S, m, n :
          /\ S = Totals!Known
          /\ m = [e \in Totals!Known |-> h[e] * ((Completed - e[2]) % Width)]
          /\ n = [e \in Totals!Known |-> k[e] * ((Completed - e[2]) % Width)]
  OBVIOUS
<1>3. IsFiniteSet(S) /\ S \subseteq Totals!Event
  BY <1>2, PartsFinite
<1>4. ASSUME NEW e \in S PROVE m[e] \in Nat /\ n[e] \in Nat /\ m[e] <= n[e]
  <2>1. /\ h[e] \in Nat /\ k[e] \in Nat /\ h[e] <= k[e] /\ Latent(e) \in Nat
    BY <1>3, LatentType
  <2>2. h[e] * Latent(e) \in Nat /\ k[e] * Latent(e) \in Nat
        /\ h[e] * Latent(e) <= k[e] * Latent(e)
    BY <2>1, TimesMore
  <2> QED
    BY <1>2, <2>2 DEF Latent
<1>5. (\A e \in S : m[e] \in Nat) /\ (\A e \in S : n[e] \in Nat)
  BY <1>4
<1>6. Totals!Over(S, m) \in Nat /\ Totals!Over(S, n) \in Nat
  BY <1>3, <1>5, OverType
<1>7. Totals!Over(S, m) <= Totals!Over(S, n)
  BY <1>3, <1>4, SumMore
<1>8. Totals!Sum(h) = Totals!Over(S, m) /\ Totals!Sum(k) = Totals!Over(S, n)
  BY <1>2 DEF Totals!Sum
<1> QED
  BY <1>1, <1>6, <1>7, <1>8

(* Each counter lies between the sums for ended and begun events.          *)
LEMMA TallyBounds ==
    ASSUME TotalsShape, Tally
    PROVE  /\ \A e \in Totals!Event : agg_ended[e] <= agg_begun[e]
           /\ \A ch \in Totals!Channel :
                 /\ Totals!Over(OfChannel(ch), agg_ended) <= agg_total[ch]
                 /\ agg_total[ch] <= Totals!Over(OfChannel(ch), agg_begun)
           /\ Totals!Sum(agg_ended) <= agg_latency
           /\ agg_latency <= Totals!Sum(agg_begun)
           /\ \A ch \in Totals!Channel : \A i \in 1 .. Totals!Rows(ch) :
                 agg_counts[ch][i] = Totals!Over(Counts(ch, i), agg_ended)
<1>1. /\ agg_begun \in [Totals!Event -> Nat] /\ agg_ended \in [Totals!Event -> Nat]
      /\ agg_total \in [Totals!Channel -> Nat] /\ agg_latency \in Nat
  BY DEF TotalsShape
<1>2. ASSUME NEW e \in Totals!Event
      PROVE  /\ agg_ended[e] \in Nat /\ agg_begun[e] \in Nat
             /\ Cardinality(Past(agg_probe, e)) \in Nat
             /\ Cardinality(AtRow(agg_probe, e)) \in Nat
             /\ agg_ended[e] + Cardinality(Past(agg_probe, e)) <= agg_begun[e]
             /\ agg_ended[e] + Cardinality(AtRow(agg_probe, e)) <= agg_begun[e]
  <2>1. agg_begun[e] = agg_ended[e] + Cardinality(Busy(agg_probe, e))
    BY DEF Tally, BegunAndEnded
  <2>2. agg_ended[e] \in Nat /\ agg_begun[e] \in Nat
    BY <1>1
  <2> QED
    BY <2>1, <2>2, SetSizes
<1>3. \A e \in Totals!Event : agg_ended[e] <= agg_begun[e]
  BY <1>2
<1>4. PICK m : m = Totaled(agg_ended, agg_probe)
  OBVIOUS
<1>5. /\ m \in [Totals!Event -> Nat]
      /\ \A e \in Totals!Event : agg_ended[e] <= m[e] /\ m[e] <= agg_begun[e]
  <2>1. m = [e \in Totals!Event |->
                 agg_ended[e] + Cardinality(Past(agg_probe, e))]
    BY <1>4 DEF Totaled
  <2>2. ASSUME NEW e \in Totals!Event
        PROVE  m[e] \in Nat /\ agg_ended[e] <= m[e] /\ m[e] <= agg_begun[e]
    BY <1>2, <2>1
  <2> QED
    BY <2>1, <2>2
<1>6. ASSUME NEW ch \in Totals!Channel
      PROVE  /\ Totals!Over(OfChannel(ch), agg_ended) <= agg_total[ch]
             /\ agg_total[ch] <= Totals!Over(OfChannel(ch), agg_begun)
  <2>1. agg_total[ch] = Totals!Over(OfChannel(ch), m)
    BY <1>4 DEF Tally, TotalsTell, TotalsToldBy
  <2>2. OfChannel(ch) \in SUBSET Totals!Event
    BY PartsFinite
  <2>3. Totals!Over(OfChannel(ch), agg_ended) <= Totals!Over(OfChannel(ch), m)
    BY <1>1, <1>5, <2>2, SumsMore
  <2>4. Totals!Over(OfChannel(ch), m) <= Totals!Over(OfChannel(ch), agg_begun)
    BY <1>1, <1>5, <2>2, SumsMore
  <2> QED
    BY <2>1, <2>3, <2>4
<1>7. PICK n : n = [e \in Totals!Event |->
                        agg_ended[e] + Cardinality(AtRow(agg_probe, e))]
  OBVIOUS
<1>8. /\ n \in [Totals!Event -> Nat]
      /\ \A e \in Totals!Event : agg_ended[e] <= n[e] /\ n[e] <= agg_begun[e]
  <2>1. ASSUME NEW e \in Totals!Event
        PROVE  n[e] \in Nat /\ agg_ended[e] <= n[e] /\ n[e] <= agg_begun[e]
    BY <1>2, <1>7
  <2> QED
    BY <1>7, <2>1
<1>9. agg_latency = Totals!Sum(n)
  <2>1. PICK S, d, b : /\ S = Totals!Known /\ d = Delays(agg_ended, agg_probe)
                       /\ b = [e \in Totals!Known |->
                                 n[e] * ((Completed - e[2]) % Width)]
    OBVIOUS
  <2>2. IsFiniteSet(S) /\ S \subseteq Totals!Event
    BY <2>1, PartsFinite
  <2>3. \A e \in S : d[e] \in Nat /\ b[e] = d[e]
    <3> TAKE e \in S
    <3>1. e \in Totals!Event
      BY <2>2
    <3>2. d[e] = n[e] * Latent(e)
      BY <1>7, <2>1, <3>1 DEF Delays
    <3>3. b[e] = n[e] * Latent(e)
      BY <2>1 DEF Latent
    <3>4. d[e] \in Nat
      BY <1>1, <2>1, <3>1, SumsTypes
    <3> QED
      BY <3>2, <3>3, <3>4
  <2>4. Totals!Over(S, b) = Totals!Over(S, d)
    BY <2>2, <2>3, SumSame
  <2>5. agg_latency = Totals!Over(S, d)
    BY <2>1 DEF Tally, LatenciesTell
  <2>6. Totals!Sum(n) = Totals!Over(S, b)
    BY <2>1 DEF Totals!Sum
  <2> QED
    BY <2>4, <2>5, <2>6
<1>10. Totals!Sum(agg_ended) <= agg_latency
  BY <1>1, <1>8, <1>9, SumsMore
<1>11. agg_latency <= Totals!Sum(agg_begun)
  BY <1>1, <1>8, <1>9, SumsMore
<1>12. \A ch \in Totals!Channel : \A i \in 1 .. Totals!Rows(ch) :
           agg_counts[ch][i] = Totals!Over(Counts(ch, i), agg_ended)
  BY DEF Tally, RowsTell
<1> QED
  BY <1>3, <1>6, <1>10, <1>11, <1>12

LEMMA ReaderIs ==
    ASSUME ReaderShape
    PROVE  /\ agg_reader.pc \in {"off", "latency", "rows", "done"}
           /\ agg_reader.ch \in Totals!Channel
           /\ agg_reader.total \in Nat /\ agg_reader.latency \in Nat
           /\ agg_reader.shown \in Seq(Nat)
           /\ agg_reader.before \in [Totals!Event -> Nat]
BY DEF ReaderShape

(* While a report reads, its bounds only part.                             *)
LEMMA ReportKept ==
    ASSUME TotalsInv, agg_reader' = agg_reader,
           agg_begun' \in [Totals!Event -> Nat],
           \A e \in Totals!Event :
               agg_begun[e] <= agg_begun'[e] /\ agg_ended[e] <= agg_ended'[e],
           agg_ended' \in [Totals!Event -> Nat]
    PROVE  (ReaderShape /\ Reported)'
<1>1. ReaderShape /\ Reported /\ TotalsShape
  BY DEF TotalsInv
<1>2. ReaderShape'
  BY <1>1 DEF ReaderShape
<1>3. /\ agg_begun \in [Totals!Event -> Nat] /\ agg_ended \in [Totals!Event -> Nat]
  BY <1>1 DEF TotalsShape
<1>4. PICK b, k : b = agg_begun' /\ k = agg_ended'
  OBVIOUS
<1>5. /\ b \in [Totals!Event -> Nat]
      /\ \A e \in Totals!Event : agg_begun[e] <= b[e]
  BY <1>4
<1>6. /\ \A S \in SUBSET Totals!Event :
            /\ Totals!Over(S, agg_begun) \in Nat /\ Totals!Over(S, b) \in Nat
            /\ Totals!Over(S, agg_begun) <= Totals!Over(S, b)
      /\ Totals!Sum(agg_begun) \in Nat /\ Totals!Sum(b) \in Nat
      /\ Totals!Sum(agg_begun) <= Totals!Sum(b)
  BY <1>3, <1>5, SumsMore
<1>7. PICK r : r = agg_reader
  OBVIOUS
<1>8. /\ r.total \in Nat /\ r.latency \in Nat /\ r.shown \in Seq(Nat)
      /\ r.ch \in Totals!Channel
  BY <1>1, <1>7, ReaderIs
<1>9. ASSUME r.pc # "off"
      PROVE  /\ \A e \in Totals!Event : r.before[e] <= k[e]
             /\ Totals!Between(Totals!Over(OfChannel(r.ch), r.before), r.total,
                               Totals!Over(OfChannel(r.ch), b))
             /\ r.pc \in {"rows", "done"} /\ r.ch = "io" =>
                    Totals!Between(Totals!Sum(r.before), r.latency, Totals!Sum(b))
             /\ Len(r.shown) <= Totals!Rows(r.ch)
             /\ \A i \in 1 .. Len(r.shown) :
                    Totals!Between(Totals!Over(Counts(r.ch, i), r.before),
                                   r.shown[i], Totals!Over(Counts(r.ch, i), b))
  <2>1. /\ \A e \in Totals!Event : r.before[e] <= agg_ended[e]
        /\ Totals!Between(Totals!Over(OfChannel(r.ch), r.before), r.total,
                          Totals!Over(OfChannel(r.ch), agg_begun))
        /\ r.pc \in {"rows", "done"} /\ r.ch = "io" =>
               Totals!Between(Totals!Sum(r.before), r.latency,
                              Totals!Sum(agg_begun))
        /\ Len(r.shown) <= Totals!Rows(r.ch)
        /\ \A i \in 1 .. Len(r.shown) :
               Totals!Between(Totals!Over(Counts(r.ch, i), r.before),
                              r.shown[i], Totals!Over(Counts(r.ch, i), agg_begun))
    BY <1>1, <1>7, <1>9 DEF Reported
  <2>2. r.before \in [Totals!Event -> Nat]
    BY <1>1, <1>7, ReaderIs
  <2>3. \A e \in Totals!Event : r.before[e] <= k[e]
    <3> TAKE e \in Totals!Event
    <3>1. r.before[e] \in Nat /\ agg_ended[e] \in Nat /\ k[e] \in Nat
      BY <1>3, <1>4, <2>2
    <3>2. r.before[e] <= agg_ended[e] /\ agg_ended[e] <= k[e]
      BY <1>4, <2>1
    <3> QED
      BY <3>1, <3>2
  <2>4. ASSUME NEW S \in SUBSET Totals!Event, NEW lo, NEW v \in Nat,
               Totals!Between(lo, v, Totals!Over(S, agg_begun))
        PROVE  Totals!Between(lo, v, Totals!Over(S, b))
    <3>1. PICK m, n \in Nat :
              m = Totals!Over(S, agg_begun) /\ n = Totals!Over(S, b) /\ m <= n
      BY <1>6
    <3> QED
      BY <2>4, <3>1 DEF Totals!Between
  <2>5. Totals!Between(Totals!Over(OfChannel(r.ch), r.before), r.total,
                       Totals!Over(OfChannel(r.ch), b))
    BY <1>8, <2>1, <2>4, PartsFinite
  <2>6. r.pc \in {"rows", "done"} /\ r.ch = "io" =>
            Totals!Between(Totals!Sum(r.before), r.latency, Totals!Sum(b))
    BY <1>6, <1>8, <2>1 DEF Totals!Between
  <2>7. ASSUME NEW i \in 1 .. Len(r.shown)
        PROVE  Totals!Between(Totals!Over(Counts(r.ch, i), r.before),
                              r.shown[i], Totals!Over(Counts(r.ch, i), b))
    <3>1. r.shown[i] \in Nat
      BY <1>8
    <3>2. Counts(r.ch, i) \in SUBSET Totals!Event
      BY PartsFinite
    <3> QED
      BY <2>1, <2>4, <3>1, <3>2
  <2> QED
    BY <2>1, <2>3, <2>5, <2>6, <2>7
<1>10. Reported'
  BY <1>4, <1>7, <1>9 DEF Reported
<1> QED
  BY <1>2, <1>10

(* A report changes nothing but itself.                                    *)
LEMMA CountsKept ==
    ASSUME TotalsInv, UNCHANGED <<agg_total, agg_latency, agg_counts, agg_probe>>,
           UNCHANGED <<agg_begun, agg_ended>>
    PROVE  (TotalsShape /\ ProbeShape /\ Tally)'
BY DEF TotalsInv, TotalsShape, ProbeShape, Tally

LEMMA TotalsReadTotal ==
    ASSUME TotalsInv, NEW ch \in Totals!Channel, Totals!ReadTotal(ch)
    PROVE  TotalsInv'
<1>1. TotalsShape /\ ProbeShape /\ Tally
  BY DEF TotalsInv
<1>2. (TotalsShape /\ ProbeShape /\ Tally)'
  <2>1. /\ UNCHANGED <<agg_total, agg_latency, agg_counts, agg_probe>>
        /\ UNCHANGED <<agg_begun, agg_ended>>
    BY DEF Totals!ReadTotal, Totals!totals, Totals!history
  <2> QED
    BY <2>1, CountsKept
<1>3. PICK to \in {"latency", "rows"} : to = IF ch = "io" THEN "latency" ELSE "rows"
  OBVIOUS
<1>4. agg_reader' = [pc |-> to, ch |-> ch, total |-> agg_total[ch], latency |-> 0,
                     shown |-> << >>, before |-> agg_ended]
  BY <1>3 DEF Totals!ReadTotal, Totals!NoRead
<1>5. /\ agg_begun \in [Totals!Event -> Nat] /\ agg_ended \in [Totals!Event -> Nat]
      /\ agg_total[ch] \in Nat
  BY <1>1 DEF TotalsShape
<1>6. ReaderShape'
  <2>1. << >> \in Seq(Nat) /\ 0 \in Nat /\ to \in {"off", "latency", "rows", "done"}
    OBVIOUS
  <2> QED
    BY <1>4, <1>5, <2>1 DEF ReaderShape
<1>7. PICK r : r = agg_reader'
  OBVIOUS
<1>8. /\ r.pc = to /\ r.ch = ch /\ r.total = agg_total[ch] /\ r.shown = << >>
      /\ r.before = agg_ended
  BY <1>4, <1>7
<1>9. /\ \A e \in Totals!Event : r.before[e] <= agg_ended[e]
      /\ Totals!Between(Totals!Over(OfChannel(r.ch), r.before), r.total,
                        Totals!Over(OfChannel(r.ch), agg_begun))
      /\ ~(r.pc \in {"rows", "done"} /\ r.ch = "io")
      /\ Len(r.shown) = 0 /\ 0 <= Totals!Rows(r.ch)
  <2>1. \A e \in Totals!Event : r.before[e] <= agg_ended[e]
    BY <1>5, <1>8
  <2>2. Totals!Between(Totals!Over(OfChannel(r.ch), r.before), r.total,
                       Totals!Over(OfChannel(r.ch), agg_begun))
    BY <1>1, <1>8, TallyBounds DEF Totals!Between
  <2>3. ~(r.pc \in {"rows", "done"} /\ r.ch = "io")
    BY <1>3, <1>8
  <2>4. Totals!Rows(ch) \in Nat
    BY TotalsConstants DEF Totals!Rows, Totals!Channel
  <2> QED
    BY <1>8, <2>1, <2>2, <2>3, <2>4
<1>10. agg_begun' = agg_begun /\ agg_ended' = agg_ended
  BY DEF Totals!ReadTotal, Totals!history
<1>11. Reported'
  BY <1>7, <1>9, <1>10 DEF Reported
<1> QED
  BY <1>2, <1>6, <1>11 DEF TotalsInv

LEMMA TotalsReadLatency ==
    ASSUME TotalsInv, Totals!ReadLatency
    PROVE  TotalsInv'
<1>1. TotalsShape /\ ProbeShape /\ Tally /\ ReaderShape /\ Reported
  BY DEF TotalsInv
<1>2. (TotalsShape /\ ProbeShape /\ Tally)'
  <2>1. /\ UNCHANGED <<agg_total, agg_latency, agg_counts, agg_probe>>
        /\ UNCHANGED <<agg_begun, agg_ended>>
    BY DEF Totals!ReadLatency, Totals!totals, Totals!history
  <2> QED
    BY <2>1, CountsKept
<1>3. /\ agg_reader.pc = "latency"
      /\ agg_reader' = [agg_reader EXCEPT !.pc = "rows", !.latency = agg_latency]
      /\ agg_begun' = agg_begun /\ agg_ended' = agg_ended
  BY DEF Totals!ReadLatency, Totals!history
<1>4. /\ agg_latency \in Nat
      /\ agg_begun \in [Totals!Event -> Nat] /\ agg_ended \in [Totals!Event -> Nat]
  BY <1>1 DEF TotalsShape
<1>5. ReaderShape'
  <2>1. "rows" \in {"off", "latency", "rows", "done"}
    OBVIOUS
  <2> QED
    BY <1>1, <1>3, <1>4, <2>1 DEF ReaderShape
<1>6. PICK r : r = agg_reader'
  OBVIOUS
<1>7. /\ r.pc = "rows" /\ r.ch = agg_reader.ch /\ r.total = agg_reader.total
      /\ r.shown = agg_reader.shown /\ r.before = agg_reader.before
      /\ r.latency = agg_latency
  BY <1>1, <1>3, <1>6 DEF ReaderShape
<1>8. /\ \A e \in Totals!Event : agg_reader.before[e] <= agg_ended[e]
      /\ Totals!Between(Totals!Over(OfChannel(agg_reader.ch), agg_reader.before),
                        agg_reader.total,
                        Totals!Over(OfChannel(agg_reader.ch), agg_begun))
      /\ Len(agg_reader.shown) <= Totals!Rows(agg_reader.ch)
      /\ \A i \in 1 .. Len(agg_reader.shown) :
            Totals!Between(
                Totals!Over(Counts(agg_reader.ch, i), agg_reader.before),
                agg_reader.shown[i],
                Totals!Over(Counts(agg_reader.ch, i), agg_begun))
  BY <1>1, <1>3 DEF Reported
<1>9. Totals!Between(Totals!Sum(r.before), r.latency, Totals!Sum(agg_begun))
  <2>1. agg_reader.before \in [Totals!Event -> Nat]
    BY <1>1, ReaderIs
  <2>2. PICK m, n, l \in Nat : /\ m = Totals!Sum(agg_reader.before)
                               /\ n = Totals!Sum(agg_ended) /\ l = agg_latency
                               /\ m <= n
    BY <1>4, <1>8, <2>1, SumsMore
  <2>3. n <= l /\ l <= Totals!Sum(agg_begun)
    BY <1>1, <2>2, TallyBounds
  <2> QED
    BY <1>7, <2>2, <2>3 DEF Totals!Between
<1>10. Reported'
  BY <1>3, <1>6, <1>7, <1>8, <1>9 DEF Reported
<1> QED
  BY <1>2, <1>5, <1>10 DEF TotalsInv

LEMMA TotalsReadRow ==
    ASSUME TotalsInv, Totals!ReadRow
    PROVE  TotalsInv'
<1>1. TotalsShape /\ ProbeShape /\ Tally /\ ReaderShape /\ Reported
  BY DEF TotalsInv
<1>2. (TotalsShape /\ ProbeShape /\ Tally)'
  <2>1. /\ UNCHANGED <<agg_total, agg_latency, agg_counts, agg_probe>>
        /\ UNCHANGED <<agg_begun, agg_ended>>
    BY DEF Totals!ReadRow, Totals!totals, Totals!history
  <2> QED
    BY <2>1, CountsKept
<1>3. PICK c, s, n, v :
          /\ c = agg_reader.ch /\ s = agg_reader.shown /\ n = Len(s)
          /\ v = agg_counts[c][n + 1]
  OBVIOUS
<1>4. /\ agg_reader.pc = "rows" /\ n < Totals!Rows(c)
      /\ agg_reader' = [agg_reader EXCEPT !.shown = Append(s, v)]
      /\ agg_begun' = agg_begun /\ agg_ended' = agg_ended
  BY <1>3 DEF Totals!ReadRow, Totals!history
<1>5. /\ c \in Totals!Channel /\ s \in Seq(Nat) /\ n \in Nat
      /\ agg_reader.before \in [Totals!Event -> Nat]
  BY <1>1, <1>3, ReaderIs
<1>6. Totals!Rows(c) \in Nat
  BY <1>5, TotalsConstants DEF Totals!Rows, Totals!Channel
<1>7. n + 1 \in 1 .. Totals!Rows(c)
  BY <1>4, <1>5, <1>6
<1>8. v \in Nat /\ v = Totals!Over(Counts(c, n + 1), agg_ended)
  BY <1>1, <1>3, <1>5, <1>7, TallyBounds DEF TotalsShape
<1>9. PICK t \in Seq(Nat) :
          /\ t = Append(s, v) /\ Len(t) = n + 1 /\ t[n + 1] = v
          /\ \A i \in 1 .. n : t[i] = s[i]
  <2>1. /\ Append(s, v) \in Seq(Nat) /\ Len(Append(s, v)) = n + 1
        /\ Append(s, v)[n + 1] = v
        /\ \A i \in 1 .. n : Append(s, v)[i] = s[i]
    BY <1>3, <1>5, <1>8
  <2> QED
    BY <2>1
<1>10. ReaderShape'
  BY <1>1, <1>4, <1>9 DEF ReaderShape
<1>11. PICK r : r = agg_reader'
  OBVIOUS
<1>12. /\ r.pc = "rows" /\ r.ch = c /\ r.total = agg_reader.total
       /\ r.shown = t /\ r.before = agg_reader.before
       /\ r.latency = agg_reader.latency
  BY <1>1, <1>3, <1>4, <1>9, <1>11 DEF ReaderShape
<1>13. /\ \A e \in Totals!Event : agg_reader.before[e] <= agg_ended[e]
       /\ Totals!Between(Totals!Over(OfChannel(c), agg_reader.before),
                         agg_reader.total, Totals!Over(OfChannel(c), agg_begun))
       /\ c = "io" => Totals!Between(Totals!Sum(agg_reader.before),
                                     agg_reader.latency, Totals!Sum(agg_begun))
       /\ \A i \in 1 .. n :
             Totals!Between(Totals!Over(Counts(c, i), agg_reader.before), s[i],
                            Totals!Over(Counts(c, i), agg_begun))
  BY <1>1, <1>3, <1>4 DEF Reported
<1>14. Totals!Between(Totals!Over(Counts(c, n + 1), agg_reader.before), v,
                      Totals!Over(Counts(c, n + 1), agg_begun))
  <2>1. Counts(c, n + 1) \in SUBSET Totals!Event
    BY PartsFinite
  <2>2. /\ agg_begun \in [Totals!Event -> Nat] /\ agg_ended \in [Totals!Event -> Nat]
        /\ \A e \in Totals!Event : agg_ended[e] <= agg_begun[e]
    BY <1>1, TallyBounds DEF TotalsShape
  <2>3. Totals!Over(Counts(c, n + 1), agg_reader.before)
            <= Totals!Over(Counts(c, n + 1), agg_ended)
    BY <1>5, <1>13, <2>1, <2>2, SumsMore
  <2>4. Totals!Over(Counts(c, n + 1), agg_ended)
            <= Totals!Over(Counts(c, n + 1), agg_begun)
    BY <2>1, <2>2, SumsMore
  <2> QED
    BY <1>8, <2>3, <2>4 DEF Totals!Between
<1>15. \A i \in 1 .. n + 1 :
           Totals!Between(Totals!Over(Counts(c, i), agg_reader.before), t[i],
                          Totals!Over(Counts(c, i), agg_begun))
  <2> TAKE i \in 1 .. n + 1
  <2>1. i \in 1 .. n \/ i = n + 1
    BY <1>5
  <2> QED
    BY <1>9, <1>13, <1>14, <2>1
<1>16. Len(r.shown) <= Totals!Rows(r.ch) /\ Len(r.shown) = n + 1
  BY <1>5, <1>6, <1>7, <1>9, <1>12
<1>17. Reported'
  BY <1>4, <1>11, <1>12, <1>13, <1>15, <1>16 DEF Reported
<1> QED
  BY <1>2, <1>10, <1>17 DEF TotalsInv

LEMMA TotalsReadEnd ==
    ASSUME TotalsInv, Totals!ReadEnd
    PROVE  TotalsInv'
<1>1. TotalsShape /\ ProbeShape /\ Tally /\ ReaderShape /\ Reported
  BY DEF TotalsInv
<1>2. (TotalsShape /\ ProbeShape /\ Tally)'
  <2>1. /\ UNCHANGED <<agg_total, agg_latency, agg_counts, agg_probe>>
        /\ UNCHANGED <<agg_begun, agg_ended>>
    BY DEF Totals!ReadEnd, Totals!totals, Totals!history
  <2> QED
    BY <2>1, CountsKept
<1>3. /\ agg_reader.pc = "rows"
      /\ agg_reader' = [agg_reader EXCEPT !.pc = "done"]
      /\ agg_begun' = agg_begun /\ agg_ended' = agg_ended
  BY DEF Totals!ReadEnd, Totals!history
<1>4. ReaderShape'
  <2>1. "done" \in {"off", "latency", "rows", "done"}
    OBVIOUS
  <2> QED
    BY <1>1, <1>3, <2>1 DEF ReaderShape
<1>5. PICK r : r = agg_reader'
  OBVIOUS
<1>6. /\ r.pc = "done" /\ r.ch = agg_reader.ch /\ r.total = agg_reader.total
      /\ r.shown = agg_reader.shown /\ r.before = agg_reader.before
      /\ r.latency = agg_reader.latency
  BY <1>1, <1>3, <1>5 DEF ReaderShape
<1>7. Reported'
  BY <1>1, <1>3, <1>5, <1>6 DEF Reported
<1> QED
  BY <1>2, <1>4, <1>7 DEF TotalsInv

LEMMA NoReadShape ==
    Totals!NoRead \in [pc : {"off", "latency", "rows", "done"},
                       ch : Totals!Channel, total : Nat, latency : Nat,
                       shown : Seq(Nat), before : [Totals!Event -> Nat]]
<1>1. /\ << >> \in Seq(Nat) /\ "sched" \in Totals!Channel
      /\ [e \in Totals!Event |-> 0] \in [Totals!Event -> Nat]
      /\ "off" \in {"off", "latency", "rows", "done"}
  BY DEF Totals!Channel
<1> QED
  BY <1>1 DEF Totals!NoRead

LEMMA TotalsReadReturn ==
    ASSUME TotalsInv, Totals!ReadReturn
    PROVE  TotalsInv'
<1>1. /\ UNCHANGED <<agg_total, agg_latency, agg_counts, agg_probe>>
      /\ UNCHANGED <<agg_begun, agg_ended>> /\ agg_reader' = Totals!NoRead
  BY DEF Totals!ReadReturn, Totals!totals, Totals!history
<1>2. (TotalsShape /\ ProbeShape /\ Tally)'
  BY <1>1, CountsKept
<1>3. ReaderShape'
  BY <1>1, NoReadShape DEF ReaderShape
<1>4. agg_reader'.pc = "off"
  BY <1>1 DEF Totals!NoRead
<1>5. Reported'
  BY <1>4 DEF Reported
<1> QED
  BY <1>2, <1>3, <1>5 DEF TotalsInv

(* Steps that leave the report alone.                                      *)
LEMMA TotalsKept ==
    ASSUME TotalsInv, UNCHANGED <<agg_total, agg_latency, agg_counts, agg_probe>>,
           UNCHANGED <<agg_begun, agg_ended, agg_reader>>
    PROVE  TotalsInv'
<1>1. (TotalsShape /\ ProbeShape /\ Tally)'
  BY CountsKept
<1>2. (ReaderShape /\ Reported)'
  BY DEF TotalsInv, ReaderShape, Reported
<1> QED
  BY <1>1, <1>2 DEF TotalsInv

LEMMA TotalsProbes ==
    ASSUME TotalsInv, NEW x \in Contexts,
           \/ Totals!CountTotal(x) \/ Totals!CountLatency(x) \/ Totals!CountRow(x)
           \/ \E e \in Totals!Event : Totals!Fire(x, e)
    PROVE  TotalsInv'
<1>1. /\ agg_begun \in [Totals!Event -> Nat] /\ agg_ended \in [Totals!Event -> Nat]
  BY DEF TotalsInv, TotalsShape
<1>2. ASSUME NEW e \in Totals!Event, Totals!Fire(x, e) PROVE TotalsInv'
  <2>1. (TotalsShape /\ ProbeShape /\ Tally)'
    BY <1>2, TotalsFire
  <2>2. /\ agg_reader' = agg_reader /\ agg_ended' = agg_ended
        /\ agg_begun' = [agg_begun EXCEPT ![e] = @ + 1]
    BY <1>2 DEF Totals!Fire
  <2>3. \A f \in Totals!Event :
            agg_begun[f] <= agg_begun'[f] /\ agg_ended[f] <= agg_ended'[f]
    BY <1>1, <2>2
  <2>4. /\ agg_begun' \in [Totals!Event -> Nat]
        /\ agg_ended' \in [Totals!Event -> Nat]
    BY <2>1 DEF TotalsShape
  <2> QED
    BY <2>1, <2>2, <2>3, <2>4, ReportKept DEF TotalsInv
<1>3. ASSUME Totals!CountTotal(x) \/ Totals!CountLatency(x) \/ Totals!CountRow(x)
      PROVE  TotalsInv'
  <2>1. /\ (TotalsShape /\ ProbeShape /\ Tally)'
        /\ \A f \in Totals!Event : agg_ended[f] <= agg_ended'[f]
    BY <1>3, TotalsCountTotal, TotalsCountLatency, TotalsCountRow
  <2>2. agg_reader' = agg_reader /\ agg_begun' = agg_begun
    BY <1>3 DEF Totals!CountTotal, Totals!CountLatency, Totals!CountRow,
                Totals!Counted
  <2>3. \A f \in Totals!Event :
            agg_begun[f] <= agg_begun'[f] /\ agg_ended[f] <= agg_ended'[f]
    BY <1>1, <2>1, <2>2
  <2>4. /\ agg_begun' \in [Totals!Event -> Nat]
        /\ agg_ended' \in [Totals!Event -> Nat]
    BY <2>1 DEF TotalsShape
  <2> QED
    BY <2>1, <2>2, <2>3, <2>4, ReportKept DEF TotalsInv
<1> QED
  BY <1>2, <1>3

LEMMA TotalsNext == TotalsInv /\ [Totals!Next]_(Totals!vars) => TotalsInv'
<1> SUFFICES ASSUME TotalsInv, [Totals!Next]_(Totals!vars) PROVE TotalsInv'
  OBVIOUS
<1>1. ASSUME NEW x \in Contexts,
             \/ Totals!CountTotal(x) \/ Totals!CountLatency(x) \/ Totals!CountRow(x)
             \/ \E e \in Totals!Event : Totals!Fire(x, e)
      PROVE  TotalsInv'
  BY <1>1, TotalsProbes
<1>2. ASSUME NEW ch \in Totals!Channel, Totals!ReadTotal(ch) PROVE TotalsInv'
  BY <1>2, TotalsReadTotal
<1>3. CASE Totals!Reset
  BY <1>3, TotalsKept DEF Totals!Reset, Totals!history
<1>4. CASE UNCHANGED Totals!vars
  BY <1>4, TotalsKept DEF Totals!vars, Totals!totals, Totals!history
<1> QED
  BY <1>1, <1>2, <1>3, <1>4, TotalsReadLatency, TotalsReadRow, TotalsReadEnd,
     TotalsReadReturn DEF Totals!Next

LEMMA TotalsInit == Totals!Init => TotalsInv
<1> SUFFICES ASSUME Totals!Init PROVE TotalsInv
  OBVIOUS
<1>1. /\ agg_total = [ch \in Totals!Channel |-> 0] /\ agg_latency = 0
      /\ agg_counts = [ch \in Totals!Channel |-> [i \in 1 .. Totals!Rows(ch) |-> 0]]
      /\ agg_probe = [x \in Contexts |-> ProbeAt("idle", <<"sched", 0>>)]
      /\ agg_reader = Totals!NoRead
      /\ agg_begun = [e \in Totals!Event |-> 0]
      /\ agg_ended = [e \in Totals!Event |-> 0]
  BY DEF Totals!Init, Totals!Idle, ProbeAt
<1>2. TotalsShape
  BY <1>1 DEF TotalsShape
<1>3. /\ ProbeShape
      /\ \A x \in Contexts : agg_probe[x].pc = "idle"
  <2>1. <<"sched", 0>> \in Totals!Event
    BY DEF Totals!Event
  <2>2. ProbeAt("idle", <<"sched", 0>>)
            \in [pc : {"idle", "total", "latency", "row"}, event : Totals!Event]
    BY <2>1 DEF ProbeAt
  <2>3. ASSUME NEW x \in Contexts PROVE agg_probe[x].pc = "idle"
    BY <1>1, ProbeAtIs
  <2>4. agg_probe \in [Contexts -> [pc : {"idle", "total", "latency", "row"},
                                    event : Totals!Event]]
    BY <1>1, <2>2
  <2> QED
    BY <2>3, <2>4 DEF ProbeShape
<1>4. \A e \in Totals!Event : /\ Cardinality(Busy(agg_probe, e)) = 0
                              /\ Cardinality(Past(agg_probe, e)) = 0
                              /\ Cardinality(AtRow(agg_probe, e)) = 0
  <2> TAKE e \in Totals!Event
  <2>1. /\ Busy(agg_probe, e) = {} /\ Past(agg_probe, e) = {}
        /\ AtRow(agg_probe, e) = {}
    BY <1>3 DEF Busy, Past, AtRow
  <2> QED
    BY <2>1, FS_EmptySet
<1>5. \A S \in SUBSET Totals!Event :
          \A h : (\A e \in S : h[e] = 0) => Totals!Over(S, h) = 0
  BY EventsFinite, FS_Subset, SumOfNone
<1>6. BegunAndEnded(agg_begun, agg_ended, agg_probe)
  BY <1>1, <1>4 DEF BegunAndEnded
<1>7. TotalsTell(agg_total, agg_ended, agg_probe)
  <2>1. \A e \in Totals!Event : Totaled(agg_ended, agg_probe)[e] = 0
    BY <1>1, <1>4 DEF Totaled
  <2>2. ASSUME NEW ch \in Totals!Channel
        PROVE  Totals!Over(OfChannel(ch), Totaled(agg_ended, agg_probe)) = 0
    BY <1>5, <2>1, PartsFinite
  <2> QED
    BY <1>1, <2>2 DEF TotalsTell, TotalsToldBy
<1>8. LatenciesTell(agg_latency, agg_ended, agg_probe)
  <2>1. ASSUME NEW e \in Totals!Event PROVE Delays(agg_ended, agg_probe)[e] = 0
    <3>1. Latent(e) \in Nat
      BY LatentType
    <3>2. Delays(agg_ended, agg_probe)[e] = 0 * Latent(e)
      BY <1>1, <1>4 DEF Delays
    <3> QED
      BY <3>1, <3>2
  <2> QED
    BY <1>1, <1>5, <2>1, PartsFinite DEF LatenciesTell
<1>9. RowsTell(agg_counts, agg_ended)
  <2>1. ASSUME NEW ch \in Totals!Channel, NEW i \in 1 .. Totals!Rows(ch)
        PROVE  agg_counts[ch][i] = Totals!Over(Counts(ch, i), agg_ended)
    BY <1>1, <1>5, PartsFinite
  <2> QED
    BY <2>1 DEF RowsTell
<1>10. ReaderShape
  BY <1>1, NoReadShape DEF ReaderShape
<1>11. Reported
  <2>1. agg_reader.pc = "off"
    BY <1>1 DEF Totals!NoRead
  <2> QED
    BY <2>1 DEF Reported
<1> QED
  BY <1>2, <1>3, <1>6, <1>7, <1>8, <1>9, <1>10, <1>11 DEF TotalsInv, Tally

LEMMA TotalsInvBounded == TotalsInv => TotalsBounded
<1> SUFFICES ASSUME TotalsInv, agg_reader.pc = "done"
             PROVE  /\ Totals!Between(
                           Totals!Over(OfChannel(agg_reader.ch), agg_reader.before),
                           agg_reader.total,
                           Totals!Over(OfChannel(agg_reader.ch), agg_begun))
                    /\ agg_reader.ch = "io" =>
                           Totals!Between(Totals!Sum(agg_reader.before),
                               agg_reader.latency, Totals!Sum(agg_begun))
                    /\ \A i \in DOMAIN agg_reader.shown :
                           Totals!Between(
                               Totals!Over(Totals!InRow(i), agg_reader.before),
                               agg_reader.shown[i],
                               Totals!Over(Totals!InRow(i), agg_begun))
  BY DEF TotalsBounded, Totals!ReportsBounded, OfChannel
<1>1. Reported /\ agg_reader.shown \in Seq(Nat)
  BY ReaderIs DEF TotalsInv
<1>2. \A i : Totals!InRow(i) = Counts(agg_reader.ch, i)
  BY DEF Totals!InRow, Counts, Latent
<1>3. DOMAIN agg_reader.shown = 1 .. Len(agg_reader.shown)
  BY <1>1
<1> QED
  BY <1>1, <1>2, <1>3 DEF Reported

(* Every number of a report of totals lies between the events counted when *)
(* the report began and those begun when it ended (the atomic counters of  *)
(* hackbot_trace.c, read one by one while the probes add to them).         *)
THEOREM TotalsCorrect == Totals!Spec => []TotalsBounded
BY TotalsInit, TotalsNext, TotalsInvBounded, PTL DEF Totals!Spec

------------------------------------------------------------------------------
(***************************************************************************)
(* The four side by side.                                                  *)
(***************************************************************************)
LEMMA SensingInits == SensingInit => Init /\ Rings!Init /\ Tokens!Init /\ Totals!Init
BY DEF SensingInit

LEMMA SensingSteps ==
    [SensingNext]_all =>
        /\ [Next]_vars
        /\ [Rings!Next]_(Rings!vars)
        /\ [Tokens!Next]_(Tokens!vars)
        /\ [Totals!Next]_(Totals!vars)
<1> SUFFICES ASSUME [SensingNext]_all
             PROVE  /\ [Next]_vars
                    /\ [Rings!Next]_(Rings!vars)
                    /\ [Tokens!Next]_(Tokens!vars)
                    /\ [Totals!Next]_(Totals!vars)
  OBVIOUS
<1>1. UNCHANGED ofRings => UNCHANGED Rings!vars
  BY DEF ofRings, Rings!vars, Rings!rings, Rings!reading
<1>2. UNCHANGED ofTokens => UNCHANGED Tokens!vars
  BY DEF ofTokens, Tokens!vars, Tokens!times, Tokens!state, Tokens!history
<1>3. UNCHANGED ofTotals => UNCHANGED Totals!vars
  BY DEF ofTotals, Totals!vars, Totals!totals, Totals!history
<1> QED
  BY <1>1, <1>2, <1>3 DEF SensingNext, all

(* The composed specification implements that of each component, and has   *)
(* the properties proved of them.                                          *)
THEOREM SensingImplements ==
    SensingSpec => Spec /\ Rings!Spec /\ Tokens!Spec /\ Totals!Spec
BY SensingInits, SensingSteps, PTL
   DEF SensingSpec, Spec, Rings!Spec, Tokens!Spec, Totals!Spec

(* What the run of the four checks, for every value of the constants: no   *)
(* report prints half a vector or one that is untrue, none that was left   *)
(* undisturbed is out of order, whole events are learnt as they were, and  *)
(* no total misses an event or counts it twice.                            *)
THEOREM SensingCorrect ==
    SensingSpec => []RowsWhole /\ []VectorsHonest
                   /\ []RingReportsInOrder /\ []WholeEventsTrue
                   /\ []TotalsBounded
BY SensingImplements, RowsCorrect, VectorsCorrect, RingReportsCorrect,
   WholeEventsCorrect, TotalsCorrect, PTL

=============================================================================
