------------------------ MODULE JsonlStorage_proofs ------------------------
(***************************************************************************)
(* Proofs about JsonlStorage, for all objects, batches and bounds, and for *)
(* appends that stop anywhere: what a commit that succeeded left is never  *)
(* lost (AckedHold), the records a marker names are in its sidecars as     *)
(* long as these have no torn line (MarkersHold), the sequence numbers are *)
(* in order (SeqsHold), and the data of two commits are never taken for    *)
(* each other (NeverMixed).  Each rests on an invariant that says what     *)
(* holds inside a commit too: AckedKept, RecordsKept, SeqsKept, NumbersInv. *)
(***************************************************************************)
EXTENDS JsonlStorage, TLAPS, FiniteSetTheorems, WellFoundedInduction

\* The shapes of the files and of the commit in progress.
Shapes ==
  /\ main \in Seq(Marker)
  /\ side \in [Object -> Seq(Record)]
  /\ synced \in [main : Nat, side : [Object -> Nat]]
  /\ synced.main <= Len(main)
  /\ \A o \in Object : synced.side[o] <= Len(side[o])
  /\ fsync \in BOOLEAN
  /\ nextSeq \in Nat
  /\ flight \in {NoFlight} \cup {f \in Flight : f.marker.form = "whole"}
  /\ acked \in Seq(Nat)
  /\ commits \in Nat
-----------------------------------------------------------------------------
(* What can become of a file.                                              *)

\* Every line of the file is in g as it was, or g is damaged there.
Keeps(file, g) ==
  /\ Len(file) <= Len(g)
  /\ \A i \in DOMAIN file : i \in DOMAIN g /\ (g[i] = file[i] \/ g[i].form = "bad")

\* g is the file with one more line, or its last line has become a bad one.
Grown(file, g, line)   == /\ g = Append(file, line)
                          /\ file = <<>> \/ file[Len(file)].form = "whole"
RunInto(file, g, line) == /\ Len(g) = Len(file) /\ file # <<>>
                          /\ \A i \in 1..(Len(file) - 1) : g[i] = file[i]
                          /\ g[Len(file)] = InForm(line, "bad")

LEMMA AppendedIs ==
  ASSUME NEW S, NEW file \in Seq(S), NEW line \in S, InForm(line, "bad") \in S
  PROVE  /\ Appended(file, line) \in Seq(S)
         /\ Grown(file, Appended(file, line), line) \/ RunInto(file, Appended(file, line), line)
<1>1. CASE file # <<>> /\ Last(file).form # "whole"
  <2>1. /\ Front(file) \in Seq(S) /\ Len(Front(file)) = Len(file) - 1 /\ Len(file) \in Nat \ {0}
        /\ \A i \in 1..(Len(file) - 1) : Front(file)[i] = file[i]
    <3>1. Len(file) \in Nat \ {0}
      BY <1>1
    <3>2. PICK n \in Nat : n = Len(file) - 1
      BY <3>1
    <3>3. Front(file) = SubSeq(file, 1, n)
      BY <3>2 DEF Front
    <3>4. /\ SubSeq(file, 1, n) \in Seq(S) /\ Len(SubSeq(file, 1, n)) = n
          /\ \A i \in 1..n : SubSeq(file, 1, n)[i] = file[i]
      BY <3>1, <3>2
    <3> QED
      BY <3>1, <3>2, <3>3, <3>4
  <2>2. Appended(file, line) = Front(file) \o <<InForm(line, "bad")>>
    BY <1>1 DEF Appended
  <2> QED
    BY <1>1, <2>1, <2>2 DEF RunInto
<1>2. CASE ~(file # <<>> /\ Last(file).form # "whole")
  <2>1. file = <<>> \/ file[Len(file)].form = "whole"
    BY <1>2 DEF Last
  <2> QED
    BY <1>2, <2>1 DEF Appended, Grown
<1> QED
  BY <1>1, <1>2

LEMMA GrowthKeeps ==
  ASSUME NEW S, NEW file \in Seq(S), NEW g \in Seq(S), NEW line,
         InForm(line, "bad").form = "bad",
         Grown(file, g, line) \/ RunInto(file, g, line)
  PROVE  Keeps(file, g)
<1>1. CASE Grown(file, g, line)
  BY <1>1 DEF Grown, Keeps
<1>2. CASE RunInto(file, g, line)
  BY <1>2 DEF RunInto, Keeps
<1> QED
  BY <1>1, <1>2

\* What an attempt leaves: the file, or the file with the line in some form.
LEMMA AttemptsAre ==
  ASSUME NEW S, NEW file \in Seq(S), NEW line \in S, InForm(line, "whole") = line,
         \A f \in Form : /\ InForm(line, f) \in S
                         /\ InForm(InForm(line, f), "bad") \in S,
         NEW g \in Attempts(file, line)
  PROVE  /\ g \in Seq(S)
         /\ \/ g = file
            \/ \E f \in Form : \/ Grown(file, g, InForm(line, f))
                               \/ RunInto(file, g, InForm(line, f))
<1>1. CASE g = file
  BY <1>1
<1>2. ASSUME NEW f \in Form, g = Appended(file, InForm(line, f))
      PROVE  g \in Seq(S) /\ (Grown(file, g, InForm(line, f)) \/ RunInto(file, g, InForm(line, f)))
  BY <1>2, AppendedIs
<1>3. "whole" \in Form /\ "bare" \in Form /\ "bad" \in Form
  BY DEF Form
<1>4. CASE g = Appended(file, line)
  BY <1>2, <1>3, <1>4
<1>5. CASE \E f \in {"bare", "bad"} : g = Appended(file, InForm(line, f))
  BY <1>2, <1>3, <1>5
<1> QED
  BY <1>1, <1>4, <1>5 DEF Attempts

LEMMA RemainsIs ==
  ASSUME NEW S, NEW file \in Seq(S), NEW n \in Nat, n <= Len(file),
         \A line \in S : InForm(line, "bad") \in S /\ InForm(line, "bad").form = "bad",
         NEW g \in Remains(file, n)
  PROVE  /\ g \in Seq(S)
         /\ n <= Len(g) /\ Len(g) <= Len(file)
         /\ \A i \in 1..n : g[i] = file[i]
         /\ \A i \in 1..(Len(g) - 1) : g[i] = file[i]
         /\ \A i \in DOMAIN g : g[i] = file[i] \/ g[i].form = "bad"
<1>1. CASE \E k \in n..Len(file) : g = SubSeq(file, 1, k)
  BY <1>1
<1>2. CASE \E k \in n..(Len(file) - 1) :
             g = Append(SubSeq(file, 1, k), InForm(file[k + 1], "bad"))
  <2>1. PICK k \in n..(Len(file) - 1) :
             g = Append(SubSeq(file, 1, k), InForm(file[k + 1], "bad"))
    BY <1>2
  <2> DEFINE h == SubSeq(file, 1, k)
             l == InForm(file[k + 1], "bad")
  <2>2. h \in Seq(S) /\ Len(h) = k /\ k \in Nat /\ \A i \in 1..k : h[i] = file[i]
    BY <2>1
  <2>3. file[k + 1] \in S /\ l \in S /\ l.form = "bad"
    BY <2>1
  <2>4. g = Append(h, l)
    BY <2>1
  <2> HIDE DEF h, l
  <2> QED
    BY <2>1, <2>2, <2>3, <2>4
<1> QED
  BY <1>1, <1>2 DEF Remains
-----------------------------------------------------------------------------
(* The shapes.                                                             *)

LEMMA OrdinalIsNatural ==
  ASSUME NEW batch \in Batch, NEW o
  PROVE  Ordinal(batch, o) \in Nat
<1> DEFINE at == CHOOSE i \in DOMAIN batch : batch[i].object = o
           before == {j \in DOMAIN batch : j < at /\ ~batch[j].inline}
<1>1. batch \in Seq(Write) /\ DOMAIN batch = 1..Len(batch) /\ Len(batch) \in Nat
  BY BatchesAreWrites
<1>2. IsFiniteSet(1..Len(batch))
  BY <1>1, FS_Interval
<1>3. IsFiniteSet(before)
  BY <1>1, <1>2, FS_Subset
<1>4. Cardinality(before) \in Nat
  BY <1>3, FS_CardinalityType
<1> QED
  BY <1>4 DEF Ordinal

LEMMA RecordIsRecord ==
  ASSUME NEW marker \in Marker, NEW o
  PROVE  RecordOf(marker, o) \in Record
<1>1. Ordinal(marker.batch, o) \in Nat
  BY OrdinalIsNatural DEF Marker
<1> QED
  BY <1>1 DEF RecordOf, Record, Marker, Form

LEMMA SidecarsAreObjects ==
  ASSUME NEW batch \in Batch
  PROVE  Sidecars(batch) \subseteq Object
<1>1. \A i \in DOMAIN batch : batch[i].object \in Object
  <2>1. batch \in Seq(Write)
    BY BatchesAreWrites
  <2>2. \A i \in DOMAIN batch : batch[i] \in Write
    BY <2>1
  <2> QED
    BY <2>2 DEF Write
<1> QED
  BY <1>1 DEF Sidecars

LEMMA MarkerInForm ==
  ASSUME NEW line \in Marker, NEW f \in Form
  PROVE  /\ InForm(line, f) \in Marker
         /\ InForm(line, f).form = f /\ InForm(line, f).seq = line.seq
         /\ InForm(line, f).commit = line.commit /\ InForm(line, f).batch = line.batch
         /\ f = line.form => InForm(line, f) = line
BY DEF Marker, Form, InForm

LEMMA RecordInForm ==
  ASSUME NEW line \in Record, NEW f \in Form
  PROVE  /\ InForm(line, f) \in Record
         /\ InForm(line, f).form = f /\ InForm(line, f).seq = line.seq
         /\ InForm(line, f).commit = line.commit /\ InForm(line, f).ordinal = line.ordinal
         /\ f = line.form => InForm(line, f) = line
BY DEF Record, Form, InForm

LEMMA MarkerAppended ==
  ASSUME NEW file \in Seq(Marker), NEW marker \in Marker, NEW g, g = Appended(file, marker)
  PROVE  /\ g \in Seq(Marker) /\ Keeps(file, g)
         /\ Grown(file, g, marker) \/ RunInto(file, g, marker)
<1>1. InForm(marker, "bad") \in Marker /\ InForm(marker, "bad").form = "bad"
  BY MarkerInForm DEF Form
<1>2. g \in Seq(Marker) /\ (Grown(file, g, marker) \/ RunInto(file, g, marker))
  BY <1>1, AppendedIs
<1> QED
  BY <1>1, <1>2, GrowthKeeps

LEMMA RecordAppended ==
  ASSUME NEW file \in Seq(Record), NEW line \in Record, NEW g, g = Appended(file, line)
  PROVE  /\ g \in Seq(Record) /\ Keeps(file, g)
         /\ Grown(file, g, line) \/ RunInto(file, g, line)
<1>1. InForm(line, "bad") \in Record /\ InForm(line, "bad").form = "bad"
  BY RecordInForm DEF Form
<1>2. g \in Seq(Record) /\ (Grown(file, g, line) \/ RunInto(file, g, line))
  BY <1>1, AppendedIs
<1> QED
  BY <1>1, <1>2, GrowthKeeps

LEMMA MarkerAttempts ==
  ASSUME NEW file \in Seq(Marker), NEW marker \in Marker, marker.form = "whole",
         NEW g \in Attempts(file, marker)
  PROVE  /\ g \in Seq(Marker) /\ Keeps(file, g)
         /\ g = file \/ \E f \in Form : \/ Grown(file, g, InForm(marker, f))
                                        \/ RunInto(file, g, InForm(marker, f))
<1>1. \A f \in Form : InForm(marker, f) \in Marker /\ InForm(InForm(marker, f), "bad") \in Marker
  BY MarkerInForm DEF Form
<1>2. InForm(marker, "whole") = marker
  BY MarkerInForm DEF Form
<1>3. /\ g \in Seq(Marker)
      /\ g = file \/ \E f \in Form : \/ Grown(file, g, InForm(marker, f))
                                     \/ RunInto(file, g, InForm(marker, f))
  BY <1>1, <1>2, AttemptsAre
<1>4. CASE g = file
  BY <1>4, <1>3 DEF Keeps
<1>5. ASSUME NEW f \in Form,
             Grown(file, g, InForm(marker, f)) \/ RunInto(file, g, InForm(marker, f))
      PROVE  Keeps(file, g)
  <2>1. InForm(InForm(marker, f), "bad").form = "bad"
    BY <1>1, MarkerInForm DEF Form
  <2> QED
    BY <1>3, <1>5, <2>1, GrowthKeeps
<1> QED
  BY <1>3, <1>4, <1>5

LEMMA RecordAttempts ==
  ASSUME NEW file \in Seq(Record), NEW marker \in Marker, NEW o,
         NEW g \in Attempts(file, RecordOf(marker, o))
  PROVE  /\ g \in Seq(Record) /\ Keeps(file, g)
         /\ g = file \/ \E f \in Form : \/ Grown(file, g, InForm(RecordOf(marker, o), f))
                                        \/ RunInto(file, g, InForm(RecordOf(marker, o), f))
<1> DEFINE line == RecordOf(marker, o)
<1>0. line \in Record /\ line.form = "whole"
  BY RecordIsRecord DEF RecordOf
<1> HIDE DEF line
<1>1. \A f \in Form : InForm(line, f) \in Record /\ InForm(InForm(line, f), "bad") \in Record
  BY <1>0, RecordInForm DEF Form
<1>2. InForm(line, "whole") = line
  BY <1>0, RecordInForm DEF Form
<1>3. /\ g \in Seq(Record)
      /\ g = file \/ \E f \in Form : \/ Grown(file, g, InForm(line, f))
                                     \/ RunInto(file, g, InForm(line, f))
  BY <1>0, <1>1, <1>2, AttemptsAre DEF line
<1>4. CASE g = file
  BY <1>4, <1>3 DEF Keeps
<1>5. ASSUME NEW f \in Form,
             Grown(file, g, InForm(line, f)) \/ RunInto(file, g, InForm(line, f))
      PROVE  Keeps(file, g)
  <2>1. InForm(InForm(line, f), "bad").form = "bad"
    BY <1>1, RecordInForm DEF Form
  <2> QED
    BY <1>3, <1>5, <2>1, GrowthKeeps
<1> QED
  BY <1>3, <1>4, <1>5 DEF line

\* What a loss of power leaves of a file: the lines on the disk as they were,
\* and of the others some, the last of them perhaps damaged.
Left(file, n, g) ==
  /\ n <= Len(g) /\ Len(g) <= Len(file)
  /\ \A i \in 1..n : g[i] = file[i]
  /\ \A i \in 1..(Len(g) - 1) : g[i] = file[i]
  /\ \A i \in DOMAIN g : g[i] = file[i] \/ g[i].form = "bad"

LEMMA MarkerRemains ==
  ASSUME Shapes, NEW g \in Remains(main, synced.main)
  PROVE  g \in Seq(Marker) /\ Left(main, synced.main, g)
<1>1. main \in Seq(Marker) /\ synced.main \in Nat /\ synced.main <= Len(main)
  BY DEF Shapes
<1> QED
  BY <1>1, MarkerInForm, RemainsIs DEF Form, Left

LEMMA SideRemains ==
  ASSUME Shapes, PowerLost
  PROVE  /\ side' \in [Object -> Seq(Record)]
         /\ \A o \in Object : Left(side[o], synced.side[o], side'[o])
<1>1. PICK left \in [Object -> UNION {Remains(side[o], synced.side[o]) : o \in Object}] :
        (\A o \in Object : left[o] \in Remains(side[o], synced.side[o])) /\ side' = left
  BY DEF PowerLost
<1>2. ASSUME NEW o \in Object
      PROVE  left[o] \in Seq(Record) /\ Left(side[o], synced.side[o], left[o])
  <2>1. /\ side[o] \in Seq(Record) /\ synced.side[o] \in Nat /\ synced.side[o] <= Len(side[o])
        /\ left[o] \in Remains(side[o], synced.side[o])
    BY <1>1 DEF Shapes
  <2> QED
    BY <2>1, RecordInForm, RemainsIs DEF Form, Left
<1> QED
  BY <1>1, <1>2
-----------------------------------------------------------------------------
\* The files and the commit in progress keep their shapes.
THEOREM ShapesHold == Spec => []Shapes
<1>1. Init => Shapes
  BY DEF Init, Shapes, NoFlight
<1>2. ASSUME Shapes, [Next]_vars
      PROVE  Shapes'
  <2> USE <1>2
  <2>1. ASSUME NEW b \in Batch, Begin(b)
        PROVE  Shapes'
    <3>1. commits + 1 \in Nat /\ nextSeq + 1 \in Nat
      BY DEF Shapes
    <3>2. flight' \in Flight
      BY <2>1, <3>1, SidecarsAreObjects DEF Shapes, Begin, Flight, Marker, Form
    <3> QED
      BY <2>1, <3>1, <3>2 DEF Shapes, Begin, files
  <2>2. ASSUME NEW o \in Object, AppendSidecar(o)
        PROVE  Shapes'
    <3> DEFINE r == RecordOf(flight.marker, o)
               g == Appended(side[o], r)
    <3>1. flight \in Flight /\ flight.marker \in Marker
      BY <2>2 DEF AppendSidecar, Shapes, NoFlight, Flight
    <3>2. r \in Record
      BY <3>1, RecordIsRecord
    <3>3. side[o] \in Seq(Record)
      BY DEF Shapes
    <3>4. side' = [side EXCEPT ![o] = g] /\ synced' = SidecarFlushed(o) /\ flight' = AfterSidecar(o)
      BY <2>2 DEF AppendSidecar
    <3>5. g \in Seq(Record) /\ Len(side[o]) <= Len(g) /\ Len(g) \in Nat
      <4>1. g \in Seq(Record) /\ Keeps(side[o], g)
        BY <3>2, <3>3, RecordAppended
      <4> QED
        BY <4>1 DEF Keeps
    <3>6. flight' \in Flight /\ flight'.marker = flight.marker
      BY <3>1, <3>4 DEF AfterSidecar, Flight
    <3>7. \/ synced' = synced
          \/ synced' = [synced EXCEPT !.side[o] = Len(g)]
      BY <3>4 DEF SidecarFlushed
    <3> HIDE DEF g, r
    <3>8. /\ synced' \in [main : Nat, side : [Object -> Nat]]
          /\ synced'.main = synced.main
          /\ \A q \in Object : synced'.side[q] = synced.side[q] \/ (q = o /\ synced'.side[q] = Len(g))
      <4>1. PICK n \in Nat : n = Len(g)
        BY <3>5
      <4>2. synced \in [main : Nat, side : [Object -> Nat]]
        BY DEF Shapes
      <4>3. synced.side \in [Object -> Nat]
        BY <4>2
      <4>4. CASE synced' = [synced EXCEPT !.side[o] = n]
        BY <4>2, <4>3, <4>4, <4>1
      <4>5. CASE synced' = synced
        BY <4>2, <4>5
      <4> QED
        BY <3>7, <4>1, <4>4, <4>5
    <3>9. /\ side' \in [Object -> Seq(Record)]
          /\ \A q \in Object : Len(side[q]) <= Len(side'[q]) /\ (q = o => side'[q] = g)
      BY <3>3, <3>4, <3>5 DEF Shapes
    <3>10. \A q \in Object : synced'.side[q] <= Len(side'[q])
      <4>1. ASSUME NEW q \in Object
            PROVE  synced'.side[q] <= Len(side'[q])
        <5>1. /\ synced.side[q] <= Len(side[q]) /\ synced.side[q] \in Nat
              /\ Len(side[q]) <= Len(side'[q]) /\ (q = o => side'[q] = g)
              /\ synced'.side[q] = synced.side[q] \/ (q = o /\ synced'.side[q] = Len(g))
          BY <3>8, <3>9 DEF Shapes
        <5>2. Len(side[q]) \in Nat /\ Len(side'[q]) \in Nat
          BY <3>9 DEF Shapes
        <5> QED
          BY <3>5, <5>1, <5>2
      <4> QED
        BY <4>1
    <3>11. flight.marker.form = "whole"
      BY <3>1 DEF Shapes, NoFlight, Flight
    <3> QED
      BY <2>2, <3>6, <3>8, <3>9, <3>10, <3>11 DEF Shapes, AppendSidecar, counters
  <2>3. CASE AppendMarker
    <3>1. flight \in Flight /\ flight.marker \in Marker
      BY <2>3 DEF AppendMarker, Shapes, NoFlight, Flight
    <3> DEFINE g == Appended(main, flight.marker)
    <3>2. g \in Seq(Marker) /\ Len(main) <= Len(g) /\ Len(g) \in Nat
      <4>1. g \in Seq(Marker) /\ Keeps(main, g)
        BY <3>1, MarkerAppended DEF Shapes
      <4> QED
        BY <4>1 DEF Keeps
    <3>3. flight' \in {f \in Flight : f.marker.form = "whole"}
      <4>1. flight.marker.form = "whole" /\ flight' = [flight EXCEPT !.stage = "memory"]
        BY <2>3 DEF AppendMarker, Shapes, NoFlight
      <4> QED
        BY <3>1, <4>1 DEF Flight
    <3>4. main' = g /\ (synced' = synced \/ synced' = [synced EXCEPT !.main = Len(g)])
      BY <2>3 DEF AppendMarker, MarkerFlushed
    <3> HIDE DEF g
    <3>5. synced' \in [main : Nat, side : [Object -> Nat]] /\ synced'.side = synced.side
      BY <3>2, <3>4 DEF Shapes
    <3>6. synced'.main <= Len(main')
      BY <3>2, <3>4 DEF Shapes
    <3> QED
      BY <2>3, <3>2, <3>3, <3>4, <3>5, <3>6 DEF Shapes, AppendMarker, counters
  <2>4. CASE Succeed
    <3>1. acked' \in Seq(Nat)
      <4>1. /\ acked' = [i \in 1..Len(main) |-> main[i].commit] /\ Len(main) \in Nat
            /\ \A i \in 1..Len(main) : main[i].commit \in Nat
        <5>1. main \in Seq(Marker)
          BY DEF Shapes
        <5>2. Len(main) \in Nat /\ DOMAIN main = 1..Len(main) /\ \A i \in 1..Len(main) : main[i] \in Marker
          BY <5>1
        <5> QED
          BY <2>4, <5>2 DEF Succeed, Marker
      <4> QED
        BY <4>1
    <3> QED
      BY <2>4, <3>1 DEF Shapes, Succeed, files, counters
  <2>5. CASE CommitFails
    <3>1. flight \in Flight /\ flight.marker \in Marker
      BY <2>5 DEF CommitFails, Shapes, NoFlight, Flight
    <3>0. flight.marker.form = "whole" /\ main \in Seq(Marker)
      BY <3>1 DEF Shapes, NoFlight, Flight
    <3>2. ASSUME NEW o \in flight.todo, NEW f \in Attempts(side[o], RecordOf(flight.marker, o)),
                 side' = [side EXCEPT ![o] = f], UNCHANGED main
          PROVE  Shapes'
      <4>1. o \in Object /\ side[o] \in Seq(Record)
        BY <3>1 DEF Flight, Shapes
      <4>2. f \in Seq(Record) /\ Len(side[o]) <= Len(f)
        BY <4>1, <3>1, RecordAttempts DEF Shapes, Keeps
      <4> QED
        BY <2>5, <3>2, <4>1, <4>2 DEF CommitFails, Shapes, counters
    <3>3. ASSUME main' \in Attempts(main, flight.marker), UNCHANGED side, flight.stage = "marker"
          PROVE  Shapes'
      <4>1. main' \in Seq(Marker) /\ Len(main) <= Len(main')
        BY <3>0, <3>1, <3>3, MarkerAttempts DEF Keeps
      <4> QED
        BY <2>5, <3>3, <4>1 DEF CommitFails, Shapes, counters
    <3> QED
      BY <2>5, <3>2, <3>3 DEF CommitFails
  <2>6. CASE Close
    BY <2>6 DEF Close, Down, Shapes, files, counters
  <2>7. CASE Killed
    BY <2>7 DEF Killed, Down, Shapes, files
  <2>8. CASE PowerLost
    <3>1. main' \in Seq(Marker)
      BY <2>8, MarkerRemains DEF PowerLost, Shapes
    <3>2. side' \in [Object -> Seq(Record)]
      BY <2>8, SideRemains DEF PowerLost, Shapes
    <3>3. synced' = [main |-> Len(main'), side |-> [o \in Object |-> Len(side'[o])]]
      BY <2>8 DEF PowerLost
    <3> QED
      BY <2>8, <3>1, <3>2, <3>3 DEF PowerLost, Down, Shapes
  <2>9. CASE Open
    <3>1. SeqAfterOpen \in Nat
      <4>1. CASE main = <<>>
        BY <4>1 DEF SeqAfterOpen
      <4>2. CASE main # <<>>
        <5>1. Len(main) \in 1..Len(main) /\ main \in Seq(Marker)
          BY <4>2 DEF Shapes
        <5>2. main[Len(main)] \in Marker
          BY <5>1
        <5> QED
          BY <4>2, <5>2 DEF SeqAfterOpen, Last, Marker
      <4> QED
        BY <4>1, <4>2
    <3> QED
      BY <2>9, <3>1 DEF Open, Shapes, files, counters
  <2>10. CASE UNCHANGED vars
    BY <2>10 DEF vars, Shapes
  <2> QED
    BY <2>1, <2>2, <2>3, <2>4, <2>5, <2>6, <2>7, <2>8, <2>9, <2>10 DEF Next
<1> QED
  BY <1>1, <1>2, PTL DEF Spec
-----------------------------------------------------------------------------
(* What succeeded stays.                                                   *)

AckedKept ==
  /\ Len(acked) <= Len(main)
  /\ \A i \in DOMAIN acked : main[i].form = "bad" \/ main[i].commit = acked[i]
  /\ fsync => Len(acked) <= synced.main
  /\ fsync /\ flight.stage = "memory" => synced.main = Len(main)

\* The acknowledged commits stay where they are when the file only grows, and
\* when what is lost of it was not yet on the disk.
LEMMA KeepsAcked ==
  ASSUME Shapes, Shapes', AckedKept, acked' = acked, Keeps(main, main')
  PROVE  /\ Len(acked') <= Len(main')
         /\ \A i \in DOMAIN acked' : main'[i].form = "bad" \/ main'[i].commit = acked'[i]
<1>1. main \in Seq(Marker) /\ main' \in Seq(Marker) /\ acked \in Seq(Nat)
  BY DEF Shapes
<1>2. \A i \in DOMAIN acked : i \in DOMAIN main /\ (main'[i] = main[i] \/ main'[i].form = "bad")
  BY <1>1 DEF AckedKept, Keeps
<1>3. \A i \in DOMAIN acked : main'[i].form = "bad" \/ main'[i].commit = acked'[i]
  BY <1>2 DEF AckedKept
<1>4. Len(acked') <= Len(main')
  BY <1>1 DEF AckedKept, Keeps
<1> QED
  BY <1>3, <1>4

\* A commit that succeeded is never lost (AckedSurvive).
THEOREM AckedHold == Spec => []AckedSurvive
<1>1. Init => AckedKept
  BY DEF Init, AckedKept, NoFlight
<1>2. ASSUME Shapes, Shapes', AckedKept, [Next]_vars
      PROVE  AckedKept'
  <2> USE <1>2
  <2>0. /\ main \in Seq(Marker) /\ main' \in Seq(Marker) /\ acked \in Seq(Nat)
        /\ Len(main) \in Nat /\ Len(main') \in Nat /\ synced.main \in Nat /\ synced'.main \in Nat
        /\ Len(acked) \in Nat
    BY DEF Shapes
  <2>1. ASSUME UNCHANGED <<main, synced, fsync, acked>>,
               flight'.stage = "memory" => flight.stage = "memory"
        PROVE  AckedKept'
    BY <2>1 DEF AckedKept
  <2>2. ASSUME NEW b \in Batch, Begin(b)
        PROVE  AckedKept'
    <3>1. flight'.stage # "memory"
      BY <2>2 DEF Begin
    <3> QED
      BY <2>1, <2>2, <3>1 DEF Begin, files
  <2>3. ASSUME NEW o \in Object, AppendSidecar(o)
        PROVE  AckedKept'
    <3>1. flight \in Flight
      BY <2>3 DEF AppendSidecar, Shapes, NoFlight
    <3>2. flight'.stage # "memory"
      BY <2>3, <3>1 DEF AppendSidecar, AfterSidecar, Flight
    <3>3. synced'.main = synced.main
      BY <2>3 DEF AppendSidecar, SidecarFlushed, Shapes
    <3> QED
      BY <2>3, <3>2, <3>3 DEF AppendSidecar, AckedKept
  <2>4. CASE AppendMarker
    <3>1. flight.marker \in Marker
      BY <2>4 DEF AppendMarker, Shapes, NoFlight, Flight
    <3>2. Keeps(main, main')
      BY <2>0, <2>4, <3>1, MarkerAppended DEF AppendMarker
    <3>3. acked' = acked /\ fsync' = fsync
      BY <2>4 DEF AppendMarker
    <3>4. fsync => synced'.main = Len(main')
      BY <2>4 DEF AppendMarker, MarkerFlushed, Shapes
    <3>5. /\ Len(acked') <= Len(main')
          /\ \A i \in DOMAIN acked' : main'[i].form = "bad" \/ main'[i].commit = acked'[i]
      BY <3>2, <3>3, KeepsAcked
    <3> QED
      BY <3>3, <3>4, <3>5 DEF AckedKept
  <2>5. CASE Succeed
    <3>1. UNCHANGED <<main, synced, fsync>> /\ flight.stage = "memory" /\ flight'.stage # "memory"
      BY <2>5 DEF Succeed, files, NoFlight
    <3>2. acked' = [i \in 1..Len(main) |-> main[i].commit]
      BY <2>0, <2>5 DEF Succeed
    <3>3. Len(acked') = Len(main) /\ \A i \in DOMAIN acked' : acked'[i] = main[i].commit
      BY <2>0, <3>2
    <3> QED
      BY <2>0, <3>1, <3>3 DEF AckedKept
  <2>6. CASE CommitFails
    <3>1. UNCHANGED <<synced, fsync, acked>> /\ flight'.stage # "memory"
      BY <2>6 DEF CommitFails, NoFlight
    <3>2. CASE main' = main
      BY <2>1, <3>1, <3>2
    <3>3. CASE flight.stage = "marker" /\ main' \in Attempts(main, flight.marker)
      <4>1. flight.marker \in Marker /\ flight.marker.form = "whole"
        BY <3>3 DEF Shapes, NoFlight, Flight
      <4>2. Keeps(main, main')
        BY <2>0, <3>3, <4>1, MarkerAttempts
      <4> QED
        BY <3>1, <4>2, KeepsAcked DEF AckedKept
    <3> QED
      BY <2>6, <3>2, <3>3 DEF CommitFails
  <2>7. CASE Close \/ Killed
    BY <2>1, <2>7 DEF Close, Killed, Down, files, NoFlight
  <2>8. CASE PowerLost
    <3>1. fsync /\ acked' = acked /\ fsync' = fsync /\ flight'.stage # "memory"
      BY <2>8 DEF PowerLost, Down, NoFlight
    <3>2. Left(main, synced.main, main') /\ synced'.main = Len(main')
      BY <2>8, MarkerRemains DEF PowerLost
    <3>3. \A i \in DOMAIN acked : main'[i] = main[i]
      BY <2>0, <3>1, <3>2 DEF Left, AckedKept
    <3>4. Len(acked) <= Len(main')
      BY <2>0, <3>1, <3>2 DEF Left, AckedKept
    <3> QED
      BY <3>1, <3>2, <3>3, <3>4 DEF AckedKept
  <2>9. CASE Open
    BY <2>1, <2>9 DEF Open, files
  <2>10. CASE UNCHANGED vars
    BY <2>1, <2>10 DEF vars
  <2> QED
    BY <2>2, <2>3, <2>4, <2>5, <2>6, <2>7, <2>8, <2>9, <2>10 DEF Next
<1>3. Shapes /\ AckedKept => AckedSurvive
  <2>1. ASSUME Shapes, AckedKept, Intact
        PROVE  /\ Len(acked) <= Len(main)
               /\ \A i \in DOMAIN acked : main[i].commit = acked[i]
    <3>1. \A i \in DOMAIN acked : i \in DOMAIN main
      BY <2>1 DEF Shapes, AckedKept
    <3> QED
      BY <2>1, <3>1 DEF AckedKept, Intact
  <2> QED
    BY <2>1 DEF AckedSurvive
<1> QED
  BY <1>1, <1>2, <1>3, ShapesHold, PTL DEF Spec
-----------------------------------------------------------------------------
(* The sequence numbers.                                                   *)

SeqsKept ==
  /\ \A i \in 1..(Len(main) - 1) : main[i].form # "bad"
  /\ \A i \in DOMAIN main : main[i].form = "bad" \/ main[i].seq = i
  /\ ~up => flight = NoFlight /\ ~poisoned
  /\ poisoned => flight = NoFlight
  /\ up /\ ~poisoned /\ Parses(main) =>
       IF flight.stage \in {"sidecars", "marker"}
       THEN flight.marker.seq = Len(main) + 1 /\ nextSeq = Len(main) + 2
       ELSE nextSeq = Len(main) + 1

\* A line with the next sequence number, in any form, leaves the numbers in order.
LEMMA SeqsGrow ==
  ASSUME NEW file \in Seq(Marker), NEW g \in Seq(Marker), NEW line \in Marker,
         \A i \in 1..(Len(file) - 1) : file[i].form # "bad",
         \A i \in DOMAIN file : file[i].form = "bad" \/ file[i].seq = i,
         Parses(file) => line.seq = Len(file) + 1,
         Grown(file, g, line) \/ RunInto(file, g, line)
  PROVE  /\ \A i \in 1..(Len(g) - 1) : g[i].form # "bad"
         /\ \A i \in DOMAIN g : g[i].form = "bad" \/ g[i].seq = i
         /\ Parses(g) => Parses(file) /\ Len(g) = Len(file) + 1
<1>1. CASE Grown(file, g, line)
  <2>1. Parses(file)
    BY <1>1 DEF Grown, Parses
  <2>2. g = Append(file, line) /\ Len(g) = Len(file) + 1 /\ Len(file) \in Nat
    BY <1>1 DEF Grown
  <2>3. g[Len(file) + 1] = line /\ \A i \in 1..Len(file) : g[i] = file[i]
    BY <2>2
  <2>4. \A i \in DOMAIN g : i \in DOMAIN file \/ i = Len(file) + 1
    BY <2>2
  <2> QED
    BY <2>1, <2>2, <2>3, <2>4 DEF Parses
<1>2. CASE RunInto(file, g, line)
  <2>1. InForm(line, "bad").form = "bad"
    BY MarkerInForm DEF Form
  <2>2. Len(g) \in DOMAIN g /\ g[Len(g)].form = "bad" /\ Len(g) = Len(file) /\ Len(file) \in Nat
        /\ \A i \in 1..(Len(file) - 1) : g[i] = file[i]
    BY <1>2, <2>1 DEF RunInto
  <2>3. \A i \in DOMAIN g : i = Len(g) \/ (i \in 1..(Len(file) - 1) /\ i \in DOMAIN file)
    BY <2>2
  <2> QED
    BY <2>2, <2>3 DEF Parses
<1> QED
  BY <1>1, <1>2

\* The sequence number of a commit is the one its marker has in the file
\* (SeqsAgree).
THEOREM SeqsHold == Spec => []SeqsAgree
<1>1. Init => SeqsKept
  BY DEF Init, SeqsKept, NoFlight
<1>2. ASSUME Shapes, Shapes', SeqsKept, [Next]_vars
      PROVE  SeqsKept'
  <2> USE <1>2
  <2>0. /\ main \in Seq(Marker) /\ main' \in Seq(Marker)
        /\ Len(main) \in Nat /\ Len(main') \in Nat /\ nextSeq \in Nat
    BY DEF Shapes
  <2>1. ASSUME NEW b \in Batch, Begin(b)
        PROVE  SeqsKept'
    <3>1. /\ main' = main /\ up /\ up' /\ ~poisoned /\ ~poisoned' /\ flight = NoFlight
          /\ nextSeq' = nextSeq + 1 /\ flight'.stage \in {"sidecars", "marker"}
          /\ flight'.marker.seq = nextSeq
      BY <2>1 DEF Begin, files
    <3>2. Parses(main) => nextSeq = Len(main) + 1
      BY <3>1 DEF SeqsKept, NoFlight
    <3> QED
      BY <2>0, <3>1, <3>2 DEF SeqsKept, Parses
  <2>2. ASSUME NEW o \in Object, AppendSidecar(o)
        PROVE  SeqsKept'
    <3>1. flight \in Flight /\ flight.stage = "sidecars"
      BY <2>2 DEF AppendSidecar, Shapes, NoFlight
    <3>2. flight'.stage \in {"sidecars", "marker"} /\ flight'.marker = flight.marker
      BY <2>2, <3>1 DEF AppendSidecar, AfterSidecar, Flight
    <3> QED
      BY <2>2, <3>1, <3>2 DEF SeqsKept, Parses, AppendSidecar
  <2>3. CASE AppendMarker
    <3>1. /\ flight.stage = "marker" /\ up /\ ~poisoned /\ up' /\ ~poisoned'
          /\ nextSeq' = nextSeq /\ main' = Appended(main, flight.marker)
      BY <2>3 DEF AppendMarker
    <3>2. flight \in Flight /\ flight.marker \in Marker
      BY <3>1 DEF Shapes, NoFlight, Flight
    <3>3. flight'.stage = "memory"
      BY <2>3, <3>2 DEF AppendMarker, Flight
    <3>4. Parses(main) => flight.marker.seq = Len(main) + 1 /\ nextSeq = Len(main) + 2
      BY <3>1 DEF SeqsKept
    <3>5. Grown(main, main', flight.marker) \/ RunInto(main, main', flight.marker)
      BY <2>0, <3>1, <3>2, MarkerAppended
    <3>6. /\ \A i \in 1..(Len(main') - 1) : main'[i].form # "bad"
          /\ \A i \in DOMAIN main' : main'[i].form = "bad" \/ main'[i].seq = i
          /\ Parses(main') => Parses(main) /\ Len(main') = Len(main) + 1
      BY <2>0, <3>2, <3>4, <3>5, SeqsGrow DEF SeqsKept
    <3>7. Parses(main') => nextSeq' = Len(main') + 1
      BY <2>0, <3>1, <3>4, <3>6
    <3> QED
      BY <3>1, <3>3, <3>6, <3>7 DEF SeqsKept, Parses
  <2>4. CASE Succeed
    <3>1. /\ main' = main /\ up /\ up' /\ poisoned' = poisoned /\ nextSeq' = nextSeq
          /\ flight.stage = "memory" /\ flight' = NoFlight
      BY <2>4 DEF Succeed, files
    <3> QED
      BY <3>1 DEF SeqsKept, Parses, NoFlight
  <2>5. CASE CommitFails
    <3>1. /\ poisoned' /\ flight' = NoFlight /\ up /\ up' /\ ~poisoned
      BY <2>5 DEF CommitFails
    <3>2. CASE main' = main
      BY <3>1, <3>2 DEF SeqsKept
    <3>3. CASE flight.stage = "marker" /\ main' \in Attempts(main, flight.marker) /\ main' # main
      <4>1. flight.marker \in Marker /\ flight.marker.form = "whole"
        BY <3>3 DEF Shapes, NoFlight, Flight
      <4>2. PICK f \in Form : \/ Grown(main, main', InForm(flight.marker, f))
                              \/ RunInto(main, main', InForm(flight.marker, f))
        BY <2>0, <3>3, <4>1, MarkerAttempts
      <4>3. InForm(flight.marker, f) \in Marker /\ InForm(flight.marker, f).seq = flight.marker.seq
        BY <4>1, MarkerInForm
      <4>4. Parses(main) => flight.marker.seq = Len(main) + 1
        BY <3>1, <3>3 DEF SeqsKept
      <4>5. /\ \A i \in 1..(Len(main') - 1) : main'[i].form # "bad"
            /\ \A i \in DOMAIN main' : main'[i].form = "bad" \/ main'[i].seq = i
        BY <2>0, <4>2, <4>3, <4>4, SeqsGrow DEF SeqsKept
      <4> QED
        BY <3>1, <4>5 DEF SeqsKept
    <3> QED
      BY <2>5, <3>2, <3>3 DEF CommitFails
  <2>6. CASE Close \/ Killed
    BY <2>6 DEF Close, Killed, Down, files, SeqsKept
  <2>7. CASE PowerLost
    <3>1. ~up' /\ flight' = NoFlight /\ ~poisoned' /\ Left(main, synced.main, main')
      BY <2>7, MarkerRemains DEF PowerLost, Down
    <3>2. \A i \in 1..(Len(main') - 1) : i \in 1..(Len(main) - 1) /\ main'[i] = main[i]
      BY <2>0, <3>1 DEF Left
    <3>3. \A i \in DOMAIN main' : i \in DOMAIN main /\ (main'[i] = main[i] \/ main'[i].form = "bad")
      BY <2>0, <3>1 DEF Left
    <3> QED
      BY <3>1, <3>2, <3>3 DEF SeqsKept
  <2>8. CASE Open
    <3>1. /\ main' = main /\ Parses(main) /\ ~up /\ up' /\ flight = NoFlight /\ flight' = NoFlight
          /\ ~poisoned' /\ nextSeq' = SeqAfterOpen
      BY <2>8 DEF Open, Readable, files, SeqsKept
    <3>2. SeqAfterOpen = Len(main) + 1
      <4>1. CASE main = <<>>
        BY <4>1 DEF SeqAfterOpen
      <4>2. CASE main # <<>>
        <5>1. Len(main) \in DOMAIN main
          BY <2>0, <4>2
        <5>2. main[Len(main)].seq = Len(main)
          BY <3>1, <5>1 DEF SeqsKept, Parses
        <5> QED
          BY <4>2, <5>2 DEF SeqAfterOpen, Last
      <4> QED
        BY <4>1, <4>2
    <3> QED
      BY <3>1, <3>2 DEF SeqsKept, NoFlight
  <2>9. CASE UNCHANGED vars
    BY <2>9 DEF vars, SeqsKept, Parses
  <2> QED
    BY <2>1, <2>2, <2>3, <2>4, <2>5, <2>6, <2>7, <2>8, <2>9 DEF Next
<1>3. Shapes /\ SeqsKept => SeqsAgree
  BY DEF Shapes, SeqsKept, SeqsAgree, Intact, Parses, NoFlight
<1> QED
  BY <1>1, <1>2, <1>3, ShapesHold, PTL DEF Spec
-----------------------------------------------------------------------------
(* The records a marker refers to.                                         *)

\* The sidecar holds, flushed, the record the marker refers to, or is damaged.
Has(marker, o) ==
  \E k \in DOMAIN side[o] : /\ fsync => k <= synced.side[o]
                            /\ Matches(side[o][k], marker, o) \/ side[o][k].form = "bad"

RecordsKept ==
  /\ \A i \in DOMAIN main : main[i].form # "bad" =>
       \A o \in Sidecars(main[i].batch) : Has(main[i], o)
  /\ flight # NoFlight =>
       /\ \A o \in Sidecars(flight.marker.batch) \ flight.todo : Has(flight.marker, o)
       /\ flight.stage # "sidecars" => flight.todo = {}

\* What a marker has, it keeps: a sidecar only grows, and what is on the disk of
\* it is not lost.
LEMMA SidecarsKeep ==
  ASSUME Shapes, Shapes', NEW o \in Object, NEW marker, Has(marker, o), fsync' = fsync,
         \/ Keeps(side[o], side'[o]) /\ synced.side[o] <= synced'.side[o]
         \/ /\ fsync /\ Left(side[o], synced.side[o], side'[o])
            /\ synced'.side[o] = Len(side'[o])
  PROVE  Has(marker, o)'
<1>1. /\ side[o] \in Seq(Record) /\ side'[o] \in Seq(Record)
      /\ synced.side[o] \in Nat /\ synced'.side[o] \in Nat
  BY DEF Shapes
<1>2. PICK k \in DOMAIN side[o] :
        /\ fsync => k <= synced.side[o]
        /\ Matches(side[o][k], marker, o) \/ side[o][k].form = "bad"
  BY DEF Has
<1>3. k \in Nat /\ k >= 1
  BY <1>1
<1>4. CASE Keeps(side[o], side'[o]) /\ synced.side[o] <= synced'.side[o]
  <2>1. k \in DOMAIN side'[o] /\ (side'[o][k] = side[o][k] \/ side'[o][k].form = "bad")
    BY <1>4 DEF Keeps
  <2>2. fsync' => k <= synced'.side[o]
    BY <1>1, <1>2, <1>3, <1>4
  <2>3. Matches(side'[o][k], marker, o) \/ side'[o][k].form = "bad"
    BY <1>2, <2>1
  <2> QED
    BY <2>1, <2>2, <2>3 DEF Has, Matches
<1>5. CASE /\ fsync /\ Left(side[o], synced.side[o], side'[o])
           /\ synced'.side[o] = Len(side'[o])
  <2>1. k \in 1..synced.side[o] /\ synced.side[o] <= Len(side'[o])
    BY <1>1, <1>2, <1>3, <1>5 DEF Left
  <2>2. k \in DOMAIN side'[o] /\ side'[o][k] = side[o][k]
    BY <1>1, <1>5, <2>1 DEF Left
  <2>3. k <= synced'.side[o]
    BY <1>1, <1>5, <2>2
  <2>4. Matches(side'[o][k], marker, o) \/ side'[o][k].form = "bad"
    BY <1>2, <2>2
  <2> QED
    BY <2>2, <2>3, <2>4 DEF Has, Matches
<1> QED
  BY <1>4, <1>5

\* No step takes from a marker what it has.
LEMMA HasHolds ==
  ASSUME Shapes, Shapes', Next, NEW o \in Object, NEW marker, Has(marker, o)
  PROVE  Has(marker, o)'
<1>0. side[o] \in Seq(Record) /\ Len(side[o]) \in Nat /\ synced.side[o] \in Nat
  BY DEF Shapes
<1>1. CASE side'[o] = side[o] /\ synced'.side[o] = synced.side[o] /\ fsync' = fsync
  <2>1. Keeps(side[o], side'[o])
    BY <1>0, <1>1 DEF Keeps
  <2> QED
    BY <1>0, <1>1, <2>1, SidecarsKeep
<1>2. CASE UNCHANGED <<side, synced, fsync>>
  BY <1>1, <1>2
<1>3. ASSUME NEW b \in Batch, Begin(b)
      PROVE  Has(marker, o)'
  BY <1>2, <1>3 DEF Begin, files
<1>4. ASSUME NEW q \in Object, AppendSidecar(q)
      PROVE  Has(marker, o)'
  <2>1. flight.marker \in Marker
    BY <1>4 DEF AppendSidecar, Shapes, NoFlight, Flight
  <2> DEFINE g == Appended(side[q], RecordOf(flight.marker, q))
  <2>2. g \in Seq(Record) /\ Keeps(side[q], g) /\ Len(g) \in Nat
    BY SMTT(30), <2>1, RecordIsRecord, RecordAppended DEF Shapes
  <2>3. side' = [side EXCEPT ![q] = g] /\ fsync' = fsync
    BY <1>4 DEF AppendSidecar
  <2>4. synced' = synced \/ synced' = [synced EXCEPT !.side[q] = Len(g)]
    BY <1>4 DEF AppendSidecar, SidecarFlushed
  <2> HIDE DEF g
  <2>5. synced \in [main : Nat, side : [Object -> Nat]] /\ synced.side \in [Object -> Nat]
    BY DEF Shapes
  <2>6. CASE q = o
    <3>1. side'[o] = g /\ Keeps(side[o], side'[o])
      BY <2>2, <2>3, <2>6 DEF Shapes
    <3>2. synced'.side[o] = synced.side[o] \/ synced'.side[o] = Len(g)
      BY <2>4, <2>5, <2>6
    <3>3. synced.side[o] <= Len(side[o]) /\ Len(side[o]) <= Len(g)
      BY <2>2, <2>6 DEF Shapes, Keeps
    <3>4. synced.side[o] <= synced'.side[o]
      BY <1>0, <2>2, <3>2, <3>3
    <3> QED
      BY <2>3, <3>1, <3>4, SidecarsKeep
  <2>7. CASE q # o
    <3>1. side'[o] = side[o]
      BY <2>3, <2>7 DEF Shapes
    <3>2. synced'.side[o] = synced.side[o]
      BY <2>4, <2>5, <2>7
    <3> QED
      BY <1>1, <2>3, <3>1, <3>2
  <2> QED
    BY <2>6, <2>7
<1>5. CASE AppendMarker
  <2>1. side' = side /\ fsync' = fsync /\ synced'.side = synced.side
    BY <1>5 DEF AppendMarker, MarkerFlushed, Shapes
  <2> QED
    BY <1>1, <2>1
<1>6. CASE Succeed \/ Close \/ Killed \/ Open
  BY <1>2, <1>6 DEF Succeed, Close, Killed, Open, files
<1>7. CASE CommitFails
  <2>1. synced' = synced /\ fsync' = fsync
    BY <1>7 DEF CommitFails
  <2>2. CASE side' = side
    BY <1>2, <2>1, <2>2
  <2>3. ASSUME flight.stage = "sidecars", NEW q \in flight.todo,
               NEW f \in Attempts(side[q], RecordOf(flight.marker, q)),
               side' = [side EXCEPT ![q] = f]
        PROVE  Has(marker, o)'
    <3>1. flight.marker \in Marker /\ q \in Object
      BY <2>3 DEF Shapes, NoFlight, Flight
    <3>2. side[q] \in Seq(Record) /\ Keeps(side[q], f)
      BY <3>1, RecordAttempts DEF Shapes
    <3>3. CASE q = o
      <4>1. Keeps(side[o], side'[o])
        BY <2>3, <3>2, <3>3 DEF Shapes
      <4> QED
        BY <1>0, <2>1, <4>1, SidecarsKeep
    <3>4. CASE q # o
      BY <1>1, <2>1, <2>3, <3>4 DEF Shapes
    <3> QED
      BY <3>3, <3>4
  <2> QED
    BY <1>7, <2>2, <2>3 DEF CommitFails
<1>8. CASE PowerLost
  <2>1. fsync /\ fsync' = fsync /\ synced'.side[o] = Len(side'[o])
    BY <1>8 DEF PowerLost
  <2>2. Left(side[o], synced.side[o], side'[o])
    BY <1>8, SideRemains
  <2> QED
    BY <2>1, <2>2, SidecarsKeep
<1> QED
  BY <1>3, <1>4, <1>5, <1>6, <1>7, <1>8 DEF Next

\* Has depends on the sequence number, the commit's batch and the object alone.
LEMMA HasIsOfTheCommit ==
  ASSUME NEW m, NEW l, NEW o, m.seq = l.seq, m.batch = l.batch, Has(m, o)
  PROVE  Has(l, o)
BY DEF Has, Matches

\* A marker that is in the file after a step was there before it, or is the one
\* of the commit in progress, which has all of its records.
LEMMA MarkersAre ==
  ASSUME Shapes, Shapes', RecordsKept, Next,
         NEW i \in DOMAIN main', main'[i].form # "bad"
  PROVE  \A o \in Sidecars(main'[i].batch) : Has(main'[i], o)
<1>0. main \in Seq(Marker) /\ main' \in Seq(Marker) /\ Len(main) \in Nat /\ Len(main') \in Nat
  BY DEF Shapes
<1>1. CASE i \in DOMAIN main /\ main'[i] = main[i]
  BY <1>1 DEF RecordsKept
<1>2. ASSUME flight.stage = "marker", NEW f \in Form,
             \/ Grown(main, main', InForm(flight.marker, f))
             \/ RunInto(main, main', InForm(flight.marker, f))
      PROVE  \A o \in Sidecars(main'[i].batch) : Has(main'[i], o)
  <2>1. flight # NoFlight /\ flight.marker \in Marker
    BY <1>2 DEF Shapes, NoFlight, Flight
  <2> DEFINE line == InForm(flight.marker, f)
  <2>2. line \in Marker /\ line.seq = flight.marker.seq /\ line.batch = flight.marker.batch
        /\ InForm(line, "bad").form = "bad"
    BY <1>2, <2>1, MarkerInForm DEF Form
  <2>3. \A o \in Sidecars(line.batch) : Has(line, o)
    <3>1. \A o \in Sidecars(flight.marker.batch) : Has(flight.marker, o)
      BY <1>2, <2>1 DEF RecordsKept
    <3> HIDE DEF line
    <3> QED
      BY <2>2, <3>1, HasIsOfTheCommit
  <2> HIDE DEF line
  <2>4. CASE Grown(main, main', line)
    <3>1. main'[i] = line \/ (i \in DOMAIN main /\ main'[i] = main[i])
      BY <1>0, <2>2, <2>4 DEF Grown
    <3> QED
      BY <1>1, <2>3, <3>1
  <2>5. CASE RunInto(main, main', line)
    <3>1. i \in DOMAIN main /\ (main'[i] = main[i] \/ main'[i].form = "bad")
      BY <1>0, <2>2, <2>5 DEF RunInto
    <3> QED
      BY <1>1, <3>1
  <2> QED
    BY <1>2, <2>4, <2>5 DEF line
<1>3. CASE main' = main
  BY <1>1, <1>3
<1>4. CASE AppendMarker
  <2>1. /\ flight.stage = "marker" /\ flight.marker \in Marker /\ flight.marker.form = "whole"
        /\ main' = Appended(main, flight.marker)
    BY <1>4 DEF AppendMarker, Shapes, NoFlight, Flight
  <2>2. Grown(main, main', flight.marker) \/ RunInto(main, main', flight.marker)
    BY <1>0, <2>1, MarkerAppended
  <2>3. InForm(flight.marker, "whole") = flight.marker /\ "whole" \in Form
    BY <2>1, MarkerInForm DEF Form
  <2> QED
    BY <1>2, <2>1, <2>2, <2>3
<1>5. CASE CommitFails
  <2>1. CASE main' # main
    <3>1. flight.stage = "marker" /\ main' \in Attempts(main, flight.marker)
      BY <1>5, <2>1 DEF CommitFails
    <3>2. flight.marker \in Marker /\ flight.marker.form = "whole"
      BY <3>1 DEF Shapes, NoFlight, Flight
    <3>3. \E f \in Form : \/ Grown(main, main', InForm(flight.marker, f))
                          \/ RunInto(main, main', InForm(flight.marker, f))
      BY <1>0, <2>1, <3>1, <3>2, MarkerAttempts
    <3> QED
      BY <1>2, <3>1, <3>3
  <2> QED
    BY <1>3, <2>1
<1>6. CASE PowerLost
  <2>1. Left(main, synced.main, main')
    BY <1>6, MarkerRemains DEF PowerLost
  <2>2. i \in DOMAIN main /\ main'[i] = main[i]
    BY <1>0, <2>1 DEF Left
  <2> QED
    BY <1>1, <2>2
<1> QED
  BY <1>3, <1>4, <1>5, <1>6
     DEF Next, Begin, AppendSidecar, Succeed, Close, Killed, Open, files

\* A marker that can be read has all its records in the sidecars it names, as
\* long as no line of these is torn (MarkersResolve, load_sidecar).
THEOREM MarkersHold == Spec => []MarkersResolve
<1>1. Init => RecordsKept
  BY DEF Init, RecordsKept
<1>2. ASSUME Shapes, Shapes', RecordsKept, [Next]_vars
      PROVE  RecordsKept'
  <2> USE <1>2
  <2>1. CASE UNCHANGED vars
    BY <2>1 DEF vars, RecordsKept, Has, Matches
  <2>2. CASE Next
    <3>1. \A i \in DOMAIN main' : main'[i].form # "bad" =>
            \A o \in Sidecars(main'[i].batch) : Has(main[i], o)'
      <4>1. ASSUME NEW i \in DOMAIN main', main'[i].form # "bad",
                   NEW o \in Sidecars(main'[i].batch)
            PROVE  Has(main[i], o)'
        <5>1. Has(main'[i], o)
          BY <2>2, <4>1, MarkersAre
        <5>2. main'[i] \in Marker
          BY DEF Shapes
        <5>3. o \in Object
          BY <4>1, <5>2, SidecarsAreObjects DEF Marker
        <5>4. PICK m : m = main'[i]
          OBVIOUS
        <5>5. Has(m, o)'
          BY <2>2, <5>1, <5>3, <5>4, HasHolds
        <5> QED
          BY <5>4, <5>5 DEF Has, Matches
      <4> QED
        BY <4>1
    <3>2. ASSUME flight' # NoFlight, flight # NoFlight, flight'.marker = flight.marker,
                 NEW o \in Sidecars(flight'.marker.batch), Has(flight.marker, o)
          PROVE  Has(flight.marker, o)'
      <4>1. flight.marker \in Marker
        BY <3>2 DEF Shapes, Flight
      <4>2. o \in Object
        BY <3>2, <4>1, SidecarsAreObjects DEF Marker
      <4>3. PICK m : m = flight.marker
        OBVIOUS
      <4>4. Has(m, o)'
        BY <2>2, <3>2, <4>2, <4>3, HasHolds
      <4> QED
        BY <3>2, <4>3, <4>4 DEF Has, Matches
    <3>3. ASSUME NEW b \in Batch, Begin(b)
          PROVE  RecordsKept'
      <4>1. /\ Sidecars(flight'.marker.batch) = flight'.todo
            /\ flight'.stage # "sidecars" => flight'.todo = {}
        BY <3>3 DEF Begin
      <4> QED
        BY <3>1, <4>1 DEF RecordsKept
    <3>4. ASSUME NEW o \in Object, AppendSidecar(o)
          PROVE  RecordsKept'
      <4>1. flight \in Flight /\ flight # NoFlight /\ flight.marker \in Marker
        BY <3>4 DEF AppendSidecar, Shapes, NoFlight, Flight
      <4>2. /\ flight'.marker = flight.marker /\ flight'.todo = flight.todo \ {o}
            /\ flight' # NoFlight
            /\ flight'.stage # "sidecars" => flight'.todo = {}
        BY <3>4, <4>1 DEF AppendSidecar, AfterSidecar, Flight, NoFlight
      <4>3. Has(flight.marker, o)'
        <5> DEFINE r == RecordOf(flight.marker, o)
                   g == Appended(side[o], r)
        <5>1. r \in Record /\ Matches(r, flight.marker, o)
          BY <4>1, RecordIsRecord DEF RecordOf, Matches
        <5>2. side'[o] = g /\ side[o] \in Seq(Record)
          BY <3>4 DEF AppendSidecar, Shapes
        <5>3. fsync' = fsync /\ (fsync => synced'.side[o] = Len(g))
          BY <3>4 DEF AppendSidecar, SidecarFlushed, Shapes
        <5>4. g \in Seq(Record) /\ (Grown(side[o], g, r) \/ RunInto(side[o], g, r))
          BY <5>1, <5>2, RecordAppended
        <5>5. InForm(r, "bad").form = "bad"
          BY <5>1, RecordInForm DEF Form
        <5> HIDE DEF g, r
        <5>6. /\ Len(g) \in DOMAIN g
              /\ Matches(g[Len(g)], flight.marker, o) \/ g[Len(g)].form = "bad"
          BY <5>1, <5>2, <5>4, <5>5 DEF Grown, RunInto
        <5>7. PICK k : k = Len(g) /\ k \in Nat
          BY <5>4
        <5>8. /\ k \in DOMAIN side'[o]
              /\ fsync' => k <= synced'.side[o]
              /\ Matches(side'[o][k], flight.marker, o) \/ side'[o][k].form = "bad"
          BY <5>2, <5>3, <5>6, <5>7
        <5> QED
          BY <4>2, <5>8 DEF Has, Matches
      <4>4. ASSUME NEW q \in Sidecars(flight'.marker.batch), q \notin flight'.todo
            PROVE  Has(flight.marker, q)'
        <5>1. CASE q = o
          BY <4>2, <4>3, <5>1 DEF Has, Matches
        <5>2. CASE q # o
          <6>1. Has(flight.marker, q)
            BY <4>1, <4>2, <4>4, <5>2 DEF RecordsKept
          <6> QED
            BY <3>2, <4>1, <4>2, <4>4, <6>1
        <5> QED
          BY <5>1, <5>2
      <4> QED
        BY <3>1, <4>2, <4>4 DEF RecordsKept
    <3>5. CASE AppendMarker
      <4>1. flight \in Flight /\ flight # NoFlight /\ flight.stage = "marker"
        BY <3>5 DEF AppendMarker, Shapes, NoFlight, Flight
      <4>2. flight'.marker = flight.marker /\ flight'.todo = flight.todo /\ flight' # NoFlight
        BY <3>5, <4>1 DEF AppendMarker, Flight, NoFlight
      <4>3. flight.todo = {} /\ \A o \in Sidecars(flight.marker.batch) : Has(flight.marker, o)
        BY <4>1 DEF RecordsKept
      <4>4. \A o \in Sidecars(flight'.marker.batch) : Has(flight.marker, o)'
        BY <3>2, <4>1, <4>2, <4>3
      <4> QED
        BY <3>1, <4>2, <4>3, <4>4 DEF RecordsKept
    <3>6. CASE Succeed \/ CommitFails \/ Close \/ Killed \/ PowerLost
      <4>1. flight' = NoFlight
        BY <3>6 DEF Succeed, CommitFails, Close, Killed, PowerLost, Down
      <4> QED
        BY <3>1, <4>1 DEF RecordsKept
    <3>7. CASE Open
      <4>1. flight' = flight
        BY <3>7 DEF Open
      <4>2. flight # NoFlight => \A o \in Sidecars(flight'.marker.batch) \ flight'.todo :
                                   Has(flight.marker, o)'
        BY <3>2, <4>1 DEF RecordsKept
      <4> QED
        BY <3>1, <4>1, <4>2 DEF RecordsKept
    <3> QED
      BY <2>2, <3>3, <3>4, <3>5, <3>6, <3>7 DEF Next
  <2> QED
    BY <2>1, <2>2
<1>3. Shapes /\ RecordsKept => MarkersResolve
  <2>1. ASSUME Shapes, RecordsKept, NEW i \in DOMAIN main, main[i].form # "bad",
               NEW o \in Sidecars(main[i].batch), Parses(side[o])
        PROVE  Candidates(main[i], o) # {}
    <3>1. PICK k \in DOMAIN side[o] : Matches(side[o][k], main[i], o) \/ side[o][k].form = "bad"
      BY <2>1 DEF RecordsKept, Has
    <3>2. k \in Candidates(main[i], o)
      BY <2>1, <3>1 DEF Parses, Candidates
    <3> QED
      BY <3>2
  <2> QED
    BY <2>1 DEF MarkersResolve
<1> QED
  BY <1>1, <1>2, <1>3, ShapesHold, PTL DEF Spec
-----------------------------------------------------------------------------
(* The numbers a line carries.                                             *)

\* Two lines of the same commit.  Damage to a line leaves it the numbers of the
\* commit it was written by.
Same(l, m) == l.seq = m.seq /\ l.commit = m.commit

\* Every line of g is one of the file, or the last of them is the line given.
Numbered(file, g, line) ==
  \A i \in DOMAIN g : \/ i \in DOMAIN file /\ Same(g[i], file[i])
                      \/ i = Len(g) /\ Same(g[i], line)

LEMMA GrowthNumbered ==
  ASSUME NEW S, NEW file \in Seq(S), NEW g \in Seq(S), NEW line, NEW of,
         Same(line, of), Same(InForm(line, "bad"), of),
         Grown(file, g, line) \/ RunInto(file, g, line)
  PROVE  Numbered(file, g, of)
<1>1. CASE Grown(file, g, line)
  BY <1>1 DEF Grown, Numbered, Same
<1>2. CASE RunInto(file, g, line)
  BY <1>2 DEF RunInto, Numbered, Same
<1> QED
  BY <1>1, <1>2

LEMMA RemainsNumbered ==
  ASSUME NEW S, NEW file \in Seq(S), NEW n \in Nat, n <= Len(file),
         \A line \in S : InForm(line, "bad") \in S /\ Same(InForm(line, "bad"), line),
         NEW g \in Remains(file, n)
  PROVE  \A i \in DOMAIN g : i \in DOMAIN file /\ Same(g[i], file[i])
<1>1. CASE \E k \in n..Len(file) : g = SubSeq(file, 1, k)
  BY <1>1 DEF Same
<1>2. CASE \E k \in n..(Len(file) - 1) :
             g = Append(SubSeq(file, 1, k), InForm(file[k + 1], "bad"))
  <2>1. PICK k \in n..(Len(file) - 1) :
             g = Append(SubSeq(file, 1, k), InForm(file[k + 1], "bad"))
    BY <1>2
  <2> DEFINE h == SubSeq(file, 1, k)
             l == InForm(file[k + 1], "bad")
  <2>2. h \in Seq(S) /\ Len(h) = k /\ k \in Nat /\ \A i \in 1..k : h[i] = file[i]
    BY <2>1
  <2>3. file[k + 1] \in S /\ l \in S /\ Same(l, file[k + 1])
    BY <2>1
  <2>4. g = Append(h, l)
    BY <2>1
  <2> HIDE DEF h, l
  <2> QED
    BY <2>1, <2>2, <2>3, <2>4 DEF Same
<1> QED
  BY <1>1, <1>2 DEF Remains

\* A line of the main file after a step was there before it, or is the last one
\* and carries the numbers of the commit in progress.
LEMMA MainLines ==
  ASSUME Shapes, Shapes', [Next]_vars
  PROVE  \A i \in DOMAIN main' :
           \/ i \in DOMAIN main /\ Same(main'[i], main[i])
           \/ flight.stage = "marker" /\ i = Len(main') /\ Same(main'[i], flight.marker)
<1>0. main \in Seq(Marker) /\ main' \in Seq(Marker)
  BY DEF Shapes
<1>1. CASE main' = main
  BY <1>1 DEF Same
<1>2. ASSUME flight.stage = "marker", NEW f \in Form,
             \/ Grown(main, main', InForm(flight.marker, f))
             \/ RunInto(main, main', InForm(flight.marker, f))
      PROVE  Numbered(main, main', flight.marker)
  <2>1. flight.marker \in Marker
    BY <1>2 DEF Shapes, NoFlight, Flight
  <2>2. /\ Same(InForm(flight.marker, f), flight.marker)
        /\ Same(InForm(InForm(flight.marker, f), "bad"), flight.marker)
    BY <2>1, MarkerInForm DEF Same, Form
  <2> QED
    BY <1>0, <1>2, <2>2, GrowthNumbered
<1>3. CASE AppendMarker
  <2>1. /\ flight.stage = "marker" /\ flight.marker \in Marker /\ flight.marker.form = "whole"
        /\ main' = Appended(main, flight.marker)
    BY <1>3 DEF AppendMarker, Shapes, NoFlight, Flight
  <2>2. Grown(main, main', flight.marker) \/ RunInto(main, main', flight.marker)
    BY <1>0, <2>1, MarkerAppended
  <2>3. InForm(flight.marker, "whole") = flight.marker /\ "whole" \in Form
    BY <2>1, MarkerInForm DEF Form
  <2> QED
    BY <1>2, <2>1, <2>2, <2>3 DEF Numbered
<1>4. CASE CommitFails /\ main' # main
  <2>1. flight.stage = "marker" /\ main' \in Attempts(main, flight.marker)
    BY <1>4 DEF CommitFails
  <2>2. flight.marker \in Marker /\ flight.marker.form = "whole"
    BY <2>1 DEF Shapes, NoFlight, Flight
  <2>3. \E f \in Form : \/ Grown(main, main', InForm(flight.marker, f))
                        \/ RunInto(main, main', InForm(flight.marker, f))
    BY <1>0, <1>4, <2>1, <2>2, MarkerAttempts
  <2> QED
    BY <1>2, <2>1, <2>3 DEF Numbered
<1>5. CASE PowerLost
  <2>1. /\ main' \in Remains(main, synced.main)
        /\ synced.main \in Nat /\ synced.main <= Len(main)
    BY <1>5 DEF PowerLost, Shapes
  <2>2. \A line \in Marker : InForm(line, "bad") \in Marker /\ Same(InForm(line, "bad"), line)
    BY MarkerInForm DEF Same, Form
  <2> QED
    BY <1>0, <2>1, <2>2, RemainsNumbered
<1> QED
  BY <1>1, <1>3, <1>4, <1>5
     DEF Next, Begin, AppendSidecar, Succeed, Close, Killed, Open, files, vars

\* The same of a sidecar: what a step adds carries the numbers of the commit in
\* progress.
LEMMA SideLines ==
  ASSUME Shapes, Shapes', [Next]_vars, NEW o \in Object
  PROVE  \A k \in DOMAIN side'[o] :
           \/ k \in DOMAIN side[o] /\ Same(side'[o][k], side[o][k])
           \/ flight.stage = "sidecars" /\ Same(side'[o][k], flight.marker)
<1>0. side[o] \in Seq(Record) /\ side'[o] \in Seq(Record)
  BY DEF Shapes
<1>1. CASE side'[o] = side[o]
  BY <1>1 DEF Same
<1>2. ASSUME flight.stage = "sidecars", NEW f \in Form,
             \/ Grown(side[o], side'[o], InForm(RecordOf(flight.marker, o), f))
             \/ RunInto(side[o], side'[o], InForm(RecordOf(flight.marker, o), f))
      PROVE  Numbered(side[o], side'[o], flight.marker)
  <2>1. flight.marker \in Marker
    BY <1>2 DEF Shapes, NoFlight, Flight
  <2> DEFINE r == RecordOf(flight.marker, o)
  <2>2. r \in Record /\ Same(r, flight.marker)
    BY <2>1, RecordIsRecord DEF RecordOf, Same
  <2> HIDE DEF r
  <2>3. Same(InForm(r, f), flight.marker) /\ Same(InForm(InForm(r, f), "bad"), flight.marker)
    BY <2>2, RecordInForm DEF Same, Form
  <2>4. Grown(side[o], side'[o], InForm(r, f)) \/ RunInto(side[o], side'[o], InForm(r, f))
    BY <1>2 DEF r
  <2> QED
    BY <1>0, <2>3, <2>4, GrowthNumbered
<1>3. ASSUME NEW q \in Object, AppendSidecar(q), side'[o] # side[o]
      PROVE  Numbered(side[o], side'[o], flight.marker) /\ flight.stage = "sidecars"
  <2>1. flight.stage = "sidecars" /\ flight.marker \in Marker
    BY <1>3 DEF AppendSidecar, Shapes, NoFlight, Flight
  <2>2. q = o /\ side'[o] = Appended(side[o], RecordOf(flight.marker, o))
    BY <1>3 DEF AppendSidecar, Shapes
  <2> DEFINE r == RecordOf(flight.marker, o)
  <2>3. r \in Record /\ r.form = "whole"
    BY <2>1, RecordIsRecord DEF RecordOf
  <2>4. side'[o] = Appended(side[o], r)
    BY <2>2
  <2>5. InForm(r, "whole") = r /\ "whole" \in Form
    BY <2>3, RecordInForm DEF Form
  <2>6. Grown(side[o], side'[o], InForm(r, "whole")) \/ RunInto(side[o], side'[o], InForm(r, "whole"))
    <3> HIDE DEF r
    <3> QED
      BY <1>0, <2>3, <2>4, <2>5, RecordAppended
  <2> QED
    BY <1>2, <2>1, <2>5, <2>6
<1>4. CASE CommitFails /\ side'[o] # side[o]
  <2>1. /\ flight.stage = "sidecars" /\ flight.marker \in Marker
        /\ \E q \in flight.todo : \E f \in Attempts(side[q], RecordOf(flight.marker, q)) :
             side' = [side EXCEPT ![q] = f]
    <3>1. /\ flight.stage = "sidecars"
          /\ \E q \in flight.todo : \E f \in Attempts(side[q], RecordOf(flight.marker, q)) :
               side' = [side EXCEPT ![q] = f]
      BY <1>4 DEF CommitFails
    <3>2. flight.marker \in Marker
      <4>1. flight.stage = "sidecars"
        BY <3>1
      <4> QED
        BY <4>1 DEF Shapes, NoFlight, Flight
    <3> QED
      BY <3>1, <3>2
  <2>2. side'[o] \in Attempts(side[o], RecordOf(flight.marker, o))
    BY <1>4, <2>1 DEF Shapes
  <2>3. \E f \in Form : \/ Grown(side[o], side'[o], InForm(RecordOf(flight.marker, o), f))
                        \/ RunInto(side[o], side'[o], InForm(RecordOf(flight.marker, o), f))
    BY <1>0, <1>4, <2>1, <2>2, RecordAttempts
  <2> QED
    BY <1>2, <2>1, <2>3 DEF Numbered
<1>5. CASE PowerLost
  <2>1. side'[o] \in Remains(side[o], synced.side[o])
    BY <1>5 DEF PowerLost
  <2>2. synced.side[o] \in Nat /\ synced.side[o] <= Len(side[o])
    BY DEF Shapes
  <2>3. \A line \in Record : InForm(line, "bad") \in Record /\ Same(InForm(line, "bad"), line)
    BY RecordInForm DEF Same, Form
  <2> QED
    BY <1>0, <2>1, <2>2, <2>3, RemainsNumbered
<1>6. CASE \E q \in Object : AppendSidecar(q)
  BY <1>1, <1>3, <1>6 DEF Numbered
<1> QED
  BY <1>1, <1>4, <1>5, <1>6
     DEF Next, Begin, AppendMarker, Succeed, Close, Killed, Open, files, vars

\* There is a first candidate when there is one, and a last writer.
LEMMA FirstIs ==
  ASSUME NEW T, T \subseteq Nat, T # {}
  PROVE  (CHOOSE i \in T : \A j \in T : i <= j) \in T
<1>1. PICK i \in T : \A j \in T : ~ (<<j, i>> \in OpToRel(<, Nat))
  BY NatLessThanWellFounded, WFMin
<1>2. ASSUME NEW j \in T  PROVE i <= j
  <2>1. ~ (j < i)
    BY <1>1, <1>2 DEF OpToRel
  <2> QED
    BY <2>1
<1> QED
  BY <1>2

LEMMA LastIs ==
  ASSUME NEW n \in Nat, NEW T, T \subseteq 1..n, T # {}
  PROVE  (CHOOSE i \in T : \A j \in T : j <= i) \in T
<1> DEFINE U == {m \in Nat : \E i \in T : m = n - i}
<1>1. U \subseteq Nat /\ U # {}
  <2>1. PICK i \in T : i \in 1..n
    OBVIOUS
  <2>2. n - i \in Nat
    BY <2>1
  <2>3. n - i \in U
    BY <2>1, <2>2
  <2> QED
    BY <2>3
<1>2. PICK m \in U : \A k \in U : ~ (<<k, m>> \in OpToRel(<, Nat))
  BY <1>1, NatLessThanWellFounded, WFMin
<1>3. PICK i \in T : m = n - i
  BY <1>2
<1>4. ASSUME NEW j \in T  PROVE j <= i
  <2>1. PICK k \in Nat : k = n - j
    BY <1>4
  <2>2. ~ (k < m)
    BY <1>1, <1>2, <2>1 DEF OpToRel
  <2> QED
    BY <1>3, <2>1, <2>2
<1> QED
  BY <1>4
-----------------------------------------------------------------------------
(* Commits and their sequence numbers.                                     *)

\* The lines carry numbers of commits that were begun, and the sequence numbers
\* of the main file rise, damaged lines included.
Counted ==
  /\ \A i \in DOMAIN main : main[i].commit \in 1..commits
  /\ \A o \in Object : \A k \in DOMAIN side[o] : side[o][k].commit \in 1..commits
  /\ commits <= MaxCommits

Rising == \A i, j \in DOMAIN main : i < j => main[i].seq < main[j].seq

\* The commit in progress is one of an open storage; its numbers are newer than
\* those in the main file until its marker is there.
Pending ==
  /\ nextSeq # 0
  /\ up => \A i \in DOMAIN main : main[i].seq < nextSeq
  /\ flight # NoFlight =>
       /\ up /\ flight.marker.commit \in 1..commits
       /\ flight.marker.seq # 0 /\ flight.marker.seq < nextSeq
       /\ flight.stage # "memory" => \A i \in DOMAIN main :
            /\ main[i].seq < flight.marker.seq
            /\ main[i].commit # flight.marker.commit

\* A record of a commit whose marker is in the main file, or is on its way,
\* carries the sequence number of that marker.
OneSeq ==
  \A o \in Object : \A k \in DOMAIN side[o] :
    /\ \A i \in DOMAIN main : side[o][k].commit = main[i].commit => side[o][k].seq = main[i].seq
    /\ flight # NoFlight /\ side[o][k].commit = flight.marker.commit
         => side[o][k].seq = flight.marker.seq

NumbersInv == Counted /\ Rising /\ Pending /\ OneSeq

\* What a commit does to the one in progress.
LEMMA FlightSteps ==
  ASSUME Shapes, Shapes', Pending, [Next]_vars
  PROVE  \/ flight' = NoFlight
         \/ UNCHANGED <<flight, up, main, side, commits, nextSeq>>
         \/ \E b \in Batch : Begin(b)
         \/ /\ flight # NoFlight /\ flight' # NoFlight /\ flight'.marker = flight.marker
            /\ UNCHANGED <<up, commits, nextSeq>>
            /\ \/ flight.stage = "sidecars" /\ UNCHANGED main
               \/ flight.stage = "marker" /\ flight'.stage = "memory"
<1>1. ASSUME NEW o \in Object, AppendSidecar(o)
      PROVE  /\ flight # NoFlight /\ flight' # NoFlight /\ flight'.marker = flight.marker
             /\ UNCHANGED <<up, commits, nextSeq>>
             /\ flight.stage = "sidecars" /\ UNCHANGED main
  <2>1. flight \in Flight /\ flight # NoFlight
    BY <1>1 DEF AppendSidecar, Shapes, NoFlight, Flight
  <2> QED
    BY <1>1, <2>1 DEF AppendSidecar, AfterSidecar, Flight, NoFlight, counters
<1>2. CASE AppendMarker
  <2>1. flight \in Flight /\ flight # NoFlight
    BY <1>2 DEF AppendMarker, Shapes, NoFlight, Flight
  <2> QED
    BY <1>2, <2>1 DEF AppendMarker, Flight, NoFlight, counters
<1>3. CASE Succeed \/ CommitFails \/ Close \/ Killed \/ PowerLost
  BY <1>3 DEF Succeed, CommitFails, Close, Killed, PowerLost, Down
<1>4. CASE Open
  BY <1>4 DEF Open, Pending
<1>5. CASE UNCHANGED vars
  BY <1>5 DEF vars
<1> QED
  BY <1>1, <1>2, <1>3, <1>4, <1>5 DEF Next

LEMMA CountedStep ==
  ASSUME Shapes, Shapes', NumbersInv, [Next]_vars
  PROVE  Counted' /\ commits <= commits'
<1>0. commits \in Nat /\ commits' \in Nat /\ MaxCommits \in Nat
  BY BoundsAreNatural DEF Shapes
<1>1. commits <= commits' /\ commits' <= MaxCommits
  <2>1. CASE \E b \in Batch : Begin(b)
    BY <1>0, <2>1 DEF Begin
  <2>2. CASE commits' = commits
    BY <1>0, <2>2 DEF NumbersInv, Counted
  <2> QED
    BY <2>1, <2>2 DEF Next, AppendSidecar, AppendMarker, Succeed, CommitFails, Close, Killed,
                      PowerLost, Open, counters, vars
<1>2. flight # NoFlight => flight.marker.commit \in 1..commits
  BY DEF NumbersInv, Pending
<1>3. flight.stage \in {"sidecars", "marker"} => flight # NoFlight
  BY DEF NoFlight
<1>4. ASSUME NEW i \in DOMAIN main'
      PROVE  main'[i].commit \in 1..commits'
  <2>1. main'[i].commit \in 1..commits
    BY <1>2, <1>3, MainLines DEF Same, NumbersInv, Counted
  <2> QED
    BY <1>0, <1>1, <2>1
<1>5. ASSUME NEW o \in Object, NEW k \in DOMAIN side'[o]
      PROVE  side'[o][k].commit \in 1..commits'
  <2>1. side'[o][k].commit \in 1..commits
    BY <1>2, <1>3, SideLines DEF Same, NumbersInv, Counted
  <2> QED
    BY <1>0, <1>1, <2>1
<1> QED
  BY <1>1, <1>4, <1>5 DEF Counted

LEMMA RisingStep ==
  ASSUME Shapes, Shapes', NumbersInv, [Next]_vars
  PROVE  Rising'
<1>0. Len(main') \in Nat /\ DOMAIN main' = 1..Len(main')
  BY DEF Shapes
<1>1. ASSUME NEW i \in DOMAIN main', NEW j \in DOMAIN main', i < j
      PROVE  main'[i].seq < main'[j].seq
  <2>1. i \in DOMAIN main /\ Same(main'[i], main[i])
    <3>1. i # Len(main')
      BY <1>0, <1>1
    <3> QED
      BY <3>1, MainLines
  <2>2. CASE j \in DOMAIN main /\ Same(main'[j], main[j])
    BY <1>1, <2>1, <2>2 DEF Same, NumbersInv, Rising
  <2>3. CASE flight.stage = "marker" /\ Same(main'[j], flight.marker)
    <3>1. main[i].seq < flight.marker.seq
      BY <2>1, <2>3 DEF NumbersInv, Pending, NoFlight
    <3> QED
      BY <2>1, <2>3, <3>1 DEF Same
  <2> QED
    BY <2>2, <2>3, MainLines
<1> QED
  BY <1>1 DEF Rising

\* The number of the next commit is above those in the main file, when a process
\* goes on as when one opens the directory.
LEMMA PendingStep ==
  ASSUME Shapes, Shapes', NumbersInv, [Next]_vars
  PROVE  Pending'
<1>0. /\ commits \in Nat /\ nextSeq \in Nat /\ nextSeq' \in Nat
      /\ main \in Seq(Marker) /\ main' \in Seq(Marker)
      /\ \A i \in DOMAIN main : main[i].seq \in Nat /\ main[i].commit \in Nat
      /\ \A i \in DOMAIN main' : main'[i].seq \in Nat
  <2>1. /\ commits \in Nat /\ nextSeq \in Nat /\ nextSeq' \in Nat
        /\ main \in Seq(Marker) /\ main' \in Seq(Marker)
    BY DEF Shapes
  <2>2. \A i \in DOMAIN main : main[i] \in Marker
    BY <2>1
  <2>3. \A i \in DOMAIN main' : main'[i] \in Marker
    BY <2>1
  <2> QED
    BY <2>1, <2>2, <2>3 DEF Marker
<1>1. ASSUME NEW b \in Batch, Begin(b)
      PROVE  Pending'
  <2>1. PICK c \in Nat : c = commits + 1
    BY <1>0
  <2>2. PICK n \in Nat : n = nextSeq + 1
    BY <1>0
  <2>3. /\ up /\ up' = up /\ commits' = c /\ nextSeq' = n /\ main' = main
        /\ flight'.marker.seq = nextSeq /\ flight'.marker.commit = c
    BY <1>1, <2>1, <2>2 DEF Begin, files
  <2>4. \A i \in DOMAIN main : main[i].seq < nextSeq /\ main[i].commit # c
    BY <1>0, <2>1, <2>3 DEF NumbersInv, Pending, Counted
  <2>5. nextSeq # 0 /\ nextSeq < n /\ n # 0 /\ c \in 1..c
    BY <1>0, <2>1, <2>2 DEF NumbersInv, Pending
  <2>6. \A i \in DOMAIN main : main[i].seq < n
    BY <1>0, <2>4, <2>5
  <2> QED
    BY <2>3, <2>4, <2>5, <2>6 DEF Pending
<1>2. CASE UNCHANGED <<flight, up, main, side, commits, nextSeq>>
  BY <1>2 DEF NumbersInv, Pending
<1>3. CASE /\ flight # NoFlight /\ flight' # NoFlight /\ flight'.marker = flight.marker
           /\ UNCHANGED <<up, commits, nextSeq>>
           /\ \/ flight.stage = "sidecars" /\ UNCHANGED main
              \/ flight.stage = "marker" /\ flight'.stage = "memory"
  <2>1. /\ up /\ nextSeq # 0 /\ flight.marker.commit \in 1..commits
        /\ flight.marker.seq # 0 /\ flight.marker.seq < nextSeq
    BY <1>3 DEF NumbersInv, Pending
  <2>2. \A i \in DOMAIN main' : main'[i].seq < nextSeq
    BY <1>3, <2>1, MainLines DEF Same, NumbersInv, Pending
  <2>3. flight'.stage # "memory" => \A i \in DOMAIN main' :
            main'[i].seq < flight.marker.seq /\ main'[i].commit # flight.marker.commit
    BY <1>3 DEF NumbersInv, Pending
  <2> QED
    BY <1>3, <2>1, <2>2, <2>3 DEF Pending
<1>4. CASE flight' = NoFlight
  <2>1. CASE Open
    <3>1. main' = main /\ nextSeq' = SeqAfterOpen
      BY <2>1 DEF Open, files
    <3>2. CASE main = <<>>
      BY <1>4, <3>1, <3>2 DEF SeqAfterOpen, Pending
    <3>3. CASE main # <<>>
      <4>1. PICK n \in Nat \ {0} : n = Len(main)
        BY <1>0, <3>3
      <4>2. nextSeq' = main[n].seq + 1 /\ n \in DOMAIN main
        BY <1>0, <3>1, <3>3, <4>1 DEF SeqAfterOpen, Last
      <4>3. ASSUME NEW i \in DOMAIN main  PROVE main[i].seq <= main[n].seq
        <5>1. i = n \/ i < n
          BY <1>0, <4>1
        <5> QED
          BY <1>0, <4>2, <5>1 DEF NumbersInv, Rising
      <4>4. \A i \in DOMAIN main : main[i].seq < nextSeq'
        BY <1>0, <4>2, <4>3
      <4>5. nextSeq' # 0
        BY <1>0, <4>2
      <4> QED
        BY <1>4, <3>1, <4>4, <4>5 DEF Pending
    <3> QED
      BY <3>2, <3>3
  <2>2. CASE Close \/ Killed \/ PowerLost
    BY <1>4, <2>2 DEF Close, Killed, PowerLost, Down, Pending
  <2>3. CASE UNCHANGED <<up, nextSeq>>
    <3>1. ASSUME up, NEW i \in DOMAIN main'
          PROVE  main'[i].seq < nextSeq
      BY <3>1, MainLines DEF Same, NumbersInv, Pending, NoFlight
    <3> QED
      BY <1>4, <2>3, <3>1 DEF NumbersInv, Pending
  <2>4. CASE \E b \in Batch : Begin(b)
    BY <1>1, <2>4
  <2> QED
    BY <2>1, <2>2, <2>3, <2>4
       DEF Next, AppendSidecar, AppendMarker, Succeed, CommitFails, counters, vars
<1>5. Pending
  BY DEF NumbersInv
<1> QED
  BY <1>1, <1>2, <1>3, <1>4, <1>5, FlightSteps

LEMMA OneSeqStep ==
  ASSUME Shapes, Shapes', NumbersInv, [Next]_vars
  PROVE  OneSeq'
<1> SUFFICES ASSUME NEW o \in Object, NEW k \in DOMAIN side'[o]
             PROVE  /\ \A i \in DOMAIN main' : side'[o][k].commit = main'[i].commit
                                                  => side'[o][k].seq = main'[i].seq
                    /\ flight' # NoFlight /\ side'[o][k].commit = flight'.marker.commit
                         => side'[o][k].seq = flight'.marker.seq
  BY DEF OneSeq
<1>0. Pending
  BY DEF NumbersInv
<1>1. \/ k \in DOMAIN side[o] /\ Same(side'[o][k], side[o][k])
      \/ /\ flight.stage = "sidecars" /\ flight # NoFlight /\ Same(side'[o][k], flight.marker)
         /\ \A i \in DOMAIN main : main[i].commit # flight.marker.commit
  BY SideLines DEF NoFlight, NumbersInv, Pending
<1>2. ASSUME NEW i \in DOMAIN main', side'[o][k].commit = main'[i].commit
      PROVE  side'[o][k].seq = main'[i].seq
  <2>1. CASE i \in DOMAIN main /\ Same(main'[i], main[i])
    BY <1>1, <1>2, <2>1 DEF Same, NumbersInv, OneSeq
  <2>2. CASE flight.stage = "marker" /\ Same(main'[i], flight.marker)
    BY <1>1, <1>2, <2>2 DEF Same, NumbersInv, OneSeq, NoFlight
  <2> QED
    BY <2>1, <2>2, MainLines
<1>3. ASSUME flight' # NoFlight, side'[o][k].commit = flight'.marker.commit
      PROVE  side'[o][k].seq = flight'.marker.seq
  <2>1. ASSUME NEW b \in Batch, Begin(b)
        PROVE  side'[o][k].seq = flight'.marker.seq
    <3>1. flight'.marker.commit = commits + 1 /\ side' = side /\ commits \in Nat
      BY <2>1 DEF Begin, files, Shapes
    <3>2. side[o][k].commit \in 1..commits
      BY <3>1 DEF NumbersInv, Counted
    <3> QED
      BY <1>3, <3>1, <3>2
  <2>2. CASE flight # NoFlight /\ flight'.marker = flight.marker
    BY <1>1, <1>3, <2>2 DEF Same, NumbersInv, OneSeq
  <2> QED
    BY <1>0, <1>3, <2>1, <2>2, FlightSteps
<1> QED
  BY <1>2, <1>3

LEMMA NumbersHold == Spec => []NumbersInv
<1>1. Init => NumbersInv
  BY BoundsAreNatural DEF Init, NumbersInv, Counted, Rising, Pending, OneSeq
<1>2. Shapes /\ Shapes' /\ NumbersInv /\ [Next]_vars => NumbersInv'
  <2>1. NumbersInv' <=> Counted' /\ Rising' /\ Pending' /\ OneSeq'
    BY DEF NumbersInv
  <2> QED
    BY <2>1, CountedStep, RisingStep, PendingStep, OneSeqStep
<1> QED
  BY <1>1, <1>2, ShapesHold, PTL DEF Spec

\* The record found for a marker is one of the sidecar that matches it.
LEMMA FoundIs ==
  ASSUME Shapes, Readable, NEW i \in DOMAIN main, NEW o \in Sidecars(main[i].batch)
  PROVE  /\ o \in Object
         /\ \E k \in DOMAIN side[o] : Found(main[i], o) = side[o][k] /\ side[o][k].seq = main[i].seq
<1> DEFINE T == Candidates(main[i], o)
           k == CHOOSE a \in T : \A b \in T : a <= b
<1>1. main[i] \in Marker
  BY DEF Shapes
<1>2. o \in Object
  BY <1>1, SidecarsAreObjects DEF Marker
<1>3. T \subseteq Nat
  BY <1>2 DEF Candidates, Shapes
<1>4. T # {}
  BY DEF Readable
<1>5. k \in T
  BY <1>3, <1>4, FirstIs
<1>6. k \in DOMAIN side[o] /\ side[o][k].seq = main[i].seq
  BY <1>5 DEF Candidates, Matches
<1>7. Found(main[i], o) = side[o][k]
  BY DEF Found
<1> QED
  BY <1>2, <1>6, <1>7

\* A recovery never takes the data of one commit for that of another that is in
\* the main file too (CommitsNeverMix): a number is given again only when the
\* commit that had it left no marker.
THEOREM NeverMixed == Spec => []CommitsNeverMix
<1>1. Shapes /\ NumbersInv => CommitsNeverMix
  <2> SUFFICES ASSUME Shapes, NumbersInv, Readable, NEW i \in DOMAIN main, NEW j \in DOMAIN main,
                      NEW o \in Sidecars(main[i].batch),
                      Found(main[i], o).commit = main[j].commit
               PROVE  i = j
    BY DEF CommitsNeverMix
  <2>1. PICK k \in DOMAIN side[o] : Found(main[i], o) = side[o][k] /\ side[o][k].seq = main[i].seq
    BY FoundIs
  <2>2. o \in Object
    BY FoundIs
  <2>3. main[i].seq = main[j].seq
    BY <2>1, <2>2 DEF NumbersInv, OneSeq
  <2>4. ~ (i < j) /\ ~ (j < i)
    <3>1. main[i] \in Marker /\ main[j] \in Marker
      BY DEF Shapes
    <3>2. main[i].seq \in Nat /\ main[j].seq \in Nat
      BY <3>1 DEF Marker
    <3> QED
      BY <2>3, <3>2 DEF NumbersInv, Rising
  <2>5. i \in Nat /\ j \in Nat
    BY DEF Shapes
  <2> QED
    BY <2>4, <2>5
<1> QED
  BY <1>1, ShapesHold, NumbersHold, PTL
-----------------------------------------------------------------------------
\* A replay takes the data of commits that were begun.
LEMMA RecoveredIs ==
  ASSUME Shapes, NumbersInv, Readable
  PROVE  Recovered \in [Object -> 0..MaxCommits]
<1>1. commits \in Nat /\ MaxCommits \in Nat /\ commits <= MaxCommits /\ Len(main) \in Nat
  BY BoundsAreNatural DEF Shapes, NumbersInv, Counted
<1>2. ASSUME NEW i \in DOMAIN main, NEW o \in Object
      PROVE  Resolved(main[i], o) \in 0..MaxCommits
  <2>1. CASE o \in Sidecars(main[i].batch)
    <3>1. PICK k \in DOMAIN side[o] : Found(main[i], o) = side[o][k]
      BY <2>1, FoundIs
    <3>2. Found(main[i], o).commit \in 1..commits
      BY <3>1 DEF NumbersInv, Counted
    <3>3. Resolved(main[i], o) = Found(main[i], o).commit
      BY <2>1 DEF Resolved
    <3> QED
      BY <1>1, <3>2, <3>3
  <2>2. CASE o \notin Sidecars(main[i].batch)
    <3>1. main[i].commit \in 1..commits /\ Resolved(main[i], o) = main[i].commit
      BY <2>2 DEF Resolved, NumbersInv, Counted
    <3> QED
      BY <1>1, <3>1
  <2> QED
    BY <2>1, <2>2
<1> DEFINE writers(o) == {i \in DOMAIN main : o \in Objects(main[i].batch)}
           last(o)    == CHOOSE i \in writers(o) : \A j \in writers(o) : j <= i
           data(o)    == IF writers(o) = {} THEN 0 ELSE Resolved(main[last(o)], o)
<1>3. ASSUME NEW o \in Object
      PROVE  data(o) \in 0..MaxCommits
  <2>1. CASE writers(o) = {}
    BY <1>1, <2>1
  <2>2. CASE writers(o) # {}
    <3>1. writers(o) \subseteq 1..Len(main)
      BY DEF Shapes
    <3>2. last(o) \in writers(o)
      <4> HIDE DEF writers
      <4> QED
        BY <1>1, <2>2, <3>1, LastIs
    <3>3. last(o) \in DOMAIN main
      BY <3>2
    <3>4. Resolved(main[last(o)], o) \in 0..MaxCommits
      <4> HIDE DEF last
      <4> QED
        BY <1>2, <3>3
    <3> QED
      BY <2>2, <3>4
  <2> QED
    BY <2>1, <2>2
<1>4. Recovered = [o \in Object |-> data(o)]
  BY DEF Recovered
<1> HIDE DEF data
<1> QED
  BY <1>3, <1>4

\* The rest of the types: memory, the commits that succeeded, the switches.
TableShapes ==
  /\ up \in BOOLEAN /\ poisoned \in BOOLEAN
  /\ memory \in [Object -> 0..MaxCommits]
  /\ acked \in Seq(1..MaxCommits)
  /\ crashes \in 0..MaxCrashes

\* The files, the commit in progress and the tables keep their types (TypeOK).
THEOREM TypeCorrect == Spec => []TypeOK
<1>1. Init => TableShapes
  <2> SUFFICES ASSUME Init  PROVE TableShapes
    OBVIOUS
  <2>1. 0 \in 0..MaxCommits /\ 0 \in 0..MaxCrashes
    BY BoundsAreNatural
  <2>2. acked \in Seq(1..MaxCommits)
    BY DEF Init
  <2>3. memory \in [Object -> 0..MaxCommits]
    BY <2>1 DEF Init
  <2> QED
    BY <2>1, <2>2, <2>3 DEF Init, TableShapes
<1>2. ASSUME Shapes, NumbersInv, TableShapes, [Next]_vars
      PROVE  TableShapes'
  <2> USE <1>2
  <2>0. /\ MaxCommits \in Nat /\ MaxCrashes \in Nat /\ commits \in Nat /\ commits <= MaxCommits
        /\ 0 \in 0..MaxCommits
    BY BoundsAreNatural DEF Shapes, NumbersInv, Counted
  <2>1. CASE Succeed
    <3>1. ASSUME NEW i \in DOMAIN main  PROVE main[i].commit \in 1..MaxCommits
      <4>1. main[i].commit \in 1..commits
        BY DEF NumbersInv, Counted
      <4> QED
        BY <2>0, <4>1
    <3>2. acked' = [i \in 1..Len(main) |-> main[i].commit] /\ Len(main) \in Nat
          /\ DOMAIN main = 1..Len(main)
      BY <2>1 DEF Succeed, Shapes
    <3>3. acked' \in Seq(1..MaxCommits)
      BY <3>1, <3>2
    <3>4. flight.marker.commit \in 0..MaxCommits
      <4>1. flight.marker.commit \in 1..commits
        BY <2>1 DEF Succeed, NumbersInv, Pending, NoFlight
      <4> QED
        BY <2>0, <4>1
    <3>5. memory' \in [Object -> 0..MaxCommits]
      BY <2>1, <3>4 DEF Succeed, TableShapes
    <3> QED
      BY <2>1, <3>3, <3>5 DEF Succeed, TableShapes, counters
  <2>2. CASE Open
    BY <2>2, RecoveredIs DEF Open, TableShapes, counters
  <2>3. CASE Close \/ Killed \/ PowerLost
    <3>1. up' \in BOOLEAN /\ poisoned' \in BOOLEAN /\ memory' \in [Object -> 0..MaxCommits]
      BY <2>0, <2>3 DEF Close, Killed, PowerLost, Down
    <3>2. acked' = acked
      BY <2>3 DEF Close, Killed, PowerLost
    <3>3. crashes' \in 0..MaxCrashes
      BY <2>0, <2>3 DEF Close, Killed, PowerLost, TableShapes, counters
    <3> QED
      BY <3>1, <3>2, <3>3 DEF TableShapes
  <2>4. CASE CommitFails
    BY <2>4 DEF CommitFails, TableShapes, counters
  <2>5. CASE AppendMarker \/ (\E o \in Object : AppendSidecar(o)) \/ (\E b \in Batch : Begin(b))
    BY <2>5 DEF AppendMarker, AppendSidecar, Begin, TableShapes, counters
  <2>6. CASE UNCHANGED vars
    BY <2>6 DEF vars, TableShapes
  <2> QED
    BY <2>1, <2>2, <2>3, <2>4, <2>5, <2>6 DEF Next
<1>3. Shapes /\ NumbersInv /\ TableShapes => TypeOK
  <2> SUFFICES ASSUME Shapes, NumbersInv, TableShapes
               PROVE  TypeOK
    OBVIOUS
  <2>1. commits \in 0..MaxCommits
    BY BoundsAreNatural DEF Shapes, NumbersInv, Counted
  <2>2. nextSeq \in Nat \ {0}
    BY DEF Shapes, NumbersInv, Pending
  <2>3. flight \in {NoFlight} \cup Flight
    BY DEF Shapes
  <2> QED
    BY <2>1, <2>2, <2>3 DEF Shapes, TableShapes, TypeOK
<1> QED
  BY <1>1, <1>2, <1>3, ShapesHold, NumbersHold, PTL DEF Spec
=============================================================================
