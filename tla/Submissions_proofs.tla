-------------------------- MODULE Submissions_proofs --------------------------
(***************************************************************************)
(* Proofs about Submissions, for all settings and bounds.  A commit is a   *)
(* transaction, so the invariant is a predicate of transactions            *)
(* (Consistent) and, by the same parts, of a state (Inv).  In the middle   *)
(* of a commit less holds: a boundary leaves inputs that are placed and    *)
(* belong to no run yet (Between, Boundary); the end, the hand-over and    *)
(* the start of a run make the transaction consistent again.               *)
(***************************************************************************)
EXTENDS Submissions, TLAPS, SequenceTheorems, WellFoundedInduction

Modes    == {"write", "steer", "followUp"}
Kinds    == {"user", "assistant", "write", "summary", "handoff"}
EntrySet == [kind : Kinds, head : Nat, sub : Nat]
SubSet   == [mode : Modes, head : Nat \cup {SelfHead},
             status : {"queued", "placed", "done", "unanswered"}, entry : Nat, answer : Nat]
RunSet   == [task : Nat, inputs : Seq(Nat)]
GenSet   == [phase : {"prepare", "request", "tools", "terminal"},
             attempt : 1 .. MaxRetries + 1, compacted : Nat,
             overflow : BOOLEAN, calls : Nat, mark : BOOLEAN]
CompSet  == [phase : {"select", "summarize", "terminal"}, owner : Nat, manual : BOOLEAN,
             firstKept : Nat, placed : BOOLEAN, mark : BOOLEAN]
TX == [log : Seq(EntrySet), sub : Seq(SubSet), inbox : Seq(Nat), run : RunSet,
       gens : Seq(GenSet), comps : Seq(CompSet), listed : SUBSET Nat, head : Nat, ok : BOOLEAN]
-----------------------------------------------------------------------------
Rises(seq) == \A i, j \in DOMAIN seq : i < j => seq[i] < seq[j]
-----------------------------------------------------------------------------
(* The transcript and the records, at every point of a commit.             *)

\* Numbers are those of entries and submissions that exist.
Refs(entries, subs) ==
  /\ \A i \in DOMAIN entries : entries[i].head <= i /\ entries[i].sub <= Len(subs)
  /\ \A s \in DOMAIN subs : /\ subs[s].head <= Len(entries)
                            /\ subs[s].entry <= Len(entries) /\ subs[s].answer <= Len(entries)

\* What a record may say in each status.
Statuses(subs) ==
  \A s \in DOMAIN subs :
    /\ subs[s].status = "queued" => subs[s].entry = 0
    /\ subs[s].status = "placed" => subs[s].entry # 0 /\ subs[s].mode # "write"
    /\ subs[s].answer # 0 => subs[s].status = "done"

OneEntry(entries, subs) ==
  \A s \in DOMAIN subs : \A i \in DOMAIN entries : entries[i].sub = s <=> subs[s].entry = i

\* No entry after the first one and before the second cuts the history off.
Open(entries, from, to) == \A i \in DOMAIN entries : from < i /\ i < to => entries[i].head # i

Answered(entries, subs) ==
  \A s \in DOMAIN subs : subs[s].answer # 0 =>
    subs[s].entry < subs[s].answer /\ Open(entries, subs[s].entry, subs[s].answer)

\* Of one mode, a submission that waits is before none that is in the transcript.
InOrder(subs) ==
  \A s, r \in DOMAIN subs : s < r /\ subs[s].mode = subs[r].mode /\ subs[r].entry # 0 =>
    /\ subs[s].status # "queued"
    /\ subs[s].entry # 0 => subs[s].entry < subs[r].entry

HeadsRise(entries) ==
  \A i, j \in DOMAIN entries : i < j /\ entries[i].head # NoHead /\ entries[j].head # NoHead
    => entries[i].head <= entries[j].head

Written(entries, subs) ==
  /\ entries \in Seq(EntrySet) /\ subs \in Seq(SubSet)
  /\ Refs(entries, subs) /\ Statuses(subs) /\ OneEntry(entries, subs)
  /\ Answered(entries, subs) /\ InOrder(subs) /\ HeadsRise(entries)

\* A head that is not before those in the transcript.
Above(entries, head) == \A i \in DOMAIN entries : entries[i].head <= head
-----------------------------------------------------------------------------
(* The rest, when a commit is complete.                                    *)

Queue(subs, ids) ==
  /\ ToSet(ids) = {s \in DOMAIN subs : subs[s].status = "queued"}
  /\ Rises(ids)

Placed(subs) == {s \in DOMAIN subs : subs[s].status = "placed"}
Alive(tasks) == {t \in DOMAIN tasks : Live(tasks[t])}

WorkRefs(entries, tasks, works, shown) ==
  /\ \A t \in DOMAIN tasks : /\ tasks[t].compacted <= Len(works)
                             /\ tasks[t].calls <= Len(entries)
  /\ \A c \in DOMAIN works : /\ works[c].owner <= Len(tasks)
                              /\ works[c].firstKept <= Len(entries)
  /\ shown \subseteq DOMAIN works

\* The run is one of an existing task, with inputs, each once.
RunShape(going, tasks) ==
  /\ going # NoRun => going.task \in DOMAIN tasks /\ going.inputs # <<>>
  /\ IsInjective(going.inputs)

\* The inputs were placed before the tools were called, and no entry since then
\* begins a context with itself.
RunOpen(entries, subs, tasks) ==
  \A s \in Placed(subs) : /\ Open(entries, subs[s].entry, Len(entries) + 1)
                          /\ \A t \in Alive(tasks) : tasks[t].phase = "tools" =>
                               subs[s].entry < tasks[t].calls

\* A compaction that a generation waits for: it is the only one, and what it
\* keeps from is not before the active range.
Waits(entries, tasks, works) ==
  \A c \in DOMAIN works : Live(works[c]) /\ works[c].owner # 0 =>
    /\ works[c].owner \in Alive(tasks) /\ tasks[works[c].owner].compacted = c
    /\ works[c].phase = "summarize" => Above(entries, works[c].firstKept)

State(entries, subs, ids, going, tasks, works, shown) ==
  /\ Written(entries, subs) /\ Queue(subs, ids)
  /\ WorkRefs(entries, tasks, works, shown)
  /\ RunShape(going, tasks) /\ RunOpen(entries, subs, tasks) /\ Waits(entries, tasks, works)
  /\ Placed(subs) = ToSet(going.inputs)
  /\ Alive(tasks) = {going.task} \ {0}

Consistent(tx) ==
  /\ tx \in TX
  /\ State(tx.log, tx.sub, tx.inbox, tx.run, tx.gens, tx.comps, tx.listed)

Inv == /\ Begin \in TX
       /\ State(log, sub, inbox, run, gens, comps, listed)
       /\ asked \in 0 .. MaxSubmissions
-----------------------------------------------------------------------------
(* The two recursions of a boundary.  Each is a function on 0..n; that it  *)
(* exists, and what holds of all its values, follow from the least number  *)
(* for which they would not.                                               *)

LEMMA LeastOf ==
  ASSUME NEW T, T \subseteq Nat, T # {}
  PROVE  \E n \in T : \A m \in Nat : m < n => m \notin T
<1>1. PICK n \in T : \A m \in T : ~ (<<m, n>> \in OpToRel(<, Nat))
  BY NatLessThanWellFounded, WFMin
<1>2. ASSUME NEW m \in T  PROVE ~ (m < n)
  BY <1>1, <1>2 DEF OpToRel
<1> QED
  BY <1>2

LEMMA PlacingSteps ==
  ASSUME NEW tx, NEW items, Len(items) \in Nat
  PROVE  /\ Placing(tx, items)[0] = tx
         /\ \A n \in 1..Len(items) :
              Placing(tx, items)[n] = PlaceItem(Placing(tx, items)[n - 1], items[n])
<1> DEFINE Is(g, m) ==
      g = [n \in 0..m |-> IF n = 0 THEN tx ELSE PlaceItem(g[n - 1], items[n])]
           T == {m \in Nat : ~ \E g : Is(g, m)}
<1>1. T = {}
  <2>1. SUFFICES ASSUME T # {}  PROVE FALSE
    OBVIOUS
  <2>2. PICK m \in T : \A k \in Nat : k < m => k \notin T
    BY <2>1, LeastOf
  <2>3. CASE m = 0
    <3> DEFINE g == [n \in 0..0 |-> tx]
    <3>1. g = [n \in 0..0 |-> IF n = 0 THEN tx ELSE PlaceItem(g[n - 1], items[n])]
      OBVIOUS
    <3>2. Is(g, m)
      BY <2>3, <3>1
    <3> QED
      BY <2>2, <3>2
  <2>4. CASE m # 0
    <3>1. PICK k \in Nat : m = k + 1
      BY <2>2, <2>4
    <3>2. PICK g : Is(g, k)
      BY <2>2, <3>1
    <3> DEFINE h == [n \in 0..(k + 1) |-> IF n <= k THEN g[n] ELSE PlaceItem(g[k], items[k + 1])]
    <3>3. ASSUME NEW n \in 0..(k + 1)
          PROVE  h[n] = IF n = 0 THEN tx ELSE PlaceItem(h[n - 1], items[n])
      <4>1. CASE n = 0
        BY <3>2, <4>1
      <4>2. CASE n \in 1..k
        BY <3>2, <4>2
      <4>3. CASE n = k + 1
        BY <3>2, <4>3
      <4> QED
        BY <3>3, <4>1, <4>2, <4>3
    <3>4. Is(h, m)
      BY <3>1, <3>3
    <3> QED
      BY <2>2, <3>4
  <2> QED
    BY <2>3, <2>4
<1>2. \E g : Is(g, Len(items))
  BY <1>1
<1>3. Placing(tx, items) = CHOOSE g : Is(g, Len(items))
  BY DEF Placing
<1>4. Is(Placing(tx, items), Len(items))
  <2> HIDE DEF Is
  <2> QED
    BY <1>2, <1>3
<1> QED
  BY <1>4

\* One step of Selected.
Extended(prev, x, set) == IF x \in set THEN Append(prev, x) ELSE prev

LEMMA SelectedSteps ==
  ASSUME NEW seq, NEW set, Len(seq) \in Nat
  PROVE  \E f : /\ Selected(seq, set) = f[Len(seq)] /\ f[0] = <<>>
                /\ \A n \in 1..Len(seq) : f[n] = Extended(f[n - 1], seq[n], set)
<1> DEFINE Is(g, m) ==
      g = [n \in 0..m |-> IF n = 0 THEN <<>> ELSE Extended(g[n - 1], seq[n], set)]
           T == {m \in Nat : ~ \E g : Is(g, m)}
<1>1. T = {}
  <2>1. SUFFICES ASSUME T # {}  PROVE FALSE
    OBVIOUS
  <2>2. PICK m \in T : \A k \in Nat : k < m => k \notin T
    BY <2>1, LeastOf
  <2>3. CASE m = 0
    <3> DEFINE g == [n \in 0..0 |-> <<>>]
    <3>1. g = [n \in 0..0 |-> IF n = 0 THEN <<>> ELSE Extended(g[n - 1], seq[n], set)]
      OBVIOUS
    <3>2. Is(g, m)
      BY <2>3, <3>1
    <3> QED
      BY <2>2, <3>2
  <2>4. CASE m # 0
    <3>1. PICK k \in Nat : m = k + 1
      BY <2>2, <2>4
    <3>2. PICK g : Is(g, k)
      <4> HIDE DEF Is
      <4> QED
        BY <2>2, <3>1
    <3> DEFINE h == [n \in 0..(k + 1) |-> IF n <= k THEN g[n] ELSE Extended(g[k], seq[k + 1], set)]
    <3>3. ASSUME NEW n \in 0..(k + 1)
          PROVE  h[n] = IF n = 0 THEN <<>> ELSE Extended(h[n - 1], seq[n], set)
      <4>1. CASE n = 0
        BY <3>2, <4>1
      <4>2. CASE n \in 1..k
        BY <3>2, <4>2
      <4>3. CASE n = k + 1
        BY <3>2, <4>3
      <4> QED
        BY <3>3, <4>1, <4>2, <4>3
    <3>4. Is(h, m)
      BY <3>1, <3>3
    <3> QED
      BY <2>2, <3>4
  <2> QED
    BY <2>3, <2>4
<1>2. \E g : Is(g, Len(seq))
  BY <1>1
<1>3. Selected(seq, set) = (CHOOSE g : Is(g, Len(seq)))[Len(seq)]
  BY DEF Selected, Extended
<1>4. PICK f : f = (CHOOSE g : Is(g, Len(seq)))
  OBVIOUS
<1>5. Is(f, Len(seq)) /\ Selected(seq, set) = f[Len(seq)]
  <2> HIDE DEF Is
  <2> QED
    BY <1>2, <1>3, <1>4
<1>6. f[0] = <<>> /\ \A n \in 1..Len(seq) : f[n] = Extended(f[n - 1], seq[n], set)
  BY <1>5
<1> QED
  BY <1>5, <1>6

\* The elements of a rising sequence that are in the set, in their order.
LEMMA SelectedIs ==
  ASSUME NEW seq \in Seq(Nat), Rises(seq), NEW set
  PROVE  /\ Selected(seq, set) \in Seq(Nat) /\ Rises(Selected(seq, set))
         /\ ToSet(Selected(seq, set)) = ToSet(seq) \cap set
<1>0. PICK len \in Nat : len = Len(seq)
  OBVIOUS
<1>1. PICK f : /\ Selected(seq, set) = f[len] /\ f[0] = <<>>
               /\ \A n \in 1..len : f[n] = Extended(f[n - 1], seq[n], set)
  <2>1. Len(seq) \in Nat
    OBVIOUS
  <2>2. PICK f : /\ Selected(seq, set) = f[Len(seq)] /\ f[0] = <<>>
                 /\ \A n \in 1..Len(seq) : f[n] = Extended(f[n - 1], seq[n], set)
    BY <2>1, SelectedSteps
  <2> QED
    BY <1>0, <2>2
<1> DEFINE Upto(n) == {seq[i] : i \in 1..n} \cap set
           Fits(n) == f[n] \in Seq(Nat) /\ Rises(f[n]) /\ ToSet(f[n]) = Upto(n)
           U == {n \in 0..len : ~ Fits(n)}
<1>3. ASSUME NEW n \in 1..len, Fits(n - 1)
      PROVE  Fits(n)
  <2>1. PICK r : r = f[n - 1]
    OBVIOUS
  <2>2. r \in Seq(Nat) /\ Rises(r) /\ ToSet(r) = Upto(n - 1)
    BY <1>3, <2>1
  <2>3. seq[n] \in Nat /\ \A x \in ToSet(r) : x < seq[n]
    <3>1. n \in DOMAIN seq /\ seq[n] \in Nat
      BY <1>0
    <3>2. ASSUME NEW i \in 1..(n - 1)  PROVE seq[i] < seq[n]
      <4>1. i \in DOMAIN seq /\ i < n
        BY <1>0
      <4> QED
        BY <3>1, <4>1 DEF Rises
    <3> QED
      BY <2>2, <3>1, <3>2
  <2>4. f[n] = Extended(r, seq[n], set)
    BY <1>1, <2>1
  <2>5. {seq[i] : i \in 1..n} = {seq[i] : i \in 1..(n - 1)} \cup {seq[n]}
    <3>1. \A i \in 1..n : i = n \/ i \in 1..(n - 1)
      OBVIOUS
    <3>2. \A i \in 1..(n - 1) : i \in 1..n
      OBVIOUS
    <3> QED
      BY <3>1, <3>2
  <2>6. CASE seq[n] \notin set
    <3>1. f[n] = r
      BY <2>4, <2>6 DEF Extended
    <3> QED
      BY <2>2, <2>5, <2>6, <3>1
  <2>7. CASE seq[n] \in set
    <3>1. f[n] = Append(r, seq[n])
      BY <2>4, <2>7 DEF Extended
    <3>2. PICK l \in Nat : l = Len(r)
      BY <2>2
    <3>3. PICK q : q = f[n]
      OBVIOUS
    <3>4. /\ q \in Seq(Nat) /\ Len(q) = l + 1 /\ q[l + 1] = seq[n]
          /\ \A i \in 1..l : q[i] = r[i]
      BY <2>2, <2>3, <3>1, <3>2, <3>3, AppendProperties
    <3>5. DOMAIN q = 1..(l + 1) /\ DOMAIN r = 1..l
      BY <2>2, <3>2, <3>4
    <3>6. ToSet(q) = ToSet(r) \cup {seq[n]}
      <4>1. \A i \in 1..(l + 1) : i = l + 1 \/ i \in 1..l
        OBVIOUS
      <4>2. l + 1 \in 1..(l + 1) /\ \A i \in 1..l : i \in 1..(l + 1)
        OBVIOUS
      <4> QED
        BY <3>4, <3>5, <4>1, <4>2 DEF ToSet
    <3>7. \A i \in 1..l : r[i] \in ToSet(r)
      BY <3>5 DEF ToSet
    <3>8. Rises(q)
      <4>1. ASSUME NEW i \in 1..(l + 1), NEW j \in 1..(l + 1), i < j
            PROVE  q[i] < q[j]
        <5>1. i \in 1..l /\ q[i] = r[i]
          BY <3>4, <4>1
        <5>2. CASE j = l + 1
          BY <2>3, <3>4, <3>7, <5>1, <5>2
        <5>3. CASE j \in 1..l
          BY <2>2, <3>4, <3>5, <4>1, <5>1, <5>3 DEF Rises
        <5> QED
          BY <5>2, <5>3
      <4> QED
        BY <3>5, <4>1 DEF Rises
    <3>9. ToSet(q) = Upto(n)
      BY <2>2, <2>5, <2>7, <3>6
    <3> QED
      BY <3>3, <3>4, <3>8, <3>9
  <2> QED
    BY <2>6, <2>7
<1>4. Fits(0)
  BY <1>0, <1>1 DEF Rises, ToSet
<1>5. U = {}
  <2>1. SUFFICES ASSUME U # {}  PROVE FALSE
    OBVIOUS
  <2> HIDE DEF Fits
  <2>2. PICK m \in U : \A k \in Nat : k < m => k \notin U
    <3>1. U \subseteq Nat
      OBVIOUS
    <3> HIDE DEF U
    <3> QED
      BY <2>1, <3>1, LeastOf
  <2>3. m # 0
    BY <1>4, <2>2
  <2>4. m - 1 \in 0..len /\ m - 1 < m /\ m \in 1..len /\ m - 1 \in Nat
    BY <1>0, <2>2, <2>3
  <2>5. Fits(m - 1)
    BY <2>2, <2>4
  <2> QED
    BY <1>3, <2>2, <2>4, <2>5
<1>6. Fits(len)
  <2> HIDE DEF Fits
  <2>1. len \in 0..len
    OBVIOUS
  <2> QED
    BY <1>5, <2>1
<1>7. Upto(len) = ToSet(seq) \cap set
  BY <1>0 DEF ToSet
<1> QED
  BY <1>1, <1>6, <1>7

-----------------------------------------------------------------------------
(* What a boundary takes from the queue.                                   *)

\* The items come from the queue, each once; before an item come those of its
\* mode that have waited longer, and the inputs come after the writes.
Takes(tx, items) ==
  /\ items \in Seq(Nat)
  /\ \A n \in DOMAIN items :
       /\ items[n] \in DOMAIN tx.sub /\ tx.sub[items[n]].status = "queued"
       /\ \A s \in DOMAIN tx.sub :
            /\ s < items[n] /\ tx.sub[s].mode = tx.sub[items[n]].mode /\ tx.sub[s].status = "queued"
            => \E m \in DOMAIN items : m < n /\ items[m] = s
       /\ \A m \in DOMAIN items : m < n =>
            /\ items[m] # items[n]
            /\ tx.sub[items[m]].mode # "write" => tx.sub[items[n]].mode # "write"

LEMMA PickedIs ==
  ASSUME NEW tx, tx \in TX, Queue(tx.sub, tx.inbox), NEW mode \in Modes, NEW how
  PROVE  /\ Picked(tx, mode, how) \subseteq
              {s \in DOMAIN tx.sub : tx.sub[s].mode = mode /\ tx.sub[s].status = "queued"}
         /\ \A r \in Picked(tx, mode, how) : \A s \in DOMAIN tx.sub :
              s < r /\ tx.sub[s].mode = mode /\ tx.sub[s].status = "queued"
                => s \in Picked(tx, mode, how)
<1> DEFINE of == OfMode(tx, mode)
           set == {s \in DOMAIN tx.sub : tx.sub[s].mode = mode}
<1>1. tx.inbox \in Seq(Nat) /\ Rises(tx.inbox)
  BY DEF TX, Queue, Rises
<1>2. of \in Seq(Nat) /\ Rises(of) /\ ToSet(of) = ToSet(tx.inbox) \cap set
  <2> HIDE DEF set
  <2>1. of = Selected(tx.inbox, set)
    BY DEF OfMode, set
  <2> QED
    BY <1>1, <2>1, SelectedIs
<1>3. ToSet(of) = {s \in DOMAIN tx.sub : tx.sub[s].mode = mode /\ tx.sub[s].status = "queued"}
  BY <1>2 DEF Queue
<1>4. Picked(tx, mode, how) = IF how = "all" \/ of = <<>> THEN ToSet(of) ELSE {Head(of)}
  BY DEF Picked
<1> HIDE DEF of
<1>5. CASE how = "all" \/ of = <<>>
  BY <1>3, <1>4, <1>5
<1>6. CASE ~(how = "all" \/ of = <<>>)
  <2>1. Head(of) = of[1] /\ 1 \in DOMAIN of /\ of[1] \in ToSet(of)
    BY <1>2, <1>6 DEF ToSet
  <2>2. \A s \in ToSet(of) : s = of[1] \/ of[1] < s
    <3>1. ASSUME NEW i \in DOMAIN of  PROVE of[i] = of[1] \/ of[1] < of[i]
      BY <1>2, <2>1 DEF Rises
    <3> QED
      BY <3>1 DEF ToSet
  <2>3. \A s \in ToSet(of) : s \in Nat
    BY <1>2 DEF ToSet
  <2>4. ASSUME NEW s \in DOMAIN tx.sub, s < of[1], tx.sub[s].mode = mode,
               tx.sub[s].status = "queued"
        PROVE  FALSE
    <3>1. s \in ToSet(of)
      BY <1>3, <2>4
    <3> QED
      BY <2>1, <2>2, <2>3, <2>4, <3>1
  <2> QED
    BY <1>3, <1>4, <1>6, <2>1, <2>4
<1> QED
  BY <1>5, <1>6

LEMMA BoundaryTakes ==
  ASSUME NEW tx, tx \in TX, Queue(tx.sub, tx.inbox), NEW at, NEW modes
  PROVE  LET writes == OfMode(tx, "write")
             users  == Selected(tx.inbox, Chosen(tx, at, modes))
         IN  /\ Takes(tx, writes \o users)
             /\ writes \in Seq(Nat) /\ users \in Seq(Nat) /\ IsInjective(users)
             /\ \A i \in DOMAIN writes : tx.sub[writes[i]].mode = "write"
             /\ \A i \in DOMAIN users : /\ tx.sub[users[i]].mode # "write"
                                        /\ users[i] \in Chosen(tx, at, modes)
<1> DEFINE chosen == Chosen(tx, at, modes)
           writes == OfMode(tx, "write")
           users  == Selected(tx.inbox, chosen)
           waiting == {s \in DOMAIN tx.sub : tx.sub[s].status = "queued"}
<1>1. tx.inbox \in Seq(Nat) /\ Rises(tx.inbox) /\ ToSet(tx.inbox) = waiting
  BY DEF TX, Queue, Rises
<1>2. /\ chosen \subseteq {s \in waiting : tx.sub[s].mode # "write"}
      /\ \A r \in chosen : \A s \in waiting : s < r /\ tx.sub[s].mode = tx.sub[r].mode => s \in chosen
  <2>1. "steer" \in Modes /\ "followUp" \in Modes
    BY DEF Modes
  <2>2. \/ chosen = Picked(tx, "steer", modes.steering) \cup Picked(tx, "followUp", modes.followUp)
        \/ chosen = Picked(tx, "steer", modes.steering)
    BY DEF Chosen
  <2> HIDE DEF chosen
  <2> QED
    BY <2>1, <2>2, PickedIs
<1>3. writes \in Seq(Nat) /\ Rises(writes) /\ ToSet(writes) = {s \in waiting : tx.sub[s].mode = "write"}
  <2> DEFINE set == {s \in DOMAIN tx.sub : tx.sub[s].mode = "write"}
  <2>1. writes = Selected(tx.inbox, set)
    BY DEF OfMode
  <2> HIDE DEF set
  <2>2. writes \in Seq(Nat) /\ Rises(writes) /\ ToSet(writes) = waiting \cap set
    BY <1>1, <2>1, SelectedIs
  <2> QED
    BY <2>2 DEF set
<1> HIDE DEF chosen
<1>4. users \in Seq(Nat) /\ Rises(users) /\ ToSet(users) = chosen
  BY ZenonT(60), <1>1, <1>2, SelectedIs
<1> HIDE DEF writes, users, waiting
<1>5. IsInjective(users)
  <2>1. ASSUME NEW i \in DOMAIN users, NEW j \in DOMAIN users, users[i] = users[j], i # j
        PROVE  FALSE
    <3>1. i < j \/ j < i
      BY <1>4, <2>1
    <3>2. users[i] \in Nat /\ users[j] \in Nat
      BY <1>4
    <3> QED
      BY <1>4, <2>1, <3>1, <3>2 DEF Rises
  <2> QED
    BY <2>1 DEF IsInjective
<1>6. /\ \A i \in DOMAIN writes : writes[i] \in waiting /\ tx.sub[writes[i]].mode = "write"
      /\ \A i \in DOMAIN users : /\ users[i] \in waiting /\ users[i] \in chosen
                                 /\ tx.sub[users[i]].mode # "write"
  BY <1>2, <1>3, <1>4 DEF ToSet
<1>7. Takes(tx, writes \o users)
  <2> DEFINE items == writes \o users
  <2>1. PICK w \in Nat, u \in Nat : w = Len(writes) /\ u = Len(users)
    BY <1>3, <1>4
  <2>2. /\ items \in Seq(Nat) /\ Len(items) = w + u
        /\ \A i \in 1..w : items[i] = writes[i]
        /\ \A i \in 1..u : items[w + i] = users[i]
    BY <1>3, <1>4, <2>1, ConcatProperties
  <2> HIDE DEF items
  <2>3. DOMAIN items = 1..(w + u) /\ DOMAIN writes = 1..w /\ DOMAIN users = 1..u
    BY <1>3, <1>4, <2>1, <2>2
  <2>4. ASSUME NEW n \in DOMAIN items
        PROVE  \/ n \in 1..w /\ items[n] = writes[n]
               \/ \E k \in 1..u : n = w + k /\ items[n] = users[k]
    <3>1. CASE n <= w
      BY <2>2, <2>3, <3>1
    <3>2. CASE n > w
      <4>1. n - w \in 1..u /\ n = w + (n - w)
        BY <2>3, <3>2
      <4> QED
        BY <2>2, <4>1
    <3> QED
      BY <2>3, <3>1, <3>2
  <2>5. ASSUME NEW n \in DOMAIN items, NEW s \in waiting,
               s < items[n], tx.sub[s].mode = tx.sub[items[n]].mode
        PROVE  \E m \in DOMAIN items : m < n /\ items[m] = s
    <3>1. CASE n \in 1..w /\ items[n] = writes[n]
      <4>1. PICK i \in DOMAIN writes : writes[i] = s
        BY <1>3, <1>6, <2>3, <2>5, <3>1 DEF ToSet
      <4>2. ~ (n < i) /\ n # i
        BY <1>3, <2>3, <2>5, <3>1, <4>1 DEF Rises
      <4>3. i \in DOMAIN items /\ i < n /\ items[i] = s
        BY <2>2, <2>3, <3>1, <4>1, <4>2
      <4> QED
        BY <4>3
    <3>2. ASSUME NEW k \in 1..u, n = w + k, items[n] = users[k]
          PROVE  \E m \in DOMAIN items : m < n /\ items[m] = s
      <4>1. s \in chosen
        BY <1>2, <1>6, <2>3, <2>5, <3>2
      <4>2. PICK i \in DOMAIN users : users[i] = s
        BY <1>4, <4>1 DEF ToSet
      <4>3. ~ (k < i) /\ k # i
        <5>1. users[k] \in Nat /\ users[i] \in Nat /\ users[i] < users[k] /\ k \in DOMAIN users
          BY <1>4, <2>3, <2>5, <3>2, <4>2
        <5> QED
          BY <1>4, <4>2, <5>1 DEF Rises
      <4>4. w + i \in DOMAIN items /\ w + i < n /\ items[w + i] = s
        <5>1. i \in 1..u /\ k \in 1..u /\ i < k /\ w \in Nat /\ u \in Nat
          BY <2>1, <2>3, <4>2, <4>3
        <5> QED
          BY SMTT(30), <2>2, <2>3, <3>2, <4>2, <5>1
      <4> QED
        BY <4>4
    <3> QED
      BY <2>4, <3>1, <3>2
  <2>6. ASSUME NEW n \in DOMAIN items, NEW m \in DOMAIN items, m < n
        PROVE  /\ items[m] # items[n]
               /\ tx.sub[items[m]].mode # "write" => tx.sub[items[n]].mode # "write"
    <3>1. CASE n \in 1..w /\ items[n] = writes[n]
      <4>1. m \in 1..w /\ items[m] = writes[m]
        BY <2>2, <2>3, <2>6, <3>1
      <4> QED
        BY <1>3, <1>6, <2>3, <2>6, <3>1, <4>1 DEF Rises
    <3>2. ASSUME NEW k \in 1..u, n = w + k, items[n] = users[k]
          PROVE  items[m] # items[n] /\ tx.sub[items[n]].mode # "write"
      <4>1. CASE m \in 1..w /\ items[m] = writes[m]
        BY <1>6, <2>3, <3>2, <4>1
      <4>2. ASSUME NEW l \in 1..u, m = w + l, items[m] = users[l]
            PROVE  items[m] # items[n]
        <5>1. l < k
          <6>1. l \in Nat /\ k \in Nat /\ w \in Nat /\ w + l < w + k
            BY <2>1, <2>6, <3>2, <4>2
          <6> QED
            BY <6>1
        <5>2. users[l] < users[k] /\ users[l] \in Nat /\ users[k] \in Nat
          <6>1. l \in DOMAIN users /\ k \in DOMAIN users
            BY <2>3, <3>2, <4>2
          <6> QED
            BY <1>4, <5>1, <6>1 DEF Rises
        <5> QED
          BY <3>2, <4>2, <5>2
      <4> QED
        BY <1>6, <2>3, <2>4, <3>2, <4>1, <4>2
    <3> QED
      BY <2>4, <3>1, <3>2
  <2>7. \A n \in DOMAIN items : items[n] \in waiting
    BY <1>6, <2>3, <2>4
  <2> QED
    BY ZenonT(60), <2>2, <2>5, <2>6, <2>7 DEF Takes, waiting, items
<1> QED
  BY <1>3, <1>4, <1>5, <1>6, <1>7 DEF chosen, writes, users
-----------------------------------------------------------------------------
(* What the parts of a commit do to the transcript and the records.        *)

LEMMA Lengthened ==
  ASSUME NEW S, NEW seq \in Seq(S), NEW e \in S, NEW l \in Nat, l = Len(seq)
  PROVE  /\ Append(seq, e) \in Seq(S) /\ Len(Append(seq, e)) = l + 1
         /\ DOMAIN Append(seq, e) = 1..(l + 1) /\ DOMAIN seq = 1..l
         /\ Append(seq, e)[l + 1] = e /\ \A i \in 1..l : Append(seq, e)[i] = seq[i]
BY AppendProperties

\* An entry e with number own may follow, and the records become new: e is for
\* no submission or for one whose record names it.
Follows(entries, subs, own, e, new) ==
  /\ own \in Nat /\ own = Len(entries) + 1 /\ e \in EntrySet
  /\ e.head = NoHead \/ e.head = own \/ (e.head <= Len(entries) /\ Above(entries, e.head))
  /\ new \in Seq(SubSet)
  /\ DOMAIN new = DOMAIN subs \cup ({e.sub} \ {0})
  /\ \A s \in DOMAIN subs : s # e.sub => new[s] = subs[s]
  /\ e.sub # 0 =>
       /\ new[e.sub].entry = own /\ new[e.sub].answer = 0 /\ new[e.sub].head <= own
       /\ new[e.sub].status \in {"done", "placed"}
       /\ new[e.sub].status = "placed" => new[e.sub].mode # "write"
       /\ e.sub \in DOMAIN subs => subs[e.sub].entry = 0
       /\ \A s \in DOMAIN subs : s # e.sub /\ subs[s].mode = new[e.sub].mode =>
            /\ s < e.sub => subs[s].status # "queued"
            /\ e.sub < s => subs[s].entry = 0

LEMMA EntryWritten ==
  ASSUME NEW entries, NEW subs, Written(entries, subs),
         NEW own, NEW e, NEW new, Follows(entries, subs, own, e, new)
  PROVE  Written(Append(entries, e), new)
<1> USE DEF Follows
<1> DEFINE x == e.sub
           longer == Append(entries, e)
<1>0. /\ entries \in Seq(EntrySet) /\ subs \in Seq(SubSet)
      /\ Refs(entries, subs) /\ Statuses(subs) /\ OneEntry(entries, subs)
      /\ Answered(entries, subs) /\ InOrder(subs) /\ HeadsRise(entries)
  BY DEF Written
<1>1. PICK l \in Nat : l = Len(entries)
  BY <1>0
<1>2. own = l + 1
  BY <1>1
<1>3. /\ longer \in Seq(EntrySet) /\ Len(longer) = own /\ DOMAIN longer = 1..own
      /\ DOMAIN entries = 1..l /\ longer[own] = e /\ \A i \in 1..l : longer[i] = entries[i]
  BY <1>0, <1>1, <1>2, Lengthened
<1>4. PICK n \in Nat, m \in Nat : n = Len(subs) /\ m = Len(new)
  <2>1. Len(subs) \in Nat /\ Len(new) \in Nat
    BY <1>0
  <2> QED
    BY <2>1
<1>5. DOMAIN subs = 1..n /\ DOMAIN new = 1..m /\ n <= m /\ x \in Nat /\ (x # 0 => x \in 1..m)
  <2>1. DOMAIN subs = 1..n /\ DOMAIN new = 1..m
    BY <1>0, <1>4
  <2>2. x \in Nat
    BY DEF EntrySet
  <2>3. n <= m
    <3>1. 1..n \subseteq 1..m
      BY <2>1
    <3>2. n = 0 \/ n \in 1..n
      BY <1>4
    <3> QED
      BY <1>4, <3>1, <3>2
  <2> QED
    BY <2>1, <2>2, <2>3
<1>6. \A s \in DOMAIN new : s = x \/ (s \in DOMAIN subs /\ new[s] = subs[s])
  OBVIOUS
<1>7. \A i \in 1..own : i = own \/ i \in 1..l
  BY <1>2
<1>8. /\ \A i \in 1..l : /\ entries[i].head \in Nat /\ entries[i].head <= i
                         /\ entries[i].sub \in Nat /\ entries[i].sub <= n
      /\ \A s \in 1..n : /\ subs[s].entry \in Nat /\ subs[s].entry <= l
                         /\ subs[s].answer \in Nat /\ subs[s].answer <= l
                         /\ subs[s].head \in Nat \cup {SelfHead} /\ subs[s].head <= l
  <2>1. \A i \in 1..l : entries[i] \in EntrySet
    BY <1>0, <1>3
  <2>2. \A s \in 1..n : subs[s] \in SubSet
    BY <1>0, <1>5
  <2> QED
    BY <1>0, <1>1, <1>3, <1>4, <1>5, <2>1, <2>2 DEF Refs, EntrySet, SubSet
<1>9. e.head \in Nat /\ e.head <= own
  BY <1>1, <1>2 DEF EntrySet, NoHead
<1> HIDE DEF longer, x
<1>10. Refs(longer, new)
  <2>1. ASSUME NEW i \in 1..own
        PROVE  longer[i].head <= i /\ longer[i].sub <= m
    <3>1. CASE i = own
      BY <1>3, <1>5, <1>9, <3>1 DEF x
    <3>2. CASE i \in 1..l
      BY <1>3, <1>5, <1>8, <3>2
    <3> QED
      BY <1>7, <3>1, <3>2
  <2>2. ASSUME NEW s \in 1..m
        PROVE  new[s].head <= own /\ new[s].entry <= own /\ new[s].answer <= own
    <3>1. CASE s = x
      BY <1>5, <3>1 DEF x
    <3>2. CASE s \in DOMAIN subs /\ new[s] = subs[s]
      <4>1. /\ subs[s].entry \in Nat /\ subs[s].entry <= l
            /\ subs[s].answer \in Nat /\ subs[s].answer <= l
            /\ subs[s].head \in Int /\ subs[s].head <= l
        BY <1>5, <1>8, <3>2 DEF SelfHead
      <4> QED
        BY <1>2, <3>2, <4>1
    <3> QED
      BY <1>5, <1>6, <3>1, <3>2
  <2> QED
    BY <1>3, <1>4, <1>5, <2>1, <2>2 DEF Refs
<1>11. Statuses(new)
  <2>1. ASSUME NEW s \in DOMAIN new
        PROVE  /\ new[s].status = "queued" => new[s].entry = 0
               /\ new[s].status = "placed" => new[s].entry # 0 /\ new[s].mode # "write"
               /\ new[s].answer # 0 => new[s].status = "done"
    <3>1. CASE s = x
      BY <1>2, <1>5, <3>1 DEF x
    <3>2. CASE s \in DOMAIN subs /\ new[s] = subs[s]
      BY <1>0, <3>2 DEF Statuses
    <3> QED
      BY <1>6, <3>1, <3>2
  <2> QED
    BY <2>1 DEF Statuses
<1>12. OneEntry(longer, new)
  <2>1. ASSUME NEW s \in DOMAIN new, NEW i \in 1..own
        PROVE  longer[i].sub = s <=> new[s].entry = i
    <3>1. CASE s = x /\ i = own
      BY <1>3, <1>5, <3>1 DEF x
    <3>2. CASE s = x /\ i \in 1..l
      <4>1. new[s].entry = own /\ own # i /\ longer[i] = entries[i]
        BY <1>2, <1>3, <1>5, <3>2 DEF x
      <4>2. entries[i].sub # x
        <5>1. CASE x \in DOMAIN subs
          BY <1>0, <1>3, <1>5, <3>2, <5>1 DEF OneEntry, x
        <5>2. CASE x \notin DOMAIN subs
          BY <1>5, <1>8, <3>2, <5>2
        <5> QED
          BY <5>1, <5>2
      <4> QED
        BY <3>2, <4>1, <4>2
    <3>3. CASE s # x /\ s \in DOMAIN subs /\ new[s] = subs[s] /\ i = own
      BY <1>2, <1>3, <1>5, <1>8, <3>3 DEF x
    <3>4. CASE s \in DOMAIN subs /\ new[s] = subs[s] /\ i \in 1..l
      BY <1>0, <1>3, <3>4 DEF OneEntry
    <3> QED
      BY <1>6, <1>7, <3>1, <3>2, <3>3, <3>4
  <2> QED
    BY <1>3, <2>1 DEF OneEntry
<1>13. Answered(longer, new)
  <2>1. ASSUME NEW s \in DOMAIN new, new[s].answer # 0
        PROVE  new[s].entry < new[s].answer /\ Open(longer, new[s].entry, new[s].answer)
    <3>1. s \in DOMAIN subs /\ new[s] = subs[s]
      BY <1>5, <1>6, <2>1 DEF x
    <3>2. subs[s].entry < subs[s].answer /\ Open(entries, subs[s].entry, subs[s].answer)
      BY <1>0, <2>1, <3>1 DEF Answered
    <3>3. subs[s].answer <= l /\ subs[s].answer \in Nat
      BY <1>5, <1>8, <3>1
    <3>4. ASSUME NEW i \in 1..own, subs[s].entry < i, i < subs[s].answer
          PROVE  longer[i].head # i
      BY <1>2, <1>3, <1>7, <3>2, <3>3, <3>4 DEF Open
    <3> QED
      BY <1>3, <3>1, <3>2, <3>4 DEF Open
  <2> QED
    BY <2>1 DEF Answered
<1>14. InOrder(new)
  <2>1. ASSUME NEW s \in DOMAIN new, NEW r \in DOMAIN new, s < r, new[s].mode = new[r].mode,
               new[r].entry # 0
        PROVE  new[s].status # "queued" /\ (new[s].entry # 0 => new[s].entry < new[r].entry)
    <3>1. CASE s = x /\ r \in DOMAIN subs /\ new[r] = subs[r] /\ r # x
      <4>1. subs[r].entry = 0
        BY <1>5, <2>1, <3>1 DEF x
      <4> QED
        BY <2>1, <3>1, <4>1
    <3>2. CASE r = x /\ s \in DOMAIN subs /\ new[s] = subs[s] /\ s # x
      <4>1. subs[s].status # "queued" /\ new[r].entry = own
        BY <1>5, <2>1, <3>2 DEF x
      <4> QED
        BY <1>2, <1>5, <1>8, <3>2, <4>1
    <3>3. CASE s \in DOMAIN subs /\ new[s] = subs[s] /\ r \in DOMAIN subs /\ new[r] = subs[r]
      BY <1>0, <2>1, <3>3 DEF InOrder
    <3>4. s # r
      BY <1>5, <2>1
    <3> QED
      BY <1>6, <3>1, <3>2, <3>3, <3>4
  <2> QED
    BY <2>1 DEF InOrder
<1>15. HeadsRise(longer)
  <2>1. ASSUME NEW i \in 1..own, NEW j \in 1..own, i < j,
               longer[i].head # NoHead, longer[j].head # NoHead
        PROVE  longer[i].head <= longer[j].head
    <3>1. i \in 1..l /\ longer[i] = entries[i]
      BY <1>2, <1>3, <1>7, <2>1
    <3>2. CASE j = own
      <4>1. entries[i].head <= l /\ entries[i].head \in Nat
        BY <1>8, <3>1
      <4>2. CASE e.head = own
        BY <1>2, <1>3, <3>1, <3>2, <4>1, <4>2
      <4>3. CASE Above(entries, e.head)
        BY <1>3, <3>1, <3>2, <4>3 DEF Above
      <4> QED
        BY <1>3, <2>1, <3>2, <4>2, <4>3
    <3>3. CASE j \in 1..l
      BY <1>0, <1>3, <2>1, <3>1, <3>3 DEF HeadsRise
    <3> QED
      BY <1>7, <3>2, <3>3
  <2> QED
    BY <1>3, <2>1 DEF HeadsRise
<1> QED
  BY <1>3, <1>10, <1>11, <1>12, <1>13, <1>14, <1>15 DEF Written, longer

\* Records are settled, some with an answer.
LEMMA RecordsSettled ==
  ASSUME NEW entries, NEW subs, Written(entries, subs),
         NEW new \in Seq(SubSet), DOMAIN new = DOMAIN subs,
         \A s \in DOMAIN subs :
           \/ new[s] = subs[s]
           \/ /\ new[s].mode = subs[s].mode /\ new[s].head = subs[s].head
              /\ new[s].entry = subs[s].entry /\ new[s].status \in {"done", "unanswered"}
              /\ new[s].answer # 0 =>
                   /\ new[s].status = "done" /\ new[s].answer <= Len(entries)
                   /\ new[s].entry < new[s].answer
                   /\ Open(entries, new[s].entry, new[s].answer)
  PROVE  Written(entries, new)
<1>0. /\ entries \in Seq(EntrySet) /\ subs \in Seq(SubSet)
      /\ Refs(entries, subs) /\ Statuses(subs) /\ OneEntry(entries, subs)
      /\ Answered(entries, subs) /\ InOrder(subs) /\ HeadsRise(entries)
  BY DEF Written
<1>1. Len(subs) = Len(new) /\ Len(entries) \in Nat
  <2>1. PICK n \in Nat, m \in Nat : n = Len(subs) /\ m = Len(new) /\ 1..n = 1..m
    <3>1. Len(subs) \in Nat /\ Len(new) \in Nat /\ 1..Len(subs) = 1..Len(new)
      BY <1>0
    <3> QED
      BY <3>1
  <2>2. n = m
    <3>1. (n = 0 \/ n \in 1..n) /\ (m = 0 \/ m \in 1..m)
      OBVIOUS
    <3> QED
      BY <2>1, <3>1
  <2> QED
    BY <1>0, <2>1, <2>2
<1>2. \A s \in DOMAIN subs : /\ new[s].mode = subs[s].mode /\ new[s].head = subs[s].head
                             /\ new[s].entry = subs[s].entry
                             /\ new[s].status = "queued" => subs[s].status = "queued"
  OBVIOUS
<1>3. Refs(entries, new)
  <2>1. ASSUME NEW s \in DOMAIN subs
        PROVE  new[s].answer <= Len(entries)
    <3>1. subs[s].answer <= Len(entries)
      BY <1>0 DEF Refs
    <3> QED
      BY <1>1, <3>1
  <2> QED
    BY <1>0, <1>1, <1>2, <2>1 DEF Refs
<1>4. Statuses(new)
  <2>1. ASSUME NEW s \in DOMAIN subs
        PROVE  /\ new[s].status = "queued" => new[s].entry = 0
               /\ new[s].status = "placed" => new[s].entry # 0 /\ new[s].mode # "write"
               /\ new[s].answer # 0 => new[s].status = "done"
    BY <1>0 DEF Statuses
  <2> QED
    BY <2>1 DEF Statuses
<1>5. OneEntry(entries, new)
  BY <1>0, <1>2 DEF OneEntry
<1>6. Answered(entries, new)
  <2>1. ASSUME NEW s \in DOMAIN subs, new[s].answer # 0
        PROVE  new[s].entry < new[s].answer /\ Open(entries, new[s].entry, new[s].answer)
    BY <1>0, <2>1 DEF Answered
  <2> QED
    BY <2>1 DEF Answered
<1>7. InOrder(new)
  BY SMTT(30), <1>0, <1>2 DEF InOrder
<1> QED
  BY <1>0, <1>3, <1>4, <1>5, <1>6, <1>7 DEF Written

\* A record without an entry is added: it waits or is settled.
LEMMA RecordAdded ==
  ASSUME NEW entries, NEW subs, Written(entries, subs),
         NEW r \in SubSet, r.entry = 0, r.answer = 0, r.status \in {"queued", "unanswered"},
         r.head <= Len(entries)
  PROVE  Written(entries, Append(subs, r))
<1>0. /\ entries \in Seq(EntrySet) /\ subs \in Seq(SubSet)
      /\ Refs(entries, subs) /\ Statuses(subs) /\ OneEntry(entries, subs)
      /\ Answered(entries, subs) /\ InOrder(subs) /\ HeadsRise(entries)
  BY DEF Written
<1>1. PICK n \in Nat : n = Len(subs)
  BY <1>0
<1>2. PICK new : new = Append(subs, r)
  OBVIOUS
<1>3. /\ new \in Seq(SubSet) /\ Len(new) = n + 1 /\ DOMAIN new = 1..(n + 1) /\ DOMAIN subs = 1..n
      /\ new[n + 1] = r /\ \A s \in 1..n : new[s] = subs[s]
  BY <1>0, <1>1, <1>2, Lengthened
<1>4. \A s \in 1..(n + 1) : s = n + 1 \/ s \in 1..n
  OBVIOUS
<1>5. \A i \in DOMAIN entries : /\ i \in Nat \ {0} /\ entries[i].sub \in Nat /\ entries[i].sub <= n
                                /\ entries[i].head <= i
  <2>1. \A i \in DOMAIN entries : i \in Nat \ {0} /\ entries[i] \in EntrySet
    BY <1>0
  <2> QED
    BY <1>0, <1>1, <2>1 DEF Refs, EntrySet
<1>6. Refs(entries, new)
  <2>1. \A i \in DOMAIN entries : entries[i].sub <= n + 1
    BY <1>5
  <2>2. \A s \in DOMAIN new : /\ new[s].head <= Len(entries)
                              /\ new[s].entry <= Len(entries) /\ new[s].answer <= Len(entries)
    <3>1. Len(entries) \in Nat
      BY <1>0
    <3> QED
      BY <1>0, <1>3, <1>4, <3>1 DEF Refs
  <2> QED
    BY <1>3, <1>5, <2>1, <2>2 DEF Refs
<1>7. Statuses(new)
  BY <1>0, <1>3, <1>4 DEF Statuses
<1>8. OneEntry(entries, new)
  <2>1. ASSUME NEW s \in 1..(n + 1), NEW i \in DOMAIN entries
        PROVE  entries[i].sub = s <=> new[s].entry = i
    <3>1. CASE s = n + 1
      BY <1>3, <1>5, <3>1
    <3>2. CASE s \in 1..n
      BY <1>0, <1>3, <3>2 DEF OneEntry
    <3> QED
      BY <1>4, <3>1, <3>2
  <2> QED
    BY <1>3, <2>1 DEF OneEntry
<1>9. Answered(entries, new)
  <2>1. ASSUME NEW s \in 1..(n + 1), new[s].answer # 0
        PROVE  new[s].entry < new[s].answer /\ Open(entries, new[s].entry, new[s].answer)
    <3>1. s \in 1..n
      BY <1>3, <1>4, <2>1
    <3> QED
      BY <1>0, <1>3, <2>1, <3>1 DEF Answered
  <2> QED
    BY <1>3, <2>1 DEF Answered
<1>10. InOrder(new)
  <2>1. ASSUME NEW s \in 1..(n + 1), NEW q \in 1..(n + 1), s < q, new[s].mode = new[q].mode,
               new[q].entry # 0
        PROVE  new[s].status # "queued" /\ (new[s].entry # 0 => new[s].entry < new[q].entry)
    <3>1. q \in 1..n
      BY <1>3, <1>4, <2>1
    <3>2. s \in 1..n
      BY <2>1, <3>1
    <3> QED
      BY <1>0, <1>3, <2>1, <3>1, <3>2 DEF InOrder
  <2> QED
    BY <1>3, <2>1 DEF InOrder
<1> QED
  BY <1>0, <1>2, <1>3, <1>6, <1>7, <1>8, <1>9, <1>10 DEF Written
-----------------------------------------------------------------------------
(* The operators on transactions, by the parts they change.                *)

\* Two transactions agree on what is beside the transcript and the records.
SameWork(tx, new) ==
  /\ new.inbox = tx.inbox /\ new.run = tx.run /\ new.gens = tx.gens
  /\ new.comps = tx.comps /\ new.listed = tx.listed

LEMMA Fields ==
  ASSUME NEW tx \in TX
  PROVE  /\ tx.log \in Seq(EntrySet) /\ tx.sub \in Seq(SubSet) /\ tx.inbox \in Seq(Nat)
         /\ tx.run \in RunSet /\ tx.gens \in Seq(GenSet) /\ tx.comps \in Seq(CompSet)
         /\ tx.listed \subseteq Nat /\ tx.head \in Nat /\ tx.ok \in BOOLEAN
         /\ Len(tx.log) \in Nat /\ DOMAIN tx.log = 1..Len(tx.log)
         /\ Len(tx.sub) \in Nat /\ DOMAIN tx.sub = 1..Len(tx.sub)
         /\ \A i \in DOMAIN tx.log : /\ tx.log[i].head \in Nat /\ tx.log[i].sub \in Nat
                                     /\ tx.log[i] \in EntrySet
         /\ \A s \in DOMAIN tx.sub :
              /\ tx.sub[s] \in SubSet /\ tx.sub[s].mode \in Modes
              /\ tx.sub[s].head \in Nat \cup {SelfHead} /\ tx.sub[s].head \in Int
              /\ tx.sub[s].entry \in Nat /\ tx.sub[s].answer \in Nat
              /\ tx.sub[s].status \in {"queued", "placed", "done", "unanswered"}
<1>1. /\ tx.log \in Seq(EntrySet) /\ tx.sub \in Seq(SubSet) /\ tx.inbox \in Seq(Nat)
      /\ tx.run \in RunSet /\ tx.gens \in Seq(GenSet) /\ tx.comps \in Seq(CompSet)
      /\ tx.listed \subseteq Nat /\ tx.head \in Nat /\ tx.ok \in BOOLEAN
  BY DEF TX
<1>2. /\ \A i \in DOMAIN tx.log : tx.log[i] \in EntrySet
      /\ \A s \in DOMAIN tx.sub : tx.sub[s] \in SubSet
      /\ Len(tx.log) \in Nat /\ DOMAIN tx.log = 1..Len(tx.log)
      /\ Len(tx.sub) \in Nat /\ DOMAIN tx.sub = 1..Len(tx.sub)
  BY <1>1
<1>3. ASSUME NEW i \in DOMAIN tx.log
      PROVE  tx.log[i].head \in Nat /\ tx.log[i].sub \in Nat
  BY <1>2 DEF EntrySet
<1>4. ASSUME NEW s \in DOMAIN tx.sub
      PROVE  /\ tx.sub[s].mode \in Modes
             /\ tx.sub[s].head \in Nat \cup {SelfHead} /\ tx.sub[s].head \in Int
             /\ tx.sub[s].entry \in Nat /\ tx.sub[s].answer \in Nat
             /\ tx.sub[s].status \in {"queued", "placed", "done", "unanswered"}
  BY <1>2 DEF SubSet, SelfHead
<1> QED
  BY <1>1, <1>2, <1>3, <1>4

LEMMA AppendEntryIs ==
  ASSUME NEW tx \in TX, NEW kind \in Kinds, NEW head \in Nat \cup {SelfHead}, NEW s \in Nat,
         NEW own, own = Len(tx.log) + 1, NEW h, h = IF head = SelfHead THEN own ELSE head,
         NEW e, e = Entry(kind, h, s)
  PROVE  LET new == AppendEntry(tx, kind, head, s)
         IN  /\ new \in TX /\ SameWork(tx, new) /\ new.sub = tx.sub
             /\ new.head = tx.head /\ new.ok = tx.ok /\ new.log = Append(tx.log, e)
             /\ e \in EntrySet /\ e.sub = s /\ e.head = h
<1>1. tx.log \in Seq(EntrySet) /\ own \in Nat
  BY DEF TX
<1>2. h \in Nat
  BY <1>1
<1>3. e \in EntrySet /\ e.sub = s /\ e.head = h
  BY <1>2 DEF Entry, EntrySet, Kinds
<1>4. Append(tx.log, e) \in Seq(EntrySet)
  BY <1>1, <1>3
<1>5. AppendEntry(tx, kind, head, s) = [tx EXCEPT !.log = Append(tx.log, e)]
  BY DEF AppendEntry
<1> QED
  BY <1>1, <1>3, <1>4, <1>5 DEF TX, SameWork

LEMMA PlaceSubmissionIs ==
  ASSUME NEW tx \in TX, NEW s \in DOMAIN tx.sub, tx.sub[s].status = "queued",
         NEW entry \in Nat
  PROVE  LET new == PlaceSubmission(tx, s, entry)
         IN  /\ new \in TX /\ SameWork(tx, new) /\ new.log = tx.log /\ new.head = tx.head
             /\ DOMAIN new.sub = DOMAIN tx.sub
             /\ \A r \in DOMAIN tx.sub : r # s => new.sub[r] = tx.sub[r]
             /\ new.sub[s].mode = tx.sub[s].mode /\ new.sub[s].head = tx.sub[s].head
             /\ new.sub[s].answer = tx.sub[s].answer /\ new.sub[s].entry = entry
             /\ new.sub[s].status = IF tx.sub[s].mode = "write" THEN "done" ELSE "placed"
<1> DEFINE st == IF tx.sub[s].mode = "write" THEN "done" ELSE "placed"
           r  == [tx.sub[s] EXCEPT !.status = st, !.entry = entry]
<1>1. tx.sub \in Seq(SubSet) /\ tx.sub[s] \in SubSet
  BY DEF TX
<1>2. st \in {"done", "placed"}
  OBVIOUS
<1> HIDE DEF st
<1>3. /\ r \in SubSet /\ r.mode = tx.sub[s].mode /\ r.head = tx.sub[s].head
      /\ r.answer = tx.sub[s].answer /\ r.entry = entry /\ r.status = st
  BY <1>1, <1>2 DEF SubSet
<1>4. PICK ok \in BOOLEAN : ok = (tx.ok /\ tx.sub[s].status = "queued")
  OBVIOUS
<1>5. PlaceSubmission(tx, s, entry) = [tx EXCEPT !.ok = ok, !.sub = [tx.sub EXCEPT ![s] = r]]
  <2>1. PlaceSubmission(tx, s, entry) =
          [tx EXCEPT !.ok = tx.ok /\ tx.sub[s].status = "queued",
                     !.sub[s].status = st, !.sub[s].entry = entry]
    BY DEF PlaceSubmission, Settled, st
  <2> QED
    BY ZenonT(60), <1>1, <1>4, <2>1 DEF TX
<1> HIDE DEF r
<1>6. /\ [tx.sub EXCEPT ![s] = r] \in Seq(SubSet)
      /\ DOMAIN [tx.sub EXCEPT ![s] = r] = DOMAIN tx.sub
      /\ [tx.sub EXCEPT ![s] = r][s] = r
      /\ \A q \in DOMAIN tx.sub : q # s => [tx.sub EXCEPT ![s] = r][q] = tx.sub[q]
  BY <1>1, <1>3
<1> QED
  BY <1>3, <1>4, <1>5, <1>6 DEF TX, SameWork, st

LEMMA SameDomain ==
  ASSUME NEW S, NEW seq \in Seq(S), NEW T, NEW g, DOMAIN g = DOMAIN seq,
         g = [s \in DOMAIN g |-> g[s]], \A s \in DOMAIN seq : g[s] \in T
  PROVE  g \in Seq(T)
<1>1. Len(seq) \in Nat /\ DOMAIN seq = 1..Len(seq)
  OBVIOUS
<1>2. g \in [1..Len(seq) -> T]
  BY <1>1
<1> QED
  BY <1>1, <1>2

LEMMA LeaveUnansweredIs ==
  ASSUME NEW tx \in TX, NEW set
  PROVE  LET new == LeaveUnanswered(tx, set)
         IN  /\ new \in TX /\ SameWork(tx, new) /\ new.log = tx.log /\ new.head = tx.head
             /\ new.ok = tx.ok /\ DOMAIN new.sub = DOMAIN tx.sub
             /\ \A s \in DOMAIN tx.sub :
                  /\ new.sub[s].mode = tx.sub[s].mode /\ new.sub[s].head = tx.sub[s].head
                  /\ new.sub[s].entry = tx.sub[s].entry /\ new.sub[s].answer = tx.sub[s].answer
                  /\ IF s \in set /\ tx.sub[s].status \in {"queued", "placed"}
                     THEN new.sub[s].status = "unanswered"
                     ELSE new.sub[s] = tx.sub[s]
<1> DEFINE g == [s \in DOMAIN tx.sub |-> IF s \in Unsettled(tx, set)
                                         THEN [tx.sub[s] EXCEPT !.status = "unanswered"]
                                         ELSE tx.sub[s]]
<1>1. tx.sub \in Seq(SubSet) /\ \A s \in DOMAIN tx.sub : tx.sub[s] \in SubSet
  BY DEF TX
<1>2. ASSUME NEW s \in DOMAIN tx.sub
      PROVE  /\ g[s] \in SubSet
             /\ g[s].mode = tx.sub[s].mode /\ g[s].head = tx.sub[s].head
             /\ g[s].entry = tx.sub[s].entry /\ g[s].answer = tx.sub[s].answer
             /\ IF s \in set /\ tx.sub[s].status \in {"queued", "placed"}
                THEN g[s].status = "unanswered"
                ELSE g[s] = tx.sub[s]
  <2>1. s \in Unsettled(tx, set) <=> s \in set /\ tx.sub[s].status \in {"queued", "placed"}
    BY <1>1 DEF Unsettled, Settled, SubSet
  <2> QED
    BY <1>1, <2>1 DEF SubSet
<1>3. LeaveUnanswered(tx, set) = [tx EXCEPT !.sub = g]
  BY DEF LeaveUnanswered
<1>4. DOMAIN g = DOMAIN tx.sub /\ g = [s \in DOMAIN g |-> g[s]]
  OBVIOUS
<1> HIDE DEF g
<1>5. g \in Seq(SubSet)
  BY <1>1, <1>2, <1>4, SameDomain
<1> QED
  BY ZenonT(60), <1>2, <1>3, <1>4, <1>5 DEF TX, SameWork

LEMMA AnswerSubmissionsIs ==
  ASSUME NEW tx \in TX, NEW set, set \subseteq DOMAIN tx.sub, NEW answer \in Nat
  PROVE  LET new == AnswerSubmissions(tx, set, answer)
         IN  /\ new \in TX /\ SameWork(tx, new) /\ new.log = tx.log /\ new.head = tx.head
             /\ DOMAIN new.sub = DOMAIN tx.sub
             /\ \A s \in DOMAIN tx.sub :
                  /\ new.sub[s].mode = tx.sub[s].mode /\ new.sub[s].head = tx.sub[s].head
                  /\ new.sub[s].entry = tx.sub[s].entry
                  /\ IF s \in set /\ tx.sub[s].status \in {"queued", "placed"}
                     THEN new.sub[s].status = "done" /\ new.sub[s].answer = answer
                     ELSE new.sub[s] = tx.sub[s]
<1> DEFINE g == [s \in DOMAIN tx.sub |->
                   IF s \in Unsettled(tx, set)
                   THEN [tx.sub[s] EXCEPT !.status = "done", !.answer = answer]
                   ELSE tx.sub[s]]
<1>1. tx.sub \in Seq(SubSet) /\ \A s \in DOMAIN tx.sub : tx.sub[s] \in SubSet
  BY DEF TX
<1>2. ASSUME NEW s \in DOMAIN tx.sub
      PROVE  /\ g[s] \in SubSet
             /\ g[s].mode = tx.sub[s].mode /\ g[s].head = tx.sub[s].head
             /\ g[s].entry = tx.sub[s].entry
             /\ IF s \in set /\ tx.sub[s].status \in {"queued", "placed"}
                THEN g[s].status = "done" /\ g[s].answer = answer
                ELSE g[s] = tx.sub[s]
  <2>1. s \in Unsettled(tx, set) <=> s \in set /\ tx.sub[s].status \in {"queued", "placed"}
    BY <1>1 DEF Unsettled, Settled, SubSet
  <2> QED
    BY <1>1, <2>1 DEF SubSet
<1>3. PICK ok \in BOOLEAN :
        ok = (tx.ok /\ \A s \in Unsettled(tx, set) : tx.sub[s].status = "placed")
  OBVIOUS
<1>4. AnswerSubmissions(tx, set, answer) = [tx EXCEPT !.ok = ok, !.sub = g]
  BY <1>3 DEF AnswerSubmissions, TX
<1>5. DOMAIN g = DOMAIN tx.sub /\ g = [s \in DOMAIN g |-> g[s]]
  OBVIOUS
<1> HIDE DEF g
<1>6. g \in Seq(SubSet)
  BY <1>1, <1>2, <1>5, SameDomain
<1> QED
  BY ZenonT(60), <1>2, <1>3, <1>4, <1>5, <1>6 DEF TX, SameWork
-----------------------------------------------------------------------------
(* A boundary.                                                             *)

First(items, n) == {items[i] : i \in 1..n}

Reset(record) == record.mode = "write" /\ record.head = SelfHead

\* What tx has become when the first n items are placed.
Progress(tx, items, n, new) ==
  /\ new \in TX /\ SameWork(tx, new) /\ Written(new.log, new.sub)
  /\ new.head <= Len(new.log) /\ Above(new.log, new.head)
  /\ Len(tx.log) <= Len(new.log) /\ \A i \in DOMAIN tx.log : new.log[i] = tx.log[i]
  /\ DOMAIN new.sub = DOMAIN tx.sub
  /\ \A s \in DOMAIN tx.sub :
       /\ new.sub[s].mode = tx.sub[s].mode /\ new.sub[s].head = tx.sub[s].head
       /\ s \notin First(items, n) => new.sub[s] = tx.sub[s]
       /\ s \in First(items, n) =>
            IF tx.sub[s].mode = "write" THEN new.sub[s].status \in {"done", "unanswered"}
            ELSE /\ new.sub[s].status = "placed" /\ Len(tx.log) < new.sub[s].entry
                 /\ \A i \in DOMAIN new.log : new.sub[s].entry < i => new.log[i].head = NoHead
  /\ \A i \in DOMAIN new.log : Len(tx.log) < i /\ new.log[i].head = i
       => \E m \in 1..n : Reset(tx.sub[items[m]])

LEMMA FirstOf ==
  ASSUME NEW items, NEW n \in Nat, n # 0
  PROVE  First(items, n) = First(items, n - 1) \cup {items[n]}
<1>1. \A i \in 1..n : i = n \/ i \in 1..(n - 1)
  OBVIOUS
<1>2. n \in 1..n /\ \A i \in 1..(n - 1) : i \in 1..n
  OBVIOUS
<1> QED
  BY <1>1, <1>2 DEF First

\* What is known of the next item when those before it are placed.
LEMMA NextItem ==
  ASSUME NEW tx \in TX, Written(tx.log, tx.sub), NEW items, Takes(tx, items),
         NEW n \in 1..Len(items), NEW old, Progress(tx, items, n - 1, old)
  PROVE  LET x == items[n]
         IN  /\ x \in DOMAIN tx.sub /\ x \in Nat \ {0} /\ x \notin First(items, n - 1)
             /\ First(items, n) = First(items, n - 1) \cup {x}
             /\ old.sub[x] = tx.sub[x] /\ tx.sub[x].status = "queued"
             /\ tx.sub[x].entry = 0 /\ tx.sub[x].answer = 0
             /\ tx.sub[x].head <= Len(tx.log)
             /\ \A s \in DOMAIN old.sub : s # x /\ old.sub[s].mode = tx.sub[x].mode =>
                  /\ s < x => old.sub[s].status # "queued"
                  /\ x < s => old.sub[s].entry = 0
             /\ tx.sub[x].mode = "write" =>
                  \A s \in First(items, n - 1) : tx.sub[s].mode = "write"
<1> DEFINE x == items[n]
<1>1. items \in Seq(Nat) /\ n \in DOMAIN items /\ n \in Nat /\ n # 0
  BY DEF Takes
<1>2. x \in DOMAIN tx.sub /\ tx.sub[x].status = "queued" /\ tx.sub[x] \in SubSet /\ x \in Nat \ {0}
  BY <1>1 DEF Takes, TX
<1>3. \A m \in 1..(n - 1) : m \in DOMAIN items /\ m < n
  BY <1>1
<1>4. x \notin First(items, n - 1)
  <2>1. \A m \in 1..(n - 1) : items[m] # x
    BY <1>1, <1>3 DEF Takes
  <2> QED
    BY <2>1 DEF First
<1>5. old.sub[x] = tx.sub[x] /\ DOMAIN old.sub = DOMAIN tx.sub
  BY <1>2, <1>4 DEF Progress
<1>6. tx.sub[x].entry = 0 /\ tx.sub[x].answer = 0 /\ tx.sub[x].head <= Len(tx.log)
  BY <1>2 DEF Written, Statuses, Refs
<1>7. ASSUME NEW s \in DOMAIN old.sub, s # x, old.sub[s].mode = tx.sub[x].mode, s < x,
             old.sub[s].status = "queued"
      PROVE  FALSE
  <2>1. s \in DOMAIN tx.sub /\ old.sub[s].mode = tx.sub[s].mode
    BY <1>5, <1>7 DEF Progress
  <2>2. s \notin First(items, n - 1)
    BY <1>7, <2>1 DEF Progress
  <2>3. tx.sub[s].status = "queued"
    BY <1>7, <2>1, <2>2 DEF Progress
  <2>4. PICK m \in DOMAIN items : m < n /\ items[m] = s
    <3>1. s < items[n] /\ tx.sub[s].mode = tx.sub[items[n]].mode
      BY <1>7, <2>1
    <3> QED
      BY <1>1, <2>1, <2>3, <3>1 DEF Takes
  <2>5. m \in 1..(n - 1)
    BY <1>1, <2>4
  <2> QED
    BY <2>2, <2>4, <2>5 DEF First
<1>8. ASSUME NEW s \in DOMAIN old.sub, old.sub[s].mode = tx.sub[x].mode, x < s
      PROVE  old.sub[s].entry = 0
  <2>1. InOrder(old.sub)
    BY DEF Progress, Written
  <2> QED
    BY <1>2, <1>5, <1>8, <2>1 DEF InOrder
<1>9. ASSUME tx.sub[x].mode = "write", NEW m \in 1..(n - 1)
      PROVE  tx.sub[items[m]].mode = "write"
  BY <1>1, <1>3, <1>9 DEF Takes
<1> QED
  BY <1>1, <1>2, <1>4, <1>5, <1>6, <1>7, <1>8, <1>9, FirstOf DEF First

\* The next item enters the transcript.
LEMMA ItemAppended ==
  ASSUME NEW tx \in TX, Written(tx.log, tx.sub), NEW items, Takes(tx, items),
         NEW n \in 1..Len(items), NEW old, Progress(tx, items, n - 1, old),
         NEW x, x = items[n], NEW own \in Nat, own = Len(old.log) + 1,
         NEW e \in EntrySet, e.sub = x,
         e.head = NoHead \/ e.head = own \/ (e.head <= Len(old.log) /\ old.head <= e.head),
         NEW new \in TX, SameWork(old, new), new.log = Append(old.log, e),
         DOMAIN new.sub = DOMAIN old.sub,
         \A r \in DOMAIN old.sub : r # x => new.sub[r] = old.sub[r],
         new.sub[x].mode = old.sub[x].mode, new.sub[x].head = old.sub[x].head,
         new.sub[x].answer = old.sub[x].answer, new.sub[x].entry = own,
         new.sub[x].status = IF old.sub[x].mode = "write" THEN "done" ELSE "placed",
         new.head <= own, old.head <= new.head, e.head <= new.head,
         tx.sub[x].mode # "write" => e.head = NoHead,
         e.head = own => Reset(tx.sub[x])
  PROVE  Progress(tx, items, n, new)
<1>0. /\ old \in TX /\ SameWork(tx, old) /\ Written(old.log, old.sub)
      /\ old.head <= Len(old.log) /\ Above(old.log, old.head)
      /\ Len(tx.log) <= Len(old.log) /\ \A i \in DOMAIN tx.log : old.log[i] = tx.log[i]
      /\ DOMAIN old.sub = DOMAIN tx.sub
  BY DEF Progress
<1>1. /\ x \in DOMAIN tx.sub /\ x \in Nat \ {0} /\ x \notin First(items, n - 1)
      /\ First(items, n) = First(items, n - 1) \cup {x}
      /\ old.sub[x] = tx.sub[x] /\ tx.sub[x].status = "queued"
      /\ tx.sub[x].entry = 0 /\ tx.sub[x].answer = 0
      /\ tx.sub[x].head <= Len(tx.log)
      /\ \A s \in DOMAIN old.sub : s # x /\ old.sub[s].mode = tx.sub[x].mode =>
           /\ s < x => old.sub[s].status # "queued"
           /\ x < s => old.sub[s].entry = 0
      /\ tx.sub[x].mode = "write" =>
           \A s \in First(items, n - 1) : tx.sub[s].mode = "write"
  BY NextItem
<1>2. PICK l \in Nat, k \in Nat : l = Len(old.log) /\ k = Len(tx.log)
  <2>1. Len(old.log) \in Nat /\ Len(tx.log) \in Nat
    BY <1>0, Fields
  <2> QED
    BY <2>1
<1>3. own = l + 1 /\ k <= l
  BY <1>0, <1>2
<1>4. /\ DOMAIN new.log = 1..own /\ Len(new.log) = own /\ DOMAIN old.log = 1..l
      /\ new.log[own] = e /\ \A i \in 1..l : new.log[i] = old.log[i]
      /\ DOMAIN tx.log = 1..k
  <2>1. old.log \in Seq(EntrySet) /\ tx.log \in Seq(EntrySet)
    BY <1>0, Fields
  <2> QED
    BY <1>2, <1>3, <2>1, Lengthened
<1>5. \A i \in 1..own : i = own \/ i \in 1..l
  BY <1>3
<1>6. /\ e.head \in Nat /\ old.head \in Nat /\ new.head \in Nat
      /\ \A i \in 1..l : old.log[i].head \in Nat /\ old.log[i].head <= old.head
  <2>1. \A i \in 1..l : old.log[i].head \in Nat
    BY <1>0, <1>4, Fields
  <2>2. e.head \in Nat
    BY DEF EntrySet
  <2>3. old.head \in Nat /\ new.head \in Nat
    BY <1>0, Fields
  <2> QED
    BY <1>0, <1>4, <2>1, <2>2, <2>3 DEF Above
<1>7. Written(new.log, new.sub)
  <2>1. e.head = NoHead \/ e.head = own \/ (e.head <= Len(old.log) /\ Above(old.log, e.head))
    <3>1. ASSUME old.head <= e.head, NEW i \in 1..l  PROVE old.log[i].head <= e.head
      BY <1>6, <3>1
    <3> QED
      BY <1>4, <3>1 DEF Above
  <2>2. DOMAIN new.sub = DOMAIN old.sub \cup ({e.sub} \ {0})
    BY <1>0, <1>1
  <2>3. new.sub \in Seq(SubSet)
    BY DEF TX
  <2>4. /\ new.sub[x].entry = own /\ new.sub[x].answer = 0 /\ new.sub[x].head <= own
        /\ new.sub[x].status \in {"done", "placed"}
        /\ new.sub[x].status = "placed" => new.sub[x].mode # "write"
        /\ old.sub[x].entry = 0 /\ new.sub[x].mode = tx.sub[x].mode
    <3>1. tx.sub[x].head \in Int
      BY <1>1, Fields
    <3> QED
      BY <1>1, <1>2, <1>3, <3>1
  <2>5. PICK log2, sub2 : log2 = old.log /\ sub2 = old.sub
    OBVIOUS
  <2>6. PICK new2 : new2 = new.sub
    OBVIOUS
  <2>7. /\ Written(log2, sub2) /\ own = Len(log2) + 1
        /\ e.head = NoHead \/ e.head = own \/ (e.head <= Len(log2) /\ Above(log2, e.head))
        /\ new2 \in Seq(SubSet) /\ DOMAIN new2 = DOMAIN sub2 \cup ({e.sub} \ {0})
        /\ \A s \in DOMAIN sub2 : s # e.sub => new2[s] = sub2[s]
    BY <1>0, <2>1, <2>2, <2>3, <2>5, <2>6
  <2>8. /\ new2[e.sub].entry = own /\ new2[e.sub].answer = 0 /\ new2[e.sub].head <= own
        /\ new2[e.sub].status \in {"done", "placed"}
        /\ new2[e.sub].status = "placed" => new2[e.sub].mode # "write"
        /\ e.sub \in DOMAIN sub2 => sub2[e.sub].entry = 0
        /\ \A s \in DOMAIN sub2 : s # e.sub /\ sub2[s].mode = new2[e.sub].mode =>
             /\ s < e.sub => sub2[s].status # "queued"
             /\ e.sub < s => sub2[s].entry = 0
    <3>1. /\ new2[x].entry = own /\ new2[x].answer = 0 /\ new2[x].head <= own
          /\ new2[x].status \in {"done", "placed"}
          /\ new2[x].status = "placed" => new2[x].mode # "write"
          /\ sub2[x].entry = 0 /\ new2[x].mode = tx.sub[x].mode
      BY <2>4, <2>5, <2>6
    <3>2. \A s \in DOMAIN sub2 : s # x /\ sub2[s].mode = new2[x].mode =>
            /\ s < x => sub2[s].status # "queued"
            /\ x < s => sub2[s].entry = 0
      <4>1. \A s \in DOMAIN sub2 : s # x /\ sub2[s].mode = tx.sub[x].mode =>
              /\ s < x => sub2[s].status # "queued"
              /\ x < s => sub2[s].entry = 0
        BY <1>1, <2>5
      <4> QED
        BY <3>1, <4>1
    <3> QED
      BY <3>1, <3>2
  <2>9. Follows(log2, sub2, own, e, new2)
    BY <2>7, <2>8 DEF Follows
  <2>10. Written(Append(log2, e), new2)
    BY <2>7, <2>9, EntryWritten
  <2> QED
    BY <2>5, <2>6, <2>10
<1>8. Above(new.log, new.head)
  <2>1. ASSUME NEW i \in 1..own  PROVE new.log[i].head <= new.head
    BY SMTT(30), <1>4, <1>5, <1>6
  <2> QED
    BY <1>4, <2>1 DEF Above
<1>9. ASSUME NEW s \in DOMAIN tx.sub
      PROVE  /\ new.sub[s].mode = tx.sub[s].mode /\ new.sub[s].head = tx.sub[s].head
             /\ s \notin First(items, n) => new.sub[s] = tx.sub[s]
             /\ s \in First(items, n) =>
                  IF tx.sub[s].mode = "write" THEN new.sub[s].status \in {"done", "unanswered"}
                  ELSE /\ new.sub[s].status = "placed" /\ Len(tx.log) < new.sub[s].entry
                       /\ \A i \in DOMAIN new.log : new.sub[s].entry < i => new.log[i].head = NoHead
  <2>1. CASE s = x
    <3>1. k < own /\ \A i \in 1..own : ~ (own < i)
      BY <1>3
    <3> QED
      BY <1>1, <1>2, <1>4, <2>1, <3>1
  <2>2. CASE s # x
    <3>1. new.sub[s] = old.sub[s] /\ (s \in First(items, n) <=> s \in First(items, n - 1))
      BY <1>0, <1>1, <2>2
    <3>2. ASSUME s \in First(items, n - 1), tx.sub[s].mode # "write"
          PROVE  e.head = NoHead
      BY <1>1, <3>2
    <3>3. ASSUME s \in First(items, n - 1), tx.sub[s].mode # "write", NEW i \in DOMAIN new.log,
                 new.sub[s].entry < i
          PROVE  new.log[i].head = NoHead
      <4>1. CASE i = own
        BY <1>4, <3>2, <3>3, <4>1
      <4>2. CASE i \in 1..l
        BY SMTT(30), <1>4, <3>1, <3>3, <4>2 DEF Progress
      <4> QED
        BY <1>4, <1>5, <4>1, <4>2
    <3> QED
      BY <3>1, <3>3 DEF Progress
  <2> QED
    BY <2>1, <2>2
<1>10. ASSUME NEW i \in DOMAIN new.log, Len(tx.log) < i, new.log[i].head = i
       PROVE  \E m \in 1..n : Reset(tx.sub[items[m]])
  <2>0. n \in 1..n /\ \A m \in 1..(n - 1) : m \in 1..n
    BY DEF Takes
  <2>1. CASE i = own
    <3>1. Reset(tx.sub[items[n]])
      BY <1>4, <1>10, <2>1
    <3> QED
      BY <2>0, <3>1
  <2>2. CASE i \in 1..l
    <3>1. \E m \in 1..(n - 1) : Reset(tx.sub[items[m]])
      BY <1>4, <1>10, <2>2 DEF Progress
    <3> QED
      BY <2>0, <3>1
  <2> QED
    BY <1>4, <1>5, <2>1, <2>2
<1>11. SameWork(tx, new)
  BY <1>0 DEF SameWork
<1>12. /\ new.head <= Len(new.log) /\ Len(tx.log) <= Len(new.log)
       /\ \A i \in DOMAIN tx.log : new.log[i] = tx.log[i]
  <2>1. k <= own /\ \A i \in 1..k : i \in 1..l
    BY <1>3
  <2> QED
    BY <1>0, <1>2, <1>4, <2>1
<1> QED
  BY <1>0, <1>7, <1>8, <1>9, <1>10, <1>11, <1>12 DEF Progress

\* A write that is stale is left unanswered.
LEMMA ItemLeft ==
  ASSUME NEW tx \in TX, Written(tx.log, tx.sub), NEW items, Takes(tx, items),
         NEW n \in 1..Len(items), NEW old, Progress(tx, items, n - 1, old),
         NEW x, x = items[n], tx.sub[x].mode = "write",
         NEW new, new = LeaveUnanswered(old, {x})
  PROVE  Progress(tx, items, n, new)
<1>0. /\ old \in TX /\ SameWork(tx, old) /\ Written(old.log, old.sub)
      /\ DOMAIN old.sub = DOMAIN tx.sub
  BY DEF Progress
<1>1. /\ x \in DOMAIN tx.sub /\ x \in Nat \ {0} /\ x \notin First(items, n - 1)
      /\ First(items, n) = First(items, n - 1) \cup {x}
      /\ old.sub[x] = tx.sub[x] /\ tx.sub[x].status = "queued"
      /\ tx.sub[x].answer = 0
  BY NextItem
<1>2. /\ new \in TX /\ SameWork(old, new) /\ new.log = old.log /\ new.head = old.head
      /\ DOMAIN new.sub = DOMAIN old.sub
      /\ \A s \in DOMAIN old.sub :
           /\ new.sub[s].mode = old.sub[s].mode /\ new.sub[s].head = old.sub[s].head
           /\ new.sub[s].entry = old.sub[s].entry /\ new.sub[s].answer = old.sub[s].answer
           /\ IF s \in {x} /\ old.sub[s].status \in {"queued", "placed"}
              THEN new.sub[s].status = "unanswered"
              ELSE new.sub[s] = old.sub[s]
  BY <1>0, LeaveUnansweredIs
<1>9. \A s \in DOMAIN old.sub : s # x => new.sub[s] = old.sub[s]
  BY <1>2
<1>10. /\ new.sub[x].mode = tx.sub[x].mode /\ new.sub[x].head = tx.sub[x].head
       /\ new.sub[x].entry = tx.sub[x].entry /\ new.sub[x].answer = 0
       /\ new.sub[x].status = "unanswered"
  <2>1. x \in DOMAIN old.sub /\ x \in {x} /\ old.sub[x].status \in {"queued", "placed"}
    BY <1>0, <1>1
  <2>2. /\ new.sub[x].mode = old.sub[x].mode /\ new.sub[x].head = old.sub[x].head
        /\ new.sub[x].entry = old.sub[x].entry /\ new.sub[x].answer = old.sub[x].answer
    BY <1>2, <2>1
  <2>3. new.sub[x].status = "unanswered"
    BY <1>2, <2>1
  <2> QED
    BY <1>1, <2>2, <2>3
<1>3. PICK subs, news : subs = old.sub /\ news = new.sub
  OBVIOUS
<1>4. Written(old.log, news)
  <2>1. Written(old.log, subs) /\ news \in Seq(SubSet) /\ DOMAIN news = DOMAIN subs
    BY <1>0, <1>2, <1>3, Fields
  <2>2. ASSUME NEW s \in DOMAIN subs
        PROVE  \/ news[s] = subs[s]
               \/ /\ news[s].mode = subs[s].mode /\ news[s].head = subs[s].head
                  /\ news[s].entry = subs[s].entry /\ news[s].status \in {"done", "unanswered"}
                  /\ news[s].answer = 0
    BY ZenonT(60), <1>1, <1>3, <1>9, <1>10
  <2> QED
    BY <2>1, <2>2, RecordsSettled
<1>5. n \in 1..n /\ \A m \in 1..(n - 1) : m \in 1..n
  BY DEF Takes
<1>6. ASSUME NEW s \in DOMAIN tx.sub
      PROVE  /\ new.sub[s].mode = tx.sub[s].mode /\ new.sub[s].head = tx.sub[s].head
             /\ s \notin First(items, n) => new.sub[s] = tx.sub[s]
             /\ s \in First(items, n) =>
                  IF tx.sub[s].mode = "write" THEN new.sub[s].status \in {"done", "unanswered"}
                  ELSE /\ new.sub[s].status = "placed" /\ Len(tx.log) < new.sub[s].entry
                       /\ \A i \in DOMAIN new.log : new.sub[s].entry < i => new.log[i].head = NoHead
  <2>1. CASE s = x
    BY <1>1, <1>10, <2>1
  <2>2. CASE s # x
    <3>1. new.sub[s] = old.sub[s] /\ (s \in First(items, n) <=> s \in First(items, n - 1))
      BY <1>0, <1>1, <1>9, <2>2
    <3>2. PICK entries : entries = old.log /\ entries = new.log
      BY <1>2
    <3>3. /\ old.sub[s].mode = tx.sub[s].mode /\ old.sub[s].head = tx.sub[s].head
          /\ s \notin First(items, n - 1) => old.sub[s] = tx.sub[s]
          /\ s \in First(items, n - 1) =>
               IF tx.sub[s].mode = "write" THEN old.sub[s].status \in {"done", "unanswered"}
               ELSE /\ old.sub[s].status = "placed" /\ Len(tx.log) < old.sub[s].entry
                    /\ \A i \in DOMAIN entries : old.sub[s].entry < i => entries[i].head = NoHead
      BY ZenonT(60), <3>2 DEF Progress
    <3> QED
      BY <3>1, <3>2, <3>3
  <2> QED
    BY <2>1, <2>2
<1>7. SameWork(tx, new)
  BY <1>0, <1>2 DEF SameWork
<1>8. ASSUME NEW i \in DOMAIN new.log, Len(tx.log) < i, new.log[i].head = i
      PROVE  \E m \in 1..n : Reset(tx.sub[items[m]])
  <2>1. new.log = old.log
    BY <1>2
  <2>2. \E m \in 1..(n - 1) : Reset(tx.sub[items[m]])
    BY <1>8, <2>1 DEF Progress
  <2> QED
    BY <1>5, <2>2
<1>11. /\ Written(new.log, new.sub)
       /\ new.head <= Len(new.log) /\ Above(new.log, new.head)
       /\ Len(tx.log) <= Len(new.log) /\ \A i \in DOMAIN tx.log : new.log[i] = tx.log[i]
  BY <1>2, <1>3, <1>4 DEF Progress
<1> QED
  BY <1>0, <1>2, <1>6, <1>7, <1>8, <1>11 DEF Progress

LEMMA ItemPlaced ==
  ASSUME NEW tx \in TX, Written(tx.log, tx.sub), NEW items, Takes(tx, items),
         NEW n \in 1..Len(items), NEW old, Progress(tx, items, n - 1, old)
  PROVE  Progress(tx, items, n, PlaceItem(old, items[n]))
<1>1. PICK x : x = items[n]
  OBVIOUS
<1>2. /\ old \in TX /\ DOMAIN old.sub = DOMAIN tx.sub
      /\ old.head <= Len(old.log) /\ Len(tx.log) <= Len(old.log)
  BY DEF Progress
<1>3. /\ x \in DOMAIN tx.sub /\ x \in Nat \ {0} /\ old.sub[x] = tx.sub[x]
      /\ tx.sub[x].status = "queued" /\ tx.sub[x].head <= Len(tx.log)
  BY SMTT(30), <1>1, NextItem
<1>4. PICK own \in Nat : own = Len(old.log) + 1
  BY <1>2, Fields
<1>5. /\ tx.sub[x].head \in Nat \cup {SelfHead} /\ tx.sub[x].head \in Int /\ old.head \in Nat
      /\ Len(old.log) \in Nat /\ Len(tx.log) \in Nat
  BY <1>2, <1>3, Fields
<1>6. old.head <= own /\ NoHead <= old.head /\ SelfHead \notin Nat /\ NoHead \in Nat
  BY <1>2, <1>4, <1>5 DEF NoHead, SelfHead
\* An entry with this head, and the submission placed by it.
<1> DEFINE mid(kind, head)    == AppendEntry(old, kind, head, x)
           placed(kind, head) == PlaceSubmission(mid(kind, head), x, own)
           h(head)            == IF head = SelfHead THEN own ELSE head
           e(kind, head)      == Entry(kind, h(head), x)
<1>7. ASSUME NEW kind \in {"user", "write"}, NEW head \in Nat \cup {SelfHead}
      PROVE  LET new == placed(kind, head)
             IN  /\ new \in TX /\ SameWork(old, new) /\ new.log = Append(old.log, e(kind, head))
                 /\ e(kind, head) \in EntrySet /\ e(kind, head).sub = x
                 /\ e(kind, head).head = h(head) /\ new.head = old.head
                 /\ DOMAIN new.sub = DOMAIN old.sub
                 /\ \A r \in DOMAIN old.sub : r # x => new.sub[r] = old.sub[r]
                 /\ new.sub[x].mode = old.sub[x].mode /\ new.sub[x].head = old.sub[x].head
                 /\ new.sub[x].answer = old.sub[x].answer /\ new.sub[x].entry = own
                 /\ new.sub[x].status = IF old.sub[x].mode = "write" THEN "done" ELSE "placed"
  <2>1. PICK m : m = mid(kind, head)
    OBVIOUS
  <2>2. /\ m \in TX /\ SameWork(old, m) /\ m.sub = old.sub /\ m.head = old.head
        /\ m.log = Append(old.log, e(kind, head))
        /\ e(kind, head) \in EntrySet /\ e(kind, head).sub = x /\ e(kind, head).head = h(head)
    <3>1. kind \in Kinds /\ x \in Nat
      BY <1>3, <1>7 DEF Kinds
    <3>2. PICK g, f : g = h(head) /\ f = e(kind, head)
      OBVIOUS
    <3>3. g = IF head = SelfHead THEN own ELSE head
      BY <3>2
    <3>4. f = Entry(kind, g, x) /\ m = AppendEntry(old, kind, head, x)
      BY <2>1, <3>2
    <3> HIDE DEF h, e, mid, placed
    <3>5. /\ m \in TX /\ SameWork(old, m) /\ m.sub = old.sub /\ m.head = old.head
          /\ m.log = Append(old.log, f) /\ f \in EntrySet /\ f.sub = x /\ f.head = g
      BY SMTT(30), <1>2, <1>4, <1>7, <3>1, <3>3, <3>4, AppendEntryIs
    <3> QED
      BY <3>2, <3>5
  <2>3. PICK new : new = PlaceSubmission(m, x, own)
    OBVIOUS
  <2>4. /\ new \in TX /\ SameWork(m, new) /\ new.log = m.log /\ new.head = m.head
        /\ DOMAIN new.sub = DOMAIN m.sub
        /\ \A r \in DOMAIN m.sub : r # x => new.sub[r] = m.sub[r]
        /\ new.sub[x].mode = m.sub[x].mode /\ new.sub[x].head = m.sub[x].head
        /\ new.sub[x].answer = m.sub[x].answer /\ new.sub[x].entry = own
        /\ new.sub[x].status = IF m.sub[x].mode = "write" THEN "done" ELSE "placed"
    <3>1. x \in DOMAIN m.sub /\ m.sub[x].status = "queued"
      BY <1>2, <1>3, <2>2
    <3> QED
      BY SMTT(30), <2>2, <2>3, <3>1, PlaceSubmissionIs
  <2>5. SameWork(old, new)
    BY <2>2, <2>4 DEF SameWork
  <2>6. new = placed(kind, head)
    BY <2>1, <2>3
  <2> HIDE DEF e, placed
  <2> QED
    BY <2>2, <2>4, <2>5, <2>6
<1> HIDE DEF placed, e
<1>8. CASE tx.sub[x].mode # "write"
  <2>1. PICK new : new = placed("user", NoHead)
    OBVIOUS
  <2>2. PlaceItem(old, x) = new
    BY <1>3, <1>4, <1>8, <2>1 DEF PlaceItem, PlaceUser, placed
  <2>3. PICK f : f = e("user", NoHead)
    OBVIOUS
  <2>4. /\ new \in TX /\ SameWork(old, new) /\ new.log = Append(old.log, f)
        /\ f \in EntrySet /\ f.sub = x /\ f.head = NoHead /\ new.head = old.head
        /\ DOMAIN new.sub = DOMAIN old.sub
        /\ \A r \in DOMAIN old.sub : r # x => new.sub[r] = old.sub[r]
        /\ new.sub[x].mode = old.sub[x].mode /\ new.sub[x].head = old.sub[x].head
        /\ new.sub[x].answer = old.sub[x].answer /\ new.sub[x].entry = own
        /\ new.sub[x].status = IF old.sub[x].mode = "write" THEN "done" ELSE "placed"
    <3>1. h(NoHead) = NoHead
      BY DEF NoHead, SelfHead
    <3> HIDE DEF h
    <3> QED
      BY <1>6, <1>7, <2>1, <2>3, <3>1
  <2>5. old.head <= new.head /\ f.head # own
    BY <1>4, <1>5, <2>4 DEF NoHead
  <2>6. Progress(tx, items, n, new)
    BY ZenonT(60), <1>1, <1>4, <1>6, <1>8, <2>4, <2>5, ItemAppended
  <2> QED
    BY <1>1, <2>2, <2>6
<1>9. CASE tx.sub[x].mode = "write" /\ Stale(old, old.sub[x])
  <2>1. PlaceItem(old, x) = LeaveUnanswered(old, {x})
    BY <1>3, <1>9 DEF PlaceItem, PlaceWrite
  <2>2. PICK new : new = LeaveUnanswered(old, {x})
    OBVIOUS
  <2>3. Progress(tx, items, n, new)
    BY <1>1, <1>9, <2>2, ItemLeft
  <2> QED
    BY <1>1, <2>1, <2>2, <2>3
<1>10. CASE tx.sub[x].mode = "write" /\ ~ Stale(old, old.sub[x])
  <2>1. PICK head \in Nat \cup {SelfHead} : head = tx.sub[x].head
    BY <1>5
  <2>2. PICK mid2 : mid2 = placed("write", head)
    OBVIOUS
  <2>3. PICK f : f = e("write", head)
    OBVIOUS
  <2>4. PICK above \in Nat : above = CASE head = NoHead -> old.head
                                       [] head = SelfHead -> own
                                       [] OTHER -> head
    <3>1. CASE head = NoHead
      BY <1>5, <3>1
    <3>2. CASE head = SelfHead
      BY <1>4, <3>2 DEF NoHead, SelfHead
    <3>3. CASE head # NoHead /\ head # SelfHead
      BY <3>3
    <3> QED
      BY <3>1, <3>2, <3>3
  <2>5. PICK new : new = [mid2 EXCEPT !.head = above]
    OBVIOUS
  <2>6. /\ mid2 \in TX /\ SameWork(old, mid2) /\ mid2.log = Append(old.log, f)
        /\ f \in EntrySet /\ f.sub = x /\ f.head = h(head) /\ mid2.head = old.head
        /\ DOMAIN mid2.sub = DOMAIN old.sub
        /\ \A r \in DOMAIN old.sub : r # x => mid2.sub[r] = old.sub[r]
        /\ mid2.sub[x].mode = old.sub[x].mode /\ mid2.sub[x].head = old.sub[x].head
        /\ mid2.sub[x].answer = old.sub[x].answer /\ mid2.sub[x].entry = own
        /\ mid2.sub[x].status = IF old.sub[x].mode = "write" THEN "done" ELSE "placed"
    <3> HIDE DEF h
    <3> QED
      BY <1>7, <2>2, <2>3
  <2>7. PlaceItem(old, x) = new
    <3>1. PlaceItem(old, x) =
            [placed("write", head) EXCEPT !.head = CASE head = NoHead   -> @
                                                     [] head = SelfHead -> own
                                                     [] OTHER           -> head]
      BY <1>3, <1>4, <1>10, <2>1 DEF PlaceItem, PlaceWrite, placed
    <3> QED
      BY <2>2, <2>4, <2>5, <2>6, <3>1
  <2>8. /\ new \in TX /\ SameWork(old, new) /\ new.log = mid2.log /\ new.sub = mid2.sub
        /\ new.head = above
    BY <2>4, <2>5, <2>6 DEF TX, SameWork
  <2>9. /\ f.head = NoHead \/ f.head = own \/ (f.head <= Len(old.log) /\ old.head <= f.head)
        /\ new.head <= own /\ old.head <= new.head /\ f.head <= new.head
        /\ f.head = own => Reset(tx.sub[x])
    <3>1. CASE head = NoHead
      <4>1. f.head = 0 /\ new.head = old.head
        BY <2>4, <2>6, <2>8, <3>1 DEF NoHead, SelfHead
      <4> QED
        BY <1>2, <1>4, <1>5, <1>6, <4>1 DEF NoHead
    <3>2. CASE head = SelfHead
      <4>1. f.head = own /\ new.head = own
        BY <2>4, <2>6, <2>8, <3>2 DEF NoHead, SelfHead
      <4>2. Reset(tx.sub[x])
        BY <1>10, <2>1, <3>2 DEF Reset
      <4> QED
        BY <1>4, <1>5, <1>6, <4>1, <4>2
    <3>3. CASE head # NoHead /\ head # SelfHead
      <4>1. f.head = head /\ new.head = head /\ head \in Nat /\ head > NoHead
        BY <2>1, <2>4, <2>6, <2>8, <3>3 DEF NoHead
      <4>2. old.head <= head
        BY <1>3, <1>5, <1>10, <2>1, <4>1 DEF Stale
      <4>3. head <= Len(old.log)
        BY <1>2, <1>3, <1>5, <2>1, <4>1
      <4> QED
        BY <1>4, <1>5, <4>1, <4>2, <4>3
    <3> QED
      BY <3>1, <3>2, <3>3
  <2>10. Progress(tx, items, n, new)
    BY ZenonT(60), <1>1, <1>4, <1>10, <2>6, <2>8, <2>9, ItemAppended
  <2> QED
    BY <1>1, <2>7, <2>10
<1> QED
  BY <1>8, <1>9, <1>10

\* A head that a boundary may go by.
HeadKnown(tx) == tx.head <= Len(tx.log) /\ Above(tx.log, tx.head)

LEMMA ItemsPlaced ==
  ASSUME NEW tx \in TX, Written(tx.log, tx.sub), HeadKnown(tx), NEW items, Takes(tx, items)
  PROVE  Progress(tx, items, Len(items), Placing(tx, items)[Len(items)])
<1>1. PICK len \in Nat : len = Len(items)
  BY DEF Takes
<1>2. PICK f : f = Placing(tx, items)
  OBVIOUS
<1>3. f[0] = tx /\ \A n \in 1..len : f[n] = PlaceItem(f[n - 1], items[n])
  BY <1>1, <1>2, PlacingSteps
<1> DEFINE U == {n \in 0..len : ~ Progress(tx, items, n, f[n])}
<1>4. Progress(tx, items, 0, f[0])
  <2>1. First(items, 0) = {}
    BY DEF First
  <2>2. \A i \in DOMAIN tx.log : ~ (Len(tx.log) < i)
    BY Fields
  <2>3. SameWork(tx, tx) /\ Len(tx.log) <= Len(tx.log)
    BY Fields DEF SameWork
  <2> QED
    BY <1>3, <2>1, <2>2, <2>3 DEF Progress, HeadKnown
<1>5. U = {}
  <2>1. SUFFICES ASSUME U # {}  PROVE FALSE
    OBVIOUS
  <2>2. PICK m \in U : \A k \in Nat : k < m => k \notin U
    <3>1. U \subseteq Nat
      OBVIOUS
    <3> HIDE DEF U
    <3> QED
      BY <2>1, <3>1, LeastOf
  <2>3. m # 0
    BY <1>4, <2>2
  <2>4. m - 1 \in 0..len /\ m - 1 < m /\ m \in 1..len /\ m - 1 \in Nat
    BY <1>1, <2>2, <2>3
  <2>5. Progress(tx, items, m - 1, f[m - 1])
    BY <2>2, <2>4
  <2>6. PICK old : old = f[m - 1]
    OBVIOUS
  <2>7. Progress(tx, items, m, PlaceItem(old, items[m]))
    BY <1>1, <2>4, <2>5, <2>6, ItemPlaced
  <2> QED
    BY <1>3, <2>2, <2>4, <2>6, <2>7
<1> QED
  BY <1>1, <1>2, <1>5

\* What a boundary makes of a transaction: the queue is matched again, and the
\* inputs it took are placed behind every entry that cuts the history off.
Boundary(tx, new, users, reset) ==
  /\ new \in TX /\ Written(new.log, new.sub) /\ Queue(new.sub, new.inbox) /\ HeadKnown(new)
  /\ new.run = tx.run /\ new.gens = tx.gens /\ new.comps = tx.comps /\ new.listed = tx.listed
  /\ Len(tx.log) <= Len(new.log) /\ \A i \in DOMAIN tx.log : new.log[i] = tx.log[i]
  /\ \A i \in DOMAIN new.log : Len(tx.log) < i /\ new.log[i].head = i => reset
  /\ DOMAIN new.sub = DOMAIN tx.sub
  /\ \A s \in DOMAIN tx.sub :
       /\ tx.sub[s].status # "queued" => new.sub[s] = tx.sub[s]
       /\ s \in ToSet(users) =>
            /\ tx.sub[s].status = "queued" /\ new.sub[s].status = "placed"
            /\ Len(tx.log) < new.sub[s].entry
            /\ Open(new.log, new.sub[s].entry, Len(new.log) + 1)
  /\ Placed(new.sub) = Placed(tx.sub) \cup ToSet(users)
  /\ users \in Seq(Nat) /\ IsInjective(users) /\ ToSet(users) \cap Placed(tx.sub) = {}

LEMMA BoundaryIs ==
  ASSUME NEW tx \in TX, Written(tx.log, tx.sub), HeadKnown(tx), Queue(tx.sub, tx.inbox),
         NEW at, NEW modes
  PROVE  LET b == ApplyBoundary(tx, at, modes)
         IN  /\ Boundary(tx, b.tx, b.users, b.reset)
             /\ b.reset = HasReset(tx)
             /\ ToSet(b.users) \subseteq Chosen(tx, at, modes)
<1>1. PICK writes, users : /\ writes = OfMode(tx, "write")
                           /\ users = Selected(tx.inbox, Chosen(tx, at, modes))
  OBVIOUS
<1>2. /\ Takes(tx, writes \o users)
      /\ writes \in Seq(Nat) /\ users \in Seq(Nat) /\ IsInjective(users)
      /\ \A i \in DOMAIN writes : tx.sub[writes[i]].mode = "write"
      /\ \A i \in DOMAIN users : /\ tx.sub[users[i]].mode # "write"
                                 /\ users[i] \in Chosen(tx, at, modes)
  BY ZenonT(60), <1>1, BoundaryTakes
<1>3. PICK items : items = writes \o users
  OBVIOUS
<1>4. PICK w \in Nat, u \in Nat : w = Len(writes) /\ u = Len(users)
  <2>1. Len(writes) \in Nat /\ Len(users) \in Nat
    BY <1>2
  <2> QED
    BY <2>1
<1>5. /\ items \in Seq(Nat) /\ Len(items) = w + u /\ DOMAIN items = 1..(w + u)
      /\ \A i \in 1..w : items[i] = writes[i]
      /\ \A i \in 1..u : items[w + i] = users[i]
      /\ DOMAIN writes = 1..w /\ DOMAIN users = 1..u
  BY <1>2, <1>3, <1>4, ConcatProperties
<1>6. PICK last : last = Placing(tx, items)[Len(items)]
  OBVIOUS
<1>7. Progress(tx, items, Len(items), last)
  BY <1>2, <1>3, <1>6, ItemsPlaced
<1>8. /\ First(items, Len(items)) = ToSet(items)
      /\ \A m \in 1..Len(items) : m \in DOMAIN items
  BY <1>5 DEF First, ToSet
<1>9. PICK inbox2 : inbox2 = Selected(tx.inbox, DOMAIN tx.sub \ ToSet(items))
  OBVIOUS
<1>10. tx.inbox \in Seq(Nat) /\ Rises(tx.inbox)
  BY DEF TX, Queue, Rises
<1>11. /\ inbox2 \in Seq(Nat) /\ Rises(inbox2)
       /\ ToSet(inbox2) = ToSet(tx.inbox) \cap (DOMAIN tx.sub \ ToSet(items))
  BY <1>9, <1>10, SelectedIs
<1>12. PICK new : new = [last EXCEPT !.inbox = inbox2]
  OBVIOUS
<1>13. /\ last \in TX /\ SameWork(tx, last) /\ Written(last.log, last.sub)
       /\ HeadKnown(last) /\ DOMAIN last.sub = DOMAIN tx.sub
       /\ Len(tx.log) <= Len(last.log) /\ \A i \in DOMAIN tx.log : last.log[i] = tx.log[i]
  BY <1>7 DEF Progress, HeadKnown
<1>14. /\ new \in TX /\ new.log = last.log /\ new.sub = last.sub /\ new.inbox = inbox2
       /\ new.head = last.head
       /\ new.run = tx.run /\ new.gens = tx.gens /\ new.comps = tx.comps /\ new.listed = tx.listed
  BY <1>11, <1>12, <1>13 DEF TX, SameWork
<1>15. \A s \in DOMAIN tx.sub :
         /\ s \notin ToSet(items) => new.sub[s] = tx.sub[s]
         /\ s \in ToSet(items) =>
              IF tx.sub[s].mode = "write" THEN new.sub[s].status \in {"done", "unanswered"}
              ELSE /\ new.sub[s].status = "placed" /\ Len(tx.log) < new.sub[s].entry
                   /\ \A i \in DOMAIN new.log : new.sub[s].entry < i => new.log[i].head = NoHead
  BY <1>7, <1>8, <1>14 DEF Progress
<1>16. ToSet(items) \subseteq DOMAIN tx.sub /\ \A s \in ToSet(items) : tx.sub[s].status = "queued"
  BY SMTT(30), <1>2, <1>3 DEF Takes, ToSet
<1>17. \A s \in ToSet(users) : s \in ToSet(items) /\ tx.sub[s].mode # "write"
  <2>1. ASSUME NEW i \in DOMAIN users
        PROVE  users[i] \in ToSet(items)
    <3>1. PICK j \in Nat : j = i /\ 1 <= j /\ j <= u
      BY <1>4, <1>5
    <3>2. w + j \in 1..(w + u) /\ j \in 1..u
      BY <3>1
    <3>3. w + i \in DOMAIN items /\ items[w + i] = users[i]
      BY <1>5, <3>1, <3>2
    <3> QED
      BY <3>3 DEF ToSet
  <2> QED
    BY <1>2, <2>1 DEF ToSet
<1>18. \A s \in ToSet(items) : s \in ToSet(users) \/ tx.sub[s].mode = "write"
  <2>1. ASSUME NEW n \in DOMAIN items
        PROVE  items[n] \in ToSet(users) \/ tx.sub[items[n]].mode = "write"
    <3>1. CASE n <= w
      <4>1. n \in 1..w
        BY <1>4, <1>5, <3>1
      <4> QED
        BY <1>2, <1>5, <4>1
    <3>2. CASE ~ (n <= w)
      <4>1. n - w \in 1..u /\ n = w + (n - w)
        BY <1>4, <1>5, <3>2
      <4> QED
        BY <1>5, <4>1 DEF ToSet
    <3> QED
      BY <3>1, <3>2
  <2> QED
    BY <2>1 DEF ToSet
<1>19. Queue(new.sub, new.inbox)
  <2>1. ToSet(tx.inbox) = {s \in DOMAIN tx.sub : tx.sub[s].status = "queued"}
    BY DEF Queue
  <2>2. ASSUME NEW s \in DOMAIN tx.sub
        PROVE  new.sub[s].status = "queued" <=> tx.sub[s].status = "queued" /\ s \notin ToSet(items)
    BY <1>15
  <2> QED
    BY <1>11, <1>13, <1>14, <2>1, <2>2 DEF Queue
<1>20. Placed(new.sub) = Placed(tx.sub) \cup ToSet(users)
  <2>1. ASSUME NEW s \in DOMAIN tx.sub
        PROVE  new.sub[s].status = "placed" <=> tx.sub[s].status = "placed" \/ s \in ToSet(users)
    BY <1>15, <1>16, <1>17, <1>18
  <2> QED
    BY <1>13, <1>14, <1>16, <1>17, <2>1 DEF Placed
<1>21. ASSUME NEW s \in ToSet(users)
       PROVE  Open(new.log, new.sub[s].entry, Len(new.log) + 1)
  <2>1. ASSUME NEW i \in DOMAIN new.log, new.sub[s].entry < i
        PROVE  new.log[i].head # i
    <3>1. new.log[i].head = NoHead
      BY <1>15, <1>16, <1>17, <2>1
    <3>2. i # 0
      BY <1>14, Fields
    <3> QED
      BY <3>1, <3>2 DEF NoHead
  <2> QED
    BY <2>1 DEF Open
<1>22. ASSUME NEW i \in DOMAIN new.log, Len(tx.log) < i, new.log[i].head = i
       PROVE  HasReset(tx)
  <2>1. PICK m \in 1..Len(items) : Reset(tx.sub[items[m]])
    BY <1>7, <1>14, <1>22 DEF Progress
  <2>2. items[m] \in ToSet(tx.inbox)
    BY <1>8, <1>16 DEF Queue, ToSet
  <2> QED
    BY <2>1, <2>2 DEF HasReset, Reset
<1>23. ToSet(users) \subseteq Chosen(tx, at, modes)
  BY <1>2 DEF ToSet
<1>24. /\ ApplyBoundary(tx, at, modes).tx = new /\ ApplyBoundary(tx, at, modes).users = users
       /\ ApplyBoundary(tx, at, modes).reset = HasReset(tx)
  BY <1>1, <1>3, <1>6, <1>9, <1>12 DEF ApplyBoundary
<1>25. Boundary(tx, new, users, HasReset(tx))
  <2>1. /\ HeadKnown(new) /\ Written(new.log, new.sub)
        /\ Len(tx.log) <= Len(new.log) /\ \A i \in DOMAIN tx.log : new.log[i] = tx.log[i]
    BY <1>13, <1>14 DEF HeadKnown
  <2>2. DOMAIN new.sub = DOMAIN tx.sub
    BY <1>13, <1>14
  <2>3. \A s \in DOMAIN tx.sub :
          /\ tx.sub[s].status # "queued" => new.sub[s] = tx.sub[s]
          /\ s \in ToSet(users) =>
               /\ tx.sub[s].status = "queued" /\ new.sub[s].status = "placed"
               /\ Len(tx.log) < new.sub[s].entry
               /\ Open(new.log, new.sub[s].entry, Len(new.log) + 1)
    BY <1>15, <1>16, <1>17, <1>21
  <2>4. ToSet(users) \cap Placed(tx.sub) = {}
    BY <1>16, <1>17 DEF Placed
  <2> QED
    BY <1>2, <1>14, <1>19, <1>20, <1>22, <2>1, <2>2, <2>3, <2>4 DEF Boundary
<1> QED
  BY <1>23, <1>24, <1>25
-----------------------------------------------------------------------------
(* The start of a commit.                                                  *)

LEMMA MaxIs ==
  ASSUME NEW S, S \subseteq Nat, S # {}, NEW bound \in Nat, \A i \in S : i <= bound
  PROVE  Max(S) \in S /\ \A i \in S : i <= Max(S)
<1> DEFINE Bounds == {n \in Nat : \A i \in S : i <= n}
<1>1. PICK n \in Bounds : \A m \in Nat : m < n => m \notin Bounds
  <2>1. Bounds \subseteq Nat /\ Bounds # {}
    OBVIOUS
  <2> HIDE DEF Bounds
  <2> QED
    BY <2>1, LeastOf
<1>2. n \in S
  <2>1. SUFFICES ASSUME n \notin S  PROVE FALSE
    OBVIOUS
  <2>2. PICK i \in S : TRUE
    OBVIOUS
  <2>3. i \in Nat /\ i < n /\ n \in Nat
    BY <1>1, <2>1
  <2>4. PICK m \in Nat : n = m + 1
    BY <2>3
  <2>5. \A j \in S : j <= m
    BY <1>1, <2>1, <2>4
  <2> QED
    BY <1>1, <2>4, <2>5
<1>3. n \in S /\ \A i \in S : n >= i
  BY <1>1, <1>2
<1>4. PICK top : top = Max(S)
  OBVIOUS
<1>5. top \in S /\ \A i \in S : top >= i
  BY <1>3, <1>4 DEF Max
<1> QED
  BY <1>4, <1>5

LEMMA ActiveHeadIs ==
  ASSUME NEW entries, NEW subs, Written(entries, subs)
  PROVE  /\ ActiveHead(entries) \in Nat /\ ActiveHead(entries) <= Len(entries)
         /\ Above(entries, ActiveHead(entries))
<1> DEFINE marks == {i \in DOMAIN entries : entries[i].head # NoHead}
<1>1. PICK l \in Nat : l = Len(entries) /\ DOMAIN entries = 1..l
  BY DEF Written
<1>2. \A i \in 1..l : entries[i].head \in Nat /\ entries[i].head <= i
  <2>1. \A i \in 1..l : entries[i] \in EntrySet
    BY <1>1 DEF Written
  <2> QED
    BY <1>1, <2>1 DEF Written, Refs, EntrySet
<1>3. CASE marks = {}
  <2>1. ActiveHead(entries) = 0
    BY <1>3 DEF ActiveHead, NoHead
  <2>2. \A i \in DOMAIN entries : entries[i].head <= 0
    BY <1>3 DEF NoHead
  <2> QED
    BY <1>1, <2>1, <2>2 DEF Above
<1>4. CASE marks # {}
  <2>1. PICK top : top = Max(marks)
    OBVIOUS
  <2>2. top \in marks /\ \A i \in marks : i <= top
    <3>1. marks \subseteq Nat /\ \A i \in marks : i <= l
      BY <1>1
    <3> HIDE DEF marks
    <3> QED
      BY <1>4, <2>1, <3>1, MaxIs
  <2>3. ActiveHead(entries) = entries[top].head
    BY <1>4, <2>1 DEF ActiveHead
  <2>4. PICK h \in Nat : h = entries[top].head /\ h <= top
    BY <1>1, <1>2, <2>2
  <2>5. ASSUME NEW i \in DOMAIN entries  PROVE entries[i].head <= h
    <3>1. CASE entries[i].head = NoHead
      BY <2>4, <3>1 DEF NoHead
    <3>2. CASE i = top
      BY <2>4, <3>2
    <3>3. CASE entries[i].head # NoHead /\ i # top
      <4>1. i < top
        BY <1>1, <2>2, <3>3
      <4> QED
        BY <2>2, <2>4, <3>3, <4>1 DEF Written, HeadsRise
    <3> QED
      BY <3>1, <3>2, <3>3
  <2> QED
    BY <1>1, <2>2, <2>3, <2>4, <2>5 DEF Above
<1> QED
  BY <1>3, <1>4

\* A commit begins with what is consistent.
LEMMA BeginIs ==
  ASSUME Inv
  PROVE  /\ Begin \in TX /\ HeadKnown(Begin) /\ Consistent(Begin)
         /\ Begin.log = log /\ Begin.sub = sub /\ Begin.inbox = inbox /\ Begin.run = run
         /\ Begin.gens = gens /\ Begin.comps = comps /\ Begin.listed = listed
         /\ State(log, sub, inbox, run, gens, comps, listed)
<1>1. /\ Begin.log = log /\ Begin.sub = sub /\ Begin.inbox = inbox /\ Begin.run = run
      /\ Begin.gens = gens /\ Begin.comps = comps /\ Begin.listed = listed
      /\ Begin.head = ActiveHead(log)
  BY DEF Begin
<1>2. Begin \in TX /\ State(log, sub, inbox, run, gens, comps, listed)
  BY DEF Inv
<1>3. Consistent(Begin)
  BY <1>1, <1>2 DEF Consistent
<1>4. HeadKnown(Begin)
  BY <1>1, <1>2, ActiveHeadIs DEF HeadKnown, State
<1> QED
  BY <1>1, <1>2, <1>3, <1>4

\* A commit of what is consistent.
LEMMA CommitIs ==
  ASSUME NEW tx, Commit(tx), Consistent(tx)
  PROVE  /\ Begin' \in TX
         /\ State(log', sub', inbox', run', gens', comps', listed')
<1>1. /\ log' = tx.log /\ sub' = tx.sub /\ inbox' = tx.inbox /\ run' = tx.run
      /\ gens' = tx.gens /\ comps' = tx.comps /\ listed' = tx.listed /\ tx \in TX
  BY DEF Commit, Consistent
<1>2. State(log', sub', inbox', run', gens', comps', listed')
  BY <1>1 DEF Consistent
<1>3. Written(log', sub')
  BY <1>2 DEF State
<1>4. PICK h : h = ActiveHead(log')
  OBVIOUS
<1>5. h \in Nat
  BY <1>3, <1>4, ActiveHeadIs
<1>6. /\ log' \in Seq(EntrySet) /\ sub' \in Seq(SubSet) /\ inbox' \in Seq(Nat)
      /\ run' \in RunSet /\ gens' \in Seq(GenSet) /\ comps' \in Seq(CompSet)
      /\ listed' \subseteq Nat
  BY <1>1, Fields
<1>7. Begin' = [log |-> log', sub |-> sub', inbox |-> inbox', run |-> run', gens |-> gens',
                comps |-> comps', listed |-> listed', head |-> h, ok |-> TRUE]
  BY <1>4 DEF Begin
<1> QED
  BY <1>2, <1>5, <1>6, <1>7 DEF TX
-----------------------------------------------------------------------------
(* The run.  Between the end of one generation and the start of the next   *)
(* no generation is alive, and users are the inputs that are to be the     *)
(* run's.                                                                  *)

Unowned(works) == \A c \in DOMAIN works : Live(works[c]) => works[c].owner = 0

Between(tx, users) ==
  /\ tx \in TX /\ Written(tx.log, tx.sub) /\ Queue(tx.sub, tx.inbox)
  /\ WorkRefs(tx.log, tx.gens, tx.comps, tx.listed)
  /\ Alive(tx.gens) = {} /\ Unowned(tx.comps)
  /\ users \in Seq(Nat) /\ IsInjective(users) /\ Placed(tx.sub) = ToSet(users)
  /\ \A s \in Placed(tx.sub) : Open(tx.log, tx.sub[s].entry, Len(tx.log) + 1)

LEMMA GenerationIs ==
  /\ Generation \in GenSet /\ [Generation EXCEPT !.phase = "terminal"] \in GenSet
  /\ Live(Generation) /\ Generation.phase = "prepare"
  /\ Generation.compacted = 0 /\ Generation.calls = 0
  /\ ~ Live([Generation EXCEPT !.phase = "terminal"])
  /\ [Generation EXCEPT !.phase = "terminal"].compacted = 0
  /\ [Generation EXCEPT !.phase = "terminal"].calls = 0
<1>1. MaxRetries \in Nat
  BY SubmissionsAssumption
<1>2. 1 \in 1 .. MaxRetries + 1
  BY <1>1
<1> QED
  BY <1>2 DEF Generation, GenSet, Live

LEMMA Idle ==
  ASSUME NEW tx, Between(tx, <<>>), tx.run = NoRun
  PROVE  Consistent(tx)
<1>1. ToSet(<<>>) = {} /\ IsInjective(<<>>)
  BY DEF ToSet, IsInjective
<1>2. RunShape(tx.run, tx.gens) /\ Placed(tx.sub) = {} /\ tx.run.inputs = <<>> /\ tx.run.task = 0
  BY <1>1 DEF Between, RunShape, NoRun
<1>3. RunOpen(tx.log, tx.sub, tx.gens)
  BY <1>2 DEF RunOpen
<1>4. Waits(tx.log, tx.gens, tx.comps)
  BY DEF Between, Unowned, Waits
<1> QED
  BY <1>1, <1>2, <1>3, <1>4 DEF Between, Consistent, State

\* The next generation takes the run.
LEMMA RunGiven ==
  ASSUME NEW tx, NEW users, Between(tx, users), users # <<>>,
         NEW next, next = Len(tx.gens) + 1,
         NEW new, new = [tx EXCEPT !.gens = Append(tx.gens, Generation),
                                   !.run = [task |-> next, inputs |-> users]]
  PROVE  Consistent(new)
<1>1. PICK l \in Nat : l = Len(tx.gens)
  <2>1. tx.gens \in Seq(GenSet)
    BY Fields DEF Between
  <2> QED
    BY <2>1
<1>2. PICK g : g = Append(tx.gens, Generation)
  OBVIOUS
<1>3. /\ g \in Seq(GenSet) /\ Len(g) = l + 1 /\ DOMAIN g = 1..(l + 1) /\ DOMAIN tx.gens = 1..l
      /\ g[l + 1] = Generation /\ \A t \in 1..l : g[t] = tx.gens[t]
  <2>1. tx.gens \in Seq(GenSet)
    BY Fields DEF Between
  <2> QED
    BY <1>1, <1>2, <2>1, GenerationIs, Lengthened
<1>4. next = l + 1 /\ next \in Nat /\ next # 0 /\ next \in DOMAIN g
  BY <1>1, <1>3
<1>5. PICK going : going = [task |-> next, inputs |-> users]
  OBVIOUS
<1>6. going \in RunSet /\ going.task = next /\ going.inputs = users
  BY <1>4, <1>5 DEF RunSet, Between
<1>7. /\ new \in TX /\ new.gens = g /\ new.run = going
      /\ new.log = tx.log /\ new.sub = tx.sub /\ new.inbox = tx.inbox
      /\ new.comps = tx.comps /\ new.listed = tx.listed
  BY <1>2, <1>3, <1>5, <1>6 DEF TX, Between
<1>8. \A t \in 1..(l + 1) : t = l + 1 \/ t \in 1..l
  OBVIOUS
<1>9. Alive(g) = {next}
  <2>1. \A t \in 1..l : ~ Live(tx.gens[t])
    BY <1>3 DEF Between, Alive
  <2> QED
    BY <1>3, <1>4, <1>8, <2>1, GenerationIs DEF Alive
<1>10. WorkRefs(tx.log, g, tx.comps, tx.listed)
  <2>1. \A t \in DOMAIN g : g[t].compacted <= Len(tx.comps) /\ g[t].calls <= Len(tx.log)
    <3>1. Len(tx.comps) \in Nat /\ Len(tx.log) \in Nat
      BY Fields DEF Between
    <3> QED
      BY SMTT(30), <1>3, <1>8, <3>1, GenerationIs DEF Between, WorkRefs
  <2>2. \A c \in DOMAIN tx.comps : /\ tx.comps[c].owner <= Len(g)
                                   /\ tx.comps[c].firstKept <= Len(tx.log)
    <3>1. ASSUME NEW c \in DOMAIN tx.comps
          PROVE  tx.comps[c].owner <= l + 1
      <4>1. tx.comps[c].owner <= l
        BY <1>1 DEF Between, WorkRefs
      <4>2. tx.comps[c] \in CompSet
        <5>1. tx.comps \in Seq(CompSet)
          BY Fields DEF Between
        <5> QED
          BY <5>1
      <4>3. tx.comps[c].owner \in Nat
        BY <4>2 DEF CompSet
      <4> QED
        BY <4>1, <4>3
    <3> QED
      BY <1>3, <3>1 DEF Between, WorkRefs
  <2> QED
    BY <2>1, <2>2 DEF Between, WorkRefs
<1>11. RunShape(going, g)
  BY <1>4, <1>6 DEF RunShape, Between
<1>12. RunOpen(tx.log, tx.sub, g)
  BY <1>3, <1>4, <1>9, GenerationIs DEF RunOpen, Between
<1>13. Waits(tx.log, g, tx.comps)
  BY DEF Between, Unowned, Waits
<1>14. Placed(tx.sub) = ToSet(going.inputs) /\ Alive(g) = {going.task} \ {0}
  BY <1>4, <1>6, <1>9 DEF Between
<1> QED
  BY <1>7, <1>10, <1>11, <1>12, <1>13, <1>14 DEF Between, Consistent, State

LEMMA Started ==
  ASSUME NEW tx, NEW users, Between(tx, users), tx.run = NoRun
  PROVE  Consistent(StartRun(tx, users))
<1>1. CASE users = <<>>
  BY <1>1, Idle DEF StartRun
<1>2. CASE users # <<>>
  <2>1. PICK l \in Nat : l = Len(tx.gens) /\ Len(Append(tx.gens, Generation)) = l + 1
    <3>1. tx.gens \in Seq(GenSet)
      BY Fields DEF Between
    <3> QED
      BY <3>1, GenerationIs, AppendProperties
  <2>2. PICK next : next = Len(tx.gens) + 1
    OBVIOUS
  <2>3. PICK new : new = [tx EXCEPT !.gens = Append(tx.gens, Generation),
                                    !.run = [task |-> next, inputs |-> users]]
    OBVIOUS
  <2>4. StartRun(tx, users) = new
    <3>1. CreateGeneration(tx) = [tx EXCEPT !.gens = Append(tx.gens, Generation)]
      BY DEF CreateGeneration
    <3>2. CreateGeneration(tx).gens = Append(tx.gens, Generation)
      BY <3>1 DEF Between, TX
    <3> QED
      BY <1>2, <2>1, <2>2, <2>3, <3>1, <3>2 DEF StartRun
  <2> QED
    BY <1>2, <2>2, <2>3, <2>4, RunGiven
<1> QED
  BY <1>1, <1>2

LEMMA HandedOver ==
  ASSUME NEW tx, NEW placed, Between(tx, tx.run.inputs \o placed), tx.run.inputs # <<>>,
         tx.run.inputs \in Seq(Nat), placed \in Seq(Nat)
  PROVE  Consistent(HandOver(tx, tx.run.task, placed))
<1>1. PICK l \in Nat : l = Len(tx.gens) /\ Len(Append(tx.gens, Generation)) = l + 1
  <2>1. tx.gens \in Seq(GenSet) /\ Generation \in GenSet
    BY Fields, GenerationIs DEF Between
  <2>2. PICK l \in Nat : l = Len(tx.gens)
    BY <2>1
  <2>3. Len(Append(tx.gens, Generation)) = l + 1
    BY <2>1, <2>2, Lengthened
  <2> QED
    BY <2>2, <2>3
<1>2. PICK next : next = Len(tx.gens) + 1
  OBVIOUS
<1>3. PICK users : users = tx.run.inputs \o placed
  OBVIOUS
<1>4. PICK new : new = [tx EXCEPT !.gens = Append(tx.gens, Generation),
                                  !.run = [task |-> next, inputs |-> users]]
  OBVIOUS
<1>5. HandOver(tx, tx.run.task, placed) = new
  <2>1. CreateGeneration(tx) = [tx EXCEPT !.gens = Append(tx.gens, Generation)]
    BY DEF CreateGeneration
  <2>2. /\ CreateGeneration(tx).gens = Append(tx.gens, Generation)
        /\ CreateGeneration(tx).run = tx.run
    BY <2>1 DEF Between, TX
  <2> QED
    BY <1>1, <1>2, <1>3, <1>4, <2>1, <2>2 DEF HandOver
<1>6. users # <<>>
  <2>1. PICK i \in Nat, k \in Nat : i = Len(tx.run.inputs) /\ k = Len(placed)
    <3>1. Len(tx.run.inputs) \in Nat /\ Len(placed) \in Nat
      OBVIOUS
    <3> QED
      BY <3>1
  <2>2. Len(users) = i + k /\ i # 0
    BY <1>3, <2>1, ConcatProperties, EmptySeq
  <2>3. Len(users) # 0
    BY <2>1, <2>2
  <2> QED
    BY <2>3
<1>7. Between(tx, users)
  BY <1>3
<1> QED
  BY <1>2, <1>4, <1>5, <1>6, <1>7, RunGiven

LEMMA TerminalIs ==
  ASSUME NEW tx \in TX, NEW t \in DOMAIN tx.gens, Alive(tx.gens) \subseteq {t},
         WorkRefs(tx.log, tx.gens, tx.comps, tx.listed)
  PROVE  LET new == Terminal(tx, t)
         IN  /\ new \in TX /\ new.log = tx.log /\ new.sub = tx.sub /\ new.inbox = tx.inbox
             /\ new.run = tx.run /\ new.comps = tx.comps /\ new.listed = tx.listed
             /\ Alive(new.gens) = {} /\ WorkRefs(new.log, new.gens, new.comps, new.listed)
<1>1. PICK end : end = [Generation EXCEPT !.phase = "terminal"]
  OBVIOUS
<1>2. end \in GenSet /\ ~ Live(end) /\ end.compacted = 0 /\ end.calls = 0
  BY <1>1, GenerationIs
<1>3. PICK g : g = [tx.gens EXCEPT ![t] = end]
  OBVIOUS
<1>4. tx.gens \in Seq(GenSet)
  BY Fields
<1>5. /\ g \in Seq(GenSet) /\ DOMAIN g = DOMAIN tx.gens /\ Len(g) = Len(tx.gens) /\ g[t] = end
      /\ \A r \in DOMAIN tx.gens : r # t => g[r] = tx.gens[r]
  BY <1>2, <1>3, <1>4
<1>6. PICK new : new = [tx EXCEPT !.gens = g]
  OBVIOUS
<1>7. /\ new \in TX /\ new.log = tx.log /\ new.sub = tx.sub /\ new.inbox = tx.inbox
      /\ new.run = tx.run /\ new.comps = tx.comps /\ new.listed = tx.listed /\ new.gens = g
  BY <1>5, <1>6 DEF TX
<1>8. Alive(g) = {}
  BY <1>2, <1>5 DEF Alive
<1>9. WorkRefs(tx.log, g, tx.comps, tx.listed)
  <2>1. Len(tx.comps) \in Nat /\ Len(tx.log) \in Nat
    BY Fields
  <2>2. \A r \in DOMAIN g : g[r].compacted <= Len(tx.comps) /\ g[r].calls <= Len(tx.log)
    BY <1>2, <1>5, <2>1 DEF WorkRefs
  <2> QED
    BY <1>5, <2>2 DEF WorkRefs
<1>10. Terminal(tx, t) = new
  BY <1>1, <1>3, <1>6 DEF Terminal
<1> QED
  BY <1>7, <1>8, <1>9, <1>10

\* A task that is terminal does not bear on the start of the next.
LEMMA TerminalLast ==
  ASSUME NEW tx \in TX, NEW t \in DOMAIN tx.gens, NEW users
  PROVE  /\ Terminal(StartRun(tx, users), t) = StartRun(Terminal(tx, t), users)
         /\ Terminal(HandOver(tx, t, users), t) = HandOver(Terminal(tx, t), t, users)
<1>1. PICK end : end = [Generation EXCEPT !.phase = "terminal"]
  OBVIOUS
<1>2. end \in GenSet /\ Generation \in GenSet
  BY <1>1, GenerationIs
<1>3. PICK g : g = [tx.gens EXCEPT ![t] = end]
  OBVIOUS
<1>4. PICK l \in Nat : l = Len(tx.gens) /\ tx.gens \in Seq(GenSet)
  <2>1. tx.gens \in Seq(GenSet)
    BY Fields
  <2> QED
    BY <2>1
<1>5. /\ g \in Seq(GenSet) /\ Len(g) = l /\ DOMAIN g = 1..l /\ g[t] = end /\ t \in 1..l
      /\ \A r \in 1..l : r # t => g[r] = tx.gens[r]
  BY <1>2, <1>3, <1>4
<1>6. PICK longer, shorter : longer = Append(g, Generation) /\ shorter = Append(tx.gens, Generation)
  OBVIOUS
<1>7. /\ longer \in Seq(GenSet) /\ Len(longer) = l + 1 /\ DOMAIN longer = 1..(l + 1)
      /\ longer[l + 1] = Generation /\ \A i \in 1..l : longer[i] = g[i]
  BY <1>2, <1>5, <1>6, Lengthened
<1>8. /\ shorter \in Seq(GenSet) /\ Len(shorter) = l + 1 /\ DOMAIN shorter = 1..(l + 1)
      /\ shorter[l + 1] = Generation /\ \A i \in 1..l : shorter[i] = tx.gens[i]
  BY <1>2, <1>4, <1>6, Lengthened
<1>9. longer = [shorter EXCEPT ![t] = end]
  <2>1. PICK other : other = [shorter EXCEPT ![t] = end]
    OBVIOUS
  <2>2. /\ other \in Seq(GenSet) /\ Len(other) = l + 1
        /\ \A i \in 1..(l + 1) : other[i] = IF i = t THEN end ELSE shorter[i]
    <3>1. t \in DOMAIN shorter
      BY <1>4, <1>5, <1>8
    <3> QED
      BY <1>2, <1>8, <2>1, <3>1
  <2>3. ASSUME NEW i \in 1..(l + 1)
        PROVE  longer[i] = other[i]
    <3>1. CASE i = l + 1
      <4>1. i # t
        BY <1>4, <1>5, <3>1
      <4> QED
        BY <1>7, <1>8, <2>2, <3>1, <4>1
    <3>2. CASE i \in 1..l
      BY <1>5, <1>7, <1>8, <2>2, <3>2
    <3> QED
      BY <2>3, <3>1, <3>2
  <2> QED
    BY <1>7, <2>1, <2>2, <2>3, SeqEqual
<1>10. PICK old : old = [tx EXCEPT !.gens = g]
  OBVIOUS
<1>11. old = Terminal(tx, t) /\ old.gens = g /\ old.run = tx.run /\ old \in TX
  BY <1>1, <1>3, <1>5, <1>10 DEF Terminal, TX
<1>12. PICK started : started = CreateGeneration(tx)
  OBVIOUS
<1>13. PICK ended : ended = CreateGeneration(old)
  OBVIOUS
<1>14. /\ started = [tx EXCEPT !.gens = shorter] /\ started.gens = shorter /\ started.run = tx.run
       /\ ended = [tx EXCEPT !.gens = longer] /\ ended.gens = longer /\ ended.run = tx.run
  BY <1>6, <1>10, <1>11, <1>12, <1>13 DEF CreateGeneration, TX
<1>15. Terminal(StartRun(tx, users), t) = StartRun(old, users)
  <2>1. CASE users = <<>>
    BY <1>11, <2>1 DEF StartRun
  <2>2. CASE users # <<>>
    <3>1. PICK going : going = [task |-> Len(shorter), inputs |-> users]
      OBVIOUS
    <3>2. StartRun(tx, users) = [started EXCEPT !.run = going]
      BY <1>12, <1>14, <2>2, <3>1 DEF StartRun
    <3>3. StartRun(old, users) = [ended EXCEPT !.run = going]
      BY <1>7, <1>8, <1>13, <1>14, <2>2, <3>1 DEF StartRun
    <3> QED
      BY <1>1, <1>9, <1>14, <3>2, <3>3 DEF Terminal, TX
  <2> QED
    BY <2>1, <2>2
<1>16. Terminal(HandOver(tx, t, users), t) = HandOver(old, t, users)
  <2>1. CASE tx.run.task # t
    <3>1. HandOver(tx, t, users) = started /\ HandOver(old, t, users) = ended
      BY <1>11, <1>12, <1>13, <2>1 DEF HandOver
    <3>2. Terminal(started, t) = [started EXCEPT !.gens = longer]
      BY <1>1, <1>9, <1>14 DEF Terminal
    <3> QED
      BY <1>14, <3>1, <3>2
  <2>2. CASE tx.run.task = t
    <3>1. PICK going : going = [task |-> Len(shorter), inputs |-> tx.run.inputs \o users]
      OBVIOUS
    <3>2. HandOver(tx, t, users) = [started EXCEPT !.run = going]
      BY <1>12, <1>14, <2>2, <3>1 DEF HandOver
    <3>3. HandOver(old, t, users) = [ended EXCEPT !.run = going]
      BY <1>7, <1>8, <1>11, <1>13, <1>14, <2>2, <3>1 DEF HandOver
    <3> QED
      BY <1>1, <1>9, <1>14, <3>2, <3>3 DEF Terminal, TX
  <2> QED
    BY <2>1, <2>2
<1> QED
  BY <1>11, <1>15, <1>16

\* The end of a run settles its inputs and no other.
LEMMA EndRunIs ==
  ASSUME NEW tx \in TX, Written(tx.log, tx.sub), Queue(tx.sub, tx.inbox),
         NEW users, Placed(tx.sub) = ToSet(tx.run.inputs) \cup ToSet(users),
         ToSet(tx.run.inputs) \cap ToSet(users) = {},
         NEW answer \in Nat, answer <= Len(tx.log),
         answer # 0 => \A s \in ToSet(tx.run.inputs) :
                         tx.sub[s].entry < answer /\ Open(tx.log, tx.sub[s].entry, answer)
  PROVE  LET new == EndRun(tx, tx.run.task, answer)
         IN  /\ new \in TX /\ Written(new.log, new.sub) /\ Queue(new.sub, new.inbox)
             /\ new.log = tx.log /\ new.gens = tx.gens /\ new.comps = tx.comps
             /\ new.listed = tx.listed /\ new.run = NoRun
             /\ Placed(new.sub) = ToSet(users)
             /\ \A s \in ToSet(users) : new.sub[s] = tx.sub[s]
             /\ \A s \in ToSet(tx.run.inputs) : Settled(new.sub[s])
             /\ DOMAIN new.sub = DOMAIN tx.sub
<1>1. PICK set : set = ToSet(tx.run.inputs)
  OBVIOUS
<1>2. /\ set \subseteq DOMAIN tx.sub /\ \A s \in set : tx.sub[s].status = "placed"
      /\ Placed(tx.sub) = set \cup ToSet(users) /\ set \cap ToSet(users) = {}
  BY <1>1 DEF Placed
<1>3. PICK mid : mid = Settle(tx, set, answer)
  OBVIOUS
<1>4. /\ mid \in TX /\ SameWork(tx, mid) /\ mid.log = tx.log /\ mid.head = tx.head
      /\ DOMAIN mid.sub = DOMAIN tx.sub
      /\ \A s \in DOMAIN tx.sub :
           /\ mid.sub[s].mode = tx.sub[s].mode /\ mid.sub[s].head = tx.sub[s].head
           /\ mid.sub[s].entry = tx.sub[s].entry
           /\ s \notin set => mid.sub[s] = tx.sub[s]
           /\ s \in set => IF answer = 0 THEN /\ mid.sub[s].status = "unanswered"
                                              /\ mid.sub[s].answer = tx.sub[s].answer
                           ELSE mid.sub[s].status = "done" /\ mid.sub[s].answer = answer
  <2>1. CASE answer = 0
    <3>1. mid = LeaveUnanswered(tx, set)
      BY <1>3, <2>1 DEF Settle
    <3>2. /\ mid \in TX /\ SameWork(tx, mid) /\ mid.log = tx.log /\ mid.head = tx.head
          /\ DOMAIN mid.sub = DOMAIN tx.sub
          /\ \A s \in DOMAIN tx.sub :
               /\ mid.sub[s].mode = tx.sub[s].mode /\ mid.sub[s].head = tx.sub[s].head
               /\ mid.sub[s].entry = tx.sub[s].entry /\ mid.sub[s].answer = tx.sub[s].answer
               /\ IF s \in set /\ tx.sub[s].status \in {"queued", "placed"}
                  THEN mid.sub[s].status = "unanswered"
                  ELSE mid.sub[s] = tx.sub[s]
      BY <3>1, LeaveUnansweredIs
    <3> QED
      BY <1>2, <2>1, <3>2
  <2>2. CASE answer # 0
    <3>1. mid = AnswerSubmissions(tx, set, answer)
      BY <1>3, <2>2 DEF Settle
    <3>2. /\ mid \in TX /\ SameWork(tx, mid) /\ mid.log = tx.log /\ mid.head = tx.head
          /\ DOMAIN mid.sub = DOMAIN tx.sub
          /\ \A s \in DOMAIN tx.sub :
               /\ mid.sub[s].mode = tx.sub[s].mode /\ mid.sub[s].head = tx.sub[s].head
               /\ mid.sub[s].entry = tx.sub[s].entry
               /\ IF s \in set /\ tx.sub[s].status \in {"queued", "placed"}
                  THEN mid.sub[s].status = "done" /\ mid.sub[s].answer = answer
                  ELSE mid.sub[s] = tx.sub[s]
      BY <1>2, <3>1, AnswerSubmissionsIs
    <3> QED
      BY <1>2, <2>2, <3>2
  <2> QED
    BY <2>1, <2>2
<1>5. PICK subs, news : subs = tx.sub /\ news = mid.sub
  OBVIOUS
<1>6. Written(tx.log, news)
  <2>1. Written(tx.log, subs) /\ news \in Seq(SubSet) /\ DOMAIN news = DOMAIN subs
    BY <1>4, <1>5, Fields
  <2>2. ASSUME NEW s \in DOMAIN subs
        PROVE  \/ news[s] = subs[s]
               \/ /\ news[s].mode = subs[s].mode /\ news[s].head = subs[s].head
                  /\ news[s].entry = subs[s].entry /\ news[s].status \in {"done", "unanswered"}
                  /\ news[s].answer # 0 =>
                       /\ news[s].status = "done" /\ news[s].answer <= Len(tx.log)
                       /\ news[s].entry < news[s].answer
                       /\ Open(tx.log, news[s].entry, news[s].answer)
    <3>1. CASE s \notin set
      BY <1>4, <1>5, <3>1
    <3>2. CASE s \in set /\ answer = 0
      <4>1. subs[s].answer = 0
        BY <1>2, <1>5, <2>1, <3>2 DEF Written, Statuses
      <4>2. news[s].answer = 0 /\ news[s].status = "unanswered"
        BY <1>4, <1>5, <3>2, <4>1
      <4> QED
        BY <1>4, <1>5, <4>2
    <3>3. CASE s \in set /\ answer # 0
      <4>1. subs[s].entry < answer /\ Open(tx.log, subs[s].entry, answer)
        BY <1>1, <1>5, <3>3
      <4>2. news[s].answer = answer /\ news[s].status = "done" /\ news[s].entry = subs[s].entry
        BY <1>4, <1>5, <3>3
      <4> QED
        BY <1>4, <1>5, <4>1, <4>2
    <3> QED
      BY <3>1, <3>2, <3>3
  <2> QED
    BY <2>1, <2>2, RecordsSettled
<1>7. \A s \in set : mid.sub[s].status \in {"done", "unanswered"}
  BY <1>2, <1>4
<1>8. Queue(mid.sub, mid.inbox)
  <2>1. ASSUME NEW s \in DOMAIN tx.sub
        PROVE  mid.sub[s].status = "queued" <=> tx.sub[s].status = "queued"
    BY <1>2, <1>4, <1>7
  <2> QED
    BY <1>4, <2>1 DEF Queue, SameWork
<1>9. Placed(mid.sub) = ToSet(users)
  <2>1. ASSUME NEW s \in DOMAIN tx.sub
        PROVE  mid.sub[s].status = "placed" <=> s \in ToSet(users)
    <3>1. CASE s \in set
      BY <1>2, <1>7, <3>1
    <3>2. CASE s \notin set
      BY <1>2, <1>4, <3>2 DEF Placed
    <3> QED
      BY <3>1, <3>2
  <2>2. ToSet(users) \subseteq DOMAIN tx.sub
    BY <1>2 DEF Placed
  <2> QED
    BY <1>4, <2>1, <2>2 DEF Placed
<1>10. PICK new : new = [mid EXCEPT !.run = NoRun]
  OBVIOUS
<1>11. NoRun \in RunSet
  BY DEF NoRun, RunSet
<1>12. /\ new \in TX /\ new.log = tx.log /\ new.sub = mid.sub /\ new.inbox = mid.inbox
       /\ new.gens = tx.gens /\ new.comps = tx.comps /\ new.listed = tx.listed /\ new.run = NoRun
  BY <1>4, <1>10, <1>11 DEF TX, SameWork
<1>13. EndRun(tx, tx.run.task, answer) = new
  BY <1>1, <1>3, <1>10 DEF EndRun
<1>14. \A s \in ToSet(users) : mid.sub[s] = tx.sub[s]
  BY <1>2, <1>4 DEF Placed
<1> QED
  BY <1>1, <1>4, <1>5, <1>6, <1>7, <1>8, <1>9, <1>12, <1>13, <1>14 DEF Settled
-----------------------------------------------------------------------------
(* The end of a generation, in a transaction that may have passed a        *)
(* boundary.                                                               *)

\* A follow-up that the commit places finds every input of the run settled.
Waited(subs) ==
  \A s \in DOMAIN sub :
    sub[s].mode = "followUp" /\ sub[s].status = "queued" /\ subs[s].status = "placed"
      => \A r \in ToSet(run.inputs) : Settled(subs[r])

LEMMA NothingPlaced ==
  ASSUME NEW subs, DOMAIN sub \subseteq DOMAIN subs,
         \A s \in Placed(subs) \cap DOMAIN sub : sub[s].status # "queued" \/ sub[s].mode # "followUp"
  PROVE  Waited(subs)
BY DEF Waited, Placed

\* The generation t is the only one alive, has the run, and waits for nothing.
Ending(tx, t) ==
  /\ tx \in TX /\ Written(tx.log, tx.sub) /\ Queue(tx.sub, tx.inbox)
  /\ WorkRefs(tx.log, tx.gens, tx.comps, tx.listed) /\ Unowned(tx.comps)
  /\ t \in DOMAIN tx.gens /\ Alive(tx.gens) = {t} /\ tx.run.task = t
  /\ tx.run.inputs \in Seq(Nat) /\ tx.run.inputs # <<>> /\ IsInjective(tx.run.inputs)

\* The run ends, and one for the inputs the boundary placed begins.
LEMMA RunEnds ==
  ASSUME NEW tx, NEW t, Ending(tx, t),
         NEW users \in Seq(Nat), IsInjective(users),
         Placed(tx.sub) = ToSet(tx.run.inputs) \cup ToSet(users),
         ToSet(tx.run.inputs) \cap ToSet(users) = {},
         \A s \in ToSet(users) : Open(tx.log, tx.sub[s].entry, Len(tx.log) + 1),
         NEW answer \in Nat, answer <= Len(tx.log),
         answer # 0 => \A s \in ToSet(tx.run.inputs) :
                         tx.sub[s].entry < answer /\ Open(tx.log, tx.sub[s].entry, answer)
  PROVE  LET new == Terminal(StartRun(EndRun(tx, t, answer), users), t)
         IN  /\ Consistent(new) /\ Placed(new.sub) = ToSet(users)
             /\ \A s \in ToSet(tx.run.inputs) : Settled(new.sub[s])
             /\ DOMAIN new.sub = DOMAIN tx.sub
<1>1. PICK mid : mid = EndRun(tx, t, answer)
  OBVIOUS
<1>2. /\ mid \in TX /\ Written(mid.log, mid.sub) /\ Queue(mid.sub, mid.inbox)
      /\ mid.log = tx.log /\ mid.gens = tx.gens /\ mid.comps = tx.comps
      /\ mid.listed = tx.listed /\ mid.run = NoRun
      /\ Placed(mid.sub) = ToSet(users)
      /\ \A s \in ToSet(users) : mid.sub[s] = tx.sub[s]
      /\ \A s \in ToSet(tx.run.inputs) : Settled(mid.sub[s])
      /\ DOMAIN mid.sub = DOMAIN tx.sub
  <2>1. mid = EndRun(tx, tx.run.task, answer)
    BY <1>1 DEF Ending
  <2>2. /\ tx \in TX /\ Written(tx.log, tx.sub) /\ Queue(tx.sub, tx.inbox)
    BY DEF Ending
  <2>3. /\ mid \in TX /\ Written(mid.log, mid.sub) /\ Queue(mid.sub, mid.inbox)
        /\ mid.log = tx.log /\ mid.gens = tx.gens /\ mid.comps = tx.comps
        /\ mid.listed = tx.listed /\ mid.run = NoRun
        /\ Placed(mid.sub) = ToSet(users)
        /\ \A s \in ToSet(users) : mid.sub[s] = tx.sub[s]
    BY <2>1, <2>2, EndRunIs
  <2>4. /\ \A s \in ToSet(tx.run.inputs) : Settled(mid.sub[s])
        /\ DOMAIN mid.sub = DOMAIN tx.sub
    BY <2>1, <2>2, EndRunIs
  <2> QED
    BY <2>3, <2>4
<1>3. PICK end : end = Terminal(mid, t)
  OBVIOUS
<1>4. /\ end \in TX /\ end.log = mid.log /\ end.sub = mid.sub /\ end.inbox = mid.inbox
      /\ end.run = mid.run /\ end.comps = mid.comps /\ end.listed = mid.listed
      /\ Alive(end.gens) = {} /\ WorkRefs(end.log, end.gens, end.comps, end.listed)
  BY ZenonT(60), <1>2, <1>3, TerminalIs DEF Ending
<1>5. \A s \in Placed(end.sub) : Open(end.log, end.sub[s].entry, Len(end.log) + 1)
  BY <1>2, <1>4
<1>6. Between(end, users)
  BY <1>2, <1>4, <1>5 DEF Between, Ending
<1>7. Terminal(StartRun(mid, users), t) = StartRun(end, users)
  BY <1>2, <1>3, TerminalLast DEF Ending
<1>8. Consistent(StartRun(end, users))
  BY <1>2, <1>4, <1>6, Started
<1>9. StartRun(end, users).sub = mid.sub
  BY <1>4 DEF StartRun, CreateGeneration, TX
<1> QED
  BY <1>1, <1>2, <1>7, <1>8, <1>9

\* The run goes on with what it had and what the boundary placed.
LEMMA RunGoesOn ==
  ASSUME NEW tx, NEW t, Ending(tx, t),
         NEW users \in Seq(Nat), IsInjective(users),
         Placed(tx.sub) = ToSet(tx.run.inputs) \cup ToSet(users),
         ToSet(tx.run.inputs) \cap ToSet(users) = {},
         \A s \in Placed(tx.sub) : Open(tx.log, tx.sub[s].entry, Len(tx.log) + 1)
  PROVE  LET new == Terminal(HandOver(tx, t, users), t)
         IN  Consistent(new) /\ new.sub = tx.sub
<1>1. PICK end : end = Terminal(tx, t)
  OBVIOUS
<1>2. /\ end \in TX /\ end.log = tx.log /\ end.sub = tx.sub /\ end.inbox = tx.inbox
      /\ end.run = tx.run /\ end.comps = tx.comps /\ end.listed = tx.listed
      /\ Alive(end.gens) = {} /\ WorkRefs(end.log, end.gens, end.comps, end.listed)
  BY <1>1, TerminalIs DEF Ending
<1>3. PICK old : old = tx.run.inputs
  OBVIOUS
<1>4. PICK all : all = old \o users
  OBVIOUS
<1>5. PICK i \in Nat, k \in Nat : i = Len(old) /\ k = Len(users)
  <2>1. Len(old) \in Nat /\ Len(users) \in Nat
    BY <1>3 DEF Ending
  <2> QED
    BY <2>1
<1>6. /\ all \in Seq(Nat) /\ DOMAIN all = 1..(i + k)
      /\ \A n \in 1..i : all[n] = old[n]
      /\ \A n \in 1..k : all[i + n] = users[n]
      /\ DOMAIN old = 1..i /\ DOMAIN users = 1..k /\ old \in Seq(Nat)
  BY <1>3, <1>4, <1>5, ConcatProperties DEF Ending
<1>7. ASSUME NEW n \in 1..(i + k)
      PROVE  \/ n \in 1..i /\ all[n] = old[n]
             \/ \E m \in 1..k : n = i + m /\ all[n] = users[m]
  <2>1. CASE n <= i
    BY <1>6, <2>1
  <2>2. CASE ~ (n <= i)
    <3>1. n - i \in 1..k /\ n = i + (n - i)
      BY <1>5, <2>2
    <3> QED
      BY <1>6, <3>1
  <2> QED
    BY <2>1, <2>2
<1>8. ToSet(all) = ToSet(old) \cup ToSet(users)
  <2>1. ASSUME NEW m \in 1..k
        PROVE  users[m] \in ToSet(all)
    <3>1. PICK j \in Nat : j = m /\ 1 <= j /\ j <= k
      BY <1>5
    <3>2. i + j \in 1..(i + k) /\ j \in 1..k
      BY <3>1
    <3>3. i + m \in DOMAIN all /\ all[i + m] = users[m]
      BY <1>6, <3>1, <3>2
    <3> QED
      BY <3>3 DEF ToSet
  <2>2. ASSUME NEW n \in 1..i
        PROVE  old[n] \in ToSet(all)
    <3>1. n \in DOMAIN all /\ all[n] = old[n]
      BY <1>5, <1>6
    <3> QED
      BY <3>1 DEF ToSet
  <2>3. ASSUME NEW n \in DOMAIN all
        PROVE  all[n] \in ToSet(old) \cup ToSet(users)
    BY <1>6, <1>7 DEF ToSet
  <2>4. ToSet(all) \subseteq ToSet(old) \cup ToSet(users)
    <3>1. \A x \in ToSet(all) : \E n \in DOMAIN all : x = all[n]
      BY DEF ToSet
    <3> QED
      BY <2>3, <3>1
  <2>5. \A x \in ToSet(old) : x \in ToSet(all)
    <3>1. \A x \in ToSet(old) : \E n \in 1..i : x = old[n]
      BY <1>6 DEF ToSet
    <3> QED
      BY <2>2, <3>1
  <2>6. \A x \in ToSet(users) : x \in ToSet(all)
    <3>1. \A x \in ToSet(users) : \E m \in 1..k : x = users[m]
      BY <1>6 DEF ToSet
    <3> QED
      BY <2>1, <3>1
  <2> QED
    BY <2>4, <2>5, <2>6
<1>9. IsInjective(all)
  <2>1. ASSUME NEW n \in 1..(i + k), NEW m \in 1..(i + k), all[n] = all[m], n # m
        PROVE  FALSE
    <3>1. CASE n \in 1..i /\ all[n] = old[n] /\ m \in 1..i /\ all[m] = old[m]
      BY <1>3, <1>6, <2>1, <3>1 DEF Ending, IsInjective
    <3>2. ASSUME NEW p \in 1..k, n = i + p, all[n] = users[p],
                 NEW q \in 1..k, m = i + q, all[m] = users[q]
          PROVE  FALSE
      BY <1>6, <2>1, <3>2 DEF IsInjective
    <3>3. ASSUME NEW p \in 1..i, NEW q \in 1..k, old[p] = users[q]
          PROVE  FALSE
      <4>1. old[p] \in ToSet(old) /\ users[q] \in ToSet(users)
        BY <1>6 DEF ToSet
      <4> QED
        BY <1>3, <3>3, <4>1
    <3> QED
      BY <1>7, <2>1, <3>1, <3>2, <3>3
  <2> QED
    BY <1>6, <2>1 DEF IsInjective
<1>10. Between(end, all)
  BY <1>2, <1>3, <1>6, <1>8, <1>9 DEF Between, Ending
<1>11. Terminal(HandOver(tx, t, users), t) = HandOver(end, t, users)
  BY <1>1, TerminalLast DEF Ending
<1>12. /\ end.run.inputs = old /\ end.run.task = t /\ old # <<>> /\ old \in Seq(Nat)
  BY <1>2, <1>3 DEF Ending
<1>13. Consistent(HandOver(end, t, users))
  BY <1>4, <1>10, <1>12, HandedOver
<1>14. HandOver(end, t, users).sub = tx.sub
  BY <1>2 DEF HandOver, CreateGeneration, TX
<1> QED
  BY <1>11, <1>13, <1>14

LEMMA StillOpen ==
  ASSUME NEW entries, NEW longer, NEW n \in Nat, DOMAIN entries = 1..n,
         NEW m \in Nat, DOMAIN longer = 1..m, n <= m,
         \A i \in DOMAIN entries : longer[i] = entries[i],
         NEW from \in Nat, Open(entries, from, n + 1)
  PROVE  /\ \A to \in Nat : to <= n + 1 => Open(longer, from, to)
         /\ (\A i \in DOMAIN longer : n < i => longer[i].head # i) => Open(longer, from, m + 1)
<1>1. ASSUME NEW i \in 1..m, from < i, i < n + 1
      PROVE  longer[i].head # i
  <2>1. i \in 1..n
    BY <1>1
  <2> QED
    BY <1>1, <2>1 DEF Open
<1>2. ASSUME NEW to \in Nat, to <= n + 1
      PROVE  Open(longer, from, to)
  <2>1. \A i \in 1..m : i < to => i < n + 1
    BY <1>2
  <2> QED
    BY <1>1, <2>1 DEF Open
<1>3. \A i \in 1..m : i < n + 1 \/ n < i
  OBVIOUS
<1> QED
  BY <1>1, <1>2, <1>3 DEF Open

\* An entry that belongs to no submission.
LEMMA EntryOnly ==
  ASSUME NEW tx \in TX, Written(tx.log, tx.sub), NEW kind \in Kinds,
         NEW head \in Nat \cup {SelfHead},
         head = NoHead \/ head = SelfHead \/ (head <= Len(tx.log) /\ Above(tx.log, head)),
         NEW n \in Nat, n = Len(tx.log)
  PROVE  LET new == AppendEntry(tx, kind, head, 0)
         IN  /\ new \in TX /\ SameWork(tx, new) /\ new.sub = tx.sub /\ new.head = tx.head
             /\ Written(new.log, new.sub)
             /\ Len(new.log) = n + 1 /\ DOMAIN new.log = 1..(n + 1) /\ DOMAIN tx.log = 1..n
             /\ \A i \in DOMAIN tx.log : new.log[i] = tx.log[i]
             /\ new.log[n + 1].head = IF head = SelfHead THEN n + 1 ELSE head
<1>1. PICK own \in Nat : own = n + 1
  OBVIOUS
<1>2. PICK h : h = IF head = SelfHead THEN own ELSE head
  OBVIOUS
<1>3. PICK e : e = Entry(kind, h, 0)
  OBVIOUS
<1>4. PICK new : new = AppendEntry(tx, kind, head, 0)
  OBVIOUS
<1>5. /\ new \in TX /\ SameWork(tx, new) /\ new.sub = tx.sub
      /\ new.head = tx.head /\ new.log = Append(tx.log, e)
      /\ e \in EntrySet /\ e.sub = 0 /\ e.head = h
  <2>1. own = Len(tx.log) + 1 /\ 0 \in Nat
    BY <1>1
  <2> QED
    BY <1>2, <1>3, <1>4, <2>1, AppendEntryIs
<1>6. /\ Len(new.log) = n + 1 /\ DOMAIN new.log = 1..(n + 1) /\ DOMAIN tx.log = 1..n
      /\ new.log[n + 1] = e /\ \A i \in 1..n : new.log[i] = tx.log[i]
  <2>1. tx.log \in Seq(EntrySet)
    BY Fields
  <2> QED
    BY <1>5, <2>1, Lengthened
<1>7. PICK entries, subs : entries = tx.log /\ subs = tx.sub
  OBVIOUS
<1>8. Follows(entries, subs, own, e, subs)
  <2>1. e.head = NoHead \/ e.head = own \/ (e.head <= Len(entries) /\ Above(entries, e.head))
    BY <1>2, <1>5, <1>7
  <2>2. subs \in Seq(SubSet)
    BY <1>7, Fields
  <2> QED
    BY <1>1, <1>5, <1>7, <2>1, <2>2 DEF Follows
<1>9. Written(Append(entries, e), subs)
  BY <1>7, <1>8, EntryWritten
<1> QED
  BY <1>1, <1>2, <1>4, <1>5, <1>6, <1>7, <1>9

\* A live generation without a compaction of its own that runs.
LEMMA EndingBegins ==
  ASSUME Inv, NEW t \in DOMAIN gens, Live(gens[t]),
         \/ Runs(t)
         \/ \A c \in DOMAIN comps : comps[c].owner = t => ~Live(comps[c])
  PROVE  /\ Ending(Begin, t) /\ HeadKnown(Begin)
         /\ Begin.log = log /\ Begin.sub = sub /\ Begin.run = run /\ Begin.gens = gens
         /\ Begin.comps = comps /\ Begin.listed = listed /\ Begin.inbox = inbox
         /\ Placed(sub) = ToSet(run.inputs)
         /\ \A s \in Placed(sub) : /\ Open(log, sub[s].entry, Len(log) + 1)
                                   /\ gens[t].phase = "tools" => sub[s].entry < gens[t].calls
         /\ run.task = t /\ Alive(gens) = {t} /\ Unowned(comps)
<1>1. /\ Begin \in TX /\ HeadKnown(Begin)
      /\ Begin.log = log /\ Begin.sub = sub /\ Begin.inbox = inbox /\ Begin.run = run
      /\ Begin.gens = gens /\ Begin.comps = comps /\ Begin.listed = listed
      /\ State(log, sub, inbox, run, gens, comps, listed)
  BY BeginIs
<1>2. t \in Nat \ {0} /\ gens \in Seq(GenSet) /\ comps \in Seq(CompSet) /\ run \in RunSet
  <2>1. gens \in Seq(GenSet) /\ comps \in Seq(CompSet) /\ run \in RunSet
    BY <1>1, Fields
  <2> QED
    BY <2>1
<1>3. run.task = t /\ Alive(gens) = {t} /\ run # NoRun
  <2>1. t \in Alive(gens) /\ Alive(gens) = {run.task} \ {0}
    BY <1>1 DEF Alive, State
  <2>2. run.task = t
    BY <2>1
  <2> QED
    BY <1>2, <2>1, <2>2 DEF NoRun
<1>4. Unowned(comps)
  <2>1. SUFFICES ASSUME NEW c \in DOMAIN comps, Live(comps[c]), comps[c].owner # 0
                 PROVE  FALSE
    BY DEF Unowned
  <2>2. comps[c].owner = t /\ gens[t].compacted = c
    BY <1>1, <1>3, <2>1 DEF State, Waits
  <2>3. c # 0
    BY <1>2
  <2> QED
    BY <2>1, <2>2, <2>3 DEF Runs
<1>5. /\ run.inputs \in Seq(Nat) /\ run.inputs # <<>> /\ IsInjective(run.inputs)
      /\ Placed(sub) = ToSet(run.inputs)
  BY <1>1, <1>2, <1>3 DEF State, RunShape, RunSet
<1>6. Ending(Begin, t)
  BY <1>1, <1>3, <1>4, <1>5 DEF Ending, State
<1>7. \A s \in Placed(sub) : /\ Open(log, sub[s].entry, Len(log) + 1)
                             /\ gens[t].phase = "tools" => sub[s].entry < gens[t].calls
  BY <1>1, <1>3 DEF State, RunOpen
<1> QED
  BY <1>1, <1>3, <1>4, <1>5, <1>6, <1>7

\* The transcript may grow and the records change before a generation ends.
LEMMA EndingStays ==
  ASSUME NEW tx, NEW t, Ending(tx, t), NEW new \in TX,
         Written(new.log, new.sub), Queue(new.sub, new.inbox),
         new.run = tx.run, new.gens = tx.gens, new.comps = tx.comps, new.listed = tx.listed,
         Len(tx.log) <= Len(new.log)
  PROVE  Ending(new, t)
<1>1. WorkRefs(new.log, new.gens, new.comps, new.listed)
  <2>1. PICK n \in Nat, m \in Nat : n = Len(tx.log) /\ m = Len(new.log) /\ n <= m
    <3>1. Len(tx.log) \in Nat /\ Len(new.log) \in Nat
      BY Fields DEF Ending
    <3> QED
      BY <3>1
  <2>2. tx.gens \in Seq(GenSet) /\ tx.comps \in Seq(CompSet)
    BY Fields DEF Ending
  <2>3. ASSUME NEW r \in DOMAIN tx.gens
        PROVE  tx.gens[r].calls <= m
    <3>1. tx.gens[r].calls <= n
      BY <2>1 DEF Ending, WorkRefs
    <3>2. tx.gens[r] \in GenSet
      BY <2>2
    <3>3. tx.gens[r].calls \in Nat
      BY <3>2 DEF GenSet
    <3> QED
      BY <2>1, <3>1, <3>3
  <2>4. ASSUME NEW c \in DOMAIN tx.comps
        PROVE  tx.comps[c].firstKept <= m
    <3>1. tx.comps[c].firstKept <= n
      BY <2>1 DEF Ending, WorkRefs
    <3>2. tx.comps[c] \in CompSet
      BY <2>2
    <3>3. tx.comps[c].firstKept \in Nat
      BY <3>2 DEF CompSet
    <3> QED
      BY <2>1, <3>1, <3>3
  <2> QED
    BY <2>1, <2>3, <2>4 DEF Ending, WorkRefs
<1> QED
  BY <1>1 DEF Ending

\* The entries that are settled at a boundary: those of the run, which it
\* leaves alone, and those it placed.
LEMMA EndingAfter ==
  ASSUME NEW tx, NEW t, Ending(tx, t), Placed(tx.sub) = ToSet(tx.run.inputs),
         NEW new, NEW users, NEW reset, Boundary(tx, new, users, reset)
  PROVE  /\ Ending(new, t) /\ new.run = tx.run
         /\ Placed(new.sub) = ToSet(new.run.inputs) \cup ToSet(users)
         /\ ToSet(new.run.inputs) \cap ToSet(users) = {}
         /\ users \in Seq(Nat) /\ IsInjective(users)
         /\ \A s \in ToSet(users) : Open(new.log, new.sub[s].entry, Len(new.log) + 1)
         /\ \A s \in ToSet(tx.run.inputs) :
              /\ new.sub[s].entry = tx.sub[s].entry /\ new.sub[s].entry \in Nat
              /\ Open(tx.log, tx.sub[s].entry, Len(tx.log) + 1) =>
                   /\ \A to \in Nat : to <= Len(tx.log) => Open(new.log, new.sub[s].entry, to)
                   /\ ~reset => Open(new.log, new.sub[s].entry, Len(new.log) + 1)
<1>1. Ending(new, t) /\ new.run = tx.run
  BY EndingStays DEF Boundary
<1>2. \A s \in ToSet(users) : Open(new.log, new.sub[s].entry, Len(new.log) + 1)
  <2>1. ToSet(users) \subseteq DOMAIN tx.sub
    BY DEF Boundary, Placed
  <2> QED
    BY <2>1 DEF Boundary
<1>3. PICK n \in Nat, m \in Nat : /\ n = Len(tx.log) /\ m = Len(new.log) /\ n <= m
                                  /\ DOMAIN tx.log = 1..n /\ DOMAIN new.log = 1..m
  <2>1. /\ Len(tx.log) \in Nat /\ DOMAIN tx.log = 1..Len(tx.log)
        /\ Len(new.log) \in Nat /\ DOMAIN new.log = 1..Len(new.log)
    BY Fields DEF Boundary, Ending
  <2> QED
    BY <2>1 DEF Boundary
<1>4. ASSUME NEW s \in ToSet(tx.run.inputs)
      PROVE  /\ new.sub[s].entry = tx.sub[s].entry /\ new.sub[s].entry \in Nat
             /\ Open(tx.log, tx.sub[s].entry, n + 1) =>
                  /\ \A to \in Nat : to <= n => Open(new.log, new.sub[s].entry, to)
                  /\ ~reset => Open(new.log, new.sub[s].entry, m + 1)
  <2>1. s \in DOMAIN tx.sub /\ tx.sub[s].status = "placed"
    BY DEF Placed
  <2>2. new.sub[s] = tx.sub[s]
    BY <2>1 DEF Boundary
  <2>3. tx.sub[s].entry \in Nat
    BY <2>1, Fields DEF Ending
  <2>4. PICK from \in Nat : from = tx.sub[s].entry
    BY <2>3
  <2>5. ASSUME Open(tx.log, from, n + 1)
        PROVE  /\ \A to \in Nat : to <= n + 1 => Open(new.log, from, to)
               /\ (\A i \in DOMAIN new.log : n < i => new.log[i].head # i) => Open(new.log, from, m + 1)
    <3>1. \A i \in DOMAIN tx.log : new.log[i] = tx.log[i]
      BY DEF Boundary
    <3>2. PICK entries, longer : entries = tx.log /\ longer = new.log
      OBVIOUS
    <3> QED
      BY <1>3, <2>5, <3>1, <3>2, StillOpen
  <2>6. ~reset => \A i \in DOMAIN new.log : n < i => new.log[i].head # i
    BY <1>3 DEF Boundary
  <2>7. \A to \in Nat : to <= n => to <= n + 1
    BY <1>3
  <2> QED
    BY <2>2, <2>3, <2>4, <2>5, <2>6, <2>7
<1>5. /\ Placed(new.sub) = ToSet(new.run.inputs) \cup ToSet(users)
      /\ ToSet(new.run.inputs) \cap ToSet(users) = {}
      /\ users \in Seq(Nat) /\ IsInjective(users)
  BY <1>1 DEF Boundary
<1> QED
  BY <1>1, <1>2, <1>3, <1>4, <1>5

\* A run is settled without a boundary.
LEMMA UnansweredEnds ==
  ASSUME NEW tx, NEW t, Ending(tx, t), Placed(tx.sub) = ToSet(tx.run.inputs)
  PROVE  LET new == Terminal(Unanswered(tx, t), t)
         IN  Consistent(new) /\ Placed(new.sub) = {} /\ DOMAIN new.sub = DOMAIN tx.sub
<1>1. ToSet(<<>>) = {} /\ <<>> \in Seq(Nat) /\ IsInjective(<<>>)
  BY DEF ToSet, IsInjective
<1>2. 0 <= Len(tx.log)
  BY Fields DEF Ending
<1>3. PICK none : none = <<>>
  OBVIOUS
<1>4. PICK new : new = Terminal(StartRun(EndRun(tx, t, 0), none), t)
  OBVIOUS
<1>5. Consistent(new) /\ Placed(new.sub) = {} /\ DOMAIN new.sub = DOMAIN tx.sub
  <2>1. /\ Placed(tx.sub) = ToSet(tx.run.inputs) \cup ToSet(none)
        /\ ToSet(tx.run.inputs) \cap ToSet(none) = {}
        /\ \A s \in ToSet(none) : Open(tx.log, tx.sub[s].entry, Len(tx.log) + 1)
        /\ none \in Seq(Nat) /\ IsInjective(none) /\ ToSet(none) = {}
    BY <1>1, <1>3
  <2> QED
    BY <1>2, <1>4, <2>1, RunEnds
<1>6. StartRun(EndRun(tx, t, 0), none) = EndRun(tx, t, 0)
  BY <1>3 DEF StartRun
<1> QED
  BY <1>4, <1>5, <1>6 DEF Unanswered

LEMMA FailsStep ==
  ASSUME Inv, NEW t \in DOMAIN gens,
         GenerationFails(t) \/ AbortGeneration(t) \/ GenerationFaults(t)
  PROVE  \E tx : Commit(tx) /\ Consistent(tx) /\ Waited(tx.sub)
<1>1. /\ Live(gens[t]) /\ Commit(Terminal(Unanswered(Begin, t), t))
      /\ \/ Runs(t)
         \/ \A c \in DOMAIN comps : comps[c].owner = t => ~Live(comps[c])
  BY DEF GenerationFails, AbortGeneration, GenerationFaults, Runs
<1>2. Ending(Begin, t) /\ Placed(Begin.sub) = ToSet(Begin.run.inputs)
  BY <1>1, EndingBegins
<1>3. /\ Consistent(Terminal(Unanswered(Begin, t), t))
      /\ Placed(Terminal(Unanswered(Begin, t), t).sub) = {}
      /\ DOMAIN Terminal(Unanswered(Begin, t), t).sub = DOMAIN sub
  BY <1>2, BeginIs, UnansweredEnds
<1>4. Waited(Terminal(Unanswered(Begin, t), t).sub)
  BY <1>3, NothingPlaced
<1> QED
  BY <1>1, <1>3, <1>4

\* A live generation appends an entry that belongs to no submission, then
\* passes a boundary.
LEMMA EntryBeforeBoundary ==
  ASSUME Inv, NEW t \in DOMAIN gens, Runs(t), NEW kind \in Kinds, NEW head \in {NoHead, SelfHead},
         NEW n \in Nat, n = Len(log)
  PROVE  LET new == AppendEntry(Begin, kind, head, 0)
         IN  /\ Ending(new, t) /\ new.sub = sub /\ new.run = run /\ new.gens = gens
             /\ new.comps = comps /\ new.listed = listed /\ new.inbox = inbox
             /\ Placed(new.sub) = ToSet(new.run.inputs)
             /\ Len(new.log) = n + 1 /\ DOMAIN new.log = 1..(n + 1) /\ DOMAIN log = 1..n
             /\ \A i \in DOMAIN log : new.log[i] = log[i]
             /\ new.log[n + 1].head = IF head = SelfHead THEN n + 1 ELSE head
             /\ new.head = Begin.head /\ HeadKnown(Begin)
             /\ \A s \in Placed(sub) :
                  /\ sub[s].entry \in Nat /\ sub[s].entry <= n
                  /\ Open(new.log, sub[s].entry, n + 1)
                  /\ head = NoHead => Open(new.log, sub[s].entry, n + 2)
<1>1. /\ Ending(Begin, t) /\ HeadKnown(Begin)
      /\ Begin.log = log /\ Begin.sub = sub /\ Begin.run = run /\ Begin.gens = gens
      /\ Begin.comps = comps /\ Begin.listed = listed /\ Begin.inbox = inbox
      /\ Placed(sub) = ToSet(run.inputs)
      /\ \A s \in Placed(sub) : Open(log, sub[s].entry, n + 1)
  BY EndingBegins DEF Runs
<1>2. /\ Begin \in TX /\ Written(log, sub) /\ Queue(sub, inbox)
      /\ head \in Nat \cup {SelfHead}
  BY <1>1 DEF Ending, NoHead
<1>3. PICK new : new = AppendEntry(Begin, kind, head, 0)
  OBVIOUS
<1>4. /\ new \in TX /\ SameWork(Begin, new) /\ new.sub = sub /\ new.head = Begin.head
      /\ Written(new.log, new.sub)
      /\ Len(new.log) = n + 1 /\ DOMAIN new.log = 1..(n + 1) /\ DOMAIN log = 1..n
      /\ \A i \in DOMAIN log : new.log[i] = log[i]
      /\ new.log[n + 1].head = IF head = SelfHead THEN n + 1 ELSE head
  BY <1>1, <1>2, <1>3, EntryOnly
<1>5. /\ new.run = run /\ new.gens = gens /\ new.comps = comps /\ new.listed = listed
      /\ new.inbox = inbox
  BY <1>1, <1>4 DEF SameWork
<1>6. Ending(new, t)
  <2>1. Len(Begin.log) <= Len(new.log)
    BY <1>1, <1>4
  <2> QED
    BY <1>1, <1>2, <1>4, <1>5, <2>1, EndingStays
<1>7. ASSUME NEW s \in Placed(sub)
      PROVE  /\ sub[s].entry \in Nat /\ sub[s].entry <= n
             /\ Open(new.log, sub[s].entry, n + 1)
             /\ head = NoHead => Open(new.log, sub[s].entry, n + 2)
  <2>1. sub[s].entry \in Nat /\ sub[s].entry <= n
    <3>1. s \in DOMAIN sub
      BY DEF Placed
    <3> QED
      BY <1>1, <1>2, <3>1, Fields DEF Written, Refs
  <2>2. PICK from \in Nat : from = sub[s].entry
    BY <2>1
  <2>3. PICK m \in Nat : m = n + 1 /\ n <= m /\ m + 1 = n + 2
    OBVIOUS
  <2>4. PICK entries, longer : entries = log /\ longer = new.log
    OBVIOUS
  <2>5. /\ \A to \in Nat : to <= n + 1 => Open(longer, from, to)
        /\ (\A i \in DOMAIN longer : n < i => longer[i].head # i) => Open(longer, from, m + 1)
    <3>1. /\ DOMAIN entries = 1..n /\ DOMAIN longer = 1..m
          /\ \A i \in DOMAIN entries : longer[i] = entries[i]
          /\ Open(entries, from, n + 1)
      BY <1>1, <1>4, <2>2, <2>3, <2>4
    <3> QED
      BY <2>3, <3>1, StillOpen
  <2>6. ASSUME head = NoHead
        PROVE  \A i \in DOMAIN longer : n < i => longer[i].head # i
    <3>1. \A i \in 1..(n + 1) : n < i => i = n + 1
      OBVIOUS
    <3>2. n + 1 # NoHead /\ NoHead # SelfHead
      BY DEF NoHead, SelfHead
    <3> QED
      BY <1>4, <2>4, <2>6, <3>1, <3>2
  <2>7. n + 1 \in Nat /\ n + 1 <= n + 1
    OBVIOUS
  <2> QED
    BY <2>1, <2>2, <2>3, <2>4, <2>5, <2>6, <2>7
<1>8. Placed(new.sub) = ToSet(new.run.inputs)
  BY <1>1, <1>4, <1>5
<1> QED
  BY <1>1, <1>3, <1>4, <1>5, <1>6, <1>7, <1>8

LEMMA ToolRoundStarts ==
  ASSUME Inv, NEW t \in DOMAIN gens, StartToolRound(t)
  PROVE  \E tx : Commit(tx) /\ Consistent(tx)
<1>1. Runs(t) /\ gens[t].phase = "request"
  BY DEF StartToolRound
<1>2. PICK n \in Nat : n = Len(log)
  <2>1. Len(log) \in Nat
    BY BeginIs, Fields
  <2> QED
    BY <2>1
<1>3. PICK mid : mid = AppendEntry(Begin, "assistant", NoHead, 0)
  OBVIOUS
<1>4. /\ Ending(mid, t) /\ mid.sub = sub /\ mid.run = run /\ mid.gens = gens
      /\ mid.comps = comps /\ mid.listed = listed /\ mid.inbox = inbox
      /\ Placed(mid.sub) = ToSet(mid.run.inputs) /\ Len(mid.log) = n + 1
      /\ \A s \in Placed(sub) : /\ sub[s].entry \in Nat /\ sub[s].entry <= n
                                /\ Open(mid.log, sub[s].entry, n + 2)
  <2>1. "assistant" \in Kinds /\ NoHead \in {NoHead, SelfHead} /\ NoHead # SelfHead
    BY DEF Kinds, NoHead, SelfHead
  <2> QED
    BY <1>1, <1>2, <1>3, <2>1, EntryBeforeBoundary
<1>5. PICK own \in Nat : own = n + 1
  OBVIOUS
<1>6. PICK r : r = [gens[t] EXCEPT !.phase = "tools", !.calls = own]
  OBVIOUS
<1>7. gens \in Seq(GenSet) /\ gens[t] \in GenSet /\ t # 0
  <2>1. gens \in Seq(GenSet)
    BY BeginIs, Fields
  <2> QED
    BY <2>1
<1>8. /\ r \in GenSet /\ Live(r) /\ r.calls = own /\ r.compacted = gens[t].compacted
  BY <1>6, <1>7 DEF GenSet, Live
<1>9. PICK g : g = [gens EXCEPT ![t] = r]
  OBVIOUS
<1>10. /\ g \in Seq(GenSet) /\ DOMAIN g = DOMAIN gens /\ Len(g) = Len(gens) /\ g[t] = r
       /\ \A q \in DOMAIN gens : q # t => g[q] = gens[q]
  BY <1>7, <1>8, <1>9
<1>11. PICK new : new = [mid EXCEPT !.gens = g]
  OBVIOUS
<1>12. /\ new \in TX /\ new.log = mid.log /\ new.sub = sub /\ new.run = run /\ new.gens = g
       /\ new.comps = comps /\ new.listed = listed /\ new.inbox = inbox
  BY <1>4, <1>10, <1>11 DEF Ending, TX
<1>13. Alive(g) = {t}
  BY <1>4, <1>8, <1>10 DEF Ending, Alive
<1>14. WorkRefs(mid.log, g, comps, listed)
  <2>1. WorkRefs(mid.log, gens, comps, listed)
    BY <1>4 DEF Ending
  <2>2. \A q \in DOMAIN g : g[q].compacted <= Len(comps) /\ g[q].calls <= Len(mid.log)
    BY <1>4, <1>5, <1>8, <1>10, <2>1 DEF WorkRefs
  <2> QED
    BY <1>10, <2>1, <2>2 DEF WorkRefs
<1>15. RunShape(run, g)
  BY <1>4, <1>10 DEF Ending, RunShape
<1>16. RunOpen(mid.log, sub, g)
  <2>1. ASSUME NEW s \in Placed(sub)
        PROVE  /\ Open(mid.log, sub[s].entry, Len(mid.log) + 1) /\ sub[s].entry < own
    <3>1. n + 2 = (n + 1) + 1
      OBVIOUS
    <3> QED
      BY <1>4, <1>5, <3>1
  <2> QED
    BY <1>8, <1>10, <1>13, <2>1 DEF RunOpen
<1>17. Waits(mid.log, g, comps)
  BY <1>4 DEF Ending, Unowned, Waits
<1>18. Consistent(new)
  <2>1. Alive(g) = {run.task} \ {0} /\ Placed(sub) = ToSet(run.inputs)
    BY <1>4, <1>7, <1>13 DEF Ending
  <2> QED
    BY <1>4, <1>12, <1>14, <1>15, <1>16, <1>17, <2>1 DEF Consistent, State, Ending
<1>19. Commit(new)
  <2>1. new = [mid EXCEPT !.gens[t].phase = "tools", !.gens[t].calls = n + 1]
    BY <1>4, <1>5, <1>6, <1>9, <1>11
  <2> QED
    BY <1>2, <1>3, <2>1 DEF StartToolRound
<1> QED
  BY <1>18, <1>19

LEMMA AnswerStep ==
  ASSUME Inv, NEW t \in DOMAIN gens, NEW continues \in BOOLEAN, NEW modes,
         Answer(t, continues, modes)
  PROVE  \E tx : Commit(tx) /\ Consistent(tx) /\ Waited(tx.sub)
<1>1. Runs(t)
  BY DEF Answer
<1>2. PICK n \in Nat : n = Len(log)
  <2>1. Len(log) \in Nat
    BY BeginIs, Fields
  <2> QED
    BY <2>1
<1>3. PICK mid : mid = AppendEntry(Begin, "assistant", NoHead, 0)
  OBVIOUS
<1>4. /\ Ending(mid, t) /\ mid.sub = sub /\ mid.run = run
      /\ Placed(mid.sub) = ToSet(mid.run.inputs) /\ Len(mid.log) = n + 1
      /\ DOMAIN mid.log = 1..(n + 1) /\ DOMAIN log = 1..n
      /\ \A i \in DOMAIN log : mid.log[i] = log[i]
      /\ mid.log[n + 1].head = NoHead /\ mid.head = Begin.head /\ HeadKnown(Begin)
      /\ \A s \in Placed(sub) : /\ sub[s].entry \in Nat /\ sub[s].entry <= n
                                /\ Open(mid.log, sub[s].entry, n + 2)
  <2>1. "assistant" \in Kinds /\ NoHead \in {NoHead, SelfHead} /\ NoHead # SelfHead
    BY DEF Kinds, NoHead, SelfHead
  <2> QED
    BY <1>1, <1>2, <1>3, <2>1, EntryBeforeBoundary
<1>5. PICK own \in Nat : own = n + 1
  OBVIOUS
<1>6. HeadKnown(mid)
  <2>1. /\ Begin.head \in Nat /\ Begin.head <= n /\ \A i \in 1..n : log[i].head <= Begin.head
    BY <1>2, <1>4, BeginIs, Fields DEF HeadKnown, Above
  <2>2. \A i \in 1..(n + 1) : i = n + 1 \/ i \in 1..n
    OBVIOUS
  <2>3. NoHead <= Begin.head /\ Begin.head <= n + 1
    BY <2>1 DEF NoHead
  <2> QED
    BY <1>4, <2>1, <2>2, <2>3 DEF HeadKnown, Above
<1>7. PICK b : b = ApplyBoundary(mid, "final", modes)
  OBVIOUS
<1>8. PICK new, users, reset : new = b.tx /\ users = b.users /\ reset = b.reset
  OBVIOUS
<1>9. Boundary(mid, new, users, reset)
  BY <1>4, <1>6, <1>7, <1>8, BoundaryIs DEF Ending
<1>10. /\ Ending(new, t) /\ new.run = run
       /\ Placed(new.sub) = ToSet(new.run.inputs) \cup ToSet(users)
       /\ ToSet(new.run.inputs) \cap ToSet(users) = {}
       /\ users \in Seq(Nat) /\ IsInjective(users)
       /\ \A s \in ToSet(users) : Open(new.log, new.sub[s].entry, Len(new.log) + 1)
       /\ \A s \in ToSet(run.inputs) :
            /\ new.sub[s].entry = sub[s].entry /\ new.sub[s].entry \in Nat
            /\ Open(mid.log, sub[s].entry, Len(mid.log) + 1) =>
                 /\ \A to \in Nat : to <= Len(mid.log) => Open(new.log, new.sub[s].entry, to)
                 /\ ~reset => Open(new.log, new.sub[s].entry, Len(new.log) + 1)
  BY <1>4, <1>9, EndingAfter
<1>11. ASSUME NEW s \in ToSet(run.inputs)
       PROVE  /\ new.sub[s].entry < own /\ Open(new.log, new.sub[s].entry, own)
              /\ ~reset => Open(new.log, new.sub[s].entry, Len(new.log) + 1)
  <2>1. s \in Placed(sub)
    BY <1>4
  <2>2. (n + 1) + 1 = n + 2 /\ n + 1 <= n + 1
    OBVIOUS
  <2> QED
    BY <1>4, <1>5, <1>10, <2>1, <2>2
<1>12. own <= Len(new.log)
  BY <1>4, <1>5, <1>9 DEF Boundary
<1>13. CASE continues /\ users = <<>> /\ ~reset
  <2>1. PICK more : more = AppendEntry(new, "user", NoHead, 0)
    OBVIOUS
  <2>2. PICK m \in Nat : m = Len(new.log)
    <3>1. Len(new.log) \in Nat
      BY <1>10, Fields DEF Ending
    <3> QED
      BY <3>1
  <2>3. /\ more \in TX /\ SameWork(new, more) /\ more.sub = new.sub
        /\ Written(more.log, more.sub)
        /\ Len(more.log) = m + 1 /\ DOMAIN more.log = 1..(m + 1) /\ DOMAIN new.log = 1..m
        /\ \A i \in DOMAIN new.log : more.log[i] = new.log[i]
        /\ more.log[m + 1].head = NoHead
    <3>1. NoHead \in Nat \cup {SelfHead} /\ "user" \in Kinds /\ NoHead # SelfHead
      BY DEF NoHead, SelfHead, Kinds
    <3>2. new \in TX /\ Written(new.log, new.sub)
      BY <1>10 DEF Ending
    <3> QED
      BY <2>1, <2>2, <3>1, <3>2, EntryOnly
  <2>4. Ending(more, t) /\ more.run = run
    <3>1. /\ more.run = new.run /\ more.gens = new.gens /\ more.comps = new.comps
          /\ more.listed = new.listed /\ more.inbox = new.inbox
      BY <2>3 DEF SameWork
    <3>2. Queue(more.sub, more.inbox) /\ Len(new.log) <= Len(more.log)
      BY <1>10, <2>2, <2>3, <3>1 DEF Ending
    <3> QED
      BY <1>10, <2>3, <3>1, <3>2, EndingStays
  <2>5. Placed(more.sub) = ToSet(more.run.inputs) /\ ToSet(users) = {}
    BY <1>10, <1>13, <2>3, <2>4 DEF ToSet
  <2>6. ASSUME NEW s \in Placed(more.sub)
        PROVE  Open(more.log, more.sub[s].entry, Len(more.log) + 1)
    <3>1. s \in ToSet(run.inputs)
      BY <2>4, <2>5
    <3>2. PICK from \in Nat : from = new.sub[s].entry
      BY <1>10, <3>1
    <3>3. PICK entries, longer : entries = new.log /\ longer = more.log
      OBVIOUS
    <3>4. PICK k \in Nat : k = m + 1 /\ m <= k
      OBVIOUS
    <3>5. /\ DOMAIN entries = 1..m /\ DOMAIN longer = 1..k
          /\ \A i \in DOMAIN entries : longer[i] = entries[i]
          /\ Open(entries, from, m + 1)
      BY <1>11, <1>13, <2>2, <2>3, <3>1, <3>2, <3>3, <3>4
    <3>6. \A i \in DOMAIN longer : m < i => longer[i].head # i
      <4>1. \A i \in 1..(m + 1) : m < i => i = m + 1 /\ i # 0
        OBVIOUS
      <4> QED
        BY <2>3, <3>3, <4>1 DEF NoHead
    <3>7. Open(longer, from, k + 1)
      BY <3>4, <3>5, <3>6, StillOpen
    <3> QED
      BY <2>3, <3>2, <3>3, <3>4, <3>7
  <2>7. /\ Consistent(Terminal(HandOver(more, t, users), t))
        /\ Terminal(HandOver(more, t, users), t).sub = more.sub
    <3>1. /\ Placed(more.sub) = ToSet(more.run.inputs) \cup ToSet(users)
          /\ ToSet(more.run.inputs) \cap ToSet(users) = {}
      BY <2>5
    <3> QED
      BY <1>10, <2>4, <2>6, <3>1, RunGoesOn
  <2>8. Commit(Terminal(HandOver(more, t, <<>>), t))
    BY <1>3, <1>7, <1>8, <1>13, <2>1 DEF Answer
  <2>9. Waited(more.sub)
    <3>1. Placed(more.sub) = Placed(sub) /\ DOMAIN more.sub = DOMAIN sub
      BY <1>4, <1>9, <2>3, <2>4, <2>5 DEF Boundary
    <3> QED
      BY <3>1, NothingPlaced DEF Placed
  <2> QED
    BY <1>13, <2>7, <2>8, <2>9
<1>14. CASE ~ (continues /\ users = <<>> /\ ~reset)
  <2>1. /\ Consistent(Terminal(StartRun(EndRun(new, t, own), users), t))
        /\ Waited(Terminal(StartRun(EndRun(new, t, own), users), t).sub)
    BY <1>10, <1>11, <1>12, RunEnds DEF Waited
  <2>2. Commit(Terminal(StartRun(EndRun(new, t, own), users), t))
    BY <1>2, <1>3, <1>5, <1>7, <1>8, <1>14 DEF Answer
  <2> QED
    BY <2>1, <2>2
<1> QED
  BY <1>13, <1>14

\* What the boundary of a tool round starts from.
LEMMA HandoffIs ==
  ASSUME Inv, NEW t \in DOMAIN gens, Runs(t), NEW control,
         NEW first, first = IF control = "handoff"
                            THEN [AppendEntry(Begin, "handoff", SelfHead, 0) EXCEPT !.head = Len(log) + 1]
                            ELSE Begin
  PROVE  /\ Ending(first, t) /\ HeadKnown(first) /\ first.sub = sub /\ first.run = run
         /\ first.inbox = inbox /\ Placed(first.sub) = ToSet(first.run.inputs)
         /\ Len(log) <= Len(first.log)
         /\ \A s \in Placed(sub) :
              /\ \A to \in Nat : to <= Len(log) => Open(first.log, sub[s].entry, to)
              /\ control # "handoff" => Open(first.log, sub[s].entry, Len(first.log) + 1)
<1>1. PICK n \in Nat : n = Len(log) /\ DOMAIN log = 1..n
  <2>1. Len(log) \in Nat /\ DOMAIN log = 1..Len(log)
    BY BeginIs, Fields
  <2> QED
    BY <2>1
<1>2. CASE control = "handoff"
  <2>1. PICK mid : mid = AppendEntry(Begin, "handoff", SelfHead, 0)
    OBVIOUS
  <2>2. /\ Ending(mid, t) /\ mid.sub = sub /\ mid.run = run /\ mid.gens = gens
        /\ mid.comps = comps /\ mid.listed = listed /\ mid.inbox = inbox
        /\ Placed(mid.sub) = ToSet(mid.run.inputs)
        /\ Len(mid.log) = n + 1 /\ DOMAIN mid.log = 1..(n + 1) /\ DOMAIN log = 1..n
        /\ \A i \in DOMAIN log : mid.log[i] = log[i]
        /\ mid.log[n + 1].head = n + 1
        /\ \A s \in Placed(sub) : /\ sub[s].entry \in Nat /\ sub[s].entry <= n
                                  /\ Open(mid.log, sub[s].entry, n + 1)
    <3>1. "handoff" \in Kinds /\ SelfHead \in {NoHead, SelfHead}
      BY DEF Kinds
    <3> QED
      BY <1>1, <2>1, <3>1, EntryBeforeBoundary
  <2>3. PICK own \in Nat : own = n + 1
    OBVIOUS
  <2>4. first = [mid EXCEPT !.head = own]
    BY <1>1, <1>2, <2>1, <2>3
  <2>5. /\ first \in TX /\ first.log = mid.log /\ first.sub = mid.sub /\ first.inbox = mid.inbox
        /\ first.run = mid.run /\ first.gens = mid.gens /\ first.comps = mid.comps
        /\ first.listed = mid.listed /\ first.head = own
    BY <2>2, <2>4 DEF Ending, TX
  <2>6. Ending(first, t)
    BY <2>2, <2>5 DEF Ending
  <2>7. HeadKnown(first)
    <3>1. ASSUME NEW i \in 1..(n + 1)  PROVE mid.log[i].head <= own
      <4>1. mid.log[i].head <= i /\ mid.log[i].head \in Nat
        BY <2>2, Fields DEF Ending, Written, Refs
      <4> QED
        BY <2>3, <4>1
    <3>2. first.head <= Len(first.log)
      BY <2>2, <2>3, <2>5
    <3>3. \A i \in DOMAIN first.log : first.log[i].head <= first.head
      BY <2>2, <2>5, <3>1
    <3> QED
      BY <3>2, <3>3 DEF HeadKnown, Above
  <2>8. ASSUME NEW s \in Placed(sub), NEW to \in Nat, to <= n
        PROVE  Open(mid.log, sub[s].entry, to)
    <3>1. Open(mid.log, sub[s].entry, n + 1)
      BY <2>2
    <3>2. \A i \in 1..(n + 1) : i < to => i < n + 1
      BY <2>8
    <3> QED
      BY <2>2, <3>1, <3>2 DEF Open
  <2>9. n <= n + 1
    OBVIOUS
  <2> QED
    BY <1>1, <1>2, <2>2, <2>5, <2>6, <2>7, <2>8, <2>9
<1>3. CASE control # "handoff"
  <2>1. first = Begin
    BY <1>3
  <2>2. /\ Ending(Begin, t) /\ HeadKnown(Begin)
        /\ Begin.log = log /\ Begin.sub = sub /\ Begin.run = run /\ Begin.inbox = inbox
        /\ Placed(sub) = ToSet(run.inputs)
        /\ \A s \in Placed(sub) : Open(log, sub[s].entry, n + 1)
    BY <1>1, EndingBegins DEF Runs
  <2>3. ASSUME NEW s \in Placed(sub), NEW to \in Nat, to <= n
        PROVE  Open(log, sub[s].entry, to)
    <3>1. Open(log, sub[s].entry, n + 1)
      BY <2>2
    <3>2. \A i \in 1..n : i < n + 1
      OBVIOUS
    <3> QED
      BY <1>1, <3>1, <3>2 DEF Open
  <2>4. n <= n
    OBVIOUS
  <2> QED
    BY <1>1, <2>1, <2>2, <2>3, <2>4
<1> QED
  BY <1>2, <1>3

LEMMA FinishStep ==
  ASSUME Inv, NEW t \in DOMAIN gens, NEW control, NEW modes,
         FinishToolRound(t, control, modes)
  PROVE  \E tx : Commit(tx) /\ Consistent(tx) /\ Waited(tx.sub)
<1>1. Runs(t) /\ gens[t].phase = "tools"
  BY DEF FinishToolRound
<1>2. PICK first : first = IF control = "handoff"
                           THEN [AppendEntry(Begin, "handoff", SelfHead, 0) EXCEPT !.head = Len(log) + 1]
                           ELSE Begin
  OBVIOUS
<1>3. /\ Ending(first, t) /\ HeadKnown(first) /\ first.sub = sub /\ first.run = run
      /\ first.inbox = inbox /\ Placed(first.sub) = ToSet(first.run.inputs)
      /\ Len(log) <= Len(first.log)
      /\ \A s \in Placed(sub) :
           /\ \A to \in Nat : to <= Len(log) => Open(first.log, sub[s].entry, to)
           /\ control # "handoff" => Open(first.log, sub[s].entry, Len(first.log) + 1)
  BY <1>1, <1>2, HandoffIs
<1>4. PICK at : at = IF control \in {"terminate", "handoff"} THEN "final" ELSE "postTools"
  OBVIOUS
<1>5. PICK b : b = ApplyBoundary(first, at, modes)
  OBVIOUS
<1>6. PICK new, users, reset : new = b.tx /\ users = b.users /\ reset = b.reset
  OBVIOUS
<1>7. /\ Boundary(first, new, users, reset)
      /\ reset = HasReset(first) /\ ToSet(users) \subseteq Chosen(first, at, modes)
  BY <1>3, <1>5, <1>6, BoundaryIs DEF Ending
<1>8. /\ Ending(new, t) /\ new.run = run
      /\ Placed(new.sub) = ToSet(new.run.inputs) \cup ToSet(users)
      /\ ToSet(new.run.inputs) \cap ToSet(users) = {}
      /\ users \in Seq(Nat) /\ IsInjective(users)
      /\ \A s \in ToSet(users) : Open(new.log, new.sub[s].entry, Len(new.log) + 1)
  BY <1>3, <1>7, EndingAfter
<1>9. PICK n \in Nat, k \in Nat, m \in Nat :
        n = Len(log) /\ k = Len(first.log) /\ m = Len(new.log) /\ n <= k /\ k <= m
  <2>1. Len(log) \in Nat /\ Len(first.log) \in Nat /\ Len(new.log) \in Nat
    BY <1>3, <1>8, BeginIs, Fields DEF Ending
  <2> QED
    BY <1>3, <1>7, <2>1 DEF Boundary
<1>10. PICK calls \in Nat : calls = gens[t].calls /\ calls <= n
  <2>1. gens \in Seq(GenSet) /\ WorkRefs(log, gens, comps, listed)
    BY BeginIs, Fields DEF State
  <2>2. gens[t].calls \in Nat
    <3>1. gens[t] \in GenSet
      BY <2>1
    <3> QED
      BY <3>1 DEF GenSet
  <2> QED
    BY <1>9, <2>1, <2>2 DEF WorkRefs
<1>11. ASSUME NEW s \in ToSet(run.inputs)
       PROVE  /\ new.sub[s].entry < calls /\ Open(new.log, new.sub[s].entry, calls)
              /\ control # "handoff" /\ ~reset => Open(new.log, new.sub[s].entry, m + 1)
  <2>1. s \in Placed(sub) /\ s \in DOMAIN sub /\ sub[s].status = "placed"
    BY <1>3 DEF Placed
  <2>2. new.sub[s] = sub[s]
    BY <1>3, <1>7, <2>1 DEF Boundary
  <2>3. sub[s].entry < calls
    BY <1>1, <1>10, <2>1, EndingBegins DEF Runs
  <2>4. PICK from \in Nat : from = sub[s].entry
    <3>1. Begin \in TX /\ Begin.sub = sub
      BY BeginIs
    <3> QED
      BY <2>1, <3>1, Fields
  <2>5. PICK entries, longer : entries = first.log /\ longer = new.log
    OBVIOUS
  <2>6. /\ DOMAIN entries = 1..k /\ DOMAIN longer = 1..m
        /\ \A i \in DOMAIN entries : longer[i] = entries[i]
    <3>1. DOMAIN first.log = 1..Len(first.log) /\ DOMAIN new.log = 1..Len(new.log)
      BY <1>3, <1>8, Fields DEF Ending
    <3> QED
      BY <1>7, <1>9, <2>5, <3>1 DEF Boundary
  <2>7. Open(longer, from, calls)
    <3>1. Open(entries, from, calls)
      BY <1>3, <1>9, <1>10, <2>1, <2>4, <2>5
    <3>2. ASSUME NEW i \in 1..m, from < i, i < calls  PROVE longer[i].head # i
      <4>1. i \in 1..k
        BY <1>9, <1>10, <3>2
      <4> QED
        BY <2>6, <3>1, <3>2, <4>1 DEF Open
    <3> QED
      BY <2>6, <3>2 DEF Open
  <2>8. ASSUME control # "handoff", ~reset
        PROVE  Open(longer, from, m + 1)
    <3>1. Open(entries, from, k + 1)
      BY <1>3, <1>9, <2>1, <2>4, <2>5, <2>8
    <3>2. \A i \in DOMAIN longer : k < i => longer[i].head # i
      BY <1>7, <1>9, <2>5, <2>8 DEF Boundary
    <3> QED
      BY <1>9, <2>6, <3>1, <3>2, StillOpen
  <2> QED
    BY <2>2, <2>3, <2>4, <2>5, <2>7, <2>8
<1>12. CASE control \in {"terminate", "handoff"}
  <2>1. calls <= Len(new.log)
    BY <1>9, <1>10
  <2>2. /\ Consistent(Terminal(StartRun(EndRun(new, t, calls), users), t))
        /\ Waited(Terminal(StartRun(EndRun(new, t, calls), users), t).sub)
    BY <1>8, <1>11, <2>1, RunEnds DEF Waited
  <2>3. Commit(Terminal(StartRun(EndRun(new, t, calls), users), t))
    <3>1. at = "final" /\ calls = gens[t].calls
      BY <1>4, <1>10, <1>12
    <3> QED
      BY <1>2, <1>5, <1>6, <1>12, <3>1 DEF FinishToolRound
  <2> QED
    BY <2>2, <2>3
<1>13. CASE control \notin {"terminate", "handoff"} /\ reset
  <2>1. 0 <= Len(new.log)
    BY <1>9
  <2>2. /\ Consistent(Terminal(StartRun(EndRun(new, t, 0), users), t))
        /\ Waited(Terminal(StartRun(EndRun(new, t, 0), users), t).sub)
    BY <1>8, <2>1, RunEnds DEF Waited
  <2>3. Commit(Terminal(StartRun(Unanswered(new, t), users), t))
    <3>1. at = "postTools"
      BY <1>4, <1>13
    <3> QED
      BY <1>2, <1>5, <1>6, <1>13, <3>1 DEF FinishToolRound
  <2> QED
    BY <2>2, <2>3 DEF Unanswered
<1>14. CASE control \notin {"terminate", "handoff"} /\ ~reset
  <2>1. \A s \in Placed(new.sub) : Open(new.log, new.sub[s].entry, Len(new.log) + 1)
    BY <1>8, <1>9, <1>11, <1>14
  <2>2. /\ Consistent(Terminal(HandOver(new, t, users), t))
        /\ Terminal(HandOver(new, t, users), t).sub = new.sub
    BY <1>8, <2>1, RunGoesOn
  <2>3. Commit(Terminal(HandOver(new, t, users), t))
    <3>1. at = "postTools"
      BY <1>4, <1>14
    <3> QED
      BY <1>2, <1>5, <1>6, <1>14, <3>1 DEF FinishToolRound
  <2>4. Waited(new.sub)
    <3>1. Placed(new.sub) = Placed(sub) \cup ToSet(users) /\ DOMAIN new.sub = DOMAIN sub
      BY <1>3, <1>7 DEF Boundary
    <3>2. ToSet(users) \subseteq Picked(first, "steer", modes.steering)
      BY <1>4, <1>7, <1>14 DEF Chosen
    <3>3. "steer" \in Modes
      BY DEF Modes
    <3>4. \A s \in Picked(first, "steer", modes.steering) : sub[s].mode = "steer"
      BY <1>3, <3>3, PickedIs DEF Ending
    <3> QED
      BY <3>1, <3>2, <3>4, NothingPlaced DEF Placed
  <2> QED
    BY <2>2, <2>3, <2>4
<1> QED
  BY <1>12, <1>13, <1>14
-----------------------------------------------------------------------------
(* Changes of the tasks alone.                                             *)

LEMMA WorkChanged ==
  ASSUME NEW tx, Consistent(tx), NEW new \in TX,
         new.log = tx.log, new.sub = tx.sub, new.inbox = tx.inbox, new.run = tx.run,
         DOMAIN new.gens = DOMAIN tx.gens, DOMAIN new.comps = DOMAIN tx.comps,
         new.listed \subseteq DOMAIN tx.comps,
         \A t \in DOMAIN tx.gens :
           /\ Live(new.gens[t]) <=> Live(tx.gens[t])
           /\ new.gens[t].compacted = tx.gens[t].compacted
           /\ new.gens[t].calls = tx.gens[t].calls
           /\ new.gens[t].phase = "tools" => tx.gens[t].phase = "tools",
         \A c \in DOMAIN tx.comps :
           /\ Live(new.comps[c]) => Live(tx.comps[c])
           /\ new.comps[c].owner = tx.comps[c].owner
           /\ new.comps[c].firstKept <= Len(tx.log)
           /\ Live(new.comps[c]) /\ new.comps[c].owner # 0 /\ new.comps[c].phase = "summarize" =>
                \/ tx.comps[c].phase = "summarize" /\ new.comps[c].firstKept = tx.comps[c].firstKept
                \/ Above(tx.log, new.comps[c].firstKept)
  PROVE  Consistent(new)
<1>1. /\ tx \in TX /\ Written(tx.log, tx.sub) /\ Queue(tx.sub, tx.inbox)
      /\ WorkRefs(tx.log, tx.gens, tx.comps, tx.listed)
      /\ RunShape(tx.run, tx.gens) /\ RunOpen(tx.log, tx.sub, tx.gens)
      /\ Waits(tx.log, tx.gens, tx.comps)
      /\ Placed(tx.sub) = ToSet(tx.run.inputs) /\ Alive(tx.gens) = {tx.run.task} \ {0}
  BY DEF Consistent, State
<1>2. Len(new.gens) = Len(tx.gens) /\ Len(new.comps) = Len(tx.comps)
  <2>1. /\ tx.gens \in Seq(GenSet) /\ tx.comps \in Seq(CompSet)
        /\ new.gens \in Seq(GenSet) /\ new.comps \in Seq(CompSet)
    BY <1>1, Fields
  <2> QED
    BY <2>1, LenProperties
<1>3. Alive(new.gens) = Alive(tx.gens)
  BY DEF Alive
<1>4. WorkRefs(new.log, new.gens, new.comps, new.listed)
  BY <1>1, <1>2 DEF WorkRefs
<1>5. RunShape(new.run, new.gens)
  BY <1>1 DEF RunShape
<1>6. RunOpen(new.log, new.sub, new.gens)
  <2>1. \A t \in Alive(tx.gens) : t \in DOMAIN tx.gens
    BY DEF Alive
  <2> QED
    BY <1>1, <1>3, <2>1 DEF RunOpen
<1>7. Waits(new.log, new.gens, new.comps)
  <2>1. ASSUME NEW c \in DOMAIN tx.comps, Live(new.comps[c]), new.comps[c].owner # 0
        PROVE  /\ new.comps[c].owner \in Alive(new.gens)
               /\ new.gens[new.comps[c].owner].compacted = c
               /\ new.comps[c].phase = "summarize" => Above(new.log, new.comps[c].firstKept)
    <3>1. /\ Live(tx.comps[c]) /\ tx.comps[c].owner # 0
          /\ new.comps[c].owner = tx.comps[c].owner
      BY <2>1
    <3>2. /\ tx.comps[c].owner \in Alive(tx.gens)
          /\ tx.gens[tx.comps[c].owner].compacted = c
          /\ tx.comps[c].phase = "summarize" => Above(tx.log, tx.comps[c].firstKept)
      BY <1>1, <3>1 DEF Waits
    <3>3. tx.comps[c].owner \in DOMAIN tx.gens
      BY <3>2 DEF Alive
    <3> QED
      BY <1>3, <2>1, <3>1, <3>2, <3>3
  <2> QED
    BY <2>1 DEF Waits
<1> QED
  BY <1>1, <1>3, <1>4, <1>5, <1>6, <1>7 DEF Consistent, State

\* A generation changes without its end, its wait or its calls.
LEMMA GenerationChanged ==
  ASSUME NEW tx, Consistent(tx), NEW t \in DOMAIN tx.gens, NEW r \in GenSet,
         Live(r) <=> Live(tx.gens[t]), r.compacted = tx.gens[t].compacted,
         r.calls = tx.gens[t].calls, r.phase = "tools" => tx.gens[t].phase = "tools",
         NEW new, new = [tx EXCEPT !.gens = [tx.gens EXCEPT ![t] = r]]
  PROVE  Consistent(new)
<1>1. tx \in TX /\ tx.gens \in Seq(GenSet)
  BY Fields DEF Consistent
<1>2. PICK g : g = [tx.gens EXCEPT ![t] = r]
  OBVIOUS
<1>3. /\ g \in Seq(GenSet) /\ DOMAIN g = DOMAIN tx.gens /\ g[t] = r
      /\ \A q \in DOMAIN tx.gens : q # t => g[q] = tx.gens[q]
  BY <1>1, <1>2
<1>4. /\ new \in TX /\ new.log = tx.log /\ new.sub = tx.sub /\ new.inbox = tx.inbox
      /\ new.run = tx.run /\ new.gens = g /\ new.comps = tx.comps /\ new.listed = tx.listed
  BY <1>1, <1>2, <1>3 DEF TX
<1>5. \A q \in DOMAIN tx.gens :
        /\ Live(new.gens[q]) <=> Live(tx.gens[q])
        /\ new.gens[q].compacted = tx.gens[q].compacted
        /\ new.gens[q].calls = tx.gens[q].calls
        /\ new.gens[q].phase = "tools" => tx.gens[q].phase = "tools"
  BY <1>3, <1>4
<1>6. WorkRefs(tx.log, tx.gens, tx.comps, tx.listed)
  BY DEF Consistent, State
<1>7. /\ new.listed \subseteq DOMAIN tx.comps
      /\ \A c \in DOMAIN tx.comps :
           /\ new.comps[c] = tx.comps[c]
           /\ new.comps[c].firstKept <= Len(tx.log)
  BY <1>4, <1>6 DEF WorkRefs
<1>8. \A c \in DOMAIN tx.comps :
        /\ Live(new.comps[c]) => Live(tx.comps[c])
        /\ new.comps[c].owner = tx.comps[c].owner
        /\ new.comps[c].firstKept <= Len(tx.log)
        /\ Live(new.comps[c]) /\ new.comps[c].owner # 0 /\ new.comps[c].phase = "summarize" =>
             \/ tx.comps[c].phase = "summarize" /\ new.comps[c].firstKept = tx.comps[c].firstKept
             \/ Above(tx.log, new.comps[c].firstKept)
  BY <1>7
<1>9. DOMAIN new.gens = DOMAIN tx.gens /\ DOMAIN new.comps = DOMAIN tx.comps
  BY <1>3, <1>4
<1> QED
  BY <1>4, <1>5, <1>7, <1>8, <1>9, WorkChanged

\* In new, compaction c of tx has become r, and shown are those listed.
Becomes(tx, c, r, shown, new) ==
  /\ new = [tx EXCEPT !.comps = [tx.comps EXCEPT ![c] = r], !.listed = shown]
  /\ shown \subseteq tx.listed
  /\ c \in DOMAIN tx.comps /\ r \in CompSet
  /\ Live(r) => Live(tx.comps[c])
  /\ r.owner = tx.comps[c].owner
  /\ r.firstKept <= Len(tx.log)
  /\ Live(r) /\ r.phase = "summarize" =>
       \/ tx.comps[c].phase = "summarize" /\ r.firstKept = tx.comps[c].firstKept
       \/ Above(tx.log, r.firstKept)

\* A compaction changes.
LEMMA CompactionChanged ==
  ASSUME NEW tx, Consistent(tx), NEW c, NEW r, NEW shown, NEW new,
         Becomes(tx, c, r, shown, new)
  PROVE  Consistent(new) /\ new.gens = tx.gens /\ new.log = tx.log /\ new.head = tx.head
         /\ new.run = tx.run
         /\ DOMAIN new.comps = DOMAIN tx.comps /\ new.comps[c] = r /\ new.sub = tx.sub
         /\ \A d \in DOMAIN tx.comps : d # c => new.comps[d] = tx.comps[d]
<1>1. tx \in TX /\ tx.comps \in Seq(CompSet) /\ tx.listed \subseteq Nat /\ c \in DOMAIN tx.comps
      /\ r \in CompSet /\ shown \subseteq tx.listed
      /\ new = [tx EXCEPT !.comps = [tx.comps EXCEPT ![c] = r], !.listed = shown]
  BY Fields DEF Consistent, Becomes
<1>2. PICK g : g = [tx.comps EXCEPT ![c] = r]
  OBVIOUS
<1>3. /\ g \in Seq(CompSet) /\ DOMAIN g = DOMAIN tx.comps /\ g[c] = r
      /\ \A d \in DOMAIN tx.comps : d # c => g[d] = tx.comps[d]
  BY <1>1, <1>2
<1>4. /\ new \in TX /\ new.log = tx.log /\ new.sub = tx.sub /\ new.inbox = tx.inbox
      /\ new.run = tx.run /\ new.gens = tx.gens /\ new.comps = g /\ new.listed = shown
      /\ new.head = tx.head
  BY <1>1, <1>2, <1>3 DEF TX
<1>5. WorkRefs(tx.log, tx.gens, tx.comps, tx.listed)
  BY DEF Consistent, State
<1>6. ASSUME NEW d \in DOMAIN tx.comps
      PROVE  /\ Live(new.comps[d]) => Live(tx.comps[d])
             /\ new.comps[d].owner = tx.comps[d].owner
             /\ new.comps[d].firstKept <= Len(tx.log)
             /\ Live(new.comps[d]) /\ new.comps[d].owner # 0 /\ new.comps[d].phase = "summarize" =>
                  \/ tx.comps[d].phase = "summarize" /\ new.comps[d].firstKept = tx.comps[d].firstKept
                  \/ Above(tx.log, new.comps[d].firstKept)
  <2>1. CASE d = c
    BY <1>3, <1>4, <2>1 DEF Becomes
  <2>2. CASE d # c
    BY <1>3, <1>4, <1>5, <2>2 DEF WorkRefs
  <2> QED
    BY <2>1, <2>2
<1>7. new.listed \subseteq DOMAIN tx.comps
  BY <1>1, <1>4, <1>5 DEF WorkRefs
<1>8. Consistent(new)
  BY <1>3, <1>4, <1>6, <1>7, WorkChanged
<1> QED
  BY <1>3, <1>4, <1>8

\* The generations g beside a new compaction own: the owner is alive, was
\* waiting for no other, and waits for it.
Awaits(tx, g, owner, own) ==
  /\ own = Len(tx.comps) + 1 /\ DOMAIN g = DOMAIN tx.gens
  /\ \A t \in DOMAIN tx.gens : /\ Live(g[t]) <=> Live(tx.gens[t])
                               /\ g[t].calls = tx.gens[t].calls
                               /\ g[t].phase = "tools" => tx.gens[t].phase = "tools"
                               /\ g[t].compacted = IF t = owner THEN own ELSE tx.gens[t].compacted
  /\ owner # 0 => owner \in Alive(tx.gens) /\ Unowned(tx.comps)

\* A compaction is made, for the conversation or for a generation.
LEMMA CompactionAdded ==
  ASSUME NEW tx, Consistent(tx), NEW owner \in Nat, NEW manual \in BOOLEAN,
         NEW own, NEW g \in Seq(GenSet), Awaits(tx, g, owner, own),
         NEW new, new = [tx EXCEPT !.gens = g, !.comps = Append(tx.comps, Compaction(owner, manual)),
                                   !.listed = tx.listed \cup {own}]
  PROVE  Consistent(new)
<1>0. /\ own = Len(tx.comps) + 1 /\ DOMAIN g = DOMAIN tx.gens
      /\ \A t \in DOMAIN tx.gens :
           /\ Live(g[t]) <=> Live(tx.gens[t])
           /\ g[t].calls = tx.gens[t].calls
           /\ g[t].phase = "tools" => tx.gens[t].phase = "tools"
           /\ g[t].compacted = IF t = owner THEN own ELSE tx.gens[t].compacted
      /\ owner # 0 => owner \in Alive(tx.gens) /\ Unowned(tx.comps)
  BY DEF Awaits
<1>1. /\ tx \in TX /\ Written(tx.log, tx.sub) /\ Queue(tx.sub, tx.inbox)
      /\ WorkRefs(tx.log, tx.gens, tx.comps, tx.listed)
      /\ RunShape(tx.run, tx.gens) /\ RunOpen(tx.log, tx.sub, tx.gens)
      /\ Waits(tx.log, tx.gens, tx.comps)
      /\ Placed(tx.sub) = ToSet(tx.run.inputs) /\ Alive(tx.gens) = {tx.run.task} \ {0}
  BY DEF Consistent, State
<1>2. /\ tx.gens \in Seq(GenSet) /\ tx.comps \in Seq(CompSet) /\ tx.listed \subseteq Nat
      /\ Len(tx.log) \in Nat
  BY <1>1, Fields
<1>3. PICK e : e = Compaction(owner, manual)
  OBVIOUS
<1>4. /\ e \in CompSet /\ Live(e) /\ e.owner = owner /\ e.phase = "select" /\ e.firstKept = 0
  <2>1. e = [phase |-> "select", owner |-> owner, manual |-> manual, firstKept |-> 0,
             placed |-> FALSE, mark |-> FALSE]
    BY <1>3 DEF Compaction
  <2>2. e \in CompSet
    BY <2>1 DEF CompSet
  <2> QED
    <3>1. e.owner = owner /\ e.phase = "select" /\ e.firstKept = 0
      BY <2>1
    <3> QED
      BY <2>2, <3>1 DEF Live
<1>5. PICK l \in Nat : l = Len(tx.comps)
  <2>1. tx.comps \in Seq(CompSet)
    BY <1>2
  <2>2. Len(tx.comps) \in Nat
    BY <2>1
  <2> QED
    BY <2>2
<1>6. PICK works : works = Append(tx.comps, e)
  OBVIOUS
<1>7. /\ works \in Seq(CompSet) /\ Len(works) = l + 1 /\ DOMAIN works = 1..(l + 1)
      /\ DOMAIN tx.comps = 1..l /\ works[l + 1] = e /\ \A c \in 1..l : works[c] = tx.comps[c]
  BY <1>2, <1>4, <1>5, <1>6, Lengthened
<1>8. own = l + 1 /\ own \in Nat
  BY <1>0, <1>5
<1>9. PICK shown : shown = tx.listed \cup {own}
  OBVIOUS
<1>10. shown \subseteq Nat
  BY <1>2, <1>8, <1>9
<1>11. /\ new \in TX /\ new.log = tx.log /\ new.sub = tx.sub /\ new.inbox = tx.inbox
       /\ new.run = tx.run /\ new.gens = g /\ new.comps = works /\ new.listed = shown
  BY <1>1, <1>3, <1>6, <1>7, <1>9, <1>10 DEF TX
<1>12. Len(g) = Len(tx.gens)
  BY <1>0, <1>2, LenProperties
<1>13. \A c \in 1..(l + 1) : c = own \/ c \in 1..l
  BY <1>8
<1>14. Alive(g) = Alive(tx.gens)
  BY <1>0 DEF Alive
<1>15. WorkRefs(tx.log, g, works, shown)
  <2>1. ASSUME NEW t \in DOMAIN g
        PROVE  g[t].compacted <= l + 1 /\ g[t].calls <= Len(tx.log)
    <3>1. tx.gens[t].compacted <= l /\ tx.gens[t].calls <= Len(tx.log)
      BY <1>0, <1>1, <1>5 DEF WorkRefs
    <3>2. tx.gens[t].compacted \in Nat
      <4>1. tx.gens[t] \in GenSet
        BY <1>0, <1>2
      <4> QED
        BY <4>1 DEF GenSet
    <3>3. tx.gens[t].compacted <= l + 1
      BY <3>1, <3>2
    <3> QED
      BY <1>0, <1>8, <3>1, <3>3
  <2>2. ASSUME NEW c \in 1..(l + 1)
        PROVE  works[c].owner <= Len(tx.gens) /\ works[c].firstKept <= Len(tx.log)
    <3>1. CASE c \in 1..l
      BY <1>1, <1>7, <3>1 DEF WorkRefs
    <3>2. CASE c = own
      <4>1. owner <= Len(tx.gens)
        <5>1. CASE owner = 0
          BY <1>2, <5>1
        <5>2. CASE owner # 0
          BY <1>0, <1>2, <5>2 DEF Alive
        <5> QED
          BY <5>1, <5>2
      <4> QED
        BY <1>2, <1>4, <1>7, <1>8, <3>2, <4>1
    <3> QED
      BY <1>13, <3>1, <3>2
  <2>3. shown \subseteq 1..(l + 1)
    <3>1. tx.listed \subseteq 1..l
      BY <1>1, <1>7 DEF WorkRefs
    <3>2. \A c \in 1..l : c \in 1..(l + 1)
      OBVIOUS
    <3> QED
      BY <1>8, <1>9, <3>1, <3>2
  <2> QED
    BY <1>7, <1>12, <2>1, <2>2, <2>3 DEF WorkRefs
<1>16. RunShape(tx.run, g)
  BY <1>0, <1>1 DEF RunShape
<1>17. RunOpen(tx.log, tx.sub, g)
  <2>1. \A t \in Alive(tx.gens) : t \in DOMAIN tx.gens
    BY DEF Alive
  <2> QED
    BY <1>0, <1>1, <1>14, <2>1 DEF RunOpen
<1>18. Waits(tx.log, g, works)
  <2>1. ASSUME NEW c \in 1..(l + 1), Live(works[c]), works[c].owner # 0
        PROVE  /\ works[c].owner \in Alive(g) /\ g[works[c].owner].compacted = c
               /\ works[c].phase = "summarize" => Above(tx.log, works[c].firstKept)
    <3>1. CASE c = own
      <4>1. owner # 0 /\ owner \in Alive(tx.gens) /\ works[c] = e
        BY <1>0, <1>4, <1>7, <1>8, <2>1, <3>1
      <4>2. owner \in DOMAIN tx.gens
        BY <4>1 DEF Alive
      <4> QED
        BY <1>0, <1>4, <1>14, <3>1, <4>1, <4>2
    <3>2. CASE c \in 1..l
      <4>1. owner = 0 /\ works[c] = tx.comps[c]
        BY <1>0, <1>7, <2>1, <3>2 DEF Unowned
      <4>2. /\ tx.comps[c].owner \in Alive(tx.gens) /\ tx.gens[tx.comps[c].owner].compacted = c
            /\ tx.comps[c].phase = "summarize" => Above(tx.log, tx.comps[c].firstKept)
        BY <1>1, <1>7, <2>1, <3>2, <4>1 DEF Waits
      <4>3. tx.comps[c].owner \in DOMAIN tx.gens
        BY <4>2 DEF Alive
      <4> QED
        BY <1>0, <1>14, <2>1, <4>1, <4>2, <4>3
    <3> QED
      BY <1>13, <3>1, <3>2
  <2> QED
    BY <1>7, <2>1 DEF Waits
<1> QED
  BY <1>1, <1>11, <1>14, <1>15, <1>16, <1>17, <1>18 DEF Consistent, State

LEMMA TypesOfWork ==
  ASSUME Inv
  PROVE  /\ gens \in Seq(GenSet) /\ comps \in Seq(CompSet)
         /\ \A t \in DOMAIN gens : gens[t] \in GenSet /\ t \in Nat \ {0} /\ t <= Len(gens)
         /\ \A c \in DOMAIN comps : comps[c] \in CompSet /\ comps[c].firstKept <= Len(log)
         /\ Begin.gens = gens /\ Begin.comps = comps /\ Begin.log = log /\ Begin.listed = listed
         /\ Consistent(Begin) /\ Begin \in TX
<1>1. /\ gens \in Seq(GenSet) /\ comps \in Seq(CompSet) /\ WorkRefs(log, gens, comps, listed)
  BY BeginIs, Fields DEF State
<1> QED
  BY <1>1, BeginIs DEF WorkRefs

\* A compaction starts that generation t waits for.
LEMMA CompactionAwaited ==
  ASSUME Inv, NEW t \in DOMAIN gens, CompactFirst(t) \/ Overflow(t)
  PROVE  \E tx : Commit(tx) /\ Consistent(tx)
<1>1. /\ Runs(t) /\ gens[t].compacted = 0 /\ gens[t].phase # "tools"
  BY DEF CompactFirst, Overflow
<1>2. t \in Alive(gens) /\ Unowned(comps)
  BY <1>1, EndingBegins DEF Runs
<1>3. PICK l \in Nat : l = Len(comps)
  <2>1. comps \in Seq(CompSet)
    BY TypesOfWork
  <2> QED
    BY <2>1
<1>4. PICK own \in Nat : own = l + 1
  OBVIOUS
<1>5. gens[t] \in GenSet /\ t \in Nat \ {0} /\ gens \in Seq(GenSet)
  BY TypesOfWork
<1>6. PICK r : \/ CompactFirst(t) /\ r = [gens[t] EXCEPT !.compacted = own]
               \/ /\ Overflow(t)
                  /\ r = [gens[t] EXCEPT !.phase = "prepare", !.compacted = own, !.overflow = TRUE]
  OBVIOUS
<1>7. /\ r \in GenSet /\ (Live(r) <=> Live(gens[t])) /\ r.calls = gens[t].calls
      /\ r.compacted = own /\ r.phase # "tools"
  <2>1. CASE CompactFirst(t) /\ r = [gens[t] EXCEPT !.compacted = own]
    BY <1>1, <1>5, <2>1 DEF GenSet, Live
  <2>2. CASE /\ Overflow(t)
             /\ r = [gens[t] EXCEPT !.phase = "prepare", !.compacted = own, !.overflow = TRUE]
    <3>1. Live(gens[t])
      BY <1>1 DEF Runs
    <3> QED
      BY <1>5, <2>2, <3>1 DEF GenSet, Live
  <2> QED
    BY <1>6, <2>1, <2>2
<1>8. PICK g : g = [gens EXCEPT ![t] = r]
  OBVIOUS
<1>9. /\ g \in Seq(GenSet) /\ DOMAIN g = DOMAIN gens /\ g[t] = r
      /\ \A q \in DOMAIN gens : q # t => g[q] = gens[q]
  BY <1>5, <1>7, <1>8
<1>10. PICK new : new = [Begin EXCEPT !.gens = g, !.comps = Append(comps, Compaction(t, FALSE)),
                                      !.listed = listed \cup {own}]
  OBVIOUS
<1>11. Consistent(new)
  <2>1. PICK tx : tx = Begin
    OBVIOUS
  <2>2. /\ Consistent(tx) /\ tx.gens = gens /\ tx.comps = comps /\ tx.listed = listed
    BY <2>1, TypesOfWork
  <2>3. /\ own = Len(tx.comps) + 1 /\ DOMAIN g = DOMAIN tx.gens
        /\ \A q \in DOMAIN tx.gens :
             /\ Live(g[q]) <=> Live(tx.gens[q])
             /\ g[q].calls = tx.gens[q].calls
             /\ g[q].phase = "tools" => tx.gens[q].phase = "tools"
             /\ g[q].compacted = IF q = t THEN own ELSE tx.gens[q].compacted
    BY <1>3, <1>4, <1>7, <1>9, <2>2
  <2>4. /\ t \in Alive(tx.gens) /\ Unowned(tx.comps)
        /\ new = [tx EXCEPT !.gens = g, !.comps = Append(tx.comps, Compaction(t, FALSE)),
                            !.listed = tx.listed \cup {own}]
    BY <1>2, <1>10, <2>1, <2>2
  <2> QED
    <3>1. Awaits(tx, g, t, own)
      BY <2>3, <2>4 DEF Awaits
    <3>2. FALSE \in BOOLEAN
      OBVIOUS
    <3> QED
      BY <1>5, <1>9, <2>2, <2>4, <3>1, <3>2, CompactionAdded
<1>12. PICK mid : mid = CreateCompaction(Begin, t, FALSE)
  OBVIOUS
<1>13. /\ mid = [Begin EXCEPT !.comps = Append(comps, Compaction(t, FALSE)),
                              !.listed = listed \cup {own}]
       /\ mid.gens = gens
  <2>1. Begin.gens = gens /\ Begin.comps = comps /\ Begin.listed = listed /\ Begin \in TX
    BY TypesOfWork
  <2> QED
    BY <1>3, <1>4, <1>12, <2>1 DEF CreateCompaction, TX
<1>14. new = [mid EXCEPT !.gens = g]
  BY <1>10, <1>13, TypesOfWork DEF TX
<1>15. Commit(new)
  <2>1. CASE CompactFirst(t) /\ r = [gens[t] EXCEPT !.compacted = own]
    <3>1. new = [mid EXCEPT !.gens[t].compacted = own]
      BY <1>8, <1>13, <1>14, <2>1
    <3> QED
      BY <1>3, <1>4, <1>12, <2>1, <3>1 DEF CompactFirst
  <2>2. CASE /\ Overflow(t)
             /\ r = [gens[t] EXCEPT !.phase = "prepare", !.compacted = own, !.overflow = TRUE]
    <3>1. [mid EXCEPT !.gens[t].phase = "prepare", !.gens[t].compacted = own,
                      !.gens[t].overflow = TRUE]
          = [mid EXCEPT !.gens = [mid.gens EXCEPT ![t].phase = "prepare", ![t].compacted = own,
                                                  ![t].overflow = TRUE]]
      OBVIOUS
    <3>2. [gens EXCEPT ![t].phase = "prepare", ![t].compacted = own, ![t].overflow = TRUE] = g
      BY <1>5, <1>8, <2>2
    <3>3. new = [mid EXCEPT !.gens[t].phase = "prepare", !.gens[t].compacted = own,
                            !.gens[t].overflow = TRUE]
      BY <1>13, <1>14, <3>1, <3>2
    <3> QED
      BY <1>3, <1>4, <1>12, <2>2, <3>3 DEF Overflow
  <2> QED
    BY <1>6, <2>1, <2>2
<1> QED
  BY <1>11, <1>15

\* A compaction is made for the conversation.
LEMMA CompactionApart ==
  ASSUME Inv, NEW manual \in BOOLEAN
  PROVE  LET tx == CreateCompaction(Begin, 0, manual)
         IN  Consistent(tx) /\ tx.gens = gens
<1>1. PICK begin : begin = Begin
  OBVIOUS
<1>2. /\ begin \in TX /\ Consistent(begin) /\ begin.gens = gens /\ begin.comps = comps
      /\ begin.listed = listed /\ gens \in Seq(GenSet)
      /\ \A t \in DOMAIN gens : t # 0
  BY <1>1, TypesOfWork
<1>3. PICK own : own = Len(comps) + 1
  OBVIOUS
<1>4. PICK new : new = [begin EXCEPT !.gens = gens, !.comps = Append(comps, Compaction(0, manual)),
                                     !.listed = listed \cup {own}]
  OBVIOUS
<1>5. Consistent(new)
  <2>1. /\ new = [begin EXCEPT !.gens = gens, !.comps = Append(begin.comps, Compaction(0, manual)),
                               !.listed = begin.listed \cup {own}]
        /\ own = Len(begin.comps) + 1
        /\ gens \in Seq(GenSet) /\ DOMAIN gens = DOMAIN begin.gens
    BY <1>2, <1>3, <1>4
  <2>2. \A t \in DOMAIN begin.gens :
          /\ Live(gens[t]) <=> Live(begin.gens[t])
          /\ gens[t].calls = begin.gens[t].calls
          /\ gens[t].phase = "tools" => begin.gens[t].phase = "tools"
          /\ gens[t].compacted = IF t = 0 THEN own ELSE begin.gens[t].compacted
    BY <1>2
  <2>3. 0 \in Nat
    OBVIOUS
  <2> QED
    <3>1. Awaits(begin, gens, 0, own)
      BY <2>1, <2>2 DEF Awaits
    <3> QED
      BY <1>2, <2>1, <2>3, <3>1, CompactionAdded
<1>6. CreateCompaction(begin, 0, manual) = new
  BY <1>2, <1>3, <1>4 DEF CreateCompaction, TX
<1>7. new.gens = gens
  BY <1>2, <1>4 DEF TX
<1> QED
  BY <1>1, <1>5, <1>6, <1>7

LEMMA PreparedStep ==
  ASSUME Inv, NEW t \in DOMAIN gens,
         (\E over \in BOOLEAN : Prepared(t, over)) \/ Retry(t)
  PROVE  \E tx : Commit(tx) /\ Consistent(tx)
<1>1. gens[t] \in GenSet /\ gens \in Seq(GenSet) /\ Begin \in TX /\ Begin.gens = gens
      /\ Consistent(Begin)
  BY TypesOfWork
<1>2. ASSUME NEW over \in BOOLEAN, Prepared(t, over)
      PROVE  \E tx : Commit(tx) /\ Consistent(tx)
  <2>1. PICK tx : tx = IF over THEN CreateCompaction(Begin, 0, FALSE) ELSE Begin
    OBVIOUS
  <2>2. Consistent(tx) /\ tx.gens = gens
    BY <1>1, <2>1, CompactionApart
  <2>3. Live(gens[t])
    BY <1>2 DEF Prepared, Runs
  <2>4. PICK r : r = [gens[t] EXCEPT !.phase = "request"]
    OBVIOUS
  <2>5. /\ r \in GenSet /\ Live(r) /\ r.compacted = gens[t].compacted /\ r.calls = gens[t].calls
        /\ r.phase # "tools"
    BY <1>1, <2>4 DEF GenSet, Live
  <2>6. PICK new : new = [tx EXCEPT !.gens = [tx.gens EXCEPT ![t] = r]]
    OBVIOUS
  <2>7. Consistent(new)
    BY <2>2, <2>3, <2>5, <2>6, GenerationChanged
  <2>8. new = [tx EXCEPT !.gens[t].phase = "request"]
    BY <2>2, <2>4, <2>6
  <2> QED
    BY <1>2, <2>1, <2>7, <2>8 DEF Prepared
<1>3. ASSUME Retry(t)
      PROVE  \E tx : Commit(tx) /\ Consistent(tx)
  <2>1. Live(gens[t]) /\ gens[t].attempt <= MaxRetries
    BY <1>3 DEF Retry, Runs
  <2>2. PICK n \in 1 .. MaxRetries + 1 : n = gens[t].attempt + 1
    <3>1. gens[t].attempt \in Nat /\ MaxRetries \in Nat /\ 1 <= gens[t].attempt
      BY <1>1, SubmissionsAssumption DEF GenSet
    <3> QED
      BY <2>1, <3>1
  <2>3. PICK r : r = [gens[t] EXCEPT !.phase = "prepare", !.attempt = n, !.overflow = FALSE]
    OBVIOUS
  <2>4. /\ r \in GenSet /\ Live(r) /\ r.compacted = gens[t].compacted /\ r.calls = gens[t].calls
        /\ r.phase # "tools"
    BY <1>1, <2>3 DEF GenSet, Live
  <2>5. PICK new : new = [Begin EXCEPT !.gens = [Begin.gens EXCEPT ![t] = r]]
    OBVIOUS
  <2>6. Consistent(new)
    BY <1>1, <2>1, <2>4, <2>5, GenerationChanged
  <2>7. new = [Begin EXCEPT !.gens[t].phase = "prepare", !.gens[t].attempt = n,
                            !.gens[t].overflow = FALSE]
    BY <1>1, <2>3, <2>5
  <2>8. [Begin EXCEPT !.gens[t].phase = "prepare", !.gens[t].attempt = @ + 1,
                      !.gens[t].overflow = FALSE]
        = [Begin EXCEPT !.gens[t].phase = "prepare", !.gens[t].attempt = n,
                        !.gens[t].overflow = FALSE]
    BY <1>1, <2>2
  <2>9. Commit(new)
    BY <1>3, <2>7, <2>8 DEF Retry
  <2> QED
    BY <2>6, <2>9
<1> QED
  BY <1>2, <1>3

\* A task is marked.
LEMMA MarkStep ==
  ASSUME Inv, AbortTask \/ \E c \in DOMAIN comps : Cascade(c)
  PROVE  \E tx : Commit(tx) /\ Consistent(tx)
<1>1. /\ Begin \in TX /\ Begin.gens = gens /\ Begin.comps = comps /\ Begin.log = log
      /\ Begin.listed = listed /\ Consistent(Begin)
      /\ \A c \in DOMAIN comps : comps[c] \in CompSet /\ comps[c].firstKept <= Len(log)
      /\ \A t \in DOMAIN gens : gens[t] \in GenSet
  BY TypesOfWork
<1>2. ASSUME NEW t \in DOMAIN gens, Commit([Begin EXCEPT !.gens[t].mark = TRUE])
      PROVE  \E tx : Commit(tx) /\ Consistent(tx)
  <2>1. PICK r : r = [gens[t] EXCEPT !.mark = TRUE]
    OBVIOUS
  <2>2. gens[t] \in GenSet
    BY <1>1
  <2>3. /\ r \in GenSet /\ (Live(r) <=> Live(gens[t])) /\ r.compacted = gens[t].compacted
        /\ r.calls = gens[t].calls /\ r.phase = gens[t].phase
    BY <2>1, <2>2 DEF GenSet, Live
  <2>4. PICK new : new = [Begin EXCEPT !.gens = [Begin.gens EXCEPT ![t] = r]]
    OBVIOUS
  <2>5. Consistent(new)
    BY <1>1, <2>3, <2>4, GenerationChanged
  <2>6. new = [Begin EXCEPT !.gens[t].mark = TRUE]
    BY <1>1, <2>1, <2>4
  <2> QED
    BY <1>2, <2>5, <2>6
<1>3. ASSUME NEW c \in DOMAIN comps, Commit([Begin EXCEPT !.comps[c].mark = TRUE])
      PROVE  \E tx : Commit(tx) /\ Consistent(tx)
  <2>1. PICK r : r = [comps[c] EXCEPT !.mark = TRUE]
    OBVIOUS
  <2>2. comps[c] \in CompSet
    BY <1>1
  <2>3. /\ r \in CompSet /\ (Live(r) <=> Live(comps[c])) /\ r.owner = comps[c].owner
        /\ r.firstKept = comps[c].firstKept /\ r.phase = comps[c].phase
    BY <2>1, <2>2 DEF CompSet, Live
  <2>4. PICK new : new = [Begin EXCEPT !.comps = [Begin.comps EXCEPT ![c] = r], !.listed = listed]
    OBVIOUS
  <2>5. Consistent(new)
    <3>1. Becomes(Begin, c, r, listed, new)
      BY <1>1, <2>3, <2>4 DEF Becomes
    <3> QED
      BY <1>1, <3>1, CompactionChanged
  <2>6. new = [Begin EXCEPT !.comps[c].mark = TRUE]
    BY <1>1, <2>1, <2>4 DEF TX
  <2> QED
    BY <1>3, <2>5, <2>6
<1> QED
  BY <1>2, <1>3 DEF AbortTask, Cascade

LEMMA CompactStep ==
  ASSUME Inv, Compact
  PROVE  \E tx : Commit(tx) /\ Consistent(tx)
BY CompactionApart DEF Compact

LEMMA SelectStep ==
  ASSUME Inv, NEW c \in DOMAIN comps, NEW firstKept \in Cuts, Select(c, firstKept)
  PROVE  \E tx : Commit(tx) /\ Consistent(tx)
<1>1. /\ Begin \in TX /\ Begin.comps = comps /\ Begin.log = log
      /\ Begin.listed = listed /\ Consistent(Begin) /\ comps[c] \in CompSet
  BY TypesOfWork
<1>2. Live(comps[c])
  BY DEF Select, Works
<1>3. PICK n \in Nat : n = Len(log) /\ DOMAIN log = 1..n
  <2>1. Len(log) \in Nat /\ DOMAIN log = 1..Len(log)
    BY <1>1, Fields
  <2> QED
    BY <2>1
<1>4. firstKept \in 1..n /\ firstKept >= ActiveHead(log)
  BY <1>3 DEF Cuts
<1>5. Above(log, firstKept)
  <2>1. ActiveHead(log) \in Nat /\ Above(log, ActiveHead(log))
    BY BeginIs, ActiveHeadIs DEF State
  <2>2. \A i \in DOMAIN log : log[i].head \in Nat
    BY <1>1, Fields
  <2> QED
    BY <1>4, <2>1, <2>2 DEF Above
<1>6. PICK r : r = [comps[c] EXCEPT !.phase = "summarize", !.firstKept = firstKept]
  OBVIOUS
<1>7. r \in CompSet /\ r.owner = comps[c].owner /\ r.firstKept = firstKept
  <2>1. firstKept \in Nat
    BY <1>4
  <2> QED
    BY <1>1, <1>6, <2>1 DEF CompSet
<1>8. PICK new : new = [Begin EXCEPT !.comps = [Begin.comps EXCEPT ![c] = r], !.listed = listed]
  OBVIOUS
<1>9. Consistent(new)
  <2>1. Becomes(Begin, c, r, listed, new)
    BY <1>1, <1>2, <1>3, <1>4, <1>5, <1>7, <1>8 DEF Becomes
  <2> QED
    BY <1>1, <2>1, CompactionChanged
<1>10. new = [Begin EXCEPT !.comps[c].phase = "summarize", !.comps[c].firstKept = firstKept]
  BY <1>1, <1>6, <1>8 DEF TX
<1> QED
  BY <1>9, <1>10 DEF Select

\* A compaction ends.
LEMMA DoneIs ==
  ASSUME Inv, NEW c \in DOMAIN comps
  PROVE  LET new == CompactionDone(Begin, c)
         IN  /\ Consistent(new) /\ new.gens = gens /\ new.log = log /\ new.head = Begin.head
             /\ new.run = run /\ DOMAIN new.comps = DOMAIN comps /\ new.sub = sub
             /\ ~ Live(new.comps[c]) /\ new.comps[c] \in CompSet
             /\ new.comps[c].owner = comps[c].owner
             /\ \A d \in DOMAIN comps : d # c => new.comps[d] = comps[d]
<1>1. PICK begin : begin = Begin
  OBVIOUS
<1>2. /\ begin \in TX /\ begin.comps = comps /\ begin.log = log /\ begin.gens = gens
      /\ begin.listed = listed /\ Consistent(begin) /\ comps[c] \in CompSet
      /\ begin.run = run /\ begin.sub = sub
  BY <1>1, TypesOfWork, BeginIs
<1>3. PICK r : r = [Compaction(comps[c].owner, comps[c].manual) EXCEPT !.phase = "terminal"]
  OBVIOUS
<1>4. r \in CompSet /\ r.owner = comps[c].owner /\ ~ Live(r) /\ r.firstKept = 0
  <2>1. comps[c].owner \in Nat /\ comps[c].manual \in BOOLEAN
    BY <1>2 DEF CompSet
  <2>2. r = [phase |-> "terminal", owner |-> comps[c].owner, manual |-> comps[c].manual,
             firstKept |-> 0, placed |-> FALSE, mark |-> FALSE]
    BY <1>3 DEF Compaction
  <2>3. r \in CompSet
    BY <2>1, <2>2 DEF CompSet
  <2>4. r.owner = comps[c].owner /\ r.phase = "terminal" /\ r.firstKept = 0
    BY <2>2
  <2> QED
    BY <2>3, <2>4 DEF Live
<1>5. PICK shown : shown = listed \ {c}
  OBVIOUS
<1>6. PICK new : new = [begin EXCEPT !.comps = [begin.comps EXCEPT ![c] = r], !.listed = shown]
  OBVIOUS
<1>7. /\ Consistent(new) /\ new.gens = begin.gens /\ new.log = begin.log /\ new.head = begin.head
      /\ new.run = begin.run
      /\ DOMAIN new.comps = DOMAIN begin.comps /\ new.comps[c] = r /\ new.sub = begin.sub
      /\ \A d \in DOMAIN begin.comps : d # c => new.comps[d] = begin.comps[d]
  <2>1. 0 <= Len(begin.log)
    BY <1>2, Fields
  <2>2. Becomes(begin, c, r, shown, new)
    BY <1>2, <1>4, <1>5, <1>6, <2>1 DEF Becomes
  <2> QED
    BY <1>2, <2>2, CompactionChanged
<1>8. CompactionDone(begin, c) = new
  BY <1>2, <1>3, <1>5, <1>6 DEF CompactionDone
<1> QED
  BY <1>1, <1>2, <1>4, <1>7, <1>8

LEMMA CompactionEndsStep ==
  ASSUME Inv, NEW c \in DOMAIN comps,
         CompactionEnds(c) \/ AbortCompaction(c) \/ CompactionFaults(c)
  PROVE  \E tx : Commit(tx) /\ Consistent(tx)
<1>1. Commit(CompactionDone(Begin, c))
  BY DEF CompactionEnds, AbortCompaction, CompactionFaults
<1> QED
  BY <1>1, DoneIs

\* The work's numbers stay those of what exists when the transcript grows.
LEMMA RefsStay ==
  ASSUME NEW tx \in TX, NEW n, n = Len(tx.log), WorkRefs(tx.log, tx.gens, tx.comps, tx.listed),
         NEW longer, NEW m \in Nat, m = Len(longer), n <= m
  PROVE  WorkRefs(longer, tx.gens, tx.comps, tx.listed)
<1>1. n \in Nat /\ tx.gens \in Seq(GenSet) /\ tx.comps \in Seq(CompSet)
  BY Fields
<1>2. ASSUME NEW r \in DOMAIN tx.gens
      PROVE  tx.gens[r].calls <= m
  <2>1. tx.gens[r].calls <= n
    BY DEF WorkRefs
  <2>2. tx.gens[r] \in GenSet
    BY <1>1
  <2>3. tx.gens[r].calls \in Nat
    BY <2>2 DEF GenSet
  <2> QED
    BY <1>1, <2>1, <2>3
<1>3. ASSUME NEW c \in DOMAIN tx.comps
      PROVE  tx.comps[c].firstKept <= m
  <2>1. tx.comps[c].firstKept <= n
    BY DEF WorkRefs
  <2>2. tx.comps[c] \in CompSet
    BY <1>1
  <2>3. tx.comps[c].firstKept \in Nat
    BY <2>2 DEF CompSet
  <2> QED
    BY <1>1, <2>1, <2>3
<1> QED
  BY <1>2, <1>3 DEF WorkRefs

\* An entry that belongs to no submission and does not cut the history off,
\* while no generation waits for a compaction.
LEMMA EntryAdded ==
  ASSUME NEW tx, Consistent(tx), Unowned(tx.comps), NEW kind \in Kinds,
         NEW head \in Nat, head <= Len(tx.log), Above(tx.log, head),
         NEW new, new = AppendEntry(tx, kind, head, 0)
  PROVE  Consistent(new) /\ new.comps = tx.comps /\ new.listed = tx.listed
<1>1. /\ tx \in TX /\ Written(tx.log, tx.sub) /\ Queue(tx.sub, tx.inbox)
      /\ WorkRefs(tx.log, tx.gens, tx.comps, tx.listed)
      /\ RunShape(tx.run, tx.gens) /\ RunOpen(tx.log, tx.sub, tx.gens)
      /\ Placed(tx.sub) = ToSet(tx.run.inputs) /\ Alive(tx.gens) = {tx.run.task} \ {0}
  BY DEF Consistent, State
<1>2. PICK n \in Nat : n = Len(tx.log)
  BY <1>1, Fields
<1>3. head \in Nat \cup {SelfHead} /\ head # SelfHead
  BY DEF SelfHead
<1>4. /\ new \in TX /\ SameWork(tx, new) /\ new.sub = tx.sub
      /\ Written(new.log, new.sub)
      /\ Len(new.log) = n + 1 /\ DOMAIN new.log = 1..(n + 1) /\ DOMAIN tx.log = 1..n
      /\ \A i \in DOMAIN tx.log : new.log[i] = tx.log[i]
      /\ new.log[n + 1].head = IF head = SelfHead THEN n + 1 ELSE head
  BY <1>1, <1>2, <1>3, EntryOnly
<1>5. WorkRefs(new.log, tx.gens, tx.comps, tx.listed)
  <2>1. n + 1 \in Nat /\ n <= n + 1
    OBVIOUS
  <2>2. PICK m, longer : m = n + 1 /\ longer = new.log
    OBVIOUS
  <2> QED
    BY <1>1, <1>2, <1>4, <2>1, <2>2, RefsStay
<1>6. \A i \in DOMAIN new.log : n < i => new.log[i].head # i
  <2>1. \A i \in 1..(n + 1) : n < i => i = n + 1
    OBVIOUS
  <2>2. head # n + 1
    BY <1>2
  <2> QED
    BY <1>3, <1>4, <2>1, <2>2
<1>7. RunOpen(new.log, tx.sub, tx.gens)
  <2>1. ASSUME NEW s \in Placed(tx.sub)
        PROVE  Open(new.log, tx.sub[s].entry, (n + 1) + 1)
    <3>1. PICK from \in Nat : from = tx.sub[s].entry
      BY <1>1, Fields DEF Placed
    <3>2. Open(tx.log, from, n + 1)
      BY <1>1, <1>2, <3>1 DEF RunOpen
    <3>3. PICK entries, longer, m : entries = tx.log /\ longer = new.log /\ m = n + 1
      OBVIOUS
    <3>4. m \in Nat /\ n <= m
      BY <3>3
    <3>5. /\ DOMAIN entries = 1..n /\ DOMAIN longer = 1..m
          /\ \A i \in DOMAIN entries : longer[i] = entries[i]
          /\ \A i \in DOMAIN longer : n < i => longer[i].head # i
          /\ Open(entries, from, n + 1)
      BY <1>4, <1>6, <3>2, <3>3
    <3>6. /\ \A to \in Nat : to <= n + 1 => Open(longer, from, to)
          /\ (\A i \in DOMAIN longer : n < i => longer[i].head # i) => Open(longer, from, m + 1)
      BY SMTT(30), <3>1, <3>4, <3>5, StillOpen
    <3>7. Open(longer, from, m + 1)
      BY <3>5, <3>6
    <3> QED
      BY <3>1, <3>3, <3>7
  <2> QED
    BY <1>1, <1>4, <2>1 DEF RunOpen
<1>8. Waits(new.log, tx.gens, tx.comps)
  BY DEF Unowned, Waits
<1> QED
  BY <1>1, <1>4, <1>5, <1>7, <1>8 DEF Consistent, State, SameWork

\* A compaction that a generation waits for appends its summary.
LEMMA SummaryStep ==
  ASSUME Inv, NEW c \in DOMAIN comps, comps[c].owner # 0, NEW modes, PlaceSummary(c, modes)
  PROVE  \E tx : Commit(tx) /\ Consistent(tx)
<1>1. PICK done, entry : /\ done = CompactionDone(Begin, c)
                         /\ entry = AppendEntry(done, "summary", comps[c].firstKept, 0)
  OBVIOUS
<1>2. /\ Consistent(done) /\ done.log = log /\ DOMAIN done.comps = DOMAIN comps
      /\ ~ Live(done.comps[c]) /\ done.comps[c] \in CompSet
      /\ done.comps[c].owner = comps[c].owner
      /\ \A d \in DOMAIN comps : d # c => done.comps[d] = comps[d]
  BY <1>1, DoneIs
<1>3. Live(comps[c]) /\ comps[c].phase = "summarize"
  BY DEF PlaceSummary, Works
<1>4. State(log, sub, inbox, run, gens, comps, listed)
  BY BeginIs
<1>5. PICK kept \in Nat : kept = comps[c].firstKept /\ kept <= Len(log) /\ Above(log, kept)
  <2>1. comps[c] \in CompSet /\ comps[c].firstKept <= Len(log)
    BY TypesOfWork
  <2>2. comps[c].firstKept \in Nat
    BY <2>1 DEF CompSet
  <2>3. Above(log, comps[c].firstKept)
    BY <1>3, <1>4 DEF State, Waits
  <2> QED
    BY <2>1, <2>2, <2>3
<1>6. Unowned(done.comps)
  <2>1. SUFFICES ASSUME NEW d \in DOMAIN comps, Live(done.comps[d]), done.comps[d].owner # 0
                 PROVE  FALSE
    BY <1>2 DEF Unowned
  <2>2. d # c /\ Live(comps[d]) /\ comps[d].owner # 0
    BY <1>2, <2>1
  <2>3. /\ gens[comps[d].owner].compacted = d /\ comps[d].owner \in {run.task}
        /\ gens[comps[c].owner].compacted = c /\ comps[c].owner \in {run.task}
    BY <1>3, <1>4, <2>2 DEF State, Waits
  <2> QED
    BY <2>2, <2>3
<1>7. "summary" \in Kinds
  BY DEF Kinds
<1>8. Consistent(entry) /\ entry.comps = done.comps /\ entry.listed = done.listed
  BY <1>1, <1>2, <1>5, <1>6, <1>7, EntryAdded
<1>9. PICK r : r = [done.comps[c] EXCEPT !.placed = TRUE]
  OBVIOUS
<1>10. /\ r \in CompSet /\ ~ Live(r) /\ r.owner = done.comps[c].owner
       /\ r.firstKept = done.comps[c].firstKept
  BY <1>2, <1>9 DEF CompSet, Live
<1>11. PICK new : new = [entry EXCEPT !.comps = [entry.comps EXCEPT ![c] = r],
                                      !.listed = entry.listed]
  OBVIOUS
<1>12. WorkRefs(entry.log, entry.gens, entry.comps, entry.listed) /\ entry \in TX
  BY <1>8 DEF Consistent, State
<1>13. Becomes(entry, c, r, entry.listed, new)
  BY <1>2, <1>8, <1>10, <1>11, <1>12 DEF Becomes, WorkRefs
<1>14. Consistent(new)
  BY <1>8, <1>13, CompactionChanged
<1>15. new = [entry EXCEPT !.comps[c].placed = TRUE]
  BY <1>8, <1>9, <1>11, <1>12 DEF TX
<1>16. Commit([AppendEntry(done, "summary", comps[c].firstKept, 0) EXCEPT !.comps[c].placed = TRUE])
  BY <1>1 DEF PlaceSummary, Draft
<1> QED
  BY <1>1, <1>14, <1>15, <1>16

-----------------------------------------------------------------------------
(* Queued submissions are withdrawn.                                       *)

LEMMA Withdrawn ==
  ASSUME NEW tx, Consistent(tx), NEW gone,
         \A s \in gone : s \in DOMAIN tx.sub /\ tx.sub[s].status = "queued"
  PROVE  Consistent(Withdraw(tx, gone))
<1>1. /\ tx \in TX /\ Written(tx.log, tx.sub) /\ Queue(tx.sub, tx.inbox)
      /\ WorkRefs(tx.log, tx.gens, tx.comps, tx.listed)
      /\ RunShape(tx.run, tx.gens) /\ RunOpen(tx.log, tx.sub, tx.gens)
      /\ Waits(tx.log, tx.gens, tx.comps)
      /\ Placed(tx.sub) = ToSet(tx.run.inputs) /\ Alive(tx.gens) = {tx.run.task} \ {0}
  BY DEF Consistent, State
<1>2. PICK left : left = LeaveUnanswered(tx, gone)
  OBVIOUS
<1>3. /\ left \in TX /\ SameWork(tx, left) /\ left.log = tx.log
      /\ DOMAIN left.sub = DOMAIN tx.sub
      /\ \A s \in DOMAIN tx.sub :
           /\ left.sub[s].mode = tx.sub[s].mode /\ left.sub[s].head = tx.sub[s].head
           /\ left.sub[s].entry = tx.sub[s].entry /\ left.sub[s].answer = tx.sub[s].answer
           /\ IF s \in gone /\ tx.sub[s].status \in {"queued", "placed"}
              THEN left.sub[s].status = "unanswered"
              ELSE left.sub[s] = tx.sub[s]
  BY <1>1, <1>2, LeaveUnansweredIs
<1>4. \A s \in DOMAIN tx.sub : IF s \in gone THEN left.sub[s].status = "unanswered"
                                             ELSE left.sub[s] = tx.sub[s]
  BY <1>3
<1>5. Written(left.log, left.sub)
  <2>1. PICK entries, subs, new : entries = tx.log /\ subs = tx.sub /\ new = left.sub
    OBVIOUS
  <2>2. new \in Seq(SubSet)
    BY <1>3, <2>1, Fields
  <2>3. ASSUME NEW s \in DOMAIN subs, new[s] # subs[s]
        PROVE  /\ new[s].mode = subs[s].mode /\ new[s].head = subs[s].head
               /\ new[s].entry = subs[s].entry /\ new[s].status \in {"done", "unanswered"}
               /\ new[s].answer = 0
    <3>1. s \in gone
      BY <1>4, <2>1, <2>3
    <3>2. subs[s].status = "queued"
      BY <2>1, <3>1
    <3>3. subs[s].answer = 0
      BY <1>1, <2>1, <3>2 DEF Written, Statuses
    <3> QED
      BY <1>3, <1>4, <2>1, <3>1, <3>3
  <2> QED
    BY <1>1, <1>3, <2>1, <2>2, <2>3, RecordsSettled
<1>6. PICK kept, ids : kept = DOMAIN left.sub \ gone /\ ids = Selected(left.inbox, kept)
  OBVIOUS
<1>7. /\ ids \in Seq(Nat) /\ Rises(ids) /\ ToSet(ids) = ToSet(left.inbox) \cap kept
  <2>1. left.inbox \in Seq(Nat) /\ Rises(left.inbox)
    BY <1>1, <1>3, Fields DEF SameWork, Queue
  <2> QED
    BY <1>6, <2>1, SelectedIs
<1>8. Queue(left.sub, ids)
  <2>1. ToSet(left.inbox) = {s \in DOMAIN tx.sub : tx.sub[s].status = "queued"}
    BY <1>1, <1>3 DEF SameWork, Queue
  <2>2. \A s \in DOMAIN tx.sub :
          left.sub[s].status = "queued" <=> tx.sub[s].status = "queued" /\ s \notin gone
    BY <1>4
  <2>3. ToSet(ids) = {s \in DOMAIN left.sub : left.sub[s].status = "queued"}
    <3>1. PICK waiting : waiting = ToSet(left.inbox)
      OBVIOUS
    <3>2. \A s \in kept : s \in DOMAIN tx.sub /\ s \notin gone
      BY <1>3, <1>6
    <3>3. \A s \in DOMAIN tx.sub : s \notin gone => s \in kept
      BY <1>3, <1>6
    <3> QED
      BY <1>3, <1>7, <2>1, <2>2, <3>1, <3>2, <3>3
  <2> QED
    BY <1>7, <2>3 DEF Queue
<1>9. Placed(left.sub) = Placed(tx.sub) /\ \A s \in Placed(tx.sub) : left.sub[s] = tx.sub[s]
  BY <1>3, <1>4 DEF Placed
<1>10. RunOpen(tx.log, left.sub, tx.gens)
  BY <1>1, <1>9 DEF RunOpen
<1>11. PICK new : new = [left EXCEPT !.inbox = ids]
  OBVIOUS
<1>12. /\ new \in TX /\ new.inbox = ids /\ new.log = tx.log /\ new.sub = left.sub
       /\ new.run = tx.run /\ new.gens = tx.gens /\ new.comps = tx.comps
       /\ new.listed = tx.listed
  BY <1>3, <1>7, <1>11 DEF TX, SameWork
<1>13. Withdraw(tx, gone) = new
  BY <1>2, <1>6, <1>11 DEF Withdraw, RemoveItems
<1> QED
  BY <1>1, <1>3, <1>5, <1>8, <1>9, <1>10, <1>12, <1>13 DEF Consistent, State

LEMMA WithdrawStep ==
  ASSUME Inv, \E s \in DOMAIN sub : AbortSubmission(s)
  PROVE  \E tx : Commit(tx) /\ Consistent(tx)
<1>1. PICK s \in DOMAIN sub : sub[s].status = "queued" /\ Commit(Withdraw(Begin, {s}))
  BY DEF AbortSubmission
<1>2. Consistent(Begin) /\ Begin.sub = sub
  BY BeginIs
<1>3. PICK gone : gone = {s}
  OBVIOUS
<1>4. \A q \in gone : q \in DOMAIN Begin.sub /\ Begin.sub[q].status = "queued"
  BY <1>1, <1>2, <1>3
<1>5. Consistent(Withdraw(Begin, gone))
  BY <1>2, <1>4, Withdrawn
<1> QED
  BY <1>1, <1>3, <1>5

LEMMA AbortConversationStep ==
  ASSUME Inv, \E background \in BOOLEAN : AbortConversation(background)
  PROVE  \E tx : Commit(tx) /\ Consistent(tx)
<1>1. PICK background \in BOOLEAN : AbortConversation(background)
  OBVIOUS
<1>2. /\ Begin \in TX /\ Begin.gens = gens /\ Begin.comps = comps /\ Begin.log = log
      /\ Begin.listed = listed /\ Consistent(Begin)
      /\ gens \in Seq(GenSet) /\ comps \in Seq(CompSet)
      /\ \A c \in DOMAIN comps : comps[c] \in CompSet /\ comps[c].firstKept <= Len(log)
      /\ \A t \in DOMAIN gens : gens[t] \in GenSet
  BY TypesOfWork
<1>3. PICK g : g = [t \in DOMAIN gens |-> [gens[t] EXCEPT !.mark = @ \/ Live(gens[t])]]
  OBVIOUS
<1>4. PICK w : w = [c \in DOMAIN comps |->
                      [comps[c] EXCEPT !.mark = @ \/ (Live(comps[c])
                                                       /\ (Apart(comps[c]) => background))]]
  OBVIOUS
<1>5. ASSUME NEW t \in DOMAIN gens
      PROVE  /\ g[t] \in GenSet /\ (Live(g[t]) <=> Live(gens[t]))
             /\ g[t].compacted = gens[t].compacted /\ g[t].calls = gens[t].calls
             /\ g[t].phase = gens[t].phase
  <2>1. PICK mark \in BOOLEAN : mark = (gens[t].mark \/ Live(gens[t]))
    OBVIOUS
  <2>2. g[t] = [gens[t] EXCEPT !.mark = mark]
    BY <1>3, <2>1
  <2> QED
    BY <1>2, <2>2 DEF GenSet, Live
<1>6. ASSUME NEW c \in DOMAIN comps
      PROVE  /\ w[c] \in CompSet /\ (Live(w[c]) <=> Live(comps[c]))
             /\ w[c].owner = comps[c].owner /\ w[c].firstKept = comps[c].firstKept
             /\ w[c].phase = comps[c].phase
  <2>1. PICK mark \in BOOLEAN :
          mark = (comps[c].mark \/ (Live(comps[c]) /\ (Apart(comps[c]) => background)))
    OBVIOUS
  <2>2. w[c] = [comps[c] EXCEPT !.mark = mark]
    BY <1>4, <2>1
  <2> QED
    BY <1>2, <2>2 DEF CompSet, Live
<1>7. g \in Seq(GenSet) /\ DOMAIN g = DOMAIN gens
  <2>1. DOMAIN g = DOMAIN gens /\ g = [t \in DOMAIN g |-> g[t]]
    BY <1>3
  <2> QED
    BY <1>2, <1>5, <2>1, SameDomain
<1>8. w \in Seq(CompSet) /\ DOMAIN w = DOMAIN comps
  <2>1. DOMAIN w = DOMAIN comps /\ w = [c \in DOMAIN w |-> w[c]]
    BY <1>4
  <2> QED
    BY <1>2, <1>6, <2>1, SameDomain
<1>9. PICK marked : marked = [Begin EXCEPT !.gens = g, !.comps = w]
  OBVIOUS
<1>10. /\ marked \in TX /\ marked.log = Begin.log /\ marked.sub = Begin.sub
       /\ marked.inbox = Begin.inbox /\ marked.run = Begin.run /\ marked.gens = g
       /\ marked.comps = w /\ marked.listed = Begin.listed
  BY <1>2, <1>7, <1>8, <1>9 DEF TX
<1>11. Consistent(marked)
  <2>1. marked.listed \subseteq DOMAIN Begin.comps
    BY <1>2, <1>10 DEF Consistent, State, WorkRefs
  <2>2. \A t \in DOMAIN Begin.gens :
          /\ Live(marked.gens[t]) <=> Live(Begin.gens[t])
          /\ marked.gens[t].compacted = Begin.gens[t].compacted
          /\ marked.gens[t].calls = Begin.gens[t].calls
          /\ marked.gens[t].phase = "tools" => Begin.gens[t].phase = "tools"
    BY <1>2, <1>5, <1>10
  <2>3. \A c \in DOMAIN Begin.comps :
          /\ Live(marked.comps[c]) => Live(Begin.comps[c])
          /\ marked.comps[c].owner = Begin.comps[c].owner
          /\ marked.comps[c].firstKept <= Len(Begin.log)
          /\ Live(marked.comps[c]) /\ marked.comps[c].owner # 0
             /\ marked.comps[c].phase = "summarize" =>
               \/ /\ Begin.comps[c].phase = "summarize"
                  /\ marked.comps[c].firstKept = Begin.comps[c].firstKept
               \/ Above(Begin.log, marked.comps[c].firstKept)
    BY <1>2, <1>6, <1>10
  <2>4. DOMAIN marked.gens = DOMAIN Begin.gens /\ DOMAIN marked.comps = DOMAIN Begin.comps
    BY <1>2, <1>7, <1>8, <1>10
  <2> QED
    BY <1>2, <1>10, <2>1, <2>2, <2>3, <2>4, WorkChanged
<1>12. PICK gone : gone = QueuedInputs(marked)
  OBVIOUS
<1>13. \A s \in gone : s \in DOMAIN marked.sub /\ marked.sub[s].status = "queued"
  BY <1>11, <1>12 DEF QueuedInputs, Consistent, State, Queue
<1>14. Consistent(Withdraw(marked, gone))
  BY <1>11, <1>13, Withdrawn
<1>15. Commit(Withdraw(marked, gone))
  BY <1>1, <1>3, <1>4, <1>9, <1>12 DEF AbortConversation
<1> QED
  BY <1>14, <1>15

-----------------------------------------------------------------------------
(* Admission.                                                              *)

DraftSet == [mode : Modes, head : Nat \cup {SelfHead}]

\* A draft the host or a compaction may submit to the transaction.
Drafted(tx, draft) == draft \in DraftSet /\ draft.head <= Len(tx.log)

LEMMA RecordIs ==
  ASSUME NEW draft \in DraftSet, NEW status \in {"queued", "placed", "done", "unanswered"},
         NEW entry \in Nat, NEW r, r = Submission(draft, status, entry)
  PROVE  /\ r \in SubSet /\ r.mode = draft.mode /\ r.head = draft.head /\ r.status = status
         /\ r.entry = entry /\ r.answer = 0
<1>1. draft.mode \in Modes /\ draft.head \in Nat \cup {SelfHead}
  BY DEF DraftSet
<1>2. r = [mode |-> draft.mode, head |-> draft.head, status |-> status, entry |-> entry,
           answer |-> 0]
  BY DEF Submission
<1>3. r \in SubSet
  BY <1>1, <1>2 DEF SubSet
<1> QED
  BY <1>2, <1>3

\* A record is added that is in no transcript.
Added(tx, draft, status, new) ==
  /\ tx \in TX /\ Written(tx.log, tx.sub) /\ Queue(tx.sub, tx.inbox) /\ Drafted(tx, draft)
  /\ status \in {"queued", "unanswered"}
  /\ new = [tx EXCEPT !.sub = Append(tx.sub, Submission(draft, status, 0)),
                      !.inbox = IF status = "queued" THEN Append(tx.inbox, Len(tx.sub) + 1)
                                ELSE tx.inbox]

LEMMA AddedIs ==
  ASSUME NEW tx, NEW draft, NEW status, NEW new, Added(tx, draft, status, new)
  PROVE  /\ new \in TX /\ Written(new.log, new.sub) /\ Queue(new.sub, new.inbox)
         /\ new.log = tx.log /\ new.run = tx.run /\ new.gens = tx.gens /\ new.comps = tx.comps
         /\ new.listed = tx.listed /\ new.head = tx.head
         /\ Placed(new.sub) = Placed(tx.sub)
         /\ \A s \in Placed(tx.sub) : new.sub[s] = tx.sub[s]
<1>1. /\ tx \in TX /\ Written(tx.log, tx.sub) /\ Queue(tx.sub, tx.inbox)
      /\ draft \in DraftSet /\ draft.head <= Len(tx.log) /\ status \in {"queued", "unanswered"}
  BY DEF Added, Drafted
<1>2. PICK n \in Nat : n = Len(tx.sub)
  BY <1>1, Fields
<1>3. PICK r : r = Submission(draft, status, 0)
  OBVIOUS
<1>4. r \in SubSet /\ r.head = draft.head /\ r.status = status /\ r.entry = 0 /\ r.answer = 0
  BY <1>1, <1>3, RecordIs
<1>5. PICK subs : subs = Append(tx.sub, r)
  OBVIOUS
<1>6. /\ subs \in Seq(SubSet) /\ DOMAIN subs = 1..(n + 1) /\ DOMAIN tx.sub = 1..n
      /\ subs[n + 1] = r /\ \A s \in 1..n : subs[s] = tx.sub[s]
  <2>1. tx.sub \in Seq(SubSet)
    BY <1>1, Fields
  <2> QED
    BY <1>2, <1>4, <1>5, <2>1, Lengthened
<1>7. Written(tx.log, subs)
  <2>1. PICK entries, old : entries = tx.log /\ old = tx.sub
    OBVIOUS
  <2>2. Written(entries, Append(old, r))
    BY <1>1, <1>4, <2>1, RecordAdded
  <2> QED
    BY <1>5, <2>1, <2>2
<1>8. \A s \in 1..(n + 1) : s = n + 1 \/ s \in 1..n
  OBVIOUS
<1>9. \A s \in 1..n : s \in 1..(n + 1)
  OBVIOUS
<1>10. Placed(subs) = Placed(tx.sub)
  <2>1. subs[n + 1].status # "placed"
    BY <1>1, <1>4, <1>6
  <2> QED
    BY <1>6, <1>8, <1>9, <2>1 DEF Placed
<1>11. PICK ids : ids = IF status = "queued" THEN Append(tx.inbox, n + 1) ELSE tx.inbox
  OBVIOUS
<1>12. ids \in Seq(Nat) /\ Queue(subs, ids)
  <2>1. tx.inbox \in Seq(Nat)
    BY <1>1, Fields
  <2>2. ToSet(tx.inbox) = {s \in 1..n : tx.sub[s].status = "queued"} /\ Rises(tx.inbox)
    BY <1>1, <1>6 DEF Queue
  <2>3. CASE status = "unanswered"
    <3>1. subs[n + 1].status # "queued" /\ ids = tx.inbox
      BY <1>4, <1>6, <1>11, <2>3
    <3>2. {s \in 1..(n + 1) : subs[s].status = "queued"} = {s \in 1..n : tx.sub[s].status = "queued"}
      BY <1>6, <1>8, <1>9, <3>1
    <3> QED
      BY <1>6, <2>1, <2>2, <3>1, <3>2 DEF Queue
  <2>4. CASE status = "queued"
    <3>1. ids = Append(tx.inbox, n + 1)
      BY <1>11, <2>4
    <3>2. PICK l \in Nat : l = Len(tx.inbox)
      BY <2>1
    <3>3. n + 1 \in Nat
      BY <1>2
    <3>4. PICK last : last = n + 1
      OBVIOUS
    <3>5. /\ ids \in Seq(Nat) /\ Len(ids) = l + 1 /\ DOMAIN ids = 1..(l + 1)
          /\ DOMAIN tx.inbox = 1..l /\ ids[l + 1] = last
          /\ \A i \in 1..l : ids[i] = tx.inbox[i]
      BY <2>1, <3>1, <3>2, <3>3, <3>4, Lengthened
    <3>6. \A i \in 1..(l + 1) : i = l + 1 \/ i \in 1..l
      OBVIOUS
    <3>7. \A i \in 1..l : i \in 1..(l + 1)
      OBVIOUS
    <3>8. l + 1 \in 1..(l + 1)
      OBVIOUS
    <3>9. \A i \in 1..l : tx.inbox[i] \in ToSet(tx.inbox)
      BY <3>5 DEF ToSet
    <3>10. \A i \in 1..l : tx.inbox[i] \in Nat /\ tx.inbox[i] < last
      <4>1. \A s \in 1..n : s \in Nat /\ s < last
        BY <3>4
      <4> QED
        BY <2>2, <3>9, <4>1
    <3>11. Rises(ids)
      <4>1. ASSUME NEW i \in 1..(l + 1), NEW j \in 1..(l + 1), i < j
            PROVE  ids[i] < ids[j]
        <5>1. i \in 1..l
          BY <3>6, <4>1
        <5>2. CASE j = l + 1
          BY <3>5, <3>10, <5>1, <5>2
        <5>3. CASE j \in 1..l
          BY <2>2, <3>5, <4>1, <5>1, <5>3 DEF Rises
        <5> QED
          BY <3>6, <5>2, <5>3
      <4> QED
        BY <3>5, <4>1 DEF Rises
    <3>12. ToSet(ids) = ToSet(tx.inbox) \cup {last}
      <4>1. \A x \in ToSet(ids) : x \in ToSet(tx.inbox) \/ x = last
        BY <3>5, <3>6, <3>9 DEF ToSet
      <4>2. \A x \in ToSet(tx.inbox) : x \in ToSet(ids)
        BY <3>5, <3>7 DEF ToSet
      <4>3. last \in ToSet(ids)
        BY <3>5, <3>8 DEF ToSet
      <4> QED
        BY <4>1, <4>2, <4>3
    <3>13. {s \in 1..(n + 1) : subs[s].status = "queued"}
             = {s \in 1..n : tx.sub[s].status = "queued"} \cup {last}
      <4>1. subs[last].status = "queued" /\ last \in 1..(n + 1)
        BY <1>4, <1>6, <2>4, <3>4
      <4> QED
        BY <1>6, <1>8, <1>9, <3>4, <4>1
    <3>14. ToSet(ids) = {s \in DOMAIN subs : subs[s].status = "queued"}
      BY <1>6, <2>2, <3>12, <3>13
    <3> QED
      BY <3>5, <3>11, <3>14 DEF Queue
  <2> QED
    BY <1>1, <2>3, <2>4
<1>13. new = [tx EXCEPT !.sub = subs, !.inbox = ids]
  BY <1>2, <1>3, <1>5, <1>11 DEF Added
<1>14. /\ new \in TX /\ new.sub = subs /\ new.inbox = ids
       /\ new.log = tx.log /\ new.run = tx.run /\ new.gens = tx.gens /\ new.comps = tx.comps
       /\ new.listed = tx.listed /\ new.head = tx.head
  BY <1>1, <1>6, <1>12, <1>13 DEF TX
<1>15. \A s \in Placed(tx.sub) : subs[s] = tx.sub[s]
  BY <1>6 DEF Placed
<1> QED
  BY <1>7, <1>10, <1>12, <1>14, <1>15

\* A record is added with its entry, the queue being empty.
Entered(tx, draft, kind, head, status, new) ==
  /\ tx \in TX /\ Written(tx.log, tx.sub) /\ Queue(tx.sub, tx.inbox) /\ tx.inbox = <<>>
  /\ Drafted(tx, draft) /\ kind \in Kinds /\ head \in Nat \cup {SelfHead}
  /\ head = NoHead \/ head = SelfHead \/ (head <= Len(tx.log) /\ Above(tx.log, head))
  /\ status \in {"done", "placed"} /\ (status = "placed" => draft.mode # "write")
  /\ new = [tx EXCEPT !.log = AppendEntry(tx, kind, head, Len(tx.sub) + 1).log,
                      !.sub = Append(tx.sub, Submission(draft, status, Len(tx.log) + 1))]

LEMMA EnteredIs ==
  ASSUME NEW tx, NEW draft, NEW kind, NEW head, NEW status, NEW new,
         Entered(tx, draft, kind, head, status, new)
  PROVE  /\ new \in TX /\ Written(new.log, new.sub) /\ Queue(new.sub, new.inbox)
         /\ new.run = tx.run /\ new.gens = tx.gens /\ new.comps = tx.comps
         /\ new.listed = tx.listed /\ new.head = tx.head
         /\ Len(new.log) = Len(tx.log) + 1
         /\ Placed(new.sub) = Placed(tx.sub) \cup
                                (IF status = "placed" THEN {Len(tx.sub) + 1} ELSE {})
         /\ new.sub[Len(tx.sub) + 1].entry = Len(tx.log) + 1
<1>1. /\ tx \in TX /\ Written(tx.log, tx.sub) /\ Queue(tx.sub, tx.inbox) /\ tx.inbox = <<>>
      /\ draft \in DraftSet /\ draft.head <= Len(tx.log) /\ kind \in Kinds
      /\ head \in Nat \cup {SelfHead}
      /\ head = NoHead \/ head = SelfHead \/ (head <= Len(tx.log) /\ Above(tx.log, head))
      /\ status \in {"done", "placed"} /\ (status = "placed" => draft.mode # "write")
  BY DEF Entered, Drafted
<1>2. PICK n \in Nat, l \in Nat : n = Len(tx.sub) /\ l = Len(tx.log)
  <2>1. Len(tx.sub) \in Nat /\ Len(tx.log) \in Nat
    BY <1>1, Fields
  <2> QED
    BY <2>1
<1>3. PICK id \in Nat, own \in Nat : id = n + 1 /\ own = l + 1
  OBVIOUS
<1>4. PICK h : h = IF head = SelfHead THEN own ELSE head
  OBVIOUS
<1>5. PICK e : e = Entry(kind, h, id)
  OBVIOUS
<1>6. PICK mid : mid = AppendEntry(tx, kind, head, id)
  OBVIOUS
<1>7. /\ mid \in TX /\ mid.log = Append(tx.log, e)
      /\ e \in EntrySet /\ e.sub = id /\ e.head = h
  <2>1. own = Len(tx.log) + 1
    BY <1>2, <1>3
  <2> QED
    BY SMTT(30), <1>1, <1>3, <1>4, <1>5, <1>6, <2>1, AppendEntryIs
<1>8. PICK r : r = Submission(draft, status, own)
  OBVIOUS
<1>9. /\ r \in SubSet /\ r.mode = draft.mode /\ r.head = draft.head /\ r.status = status
      /\ r.entry = own /\ r.answer = 0
  BY <1>1, <1>3, <1>8, RecordIs
<1>10. PICK subs : subs = Append(tx.sub, r)
  OBVIOUS
<1>11. /\ subs \in Seq(SubSet) /\ DOMAIN subs = 1..(n + 1) /\ DOMAIN tx.sub = 1..n
       /\ subs[n + 1] = r /\ \A s \in 1..n : subs[s] = tx.sub[s]
  <2>1. tx.sub \in Seq(SubSet)
    BY <1>1, Fields
  <2> QED
    BY <1>2, <1>9, <1>10, <2>1, Lengthened
<1>12. \A s \in 1..(n + 1) : s = n + 1 \/ s \in 1..n
  OBVIOUS
<1>13. \A s \in 1..n : s \in 1..(n + 1) /\ s # n + 1 /\ s < n + 1
  OBVIOUS
<1>14. \A s \in 1..n : tx.sub[s].status # "queued"
  <2>1. ToSet(tx.inbox) = {}
    BY <1>1 DEF ToSet
  <2> QED
    BY <1>1, <1>11, <2>1 DEF Queue
<1>15. Written(mid.log, subs)
  <2>1. PICK entries, old : entries = tx.log /\ old = tx.sub
    OBVIOUS
  <2>2. own = Len(entries) + 1 /\ Len(entries) = l
    BY <1>2, <1>3, <2>1
  <2>3. e.head = NoHead \/ e.head = own \/ (e.head <= Len(entries) /\ Above(entries, e.head))
    BY <1>1, <1>4, <1>7, <2>1
  <2>4. DOMAIN subs = DOMAIN old \cup ({e.sub} \ {0})
    <3>1. e.sub # 0
      BY <1>3, <1>7
    <3>2. 1..(n + 1) = 1..n \cup {id}
      BY <1>3
    <3> QED
      BY <1>7, <1>11, <2>1, <3>1, <3>2
  <2>5. \A s \in DOMAIN old : s # e.sub => subs[s] = old[s]
    BY <1>11, <2>1
  <2>6. subs[e.sub] = r
    BY <1>3, <1>7, <1>11
  <2>7. r.head <= own
    <3>1. draft.head \in Int
      BY <1>1 DEF DraftSet, SelfHead
    <3> QED
      BY <1>1, <1>2, <1>3, <1>9, <3>1
  <2>8. /\ e.sub \notin DOMAIN old
        /\ \A s \in DOMAIN old : s < e.sub /\ ~ (e.sub < s) /\ old[s].status # "queued"
    BY <1>3, <1>7, <1>11, <1>13, <1>14, <2>1
  <2>9. Follows(entries, old, own, e, subs)
    BY <1>1, <1>3, <1>7, <1>9, <1>11, <2>2, <2>3, <2>4, <2>5, <2>6, <2>7, <2>8 DEF Follows
  <2>10. Written(Append(entries, e), subs)
    BY <1>1, <2>1, <2>9, EntryWritten
  <2> QED
    BY <1>7, <2>1, <2>10
<1>16. new = [tx EXCEPT !.log = mid.log, !.sub = subs]
  BY <1>2, <1>3, <1>6, <1>8, <1>10 DEF Entered
<1>17. /\ new \in TX /\ new.sub = subs /\ new.log = mid.log
       /\ new.inbox = tx.inbox /\ new.run = tx.run /\ new.gens = tx.gens
       /\ new.comps = tx.comps /\ new.listed = tx.listed /\ new.head = tx.head
  <2>1. mid.log \in Seq(EntrySet)
    BY <1>7, Fields
  <2> QED
    BY <1>1, <1>11, <1>16, <2>1 DEF TX
<1>18. Queue(subs, tx.inbox)
  <2>1. subs[n + 1].status # "queued"
    BY <1>1, <1>9, <1>11
  <2>2. {s \in DOMAIN subs : subs[s].status = "queued"} = {s \in DOMAIN tx.sub : tx.sub[s].status = "queued"}
    BY <1>11, <1>12, <1>13, <2>1
  <2> QED
    BY <1>1, <2>2 DEF Queue
<1>19. Placed(subs) = Placed(tx.sub) \cup (IF status = "placed" THEN {id} ELSE {})
  <2>1. subs[id] = r /\ id \in DOMAIN subs
    BY <1>3, <1>11
  <2>2. \A s \in DOMAIN subs : s = id \/ (s \in DOMAIN tx.sub /\ subs[s] = tx.sub[s])
    BY <1>3, <1>11, <1>12
  <2>3. \A s \in DOMAIN tx.sub : s \in DOMAIN subs /\ subs[s] = tx.sub[s]
    BY <1>11, <1>13
  <2> QED
    BY <1>9, <2>1, <2>2, <2>3 DEF Placed
<1>20. Len(mid.log) = l + 1
  <2>1. tx.log \in Seq(EntrySet)
    BY <1>1, Fields
  <2> QED
    BY <1>2, <1>7, <2>1, Lengthened
<1> QED
  BY <1>2, <1>3, <1>9, <1>11, <1>15, <1>17, <1>18, <1>19, <1>20

\* An idle conversation: nothing is placed and waits for an answer.
LEMMA Resting ==
  ASSUME NEW tx, Consistent(tx), tx.run = NoRun
  PROVE  Placed(tx.sub) = {} /\ Alive(tx.gens) = {} /\ Unowned(tx.comps)
<1>1. tx.run.task = 0 /\ tx.run.inputs = <<>> /\ ToSet(<<>>) = {}
  BY DEF NoRun, ToSet
<1>2. Placed(tx.sub) = {} /\ Alive(tx.gens) = {}
  BY <1>1 DEF Consistent, State
<1> QED
  BY <1>2 DEF Consistent, State, Waits, Unowned

\* What is admitted to an idle conversation, its run to be started.
LEMMA Admits ==
  ASSUME NEW tx, Consistent(tx), tx.run = NoRun,
         NEW new \in TX, Written(new.log, new.sub), Queue(new.sub, new.inbox),
         new.run = tx.run, new.gens = tx.gens, new.comps = tx.comps, new.listed = tx.listed,
         Len(tx.log) <= Len(new.log),
         NEW users \in Seq(Nat), IsInjective(users), Placed(new.sub) = ToSet(users),
         \A s \in Placed(new.sub) : Open(new.log, new.sub[s].entry, Len(new.log) + 1)
  PROVE  Between(new, users)
<1>1. tx \in TX /\ WorkRefs(tx.log, tx.gens, tx.comps, tx.listed)
  BY DEF Consistent, State
<1>2. Alive(tx.gens) = {} /\ Unowned(tx.comps)
  BY Resting
<1>0. PICK m \in Nat : m = Len(new.log)
  BY Fields
<1>3. PICK n, longer : n = Len(tx.log) /\ longer = new.log
  OBVIOUS
<1>4. WorkRefs(longer, tx.gens, tx.comps, tx.listed)
  <2>1. n = Len(tx.log) /\ m = Len(longer) /\ n <= m
    BY <1>0, <1>3
  <2> QED
    BY <1>1, <2>1, RefsStay
<1> QED
  BY <1>2, <1>3, <1>4 DEF Between

LEMMA Admitted ==
  ASSUME NEW tx, Consistent(tx), HeadKnown(tx), NEW draft, Drafted(tx, draft), NEW modes
  PROVE  Consistent(Admit(tx, draft, modes))
<1>1. /\ tx \in TX /\ Written(tx.log, tx.sub) /\ Queue(tx.sub, tx.inbox)
      /\ WorkRefs(tx.log, tx.gens, tx.comps, tx.listed)
      /\ RunShape(tx.run, tx.gens) /\ RunOpen(tx.log, tx.sub, tx.gens)
      /\ Waits(tx.log, tx.gens, tx.comps)
      /\ Placed(tx.sub) = ToSet(tx.run.inputs) /\ Alive(tx.gens) = {tx.run.task} \ {0}
  BY DEF Consistent, State
<1>2. PICK n \in Nat, l \in Nat : n = Len(tx.sub) /\ l = Len(tx.log)
  <2>1. Len(tx.sub) \in Nat /\ Len(tx.log) \in Nat
    BY <1>1, Fields
  <2> QED
    BY <2>1
<1>3. PICK id \in Nat, own \in Nat : id = Len(tx.sub) + 1 /\ own = Len(tx.log) + 1
  <2>1. Len(tx.sub) + 1 \in Nat /\ Len(tx.log) + 1 \in Nat
    BY <1>2
  <2> QED
    BY <2>1
<1>4. PICK queued : queued = [tx EXCEPT !.sub = Append(tx.sub, Submission(draft, "queued", 0)),
                                        !.inbox = Append(tx.inbox, id)]
  OBVIOUS
<1>5. /\ queued \in TX /\ Written(queued.log, queued.sub) /\ Queue(queued.sub, queued.inbox)
      /\ queued.log = tx.log /\ queued.run = tx.run /\ queued.gens = tx.gens
      /\ queued.comps = tx.comps /\ queued.listed = tx.listed /\ queued.head = tx.head
      /\ Placed(queued.sub) = Placed(tx.sub)
      /\ \A s \in Placed(tx.sub) : queued.sub[s] = tx.sub[s]
  <2>1. Added(tx, draft, "queued", queued)
    BY <1>1, <1>3, <1>4 DEF Added
  <2> QED
    BY <2>1, AddedIs
<1>6. PICK rest : rest = CASE tx.inbox # <<>> ->
                                LET boundary == ApplyBoundary(queued, "final", modes)
                                IN  StartRun(boundary.tx, boundary.users)
                           [] OTHER -> Admit(tx, draft, modes)
  OBVIOUS
<1>7. Admit(tx, draft, modes) = IF tx.run # NoRun THEN queued ELSE rest
  <2>1. Enqueue([tx EXCEPT !.sub = Append(tx.sub, Submission(draft, "queued", 0))], id) = queued
    BY <1>1, <1>4 DEF Enqueue, TX
  <2> QED
    BY <1>3, <1>6, <2>1 DEF Admit, QueuedAhead
<1>8. CASE tx.run # NoRun
  <2>1. RunOpen(queued.log, queued.sub, queued.gens)
    BY <1>1, <1>5 DEF RunOpen
  <2>2. Consistent(queued)
    BY <1>1, <1>5, <2>1 DEF Consistent, State
  <2> QED
    BY <1>7, <1>8, <2>2
<1>9. CASE tx.run = NoRun /\ tx.inbox # <<>>
  <2>1. PICK b : b = ApplyBoundary(queued, "final", modes)
    OBVIOUS
  <2>2. PICK after, users, reset : after = b.tx /\ users = b.users /\ reset = b.reset
    OBVIOUS
  <2>3. Boundary(queued, after, users, reset)
    <3>1. HeadKnown(queued)
      BY <1>5 DEF HeadKnown
    <3> QED
      BY <1>5, <2>1, <2>2, <3>1, BoundaryIs
  <2>4. /\ after \in TX /\ Written(after.log, after.sub) /\ Queue(after.sub, after.inbox)
        /\ after.run = tx.run /\ after.gens = tx.gens /\ after.comps = tx.comps
        /\ after.listed = tx.listed /\ Len(tx.log) <= Len(after.log)
        /\ users \in Seq(Nat) /\ IsInjective(users)
    BY <1>5, <2>3 DEF Boundary
  <2>5. Placed(after.sub) = ToSet(users)
    BY <1>5, <1>9, <2>3, Resting DEF Boundary
  <2>6. \A s \in Placed(after.sub) : Open(after.log, after.sub[s].entry, Len(after.log) + 1)
    <3>1. \A s \in Placed(after.sub) : s \in DOMAIN queued.sub
      BY <2>3 DEF Boundary, Placed
    <3> QED
      BY <2>3, <2>5, <3>1 DEF Boundary
  <2>7. Between(after, users)
    BY <1>9, <2>4, <2>5, <2>6, Admits
  <2>8. Consistent(StartRun(after, users))
    BY <1>9, <2>4, <2>7, Started
  <2> QED
    BY <1>6, <1>7, <1>9, <2>1, <2>2, <2>8
<1>10. ToSet(<<>>) = {} /\ IsInjective(<<>>) /\ <<>> \in Seq(Nat)
  BY DEF ToSet, IsInjective
<1>11. CASE tx.run = NoRun /\ tx.inbox = <<>> /\ draft.mode = "write" /\ Stale(tx, draft)
  <2>1. PICK new : new = [tx EXCEPT !.sub = Append(tx.sub, Submission(draft, "unanswered", 0)),
                                    !.inbox = tx.inbox]
    OBVIOUS
  <2>2. /\ new \in TX /\ Written(new.log, new.sub) /\ Queue(new.sub, new.inbox)
        /\ new.log = tx.log /\ new.run = tx.run /\ new.gens = tx.gens
        /\ new.comps = tx.comps /\ new.listed = tx.listed
        /\ Placed(new.sub) = {}
    <3>1. Added(tx, draft, "unanswered", new)
      BY <1>1, <2>1 DEF Added
    <3>2. Placed(tx.sub) = {}
      BY <1>11, Resting
    <3> QED
      BY <3>1, <3>2, AddedIs
  <2>3. PICK none : none = <<>> /\ none \in Seq(Nat)
    BY <1>10
  <2>4. Len(tx.log) <= Len(new.log)
    BY <1>2, <2>2
  <2>5. Between(new, none)
    BY <1>10, <1>11, <2>2, <2>3, <2>4, Admits
  <2>6. Consistent(new)
    BY <1>11, <2>2, <2>3, <2>5, Idle
  <2>7. Admit(tx, draft, modes) = [tx EXCEPT !.sub = Append(tx.sub, Submission(draft, "unanswered", 0))]
    BY <1>11 DEF Admit, QueuedAhead
  <2>8. new = [tx EXCEPT !.sub = Append(tx.sub, Submission(draft, "unanswered", 0))]
    BY <1>1, <2>1 DEF TX
  <2> QED
    BY <2>6, <2>7, <2>8
<1>12. CASE tx.run = NoRun /\ tx.inbox = <<>> /\ draft.mode = "write" /\ ~ Stale(tx, draft)
  <2>1. PICK mid : mid = AppendEntry(tx, "write", draft.head, id)
    OBVIOUS
  <2>2. mid = [tx EXCEPT !.log = mid.log]
    BY <1>1, <2>1 DEF AppendEntry, TX
  <2>3. PICK new : new = [tx EXCEPT !.log = mid.log,
                                    !.sub = Append(tx.sub, Submission(draft, "done", own))]
    OBVIOUS
  <2>4. Entered(tx, draft, "write", draft.head, "done", new)
    <3>1. "write" \in Kinds /\ draft.head \in Nat \cup {SelfHead} /\ draft.head <= Len(tx.log)
      BY DEF Kinds, Drafted, DraftSet
    <3>2. \/ draft.head = NoHead \/ draft.head = SelfHead
          \/ draft.head <= Len(tx.log) /\ Above(tx.log, draft.head)
      <4>1. SUFFICES ASSUME draft.head # NoHead, draft.head # SelfHead
                     PROVE  Above(tx.log, draft.head)
        BY <3>1
      <4>2. draft.head \in Nat /\ draft.head > NoHead
        BY <3>1, <4>1 DEF NoHead
      <4>3. tx.head \in Nat /\ tx.head <= draft.head
        BY <1>1, <1>12, <4>2, Fields DEF Stale
      <4>4. \A i \in DOMAIN tx.log : tx.log[i].head \in Nat /\ tx.log[i].head <= tx.head
        BY <1>1, Fields DEF HeadKnown, Above
      <4>5. \A h \in Nat : h <= tx.head => h <= draft.head
        BY <4>2, <4>3
      <4> QED
        BY <4>4, <4>5 DEF Above
    <3> QED
      BY <1>1, <1>3, <1>12, <2>1, <2>3, <3>1, <3>2 DEF Entered
  <2>5. /\ new \in TX /\ Written(new.log, new.sub) /\ Queue(new.sub, new.inbox)
        /\ new.run = tx.run /\ new.gens = tx.gens /\ new.comps = tx.comps
        /\ new.listed = tx.listed /\ Len(new.log) = Len(tx.log) + 1
        /\ Placed(new.sub) = {}
    <3>0. PICK kind, head, status : kind = "write" /\ head = draft.head /\ status = "done"
      OBVIOUS
    <3>3. Entered(tx, draft, kind, head, status, new)
      BY <2>4, <3>0
    <3>1. Placed(tx.sub) = {}
      BY <1>12, Resting
    <3>2. /\ new \in TX /\ Written(new.log, new.sub) /\ Queue(new.sub, new.inbox)
          /\ new.run = tx.run /\ new.gens = tx.gens /\ new.comps = tx.comps
          /\ new.listed = tx.listed /\ Len(new.log) = Len(tx.log) + 1
          /\ Placed(new.sub) = Placed(tx.sub) \cup
                                 (IF status = "placed" THEN {Len(tx.sub) + 1} ELSE {})
      BY <3>3, EnteredIs
    <3> QED
      BY <3>0, <3>1, <3>2
  <2>6. PICK none : none = <<>> /\ none \in Seq(Nat)
    BY <1>10
  <2>7. Len(tx.log) <= Len(new.log)
    BY <1>2, <2>5
  <2>8. Between(new, none)
    BY <1>10, <1>12, <2>5, <2>6, <2>7, Admits
  <2>9. Consistent(new)
    BY <1>12, <2>5, <2>6, <2>8, Idle
  <2>10. Admit(tx, draft, modes) = [mid EXCEPT !.sub = Append(@, Submission(draft, "done", own))]
    BY <1>3, <1>12, <2>1 DEF Admit, QueuedAhead
  <2>11. new = [mid EXCEPT !.sub = Append(@, Submission(draft, "done", own))]
    BY <1>1, <2>2, <2>3 DEF TX
  <2> QED
    BY <2>9, <2>10, <2>11
<1>13. CASE tx.run = NoRun /\ tx.inbox = <<>> /\ draft.mode # "write"
  <2>1. PICK mid : mid = AppendEntry(tx, "user", NoHead, id)
    OBVIOUS
  <2>2. mid = [tx EXCEPT !.log = mid.log]
    BY <1>1, <2>1 DEF AppendEntry, TX
  <2>3. PICK new : new = [tx EXCEPT !.log = mid.log,
                                    !.sub = Append(tx.sub, Submission(draft, "placed", own))]
    OBVIOUS
  <2>4. Entered(tx, draft, "user", NoHead, "placed", new)
    <3>1. "user" \in Kinds /\ NoHead \in Nat \cup {SelfHead}
      BY DEF Kinds, NoHead
    <3> QED
      BY <1>1, <1>3, <1>13, <2>1, <2>3, <3>1 DEF Entered
  <2>5. /\ new \in TX /\ Written(new.log, new.sub) /\ Queue(new.sub, new.inbox)
        /\ new.run = tx.run /\ new.gens = tx.gens /\ new.comps = tx.comps
        /\ new.listed = tx.listed /\ Len(new.log) = own
        /\ Placed(new.sub) = {id} /\ new.sub[id].entry = own
    <3>0. PICK status : status = "placed"
      OBVIOUS
    <3>1. Placed(tx.sub) = {}
      BY <1>13, Resting
    <3>2. /\ new \in TX /\ Written(new.log, new.sub) /\ Queue(new.sub, new.inbox)
          /\ new.run = tx.run /\ new.gens = tx.gens /\ new.comps = tx.comps
          /\ new.listed = tx.listed /\ Len(new.log) = Len(tx.log) + 1
          /\ Placed(new.sub) = Placed(tx.sub) \cup
                                 (IF status = "placed" THEN {Len(tx.sub) + 1} ELSE {})
          /\ new.sub[Len(tx.sub) + 1].entry = Len(tx.log) + 1
      BY <2>4, <3>0, EnteredIs
    <3> QED
      BY <1>3, <3>0, <3>1, <3>2
  <2>6. PICK users : users = <<id>>
    OBVIOUS
  <2>7. users \in Seq(Nat) /\ IsInjective(users) /\ ToSet(users) = {id} /\ users # <<>>
    BY <1>3, <2>6 DEF IsInjective, ToSet
  <2>8. Len(tx.log) <= Len(new.log)
    BY <1>2, <1>3, <2>5
  <2>9. Open(new.log, own, own + 1)
    <3>1. \A i \in DOMAIN new.log : ~ (own < i /\ i < own + 1)
      <4>1. \A i \in DOMAIN new.log : i \in Nat
        BY <2>5, Fields
      <4> QED
        BY <4>1
    <3> QED
      BY <3>1 DEF Open
  <2>10. Between(new, users)
    <3>1. \A s \in Placed(new.sub) : Open(new.log, new.sub[s].entry, Len(new.log) + 1)
      BY <2>5, <2>9
    <3> QED
      BY <1>13, <2>5, <2>7, <2>8, <3>1, Admits
  <2>11. Consistent(StartRun(new, users))
    BY <1>13, <2>5, <2>10, Started
  <2>12. Admit(tx, draft, modes)
           = StartRun([mid EXCEPT !.sub = Append(@, Submission(draft, "placed", own))], users)
    BY <1>3, <1>13, <2>1, <2>6 DEF Admit, QueuedAhead
  <2>13. new = [mid EXCEPT !.sub = Append(@, Submission(draft, "placed", own))]
    BY <1>1, <2>2, <2>3 DEF TX
  <2> QED
    BY <2>11, <2>12, <2>13
<1> QED
  BY <1>8, <1>9, <1>11, <1>12, <1>13

LEMMA SubmitStep ==
  ASSUME Inv, NEW modes,
         \/ \E whenBusy \in InputModes : SubmitInput(whenBusy, modes)
         \/ \E kind \in WriteHeads : \E head \in HeadsOf(kind) : SubmitWrite(head, modes)
  PROVE  \E tx : Commit(tx) /\ Consistent(tx)
<1>1. Consistent(Begin) /\ HeadKnown(Begin) /\ Begin \in TX /\ Begin.log = log
  BY BeginIs
<1>2. PICK n \in Nat : n = Len(log) /\ DOMAIN log = 1..n
  <2>1. Len(log) \in Nat /\ DOMAIN log = 1..Len(log)
    BY <1>1, Fields
  <2> QED
    BY <2>1
<1>3. ASSUME NEW mode \in Modes, NEW head \in {NoHead, SelfHead} \cup 1..n
      PROVE  Drafted(Begin, Draft(mode, head))
  <2>1. head \in Nat \cup {SelfHead} /\ head <= n
    BY DEF NoHead, SelfHead
  <2>2. Draft(mode, head) \in DraftSet /\ Draft(mode, head).head = head
    BY <2>1 DEF Draft, DraftSet
  <2> QED
    BY <1>1, <1>2, <2>1, <2>2 DEF Drafted
<1>4. ASSUME NEW whenBusy \in InputModes, SubmitInput(whenBusy, modes)
      PROVE  \E tx : Commit(tx) /\ Consistent(tx)
  <2>1. PICK mode \in Modes : mode = IF whenBusy = "steer" THEN "steer" ELSE "followUp"
    BY DEF Modes
  <2>2. PICK draft : draft = Draft(mode, NoHead)
    OBVIOUS
  <2>3. Drafted(Begin, draft)
    BY <1>3, <2>2
  <2>4. Consistent(Admit(Begin, draft, modes))
    BY <1>1, <2>3, Admitted
  <2> QED
    BY <1>4, <2>1, <2>2, <2>4 DEF SubmitInput
<1>5. ASSUME NEW kind \in WriteHeads, NEW head \in HeadsOf(kind), SubmitWrite(head, modes)
      PROVE  \E tx : Commit(tx) /\ Consistent(tx)
  <2>1. head \in {NoHead, SelfHead} \cup 1..n
    BY <1>2 DEF HeadsOf
  <2>2. PICK draft : draft = Draft("write", head)
    OBVIOUS
  <2>3. "write" \in Modes
    BY DEF Modes
  <2>4. Drafted(Begin, draft)
    BY <1>3, <2>1, <2>2, <2>3
  <2>5. Consistent(Admit(Begin, draft, modes))
    BY <1>1, <2>4, Admitted
  <2> QED
    BY <1>5, <2>2, <2>5 DEF SubmitWrite
<1> QED
  BY <1>4, <1>5

\* A compaction of the conversation submits its summary.
LEMMA SummarySubmitted ==
  ASSUME Inv, NEW c \in DOMAIN comps, comps[c].owner = 0, NEW modes, PlaceSummary(c, modes)
  PROVE  \E tx : Commit(tx) /\ Consistent(tx)
<1>1. PICK done, draft : done = CompactionDone(Begin, c) /\ draft = Draft("write", comps[c].firstKept)
  OBVIOUS
<1>2. Consistent(done) /\ done.log = log /\ done.head = Begin.head
  BY <1>1, DoneIs
<1>3. HeadKnown(done)
  BY <1>2, BeginIs DEF HeadKnown
<1>4. Drafted(done, draft)
  <2>1. comps[c] \in CompSet /\ comps[c].firstKept <= Len(log)
    BY TypesOfWork
  <2>2. comps[c].firstKept \in Nat
    BY <2>1 DEF CompSet
  <2>3. draft = [mode |-> "write", head |-> comps[c].firstKept]
    BY <1>1 DEF Draft
  <2>4. draft \in DraftSet /\ draft.head = comps[c].firstKept
    BY <2>2, <2>3 DEF DraftSet, Modes
  <2> QED
    BY <1>2, <2>1, <2>4 DEF Drafted
<1>5. Consistent(Admit(done, draft, modes))
  BY <1>2, <1>3, <1>4, Admitted
<1>6. Commit(Admit(done, draft, modes))
  BY <1>1 DEF PlaceSummary
<1> QED
  BY <1>5, <1>6

-----------------------------------------------------------------------------
(* The invariant.                                                          *)

LEMMA NextStep ==
  ASSUME Inv, Next
  PROVE  \E tx : Commit(tx) /\ Consistent(tx)
<1>1. CASE Host
  <2>1. ASSUME NEW modes \in QueueModes,
               \/ \E whenBusy \in InputModes : SubmitInput(whenBusy, modes)
               \/ \E kind \in WriteHeads : \E head \in HeadsOf(kind) : SubmitWrite(head, modes)
        PROVE  \E tx : Commit(tx) /\ Consistent(tx)
    BY <2>1, SubmitStep
  <2>2. CASE \E s \in DOMAIN sub : AbortSubmission(s)
    BY <2>2, WithdrawStep
  <2>3. CASE Compact
    BY <2>3, CompactStep
  <2>4. CASE AbortTask
    BY <2>4, MarkStep
  <2>5. CASE \E background \in BOOLEAN : AbortConversation(background)
    BY <2>5, AbortConversationStep
  <2> QED
    BY <1>1, <2>1, <2>2, <2>3, <2>4, <2>5 DEF Host
<1>2. ASSUME NEW t \in DOMAIN gens, GenerationStep(t)
      PROVE  \E tx : Commit(tx) /\ Consistent(tx)
  <2>1. CASE GenerationFails(t) \/ AbortGeneration(t)
    BY <2>1, FailsStep
  <2>2. CASE CompactFirst(t) \/ Overflow(t)
    BY <2>2, CompactionAwaited
  <2>3. CASE (\E over \in BOOLEAN : Prepared(t, over)) \/ Retry(t)
    BY <2>3, PreparedStep
  <2>4. CASE \E modes \in QueueModes, continues \in BOOLEAN : Answer(t, continues, modes)
    BY <2>4, AnswerStep
  <2>5. CASE StartToolRound(t)
    BY <2>5, ToolRoundStarts
  <2>6. CASE \E modes \in QueueModes, control \in {"none", "terminate", "handoff"} :
               FinishToolRound(t, control, modes)
    BY <2>6, FinishStep
  <2> QED
    BY <1>2, <2>1, <2>2, <2>3, <2>4, <2>5, <2>6 DEF GenerationStep
<1>3. ASSUME NEW c \in DOMAIN comps, CompactionStep(c)
      PROVE  \E tx : Commit(tx) /\ Consistent(tx)
  <2>1. CASE \E firstKept \in Cuts : Select(c, firstKept)
    BY <2>1, SelectStep
  <2>2. CASE CompactionEnds(c) \/ AbortCompaction(c)
    BY <2>2, CompactionEndsStep
  <2>3. CASE \E modes \in QueueModes : PlaceSummary(c, modes)
    BY <2>3, SummaryStep, SummarySubmitted
  <2>4. CASE Cascade(c)
    BY <2>4, MarkStep
  <2> QED
    BY <1>3, <2>1, <2>2, <2>3, <2>4 DEF CompactionStep
<1>4. CASE Faults
  <2>1. CASE \E t \in DOMAIN gens : GenerationFaults(t)
    BY <2>1, FailsStep
  <2>2. CASE \E c \in DOMAIN comps : CompactionFaults(c)
    BY <2>2, CompactionEndsStep
  <2> QED
    BY <1>4, <2>1, <2>2 DEF Faults
<1> QED
  BY <1>1, <1>2, <1>3, <1>4 DEF Next, Work

LEMMA AskedStep ==
  ASSUME Inv, Next
  PROVE  asked' \in 0 .. MaxSubmissions
<1>1. asked \in 0 .. MaxSubmissions /\ MaxSubmissions \in Nat
  BY SubmissionsAssumption DEF Inv
<1>2. Asks \/ asked' = asked
  <2>1. ASSUME Host  PROVE Asks \/ asked' = asked
    BY <2>1 DEF Host, SubmitInput, SubmitWrite, AbortSubmission, Compact, AbortTask,
                AbortConversation
  <2>2. ASSUME NEW t \in DOMAIN gens, GenerationStep(t)  PROVE asked' = asked
    BY <2>2 DEF GenerationStep, GenerationFails, CompactFirst, Prepared, Overflow, Retry, Answer,
                StartToolRound, FinishToolRound, AbortGeneration
  <2>3. ASSUME NEW c \in DOMAIN comps, CompactionStep(c)  PROVE asked' = asked
    BY <2>3 DEF CompactionStep, Select, CompactionEnds, PlaceSummary, AbortCompaction, Cascade
  <2>4. ASSUME Faults  PROVE asked' = asked
    BY <2>4 DEF Faults, GenerationFaults, CompactionFaults
  <2> QED
    BY <2>1, <2>2, <2>3, <2>4 DEF Next, Work
<1> QED
  BY <1>1, <1>2 DEF Asks

LEMMA InvStarts == Init => Inv
<1> SUFFICES ASSUME Init  PROVE Inv
  OBVIOUS
<1>1. /\ log = <<>> /\ sub = <<>> /\ inbox = <<>> /\ run = NoRun
      /\ gens = <<>> /\ comps = <<>> /\ listed = {} /\ asked = 0
  BY DEF Init
<1>2. NoRun \in RunSet /\ NoRun.task = 0 /\ NoRun.inputs = <<>>
  BY DEF NoRun, RunSet
<1>3. DOMAIN <<>> = {} /\ ToSet(<<>>) = {} /\ IsInjective(<<>>)
  BY DEF ToSet, IsInjective
<1>4. Written(<<>>, <<>>)
  BY <1>3 DEF Written, Refs, Statuses, OneEntry, Answered, InOrder, HeadsRise
<1>5. ActiveHead(<<>>) \in Nat
  BY <1>4, ActiveHeadIs
<1>6. PICK h \in Nat : h = ActiveHead(<<>>)
  BY <1>5
<1>7. Begin = [log |-> <<>>, sub |-> <<>>, inbox |-> <<>>, run |-> NoRun, gens |-> <<>>,
               comps |-> <<>>, listed |-> {}, head |-> h, ok |-> TRUE]
  BY <1>1, <1>6 DEF Begin
<1>8. Begin \in TX
  BY <1>2, <1>7 DEF TX
<1>9. State(<<>>, <<>>, <<>>, NoRun, <<>>, <<>>, {})
  BY <1>2, <1>3, <1>4 DEF State, Queue, Rises, WorkRefs, RunShape, RunOpen, Waits, Placed, Alive
<1>10. asked \in 0 .. MaxSubmissions
  BY <1>1, SubmissionsAssumption
<1> QED
  BY <1>1, <1>8, <1>9, <1>10 DEF Inv

LEMMA InvKept == Inv /\ [Next]_vars => Inv'
<1> SUFFICES ASSUME Inv, [Next]_vars  PROVE Inv'
  OBVIOUS
<1>1. CASE Next
  <2>1. PICK tx : Commit(tx) /\ Consistent(tx)
    BY <1>1, NextStep
  <2>2. Begin' \in TX /\ State(log', sub', inbox', run', gens', comps', listed')
    BY <2>1, CommitIs
  <2>3. asked' \in 0 .. MaxSubmissions
    BY <1>1, AskedStep
  <2> QED
    BY <2>2, <2>3 DEF Inv
<1>2. CASE UNCHANGED vars
  BY <1>2 DEF Inv, vars, Begin
<1> QED
  BY <1>1, <1>2

LEMMA InvAlways == Spec => []Inv
BY InvStarts, InvKept, PTL DEF Spec

-----------------------------------------------------------------------------
(* What follows.                                                           *)

LEMMA Narrowed ==
  ASSUME NEW S, NEW seq \in Seq(S), NEW T, \A i \in DOMAIN seq : seq[i] \in T
  PROVE  seq \in Seq(T)
OBVIOUS

\* Every variable holds a value of its type, and every number names an entry, a
\* submission or a task that exists: no commit of a handler leaves a reference
\* into nothing (session/transaction.rs, harness/submissions.rs).
THEOREM TypeCorrect == Spec => []TypeOK
<1>1. Inv => TypeOK
  <2> SUFFICES ASSUME Inv  PROVE TypeOK
    OBVIOUS
  <2>1. /\ State(log, sub, inbox, run, gens, comps, listed) /\ Begin \in TX
        /\ Begin.log = log /\ Begin.sub = sub /\ Begin.inbox = inbox /\ Begin.run = run
        /\ Begin.gens = gens /\ Begin.comps = comps /\ Begin.listed = listed
    BY BeginIs
  <2>2. /\ log \in Seq(EntrySet) /\ sub \in Seq(SubSet) /\ inbox \in Seq(Nat) /\ run \in RunSet
        /\ gens \in Seq(GenSet) /\ comps \in Seq(CompSet)
    BY <2>1, Fields
  <2>3. PICK l \in Nat, n \in Nat, g \in Nat, w \in Nat :
          /\ l = Len(log) /\ DOMAIN log = 1..l /\ n = Len(sub) /\ DOMAIN sub = 1..n
          /\ g = Len(gens) /\ DOMAIN gens = 1..g /\ w = Len(comps) /\ DOMAIN comps = 1..w
    <3>1. /\ Len(log) \in Nat /\ DOMAIN log = 1..Len(log)
          /\ Len(sub) \in Nat /\ DOMAIN sub = 1..Len(sub)
      BY <2>2
    <3>2. /\ Len(gens) \in Nat /\ DOMAIN gens = 1..Len(gens)
          /\ Len(comps) \in Nat /\ DOMAIN comps = 1..Len(comps)
      BY <2>2
    <3> QED
      BY <3>1, <3>2
  <2>4. /\ Refs(log, sub) /\ WorkRefs(log, gens, comps, listed) /\ RunShape(run, gens)
        /\ Queue(sub, inbox) /\ Placed(sub) = ToSet(run.inputs)
    BY <2>1 DEF State, Written
  <2>5. log \in Seq([kind : {"user", "assistant", "write", "summary", "handoff"},
                     head : Entries \cup {NoHead}, sub : Ids \cup {0}])
    <3>1. ASSUME NEW i \in DOMAIN log
          PROVE  log[i] \in [kind : Kinds, head : Entries \cup {NoHead}, sub : Ids \cup {0}]
      <4>1. log[i] \in EntrySet /\ i \in 1..l
        BY <2>2, <2>3
      <4>2. log[i].head \in Nat /\ log[i].sub \in Nat
        BY <4>1 DEF EntrySet
      <4>3. log[i].head <= i /\ log[i].sub <= n
        BY <2>3, <2>4 DEF Refs
      <4>4. log[i].head \in 1..l \cup {0} /\ log[i].sub \in 1..n \cup {0}
        BY <4>1, <4>2, <4>3
      <4> QED
        BY <2>3, <4>1, <4>4 DEF EntrySet, Entries, Ids, NoHead
    <3> QED
      BY <2>2, <3>1, Narrowed DEF Kinds
  <2>6. sub \in Seq([mode : {"write", "steer", "followUp"}, head : Entries \cup {NoHead, SelfHead},
                     status : {"queued", "placed", "done", "unanswered"},
                     entry : Entries \cup {0}, answer : Entries \cup {0}])
    <3>1. ASSUME NEW s \in DOMAIN sub
          PROVE  sub[s] \in [mode : Modes, head : Entries \cup {NoHead, SelfHead},
                             status : {"queued", "placed", "done", "unanswered"},
                             entry : Entries \cup {0}, answer : Entries \cup {0}]
      <4>1. sub[s] \in SubSet
        BY <2>2
      <4>2. sub[s].head \in Nat \cup {SelfHead} /\ sub[s].entry \in Nat /\ sub[s].answer \in Nat
        BY <4>1 DEF SubSet
      <4>3. sub[s].head <= l /\ sub[s].entry <= l /\ sub[s].answer <= l
        BY <2>3, <2>4 DEF Refs
      <4>4. /\ sub[s].head \in 1..l \cup {0, SelfHead} /\ sub[s].entry \in 1..l \cup {0}
            /\ sub[s].answer \in 1..l \cup {0}
        BY <4>2, <4>3
      <4> QED
        BY <2>3, <4>1, <4>4 DEF SubSet, Entries, NoHead
    <3> QED
      BY <2>2, <3>1, Narrowed DEF Modes
  <2>7. inbox \in Seq(Ids)
    <3>1. \A i \in DOMAIN inbox : inbox[i] \in Ids
      BY <2>4 DEF Queue, ToSet, Ids
    <3> QED
      BY <2>2, <3>1, Narrowed
  <2>8. run # NoRun => run \in [task : DOMAIN gens, inputs : Seq(Ids) \ {<<>>}]
    <3>1. SUFFICES ASSUME run # NoRun
                   PROVE  run \in [task : DOMAIN gens, inputs : Seq(Ids) \ {<<>>}]
      OBVIOUS
    <3>2. run.task \in DOMAIN gens /\ run.inputs # <<>> /\ run.inputs \in Seq(Nat)
      BY <2>2, <2>4, <3>1 DEF RunShape, RunSet
    <3>3. \A i \in DOMAIN run.inputs : run.inputs[i] \in Ids
      BY <2>4 DEF Placed, ToSet, Ids
    <3>4. run.inputs \in Seq(Ids)
      BY <3>2, <3>3, Narrowed
    <3> QED
      BY <2>2, <3>2, <3>4 DEF RunSet
  <2>9. gens \in Seq([phase : {"prepare", "request", "tools", "terminal"},
                      attempt : 1 .. MaxRetries + 1, compacted : DOMAIN comps \cup {0},
                      overflow : BOOLEAN, calls : Entries \cup {0}, mark : BOOLEAN])
    <3>1. ASSUME NEW t \in DOMAIN gens
          PROVE  gens[t] \in [phase : {"prepare", "request", "tools", "terminal"},
                              attempt : 1 .. MaxRetries + 1, compacted : DOMAIN comps \cup {0},
                              overflow : BOOLEAN, calls : Entries \cup {0}, mark : BOOLEAN]
      <4>1. gens[t] \in GenSet
        BY <2>2
      <4>2. gens[t].compacted \in Nat /\ gens[t].calls \in Nat
        BY <4>1 DEF GenSet
      <4>3. gens[t].compacted <= w /\ gens[t].calls <= l
        BY <2>3, <2>4 DEF WorkRefs
      <4>4. gens[t].compacted \in 1..w \cup {0} /\ gens[t].calls \in 1..l \cup {0}
        BY <4>2, <4>3
      <4> QED
        BY <2>3, <4>1, <4>4 DEF GenSet, Entries
    <3> QED
      BY <2>2, <3>1, Narrowed
  <2>10. comps \in Seq([phase : {"select", "summarize", "terminal"}, owner : DOMAIN gens \cup {0},
                        manual : BOOLEAN, firstKept : Entries \cup {0},
                        placed : BOOLEAN, mark : BOOLEAN])
    <3>1. ASSUME NEW c \in DOMAIN comps
          PROVE  comps[c] \in [phase : {"select", "summarize", "terminal"},
                               owner : DOMAIN gens \cup {0}, manual : BOOLEAN,
                               firstKept : Entries \cup {0}, placed : BOOLEAN, mark : BOOLEAN]
      <4>1. comps[c] \in CompSet
        BY <2>2
      <4>2. comps[c].owner \in Nat /\ comps[c].firstKept \in Nat
        BY <4>1 DEF CompSet
      <4>3. comps[c].owner <= g /\ comps[c].firstKept <= l
        BY <2>3, <2>4 DEF WorkRefs
      <4>4. comps[c].owner \in 1..g \cup {0} /\ comps[c].firstKept \in 1..l \cup {0}
        BY <4>2, <4>3
      <4> QED
        BY <2>3, <4>1, <4>4 DEF CompSet, Entries
    <3> QED
      BY <2>2, <3>1, Narrowed
  <2>11. listed \subseteq DOMAIN comps /\ asked \in 0 .. MaxSubmissions
    BY <2>4 DEF WorkRefs, Inv
  <2> QED
    BY <2>5, <2>6, <2>7, <2>8, <2>9, <2>10, <2>11 DEF TypeOK
<1> QED
  BY <1>1, InvAlways, PTL

\* A placed input that is not settled belongs to the run, once, and the run to
\* the one generation alive: no handler that ends or hands on a run forgets an
\* input (end_run, hand_over, start_run).
THEOREM RunOwnsItsInputs == Spec => []RunOwnsPlacedInputs
<1>1. Inv => RunOwnsPlacedInputs
  BY DEF Inv, State, RunShape, Placed, Alive, RunOwnsPlacedInputs, Ids
<1> QED
  BY <1>1, InvAlways, PTL

\* The queue document and the submissions' records agree, and the queue is in
\* the order of the submissions (apply_boundary, withdraw_queued_inputs,
\* admit_submission).
THEOREM QueueIsRecords == Spec => []QueueMatchesRecords
<1>1. Inv => QueueMatchesRecords
  BY DEF Inv, State, Queue, Rises, QueueMatchesRecords, Ids
<1> QED
  BY <1>1, InvAlways, PTL

\* A submission has the one entry its record names, or none: it is placed at
\* most once, and never when it was withdrawn or stale (apply_submission_change,
\* apply_boundary).
THEOREM TranscriptIsRecords == Spec => []TranscriptMatchesRecords
<1>1. Inv => TranscriptMatchesRecords
  <2> SUFFICES ASSUME Inv, NEW s \in DOMAIN sub
               PROVE  {i \in DOMAIN log : log[i].sub = s} = {sub[s].entry} \ {0}
    BY DEF TranscriptMatchesRecords, Ids, Entries
  <2>1. Written(log, sub)
    BY DEF Inv, State
  <2>2. /\ Len(log) \in Nat /\ DOMAIN log = 1..Len(log)
        /\ sub[s].entry \in Nat /\ sub[s].entry <= Len(log)
    <3>1. log \in Seq(EntrySet) /\ sub \in Seq(SubSet)
      BY <2>1 DEF Written
    <3>2. sub[s] \in SubSet
      BY <3>1
    <3> QED
      BY <2>1, <3>1, <3>2 DEF Written, Refs, SubSet
  <2>3. \A i \in DOMAIN log : log[i].sub = s <=> sub[s].entry = i
    BY <2>1 DEF Written, OneEntry
  <2>4. CASE sub[s].entry = 0
    BY <2>2, <2>3, <2>4
  <2>5. CASE sub[s].entry # 0
    <3>1. sub[s].entry \in DOMAIN log
      BY <2>2, <2>5
    <3> QED
      BY <2>3, <2>5, <3>1
  <2> QED
    BY <2>4, <2>5
<1> QED
  BY <1>1, InvAlways, PTL

\* No answer to an input comes from behind a reset that followed the input, or
\* another entry that is its own head (NoAnswerAcrossReset): a
\* reset that is placed during a run settles the run without an answer, or comes
\* after the answer (GenerationRunner::answer, finish_tool_round).
THEOREM AnswersStayInContext == Spec => []NoAnswerAcrossReset
<1>1. Inv => NoAnswerAcrossReset
  BY DEF Inv, State, Written, Answered, Open, NoAnswerAcrossReset, Ids, Entries
<1> QED
  BY <1>1, InvAlways, PTL

\* Submissions of one mode enter the transcript in the order they were made,
\* whatever boundaries placed them and runs ended without one (apply_boundary,
\* pick, admit_submission).
THEOREM ModesKeepTheirOrder == Spec => []PlacedInOrder
<1>1. Inv => PlacedInOrder
  BY DEF Inv, State, Written, InOrder, PlacedInOrder, Ids
<1> QED
  BY <1>1, InvAlways, PTL

\* No entry brings back history that an earlier one cut off (is_stale,
\* apply_boundary, place_summary).
THEOREM HeadsOnlyRise == Spec => []HeadsNeverMoveBack
<1>1. Inv => HeadsNeverMoveBack
  BY DEF Inv, State, Written, HeadsRise, HeadsNeverMoveBack, Entries
<1> QED
  BY <1>1, InvAlways, PTL

-----------------------------------------------------------------------------
(* Follow-ups wait: the steps that place nothing, or end the run.          *)

LEMMA IdleWaits ==
  ASSUME run = NoRun, NEW subs
  PROVE  Waited(subs)
BY DEF Waited, NoRun, ToSet

\* A submission that is admitted while a run goes on waits itself.
LEMMA AdmitWaits ==
  ASSUME Inv, NEW tx \in TX, tx.sub = sub, tx.run = run, NEW draft, NEW modes
  PROVE  Waited(Admit(tx, draft, modes).sub)
<1>1. CASE run = NoRun
  BY <1>1, IdleWaits
<1>2. CASE run # NoRun
  <2>1. PICK record : record = Submission(draft, "queued", 0)
    OBVIOUS
  <2>2. PICK new : new = Append(sub, record)
    OBVIOUS
  <2>3. Admit(tx, draft, modes).sub = new
    BY <1>2, <2>1, <2>2 DEF Admit, Enqueue, TX
  <2>4. DOMAIN sub \subseteq DOMAIN new /\ \A s \in DOMAIN sub : new[s] = sub[s]
    <3>1. sub \in Seq(SubSet)
      BY BeginIs, Fields
    <3> QED
      BY <2>2, <3>1, AppendProperties
  <2> QED
    BY <2>3, <2>4, NothingPlaced DEF Placed
<1> QED
  BY <1>1, <1>2

\* What is withdrawn is settled.
LEMMA WithdrawWaits ==
  ASSUME Inv, NEW tx \in TX, tx.sub = sub, NEW gone
  PROVE  Waited(Withdraw(tx, gone).sub)
<1>1. PICK left : left = LeaveUnanswered(tx, gone)
  OBVIOUS
<1>2. /\ left \in TX /\ DOMAIN left.sub = DOMAIN sub
      /\ \A s \in DOMAIN sub : left.sub[s] = sub[s] \/ left.sub[s].status = "unanswered"
  BY <1>1, LeaveUnansweredIs
<1>3. Withdraw(tx, gone).sub = left.sub
  BY <1>1, <1>2 DEF Withdraw, RemoveItems, TX
<1> QED
  BY <1>2, <1>3, NothingPlaced DEF Placed

LEMMA UnchangedWaits ==
  ASSUME sub' = sub
  PROVE  Waited(sub')
BY DEF Waited

LEMMA HostWaits ==
  ASSUME Inv, Host
  PROVE  Waited(sub')
<1>1. Begin \in TX /\ Begin.sub = sub /\ Begin.run = run
  BY BeginIs
<1>2. ASSUME NEW modes \in QueueModes, NEW whenBusy \in InputModes, SubmitInput(whenBusy, modes)
      PROVE  Waited(sub')
  <2>1. PICK draft : Commit(Admit(Begin, draft, modes))
    BY <1>2 DEF SubmitInput
  <2> QED
    BY <1>1, <2>1, AdmitWaits DEF Commit
<1>3. ASSUME NEW modes \in QueueModes, NEW head, SubmitWrite(head, modes)
      PROVE  Waited(sub')
  <2>1. PICK draft : Commit(Admit(Begin, draft, modes))
    BY <1>3 DEF SubmitWrite
  <2> QED
    BY <1>1, <2>1, AdmitWaits DEF Commit
<1>4. ASSUME NEW s \in DOMAIN sub, AbortSubmission(s)
      PROVE  Waited(sub')
  <2>1. Commit(Withdraw(Begin, {s}))
    BY <1>4 DEF AbortSubmission
  <2> QED
    BY <1>1, <2>1, WithdrawWaits DEF Commit
<1>5. CASE Compact
  BY <1>5, UnchangedWaits DEF Compact, CreateCompaction, Commit, Begin
<1>6. CASE AbortTask
  BY <1>6, UnchangedWaits DEF AbortTask, Commit, Begin
<1>7. ASSUME NEW background \in BOOLEAN, AbortConversation(background)
      PROVE  Waited(sub')
  <2>1. PICK marked, gone : /\ Commit(Withdraw(marked, gone))
                            /\ \E g, w : marked = [Begin EXCEPT !.gens = g, !.comps = w]
    BY <1>7 DEF AbortConversation
  <2>2. PICK left : left = LeaveUnanswered(marked, gone)
    OBVIOUS
  <2>3. marked.sub = sub
    BY <2>1 DEF Begin
  <2>4. sub' = [s \in DOMAIN sub |-> IF s \in Unsettled(marked, gone)
                                     THEN [sub[s] EXCEPT !.status = "unanswered"] ELSE sub[s]]
    BY <2>1, <2>3 DEF Commit, Withdraw, RemoveItems, LeaveUnanswered, Begin
  <2>5. ASSUME NEW s \in DOMAIN sub, sub[s].status = "queued"
        PROVE  sub'[s].status # "placed"
    <3>1. sub[s] \in SubSet
      BY BeginIs, Fields
    <3>2. sub'[s] \in {[sub[s] EXCEPT !.status = "unanswered"], sub[s]}
      BY <2>4
    <3> QED
      BY <2>5, <3>1, <3>2 DEF SubSet
  <2> QED
    BY <2>5 DEF Waited
<1> QED
  BY <1>2, <1>3, <1>4, <1>5, <1>6, <1>7 DEF Host

LEMMA WorkWaits ==
  ASSUME Inv, Work \/ Faults
  PROVE  Waited(sub')
<1>1. ASSUME \E tx : Commit(tx) /\ Waited(tx.sub)
      PROVE  Waited(sub')
  BY <1>1 DEF Commit
<1>2. ASSUME NEW t \in DOMAIN gens, GenerationStep(t) \/ GenerationFaults(t)
      PROVE  Waited(sub')
  <2>1. CASE GenerationFails(t) \/ AbortGeneration(t) \/ GenerationFaults(t)
    BY <1>1, <2>1, FailsStep
  <2>2. CASE CompactFirst(t) \/ Overflow(t)
    BY <2>2, UnchangedWaits DEF CompactFirst, Overflow, CreateCompaction, Commit, Begin
  <2>3. CASE (\E over \in BOOLEAN : Prepared(t, over)) \/ Retry(t)
    BY <2>3, UnchangedWaits DEF Prepared, Retry, CreateCompaction, Commit, Begin
  <2>4. CASE \E modes \in QueueModes, continues \in BOOLEAN : Answer(t, continues, modes)
    BY <1>1, <2>4, AnswerStep
  <2>5. CASE StartToolRound(t)
    BY <2>5, UnchangedWaits DEF StartToolRound, AppendEntry, Commit, Begin
  <2>6. CASE \E modes \in QueueModes, control \in {"none", "terminate", "handoff"} :
               FinishToolRound(t, control, modes)
    BY <1>1, <2>6, FinishStep
  <2> QED
    BY <1>2, <2>1, <2>2, <2>3, <2>4, <2>5, <2>6 DEF GenerationStep
<1>3. ASSUME NEW c \in DOMAIN comps, CompactionStep(c) \/ CompactionFaults(c)
      PROVE  Waited(sub')
  <2>1. CASE \E firstKept \in Cuts : Select(c, firstKept)
    BY <2>1, UnchangedWaits DEF Select, Commit, Begin
  <2>2. CASE CompactionEnds(c) \/ AbortCompaction(c) \/ CompactionFaults(c)
    BY <2>2, UnchangedWaits DEF CompactionEnds, AbortCompaction, CompactionFaults, CompactionDone,
                                Commit, Begin
  <2>3. ASSUME NEW modes \in QueueModes, PlaceSummary(c, modes)
        PROVE  Waited(sub')
    <3>1. PICK done, draft : /\ done = CompactionDone(Begin, c)
                             /\ draft = Draft("write", comps[c].firstKept)
      OBVIOUS
    <3>2. done \in TX /\ done.sub = sub /\ done.run = run
      <4>1. Consistent(done) /\ done.sub = sub /\ done.run = run
        BY <3>1, DoneIs
      <4> QED
        BY <4>1 DEF Consistent
    <3>3. CASE comps[c].owner = 0
      <4>1. Commit(Admit(done, draft, modes))
        BY <2>3, <3>1, <3>3 DEF PlaceSummary
      <4> QED
        BY <3>2, <4>1, AdmitWaits DEF Commit
    <3>4. CASE comps[c].owner # 0
      <4>1. Commit([AppendEntry(done, "summary", draft.head, 0) EXCEPT !.comps[c].placed = TRUE])
        BY <2>3, <3>1, <3>4 DEF PlaceSummary
      <4>2. sub' = sub
        BY <3>2, <4>1 DEF Commit, AppendEntry, TX
      <4> QED
        BY <4>2, UnchangedWaits
    <3> QED
      BY <3>3, <3>4
  <2>4. CASE Cascade(c)
    BY <2>4, UnchangedWaits DEF Cascade, Commit, Begin
  <2> QED
    BY <1>3, <2>1, <2>2, <2>3, <2>4 DEF CompactionStep
<1> QED
  BY <1>2, <1>3 DEF Work, Faults

\* A follow-up never enters a run that goes on, whatever the settings of the
\* queues: it is placed by the boundary that ends the run, or a later one.
THEOREM FollowUpsWait == Spec => FollowUpsWaitForTheRunsEnd
<1> DEFINE Kept == \A s \in Ids : /\ sub[s].mode = "followUp"
                                  /\ sub[s].status = "queued" /\ sub'[s].status = "placed"
                     => \A r \in ToSet(run.inputs) : Settled(sub'[r])
<1>1. Inv /\ [Next]_vars => [Kept]_vars
  <2> SUFFICES ASSUME Inv, Next  PROVE Kept
    OBVIOUS
  <2>1. Waited(sub')
    BY HostWaits, WorkWaits DEF Next
  <2> QED
    BY <2>1 DEF Waited, Ids
<1>2. Spec => []Inv
  BY InvAlways
<1> QED
  BY <1>1, <1>2, PTL DEF Spec, FollowUpsWaitForTheRunsEnd
=============================================================================
