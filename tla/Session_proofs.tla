--------------------------- MODULE Session_proofs ---------------------------
(***************************************************************************)
(* Proofs about Session, for any threads, documents, versions and bounds:  *)
(* the types, that memory follows storage, that snapshots are fresh, that  *)
(* watches follow their documents, and that nothing happens after the end. *)
(* All rest on one fact: of the jobs on the line only the first has taken  *)
(* a step (LineInv).                                                       *)
(***************************************************************************)
EXTENDS Session, TLAPS, SequenceTheorems, WellFoundedInduction

Number  == 0..MaxCommits
PlanSet == {<<>>} \cup UNION {[t -> Ops] : t \in SUBSET Address}

WriterSet  == [pc   : {"idle", "admitted", "queued", "prepared", "stored", "publishing"},
               ops  : PlanSet, ver : Version \cup {0}, todo : SUBSET (Address \cup Watcher)]
ReaderSet  == [pc : {"idle", "admitted", "queued"}, addr : Address \cup {0},
               ver : Version \cup {0}, floor : Nat]
WatcherSet == [pc   : {"idle", "admitted", "queued", "loaded", "attaching", "open"},
               addr : Address \cup {0}, ver : Version \cup {0}]
CloserSet  == [pc : {"idle", "sealing", "telling", "waiting", "returned"},
               todo : SUBSET Watcher]

ValueSet == [content : Int, shape : Nat]
FrameSet == [from : ValueSet, value : ValueSet]
WatchSet == [addr    : Address \cup {0}, id : Number, value : ValueSet,
             seen    : Nat, pending : Seq(FrameSet),
             started : BOOLEAN, retired : BOOLEAN, drain : DrainState,
             ended   : BOOLEAN]

\* The shapes of the state, by the variables that change together.
DocShapes ==
  /\ log \in Seq([Address -> DocSet]) /\ Len(log) \in 1..MaxCommits
  /\ cache \in [Address -> LoadedSet]
  /\ open \in BOOLEAN /\ poisoned \in BOOLEAN /\ sealed \in BOOLEAN
  /\ closing \in {"none", "made", "queued", "done"}
  /\ published \in Nat

ThreadShapes ==
  /\ line \in Seq(Job)
  /\ listens \subseteq Watcher /\ hears \subseteq Watcher
  /\ writer \in [Writer -> WriterSet]
  /\ reader \in [Reader -> ReaderSet]
  /\ watcher \in [Watcher -> WatcherSet]
  /\ closer \in [Closer -> CloserSet]

WatchShapes ==
  /\ watch \in [Watcher -> WatchSet]
  /\ \A w \in Watcher : Len(watch[w].pending) <= MaxPending

\* The oldest definition: versions have a least element.
LEMMA OldestVersion ==
  (CHOOSE v \in Version : \A u \in Version : v <= u) \in Version
<1>1. Version \subseteq Nat /\ Version # {}
  BY SessionAssumption
<1>2. PICK v \in Version : \A u \in Version : ~ (<<u, v>> \in OpToRel(<, Nat))
  BY <1>1, NatLessThanWellFounded, WFMin
<1>3. ASSUME NEW u \in Version  PROVE v <= u
  <2>1. ~ (u < v)
    BY <1>1, <1>2 DEF OpToRel
  <2> QED
    BY <1>1, <2>1
<1> QED
  BY <1>3
-----------------------------------------------------------------------------
(* The line.                                                               *)

LEMMA Enqueued ==
  ASSUME NEW S, NEW s \in Seq(S), NEW j \in S, j \notin ToSet(s), IsInjective(s)
  PROVE  /\ Append(s, j) \in Seq(S) /\ IsInjective(Append(s, j))
         /\ ToSet(Append(s, j)) = ToSet(s) \cup {j}
         /\ Append(s, j) # <<>>
         /\ s # <<>> => Head(Append(s, j)) = Head(s)
<1>1. PICK n \in Nat : n = Len(s)
  OBVIOUS
<1> DEFINE t == Append(s, j)
<1>2. /\ t \in Seq(S) /\ t # <<>> /\ Len(t) = n + 1 /\ t[n + 1] = j
      /\ \A i \in 1..n : t[i] = s[i]
  BY <1>1, AppendProperties
<1>3. s # <<>> => Head(t) = Head(s)
  BY HeadTailAppend
<1> HIDE DEF t
<1>4. DOMAIN s = 1..n /\ DOMAIN t = 1..(n + 1)
  BY <1>1, <1>2
<1>5. ToSet(t) = ToSet(s) \cup {j}
  BY <1>2, <1>4 DEF ToSet
<1>6. IsInjective(t)
  BY <1>2, <1>4 DEF IsInjective, ToSet
<1> QED
  BY <1>2, <1>3, <1>5, <1>6 DEF t

LEMMA Released ==
  ASSUME NEW S, NEW s \in Seq(S), s # <<>>, IsInjective(s)
  PROVE  /\ Tail(s) \in Seq(S) /\ IsInjective(Tail(s))
         /\ ToSet(Tail(s)) = ToSet(s) \ {Head(s)}
<1>1. PICK n \in Nat : Len(s) = n + 1
  <2>1. Len(s) \in Nat \ {0}
    BY EmptySeq
  <2> QED
    BY <2>1
<1> DEFINE t == Tail(s)
<1>2. /\ t \in Seq(S) /\ Len(t) = n /\ \A i \in 1..n : t[i] = s[i + 1]
      /\ Head(s) = s[1]
  BY <1>1, HeadTailProperties
<1> HIDE DEF t
<1>3. DOMAIN s = 1..(n + 1) /\ DOMAIN t = 1..n
  BY <1>1, <1>2
<1>4. \A i \in 1..n : i + 1 \in 1..(n + 1) /\ i + 1 # 1
  OBVIOUS
<1>5. \A i \in 1..(n + 1) : i = 1 \/ \E k \in 1..n : i = k + 1
  <2>1. ASSUME NEW i \in 1..(n + 1), i # 1  PROVE \E k \in 1..n : i = k + 1
    <3>1. i - 1 \in 1..n /\ i = (i - 1) + 1
      BY <2>1
    <3> QED
      BY <3>1
  <2> QED
    BY <2>1
<1>6. IsInjective(t)
  <2>1. ASSUME NEW i \in 1..n, NEW k \in 1..n, t[i] = t[k]  PROVE i = k
    <3>1. s[i + 1] = s[k + 1]
      BY <1>2, <2>1
    <3>2. i + 1 = k + 1
      BY <1>3, <1>4, <3>1 DEF IsInjective
    <3> QED
      BY <3>2
  <2> QED
    BY <1>3, <2>1 DEF IsInjective
<1>7. \A x : x \in ToSet(t) <=> \E i \in 1..n : x = s[i + 1]
  BY <1>2, <1>3 DEF ToSet
<1>8. \A x : x \in ToSet(s) <=> x = s[1] \/ \E i \in 1..n : x = s[i + 1]
  <2>1. \A x : x \in ToSet(s) <=> \E i \in 1..(n + 1) : x = s[i]
    BY <1>3 DEF ToSet
  <2>2. 1 \in 1..(n + 1)
    OBVIOUS
  <2> QED
    BY SMTT(30), <1>4, <1>5, <2>1, <2>2
<1>9. \A i \in 1..n : s[i + 1] # s[1]
  BY <1>3, <1>4 DEF IsInjective
<1>10. ToSet(t) = ToSet(s) \ {s[1]}
  BY <1>7, <1>8, <1>9
<1> QED
  BY <1>2, <1>6, <1>10 DEF t

\* What is on the line, and what is at work.
OnLine(j) ==
  \/ j \in Writer /\ ~(writer[j].pc \in {"idle", "admitted"})
  \/ j \in Reader /\ reader[j].pc = "queued"
  \/ j \in Watcher /\ ~(watcher[j].pc \in {"idle", "admitted", "open"})
  \/ j = ClosingJob /\ closing = "queued"

Works(j) ==
  \/ j \in Writer /\ writer[j].pc \in {"prepared", "stored", "publishing"}
  \/ j \in Watcher /\ watcher[j].pc \in {"loaded", "attaching"}

LineInv ==
  /\ IsInjective(line)
  /\ \A j \in Job : /\ j \in ToSet(line) <=> OnLine(j)
                    /\ Works(j) => Holds(j)

LEMMA HeadOnLine ==
  ASSUME NEW S, NEW s \in Seq(S), s # <<>>  PROVE Head(s) \in ToSet(s) /\ Head(s) \in S
<1>1. Head(s) = s[1] /\ 1 \in DOMAIN s /\ Head(s) \in S
  BY EmptySeq, HeadTailProperties
<1> QED
  BY <1>1 DEF ToSet

\* A step in which one job j alone moves: along the line, onto it or off it.
LEMMA LineStep ==
  ASSUME line \in Seq(Job), LineInv, NEW j \in Job,
         \A k \in Job \ {j} : (OnLine(k)' <=> OnLine(k)) /\ (Works(k)' => Works(k)),
         \/ line' = line /\ (OnLine(j)' <=> OnLine(j)) /\ (Works(j)' => Holds(j))
         \/ Enqueue(j) /\ ~OnLine(j) /\ OnLine(j)' /\ ~Works(j)'
         \/ Release /\ Holds(j) /\ ~OnLine(j)' /\ ~Works(j)'
  PROVE  LineInv'
<1>1. CASE line' = line /\ (OnLine(j)' <=> OnLine(j)) /\ (Works(j)' => Holds(j))
  BY <1>1 DEF LineInv, Holds
<1>2. CASE Enqueue(j) /\ ~OnLine(j) /\ OnLine(j)' /\ ~Works(j)'
  <2>1. /\ line' = Append(line, j) /\ j \notin ToSet(line)
    BY <1>2 DEF Enqueue, LineInv
  <2>2. /\ IsInjective(line') /\ ToSet(line') = ToSet(line) \cup {j} /\ line' # <<>>
        /\ line # <<>> => Head(line') = Head(line)
    BY <2>1, Enqueued DEF LineInv
  <2> QED
    BY <1>2, <2>2 DEF LineInv, Holds
<1>3. CASE Release /\ Holds(j) /\ ~OnLine(j)' /\ ~Works(j)'
  <2>1. line # <<>> /\ Head(line) = j /\ line' = Tail(line)
    BY <1>3 DEF Release, Holds
  <2>2. IsInjective(line') /\ ToSet(line') = ToSet(line) \ {j}
    BY <2>1, Released DEF LineInv
  <2>3. \A k \in Job \ {j} : ~Works(k)'
    BY <2>1 DEF LineInv, Holds
  <2> QED
    BY <1>3, <2>2, <2>3 DEF LineInv
<1> QED
  BY <1>1, <1>2, <1>3

\* A step that leaves the line and the threads on it alone.
LEMMA LineUntouched ==
  ASSUME LineInv, line' = line,
         \A k \in Job : (OnLine(k)' <=> OnLine(k)) /\ (Works(k)' => Works(k))
  PROVE  LineInv'
BY DEF LineInv, Holds

\* What a step of one thread does to who is on the line and at work.
LEMMA WriterMoves ==
  ASSUME ThreadShapes, NEW c \in Writer, NEW next, Step(c, next),
         UNCHANGED <<reader, watcher, closing>>
  PROVE  /\ c \in Job
         /\ \A k \in Job \ {c} : (OnLine(k)' <=> OnLine(k)) /\ (Works(k)' <=> Works(k))
         /\ OnLine(c) <=> ~(writer[c].pc \in {"idle", "admitted"})
         /\ OnLine(c)' <=> ~(next.pc \in {"idle", "admitted"})
         /\ Works(c)' <=> next.pc \in {"prepared", "stored", "publishing"}
BY SessionAssumption DEF ThreadShapes, Step, OnLine, Works, Job

LEMMA ReaderMoves ==
  ASSUME ThreadShapes, NEW r \in Reader, NEW next, ReaderStep(r, next),
         UNCHANGED <<writer, watcher, closing>>
  PROVE  /\ r \in Job
         /\ \A k \in Job \ {r} : (OnLine(k)' <=> OnLine(k)) /\ (Works(k)' <=> Works(k))
         /\ OnLine(r) <=> reader[r].pc = "queued"
         /\ OnLine(r)' <=> next.pc = "queued"
         /\ ~Works(r)'
BY SessionAssumption DEF ThreadShapes, ReaderStep, OnLine, Works, Job

LEMMA WatcherMoves ==
  ASSUME ThreadShapes, NEW w \in Watcher, NEW next, WatcherStep(w, next),
         UNCHANGED <<writer, reader, closing>>
  PROVE  /\ w \in Job
         /\ \A k \in Job \ {w} : (OnLine(k)' <=> OnLine(k)) /\ (Works(k)' <=> Works(k))
         /\ OnLine(w) <=> ~(watcher[w].pc \in {"idle", "admitted", "open"})
         /\ OnLine(w)' <=> ~(next.pc \in {"idle", "admitted", "open"})
         /\ Works(w)' <=> next.pc \in {"loaded", "attaching"}
BY SessionAssumption DEF ThreadShapes, WatcherStep, OnLine, Works, Job

LEMMA LineKept == ThreadShapes /\ LineInv /\ [Next]_vars => LineInv'
<1> SUFFICES ASSUME ThreadShapes, LineInv, [Next]_vars  PROVE LineInv'
  OBVIOUS
<1> USE DEF docs, health, hearers, session
<1>0. line \in Seq(Job)
  BY DEF ThreadShapes
<1>1. ASSUME UNCHANGED <<line, writer, reader, watcher, closing>>  PROVE LineInv'
  BY <1>1, LineUntouched DEF OnLine, Works
<1>2. ASSUME NEW c \in Writer, WriterNext(c)  PROVE LineInv'
  <2>1. c \in Job /\ writer[c] \in WriterSet
    BY DEF Job, ThreadShapes
  <2>2. CASE CallCommit(c)
    <3>1. Step(c, [writer[c] EXCEPT !.pc = "admitted"]) /\ At(c, "idle")
          /\ UNCHANGED <<line, reader, watcher, closing>>
      BY <2>2 DEF CallCommit, Goto
    <3>2. [writer[c] EXCEPT !.pc = "admitted"].pc = "admitted"
      BY <2>1 DEF WriterSet
    <3> QED
      BY <1>0, <3>1, <3>2, WriterMoves, LineStep DEF At
  <2>3. CASE EnqueueCommit(c)
    <3>1. Step(c, [writer[c] EXCEPT !.pc = "queued"]) /\ At(c, "admitted") /\ Enqueue(c)
          /\ UNCHANGED <<reader, watcher, closing>>
      BY <2>3 DEF EnqueueCommit, Goto
    <3>2. [writer[c] EXCEPT !.pc = "queued"].pc = "queued"
      BY <2>1 DEF WriterSet
    <3> QED
      BY <1>0, <3>1, <3>2, WriterMoves, LineStep DEF At
  <2>4. CASE Prepare(c)
    <3>1. PICK next : Step(c, next) /\ next.pc = "prepared" /\ At(c, "queued") /\ Holds(c)
                      /\ UNCHANGED <<line, reader, watcher, closing>>
      BY <2>4 DEF Prepare
    <3> QED
      BY <1>0, <3>1, WriterMoves, LineStep DEF At
  <2>5. CASE PrepareTooOld(c) \/ GiveUp(c) \/ CommitAfterClose(c) \/ StoreFails(c) \/ EndCommit(c)
    <3>1. /\ Step(c, Idle) /\ Idle.pc = "idle" /\ Release
          /\ UNCHANGED <<reader, watcher, closing>>
      BY <2>5 DEF PrepareTooOld, GiveUp, CommitAfterClose, StoreFails, EndCommit, Idle
    <3>2. Holds(c)
      BY <2>1, <2>5
         DEF PrepareTooOld, GiveUp, CommitAfterClose, StoreFails, EndCommit, LineInv, Works, At
    <3> QED
      BY <1>0, <3>1, <3>2, WriterMoves, LineStep
  <2>6. CASE StoreCommit(c) \/ AdoptDocument(c) \/ TellListener(c)
    <3>1. PICK next : /\ Step(c, next) /\ next.pc \in {"stored", "publishing"}
                      /\ UNCHANGED <<line, reader, watcher, closing>>
                      /\ writer[c].pc \in {"prepared", "stored", "publishing"}
      <4>1. CASE StoreCommit(c)
        BY <2>1, <4>1 DEF StoreCommit, Goto, At, WriterSet
      <4>2. CASE AdoptDocument(c)
        BY <2>1, <4>2 DEF AdoptDocument, At, WriterSet
      <4>3. CASE TellListener(c)
        BY <2>1, <4>3 DEF TellListener, At, WriterSet
      <4> QED
        BY <2>6, <4>1, <4>2, <4>3
    <3>2. Holds(c)
      BY <2>1, <3>1 DEF LineInv, Works
    <3> QED
      BY <1>0, <3>1, <3>2, WriterMoves, LineStep
  <2>7. CASE InstallDraft(c)
    BY <1>0, <2>7 DEF InstallDraft, LineInv, OnLine, Works, Holds
  <2> QED
    BY <1>2, <2>2, <2>3, <2>4, <2>5, <2>6, <2>7 DEF WriterNext
<1>3. ASSUME NEW r \in Reader, ReaderNext(r)  PROVE LineInv'
  <2>1. r \in Job /\ reader[r] \in ReaderSet
    BY DEF Job, ThreadShapes
  <2>2. CASE CallSnapshot(r)
    <3>1. PICK next : ReaderStep(r, next) /\ next.pc = "admitted" /\ reader[r].pc = "idle"
                      /\ UNCHANGED <<line, writer, watcher, closing>>
      BY <2>2 DEF CallSnapshot, ReaderAt
    <3> QED
      BY <1>0, <3>1, ReaderMoves, LineStep
  <2>3. CASE ReadCached(r)
    <3>1. ReaderStep(r, NotReading) /\ NotReading.pc = "idle" /\ reader[r].pc = "admitted"
          /\ UNCHANGED <<line, writer, watcher, closing>>
      BY <2>3 DEF ReadCached, AnswersFromMemory, ReaderAt, NotReading
    <3> QED
      BY <1>0, <3>1, ReaderMoves, LineStep
  <2>4. CASE EnqueueSnapshot(r)
    <3>1. PICK next : ReaderStep(r, next) /\ next.pc = "queued" /\ reader[r].pc = "admitted"
                      /\ Enqueue(r) /\ UNCHANGED <<writer, watcher, closing>>
      BY <2>1, <2>4 DEF EnqueueSnapshot, ReaderAt, ReaderSet
    <3> QED
      BY <1>0, <3>1, ReaderMoves, LineStep
  <2>5. CASE ReadOnLine(r) \/ SnapshotRefused(r)
    <3>1. ReaderStep(r, NotReading) /\ NotReading.pc = "idle" /\ Release /\ Holds(r)
          /\ UNCHANGED <<writer, watcher, closing>>
      BY <2>5 DEF ReadOnLine, SnapshotRefused, NotReading
    <3> QED
      BY <1>0, <3>1, ReaderMoves, LineStep
  <2> QED
    BY <1>3, <2>2, <2>3, <2>4, <2>5 DEF ReaderNext
<1>4. ASSUME NEW w \in Watcher, WatcherNext(w)  PROVE LineInv'
  <2>1. w \in Job /\ watcher[w] \in WatcherSet
    BY DEF Job, ThreadShapes
  <2>2. CASE CallWatch(w)
    <3>1. PICK next : WatcherStep(w, next) /\ next.pc = "admitted" /\ watcher[w].pc = "idle"
                      /\ UNCHANGED <<line, writer, reader, closing>>
      BY <2>2, SessionAssumption DEF CallWatch, WatcherAt
    <3> QED
      BY <1>0, <3>1, WatcherMoves, LineStep
  <2>3. CASE EnqueueWatch(w)
    <3>1. PICK next : WatcherStep(w, next) /\ next.pc = "queued" /\ watcher[w].pc = "admitted"
                      /\ Enqueue(w) /\ UNCHANGED <<writer, reader, closing>>
      BY <2>1, <2>3 DEF EnqueueWatch, WatcherAt, WatcherSet
    <3> QED
      BY <1>0, <3>1, WatcherMoves, LineStep
  <2>4. CASE LoadWatched(w)
    <3>1. Holds(w) /\ watcher[w].pc = "queued" /\ UNCHANGED <<writer, reader, closing>>
      BY <2>4 DEF LoadWatched, WatcherAt
    <3>2. \/ WatcherStep(w, NotWatching) /\ Release
          \/ WatcherStep(w, [watcher[w] EXCEPT !.pc = "loaded"]) /\ UNCHANGED line
      BY <2>4 DEF LoadWatched
    <3>3. /\ NotWatching.pc = "idle"
          /\ [watcher[w] EXCEPT !.pc = "loaded"].pc = "loaded"
      BY <2>1 DEF NotWatching, WatcherSet
    <3> QED
      BY <1>0, <3>1, <3>2, <3>3, WatcherMoves, LineStep
  <2>5. CASE WatchRefused(w) \/ SubscribeClose(w)
    <3>1. PICK next : WatcherStep(w, next) /\ next.pc \in {"idle", "open"} /\ Release /\ Holds(w)
                      /\ UNCHANGED <<writer, reader, closing>>
      BY <2>5 DEF WatchRefused, SubscribeClose, NotWatching
    <3> QED
      BY <1>0, <3>1, WatcherMoves, LineStep
  <2>6. CASE SubscribeCommits(w)
    <3>1. PICK next : WatcherStep(w, next) /\ next.pc = "attaching" /\ Holds(w)
                      /\ watcher[w].pc = "loaded" /\ UNCHANGED <<line, writer, reader, closing>>
      BY <2>1, <2>6 DEF SubscribeCommits, WatcherAt, WatcherSet
    <3> QED
      BY <1>0, <3>1, WatcherMoves, LineStep
  <2>7. CASE Start(w) \/ Stop(w) \/ Deliver(w) \/ Panic(w)
    BY <1>1, <2>7 DEF Start, Stop, Deliver, Panic
  <2> QED
    BY <1>4, <2>2, <2>3, <2>4, <2>5, <2>6, <2>7 DEF WatcherNext
<1>5. ASSUME NEW k \in Closer, CloserNext(k)  PROVE LineInv'
  <2>1. CASE CallClose(k)
    <3>1. UNCHANGED <<line, writer, reader, watcher>> /\ closing # "queued" /\ closing' # "queued"
      BY <2>1 DEF CallClose
    <3> QED
      BY <3>1, LineUntouched DEF OnLine, Works
  <2>2. CASE TakeListeners(k) \/ TellClose(k) \/ AwaitClose(k) \/ GiveUpClose(k)
    BY <1>1, <2>2 DEF TakeListeners, TellClose, AwaitClose, GiveUpClose
  <2> QED
    BY <1>5, <2>1, <2>2 DEF CloserNext
<1>6. CASE Unload
  BY <1>1, <1>6 DEF Unload
<1>7. CASE EnqueueClosing \/ CloseStorage
  <2>1. ClosingJob \in Job /\ ~Works(ClosingJob)' /\ UNCHANGED <<writer, reader, watcher>>
    BY <1>7, SessionAssumption DEF EnqueueClosing, CloseStorage, Job, Works
  <2>2. \A k \in Job \ {ClosingJob} : (OnLine(k)' <=> OnLine(k)) /\ (Works(k)' => Works(k))
    BY <2>1 DEF OnLine, Works
  <2>3. /\ OnLine(ClosingJob) <=> closing = "queued"
        /\ OnLine(ClosingJob)' <=> closing' = "queued"
    BY SessionAssumption DEF OnLine
  <2> QED
    BY <1>0, <1>7, <2>1, <2>2, <2>3, LineStep DEF EnqueueClosing, CloseStorage
<1>8. CASE UNCHANGED vars
  BY <1>1, <1>8 DEF vars
<1> QED
  BY <1>2, <1>3, <1>4, <1>5, <1>6, <1>7, <1>8 DEF Next

\* While a job has the line, no other job is at work.
LEMMA OthersRest ==
  ASSUME LineInv, NEW j \in Job, Holds(j)
  PROVE  \A k \in Job \ {j} : ~Works(k)
BY DEF LineInv, Holds
-----------------------------------------------------------------------------
(* A watch.  The frames it keeps are few, each leads from the value before *)
(* it, and what they lead to is its last value.                            *)

LEMMA ValuesAre ==
  /\ Null \in ValueSet /\ AnyValue \in ValueSet
  /\ \A content \in Int, shape \in Nat : /\ Value(content, shape) \in ValueSet
                                         /\ Value(content, shape).content = content
                                         /\ Value(content, shape).shape = shape
  /\ \A from \in ValueSet, value \in ValueSet : /\ Frame(from, value) \in FrameSet
                                                /\ Frame(from, value).from = from
                                                /\ Frame(from, value).value = value
  /\ \A value \in ValueSet : /\ Replacement(value) \in FrameSet
                             /\ Replacement(value).from = AnyValue
                             /\ Replacement(value).value = value
BY DEF Null, AnyValue, Value, ValueSet, Frame, FrameSet, Replacement

WatchOK(w) == w \in WatchSet /\ Len(w.pending) <= MaxPending

LEMMA NoWatchOK == WatchOK(NoWatch) /\ NoWatch.ended = FALSE
<1>1. NoWatch \in WatchSet
  BY ValuesAre, SessionAssumption
     DEF NoWatch, WatchSet, Number, DrainState, FrameSet
<1>2. Len(NoWatch.pending) = 0 /\ NoWatch.ended = FALSE
  BY DEF NoWatch
<1> QED
  BY <1>1, <1>2, SessionAssumption DEF WatchOK

LEMMA Queued ==
  ASSUME NEW w \in WatchSet, Len(w.pending) <= MaxPending, NEW frame \in FrameSet
  PROVE  LET q == Queue(w, frame, MaxPending)
         IN  /\ q \in Seq(FrameSet) /\ Len(q) <= MaxPending /\ q # <<>>
             /\ Last(q).value = frame.value
             /\ \/ q = Append(w.pending, frame)
                \/ q = <<Replacement(frame.value)>>
<1>1. w.pending \in Seq(FrameSet) /\ Len(w.pending) \in Nat
  BY DEF WatchSet
<1>2. CASE Len(w.pending) >= MaxPending
  <2>1. Queue(w, frame, MaxPending) = <<Replacement(frame.value)>>
    BY <1>2 DEF Queue
  <2>2. frame.value \in ValueSet /\ Replacement(frame.value) \in FrameSet
        /\ Replacement(frame.value).value = frame.value
    BY ValuesAre DEF FrameSet
  <2> DEFINE q == <<Replacement(frame.value)>>
  <2>3. q \in Seq(FrameSet) /\ Len(q) = 1 /\ q # <<>> /\ q[1] = Replacement(frame.value)
    BY <2>2
  <2> QED
    BY <2>1, <2>2, <2>3, SessionAssumption DEF Last
<1>3. CASE ~(Len(w.pending) >= MaxPending)
  <2>1. Queue(w, frame, MaxPending) = Append(w.pending, frame)
    BY <1>3 DEF Queue
  <2>2. PICK n \in Nat : n = Len(w.pending)
    BY <1>1
  <2>3. n + 1 <= MaxPending
    BY <1>3, <2>2, SessionAssumption
  <2> DEFINE q == Append(w.pending, frame)
  <2>4. q \in Seq(FrameSet) /\ Len(q) = n + 1 /\ q # <<>> /\ q[n + 1] = frame
    BY <1>1, <2>2, AppendProperties
  <2> QED
    BY <2>1, <2>3, <2>4 DEF Last
<1> QED
  BY <1>2, <1>3

LEMMA ScheduledIs ==
  ASSUME NEW w \in WatchSet
  PROVE  /\ Schedule(w) \in WatchSet
         /\ Schedule(w).addr = w.addr /\ Schedule(w).id = w.id /\ Schedule(w).value = w.value
         /\ Schedule(w).seen = w.seen /\ Schedule(w).pending = w.pending
         /\ Schedule(w).retired = w.retired /\ Schedule(w).ended = w.ended
BY DEF Schedule, WatchSet, DrainState

LEMMA AdvancedIs ==
  ASSUME NEW w \in WatchSet, Len(w.pending) <= MaxPending, NEW frame \in FrameSet,
         ~Ended(w), ~w.retired
  PROVE  LET next == Advance(w, frame, MaxPending)
         IN  /\ WatchOK(next)
             /\ next.addr = w.addr /\ next.id = w.id /\ next.value = w.value
             /\ next.seen = w.seen /\ next.ended = w.ended
             /\ next.retired = (frame.value = Null)
             /\ next.pending = Queue(w, frame, MaxPending)
<1> DEFINE q == Queue(w, frame, MaxPending)
           next == [w EXCEPT !.retired = frame.value = Null, !.pending = q]
<1>1. q \in Seq(FrameSet) /\ Len(q) <= MaxPending
  BY Queued
<1>2. Advance(w, frame, MaxPending) \in {next, Schedule(next)}
  BY DEF Advance
<1> HIDE DEF q
<1>3. /\ next \in WatchSet
      /\ next.addr = w.addr /\ next.id = w.id /\ next.value = w.value
      /\ next.seen = w.seen /\ next.ended = w.ended
      /\ next.retired = (frame.value = Null) /\ next.pending = q
  BY <1>1 DEF WatchSet
<1> HIDE DEF next
<1>4. /\ Schedule(next) \in WatchSet
      /\ Schedule(next).addr = w.addr /\ Schedule(next).id = w.id /\ Schedule(next).value = w.value
      /\ Schedule(next).seen = w.seen /\ Schedule(next).pending = q
      /\ Schedule(next).retired = (frame.value = Null) /\ Schedule(next).ended = w.ended
  BY <1>3, ScheduledIs
<1> QED
  BY <1>1, <1>2, <1>3, <1>4 DEF WatchOK, q

LEMMA AdvanceOK ==
  ASSUME NEW w, WatchOK(w), NEW frame \in FrameSet
  PROVE  WatchOK(Advance(w, frame, MaxPending))
<1>1. CASE Ended(w) \/ w.retired
  BY <1>1 DEF Advance
<1>2. CASE ~(Ended(w) \/ w.retired)
  BY <1>2, AdvancedIs DEF WatchOK
<1> QED
  BY <1>1, <1>2

\* What each step of a watch's own makes of it, and what it leaves alone.
LEMMA OwnSteps ==
  ASSUME NEW w, WatchOK(w),
         NEW next \in {StartWatch(w), Terminate(w), BeginDrain(w), PopFrame(w),
                       ListenerReturns(w), ListenerPanics(w),
                       EndDrain(w)}
  PROVE  /\ WatchOK(next)
         /\ Len(next.pending) <= Len(w.pending)
         /\ \/ Ended(next)
            \/ /\ next.addr = w.addr /\ next.id = w.id /\ next.seen = w.seen
               /\ next.retired = w.retired /\ next.ended = w.ended
               /\ \/ next.value = w.value /\ next.pending = w.pending
                  \/ /\ w.pending # <<>> /\ next.value = Head(w.pending).value
                     /\ next.pending = Tail(w.pending)
<1>1. w \in WatchSet /\ w.pending \in Seq(FrameSet) /\ Len(w.pending) \in Nat
      /\ Len(w.pending) <= MaxPending /\ MaxPending \in Nat
  BY SessionAssumption DEF WatchOK, WatchSet
<1>2. LET t == Terminate(w)
      IN  /\ t \in WatchSet /\ Len(t.pending) <= Len(w.pending) /\ Ended(t)
          /\ [t EXCEPT !.drain = "drained"] \in WatchSet
          /\ [t EXCEPT !.drain = "drained"].pending = t.pending
          /\ Ended([t EXCEPT !.drain = "drained"])
  <2> DEFINE t == Terminate(w)
  <2>1. t \in WatchSet /\ Ended(t)
    BY <1>1, NoWatchOK DEF Terminate, WatchOK, WatchSet, Ended
  <2>2. t.pending = w.pending \/ t.pending = <<>>
    BY NoWatchOK DEF Terminate, NoWatch
  <2>3. Len(t.pending) <= Len(w.pending)
    BY <1>1, <2>2
  <2> HIDE DEF t
  <2>4. /\ [t EXCEPT !.drain = "drained"] \in WatchSet
        /\ [t EXCEPT !.drain = "drained"].pending = t.pending
        /\ Ended([t EXCEPT !.drain = "drained"])
    BY <2>1 DEF WatchSet, Ended, DrainState
  <2> QED
    BY <2>1, <2>3, <2>4 DEF t
<1>3. CASE next \in {Terminate(w), ListenerPanics(w)}
  <2>2. /\ next \in WatchSet /\ Ended(next) /\ Len(next.pending) <= Len(w.pending)
        /\ next.pending \in Seq(FrameSet)
    BY <1>2, <1>3 DEF ListenerPanics, WatchSet
  <2> QED
    BY <1>1, <2>2 DEF WatchOK
<1>4. CASE next = StartWatch(w)
  <2> DEFINE s == [w EXCEPT !.started = TRUE]
  <2>1. /\ s \in WatchSet /\ s.addr = w.addr /\ s.id = w.id /\ s.value = w.value
        /\ s.seen = w.seen /\ s.pending = w.pending /\ s.retired = w.retired /\ s.ended = w.ended
    BY <1>1 DEF WatchSet
  <2>2. next = s \/ next = Schedule(s)
    BY <1>4 DEF StartWatch
  <2> HIDE DEF s
  <2> QED
    BY <1>1, <2>1, <2>2, ScheduledIs DEF WatchOK
<1>5. CASE next \in {BeginDrain(w), EndDrain(w)}
  <2>1. PICK d \in DrainState : next = [w EXCEPT !.drain = d]
    BY <1>5 DEF BeginDrain, EndDrain, DrainState
  <2> QED
    BY <1>1, <2>1 DEF WatchOK, WatchSet
<1>6. CASE next = PopFrame(w)
  <2>1. CASE Ended(w) \/ w.pending = <<>>
    BY <1>1, <1>6, <2>1 DEF PopFrame, WatchOK, WatchSet, DrainState
  <2>2. CASE ~(Ended(w) \/ w.pending = <<>>)
    <3> DEFINE h == Head(w.pending).value
               t == Tail(w.pending)
    <3>1. h \in ValueSet /\ t \in Seq(FrameSet) /\ Len(t) <= Len(w.pending)
      <4>1. /\ Head(w.pending) \in FrameSet /\ t \in Seq(FrameSet)
            /\ Len(t) = Len(w.pending) - 1
        BY <1>1, <2>2, HeadTailProperties
      <4> QED
        BY <1>1, <4>1 DEF FrameSet
    <3>2. next = [w EXCEPT !.drain = "delivering", !.value = h, !.pending = t]
      BY <1>6, <2>2 DEF PopFrame
    <3> HIDE DEF h, t
    <3>3. next \in WatchSet
      BY <1>1, <3>1, <3>2 DEF WatchSet, DrainState
    <3>4. /\ next.pending = t /\ next.value = h
          /\ next.addr = w.addr /\ next.id = w.id /\ next.seen = w.seen
          /\ next.retired = w.retired /\ next.ended = w.ended
      BY <1>1, <3>2 DEF WatchSet
    <3>5. Len(t) <= MaxPending
      BY <1>1, <3>1
    <3> QED
      BY <2>2, <3>1, <3>3, <3>4, <3>5 DEF WatchOK, h, t
  <2> QED
    BY <2>1, <2>2
<1>7. CASE next = ListenerReturns(w)
  <2>1. CASE w.value = Null
    <3>2. /\ next \in WatchSet /\ Ended(next) /\ Len(next.pending) <= Len(w.pending)
          /\ next.pending \in Seq(FrameSet)
      BY <1>2, <1>7, <2>1 DEF ListenerReturns, WatchSet
    <3> QED
      BY <1>1, <3>2 DEF WatchOK
  <2>2. CASE w.value # Null
    <3>1. next = [w EXCEPT !.drain = "running"]
      BY <1>7, <2>2 DEF ListenerReturns
    <3> QED
      BY <1>1, <3>1 DEF WatchOK, WatchSet, DrainState
  <2> QED
    BY <2>1, <2>2
<1> QED
  BY <1>3, <1>4, <1>5, <1>6, <1>7
-----------------------------------------------------------------------------
(* Documents and plans.                                                    *)

LEMMA NoDocIs ==
  /\ NoDoc \in DocSet /\ NoDoc.id = 0 /\ NoDoc.content = 0 /\ NoDoc.stored = 0
  /\ NotLoaded \in LoadedSet /\ NotLoaded.id = 0 /\ NotLoaded.content = 0 /\ NotLoaded.ver = 0
  /\ 0 \in Number
BY SessionAssumption DEF NoDoc, Doc, DocSet, NotLoaded, Loaded, LoadedSet, Number

LEMMA VersionsAre ==
  /\ \A doc \in DocSet : doc.stored \in Int
  /\ \A v \in Version : v \in Int
<1>1. Version \cup {0} \subseteq Int
  BY SessionAssumption
<1>2. \A doc \in DocSet : doc.stored \in Version \cup {0}
  BY DEF DocSet
<1> QED
  BY <1>1, <1>2

LEMMA DocIs ==
  ASSUME NEW id \in Number, NEW content \in Number, NEW v \in Version
  PROVE  /\ Doc(id, content, v) \in DocSet
         /\ Doc(id, content, v).id = id /\ Doc(id, content, v).content = content
         /\ Doc(id, content, v).stored = v
BY DEF Doc, DocSet, Number

LEMMA LoadedIs ==
  ASSUME NEW doc \in DocSet, NEW v \in Version
  PROVE  /\ Loaded(doc, v) \in LoadedSet
         /\ Loaded(doc, v).id = doc.id /\ Loaded(doc, v).content = doc.content
         /\ Loaded(doc, v).ver = v
         /\ Loaded(doc, v) # NotLoaded
<1>1. /\ Loaded(doc, v) \in LoadedSet
      /\ Loaded(doc, v).id = doc.id /\ Loaded(doc, v).content = doc.content
      /\ Loaded(doc, v).ver = v
  BY DEF Loaded, LoadedSet, DocSet
<1>2. v # 0
  BY SessionAssumption
<1> QED
  BY <1>1, <1>2, NoDocIs

\* A document that is there was created by some commit, and then changed last.
DocOK(doc, s) ==
  doc # NoDoc => doc.id \in 1..s /\ doc.content \in 1..s /\ doc.stored \in Version

LogInv == \A s \in 1..Len(log) : \A a \in Address : DocOK(log[s][a], s)

\* What a draft makes of a document.
LEMMA DraftedIs ==
  ASSUME NEW seq \in 1..MaxCommits, NEW doc \in DocSet, NEW s \in Nat, s < seq, DocOK(doc, s),
         NEW op \in Ops, op.draft # "none", NEW v \in Version, Applies(op, doc, v)
  PROVE  LET new == Drafted(op, doc, v, seq)
         IN  /\ new \in DocSet /\ DocOK(new, seq) /\ new # NoDoc
             /\ new.stored = v /\ new.id \in {doc.id, seq}
             /\ doc # NoDoc => new.id = doc.id
             /\ new.content = seq \/ (new.content = doc.content /\ doc # NoDoc)
<1> DEFINE new == Drafted(op, doc, v, seq)
<1>1. seq \in Number /\ seq \in 1..seq
  BY SessionAssumption DEF Number
<1>2. ASSUME NEW id \in Number, NEW content \in Number, id \in 1..seq, content \in 1..seq
      PROVE  /\ Doc(id, content, v) \in DocSet /\ DocOK(Doc(id, content, v), seq)
             /\ Doc(id, content, v) # NoDoc
             /\ Doc(id, content, v).stored = v /\ Doc(id, content, v).id = id
             /\ Doc(id, content, v).content = content
  <2>1. id # 0
    BY <1>2
  <2> QED
    BY <1>2, <2>1, DocIs, NoDocIs DEF DocOK
<1>3. doc # NoDoc => /\ doc.id \in Number /\ doc.id \in 1..seq
                     /\ doc.content \in Number /\ doc.content \in 1..seq
  BY DEF DocOK, DocSet, Number
<1>4. CASE op.draft = "set" /\ doc = NoDoc
  <2>1. new = Doc(seq, seq, v)
    BY <1>4 DEF Drafted
  <2> QED
    BY <1>1, <1>2, <1>4, <2>1
<1>5. CASE op.draft = "set" /\ doc # NoDoc
  <2>1. new = Doc(doc.id, seq, v)
    BY <1>5 DEF Drafted
  <2> QED
    BY <1>1, <1>2, <1>3, <1>5, <2>1
<1>6. CASE op.draft = "migrate"
  <2>1. new = Doc(doc.id, doc.content, v) /\ doc # NoDoc
    BY <1>6 DEF Drafted, Applies
  <2> QED
    BY <1>2, <1>3, <2>1
<1> QED
  BY <1>4, <1>5, <1>6 DEF Ops

LEMMA AfterIs ==
  ASSUME NEW seq \in 1..MaxCommits, NEW doc \in DocSet, NEW s \in Nat, s < seq, DocOK(doc, s),
         NEW op \in Ops, NEW v \in Version, Applies(op, doc, v)
  PROVE  LET new == After(op, doc, v, seq)
         IN  /\ new \in DocSet /\ DocOK(new, seq)
             /\ new # NoDoc => new.stored = v /\ new.id \in {doc.id, seq}
<1> DEFINE new == After(op, doc, v, seq)
<1>1. seq \in Number /\ seq \in 1..seq
  BY SessionAssumption DEF Number
<1>2. CASE op.then = "keep"
  <2>1. new = Drafted(op, doc, v, seq) /\ op.draft # "none"
    BY <1>2 DEF After, Ops
  <2> QED
    BY <2>1, DraftedIs
<1>3. CASE op.then = "retire"
  <2>1. new = NoDoc
    BY <1>3 DEF After
  <2> QED
    BY <2>1, NoDocIs DEF DocOK
<1>4. CASE op.then = "replace"
  <2>1. new = Doc(seq, seq, v)
    BY <1>4 DEF After
  <2>2. /\ Doc(seq, seq, v) \in DocSet /\ DocOK(Doc(seq, seq, v), seq)
        /\ Doc(seq, seq, v).stored = v /\ Doc(seq, seq, v).id = seq
    BY <1>1, DocIs DEF DocOK
  <2> QED
    BY <2>1, <2>2
<1> QED
  BY <1>2, <1>3, <1>4 DEF Ops

\* What the commit of c made of the document at a.
Stepped(c, a) ==
  IF a \in DOMAIN writer[c].ops
  THEN /\ writer[c].ops[a] \in Ops /\ Applies(writer[c].ops[a], Before(a), writer[c].ver)
       /\ Stored[a] # NoDoc =>
            Stored[a].stored = writer[c].ver /\ Stored[a].id \in {Before(a).id, Len(log)}
  ELSE Stored[a] = Before(a)

\* A writer at work has a plan that fits what is stored, or was.
PlanOK(c) ==
  LET p == writer[c] IN
  /\ p.pc \in {"prepared", "stored", "publishing"} =>
       open /\ ~poisoned /\ DOMAIN p.ops \subseteq Address /\ p.ver \in Version
  /\ p.pc = "prepared" =>
       /\ Len(log) < MaxCommits
       /\ p.todo = DOMAIN p.ops
       /\ \A a \in DOMAIN p.ops : p.ops[a] \in Ops /\ Applies(p.ops[a], Stored[a], p.ver)
  /\ p.pc \in {"stored", "publishing"} =>
       /\ Len(log) >= 2 /\ published = Len(log) - 1
       /\ \A a \in Address : Stepped(c, a)
  /\ p.pc = "stored" => p.todo \subseteq DOMAIN p.ops
  /\ p.pc = "publishing" => p.todo \subseteq Watcher

Unpublished == \E c \in Writer : writer[c].pc \in {"stored", "publishing"}

PlanInv ==
  /\ \A c \in Writer : PlanOK(c)
  /\ published \in 1..Len(log)
  /\ ~poisoned /\ ~Unpublished => published = Len(log)

\* Who waits for a document has named one.
NamesInv ==
  /\ \A r \in Reader : reader[r].pc # "idle" =>
       reader[r].addr \in Address /\ reader[r].ver \in Version
  /\ \A w \in Watcher : watcher[w].pc \in {"admitted", "queued", "loaded", "attaching"} =>
       watcher[w].addr \in Address /\ watcher[w].ver \in Version

Base == DocShapes /\ ThreadShapes /\ WatchShapes /\ LineInv /\ LogInv /\ PlanInv /\ NamesInv

LEMMA StoredIs ==
  ASSUME Base, NEW a \in Address
  PROVE  /\ Len(log) \in 1..MaxCommits /\ Len(log) \in Nat
         /\ \A s \in 1..Len(log) : log[s][a] \in DocSet /\ DocOK(log[s][a], s)
         /\ Stored[a] \in DocSet /\ DocOK(Stored[a], Len(log))
<1>1. log \in Seq([Address -> DocSet]) /\ Len(log) \in 1..MaxCommits /\ Len(log) \in Nat
  BY SessionAssumption DEF Base, DocShapes
<1>2. \A s \in 1..Len(log) : log[s] \in [Address -> DocSet] /\ log[s][a] \in DocSet
  BY <1>1
<1>3. Len(log) \in 1..Len(log)
  BY <1>1
<1> QED
  BY <1>1, <1>2, <1>3 DEF Base, LogInv, Stored

LEMMA LoadIs ==
  ASSUME Base, NEW a \in Address, NEW v \in Version
  PROVE  /\ Load(a, v) \in LoadedSet
         /\ \/ Load(a, v) = cache[a] \/ Load(a, v) = NotLoaded
            \/ /\ Load(a, v) = Loaded(Stored[a], v)
               /\ Stored[a] # NoDoc /\ ~TooNew(a, v)
<1>1. Stored[a] \in DocSet /\ cache[a] \in LoadedSet
  BY StoredIs DEF Base, DocShapes
<1>2. Loaded(Stored[a], v) \in LoadedSet
  BY <1>1, LoadedIs
<1> QED
  BY <1>1, <1>2, NoDocIs DEF Load

\* The commit of a plan.
LEMMA CommittedIs ==
  ASSUME Base, NEW c \in Writer, writer[c].pc = "prepared"
  PROVE  LET new == Append(log, Committed(c)) IN
         /\ new \in Seq([Address -> DocSet]) /\ Len(new) = Len(log) + 1
         /\ Len(new) \in 1..MaxCommits /\ Len(new) >= 2
         /\ \A s \in 1..Len(log) : new[s] = log[s]
         /\ new[Len(new)] = Committed(c)
         /\ \A a \in Address :
              LET doc == Committed(c)[a] IN
              /\ DocOK(doc, Len(new))
              /\ IF a \in DOMAIN writer[c].ops
                 THEN doc # NoDoc =>
                        doc.stored = writer[c].ver /\ doc.id \in {Stored[a].id, Len(new)}
                 ELSE doc = Stored[a]
<1>1. /\ log \in Seq([Address -> DocSet]) /\ Len(log) \in 1..MaxCommits /\ Len(log) \in Nat
      /\ MaxCommits \in Nat /\ Len(log) < MaxCommits
  BY SessionAssumption DEF Base, DocShapes, PlanInv, PlanOK
<1>2. PICK n \in Nat : n = Len(log)
  BY <1>1
<1>3. n + 1 \in 1..MaxCommits /\ n < n + 1 /\ n + 1 >= 2
  BY <1>1, <1>2
<1>4. ASSUME NEW a \in Address
      PROVE  LET doc == Committed(c)[a] IN
             /\ doc \in DocSet /\ DocOK(doc, n + 1)
             /\ IF a \in DOMAIN writer[c].ops
                THEN doc # NoDoc =>
                       doc.stored = writer[c].ver /\ doc.id \in {Stored[a].id, n + 1}
                ELSE doc = Stored[a]
  <2>1. Stored[a] \in DocSet /\ DocOK(Stored[a], n)
    BY <1>2, StoredIs
  <2>2. CASE a \in DOMAIN writer[c].ops
    <3>1. /\ writer[c].ops[a] \in Ops /\ writer[c].ver \in Version
          /\ Applies(writer[c].ops[a], Stored[a], writer[c].ver)
      BY <2>2 DEF Base, PlanInv, PlanOK
    <3>2. Committed(c)[a] = After(writer[c].ops[a], Stored[a], writer[c].ver, n + 1)
      BY <1>2, <2>2 DEF Committed
    <3> QED
      BY <1>3, <2>1, <2>2, <3>1, <3>2, AfterIs
  <2>3. CASE a \notin DOMAIN writer[c].ops
    <3>1. Committed(c)[a] = Stored[a]
      BY <2>3 DEF Committed
    <3>2. DocOK(Stored[a], n + 1)
      BY <1>1, <1>2, <2>1 DEF DocOK
    <3> QED
      BY <2>1, <2>3, <3>1, <3>2
  <2> QED
    BY <2>2, <2>3
<1>5. Committed(c) \in [Address -> DocSet]
  <2>1. DOMAIN Committed(c) = Address /\ Committed(c) = [a \in Address |-> Committed(c)[a]]
    BY DEF Committed
  <2> QED
    BY <1>4, <2>1
<1>6. LET new == Append(log, Committed(c)) IN
      /\ new \in Seq([Address -> DocSet]) /\ Len(new) = n + 1
      /\ \A s \in 1..n : new[s] = log[s]
      /\ new[n + 1] = Committed(c)
  BY <1>1, <1>2, <1>5, AppendProperties
<1> QED
  BY <1>2, <1>3, <1>4, <1>6
-----------------------------------------------------------------------------
(* The base of the invariant is kept.                                      *)

LEMMA WriterShaped ==
  ASSUME ThreadShapes, NEW c \in Writer, NEW next \in WriterSet, Step(c, next)
  PROVE  writer' \in [Writer -> WriterSet] /\ writer'[c] = next
         /\ \A d \in Writer \ {c} : writer'[d] = writer[d]
BY DEF ThreadShapes, Step

LEMMA WriterSteps ==
  ASSUME Base, NEW c \in Writer, WriterNext(c)
  PROVE  \E next \in WriterSet :
            /\ Step(c, next)
            /\ \/ CallCommit(c) \/ EnqueueCommit(c) \/ Prepare(c) \/ StoreCommit(c)
                  \/ AdoptDocument(c) \/ TellListener(c)
               \/ InstallDraft(c) /\ next = writer[c]
               \/ next = Idle
<1>1. writer[c] \in WriterSet /\ listens \subseteq Watcher
  BY DEF Base, ThreadShapes
<1>2. Idle \in WriterSet
  BY DEF Idle, WriterSet, PlanSet
<1>3. CASE CallCommit(c) \/ EnqueueCommit(c) \/ StoreCommit(c)
  BY <1>1, <1>3 DEF CallCommit, EnqueueCommit, StoreCommit, Goto, WriterSet
<1>4. CASE Prepare(c)
  <2>1. PICK touched \in SUBSET Address, v \in Version :
          \E ops \in [touched -> Ops] :
            Step(c, [pc |-> "prepared", ops |-> ops, ver |-> v, todo |-> touched])
    BY <1>4 DEF Prepare
  <2>2. PICK ops \in [touched -> Ops] :
            Step(c, [pc |-> "prepared", ops |-> ops, ver |-> v, todo |-> touched])
    BY <2>1
  <2>3. ops \in PlanSet
    BY DEF PlanSet
  <2>4. [pc |-> "prepared", ops |-> ops, ver |-> v, todo |-> touched] \in WriterSet
    BY <2>3 DEF WriterSet
  <2> QED
    BY <1>4, <2>2, <2>4
<1>5. CASE AdoptDocument(c)
  <2>1. /\ [writer[c] EXCEPT !.pc = "publishing", !.todo = listens] \in WriterSet
        /\ \A a : [writer[c] EXCEPT !.todo = writer[c].todo \ {a}] \in WriterSet
    BY <1>1 DEF WriterSet
  <2>2. \/ Step(c, [writer[c] EXCEPT !.pc = "publishing", !.todo = listens])
        \/ \E a : Step(c, [writer[c] EXCEPT !.todo = writer[c].todo \ {a}])
    BY <1>1, <1>5 DEF AdoptDocument, WriterSet
  <2> QED
    BY <1>5, <2>1, <2>2
<1>6. CASE TellListener(c)
  <2>1. \A a : [writer[c] EXCEPT !.todo = writer[c].todo \ {a}] \in WriterSet
    BY <1>1 DEF WriterSet
  <2>2. \E a : Step(c, [writer[c] EXCEPT !.todo = writer[c].todo \ {a}])
    BY <1>1, <1>6 DEF TellListener, WriterSet
  <2> QED
    BY <1>6, <2>1, <2>2
<1>7. CASE Step(c, Idle)
  BY <1>2, <1>7
<1>8. CASE InstallDraft(c)
  <2>1. Step(c, writer[c])
    BY <1>8 DEF InstallDraft, Step, Base, ThreadShapes
  <2> QED
    BY <1>1, <1>8, <2>1
<1> QED
  BY <1>3, <1>4, <1>5, <1>6, <1>7, <1>8
     DEF WriterNext, PrepareTooOld, GiveUp, CommitAfterClose, StoreFails, EndCommit

LEMMA ReaderShaped ==
  ASSUME ThreadShapes, NEW r \in Reader, NEW next \in ReaderSet, ReaderStep(r, next)
  PROVE  reader' \in [Reader -> ReaderSet] /\ reader'[r] = next
         /\ \A d \in Reader \ {r} : reader'[d] = reader[d]
BY DEF ThreadShapes, ReaderStep

LEMMA ReaderSteps ==
  ASSUME Base, NEW r \in Reader, ReaderNext(r)
  PROVE  \E next \in ReaderSet :
            /\ ReaderStep(r, next)
            /\ \/ next = NotReading
               \/ /\ next.addr \in Address /\ next.ver \in Version
                  /\ next.floor = reader[r].floor \/ next.floor = published
<1>1. reader[r] \in ReaderSet /\ published \in Nat
  BY DEF Base, ThreadShapes, DocShapes
<1>2. NotReading \in ReaderSet
  BY DEF NotReading, ReaderSet
<1>3. CASE CallSnapshot(r)
  <2>1. PICK a \in Address, v \in Version :
           ReaderStep(r, [pc |-> "admitted", addr |-> a, ver |-> v, floor |-> published])
    BY <1>3 DEF CallSnapshot
  <2>2. [pc |-> "admitted", addr |-> a, ver |-> v, floor |-> published] \in ReaderSet
    BY <1>1 DEF ReaderSet
  <2> QED
    BY <2>1, <2>2
<1>4. CASE EnqueueSnapshot(r)
  <2>1. reader[r].addr \in Address /\ reader[r].ver \in Version
    BY <1>4 DEF EnqueueSnapshot, ReaderAt, Base, NamesInv
  <2> DEFINE next == [reader[r] EXCEPT !.pc = "queued"]
  <2>2. /\ next \in ReaderSet /\ next.addr = reader[r].addr /\ next.ver = reader[r].ver
        /\ next.floor = reader[r].floor
    BY <1>1 DEF ReaderSet
  <2> QED
    BY <1>4, <2>1, <2>2 DEF EnqueueSnapshot
<1>5. CASE ReaderStep(r, NotReading)
  BY <1>2, <1>5
<1> QED
  BY <1>3, <1>4, <1>5 DEF ReaderNext, ReadCached, ReadOnLine, SnapshotRefused

LEMMA WatcherShaped ==
  ASSUME ThreadShapes, NEW w \in Watcher, NEW next \in WatcherSet, WatcherStep(w, next)
  PROVE  watcher' \in [Watcher -> WatcherSet] /\ watcher'[w] = next
         /\ \A d \in Watcher \ {w} : watcher'[d] = watcher[d]
BY DEF ThreadShapes, WatcherStep

LEMMA WatcherSteps ==
  ASSUME Base, NEW w \in Watcher, WatcherNext(w)
  PROVE  \/ watcher' = watcher
         \/ \E next \in WatcherSet :
              /\ WatcherStep(w, next)
              /\ \/ next.pc \in {"idle", "open"}
                 \/ next.addr \in Address /\ next.ver \in Version
<1>1. watcher[w] \in WatcherSet
  BY DEF Base, ThreadShapes
<1>2. /\ NotWatching \in WatcherSet /\ NotWatching.pc = "idle"
      /\ [NotWatching EXCEPT !.pc = "open"] \in WatcherSet
      /\ [NotWatching EXCEPT !.pc = "open"].pc = "open"
  BY DEF NotWatching, WatcherSet
<1>3. CASE CallWatch(w)
  <2>1. PICK a \in Address, v \in Version :
           WatcherStep(w, [pc |-> "admitted", addr |-> a, ver |-> v])
    BY <1>3, SessionAssumption DEF CallWatch
  <2>2. [pc |-> "admitted", addr |-> a, ver |-> v] \in WatcherSet
    BY DEF WatcherSet
  <2> QED
    BY <2>1, <2>2
<1>4. ASSUME NEW pc \in {"queued", "loaded", "attaching"},
             WatcherStep(w, [watcher[w] EXCEPT !.pc = pc]),
             watcher[w].pc \in {"admitted", "queued", "loaded"}
      PROVE  \E next \in WatcherSet : /\ WatcherStep(w, next)
                                      /\ next.addr \in Address /\ next.ver \in Version
  <2>1. watcher[w].addr \in Address /\ watcher[w].ver \in Version
    BY <1>4 DEF Base, NamesInv
  <2> DEFINE next == [watcher[w] EXCEPT !.pc = pc]
  <2>2. next \in WatcherSet /\ next.addr = watcher[w].addr /\ next.ver = watcher[w].ver
    BY <1>1 DEF WatcherSet
  <2> QED
    BY <1>4, <2>1, <2>2
<1>5. CASE EnqueueWatch(w) \/ SubscribeCommits(w)
  BY <1>4, <1>5 DEF EnqueueWatch, SubscribeCommits, WatcherAt
<1>6. CASE LoadWatched(w)
  <2>1. \/ WatcherStep(w, NotWatching)
        \/ WatcherStep(w, [watcher[w] EXCEPT !.pc = "loaded"]) /\ watcher[w].pc = "queued"
    BY <1>6 DEF LoadWatched, WatcherAt
  <2> QED
    BY <1>2, <1>4, <2>1
<1>7. CASE WatchRefused(w) \/ SubscribeClose(w)
  BY <1>2, <1>7 DEF WatchRefused, SubscribeClose
<1>8. CASE Start(w) \/ Stop(w) \/ Deliver(w) \/ Panic(w)
  BY <1>8 DEF Start, Stop, Deliver, Panic
<1> QED
  BY <1>3, <1>5, <1>6, <1>7, <1>8 DEF WatcherNext

\* What each kind of step leaves alone.
LEMMA Alone ==
  /\ \A c \in Writer : WriterNext(c) =>
       UNCHANGED <<sealed, closing, listens, hears, reader, watcher, closer>>
  /\ \A r \in Reader : ReaderNext(r) =>
       UNCHANGED <<log, open, health, hearers, writer, watcher, closer, watch>>
  /\ \A w \in Watcher : WatcherNext(w) =>
       UNCHANGED <<log, open, health, published, writer, reader, closer>>
  /\ \A k \in Closer : CloserNext(k) =>
       UNCHANGED <<docs, poisoned, line, published, writer, reader, watcher>>
  /\ Unload => UNCHANGED <<log, open, health, line, hearers, writer, reader, watcher,
                           closer, watch>>
  /\ EnqueueClosing => UNCHANGED <<docs, poisoned, sealed, hearers, writer, reader, watcher,
                                   closer, watch>>
  /\ CloseStorage => UNCHANGED <<log, poisoned, sealed, hears, published, writer, reader,
                                 watcher, watch>>
<1> USE DEF docs, health, hearers, session
<1>1. ASSUME NEW c \in Writer, WriterNext(c)
      PROVE  UNCHANGED <<sealed, closing, listens, hears, reader, watcher, closer>>
  BY <1>1 DEF WriterNext, CallCommit, EnqueueCommit, Prepare, PrepareTooOld, GiveUp,
              CommitAfterClose, StoreCommit, StoreFails, InstallDraft, AdoptDocument,
              TellListener, EndCommit
<1>2. ASSUME NEW r \in Reader, ReaderNext(r)
      PROVE  UNCHANGED <<log, open, health, hearers, writer, watcher, closer, watch>>
  BY <1>2 DEF ReaderNext, CallSnapshot, ReadCached, EnqueueSnapshot, ReadOnLine, SnapshotRefused
<1>3. ASSUME NEW w \in Watcher, WatcherNext(w)
      PROVE  UNCHANGED <<log, open, health, published, writer, reader, closer>>
  BY <1>3 DEF WatcherNext, CallWatch, EnqueueWatch, LoadWatched, WatchRefused, SubscribeCommits,
              SubscribeClose, Start, Stop, Deliver, Panic
<1>4. ASSUME NEW k \in Closer, CloserNext(k)
      PROVE  UNCHANGED <<docs, poisoned, line, published, writer, reader, watcher>>
  BY <1>4 DEF CloserNext, CallClose, TakeListeners, TellClose, AwaitClose, GiveUpClose
<1> QED
  BY <1>1, <1>2, <1>3, <1>4 DEF Unload, EnqueueClosing, CloseStorage

LEMMA ThreadShapesKept == Base /\ [Next]_vars => ThreadShapes' /\ NamesInv'
<1> SUFFICES ASSUME Base, [Next]_vars  PROVE ThreadShapes' /\ NamesInv'
  OBVIOUS
<1> USE DEF docs, health, hearers, session
<1>0. ThreadShapes /\ NamesInv /\ LineInv
  BY DEF Base
<1>1. line' \in Seq(Job)
  <2>1. line' = line \/ (\E j \in Job : Enqueue(j)) \/ (Release /\ line # <<>>)
    <3>1. ASSUME NEW c \in Writer, WriterNext(c)
          PROVE  line' = line \/ Enqueue(c) \/ (Release /\ line # <<>>)
      <4>1. EndCommit(c) => Holds(c)
        BY <1>0 DEF EndCommit, At, LineInv, Works, Job
      <4> QED
        BY <3>1, <4>1
           DEF WriterNext, CallCommit, EnqueueCommit, Prepare, PrepareTooOld, GiveUp, Holds,
               CommitAfterClose, StoreCommit, StoreFails, InstallDraft, AdoptDocument,
               TellListener, EndCommit
    <3>2. ASSUME NEW r \in Reader, ReaderNext(r)
          PROVE  line' = line \/ Enqueue(r) \/ (Release /\ line # <<>>)
      BY <3>2 DEF ReaderNext, CallSnapshot, ReadCached, EnqueueSnapshot, ReadOnLine,
                  SnapshotRefused, Holds
    <3>3. ASSUME NEW w \in Watcher, WatcherNext(w)
          PROVE  line' = line \/ Enqueue(w) \/ (Release /\ line # <<>>)
      BY <3>3 DEF WatcherNext, CallWatch, EnqueueWatch, LoadWatched, WatchRefused,
                  SubscribeCommits, SubscribeClose, Start, Stop, Deliver, Panic, Holds
    <3>4. ASSUME NEW k \in Closer, CloserNext(k)  PROVE line' = line
      BY <3>4, Alone
    <3>5. Unload => line' = line
      BY DEF Unload
    <3>6. EnqueueClosing \/ CloseStorage => Enqueue(ClosingJob) \/ (Release /\ line # <<>>)
      BY DEF EnqueueClosing, CloseStorage, Holds
    <3> QED
      BY <3>1, <3>2, <3>3, <3>4, <3>5, <3>6 DEF Next, vars, Job
  <2>2. line \in Seq(Job)
    BY <1>0 DEF ThreadShapes
  <2>3. CASE Release /\ line # <<>>
    BY <2>2, <2>3, HeadTailProperties DEF Release
  <2>4. ASSUME NEW j \in Job, Enqueue(j)  PROVE line' \in Seq(Job)
    BY <2>2, <2>4, AppendProperties DEF Enqueue
  <2> QED
    BY <2>1, <2>2, <2>3, <2>4
<1>2. writer' \in [Writer -> WriterSet]
  <2>1. ASSUME NEW c \in Writer, WriterNext(c)  PROVE writer' \in [Writer -> WriterSet]
    BY <1>0, <2>1, WriterSteps, WriterShaped
  <2>2. CASE writer' = writer
    BY <1>0, <2>2 DEF ThreadShapes
  <2> QED
    BY <2>1, <2>2, Alone DEF Next, vars
<1>3. /\ reader' \in [Reader -> ReaderSet]
      /\ \A r \in Reader : reader'[r].pc # "idle" =>
           reader'[r].addr \in Address /\ reader'[r].ver \in Version
  <2>1. ASSUME NEW r \in Reader, ReaderNext(r)
        PROVE  /\ reader' \in [Reader -> ReaderSet]
               /\ \A q \in Reader : reader'[q].pc # "idle" =>
                    reader'[q].addr \in Address /\ reader'[q].ver \in Version
    <3>1. PICK next \in ReaderSet :
             /\ ReaderStep(r, next)
             /\ next = NotReading \/ (next.addr \in Address /\ next.ver \in Version)
      BY <2>1, ReaderSteps
    <3>2. NotReading.pc = "idle"
      BY DEF NotReading
    <3>3. reader' \in [Reader -> ReaderSet] /\ reader'[r] = next
          /\ \A d \in Reader \ {r} : reader'[d] = reader[d]
      BY <1>0, <3>1, ReaderShaped
    <3> QED
      BY <1>0, <3>1, <3>2, <3>3 DEF NamesInv
  <2>2. CASE reader' = reader
    BY <1>0, <2>2 DEF ThreadShapes, NamesInv
  <2> QED
    BY <2>1, <2>2, Alone DEF Next, vars
<1>4. /\ watcher' \in [Watcher -> WatcherSet]
      /\ \A w \in Watcher : watcher'[w].pc \in {"admitted", "queued", "loaded", "attaching"} =>
           watcher'[w].addr \in Address /\ watcher'[w].ver \in Version
  <2>1. CASE watcher' = watcher
    BY <1>0, <2>1 DEF ThreadShapes, NamesInv
  <2>2. ASSUME NEW w \in Watcher, WatcherNext(w), watcher' # watcher
        PROVE  /\ watcher' \in [Watcher -> WatcherSet]
               /\ \A q \in Watcher :
                    watcher'[q].pc \in {"admitted", "queued", "loaded", "attaching"} =>
                      watcher'[q].addr \in Address /\ watcher'[q].ver \in Version
    <3>1. PICK next \in WatcherSet :
             /\ WatcherStep(w, next)
             /\ next.pc \in {"idle", "open"} \/ (next.addr \in Address /\ next.ver \in Version)
      BY <2>2, WatcherSteps
    <3>2. watcher' \in [Watcher -> WatcherSet] /\ watcher'[w] = next
          /\ \A d \in Watcher \ {w} : watcher'[d] = watcher[d]
      BY <1>0, <3>1, WatcherShaped
    <3> QED
      BY <1>0, <3>1, <3>2 DEF NamesInv
  <2> QED
    BY <2>1, <2>2, Alone DEF Next, vars
<1>5. closer' \in [Closer -> CloserSet] /\ listens' \subseteq Watcher /\ hears' \subseteq Watcher
  <2>0. closer \in [Closer -> CloserSet] /\ listens \subseteq Watcher /\ hears \subseteq Watcher
    BY <1>0 DEF ThreadShapes
  <2>1. ASSUME NEW k \in Closer, CloserNext(k)
        PROVE  closer' \in [Closer -> CloserSet] /\ listens' \subseteq Watcher
               /\ hears' \subseteq Watcher
    <3>1. PICK pc \in {"idle", "sealing", "telling", "waiting", "returned"}, todo \in SUBSET Watcher :
            CloserStep(k, pc, todo)
      <4>1. \A w : closer[k].todo \ {w} \in SUBSET Watcher
        BY <2>0 DEF CloserSet
      <4> QED
        BY <2>0, <2>1, <4>1
           DEF CloserNext, CallClose, TakeListeners, TellClose, AwaitClose, GiveUpClose
    <3>2. listens' \subseteq Watcher /\ hears' \subseteq Watcher
      BY <2>0, <2>1
         DEF CloserNext, CallClose, TakeListeners, TellClose, AwaitClose, GiveUpClose, Becomes
    <3> QED
      BY <2>0, <3>1, <3>2 DEF CloserStep, CloserSet
  <2>2. ASSUME NEW w \in Watcher, WatcherNext(w)
        PROVE  listens' \subseteq Watcher /\ hears' \subseteq Watcher
    BY <2>0, <2>2
       DEF WatcherNext, CallWatch, EnqueueWatch, LoadWatched, WatchRefused,
           SubscribeCommits, SubscribeClose, Start, Stop, Deliver, Panic, Becomes
  <2>3. CASE CloseStorage
    <3>1. ASSUME NEW k \in Closer
          PROVE  [closer[k] EXCEPT !.pc = IF @ = "waiting" THEN "returned" ELSE @] \in CloserSet
      BY <2>0 DEF CloserSet
    <3> QED
      BY <2>0, <2>3, <3>1 DEF CloseStorage
  <2> QED
    BY <2>0, <2>1, <2>2, <2>3, Alone DEF Next, vars
<1> QED
  BY <1>1, <1>2, <1>3, <1>4, <1>5 DEF ThreadShapes, NamesInv

\* The log changes by a commit of a writer at work alone.
LEMMA LogSteps ==
  ASSUME Base, [Next]_vars
  PROVE  \/ log' = log
         \/ \E c \in Writer : /\ writer[c].pc = "prepared" /\ (StoreCommit(c) \/ StoreFails(c))
                              /\ log' = Append(log, Committed(c))
<1> USE DEF docs, health, hearers, session
<1>1. ASSUME NEW c \in Writer, WriterNext(c)
      PROVE  \/ log' = log
             \/ /\ writer[c].pc = "prepared" /\ (StoreCommit(c) \/ StoreFails(c))
                /\ log' = Append(log, Committed(c))
  <2>1. CASE StoreCommit(c) \/ StoreFails(c)
    BY <2>1 DEF StoreCommit, StoreFails, At
  <2>2. CASE ~(StoreCommit(c) \/ StoreFails(c))
    BY <1>1, <2>2
       DEF WriterNext, CallCommit, EnqueueCommit, Prepare, PrepareTooOld, GiveUp,
           CommitAfterClose, InstallDraft, AdoptDocument,
           TellListener, EndCommit
  <2> QED
    BY <2>1, <2>2
<1> QED
  BY <1>1, Alone DEF Next, vars

\* What a step may put into memory.
LEMMA AdoptedIs ==
  ASSUME Base, NEW c \in Writer, writer[c].pc = "stored", NEW a \in writer[c].todo
  PROVE  /\ a \in Address /\ Adopted(c, a) \in LoadedSet
         /\ \/ Adopted(c, a) = NotLoaded
            \/ /\ Adopted(c, a) = Loaded(Stored[a], writer[c].ver)
               /\ Stored[a] # NoDoc /\ ~TooNew(a, writer[c].ver)
            \/ Stored[a] = NoDoc /\ Adopted(c, a) = cache[a] /\ cache[a].id # Before(a).id
<1>1. /\ a \in DOMAIN writer[c].ops /\ a \in Address /\ writer[c].ver \in Version
      /\ Stepped(c, a) /\ cache[a] \in LoadedSet
  BY DEF Base, PlanInv, PlanOK, DocShapes
<1>2. Stored[a] \in DocSet
  BY <1>1, StoredIs
<1>3. Loaded(Stored[a], writer[c].ver) \in LoadedSet
  BY <1>1, <1>2, LoadedIs
<1>4. Stored[a] # NoDoc => ~TooNew(a, writer[c].ver)
  <2>1. PICK v \in Nat : v = writer[c].ver /\ ~(v > v)
    <3>1. writer[c].ver \in Nat
      BY <1>1, SessionAssumption
    <3> QED
      BY <3>1
  <2> QED
    BY <1>1, <2>1 DEF Stepped, TooNew
<1> QED
  BY <1>1, <1>3, <1>4, NoDocIs DEF Adopted

\* What a document that was changed and retired at once is in memory for a while.
LEMMA PassingIs ==
  ASSUME Base, NEW c \in Writer, writer[c].pc = "stored", NEW a \in writer[c].todo, Passes(c, a)
  PROVE  /\ a \in Address /\ Passing(c, a) \in LoadedSet /\ Passing(c, a) # NotLoaded
         /\ Passing(c, a).id = Before(a).id /\ Passing(c, a).ver = writer[c].ver
         /\ \/ Passing(c, a).content = Len(log)
            \/ Passing(c, a).content = Before(a).content /\ Before(a) # NoDoc
<1> DEFINE op  == writer[c].ops[a]
           v   == writer[c].ver
           doc == Before(a)
           new == Drafted(op, doc, v, Len(log))
<1>1. /\ a \in DOMAIN writer[c].ops /\ a \in Address /\ v \in Version
      /\ Stepped(c, a) /\ Len(log) >= 2
  BY DEF Base, PlanInv, PlanOK
<1>2. op \in Ops /\ Applies(op, doc, v) /\ op.draft # "none" /\ doc # NoDoc
  BY <1>1 DEF Stepped, Passes
<1>3. PICK n \in Nat : n = Len(log) /\ n \in 1..MaxCommits
  BY SessionAssumption DEF Base, DocShapes
<1>4. /\ n - 1 \in 1..Len(log) /\ n - 1 \in Nat /\ n - 1 < n
  BY <1>1, <1>3
<1>5. doc = log[n - 1][a] /\ doc \in DocSet /\ DocOK(doc, n - 1)
  <2>1. log \in Seq([Address -> DocSet])
    BY DEF Base, DocShapes
  <2>2. log[n - 1] \in [Address -> DocSet]
    BY <1>4, <2>1
  <2> QED
    BY <1>1, <1>3, <1>4, <2>2 DEF Before, Base, LogInv
<1>6. /\ new \in DocSet /\ new # NoDoc /\ new.id = doc.id
      /\ new.content = n \/ new.content = doc.content
  <2>1. n \in 1..MaxCommits /\ new = Drafted(op, doc, v, n)
    BY <1>3
  <2> HIDE DEF new, op, doc, v
  <2> QED
    BY <1>1, <1>2, <1>4, <1>5, <2>1, DraftedIs
<1>7. Passing(c, a) = Loaded(new, v)
  BY DEF Passing
<1> HIDE DEF new, doc
<1> QED
  BY <1>1, <1>2, <1>3, <1>6, <1>7, LoadedIs DEF doc

LEMMA InstallSteps ==
  ASSUME Base, NEW c \in Writer, InstallDraft(c), NEW a \in Address
  PROVE  \/ cache'[a] = cache[a]
         \/ /\ writer[c].pc = "stored" /\ a \in writer[c].todo /\ Passes(c, a)
            /\ cache'[a] = Passing(c, a)
            /\ UNCHANGED <<log, writer>>
<1>1. PICK b \in writer[c].todo :
         Passes(c, b) /\ cache' = [cache EXCEPT ![b] = Passing(c, b)]
  BY DEF InstallDraft
<1>2. writer[c].pc = "stored" /\ cache \in [Address -> LoadedSet] /\ UNCHANGED <<log, writer>>
  BY DEF InstallDraft, At, Base, DocShapes
<1>3. CASE b = a
  <2>1. cache'[a] = Passing(c, a)
    BY <1>1, <1>2, <1>3
  <2> QED
    BY <1>1, <1>2, <1>3, <2>1
<1>4. CASE b # a
  BY <1>1, <1>2, <1>4
<1> QED
  BY <1>3, <1>4

LEMMA HoldingReaderWaits ==
  ASSUME Base, NEW r \in Reader, Holds(r)  PROVE reader[r].pc = "queued"
<1>1. r \in ToSet(line) /\ r \in Job
  BY HeadOnLine DEF Holds, Base, ThreadShapes, Job
<1>2. OnLine(r)
  BY <1>1 DEF Base, LineInv
<1> QED
  BY <1>2, SessionAssumption DEF OnLine

LEMMA MemorySteps ==
  ASSUME Base, [Next]_vars, NEW a \in Address
  PROVE  \/ cache'[a] = cache[a] \/ cache'[a] = NotLoaded
         \/ \E v \in Version :
              /\ cache'[a] = Loaded(Stored[a], v) /\ Stored[a] # NoDoc /\ ~TooNew(a, v)
              /\ log' = log
         \/ \E c \in Writer :
              /\ InstallDraft(c) /\ writer[c].pc = "stored" /\ a \in writer[c].todo
              /\ Passes(c, a) /\ cache'[a] = Passing(c, a) /\ UNCHANGED <<log, writer>>
<1> DEFINE Fits(x, l) == \/ x = cache[a] \/ x = NotLoaded
                         \/ \E v \in Version : /\ x = Loaded(Stored[a], v) /\ Stored[a] # NoDoc
                                               /\ ~TooNew(a, v) /\ l = log
<1> USE DEF docs, health, hearers, session
<1>0. cache \in [Address -> LoadedSet] /\ \A v \in Version : Fits(Load(a, v), log)
  BY LoadIs DEF Base, DocShapes
<1>1. ASSUME NEW c \in Writer, WriterNext(c), ~InstallDraft(c)  PROVE Fits(cache'[a], log')
  <2>1. CASE Prepare(c)
    <3>1. PICK v \in Version : cache'[a] = cache[a] \/ cache'[a] = Load(a, v)
      BY <2>1 DEF Prepare
    <3>2. log' = log
      BY <2>1 DEF Prepare
    <3> QED
      BY <1>0, <3>1, <3>2
  <2>2. CASE PrepareTooOld(c)
    <3>1. PICK v \in Version, b \in Address : cache' = [cache EXCEPT ![b] = Load(b, v)]
      BY <2>2 DEF PrepareTooOld
    <3>2. cache'[a] = cache[a] \/ cache'[a] = Load(a, v)
      BY <1>0, <3>1
    <3>3. log' = log
      BY <2>2 DEF PrepareTooOld
    <3> QED
      BY <1>0, <3>2, <3>3
  <2>3. CASE AdoptDocument(c)
    <3>1. PICK b \in writer[c].todo : cache' = [cache EXCEPT ![b] = Adopted(c, b)]
      BY <2>3 DEF AdoptDocument
    <3>2. writer[c].pc = "stored" /\ log' = log /\ writer[c].ver \in Version
      BY <2>3 DEF AdoptDocument, At, Base, PlanInv, PlanOK
    <3>3. CASE b = a
      <4>1. cache'[a] = Adopted(c, a)
        BY <1>0, <3>1, <3>3
      <4> QED
        BY <3>2, <3>3, <4>1, AdoptedIs
    <3>4. CASE b # a
      BY <1>0, <3>1, <3>4
    <3> QED
      BY <3>3, <3>4
  <2>4. CASE cache' = cache
    BY <2>4
  <2> QED
    BY <1>1, <2>1, <2>2, <2>3, <2>4
       DEF WriterNext, CallCommit, EnqueueCommit, GiveUp, CommitAfterClose, StoreCommit,
           StoreFails, TellListener, EndCommit
<1>2. ASSUME NEW r \in Reader, ReaderNext(r)  PROVE Fits(cache'[a], log')
  <2>1. CASE ReadOnLine(r)
    <3>1. reader[r].addr \in Address /\ reader[r].ver \in Version
      BY <2>1, HoldingReaderWaits DEF ReadOnLine, Base, NamesInv
    <3>2. cache'[a] = cache[a] \/ cache'[a] = Load(a, reader[r].ver)
      BY <1>0, <2>1, <3>1 DEF ReadOnLine
    <3>3. log' = log
      BY <2>1 DEF ReadOnLine
    <3> QED
      BY <1>0, <3>1, <3>2, <3>3
  <2>2. CASE cache' = cache
    BY <2>2
  <2> QED
    BY <1>2, <2>1, <2>2
       DEF ReaderNext, CallSnapshot, ReadCached, EnqueueSnapshot, SnapshotRefused
<1>3. ASSUME NEW w \in Watcher, WatcherNext(w)  PROVE Fits(cache'[a], log')
  <2>1. CASE LoadWatched(w)
    <3>1. watcher[w].addr \in Address /\ watcher[w].ver \in Version
      BY <2>1 DEF LoadWatched, WatcherAt, Base, NamesInv
    <3>2. cache'[a] = cache[a] \/ cache'[a] = Load(a, watcher[w].ver)
      BY <1>0, <2>1, <3>1 DEF LoadWatched
    <3>3. log' = log
      BY <2>1 DEF LoadWatched
    <3> QED
      BY <1>0, <3>1, <3>2, <3>3
  <2>2. CASE cache' = cache
    BY <2>2
  <2> QED
    BY <1>3, <2>1, <2>2
       DEF WatcherNext, CallWatch, EnqueueWatch, WatchRefused, SubscribeCommits,
           SubscribeClose, Start, Stop, Deliver, Panic
<1>4. Unload \/ CloseStorage => cache'[a] = NotLoaded
  BY DEF Unload, CloseStorage
<1>5. ASSUME NEW c \in Writer, InstallDraft(c)
      PROVE  \/ cache'[a] = cache[a]
             \/ /\ InstallDraft(c) /\ writer[c].pc = "stored" /\ a \in writer[c].todo
                /\ Passes(c, a) /\ cache'[a] = Passing(c, a) /\ UNCHANGED <<log, writer>>
  BY <1>5, InstallSteps
<1> QED
  BY <1>1, <1>2, <1>3, <1>4, <1>5, Alone DEF Next, vars

LEMMA DocShapesKept == Base /\ [Next]_vars => DocShapes' /\ LogInv'
<1> SUFFICES ASSUME Base, [Next]_vars  PROVE DocShapes' /\ LogInv'
  OBVIOUS
<1> USE DEF docs, health, hearers, session
<1>0. DocShapes /\ LogInv /\ log \in Seq([Address -> DocSet]) /\ Len(log) \in Nat
  BY SessionAssumption DEF Base, DocShapes
<1>1. log' \in Seq([Address -> DocSet]) /\ Len(log') \in 1..MaxCommits /\ LogInv'
  <2>1. CASE log' = log
    BY <1>0, <2>1 DEF DocShapes, LogInv
  <2>2. ASSUME NEW c \in Writer, writer[c].pc = "prepared", log' = Append(log, Committed(c))
        PROVE  log' \in Seq([Address -> DocSet]) /\ Len(log') \in 1..MaxCommits /\ LogInv'
    <3>1. /\ log' \in Seq([Address -> DocSet]) /\ Len(log') = Len(log) + 1
          /\ Len(log') \in 1..MaxCommits
          /\ \A s \in 1..Len(log) : log'[s] = log[s]
          /\ \A a \in Address : DocOK(log'[Len(log')][a], Len(log'))
      BY <2>2, CommittedIs
    <3>2. ASSUME NEW s \in 1..Len(log'), NEW a \in Address  PROVE DocOK(log'[s][a], s)
      <4>1. s \in 1..Len(log) \/ s = Len(log')
        BY <1>0, <3>1
      <4> QED
        BY <1>0, <3>1, <4>1 DEF LogInv
    <3> QED
      BY <3>1, <3>2 DEF LogInv
  <2> QED
    BY <2>1, <2>2, LogSteps
<1>2. cache' \in [Address -> LoadedSet]
  <2>1. ASSUME NEW a \in Address  PROVE cache'[a] \in LoadedSet
    <3>1. Stored[a] \in DocSet /\ cache[a] \in LoadedSet
      BY <1>0, StoredIs DEF DocShapes
    <3>2. \A v \in Version : Loaded(Stored[a], v) \in LoadedSet
      BY <3>1, LoadedIs
    <3>3. ASSUME NEW c \in Writer, writer[c].pc = "stored", a \in writer[c].todo, Passes(c, a)
          PROVE  Passing(c, a) \in LoadedSet
      BY <3>3, PassingIs
    <3> QED
      BY <3>1, <3>2, <3>3, MemorySteps, NoDocIs
  <2>2. cache' = [a \in Address |-> cache'[a]]
    <3>0. cache = [a \in Address |-> cache[a]]
      BY <1>0 DEF DocShapes
    <3>1. CASE \E a : \E x : cache' = [cache EXCEPT ![a] = x]
      BY <3>0, <3>1
    <3>2. CASE cache' = cache
      BY <3>0, <3>2
    <3>3. ASSUME NEW c \in Writer, WriterNext(c)  PROVE cache' = [a \in Address |-> cache'[a]]
      BY <3>1, <3>2, <3>3
         DEF WriterNext, CallCommit, EnqueueCommit, Prepare, PrepareTooOld, GiveUp,
             CommitAfterClose, StoreCommit, StoreFails, InstallDraft, AdoptDocument,
             TellListener, EndCommit
    <3>4. ASSUME NEW r \in Reader, ReaderNext(r)  PROVE cache' = [a \in Address |-> cache'[a]]
      BY <3>1, <3>2, <3>4
         DEF ReaderNext, CallSnapshot, ReadCached, EnqueueSnapshot, ReadOnLine, SnapshotRefused
    <3>5. ASSUME NEW w \in Watcher, WatcherNext(w)  PROVE cache' = [a \in Address |-> cache'[a]]
      BY <3>1, <3>2, <3>5
         DEF WatcherNext, CallWatch, EnqueueWatch, LoadWatched, WatchRefused, SubscribeCommits,
             SubscribeClose, Start, Stop, Deliver, Panic
    <3>6. Unload \/ CloseStorage => cache' = [a \in Address |-> cache'[a]]
      BY DEF Unload, CloseStorage
    <3> QED
      BY <3>2, <3>3, <3>4, <3>5, <3>6, Alone DEF Next, vars
  <2> QED
    BY <2>1, <2>2
<1>3. open' \in BOOLEAN /\ poisoned' \in BOOLEAN /\ published' \in Nat
  <2>1. ASSUME NEW c \in Writer, WriterNext(c)
        PROVE  open' \in BOOLEAN /\ poisoned' \in BOOLEAN /\ published' \in Nat
    BY <1>0, <2>1
       DEF WriterNext, CallCommit, EnqueueCommit, Prepare, PrepareTooOld, GiveUp, DocShapes,
           CommitAfterClose, StoreCommit, StoreFails, InstallDraft, AdoptDocument,
           TellListener, EndCommit
  <2>2. CloseStorage => open' \in BOOLEAN
    BY DEF CloseStorage
  <2> QED
    BY <1>0, <2>1, <2>2, Alone DEF Next, vars, DocShapes
<1>4. sealed' \in BOOLEAN /\ closing' \in {"none", "made", "queued", "done"}
  <2>1. ASSUME NEW k \in Closer, CloserNext(k)
        PROVE  sealed' \in BOOLEAN /\ closing' \in {"none", "made", "queued", "done"}
    BY <1>0, <2>1
       DEF CloserNext, CallClose, TakeListeners, TellClose, AwaitClose, GiveUpClose, DocShapes
  <2> QED
    BY <1>0, <2>1, Alone DEF Next, vars, DocShapes, EnqueueClosing, CloseStorage
<1> QED
  BY <1>1, <1>2, <1>3, <1>4 DEF DocShapes

LEMMA ToldOK ==
  ASSUME Base, NEW c \in Writer, writer[c].pc = "publishing", NEW w, WatchOK(w)
  PROVE  WatchOK(Told(w, c))
<1>1. /\ writer[c].ver \in Version /\ writer[c].ver \in Nat
      /\ DOMAIN writer[c].ops \subseteq Address /\ Len(log) >= 2
  BY SessionAssumption DEF Base, PlanInv, PlanOK
<1>2. ASSUME NEW a \in Address
      PROVE  Stored[a].content \in Int /\ Before(a).content \in Int
  <2>1. Len(log) - 1 \in 1..Len(log)
    BY <1>1, StoredIs
  <2>2. Stored[a] \in DocSet /\ Before(a) \in DocSet
    BY <2>1, StoredIs DEF Before
  <2> QED
    BY <2>2, SessionAssumption DEF DocSet
<1>3. CASE w.addr \notin Address
  <2>1. Told(w, c) = w
    BY <1>1, <1>3 DEF Told
  <2> QED
    BY <2>1
<1>4. ASSUME w.addr \in Address, ~Ended(w)
      PROVE  WatchOK(Observed(w, w.addr, writer[c].ver))
  <2> DEFINE a == w.addr
             v == writer[c].ver
             s == [w EXCEPT !.seen = v]
             new == Value(Stored[a].content, v)
  <2>1. /\ new \in ValueSet /\ Replacement(new) \in FrameSet
        /\ Frame(Value(Before(a).content, v), new) \in FrameSet
    BY <1>1, <1>2, <1>4, ValuesAre
  <2>2. WatchOK(s)
    BY <1>1 DEF WatchOK, WatchSet
  <2>3. WatchOK(Advance(s, Replacement(new), MaxPending))
    BY <2>1, <2>2, AdvanceOK
  <2>4. WatchOK(Advance(w, Frame(Value(Before(a).content, v), new), MaxPending))
    BY <2>1, AdvanceOK
  <2> QED
    BY <2>3, <2>4 DEF Observed
<1>5. WatchOK(Advance(w, Replacement(Null), MaxPending))
  BY AdvanceOK, ValuesAre
<1>6. CASE w.addr \in Address
  <2>1. Told(w, c) \in {w, Advance(w, Replacement(Null), MaxPending),
                        Observed(w, w.addr, writer[c].ver)}
    BY DEF Told
  <2>2. Ended(w) => Told(w, c) = w
    BY DEF Told
  <2> QED
    BY <1>4, <1>5, <1>6, <2>1, <2>2
<1> QED
  BY <1>3, <1>6

LEMMA WatchShapesKept == Base /\ [Next]_vars => WatchShapes'
<1> SUFFICES ASSUME Base, [Next]_vars  PROVE WatchShapes'
  OBVIOUS
<1> USE DEF docs, health, hearers, session
<1>0. /\ watch \in [Watcher -> WatchSet] /\ \A w \in Watcher : WatchOK(watch[w])
      /\ cache \in [Address -> LoadedSet] /\ closer \in [Closer -> CloserSet]
  BY DEF Base, WatchShapes, WatchOK, DocShapes, ThreadShapes
<1>1. CASE watch' = watch
  BY <1>1 DEF Base, WatchShapes
<1>2. ASSUME NEW w \in Watcher, NEW next, WatchOK(next), watch' = [watch EXCEPT ![w] = next]
      PROVE  WatchShapes'
  BY <1>0, <1>2 DEF WatchShapes, WatchOK
<1>3. ASSUME NEW c \in Writer, WriterNext(c)  PROVE WatchShapes'
  <2>1. CASE TellListener(c)
    <3>1. PICK w \in writer[c].todo : watch' = [watch EXCEPT ![w] = Told(watch[w], c)]
      BY <2>1 DEF TellListener
    <3>2. writer[c].pc = "publishing" /\ w \in Watcher
      BY <2>1 DEF TellListener, At, Base, PlanInv, PlanOK
    <3> QED
      BY <1>0, <1>2, <3>1, <3>2, ToldOK
  <2>2. CASE ~TellListener(c)
    BY <1>1, <1>3, <2>2
       DEF WriterNext, CallCommit, EnqueueCommit, Prepare, PrepareTooOld, GiveUp,
           CommitAfterClose, StoreCommit, StoreFails, InstallDraft, AdoptDocument,
           EndCommit
  <2> QED
    BY <2>1, <2>2
<1>4. ASSUME NEW w \in Watcher, WatcherNext(w)  PROVE WatchShapes'
  <2>1. CASE SubscribeCommits(w)
    <3> DEFINE a    == watcher[w].addr
               new  == NewWatch(a, cache[a].id, Value(cache[a].content, cache[a].ver))
    <3>1. a \in Address
      BY <2>1 DEF SubscribeCommits, WatcherAt, Base, NamesInv
    <3>2. /\ cache[a].id \in Number /\ cache[a].content \in Int /\ cache[a].ver \in Nat
      <4>1. cache[a] \in LoadedSet
        BY <1>0, <3>1
      <4>2. cache[a].id \in Number /\ cache[a].content \in Number /\ cache[a].ver \in Version \cup {0}
        BY <4>1 DEF LoadedSet, Number
      <4>3. Number \subseteq Int /\ Version \cup {0} \subseteq Nat
        BY SessionAssumption DEF Number
      <4> QED
        BY <4>2, <4>3
    <3>3. /\ Value(cache[a].content, cache[a].ver) \in ValueSet
          /\ Value(cache[a].content, cache[a].ver).shape = cache[a].ver
      BY SMTT(30), <3>2, ValuesAre
    <3>4. WatchOK(new)
      BY <3>1, <3>2, <3>3, NoWatchOK DEF NewWatch, WatchOK, WatchSet
    <3>5. watch' = [watch EXCEPT ![w] = new]
      BY <2>1 DEF SubscribeCommits
    <3> QED
      BY <1>2, <3>4, <3>5
  <2>2. CASE Start(w) \/ Stop(w) \/ Deliver(w) \/ Panic(w)
    <3>1. PICK next \in {StartWatch(watch[w]), Terminate(watch[w]), BeginDrain(watch[w]),
                         PopFrame(watch[w]), ListenerReturns(watch[w]), ListenerPanics(watch[w]),
                         EndDrain(watch[w])} : Becomes(w, next)
      BY <2>2 DEF Start, Stop, Deliver, Panic
    <3>2. WatchOK(next)
      BY <1>0, <3>1, OwnSteps
    <3> QED
      BY <1>2, <3>1, <3>2 DEF Becomes
  <2> QED
    BY <1>1, <1>4, <2>1, <2>2
       DEF WatcherNext, CallWatch, EnqueueWatch, LoadWatched, WatchRefused, SubscribeClose
<1>5. ASSUME NEW k \in Closer, CloserNext(k)  PROVE WatchShapes'
  <2>1. CASE TellClose(k)
    <3>1. PICK w \in closer[k].todo : Becomes(w, Terminate(watch[w]))
      BY <2>1 DEF TellClose
    <3>2. w \in Watcher
      BY <1>0, <3>1 DEF CloserSet
    <3>3. WatchOK(Terminate(watch[w]))
      BY <1>0, <3>2, OwnSteps
    <3> QED
      BY <1>2, <3>1, <3>2, <3>3 DEF Becomes
  <2> QED
    BY <1>1, <1>5, <2>1 DEF CloserNext, CallClose, TakeListeners, AwaitClose, GiveUpClose
<1> QED
  BY <1>1, <1>3, <1>4, <1>5, Alone DEF Next, vars

LEMMA PlanStays ==
  ASSUME NEW c \in Writer, PlanOK(c), writer'[c] = writer[c],
         UNCHANGED <<log, open, poisoned, published>>
  PROVE  PlanOK(c)'
BY DEF PlanOK, Stepped, Stored, Before

LEMMA PlanRests ==
  ASSUME NEW c \in Writer, ~(writer'[c].pc \in {"prepared", "stored", "publishing"})
  PROVE  PlanOK(c)'
BY DEF PlanOK

LEMMA PlanInvKept == Base /\ [Next]_vars => PlanInv'
<1> SUFFICES ASSUME Base, [Next]_vars  PROVE PlanInv'
  OBVIOUS
<1> USE DEF docs, health, hearers, session
<1>0. PlanInv /\ LineInv /\ ThreadShapes
  BY DEF Base
<1>1. CASE UNCHANGED <<log, open, poisoned, published, writer>>
  BY <1>0, <1>1, PlanStays DEF PlanInv, Unpublished
<1>2. CASE CloseStorage
  <2>1. ClosingJob \in Job /\ Holds(ClosingJob) /\ UNCHANGED <<log, poisoned, published, writer>>
    BY <1>2 DEF CloseStorage, Job
  <2>2. \A c \in Writer : c \in Job \ {ClosingJob}
    BY SessionAssumption DEF Job
  <2>3. \A c \in Writer : ~(writer[c].pc \in {"prepared", "stored", "publishing"})
    BY <1>0, <2>1, <2>2, OthersRest DEF Works
  <2>4. ~Unpublished /\ ~Unpublished' /\ \A c \in Writer : PlanOK(c)'
    BY <2>1, <2>3, PlanRests DEF Unpublished
  <2> QED
    BY <1>0, <2>1, <2>4 DEF PlanInv
<1>3. ASSUME NEW c \in Writer, CallCommit(c) \/ EnqueueCommit(c)  PROVE PlanInv'
  <2>1. PICK next \in WriterSet : Step(c, next) /\ next.pc \in {"admitted", "queued"}
    BY SMTT(30), <1>0, <1>3 DEF CallCommit, EnqueueCommit, Goto, ThreadShapes, WriterSet
  <2>2. writer'[c] = next /\ \A d \in Writer \ {c} : writer'[d] = writer[d]
    BY <1>0, <2>1, WriterShaped
  <2>3. writer[c].pc \in {"idle", "admitted"} /\ UNCHANGED <<log, open, poisoned, published>>
    BY <1>3 DEF CallCommit, EnqueueCommit, At
  <2>4. \A d \in Writer : PlanOK(d)'
    BY <1>0, <2>1, <2>2, <2>3, PlanStays, PlanRests DEF PlanInv
  <2>5. Unpublished' <=> Unpublished
    BY <2>1, <2>2, <2>3 DEF Unpublished
  <2> QED
    BY <1>0, <2>3, <2>4, <2>5 DEF PlanInv
<1>4. ASSUME NEW c \in Writer, WriterNext(c), ~(CallCommit(c) \/ EnqueueCommit(c))  PROVE PlanInv'
  <2>1. c \in Job /\ Holds(c)
    <3>1. c \in Job
      BY DEF Job
    <3>2. \/ Holds(c)
          \/ writer[c].pc \in {"stored", "publishing"}
      BY <1>4 DEF WriterNext, Prepare, PrepareTooOld, GiveUp, CommitAfterClose, StoreCommit,
                  StoreFails, InstallDraft, AdoptDocument,
                  TellListener, EndCommit, At
    <3> QED
      BY <1>0, <3>1, <3>2 DEF LineInv, Works
  <2>2. PICK next \in WriterSet :
            /\ Step(c, next)
            /\ \/ Prepare(c) \/ StoreCommit(c) \/ AdoptDocument(c) \/ TellListener(c)
               \/ InstallDraft(c) /\ next = writer[c]
               \/ next = Idle
    BY <1>4, WriterSteps
  <2>3. writer'[c] = next /\ \A d \in Writer \ {c} : writer'[d] = writer[d]
    BY <1>0, <2>2, WriterShaped
  <2>4. \A d \in Writer \ {c} : /\ ~(writer[d].pc \in {"prepared", "stored", "publishing"})
                                /\ ~(writer'[d].pc \in {"prepared", "stored", "publishing"})
    <3>1. \A d \in Writer \ {c} : d \in Job \ {c}
      BY DEF Job
    <3> QED
      BY <1>0, <2>1, <2>3, <3>1, OthersRest DEF Works
  <2>5. /\ \A d \in Writer \ {c} : PlanOK(d)'
        /\ Unpublished' <=> next.pc \in {"stored", "publishing"}
        /\ Unpublished <=> writer[c].pc \in {"stored", "publishing"}
    BY <2>3, <2>4, PlanRests DEF Unpublished
  <2>6. PlanOK(c) /\ published \in 1..Len(log) /\ Len(log) \in Nat
    BY <1>0, SessionAssumption DEF PlanInv, Base, DocShapes
  <2>7. CASE Prepare(c)
    <3>0. PICK touched \in SUBSET Address, v \in Version :
            \E ops \in [touched -> Ops] :
             /\ \A a \in touched : Applies(ops[a], Stored[a], v)
             /\ Step(c, [pc |-> "prepared", ops |-> ops, ver |-> v, todo |-> touched])
      BY <2>7 DEF Prepare
    <3>1. PICK ops \in [touched -> Ops] :
             /\ \A a \in touched : Applies(ops[a], Stored[a], v)
             /\ Step(c, [pc |-> "prepared", ops |-> ops, ver |-> v, todo |-> touched])
      BY <3>0
    <3>2. writer'[c] = [pc |-> "prepared", ops |-> ops, ver |-> v, todo |-> touched]
      BY <1>0, <3>1 DEF Step, ThreadShapes
    <3>3. /\ open /\ ~poisoned /\ Len(log) < MaxCommits /\ writer[c].pc = "queued"
          /\ UNCHANGED <<log, open, poisoned, published>>
      BY <2>7 DEF Prepare, MayRun, At
    <3>4. PlanOK(c)'
      BY <3>1, <3>2, <3>3 DEF PlanOK, Stored
    <3> QED
      BY <1>0, <2>3, <2>5, <3>2, <3>3, <3>4 DEF PlanInv
  <2>8. CASE StoreCommit(c)
    <3>1. /\ writer[c].pc = "prepared" /\ log' = Append(log, Committed(c))
          /\ UNCHANGED <<open, poisoned, published>>
          /\ next = [writer[c] EXCEPT !.pc = "stored"]
      <4>1. next = [writer[c] EXCEPT !.pc = "stored"]
        BY <1>0, <2>3, <2>8 DEF StoreCommit, Goto, Step, ThreadShapes
      <4> QED
        BY <2>8, <4>1 DEF StoreCommit, At
    <3>2. /\ next.pc = "stored" /\ next.ops = writer[c].ops /\ next.ver = writer[c].ver
          /\ next.todo = writer[c].todo
      BY <1>0, <3>1 DEF ThreadShapes, WriterSet
    <3>3. /\ open /\ ~poisoned /\ published = Len(log) /\ Len(log') = Len(log) + 1
          /\ Len(log') >= 2 /\ published = Len(log') - 1 /\ published \in 1..Len(log')
      <4>1. open /\ ~poisoned /\ published = Len(log)
        BY <1>0, <2>5, <3>1 DEF PlanInv, PlanOK
      <4>2. Len(log') = Len(log) + 1 /\ Len(log') >= 2
        BY <3>1, CommittedIs
      <4> QED
        BY <2>6, <4>1, <4>2
    <3>4. /\ Stored' = Committed(c) /\ log'[Len(log') - 1] = Stored
      <4>1. Len(log) \in 1..Len(log) /\ Len(log') - 1 = Len(log)
        BY <2>6, <3>3
      <4> QED
        BY <3>1, <4>1, CommittedIs DEF Stored
    <3>5. \A a \in Address : Stepped(c, a)'
      <4>1. ASSUME NEW a \in Address
            PROVE  IF a \in DOMAIN writer[c].ops
                   THEN /\ writer[c].ops[a] \in Ops
                        /\ Applies(writer[c].ops[a], Stored[a], writer[c].ver)
                        /\ Committed(c)[a] # NoDoc =>
                             /\ Committed(c)[a].stored = writer[c].ver
                             /\ Committed(c)[a].id \in {Stored[a].id, Len(log')}
                   ELSE Committed(c)[a] = Stored[a]
        BY <2>6, <3>1, CommittedIs DEF PlanOK
      <4> QED
        BY <2>3, <3>2, <3>4, <4>1 DEF Stepped, Before
    <3>6. PlanOK(c)'
      <4>1. /\ DOMAIN next.ops \subseteq Address /\ next.ver \in Version
            /\ next.todo \subseteq DOMAIN next.ops
        BY <2>6, <3>1, <3>2 DEF PlanOK
      <4>2. /\ writer'[c] = next /\ open' /\ ~poisoned' /\ published' = Len(log') - 1
        BY <2>3, <3>1, <3>3
      <4>3. /\ writer'[c].pc = "stored" /\ DOMAIN writer'[c].ops \subseteq Address
            /\ writer'[c].ver \in Version /\ writer'[c].todo \subseteq DOMAIN writer'[c].ops
        BY <3>2, <4>1, <4>2
      <4>4. Len(log') >= 2 /\ published' = Len(log') - 1 /\ open' /\ ~poisoned'
        BY <3>3, <4>2
      <4> QED
        BY <3>5, <4>3, <4>4 DEF PlanOK
    <3> QED
      BY <2>3, <2>5, <3>1, <3>2, <3>3, <3>6 DEF PlanInv
  <2>9. CASE AdoptDocument(c) \/ TellListener(c)
    <3>1. /\ next.ops = writer[c].ops /\ next.ver = writer[c].ver
          /\ writer[c].pc \in {"stored", "publishing"}
          /\ \/ next.pc = "publishing" /\ next.todo \subseteq Watcher
             \/ /\ next.pc = "stored" /\ writer[c].pc = "stored"
                /\ next.todo \subseteq writer[c].todo
      <4>1. /\ writer[c] \in WriterSet /\ listens \subseteq Watcher
            /\ next = writer'[c] /\ writer'[c] = [writer EXCEPT ![c] = next][c]
        BY <1>0, <2>3 DEF ThreadShapes
      <4>2. CASE AdoptDocument(c)
        <5>1. /\ writer[c].pc = "stored"
              /\ \/ next = [writer[c] EXCEPT !.pc = "publishing", !.todo = listens]
                 \/ \E a : next = [writer[c] EXCEPT !.todo = writer[c].todo \ {a}]
          BY <1>0, <4>1, <4>2 DEF AdoptDocument, Step, At, ThreadShapes, WriterSet
        <5> QED
          BY <4>1, <5>1 DEF WriterSet
      <4>3. CASE TellListener(c)
        <5>1. /\ writer[c].pc = "publishing"
              /\ \E a : next = [writer[c] EXCEPT !.todo = writer[c].todo \ {a}]
          BY <1>0, <4>1, <4>3 DEF TellListener, Step, At, ThreadShapes, WriterSet
        <5>2. writer[c].todo \subseteq Watcher
          BY <2>6, <5>1 DEF PlanOK
        <5> QED
          BY <4>1, <5>1, <5>2 DEF WriterSet
      <4> QED
        BY <2>9, <4>2, <4>3
    <3>2. UNCHANGED <<log, open, poisoned, published>>
      BY <2>9 DEF AdoptDocument, TellListener
    <3>3. PlanOK(c)'
      BY <2>3, <2>6, <3>1, <3>2 DEF PlanOK, Stepped, Stored, Before
    <3> QED
      BY <1>0, <2>3, <2>5, <3>1, <3>2, <3>3 DEF PlanInv
  <2>11. CASE InstallDraft(c)
    BY <1>1, <2>11 DEF InstallDraft
  <2>10. CASE next = Idle
    <3>1. ~(next.pc \in {"prepared", "stored", "publishing"}) /\ PlanOK(c)'
      BY <2>3, <2>10, PlanRests DEF Idle
    <3>2. CASE EndCommit(c)
      BY <2>5, <2>6, <3>1, <3>2 DEF EndCommit, PlanInv
    <3>3. CASE StoreFails(c)
      <4>1. /\ log' \in {log, Append(log, Committed(c))} /\ poisoned' /\ published' = published
            /\ writer[c].pc = "prepared"
        BY <3>3 DEF StoreFails, At
      <4>2. Len(log') = Len(log) \/ Len(log') = Len(log) + 1
        BY <4>1, CommittedIs
      <4> QED
        BY <2>5, <2>6, <3>1, <4>1, <4>2 DEF PlanInv
    <3>4. CASE PrepareTooOld(c) \/ GiveUp(c) \/ CommitAfterClose(c)
      <4>1. /\ UNCHANGED <<log, published>> /\ (poisoned => poisoned' \/ CommitAfterClose(c))
            /\ writer[c].pc \in {"queued", "prepared"} /\ (CommitAfterClose(c) => ~poisoned)
        BY <3>4 DEF PrepareTooOld, GiveUp, CommitAfterClose, At, MayRun
      <4> QED
        BY <1>0, <2>5, <3>1, <4>1 DEF PlanInv
    <3> QED
      BY <1>4, <2>7, <2>8, <2>9, <2>11, <3>2, <3>3, <3>4 DEF WriterNext
  <2> QED
    BY <2>2, <2>7, <2>8, <2>9, <2>10, <2>11
<1> QED
  BY <1>1, <1>2, <1>3, <1>4, Alone DEF Next, vars

LEMMA BaseStarts == Init => Base
<1> SUFFICES ASSUME Init  PROVE Base
  OBVIOUS
<1> DEFINE newest == CHOOSE v \in Version : \A u \in Version : v <= u
           first  == [a \in Address |-> Doc(1, 1, newest)]
<1>1. newest \in Version /\ 1 \in Number /\ 1 \in 1..1 /\ 1 \in 1..MaxCommits
  BY OldestVersion, SessionAssumption DEF Number
<1> HIDE DEF newest
<1>2. /\ Doc(1, 1, newest) \in DocSet /\ DocOK(Doc(1, 1, newest), 1)
  BY <1>1, DocIs DEF DocOK
<1>3. first \in [Address -> DocSet] /\ log = <<first>>
  BY <1>2 DEF Init, newest
<1> HIDE DEF first
<1>4. log \in Seq([Address -> DocSet]) /\ Len(log) = 1 /\ log[1] = first
  BY <1>3
<1>5. DocShapes /\ LogInv
  <2>1. cache \in [Address -> LoadedSet]
    BY NoDocIs DEF Init
  <2>2. LogInv
    BY <1>2, <1>4 DEF LogInv, first
  <2> QED
    BY <1>1, <1>4, <2>1, <2>2 DEF Init, DocShapes
<1>6. /\ \A c \in Writer : writer[c] = Idle /\ Idle.pc = "idle"
      /\ \A r \in Reader : reader[r] = NotReading /\ NotReading.pc = "idle"
      /\ \A w \in Watcher : watcher[w] = NotWatching /\ NotWatching.pc = "idle"
      /\ \A w \in Watcher : watch[w] = NoWatch
  BY DEF Init, Idle, NotReading, NotWatching
<1>7. ThreadShapes
  <2>1. /\ Idle \in WriterSet /\ NotReading \in ReaderSet /\ NotWatching \in WatcherSet
        /\ NotClosing \in CloserSet
    BY DEF Idle, WriterSet, PlanSet, NotReading, ReaderSet, NotWatching, WatcherSet,
           NotClosing, CloserSet
  <2> QED
    BY <2>1 DEF Init, ThreadShapes
<1>8. WatchShapes
  BY <1>6, NoWatchOK DEF Init, WatchShapes, WatchOK
<1>9. LineInv
  <2>1. line = <<>> /\ ToSet(line) = {} /\ IsInjective(line)
    BY DEF Init, ToSet, IsInjective
  <2>2. \A j : ~OnLine(j) /\ ~Works(j)
    BY <1>6 DEF Init, OnLine, Works
  <2> QED
    BY <2>1, <2>2 DEF LineInv
<1>10. PlanInv /\ NamesInv
  BY <1>1, <1>4, <1>6 DEF Init, PlanInv, PlanOK, NamesInv
<1> QED
  BY <1>5, <1>7, <1>8, <1>9, <1>10 DEF Base

LEMMA BaseKept == Base /\ [Next]_vars => Base'
BY LineKept, ThreadShapesKept, DocShapesKept, WatchShapesKept, PlanInvKept DEF Base

LEMMA BaseAlways == Spec => []Base
<1> QED
  BY BaseStarts, BaseKept, PTL DEF Spec

\* The state has its shape; every thread is on the line as often as it waits
\* there, and no watch keeps more than MaxPending frames (commit_with,
\* snapshot, watch_doc, CommittedWatch::advance).
THEOREM TypeCorrect == Spec => []TypeOK
<1>1. Base => TypeOK
  <2> SUFFICES ASSUME Base  PROVE TypeOK
    OBVIOUS
  <2>1. DocShapes /\ ThreadShapes /\ WatchShapes /\ LineInv /\ PlanInv
    BY DEF Base
  <2>2. /\ \A c \in Writer : c \in ToSet(line) <=> ~(writer[c].pc \in {"idle", "admitted"})
        /\ \A r \in Reader : r \in ToSet(line) <=> ReaderAt(r, "queued")
        /\ \A w \in Watcher : w \in ToSet(line) <=> ~(watcher[w].pc \in {"idle", "admitted", "open"})
        /\ ClosingJob \in ToSet(line) <=> closing = "queued"
    BY <2>1, SessionAssumption DEF LineInv, OnLine, Job, ReaderAt
  <2>3. \A w \in Watcher :
           /\ watch[w].drain \in DrainState /\ watch[w].ended \in BOOLEAN
           /\ Len(watch[w].pending) <= MaxPending
    BY <2>1 DEF WatchShapes, WatchSet
  <2> QED
    BY <2>1, <2>2, <2>3 DEF TypeOK, DocShapes, ThreadShapes, LineInv, PlanInv
<1> QED
  BY <1>1, BaseAlways, PTL
-----------------------------------------------------------------------------
(* Memory.                                                                 *)

\* What is in memory at a is the document as commit s left it.
CacheIs(a, s) ==
  /\ log[s][a] # NoDoc /\ cache[a] = Loaded(log[s][a], cache[a].ver)
  /\ cache[a].ver \in Version /\ log[s][a].stored <= cache[a].ver

Adopting(a) == \E c \in Writer : writer[c].pc = "stored" /\ a \in writer[c].todo

\* Memory holds the last commit, or the one before it while the last is being
\* adopted, or for a while a document that the last commit changed and retired;
\* once the session is poisoned it is only known to hold nothing that was
\* published over.
MemoryInv ==
  \A a \in Address :
    \/ cache[a] = NotLoaded
    \/ RetiredChanged(a)
    \/ /\ \E s \in published..Len(log) : CacheIs(a, s)
       /\ poisoned \/ CacheIs(a, Len(log)) \/ (Adopting(a) /\ CacheIs(a, Len(log) - 1))

ReaderInv == \A r \in Reader : reader[r].floor <= published

\* A document that is being adopted stays so until it is.
LEMMA AdoptingStays ==
  ASSUME Base, [Next]_vars, NEW a \in Address, Adopting(a)
  PROVE  \/ Adopting(a)'
         \/ \E c \in Writer : /\ writer[c].pc = "stored" /\ a \in writer[c].todo
                              /\ AdoptDocument(c) /\ cache'[a] = Adopted(c, a)
<1>0. PICK c \in Writer : writer[c].pc = "stored" /\ a \in writer[c].todo
  BY DEF Adopting
<1>1. writer'[c] = writer[c] => Adopting(a)'
  BY <1>0 DEF Adopting
<1>2. ASSUME NEW d \in Writer, WriterNext(d), d # c  PROVE writer'[c] = writer[c]
  <2>1. PICK next \in WriterSet : Step(d, next)
    BY <1>2, WriterSteps
  <2> QED
    BY <1>2, <2>1, WriterShaped DEF Base
<1>3. CASE WriterNext(c)
  <2>1. AdoptDocument(c) \/ InstallDraft(c)
    BY <1>0, <1>3
       DEF WriterNext, CallCommit, EnqueueCommit, Prepare, PrepareTooOld, GiveUp,
           CommitAfterClose, StoreCommit, StoreFails, TellListener, EndCommit, At
  <2>5. CASE InstallDraft(c)
    BY <1>1, <2>5 DEF InstallDraft
  <2> SUFFICES ASSUME AdoptDocument(c)
               PROVE  \/ Adopting(a)'
                      \/ AdoptDocument(c) /\ cache'[a] = Adopted(c, a)
    BY <1>0, <2>1, <2>5
  <2>0. AdoptDocument(c)
    OBVIOUS
  <2>2. PICK b \in writer[c].todo :
           /\ cache' = [cache EXCEPT ![b] = Adopted(c, b)]
           /\ Step(c, IF writer[c].todo = {b}
                      THEN [writer[c] EXCEPT !.pc = "publishing", !.todo = listens]
                      ELSE [writer[c] EXCEPT !.todo = writer[c].todo \ {b}])
    BY <2>0, <2>1 DEF AdoptDocument, Base, ThreadShapes, WriterSet
  <2>3. CASE b = a
    BY <1>0, <2>0, <2>2, <2>3 DEF Base, DocShapes
  <2>4. CASE b # a
    <3>1. writer'[c] = [writer[c] EXCEPT !.todo = writer[c].todo \ {b}]
      BY <1>0, <2>2, <2>4 DEF Step, Base, ThreadShapes
    <3>2. writer'[c].pc = "stored" /\ a \in writer'[c].todo
      BY <1>0, <2>4, <3>1 DEF Base, ThreadShapes, WriterSet
    <3> QED
      BY <3>2 DEF Adopting
  <2> QED
    BY <2>3, <2>4
<1> QED
  BY <1>1, <1>2, <1>3, Alone DEF Next, vars, session

\* The steps that change what memory is compared with.
LEMMA MeasureSteps ==
  ASSUME Base, [Next]_vars
  PROVE  /\ poisoned => poisoned'
         /\ \/ published' = published
            \/ \E c \in Writer : EndCommit(c) /\ writer[c].pc = "publishing"
<1> USE DEF docs, health, hearers, session
<1>1. ASSUME NEW c \in Writer, WriterNext(c)
      PROVE  /\ poisoned => poisoned'
             /\ published' = published \/ (EndCommit(c) /\ writer[c].pc = "publishing")
  <2>1. poisoned => poisoned'
    BY <1>1
       DEF WriterNext, CallCommit, EnqueueCommit, Prepare, PrepareTooOld, GiveUp,
           CommitAfterClose, StoreCommit, StoreFails, InstallDraft, AdoptDocument,
           TellListener, EndCommit, MayRun
  <2>2. published' = published \/ EndCommit(c)
    BY <1>1
       DEF WriterNext, CallCommit, EnqueueCommit, Prepare, PrepareTooOld, GiveUp,
           CommitAfterClose, StoreCommit, StoreFails, InstallDraft, AdoptDocument,
           TellListener
  <2> QED
    BY <2>1, <2>2 DEF EndCommit, At
<1> QED
  BY <1>1, Alone DEF Next, vars

\* Only one writer is at work.
LEMMA OneWriter ==
  ASSUME Base, NEW c \in Writer, NEW d \in Writer,
         writer[c].pc \in {"prepared", "stored", "publishing"},
         writer[d].pc \in {"prepared", "stored", "publishing"}
  PROVE  c = d
BY DEF Base, LineInv, Works, Holds, Job

\* A writer that is adopting keeps its plan, and no other begins to adopt.
LEMMA AdoptingPlan ==
  ASSUME Base, [Next]_vars, NEW c \in Writer, writer[c].pc = "stored",
         NEW d \in Writer, writer'[d].pc = "stored"
  PROVE  d = c /\ writer'[d].ops = writer[c].ops /\ writer'[d].ver = writer[c].ver
<1>1. CASE writer' = writer
  BY <1>1, OneWriter
<1>2. ASSUME NEW e \in Writer, WriterNext(e)
      PROVE  d = c /\ writer'[d].ops = writer[c].ops /\ writer'[d].ver = writer[c].ver
  <2>1. PICK next \in WriterSet :
            /\ Step(e, next)
            /\ \/ CallCommit(e) \/ EnqueueCommit(e) \/ Prepare(e) \/ StoreCommit(e)
                  \/ AdoptDocument(e) \/ TellListener(e)
               \/ InstallDraft(e) /\ next = writer[e]
               \/ next = Idle
    BY <1>2, WriterSteps
  <2>2. writer'[e] = next /\ \A f \in Writer \ {e} : writer'[f] = writer[f]
    BY <2>1, WriterShaped DEF Base
  <2>3. CASE e # c
    <3>1. writer'[c] = writer[c]
      BY <2>2, <2>3
    <3>2. CASE d # e
      BY <2>2, <3>1, <3>2, OneWriter
    <3>3. CASE d = e
      <4>1. next.pc = "stored" /\ writer[e] \in WriterSet
        BY <2>2, <3>3 DEF Base, ThreadShapes
      <4>2. ~(writer[e].pc \in {"prepared", "stored", "publishing"})
        BY <2>3, OneWriter
      <4>3. CASE CallCommit(e) \/ EnqueueCommit(e)
        BY <2>2, <4>1, <4>3 DEF CallCommit, EnqueueCommit, Goto, Step, Base, ThreadShapes, WriterSet
      <4>4. CASE Prepare(e)
        BY <2>2, <4>1, <4>4 DEF Prepare, Step, Base, ThreadShapes
      <4>5. CASE StoreCommit(e) \/ AdoptDocument(e) \/ TellListener(e) \/ InstallDraft(e)
        BY <4>2, <4>5 DEF StoreCommit, AdoptDocument, TellListener, InstallDraft, At
      <4> QED
        BY <2>1, <4>1, <4>3, <4>4, <4>5 DEF Idle
    <3> QED
      BY <3>2, <3>3
  <2>4. CASE e = c
    <3>1. d = c
      BY <2>2, <2>4, OneWriter
    <3>2. writer[c] \in WriterSet /\ next.pc = "stored"
      BY <2>2, <2>4, <3>1 DEF Base, ThreadShapes
    <3>3. next # Idle /\ ~CallCommit(c) /\ ~EnqueueCommit(c) /\ ~Prepare(c) /\ ~StoreCommit(c)
          /\ ~TellListener(c)
      BY <3>2 DEF Idle, CallCommit, EnqueueCommit, Prepare, StoreCommit, TellListener, At
    <3>4. CASE AdoptDocument(c)
      <4>1. \/ writer'[c] = [writer[c] EXCEPT !.pc = "publishing", !.todo = listens]
            \/ \E a : writer'[c] = [writer[c] EXCEPT !.todo = writer[c].todo \ {a}]
        BY <3>4 DEF AdoptDocument, Step, Base, ThreadShapes, WriterSet
      <4> QED
        BY <3>1, <3>2, <4>1 DEF WriterSet
    <3> QED
      BY <2>1, <2>2, <2>4, <3>1, <3>3, <3>4
  <2> QED
    BY <2>3, <2>4
<1> QED
  BY <1>1, <1>2, Alone DEF Next, vars, session

LEMMA RetiredAdopts ==
  ASSUME NEW a \in Address, RetiredChanged(a)  PROVE Adopting(a)
BY DEF RetiredChanged, Adopting, At

LEMMA ChangedByInstall ==
  ASSUME Base, NEW a \in Address, NEW c \in Writer, writer[c].pc = "stored",
         a \in writer[c].todo, Passes(c, a), cache'[a] = Passing(c, a),
         UNCHANGED <<log, writer>>
  PROVE  RetiredChanged(a)'
<1>1. Passes(c, a)' = Passes(c, a) /\ Passing(c, a)' = Passing(c, a)
  BY DEF Passes, Passing, Before
<1> QED
  BY <1>1 DEF RetiredChanged, At

\* A document that was changed and retired stays so until it is adopted.
LEMMA RetiredStays ==
  ASSUME Base, [Next]_vars, NEW a \in Address, RetiredChanged(a), cache'[a] = cache[a]
  PROVE  \/ RetiredChanged(a)'
         \/ \E c \in Writer : /\ writer[c].pc = "stored" /\ a \in writer[c].todo
                              /\ AdoptDocument(c) /\ cache'[a] = Adopted(c, a)
<1>1. PICK c \in Writer : /\ writer[c].pc = "stored" /\ a \in writer[c].todo
                          /\ Passes(c, a) /\ cache[a] = Passing(c, a)
  BY DEF RetiredChanged, At
<1>2. log' = log
  <2>1. \A d \in Writer : writer[d].pc # "prepared"
    BY <1>1, OneWriter
  <2> QED
    BY <2>1, LogSteps
<1>3. CASE Adopting(a)'
  <2>1. PICK d \in Writer : writer'[d].pc = "stored" /\ a \in writer'[d].todo
    BY <1>3 DEF Adopting
  <2>2. d = c /\ writer'[d].ops = writer[c].ops /\ writer'[d].ver = writer[c].ver
    BY <1>1, <2>1, AdoptingPlan
  <2>3. Passes(c, a)' /\ Passing(c, a)' = Passing(c, a)
    BY <1>1, <1>2, <2>2 DEF Passes, Passing, Before
  <2> QED
    BY <1>1, <2>1, <2>2, <2>3 DEF RetiredChanged, At
<1>4. Adopting(a)
  BY RetiredAdopts
<1> QED
  BY <1>3, <1>4, AdoptingStays

LEMMA MemoryKept == Base /\ MemoryInv /\ [Next]_vars => MemoryInv'
<1> DEFINE Good(a) ==
      \/ cache[a] = NotLoaded
      \/ RetiredChanged(a)
      \/ /\ \E s \in published..Len(log) : CacheIs(a, s)
         /\ poisoned \/ CacheIs(a, Len(log)) \/ (Adopting(a) /\ CacheIs(a, Len(log) - 1))
<1> SUFFICES ASSUME Base, MemoryInv, [Next]_vars, NEW a \in Address
             PROVE  Good(a)'
  BY DEF MemoryInv
<1>0. /\ Len(log) \in Nat /\ Len(log) >= 1 /\ published \in Nat /\ published <= Len(log)
      /\ Good(a)
  BY StoredIs DEF Base, PlanInv, DocShapes, MemoryInv
\* A document that was just read, or adopted: memory holds the last commit.
<1>1. ASSUME NEW v \in Version, cache'[a] = Loaded(Stored[a], v), Stored[a] # NoDoc,
             ~TooNew(a, v), log' = log, published' = published
      PROVE  Good(a)'
  <2>1. cache'[a].ver = v /\ Stored[a] \in DocSet
    BY <1>1, StoredIs, LoadedIs
  <2>2. Stored[a].stored <= v
    <3>1. Stored[a].stored \in Int /\ v \in Int
      BY <2>1, VersionsAre
    <3> QED
      BY <1>1, <3>1 DEF TooNew
  <2>3. CacheIs(a, Len(log))'
    BY <1>1, <2>1, <2>2 DEF CacheIs, Stored
  <2>4. Len(log') \in published'..Len(log')
    BY <1>0, <1>1
  <2> QED
    BY <2>3, <2>4
<1>2. ASSUME NEW c \in Writer, writer[c].pc = "stored", a \in writer[c].todo,
             cache'[a] = Adopted(c, a), AdoptDocument(c)
      PROVE  Good(a)'
  <2>1. log' = log /\ published' = published /\ writer[c].ver \in Version
    BY <1>2 DEF AdoptDocument, hearers, Base, PlanInv, PlanOK
  <2>2. ~(Stored[a] = NoDoc /\ cache'[a] = cache[a] /\ cache[a].id # Before(a).id)
        \/ cache'[a] = NotLoaded
    <3>1. ~poisoned /\ published = Len(log) - 1 /\ Before(a) = log[Len(log) - 1][a]
      BY <1>2 DEF Base, PlanInv, PlanOK, Before
    <3>2. CacheIs(a, Len(log) - 1) => cache[a].id = Before(a).id
      <4>1. \A doc, v : Loaded(doc, v).id = doc.id
        BY DEF Loaded
      <4>2. CacheIs(a, Len(log) - 1) => cache[a] = Loaded(Before(a), cache[a].ver)
        BY DEF CacheIs, Before
      <4> QED
        BY <4>1, <4>2
    <3>3. CacheIs(a, Len(log)) => Stored[a] # NoDoc
      BY DEF CacheIs, Stored
    <3>4. RetiredChanged(a) => cache[a].id = Before(a).id
      <4>1. ASSUME NEW d \in Writer, writer[d].pc = "stored", a \in writer[d].todo,
                   Passes(d, a), cache[a] = Passing(d, a)
            PROVE  cache[a].id = Before(a).id
        BY <4>1, PassingIs
      <4> QED
        BY <4>1 DEF RetiredChanged, At
    <3> QED
      BY <1>0, <3>1, <3>2, <3>3, <3>4
  <2> QED
    BY <1>1, <1>2, <2>1, <2>2, AdoptedIs
<1>3. ASSUME cache'[a] = cache[a], log' = log, published' = published
      PROVE  Good(a)'
  <2>1. poisoned => poisoned'
    BY MeasureSteps
  <2>2. \A s : CacheIs(a, s) => CacheIs(a, s)'
    BY <1>3 DEF CacheIs
  <2>3. CASE RetiredChanged(a)
    BY <1>2, <1>3, <2>3, RetiredStays
  <2>4. CASE ~RetiredChanged(a) /\ Adopting(a)
    BY <1>0, <1>2, <1>3, <2>1, <2>2, <2>4, AdoptingStays
  <2>5. CASE ~RetiredChanged(a) /\ ~Adopting(a)
    BY <1>0, <1>3, <2>1, <2>2, <2>5
  <2> QED
    BY <2>3, <2>4, <2>5
<1>4. ASSUME NEW c \in Writer, EndCommit(c), writer[c].pc = "publishing"  PROVE Good(a)'
  <2>1. /\ cache' = cache /\ log' = log /\ published' = Len(log) /\ ~poisoned
    BY <1>4 DEF EndCommit, docs, Base, PlanInv, PlanOK
  <2>2. ~Adopting(a)
    BY <1>4, OneWriter DEF Adopting
  <2>3. cache[a] = NotLoaded \/ CacheIs(a, Len(log))
    BY <1>0, <2>1, <2>2, RetiredAdopts
  <2>4. CacheIs(a, Len(log)) => CacheIs(a, Len(log))'
    BY <2>1 DEF CacheIs
  <2>5. Len(log') \in published'..Len(log')
    BY <1>0, <2>1
  <2> QED
    BY <2>1, <2>3, <2>4, <2>5
<1>5. ASSUME NEW c \in Writer, writer[c].pc = "prepared", StoreCommit(c) \/ StoreFails(c),
             log' = Append(log, Committed(c)), cache'[a] = cache[a]
      PROVE  Good(a)'
  <2>1. /\ published' = published /\ ~poisoned /\ ~Adopting(a) /\ writer[c].todo = DOMAIN writer[c].ops
    BY <1>5, OneWriter DEF StoreCommit, StoreFails, hearers, Base, PlanInv, PlanOK, Adopting
  <2>2. cache[a] = NotLoaded \/ CacheIs(a, Len(log))
    BY <1>0, <2>1, RetiredAdopts
  <2>3. PICK n \in Nat : n = Len(log)
    BY <1>0
  <2>4. /\ Len(log') = n + 1 /\ log'[n] = log[n] /\ log'[n + 1][a] = Committed(c)[a]
        /\ n \in published'..(n + 1) /\ n + 1 \in published'..(n + 1) /\ (n + 1) - 1 = n
    <3>1. n \in 1..n
      BY <1>0, <2>3
    <3>2. Len(log') = n + 1 /\ log'[n] = log[n] /\ log'[n + 1][a] = Committed(c)[a]
      BY <1>5, <2>3, <3>1, CommittedIs
    <3> QED
      BY <1>0, <2>1, <2>3, <3>2
  <2>5. CacheIs(a, n) => CacheIs(a, n)'
    BY <1>5, <2>4 DEF CacheIs
  <2>6. CASE StoreFails(c)
    BY <1>5, <2>2, <2>3, <2>4, <2>5, <2>6 DEF StoreFails
  <2>7. CASE StoreCommit(c) /\ a \in DOMAIN writer[c].ops
    <3>1. Adopting(a)'
      <4>1. writer'[c] = [writer[c] EXCEPT !.pc = "stored"] /\ writer[c] \in WriterSet
        BY <2>7 DEF StoreCommit, Goto, Step, Base, ThreadShapes
      <4>2. writer'[c].pc = "stored" /\ writer'[c].todo = writer[c].todo
        BY <4>1 DEF WriterSet
      <4> QED
        BY <2>1, <2>7, <4>2 DEF Adopting
    <3> QED
      BY <1>5, <2>2, <2>3, <2>4, <2>5, <3>1
  <2>8. CASE a \notin DOMAIN writer[c].ops
    <3>1. log'[n + 1][a] = log[n][a]
      BY <1>5, <2>3, <2>4, <2>8, CommittedIs DEF Stored
    <3>2. CacheIs(a, n) => CacheIs(a, n + 1)'
      BY <1>5, <3>1 DEF CacheIs
    <3> QED
      BY <1>5, <2>2, <2>3, <2>4, <3>2
  <2> QED
    BY <1>5, <2>6, <2>7, <2>8
<1>6. CASE cache'[a] = cache[a]
  BY <1>3, <1>4, <1>5, <1>6, LogSteps, MeasureSteps
<1>7. CASE cache'[a] # cache[a]
  <2>1. (\E c \in Writer : EndCommit(c)) => cache' = cache
    BY DEF EndCommit, docs
  <2>2. ASSUME NEW c \in Writer, writer[c].pc = "stored", a \in writer[c].todo,
               Passes(c, a), cache'[a] = Passing(c, a), UNCHANGED <<log, writer>>
        PROVE  Good(a)'
    BY <2>2, ChangedByInstall
  <2> QED
    BY <1>1, <1>7, <2>1, <2>2, MemorySteps, MeasureSteps
<1> QED
  BY <1>6, <1>7

LEMMA ReadersKept == Base /\ ReaderInv /\ [Next]_vars => ReaderInv'
<1> SUFFICES ASSUME Base, ReaderInv, [Next]_vars, NEW r \in Reader
             PROVE  reader'[r].floor <= published'
  BY DEF ReaderInv
<1>1. /\ reader[r] \in ReaderSet /\ reader[r].floor \in Nat /\ reader[r].floor <= published
      /\ published \in Nat
  BY DEF Base, ThreadShapes, ReaderSet, DocShapes, ReaderInv
<1>2. published' \in Nat /\ published <= published'
  <2>1. CASE published' = published
    BY <1>1, <2>1
  <2>2. ASSUME NEW c \in Writer, EndCommit(c)  PROVE published' \in Nat /\ published <= published'
    <3>1. published' = Len(log) /\ published \in 1..Len(log)
      BY <2>2 DEF EndCommit, Base, PlanInv
    <3>2. Len(log) \in Nat
      BY SessionAssumption DEF Base, DocShapes
    <3> QED
      BY <3>1, <3>2
  <2> QED
    BY <2>1, <2>2, MeasureSteps
<1>3. CASE reader' = reader
  BY <1>1, <1>2, <1>3
<1>4. ASSUME NEW q \in Reader, ReaderNext(q)  PROVE reader'[r].floor <= published'
  <2>1. PICK next \in ReaderSet :
           /\ ReaderStep(q, next)
           /\ \/ next = NotReading
              \/ next.floor = reader[q].floor \/ next.floor = published
    BY <1>4, ReaderSteps
  <2>2. reader'[q] = next /\ \A d \in Reader \ {q} : reader'[d] = reader[d]
    BY <2>1, ReaderShaped DEF Base
  <2>3. CASE q = r
    <3>1. NotReading.floor = 0
      BY DEF NotReading
    <3> QED
      BY <1>1, <1>2, <2>1, <2>2, <2>3, <3>1
  <2>4. CASE q # r
    BY <1>1, <1>2, <2>2, <2>4
  <2> QED
    BY <2>3, <2>4
<1> QED
  BY <1>3, <1>4, Alone DEF Next, vars, session

LEMMA MemoryAlways == Spec => [](Base /\ MemoryInv /\ ReaderInv)
<1>1. Init => MemoryInv /\ ReaderInv
  <2> SUFFICES ASSUME Init  PROVE MemoryInv /\ ReaderInv
    OBVIOUS
  <2>1. MemoryInv
    BY DEF Init, MemoryInv
  <2>2. \A r \in Reader : reader[r].floor = 0
    BY DEF Init, NotReading
  <2> QED
    BY <2>1, <2>2 DEF Init, ReaderInv
<1> QED
  BY <1>1, BaseStarts, BaseKept, MemoryKept, ReadersKept, PTL DEF Spec

\* What is in memory is what is in storage, except for the documents that a
\* commit is adopting and in a poisoned session (Transaction::adopt,
\* run_commit, load_document).
THEOREM MemoryIsStorage == Spec => []MemoryFollowsStorage
<1>1. Base /\ MemoryInv => MemoryFollowsStorage
  <2> SUFFICES ASSUME Base, MemoryInv, NEW a \in Address
               PROVE  \/ poisoned
                      \/ \E c \in Writer : At(c, "stored") /\ a \in writer[c].todo
                      \/ cache[a] = NotLoaded
                      \/ cache[a] = Loaded(Stored[a], cache[a].ver) /\ ~TooNew(a, cache[a].ver)
    BY DEF MemoryFollowsStorage
  <2>1. CASE CacheIs(a, Len(log))
    <3>1. /\ cache[a] = Loaded(Stored[a], cache[a].ver)
          /\ Stored[a].stored <= cache[a].ver /\ cache[a].ver \in Version
      BY <2>1 DEF CacheIs, Stored
    <3>2. Stored[a].stored \in Int /\ cache[a].ver \in Int
      <4>1. Stored[a] \in DocSet
        BY StoredIs
      <4> QED
        BY <3>1, <4>1, VersionsAre
    <3>3. ~TooNew(a, cache[a].ver)
      BY <3>1, <3>2 DEF TooNew
    <3> QED
      BY <3>1, <3>3
  <2>2. Adopting(a) => \E c \in Writer : At(c, "stored") /\ a \in writer[c].todo
    BY DEF Adopting, At
  <2> QED
    BY <2>1, <2>2, RetiredAdopts DEF MemoryInv
<1> QED
  BY <1>1, MemoryAlways, PTL

\* A snapshot never misses a commit acknowledged before its call, although it
\* may be answered off the line, and shows nothing but what was in storage since
\* then, or what a commit that is being adopted gave a document it also retires
\* (SessionImpl::snapshot, Transaction::adopt).
THEOREM SnapshotsAreFresh == Spec => []SnapshotsFresh
<1>1. Base /\ MemoryInv /\ ReaderInv => SnapshotsFresh
  <2> SUFFICES ASSUME Base, MemoryInv, ReaderInv, NEW r \in Reader,
                      AnswersFromMemory(r) \/ AnswersOnLine(r)
               PROVE  \/ \E s \in reader[r].floor..Len(log) :
                            LET doc == log[s][reader[r].addr]
                            IN  Answer(r) =
                                  Value(doc.content, IF doc = NoDoc THEN 0 ELSE reader[r].ver)
                      \/ /\ RetiredChanged(reader[r].addr)
                         /\ Answer(r) = Value(Len(log), reader[r].ver)
    BY DEF SnapshotsFresh
  <2> DEFINE a == reader[r].addr
             v == reader[r].ver
             Fresh(doc) == Value(doc.content, IF doc = NoDoc THEN 0 ELSE v)
  <2>1. a \in Address /\ v \in Version
    BY HoldingReaderWaits DEF AnswersFromMemory, AnswersOnLine, ReaderAt, Base, NamesInv
  <2>2. /\ reader[r].floor \in Nat /\ published \in Nat /\ Len(log) \in Nat
        /\ reader[r].floor <= published /\ published <= Len(log)
    BY SessionAssumption DEF Base, ThreadShapes, ReaderSet, DocShapes, PlanInv, ReaderInv
  <2>8. ASSUME Serves(a, v), RetiredChanged(a)
        PROVE  \/ \E s \in reader[r].floor..Len(log) :
                     Value(cache[a].content, cache[a].ver) = Fresh(log[s][a])
               \/ Value(cache[a].content, cache[a].ver) = Value(Len(log), v)
    <3>1. PICK c \in Writer : /\ writer[c].pc = "stored" /\ a \in writer[c].todo
                              /\ Passes(c, a) /\ cache[a] = Passing(c, a)
      BY <2>8 DEF RetiredChanged, At
    <3>2. \/ cache[a].content = Len(log)
          \/ cache[a].content = Before(a).content /\ Before(a) # NoDoc
      BY <3>1, PassingIs
    <3>3. cache[a].ver = v
      BY <2>8 DEF Serves
    <3>4. published = Len(log) - 1
      BY <3>1 DEF Base, PlanInv, PlanOK
    <3>5. Len(log) - 1 \in reader[r].floor..Len(log)
      BY <2>2, <3>4
    <3>6. CASE cache[a].content = Before(a).content /\ Before(a) # NoDoc
      <4>1. Value(cache[a].content, cache[a].ver) = Fresh(log[Len(log) - 1][a])
        BY <3>3, <3>6 DEF Before
      <4> QED
        BY <3>5, <4>1
    <3> QED
      BY <3>2, <3>3, <3>6
  <2>3. ASSUME Serves(a, v), ~RetiredChanged(a)
        PROVE  \E s \in reader[r].floor..Len(log) :
                  Value(cache[a].content, cache[a].ver) = Fresh(log[s][a])
    <3>1. PICK s \in published..Len(log) : CacheIs(a, s)
      BY <2>1, <2>3 DEF Serves, MemoryInv
    <3>2. s \in reader[r].floor..Len(log)
      BY <2>2, <3>1
    <3>3. cache[a].ver = v
      BY <2>3 DEF Serves
    <3>4. cache[a].content = log[s][a].content /\ log[s][a] # NoDoc
      <4>1. \A doc, u : Loaded(doc, u).content = doc.content
        BY DEF Loaded
      <4>2. cache[a] = Loaded(log[s][a], cache[a].ver) /\ log[s][a] # NoDoc
        BY <3>1 DEF CacheIs
      <4> QED
        BY <4>1, <4>2
    <3> QED
      BY <3>2, <3>3, <3>4
  <2>4. ASSUME ~Serves(a, v), AnswersOnLine(r)
        PROVE  Value(Load(a, v).content, Load(a, v).ver) = Fresh(log[Len(log)][a])
    <3>1. ~TooNew(a, v)
      BY <2>4 DEF AnswersOnLine
    <3>2. CASE Stored[a] = NoDoc
      <4>1. Load(a, v) = NotLoaded
        BY <2>4, <3>2 DEF Load
      <4> QED
        BY <3>2, <4>1, NoDocIs DEF Stored
    <3>3. CASE Stored[a] # NoDoc
      <4>1. Load(a, v) = Loaded(Stored[a], v)
        BY <2>4, <3>1, <3>3 DEF Load
      <4>2. Stored[a] \in DocSet
        BY <2>1, StoredIs
      <4>3. Load(a, v).content = Stored[a].content /\ Load(a, v).ver = v
        BY <2>1, <4>1, <4>2, LoadedIs
      <4> QED
        BY <3>3, <4>3 DEF Stored
    <3> QED
      BY <3>2, <3>3
  <2>5. Len(log) \in reader[r].floor..Len(log)
    BY <2>2
  <2>6. CASE AnswersFromMemory(r)
    <3>1. Serves(a, v) /\ Answer(r) = Value(cache[a].content, cache[a].ver)
      BY <2>6 DEF AnswersFromMemory, Answer
    <3> QED
      BY <2>3, <2>8, <3>1
  <2>7. CASE ~AnswersFromMemory(r)
    <3>1. AnswersOnLine(r) /\ Answer(r) = Value(Load(a, v).content, Load(a, v).ver)
      BY <2>7 DEF Answer
    <3>2. CASE Serves(a, v)
      <4>1. Load(a, v) = cache[a]
        BY <3>2 DEF Load
      <4> QED
        BY <2>3, <2>8, <3>1, <3>2, <4>1
    <3>3. CASE ~Serves(a, v)
      BY <2>4, <2>5, <3>1, <3>3
    <3> QED
      BY <3>2, <3>3
  <2> QED
    BY <2>6, <2>7
<1> QED
  BY <1>1, MemoryAlways, PTL

\* A poisoned or closed session stores nothing, reads nothing into memory and
\* tells no watch of anything, whichever jobs were admitted before
\* (assert_healthy, ensure_closing, Session::commit_with).
THEOREM NothingAfterTheEndHolds == Spec => NothingAfterTheEnd
<1> USE DEF docs, health, hearers, session
<1>1. ASSUME Base, [Next]_vars, poisoned \/ ~open  PROVE log' = log
  <2>1. \A c \in Writer : writer[c].pc # "prepared"
    BY <1>1 DEF Base, PlanInv, PlanOK
  <2> QED
    BY <1>1, <2>1, LogSteps
<1>2. ASSUME Base, [Next]_vars, poisoned \/ ~open, NEW a \in Address
      PROVE  cache'[a] \in {cache[a], NotLoaded}
  <2>1. ASSUME NEW c \in Writer, WriterNext(c)  PROVE cache' = cache
    <3>1. writer[c].pc # "stored"
      BY <1>2 DEF Base, PlanInv, PlanOK
    <3> QED
      BY <1>2, <2>1, <3>1
         DEF WriterNext, CallCommit, EnqueueCommit, Prepare, PrepareTooOld, GiveUp, MayRun, At,
             CommitAfterClose, StoreCommit, StoreFails, InstallDraft, AdoptDocument,
             TellListener, EndCommit
  <2>2. ASSUME NEW r \in Reader, ReaderNext(r)  PROVE cache' = cache
    BY <1>2, <2>2
       DEF ReaderNext, CallSnapshot, ReadCached, EnqueueSnapshot, ReadOnLine, SnapshotRefused,
           MayRun
  <2>3. ASSUME NEW w \in Watcher, WatcherNext(w)  PROVE cache' = cache
    BY <1>2, <2>3
       DEF WatcherNext, CallWatch, EnqueueWatch, LoadWatched, WatchRefused, SubscribeCommits,
           SubscribeClose, Start, Stop, Deliver, Panic, MayRun
  <2>4. Unload \/ CloseStorage => cache'[a] = NotLoaded
    BY DEF Unload, CloseStorage
  <2> QED
    BY <1>2, <2>1, <2>2, <2>3, <2>4, Alone DEF Next, vars
<1>3. ASSUME Base, [Next]_vars, poisoned \/ ~open, NEW x \in Watcher
      PROVE  Len(watch'[x].pending) <= Len(watch[x].pending)
  <2>1. /\ watch \in [Watcher -> WatchSet] /\ \A w \in Watcher : WatchOK(watch[w])
        /\ \A w \in Watcher : Len(watch[w].pending) \in Nat
        /\ closer \in [Closer -> CloserSet]
    BY <1>3 DEF Base, WatchShapes, WatchOK, WatchSet, ThreadShapes
  <2>2. ASSUME NEW w \in Watcher, NEW next, watch' = [watch EXCEPT ![w] = next],
               Len(next.pending) <= Len(watch[w].pending)
        PROVE  Len(watch'[x].pending) <= Len(watch[x].pending)
    BY <2>1, <2>2
  <2>3. CASE watch' = watch
    BY <2>1, <2>3
  <2>4. ASSUME NEW c \in Writer, WriterNext(c)  PROVE watch' = watch
    <3>1. writer[c].pc # "publishing"
      BY <1>3 DEF Base, PlanInv, PlanOK
    <3> QED
      BY <2>4, <3>1
         DEF WriterNext, CallCommit, EnqueueCommit, Prepare, PrepareTooOld, GiveUp, At,
             CommitAfterClose, StoreCommit, StoreFails, InstallDraft, AdoptDocument,
             TellListener, EndCommit
  <2>5. ASSUME NEW w \in Watcher, WatcherNext(w)
        PROVE  Len(watch'[x].pending) <= Len(watch[x].pending)
    <3>1. CASE SubscribeCommits(w)
      <4>0. PICK id, value : watch' = [watch EXCEPT ![w] = NewWatch(watcher[w].addr, id, value)]
        BY <3>1 DEF SubscribeCommits
      <4>1. PICK next : watch' = [watch EXCEPT ![w] = next] /\ Len(next.pending) = 0
        <5> DEFINE new == NewWatch(watcher[w].addr, id, value)
        <5>1. new.pending = <<>>
          BY DEF NewWatch, NoWatch
        <5> HIDE DEF new
        <5>2. Len(new.pending) = 0
          BY <5>1
        <5> QED
          BY <4>0, <5>2 DEF new
      <4> QED
        BY <2>1, <2>2, <4>1
    <3>2. CASE Start(w) \/ Stop(w) \/ Deliver(w) \/ Panic(w)
      <4>1. PICK next \in {StartWatch(watch[w]), Terminate(watch[w]),
                           BeginDrain(watch[w]), PopFrame(watch[w]), ListenerReturns(watch[w]),
                           ListenerPanics(watch[w]), EndDrain(watch[w])} : Becomes(w, next)
        BY <3>2 DEF Start, Stop, Deliver, Panic
      <4>2. Len(next.pending) <= Len(watch[w].pending)
        BY <2>1, <4>1, OwnSteps
      <4> QED
        BY <2>2, <4>1, <4>2 DEF Becomes
    <3> QED
      BY <2>3, <2>5, <3>1, <3>2
         DEF WatcherNext, CallWatch, EnqueueWatch, LoadWatched, WatchRefused, SubscribeClose
  <2>6. ASSUME NEW k \in Closer, CloserNext(k)
        PROVE  Len(watch'[x].pending) <= Len(watch[x].pending)
    <3>1. CASE TellClose(k)
      <4>1. PICK w \in closer[k].todo : Becomes(w, Terminate(watch[w]))
        BY <3>1 DEF TellClose
      <4>2. w \in Watcher
        BY <2>1, <4>1 DEF CloserSet
      <4>3. Len(Terminate(watch[w]).pending) <= Len(watch[w].pending)
        BY <2>1, <4>2, OwnSteps
      <4> QED
        BY <2>2, <4>1, <4>2, <4>3 DEF Becomes
    <3> QED
      BY <2>3, <2>6, <3>1 DEF CloserNext, CallClose, TakeListeners, AwaitClose, GiveUpClose
  <2> QED
    BY <1>3, <2>3, <2>4, <2>5, <2>6, Alone DEF Next, vars
<1>4. Base /\ [Next]_vars =>
        [poisoned \/ ~open =>
           /\ log' = log
           /\ \A a \in Address : cache'[a] \in {cache[a], NotLoaded}
           /\ \A w \in Watcher : Len(watch'[w].pending) <= Len(watch[w].pending)]_vars
  BY <1>1, <1>2, <1>3
<1> QED
  BY <1>4, BaseAlways, PTL DEF Spec, NothingAfterTheEnd
-----------------------------------------------------------------------------
(* Watches follow their documents.                                         *)

\* The watch x was told of all commits up to t and of no later one.
Follows(x, t) ==
  /\ ~Ended(x) /\ x.addr \in Address /\ x.id \in 1..t /\ x.seen \in Version
  /\ x.retired => LastValue(x) = Null
  /\ ExactFrames(x.value, x.pending)
  /\ LastValue(x) = IF log[t][x.addr].id = x.id
                    THEN Value(log[t][x.addr].content, x.seen)
                    ELSE Null

FollowInv ==
  /\ \A w \in listens : Follows(watch[w], ToldUpTo(w))
  /\ \A w \in Watcher : watcher[w].pc = "loaded" => cache[watcher[w].addr] # NotLoaded

\* One more frame, for what the watch shows last or for anything.
LEMMA QueueIsExact ==
  ASSUME NEW x \in WatchSet, Len(x.pending) <= MaxPending, ExactFrames(x.value, x.pending),
         NEW frame \in FrameSet, frame.from \in {AnyValue, LastValue(x)}
  PROVE  LET q == Queue(x, frame, MaxPending)
         IN  /\ ExactFrames(x.value, q) /\ q # <<>> /\ Last(q).value = frame.value
<1> DEFINE q == Queue(x, frame, MaxPending)
<1>1. /\ q \in Seq(FrameSet) /\ q # <<>> /\ Last(q).value = frame.value
      /\ q = Append(x.pending, frame) \/ q = <<Replacement(frame.value)>>
  BY Queued
<1>2. CASE q = <<Replacement(frame.value)>>
  <2>1. /\ DOMAIN <<Replacement(frame.value)>> = 1..1
        /\ <<Replacement(frame.value)>>[1] = Replacement(frame.value)
        /\ Replacement(frame.value).from = AnyValue
    BY ValuesAre DEF FrameSet
  <2> HIDE DEF q
  <2>2. ASSUME NEW i \in DOMAIN q  PROVE q[i].from = AnyValue
    BY <1>2, <2>1
  <2>3. ExactFrames(x.value, q)
    BY <2>2 DEF ExactFrames
  <2> QED
    BY <1>1, <2>3 DEF q
<1>3. CASE q = Append(x.pending, frame)
  <2>1. x.pending \in Seq(FrameSet)
    BY DEF WatchSet
  <2>2. PICK n \in Nat : n = Len(x.pending)
    BY <2>1
  <2> DEFINE p == Append(x.pending, frame)
  <2>3. /\ DOMAIN p = 1..(n + 1) /\ p[n + 1] = frame /\ \A i \in 1..n : p[i] = x.pending[i]
        /\ DOMAIN x.pending = 1..n
    <3>1. /\ p \in Seq(FrameSet) /\ Len(p) = n + 1 /\ p[n + 1] = frame
          /\ \A i \in 1..n : p[i] = x.pending[i]
      BY <2>1, <2>2, AppendProperties
    <3> QED
      BY <2>1, <2>2, <3>1
  <2>4. LastValue(x) = IF n + 1 = 1 THEN x.value ELSE p[n].value
    <3>1. CASE x.pending = <<>>
      <4>1. n = 0
        BY <2>2, <3>1
      <4> QED
        BY <3>1, <4>1 DEF LastValue
    <3>2. CASE x.pending # <<>>
      <4>1. n \in 1..n /\ n + 1 # 1
        BY <2>1, <2>2, <3>2, EmptySeq
      <4>2. LastValue(x) = x.pending[n].value
        BY <2>2, <3>2 DEF LastValue, Last
      <4> QED
        BY <2>3, <4>1, <4>2
    <3> QED
      BY <3>1, <3>2
  <2> HIDE DEF p
  <2>5. ASSUME NEW i \in 1..(n + 1)
        PROVE  p[i].from \in {AnyValue, IF i = 1 THEN x.value ELSE p[i - 1].value}
    <3>1. CASE i = n + 1
      <4>1. i - 1 = n
        BY <3>1
      <4> QED
        BY <2>3, <2>4, <3>1, <4>1
    <3>2. CASE i # n + 1
      <4>1. i \in 1..n /\ (i # 1 => i - 1 \in 1..n)
        BY <3>2
      <4>2. p[i] = x.pending[i] /\ (i # 1 => p[i - 1] = x.pending[i - 1])
        BY <2>3, <4>1
      <4>3. x.pending[i].from \in {AnyValue, IF i = 1 THEN x.value ELSE x.pending[i - 1].value}
        BY <2>3, <4>1 DEF ExactFrames
      <4> QED
        BY <4>2, <4>3
    <3> QED
      BY <3>1, <3>2
  <2>6. ExactFrames(x.value, p)
    BY <2>3, <2>5 DEF ExactFrames
  <2> QED
    BY <1>1, <1>3, <2>6 DEF p
<1> QED
  BY <1>1, <1>2, <1>3

\* The first frame has gone to the listener.
LEMMA PopIsExact ==
  ASSUME NEW x \in WatchSet, x.pending # <<>>, ExactFrames(x.value, x.pending)
  PROVE  /\ ExactFrames(Head(x.pending).value, Tail(x.pending))
         /\ LastValue(x) = IF Tail(x.pending) = <<>> THEN Head(x.pending).value
                           ELSE Last(Tail(x.pending)).value
<1>0. PICK s \in Seq(FrameSet) : s = x.pending
  BY DEF WatchSet
<1>1. PICK t \in Seq(FrameSet) : t = Tail(s)
  BY <1>0, HeadTailProperties
<1>2. PICK n \in Nat : Len(s) = n + 1
  <2>1. Len(s) \in Nat \ {0}
    BY <1>0, EmptySeq
  <2>2. Len(s) - 1 \in Nat /\ Len(s) = (Len(s) - 1) + 1
    BY <2>1
  <2> QED
    BY <2>2
<1>3. /\ Len(t) = n /\ Head(s) = s[1]
      /\ \A i \in 1..n : t[i] = s[i + 1]
  <2>1. s # <<>> /\ (n + 1) - 1 = n
    BY <1>0
  <2>2. Len(t) = Len(s) - 1 /\ Head(s) = s[1] /\ \A i \in 1..(Len(s) - 1) : t[i] = s[i + 1]
    BY <1>1, <2>1, HeadTailProperties
  <2>3. Len(s) - 1 = n
    BY <1>2
  <2> QED
    BY <2>2, <2>3
<1>4. DOMAIN s = 1..(n + 1) /\ DOMAIN t = 1..n /\ (t = <<>> <=> n = 0)
  <2>1. DOMAIN s = 1..(n + 1) /\ DOMAIN t = 1..n
    BY <1>2, <1>3
  <2>2. t = <<>> <=> n = 0
    BY <1>3, EmptySeq
  <2> QED
    BY <2>1, <2>2
<1>5. ASSUME NEW i \in 1..n
      PROVE  t[i].from \in {AnyValue, IF i = 1 THEN s[1].value ELSE t[i - 1].value}
  <2>1. i + 1 \in 1..(n + 1) /\ i + 1 # 1 /\ (i + 1) - 1 = i
    OBVIOUS
  <2>2. s[i + 1].from \in {AnyValue, s[i].value}
    BY <1>0, <1>4, <2>1 DEF ExactFrames
  <2>3. CASE i = 1
    BY <1>3, <2>2, <2>3
  <2>4. CASE i # 1
    <3>1. i - 1 \in 1..n /\ (i - 1) + 1 = i
      BY <2>4
    <3> QED
      BY <1>3, <2>2, <2>4, <3>1
  <2> QED
    BY <2>3, <2>4
<1>6. LastValue(x) = s[n + 1].value
  BY <1>0, <1>2 DEF LastValue, Last
<1>7. CASE n = 0
  BY <1>0, <1>1, <1>3, <1>4, <1>5, <1>6, <1>7 DEF ExactFrames
<1>8. CASE n # 0
  <2>1. n \in 1..n
    BY <1>8
  <2>2. Last(t).value = s[n + 1].value
    BY <1>3, <2>1 DEF Last
  <2> QED
    BY <1>0, <1>1, <1>3, <1>4, <1>5, <1>6, <1>8, <2>2 DEF ExactFrames
<1> QED
  BY <1>7, <1>8

LEMMA AdvanceFollows ==
  ASSUME NEW x, WatchOK(x), ~Ended(x), ~x.retired, ExactFrames(x.value, x.pending),
         NEW frame \in FrameSet, frame.from \in {AnyValue, LastValue(x)}
  PROVE  LET y == Advance(x, frame, MaxPending)
         IN  /\ ~Ended(y) /\ y.addr = x.addr /\ y.id = x.id /\ y.seen = x.seen
             /\ y.retired => LastValue(y) = Null
             /\ ExactFrames(y.value, y.pending) /\ LastValue(y) = frame.value
<1> DEFINE y == Advance(x, frame, MaxPending)
           q == Queue(x, frame, MaxPending)
<1>1. x \in WatchSet /\ Len(x.pending) <= MaxPending
  BY DEF WatchOK
<1>2. /\ y.addr = x.addr /\ y.id = x.id /\ y.value = x.value /\ y.seen = x.seen
      /\ y.ended = x.ended /\ y.retired = (frame.value = Null) /\ y.pending = q
  BY <1>1, AdvancedIs
<1>3. ExactFrames(x.value, q) /\ q # <<>> /\ Last(q).value = frame.value
  BY <1>1, QueueIsExact
<1> HIDE DEF q
<1>4. ~Ended(y) /\ ExactFrames(y.value, y.pending) /\ LastValue(y) = frame.value
  BY <1>2, <1>3 DEF Ended, LastValue
<1> QED
  BY <1>2, <1>4

LEMMA ToldFollows ==
  ASSUME Base, NEW c \in Writer, writer[c].pc = "publishing",
         NEW x, WatchOK(x), Follows(x, Len(log) - 1)
  PROVE  Follows(Told(x, c), Len(log))
<1>1. PICK n \in Nat \ {0} : Len(log) = n + 1 /\ Len(log) - 1 = n
  <2>1. Len(log) >= 2 /\ Len(log) \in Nat
    <3>1. Len(log) >= 2
      BY DEF Base, PlanInv, PlanOK
    <3>2. Len(log) \in 1..MaxCommits /\ MaxCommits \in Nat
      BY SessionAssumption DEF Base, DocShapes
    <3> QED
      BY <3>1, <3>2
  <2>2. PICK k \in Nat : k = Len(log) /\ k >= 2
    BY <2>1
  <2>3. k - 1 \in Nat \ {0} /\ k = (k - 1) + 1
    BY <2>2
  <2> QED
    BY <2>2, <2>3
<1>2. PICK a \in Address : a = x.addr
  BY DEF Follows
<1>3. PICK v \in Version : v = writer[c].ver
  BY DEF Base, PlanInv, PlanOK
<1>4. PICK old \in DocSet : old = log[n][a] /\ old = Before(a)
  <2>1. n \in 1..Len(log)
    BY <1>1
  <2> QED
    BY <1>1, <2>1, StoredIs DEF Before
<1>5. PICK new \in DocSet : new = log[n + 1][a] /\ new = Stored[a]
  BY <1>1, StoredIs DEF Stored
<1>6. IF a \in DOMAIN writer[c].ops
      THEN new # NoDoc => new.id \in {old.id, n + 1}
      ELSE new = old
  BY <1>1, <1>4, <1>5 DEF Base, PlanInv, PlanOK, Stepped
<1>7. /\ ~Ended(x) /\ x.id \in 1..n /\ x.id \in 1..(n + 1) /\ x.id # 0 /\ x.id # n + 1
      /\ x.seen \in Version /\ (x.retired => LastValue(x) = Null)
      /\ ExactFrames(x.value, x.pending)
      /\ LastValue(x) = IF old.id = x.id THEN Value(old.content, x.seen) ELSE Null
  <2>1. /\ ~Ended(x) /\ x.id \in 1..n /\ x.seen \in Version /\ (x.retired => LastValue(x) = Null)
        /\ ExactFrames(x.value, x.pending)
        /\ LastValue(x) = IF old.id = x.id THEN Value(old.content, x.seen) ELSE Null
    BY <1>1, <1>2, <1>4 DEF Follows
  <2>2. \A i \in 1..n : i \in 1..(n + 1) /\ i # 0 /\ i # n + 1
    OBVIOUS
  <2> QED
    BY <2>1, <2>2
<1>8. /\ old.content \in Int /\ new.content \in Int
      /\ \A u \in Version : u \in Nat /\ u # 0
  <2>1. old.content \in 0..MaxCommits /\ new.content \in 0..MaxCommits
    BY DEF DocSet
  <2>2. 0..MaxCommits \subseteq Int /\ \A u \in Version : u \in Nat /\ u # 0
    BY SessionAssumption
  <2> QED
    BY <2>1, <2>2
<1>9. \A content \in Int, u \in Version : Value(content, u) # Null
  <2>1. Null.shape = 0
    BY DEF Null, Value
  <2>2. ASSUME NEW content \in Int, NEW u \in Version  PROVE Value(content, u).shape # 0
    <3>1. u \in Nat /\ u # 0
      BY <1>8
    <3> QED
      BY <3>1, ValuesAre
  <2> QED
    BY <2>1, <2>2
\* What is left to show of the watch y that comes of it.
<1>10. ASSUME NEW y, ~Ended(y), y.addr = a, y.id = x.id, y.seen \in Version,
              y.retired => LastValue(y) = Null, ExactFrames(y.value, y.pending),
              LastValue(y) = IF new.id = x.id THEN Value(new.content, y.seen) ELSE Null
       PROVE  Follows(y, Len(log))
  BY <1>1, <1>5, <1>7, <1>10 DEF Follows
<1>11. CASE old.id # x.id
  <2>1. Told(x, c) = x
    BY <1>2, <1>4, <1>11 DEF Told
  <2>2. new.id # x.id
    BY <1>6, <1>7, <1>11, NoDocIs
  <2> QED
    BY <1>2, <1>7, <1>10, <1>11, <2>1, <2>2
<1>12. CASE old.id = x.id /\ a \notin DOMAIN writer[c].ops
  <2>1. Told(x, c) = x /\ new = old
    BY <1>2, <1>6, <1>12 DEF Told
  <2> QED
    BY <1>2, <1>7, <1>10, <1>12, <2>1
<1>13. CASE old.id = x.id /\ a \in DOMAIN writer[c].ops
  <2>1. ~x.retired /\ LastValue(x) = Value(old.content, x.seen)
    BY <1>7, <1>8, <1>9, <1>13
  <2>2. CASE new.id # x.id
    <3>1. Told(x, c) = Advance(x, Replacement(Null), MaxPending)
      BY <1>2, <1>4, <1>5, <1>7, <1>13, <2>2 DEF Told
    <3>2. /\ Replacement(Null) \in FrameSet /\ Replacement(Null).from = AnyValue
          /\ Replacement(Null).value = Null
      BY ValuesAre
    <3> QED
      BY <1>2, <1>7, <1>10, <2>1, <2>2, <3>1, <3>2, AdvanceFollows
  <2>3. CASE new.id = x.id
    <3>1. Told(x, c) = Observed(x, a, v)
      BY <1>2, <1>3, <1>4, <1>5, <1>7, <1>13, <2>3 DEF Told
    <3> DEFINE fresh == Value(new.content, v)
    <3>2. /\ fresh \in ValueSet
          /\ Replacement(fresh) \in FrameSet /\ Replacement(fresh).from = AnyValue
          /\ Replacement(fresh).value = fresh
          /\ Frame(Value(old.content, v), fresh) \in FrameSet
          /\ Frame(Value(old.content, v), fresh).from = Value(old.content, v)
          /\ Frame(Value(old.content, v), fresh).value = fresh
      BY <1>8, ValuesAre
    <3>3. CASE x.seen # v
      <4> DEFINE s == [x EXCEPT !.seen = v]
      <4>1. Told(x, c) = Advance(s, Replacement(fresh), MaxPending)
        BY <1>5, <3>1, <3>3 DEF Observed
      <4>2. /\ s \in WatchSet /\ s.pending = x.pending /\ s.value = x.value /\ s.ended = x.ended
            /\ s.addr = x.addr /\ s.id = x.id /\ s.seen = v /\ s.retired = x.retired
        BY <1>8 DEF WatchOK, WatchSet
      <4> HIDE DEF s
      <4>3. WatchOK(s) /\ ~Ended(s) /\ ~s.retired /\ ExactFrames(s.value, s.pending)
        BY <1>7, <2>1, <4>2 DEF WatchOK, Ended
      <4> HIDE DEF fresh
      <4> QED
        BY <1>2, <1>10, <2>3, <3>2, <4>1, <4>2, <4>3, AdvanceFollows DEF fresh
    <3>4. CASE x.seen = v /\ new.content = old.content
      <4>1. Told(x, c) = x
        BY <1>4, <1>5, <3>1, <3>4 DEF Observed
      <4> QED
        BY <1>2, <1>7, <1>10, <2>1, <2>3, <3>4, <4>1
    <3>5. CASE x.seen = v /\ new.content # old.content
      <4>1. Told(x, c) = Advance(x, Frame(Value(old.content, v), fresh), MaxPending)
        BY <1>4, <1>5, <3>1, <3>5 DEF Observed
      <4> QED
        BY <1>2, <1>7, <1>10, <2>1, <2>3, <3>2, <3>5, <4>1, AdvanceFollows
    <3> QED
      BY <3>3, <3>4, <3>5
  <2> QED
    BY <2>2, <2>3
<1> QED
  BY <1>11, <1>12, <1>13

\* A watch that has read its document keeps it in memory while it has the line.
LEMMA LoadedKept ==
  ASSUME Base, FollowInv, [Next]_vars, NEW w \in Watcher, watcher'[w].pc = "loaded"
  PROVE  cache'[watcher'[w].addr] # NotLoaded
<1> USE DEF docs, health, hearers, session
<1>0. watcher \in [Watcher -> WatcherSet] /\ w \in Job
  BY DEF Base, ThreadShapes, Job
<1>1. CASE LoadWatched(w)
  <2>1. NotWatching.pc # "loaded"
    BY DEF NotWatching
  <2>2. /\ watcher' = [watcher EXCEPT ![w] = [watcher[w] EXCEPT !.pc = "loaded"]]
        /\ cache'[watcher[w].addr] # NotLoaded
    BY <1>0, <1>1, <2>1 DEF LoadWatched, WatcherStep
  <2> QED
    BY <1>0, <2>2 DEF WatcherSet
<1>2. CASE watcher'[w] = watcher[w]
  <2>1. watcher[w].pc = "loaded" /\ Holds(w) /\ cache[watcher[w].addr] # NotLoaded
    BY <1>0, <1>2 DEF Base, LineInv, Works, FollowInv
  <2>2. \A j : Holds(j) => j = w
    BY <2>1 DEF Holds
  <2>3. ASSUME NEW c \in Writer, WriterNext(c)  PROVE cache' = cache
    <3>1. c # w /\ c \in Job
      BY SessionAssumption DEF Job
    <3>2. ~Holds(c) /\ writer[c].pc # "stored"
      BY <2>2, <3>1 DEF Base, LineInv, Works
    <3> QED
      BY <2>3, <3>2
         DEF WriterNext, CallCommit, EnqueueCommit, Prepare, PrepareTooOld, GiveUp, At,
             CommitAfterClose, StoreCommit, StoreFails, InstallDraft, AdoptDocument,
             TellListener, EndCommit
  <2>4. ASSUME NEW r \in Reader, ReaderNext(r)  PROVE cache' = cache
    <3>1. ~Holds(r)
      BY <2>2, SessionAssumption
    <3> QED
      BY <2>4, <3>1
         DEF ReaderNext, CallSnapshot, ReadCached, EnqueueSnapshot, ReadOnLine, SnapshotRefused
  <2>5. ASSUME NEW x \in Watcher, WatcherNext(x)  PROVE cache' = cache
    <3>1. ~LoadWatched(x)
      BY <2>1, <2>2 DEF LoadWatched, WatcherAt
    <3> QED
      BY <2>5, <3>1
         DEF WatcherNext, CallWatch, EnqueueWatch, WatchRefused, SubscribeCommits,
             SubscribeClose, Start, Stop, Deliver, Panic
  <2>6. ~Unload /\ ~CloseStorage
    BY <2>1, <2>2, SessionAssumption DEF Unload, BetweenJobs, CloseStorage, Holds
  <2> QED
    BY <1>2, <2>1, <2>3, <2>4, <2>5, <2>6, Alone DEF Next, vars
<1>3. ASSUME NEW x \in Watcher, WatcherNext(x), ~LoadWatched(w)
      PROVE  watcher'[w] = watcher[w]
  <2>1. CASE x = w
    <3>1. \/ watcher' = watcher
          \/ \E next : WatcherStep(w, next) /\ next.pc # "loaded"
      <4>1. CASE CallWatch(w)
        BY <4>1 DEF CallWatch
      <4>2. CASE EnqueueWatch(w) \/ SubscribeCommits(w)
        <5>1. /\ [watcher[w] EXCEPT !.pc = "queued"].pc = "queued"
              /\ [watcher[w] EXCEPT !.pc = "attaching"].pc = "attaching"
          BY <1>0 DEF WatcherSet
        <5> QED
          BY <4>2, <5>1 DEF EnqueueWatch, SubscribeCommits
      <4>3. CASE WatchRefused(w) \/ SubscribeClose(w)
        BY <4>3 DEF WatchRefused, SubscribeClose, NotWatching
      <4>4. CASE Start(w) \/ Stop(w) \/ Deliver(w) \/ Panic(w)
        BY <4>4 DEF Start, Stop, Deliver, Panic
      <4> QED
        BY <1>3, <2>1, <4>1, <4>2, <4>3, <4>4 DEF WatcherNext
    <3> QED
      BY <1>0, <3>1 DEF WatcherStep
  <2>2. CASE x # w
    <3>1. PICK next : watcher' = watcher \/ WatcherStep(x, next)
      BY <1>3, WatcherSteps
    <3> QED
      BY <1>0, <2>2, <3>1 DEF WatcherStep
  <2> QED
    BY <2>1, <2>2
<1> QED
  BY <1>1, <1>2, <1>3, Alone DEF Next, vars

\* The commit up to which a watch was told, by what the writer at work does.
ToldParts ==
  \A w \in Watcher :
    /\ ~Unpublished => ToldUpTo(w) = published
    /\ \A c \in Writer :
         /\ writer[c].pc = "stored" => ToldUpTo(w) = Len(log) - 1
         /\ writer[c].pc = "publishing" =>
              ToldUpTo(w) = IF w \in writer[c].todo THEN Len(log) - 1 ELSE Len(log)

LEMMA ToldPartsHold == Base => ToldParts
<1> SUFFICES ASSUME Base, NEW w \in Watcher
             PROVE  /\ ~Unpublished => ToldUpTo(w) = published
                    /\ \A c \in Writer :
                         /\ writer[c].pc = "stored" => ToldUpTo(w) = Len(log) - 1
                         /\ writer[c].pc = "publishing" =>
                              ToldUpTo(w) = IF w \in writer[c].todo THEN Len(log) - 1 ELSE Len(log)
  BY DEF ToldParts
<1>1. ~Unpublished => ToldUpTo(w) = published
  BY DEF Unpublished, ToldUpTo, At
<1>2. ASSUME NEW c \in Writer, writer[c].pc = "stored"  PROVE ToldUpTo(w) = Len(log) - 1
  BY <1>2 DEF ToldUpTo, At
<1>3. ASSUME NEW c \in Writer, writer[c].pc = "publishing"
      PROVE  ToldUpTo(w) = IF w \in writer[c].todo THEN Len(log) - 1 ELSE Len(log)
  <2>1. \A d \in Writer : writer[d].pc \in {"stored", "publishing"} => d = c
    BY <1>3, OneWriter
  <2>2. (\E d \in Writer : At(d, "stored") \/ (At(d, "publishing") /\ w \in writer[d].todo))
          <=> w \in writer[c].todo
    BY <1>3, <2>1 DEF At
  <2>3. \E d \in Writer : At(d, "publishing")
    BY <1>3 DEF At
  <2> QED
    BY <2>2, <2>3 DEF ToldUpTo
<1> QED
  BY <1>1, <1>2, <1>3

\* What a watch follows does not depend on the rest of the log.
LEMMA FollowsStill ==
  ASSUME NEW x, NEW t, Follows(x, t), log'[t] = log[t]  PROVE Follows(x, t)'
BY DEF Follows

\* A step of a watch's own leaves what it follows, unless it ends.
LEMMA OwnStepFollows ==
  ASSUME NEW w, WatchOK(w), NEW t, Follows(w, t),
         NEW next \in {StartWatch(w), Terminate(w), BeginDrain(w), PopFrame(w),
                       ListenerReturns(w), ListenerPanics(w),
                       EndDrain(w)},
         ~Ended(next)
  PROVE  Follows(next, t)
<1>1. /\ next.addr = w.addr /\ next.id = w.id /\ next.seen = w.seen
      /\ next.retired = w.retired /\ next.ended = w.ended
      /\ \/ next.value = w.value /\ next.pending = w.pending
         \/ /\ w.pending # <<>> /\ next.value = Head(w.pending).value
            /\ next.pending = Tail(w.pending)
  BY OwnSteps
<1>2. LastValue(next) = LastValue(w) /\ ExactFrames(next.value, next.pending)
  <2>1. CASE next.value = w.value /\ next.pending = w.pending
    BY <2>1 DEF Follows, LastValue
  <2>2. CASE w.pending # <<>> /\ next.value = Head(w.pending).value /\ next.pending = Tail(w.pending)
    BY <2>2, PopIsExact DEF WatchOK, Follows, LastValue
  <2> QED
    BY <1>1, <2>1, <2>2
<1> QED
  BY <1>1, <1>2 DEF Follows, Ended

\* The watch that subscribes shows the document as the last commit left it.
LEMMA NewWatchFollows ==
  ASSUME Base, MemoryInv, FollowInv, NEW w \in Watcher, Holds(w), watcher[w].pc = "loaded", Usable,
         NEW a, a = watcher[w].addr
  PROVE  Follows(NewWatch(a, cache[a].id, Value(cache[a].content, cache[a].ver)), published)
<1> DEFINE x == NewWatch(a, cache[a].id, Value(cache[a].content, cache[a].ver))
<1>1. ~Unpublished /\ ~Adopting(a) /\ ~poisoned /\ published = Len(log)
  <2>1. \A c \in Writer : c \in Job \ {w}
    BY SessionAssumption DEF Job
  <2>2. \A c \in Writer : ~(writer[c].pc \in {"prepared", "stored", "publishing"})
    BY <2>1, OthersRest DEF Base, Works, Job
  <2> QED
    BY <2>2 DEF Unpublished, Adopting, Usable, Base, PlanInv
<1>2. a \in Address /\ cache[a] # NotLoaded
  BY DEF Base, NamesInv, FollowInv
<1>3. PICK n \in Nat : n = Len(log)
  BY <1>2, StoredIs
<1>4. PICK doc \in DocSet : doc = log[n][a] /\ doc = Stored[a] /\ DocOK(doc, n)
  BY <1>2, <1>3, StoredIs DEF Stored
<1>5. CacheIs(a, n)
  BY <1>1, <1>2, <1>3, RetiredAdopts DEF MemoryInv
<1>6. PICK v \in Version : cache[a] = Loaded(doc, v) /\ v = cache[a].ver /\ doc # NoDoc
  BY <1>4, <1>5 DEF CacheIs
<1>7. cache[a].id = doc.id /\ cache[a].content = doc.content
  BY <1>6, LoadedIs
<1>8. doc.id \in 1..n
  BY <1>4, <1>6 DEF DocOK
<1>9. /\ x.addr = a /\ x.id = doc.id /\ x.value = Value(doc.content, v) /\ x.seen = v
      /\ x.retired = FALSE /\ x.pending = <<>> /\ x.ended = FALSE
  <2>1. Value(doc.content, v).shape = v
    BY DEF Value
  <2> QED
    BY <1>6, <1>7, <2>1 DEF NewWatch, NoWatch
<1> HIDE DEF x
<1>10. LastValue(x) = Value(doc.content, v) /\ ExactFrames(x.value, x.pending) /\ ~Ended(x)
  BY <1>9 DEF LastValue, ExactFrames, Ended
<1>11. Follows(x, n)
  BY <1>2, <1>4, <1>8, <1>9, <1>10 DEF Follows
<1> QED
  BY <1>1, <1>3, <1>11 DEF x

LEMMA FollowKept == Base /\ MemoryInv /\ FollowInv /\ [Next]_vars => FollowInv'
<1> SUFFICES ASSUME Base, MemoryInv, FollowInv, [Next]_vars, NEW w \in listens'
             PROVE  Follows(watch[w], ToldUpTo(w))'
  BY LoadedKept, ThreadShapesKept DEF FollowInv, ThreadShapes
<1> USE DEF docs, health, hearers, session
<1>0. /\ w \in Watcher /\ listens \subseteq Watcher /\ ThreadShapes
      /\ watch \in [Watcher -> WatchSet] /\ \A x \in Watcher : WatchOK(watch[x])
      /\ ToldParts /\ ToldParts'
  <2>1. w \in Watcher
    BY ThreadShapesKept DEF ThreadShapes
  <2>2. ToldParts'
    <3>1. Base'
      BY BaseKept
    <3> QED
      BY <3>1, ToldPartsHold, PTL
  <2> QED
    BY <2>1, <2>2, ToldPartsHold DEF Base, ThreadShapes, WatchShapes, WatchOK
<1>1. /\ w \in listens => Follows(watch[w], ToldUpTo(w))
      /\ Len(log) \in Nat /\ Len(log) >= 1 /\ published \in 1..Len(log)
  BY SessionAssumption DEF FollowInv, Base, DocShapes, PlanInv
\* The watch and the commits it was told of stay the same.
<1>2. ASSUME w \in listens, watch'[w] = watch[w], ToldUpTo(w)' = ToldUpTo(w),
             log'[ToldUpTo(w)] = log[ToldUpTo(w)]
      PROVE  Follows(watch[w], ToldUpTo(w))'
  BY <1>1, <1>2 DEF Follows
<1>3. ASSUME UNCHANGED <<log, published, writer>>
      PROVE  ToldUpTo(w)' = ToldUpTo(w) /\ log'[ToldUpTo(w)] = log[ToldUpTo(w)]
  BY <1>3 DEF ToldUpTo, At
<1>4. ASSUME NEW x \in Watcher, UNCHANGED <<log, published, writer>>,
             NEW next \in {StartWatch(watch[x]), Terminate(watch[x]), BeginDrain(watch[x]),
                           PopFrame(watch[x]), ListenerReturns(watch[x]),
                           ListenerPanics(watch[x]), EndDrain(watch[x])},
             Becomes(x, next)
      PROVE  Follows(watch[w], ToldUpTo(w))'
  <2>1. /\ w \in listens /\ (w = x => ~Ended(next))
        /\ watch'[x] = next /\ \A y \in Watcher \ {x} : watch'[y] = watch[y]
    BY <1>0, <1>4 DEF Becomes
  <2>2. CASE w = x
    <3>1. Follows(next, ToldUpTo(w))
      BY <1>0, <1>1, <1>4, <2>1, <2>2, OwnStepFollows
    <3>2. Follows(watch'[w], ToldUpTo(w))
      BY <2>1, <2>2, <3>1
    <3> QED
      BY <1>3, <1>4, <3>2 DEF Follows
  <2>3. CASE w # x
    BY <1>0, <1>2, <1>3, <1>4, <2>1, <2>3
  <2> QED
    BY <2>2, <2>3
<1>5. ASSUME UNCHANGED <<log, published, writer, watch>>, listens' \subseteq listens
      PROVE  Follows(watch[w], ToldUpTo(w))'
  BY <1>2, <1>3, <1>5
<1>6. ASSUME NEW x \in Watcher, WatcherNext(x)
      PROVE  Follows(watch[w], ToldUpTo(w))'
  <2>0. UNCHANGED <<log, published, writer>>
    BY <1>6, Alone
  <2>1. CASE SubscribeCommits(x)
    <3> DEFINE a    == watcher[x].addr
               next == NewWatch(a, cache[a].id, Value(cache[a].content, cache[a].ver))
    <3>1. /\ Holds(x) /\ watcher[x].pc = "loaded" /\ Usable /\ listens' = listens \cup {x}
          /\ watch' = [watch EXCEPT ![x] = next]
      BY <2>1 DEF SubscribeCommits, WatcherAt
    <3>2. Follows(next, published)
      BY <3>1, NewWatchFollows
    <3>3. watch'[x] = next /\ \A y \in Watcher \ {x} : watch'[y] = watch[y]
      BY <1>0, <3>1
    <3>4. ~Unpublished'
      <4>1. \A c \in Writer : c \in Job \ {x}
        BY SessionAssumption DEF Job
      <4> QED
        BY <2>0, <3>1, <4>1, OthersRest DEF Base, Works, Job, Unpublished
    <3>5. ToldUpTo(w)' = published
      BY <1>0, <2>0, <3>4 DEF ToldParts
    <3>6. CASE w = x
      <4>1. Follows(watch'[w], published)
        BY <3>2, <3>3, <3>6
      <4> QED
        BY <2>0, <3>5, <4>1 DEF Follows
    <3>7. CASE w # x
      BY <1>0, <1>2, <1>3, <2>0, <3>1, <3>3, <3>7
    <3> QED
      BY <3>6, <3>7
  <2>2. CASE Start(x) \/ Stop(x) \/ Deliver(x) \/ Panic(x)
    BY <1>4, <1>6, <2>0, <2>2 DEF Start, Stop, Deliver, Panic
  <2>3. CASE UNCHANGED watch /\ listens' = listens
    BY <1>5, <2>0, <2>3
  <2> QED
    BY <1>6, <2>1, <2>2, <2>3
       DEF WatcherNext, CallWatch, EnqueueWatch, LoadWatched, WatchRefused, SubscribeClose
<1>7. ASSUME NEW k \in Closer, CloserNext(k)
      PROVE  Follows(watch[w], ToldUpTo(w))'
  <2>0. UNCHANGED <<log, published, writer>>
    BY <1>7, Alone
  <2>1. CASE TellClose(k)
    <3>1. PICK x \in closer[k].todo : Becomes(x, Terminate(watch[x]))
      BY <2>1 DEF TellClose
    <3>2. x \in Watcher
      BY <1>0, <3>1 DEF ThreadShapes, CloserSet
    <3> QED
      BY <1>4, <2>0, <3>1, <3>2
  <2>2. CASE UNCHANGED watch /\ listens' = listens
    BY <1>5, <2>0, <2>2
  <2> QED
    BY <1>7, <2>1, <2>2 DEF CloserNext, CallClose, TakeListeners, AwaitClose, GiveUpClose
<1>8. ASSUME NEW c \in Writer, WriterNext(c)
      PROVE  Follows(watch[w], ToldUpTo(w))'
  <2>0. listens' = listens /\ w \in listens /\ PlanInv
    BY <1>8, Alone DEF Base
  <2>1. CASE CallCommit(c) \/ EnqueueCommit(c)
    <3>1. PICK next \in WriterSet : Step(c, next) /\ next.pc \in {"admitted", "queued"}
      BY <1>0, <2>1 DEF CallCommit, EnqueueCommit, Goto, ThreadShapes, WriterSet
    <3>2. writer'[c] = next /\ \A d \in Writer \ {c} : writer'[d] = writer[d]
      BY <1>0, <3>1, WriterShaped
    <3>3. writer[c].pc \in {"idle", "admitted"} /\ UNCHANGED <<log, published, watch>>
      BY <2>1 DEF CallCommit, EnqueueCommit, At
    <3>4. \A d \in Writer : /\ At(d, "stored")' <=> At(d, "stored")
                            /\ At(d, "publishing")' <=> At(d, "publishing")
                            /\ At(d, "publishing") => writer'[d] = writer[d]
      BY <3>1, <3>2, <3>3 DEF At
    <3>5. ToldUpTo(w)' = ToldUpTo(w)
      BY <3>3, <3>4 DEF ToldUpTo
    <3> QED
      BY <1>2, <2>0, <3>3, <3>5
  <2>2. CASE ~(CallCommit(c) \/ EnqueueCommit(c) \/ StoreCommit(c) \/ InstallDraft(c)
               \/ AdoptDocument(c) \/ TellListener(c) \/ EndCommit(c))
    <3>1. /\ published' = published /\ watch' = watch /\ Holds(c)
          /\ ~(writer[c].pc \in {"stored", "publishing"})
      BY <1>8, <2>2
         DEF WriterNext, Prepare, PrepareTooOld, GiveUp, CommitAfterClose, StoreFails, At
    <3>2. PICK next \in WriterSet : Step(c, next) /\ (Prepare(c) \/ next = Idle)
      BY <1>8, <2>2, WriterSteps
    <3>3. writer'[c] = next /\ \A d \in Writer \ {c} : writer'[d] = writer[d]
      BY <1>0, <3>2, WriterShaped
    <3>4. ~(writer'[c].pc \in {"stored", "publishing"})
      <4>1. Prepare(c) => writer'[c].pc = "prepared"
        BY <1>0 DEF Prepare, Step, ThreadShapes
      <4> QED
        BY <3>2, <3>3, <4>1 DEF Idle
    <3>5. ~Unpublished /\ ~Unpublished'
      <4>1. \A d \in Writer \ {c} : ~(writer[d].pc \in {"stored", "publishing"})
        BY <3>1, OthersRest DEF Base, Works, Job
      <4> QED
        BY <3>1, <3>3, <3>4, <4>1 DEF Unpublished
    <3>6. ToldUpTo(w) = published /\ ToldUpTo(w)' = published
      BY <1>0, <3>1, <3>5 DEF ToldParts
    <3>7. log'[published] = log[published]
      BY <1>1, CommittedIs, LogSteps
    <3> QED
      BY <1>2, <2>0, <3>1, <3>6, <3>7
  <2>3. CASE StoreCommit(c)
    <3>1. /\ writer[c].pc = "prepared" /\ log' = Append(log, Committed(c))
          /\ UNCHANGED <<published, watch>> /\ published = Len(log)
      BY <2>0, <2>3, OneWriter DEF StoreCommit, At, PlanInv, PlanOK, Unpublished
    <3>2. ~Unpublished
      BY <3>1, OneWriter DEF Unpublished
    <3>3. writer'[c].pc = "stored"
      BY <1>0, <2>3 DEF StoreCommit, Goto, Step, ThreadShapes, WriterSet
    <3>4. Len(log') = Len(log) + 1 /\ log'[Len(log)] = log[Len(log)]
      BY <1>1, <3>1, CommittedIs
    <3>5. Len(log') - 1 = Len(log)
      BY <1>1, <3>4
    <3>6. ToldUpTo(w) = Len(log) /\ ToldUpTo(w)' = Len(log)
      BY <1>0, <3>1, <3>2, <3>3, <3>5 DEF ToldParts
    <3> QED
      BY <1>2, <2>0, <3>1, <3>4, <3>6
  <2>4. CASE AdoptDocument(c)
    <3>1. writer[c].pc = "stored" /\ UNCHANGED <<log, watch>>
      BY <2>4 DEF AdoptDocument, At
    <3>2. \/ writer'[c].pc = "publishing" /\ writer'[c].todo = listens
          \/ writer'[c].pc = "stored"
      <4>1. \/ writer'[c] = [writer[c] EXCEPT !.pc = "publishing", !.todo = listens]
            \/ \E a : writer'[c] = [writer[c] EXCEPT !.todo = writer[c].todo \ {a}]
        BY <1>0, <2>4 DEF AdoptDocument, Step, ThreadShapes, WriterSet
      <4>2. writer[c] \in WriterSet
        BY <1>0 DEF ThreadShapes
      <4> QED
        BY <3>1, <4>1, <4>2 DEF WriterSet
    <3>3. ToldUpTo(w) = Len(log) - 1 /\ ToldUpTo(w)' = Len(log) - 1
      BY <1>0, <2>0, <3>1, <3>2 DEF ToldParts
    <3> QED
      BY <1>2, <2>0, <3>1, <3>3
  <2>5. CASE TellListener(c)
    <3>1. PICK x \in writer[c].todo :
             /\ watch' = [watch EXCEPT ![x] = Told(watch[x], c)]
             /\ Step(c, [writer[c] EXCEPT !.todo = writer[c].todo \ {x}])
      BY <1>0, <2>5 DEF TellListener, ThreadShapes, WriterSet
    <3>2. writer[c].pc = "publishing" /\ UNCHANGED <<log, published>> /\ x \in Watcher
      BY <2>0, <2>5 DEF TellListener, At, PlanInv, PlanOK
    <3>3. writer'[c].pc = "publishing" /\ writer'[c].todo = writer[c].todo \ {x}
      BY <1>0, <3>1, <3>2 DEF Step, ThreadShapes, WriterSet
    <3>4. CASE w = x
      <4>1. ToldUpTo(w) = Len(log) - 1 /\ ToldUpTo(w)' = Len(log)
        BY <1>0, <3>1, <3>2, <3>3, <3>4 DEF ToldParts
      <4>2. Follows(Told(watch[w], c), Len(log))
        BY <1>0, <1>1, <2>0, <3>2, <4>1, ToldFollows
      <4>3. Follows(watch'[w], Len(log))
        BY <1>0, <3>1, <3>4, <4>2
      <4> QED
        BY <3>2, <4>1, <4>3 DEF Follows
    <3>5. CASE w # x
      <4>1. ToldUpTo(w)' = ToldUpTo(w)
        BY <1>0, <3>2, <3>3, <3>5 DEF ToldParts
      <4> QED
        BY <1>0, <1>2, <2>0, <3>1, <3>2, <3>5, <4>1
    <3> QED
      BY <3>4, <3>5
  <2>6. CASE EndCommit(c)
    <3>1. /\ writer[c].pc = "publishing" /\ writer[c].todo = {} /\ published' = Len(log)
          /\ UNCHANGED <<log, watch>> /\ Step(c, Idle)
      BY <2>6 DEF EndCommit, At
    <3>2. ~Unpublished'
      <4>1. \A d \in Writer : writer'[d] = (IF d = c THEN Idle ELSE writer[d])
        BY <1>0, <3>1 DEF Step, ThreadShapes
      <4> QED
        BY <3>1, <4>1, OneWriter DEF Unpublished, Idle
    <3>3. ToldUpTo(w) = Len(log) /\ ToldUpTo(w)' = Len(log)
      BY <1>0, <3>1, <3>2 DEF ToldParts
    <3> QED
      BY <1>2, <2>0, <3>1, <3>3
  <2>7. CASE InstallDraft(c)
    <3>1. UNCHANGED <<log, published, writer, watch>>
      BY <2>7 DEF InstallDraft, hearers
    <3>2. ToldUpTo(w)' = ToldUpTo(w)
      BY <3>1 DEF ToldUpTo, At
    <3> QED
      BY <1>2, <2>0, <3>1, <3>2
  <2> QED
    BY <2>1, <2>2, <2>3, <2>4, <2>5, <2>6, <2>7
<1>9. CASE CloseStorage
  BY <1>9 DEF CloseStorage
<1> QED
  BY <1>5, <1>6, <1>7, <1>8, <1>9, Alone DEF Next, vars

\* A watch misses no commit, hears of none twice or out of order, and shows
\* the document in the shape of the version it was told of last (attach_watch,
\* observed_operations, CommittedWatch::advance).
THEOREM WatchesFollowDocuments == Spec => []WatchesFollow
<1>1. Init => FollowInv
  BY DEF Init, FollowInv, NotWatching
<1>2. FollowInv => WatchesFollow
  BY DEF FollowInv, Follows, WatchesFollow
<1> QED
  BY <1>1, <1>2, FollowKept, BaseKept, MemoryKept, MemoryAlways, PTL DEF Spec
=============================================================================
