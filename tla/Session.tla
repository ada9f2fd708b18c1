------------------------------ MODULE Session ------------------------------
(* The session (session/session.rs): the line on which its jobs run one at *)
(* a time, the documents it keeps in memory beside storage, snapshots that *)
(* read them off the line, watches of documents, poison and close.         *)
(*                                                                         *)
(* Threads run in parallel: an action ends where the code awaits, takes    *)
(* another lock, or reads a flag that another thread may change.           *)
EXTENDS Observation, FiniteSets

CONSTANTS
  Writer,       \* threads that commit
  Reader,       \* threads that take snapshots
  Watcher,      \* threads that watch one document each
  Closer,       \* threads that close the session
  ClosingJob,   \* the job that close() puts on the line
  Address,      \* addresses of documents
  Version,      \* versions of the documents' definition
  WatchVersion, \* bound: those that watches read with
  MaxCommits,   \* bound on the commits in storage, the first included
  MaxPending    \* MAX_PENDING_WATCH_FRAMES

ASSUME SessionAssumption ==
  /\ Version \subseteq Nat \ {0} /\ Version # {} /\ WatchVersion \subseteq Version
  /\ MaxCommits \in Nat \ {0} /\ MaxPending \in Nat \ {0}
  /\ ClosingJob \notin Writer \cup Reader \cup Watcher
  /\ Writer \cap Reader = {} /\ Writer \cap Watcher = {} /\ Reader \cap Watcher = {}

VARIABLES
  log,        \* storage: the documents as each commit left them
  open,       \* storage is open
  cache,      \* Session.documents
  poisoned,   \* Session.poison is set
  sealed,     \* Session.closing_started
  closing,    \* how far the future of close() is
  line,       \* Session.line: who waits for it, its holder first
  listens,    \* Session.commit_listeners, by the watches they serve
  hears,      \* Session.close_listeners, likewise
  published,  \* the last commit all listeners were told of
  writer, reader, watcher, closer,   \* where each thread is
  watch       \* the watches

docs    == <<log, open, cache>>
health  == <<poisoned, sealed, closing>>
hearers == <<listens, hears, published>>
session == <<docs, health, hearers, line>>
vars    == <<session, writer, reader, watcher, closer, watch>>

-----------------------------------------------------------------------------
(* Documents: a record has the number of the commit that created it, that  *)
(* of the last that changed its content, and the version it is stored in.  *)
(* In memory it also has the version that gives its value its shape.       *)

Doc(id, content, stored) == [id |-> id, content |-> content, stored |-> stored]

NoDoc == Doc(0, 0, 0)

Loaded(doc, ver) ==
  [id |-> doc.id, content |-> doc.content, stored |-> doc.stored, ver |-> ver]

NotLoaded == Loaded(NoDoc, 0)

Stored == log[Len(log)]

\* The cached document serves a definition of version v.
Serves(a, v) == cache[a] # NotLoaded /\ cache[a].ver = v

\* check_record_version: an older definition cannot read the document.
TooNew(a, v) == Stored[a].stored > v

\* load_document: what is in memory afterwards.
Load(a, v) ==
  IF Serves(a, v) THEN cache[a]
  ELSE IF Stored[a] = NoDoc \/ TooNew(a, v) THEN NotLoaded
  ELSE Loaded(Stored[a], v)

-----------------------------------------------------------------------------
(* The line. *)

Holds(j) == line # <<>> /\ Head(line) = j

Enqueue(j) == line' = Append(line, j)
Release    == line' = Tail(line)

\* assert_usable
Usable == ~sealed /\ ~poisoned

-----------------------------------------------------------------------------
(* Commits.  A writer's plan gives every document it touches an operation: *)
(* what its draft does, if it takes one (migrate touches the document under *)
(* a newer definition, set changes or creates it), and whether the document *)
(* is then kept, retired, or retired and the next one created.              *)

Ops == [draft : {"none", "migrate", "set"}, then : {"keep", "retire", "replace"}]
         \ {[draft |-> "none", then |-> "keep"]}

Idle == [pc |-> "idle", ops |-> <<>>, ver |-> 0, todo |-> {}]

At(c, pc) == writer[c].pc = pc

Step(c, next) == writer' = [writer EXCEPT ![c] = next]

Goto(c, pc) == Step(c, [writer[c] EXCEPT !.pc = pc])

\* plan_document: the operations there are for a document as it is stored.
Applies(op, doc, v) ==
  CASE op.draft = "set"     -> doc.stored <= v
    [] op.draft = "migrate" -> doc # NoDoc /\ doc.stored < v
    [] op.draft = "none"    -> doc # NoDoc

\* The document as the draft leaves it ...
Drafted(op, doc, v, seq) ==
  CASE op.draft = "set"     -> Doc(IF doc = NoDoc THEN seq ELSE doc.id, seq, v)
    [] op.draft = "migrate" -> Doc(doc.id, doc.content, v)
    [] op.draft = "none"    -> doc

\* ... and as the commit leaves it.
After(op, doc, v, seq) ==
  CASE op.then = "keep"    -> Drafted(op, doc, v, seq)
    [] op.then = "retire"  -> NoDoc
    [] op.then = "replace" -> Doc(seq, seq, v)

\* What storage holds once the plan of c is committed.
Committed(c) ==
  [a \in Address |-> IF a \in DOMAIN writer[c].ops
                     THEN After(writer[c].ops[a], Stored[a], writer[c].ver, Len(log) + 1)
                     ELSE Stored[a]]

\* commit_with: the test, and only then the wait for the line.
CallCommit(c) ==
  /\ At(c, "idle") /\ Usable /\ Len(log) < MaxCommits
  /\ Goto(c, "admitted")
  /\ UNCHANGED <<session, reader, watcher, closer, watch>>

EnqueueCommit(c) ==
  /\ At(c, "admitted")
  /\ Goto(c, "queued")
  /\ Enqueue(c)
  /\ UNCHANGED <<docs, health, hearers, reader, watcher, closer, watch>>

\* The job that has the line, if any, has taken no step.
BetweenJobs ==
  line # <<>> =>
    \/ Head(line) \in Writer  /\ At(Head(line), "queued")
    \/ Head(line) \in Watcher /\ watcher[Head(line)].pc = "queued"
    \/ Head(line) \in Reader \cup {ClosingJob}

\* unload_documents, which tests nothing; its own wait for the line is left out.
Unload ==
  /\ BetweenJobs
  /\ cache' = [a \in Address |-> NotLoaded]
  /\ UNCHANGED <<log, open, health, line, hearers, writer, reader, watcher, closer, watch>>

\* Mutant: a job does not test for poison again once it has the line.
MayRunPoisoned == TRUE

\* assert_healthy
MayRun == ~poisoned

\* run_commit up to settle_success: the callback reads the documents it
\* changes, and the batch is assembled.
Prepare(c) ==
  /\ Holds(c) /\ At(c, "queued")
  /\ MayRun /\ open /\ Len(log) < MaxCommits
  /\ \E touched \in (SUBSET Address) \ {{}}, v \in Version :
       \E ops \in [touched -> Ops] :
         /\ \A a \in touched : Applies(ops[a], Stored[a], v)
         /\ Step(c, [pc |-> "prepared", ops |-> ops, ver |-> v, todo |-> touched])
         /\ cache' = [a \in Address |->
                        IF a \in touched /\ ops[a].draft # "none"
                        THEN Load(a, v) ELSE cache[a]]
  /\ UNCHANGED <<log, open, health, line, hearers, reader, watcher, closer, watch>>

\* The callback reads a document its definition is too old for.
PrepareTooOld(c) ==
  /\ Holds(c) /\ At(c, "queued")
  /\ MayRun /\ open
  /\ \E a \in Address, v \in Version :
       TooNew(a, v) /\ cache' = [cache EXCEPT ![a] = Load(a, v)]
  /\ Step(c, Idle) /\ Release
  /\ UNCHANGED <<log, open, health, hearers, reader, watcher, closer, watch>>

\* The job ends with nothing written: the session is poisoned, the caller has
\* given up, the callback fails, the batch is empty, or storage rejects it.
GiveUp(c) ==
  /\ Holds(c) /\ writer[c].pc \in {"queued", "prepared"}
  /\ Step(c, Idle) /\ Release
  /\ UNCHANGED <<docs, health, hearers, reader, watcher, closer, watch>>

\* The job finds storage closed.  If it reads first its callback fails; else
\* storage refuses the batch with an error that poisons the session.
CommitAfterClose(c) ==
  /\ Holds(c) /\ At(c, "queued")
  /\ MayRun /\ ~open
  /\ poisoned' \in BOOLEAN
  /\ Step(c, Idle) /\ Release
  /\ UNCHANGED <<docs, sealed, closing, hearers, reader, watcher, closer, watch>>

StoreCommit(c) ==
  /\ Holds(c) /\ At(c, "prepared")
  /\ log' = Append(log, Committed(c))
  /\ Goto(c, "stored")
  /\ UNCHANGED <<open, cache, health, line, hearers, reader, watcher, closer, watch>>

\* Storage fails: nobody knows whether the batch is in it (poison).
StoreFails(c) ==
  /\ Holds(c) /\ At(c, "prepared")
  /\ log' \in {log, Append(log, Committed(c))}
  /\ poisoned' = TRUE
  /\ Step(c, Idle) /\ Release
  /\ UNCHANGED <<open, cache, sealed, closing, hearers, reader, watcher, closer, watch>>

-----------------------------------------------------------------------------
(* Adoption and publication of the commit that was stored last. *)

Before(a) == log[Len(log) - 1][a]

\* Mutant: a document that is retired stays in memory.
AdoptedKept(c, a) ==
  IF Stored[a] = NoDoc THEN cache[a] ELSE Loaded(Stored[a], writer[c].ver)

\* Transaction::adopt for one document: install, or evict what was retired ...
Adopted(c, a) ==
  IF Stored[a] # NoDoc THEN Loaded(Stored[a], writer[c].ver)
  ELSE IF cache[a].id = Before(a).id THEN NotLoaded
  ELSE cache[a]

\* ... but a document that the commit both changed and retired is installed as
\* its draft left it before it is evicted.
Passing(c, a) ==
  Loaded(Drafted(writer[c].ops[a], Before(a), writer[c].ver, Len(log)), writer[c].ver)

Passes(c, a) ==
  writer[c].ops[a].draft # "none" /\ writer[c].ops[a].then # "keep" /\ Before(a) # NoDoc

InstallDraft(c) ==
  /\ At(c, "stored")
  /\ \A b \in writer[c].todo : Passes(c, b) => cache[b] # Passing(c, b)
  /\ \E a \in writer[c].todo : Passes(c, a) /\ cache' = [cache EXCEPT ![a] = Passing(c, a)]
  /\ UNCHANGED <<log, open, health, line, hearers, writer, reader, watcher, closer, watch>>

\* After the last document the listeners of this moment are told, one after
\* the other (publish).
AdoptDocument(c) ==
  /\ At(c, "stored")
  /\ \E a \in writer[c].todo :
       /\ \A b \in writer[c].todo :
            Passes(c, b) => (cache[b] = Passing(c, b) <=> b = a)
       /\ cache' = [cache EXCEPT ![a] = Adopted(c, a)]
       /\ Step(c, IF writer[c].todo = {a}
                  THEN [writer[c] EXCEPT !.pc = "publishing", !.todo = listens]
                  ELSE [writer[c] EXCEPT !.todo = @ \ {a}])
  /\ UNCHANGED <<log, open, health, line, hearers, reader, watcher, closer, watch>>

\* Mutant: the operations are taken for those of the watched version.
ObservedAsIs(w, a, v) ==
  LET old == Before(a)
      new == Stored[a]
  IN  IF new.content = old.content THEN w
      ELSE Advance(w, Frame(Value(old.content, v), Value(new.content, v)), MaxPending)

\* observed_operations for a document that was changed and lives: the
\* operations themselves if the watch sees this version, else a replacement.
Observed(w, a, v) ==
  LET old == Before(a)
      new == Stored[a]
  IN  IF w.seen # v
      THEN Advance([w EXCEPT !.seen = v], Replacement(Value(new.content, v)), MaxPending)
      ELSE IF new.content = old.content THEN w
      ELSE Advance(w, Frame(Value(old.content, v), Value(new.content, v)), MaxPending)

\* The commit listener of attach_watch.
Told(w, c) ==
  LET a == w.addr
  IN  IF Ended(w) \/ Before(a).id # w.id \/ a \notin DOMAIN writer[c].ops THEN w
      ELSE IF Stored[a].id # w.id THEN Advance(w, Replacement(Null), MaxPending)
      ELSE Observed(w, a, writer[c].ver)

TellListener(c) ==
  /\ At(c, "publishing")
  /\ \E w \in writer[c].todo :
       /\ watch' = [watch EXCEPT ![w] = Told(@, c)]
       /\ Step(c, [writer[c] EXCEPT !.todo = @ \ {w}])
  /\ UNCHANGED <<session, reader, watcher, closer>>

EndCommit(c) ==
  /\ At(c, "publishing") /\ writer[c].todo = {}
  /\ published' = Len(log)
  /\ Step(c, Idle) /\ Release
  /\ UNCHANGED <<docs, health, listens, hears, reader, watcher, closer, watch>>

-----------------------------------------------------------------------------
(* Snapshots.  A reader remembers the last commit acknowledged when it      *)
(* called.                                                                 *)

NotReading == [pc |-> "idle", addr |-> 0, ver |-> 0, floor |-> 0]

ReaderAt(r, pc) == reader[r].pc = pc

ReaderStep(r, next) == reader' = [reader EXCEPT ![r] = next]

CallSnapshot(r) ==
  /\ ReaderAt(r, "idle") /\ Usable
  /\ \E a \in Address, v \in Version :
       ReaderStep(r, [pc |-> "admitted", addr |-> a, ver |-> v, floor |-> published])
  /\ UNCHANGED <<session, writer, watcher, closer, watch>>

\* Mutant: any value in memory will do.
AnswersOfAnyVersion(r) == ReaderAt(r, "admitted") /\ cache[reader[r].addr] # NotLoaded

\* The document is in memory in the right shape: it is read off the line.
AnswersFromMemory(r) ==
  ReaderAt(r, "admitted") /\ Serves(reader[r].addr, reader[r].ver)

\* It is read on the line, unless the definition is too old for it.
AnswersOnLine(r) ==
  Holds(r) /\ MayRun /\ open /\ ~TooNew(reader[r].addr, reader[r].ver)

\* The value of the answer, as content and version of its shape.
Answer(r) ==
  LET doc == IF AnswersFromMemory(r) THEN cache[reader[r].addr]
             ELSE Load(reader[r].addr, reader[r].ver)
  IN  Value(doc.content, doc.ver)

\* The document is taken from memory and its tracker read in one step: what a
\* thread held up between the two reads later is still what that tracker held.
ReadCached(r) ==
  /\ AnswersFromMemory(r)
  /\ ReaderStep(r, NotReading)
  /\ UNCHANGED <<session, writer, watcher, closer, watch>>

EnqueueSnapshot(r) ==
  /\ ReaderAt(r, "admitted") /\ ~AnswersFromMemory(r)
  /\ ReaderStep(r, [reader[r] EXCEPT !.pc = "queued"])
  /\ Enqueue(r)
  /\ UNCHANGED <<docs, health, hearers, writer, watcher, closer, watch>>

\* The job answers, or the load fails because the definition is too old.
ReadOnLine(r) ==
  /\ Holds(r) /\ MayRun /\ open
  /\ cache' = [cache EXCEPT ![reader[r].addr] = Load(reader[r].addr, reader[r].ver)]
  /\ ReaderStep(r, NotReading) /\ Release
  /\ UNCHANGED <<log, open, health, hearers, writer, watcher, closer, watch>>

\* The session was poisoned, or storage closed, while the snapshot waited.
SnapshotRefused(r) ==
  /\ Holds(r) /\ ~(MayRun /\ open)
  /\ ReaderStep(r, NotReading) /\ Release
  /\ UNCHANGED <<docs, health, hearers, writer, watcher, closer, watch>>

-----------------------------------------------------------------------------
(* Watches. *)

NotWatching == [pc |-> "idle", addr |-> 0, ver |-> 0]

WatcherAt(w, pc) == watcher[w].pc = pc

WatcherStep(w, next) == watcher' = [watcher EXCEPT ![w] = next]

\* The watch becomes next; an ended one is detached from the session.
Becomes(w, next) ==
  /\ watch'   = [watch EXCEPT ![w] = next]
  /\ listens' = IF Ended(next) THEN listens \ {w} ELSE listens
  /\ hears'   = IF Ended(next) THEN hears \ {w} ELSE hears

CallWatch(w) ==
  /\ WatcherAt(w, "idle") /\ Usable
  /\ \E a \in Address, v \in WatchVersion :
       WatcherStep(w, [pc |-> "admitted", addr |-> a, ver |-> v])
  /\ UNCHANGED <<session, writer, reader, closer, watch>>

EnqueueWatch(w) ==
  /\ WatcherAt(w, "admitted")
  /\ WatcherStep(w, [watcher[w] EXCEPT !.pc = "queued"])
  /\ Enqueue(w)
  /\ UNCHANGED <<docs, health, hearers, writer, reader, closer, watch>>

\* The job of watch_doc reads the document, which may not be there.
LoadWatched(w) ==
  LET a == watcher[w].addr
      v == watcher[w].ver
  IN  /\ Holds(w) /\ WatcherAt(w, "queued") /\ MayRun /\ open
      /\ cache' = [cache EXCEPT ![a] = Load(a, v)]
      /\ IF cache'[a] = NotLoaded
         THEN WatcherStep(w, NotWatching) /\ Release
         ELSE WatcherStep(w, [watcher[w] EXCEPT !.pc = "loaded"]) /\ UNCHANGED line
      /\ UNCHANGED <<log, open, health, hearers, writer, reader, closer, watch>>

\* The job ends without a watch: the caller has given up, or a test finds the
\* session poisoned or closing, or reading finds storage closed.
WatchRefused(w) ==
  /\ Holds(w) /\ watcher[w].pc \in {"queued", "loaded"}
  /\ WatcherStep(w, NotWatching) /\ Release
  /\ UNCHANGED <<docs, health, hearers, writer, reader, closer, watch>>

\* attach_watch: the watch is subscribed to commits; the test that precedes
\* the subscription to the close is the last of this step ...
SubscribeCommits(w) ==
  LET a == watcher[w].addr
  IN  /\ Holds(w) /\ WatcherAt(w, "loaded") /\ Usable
      /\ watch' = [watch EXCEPT ![w] =
                     NewWatch(a, cache[a].id, Value(cache[a].content, cache[a].ver))]
      /\ listens' = listens \cup {w}
      /\ WatcherStep(w, [watcher[w] EXCEPT !.pc = "attaching"])
      /\ UNCHANGED <<docs, health, line, hears, published, writer, reader, closer>>

\* ... and the entry another, before which the session may have begun to close.
SubscribeClose(w) ==
  /\ Holds(w) /\ WatcherAt(w, "attaching")
  /\ hears' = hears \cup {w}
  /\ WatcherStep(w, [NotWatching EXCEPT !.pc = "open"])
  /\ Release
  /\ UNCHANGED <<docs, health, listens, published, writer, reader, closer, watch>>

\* WatchHandle::start and stop; the caller's cancellation ends a watch alike.
Start(w) ==
  /\ WatcherAt(w, "open") /\ ~watch[w].started /\ ~Ended(watch[w])
  /\ Becomes(w, StartWatch(watch[w]))
  /\ UNCHANGED <<docs, health, line, published, writer, reader, watcher, closer>>

Stop(w) ==
  /\ WatcherAt(w, "open") /\ ~Ended(watch[w])
  /\ Becomes(w, Terminate(watch[w]))
  /\ UNCHANGED <<docs, health, line, published, writer, reader, watcher, closer>>

\* One step of the job that delivers.
Deliver(w) ==
  /\ \/ watch[w].drain = "scheduled"  /\ Becomes(w, BeginDrain(watch[w]))
     \/ watch[w].drain = "running"    /\ Becomes(w, PopFrame(watch[w]))
     \/ watch[w].drain = "delivering" /\ Becomes(w, ListenerReturns(watch[w]))
     \/ watch[w].drain = "drained"    /\ Becomes(w, EndDrain(watch[w]))
  /\ UNCHANGED <<docs, health, line, published, writer, reader, watcher, closer>>

Panic(w) ==
  /\ watch[w].drain = "delivering"
  /\ Becomes(w, ListenerPanics(watch[w]))
  /\ UNCHANGED <<docs, health, line, published, writer, reader, watcher, closer>>

-----------------------------------------------------------------------------
(* Close.  The future is made by the first call and runs while some caller *)
(* awaits it.                                                              *)

NotClosing == [pc |-> "idle", todo |-> {}]

CloserAt(k, pc) == closer[k].pc = pc

CloserStep(k, pc, todo) == closer' = [closer EXCEPT ![k] = [pc |-> pc, todo |-> todo]]

Awaited == \E k \in Closer : CloserAt(k, "waiting")

\* ensure_closing: seal the session, make the future ...
CallClose(k) ==
  /\ CloserAt(k, "idle") /\ closing = "none"
  /\ sealed' = TRUE
  /\ closing' = "made"
  /\ CloserStep(k, "sealing", {})
  /\ UNCHANGED <<docs, poisoned, line, hearers, writer, reader, watcher, watch>>

\* ... then take the close listeners and call each.
TakeListeners(k) ==
  /\ CloserAt(k, "sealing")
  /\ CloserStep(k, "telling", hears)
  /\ hears' = {}
  /\ UNCHANGED <<docs, health, line, listens, published, writer, reader, watcher, watch>>

TellClose(k) ==
  /\ CloserAt(k, "telling")
  /\ \E w \in closer[k].todo :
       /\ Becomes(w, Terminate(watch[w]))
       /\ CloserStep(k, "telling", closer[k].todo \ {w})
  /\ UNCHANGED <<docs, health, line, published, writer, reader, watcher>>

\* The first caller is done telling; a later one shares the future at once.
AwaitClose(k) ==
  /\ \/ CloserAt(k, "telling") /\ closer[k].todo = {}
     \/ CloserAt(k, "idle") /\ closing # "none"
  /\ CloserStep(k, "waiting", {})
  /\ UNCHANGED <<session, writer, reader, watcher, watch>>

\* before_close is over: the job goes on the line behind what is there.
EnqueueClosing ==
  /\ closing = "made" /\ Awaited
  /\ closing' = "queued"
  /\ Enqueue(ClosingJob)
  /\ UNCHANGED <<docs, poisoned, sealed, hearers, writer, reader, watcher, closer, watch>>

\* The session forgets its listeners and documents, and storage is closed;
\* who awaits the future returns.
CloseStorage ==
  /\ closing = "queued" /\ Holds(ClosingJob) /\ Awaited
  /\ open' = FALSE
  /\ cache' = [a \in Address |-> NotLoaded]
  /\ listens' = {}
  /\ closing' = "done"
  /\ Release
  /\ closer' = [k \in Closer |->
                  [closer[k] EXCEPT !.pc = IF @ = "waiting" THEN "returned" ELSE @]]
  /\ UNCHANGED <<log, poisoned, sealed, hears, published, writer, reader, watcher, watch>>

\* await_with_context: the caller's context is cancelled before the close is over.
GiveUpClose(k) ==
  /\ CloserAt(k, "waiting")
  /\ CloserStep(k, "returned", {})
  /\ UNCHANGED <<session, writer, reader, watcher, watch>>

-----------------------------------------------------------------------------
Init ==
  /\ log = <<[a \in Address |-> Doc(1, 1, CHOOSE v \in Version : \A u \in Version : v <= u)]>>
  /\ open = TRUE /\ poisoned = FALSE /\ sealed = FALSE /\ closing = "none"
  /\ cache = [a \in Address |-> NotLoaded]
  /\ line = <<>> /\ listens = {} /\ hears = {}
  /\ published = 1
  /\ writer = [c \in Writer |-> Idle]
  /\ reader = [r \in Reader |-> NotReading]
  /\ watcher = [w \in Watcher |-> NotWatching]
  /\ closer = [k \in Closer |-> NotClosing]
  /\ watch = [w \in Watcher |-> NoWatch]

WriterNext(c) ==
  \/ CallCommit(c) \/ EnqueueCommit(c)
  \/ Prepare(c) \/ PrepareTooOld(c) \/ GiveUp(c) \/ CommitAfterClose(c)
  \/ StoreCommit(c) \/ StoreFails(c)
  \/ InstallDraft(c) \/ AdoptDocument(c) \/ TellListener(c) \/ EndCommit(c)

ReaderNext(r) ==
  \/ CallSnapshot(r) \/ ReadCached(r) \/ EnqueueSnapshot(r)
  \/ ReadOnLine(r) \/ SnapshotRefused(r)

WatcherNext(w) ==
  \/ CallWatch(w) \/ EnqueueWatch(w) \/ LoadWatched(w) \/ WatchRefused(w)
  \/ SubscribeCommits(w) \/ SubscribeClose(w)
  \/ Start(w) \/ Stop(w) \/ Deliver(w) \/ Panic(w)

CloserNext(k) ==
  \/ CallClose(k) \/ TakeListeners(k) \/ TellClose(k) \/ AwaitClose(k) \/ GiveUpClose(k)

Next ==
  \/ \E c \in Writer : WriterNext(c)
  \/ \E r \in Reader : ReaderNext(r)
  \/ \E w \in Watcher : WatcherNext(w)
  \/ \E k \in Closer : CloserNext(k)
  \/ Unload \/ EnqueueClosing \/ CloseStorage

Spec == Init /\ [][Next]_vars

-----------------------------------------------------------------------------
(* Properties. *)

DocSet    == [id : 0..MaxCommits, content : 0..MaxCommits, stored : Version \cup {0}]
LoadedSet == [id : 0..MaxCommits, content : 0..MaxCommits, stored : Version \cup {0},
              ver : Version \cup {0}]
Job       == Writer \cup Reader \cup Watcher \cup {ClosingJob}

\* Types.  Further, a thread is on the line as often as it waits there, and no
\* watch keeps more than MaxPending frames for a slow listener.
TypeOK ==
  /\ log \in Seq([Address -> DocSet]) /\ Len(log) \in 1..MaxCommits
  /\ {open, poisoned, sealed} \subseteq BOOLEAN
  /\ cache \in [Address -> LoadedSet]
  /\ closing \in {"none", "made", "queued", "done"}
  /\ line \in Seq(Job) /\ IsInjective(line)
  /\ listens \subseteq Watcher /\ hears \subseteq Watcher
  /\ published \in 1..Len(log)
  /\ \A c \in Writer : c \in ToSet(line) <=> ~(writer[c].pc \in {"idle", "admitted"})
  /\ \A r \in Reader : r \in ToSet(line) <=> ReaderAt(r, "queued")
  /\ \A w \in Watcher : w \in ToSet(line) <=> ~(watcher[w].pc \in {"idle", "admitted", "open"})
  /\ ClosingJob \in ToSet(line) <=> closing = "queued"
  /\ \A w \in Watcher :
       /\ watch[w].drain \in DrainState /\ watch[w].ended \in BOOLEAN
       /\ Len(watch[w].pending) <= MaxPending

\* A document in memory is the one in storage, except while a commit is being
\* adopted and in a poisoned session: memory never lags behind storage
\* unnoticed, whatever was unloaded, migrated, retired, created again or
\* failed in between (Transaction::adopt, run_commit).
MemoryFollowsStorage ==
  \A a \in Address :
     \/ poisoned
     \/ \E c \in Writer : At(c, "stored") /\ a \in writer[c].todo
     \/ cache[a] = NotLoaded
     \/ cache[a] = Loaded(Stored[a], cache[a].ver) /\ ~TooNew(a, cache[a].ver)

\* The commit under way changed the document at a and retired it at once.
RetiredChanged(a) ==
  \E c \in Writer :
     At(c, "stored") /\ a \in writer[c].todo /\ Passes(c, a) /\ cache[a] = Passing(c, a)

\* Whatever a snapshot may answer now was in storage at some moment since its
\* call, in the shape of the caller's version: a commit acknowledged before the
\* call is never missed, although the snapshot may be read off the line
\* (SessionImpl::snapshot).  The one exception is what a commit that is being
\* adopted gave a document it also retires: storage never had that as the
\* document's current content, and memory has it until the document is evicted.
SnapshotsFresh ==
  \A r \in Reader :
     AnswersFromMemory(r) \/ AnswersOnLine(r) =>
       \/ \E s \in reader[r].floor..Len(log) :
            LET doc == log[s][reader[r].addr]
            IN  Answer(r) = Value(doc.content, IF doc = NoDoc THEN 0 ELSE reader[r].ver)
       \/ /\ RetiredChanged(reader[r].addr)
          /\ Answer(r) = Value(Len(log), reader[r].ver)

\* The commit up to which a watch was told: a commit under way has told some.
ToldUpTo(w) ==
  IF \E c \in Writer : At(c, "stored") \/ (At(c, "publishing") /\ w \in writer[c].todo)
  THEN Len(log) - 1
  ELSE IF \E c \in Writer : At(c, "publishing") THEN Len(log) ELSE published

\* The frames a watch still has to deliver lead, each from the value before
\* it, from what its listener has seen to the document as the last commit left
\* it that was told: none is lost, doubled, out of order or of another version's
\* shape, also when the backlog overflowed and when the document was retired,
\* or replaced at its address (attach_watch, observed_operations, advance).
WatchesFollow ==
  \A w \in listens :
     LET doc == log[ToldUpTo(w)][watch[w].addr]
     IN  /\ ExactFrames(watch[w].value, watch[w].pending)
         /\ LastValue(watch[w]) = IF doc.id = watch[w].id
                                  THEN Value(doc.content, watch[w].seen)
                                  ELSE Null

\* Once the session is poisoned or its storage closed, storage stays as it is,
\* nothing is read into memory and no watch is told of anything, also by jobs
\* that were admitted before (assert_healthy, ensure_closing).
NothingAfterTheEnd ==
  [][poisoned \/ ~open =>
       /\ log' = log
       /\ \A a \in Address : cache'[a] \in {cache[a], NotLoaded}
       /\ \A w \in Watcher :
            Len(watch'[w].pending) <= Len(watch[w].pending)]_vars
=============================================================================
