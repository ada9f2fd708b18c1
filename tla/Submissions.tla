---------------------------- MODULE Submissions ----------------------------
(* One conversation: submissions, their queue, the run that answers them,  *)
(* the generation tasks the run is handed through, and the compactions     *)
(* beside them (harness/submissions.rs, inbox.rs, live.rs, generation.rs,  *)
(* compaction.rs).                                                         *)
(*                                                                         *)
(* Every action but the aborts' marks is one commit of a handler.  All the *)
(* state is durable: a crash between two commits only makes a phase start  *)
(* again from its checkpoint, which is a stuttering step here.  The rules  *)
(* of the scheduler are taken from TaskScheduler: a marked task commits    *)
(* only through its abort handler, and that one starts only after the work *)
(* the task owns has settled.                                              *)
EXTENDS Inbox

CONSTANTS WriteHeads,      \* the kinds of writes the host makes: "none", "self", "named"
          InputModes,      \* what the host asks for when busy: "steer", "followUp", "reject"
          QueueModes,      \* the settings a boundary may find
          Interrupts,      \* "abort", "abortConversation", "fault"
          MaxSubmissions,  \* submissions of the host
          MaxRounds,       \* generations a run may be handed on to
          MaxCompactions,  \* compaction tasks
          MaxRetries       \* settings.retry.max_retries

ASSUME SubmissionsAssumption ==
  /\ WriteHeads \subseteq {"none", "self", "named"}
  /\ InputModes \subseteq {"steer", "followUp", "reject"}
  /\ QueueModes \subseteq [steering : {"all", "oneAtATime"}, followUp : {"all", "oneAtATime"}]
  /\ Interrupts \subseteq {"abort", "abortConversation", "fault"}
  /\ {MaxSubmissions, MaxRounds, MaxCompactions, MaxRetries} \subseteq Nat

VARIABLES
  log,      \* the transcript
  sub,      \* submission records in the order of their ids
  inbox,    \* pi.inbox: ids of queued submissions
  run,      \* pi.live.run: the task that ends the run and the inputs it settles
  gens,     \* pi.generation tasks in the order of their ids
  comps,    \* pi.compaction tasks in the order of their ids
  listed,   \* pi.live.compactions: ids of the compactions shown
  asked     \* submissions the host has made

vars == <<log, sub, inbox, run, gens, comps, listed, asked>>

NoRun == [task |-> 0, inputs |-> <<>>]

\* A generation: its phase, attempt, the blocking compaction it waited for (0
\* for none) and whether an overflow started that, and in the phase "tools" the
\* entry that called them.  The phase "poll" is part of "request".
Generation == [phase |-> "prepare", attempt |-> 1, compacted |-> 0, overflow |-> FALSE,
               calls |-> 0, mark |-> FALSE]

\* A compaction: the generation that owns it (0 for the conversation), whether
\* the host asked for it, the entry it keeps from, and whether it completed
\* with an entry of its own.
Compaction(owner, manual) ==
  [phase |-> "select", owner |-> owner, manual |-> manual, firstKept |-> 0,
   placed |-> FALSE, mark |-> FALSE]

Live(task) == task.phase # "terminal"

\* background in create_compaction
Apart(comp) == comp.owner = 0 /\ ~comp.manual

-----------------------------------------------------------------------------
(* Transactions. *)

Begin == [log |-> log, sub |-> sub, inbox |-> inbox, run |-> run, gens |-> gens,
          comps |-> comps, listed |-> listed, head |-> ActiveHead(log), ok |-> TRUE]

\* A transaction with a refused change leaves everything as it was.
Commit(tx) ==
  /\ tx.ok
  /\ log' = tx.log /\ sub' = tx.sub /\ inbox' = tx.inbox /\ run' = tx.run
  /\ gens' = tx.gens /\ comps' = tx.comps /\ listed' = tx.listed

CreateGeneration(tx) == [tx EXCEPT !.gens = Append(@, Generation)]

\* Mutant: the run is given to the task before the one just created.
StartRunBefore(tx, inputs) ==
  IF inputs = <<>> THEN tx
  ELSE LET new == CreateGeneration(tx)
       IN  [new EXCEPT !.run = [task |-> Len(new.gens) - 1, inputs |-> inputs]]

\* start_run, called when there are inputs.
StartRun(tx, inputs) ==
  IF inputs = <<>> THEN tx
  ELSE LET new == CreateGeneration(tx)
       IN  [new EXCEPT !.run = [task |-> Len(new.gens), inputs |-> inputs]]

\* Mutant: the inputs a boundary placed are not added to the run.
HandOverAlone(tx, from, placed) ==
  LET new == CreateGeneration(tx)
  IN  IF tx.run.task # from THEN new ELSE [new EXCEPT !.run.task = Len(new.gens)]

\* The next generation of a run, with the inputs placed meanwhile (hand_over).
HandOver(tx, from, placed) ==
  LET new == CreateGeneration(tx)
  IN  IF tx.run.task # from THEN new
      ELSE [new EXCEPT !.run = [task |-> Len(new.gens), inputs |-> @.inputs \o placed]]

Settle(tx, set, answer) ==
  IF answer = 0 THEN LeaveUnanswered(tx, set) ELSE AnswerSubmissions(tx, set, answer)

\* end_run: settles the inputs of the run the task owns.
EndRun(tx, t, answer) ==
  IF tx.run.task # t THEN tx
  ELSE [Settle(tx, ToSet(tx.run.inputs), answer) EXCEPT !.run = NoRun]

Unanswered(tx, t) == EndRun(tx, t, 0)

\* A terminal record keeps its outcome only.
Terminal(tx, t) == [tx EXCEPT !.gens[t] = [Generation EXCEPT !.phase = "terminal"]]

\* create_compaction
CreateCompaction(tx, owner, manual) ==
  [tx EXCEPT !.comps = Append(@, Compaction(owner, manual)),
             !.listed = @ \cup {Len(tx.comps) + 1}]

\* The end of a compaction and remove_compaction_status.
CompactionDone(tx, c) ==
  [tx EXCEPT !.comps[c] = [Compaction(@.owner, @.manual) EXCEPT !.phase = "terminal"],
             !.listed = @ \ {c}]

-----------------------------------------------------------------------------
(* Admission. *)

\* Mutant: an idle conversation does not look at its queue.
QueuedAheadUnseen(tx) == FALSE

QueuedAhead(tx) == tx.inbox # <<>>

\* admit_submission, for a request that is not known yet.
Admit(tx, draft, modes) ==
  LET id   == Len(tx.sub) + 1
      busy == tx.run # NoRun
      With(t, status, entry) == [t EXCEPT !.sub = Append(@, Submission(draft, status, entry))]
      queued   == Enqueue(With(tx, "queued", 0), id)
      boundary == ApplyBoundary(queued, "final", modes)
      own      == Len(tx.log) + 1
  IN  CASE busy -> queued
        [] ~busy /\ QueuedAhead(tx) -> StartRun(boundary.tx, boundary.users)
        [] ~busy /\ ~QueuedAhead(tx) /\ draft.mode = "write" ->
             IF Stale(tx, draft) THEN With(tx, "unanswered", 0)
             ELSE With(AppendEntry(tx, "write", draft.head, id), "done", own)
        [] OTHER ->
             StartRun(With(AppendEntry(tx, "user", NoHead, id), "placed", own), <<id>>)

Asks == asked < MaxSubmissions /\ asked' = asked + 1

\* An input that may not wait is refused by a busy conversation; otherwise it
\* is a follow-up.
SubmitInput(whenBusy, modes) ==
  /\ Asks
  /\ whenBusy = "reject" => run = NoRun
  /\ LET mode == IF whenBusy = "steer" THEN "steer" ELSE "followUp"
     IN  Commit(Admit(Begin, Draft(mode, NoHead), modes))

\* A write, Conversation::reset included (head "self").
SubmitWrite(head, modes) ==
  /\ Asks
  /\ Commit(Admit(Begin, Draft("write", head), modes))

\* The heads the host may give a write: of entries that exist.
HeadsOf(kind) ==
  CASE kind = "none" -> {NoHead}
    [] kind = "self" -> {SelfHead}
    [] OTHER         -> DOMAIN log

\* Submissions::abort
AbortSubmission(s) ==
  /\ sub[s].status = "queued"
  /\ Commit(Withdraw(Begin, {s}))
  /\ UNCHANGED asked

-----------------------------------------------------------------------------
(* Generations. *)

\* The scheduler runs a phase: not marked, and what it waits for has settled.
Runs(t) == /\ Live(gens[t]) /\ ~gens[t].mark
           /\ gens[t].compacted # 0 => ~Live(comps[gens[t].compacted])

\* The entries a summary may keep from: select_cut leaves at least one entry of
\* the active range, other than its head marker, to be summarized.
Cuts == LET active == {i \in DOMAIN log : i >= ActiveHead(log) /\ log[i].head = NoHead}
        IN  {i \in active : \E j \in active : j < i}

MayCompact == Len(comps) < MaxCompactions /\ Cuts # {}

\* No model, or a final error of the model, or an overflow that compaction did
\* not cure.
GenerationFails(t) ==
  /\ Runs(t) /\ gens[t].phase \in {"prepare", "request"}
  /\ Commit(Terminal(Unanswered(Begin, t), t))
  /\ UNCHANGED asked

\* The context is over the blocking threshold.
CompactFirst(t) ==
  /\ Runs(t) /\ gens[t].phase = "prepare" /\ gens[t].compacted = 0
  /\ MayCompact
  /\ Commit([CreateCompaction(Begin, t, FALSE) EXCEPT !.gens[t].compacted = Len(comps) + 1])
  /\ UNCHANGED asked

\* The request is pinned; over the lower threshold a compaction is started
\* beside it, unless one is listed.
Prepared(t, over) ==
  /\ Runs(t) /\ gens[t].phase = "prepare"
  /\ gens[t].overflow => comps[gens[t].compacted].placed
  /\ over => gens[t].compacted = 0 /\ MayCompact /\ listed = {}
  /\ LET tx == IF over THEN CreateCompaction(Begin, 0, FALSE) ELSE Begin
     IN  Commit([tx EXCEPT !.gens[t].phase = "request"])
  /\ UNCHANGED asked

\* The model refuses the request as too long, for the first time.
Overflow(t) ==
  /\ Runs(t) /\ gens[t].phase = "request" /\ gens[t].compacted = 0
  /\ MayCompact
  /\ Commit([CreateCompaction(Begin, t, FALSE)
               EXCEPT !.gens[t].phase = "prepare",
                      !.gens[t].compacted = Len(comps) + 1, !.gens[t].overflow = TRUE])
  /\ UNCHANGED asked

\* Another attempt after a passing error (with the phase "retry").
Retry(t) ==
  /\ Runs(t) /\ gens[t].phase = "request" /\ gens[t].attempt <= MaxRetries
  /\ Commit([Begin EXCEPT !.gens[t].phase = "prepare", !.gens[t].attempt = @ + 1,
                          !.gens[t].overflow = FALSE])
  /\ UNCHANGED asked

\* An answer.  A hook may go on with an input of its own, if the boundary
\* places none and resets nothing.
Answer(t, continues, modes) ==
  /\ Runs(t) /\ gens[t].phase = "request"
  /\ continues => Len(gens) < MaxRounds
  /\ LET answer   == Len(log) + 1
         boundary == ApplyBoundary(AppendEntry(Begin, "assistant", NoHead, 0), "final", modes)
         goesOn   == continues /\ boundary.users = <<>> /\ ~boundary.reset
         next     == IF goesOn THEN HandOver(AppendEntry(boundary.tx, "user", NoHead, 0), t, <<>>)
                     ELSE StartRun(EndRun(boundary.tx, t, answer), boundary.users)
     IN  Commit(Terminal(next, t))
  /\ UNCHANGED asked

\* The model calls tools, which are children of the generation.
StartToolRound(t) ==
  /\ Runs(t) /\ gens[t].phase = "request"
  /\ Len(gens) < MaxRounds
  /\ Commit([AppendEntry(Begin, "assistant", NoHead, 0)
               EXCEPT !.gens[t].phase = "tools", !.gens[t].calls = Len(log) + 1])
  /\ UNCHANGED asked

\* The last tool has settled.  The tools may end the run, or end it and hand
\* the work to a new context; else the run goes on unless a reset was queued.
FinishToolRound(t, control, modes) ==
  /\ Runs(t) /\ gens[t].phase = "tools"
  /\ LET handoff  == [AppendEntry(Begin, "handoff", SelfHead, 0) EXCEPT !.head = Len(log) + 1]
         first    == IF control = "handoff" THEN handoff ELSE Begin
         final    == control \in {"terminate", "handoff"}
         boundary == ApplyBoundary(first, IF final THEN "final" ELSE "postTools", modes)
         next     ==
           CASE final -> StartRun(EndRun(boundary.tx, t, gens[t].calls), boundary.users)
             [] ~final /\ boundary.reset -> StartRun(Unanswered(boundary.tx, t), boundary.users)
             [] OTHER -> HandOver(boundary.tx, t, boundary.users)
     IN  Commit(Terminal(next, t))
  /\ UNCHANGED asked

\* The abort handler, which starts when the task's compaction has settled.
AbortGeneration(t) ==
  /\ Live(gens[t]) /\ gens[t].mark
  /\ \A c \in DOMAIN comps : comps[c].owner = t => ~Live(comps[c])
  /\ Commit(Terminal(Unanswered(Begin, t), t))
  /\ UNCHANGED asked

\* The scheduler settles the task as faulted or orphaned
\* (settle_scheduler_outcome).
GenerationFaults(t) ==
  /\ "fault" \in Interrupts
  /\ Live(gens[t])
  /\ \A c \in DOMAIN comps : comps[c].owner = t => ~Live(comps[c])
  /\ Commit(Terminal(Unanswered(Begin, t), t))
  /\ UNCHANGED asked

-----------------------------------------------------------------------------
(* Compactions. *)

Works(c) == Live(comps[c]) /\ ~comps[c].mark

\* Conversation::compact
Compact ==
  /\ Len(comps) < MaxCompactions
  /\ Commit(CreateCompaction(Begin, 0, TRUE))
  /\ UNCHANGED asked

\* The view of this moment decides what the summary will keep.
Select(c, firstKept) ==
  /\ Works(c) /\ comps[c].phase = "select"
  /\ Commit([Begin EXCEPT !.comps[c].phase = "summarize", !.comps[c].firstKept = firstKept])
  /\ UNCHANGED asked

\* Nothing to summarize, a hook that declines, no model, or no summary.
CompactionEnds(c) ==
  /\ Works(c)
  /\ Commit(CompactionDone(Begin, c))
  /\ UNCHANGED asked

\* place_summary: a compaction of the conversation submits a write, and one a
\* generation waits for appends its entry itself.
PlaceSummary(c, modes) ==
  /\ Works(c) /\ comps[c].phase = "summarize"
  /\ LET done  == CompactionDone(Begin, c)
         draft == Draft("write", comps[c].firstKept)
     IN  Commit(IF comps[c].owner = 0 THEN Admit(done, draft, modes)
                ELSE [AppendEntry(done, "summary", draft.head, 0) EXCEPT !.comps[c].placed = TRUE])
  /\ UNCHANGED asked

AbortCompaction(c) ==
  /\ Live(comps[c]) /\ comps[c].mark
  /\ Commit(CompactionDone(Begin, c))
  /\ UNCHANGED asked

CompactionFaults(c) ==
  /\ "fault" \in Interrupts
  /\ Live(comps[c])
  /\ Commit(CompactionDone(Begin, c))
  /\ UNCHANGED asked

-----------------------------------------------------------------------------
(* Abort marks. *)

\* Harness::abort_task
AbortTask ==
  /\ "abort" \in Interrupts
  /\ \/ \E t \in DOMAIN gens : /\ Live(gens[t]) /\ ~gens[t].mark
                               /\ Commit([Begin EXCEPT !.gens[t].mark = TRUE])
     \/ \E c \in DOMAIN comps : /\ Works(c)
                                /\ Commit([Begin EXCEPT !.comps[c].mark = TRUE])
  /\ UNCHANGED asked

\* The scheduler's cascade to what a marked task owns.
Cascade(c) ==
  /\ Works(c) /\ comps[c].owner # 0 /\ gens[comps[c].owner].mark
  /\ Commit([Begin EXCEPT !.comps[c].mark = TRUE])
  /\ UNCHANGED asked

\* Conversation::abort: marks the tasks, those in the background if asked to,
\* and withdraws the queued inputs.
AbortConversation(background) ==
  /\ "abortConversation" \in Interrupts
  /\ LET marked == [Begin EXCEPT
           !.gens  = [t \in DOMAIN gens |-> [gens[t] EXCEPT !.mark = @ \/ Live(gens[t])]],
           !.comps = [c \in DOMAIN comps |->
                        [comps[c] EXCEPT !.mark = @ \/ (Live(comps[c]) /\ (Apart(comps[c]) => background))]]]
     IN  Commit(Withdraw(marked, QueuedInputs(marked)))
  /\ UNCHANGED asked

-----------------------------------------------------------------------------
Init ==
  /\ log = <<>> /\ sub = <<>> /\ inbox = <<>> /\ run = NoRun
  /\ gens = <<>> /\ comps = <<>> /\ listed = {} /\ asked = 0

Host ==
  \/ \E modes \in QueueModes :
       \/ \E whenBusy \in InputModes : SubmitInput(whenBusy, modes)
       \/ \E kind \in WriteHeads : \E head \in HeadsOf(kind) : SubmitWrite(head, modes)
  \/ \E s \in DOMAIN sub : AbortSubmission(s)
  \/ Compact
  \/ AbortTask
  \/ \E background \in BOOLEAN : AbortConversation(background)

GenerationStep(t) ==
  \/ GenerationFails(t)
  \/ CompactFirst(t)
  \/ \E over \in BOOLEAN : Prepared(t, over)
  \/ Overflow(t)
  \/ Retry(t)
  \/ \E modes \in QueueModes, continues \in BOOLEAN : Answer(t, continues, modes)
  \/ StartToolRound(t)
  \/ \E modes \in QueueModes, control \in {"none", "terminate", "handoff"} :
       FinishToolRound(t, control, modes)
  \/ AbortGeneration(t)

CompactionStep(c) ==
  \/ \E firstKept \in Cuts : Select(c, firstKept)
  \/ CompactionEnds(c)
  \/ \E modes \in QueueModes : PlaceSummary(c, modes)
  \/ AbortCompaction(c)
  \/ Cascade(c)

Faults ==
  \/ \E t \in DOMAIN gens : GenerationFaults(t)
  \/ \E c \in DOMAIN comps : CompactionFaults(c)

Work == (\E t \in DOMAIN gens : GenerationStep(t)) \/ (\E c \in DOMAIN comps : CompactionStep(c))

Next == Host \/ Work \/ Faults

Spec == Init /\ [][Next]_vars

-----------------------------------------------------------------------------
(* Properties. *)

Ids == DOMAIN sub
Entries == DOMAIN log

\* Every variable holds a value of its type, the numbers of entries, tasks and
\* submissions being those of existing ones.
TypeOK ==
  /\ log \in Seq([kind : {"user", "assistant", "write", "summary", "handoff"},
                  head : Entries \cup {NoHead}, sub : Ids \cup {0}])
  /\ sub \in Seq([mode : {"write", "steer", "followUp"}, head : Entries \cup {NoHead, SelfHead},
                  status : {"queued", "placed", "done", "unanswered"},
                  entry : Entries \cup {0}, answer : Entries \cup {0}])
  /\ inbox \in Seq(Ids)
  /\ run # NoRun => run \in [task : DOMAIN gens, inputs : Seq(Ids) \ {<<>>}]
  /\ gens \in Seq([phase : {"prepare", "request", "tools", "terminal"},
                   attempt : 1 .. MaxRetries + 1, compacted : DOMAIN comps \cup {0},
                   overflow : BOOLEAN, calls : Entries \cup {0}, mark : BOOLEAN])
  /\ comps \in Seq([phase : {"select", "summarize", "terminal"}, owner : DOMAIN gens \cup {0},
                    manual : BOOLEAN, firstKept : Entries \cup {0},
                    placed : BOOLEAN, mark : BOOLEAN])
  /\ listed \subseteq DOMAIN comps
  /\ asked \in 0 .. MaxSubmissions

\* The inputs that are placed and not settled are exactly those of the active
\* run, each once, and the run belongs to a generation that can still end it,
\* the only one alive.  The run is handed on, steered, answered, failed, reset
\* and aborted by different handlers; one that forgets an input leaves its
\* waiters without an answer for good (types.rs, InputSubmissionStatus::Placed).
RunOwnsPlacedInputs ==
  /\ {s \in Ids : sub[s].status = "placed"} = ToSet(run.inputs)
  /\ IsInjective(run.inputs)
  /\ {t \in DOMAIN gens : Live(gens[t])} = {run.task} \ {0}

\* The queue holds exactly the submissions whose records say queued, in the
\* order they were made: two documents that boundaries, withdrawals and
\* admissions change by hand in the same commit.
QueueMatchesRecords ==
  /\ ToSet(inbox) = {s \in Ids : sub[s].status = "queued"}
  /\ \A i, j \in DOMAIN inbox : i < j => inbox[i] < inbox[j]

\* The entry a record names is the one entry made for that submission, so a
\* submission is placed at most once, and one that was withdrawn, or found to
\* be stale, never reaches the transcript.
TranscriptMatchesRecords ==
  \A s \in Ids : {i \in Entries : log[i].sub = s} = {sub[s].entry} \ {0}

\* An answer is not given in a new context: no reset, nor another entry that
\* begins a context with itself, lies between an input and its answer.  A reset
\* that is queued during a run is placed by a boundary of that same run.  (A
\* queued write, or a summary, that names a head behind the input may still cut
\* the input off, and its run answers it.)
NoAnswerAcrossReset ==
  \A s \in Ids : sub[s].answer # 0 =>
    /\ sub[s].entry < sub[s].answer
    /\ \A i \in Entries : sub[s].entry < i /\ i < sub[s].answer => log[i].head # i

\* Submissions of one mode enter the transcript in the order they were made,
\* also when a run has ended without a boundary and left them in the queue.
PlacedInOrder ==
  \A s, r \in Ids : s < r /\ sub[s].mode = sub[r].mode /\ sub[s].entry # 0 /\ sub[r].entry # 0
    => sub[s].entry < sub[r].entry

\* The active range never grows backwards, not within one commit either: no
\* write, and no summary of a view that is out of date, brings back history
\* that was cut off (isStale).  Summaries a generation waits for are appended
\* without that test.
HeadsNeverMoveBack ==
  LET marks == {i \in Entries : log[i].head # NoHead}
  IN  \A i, j \in marks : i < j => log[i].head <= log[j].head

\* A follow-up does not enter a run that goes on: in the step that places it
\* every input of the run is settled.
FollowUpsWaitForTheRunsEnd ==
  [][\A s \in Ids : /\ sub[s].mode = "followUp"
                    /\ sub[s].status = "queued" /\ sub'[s].status = "placed"
       => \A r \in ToSet(run.inputs) : Settled(sub'[r])]_vars
=============================================================================
