# pi_rs: specifications, model checks and proofs

pi_rs is a durable agent runtime in Rust.  Its core, the crate `pi-durable`,
keeps conversations, tasks, submissions and documents in a session that commits
to a storage, and runs the tasks with a scheduler that survives crashes.  The
crate `pi-agent-core` is a second, in-memory agent without any of that.  This
directory holds TLA+ models of both, the TLC runs that check them and the
TLAPS proofs about them.  `PROJECT.json` maps every definition to its lines in
the source.

Short paths: `harness/`, `session/`, `storage/` and `chord/` are below
`crates/pi-durable/src/`, `exec.rs`, `state.rs`, `reserve.rs`, `expiry.rs` and
`ownership.rs` are in `harness/scheduler/`, `generation.rs`, `output.rs`, `live.rs` and
`submissions.rs` in `harness/`, `agent.rs` of the in-memory agent and
`agent-loop.rs` in `crates/pi-agent-core/src/`; `DIFF.md` is at the root.

## 1. The system

| Component | State | Operations | Talks to |
|---|---|---|---|
| ownership tree (`harness/scheduler/ownership.rs`) | none: walks over task records and conversation edges | `above`, `owned_live`, `in_scope`, `below_cancelled`, `idle` | called by the scheduler on the live mirror |
| task scheduler (`exec.rs`, `state.rs`, `reserve.rs`) | live mirror, loaded edges, settled tasks, failFast checks, pending cascade, reconcile flag, drain loop, invocations, registry snapshot | `resume`, `abort`, `abort_conversation`, `wait_for_idle`, `seal`, and the coroutines drain, run and reconcile | commits through the session line; told of every commit by a listener |
| context expiry (`expiry.rs`) | retained context prefixes, timers | settle idle, schedule | reads of task runtimes |
| task contract (`types.rs`, `session/transaction.rs`) | task and conversation records | create, change of state, outcome | checked when a transaction settles |
| session (`session/session.rs`) | commit line (a fair lock), poison, closing future, commit and close listeners, loaded documents | `commit_with`, `snapshot`, `watch_doc`, `unload_documents`, `close` | storage below, scheduler and observers above |
| document observation (`observation.rs`, `documents.rs`) | per watch: the last value, a bounded queue of frames, a running mark | `advance`, `start`, `stop`, `terminate_watch`, `drain_watch` | told by the session's listeners; calls the watch's listener |
| chord (`chord/`) | a document value, its trackers and subscribers | `apply`, `diff`, `prepare`/`adopt`, encode, decode | documents and views |
| JSONL storage (`storage/jsonl/`) | `main.jsonl`, sidecar files, memory tables, next sequence number, poison | `open`, `commit`, `close` | the file system below, the session above |
| memory and SQLite storage | tables and indexes | `commit`, scans, `mint_id` | the session |
| harness facade, registry (`harness.rs`, `registry.rs`) | installed extensions and the published snapshot | install, replace, `close` | gives the scheduler its task definitions |
| inbox, submissions | `pi.inbox` document, submission records, waiters | `submit`, `abort`, `prepare_boundary`, `apply_boundary` | agent tasks; withdrawn by a cascade |
| agent, generation, tool, compaction tasks | checkpoints of each task kind, the slots of `pi.live`, a running tool's progress in memory | their handlers, the api a tool reports to, `Progress` (`output.rs`) | run by the scheduler; commit through the session |
| events, live, view, task graph | projections | publish, mount | commit listeners |
| context, prompt, output, usage, truncate | none, or a ledger document | pure assembly | tasks |
| environment, built-in tools | files, processes, watchers | I/O | tool tasks |
| pi-agent-core (`agent.rs`, `agent-loop.rs`) | transcript, steering and follow-up queues, active run with its abort signal and Notify | `prompt`, `continue_turn`, `steer`, `follow_up`, `abort`, `reset`, `wait_for_idle`, and the two loops of a run | pi-ai, tools, listeners |
| pi-ai, pi-telemetry, pi-tools, demo-agent | provider clients, spans, HTTP tools | requests | the network |

`tools.d/` holds the parity scripts and reports of the translation from
TypeScript and is no part of the running system.

What is hard here:

* **Interleaving around the line.**  Every commit runs under one fair lock, but
  the decisions between commits do not.  A kick can fall between the drain
  loop's last test and its end; a reconcile takes its snapshot of checks before
  it gets the line; an abort is committed while a handler runs.
* **Structured ownership.**  A task may settle only after the work below it,
  aborts run from the leaves up, and work may appear below an owner that is
  being cancelled.  Four writers (handlers, `abort`, drain, reconcile) keep this.
* **Failure.**  A commit may be rejected after tables in memory were changed.
  A crash may leave running records, failFast waits nobody checked, and files
  with half a commit in them.
* **Memory beside storage.**  The session answers snapshots off the line from
  documents it adopts one by one after storage took the commit; watches are
  entered, told and closed beside all that.
* **Execution across crashes.**  A tool call may have had effects when the
  process ends, its progress is published by throttled commits from several
  threads, and aborts reach it before, during and after it runs.
* **Liveness.**  Nothing polls: work that is ready is served only because every
  change leads to a kick, and a held outcome settles only because some reconcile
  is owed.

What makes each part correct, in a line each: the scheduler never loses a
wakeup, a cancellation, a failed member or a held outcome, and never settles a
task before its work; the session publishes what it committed, in order, and
nothing after a failure it cannot undo; a storage commit is atomic and what
succeeded survives; the inbox gives every submission to exactly one boundary or
withdraws it; a watch shows every change of its document; every tool call gets
one result and runs again only when that is declared safe; an agent loses no
message, asks the provider with its transcript, every call answered, and ends a
run whose answer failed.

## 2. The modules

| Module | What it is |
|---|---|
| `OwnershipTree` | The tree of tasks and conversations as constants (its fields never change after creation), the records, and the walks of `ownership.rs` as operators. The walk upwards is a recursive function; the assumption `WalksEnd` states its unfolding. |
| `TaskLifecycle` | Abstract: the changes of the task table one commit may make. This is what the scheduler promises. |
| `TaskScheduler` | Detailed: the scheduler with its coroutines, tables, failures and restarts. |
| `MCTaskScheduler` | Three small trees for the runs. |
| `JsonlStorage` | The files of the JSONL storage, with commits cut short, crashes and losses of power. |
| `MCJsonlStorage` | Two sidecars and three batches. |
| `Inbox` | What one commit may do to a conversation's transcript, its submission records and the queue that waits for a boundary, as operators on a transaction record. |
| `Submissions` | One conversation: admission, the run that answers the inputs, the generations it is handed through, the compactions beside it. EXTENDS `Inbox`. |
| `MCSubmissions` | Settings of the queues. |
| `ToolRound` | One round of tool calls: the generation that starts and awaits them, the task of each call, the slots, the throttled progress, crashes. |
| `MCToolRound` | The instance for its run. |
| `Observation` | The watch of a document: its queue of frames and its delivery, as operators on a record. |
| `Session` | The commit line, documents in memory beside storage, snapshots, watches, poison and close. EXTENDS `Observation`. |
| `MCSession` | A few threads of each kind. |
| `AgentLoop` | The in-memory agent of `pi-agent-core` with its callers and its two loops. |
| `MCAgentLoop` | Two threads, queue modes and limits. |
| `OwnershipTree_proofs`, `TaskLifecycle_proofs`, `TaskScheduler_proofs`, `JsonlStorage_proofs`, `Submissions_proofs`, `ToolRound_proofs`, `Session_proofs`, `AgentLoop_proofs` | Theorems and proofs, section 4. |

`TaskScheduler` EXTENDS `OwnershipTree` and instantiates `TaskLifecycle` as
`Lifecycle`: `INSTANCE TaskLifecycle WITH rec <- rec, convs <- convs`.  The
refinement mapping is the identity on the records and hides the rest.

### How TaskScheduler follows the code

* A **job on the line** (change callback, storage commit, commit listeners) is
  one action, because the line's lock is held throughout.  Everything a listener
  does, `SchedulerState::observe` and the kick of `TaskScheduler::observe`, is
  in the operator `Commit` that every committing action uses.
* **Drain** is three actions: the test of `dirty` (`DrainTop`), the reservation
  (`Reserve`) and the end of the loop with its second look at `dirty`
  (`DrainExit`), so that kicks fall between them.
* A **run** is a registered invocation with a place: "step" waits for the line
  to decide how to go on (`decide`), "handler" has task code running.  A step
  that ends the invocation leaves the task in `finishing` until its coroutine
  kicks (`FinishInvocation`).  `Gated` is the guard a handler's commit passes.
* **Reconcile** drops its flag and takes the cascade and the checks
  (`ReconcileStarts`), queues on the fair line, and marks and finalizes in one
  commit (`Reconcile`).  `job.ahead` is who can still get the line before it.
  One reconcile on the line at a time is a bound of the model.
* `finalize` writes over the live record and not over the candidate of the same
  commit, so a mark made in that commit is dropped: `Reconcile` does the same.
* **Failures**: `ReserveFails`, `StepFails` and `ReconcileFails` are commits
  storage rejects, with the state the code has changed before; `Restart` is a
  crash and the next `open`.  After a `seal` the host may still commit, which
  the session would refuse: more behaviours, never fewer.

Left out of it: memos, `sleep`, `inspect`, the waiters of settled tasks and of
idleness (the idle *test* and its reconcile are in), context expiry, and empty
wait sets.  Outcome "failed" stands for failed, faulted, aborted and orphaned;
`blocked` for every reason the registry gives not to run a record.

### How JsonlStorage follows the code

A commit is `Begin` (number and encoding), an `AppendSidecar` per file, an
`AppendMarker` and `Succeed` (memory tables).  Each append includes its flush;
`CommitFails` is an append or flush that fails or is cut short at any point, and
then the session commits no more until the directory is reopened
(`session.rs:673`).  A line that lacks its newline runs into the next append.
`Killed` keeps the files; `PowerLost` keeps what was flushed and any part of the
rest.  `Open` replays the markers; where the code gives up the directory stays
closed.  Deltas of a document, conversations, entries and submissions are data
of the marker or of the record and are not told apart; a batch the storage
rejects before the first append changes nothing.  A batch that passes the
validation and still cannot be applied to the memory tables is left out: the
trait trusts the session for that (`types.rs:1529`).  A failed stat of the main
file, which `open` takes for a missing file, is not modelled.

### How Inbox and Submissions follow the code

A handler's commit is one action: it builds a transaction record from `Begin`
with the code's own steps in their order (`AppendEntry`, `ApplyBoundary`,
`EndRun`, `StartRun`, `HandOver`, ...) and gives it to `Commit`, which is not
enabled when a change was staged that `apply_submission_change` refuses (the
transaction then fails as a whole).

| State | Code |
|---|---|
| `log` | the entries of the conversation; `head` is the entry's head marker, `sub` the submission it was made for |
| `sub`, `inbox` | the submission table and the `pi.inbox` document |
| `run`, `listed` | `pi.live`: the run (task and inputs), the compaction statuses |
| `gens`, `comps` | records of `pi.generation` and `pi.compaction` tasks with the checkpoint fields that decide something |

* **Admission** (`Admit`): a busy conversation queues, an idle one with a queue
  applies a final boundary behind it, an idle one without places at once.
* **Boundaries** (`ApplyBoundary`): writes first and then the chosen inputs; a
  write whose head lies before the active range is settled as stale; a queued
  reset makes the boundary final.  The two loops of the code are recursive
  functions: `Selected` goes through the queue, `Placing` through what was chosen.
* **A generation** prepares (`CompactFirst`, `Prepared`), requests (`Answer`,
  `StartToolRound`, `Overflow`, `Retry`, `GenerationFails`) and ends a tool round
  (`FinishToolRound`); `poll` is a request answered later.  What the model
  answers, what hooks and tools decide, and whether the context is over a
  threshold are nondeterministic.
* **The scheduler's part** is what section 2 shows of it: a marked task commits
  only in its abort handler, after its own work has settled (`Runs`, `Works`,
  `AbortGeneration`, `Cascade`), or is settled by the scheduler
  (`GenerationFaults`, `CompactionFaults`, by `settle_scheduler_outcome`).

All of this state is durable and each action is one commit, so a crash between
two commits only makes a phase start over: a stuttering step.  Left out: request
ids, in-memory waiters, the host's own `commit` (it may write anything), tool
slots and results (`ToolRound` has them), partial messages, and entries without
a head that belong to no submission and answer none.  A terminal record keeps
only what others read.

### How ToolRound follows the code

| State | Code |
|---|---|
| `round`, `task` | the records of the generation and of its `pi.tool` tasks; `replay` is the one in the checkpoint `execute` |
| `answers`, `slot` | tool results in the transcript, `LiveState.tools` |
| `run`, `prog` | memory: the invocation of each call, and its `Reported`, `written` and `ProgressState` |

A handler's commit is one action, with the scheduler's rules as guards
(`MayRun`: unmarked and no invocation; `AbortCall`: marked and none;
`AbortRound`: all tasks of the round settled).  `Intend` is the commit of the
intent and the start of the tool; `Return`, `Stopped` and `Settle` are the end
of `run`.  What the agent has registered under the name a call gives may change
at any time, so `Intend`, `Rerun` and `Interrupt` choose it.  `Progress` keeps
its locks: a report, `schedule`, `wake`, `flush`, the snapshot of a write and
its commit are one action each, by any number of threads (`marking`,
`flushing`).  The interval is abstract: a write goes at once or gets a timer.
The commit of a write and `finish` are one action.  When the invocation ends its
writes are forgotten, since the gate refuses them.  Left out: what the output
says and how it is cut, waiters of `details()`, tasks that a tool creates, and
tool tasks without a definition (orphaned).  `ran` counts a call as executed from
the commit before it, which can only be too early.

### How Session follows the code

`line` is the queue of the fair lock, its holder first.  An action ends where
the code awaits, takes another lock or reads a flag somebody else may change:
the test before the line (`CallCommit`) is not the wait for it
(`EnqueueCommit`); a commit prepares, is stored, is adopted document by
document, and tells its listeners one by one.  Values are a commit number and
the version that shapes them; a frame carries the value it leads to instead of
its operations, which is exact because `Observed` has the code's test of when
operations apply.  Merged: scheduling a watch with queueing its frame, the
tests of a snapshot with the cache lookup, `subscribe_commits` with the test of
`subscribe_close`, the clone of the listeners with the last adoption.
`Unload` runs between two jobs.  A watch that has ended forgets its values and
the reason of its end.
`before_close` has no effect on the session, and adoption has no error path in
the code.  Left out: `document_state` and its chord sources, reads on the line,
snapshots of the past, copies made by forks, a `close` of storage that fails.

An operation (`Ops`) is what a commit's draft of a document does, if it takes
one (migrate, set), and what becomes of the document (kept, retired, retired and
followed by a new one): the two are free of each other, as in `plan_document`.
`adopt` installs the draft of a document it knows before it evicts a retired one,
so a document that is changed and retired at once is adopted in two actions,
`InstallDraft` and `AdoptDocument`, and a snapshot may read memory between them.  `ReadCached` takes the document and reads its tracker in one step:
a thread held up between the two reads later what that tracker holds by then,
which is a newer content of the same document.

### How AgentLoop follows the code

An action ends at an await.  `Begin` takes the lock and tests again for an
active run, which `Prompt` or `Continue` have tested before; `FinishRun` is
`finish_run` with the `notify_waiters` after it; `TakeNotify` and `Await` are the
two halves of `wait_for_idle`.  A message is who gave it and a
number, an answer its turn, stop reason and calls.  `Emitted` is
`process_events`, from which the agent keeps its own transcript beside the
loop's context.  A batch of calls runs in sequence or in parallel; in parallel
the calls end in any order and their results are emitted in the order of the
answer.  `Panic` is a listener that panics, `DropRun` a caller that drops the
future of the run.

* **The mutex.**  The state of the agent is behind a std `Mutex` that is locked
  with `lock().unwrap()`.  A call that panics with the guard in its hand
  poisons it: `reset` and `continue_turn` while a run is active, `continue_turn`
  without a message (`Refused`), and the second of two callers that begin
  (`Begin`).  From then on nothing that locks is enabled (`Lock`): a caller
  on its way panics with its messages (`LockFails`), the run panics at its next
  lock, its failure handler as well, and `active_run` stays set with nobody
  inside (`RunLockFails`).  `prompt` with an active run and a continue that finds
  both queues empty panic without the guard (it is a temporary of the condition,
  or of the statement before), so they change nothing.
* **The context.**  `run_agent_loop` seeds it with a system message when the
  agent has a prompt or tools to declare (`Declares`, `Seed`), which is never
  emitted: what is sent is that message and the transcript.
* **Empty hands.**  A continuation tests the context again
  (`agent-loop.rs:336`): `FirstStep`.
* **The provider** is external and may answer a request after the abort like any
  other: no provider of the repository reads the signal.  Every answer beyond
  `MaxTurns` fails, which is the bound of a run.

Left out: changes of the declared tools after the seed, hooks that replace the
context, updates of running calls, `set_messages`, the proxy stream.

## 3. The runs

| Run | Instance | Properties and what they show |
|---|---|---|
| `abort` | parent and child, all handler commits; one abort or a definition that comes or goes | `OwnersOutliveWork`, `AbortsBottomUp`, `NoLostWakeup`, `AbortDecidesOutcome` |
| `mixed` | a background task owning a conversation with an ordinary task in it; two of abort_conversation and input; one rejected commit, one crash | `TypeOK`, `CascadesOwed`, `HeldOutcomesOwed`, `LifecycleSpec` (refinement) |
| `failfast` | owner and two interchangeable children, failFast waits, one crash | `FailFastOwed` |
| `served` | parent and child; one of abort, wait_for_idle and seal, under fairness | `ReadyWorkIsServed` (liveness) |
| `held` | parent and child, under fairness | `HeldOutcomesSettle` is **violated** |
| `files` | two sidecars, three commits, two crashes, tears | `TypeOK`, `AckedSurvive`, `MarkersResolve`, `SeqsAgree`, `CommitsNeverMix` |
| `reopen` | the same without tears | `ReopenShowsTheSame` is **violated** |
| `queue` | three submissions of every mode, one compaction, one tool round, one retry per run, aborts, withdrawals, faults, two settings of the queues | `TypeOK`, `RunOwnsPlacedInputs`, `QueueMatchesRecords`, `TranscriptMatchesRecords`, `NoAnswerAcrossReset`, `PlacedInOrder`, `HeadsNeverMoveBack`, `FollowUpsWaitForTheRunsEnd` |
| `tools` | two calls, offered or not, parallel or sequential; three reports, aborts, faults, two crashes | `TypeOK`, `UnsafeRunsOnce`, `RoundInStep`, `ProgressNotForgotten` |
| `session` | two writers, a snapshot, a watch with a backlog of one, a closer; one document, two versions (the watch reads with the older), two commits after the first | `TypeOK`, `MemoryFollowsStorage`, `SnapshotsFresh`, `WatchesFollow`, `NothingAfterTheEnd` |
| `agent` | two threads, two steered messages and one each other way, a system message, two successful answers, with two calls or none, two runs or faults (refused calls count) | `TypeOK`, `CallsAnswered`, `TranscriptIsContext`, `MessagesKept`, `FailureIsLast` |
| `idle` | two threads, one run, under fairness | `WaitersReturn` is **violated** |

Bounds.  The scheduler's rules speak of a task, its owner, its children and the
members of a wait.  Two tasks give every owner and child pair, three give two
siblings (a member that fails and one that lives).  `mixed` has the other links:
the edge of a conversation and a background boundary on the walk up.  A background
task *below* a cancelled owner is not in any run; the proofs cover it.  `MaxRequests` limits the calls of the
host; creating work and `resume` are not limited.  One or two calls suffice to
have an abort meet every phase of a run, and one rejected commit meets every
commit the scheduler makes by itself.  Storage: a reused number needs two
commits and a crash, a third commit gives the reader a choice of records, and
the three batches put a record at ordinal 0 or 1 of the same sidecar.

In `queue` three submissions put one input in a run and two more in the queue,
so that modes, settings and the order of a reset and another write matter; one
tool round puts a boundary inside a run (`MaxRounds`); the compaction may be
asked for by the host, run in the background or hold a generation up.

In `tools` two calls make one that is pending in a sequential round, or one that
ends while the other runs; a third report is what lets two writes of one call be
in flight; the second crash interrupts a replay.  In `session` the two writers
meet on the line while the document is adopted, the two commits after the first
retire and create it again or change it under both versions, and a backlog of
one is full with the second frame; the watch reads with the older version
(`WatchVersion`), which is the one that may be too old and that sees commits of the
other; a commit of several documents is not in the run.  In `agent` two answers of two calls are a batch, its results and a request
that sends them; the second thread prompts, continues or waits while the first
runs (in the second run only, `Waits`: the question of `idle` is the waiters').  Two steered messages have an order to keep and are taken one at a time,
by the polls of a run and by a continue; the follow-up queue is in mode "all"
and gets one message, so that the order of several in that mode is left to the
proof of `MessagesStay`, which is for both modes and any number.

`CHECK_DEADLOCK FALSE` everywhere: a scheduler or a conversation with nothing to
do is quiet, and a directory that cannot be opened stays closed.

`NoLostWakeup` is stated for schedulers none of whose commits was rejected: a
rejected reservation ends the drain loop, and the work waits for the next kick
(`exec.rs:771`).  `CascadesOwed` and `HeldOutcomesOwed` accept `cascade_pending`
as the record of the debt, because that is what a failed reconcile leaves.
The storage properties that read whole files are stated for files in which no
append stopped half-way: `DIFF.md:176` says a torn tail cannot be opened.

Symmetry is used in `failfast`, `session` and `agent` (safety only).

Fairness (`FairSpec`): weak fairness of the drain loop's, the reconcile's and
each run's own steps, and of task code returning.  These are coroutines the
runtime polls once spawned, waiting on a fair lock.  Nothing is asked of the
host, of storage, of the registry or of crashes.  `AgentLoop` has weak fairness
of the run's next step and of each caller's: both are futures somebody polls; a
provider and a tool that are asked do answer.

### What the violations say

* **`held`**: a completed task whose work has drained may stay in `completing`
  for ever.  `SchedulerState::schedule_reconcile` (`state.rs:146`) sets the flag
  and reports it; `TaskScheduler::observe` then calls its own
  `schedule_reconcile` (`exec.rs:806`), which sees the flag set and returns, so
  no coroutine is spawned, and none ever will be.
* **`reopen`**: a commit cut short between sidecar and marker leaves a record
  with a number the next process uses again; the lookup takes the first match
  (`jsonl/storage.rs:215`), so a later open replays the data of the commit that
  never happened.
* **`idle`**: `wait_for_idle` (`agent.rs:457`) clones the run's Notify under the
  lock and calls `notified()` after it; the run ends with `notify_waiters`, which
  leaves no permit, so a caller that is between the two never returns.

### Weaknesses the models have steps for and no run claims

* A check noted for a failFast wait is applied to a later allSettled wait of the
  same task, because the reconcile (`scheduler/exec.rs:876`) does not look at the
  policy; `types.rs:367` says such a wait lasts until all have ended.
* Two tasks that wait for each other are not refused (`scheduler/exec.rs:1669`).
* A run that fails or is aborted ends without a boundary (`generation.rs:396`), so
  a follow-up behind it stays until the host submits something else;
  `harness/types.rs:99` says it is executed when the current run has ended.
* `Progress::flush` (`output.rs:717`) does not ask whether a write is in flight.
  With three reports two writes may be: the one that commits last may carry the
  older output, diagnostics are added twice to the slot, and `stop` may return
  before both have ended.  `output.rs:590` says that at most one is in flight.
  The result of the call, built from memory, is not touched by it; a result built
  from the slot after an abort or a crash is.
* A frame that comes between the last pop of a delivery and the end of its
  running mark waits for the next change (`session/observation.rs:555`).
* A watch may pass the test of `subscribe_close` (`session/session.rs:961`) before
  the session takes its close listeners and enter itself afterwards: nothing
  ends it.
* The future of `close` is polled only while a caller waits for it
  (`session/session.rs:567`); its job on the line blocks those behind it.
* A faulted call has no result in the transcript (`live.rs:225`): `RoundInStep`
  excepts it.
* A torn record in a sidecar no marker refers to lets the directory open
  (`jsonl/storage.rs:249` loads the sidecars of the markers only).  The next
  commit that appends to it runs into the torn line and succeeds, and then the
  directory cannot be opened any more, because a sidecar with a bad line is
  refused whole (`jsonl/storage.rs:327`).  `MarkersResolve` says nothing of such
  a sidecar; `DIFF.md:176` records that a torn tail cannot be opened.
* A queued write, or a summary, whose head lies behind the input of the run cuts
  that input off, and the run still answers it: `NoAnswerAcrossReset` speaks of
  resets and other entries that begin a context with themselves.
* While a commit that changed a document and retired it at once is adopted,
  memory holds what the draft made of it (`session/transaction.rs:1264`), which
  storage never had as the current content.  A snapshot off the line may return
  it although it is asked for the committed value: `SnapshotsFresh` excepts
  exactly that, and TLC finds it without the exception.
* A call that the agent refuses while it runs poisons its mutex (`agent.rs:463`,
  `agent.rs:508`, `agent.rs:590`): the running run breaks, and the agent can not be
  used again, where the messages of the panics tell callers to wait.
* An aborted run may go on asking for as long as tools, steering and follow-ups
  feed it: the loop hands the signal to the provider (`agent-loop.rs:632`) and
  does not test it between turns, and no provider of the repository reads it.

## 4. The proofs

All are for every tree, every set of calls, threads and versions, and every
bound.  A theorem about a run's property is `Spec => []P`: an invariant that
implies `P`, is kept by every action, and was checked by TLC before it was proved.

**Scheduler.**

* `TaskScheduler_proofs!TypeCorrect`: `Spec => []TypeOK`, one step per action.
* `AbortsDecide` (`AbortDecidesOutcome`, an action property): once a record is
  marked, the run that has it neither settles it as completed nor parks it.
  `WakeupsAreKept` (`NoLostWakeup`): a kick while the loop is not at its end sets
  `dirty`, and one that finds no loop spawns it.
* `TaskScheduler_proofs!Refinement`: `Spec => LifecycleSpec`, the safety
  refinement of the contract, failures and restarts included.  The invariant it
  needs beyond types is `OutcomesMatch` (a record holds an outcome exactly when
  it is completing or terminal).  The hard step is `Reconcile`: it settles
  several held tasks in one commit, so that each is allowed only if all live
  work it owns settles in the same commit; `OrdinaryOwnersNest` (the walk
  upwards is transitive) shows it.  That the tree has no cycle is not needed.
* `OwnersOutliveTheirWork` and `SettledForGood` follow from the contract's own
  theorems in `TaskLifecycle_proofs` (`OwnersOutlive`, `TerminalFinal`) through
  the refinement.
* `BottomUp`: `Spec => []AbortsBottomUp`, by the invariant `AbortsClosed`: a
  task with a registered abort handler is marked or terminal and has no live
  child; a marked owner accepts no work, so none can come.
* The debts, `HeldOutcomesAreOwed`, `CascadesAreOwed`, `FailFastsAreOwed`.  All
  use one classification of the steps (`StepsTold`, `ReconcileTold`): a step
  leaves records and lists alone, or is a commit the listener hears of
  (`Heard`), or is one of four that move the lists.  What is left per debt is
  what a commit may do to the records (`RecordsKept`).  `FailFastOwed` is not
  inductive alone: it needs that the members of a wait exist, because a member
  that is created after its failure was noted would be missed, and that checks
  are carried only by a reconcile that is queued.

**Storage.**

* `AckedHold` (`AckedSurvive`), `MarkersHold` (`MarkersResolve`) and `SeqsHold`
  (`SeqsAgree`), after `ShapesHold` (the shapes of the files).  All rest on
  lemmas about the file system: an append adds a line or spoils the last one, a
  loss of power keeps the flushed prefix.
  `AckedKept` adds that the acknowledged prefix is flushed and that between the
  main append and the memory step all of it is.  `RecordsKept` says which records
  a commit in progress already has, so that the marker follows its records.
  `SeqsKept` needs that only the last line can be a bad one: the next append then
  runs into it, so a number given by a process with a spoiled file never reaches
  a line that can be read.
* `NeverMixed` (`CommitsNeverMix`), by `NumbersInv`: the numbers of markers rise,
  a number belongs to one commit among the markers and records that can be read,
  and a commit that has no marker yet is newer than all that have.
  `TypeCorrect` adds what a replay leaves in the memory tables.

**Submissions.**

* A commit is a transaction, so the invariant is a predicate of transactions,
  `Consistent`, and the same predicate of the state, `Inv`.  Its parts: the
  transcript and the records (`Written`), the queue, references between tasks
  (`WorkRefs`), the run (`RunShape`, `RunOpen`: no reset or other head of its own
  since its inputs were placed) and a compaction that a generation waits for
  (`Waits`).  In the middle of a commit less holds: a boundary leaves inputs
  that no run has yet (`Boundary`, `Between`), and the end, the hand-over or the
  start of a run makes the transaction consistent again.  Every operator of
  `Inbox` has a lemma that says what it does to a transaction; the proof of an
  action applies them in the order of the code.
* What the two recursive functions compute is proved by the least number for
  which it would fail (`LeastOf`), once each: `PlacingSteps`, `SelectedIs`.
* Seven invariants follow at once (`TypeCorrect`, `RunOwnsItsInputs`,
  `QueueIsRecords`, `TranscriptIsRecords`, `AnswersStayInContext`,
  `ModesKeepTheirOrder`, `HeadsOnlyRise`).  `NoAnswerAcrossReset` is the one that
  needs most of it: `RunOpen` carries it from the boundary to the answer,
  over every commit between.
* `FollowUpsWait` (`FollowUpsWaitForTheRunsEnd`, an action property) says of each
  transaction what it places (`Waited`).

**Tool rounds.**

* `TypeCorrect`; `InStep` (`RoundInStep`), by `RoundInv`: what the state of a
  task implies for result, slot and invocation, in each phase of the round;
  `UnsafeOnce` (`UnsafeRunsOnce`), by `ReplayInv`: a call that is recorded as
  safe to replay, or has run twice, has run only safe tools, and one without an
  intent on record has run nothing; `NotForgotten` (`ProgressNotForgotten`), by
  `PendingInv`: a write is in flight only while its job exists.

**Session.**

* One fact is behind everything: of the jobs on the line only the first has
  taken a step (`LineInv`).  `Base` adds the types, what a writer's plan implies
  for storage (`PlanInv`), and that names are real.  From it `TypeCorrect` and
  `NothingAfterTheEndHolds` (`NothingAfterTheEnd`, an action property).
* `MemoryInv`: a cached document is that of the last commit, or of the one before
  while it is being adopted, or what the commit under adoption gave a document it
  also retires (`RetiredChanged`, which lasts until that document is evicted,
  `RetiredStays`), and after a poisoning of some commit not published over.  It
  gives `MemoryIsStorage` (`MemoryFollowsStorage`) and, with "no reader
  counts from a commit that is not published", `SnapshotsAreFresh`.
* `FollowInv` gives `WatchesFollowDocuments` (`WatchesFollow`): every watch
  follows its document up to the commit it was told of, its frames lead from one
  to the next, and a watch that is being attached has its document in memory.

**In-memory agent.**

* `TalkInv` is what the loop and the agent know of each other: which fields a
  run may have filled in which phase (`PhaseInv`), that the executing run is
  inside exactly one caller and is the active one (`RunnerInv`), and `SyncInv`:
  what separates the agent's transcript from the loop's context in each phase,
  the partial answer while it streams, the results while a batch lasts.  It gives
  `TranscriptFollows` (`TranscriptIsContext`), the seeded message in front.
  A run the poisoned mutex breaks is a run that is dropped (`Lost`).
* `FailuresEndRuns` (`FailureIsLast`), by `FailInv`: an answer that failed is the
  last of the run, the run knows that it failed, and is between that answer and
  its end.
* `TypeCorrect` needs two facts more, since a message is typed by the turns taken
  so far and the limits of what callers give: `TurnInv` (a request comes before
  its answer, a pending call is of a turn that began) and `GivenInv`.
* `MessagesStay` (`MessagesKept`).  One lemma (`Moves`) tells what any step does
  to messages: a caller gives one, a drain splits a queue, the loop polls,
  injects or tells what it carries, or somebody throws messages away.  On it
  stand `PlacesInv`, every message that was given is in one place or dropped, and
  `OrderInv`, what the run took came before what it carries, and that before what
  still waits.
* `EveryCallIsAnswered` (`CallsAnswered`).  `BatchInv`: the first calls of the
  batch are done and their results are those of the answer at the end of the
  context, although the futures of a parallel batch end in any order.
  `BlockInv`: every result of the transcript has its answer and the results
  before it right in front of it, and unless the run is aborted every answer
  before the open one is answered in full.  That the answers of two requests
  differ (`Distinct`) is what makes "its answer" one.

**Assumptions.**  The typing of each module's constants, `WalksEnd` (the
unfolding of the recursive function that walks up the tree), the shape of the
batches of the storage, and that a session has a version, a first commit and
room for one frame (`SessionAssumption`; `MAX_PENDING` and a host's version are
positive in the code, and the first commit creates the session).  TLC evaluates
them in every run.  `SettledForGood` is not checked by a run of its own:
`LifecycleSpec` implies it.

**Only model-checked.**  Liveness: `ReadyWorkIsServed`, for which fairness and
ENABLED would have to be reasoned about, out of this prover's reach.  The
properties of the runs that expect a violation (`HeldOutcomesSettle`,
`WaitersReturn`, `ReopenShowsTheSame`, section 3) are false of the code.  Every other property
of a run is the subject of a theorem.

## 5. Plan

1. Done: scheduler, its contract and the refinement; JSONL storage; submissions;
   the session; a tool round; the in-memory agent: modelled, checked, and their
   invariants and action properties proved.
2. Not done: that a placed input settles, under fairness; the waiters of
   submissions (`submissions.rs:228`); a failed stat of the main file; the
   scheduler's assumptions about the line as a refinement by `Session`; document
   operations and truncation against a reference definition.

Not planned: provider clients, HTTP tools, telemetry, the environment and the
built-in tools (I/O and conversion), rendering and projections that no other
part reads.
