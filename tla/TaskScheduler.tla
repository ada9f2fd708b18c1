--------------------------- MODULE TaskScheduler ---------------------------
(***************************************************************************)
(* The durable task scheduler of pi-durable (harness/scheduler/exec.rs,    *)
(* state.rs, reserve.rs) over the task table of one session.               *)
(*                                                                         *)
(* A step is one job on the session line: the change callback, the storage *)
(* commit and the commit listeners run while the line's lock is held, so   *)
(* they are one action.  What the scheduler does off the line (the drain   *)
(* loop's flag tests, the reconcile coroutine taking its snapshot, a run's *)
(* last kick, resume, seal) are actions of their own.  A crash loses every *)
(* variable but rec, convs and queued.                                     *)
(***************************************************************************)
EXTENDS OwnershipTree

CONSTANTS Calls,          \* the operations the host calls besides creating work
          TaskCode,       \* the kinds of commit the handlers make
          MaxRequests,    \* bound: calls of the host of those
          MaxRejections,  \* bound: commits of the scheduler that storage rejects
          MaxCrashes      \* bound: crashes, each followed by a restart

ASSUME InputsAreKnown ==
  /\ Calls \subseteq {"abort", "abortConversation", "waitForIdle", "queueInput",
                       "register", "seal"}
  /\ TaskCode \subseteq {"progress", "waitAllSettled", "waitFailFast", "settle"}

ASSUME BoundsAreNaturals == {MaxRequests, MaxRejections, MaxCrashes} \subseteq Nat

VARIABLES
  \* durable
  rec,        \* task records; the live mirror is Live(rec) while the process runs
  convs,      \* conversation records
  queued,     \* conversations with a queued input submission
  \* the scheduler's tables and flags (SchedulerState)
  known,      \* edges: conversations whose owner edge is loaded
  checks,     \* fail_fast_checks
  cascade,    \* cascade_pending
  flag,       \* reconcile_scheduled
  enabled,
  closing,
  dirty,
  \* coroutines
  drain,      \* the drain loop; draining iff it is not "none"
  spawned,    \* a reconcile coroutine exists that has not taken its snapshot
  job,        \* the reconcile job queued on the line
  inv,        \* registered invocations
  finishing,  \* tasks with a coroutine that ended its invocation and has yet to kick
  \* the registry
  blocked,    \* tasks whose kind has no definition that fits the record
  stale,      \* invocations bound to a definition the registry no longer has
  \* counters of the bounds
  requests, rejections, crashes

durable   == <<rec, convs, queued>>
tables    == <<known, checks, cascade, flag>>
switches  == <<enabled, closing>>
drainer   == <<dirty, drain>>
reconcile == <<spawned, job>>
running   == <<inv, finishing>>
world     == <<blocked, stale>>
counters  == <<requests, rejections, crashes>>
vars == <<rec, convs, queued, known, checks, cascade, flag, enabled, closing,
          dirty, drain, spawned, job, inv, finishing, blocked,
          stale, requests, rejections, crashes>>

\* An invocation: run or abort mode, and where its coroutine stands.  "step": it
\* waits for the line to decide how to go on; "handler": task code is running.
\* result is what the last phase did: "first" before any phase, "progress" if
\* the checkpoint moved, "none" if it did not or the phase erred.
NoInvocation == [mode |-> "none", pc |-> "step", result |-> "first"]
Invocation   == [mode : {"none", "run", "abort"}, pc : {"step", "handler"},
                 result : {"first", "progress", "none"}]
Invoked(t)   == inv[t].mode # "none"

\* The line is a fair lock.  A queued reconcile has taken its cascade and checks;
\* only the coroutines in ahead can have queued a job before it.  (Bound: one
\* reconcile on the line at a time.)
Loop  == "drain"
Job   == [queued : BOOLEAN, cascade : BOOLEAN, checks : SUBSET Task,
          ahead : SUBSET (Task \cup {Loop})]
NoJob == [queued |-> FALSE, cascade |-> FALSE, checks |-> {}, ahead |-> {}]

\* Coroutine x has the line for one job, and anything it queues next comes after
\* the reconcile.
Leaves(x) == job' = [job EXCEPT !.ahead = @ \ {x}]
Turn(x)   == (job.queued => x \in job.ahead) /\ Leaves(x)

\* The type invariant: the tables hold tasks and conversations, only existing
\* conversations have queued input, and the bounds are kept.
TypeOK ==
  /\ rec \in [Task -> Record]
  /\ convs \subseteq Conversation
  /\ queued \subseteq convs
  /\ known \subseteq Conversation
  /\ checks \subseteq Task
  /\ {cascade, flag, enabled, closing, dirty, spawned} \subseteq BOOLEAN
  /\ drain \in {"none", "top", "reserve", "exit"}
  /\ job \in Job
  /\ inv \in [Task -> Invocation]
  /\ finishing \subseteq Task
  /\ blocked \subseteq Task
  /\ stale \subseteq Task
  /\ requests \in 0..MaxRequests
  /\ rejections \in 0..MaxRejections
  /\ crashes \in 0..MaxCrashes
-----------------------------------------------------------------------------
\* Storage rejects a batch of the scheduler, bounded.
Rejected == rejections < MaxRejections /\ rejections' = rejections + 1

\* kick: mark the drain loop dirty and start it unless it runs already.
KickIf(wanted, on) ==
  /\ dirty' = (dirty \/ wanted)
  /\ drain' = IF wanted /\ drain = "none" /\ on /\ ~closing THEN "top" ELSE drain

Kick == KickIf(TRUE, enabled)

\* Mutant: a failure that comes after the wait began is overlooked.
NoHit(written, next) == {}

\* observe's second loop: failFast waits one of whose members has now failed.
FailFastHit(written, next) ==
  LET failed == {t \in written : FailedOutcome(next[t]) /\ ~FailedOutcome(rec[t])}
  IN  {t \in Live(next) : /\ next[t].status = "waiting" /\ next[t].failFast
                          /\ next[t].on \cap failed # {}}

\* Mutant: the cascade that ran already is taken to have reached everything.
NothingNewBelow(written, next) == {}

\* observe's last loop: ordinary work written below a cancelled owner, even if
\* the cascade of that owner has run.
WrittenBelowCancelled(written, next) ==
  {t \in written \ Background : ~next[t].mark /\ BelowCancelled(next, ParentOf(t))}

\* SchedulerState::observe, the commit listener: the records in written go from
\* rec to next, the conversations in opened and the input submissions in
\* submitted are new; loaded are the edges the job itself had loaded.
Observe(written, next, opened, submitted, loaded) ==
  LET edges  == loaded \cup opened
      gone   == {t \in written : next[t].status = "terminal"}
      here   == written \ gone
      held   == {t \in here : next[t].status = "completing"
                                /\ rec[t].status # "completing"}
      failFast == {t \in here : next[t].status = "waiting" /\ next[t].failFast
                                  /\ rec[t].status # "waiting"}
      hit    == FailFastHit(written, next)
      lost   == {t \in here : ~ChainKnown(ParentOf(t), edges)}
      cascades == \/ \E t \in here : next[t].mark /\ ~rec[t].mark
                  \/ \E t \in held : CancellationIntent(next[t])
                  \/ \E c \in submitted : ~ChainKnown(c, edges) \/ BelowCancelled(next, c)
                  \/ WrittenBelowCancelled(here \ lost, next) # {}
      wanted == \/ gone # {} \/ held # {} \/ failFast # {} \/ hit # {} \/ lost # {}
                \/ cascade \/ cascades
  IN  /\ known' = edges
      /\ checks' = (checks \ gone) \cup failFast \cup hit
      /\ cascade' = (cascade \/ cascades)
      \* schedule_reconcile: the flag is set here, and the executing half then
      \* finds it set and spawns nothing.
      /\ flag' = (flag \/ (wanted /\ ~closing))

\* A commit of the running process, with everything its listeners do.
Commit(written, next, opened, submitted, loaded) ==
  /\ rec' = next
  /\ convs' = convs \cup opened
  /\ Observe(written, next, opened, submitted, loaded)
  /\ KickIf(written # {}, enabled)

\* load_scopes: every edge above a live task, and above a queued input if asked.
Loaded(withQueued) ==
  known \cup (UNION {ChainOf[ParentOf(t)] : t \in Live(rec)})
        \cup (IF withQueued THEN UNION {ChainOf[c] : c \in queued} ELSE {})

\* Mutant: an outcome settles without a look at the owned work.
FinishAtOnce(recs, t, outcome) == WithOutcome(rec[t], "terminal", outcome)

\* terminate and the Terminal case of commit_state: the outcome is held back
\* while the records the commit leaves, recs, hold live ordinary work t owns.
Finish(recs, t, outcome) ==
  WithOutcome(rec[t], IF OwnedLive(recs, t) = {} THEN "terminal" ELSE "completing",
              outcome)

\* Mutant: a marked task does not wait for the work it owns.
WaitingOnMembersOnly(t) ==
  IF rec[t].status = "waiting" /\ ~rec[t].mark THEN rec[t].on \cap Live(rec) ELSE {}

\* waiting_on: a marked task waits for the work it owns, an unmarked one for the
\* live members of its wait.
WaitingOn(t) == IF rec[t].mark THEN OwnedLive(rec, t)
                ELSE IF rec[t].status = "waiting" THEN rec[t].on \cap Live(rec)
                ELSE {}
-----------------------------------------------------------------------------
(* Work arrives.                                                           *)

\* A call of the host, bounded.
Request(call) == call \in Calls /\ requests < MaxRequests /\ requests' = requests + 1

\* create_task in a commit that also leaves the records next: the checks of
\* create_task and of validate_owners on the final candidates.
MayCreate(new, next) ==
  \A t \in new :
    /\ rec[t].status = "absent"
    /\ Home[t] \in convs
    /\ Owner[t] # NoTask => /\ next[Owner[t]].status \in {"pending", "running", "waiting"}
                            /\ ~next[Owner[t]].mark

WithNew(recs, new) == [t \in Task |-> IF t \in new THEN WithState(Absent, "pending")
                                      ELSE recs[t]]

\* A commit of the host creates a task.
CreateTask(t) ==
  LET next == WithNew(rec, {t}) IN
  /\ MayCreate({t}, next)
  /\ Commit({t}, next, {}, {}, known)
  /\ UNCHANGED <<queued, switches, reconcile, running, world, counters>>

\* A commit of the host creates a conversation.
CreateConversation(c) ==
  /\ c \notin convs
  /\ ConversationOwner[c] # NoTask =>
       /\ rec[ConversationOwner[c]].status \in {"pending", "running", "waiting"}
       /\ ~rec[ConversationOwner[c]].mark
  /\ Commit({}, rec, {c}, {}, known)
  /\ UNCHANGED <<queued, switches, reconcile, running, world, counters>>

\* Mutant: an input is accepted for a conversation that does not exist.
QueueInputAnywhere(c) ==
  /\ c \notin queued
  /\ Request("queueInput")
  /\ queued' = queued \cup {c}
  /\ Commit({}, rec, {}, {c}, known)
  /\ UNCHANGED <<switches, reconcile, running, world, rejections, crashes>>

\* An input submission is queued in a conversation.
QueueInput(c) ==
  /\ c \in convs \ queued
  /\ Request("queueInput")
  /\ queued' = queued \cup {c}
  /\ Commit({}, rec, {}, {c}, known)
  /\ UNCHANGED <<switches, reconcile, running, world, rejections, crashes>>
-----------------------------------------------------------------------------
(* The public operations.                                                  *)

\* resume
Resume ==
  /\ ~enabled
  /\ enabled' = TRUE
  /\ KickIf(TRUE, TRUE)
  /\ UNCHANGED <<durable, tables, closing, reconcile, running, world, counters>>

\* abort: a task nothing runs and no definition fits is settled at once, any
\* other live task is marked.
Abort(t) ==
  LET orphan == /\ ~Invoked(t)
                /\ rec[t].status # "completing"
                /\ OwnedLive(rec, t) = {}
                /\ t \in blocked
      next == [rec EXCEPT ![t] = IF orphan THEN Finish(rec, t, "failed") ELSE Marked(@)]
  IN  /\ Request("abort")
      /\ t \in Live(rec)
      /\ orphan \/ ~rec[t].mark
      /\ Commit({t}, next, {}, {},
                IF ~Invoked(t) /\ rec[t].status # "completing" THEN Loaded(FALSE) ELSE known)
      /\ UNCHANGED <<queued, switches, reconcile, running, world,
                     rejections, crashes>>

\* abort_conversation: every live task in the conversation's scope is marked and
\* the queued inputs in scope are withdrawn; background asks for background work too.
AbortConversation(c, background) ==
  LET reached == {t \in Live(rec) : /\ background \/ t \notin Background
                                    /\ InScope(ParentOf(t), c, background)}
      marks == {t \in reached : ~rec[t].mark}
      gone  == {q \in queued : InScope(q, c, background)}
      next  == [t \in Task |-> IF t \in marks THEN Marked(rec[t]) ELSE rec[t]]
  IN  /\ Request("abortConversation")
      /\ c \in convs
      /\ marks # {} \/ gone # {}
      /\ queued' = queued \ gone
      /\ Commit(marks, next, {}, {}, Loaded(TRUE))
      /\ UNCHANGED <<switches, reconcile, running, world, rejections, crashes>>

\* wait_for_idle on a conversation that is not idle asks for a reconcile.
WaitForIdle(c) ==
  /\ Request("waitForIdle")
  /\ c \in convs
  /\ ~closing
  /\ ~flag
  /\ ~Idle(rec, known, c)
  /\ flag' = TRUE
  /\ spawned' = TRUE
  /\ UNCHANGED <<durable, known, checks, cascade, switches, drainer, job,
                 running, world, rejections, crashes>>

\* seal, the session's close listener.
Seal ==
  /\ ~closing
  /\ Request("seal")
  /\ closing' = TRUE
  /\ UNCHANGED <<durable, tables, enabled, drainer, reconcile, running, world,
                 rejections, crashes>>

\* The registry publishes other definitions for the tasks in replaced, none that
\* fits for those in fitless; its listener kicks.
RegistryChange(fitless, replaced) ==
  /\ Request("register")
  /\ (fitless \ blocked) \cup (blocked \ fitless) \subseteq replaced
  /\ replaced # {}
  /\ blocked' = fitless
  /\ stale' = stale \cup {t \in replaced : Invoked(t)}
  /\ IF closing THEN UNCHANGED <<dirty, drain>> ELSE Kick
  /\ UNCHANGED <<durable, tables, switches, reconcile, running,
                 rejections, crashes>>
-----------------------------------------------------------------------------
(* The drain loop.                                                         *)

\* The head of the loop.
DrainTop ==
  /\ drain = "top"
  /\ IF dirty /\ enabled /\ ~closing
       THEN /\ drain' = "reserve"
            /\ dirty' = FALSE
       ELSE /\ drain' = "exit"
            /\ UNCHANGED dirty
  /\ UNCHANGED <<durable, tables, switches, reconcile, running, world, counters>>

\* What reserve settles and what it starts.
Reservable == {t \in Live(rec) : /\ ~Invoked(t)
                                 /\ WaitingOn(t) = {}
                                 /\ rec[t].status # "completing"}
Orphans    == {t \in Reservable \cap blocked : rec[t].mark}
Startable  == Reservable \ blocked

\* reserve: one commit makes every startable task running and registers its
\* invocation; a marked task no definition fits is settled instead.
Reserve ==
  LET writes == Orphans \cup {t \in Startable : rec[t].status # "running"}
      next == [t \in Task |-> IF t \in Orphans THEN Finish(rec, t, "failed")
                              ELSE IF t \in writes THEN WithState(rec[t], "running")
                              ELSE rec[t]]
  IN  /\ drain = "reserve"
      /\ Turn(Loop)
      /\ IF ~enabled \/ closing
           THEN /\ drain' = "top"
                /\ UNCHANGED <<durable, tables, dirty, running, world>>
           ELSE /\ rec' = next
                /\ Observe(writes, next, {}, {}, Loaded(FALSE))
                /\ dirty' = (dirty \/ writes # {})
                /\ drain' = "top"
                /\ inv' = [t \in Task |->
                             IF t \in Startable
                             THEN [mode |-> IF rec[t].mark THEN "abort" ELSE "run",
                                   pc |-> "step", result |-> "first"]
                             ELSE inv[t]]
                /\ stale' = stale \ Startable
                /\ UNCHANGED <<convs, queued, finishing, blocked>>
      /\ UNCHANGED <<switches, spawned, counters>>

\* reserve when storage rejects the batch: the invocations are taken back and
\* the loop ends with the error.
ReserveFails ==
  /\ drain = "reserve"
  /\ Turn(Loop)
  /\ enabled /\ ~closing
  /\ Orphans \cup {t \in Startable : rec[t].status # "running"} # {}
  /\ Rejected
  /\ known' = Loaded(FALSE)
  /\ drain' = "exit"
  /\ UNCHANGED <<durable, checks, cascade, flag, switches, dirty, spawned,
                 running, world, requests, crashes>>

\* Mutant: the loop ends without a last look at dirty.
DrainExitForGood ==
  /\ drain = "exit"
  /\ drain' = "none"
  /\ UNCHANGED <<durable, tables, switches, dirty, reconcile, running, world, counters>>

\* drain: draining is dropped and dirty read under one lock, and a dirty loop is
\* kicked again.
DrainExit ==
  /\ drain = "exit"
  /\ drain' = IF dirty /\ enabled /\ ~closing THEN "top" ELSE "none"
  /\ UNCHANGED <<durable, tables, switches, dirty, reconcile, running, world, counters>>
-----------------------------------------------------------------------------
(* Invocations.                                                            *)

\* end, and the coroutine leaves with its last kick pending.
End(t) == /\ inv' = [inv EXCEPT ![t] = NoInvocation]
          /\ finishing' = finishing \cup {t}

\* decide: how a run goes on when it has the line.
MustEnd(t)   == rec[t].status # "running" \/ closing
               \/ (inv[t].mode = "run" /\ rec[t].mark)
MustFault(t) == ~MustEnd(t) /\ \/ inv[t].mode = "run" /\ inv[t].result = "none"
                               \/ inv[t].mode = "abort" /\ inv[t].result # "first"
Rebinds(t)   == ~MustEnd(t) /\ ~MustFault(t) /\ inv[t].mode = "run"
               /\ inv[t].result # "first" /\ t \in stale /\ t \notin blocked

\* A step that ends the invocation and writes nothing.
StepEnds(t) ==
  /\ Invoked(t) /\ inv[t].pc = "step"
  /\ IF inv[t].mode = "abort" /\ inv[t].result = "first"
       THEN (t \notin Live(rec) \/ closing) /\ Leaves(t)   \* run_abort, off the line
       ELSE MustEnd(t) /\ Turn(t)
  /\ End(t)
  /\ UNCHANGED <<durable, tables, switches, drainer, spawned, world, counters>>

\* A step that goes on into the handler.
StepContinues(t) ==
  /\ Invoked(t) /\ inv[t].pc = "step"
  /\ IF inv[t].mode = "abort"
       THEN inv[t].result = "first" /\ t \in Live(rec) /\ ~closing /\ Leaves(t)
       ELSE ~MustEnd(t) /\ ~MustFault(t) /\ ~Rebinds(t) /\ Turn(t)
  /\ inv' = [inv EXCEPT ![t].pc = "handler", ![t].result = "none"]
  /\ UNCHANGED <<durable, tables, switches, drainer, spawned, finishing, world, counters>>

\* A step that faults the task, or hands it to another definition.
StepWrites(t) ==
  /\ Invoked(t) /\ inv[t].pc = "step"
  /\ MustFault(t) \/ Rebinds(t)
  /\ Turn(t)
  /\ End(t)
  /\ LET next == [rec EXCEPT ![t] = IF MustFault(t) THEN Finish(rec, t, "failed")
                                    ELSE WithState(@, "pending")]
     IN  Commit({t}, next, {}, {}, IF MustFault(t) THEN Loaded(FALSE) ELSE known)
  /\ UNCHANGED <<queued, switches, spawned, world, counters>>

\* The same step when storage rejects the batch: the invocation has ended and
\* the record is what it was.
StepFails(t) ==
  /\ Invoked(t) /\ inv[t].pc = "step"
  /\ MustFault(t) \/ Rebinds(t)
  /\ Turn(t)
  /\ Rejected
  /\ End(t)
  /\ known' = IF MustFault(t) THEN Loaded(FALSE) ELSE known
  /\ UNCHANGED <<durable, checks, cascade, flag, switches, drainer, spawned, world,
                 requests, crashes>>

\* Mutant: a coroutine that ends does not kick.
FinishQuietly(t) ==
  /\ t \in finishing
  /\ finishing' = finishing \ {t}
  /\ UNCHANGED <<durable, tables, switches, drainer, reconcile, inv, world, counters>>

\* run_reservation, after the invocation.
FinishInvocation(t) ==
  /\ t \in finishing
  /\ finishing' = finishing \ {t}
  /\ Kick
  /\ UNCHANGED <<durable, tables, switches, reconcile, inv, world, counters>>

\* Mutant: gated does not look at the mark.
GatedIfMarked(t) == /\ Invoked(t) /\ inv[t].pc = "handler"
                    /\ ~closing
                    /\ rec[t].status = "running"

\* gated: what lets a commit of task code through.
Gated(t) == /\ Invoked(t) /\ inv[t].pc = "handler"
            /\ ~closing
            /\ rec[t].status = "running"
            /\ inv[t].mode = "run" => ~rec[t].mark

\* A handler commits a running state, and with it the tasks in new.
HandlerProgress(t, new, moved) ==
  LET next == WithNew(rec, new) IN
  /\ Gated(t) /\ Turn(t)
  /\ MayCreate(new, next)
  /\ inv' = [inv EXCEPT ![t].result = IF moved THEN "progress" ELSE "none"]
  /\ Commit(new \cup {t}, next, {}, {}, known)
  /\ UNCHANGED <<queued, switches, spawned, finishing, world, counters>>

\* A handler commits a wait, and with it the tasks in new (validate_wait).  A
\* wait on nothing, which the next reserve picks up like a pending task, is left out.
HandlerWait(t, new, on, failFast) ==
  LET next == [WithNew(rec, new) EXCEPT ![t] = WaitingState(@, on, failFast)] IN
  /\ Gated(t) /\ Turn(t)
  /\ inv[t].mode = "run"
  /\ MayCreate(new, next)
  /\ on # {} /\ on \cap ({t} \cup AllOwners[t]) = {}
  /\ \A m \in on : Exists(next, m) /\ (failFast => Owner[m] = t)
  /\ Commit(new \cup {t}, next, {}, {}, known \cup ChainOf[ParentOf(t)])
  /\ UNCHANGED <<queued, switches, spawned, running, world, counters>>

\* A handler commits its outcome, and with it the tasks in new.
HandlerOutcome(t, new, outcome) ==
  LET next == [WithNew(rec, new) EXCEPT ![t] = Finish(WithNew(rec, new), t, outcome)] IN
  /\ Gated(t) /\ Turn(t)
  /\ MayCreate(new, next)
  /\ Commit(new \cup {t}, next, {}, {},
            Loaded(FALSE) \cup UNION {ChainOf[ParentOf(x)] : x \in new})
  /\ UNCHANGED <<queued, switches, spawned, running, world, counters>>

\* Task code returns, with an error or without.  An abort handler's result is
\* only looked at if it left the task running.
HandlerReturns(t, fails) ==
  /\ Invoked(t) /\ inv[t].pc = "handler"
  /\ inv' = [inv EXCEPT ![t].pc = "step",
                        ![t].result = IF fails THEN "none" ELSE @]
  /\ Leaves(t)
  /\ UNCHANGED <<durable, tables, switches, drainer, spawned, finishing, world, counters>>
-----------------------------------------------------------------------------
(* The reconcile coroutine.                                                *)

\* It drops the flag, takes the cascade and the checks, and queues its job.
ReconcileStarts ==
  /\ spawned
  /\ ~job.queued
  /\ spawned' = FALSE
  /\ flag' = FALSE
  /\ cascade' = FALSE
  /\ checks' = {}
  /\ job' = [queued |-> TRUE, cascade |-> cascade, checks |-> checks,
             ahead |-> {t \in Task : Invoked(t)}
                       \cup (IF drain = "reserve" THEN {Loop} ELSE {})]
  /\ UNCHANGED <<durable, known, switches, drainer, running, world, counters>>

\* any_failed
AnyFailed(on) == \E m \in on : FailedOutcome(rec[m])

\* The tasks a reconcile marks: ordinary work below a cancelled owner, and the
\* live members of a checked wait one of whose members failed.
ReconcileMarks ==
  {t \in Live(rec) :
     /\ ~rec[t].mark
     /\ \/ t \notin Background /\ BelowCancelled(rec, ParentOf(t))
        \/ /\ ~FailedOutcome(rec[t])
           /\ \E w \in job.checks : /\ rec[w].status = "waiting"
                                    /\ t \in rec[w].on
                                    /\ AnyFailed(rec[w].on)}

\* finalize: its loop settles held tasks until none is left whose live owned
\* work is gone; that is every held task all of whose live owned work is held.
Finalized(recs) == {t \in Task : /\ recs[t].status = "completing"
                                 /\ \A x \in OwnedLive(recs, t) :
                                      recs[x].status = "completing"}

\* One commit marks and finalizes.  finalize writes over the live record, not
\* over the candidate the same commit staged, so it drops a mark just made.
Reconcile ==
  LET marks  == ReconcileMarks
      done   == Finalized(rec)
      next   == [t \in Task |->
                   IF t \in done THEN WithOutcome(rec[t], "terminal", rec[t].outcome)
                   ELSE IF t \in marks THEN Marked(rec[t]) ELSE rec[t]]
      gone   == IF job.cascade THEN {c \in queued : BelowCancelled(rec, c)} ELSE {}
  IN  /\ job.queued
      /\ job' = NoJob
      /\ IF closing
           THEN UNCHANGED <<durable, tables, drainer>>
           ELSE /\ queued' = queued \ gone
                /\ IF marks \cup done = {} /\ gone = {}
                     THEN /\ known' = Loaded(job.cascade)
                          /\ UNCHANGED <<rec, convs, checks, cascade, flag, dirty, drain>>
                     ELSE Commit(marks \cup done, next, {}, {}, Loaded(job.cascade))
      /\ UNCHANGED <<switches, spawned, running, world, counters>>

\* Mutant: a reconcile that fails does not put back what it took.
ReconcileGivesUp ==
  /\ job.queued
  /\ ~closing
  /\ Rejected
  /\ job' = NoJob
  /\ known' = Loaded(job.cascade)
  /\ UNCHANGED <<durable, checks, cascade, flag, switches, drainer, spawned, running,
                 world, requests, crashes>>

\* The same job when it fails: what it took is put back for another one.
ReconcileFails ==
  /\ job.queued
  /\ ~closing
  /\ Rejected
  /\ job' = NoJob
  /\ cascade' = TRUE
  /\ checks' = checks \cup job.checks
  /\ known' = Loaded(job.cascade)
  /\ UNCHANGED <<durable, flag, switches, drainer, spawned, running, world,
                 requests, crashes>>
-----------------------------------------------------------------------------
(* A crash, and open in the next process.                                  *)

\* open: records left running become pending, failFast waits are checked, and a
\* reconcile is asked for after the commit's own listeners have run.
Restart ==
  LET left == {t \in Task : rec[t].status = "running"}
      next == [t \in Task |-> IF t \in left THEN WithState(rec[t], "pending") ELSE rec[t]]
      waits == {t \in Task : rec[t].status = "waiting" /\ rec[t].failFast}
      lost == left # {}     \* no edge is loaded yet, so their chains are unknown
  IN  /\ crashes < MaxCrashes
      /\ crashes' = crashes + 1
      /\ rec' = next
      /\ known' = {}
      /\ checks' = waits
      /\ cascade' = TRUE
      /\ flag' = TRUE
      /\ spawned' = ~lost
      /\ job' = NoJob
      /\ enabled' = FALSE
      /\ closing' = FALSE
      /\ dirty' = (left # {})
      /\ drain' = "none"
      /\ inv' = [t \in Task |-> NoInvocation]
      /\ finishing' = {}
      /\ stale' = {}
      /\ UNCHANGED <<convs, queued, blocked, requests, rejections>>
-----------------------------------------------------------------------------
\* A process that has just created a session's ownerless conversations.
Init ==
  /\ rec = [t \in Task |-> Absent]
  /\ convs = {c \in Conversation : ConversationOwner[c] = NoTask}
  /\ queued = {}
  /\ known = convs
  /\ checks = {}
  /\ cascade = TRUE
  /\ flag = TRUE
  /\ spawned = TRUE
  /\ job = NoJob
  /\ enabled = FALSE
  /\ closing = FALSE
  /\ dirty = FALSE
  /\ drain = "none"
  /\ inv = [t \in Task |-> NoInvocation]
  /\ finishing = {}
  /\ blocked = {}
  /\ stale = {}
  /\ requests = 0
  /\ rejections = 0
  /\ crashes = 0

Work == \/ \E t \in Task : CreateTask(t) \/ Abort(t)
        \/ \E c \in Conversation : CreateConversation(c) \/ QueueInput(c) \/ WaitForIdle(c)
        \/ \E c \in Conversation, background \in BOOLEAN : AbortConversation(c, background)
        \/ Resume
        \/ Seal
        \/ \E fitless, replaced \in SUBSET Task : RegistryChange(fitless, replaced)

DrainLoop == DrainTop \/ Reserve \/ DrainExit

Coroutine(t) == StepEnds(t) \/ StepContinues(t) \/ StepWrites(t) \/ FinishInvocation(t)

Handler(t) ==
  \/ \E fails \in BOOLEAN : HandlerReturns(t, fails)
  \/ \E new \in SUBSET Task :
       \/ /\ "progress" \in TaskCode
          /\ \E moved \in BOOLEAN : HandlerProgress(t, new, moved)
       \/ /\ "waitAllSettled" \in TaskCode
          /\ \E on \in SUBSET Task : HandlerWait(t, new, on, FALSE)
       \/ /\ "waitFailFast" \in TaskCode
          /\ \E on \in SUBSET Task : HandlerWait(t, new, on, TRUE)
       \/ /\ "settle" \in TaskCode
          /\ \E outcome \in Outcome : HandlerOutcome(t, new, outcome)

Reconciler == ReconcileStarts \/ Reconcile

Failures == ReserveFails \/ ReconcileFails \/ Restart \/ \E t \in Task : StepFails(t)

Next == Work \/ DrainLoop \/ Reconciler \/ Failures
        \/ \E t \in Task : Coroutine(t) \/ Handler(t)

Spec == Init /\ [][Next]_vars

\* The runtime polls every coroutine it has spawned, and task code returns.
\* Nothing is asked of the host, of storage or of crashes.
Fairness ==
  /\ WF_vars(DrainTop) /\ WF_vars(Reserve) /\ WF_vars(DrainExit)
  /\ WF_vars(ReconcileStarts) /\ WF_vars(Reconcile)
  /\ \A t \in Task :
       /\ WF_vars(Coroutine(t))
       /\ WF_vars(\E fails \in BOOLEAN : HandlerReturns(t, fails))

FairSpec == Spec /\ Fairness
-----------------------------------------------------------------------------
\* The scheduler implements the ownership contract of TaskLifecycle, with the
\* promises that follow from it: no owner settles before its work, and no record
\* that settled is written again.  The durable records are the contract's state;
\* every table, flag and coroutine of the scheduler is hidden.
Lifecycle == INSTANCE TaskLifecycle WITH rec <- rec, convs <- convs
LifecycleSpec     == Lifecycle!Spec
OwnersOutliveWork == Lifecycle!OwnersOutliveWork
TerminalIsFinal   == Lifecycle!TerminalIsFinal

\* Someone is about to look for work: a reserve waits for the line, a drain loop
\* that has yet to test dirty will find it set, or a coroutine has yet to kick.
AboutToReserve == \/ drain = "reserve"
                  \/ drain \in {"top", "exit"} /\ dirty
                  \/ finishing # {}

\* No wakeup is lost between kick, drain and reserve: while the scheduler runs,
\* work that could be reserved now is never left with nobody about to reserve it
\* (a reserve that storage rejected gives up and waits for the next kick).
NoLostWakeup ==
  enabled /\ ~closing /\ rejections = 0 /\ Startable \cup Orphans # {}
    => AboutToReserve

\* Aborts run bottom-up: from the moment an abort handler is reserved until it
\* is through, none of the task's own children is live, and none can be created.
AbortsBottomUp ==
  \A t \in Task : inv[t].mode = "abort" =>
    \A x \in Live(rec) : Owner[x] # t

\* Once a running task is marked, the run that was under way no longer decides
\* its outcome or parks it in a wait: only an abort handler does (gated, decide).
AbortDecidesOutcome ==
  [][\A t \in Task :
       /\ inv[t].mode = "run"
       /\ rec[t].mark
       /\ rec[t].status = "running"
       => rec'[t].status \in {"running", "pending"}]_vars

\* A cancellation is never forgotten, not even by work that arrives after its
\* cascade ran: ordinary work below a cancelled owner that is not marked yet is
\* owed a pass by a pending cascade, a reconcile that was asked for, or one on the line.
CascadesOwed ==
  ~closing /\ (\E t \in Live(rec) \ Background :
                ~rec[t].mark /\ BelowCancelled(rec, ParentOf(t)))
    => cascade \/ flag \/ job.queued

\* A failed member is never forgotten: while a failFast wait has a failed member
\* and a live one that is not marked, the wait is on the list of checks, or on
\* that of the reconcile on the line.  A scheduler that is sealed reconciles no more.
FailFastOwed ==
  ~closing => \A w \in Live(rec) :
    /\ rec[w].status = "waiting" /\ rec[w].failFast
    /\ \E m \in rec[w].on : FailedOutcome(rec[m])
    /\ \E m \in rec[w].on \cap Live(rec) : ~FailedOutcome(rec[m]) /\ ~rec[m].mark
    => w \in checks \cup job.checks

\* A held outcome is never forgotten: when the last work it was held for is
\* gone, a reconcile has been asked for or is on the line, or one that failed
\* left cascade_pending for the next commit to ask again.
HeldOutcomesOwed ==
  ~closing /\ Finalized(rec) # {} => flag \/ job.queued \/ cascade

\* Work that can be reserved is reserved, or stops being so, as long as the
\* scheduler stays up.
ReadyWorkIsServed ==
  \A t \in Task :
    enabled /\ t \in Startable \cup Orphans
      ~> closing \/ ~enabled \/ t \notin Startable \cup Orphans

\* A held outcome settles once the work it was held for is gone.
HeldOutcomesSettle ==
  \A t \in Task :
    [](rec[t].status = "completing" /\ OwnedLive(rec, t) = {} /\ ~closing
       => <>(rec[t].status = "terminal" \/ closing))
=============================================================================
