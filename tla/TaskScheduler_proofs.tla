----------------------- MODULE TaskScheduler_proofs -----------------------
(***************************************************************************)
(* The scheduler's tables keep their types, a mark takes the outcome from  *)
(* the run under way, and no wakeup is lost.  Every commit of every        *)
(* coroutine, and every restart, is a step of the ownership contract of    *)
(* TaskLifecycle or leaves the records alone.                              *)
(*                                                                         *)
(* What follows from it: a task outlives the work it owns, aborts run      *)
(* bottom-up, and what the commit listener notes is enough: no held        *)
(* outcome, cascade or failFast check is forgotten.  All of it holds for   *)
(* every ownership tree and every bound.                                   *)
(***************************************************************************)
EXTENDS TaskScheduler, OwnershipTree_proofs

USE InputsAreKnown, BoundsAreNaturals

LEMMA RecordTypes ==
  ASSUME NEW r \in Record
  PROVE  /\ Absent \in Record
         /\ \A s \in Status : WithState(r, s) \in Record
         /\ \A s \in Status, o \in Outcome \cup {"none"} : WithOutcome(r, s, o) \in Record
         /\ \A on \in SUBSET Task, f \in BOOLEAN : WaitingState(r, on, f) \in Record
         /\ Marked(r) \in Record
<1>1. Absent \in Record
  BY DEF Absent, Record, Status, Outcome
<1>2. r.mark \in BOOLEAN
  BY DEF Record
<1>3. ASSUME NEW s \in Status
      PROVE  WithState(r, s) \in Record
  BY <1>1, <1>2 DEF WithState, Record
<1>4. ASSUME NEW s \in Status, NEW o \in Outcome \cup {"none"}
      PROVE  WithOutcome(r, s, o) \in Record
  BY <1>1, <1>2 DEF WithOutcome, Record
<1>5. ASSUME NEW on \in SUBSET Task, NEW f \in BOOLEAN
      PROVE  WaitingState(r, on, f) \in Record
  <2>1. WithState(r, "waiting") \in Record
    BY <1>3 DEF Status, LiveStatus
  <2> QED
    BY <2>1 DEF WaitingState, Record
<1>6. Marked(r) \in Record
  BY DEF Marked, Record
<1> QED
  BY <1>1, <1>3, <1>4, <1>5, <1>6

LEMMA WalkTypes ==
  /\ \A t \in Task : ParentOf(t) \in Node
  /\ \A u \in Node : ChainOf[u] \subseteq Conversation
  BY TreeTypes DEF ParentOf, Node, ChainOf

LEMMA LoadedType ==
  ASSUME TypeOK, NEW withQueued \in BOOLEAN
  PROVE  Loaded(withQueued) \in SUBSET Conversation
<1>1. \A t \in Live(rec) : ChainOf[ParentOf(t)] \subseteq Conversation
  BY WalkTypes DEF Live
<1>2. \A c \in queued : ChainOf[c] \subseteq Conversation
  BY WalkTypes DEF TypeOK, Node
<1>3. known \subseteq Conversation
  BY DEF TypeOK
<1> DEFINE above == UNION {ChainOf[ParentOf(t)] : t \in Live(rec)}
           below == UNION {ChainOf[c] : c \in queued}
<1>4. above \subseteq Conversation
  BY <1>1
<1>5. below \subseteq Conversation
  BY <1>2
<1>6. Loaded(withQueued) = known \cup above \cup (IF withQueued THEN below ELSE {})
  BY DEF Loaded
<1> HIDE DEF above, below
<1> QED
  BY <1>3, <1>4, <1>5, <1>6

LEMMA ObserveTypes ==
  ASSUME TypeOK, NEW written \in SUBSET Task, NEW next \in [Task -> Record],
         NEW opened \in SUBSET Conversation, NEW submitted, NEW loaded \in SUBSET Conversation,
         Observe(written, next, opened, submitted, loaded)
  PROVE  /\ known' \in SUBSET Conversation
         /\ checks' \in SUBSET Task
         /\ cascade' \in BOOLEAN
         /\ flag' \in BOOLEAN
<1>1. known' = loaded \cup opened
  BY DEF Observe
<1>2. checks' \in SUBSET Task
  BY DEF Observe, TypeOK, FailFastHit, Live
<1>3. cascade' \in BOOLEAN /\ flag' \in BOOLEAN
  BY DEF Observe, TypeOK
<1> QED
  BY <1>1, <1>2, <1>3

LEMMA KickTypes ==
  ASSUME TypeOK, NEW wanted \in BOOLEAN, NEW on \in BOOLEAN, KickIf(wanted, on)
  PROVE  /\ dirty' \in BOOLEAN
         /\ drain' \in {"none", "top", "reserve", "exit"}
  BY DEF KickIf, TypeOK

\* What a commit changes, well typed.
CommitOK == /\ rec' \in [Task -> Record]
            /\ convs' \in SUBSET Conversation
            /\ convs \subseteq convs'
            /\ known' \in SUBSET Conversation
            /\ checks' \in SUBSET Task
            /\ cascade' \in BOOLEAN
            /\ flag' \in BOOLEAN
            /\ dirty' \in BOOLEAN
            /\ drain' \in {"none", "top", "reserve", "exit"}

LEMMA CommitTypes ==
  ASSUME TypeOK, NEW written \in SUBSET Task, NEW next \in [Task -> Record],
         NEW opened \in SUBSET Conversation, NEW submitted, NEW loaded \in SUBSET Conversation,
         Commit(written, next, opened, submitted, loaded)
  PROVE  CommitOK
<1>1. /\ rec' = next /\ convs' = convs \cup opened
      /\ Observe(written, next, opened, submitted, loaded)
      /\ KickIf(written # {}, enabled)
  BY DEF Commit
<1>2. enabled \in BOOLEAN /\ (written # {}) \in BOOLEAN
  BY DEF TypeOK
<1> QED
  BY <1>1, <1>2, ObserveTypes, KickTypes DEF TypeOK, CommitOK

LEMMA NewTypes ==
  ASSUME NEW recs \in [Task -> Record], NEW new
  PROVE  WithNew(recs, new) \in [Task -> Record]
<1>1. Absent \in Record
  BY DEF Record, Absent, Status, Outcome
<1>2. WithState(Absent, "pending") \in Record
  BY <1>1, RecordTypes DEF Status, LiveStatus
<1> QED
  BY <1>2 DEF WithNew

LEMMA TypeInit == Init => TypeOK
<1> SUFFICES ASSUME Init PROVE TypeOK
  OBVIOUS
<1>1. rec \in [Task -> Record]
  BY DEF Init, Record, Absent, Status, Outcome
<1>2. job \in Job /\ inv \in [Task -> Invocation]
  BY DEF Init, Job, NoJob, Invocation, NoInvocation
<1>3. {cascade, flag, enabled, closing, dirty, spawned} \subseteq BOOLEAN
  BY DEF Init
<1>4. requests \in 0..MaxRequests /\ rejections \in 0..MaxRejections /\ crashes \in 0..MaxCrashes
  BY DEF Init
<1> QED
  BY <1>1, <1>2, <1>3, <1>4 DEF Init, TypeOK

\* The records a task may be given, by a commit that finishes it among others.
LEMMA FinishTypes ==
  ASSUME TypeOK, NEW recs, NEW t \in Task, NEW outcome \in Outcome
  PROVE  Finish(recs, t, outcome) \in Record
  BY RecordTypes DEF TypeOK, Finish, Status, LiveStatus

LEMMA UpdateTypes ==
  ASSUME NEW recs \in [Task -> Record], NEW t \in Task, NEW r \in Record
  PROVE  [recs EXCEPT ![t] = r] \in [Task -> Record]
  OBVIOUS

LEMMA RequestTypes ==
  ASSUME TypeOK, NEW call, Request(call)
  PROVE  requests' \in 0..MaxRequests
  BY DEF TypeOK, Request

LEMMA RejectedTypes ==
  ASSUME TypeOK, Rejected
  PROVE  rejections' \in 0..MaxRejections
  BY DEF TypeOK, Rejected

LEMMA TurnTypes ==
  ASSUME TypeOK, NEW x, Leaves(x)
  PROVE  job' \in Job
  BY DEF TypeOK, Leaves, Job

LEMMA TypeWork ==
  ASSUME TypeOK, Work
  PROVE  TypeOK'
<1> USE DEF switches, reconcile, running, world, counters, durable, tables, drainer
<1>0. known \in SUBSET Conversation /\ rec \in [Task -> Record]
  BY DEF TypeOK
<1>1. ASSUME NEW t \in Task, CreateTask(t)
      PROVE  TypeOK'
  <2>1. WithNew(rec, {t}) \in [Task -> Record]
    BY NewTypes DEF TypeOK
  <2>2. CommitOK
    BY <1>0, <1>1, <2>1, CommitTypes DEF CreateTask
  <2> QED
    BY <1>1, <2>2 DEF CreateTask, TypeOK, CommitOK
<1>2. ASSUME NEW t \in Task, Abort(t)
      PROVE  TypeOK'
  <2>1. PICK orphan \in BOOLEAN, loaded \in SUBSET Conversation :
          Commit({t}, [rec EXCEPT ![t] = IF orphan THEN Finish(rec, t, "failed")
                                         ELSE Marked(@)], {}, {}, loaded)
    <3>1. Loaded(FALSE) \in SUBSET Conversation
      BY LoadedType
    <3> QED
      BY <1>0, <1>2, <3>1 DEF Abort
  <2>2. Finish(rec, t, "failed") \in Record /\ Marked(rec[t]) \in Record
    BY <1>0, FinishTypes, RecordTypes DEF Outcome
  <2>3. [rec EXCEPT ![t] = IF orphan THEN Finish(rec, t, "failed") ELSE Marked(@)]
          \in [Task -> Record]
    BY <1>0, <2>2
  <2>4. CommitOK
    BY <2>1, <2>3, CommitTypes
  <2>5. Request("abort")
    BY <1>2 DEF Abort
  <2> QED
    BY <1>2, <2>4, <2>5, RequestTypes DEF Abort, TypeOK, CommitOK
<1>3. ASSUME NEW c \in Conversation, CreateConversation(c)
      PROVE  TypeOK'
  <2>1. CommitOK
    BY <1>0, <1>3, CommitTypes DEF CreateConversation
  <2> QED
    BY <1>3, <2>1 DEF CreateConversation, TypeOK, CommitOK
<1>4. ASSUME NEW c \in Conversation, QueueInput(c)
      PROVE  TypeOK'
  <2>1. CommitOK
    BY <1>0, <1>4, CommitTypes DEF QueueInput
  <2>2. Request("queueInput")
    BY <1>4 DEF QueueInput
  <2> QED
    BY <1>4, <2>1, <2>2, RequestTypes DEF QueueInput, TypeOK, CommitOK
<1>5. ASSUME NEW c \in Conversation, WaitForIdle(c)
      PROVE  TypeOK'
  <2>1. Request("waitForIdle")
    BY <1>5 DEF WaitForIdle
  <2> QED
    BY <1>5, <2>1, RequestTypes DEF WaitForIdle, TypeOK
<1>6. ASSUME NEW c \in Conversation, NEW background \in BOOLEAN,
             AbortConversation(c, background)
      PROVE  TypeOK'
  <2>1. PICK marks \in SUBSET Task, gone \in SUBSET queued :
          /\ Commit(marks, [t \in Task |-> IF t \in marks THEN Marked(rec[t]) ELSE rec[t]],
                    {}, {}, Loaded(TRUE))
          /\ queued' = queued \ gone
    BY <1>6 DEF AbortConversation, Live
  <2>2. \A t \in Task : Marked(rec[t]) \in Record
    BY <1>0, RecordTypes
  <2>3. [t \in Task |-> IF t \in marks THEN Marked(rec[t]) ELSE rec[t]] \in [Task -> Record]
    BY <1>0, <2>2
  <2>4. Loaded(TRUE) \in SUBSET Conversation
    BY LoadedType
  <2>5. CommitOK
    BY <2>1, <2>3, <2>4, CommitTypes
  <2>6. Request("abortConversation")
    BY <1>6 DEF AbortConversation
  <2> QED
    BY <1>6, <2>1, <2>5, <2>6, RequestTypes DEF AbortConversation, TypeOK, CommitOK
<1>7. CASE Resume
  BY <1>7, KickTypes DEF Resume, TypeOK
<1>8. CASE Seal
  <2>1. Request("seal")
    BY <1>8 DEF Seal
  <2> QED
    BY <1>8, <2>1, RequestTypes DEF Seal, TypeOK
<1>9. ASSUME NEW fitless \in SUBSET Task, NEW replaced \in SUBSET Task,
             RegistryChange(fitless, replaced)
      PROVE  TypeOK'
  <2>1. Request("register")
    BY <1>9 DEF RegistryChange
  <2>2. dirty' \in BOOLEAN /\ drain' \in {"none", "top", "reserve", "exit"}
    <3>1. CASE closing
      BY <1>9, <3>1 DEF RegistryChange, TypeOK
    <3>2. CASE ~closing
      <4>1. KickIf(TRUE, enabled)
        BY <1>9, <3>2 DEF RegistryChange, Kick
      <4>2. enabled \in BOOLEAN
        BY DEF TypeOK
      <4> QED
        BY <4>1, <4>2, KickTypes
    <3> QED
      BY <3>1, <3>2
  <2> QED
    BY <1>9, <2>1, <2>2, RequestTypes DEF RegistryChange, TypeOK
<1> QED
  BY <1>1, <1>2, <1>3, <1>4, <1>5, <1>6, <1>7, <1>8, <1>9 DEF Work

LEMMA TypeDrain ==
  ASSUME TypeOK, DrainLoop
  PROVE  TypeOK'
<1> USE DEF switches, reconcile, running, world, counters, durable, tables, drainer
<1>0. rec \in [Task -> Record] /\ inv \in [Task -> Invocation]
  BY DEF TypeOK
<1>1. CASE DrainTop
  BY <1>1 DEF DrainTop, TypeOK
<1>2. CASE DrainExit
  BY <1>2 DEF DrainExit, TypeOK
<1>3. CASE Reserve
  <2>1. job' \in Job
    BY <1>3, TurnTypes DEF Reserve, Turn
  <2>2. CASE ~enabled \/ closing
    BY <1>3, <2>1, <2>2 DEF Reserve, TypeOK
  <2>3. CASE enabled /\ ~closing
    <3> DEFINE writes == Orphans \cup {t \in Startable : rec[t].status # "running"}
               next == [t \in Task |-> IF t \in Orphans THEN Finish(rec, t, "failed")
                                       ELSE IF t \in writes THEN WithState(rec[t], "running")
                                       ELSE rec[t]]
    <3>1. /\ rec' = next
          /\ Observe(writes, next, {}, {}, Loaded(FALSE))
          /\ dirty' = (dirty \/ writes # {})
          /\ drain' = "top"
          /\ inv' = [t \in Task |->
                       IF t \in Startable
                       THEN [mode |-> IF rec[t].mark THEN "abort" ELSE "run",
                             pc |-> "step", result |-> "first"]
                       ELSE inv[t]]
          /\ stale' = stale \ Startable
          /\ UNCHANGED <<convs, queued, finishing, blocked, enabled, closing, spawned,
                         requests, rejections, crashes>>
      BY <1>3, <2>3 DEF Reserve
    <3>2. writes \in SUBSET Task
      BY DEF Orphans, Startable, Reservable, Live
    <3>3. next \in [Task -> Record]
      <4>1. \A t \in Task : /\ Finish(rec, t, "failed") \in Record
                            /\ WithState(rec[t], "running") \in Record
        BY <1>0, FinishTypes, RecordTypes DEF Outcome, Status, LiveStatus
      <4> QED
        BY <1>0, <4>1
    <3>4. Loaded(FALSE) \in SUBSET Conversation
      BY LoadedType
    <3> HIDE DEF writes, next
    <3>5. /\ known' \in SUBSET Conversation
          /\ checks' \in SUBSET Task
          /\ cascade' \in BOOLEAN
          /\ flag' \in BOOLEAN
      BY <3>1, <3>2, <3>3, <3>4, ObserveTypes
    <3>6. inv' \in [Task -> Invocation]
      BY <1>0, <3>1 DEF Invocation
    <3>7. dirty' \in BOOLEAN
      BY <3>1 DEF TypeOK
    <3> QED
      BY <2>1, <3>1, <3>3, <3>5, <3>6, <3>7 DEF TypeOK
  <2> QED
    BY <2>2, <2>3
<1> QED
  BY <1>1, <1>2, <1>3 DEF DrainLoop

LEMMA EndTypes ==
  ASSUME TypeOK, NEW t \in Task, End(t)
  PROVE  inv' \in [Task -> Invocation] /\ finishing' \in SUBSET Task
  BY DEF TypeOK, End, Invocation, NoInvocation

LEMMA TypeCoroutine ==
  ASSUME TypeOK, NEW t \in Task, Coroutine(t)
  PROVE  TypeOK'
<1> USE DEF switches, reconcile, running, world, counters, durable, tables, drainer
<1>0. rec \in [Task -> Record] /\ inv \in [Task -> Invocation] /\ known \in SUBSET Conversation
  BY DEF TypeOK
<1>1. CASE StepEnds(t)
  <2>1. End(t) /\ Leaves(t)
    BY <1>1 DEF StepEnds, Turn
  <2> QED
    BY <1>1, <2>1, EndTypes, TurnTypes DEF StepEnds, TypeOK
<1>2. CASE StepContinues(t)
  <2>1. Leaves(t)
    BY <1>2 DEF StepContinues, Turn
  <2>2. inv' = [inv EXCEPT ![t] = [@ EXCEPT !.pc = "handler", !.result = "none"]]
    BY <1>0, <1>2 DEF StepContinues
  <2>3. [inv[t] EXCEPT !.pc = "handler", !.result = "none"] \in Invocation
    BY <1>0 DEF Invocation
  <2>4. inv' \in [Task -> Invocation]
    BY <1>0, <2>2, <2>3
  <2> QED
    BY <1>2, <2>1, <2>4, TurnTypes DEF StepContinues, TypeOK
<1>3. CASE StepWrites(t)
  <2>1. End(t) /\ Leaves(t)
    BY <1>3 DEF StepWrites, Turn
  <2>2. PICK fault \in BOOLEAN, loaded \in SUBSET Conversation :
          Commit({t}, [rec EXCEPT ![t] = IF fault THEN Finish(rec, t, "failed")
                                         ELSE WithState(@, "pending")], {}, {}, loaded)
    <3>1. Loaded(FALSE) \in SUBSET Conversation
      BY LoadedType
    <3>2. MustFault(t) \in BOOLEAN
      BY DEF MustFault
    <3> QED
      BY <1>0, <1>3, <3>1, <3>2 DEF StepWrites
  <2>3. Finish(rec, t, "failed") \in Record /\ WithState(rec[t], "pending") \in Record
    BY <1>0, FinishTypes, RecordTypes DEF Outcome, Status, LiveStatus
  <2>4. [rec EXCEPT ![t] = IF fault THEN Finish(rec, t, "failed") ELSE WithState(@, "pending")]
          \in [Task -> Record]
    BY <1>0, <2>3
  <2>5. CommitOK
    BY <2>2, <2>4, CommitTypes
  <2> QED
    BY <1>3, <2>1, <2>5, EndTypes, TurnTypes DEF StepWrites, TypeOK, CommitOK
<1>4. CASE FinishInvocation(t)
  <2>1. KickIf(TRUE, enabled) /\ enabled \in BOOLEAN
    BY <1>4 DEF FinishInvocation, Kick, TypeOK
  <2> QED
    BY <1>4, <2>1, KickTypes DEF FinishInvocation, TypeOK
<1> QED
  BY <1>1, <1>2, <1>3, <1>4 DEF Coroutine

LEMMA TypeHandler ==
  ASSUME TypeOK, NEW t \in Task, Handler(t)
  PROVE  TypeOK'
<1> USE DEF switches, reconcile, running, world, counters, durable, tables, drainer
<1>0. rec \in [Task -> Record] /\ inv \in [Task -> Invocation] /\ known \in SUBSET Conversation
  BY DEF TypeOK
<1>1. ASSUME NEW fails \in BOOLEAN, HandlerReturns(t, fails)
      PROVE  TypeOK'
  <2>1. Leaves(t)
    BY <1>1 DEF HandlerReturns
  <2>2. inv' \in [Task -> Invocation]
    <3> DEFINE r == [inv[t] EXCEPT !.pc = "step", !.result = IF fails THEN "none" ELSE @]
    <3>1. inv[t] \in Invocation
      BY <1>0
    <3>2. inv[t].result \in {"first", "progress", "none"}
      BY <3>1 DEF Invocation
    <3>3. r \in Invocation
      BY <3>1, <3>2 DEF Invocation
    <3>4. inv' = [inv EXCEPT ![t] = r]
      BY <1>0, <1>1 DEF HandlerReturns
    <3> QED
      BY <1>0, <3>3, <3>4
  <2> QED
    BY <1>1, <2>1, <2>2, TurnTypes DEF HandlerReturns, TypeOK
<1>2. ASSUME NEW new \in SUBSET Task, NEW moved \in BOOLEAN, HandlerProgress(t, new, moved)
      PROVE  TypeOK'
  <2>1. WithNew(rec, new) \in [Task -> Record]
    BY <1>0, NewTypes
  <2>2. CommitOK
    BY <1>0, <1>2, <2>1, CommitTypes DEF HandlerProgress
  <2>3. Leaves(t)
    BY <1>2 DEF HandlerProgress, Turn
  <2>4. inv' \in [Task -> Invocation]
    BY <1>0, <1>2 DEF HandlerProgress, Invocation
  <2> QED
    BY <1>2, <2>2, <2>3, <2>4, TurnTypes DEF HandlerProgress, TypeOK, CommitOK
<1>3. ASSUME NEW new \in SUBSET Task, NEW on \in SUBSET Task, NEW failFast \in BOOLEAN,
             HandlerWait(t, new, on, failFast)
      PROVE  TypeOK'
  <2>1. WithNew(rec, new) \in [Task -> Record]
    BY <1>0, NewTypes
  <2>2. WaitingState(WithNew(rec, new)[t], on, failFast) \in Record
    BY <2>1, RecordTypes
  <2>3. [WithNew(rec, new) EXCEPT ![t] = WaitingState(@, on, failFast)] \in [Task -> Record]
    BY <2>1, <2>2
  <2>4. known \cup ChainOf[ParentOf(t)] \in SUBSET Conversation
    BY <1>0, WalkTypes
  <2>5. CommitOK
    BY <1>3, <2>3, <2>4, CommitTypes DEF HandlerWait
  <2>6. Leaves(t)
    BY <1>3 DEF HandlerWait, Turn
  <2> QED
    BY <1>3, <2>5, <2>6, TurnTypes DEF HandlerWait, TypeOK, CommitOK
<1>4. ASSUME NEW new \in SUBSET Task, NEW outcome \in Outcome, HandlerOutcome(t, new, outcome)
      PROVE  TypeOK'
  <2> DEFINE loaded == Loaded(FALSE) \cup (UNION {ChainOf[ParentOf(x)] : x \in new})
             next == [WithNew(rec, new) EXCEPT ![t] = Finish(WithNew(rec, new), t, outcome)]
  <2>1. WithNew(rec, new) \in [Task -> Record]
    BY <1>0, NewTypes
  <2>2. Finish(WithNew(rec, new), t, outcome) \in Record
    BY FinishTypes
  <2>3. next \in [Task -> Record]
    BY <2>1, <2>2
  <2>4. loaded \in SUBSET Conversation
    <3>1. \A x \in new : ChainOf[ParentOf(x)] \subseteq Conversation
      BY WalkTypes
    <3>2. Loaded(FALSE) \in SUBSET Conversation
      BY LoadedType
    <3> QED
      BY <3>1, <3>2
  <2>5. Commit(new \cup {t}, next, {}, {}, loaded)
    BY <1>4 DEF HandlerOutcome
  <2> HIDE DEF loaded, next
  <2>6. CommitOK
    BY <2>3, <2>4, <2>5, CommitTypes
  <2>7. Leaves(t)
    BY <1>4 DEF HandlerOutcome, Turn
  <2> QED
    BY <1>4, <2>6, <2>7, TurnTypes DEF HandlerOutcome, TypeOK, CommitOK
<1> QED
  BY <1>1, <1>2, <1>3, <1>4 DEF Handler

LEMMA TypeReconcile ==
  ASSUME TypeOK, Reconciler
  PROVE  TypeOK'
<1> USE DEF switches, reconcile, running, world, counters, durable, tables, drainer
<1>0. rec \in [Task -> Record] /\ inv \in [Task -> Invocation] /\ job \in Job
  BY DEF TypeOK
<1>1. CASE ReconcileStarts
  <2>1. job' \in Job
    BY <1>1 DEF ReconcileStarts, TypeOK, Job
  <2> QED
    BY <1>1, <2>1 DEF ReconcileStarts, TypeOK
<1>2. CASE Reconcile
  <2>0. job' \in Job /\ job.cascade \in BOOLEAN
    BY <1>0, <1>2 DEF Reconcile, Job, NoJob
  <2>1. CASE closing
    BY <1>2, <2>0, <2>1 DEF Reconcile, TypeOK
  <2>2. CASE ~closing
    <3>1. Loaded(job.cascade) \in SUBSET Conversation
      BY <2>0, LoadedType
    <3>2. PICK marks \in SUBSET Task, done \in SUBSET Task, gone \in SUBSET queued :
            LET next == [t \in Task |->
                           IF t \in done THEN WithOutcome(rec[t], "terminal", rec[t].outcome)
                           ELSE IF t \in marks THEN Marked(rec[t]) ELSE rec[t]]
            IN  /\ done = Finalized(rec)
                /\ queued' = queued \ gone
                /\ \/ /\ known' = Loaded(job.cascade)
                      /\ UNCHANGED <<rec, convs, checks, cascade, flag, dirty, drain>>
                   \/ Commit(marks \cup done, next, {}, {}, Loaded(job.cascade))
      BY <1>2, <2>2 DEF Reconcile, ReconcileMarks, Finalized, Live
    <3> DEFINE next == [t \in Task |->
                          IF t \in done THEN WithOutcome(rec[t], "terminal", rec[t].outcome)
                          ELSE IF t \in marks THEN Marked(rec[t]) ELSE rec[t]]
    <3>3. CASE Commit(marks \cup done, next, {}, {}, Loaded(job.cascade))
      <4>1. \A t \in Task : /\ WithOutcome(rec[t], "terminal", rec[t].outcome) \in Record
                            /\ Marked(rec[t]) \in Record
        <5>1. \A t \in Task : rec[t] \in Record /\ rec[t].outcome \in Outcome \cup {"none"}
          BY <1>0 DEF Record
        <5> QED
          BY <5>1, RecordTypes DEF Status
      <4>2. next \in [Task -> Record]
        BY <1>0, <4>1
      <4>3. CommitOK
        BY <3>1, <3>3, <4>2, CommitTypes
      <4> QED
        BY <1>2, <2>0, <3>2, <4>3 DEF Reconcile, TypeOK, CommitOK
    <3>4. CASE /\ known' = Loaded(job.cascade)
               /\ UNCHANGED <<rec, convs, checks, cascade, flag, dirty, drain>>
      BY <1>2, <2>0, <3>1, <3>2, <3>4 DEF Reconcile, TypeOK
    <3> QED
      BY <3>2, <3>3, <3>4
  <2> QED
    BY <2>1, <2>2
<1> QED
  BY <1>1, <1>2 DEF Reconciler

LEMMA TypeFailures ==
  ASSUME TypeOK, Failures
  PROVE  TypeOK'
<1> USE DEF switches, reconcile, running, world, counters, durable, tables, drainer
<1>0. /\ rec \in [Task -> Record] /\ inv \in [Task -> Invocation] /\ job \in Job
      /\ known \in SUBSET Conversation
  BY DEF TypeOK
<1>1. CASE ReserveFails
  <2>1. Loaded(FALSE) \in SUBSET Conversation
    BY LoadedType
  <2>2. Leaves(Loop) /\ Rejected
    BY <1>1 DEF ReserveFails, Turn
  <2> QED
    BY <1>1, <2>1, <2>2, TurnTypes, RejectedTypes DEF ReserveFails, TypeOK
<1>2. CASE ReconcileFails
  <2>1. job' \in Job /\ job.cascade \in BOOLEAN /\ job.checks \in SUBSET Task
    BY <1>0, <1>2 DEF ReconcileFails, Job, NoJob
  <2>2. Loaded(job.cascade) \in SUBSET Conversation
    BY <2>1, LoadedType
  <2>3. Rejected
    BY <1>2 DEF ReconcileFails
  <2> QED
    BY <1>2, <2>1, <2>2, <2>3, RejectedTypes DEF ReconcileFails, TypeOK
<1>3. CASE Restart
  <2>1. \A t \in Task : WithState(rec[t], "pending") \in Record
    BY <1>0, RecordTypes DEF Status, LiveStatus
  <2>2. rec' \in [Task -> Record]
    BY <1>0, <1>3, <2>1 DEF Restart
  <2>3. job' \in Job /\ inv' \in [Task -> Invocation]
    BY <1>3 DEF Restart, Job, NoJob, Invocation, NoInvocation
  <2>4. crashes' \in 0..MaxCrashes
    BY <1>3 DEF Restart, TypeOK
  <2>5. checks' \in SUBSET Task
    BY <1>3 DEF Restart
  <2>6. {cascade', flag', enabled', closing', dirty', spawned'} \subseteq BOOLEAN
    BY <1>3 DEF Restart
  <2> QED
    BY <1>3, <2>2, <2>3, <2>4, <2>5, <2>6 DEF Restart, TypeOK
<1>4. ASSUME NEW t \in Task, StepFails(t)
      PROVE  TypeOK'
  <2>1. Loaded(FALSE) \in SUBSET Conversation
    BY LoadedType
  <2>2. Leaves(t) /\ End(t) /\ Rejected
    BY <1>4 DEF StepFails, Turn
  <2>3. known' \in SUBSET Conversation
    BY <1>0, <1>4, <2>1 DEF StepFails
  <2> QED
    BY <1>4, <2>2, <2>3, EndTypes, TurnTypes, RejectedTypes DEF StepFails, TypeOK
<1> QED
  BY <1>1, <1>2, <1>3, <1>4 DEF Failures

LEMMA TypeStep == TypeOK /\ [Next]_vars => TypeOK'
<1> SUFFICES ASSUME TypeOK, [Next]_vars PROVE TypeOK'
  OBVIOUS
<1>1. CASE Next
  BY <1>1, TypeWork, TypeDrain, TypeReconcile, TypeFailures, TypeCoroutine, TypeHandler
     DEF Next
<1>2. CASE UNCHANGED vars
  BY <1>2 DEF vars, TypeOK
<1> QED
  BY <1>1, <1>2

\* Every table, flag and record of the scheduler keeps its type, for every
\* ownership tree and every bound: no listener, rollback or restart leaves an
\* entry for something that is not a task or a conversation.
THEOREM TypeCorrect == Spec => []TypeOK
  BY TypeInit, TypeStep, PTL DEF Spec
-----------------------------------------------------------------------------
(* The run under way when a task is marked no longer decides.              *)

\* Nothing is created over a record that exists.
LEMMA NewAreNew ==
  ASSUME NEW new, NEW next, MayCreate(new, next), NEW t \in Task, rec[t].status = "running"
  PROVE  WithNew(rec, new)[t] = rec[t]
  BY DEF MayCreate, WithNew

LEMMA MarkedRunKept ==
  ASSUME TypeOK, [Next]_vars, NEW t \in Task,
         inv[t].mode = "run", rec[t].mark, rec[t].status = "running"
  PROVE  rec'[t].status \in {"running", "pending"}
<1> USE DEF durable
<1>0. rec \in [Task -> Record] /\ Marked(rec[t]).status = "running"
  <2>1. rec[t] \in Record
    BY DEF TypeOK
  <2> QED
    BY <2>1 DEF TypeOK, Marked, Record
<1>1. CASE rec' = rec
  BY <1>1
<1>2. ASSUME NEW x \in Task, CreateTask(x)
      PROVE  rec'[t].status = "running"
  BY <1>2, NewAreNew DEF CreateTask, Commit
<1>3. ASSUME NEW x \in Task, Abort(x)
      PROVE  rec'[t].status = "running"
  <2>1. CASE x = t
    <3>1. Invoked(t)
      BY DEF Invoked
    <3>2. rec' = [rec EXCEPT ![t] = Marked(@)]
      BY <1>3, <2>1, <3>1 DEF Abort, Commit
    <3> QED
      BY <1>0, <3>2
  <2>2. CASE x # t
    BY <1>0, <1>3, <2>2 DEF Abort, Commit
  <2> QED
    BY <2>1, <2>2
<1>4. ASSUME NEW c, NEW background, AbortConversation(c, background)
      PROVE  rec'[t].status = "running"
  <2>1. PICK marks : rec' = [x \in Task |-> IF x \in marks THEN Marked(rec[x]) ELSE rec[x]]
    BY <1>4 DEF AbortConversation, Commit
  <2> QED
    BY <1>0, <2>1
<1>5. ASSUME Reserve
      PROVE  rec'[t] = rec[t]
  <2>1. t \notin Orphans /\ t \notin {x \in Startable : rec[x].status # "running"}
    BY DEF Orphans, Startable, Reservable, Invoked
  <2> QED
    BY <1>0, <1>5, <2>1 DEF Reserve
\* decide has the run end, neither fault nor rebind.
<1>6. ASSUME NEW x \in Task, StepWrites(x)
      PROVE  rec'[t] = rec[t]
  <2>1. x # t
    BY <1>6 DEF StepWrites, MustFault, Rebinds, MustEnd
  <2> QED
    BY <1>0, <1>6, <2>1 DEF StepWrites, Commit
\* gated lets no commit of the run through.
<1>7. ASSUME NEW x \in Task, Handler(x), rec' # rec
      PROVE  rec'[t] = rec[t]
  <2>1. ASSUME Gated(x)
        PROVE  x # t
    BY <2>1 DEF Gated
  <2>2. ASSUME NEW new, NEW moved, HandlerProgress(x, new, moved)
        PROVE  rec'[t] = rec[t]
    BY <2>2, NewAreNew DEF HandlerProgress, Commit
  <2>3. ASSUME NEW new, NEW on, NEW failFast, HandlerWait(x, new, on, failFast)
        PROVE  rec'[t] = rec[t]
    <3> DEFINE next == [WithNew(rec, new) EXCEPT ![x] = WaitingState(@, on, failFast)]
    <3>1. rec' = next /\ x # t /\ MayCreate(new, next)
      BY <2>1, <2>3 DEF HandlerWait, Commit
    <3>2. next[t] = WithNew(rec, new)[t]
      BY <3>1 DEF WithNew
    <3> HIDE DEF next
    <3> QED
      BY <3>1, <3>2, NewAreNew
  <2>4. ASSUME NEW new, NEW outcome, HandlerOutcome(x, new, outcome)
        PROVE  rec'[t] = rec[t]
    <3> DEFINE next == [WithNew(rec, new) EXCEPT ![x] = Finish(WithNew(rec, new), x, outcome)]
    <3>1. rec' = next /\ x # t /\ MayCreate(new, next)
      BY <2>1, <2>4 DEF HandlerOutcome, Commit
    <3>2. next[t] = WithNew(rec, new)[t]
      BY <3>1 DEF WithNew
    <3> HIDE DEF next
    <3> QED
      BY <3>1, <3>2, NewAreNew
  <2> QED
    BY <1>7, <2>2, <2>3, <2>4 DEF Handler, HandlerReturns
<1>8. ASSUME Reconcile, rec' # rec
      PROVE  rec'[t].status = "running"
  <2>1. PICK marks : rec' = [x \in Task |->
                        IF x \in Finalized(rec)
                        THEN WithOutcome(rec[x], "terminal", rec[x].outcome)
                        ELSE IF x \in marks THEN Marked(rec[x]) ELSE rec[x]]
    BY <1>8 DEF Reconcile, Commit
  <2>2. t \notin Finalized(rec)
    BY DEF Finalized
  <2> QED
    BY <1>0, <2>1, <2>2
<1>9. ASSUME Restart
      PROVE  rec'[t].status = "pending"
  BY <1>9 DEF Restart, WithState, Absent
<1>10. CASE Work
  BY <1>1, <1>2, <1>3, <1>4, <1>10
     DEF Work, CreateConversation, QueueInput, Commit, WaitForIdle, Resume, Seal, RegistryChange
<1>11. CASE DrainLoop \/ Reconciler \/ Failures
  BY <1>1, <1>5, <1>8, <1>9, <1>11
     DEF DrainLoop, DrainTop, DrainExit, Reconciler, ReconcileStarts, Failures, ReserveFails,
         ReconcileFails, StepFails
<1>12. ASSUME NEW x \in Task, Coroutine(x) \/ Handler(x)
       PROVE  rec'[t].status = "running"
  BY <1>6, <1>7, <1>12 DEF Coroutine, StepEnds, StepContinues, FinishInvocation
<1>13. CASE UNCHANGED vars
  BY <1>13 DEF vars
<1> QED
  BY <1>10, <1>11, <1>12, <1>13 DEF Next

\* Once a running task is marked, no step of any coroutine lets the run that was
\* under way settle it or park it: gated, decide and reserve between them leave
\* that to an abort handler.
THEOREM AbortsDecide == Spec => AbortDecidesOutcome
<1> DEFINE Kept == \A t \in Task :
                     /\ inv[t].mode = "run"
                     /\ rec[t].mark
                     /\ rec[t].status = "running"
                     => rec'[t].status \in {"running", "pending"}
<1>1. TypeOK /\ [Next]_vars => [Kept]_vars
  BY MarkedRunKept
<1> QED
  BY <1>1, TypeCorrect, PTL DEF Spec, AbortDecidesOutcome
-----------------------------------------------------------------------------
(* No wakeup is lost between kick, drain and reserve.                      *)

Ready == Startable \cup Orphans # {}

\* While the scheduler may reserve, a kick leaves someone about to.
LEMMA KickIsHeard ==
  ASSUME TypeOK, NEW on, KickIf(TRUE, on), on, ~closing
  PROVE  AboutToReserve'
  BY DEF KickIf, TypeOK, AboutToReserve

\* A commit either leaves the records alone, and the loop with them, or kicks.
LEMMA CommitIsHeard ==
  ASSUME TypeOK, NEW written, NEW next, NEW opened, NEW submitted, NEW loaded,
         Commit(written, next, opened, submitted, loaded), enabled, ~closing,
         written = {} => next = rec
  PROVE  \/ AboutToReserve'
         \/ UNCHANGED <<rec, dirty, drain>>
<1>1. CASE written = {}
  <2>1. KickIf(FALSE, enabled) /\ rec' = rec
    BY <1>1 DEF Commit
  <2> QED
    BY <2>1 DEF KickIf, TypeOK
<1>2. CASE written # {}
  <2>1. KickIf(TRUE, enabled)
    BY <1>2 DEF Commit
  <2> QED
    BY <2>1, KickIsHeard
<1> QED
  BY <1>1, <1>2

\* What is ready depends on the records, the registry and who is registered.
LEMMA ReadyKept ==
  ASSUME UNCHANGED <<rec, blocked>>, \A t \in Task : Invoked(t) => Invoked(t)', Ready'
  PROVE  Ready
<1>1. \A t : WaitingOn(t)' = WaitingOn(t)
  BY DEF WaitingOn, OwnedLive, Live
<1>2. Reservable' \subseteq Reservable
  BY <1>1 DEF Reservable, Live
<1> QED
  BY <1>2 DEF Ready, Startable, Orphans

LEMMA WakeupStep ==
  ASSUME TypeOK, NoLostWakeup, [Next]_vars
  PROVE  NoLostWakeup'
<1> USE DEF durable, tables, switches, drainer, reconcile, running, world, counters
<1> SUFFICES ASSUME enabled', ~closing', rejections' = 0, Ready'
             PROVE  AboutToReserve'
  BY DEF NoLostWakeup, Ready
\* While nothing that matters changes, someone is about to reserve already.
<1>1. ASSUME UNCHANGED <<rec, blocked, dirty, drain, enabled, closing, rejections, finishing>>,
             \A t \in Task : Invoked(t) => Invoked(t)'
      PROVE  AboutToReserve'
  <2>1. AboutToReserve
    BY <1>1, ReadyKept DEF NoLostWakeup, Ready
  <2> QED
    BY <1>1, <2>1 DEF AboutToReserve
<1>2. ASSUME NEW written, NEW next, NEW opened, NEW submitted, NEW loaded,
             Commit(written, next, opened, submitted, loaded),
             written = {} => next = rec,
             UNCHANGED <<blocked, enabled, closing, rejections, finishing, inv>>
      PROVE  AboutToReserve'
  <2>1. \A t \in Task : Invoked(t) => Invoked(t)'
    BY <1>2 DEF Invoked
  <2>2. AboutToReserve' \/ UNCHANGED <<rec, dirty, drain>>
    BY <1>2, CommitIsHeard
  <2> QED
    BY <1>1, <1>2, <2>1, <2>2
<1>3. CASE Work
  <2>1. ASSUME NEW t \in Task, CreateTask(t)
        PROVE  AboutToReserve'
    BY <1>2, <2>1 DEF CreateTask
  <2>2. ASSUME NEW t \in Task, Abort(t)
        PROVE  AboutToReserve'
    BY <1>2, <2>2 DEF Abort
  <2>3. ASSUME NEW c \in Conversation, CreateConversation(c)
        PROVE  AboutToReserve'
    BY <1>2, <2>3 DEF CreateConversation
  <2>4. ASSUME NEW c \in Conversation, QueueInput(c)
        PROVE  AboutToReserve'
    BY <1>2, <2>4 DEF QueueInput
  <2>5. ASSUME NEW c \in Conversation, NEW background, AbortConversation(c, background)
        PROVE  AboutToReserve'
    <3>1. PICK marks : Commit(marks, [t \in Task |-> IF t \in marks THEN Marked(rec[t])
                                                     ELSE rec[t]], {}, {}, Loaded(TRUE))
      BY <2>5 DEF AbortConversation
    <3>2. marks = {} => [t \in Task |-> IF t \in marks THEN Marked(rec[t]) ELSE rec[t]] = rec
      BY DEF TypeOK
    <3>3. UNCHANGED <<blocked, enabled, closing, rejections, finishing, inv>>
      BY <2>5 DEF AbortConversation
    <3> QED
      BY <1>2, <3>1, <3>2, <3>3
  <2>6. ASSUME NEW c \in Conversation, WaitForIdle(c)
        PROVE  AboutToReserve'
    BY <1>1, <2>6 DEF WaitForIdle, Invoked
  <2>7. CASE Resume
    BY <2>7, KickIsHeard DEF Resume
  <2>8. CASE Seal
    BY <2>8 DEF Seal
  <2>9. ASSUME NEW fitless, NEW replaced, RegistryChange(fitless, replaced)
        PROVE  AboutToReserve'
    BY <2>9, KickIsHeard DEF RegistryChange, Kick
  <2> QED
    BY <1>3, <2>1, <2>2, <2>3, <2>4, <2>5, <2>6, <2>7, <2>8, <2>9 DEF Work
<1>4. CASE DrainTop \/ DrainExit
  <2>1. UNCHANGED <<rec, blocked, inv, enabled, closing, rejections, finishing>>
    BY <1>4 DEF DrainTop, DrainExit
  <2>2. Ready
    BY <2>1, ReadyKept DEF Invoked
  <2>3. AboutToReserve
    BY <2>1, <2>2 DEF NoLostWakeup, Ready
  <2>4. enabled /\ ~closing
    BY <2>1
  <2>5. CASE finishing # {}
    BY <2>1, <2>5 DEF AboutToReserve
  <2>6. CASE finishing = {}
    <3>1. drain \in {"top", "exit"} /\ dirty
      BY <1>4, <2>3, <2>6 DEF DrainTop, DrainExit, AboutToReserve
    <3>2. drain' = "reserve" \/ (drain' = "top" /\ dirty' = dirty)
      BY <1>4, <2>4, <3>1 DEF DrainTop, DrainExit
    <3> QED
      BY <3>1, <3>2 DEF AboutToReserve
  <2> QED
    BY <2>5, <2>6
\* A reserve that writes leaves the loop dirty; one that writes nothing has
\* registered all that was ready.
<1>5. CASE Reserve
  <2> DEFINE writes == Orphans \cup {t \in Startable : rec[t].status # "running"}
  <2>1. /\ rec' = [t \in Task |-> IF t \in Orphans THEN Finish(rec, t, "failed")
                                  ELSE IF t \in writes THEN WithState(rec[t], "running")
                                  ELSE rec[t]]
        /\ dirty' = (dirty \/ writes # {})
        /\ drain' = "top"
        /\ inv' = [t \in Task |->
                     IF t \in Startable
                     THEN [mode |-> IF rec[t].mark THEN "abort" ELSE "run",
                           pc |-> "step", result |-> "first"]
                     ELSE inv[t]]
        /\ blocked' = blocked
    BY <1>5 DEF Reserve
  <2>2. CASE writes # {}
    BY <2>1, <2>2 DEF AboutToReserve
  <2>3. CASE writes = {}
    <3>1. Orphans = {} /\ rec' = rec
      BY <2>1, <2>3 DEF TypeOK
    <3>2. \A t \in Task : WaitingOn(t)' = WaitingOn(t)
      BY <3>1 DEF WaitingOn, OwnedLive, Live
    <3>3. \A t \in Startable : Invoked(t)'
      BY <2>1 DEF Invoked, Startable, Reservable, Live
    <3>4. \A t \in Task : Invoked(t) => Invoked(t)'
      BY <2>1, <3>3 DEF Invoked
    <3>5. Reservable' \subseteq Reservable \ Startable
      BY <3>1, <3>2, <3>3, <3>4 DEF Reservable, Live
    <3>6. ~Ready'
      BY <2>1, <3>1, <3>5 DEF Ready, Startable, Orphans
    <3> QED
      BY <3>6
  <2> QED
    BY <2>2, <2>3
<1>6. CASE Reconciler
  <2>1. CASE ReconcileStarts
    BY <1>1, <2>1 DEF ReconcileStarts, Invoked
  <2>2. CASE Reconcile
    <3>1. CASE UNCHANGED <<rec, convs, checks, cascade, flag, dirty, drain>>
      BY <1>1, <2>2, <3>1 DEF Reconcile, Invoked
    <3>2. ASSUME NEW marks, NEW done,
                 Commit(marks \cup done,
                        [t \in Task |->
                           IF t \in done THEN WithOutcome(rec[t], "terminal", rec[t].outcome)
                           ELSE IF t \in marks THEN Marked(rec[t]) ELSE rec[t]],
                        {}, {}, Loaded(job.cascade))
          PROVE  AboutToReserve'
      <4>1. marks \cup done = {} =>
              [t \in Task |-> IF t \in done THEN WithOutcome(rec[t], "terminal", rec[t].outcome)
                              ELSE IF t \in marks THEN Marked(rec[t]) ELSE rec[t]] = rec
        BY DEF TypeOK
      <4>2. UNCHANGED <<blocked, enabled, closing, rejections, finishing, inv>>
        BY <2>2 DEF Reconcile
      <4> QED
        BY <1>2, <3>2, <4>1, <4>2
    <3> QED
      BY <2>2, <3>1, <3>2 DEF Reconcile
  <2> QED
    BY <1>6, <2>1, <2>2 DEF Reconciler
<1>7. CASE Failures
  <2>1. rejections \in Nat
    BY DEF TypeOK
  <2>2. ~Rejected
    BY <2>1 DEF Rejected
  <2>3. ~Restart
    BY DEF Restart
  <2> QED
    BY <1>7, <2>2, <2>3 DEF Failures, ReserveFails, ReconcileFails, StepFails
<1>8. ASSUME NEW t \in Task, Coroutine(t)
      PROVE  AboutToReserve'
  <2>1. CASE End(t)
    BY <2>1 DEF End, AboutToReserve
  <2>2. CASE StepContinues(t)
    <3>1. \A x \in Task : Invoked(x) => Invoked(x)'
      BY <2>2 DEF StepContinues, Invoked, TypeOK, Invocation
    <3> QED
      BY <1>1, <2>2, <3>1 DEF StepContinues
  <2>3. CASE FinishInvocation(t)
    BY <2>3, KickIsHeard DEF FinishInvocation, Kick
  <2> QED
    BY <1>8, <2>1, <2>2, <2>3 DEF Coroutine, StepEnds, StepWrites
<1>9. ASSUME NEW t \in Task, Handler(t)
      PROVE  AboutToReserve'
  <2>1. ASSUME NEW fails, HandlerReturns(t, fails)
        PROVE  AboutToReserve'
    <3>1. \A x \in Task : Invoked(x) => Invoked(x)'
      BY <2>1 DEF HandlerReturns, Invoked, TypeOK, Invocation
    <3> QED
      BY <1>1, <2>1, <3>1 DEF HandlerReturns
  <2>2. ASSUME NEW new, NEW moved, HandlerProgress(t, new, moved)
        PROVE  AboutToReserve'
    <3>1. KickIf(TRUE, enabled)
      BY <2>2 DEF HandlerProgress, Commit
    <3> QED
      BY <2>2, <3>1, KickIsHeard DEF HandlerProgress
  <2>3. ASSUME NEW new, NEW on, NEW failFast, HandlerWait(t, new, on, failFast)
        PROVE  AboutToReserve'
    <3>1. KickIf(TRUE, enabled)
      BY <2>3 DEF HandlerWait, Commit
    <3> QED
      BY <2>3, <3>1, KickIsHeard DEF HandlerWait
  <2>4. ASSUME NEW new, NEW outcome, HandlerOutcome(t, new, outcome)
        PROVE  AboutToReserve'
    <3>1. KickIf(TRUE, enabled)
      BY <2>4 DEF HandlerOutcome, Commit
    <3> QED
      BY <2>4, <3>1, KickIsHeard DEF HandlerOutcome
  <2> QED
    BY <1>9, <2>1, <2>2, <2>3, <2>4 DEF Handler
<1>10. CASE UNCHANGED vars
  BY <1>1, <1>10 DEF vars, Invoked
<1> QED
  BY <1>3, <1>4, <1>5, <1>6, <1>7, <1>8, <1>9, <1>10 DEF Next, DrainLoop

\* Between a kick, the drain loop's own flags and a reserve that waits for the
\* line, no wakeup is lost: while the scheduler runs and storage has rejected
\* nothing, work that could be reserved always has someone about to reserve it.
THEOREM WakeupsAreKept == Spec => []NoLostWakeup
<1>1. Init => NoLostWakeup
  BY DEF Init, NoLostWakeup
<1>2. TypeOK /\ NoLostWakeup /\ [Next]_vars => NoLostWakeup'
  BY WakeupStep
<1> QED
  BY <1>1, <1>2, TypeCorrect, PTL DEF Spec
-----------------------------------------------------------------------------
(* The refinement of the ownership contract.                               *)

\* The contract's operators are those of the same tree.
LEMMA SameRecords ==
  /\ Lifecycle!Record = Record
  /\ Lifecycle!Outcome = Outcome
  /\ Lifecycle!LiveStatus = LiveStatus
  /\ Lifecycle!Absent = Absent
  /\ \A r : Lifecycle!Marked(r) = Marked(r)
  /\ \A r, s : Lifecycle!WithState(r, s) = WithState(r, s)
  BY DEF Lifecycle!Record, Record, Lifecycle!Outcome, Outcome, Lifecycle!Status, Status,
         Lifecycle!LiveStatus, LiveStatus, Lifecycle!Absent, Absent, Lifecycle!Marked,
         Marked, Lifecycle!WithState, WithState

LEMMA SameWalks ==
  /\ Lifecycle!Above = Above
  /\ \A t : Lifecycle!ParentOf(t) = ParentOf(t)
  BY DEF Lifecycle!Above, Above, Lifecycle!ParentOf, ParentOf, Lifecycle!Node, Node

LEMMA SameOwners == Lifecycle!OrdinaryOwners = OrdinaryOwners
<1>1. \A walk : Lifecycle!OrdinaryReach(walk) = OrdinaryReach(walk)
  BY DEF Lifecycle!OrdinaryReach, OrdinaryReach
<1>2. Lifecycle!OrdinaryAbove = OrdinaryAbove
  BY <1>1, SameWalks DEF Lifecycle!OrdinaryAbove, OrdinaryAbove, Lifecycle!Node, Node
<1> QED
  BY <1>2, SameWalks DEF Lifecycle!OrdinaryOwners, OrdinaryOwners

LEMMA SameWork == \A recs, t : Lifecycle!OwnedLive(recs, t) = OwnedLive(recs, t)
  BY SameOwners, SameRecords DEF Lifecycle!OwnedLive, OwnedLive, Lifecycle!Live, Live

LEMMA SameStart ==
  Init => Lifecycle!Init
  BY SameRecords DEF Init, Lifecycle!Init
-----------------------------------------------------------------------------
\* A record carries an outcome exactly while it is held back or terminal.
OutcomesMatch ==
  \A t \in Task : IF rec[t].status \in {"completing", "terminal"}
                  THEN rec[t].outcome \in Outcome
                  ELSE rec[t].outcome = "none"

LEMMA OutcomesMatchInit == Init => OutcomesMatch
  BY DEF Init, OutcomesMatch, Absent

LEMMA OutcomesMatchStep ==
  ASSUME OutcomesMatch, Lifecycle!Next
  PROVE  OutcomesMatch'
<1> SUFFICES ASSUME NEW t \in Task
             PROVE  (IF rec[t].status \in {"completing", "terminal"}
                     THEN rec[t].outcome \in Outcome
                     ELSE rec[t].outcome = "none")'
  BY DEF OutcomesMatch
<1>1. Lifecycle!TaskStep(t)
  BY DEF Lifecycle!Next
<1>2. CASE rec'[t] = rec[t]
  BY <1>2 DEF OutcomesMatch
<1>3. CASE Lifecycle!Created(t)
  BY <1>3, SameRecords DEF Lifecycle!Created, WithState, Absent
<1>4. CASE Lifecycle!Moved(t)
  BY <1>4 DEF Lifecycle!Moved
<1>5. CASE Lifecycle!Held(t)
  BY <1>5, SameRecords DEF Lifecycle!Held
<1>6. CASE Lifecycle!MarkedWhileHeld(t)
  <2>1. rec[t].outcome \in Outcome
    BY <1>6 DEF Lifecycle!MarkedWhileHeld, OutcomesMatch
  <2>2. rec'[t] = [rec[t] EXCEPT !.mark = TRUE]
    BY <1>6, SameRecords DEF Lifecycle!MarkedWhileHeld, Marked
  <2>3. rec'[t].outcome = rec[t].outcome /\ rec'[t].status = rec[t].status
    BY <2>2
  <2> QED
    BY <1>6, <2>1, <2>3 DEF Lifecycle!MarkedWhileHeld
<1>7. CASE Lifecycle!Settled(t)
  BY <1>7, SameRecords DEF Lifecycle!Settled
<1> QED
  BY <1>1, <1>2, <1>3, <1>4, <1>5, <1>6, <1>7 DEF Lifecycle!TaskStep
-----------------------------------------------------------------------------
(* The ways a commit writes one record.                                    *)

Active == {"pending", "running", "waiting"}

LEMMA FewerLive ==
  ASSUME NEW recs, NEW t, Live(rec') \subseteq Live(recs)
  PROVE  OwnedLive(rec', t) \subseteq OwnedLive(recs, t)
  BY DEF OwnedLive

\* create_task.
LEMMA CreatedStep ==
  ASSUME TypeOK, NEW new, NEW next, NEW t \in new, t \in Task, MayCreate(new, next),
         rec' = next, convs \subseteq convs', next[t] = WithState(Absent, "pending")
  PROVE  Lifecycle!TaskStep(t)
<1>1. Lifecycle!Created(t)
  BY SameRecords DEF MayCreate, Lifecycle!Created, Lifecycle!AcceptsWork
<1> QED
  BY <1>1 DEF Lifecycle!TaskStep

\* with_state from a state that holds no outcome.
LEMMA MovedStep ==
  ASSUME NEW t \in Task, NEW status \in {"pending", "running"},
         rec[t].status \in Active, rec'[t] = WithState(rec[t], status)
  PROVE  Lifecycle!TaskStep(t)
<1>1. Lifecycle!Moved(t)
  BY DEF Active, WithState, Absent, Lifecycle!Moved
<1> QED
  BY <1>1 DEF Lifecycle!TaskStep

\* A running task's wait.
LEMMA WaitStep ==
  ASSUME NEW t \in Task, NEW on, NEW failFast,
         rec[t].status = "running", rec'[t] = WaitingState(rec[t], on, failFast)
  PROVE  Lifecycle!TaskStep(t)
<1>1. Lifecycle!Moved(t)
  BY DEF WaitingState, WithState, Absent, Lifecycle!Moved
<1> QED
  BY <1>1 DEF Lifecycle!TaskStep

\* An abort mark on a live task.
LEMMA MarkedStep ==
  ASSUME TypeOK, OutcomesMatch, NEW t \in Task, t \in Live(rec), rec'[t] = Marked(rec[t])
  PROVE  Lifecycle!TaskStep(t)
<1>1. rec[t] \in Record
  BY DEF TypeOK
<1>2. rec'[t].status = rec[t].status /\ rec'[t].outcome = rec[t].outcome /\ rec'[t].mark
  BY <1>1 DEF Marked, Record
<1>3. CASE rec[t].status = "completing"
  BY <1>3, SameRecords DEF Lifecycle!TaskStep, Lifecycle!MarkedWhileHeld
<1>4. CASE rec[t].status # "completing"
  <2>1. rec[t].status \in Active
    BY <1>4 DEF Live, LiveStatus, Active
  <2>2. rec'[t].outcome = "none"
    BY <1>2, <2>1 DEF OutcomesMatch, Active
  <2>3. Lifecycle!Moved(t)
    BY <1>2, <2>1, <2>2 DEF Lifecycle!Moved, Active
  <2> QED
    BY <2>3 DEF Lifecycle!TaskStep
<1> QED
  BY <1>3, <1>4

\* terminate: an outcome for a task that has none, against the records recs.
LEMMA FinishedStep ==
  ASSUME NEW t \in Task, NEW outcome \in Outcome, NEW recs,
         rec[t].status \in Active, rec'[t] = Finish(recs, t, outcome),
         Live(rec') \subseteq Live(recs),
         OwnedLive(recs, t) # {} => OwnedLive(rec', t) # {}
  PROVE  Lifecycle!TaskStep(t)
<1>1. /\ rec'[t].outcome = outcome
      /\ rec'[t].mark = rec[t].mark
      /\ rec'[t].status = IF OwnedLive(recs, t) = {} THEN "terminal" ELSE "completing"
  BY DEF Finish, WithOutcome, Absent
<1>2. CASE OwnedLive(recs, t) = {}
  <2>1. OwnedLive(rec', t) = {}
    BY <1>2, FewerLive
  <2>2. Lifecycle!Settled(t)
    BY <1>1, <1>2, <2>1, SameRecords, SameWork DEF Lifecycle!Settled, Active, LiveStatus
  <2> QED
    BY <2>2 DEF Lifecycle!TaskStep
<1>3. CASE OwnedLive(recs, t) # {}
  <2>1. Lifecycle!Held(t)
    BY <1>1, <1>3, SameRecords, SameWork DEF Lifecycle!Held, Active
  <2> QED
    BY <2>1 DEF Lifecycle!TaskStep
<1> QED
  BY <1>2, <1>3

\* A commit that keeps the conversations.
LEMMA TaskCommit ==
  ASSUME TypeOK, TypeOK', convs' = convs, \A t \in Task : Lifecycle!TaskStep(t)
  PROVE  Lifecycle!Next
  BY SameRecords DEF Lifecycle!Next, Lifecycle!ConversationStep, TypeOK
-----------------------------------------------------------------------------
(* Every commit is a step of the contract.                                 *)

Promised == Lifecycle!Next \/ UNCHANGED <<rec, convs>>

LEMMA WorkPromised ==
  ASSUME TypeOK, OutcomesMatch, TypeOK', Work
  PROVE  Promised
<1> USE DEF durable
<1>0. rec \in [Task -> Record]
  BY DEF TypeOK
<1>1. ASSUME NEW t \in Task, CreateTask(t)
      PROVE  Promised
  <2> DEFINE next == WithNew(rec, {t})
  <2>1. rec' = next /\ convs' = convs /\ MayCreate({t}, next)
    BY <1>1 DEF CreateTask, Commit
  <2>2. next[t] = WithState(Absent, "pending")
        /\ \A x \in Task \ {t} : next[x] = rec[x]
    BY DEF WithNew
  <2> HIDE DEF next
  <2>3. Lifecycle!TaskStep(t)
    BY <2>1, <2>2, CreatedStep
  <2>4. \A x \in Task \ {t} : Lifecycle!TaskStep(x)
    BY <2>1, <2>2 DEF Lifecycle!TaskStep
  <2> QED
    BY <2>1, <2>3, <2>4, TaskCommit DEF Promised
<1>2. ASSUME NEW t \in Task, Abort(t)
      PROVE  Promised
  <2> DEFINE orphan == /\ ~Invoked(t)
                       /\ rec[t].status # "completing"
                       /\ OwnedLive(rec, t) = {}
                       /\ t \in blocked
  <2>1. /\ rec' = [rec EXCEPT ![t] = IF orphan THEN Finish(rec, t, "failed") ELSE Marked(@)]
        /\ convs' = convs
        /\ t \in Live(rec)
    BY <1>2 DEF Abort, Commit
  <2>2. \A x \in Task \ {t} : rec'[x] = rec[x]
    BY <1>0, <2>1
  <2>3. CASE orphan
    <3>1. rec'[t] = Finish(rec, t, "failed") /\ OwnedLive(rec, t) = {}
      BY <1>0, <2>1, <2>3
    <3>2. rec[t].status \in Active
      BY <2>1, <2>3 DEF Live, LiveStatus, Active
    <3>3. Live(rec') \subseteq Live(rec)
      BY <2>1, <2>2 DEF Live
    <3>4. Lifecycle!TaskStep(t)
      BY <3>1, <3>2, <3>3, FinishedStep DEF Outcome
    <3>5. \A x \in Task : Lifecycle!TaskStep(x)
      BY <2>2, <3>4 DEF Lifecycle!TaskStep
    <3> QED
      BY <2>1, <3>5, TaskCommit DEF Promised
  <2>4. CASE ~orphan
    <3>1. rec'[t] = Marked(rec[t])
      BY <1>0, <2>1, <2>4
    <3>2. Lifecycle!TaskStep(t)
      BY <2>1, <3>1, MarkedStep
    <3>3. \A x \in Task : Lifecycle!TaskStep(x)
      BY <2>2, <3>2 DEF Lifecycle!TaskStep
    <3> QED
      BY <2>1, <3>3, TaskCommit DEF Promised
  <2> QED
    BY <2>3, <2>4
<1>3. ASSUME NEW c \in Conversation, CreateConversation(c)
      PROVE  Promised
  <2>1. rec' = rec /\ convs' = convs \cup {c} /\ c \notin convs
    BY <1>3 DEF CreateConversation, Commit
  <2>2. \A t \in Task : Lifecycle!TaskStep(t)
    BY <2>1 DEF Lifecycle!TaskStep
  <2>3. Lifecycle!ConversationStep(c)
    BY <1>3, <2>1 DEF CreateConversation, Lifecycle!ConversationStep, Lifecycle!AcceptsWork
  <2>4. \A d \in Conversation \ {c} : Lifecycle!ConversationStep(d)
    BY <2>1 DEF Lifecycle!ConversationStep
  <2> QED
    BY <2>2, <2>3, <2>4, SameRecords DEF Promised, Lifecycle!Next, TypeOK
<1>4. ASSUME NEW c \in Conversation, QueueInput(c)
      PROVE  Promised
  BY <1>4 DEF QueueInput, Commit, Promised
<1>5. ASSUME NEW c \in Conversation, NEW background \in BOOLEAN,
             AbortConversation(c, background)
      PROVE  Promised
  <2>1. PICK marks \in SUBSET Live(rec) :
          rec' = [t \in Task |-> IF t \in marks THEN Marked(rec[t]) ELSE rec[t]]
    BY <1>5 DEF AbortConversation, Commit
  <2>2. convs' = convs
    BY <1>5 DEF AbortConversation, Commit
  <2>3. ASSUME NEW t \in Task
        PROVE  Lifecycle!TaskStep(t)
    <3>1. CASE t \in marks
      BY <2>1, <3>1, MarkedStep
    <3>2. CASE t \notin marks
      BY <2>1, <3>2 DEF Lifecycle!TaskStep
    <3> QED
      BY <3>1, <3>2
  <2> QED
    BY <2>2, <2>3, TaskCommit DEF Promised
<1> QED
  BY <1>1, <1>2, <1>3, <1>4, <1>5
     DEF Work, WaitForIdle, Resume, Seal, RegistryChange, Promised

LEMMA DrainPromised ==
  ASSUME TypeOK, OutcomesMatch, TypeOK', DrainLoop
  PROVE  Promised
<1> USE DEF durable
<1>1. CASE Reserve /\ enabled /\ ~closing
  <2> DEFINE writes == Orphans \cup {t \in Startable : rec[t].status # "running"}
  <2>1. /\ rec' = [t \in Task |-> IF t \in Orphans THEN Finish(rec, t, "failed")
                                  ELSE IF t \in writes THEN WithState(rec[t], "running")
                                  ELSE rec[t]]
        /\ convs' = convs
    BY <1>1 DEF Reserve
  <2>2. \A t \in writes : t \in Task /\ t \in Live(rec) /\ rec[t].status \in Active
    BY DEF Orphans, Startable, Reservable, Live, LiveStatus, Active
  <2>3. Live(rec') \subseteq Live(rec)
    BY <2>1, <2>2 DEF Live
  <2>4. \A t \in Orphans : OwnedLive(rec, t) = {}
    BY DEF Orphans, Reservable, WaitingOn
  <2>5. ASSUME NEW t \in Task
        PROVE  Lifecycle!TaskStep(t)
    <3>1. CASE t \in Orphans
      <4>1. rec'[t] = Finish(rec, t, "failed") /\ rec[t].status \in Active
        BY <2>1, <2>2, <3>1
      <4> QED
        BY <2>3, <2>4, <3>1, <4>1, FinishedStep DEF Outcome
    <3>2. CASE t \in writes \ Orphans
      <4>1. rec'[t] = WithState(rec[t], "running") /\ rec[t].status \in Active
        BY <2>1, <2>2, <3>2
      <4> QED
        BY <4>1, MovedStep
    <3>3. CASE t \notin writes
      BY <2>1, <3>3 DEF Lifecycle!TaskStep
    <3> QED
      BY <3>1, <3>2, <3>3
  <2> QED
    BY <2>1, <2>5, TaskCommit DEF Promised
<1>2. CASE Reserve /\ (~enabled \/ closing)
  BY <1>2 DEF Reserve, Promised
<1> QED
  BY <1>1, <1>2 DEF DrainLoop, DrainTop, DrainExit, Promised

LEMMA CoroutinePromised ==
  ASSUME TypeOK, OutcomesMatch, TypeOK', NEW t \in Task, Coroutine(t)
  PROVE  Promised
<1> USE DEF durable
<1>1. CASE StepWrites(t)
  <2>1. /\ rec' = [rec EXCEPT ![t] = IF MustFault(t) THEN Finish(rec, t, "failed")
                                     ELSE WithState(@, "pending")]
        /\ convs' = convs
    BY <1>1 DEF StepWrites, Commit
  <2>2. rec[t].status \in Active
    BY <1>1 DEF StepWrites, MustFault, Rebinds, MustEnd, Active
  <2>3. \A x \in Task \ {t} : rec'[x] = rec[x]
    BY <2>1 DEF TypeOK
  <2>4. Lifecycle!TaskStep(t)
    <3>1. CASE MustFault(t)
      <4>1. rec'[t] = Finish(rec, t, "failed")
        BY <2>1, <3>1 DEF TypeOK
      <4>2. Live(rec') \subseteq Live(rec)
        BY <2>2, <2>3 DEF Live, LiveStatus, Active
      <4>3. OwnedLive(rec, t) # {} => Live(rec') = Live(rec)
        BY ZenonT(60), <2>2, <2>3, <4>1
           DEF Live, LiveStatus, Active, Finish, WithOutcome, Absent
      <4>4. OwnedLive(rec, t) # {} => OwnedLive(rec', t) # {}
        BY <4>3 DEF OwnedLive
      <4> QED
        BY <2>2, <4>1, <4>2, <4>4, FinishedStep DEF Outcome
    <3>2. CASE ~MustFault(t)
      <4>1. rec'[t] = WithState(rec[t], "pending")
        BY <2>1, <3>2 DEF TypeOK
      <4> QED
        BY <2>2, <4>1, MovedStep
    <3> QED
      BY <3>1, <3>2
  <2>5. \A x \in Task : Lifecycle!TaskStep(x)
    BY <2>3, <2>4 DEF Lifecycle!TaskStep
  <2> QED
    BY <2>1, <2>5, TaskCommit DEF Promised
<1> QED
  BY <1>1 DEF Coroutine, StepEnds, StepContinues, FinishInvocation, Promised

LEMMA HandlerPromised ==
  ASSUME TypeOK, OutcomesMatch, TypeOK', NEW t \in Task, Handler(t)
  PROVE  Promised
<1> USE DEF durable
\* A commit of t's handler that creates the tasks in new and gives t the record r.
<1>1. ASSUME NEW new \in SUBSET Task, NEW r, Gated(t),
             rec' = [WithNew(rec, new) EXCEPT ![t] = r],
             convs' = convs, MayCreate(new, rec'),
             rec'[t] = r => Lifecycle!TaskStep(t)
      PROVE  Promised
  <2>1. t \notin new
    BY <1>1 DEF Gated, MayCreate
  <2>2. rec'[t] = r
    BY <1>1 DEF WithNew
  <2>3. \A x \in new : rec'[x] = WithState(Absent, "pending")
    BY <1>1, <2>1 DEF WithNew
  <2>4. \A x \in new : Lifecycle!TaskStep(x)
    BY <1>1, <2>3, CreatedStep
  <2>5. \A x \in Task : x \notin new /\ x # t => rec'[x] = rec[x]
    BY <1>1 DEF WithNew
  <2>6. \A x \in Task : Lifecycle!TaskStep(x)
    BY <1>1, <2>2, <2>4, <2>5 DEF Lifecycle!TaskStep
  <2> QED
    BY <1>1, <2>6, TaskCommit DEF Promised
<1>2. ASSUME NEW fails \in BOOLEAN, HandlerReturns(t, fails)
      PROVE  Promised
  BY <1>2 DEF HandlerReturns, Promised
<1>3. ASSUME NEW new \in SUBSET Task, NEW moved \in BOOLEAN, HandlerProgress(t, new, moved)
      PROVE  Promised
  <2>1. /\ rec' = WithNew(rec, new) /\ convs' = convs
        /\ Gated(t) /\ MayCreate(new, rec')
    BY <1>3 DEF HandlerProgress, Commit
  <2>2. t \notin new
    BY <2>1 DEF Gated, MayCreate
  <2>3. rec'[t] = rec[t] /\ rec' = [WithNew(rec, new) EXCEPT ![t] = rec[t]]
    BY <2>1, <2>2 DEF WithNew
  <2> QED
    BY <1>1, <2>1, <2>3 DEF Lifecycle!TaskStep
<1>4. ASSUME NEW new \in SUBSET Task, NEW on \in SUBSET Task, NEW failFast \in BOOLEAN,
             HandlerWait(t, new, on, failFast)
      PROVE  Promised
  <2>1. /\ rec' = [WithNew(rec, new) EXCEPT ![t] = WaitingState(@, on, failFast)]
        /\ convs' = convs /\ Gated(t) /\ MayCreate(new, rec')
    BY <1>4 DEF HandlerWait, Commit
  <2>2. t \notin new /\ rec[t].status = "running"
    BY <2>1 DEF Gated, MayCreate
  <2>3. rec' = [WithNew(rec, new) EXCEPT ![t] = WaitingState(rec[t], on, failFast)]
    BY <2>1, <2>2 DEF WithNew
  <2>4. rec'[t] = WaitingState(rec[t], on, failFast) => Lifecycle!TaskStep(t)
    BY <2>2, WaitStep
  <2> QED
    BY <1>1, <2>1, <2>3, <2>4
<1>5. ASSUME NEW new \in SUBSET Task, NEW outcome \in Outcome, HandlerOutcome(t, new, outcome)
      PROVE  Promised
  <2> DEFINE recs == WithNew(rec, new)
  <2>1. /\ rec' = [recs EXCEPT ![t] = Finish(recs, t, outcome)]
        /\ convs' = convs /\ Gated(t) /\ MayCreate(new, rec')
    BY <1>5 DEF HandlerOutcome, Commit
  <2>2. t \notin new /\ rec[t].status = "running"
    BY <2>1 DEF Gated, MayCreate
  <2>3. recs[t] = rec[t] /\ DOMAIN recs = Task
    BY <2>2 DEF WithNew
  <2> HIDE DEF recs
  <2>4. ASSUME rec'[t] = Finish(recs, t, outcome)
        PROVE  Lifecycle!TaskStep(t)
    <3>1. \A x \in Task \ {t} : rec'[x] = recs[x]
      BY <2>1, <2>3
    <3>2. Live(rec') \subseteq Live(recs)
      BY <2>2, <2>3, <3>1 DEF Live, LiveStatus
    <3>3. OwnedLive(recs, t) # {} => Live(rec') = Live(recs)
      <4>1. OwnedLive(recs, t) # {} => rec'[t].status = "completing"
        BY <2>4 DEF Finish, WithOutcome, Absent
      <4>2. recs[t].status = "running"
        BY <2>2, <2>3
      <4> QED
        BY <3>1, <4>1, <4>2 DEF Live, LiveStatus
    <3>4. OwnedLive(recs, t) # {} => OwnedLive(rec', t) # {}
      BY <3>3 DEF OwnedLive
    <3> QED
      BY <2>2, <2>4, <3>2, <3>4, FinishedStep DEF Active
  <2>5. rec' = [WithNew(rec, new) EXCEPT ![t] = Finish(recs, t, outcome)]
    BY <2>1 DEF recs
  <2> QED
    BY <1>1, <2>1, <2>4, <2>5
<1> QED
  BY <1>2, <1>3, <1>4, <1>5 DEF Handler

\* Held tasks settle together: what is live below one of them, over any number of
\* levels, is held back too and settles in the same commit.
LEMMA FinalizedOwnNothing ==
  ASSUME NEW next, NEW t \in Finalized(rec),
         Live(next) \subseteq Live(rec) \ Finalized(rec)
  PROVE  OwnedLive(next, t) = {}
<1> SUFFICES ASSUME NEW x \in OwnedLive(next, t)
             PROVE  FALSE
  OBVIOUS
<1>1. x \in OwnedLive(rec, t) /\ x \in Task /\ x \notin Background /\ t \in OrdinaryOwners[x]
  BY DEF OwnedLive, Live
<1>2. rec[x].status = "completing"
  BY <1>1 DEF Finalized
<1>3. ASSUME NEW y \in OwnedLive(rec, x)
      PROVE  rec[y].status = "completing"
  <2>1. y \in Task /\ y \in Live(rec) \ Background /\ x \in OrdinaryOwners[y]
    BY DEF OwnedLive, Live
  <2>2. t \in OrdinaryOwners[y]
    BY <1>1, <2>1, OrdinaryOwnersNest
  <2> QED
    BY <2>1, <2>2 DEF Finalized, OwnedLive
<1>4. x \in Finalized(rec)
  BY <1>1, <1>2, <1>3 DEF Finalized
<1> QED
  BY <1>4 DEF OwnedLive

LEMMA ReconcilePromised ==
  ASSUME TypeOK, OutcomesMatch, TypeOK', Reconciler
  PROVE  Promised
<1> USE DEF durable
<1>1. CASE Reconcile
  <2>1. CASE UNCHANGED <<rec, convs>>
    BY <2>1 DEF Promised
  <2>2. CASE ~ UNCHANGED <<rec, convs>>
    <3> DEFINE marks == ReconcileMarks
               done  == Finalized(rec)
    <3>1. /\ rec' = [t \in Task |->
                       IF t \in done THEN WithOutcome(rec[t], "terminal", rec[t].outcome)
                       ELSE IF t \in marks THEN Marked(rec[t]) ELSE rec[t]]
          /\ convs' = convs
      BY <1>1, <2>2 DEF Reconcile, Commit
    <3>2. done \subseteq Task /\ \A t \in done : rec[t].status = "completing"
      BY DEF Finalized
    <3>3. marks \subseteq Live(rec)
      BY DEF ReconcileMarks
    <3>4. \A t \in Task \ done : rec'[t].status = rec[t].status
      BY <3>1, RecordTypes DEF TypeOK, Marked, Record
    <3>5. \A t \in done : /\ rec'[t].status = "terminal"
                          /\ rec'[t].outcome = rec[t].outcome
      BY <3>1, <3>2 DEF WithOutcome, Absent
    <3>6. Live(rec') \subseteq Live(rec) \ done
      BY <3>4, <3>5 DEF Live, LiveStatus
    <3>7. ASSUME NEW t \in Task
          PROVE  Lifecycle!TaskStep(t)
      <4>1. CASE t \in done
        <5>1. OwnedLive(rec', t) = {}
          BY <3>6, <4>1, FinalizedOwnNothing
        <5>2. rec[t].outcome \in Outcome
          BY <3>2, <4>1 DEF OutcomesMatch
        <5>3. Lifecycle!Settled(t)
          BY <3>2, <3>5, <4>1, <5>1, <5>2, SameRecords, SameWork
             DEF Lifecycle!Settled, LiveStatus
        <5> QED
          BY <5>3 DEF Lifecycle!TaskStep
      <4>2. CASE t \in marks \ done
        <5>1. rec'[t] = Marked(rec[t]) /\ t \in Live(rec)
          BY <3>1, <3>3, <4>2
        <5> QED
          BY <5>1, MarkedStep
      <4>3. CASE t \notin marks \cup done
        BY <3>1, <4>3 DEF Lifecycle!TaskStep
      <4> QED
        BY <4>1, <4>2, <4>3
    <3> QED
      BY <3>1, <3>7, TaskCommit DEF Promised
  <2> QED
    BY <2>1, <2>2
<1> QED
  BY <1>1 DEF Reconciler, ReconcileStarts, Promised

LEMMA FailuresPromised ==
  ASSUME TypeOK, OutcomesMatch, TypeOK', Failures
  PROVE  Promised
<1> USE DEF durable
<1>1. CASE Restart
  <2>1. /\ rec' = [t \in Task |-> IF rec[t].status = "running" THEN WithState(rec[t], "pending")
                                  ELSE rec[t]]
        /\ convs' = convs
    BY <1>1 DEF Restart
  <2>2. ASSUME NEW t \in Task
        PROVE  Lifecycle!TaskStep(t)
    <3>1. CASE rec[t].status = "running"
      BY <2>1, <3>1, MovedStep DEF Active
    <3>2. CASE rec[t].status # "running"
      BY <2>1, <3>2 DEF Lifecycle!TaskStep
    <3> QED
      BY <3>1, <3>2
  <2> QED
    BY <2>1, <2>2, TaskCommit DEF Promised
<1> QED
  BY <1>1 DEF Failures, ReserveFails, ReconcileFails, StepFails, Promised

LEMMA NextPromised ==
  ASSUME TypeOK, OutcomesMatch, TypeOK', [Next]_vars
  PROVE  Promised
<1>1. CASE Next
  BY <1>1, WorkPromised, DrainPromised, ReconcilePromised, FailuresPromised,
     CoroutinePromised, HandlerPromised DEF Next
<1>2. CASE UNCHANGED vars
  BY <1>2 DEF vars, Promised
<1> QED
  BY <1>1, <1>2

LEMMA OutcomesMatchKept ==
  ASSUME TypeOK, OutcomesMatch, TypeOK', [Next]_vars
  PROVE  OutcomesMatch'
<1>1. CASE Lifecycle!Next
  BY <1>1, OutcomesMatchStep
<1>2. CASE UNCHANGED <<rec, convs>>
  BY <1>2 DEF OutcomesMatch
<1> QED
  BY <1>1, <1>2, NextPromised DEF Promised

LEMMA Invariants == Spec => [](TypeOK /\ OutcomesMatch)
<1>1. Init => TypeOK /\ OutcomesMatch
  BY TypeInit, OutcomesMatchInit
<1>2. TypeOK /\ OutcomesMatch /\ [Next]_vars => (TypeOK /\ OutcomesMatch)'
  BY TypeStep, OutcomesMatchKept
<1> QED
  BY <1>1, <1>2, PTL DEF Spec

\* The scheduler implements the ownership contract: whatever the coroutines, the
\* storage rejections and the crashes do, in any order, every write of a task
\* record is one the contract allows; an outcome settles only when no ordinary
\* work below it is live, held outcomes settle as they were decided, work is
\* created only under an owner that accepts it.
THEOREM Refinement == Spec => LifecycleSpec
<1>1. Init => Lifecycle!Init
  BY SameStart
<1>2. TypeOK /\ OutcomesMatch /\ (TypeOK /\ OutcomesMatch)' /\ [Next]_vars
        => [Lifecycle!Next]_Lifecycle!vars
  BY NextPromised DEF Promised, Lifecycle!vars
<1> QED
  BY <1>1, <1>2, Invariants, PTL DEF Spec, LifecycleSpec, Lifecycle!Spec
-----------------------------------------------------------------------------
(* What the contract promises, the scheduler keeps.                        *)

Contract == INSTANCE TaskLifecycle_proofs WITH rec <- rec, convs <- convs

LEMMA ContractWalks ==
  /\ Contract!Above = Above
  /\ Contract!Node = Node
  /\ \A t : Contract!ParentOf(t) = ParentOf(t)
  BY DEF Contract!Above, Above, Contract!ParentOf, ParentOf, Contract!Node, Node

LEMMA ContractTree ==
  /\ Contract!OwnershipShape
  /\ Contract!WalksEnd
<1>1. Contract!OwnershipShape
  BY OwnershipShape, ContractWalks
<1>2. Contract!WalksEnd
  BY WalksEnd, ContractWalks
<1> QED
  BY <1>1, <1>2

\* The two instances of the contract, one of them with its theorems, say the same.
LEMMA ContractRecords ==
  /\ Contract!Record = Record
  /\ Contract!Outcome = Outcome
  /\ Contract!LiveStatus = LiveStatus
  /\ Contract!Absent = Absent
  /\ \A r : Contract!Marked(r) = Marked(r)
  /\ \A r, s : Contract!WithState(r, s) = WithState(r, s)
  BY DEF Contract!Record, Record, Contract!Outcome, Outcome, Contract!Status, Status,
         Contract!LiveStatus, LiveStatus, Contract!Absent, Absent, Contract!Marked,
         Marked, Contract!WithState, WithState

LEMMA ContractWork == \A recs, t : Contract!OwnedLive(recs, t) = OwnedLive(recs, t)
<1>1. Contract!OrdinaryOwners = OrdinaryOwners
  <2>1. \A walk : Contract!OrdinaryReach(walk) = OrdinaryReach(walk)
    BY DEF Contract!OrdinaryReach, OrdinaryReach
  <2>2. Contract!OrdinaryAbove = OrdinaryAbove
    BY <2>1, ContractWalks DEF Contract!OrdinaryAbove, OrdinaryAbove
  <2> QED
    BY <2>2, ContractWalks DEF Contract!OrdinaryOwners, OrdinaryOwners
<1> QED
  BY <1>1, ContractRecords DEF Contract!OwnedLive, OwnedLive, Contract!Live, Live

LEMMA ContractSteps ==
  \A t \in Task : Lifecycle!TaskStep(t) => Contract!TaskStep(t)
<1> SUFFICES ASSUME NEW t \in Task, Lifecycle!TaskStep(t)
             PROVE  Contract!TaskStep(t)
  OBVIOUS
<1> USE SameRecords, ContractRecords
<1>1. CASE rec'[t] = rec[t]
  BY <1>1 DEF Contract!TaskStep
<1>2. CASE Lifecycle!Created(t)
  <2>1. Contract!Created(t)
    BY <1>2 DEF Lifecycle!Created, Contract!Created, Lifecycle!AcceptsWork,
                Contract!AcceptsWork
  <2> QED
    BY <2>1 DEF Contract!TaskStep
<1>3. CASE Lifecycle!Moved(t)
  BY <1>3 DEF Lifecycle!Moved, Contract!Moved, Contract!TaskStep
<1>4. CASE Lifecycle!Held(t)
  <2>1. Contract!Held(t)
    BY <1>4, SameWork, ContractWork DEF Lifecycle!Held, Contract!Held
  <2> QED
    BY <2>1 DEF Contract!TaskStep
<1>5. CASE Lifecycle!MarkedWhileHeld(t)
  <2>1. Contract!MarkedWhileHeld(t)
    BY <1>5 DEF Lifecycle!MarkedWhileHeld, Contract!MarkedWhileHeld
  <2> QED
    BY <2>1 DEF Contract!TaskStep
<1>6. CASE Lifecycle!Settled(t)
  <2>1. Contract!Settled(t)
    BY <1>6, SameWork, ContractWork DEF Lifecycle!Settled, Contract!Settled
  <2> QED
    BY <2>1 DEF Contract!TaskStep
<1> QED
  BY <1>1, <1>2, <1>3, <1>4, <1>5, <1>6 DEF Lifecycle!TaskStep

LEMMA ContractImplied == LifecycleSpec => Contract!Spec
<1>1. Lifecycle!Init => Contract!Init
  BY SameRecords, ContractRecords DEF Lifecycle!Init, Contract!Init
<1>2. [Lifecycle!Next]_Lifecycle!vars => [Contract!Next]_Contract!vars
  <2>1. ASSUME Lifecycle!Next
        PROVE  Contract!Next
    <3>1. \A t \in Task : Contract!TaskStep(t)
      BY <2>1, ContractSteps DEF Lifecycle!Next
    <3>2. \A c \in Conversation : Contract!ConversationStep(c)
      BY <2>1 DEF Lifecycle!Next, Lifecycle!ConversationStep, Contract!ConversationStep,
                  Lifecycle!AcceptsWork, Contract!AcceptsWork
    <3> QED
      BY <2>1, <3>1, <3>2, SameRecords, ContractRecords DEF Lifecycle!Next, Contract!Next
  <2> QED
    BY <2>1 DEF Lifecycle!vars, Contract!vars
<1> QED
  BY <1>1, <1>2, PTL DEF LifecycleSpec, Lifecycle!Spec, Contract!Spec

\* No task of the scheduler settles before its children, and whatever is live or
\* was created under a task has its owner, through every cascade, failed commit
\* and restart.
THEOREM OwnersOutliveTheirWork == Spec => []OwnersOutliveWork
<1>1. Contract!Spec => []Contract!OwnersOutliveWork
  BY ContractTree, Contract!OwnersOutlive
<1>2. Contract!OwnersOutliveWork => OwnersOutliveWork
  BY ContractRecords, SameRecords
     DEF OwnersOutliveWork, Lifecycle!OwnersOutliveWork, Contract!OwnersOutliveWork,
         Contract!Exists, Lifecycle!Exists, Contract!Live, Lifecycle!Live
<1> QED
  BY <1>1, <1>2, Refinement, ContractImplied, PTL

\* No coroutine of the scheduler writes a record that has settled.
THEOREM SettledForGood == Spec => TerminalIsFinal
<1> DEFINE Kept == \A t \in Task : rec[t].status = "terminal" => rec'[t] = rec[t]
<1>1. [Lifecycle!Next]_Lifecycle!vars => [Kept]_Lifecycle!vars
  <2>1. ASSUME Lifecycle!Next, NEW t \in Task, rec[t].status = "terminal"
        PROVE  rec'[t] = rec[t]
    BY <2>1, SameRecords DEF Lifecycle!Next, Lifecycle!TaskStep, Lifecycle!Created,
       Lifecycle!Moved, Lifecycle!Held, Lifecycle!MarkedWhileHeld, Lifecycle!Settled,
       LiveStatus
  <2> QED
    BY <2>1 DEF Lifecycle!vars
<1> QED
  BY <1>1, Refinement, PTL DEF LifecycleSpec, Lifecycle!Spec, TerminalIsFinal,
                               Lifecycle!TerminalIsFinal
-----------------------------------------------------------------------------
(* Aborts run bottom-up.                                                   *)

\* A task under which no child can be created any more.
Closed(r) == r.status = "terminal" \/ (r.status # "absent" /\ r.mark)

\* What keeps it so: while an abort handler is registered its task is closed.
AbortsClosed ==
  \A t \in Task : inv[t].mode = "abort" =>
    /\ Closed(rec[t])
    /\ \A x \in Live(rec) : Owner[x] # t

\* Under the contract a closed task stays closed, and no child of it comes to life.
LEMMA ClosedStays ==
  ASSUME TypeOK, Promised, NEW t \in Task, Closed(rec[t]),
         \A x \in Live(rec) : Owner[x] # t
  PROVE  /\ Closed(rec'[t])
         /\ \A x \in Live(rec') : Owner[x] # t
<1>1. CASE UNCHANGED <<rec, convs>>
  BY <1>1 DEF Live
<1>2. CASE Lifecycle!Next
  <2>1. \A x \in Task : Lifecycle!TaskStep(x)
    BY <1>2 DEF Lifecycle!Next
  <2>2. Closed(rec'[t])
    <3>1. CASE rec'[t] = rec[t]
      BY <3>1
    <3>2. CASE Lifecycle!Created(t)
      BY <3>2 DEF Lifecycle!Created, Closed
    <3>3. CASE Lifecycle!Moved(t)
      BY <3>3 DEF Lifecycle!Moved, Closed
    <3>4. CASE Lifecycle!Held(t)
      BY <3>4 DEF Lifecycle!Held, Closed
    <3>5. CASE Lifecycle!MarkedWhileHeld(t)
      <4>1. rec[t] \in Record /\ rec'[t] = Marked(rec[t])
        BY <3>5, SameRecords DEF Lifecycle!MarkedWhileHeld, TypeOK
      <4>2. rec'[t].mark /\ rec'[t].status = rec[t].status
        BY <4>1 DEF Marked, Record
      <4> QED
        BY <3>5, <4>2 DEF Lifecycle!MarkedWhileHeld, Closed
    <3>6. CASE Lifecycle!Settled(t)
      BY <3>6 DEF Lifecycle!Settled, Closed
    <3> QED
      BY <2>1, <3>1, <3>2, <3>3, <3>4, <3>5, <3>6 DEF Lifecycle!TaskStep
  <2>3. ASSUME NEW x \in Live(rec'), Owner[x] = t
        PROVE  FALSE
    <3>1. x \in Task /\ x \notin Live(rec) /\ Lifecycle!TaskStep(x)
      BY <2>1, <2>3 DEF Live
    <3>2. Lifecycle!Created(x)
      BY <2>3, <3>1, SameRecords
         DEF Lifecycle!TaskStep, Live, Lifecycle!Moved, Lifecycle!Held,
             Lifecycle!MarkedWhileHeld, Lifecycle!Settled, LiveStatus
    <3>3. t # NoTask
      BY TreeTypes
    <3> QED
      BY <2>2, <2>3, <3>2, <3>3 DEF Lifecycle!Created, Lifecycle!AcceptsWork, Closed
  <2> QED
    BY <2>2, <2>3
<1> QED
  BY <1>1, <1>2 DEF Promised

\* Only a reserve registers an abort handler, for a task that owns nothing live.
LEMMA AbortsReserved ==
  ASSUME TypeOK, [Next]_vars, NEW t \in Task, inv'[t].mode = "abort"
  PROVE  \/ inv[t].mode = "abort"
         \/ Closed(rec[t]) /\ OwnedLive(rec, t) = {}
<1> USE DEF running, NoInvocation
<1>0. inv \in [Task -> Invocation]
  BY DEF TypeOK
<1>1. CASE Reserve
  <2>1. CASE inv' = inv
    BY <2>1
  <2>2. CASE inv' = [x \in Task |-> IF x \in Startable
                                   THEN [mode |-> IF rec[x].mark THEN "abort" ELSE "run",
                                         pc |-> "step", result |-> "first"]
                                   ELSE inv[x]]
    <3>1. CASE t \in Startable
      <4>1. rec[t].mark
        BY <2>2, <3>1
      <4>2. t \in Live(rec) /\ OwnedLive(rec, t) = {}
        BY <3>1, <4>1 DEF Startable, Reservable, WaitingOn
      <4> QED
        BY <4>1, <4>2 DEF Closed, Live, LiveStatus
    <3>2. CASE t \notin Startable
      BY <2>2, <3>2
    <3> QED
      BY <3>1, <3>2
  <2> QED
    BY <1>1, <2>1, <2>2 DEF Reserve
<1>2. CASE Restart
  BY <1>2 DEF Restart
<1>3. CASE UNCHANGED vars
  BY <1>3 DEF vars
<1>4. CASE Work
  BY <1>4 DEF Work, CreateTask, Abort, CreateConversation, QueueInput, WaitForIdle,
              AbortConversation, Resume, Seal, RegistryChange
<1>5. CASE DrainTop \/ DrainExit \/ Reconciler \/ ReserveFails \/ ReconcileFails
  BY <1>5 DEF DrainTop, DrainExit, Reconciler, ReconcileStarts, Reconcile, ReserveFails,
              ReconcileFails
<1>6. ASSUME NEW x \in Task, Coroutine(x) \/ StepFails(x)
      PROVE  inv[t].mode = "abort"
  <2>1. CASE End(x)
    BY <1>0, <2>1 DEF End
  <2>2. CASE StepContinues(x)
    BY <1>0, <2>2 DEF StepContinues, Invocation
  <2>3. CASE FinishInvocation(x)
    BY <2>3 DEF FinishInvocation
  <2> QED
    BY <1>6, <2>1, <2>2, <2>3 DEF Coroutine, StepEnds, StepWrites, StepFails
<1>7. ASSUME NEW x \in Task, Handler(x)
      PROVE  inv[t].mode = "abort"
  <2>1. CASE inv' = inv
    BY <2>1
  <2>2. ASSUME NEW fails \in BOOLEAN, HandlerReturns(x, fails)
        PROVE  inv[t].mode = "abort"
    BY <1>0, <2>2 DEF HandlerReturns, Invocation
  <2>3. ASSUME NEW new, NEW moved, HandlerProgress(x, new, moved)
        PROVE  inv[t].mode = "abort"
    BY <1>0, <2>3 DEF HandlerProgress, Invocation
  <2> QED
    BY <1>7, <2>1, <2>2, <2>3 DEF Handler, HandlerWait, HandlerOutcome
<1> QED
  BY <1>1, <1>2, <1>3, <1>4, <1>5, <1>6, <1>7 DEF Next, DrainLoop, Failures

LEMMA AbortsClosedStep ==
  ASSUME TypeOK, OutcomesMatch, TypeOK', AbortsClosed, [Next]_vars
  PROVE  AbortsClosed'
<1> SUFFICES ASSUME NEW t \in Task, inv'[t].mode = "abort"
             PROVE  /\ Closed(rec'[t])
                    /\ \A x \in Live(rec') : Owner[x] # t
  BY DEF AbortsClosed
<1>1. Closed(rec[t]) /\ \A x \in Live(rec) : Owner[x] # t
  <2>1. CASE inv[t].mode = "abort"
    BY <2>1 DEF AbortsClosed
  <2>2. CASE Closed(rec[t]) /\ OwnedLive(rec, t) = {}
    <3>1. ASSUME NEW x \in Live(rec), Owner[x] = t
          PROVE  FALSE
      <4>1. x \in Task /\ Owner[x] # NoTask
        BY <3>1, TreeTypes DEF Live
      <4>2. t \in OrdinaryOwners[x] /\ x \notin Background
        BY <3>1, <4>1, OwnerIsOrdinaryOwner
      <4> QED
        BY <2>2, <3>1, <4>2 DEF OwnedLive
    <3> QED
      BY <2>2, <3>1
  <2> QED
    BY <2>1, <2>2, AbortsReserved
<1>2. Promised
  BY NextPromised
<1> QED
  BY <1>1, <1>2, ClosedStays

\* From the moment an abort handler is reserved until it is through, none of the
\* task's own children is live and none can be created, so that aborts run from
\* the leaves of the ownership tree up.
THEOREM BottomUp == Spec => []AbortsBottomUp
<1>1. Init => AbortsClosed
  BY DEF Init, AbortsClosed, NoInvocation
<1>2. /\ TypeOK /\ OutcomesMatch /\ (TypeOK /\ OutcomesMatch)'
      /\ AbortsClosed /\ [Next]_vars
      => AbortsClosed'
  BY AbortsClosedStep
<1>3. AbortsClosed => AbortsBottomUp
  BY DEF AbortsClosed, AbortsBottomUp
<1> QED
  BY <1>1, <1>2, <1>3, Invariants, PTL DEF Spec
-----------------------------------------------------------------------------
(* What the commit listener notes.  Every step but four either leaves the  *)
(* records and the lists alone or is a commit the listener is told of.     *)

\* The listener was told of the records that moved.
Heard(written) ==
  /\ written \subseteq Task
  /\ \A t \in Task \ written : rec'[t] = rec[t]
  /\ \E opened, submitted, loaded : Observe(written, rec', opened, submitted, loaded)

Silent  == UNCHANGED <<rec, checks, cascade>> /\ (flag => flag')
SameJob == job'.queued = job.queued /\ job'.checks = job.checks

Told == /\ closing' = closing \/ closing'
        /\ Silent \/ \E written : Heard(written)

\* schedule_reconcile, and what each loop of observe adds.
LEMMA ListenerNotes ==
  ASSUME NEW written, Heard(written)
  PROVE  /\ flag => flag'
         /\ cascade => cascade'
         /\ ~closing => \A t \in written :
              \/ flag'
              \/ /\ rec'[t].status # "terminal"
                 /\ rec'[t].status = "completing" => rec[t].status = "completing"
         /\ \A t \in written : rec'[t].status # "terminal" =>
              /\ rec'[t].mark /\ ~rec[t].mark => cascade'
              /\ /\ rec'[t].status = "completing" /\ rec[t].status # "completing"
                 /\ CancellationIntent(rec'[t])
                 => cascade'
              /\ /\ ~closing /\ t \notin Background
                 /\ ~rec'[t].mark /\ BelowCancelled(rec', ParentOf(t))
                 => cascade' \/ flag'
              /\ rec'[t].status = "waiting" /\ rec'[t].failFast /\ rec[t].status # "waiting"
                 => t \in checks'
         /\ \A t \in checks : rec'[t].status # "terminal" => t \in checks'
         /\ FailFastHit(written, rec') \subseteq checks'
<1> PICK opened, submitted, loaded : Observe(written, rec', opened, submitted, loaded)
  BY DEF Heard
<1> DEFINE edges  == loaded \cup opened
           gone   == {t \in written : rec'[t].status = "terminal"}
           here   == written \ gone
           held   == {t \in here : rec'[t].status = "completing"
                                     /\ rec[t].status # "completing"}
           failFast == {t \in here : rec'[t].status = "waiting" /\ rec'[t].failFast
                                       /\ rec[t].status # "waiting"}
           hit    == FailFastHit(written, rec')
           lost   == {t \in here : ~ChainKnown(ParentOf(t), edges)}
           cascades == \/ \E t \in here : rec'[t].mark /\ ~rec[t].mark
                       \/ \E t \in held : CancellationIntent(rec'[t])
                       \/ \E c \in submitted : ~ChainKnown(c, edges) \/ BelowCancelled(rec', c)
                       \/ WrittenBelowCancelled(here \ lost, rec') # {}
           wanted == \/ gone # {} \/ held # {} \/ failFast # {} \/ hit # {} \/ lost # {}
                     \/ cascade \/ cascades
<1>1. /\ checks' = (checks \ gone) \cup failFast \cup hit
      /\ cascade' = (cascade \/ cascades)
      /\ flag' = (flag \/ (wanted /\ ~closing))
  BY DEF Observe
<1>2. (flag => flag') /\ (cascade => cascade')
  BY <1>1
<1>3. ASSUME ~closing, NEW t \in written
      PROVE  \/ flag'
             \/ /\ rec'[t].status # "terminal"
                /\ rec'[t].status = "completing" => rec[t].status = "completing"
  <2>1. ~flag' => gone = {} /\ held = {}
    BY <1>1, <1>3
  <2> QED
    BY <1>3, <2>1
<1>4. ASSUME NEW t \in written, rec'[t].status # "terminal"
      PROVE  t \in here
  BY <1>4
<1>5. ASSUME NEW t \in here
      PROVE  /\ rec'[t].mark /\ ~rec[t].mark => cascade'
             /\ /\ rec'[t].status = "completing" /\ rec[t].status # "completing"
                /\ CancellationIntent(rec'[t])
                => cascade'
  <2>1. t \in held \/ ~(rec'[t].status = "completing" /\ rec[t].status # "completing")
    BY <1>5
  <2> HIDE DEF held, here, gone, lost
  <2> QED
    BY <1>1, <1>5, <2>1
<1>6. ASSUME NEW t \in here, ~closing, t \notin Background,
             ~rec'[t].mark, BelowCancelled(rec', ParentOf(t))
      PROVE  cascade' \/ flag'
  <2>1. CASE t \in lost
    <3>1. lost # {}
      BY <2>1
    <3> HIDE DEF lost, gone, held, failFast, hit, cascades
    <3> QED
      BY <1>1, <1>6, <3>1
  <2>2. CASE t \notin lost
    <3>1. t \in WrittenBelowCancelled(here \ lost, rec')
      BY <1>6, <2>2 DEF WrittenBelowCancelled
    <3> HIDE DEF lost, gone, held, here, failFast, hit
    <3> QED
      BY <1>1, <3>1
  <2> QED
    BY <2>1, <2>2
<1>7. ASSUME NEW t \in here, rec'[t].status = "waiting", rec'[t].failFast,
             rec[t].status # "waiting"
      PROVE  t \in checks'
  <2>1. t \in failFast
    BY <1>7
  <2> HIDE DEF failFast, gone, hit
  <2> QED
    BY <1>1, <2>1
<1>8. /\ \A t \in checks : rec'[t].status # "terminal" => t \in checks'
      /\ hit \subseteq checks'
  BY <1>1
<1> HIDE DEF gone, here, held, failFast, lost, cascades, wanted
<1> QED
  BY <1>2, <1>3, <1>4, <1>5, <1>6, <1>7, <1>8

LEMMA CommitTold ==
  ASSUME NEW written, written \subseteq Task, NEW next, NEW opened, NEW submitted, NEW loaded,
         Commit(written, next, opened, submitted, loaded),
         \A t \in Task \ written : next[t] = rec[t]
  PROVE  Heard(written)
  BY DEF Commit, Heard

LEMMA TurnsKeepTheJob ==
  ASSUME TypeOK, NEW x, Leaves(x)
  PROVE  SameJob
  BY DEF TypeOK, Leaves, Job, SameJob

LEMMA StepsTold ==
  ASSUME TypeOK, [Next]_vars
  PROVE  \/ Restart \/ ReconcileStarts \/ ReconcileFails \/ Reconcile
         \/ SameJob /\ Told
<1> USE DEF durable, tables, switches, drainer, reconcile, running, world, counters
<1>0. rec \in [Task -> Record]
  BY DEF TypeOK
<1>1. ASSUME UNCHANGED <<rec, checks, cascade, flag, closing>>
      PROVE  Told
  BY <1>1 DEF Told, Silent
<1>2. ASSUME UNCHANGED job
      PROVE  SameJob
  BY <1>2 DEF SameJob
<1>3. ASSUME NEW written, Heard(written), closing' = closing
      PROVE  Told
  BY <1>3 DEF Told
<1>4. CASE Work
  <2>1. ASSUME NEW t \in Task, CreateTask(t)
        PROVE  Told
    <3>1. Heard({t})
      BY <2>1, CommitTold DEF CreateTask, WithNew
    <3> QED
      BY <1>3, <2>1, <3>1 DEF CreateTask
  <2>2. ASSUME NEW t \in Task, Abort(t)
        PROVE  Told
    <3>1. PICK r, loaded : Commit({t}, [rec EXCEPT ![t] = r], {}, {}, loaded)
      BY <2>2 DEF Abort
    <3>2. \A x \in Task \ {t} : [rec EXCEPT ![t] = r][x] = rec[x]
      BY <1>0
    <3>3. Heard({t})
      BY <3>1, <3>2, CommitTold
    <3> QED
      BY <1>3, <2>2, <3>3 DEF Abort
  <2>3. ASSUME NEW c \in Conversation, CreateConversation(c)
        PROVE  Told
    <3>1. Heard({})
      BY <2>3, CommitTold DEF CreateConversation
    <3> QED
      BY <1>3, <2>3, <3>1 DEF CreateConversation
  <2>4. ASSUME NEW c \in Conversation, QueueInput(c)
        PROVE  Told
    <3>1. Heard({})
      BY <2>4, CommitTold DEF QueueInput
    <3> QED
      BY <1>3, <2>4, <3>1 DEF QueueInput
  <2>5. ASSUME NEW c \in Conversation, NEW background, AbortConversation(c, background)
        PROVE  Told
    <3>1. PICK marks \in SUBSET Task :
             Commit(marks, [t \in Task |-> IF t \in marks THEN Marked(rec[t]) ELSE rec[t]],
                    {}, {}, Loaded(TRUE))
      BY <2>5 DEF AbortConversation, Live
    <3> DEFINE next == [t \in Task |-> IF t \in marks THEN Marked(rec[t]) ELSE rec[t]]
    <3>2. \A t \in Task \ marks : next[t] = rec[t]
      OBVIOUS
    <3> HIDE DEF next
    <3>3. Heard(marks)
      BY <3>1, <3>2, CommitTold DEF next
    <3> QED
      BY <1>3, <2>5, <3>3 DEF AbortConversation
  <2>6. Resume \/ (\E fitless, replaced \in SUBSET Task : RegistryChange(fitless, replaced))
          => Told
    BY <1>1 DEF Resume, RegistryChange
  <2>7. Seal \/ (\E c \in Conversation : WaitForIdle(c)) => Told
    BY DEF Seal, WaitForIdle, Told, Silent
  <2>8. job' = job
    BY <1>4 DEF Work, CreateTask, Abort, CreateConversation, QueueInput, WaitForIdle,
                AbortConversation, Resume, Seal, RegistryChange
  <2> QED
    BY <1>2, <1>4, <2>1, <2>2, <2>3, <2>4, <2>5, <2>6, <2>7, <2>8 DEF Work
<1>5. CASE Reserve
  <2>1. SameJob /\ closing' = closing
    BY <1>5, TurnsKeepTheJob DEF Reserve, Turn
  <2>2. CASE ~enabled \/ closing
    BY <1>1, <1>5, <2>1, <2>2 DEF Reserve
  <2>3. CASE enabled /\ ~closing
    <3> DEFINE writes == Orphans \cup {t \in Startable : rec[t].status # "running"}
               next == [t \in Task |-> IF t \in Orphans THEN Finish(rec, t, "failed")
                                       ELSE IF t \in writes THEN WithState(rec[t], "running")
                                       ELSE rec[t]]
    <3>1. rec' = next /\ Observe(writes, next, {}, {}, Loaded(FALSE))
      BY <1>5, <2>3 DEF Reserve
    <3>2. writes \subseteq Task
      BY DEF Orphans, Startable, Reservable, Live
    <3>3. \A t \in Task \ writes : next[t] = rec[t]
      OBVIOUS
    <3> HIDE DEF writes, next
    <3>4. Heard(writes)
      BY <3>1, <3>2, <3>3 DEF Heard
    <3> QED
      BY <1>3, <2>1, <3>4
  <2> QED
    BY <2>2, <2>3
<1>6. CASE DrainTop \/ DrainExit
  BY <1>1, <1>2, <1>6 DEF DrainTop, DrainExit
<1>7. CASE ReserveFails
  BY <1>1, <1>7, TurnsKeepTheJob DEF ReserveFails, Turn
<1>8. ASSUME NEW t \in Task, Coroutine(t) \/ StepFails(t)
      PROVE  SameJob /\ Told
  <2>1. CASE FinishInvocation(t)
    BY <1>1, <1>2, <2>1 DEF FinishInvocation
  <2>2. CASE StepEnds(t) \/ StepContinues(t) \/ StepFails(t)
    BY <1>1, <2>2, TurnsKeepTheJob DEF StepEnds, StepContinues, StepFails, Turn
  <2>3. CASE StepWrites(t)
    <3>1. PICK r, loaded : Commit({t}, [rec EXCEPT ![t] = r], {}, {}, loaded)
      BY <2>3 DEF StepWrites
    <3>2. \A x \in Task \ {t} : [rec EXCEPT ![t] = r][x] = rec[x]
      BY <1>0
    <3>3. Heard({t})
      BY <3>1, <3>2, CommitTold
    <3>4. Leaves(t) /\ closing' = closing
      BY <2>3 DEF StepWrites, Turn
    <3> QED
      BY <1>3, <3>3, <3>4, TurnsKeepTheJob
  <2> QED
    BY <1>8, <2>1, <2>2, <2>3 DEF Coroutine
<1>9. ASSUME NEW t \in Task, Handler(t)
      PROVE  SameJob /\ Told
  <2>1. ASSUME NEW fails, HandlerReturns(t, fails)
        PROVE  SameJob /\ Told
    BY <1>1, <2>1, TurnsKeepTheJob DEF HandlerReturns
  <2>2. ASSUME NEW written, Heard(written), Turn(t), closing' = closing
        PROVE  SameJob /\ Told
    BY <1>3, <2>2, TurnsKeepTheJob DEF Turn
  <2>3. ASSUME NEW new \in SUBSET Task
        PROVE  /\ \A x \in Task \ new : WithNew(rec, new)[x] = rec[x]
               /\ WithNew(rec, new) \in [Task -> Record]
    BY <1>0, NewTypes DEF WithNew
  <2>4. ASSUME NEW new \in SUBSET Task, NEW moved, HandlerProgress(t, new, moved)
        PROVE  SameJob /\ Told
    <3>1. Heard(new \cup {t})
      BY <2>3, <2>4, CommitTold DEF HandlerProgress
    <3> QED
      BY <2>2, <2>4, <3>1 DEF HandlerProgress
  \* A handler that moves t on commits t and what is new.
  <2>5. ASSUME NEW new \in SUBSET Task, NEW r, NEW loaded, Turn(t), closing' = closing,
               Commit(new \cup {t}, [WithNew(rec, new) EXCEPT ![t] = r], {}, {}, loaded)
        PROVE  SameJob /\ Told
    <3> DEFINE next == [WithNew(rec, new) EXCEPT ![t] = r]
    <3>1. \A x \in Task \ (new \cup {t}) : next[x] = rec[x]
      BY <2>3
    <3>2. Commit(new \cup {t}, next, {}, {}, loaded)
      BY <2>5
    <3> HIDE DEF next
    <3>3. Heard(new \cup {t})
      BY <3>1, <3>2, CommitTold
    <3> QED
      BY <2>2, <2>5, <3>3
  <2>6. ASSUME NEW new \in SUBSET Task, NEW on, NEW failFast, HandlerWait(t, new, on, failFast)
        PROVE  SameJob /\ Told
    <3>1. PICK r, loaded : Commit(new \cup {t}, [WithNew(rec, new) EXCEPT ![t] = r],
                                  {}, {}, loaded)
      BY <2>6 DEF HandlerWait
    <3>2. Turn(t) /\ closing' = closing
      BY <2>6 DEF HandlerWait
    <3> QED
      BY <2>5, <3>1, <3>2
  <2>7. ASSUME NEW new \in SUBSET Task, NEW outcome, HandlerOutcome(t, new, outcome)
        PROVE  SameJob /\ Told
    <3>1. PICK r, loaded : Commit(new \cup {t}, [WithNew(rec, new) EXCEPT ![t] = r],
                                  {}, {}, loaded)
      BY <2>7 DEF HandlerOutcome
    <3>2. Turn(t) /\ closing' = closing
      BY <2>7 DEF HandlerOutcome
    <3> QED
      BY <2>5, <3>1, <3>2
  <2> QED
    BY <1>9, <2>1, <2>4, <2>6, <2>7 DEF Handler
<1>10. CASE UNCHANGED vars
  BY <1>1, <1>2, <1>10 DEF vars
<1> QED
  BY <1>4, <1>5, <1>6, <1>7, <1>8, <1>9, <1>10 DEF Next, DrainLoop, Reconciler, Failures

\* A reconcile is a commit as well, one that takes its job off the line.
LEMMA ReconcileTold ==
  ASSUME TypeOK, Reconcile, ~closing
  PROVE  /\ job' = NoJob
         /\ \/ Silent /\ ReconcileMarks = {} /\ Finalized(rec) = {}
            \/ /\ Heard(ReconcileMarks \cup Finalized(rec))
               /\ rec' = [t \in Task |->
                            IF t \in Finalized(rec)
                            THEN WithOutcome(rec[t], "terminal", rec[t].outcome)
                            ELSE IF t \in ReconcileMarks THEN Marked(rec[t]) ELSE rec[t]]
<1> USE DEF durable, tables, drainer
<1> DEFINE marks == ReconcileMarks
           done == Finalized(rec)
           next == [t \in Task |->
                      IF t \in done THEN WithOutcome(rec[t], "terminal", rec[t].outcome)
                      ELSE IF t \in marks THEN Marked(rec[t]) ELSE rec[t]]
<1>1. job' = NoJob
  BY DEF Reconcile
<1>2. \/ /\ marks \cup done = {}
         /\ UNCHANGED <<rec, convs, checks, cascade, flag, dirty, drain>>
      \/ Commit(marks \cup done, next, {}, {}, Loaded(job.cascade))
  BY DEF Reconcile
<1>3. marks \cup done \subseteq Task
  BY DEF ReconcileMarks, Finalized, Live
<1>4. \A t \in Task \ (marks \cup done) : next[t] = rec[t]
  OBVIOUS
<1> HIDE DEF marks, done, next
<1>5. CASE Commit(marks \cup done, next, {}, {}, Loaded(job.cascade))
  <2>1. Heard(marks \cup done) /\ rec' = next
    BY <1>3, <1>4, <1>5, CommitTold DEF Commit
  <2> QED
    BY <1>1, <2>1 DEF marks, done, next
<1>6. CASE /\ marks \cup done = {}
           /\ UNCHANGED <<rec, convs, checks, cascade, flag, dirty, drain>>
  BY <1>1, <1>6 DEF Silent, marks, done
<1> QED
  BY <1>2, <1>5, <1>6

\* What the contract lets a step do to a record.
LEMMA RecordsKept ==
  ASSUME TypeOK, TypeOK', Promised, NEW t \in Task
  PROVE  /\ Exists(rec, t) =>
              /\ Exists(rec', t)
              /\ t \in Live(rec') => t \in Live(rec) /\ (rec[t].mark => rec'[t].mark)
              /\ rec[t].status = "completing" => /\ rec'[t].status \in {"completing", "terminal"}
                                                 /\ rec'[t].outcome = rec[t].outcome
              /\ FailedOutcome(rec[t]) => FailedOutcome(rec'[t])
         /\ ~Exists(rec, t) /\ Exists(rec', t) =>
              rec'[t].status = "pending" /\ ~rec'[t].mark
<1> USE DEF Exists, FailedOutcome, Live, LiveStatus
<1>1. CASE UNCHANGED <<rec, convs>>
  BY <1>1
<1>2. CASE Lifecycle!Next
  <2>1. Lifecycle!TaskStep(t)
    BY <1>2 DEF Lifecycle!Next
  <2>2. CASE rec'[t] = rec[t]
    BY <2>2
  <2>3. CASE Lifecycle!Created(t)
    BY <2>3, SameRecords DEF Lifecycle!Created, WithState, Absent
  <2>4. CASE Lifecycle!Moved(t)
    BY <2>4 DEF Lifecycle!Moved
  <2>5. CASE Lifecycle!Held(t)
    BY <2>5 DEF Lifecycle!Held
  <2>6. CASE Lifecycle!MarkedWhileHeld(t)
    <3>1. rec[t] \in Record /\ rec'[t] = Marked(rec[t]) /\ rec[t].status = "completing"
      BY <2>6, SameRecords DEF Lifecycle!MarkedWhileHeld, TypeOK
    <3>2. /\ rec'[t].mark /\ rec'[t].status = rec[t].status
          /\ rec'[t].outcome = rec[t].outcome
      BY <3>1 DEF Marked, Record
    <3> QED
      BY <3>1, <3>2
  <2>7. CASE Lifecycle!Settled(t)
    BY <2>7, SameRecords DEF Lifecycle!Settled
  <2> QED
    BY <2>1, <2>2, <2>3, <2>4, <2>5, <2>6, <2>7 DEF Lifecycle!TaskStep
<1> QED
  BY <1>1, <1>2 DEF Promised
-----------------------------------------------------------------------------
(* Held outcomes.                                                          *)

\* The listener hears of the last work a held outcome waited for.
LEMMA HeldHeard ==
  ASSUME TypeOK, TypeOK', Promised, NEW written, Heard(written), ~closing,
         NEW t \in Finalized(rec'), t \notin Finalized(rec)
  PROVE  flag'
<1>1. t \in Task /\ rec'[t].status = "completing"
  BY DEF Finalized
<1>2. CASE rec[t].status # "completing"
  BY <1>1, <1>2, ListenerNotes DEF Heard
<1>3. CASE rec[t].status = "completing"
  <2>1. PICK x \in OwnedLive(rec, t) : rec[x].status # "completing"
    BY <1>1, <1>3 DEF Finalized
  <2>2. x \in Task /\ x \in Live(rec) /\ x \notin Background /\ t \in OrdinaryOwners[x]
    BY <2>1 DEF OwnedLive, Live
  <2>3. CASE x \in Live(rec')
    <3>1. rec'[x].status = "completing"
      BY <2>2, <2>3 DEF Finalized, OwnedLive
    <3> QED
      BY <2>1, <2>2, <3>1, ListenerNotes DEF Heard
  <2>4. CASE x \notin Live(rec')
    <3>1. Exists(rec, x)
      BY <2>2 DEF Exists, Live, LiveStatus
    <3>2. Exists(rec', x) /\ rec'[x] \in Record
      BY <2>2, <3>1, RecordsKept DEF TypeOK
    <3>3. rec'[x].status = "terminal"
      BY <2>2, <2>4, <3>2 DEF Exists, Live, Record, Status
    <3>4. x \in written
      BY <2>2, <2>4 DEF Heard, Live
    <3> QED
      BY <3>3, <3>4, ListenerNotes
  <2> QED
    BY <2>3, <2>4
<1> QED
  BY <1>2, <1>3

LEMMA HeldOutcomesStep ==
  ASSUME TypeOK, TypeOK', Promised, HeldOutcomesOwed, [Next]_vars
  PROVE  HeldOutcomesOwed'
<1> USE DEF durable
<1> SUFFICES ASSUME ~closing', NEW t \in Finalized(rec')
             PROVE  flag' \/ job'.queued \/ cascade'
  BY DEF HeldOutcomesOwed, Finalized, OwnedLive, Live
<1>1. CASE Restart \/ ReconcileFails \/ ReconcileStarts
  BY <1>1 DEF Restart, ReconcileFails, ReconcileStarts
<1>2. CASE Reconcile
  <2>1. ~closing
    BY <1>2 DEF Reconcile, switches
  <2>2. CASE Finalized(rec) = {}
    <3>1. CASE UNCHANGED rec
      BY <2>2, <3>1 DEF Finalized, OwnedLive, Live
    <3>2. CASE Heard(ReconcileMarks \cup Finalized(rec))
      BY <2>1, <2>2, <3>2, HeldHeard
    <3> QED
      BY <1>2, <2>1, <3>1, <3>2, ReconcileTold DEF Silent
  <2>3. CASE Finalized(rec) # {}
    <3>1. PICK x : x \in Finalized(rec)
      BY <2>3
    <3>2. rec'[x].status = "terminal" /\ Heard(ReconcileMarks \cup Finalized(rec))
      BY <1>2, <2>1, <3>1, ReconcileTold DEF WithOutcome, Absent, Finalized
    <3> QED
      BY <2>1, <3>1, <3>2, ListenerNotes
  <2> QED
    BY <2>2, <2>3
<1>3. CASE SameJob /\ Told
  <2>1. ~closing
    BY <1>3 DEF Told
  <2>2. CASE Silent
    <3>1. Finalized(rec') = Finalized(rec)
      BY <2>2 DEF Silent, Finalized, OwnedLive, Live
    <3>2. flag \/ job.queued \/ cascade
      BY <2>1, <3>1 DEF HeldOutcomesOwed
    <3> QED
      BY <1>3, <2>2, <3>2 DEF Silent, SameJob
  <2>3. ASSUME NEW written, Heard(written)
        PROVE  flag' \/ job'.queued \/ cascade'
    <3>1. CASE t \in Finalized(rec)
      <4>1. flag \/ job.queued \/ cascade
        BY <2>1, <3>1 DEF HeldOutcomesOwed
      <4>2. (flag => flag') /\ (cascade => cascade')
        BY <2>3, ListenerNotes
      <4> QED
        BY <1>3, <4>1, <4>2 DEF SameJob
    <3>2. CASE t \notin Finalized(rec)
      BY <2>1, <2>3, <3>2, HeldHeard
    <3> QED
      BY <3>1, <3>2
  <2> QED
    BY <1>3, <2>2, <2>3 DEF Told
<1> QED
  BY <1>1, <1>2, <1>3, StepsTold

\* A held outcome is never forgotten: once the last work it was held for is gone,
\* whichever writer or restart that was due to, a reconcile has been asked for,
\* is on the line, or has left cascade_pending behind.
THEOREM HeldOutcomesAreOwed == Spec => []HeldOutcomesOwed
<1>1. Init => HeldOutcomesOwed
  BY DEF Init, HeldOutcomesOwed
<1>2. /\ TypeOK /\ OutcomesMatch /\ (TypeOK /\ OutcomesMatch)'
      /\ HeldOutcomesOwed /\ [Next]_vars
      => HeldOutcomesOwed'
  BY NextPromised, HeldOutcomesStep
<1> QED
  BY <1>1, <1>2, Invariants, PTL DEF Spec
-----------------------------------------------------------------------------
(* Cascades.                                                               *)

\* t is ordinary work below a cancelled owner that no cascade has reached yet.
Unreached(recs, t) == /\ t \in Live(recs) \ Background
                      /\ ~recs[t].mark
                      /\ BelowCancelled(recs, ParentOf(t))

\* The listener hears of an owner that is cancelled and of work written below one.
LEMMA CascadeHeard ==
  ASSUME TypeOK, TypeOK', Promised, NEW written, Heard(written), ~closing,
         NEW t, Unreached(rec', t)
  PROVE  flag' \/ cascade' \/ Unreached(rec, t)
<1>1. t \in Task /\ t \notin Background /\ t \in Live(rec') /\ ~rec'[t].mark
  BY DEF Unreached, Live
<1>2. rec'[t].status # "terminal" /\ Exists(rec', t)
  BY <1>1 DEF Live, LiveStatus, Exists
<1>3. CASE ~Exists(rec, t)
  <2>1. t \in written
    BY <1>1, <1>2, <1>3 DEF Heard, Exists
  <2> QED
    BY <1>1, <1>2, <2>1, ListenerNotes DEF Unreached
<1>4. CASE Exists(rec, t)
  <2>1. t \in Live(rec) /\ ~rec[t].mark
    BY <1>1, <1>4, RecordsKept
  <2>2. PICK o \in OrdinaryAbove[ParentOf(t)] \cap Task : CancellationIntent(rec'[o])
    BY DEF Unreached, BelowCancelled
  <2>3. CASE CancellationIntent(rec[o])
    BY <1>1, <2>1, <2>2, <2>3 DEF Unreached, BelowCancelled
  <2>4. CASE ~CancellationIntent(rec[o])
    <3>1. o \in written /\ o \in Task
      BY <2>2, <2>4 DEF Heard
    <3>2. o \in Live(rec') /\ rec'[o].status # "terminal" /\ Exists(rec', o)
      BY <2>2, <3>1 DEF CancellationIntent, Live, LiveStatus, Exists
    <3>3. CASE rec'[o].mark
      <4>1. CASE rec[o].mark
        <5>1. Exists(rec, o)
          BY <3>1, <3>2, <3>3, RecordsKept
        <5>2. o \in Live(rec)
          BY <3>1, <3>2, <5>1, RecordsKept
        <5> QED
          BY <2>4, <4>1, <5>2 DEF CancellationIntent, Live
      <4>2. CASE ~rec[o].mark
        BY <3>1, <3>2, <3>3, <4>2, ListenerNotes
      <4> QED
        BY <4>1, <4>2
    <3>4. CASE ~rec'[o].mark
      <4>1. rec'[o].status = "completing" /\ rec'[o].outcome = "failed"
        BY <2>2, <3>2, <3>4 DEF CancellationIntent, FailedOutcome
      <4>2. rec[o].status # "completing"
        <5>1. ASSUME rec[o].status = "completing"
              PROVE  FALSE
          <6>1. rec[o].outcome = "failed"
            BY <3>1, <4>1, <5>1, RecordsKept DEF Exists
          <6> QED
            BY <2>4, <5>1, <6>1 DEF CancellationIntent, FailedOutcome, LiveStatus
        <5> QED
          BY <5>1
      <4> QED
        BY <2>2, <3>1, <3>2, <4>1, <4>2, ListenerNotes
    <3> QED
      BY <3>3, <3>4
  <2> QED
    BY <2>3, <2>4
<1> QED
  BY <1>3, <1>4

LEMMA CascadesStep ==
  ASSUME TypeOK, TypeOK', Promised, CascadesOwed, [Next]_vars
  PROVE  CascadesOwed'
<1> USE DEF durable
<1>0. ASSUME ~closing, NEW t, Unreached(rec, t)
      PROVE  cascade \/ flag \/ job.queued
  BY <1>0 DEF CascadesOwed, Unreached
<1> SUFFICES ASSUME ~closing', NEW t, Unreached(rec', t)
             PROVE  cascade' \/ flag' \/ job'.queued
  BY DEF CascadesOwed, Unreached, Live, BelowCancelled
<1>1. CASE Restart \/ ReconcileFails \/ ReconcileStarts
  BY <1>1 DEF Restart, ReconcileFails, ReconcileStarts
\* A reconcile marks all that is below a cancelled owner, or settles it.
<1>2. CASE Reconcile
  <2>1. ~closing
    BY <1>2 DEF Reconcile, switches
  <2>2. ASSUME Unreached(rec, t)
        PROVE  t \in ReconcileMarks
    BY <2>2 DEF Unreached, ReconcileMarks
  <2>3. CASE Silent /\ ReconcileMarks = {}
    <3>1. Unreached(rec, t)
      BY <2>3 DEF Silent, Unreached, Live, BelowCancelled
    <3> QED
      BY <2>2, <2>3, <3>1
  <2>4. CASE /\ Heard(ReconcileMarks \cup Finalized(rec))
             /\ rec' = [x \in Task |->
                          IF x \in Finalized(rec)
                          THEN WithOutcome(rec[x], "terminal", rec[x].outcome)
                          ELSE IF x \in ReconcileMarks THEN Marked(rec[x]) ELSE rec[x]]
    <3>1. CASE Unreached(rec, t)
      <4>1. t \in ReconcileMarks /\ t \in Task /\ rec[t] \in Record
        BY <2>2, <3>1 DEF Unreached, Live, TypeOK
      <4>2. CASE t \in Finalized(rec)
        BY <2>4, <4>1, <4>2 DEF WithOutcome, Absent, Unreached, Live, LiveStatus
      <4>3. CASE t \notin Finalized(rec)
        BY <2>4, <4>1, <4>3 DEF Marked, Record, Unreached
      <4> QED
        BY <4>2, <4>3
    <3>2. CASE ~Unreached(rec, t)
      BY <2>1, <2>4, <3>2, CascadeHeard
    <3> QED
      BY <3>1, <3>2
  <2> QED
    BY <1>2, <2>1, <2>3, <2>4, ReconcileTold
<1>3. CASE SameJob /\ Told
  <2>1. ~closing
    BY <1>3 DEF Told
  <2>2. CASE Silent
    <3>1. Unreached(rec, t)
      BY <2>2 DEF Silent, Unreached, Live, BelowCancelled
    <3> QED
      BY <1>0, <1>3, <2>1, <2>2, <3>1 DEF Silent, SameJob
  <2>3. ASSUME NEW written, Heard(written)
        PROVE  cascade' \/ flag' \/ job'.queued
    <3>1. CASE Unreached(rec, t)
      <4>1. cascade \/ flag \/ job.queued
        BY <1>0, <2>1, <3>1
      <4>2. (flag => flag') /\ (cascade => cascade')
        BY <2>3, ListenerNotes
      <4> QED
        BY <1>3, <4>1, <4>2 DEF SameJob
    <3>2. CASE ~Unreached(rec, t)
      BY <2>1, <2>3, <3>2, CascadeHeard
    <3> QED
      BY <3>1, <3>2
  <2> QED
    BY <1>3, <2>2, <2>3 DEF Told
<1> QED
  BY <1>1, <1>2, <1>3, StepsTold

\* A cancellation is never forgotten, whatever is created below the cancelled
\* owner and however often storage rejects the cascade or the process restarts:
\* work that is not marked yet is owed a pass.
THEOREM CascadesAreOwed == Spec => []CascadesOwed
<1>1. Init => CascadesOwed
  BY DEF Init, CascadesOwed
<1>2. /\ TypeOK /\ OutcomesMatch /\ (TypeOK /\ OutcomesMatch)'
      /\ CascadesOwed /\ [Next]_vars
      => CascadesOwed'
  BY NextPromised, CascadesStep
<1> QED
  BY <1>1, <1>2, Invariants, PTL DEF Spec
-----------------------------------------------------------------------------
(* failFast waits.                                                         *)

\* A wait begins on members that exist, and is not rewritten while it lasts.
WaitFits(w) ==
  rec'[w].status = "waiting" =>
    \/ /\ rec[w].status = "waiting"
       /\ rec'[w].on = rec[w].on
       /\ rec'[w].failFast = rec[w].failFast
    \/ /\ rec[w].status = "running"
       /\ \A m \in rec'[w].on : Exists(rec', m)

WaitsExist == \A w \in Task : rec[w].status = "waiting" => \A m \in rec[w].on : Exists(rec, m)

LEMMA WaitFitsStep ==
  ASSUME TypeOK, [Next]_vars, NEW w \in Task
  PROVE  WaitFits(w)
<1> USE DEF durable
<1>0. rec \in [Task -> Record] /\ rec[w] \in Record
  BY DEF TypeOK
<1>1. ASSUME rec'[w] = rec[w]
      PROVE  WaitFits(w)
  BY <1>1 DEF WaitFits
<1>2. ASSUME rec'[w] = Marked(rec[w])
      PROVE  WaitFits(w)
  BY <1>0, <1>2 DEF WaitFits, Marked, Record
<1>3. ASSUME NEW s, s # "waiting", rec'[w] = WithState(rec[w], s)
      PROVE  WaitFits(w)
  BY <1>3 DEF WaitFits, WithState, Absent
<1>4. ASSUME NEW s \in {"terminal", "completing"}, NEW o, rec'[w] = WithOutcome(rec[w], s, o)
      PROVE  WaitFits(w)
  BY <1>4 DEF WaitFits, WithOutcome, Absent
<1>5. ASSUME NEW recs, NEW o, rec'[w] = Finish(recs, w, o)
      PROVE  WaitFits(w)
  BY <1>4, <1>5 DEF Finish
<1>6. ASSUME rec'[w] = WithState(Absent, "pending")
      PROVE  WaitFits(w)
  BY <1>6 DEF WaitFits, WithState, Absent
<1>7. CASE Work
  <2>1. ASSUME NEW t \in Task, CreateTask(t)
        PROVE  WaitFits(w)
    BY <1>1, <1>6, <2>1 DEF CreateTask, Commit, WithNew
  <2>2. ASSUME NEW t \in Task, Abort(t)
        PROVE  WaitFits(w)
    <3>1. PICK orphan \in BOOLEAN :
            rec' = [rec EXCEPT ![t] = IF orphan THEN Finish(rec, t, "failed") ELSE Marked(@)]
      BY <2>2 DEF Abort, Commit
    <3> QED
      BY <1>0, <1>1, <1>2, <1>5, <3>1
  <2>3. ASSUME NEW c, NEW background, AbortConversation(c, background)
        PROVE  WaitFits(w)
    <3>1. PICK marks : rec' = [t \in Task |-> IF t \in marks THEN Marked(rec[t]) ELSE rec[t]]
      BY <2>3 DEF AbortConversation, Commit
    <3> QED
      BY <1>1, <1>2, <3>1
  <2>4. rec' = rec => WaitFits(w)
    BY <1>1
  <2> QED
    BY <1>7, <2>1, <2>2, <2>3, <2>4
       DEF Work, CreateConversation, QueueInput, WaitForIdle, Commit, Resume, Seal,
           RegistryChange
<1>8. CASE Reserve
  <2>1. CASE rec' = rec
    BY <1>1, <2>1
  <2>2. CASE rec' # rec
    <3> DEFINE writes == Orphans \cup {t \in Startable : rec[t].status # "running"}
    <3>1. rec' = [t \in Task |-> IF t \in Orphans THEN Finish(rec, t, "failed")
                                 ELSE IF t \in writes THEN WithState(rec[t], "running")
                                 ELSE rec[t]]
      BY <1>8, <2>2 DEF Reserve
    <3> HIDE DEF writes
    <3> QED
      BY <1>1, <1>3, <1>5, <3>1
  <2> QED
    BY <2>1, <2>2
<1>9. ASSUME NEW t \in Task, Coroutine(t)
      PROVE  WaitFits(w)
  <2>1. CASE StepWrites(t)
    <3>1. PICK fault \in BOOLEAN :
            rec' = [rec EXCEPT ![t] = IF fault THEN Finish(rec, t, "failed")
                                      ELSE WithState(@, "pending")]
      <4>1. MustFault(t) \in BOOLEAN
        BY DEF MustFault
      <4> QED
        BY <2>1, <4>1 DEF StepWrites, Commit
    <3> QED
      BY <1>0, <1>1, <1>3, <1>5, <3>1
  <2> QED
    BY <1>1, <1>9, <2>1 DEF Coroutine, StepEnds, StepContinues, FinishInvocation
<1>10. ASSUME NEW t \in Task, Handler(t)
       PROVE  WaitFits(w)
  <2>0. ASSUME NEW new
        PROVE  /\ DOMAIN WithNew(rec, new) = Task
               /\ \/ WithNew(rec, new)[w] = rec[w]
                  \/ WithNew(rec, new)[w] = WithState(Absent, "pending")
    BY DEF WithNew
  <2>1. ASSUME NEW new, NEW moved, HandlerProgress(t, new, moved)
        PROVE  WaitFits(w)
    BY <1>1, <1>6, <2>0, <2>1 DEF HandlerProgress, Commit
  <2>2. ASSUME NEW new \in SUBSET Task, NEW on \in SUBSET Task, NEW failFast,
               HandlerWait(t, new, on, failFast)
        PROVE  WaitFits(w)
    <3> DEFINE recs == WithNew(rec, new)
               next == [recs EXCEPT ![t] = WaitingState(@, on, failFast)]
    <3>1. rec' = next /\ \A m \in on : Exists(next, m)
      BY <2>2 DEF HandlerWait, Commit
    <3>2. CASE w = t
      <4>0. rec[t].status = "running"
        BY <2>2 DEF HandlerWait, Gated
      <4>1. next[t] = WaitingState(recs[t], on, failFast)
        BY <2>0
      <4>2. WaitingState(recs[t], on, failFast).on = on
        BY DEF WaitingState, WithState, Absent
      <4> HIDE DEF next, recs
      <4> QED
        BY <3>1, <3>2, <4>0, <4>1, <4>2 DEF WaitFits
    <3>3. CASE w # t
      <4>1. next[w] = recs[w]
        BY <3>3
      <4> HIDE DEF next
      <4> QED
        BY <1>1, <1>6, <2>0, <3>1, <4>1
    <3> QED
      BY <3>2, <3>3
  <2>3. ASSUME NEW new, NEW outcome, HandlerOutcome(t, new, outcome)
        PROVE  WaitFits(w)
    <3> DEFINE recs == WithNew(rec, new)
    <3>1. rec' = [recs EXCEPT ![t] = Finish(recs, t, outcome)]
      BY <2>3 DEF HandlerOutcome, Commit
    <3>2. CASE w = t
      <4>1. DOMAIN recs = Task
        BY <2>0
      <4> HIDE DEF recs
      <4>2. rec'[w] = Finish(recs, w, outcome)
        BY <3>1, <3>2, <4>1
      <4> QED
        BY <1>5, <4>2
    <3>3. CASE w # t
      <4>1. rec'[w] = recs[w]
        BY <3>1, <3>3, <2>0
      <4> QED
        BY <1>1, <1>6, <2>0, <4>1
    <3> QED
      BY <3>2, <3>3
  <2> QED
    BY <1>1, <1>10, <2>1, <2>2, <2>3 DEF Handler, HandlerReturns
<1>11. CASE Reconcile
  <2>1. CASE rec' = rec
    BY <1>1, <2>1
  <2>2. CASE rec' # rec
    <3>1. rec' = [t \in Task |->
                    IF t \in Finalized(rec)
                    THEN WithOutcome(rec[t], "terminal", rec[t].outcome)
                    ELSE IF t \in ReconcileMarks THEN Marked(rec[t]) ELSE rec[t]]
      BY <1>11, <2>2 DEF Reconcile, Commit
    <3> QED
      BY <1>1, <1>2, <1>4, <3>1
  <2> QED
    BY <2>1, <2>2
<1>12. CASE Restart
  <2>1. rec' = [t \in Task |-> IF rec[t].status = "running" THEN WithState(rec[t], "pending")
                               ELSE rec[t]]
    BY <1>12 DEF Restart
  <2> QED
    BY <1>1, <1>3, <2>1
<1>13. CASE UNCHANGED rec
  BY <1>1, <1>13
<1> QED
  BY <1>7, <1>8, <1>9, <1>10, <1>11, <1>12, <1>13
     DEF Next, DrainLoop, DrainTop, DrainExit, Reconciler, ReconcileStarts, Failures,
         ReserveFails, ReconcileFails, StepFails, vars

LEMMA WaitsExistStep ==
  ASSUME TypeOK, TypeOK', Promised, WaitsExist, [Next]_vars
  PROVE  WaitsExist'
<1> SUFFICES ASSUME NEW w \in Task, rec'[w].status = "waiting", NEW m \in rec'[w].on
             PROVE  Exists(rec', m)
  BY DEF WaitsExist, Exists
<1>1. CASE \A x \in rec'[w].on : Exists(rec', x)
  BY <1>1
<1>2. CASE rec[w].status = "waiting" /\ rec'[w].on = rec[w].on
  <2>1. m \in Task /\ Exists(rec, m)
    BY <1>2 DEF WaitsExist, TypeOK, Record
  <2> QED
    BY <2>1, RecordsKept
<1> QED
  BY <1>1, <1>2, WaitFitsStep DEF WaitFits

\* A failed member is not taken note of yet: w is a failFast wait that has one,
\* and another member that is live, has not failed and is not marked.
Unchecked(recs, w) ==
  /\ w \in Live(recs)
  /\ recs[w].status = "waiting" /\ recs[w].failFast
  /\ \E m \in recs[w].on : FailedOutcome(recs[m])
  /\ \E m \in recs[w].on \cap Live(recs) : ~FailedOutcome(recs[m]) /\ ~recs[m].mark

\* The list a reconcile took with it is empty when none is on the line.
NoStrayChecks == ~job.queued => job.checks = {}

FailFastInv == FailFastOwed /\ WaitsExist /\ NoStrayChecks

\* The listener hears of a wait that begins and of a member that fails; that a
\* member comes to life again, or loses its mark, does not happen.
LEMMA FailFastHeard ==
  ASSUME TypeOK, TypeOK', Promised, WaitsExist, NEW written, Heard(written),
         NEW w \in Task, WaitFits(w), Unchecked(rec', w)
  PROVE  w \in checks' \/ Unchecked(rec, w)
<1>1. rec'[w].status = "waiting" /\ rec'[w].failFast
  BY DEF Unchecked
<1>2. CASE rec[w].status # "waiting"
  <2>1. w \in written
    BY <1>1, <1>2 DEF Heard
  <2> QED
    BY <1>1, <1>2, <2>1, ListenerNotes
<1>3. CASE rec[w].status = "waiting"
  <2>1. rec[w].failFast \in BOOLEAN /\ rec'[w].failFast \in BOOLEAN /\ rec[w].on \subseteq Task
    BY DEF TypeOK, Record
  <2>2. CASE rec'[w].on = rec[w].on /\ rec'[w].failFast = rec[w].failFast
    <3>1. PICK m \in rec'[w].on \cap Live(rec') : ~FailedOutcome(rec'[m]) /\ ~rec'[m].mark
      BY DEF Unchecked
    <3>2. m \in Task /\ m \in rec[w].on /\ Exists(rec, m)
      BY <1>3, <2>1, <2>2, <3>1 DEF WaitsExist
    <3>3. m \in Live(rec) /\ ~FailedOutcome(rec[m]) /\ ~rec[m].mark
      BY <3>1, <3>2, RecordsKept
    <3>4. PICK f \in rec'[w].on : FailedOutcome(rec'[f])
      BY DEF Unchecked
    <3>5. CASE FailedOutcome(rec[f])
      BY <1>1, <1>3, <2>2, <3>2, <3>3, <3>4, <3>5 DEF Unchecked, Live, LiveStatus
    <3>6. CASE ~FailedOutcome(rec[f])
      <4>1. f \in written
        BY <2>1, <2>2, <3>4, <3>6 DEF Heard
      <4>2. w \in FailFastHit(written, rec')
        BY <1>1, <3>4, <3>6, <4>1 DEF FailFastHit, Live, LiveStatus
      <4> QED
        BY <4>2, ListenerNotes
    <3> QED
      BY <3>5, <3>6
  <2>3. CASE rec'[w].on # rec[w].on \/ rec'[w].failFast # rec[w].failFast
    BY <1>1, <1>3, <2>3 DEF WaitFits
  <2> QED
    BY <2>2, <2>3
<1> QED
  BY <1>2, <1>3

LEMMA FailFastStep ==
  ASSUME TypeOK, TypeOK', Promised, FailFastInv, [Next]_vars
  PROVE  FailFastInv'
<1> USE DEF durable
<1>1. WaitsExist'
  BY WaitsExistStep DEF FailFastInv
<1>2. ASSUME ~closing, NEW w \in Task, Unchecked(rec, w)
      PROVE  w \in checks \cup job.checks
  BY <1>2 DEF FailFastInv, FailFastOwed, Unchecked
<1>3. \A w \in Task : UNCHANGED rec => (Unchecked(rec', w) => Unchecked(rec, w))
  BY DEF Unchecked, Live
<1>4. ASSUME ~closing', NEW w \in Task, Unchecked(rec', w)
      PROVE  w \in checks' \cup job'.checks
  <2>0. rec'[w].status = "waiting" /\ WaitFits(w) /\ WaitsExist
    BY <1>4, WaitFitsStep DEF Unchecked, FailFastInv
  <2>1. CASE Restart
    <3>1. rec'[w] = rec[w]
      BY <2>0, <2>1 DEF Restart, WithState, Absent
    <3>2. w \in checks'
      BY <1>4, <2>1, <3>1 DEF Restart, Unchecked
    <3> QED
      BY <3>2
  <2>2. CASE ReconcileStarts
    <3>1. /\ rec' = rec /\ closing' = closing
          /\ job.checks = {} /\ job'.checks = checks
      BY <2>2 DEF ReconcileStarts, FailFastInv, NoStrayChecks, switches
    <3> QED
      BY <1>2, <1>3, <1>4, <3>1
  <2>3. CASE ReconcileFails
    <3>1. rec' = rec /\ closing' = closing /\ checks' = checks \cup job.checks
      BY <2>3 DEF ReconcileFails, switches
    <3> QED
      BY <1>2, <1>3, <1>4, <3>1
  \* A reconcile marks what the waits on its list leave running.
  <2>4. CASE Reconcile
    <3>1. ~closing
      BY <1>4, <2>4 DEF Reconcile, switches
    <3>2. ASSUME Unchecked(rec, w), w \in job.checks,
                 NEW m \in rec[w].on \cap Live(rec), ~FailedOutcome(rec[m]), ~rec[m].mark
          PROVE  m \in ReconcileMarks
      BY <3>2 DEF Unchecked, ReconcileMarks, AnyFailed
    <3>3. CASE Silent /\ ReconcileMarks = {}
      <4>1. Unchecked(rec, w)
        BY <1>3, <1>4, <3>3 DEF Silent
      <4>2. w \notin job.checks
        BY <3>2, <3>3, <4>1 DEF Unchecked
      <4> QED
        BY <1>2, <3>1, <3>3, <4>1, <4>2 DEF Silent
    <3>4. CASE /\ Heard(ReconcileMarks \cup Finalized(rec))
               /\ rec' = [x \in Task |->
                            IF x \in Finalized(rec)
                            THEN WithOutcome(rec[x], "terminal", rec[x].outcome)
                            ELSE IF x \in ReconcileMarks THEN Marked(rec[x]) ELSE rec[x]]
      <4>1. w \in checks' \/ Unchecked(rec, w)
        BY <1>4, <2>0, <3>4, FailFastHeard
      <4>2. ASSUME Unchecked(rec, w), w \in checks
            PROVE  w \in checks'
        BY <2>0, <3>4, <4>2, ListenerNotes
      <4>3. ASSUME Unchecked(rec, w), w \in job.checks
            PROVE  FALSE
        <5>1. rec[w].on = rec'[w].on /\ rec[w].on \subseteq Task
          BY <2>0, <4>3 DEF Unchecked, WaitFits, TypeOK, Record
        <5>2. PICK m \in rec'[w].on \cap Live(rec') : ~FailedOutcome(rec'[m]) /\ ~rec'[m].mark
          BY <1>4 DEF Unchecked
        <5>3. m \in Task /\ Exists(rec, m) /\ rec[m] \in Record
          BY <2>0, <4>3, <5>1, <5>2 DEF WaitsExist, Unchecked, TypeOK
        <5>4. m \in Live(rec) /\ ~FailedOutcome(rec[m]) /\ ~rec[m].mark
          BY <5>2, <5>3, RecordsKept
        <5>5. m \in ReconcileMarks
          BY <3>2, <4>3, <5>1, <5>2, <5>4
        <5>6. CASE m \in Finalized(rec)
          BY <3>4, <5>2, <5>3, <5>6 DEF WithOutcome, Absent, Live, LiveStatus
        <5>7. CASE m \notin Finalized(rec)
          BY <3>4, <5>2, <5>3, <5>5, <5>7 DEF Marked, Record
        <5> QED
          BY <5>6, <5>7
      <4> QED
        BY <1>2, <3>1, <4>1, <4>2, <4>3
    <3> QED
      BY <2>4, <3>1, <3>3, <3>4, ReconcileTold
  <2>5. CASE SameJob /\ Told
    <3>1. ~closing
      BY <1>4, <2>5 DEF Told
    <3>2. CASE Silent
      BY <1>2, <1>3, <1>4, <2>5, <3>1, <3>2 DEF Silent, SameJob
    <3>3. ASSUME NEW written, Heard(written)
          PROVE  w \in checks' \cup job'.checks
      <4>1. w \in checks' \/ Unchecked(rec, w)
        BY <1>4, <2>0, <3>3, FailFastHeard
      <4>2. w \in checks => w \in checks'
        BY <2>0, <3>3, ListenerNotes
      <4> QED
        BY <1>2, <2>5, <3>1, <4>1, <4>2 DEF SameJob
    <3> QED
      BY <2>5, <3>2, <3>3 DEF Told
  <2> QED
    BY <2>1, <2>2, <2>3, <2>4, <2>5, StepsTold
<1>5. NoStrayChecks'
  <2>1. CASE SameJob
    BY <2>1 DEF SameJob, FailFastInv, NoStrayChecks
  <2>2. CASE Restart \/ ReconcileStarts \/ ReconcileFails \/ Reconcile
    BY <2>2 DEF Restart, ReconcileStarts, ReconcileFails, Reconcile, NoJob, NoStrayChecks
  <2> QED
    BY <2>1, <2>2, StepsTold
<1>6. FailFastOwed'
  BY <1>4 DEF FailFastOwed, Unchecked, Live
<1> QED
  BY <1>1, <1>5, <1>6 DEF FailFastInv

\* A failed member is never forgotten: whether it fails before or after the
\* failFast wait on it begins, and through rejected reconciles and restarts, the
\* wait stays on a list of checks until nothing it waits for is left unmarked.
THEOREM FailFastsAreOwed == Spec => []FailFastOwed
<1>1. Init => FailFastInv
  BY DEF Init, FailFastInv, FailFastOwed, WaitsExist, NoStrayChecks, NoJob, Absent, Live,
         LiveStatus
<1>2. /\ TypeOK /\ OutcomesMatch /\ (TypeOK /\ OutcomesMatch)'
      /\ FailFastInv /\ [Next]_vars
      => FailFastInv'
  BY NextPromised, FailFastStep
<1>3. FailFastInv => FailFastOwed
  BY DEF FailFastInv
<1> QED
  BY <1>1, <1>2, <1>3, Invariants, PTL DEF Spec
=============================================================================
