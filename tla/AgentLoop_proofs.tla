-------------------------- MODULE AgentLoop_proofs --------------------------
(***************************************************************************)
(* Proofs about AgentLoop, for any callers, queue modes and bounds.        *)
(***************************************************************************)
EXTENDS AgentLoop, FiniteSetTheorems, TLAPS

USE AgentConstants

AllWays == {"prompt", "steer", "followUp", "prepared"}
Queues == {"steer", "followUp"}
Users == [role : {"user"}, way : AllWays, n : Nat]
Answered == [role : {"assistant"}, turn : Nat, stop : Stops, calls : 0..MaxCalls]
Results == [role : {"toolResult"}, turn : Nat, call : 1..MaxCalls]
Anything == Users \cup Answered \cup Results \cup {System}

RunSet ==
  [pc : {"none", "prologue", "firstPoll", "top", "inject", "request", "streaming",
         "truncated", "sequential", "parallel", "turnEnd", "finish", "failing", "failed"},
   base : Seq(Anything), context : Seq(Anything), fresh : Seq(Anything),
   pending : Seq(Users), toEmit : Seq(Users), first : BOOLEAN, explicit : BOOLEAN,
   more : BOOLEAN, failed : BOOLEAN,
   batch : Seq({"unseen", "started", "queued", "ended", "done"}),
   results : Seq(Results), terminate : BOOLEAN]

CallerSet ==
  [at : {"idle", "begin", "drainSteer", "drainFollowUp", "running", "holds", "waits", "gone"},
   hand : Seq(Users), run : Nat]

Shapes ==
  /\ messages \in Seq(Anything) /\ streaming \in BOOLEAN /\ errored \in BOOLEAN
  /\ aborted \in BOOLEAN /\ poisoned \in BOOLEAN /\ pendingCalls \subseteq Nat \X Nat
  /\ queue \in [Queues -> Seq(Users)]
  /\ caller \in [Caller -> CallerSet]
  /\ run \in RunSet
  /\ sent \in [AllWays -> Nat] /\ active \in Nat /\ turns \in Nat /\ runs \in Nat /\ faults \in Nat

LEMMA SequencesAre ==
  ASSUME NEW S, NEW s \in Seq(S)
  PROVE  /\ \A e \in S : Append(s, e) \in Seq(S)
         /\ \A t \in Seq(S) : s \o t \in Seq(S)
         /\ s # <<>> => Head(s) \in S /\ Tail(s) \in Seq(S) /\ Last(s) \in S /\ Front(s) \in Seq(S)
         /\ <<>> \in Seq(S) /\ \A e \in S : <<e>> \in Seq(S)
         /\ ToSet(s) \subseteq S
BY DEF Last, Front, ToSet

\* What a drain takes and what it leaves make up the queue.
LEMMA DrainIs ==
  ASSUME queue \in [Queues -> Seq(Users)], NEW q \in Queues
  PROVE  /\ Drained(q) \in Seq(Users) /\ Kept(q) \in Seq(Users)
         /\ queue[q] = Drained(q) \o Kept(q)
         /\ Drained(q) = <<>> <=> queue[q] = <<>>
<1>1. CASE Mode[q] = "all" \/ queue[q] = <<>>
  BY <1>1 DEF Drained, Kept
<1>2. CASE ~(Mode[q] = "all" \/ queue[q] = <<>>)
  <2>1. PICK s \in Seq(Users) : s = queue[q]
    OBVIOUS
  <2>2. s # <<>> /\ Drained(q) = <<Head(s)>> /\ Kept(q) = Tail(s)
    BY <1>2, <2>1 DEF Drained, Kept
  <2>3. s = <<Head(s)>> \o Tail(s)
    BY <2>2
  <2> QED
    BY <2>1, <2>2, <2>3
<1> QED
  BY <1>1, <1>2

LEMMA RestIs == Ways = AllWays /\ NoRun \in RunSet /\ Idle \in CallerSet
<1>1. Ways = AllWays
  BY DEF Ways, AllWays
<1>2. NoRun \in RunSet
  BY DEF NoRun, RunSet
<1>3. Idle \in CallerSet
  BY DEF Idle, CallerSet
<1> QED
  BY <1>1, <1>2, <1>3

LEMMA InputIs == \A w \in AllWays, n \in Nat : Input(w, n) \in Users /\ Input(w, n) \in Anything
BY DEF Input, Users, Anything

LEMMA SeedIs == Seed \in Seq(Anything)
<1>1. System \in Anything
  BY DEF Anything
<1>2. <<System>> \in Seq(Anything) /\ <<>> \in Seq(Anything)
  BY <1>1
<1> QED
  BY <1>2 DEF Seed

LEMMA ShapesInit == Init => Shapes
<1> SUFFICES ASSUME Init PROVE Shapes
  OBVIOUS
<1>1. messages \in Seq(Anything) /\ queue \in [Queues -> Seq(Users)]
  BY DEF Init, Queues
<1>2. caller \in [Caller -> CallerSet] /\ run \in RunSet /\ sent \in [AllWays -> Nat]
  BY RestIs DEF Init
<1> QED
  BY <1>1, <1>2 DEF Init, Shapes

\* A caller moves.
LEMMA CallerMoves ==
  ASSUME caller \in [Caller -> CallerSet], NEW c \in Caller
  PROVE  /\ \A at \in {"idle", "begin", "drainSteer", "drainFollowUp", "running"},
               hand \in Seq(Users) : To(c, at, hand) => caller' \in [Caller -> CallerSet]
         /\ \A at \in {"waits", "gone"} :
               caller' = [caller EXCEPT ![c].at = at] => caller' \in [Caller -> CallerSet]
<1>1. ASSUME NEW at \in {"idle", "begin", "drainSteer", "drainFollowUp", "running"},
             NEW hand \in Seq(Users), To(c, at, hand)
      PROVE  caller' \in [Caller -> CallerSet]
  <2>1. [Idle EXCEPT !.at = at, !.hand = hand] \in CallerSet
    BY RestIs DEF CallerSet
  <2> QED
    BY <1>1, <2>1 DEF To
<1>2. ASSUME NEW at \in {"waits", "gone"}, caller' = [caller EXCEPT ![c].at = at]
      PROVE  caller' \in [Caller -> CallerSet]
  <2>1. [caller[c] EXCEPT !.at = at] \in CallerSet
    BY DEF CallerSet
  <2> QED
    BY <1>2, <2>1
<1> QED
  BY <1>1, <1>2

LEMMA CallersShaped ==
  ASSUME Shapes, NEW c \in Caller,
         Prompt(c) \/ Continue(c) \/ DrainForContinue(c) \/ TakeNotify(c) \/ Await(c)
         \/ LockFails(c)
  PROVE  Shapes'
<1>1. CASE Prompt(c)
  <2>1. PICK n \in Nat : n = sent["prompt"] + 1
    BY DEF Shapes, AllWays
  <2>2. <<Input("prompt", n)>> \in Seq(Users)
    BY InputIs, SequencesAre DEF AllWays
  <2>3. caller' \in [Caller -> CallerSet]
    BY <1>1, <2>1, <2>2, CallerMoves DEF Prompt, Shapes
  <2>4. sent' \in [AllWays -> Nat]
    BY <1>1, <2>1 DEF Prompt, Shapes
  <2> QED
    BY <1>1, <2>3, <2>4 DEF Prompt, Shapes, agentVars
<1>2. CASE Continue(c)
  <2>1. PICK at \in {"drainSteer", "begin"} : To(c, at, <<>>)
    BY <1>2 DEF Continue
  <2>2. caller' \in [Caller -> CallerSet]
    <3>1. <<>> \in Seq(Users)
      OBVIOUS
    <3> QED
      BY <2>1, <3>1, CallerMoves DEF Shapes
  <2> QED
    BY <1>2, <2>2 DEF Continue, Shapes, agentVars
<1>3. CASE DrainForContinue(c)
  <2>1. PICK q \in Queues :
           /\ queue' = [queue EXCEPT ![q] = Kept(q)]
           /\ To(c, IF queue[q] # <<>> THEN "begin"
                    ELSE IF q = "steer" THEN "drainFollowUp" ELSE "idle", Drained(q))
           /\ UNCHANGED <<agentVars, active, aborted, poisoned, run, sent, turns, runs, faults, dropped>>
    BY <1>3 DEF DrainForContinue, Queues
  <2>2. Drained(q) \in Seq(Users) /\ Kept(q) \in Seq(Users)
    BY DrainIs DEF Shapes
  <2>3. caller' \in [Caller -> CallerSet] /\ queue' \in [Queues -> Seq(Users)]
    BY <2>1, <2>2, CallerMoves DEF Shapes
  <2> QED
    BY <2>1, <2>3 DEF Shapes, agentVars
<1>4. CASE TakeNotify(c)
  <2>1. [at |-> "holds", hand |-> <<>>, run |-> active] \in CallerSet
    BY DEF CallerSet, Shapes
  <2>2. caller' \in [Caller -> CallerSet]
    BY <1>4, <2>1 DEF TakeNotify, Shapes, Idle
  <2> QED
    BY <1>4, <2>2 DEF TakeNotify, Shapes, agentVars
<1>5. CASE Await(c)
  <2>1. caller' \in [Caller -> CallerSet]
    BY <1>5, CallerMoves DEF Await, Shapes
  <2> QED
    BY <1>5, <2>1 DEF Await, Shapes, agentVars
<1>6. CASE LockFails(c)
  <2>1. caller' \in [Caller -> CallerSet]
    BY <1>6, RestIs DEF LockFails, Shapes
  <2> QED
    BY <1>6, <2>1 DEF LockFails, Shapes, agentVars
<1> QED
  BY <1>1, <1>2, <1>3, <1>4, <1>5, <1>6

LEMMA HostShaped ==
  ASSUME Shapes, (\E q \in Queues : Enqueue(q)) \/ ClearQueues \/ Abort \/ Reset \/ Refused
  PROVE  Shapes'
<1>1. CASE \E q \in Queues : Enqueue(q)
  <2>1. PICK q \in Queues : Enqueue(q)
    BY <1>1
  <2>2. PICK n \in Nat : n = sent[q] + 1
    BY DEF Shapes, AllWays, Queues
  <2>3. Append(queue[q], Input(q, n)) \in Seq(Users)
    BY InputIs, SequencesAre DEF Shapes, AllWays, Queues
  <2> QED
    BY <2>1, <2>2, <2>3 DEF Enqueue, Shapes, agentVars
<1>2. CASE ClearQueues
  BY <1>2 DEF ClearQueues, Shapes, agentVars
<1>3. CASE Abort
  BY <1>3 DEF Abort, Shapes, agentVars
<1>4. CASE Reset
  <2>1. messages' \in Seq(Anything) /\ queue' \in [Queues -> Seq(Users)] /\ pendingCalls' = {}
    BY <1>4 DEF Reset, Shapes
  <2> QED
    BY <1>4, <2>1 DEF Reset, Shapes
<1>5. CASE Refused
  <2>1. faults' \in Nat
    BY <1>5 DEF Refused, Shapes
  <2> QED
    BY <1>5, <2>1 DEF Refused, Shapes, agentVars
<1> QED
  BY <1>1, <1>2, <1>3, <1>4, <1>5

LEMMA Fields ==
  ASSUME Shapes
  PROVE  /\ run.context \in Seq(Anything) /\ run.fresh \in Seq(Anything)
         /\ run.base \in Seq(Anything) /\ run.results \in Seq(Anything)
         /\ run.results \in Seq(Results)
         /\ run.pending \in Seq(Users) /\ run.toEmit \in Seq(Users)
         /\ run.batch \in Seq({"unseen", "started", "queued", "ended", "done"})
         /\ {run.first, run.explicit, run.more, run.failed, run.terminate} \subseteq BOOLEAN
         /\ \A q \in Queues : queue[q] \in Seq(Users)
         /\ \A c \in Caller : caller[c].hand \in Seq(Users)
<1>1. \A s \in Seq(Results) : s \in Seq(Anything)
  BY DEF Anything
<1> QED
  BY <1>1 DEF Shapes, RunSet, CallerSet

LEMMA UserIs == Users \subseteq Anything /\ \A s \in Seq(Users) : s \in Seq(Anything)
BY DEF Anything

\* The message at the head of what a run has to emit moves on.
LEMMA InjectedShaped ==
  ASSUME Shapes, NEW next \in {"firstPoll", "request"}, Injected(next)
  PROVE  Shapes'
<1>1. run.toEmit \in Seq(Users) /\ run.toEmit # <<>>
      /\ run.context \in Seq(Anything) /\ run.fresh \in Seq(Anything)
  BY Fields DEF Injected
<1>2. PICK m \in Anything : m = Head(run.toEmit)
  BY <1>1, SequencesAre, UserIs
<1>3. /\ Tail(run.toEmit) \in Seq(Users) /\ Append(run.context, m) \in Seq(Anything)
      /\ Append(run.fresh, m) \in Seq(Anything) /\ Append(messages, m) \in Seq(Anything)
  BY <1>1, SequencesAre DEF Shapes
<1>4. PICK pc \in {"firstPoll", "request", run.pc} :
        run' = [run EXCEPT !.toEmit = Tail(run.toEmit), !.context = Append(run.context, m),
                           !.fresh = Append(run.fresh, m), !.pc = pc]
  BY <1>2 DEF Injected
<1>5. run' \in RunSet
  BY <1>3, <1>4 DEF Shapes, RunSet
<1>6. messages' \in Seq(Anything) /\ streaming' = FALSE
  BY <1>2, <1>3 DEF Injected, Emitted
<1> QED
  BY <1>5, <1>6 DEF Injected, RunOnly, Shapes

LEMMA PolledShaped ==
  ASSUME Shapes, NEW r \in RunSet, PollSteering(r)
  PROVE  queue' \in [Queues -> Seq(Users)] /\ run' \in RunSet
<1>1. Drained("steer") \in Seq(Users) /\ Kept("steer") \in Seq(Users)
  BY DrainIs DEF Shapes, Queues
<1> QED
  BY <1>1 DEF PollSteering, Shapes, RunSet

LEMMA AnswersAre == \A t \in Nat : Answers(t) \subseteq Answered
BY DEF Answers, Answer, Answered, Stops

LEMMA SettledIs ==
  ASSUME NEW s \in Seq(Anything), NEW m \in Anything
  PROVE  Settled(s, m) \in Seq(Anything)
BY SequencesAre DEF Settled

LEMMA LoopShaped ==
  ASSUME Shapes, Prologue \/ FirstPoll \/ PrepareTurn \/ Inject \/ Request \/ EndOfStream
  PROVE  Shapes'
<1>1. CASE Prologue \/ Inject
  BY <1>1, InjectedShaped DEF Prologue, Inject
<1>2. CASE FirstPoll
  <2>1. [run EXCEPT !.pc = "top"] \in RunSet
    BY DEF Shapes, RunSet
  <2> QED
    BY <1>2, <2>1, PolledShaped DEF FirstPoll, RunOnly, agentVars, Shapes
<1>3. CASE PrepareTurn
  <2>1. ASSUME NEW ms \in Seq(Users), ToInject(ms)
        PROVE  run' \in RunSet
    <3>1. PICK pc \in {"request", "inject"} :
            run' = [run EXCEPT !.pc = pc, !.toEmit = ms, !.pending = <<>>]
      BY <2>1 DEF ToInject
    <3>2. <<>> \in Seq(Users)
      OBVIOUS
    <3> QED
      BY <2>1, <3>1, <3>2 DEF Shapes, RunSet
  <2>2. CASE run.first
    BY <1>3, <2>1, <2>2, Fields DEF PrepareTurn, RunOnly, agentVars, Shapes
  <2>3. CASE ~run.first
    <3>1. PICK prepared \in {0, 1} :
            /\ sent' = [sent EXCEPT !["prepared"] = @ + prepared]
            /\ ToInject([i \in 1..prepared |-> Input("prepared", sent["prepared"] + 1)] \o Repolled)
            /\ queue' = IF PollsAgain THEN [queue EXCEPT !["steer"] = Kept("steer")] ELSE queue
      BY <1>3, <2>3 DEF PrepareTurn
    <3>2. PICK n \in Nat : n = sent["prepared"] + 1
      BY DEF Shapes, AllWays
    <3>3. Drained("steer") \in Seq(Users) /\ Kept("steer") \in Seq(Users)
      BY DrainIs DEF Shapes, Queues
    <3>4. Repolled \in Seq(Users)
      BY <3>3, Fields DEF Repolled
    <3>5. [i \in 1..prepared |-> Input("prepared", n)] \in Seq(Users)
      BY InputIs DEF AllWays
    <3>6. PICK ms \in Seq(Users) : ms = [i \in 1..prepared |-> Input("prepared", n)] \o Repolled
      BY <3>4, <3>5, SequencesAre
    <3>7. run' \in RunSet
      BY <2>1, <3>1, <3>2, <3>6
    <3>8. queue' \in [Queues -> Seq(Users)]
      BY <3>1, <3>3 DEF Shapes, Queues
    <3>9. sent' \in [AllWays -> Nat]
      <4>1. PICK p \in Nat : p = sent["prepared"] + prepared
        BY SMTT(30), <3>2 DEF Shapes, AllWays
      <4> QED
        BY <3>1, <4>1 DEF Shapes
    <3> QED
      BY <1>3, <3>7, <3>8, <3>9 DEF PrepareTurn, RunOnly, agentVars, Shapes
  <2> QED
    BY <2>2, <2>3
<1>4. CASE Request
  <2>1. PICK t \in Nat : t = turns + 1
    BY DEF Shapes
  <2>2. Answer(t, "partial", 0) \in Anything
    BY DEF Answer, Anything, Answered, Stops
  <2>3. Append(run.context, Answer(t, "partial", 0)) \in Seq(Anything)
    BY <2>2, Fields, SequencesAre
  <2>4. PICK context \in {run.context, Append(run.context, Answer(t, "partial", 0))} :
          run' = [run EXCEPT !.pc = "streaming", !.context = context]
    BY <1>4, <2>1 DEF Request
  <2>5. run' \in RunSet
    BY <2>3, <2>4, Fields DEF Shapes, RunSet
  <2>6. streaming' \in BOOLEAN
    BY <1>4 DEF Request
  <2> QED
    BY <1>4, <2>1, <2>5, <2>6 DEF Request, RunOnly, Shapes
<1>5. CASE EndOfStream
  <2>1. PICK m \in Answers(turns) :
          /\ Emitted(m)
          /\ \E pc \in IF m.calls = 0 THEN {"turnEnd"} ELSE IF m.stop = "length" THEN {"truncated"}
                     ELSE {"sequential", "parallel"} :
            run' = [run EXCEPT !.pc = pc, !.context = Settled(@, m),
                               !.fresh = Append(@, m), !.first = FALSE,
                               !.more = FALSE,
                               !.failed = Failed(m),
                               !.batch = [k \in 1..m.calls |-> "unseen"],
                               !.results = <<>>,
                               !.terminate = TRUE]
          /\ errored' = errored
    BY <1>5 DEF EndOfStream
  <2>2. m \in Answered /\ m \in Anything
    BY <2>1, AnswersAre DEF Shapes, Anything
  <2>3. PICK n \in 0..MaxCalls : n = m.calls
    BY <2>2 DEF Answered
  <2>4. [k \in 1..n |-> "unseen"] \in Seq({"unseen", "started", "queued", "ended", "done"})
    BY <2>3
  <2>5. PICK pc \in {"turnEnd", "truncated", "sequential", "parallel"} :
            run' = [run EXCEPT !.pc = pc, !.context = Settled(@, m),
                               !.fresh = Append(@, m), !.first = FALSE,
                               !.more = FALSE,
                               !.failed = Failed(m),
                               !.batch = [k \in 1..n |-> "unseen"],
                               !.results = <<>>,
                               !.terminate = TRUE]
    BY <2>1, <2>3
  <2>6. PICK context \in Seq(Anything) : context = Settled(run.context, m)
    BY <2>2, SettledIs, Fields
  <2>7. PICK fresh \in Seq(Anything) : fresh = Append(run.fresh, m)
    BY <2>2, Fields, SequencesAre
  <2>8. run' \in RunSet
    <3>1. PICK failed \in BOOLEAN : failed = Failed(m)
      <4>1. Failed(m) \in BOOLEAN
        BY DEF Failed
      <4> QED
        BY <4>1
    <3>2. run' = [run EXCEPT !.pc = pc, !.context = context, !.fresh = fresh, !.first = FALSE,
                             !.more = FALSE, !.failed = failed,
                             !.batch = [k \in 1..n |-> "unseen"], !.results = <<>>,
                             !.terminate = TRUE]
      BY <2>5, <2>6, <2>7, <3>1
    <3>3. <<>> \in Seq(Results)
      OBVIOUS
    <3> QED
      BY ZenonT(60), <2>4, <3>2, <3>3 DEF Shapes, RunSet
  <2>9. messages' \in Seq(Anything)
    BY <2>1, <2>2, SequencesAre DEF Shapes, Emitted
  <2> QED
    BY <1>5, <2>1, <2>8, <2>9 DEF EndOfStream, RunOnly, Emitted, Shapes
<1> QED
  BY <1>1, <1>2, <1>3, <1>4, <1>5

Statuses == {"unseen", "started", "queued", "ended", "done"}

\* A call of the batch gets a status, and perhaps a result.
LEMMA CallMoves ==
  ASSUME Shapes, NEW k \in Calls, NEW status \in Statuses
  PROVE  /\ [run.batch EXCEPT ![k] = status] \in Seq(Statuses)
         /\ [run EXCEPT !.batch[k] = status] \in RunSet
         /\ \A t \in BOOLEAN : [run EXCEPT !.batch[k] = status, !.terminate = t] \in RunSet
         /\ \A s \in Seq(Results) :
              /\ [run EXCEPT !.batch[k] = status, !.results = s] \in RunSet
              /\ \A t \in BOOLEAN :
                   [run EXCEPT !.batch[k] = status, !.results = s, !.terminate = t] \in RunSet
<1>1. run.batch \in Seq(Statuses) /\ k \in DOMAIN run.batch
  BY Fields DEF Statuses, Calls
<1>2. [run.batch EXCEPT ![k] = status] \in Seq(Statuses)
  BY <1>1
<1> QED
  BY <1>2 DEF Shapes, RunSet, Statuses

\* A batch has no more calls than the answer may have.
Bounded == Len(run.batch) <= MaxCalls

LEMMA ResultIs ==
  ASSUME Shapes, Bounded, NEW k \in Calls
  PROVE  /\ Result(turns, k) \in Anything /\ k \in Nat /\ k \in 1..MaxCalls
         /\ Append(run.results, Result(turns, k)) \in Seq(Results)
         /\ Append(messages, Result(turns, k)) \in Seq(Anything)
<1>1. k \in 1..MaxCalls
  BY SMTT(30), Fields DEF Bounded, Calls
<1>2. Result(turns, k) \in Anything /\ Result(turns, k) \in Results
  BY <1>1 DEF Result, Anything, Results, Shapes
<1> QED
  BY <1>1, <1>2, Fields, SequencesAre DEF Shapes

LEMMA BatchShaped ==
  ASSUME Shapes, Bounded,
         StartCall \/ EndCallInTurn \/ PrepareCall \/ EndQueuedCall \/ EmitResult \/ EndBatch
  PROVE  Shapes'
<1>1. CASE StartCall
  <2>1. PICK k \in Calls : /\ run' = [run EXCEPT !.batch[k] = "started"]
                           /\ pendingCalls' = pendingCalls \cup {<<turns, k>>}
    BY <1>1 DEF StartCall
  <2>2. run' \in RunSet
    BY <2>1, CallMoves DEF Statuses
  <2>3. pendingCalls' \subseteq Nat \X Nat
    BY SMTT(30), <2>1, ResultIs DEF Shapes
  <2> QED
    BY <1>1, <2>2, <2>3 DEF StartCall, RunOnly, Shapes
<1>2. CASE EndCallInTurn
  <2>1. PICK k \in In("started"), t \in BOOLEAN :
       /\ run' = [run EXCEPT !.batch[k] = "done",
                             !.results = Append(@, Result(turns, k)),
                             !.terminate = @ /\ t /\ ~At("truncated")]
       /\ pendingCalls' = pendingCalls \ {<<turns, k>>}
       /\ Emitted(Result(turns, k))
    BY <1>2 DEF EndCallInTurn
  <2>2. k \in Calls
    BY DEF In
  <2>3. PICK s \in Seq(Results) : s = Append(run.results, Result(turns, k))
    BY <2>2, ResultIs
  <2>4. PICK e \in BOOLEAN : e = (run.terminate /\ t /\ ~At("truncated"))
    OBVIOUS
  <2>5. run' = [run EXCEPT !.batch[k] = "done", !.results = s, !.terminate = e]
    BY <2>1, <2>3, <2>4
  <2>6. run' \in RunSet
    BY <2>2, <2>5, CallMoves DEF Statuses
  <2>7. messages' \in Seq(Anything) /\ streaming' = FALSE
    BY <2>1, <2>2, ResultIs DEF Emitted
  <2>8. pendingCalls' \subseteq Nat \X Nat
    BY <2>1 DEF Shapes
  <2> QED
    BY <1>2, <2>6, <2>7, <2>8 DEF EndCallInTurn, RunOnly, Shapes
<1>3. CASE PrepareCall
  <2>1. PICK k \in In("started") :
       \/ /\ \E t \in BOOLEAN :
               run' = [run EXCEPT !.batch[k] = "ended",
                                  !.terminate = @ /\ t /\ ~aborted]
          /\ pendingCalls' = pendingCalls \ {<<turns, k>>}
       \/ /\ ~aborted
          /\ run' = [run EXCEPT !.batch[k] = "queued"]
          /\ UNCHANGED pendingCalls
    BY <1>3 DEF PrepareCall
  <2>2. k \in Calls
    BY DEF In
  <2>3. run' \in RunSet
    <3>1. CASE run' = [run EXCEPT !.batch[k] = "queued"]
      BY <2>2, <3>1, CallMoves DEF Statuses
    <3>2. ASSUME NEW t \in BOOLEAN,
                 run' = [run EXCEPT !.batch[k] = "ended", !.terminate = @ /\ t /\ ~aborted]
          PROVE  run' \in RunSet
      <4>1. PICK e \in BOOLEAN : e = (run.terminate /\ t /\ ~aborted)
        OBVIOUS
      <4>2. run' = [run EXCEPT !.batch[k] = "ended", !.terminate = e]
        BY <3>2, <4>1
      <4> QED
        BY <2>2, <4>2, CallMoves DEF Statuses
    <3> QED
      BY <2>1, <3>1, <3>2
  <2>4. pendingCalls' \subseteq Nat \X Nat
    BY <2>1 DEF Shapes
  <2> QED
    BY <1>3, <2>3, <2>4 DEF PrepareCall, RunOnly, Shapes
<1>4. CASE EndQueuedCall
  <2>1. PICK k \in In("queued"), t \in BOOLEAN :
       /\ run' = [run EXCEPT !.batch[k] = "ended", !.terminate = @ /\ t]
       /\ pendingCalls' = pendingCalls \ {<<turns, k>>}
    BY <1>4 DEF EndQueuedCall
  <2>2. k \in Calls
    BY DEF In
  <2>3. PICK e \in BOOLEAN : e = (run.terminate /\ t)
    OBVIOUS
  <2>4. run' = [run EXCEPT !.batch[k] = "ended", !.terminate = e]
    BY <2>1, <2>3
  <2>5. run' \in RunSet
    BY <2>2, <2>4, CallMoves DEF Statuses
  <2>6. pendingCalls' \subseteq Nat \X Nat
    BY <2>1 DEF Shapes
  <2> QED
    BY <1>4, <2>5, <2>6 DEF EndQueuedCall, RunOnly, Shapes
<1>5. CASE EmitResult
  <2>1. PICK k \in Calls :
       /\ run' = [run EXCEPT !.batch[k] = "done",
                             !.results = Append(@, Result(turns, k))]
       /\ Emitted(Result(turns, k))
    BY <1>5 DEF EmitResult
  <2>2. PICK s \in Seq(Results) : s = Append(run.results, Result(turns, k))
    BY ResultIs
  <2>3. run' = [run EXCEPT !.batch[k] = "done", !.results = s]
    BY <2>1, <2>2
  <2>4. run' \in RunSet
    BY <2>3, CallMoves DEF Statuses
  <2>5. messages' \in Seq(Anything) /\ streaming' = FALSE
    BY <2>1, ResultIs DEF Emitted
  <2> QED
    BY <1>5, <2>4, <2>5 DEF EmitResult, RunOnly, Shapes
<1>6. CASE EndBatch
  <2>1. PICK c \in Seq(Anything), f \in Seq(Anything) :
          c = run.context \o run.results /\ f = run.fresh \o run.results
    BY Fields, SequencesAre
  <2>2. PICK e \in BOOLEAN : e = ~run.terminate
    OBVIOUS
  <2>3. run' = [run EXCEPT !.pc = "turnEnd", !.more = e, !.context = c, !.fresh = f,
                           !.batch = <<>>, !.results = <<>>]
    BY <1>6, <2>1, <2>2 DEF EndBatch
  <2>4. <<>> \in Seq(Results) /\ <<>> \in Seq(Statuses)
    OBVIOUS
  <2>5. run' \in RunSet
    BY <2>3, <2>4 DEF Shapes, RunSet, Statuses
  <2> QED
    BY <1>6, <2>5 DEF EndBatch, RunOnly, agentVars, Shapes
<1> QED
  BY <1>1, <1>2, <1>3, <1>4, <1>5, <1>6

\* A run is gone, and active_run still names it: its future was dropped, or it
\* found the mutex poisoned.
Lost == DropRun \/ RunLockFails

LEMMA EndShaped ==
  ASSUME Shapes, TurnEnd \/ PollFollowUps \/ FinishRun \/ HandleRunFailure \/ Panic \/ Lost
                 \/ \E c \in Caller : Begin(c)
  PROVE  Shapes'
<1>1. CASE TurnEnd
  <2>1. CASE Going("finish") /\ UNCHANGED queue
    <3>1. run' \in RunSet
      BY <2>1 DEF Going, Shapes, RunSet
    <3>2. errored' \in BOOLEAN
      BY <1>1 DEF TurnEnd
    <3> QED
      BY <1>1, <2>1, <3>1, <3>2 DEF TurnEnd, RunOnly, Shapes
  <2>2. ASSUME NEW decision \in {"none", "end", "continue"},
               PollSteering([run EXCEPT !.pc = "top", !.explicit =
                  /\ @ \/ decision = "continue"
                  /\ ~run.more /\ queue["steer"] = <<>>])
        PROVE  Shapes'
    <3>1. PICK e \in BOOLEAN : e = (/\ run.explicit \/ decision = "continue"
                                    /\ ~run.more /\ queue["steer"] = <<>>)
      OBVIOUS
    <3>2. [run EXCEPT !.pc = "top", !.explicit = e] \in RunSet
      BY DEF Shapes, RunSet
    <3>3. PollSteering([run EXCEPT !.pc = "top", !.explicit = e])
      BY <2>2, <3>1
    <3>4. queue' \in [Queues -> Seq(Users)] /\ run' \in RunSet
      BY <3>2, <3>3, PolledShaped
    <3>5. errored' \in BOOLEAN
      BY <1>1 DEF TurnEnd
    <3> QED
      BY <1>1, <3>4, <3>5 DEF TurnEnd, RunOnly, Shapes
  <2> QED
    BY <1>1, <2>1, <2>2 DEF TurnEnd
<1>2. CASE PollFollowUps
  <2>1. PICK d \in Seq(Users), rest \in Seq(Users) : d = Drained("followUp") /\ rest = Kept("followUp")
    BY DrainIs DEF Shapes, Queues
  <2>2. queue' \in [Queues -> Seq(Users)]
    BY <1>2, <2>1 DEF PollFollowUps, Shapes
  <2>3. \/ run' = [run EXCEPT !.pending = d, !.explicit = FALSE, !.more = TRUE]
        \/ run' = [run EXCEPT !.pc = "finish"]
    BY <1>2, <2>1 DEF PollFollowUps
  <2>4. run' \in RunSet
    <3>1. [run EXCEPT !.pending = d, !.explicit = FALSE, !.more = TRUE] \in RunSet
      BY DEF Shapes, RunSet
    <3>2. [run EXCEPT !.pc = "finish"] \in RunSet
      BY DEF Shapes, RunSet
    <3> QED
      BY <2>3, <3>1, <3>2
  <2> QED
    BY <1>2, <2>2, <2>4 DEF PollFollowUps, RunOnly, agentVars, Shapes
<1>3. CASE FinishRun
  <2>1. caller' \in [Caller -> CallerSet]
    BY <1>3, RestIs DEF FinishRun, Shapes
  <2> QED
    BY <1>3, <2>1, RestIs DEF FinishRun, Shapes
<1>4. CASE HandleRunFailure
  <2>1. PICK m \in Anything : m = Answer(0, IF aborted THEN "aborted" ELSE "error", 0)
    <3>1. \A stop \in {"aborted", "error"} : Answer(0, stop, 0) \in Anything
      BY DEF Answer, Anything, Answered, Stops
    <3> QED
      BY <3>1
  <2>2. messages' \in Seq(Anything) /\ streaming' = FALSE
    BY <1>4, <2>1, SequencesAre DEF HandleRunFailure, Emitted, Shapes
  <2>3. run' \in RunSet
    BY <1>4 DEF HandleRunFailure, Going, Shapes, RunSet
  <2> QED
    BY <1>4, <2>2, <2>3 DEF HandleRunFailure, RunOnly, Shapes
<1>5. CASE Panic
  <2>1. faults' \in Nat
    BY <1>5 DEF Panic, Shapes
  <2>2. run' \in RunSet
    <3>1. [NoRun EXCEPT !.pc = "failing"] \in RunSet
      BY RestIs DEF RunSet
    <3> QED
      BY <1>5, <3>1, RestIs DEF Panic
  <2>3. caller' \in [Caller -> CallerSet]
    BY <1>5, CallerMoves DEF Panic, Shapes
  <2> QED
    BY <1>5, <2>1, <2>2, <2>3 DEF Panic, agentVars, Shapes
<1>6. CASE Lost
  <2>1. faults' \in Nat
    BY <1>6 DEF Lost, DropRun, RunLockFails, Shapes
  <2>2. run' \in RunSet
    BY <1>6, RestIs DEF Lost, DropRun, RunLockFails
  <2>3. caller' \in [Caller -> CallerSet]
    BY <1>6, CallerMoves DEF Lost, DropRun, RunLockFails, Shapes
  <2> QED
    BY <1>6, <2>1, <2>2, <2>3 DEF Lost, DropRun, RunLockFails, agentVars, Shapes
<1>7. ASSUME NEW c \in Caller, Begin(c)
      PROVE  Shapes'
  <2>1. CASE MayBegin
    <3>1. runs' \in Nat /\ active' \in Nat
      <4>1. PICK n \in Nat : n = runs + 1
        BY DEF Shapes
      <4> QED
        BY <1>7, <2>1, <4>1 DEF Begin
    <3>2. caller' \in [Caller -> CallerSet]
      <4>1. To(c, "running", <<>>)
        BY <1>7, <2>1 DEF Begin
      <4>2. <<>> \in Seq(Users)
        OBVIOUS
      <4> QED
        BY <4>1, <4>2, CallerMoves DEF Shapes
    <3>3. run' \in RunSet
      <4>1. PICK pc \in {"firstPoll", "prologue", "failing"} :
              run' = [NoRun EXCEPT !.pc = pc, !.base = messages, !.context = Seed \o messages,
                                   !.toEmit = caller[c].hand]
        BY <1>7, <2>1 DEF Begin, FirstStep
      <4>2. Seed \o messages \in Seq(Anything)
        BY SeedIs, SequencesAre DEF Shapes
      <4> QED
        BY <4>1, <4>2, RestIs, Fields DEF RunSet, Shapes
    <3> QED
      BY <1>7, <2>1, <3>1, <3>2, <3>3 DEF Begin, Shapes
  <2>2. CASE ~MayBegin
    <3>1. caller' \in [Caller -> CallerSet]
      BY <1>7, <2>2, RestIs DEF Begin, Shapes
    <3> QED
      BY <1>7, <2>2, <3>1 DEF Begin, Shapes
  <2> QED
    BY <2>1, <2>2
<1> QED
  BY <1>1, <1>2, <1>3, <1>4, <1>5, <1>6, <1>7

-----------------------------------------------------------------------------
(* Where a run is decides what it may carry.                               *)

Batching == {"truncated", "sequential", "parallel"}

PhaseInv ==
  /\ run.toEmit # <<>> => run.pc \in {"prologue", "inject"}
  /\ run.pending # <<>> => run.pc = "top"
  /\ run.batch # <<>> => run.pc \in Batching
  /\ run.results # <<>> => run.pc \in Batching
  /\ Bounded

HandInv == \A c \in Caller : caller[c].hand # <<>> => caller[c].at = "begin"

\* A run is executing inside one caller, and is the active one.
RunnerInv ==
  /\ run.pc = "none" => \A c \in Caller : ~Runner(c)
  /\ run.pc # "none" => active # 0 /\ \E c \in Caller : \A d \in Caller : Runner(d) <=> d = c
  /\ active <= runs

RunQuiet == \/ \E q \in Queues : Enqueue(q)
            \/ ClearQueues \/ Reset \/ Refused
            \/ \E c \in Caller : Prompt(c) \/ Continue(c) \/ TakeNotify(c)
                                 \/ DrainForContinue(c) \/ Await(c) \/ LockFails(c)

RunLoop == \/ Prologue \/ FirstPoll \/ PrepareTurn \/ Inject \/ Request \/ EndOfStream
           \/ StartCall \/ EndCallInTurn \/ PrepareCall \/ EndQueuedCall \/ EmitResult
           \/ EndBatch \/ TurnEnd \/ PollFollowUps \/ HandleRunFailure

LEMMA Steps ==
  Next <=> \/ RunQuiet \/ Abort \/ RunLoop \/ FinishRun \/ Panic \/ Lost
           \/ \E c \in Caller : Begin(c)
BY DEF Next, RunQuiet, RunLoop, RunStep, CallerStep, Queues, Lost

LEMMA QuietSteps ==
  ASSUME RunQuiet
  PROVE  UNCHANGED <<run, active, aborted, turns, runs>>
BY DEF RunQuiet, Enqueue, ClearQueues, Reset, Refused, Prompt, Continue, DrainForContinue, TakeNotify,
       Await, LockFails

LEMMA LoopSteps ==
  ASSUME RunLoop
  PROVE  UNCHANGED <<active, aborted, caller, runs, faults, dropped>>
BY DEF RunLoop, Prologue, FirstPoll, PrepareTurn, Inject, Injected, Request, EndOfStream, StartCall,
       EndCallInTurn, PrepareCall, EndQueuedCall, EmitResult, EndBatch, TurnEnd, PollFollowUps,
       HandleRunFailure, RunOnly

\* What the steps of a loop do to the local state of a run.
LEMMA InjectedIs ==
  ASSUME Shapes, NEW next \in {"firstPoll", "request"}, Injected(next)
  PROVE  /\ run'.toEmit = Tail(run.toEmit)
         /\ run'.pc = IF run'.toEmit = <<>> THEN next ELSE run.pc
         /\ run'.context = Append(run.context, Head(run.toEmit))
         /\ run'.fresh = Append(run.fresh, Head(run.toEmit))
         /\ run'.base = run.base /\ run'.pending = run.pending /\ run'.batch = run.batch
         /\ run'.results = run.results /\ run'.failed = run.failed
<1>1. PICK s \in Seq(Users) : s = run.toEmit
  BY Fields
<1>2. s # <<>> /\ run' = [run EXCEPT !.toEmit = Tail(@), !.context = Append(@, Head(s)),
                        !.fresh = Append(@, Head(s)),
                        !.pc = IF Len(s) = 1 THEN next ELSE @]
  BY <1>1 DEF Injected
<1>3. Len(s) = 1 <=> Tail(s) = <<>>
  <2>1. PICK t \in Seq(Users) : t = Tail(s)
    BY <1>1, <1>2, SequencesAre
  <2>2. Len(t) = Len(s) - 1 /\ Len(s) \in Nat
    BY <1>1, <1>2, <2>1
  <2>3. t = <<>> <=> Len(t) = 0
    OBVIOUS
  <2> QED
    BY SMTT(30), <2>1, <2>2, <2>3
<1>4. PICK pc \in {run.pc, next} : /\ pc = IF Tail(s) = <<>> THEN next ELSE run.pc
                                   /\ run' = [run EXCEPT !.toEmit = Tail(@), !.context = Append(@, Head(s)),
                                                         !.fresh = Append(@, Head(s)), !.pc = pc]
  BY <1>2, <1>3
<1> QED
  BY <1>1, <1>4 DEF Shapes, RunSet

LEMMA EndOfStreamIs ==
  ASSUME Shapes, EndOfStream
  PROVE  \E m \in Answers(turns) :
           /\ m \in Anything /\ m \in Answered
           /\ messages' = Append(messages, m) /\ streaming' = FALSE
           /\ run'.pc \in {"turnEnd"} \cup Batching /\ (run'.pc = "turnEnd" <=> m.calls = 0)
           /\ run'.context = Settled(run.context, m) /\ run'.fresh = Append(run.fresh, m)
           /\ run'.base = run.base /\ run'.pending = run.pending /\ run'.toEmit = run.toEmit
           /\ run'.failed = Failed(m) /\ run'.batch = [k \in 1..m.calls |-> "unseen"]
           /\ run'.results = <<>>
<1>1. PICK m \in Answers(turns) :
        /\ Emitted(m)
        /\ \E pc \in IF m.calls = 0 THEN {"turnEnd"} ELSE IF m.stop = "length" THEN {"truncated"}
                   ELSE {"sequential", "parallel"} :
          run' = [run EXCEPT !.pc = pc, !.context = Settled(@, m),
                             !.fresh = Append(@, m), !.first = FALSE,
                             !.more = FALSE,
                             !.failed = Failed(m),
                             !.batch = [k \in 1..m.calls |-> "unseen"],
                             !.results = <<>>,
                             !.terminate = TRUE]
  BY DEF EndOfStream
<1>2. m \in Answered /\ m \in Anything
  BY <1>1, AnswersAre DEF Shapes, Anything
<1>3. PICK pc \in {"turnEnd"} \cup Batching :
        /\ pc = "turnEnd" <=> m.calls = 0
        /\ run' = [run EXCEPT !.pc = pc, !.context = Settled(@, m),
                             !.fresh = Append(@, m), !.first = FALSE,
                             !.more = FALSE,
                             !.failed = Failed(m),
                             !.batch = [k \in 1..m.calls |-> "unseen"],
                             !.results = <<>>,
                             !.terminate = TRUE]
  BY <1>1 DEF Batching
<1>4. /\ run'.pc = pc /\ run'.context = Settled(run.context, m) /\ run'.fresh = Append(run.fresh, m)
      /\ run'.base = run.base /\ run'.pending = run.pending /\ run'.toEmit = run.toEmit
      /\ run'.failed = Failed(m) /\ run'.batch = [k \in 1..m.calls |-> "unseen"]
      /\ run'.results = <<>>
  BY <1>3 DEF Shapes, RunSet
<1> QED
  BY <1>1, <1>2, <1>3, <1>4 DEF Emitted

\* The calls of a batch: what a step changes of the run.
CallSteps(k) ==
  \/ /\ StartCall /\ IsNext(k) /\ In("started") = {} /\ (At("truncated") \/ MayStart(k))
     /\ run'.batch = [run.batch EXCEPT ![k] = "started"] /\ run'.results = run.results
     /\ pendingCalls' = pendingCalls \cup {<<turns, k>>} /\ UNCHANGED <<messages, streaming>>
  \/ /\ run.pc \in {"truncated", "sequential"} /\ k \in In("started")
     /\ run'.batch = [run.batch EXCEPT ![k] = "done"]
     /\ run'.results = Append(run.results, Result(turns, k))
     /\ pendingCalls' = pendingCalls \ {<<turns, k>>}
     /\ messages' = Append(messages, Result(turns, k)) /\ streaming' = FALSE
  \/ /\ At("parallel")
     /\ \/ k \in In("started")
        \/ AllSeen /\ k \in In("queued")
     /\ run'.batch = [run.batch EXCEPT ![k] = "ended"] /\ run'.results = run.results
     /\ pendingCalls' = pendingCalls \ {<<turns, k>>} /\ UNCHANGED <<messages, streaming>>
  \/ /\ At("parallel") /\ k \in In("started")
     /\ run'.batch = [run.batch EXCEPT ![k] = "queued"] /\ run'.results = run.results
     /\ UNCHANGED <<pendingCalls, messages, streaming>>
  \/ /\ At("parallel") /\ AllSeen /\ In("queued") = {} /\ EmitsNext(k)
     /\ run'.batch = [run.batch EXCEPT ![k] = "done"]
     /\ run'.results = Append(run.results, Result(turns, k))
     /\ messages' = Append(messages, Result(turns, k)) /\ streaming' = FALSE
     /\ UNCHANGED pendingCalls

LEMMA CallStepsAre ==
  ASSUME Shapes, Bounded, StartCall \/ EndCallInTurn \/ PrepareCall \/ EndQueuedCall \/ EmitResult
  PROVE  /\ run.pc \in Batching
         /\ run'.pc = run.pc /\ run'.base = run.base /\ run'.context = run.context
         /\ run'.fresh = run.fresh /\ run'.pending = run.pending /\ run'.toEmit = run.toEmit
         /\ run'.failed = run.failed
         /\ UNCHANGED <<queue, sent, turns>>
         /\ \E k \in Calls : CallSteps(k)
<1>1. CASE StartCall
  <2>1. PICK k \in Calls : /\ IsNext(k) /\ (At("truncated") \/ MayStart(k))
                           /\ run' = [run EXCEPT !.batch[k] = "started"]
                           /\ pendingCalls' = pendingCalls \cup {<<turns, k>>}
    BY <1>1 DEF StartCall
  <2>2. /\ run'.pc = run.pc /\ run'.base = run.base /\ run'.context = run.context
        /\ run'.fresh = run.fresh /\ run'.pending = run.pending /\ run'.toEmit = run.toEmit
        /\ run'.failed = run.failed
        /\ run'.batch = [run.batch EXCEPT ![k] = "started"] /\ run'.results = run.results
    BY <2>1 DEF Shapes, RunSet
  <2>3. CallSteps(k)
    BY <1>1, <2>1, <2>2 DEF CallSteps, StartCall
  <2> QED
    BY <1>1, <2>2, <2>3 DEF StartCall, Batching
<1>2. CASE EndCallInTurn
  <2>1. PICK k \in In("started"), t \in BOOLEAN :
       /\ run' = [run EXCEPT !.batch[k] = "done",
                             !.results = Append(@, Result(turns, k)),
                             !.terminate = @ /\ t /\ ~At("truncated")]
       /\ pendingCalls' = pendingCalls \ {<<turns, k>>}
       /\ Emitted(Result(turns, k))
    BY <1>2 DEF EndCallInTurn
  <2>2. /\ run'.pc = run.pc /\ run'.base = run.base /\ run'.context = run.context
        /\ run'.fresh = run.fresh /\ run'.pending = run.pending /\ run'.toEmit = run.toEmit
        /\ run'.failed = run.failed
        /\ run'.batch = [run.batch EXCEPT ![k] = "done"]
        /\ run'.results = Append(run.results, Result(turns, k))
    BY <2>1 DEF Shapes, RunSet
  <2>3. CallSteps(k) /\ k \in Calls
    BY <1>2, <2>1, <2>2 DEF CallSteps, EndCallInTurn, Emitted, In
  <2> QED
    BY <1>2, <2>2, <2>3 DEF EndCallInTurn, Batching
<1>3. CASE PrepareCall
  <2>1. PICK k \in In("started") :
       \/ /\ \E t \in BOOLEAN :
               run' = [run EXCEPT !.batch[k] = "ended",
                                  !.terminate = @ /\ t /\ ~aborted]
          /\ pendingCalls' = pendingCalls \ {<<turns, k>>}
       \/ /\ ~aborted
          /\ run' = [run EXCEPT !.batch[k] = "queued"]
          /\ UNCHANGED pendingCalls
    BY <1>3 DEF PrepareCall
  <2>2. /\ run'.pc = run.pc /\ run'.base = run.base /\ run'.context = run.context
        /\ run'.fresh = run.fresh /\ run'.pending = run.pending /\ run'.toEmit = run.toEmit
        /\ run'.failed = run.failed /\ run'.results = run.results
    BY <2>1 DEF Shapes, RunSet
  <2>3. \/ /\ run'.batch = [run.batch EXCEPT ![k] = "ended"]
           /\ pendingCalls' = pendingCalls \ {<<turns, k>>}
        \/ run'.batch = [run.batch EXCEPT ![k] = "queued"] /\ UNCHANGED pendingCalls
    BY <2>1 DEF Shapes, RunSet
  <2>4. CallSteps(k) /\ k \in Calls
    BY <1>3, <2>1, <2>2, <2>3 DEF CallSteps, PrepareCall, In
  <2> QED
    BY <1>3, <2>2, <2>4 DEF PrepareCall, Batching, At
<1>4. CASE EndQueuedCall
  <2>1. PICK k \in In("queued"), t \in BOOLEAN :
       /\ run' = [run EXCEPT !.batch[k] = "ended", !.terminate = @ /\ t]
       /\ pendingCalls' = pendingCalls \ {<<turns, k>>}
    BY <1>4 DEF EndQueuedCall
  <2>2. /\ run'.pc = run.pc /\ run'.base = run.base /\ run'.context = run.context
        /\ run'.fresh = run.fresh /\ run'.pending = run.pending /\ run'.toEmit = run.toEmit
        /\ run'.failed = run.failed /\ run'.results = run.results
        /\ run'.batch = [run.batch EXCEPT ![k] = "ended"]
    BY <2>1 DEF Shapes, RunSet
  <2>3. CallSteps(k) /\ k \in Calls
    BY <1>4, <2>1, <2>2 DEF CallSteps, EndQueuedCall, In
  <2> QED
    BY <1>4, <2>2, <2>3 DEF EndQueuedCall, Batching, At
<1>5. CASE EmitResult
  <2>1. PICK k \in Calls :
       /\ EmitsNext(k)
       /\ run' = [run EXCEPT !.batch[k] = "done",
                             !.results = Append(@, Result(turns, k))]
       /\ Emitted(Result(turns, k))
    BY <1>5 DEF EmitResult
  <2>2. /\ run'.pc = run.pc /\ run'.base = run.base /\ run'.context = run.context
        /\ run'.fresh = run.fresh /\ run'.pending = run.pending /\ run'.toEmit = run.toEmit
        /\ run'.failed = run.failed
        /\ run'.batch = [run.batch EXCEPT ![k] = "done"]
        /\ run'.results = Append(run.results, Result(turns, k))
    BY <2>1 DEF Shapes, RunSet
  <2>3. CallSteps(k)
    BY <1>5, <2>1, <2>2 DEF CallSteps, EmitResult, Emitted
  <2> QED
    BY <1>5, <2>2, <2>3 DEF EmitResult, Batching, At
<1> QED
  BY <1>1, <1>2, <1>3, <1>4, <1>5

\* What steps that call no tool and answer nothing leave of a run.
SameTalk == /\ run'.base = run.base /\ run'.context = run.context /\ run'.fresh = run.fresh
            /\ run'.failed = run.failed
SameBatch == run'.batch = run.batch /\ run'.results = run.results

LEMMA FirstPollIs ==
  ASSUME Shapes, FirstPoll
  PROVE  /\ run.pc = "firstPoll" /\ run'.pc = "top" /\ SameTalk /\ SameBatch
         /\ run'.toEmit = run.toEmit /\ run'.pending = Drained("steer")
         /\ queue' = [queue EXCEPT !["steer"] = Kept("steer")]
         /\ UNCHANGED <<agentVars, sent, turns>>
<1>1. run' = [run EXCEPT !.pc = "top", !.pending = Drained("steer")]
  BY DEF FirstPoll, PollSteering, Shapes, RunSet
<1> QED
  BY <1>1 DEF FirstPoll, PollSteering, Shapes, RunSet, SameTalk, SameBatch, At

\* The message that prepare_next_turn hands over, if it does.
Handed == <<Input("prepared", sent["prepared"] + 1)>>

LEMMA PrepareTurnIs ==
  ASSUME Shapes, PrepareTurn
  PROVE  /\ run.pc = "top" /\ SameTalk /\ SameBatch /\ run'.pending = <<>>
         /\ run'.toEmit \in Seq(Users)
         /\ run'.pc = IF run'.toEmit = <<>> THEN "request" ELSE "inject"
         /\ \/ run'.toEmit = run.pending /\ UNCHANGED <<queue, sent>>
            \/ /\ run'.toEmit = Repolled /\ UNCHANGED sent
               /\ queue' = IF PollsAgain THEN [queue EXCEPT !["steer"] = Kept("steer")] ELSE queue
            \/ /\ run'.toEmit = Handed \o Repolled
               /\ sent["prepared"] + 1 <= Limit["prepared"]
               /\ sent' = [sent EXCEPT !["prepared"] = sent["prepared"] + 1]
               /\ queue' = IF PollsAgain THEN [queue EXCEPT !["steer"] = Kept("steer")] ELSE queue
         /\ UNCHANGED <<agentVars, turns>>
<1>1. ASSUME NEW ms, ToInject(ms)
      PROVE  /\ SameTalk /\ SameBatch /\ run'.pending = <<>>
             /\ run'.toEmit = ms /\ run'.pc = IF ms = <<>> THEN "request" ELSE "inject"
  BY <1>1 DEF ToInject, Shapes, RunSet, SameTalk, SameBatch
<1>2. run.pc = "top" /\ UNCHANGED <<agentVars, turns>> /\ run.pending \in Seq(Users)
  BY Fields DEF PrepareTurn, At
<1>3. run' \in RunSet
  BY LoopShaped DEF Shapes
<1>4. run'.toEmit \in Seq(Users)
  BY <1>3 DEF RunSet
<1>5. CASE run.first
  BY <1>1, <1>2, <1>4, <1>5 DEF PrepareTurn
<1>6. CASE ~run.first
  <2>1. PICK prepared \in {0, 1} :
            /\ sent["prepared"] + prepared <= Limit["prepared"]
            /\ sent' = [sent EXCEPT !["prepared"] = @ + prepared]
            /\ ToInject([i \in 1..prepared |-> Input("prepared", sent["prepared"] + 1)] \o Repolled)
            /\ queue' = IF PollsAgain THEN [queue EXCEPT !["steer"] = Kept("steer")] ELSE queue
    BY <1>6 DEF PrepareTurn
  <2>2. Drained("steer") \in Seq(Users)
    BY DrainIs DEF Shapes, Queues
  <2>3. PICK p \in Seq(Users) : p = Repolled
    BY <1>2, <2>2 DEF Repolled
  <2>4. PICK n \in Nat : n = sent["prepared"]
    BY DEF Shapes, AllWays
  <2>5. CASE prepared = 0
    <3>1. [i \in 1..prepared |-> Input("prepared", sent["prepared"] + 1)] \o p = p
      BY <2>5
    <3>2. sent' = sent
      BY <2>1, <2>4, <2>5 DEF Shapes, AllWays
    <3>3. ToInject(p)
      BY <2>1, <2>3, <3>1
    <3>4. /\ SameTalk /\ SameBatch /\ run'.pending = <<>>
          /\ run'.toEmit = p /\ run'.pc = IF p = <<>> THEN "request" ELSE "inject"
      BY <1>1, <3>3
    <3> QED
      BY <1>2, <1>4, <2>1, <2>3, <3>2, <3>4
  <2>6. CASE prepared = 1
    <3>1. [i \in 1..prepared |-> Input("prepared", sent["prepared"] + 1)] = Handed
      BY <2>6 DEF Handed
    <3>2. ToInject(Handed \o Repolled)
      BY <2>1, <3>1
    <3>3. /\ SameTalk /\ SameBatch /\ run'.pending = <<>>
          /\ run'.toEmit = Handed \o Repolled
          /\ run'.pc = IF run'.toEmit = <<>> THEN "request" ELSE "inject"
      BY <1>1, <3>2
    <3>4. /\ sent["prepared"] + 1 <= Limit["prepared"]
          /\ sent' = [sent EXCEPT !["prepared"] = sent["prepared"] + 1]
      BY <2>1, <2>6
    <3> QED
      BY <1>2, <1>4, <2>1, <3>3, <3>4
  <2> QED
    BY <2>1, <2>5, <2>6
<1> QED
  BY <1>5, <1>6

LEMMA RequestIs ==
  ASSUME Shapes, Request
  PROVE  /\ run.pc = "request" /\ run'.pc = "streaming" /\ turns' = turns + 1
         /\ run'.base = run.base /\ run'.fresh = run.fresh /\ run'.failed = run.failed /\ SameBatch
         /\ run'.toEmit = run.toEmit /\ run'.pending = run.pending
         /\ \/ run'.context = run.context
            \/ run'.context = Append(run.context, Answer(turns + 1, "partial", 0))
         /\ UNCHANGED <<messages, pendingCalls, errored, queue, sent>>
<1>1. PICK context \in {run.context, Append(run.context, Answer(turns + 1, "partial", 0))} :
        run' = [run EXCEPT !.pc = "streaming", !.context = context]
  BY DEF Request
<1> QED
  BY <1>1 DEF Request, At, Shapes, RunSet, SameBatch

LEMMA EndBatchIs ==
  ASSUME Shapes, EndBatch
  PROVE  /\ run.pc \in Batching /\ run'.pc = "turnEnd"
         /\ AllSeen /\ In("queued") = {} /\ In("ended") = {} /\ (At("truncated") => In("unseen") = {})
         /\ run'.context = run.context \o run.results /\ run'.fresh = run.fresh \o run.results
         /\ run'.batch = <<>> /\ run'.results = <<>>
         /\ run'.base = run.base /\ run'.failed = run.failed
         /\ run'.toEmit = run.toEmit /\ run'.pending = run.pending
         /\ UNCHANGED <<agentVars, queue, sent, turns>>
BY DEF EndBatch, Shapes, RunSet, Batching, At

LEMMA TurnEndIs ==
  ASSUME Shapes, TurnEnd
  PROVE  /\ run.pc = "turnEnd" /\ SameTalk /\ SameBatch
         /\ run'.toEmit = run.toEmit
         /\ \/ run'.pc = "finish" /\ run'.pending = run.pending /\ UNCHANGED queue
            \/ /\ ~run.failed /\ run'.pc = "top" /\ run'.pending = Drained("steer")
               /\ queue' = [queue EXCEPT !["steer"] = Kept("steer")]
         /\ UNCHANGED <<messages, streaming, pendingCalls, sent, turns>>
<1>1. CASE Going("finish") /\ UNCHANGED queue
  BY <1>1 DEF TurnEnd, At, Going, Shapes, RunSet, SameTalk, SameBatch
<1>2. ASSUME ~run.failed, NEW decision \in {"none", "end", "continue"},
             PollSteering([run EXCEPT !.pc = "top", !.explicit =
                /\ @ \/ decision = "continue"
                /\ ~run.more /\ queue["steer"] = <<>>])
      PROVE  /\ SameTalk /\ SameBatch
             /\ run'.toEmit = run.toEmit /\ run'.pc = "top" /\ run'.pending = Drained("steer")
             /\ queue' = [queue EXCEPT !["steer"] = Kept("steer")]
  <2>1. PICK e : run' = [[run EXCEPT !.pc = "top", !.explicit = e] EXCEPT !.pending = Drained("steer")]
    BY <1>2 DEF PollSteering
  <2> QED
    BY <1>2, <2>1 DEF PollSteering, Shapes, RunSet, SameTalk, SameBatch
<1> QED
  BY <1>1, <1>2 DEF TurnEnd, At

LEMMA PollFollowUpsIs ==
  ASSUME Shapes, PollFollowUps
  PROVE  /\ run.pc = "top" /\ run.pending = <<>> /\ SameTalk /\ SameBatch
         /\ run'.toEmit = run.toEmit
         /\ \/ run'.pc = "top" /\ run'.pending = Drained("followUp")
            \/ run'.pc = "finish" /\ run'.pending = run.pending /\ Drained("followUp") = <<>>
         /\ queue' = [queue EXCEPT !["followUp"] = Kept("followUp")]
         /\ UNCHANGED <<agentVars, sent, turns>>
BY DEF PollFollowUps, At, Repeats, Shapes, RunSet, SameTalk, SameBatch

LEMMA RunEmpty ==
  /\ NoRun.pc = "none" /\ NoRun.toEmit = <<>> /\ NoRun.pending = <<>> /\ NoRun.batch = <<>>
  /\ NoRun.results = <<>> /\ NoRun.context = <<>> /\ NoRun.fresh = <<>>
  /\ NoRun.base = <<>>
BY DEF NoRun

\* A run begins, or the caller is turned away.
LEMMA BeginIs ==
  ASSUME Shapes, NEW c \in Caller, Begin(c)
  PROVE  /\ caller[c].at = "begin" /\ UNCHANGED <<messages, pendingCalls, queue, sent, turns, faults>>
         /\ \/ /\ active = 0 /\ runs' = runs + 1 /\ active' = runs' /\ aborted' = FALSE
               /\ streaming' = FALSE
               /\ \A d \in Caller : caller'[d] = IF d = c THEN [Idle EXCEPT !.at = "running", !.hand = <<>>]
                                                 ELSE caller[d]
               /\ IF caller[c].hand = <<>> THEN run'.pc \in {"firstPoll", "failing"}
                  ELSE run'.pc = "prologue"
               /\ run'.base = messages /\ run'.context = Seed \o messages /\ run'.fresh = <<>>
               /\ run'.toEmit = caller[c].hand /\ run'.pending = <<>> /\ run'.batch = <<>>
               /\ run'.results = <<>>
               /\ UNCHANGED dropped
            \/ /\ active # 0 /\ dropped' = dropped \cup ToSet(caller[c].hand)
               /\ \A d \in Caller : caller'[d] = IF d = c THEN Idle ELSE caller[d]
               /\ UNCHANGED <<runs, active, aborted, streaming, errored, run>>
<1>1. CASE MayBegin
  <2>1. run' = [NoRun EXCEPT !.pc = FirstStep(caller[c].hand), !.base = messages,
                             !.context = Seed \o messages, !.toEmit = caller[c].hand]
    BY <1>1 DEF Begin
  <2>2. /\ run'.pc = FirstStep(caller[c].hand)
        /\ run'.base = messages /\ run'.context = Seed \o messages /\ run'.fresh = <<>>
        /\ run'.toEmit = caller[c].hand /\ run'.pending = <<>> /\ run'.batch = <<>>
        /\ run'.results = <<>>
    BY <2>1 DEF NoRun
  <2>3. caller' = [caller EXCEPT ![c] = [Idle EXCEPT !.at = "running", !.hand = <<>>]]
    BY <1>1 DEF Begin, To
  <2>4. \A d \in Caller : caller'[d] = IF d = c THEN [Idle EXCEPT !.at = "running", !.hand = <<>>]
                                                 ELSE caller[d]
    BY <2>3 DEF Shapes
  <2> QED
    BY <1>1, <2>2, <2>4 DEF Begin, MayBegin, FirstStep
<1>2. CASE ~MayBegin
  <2>1. caller' = [caller EXCEPT ![c] = Idle]
    BY <1>2 DEF Begin
  <2>2. \A d \in Caller : caller'[d] = IF d = c THEN Idle ELSE caller[d]
    BY <2>1 DEF Shapes
  <2> QED
    BY <1>2, <2>2 DEF Begin, MayBegin
<1> QED
  BY <1>1, <1>2

LEMMA FaultIs ==
  ASSUME Panic \/ Lost
  PROVE  /\ run.pc # "none" /\ dropped' = dropped \cup Carried
         /\ \/ run' = NoRun /\ \E c \in Caller : Runner(c) /\ caller' = [caller EXCEPT ![c].at = "gone"]
            \/ run' = [NoRun EXCEPT !.pc = "failing"] /\ UNCHANGED caller
         /\ UNCHANGED <<agentVars, queue, active, aborted, sent, turns, runs>>
BY DEF Panic, Lost, DropRun, RunLockFails

LEMMA FailureIs ==
  ASSUME Shapes, HandleRunFailure
  PROVE  /\ run.pc = "failing" /\ run'.pc = "failed" /\ SameTalk /\ SameBatch
         /\ run'.toEmit = run.toEmit /\ run'.pending = run.pending
         /\ \E stop \in {"aborted", "error"} : messages' = Append(messages, Answer(0, stop, 0))
         /\ streaming' = FALSE /\ UNCHANGED <<pendingCalls, queue, sent, turns>>
BY DEF HandleRunFailure, At, Going, Emitted, Shapes, RunSet, SameTalk, SameBatch

LEMMA PhaseInvInit == Init => PhaseInv
BY RunEmpty DEF Init, PhaseInv, Bounded

LEMMA PhaseInvKept == Shapes /\ PhaseInv /\ Next => PhaseInv'
<1> SUFFICES ASSUME Shapes, PhaseInv, Next
             PROVE  PhaseInv'
  OBVIOUS
<1>1. CASE RunQuiet \/ Abort
  <2>1. run' = run
    BY <1>1, QuietSteps DEF Abort
  <2> QED
    BY <2>1 DEF PhaseInv, Bounded
<1>2. CASE Prologue \/ Inject
  <2>1. PICK next \in {"firstPoll", "request"} : Injected(next) /\ run.pc \in {"prologue", "inject"}
    BY <1>2 DEF Prologue, Inject, At
  <2>2. /\ run'.pc = (IF run'.toEmit = <<>> THEN next ELSE run.pc) /\ run'.pending = run.pending
        /\ run'.batch = run.batch /\ run'.results = run.results
    BY <2>1, InjectedIs
  <2> QED
    BY <2>1, <2>2 DEF PhaseInv, Bounded, Batching
<1>3. CASE FirstPoll
  BY <1>3, FirstPollIs DEF PhaseInv, Bounded, Batching, SameBatch
<1>4. CASE PrepareTurn
  <2>1. /\ run.pc = "top" /\ SameBatch /\ run'.pending = <<>>
        /\ run'.pc = IF run'.toEmit = <<>> THEN "request" ELSE "inject"
    BY <1>4, PrepareTurnIs
  <2> QED
    BY <2>1 DEF PhaseInv, Bounded, Batching, SameBatch
<1>5. CASE Request
  BY <1>5, RequestIs DEF PhaseInv, Bounded, Batching, SameBatch
<1>6. CASE EndOfStream
  <2>1. PICK m \in Answered :
           /\ run'.pc \in {"turnEnd"} \cup Batching /\ (run'.pc = "turnEnd" <=> m.calls = 0)
           /\ run'.pending = run.pending /\ run'.toEmit = run.toEmit
           /\ run'.batch = [k \in 1..m.calls |-> "unseen"]
           /\ run'.results = <<>>
    BY <1>6, EndOfStreamIs
  <2>2. PICK n \in 0..MaxCalls : n = m.calls
    BY DEF Answered
  <2>3. run'.batch \in Seq(Statuses) /\ Len(run'.batch) = n /\ (n = 0 => run'.batch = <<>>)
    BY <2>1, <2>2 DEF Statuses
  <2>4. run.pc = "streaming"
    BY <1>6 DEF EndOfStream, At
  <2> QED
    BY <2>1, <2>2, <2>3, <2>4 DEF PhaseInv, Bounded, Batching
<1>7. CASE StartCall \/ EndCallInTurn \/ PrepareCall \/ EndQueuedCall \/ EmitResult
  <2>1. /\ run.pc \in Batching /\ run'.pc = run.pc
        /\ run'.pending = run.pending /\ run'.toEmit = run.toEmit
    BY <1>7, CallStepsAre DEF PhaseInv
  <2>2. PICK k \in Calls, status \in Statuses : run'.batch = [run.batch EXCEPT ![k] = status]
    <3>1. PICK k \in Calls : CallSteps(k)
      BY <1>7, CallStepsAre DEF PhaseInv
    <3> QED
      BY <3>1 DEF CallSteps, Statuses
  <2>3. Len(run'.batch) = Len(run.batch)
    BY <2>2, Fields
  <2> QED
    BY <2>1, <2>3 DEF PhaseInv, Bounded
<1>8. CASE EndBatch
  <2>1. /\ run.pc \in Batching /\ run'.batch = <<>> /\ run'.results = <<>>
        /\ run'.toEmit = run.toEmit /\ run'.pending = run.pending
    BY <1>8, EndBatchIs
  <2> QED
    BY <2>1 DEF PhaseInv, Bounded, Batching
<1>9. CASE TurnEnd
  <2>1. /\ run.pc = "turnEnd" /\ SameBatch /\ run'.toEmit = run.toEmit
        /\ (run'.pc = "finish" /\ run'.pending = run.pending) \/ run'.pc = "top"
    BY <1>9, TurnEndIs
  <2> QED
    BY <2>1 DEF PhaseInv, Bounded, Batching, SameBatch
<1>10. CASE PollFollowUps
  <2>1. /\ run.pc = "top" /\ run.pending = <<>> /\ SameBatch /\ run'.toEmit = run.toEmit
        /\ (run'.pc = "finish" /\ run'.pending = run.pending) \/ run'.pc = "top"
    BY <1>10, PollFollowUpsIs
  <2> QED
    BY <2>1 DEF PhaseInv, Bounded, Batching, SameBatch
<1>11. CASE HandleRunFailure
  BY <1>11, FailureIs DEF PhaseInv, Bounded, Batching, SameBatch
<1>12. CASE FinishRun \/ Panic \/ Lost
  <2>1. run' = NoRun \/ run' = [NoRun EXCEPT !.pc = "failing"]
    BY <1>12, FaultIs DEF FinishRun
  <2>2. run'.toEmit = <<>> /\ run'.pending = <<>> /\ run'.batch = <<>> /\ run'.results = <<>>
    BY <2>1 DEF NoRun
  <2> QED
    BY <2>2 DEF PhaseInv, Bounded
<1>13. ASSUME NEW c \in Caller, Begin(c)
       PROVE  PhaseInv'
  <2>1. \/ run' = run
        \/ /\ caller[c].hand # <<>> => run'.pc = "prologue"
           /\ run'.toEmit = caller[c].hand /\ run'.pending = <<>> /\ run'.batch = <<>>
           /\ run'.results = <<>>
    BY <1>13, BeginIs
  <2> QED
    BY <2>1 DEF PhaseInv, Bounded
<1> QED
  BY <1>1, <1>2, <1>3, <1>4, <1>5, <1>6, <1>7, <1>8, <1>9, <1>10, <1>11, <1>12, <1>13, Steps DEF RunLoop

LEMMA ShapesKept == Shapes /\ PhaseInv /\ Next => Shapes'
BY CallersShaped, HostShaped, LoopShaped, BatchShaped, EndShaped
   DEF Next, RunStep, CallerStep, PhaseInv, Queues, Lost

\* Where the steps of the callers leave them.
LEMMA CallerStepsAre ==
  ASSUME Shapes, NEW c \in Caller
  PROVE  /\ Prompt(c) =>
              \A d \in Caller : /\ caller'[d].at = (IF d = c THEN "begin" ELSE caller[d].at)
                                /\ caller'[d].hand = IF d = c THEN <<Input("prompt", sent["prompt"] + 1)>>
                                                     ELSE caller[d].hand
         /\ Continue(c) =>
              \A d \in Caller : /\ IF d = c THEN caller'[d].at \in {"begin", "drainSteer"}
                                   ELSE caller'[d].at = caller[d].at
                                /\ caller'[d].hand = IF d = c THEN <<>> ELSE caller[d].hand
         /\ TakeNotify(c) \/ Await(c) =>
              \A d \in Caller : /\ IF d = c THEN caller'[d].at \in {"holds", "waits"}
                                   ELSE caller'[d].at = caller[d].at
                                /\ caller'[d].hand = <<>> \/ caller'[d].hand = caller[d].hand
         /\ DrainForContinue(c) => \E q \in Queues :
              /\ caller[c].at = IF q = "steer" THEN "drainSteer" ELSE "drainFollowUp"
              /\ queue' = [queue EXCEPT ![q] = Kept(q)]
              /\ \A d \in Caller :
                   /\ IF d # c THEN caller'[d].at = caller[d].at
                      ELSE IF queue[q] # <<>> THEN caller'[d].at = "begin"
                      ELSE caller'[d].at \in {"drainFollowUp", "idle"}
                   /\ caller'[d].hand = IF d = c THEN Drained(q) ELSE caller[d].hand
              /\ UNCHANGED <<agentVars, active, aborted, run, sent, turns, runs, faults, dropped>>
<1>1. ASSUME NEW at, NEW hand, To(c, at, hand)
      PROVE  \A d \in Caller : /\ caller'[d].at = (IF d = c THEN at ELSE caller[d].at)
                               /\ caller'[d].hand = IF d = c THEN hand ELSE caller[d].hand
  BY <1>1 DEF To, Shapes, Idle
<1>2. ASSUME Prompt(c)
      PROVE  \A d \in Caller : /\ caller'[d].at = (IF d = c THEN "begin" ELSE caller[d].at)
                               /\ caller'[d].hand = IF d = c THEN <<Input("prompt", sent["prompt"] + 1)>>
                                                    ELSE caller[d].hand
  BY <1>1, <1>2 DEF Prompt
<1>3. ASSUME Continue(c)
      PROVE  \A d \in Caller : /\ IF d = c THEN caller'[d].at \in {"begin", "drainSteer"}
                                  ELSE caller'[d].at = caller[d].at
                               /\ caller'[d].hand = IF d = c THEN <<>> ELSE caller[d].hand
  <2>1. PICK at \in {"begin", "drainSteer"} : To(c, at, <<>>)
    BY <1>3 DEF Continue
  <2> QED
    BY <1>1, <2>1
<1>4. ASSUME TakeNotify(c) \/ Await(c)
      PROVE  \A d \in Caller : /\ IF d = c THEN caller'[d].at \in {"holds", "waits"}
                                  ELSE caller'[d].at = caller[d].at
                               /\ caller'[d].hand = <<>> \/ caller'[d].hand = caller[d].hand
  <2>1. CASE TakeNotify(c)
    BY <2>1 DEF TakeNotify, Shapes, Idle
  <2>2. CASE Await(c)
    BY <2>2 DEF Await, Shapes, CallerSet
  <2> QED
    BY <1>4, <2>1, <2>2
<1>5. ASSUME DrainForContinue(c)
      PROVE  \E q \in Queues :
              /\ caller[c].at = IF q = "steer" THEN "drainSteer" ELSE "drainFollowUp"
              /\ queue' = [queue EXCEPT ![q] = Kept(q)]
              /\ \A d \in Caller :
                   /\ IF d # c THEN caller'[d].at = caller[d].at
                      ELSE IF queue[q] # <<>> THEN caller'[d].at = "begin"
                      ELSE caller'[d].at \in {"drainFollowUp", "idle"}
                   /\ caller'[d].hand = IF d = c THEN Drained(q) ELSE caller[d].hand
              /\ UNCHANGED <<agentVars, active, aborted, run, sent, turns, runs, faults, dropped>>
  <2>1. PICK q \in Queues :
          /\ caller[c].at = IF q = "steer" THEN "drainSteer" ELSE "drainFollowUp"
          /\ queue' = [queue EXCEPT ![q] = Kept(q)]
          /\ To(c, IF queue[q] # <<>> THEN "begin"
                   ELSE IF q = "steer" THEN "drainFollowUp" ELSE "idle", Drained(q))
          /\ UNCHANGED <<agentVars, active, aborted, run, sent, turns, runs, faults, dropped>>
    BY <1>5 DEF DrainForContinue, Queues
  <2>2. PICK at : at = IF queue[q] # <<>> THEN "begin"
                       ELSE IF q = "steer" THEN "drainFollowUp" ELSE "idle"
    OBVIOUS
  <2>3. \A d \in Caller : /\ caller'[d].at = (IF d = c THEN at ELSE caller[d].at)
                          /\ caller'[d].hand = IF d = c THEN Drained(q) ELSE caller[d].hand
    BY <1>1, <2>1, <2>2
  <2> QED
    BY <2>1, <2>2, <2>3
<1> QED
  BY <1>2, <1>3, <1>4, <1>5

LEMMA LockFailsIs ==
  ASSUME Shapes, NEW c \in Caller, LockFails(c)
  PROVE  /\ caller[c].at # "running" /\ dropped' = dropped \cup ToSet(caller[c].hand)
         /\ \A d \in Caller : caller'[d] = IF d = c THEN Idle ELSE caller[d]
         /\ UNCHANGED <<agentVars, queue, active, aborted, run, sent, turns, runs, faults>>
BY DEF LockFails, Shapes

LEMMA FinishIs ==
  ASSUME Shapes, FinishRun
  PROVE  /\ run.pc \in {"finish", "failed"} /\ run' = NoRun /\ active' = 0 /\ aborted' = FALSE
         /\ streaming' = FALSE /\ pendingCalls' = {}
         /\ \A c \in Caller : IF Runner(c) \/ (caller[c].at = "waits" /\ caller[c].run = active)
                              THEN caller'[c] = Idle ELSE caller'[c] = caller[c]
         /\ UNCHANGED <<messages, errored, queue, sent, turns, runs, faults, dropped>>
BY DEF FinishRun

LEMMA HandInvKept == Shapes /\ HandInv /\ Next => HandInv'
<1> SUFFICES ASSUME Shapes, HandInv, Next
             PROVE  HandInv'
  OBVIOUS
<1>0. Idle.hand = <<>>
  BY DEF Idle
<1>1. ASSUME NEW c \in Caller, \/ Prompt(c) \/ Continue(c) \/ TakeNotify(c) \/ Await(c)
                               \/ DrainForContinue(c) \/ LockFails(c)
      PROVE  HandInv'
  <2>1. CASE Prompt(c) \/ Continue(c)
    BY <2>1, CallerStepsAre DEF HandInv
  <2>2. CASE TakeNotify(c) \/ Await(c)
    <3>1. caller[c].hand = <<>>
      BY <2>2 DEF TakeNotify, Await, HandInv
    <3> QED
      BY <2>2, <3>1, CallerStepsAre DEF HandInv
  <2>3. CASE DrainForContinue(c)
    <3>1. \A q \in Queues : Drained(q) = <<>> <=> queue[q] = <<>>
      BY DrainIs DEF Shapes
    <3> QED
      BY <2>3, <3>1, CallerStepsAre DEF HandInv
  <2>4. CASE LockFails(c)
    <3>1. \A d \in Caller : caller'[d] = caller[d] \/ caller'[d] = Idle
      BY <2>4, LockFailsIs
    <3> QED
      BY <1>0, <3>1 DEF HandInv
  <2> QED
    BY <1>1, <2>1, <2>2, <2>3, <2>4
<1>2. ASSUME NEW c \in Caller, Begin(c)
      PROVE  HandInv'
  <2>1. \A d \in Caller : \/ caller'[d] = caller[d] \/ caller'[d] = Idle
                          \/ caller'[d] = [Idle EXCEPT !.at = "running", !.hand = <<>>]
    BY <1>2, BeginIs
  <2> QED
    BY <1>0, <2>1 DEF HandInv, Idle
<1>3. CASE RunLoop \/ Abort
  BY <1>3, LoopSteps DEF HandInv, Abort
<1>4. CASE FinishRun
  <2>1. \A c \in Caller : caller'[c] = Idle \/ caller'[c] = caller[c]
    BY <1>4, FinishIs
  <2> QED
    BY <1>0, <2>1 DEF HandInv
<1>5. CASE Panic \/ Lost
  <2>1. UNCHANGED caller \/ \E c \in Caller : Runner(c) /\ caller' = [caller EXCEPT ![c].at = "gone"]
    BY <1>5, FaultIs
  <2> QED
    BY ZenonT(60), <2>1 DEF HandInv, Runner, Shapes, CallerSet
<1>6. CASE (\E q \in Queues : Enqueue(q)) \/ ClearQueues \/ Reset \/ Refused
  BY <1>6 DEF Enqueue, ClearQueues, Reset, Refused, HandInv
<1> QED
  BY <1>1, <1>2, <1>3, <1>4, <1>5, <1>6, Steps DEF RunQuiet

LEMMA LoopPlaces ==
  ASSUME Shapes, PhaseInv, RunLoop
  PROVE  run.pc # "none" /\ run'.pc # "none"
<1>1. CASE Prologue \/ Inject
  <2>1. PICK next \in {"firstPoll", "request"} : Injected(next) /\ run.pc \in {"prologue", "inject"}
    BY <1>1 DEF Prologue, Inject, At
  <2>2. run'.pc = IF run'.toEmit = <<>> THEN next ELSE run.pc
    BY <2>1, InjectedIs
  <2> QED
    BY <2>1, <2>2
<1>2. CASE FirstPoll \/ PrepareTurn \/ PollFollowUps
  <2>1. run.pc \in {"firstPoll", "top"}
    BY <1>2 DEF FirstPoll, PrepareTurn, PollFollowUps, At
  <2>2. run'.pc \in {"top", "request", "inject", "finish"}
    BY <1>2, FirstPollIs, PrepareTurnIs, PollFollowUpsIs
  <2> QED
    BY <2>1, <2>2
<1>3. CASE Request \/ EndBatch
  BY <1>3, RequestIs, EndBatchIs DEF Batching
<1>4. CASE EndOfStream
  <2>1. run'.pc \in {"turnEnd"} \cup Batching
    BY <1>4, EndOfStreamIs
  <2> QED
    BY <1>4, <2>1 DEF EndOfStream, At, Batching
<1>5. CASE StartCall \/ EndCallInTurn \/ PrepareCall \/ EndQueuedCall \/ EmitResult
  <2>1. run.pc \in Batching /\ run'.pc = run.pc
    BY <1>5, CallStepsAre DEF PhaseInv
  <2> QED
    BY <2>1 DEF Batching
<1>6. CASE TurnEnd
  BY <1>6, TurnEndIs
<1>7. CASE HandleRunFailure
  BY <1>7, FailureIs
<1> QED
  BY <1>1, <1>2, <1>3, <1>4, <1>5, <1>6, <1>7 DEF RunLoop

LEMMA RunnerInvKept == Shapes /\ PhaseInv /\ RunnerInv /\ Next => RunnerInv'
<1> SUFFICES ASSUME Shapes, PhaseInv, RunnerInv, Next
             PROVE  RunnerInv'
  OBVIOUS
<1>0. Idle.at = "idle" /\ NoRun.pc = "none" /\ [Idle EXCEPT !.at = "running", !.hand = <<>>].at = "running"
  BY DEF Idle, NoRun
<1>1. ASSUME RunQuiet, \A d \in Caller : caller'[d].at = "running" <=> caller[d].at = "running"
      PROVE  RunnerInv'
  BY <1>1, QuietSteps DEF RunnerInv, Runner
<1>2. ASSUME NEW c \in Caller, Prompt(c) \/ Continue(c) \/ TakeNotify(c) \/ Await(c) \/ DrainForContinue(c)
      PROVE  RunnerInv'
  <2>1. caller[c].at # "running"
    BY <1>2 DEF Prompt, Continue, TakeNotify, Await, DrainForContinue
  <2>2. \A d \in Caller : d # c => caller'[d].at = caller[d].at
    BY <1>2, CallerStepsAre
  <2>3. caller'[c].at # "running"
    BY <1>2, CallerStepsAre
  <2> QED
    BY <1>1, <1>2, <2>1, <2>2, <2>3 DEF RunQuiet
<1>3. CASE (\E q \in Queues : Enqueue(q)) \/ ClearQueues \/ Reset \/ Refused
  <2>1. UNCHANGED caller /\ RunQuiet
    BY <1>3 DEF Enqueue, ClearQueues, Reset, Refused, RunQuiet
  <2> QED
    BY <1>1, <2>1
<1>4. CASE Abort
  BY <1>4 DEF Abort, RunnerInv, Runner
<1>5. CASE RunLoop
  <2>1. UNCHANGED <<active, caller, runs>> /\ run.pc # "none" /\ run'.pc # "none"
    BY <1>5, LoopSteps, LoopPlaces
  <2> QED
    BY <2>1 DEF RunnerInv, Runner
<1>6. CASE FinishRun
  <2>1. \A c \in Caller : caller'[c] = Idle \/ (~Runner(c) /\ caller'[c] = caller[c])
    BY <1>6, FinishIs
  <2>2. \A c \in Caller : caller'[c].at # "running"
    BY <1>0, <2>1 DEF Runner
  <2>3. run'.pc = "none" /\ active' = 0 /\ runs' = runs
    BY <1>0, <1>6, FinishIs
  <2> QED
    BY <2>2, <2>3 DEF RunnerInv, Runner, Shapes
<1>7. CASE Panic \/ Lost
  <2>1. run.pc # "none" /\ UNCHANGED <<active, runs>>
    BY <1>7, FaultIs
  <2>2. CASE run' = [NoRun EXCEPT !.pc = "failing"] /\ UNCHANGED caller
    <3>1. run'.pc = "failing"
      BY <2>2 DEF NoRun
    <3> QED
      BY <2>1, <2>2, <3>1 DEF RunnerInv, Runner
  <2>3. ASSUME run' = NoRun, NEW c \in Caller, Runner(c), caller' = [caller EXCEPT ![c].at = "gone"]
        PROVE  RunnerInv'
    <3>1. \A d \in Caller : Runner(d) <=> d = c
      BY <2>1, <2>3 DEF RunnerInv
    <3>2. \A d \in Caller : caller'[d].at = IF d = c THEN "gone" ELSE caller[d].at
      BY <2>3 DEF Shapes, CallerSet
    <3>3. \A d \in Caller : caller'[d].at # "running"
      BY <3>1, <3>2 DEF Runner
    <3> QED
      BY <1>0, <2>1, <2>3, <3>3 DEF RunnerInv, Runner
  <2> QED
    BY <1>7, <2>2, <2>3, FaultIs
<1>8. ASSUME NEW c \in Caller, Begin(c)
      PROVE  RunnerInv'
  <2>0. caller[c].at = "begin"
    BY <1>8, BeginIs
  <2>1. CASE active = 0
    <3>1. /\ runs' = runs + 1 /\ active' = runs'
          /\ \A d \in Caller : caller'[d] = IF d = c THEN [Idle EXCEPT !.at = "running", !.hand = <<>>]
                                                 ELSE caller[d]
          /\ run'.pc \in {"firstPoll", "prologue", "failing"}
      BY <1>8, <2>1, BeginIs
    <3>2. \A d \in Caller : ~Runner(d)
      BY <2>1 DEF RunnerInv
    <3>3. \A d \in Caller : caller'[d].at = "running" <=> d = c
      BY <1>0, <3>1, <3>2 DEF Runner
    <3>4. runs + 1 # 0
      BY DEF Shapes
    <3>5. active' <= runs' /\ active' # 0
      BY <3>1, <3>4 DEF Shapes
    <3> QED
      BY <3>1, <3>3, <3>5 DEF RunnerInv, Runner
  <2>2. CASE active # 0
    <3>1. /\ \A d \in Caller : caller'[d] = IF d = c THEN Idle ELSE caller[d]
          /\ UNCHANGED <<runs, active, run>>
      BY <1>8, <2>2, BeginIs
    <3>2. \A d \in Caller : caller'[d].at = "running" <=> caller[d].at = "running"
      BY <1>0, <2>0, <3>1
    <3> QED
      BY <3>1, <3>2 DEF RunnerInv, Runner
  <2> QED
    BY <2>1, <2>2
<1>9. ASSUME NEW c \in Caller, LockFails(c)
      PROVE  RunnerInv'
  <2>1. RunQuiet /\ caller[c].at # "running"
        /\ \A d \in Caller : caller'[d] = IF d = c THEN Idle ELSE caller[d]
    BY <1>9, LockFailsIs DEF RunQuiet
  <2>2. \A d \in Caller : caller'[d].at = "running" <=> caller[d].at = "running"
    BY <1>0, <2>1
  <2> QED
    BY <1>1, <2>1, <2>2
<1> QED
  BY <1>2, <1>3, <1>4, <1>5, <1>6, <1>7, <1>8, <1>9, Steps DEF RunQuiet

-----------------------------------------------------------------------------
(* The transcript that the agent keeps and the context of the loop.        *)

Reading == {"prologue", "firstPoll", "top", "inject", "request", "turnEnd"}

\* The calls that run, as the agent shows them.
Running == {<<turns, k>> : k \in In("started") \cup In("queued")}

Whole(s) == \A i \in DOMAIN s : s[i].role = "assistant" => s[i].stop # "partial"

\* What a run found and what it added, without the results of a batch it is in.
Talk == run.base \o run.fresh

SyncInv ==
  /\ Whole(messages)
  /\ active = 0 => pendingCalls = {}
  /\ run.pc \in Reading => /\ messages = Talk /\ run.context = Seed \o Talk
                           /\ pendingCalls = {} /\ ~streaming
  /\ run.pc = "streaming" => /\ messages = Talk /\ pendingCalls = {}
                             /\ \/ run.context = Seed \o Talk
                                \/ run.context = Append(Seed \o Talk, Answer(turns, "partial", 0))
  /\ run.pc \in Batching => /\ messages = Talk \o run.results
                            /\ run.context = Seed \o Talk
                            /\ pendingCalls = Running /\ ~streaming

LEMMA JoinedOne ==
  \A s, t \in Seq(Anything), e \in Anything : s \o Append(t, e) = Append(s \o t, e)
BY SMTT(30)

LEMMA JoinedTwice ==
  \A s, t, u \in Seq(Anything) : s \o (t \o u) = (s \o t) \o u
BY SMTT(30)

LEMMA JoinedNone == \A s \in Seq(Anything) : s \o <<>> = s
OBVIOUS

LEMMA JoinedLast ==
  \A s \in Seq(Anything), m \in Anything : Append(s, m) = s \o <<m>>
<1> SUFFICES ASSUME NEW s \in Seq(Anything), NEW m \in Anything
             PROVE  Append(s, m) = s \o <<m>>
  OBVIOUS
<1>1. <<>> \in Seq(Anything) /\ Append(<<>>, m) = <<m>>
  OBVIOUS
<1>2. s \o Append(<<>>, m) = Append(s \o <<>>, m)
  BY <1>1, JoinedOne
<1> QED
  BY <1>1, <1>2, JoinedNone

\* Whatever was streamed, the final message follows what was there before.
LEMMA SettledAs ==
  ASSUME NEW s \in Seq(Anything), NEW m \in Anything, NEW t \in Nat,
         Whole(s)
  PROVE  /\ Settled(s, m) = Append(s, m)
         /\ Settled(Append(s, Answer(t, "partial", 0)), m) = Append(s, m)
<1>1. Settled(s, m) = Append(s, m)
  <2>1. s # <<>> => Len(s) \in DOMAIN s
    OBVIOUS
  <2> QED
    BY <2>1 DEF Settled, Last, Whole
<1>2. Settled(Append(s, Answer(t, "partial", 0)), m) = Append(s, m)
  <2>1. PICK p : p = Answer(t, "partial", 0)
    OBVIOUS
  <2>2. p.role = "assistant" /\ p.stop = "partial" /\ p \in Anything
    BY <2>1 DEF Answer, Anything, Answered, Stops
  <2>3. PICK u \in Seq(Anything) : u = Append(s, p)
    BY <2>2, SequencesAre
  <2>4. u # <<>> /\ Last(u) = p /\ Front(u) = s
    BY <2>2, <2>3 DEF Last, Front
  <2> QED
    BY <2>1, <2>2, <2>3, <2>4 DEF Settled
<1> QED
  BY <1>1, <1>2

LEMMA WholeWith ==
  ASSUME NEW s \in Seq(Anything), Whole(s), NEW e \in Anything, e.role = "assistant" => e.stop # "partial"
  PROVE  Whole(Append(s, e))
BY DEF Whole

LEMMA WholeBehindSeed ==
  ASSUME NEW s \in Seq(Anything), Whole(s)
  PROVE  Whole(Seed \o s)
<1>1. CASE Seed = <<>>
  BY <1>1 DEF Whole
<1>2. CASE Seed = <<System>>
  <2>1. System.role # "assistant"
    BY DEF System
  <2> QED
    BY <1>2, <2>1 DEF Whole
<1> QED
  BY <1>1, <1>2 DEF Seed

LEMMA UsersAre == \A m \in Users : m \in Anything /\ m.role = "user"
BY DEF Users, Anything

LEMMA ResultsAre ==
  \A t \in Nat, k \in 1..MaxCalls : Result(t, k) \in Anything /\ Result(t, k).role = "toolResult"
BY DEF Result, Anything, Results

LEMMA SyncInvKept == Shapes /\ PhaseInv /\ RunnerInv /\ SyncInv /\ Next => SyncInv'
<1> SUFFICES ASSUME Shapes, PhaseInv, RunnerInv, SyncInv, Next
             PROVE  SyncInv'
  OBVIOUS
<1>0. /\ run.context \in Seq(Anything) /\ run.fresh \in Seq(Anything) /\ run.base \in Seq(Anything)
      /\ run.results \in Seq(Anything) /\ messages \in Seq(Anything)
  BY Fields DEF Shapes
<1> PICK b \in Seq(Anything), f \in Seq(Anything), r \in Seq(Anything) :
      b = run.base /\ f = run.fresh /\ r = run.results
  BY <1>0
<1> PICK t \in Seq(Anything) : t = Talk
  BY SequencesAre DEF Talk
<1>00. t = b \o f
  BY DEF Talk
<1> PICK seed \in Seq(Anything) : seed = Seed
  BY SeedIs
<1>1. CASE RunQuiet
  <2>1. UNCHANGED <<run, active, turns>>
    BY <1>1, QuietSteps
  <2>2. \/ UNCHANGED <<messages, streaming, pendingCalls>>
        \/ active = 0 /\ messages' = <<>> /\ streaming' = FALSE /\ pendingCalls' = {}
    BY <1>1 DEF RunQuiet, Enqueue, ClearQueues, Reset, Refused, Prompt, Continue, TakeNotify,
                DrainForContinue, Await, LockFails, agentVars
  <2>3. CASE UNCHANGED <<messages, streaming, pendingCalls>>
    BY <2>1, <2>3 DEF SyncInv, Talk, Running, In, Calls
  <2>4. CASE active = 0 /\ messages' = <<>> /\ streaming' = FALSE /\ pendingCalls' = {}
    <3>1. run.pc = "none"
      BY <2>4 DEF RunnerInv
    <3> QED
      BY <2>1, <2>4, <3>1 DEF SyncInv, Whole, Reading, Batching
  <2> QED
    BY <2>2, <2>3, <2>4
<1>2. CASE Abort
  BY <1>2 DEF Abort, agentVars, SyncInv, Talk, Running, In, Calls
<1>3. CASE Prologue \/ Inject
  <2>1. PICK next \in {"firstPoll", "request"} : Injected(next) /\ run.pc \in {"prologue", "inject"}
    BY <1>3 DEF Prologue, Inject, At
  <2>2. PICK m \in Users : m = Head(run.toEmit)
    BY SMTT(30), <2>1, Fields DEF Injected
  <2>3. /\ run'.pc = (IF run'.toEmit = <<>> THEN next ELSE run.pc)
        /\ run'.context = Append(run.context, m) /\ run'.fresh = Append(run.fresh, m)
        /\ run'.base = run.base
    BY <2>1, <2>2, InjectedIs
  <2>4. /\ messages' = Append(messages, m) /\ streaming' = FALSE
        /\ UNCHANGED <<pendingCalls, active>>
    BY <2>1, <2>2 DEF Injected, Emitted, RunOnly
  <2>5. m \in Anything /\ m.role = "user"
    BY UsersAre
  <2>6. Talk' = Append(t, m) /\ seed \o Talk' = Append(seed \o t, m)
    <3>1. b \o Append(f, m) = Append(b \o f, m) /\ seed \o Append(t, m) = Append(seed \o t, m)
      BY ZenonT(60), <2>5, JoinedOne
    <3>2. Talk' = b \o Append(f, m)
      BY <2>3 DEF Talk
    <3> QED
      BY <1>00, <3>1, <3>2
  <2>7. Whole(messages')
    BY <1>0, <2>4, <2>5, WholeWith DEF SyncInv
  <2>8. run'.pc \in Reading /\ run.pc \in Reading
    BY <2>1, <2>3 DEF Reading
  <2>9. ~(run'.pc \in Batching) /\ run'.pc # "streaming"
    BY <2>8 DEF Reading, Batching
  <2> QED
    BY <2>3, <2>4, <2>6, <2>7, <2>8, <2>9 DEF SyncInv
<1>4. CASE FirstPoll \/ PrepareTurn \/ PollFollowUps \/ TurnEnd
  <2>1. SameTalk /\ UNCHANGED <<messages, streaming, pendingCalls>>
    BY <1>4, FirstPollIs, PrepareTurnIs, PollFollowUpsIs, TurnEndIs DEF agentVars
  <2>2. run.pc \in {"firstPoll", "top", "turnEnd"}
    BY <1>4, FirstPollIs, PrepareTurnIs, PollFollowUpsIs, TurnEndIs
  <2>3. run'.pc \in {"top", "request", "inject", "finish"}
    BY <1>4, FirstPollIs, PrepareTurnIs, PollFollowUpsIs, TurnEndIs
  <2>4. active' = active
    BY <1>4, LoopSteps DEF RunLoop
  <2> QED
    BY <2>1, <2>2, <2>3, <2>4 DEF SyncInv, Talk, SameTalk, Reading, Batching
<1>5. CASE Request
  <2>1. /\ run.pc = "request" /\ run'.pc = "streaming" /\ turns' = turns + 1
        /\ run'.base = run.base /\ run'.fresh = run.fresh
        /\ \/ run'.context = run.context
           \/ run'.context = Append(run.context, Answer(turns + 1, "partial", 0))
        /\ UNCHANGED <<messages, pendingCalls>>
    BY <1>5, RequestIs
  <2>2. active' = active
    BY <1>5, LoopSteps DEF RunLoop
  <2> QED
    BY <2>1, <2>2 DEF SyncInv, Talk, Reading, Batching
<1>6. CASE EndOfStream
  <2>1. PICK m \in Answers(turns) :
           /\ m \in Anything /\ m \in Answered
           /\ messages' = Append(messages, m) /\ streaming' = FALSE
           /\ run'.pc \in {"turnEnd"} \cup Batching
           /\ run'.context = Settled(run.context, m) /\ run'.fresh = Append(run.fresh, m)
           /\ run'.base = run.base /\ run'.batch = [k \in 1..m.calls |-> "unseen"]
           /\ run'.results = <<>>
    BY <1>6, EndOfStreamIs
  <2>2. run.pc = "streaming" /\ UNCHANGED <<pendingCalls, turns, active>>
    BY <1>6 DEF EndOfStream, At, RunOnly
  <2>3. m.stop # "partial"
    BY SMTT(30), <2>1 DEF Answers, Answer
  <2>4. run'.context = Append(seed \o t, m)
    <3>1. PICK u \in Seq(Anything) : u = seed \o t
      BY SequencesAre
    <3>2. Whole(u)
      <4>1. Whole(t)
        BY <2>2 DEF SyncInv
      <4> QED
        BY <3>1, <4>1, WholeBehindSeed
    <3>3. CASE run.context = u
      BY <2>1, <3>1, <3>2, <3>3, SettledAs DEF Shapes
    <3>4. CASE run.context = Append(u, Answer(turns, "partial", 0))
      <4>1. Settled(Append(u, Answer(turns, "partial", 0)), m) = Append(u, m)
        BY <2>1, <3>2, SettledAs DEF Shapes
      <4> QED
        BY <2>1, <3>1, <3>4, <4>1
    <3> QED
      BY <2>2, <3>1, <3>3, <3>4 DEF SyncInv
  <2>5. messages' = Talk' /\ run'.context = seed \o Talk'
    <3>1. b \o Append(f, m) = Append(b \o f, m) /\ seed \o Append(t, m) = Append(seed \o t, m)
      <4>1. \A e \in Anything : b \o Append(f, e) = Append(b \o f, e)
        BY Zenon, JoinedOne
      <4>2. \A e \in Anything : seed \o Append(t, e) = Append(seed \o t, e)
        BY Zenon, JoinedOne
      <4> QED
        BY ZenonT(30), <2>1, <4>1, <4>2
    <3>2. Talk' = b \o Append(f, m)
      BY <2>1 DEF Talk
    <3> QED
      BY <1>00, <2>1, <2>2, <2>4, <3>1, <3>2 DEF SyncInv
  <2>6. messages' \in Seq(Anything) /\ messages' = messages' \o run'.results
    <3>1. messages' \in Seq(Anything)
      BY <1>0, <2>1, SequencesAre
    <3> QED
      BY <2>1, <3>1, JoinedNone
  <2>7. Whole(messages')
    BY <1>0, <2>1, <2>3, WholeWith DEF SyncInv
  <2>8. Running' = {}
    BY <2>1 DEF Running, In, Calls
  <2>9. run'.pc # "streaming"
    BY <2>1 DEF Batching
  <2> QED
    BY <2>1, <2>2, <2>5, <2>6, <2>7, <2>8, <2>9 DEF SyncInv
<1>7. CASE StartCall \/ EndCallInTurn \/ PrepareCall \/ EndQueuedCall \/ EmitResult
  <2>1. /\ run.pc \in Batching /\ run'.pc = run.pc /\ run'.base = run.base
        /\ run'.context = run.context /\ run'.fresh = run.fresh /\ turns' = turns
    BY <1>7, CallStepsAre DEF PhaseInv
  <2>2. PICK k \in Calls : CallSteps(k)
    BY <1>7, CallStepsAre DEF PhaseInv
  <2>3. active' = active
    BY <1>7, LoopSteps DEF RunLoop
  <2>4. /\ messages = t \o run.results /\ run.context = Seed \o t
        /\ pendingCalls = Running /\ ~streaming /\ Talk' = t
    BY <2>1 DEF SyncInv, Talk
  <2>5. /\ messages' = t \o run'.results /\ Whole(messages') /\ ~streaming'
    <3>1. CASE messages' = messages /\ run'.results = run.results /\ streaming' = streaming
      BY <2>4, <3>1 DEF SyncInv
    <3>2. CASE /\ messages' = Append(messages, Result(turns, k)) /\ streaming' = FALSE
               /\ run'.results = Append(run.results, Result(turns, k))
      <4>1. k \in 1..MaxCalls /\ Result(turns, k) \in Anything /\ Result(turns, k).role = "toolResult"
        BY ResultIs, ResultsAre DEF PhaseInv, Shapes
      <4>2. Whole(messages')
        BY <1>0, <3>2, <4>1, WholeWith DEF SyncInv
      <4>3. t \o Append(r, Result(turns, k)) = Append(t \o r, Result(turns, k))
        BY Zenon, <4>1, JoinedOne
      <4> QED
        BY <2>4, <3>2, <4>2, <4>3
    <3> QED
      BY <2>2, <3>1, <3>2 DEF CallSteps
  <2>6. pendingCalls' = Running'
    <3>1. PICK batch \in Seq(Statuses) : batch = run.batch
      BY Fields DEF Statuses
    <3>2. \A status \in Statuses :
            run'.batch = [run.batch EXCEPT ![k] = status] =>
              \A j : j \in (In("started") \cup In("queued"))' <=>
                       \/ j \in In("started") \cup In("queued") /\ j # k
                       \/ j = k /\ status \in {"started", "queued"}
      BY <3>1 DEF In, Calls
    <3>3. CASE /\ run'.batch = [run.batch EXCEPT ![k] = "started"]
               /\ pendingCalls' = pendingCalls \cup {<<turns, k>>}
      BY SMTT(30), <2>1, <2>4, <3>2, <3>3 DEF Running, Statuses
    <3>4. ASSUME NEW status \in {"done", "ended"},
                 run'.batch = [run.batch EXCEPT ![k] = status],
                 pendingCalls' = pendingCalls \ {<<turns, k>>}
          PROVE  pendingCalls' = Running'
      <4>1. \A j : j \in (In("started") \cup In("queued"))' <=>
                     j \in In("started") \cup In("queued") /\ j # k
        BY <3>2, <3>4 DEF Statuses
      <4> QED
        BY SMTT(30), <2>1, <2>4, <3>4, <4>1 DEF Running
    <3>5. CASE /\ k \in In("started") /\ run'.batch = [run.batch EXCEPT ![k] = "queued"]
               /\ pendingCalls' = pendingCalls
      BY SMTT(30), <2>1, <2>4, <3>2, <3>5 DEF Running, Statuses
    <3>6. CASE /\ k \in In("ended") /\ run'.batch = [run.batch EXCEPT ![k] = "done"]
               /\ pendingCalls' = pendingCalls
      <4>1. ~(k \in In("started") \cup In("queued"))
        BY <3>6 DEF In
      <4> QED
        BY SMTT(30), <2>1, <2>4, <3>2, <3>6, <4>1 DEF Running, Statuses
    <3> QED
      BY <2>2, <3>3, <3>4, <3>5, <3>6 DEF CallSteps, EmitsNext
  <2>7. ~(run'.pc \in Reading) /\ run'.pc # "streaming"
    BY <2>1 DEF Reading, Batching
  <2>8. active' # 0
    BY <2>1, <2>3 DEF RunnerInv, Batching
  <2> QED
    BY <2>1, <2>4, <2>5, <2>6, <2>7, <2>8 DEF SyncInv
<1>8. CASE EndBatch
  <2>1. /\ run.pc \in Batching /\ run'.pc = "turnEnd"
        /\ In("started") = {} /\ In("queued") = {}
        /\ run'.context = run.context \o run.results /\ run'.fresh = run.fresh \o run.results
        /\ run'.base = run.base /\ UNCHANGED <<messages, pendingCalls, streaming>>
    BY <1>8, EndBatchIs DEF AllSeen, agentVars
  <2>2. active' = active
    BY <1>8, LoopSteps DEF RunLoop
  <2>3. Talk' = t \o r /\ run'.context = seed \o Talk'
    <3>1. b \o (f \o r) = (b \o f) \o r
      <4>1. \A u \in Seq(Anything) : b \o (f \o u) = (b \o f) \o u
        BY Zenon, JoinedTwice
      <4> QED
        BY <4>1
    <3>2. seed \o (t \o r) = (seed \o t) \o r
      <4>1. \A u \in Seq(Anything) : seed \o (t \o u) = (seed \o t) \o u
        BY Zenon, JoinedTwice
      <4> QED
        BY <4>1
    <3>3. Talk' = b \o (f \o r)
      BY <2>1 DEF Talk
    <3> QED
      BY <1>00, <2>1, <3>1, <3>2, <3>3 DEF SyncInv
  <2>4. pendingCalls = {}
    BY <2>1 DEF SyncInv, Running
  <2> QED
    BY <2>1, <2>2, <2>3, <2>4 DEF SyncInv, Reading, Batching
<1>9. CASE HandleRunFailure
  <2>1. PICK stop \in {"aborted", "error"} : messages' = Append(messages, Answer(0, stop, 0))
    BY <1>9, FailureIs
  <2>2. run.pc = "failing" /\ run'.pc = "failed" /\ UNCHANGED pendingCalls
    BY <1>9, FailureIs
  <2>3. active' = active
    BY <1>9, LoopSteps DEF RunLoop
  <2>4. Answer(0, stop, 0) \in Anything /\ Answer(0, stop, 0).stop # "partial"
    BY DEF Answer, Anything, Answered, Stops
  <2>5. Whole(messages')
    BY <1>0, <2>1, <2>4, WholeWith DEF SyncInv
  <2> QED
    BY <2>2, <2>3, <2>5 DEF SyncInv, Reading, Batching
<1>10. CASE FinishRun
  <2>1. run'.pc = "none" /\ pendingCalls' = {} /\ UNCHANGED messages
    BY <1>10, FinishIs, RunEmpty
  <2> QED
    BY <2>1 DEF SyncInv, Reading, Batching
<1>11. CASE Panic \/ Lost
  <2>1. UNCHANGED <<messages, pendingCalls, active>>
    BY <1>11, FaultIs DEF agentVars
  <2>2. run'.pc \in {"none", "failing"}
    <3>1. run' = NoRun \/ run' = [NoRun EXCEPT !.pc = "failing"]
      BY <1>11, FaultIs
    <3> QED
      BY <3>1 DEF NoRun
  <2> QED
    BY <2>1, <2>2 DEF SyncInv, Reading, Batching
<1>12. ASSUME NEW d \in Caller, Begin(d)
       PROVE  SyncInv'
  <2>1. UNCHANGED <<messages, pendingCalls, turns>>
    BY <1>12, BeginIs
  <2>2. CASE active = 0
    <3>1. /\ run'.pc \in {"firstPoll", "prologue", "failing"}
          /\ run'.base = messages /\ run'.context = Seed \o messages /\ run'.fresh = <<>>
          /\ streaming' = FALSE
      BY <1>12, <2>2, BeginIs
    <3>2. Talk' = messages
      BY <1>0, <3>1, JoinedNone DEF Talk
    <3>3. ~(run'.pc \in Batching) /\ run'.pc # "streaming"
      BY <3>1 DEF Reading, Batching
    <3> QED
      BY <2>1, <2>2, <3>1, <3>2, <3>3 DEF SyncInv
  <2>3. CASE active # 0
    <3>1. UNCHANGED <<active, streaming, run>>
      BY <1>12, <2>3, BeginIs
    <3> QED
      BY <2>1, <3>1 DEF SyncInv, Talk, Running, In, Calls
  <2> QED
    BY <2>2, <2>3
<1> QED
  BY <1>1, <1>2, <1>3, <1>4, <1>5, <1>6, <1>7, <1>8, <1>9, <1>10, <1>11, <1>12, Steps DEF RunLoop

-----------------------------------------------------------------------------
(* What holds at first, and whatever the agent does.                       *)

LEMMA TalkInit == Init => HandInv /\ RunnerInv /\ SyncInv
<1> SUFFICES ASSUME Init PROVE HandInv /\ RunnerInv /\ SyncInv
  OBVIOUS
<1>1. run.pc = "none"
  BY RunEmpty DEF Init
<1>2. \A c \in Caller : caller[c].at = "idle" /\ caller[c].hand = <<>>
  BY DEF Init, Idle
<1>3. HandInv /\ RunnerInv
  BY <1>1, <1>2 DEF Init, HandInv, RunnerInv, Runner
<1>4. SyncInv
  BY <1>1 DEF Init, SyncInv, Whole, Reading, Batching
<1> QED
  BY <1>3, <1>4

TalkInv == Shapes /\ PhaseInv /\ HandInv /\ RunnerInv /\ SyncInv

\* A step that changes nothing keeps the invariant.
LEMMA TalkStutters == TalkInv /\ UNCHANGED vars => TalkInv'
<1> SUFFICES ASSUME TalkInv, UNCHANGED vars
             PROVE  TalkInv'
  OBVIOUS
<1>1. UNCHANGED <<messages, streaming, pendingCalls, errored, queue, active, aborted, poisoned, caller,
                  run, sent, turns, runs, faults, dropped>>
  BY DEF vars, agentVars
<1>2. Shapes'
  BY <1>1 DEF TalkInv, Shapes
<1>3. PhaseInv' /\ HandInv' /\ RunnerInv'
  BY <1>1 DEF TalkInv, PhaseInv, Bounded, HandInv, RunnerInv, Runner
<1>4. SyncInv'
  BY <1>1 DEF TalkInv, SyncInv, Talk, Running, In, Calls
<1> QED
  BY <1>2, <1>3, <1>4 DEF TalkInv

THEOREM TalkHolds == Spec => []TalkInv
<1>1. Init => TalkInv
  BY ShapesInit, PhaseInvInit, TalkInit DEF TalkInv
<1>2. TalkInv /\ [Next]_vars => TalkInv'
  BY ShapesKept, PhaseInvKept, HandInvKept, RunnerInvKept, SyncInvKept, TalkStutters
     DEF TalkInv
<1> QED
  BY <1>1, <1>2, PTL DEF Spec

\* Whenever the loop asks the provider, what it sends is the seeded system
\* message and the transcript that the agent built from the events, which is
\* what the run found and what it added, and no call is pending (process_events
\* of agent.rs against run_loop of agent-loop.rs): for any number of callers,
\* turns, runs and faults, any modes of the queues, with a system prompt or
\* tools and without.
THEOREM TranscriptFollows == Spec => []TranscriptIsContext
<1>1. TalkInv => TranscriptIsContext
  BY DEF TalkInv, SyncInv, Talk, TranscriptIsContext, At, Reading
<1> QED
  BY <1>1, TalkHolds, PTL

-----------------------------------------------------------------------------
(* The ways of a message from the hand of a caller to the transcript.      *)

HandsKept == \A c \in Caller : caller'[c].hand = caller[c].hand
LineKept == run'.fresh = run.fresh /\ run'.toEmit = run.toEmit /\ run'.pending = run.pending
Taken(q) == queue' = [queue EXCEPT ![q] = Kept(q)]

\* Nothing moves.
Rests == UNCHANGED <<messages, queue, sent, dropped>> /\ HandsKept /\ LineKept

\* A thread gives a message, and others throw away what is queued.
Gives(q) ==
  /\ sent[q] < Limit[q] /\ sent' = [sent EXCEPT ![q] = sent[q] + 1]
  /\ queue' = [queue EXCEPT ![q] = Append(queue[q], Input(q, sent[q] + 1))]
  /\ UNCHANGED <<messages, dropped>> /\ HandsKept /\ LineKept
Clears ==
  /\ queue' = [q \in Queues |-> <<>>]
  /\ \/ /\ dropped' = dropped \cup ToSet(queue["steer"]) \cup ToSet(queue["followUp"])
        /\ UNCHANGED messages
     \/ /\ dropped' = dropped \cup ToSet(queue["steer"]) \cup ToSet(queue["followUp"])
                              \cup (ToSet(messages) \cap Users)
        /\ messages' = <<>> /\ active = 0
  /\ UNCHANGED sent /\ HandsKept /\ LineKept

\* A caller takes messages in its hand, and hands them to a run or loses them.
Prompts(c) ==
  /\ sent["prompt"] < Limit["prompt"] /\ sent' = [sent EXCEPT !["prompt"] = sent["prompt"] + 1]
  /\ caller[c].hand = <<>> /\ caller'[c].hand = <<Input("prompt", sent["prompt"] + 1)>>
  /\ \A d \in Caller \ {c} : caller'[d].hand = caller[d].hand
  /\ UNCHANGED <<messages, queue, dropped>> /\ LineKept
Drains(c, q) ==
  /\ Taken(q) /\ caller[c].hand = <<>> /\ caller'[c].hand = Drained(q)
  /\ \A d \in Caller \ {c} : caller'[d].hand = caller[d].hand
  /\ UNCHANGED <<messages, sent, dropped>> /\ LineKept
Begins(c) ==
  /\ caller'[c].hand = <<>> /\ \A d \in Caller \ {c} : caller'[d].hand = caller[d].hand
  /\ \/ /\ run.toEmit = <<>> /\ run.pending = <<>>
        /\ run'.fresh = <<>> /\ run'.toEmit = caller[c].hand /\ run'.pending = <<>>
        /\ UNCHANGED dropped
     \/ dropped' = dropped \cup ToSet(caller[c].hand) /\ LineKept
  /\ UNCHANGED <<messages, queue, sent>>

\* The run polls a queue, hands the messages on and reports them.
Polls(q) ==
  /\ Taken(q) /\ run.pending = <<>> /\ run.toEmit = <<>> /\ run'.toEmit = <<>>
  /\ run'.pending = Drained(q) /\ run'.fresh = run.fresh
  /\ UNCHANGED <<messages, sent, dropped>> /\ HandsKept
Prepares ==
  /\ run.toEmit = <<>> /\ run'.pending = <<>> /\ run'.fresh = run.fresh
  /\ \/ run'.toEmit = run.pending /\ UNCHANGED <<queue, sent>>
     \/ run'.toEmit = Drained("steer") /\ run.pending = <<>> /\ Taken("steer") /\ UNCHANGED sent
     \/ /\ sent["prepared"] < Limit["prepared"]
        /\ sent' = [sent EXCEPT !["prepared"] = sent["prepared"] + 1]
        /\ \/ run'.toEmit = Handed \o run.pending /\ UNCHANGED queue
           \/ run'.toEmit = Handed \o Drained("steer") /\ run.pending = <<>> /\ Taken("steer")
  /\ UNCHANGED <<messages, dropped>> /\ HandsKept
Injects ==
  /\ run.toEmit # <<>> /\ run.pending = <<>> /\ run'.pending = <<>>
  /\ run'.toEmit = Tail(run.toEmit)
  /\ messages' = Append(messages, Head(run.toEmit)) /\ run'.fresh = Append(run.fresh, Head(run.toEmit))
  /\ UNCHANGED <<queue, sent, dropped>> /\ HandsKept

\* The run says something of its own, or puts results to its new messages.
Says(m) ==
  /\ messages' = Append(messages, m)
  /\ run'.fresh = run.fresh \/ run'.fresh = Append(run.fresh, m)
  /\ run'.toEmit = run.toEmit /\ run'.pending = run.pending
  /\ UNCHANGED <<queue, sent, dropped>> /\ HandsKept
Keeps ==
  /\ run'.fresh = run.fresh \o run.results
  /\ run'.toEmit = run.toEmit /\ run'.pending = run.pending
  /\ UNCHANGED <<messages, queue, sent, dropped>> /\ HandsKept

\* The run is over: what it still carries is thrown away.
Ends ==
  /\ run'.fresh = <<>> /\ run'.toEmit = <<>> /\ run'.pending = <<>>
  /\ dropped' = dropped \cup Carried \/ (Carried = {} /\ UNCHANGED dropped)
  /\ UNCHANGED <<messages, queue, sent>> /\ HandsKept

\* What a run says of its own.
OwnWords ==
  Answers(turns) \cup {Answer(0, stop, 0) : stop \in {"aborted", "error"}}
                 \cup {Result(turns, k) : k \in {j \in 1..MaxCalls : run.pc \in Batching}}

Moves ==
  \/ Rests \/ Clears \/ Prepares \/ Injects \/ Keeps \/ Ends
  \/ \E q \in Queues : Gives(q) \/ Polls(q)
  \/ \E c \in Caller : Prompts(c) \/ Begins(c) \/ \E q \in Queues : Drains(c, q)
  \/ \E m \in OwnWords : Says(m)

LEMMA QuietMoves == TalkInv /\ RunQuiet => Moves
<1> SUFFICES ASSUME TalkInv, RunQuiet PROVE Moves
  OBVIOUS
<1>0. Shapes /\ HandInv /\ LineKept
  BY QuietSteps DEF TalkInv, LineKept
<1>1. ASSUME NEW q \in Queues, Enqueue(q)
      PROVE  Gives(q)
  BY <1>0, <1>1 DEF Enqueue, Gives, HandsKept, agentVars
<1>2. CASE ClearQueues \/ Reset
  <2>1. DOMAIN queue = Queues
    BY <1>0 DEF Shapes
  <2>2. UNION {ToSet(queue[q]) : q \in Queues} = ToSet(queue["steer"]) \cup ToSet(queue["followUp"])
    BY DEF Queues
  <2>3. HandsKept /\ UNCHANGED sent /\ queue' = [q \in Queues |-> <<>>]
    BY <1>2, <2>1 DEF ClearQueues, Reset, HandsKept
  <2>4. \/ /\ dropped' = dropped \cup ToSet(queue["steer"]) \cup ToSet(queue["followUp"])
           /\ UNCHANGED messages
        \/ /\ dropped' = dropped \cup ToSet(queue["steer"]) \cup ToSet(queue["followUp"])
                              \cup (ToSet(messages) \cap Users)
           /\ messages' = <<>> /\ active = 0
    <3>1. UNION {ToSet(queue[q]) : q \in DOMAIN queue} = ToSet(queue["steer"]) \cup ToSet(queue["followUp"])
      BY <2>1, <2>2
    <3>2. PICK all : all = UNION {ToSet(queue[q]) : q \in DOMAIN queue}
      OBVIOUS
    <3>3. CASE ClearQueues
      BY <3>1, <3>2, <3>3 DEF ClearQueues, agentVars
    <3>4. CASE Reset
      <4>1. /\ dropped' = dropped \cup all \cup {m \in ToSet(messages) : m.role = "user"}
            /\ messages' = <<>> /\ active = 0
        BY <3>2, <3>4 DEF Reset
      <4>2. ToSet(messages) \subseteq Anything
        BY <1>0, SequencesAre DEF Shapes
      <4>3. \A m \in Anything : m.role = "user" <=> m \in Users
        BY DEF Anything, Users, Answered, Results, System
      <4>4. {m \in ToSet(messages) : m.role = "user"} = ToSet(messages) \cap Users
        BY <4>2, <4>3
      <4> QED
        BY <3>1, <3>2, <4>1, <4>4
    <3> QED
      BY <1>2, <3>3, <3>4
  <2> QED
    BY <1>0, <2>3, <2>4 DEF Clears, Moves
<1>3. ASSUME NEW c \in Caller, Prompt(c)
      PROVE  Prompts(c)
  <2>1. caller[c].hand = <<>>
    BY <1>0, <1>3 DEF Prompt, HandInv
  <2> QED
    BY <1>0, <1>3, <2>1, CallerStepsAre DEF Prompt, Prompts, agentVars
<1>4. ASSUME NEW c \in Caller, Continue(c) \/ TakeNotify(c) \/ Await(c)
      PROVE  Rests
  <2>1. caller[c].hand = <<>>
    BY <1>0, <1>4 DEF Continue, TakeNotify, Await, HandInv
  <2>2. HandsKept
    <3>1. ASSUME NEW d \in Caller PROVE caller'[d].hand = caller[d].hand
      <4>1. CASE d = c
        BY <1>0, <1>4, <2>1, <4>1, CallerStepsAre
      <4>2. CASE d # c
        BY <1>0, <1>4, <4>2 DEF Continue, TakeNotify, Await, To, Shapes
      <4> QED
        BY <4>1, <4>2
    <3> QED
      BY <3>1 DEF HandsKept
  <2> QED
    BY <1>0, <1>4, <2>2 DEF Rests, Continue, TakeNotify, Await, agentVars
<1>5. ASSUME NEW c \in Caller, DrainForContinue(c)
      PROVE  \E q \in Queues : Drains(c, q)
  <2>1. PICK q \in Queues :
          /\ caller[c].at = IF q = "steer" THEN "drainSteer" ELSE "drainFollowUp"
          /\ queue' = [queue EXCEPT ![q] = Kept(q)]
          /\ \A d \in Caller : caller'[d].hand = IF d = c THEN Drained(q) ELSE caller[d].hand
          /\ UNCHANGED <<agentVars, active, aborted, run, sent, turns, runs, faults, dropped>>
    BY <1>0, <1>5, CallerStepsAre
  <2>2. caller[c].hand = <<>>
    BY <1>0, <2>1 DEF HandInv
  <2> QED
    BY <1>0, <2>1, <2>2 DEF Drains, Taken, agentVars
<1>6. ASSUME NEW c \in Caller, LockFails(c)
      PROVE  Begins(c)
  BY <1>0, <1>6, LockFailsIs DEF Begins, Idle, agentVars
<1>7. CASE Refused
  BY <1>0, <1>7 DEF Refused, Rests, HandsKept, Moves, agentVars
<1> QED
  BY <1>1, <1>2, <1>3, <1>4, <1>5, <1>6, <1>7 DEF RunQuiet, Moves

LEMMA RunMoves == TalkInv /\ (RunLoop \/ Abort) => Moves
<1> SUFFICES ASSUME TalkInv, RunLoop \/ Abort PROVE Moves
  OBVIOUS
<1>0. Shapes /\ PhaseInv /\ HandsKept /\ UNCHANGED dropped
  BY LoopSteps DEF TalkInv, HandsKept, Abort
<1>1. CASE Abort
  BY <1>0, <1>1 DEF Abort, Rests, LineKept, Moves, agentVars
<1>2. CASE Prologue \/ Inject
  <2>1. PICK next \in {"firstPoll", "request"} : Injected(next) /\ run.pc \in {"prologue", "inject"}
    BY <1>2 DEF Prologue, Inject, At
  <2>2. run.toEmit # <<>> /\ messages' = Append(messages, Head(run.toEmit)) /\ UNCHANGED <<queue, sent>>
    BY <2>1 DEF Injected, Emitted
  <2>3. run.pending = <<>>
    BY <1>0, <2>1 DEF PhaseInv
  <2> QED
    BY <1>0, <2>1, <2>2, <2>3, InjectedIs DEF Injects, Moves
<1>3. CASE FirstPoll
  <2>1. run.toEmit = <<>> /\ run.pending = <<>>
    BY <1>0, <1>3 DEF PhaseInv, FirstPoll, At
  <2>2. Polls("steer")
    BY <1>0, <1>3, <2>1, FirstPollIs DEF Polls, Taken, SameTalk, agentVars
  <2> QED
    BY <2>2 DEF Moves, Queues
<1>4. CASE PollFollowUps
  <2>1. run.toEmit = <<>> /\ run.pending = <<>>
    BY <1>0, <1>4, PollFollowUpsIs DEF PhaseInv
  <2>2. Polls("followUp")
    BY <1>0, <1>4, <2>1, PollFollowUpsIs DEF Polls, Taken, SameTalk, agentVars
  <2> QED
    BY <2>2 DEF Moves, Queues
<1>5. CASE TurnEnd
  <2>1. run.toEmit = <<>> /\ run.pending = <<>>
    BY <1>0, <1>5, TurnEndIs DEF PhaseInv
  <2>2. CASE run'.pending = run.pending /\ UNCHANGED queue
    BY <1>0, <1>5, <2>1, <2>2, TurnEndIs DEF Rests, LineKept, SameTalk, Moves
  <2>3. CASE run'.pending = Drained("steer") /\ queue' = [queue EXCEPT !["steer"] = Kept("steer")]
    <3>1. Polls("steer")
      BY <1>0, <1>5, <2>1, <2>3, TurnEndIs DEF Polls, Taken, SameTalk
    <3> QED
      BY <3>1 DEF Moves, Queues
  <2> QED
    BY <1>0, <1>5, <2>2, <2>3, TurnEndIs
<1>6. CASE PrepareTurn
  <2>0. /\ run.pc = "top" /\ SameTalk /\ run'.pending = <<>> /\ UNCHANGED agentVars
        /\ \/ run'.toEmit = run.pending /\ UNCHANGED <<queue, sent>>
           \/ /\ run'.toEmit = Repolled /\ UNCHANGED sent
              /\ queue' = IF PollsAgain THEN [queue EXCEPT !["steer"] = Kept("steer")] ELSE queue
           \/ /\ run'.toEmit = Handed \o Repolled
              /\ sent["prepared"] + 1 <= Limit["prepared"]
              /\ sent' = [sent EXCEPT !["prepared"] = sent["prepared"] + 1]
              /\ queue' = IF PollsAgain THEN [queue EXCEPT !["steer"] = Kept("steer")] ELSE queue
    BY <1>0, <1>6, PrepareTurnIs DEF PrepareTurn
  <2>1. run.toEmit = <<>>
    BY <1>0, <2>0 DEF PhaseInv
  <2>2. Repolled = (IF run.pending = <<>> THEN Drained("steer") ELSE run.pending)
        /\ (PollsAgain <=> run.pending = <<>>)
    BY DEF Repolled, PollsAgain
  <2>3. sent["prepared"] + 1 <= Limit["prepared"] => sent["prepared"] < Limit["prepared"]
    <3>1. sent["prepared"] \in Nat /\ Limit["prepared"] \in Nat
      BY <1>0 DEF Shapes, AllWays
    <3> QED
      BY <3>1
  <2>4. Prepares
    BY <1>0, <2>0, <2>1, <2>2, <2>3 DEF Prepares, Taken, SameTalk, agentVars
  <2> QED
    BY <2>4 DEF Moves
<1>7. CASE Request
  BY <1>0, <1>7, RequestIs DEF Rests, LineKept, Moves
<1>8. CASE EndOfStream
  <2>1. PICK m \in Answers(turns) :
           /\ messages' = Append(messages, m) /\ run'.fresh = Append(run.fresh, m)
           /\ run'.pending = run.pending /\ run'.toEmit = run.toEmit
    BY <1>0, <1>8, EndOfStreamIs
  <2>2. UNCHANGED <<queue, sent>>
    BY <1>8 DEF EndOfStream
  <2> QED
    BY <1>0, <2>1, <2>2 DEF Says, OwnWords, Moves
<1>9. CASE StartCall \/ EndCallInTurn \/ PrepareCall \/ EndQueuedCall \/ EmitResult
  <2>1. /\ run'.fresh = run.fresh /\ run'.pending = run.pending /\ run'.toEmit = run.toEmit
        /\ run.pc \in Batching
    BY <1>0, <1>9, CallStepsAre DEF PhaseInv
  <2>2. PICK k \in Calls : CallSteps(k)
    BY <1>0, <1>9, CallStepsAre DEF PhaseInv
  <2>3. k \in 1..MaxCalls
    BY <1>0, <2>2, ResultIs DEF PhaseInv
  <2>4. UNCHANGED <<queue, sent>>
    BY <1>9 DEF StartCall, EndCallInTurn, PrepareCall, EndQueuedCall, EmitResult
  <2>5. CASE messages' = messages
    BY <1>0, <2>1, <2>4, <2>5 DEF Rests, LineKept, Moves
  <2>6. CASE messages' = Append(messages, Result(turns, k))
    BY <1>0, <2>1, <2>3, <2>4, <2>6 DEF Says, OwnWords, Moves
  <2> QED
    BY <2>2, <2>5, <2>6 DEF CallSteps
<1>10. CASE EndBatch
  BY <1>0, <1>10, EndBatchIs DEF Keeps, Moves, agentVars
<1>11. CASE HandleRunFailure
  BY <1>0, <1>11, FailureIs DEF Says, OwnWords, SameTalk, Moves
<1> QED
  BY <1>1, <1>2, <1>3, <1>4, <1>5, <1>6, <1>7, <1>8, <1>9, <1>10, <1>11 DEF RunLoop

LEMMA EndMoves == TalkInv /\ (FinishRun \/ Panic \/ Lost \/ \E c \in Caller : Begin(c)) => Moves
<1> SUFFICES ASSUME TalkInv, FinishRun \/ Panic \/ Lost \/ \E c \in Caller : Begin(c) PROVE Moves
  OBVIOUS
<1>0. Shapes /\ PhaseInv /\ HandInv /\ RunnerInv
  BY DEF TalkInv
<1>1. CASE FinishRun
  <2>1. HandsKept
    <3>1. ASSUME NEW c \in Caller PROVE caller'[c].hand = caller[c].hand
      <4>1. CASE Runner(c) \/ (caller[c].at = "waits" /\ caller[c].run = active)
        <5>1. caller[c].hand = <<>> /\ caller'[c] = Idle
          BY <1>0, <1>1, <4>1, FinishIs DEF HandInv, Runner
        <5> QED
          BY <5>1 DEF Idle
      <4>2. CASE ~(Runner(c) \/ (caller[c].at = "waits" /\ caller[c].run = active))
        BY <1>0, <1>1, <4>2, FinishIs
      <4> QED
        BY <4>1, <4>2
    <3> QED
      BY <3>1 DEF HandsKept
  <2>2. run.toEmit = <<>> /\ run.pending = <<>> /\ run' = NoRun
    BY <1>0, <1>1, FinishIs DEF PhaseInv
  <2>3. Carried = {}
    BY <2>2 DEF Carried, ToSet
  <2> QED
    BY <1>0, <1>1, <2>1, <2>2, <2>3, FinishIs, RunEmpty DEF Ends, Moves
<1>2. CASE Panic \/ Lost
  <2>1. /\ dropped' = dropped \cup Carried
        /\ run' = NoRun \/ run' = [NoRun EXCEPT !.pc = "failing"]
        /\ UNCHANGED <<messages, queue, sent>>
        /\ \/ UNCHANGED caller
           \/ \E c \in Caller : Runner(c) /\ caller' = [caller EXCEPT ![c].at = "gone"]
    BY <1>2, FaultIs DEF agentVars
  <2>2. run'.fresh = <<>> /\ run'.toEmit = <<>> /\ run'.pending = <<>>
    BY <2>1 DEF NoRun
  <2>3. HandsKept
    <3>1. ASSUME NEW c \in Caller, caller' = [caller EXCEPT ![c].at = "gone"]
          PROVE  \A d \in Caller : caller'[d].hand = caller[d].hand
      BY <1>0, <3>1 DEF Shapes, CallerSet
    <3> QED
      BY <2>1, <3>1 DEF HandsKept
  <2> QED
    BY <2>1, <2>2, <2>3 DEF Ends, Moves
<1>3. ASSUME NEW c \in Caller, Begin(c)
      PROVE  Begins(c)
  <2>1. UNCHANGED <<messages, queue, sent>>
    BY <1>0, <1>3, BeginIs
  <2>2. CASE active = 0
    <3>1. /\ \A d \in Caller : caller'[d] = IF d = c THEN [Idle EXCEPT !.at = "running", !.hand = <<>>]
                                                 ELSE caller[d]
          /\ run'.toEmit = caller[c].hand /\ run'.pending = <<>> /\ run'.fresh = <<>>
          /\ UNCHANGED dropped
      BY <1>0, <1>3, <2>2, BeginIs
    <3>2. run.pc = "none"
      BY <1>0, <2>2 DEF RunnerInv
    <3>3. run.toEmit = <<>> /\ run.pending = <<>>
      BY <1>0, <3>2 DEF PhaseInv
    <3> QED
      BY <2>1, <3>1, <3>3 DEF Begins, Idle
  <2>3. CASE active # 0
    <3>1. /\ dropped' = dropped \cup ToSet(caller[c].hand)
          /\ \A d \in Caller : caller'[d] = IF d = c THEN Idle ELSE caller[d]
          /\ UNCHANGED run
      BY <1>0, <1>3, <2>3, BeginIs
    <3> QED
      BY <2>1, <3>1 DEF Begins, LineKept, Idle
  <2> QED
    BY <2>2, <2>3
<1> QED
  BY <1>1, <1>2, <1>3 DEF Moves

LEMMA AllMoves == TalkInv /\ Next => Moves
BY QuietMoves, RunMoves, EndMoves, Steps

-----------------------------------------------------------------------------
(* Turns, and the messages that callers have given.                        *)

TurnInv ==
  /\ run.pc \in {"streaming"} \cup Batching => turns >= 1
  /\ pendingCalls \subseteq (1..turns) \X (1..MaxCalls)

LEMMA TurnInvKept == TalkInv /\ TurnInv /\ Next => TurnInv' /\ turns' >= turns
<1> SUFFICES ASSUME TalkInv, TurnInv, Next
             PROVE  TurnInv' /\ turns' >= turns
  OBVIOUS
<1>0. Shapes /\ PhaseInv /\ turns \in Nat /\ MaxCalls \in Nat
  BY DEF TalkInv, Shapes
<1>1. ASSUME turns' = turns, pendingCalls' \subseteq pendingCalls,
             run'.pc \in {"streaming"} \cup Batching => run.pc \in {"streaming"} \cup Batching
      PROVE  TurnInv' /\ turns' >= turns
  BY <1>0, <1>1 DEF TurnInv
<1>2. CASE RunQuiet
  <2>1. UNCHANGED <<run, turns>> /\ pendingCalls' \subseteq pendingCalls
    BY <1>2, QuietSteps DEF RunQuiet, Enqueue, ClearQueues, Reset, Refused, Prompt, Continue,
                            TakeNotify, DrainForContinue, Await, LockFails, agentVars
  <2> QED
    BY <1>1, <2>1
<1>3. CASE Abort
  BY <1>1, <1>3 DEF Abort, agentVars
<1>4. CASE Request
  <2>1. turns' = turns + 1 /\ pendingCalls' = pendingCalls
    BY <1>0, <1>4, RequestIs
  <2> QED
    BY <1>0, <2>1 DEF TurnInv
<1>5. CASE StartCall \/ EndCallInTurn \/ PrepareCall \/ EndQueuedCall \/ EmitResult
  <2>1. PICK k \in Calls : CallSteps(k)
    BY <1>0, <1>5, CallStepsAre DEF PhaseInv
  <2>2. run.pc \in Batching /\ run'.pc = run.pc
    BY <1>0, <1>5, CallStepsAre DEF PhaseInv
  <2>3. k \in 1..MaxCalls
    BY <1>0, <2>1, ResultIs DEF PhaseInv
  <2>4. turns' = turns
    BY <1>5 DEF StartCall, EndCallInTurn, PrepareCall, EndQueuedCall, EmitResult
  <2>5. pendingCalls' \subseteq pendingCalls \cup {<<turns, k>>}
    BY <2>1 DEF CallSteps
  <2>6. <<turns, k>> \in (1..turns) \X (1..MaxCalls)
    BY <1>0, <2>2, <2>3 DEF TurnInv
  <2> QED
    BY <1>0, <2>2, <2>4, <2>5, <2>6 DEF TurnInv
<1>6. CASE EndOfStream
  <2>1. run.pc = "streaming" /\ UNCHANGED <<turns, pendingCalls>>
    BY <1>6 DEF EndOfStream, At
  <2> QED
    BY <1>1, <2>1
<1>7. CASE Prologue \/ FirstPoll \/ PrepareTurn \/ Inject \/ EndBatch \/ TurnEnd \/ PollFollowUps
           \/ HandleRunFailure
  <2>1. UNCHANGED <<turns, pendingCalls>>
    BY <1>7 DEF Prologue, FirstPoll, PrepareTurn, Inject, Injected, EndBatch, TurnEnd, PollFollowUps,
                HandleRunFailure, agentVars
  <2>2. run'.pc \in {"firstPoll", "prologue", "top", "request", "inject", "turnEnd", "finish", "failed"}
    <3>1. CASE Prologue \/ Inject
      <4>1. PICK next \in {"firstPoll", "request"} : Injected(next) /\ run.pc \in {"prologue", "inject"}
        BY <3>1 DEF Prologue, Inject, At
      <4>2. run'.pc = IF run'.toEmit = <<>> THEN next ELSE run.pc
        BY <1>0, <4>1, InjectedIs
      <4> QED
        BY <4>1, <4>2
    <3>2. CASE FirstPoll \/ PrepareTurn \/ EndBatch \/ TurnEnd \/ PollFollowUps \/ HandleRunFailure
      BY <1>0, <3>2, FirstPollIs, PrepareTurnIs, EndBatchIs, TurnEndIs, PollFollowUpsIs, FailureIs
    <3> QED
      BY <1>7, <3>1, <3>2
  <2> QED
    BY <1>1, <2>1, <2>2 DEF Batching
<1>8. CASE FinishRun \/ Panic \/ Lost
  <2>1. /\ run' = NoRun \/ run' = [NoRun EXCEPT !.pc = "failing"]
        /\ turns' = turns /\ pendingCalls' \in {{}, pendingCalls}
    BY <1>8, FaultIs DEF FinishRun, agentVars
  <2>2. run'.pc \in {"none", "failing"}
    BY <2>1 DEF NoRun
  <2> QED
    BY <1>1, <2>1, <2>2 DEF Batching
<1>9. ASSUME NEW c \in Caller, Begin(c)
      PROVE  TurnInv' /\ turns' >= turns
  <2>1. /\ UNCHANGED <<turns, pendingCalls>>
        /\ run'.pc \in {"firstPoll", "prologue", "failing"} \/ run' = run
    BY <1>0, <1>9, BeginIs
  <2> QED
    BY <1>1, <2>1 DEF Batching
<1> QED
  BY <1>2, <1>3, <1>4, <1>5, <1>6, <1>7, <1>8, <1>9, Steps DEF RunLoop

Given == {m \in Users : m.n \in 1..sent[m.way]}
GivenBy(w) == {m \in Given : m.way = w}
Known == Given \cup {m \in Answered : m.turn <= turns} \cup {m \in Results : m.turn \in 1..turns}

\* Queued messages came the way of their queue, and the run polls the queues only.
Polled == GivenBy("steer") \cup GivenBy("followUp")

GivenInv ==
  /\ \A w \in AllWays : sent[w] <= Limit[w]
  /\ \A q \in Queues : queue[q] \in Seq(GivenBy(q))
  /\ \A c \in Caller : caller[c].hand \in Seq(Given)
  /\ run.toEmit \in Seq(Given) /\ run.pending \in Seq(Polled)
  /\ messages \in Seq(Known)

LEMMA SubSequences == ASSUME NEW S, NEW T, S \subseteq T, NEW s \in Seq(S) PROVE s \in Seq(T)
OBVIOUS

\* A drain splits a queue, whatever its messages are.
LEMMA DrainOf ==
  ASSUME NEW S, NEW q \in Queues, queue[q] \in Seq(S)
  PROVE  /\ Drained(q) \in Seq(S) /\ Kept(q) \in Seq(S)
         /\ ToSet(queue[q]) = ToSet(Drained(q)) \cup ToSet(Kept(q))
<1>1. CASE Mode[q] = "all" \/ queue[q] = <<>>
  <2>1. Drained(q) = queue[q] /\ Kept(q) = <<>>
    BY <1>1 DEF Drained, Kept
  <2> QED
    BY <2>1 DEF ToSet
<1>2. CASE ~(Mode[q] = "all" \/ queue[q] = <<>>)
  <2>1. PICK s \in Seq(S) : s = queue[q]
    OBVIOUS
  <2>2. s # <<>> /\ Drained(q) = <<Head(s)>> /\ Kept(q) = Tail(s)
    BY <1>2, <2>1 DEF Drained, Kept
  <2>3. ToSet(s) = ToSet(<<Head(s)>>) \cup ToSet(Tail(s))
    <3>1. Len(s) \in Nat /\ Len(s) >= 1 /\ Len(Tail(s)) = Len(s) - 1
      BY <2>2
    <3>2. \A i \in 1..(Len(s) - 1) : Tail(s)[i] = s[i + 1]
      BY <2>2
    <3>3. \A i \in 1..Len(s) : i = 1 \/ i - 1 \in 1..(Len(s) - 1)
      BY <3>1
    <3>4. \A i \in 1..Len(s) : s[i] \in {Head(s)} \cup {Tail(s)[j] : j \in 1..(Len(s) - 1)}
      <4>1. ASSUME NEW i \in 1..Len(s), i # 1
            PROVE  \E j \in 1..(Len(s) - 1) : s[i] = Tail(s)[j]
        <5>1. PICK j \in 1..(Len(s) - 1) : j = i - 1
          BY <3>3, <4>1
        <5>2. i = j + 1 /\ Tail(s)[j] = s[j + 1]
          BY <3>1, <3>2, <5>1
        <5> QED
          BY <5>2
      <4>2. s[1] = Head(s)
        BY <2>2
      <4> QED
        BY <4>1, <4>2
    <3>5. DOMAIN s = 1..Len(s) /\ DOMAIN Tail(s) = 1..(Len(s) - 1)
      BY <2>2
    <3>6. Head(s) = s[1] /\ \A j \in 1..(Len(s) - 1) : j + 1 \in 1..Len(s)
      BY <2>2, <3>1
    <3>7. ToSet(s) = {s[i] : i \in 1..Len(s)} /\ ToSet(Tail(s)) = {Tail(s)[j] : j \in 1..(Len(s) - 1)}
      BY <3>5 DEF ToSet
    <3>8. ToSet(<<Head(s)>>) = {Head(s)}
      BY DEF ToSet
    <3>9. ToSet(s) \subseteq ToSet(<<Head(s)>>) \cup ToSet(Tail(s))
      BY <3>4, <3>7, <3>8
    <3>10. Head(s) \in ToSet(s)
      <4>1. 1 \in 1..Len(s)
        BY <3>1
      <4> QED
        BY <3>6, <3>7, <4>1
    <3>11. ASSUME NEW e \in ToSet(Tail(s))
           PROVE  e \in ToSet(s)
      <4>1. PICK j \in 1..(Len(s) - 1) : e = Tail(s)[j]
        BY <3>7
      <4>2. e = s[j + 1] /\ j + 1 \in 1..Len(s)
        BY <3>2, <3>6, <4>1
      <4> QED
        BY <3>7, <4>2
    <3> QED
      BY <3>8, <3>9, <3>10, <3>11
  <2> QED
    BY <2>1, <2>2, <2>3, SequencesAre
<1> QED
  BY <1>1, <1>2

LEMMA GivenGrows ==
  ASSUME Shapes, sent' = sent \/ \E w \in AllWays : sent' = [sent EXCEPT ![w] = sent[w] + 1],
         turns' \in Nat, turns' >= turns
  PROVE  /\ Given \subseteq Given' /\ \A w \in AllWays : GivenBy(w) \subseteq GivenBy(w)'
         /\ Polled \subseteq Polled' /\ Known \subseteq Known'
<1>1. \A w \in AllWays : sent[w] \in Nat /\ sent'[w] \in Nat /\ sent'[w] >= sent[w]
  <2>1. \A w \in AllWays : sent[w] \in Nat
    BY DEF Shapes
  <2>2. ASSUME NEW v \in AllWays, sent' = [sent EXCEPT ![v] = sent[v] + 1], NEW w \in AllWays
        PROVE  sent'[w] \in Nat /\ sent'[w] >= sent[w]
    <3>1. PICK n \in Nat : n = sent[v] + 1 /\ n >= sent[v]
      BY <2>1
    <3>2. sent'[w] = IF w = v THEN n ELSE sent[w]
      BY <2>2, <3>1 DEF Shapes
    <3>3. sent[w] >= sent[w]
      BY <2>1
    <3> QED
      BY <2>1, <3>1, <3>2, <3>3
  <2>3. CASE sent' = sent
    BY <2>1, <2>3
  <2> QED
    BY <2>1, <2>2, <2>3
<1>2. Given \subseteq Given'
  <2>1. ASSUME NEW m \in Given PROVE m \in Given'
    <3>1. m \in Users /\ m.way \in AllWays /\ m.n \in 1..sent[m.way]
      BY DEF Given, Users
    <3>2. sent[m.way] \in Nat /\ sent'[m.way] \in Nat /\ sent'[m.way] >= sent[m.way]
      BY <1>1, <3>1
    <3>3. m.n \in 1..sent'[m.way]
      BY <3>1, <3>2
    <3> QED
      BY <3>1, <3>3 DEF Given
  <2> QED
    BY <2>1
<1>3. \A w \in AllWays : GivenBy(w) \subseteq GivenBy(w)'
  BY <1>2 DEF GivenBy
<1>4. Polled \subseteq Polled'
  BY <1>3 DEF Polled, AllWays
<1>5. Known \subseteq Known'
  <2>1. ASSUME NEW m \in Answered, m.turn <= turns
        PROVE  m.turn <= turns'
    BY <2>1 DEF Answered, Shapes
  <2>2. ASSUME NEW m \in Results, m.turn \in 1..turns
        PROVE  m.turn \in 1..turns'
    BY <2>2 DEF Shapes
  <2> QED
    BY <1>2, <2>1, <2>2 DEF Known
<1> QED
  BY <1>2, <1>3, <1>4, <1>5

\* What is given next.
LEMMA NextGiven ==
  ASSUME Shapes, NEW w \in AllWays, sent' = [sent EXCEPT ![w] = sent[w] + 1]
  PROVE  /\ Input(w, sent[w] + 1) \in GivenBy(w)' /\ Input(w, sent[w] + 1) \in Given'
         /\ Input(w, sent[w] + 1) \notin Given
         /\ Given' = Given \cup {Input(w, sent[w] + 1)}
<1>1. PICK n \in Nat : n = sent[w] + 1 /\ sent[w] \in Nat
  BY DEF Shapes
<1>2. sent'[w] = n /\ \A v \in AllWays : v # w => sent'[v] = sent[v]
  BY <1>1 DEF Shapes
<1>3. PICK m \in Users : m = Input(w, n)
  BY InputIs
<1>4. m.way = w /\ m.n = n
  BY <1>3 DEF Input
<1>5. n \in 1..n /\ n \notin 1..sent[w]
  BY <1>1
<1>6. m \in Given' /\ m \in GivenBy(w)' /\ m \notin Given
  BY <1>2, <1>4, <1>5 DEF Given, GivenBy
<1>7. ASSUME NEW x \in Users
      PROVE  x \in Given' <=> x \in Given \/ x = m
  <2>1. x.way \in AllWays /\ x.n \in Nat /\ (x = m <=> x.way = w /\ x.n = n)
    BY <1>3, <1>4 DEF Users
  <2>2. CASE x.way = w
    <3>1. x.n \in 1..n <=> x.n \in 1..sent[w] \/ x.n = n
      BY <1>1, <2>1
    <3> QED
      BY <1>2, <2>1, <2>2, <3>1 DEF Given
  <2>3. CASE x.way # w
    BY <1>2, <2>1, <2>3 DEF Given
  <2> QED
    BY <2>2, <2>3
<1> QED
  BY <1>1, <1>3, <1>6, <1>7 DEF Given

LEMMA WordsKnown == TalkInv /\ TurnInv => OwnWords \subseteq Known /\ \A m \in OwnWords : m \notin Users
<1> SUFFICES ASSUME TalkInv, TurnInv
             PROVE  OwnWords \subseteq Known /\ \A m \in OwnWords : m \notin Users
  OBVIOUS
<1>0. turns \in Nat /\ MaxCalls \in Nat
  BY DEF TalkInv, Shapes
<1>1. ASSUME NEW m \in Answers(turns)
      PROVE  m \in Known /\ m \notin Users
  <2>1. m \in Answered
    BY <1>0, AnswersAre
  <2>2. m.turn = turns
    BY DEF Answers, Answer
  <2>3. m.turn <= turns
    BY <1>0, <2>2
  <2> QED
    BY <2>1, <2>3 DEF Known, Answered, Users
<1>2. ASSUME NEW stop \in {"aborted", "error"}
      PROVE  Answer(0, stop, 0) \in Known /\ Answer(0, stop, 0) \notin Users
  <2>1. PICK m : m = Answer(0, stop, 0)
    OBVIOUS
  <2>2. m \in Answered /\ m.turn = 0
    BY <2>1 DEF Answer, Answered, Stops
  <2>3. m.turn <= turns
    BY <1>0, <2>2
  <2> QED
    BY <2>1, <2>2, <2>3 DEF Known, Answered, Users
<1>3. ASSUME NEW k \in 1..MaxCalls, run.pc \in Batching
      PROVE  Result(turns, k) \in Known /\ Result(turns, k) \notin Users
  <2>1. PICK m : m = Result(turns, k)
    OBVIOUS
  <2>2. m \in Results /\ m.turn = turns
    BY <1>0, <2>1 DEF Result, Results
  <2>3. turns \in 1..turns
    BY <1>0, <1>3 DEF TurnInv
  <2> QED
    BY <2>1, <2>2, <2>3 DEF Known, Results, Users
<1> QED
  BY <1>1, <1>2, <1>3 DEF OwnWords

\* The steps that give a message, and those that give none.
LEMMA MovesSend ==
  ASSUME Shapes, Moves, \A w \in AllWays : sent[w] <= Limit[w]
  PROVE  /\ sent' = sent \/ \E w \in AllWays : sent' = [sent EXCEPT ![w] = sent[w] + 1]
         /\ \A w \in AllWays : sent'[w] <= Limit[w]
<1>1. ASSUME NEW w \in AllWays, sent[w] < Limit[w], sent' = [sent EXCEPT ![w] = sent[w] + 1]
      PROVE  \A v \in AllWays : sent'[v] <= Limit[v]
  <2>1. Limit[w] \in Nat /\ sent[w] \in Nat
    BY DEF Shapes, AllWays
  <2>2. sent[w] + 1 <= Limit[w]
    BY <1>1, <2>1
  <2> QED
    BY <1>1, <2>2 DEF Shapes
<1>2. \/ sent' = sent
      \/ \E w \in AllWays : sent[w] < Limit[w] /\ sent' = [sent EXCEPT ![w] = sent[w] + 1]
  BY DEF Moves, Rests, Clears, Prepares, Injects, Keeps, Ends, Gives, Polls, Prompts, Begins, Drains,
         Says, AllWays, Queues
<1> QED
  BY <1>1, <1>2

LEMMA GivenInvKept == TalkInv /\ TurnInv /\ GivenInv /\ Next => GivenInv'
<1> SUFFICES ASSUME TalkInv, TurnInv, GivenInv, Next
             PROVE  GivenInv'
  OBVIOUS
<1>0. Shapes /\ Moves /\ turns' \in Nat /\ turns' >= turns
  BY AllMoves, ShapesKept, TurnInvKept DEF TalkInv, Shapes
<1>1. /\ sent' = sent \/ \E w \in AllWays : sent' = [sent EXCEPT ![w] = sent[w] + 1]
      /\ \A w \in AllWays : sent'[w] <= Limit[w]
  BY <1>0, MovesSend DEF GivenInv
<1>2. /\ Given \subseteq Given' /\ \A w \in AllWays : GivenBy(w) \subseteq GivenBy(w)'
      /\ Polled \subseteq Polled' /\ Known \subseteq Known'
  BY <1>0, <1>1, GivenGrows
<1>3. /\ \A q \in Queues : queue[q] \in Seq(GivenBy(q)')
      /\ \A c \in Caller : caller[c].hand \in Seq(Given')
      /\ run.toEmit \in Seq(Given') /\ run.pending \in Seq(Polled')
      /\ messages \in Seq(Known')
  <2>1. \A q \in Queues : queue[q] \in Seq(GivenBy(q)')
    BY <1>2, SubSequences DEF GivenInv, Queues, AllWays
  <2>2. /\ \A c \in Caller : caller[c].hand \in Seq(Given')
        /\ run.toEmit \in Seq(Given') /\ run.pending \in Seq(Polled')
    BY <1>2, SubSequences DEF GivenInv
  <2>3. messages \in Seq(Known')
    BY <1>2, SubSequences DEF GivenInv
  <2> QED
    BY <2>1, <2>2, <2>3
<1>4. \A q \in Queues : /\ Drained(q) \in Seq(GivenBy(q)') /\ Drained(q) \in Seq(Polled')
                        /\ Drained(q) \in Seq(Given') /\ Kept(q) \in Seq(GivenBy(q)')
  <2>1. ASSUME NEW q \in Queues
        PROVE  Drained(q) \in Seq(GivenBy(q)') /\ Kept(q) \in Seq(GivenBy(q)')
    BY <1>3, DrainOf
  <2>2. \A q \in Queues : GivenBy(q)' \subseteq Polled' /\ GivenBy(q)' \subseteq Given'
    BY DEF Polled, GivenBy, Queues
  <2> QED
    BY <2>1, <2>2, SubSequences
<1>5. \A q \in Queues : queue'[q] \in Seq(GivenBy(q)')
  <2>1. CASE UNCHANGED queue
    BY <1>3, <2>1
  <2>2. ASSUME NEW q \in Queues, Taken(q)
        PROVE  \A p \in Queues : queue'[p] \in Seq(GivenBy(p)')
    BY <1>0, <1>3, <1>4, <2>2 DEF Taken, Shapes
  <2>3. ASSUME NEW q \in Queues, Gives(q)
        PROVE  \A p \in Queues : queue'[p] \in Seq(GivenBy(p)')
    <3>1. PICK m \in GivenBy(q)' : m = Input(q, sent[q] + 1)
      BY <1>0, <2>3, NextGiven DEF Gives, Queues, AllWays
    <3>2. Append(queue[q], m) \in Seq(GivenBy(q)')
      BY <1>3, SequencesAre
    <3> QED
      BY <1>0, <1>3, <2>3, <3>1, <3>2 DEF Gives, Shapes
  <2>4. CASE Clears
    BY <2>4 DEF Clears
  <2> QED
    BY <1>0, <2>1, <2>2, <2>3, <2>4 DEF Moves, Rests, Prepares, Injects, Keeps, Ends, Polls, Prompts,
                                        Begins, Drains, Says, Queues
<1>6. \A c \in Caller : caller'[c].hand \in Seq(Given')
  <2>1. CASE HandsKept
    BY <1>3, <2>1 DEF HandsKept
  <2>2. ASSUME NEW c \in Caller, Prompts(c)
        PROVE  \A d \in Caller : caller'[d].hand \in Seq(Given')
    <3>1. PICK m \in Given' : m = Input("prompt", sent["prompt"] + 1)
      BY <1>0, <2>2, NextGiven DEF Prompts, AllWays
    <3>2. <<m>> \in Seq(Given')
      OBVIOUS
    <3>3. \A d \in Caller : caller'[d].hand = <<m>> \/ caller'[d].hand = caller[d].hand
      BY <2>2, <3>1 DEF Prompts
    <3> QED
      BY <1>3, <3>2, <3>3
  <2>3. ASSUME NEW c \in Caller, NEW q \in Queues, Drains(c, q)
        PROVE  \A d \in Caller : caller'[d].hand \in Seq(Given')
    BY <1>3, <1>4, <2>3 DEF Drains
  <2>4. ASSUME NEW c \in Caller, Begins(c)
        PROVE  \A d \in Caller : caller'[d].hand \in Seq(Given')
    <3>1. <<>> \in Seq(Given')
      OBVIOUS
    <3> QED
      BY <1>3, <2>4, <3>1 DEF Begins
  <2> QED
    BY <1>0, <2>1, <2>2, <2>3, <2>4 DEF Moves, Rests, Clears, Prepares, Injects, Keeps, Ends, Gives,
                                        Polls, Says
<1>7. run'.toEmit \in Seq(Given') /\ run'.pending \in Seq(Polled')
  <2>0. <<>> \in Seq(Given') /\ <<>> \in Seq(Polled') /\ run.pending \in Seq(Given')
    <3>1. Polled' \subseteq Given'
      BY DEF Polled, GivenBy
    <3> QED
      BY <1>3, <3>1, SubSequences
  <2>1. CASE run'.toEmit = run.toEmit /\ run'.pending = run.pending
    BY <1>3, <2>1
  <2>2. ASSUME NEW c \in Caller, Begins(c)
        PROVE  run'.toEmit \in Seq(Given') /\ run'.pending \in Seq(Polled')
    BY <1>3, <2>0, <2>2 DEF Begins, LineKept
  <2>3. ASSUME NEW q \in Queues, Polls(q)
        PROVE  run'.toEmit \in Seq(Given') /\ run'.pending \in Seq(Polled')
    BY <1>4, <2>0, <2>3 DEF Polls
  <2>4. CASE Prepares
    <3>1. run'.pending \in Seq(Polled')
      BY <2>0, <2>4 DEF Prepares
    <3>2. CASE run'.toEmit = run.pending \/ run'.toEmit = Drained("steer")
      BY <1>4, <2>0, <3>1, <3>2 DEF Queues
    <3>3. CASE /\ sent' = [sent EXCEPT !["prepared"] = sent["prepared"] + 1]
               /\ run'.toEmit = Handed \o run.pending \/ run'.toEmit = Handed \o Drained("steer")
      <4>1. PICK m \in Given' : m = Input("prepared", sent["prepared"] + 1)
        BY <1>0, <3>3, NextGiven DEF AllWays
      <4>2. Handed \in Seq(Given')
        BY <4>1 DEF Handed
      <4>3. Drained("steer") \in Seq(Given')
        BY <1>4 DEF Queues
      <4>4. \A s, t \in Seq(Given') : s \o t \in Seq(Given')
        BY SequencesAre
      <4>5. Handed \o run.pending \in Seq(Given') /\ Handed \o Drained("steer") \in Seq(Given')
        BY <2>0, <4>2, <4>3, <4>4
      <4> QED
        BY <3>1, <3>3, <4>5
    <3> QED
      BY <2>4, <3>2, <3>3 DEF Prepares
  <2>5. CASE Injects
    BY <1>3, <2>0, <2>5, SequencesAre DEF Injects
  <2>6. CASE Ends
    BY <2>0, <2>6 DEF Ends
  <2> QED
    BY <1>0, <2>1, <2>2, <2>3, <2>4, <2>5, <2>6 DEF Moves, Rests, Clears, Keeps, Gives, Prompts, Drains,
                                                    Says, LineKept
<1>8. messages' \in Seq(Known')
  <2>1. CASE messages' = messages \/ messages' = <<>>
    <3>1. <<>> \in Seq(Known')
      OBVIOUS
    <3> QED
      BY <1>3, <2>1, <3>1
  <2>2. CASE Injects
    <3>1. PICK m \in Given' : m = Head(run.toEmit)
      BY <1>3, <2>2, SequencesAre DEF Injects
    <3>2. m \in Known'
      BY DEF Known
    <3> QED
      BY <1>3, <2>2, <3>1, <3>2, SequencesAre DEF Injects
  <2>3. ASSUME NEW m \in OwnWords, Says(m)
        PROVE  messages' \in Seq(Known')
    <3>1. m \in Known'
      BY <1>2, WordsKnown
    <3> QED
      BY <1>3, <2>3, <3>1, SequencesAre DEF Says
  <2> QED
    BY <1>0, <2>1, <2>2, <2>3 DEF Moves, Rests, Clears, Prepares, Keeps, Ends, Gives, Polls, Prompts,
                                  Drains, Begins
<1> QED
  BY <1>1, <1>5, <1>6, <1>7, <1>8 DEF GivenInv

AgentInv == TalkInv /\ TurnInv /\ GivenInv

LEMMA AgentInvInit == Init => AgentInv
<1> SUFFICES ASSUME Init PROVE AgentInv
  OBVIOUS
<1>1. TalkInv
  BY ShapesInit, PhaseInvInit, TalkInit DEF TalkInv
<1>2. TurnInv
  BY RunEmpty DEF Init, TurnInv, Batching
<1>3. /\ run.toEmit = <<>> /\ run.pending = <<>> /\ messages = <<>>
      /\ \A q \in Queues : queue[q] = <<>>
      /\ \A c \in Caller : caller[c].hand = <<>>
  BY RunEmpty DEF Init, Queues, Idle
<1>4. \A w \in AllWays : sent[w] <= Limit[w]
  <2>1. \A w \in AllWays : sent[w] = 0 /\ Limit[w] \in Nat
    BY RestIs DEF Init, AllWays
  <2> QED
    BY <2>1
<1>5. \A S : <<>> \in Seq(S)
  OBVIOUS
<1>6. GivenInv
  BY <1>3, <1>4, <1>5 DEF GivenInv
<1> QED
  BY <1>1, <1>2, <1>6 DEF AgentInv

LEMMA AgentInvKept == AgentInv /\ [Next]_vars => AgentInv'
<1> SUFFICES ASSUME AgentInv, [Next]_vars
             PROVE  AgentInv'
  OBVIOUS
<1>1. CASE Next
  <2>1. TalkInv'
    BY <1>1, ShapesKept, PhaseInvKept, HandInvKept, RunnerInvKept, SyncInvKept
       DEF TalkInv, AgentInv
  <2> QED
    BY <1>1, <2>1, TurnInvKept, GivenInvKept DEF AgentInv
<1>2. CASE UNCHANGED vars
  <2>1. TalkInv'
    BY <1>2, TalkStutters DEF AgentInv
  <2>2. UNCHANGED <<messages, pendingCalls, queue, caller, run, sent, turns>>
    BY <1>2 DEF vars, agentVars
  <2>3. TurnInv'
    BY <2>2 DEF AgentInv, TurnInv
  <2>4. UNCHANGED <<Given, Known>>
    BY <2>2 DEF Known, Given
  <2>5. Polled' = Polled /\ \A q \in Queues : GivenBy(q)' = GivenBy(q)
    BY <2>4 DEF Polled, GivenBy
  <2>6. GivenInv'
    BY <2>2, <2>4, <2>5 DEF AgentInv, GivenInv
  <2> QED
    BY <2>1, <2>3, <2>6 DEF AgentInv
<1> QED
  BY <1>1, <1>2

THEOREM AgentHolds == Spec => []AgentInv
BY AgentInvInit, AgentInvKept, PTL DEF Spec

\* The state of the agent is always of its types: messages and pending calls
\* are of turns that have begun, what was given is within the limits, and a
\* run is executing exactly when one caller is inside it
\* (run_with_lifecycle and finish_run of agent.rs).
THEOREM TypeCorrect == Spec => []TypeOK
<1>1. ASSUME AgentInv PROVE TypeOK
  <2>0. Shapes /\ RunnerInv /\ TurnInv /\ GivenInv
    BY <1>1 DEF AgentInv, TalkInv
  <2>1. Given \subseteq Inputs
    <3>1. ASSUME NEW m \in Given PROVE m \in Inputs
      <4>1. m \in Users /\ m.way \in AllWays /\ m.n \in 1..sent[m.way]
        BY DEF Given, Users
      <4>2. m = Input(m.way, m.n)
        BY <4>1 DEF Users, Input
      <4>3. sent[m.way] \in Nat /\ Limit[m.way] \in Nat /\ sent[m.way] <= Limit[m.way]
        BY <2>0, <4>1 DEF Shapes, GivenInv, AllWays
      <4>4. m.n \in 1..Limit[m.way]
        BY <4>1, <4>3
      <4>5. m.way \in Ways
        BY <4>1, RestIs
      <4> QED
        BY <4>2, <4>4, <4>5 DEF Inputs
    <3> QED
      BY <3>1
  <2>2. Known \subseteq Message
    <3>1. ASSUME NEW m \in Answered, m.turn <= turns
          PROVE  m \in [role : {"assistant"}, turn : 0..turns, stop : Stops, calls : 0..MaxCalls]
      <4>1. m.turn \in 0..turns
        BY <2>0, <3>1 DEF Answered, Shapes
      <4> QED
        BY <4>1 DEF Answered
    <3>2. ASSUME NEW m \in Results, m.turn \in 1..turns
          PROVE  m \in [role : {"toolResult"}, turn : 1..turns, call : 1..MaxCalls]
      BY <3>2 DEF Results
    <3> QED
      BY <2>1, <3>1, <3>2 DEF Known, Message
  <2>3. ToSet(messages) \subseteq Message
    BY <2>0, <2>2, SequencesAre DEF GivenInv
  <2>4. \A q \in {"steer", "followUp"} : ToSet(queue[q]) \subseteq Inputs
    <3>1. ASSUME NEW q \in Queues PROVE ToSet(queue[q]) \subseteq Inputs
      <4>1. ToSet(queue[q]) \subseteq GivenBy(q)
        BY <2>0, SequencesAre DEF GivenInv
      <4> QED
        BY <2>1, <4>1 DEF GivenBy
    <3> QED
      BY <3>1 DEF Queues
  <2>5. active \in 0..runs
    BY <2>0 DEF Shapes, RunnerInv
  <2>6. Cardinality({c \in Caller : Runner(c)}) = IF run.pc = "none" THEN 0 ELSE 1
    <3>1. CASE run.pc = "none"
      <4>1. {c \in Caller : Runner(c)} = {}
        BY <2>0, <3>1 DEF RunnerInv
      <4> QED
        BY <3>1, <4>1, FS_EmptySet
    <3>2. CASE run.pc # "none"
      <4>1. PICK c \in Caller : \A d \in Caller : Runner(d) <=> d = c
        BY <2>0, <3>2 DEF RunnerInv
      <4>2. {d \in Caller : Runner(d)} = {c}
        BY <4>1
      <4> QED
        BY <3>2, <4>2, FS_Singleton
    <3> QED
      BY <3>1, <3>2
  <2>7. run.pc # "none" => active # 0
    BY <2>0 DEF RunnerInv
  <2> QED
    BY <2>0, <2>3, <2>4, <2>5, <2>6, <2>7 DEF TypeOK, Shapes, TurnInv
<1> QED
  BY <1>1, AgentHolds, PTL

-----------------------------------------------------------------------------
(* The order of what came one way.                                         *)

Earlier(S, T) == \A m \in S \cap Users, n \in T \cap Users : m.way = n.way => m.n < n.n
InTurn(s) == \A i, j \in DOMAIN s :
               i < j /\ s[i] \in Users /\ s[j] \in Users /\ s[i].way = s[j].way => s[i].n < s[j].n

LEMMA Joins ==
  ASSUME NEW S, NEW s \in Seq(S), NEW t \in Seq(S)
  PROVE  /\ ToSet(s \o t) = ToSet(s) \cup ToSet(t)
         /\ InTurn(s \o t) <=> InTurn(s) /\ InTurn(t) /\ Earlier(ToSet(s), ToSet(t))
<1>0. Len(s) \in Nat /\ Len(t) \in Nat /\ DOMAIN s = 1..Len(s) /\ DOMAIN t = 1..Len(t)
  OBVIOUS
<1> PICK a \in Nat, b \in Nat : a = Len(s) /\ b = Len(t)
  BY <1>0
<1> PICK u \in Seq(S) : u = s \o t
  BY SequencesAre
<1>1. /\ DOMAIN s = 1..a /\ DOMAIN t = 1..b /\ DOMAIN u = 1..(a + b)
      /\ \A i \in 1..a : u[i] = s[i] /\ i \in 1..(a + b)
      /\ \A j \in 1..b : u[a + j] = t[j] /\ a + j \in 1..(a + b)
  BY <1>0
<1>2. \A i \in 1..(a + b) : i \in 1..a \/ \E j \in 1..b : i = a + j
  <2>1. ASSUME NEW i \in 1..(a + b), i \notin 1..a
        PROVE  \E j \in 1..b : i = a + j
    <3>1. i - a \in 1..b /\ i = a + (i - a)
      BY <2>1
    <3> QED
      BY <3>1
  <2> QED
    BY <2>1
<1>3. ToSet(u) = ToSet(s) \cup ToSet(t)
  <2>1. ASSUME NEW i \in 1..(a + b) PROVE u[i] \in ToSet(s) \cup ToSet(t)
    <3>1. CASE i \in 1..a
      BY <1>1, <3>1 DEF ToSet
    <3>2. ASSUME NEW j \in 1..b, i = a + j
          PROVE  u[i] \in ToSet(t)
      BY <1>1, <3>2 DEF ToSet
    <3> QED
      BY <1>2, <3>1, <3>2
  <2>2. \A i \in 1..a : s[i] \in ToSet(u)
    BY <1>1 DEF ToSet
  <2>3. \A j \in 1..b : t[j] \in ToSet(u)
    BY <1>1 DEF ToSet
  <2>4. \A e \in ToSet(u) : e \in ToSet(s) \cup ToSet(t)
    BY <1>1, <2>1 DEF ToSet
  <2>5. \A e \in ToSet(s) \cup ToSet(t) : e \in ToSet(u)
    <3>1. \A e \in ToSet(s) : \E i \in 1..a : e = s[i]
      BY <1>1 DEF ToSet
    <3>2. \A e \in ToSet(t) : \E j \in 1..b : e = t[j]
      BY <1>1 DEF ToSet
    <3> QED
      BY <2>2, <2>3, <3>1, <3>2
  <2> QED
    BY <2>4, <2>5
<1>4. ASSUME InTurn(u)
      PROVE  InTurn(s) /\ InTurn(t) /\ Earlier(ToSet(s), ToSet(t))
  <2>1. InTurn(s)
    <3>1. ASSUME NEW i \in 1..a, NEW j \in 1..a, i < j, s[i] \in Users, s[j] \in Users, s[i].way = s[j].way
          PROVE  s[i].n < s[j].n
      <4>1. u[i] = s[i] /\ u[j] = s[j] /\ i \in DOMAIN u /\ j \in DOMAIN u
        BY <1>1
      <4> QED
        BY <1>4, <3>1, <4>1 DEF InTurn
    <3> QED
      BY <1>1, <3>1 DEF InTurn
  <2>2. InTurn(t)
    <3>1. ASSUME NEW i \in 1..b, NEW j \in 1..b, i < j, t[i] \in Users, t[j] \in Users, t[i].way = t[j].way
          PROVE  t[i].n < t[j].n
      <4>1. u[a + i] = t[i] /\ u[a + j] = t[j] /\ a + i \in DOMAIN u /\ a + j \in DOMAIN u /\ a + i < a + j
        BY <1>1, <3>1
      <4> QED
        BY <1>4, <3>1, <4>1 DEF InTurn
    <3> QED
      BY <1>1, <3>1 DEF InTurn
  <2>3. Earlier(ToSet(s), ToSet(t))
    <3>1. ASSUME NEW i \in 1..a, NEW j \in 1..b, s[i] \in Users, t[j] \in Users, s[i].way = t[j].way
          PROVE  s[i].n < t[j].n
      <4>1. u[i] = s[i] /\ u[a + j] = t[j] /\ i \in DOMAIN u /\ a + j \in DOMAIN u /\ i < a + j
        BY <1>1, <3>1
      <4> QED
        BY <1>4, <3>1, <4>1 DEF InTurn
    <3>2. \A e \in ToSet(s) : \E i \in 1..a : e = s[i]
      BY <1>1 DEF ToSet
    <3>3. \A e \in ToSet(t) : \E j \in 1..b : e = t[j]
      BY <1>1 DEF ToSet
    <3>4. ASSUME NEW m \in ToSet(s) \cap Users, NEW n \in ToSet(t) \cap Users, m.way = n.way
          PROVE  m.n < n.n
      <4>1. PICK i \in 1..a : m = s[i]
        BY <3>2
      <4>2. PICK j \in 1..b : n = t[j]
        BY <3>3
      <4> QED
        BY <3>1, <3>4, <4>1, <4>2
    <3> QED
      BY <3>4 DEF Earlier
  <2> QED
    BY <2>1, <2>2, <2>3
<1>5. ASSUME InTurn(s), InTurn(t), Earlier(ToSet(s), ToSet(t))
      PROVE  InTurn(u)
  <2>1. ASSUME NEW i \in 1..(a + b), NEW j \in 1..(a + b), i < j, u[i] \in Users, u[j] \in Users,
               u[i].way = u[j].way
        PROVE  u[i].n < u[j].n
    <3>1. CASE i \in 1..a /\ j \in 1..a
      BY <1>1, <1>5, <2>1, <3>1 DEF InTurn
    <3>2. ASSUME i \in 1..a, NEW l \in 1..b, j = a + l
          PROVE  u[i].n < u[j].n
      <4>1. u[i] = s[i] /\ u[j] = t[l] /\ s[i] \in ToSet(s) /\ t[l] \in ToSet(t)
        BY <1>1, <3>2 DEF ToSet
      <4> QED
        BY <1>5, <2>1, <4>1 DEF Earlier
    <3>3. ASSUME NEW k \in 1..b, i = a + k, NEW l \in 1..b, j = a + l
          PROVE  u[i].n < u[j].n
      <4>1. u[i] = t[k] /\ u[j] = t[l] /\ k \in DOMAIN t /\ l \in DOMAIN t
        BY <1>1, <3>3
      <4>2. k < l
        BY <2>1, <3>3
      <4> QED
        BY <1>5, <2>1, <4>1, <4>2 DEF InTurn
    <3>4. ASSUME NEW k \in 1..b, i = a + k
          PROVE  j \notin 1..a
      BY <2>1, <3>4
    <3> QED
      BY <1>2, <3>1, <3>2, <3>3, <3>4
  <2> QED
    BY <1>1, <2>1 DEF InTurn
<1> QED
  BY <1>3, <1>4, <1>5

LEMMA Shortest == ToSet(<<>>) = {} /\ InTurn(<<>>) /\ \A e : ToSet(<<e>>) = {e} /\ InTurn(<<e>>)
BY DEF ToSet, InTurn

LEMMA AppendJoins ==
  ASSUME NEW S, NEW s \in Seq(S), NEW e \in S
  PROVE  /\ ToSet(Append(s, e)) = ToSet(s) \cup {e}
         /\ InTurn(Append(s, e)) <=> InTurn(s) /\ Earlier(ToSet(s), {e})
<1>1. PICK t \in Seq(S) : t = <<e>>
  BY SequencesAre
<1>2. Append(s, e) = s \o t
  BY <1>1
<1>3. ToSet(t) = {e} /\ InTurn(t)
  BY <1>1, Shortest
<1>4. /\ ToSet(s \o t) = ToSet(s) \cup ToSet(t)
      /\ InTurn(s \o t) <=> InTurn(s) /\ InTurn(t) /\ Earlier(ToSet(s), ToSet(t))
  BY Joins
<1> QED
  BY <1>2, <1>3, <1>4

LEMMA AppendAdds ==
  ASSUME NEW S, NEW s \in Seq(S), NEW e \in S
  PROVE  ToSet(Append(s, e)) = ToSet(s) \cup {e}
<1>1. /\ ToSet(Append(s, e)) = ToSet(s) \cup {e}
      /\ InTurn(Append(s, e)) <=> InTurn(s) /\ Earlier(ToSet(s), {e})
  BY AppendJoins
<1> QED
  BY <1>1

LEMMA HeadJoins ==
  ASSUME NEW S, NEW s \in Seq(S), s # <<>>
  PROVE  /\ ToSet(s) = {Head(s)} \cup ToSet(Tail(s))
         /\ InTurn(s) <=> InTurn(Tail(s)) /\ Earlier({Head(s)}, ToSet(Tail(s)))
<1>1. s = <<Head(s)>> \o Tail(s) /\ <<Head(s)>> \in Seq(S) /\ Tail(s) \in Seq(S)
  OBVIOUS
<1>2. PICK h \in Seq(S), t \in Seq(S) : h = <<Head(s)>> /\ t = Tail(s)
  BY <1>1
<1>3. s = h \o t
  BY <1>1, <1>2
<1>4. ToSet(h) = {Head(s)} /\ InTurn(h)
  BY <1>2, Shortest
<1>5. /\ ToSet(h \o t) = ToSet(h) \cup ToSet(t)
      /\ InTurn(h \o t) <=> InTurn(h) /\ InTurn(t) /\ Earlier(ToSet(h), ToSet(t))
  BY Joins
<1> QED
  BY <1>2, <1>3, <1>4, <1>5

\* What a drain leaves came after what it takes.
LEMMA DrainInTurn ==
  ASSUME NEW q \in Queues, queue[q] \in Seq(Users), InTurn(queue[q])
  PROVE  /\ InTurn(Drained(q)) /\ InTurn(Kept(q)) /\ Earlier(ToSet(Drained(q)), ToSet(Kept(q)))
         /\ ToSet(queue[q]) = ToSet(Drained(q)) \cup ToSet(Kept(q))
<1>1. CASE Mode[q] = "all" \/ queue[q] = <<>>
  BY <1>1, Shortest DEF Drained, Kept, Earlier
<1>2. CASE ~(Mode[q] = "all" \/ queue[q] = <<>>)
  <2>1. PICK s \in Seq(Users) : s = queue[q]
    OBVIOUS
  <2>2. s # <<>> /\ Drained(q) = <<Head(s)>> /\ Kept(q) = Tail(s)
    BY <1>2, <2>1 DEF Drained, Kept
  <2>3. InTurn(Tail(s)) /\ Earlier({Head(s)}, ToSet(Tail(s))) /\ ToSet(s) = {Head(s)} \cup ToSet(Tail(s))
    BY <2>1, <2>2, HeadJoins
  <2> QED
    BY <2>1, <2>2, <2>3, Shortest
<1> QED
  BY <1>1, <1>2

LEMMA EarlierParts ==
  ASSUME NEW S, NEW T, NEW U
  PROVE  /\ Earlier(S \cup T, U) <=> Earlier(S, U) /\ Earlier(T, U)
         /\ Earlier(S, T \cup U) <=> Earlier(S, T) /\ Earlier(S, U)
         /\ Earlier({}, S) /\ Earlier(S, {})
         /\ S \subseteq T /\ Earlier(T, U) => Earlier(S, U)
         /\ S \subseteq T /\ Earlier(U, T) => Earlier(U, S)
BY DEF Earlier

\* Nothing was given before with the number of the message that is given.
LEMMA NextIsLater ==
  ASSUME Shapes, NEW w \in AllWays, NEW S, S \cap Users \subseteq Given
  PROVE  Earlier(S, {Input(w, sent[w] + 1)})
<1>1. PICK n \in Nat : n = sent[w] + 1 /\ sent[w] \in Nat
  BY DEF Shapes
<1>2. PICK m \in Users : m = Input(w, n)
  BY InputIs
<1>3. m.way = w /\ m.n = n
  BY <1>2 DEF Input
<1>4. ASSUME NEW x \in S \cap Users, x.way = w
      PROVE  x.n < n
  <2>1. x.n \in 1..sent[w]
    BY <1>4 DEF Given
  <2> QED
    BY <1>1, <2>1
<1>5. Earlier(S, {m})
  BY <1>3, <1>4 DEF Earlier
<1> QED
  BY <1>1, <1>2, <1>5

LEMMA OtherWays ==
  ASSUME NEW S, NEW T, \A m \in S \cap Users, n \in T \cap Users : m.way # n.way
  PROVE  Earlier(S, T)
BY DEF Earlier

\* What a poll takes came before all that is queued then, and what is queued
\* was queued before.
LEMMA PollOrder ==
  ASSUME Shapes, GivenInv, NEW q \in Queues, Taken(q), \A p \in Queues : InTurn(queue[p])
  PROVE  /\ InTurn(Drained(q)) /\ ToSet(Drained(q)) \subseteq ToSet(queue[q])
         /\ \A p \in Queues : /\ InTurn(queue'[p]) /\ ToSet(queue'[p]) \subseteq ToSet(queue[p])
                              /\ Earlier(ToSet(Drained(q)), ToSet(queue'[p]))
<1>1. /\ InTurn(Drained(q)) /\ InTurn(Kept(q)) /\ Earlier(ToSet(Drained(q)), ToSet(Kept(q)))
      /\ ToSet(queue[q]) = ToSet(Drained(q)) \cup ToSet(Kept(q))
  BY Fields, DrainInTurn
<1>2. \A p \in Queues : queue'[p] = IF p = q THEN Kept(q) ELSE queue[p]
  BY DEF Taken, Shapes
<1>3. \A p \in Queues : ToSet(queue[p]) \subseteq GivenBy(p)
  BY SequencesAre DEF GivenInv
<1>4. \A p \in Queues : p # q => Earlier(ToSet(Drained(q)), ToSet(queue[p]))
  <2>1. ASSUME NEW p \in Queues, p # q
        PROVE  Earlier(ToSet(Drained(q)), ToSet(queue[p]))
    <3>1. ToSet(Drained(q)) \subseteq GivenBy(q) /\ ToSet(queue[p]) \subseteq GivenBy(p)
      BY <1>1, <1>3
    <3>2. \A m \in ToSet(Drained(q)), n \in ToSet(queue[p]) : m.way # n.way
      BY <2>1, <3>1 DEF GivenBy
    <3> QED
      BY <3>2, OtherWays
  <2> QED
    BY <2>1
<1> QED
  BY <1>1, <1>2, <1>4

OrderInv ==
  /\ InTurn(run.fresh) /\ InTurn(run.toEmit) /\ InTurn(run.pending)
  /\ Earlier(ToSet(run.fresh), Carried)
  /\ \A q \in Queues : InTurn(queue[q]) /\ Earlier(ToSet(run.fresh) \cup Carried, ToSet(queue[q]))
  /\ \A c \in Caller : /\ InTurn(caller[c].hand)
                       /\ \A q \in Queues : Earlier(ToSet(caller[c].hand), ToSet(queue[q]))
  /\ ToSet(run.fresh) \cap Users \subseteq Given

\* The order of the queues and the hands.
WaitInTurn == /\ \A q \in Queues : InTurn(queue[q])
              /\ \A c \in Caller : /\ InTurn(caller[c].hand)
                                   /\ \A q \in Queues : Earlier(ToSet(caller[c].hand), ToSet(queue[q]))
\* The order of what the run took.
RunInTurn == /\ InTurn(run.fresh) /\ InTurn(run.toEmit) /\ InTurn(run.pending)
             /\ Earlier(ToSet(run.fresh), Carried)
             /\ \A q \in Queues : Earlier(ToSet(run.fresh) \cup Carried, ToSet(queue[q]))

LEMMA OrderParts == OrderInv <=> WaitInTurn /\ RunInTurn /\ ToSet(run.fresh) \cap Users \subseteq Given
BY DEF OrderInv, WaitInTurn, RunInTurn

LEMMA WaitInTurnKept == AgentInv /\ OrderInv /\ Next => WaitInTurn'
<1> SUFFICES ASSUME AgentInv, OrderInv, Next
             PROVE  WaitInTurn'
  OBVIOUS
<1>0. Shapes /\ GivenInv /\ Moves /\ WaitInTurn
  BY AllMoves, OrderParts DEF AgentInv, TalkInv
<1>1. \A c \in Caller : InTurn(caller[c].hand)
  BY <1>0 DEF WaitInTurn
<1>2. ASSUME HandsKept, \A q \in Queues : InTurn(queue'[q]) /\ ToSet(queue'[q]) \subseteq ToSet(queue[q])
      PROVE  WaitInTurn'
  <2>1. ASSUME NEW c \in Caller, NEW q \in Queues
        PROVE  Earlier(ToSet(caller[c].hand), ToSet(queue'[q]))
    <3>1. Earlier(ToSet(caller[c].hand), ToSet(queue[q])) /\ ToSet(queue'[q]) \subseteq ToSet(queue[q])
      BY <1>0, <1>2 DEF WaitInTurn
    <3> QED
      BY <3>1 DEF Earlier
  <2> QED
    BY <1>1, <1>2, <2>1 DEF WaitInTurn, HandsKept
<1>3. CASE HandsKept /\ UNCHANGED queue
  BY <1>0, <1>2, <1>3 DEF WaitInTurn
<1>4. ASSUME HandsKept, NEW q \in Queues, Taken(q)
      PROVE  WaitInTurn'
  BY <1>0, <1>2, <1>4, PollOrder DEF WaitInTurn
<1>5. ASSUME NEW q \in Queues, Gives(q)
      PROVE  WaitInTurn'
  <2>1. q \in AllWays /\ ToSet(queue[q]) \subseteq Given /\ \A c \in Caller : ToSet(caller[c].hand) \subseteq Given
    <3>1. ToSet(queue[q]) \subseteq GivenBy(q) /\ \A c \in Caller : ToSet(caller[c].hand) \subseteq Given
      BY <1>0, SequencesAre DEF GivenInv
    <3> QED
      BY <3>1 DEF GivenBy, AllWays, Queues
  <2>2. PICK e \in Users : e = Input(q, sent[q] + 1)
    BY <1>0, <2>1, InputIs DEF Shapes
  <2>3. Earlier(ToSet(queue[q]), {e}) /\ \A c \in Caller : Earlier(ToSet(caller[c].hand), {e})
    BY <1>0, <2>1, <2>2, NextIsLater
  <2>4. \A p \in Queues : queue'[p] = IF p = q THEN Append(queue[q], e) ELSE queue[p]
    BY <1>0, <1>5, <2>2 DEF Gives, Shapes
  <2>5. /\ ToSet(Append(queue[q], e)) = ToSet(queue[q]) \cup {e}
        /\ InTurn(Append(queue[q], e))
    BY SMTT(30), <1>0, <2>3, Fields, AppendJoins DEF WaitInTurn
  <2>6. \A p \in Queues : InTurn(queue'[p])
    BY <1>0, <2>4, <2>5 DEF WaitInTurn
  <2>7. ASSUME NEW c \in Caller, NEW p \in Queues
        PROVE  Earlier(ToSet(caller[c].hand), ToSet(queue'[p]))
    <3>1. Earlier(ToSet(caller[c].hand), ToSet(queue[p])) /\ Earlier(ToSet(caller[c].hand), {e})
      BY <1>0, <2>3 DEF WaitInTurn
    <3>2. ToSet(queue'[p]) \subseteq ToSet(queue[p]) \cup {e}
      BY <2>4, <2>5
    <3> QED
      BY <3>1, <3>2 DEF Earlier
  <2>8. \A c \in Caller : caller'[c].hand = caller[c].hand
    BY <1>5 DEF Gives, HandsKept
  <2> QED
    BY <1>1, <2>6, <2>7, <2>8 DEF WaitInTurn
<1>6. ASSUME NEW c \in Caller, Prompts(c)
      PROVE  WaitInTurn'
  <2>1. PICK e \in Users : e = Input("prompt", sent["prompt"] + 1)
    BY <1>0, InputIs DEF Shapes, AllWays
  <2>2. caller'[c].hand = <<e>> /\ \A d \in Caller \ {c} : caller'[d].hand = caller[d].hand
    BY <1>6, <2>1 DEF Prompts
  <2>3. UNCHANGED queue
    BY <1>6 DEF Prompts
  <2>4. \A q \in Queues : Earlier({e}, ToSet(queue[q]))
    <3>1. ASSUME NEW q \in Queues PROVE Earlier({e}, ToSet(queue[q]))
      <4>1. ToSet(queue[q]) \subseteq GivenBy(q)
        BY <1>0, SequencesAre DEF GivenInv
      <4>2. e.way = "prompt" /\ q # "prompt"
        BY <2>1 DEF Input, Queues
      <4>3. \A m \in {e}, n \in ToSet(queue[q]) : m.way # n.way
        BY <4>1, <4>2 DEF GivenBy
      <4> QED
        BY <4>3, OtherWays
    <3> QED
      BY <3>1
  <2>5. ToSet(<<e>>) = {e} /\ InTurn(<<e>>)
    BY Shortest
  <2> QED
    BY <1>0, <2>2, <2>3, <2>4, <2>5 DEF WaitInTurn
<1>7. ASSUME NEW c \in Caller, NEW q \in Queues, Drains(c, q)
      PROVE  WaitInTurn'
  <2>1. Taken(q) /\ caller'[c].hand = Drained(q) /\ \A d \in Caller \ {c} : caller'[d].hand = caller[d].hand
    BY <1>7 DEF Drains
  <2>2. /\ InTurn(Drained(q))
        /\ \A p \in Queues : /\ InTurn(queue'[p]) /\ ToSet(queue'[p]) \subseteq ToSet(queue[p])
                             /\ Earlier(ToSet(Drained(q)), ToSet(queue'[p]))
    BY <1>0, <2>1, PollOrder DEF WaitInTurn
  <2>3. ASSUME NEW d \in Caller, NEW p \in Queues
        PROVE  Earlier(ToSet(caller[d].hand), ToSet(queue'[p]))
    <3>1. Earlier(ToSet(caller[d].hand), ToSet(queue[p])) /\ ToSet(queue'[p]) \subseteq ToSet(queue[p])
      BY <1>0, <2>2 DEF WaitInTurn
    <3> QED
      BY <3>1 DEF Earlier
  <2>4. ASSUME NEW d \in Caller
        PROVE  /\ InTurn(caller'[d].hand)
               /\ \A p \in Queues : Earlier(ToSet(caller'[d].hand), ToSet(queue'[p]))
    <3>1. CASE d = c
      BY <2>1, <2>2, <3>1
    <3>2. CASE d # c
      BY <1>1, <2>1, <2>3, <3>2
    <3> QED
      BY <3>1, <3>2
  <2> QED
    BY <2>2, <2>4 DEF WaitInTurn
<1>8. ASSUME NEW c \in Caller, Begins(c)
      PROVE  WaitInTurn'
  <2>1. /\ caller'[c].hand = <<>> /\ \A d \in Caller \ {c} : caller'[d].hand = caller[d].hand
        /\ UNCHANGED queue
    BY <1>8 DEF Begins
  <2>2. ToSet(<<>>) = {} /\ InTurn(<<>>) /\ \A T : Earlier({}, T)
    BY Shortest DEF Earlier
  <2> QED
    BY <1>0, <2>1, <2>2 DEF WaitInTurn
<1>9. CASE Clears
  <2>1. HandsKept /\ \A q \in Queues : queue'[q] = <<>>
    BY <1>9 DEF Clears
  <2>2. ToSet(<<>>) = {} /\ InTurn(<<>>)
    BY Shortest
  <2> QED
    BY <1>2, <2>1, <2>2
<1>10. CASE Prepares
  BY <1>3, <1>4, <1>10 DEF Prepares, Queues
<1> QED
  BY <1>0, <1>3, <1>4, <1>5, <1>6, <1>7, <1>8, <1>9, <1>10
     DEF Moves, Rests, Injects, Keeps, Ends, Polls, Says

LEMMA FreshGiven == AgentInv /\ OrderInv /\ Next => ToSet(run'.fresh) \cap Users \subseteq Given'
<1> SUFFICES ASSUME AgentInv, OrderInv, Next
             PROVE  ToSet(run'.fresh) \cap Users \subseteq Given'
  OBVIOUS
<1>0. Shapes /\ GivenInv /\ TurnInv /\ Moves
  BY AllMoves DEF AgentInv, TalkInv
<1>1. Given \subseteq Given'
  <2>1. turns' \in Nat /\ turns' >= turns
    BY ShapesKept, TurnInvKept DEF AgentInv, TalkInv, Shapes
  <2>2. sent' = sent \/ \E w \in AllWays : sent' = [sent EXCEPT ![w] = sent[w] + 1]
    BY <1>0, MovesSend DEF GivenInv
  <2> QED
    BY <1>0, <2>1, <2>2, GivenGrows
<1>2. ToSet(run.fresh) \cap Users \subseteq Given'
  BY <1>1 DEF OrderInv
<1>3. CASE run'.fresh = run.fresh \/ run'.fresh = <<>>
  BY <1>2, <1>3, Shortest
<1>4. CASE Injects
  <2>1. PICK h \in Given : h = Head(run.toEmit)
    BY <1>0, <1>4, SequencesAre DEF GivenInv, Injects
  <2>2. h \in Anything
    BY UserIs DEF Given
  <2>3. ToSet(run'.fresh) = ToSet(run.fresh) \cup {h}
    <3>1. PICK f \in Seq(Anything), e \in Anything : f = run.fresh /\ e = h
      BY <1>0, <2>2, Fields
    <3>2. ToSet(Append(f, e)) = ToSet(f) \cup {e}
      BY AppendAdds
    <3> QED
      BY <1>4, <2>1, <3>1, <3>2 DEF Injects
  <2> QED
    BY <1>1, <1>2, <2>3
<1>5. ASSUME NEW m \in OwnWords, Says(m), run'.fresh = Append(run.fresh, m)
      PROVE  ToSet(run'.fresh) \cap Users \subseteq Given'
  <2>1. m \in Known /\ m \notin Users
    BY WordsKnown DEF AgentInv
  <2>2. m \in Anything
    BY <2>1, UserIs DEF Known, Anything, Given
  <2>3. ToSet(run'.fresh) = ToSet(run.fresh) \cup {m}
    <3>1. PICK f \in Seq(Anything), e \in Anything : f = run.fresh /\ e = m
      BY <1>0, <2>2, Fields
    <3>2. ToSet(Append(f, e)) = ToSet(f) \cup {e}
      BY AppendAdds
    <3> QED
      BY <1>5, <3>1, <3>2
  <2> QED
    BY <1>2, <2>1, <2>3
<1>6. CASE Keeps
  <2>1. run'.fresh = run.fresh \o run.results
    BY <1>6 DEF Keeps
  <2>2. PICK r \in Seq(Anything) : r = run.results /\ ToSet(r) \subseteq Results
    BY <1>0, Fields, SequencesAre
  <2>3. ToSet(run'.fresh) = ToSet(run.fresh) \cup ToSet(r)
    BY <1>0, <2>1, <2>2, Fields, Joins
  <2>4. ToSet(r) \cap Users = {}
    BY <2>2 DEF Results, Users
  <2> QED
    BY <1>2, <2>3, <2>4
<1> QED
  BY <1>0, <1>3, <1>4, <1>5, <1>6
     DEF Moves, Rests, Clears, Prepares, Ends, Gives, Polls, Prompts, Begins, Drains, Says, LineKept

LEMMA CarriedIs == Carried = ToSet(run.toEmit) \cup ToSet(run.pending)
                   /\ Carried' = ToSet(run'.toEmit) \cup ToSet(run'.pending)
BY DEF Carried

LEMMA RunInTurnKept == AgentInv /\ OrderInv /\ Next => RunInTurn'
<1> SUFFICES ASSUME AgentInv, OrderInv, Next
             PROVE  RunInTurn'
  OBVIOUS
<1>0. Shapes /\ GivenInv /\ TurnInv /\ Moves /\ WaitInTurn /\ RunInTurn
  BY AllMoves, OrderParts DEF AgentInv, TalkInv
<1>1. ASSUME NEW F, NEW C, F = ToSet(run'.fresh), C = Carried',
             InTurn(run'.fresh), InTurn(run'.toEmit), InTurn(run'.pending), Earlier(F, C),
             \A q \in Queues : Earlier(F, ToSet(queue'[q])) /\ Earlier(C, ToSet(queue'[q]))
      PROVE  RunInTurn'
  BY <1>1, EarlierParts DEF RunInTurn
<1> DEFINE F == ToSet(run.fresh)
<1>2. /\ InTurn(run.fresh) /\ InTurn(run.toEmit) /\ InTurn(run.pending) /\ Earlier(F, Carried)
      /\ \A q \in Queues : Earlier(F, ToSet(queue[q])) /\ Earlier(Carried, ToSet(queue[q]))
  <2>1. \A q \in Queues : Earlier(F \cup Carried, ToSet(queue[q]))
    BY <1>0 DEF RunInTurn
  <2>2. \A q \in Queues : Earlier(F, ToSet(queue[q])) /\ Earlier(Carried, ToSet(queue[q]))
    BY <2>1 DEF Earlier
  <2> QED
    BY <1>0, <2>2 DEF RunInTurn
<1>3. CASE LineKept /\ \A q \in Queues : ToSet(queue'[q]) \subseteq ToSet(queue[q])
  <2>1. run'.fresh = run.fresh /\ run'.toEmit = run.toEmit /\ run'.pending = run.pending /\ Carried' = Carried
    BY <1>3, CarriedIs DEF LineKept
  <2>2. \A q \in Queues : Earlier(F, ToSet(queue'[q])) /\ Earlier(Carried, ToSet(queue'[q]))
    BY <1>2, <1>3 DEF Earlier
  <2> QED
    BY <1>1, <1>2, <2>1, <2>2
<1>4. CASE LineKept /\ UNCHANGED queue
  BY <1>3, <1>4
<1>5. ASSUME NEW q \in Queues, Gives(q)
      PROVE  RunInTurn'
  <2>1. run'.fresh = run.fresh /\ run'.toEmit = run.toEmit /\ run'.pending = run.pending /\ Carried' = Carried
    BY <1>5, CarriedIs DEF Gives, LineKept
  <2>2. PICK e \in Users : e = Input(q, sent[q] + 1)
    BY <1>0, InputIs DEF Shapes, AllWays, Queues
  <2>3. F \cap Users \subseteq Given /\ Carried \subseteq Given
    <3>1. ToSet(run.toEmit) \subseteq Given /\ ToSet(run.pending) \subseteq Polled
      BY <1>0, SequencesAre DEF GivenInv
    <3> QED
      BY <3>1 DEF OrderInv, Carried, Polled, GivenBy
  <2>4. Earlier(F, {e}) /\ Earlier(Carried, {e})
    BY <1>0, <2>2, <2>3, NextIsLater DEF AllWays, Queues
  <2>5. ToSet(Append(queue[q], e)) = ToSet(queue[q]) \cup {e}
    <3>1. PICK s \in Seq(Users) : s = queue[q]
      BY <1>0, Fields
    <3>2. ToSet(Append(s, e)) = ToSet(s) \cup {e}
      BY AppendAdds
    <3> QED
      BY <3>1, <3>2
  <2>6. \A p \in Queues : ToSet(queue'[p]) \subseteq ToSet(queue[p]) \cup {e}
    BY <1>0, <1>5, <2>2, <2>5 DEF Gives, Shapes
  <2>7. \A p \in Queues : Earlier(F, ToSet(queue'[p])) /\ Earlier(Carried, ToSet(queue'[p]))
    BY <1>2, <2>4, <2>6 DEF Earlier
  <2> QED
    BY <1>1, <1>2, <2>1, <2>7
<1>6. ASSUME NEW c \in Caller, NEW q \in Queues, Drains(c, q)
      PROVE  RunInTurn'
  BY <1>0, <1>3, <1>6, PollOrder DEF Drains, WaitInTurn
<1>7. CASE Clears
  <2>1. LineKept /\ \A q \in Queues : queue'[q] = <<>>
    BY <1>7 DEF Clears
  <2> QED
    BY <1>3, <2>1, Shortest
<1>8. ASSUME NEW q \in Queues, Taken(q)
      PROVE  /\ InTurn(Drained(q)) /\ Earlier(F, ToSet(Drained(q)))
             /\ \A p \in Queues : Earlier(F, ToSet(queue'[p])) /\ Earlier(ToSet(Drained(q)), ToSet(queue'[p]))
  <2>1. /\ InTurn(Drained(q)) /\ ToSet(Drained(q)) \subseteq ToSet(queue[q])
        /\ \A p \in Queues : /\ ToSet(queue'[p]) \subseteq ToSet(queue[p])
                             /\ Earlier(ToSet(Drained(q)), ToSet(queue'[p]))
    BY <1>0, <1>8, PollOrder DEF WaitInTurn
  <2>2. Earlier(F, ToSet(Drained(q))) /\ \A p \in Queues : Earlier(F, ToSet(queue'[p]))
    BY <1>2, <2>1 DEF Earlier
  <2> QED
    BY <2>1, <2>2
<1>9. ASSUME NEW q \in Queues, Polls(q)
      PROVE  RunInTurn'
  <2>1. /\ run'.fresh = run.fresh /\ run'.toEmit = <<>> /\ run'.pending = Drained(q) /\ Taken(q)
        /\ Carried' = ToSet(Drained(q))
    BY <1>9, CarriedIs, Shortest DEF Polls
  <2> QED
    BY <1>1, <1>2, <1>8, <2>1, Shortest
<1>10. CASE Injects
  <2>1. run.toEmit \in Seq(Users) /\ run.toEmit # <<>> /\ run.fresh \in Seq(Anything)
        /\ run'.toEmit = Tail(run.toEmit) /\ run'.fresh = Append(run.fresh, Head(run.toEmit))
        /\ run.pending = <<>> /\ run'.pending = <<>> /\ UNCHANGED queue
    BY <1>0, <1>10, Fields DEF Injects
  <2>2. PICK h \in Users : h = Head(run.toEmit)
    BY <2>1
  <2>3. ToSet(run.toEmit) = {h} \cup ToSet(Tail(run.toEmit)) /\ InTurn(Tail(run.toEmit))
        /\ Earlier({h}, ToSet(Tail(run.toEmit)))
    BY <1>2, <2>1, <2>2, HeadJoins
  <2>4. Carried = {h} \cup ToSet(Tail(run.toEmit)) /\ Carried' = ToSet(Tail(run.toEmit))
    BY <2>1, <2>3, CarriedIs, Shortest
  <2>5. Earlier(F, {h}) /\ Earlier(F, Carried')
    BY <1>2, <2>4 DEF Earlier
  <2>6. ToSet(run'.fresh) = F \cup {h} /\ InTurn(run'.fresh)
    <3>1. h \in Anything
      BY UserIs
    <3>2. /\ ToSet(Append(run.fresh, h)) = F \cup {h}
          /\ InTurn(Append(run.fresh, h)) <=> InTurn(run.fresh) /\ Earlier(F, {h})
      BY <2>1, <3>1, AppendJoins
    <3> QED
      BY <1>2, <2>1, <2>2, <2>5, <3>2
  <2>7. Earlier(F \cup {h}, Carried')
    BY <2>3, <2>4, <2>5 DEF Earlier
  <2>8. \A q \in Queues : Earlier(F \cup {h}, ToSet(queue'[q])) /\ Earlier(Carried', ToSet(queue'[q]))
    BY <1>2, <2>1, <2>4 DEF Earlier
  <2> QED
    BY <1>1, <2>1, <2>3, <2>6, <2>7, <2>8, Shortest
<1>11. ASSUME NEW s \in Seq(Anything), ToSet(s) \cap Users = {}, InTurn(s), run'.fresh = run.fresh \o s,
              run'.toEmit = run.toEmit, run'.pending = run.pending, UNCHANGED queue
       PROVE  RunInTurn'
  <2>1. ToSet(run'.fresh) = F \cup ToSet(s) /\ (InTurn(run'.fresh) <=> InTurn(run.fresh) /\ InTurn(s) /\ Earlier(F, ToSet(s)))
    BY SMTT(30), <1>0, <1>11, Fields, Joins
  <2>2. \A T : Earlier(ToSet(s), T) /\ Earlier(T, ToSet(s))
    BY <1>11 DEF Earlier
  <2>3. Carried' = Carried
    BY <1>11, CarriedIs
  <2>4. Earlier(F \cup ToSet(s), Carried) /\ \A q \in Queues : Earlier(F \cup ToSet(s), ToSet(queue[q]))
    BY <1>2, <2>2 DEF Earlier
  <2> QED
    BY <1>1, <1>2, <1>11, <2>1, <2>2, <2>3, <2>4
<1>12. CASE Keeps
  <2>1. ToSet(run.results) \subseteq Results /\ run.results \in Seq(Anything) /\ run.results \in Seq(Results)
    BY <1>0, Fields, SequencesAre
  <2>2. ToSet(run.results) \cap Users = {}
    BY <2>1 DEF Results, Users
  <2>3. InTurn(run.results)
    <3>1. \A i \in DOMAIN run.results : run.results[i] \notin Users
      BY <2>1 DEF Results, Users
    <3> QED
      BY <3>1 DEF InTurn
  <2> QED
    BY <1>11, <1>12, <2>1, <2>2, <2>3 DEF Keeps
<1>13. ASSUME NEW m \in OwnWords, Says(m)
       PROVE  RunInTurn'
  <2>1. m \in Known /\ m \notin Users
    BY <1>0, WordsKnown DEF AgentInv
  <2>2. m \in Anything
    BY <2>1, UserIs DEF Known, Anything, Given
  <2>3. PICK s \in Seq(Anything) : s = <<m>>
    <3>1. <<m>> \in Seq(Anything)
      BY <2>2
    <3> QED
      BY <3>1
  <2>4. ToSet(s) = {m} /\ InTurn(s)
    BY <2>3, Shortest
  <2>5. Append(run.fresh, m) = run.fresh \o s
    <3>1. PICK f \in Seq(Anything) : f = run.fresh
      BY <1>0, Fields
    <3>2. Append(f, m) = f \o <<m>>
      BY <2>2, JoinedLast
    <3> QED
      BY <2>3, <3>1, <3>2
  <2> QED
    BY <1>4, <1>11, <1>13, <2>1, <2>4, <2>5 DEF Says, LineKept
<1>14. CASE Ends
  <2>1. run'.fresh = <<>> /\ run'.toEmit = <<>> /\ run'.pending = <<>> /\ Carried' = {}
    BY <1>14, CarriedIs, Shortest DEF Ends
  <2>2. \A T : Earlier({}, T)
    BY DEF Earlier
  <2> QED
    BY <1>1, <2>1, <2>2, Shortest
<1>15. ASSUME NEW c \in Caller, Begins(c)
       PROVE  RunInTurn'
  <2>1. CASE LineKept
    BY <1>4, <1>15, <2>1 DEF Begins
  <2>2. CASE run'.fresh = <<>> /\ run'.toEmit = caller[c].hand /\ run'.pending = <<>>
    <3>1. Carried' = ToSet(caller[c].hand)
      BY <2>2, CarriedIs, Shortest
    <3>2. \A T : Earlier({}, T)
      BY DEF Earlier
    <3>3. InTurn(caller[c].hand) /\ \A q \in Queues : Earlier(ToSet(caller[c].hand), ToSet(queue'[q]))
      BY <1>0, <1>15 DEF WaitInTurn, Begins
    <3> QED
      BY <1>1, <2>2, <3>1, <3>2, <3>3, Shortest
  <2> QED
    BY <1>15, <2>1, <2>2 DEF Begins
<1>16. CASE Prepares
  <2>0. /\ run.toEmit = <<>> /\ run'.pending = <<>> /\ run'.fresh = run.fresh
        /\ Carried = ToSet(run.pending) /\ Carried' = ToSet(run'.toEmit)
    BY <1>16, CarriedIs, Shortest DEF Prepares
  <2>1. PICK t \in Seq(Users) :
          /\ \/ t = run.pending /\ UNCHANGED queue
             \/ t = Drained("steer") /\ Taken("steer")
          /\ \/ run'.toEmit = t
             \/ run'.toEmit = Handed \o t /\ sent' = [sent EXCEPT !["prepared"] = sent["prepared"] + 1]
    <3>1. Drained("steer") \in Seq(Users) /\ run.pending \in Seq(Users)
      BY <1>0, DrainIs, Fields DEF Shapes, Queues
    <3> QED
      BY <1>16, <3>1 DEF Prepares
  <2>2. /\ InTurn(t) /\ Earlier(F, ToSet(t))
        /\ \A p \in Queues : Earlier(F, ToSet(queue'[p])) /\ Earlier(ToSet(t), ToSet(queue'[p]))
    <3>1. CASE t = run.pending /\ UNCHANGED queue
      BY <1>2, <2>0, <3>1
    <3>2. CASE t = Drained("steer") /\ Taken("steer")
      BY <1>8, <3>2 DEF Queues
    <3> QED
      BY <2>1, <3>1, <3>2
  <2>3. CASE run'.toEmit = t
    BY <1>1, <1>2, <2>0, <2>2, <2>3, Shortest
  <2>4. CASE run'.toEmit = Handed \o t /\ sent' = [sent EXCEPT !["prepared"] = sent["prepared"] + 1]
    <3>1. PICK e \in Users : e = Input("prepared", sent["prepared"] + 1)
      BY <1>0, InputIs DEF Shapes, AllWays
    <3>2. PICK h \in Seq(Users) : h = <<e>>
      BY SequencesAre
    <3>3. ToSet(h) = {e} /\ InTurn(h) /\ Handed = h
      BY <3>1, <3>2, Shortest DEF Handed
    <3>4. ToSet(t) \subseteq Polled /\ \A p \in Queues : ToSet(queue'[p]) \subseteq Polled
      <4>1. ToSet(run.pending) \subseteq Polled /\ \A q \in Queues : ToSet(queue[q]) \subseteq GivenBy(q)
        BY <1>0, SequencesAre DEF GivenInv
      <4>2. \A q \in Queues : ToSet(queue[q]) \subseteq Polled
        BY <4>1 DEF Polled, Queues
      <4>3. Taken("steer") => ToSet(Drained("steer")) \subseteq ToSet(queue["steer"])
                              /\ \A p \in Queues : ToSet(queue'[p]) \subseteq ToSet(queue[p])
        BY <1>0, PollOrder DEF WaitInTurn, Queues
      <4> QED
        BY <2>1, <4>1, <4>2, <4>3 DEF Queues
    <3>5. e.way = "prepared" /\ \A m \in Polled : m.way \in Queues
      BY <3>1 DEF Input, Polled, GivenBy, Queues
    <3>6. \A T : T \subseteq Polled => Earlier({e}, T)
      BY <3>5 DEF Earlier, Queues
    <3>7. Earlier({e}, ToSet(t)) /\ \A p \in Queues : Earlier({e}, ToSet(queue'[p]))
      BY <3>4, <3>6
    <3>8. ToSet(run'.toEmit) = {e} \cup ToSet(t) /\ InTurn(run'.toEmit)
      <4>1. /\ ToSet(h \o t) = ToSet(h) \cup ToSet(t)
            /\ InTurn(h \o t) <=> InTurn(h) /\ InTurn(t) /\ Earlier(ToSet(h), ToSet(t))
        BY Joins
      <4>2. run'.toEmit = h \o t
        BY <2>4, <3>3
      <4> QED
        BY <2>2, <3>3, <3>7, <4>1, <4>2
    <3>9. Earlier(F, {e})
      BY <1>0, <3>1, NextIsLater DEF OrderInv, AllWays
    <3>10. Earlier(F, {e} \cup ToSet(t)) /\ \A p \in Queues : Earlier({e} \cup ToSet(t), ToSet(queue'[p]))
      BY <2>2, <3>7, <3>9, EarlierParts
    <3> QED
      BY <1>1, <1>2, <2>0, <2>2, <3>8, <3>10, Shortest
  <2> QED
    BY <2>1, <2>3, <2>4
<1> QED
  BY <1>0, <1>4, <1>5, <1>6, <1>7, <1>9, <1>10, <1>12, <1>13, <1>14, <1>15, <1>16
     DEF Moves, Rests, Prompts

LEMMA OrderInvKept == AgentInv /\ OrderInv /\ Next => OrderInv'
BY WaitInTurnKept, RunInTurnKept, FreshGiven, OrderParts DEF OrderInv, WaitInTurn, RunInTurn

-----------------------------------------------------------------------------
(* Where the messages are.                                                 *)

Told == {m \in Users : m \in ToSet(messages)}
Queued == ToSet(queue["steer"]) \cup ToSet(queue["followUp"])
InHand(c) == ToSet(caller[c].hand)

OnceTold == \A i, j \in DOMAIN messages : messages[i] \in Users /\ messages[i] = messages[j] => i = j

Apart ==
  /\ Told \cap Queued = {} /\ Told \cap Carried = {} /\ Queued \cap Carried = {}
  /\ \A c \in Caller : InHand(c) \cap (Told \cup Queued \cup Carried) = {}
  /\ \A c, d \in Caller : c # d => InHand(c) \cap InHand(d) = {}

Somewhere ==
  \A m \in Given : m \in dropped \cup Told \cup Queued \cup Carried \/ \E c \in Caller : m \in InHand(c)

PlacesInv == OnceTold /\ Apart /\ Somewhere

LEMMA PlacesGiven ==
  GivenInv => Told \cup Queued \cup Carried \subseteq Given /\ \A c \in Caller : InHand(c) \subseteq Given
<1> SUFFICES ASSUME GivenInv
             PROVE  Told \cup Queued \cup Carried \subseteq Given /\ \A c \in Caller : InHand(c) \subseteq Given
  OBVIOUS
<1>1. ToSet(messages) \subseteq Known
  BY SequencesAre DEF GivenInv
<1>2. Told \subseteq Given
  BY <1>1 DEF Told, Known, Users, Answered, Results
<1>3. \A q \in Queues : ToSet(queue[q]) \subseteq GivenBy(q)
  BY SequencesAre DEF GivenInv
<1>4. Queued \subseteq Given
  BY <1>3 DEF Queued, GivenBy, Queues
<1>5. ToSet(run.toEmit) \subseteq Given /\ ToSet(run.pending) \subseteq Polled
  BY SequencesAre DEF GivenInv
<1>6. Carried \subseteq Given
  BY <1>5 DEF Carried, Polled, GivenBy
<1>7. \A c \in Caller : InHand(c) \subseteq Given
  BY SequencesAre DEF GivenInv, InHand
<1> QED
  BY <1>2, <1>4, <1>6, <1>7

LEMMA TakenSplits ==
  ASSUME Shapes, GivenInv, NEW q \in Queues, Taken(q), \A p \in Queues : InTurn(queue[p])
  PROVE  /\ Queued = ToSet(Drained(q)) \cup Queued'
         /\ ToSet(Drained(q)) \cap Queued' = {}
<1>1. /\ ToSet(queue[q]) = ToSet(Drained(q)) \cup ToSet(Kept(q))
      /\ queue[q] \in Seq(Users) /\ \A p \in Queues : queue'[p] = IF p = q THEN Kept(q) ELSE queue[p]
  BY Fields, DrainInTurn DEF Taken, Shapes
<1>2. Queued = ToSet(Drained(q)) \cup Queued'
  BY <1>1 DEF Queued, Queues
<1>3. \A p \in Queues : Earlier(ToSet(Drained(q)), ToSet(queue'[p]))
  BY PollOrder
<1>4. ToSet(Drained(q)) \subseteq Users
  <2>1. ToSet(queue[q]) \subseteq Users
    BY <1>1, SequencesAre
  <2> QED
    BY <1>1, <2>1
<1>5. \A p \in Queues, m \in ToSet(Drained(q)) : m \notin ToSet(queue'[p])
  <2>1. ASSUME NEW p \in Queues, NEW m \in ToSet(Drained(q)), m \in ToSet(queue'[p])
        PROVE  FALSE
    <3>1. m \in Users /\ m.n < m.n
      BY <1>3, <1>4, <2>1 DEF Earlier
    <3>2. m.n \in Nat
      BY <3>1 DEF Users
    <3> QED
      BY <3>1, <3>2
  <2> QED
    BY <2>1
<1>6. ToSet(Drained(q)) \cap Queued' = {}
  BY <1>5 DEF Queued, Queues
<1> QED
  BY <1>2, <1>6

LEMMA OnceToldKept == AgentInv /\ OrderInv /\ PlacesInv /\ Next => OnceTold'
<1> SUFFICES ASSUME AgentInv, OrderInv, PlacesInv, Next
             PROVE  OnceTold'
  OBVIOUS
<1>0. Shapes /\ TurnInv /\ GivenInv /\ Moves
  BY AllMoves DEF AgentInv, TalkInv
<1>1. PICK s \in Seq(Anything) : s = messages
  BY <1>0 DEF Shapes
<1>2. ASSUME NEW e \in Anything, e \in Users => e \notin Told, messages' = Append(s, e)
      PROVE  OnceTold'
  <2>1. PICK n \in Nat : n = Len(s) /\ DOMAIN s = 1..n
    OBVIOUS
  <2>2. /\ DOMAIN messages' = 1..(n + 1) /\ messages'[n + 1] = e
        /\ \A i \in 1..n : messages'[i] = s[i]
    BY <1>2, <2>1
  <2>3. \A i \in 1..n : e \in Users => s[i] # e
    BY <1>1, <1>2, <2>1 DEF Told, ToSet
  <2>4. \A i \in 1..(n + 1) : i \in 1..n \/ i = n + 1
    BY <2>1
  <2>5. \A i, j \in 1..n : s[i] \in Users /\ s[i] = s[j] => i = j
    BY <1>1, <2>1 DEF PlacesInv, OnceTold
  <2> QED
    BY <2>2, <2>3, <2>4, <2>5 DEF OnceTold
<1>3. CASE messages' = messages \/ messages' = <<>>
  BY <1>3 DEF PlacesInv, OnceTold
<1>4. CASE Injects
  <2>1. PICK h \in Users : h = Head(run.toEmit)
    BY <1>0, <1>4, Fields, SequencesAre DEF Injects
  <2>2. h \in Carried
    <3>1. ToSet(run.toEmit) = {h} \cup ToSet(Tail(run.toEmit))
      BY <1>0, <1>4, <2>1, Fields, HeadJoins DEF Injects
    <3> QED
      BY <3>1 DEF Carried
  <2>3. h \notin Told /\ h \in Anything
    BY <2>2, UserIs DEF PlacesInv, Apart
  <2> QED
    BY <1>1, <1>2, <1>4, <2>1, <2>3 DEF Injects
<1>5. ASSUME NEW m \in OwnWords, Says(m)
      PROVE  OnceTold'
  <2>1. m \in Known /\ m \notin Users
    BY <1>0, WordsKnown DEF AgentInv
  <2>2. m \in Anything
    BY <2>1, UserIs DEF Known, Anything, Given
  <2> QED
    BY <1>1, <1>2, <1>5, <2>1, <2>2 DEF Says
<1> QED
  BY <1>0, <1>3, <1>4, <1>5
     DEF Moves, Rests, Clears, Prepares, Keeps, Ends, Gives, Polls, Prompts, Begins, Drains

\* What the steps do to the places.
LEMMA PlacesMove ==
  ASSUME Shapes
  PROVE  /\ HandsKept => \A c \in Caller : InHand(c)' = InHand(c)
         /\ LineKept => Carried' = Carried
         /\ UNCHANGED messages => Told' = Told
         /\ UNCHANGED queue => Queued' = Queued
         /\ UNCHANGED sent => Given' = Given
<1>1. HandsKept => \A c \in Caller : InHand(c)' = InHand(c)
  BY DEF HandsKept, InHand
<1>2. LineKept => Carried' = Carried
  BY DEF LineKept, Carried
<1>3. UNCHANGED messages => Told' = Told
  BY DEF Told
<1>4. UNCHANGED queue => Queued' = Queued
  BY DEF Queued
<1>5. UNCHANGED sent => Given' = Given
  BY DEF Given
<1> QED
  BY <1>1, <1>2, <1>3, <1>4, <1>5

LEMMA PlacesKept == AgentInv /\ OrderInv /\ PlacesInv /\ Next => Apart' /\ Somewhere'
<1> SUFFICES ASSUME AgentInv, OrderInv, PlacesInv, Next
             PROVE  Apart' /\ Somewhere'
  OBVIOUS
<1>0. Shapes /\ TurnInv /\ GivenInv /\ Moves /\ \A p \in Queues : InTurn(queue[p])
  BY AllMoves DEF AgentInv, TalkInv, OrderInv
<1>1. /\ HandsKept => \A c \in Caller : InHand(c)' = InHand(c)
      /\ LineKept => Carried' = Carried
      /\ UNCHANGED messages => Told' = Told
      /\ UNCHANGED queue => Queued' = Queued
      /\ UNCHANGED sent => Given' = Given
  BY <1>0, PlacesMove
<1>2. Told \cup Queued \cup Carried \subseteq Given /\ \A c \in Caller : InHand(c) \subseteq Given
  BY <1>0, PlacesGiven
<1>3. Apart /\ Somewhere
  BY DEF PlacesInv
<1>4. \A q \in Queues : Taken(q) => /\ Queued = ToSet(Drained(q)) \cup Queued'
                                    /\ ToSet(Drained(q)) \cap Queued' = {}
  BY <1>0, TakenSplits
<1>5. CASE Rests
  BY <1>1, <1>3, <1>5 DEF Rests, Apart, Somewhere
<1>6. ASSUME NEW q \in Queues, Gives(q)
      PROVE  Apart' /\ Somewhere'
  <2>1. PICK e \in Users : e = Input(q, sent[q] + 1)
    BY <1>0, InputIs DEF Shapes, AllWays, Queues
  <2>2. e \notin Given /\ Given' = Given \cup {e}
    BY <1>0, <1>6, <2>1, NextGiven DEF Gives, AllWays, Queues
  <2>3. ToSet(Append(queue[q], e)) = ToSet(queue[q]) \cup {e}
    <3>1. PICK s \in Seq(Users) : s = queue[q]
      BY <1>0, Fields
    <3>2. ToSet(Append(s, e)) = ToSet(s) \cup {e}
      BY AppendAdds
    <3> QED
      BY <3>1, <3>2
  <2>4. \A p \in Queues : queue'[p] = IF p = q THEN Append(queue[q], e) ELSE queue[p]
    BY <1>0, <1>6, <2>1 DEF Gives, Shapes
  <2>5. Queued' = Queued \cup {e}
    BY <2>3, <2>4 DEF Queued, Queues
  <2>6. Told' = Told /\ Carried' = Carried /\ dropped' = dropped /\ \A c \in Caller : InHand(c)' = InHand(c)
    BY <1>1, <1>6 DEF Gives
  <2> QED
    BY <1>2, <1>3, <2>2, <2>5, <2>6 DEF Apart, Somewhere
<1>7. CASE Clears
  <2>1. Queued' = {}
    BY <1>7, Shortest DEF Clears, Queued, Queues
  <2>2. Carried' = Carried /\ Given' = Given /\ \A c \in Caller : InHand(c)' = InHand(c)
    BY <1>1, <1>7 DEF Clears
  <2>3. \/ dropped' = dropped \cup Queued /\ Told' = Told
        \/ dropped' = dropped \cup Queued \cup Told /\ Told' = {}
    <3>1. ToSet(messages) \cap Users = Told
      BY DEF Told
    <3>2. messages' = messages => Told' = Told
      BY DEF Told
    <3>3. messages' = <<>> => Told' = {}
      BY Shortest DEF Told
    <3> QED
      BY <1>7, <3>1, <3>2, <3>3 DEF Clears, Queued
  <2> QED
    BY <1>3, <2>1, <2>2, <2>3 DEF Apart, Somewhere
<1>8. ASSUME NEW c \in Caller, Prompts(c)
      PROVE  Apart' /\ Somewhere'
  <2>1. PICK e \in Users : e = Input("prompt", sent["prompt"] + 1)
    BY <1>0, InputIs DEF Shapes, AllWays
  <2>2. e \notin Given /\ Given' = Given \cup {e}
    BY <1>0, <1>8, <2>1, NextGiven DEF Prompts, AllWays
  <2>3. InHand(c)' = {e} /\ InHand(c) = {} /\ \A d \in Caller \ {c} : InHand(d)' = InHand(d)
    BY <1>8, <2>1, Shortest DEF Prompts, InHand
  <2>4. Told' = Told /\ Carried' = Carried /\ dropped' = dropped /\ Queued' = Queued
    BY <1>1, <1>8 DEF Prompts
  <2> QED
    BY <1>2, <1>3, <2>2, <2>3, <2>4 DEF Apart, Somewhere
<1>9. ASSUME NEW c \in Caller, NEW q \in Queues, Drains(c, q)
      PROVE  Apart' /\ Somewhere'
  <2>1. /\ InHand(c)' = ToSet(Drained(q)) /\ InHand(c) = {}
        /\ \A d \in Caller \ {c} : InHand(d)' = InHand(d)
    BY <1>9, Shortest DEF Drains, InHand
  <2>2. Told' = Told /\ Carried' = Carried /\ dropped' = dropped /\ Given' = Given
    BY <1>1, <1>9 DEF Drains
  <2>3. Queued = ToSet(Drained(q)) \cup Queued' /\ ToSet(Drained(q)) \cap Queued' = {}
    BY <1>4, <1>9 DEF Drains
  <2> QED
    BY <1>3, <2>1, <2>2, <2>3 DEF Apart, Somewhere
<1>10. ASSUME NEW c \in Caller, Begins(c)
       PROVE  Apart' /\ Somewhere'
  <2>1. InHand(c)' = {} /\ \A d \in Caller \ {c} : InHand(d)' = InHand(d)
    BY <1>10, Shortest DEF Begins, InHand
  <2>2. Told' = Told /\ Queued' = Queued /\ Given' = Given
    BY <1>1, <1>10 DEF Begins
  <2>3. \/ Carried = {} /\ Carried' = InHand(c) /\ dropped' = dropped
        \/ Carried' = Carried /\ dropped' = dropped \cup InHand(c)
    BY <1>1, <1>10, CarriedIs, Shortest DEF Begins, InHand
  <2> QED
    BY <1>3, <2>1, <2>2, <2>3 DEF Apart, Somewhere
<1>11. ASSUME NEW q \in Queues, Polls(q)
       PROVE  Apart' /\ Somewhere'
  <2>1. Carried = {} /\ Carried' = ToSet(Drained(q))
    BY <1>11, CarriedIs, Shortest DEF Polls
  <2>2. /\ Told' = Told /\ Given' = Given /\ dropped' = dropped
        /\ \A c \in Caller : InHand(c)' = InHand(c)
    BY <1>1, <1>11 DEF Polls
  <2>3. Queued = ToSet(Drained(q)) \cup Queued' /\ ToSet(Drained(q)) \cap Queued' = {}
    BY <1>4, <1>11 DEF Polls
  <2> QED
    BY <1>3, <2>1, <2>2, <2>3 DEF Apart, Somewhere
<1>12. CASE Prepares
  <2>1. Carried = ToSet(run.pending) /\ Carried' = ToSet(run'.toEmit)
    BY <1>12, CarriedIs, Shortest DEF Prepares
  <2>2. Told' = Told /\ dropped' = dropped /\ \A c \in Caller : InHand(c)' = InHand(c)
    BY <1>1, <1>12 DEF Prepares
  <2>3. PICK t \in Seq(Users) :
          /\ \/ t = run.pending /\ UNCHANGED queue
             \/ t = Drained("steer") /\ Taken("steer") /\ run.pending = <<>>
          /\ \/ run'.toEmit = t /\ UNCHANGED sent
             \/ run'.toEmit = Handed \o t /\ sent' = [sent EXCEPT !["prepared"] = sent["prepared"] + 1]
    <3>1. Drained("steer") \in Seq(Users) /\ run.pending \in Seq(Users)
      BY <1>0, DrainIs, Fields DEF Shapes, Queues
    <3> QED
      BY <1>12, <3>1 DEF Prepares
  <2>4. \/ ToSet(t) = Carried /\ Queued' = Queued
        \/ Carried = {} /\ Queued = ToSet(t) \cup Queued' /\ ToSet(t) \cap Queued' = {}
    BY <1>1, <1>4, <2>1, <2>3, Shortest DEF Queues
  <2>5. CASE run'.toEmit = t /\ UNCHANGED sent
    <3>1. Carried' = ToSet(t) /\ Given' = Given
      BY <1>1, <2>1, <2>5
    <3> QED
      BY <1>3, <2>2, <2>4, <3>1 DEF Apart, Somewhere
  <2>6. CASE run'.toEmit = Handed \o t /\ sent' = [sent EXCEPT !["prepared"] = sent["prepared"] + 1]
    <3>1. PICK e \in Users : e = Input("prepared", sent["prepared"] + 1)
      BY <1>0, InputIs DEF Shapes, AllWays
    <3>2. e \notin Given /\ Given' = Given \cup {e}
      BY <1>0, <2>6, <3>1, NextGiven DEF AllWays
    <3>3. PICK h \in Seq(Users) : h = <<e>>
      BY SequencesAre
    <3>4. ToSet(h \o t) = ToSet(h) \cup ToSet(t)
      <4>1. /\ ToSet(h \o t) = ToSet(h) \cup ToSet(t)
            /\ InTurn(h \o t) <=> InTurn(h) /\ InTurn(t) /\ Earlier(ToSet(h), ToSet(t))
        BY Joins
      <4> QED
        BY <4>1
    <3>5. Handed = h /\ ToSet(h) = {e}
      BY <3>1, <3>3, Shortest DEF Handed
    <3>6. Carried' = {e} \cup ToSet(t)
      BY <2>1, <2>6, <3>4, <3>5
    <3> QED
      BY <1>2, <1>3, <2>2, <2>4, <3>2, <3>6 DEF Apart, Somewhere
  <2> QED
    BY <2>3, <2>5, <2>6
<1>13. CASE Injects
  <2>1. PICK h \in Users : h = Head(run.toEmit)
    BY <1>0, <1>13, Fields, SequencesAre DEF Injects
  <2>2. /\ ToSet(run.toEmit) = {h} \cup ToSet(Tail(run.toEmit))
        /\ Earlier({h}, ToSet(Tail(run.toEmit)))
    BY <1>0, <1>13, <2>1, Fields, HeadJoins DEF Injects, OrderInv
  <2>3. h \notin ToSet(Tail(run.toEmit))
    BY <2>1, <2>2 DEF Earlier, Users
  <2>4. Carried = {h} \cup ToSet(Tail(run.toEmit)) /\ Carried' = ToSet(Tail(run.toEmit))
    BY <1>13, <2>2, CarriedIs, Shortest DEF Injects
  <2>5. ToSet(messages') = ToSet(messages) \cup {h}
    <3>1. PICK s \in Seq(Anything), e \in Anything : s = messages /\ e = h
      BY <1>0, UserIs DEF Shapes
    <3>2. ToSet(Append(s, e)) = ToSet(s) \cup {e}
      BY AppendAdds
    <3> QED
      BY <1>13, <2>1, <3>1, <3>2 DEF Injects
  <2>6. Told' = Told \cup {h}
    BY <2>1, <2>5 DEF Told
  <2>7. Queued' = Queued /\ Given' = Given /\ dropped' = dropped /\ \A c \in Caller : InHand(c)' = InHand(c)
    BY <1>1, <1>13 DEF Injects
  <2> QED
    BY <1>3, <2>3, <2>4, <2>6, <2>7 DEF Apart, Somewhere
<1>14. ASSUME NEW m \in OwnWords, Says(m)
       PROVE  Apart' /\ Somewhere'
  <2>1. m \in Known /\ m \notin Users
    BY <1>0, WordsKnown DEF AgentInv
  <2>2. ToSet(messages') = ToSet(messages) \cup {m}
    <3>1. PICK s \in Seq(Anything), e \in Anything : s = messages /\ e = m
      BY <1>0, <2>1, UserIs DEF Shapes, Known, Anything, Given
    <3>2. ToSet(Append(s, e)) = ToSet(s) \cup {e}
      BY AppendAdds
    <3> QED
      BY <1>14, <3>1, <3>2 DEF Says
  <2>3. Told' = Told
    BY <2>1, <2>2 DEF Told
  <2>4. Queued' = Queued /\ Given' = Given /\ dropped' = dropped /\ \A c \in Caller : InHand(c)' = InHand(c)
    BY <1>1, <1>14 DEF Says
  <2>5. Carried' = Carried
    BY <1>14, CarriedIs DEF Says
  <2> QED
    BY <1>3, <2>3, <2>4, <2>5 DEF Apart, Somewhere
<1>15. CASE Keeps
  <2>1. Carried' = Carried
    BY <1>15, CarriedIs DEF Keeps
  <2> QED
    BY <1>1, <1>3, <1>15, <2>1 DEF Keeps, Apart, Somewhere
<1>16. CASE Ends
  <2>1. Carried' = {} /\ dropped' = dropped \cup Carried
    BY <1>16, CarriedIs, Shortest DEF Ends
  <2>2. Told' = Told /\ Queued' = Queued /\ Given' = Given /\ \A c \in Caller : InHand(c)' = InHand(c)
    BY <1>1, <1>16 DEF Ends
  <2> QED
    BY <1>3, <2>1, <2>2 DEF Apart, Somewhere
<1> QED
  BY <1>0, <1>5, <1>6, <1>7, <1>8, <1>9, <1>10, <1>11, <1>12, <1>13, <1>14, <1>15, <1>16 DEF Moves

PlacedInv == AgentInv /\ OrderInv /\ PlacesInv

LEMMA PlacedInit == Init => PlacedInv
<1> SUFFICES ASSUME Init PROVE PlacedInv
  OBVIOUS
<1>1. AgentInv
  BY AgentInvInit
<1>2. /\ run.toEmit = <<>> /\ run.pending = <<>> /\ run.fresh = <<>> /\ messages = <<>>
      /\ \A q \in Queues : queue[q] = <<>>
      /\ \A c \in Caller : caller[c].hand = <<>>
  BY RunEmpty DEF Init, Queues, Idle
<1>3. Carried = {}
  BY <1>2, CarriedIs, Shortest
<1>4. \A T : Earlier({}, T)
  BY DEF Earlier
<1>5. OrderInv
  BY ZenonT(60), <1>2, <1>3, <1>4, Shortest DEF OrderInv
<1>6. Told = {} /\ Queued = {} /\ \A c \in Caller : InHand(c) = {}
  BY <1>2, Shortest DEF Told, Queued, InHand, Queues
<1>7. Given = {}
  <2>1. \A w \in AllWays : sent[w] = 0
    BY RestIs DEF Init
  <2> QED
    BY <2>1 DEF Given, Users
<1>8. PlacesInv
  BY <1>2, <1>3, <1>6, <1>7 DEF PlacesInv, OnceTold, Apart, Somewhere
<1> QED
  BY <1>1, <1>5, <1>8 DEF PlacedInv

LEMMA PlacedKept == PlacedInv /\ [Next]_vars => PlacedInv'
<1> SUFFICES ASSUME PlacedInv, [Next]_vars
             PROVE  PlacedInv'
  OBVIOUS
<1>1. AgentInv'
  BY AgentInvKept DEF PlacedInv
<1>2. CASE Next
  BY <1>1, <1>2, OrderInvKept, OnceToldKept, PlacesKept DEF PlacedInv, PlacesInv
<1>3. CASE UNCHANGED vars
  <2>1. UNCHANGED <<messages, queue, caller, run, sent, dropped>>
    BY <1>3 DEF vars, agentVars
  <2>2. UNCHANGED <<Told, Queued, Carried, Given>> /\ \A c \in Caller : InHand(c)' = InHand(c)
    BY <2>1 DEF Told, Queued, Carried, Given, InHand
  <2>3. OrderInv'
    BY <2>1, <2>2 DEF PlacedInv, OrderInv
  <2>4. PlacesInv'
    BY <2>1, <2>2 DEF PlacedInv, PlacesInv, OnceTold, Apart, Somewhere
  <2> QED
    BY <1>1, <2>3, <2>4 DEF PlacedInv
<1> QED
  BY <1>2, <1>3

THEOREM PlacedHolds == Spec => []PlacedInv
BY PlacedInit, PlacedKept, PTL DEF Spec

\* A message is in one place.
LEMMA HeldOnce ==
  ASSUME PlacedInv, NEW m \in Given, m \notin dropped
  PROVE  Held(m) = 1
<1>0. Shapes /\ GivenInv /\ PlacesInv /\ m \in Users
  BY DEF PlacedInv, AgentInv, TalkInv, Given
<1> DEFINE spots == {i \in DOMAIN messages : messages[i] = m}
           hands == {c \in Caller : m \in ToSet(caller[c].hand)}
<1>1. (\E q \in DOMAIN queue : m \in ToSet(queue[q])) <=> m \in Queued
  BY <1>0 DEF Shapes, Queued, Queues
<1>2. IF m \in Told THEN \E i : spots = {i} ELSE spots = {}
  <2>1. m \in Told <=> \E i \in DOMAIN messages : messages[i] = m
    BY <1>0 DEF Told, ToSet
  <2>2. \A i, j \in spots : i = j
    BY <1>0 DEF PlacesInv, OnceTold
  <2>3. CASE m \in Told
    <3>1. PICK i : i \in spots
      BY <2>1, <2>3
    <3>2. spots = {i}
      BY <2>2, <3>1
    <3> QED
      BY <2>3, <3>2
  <2>4. CASE m \notin Told
    BY <2>1, <2>4
  <2> QED
    BY <2>3, <2>4
<1>3. IF \E c \in Caller : m \in InHand(c) THEN \E c : hands = {c} ELSE hands = {}
  <2>1. \A c, d \in hands : c = d
    BY <1>0 DEF PlacesInv, Apart, InHand
  <2>2. ASSUME NEW c \in Caller, m \in InHand(c)
        PROVE  hands = {c}
    BY <2>1, <2>2 DEF InHand
  <2>3. ASSUME ~\E c \in Caller : m \in InHand(c)
        PROVE  hands = {}
    BY <2>3 DEF InHand
  <2> QED
    BY <2>2, <2>3
<1>4. Cardinality(spots) = IF m \in Told THEN 1 ELSE 0
  BY <1>2, FS_EmptySet, FS_Singleton
<1>5. Cardinality(hands) = IF \E c \in Caller : m \in InHand(c) THEN 1 ELSE 0
  BY <1>3, FS_EmptySet, FS_Singleton
<1>6. /\ m \in Told \/ m \in Queued \/ m \in Carried \/ \E c \in Caller : m \in InHand(c)
      /\ ~(m \in Told /\ m \in Queued) /\ ~(m \in Told /\ m \in Carried) /\ ~(m \in Queued /\ m \in Carried)
      /\ (\E c \in Caller : m \in InHand(c)) => m \notin Told /\ m \notin Queued /\ m \notin Carried
  BY <1>0 DEF PlacesInv, Apart, Somewhere
<1>7. Held(m) = Cardinality(spots) + (IF m \in Queued THEN 1 ELSE 0) + Cardinality(hands)
                + (IF m \in Carried THEN 1 ELSE 0)
  BY <1>1 DEF Held
<1> HIDE DEF spots, hands
<1> QED
  BY <1>4, <1>5, <1>6, <1>7

\* A message that was given is in one place, a queue, the hand of a caller,
\* the run or the transcript, until something throws it away; and a run takes
\* what came one way in the order it came (PendingMessageQueue::drain,
\* continue_turn and run_loop), whatever panics and whatever is dropped.
THEOREM MessagesStay == Spec => []MessagesKept
<1>1. ASSUME PlacedInv PROVE MessagesKept
  <2>1. ASSUME NEW w \in Ways, NEW n \in 1..sent[w], Input(w, n) \notin dropped
        PROVE  Held(Input(w, n)) = 1
    <3>1. w \in AllWays /\ sent[w] \in Nat
      BY <1>1, RestIs DEF PlacedInv, AgentInv, TalkInv, Shapes
    <3>2. PICK m \in Users : m = Input(w, n)
      BY <3>1, InputIs
    <3>3. m.way = w /\ m.n = n
      BY <3>2 DEF Input
    <3>4. m \in Given
      BY <3>3 DEF Given
    <3> QED
      BY <1>1, <2>1, <3>2, <3>4, HeldOnce
  <2>2. ASSUME NEW i \in DOMAIN run.fresh, NEW j \in DOMAIN run.fresh,
               i < j, run.fresh[i].role = "user", run.fresh[j].role = "user",
               run.fresh[i].way = run.fresh[j].way
        PROVE  run.fresh[i].n < run.fresh[j].n
    <3>1. run.fresh \in Seq(Anything)
      BY <1>1, Fields DEF PlacedInv, AgentInv, TalkInv
    <3>2. run.fresh[i] \in Anything /\ run.fresh[j] \in Anything
      BY <3>1
    <3>3. run.fresh[i] \in Users /\ run.fresh[j] \in Users
      BY <2>2, <3>2 DEF Anything, Answered, Results, System
    <3> QED
      BY <1>1, <2>2, <3>3 DEF PlacedInv, OrderInv, InTurn
  <2> QED
    BY <2>1, <2>2 DEF MessagesKept
<1> QED
  BY <1>1, PlacedHolds, PTL

-----------------------------------------------------------------------------
(* Every call of an answer has its one result, right behind the answer.    *)

\* What a result follows: its answer, and the results of the calls before it.
PairedAt(s, j) ==
  \E i \in 1..(j - 1) :
    /\ s[i].role = "assistant" /\ s[i].turn = s[j].turn
    /\ s[j].call <= s[i].calls /\ j = i + s[j].call
    /\ \A k \in 1..s[j].call : s[i + k] = Result(s[j].turn, k)
Paired(s) == \A j \in DOMAIN s : s[j].role = "toolResult" => PairedAt(s, j)

\* Answers of different requests differ, those the host makes up (turn 0) have
\* no calls, and an answer that is about to come is a new one.
Distinct(s) ==
  \A i, j \in DOMAIN s :
    s[i].role = "assistant" /\ s[j].role = "assistant" /\ s[i].turn = s[j].turn /\ s[i].turn # 0 => i = j
Blank(s) == \A i \in DOMAIN s : s[i].role = "assistant" /\ s[i].turn = 0 => s[i].calls = 0
Before(s, t) == \A i \in DOMAIN s : s[i].role = "assistant" => s[i].turn < t

\* The answers behind the first b messages are answered, but for the one at n.
Full(s, i) == \A k \in 1..s[i].calls : i + k <= Len(s) /\ s[i + k] = Result(s[i].turn, k)
FullBut(s, b, n) ==
  \A i \in DOMAIN s : i > b /\ i # n /\ s[i].role = "assistant" => Full(s, i)

\* A batch with l results: calls are started in their order, and the first l
\* of them are done.
InBatch(b, l, parallel) ==
  /\ l <= Len(b)
  /\ \A k \in DOMAIN b : b[k] = "done" <=> k <= l
  /\ \A j, k \in DOMAIN b : j < k /\ b[k] # "unseen" => b[j] # "unseen"
  /\ \A j, k \in DOMAIN b : b[j] = "started" /\ b[k] = "started" => j = k
  /\ ~parallel => \A k \in DOMAIN b : b[k] \in {"unseen", "started", "done"}

Open == IF run.pc \in Batching THEN Len(Talk) ELSE 0

BlockInv ==
  /\ Paired(messages) /\ Distinct(messages) /\ Blank(messages)
  /\ run.pc = "streaming" => Before(messages, turns)
  /\ ~aborted /\ run.pc \notin {"none", "failing", "failed"} => FullBut(messages, Len(run.base), Open)

BatchInv ==
  run.pc \in Batching =>
    /\ Talk # <<>>
    /\ Talk[Len(Talk)].role = "assistant"
    /\ Talk[Len(Talk)].turn = turns
    /\ Talk[Len(Talk)].calls = Len(run.batch)
    /\ \A i \in 1..Len(run.results) : run.results[i] = Result(turns, i)
    /\ InBatch(run.batch, Len(run.results), At("parallel"))

LEMMA RolesAre ==
  \A m \in Anything :
    /\ m.role = "assistant" => m.turn \in Nat /\ m.calls \in Nat
    /\ m.role = "toolResult" => m.turn \in Nat /\ m.call \in Nat \ {0}
BY DEF Anything, Users, Answered, Results, System

LEMMA AppendIs ==
  ASSUME NEW s \in Seq(Anything), NEW e \in Anything
  PROVE  /\ Append(s, e) \in Seq(Anything) /\ Len(Append(s, e)) = Len(s) + 1 /\ Len(s) \in Nat
         /\ DOMAIN s = 1..Len(s) /\ DOMAIN Append(s, e) = 1..(Len(s) + 1)
         /\ Append(s, e)[Len(s) + 1] = e
         /\ \A i \in DOMAIN s : Append(s, e)[i] = s[i]
OBVIOUS

LEMMA AppendEnds ==
  ASSUME NEW s \in Seq(Anything), NEW e \in Anything
  PROVE  Append(s, e)[Len(Append(s, e))] = e
<1>1. Len(Append(s, e)) = Len(s) + 1 /\ Append(s, e)[Len(s) + 1] = e
  BY AppendIs
<1> QED
  BY <1>1

LEMMA AppendIsNotEmpty == \A s \in Seq(Anything) : \A e \in Anything : Append(s, e) # <<>>
OBVIOUS

LEMMA PairedWith ==
  ASSUME NEW s \in Seq(Anything), NEW e \in Anything, Paired(s),
         e.role = "toolResult" => PairedAt(Append(s, e), Len(s) + 1)
  PROVE  Paired(Append(s, e))
<1>1. PICK t \in Seq(Anything) : t = Append(s, e)
  BY AppendIs
<1>2. ASSUME NEW j \in DOMAIN t, t[j].role = "toolResult"
      PROVE  PairedAt(t, j)
  <2>1. CASE j = Len(s) + 1
    BY <1>1, <1>2, <2>1, AppendIs
  <2>2. CASE j # Len(s) + 1
    <3>1. j \in DOMAIN s /\ t[j] = s[j] /\ s[j].role = "toolResult"
      BY <1>1, <1>2, <2>2, AppendIs
    <3>2. PICK i \in 1..(j - 1) :
            /\ s[i].role = "assistant" /\ s[i].turn = s[j].turn
            /\ s[j].call <= s[i].calls /\ j = i + s[j].call
            /\ \A k \in 1..s[j].call : s[i + k] = Result(s[j].turn, k)
      BY <3>1 DEF Paired, PairedAt
    <3>3. s[j] \in Anything /\ j \in 1..Len(s) /\ i \in 1..Len(s)
      BY SMTT(30), <3>1, <3>2, AppendIs
    <3>4. s[j].call \in Nat
      BY <3>1, <3>3, RolesAre
    <3>5. t[i] = s[i]
      BY <1>1, <3>3, AppendIs
    <3>6. ASSUME NEW k \in 1..s[j].call
          PROVE  t[i + k] = s[i + k]
      <4>1. i + k \in 1..Len(s)
        BY SMTT(30), <3>2, <3>3, <3>4, AppendIs
      <4> QED
        BY <1>1, <4>1, AppendIs
    <3> QED
      BY <3>1, <3>2, <3>5, <3>6 DEF PairedAt
  <2> QED
    BY <2>1, <2>2
<1> QED
  BY <1>1, <1>2 DEF Paired

LEMMA DistinctWith ==
  ASSUME NEW s \in Seq(Anything), NEW e \in Anything, Distinct(s), Blank(s),
         e.role = "assistant" => (e.turn = 0 /\ e.calls = 0) \/ (e.turn # 0 /\ Before(s, e.turn))
  PROVE  Distinct(Append(s, e)) /\ Blank(Append(s, e))
<1>1. PICK t \in Seq(Anything) : t = Append(s, e)
  BY AppendIs
<1>2. \A i \in DOMAIN t : (i \in DOMAIN s /\ t[i] = s[i]) \/ (i = Len(s) + 1 /\ t[i] = e)
  BY <1>1, AppendIs
<1>3. \A i \in DOMAIN s : s[i] \in Anything
  OBVIOUS
<1>4. \A m \in Anything : m.role = "assistant" => m.turn \in Nat
  BY RolesAre
<1>5. Blank(t)
  BY <1>2 DEF Blank
<1>6. ASSUME NEW i \in DOMAIN t, NEW j \in DOMAIN t, t[i].role = "assistant", t[j].role = "assistant",
             t[i].turn = t[j].turn, t[i].turn # 0
      PROVE  i = j
  <2>1. CASE i \in DOMAIN s /\ t[i] = s[i] /\ j \in DOMAIN s /\ t[j] = s[j]
    BY <1>6, <2>1 DEF Distinct
  <2>2. ASSUME NEW x \in DOMAIN s, s[x].role = "assistant", e.role = "assistant", e.turn # 0
        PROVE  s[x].turn # e.turn
    <3>1. s[x].turn < e.turn /\ s[x].turn \in Nat /\ e.turn \in Nat
      BY <1>3, <1>4, <2>2 DEF Before
    <3> QED
      BY <3>1
  <2> QED
    BY <1>2, <1>6, <2>1, <2>2
<1> QED
  BY <1>1, <1>5, <1>6 DEF Distinct

LEMMA FullWith ==
  ASSUME NEW s \in Seq(Anything), NEW e \in Anything, NEW b \in Nat, NEW n \in Nat, NEW next \in Nat,
         FullBut(s, b, n), next = n \/ (n = 0 /\ next = Len(s) + 1),
         e.role = "assistant" => e.calls = 0 \/ next = Len(s) + 1
  PROVE  FullBut(Append(s, e), b, next)
<1>1. PICK t \in Seq(Anything) : t = Append(s, e)
  BY AppendIs
<1>2. ASSUME NEW i \in DOMAIN t, i > b, i # next, t[i].role = "assistant"
      PROVE  Full(t, i)
  <2>1. CASE i = Len(s) + 1
    <3>1. t[i].calls = 0
      BY <1>1, <1>2, <2>1, AppendIs
    <3> QED
      BY <3>1 DEF Full
  <2>2. CASE i # Len(s) + 1
    <3>1. i \in DOMAIN s /\ t[i] = s[i] /\ i # n /\ i \in Nat /\ Len(t) = Len(s) + 1 /\ Len(s) \in Nat
      BY <1>1, <1>2, <2>2, AppendIs
    <3>2. Full(s, i)
      BY <1>2, <3>1 DEF FullBut
    <3>3. s[i].calls \in Nat
      BY <1>2, <3>1, RolesAre
    <3>4. ASSUME NEW k \in 1..s[i].calls
          PROVE  i + k <= Len(t) /\ t[i + k] = Result(s[i].turn, k)
      <4>1. i + k <= Len(s) /\ s[i + k] = Result(s[i].turn, k)
        BY <3>2 DEF Full
      <4>2. i + k \in DOMAIN s
        BY <3>1, <3>3, <4>1, AppendIs
      <4> QED
        BY SMTT(30), <1>1, <3>1, <4>1, <4>2, AppendIs
    <3> QED
      BY <3>1, <3>4 DEF Full
  <2> QED
    BY <2>1, <2>2
<1> QED
  BY <1>1, <1>2 DEF FullBut

\* The next result is that of the first call that has none.
LEMMA NextIsDone ==
  ASSUME NEW b \in Seq(Statuses), NEW l \in Nat, NEW parallel \in BOOLEAN, NEW k \in DOMAIN b,
         InBatch(b, l, parallel),
         \/ ~parallel /\ b[k] = "started"
         \/ /\ b[k] = "ended"
            /\ \A j \in DOMAIN b : b[j] \notin {"started", "queued"} /\ (b[j] = "ended" => k <= j)
  PROVE  k = l + 1 /\ InBatch([b EXCEPT ![k] = "done"], l + 1, parallel)
<1>1. DOMAIN b = 1..Len(b) /\ Len(b) \in Nat /\ \A j \in DOMAIN b : b[j] \in Statuses
  OBVIOUS
<1>2. k > l
  BY <1>1 DEF InBatch
<1>3. ASSUME l + 1 < k PROVE FALSE
  <2>1. l + 1 \in DOMAIN b /\ ~(l + 1 <= l)
    BY <1>1, <1>3
  <2>2. b[l + 1] # "unseen" /\ b[l + 1] # "done"
    BY <1>3, <2>1 DEF InBatch
  <2>3. b[l + 1] \in {"started", "queued", "ended"}
    BY <1>1, <2>1, <2>2 DEF Statuses
  <2>4. CASE ~parallel /\ b[k] = "started"
    <3>1. b[l + 1] = "started"
      BY <2>1, <2>3, <2>4 DEF InBatch
    <3> QED
      BY <1>1, <1>3, <2>1, <2>4, <3>1 DEF InBatch
  <2>5. CASE \A j \in DOMAIN b : b[j] \notin {"started", "queued"} /\ (b[j] = "ended" => k <= j)
    BY <1>1, <1>3, <2>1, <2>3, <2>5
  <2> QED
    BY <2>4, <2>5
<1>4. k = l + 1
  BY <1>1, <1>2, <1>3
<1>5. PICK d \in Seq(Statuses) : d = [b EXCEPT ![k] = "done"]
  <2>1. [b EXCEPT ![k] = "done"] \in Seq(Statuses)
    BY <1>1 DEF Statuses
  <2> QED
    BY <2>1
<1>6. Len(d) = Len(b) /\ DOMAIN d = DOMAIN b /\ d[k] = "done" /\ \A j \in DOMAIN b \ {k} : d[j] = b[j]
  BY <1>5
<1>7. \A j \in DOMAIN b : d[j] = "done" <=> j <= l + 1
  BY <1>1, <1>4, <1>6 DEF InBatch
<1>8. \A i, j \in DOMAIN b : i < j /\ d[j] # "unseen" => d[i] # "unseen"
  BY <1>1, <1>6 DEF InBatch
<1>9. \A i, j \in DOMAIN b : d[i] = "started" /\ d[j] = "started" => i = j
  BY <1>6 DEF InBatch
<1>10. ~parallel => \A j \in DOMAIN b : d[j] \in {"unseen", "started", "done"}
  BY <1>6 DEF InBatch
<1>11. l + 1 <= Len(d)
  BY <1>1, <1>4, <1>6
<1>12. InBatch(d, l + 1, parallel)
  BY <1>6, <1>7, <1>8, <1>9, <1>10, <1>11 DEF InBatch
<1> QED
  BY <1>4, <1>5, <1>12

\* A call begins after those before it, with none other beginning, and one
\* that has begun may end or wait for its future in a parallel batch.
MayMove(b, k, status, parallel) ==
  \/ /\ status = "started" /\ b[k] = "unseen"
     /\ \A j \in 1..(k - 1) : b[j] # "unseen"
     /\ \A j \in DOMAIN b : b[j] # "started"
  \/ parallel /\ status # "started" /\ b[k] \in {"started", "queued"}

\* A call that has no result yet moves on.
LEMMA NoneIsDone ==
  ASSUME NEW b \in Seq(Statuses), NEW l \in Nat, NEW parallel \in BOOLEAN, NEW k \in DOMAIN b,
         InBatch(b, l, parallel), NEW status \in {"started", "queued", "ended"},
         MayMove(b, k, status, parallel), NEW d, d = [b EXCEPT ![k] = status]
  PROVE  InBatch(d, l, parallel)
<1>1. DOMAIN b = 1..Len(b) /\ Len(b) \in Nat /\ \A j \in DOMAIN b : b[j] \in Statuses
  OBVIOUS
<1>2. d \in Seq(Statuses)
  BY <1>1 DEF Statuses
<1>3. Len(d) = Len(b) /\ DOMAIN d = DOMAIN b /\ d[k] = status /\ \A j \in DOMAIN b \ {k} : d[j] = b[j]
  BY <1>2
<1>4. \A j \in DOMAIN b : d[j] = "done" <=> j <= l
  BY <1>3 DEF InBatch, MayMove
<1>5. \A i, j \in DOMAIN b : i < j /\ d[j] # "unseen" => d[i] # "unseen"
  <2>1. CASE \A j \in 1..(k - 1) : b[j] # "unseen"
    BY <1>1, <1>3, <2>1 DEF InBatch
  <2>2. CASE b[k] # "unseen"
    BY <1>1, <1>3, <2>2 DEF InBatch
  <2> QED
    BY <2>1, <2>2 DEF MayMove
<1>6. \A i, j \in DOMAIN b : d[i] = "started" /\ d[j] = "started" => i = j
  BY <1>3 DEF InBatch, MayMove
<1>7. ~parallel => \A j \in DOMAIN b : d[j] \in {"unseen", "started", "done"}
  BY <1>3 DEF InBatch, MayMove
<1>8. l <= Len(d)
  BY <1>3 DEF InBatch
<1> QED
  BY <1>3, <1>4, <1>5, <1>6, <1>7, <1>8 DEF InBatch

LEMMA BatchInvKept == AgentInv /\ BatchInv /\ Next => BatchInv'
<1> SUFFICES ASSUME AgentInv, BatchInv, Next
             PROVE  BatchInv'
  OBVIOUS
<1>0. Shapes /\ PhaseInv /\ SyncInv /\ Bounded
  BY DEF AgentInv, TalkInv, PhaseInv
<1>1. CASE RunQuiet \/ Abort
  <2>1. UNCHANGED <<run, turns>>
    BY <1>1, QuietSteps DEF Abort
  <2> QED
    BY <2>1 DEF BatchInv, Talk, At
<1>2. CASE Prologue \/ FirstPoll \/ PrepareTurn \/ Inject \/ Request \/ EndBatch \/ TurnEnd
           \/ PollFollowUps \/ HandleRunFailure \/ FinishRun \/ Panic \/ Lost
  <2>1. CASE Prologue \/ Inject
    <3>1. PICK next \in {"firstPoll", "request"} : Injected(next) /\ run.pc \in {"prologue", "inject"}
      BY <2>1 DEF Prologue, Inject, At
    <3>2. run'.pc = IF run'.toEmit = <<>> THEN next ELSE run.pc
      BY <1>0, <3>1, InjectedIs
    <3> QED
      BY <3>1, <3>2 DEF BatchInv, Batching
  <2>2. CASE FirstPoll \/ PrepareTurn \/ Request \/ EndBatch \/ TurnEnd \/ PollFollowUps \/ HandleRunFailure
    <3>1. run'.pc \in {"top", "request", "inject", "streaming", "turnEnd", "finish", "failed"}
      BY <1>0, <2>2, FirstPollIs, PrepareTurnIs, RequestIs, EndBatchIs, TurnEndIs, PollFollowUpsIs,
         FailureIs
    <3> QED
      BY <3>1 DEF BatchInv, Batching
  <2>3. CASE FinishRun \/ Panic \/ Lost
    <3>1. run' = NoRun \/ run' = [NoRun EXCEPT !.pc = "failing"]
      BY <2>3, FaultIs DEF FinishRun
    <3>2. run'.pc \in {"none", "failing"}
      BY <3>1 DEF NoRun
    <3> QED
      BY <3>2 DEF BatchInv, Batching
  <2> QED
    BY <1>2, <2>1, <2>2, <2>3
<1>3. CASE EndOfStream
  <2>1. PICK m \in Answers(turns) :
           /\ m \in Anything /\ m \in Answered
           /\ messages' = Append(messages, m)
           /\ run'.batch = [k \in 1..m.calls |-> "unseen"] /\ run'.results = <<>>
    BY <1>0, <1>3, EndOfStreamIs
  <2>2. turns' = turns /\ m.role = "assistant" /\ m.turn = turns
    BY <1>3, <2>1 DEF EndOfStream, Answers, Answer
  <2>3. SyncInv' /\ Shapes'
    BY <1>0, AgentInvKept DEF AgentInv, TalkInv
  <2>4. ASSUME run'.pc \in Batching
        PROVE  Talk' = Append(messages, m)
    <3>1. Talk' \in Seq(Anything)
      <4>1. run'.base \in Seq(Anything) /\ run'.fresh \in Seq(Anything)
        BY <2>3 DEF Shapes, RunSet
      <4> QED
        BY <4>1, SequencesAre DEF Talk
    <3>2. messages' = Talk' \o <<>>
      BY <2>1, <2>3, <2>4 DEF SyncInv
    <3>3. PICK c \in Seq(Anything) : c = Talk'
      BY <3>1
    <3>4. c \o <<>> = c
      BY JoinedNone
    <3> QED
      BY <2>1, <3>2, <3>3, <3>4
  <2>5. PICK n \in Nat : n = m.calls
    BY <2>1, <2>2, RolesAre
  <2>6. PICK b : b = [k \in 1..n |-> "unseen"]
    OBVIOUS
  <2>7. b \in Seq(Statuses) /\ Len(b) = n /\ DOMAIN b = 1..n /\ \A k \in 1..n : b[k] = "unseen"
    BY <2>5, <2>6 DEF Statuses
  <2>8. \A parallel \in BOOLEAN : InBatch(b, 0, parallel)
    BY <2>7 DEF InBatch
  <2>9. run'.batch = b /\ Len(run'.results) = 0
    BY <2>1, <2>5, <2>6
  <2>10. PICK parallel \in BOOLEAN : parallel = At("parallel")'
    BY DEF At
  <2>11. InBatch(run'.batch, Len(run'.results), At("parallel")')
    BY <2>8, <2>9, <2>10
  <2>12. ASSUME run'.pc \in Batching
         PROVE  /\ Talk' # <<>> /\ Talk'[Len(Talk')] = m
    <3>1. Talk' = Append(messages, m) /\ messages \in Seq(Anything)
      BY <1>0, <2>4, <2>12 DEF Shapes
    <3>2. Append(messages, m) # <<>> /\ Append(messages, m)[Len(Append(messages, m))] = m
      BY <2>1, <3>1
    <3> QED
      BY <3>1, <3>2
  <2>13. \A i \in 1..Len(run'.results) : run'.results[i] = Result(turns', i)
    BY <2>9
  <2>14. Len(run'.batch) = m.calls
    BY <2>5, <2>7, <2>9
  <2> QED
    BY <2>2, <2>11, <2>12, <2>13, <2>14 DEF BatchInv
<1>4. CASE StartCall \/ EndCallInTurn \/ PrepareCall \/ EndQueuedCall \/ EmitResult
  <2>1. PICK k \in Calls : CallSteps(k)
    BY <1>0, <1>4, CallStepsAre
  <2>2. run.pc \in Batching /\ run'.pc = run.pc /\ Talk' = Talk /\ turns' = turns
    BY <1>0, <1>4, CallStepsAre DEF Talk
  <2>3. /\ Talk # <<>>
        /\ Talk[Len(Talk)].role = "assistant"
        /\ Talk[Len(Talk)].turn = turns
        /\ Talk[Len(Talk)].calls = Len(run.batch)
        /\ \A i \in 1..Len(run.results) : run.results[i] = Result(turns, i)
        /\ InBatch(run.batch, Len(run.results), At("parallel"))
    BY <2>2 DEF BatchInv
  <2>4. PICK b \in Seq(Statuses), r \in Seq(Results), parallel \in BOOLEAN :
          b = run.batch /\ r = run.results /\ parallel = At("parallel")
    BY <1>0, Fields DEF Statuses, At
  <2>5. PICK l \in Nat : l = Len(r)
    BY <2>4
  <2>6. k \in DOMAIN b /\ InBatch(b, l, parallel) /\ At("parallel")' = parallel
    BY <2>1, <2>2, <2>3, <2>4, <2>5 DEF Calls, At
  <2>7. \A status \in Statuses : Len([b EXCEPT ![k] = status]) = Len(b)
    BY <2>6
  <2>8. ASSUME NEW status \in {"started", "queued", "ended"},
               run'.batch = [b EXCEPT ![k] = status], run'.results = r,
               MayMove(b, k, status, parallel)
        PROVE  BatchInv'
    <3>0. /\ b \in Seq(Statuses) /\ l \in Nat /\ parallel \in BOOLEAN /\ k \in DOMAIN b
          /\ InBatch(b, l, parallel) /\ status \in {"started", "queued", "ended"}
      BY <2>4, <2>6
    <3>1. InBatch(run'.batch, l, parallel)
      BY <2>8, <3>0, NoneIsDone
    <3>2. Len(run'.batch) = Len(run.batch)
      BY <2>4, <2>7, <2>8 DEF Statuses
    <3> QED
      BY <2>2, <2>3, <2>4, <2>5, <2>6, <2>8, <3>1, <3>2 DEF BatchInv
  <2>9. ASSUME run'.batch = [b EXCEPT ![k] = "done"], run'.results = Append(r, Result(turns, k)),
               \/ ~parallel /\ b[k] = "started"
               \/ /\ b[k] = "ended"
                  /\ \A j \in DOMAIN b : b[j] \notin {"started", "queued"} /\ (b[j] = "ended" => k <= j)
        PROVE  BatchInv'
    <3>1. k = l + 1 /\ InBatch([b EXCEPT ![k] = "done"], l + 1, parallel)
      BY <2>6, <2>9, NextIsDone
    <3>2. Len(run'.batch) = Len(run.batch)
      BY <2>4, <2>7, <2>9 DEF Statuses
    <3>3. PICK e : e = Result(turns, k)
      OBVIOUS
    <3>4. e \in Results
      BY <1>0, <3>3, ResultIs DEF Result, Results, Shapes
    <3>5. Len(Append(r, e)) = l + 1 /\ Append(r, e)[l + 1] = e /\ \A i \in 1..l : Append(r, e)[i] = r[i]
      BY <2>5, <3>4
    <3>6. \A i \in 1..(l + 1) : Append(r, e)[i] = Result(turns, i)
      BY SMTT(30), <2>3, <2>4, <2>5, <3>1, <3>3, <3>5
    <3>7. Len(run'.results) = l + 1 /\ \A i \in 1..Len(run'.results) : run'.results[i] = Result(turns', i)
      BY <2>2, <2>9, <3>3, <3>5, <3>6
    <3> QED
      BY <2>2, <2>3, <2>6, <2>9, <3>1, <3>2, <3>7 DEF BatchInv
  <2>10. \A j \in DOMAIN b, status \in Statuses : j \in In(status) <=> b[j] = status
    BY <2>4 DEF In, Calls
  <2>11. parallel <=> run.pc = "parallel"
    BY <2>4 DEF At
  <2>12. ASSUME NEW status \in {"started", "queued", "ended"}
         PROVE  run'.batch = [run.batch EXCEPT ![k] = status] /\ run'.results = run.results
                => run'.batch = [b EXCEPT ![k] = status] /\ run'.results = r
    BY <2>4
  <2>13. CASE /\ IsNext(k) /\ In("started") = {}
              /\ run'.batch = [run.batch EXCEPT ![k] = "started"] /\ run'.results = run.results
    <3>1. b[k] = "unseen" /\ \A j \in 1..(k - 1) : b[j] # "unseen"
      BY <2>4, <2>13 DEF IsNext
    <3>2. \A j \in DOMAIN b : b[j] # "started"
      BY <2>10, <2>13 DEF Statuses
    <3> QED
      BY <2>8, <2>12, <2>13, <3>1, <3>2 DEF MayMove
  <2>14. CASE /\ run.pc \in {"truncated", "sequential"} /\ k \in In("started")
              /\ run'.batch = [run.batch EXCEPT ![k] = "done"]
              /\ run'.results = Append(run.results, Result(turns, k))
    BY <2>4, <2>6, <2>9, <2>10, <2>11, <2>14 DEF Statuses
  <2>15. CASE /\ At("parallel") /\ k \in In("started") \cup In("queued")
              /\ \/ run'.batch = [run.batch EXCEPT ![k] = "ended"]
                 \/ run'.batch = [run.batch EXCEPT ![k] = "queued"]
              /\ run'.results = run.results
    <3>1. parallel /\ b[k] \in {"started", "queued"}
      BY <2>4, <2>6, <2>10, <2>15 DEF Statuses
    <3> QED
      BY <2>8, <2>12, <2>15, <3>1 DEF MayMove
  <2>16. CASE /\ AllSeen /\ In("queued") = {} /\ EmitsNext(k)
              /\ run'.batch = [run.batch EXCEPT ![k] = "done"]
              /\ run'.results = Append(run.results, Result(turns, k))
    <3>1. b[k] = "ended"
      BY <2>6, <2>10, <2>16 DEF EmitsNext, Statuses
    <3>2. \A j \in DOMAIN b : b[j] \notin {"started", "queued"} /\ (b[j] = "ended" => k <= j)
      BY <2>10, <2>16 DEF EmitsNext, AllSeen, Statuses
    <3> QED
      BY <2>4, <2>9, <2>16, <3>1, <3>2
  <2> QED
    BY <2>1, <2>13, <2>14, <2>15, <2>16 DEF CallSteps
<1>5. ASSUME NEW c \in Caller, Begin(c)
      PROVE  BatchInv'
  <2>1. turns' = turns /\ (run'.pc \in {"firstPoll", "prologue", "failing"} \/ run' = run)
    BY <1>0, <1>5, BeginIs
  <2> QED
    BY <2>1 DEF BatchInv, Batching, Talk, At
<1> QED
  BY <1>1, <1>2, <1>3, <1>4, <1>5, Steps DEF RunLoop


\* A message that is no result and no answer of its own request settles nothing.
LEMMA SaidKeeps ==
  ASSUME NEW s \in Seq(Anything), NEW e \in Anything, Paired(s), Distinct(s), Blank(s),
         e.role = "user" \/ (e.role = "assistant" /\ e.turn = 0 /\ e.calls = 0)
  PROVE  /\ Paired(Append(s, e)) /\ Distinct(Append(s, e)) /\ Blank(Append(s, e))
         /\ \A b \in Nat : FullBut(s, b, 0) => FullBut(Append(s, e), b, 0)
<1>1. Paired(Append(s, e))
  BY PairedWith
<1>2. Distinct(Append(s, e)) /\ Blank(Append(s, e))
  BY DistinctWith
<1>3. ASSUME NEW b \in Nat, FullBut(s, b, 0)
      PROVE  FullBut(Append(s, e), b, 0)
  BY <1>3, FullWith
<1> QED
  BY <1>1, <1>2, <1>3

LEMMA ConcatIs ==
  ASSUME NEW c \in Seq(Anything), NEW r \in Seq(Anything)
  PROVE  /\ c \o r \in Seq(Anything) /\ Len(c) \in Nat /\ Len(r) \in Nat
         /\ Len(c \o r) = Len(c) + Len(r)
         /\ \A i \in 1..Len(c) : (c \o r)[i] = c[i]
         /\ \A i \in 1..Len(r) : (c \o r)[Len(c) + i] = r[i]
OBVIOUS

\* The result of the next call of the last answer follows the results before it.
LEMMA ResultPaired ==
  ASSUME NEW c \in Seq(Anything), NEW r \in Seq(Anything), NEW t \in Nat, NEW k \in 1..MaxCalls,
         c # <<>>, c[Len(c)].role = "assistant", c[Len(c)].turn = t, k <= c[Len(c)].calls,
         k = Len(r) + 1, \A i \in 1..Len(r) : r[i] = Result(t, i)
  PROVE  PairedAt(Append(c \o r, Result(t, k)), Len(c \o r) + 1)
<1>1. PICK e : e = Result(t, k)
  OBVIOUS
<1>2. e \in Anything /\ e.role = "toolResult" /\ e.turn = t /\ e.call = k
  BY <1>1, ResultsAre DEF Result
<1>3. PICK s : s = c \o r
  OBVIOUS
<1>4. PICK n : n = Len(c)
  OBVIOUS
<1>5. /\ s \in Seq(Anything) /\ n \in Nat /\ Len(r) \in Nat /\ Len(s) = n + Len(r) /\ n # 0
      /\ \A i \in 1..n : s[i] = c[i]
      /\ \A i \in 1..Len(r) : s[n + i] = r[i]
  BY <1>3, <1>4, ConcatIs
<1>6. PICK u : u = Append(s, e)
  OBVIOUS
<1>7. u[n] = c[n] /\ u[n + k] = e /\ \A i \in 1..Len(r) : u[n + i] = r[i]
  <2>1. \A i \in 1..Len(s) : u[i] = s[i]
    BY <1>2, <1>5, <1>6, AppendIs
  <2>2. n \in 1..Len(s) /\ n \in 1..n /\ \A i \in 1..Len(r) : n + i \in 1..Len(s)
    BY SMTT(30), <1>5
  <2>3. u[Len(s) + 1] = e
    BY <1>2, <1>5, <1>6, AppendIs
  <2>4. n + k = Len(s) + 1
    BY <1>5
  <2> QED
    BY <1>5, <2>1, <2>2, <2>3, <2>4
<1>8. ASSUME NEW i \in 1..k PROVE u[n + i] = Result(t, i)
  <2>1. CASE i = k
    BY <1>1, <1>7, <2>1
  <2>2. CASE i # k
    <3>1. i \in 1..Len(r)
      BY <1>5, <2>2
    <3> QED
      BY <1>7, <3>1
  <2> QED
    BY <2>1, <2>2
<1>9. n \in 1..(n + k - 1) /\ Len(s) + 1 = n + k
  <2>1. PICK l \in Nat : l = Len(r)
    BY <1>5
  <2>2. k = l + 1
    BY <2>1
  <2> QED
    BY <1>5, <2>1, <2>2
<1>10. PICK j : j = n + k
  OBVIOUS
<1>11. PairedAt(u, j)
  <2>1. u[j].call = k /\ u[j].turn = t /\ u[n].role = "assistant" /\ u[n].turn = t
        /\ k <= u[n].calls
    BY <1>2, <1>4, <1>7, <1>10
  <2>2. /\ n \in 1..(j - 1)
        /\ u[n].role = "assistant" /\ u[n].turn = u[j].turn
        /\ u[j].call <= u[n].calls /\ j = n + u[j].call
        /\ \A i \in 1..u[j].call : u[n + i] = Result(u[j].turn, i)
    BY SMTT(30), <1>8, <1>9, <1>10, <2>1
  <2> QED
    BY <2>2 DEF PairedAt
<1> QED
  BY <1>1, <1>3, <1>6, <1>9, <1>10, <1>11

LEMMA BlockInvKept == AgentInv /\ BatchInv /\ BlockInv /\ Next => BlockInv'
<1> SUFFICES ASSUME AgentInv, BatchInv, BlockInv, Next
             PROVE  BlockInv'
  OBVIOUS
<1>0. /\ Shapes /\ PhaseInv /\ SyncInv /\ Bounded /\ RunnerInv /\ TurnInv /\ GivenInv
      /\ messages \in Seq(Anything) /\ turns \in Nat
      /\ run.base \in Seq(Anything) /\ run.fresh \in Seq(Anything) /\ run.results \in Seq(Anything)
  BY Fields DEF AgentInv, TalkInv, PhaseInv, Shapes
<1> PICK s \in Seq(Anything), b \in Nat, r \in Seq(Anything), c \in Seq(Anything) :
      s = messages /\ b = Len(run.base) /\ r = run.results /\ c = Talk
  <2>1. Talk \in Seq(Anything)
    BY <1>0, SequencesAre DEF Talk
  <2>2. Len(run.base) \in Nat
    BY <1>0
  <2> QED
    BY <1>0, <2>1, <2>2
<1>1. Paired(s) /\ Distinct(s) /\ Blank(s)
  BY DEF BlockInv
<1>2. PICK n \in Nat : n = Len(c)
  OBVIOUS
\* A step that says nothing, and neither asks the provider nor ends a batch.
<1>3. ASSUME messages' = messages, run'.pc \notin {"streaming"} \cup Batching,
             \/ run'.pc \in {"none", "failing", "failed"}
             \/ run.pc \notin Batching \cup {"none", "failing", "failed"}
                /\ run'.base = run.base /\ aborted' = aborted
      PROVE  BlockInv'
  <2>1. Open' = 0
    BY <1>3 DEF Open
  <2> QED
    BY <1>1, <1>3, <2>1 DEF BlockInv, Open
<1>4. CASE RunQuiet
  <2>1. UNCHANGED <<run, active, aborted, turns>>
    BY <1>4, QuietSteps
  <2>2. messages' = messages \/ (active = 0 /\ messages' = <<>>)
    BY <1>4 DEF RunQuiet, Enqueue, ClearQueues, Reset, Refused, Prompt, Continue, TakeNotify,
                DrainForContinue, Await, LockFails, agentVars
  <2>3. CASE messages' = messages
    BY <2>1, <2>3 DEF BlockInv, Open, Talk
  <2>4. CASE active = 0 /\ messages' = <<>>
    <3>1. run.pc = "none" /\ run'.pc = "none"
      BY <1>0, <2>1, <2>4 DEF RunnerInv
    <3>2. Paired(<<>>) /\ Distinct(<<>>) /\ Blank(<<>>)
      BY DEF Paired, Distinct, Blank
    <3> QED
      BY <2>4, <3>1, <3>2 DEF BlockInv
  <2> QED
    BY <2>2, <2>3, <2>4
<1>5. CASE Abort
  BY <1>5 DEF Abort, agentVars, BlockInv, Open, Talk
<1>6. CASE Prologue \/ Inject
  <2>1. PICK next \in {"firstPoll", "request"} : Injected(next) /\ run.pc \in {"prologue", "inject"}
    BY <1>6 DEF Prologue, Inject, At
  <2>2. PICK m \in Users : m = Head(run.toEmit)
    <3>1. run.toEmit \in Seq(Users) /\ run.toEmit # <<>>
      BY <1>0, <2>1, Fields DEF Injected
    <3> QED
      BY <3>1, SequencesAre
  <2>3. run'.pc = (IF run'.toEmit = <<>> THEN next ELSE run.pc) /\ run'.base = run.base
    BY <1>0, <2>1, InjectedIs
  <2>4. messages' = Append(s, m) /\ aborted' = aborted
    BY <2>1, <2>2 DEF Injected, Emitted, RunOnly
  <2>5. m \in Anything /\ m.role = "user"
    BY UsersAre
  <2>6. /\ Paired(messages') /\ Distinct(messages') /\ Blank(messages')
        /\ FullBut(s, b, 0) => FullBut(messages', b, 0)
    BY <1>1, <2>4, <2>5, SaidKeeps
  <2>7. Open = 0 /\ Open' = 0 /\ run'.pc # "streaming" /\ run.pc \notin {"none", "failing", "failed"}
    BY <2>1, <2>3 DEF Open, Batching
  <2> QED
    BY <2>3, <2>4, <2>6, <2>7 DEF BlockInv
<1>7. CASE FirstPoll \/ PrepareTurn \/ PollFollowUps \/ TurnEnd
  <2>1. /\ run.pc \in {"firstPoll", "top", "turnEnd"}
        /\ run'.pc \in {"top", "request", "inject", "finish"}
        /\ SameTalk /\ messages' = messages
    BY <1>0, <1>7, FirstPollIs, PrepareTurnIs, PollFollowUpsIs, TurnEndIs DEF agentVars
  <2>2. aborted' = aborted
    BY <1>7, LoopSteps DEF RunLoop
  <2>3. run'.pc \notin {"streaming"} \cup Batching
        /\ run.pc \notin Batching \cup {"none", "failing", "failed"}
    BY <2>1 DEF Batching
  <2> QED
    BY <1>3, <2>1, <2>2, <2>3 DEF SameTalk
<1>8. CASE Request
  <2>1. /\ run.pc = "request" /\ run'.pc = "streaming" /\ turns' = turns + 1
        /\ run'.base = run.base /\ messages' = messages
    BY <1>0, <1>8, RequestIs
  <2>2. aborted' = aborted
    BY <1>8, LoopSteps DEF RunLoop
  <2>3. Before(messages, turns + 1)
    <3>1. ASSUME NEW i \in DOMAIN messages, messages[i].role = "assistant"
          PROVE  messages[i].turn < turns + 1
      <4>1. messages[i] \in Known
        BY <1>0 DEF GivenInv
      <4>2. messages[i].turn <= turns /\ messages[i].turn \in Nat
        BY <3>1, <4>1 DEF Known, Given, Users, Answered, Results
      <4> QED
        BY <1>0, <4>2
    <3> QED
      BY <3>1 DEF Before
  <2>4. Open = 0 /\ Open' = 0
    BY <2>1 DEF Open, Batching
  <2> QED
    BY <2>1, <2>2, <2>3, <2>4 DEF BlockInv
<1>9. CASE EndOfStream
  <2>1. PICK m \in Answers(turns) :
           /\ m \in Anything /\ m \in Answered
           /\ messages' = Append(messages, m)
           /\ run'.pc \in {"turnEnd"} \cup Batching /\ (run'.pc = "turnEnd" <=> m.calls = 0)
           /\ run'.base = run.base /\ run'.results = <<>>
    BY <1>0, <1>9, EndOfStreamIs
  <2>2. run.pc = "streaming" /\ m.role = "assistant" /\ m.turn = turns
    BY <1>9, <2>1 DEF EndOfStream, At, Answers, Answer
  <2>3. turns # 0 /\ Before(s, turns) /\ Open = 0
    BY <1>0, <2>2 DEF TurnInv, BlockInv, Open, Batching
  <2>4. Paired(messages')
    BY <1>1, <2>1, <2>2, PairedWith
  <2>5. Distinct(messages') /\ Blank(messages')
    BY <1>1, <2>1, <2>2, <2>3, DistinctWith
  <2>6. aborted' = aborted
    BY <1>9, LoopSteps DEF RunLoop
  <2>7. PICK o \in Nat : o = Open' /\ (o = 0 \/ o = Len(s) + 1) /\ (m.calls = 0 \/ o = Len(s) + 1)
    <3>1. CASE run'.pc = "turnEnd"
      BY <2>1, <3>1 DEF Open, Batching
    <3>2. CASE run'.pc \in Batching
      <4>1. SyncInv' /\ Shapes'
        BY AgentInvKept DEF AgentInv, TalkInv
      <4>2. PICK u \in Seq(Anything) : u = Talk'
        <5>1. run'.base \in Seq(Anything) /\ run'.fresh \in Seq(Anything)
          BY <4>1 DEF Shapes, RunSet
        <5> QED
          BY <5>1, SequencesAre DEF Talk
      <4>3. messages' = u \o <<>>
        BY <2>1, <3>2, <4>1, <4>2 DEF SyncInv
      <4>4. u = Append(s, m)
        BY <2>1, <4>2, <4>3, JoinedNone
      <4>5. Len(u) = Len(s) + 1 /\ Len(s) \in Nat
        BY <2>1, <4>4, AppendIs
      <4> QED
        BY <3>2, <4>2, <4>5 DEF Open
    <3> QED
      BY <2>1, <3>1, <3>2
  <2>8. FullBut(s, b, 0) => FullBut(messages', b, o)
    BY <2>1, <2>7, FullWith
  <2> QED
    BY <2>1, <2>2, <2>3, <2>4, <2>5, <2>6, <2>7, <2>8 DEF BlockInv, Batching
<1>10. CASE StartCall \/ EndCallInTurn \/ PrepareCall \/ EndQueuedCall \/ EmitResult
  <2>1. /\ run.pc \in Batching /\ run'.pc = run.pc /\ run'.base = run.base
        /\ Talk' = c /\ turns' = turns
    BY <1>0, <1>10, CallStepsAre DEF Talk
  <2>2. PICK k \in Calls : CallSteps(k)
    BY <1>0, <1>10, CallStepsAre
  <2>3. aborted' = aborted
    BY <1>10, LoopSteps DEF RunLoop
  <2>4. run'.pc # "streaming" /\ run.pc \notin {"none", "failing", "failed"} /\ Open = n /\ Open' = n
    BY <1>2, <2>1 DEF Open, Batching
  <2>5. CASE messages' = messages
    BY <2>1, <2>3, <2>4, <2>5 DEF BlockInv
  <2>6. CASE messages' = Append(messages, Result(turns, k)) /\ run'.results = Append(run.results, Result(turns, k))
    <3>1. k \in 1..MaxCalls /\ k <= Len(run.batch)
      BY <1>0, ResultIs, Fields DEF Calls
    <3>2. k = Len(r) + 1
      <4>1. BatchInv'
        BY BatchInvKept
      <4>2. PICK e \in Anything : e = Result(turns, k) /\ e.call = k
        BY <1>0, <3>1, ResultsAre DEF Result
      <4>3. Len(Append(r, e)) = Len(r) + 1 /\ Append(r, e)[Len(r) + 1] = e /\ Len(r) \in Nat
        BY <4>2
      <4>4. \A i \in 1..Len(run'.results) : run'.results[i] = Result(turns, i)
        BY <2>1, <4>1 DEF BatchInv
      <4>5. e = Result(turns, Len(r) + 1)
        BY <2>6, <4>2, <4>3, <4>4
      <4> QED
        BY <4>2, <4>5 DEF Result
    <3>3. /\ c # <<>> /\ c[Len(c)].role = "assistant" /\ c[Len(c)].turn = turns
          /\ c[Len(c)].calls = Len(run.batch) /\ \A i \in 1..Len(r) : r[i] = Result(turns, i)
      BY <2>1 DEF BatchInv
    <3>4. s = c \o r
      BY <1>0, <2>1 DEF SyncInv
    <3>5. PairedAt(Append(s, Result(turns, k)), Len(s) + 1)
      BY <1>0, <3>1, <3>2, <3>3, <3>4, ResultPaired
    <3>6. PICK e \in Anything : e = Result(turns, k) /\ e.role = "toolResult"
      BY <1>0, <3>1, ResultsAre
    <3>7. Paired(Append(s, e))
      BY <1>1, <3>5, <3>6, PairedWith
    <3>8. Distinct(Append(s, e)) /\ Blank(Append(s, e))
      BY <1>1, <3>6, DistinctWith
    <3>9. FullBut(s, b, n) => FullBut(Append(s, e), b, n)
      BY <3>6, FullWith
    <3> QED
      BY <2>1, <2>3, <2>4, <2>6, <3>6, <3>7, <3>8, <3>9 DEF BlockInv
  <2> QED
    BY <2>2, <2>5, <2>6 DEF CallSteps
<1>11. CASE EndBatch
  <2>1. /\ run.pc \in Batching /\ run'.pc = "turnEnd"
        /\ AllSeen /\ In("queued") = {} /\ In("ended") = {}
        /\ run'.base = run.base /\ messages' = messages
    BY <1>0, <1>11, EndBatchIs DEF agentVars
  <2>2. aborted' = aborted
    BY <1>11, LoopSteps DEF RunLoop
  <2>3. ASSUME ~aborted PROVE FullBut(s, b, 0)
    <3>1. FullBut(s, b, n)
      BY <1>2, <2>1, <2>3 DEF BlockInv, Open, Batching
    <3>2. /\ c # <<>> /\ c[n].turn = turns /\ c[n].calls = Len(run.batch)
          /\ \A i \in 1..Len(r) : r[i] = Result(turns, i)
          /\ InBatch(run.batch, Len(r), At("parallel"))
      BY <1>2, <2>1 DEF BatchInv
    <3>3. PICK d \in Seq(Statuses) : d = run.batch
      BY <1>0, Fields DEF Statuses
    <3>4. \A k \in DOMAIN d : d[k] = "done"
      <4>1. ASSUME NEW k \in DOMAIN d PROVE d[k] = "done"
        <5>1. d[k] \in Statuses /\ \A status \in Statuses : k \in In(status) <=> d[k] = status
          BY <3>3 DEF In, Calls
        <5>2. d[k] # "unseen" /\ d[k] # "started"
          BY <2>1, <2>3, <5>1 DEF AllSeen, MayStart, Statuses
        <5>3. d[k] # "queued" /\ d[k] # "ended"
          BY <2>1, <5>1 DEF Statuses
        <5> QED
          BY <5>1, <5>2, <5>3 DEF Statuses
      <4> QED
        BY <4>1
    <3>5. Len(d) <= Len(r) /\ Len(d) \in Nat /\ Len(r) \in Nat
      <4>1. Len(d) = 0 \/ Len(d) \in DOMAIN d
        OBVIOUS
      <4> QED
        BY SMTT(30), <3>2, <3>3, <3>4, <4>1 DEF InBatch
    <3>6. s = c \o r
      BY <1>0, <2>1 DEF SyncInv
    <3>7. Len(s) = n + Len(r) /\ n # 0 /\ s[n] = c[n] /\ \A i \in 1..Len(r) : s[n + i] = r[i]
      <4>1. n \in Nat /\ n # 0
        BY <1>2, <3>2
      <4>2. n \in 1..n
        BY <4>1
      <4>3. /\ Len(s) = n + Len(r)
            /\ \A i \in 1..n : s[i] = c[i]
            /\ \A i \in 1..Len(r) : s[n + i] = r[i]
        <5>1. /\ Len(c \o r) = Len(c) + Len(r)
              /\ \A i \in 1..Len(c) : (c \o r)[i] = c[i]
              /\ \A i \in 1..Len(r) : (c \o r)[Len(c) + i] = r[i]
          BY ConcatIs
        <5> QED
          BY <1>2, <3>6, <5>1
      <4> QED
        BY <4>1, <4>2, <4>3
    <3>8. ASSUME NEW k \in 1..s[n].calls
          PROVE  n + k <= Len(s) /\ s[n + k] = Result(s[n].turn, k)
      <4>1. s[n].calls = Len(d) /\ s[n].turn = turns
        BY <3>2, <3>3, <3>7
      <4>2. k \in 1..Len(r)
        BY <3>5, <4>1
      <4>3. s[n + k] = r[k] /\ r[k] = Result(turns, k)
        BY <3>2, <3>7, <4>2
      <4>4. n + k <= Len(s)
        <5>1. PICK l \in Nat : l = Len(r)
          BY <3>5
        <5>2. Len(s) = n + l /\ k \in 1..l /\ n \in Nat
          BY <1>2, <3>7, <4>2, <5>1
        <5> QED
          BY <5>1, <5>2
      <4> QED
        BY <4>1, <4>3, <4>4
    <3>9. Full(s, n)
      BY <3>8 DEF Full
    <3> QED
      BY <3>1, <3>9 DEF FullBut
  <2>4. Open' = 0 /\ run'.pc # "streaming"
    BY <2>1 DEF Open, Batching
  <2> QED
    BY <1>1, <2>1, <2>2, <2>3, <2>4 DEF BlockInv
<1>12. CASE HandleRunFailure
  <2>1. PICK stop \in {"aborted", "error"} : messages' = Append(messages, Answer(0, stop, 0))
    BY <1>0, <1>12, FailureIs
  <2>2. run'.pc = "failed"
    BY <1>0, <1>12, FailureIs
  <2>3. PICK m : m = Answer(0, stop, 0)
    OBVIOUS
  <2>4. m \in Anything /\ m.role = "assistant" /\ m.turn = 0 /\ m.calls = 0
    BY <2>3 DEF Answer, Anything, Answered, Stops
  <2>5. Paired(Append(s, m)) /\ Distinct(Append(s, m)) /\ Blank(Append(s, m))
    BY <1>1, <2>4, SaidKeeps
  <2> QED
    BY <2>1, <2>2, <2>3, <2>5 DEF BlockInv
<1>13. CASE FinishRun \/ Panic \/ Lost
  <2>1. /\ run' = NoRun \/ run' = [NoRun EXCEPT !.pc = "failing"]
        /\ messages' = messages
    BY <1>13, FaultIs DEF FinishRun, agentVars
  <2>2. run'.pc \in {"none", "failing"}
    BY <2>1 DEF NoRun
  <2> QED
    BY <1>3, <2>1, <2>2 DEF Batching
<1>14. ASSUME NEW d \in Caller, Begin(d)
       PROVE  BlockInv'
  <2>1. UNCHANGED <<messages, turns>>
    BY <1>0, <1>14, BeginIs
  <2>2. CASE active = 0
    <3>1. run'.pc \in {"firstPoll", "prologue", "failing"} /\ run'.base = messages
      BY <1>0, <1>14, <2>2, BeginIs
    <3>2. Open' = 0 /\ run'.pc # "streaming"
      BY <3>1 DEF Open, Batching
    <3>3. FullBut(s, Len(s), 0)
      BY DEF FullBut
    <3> QED
      BY <1>1, <2>1, <3>1, <3>2, <3>3 DEF BlockInv
  <2>3. CASE active # 0
    <3>1. UNCHANGED <<aborted, run>>
      BY <1>0, <1>14, <2>3, BeginIs
    <3> QED
      BY <2>1, <3>1 DEF BlockInv, Open, Talk
  <2> QED
    BY <2>2, <2>3
<1> QED
  BY <1>4, <1>5, <1>6, <1>7, <1>8, <1>9, <1>10, <1>11, <1>12, <1>13, <1>14, Steps DEF RunLoop


\* A result of a call stands behind its answer, at the place of the call.
LEMMA PairsAreBehind ==
  ASSUME NEW s \in Seq(Anything), Paired(s), Distinct(s), Blank(s),
         NEW i \in DOMAIN s, s[i].role = "assistant", NEW k \in 1..s[i].calls,
         NEW j \in DOMAIN s, s[j] = Result(s[i].turn, k)
  PROVE  j = i + k /\ \A n \in 1..k : s[i + n] = Result(s[i].turn, n)
<1>1. s[j].role = "toolResult" /\ s[j].turn = s[i].turn /\ s[j].call = k
  BY DEF Result
<1>2. PICK h \in 1..(j - 1) :
        /\ s[h].role = "assistant" /\ s[h].turn = s[j].turn
        /\ s[j].call <= s[h].calls /\ j = h + s[j].call
        /\ \A n \in 1..s[j].call : s[h + n] = Result(s[j].turn, n)
  BY <1>1 DEF Paired, PairedAt
<1>3. h \in DOMAIN s /\ s[i].calls \in Nat /\ k # 0
  <2>1. j \in 1..Len(s) /\ Len(s) \in Nat /\ DOMAIN s = 1..Len(s)
    OBVIOUS
  <2>2. s[i] \in Anything
    OBVIOUS
  <2>3. s[i].calls \in Nat
    BY <2>2, RolesAre
  <2>4. h \in 1..Len(s)
    BY <1>2, <2>1
  <2> QED
    BY <2>1, <2>3, <2>4
<1>4. s[i].turn # 0
  BY <1>3 DEF Blank
<1>5. h = i
  BY <1>1, <1>2, <1>3, <1>4 DEF Distinct
<1> QED
  BY <1>1, <1>2, <1>5

LEMMA BehindIsAnswered ==
  ASSUME NEW s \in Seq(Anything), Paired(s), Distinct(s), Blank(s), NEW whole \in BOOLEAN,
         NEW i \in DOMAIN s, s[i].role = "assistant", whole => Full(s, i)
  PROVE  AnsweredAt(s, i, whole)
<1>1. /\ DOMAIN s = 1..Len(s) /\ Len(s) \in Nat /\ i \in 1..Len(s)
      /\ \A m : m \in ToSet(s) <=> \E j \in DOMAIN s : s[j] = m
  BY DEF ToSet
<1>2. s[i].calls \in Nat
  <2>1. s[i] \in Anything
    OBVIOUS
  <2> QED
    BY <2>1, RolesAre
<1> DEFINE answered == {k \in 1..s[i].calls : Result(s[i].turn, k) \in ToSet(s)}
<1>3. ASSUME NEW k \in answered
      PROVE  /\ \A j \in 1..k : j \in answered
             /\ i + k <= Len(s) /\ s[i + k] = Result(s[i].turn, k)
             /\ \A j \in DOMAIN s : s[j] = s[i + k] => j = i + k
  <2>1. PICK j \in DOMAIN s : s[j] = Result(s[i].turn, k)
    BY <1>1, <1>3
  <2>2. k \in 1..s[i].calls
    BY <1>3
  <2>3. j = i + k /\ \A n \in 1..k : s[i + n] = Result(s[i].turn, n)
    BY <2>1, <2>2, PairsAreBehind
  <2>4. ASSUME NEW n \in 1..k PROVE n \in answered
    <3>1. i + n \in DOMAIN s /\ n \in 1..s[i].calls
      BY SMTT(30), <1>1, <1>2, <2>2, <2>3
    <3>2. s[i + n] = Result(s[i].turn, n)
      BY <2>3
    <3> QED
      BY <1>1, <3>1, <3>2
  <2>5. i + k <= Len(s) /\ s[i + k] = Result(s[i].turn, k)
    BY <1>1, <2>1, <2>3
  <2>6. ASSUME NEW h \in DOMAIN s, s[h] = s[i + k] PROVE h = i + k
    <3>1. s[h] = Result(s[i].turn, k)
      BY <2>5, <2>6
    <3> QED
      BY <2>2, <3>1, PairsAreBehind
  <2> QED
    BY <2>4, <2>5, <2>6
<1>4. ASSUME whole PROVE answered = 1..s[i].calls
  <2>1. ASSUME NEW k \in 1..s[i].calls PROVE Result(s[i].turn, k) \in ToSet(s)
    <3>1. i + k <= Len(s) /\ s[i + k] = Result(s[i].turn, k)
      BY <1>4 DEF Full
    <3>2. i + k \in DOMAIN s
      BY <1>1, <1>2, <3>1
    <3> QED
      BY <1>1, <3>1, <3>2
  <2> QED
    BY <2>1
<1> QED
  BY <1>3, <1>4 DEF AnsweredAt

\* What stands behind one message has moved on by one.
LEMMA BehindOne ==
  ASSUME NEW e \in Anything, NEW s \in Seq(Anything)
  PROVE  /\ <<e>> \o s \in Seq(Anything) /\ Len(<<e>> \o s) = Len(s) + 1 /\ Len(s) \in Nat
         /\ DOMAIN s = 1..Len(s) /\ DOMAIN (<<e>> \o s) = 1..(Len(s) + 1)
         /\ (<<e>> \o s)[1] = e
         /\ \A h \in DOMAIN s : (<<e>> \o s)[h + 1] = s[h]
<1>1. <<e>> \in Seq(Anything) /\ Len(<<e>>) = 1 /\ <<e>>[1] = e
  OBVIOUS
<1>2. PICK c \in Seq(Anything) : c = <<e>>
  BY <1>1
<1>3. Len(c) = 1 /\ c[1] = e
  BY <1>1, <1>2
<1>4. /\ c \o s \in Seq(Anything) /\ Len(s) \in Nat /\ Len(c \o s) = Len(c) + Len(s)
      /\ \A i \in 1..Len(c) : (c \o s)[i] = c[i]
      /\ \A i \in 1..Len(s) : (c \o s)[Len(c) + i] = s[i]
  BY ConcatIs
<1>5. DOMAIN s = 1..Len(s) /\ DOMAIN (c \o s) = 1..Len(c \o s)
  BY <1>4
<1>6. \A h \in 1..Len(s) : 1 + h = h + 1
  OBVIOUS
<1> QED
  BY SMTT(30), <1>2, <1>3, <1>4, <1>5, <1>6

LEMMA BehindSystem ==
  ASSUME NEW s \in Seq(Anything), NEW i \in DOMAIN s, s[i].role = "assistant",
         NEW whole \in BOOLEAN, AnsweredAt(s, i, whole)
  PROVE  AnsweredAt(<<System>> \o s, i + 1, whole)
<1>1. PICK u : u = <<System>> \o s
  OBVIOUS
<1>2. /\ u \in Seq(Anything) /\ Len(u) = Len(s) + 1 /\ Len(s) \in Nat
      /\ DOMAIN s = 1..Len(s) /\ DOMAIN u = 1..(Len(s) + 1)
      /\ u[1] = System /\ \A h \in DOMAIN s : u[h + 1] = s[h]
  BY SMTT(30), <1>1, BehindOne DEF Anything
<1>3. \A t, k : Result(t, k) # System
  <2>1. \A t, k : Result(t, k).role = "toolResult"
    BY DEF Result
  <2> QED
    BY <2>1 DEF System
<1>4. ASSUME NEW j \in DOMAIN u PROVE j = 1 \/ \E h \in DOMAIN s : j = h + 1
  <2>1. j = 1 \/ j - 1 \in 1..Len(s)
    BY <1>2
  <2>2. j = (j - 1) + 1
    BY <1>2
  <2> QED
    BY <1>2, <2>1, <2>2
<1>5. \A h \in DOMAIN s : h + 1 \in DOMAIN u
  BY <1>2
<1>6. \A t, k : Result(t, k) \in ToSet(u) <=> Result(t, k) \in ToSet(s)
  <2>1. ASSUME NEW t, NEW k, Result(t, k) \in ToSet(u) PROVE Result(t, k) \in ToSet(s)
    <3>1. PICK j \in DOMAIN u : u[j] = Result(t, k)
      BY <2>1 DEF ToSet
    <3>2. PICK h \in DOMAIN s : j = h + 1
      BY <1>2, <1>3, <1>4, <3>1
    <3>3. s[h] = Result(t, k)
      BY <1>2, <3>1, <3>2
    <3> QED
      BY <3>3 DEF ToSet
  <2>2. ASSUME NEW t, NEW k, Result(t, k) \in ToSet(s) PROVE Result(t, k) \in ToSet(u)
    <3>1. PICK h \in DOMAIN s : s[h] = Result(t, k)
      BY <2>2 DEF ToSet
    <3>2. u[h + 1] = Result(t, k) /\ h + 1 \in DOMAIN u
      BY <1>2, <1>5, <3>1
    <3> QED
      BY <3>2 DEF ToSet
  <2> QED
    BY <2>1, <2>2
<1>7. u[i + 1] = s[i] /\ i \in Nat /\ s[i].calls \in Nat
  <2>1. s[i] \in Anything /\ i \in 1..Len(s)
    BY <1>2
  <2> QED
    BY <1>2, <2>1, RolesAre
<1> DEFINE answered == {k \in 1..s[i].calls : Result(s[i].turn, k) \in ToSet(s)}
<1>8. answered = {k \in 1..u[i + 1].calls : Result(u[i + 1].turn, k) \in ToSet(u)}
  BY <1>6, <1>7
<1>9. /\ whole => answered = 1..s[i].calls
      /\ \A k \in answered :
           /\ \A j \in 1..k : j \in answered
           /\ i + k <= Len(s) /\ s[i + k] = Result(s[i].turn, k)
           /\ \A j \in DOMAIN s : s[j] = s[i + k] => j = i + k
  BY DEF AnsweredAt
<1>10. ASSUME NEW k \in answered
       PROVE  /\ (i + 1) + k <= Len(u) /\ u[(i + 1) + k] = Result(u[i + 1].turn, k)
              /\ \A j \in DOMAIN u : u[j] = u[(i + 1) + k] => j = (i + 1) + k
  <2>1. k \in Nat /\ i + k <= Len(s) /\ s[i + k] = Result(s[i].turn, k) /\ k >= 1
    <3>1. k \in 1..s[i].calls
      OBVIOUS
    <3>2. k \in Nat /\ k >= 1
      BY <1>7, <3>1
    <3> QED
      BY <1>9, <3>2
  <2>2. i + k \in 1..Len(s) /\ (i + 1) + k = (i + k) + 1
    <3>1. i \in Nat /\ k \in Nat /\ k >= 1 /\ i + k <= Len(s) /\ Len(s) \in Nat
      BY <1>2, <1>7, <2>1
    <3>2. PICK n \in Nat : n = Len(s)
      BY <3>1
    <3> QED
      BY <3>1, <3>2
  <2>3. i + k \in DOMAIN s /\ u[(i + 1) + k] = s[i + k]
    BY <1>2, <2>2
  <2>4. (i + 1) + k <= Len(u)
    BY <1>2, <1>7, <2>1
  <2>5. ASSUME NEW j \in DOMAIN u, u[j] = u[(i + 1) + k] PROVE j = (i + 1) + k
    <3>1. u[j] # System
      BY <1>3, <2>1, <2>3, <2>5
    <3>2. PICK h \in DOMAIN s : j = h + 1
      BY <1>2, <1>4, <3>1
    <3>3. s[h] = s[i + k]
      BY <1>2, <2>3, <2>5, <3>2
    <3>4. h = i + k
      BY <1>9, <2>3, <3>3
    <3> QED
      BY <2>2, <3>2, <3>4
  <2> QED
    BY <1>7, <2>1, <2>3, <2>4, <2>5
<1>11. whole => answered = 1..u[i + 1].calls
  BY <1>7, <1>9
<1>12. \A k \in answered : \A j \in 1..k : j \in answered
  BY <1>9
<1> HIDE DEF answered
<1> QED
  BY <1>1, <1>8, <1>10, <1>11, <1>12 DEF AnsweredAt

CallsInv == AgentInv /\ BatchInv /\ BlockInv

LEMMA CallsInit == Init => CallsInv
<1> SUFFICES ASSUME Init PROVE CallsInv
  OBVIOUS
<1>1. run.pc = "none" /\ messages = <<>>
  BY RunEmpty DEF Init
<1>2. BatchInv /\ BlockInv
  BY <1>1 DEF BatchInv, BlockInv, Batching, Paired, Distinct, Blank
<1> QED
  BY <1>2, AgentInvInit DEF CallsInv

LEMMA CallsKept == CallsInv /\ [Next]_vars => CallsInv'
<1> SUFFICES ASSUME CallsInv, [Next]_vars
             PROVE  CallsInv'
  OBVIOUS
<1>1. AgentInv'
  BY AgentInvKept DEF CallsInv
<1>2. CASE Next
  BY <1>1, <1>2, BatchInvKept, BlockInvKept DEF CallsInv
<1>3. CASE UNCHANGED vars
  <2>1. UNCHANGED <<messages, aborted, run, turns>>
    BY <1>3 DEF vars, agentVars
  <2>2. BatchInv' /\ BlockInv'
    BY <2>1 DEF CallsInv, BatchInv, BlockInv, Open, Talk, At
  <2> QED
    BY <1>1, <2>2 DEF CallsInv
<1> QED
  BY <1>2, <1>3

THEOREM CallsHold == Spec => []CallsInv
BY CallsInit, CallsKept, PTL DEF Spec

\* Whenever the provider is asked, the calls of every answer have their results
\* right behind it, in the order of the calls and each once, and all of them
\* unless the run was aborted: in whatever order the parallel futures end
\* (execute_tool_calls_parallel of agent-loop.rs), for any number of calls.
THEOREM EveryCallIsAnswered == Spec => []CallsAnswered
<1>1. ASSUME CallsInv PROVE CallsAnswered
  <2>1. SUFFICES ASSUME At("request"), NEW i \in DOMAIN run.context,
                        run.context[i].role = "assistant"
                 PROVE  AnsweredAt(run.context, i, i > Len(Seed \o run.base) /\ ~aborted)
    BY DEF CallsAnswered
  <2>2. /\ Shapes /\ SyncInv /\ BlockInv
        /\ messages \in Seq(Anything) /\ run.base \in Seq(Anything) /\ aborted \in BOOLEAN
    BY <1>1, Fields DEF CallsInv, AgentInv, TalkInv, Shapes
  <2>3. run.context = Seed \o messages
    BY <2>1, <2>2 DEF SyncInv, At, Reading
  <2>4. PICK s \in Seq(Anything), b \in Seq(Anything) : s = messages /\ b = run.base
    BY <2>2
  <2>5. PICK whole \in BOOLEAN : whole = (i > Len(Seed \o b) /\ ~aborted)
    OBVIOUS
  <2>6. Paired(s) /\ Distinct(s) /\ Blank(s)
    BY <2>2, <2>4 DEF BlockInv
  <2>7. ASSUME NEW h \in DOMAIN s, s[h].role = "assistant", whole => h > Len(b)
        PROVE  AnsweredAt(s, h, whole)
    <3>1. ASSUME whole PROVE Full(s, h)
      <4>1. h > Len(b) /\ ~aborted
        BY <2>5, <2>7, <3>1
      <4>2. h # 0
        OBVIOUS
      <4>3. FullBut(s, Len(b), 0)
        BY <2>1, <2>2, <2>4, <4>1 DEF BlockInv, Open, Batching, At
      <4> QED
        BY <2>7, <4>1, <4>2, <4>3 DEF FullBut
    <3> QED
      BY <2>6, <2>7, <3>1, BehindIsAnswered
  <2>8. CASE Seed = <<>>
    <3>1. Seed \o s = s /\ Seed \o b = b
      BY <2>8
    <3> QED
      BY <2>1, <2>3, <2>4, <2>5, <2>7, <3>1
  <2>9. CASE Seed = <<System>>
    <3>1. PICK u \in Seq(Anything) : u = <<System>> \o s
      BY <2>9, SeedIs, SequencesAre
    <3>2. /\ Len(u) = Len(s) + 1 /\ Len(<<System>> \o b) = Len(b) + 1
          /\ u[1] = System /\ \A h \in DOMAIN s : u[h + 1] = s[h]
      BY SMTT(30), <3>1, BehindOne DEF Anything
    <3>3. i \in DOMAIN u /\ u[i].role = "assistant"
      BY <2>1, <2>3, <2>4, <2>9, <3>1
    <3>4. i # 1
      BY <3>2, <3>3 DEF System
    <3>5. PICK h \in DOMAIN s : i = h + 1
      <4>1. i \in 2..(Len(s) + 1)
        BY <3>2, <3>3, <3>4
      <4>2. i - 1 \in 1..Len(s) /\ i = (i - 1) + 1
        BY <4>1
      <4> QED
        BY <4>2
    <3>6. s[h].role = "assistant" /\ (whole => h > Len(b))
      <4>1. PICK n \in Nat : n = Len(b)
        OBVIOUS
      <4>2. s[h].role = "assistant"
        BY <3>2, <3>3, <3>5
      <4>3. h \in Nat
        OBVIOUS
      <4>4. whole => i > n + 1
        BY <2>5, <2>9, <3>2, <4>1
      <4>5. whole => h > n
        BY SMTT(30), <3>5, <4>3, <4>4
      <4> QED
        BY <4>1, <4>2, <4>5
    <3>7. AnsweredAt(s, h, whole)
      BY <2>7, <3>6
    <3>8. AnsweredAt(u, i, whole)
      BY <3>1, <3>5, <3>6, <3>7, BehindSystem
    <3> QED
      BY <2>3, <2>4, <2>5, <2>9, <3>1, <3>8
  <2> QED
    BY <2>8, <2>9 DEF Seed
<1> QED
  BY <1>1, CallsHold, PTL

-----------------------------------------------------------------------------
(* An answer that failed is the last thing its run adds.                   *)

Broke(m) == m.role = "assistant" /\ m.stop \in {"error", "aborted"}

FailInv ==
  /\ run.failed => /\ run.pc \in {"turnEnd", "finish"} /\ run.fresh # <<>>
                   /\ Last(messages) = Last(run.fresh)
  /\ \A i \in DOMAIN run.fresh : Broke(run.fresh[i]) => i = Len(run.fresh) /\ run.failed

LEMMA FailInit == Init => FailInv
BY DEF Init, NoRun, FailInv

LEMMA FailInvKept == AgentInv /\ FailInv /\ Next => FailInv'
<1> SUFFICES ASSUME AgentInv, FailInv, Next
             PROVE  FailInv'
  OBVIOUS
<1>0. /\ Shapes /\ PhaseInv /\ RunnerInv
      /\ run.fresh \in Seq(Anything) /\ messages \in Seq(Anything) /\ run.results \in Seq(Results)
  BY Fields DEF AgentInv, TalkInv, PhaseInv, Shapes
\* A run that is not failing adds what did not fail.
<1>1. ASSUME NEW e \in Anything, ~Broke(e), ~run.failed, run'.failed = run.failed,
             run'.fresh = Append(run.fresh, e)
      PROVE  FailInv'
  <2>1. PICK s \in Seq(Anything) : s = run.fresh
    BY <1>0
  <2>2. \A i \in DOMAIN s : ~Broke(s[i])
    BY <1>1, <2>1 DEF FailInv
  <2>3. \A i \in DOMAIN Append(s, e) : ~Broke(Append(s, e)[i])
    BY <1>1, <2>2
  <2> QED
    BY <1>1, <2>1, <2>3 DEF FailInv
<1>2. ASSUME run'.fresh = <<>>, ~run'.failed
      PROVE  FailInv'
  BY <1>2 DEF FailInv
<1>3. ASSUME UNCHANGED messages, run'.fresh = run.fresh, run'.failed = run.failed,
             run'.failed => run'.pc \in {"turnEnd", "finish"}
      PROVE  FailInv'
  BY <1>3 DEF FailInv
<1>4. CASE RunQuiet
  <2>1. UNCHANGED <<run, active>>
    BY <1>4, QuietSteps
  <2>2. messages' = messages \/ active = 0
    BY <1>4 DEF RunQuiet, Enqueue, ClearQueues, Reset, Refused, Prompt, Continue, TakeNotify,
                DrainForContinue, Await, LockFails, agentVars
  <2>3. CASE messages' = messages
    BY <1>3, <2>1, <2>3 DEF FailInv
  <2>4. CASE active = 0
    <3>1. ~run.failed
      BY <1>0, <2>4 DEF RunnerInv, FailInv
    <3> QED
      BY <2>1, <3>1 DEF FailInv
  <2> QED
    BY <2>2, <2>3, <2>4
<1>5. CASE Abort
  BY <1>5 DEF Abort, agentVars, FailInv
<1>6. CASE Prologue \/ Inject
  <2>1. PICK next \in {"firstPoll", "request"} : Injected(next) /\ run.pc \in {"prologue", "inject"}
    BY <1>6 DEF Prologue, Inject, At
  <2>2. PICK m \in Users : m = Head(run.toEmit)
    <3>1. run.toEmit \in Seq(Users) /\ run.toEmit # <<>>
      BY <1>0, <2>1, Fields DEF Injected
    <3> QED
      BY <3>1, SequencesAre
  <2>3. run'.fresh = Append(run.fresh, m) /\ run'.failed = run.failed
    BY <1>0, <2>1, <2>2, InjectedIs
  <2>4. m \in Anything /\ ~Broke(m) /\ ~run.failed
    BY <2>1, UsersAre DEF Broke, FailInv
  <2> QED
    BY <1>1, <2>3, <2>4
<1>7. CASE FirstPoll \/ PrepareTurn \/ PollFollowUps
  <2>1. SameTalk /\ UNCHANGED messages /\ run.pc \in {"firstPoll", "top"}
    BY <1>0, <1>7, FirstPollIs, PrepareTurnIs, PollFollowUpsIs DEF agentVars
  <2>2. ~run.failed
    BY <2>1 DEF FailInv
  <2> QED
    BY <1>3, <2>1, <2>2 DEF SameTalk
<1>8. CASE TurnEnd
  <2>1. /\ SameTalk /\ UNCHANGED messages
        /\ run'.pc = "finish" \/ ~run.failed
    BY <1>0, <1>8, TurnEndIs
  <2> QED
    BY <1>3, <2>1 DEF SameTalk
<1>9. CASE Request
  <2>1. run.pc = "request" /\ run'.fresh = run.fresh /\ run'.failed = run.failed /\ UNCHANGED messages
    BY <1>0, <1>9, RequestIs
  <2>2. ~run.failed
    BY <2>1 DEF FailInv
  <2> QED
    BY <1>3, <2>1, <2>2
<1>10. CASE EndOfStream
  <2>1. PICK m \in Answers(turns) :
           /\ m \in Anything /\ messages' = Append(messages, m)
           /\ run'.pc \in {"turnEnd"} \cup Batching /\ (run'.pc = "turnEnd" <=> m.calls = 0)
           /\ run'.fresh = Append(run.fresh, m) /\ run'.failed = Failed(m)
    BY <1>0, <1>10, EndOfStreamIs
  <2>2. m.role = "assistant" /\ (Failed(m) <=> Broke(m)) /\ (Failed(m) => m.calls = 0)
    BY <2>1 DEF Answers, Answer, Failed, Broke
  <2>3. PICK s \in Seq(Anything), t \in Seq(Anything) : s = run.fresh /\ t = messages
    BY <1>0
  <2>4. ~run.failed
    BY <1>10 DEF EndOfStream, At, FailInv
  <2>5. \A i \in DOMAIN s : ~Broke(s[i])
    BY <2>3, <2>4 DEF FailInv
  <2>6. Append(s, m) # <<>> /\ Last(Append(s, m)) = m /\ Last(Append(t, m)) = m
    <3>1. Append(s, m)[Len(Append(s, m))] = m /\ Append(t, m)[Len(Append(t, m))] = m
      <4>1. m \in Anything /\ s \in Seq(Anything) /\ t \in Seq(Anything)
        BY <2>1
      <4>2. \A z \in Seq(Anything) : Append(z, m)[Len(Append(z, m))] = m
        BY Zenon, <4>1, AppendEnds
      <4> QED
        BY Zenon, <4>1, <4>2
    <3>2. Append(s, m) # <<>>
      BY Zenon, <2>1, AppendIsNotEmpty
    <3> QED
      BY <3>1, <3>2 DEF Last
  <2>7. ASSUME NEW i \in DOMAIN Append(s, m), Broke(Append(s, m)[i])
        PROVE  i = Len(Append(s, m)) /\ Failed(m)
    <3>1. i \in 1..(Len(s) + 1) /\ Len(Append(s, m)) = Len(s) + 1 /\ Append(s, m)[Len(s) + 1] = m
      BY <2>1, AppendIs
    <3>2. i \notin DOMAIN s
      BY <2>1, <2>5, <2>7, AppendIs
    <3>3. i = Len(s) + 1
      BY <3>1, <3>2
    <3> QED
      BY <2>2, <2>7, <3>1, <3>3
  <2> QED
    BY <2>1, <2>2, <2>3, <2>6, <2>7 DEF FailInv
<1>11. CASE StartCall \/ EndCallInTurn \/ PrepareCall \/ EndQueuedCall \/ EmitResult
  <2>1. run.pc \in Batching /\ run'.fresh = run.fresh /\ run'.failed = run.failed
    BY <1>0, <1>11, CallStepsAre DEF PhaseInv
  <2>2. ~run.failed
    BY <2>1 DEF FailInv, Batching
  <2> QED
    BY <2>1, <2>2 DEF FailInv
<1>12. CASE EndBatch
  <2>1. /\ run.pc \in Batching /\ run'.fresh = run.fresh \o run.results
        /\ run'.failed = run.failed
    BY <1>0, <1>12, EndBatchIs
  <2>2. ~run.failed
    BY <2>1 DEF FailInv, Batching
  <2>3. PICK s \in Seq(Anything), r \in Seq(Results) : s = run.fresh /\ r = run.results
    BY <1>0
  <2>4. \A i \in DOMAIN s : ~Broke(s[i])
    BY <2>2, <2>3 DEF FailInv
  <2>5. \A i \in DOMAIN r : ~Broke(r[i])
    <3>1. \A m \in Results : m.role = "toolResult"
      BY DEF Results
    <3> QED
      BY <3>1 DEF Broke
  <2>6. \A i \in DOMAIN (s \o r) : ~Broke((s \o r)[i])
    <3>1. ASSUME NEW i \in DOMAIN (s \o r) PROVE ~Broke((s \o r)[i])
      <4>1. CASE i \in DOMAIN s
        <5>1. (s \o r)[i] = s[i]
          BY <4>1
        <5> QED
          BY <2>4, <4>1, <5>1
      <4>2. CASE i \notin DOMAIN s
        <5>1. i - Len(s) \in DOMAIN r /\ (s \o r)[i] = r[i - Len(s)]
          BY <4>2
        <5> QED
          BY <2>5, <5>1
      <4> QED
        BY <4>1, <4>2
    <3> QED
      BY <3>1
  <2> QED
    BY <2>1, <2>2, <2>3, <2>6 DEF FailInv
<1>13. CASE HandleRunFailure
  <2>1. run.pc = "failing" /\ SameTalk
    BY <1>0, <1>13, FailureIs
  <2>2. ~run.failed
    BY <2>1 DEF FailInv
  <2> QED
    BY <2>1, <2>2 DEF FailInv, SameTalk
<1>14. CASE FinishRun \/ Panic \/ Lost
  <2>1. run' = NoRun \/ run' = [NoRun EXCEPT !.pc = "failing"]
    BY <1>14, FaultIs DEF FinishRun
  <2>2. run'.fresh = <<>> /\ ~run'.failed
    BY <2>1 DEF NoRun
  <2> QED
    BY <1>2, <2>2
<1>15. ASSUME NEW c \in Caller, Begin(c)
       PROVE  FailInv'
  <2>1. CASE MayBegin
    <3>1. run'.fresh = <<>> /\ ~run'.failed
      BY <1>15, <2>1 DEF Begin, NoRun
    <3> QED
      BY <1>2, <3>1
  <2>2. CASE ~MayBegin
    BY <1>15, <2>2 DEF Begin, FailInv
  <2> QED
    BY <2>1, <2>2
<1> QED
  BY <1>4, <1>5, <1>6, <1>7, <1>8, <1>9, <1>10, <1>11, <1>12, <1>13, <1>14, <1>15, Steps DEF RunLoop

FailureInv == AgentInv /\ FailInv

LEMMA FailureKept == FailureInv /\ [Next]_vars => FailureInv'
<1> SUFFICES ASSUME FailureInv, [Next]_vars
             PROVE  FailureInv'
  OBVIOUS
<1>1. AgentInv'
  BY AgentInvKept DEF FailureInv
<1>2. CASE Next
  BY <1>1, <1>2, FailInvKept DEF FailureInv
<1>3. CASE UNCHANGED vars
  <2>1. UNCHANGED <<messages, run>>
    BY <1>3 DEF vars, agentVars
  <2> QED
    BY <1>1, <2>1 DEF FailureInv, FailInv
<1> QED
  BY <1>2, <1>3

\* An answer that failed or was aborted is the last message of its run, and
\* nothing was taken off a queue or prepared for a turn behind it (run_loop of
\* agent-loop.rs): whatever waits in the queues and whatever the hooks ask for,
\* for any number of callers, turns, runs and faults.
THEOREM FailuresEndRuns == Spec => []FailureIsLast
<1>1. Init => FailureInv
  BY AgentInvInit, FailInit DEF FailureInv
<1>2. ASSUME FailureInv PROVE FailureIsLast
  <2>1. SUFFICES ASSUME NEW i \in DOMAIN run.fresh, Broke(run.fresh[i])
                 PROVE  /\ i = Len(run.fresh) /\ Last(messages) = run.fresh[i]
                        /\ run.pending = <<>> /\ run.toEmit = <<>>
    BY DEF FailureIsLast, Broke
  <2>2. i = Len(run.fresh) /\ run.failed
    BY <1>2, <2>1 DEF FailureInv, FailInv
  <2>3. run.pc \in {"turnEnd", "finish"} /\ Last(messages) = Last(run.fresh)
    BY <1>2, <2>2 DEF FailureInv, FailInv
  <2>4. run.pending = <<>> /\ run.toEmit = <<>>
    BY <1>2, <2>3 DEF FailureInv, AgentInv, TalkInv, PhaseInv
  <2> QED
    BY <2>2, <2>3, <2>4 DEF Last
<1> QED
  BY <1>1, <1>2, FailureKept, PTL DEF Spec

=============================================================================
