------------------------------ MODULE AgentLoop ------------------------------
(***************************************************************************)
(* pi-agent-core: the Agent of agent.rs around the two nested loops of     *)
(* agent-loop.rs.  Callers prompt, continue, steer, abort, reset and wait  *)
(* for the agent from any thread; one run at a time polls the queues, asks *)
(* the provider, executes the tool calls of the answer one after another   *)
(* or in parallel, and reports everything it does as events, from which    *)
(* the agent keeps its own transcript.  A listener of those events may     *)
(* panic, and the future of a run may be dropped.                          *)
(*                                                                         *)
(* The state of the agent is behind a std Mutex: a call that panics with   *)
(* the guard in its hand poisons it, and from then on every lock().unwrap  *)
(* panics, those of the run included.                                      *)
(*                                                                         *)
(* What a message says, the setters, changes of the declared tools and the *)
(* hooks that replace a whole context are left out.  The provider and the  *)
(* tools are external.                                                     *)
(***************************************************************************)
EXTENDS Naturals, Sequences, FiniteSets, SequencesExt

CONSTANTS
  Caller,       \* threads that prompt, continue or wait for idle
  MaxCalls,     \* the most tool calls in one answer
  CallCounts,   \* how many tool calls an answer that has some may have
  MaxTurns,     \* bound: provider requests that succeed
  MaxRuns,      \* bound: runs, and faults, which count as runs
  Mode,         \* the modes of the two queues
  Limit,        \* bound: messages given to the agent, per way of giving them
  Waits,        \* bound: the runs whose end a caller may wait for
  Declares      \* the agent has a system prompt or tools to declare

ASSUME AgentConstants ==
  /\ IsFiniteSet(Caller)
  /\ Mode \in [{"steer", "followUp"} -> {"all", "oneAtATime"}]
  /\ Limit \in [{"prompt", "steer", "followUp", "prepared"} -> Nat]
  /\ {MaxCalls, MaxTurns, MaxRuns} \subseteq Nat
  /\ CallCounts \subseteq 1..MaxCalls
  /\ Declares \in BOOLEAN

Ways == DOMAIN Limit

\* AgentMessage: what a caller gave, an answer with its tool calls, or the
\* result of call k of the answer of a turn.
Input(way, n) == [role |-> "user", way |-> way, n |-> n]
Answer(t, stop, calls) ==
  [role |-> "assistant", turn |-> t, stop |-> stop, calls |-> calls]
Result(t, k) == [role |-> "toolResult", turn |-> t, call |-> k]
System == [role |-> "system"]

VARIABLES
  messages,     \* the agent's transcript, built from MessageEnd events
  streaming,    \* streaming_message is set
  pendingCalls, \* pending_tool_calls
  errored,      \* error_message is set
  queue,        \* the steering and follow-up queues
  active,       \* active_run: the number of the run, 0 for None
  aborted,      \* the abort signal of the active run
  poisoned,     \* a panic left the mutex of the agent poisoned
  caller,       \* where each caller is and the messages in its hand
  run,          \* the local state of the run that is executing
  sent, turns, runs, faults,  \* counters
  dropped       \* messages a panic, a dropped future or a clear threw away

agentVars == <<messages, streaming, pendingCalls, errored>>
vars == <<agentVars, queue, active, aborted, poisoned, caller, run, sent,
          turns, runs, faults, dropped>>

-----------------------------------------------------------------------------
NoRun ==
  [pc |-> "none", base |-> <<>>, context |-> <<>>, fresh |-> <<>>,
   pending |-> <<>>, toEmit |-> <<>>, first |-> TRUE, explicit |-> FALSE,
   more |-> TRUE, failed |-> FALSE, batch |-> <<>>, results |-> <<>>,
   terminate |-> TRUE]

Idle == [at |-> "idle", hand |-> <<>>, run |-> 0]

Init ==
  /\ messages = <<>> /\ streaming = FALSE /\ pendingCalls = {}
  /\ errored = FALSE
  /\ queue = [q \in {"steer", "followUp"} |-> <<>>]
  /\ active = 0 /\ aborted = FALSE /\ poisoned = FALSE
  /\ caller = [c \in Caller |-> Idle]
  /\ run = NoRun
  /\ sent = [w \in Ways |-> 0]
  /\ turns = 0 /\ runs = 0 /\ faults = 0
  /\ dropped = {}

\* PendingMessageQueue::drain.
Drained(q) ==
  IF Mode[q] = "all" \/ queue[q] = <<>> THEN queue[q] ELSE <<Head(queue[q])>>
Kept(q) ==
  IF Mode[q] = "all" \/ queue[q] = <<>> THEN <<>> ELSE Tail(queue[q])

-----------------------------------------------------------------------------
(* What any thread may call at any time, as long as lock().unwrap() works. *)

Lock == ~poisoned

\* steer and follow_up.
Enqueue(q) ==
  /\ Lock /\ sent[q] < Limit[q]
  /\ sent' = [sent EXCEPT ![q] = @ + 1]
  /\ queue' = [queue EXCEPT ![q] = Append(@, Input(q, sent[q] + 1))]
  /\ UNCHANGED <<agentVars, active, poisoned, aborted, caller, run, turns,
                 runs, faults, dropped>>

\* clear_all_queues (clear_steering_queue and clear_follow_up_queue clear one).
ClearQueues ==
  /\ Lock /\ \E q \in DOMAIN queue : queue[q] # <<>>
  /\ dropped' = dropped \cup UNION {ToSet(queue[q]) : q \in DOMAIN queue}
  /\ queue' = [q \in DOMAIN queue |-> <<>>]
  /\ UNCHANGED <<agentVars, active, poisoned, aborted, caller, run, sent,
                 turns, runs, faults>>

\* abort, or the signal that a caller of signal, a tool or a listener holds.
Abort ==
  /\ active # 0 /\ ~aborted
  /\ aborted' = TRUE
  /\ UNCHANGED <<agentVars, queue, active, poisoned, caller, run, sent, turns,
                 runs, faults, dropped>>

Reset ==
  /\ Lock /\ active = 0
  /\ messages' = <<>> /\ streaming' = FALSE /\ pendingCalls' = {}
  /\ errored' = FALSE
  /\ dropped' = dropped \cup (UNION {ToSet(queue[q]) : q \in DOMAIN queue})
                        \cup {m \in ToSet(messages) : m.role = "user"}
  /\ queue' = [q \in DOMAIN queue |-> <<>>]
  /\ UNCHANGED <<active, aborted, poisoned, caller, run, sent, turns, runs,
                 faults>>

\* Refused with the guard in the caller's hand, which poisons the mutex: reset
\* and continue_turn while a run is active, continue_turn with no message.
Refused ==
  /\ Lock /\ (active # 0 \/ messages = <<>>)
  /\ runs + faults < MaxRuns
  /\ faults' = faults + 1
  /\ poisoned' = TRUE
  /\ UNCHANGED <<agentVars, queue, active, aborted, caller, run, sent, turns,
                 runs, dropped>>

-----------------------------------------------------------------------------
(* prompt and continue: the test for an active run, the draining of the    *)
(* queues and the start of the run take the lock one after the other.      *)

To(c, at, hand) ==
  caller' = [caller EXCEPT ![c] = [Idle EXCEPT !.at = at, !.hand = hand]]

\* prompt_messages; with an active run it panics, its guard already dropped.
Prompt(c) ==
  /\ Lock /\ caller[c].at = "idle" /\ active = 0
  /\ sent["prompt"] < Limit["prompt"]
  /\ sent' = [sent EXCEPT !["prompt"] = @ + 1]
  /\ To(c, "begin", <<Input("prompt", sent["prompt"] + 1)>>)
  /\ UNCHANGED <<agentVars, queue, active, poisoned, aborted, run, turns,
                 runs, faults, dropped>>

\* continue_turn.
Continue(c) ==
  /\ Lock /\ caller[c].at = "idle" /\ active = 0 /\ runs + faults < MaxRuns
  /\ messages # <<>>
  /\ To(c, IF Last(messages).role = "assistant" THEN "drainSteer" ELSE "begin",
        <<>>)
  /\ UNCHANGED <<agentVars, queue, active, aborted, poisoned, run, sent, turns,
                 runs, faults, dropped>>

\* An empty hand after the last queue panics without the lock.
DrainForContinue(c) ==
  /\ Lock
  /\ \E q \in {"steer", "followUp"} :
       /\ caller[c].at = IF q = "steer" THEN "drainSteer" ELSE "drainFollowUp"
       /\ queue' = [queue EXCEPT ![q] = Kept(q)]
       /\ To(c, IF queue[q] # <<>> THEN "begin"
                ELSE IF q = "steer" THEN "drainFollowUp" ELSE "idle",
             Drained(q))
       /\ UNCHANGED <<agentVars, active, poisoned, aborted, run, sent, turns,
                      runs, faults, dropped>>

\* Mutant: the test for an active run was made when the prompt came.
MayBeginUntested == TRUE

\* run_agent_loop and its continuation seed the context with a leading system
\* message, which is never emitted.
Seed == IF Declares THEN <<System>> ELSE <<>>

\* run_agent_loop_continue tests again what continue_turn tested: it may panic
\* inside the catch_unwind.
FirstStep(hand) ==
  IF hand # <<>> THEN "prologue"
  ELSE IF messages = <<>> \/ Last(messages).role = "assistant" THEN "failing"
  ELSE "firstPoll"

\* run_with_lifecycle takes the lock and tests again for an active run: the
\* caller that comes second panics with its messages and the guard in its hand.
MayBegin == active = 0
Begin(c) ==
  /\ Lock /\ caller[c].at = "begin"
  /\ IF MayBegin
     THEN /\ runs' = runs + 1
          /\ active' = runs + 1
          /\ aborted' = FALSE
          /\ streaming' = FALSE /\ errored' = FALSE
          /\ To(c, "running", <<>>)
          /\ run' = [NoRun EXCEPT
               !.pc = FirstStep(caller[c].hand), !.base = messages,
               !.context = Seed \o messages, !.toEmit = caller[c].hand]
          /\ UNCHANGED <<poisoned, dropped>>
     ELSE /\ dropped' = dropped \cup ToSet(caller[c].hand)
          /\ caller' = [caller EXCEPT ![c] = Idle]
          /\ poisoned' = TRUE
          /\ UNCHANGED <<runs, active, aborted, streaming, errored, run>>
  /\ UNCHANGED <<messages, pendingCalls, queue, sent, turns, faults>>

\* A caller on its way finds the mutex poisoned.
LockFails(c) ==
  /\ poisoned /\ caller[c].at \in {"drainSteer", "drainFollowUp", "begin"}
  /\ dropped' = dropped \cup ToSet(caller[c].hand)
  /\ caller' = [caller EXCEPT ![c] = Idle]
  /\ UNCHANGED <<agentVars, queue, active, aborted, poisoned, run, sent,
                 turns, runs, faults>>

-----------------------------------------------------------------------------
(* wait_for_idle takes the run's Notify under the lock and asks it for a   *)
(* notification after the lock is gone; notify_waiters leaves no permit.   *)

TakeNotify(c) ==
  /\ Lock /\ caller[c].at = "idle" /\ active # 0 /\ active \in Waits
  /\ caller' = [caller EXCEPT ![c] =
                  [Idle EXCEPT !.at = "holds", !.run = active]]
  /\ UNCHANGED <<agentVars, queue, active, poisoned, aborted, run, sent,
                 turns, runs, faults, dropped>>

Await(c) ==
  /\ caller[c].at = "holds"
  /\ caller' = [caller EXCEPT ![c].at = "waits"]
  /\ UNCHANGED <<agentVars, queue, active, poisoned, aborted, run, sent,
                 turns, runs, faults, dropped>>

-----------------------------------------------------------------------------
(* The run.  Every action ends at an await: an emit, a hook, the provider. *)

At(pc) == run.pc = pc
Going(pc) == run' = [run EXCEPT !.pc = pc]
RunOnly ==
  UNCHANGED <<active, poisoned, aborted, caller, runs, faults, dropped>>

\* emit(MessageStart), emit(MessageEnd) of a whole message: the agent's
\* transcript takes it; the loop pushes it to its context and new_messages.
Emitted(m) ==
  /\ Lock
  /\ messages' = Append(messages, m)
  /\ streaming' = FALSE

Injected(next) ==
  LET m == Head(run.toEmit) IN
  /\ run.toEmit # <<>>
  /\ Emitted(m)
  /\ run' = [run EXCEPT !.toEmit = Tail(@), !.context = Append(@, m),
                        !.fresh = Append(@, m),
                        !.pc = IF Len(run.toEmit) = 1 THEN next ELSE @]
  /\ UNCHANGED <<pendingCalls, errored, queue, sent, turns>>
  /\ RunOnly

\* run_agent_loop emits the prompts (run_agent_loop_continue has none).
Prologue == At("prologue") /\ Injected("firstPoll")

\* get_steering_messages: the drain of the steering queue.
PollSteering(r) ==
  /\ queue' = [queue EXCEPT !["steer"] = Kept("steer")]
  /\ run' = [r EXCEPT !.pending = Drained("steer")]

FirstPoll ==
  /\ At("firstPoll") /\ Lock
  /\ PollSteering([run EXCEPT !.pc = "top"])
  /\ UNCHANGED <<agentVars, sent, turns>> /\ RunOnly

\* The inner loop goes round while there are tool calls or messages.
Repeats == run.more \/ run.pending # <<>>

\* Mutant: steering is polled again whatever is pending.
PollsAlways == TRUE

\* prepare_next_turn may hand over messages and may take long: steering is
\* polled again after it, when nothing is pending.
PollsAgain == run.pending = <<>>
Repolled == IF PollsAgain THEN Drained("steer") ELSE run.pending

ToInject(ms) ==
  run' = [run EXCEPT !.pc = IF ms = <<>> THEN "request" ELSE "inject",
                     !.toEmit = ms, !.pending = <<>>]

PrepareTurn ==
  /\ At("top") /\ Repeats
  /\ IF run.first
     THEN ToInject(run.pending) /\ UNCHANGED <<queue, sent>>
     ELSE \E prepared \in {0, 1} :
            /\ Lock /\ sent["prepared"] + prepared <= Limit["prepared"]
            /\ sent' = [sent EXCEPT !["prepared"] = @ + prepared]
            /\ ToInject([i \in 1..prepared |->
                           Input("prepared", sent["prepared"] + 1)] \o Repolled)
            /\ queue' = IF PollsAgain
                        THEN [queue EXCEPT !["steer"] = Kept("steer")]
                        ELSE queue
  /\ UNCHANGED <<agentVars, turns>> /\ RunOnly

Inject == At("inject") /\ Injected("request")

\* stream_fn is called and, with most providers, answers with a Start event:
\* the partial answer goes to the context and is streamed.
Request ==
  /\ At("request")
  /\ turns' = turns + 1
  /\ \E started \in {FALSE} \cup {Lock} :
       /\ streaming' = (streaming \/ started)
       /\ run' = [run EXCEPT !.pc = "streaming",
            !.context = IF started
                        THEN Append(@, Answer(turns + 1, "partial", 0)) ELSE @]
  /\ UNCHANGED <<messages, pendingCalls, errored, queue, sent>> /\ RunOnly

\* External: what a provider answers.  Those of the repository never look at
\* the signal: after the abort they may answer as before, or fail.  Past the
\* bound MaxTurns every request fails.
Answers(t) ==
  {Answer(t, IF aborted THEN "aborted" ELSE "error", 0)} \cup
  (IF t > MaxTurns THEN {}
   ELSE {Answer(t, "stop", 0)} \cup
        {Answer(t, stop, n) :
           stop \in {"length", "toolUse"}, n \in CallCounts})

\* Mutant: the final message follows the partial one.
SettledBehind(context, m) == Append(context, m)

\* Done or Error: the final message takes the place of the partial one.
Settled(context, m) ==
  IF context # <<>> /\ Last(context).role = "assistant"
     /\ Last(context).stop = "partial"
  THEN Append(Front(context), m) ELSE Append(context, m)

\* Mutant: only an error ends the run.
FailedByError(m) == m.stop = "error"

Failed(m) == m.stop \in {"error", "aborted"}

EndOfStream ==
  /\ At("streaming")
  /\ \E m \in Answers(turns) :
       /\ Emitted(m)
       /\ \E pc \in IF m.calls = 0 THEN {"turnEnd"}
                     ELSE IF m.stop = "length" THEN {"truncated"}
                     ELSE {"sequential", "parallel"} :
            run' = [run EXCEPT !.pc = pc, !.context = Settled(@, m),
                               !.fresh = Append(@, m), !.first = FALSE,
                               !.more = FALSE,
                               !.failed = Failed(m),
                               !.batch = [k \in 1..m.calls |-> "unseen"],
                               !.results = <<>>,
                               !.terminate = TRUE]
       /\ errored' = errored
  /\ UNCHANGED <<pendingCalls, queue, sent, turns>> /\ RunOnly

-----------------------------------------------------------------------------
(* The tool calls of an answer. *)

Calls == DOMAIN run.batch
In(status) == {k \in Calls : run.batch[k] = status}
IsNext(k) == /\ run.batch[k] = "unseen"
             /\ \A j \in 1..(k - 1) : run.batch[j] # "unseen"

\* The batch is cut behind a call when the signal is aborted.
MayStart(k) == k = 1 \/ ~aborted

\* ToolExecutionStart: the only one of a sequential batch, or the preparation
\* of a parallel one (the futures run once all calls are prepared).
StartCall ==
  /\ run.pc \in {"truncated", "sequential", "parallel"} /\ Lock
  /\ In("started") = {}
  /\ \E k \in Calls :
       /\ IsNext(k) /\ (At("truncated") \/ MayStart(k))
       /\ run' = [run EXCEPT !.batch[k] = "started"]
       /\ pendingCalls' = pendingCalls \cup {<<turns, k>>}
  /\ UNCHANGED <<messages, streaming, errored, queue, sent, turns>>
  /\ RunOnly

\* The call ends where it started: a truncated call with an error, a
\* sequential one with what the tool returned, and the result is emitted.
EndCallInTurn ==
  /\ run.pc \in {"truncated", "sequential"}
  /\ \E k \in In("started"), t \in BOOLEAN :
       /\ run' = [run EXCEPT !.batch[k] = "done",
                             !.results = Append(@, Result(turns, k)),
                             !.terminate = @ /\ t /\ ~At("truncated")]
       /\ pendingCalls' = pendingCalls \ {<<turns, k>>}
       /\ Emitted(Result(turns, k))
  /\ UNCHANGED <<errored, queue, sent, turns>> /\ RunOnly

\* prepare_tool_call: unknown tool, invalid arguments, a block or the abort
\* end the call at once; otherwise its future waits for the join.
PrepareCall ==
  /\ At("parallel")
  /\ \E k \in In("started") :
       \/ /\ Lock
          /\ \E t \in BOOLEAN :
               run' = [run EXCEPT !.batch[k] = "ended",
                                  !.terminate = @ /\ t /\ ~aborted]
          /\ pendingCalls' = pendingCalls \ {<<turns, k>>}
       \/ /\ ~aborted
          /\ run' = [run EXCEPT !.batch[k] = "queued"]
          /\ UNCHANGED pendingCalls
  /\ UNCHANGED <<messages, streaming, errored, queue, sent, turns>>
  /\ RunOnly

AllSeen ==
  /\ In("started") = {}
  /\ \A k \in In("unseen") : ~MayStart(k)

\* One of the joined futures ends.
EndQueuedCall ==
  /\ At("parallel") /\ AllSeen /\ Lock
  /\ \E k \in In("queued"), t \in BOOLEAN :
       /\ run' = [run EXCEPT !.batch[k] = "ended", !.terminate = @ /\ t]
       /\ pendingCalls' = pendingCalls \ {<<turns, k>>}
  /\ UNCHANGED <<messages, streaming, errored, queue, sent, turns>>
  /\ RunOnly

\* Mutant: the results are emitted as their calls have ended.
EmitsAny(k) == k \in In("ended")

\* After the join the results are emitted in the order of the calls.
EmitsNext(k) == k \in In("ended") /\ \A j \in In("ended") : k <= j
EmitResult ==
  /\ At("parallel") /\ AllSeen /\ In("queued") = {}
  /\ \E k \in Calls :
       /\ EmitsNext(k)
       /\ run' = [run EXCEPT !.batch[k] = "done",
                             !.results = Append(@, Result(turns, k))]
       /\ Emitted(Result(turns, k))
  /\ UNCHANGED <<pendingCalls, errored, queue, sent, turns>> /\ RunOnly

\* The results go to the context and new_messages when the batch is over.  The
\* batch ends the inner loop when all its results ask for that
\* (should_terminate_tool_batch); a truncated batch never does.
EndBatch ==
  /\ run.pc \in {"truncated", "sequential", "parallel"}
  /\ AllSeen /\ In("queued") = {} /\ In("ended") = {}
  /\ At("truncated") => In("unseen") = {}
  /\ run' = [run EXCEPT !.pc = "turnEnd", !.more = ~run.terminate,
                        !.context = @ \o run.results,
                        !.fresh = @ \o run.results,
                        !.batch = <<>>, !.results = <<>>]
  /\ UNCHANGED <<agentVars, queue, sent, turns>> /\ RunOnly

-----------------------------------------------------------------------------
(* The end of a turn and of a run. *)

\* The finishTurn hook decides, TurnEnd is emitted, the decision is applied
\* and steering polled again; an answer that failed ends the run whatever the
\* hook says.
TurnEnd ==
  /\ At("turnEnd") /\ Lock
  /\ errored' = (errored \/ run.failed)
  /\ \E decision \in {"none", "end", "continue"} :
       IF run.failed \/ decision = "end"
       THEN Going("finish") /\ UNCHANGED queue
       ELSE PollSteering([run EXCEPT !.pc = "top", !.explicit =
              /\ @ \/ decision = "continue"
              /\ ~run.more /\ queue["steer"] = <<>>])
  /\ UNCHANGED <<messages, streaming, pendingCalls, sent, turns>>
  /\ RunOnly

\* The inner loop is over: follow-ups, then a turn the hook asked for.
PollFollowUps ==
  /\ At("top") /\ ~Repeats /\ Lock
  /\ queue' = [queue EXCEPT !["followUp"] = Kept("followUp")]
  /\ run' = IF Drained("followUp") # <<>> \/ run.explicit
            THEN [run EXCEPT !.pending = Drained("followUp"),
                             !.explicit = FALSE, !.more = TRUE]
            ELSE [run EXCEPT !.pc = "finish"]
  /\ UNCHANGED <<agentVars, sent, turns>> /\ RunOnly

Runner(c) == caller[c].at = "running"

\* AgentEnd has been emitted: finish_run, and notify_waiters for those that wait
\* at that moment.
FinishRun ==
  /\ run.pc \in {"finish", "failed"} /\ Lock
  /\ caller' = [c \in Caller |->
       IF Runner(c) \/ (caller[c].at = "waits" /\ caller[c].run = active)
       THEN Idle ELSE caller[c]]
  /\ active' = 0 /\ aborted' = FALSE
  /\ streaming' = FALSE /\ pendingCalls' = {}
  /\ run' = NoRun
  /\ UNCHANGED <<messages, errored, poisoned, queue, sent, turns, runs,
                 faults, dropped>>

\* What the run still carries goes with it.
Carried == ToSet(run.toEmit) \cup ToSet(run.pending)

\* A listener or a hook panics: catch_unwind takes the run to
\* handle_run_failure.  Its own events go to the same listeners outside the
\* catch_unwind: a second panic leaves the run active for good.
Panic ==
  /\ run.pc # "none" /\ runs + faults < MaxRuns
  /\ faults' = faults + 1
  /\ dropped' = dropped \cup Carried
  /\ IF run.pc \in {"failing", "failed"}
     THEN /\ \E c \in Caller :
               Runner(c) /\ caller' = [caller EXCEPT ![c].at = "gone"]
          /\ run' = NoRun
     ELSE /\ run' = [NoRun EXCEPT !.pc = "failing"]
          /\ UNCHANGED caller
  /\ UNCHANGED <<agentVars, queue, active, poisoned, aborted, sent, turns,
                 runs>>

HandleRunFailure ==
  /\ At("failing")
  /\ Emitted(Answer(0, IF aborted THEN "aborted" ELSE "error", 0))
  /\ errored' = TRUE
  /\ Going("failed")
  /\ UNCHANGED <<pendingCalls, queue, sent, turns>> /\ RunOnly

\* The run comes to its next lock and panics, and handle_run_failure behind the
\* catch_unwind as well: finish_run is not reached and active_run stays.
RunLockFails ==
  /\ run.pc # "none" /\ poisoned
  /\ dropped' = dropped \cup Carried
  /\ \E c \in Caller : Runner(c) /\ caller' = [caller EXCEPT ![c].at = "gone"]
  /\ run' = NoRun
  /\ UNCHANGED <<agentVars, queue, active, aborted, poisoned, sent, turns,
                 runs, faults>>

\* The future of the run is dropped: nothing clears active_run.
DropRun ==
  /\ run.pc # "none" /\ runs + faults < MaxRuns
  /\ faults' = faults + 1
  /\ dropped' = dropped \cup Carried
  /\ \E c \in Caller : Runner(c) /\ caller' = [caller EXCEPT ![c].at = "gone"]
  /\ run' = NoRun
  /\ UNCHANGED <<agentVars, queue, active, poisoned, aborted, sent, turns,
                 runs>>

-----------------------------------------------------------------------------
RunStep ==
  \/ Prologue \/ FirstPoll \/ PrepareTurn \/ Inject \/ Request \/ EndOfStream
  \/ StartCall \/ EndCallInTurn \/ PrepareCall \/ EndQueuedCall \/ EmitResult
  \/ EndBatch \/ TurnEnd \/ PollFollowUps \/ FinishRun \/ HandleRunFailure
  \/ RunLockFails

CallerStep(c) ==
  DrainForContinue(c) \/ Begin(c) \/ Await(c) \/ LockFails(c)

Next ==
  \/ \E q \in {"steer", "followUp"} : Enqueue(q)
  \/ ClearQueues \/ Abort \/ Reset \/ Refused
  \/ \E c \in Caller : Prompt(c) \/ Continue(c) \/ TakeNotify(c)
                       \/ CallerStep(c)
  \/ RunStep
  \/ Panic \/ DropRun

\* The runtime goes on polling a run and its callers, and tools, hooks and
\* the provider come back.
Fairness ==
  /\ WF_vars(RunStep)
  /\ \A c \in Caller : WF_vars(CallerStep(c))

Spec == Init /\ [][Next]_vars /\ Fairness

-----------------------------------------------------------------------------
Inputs == UNION {{Input(w, n) : n \in 1..Limit[w]} : w \in Ways}
Stops == {"stop", "length", "toolUse", "error", "aborted", "partial"}
Message ==
  Inputs \cup [role : {"assistant"}, turn : 0..turns, stop : Stops,
                calls : 0..MaxCalls]
         \cup [role : {"toolResult"}, turn : 1..turns, call : 1..MaxCalls]

\* The state of the agent (AgentInner and MutableAgentState) has its types,
\* and a run is executing exactly when one caller is inside it (a run that the
\* poisoned mutex broke has lost its caller, and active_run names it still).
TypeOK ==
  /\ ToSet(messages) \subseteq Message
  /\ streaming \in BOOLEAN /\ errored \in BOOLEAN /\ aborted \in BOOLEAN
  /\ poisoned \in BOOLEAN
  /\ pendingCalls \subseteq (1..turns) \X (1..MaxCalls)
  /\ \A q \in {"steer", "followUp"} : ToSet(queue[q]) \subseteq Inputs
  /\ active \in 0..runs
  /\ Cardinality({c \in Caller : Runner(c)}) = IF run.pc = "none" THEN 0 ELSE 1
  /\ run.pc # "none" => active # 0

\* Position of the results of an answer: the calls of an answer are answered
\* in their order, right behind it, each once; all of them unless the run was
\* aborted (a cut batch leaves the calls behind the cut without a result).
AnsweredAt(s, i, whole) ==
  LET answered == {k \in 1..s[i].calls : Result(s[i].turn, k) \in ToSet(s)} IN
  /\ whole => answered = 1..s[i].calls
  /\ \A k \in answered :
       /\ \A j \in 1..k : j \in answered
       /\ i + k <= Len(s) /\ s[i + k] = Result(s[i].turn, k)
       /\ \A j \in DOMAIN s : s[j] = s[i + k] => j = i + k

\* Whenever the provider is asked (stream_assistant_response), every tool call
\* of this run has its one result, in the order of the calls, whatever order
\* the parallel futures of execute_tool_calls_parallel ended in.
CallsAnswered ==
  At("request") =>
    \A i \in DOMAIN run.context :
      run.context[i].role = "assistant" =>
        AnsweredAt(run.context, i, i > Len(Seed \o run.base) /\ ~aborted)

\* Whenever the provider is asked, what the loop sends is the seeded system
\* message and then the transcript the agent built from the events, the one
\* this run found and what it added; and no call is left in pending_tool_calls
\* (process_events against run_loop).
TranscriptIsContext ==
  At("request") =>
    /\ run.context = Seed \o messages
    /\ messages = run.base \o run.fresh
    /\ pendingCalls = {} /\ ~streaming

\* Where a message given to the agent can be.
Held(m) ==
  Cardinality({i \in DOMAIN messages : messages[i] = m})
  + (IF \E q \in DOMAIN queue : m \in ToSet(queue[q]) THEN 1 ELSE 0)
  + Cardinality({c \in Caller : m \in ToSet(caller[c].hand)})
  + (IF m \in Carried THEN 1 ELSE 0)

\* A message given to the agent is in one place, the queue, the hand of a
\* caller, the run or the transcript, until a clear, a reset, a panic (at the
\* poisoned mutex too) or a dropped future throws it away; and a run takes what
\* came one way in the order it came (drain, get_steering_messages,
\* prepareNextTurn).
MessagesKept ==
  /\ \A w \in Ways : \A n \in 1..sent[w] :
       Input(w, n) \notin dropped => Held(Input(w, n)) = 1
  /\ \A i, j \in DOMAIN run.fresh :
       /\ i < j /\ run.fresh[i].role = "user" /\ run.fresh[j].role = "user"
       /\ run.fresh[i].way = run.fresh[j].way
       => run.fresh[i].n < run.fresh[j].n

\* An answer that failed or was aborted is the last thing its run adds to the
\* transcript: the run takes no message off the queues for a turn to come,
\* whatever waits there, prepareNextTurn prepares and the finishTurn hook asks
\* for (run_loop, the exit behind stream_assistant_response).
FailureIsLast ==
  \A i \in DOMAIN run.fresh :
    /\ run.fresh[i].role = "assistant"
    /\ run.fresh[i].stop \in {"error", "aborted"}
    => /\ i = Len(run.fresh) /\ Last(messages) = run.fresh[i]
       /\ run.pending = <<>> /\ run.toEmit = <<>>

\* A caller of wait_for_idle that saw a run returns (wait_for_idle against
\* finish_run and notify_waiters).
WaitersReturn ==
  \A c \in Caller : caller[c].at = "holds" ~> caller[c].at = "idle"

==============================================================================
