----------------------------- MODULE ToolRound -----------------------------
(* One round of tool calls: the generation task that starts the calls of   *)
(* an answer and waits for them (generation.rs), the task of each call     *)
(* (tool.rs), the slots of pi.live that show the round (live.rs), and the  *)
(* throttle through which a running call publishes its progress            *)
(* (output.rs).  The harness may crash and start again.                    *)
(*                                                                         *)
(* What the scheduler does between a task's commits is TaskScheduler's     *)
(* subject.  Here a handler commits only while its invocation lives and    *)
(* its task is not marked for abort, an abort handler runs once the        *)
(* invocation and all owned tasks have ended, and a handler that fails     *)
(* unmarked faults its task.                                               *)
EXTENDS Naturals, Sequences, SequencesExt

CONSTANTS
  NCalls,      \* the calls of the answer, in their order: 1 .. NCalls
  MaxReports,  \* bound on what the calls report
  MaxCrashes   \* bound on crashes

ASSUME ToolRoundAssumption ==
  NCalls \in Nat \ {0} /\ MaxReports \in Nat /\ MaxCrashes \in Nat

Calls == 1 .. NCalls

\* The generation task, as a member of the set of marked tasks.
Generation == 0

VARIABLES
  round,    \* the generation task: its state and the calls yet to start
  task,     \* the task of each call: its state and the replay on record
  marked,   \* the tasks whose abort_requested is set
  answers,  \* how many results of each call the transcript has
  slot,     \* LiveState.tools, by call
  run,      \* memory: how far the invocation of each task is
  prog,     \* memory: what a running call reported, and its Progress
  ran,      \* history: the replay of the tool at each start of a call
  crashes,  \* how often the harness stopped
  reports   \* what the calls reported in all

durable == <<round, task, marked, answers, slot>>
memory  == <<run, prog>>
history == <<ran, crashes, reports>>
vars    == <<durable, memory, history>>

-----------------------------------------------------------------------------
(* Slots and results. *)

NoSlot == [status |-> "none", entry |-> FALSE, output |-> 0, diagnostics |-> 0]

PendingSlot == [NoSlot EXCEPT !.status = "pending"]

\* finish_slot
DoneSlot(entry) == [NoSlot EXCEPT !.status = "done", !.entry = entry]

\* clear_progress
Cleared(s) == [s EXCEPT !.output = 0, !.diagnostics = 0]

\* What the agent may have registered under the name a call gives: nothing,
\* or a tool that is or is not safe to replay.
Tools == {"none", "safe", "unsafe"}

NoTask == [state |-> "none", replay |-> "none"]

Ended == {"completed", "failed", "aborted", "faulted"}

\* Tasks that are not terminal.
Live(c) == task[c].state \in {"call", "execute"}

\* settle: the result, the slot and the task's outcome in one commit.
Settled(c, state) ==
  /\ answers' = [answers EXCEPT ![c] = @ + 1]
  /\ slot' = [slot EXCEPT ![c] = DoneSlot(TRUE)]
  /\ task' = [task EXCEPT ![c].state = state]

\* The scheduler's commit for a handler that failed: no result is written.
Faulted(c) ==
  /\ slot' = [slot EXCEPT ![c] = DoneSlot(FALSE)]
  /\ task' = [task EXCEPT ![c].state = "faulted"]
  /\ UNCHANGED answers

-----------------------------------------------------------------------------
(* Progress of a running call.  said counts what the tool reported; a      *)
(* write is a job that takes a snapshot and then commits what it has over  *)
(* what was written before.  marking and flushing count the threads that   *)
(* have yet to take the lock in schedule and in flush.                     *)

\* Mutant: one report counts as written from the start.
FreshWritten ==
  [said |-> 0, written |-> 1, dirty |-> FALSE, stopped |-> FALSE,
   inFlight |-> FALSE, timer |-> FALSE, marking |-> 0, flushing |-> 0,
   jobs |-> <<>>]

Fresh == [said |-> 0, written |-> 0, dirty |-> FALSE, stopped |-> FALSE,
          inFlight |-> FALSE, timer |-> FALSE, marking |-> 0, flushing |-> 0,
          jobs |-> <<>>]

NewJob == [read |-> FALSE, upto |-> 0, from |-> 0]

Prog(c, next) == prog' = [prog EXCEPT ![c] = next]

ProgressStep == UNCHANGED <<durable, run, history>>

\* output, diagnostic, details: the report, and mark with it.
Report(c) ==
  /\ run[c] = "executing"
  /\ reports < MaxReports /\ reports' = reports + 1
  /\ Prog(c, [prog[c] EXCEPT !.said = @ + 1, !.dirty = TRUE, !.marking = @ + 1])
  /\ UNCHANGED <<durable, run, ran, crashes>>

\* schedule: at once when the interval has passed, else by a new timer.
Schedule(c) ==
  /\ prog[c].marking > 0
  /\ LET p == [prog[c] EXCEPT !.marking = @ - 1] IN
     IF p.stopped \/ p.inFlight THEN Prog(c, p)
     ELSE \/ Prog(c, [p EXCEPT !.flushing = @ + 1])
          \/ Prog(c, [p EXCEPT !.timer = TRUE])
  /\ ProgressStep

\* wake; stop and every later timer make it a no-op.
Wake(c) ==
  /\ prog[c].timer
  /\ Prog(c, [prog[c] EXCEPT !.timer = FALSE, !.flushing = @ + 1])
  /\ ProgressStep

\* flush, which does not ask whether a write is in flight.
Flush(c) ==
  /\ prog[c].flushing > 0
  /\ LET p == [prog[c] EXCEPT !.flushing = @ - 1] IN
     IF p.stopped \/ ~p.dirty THEN Prog(c, p)
     ELSE Prog(c, [p EXCEPT !.dirty = FALSE, !.inFlight = TRUE,
                            !.jobs = Append(@, NewJob)])
  /\ ProgressStep

\* The write's snapshot of what was reported and of what was written.
Snapshot(c) ==
  /\ \E i \in DOMAIN prog[c].jobs :
       /\ ~prog[c].jobs[i].read
       /\ Prog(c, [prog[c] EXCEPT
                     !.jobs[i] = [read |-> TRUE, upto |-> prog[c].said,
                                  from |-> prog[c].written]])
  /\ ProgressStep

\* Mutant: finish forgets what was reported during the write.
FinishedForGood(p, i) == [p EXCEPT !.inFlight = FALSE, !.jobs = RemoveAt(@, i)]

\* finish
Finished(p, i) ==
  [p EXCEPT !.inFlight = FALSE, !.jobs = RemoveAt(@, i),
            !.marking = IF p.dirty THEN @ + 1 ELSE @]

\* The write's commit, and finish.  The gate refuses it to a marked task.
Write(c) ==
  /\ \E i \in DOMAIN prog[c].jobs :
       LET job == prog[c].jobs[i] IN
       /\ job.read
       /\ IF c \in marked
          THEN /\ Prog(c, Finished(prog[c], i))
               /\ UNCHANGED slot
          ELSE /\ Prog(c, Finished([prog[c] EXCEPT !.written = job.upto], i))
               /\ slot' = [slot EXCEPT ![c].output = job.upto,
                                       ![c].diagnostics = @ + (job.upto - job.from)]
  /\ UNCHANGED <<round, task, marked, answers, run, history>>

-----------------------------------------------------------------------------
(* The task of a call.  Its handler runs from the commit of the intent to  *)
(* that of the result: "executing", then "stopping" until the write in     *)
(* flight has ended, then "settling".                                      *)

\* A handler of the task of c may run: Run mode, and nothing runs for it.
MayRun(c, state) == task[c].state = state /\ c \notin marked /\ run[c] = "off"

Goto(c, pc) == run' = [run EXCEPT ![c] = pc]

\* run_call: a call that is unavailable, invalid or blocked is answered.
Answer(c) ==
  /\ MayRun(c, "call")
  /\ Settled(c, "completed")
  /\ UNCHANGED <<round, marked, memory, history>>

\* run: the tool executes, with a progress of its own.
Start(c, replay) ==
  /\ Goto(c, "executing")
  /\ Prog(c, Fresh)
  /\ ran' = [ran EXCEPT ![c] = Append(@, replay)]

\* run_call: the intent is committed before the tool executes.
Intend(c) ==
  /\ MayRun(c, "call")
  /\ \E tool \in Tools \ {"none"} :
       /\ task' = [task EXCEPT ![c] = [state |-> "execute", replay |-> tool]]
       /\ Start(c, tool)
  /\ slot' = [slot EXCEPT ![c].status = "running"]
  /\ UNCHANGED <<round, marked, answers, crashes, reports>>

\* Mutant: only the recorded replay is asked.
ReplayOnRecord(c, tool) == task[c].replay = "safe"

\* run_execute: both the intent on record and the tool of now allow a replay.
Replayable(c, tool) == task[c].replay = "safe" /\ tool = "safe"

Rerun(c) ==
  /\ MayRun(c, "execute")
  /\ \E tool \in Tools : Replayable(c, tool) /\ Start(c, tool)
  /\ slot' = [slot EXCEPT ![c] = Cleared(@)]
  /\ UNCHANGED <<round, task, marked, answers, crashes, reports>>

\* run_execute: the call may have run in part and is settled as failed.
Interrupt(c) ==
  /\ MayRun(c, "execute")
  /\ \E tool \in Tools : ~Replayable(c, tool)
  /\ Settled(c, "failed")
  /\ UNCHANGED <<round, marked, memory, history>>

\* The tool returns or throws: ended is set and Progress.stop takes its lock.
Return(c) ==
  /\ run[c] = "executing"
  /\ Goto(c, "stopping")
  /\ Prog(c, [prog[c] EXCEPT !.stopped = TRUE, !.timer = FALSE])
  /\ UNCHANGED <<durable, history>>

\* Progress.stop: no write is in flight.
Stopped(c) ==
  /\ run[c] = "stopping" /\ ~prog[c].inFlight
  /\ Goto(c, "settling")
  /\ UNCHANGED <<durable, prog, history>>

\* The invocation ends; the writes it leaves behind are refused.
EndRun(c) == Goto(c, "off") /\ Prog(c, Fresh)

Settle(c) ==
  /\ run[c] = "settling" /\ c \notin marked
  /\ \E state \in {"completed", "failed"} : Settled(c, state)
  /\ EndRun(c)
  /\ UNCHANGED <<round, marked, history>>

\* The handler has failed, or its commit was refused, under an abort.
GiveUp(c) ==
  /\ run[c] = "settling" /\ c \in marked
  /\ EndRun(c)
  /\ UNCHANGED <<durable, history>>

\* The handler fails: it cannot resolve the agent, or an afterTool hook fails.
Fault(c) ==
  /\ c \notin marked
  /\ \/ MayRun(c, "call")
     \/ MayRun(c, "execute")
     \/ run[c] = "settling"
  /\ Faulted(c)
  /\ EndRun(c)
  /\ UNCHANGED <<round, marked, history>>

\* abort: the call is answered from what its slot kept.
AbortCall(c) ==
  /\ Live(c) /\ c \in marked /\ run[c] = "off"
  /\ Settled(c, "aborted")
  /\ UNCHANGED <<round, marked, memory, history>>

-----------------------------------------------------------------------------
(* The generation task. *)

NewTask == [state |-> "call", replay |-> "none"]

\* Every task of the round has settled: the wait of the generation is over.
AllSettled == \A c \in Calls : ~Live(c)

\* end_run and the hand-over to the next generation remove the slots.
Over(state) ==
  /\ round' = [state |-> state, pending |-> {}]
  /\ slot' = [c \in Calls |-> NoSlot]

\* start_tool_round: a call the model was not offered is answered at once;
\* of the others, in sequence only the first gets a task.
StartRound ==
  /\ round.state = "requested"
  /\ \E offered \in SUBSET Calls, sequential \in BOOLEAN :
       LET started == {c \in offered : sequential => \A d \in offered : c <= d}
       IN
       /\ round' = [state |-> "waiting", pending |-> offered \ started]
       /\ task' = [c \in Calls |-> IF c \in started THEN NewTask ELSE NoTask]
       /\ answers' = [c \in Calls |-> IF c \in offered THEN 0 ELSE 1]
       /\ slot' = [c \in Calls |-> IF c \in offered THEN PendingSlot ELSE DoneSlot(TRUE)]
  /\ UNCHANGED <<marked, memory, history>>

\* The generation's handler for the phase tools runs.
ToolsPhase == round.state = "waiting" /\ Generation \notin marked /\ AllSettled

\* run_tools: the next call of a sequential round gets its task.
NextCall ==
  /\ ToolsPhase
  /\ \E c \in round.pending :
       /\ \A d \in round.pending : c <= d
       /\ task' = [task EXCEPT ![c] = NewTask]
       /\ round' = [round EXCEPT !.pending = @ \ {c}]
  /\ UNCHANGED <<marked, answers, slot, memory, history>>

\* finish_tool_round
FinishRound ==
  /\ ToolsPhase /\ round.pending = {}
  /\ Over("completed")
  /\ UNCHANGED <<task, marked, answers, memory, history>>

\* finish_tool_round: an afterTools hook fails.
FaultRound ==
  /\ ToolsPhase /\ round.pending = {}
  /\ Over("faulted")
  /\ UNCHANGED <<task, marked, answers, memory, history>>

\* Mutant: the calls that never got a task are left without a result.
AbortStarted ==
  /\ round.state = "waiting" /\ Generation \in marked /\ AllSettled
  /\ Over("aborted")
  /\ UNCHANGED <<task, marked, answers, memory, history>>

\* abort: the calls that never got a task are answered.
AbortRound ==
  /\ round.state = "waiting" /\ Generation \in marked /\ AllSettled
  /\ answers' = [c \in Calls |-> IF c \in round.pending THEN answers[c] + 1
                                 ELSE answers[c]]
  /\ Over("aborted")
  /\ UNCHANGED <<task, marked, memory, history>>

-----------------------------------------------------------------------------
(* Aborts and crashes. *)

\* An abort marks the task it names, and the cascade what the task owns.
MarkRound ==
  /\ round.state = "waiting" /\ Generation \notin marked
  /\ marked' = marked \cup {Generation}
  /\ UNCHANGED <<round, task, answers, slot, memory, history>>

MarkCall(c) ==
  /\ Live(c) /\ c \notin marked
  /\ marked' = marked \cup {c}
  /\ UNCHANGED <<round, task, answers, slot, memory, history>>

\* The harness stops at any point and is opened again.
Crash ==
  /\ crashes < MaxCrashes
  /\ crashes' = crashes + 1
  /\ run'  = [c \in Calls |-> "off"]
  /\ prog' = [c \in Calls |-> Fresh]
  /\ UNCHANGED <<durable, ran, reports>>

-----------------------------------------------------------------------------
Init ==
  /\ round = [state |-> "requested", pending |-> {}]
  /\ task = [c \in Calls |-> NoTask]
  /\ marked = {}
  /\ answers = [c \in Calls |-> 0]
  /\ slot = [c \in Calls |-> NoSlot]
  /\ run  = [c \in Calls |-> "off"]
  /\ prog = [c \in Calls |-> Fresh]
  /\ ran  = [c \in Calls |-> <<>>]
  /\ crashes = 0 /\ reports = 0

Next ==
  \/ StartRound \/ NextCall \/ FinishRound \/ FaultRound \/ AbortRound
  \/ MarkRound \/ Crash
  \/ \E c \in Calls :
       \/ Answer(c) \/ Intend(c) \/ Rerun(c) \/ Interrupt(c)
       \/ Return(c) \/ Stopped(c) \/ Settle(c) \/ GiveUp(c) \/ Fault(c)
       \/ AbortCall(c) \/ MarkCall(c)
       \/ Report(c) \/ Schedule(c) \/ Wake(c) \/ Flush(c) \/ Snapshot(c) \/ Write(c)

Spec == Init /\ [][Next]_vars

-----------------------------------------------------------------------------
(* Properties. *)

\* The types of the round's state.
TypeOK ==
  /\ round.state \in {"requested", "waiting", "completed", "aborted", "faulted"}
  /\ round.pending \subseteq Calls
  /\ \A c \in Calls : /\ task[c].state \in {"none", "call", "execute"} \cup Ended
                      /\ task[c].replay \in Tools
                      /\ slot[c].status \in {"none", "pending", "running", "done"}
                      /\ run[c] \in {"off", "executing", "stopping", "settling"}
                      /\ prog[c].written <= prog[c].said
  /\ marked \subseteq Calls \cup {Generation}
  /\ answers \in [Calls -> Nat]

\* A call whose tool was not declared safe to replay executes at most once,
\* whatever crashes and whatever the agent registers in between.
UnsafeRunsOnce ==
  \A c \in Calls : Len(ran[c]) > 1 => \A i \in DOMAIN ran[c] : ran[c][i] = "safe"

\* Every call of the answer gets exactly one result, in whatever order
\* its task, the generation, aborts and crashes come, unless its task was
\* faulted; and while the round lasts its slots tell what the tasks did.
EveryCallAnswered ==
  /\ \A c \in Calls : answers[c] <= 1
  /\ round.state \in Ended =>
       \A c \in Calls : ~Live(c) /\ (answers[c] = 1 <=> task[c].state # "faulted")

SlotsTellTasks ==
  round.state = "waiting" =>
    \A c \in Calls :
      /\ slot[c].status = "running" <=> task[c].state = "execute"
      /\ slot[c].status = "pending" <=>
           (task[c].state = "call" \/ c \in round.pending)
      /\ slot[c].entry <=> answers[c] = 1
      /\ slot[c].status # "running" => slot[c] = Cleared(slot[c])

RoundInStep == EveryCallAnswered /\ SlotsTellTasks

\* What a running call has reported is never forgotten: a write is on its
\* way or something is left that will start one.
ProgressNotForgotten ==
  \A c \in Calls :
    LET p == prog[c] IN
    p.dirty /\ ~p.stopped => p.jobs # <<>> \/ p.timer \/ p.marking + p.flushing > 0

=============================================================================
