-------------------------- MODULE ToolRound_proofs --------------------------
(***************************************************************************)
(* Proofs about ToolRound, for any number of calls, reports and crashes:   *)
(* the types of its state (TypeCorrect), that an unsafe tool runs at most  *)
(* once (UnsafeOnce), that every call of a round gets its one result and   *)
(* the slots tell the tasks (InStep), and that no report is left behind    *)
(* (NotForgotten).                                                         *)
(***************************************************************************)
EXTENDS ToolRound, TLAPS, SequenceTheorems

RoundSet == [state   : {"requested", "waiting", "completed", "aborted", "faulted"},
             pending : SUBSET Calls]
TaskSet  == [state : {"none", "call", "execute"} \cup Ended, replay : Tools]
SlotSet  == [status : {"none", "pending", "running", "done"}, entry : BOOLEAN,
             output : Nat, diagnostics : Nat]
JobSet   == [read : BOOLEAN, upto : Nat, from : Nat]
ProgSet  == [said : Nat, written : Nat, dirty : BOOLEAN, stopped : BOOLEAN,
             inFlight : BOOLEAN, timer : BOOLEAN, marking : Nat, flushing : Nat,
             jobs : Seq(JobSet)]

\* A write has read no more than was reported, and starts where one ended.
Ordered(p) ==
  /\ p.written <= p.said
  /\ \A i \in DOMAIN p.jobs : p.jobs[i].from <= p.jobs[i].upto /\ p.jobs[i].upto <= p.said

\* The shapes of the state.
Shapes ==
  /\ round \in RoundSet
  /\ task \in [Calls -> TaskSet]
  /\ marked \subseteq Calls \cup {Generation}
  /\ answers \in [Calls -> Nat]
  /\ slot \in [Calls -> SlotSet]
  /\ run \in [Calls -> {"off", "executing", "stopping", "settling"}]
  /\ prog \in [Calls -> ProgSet] /\ \A c \in Calls : Ordered(prog[c])
  /\ ran \in [Calls -> Seq(Tools)]
  /\ crashes \in Nat /\ reports \in Nat
-----------------------------------------------------------------------------
(* What a step does to the progress of one call.                           *)

LEMMA FreshIsProgress == Fresh \in ProgSet /\ Ordered(Fresh)
BY DEF Fresh, ProgSet, Ordered, JobSet

LEMMA JobRemoved ==
  ASSUME NEW S, NEW s \in Seq(S), NEW i \in DOMAIN s
  PROVE  /\ RemoveAt(s, i) \in Seq(S)
         /\ \A j \in DOMAIN RemoveAt(s, i) : \E k \in DOMAIN s : RemoveAt(s, i)[j] = s[k]
<1> DEFINE a == SubSeq(s, 1, i - 1)
           b == SubSeq(s, i + 1, Len(s))
<1>1. /\ Len(s) \in Nat /\ i \in 1..Len(s) /\ DOMAIN s = 1..Len(s)
  OBVIOUS
<1>2. /\ a \in Seq(S) /\ Len(a) = i - 1
      /\ \A j \in 1..(i - 1) : a[j] = s[j]
  BY <1>1
<1>3. /\ b \in Seq(S) /\ Len(b) = Len(s) - i
      /\ \A j \in 1..(Len(s) - i) : b[j] = s[i + j]
  BY <1>1
<1>4. RemoveAt(s, i) = a \o b
  BY DEF RemoveAt
<1>5. PICK m \in Nat : m = i - 1
  BY <1>1
<1>6. PICK n \in Nat : n = Len(s) - i
  BY <1>1
<1> HIDE DEF a, b
<1>7. Len(a) = m /\ Len(b) = n /\ m + n = Len(s) - 1
  BY <1>1, <1>2, <1>3, <1>5, <1>6
<1>8. a \o b \in Seq(S) /\ Len(a \o b) = m + n
  BY <1>2, <1>3, <1>7, ConcatProperties
<1>9. \A j \in 1..(m + n) : (a \o b)[j] = IF j <= m THEN a[j] ELSE b[j - m]
  BY <1>2, <1>3, <1>7, ConcatProperties
<1>10. /\ \A j \in 1..m : (a \o b)[j] = s[j] /\ j \in DOMAIN s
       /\ \A k \in 1..n : (a \o b)[m + k] = s[i + k] /\ i + k \in DOMAIN s
  <2>1. i = m + 1 /\ Len(s) = m + 1 + n /\ \A j \in 1..m : j \in 1..(m + n) /\ j <= m
    BY <1>1, <1>5, <1>6
  <2>2. ASSUME NEW j \in 1..m  PROVE (a \o b)[j] = s[j] /\ j \in DOMAIN s
    BY <1>1, <1>2, <1>5, <1>9, <2>1
  <2>3. ASSUME NEW k \in 1..n  PROVE (a \o b)[m + k] = s[i + k] /\ i + k \in DOMAIN s
    <3>1. m + k \in 1..(m + n) /\ ~(m + k <= m) /\ (m + k) - m = k
      OBVIOUS
    <3>2. (a \o b)[m + k] = b[k]
      BY <1>9, <3>1
    <3>3. b[k] = s[i + k]
      BY <1>3, <1>6
    <3>4. i + k \in 1..Len(s)
      BY <2>1
    <3> QED
      BY <1>1, <3>2, <3>3, <3>4
  <2> QED
    BY <2>2, <2>3
<1>11. ASSUME NEW j \in DOMAIN (a \o b)
       PROVE  \E k \in DOMAIN s : (a \o b)[j] = s[k]
  <2>1. j \in 1..(m + n)
    BY <1>8
  <2>2. j \in 1..m \/ \E k \in 1..n : j = m + k
    <3>1. CASE j <= m
      BY <2>1, <3>1
    <3>2. CASE ~(j <= m)
      <4>1. PICK k \in Nat : j = m + k /\ k > 0
        BY <2>1, <3>2
      <4> QED
        BY <2>1, <4>1
    <3> QED
      BY <3>1, <3>2
  <2> QED
    BY <1>10, <2>2
<1> QED
  BY <1>4, <1>8, <1>11

LEMMA FinishedIsProgress ==
  ASSUME NEW p \in ProgSet, Ordered(p), NEW i \in DOMAIN p.jobs
  PROVE  Finished(p, i) \in ProgSet /\ Ordered(Finished(p, i))
<1>1. /\ RemoveAt(p.jobs, i) \in Seq(JobSet)
      /\ \A j \in DOMAIN RemoveAt(p.jobs, i) :
           \E k \in DOMAIN p.jobs : RemoveAt(p.jobs, i)[j] = p.jobs[k]
  BY JobRemoved DEF ProgSet
<1> DEFINE jobs == RemoveAt(p.jobs, i)
<1> HIDE DEF jobs
<1>2. Finished(p, i) =
        [p EXCEPT !.inFlight = FALSE, !.jobs = jobs,
                  !.marking = IF p.dirty THEN p.marking + 1 ELSE p.marking]
  BY DEF Finished, jobs, ProgSet
<1>3. jobs \in Seq(JobSet)
      /\ \A j \in DOMAIN jobs : \E k \in DOMAIN p.jobs : jobs[j] = p.jobs[k]
  BY <1>1 DEF jobs
<1>4. Finished(p, i) \in ProgSet
  <2>1. PICK k \in Nat : k = IF p.dirty THEN p.marking + 1 ELSE p.marking
    BY DEF ProgSet
  <2>2. Finished(p, i) = [p EXCEPT !.inFlight = FALSE, !.jobs = jobs, !.marking = k]
    BY <1>2, <2>1
  <2> QED
    BY <1>3, <2>2 DEF ProgSet
<1>5. /\ Finished(p, i).said = p.said /\ Finished(p, i).written = p.written
      /\ Finished(p, i).jobs = jobs
  BY <1>2 DEF ProgSet
<1> QED
  BY <1>3, <1>4, <1>5 DEF Ordered

LEMMA WrittenIsProgress ==
  ASSUME NEW p \in ProgSet, Ordered(p), NEW i \in DOMAIN p.jobs
  PROVE  LET q == [p EXCEPT !.written = p.jobs[i].upto] IN
         q \in ProgSet /\ Ordered(q) /\ q.jobs = p.jobs
<1>1. p.jobs[i] \in JobSet /\ p.jobs[i].upto <= p.said
  BY DEF ProgSet, Ordered
<1> QED
  BY <1>1 DEF ProgSet, Ordered, JobSet

LEMMA FlushedIsProgress ==
  ASSUME NEW p \in ProgSet, Ordered(p)
  PROVE  LET q == [p EXCEPT !.dirty = FALSE, !.inFlight = TRUE,
                            !.jobs = Append(@, NewJob)] IN
         q \in ProgSet /\ Ordered(q)
<1> DEFINE jobs == Append(p.jobs, NewJob)
<1>1. NewJob \in JobSet /\ NewJob.from <= NewJob.upto /\ NewJob.upto <= p.said
  BY DEF NewJob, JobSet, ProgSet
<1>2. jobs \in Seq(JobSet)
      /\ \A j \in DOMAIN jobs : jobs[j] = NewJob \/ (j \in DOMAIN p.jobs /\ jobs[j] = p.jobs[j])
  BY <1>1 DEF ProgSet
<1> HIDE DEF jobs
<1>3. [p EXCEPT !.dirty = FALSE, !.inFlight = TRUE, !.jobs = jobs] \in ProgSet
  BY <1>2 DEF ProgSet
<1>4. Ordered([p EXCEPT !.dirty = FALSE, !.inFlight = TRUE, !.jobs = jobs])
  BY <1>1, <1>2 DEF ProgSet, Ordered
<1> QED
  BY <1>3, <1>4 DEF jobs

LEMMA SnapshotIsProgress ==
  ASSUME NEW p \in ProgSet, Ordered(p), NEW i \in DOMAIN p.jobs
  PROVE  LET q == [p EXCEPT !.jobs[i] = [read |-> TRUE, upto |-> p.said,
                                         from |-> p.written]] IN
         q \in ProgSet /\ Ordered(q)
<1> DEFINE job == [read |-> TRUE, upto |-> p.said, from |-> p.written]
           jobs == [p.jobs EXCEPT ![i] = job]
<1>1. job \in JobSet /\ job.from <= job.upto /\ job.upto <= p.said
  BY DEF JobSet, ProgSet, Ordered
<1> HIDE DEF job
<1>2. jobs \in Seq(JobSet)
      /\ \A j \in DOMAIN jobs : jobs[j] = job \/ (j \in DOMAIN p.jobs /\ jobs[j] = p.jobs[j])
  BY <1>1 DEF ProgSet
<1> HIDE DEF jobs
<1>3. [p EXCEPT !.jobs = jobs] \in ProgSet
  BY <1>2 DEF ProgSet
<1>4. Ordered([p EXCEPT !.jobs = jobs])
  BY <1>1, <1>2 DEF ProgSet, Ordered
<1> QED
  BY <1>3, <1>4 DEF jobs, job

\* Progress of a call becomes q.
LEMMA ProgressOfOne ==
  ASSUME prog \in [Calls -> ProgSet], \A c \in Calls : Ordered(prog[c]),
         NEW c \in Calls, NEW q \in ProgSet, Ordered(q), Prog(c, q)
  PROVE  prog' \in [Calls -> ProgSet] /\ \A d \in Calls : Ordered(prog'[d])
BY DEF Prog

\* Every step of the progress of a call.
ProgressSteps(c) ==
  Report(c) \/ Schedule(c) \/ Wake(c) \/ Flush(c) \/ Snapshot(c) \/ Write(c)

LEMMA ProgressShaped ==
  ASSUME Shapes, NEW c \in Calls, ProgressSteps(c)
  PROVE  prog' \in [Calls -> ProgSet] /\ \A d \in Calls : Ordered(prog'[d])
<1> DEFINE p == prog[c]
<1>1. prog \in [Calls -> ProgSet] /\ p \in ProgSet /\ Ordered(p)
      /\ \A d \in Calls : Ordered(prog[d])
  BY DEF Shapes
<1> SUFFICES \E q \in ProgSet : Ordered(q) /\ Prog(c, q)
  BY <1>1, ProgressOfOne
<1> HIDE DEF p
<1>2. CASE Report(c)
  <2> DEFINE q == [p EXCEPT !.said = @ + 1, !.dirty = TRUE, !.marking = @ + 1]
  <2>1. Prog(c, q)
    BY <1>2 DEF Report, p
  <2>2. q \in ProgSet
    <3>1. PICK m \in Nat : m = p.said + 1
      BY <1>1 DEF ProgSet
    <3>2. PICK n \in Nat : n = p.marking + 1
      BY <1>1 DEF ProgSet
    <3>3. q = [p EXCEPT !.said = m, !.dirty = TRUE, !.marking = n]
      BY <3>1, <3>2
    <3> QED
      BY <1>1, <3>3 DEF ProgSet
  <2>3. q.said = p.said + 1 /\ q.written = p.written /\ q.jobs = p.jobs
    BY <1>1 DEF ProgSet
  <2>4. \A j \in DOMAIN p.jobs : p.jobs[j] \in JobSet
    BY <1>1 DEF ProgSet
  <2>5. Ordered(q)
    BY <1>1, <2>3, <2>4 DEF Ordered, ProgSet, JobSet
  <2> QED
    BY <2>1, <2>2, <2>5
<1>3. CASE Schedule(c)
  <2> DEFINE r == [p EXCEPT !.marking = @ - 1]
  <2>1. r \in ProgSet /\ Ordered(r)
    <3>1. PICK n \in Nat : n = p.marking - 1
      BY <1>1, <1>3 DEF Schedule, p, ProgSet
    <3>2. r = [p EXCEPT !.marking = n]
      BY <3>1
    <3> QED
      BY <1>1, <3>2 DEF ProgSet, Ordered
  <2>2. \/ Prog(c, r) \/ Prog(c, [r EXCEPT !.flushing = @ + 1])
        \/ Prog(c, [r EXCEPT !.timer = TRUE])
    BY <1>3 DEF Schedule, p
  <2> HIDE DEF r
  <2>3. /\ [r EXCEPT !.flushing = @ + 1] \in ProgSet
        /\ Ordered([r EXCEPT !.flushing = @ + 1])
    <3>1. PICK n \in Nat : n = r.flushing + 1
      BY <2>1 DEF ProgSet
    <3>2. [r EXCEPT !.flushing = @ + 1] = [r EXCEPT !.flushing = n]
      BY <3>1
    <3> QED
      BY <2>1, <3>2 DEF ProgSet, Ordered
  <2>4. [r EXCEPT !.timer = TRUE] \in ProgSet /\ Ordered([r EXCEPT !.timer = TRUE])
    BY <2>1 DEF ProgSet, Ordered
  <2> QED
    BY <2>1, <2>2, <2>3, <2>4
<1>4. CASE Wake(c)
  <2> DEFINE q == [p EXCEPT !.timer = FALSE, !.flushing = @ + 1]
  <2>1. q \in ProgSet /\ Ordered(q)
    <3>1. PICK n \in Nat : n = p.flushing + 1
      BY <1>1 DEF ProgSet
    <3>2. q = [p EXCEPT !.timer = FALSE, !.flushing = n]
      BY <3>1
    <3> QED
      BY <1>1, <3>2 DEF ProgSet, Ordered
  <2> QED
    BY <1>4, <2>1 DEF Wake, p
<1>5. CASE Flush(c)
  <2> DEFINE r == [p EXCEPT !.flushing = @ - 1]
             q == [r EXCEPT !.dirty = FALSE, !.inFlight = TRUE, !.jobs = Append(@, NewJob)]
  <2>1. r \in ProgSet /\ Ordered(r)
    <3>1. PICK n \in Nat : n = p.flushing - 1
      BY <1>1, <1>5 DEF Flush, p, ProgSet
    <3>2. r = [p EXCEPT !.flushing = n]
      BY <3>1
    <3> QED
      BY <1>1, <3>2 DEF ProgSet, Ordered
  <2>2. Prog(c, r) \/ Prog(c, q)
    BY <1>5 DEF Flush, p
  <2> HIDE DEF r
  <2>3. q \in ProgSet /\ Ordered(q)
    BY <2>1, FlushedIsProgress
  <2> QED
    BY <2>1, <2>2, <2>3
<1>6. CASE Snapshot(c)
  <2>1. PICK i \in DOMAIN p.jobs :
             Prog(c, [p EXCEPT !.jobs[i] = [read |-> TRUE, upto |-> p.said,
                                            from |-> p.written]])
    BY <1>6 DEF Snapshot, p
  <2> QED
    BY <1>1, <2>1, SnapshotIsProgress
<1>7. CASE Write(c)
  <2>1. PICK i \in DOMAIN p.jobs :
             \/ Prog(c, Finished(p, i))
             \/ Prog(c, Finished([p EXCEPT !.written = p.jobs[i].upto], i))
    BY <1>7 DEF Write, p
  <2>2. Finished(p, i) \in ProgSet /\ Ordered(Finished(p, i))
    BY <1>1, FinishedIsProgress
  <2> DEFINE r == [p EXCEPT !.written = p.jobs[i].upto]
  <2>3. r \in ProgSet /\ Ordered(r) /\ r.jobs = p.jobs
    BY <1>1, WrittenIsProgress
  <2>4. Prog(c, Finished(p, i)) \/ Prog(c, Finished(r, i))
    BY <2>1
  <2> HIDE DEF r
  <2>5. Finished(r, i) \in ProgSet /\ Ordered(Finished(r, i))
    BY <2>3, FinishedIsProgress
  <2> QED
    BY <2>2, <2>4, <2>5
<1> QED
  BY <1>2, <1>3, <1>4, <1>5, <1>6, <1>7 DEF ProgressSteps

LEMMA SlotsAre ==
  /\ NoSlot \in SlotSet /\ PendingSlot \in SlotSet
  /\ \A entry \in BOOLEAN : DoneSlot(entry) \in SlotSet
  /\ \A s \in SlotSet : Cleared(s) \in SlotSet
BY DEF NoSlot, PendingSlot, DoneSlot, Cleared, SlotSet

LEMMA SettledShaped ==
  ASSUME Shapes, NEW c \in Calls, NEW state \in Ended, Settled(c, state)
  PROVE  /\ answers' \in [Calls -> Nat] /\ slot' \in [Calls -> SlotSet]
         /\ task' \in [Calls -> TaskSet]
<1>1. PICK n \in Nat : n = answers[c] + 1
  BY DEF Shapes
<1>2. answers' = [answers EXCEPT ![c] = n]
  BY <1>1 DEF Settled
<1>3. slot' = [slot EXCEPT ![c] = DoneSlot(TRUE)] /\ DoneSlot(TRUE) \in SlotSet
  BY SlotsAre DEF Settled
<1>4. /\ task' = [task EXCEPT ![c] = [task[c] EXCEPT !.state = state]]
      /\ [task[c] EXCEPT !.state = state] \in TaskSet
  BY DEF Settled, Shapes, TaskSet
<1> QED
  BY <1>2, <1>3, <1>4 DEF Shapes

LEMMA ShapesKept == Shapes /\ [Next]_vars => Shapes'
<1> SUFFICES ASSUME Shapes, [Next]_vars  PROVE Shapes'
  OBVIOUS
<1> USE SlotsAre, FreshIsProgress DEF durable, memory, history
<1>1. CASE StartRound
  <2> USE DEF StartRound
  <2>1. round' \in RoundSet
    BY <1>1 DEF RoundSet
  <2>2. task' \in [Calls -> TaskSet]
    BY <1>1 DEF TaskSet, NewTask, NoTask, Tools
  <2>3. answers' \in [Calls -> Nat]
    BY <1>1
  <2>4. slot' \in [Calls -> SlotSet]
    <3>1. DoneSlot(TRUE) \in SlotSet
      OBVIOUS
    <3> QED
      BY <1>1, <3>1
  <2> QED
    BY <1>1, <2>1, <2>2, <2>3, <2>4 DEF Shapes
<1>2. CASE NextCall
  <2>1. PICK c \in round.pending :
             /\ task' = [task EXCEPT ![c] = NewTask]
             /\ round' = [round EXCEPT !.pending = @ \ {c}]
    BY <1>2 DEF NextCall
  <2>2. round' \in RoundSet
    BY <2>1 DEF Shapes, RoundSet
  <2>3. task' \in [Calls -> TaskSet]
    BY <2>1 DEF Shapes, TaskSet, NewTask, Tools
  <2> QED
    BY <1>2, <2>2, <2>3 DEF NextCall, Shapes
<1>3. CASE FinishRound \/ FaultRound \/ AbortRound
  <2>1. round' \in RoundSet /\ slot' \in [Calls -> SlotSet]
    BY <1>3 DEF FinishRound, FaultRound, AbortRound, Over, RoundSet
  <2>2. answers' \in [Calls -> Nat]
    <3>1. CASE AbortRound
      <4>1. \A c \in Calls : answers[c] \in Nat /\ answers[c] + 1 \in Nat
        BY DEF Shapes
      <4> QED
        BY <3>1, <4>1 DEF AbortRound
    <3> QED
      BY <1>3, <3>1 DEF FinishRound, FaultRound, Shapes
  <2> QED
    BY <1>3, <2>1, <2>2 DEF FinishRound, FaultRound, AbortRound, Shapes
<1>4. CASE MarkRound
  BY <1>4 DEF MarkRound, Shapes
<1>5. CASE Crash
  BY <1>5 DEF Crash, Shapes
<1>6. ASSUME NEW c \in Calls, Answer(c) \/ Interrupt(c) \/ AbortCall(c)
      PROVE  Shapes'
  <2>1. \E state \in Ended : Settled(c, state)
    BY <1>6 DEF Answer, Interrupt, AbortCall, Ended
  <2>2. /\ answers' \in [Calls -> Nat] /\ slot' \in [Calls -> SlotSet]
        /\ task' \in [Calls -> TaskSet]
    BY <2>1, SettledShaped
  <2> QED
    BY <1>6, <2>2 DEF Answer, Interrupt, AbortCall, Shapes
<1>7. ASSUME NEW c \in Calls, Intend(c) \/ Rerun(c)
      PROVE  Shapes'
  <2>1. PICK tool \in Tools : Start(c, tool)
    BY <1>7 DEF Intend, Rerun
  <2>2. /\ run' \in [Calls -> {"off", "executing", "stopping", "settling"}]
        /\ ran' \in [Calls -> Seq(Tools)]
    BY <2>1 DEF Start, Goto, Shapes
  <2>3. prog' \in [Calls -> ProgSet] /\ \A d \in Calls : Ordered(prog'[d])
    BY <2>1, ProgressOfOne DEF Start, Shapes
  <2>4. slot' \in [Calls -> SlotSet]
    <3>1. slot \in [Calls -> SlotSet] /\ slot[c] \in SlotSet
          /\ [slot[c] EXCEPT !.status = "running"] \in SlotSet
          /\ Cleared(slot[c]) \in SlotSet
      BY DEF Shapes, SlotSet
    <3>2. \/ slot' = [slot EXCEPT ![c] = [slot[c] EXCEPT !.status = "running"]]
          \/ slot' = [slot EXCEPT ![c] = Cleared(slot[c])]
      BY <1>7, <3>1 DEF Intend, Rerun
    <3> QED
      BY <3>1, <3>2
  <2>5. task' \in [Calls -> TaskSet]
    <3>1. \A t \in Tools : [state |-> "execute", replay |-> t] \in TaskSet
      BY DEF TaskSet
    <3> QED
      BY ZenonT(60), <1>7, <3>1 DEF Intend, Rerun, Shapes, Tools
  <2> QED
    BY <1>7, <2>2, <2>3, <2>4, <2>5 DEF Intend, Rerun, Shapes
<1>8. ASSUME NEW c \in Calls, Return(c) \/ Stopped(c) \/ Settle(c) \/ GiveUp(c) \/ Fault(c)
      PROVE  Shapes'
  <2>1. run' \in [Calls -> {"off", "executing", "stopping", "settling"}]
    BY <1>8 DEF Return, Stopped, Settle, GiveUp, Fault, EndRun, Goto, Shapes
  <2>2. prog' \in [Calls -> ProgSet] /\ \A d \in Calls : Ordered(prog'[d])
    <3>1. CASE Return(c)
      <4> DEFINE q == [prog[c] EXCEPT !.stopped = TRUE, !.timer = FALSE]
      <4>1. q \in ProgSet /\ Ordered(q) /\ Prog(c, q)
        BY <3>1 DEF Return, Shapes, ProgSet, Ordered
      <4> QED
        BY <4>1, ProgressOfOne DEF Shapes
    <3>2. CASE Stopped(c)
      BY <3>2 DEF Stopped, Shapes
    <3>3. CASE EndRun(c)
      BY <3>3, ProgressOfOne DEF EndRun, Shapes
    <3> QED
      BY <1>8, <3>1, <3>2, <3>3 DEF Settle, GiveUp, Fault
  <2>3. /\ answers' \in [Calls -> Nat] /\ slot' \in [Calls -> SlotSet]
        /\ task' \in [Calls -> TaskSet]
    <3>1. CASE Settle(c)
      BY <3>1, SettledShaped DEF Settle, Ended
    <3>2. CASE Fault(c)
      BY <3>2 DEF Fault, Faulted, Shapes, TaskSet, Ended
    <3> QED
      BY <1>8, <3>1, <3>2 DEF Return, Stopped, GiveUp, Shapes
  <2> QED
    BY <1>8, <2>1, <2>2, <2>3 DEF Return, Stopped, Settle, GiveUp, Fault, Shapes
<1>9. ASSUME NEW c \in Calls, MarkCall(c)
      PROVE  Shapes'
  BY <1>9 DEF MarkCall, Shapes
<1>10. ASSUME NEW c \in Calls, ProgressSteps(c)
       PROVE  Shapes'
  <2>1. prog' \in [Calls -> ProgSet] /\ \A d \in Calls : Ordered(prog'[d])
    BY <1>10, ProgressShaped
  <2>2. slot' \in [Calls -> SlotSet]
    <3>1. CASE Write(c)
      <4>1. PICK i \in DOMAIN prog[c].jobs :
              slot' = slot \/
              slot' = [slot EXCEPT ![c].output = prog[c].jobs[i].upto,
                                   ![c].diagnostics = @ + (prog[c].jobs[i].upto - prog[c].jobs[i].from)]
        BY <3>1 DEF Write
      <4>2. prog[c].jobs[i] \in JobSet /\ prog[c].jobs[i].from <= prog[c].jobs[i].upto
        BY DEF Shapes, ProgSet, Ordered
      <4>3. PICK n \in Nat : n = prog[c].jobs[i].upto - prog[c].jobs[i].from
        BY <4>2 DEF JobSet
      <4>4. PICK m \in Nat : m = prog[c].jobs[i].upto
        BY <4>2 DEF JobSet
      <4>5. slot' = slot \/ slot' = [slot EXCEPT ![c].output = m, ![c].diagnostics = @ + n]
        BY <4>1, <4>3, <4>4
      <4>6. slot \in [Calls -> SlotSet] /\ slot[c] \in SlotSet
        BY DEF Shapes
      <4>7. PICK k \in Nat : k = slot[c].diagnostics + n
        BY <4>6 DEF SlotSet
      <4>8. [slot[c] EXCEPT !.output = m, !.diagnostics = k] \in SlotSet
        BY <4>6 DEF SlotSet
      <4>9. \/ slot' = slot
            \/ slot' = [slot EXCEPT ![c] = [slot[c] EXCEPT !.output = m, !.diagnostics = k]]
        BY <4>5, <4>6, <4>7 DEF SlotSet
      <4> QED
        BY <4>6, <4>8, <4>9
    <3> QED
      BY <1>10, <3>1
         DEF ProgressSteps, Report, Schedule, Wake, Flush, Snapshot, ProgressStep, Shapes
  <2>3. /\ UNCHANGED <<round, task, marked, answers, run, ran, crashes>>
        /\ reports' \in Nat
    BY <1>10 DEF ProgressSteps, Report, Schedule, Wake, Flush, Snapshot, Write, ProgressStep, Shapes
  <2> QED
    BY <2>1, <2>2, <2>3 DEF Shapes
<1>11. CASE UNCHANGED vars
  BY <1>11 DEF vars, Shapes
<1> QED
  BY <1>1, <1>2, <1>3, <1>4, <1>5, <1>6, <1>7, <1>8, <1>9, <1>10, <1>11
     DEF Next, ProgressSteps

LEMMA ShapesInit == Init => Shapes
BY FreshIsProgress, SlotsAre DEF Init, Shapes, RoundSet, TaskSet, NoTask, Tools

\* The types of the state hold of every round.
THEOREM TypeCorrect == Spec => []TypeOK
<1>1. Shapes => TypeOK
  BY DEF Shapes, TypeOK, RoundSet, TaskSet, SlotSet, Ordered
<1> QED
  BY <1>1, ShapesInit, ShapesKept, PTL DEF Spec
-----------------------------------------------------------------------------
(* Every call gets its one result, and the slots tell the tasks.  The      *)
(* invariant says of each call what its task's state implies for its       *)
(* result, its slot and its invocation, in each phase of the round.        *)

HasResult(c) == \/ task[c].state \in {"completed", "failed", "aborted"}
                \/ task[c].state = "none" /\ c \notin round.pending

Told(c) ==
  /\ task[c].state = "execute" =>
       answers[c] = 0 /\ slot[c].status = "running" /\ slot[c].entry = FALSE
  /\ task[c].state = "call" \/ c \in round.pending =>
       answers[c] = 0 /\ slot[c] = PendingSlot
  /\ task[c].state = "faulted" => answers[c] = 0 /\ slot[c] = DoneSlot(FALSE)
  /\ HasResult(c) => answers[c] = 1 /\ slot[c] = DoneSlot(TRUE)

InStepOf(c) ==
  /\ run[c] # "off" => task[c].state = "execute"
  /\ run[c] = "off" => prog[c] = Fresh
  /\ c \in round.pending => round.state = "waiting" /\ task[c].state = "none"
  /\ round.state = "requested" => task[c] = NoTask /\ answers[c] = 0
  /\ round.state = "waiting" => Told(c)
  /\ round.state \in Ended =>
       ~Live(c) /\ answers[c] = IF task[c].state = "faulted" THEN 0 ELSE 1

RoundInv == \A c \in Calls : InStepOf(c)

LEMMA SlotFacts ==
  /\ PendingSlot.status = "pending" /\ PendingSlot.entry = FALSE
  /\ Cleared(PendingSlot) = PendingSlot
  /\ \A entry \in BOOLEAN : /\ DoneSlot(entry).status = "done"
                           /\ DoneSlot(entry).entry = entry
                           /\ Cleared(DoneSlot(entry)) = DoneSlot(entry)
<1>1. ASSUME NEW s \in SlotSet, s.output = 0, s.diagnostics = 0
      PROVE  Cleared(s) = s
  BY <1>1 DEF Cleared, SlotSet
<1>2. /\ PendingSlot.status = "pending" /\ PendingSlot.entry = FALSE
      /\ PendingSlot.output = 0 /\ PendingSlot.diagnostics = 0
  BY DEF PendingSlot, NoSlot
<1>3. ASSUME NEW entry \in BOOLEAN
      PROVE  /\ DoneSlot(entry).status = "done" /\ DoneSlot(entry).entry = entry
             /\ DoneSlot(entry).output = 0 /\ DoneSlot(entry).diagnostics = 0
  BY DEF DoneSlot, NoSlot
<1> QED
  BY <1>1, <1>2, <1>3, SlotsAre

\* A call whose part of the state a step leaves alone stays in step.
LEMMA OthersStay ==
  ASSUME NEW d \in Calls, InStepOf(d), round' = round,
         task'[d] = task[d], answers'[d] = answers[d], slot'[d] = slot[d],
         run'[d] = run[d], prog'[d] = prog[d]
  PROVE  InStepOf(d)'
BY DEF InStepOf, Told, HasResult, Live

\* An invocation is gone only with its progress, a live task is in a round.
LEMMA LiveWaits ==
  ASSUME Shapes, RoundInv, NEW c \in Calls, Live(c)
  PROVE  round.state = "waiting" /\ c \notin round.pending
BY DEF Shapes, RoundSet, RoundInv, InStepOf, Live, NoTask, Ended

LEMMA RoundInvKept == Shapes /\ RoundInv /\ [Next]_vars => RoundInv'
<1> SUFFICES ASSUME Shapes, RoundInv, [Next]_vars  PROVE RoundInv'
  OBVIOUS
<1> USE DEF durable, memory, history
<1>1. CASE StartRound
  <2>1. PICK offered \in SUBSET Calls, started \in SUBSET Calls :
          /\ started \subseteq offered
          /\ round' = [state |-> "waiting", pending |-> offered \ started]
          /\ task' = [c \in Calls |-> IF c \in started THEN NewTask ELSE NoTask]
          /\ answers' = [c \in Calls |-> IF c \in offered THEN 0 ELSE 1]
          /\ slot' = [c \in Calls |-> IF c \in offered THEN PendingSlot ELSE DoneSlot(TRUE)]
    BY <1>1 DEF StartRound
  <2>2. ASSUME NEW c \in Calls  PROVE InStepOf(c)'
    <3>1. run'[c] = "off" /\ prog'[c] = Fresh
      BY <1>1 DEF StartRound, RoundInv, InStepOf, NoTask
    <3>2. Told(c)'
      BY <2>1 DEF Told, HasResult, NewTask, NoTask
    <3> QED
      BY <2>1, <3>1, <3>2 DEF InStepOf, NewTask, NoTask, Ended
  <2> QED
    BY <2>2 DEF RoundInv
<1>2. CASE NextCall
  <2>1. PICK c \in round.pending :
             /\ task' = [task EXCEPT ![c] = NewTask]
             /\ round' = [round EXCEPT !.pending = @ \ {c}]
    BY <1>2 DEF NextCall
  <2>2. c \in Calls /\ round \in RoundSet /\ round.state = "waiting" /\ task[c].state = "none"
        /\ InStepOf(c) /\ task \in [Calls -> TaskSet]
    BY DEF Shapes, RoundSet, RoundInv, InStepOf
  <2>3. round'.state = "waiting" /\ round'.pending = round.pending \ {c}
    BY <2>1, <2>2 DEF RoundSet
  <2>4. InStepOf(c)'
    BY <1>2, <2>1, <2>2, <2>3 DEF NextCall, InStepOf, Told, HasResult, NewTask, Ended
  <2>5. ASSUME NEW d \in Calls, d # c  PROVE InStepOf(d)'
    <3>1. InStepOf(d) /\ task'[d] = task[d] /\ UNCHANGED <<answers, slot, run, prog>>
          /\ (d \in round'.pending <=> d \in round.pending)
      BY <1>2, <2>1, <2>2, <2>3, <2>5 DEF NextCall, RoundInv
    <3> QED
      BY <2>2, <2>3, <3>1 DEF InStepOf, Told, HasResult, Live, Ended
  <2> QED
    BY <2>4, <2>5 DEF RoundInv
<1>3. CASE FinishRound \/ FaultRound \/ AbortRound
  <2>1. /\ round.state = "waiting" /\ round'.state \in Ended /\ round'.pending = {}
        /\ AllSettled /\ UNCHANGED <<task, run, prog>>
        /\ Ended \cap {"requested", "waiting"} = {}
    BY <1>3 DEF FinishRound, FaultRound, AbortRound, ToolsPhase, Over, Ended
  <2>2. ASSUME NEW c \in Calls  PROVE InStepOf(c)'
    <3>1. InStepOf(c) /\ Told(c) /\ ~Live(c) /\ answers \in [Calls -> Nat] /\ task[c] \in TaskSet
      BY <2>1 DEF RoundInv, InStepOf, AllSettled, Shapes
    <3>2. answers'[c] = IF c \in round.pending THEN answers[c] + 1 ELSE answers[c]
      BY <1>3, <3>1 DEF FinishRound, FaultRound, AbortRound
    <3>3. answers'[c] = IF task[c].state = "faulted" THEN 0 ELSE 1
      <4>1. CASE c \in round.pending
        BY <3>1, <3>2, <4>1 DEF Told, InStepOf
      <4>2. CASE c \notin round.pending
        BY <3>1, <3>2, <4>2 DEF Told, HasResult, Live, TaskSet, Ended
      <4> QED
        BY <4>1, <4>2
    <3> QED
      BY <2>1, <3>1, <3>3 DEF InStepOf, Live
  <2> QED
    BY <2>2 DEF RoundInv
<1>4. CASE MarkRound
  BY <1>4, OthersStay DEF MarkRound, RoundInv
<1>5. CASE Crash
  BY <1>5 DEF Crash, RoundInv, InStepOf, Told, HasResult, Live
<1>6. ASSUME NEW c \in Calls, Answer(c) \/ Interrupt(c) \/ AbortCall(c) \/ Settle(c) \/ Fault(c)
      PROVE  RoundInv'
  <2>1. Live(c) /\ round' = round
    BY <1>6 DEF Answer, Interrupt, AbortCall, Settle, Fault, MayRun, Live, RoundInv, InStepOf
  <2>2. round.state = "waiting" /\ c \notin round.pending /\ InStepOf(c) /\ Told(c)
    BY <2>1, LiveWaits DEF RoundInv, InStepOf
  <2>3. /\ task \in [Calls -> TaskSet] /\ answers \in [Calls -> Nat] /\ slot \in [Calls -> SlotSet]
        /\ run \in [Calls -> {"off", "executing", "stopping", "settling"}]
        /\ prog \in [Calls -> ProgSet]
    BY DEF Shapes
  <2>4. run'[c] = "off" /\ prog'[c] = Fresh
        /\ \A d \in Calls \ {c} : run'[d] = run[d] /\ prog'[d] = prog[d]
    BY <1>6, <2>2, <2>3
       DEF Answer, Interrupt, AbortCall, Settle, Fault, MayRun, EndRun, Goto, Prog, InStepOf
  <2>5. \/ \E state \in {"completed", "failed", "aborted"} : Settled(c, state)
        \/ Faulted(c)
    BY <1>6 DEF Answer, Interrupt, AbortCall, Settle, Fault
  <2>6. \A d \in Calls \ {c} :
          task'[d] = task[d] /\ answers'[d] = answers[d] /\ slot'[d] = slot[d]
    BY <2>3, <2>5 DEF Settled, Faulted
  <2>7. answers[c] = 0
    BY <2>1, <2>2 DEF Told, Live
  <2>8. \/ /\ task'[c].state \in {"completed", "failed", "aborted"}
           /\ answers'[c] = 1 /\ slot'[c] = DoneSlot(TRUE)
        \/ task'[c].state = "faulted" /\ answers'[c] = 0 /\ slot'[c] = DoneSlot(FALSE)
    <3>1. CASE Faulted(c)
      BY <2>3, <2>7, <3>1 DEF Faulted, TaskSet
    <3>2. ASSUME NEW state \in {"completed", "failed", "aborted"}, Settled(c, state)
          PROVE  /\ task'[c].state \in {"completed", "failed", "aborted"}
                 /\ answers'[c] = 1 /\ slot'[c] = DoneSlot(TRUE)
      BY <2>3, <2>7, <3>2 DEF Settled, TaskSet
    <3> QED
      BY <2>5, <3>1, <3>2
  <2>9. InStepOf(c)'
    BY <2>1, <2>2, <2>4, <2>8 DEF InStepOf, Told, HasResult, Ended
  <2>10. ASSUME NEW d \in Calls, d # c  PROVE InStepOf(d)'
    BY <2>1, <2>4, <2>6, <2>10, OthersStay DEF RoundInv
  <2> QED
    BY <2>9, <2>10 DEF RoundInv
<1>7. ASSUME NEW c \in Calls, Intend(c) \/ Rerun(c)  PROVE RoundInv'
  <2>1. Live(c) /\ round' = round /\ answers' = answers
    BY <1>7 DEF Intend, Rerun, MayRun, Live
  <2>2. round.state = "waiting" /\ c \notin round.pending /\ InStepOf(c) /\ Told(c)
    BY <2>1, LiveWaits DEF RoundInv, InStepOf
  <2>3. /\ task \in [Calls -> TaskSet] /\ slot \in [Calls -> SlotSet]
        /\ run \in [Calls -> {"off", "executing", "stopping", "settling"}]
        /\ prog \in [Calls -> ProgSet]
    BY DEF Shapes
  <2>4. run'[c] = "executing"
        /\ \A d \in Calls \ {c} : run'[d] = run[d] /\ prog'[d] = prog[d]
    BY <1>7, <2>3 DEF Intend, Rerun, Start, Goto, Prog
  <2>5. task'[c].state = "execute" /\ \A d \in Calls \ {c} : task'[d] = task[d]
    BY <1>7, <2>3 DEF Intend, Rerun, MayRun
  <2>6. slot'[c].status = "running" /\ slot'[c].entry = FALSE
        /\ \A d \in Calls \ {c} : slot'[d] = slot[d]
    <3>1. CASE Intend(c)
      <4>1. slot[c] = PendingSlot
        BY <2>2, <3>1 DEF Intend, MayRun, Told
      <4>2. slot' = [slot EXCEPT ![c] = [PendingSlot EXCEPT !.status = "running"]]
        BY <2>3, <3>1, <4>1 DEF Intend
      <4> QED
        BY <2>3, <4>2 DEF PendingSlot, NoSlot
    <3>2. CASE Rerun(c)
      <4>1. slot[c].status = "running" /\ slot[c].entry = FALSE /\ slot[c] \in SlotSet
        BY <2>2, <2>3, <3>2 DEF Rerun, MayRun, Told
      <4>2. slot' = [slot EXCEPT ![c] = Cleared(slot[c])]
        BY <2>3, <3>2 DEF Rerun
      <4> QED
        BY <2>3, <4>1, <4>2 DEF Cleared, SlotSet
    <3> QED
      BY <1>7, <3>1, <3>2
  <2>7. answers[c] = 0
    BY <2>1, <2>2 DEF Told, Live
  <2>8. InStepOf(c)'
    BY <2>1, <2>2, <2>4, <2>5, <2>6, <2>7 DEF InStepOf, Told, HasResult, Ended
  <2>9. ASSUME NEW d \in Calls, d # c  PROVE InStepOf(d)'
    BY <2>1, <2>4, <2>5, <2>6, <2>9, OthersStay DEF RoundInv
  <2> QED
    BY <2>8, <2>9 DEF RoundInv
<1>8. ASSUME NEW c \in Calls, Return(c) \/ Stopped(c) \/ GiveUp(c)  PROVE RoundInv'
  <2>1. UNCHANGED <<round, task, answers, slot>>
    BY <1>8 DEF Return, Stopped, GiveUp
  <2>2. /\ run[c] # "off"
        /\ run \in [Calls -> {"off", "executing", "stopping", "settling"}]
        /\ prog \in [Calls -> ProgSet]
    BY <1>8 DEF Return, Stopped, GiveUp, Shapes
  <2>3. /\ run'[c] # "off" \/ (run'[c] = "off" /\ prog'[c] = Fresh)
        /\ \A d \in Calls \ {c} : run'[d] = run[d] /\ prog'[d] = prog[d]
    BY <1>8, <2>2 DEF Return, Stopped, GiveUp, EndRun, Goto, Prog
  <2>4. InStepOf(c)'
    BY <2>1, <2>2, <2>3 DEF RoundInv, InStepOf, Told, HasResult, Live
  <2>5. ASSUME NEW d \in Calls, d # c  PROVE InStepOf(d)'
    BY <2>1, <2>3, <2>5, OthersStay DEF RoundInv
  <2> QED
    BY <2>4, <2>5 DEF RoundInv
<1>9. ASSUME NEW c \in Calls, MarkCall(c)  PROVE RoundInv'
  BY <1>9, OthersStay DEF MarkCall, RoundInv
<1>10. ASSUME NEW c \in Calls, ProgressSteps(c)  PROVE RoundInv'
  <2>1. UNCHANGED <<round, task, answers, run>>
    BY <1>10 DEF ProgressSteps, Report, Schedule, Wake, Flush, Snapshot, Write, ProgressStep
  <2>2. prog \in [Calls -> ProgSet] /\ slot \in [Calls -> SlotSet]
    BY DEF Shapes
  <2>3. run[c] # "off"
    <3>1. Fresh.marking = 0 /\ Fresh.timer = FALSE /\ Fresh.flushing = 0 /\ DOMAIN Fresh.jobs = {}
      BY DEF Fresh
    <3>2. \/ run[c] = "executing"
          \/ prog[c].marking > 0 \/ prog[c].timer \/ prog[c].flushing > 0
          \/ \E i \in DOMAIN prog[c].jobs : TRUE
      BY <1>10 DEF ProgressSteps, Report, Schedule, Wake, Flush, Snapshot, Write
    <3>3. prog[c] # Fresh \/ run[c] = "executing"
      BY <3>1, <3>2
    <3> QED
      BY <3>3 DEF RoundInv, InStepOf
  <2>4. task[c].state = "execute" /\ Live(c) /\ InStepOf(c)
    BY <2>3 DEF RoundInv, InStepOf, Live
  <2>5. \A d \in Calls \ {c} : prog'[d] = prog[d]
    BY <1>10, <2>2
       DEF ProgressSteps, Report, Schedule, Wake, Flush, Snapshot, Write, Prog
  <2>6. /\ \A d \in Calls \ {c} : slot'[d] = slot[d]
        /\ slot'[c].status = slot[c].status /\ slot'[c].entry = slot[c].entry
    <3>1. CASE Write(c)
      BY <2>2, <3>1 DEF Write, SlotSet
    <3>2. CASE slot' = slot
      BY <3>2
    <3> QED
      BY <1>10, <3>1, <3>2
         DEF ProgressSteps, Report, Schedule, Wake, Flush, Snapshot, ProgressStep
  <2>7. round.state = "waiting" /\ c \notin round.pending
    BY <2>4, LiveWaits
  <2>8. InStepOf(c)'
    BY <2>1, <2>3, <2>4, <2>6, <2>7 DEF InStepOf, Told, HasResult, Ended
  <2>9. ASSUME NEW d \in Calls, d # c  PROVE InStepOf(d)'
    BY <2>1, <2>5, <2>6, <2>9, OthersStay DEF RoundInv
  <2> QED
    BY <2>8, <2>9 DEF RoundInv
<1>11. CASE UNCHANGED vars
  BY <1>11, OthersStay DEF vars, RoundInv
<1> QED
  BY <1>1, <1>2, <1>3, <1>4, <1>5, <1>6, <1>7, <1>8, <1>9, <1>10, <1>11
     DEF Next, ProgressSteps

LEMMA RoundInvInit == Init => RoundInv
BY DEF Init, RoundInv, InStepOf, Ended

LEMMA RoundAlways == Spec => [](Shapes /\ RoundInv)
BY ShapesInit, ShapesKept, RoundInvInit, RoundInvKept, PTL DEF Spec

\* Every call of the answer gets exactly one result unless its task was
\* faulted, and while the round lasts its slots tell what the tasks did.
THEOREM InStep == Spec => []RoundInStep
<1>1. Shapes /\ RoundInv => RoundInStep
  <2> SUFFICES ASSUME Shapes, RoundInv  PROVE RoundInStep
    OBVIOUS
  <2>1. ASSUME NEW c \in Calls
        PROVE  /\ answers[c] <= 1
               /\ round.state \in Ended =>
                    ~Live(c) /\ (answers[c] = 1 <=> task[c].state # "faulted")
    <3>1. InStepOf(c) /\ task[c] \in TaskSet /\ round \in RoundSet
      BY DEF RoundInv, Shapes
    <3>2. CASE round.state = "waiting"
      <4>1. answers[c] = 0 \/ answers[c] = 1
        BY <3>1, <3>2 DEF InStepOf, Told, HasResult, TaskSet, Ended
      <4> QED
        BY <3>2, <4>1 DEF Ended
    <3>3. CASE round.state # "waiting"
      BY <3>1, <3>3 DEF InStepOf, RoundSet, Ended
    <3> QED
      BY <3>2, <3>3
  <2>2. ASSUME round.state = "waiting", NEW c \in Calls
        PROVE  /\ slot[c].status = "running" <=> task[c].state = "execute"
               /\ slot[c].status = "pending" <=>
                    (task[c].state = "call" \/ c \in round.pending)
               /\ slot[c].entry <=> answers[c] = 1
               /\ slot[c].status # "running" => slot[c] = Cleared(slot[c])
    <3>1. Told(c) /\ task[c] \in TaskSet /\ (c \in round.pending => task[c].state = "none")
      BY <2>2 DEF RoundInv, InStepOf, Shapes
    <3>2. CASE task[c].state = "execute"
      BY <3>1, <3>2 DEF Told
    <3>3. CASE task[c].state = "call" \/ c \in round.pending
      <4>1. slot[c] = PendingSlot /\ answers[c] = 0 /\ task[c].state # "execute"
        BY <3>1, <3>3 DEF Told
      <4> QED
        BY <3>3, <4>1, SlotFacts
    <3>4. CASE task[c].state = "faulted"
      <4>1. slot[c] = DoneSlot(FALSE)
        BY <3>1, <3>4 DEF Told
      <4>2. /\ slot[c].status = "done" /\ slot[c].entry = FALSE
            /\ slot[c] = Cleared(slot[c])
        BY <4>1, SlotFacts
      <4>3. answers[c] = 0 /\ c \notin round.pending
        BY <3>1, <3>4 DEF Told
      <4> QED
        BY <3>4, <4>2, <4>3
    <3>5. CASE HasResult(c)
      BY <3>1, <3>5, SlotFacts DEF Told, HasResult
    <3> QED
      BY <3>1, <3>2, <3>3, <3>4, <3>5 DEF HasResult, TaskSet, Ended
  <2> QED
    BY <2>1, <2>2 DEF RoundInStep, EveryCallAnswered, SlotsTellTasks
<1> QED
  BY <1>1, RoundAlways, PTL
-----------------------------------------------------------------------------
(* A tool that is not safe to replay runs once.  The intent on record says *)
(* what ran: a call that is to run again has run only safe tools, and one  *)
(* that has no intent on record has run nothing.                           *)

AllSafe(s) == \A i \in DOMAIN s : s[i] = "safe"

RanAsRecorded(c) ==
  /\ task[c].state \in {"none", "call"} => ran[c] = <<>>
  /\ task[c].state = "execute" /\ task[c].replay = "safe" => AllSafe(ran[c])
  /\ Len(ran[c]) > 1 => AllSafe(ran[c])

ReplayInv == \A c \in Calls : RanAsRecorded(c)

LEMMA OneMoreSafe ==
  ASSUME NEW s \in Seq(Tools), NEW tool \in Tools
  PROVE  /\ AllSafe(s) /\ tool = "safe" => AllSafe(Append(s, tool))
         /\ s = <<>> => Len(Append(s, tool)) = 1
BY AppendProperties DEF AllSafe

LEMMA ReplayInvKept == Shapes /\ RoundInv /\ ReplayInv /\ [Next]_vars => ReplayInv'
<1> SUFFICES ASSUME Shapes, RoundInv, ReplayInv, [Next]_vars  PROVE ReplayInv'
  OBVIOUS
<1> USE DEF durable, memory, history
<1>1. task \in [Calls -> TaskSet] /\ ran \in [Calls -> Seq(Tools)]
      /\ round.pending \subseteq Calls
  BY DEF Shapes, RoundSet
<1>2. CASE UNCHANGED ran /\ \A c \in Calls : \/ task'[c] = task[c]
                                             \/ task'[c].state \in Ended
                                             \/ task[c].state = "none"
                                                /\ task'[c].state \in {"none", "call"}
  <2> SUFFICES ASSUME NEW c \in Calls  PROVE RanAsRecorded(c)'
    BY DEF ReplayInv
  <2>1. RanAsRecorded(c)
    BY DEF ReplayInv
  <2> QED
    BY <1>2, <2>1 DEF RanAsRecorded, Ended
<1>3. CASE StartRound
  <2>1. \A c \in Calls : task[c].state = "none" /\ task'[c].state \in {"none", "call"}
    BY <1>3 DEF StartRound, RoundInv, InStepOf, NoTask, NewTask
  <2> QED
    BY <1>2, <1>3, <2>1 DEF StartRound
<1>4. CASE NextCall
  <2>1. PICK c \in Calls : task' = [task EXCEPT ![c] = NewTask] /\ task[c].state = "none"
    BY <1>1, <1>4 DEF NextCall, RoundInv, InStepOf
  <2>2. \A d \in Calls : task'[d] = task[d] \/ (d = c /\ task'[d].state = "call")
    BY <1>1, <2>1 DEF NewTask
  <2> QED
    BY <1>2, <1>4, <2>1, <2>2 DEF NextCall
<1>5. CASE FinishRound \/ FaultRound \/ AbortRound \/ MarkRound \/ Crash \/ UNCHANGED vars
  BY <1>2, <1>5 DEF FinishRound, FaultRound, AbortRound, MarkRound, Crash, vars
<1>6. ASSUME NEW c \in Calls, Answer(c) \/ Interrupt(c) \/ AbortCall(c) \/ Settle(c) \/ Fault(c)
      PROVE  ReplayInv'
  <2>1. UNCHANGED ran
        /\ \E state \in Ended : task' = [task EXCEPT ![c].state = state]
    BY <1>6 DEF Answer, Interrupt, AbortCall, Settle, Fault, Settled, Faulted, Ended
  <2>2. \A d \in Calls : task'[d] = task[d] \/ task'[d].state \in Ended
    BY <1>1, <2>1 DEF TaskSet
  <2> QED
    BY <1>2, <2>1, <2>2
<1>7. ASSUME NEW c \in Calls, Intend(c) \/ Rerun(c)  PROVE ReplayInv'
  <2>1. PICK tool \in Tools :
             /\ ran' = [ran EXCEPT ![c] = Append(ran[c], tool)]
             /\ \/ /\ task[c].state = "call"
                   /\ task' = [task EXCEPT ![c] = [state |-> "execute", replay |-> tool]]
                \/ /\ task[c].state = "execute" /\ task[c].replay = "safe" /\ tool = "safe"
                   /\ task' = task
    BY <1>7 DEF Intend, Rerun, MayRun, Start, Replayable
  <2>2. RanAsRecorded(c) /\ ran[c] \in Seq(Tools) /\ ran'[c] = Append(ran[c], tool)
        /\ \A d \in Calls \ {c} : task'[d] = task[d] /\ ran'[d] = ran[d]
    BY <1>1, <2>1 DEF ReplayInv
  <2>3. ASSUME task[c].state = "call"  PROVE RanAsRecorded(c)'
    <3>1. ran[c] = <<>> /\ task'[c] = [state |-> "execute", replay |-> tool]
      BY <1>1, <2>1, <2>2, <2>3 DEF RanAsRecorded
    <3>2. /\ Len(ran'[c]) = 1
          /\ tool = "safe" => AllSafe(ran'[c])
      <4>1. AllSafe(ran[c])
        BY <3>1 DEF AllSafe
      <4> QED
        BY <2>2, <3>1, <4>1, OneMoreSafe
    <3>3. task'[c].state = "execute" /\ task'[c].replay = tool
      BY <3>1
    <3> QED
      BY <3>2, <3>3 DEF RanAsRecorded
  <2>4. ASSUME task[c].state = "execute", task[c].replay = "safe", tool = "safe", task' = task
        PROVE  RanAsRecorded(c)'
    <3>1. AllSafe(ran'[c])
      BY <2>2, <2>4, OneMoreSafe DEF RanAsRecorded
    <3> QED
      BY <2>4, <3>1 DEF RanAsRecorded
  <2>5. RanAsRecorded(c)'
    BY <2>1, <2>3, <2>4
  <2>6. ASSUME NEW d \in Calls, d # c  PROVE RanAsRecorded(d)'
    BY <2>2, <2>6 DEF ReplayInv, RanAsRecorded, AllSafe
  <2> QED
    BY <2>5, <2>6 DEF ReplayInv
<1>8. ASSUME NEW c \in Calls,
             Return(c) \/ Stopped(c) \/ GiveUp(c) \/ MarkCall(c) \/ ProgressSteps(c)
      PROVE  ReplayInv'
  BY <1>2, <1>8
     DEF Return, Stopped, GiveUp, MarkCall, ProgressSteps, Report, Schedule, Wake,
         Flush, Snapshot, Write, ProgressStep
<1> QED
  BY <1>3, <1>4, <1>5, <1>6, <1>7, <1>8 DEF Next, ProgressSteps

\* A call whose tool was not declared safe to replay executes at most once.
THEOREM UnsafeOnce == Spec => []UnsafeRunsOnce
<1>1. Init => ReplayInv
  BY DEF Init, ReplayInv, RanAsRecorded, AllSafe, NoTask
<1>2. ReplayInv => UnsafeRunsOnce
  BY DEF ReplayInv, RanAsRecorded, AllSafe, UnsafeRunsOnce
<1> QED
  BY <1>1, <1>2, ReplayInvKept, RoundAlways, PTL DEF Spec
-----------------------------------------------------------------------------
(* What a call reported is not forgotten.  A write is in flight only while *)
(* its job exists, so whoever finds one in flight may leave the rest to    *)
(* its finish.                                                             *)

Pending(p) ==
  /\ p.inFlight => p.jobs # <<>>
  /\ p.dirty /\ ~p.stopped =>
       p.jobs # <<>> \/ p.timer \/ p.marking + p.flushing > 0

PendingInv == \A c \in Calls : Pending(prog[c])

LEMMA FinishedIsPending ==
  ASSUME NEW p \in ProgSet, NEW i \in DOMAIN p.jobs
  PROVE  Pending(Finished(p, i))
<1>1. /\ Finished(p, i).inFlight = FALSE /\ Finished(p, i).dirty = p.dirty
      /\ Finished(p, i).stopped = p.stopped
      /\ Finished(p, i).flushing = p.flushing
      /\ Finished(p, i).marking = IF p.dirty THEN p.marking + 1 ELSE p.marking
  BY DEF Finished, ProgSet
<1>2. p.marking \in Nat /\ p.flushing \in Nat
  BY DEF ProgSet
<1> QED
  BY <1>1, <1>2 DEF Pending

LEMMA PendingInvKept == Shapes /\ PendingInv /\ [Next]_vars => PendingInv'
<1> SUFFICES ASSUME Shapes, PendingInv, [Next]_vars  PROVE PendingInv'
  OBVIOUS
<1> USE DEF durable, memory, history
<1>1. prog \in [Calls -> ProgSet] /\ \A c \in Calls : prog[c] \in ProgSet
  BY DEF Shapes
<1>2. ASSUME NEW c \in Calls, NEW q, Prog(c, q), Pending(q)  PROVE PendingInv'
  BY <1>1, <1>2 DEF PendingInv, Prog
<1>3. Pending(Fresh)
  BY DEF Pending, Fresh
<1>4. CASE UNCHANGED prog
  BY <1>4 DEF PendingInv
<1>5. CASE \/ StartRound \/ NextCall \/ FinishRound \/ FaultRound \/ AbortRound
           \/ MarkRound \/ UNCHANGED vars
  BY <1>4, <1>5 DEF StartRound, NextCall, FinishRound, FaultRound, AbortRound, MarkRound, vars
<1>6. CASE Crash
  BY <1>3, <1>6 DEF Crash, PendingInv
<1>7. ASSUME NEW c \in Calls,
             \/ Answer(c) \/ Interrupt(c) \/ AbortCall(c) \/ MarkCall(c) \/ Stopped(c)
      PROVE  PendingInv'
  BY <1>4, <1>7 DEF Answer, Interrupt, AbortCall, MarkCall, Stopped
<1>8. ASSUME NEW c \in Calls,
             Intend(c) \/ Rerun(c) \/ Settle(c) \/ GiveUp(c) \/ Fault(c)
      PROVE  PendingInv'
  BY <1>2, <1>3, <1>8 DEF Intend, Rerun, Start, Settle, GiveUp, Fault, EndRun
<1>9. ASSUME NEW c \in Calls, Return(c) \/ ProgressSteps(c)
      PROVE  PendingInv'
  <2> DEFINE p == prog[c]
  <2>1. p \in ProgSet /\ Pending(p)
        /\ p.marking \in Nat /\ p.flushing \in Nat /\ p.jobs \in Seq(JobSet)
    BY <1>1 DEF PendingInv, ProgSet
  <2>2. CASE Return(c)
    <3> DEFINE q == [p EXCEPT !.stopped = TRUE, !.timer = FALSE]
    <3>1. q.stopped /\ q.inFlight = p.inFlight /\ q.jobs = p.jobs
      BY <2>1 DEF ProgSet
    <3>2. Pending(q)
      BY <2>1, <3>1 DEF Pending
    <3> QED
      BY <1>2, <2>2, <3>2 DEF Return
  <2>3. CASE Report(c)
    <3> DEFINE q == [p EXCEPT !.said = @ + 1, !.dirty = TRUE, !.marking = @ + 1]
    <3>1. /\ q.marking = p.marking + 1 /\ q.flushing = p.flushing
          /\ q.inFlight = p.inFlight /\ q.jobs = p.jobs
      BY <2>1 DEF ProgSet
    <3>2. Pending(q)
      BY <2>1, <3>1 DEF Pending
    <3> QED
      BY <1>2, <2>3, <3>2 DEF Report
  <2>4. CASE Schedule(c)
    <3> DEFINE r == [p EXCEPT !.marking = @ - 1]
               q == [r EXCEPT !.flushing = @ + 1]
               t == [r EXCEPT !.timer = TRUE]
    <3>1. /\ r.stopped = p.stopped /\ r.inFlight = p.inFlight /\ r.jobs = p.jobs
          /\ q.flushing = p.flushing + 1 /\ q.marking = p.marking - 1
          /\ q.inFlight = p.inFlight /\ q.jobs = p.jobs
          /\ t.timer = TRUE /\ t.inFlight = p.inFlight /\ t.jobs = p.jobs
      BY <2>1 DEF ProgSet
    <3>2. p.marking > 0
      BY <2>4 DEF Schedule
    <3>3. \/ (Prog(c, r) /\ (r.stopped \/ r.inFlight)) \/ Prog(c, q) \/ Prog(c, t)
      BY <2>4 DEF Schedule
    <3>4. Pending(q) /\ Pending(t) /\ (r.stopped \/ r.inFlight => Pending(r))
      BY <2>1, <3>1, <3>2 DEF Pending
    <3> QED
      BY <1>2, <3>3, <3>4
  <2>5. CASE Wake(c)
    <3> DEFINE q == [p EXCEPT !.timer = FALSE, !.flushing = @ + 1]
    <3>1. /\ q.flushing = p.flushing + 1 /\ q.marking = p.marking
          /\ q.inFlight = p.inFlight /\ q.jobs = p.jobs
      BY <2>1 DEF ProgSet
    <3>2. Pending(q)
      BY <2>1, <3>1 DEF Pending
    <3> QED
      BY <1>2, <2>5, <3>2 DEF Wake
  <2>6. CASE Flush(c)
    <3> DEFINE r == [p EXCEPT !.flushing = @ - 1]
               q == [r EXCEPT !.dirty = FALSE, !.inFlight = TRUE, !.jobs = Append(@, NewJob)]
    <3>1. /\ r.stopped = p.stopped /\ r.dirty = p.dirty /\ r.inFlight = p.inFlight
          /\ r.jobs = p.jobs /\ q.jobs = Append(p.jobs, NewJob)
      BY <2>1 DEF ProgSet
    <3>2. (Prog(c, r) /\ (r.stopped \/ ~r.dirty)) \/ Prog(c, q)
      BY <2>6 DEF Flush
    <3>3. NewJob \in JobSet
      BY DEF NewJob, JobSet
    <3>4. q.jobs # <<>>
      BY <2>1, <3>1, <3>3, AppendProperties
    <3>5. Pending(q) /\ (r.stopped \/ ~r.dirty => Pending(r))
      BY <2>1, <3>1, <3>4 DEF Pending
    <3> QED
      BY <1>2, <3>2, <3>5
  <2>7. CASE Snapshot(c)
    <3>1. PICK i \in DOMAIN p.jobs :
               Prog(c, [p EXCEPT !.jobs[i] = [read |-> TRUE, upto |-> p.said,
                                              from |-> p.written]])
      BY <2>7 DEF Snapshot
    <3> DEFINE job  == [read |-> TRUE, upto |-> p.said, from |-> p.written]
               jobs == [p.jobs EXCEPT ![i] = job]
               q    == [p EXCEPT !.jobs = jobs]
    <3>2. DOMAIN jobs = DOMAIN p.jobs /\ i \in DOMAIN p.jobs
      OBVIOUS
    <3>3. jobs # <<>>
      BY <3>2
    <3>4. Prog(c, q)
      BY <2>1, <3>1 DEF ProgSet
    <3> HIDE DEF jobs
    <3>5. Pending(q)
      BY <2>1, <3>3 DEF Pending, ProgSet
    <3> QED
      BY <1>2, <3>4, <3>5
  <2>8. CASE Write(c)
    <3>1. PICK i \in DOMAIN p.jobs :
               \/ Prog(c, Finished(p, i))
               \/ Prog(c, Finished([p EXCEPT !.written = p.jobs[i].upto], i))
      BY <2>8 DEF Write
    <3> DEFINE r == [p EXCEPT !.written = p.jobs[i].upto]
    <3>2. r \in ProgSet /\ r.jobs = p.jobs
      BY <2>1, WrittenIsProgress DEF Shapes
    <3>3. Prog(c, Finished(p, i)) \/ Prog(c, Finished(r, i))
      BY <3>1
    <3> HIDE DEF r, p
    <3>4. Pending(Finished(p, i)) /\ Pending(Finished(r, i))
      BY <2>1, <3>2, FinishedIsPending
    <3> QED
      BY <1>2, <3>3, <3>4
  <2> QED
    BY <1>9, <2>2, <2>3, <2>4, <2>5, <2>6, <2>7, <2>8 DEF ProgressSteps
<1> QED
  BY <1>5, <1>6, <1>7, <1>8, <1>9 DEF Next, ProgressSteps

\* What a running call has reported is never forgotten: a write is on its
\* way or something is left that will start one.
THEOREM NotForgotten == Spec => []ProgressNotForgotten
<1>1. Init => PendingInv
  BY DEF Init, PendingInv, Pending, Fresh
<1>2. PendingInv => ProgressNotForgotten
  BY DEF PendingInv, Pending, ProgressNotForgotten
<1> QED
  BY <1>1, <1>2, PendingInvKept, ShapesInit, ShapesKept, PTL DEF Spec
=============================================================================
