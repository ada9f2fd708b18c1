----------------------- MODULE TaskLifecycle_proofs -----------------------
(***************************************************************************)
(* What follows from the ownership contract of the task table, for every   *)
(* tree of tasks and conversations.                                        *)
(***************************************************************************)
EXTENDS TaskLifecycle, OwnershipTree_proofs

\* Every reachable task table is well formed.
THEOREM TypeCorrect == Spec => []TypeOK
<1>1. Init => TypeOK
  BY DEF Init, TypeOK, Record, Absent, Status, Outcome, LiveStatus
<1>2. TypeOK /\ [Next]_vars => TypeOK'
  BY DEF TypeOK, Next, vars
<1> QED
  BY <1>1, <1>2, PTL DEF Spec

\* A record that exists goes on existing, and a live one is live until it
\* settles.
LEMMA RecordsStay ==
  ASSUME TypeOK, Next, NEW t \in Task
  PROVE  /\ Exists(rec, t) => Exists(rec', t)
         /\ t \in Live(rec) => \/ t \in Live(rec')
                               \/ Settled(t)
         /\ t \in Live(rec') => \/ t \in Live(rec)
                                \/ Created(t)
         /\ Exists(rec', t) => Exists(rec, t) \/ Created(t)
<1>1. TaskStep(t)
  BY DEF Next
<1>2. rec[t].status \in Status
  BY DEF TypeOK, Record
<1>3. CASE rec'[t] = rec[t]
  BY <1>3 DEF Exists, Live
<1>4. CASE Created(t)
  BY <1>4 DEF Created, WithState, Absent, Exists, Live, LiveStatus
<1>5. CASE Moved(t)
  BY <1>5 DEF Moved, Exists, Live, LiveStatus
<1>6. CASE Held(t)
  BY <1>6 DEF Held, Exists, Live, LiveStatus
<1>7. CASE MarkedWhileHeld(t)
  <2>1. rec'[t].status = "completing"
    BY <1>7 DEF MarkedWhileHeld, Marked, TypeOK, Record
  <2> QED
    BY <1>7, <2>1 DEF MarkedWhileHeld, Exists, Live, LiveStatus
<1>8. CASE Settled(t)
  BY <1>8 DEF Settled, Exists, Live, LiveStatus
<1> QED
  BY <1>1, <1>3, <1>4, <1>5, <1>6, <1>7, <1>8 DEF TaskStep

\* No conversation goes away.
LEMMA ConversationsStay == ASSUME TypeOK, Next PROVE convs \subseteq convs'
  BY DEF TypeOK, Next, ConversationStep

\* A task with a live child does not settle.
LEMMA SettledOwnsNothing ==
  ASSUME NEW t \in Task, t \in Live(rec'), Owner[t] # NoTask
  PROVE  ~Settled(Owner[t])
<1>1. t \in OwnedLive(rec', Owner[t])
  BY OwnerIsOrdinaryOwner DEF OwnedLive
<1> QED
  BY <1>1 DEF Settled

\* Structured ownership holds in every reachable state: whatever is live or was
\* created under a task has its owner, and no task settles before its children.
THEOREM OwnersOutlive == Spec => []OwnersOutliveWork
<1>1. Init => OwnersOutliveWork
  BY TreeTypes DEF Init, OwnersOutliveWork, Exists, Live, LiveStatus, Absent
<1>2. TypeOK /\ OwnersOutliveWork /\ [Next]_vars => OwnersOutliveWork'
  <2> SUFFICES ASSUME TypeOK, OwnersOutliveWork, Next
               PROVE  OwnersOutliveWork'
    BY DEF OwnersOutliveWork, vars, Exists, Live
  <2> USE TreeTypes
  <2>1. ASSUME NEW t \in Task, Exists(rec', t)
        PROVE  Home[t] \in convs'
    <3>1. CASE Exists(rec, t)
      BY <3>1, ConversationsStay DEF OwnersOutliveWork
    <3>2. CASE Created(t)
      BY <3>2 DEF Created
    <3> QED
      BY <2>1, <3>1, <3>2, RecordsStay
  <2>2. ASSUME NEW t \in Live(rec'), Owner[t] # NoTask
        PROVE  Owner[t] \in Live(rec')
    <3>1. t \in Task /\ Owner[t] \in Task
      BY <2>2 DEF Live
    <3>2. CASE t \in Live(rec)
      <4>1. Owner[t] \in Live(rec)
        BY <2>2, <3>2 DEF OwnersOutliveWork
      <4>2. ~Settled(Owner[t])
        BY <2>2, <3>1, SettledOwnsNothing
      <4> QED
        BY <3>1, <4>1, <4>2, RecordsStay
    <3>3. CASE Created(t)
      BY <2>2, <3>1, <3>3 DEF Created, AcceptsWork, Live, LiveStatus
    <3> QED
      BY <2>2, <3>1, <3>2, <3>3, RecordsStay
  <2>3. ASSUME NEW t \in Task, Exists(rec', t), Owner[t] # NoTask
        PROVE  Exists(rec', Owner[t])
    <3>1. CASE Exists(rec, t)
      BY <2>3, <3>1, RecordsStay DEF OwnersOutliveWork
    <3>2. CASE Created(t)
      BY <2>3, <3>2 DEF Created, AcceptsWork, Exists
    <3> QED
      BY <2>3, <3>1, <3>2, RecordsStay
  <2>4. ASSUME NEW c \in convs', ConversationOwner[c] # NoTask
        PROVE  Exists(rec', ConversationOwner[c])
    <3>1. c \in Conversation /\ ConversationStep(c)
      BY <2>4 DEF Next
    <3>2. CASE c \in convs
      BY <2>4, <3>1, <3>2, RecordsStay DEF OwnersOutliveWork
    <3>3. CASE c \notin convs
      BY <2>4, <3>1, <3>3 DEF ConversationStep, AcceptsWork, Exists
    <3> QED
      BY <3>2, <3>3
  <2> QED
    BY <2>1, <2>2, <2>3, <2>4 DEF OwnersOutliveWork
<1> QED
  BY <1>1, <1>2, TypeCorrect, PTL DEF Spec

\* A settled record is never written again.
THEOREM TerminalFinal == Spec => TerminalIsFinal
<1> DEFINE Kept == \A t \in Task : rec[t].status = "terminal" => rec'[t] = rec[t]
<1>1. [Next]_vars => [Kept]_vars
  <2>1. ASSUME Next, NEW t \in Task, rec[t].status = "terminal"
        PROVE  rec'[t] = rec[t]
    BY <2>1 DEF Next, TaskStep, Created, Moved, Held, MarkedWhileHeld, Settled,
                LiveStatus
  <2> QED
    BY <2>1
<1> QED
  BY <1>1, PTL DEF Spec, TerminalIsFinal
=============================================================================
