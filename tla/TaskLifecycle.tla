--------------------------- MODULE TaskLifecycle ---------------------------
(***************************************************************************)
(* What the durable records of a harness promise, whatever schedules them: *)
(* the structured-ownership contract of the task table.  A step is one     *)
(* commit; it may change several records at once (a reservation pass, a    *)
(* cancellation cascade, a handler that creates children and waits).       *)
(* TaskScheduler is shown to implement this specification.                 *)
(***************************************************************************)
EXTENDS OwnershipTree

VARIABLES rec,    \* rec[t] : the committed record of task t
          convs   \* the conversations that have a committed record

vars == <<rec, convs>>

TypeOK == /\ rec \in [Task -> Record]
          /\ convs \subseteq Conversation

Init == /\ rec = [t \in Task |-> Absent]
        /\ convs = {c \in Conversation : ConversationOwner[c] = NoTask}

\* An owner accepts new work: validate_owners on the final candidates.
AcceptsWork(r) == r.status \in {"pending", "running", "waiting"} /\ ~r.mark

\* t is created, pending, in an existing conversation and under an owner that
\* accepts work after the commit.
Created(t) == /\ rec[t].status = "absent"
              /\ rec'[t] = WithState(Absent, "pending")
              /\ Home[t] \in convs'
              /\ Owner[t] # NoTask => AcceptsWork(rec'[Owner[t]])

\* t moves among the states that hold no outcome; an abort mark stays.
Moved(t) == /\ rec[t].status \in {"pending", "running", "waiting"}
            /\ rec'[t].status \in {"pending", "running", "waiting"}
            /\ rec'[t].outcome = "none"
            /\ rec[t].mark => rec'[t].mark
            /\ rec'[t].status = "waiting" /\ rec'[t] # rec[t]
                 => rec[t].status \in {"running", "waiting"}

\* t gets an outcome while ordinary work it owns is live: it is held back.
Held(t) == /\ rec[t].status \in {"pending", "running", "waiting"}
           /\ rec'[t].status = "completing"
           /\ rec'[t].outcome \in Outcome
           /\ rec[t].mark => rec'[t].mark
           /\ OwnedLive(rec', t) # {}

\* A held task may be marked; its outcome does not change.
MarkedWhileHeld(t) == /\ rec[t].status = "completing"
                      /\ rec'[t] = Marked(rec[t])

\* t settles, for good, once no ordinary work it owns is live; a held outcome
\* is the one that settles.
Settled(t) == /\ rec[t].status \in LiveStatus
              /\ rec'[t].status = "terminal"
              /\ rec'[t].outcome \in Outcome
              /\ rec[t].status = "completing" => rec'[t].outcome = rec[t].outcome
              /\ OwnedLive(rec', t) = {}

TaskStep(t) == \/ rec'[t] = rec[t]
               \/ Created(t)
               \/ Moved(t)
               \/ Held(t)
               \/ MarkedWhileHeld(t)
               \/ Settled(t)

\* A conversation is created under an owner that accepts work; none goes away.
ConversationStep(c) == \/ c \in convs' <=> c \in convs
                       \/ /\ c \in convs' \ convs
                          /\ ConversationOwner[c] # NoTask =>
                               AcceptsWork(rec'[ConversationOwner[c]])

Next == /\ rec' \in [Task -> Record]
        /\ convs' \subseteq Conversation
        /\ \A t \in Task : TaskStep(t)
        /\ \A c \in Conversation : ConversationStep(c)

Spec == Init /\ [][Next]_vars
-----------------------------------------------------------------------------
\* Structured ownership: a task that is still live, and every conversation that
\* was created under a task, has an owner; the owner of a live task is live, so
\* no task settles while a child of it is running, waiting or held back.
OwnersOutliveWork ==
  /\ \A t \in Task : Exists(rec, t) => Home[t] \in convs
  /\ \A t \in Live(rec) : Owner[t] # NoTask => Owner[t] \in Live(rec)
  /\ \A t \in Task : Exists(rec, t) /\ Owner[t] # NoTask => Exists(rec, Owner[t])
  /\ \A c \in convs : ConversationOwner[c] # NoTask =>
                        Exists(rec, ConversationOwner[c])

\* A record that reached terminal is never written again, by any of the writers
\* that hold older copies of it.
TerminalIsFinal ==
  [][\A t \in Task : rec[t].status = "terminal" => rec'[t] = rec[t]]_vars
=============================================================================
