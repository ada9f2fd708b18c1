--------------------------- MODULE OwnershipTree ---------------------------
(***************************************************************************)
(* The ownership tree of a pi-durable harness                              *)
(* (harness/scheduler/ownership.rs): a task's parent is its owner task, or *)
(* else its conversation; a conversation's parent is the task that owns    *)
(* it, if there is one.  The ownership fields of a record never change, so *)
(* the tree of every task and conversation that can ever be created is a   *)
(* parameter; which of them exist is state of the modules that extend this *)
(* one.  The operators are the pure functions of ownership.rs; they take   *)
(* the task records as an argument.                                        *)
(***************************************************************************)
EXTENDS Naturals, Sequences, FiniteSets

CONSTANTS Task,               \* ids a task may be minted under
          Conversation,       \* ids a conversation may be minted under
          NoTask,             \* "no owner"
          Owner,              \* TaskNode.owner
          Home,               \* TaskNode.conversation_id
          ConversationOwner,  \* edges: the task that owns a conversation
          Background          \* TaskNode.background

Node == Task \cup Conversation

\* parent_of: where the walk up continues after a task.
ParentOf(t) == IF Owner[t] = NoTask THEN Home[t] ELSE Owner[t]

\* above, on loaded edges: every task and conversation met walking up from u.
Above[u \in Node] ==
  IF u \in Task THEN <<u>> \o Above[ParentOf(u)]
  ELSE IF ConversationOwner[u] = NoTask THEN <<u>>
  ELSE <<u>> \o Above[ConversationOwner[u]]

\* What create_task and create_conversation guarantee about the fields: a
\* child task is never background and lives in its owner's conversation.
ASSUME OwnershipShape ==
  /\ Task \cap Conversation = {}
  /\ NoTask \notin Node
  /\ Owner \in [Task -> Task \cup {NoTask}]
  /\ Home \in [Task -> Conversation]
  /\ ConversationOwner \in [Conversation -> Task \cup {NoTask}]
  /\ Background \subseteq Task
  /\ \A t \in Task : Owner[t] # NoTask => /\ t \notin Background
                                          /\ Home[t] = Home[Owner[t]]

\* An owner exists before what it owns, so every walk up ends.
ASSUME WalksEnd ==
  \A u \in Node :
    /\ Above[u] \in Seq(Node)
    /\ Above[u] = <<u>> \o (IF u \in Task THEN Above[ParentOf(u)]
                            ELSE IF ConversationOwner[u] = NoTask THEN <<>>
                            ELSE Above[ConversationOwner[u]])

\* The positions of a walk up to and including the first background task: the
\* reach of an ordinary traversal.
OrdinaryReach(walk) ==
  {i \in DOMAIN walk : \A j \in 1..(i - 1) : walk[j] \notin Background}

\* The tasks and conversations an ordinary traversal from u meets.
OrdinaryAbove == [u \in Node |-> {Above[u][i] : i \in OrdinaryReach(Above[u])}]

\* The owner tasks that the work of t counts for, and whose cancellation
\* reaches t.
OrdinaryOwners == [t \in Task |-> OrdinaryAbove[ParentOf(t)] \cap Task]

\* Every task above t, across background boundaries.
AllOwners == [t \in Task |-> {Above[ParentOf(t)][i] : i \in DOMAIN Above[ParentOf(t)]}
                             \cap Task]

\* The conversations on the walk from u: those whose edges must be loaded
\* before a traversal from u is known.
ChainOf == [u \in Node |-> {Above[u][i] : i \in DOMAIN Above[u]} \cap Conversation]

\* chain_known: no step of the walk is Unknown.
ChainKnown(u, known) == ChainOf[u] \subseteq known
-----------------------------------------------------------------------------
(* Task records.  "absent" stands for an id that no committed record has.  *)
(* outcome "failed" stands for every outcome but Completed.                *)

LiveStatus == {"pending", "running", "waiting", "completing"}
Status     == LiveStatus \cup {"absent", "terminal"}
Outcome    == {"completed", "failed"}

Record == [status   : Status,
           outcome  : Outcome \cup {"none"},
           mark     : BOOLEAN,             \* abort_requested
           on       : SUBSET Task,         \* members of a wait
           failFast : BOOLEAN]             \* JoinPolicy::FailFast

Absent == [status |-> "absent", outcome |-> "none", mark |-> FALSE,
           on |-> {}, failFast |-> FALSE]

\* with_state and the record create_task builds.
WithState(r, status)    == [Absent EXCEPT !.status = status, !.mark = r.mark]
WithOutcome(r, status, outcome) ==
  [Absent EXCEPT !.status = status, !.outcome = outcome, !.mark = r.mark]
WaitingState(r, on, failFast) ==
  [WithState(r, "waiting") EXCEPT !.on = on, !.failFast = failFast]
Marked(r)               == [r EXCEPT !.mark = TRUE]

Live(recs)      == {t \in Task : recs[t].status \in LiveStatus}
Exists(recs, t) == recs[t].status # "absent"

\* failed_outcome
FailedOutcome(r) == r.status \in {"completing", "terminal"} /\ r.outcome = "failed"

\* cancellation_intent
CancellationIntent(r) == r.status \in LiveStatus /\ (r.mark \/ FailedOutcome(r))

\* owned_live: the live ordinary work that counts for t.
OwnedLive(recs, t) == {x \in Live(recs) \ Background : t \in OrdinaryOwners[x]}

\* below_cancelled, on a known chain.
BelowCancelled(recs, u) ==
  \E o \in OrdinaryAbove[u] \cap Task : CancellationIntent(recs[o])

\* in_scope for a conversation scope, on a known chain.
InScope(u, c, crossBackground) ==
  IF crossBackground THEN c \in ChainOf[u] ELSE c \in OrdinaryAbove[u]

\* idle for one conversation: no live ordinary task in its scope; a task whose
\* chain is not loaded counts as in scope, unless a background owner is met
\* before the walk gets lost.
Idle(recs, known, c) ==
  \A t \in Live(recs) \ Background :
    LET walk == Above[ParentOf(t)]
        lost == {i \in DOMAIN walk : walk[i] \in Conversation \ known}
    IN  \E i \in DOMAIN walk :
          /\ \A j \in 1..i : walk[j] # c
          /\ \A j \in 1..(i - 1) : j \notin lost
          /\ walk[i] \in Background \/ (i = Len(walk) /\ i \notin lost)
=============================================================================
