------------------------------- MODULE Inbox -------------------------------
(* What one commit of the harness may do to a conversation's transcript,   *)
(* its submissions and the queue that waits for a boundary                 *)
(* (harness/inbox.rs, harness/submissions.rs, session/transaction.rs).     *)
(*                                                                         *)
(* A transaction is a record tx with the candidate values of the state and *)
(*   head  the active head the boundary goes by (Boundary.head), and       *)
(*   ok    FALSE once a change was staged that the settling of the         *)
(*         transaction refuses, so that the commit fails as a whole.       *)
(*                                                                         *)
(* Entries are numbered by their place in the transcript.  Left out of it  *)
(* are entries that neither carry a head, nor belong to a submission, nor  *)
(* answer one: tool results, system entries, and the messages of attempts  *)
(* that failed, which no model context contains (context.rs, contribute).  *)
EXTENDS Integers, FiniteSets, SequencesExt

NoHead   == 0     \* an entry or a draft without a head
SelfHead == -1    \* a draft whose head is the entry it becomes: a reset

Entry(kind, head, s) == [kind |-> kind, head |-> head, sub |-> s]

\* Where the active range begins: the head of the latest entry that has one.
ActiveHead(entries) ==
  LET marks == {i \in DOMAIN entries : entries[i].head # NoHead}
  IN  IF marks = {} THEN NoHead ELSE entries[Max(marks)].head

\* append_entry: the head "self" becomes the entry's own number.
AppendEntry(tx, kind, head, s) ==
  LET own == Len(tx.log) + 1
  IN  [tx EXCEPT !.log = Append(@, Entry(kind, IF head = SelfHead THEN own ELSE head, s))]

-----------------------------------------------------------------------------
(* Submissions: [mode, head, status, entry, answer], the mode of a write    *)
(* being "write".                                                          *)

Draft(mode, head) == [mode |-> mode, head |-> head]

Submission(draft, status, entry) ==
  [mode |-> draft.mode, head |-> draft.head, status |-> status, entry |-> entry, answer |-> 0]

Settled(s) == s.status \in {"done", "unanswered"}

\* apply_submission_change: what is settled stays; only what is queued is
\* placed; only a placed input is answered.
PlaceSubmission(tx, s, entry) ==
  IF Settled(tx.sub[s]) THEN tx
  ELSE [tx EXCEPT !.ok = @ /\ tx.sub[s].status = "queued",
                  !.sub[s].status = IF tx.sub[s].mode = "write" THEN "done" ELSE "placed",
                  !.sub[s].entry = entry]

Unsettled(tx, set) == {s \in set : ~Settled(tx.sub[s])}

AnswerSubmissions(tx, set, answer) ==
  [tx EXCEPT !.ok  = @ /\ \A s \in Unsettled(tx, set) : tx.sub[s].status = "placed",
             !.sub = [s \in DOMAIN tx.sub |->
                        IF s \in Unsettled(tx, set)
                        THEN [tx.sub[s] EXCEPT !.status = "done", !.answer = answer]
                        ELSE tx.sub[s]]]

LeaveUnanswered(tx, set) ==
  [tx EXCEPT !.sub = [s \in DOMAIN tx.sub |->
                        IF s \in Unsettled(tx, set)
                        THEN [tx.sub[s] EXCEPT !.status = "unanswered"]
                        ELSE tx.sub[s]]]

\* Mutant: a submission jumps the queue.
EnqueueFirst(tx, s) == [tx EXCEPT !.inbox = <<s>> \o @]

\* The queue is kept in the order of ids.
Enqueue(tx, s) == [tx EXCEPT !.inbox = Append(@, s)]

-----------------------------------------------------------------------------
(* Boundaries. *)

\* is_stale: placing the draft would bring back history that was cut off.
Stale(tx, draft) == draft.head > NoHead /\ draft.head < tx.head

\* Mutant: a placed head does not move the head the next writes are held to.
PlaceWriteForgetsHead(tx, s) ==
  LET own == Len(tx.log) + 1
  IN  IF Stale(tx, tx.sub[s]) THEN LeaveUnanswered(tx, {s})
      ELSE PlaceSubmission(AppendEntry(tx, "write", tx.sub[s].head, s), s, own)

PlaceWrite(tx, s) ==
  LET own    == Len(tx.log) + 1
      placed == PlaceSubmission(AppendEntry(tx, "write", tx.sub[s].head, s), s, own)
  IN  IF Stale(tx, tx.sub[s]) THEN LeaveUnanswered(tx, {s})
      ELSE [placed EXCEPT !.head = CASE tx.sub[s].head = NoHead   -> @
                                     [] tx.sub[s].head = SelfHead -> own
                                     [] OTHER                     -> tx.sub[s].head]

PlaceUser(tx, s) ==
  PlaceSubmission(AppendEntry(tx, "user", NoHead, s), s, Len(tx.log) + 1)

PlaceItem(tx, s) == IF tx.sub[s].mode = "write" THEN PlaceWrite(tx, s) ELSE PlaceUser(tx, s)

\* The transaction after each of the items is placed, from 0, none of them.
Placing(tx, items) ==
  LET after[n \in 0..Len(items)] == IF n = 0 THEN tx ELSE PlaceItem(after[n - 1], items[n])
  IN  after

\* The elements of a sequence that are in the set, in their order.
Selected(seq, set) ==
  LET upTo[n \in 0..Len(seq)] ==
        IF n = 0 THEN <<>>
        ELSE IF seq[n] \in set THEN Append(upTo[n - 1], seq[n]) ELSE upTo[n - 1]
  IN  upTo[Len(seq)]

\* Mutant: a queued reset is not noticed.
ResetUnseen(tx) == FALSE

\* A queued write is a reset.
HasReset(tx) ==
  \E s \in ToSet(tx.inbox) : tx.sub[s].mode = "write" /\ tx.sub[s].head = SelfHead

OfMode(tx, mode) == Selected(tx.inbox, {s \in DOMAIN tx.sub : tx.sub[s].mode = mode})

\* pick: all of a mode, or the first.
Picked(tx, mode, how) ==
  LET of == OfMode(tx, mode)
  IN  IF how = "all" \/ of = <<>> THEN ToSet(of) ELSE {Head(of)}

\* Mutant: follow-ups are taken at every boundary.
ChosenAnywhere(tx, at, modes) ==
  Picked(tx, "steer", modes.steering) \cup Picked(tx, "followUp", modes.followUp)

\* The inputs a boundary takes; a reset makes it final.
Chosen(tx, at, modes) ==
  Picked(tx, "steer", modes.steering) \cup
    (IF at = "final" \/ HasReset(tx) THEN Picked(tx, "followUp", modes.followUp) ELSE {})

\* apply_boundary: the writes first, then the chosen inputs, each in the order
\* of the queue; what was taken leaves it, stale writes included.
ApplyBoundary(tx, at, modes) ==
  LET chosen == Chosen(tx, at, modes)
      writes == OfMode(tx, "write")
      users  == Selected(tx.inbox, chosen)
      items  == writes \o users
  IN  [tx    |-> [Placing(tx, items)[Len(items)] EXCEPT
                    !.inbox = Selected(tx.inbox, DOMAIN tx.sub \ ToSet(items))],
       users |-> users,
       reset |-> HasReset(tx)]

\* Mutant: the items stay in the queue.
RemainInQueue(tx, gone) == tx

\* remove_inbox_item, and the splices of withdraw_queued_inputs.
RemoveItems(tx, gone) == [tx EXCEPT !.inbox = Selected(@, DOMAIN tx.sub \ gone)]

\* Submissions::abort on a queued submission, and withdraw_queued_inputs.
Withdraw(tx, gone) == RemoveItems(LeaveUnanswered(tx, gone), gone)

QueuedInputs(tx) == {s \in ToSet(tx.inbox) : tx.sub[s].mode # "write"}
=============================================================================
