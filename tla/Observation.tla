---------------------------- MODULE Observation ----------------------------
(* One watch of one document (session/observation.rs, CommittedWatch): the *)
(* frames it still has to deliver, the job that delivers them, and its end. *)
(*                                                                         *)
(* A value is [content, shape]: the number of the commit that wrote the    *)
(* content, and the version of the definition that gives it its shape.  A  *)
(* frame carries the value it leads to and, in place of its operations,    *)
(* the value they apply to; a replacement applies to any value.            *)
EXTENDS Integers, SequencesExt

Value(content, shape) == [content |-> content, shape |-> shape]

Null     == Value(0, 0)      \* the value of a retired document
AnyValue == Value(-1, 0)     \* what a replacement applies to

Frame(from, value) == [from |-> from, value |-> value]

Replacement(value) == Frame(AnyValue, value)

\* The deliveries under way: none, a job spawned, a job between two frames,
\* its listener running, and a job that found no frame but is still marked as
\* running.
DrainState == {"none", "scheduled", "running", "delivering", "drained"}

\* No watch: nothing is attached.
NoWatch ==
  [addr |-> 0, id |-> 0, value |-> Null, seen |-> 0, pending |-> <<>>,
   started |-> FALSE, retired |-> FALSE, drain |-> "none", ended |-> FALSE]

\* CommittedWatch::new, with what the listener of attach_watch captures: the
\* document's number and the version its value was read with.
NewWatch(addr, id, value) ==
  [NoWatch EXCEPT !.addr = addr, !.id = id, !.value = value, !.seen = value.shape]

Ended(w) == w.ended

\* schedule_watch
Schedule(w) ==
  IF w.drain = "none" /\ ~Ended(w) THEN [w EXCEPT !.drain = "scheduled"] ELSE w

\* Mutant: the backlog of a slow listener grows without end.
QueueAll(w, frame, max) == Append(w.pending, frame)

\* A full backlog gives way to one replacement.
Queue(w, frame, max) ==
  IF Len(w.pending) >= max
  THEN <<Replacement(frame.value)>>
  ELSE Append(w.pending, frame)

\* CommittedWatch::advance
Advance(w, frame, max) ==
  IF Ended(w) \/ w.retired THEN w
  ELSE LET next == [w EXCEPT !.retired = frame.value = Null,
                             !.pending = Queue(w, frame, max)]
       IN  IF w.started THEN Schedule(next) ELSE next

\* CommittedWatch::start
StartWatch(w) ==
  LET next == [w EXCEPT !.started = TRUE]
  IN  IF w.pending = <<>> THEN next ELSE Schedule(next)

\* terminate_watch: only the first end counts.  Its reason, what an ended watch
\* showed last and what its listeners had captured are left out.
Terminate(w) ==
  IF Ended(w) THEN w ELSE [NoWatch EXCEPT !.drain = w.drain, !.ended = TRUE]

\* The first half of drain_watch, with the step of the job before it.
BeginDrain(w) == [w EXCEPT !.drain = IF Ended(w) THEN "none" ELSE "running"]

\* The head of the loop: the next frame goes to the listener.
PopFrame(w) ==
  IF Ended(w) \/ w.pending = <<>> THEN [w EXCEPT !.drain = "drained"]
  ELSE [w EXCEPT !.drain = "delivering",
                 !.value = Head(w.pending).value,
                 !.pending = Tail(w.pending)]

\* The listener has returned, or it has panicked.
ListenerReturns(w) ==
  IF w.value = Null THEN [Terminate(w) EXCEPT !.drain = "drained"]
  ELSE [w EXCEPT !.drain = "running"]

ListenerPanics(w) == [Terminate(w) EXCEPT !.drain = "drained"]

\* The end of drain_watch.
EndDrain(w) == [w EXCEPT !.drain = "none"]

-----------------------------------------------------------------------------
\* Each frame applies to the value before it.
ExactFrames(value, frames) ==
  \A i \in DOMAIN frames :
     frames[i].from \in {AnyValue, IF i = 1 THEN value ELSE frames[i - 1].value}

\* The value a listener will have seen once everything has been delivered.
LastValue(w) == IF w.pending = <<>> THEN w.value ELSE Last(w.pending).value
=============================================================================
