-------------------------- MODULE MCJsonlStorage ---------------------------
(* Two sidecar files and batches that put their records in different places. *)
EXTENDS JsonlStorage

CONSTANTS t, d   \* a task and a document

Through(o) == [object |-> o, inline |-> FALSE]
InMarker(o) == [object |-> o, inline |-> TRUE]

\* The document alone, the task before it, and the task's last record before it.
Batches == {<<Through(d)>>, <<Through(t), Through(d)>>, <<InMarker(t), Through(d)>>}
=============================================================================
