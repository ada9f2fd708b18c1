--------------------------- MODULE MCSubmissions ---------------------------
(* Settings of the queues for Submissions.                                 *)
EXTENDS Submissions

\* Everything that waits is taken at once, or follow-ups one by one.
Batched    == [steering |-> "all", followUp |-> "all"]
OneByOne   == [steering |-> "oneAtATime", followUp |-> "oneAtATime"]

ChangingModes == {Batched, OneByOne}
=============================================================================
