----------------------------- MODULE MCAgentLoop -----------------------------
(* AgentLoop for TLC: two threads, and a few messages each way. *)
EXTENDS AgentLoop, TLC

CONSTANTS u, v

OneAndAll == [q \in {"steer", "followUp"} |->
                IF q = "steer" THEN "oneAtATime" ELSE "all"]

\* Two messages are steered, so that they have an order and a mode to keep.
TwoSteered == [w \in {"prompt", "steer", "followUp", "prepared"} |->
                 IF w = "steer" THEN 2 ELSE 1]
NoHost == [w \in {"prompt", "steer", "followUp", "prepared"} |->
             IF w = "prompt" THEN 1 ELSE 0]

Threads == Permutations(Caller)
==============================================================================
