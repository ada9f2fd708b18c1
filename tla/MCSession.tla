----------------------------- MODULE MCSession -----------------------------
(* A session with a few threads of each kind.                              *)
EXTENDS Session, TLC

CONSTANTS c1, c2   \* threads that commit

\* The writers are interchangeable.
Writers == Permutations({c1, c2})
=============================================================================
