-------------------------- MODULE MCTaskScheduler --------------------------
(* Small ownership trees for TaskScheduler.                                *)
EXTENDS TaskScheduler, TLC

CONSTANTS p, c, d,   \* tasks
          A, B       \* conversations

NoBackground == {}

\* A fork: p owns two children.
ForkOwner == (p :> NoTask) @@ (c :> p) @@ (d :> p)
ForkHome  == (p :> A) @@ (c :> A) @@ (d :> A)

\* A family: p and its child c in root conversation A.
FamilyOwner == (p :> NoTask) @@ (c :> p)
FamilyHome  == (p :> A) @@ (c :> A)
OneRoot     == (A :> NoTask)

\* Links of all kinds: the background task p in root conversation A owns the
\* conversation B, in which d lives.
MixedOwner == (p :> NoTask) @@ (d :> NoTask)
MixedHome  == (p :> A) @@ (d :> B)
MixedEdge  == (A :> NoTask) @@ (B :> p)
Apart      == {p}

\* The two children of the fork are interchangeable.
Children == Permutations({c, d})
=============================================================================
