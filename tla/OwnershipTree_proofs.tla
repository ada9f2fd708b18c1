----------------------- MODULE OwnershipTree_proofs -----------------------
(***************************************************************************)
(* Facts about the walks up an ownership tree that the proofs of the       *)
(* modules over it rest on.                                                *)
(***************************************************************************)
EXTENDS OwnershipTree, FiniteSetTheorems, TLAPS

\* Types of the tree, named for the proofs.
LEMMA TreeTypes ==
  /\ Owner \in [Task -> Task \cup {NoTask}]
  /\ Home \in [Task -> Conversation]
  /\ ConversationOwner \in [Conversation -> Task \cup {NoTask}]
  /\ NoTask \notin Task
  BY OwnershipShape DEF Node

\* A walk up starts where it is taken from.
LEMMA WalkOfNode ==
  ASSUME NEW u \in Node
  PROVE  /\ Above[u] \in Seq(Node)
         /\ Len(Above[u]) >= 1
         /\ Above[u][1] = u
<1> DEFINE rest == IF u \in Task THEN Above[ParentOf(u)]
                   ELSE IF ConversationOwner[u] = NoTask THEN <<>>
                   ELSE Above[ConversationOwner[u]]
<1>1. Above[u] \in Seq(Node) /\ Above[u] = <<u>> \o rest
  BY WalksEnd
<1>2. rest \in Seq(Node)
  <2>1. CASE u \in Task
    <3>1. ParentOf(u) \in Node
      BY <2>1, TreeTypes DEF Node, ParentOf
    <3> QED
      BY <2>1, <3>1, WalksEnd
  <2>2. CASE u \notin Task /\ ConversationOwner[u] = NoTask
    BY <2>2
  <2>3. CASE u \notin Task /\ ConversationOwner[u] # NoTask
    <3>1. ConversationOwner[u] \in Node
      BY <2>3, TreeTypes DEF Node
    <3> QED
      BY <2>3, <3>1, WalksEnd
  <2> QED
    BY <2>1, <2>2, <2>3
<1> HIDE DEF rest
<1> QED
  BY <1>1, <1>2

\* A walk of more than one step goes on as the walk of the next node.
LEMMA WalkGoesOn ==
  ASSUME NEW u \in Node, Len(Above[u]) > 1
  PROVE  \E n \in Node : Above[u] = <<u>> \o Above[n]
<1>1. CASE u \in Task
  BY <1>1, WalksEnd, TreeTypes DEF Node, ParentOf
<1>2. CASE u \notin Task /\ ConversationOwner[u] # NoTask
  BY <1>2, WalksEnd, TreeTypes DEF Node
<1>3. CASE u \notin Task /\ ConversationOwner[u] = NoTask
  <2>1. Above[u] = <<u>> \o <<>>
    BY <1>3, WalksEnd
  <2> QED
    BY <2>1
<1> QED
  BY <1>1, <1>2, <1>3

\* The walk up from a task starts at the task itself.
LEMMA WalkStarts ==
  ASSUME NEW t \in Task
  PROVE  /\ Above[t] \in Seq(Node)
         /\ Len(Above[t]) >= 1
         /\ Above[t][1] = t
<1> DEFINE rest == Above[ParentOf(t)]
<1>1. t \in Node /\ ParentOf(t) \in Node
  BY TreeTypes DEF Node, ParentOf
<1>2. Above[t] \in Seq(Node) /\ rest \in Seq(Node)
  BY <1>1, WalksEnd
<1>3. Above[t] = <<t>> \o rest
  BY <1>1, WalksEnd
<1>4. <<t>> \in Seq(Node) /\ Len(<<t>>) = 1 /\ <<t>>[1] = t
  BY <1>1
<1> QED
  BY <1>2, <1>3, <1>4

\* The work a task owns counts for it: its owner is on its ordinary walk up, and
\* no child of a task is background work.
LEMMA OwnerIsOrdinaryOwner ==
  ASSUME NEW t \in Task, Owner[t] # NoTask
  PROVE  /\ Owner[t] \in Task
         /\ Owner[t] \in OrdinaryOwners[t]
         /\ t \notin Background
<1> DEFINE o == Owner[t]
           walk == Above[o]
<1>1. o \in Task /\ o \in Node /\ ParentOf(t) = o
  BY TreeTypes DEF Node, ParentOf
<1>2. walk \in Seq(Node) /\ Len(walk) >= 1 /\ walk[1] = o
  BY <1>1, WalkStarts
<1>3. 1 \in DOMAIN walk
  BY <1>2
<1>4. 1 \in OrdinaryReach(walk)
  BY <1>3 DEF OrdinaryReach
<1>5. o \in OrdinaryAbove[o]
  BY <1>1, <1>2, <1>4 DEF OrdinaryAbove
<1>6. o \in OrdinaryOwners[t]
  BY <1>1, <1>5 DEF OrdinaryOwners
<1>7. t \notin Background
  BY OwnershipShape
<1> QED
  BY <1>1, <1>6, <1>7
\* A set of natural numbers has a least member: the intervals up to its members
\* are well founded by inclusion.
LEMMA LeastNumber ==
  ASSUME NEW T \in SUBSET Nat, T # {}
  PROVE  \E m \in T : \A n \in T : m <= n
<1> DEFINE intervals == {0..n : n \in T}
<1>1. intervals \subseteq FiniteSubsetsOf(Nat) /\ intervals # {}
  <2>1. ASSUME NEW n \in T
        PROVE  0..n \in FiniteSubsetsOf(Nat)
    <3>1. IsFiniteSet(0..n)
      BY FS_Interval
    <3>2. 0..n \in SUBSET Nat
      OBVIOUS
    <3> QED
      BY <3>1, <3>2 DEF FiniteSubsetsOf
  <2> QED
    BY <2>1
<1>2. PICK x \in intervals : \A y \in intervals : <<y, x>> \notin StrictSubsetOrdering(Nat)
  <2> HIDE DEF intervals
  <2> QED
    BY <1>1, FS_StrictSubsetOrderingWellFounded, WFMin
<1>3. PICK m \in T : x = 0..m
  BY <1>2
<1>4. ASSUME NEW n \in T
      PROVE  m <= n
  <2>1. <<0..n, 0..m>> \notin StrictSubsetOrdering(Nat)
    BY <1>2, <1>3
  <2>2. ~(0..n \subseteq 0..m /\ 0..n # 0..m)
    BY <2>1 DEF StrictSubsetOrdering
  <2> QED
    BY <2>2
<1> QED
  BY <1>4

\* From any of its members on, a walk up is that member's own walk.
LEMMA WalkSuffix ==
  \A i \in Nat : \A u \in Node : i \in DOMAIN Above[u] =>
    LET v == Above[u][i]
    IN  /\ v \in Node
        /\ Len(Above[v]) = Len(Above[u]) - i + 1
        /\ \A k \in DOMAIN Above[v] : Above[v][k] = Above[u][i + k - 1]
<1> DEFINE P(i) == \A u \in Node : i \in DOMAIN Above[u] =>
                     LET v == Above[u][i]
                     IN  /\ v \in Node
                         /\ Len(Above[v]) = Len(Above[u]) - i + 1
                         /\ \A k \in DOMAIN Above[v] : Above[v][k] = Above[u][i + k - 1]
           bad == {i \in Nat : ~P(i)}
<1>0. \A u \in Node : /\ Above[u] \in Seq(Node)
                       /\ Len(Above[u]) >= 1
                       /\ Above[u][1] = u
  BY WalkOfNode
<1>1. P(0)
  BY <1>0
<1>2. P(1)
  BY <1>0
<1>3. ASSUME NEW i \in Nat, i >= 1, P(i)
      PROVE  P(i + 1)
  <2> SUFFICES ASSUME NEW u \in Node, i + 1 \in DOMAIN Above[u]
               PROVE  LET v == Above[u][i + 1]
                      IN  /\ v \in Node
                          /\ Len(Above[v]) = Len(Above[u]) - (i + 1) + 1
                          /\ \A k \in DOMAIN Above[v] :
                               Above[v][k] = Above[u][(i + 1) + k - 1]
    OBVIOUS
  <2>1. Len(Above[u]) > 1
    BY <1>0, <1>3
  <2>2. PICK n \in Node : Above[u] = <<u>> \o Above[n]
    BY <2>1, WalkGoesOn
  <2>3. /\ Len(Above[u]) = Len(Above[n]) + 1
        /\ \A k \in DOMAIN Above[n] : Above[u][k + 1] = Above[n][k]
    BY <1>0, <2>2
  <2>4. i \in DOMAIN Above[n] /\ Above[u][i + 1] = Above[n][i]
    BY <1>0, <1>3, <2>3
  <2> DEFINE v == Above[n][i]
  <2>5. /\ v \in Node
        /\ Len(Above[v]) = Len(Above[n]) - i + 1
        /\ \A k \in DOMAIN Above[v] : Above[v][k] = Above[n][i + k - 1]
    BY <1>3, <2>4
  <2>6. ASSUME NEW k \in DOMAIN Above[v]
        PROVE  Above[v][k] = Above[u][(i + 1) + k - 1]
    <3>1. Above[v] \in Seq(Node) /\ Above[n] \in Seq(Node)
      BY <1>0, <2>5
    <3>2. k \in Nat /\ 1 <= k /\ k <= Len(Above[v]) /\ 1 <= i /\ i <= Len(Above[n])
      BY <1>3, <2>4, <2>6, <3>1
    <3> HIDE DEF v
    <3>3. i + k - 1 \in DOMAIN Above[n]
      BY <2>5, <3>1, <3>2
    <3>4. Above[u][(i + k - 1) + 1] = Above[n][i + k - 1]
      BY <2>3, <3>3
    <3>5. (i + 1) + k - 1 = (i + k - 1) + 1
      BY <3>2
    <3> QED
      BY <2>5, <2>6, <3>4, <3>5
  <2> QED
    BY <1>0, <2>3, <2>4, <2>5, <2>6, <1>3
<1> HIDE DEF P
<1>4. SUFFICES ASSUME bad # {} PROVE FALSE
  BY DEF P
<1>5. PICK m \in bad : \A n \in bad : m <= n
  <2> HIDE DEF bad
  <2> QED
    BY <1>4, LeastNumber, bad \in SUBSET Nat DEF bad
<1>6. m >= 2 /\ m - 1 \in Nat /\ m - 1 \notin bad
  BY <1>1, <1>2, <1>5
<1> QED
  BY <1>3, <1>5, <1>6

\* Ordinary ownership nests: what owns an ordinary owner of x owns x.
LEMMA OrdinaryOwnersNest ==
  ASSUME NEW x \in Task, NEW y \in OrdinaryOwners[x], y \notin Background,
         NEW t \in OrdinaryOwners[y]
  PROVE  t \in OrdinaryOwners[x]
<1> DEFINE w == Above[ParentOf(x)]
           z == Above[ParentOf(y)]
<1>1. /\ y \in Task /\ t \in Task
      /\ ParentOf(x) \in Node /\ ParentOf(y) \in Node
  BY TreeTypes DEF OrdinaryOwners, ParentOf, Node
<1>2. /\ w \in Seq(Node) /\ z \in Seq(Node)
  BY <1>1, WalkOfNode
<1>3. PICK i \in OrdinaryReach(w) : y = w[i]
  BY <1>1 DEF OrdinaryOwners, OrdinaryAbove
<1>4. PICK k \in OrdinaryReach(z) : t = z[k]
  BY <1>1 DEF OrdinaryOwners, OrdinaryAbove
<1>5. /\ i \in DOMAIN w /\ \A j \in 1..(i - 1) : w[j] \notin Background
      /\ k \in DOMAIN z /\ \A j \in 1..(k - 1) : z[j] \notin Background
  BY <1>3, <1>4 DEF OrdinaryReach
<1>6. i \in Nat /\ k \in Nat /\ i >= 1 /\ k >= 1 /\ i <= Len(w) /\ k <= Len(z)
  BY <1>2, <1>5
<1>7. /\ Len(Above[y]) = Len(w) - i + 1
      /\ \A j \in DOMAIN Above[y] : Above[y][j] = w[i + j - 1]
  BY <1>1, <1>3, <1>5, <1>6, WalkSuffix
<1>8. /\ Above[y] \in Seq(Node)
      /\ Above[y] = <<y>> \o z
  BY <1>1, WalksEnd DEF Node
<1>9. /\ Len(Above[y]) = Len(z) + 1
      /\ \A j \in DOMAIN z : Above[y][j + 1] = z[j]
  BY <1>2, <1>8
<1>10. \A j \in DOMAIN z : z[j] = w[i + j] /\ i + j \in DOMAIN w
  <2> TAKE j \in DOMAIN z
  <2>1. j \in 1..Len(z) /\ j + 1 \in DOMAIN Above[y]
    BY <1>2, <1>8, <1>9
  <2>2. z[j] = w[i + (j + 1) - 1]
    BY <1>7, <1>9, <2>1
  <2>3. j \in Nat /\ j >= 1 /\ j <= Len(z) /\ Len(w) \in Nat /\ Len(z) \in Nat
    BY <1>2, <2>1
  <2>4. Len(z) + 1 = Len(w) - i + 1
    BY <1>7, <1>9
  <2>5. i + (j + 1) - 1 = i + j /\ i + j >= 1 /\ i + j <= Len(w)
    BY <1>6, <2>3, <2>4
  <2> QED
    BY <1>2, <1>6, <2>2, <2>3, <2>5
<1>11. t = w[i + k] /\ i + k \in DOMAIN w
  BY <1>4, <1>5, <1>10
<1>12. ASSUME NEW j \in 1..(i + k - 1)
       PROVE  w[j] \notin Background
  <2>1. CASE j < i
    BY <1>5, <1>6, <2>1
  <2>2. CASE j = i
    BY <1>3, <2>2
  <2>3. CASE j > i
    <3>1. j - i \in 1..(k - 1) /\ j - i \in DOMAIN z /\ i + (j - i) = j
      BY <1>2, <1>6, <2>3
    <3> QED
      BY <1>5, <1>10, <3>1
  <2> QED
    BY <1>6, <2>1, <2>2, <2>3
<1>13. i + k \in OrdinaryReach(w)
  <2> HIDE DEF w
  <2> QED
    BY <1>6, <1>11, <1>12 DEF OrdinaryReach
<1> QED
  BY <1>1, <1>11, <1>13 DEF OrdinaryOwners, OrdinaryAbove
=============================================================================
