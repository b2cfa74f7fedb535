----------------------------- MODULE PlanProofs -----------------------------
(***************************************************************************)
(* The graph of all plans, and what becomes of its nodes, for any plans,   *)
(* actions, offers, candidates and number of revisions and decisions.      *)
(*                                                                         *)
(* The graph is acyclic: each plan is ordered when it is committed; a      *)
(* parent in another plan is pinned by its identity, hence was there       *)
(* before its child.  Numbering the updates makes that precise: along an   *)
(* edge numbers do not grow, nodes of different plans never share a        *)
(* number, so the oldest nodes of a cycle would form one inside a plan.    *)
(*                                                                         *)
(* Over it, a step of the runtime either leaves the plans alone and moves  *)
(* predictions and executions forward (Quiet), or replaces nodes and keeps *)
(* the others with all their edges (Moved), or clears everything.  That    *)
(* the recursive definitions have a value at all (the closure of what      *)
(* cannot run, the earliest decisions) is proved here from acyclicity.     *)
(***************************************************************************)
EXTENDS PlanRuntime, FiniteSetTheorems, TLAPS

Deps(n) == node[n].action.deps

\* Nodes were created by an accepted update of their plan.
Numbered ==
  \A n \in Live : /\ node[n].since \in 1..commits
                  /\ node[n].born \in 1..revision[n[1]]
SamePlan == \A m, n \in Live : node[m].since = node[n].since => m[1] = n[1]
\* Edges inside a plan lead to live nodes; the others pin an identity that was given out.
Closed ==
  \A n \in Live : \A d \in Deps(n) :
    IF d.plan = n[1] THEN d.born = Own /\ At(d) \in Live ELSE d.born \in 1..revision[d.plan]
PlanOrdered ==
  \A p \in Plans : \A S \in SUBSET {n \in Live : n[1] = p} : S # {} =>
    \E n \in S : \A d \in Deps(n) : d.plan = p => At(d) \notin S

GraphInv == GraphTypeOK /\ Numbered /\ SamePlan /\ Closed /\ PlanOrdered /\ ContextStands

-----------------------------------------------------------------------------
\* A nonempty set of natural numbers has a least element.
LEMMA LeastNat ==
  ASSUME NEW T, T \subseteq Nat, T # {}
  PROVE  \E x \in T : \A y \in T : x <= y
<1> DEFINE Family == {0..x : x \in T}
           Smaller == StrictSubsetOrdering(Nat)
<1>1. IsWellFoundedOn(Smaller, FiniteSubsetsOf(Nat))
  BY FS_StrictSubsetOrderingWellFounded
<1>2. \A x \in T : IsFiniteSet(0..x)
  BY FS_Interval
<1>3. Family \subseteq FiniteSubsetsOf(Nat) /\ Family # {}
  <2>1. \A x \in T : 0..x \subseteq Nat
    OBVIOUS
  <2>2. \A x \in T : 0..x \in FiniteSubsetsOf(Nat)
    BY <2>1, <1>2 DEF FiniteSubsetsOf
  <2> QED BY <2>2
<1>4. PICK F \in Family : \A G \in Family : ~ (<<G, F>> \in Smaller)
  <2> HIDE DEF Family, Smaller
  <2> QED BY <1>1, <1>3, WFMin
<1>5. PICK x \in T : F = 0..x
  BY <1>4
<1>6. ASSUME NEW y \in T, y < x PROVE FALSE
  <2>1. 0..y \subseteq 0..x /\ 0..y # 0..x /\ 0..y \subseteq Nat /\ 0..x \subseteq Nat
    BY <1>6
  <2>2. <<0..y, F>> \in Smaller
    BY <2>1, <1>5 DEF StrictSubsetOrdering
  <2> QED BY <2>2, <1>4
<1> QED BY <1>6

\* The oldest nodes of a set are of one plan, and the order of that plan applies to them.
LEMMA InvAcyclic == GraphInv => Acyclic
<1> SUFFICES ASSUME GraphInv, NEW S \in SUBSET Live, S # {}
             PROVE  \E n \in S : Parents(n) \cap S = {}
  BY DEF Acyclic
<1> DEFINE Ages == {node[n].since : n \in S}
<1>0. Live \subseteq Address
  BY DEF Live
<1>1. Ages \subseteq Nat /\ Ages # {}
  BY DEF GraphInv, Numbered
<1>2. PICK k \in Ages : \A y \in Ages : k <= y
  <2> HIDE DEF Ages
  <2> QED BY <1>1, LeastNat
<1> DEFINE T == {n \in S : node[n].since = k}
<1>3. PICK t \in T : TRUE
  BY <1>2
<1>4. t[1] \in Plans
  BY <1>0 DEF Address
<1>5. \A n \in T : n[1] = t[1]
  BY DEF GraphInv, SamePlan
<1>6. T \in SUBSET {n \in Live : n[1] = t[1]}
  BY <1>5
<1>7. PICK n \in T : \A d \in Deps(n) : d.plan = t[1] => At(d) \notin T
  BY <1>3, <1>4, <1>6 DEF GraphInv, PlanOrdered
<1>8. Parents(n) \cap S = {}
  <2> SUFFICES ASSUME NEW m \in Parents(n), m \in S PROVE FALSE
    OBVIOUS
  <2>1. node[m].since <= node[n].since
    BY DEF GraphInv, ContextStands
  <2>2. node[m].since \in Nat /\ k \in Nat /\ k <= node[m].since
    BY <1>1, <1>2
  <2>3. m \in T
    BY <2>1, <2>2
  <2>4. PICK d \in Deps(n) : m = At(d)
    BY DEF Parents, Deps
  <2>5. d.plan = m[1]
    BY <2>4 DEF At
  <2> QED BY <2>3, <2>4, <2>5, <1>5, <1>7
<1> QED BY <1>8
-----------------------------------------------------------------------------
(* An accepted update *)

\* What commit() is called with, by a proposal and by a delta.
Prepared(p, r, acts, touched) ==
  /\ DOMAIN acts \subseteq Actions /\ r \in 1..MaxRevision /\ r > revision[p]
  /\ \A a \in DOMAIN acts :
       /\ acts[a] \in Definition
       /\ \A d \in acts[a].deps : IF d.plan = p THEN d.born = Own ELSE d.born \in 1..revision[d.plan]
       /\ a \notin touched => Had(p, a) /\ acts[a] = node[<<p, a>>].action

\* The definitions of an update: a pin is an identity that was given out.
LEMMA DefinedIsSound ==
  ASSUME GraphInv, NEW p \in Plans, NEW B \in Batches(p), Pinnable(B), NEW a \in Touched(B)
  PROVE  /\ Defined(B, a) \in Definition
         /\ \A d \in Defined(B, a).deps : IF d.plan = p THEN d.born = Own ELSE d.born \in 1..revision[d.plan]
<1> DEFINE o == CHOOSE o \in B : o.action = a
<1>1. o \in B /\ o \in Offers /\ o.plan = p
  BY DEF Touched, Batches
<1>2. o \in [plan : Plans, action : Actions, input : Inputs, horizon : Nat, needs : SUBSET Needs]
  BY <1>1, GraphSetting
<1> HIDE DEF o
<1>3. ASSUME NEW d \in o.needs
      PROVE  /\ Pin(p, d) \in Dependency
             /\ IF d.plan = p THEN Pin(p, d).born = Own ELSE Pin(p, d).born \in 1..revision[d.plan]
             /\ Pin(p, d).plan = d.plan
  <2>1. d \in Needs
    BY <1>2
  <2>2. At(d) \in Address
    BY <2>1 DEF At, Needs, Address
  <2>3. CASE d.plan = p
    BY <2>1, <2>3 DEF Pin, Dependency, Needs, Own
  <2>4. CASE d.plan # p
    <3>1. At(d) \in Live
      BY <2>2, <2>4, <1>1 DEF Pinnable, Live
    <3>2. node[At(d)].born \in 1..revision[d.plan]
      BY <3>1 DEF GraphInv, Numbered, At
    <3>3. revision[d.plan] \in Nat
      BY <2>1 DEF GraphInv, GraphTypeOK, Needs
    <3> QED BY <2>1, <2>4, <3>2, <3>3 DEF Pin, Dependency, Needs
  <2> QED BY <2>3, <2>4
<1>4. Defined(B, a) = [input |-> o.input, horizon |-> o.horizon, deps |-> {Pin(p, d) : d \in o.needs}]
  BY <1>1 DEF Defined, o
<1>5. Defined(B, a) \in Definition
  BY <1>2, <1>3, <1>4 DEF Definition
<1>6. \A d \in Defined(B, a).deps : \E e \in o.needs : d = Pin(p, e)
  BY <1>4
<1> QED BY <1>3, <1>5, <1>6

\* The definition of a node that is already there.
LEMMA OldIsSound ==
  ASSUME GraphInv, NEW p \in Plans, NEW a \in Actions, Had(p, a)
  PROVE  /\ node[<<p, a>>].action \in Definition
         /\ \A d \in node[<<p, a>>].action.deps : IF d.plan = p THEN d.born = Own ELSE d.born \in 1..revision[d.plan]
<1>1. <<p, a>> \in Live /\ node[<<p, a>>] \in Node
  BY DEF Had, Live, Address, GraphInv, GraphTypeOK
<1> QED BY <1>1 DEF GraphInv, Closed, Deps, Node

\* A node of the plan that is not replaced keeps its dependencies, and so does every node it depends on.
LEMMA KeptStands ==
  ASSUME GraphInv, NEW p \in Plans, NEW r, NEW acts, NEW touched, NEW R,
         Prepared(p, r, acts, touched), Ordered(p, acts), IsReplaced(p, acts, touched, R),
         NEW a \in DOMAIN acts, Had(p, a), a \notin R
  PROVE  /\ acts[a].deps = Deps(<<p, a>>)
         /\ \A d \in acts[a].deps : d.plan = p =>
              /\ d.born = Own /\ d.action \in DOMAIN acts /\ Had(p, d.action) /\ d.action \notin R
<1>1. acts[a].deps = Deps(<<p, a>>)
  BY DEF IsReplaced, Prepared, Same, Deps
<1>2. <<p, a>> \in Live
  BY DEF Had, Live, Address, Prepared
<1>3. ASSUME NEW d \in acts[a].deps, d.plan = p
      PROVE  d.born = Own /\ d.action \in DOMAIN acts /\ Had(p, d.action) /\ d.action \notin R
  <2>1. d.action \in DOMAIN acts
    BY <1>3 DEF Ordered
  <2>2. At(d) \in Live /\ d.born = Own
    BY <1>1, <1>2, <1>3 DEF GraphInv, Closed
  <2>3. Had(p, d.action)
    BY <2>2, <1>3 DEF Had, Live, At
  <2>4. d.action \notin R
    BY <1>3 DEF IsReplaced
  <2> QED BY <2>1, <2>2, <2>3, <2>4
<1> QED BY <1>1, <1>3

LEMMA CommitKeepsInv ==
  ASSUME GraphInv, NEW p \in Plans, NEW r, NEW acts, NEW touched,
         Prepared(p, r, acts, touched), Commit(p, r, acts, touched)
  PROVE  GraphInv'
<1>1. PICK R \in SUBSET DOMAIN acts :
        IsReplaced(p, acts, touched, R) /\ Install(p, r, acts, {a \in DOMAIN acts : Had(p, a)} \ R)
  BY DEF Commit
<1>2. /\ Ordered(p, acts) /\ commits' = commits + 1 /\ commits \in Nat
      /\ revision' = [revision EXCEPT ![p] = r] /\ revision \in [Plans -> 0..MaxRevision]
      /\ node \in [Address -> Node \cup {None}]
  BY DEF Commit, GraphInv, GraphTypeOK
<1> DEFINE Kept(n) == n[1] = p /\ n[2] \in DOMAIN acts /\ node[n] # None /\ n[2] \notin R
           Fresh(n) == n[1] = p /\ n[2] \in DOMAIN acts /\ (node[n] = None \/ n[2] \in R)
           Other(n) == n[1] # p
\* How the update changes each node.
<1>3. \A n \in Address : Other(n) => node'[n] = node[n]
  BY <1>1 DEF Install
<1>4. \A n \in Address : n[1] = p /\ n[2] \notin DOMAIN acts => node'[n] = None
  BY <1>1 DEF Install
<1>5. ASSUME NEW n \in Address, Kept(n)
      PROVE  /\ node'[n].since = node[n].since /\ node'[n].born = node[n].born
             /\ node'[n].action = acts[n[2]] /\ node'[n] \in Node
             /\ Had(p, n[2]) /\ n = <<p, n[2]>> /\ n \in Live
  <2>1. n = <<p, n[2]>>
    BY <1>5 DEF Address
  <2>2. Had(p, n[2]) /\ n \in Live
    BY <1>5, <2>1 DEF Had, Live
  <2>3. n[2] \in {a \in DOMAIN acts : Had(p, a)} \ R
    BY <1>5, <2>2
  <2>4. node'[n] = [node[n] EXCEPT !.action = acts[n[2]]]
    BY <1>1, <1>5, <2>3 DEF Install
  <2>5. node[n] \in Node /\ acts[n[2]] \in Definition
    BY <1>2, <1>5 DEF Prepared
  <2> QED BY <2>1, <2>2, <2>4, <2>5 DEF Node
<1>6. ASSUME NEW n \in Address, Fresh(n)
      PROVE  /\ node'[n].since = commits + 1 /\ node'[n].born = r
             /\ node'[n].action = acts[n[2]] /\ node'[n] \in Node
  <2>1. n = <<p, n[2]>>
    BY <1>6 DEF Address
  <2>2. n[2] \notin {a \in DOMAIN acts : Had(p, a)} \ R
    BY <1>6, <2>1 DEF Had
  <2>3. node'[n] = [action |-> acts[n[2]], born |-> r, since |-> commits + 1]
    BY <1>1, <1>6, <2>2 DEF Install
  <2>4. acts[n[2]] \in Definition /\ r \in 1..MaxRevision
    BY <1>6 DEF Prepared
  <2>5. r \in Nat
    BY <2>4, GraphSetting
  <2> QED BY <2>3, <2>4, <2>5, <1>2 DEF Node
<1>7. \A n \in Live' : n \in Address /\ (Kept(n) \/ Fresh(n) \/ (Other(n) /\ n \in Live))
  BY <1>3, <1>4 DEF Live
<1>8. \A n \in Address : Kept(n) \/ Fresh(n) => n \in Live'
  BY <1>5, <1>6, NoneIsNoNode DEF Live
<1>9. \A q \in Plans : revision[q] \in Nat /\ revision'[q] \in Nat /\ revision[q] <= revision'[q]
  BY <1>2, GraphSetting DEF Prepared
<1>10. revision'[p] = r /\ r > revision[p] /\ \A q \in Plans : q # p => revision'[q] = revision[q]
  BY <1>2 DEF Prepared
<1>11. \A n \in Live : n \in Address /\ node[n] \in Node /\ node[n].since \in 1..commits /\ node[n].born \in 1..revision[n[1]]
  BY <1>2 DEF Live, GraphInv, Numbered
<1>12. \A n \in Address : n[1] \in Plans /\ n[2] \in Actions /\ n = <<n[1], n[2]>>
  BY DEF Address
\* Its parts of the invariant.
<1>13. GraphTypeOK'
  <2>1. revision' \in [Plans -> 0..MaxRevision]
    BY <1>2 DEF Prepared
  <2>2. \A n \in Address : node'[n] \in Node \cup {None}
    BY <1>2, <1>3, <1>4, <1>5, <1>6
  <2>3. node' \in [Address -> Node \cup {None}]
    BY <1>1, <2>2 DEF Install
  <2> QED BY <1>2, <2>1, <2>3 DEF GraphTypeOK
<1>14. Numbered'
  <2> SUFFICES ASSUME NEW n \in Live'
               PROVE  node'[n].since \in 1..commits' /\ node'[n].born \in 1..revision'[n[1]]
    BY DEF Numbered
  <2>1. CASE Kept(n)
    BY <2>1, <1>2, <1>5, <1>7, <1>9, <1>11, <1>12
  <2>2. CASE Fresh(n)
    BY <2>2, <1>2, <1>6, <1>7, <1>10 DEF Prepared
  <2>3. CASE Other(n) /\ n \in Live
    BY <2>3, <1>2, <1>3, <1>9, <1>11, <1>12
  <2> QED BY <2>1, <2>2, <2>3, <1>7
<1>15. SamePlan'
  <2> SUFFICES ASSUME NEW m \in Live', NEW n \in Live', node'[m].since = node'[n].since
               PROVE  m[1] = n[1]
    BY DEF SamePlan
  <2>1. \A k \in Live' : Fresh(k) => node'[k].since = commits + 1
    BY <1>6, <1>7
  <2>2. \A k \in Live : node[k].since # commits + 1
    BY <1>2, <1>11
  <2>3. \A k \in Live' : Fresh(k) \/ (k \in Live /\ node'[k].since = node[k].since)
    BY <1>3, <1>5, <1>7
  <2>4. CASE Fresh(m) /\ Fresh(n)
    BY <2>4
  <2>5. CASE m \in Live /\ n \in Live /\ node'[m].since = node[m].since /\ node'[n].since = node[n].since
    BY <2>5 DEF GraphInv, SamePlan
  <2>6. CASE Fresh(m) /\ n \in Live /\ node'[n].since = node[n].since
    BY <2>6, <2>1, <2>2
  <2>7. CASE Fresh(n) /\ m \in Live /\ node'[m].since = node[m].since
    BY <2>7, <2>1, <2>2
  <2> QED BY <2>3, <2>4, <2>5, <2>6, <2>7
\* The dependencies after the update.
<1>16. \A n \in Live' : (Kept(n) \/ Fresh(n)) => Deps(n)' = acts[n[2]].deps
  BY <1>5, <1>6, <1>7 DEF Deps
<1>17. \A n \in Live' : Other(n) => n \in Live /\ Deps(n)' = Deps(n)
  BY <1>3, <1>7 DEF Deps
<1>18. \A n \in Live' : \A d \in Deps(n)' : d.plan \in Plans /\ At(d) \in Address /\ At(d)[1] = d.plan /\ At(d)[2] = d.action
  <2> SUFFICES ASSUME NEW n \in Live', NEW d \in Deps(n)'
               PROVE  d.plan \in Plans /\ At(d) \in Address /\ At(d)[1] = d.plan /\ At(d)[2] = d.action
    OBVIOUS
  <2>1. node'[n] \in Node
    BY <1>13 DEF GraphTypeOK, Live
  <2>2. d \in Dependency
    BY <2>1 DEF Node, Definition, Deps
  <2> QED BY <2>2 DEF Dependency, At, Address
<1>19. Closed'
  <2> SUFFICES ASSUME NEW n \in Live', NEW d \in Deps(n)'
               PROVE  IF d.plan = n[1] THEN d.born = Own /\ At(d) \in Live' ELSE d.born \in 1..revision'[d.plan]
    BY DEF Closed, At
  <2>1. CASE n[1] = p /\ d.plan = p
    <3>1. n[2] \in DOMAIN acts /\ d \in acts[n[2]].deps
      BY <2>1, <1>7, <1>16
    <3>2. d.born = Own /\ d.action \in DOMAIN acts
      BY <2>1, <3>1, <1>2 DEF Prepared, Ordered
    <3>3. Kept(At(d)) \/ Fresh(At(d))
      BY <2>1, <3>2, <1>18
    <3> QED BY <2>1, <3>2, <3>3, <1>8, <1>18
  <2>2. CASE n[1] = p /\ d.plan # p
    <3>1. n[2] \in DOMAIN acts /\ d \in acts[n[2]].deps
      BY <2>2, <1>7, <1>16
    <3>2. d.born \in 1..revision[d.plan]
      BY <2>2, <3>1 DEF Prepared
    <3> QED BY <2>2, <3>2, <1>9, <1>18
  <2>3. CASE n[1] # p
    <3>1. n \in Live /\ d \in Deps(n)
      BY <2>3, <1>17
    <3>2. IF d.plan = n[1] THEN d.born = Own /\ At(d) \in Live ELSE d.born \in 1..revision[d.plan]
      BY <3>1 DEF GraphInv, Closed
    <3>3. d.plan # p /\ At(d) \in Live => At(d) \in Live'
      BY <1>3, <1>18 DEF Live
    <3> QED BY <2>3, <3>2, <3>3, <1>9, <1>18
  <2> QED BY <2>1, <2>2, <2>3
<1>20. PlanOrdered'
  <2> SUFFICES ASSUME NEW q \in Plans, NEW S \in SUBSET {n \in Live' : n[1] = q}, S # {}
               PROVE  \E n \in S : \A d \in Deps(n)' : d.plan = q => At(d) \notin S
    BY DEF PlanOrdered, At
  <2>1. CASE q = p
    <3> DEFINE U == {n[2] : n \in S}
    <3>1. U \in SUBSET DOMAIN acts /\ U # {}
      BY <2>1, <1>7
    <3>2. PICK a \in U : \A d \in acts[a].deps : d.plan = p => d.action \notin U
      BY <3>1, <1>2 DEF Ordered
    <3>3. PICK n \in S : n[2] = a
      OBVIOUS
    <3>4. n \in Live' /\ Deps(n)' = acts[a].deps
      BY <2>1, <3>3, <1>7, <1>16
    <3>5. ASSUME NEW d \in Deps(n)', d.plan = q, At(d) \in S PROVE FALSE
      BY <2>1, <3>2, <3>4, <3>5, <1>18
    <3> QED BY <3>5
  <2>2. CASE q # p
    <3>1. S \in SUBSET {n \in Live : n[1] = q}
      BY <2>2, <1>17
    <3>2. PICK n \in S : \A d \in Deps(n) : d.plan = q => At(d) \notin S
      BY <3>1 DEF GraphInv, PlanOrdered
    <3>3. Deps(n)' = Deps(n)
      BY <2>2, <1>17
    <3> QED BY <3>2, <3>3
  <2> QED BY <2>1, <2>2
<1>21. ContextStands'
  <2> SUFFICES ASSUME NEW n \in Live', NEW d \in Deps(n)', Resolves(d)'
               PROVE  node'[At(d)].since <= node'[n].since
    BY DEF ContextStands, Parents, Deps, At
  <2>1. At(d) \in Live' /\ d.born \in {Own, node'[At(d)].born}
    BY <1>18 DEF Resolves, Live, At, Own
  <2>2. \A k \in Live' : node'[k].since \in 1..(commits + 1)
    BY <1>2, <1>14 DEF Numbered
  <2>3. ASSUME n \in Live, d \in Deps(n), At(d) \in Live, d.born \in {Own, node[At(d)].born}
        PROVE  node[At(d)].since <= node[n].since
    BY <2>3 DEF GraphInv, ContextStands, Parents, Resolves, Deps, Live
  <2>4. CASE Fresh(n)
    BY <2>1, <2>2, <2>4, <1>2, <1>6, <1>7
  <2>5. CASE Kept(n)
    <3>1. /\ n \in Live /\ n = <<p, n[2]>> /\ node'[n].since = node[n].since /\ d \in acts[n[2]].deps
          /\ Had(p, n[2]) /\ n[2] \in DOMAIN acts /\ n[2] \notin R
      BY <2>5, <1>5, <1>7, <1>16
    <3>2. /\ acts[n[2]].deps = Deps(n)
          /\ d.plan = p => d.born = Own /\ d.action \in DOMAIN acts /\ Had(p, d.action) /\ d.action \notin R
      BY <3>1, <1>1, <1>2, KeptStands
    <3>3. CASE d.plan = p
      <4>1. Kept(At(d)) /\ d.born = Own
        BY <3>2, <3>3, <1>18 DEF Had, At
      <4> QED BY <4>1, <2>3, <3>1, <3>2, <1>5, <1>18
    <3>4. CASE d.plan # p
      <4>1. Other(At(d)) /\ node'[At(d)] = node[At(d)] /\ At(d) \in Live
        BY <3>4, <2>1, <1>3, <1>7, <1>18
      <4> QED BY <4>1, <2>1, <2>3, <3>1, <3>2
    <3> QED BY <3>3, <3>4
  <2>6. CASE Other(n)
    <3>1. n \in Live /\ d \in Deps(n) /\ node'[n] = node[n]
      BY <2>6, <1>3, <1>7, <1>17
    <3>2. CASE d.plan = p
      <4>1. d.born \in 1..revision[p]
        BY <2>6, <3>1, <3>2 DEF GraphInv, Closed
      <4>2. ~ Fresh(At(d))
        BY <4>1, <2>1, <1>6, <1>9, <1>10, <1>18 DEF Own
      <4>3. Kept(At(d))
        BY <4>2, <3>2, <2>1, <1>7, <1>18
      <4> QED BY <4>3, <2>1, <2>3, <3>1, <1>5, <1>18
    <3>3. CASE d.plan # p
      <4>1. node'[At(d)] = node[At(d)] /\ At(d) \in Live
        BY <3>3, <2>1, <1>3, <1>7, <1>18
      <4> QED BY <4>1, <2>1, <2>3, <3>1
    <3> QED BY <3>2, <3>3
  <2> QED BY <2>4, <2>5, <2>6, <1>7
<1> QED BY <1>13, <1>14, <1>15, <1>19, <1>20, <1>21 DEF GraphInv

-----------------------------------------------------------------------------
(* The steps of the specification *)

\* A proposal and a delta call commit() with what it expects.
LEMMA ProposeCommits ==
  ASSUME GraphInv, NEW p \in Plans, NEW r \in 1..MaxRevision, NEW B \in Batches(p), NEW retain,
         Propose(p, r, B, retain)
  PROVE  \E acts : Prepared(p, r, acts, Touched(B)) /\ Commit(p, r, acts, Touched(B))
<1>1. PICK K \in SUBSET Actions :
        /\ IF retain THEN IsRetained(p, B, K) ELSE K = {}
        /\ Commit(p, r, [a \in Touched(B) \cup K |-> IF a \in Touched(B) THEN Defined(B, a) ELSE node[<<p, a>>].action], Touched(B))
  BY DEF Propose
<1> DEFINE acts == [a \in Touched(B) \cup K |-> IF a \in Touched(B) THEN Defined(B, a) ELSE node[<<p, a>>].action]
<1>2. \A a \in K : Had(p, a)
  BY <1>1 DEF IsRetained
<1>3. Prepared(p, r, acts, Touched(B))
  <2>1. Touched(B) \subseteq Actions
    BY GraphSetting DEF Touched, Batches
  <2>2. r > revision[p] /\ Pinnable(B)
    BY DEF Propose
  <2>3. \A a \in Touched(B) : acts[a] = Defined(B, a)
    OBVIOUS
  <2>4. ASSUME NEW a \in DOMAIN acts, a \notin Touched(B)
        PROVE  /\ Had(p, a) /\ acts[a] = node[<<p, a>>].action
               /\ acts[a] \in Definition
               /\ \A d \in acts[a].deps : IF d.plan = p THEN d.born = Own ELSE d.born \in 1..revision[d.plan]
    <3>1. a \in K /\ Had(p, a) /\ acts[a] = node[<<p, a>>].action
      BY <2>4, <1>2
    <3> QED BY <3>1, OldIsSound
  <2> HIDE DEF acts
  <2>5. DOMAIN acts \subseteq Actions
    BY <2>1 DEF acts
  <2> QED BY <2>1, <2>2, <2>3, <2>4, <2>5, DefinedIsSound DEF Prepared
<1> HIDE DEF acts
<1> QED BY <1>1, <1>3 DEF acts

LEMMA AmendCommits ==
  ASSUME GraphInv, NEW p \in Plans, NEW r \in 1..MaxRevision, NEW B \in Batches(p), NEW remove \in SUBSET Actions,
         Amend(p, r, B, remove)
  PROVE  \E acts : Prepared(p, r, acts, Touched(B)) /\ Commit(p, r, acts, Touched(B))
<1> DEFINE acts == [a \in ({x \in Actions : Had(p, x)} \ remove) \cup Touched(B) |->
                      IF a \in Touched(B) THEN Defined(B, a) ELSE node[<<p, a>>].action]
<1>1. r > revision[p] /\ Pinnable(B) /\ Commit(p, r, acts, Touched(B))
  BY DEF Amend
<1>2. Prepared(p, r, acts, Touched(B))
  <2>1. Touched(B) \subseteq Actions
    BY GraphSetting DEF Touched, Batches
  <2>2. \A a \in Touched(B) : acts[a] = Defined(B, a)
    OBVIOUS
  <2>3. ASSUME NEW a \in DOMAIN acts, a \notin Touched(B)
        PROVE  /\ Had(p, a) /\ acts[a] = node[<<p, a>>].action
               /\ acts[a] \in Definition
               /\ \A d \in acts[a].deps : IF d.plan = p THEN d.born = Own ELSE d.born \in 1..revision[d.plan]
    <3>1. a \in Actions /\ Had(p, a) /\ acts[a] = node[<<p, a>>].action
      BY <2>3
    <3> QED BY <3>1, OldIsSound
  <2>4. DOMAIN acts \subseteq Actions
    BY <2>1
  <2> HIDE DEF acts
  <2> QED BY <1>1, <2>1, <2>2, <2>3, <2>4, DefinedIsSound DEF Prepared
<1> HIDE DEF acts
<1> QED BY <1>1, <1>2

\* A graph without a node satisfies the invariant.
LEMMA EmptyInv ==
  ASSUME revision = [p \in Plans |-> 0], node = [n \in Address |-> None], commits = 0
  PROVE  GraphInv
<1>1. Live = {}
  BY DEF Live
<1>2. GraphTypeOK
  BY GraphSetting DEF GraphTypeOK
<1> QED BY <1>1, <1>2 DEF GraphInv, Numbered, SamePlan, Closed, PlanOrdered, ContextStands

LEMMA ClearKeepsInv == ClearPlans => GraphInv'
<1> SUFFICES ASSUME ClearPlans PROVE GraphInv'
  OBVIOUS
<1>1. revision' = [p \in Plans |-> 0] /\ node' = [n \in Address |-> None] /\ commits' = 0
  BY DEF ClearPlans
<1>2. Live' = {}
  BY <1>1 DEF Live
<1>3. GraphTypeOK'
  BY <1>1, GraphSetting DEF GraphTypeOK
<1> QED BY <1>2, <1>3 DEF GraphInv, Numbered, SamePlan, Closed, PlanOrdered, ContextStands

LEMMA StepKeepsInv == GraphInv /\ [GraphNext]_graphVars => GraphInv'
<1> SUFFICES ASSUME GraphInv, [GraphNext]_graphVars PROVE GraphInv'
  OBVIOUS
<1>1. CASE \E p \in Plans : \E r \in 1..MaxRevision : \E B \in Batches(p) :
             \E retain \in BOOLEAN : Propose(p, r, B, retain)
  BY <1>1, ProposeCommits, CommitKeepsInv
<1>2. CASE \E p \in Plans : \E r \in 1..MaxRevision : \E B \in Batches(p) :
             \E remove \in SUBSET Actions : Amend(p, r, B, remove)
  BY <1>2, AmendCommits, CommitKeepsInv
<1>3. CASE ClearPlans
  BY <1>3, ClearKeepsInv
<1>4. CASE UNCHANGED graphVars
  BY <1>4 DEF graphVars, GraphInv, GraphTypeOK, Numbered, SamePlan, Closed, PlanOrdered,
     ContextStands, Live, Deps, Parents, Resolves
<1> QED BY <1>1, <1>2, <1>3, <1>4 DEF GraphNext

-----------------------------------------------------------------------------
(* What an update does to the nodes it leaves in place *)

\* An update of plan p to revision r: a node is new, or it keeps its input and its
\* dependencies, and those that lead to a node still lead to the one they led to.
Moved(p, r) ==
  /\ r \in 1..MaxRevision /\ r > revision[p]
  /\ revision' = [revision EXCEPT ![p] = r]
  /\ \A n \in Live' : IsKept(n) \/ (n[1] = p /\ node'[n].born = r)
  /\ \A n \in Address : n[1] # p => node'[n] = node[n]
  /\ \A n \in Live' : IsKept(n) =>
       /\ node'[n].action.input = node[n].action.input
       /\ node'[n].action.deps = node[n].action.deps
       /\ \A d \in node[n].action.deps : Resolves(d)' => Resolves(d) /\ IsKept(At(d))

LEMMA CommitMoves ==
  ASSUME GraphInv, NEW p \in Plans, NEW r, NEW acts, NEW touched,
         Prepared(p, r, acts, touched), Commit(p, r, acts, touched)
  PROVE  Moved(p, r)
<1>1. PICK R \in SUBSET DOMAIN acts :
        IsReplaced(p, acts, touched, R) /\ Install(p, r, acts, {a \in DOMAIN acts : Had(p, a)} \ R)
  BY DEF Commit
<1>2. /\ Ordered(p, acts) /\ revision' = [revision EXCEPT ![p] = r] /\ r \in 1..MaxRevision /\ r > revision[p]
      /\ revision \in [Plans -> 0..MaxRevision] /\ node \in [Address -> Node \cup {None}]
  BY DEF Commit, Prepared, GraphInv, GraphTypeOK
<1>3. \A n \in Address : n[1] \in Plans /\ n[2] \in Actions /\ n = <<n[1], n[2]>>
  BY DEF Address
<1>4. \A n \in Address : n[1] # p => node'[n] = node[n]
  BY <1>1 DEF Install
<1>5. \A n \in Live : node[n].born \in 1..revision[n[1]] /\ n \in Address /\ node[n] \in Node
  BY <1>2 DEF GraphInv, Numbered, Live
<1> DEFINE Stays(n) == n[1] = p /\ n[2] \in DOMAIN acts /\ node[n] # None /\ n[2] \notin R
\* A node of the plan that the update has kept.
<1>6. ASSUME NEW n \in Address, Stays(n)
      PROVE  /\ IsKept(n) /\ node'[n].action = acts[n[2]]
             /\ acts[n[2]].input = node[n].action.input /\ acts[n[2]].deps = node[n].action.deps
             /\ \A d \in node[n].action.deps : d.plan = p => d.born = Own /\ Stays(At(d))
  <2>1. n = <<p, n[2]>> /\ Had(p, n[2])
    BY <1>3, <1>6 DEF Had
  <2>2. node'[n] = [node[n] EXCEPT !.action = acts[n[2]]]
    BY <1>1, <1>6, <2>1 DEF Install
  <2>3. node[n] \in Node /\ acts[n[2]] \in Definition
    BY <1>2, <1>6 DEF Prepared
  <2>4. node'[n].action = acts[n[2]] /\ node'[n].born = node[n].born /\ node'[n] \in Node
    BY <2>2, <2>3 DEF Node
  <2>5. IsKept(n)
    BY <1>6, <2>4, NoneIsNoNode DEF IsKept
  <2>6. acts[n[2]].input = node[n].action.input
    <3>1. CASE n[2] \in touched
      BY <1>1, <1>6, <2>1, <3>1 DEF IsReplaced, Same
    <3>2. CASE n[2] \notin touched
      BY <1>6, <2>1, <3>2 DEF Prepared
    <3>3. QED
      BY <3>1, <3>2
  <2>7. /\ acts[n[2]].deps = Deps(n)
        /\ \A d \in acts[n[2]].deps : d.plan = p =>
             d.born = Own /\ d.action \in DOMAIN acts /\ Had(p, d.action) /\ d.action \notin R
    BY <1>1, <1>2, <1>6, <2>1, KeptStands
  <2>8. QED
    BY <2>4, <2>5, <2>6, <2>7 DEF Deps, Had, At
\* Any other node of the plan is new.
<1>7. ASSUME NEW n \in Live', n[1] = p, ~ Stays(n)
      PROVE  node'[n].born = r /\ ~ IsKept(n)
  <2>1. n \in Address
    BY DEF Live
  <2>2. n[2] \in DOMAIN acts
    BY <1>1, <1>7, <2>1 DEF Install, Live
  <2>3. n[2] \notin {a \in DOMAIN acts : Had(p, a)} \ R
    BY <1>3, <1>7, <2>1, <2>2 DEF Had
  <2>4. node'[n].born = r
    BY <1>1, <1>7, <2>1, <2>2, <2>3 DEF Install
  <2>5. ~ IsKept(n)
    <3>1. SUFFICES ASSUME node[n] # None PROVE node[n].born # r
      BY <2>4 DEF IsKept
    <3>2. n \in Live
      BY <2>1, <3>1 DEF Live
    <3>3. revision[p] \in Nat
      BY <1>2
    <3>4. QED
      BY <1>2, <1>5, <1>7, <3>2, <3>3
  <2>6. QED
    BY <2>4, <2>5
<1>8. \A n \in Live' : n[1] # p => IsKept(n)
  BY <1>4 DEF Live, IsKept
<1>9. \A n \in Live' : IsKept(n) \/ (n[1] = p /\ node'[n].born = r)
  BY <1>6, <1>7, <1>8 DEF Live
<1>10. ASSUME NEW n \in Live', IsKept(n)
       PROVE  /\ node'[n].action.input = node[n].action.input
              /\ node'[n].action.deps = node[n].action.deps
              /\ \A d \in node[n].action.deps : Resolves(d)' => Resolves(d) /\ IsKept(At(d))
  <2>1. n \in Address /\ n \in Live
    BY <1>10 DEF Live, IsKept
  <2>2. /\ node'[n].action.input = node[n].action.input /\ node'[n].action.deps = node[n].action.deps
        /\ n[1] = p => Stays(n)
    BY <1>4, <1>6, <1>7, <1>10, <2>1
  <2>3. ASSUME NEW d \in node[n].action.deps, Resolves(d)'
        PROVE  Resolves(d) /\ IsKept(At(d))
    <3>1. At(d) \in Address /\ d.plan \in Plans /\ At(d)[1] = d.plan
      <4>1. d \in Dependency
        BY <1>5, <2>1 DEF Node, Definition
      <4>2. QED
        BY <4>1 DEF Dependency, At, Address
    <3>2. At(d) \in Live' /\ d.born \in {Own, node'[At(d)].born}
      BY <2>3, <3>1 DEF Resolves, Live, At, Own
    <3>3. IsKept(At(d))
      <4>1. SUFFICES ASSUME ~ IsKept(At(d)) PROVE FALSE
        OBVIOUS
      <4>2. d.plan = p /\ node'[At(d)].born = r /\ ~ Stays(At(d))
        BY <1>6, <1>9, <3>1, <3>2, <4>1
      <4>3. n[1] # p
        BY <1>6, <2>1, <2>2, <4>2
      <4>4. d.born \in 1..revision[p]
        BY <2>1, <4>2, <4>3 DEF GraphInv, Closed, Deps
      <4>5. revision[p] \in Nat /\ r > revision[p]
        BY <1>2
      <4>6. QED
        BY <3>2, <4>2, <4>4, <4>5 DEF Own
    <3>4. Resolves(d)
      BY <3>2, <3>3 DEF IsKept, Resolves
    <3>5. QED
      BY <3>3, <3>4
  <2>4. QED
    BY <2>2, <2>3
<1>11. QED
  BY <1>2, <1>4, <1>9, <1>10 DEF Moved

LEMMA UpdateMoves ==
  ASSUME GraphInv, Update
  PROVE  /\ GraphInv' /\ ~cleared
         /\ \E p \in Plans : \E r : \E touched : Moved(p, r) /\ Materialize(touched)
<1>0. PICK p \in Plans : \E r \in 1..MaxRevision : \E B \in Batches(p) :
        /\ \/ \E retain \in BOOLEAN : Propose(p, r, B, retain)
           \/ \E remove \in SUBSET Actions : Amend(p, r, B, remove)
        /\ Materialize({p} \X Touched(B))
  BY DEF Update
<1>1. PICK r \in 1..MaxRevision, B \in Batches(p) :
        /\ \/ \E retain \in BOOLEAN : Propose(p, r, B, retain)
           \/ \E remove \in SUBSET Actions : Amend(p, r, B, remove)
        /\ Materialize({p} \X Touched(B))
  BY <1>0
<1>2. PICK acts : Prepared(p, r, acts, Touched(B)) /\ Commit(p, r, acts, Touched(B))
  BY <1>1, ProposeCommits, AmendCommits
<1>3. GraphInv' /\ Moved(p, r)
  BY <1>2, CommitKeepsInv, CommitMoves
<1>4. QED
  BY <1>1, <1>3 DEF Update

-----------------------------------------------------------------------------
(* Which nodes cannot run any more *)

\* failUnlaunchable's closure exists, whatever the dependencies: the least set that
\* holds the blocked nodes and the dependents of its own.
LEMMA ImpossibleExists ==
  ASSUME NEW s
  PROVE  /\ Impossible(s) \subseteq Live
         /\ Impossible(s) = {n \in Live : \E d \in node[n].action.deps : Blocks(s, d) \/ At(d) \in Impossible(s)}
<1> DEFINE F(X) == {n \in Live : \E d \in node[n].action.deps : Blocks(s, d) \/ At(d) \in X}
           Pre == {X \in SUBSET Live : F(X) \subseteq X}
           Least == {n \in Live : \A X \in Pre : n \in X}
<1>1. ASSUME NEW X, NEW Y, X \subseteq Y PROVE F(X) \subseteq F(Y)
  BY <1>1
<1>2. \A X \in Pre : Least \subseteq X
  OBVIOUS
<1>3. F(Least) \subseteq Live /\ Least \in SUBSET Live
  OBVIOUS
<1> HIDE DEF Least
<1>4. F(Least) \subseteq Least
  <2>1. \A X \in Pre : F(Least) \subseteq F(X) /\ F(X) \subseteq X
    <3>1. SUFFICES ASSUME NEW X \in Pre PROVE F(Least) \subseteq F(X)
      OBVIOUS
    <3>2. Least \subseteq X
      BY <1>2
    <3>3. QED
      BY <1>1, <3>2
  <2>2. \A X \in Pre : F(Least) \subseteq X
    BY <2>1
  <2> HIDE DEF F, Pre
  <2>3. QED
    BY <1>3, <2>2 DEF Least
<1>5. Least \subseteq F(Least)
  <2>1. F(Least) \in SUBSET Live
    BY <1>3
  <2>2. F(F(Least)) \subseteq F(Least)
    BY <1>1, <1>4
  <2>3. F(Least) \in Pre
    BY <2>1, <2>2
  <2>4. QED
    BY <1>2, <2>3
<1>6. Least = F(Least)
  BY <1>4, <1>5
<1>7. Impossible(s) = CHOOSE X \in SUBSET Live : X = F(X)
  BY DEF Impossible
<1>8. \E X \in SUBSET Live : X = F(X)
  BY <1>3, <1>6
<1> DEFINE Q(X) == X \in SUBSET Live /\ X = F(X)
<1>9. \E X : Q(X)
  BY <1>8
<1>10. Impossible(s) = CHOOSE X : Q(X)
  BY <1>7
<1> HIDE DEF Q, F
<1>11. Q(Impossible(s))
  BY <1>9, <1>10
<1>12. QED
  BY <1>11 DEF Q, F

\* A node with a blocking dependency is among them.
LEMMA BlockedIsImpossible ==
  ASSUME NEW s, NEW n \in Live, NEW d \in node[n].action.deps, Blocks(s, d)
  PROVE  n \in Impossible(s)
  BY ImpossibleExists

-----------------------------------------------------------------------------
(* The runtime's invariant, and the steps that leave the plans alone *)

\* A live node's prediction was opened, and no revision's before it was given out.
Opened == \A n \in Live : opp[Id(n)].is # "none"
Issued == ~cleared => \A i \in Identities : opp[i].is # "none" => i[2] <= revision[i[1][1]]

RuntimeInv == GraphInv /\ RuntimeSafe /\ Opened /\ Issued

\* How such a step may move a prediction: it settles it, or claims it for a call that
\* comes after everything it presupposes.
OppMoves ==
  \A i \in Identities :
    \/ opp'[i] = opp[i]
    \/ opp[i].is = "pending" /\ opp'[i].is \in {"missed", "unobserved"}
    \/ opp[i].is = "matching" /\ opp'[i].is \in Matched /\ opp'[i].at = opp[i].at
    \/ /\ opp[i].is = "pending" /\ opp'[i].is = "matching"
       /\ LiveId(i) => \A m \in Presupposed(i[1]) : opp[Id(m)].is \in Matched /\ opp[Id(m)].at < opp'[i].at

\* How it may move an execution: it ends it, takes it one stage further, or schedules it
\* with a launch of its own once the adoptions it needs have happened.
ExecMoves ==
  \A n \in Live :
    \/ exec'[n] = exec[n]
       /\ (exec[n].st = "scheduled" /\ opp[Id(n)].is \in Unsettled /\ launching[Id(n)] > 0 => launching'[Id(n)] > 0)
    \/ exec'[n].st \notin Held \cup {"scheduled"}
    \/ /\ exec[n].st \in Held \cup {"scheduled"} /\ exec'[n].st \in Held
       /\ Computes[exec'[n].by] = node[n].action.input
    \/ /\ exec'[n].st = "scheduled" /\ launching'[Id(n)] > 0
       /\ \A d \in node[n].action.deps : d.when = "adopted" /\ Resolves(d) => opp'[Id(At(d))].is = "adopted"

LEMMA Names ==
  ASSUME GraphInv
  PROVE  /\ \A n \in Live : /\ n \in Address /\ Id(n) \in Identities /\ LiveId(Id(n))
                            /\ Id(n)[1] = n /\ Id(n)[2] = node[n].born
         /\ \A i \in Identities : /\ i[1] \in Address /\ i[2] \in 1..MaxRevision /\ i = <<i[1], i[2]>>
                                  /\ LiveId(i) => i[1] \in Live /\ Id(i[1]) = i
<1>1. ASSUME NEW n \in Live
      PROVE  n \in Address /\ Id(n) \in Identities /\ LiveId(Id(n)) /\ Id(n)[1] = n /\ Id(n)[2] = node[n].born
  <2>1. n \in Address /\ node[n] # None /\ n[1] \in Plans
    BY DEF Live, Address
  <2>2. node[n].born \in 1..revision[n[1]] /\ revision[n[1]] \in 0..MaxRevision
    BY <2>1 DEF GraphInv, Numbered, GraphTypeOK
  <2>3. node[n].born \in 1..MaxRevision
    BY <2>2, GraphSetting
  <2>4. QED
    BY <2>1, <2>3 DEF Id, Identities, LiveId
<1>2. \A i \in Identities : i[1] \in Address /\ i[2] \in 1..MaxRevision /\ i = <<i[1], i[2]>>
  BY DEF Identities
<1>3. \A i \in Identities : LiveId(i) => i[1] \in Live /\ Id(i[1]) = i
  BY <1>2 DEF LiveId, Live
<1>4. QED
  BY <1>1, <1>2, <1>3

LEMMA Edges ==
  ASSUME GraphInv, NEW n \in Live, NEW d \in node[n].action.deps
  PROVE  /\ At(d) \in Address /\ d.when \in Conditions
         /\ Resolves(d) => At(d) \in Live /\ At(d) \in Parents(n)
<1>1. n \in Address /\ node[n] \in Node
  BY DEF GraphInv, GraphTypeOK, Live
<1>2. d \in Dependency
  BY <1>1 DEF Node, Definition
<1>3. At(d) \in Address /\ d.when \in Conditions
  BY <1>2 DEF Dependency, At, Address
<1>4. QED
  BY <1>3 DEF Resolves, Live, Parents

LEMMA PresupposedAreParents ==
  ASSUME GraphInv, NEW n \in Live
  PROVE  Presupposed(n) \subseteq Parents(n) /\ Parents(n) \subseteq Live
  BY Edges DEF Presupposed, Parents

LEMMA GraphStays ==
  ASSUME GraphInv, UNCHANGED <<revision, node, commits>>
  PROVE  /\ GraphInv' /\ Live' = Live
         /\ \A n : Id(n)' = Id(n) /\ Parents(n)' = Parents(n) /\ Presupposed(n)' = Presupposed(n)
         /\ \A i : LiveId(i)' = LiveId(i)
         /\ \A d : Resolves(d)' = Resolves(d) /\ At(d)' = At(d)
<1>1. GraphInv'
  BY StepKeepsInv DEF graphVars
<1>2. QED
  BY <1>1 DEF Live, Id, LiveId, Resolves, At, Parents, Presupposed

LEMMA QuietKeepsInv ==
  ASSUME RuntimeInv, TypeOK', UNCHANGED <<revision, node, commits, cleared>>, OppMoves, ExecMoves
  PROVE  RuntimeInv'
<1>1. /\ GraphInv /\ TypeOK /\ NoOrphan /\ ClaimsFollow /\ LaunchesFollow /\ ScheduledIsLaunching /\ ExecutionFits
      /\ Opened /\ Issued
  BY DEF RuntimeInv, RuntimeSafe
<1>2. /\ GraphInv' /\ Live' = Live
      /\ \A n : Id(n)' = Id(n) /\ Parents(n)' = Parents(n) /\ Presupposed(n)' = Presupposed(n)
      /\ \A i : LiveId(i)' = LiveId(i)
      /\ \A d : Resolves(d)' = Resolves(d) /\ At(d)' = At(d)
  BY <1>1, GraphStays
<1>3. \A n \in Live : Id(n) \in Identities /\ Id(n)[1] = n /\ LiveId(Id(n))
  BY <1>1, Names
<1>4. NoOrphan'
  BY <1>1, <1>2 DEF NoOrphan, OppMoves, Matched
<1>5. Opened'
  <2>1. \A n \in Live : opp'[Id(n)].is # "none"
    BY <1>1, <1>3 DEF Opened, OppMoves, Matched
  <2>2. QED
    BY <1>2, <2>1 DEF Opened, Id
<1>6. Issued'
  BY <1>1 DEF Issued, OppMoves
<1>7. ClaimsFollow'
  <2>1. SUFFICES ASSUME NEW n \in Live, opp'[Id(n)].is \in Matched \cup {"matching"}, NEW m \in Presupposed(n)
                 PROVE  opp'[Id(m)].is \in Matched /\ opp'[Id(m)].at < opp'[Id(n)].at
    BY <1>2 DEF ClaimsFollow, Id
  <2>2. m \in Live
    BY <1>1, PresupposedAreParents
  <2>3. opp[Id(m)].is \in Matched /\ opp[Id(m)].at < opp'[Id(n)].at
    <3>1. CASE opp[Id(n)].is \in Matched \cup {"matching"}
      <4>1. opp[Id(m)].is \in Matched /\ opp[Id(m)].at < opp[Id(n)].at
        BY <1>1, <3>1 DEF ClaimsFollow
      <4>2. opp'[Id(n)].at = opp[Id(n)].at
        BY <1>3, <3>1 DEF OppMoves, Matched
      <4>3. QED
        BY <4>1, <4>2
    <3>2. CASE opp[Id(n)].is \notin Matched \cup {"matching"}
      BY <1>3, <2>1, <3>2 DEF OppMoves, Matched
    <3>3. QED
      BY <3>1, <3>2
  <2>4. opp'[Id(m)] = opp[Id(m)]
    BY <1>3, <2>2, <2>3 DEF OppMoves, Matched
  <2>5. QED
    BY <2>3, <2>4
<1>8. LaunchesFollow'
  <2>1. SUFFICES ASSUME NEW n \in Live, exec'[n].st \in Held \cup {"scheduled"},
                        NEW d \in node[n].action.deps, d.when = "adopted", Resolves(d)
                 PROVE  opp'[Id(At(d))].is = "adopted"
    BY <1>2 DEF LaunchesFollow, Id, At
  <2>2. CASE exec[n].st \in Held \cup {"scheduled"}
    <3>1. opp[Id(At(d))].is = "adopted"
      BY <1>1, <2>1, <2>2 DEF LaunchesFollow
    <3>2. Id(At(d)) \in Identities
      BY <1>1, <1>3, <2>1, Edges
    <3>3. QED
      BY <3>1, <3>2 DEF OppMoves
  <2>3. CASE exec[n].st \notin Held \cup {"scheduled"}
    BY <2>1, <2>3 DEF ExecMoves
  <2>4. QED
    BY <2>2, <2>3
<1>9. ScheduledIsLaunching'
  <2>1. SUFFICES ASSUME NEW n \in Live, exec'[n].st = "scheduled", opp'[Id(n)].is \in Unsettled
                 PROVE  launching'[Id(n)] > 0
    BY <1>2 DEF ScheduledIsLaunching, Outcome, Now, Id
  <2>2. opp[Id(n)].is \in Unsettled
    BY <1>3, <2>1 DEF OppMoves, Unsettled, Matched
  <2>3. CASE exec'[n] = exec[n] /\ (exec[n].st = "scheduled" /\ opp[Id(n)].is \in Unsettled /\ launching[Id(n)] > 0 => launching'[Id(n)] > 0)
    BY <1>1, <2>1, <2>2, <2>3 DEF ScheduledIsLaunching, Outcome, Now
  <2>4. QED
    BY <2>1, <2>3 DEF ExecMoves, Held
<1>10. ExecutionFits'
  <2>1. SUFFICES ASSUME NEW n \in Live, exec'[n].st \in Held
                 PROVE  Computes[exec'[n].by] = node[n].action.input
    BY <1>2 DEF ExecutionFits
  <2>2. QED
    BY <1>1, <2>1 DEF ExecMoves, ExecutionFits, Held
<1>11. QED
  BY <1>2, <1>4, <1>5, <1>6, <1>7, <1>8, <1>9, <1>10 DEF RuntimeInv, RuntimeSafe

-----------------------------------------------------------------------------
(* dispatchReady *)

Predictions == [is : Outcomes, at : 0..(MaxDecision + 1)]
Executions == [st : ExecStates, by : Candidates \cup {NoCandidate}]
State(o, e, v, c) == [opp |-> o, exec |-> e, seen |-> v, cand |-> c]

LEMMA UnobservedIs ==
  ASSUME NEW o \in Predictions
  PROVE  Unobserved(o) \in Predictions /\ (Unobserved(o) = o \/ (o.is = "pending" /\ Unobserved(o).is = "unobserved"))
<1>1. [is |-> "unobserved", at |-> 0] \in Predictions
  BY RuntimeSetting DEF Predictions, Outcomes
<1>2. QED
  BY <1>1 DEF Unobserved

LEMMA BareIs ==
  ASSUME NEW st \in ExecStates
  PROVE  Bare(st) \in Executions /\ Bare(st).st = st
  BY DEF Bare, Executions

\* failUnlaunchable settles what is open and ends what has not run.
LEMMA Abandons ==
  ASSUME NEW o \in [Identities -> Predictions], NEW e \in [Address -> Executions], NEW v, NEW c, NEW N
  PROVE  \E o2 \in [Identities -> Predictions], e2 \in [Address -> Executions] :
           /\ Abandoned(State(o, e, v, c), N) = State(o2, e2, v, c)
           /\ \A i \in Identities : o2[i] = o[i] \/ (o[i].is = "pending" /\ o2[i].is = "unobserved")
           /\ \A n \in Address : e2[n] = e[n] \/ e2[n].st = "failed"
<1> DEFINE o2 == [i \in Identities |-> IF \E n \in N : Id(n) = i THEN Unobserved(o[i]) ELSE o[i]]
           e2 == [n \in Address |-> IF n \in N /\ e[n].st \in Unstarted \cup {"scheduled"} THEN Bare("failed") ELSE e[n]]
<1>1. Abandoned(State(o, e, v, c), N) = State(o2, e2, v, c)
  <2>1. State(o, e, v, c).opp = o /\ State(o, e, v, c).exec = e
    BY DEF State
  <2>2. Abandoned(State(o, e, v, c), N) = [State(o, e, v, c) EXCEPT !.opp = o2, !.exec = e2]
    BY <2>1, Zenon DEF Abandoned
  <2> HIDE DEF o2, e2
  <2>3. QED
    BY <2>2 DEF State
<1>2. o2 \in [Identities -> Predictions]
      /\ \A i \in Identities : o2[i] = o[i] \/ (o[i].is = "pending" /\ o2[i].is = "unobserved")
  BY UnobservedIs
<1>3. "failed" \in ExecStates
  BY DEF ExecStates
<1>4. Bare("failed") \in Executions /\ Bare("failed").st = "failed"
  BY <1>3, BareIs
<1>5. /\ e2 \in [Address -> Executions]
      /\ \A n \in Address : e2[n] = e[n] \/ e2[n].st = "failed"
  BY <1>4
<1> HIDE DEF o2, e2
<1>6. QED
  BY <1>1, <1>2, <1>5

\* What dispatchReady does in a state that differs from the present one by what a caller
\* has settled or ended: it settles the impossible, and launches what has all its adoptions.
LEMMA Dispatches ==
  ASSUME RuntimeInv, NEW o \in [Identities -> Predictions], NEW e \in [Address -> Executions], NEW v, NEW c,
         DispatchReady(State(o, e, v, c)),
         \A i \in Identities : o[i] = opp[i] \/ (opp[i].is = "pending" /\ o[i].is \in {"missed", "unobserved"}),
         \A n \in Live : e[n] = exec[n] \/ e[n].st \notin Held \cup {"scheduled"}
  PROVE  /\ opp' \in [Identities -> Predictions] /\ exec' \in [Address -> Executions]
         /\ launching' \in [Identities -> Nat]
         /\ OppMoves /\ ExecMoves
<1>1. GraphInv /\ TypeOK /\ Opened
  BY DEF RuntimeInv, RuntimeSafe
<1>2. launching \in [Identities -> Nat]
  BY <1>1 DEF TypeOK
<1> DEFINE s == State(o, e, v, c)
           N == {n \in Impossible(s) : Outcome(s, n) \in Unsettled}
<1>3. PICK o2 \in [Identities -> Predictions], e2 \in [Address -> Executions] :
        /\ Abandoned(s, N) = State(o2, e2, v, c)
        /\ \A i \in Identities : o2[i] = o[i] \/ (o[i].is = "pending" /\ o2[i].is = "unobserved")
        /\ \A n \in Address : e2[n] = e[n] \/ e2[n].st = "failed"
    <2> HIDE DEF N
  <2>1. QED
    BY Abandons
<1> DEFINE t == State(o2, e2, v, c)
           go == Launchable(t)
<1>4. /\ opp' = t.opp
      /\ exec' = [n \in Address |-> IF n \in go THEN Bare("scheduled") ELSE t.exec[n]]
      /\ launching' = [i \in Identities |-> launching[i] + IF \E n \in go : Id(n) = i THEN 1 ELSE 0]
  BY <1>3 DEF DispatchReady
<1>5. t.opp = o2 /\ t.exec = e2
  BY DEF State
<1>6. "scheduled" \in ExecStates
  BY DEF ExecStates
<1>7. Bare("scheduled") \in Executions /\ Bare("scheduled").st = "scheduled"
  BY <1>6, BareIs
<1>8. opp' = o2 /\ exec' \in [Address -> Executions]
  BY <1>4, <1>5, <1>7
<1>9. /\ launching' \in [Identities -> Nat]
      /\ \A i \in Identities : launching'[i] >= launching[i]
      /\ \A n \in go : Id(n) \in Identities => launching'[Id(n)] > 0
  <2> HIDE DEF go
  <2>1. QED
    BY <1>2, <1>4
<1>10. OppMoves
  BY <1>3, <1>8 DEF OppMoves
\* What is launched follows the adoptions it needs.
<1>11. ASSUME NEW n \in go, NEW d \in node[n].action.deps, d.when = "adopted", Resolves(d)
       PROVE  opp'[Id(At(d))].is = "adopted"
  <2>1. n \in Live /\ n \notin Impossible(t) /\ ~Waits(t, d)
    BY <1>11 DEF Launchable, Ready
  <2>2. ~Blocks(t, d)
    <3> HIDE DEF t
    <3>1. QED
      BY <2>1, <1>11, BlockedIsImpossible
  <2>3. Outcome(t, At(d)) \notin {"rejected", "missed", "unobserved"} /\ Outcome(t, At(d)) \notin Unsettled
    BY <2>1, <2>2, <1>11 DEF Blocks, Waits
  <2>4. Outcome(t, At(d)) = opp'[Id(At(d))].is
    BY <1>5, <1>8 DEF Outcome
  <2>5. At(d) \in Live
    BY <1>1, <1>11, <2>1, Edges
  <2>6. Id(At(d)) \in Identities /\ opp[Id(At(d))].is # "none"
    BY <1>1, <2>5, Names DEF Opened
  <2>7. opp'[Id(At(d))].is # "none" /\ opp'[Id(At(d))].is \in Outcomes
    BY <1>3, <1>8, <2>6 DEF Predictions
  <2>8. QED
    BY <2>3, <2>4, <2>7 DEF Outcomes, Unsettled, Matched
<1>12. ExecMoves
  <2>1. SUFFICES ASSUME NEW n \in Live
                 PROVE  \/ exec'[n] = exec[n] /\ launching'[Id(n)] >= launching[Id(n)]
                        \/ exec'[n].st \notin Held \cup {"scheduled"}
                        \/ /\ exec'[n].st = "scheduled" /\ launching'[Id(n)] > 0
                           /\ \A d \in node[n].action.deps : d.when = "adopted" /\ Resolves(d) => opp'[Id(At(d))].is = "adopted"
    <3>1. \A n \in Live : Id(n) \in Identities
      BY <1>1, Names
    <3>2. \A n \in Live : launching[Id(n)] \in Nat /\ launching'[Id(n)] \in Nat
      BY <1>2, <1>9, <3>1
    <3>3. QED
      BY <2>1, <3>2 DEF ExecMoves
  <2>2. n \in Address /\ Id(n) \in Identities
    BY <1>1, Names
  <2>3. CASE n \in go
    <3> HIDE DEF go
    <3>1. exec'[n] = Bare("scheduled")
      BY <1>4, <2>2, <2>3
    <3>2. QED
      BY <1>7, <1>9, <1>11, <2>2, <2>3, <3>1
  <2>4. CASE n \notin go
    <3> HIDE DEF go
    <3>1. exec'[n] = e2[n]
      BY <1>4, <1>5, <2>2, <2>4
    <3>2. exec'[n] = exec[n] \/ exec'[n].st \notin Held \cup {"scheduled"}
      BY <1>3, <2>2, <3>1 DEF Held
    <3>3. QED
      BY <1>9, <2>2, <3>2
  <2>5. QED
    BY <2>3, <2>4
<1>13. QED
  BY <1>8, <1>9, <1>10, <1>12

-----------------------------------------------------------------------------
(* The steps that leave the plans alone, one by one *)

Quiet == TypeOK' /\ UNCHANGED <<revision, node, commits, cleared>> /\ OppMoves /\ ExecMoves

\* A step that moves neither predictions nor launches, and no execution but one.
LEMMA OneExecution ==
  ASSUME RuntimeInv, UNCHANGED <<revision, node, commits, cleared, opp, launching>>, TypeOK',
         NEW n \in Address, NEW x, exec' = [exec EXCEPT ![n] = x],
         \/ x.st \notin Held \cup {"scheduled"}
         \/ x = exec[n]
         \/ n \in Live /\ exec[n].st \in Held /\ x.st \in Held /\ x.by = exec[n].by
  PROVE  Quiet
<1>1. TypeOK /\ ExecutionFits
  BY DEF RuntimeInv, RuntimeSafe
<1>2. exec'[n] = x /\ \A m \in Address : m # n => exec'[m] = exec[m]
  BY <1>1 DEF TypeOK
<1>3. OppMoves
  BY DEF OppMoves
<1>4. \A m \in Live : m \in Address
  BY DEF Live
<1>5. ExecMoves
  <2>1. SUFFICES ASSUME NEW m \in Live
                 PROVE  \/ exec'[m] = exec[m]
                        \/ exec'[m].st \notin Held \cup {"scheduled"}
                        \/ exec[m].st \in Held /\ exec'[m].st \in Held /\ Computes[exec'[m].by] = node[m].action.input
    BY DEF ExecMoves
  <2>2. CASE m = n
    BY <1>1, <1>2, <2>2 DEF ExecutionFits
  <2>3. CASE m # n
    BY <1>2, <1>4, <2>3
  <2>4. QED
    BY <2>2, <2>3
<1>6. QED
  BY <1>3, <1>5 DEF Quiet

\* A step that ends in dispatchReady.
LEMMA DispatchIsQuiet ==
  ASSUME RuntimeInv, UNCHANGED <<revision, node, commits, cleared, anchor>>,
         NEW o \in [Identities -> Predictions], NEW e \in [Address -> Executions], NEW v, NEW c,
         DispatchReady(State(o, e, v, c)),
         \A i \in Identities : o[i] = opp[i] \/ (opp[i].is = "pending" /\ o[i].is \in {"missed", "unobserved"}),
         \A n \in Live : e[n] = exec[n] \/ e[n].st \notin Held \cup {"scheduled"},
         untold' \subseteq untold, UNCHANGED late,
         seen' \in [Address -> Observations \cup {"unseen"}],
         cand' \in [Candidates -> CandidateStates], decision' \in 0..MaxDecision
  PROVE  Quiet
<1>1. TypeOK
  BY DEF RuntimeInv, RuntimeSafe
<1>2. /\ opp' \in [Identities -> Predictions] /\ exec' \in [Address -> Executions]
      /\ launching' \in [Identities -> Nat] /\ OppMoves /\ ExecMoves
  BY Dispatches
<1>3. TypeOK'
  BY <1>1, <1>2 DEF TypeOK, GraphTypeOK, Predictions, Executions
<1>4. QED
  BY <1>2, <1>3 DEF Quiet

\* The parts of the type invariant by name.
LEMMA Types ==
  ASSUME RuntimeInv
  PROVE  /\ TypeOK /\ GraphInv
         /\ opp \in [Identities -> Predictions] /\ exec \in [Address -> Executions]
         /\ seen \in [Address -> Observations \cup {"unseen"}] /\ cand \in [Candidates -> CandidateStates]
         /\ launching \in [Identities -> Nat] /\ decision \in 0..MaxDecision
         /\ Now = State(opp, exec, seen, cand)
         /\ Observed \subseteq Observations \cup {"unseen"}
  BY DEF RuntimeInv, RuntimeSafe, TypeOK, Predictions, Executions, Now, State, Observed

LEMMA DispatchStep == RuntimeInv /\ Dispatch => Quiet
  BY Types, DispatchIsQuiet DEF Dispatch

LEMMA PrepareStep ==
  ASSUME RuntimeInv, NEW n \in Address, Prepare(n)
  PROVE  Quiet
<1>1. PICK route \in {"deferred", "blocked"} : DispatchReady([Now EXCEPT !.exec[n] = Bare(route)])
  BY DEF Prepare
<1> DEFINE e == [exec EXCEPT ![n] = Bare(route)]
<1>2. route \in ExecStates /\ route \notin Held \cup {"scheduled"}
  BY DEF ExecStates, Unstarted, Held
<1>3. Bare(route) \in Executions /\ Bare(route).st = route
  BY <1>2, BareIs
<1>4. /\ e \in [Address -> Executions]
      /\ \A m \in Live : e[m] = exec[m] \/ e[m].st \notin Held \cup {"scheduled"}
  BY <1>2, <1>3, Types DEF Live
<1>5. [Now EXCEPT !.exec[n] = Bare(route)] = State(opp, e, seen, cand)
  BY DEF Now, State
<1> HIDE DEF e
<1>6. QED
  BY <1>1, <1>4, <1>5, Types, DispatchIsQuiet DEF Prepare

LEMMA RejectStep ==
  ASSUME RuntimeInv, NEW n \in Address, Reject(n)
  PROVE  Quiet
<1>1. PICK o \in [Identities -> Predictions], e \in [Address -> Executions] :
        /\ Abandoned(State(opp, exec, seen, cand), {n}) = State(o, e, seen, cand)
        /\ \A i \in Identities : o[i] = opp[i] \/ (opp[i].is = "pending" /\ o[i].is = "unobserved")
        /\ \A m \in Address : e[m] = exec[m] \/ e[m].st = "failed"
  BY Types, Abandons
<1>2. DispatchReady(State(o, e, seen, cand))
  BY <1>1, Types DEF Reject
<1>3. \A m \in Live : e[m] = exec[m] \/ e[m].st \notin Held \cup {"scheduled"}
  BY <1>1 DEF Live, Held
<1>4. QED
  BY <1>1, <1>2, <1>3, Types, DispatchIsQuiet DEF Reject

LEMMA ActorSettlesStep ==
  ASSUME RuntimeInv, NEW i \in Identities, ActorSettles(i)
  PROVE  Quiet
<1>1. PICK o \in (IF LiveId(i) THEN Observed ELSE {"unseen"}) :
        seen' = IF LiveId(i) THEN [seen EXCEPT ![i[1]] = o] ELSE seen
  BY DEF ActorSettles
<1>2. seen' \in [Address -> Observations \cup {"unseen"}]
  BY <1>1, Types
<1>3. DispatchReady(State(opp, exec, seen', cand))
  BY Types DEF ActorSettles, Now, State
<1>4. QED
  BY <1>2, <1>3, Types, DispatchIsQuiet DEF ActorSettles

LEMMA CandidateSettlesStep ==
  ASSUME RuntimeInv, NEW c \in Candidates, NEW result \in {"succeeded", "failed"}, CandidateSettles(c, result)
  PROVE  Quiet
<1>1. cand' \in [Candidates -> CandidateStates]
  BY Types DEF CandidateSettles, CandidateStates
<1>2. PICK o \in Observed \cup (IF result = "succeeded" THEN {} ELSE {"unseen"}) :
        seen' = [n \in Address |-> IF n \in Consumers(c) /\ o # "unseen" THEN o ELSE seen[n]]
  BY DEF CandidateSettles
<1>3. seen' \in [Address -> Observations \cup {"unseen"}]
  BY <1>2, Types
<1>4. DispatchReady(State(opp, exec, seen', cand'))
  <2>1. DispatchReady([Now EXCEPT !.cand = cand', !.seen = seen'])
    BY DEF CandidateSettles
  <2>2. ASSUME NEW a, NEW b, NEW y, y = [Now EXCEPT !.cand = a, !.seen = b]
        PROVE  y = State(opp, exec, b, a)
    BY <2>2 DEF Now, State
  <2>3. QED
    BY <2>1, <2>2
<1>5. QED
  BY <1>1, <1>3, <1>4, Types, DispatchIsQuiet DEF CandidateSettles

LEMMA FrontierStep ==
  ASSUME RuntimeInv, Frontier
  PROVE  Quiet
<1> DEFINE o == [i \in Identities |-> IF LiveId(i) /\ i[1] \in Due THEN [is |-> "missed", at |-> 0] ELSE opp[i]]
<1>1. [is |-> "missed", at |-> 0] \in Predictions
  BY RuntimeSetting DEF Predictions, Outcomes
<1>2. \A i \in Identities : LiveId(i) /\ i[1] \in Due => opp[i].is = "pending"
  BY DEF Due, Outcome, Now, LiveId
<1>3. /\ o \in [Identities -> Predictions]
      /\ \A i \in Identities : o[i] = opp[i] \/ (opp[i].is = "pending" /\ o[i].is \in {"missed", "unobserved"})
  BY <1>1, <1>2, Types
<1>4. [Now EXCEPT !.opp = o] = State(o, exec, seen, cand)
  BY DEF Now, State
<1>5. DispatchReady([Now EXCEPT !.opp = o]) /\ decision' = decision + 1 /\ decision < MaxDecision
  BY DEF Frontier
<1> HIDE DEF o
<1>6. decision' \in 0..MaxDecision
  BY <1>5, Types, RuntimeSetting
<1>7. QED
  BY <1>3, <1>4, <1>5, <1>6, Types, DispatchIsQuiet DEF Frontier

LEMMA BindStep ==
  ASSUME RuntimeInv, NEW n \in Address, Bind(n)
  PROVE  Quiet
<1>1. "preparing" \in ExecStates /\ "preparing" \notin Held \cup {"scheduled"}
  BY DEF ExecStates, Unstarted, Held
<1>2. Bare("preparing") \in Executions /\ Bare("preparing").st = "preparing"
  BY <1>1, BareIs
<1>3. exec' = [exec EXCEPT ![n] = Bare("preparing")] /\ exec' \in [Address -> Executions]
  BY <1>2, Types DEF Bind
<1>4. TypeOK'
  BY <1>3, Types DEF Bind, TypeOK, GraphTypeOK, Executions
<1>5. QED
  BY <1>1, <1>2, <1>3, <1>4, OneExecution DEF Bind

\* The end of a launch that finds nothing left to start: the node it was for, if it is
\* there, is not scheduled by it.
LEMMA LaunchIsQuiet ==
  ASSUME RuntimeInv, UNCHANGED <<revision, node, commits, cleared, anchor, decision, untold>>, TypeOK',
         NEW i \in Identities, LaunchSettles(i), OppMoves,
         \A n \in Live : \/ exec'[n] = exec[n] /\ (Id(n) = i => exec[n].st # "scheduled" \/ opp[i].is \notin Unsettled)
                         \/ exec'[n].st \notin Held \cup {"scheduled"}
                         \/ /\ exec[n].st \in Held \cup {"scheduled"} /\ exec'[n].st \in Held
                            /\ Computes[exec'[n].by] = node[n].action.input
  PROVE  Quiet
<1>1. launching' = [launching EXCEPT ![i] = launching[i] - 1] /\ launching \in [Identities -> Nat]
  BY Types DEF LaunchSettles
<1>2. \A k \in Identities : k # i => launching'[k] = launching[k]
  BY <1>1
<1>3. \A n \in Live : Id(n) \in Identities
  BY Types, Names
<1>4. ExecMoves
  BY <1>2, <1>3 DEF ExecMoves
<1>5. QED
  BY <1>4 DEF Quiet

LEMMA LaunchCounts ==
  ASSUME RuntimeInv, NEW i \in Identities, LaunchSettles(i)
  PROVE  launching' \in [Identities -> Nat]
<1>1. launching' = [launching EXCEPT ![i] = launching[i] - 1] /\ launching[i] > 0 /\ launching \in [Identities -> Nat]
  BY Types DEF LaunchSettles
<1>2. launching[i] - 1 \in Nat
  BY <1>1
<1>3. QED
  BY <1>1, <1>2

LEMMA LaunchDefersStep ==
  ASSUME RuntimeInv, NEW i \in Identities, LaunchDefers(i)
  PROVE  Quiet
<1>1. i[1] \in Address /\ \A n \in Live : n \in Address /\ (Id(n) = i => n = i[1])
  BY Types, Names
<1>2. "deferred" \in ExecStates /\ "deferred" \notin Held \cup {"scheduled"}
  BY DEF ExecStates, Unstarted, Held
<1>3. Bare("deferred") \in Executions /\ Bare("deferred").st = "deferred"
  BY <1>2, BareIs
<1> DEFINE x == IF exec[i[1]].st = "scheduled" THEN Bare("deferred") ELSE exec[i[1]]
<1>4. exec' = [exec EXCEPT ![i[1]] = x] /\ x \in Executions
  BY <1>1, <1>3, Types DEF LaunchDefers
<1>5. exec' \in [Address -> Executions] /\ exec'[i[1]] = x /\ \A n \in Address : n # i[1] => exec'[n] = exec[n]
  <2> HIDE DEF x
  <2>1. QED
    BY <1>1, <1>4, Types
<1>6. TypeOK'
  BY <1>5, LaunchCounts, Types DEF LaunchDefers, TypeOK, GraphTypeOK, Executions
<1>7. OppMoves
  BY DEF LaunchDefers, OppMoves
<1>8. ASSUME NEW n \in Live
      PROVE  \/ exec'[n] = exec[n] /\ (Id(n) = i => exec[n].st # "scheduled")
             \/ exec'[n].st \notin Held \cup {"scheduled"}
  <2>1. CASE n = i[1]
    BY <1>2, <1>3, <1>5, <2>1
  <2>2. CASE n # i[1]
    BY <1>1, <1>5, <2>2
  <2>3. QED
    BY <2>1, <2>2
<1>9. QED
  BY <1>6, <1>7, <1>8, LaunchIsQuiet DEF LaunchDefers

LEMMA LaunchAttachesStep ==
  ASSUME RuntimeInv, NEW i \in Identities, NEW c \in Candidates, LaunchAttaches(i, c)
  PROVE  Quiet
<1>1. /\ i[1] \in Address /\ \A n \in Live : n \in Address /\ (Id(n) = i => n = i[1])
      /\ LiveId(i) => Id(i[1]) = i
  BY Types, Names
<1> DEFINE x == [st |-> "attached", by |-> c]
<1>2. x \in Executions /\ x.st \in Held /\ x.by = c
  BY DEF Executions, ExecStates, Held
<1>3. exec' = [exec EXCEPT ![i[1]] = x] /\ exec[i[1]].st = "scheduled" /\ Computes[c] = node[i[1]].action.input
  BY DEF LaunchAttaches, StillLaunches
<1> HIDE DEF x
<1>4. exec' \in [Address -> Executions] /\ exec'[i[1]] = x /\ \A n \in Address : n # i[1] => exec'[n] = exec[n]
  BY <1>1, <1>2, <1>3, Types
<1>5. cand' \in [Candidates -> CandidateStates]
  BY Types DEF LaunchAttaches, CandidateStates
<1>6. seen' \in [Address -> Observations \cup {"unseen"}]
  <2>1. PICK o \in (IF cand[c] = "succeeded" THEN Observed ELSE {seen[i[1]]}) : seen' = [seen EXCEPT ![i[1]] = o]
    BY DEF LaunchAttaches
  <2>2. o \in Observations \cup {"unseen"}
    BY <1>1, Types
  <2>3. QED
    BY <1>1, <2>1, <2>2, Types
<1>7. late' \subseteq Identities \X Candidates
  BY Types DEF LaunchAttaches, TypeOK
<1>8. LaunchSettles(i)
  BY DEF LaunchAttaches
<1>9. TypeOK'
  BY <1>4, <1>5, <1>6, <1>7, <1>8, LaunchCounts, Types DEF LaunchAttaches, TypeOK, GraphTypeOK, Executions
<1>10. OppMoves
  BY DEF LaunchAttaches, OppMoves
<1>11. ASSUME NEW n \in Live
      PROVE  \/ exec'[n] = exec[n] /\ Id(n) # i
             \/ /\ exec[n].st \in Held \cup {"scheduled"} /\ exec'[n].st \in Held
                /\ Computes[exec'[n].by] = node[n].action.input
  <2>1. CASE n = i[1]
    BY <1>2, <1>3, <1>4, <2>1
  <2>2. CASE n # i[1]
    BY <1>1, <1>4, <2>2
  <2>3. QED
    BY <2>1, <2>2
<1>12. QED
  BY <1>8, <1>9, <1>10, <1>11, LaunchIsQuiet DEF LaunchAttaches

LEMMA LaunchFailsStep ==
  ASSUME RuntimeInv, NEW i \in Identities, LaunchFails(i)
  PROVE  Quiet
<1>1. /\ i[1] \in Address /\ \A n \in Live : n \in Address /\ (Id(n) = i => n = i[1])
      /\ Id(i[1]) = i
  BY Types, Names DEF LaunchFails
<1> DEFINE s == Abandoned(Now, {i[1]})
<1>2. opp' = s.opp /\ exec' = s.exec
  BY DEF LaunchFails
<1>3. PICK o \in [Identities -> Predictions], e \in [Address -> Executions] :
        /\ Abandoned(State(opp, exec, seen, cand), {i[1]}) = State(o, e, seen, cand)
        /\ \A k \in Identities : o[k] = opp[k] \/ (opp[k].is = "pending" /\ o[k].is = "unobserved")
        /\ \A n \in Address : e[n] = exec[n] \/ e[n].st = "failed"
  BY Types, Abandons
<1>4. s = State(o, e, seen, cand)
  BY <1>3, Types
<1>5. opp' = o /\ exec' = e
  BY <1>2, <1>4 DEF State
<1>6. e[i[1]].st # "scheduled"
  <2>1. exec' = [n \in Address |-> IF n \in {i[1]} /\ exec[n].st \in Unstarted \cup {"scheduled"} THEN Bare("failed") ELSE exec[n]]
    BY <1>2 DEF Abandoned, Now
  <2>2. Bare("failed").st = "failed"
    BY DEF Bare
  <2>3. QED
    BY <1>1, <1>5, <2>1, <2>2
<1> HIDE DEF s
<1>7. TypeOK'
  BY <1>5, LaunchCounts, Types DEF LaunchFails, TypeOK, GraphTypeOK, Executions, Predictions
<1>8. OppMoves
  BY <1>3, <1>5 DEF OppMoves
<1>9. ASSUME NEW n \in Live
      PROVE  \/ exec'[n] = exec[n] /\ (Id(n) = i => exec[n].st # "scheduled")
             \/ exec'[n].st \notin Held \cup {"scheduled"}
  BY <1>1, <1>3, <1>5, <1>6 DEF Held
<1>10. QED
  BY <1>7, <1>8, <1>9, LaunchIsQuiet DEF LaunchFails

LEMMA LaunchEndsStep ==
  ASSUME RuntimeInv, NEW i \in Identities, LaunchEnds(i)
  PROVE  Quiet
<1>1. \A n \in Live : LiveId(Id(n)) /\ Id(n)[1] = n
  BY Types, Names
<1>2. TypeOK'
  BY LaunchCounts, Types DEF LaunchEnds, TypeOK, GraphTypeOK
<1>3. OppMoves
  BY DEF LaunchEnds, OppMoves
<1>4. \A n \in Live : Id(n) = i => exec[n].st # "scheduled" \/ opp[i].is \notin Unsettled
  BY <1>1 DEF LaunchEnds, StillLaunches, Outcome, Now
<1>5. QED
  BY <1>2, <1>3, <1>4, LaunchIsQuiet DEF LaunchEnds

LEMMA CompleteStep ==
  ASSUME RuntimeInv, NEW i \in Identities, NEW c \in Candidates, Complete(i, c)
  PROVE  Quiet
<1>1. i[1] \in Address /\ (LiveId(i) => i[1] \in Live)
  BY Types, Names
<1> DEFINE x == IF IsAttachment(i, c) THEN [st |-> "done", by |-> c] ELSE exec[i[1]]
<1>2. exec' = [exec EXCEPT ![i[1]] = x]
  BY DEF Complete
<1>3. [st |-> "done", by |-> c] \in Executions
  BY DEF Executions, ExecStates, Held
<1>4. x \in Executions /\ (x = exec[i[1]] \/ (i[1] \in Live /\ exec[i[1]].st \in Held /\ x.st \in Held /\ x.by = exec[i[1]].by))
  BY <1>1, <1>3, Types DEF IsAttachment, Held
<1> HIDE DEF x
<1>5. exec' \in [Address -> Executions]
  BY <1>1, <1>2, <1>4, Types
<1>6. TypeOK'
  BY <1>5, Types DEF Complete, TypeOK, GraphTypeOK, Executions
<1>7. QED
  BY <1>1, <1>2, <1>4, <1>6, OneExecution DEF Complete

LEMMA EvictStep ==
  ASSUME RuntimeInv, NEW c \in Candidates, NEW rearm \in BOOLEAN, Evict(c, rearm)
  PROVE  Quiet
<1>1. "deferred" \in ExecStates /\ "deferred" \notin Held \cup {"scheduled"}
  BY DEF ExecStates, Unstarted, Held
<1>2. Bare("deferred") \in Executions /\ Bare("deferred").st = "deferred"
  BY <1>1, BareIs
<1>3. /\ exec' \in [Address -> Executions]
      /\ \A n \in Live : exec'[n] = exec[n] \/ exec'[n].st \notin Held \cup {"scheduled"}
  BY <1>1, <1>2, Types DEF Evict, Live
<1>4. cand' \in [Candidates -> CandidateStates]
  BY Types DEF Evict, CandidateStates
<1>5. TypeOK'
  BY <1>3, <1>4, Types DEF Evict, TypeOK, GraphTypeOK, Executions
<1>6. OppMoves /\ ExecMoves
  BY <1>3 DEF Evict, OppMoves, ExecMoves
<1>7. QED
  BY <1>5, <1>6 DEF Evict, Quiet

LEMMA ConfirmStep ==
  ASSUME RuntimeInv, NEW i \in Identities, NEW how \in Matched, Confirm(i, how)
  PROVE  Quiet
<1>1. opp' = [opp EXCEPT ![i].is = how] /\ opp[i].is = "matching" /\ opp[i] \in Predictions
  BY Types DEF Confirm
<1> DEFINE x == [opp[i] EXCEPT !.is = how]
<1>2. x \in Predictions /\ x.is = how /\ x.at = opp[i].at
  BY <1>1 DEF Predictions, Outcomes
<1>3. opp' = [opp EXCEPT ![i] = x]
  BY <1>1
<1> HIDE DEF x
<1>4. opp' \in [Identities -> Predictions] /\ opp'[i] = x /\ \A k \in Identities : k # i => opp'[k] = opp[k]
  BY <1>2, <1>3, Types
<1>5. untold' \subseteq Identities
  BY Types DEF Confirm, TypeOK
<1>6. TypeOK'
  BY <1>4, <1>5, Types DEF Confirm, TypeOK, GraphTypeOK, Predictions
<1>7. OppMoves
  BY <1>1, <1>2, <1>4 DEF OppMoves
<1>8. ExecMoves
  BY DEF Confirm, ExecMoves
<1>9. QED
  BY <1>6, <1>7, <1>8 DEF Confirm, Quiet

-----------------------------------------------------------------------------
(* recompute(): the earliest decision at which a prediction may be claimed *)

\* The greatest of a number and finitely many others.
LEMMA GreatestNat ==
  ASSUME NEW P, IsFiniteSet(P), NEW g \in [P -> Nat], NEW b \in Nat
  PROVE  LET T == {b} \cup {g[m] : m \in P}
         IN  Max(T) \in T /\ Max(T) \in Nat /\ \A y \in T : Max(T) >= y
<1> DEFINE T == {b} \cup {g[m] : m \in P}
           From == {x \in T : x >= b}
           Above(x) == {m \in P : g[m] > x}
           Family == {Above(x) : x \in From}
           Smaller == StrictSubsetOrdering(P)
<1>1. T \subseteq Nat /\ b \in From
  OBVIOUS
<1>2. IsWellFoundedOn(Smaller, FiniteSubsetsOf(P))
  BY FS_StrictSubsetOrderingWellFounded
<1>3. Family \subseteq FiniteSubsetsOf(P) /\ Family # {}
  <2>1. \A x \in From : Above(x) \in SUBSET P
    OBVIOUS
  <2>2. \A x \in From : IsFiniteSet(Above(x))
    <3> HIDE DEF Above, From
    <3>1. QED
      BY <2>1, FS_Subset
  <2>3. \A x \in From : Above(x) \in FiniteSubsetsOf(P)
    BY <2>1, <2>2 DEF FiniteSubsetsOf
  <2> HIDE DEF Above, From
  <2>4. QED
    BY <1>1, <2>3
<1>4. PICK F \in Family : \A G \in Family : ~ (<<G, F>> \in Smaller)
  <2> HIDE DEF Family, Smaller
  <2>1. QED
    BY <1>2, <1>3, WFMin
<1>5. PICK x \in From : F = Above(x)
  BY <1>4
<1>6. ASSUME NEW y \in T, y > x PROVE FALSE
  <2>1. x \in Nat /\ y \in Nat /\ x >= b
    BY <1>1, <1>5
  <2>2. y \in From /\ y # b
    BY <1>6, <2>1
  <2>3. PICK m \in P : y = g[m]
    BY <2>2
  <2>4. m \in Above(x) /\ m \notin Above(y) /\ Above(y) \subseteq Above(x) /\ Above(x) \subseteq P
    BY <1>6, <2>1, <2>3
  <2>5. <<Above(y), F>> \in Smaller
    BY <1>5, <2>4 DEF StrictSubsetOrdering
  <2>6. QED
    BY <1>4, <2>2, <2>5
<1>7. x \in T /\ \A y \in T : x >= y
  BY <1>1, <1>5, <1>6
<1> HIDE DEF T
<1>8. Max(T) \in T /\ \A y \in T : Max(T) >= y
  BY <1>7 DEF Max
<1>9. QED
  BY <1>1, <1>8 DEF T

\* What recompute() takes the maximum of.
Sums(f, n) == {Base(n, 0)} \cup {f[m] + 1 : m \in Parents(n)}
\* f is recompute()'s answer on D, which holds the parents of its nodes.
Answers(D, f) ==
  D \in SUBSET Live /\ f \in [D -> Nat] /\ \A n \in D : Parents(n) \subseteq D /\ f[n] = Max(Sums(f, n))

LEMMA SumsHaveMax ==
  ASSUME RuntimeInv, NEW n \in Live, NEW D, Parents(n) \subseteq D, NEW f \in [D -> Nat]
  PROVE  /\ Max(Sums(f, n)) \in Nat /\ Max(Sums(f, n)) >= Base(n, 0)
         /\ \A m \in Parents(n) : Max(Sums(f, n)) >= f[m] + 1
<1>1. Base(n, 0) \in Nat
  <2>1. n \in Address /\ Id(n) \in Identities
    BY Types, Names
  <2>2. opp[Id(n)].at \in Nat /\ anchor[n] \in Nat
    BY <2>1, Types, RuntimeSetting DEF TypeOK, Predictions
  <2>3. QED
    BY <2>2 DEF Base
<1>2. IsFiniteSet(Parents(n))
  <2>1. IsFiniteSet(Address)
    BY RuntimeSetting, FS_Product DEF Address
  <2>2. Parents(n) \in SUBSET Address
    BY Types, PresupposedAreParents DEF Live
  <2>3. QED
    BY <2>1, <2>2, FS_Subset
<1> DEFINE g == [m \in Parents(n) |-> f[m] + 1]
<1>3. g \in [Parents(n) -> Nat]
  OBVIOUS
<1>4. Sums(f, n) = {Base(n, 0)} \cup {g[m] : m \in Parents(n)} /\ \A m \in Parents(n) : g[m] = f[m] + 1
  BY DEF Sums
<1> HIDE DEF g
<1>5. Max(Sums(f, n)) \in Nat /\ \A y \in Sums(f, n) : Max(Sums(f, n)) >= y
  BY <1>1, <1>2, <1>3, <1>4, GreatestNat
<1>6. QED
  BY <1>4, <1>5

\* Two answers agree, for the plans have no cycle.
LEMMA AnswersAgree ==
  ASSUME RuntimeInv, NEW D, NEW f, Answers(D, f), NEW E, NEW g, Answers(E, g), NEW n \in D \cap E
  PROVE  f[n] = g[n]
<1> DEFINE S == {m \in D \cap E : f[m] # g[m]}
<1>1. SUFFICES ASSUME S # {} PROVE FALSE
  OBVIOUS
<1>2. S \in SUBSET Live
  BY DEF Answers
<1>3. PICK m \in S : Parents(m) \cap S = {}
  <2> HIDE DEF S
  <2>1. QED
    BY <1>1, <1>2, Types, InvAcyclic DEF Acyclic
<1>4. \A k \in Parents(m) : f[k] = g[k]
  BY <1>3 DEF Answers
<1>5. Sums(f, m) = Sums(g, m)
  BY <1>4 DEF Sums
<1>6. QED
  BY <1>3, <1>5 DEF Answers

\* There is an answer for all nodes: the union of all answers, were it smaller, could be
\* continued at a node whose parents it has.
LEMMA AnswerExists ==
  ASSUME RuntimeInv
  PROVE  \E f : Answers(Live, f)
<1> DEFINE Answered(n, x) == \E D, f : Answers(D, f) /\ n \in D /\ x = f[n]
           U == {n \in Live : \E x : Answered(n, x)}
           h == [n \in U |-> CHOOSE x : Answered(n, x)]
<1>1. ASSUME NEW D, NEW f, Answers(D, f)
      PROVE  D \subseteq U /\ \A n \in D : h[n] = f[n]
  <2>1. SUFFICES ASSUME NEW n \in D PROVE n \in U /\ h[n] = f[n]
    OBVIOUS
  <2>2. Answered(n, f[n]) /\ n \in Live
    BY <1>1 DEF Answers
  <2>3. \A x : Answered(n, x) => x = f[n]
    BY <1>1, AnswersAgree
  <2> HIDE DEF Answered
  <2>4. n \in U
    BY <2>2
  <2>5. QED
    BY <2>2, <2>3, <2>4
<1>2. \A n \in U : \E D, f : Answers(D, f) /\ n \in D
  OBVIOUS
<1> HIDE DEF h
<1>3. Answers(U, h)
  <2>1. U \in SUBSET Live /\ h = [n \in U |-> h[n]]
    BY DEF h
  <2> HIDE DEF U
  <2>2. ASSUME NEW n \in U
        PROVE  h[n] \in Nat /\ Parents(n) \subseteq U /\ h[n] = Max(Sums(h, n))
    <3>1. PICK D, f : Answers(D, f) /\ n \in D
      BY <1>2
    <3>2. D \subseteq U /\ \A m \in D : h[m] = f[m]
      BY <1>1, <3>1
    <3>3. f[n] \in Nat /\ Parents(n) \subseteq D /\ f[n] = Max(Sums(f, n))
      BY <3>1 DEF Answers
    <3>4. Sums(h, n) = Sums(f, n)
      BY <3>2, <3>3 DEF Sums
    <3>5. QED
      BY <3>1, <3>2, <3>3, <3>4
  <2>3. QED
    BY <2>1, <2>2 DEF Answers
<1>4. U \subseteq Live
  OBVIOUS
<1> HIDE DEF U
<1>5. ASSUME Live \ U # {} PROVE FALSE
  <2>1. PICK n \in Live \ U : Parents(n) \cap (Live \ U) = {}
    BY <1>5, Types, InvAcyclic DEF Acyclic
  <2>2. Parents(n) \subseteq U
    BY <2>1, Types, PresupposedAreParents
  <2> DEFINE D == U \cup {n}
             v == Max(Sums(h, n))
             f == [m \in D |-> IF m = n THEN v ELSE h[m]]
  <2>3. v \in Nat
    BY <1>3, <2>2, SumsHaveMax DEF Answers
  <2> HIDE DEF v
  <2>4. f \in [D -> Nat] /\ f[n] = v /\ \A m \in U : f[m] = h[m]
    BY <1>3, <2>1, <2>3 DEF Answers
  <2>5. ASSUME NEW m \in D PROVE Parents(m) \subseteq U /\ f[m] = Max(Sums(f, m))
    <3>1. Parents(m) \subseteq U
      BY <1>3, <2>2 DEF Answers
    <3> HIDE DEF f
    <3>2. Sums(f, m) = Sums(h, m)
      BY <2>4, <3>1 DEF Sums
    <3>3. QED
      BY <1>3, <2>4, <3>1, <3>2 DEF Answers, v
  <2> HIDE DEF f
  <2>6. Answers(D, f)
    BY <1>4, <2>1, <2>4, <2>5 DEF Answers
  <2>7. QED
    BY <1>1, <2>1, <2>6
<1>6. QED
  BY <1>3, <1>4, <1>5

LEMMA EarliestFollows ==
  ASSUME RuntimeInv, NEW n \in Live
  PROVE  /\ Earliest[n] \in Nat /\ Earliest[n] >= Base(n, 0)
         /\ \A m \in Parents(n) : Earliest[m] \in Nat /\ Earliest[n] >= Earliest[m] + 1 /\ Earliest[m] >= Base(m, 0)
<1> DEFINE Solves(f) == f = [k \in Live |-> Max(Sums(f, k))]
<1>1. PICK h : Answers(Live, h)
  BY AnswerExists
<1>2. Solves(h)
  BY <1>1 DEF Answers
<1>3. Earliest = CHOOSE f : Solves(f)
  BY DEF Earliest, Sums
<1> HIDE DEF Solves
<1>4. Solves(Earliest)
  BY <1>2, <1>3
<1> DEFINE e == Earliest
<1>5. e = [k \in Live |-> Max(Sums(e, k))]
  BY <1>4 DEF Solves
<1> HIDE DEF e
<1>6. \A k \in Live : e[k] = Max(Sums(e, k)) /\ h[k] = Max(Sums(h, k)) /\ Parents(k) \subseteq Live
  BY <1>1, <1>5 DEF Answers
<1>7. \A k \in Live : e[k] = h[k]
  <2> DEFINE S == {k \in Live : e[k] # h[k]}
  <2>1. SUFFICES ASSUME S # {} PROVE FALSE
    OBVIOUS
  <2>2. PICK k \in S : Parents(k) \cap S = {}
    <3>1. S \in SUBSET Live
      OBVIOUS
    <3> HIDE DEF S
    <3>2. QED
      BY <2>1, <3>1, Types, InvAcyclic DEF Acyclic
  <2>3. \A m \in Parents(k) : e[m] = h[m]
    BY <1>6, <2>2
  <2>4. Sums(e, k) = Sums(h, k)
    BY <2>3 DEF Sums
  <2>5. QED
    BY <1>6, <2>2, <2>4
<1>8. \A k \in Live : e[k] \in Nat /\ e[k] >= Base(k, 0) /\ \A m \in Parents(k) : e[k] >= e[m] + 1
  <2>1. h \in [Live -> Nat]
    BY <1>1 DEF Answers
  <2>2. SUFFICES ASSUME NEW k \in Live
                 PROVE  h[k] \in Nat /\ h[k] >= Base(k, 0) /\ \A m \in Parents(k) : h[k] >= h[m] + 1
    BY <1>6, <1>7
  <2>3. /\ Max(Sums(h, k)) \in Nat /\ Max(Sums(h, k)) >= Base(k, 0)
        /\ \A m \in Parents(k) : Max(Sums(h, k)) >= h[m] + 1
    BY <1>6, <2>1, SumsHaveMax
  <2>4. QED
    BY <1>6, <2>1, <2>3
<1>9. QED
  BY <1>6, <1>8 DEF e

LEMMA ClaimStep ==
  ASSUME RuntimeInv, NEW n \in Address, Claim(n)
  PROVE  Quiet
<1>1. /\ decision < MaxDecision /\ n \in Live /\ opp[Id(n)].is = "pending"
      /\ Earliest[n] <= decision + 1 /\ n \notin Impossible(Now)
      /\ \A d \in node[n].action.deps : ~WaitsToMatch(Now, d)
      /\ opp' = [opp EXCEPT ![Id(n)] = [is |-> "matching", at |-> decision + 1]]
  BY DEF Claim, IsMatchable, Outcome, Now
<1>2. /\ Id(n) \in Identities /\ Id(n)[1] = n
      /\ \A i \in Identities : LiveId(i) => i[1] \in Live /\ Id(i[1]) = i
  BY <1>1, Types, Names
<1>3. [is |-> "matching", at |-> decision + 1] \in Predictions
  BY <1>1, Types, RuntimeSetting DEF Predictions, Outcomes, Unsettled
<1>4. /\ opp' \in [Identities -> Predictions]
      /\ opp'[Id(n)] = [is |-> "matching", at |-> decision + 1]
      /\ \A i \in Identities : i # Id(n) => opp'[i] = opp[i]
  BY <1>1, <1>2, <1>3, Types
\* What the prediction presupposes has come true, at an earlier decision.
<1>5. ASSUME NEW m \in Presupposed(n)
      PROVE  opp[Id(m)].is \in Matched /\ opp[Id(m)].at < decision + 1
  <2>1. PICK d \in node[n].action.deps : m = At(d) /\ Resolves(d) /\ d.when \in {"adopted", "prediction"}
    BY DEF Presupposed
  <2>2. m \in Live /\ m \in Parents(n)
    BY <1>1, <2>1, Types, Edges
  <2>3. Id(m) \in Identities /\ opp[Id(m)].is # "none"
    BY <2>2, Types, Names DEF RuntimeInv, Opened
  <2>4. opp[Id(m)].is \in Outcomes /\ opp[Id(m)].at \in Nat /\ decision \in Nat
    BY <2>3, Types, RuntimeSetting DEF Predictions
  <2>5. ~Blocks(Now, d) /\ ~WaitsToMatch(Now, d)
    BY <1>1, <2>1, BlockedIsImpossible
  <2>6. Outcome(Now, At(d)) = opp[Id(m)].is
    BY <2>1 DEF Outcome, Now
  <2>7. opp[Id(m)].is \in Matched
    BY <2>1, <2>3, <2>4, <2>5, <2>6 DEF Blocks, WaitsToMatch, Waits, Outcomes, Unsettled, Matched
  <2>8. Base(m, 0) = opp[Id(m)].at
    BY <2>7 DEF Base
  <2>9. Earliest[m] \in Nat /\ Earliest[n] \in Nat /\ Earliest[n] >= Earliest[m] + 1 /\ Earliest[m] >= Base(m, 0)
    BY <1>1, <2>2, EarliestFollows
  <2>10. QED
    BY <1>1, <2>4, <2>7, <2>8, <2>9
<1>6. OppMoves
  <2>1. SUFFICES ASSUME NEW i \in Identities, i = Id(n)
                 PROVE  /\ opp[i].is = "pending" /\ opp'[i].is = "matching"
                        /\ \A m \in Presupposed(i[1]) : opp[Id(m)].is \in Matched /\ opp[Id(m)].at < opp'[i].at
    BY <1>4 DEF OppMoves
  <2>2. QED
    BY <1>1, <1>2, <1>4, <1>5, <2>1
<1>7. ExecMoves
  BY DEF Claim, ExecMoves
<1>8. TypeOK'
  BY <1>4, Types DEF Claim, TypeOK, GraphTypeOK, Predictions
<1>9. QED
  BY <1>6, <1>7, <1>8 DEF Claim, Quiet

-----------------------------------------------------------------------------
(* The steps that change the plans *)

\* An update moves predictions as follows: it withdraws those it removes the nodes of, and
\* opens those of identities that were never given out before.
LEMMA MaterializeOpens ==
  ASSUME RuntimeInv, GraphInv', ~cleared, NEW p \in Plans, NEW r, NEW touched, Moved(p, r), Materialize(touched)
  PROVE  \A i \in Identities :
           \/ opp'[i] = opp[i] /\ (opp[i].is = "pending" /\ LiveId(i) => LiveId(i)')
           \/ opp[i].is = "pending" /\ opp'[i].is = "unobserved" /\ opp'[i] \in Predictions
           \/ /\ opp[i].is = "none" /\ opp'[i] = [is |-> "pending", at |-> 0] /\ LiveId(i)'
              /\ i[1][1] = p /\ i[2] = r
<1>1. SUFFICES ASSUME NEW i \in Identities
               PROVE  \/ opp'[i] = opp[i] /\ (opp[i].is = "pending" /\ LiveId(i) => LiveId(i)')
                      \/ opp[i].is = "pending" /\ opp'[i].is = "unobserved" /\ opp'[i] \in Predictions
                      \/ /\ opp[i].is = "none" /\ opp'[i] = [is |-> "pending", at |-> 0] /\ LiveId(i)'
                         /\ i[1][1] = p /\ i[2] = r
  OBVIOUS
<1>2. /\ i[1] \in Address /\ i = <<i[1], i[2]>> /\ i[2] \in 1..MaxRevision /\ i[1][1] \in Plans
      /\ opp[i] \in Predictions
  BY Types, Names DEF Address
<1> DEFINE New == node'[i[1]] # None /\ node'[i[1]].born = i[2] /\ ~LiveId(i)
           Gone == LiveId(i) /\ ~IsKept(i[1])
<1>3. /\ New => opp'[i] = [is |-> "pending", at |-> 0]
      /\ ~New /\ Gone => opp'[i] = Unobserved(opp[i])
      /\ ~New /\ ~Gone => opp'[i] = opp[i]
  BY DEF Materialize
<1>4. CASE New
  <2>1. i[1] \in Live' /\ LiveId(i)'
    BY <1>2, <1>4 DEF Live, LiveId, Id
  <2>2. ~IsKept(i[1])
    BY <1>2, <1>4 DEF IsKept, LiveId, Id
  <2>3. i[1][1] = p /\ node'[i[1]].born = r
    BY <2>1, <2>2 DEF Moved
  <2>4. i[2] = r /\ r > revision[p] /\ revision[p] \in Nat /\ r \in 1..MaxRevision
    BY <1>4, <2>3, Types DEF Moved, GraphInv, GraphTypeOK
  <2>5. opp[i].is = "none"
    BY <1>2, <2>3, <2>4, RuntimeSetting, GraphSetting DEF RuntimeInv, Issued
  <2>6. QED
    BY <1>3, <1>4, <2>1, <2>3, <2>4, <2>5
<1>5. CASE ~New /\ Gone
  BY <1>2, <1>3, <1>5, UnobservedIs DEF Unobserved
<1>6. CASE ~New /\ ~Gone
  <2>1. LiveId(i) => LiveId(i)'
    BY <1>2, <1>6 DEF IsKept, LiveId, Id
  <2>2. QED
    BY <1>3, <1>6, <2>1
<1>7. QED
  BY <1>4, <1>5, <1>6

\* A node that is kept keeps all of its runtime state; one that is not is new, with a new
\* prediction and nothing run.
LEMMA MaterializeKeeps ==
  ASSUME RuntimeInv, GraphInv', NEW p \in Plans, NEW r, NEW touched, Moved(p, r), Materialize(touched),
         NEW n \in Live'
  PROVE  \/ /\ n \in Live /\ IsKept(n) /\ Id(n)' = Id(n) /\ opp'[Id(n)] = opp[Id(n)] /\ exec'[n] = exec[n]
         \/ /\ ~IsKept(n) /\ opp'[Id(n)'].is = "pending" /\ exec'[n].st = "unbound"
<1>1. n \in Address /\ node'[n] # None
  BY DEF Live
<1>2. CASE IsKept(n)
  <2>1. n \in Live /\ Id(n)' = Id(n)
    BY <1>1, <1>2 DEF IsKept, Live, Id
  <2>2. Id(n) \in Identities /\ LiveId(Id(n)) /\ Id(n)[1] = n
    BY <2>1, Types, Names
  <2>3. opp'[Id(n)] = opp[Id(n)] /\ exec'[n] = exec[n]
    BY <1>1, <1>2, <2>2 DEF Materialize
  <2>4. QED
    BY <1>2, <2>1, <2>3
<1>3. CASE ~IsKept(n)
  <2>1. n[1] = p /\ node'[n].born = r /\ r \in 1..MaxRevision
    BY <1>3 DEF Moved
  <2> DEFINE i == <<n, r>>
  <2>2. i \in Identities /\ Id(n)' = i /\ i[1] = n /\ i[2] = r
    BY <1>1, <2>1 DEF Identities, Id
  <2>3. ~LiveId(i)
    BY <1>1, <1>3, <2>1, <2>2 DEF LiveId, Id, IsKept
  <2> HIDE DEF i
  <2>4. opp'[i] = [is |-> "pending", at |-> 0]
    BY <1>1, <2>1, <2>2, <2>3 DEF Materialize
  <2>5. exec'[n].st = "unbound"
    BY <1>1, <1>3 DEF Materialize, Bare
  <2>6. QED
    BY <1>3, <2>2, <2>4, <2>5
<1>4. QED
  BY <1>2, <1>3

LEMMA UpdateKeepsInv ==
  ASSUME RuntimeInv, Update
  PROVE  RuntimeInv'
<1>1. GraphInv' /\ ~cleared /\ \E p \in Plans : \E r : \E touched : Moved(p, r) /\ Materialize(touched)
  BY Types, UpdateMoves
<1>2. PICK p \in Plans : \E r : \E touched : Moved(p, r) /\ Materialize(touched)
  BY <1>1
<1>3. PICK r, touched : Moved(p, r) /\ Materialize(touched)
  BY <1>2
<1>4. /\ TypeOK /\ NoOrphan /\ ClaimsFollow /\ LaunchesFollow /\ ScheduledIsLaunching /\ ExecutionFits
      /\ Opened /\ Issued
  BY DEF RuntimeInv, RuntimeSafe
<1>5. \A i \in Identities :
        \/ opp'[i] = opp[i] /\ (opp[i].is = "pending" /\ LiveId(i) => LiveId(i)')
        \/ opp[i].is = "pending" /\ opp'[i].is = "unobserved" /\ opp'[i] \in Predictions
        \/ /\ opp[i].is = "none" /\ opp'[i] = [is |-> "pending", at |-> 0] /\ LiveId(i)'
           /\ i[1][1] = p /\ i[2] = r
  BY <1>1, <1>3, MaterializeOpens
<1>6. \A n \in Live' :
        \/ /\ n \in Live /\ IsKept(n) /\ Id(n)' = Id(n) /\ opp'[Id(n)] = opp[Id(n)] /\ exec'[n] = exec[n]
        \/ /\ ~IsKept(n) /\ opp'[Id(n)'].is = "pending" /\ exec'[n].st = "unbound"
  BY <1>1, <1>3, MaterializeKeeps
<1>7. ASSUME NEW n \in Live', IsKept(n)
      PROVE  /\ node'[n].action.input = node[n].action.input /\ node'[n].action.deps = node[n].action.deps
             /\ \A d \in node[n].action.deps : Resolves(d)' =>
                  /\ Resolves(d) /\ At(d) \in Live /\ Id(At(d))' = Id(At(d)) /\ opp'[Id(At(d))] = opp[Id(At(d))]
  <2>1. /\ node'[n].action.input = node[n].action.input /\ node'[n].action.deps = node[n].action.deps
        /\ \A d \in node[n].action.deps : Resolves(d)' => Resolves(d) /\ IsKept(At(d))
    BY <1>3, <1>7 DEF Moved
  <2>2. SUFFICES ASSUME NEW d \in node[n].action.deps, Resolves(d)'
                 PROVE  At(d) \in Live /\ Id(At(d))' = Id(At(d)) /\ opp'[Id(At(d))] = opp[Id(At(d))]
    BY <2>1
  <2>3. n \in Live
    BY <1>6, <1>7
  <2>4. At(d) \in Live /\ IsKept(At(d))
    BY <2>1, <2>2, <2>3, Types, Edges
  <2>5. At(d) \in Live'
    BY <2>4 DEF IsKept, Live
  <2>6. QED
    BY <1>6, <2>4, <2>5
<1>8. TypeOK'
  <2>1. [is |-> "pending", at |-> 0] \in Predictions
    BY RuntimeSetting DEF Predictions, Outcomes, Unsettled
  <2>2. opp' \in [Identities -> Predictions]
    <3>1. opp' = [i \in Identities |-> opp'[i]]
      BY <1>3 DEF Materialize
    <3>2. \A i \in Identities : opp'[i] \in Predictions
      BY <1>5, <2>1, Types
    <3>3. QED
      BY <3>1, <3>2
  <2>3. exec' \in [Address -> Executions]
    <3>1. "none" \in ExecStates /\ "unbound" \in ExecStates
      BY DEF ExecStates, Unstarted
    <3>2. Bare("none") \in Executions /\ Bare("unbound") \in Executions
      BY <3>1, BareIs
    <3>3. QED
      BY <1>3, <3>2, Types DEF Materialize
  <2>4. seen' \in [Address -> Observations \cup {"unseen"}]
    BY <1>3, Types DEF Materialize
  <2>5. anchor' \in [Address -> 0..MaxDecision]
    BY <1>3, <1>4, Types, RuntimeSetting DEF Materialize, TypeOK
  <2>6. QED
    BY <1>1, <1>3, <1>4, <2>2, <2>3, <2>4, <2>5, Types DEF Materialize, TypeOK, GraphInv, Predictions, Executions
<1>9. NoOrphan'
  BY <1>4, <1>5 DEF NoOrphan
<1>10. Opened'
  <2>1. \A n \in Live' : opp'[Id(n)'].is # "none"
    BY <1>4, <1>6 DEF Opened
  <2>2. QED
    BY <2>1 DEF Opened
<1>11. Issued'
  <2>1. SUFFICES ASSUME NEW i \in Identities, opp'[i].is # "none"
                 PROVE  i[2] <= revision'[i[1][1]]
    BY DEF Issued
  <2>2. /\ revision' = [revision EXCEPT ![p] = r] /\ r > revision[p] /\ r \in Nat
        /\ revision \in [Plans -> 0..MaxRevision] /\ i[2] \in Nat /\ i[1][1] \in Plans
    <3>1. i[1] \in Address /\ i[2] \in 1..MaxRevision
      BY Types, Names
    <3>2. QED
      BY <1>3, <3>1, Types, GraphSetting DEF Moved, GraphInv, GraphTypeOK, Address
  <2>3. CASE opp[i].is # "none"
    <3>1. i[2] <= revision[i[1][1]]
      BY <1>1, <1>4, <2>3 DEF Issued
    <3>2. QED
      BY <2>2, <3>1, GraphSetting
  <2>4. CASE opp[i].is = "none"
    BY <1>5, <2>1, <2>2, <2>4
  <2>5. QED
    BY <2>3, <2>4
<1>12. ClaimsFollow'
  <2>1. SUFFICES ASSUME NEW n \in Live', opp'[Id(n)'].is \in Matched \cup {"matching"}, NEW m \in Presupposed(n)'
                 PROVE  opp'[Id(m)'].is \in Matched /\ opp'[Id(m)'].at < opp'[Id(n)'].at
    BY DEF ClaimsFollow
  <2>2. n \in Live /\ IsKept(n) /\ Id(n)' = Id(n) /\ opp'[Id(n)] = opp[Id(n)]
    BY <1>6, <2>1 DEF Matched
  <2>3. PICK d \in node'[n].action.deps : m = At(d) /\ Resolves(d)' /\ d.when \in {"adopted", "prediction"}
    BY <2>1 DEF Presupposed, At
  <2>4. d \in node[n].action.deps /\ Resolves(d) /\ Id(m)' = Id(m) /\ opp'[Id(m)] = opp[Id(m)]
    BY <1>7, <2>2, <2>3
  <2>5. m \in Presupposed(n)
    BY <2>3, <2>4 DEF Presupposed
  <2>6. QED
    BY <1>4, <2>1, <2>2, <2>4, <2>5 DEF ClaimsFollow
<1>13. LaunchesFollow'
  <2>1. SUFFICES ASSUME NEW n \in Live', exec'[n].st \in Held \cup {"scheduled"},
                        NEW d \in node'[n].action.deps, d.when = "adopted", Resolves(d)'
                 PROVE  opp'[Id(At(d))'].is = "adopted"
    BY DEF LaunchesFollow, At
  <2>2. n \in Live /\ IsKept(n) /\ exec'[n] = exec[n]
    BY <1>6, <2>1 DEF Held
  <2>3. d \in node[n].action.deps /\ Resolves(d) /\ Id(At(d))' = Id(At(d)) /\ opp'[Id(At(d))] = opp[Id(At(d))]
    BY <1>7, <2>1, <2>2
  <2>4. QED
    BY <1>4, <2>1, <2>2, <2>3 DEF LaunchesFollow
<1>14. ScheduledIsLaunching'
  <2>1. SUFFICES ASSUME NEW n \in Live', exec'[n].st = "scheduled", opp'[Id(n)'].is \in Unsettled
                 PROVE  launching'[Id(n)'] > 0
    BY DEF ScheduledIsLaunching, Outcome, Now
  <2>2. n \in Live /\ exec'[n] = exec[n] /\ Id(n)' = Id(n) /\ opp'[Id(n)] = opp[Id(n)]
    BY <1>6, <2>1
  <2>3. launching[Id(n)] > 0
    BY <1>4, <2>1, <2>2 DEF ScheduledIsLaunching, Outcome, Now
  <2>4. QED
    BY <1>3, <2>2, <2>3 DEF Materialize
<1>15. ExecutionFits'
  <2>1. SUFFICES ASSUME NEW n \in Live', exec'[n].st \in Held
                 PROVE  Computes[exec'[n].by] = node'[n].action.input
    BY DEF ExecutionFits
  <2>2. n \in Live /\ IsKept(n) /\ exec'[n] = exec[n]
    BY <1>6, <2>1 DEF Held
  <2>3. QED
    BY <1>4, <1>7, <2>1, <2>2 DEF ExecutionFits
<1>16. QED
  BY <1>1, <1>8, <1>9, <1>10, <1>11, <1>12, <1>13, <1>14, <1>15 DEF RuntimeInv, RuntimeSafe

LEMMA ClearKeepsRuntimeInv ==
  ASSUME RuntimeInv, Clear
  PROVE  RuntimeInv'
<1>1. GraphInv' /\ Live' = {}
  BY ClearKeepsInv DEF Clear, ClearPlans, Live
<1>2. "none" \in ExecStates
  BY DEF ExecStates
<1>3. opp' \in [Identities -> Predictions] /\ \A i \in Identities : opp'[i].is # "pending"
  BY Types, UnobservedIs DEF Clear, Unobserved
<1>4. exec' \in [Address -> Executions] /\ seen' \in [Address -> Observations \cup {"unseen"}]
  BY <1>2, BareIs DEF Clear
<1>5. anchor' \in [Address -> 0..MaxDecision]
  BY RuntimeSetting DEF Clear
<1>6. TypeOK'
  BY <1>1, <1>3, <1>4, <1>5, Types DEF Clear, TypeOK, GraphInv, Predictions, Executions
<1>7. NoOrphan' /\ Issued'
  BY <1>3 DEF NoOrphan, Issued, Clear
<1>8. QED
  BY <1>1, <1>6, <1>7 DEF RuntimeInv, RuntimeSafe, ClaimsFollow, LaunchesFollow, ScheduledIsLaunching, ExecutionFits, Opened

LEMMA RuntimeStart == Init => RuntimeInv
<1> SUFFICES ASSUME Init PROVE RuntimeInv
  OBVIOUS
<1>1. GraphInv /\ Live = {}
  BY EmptyInv DEF Init, GraphInit, Live
<1>2. "none" \in ExecStates
  BY DEF ExecStates
<1>3. exec \in [Address -> Executions]
  BY <1>2, BareIs DEF Init
<1>4. opp \in [Identities -> Predictions]
  BY RuntimeSetting DEF Init, Predictions, Outcomes
<1>5. TypeOK
  <2>1. anchor \in [Address -> 0..MaxDecision] /\ decision \in 0..MaxDecision
    BY RuntimeSetting DEF Init
  <2>2. launching \in [Identities -> Nat] /\ seen \in [Address -> Observations \cup {"unseen"}]
    BY DEF Init
  <2>3. cand \in [Candidates -> CandidateStates] /\ untold = {} /\ late = {} /\ cleared \in BOOLEAN
    BY DEF Init, CandidateStates
  <2>4. QED
    BY <1>1, <1>3, <1>4, <2>1, <2>2, <2>3 DEF TypeOK, GraphInv, Predictions, Executions
<1>6. NoOrphan /\ Issued
  BY DEF Init, NoOrphan, Issued
<1>7. QED
  BY <1>1, <1>5, <1>6 DEF RuntimeInv, RuntimeSafe, ClaimsFollow, LaunchesFollow, ScheduledIsLaunching, ExecutionFits, Opened

LEMMA StepIsQuiet == RuntimeInv /\ Next => Update \/ Clear \/ Quiet
<1> SUFFICES ASSUME RuntimeInv, Next PROVE Update \/ Clear \/ Quiet
  OBVIOUS
<1>1. CASE Dispatch \/ Frontier
  BY <1>1, DispatchStep, FrontierStep
<1>2. CASE \E n \in Address : Bind(n) \/ Prepare(n) \/ Reject(n) \/ Claim(n)
  BY <1>2, BindStep, PrepareStep, RejectStep, ClaimStep
<1>3. CASE \E i \in Identities :
             \/ LaunchDefers(i) \/ LaunchFails(i) \/ LaunchEnds(i) \/ ActorSettles(i)
             \/ \E c \in Candidates : LaunchAttaches(i, c) \/ Complete(i, c)
             \/ \E how \in Matched : Confirm(i, how)
  BY <1>3, LaunchDefersStep, LaunchFailsStep, LaunchEndsStep, ActorSettlesStep, LaunchAttachesStep, CompleteStep, ConfirmStep
<1>4. CASE \E c \in Candidates :
             \/ \E rearm \in BOOLEAN : Evict(c, rearm)
             \/ \E result \in {"succeeded", "failed"} : CandidateSettles(c, result)
  BY <1>4, EvictStep, CandidateSettlesStep
<1>5. QED
  BY <1>1, <1>2, <1>3, <1>4 DEF Next

LEMMA RuntimeStep == RuntimeInv /\ [Next]_vars => RuntimeInv'
<1> SUFFICES ASSUME RuntimeInv, [Next]_vars PROVE RuntimeInv'
  OBVIOUS
<1>1. CASE Update
  BY <1>1, UpdateKeepsInv
<1>2. CASE Clear
  BY <1>2, ClearKeepsRuntimeInv
<1>3. CASE Quiet
  BY <1>3, QuietKeepsInv DEF Quiet
<1>4. CASE UNCHANGED vars
  <2>1. TypeOK' /\ OppMoves /\ ExecMoves
    BY <1>4, Types DEF vars, TypeOK, GraphTypeOK, OppMoves, ExecMoves
  <2>2. QED
    BY <1>4, <2>1, QuietKeepsInv DEF vars
<1>5. QED
  BY <1>1, <1>2, <1>3, <1>4, StepIsQuiet

\* A settled prediction stays as it was settled.
LEMMA SettledStays ==
  ASSUME RuntimeInv, [Next]_vars, NEW i \in Identities, opp[i].is \notin Unsettled \cup {"none"}
  PROVE  opp'[i] = opp[i]
<1>1. CASE Update
  <2>1. GraphInv' /\ ~cleared /\ \E p \in Plans : \E r : \E touched : Moved(p, r) /\ Materialize(touched)
    BY <1>1, Types, UpdateMoves
  <2>2. PICK p \in Plans : \E r : \E touched : Moved(p, r) /\ Materialize(touched)
    BY <2>1
  <2>3. PICK r, touched : Moved(p, r) /\ Materialize(touched)
    BY <2>2
  <2>4. QED
    BY <2>1, <2>3, MaterializeOpens DEF Unsettled
<1>2. CASE Clear
  BY <1>2 DEF Clear, Unobserved, Unsettled
<1>3. CASE Quiet
  BY <1>3 DEF Quiet, OppMoves, Unsettled
<1>4. CASE UNCHANGED vars
  BY <1>4 DEF vars
<1>5. QED
  BY <1>1, <1>2, <1>3, <1>4, StepIsQuiet

-----------------------------------------------------------------------------
\* apply() and clear() keep the inductive invariant, whatever the plans, the actions,
\* the offers and the number of revisions.
THEOREM GraphInvariance == GraphSpec => []GraphInv
<1>1. GraphInit => GraphInv
  BY EmptyInv DEF GraphInit
<1> QED BY <1>1, StepKeepsInv, PTL DEF GraphSpec

\* Every revision, node identity and dependency that apply() stores has its form.
THEOREM GraphTypeCorrect == GraphSpec => []GraphTypeOK
<1>1. GraphInv => GraphTypeOK
  BY DEF GraphInv
<1> QED BY <1>1, GraphInvariance, PTL

\* The assertion in commit(), `graph.ordered = dependencyOrder(...)!`, cannot fail:
\* the combined graph of all plans has a topological order after every update.
THEOREM GraphAcyclic == GraphSpec => []Acyclic
BY InvAcyclic, GraphInvariance, PTL

\* A node that apply() kept has the parents, with the identities, that its execution
\* context was created from.
THEOREM ContextKept == GraphSpec => []ContextStands
<1>1. GraphInv => ContextStands
  BY DEF GraphInv
<1> QED BY <1>1, GraphInvariance, PTL

\* What the run `engine` checks of the graph after every commit (apply, clear).
THEOREM PlansSafe == GraphSpec => []GraphSafe
  BY GraphTypeCorrect, GraphAcyclic, ContextKept, PTL DEF GraphSafe

\* The graph and the runtime over it keep the inductive invariant in every step of the plans'
\* updates, launches, candidates and claims (plan-runtime.ts, runtime-engine.ts).
THEOREM RuntimeInvariance == Spec => []RuntimeInv
  BY RuntimeStart, RuntimeStep, PTL DEF Spec

\* What the plan runs check in every state: no prediction outlives its node, a claim follows all
\* it presupposes at an earlier decision, a launch follows the adoptions it needs, a scheduled
\* node has a launch under way, an execution is of its node's input.
THEOREM RuntimeIsSafe == Spec => []RuntimeSafe
<1>1. RuntimeInv => RuntimeSafe
  BY DEF RuntimeInv
<1>2. QED
  BY <1>1, RuntimeInvariance, PTL

\* "Exactly-once owner of one source prediction's Actor-visible outcome": no step, of an update,
\* a late launch, a repeated turn end or the task's end, moves a prediction that was settled.
THEOREM SettledOnce == Spec => SettledForGood
<1>1. RuntimeInv /\ [Next]_vars =>
        [\A i \in Identities : opp[i].is \notin Unsettled \cup {"none"} => opp'[i] = opp[i]]_vars
  BY SettledStays
<1>2. QED
  BY <1>1, RuntimeInvariance, PTL DEF Spec, SettledForGood

\* Earlier decisions claim first: a claimed prediction's presupposed parents were claimed before it.
THEOREM ClaimsInOrder == Spec => []ClaimsFollow
<1>1. RuntimeSafe => ClaimsFollow
  BY DEF RuntimeSafe
<1>2. QED
  BY <1>1, RuntimeIsSafe, PTL

\* Work that needs an adoption has been launched only after it.
THEOREM LaunchesInOrder == Spec => []LaunchesFollow
<1>1. RuntimeSafe => LaunchesFollow
  BY DEF RuntimeSafe
<1>2. QED
  BY <1>1, RuntimeIsSafe, PTL
=============================================================================
