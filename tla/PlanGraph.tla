------------------------------ MODULE PlanGraph ------------------------------
(***************************************************************************)
(* The dependency graph of a session's plans (src/plan-runtime.ts, apply   *)
(* and commit; src/dependency-order.ts).  A plan holds actions; an update  *)
(* replaces the plan (a proposal) or some of its actions (a delta).  A     *)
(* node is one action with one execution context: it keeps its identity    *)
(* while nothing it depends on in its plan changes, and is replaced by a   *)
(* node of a new identity otherwise.  An edge into another plan pins the   *)
(* identity of its parent, an edge inside a plan names the action only.    *)
(*                                                                         *)
(* What an action does is abstracted to its Input.  An update that the     *)
(* code rejects changes nothing and is no action.                          *)
(***************************************************************************)
EXTENDS Integers, FiniteSets

CONSTANTS
  Plans,        \* proposal ids
  Actions,      \* action ids
  Inputs,       \* all that samePlanActionExecution compares besides the dependencies
  Offers,       \* the actions a source may put into an update
  MaxRevision,  \* bound on the revisions of a plan
  None

Conditions == {"settled", "succeeded", "adopted", "prediction"}
Needs == [plan : Plans, action : Actions, when : Conditions]
Address == Plans \X Actions

ASSUME GraphSetting ==
  /\ MaxRevision \in Nat
  /\ Offers \subseteq [plan : Plans, action : Actions, input : Inputs, horizon : Nat, needs : SUBSET Needs]

\* `born` is the revision a cross-plan edge pins, Own for an edge inside the plan.
Own == 0
Dependency == [plan : Plans, action : Actions, born : Nat, when : Conditions]
Definition == [input : Inputs, horizon : Nat, deps : SUBSET Dependency]
\* A node: its definition, the revision that is part of its identity, and (history)
\* the number of the update that created it.
Node == [action : Definition, born : Nat, since : Nat]

ASSUME NoneIsNoNode == None \notin Node

VARIABLES
  revision,   \* revision[p]: the revision of plan p, 0 before its first proposal
  node,       \* node[n]: what is materialized at address n
  commits     \* history: accepted updates

graphVars == <<revision, node, commits>>

GraphTypeOK ==
  /\ revision \in [Plans -> 0..MaxRevision]
  /\ node \in [Address -> Node \cup {None}]
  /\ commits \in Nat

Live == {n \in Address : node[n] # None}
At(d) == <<d.plan, d.action>>

\* Mutant: an edge leads to whatever holds the address.
ResolvesByAddress(d) == node[At(d)] # None
\* `parent()`: the node an edge leads to, if the edge still leads anywhere.
Resolves(d) == node[At(d)] # None /\ d.born \in {Own, node[At(d)].born}
Parents(n) == {At(d) : d \in {e \in node[n].action.deps : Resolves(e)}}

-----------------------------------------------------------------------------
(* Updates *)

\* One action per id, in the order of no consequence.
Batches(p) ==
  {B \in SUBSET {o \in Offers : o.plan = p} : \A o1, o2 \in B : o1.action = o2.action => o1 = o2}
Touched(B) == {o.action : o \in B}
Pin(p, d) == [plan |-> d.plan, action |-> d.action, when |-> d.when,
              born |-> IF d.plan = p THEN Own ELSE node[At(d)].born]
Defined(B, a) ==
  LET o == CHOOSE o \in B : o.action = a
  IN [input |-> o.input, horizon |-> o.horizon, deps |-> {Pin(o.plan, d) : d \in o.needs}]
\* A source can pin only what it was shown; a pin that is stale on arrival is rejected.
Pinnable(B) == \A o \in B : \A d \in o.needs : d.plan = o.plan \/ node[At(d)] # None

Had(p, a) == node[<<p, a>>] # None
Same(def1, def2) == def1.input = def2.input /\ def1.deps = def2.deps

\* dependencyOrder accepts: no vertex is missing and there is no cycle.
Ordered(p, acts) ==
  /\ \A a \in DOMAIN acts : \A d \in acts[a].deps :
       IF d.plan = p THEN d.action \in DOMAIN acts ELSE Resolves(d)
  /\ \A S \in SUBSET DOMAIN acts : S # {} =>
       \E a \in S : \A d \in acts[a].deps : d.plan = p => d.action \notin S

\* A changed ancestor changes the child's execution context as well.
IsReplaced(p, acts, touched, R) ==
  R = {a \in DOMAIN acts : /\ Had(p, a)
                           /\ \/ a \in touched /\ ~Same(node[<<p, a>>].action, acts[a])
                              \/ \E d \in acts[a].deps : d.plan = p /\ d.action \in R}

Install(p, r, acts, kept) ==
  node' = [n \in Address |->
    IF n[1] # p THEN node[n]
    ELSE IF n[2] \notin DOMAIN acts THEN None
    ELSE IF n[2] \in kept THEN [node[n] EXCEPT !.action = acts[n[2]]]
    ELSE [action |-> acts[n[2]], born |-> r, since |-> commits + 1]]

Commit(p, r, acts, touched) ==
  /\ Ordered(p, acts)
  /\ \E R \in SUBSET DOMAIN acts :
       /\ IsReplaced(p, acts, touched, R)
       /\ Install(p, r, acts, {a \in DOMAIN acts : Had(p, a)} \ R)
  /\ revision' = [revision EXCEPT ![p] = r]
  /\ commits' = commits + 1

\* retainDescendants: nodes of the current plan that follow from unchanged ones.
IsRetained(p, B, K) ==
  K = {a \in Actions :
        /\ Had(p, a)
        /\ LET deps == node[<<p, a>>].action.deps
           IN /\ \A d \in deps : IF d.plan = p THEN d.action \in K ELSE Resolves(d)
              /\ IF a \in Touched(B) THEN Same(node[<<p, a>>].action, Defined(B, a))
                 ELSE \E d \in deps : d.plan = p}

\* A proposal replaces the plan.
Propose(p, r, B, retain) ==
  /\ r > revision[p] /\ Pinnable(B)
  /\ \E K \in SUBSET Actions :
       /\ IF retain THEN IsRetained(p, B, K) ELSE K = {}
       /\ Commit(p, r, [a \in Touched(B) \cup K |-> IF a \in Touched(B) THEN Defined(B, a) ELSE node[<<p, a>>].action], Touched(B))

\* A delta removes some actions of an existing plan, then adds or changes others.
Amend(p, r, B, remove) ==
  /\ 0 < revision[p] /\ r > revision[p] /\ Pinnable(B)
  /\ Commit(p, r, [a \in ({x \in Actions : Had(p, x)} \ remove) \cup Touched(B) |->
                     IF a \in Touched(B) THEN Defined(B, a) ELSE node[<<p, a>>].action], Touched(B))

\* plans.clear(), when the session's task ends; the history restarts with it.
ClearPlans ==
  /\ revision' = [p \in Plans |-> 0]
  /\ node' = [n \in Address |-> None]
  /\ commits' = 0

-----------------------------------------------------------------------------
GraphInit ==
  /\ revision = [p \in Plans |-> 0]
  /\ node = [n \in Address |-> None]
  /\ commits = 0

GraphNext ==
  \/ \E p \in Plans : \E r \in 1..MaxRevision : \E B \in Batches(p) :
       \/ \E retain \in BOOLEAN : Propose(p, r, B, retain)
       \/ \E remove \in SUBSET Actions : Amend(p, r, B, remove)
  \/ ClearPlans

GraphSpec == GraphInit /\ [][GraphNext]_graphVars

-----------------------------------------------------------------------------
(* Properties *)

\* The combined graph of all plans has a topological order: in every set of
\* nodes some node has no parent among them.  commit() relies on it without a
\* check (`graph.ordered = dependencyOrder(...)!`); the order inside each plan is
\* all that apply() has verified.
Acyclic ==
  \A S \in SUBSET Live : S # {} => \E n \in S : Parents(n) \cap S = {}

\* A node is no older than any of its parents: the execution context a node was
\* created in is the one it still has, whatever was updated since.
ContextStands == \A n \in Live : \A m \in Parents(n) : node[m].since <= node[n].since

\* What holds of the graph after every commit (PlanGraph): its types, no cycle of needs, and a
\* context under every node.
GraphSafe == GraphTypeOK /\ Acyclic /\ ContextStands
=============================================================================
