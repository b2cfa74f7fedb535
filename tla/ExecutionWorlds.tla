--------------------------- MODULE ExecutionWorlds ---------------------------
(***************************************************************************)
(* ToolExecutionGateway over ExecutionWorldRouter (execution-world.ts,     *)
(* tool-execution-gateway.ts): the one place where a tool runs, for the    *)
(* Actor or ahead of it.  Speculations select a world and fork it later,   *)
(* observations select a world and capture the Actor's baseline in it,     *)
(* and an authoritative call takes a reused result or runs its executor.   *)
(* A registered world answers for itself through its provider, asked anew  *)
(* at selection and at the fork; the answer of a provider is the           *)
(* fingerprint of what it runs on, 0 while it refuses.  The lifecycle lane *)
(* is modelled by what LifecycleLane promises: an operation admitted before*)
(* disposal is waited for, a later one is refused.                         *)
(*                                                                         *)
(* A request is known by the worlds that suit it (tool, checkpoint and     *)
(* capabilities) and, for a capture, those among them that cover it whole: *)
(* the others may only capture its inputs.                                 *)
(***************************************************************************)
EXTENDS Scheduling, FeedbackQueues

CONSTANTS
  Speculations, Observations, ActorCalls,  \* one call each
  RuntimeWorlds, FallbackWorlds,  \* the worlds of each scope, in the router's order
  Registered,         \* the worlds made by registerExecutionWorld
  MaxWorldChanges     \* bound: changes of a provider, a policy or an owner

Worlds == {RuntimeWorlds[i] : i \in DOMAIN RuntimeWorlds} \cup {FallbackWorlds[i] : i \in DOMAIN FallbackWorlds}
Order == RuntimeWorlds \o FallbackWorlds
WorldCalls == Speculations \cup Observations \cup ActorCalls
NoWorld == "none"

ASSUME WorldsSetting ==
  RuntimeWorlds \in Seq(Worlds) /\ FallbackWorlds \in Seq(Worlds) /\ NoWorld \notin Worlds

VARIABLES
  world,    \* world[w]: whether its owner retired it, the policy, the provider, its close
  lane,     \* "open", "sealed", "closed"
  worldCall, \* worldCall[c]: where the call c stands
  route,    \* route[c]: the route it holds, with the qualification remembered for it
  worldChanges

worldsVars == <<world, lane, worldCall, route, worldChanges>>

NoRoute == [world |-> NoWorld, print |-> 0]
Idle == [pc |-> "idle", at |-> 1, suits |-> {}, whole |-> {}, seen |-> {}]

WorldsInit ==
  /\ world = [w \in Worlds |-> [active |-> TRUE, enabled |-> TRUE, print |-> 1, closed |-> FALSE]]
  /\ lane = "open"
  /\ worldCall = [c \in WorldCalls |-> Idle]
  /\ route = [c \in WorldCalls |-> NoRoute]
  /\ worldChanges = 0

\* The operations the lane has admitted and waits for.
Underway == {"select", "verify", "prepare", "capture", "requalify", "running",
             "reuse", "execute"}
Inside == {c \in WorldCalls : worldCall[c].pc \in Underway}
\* The world a call is dealing with.
WorldAt(c) == IF route[c] # NoRoute THEN route[c].world ELSE Order[worldCall[c].at]

GoesOn(c, pc) == worldCall' = [worldCall EXCEPT ![c].pc = pc]
\* The call has its answer, and keeps nothing.
Finishes(c) ==
  /\ worldCall' = [worldCall EXCEPT ![c] = [Idle EXCEPT !.pc = "done"]]
  /\ route' = [route EXCEPT ![c] = NoRoute]
-----------------------------------------------------------------------------
(* Selection: select() over the worlds in order. *)

Enabled(c, w) == c \in Speculations => world[w].enabled

\* resolve() and captureAuthoritativeResult().
Request(c, suits, whole) ==
  /\ worldCall[c].pc = "idle" /\ c \notin ActorCalls
  /\ lane = "open"
  /\ worldCall' = [worldCall EXCEPT ![c] = [Idle EXCEPT !.pc = "select", !.suits = suits, !.whole = whole]]
  /\ UNCHANGED <<world, lane, route, worldChanges>>

\* The places in the order, from the call's on, of worlds it may use.
Usable(c) ==
  {i \in DOMAIN Order : i >= worldCall[c].at /\ Order[i] \in worldCall[c].suits /\ Enabled(c, Order[i])}

\* The next world that suits and may be used, or none is left.
Consider(c) ==
  /\ worldCall[c].pc = "select"
  /\ IF Usable(c) = {}
     THEN Finishes(c)
     ELSE LET next == CHOOSE i \in Usable(c) : \A j \in Usable(c) : i <= j IN
          /\ worldCall' = [worldCall EXCEPT ![c].pc = "verify", ![c].at = next, ![c].seen = {world[Order[next]].print}]
          /\ UNCHANGED route
  /\ UNCHANGED <<world, lane, worldChanges>>

\* A world that fails is skipped; what was captured in it has been disposed of.
Skipped(c) ==
  /\ worldCall' = [worldCall EXCEPT ![c].pc = "select", ![c].at = @ + 1, ![c].seen = {}]
  /\ route' = [route EXCEPT ![c] = NoRoute]

\* qualifyExecutionWorld(): what the provider answered at some moment since it was asked.
Qualifies(w, print) == w \in Registered => world[w].active /\ print # 0
Verify(c, print) ==
  /\ worldCall[c].pc = "verify" /\ print \in worldCall[c].seen
  /\ IF Qualifies(WorldAt(c), print)
     THEN /\ worldCall' = [worldCall EXCEPT ![c].pc = "prepare", ![c].seen = {print}]
          /\ UNCHANGED route
     ELSE Skipped(c)
  /\ UNCHANGED <<world, lane, worldChanges>>

\* fingerprint() and prepare() of the world, and the route that comes of it.
Prepare(c, fails) ==
  /\ worldCall[c].pc = "prepare"
  /\ LET w == WorldAt(c) IN
     IF fails
     THEN Skipped(c)
     ELSE /\ GoesOn(c, IF c \in Speculations THEN "routed" ELSE "capture")
          /\ route' = [route EXCEPT ![c] = [world |-> w, print |-> CHOOSE p \in worldCall[c].seen : TRUE]]
  /\ UNCHANGED <<world, lane, worldChanges>>

\* capture() of the world: a request it does not cover whole gets its inputs, or nothing.
Capture(c, outcome) ==
  /\ worldCall[c].pc = "capture"
  /\ IF outcome = "failed" \/ (outcome = "result" /\ WorldAt(c) \notin worldCall[c].whole)
     THEN Skipped(c)
     ELSE Finishes(c)
  /\ UNCHANGED <<world, lane, worldChanges>>
-----------------------------------------------------------------------------
(* Speculative execution: fork() of a route. *)

\* The policy and the lane are asked as the fork begins.
Forks(c) == world[route[c].world].enabled /\ lane = "open"

Fork(c) ==
  /\ worldCall[c].pc = "routed"
  /\ IF Forks(c)
     THEN /\ worldCall' = [worldCall EXCEPT ![c].pc = "requalify", ![c].seen = {world[route[c].world].print}]
          /\ UNCHANGED route
     ELSE Finishes(c)
  /\ UNCHANGED <<world, lane, worldChanges>>

\* The provider must answer what it answered when the route was selected.
StillQualifies(c, print) ==
  /\ Qualifies(route[c].world, print)
  /\ route[c].world \in Registered => print = route[c].print

Requalify(c, print) ==
  /\ worldCall[c].pc = "requalify" /\ print \in worldCall[c].seen
  /\ IF StillQualifies(c, print)
     THEN GoesOn(c, "running") /\ UNCHANGED route
     ELSE Finishes(c)
  /\ UNCHANGED <<world, lane, worldChanges>>

Executed(c) ==
  /\ worldCall[c].pc = "running"
  /\ Finishes(c)
  /\ UNCHANGED <<world, lane, worldChanges>>
-----------------------------------------------------------------------------
(* Authoritative execution: executeAuthoritative(). *)

Ask(c) ==
  /\ c \in ActorCalls /\ worldCall[c].pc = "idle"
  /\ lane = "open"
  /\ worldCall' = [worldCall EXCEPT ![c] = [Idle EXCEPT !.pc = "reuse"]]
  /\ UNCHANGED <<world, lane, route, worldChanges>>

\* The reuse hook: a result and an adopted failure are the Actor's answer, a poisoned
\* commit may have changed the host, anything else leaves the call to its executor.
Final == {"result", "failure", "poisoned"}

Reuse(c, outcome) ==
  /\ worldCall[c].pc = "reuse"
  /\ IF outcome \in Final THEN Finishes(c) ELSE GoesOn(c, "execute") /\ UNCHANGED route
  /\ UNCHANGED <<world, lane, worldChanges>>

\* observeOperations(): the worlds that observe wrap the executor; one that does not
\* qualify is left out, and what it was to wrap is called all the same.  The settled hook
\* follows; its failure is not the Actor's.
Execute(c) ==
  /\ worldCall[c].pc = "execute"
  /\ Finishes(c)
  /\ UNCHANGED <<world, lane, worldChanges>>
-----------------------------------------------------------------------------
(* The owners of the worlds, and disposal. *)

Sees(w, print) ==
  [c \in WorldCalls |-> IF worldCall[c].pc \in {"verify", "requalify"} /\ WorldAt(c) = w
                   THEN [worldCall[c] EXCEPT !.seen = @ \cup {print}] ELSE worldCall[c]]

\* A provider is replaced, fails or recovers.
ProviderChanges(w, print) ==
  /\ worldChanges < MaxWorldChanges /\ print # world[w].print
  /\ world' = [world EXCEPT ![w].print = print]
  /\ worldCall' = Sees(w, print)
  /\ worldChanges' = worldChanges + 1
  /\ UNCHANGED <<lane, route>>

\* The user turns pre-execution in this world on or off.
PolicyChanges(w) ==
  /\ worldChanges < MaxWorldChanges
  /\ world' = [world EXCEPT ![w].enabled = ~@]
  /\ worldChanges' = worldChanges + 1
  /\ UNCHANGED <<lane, worldCall, route>>

\* dispose() of the registered world, by its owner.
RetireWorld(w) ==
  /\ w \in Registered /\ worldChanges < MaxWorldChanges /\ world[w].active
  /\ world' = [world EXCEPT ![w].active = FALSE]
  /\ worldChanges' = worldChanges + 1
  /\ UNCHANGED <<lane, worldCall, route>>

Dispose ==
  /\ lane = "open"
  /\ lane' = "sealed"
  /\ UNCHANGED <<world, worldCall, route, worldChanges>>

\* Every world is closed, whatever becomes of the others' close.
CloseWorlds ==
  /\ lane = "sealed" /\ Inside = {}
  /\ lane' = "closed"
  /\ world' = [w \in Worlds |-> [world[w] EXCEPT !.active = FALSE, !.closed = TRUE]]
  /\ UNCHANGED <<worldCall, route, worldChanges>>

WorldsNext ==
  \/ \E c \in Speculations \cup Observations, suits \in SUBSET Worlds :
       \E whole \in IF c \in Observations THEN SUBSET suits ELSE {suits} : Request(c, suits, whole)
  \/ \E c \in WorldCalls : Consider(c) \/ Fork(c) \/ Executed(c) \/ Ask(c) \/ Execute(c)
  \/ \E c \in WorldCalls, print \in 0..2 : Verify(c, print) \/ Requalify(c, print)
  \/ \E c \in WorldCalls, fails \in BOOLEAN : Prepare(c, fails)
  \/ \E c \in WorldCalls, outcome \in {"result", "inputs", "failed"} : Capture(c, outcome)
  \/ \E c \in WorldCalls, outcome \in Final \cup {"nothing", "error"} : Reuse(c, outcome)
  \/ \E w \in Worlds, print \in 0..2 : ProviderChanges(w, print)
  \/ \E w \in Worlds : PolicyChanges(w) \/ RetireWorld(w)
  \/ Dispose \/ CloseWorlds

WorldsSpec == WorldsInit /\ [][WorldsNext]_worldsVars
-----------------------------------------------------------------------------
(* Properties. *)

\* Nothing runs, prepares or captures in a world the router has closed: disposal waits for
\* every operation it admitted and none begins behind it, though a route selected before
\* may be forked at any time.
NothingInAClosedWorld ==
  \A c \in WorldCalls : worldCall[c].pc \in {"prepare", "capture", "requalify", "running"} => ~world[WorldAt(c)].closed

\* A speculation runs on what its route was selected for: since the fork began the provider
\* of its world has given the very fingerprint remembered with the route, however often it
\* was replaced or failed in between (fork).
RunsWhatWasSelected ==
  \A c \in Speculations : worldCall[c].pc = "running" =>
    (route[c].world \in Registered => route[c].print \in worldCall[c].seen /\ route[c].print # 0)

\* What is ready to run is not forgotten (the scheduler), it runs in a world that is open and what
\* it was selected for (the gateway), and what came of it is told as it was, in order and without
\* loss (the queues behind the settlement): the three stages between a plan and its source.
DispatchSafe ==
  /\ NothingForgotten
  /\ NothingInAClosedWorld /\ RunsWhatWasSelected
  /\ LearnsTruth /\ ToldInOrder /\ LearningLossless
=============================================================================
