--------------------------- MODULE SourceRequests ---------------------------
(***************************************************************************)
(* How the runtime asks a prediction source for plans, and what it does    *)
(* with a late answer (src/runtime-engine.ts, src/source-request.ts).      *)
(*                                                                         *)
(* A request holds a slot: admission capacity for one source and one       *)
(* decision, with a generation whose expiry withdraws the request's        *)
(* authority.  The slot outlives its request while actions it issued are   *)
(* in the plan.  What the producer does after its request has settled goes *)
(* on, counted among the session's source tasks.  One source is modelled.  *)
(***************************************************************************)
EXTENDS Naturals, FiniteSets

CONSTANTS
  Turns,        \* turns in the order they start
  Slots,        \* slots in the order they are claimed (bound)
  PlanActions,  \* plan actions in the order they are issued (bound)
  MaxAlternatives  \* proposalCount: the alternatives one decision may have

\* Turns, slots and actions are numbered from 1; the slots are finitely many.
ASSUME SourceSetting ==
  /\ Turns \subseteq Nat \ {0} /\ Slots \subseteq Nat \ {0} /\ PlanActions \subseteq Nat \ {0}
  /\ IsFiniteSet(Slots) /\ MaxAlternatives \in Nat

VARIABLES
  sourceSession,  \* [stage, enabled, decision]; stage: "open", "draining", "closed"
  sourceTurn,     \* sourceTurn[t]: [stage, seq]; stage: "none", "waiting", "launched", "arrived", "finished"
  slot,           \* slot[s]: [held, kind, turn, target, proposal, reason, pending, owners]
  request,        \* request[s]: "none", "producing", "produced", "admitting", "binding", "done"
  physical,       \* slots whose producer is still running
  planAction      \* planAction[a]: [stage, slot, aborted]; stage: "none", "raw", "bound", "gone"

sourceVars == <<sourceSession, sourceTurn, slot, request, physical, planAction>>

FreeSlot == [held |-> FALSE, kind |-> "none", turn |-> 0, target |-> 0, proposal |-> 0,
             reason |-> "none", pending |-> 0, owners |-> {}]

SourceInit ==
  /\ sourceSession = [stage |-> "open", enabled |-> TRUE, decision |-> 0]
  /\ sourceTurn = [t \in Turns |-> [stage |-> "none", seq |-> 0]]
  /\ slot = [s \in Slots |-> FreeSlot] /\ request = [s \in Slots |-> "none"] /\ physical = {}
  /\ planAction = [a \in PlanActions |-> [stage |-> "none", slot |-> 0, aborted |-> FALSE]]

Held == {s \in Slots : slot[s].held}
Active(s) == slot[s].reason = "none"
InPlan == {a \in PlanActions : planAction[a].stage \in {"raw", "bound"}}
Open == sourceSession.stage = "open"
-----------------------------------------------------------------------------
(* Slots *)

\* The alternatives of one decision: the branches of one proposal share theirs.
Alternatives(target) == {slot[s].proposal : s \in {q \in Held : slot[q].target = target}}

Unclaimed == {s \in Slots : request[s] = "none"}

Claimed(s, kind, t, target, proposal) ==
  [held |-> TRUE, kind |-> kind, turn |-> t, target |-> target, proposal |-> proposal,
   reason |-> "none", pending |-> 1, owners |-> {}]

\* Ending a generation aborts the admission of what it issued, except of an action
\* already bound when the Actor arrived or the turn finished.
Survives(reason) == reason \in {"arrived", "turn_finished"}
Aborted(ended) == [a \in PlanActions |->
  IF /\ planAction[a].slot \in DOMAIN ended
     /\ planAction[a].stage = "raw" \/ (planAction[a].stage = "bound" /\ ~Survives(ended[planAction[a].slot]))
    THEN [planAction[a] EXCEPT !.aborted = TRUE] ELSE planAction[a]]

\* Only a generation that is active expires, once.
Expiring(S, reason) == [s \in {q \in S : Active(q)} |-> reason]

\* releaseSourceSlot for every held slot of S.
Released(S, reason) ==
  [s \in Slots |-> IF s \in S /\ slot[s].held
     THEN [slot[s] EXCEPT !.held = FALSE, !.reason = IF @ = "none" THEN reason ELSE @] ELSE slot[s]]
Release(S, reason) == slot' = Released(S, reason) /\ planAction' = Aborted(Expiring(S \cap Held, reason))

\* releaseUnusedSourceSlot: a slot nobody uses any more.
Swept(v) ==
  IF v.held /\ v.pending = 0 /\ v.owners = {} THEN [v EXCEPT !.held = FALSE, !.reason = IF @ = "none" THEN "unused" ELSE @] ELSE v
-----------------------------------------------------------------------------
(* Turns and requests *)

StartTurn(t) ==
  /\ Open /\ sourceTurn[t].stage = "none" /\ \A u \in Turns : u < t => sourceTurn[u].stage # "none"
  /\ \A u \in Turns : sourceTurn[u].stage \in {"none", "finished"}
  /\ sourceTurn' = [sourceTurn EXCEPT ![t] = [stage |-> "waiting", seq |-> sourceSession.decision + 1]]
  /\ UNCHANGED <<sourceSession, slot, request, physical, planAction>>

\* launchSourceRequests, on the timer of the turn's start: as many alternatives as are free.
Launch(t) ==
  LET target == sourceTurn[t].seq
      room == MaxAlternatives - Cardinality(Alternatives(target))
  IN /\ sourceTurn[t].stage = "waiting" /\ sourceSession.enabled
     /\ \E S \in SUBSET Unclaimed :
          /\ Cardinality(S) = IF room > Cardinality(Unclaimed) THEN Cardinality(Unclaimed) ELSE room
          /\ \A s \in S, q \in Unclaimed \ S : s < q
          /\ slot' = [s \in Slots |-> IF s \in S THEN Claimed(s, "proposal", t, target, s) ELSE slot[s]]
          /\ request' = [s \in Slots |-> IF s \in S THEN "producing" ELSE request[s]]
          /\ physical' = physical \cup S
     /\ sourceTurn' = [sourceTurn EXCEPT ![t].stage = "launched"]
     /\ UNCHANGED <<sourceSession, planAction>>

\* requestContinuation: the parent is still in the plan and the decision still ahead.
Continue(a) ==
  LET parent == slot[planAction[a].slot]  target == parent.target + 1
  IN /\ Open /\ sourceSession.enabled /\ planAction[a].stage = "bound" /\ target > sourceSession.decision
     /\ target <= Cardinality(Turns) + 1
     /\ (parent.proposal \in Alternatives(target) \/ Cardinality(Alternatives(target)) < MaxAlternatives)
     /\ \E s \in Unclaimed :
          /\ \A q \in Unclaimed : s <= q
          /\ slot' = [slot EXCEPT ![s] = Claimed(s, "continuation", parent.turn, target, parent.proposal)]
          /\ request' = [request EXCEPT ![s] = "producing"] /\ physical' = physical \cup {s}
     /\ UNCHANGED <<sourceSession, sourceTurn, planAction>>

\* The producer ends: its request may have settled long before.
Produce(s) ==
  /\ s \in physical /\ physical' = physical \ {s}
  /\ request' = [request EXCEPT ![s] = IF @ = "producing" /\ Active(s) THEN "produced" ELSE @]
  /\ UNCHANGED <<sourceSession, sourceTurn, slot, planAction>>

\* finally: releaseSourceRequest.
Finished(s) ==
  /\ request' = [request EXCEPT ![s] = "done"]
  /\ slot' = [slot EXCEPT ![s] = Swept([@ EXCEPT !.pending = 0])]

\* An empty answer, an error, the deadline, or an expired generation: nothing is admitted.
SettleRequest(s) ==
  /\ \/ request[s] = "producing"
     \/ request[s] = "produced"
  /\ Finished(s) /\ UNCHANGED <<sourceSession, sourceTurn, physical, planAction>>

Admissible(s) == slot[s].held /\ Active(s) /\ Open /\ sourceSession.enabled

\* admitUpdates captures the batch; it is applied one task later.
Admit(s) ==
  /\ request[s] = "produced" /\ Admissible(s)
  /\ request' = [request EXCEPT ![s] = "admitting"]
  /\ UNCHANGED <<sourceSession, sourceTurn, slot, physical, planAction>>

\* Mutant: what was captured is applied as it was.
ApplicableCaptured(s) == request[s] = "admitting"
Applicable(s) == request[s] = "admitting" /\ Open /\ Active(s)

\* applyUpdate: the action enters the plan, owned by its slot.
Apply(s) ==
  /\ Applicable(s)
  /\ \E a \in PlanActions :
       /\ planAction[a].stage = "none" /\ \A b \in PlanActions : b < a => planAction[b].stage # "none"
       /\ planAction' = [planAction EXCEPT ![a] = [stage |-> "raw", slot |-> s, aborted |-> FALSE]]
       /\ slot' = [slot EXCEPT ![s].owners = @ \cup {a}]
  /\ request' = [request EXCEPT ![s] = "binding"]
  /\ UNCHANGED <<sourceSession, sourceTurn, physical>>

\* The batch holds nothing more, or its generation ended before it was applied.
Applied(s) ==
  /\ request[s] = "admitting" \/ (request[s] = "binding" /\ \A a \in slot[s].owners : planAction[a].stage # "raw")
  /\ Finished(s) /\ UNCHANGED <<sourceSession, sourceTurn, physical, planAction>>

\* Mutant: the first alternative bound leaves the others running.
CompetingNone(s) == {}
\* cancelCompetingProposals, for the source whose first bound proposal wins.
Competing(s) ==
  IF slot[s].held /\ slot[s].kind = "proposal"
    THEN {q \in Held : q # s /\ slot[q].kind = "proposal" /\ slot[q].target = slot[s].target} ELSE {}

\* materializeAction: keying is asynchronous; an admission aborted meanwhile fails.
Bind(a) ==
  LET s == planAction[a].slot
  IN /\ planAction[a].stage = "raw" /\ ~planAction[a].aborted
     /\ slot' = Released(Competing(s), "lost")
     /\ planAction' = [Aborted(Expiring(Competing(s), "lost")) EXCEPT ![a].stage = "bound"]
     /\ UNCHANGED <<sourceSession, sourceTurn, request, physical>>

\* releaseActionContext: a continuation's parent that was not adopted takes its slots with it.
Descend(a) == {s \in Held : slot[s].kind = "continuation" /\ slot[s].proposal = slot[planAction[a].slot].proposal}
Retire(a) ==
  /\ planAction[a].stage \in {"raw", "bound"}
  /\ \E kept \in BOOLEAN :
       LET freed == IF kept THEN slot ELSE Released(Descend(a) \ {planAction[a].slot}, "parent")
           s == planAction[a].slot
       IN /\ slot' = [freed EXCEPT ![s] = Swept([@ EXCEPT !.owners = freed[s].owners \ {a}])]
          /\ planAction' = [(IF kept THEN planAction ELSE Aborted(Expiring(Descend(a) \ {s}, "parent"))) EXCEPT ![a].stage = "gone"]
  /\ UNCHANGED <<sourceSession, sourceTurn, request, physical>>

\* An Actor call arrives: the requests for its decision have lost their target.
ArriveTurn(t) ==
  /\ sourceTurn[t].stage \in {"waiting", "launched"}
  /\ sourceTurn' = [sourceTurn EXCEPT ![t].stage = "arrived"]
  /\ sourceSession' = [sourceSession EXCEPT !.decision = IF sourceTurn[t].seq > @ THEN sourceTurn[t].seq ELSE @]
  /\ Release({s \in Held : slot[s].target <= sourceTurn[t].seq}, "arrived")
  /\ UNCHANGED <<request, physical>>

\* closeTurn: its generation is the parent of its proposals'; their slots stay with their actions.
OwnSlots(t) == {s \in Slots : slot[s].turn = t /\ slot[s].kind = "proposal" /\ Active(s)}
Finish(t) ==
  LET ended == Aborted(Expiring(OwnSlots(t), "turn_finished"))
      dead == {a \in InPlan : ended[a].stage = "raw" /\ ended[a].aborted}
  IN /\ Open /\ sourceTurn[t].stage \in {"waiting", "launched", "arrived"}
     /\ sourceTurn' = [sourceTurn EXCEPT ![t].stage = "finished"]
     /\ slot' = [s \in Slots |->
          Swept([slot[s] EXCEPT !.reason = IF s \in OwnSlots(t) THEN "turn_finished" ELSE @, !.owners = @ \ dead])]
     /\ planAction' = [a \in PlanActions |-> IF a \in dead THEN [ended[a] EXCEPT !.stage = "gone"] ELSE ended[a]]
     /\ UNCHANGED <<sourceSession, request, physical>>

\* applySettings: a source that is disabled loses its slots, and its actions but those
\* whose work has been produced.
Disable ==
  /\ Open /\ sourceSession.enabled
  /\ sourceSession' = [sourceSession EXCEPT !.enabled = FALSE]
  /\ \E kept \in SUBSET {a \in InPlan : planAction[a].stage = "bound"} :
       LET ended == Aborted(Expiring(Held, "disabled"))
       IN /\ planAction' = [a \in PlanActions |-> IF a \in InPlan \ kept THEN [ended[a] EXCEPT !.stage = "gone"] ELSE ended[a]]
          /\ slot' = [s \in Slots |-> [Released(Held, "disabled")[s] EXCEPT !.owners = @ \cap kept]]
  /\ UNCHANGED <<sourceTurn, request, physical>>

\* closeSessionState, sealed by the lifecycle lane: every slot is released, the plan cleared.
CloseSession ==
  /\ Open /\ sourceSession' = [sourceSession EXCEPT !.stage = "draining"]
  /\ sourceTurn' = [t \in Turns |-> [sourceTurn[t] EXCEPT !.stage = "finished"]]
  /\ slot' = [s \in Slots |-> [Released(Held, "disposed")[s] EXCEPT !.owners = {}, !.reason = IF @ = "none" THEN "disposed" ELSE @]]
  /\ planAction' = [a \in PlanActions |-> [planAction[a] EXCEPT !.stage = IF @ = "none" THEN @ ELSE "gone"]]
  /\ UNCHANGED <<request, physical>>

Quiet == physical = {} /\ \A s \in Slots : request[s] \in {"none", "done"}

\* sourceTasks.drain.
Closed ==
  /\ sourceSession.stage = "draining" /\ Quiet
  /\ sourceSession' = [sourceSession EXCEPT !.stage = "closed"]
  /\ UNCHANGED <<sourceTurn, slot, request, physical, planAction>>

SourceNext ==
  \/ \E t \in Turns : StartTurn(t) \/ Launch(t) \/ ArriveTurn(t) \/ Finish(t)
  \/ \E s \in Slots : Produce(s) \/ SettleRequest(s) \/ Admit(s) \/ Apply(s) \/ Applied(s)
  \/ \E a \in PlanActions : Continue(a) \/ Bind(a) \/ Retire(a)
  \/ Disable \/ CloseSession \/ Closed

SourceSpec == SourceInit /\ [][SourceNext]_sourceVars
-----------------------------------------------------------------------------
\* A request that lost its authority changes nothing: an action enters the plan only while
\* its slot is held, its generation active, its source enabled and its session open,
\* whatever happened between the answer, its capture and its application.
NothingLateStep ==
  \A a \in PlanActions : planAction[a].stage = "none" /\ planAction'[a].stage # "none" =>
    LET s == planAction'[a].slot IN slot[s].held /\ Active(s) /\ Open /\ sourceSession.enabled
NothingLate == [][NothingLateStep]_sourceVars

\* Of the alternatives a turn asked for one wins: the actions bound by different proposals of
\* it are never together in the plan with their admission alive.  (A proposal whose turn has
\* finished is past cancelling: its generation has ended, its bound actions stay.)
OneWinner ==
  \A a, b \in InPlan :
    LET s == planAction[a].slot  q == planAction[b].slot
    IN planAction[a].stage = "bound" /\ planAction[b].stage = "bound" /\ ~planAction[a].aborted /\ ~planAction[b].aborted
       /\ slot[s].kind = "proposal" /\ slot[q].kind = "proposal" /\ slot[s].turn = slot[q].turn => s = q

\* Admission capacity comes back: a slot is held by a pending request or by an action in
\* the plan, and the alternatives of a decision stay within the source's limit.
CapacityReturns ==
  /\ \A s \in Held : slot[s].pending > 0 \/ (slot[s].owners # {} /\ slot[s].owners \subseteq InPlan)
  /\ \A s \in Held : Cardinality(Alternatives(slot[s].target)) <= MaxAlternatives

\* A session that is closed has nothing running: no producer, no request, no action.
ClosedIsQuiet ==
  sourceSession.stage = "closed" => physical = {} /\ Held = {} /\ InPlan = {} /\ \A s \in Slots : request[s] \in {"none", "done"}

\* SourceRequests: of the alternatives a turn asked for one wins, admission capacity comes back,
\* and a closed session has nothing running.
SourcesSafe == OneWinner /\ CapacityReturns /\ ClosedIsQuiet
=============================================================================
