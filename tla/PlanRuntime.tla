----------------------------- MODULE PlanRuntime -----------------------------
(***************************************************************************)
(* What becomes of the nodes of PlanGraph: each is bound to an action key, *)
(* prepared, launched once its dependencies allow it, attached to a        *)
(* candidate, and settled by what the Actor does (src/plan-runtime.ts; its *)
(* callers in src/runtime-engine.ts).  A launch, a candidate and an Actor  *)
(* call outlive the step that began them: meanwhile an update may replace  *)
(* the node, the candidate may be evicted and the node launched again.     *)
(*                                                                         *)
(* Not modelled: operations, resource edges, the session's source requests *)
(* and candidate demand, forecasts.  Which candidate joins or is evicted   *)
(* is ActorAdoption's matter; here it may happen at any time.              *)
(***************************************************************************)
EXTENDS PlanGraph, FiniteSetsExt

CONSTANTS
  Candidates,
  Computes,      \* Computes[c]: the input candidate c is an execution of
  NoCandidate,
  Observations,  \* as forecast by the dependents or not; none without an observationKey
  MaxDecision    \* bound on the Actor's decisions

ASSUME RuntimeSetting ==
  /\ IsFiniteSet(Plans) /\ IsFiniteSet(Actions)
  /\ Computes \in [Candidates -> Inputs]
  /\ NoCandidate \notin Candidates
  /\ Observations \subseteq {"expected", "other"}
  /\ MaxDecision \in Nat

VARIABLES
  anchor,      \* anchor[n]: the decision the node's window is counted from
  exec,        \* exec[n]: `node.execution`, its status and candidate
  seen,        \* seen[n]: its observation, as forecast by its dependents or other
  opp,         \* opp[i]: the prediction of identity i and the decision that claimed it
  launching,   \* launching[i]: how many launches of identity i have not finished
  untold,      \* confirmed identities whose call has not reported its result yet
  late,        \* <<i, c>>: the completion of c has yet to call back the attachment of i
  cand,        \* cand[c]: the execution of c
  decision,    \* `session.decisionSequence`
  cleared      \* the plans were cleared

runtimeVars == <<anchor, exec, seen, opp, launching, late, untold, cand, decision, cleared>>
vars == <<revision, node, commits, anchor, exec, seen, opp, launching, late, untold, cand, decision, cleared>>

Identities == Address \X (1..MaxRevision)
Id(n) == <<n, node[n].born>>
LiveId(i) == node[i[1]] # None /\ Id(i[1]) = i

\* Without an action key, then with one.
Unstarted == {"unbound", "preparing", "deferred"}
ExecStates == Unstarted \cup {"none", "scheduled", "blocked", "failed", "attached", "done"}
Held == {"attached", "done"}
CandidateStates == {"absent", "active", "succeeded", "dropped", "failed", "cancelled"}
Unsettled == {"pending", "matching"}
Observed == IF Observations = {} THEN {"unseen"} ELSE Observations
Matched == {"adopted", "rejected"}
Outcomes == Unsettled \cup Matched \cup {"none", "missed", "unobserved"}

TypeOK ==
  /\ GraphTypeOK
  /\ anchor \in [Address -> 0..MaxDecision]
  /\ exec \in [Address -> [st : ExecStates, by : Candidates \cup {NoCandidate}]]
  /\ seen \in [Address -> Observations \cup {"unseen"}]
  /\ opp \in [Identities -> [is : Outcomes, at : 0..(MaxDecision + 1)]]
  /\ launching \in [Identities -> Nat]
  /\ untold \subseteq Identities
  /\ late \subseteq Identities \X Candidates
  /\ cand \in [Candidates -> CandidateStates]
  /\ decision \in 0..MaxDecision
  /\ cleared \in BOOLEAN

-----------------------------------------------------------------------------
(* Readiness, in a state s of the predictions, executions and candidates *)

Now == [opp |-> opp, exec |-> exec, seen |-> seen, cand |-> cand]
Bare(status) == [st |-> status, by |-> NoCandidate]
Outcome(s, n) == s.opp[Id(n)].is

\* executionProjection: an attached node shows its candidate's state.
Status(s, n) == IF s.exec[n].st \in Held THEN s.cand[s.exec[n].by] ELSE s.exec[n].st
Succeeded == {"succeeded", "dropped"}
ExecutionSettled == Succeeded \cup {"failed", "cancelled"}

\* Mutant: a call that was run but not adopted still counts.
BlocksUnlessMissed(s, d) ==
  \/ ~Resolves(d)
  \/ LET is == Outcome(s, At(d))
     IN \/ d.when = "prediction" /\ (is \in {"missed", "unobserved"} \/ s.seen[At(d)] = "other")
        \/ d.when = "adopted" /\ is \in {"missed", "unobserved"}
        \/ d.when = "succeeded" /\ Status(s, At(d)) \in ExecutionSettled \ Succeeded

Blocks(s, d) ==
  \/ ~Resolves(d)
  \/ LET parent == At(d)
         is == Outcome(s, parent)
     IN \/ d.when = "prediction" /\ (is \in {"missed", "unobserved"} \/ s.seen[parent] = "other")
        \/ d.when = "adopted" /\ is \in {"rejected", "missed", "unobserved"}
        \/ d.when = "succeeded" /\ Status(s, parent) \in ExecutionSettled \ Succeeded
Waits(s, d) ==
  \/ d.when = "adopted" /\ Outcome(s, At(d)) \in Unsettled
  \/ d.when \in {"settled", "succeeded"} /\ Status(s, At(d)) \notin ExecutionSettled
\* A claim also needs the forecast itself to have come true.
WaitsToMatch(s, d) ==
  \/ Waits(s, d)
  \/ d.when = "prediction" /\ (Outcome(s, At(d)) \in Unsettled \/ s.seen[At(d)] = "unseen")

\* Nodes that a dependency, or one of an ancestor, makes impossible.
Impossible(s) ==
  CHOOSE B \in SUBSET Live :
    B = {n \in Live : \E d \in node[n].action.deps : Blocks(s, d) \/ At(d) \in B}
Ready(s, n) == n \notin Impossible(s) /\ \A d \in node[n].action.deps : ~Waits(s, d)

\* recompute(): when a prediction may be claimed, and when it is due.
Base(n, ahead) == LET o == opp[Id(n)] IN IF o.is \in Matched THEN o.at ELSE anchor[n] + ahead + 1
Earliest[n \in Live] == Max({Base(n, 0)} \cup {Earliest[m] + 1 : m \in Parents(n)})
Latest[n \in Live] == Max({Base(n, node[n].action.horizon)} \cup {Latest[m] + 1 : m \in Parents(n)})

-----------------------------------------------------------------------------
(* dispatchReady: settle what has become impossible, launch what is ready *)

\* Mutant: whatever was predicted is withdrawn, settled or not.
UnobservedAlways(o) == [is |-> "unobserved", at |-> 0]
Unobserved(o) == IF o.is = "pending" THEN [is |-> "unobserved", at |-> 0] ELSE o
\* failUnlaunchable
Abandoned(s, N) ==
  [s EXCEPT !.opp = [i \in Identities |-> IF \E n \in N : Id(n) = i THEN Unobserved(s.opp[i]) ELSE s.opp[i]],
            !.exec = [n \in Address |-> IF n \in N /\ s.exec[n].st \in Unstarted \cup {"scheduled"}
                                        THEN Bare("failed") ELSE s.exec[n]]]
Launchable(s) ==
  {n \in Live : s.exec[n].st = "deferred" /\ Outcome(s, n) \in Unsettled /\ Ready(s, n)}

DispatchReady(s) ==
  LET t == Abandoned(s, {n \in Impossible(s) : Outcome(s, n) \in Unsettled})
      go == Launchable(t)
  IN /\ opp' = t.opp
     /\ exec' = [n \in Address |-> IF n \in go THEN Bare("scheduled") ELSE t.exec[n]]
     /\ launching' = [i \in Identities |-> launching[i] + IF \E n \in go : Id(n) = i THEN 1 ELSE 0]

-----------------------------------------------------------------------------
(* Updates of the plans *)

IsKept(n) == node[n] # None /\ node'[n] # None /\ node'[n].born = node[n].born

\* applyUpdate: replaced and removed nodes are retired, unless an Actor call has
\* claimed them; what is new has yet to be bound.
Materialize(touched) ==
  /\ exec' = [n \in Address |-> IF IsKept(n) THEN exec[n] ELSE Bare(IF node'[n] = None THEN "none" ELSE "unbound")]
  /\ seen' = [n \in Address |-> IF IsKept(n) THEN seen[n] ELSE "unseen"]
  /\ anchor' = [n \in Address |->
       CASE node'[n] = None -> 0
         [] IsKept(n) /\ ~(n \in touched /\ exec[n].st \in Unstarted) -> anchor[n]
         [] OTHER -> decision]
  /\ opp' = [i \in Identities |->
       CASE node'[i[1]] # None /\ node'[i[1]].born = i[2] /\ ~LiveId(i) -> [is |-> "pending", at |-> 0]
         [] LiveId(i) /\ ~IsKept(i[1]) -> Unobserved(opp[i])
         [] OTHER -> opp[i]]
  /\ UNCHANGED <<launching, late, untold, cand, decision, cleared>>

Update ==
  /\ ~cleared
  /\ \E p \in Plans : \E r \in 1..MaxRevision : \E B \in Batches(p) :
       /\ \/ \E retain \in BOOLEAN : Propose(p, r, B, retain)
          \/ \E remove \in SUBSET Actions : Amend(p, r, B, remove)
       /\ Materialize({p} \X Touched(B))

\* The task ends: every open prediction is settled, the plans are forgotten.
Clear ==
  /\ ~cleared /\ cleared' = TRUE
  /\ ClearPlans
  /\ opp' = [i \in Identities |-> Unobserved(opp[i])]
  /\ exec' = [n \in Address |-> Bare("none")]
  /\ seen' = [n \in Address |-> "unseen"]
  /\ anchor' = [n \in Address |-> 0]
  /\ UNCHANGED <<launching, late, untold, cand, decision>>

-----------------------------------------------------------------------------
(* From the plan to an execution *)

\* materializeAction: the action key is bound, by identity, and its route prepared.
Bind(n) ==
  /\ exec[n].st = "unbound" /\ Outcome(Now, n) \in Unsettled
  /\ exec' = [exec EXCEPT ![n] = Bare("preparing")]
  /\ UNCHANGED <<revision, node, commits, anchor, seen, opp, launching, late, untold, cand, decision, cleared>>

\* finishPreparation; the preparation's end wakes resource waiters.
Prepare(n) ==
  /\ exec[n].st = "preparing" /\ Outcome(Now, n) \in Unsettled
  /\ \E route \in {"deferred", "blocked"} : DispatchReady([Now EXCEPT !.exec[n] = Bare(route)])
  /\ UNCHANGED <<revision, node, commits, anchor, seen, late, untold, cand, decision, cleared>>

\* The action is not keyable, its tool disabled, its preparation fails.
Reject(n) ==
  /\ exec[n].st \in {"unbound", "preparing"}
  /\ DispatchReady(Abandoned(Now, {n}))
  /\ UNCHANGED <<revision, node, commits, anchor, seen, late, untold, cand, decision, cleared>>

\* From a queue, a timer, the end of an update.
Dispatch ==
  /\ ~cleared
  /\ DispatchReady(Now)
  /\ UNCHANGED <<revision, node, commits, anchor, seen, late, untold, cand, decision, cleared>>

LaunchSettles(i) == launching[i] > 0 /\ launching' = [launching EXCEPT ![i] = @ - 1]
\* Mutant: a launch that is deferred leaves its node scheduled.
LaunchForgets(i) ==
  /\ launching[i] > 0 /\ launching' = [launching EXCEPT ![i] = @ - 1]
  /\ UNCHANGED <<revision, node, commits, anchor, exec, seen, opp, late, untold, cand, decision, cleared>>
\* The rest of launchNode runs after an await, for a node that may be gone.
\* The world of its parents is not there yet: plan.defer(), by address.
LaunchDefers(i) ==
  /\ LaunchSettles(i)
  /\ exec' = [exec EXCEPT ![i[1]] = IF @.st = "scheduled" THEN Bare("deferred") ELSE @]
  /\ UNCHANGED <<revision, node, commits, anchor, seen, opp, late, untold, cand, decision, cleared>>

StillLaunches(i) == LiveId(i) /\ Outcome(Now, i[1]) \in Unsettled /\ exec[i[1]].st = "scheduled"

\* admitCandidate: the work joins a registered execution or creates one.
LaunchAttaches(i, c) ==
  /\ LaunchSettles(i)
  /\ StillLaunches(i)
  /\ Computes[c] = node[i[1]].action.input
  /\ cand[c] \in {"absent", "active", "succeeded"}
  /\ cand' = [cand EXCEPT ![c] = IF @ = "absent" THEN "active" ELSE @]
  /\ exec' = [exec EXCEPT ![i[1]] = [st |-> "attached", by |-> c]]
  /\ late' = late \cup {<<i, c>>}
  /\ \E o \in (IF cand[c] = "succeeded" THEN Observed ELSE {seen[i[1]]}) :
       seen' = [seen EXCEPT ![i[1]] = o]
  /\ UNCHANGED <<revision, node, commits, anchor, opp, untold, decision, cleared>>

\* No route: failUnlaunchable.
LaunchFails(i) ==
  /\ LaunchSettles(i)
  /\ LiveId(i)
  /\ LET s == Abandoned(Now, {i[1]}) IN opp' = s.opp /\ exec' = s.exec
  /\ UNCHANGED <<revision, node, commits, anchor, seen, late, untold, cand, decision, cleared>>

LaunchEnds(i) ==
  /\ LaunchSettles(i)
  /\ ~StillLaunches(i)
  /\ UNCHANGED <<revision, node, commits, anchor, exec, seen, opp, late, untold, cand, decision, cleared>>

-----------------------------------------------------------------------------
(* Candidates *)

\* consumers()
Consumers(c) == {n \in Live : exec[n].st \in Held /\ exec[n].by = c /\ Outcome(Now, n) \in Unsettled}

\* executeCandidate: its output is observed, even one that is then rejected; its
\* end wakes resource waiters.
CandidateSettles(c, result) ==
  /\ cand[c] = "active"
  /\ cand' = [cand EXCEPT ![c] = result]
  /\ \E o \in Observed \cup (IF result = "succeeded" THEN {} ELSE {"unseen"}) :
       seen' = [n \in Address |-> IF n \in Consumers(c) /\ o # "unseen" THEN o ELSE seen[n]]
  /\ DispatchReady([Now EXCEPT !.cand = cand', !.seen = seen'])
  /\ UNCHANGED <<revision, node, commits, anchor, late, untold, decision, cleared>>

\* discardCandidate: preempted or overtaken by an authoritative effect, and then
\* rearmExecution; or trimmed, or its tool disabled, and then not.
Evict(c, rearm) ==
  /\ cand[c] \in {"active", "succeeded"}
  /\ cand' = [cand EXCEPT ![c] = IF @ = "active" THEN "cancelled" ELSE "dropped"]
  /\ exec' = [n \in Address |-> IF rearm /\ n \in Consumers(c) /\ Outcome(Now, n) = "pending" THEN Bare("deferred") ELSE exec[n]]
  /\ UNCHANGED <<revision, node, commits, anchor, seen, opp, launching, late, untold, decision, cleared>>

\* attachExecution's callback: only while this attachment is the node's execution.
IsAttachment(i, c) == LiveId(i) /\ exec[i[1]] = [st |-> "attached", by |-> c]
Complete(i, c) ==
  /\ <<i, c>> \in late /\ cand[c] \notin {"absent", "active"}
  /\ late' = late \ {<<i, c>>}
  /\ exec' = [exec EXCEPT ![i[1]] = IF IsAttachment(i, c) THEN [st |-> "done", by |-> c] ELSE @]
  /\ UNCHANGED <<revision, node, commits, anchor, seen, opp, launching, untold, cand, decision, cleared>>

-----------------------------------------------------------------------------
(* The Actor *)

\* isMatchable, for a call of the turn under way.
IsMatchable(n) ==
  /\ n \in Live
  /\ Outcome(Now, n) = "pending" /\ exec[n].st # "unbound"
  /\ Earliest[n] <= decision + 1
  /\ n \notin Impossible(Now) /\ \A d \in node[n].action.deps : ~WaitsToMatch(Now, d)

\* predictionMatches and claimMatch.
Claim(n) ==
  /\ decision < MaxDecision
  /\ IsMatchable(n)
  /\ opp' = [opp EXCEPT ![Id(n)] = [is |-> "matching", at |-> decision + 1]]
  /\ UNCHANGED <<revision, node, commits, anchor, exec, seen, launching, late, untold, cand, decision, cleared>>

\* Adoption, or the Actor's own run, confirms what the call has claimed, also if
\* it was replaced meanwhile.
Confirm(i, how) ==
  /\ opp[i].is = "matching"
  /\ opp' = [opp EXCEPT ![i].is = how]
  /\ untold' = untold \cup {i}
  /\ UNCHANGED <<revision, node, commits, anchor, exec, seen, launching, late, cand, decision, cleared>>

\* queueActorSettlement: the result is observed, and dispatched on.
ActorSettles(i) ==
  /\ i \in untold /\ untold' = untold \ {i}
  /\ \E o \in (IF LiveId(i) THEN Observed ELSE {"unseen"}) :
       seen' = IF LiveId(i) THEN [seen EXCEPT ![i[1]] = o] ELSE seen
  /\ DispatchReady([Now EXCEPT !.seen = seen'])
  /\ UNCHANGED <<revision, node, commits, anchor, late, cand, decision, cleared>>

\* settlePredictionFrontier: the turn ends, what was due has been missed.
Due == {n \in Live : Outcome(Now, n) = "pending" /\ Latest[n] <= decision + 1}
Frontier ==
  /\ decision < MaxDecision /\ ~cleared
  /\ decision' = decision + 1
  /\ DispatchReady([Now EXCEPT !.opp =
       [i \in Identities |-> IF LiveId(i) /\ i[1] \in Due THEN [is |-> "missed", at |-> 0] ELSE opp[i]]])
  /\ UNCHANGED <<revision, node, commits, anchor, seen, late, untold, cand, cleared>>

-----------------------------------------------------------------------------
Init ==
  /\ GraphInit
  /\ anchor = [n \in Address |-> 0]
  /\ exec = [n \in Address |-> Bare("none")]
  /\ seen = [n \in Address |-> "unseen"]
  /\ opp = [i \in Identities |-> [is |-> "none", at |-> 0]]
  /\ launching = [i \in Identities |-> 0]
  /\ untold = {} /\ late = {}
  /\ cand = [c \in Candidates |-> "absent"]
  /\ decision = 0 /\ cleared = FALSE

Next ==
  \/ Update \/ Clear \/ Dispatch \/ Frontier
  \/ \E n \in Address : Bind(n) \/ Prepare(n) \/ Reject(n) \/ Claim(n)
  \/ \E i \in Identities :
       \/ LaunchDefers(i) \/ LaunchFails(i) \/ LaunchEnds(i) \/ ActorSettles(i)
       \/ \E c \in Candidates : LaunchAttaches(i, c) \/ Complete(i, c)
       \/ \E how \in Matched : Confirm(i, how)
  \/ \E c \in Candidates :
       \/ \E rearm \in BOOLEAN : Evict(c, rearm)
       \/ \E result \in {"succeeded", "failed"} : CandidateSettles(c, result)

Spec == Init /\ [][Next]_vars

-----------------------------------------------------------------------------
(* Properties *)

\* Updates replace nodes while calls and launches hold them: no prediction is
\* left open once the node it belongs to is gone.
NoOrphan == \A i \in Identities : opp[i].is = "pending" => LiveId(i)

\* A call may claim a prediction only after everything it presupposes about the
\* Actor has come true, at an earlier decision: also when an update, a late
\* result or a repeated turn end came in between.
Presupposed(n) == {At(d) : d \in {e \in node[n].action.deps : Resolves(e) /\ e.when \in {"adopted", "prediction"}}}
ClaimsFollow ==
  \A n \in Live : opp[Id(n)].is \in Matched \cup {"matching"} =>
    \A m \in Presupposed(n) : opp[Id(m)].is \in Matched /\ opp[Id(m)].at < opp[Id(n)].at

\* Work that depends on an adoption runs only once there was one.
LaunchesFollow ==
  \A n \in Live : exec[n].st \in Held \cup {"scheduled"} =>
    \A d \in node[n].action.deps : d.when = "adopted" /\ Resolves(d) => opp[Id(At(d))].is = "adopted"

\* A scheduled node has a launch under way: `defer` by address, the failure of a
\* launch and a replacement never leave one scheduled that nothing will start.
ScheduledIsLaunching ==
  \A n \in Live : exec[n].st = "scheduled" /\ Outcome(Now, n) \in Unsettled => launching[Id(n)] > 0

\* The execution a node shows is of its own input: launches and completions are
\* applied late, by address, to a node that may have been replaced.
ExecutionFits == \A n \in Live : exec[n].st \in Held => Computes[exec[n].by] = node[n].action.input

\* All of these.
RuntimeSafe == TypeOK /\ NoOrphan /\ ClaimsFollow /\ LaunchesFollow /\ ScheduledIsLaunching /\ ExecutionFits

\* "Exactly-once owner of one source prediction's Actor-visible outcome": what
\* is settled is never settled again, nor reopened by an update that reuses an identity.
SettledForGood ==
  [][\A i \in Identities : opp[i].is \notin Unsettled \cup {"none"} => opp'[i] = opp[i]]_vars
=============================================================================
