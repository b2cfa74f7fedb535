---------------------------- MODULE ActorAdoption ----------------------------
(***************************************************************************)
(* Actor calls of one turn meet the candidates of its session              *)
(* (src/runtime-engine.ts, prepareActorCall and selectActorCandidate;      *)
(* src/candidate-execution.ts; src/candidate-stores.ts;                    *)
(* src/actor-action.ts).  Each call searches the store, reserves one       *)
(* candidate at a time, waits for it, validates and commits it, and falls  *)
(* back to its native run when nothing is adopted.  Other calls, previews, *)
(* predictions, evictions and the end of the turn interleave at every      *)
(* await.                                                                  *)
(*                                                                         *)
(* A candidate is Exclusive (its branch carries an effect that may be      *)
(* committed once) or shared.  commit() is the one EffectTransaction       *)
(* promises: a second call joins the first outcome.                        *)
(***************************************************************************)
EXTENDS Integers, FiniteSets

CONSTANTS
  Actors,       \* Actor tool calls
  Previews,     \* previews of such calls: they reserve a candidate for a while
  Candidates,   \* registrations of the candidate store
  Exclusive,    \* those whose reservation is exclusive
  Matches,      \* the pairs <<a, c>> of a call and a candidate its key finds
  NoCandidate

ASSUME Setting ==
  /\ Exclusive \subseteq Candidates
  /\ Matches \subseteq Actors \X Candidates
  /\ NoCandidate \notin Candidates
  /\ Actors \cap Previews = {}

VARIABLES
  \* candidates
  exec,         \* exec[c]: the execution of c
  stored,       \* registrations the store still holds
  lease,        \* lease[c]: owners of active reservations of c
  consumed,     \* exclusive candidates whose reservation was adopted
  effect,       \* effect[c]: what commit() has done to the world for c
  committedFor, \* history: calls whose commit() of c took effect, or may have
  \* Actor calls
  pc,           \* pc[a]: where the call stands; one value per await
  choice,       \* choice[a]: the candidate it has reserved
  attempted,    \* attempted[a]: the candidates of this search pass
  woken,        \* calls whose current wait was ended by a notification
  changed,      \* calls whose observation saw new result evidence
  pending,      \* calls whose predictions are still being promoted
  previewed,    \* previews that made their reservation
  \* the turn
  actorActions,   \* `turn.actorActions`: calls not settled yet
  actorRequests,  \* `session.actorRequests`: calls that hold native hardware units
  cancelled,      \* calls whose own signal was aborted
  turn, session

candidateVars == <<exec, stored, lease, consumed, effect, committedFor>>
actorVars == <<pc, choice, attempted, woken, changed, pending, previewed>>
turnVars == <<actorActions, actorRequests, cancelled, turn, session>>
vars == <<exec, stored, lease, consumed, effect, committedFor, pc, choice, attempted,
          woken, changed, pending, previewed, actorActions, actorRequests, cancelled, turn, session>>

ExecStates == {"absent", "queued", "running", "succeeded", "failed", "cancelled"}
\* A call that holds a reservation, by the await it is at.
Holding == {"authorizing", "joining", "preparing", "committing", "adopting"}
Steps == Holding \cup
  {"idle", "choosing", "waiting", "retaining", "selected", "served",
   "unserved", "native", "settled", "thrown", "bare"}

TypeOK ==
  /\ exec \in [Candidates -> ExecStates]
  /\ stored \subseteq Candidates
  /\ lease \in [Candidates -> SUBSET (Actors \cup Previews)]
  /\ consumed \subseteq Exclusive
  /\ effect \in [Candidates -> {"none", "applied", "poisoned"}]
  /\ committedFor \in [Candidates -> SUBSET Actors]
  /\ pc \in [Actors -> Steps]
  /\ choice \in [Actors -> Candidates \cup {NoCandidate}]
  /\ attempted \in [Actors -> SUBSET Candidates]
  /\ woken \subseteq Actors /\ changed \subseteq Actors
  /\ pending \subseteq Actors /\ previewed \subseteq Previews
  /\ actorActions \subseteq Actors /\ actorRequests \subseteq Actors
  /\ cancelled \subseteq Actors
  /\ turn \in {"active", "closing", "finished"}
  /\ session \in {"open", "ended"}

Init ==
  /\ exec = [c \in Candidates |-> "absent"]
  /\ stored = {} /\ consumed = {}
  /\ lease = [c \in Candidates |-> {}]
  /\ effect = [c \in Candidates |-> "none"]
  /\ committedFor = [c \in Candidates |-> {}]
  /\ pc = [a \in Actors |-> "idle"]
  /\ choice = [a \in Actors |-> NoCandidate]
  /\ attempted = [a \in Actors |-> {}]
  /\ woken = {} /\ changed = {} /\ pending = {} /\ previewed = {}
  /\ actorActions = {} /\ actorRequests = {} /\ cancelled = {}
  /\ turn = "active" /\ session = "open"
-----------------------------------------------------------------------------
(* The store's notifications. *)

\* Calls inside a search pass observe the store.  Once a call is past its wait,
\* and once its commit has succeeded, it looks at neither flag again.
Waiting == {a \in Actors : pc[a] \in {"waiting", "authorizing", "joining"}}
Observing == {a \in Actors : pc[a] \in (Holding \ {"adopting"}) \cup {"waiting"}}

\* notify(changed): every observer wakes; only new evidence renews its search.
Notify(kind) ==
  /\ woken' = woken \cup Waiting
  /\ changed' = IF kind = "evidence" THEN changed \cup Observing ELSE changed
Quiet == UNCHANGED <<woken, changed>>

\* Another call's continuation runs to its next await before this step.
Yielded(a) == \A b \in Actors \ {a} : pc[b] # "choosing"
AllYielded == \A b \in Actors : pc[b] # "choosing"
-----------------------------------------------------------------------------
(* Reservations. *)

Ranked(a) ==
  {c \in stored \ (consumed \cup attempted[a]) :
     <<a, c>> \in Matches /\ exec[c] \in {"queued", "running", "succeeded"}}

\* Mutant: an exclusive reservation excludes nobody.
AvailableUntilConsumed(c) == c \notin consumed
\* acquire(): a shared candidate always, an exclusive one while it is available.
Available(c) == c \in Exclusive => lease[c] = {} /\ c \notin consumed

\* Mutant: reservations are not looked at.
UnreservedOrNot == stored
Unreserved == {c \in stored : lease[c] = {}}

\* discardCandidate(): unfinished work is cancelled, and the registration removed.
Discarded(gone) ==
  /\ exec' = [c \in Candidates |->
       IF c \in gone /\ exec[c] \in {"queued", "running"} THEN "cancelled" ELSE exec[c]]
  /\ stored' = stored \ gone

\* preemptForActor(): every call awaiting its native run demands hardware, and
\* running work without a reservation may be cancelled for it.
Awaiting(step) == {a \in actorActions : step[a] \in {"native", "thrown"}}
Preemptable == {c \in Unreserved : exec[c] = "running"}

\* The finally blocks of a search pass: release the reservation, dispose of the
\* observation, and forget the pass if new evidence arrived.
\* `dropped` is the candidate to try again, when there is one.
\* Releasing an exclusive reservation notifies every observer of availability.
freed(c) == IF c \in Exclusive THEN Waiting ELSE {}
released(a) == [lease EXCEPT ![choice[a]] = @ \ {a}]
Leave(a, next, dropped) ==
  /\ lease' = released(a)
  /\ pc' = [pc EXCEPT ![a] = next]
  /\ choice' = [choice EXCEPT ![a] = NoCandidate]
  /\ attempted' = [attempted EXCEPT ![a] = IF a \in changed \/ next # "choosing" THEN {} ELSE @ \ dropped]
  /\ woken' = (woken \cup freed(choice[a])) \ {a}
  /\ changed' = changed \ {a}
  /\ UNCHANGED <<exec, stored, consumed, pending, previewed, turnVars>>

\* The signals a call obeys: its own, and the turn's generation.
Stop(a) == a \in cancelled \/ turn # "active"
Break(a) == Leave(a, "unserved", {}) /\ UNCHANGED <<effect, committedFor>>
Reject(a) == Leave(a, "choosing", {}) /\ UNCHANGED <<effect, committedFor>>
TryAgain(a) == Leave(a, "choosing", {choice[a]}) /\ UNCHANGED <<effect, committedFor>>
-----------------------------------------------------------------------------
(* prepareActorCall and selectActorCandidate. *)

\* The key is known and the turn still active: the call is an ActorAction now.
Arrive(a) ==
  /\ pc[a] = "idle" /\ ~Stop(a)
  /\ pc' = [pc EXCEPT ![a] = "choosing"]
  /\ actorActions' = actorActions \cup {a}
  /\ pending' \in {pending, pending \cup {a}}
  /\ UNCHANGED <<candidateVars, choice, attempted, woken, changed, previewed, actorRequests, cancelled, turn, session>>

\* Otherwise the call is not prepared at all and runs natively, unobserved.
Decline(a) ==
  /\ pc[a] = "idle" /\ Stop(a)
  /\ pc' = [pc EXCEPT ![a] = "bare"]
  /\ UNCHANGED <<candidateVars, choice, attempted, woken, changed, pending, previewed, turnVars>>

\* A ranked candidate is reserved.  A queued one may start at once, at the
\* expense of running work nobody has reserved.
Choose(a, c) ==
  /\ pc[a] = "choosing" /\ c \in Ranked(a) /\ Available(c)
  /\ pc' = [pc EXCEPT ![a] = "authorizing"]
  /\ choice' = [choice EXCEPT ![a] = c]
  /\ attempted' = [attempted EXCEPT ![a] = @ \cup {c}]
  /\ lease' = [lease EXCEPT ![c] = @ \cup {a}]
  /\ \/ exec[c] # "queued" /\ UNCHANGED <<exec, stored, actorRequests, woken, changed>>
     \/ /\ exec[c] = "queued"
        /\ \E victims \in SUBSET Preemptable, begun \in SUBSET {c} :
             /\ exec' = [d \in Candidates |->
                  IF d \in begun THEN "running" ELSE IF d \in victims THEN "cancelled" ELSE exec[d]]
             /\ stored' = stored \ victims
             /\ woken' = IF victims = {} THEN woken ELSE woken \cup Waiting \cup {a}
             /\ changed' = IF victims = {} THEN changed ELSE changed \cup Observing \cup {a}
        /\ actorRequests' = actorRequests \cup Awaiting(pc)
  /\ UNCHANGED <<consumed, effect, committedFor, pending, previewed, actorActions, cancelled, turn, session>>

NothingAvailable(a) == \A c \in Ranked(a) : ~Available(c)

\* Everything that matches is reserved, or more may come: wait for either.
WaitForWork(a) ==
  /\ pc[a] = "choosing" /\ NothingAvailable(a)
  /\ Ranked(a) # {} \/ a \in pending
  /\ pc' = [pc EXCEPT ![a] = "waiting"]
  /\ UNCHANGED <<candidateVars, choice, attempted, woken, changed, pending, previewed, turnVars>>

GiveUp(a) ==
  /\ pc[a] = "choosing" /\ Ranked(a) = {} /\ a \notin pending
  /\ pc' = [pc EXCEPT ![a] = "unserved"]
  /\ attempted' = [attempted EXCEPT ![a] = {}]
  /\ UNCHANGED <<candidateVars, choice, woken, changed, pending, previewed, turnVars>>

\* The wait ends: search again, from scratch if evidence arrived, or stop.
Wake(a) ==
  /\ pc[a] = "waiting" /\ (a \in woken \/ Stop(a))
  /\ pc' = [pc EXCEPT ![a] = IF Stop(a) THEN "unserved" ELSE "choosing"]
  /\ attempted' = [attempted EXCEPT ![a] = IF a \in changed \/ Stop(a) THEN {} ELSE @]
  /\ woken' = woken \ {a} /\ changed' = changed \ {a}
  /\ UNCHANGED <<candidateVars, choice, pending, previewed, turnVars>>

Advance(a, next) ==
  /\ pc' = [pc EXCEPT ![a] = next]
  /\ UNCHANGED <<candidateVars, choice, attempted, woken, changed, pending, previewed, turnVars>>

Authorized(a) ==
  /\ pc[a] = "authorizing"
  /\ \/ Stop(a) /\ Break(a)
     \/ ~Stop(a) /\ (Reject(a) \/ Advance(a, "joining"))

\* waitForCompletion(): the stop signal wins over a completion it precedes.
Join(a) ==
  /\ pc[a] = "joining"
  /\ \/ Stop(a) /\ Break(a)
     \/ ~Stop(a) /\ a \in woken /\ TryAgain(a)
     \/ ~Stop(a) /\ a \notin woken /\ exec[choice[a]] \in {"failed", "cancelled"} /\ Reject(a)
     \/ ~Stop(a) /\ a \notin woken /\ exec[choice[a]] = "succeeded" /\ Advance(a, "preparing")

\* A preview of this call is awaited, and the query validated; a poisoned branch
\* never is.  Past the last check of
\* the signals commit() is called in the same step.
Prepare(a) ==
  /\ pc[a] = "preparing"
  /\ \/ Stop(a) /\ Break(a)
     \/ ~Stop(a) /\ (Reject(a) \/ (effect[choice[a]] # "poisoned" /\ Advance(a, "committing")))

\* commit() settles.  Another holder's outcome is shared, not repeated.
CommitApplied(a) ==
  /\ pc[a] = "committing" /\ effect[choice[a]] # "poisoned"
  /\ effect' = [effect EXCEPT ![choice[a]] = IF choice[a] \in Exclusive THEN "applied" ELSE @]
  /\ committedFor' = [committedFor EXCEPT ![choice[a]] = @ \cup {a}]
  /\ pc' = [pc EXCEPT ![a] = "adopting"]
  /\ attempted' = [attempted EXCEPT ![a] = {}]
  /\ changed' = changed \ {a}
  /\ UNCHANGED <<exec, stored, lease, consumed, choice, woken, pending, previewed, turnVars>>

\* A recoverable failure rejects the candidate and the search goes on.
CommitFailed(a) ==
  /\ pc[a] = "committing" /\ effect[choice[a]] = "none"
  /\ Reject(a)

\* Mutant: an unclear commit falls back to the native run.
CommitUnclear(a) ==
  /\ pc[a] = "committing" /\ choice[a] \in Exclusive /\ effect[choice[a]] # "applied"
  /\ effect' = [effect EXCEPT ![choice[a]] = "poisoned"]
  /\ committedFor' = [committedFor EXCEPT ![choice[a]] = @ \cup {a}]
  /\ Leave(a, "unserved", {})

\* An unrecoverable one is thrown to the caller: no native run may repeat it.
\* The action is left in `actorActions`, awaiting a fallback that never comes.
CommitPoisoned(a) ==
  /\ pc[a] = "committing" /\ choice[a] \in Exclusive /\ effect[choice[a]] # "applied"
  /\ effect' = [effect EXCEPT ![choice[a]] = "poisoned"]
  /\ committedFor' = [committedFor EXCEPT ![choice[a]] = @ \cup {a}]
  /\ Leave(a, "thrown", {})

\* No signal is looked at any more: adopt, and retire the unreserved work that an
\* exclusive effect made stale.
Adopt(a) ==
  /\ pc[a] = "adopting"
  /\ lease' = released(a)
  /\ IF choice[a] \in Exclusive
       THEN /\ consumed' = consumed \cup {choice[a]}
            /\ pc' = [pc EXCEPT ![a] = "retaining"]
            /\ \E stale \in SUBSET (Unreserved \ {choice[a]}) :
                 /\ Discarded(stale)
                 /\ Notify(IF stale = {} THEN "availability" ELSE "evidence")
            /\ UNCHANGED choice
       ELSE /\ pc' = [pc EXCEPT ![a] = "selected"]
            /\ choice' = [choice EXCEPT ![a] = NoCandidate]
            /\ UNCHANGED <<consumed, exec, stored, woken, changed>>
  /\ UNCHANGED <<effect, committedFor, attempted, pending, previewed, turnVars>>

\* Its committed inputs were kept, or not: the candidate leaves the store.
Retained(a) ==
  /\ pc[a] = "retaining"
  /\ stored' = stored \ {choice[a]}
  /\ pc' = [pc EXCEPT ![a] = "selected"]
  /\ choice' = [choice EXCEPT ![a] = NoCandidate]
  /\ Notify("evidence")
  /\ UNCHANGED <<exec, lease, consumed, effect, committedFor, attempted, pending, previewed, turnVars>>

Serve(a) ==
  /\ pc[a] = "selected"
  /\ pc' = [pc EXCEPT ![a] = "served"]
  /\ actorActions' = actorActions \ {a}
  /\ UNCHANGED <<candidateVars, choice, attempted, woken, changed, pending, previewed, actorRequests, cancelled, turn, session>>

\* Nothing was adopted: the call awaits its native run, which takes hardware.
Fallback(a) ==
  /\ pc[a] = "unserved"
  /\ pc' = [pc EXCEPT ![a] = "native"]
  /\ actorRequests' = actorRequests \cup Awaiting(pc')
  /\ \E victims \in SUBSET Preemptable :
       /\ Discarded(victims)
       /\ IF victims = {} THEN Quiet ELSE Notify("evidence")
  /\ UNCHANGED <<lease, consumed, effect, committedFor, choice, attempted, pending, previewed, actorActions, cancelled, turn, session>>

\* settleActorCall(): the units return, and what the call made stale is retired.
NativeSettled(a) ==
  /\ pc[a] = "native"
  /\ pc' = [pc EXCEPT ![a] = "settled"]
  /\ actorRequests' = actorRequests \ {a}
  /\ actorActions' = actorActions \ {a}
  /\ \E stale \in SUBSET (IF a \in actorActions THEN Unreserved ELSE {}) :
       /\ Discarded(stale)
       /\ IF stale = {} THEN Quiet ELSE Notify("evidence")
  /\ UNCHANGED <<lease, consumed, effect, committedFor, choice, attempted, pending, previewed, cancelled, turn, session>>
-----------------------------------------------------------------------------
(* Everything else that touches the candidates. *)

\* A prediction, a preview or a promotion registers new work; a result kept from an
\* Actor's own run is registered complete, to be shared.
Register(c) ==
  /\ exec[c] = "absent" /\ session = "open"
  /\ \E state \in {"queued"} \cup (IF c \in Exclusive THEN {} ELSE {"succeeded"}) :
       exec' = [exec EXCEPT ![c] = state]
  /\ stored' = stored \cup {c}
  /\ Notify("evidence")
  /\ UNCHANGED <<lease, consumed, effect, committedFor, pc, choice, attempted, pending, previewed, turnVars>>

Start(c) ==
  /\ exec[c] = "queued"
  /\ exec' = [exec EXCEPT ![c] = "running"]
  /\ UNCHANGED <<stored, lease, consumed, effect, committedFor, actorVars, turnVars>>

Succeed(c) ==
  /\ exec[c] = "running"
  /\ exec' = [exec EXCEPT ![c] = "succeeded"]
  /\ Notify("evidence")
  /\ UNCHANGED <<stored, lease, consumed, effect, committedFor, pc, choice, attempted, pending, previewed, turnVars>>

Fail(c) ==
  /\ exec[c] = "running"
  /\ exec' = [exec EXCEPT ![c] = "failed"]
  /\ stored' = stored \ {c}
  /\ Notify("evidence")
  /\ UNCHANGED <<lease, consumed, effect, committedFor, pc, choice, attempted, pending, previewed, turnVars>>

\* Eviction, retirement and preemption take only what nobody has reserved.
Discard(c) ==
  /\ c \in Unreserved
  /\ Discarded({c})
  /\ Notify("evidence")
  /\ UNCHANGED <<lease, consumed, effect, committedFor, pc, choice, attempted, pending, previewed, turnVars>>

\* reconcileStores(): a new turn without the tool discards its queued work, reserved or not.
DropTool(c) ==
  /\ c \in stored /\ exec[c] = "queued" /\ session = "open"
  /\ Discarded({c})
  /\ Notify("evidence")
  /\ UNCHANGED <<lease, consumed, effect, committedFor, pc, choice, attempted, pending, previewed, turnVars>>

\* The promotion of the call's predictions settles, and ends its current wait.
Promoted(a) ==
  /\ a \in pending
  /\ pending' = pending \ {a}
  /\ woken' = IF pc[a] \in {"waiting", "joining"} THEN woken \cup {a} ELSE woken
  /\ UNCHANGED <<candidateVars, pc, choice, attempted, changed, previewed, turnVars>>

\* promoteActorCall(): a preview reserves finished work while it validates it.
PreviewAcquire(p, c) ==
  /\ turn = "active" /\ p \notin previewed
  /\ previewed' = previewed \cup {p}
  /\ c \in stored \ consumed /\ exec[c] = "succeeded" /\ Available(c)
  /\ lease' = [lease EXCEPT ![c] = @ \cup {p}]
  /\ UNCHANGED <<exec, stored, consumed, effect, committedFor, pc, choice, attempted, woken, changed, pending, turnVars>>
\* Mutant: the end of a preview wakes nobody.
PreviewReleaseSilent(p, c) ==
  /\ p \in lease[c]
  /\ lease' = [lease EXCEPT ![c] = @ \ {p}]
  /\ UNCHANGED <<exec, stored, consumed, effect, committedFor, actorVars, turnVars>>
PreviewRelease(p, c) ==
  /\ p \in lease[c]
  /\ lease' = [lease EXCEPT ![c] = @ \ {p}]
  /\ IF c \in Exclusive THEN Notify("availability") ELSE Quiet
  /\ UNCHANGED <<exec, stored, consumed, effect, committedFor, pc, choice, attempted, pending, previewed, turnVars>>

\* The host aborts the call; nothing looks at the signal after the fallback began.
Cancel(a) ==
  /\ a \notin cancelled /\ pc[a] \notin {"native", "settled", "served", "thrown", "bare"}
  /\ cancelled' = cancelled \cup {a}
  /\ UNCHANGED <<candidateVars, actorVars, actorActions, actorRequests, turn, session>>

\* beginTurnClosure(): the generation expires; later the turn forgets its calls,
\* and a session that ends discards work, reserved or not.
CloseTurn ==
  /\ turn = "active"
  /\ turn' = "closing"
  /\ UNCHANGED <<candidateVars, actorVars, actorActions, actorRequests, cancelled, session>>
FinishTurn ==
  /\ turn = "closing"
  /\ turn' = "finished"
  /\ actorActions' = {}
  /\ UNCHANGED <<candidateVars, actorVars, actorRequests, cancelled, session>>
EndSession ==
  /\ turn = "finished" /\ session = "open"
  /\ session' = "ended"
  /\ \E gone \in {stored, {c \in stored : exec[c] # "succeeded"}} :
       /\ Discarded(gone)
       /\ IF gone = {} THEN Quiet ELSE Notify("evidence")
  /\ UNCHANGED <<lease, consumed, effect, committedFor, pc, choice, attempted, pending, previewed, actorActions, actorRequests, cancelled, turn>>
-----------------------------------------------------------------------------
ActorStep(a) ==
  \/ Arrive(a) \/ Decline(a)
  \/ \E c \in Candidates : Choose(a, c)
  \/ WaitForWork(a) \/ GiveUp(a) \/ Wake(a)
  \/ Authorized(a) \/ Join(a) \/ Prepare(a)
  \/ CommitApplied(a) \/ CommitFailed(a) \/ CommitPoisoned(a)
  \/ Adopt(a) \/ Retained(a) \/ Serve(a)
  \/ Fallback(a) \/ NativeSettled(a)

WorkStep ==
  \/ \E c \in Candidates : Register(c) \/ Start(c) \/ Succeed(c) \/ Fail(c) \/ Discard(c) \/ DropTool(c)
  \/ \E a \in Actors : Promoted(a) \/ Cancel(a)
  \/ \E p \in Previews, c \in Candidates : PreviewAcquire(p, c) \/ PreviewRelease(p, c)
  \/ CloseTurn \/ FinishTurn \/ EndSession

Next ==
  \/ \E a \in Actors : Yielded(a) /\ ActorStep(a)
  \/ AllYielded /\ WorkStep

Spec == Init /\ [][Next]_vars

\* Awaited work settles: queued work is admitted, executions, promotions and previews
\* end, and so do the calls of the backend.
ActorProgress(a) == Yielded(a) /\ pc[a] # "idle" /\ ActorStep(a)
Executes(c) == AllYielded /\ (Start(c) \/ Succeed(c) \/ Fail(c))
PreviewEnds(p) == AllYielded /\ \E c \in Candidates : PreviewRelease(p, c)
Fairness ==
  /\ \A a \in Actors : SF_vars(ActorProgress(a)) /\ SF_vars(AllYielded /\ Promoted(a))
  /\ \A c \in Candidates : SF_vars(Executes(c))
  /\ \A p \in Previews : SF_vars(PreviewEnds(p))
FairSpec == Spec /\ Fairness
-----------------------------------------------------------------------------
(* Safety. *)

\* A call whose candidate changed the world, or may have, is served with it or
\* fails: its native run never repeats the effect, whatever is cancelled meanwhile.
NoRerun ==
  \A c \in Exclusive : \A a \in committedFor[c] :
    pc[a] \in {"adopting", "retaining", "selected", "served", "thrown"}

\* One effect answers one call: two calls never share a committed branch.
AdoptedOnce ==
  \A c \in Exclusive : \A a, b \in committedFor[c] : a = b

\* A reservation belongs to a call at work on the candidate, or to a preview, and
\* an exclusive one to nobody else at the same time.
ReservationsAccounted ==
  \A c \in Candidates :
    /\ \A a \in Actors : a \in lease[c] <=> choice[a] = c /\ pc[a] \in Holding
    /\ c \in Exclusive => \A x, y \in lease[c] : x = y

\* While the session is open nothing takes started work from the calls that reserved
\* it: preemption, eviction and the effects of other calls retire unreserved work.
ReservedIsKept ==
  [][\A c \in stored : session' = "open" /\ lease[c] # {} /\ exec[c] # "queued" => c \in stored' \/ exec'[c] = "failed"]_vars

\* Native hardware units are held by calls whose native run will settle and return them.
UnitsAreFallbacks == actorRequests \subseteq {a \in Actors : pc[a] = "native"}
-----------------------------------------------------------------------------
(* Liveness. *)

\* Every call is answered: served, failed, or settled by its native run.
CallsDecided ==
  \A a \in Actors : pc[a] # "idle" ~> pc[a] \in {"served", "thrown", "settled", "bare"}
-----------------------------------------------------------------------------
(* What the runtime promises its host: ActorOnce. *)

outcome ==
  [a \in Actors |->
    CASE pc[a] \in {"native", "settled", "bare"} -> "native"
      [] pc[a] = "served" -> "served"
      [] pc[a] = "thrown" -> "failed"
      [] OTHER -> IF \E c \in Exclusive : a \in committedFor[c] THEN "effect" ELSE "open"]
spent == {c \in Exclusive : committedFor[c] # {}}

Promise == INSTANCE ActorOnce
KeepsPromise == Promise!Spec

\* What holds of the Actor's calls at every moment (RuntimeEngine.decide): no committed effect is
\* run again, one call adopts it, and every reservation is accounted for.
AdoptionSafe == TypeOK /\ NoRerun /\ AdoptedOnce /\ ReservationsAccounted
=============================================================================
