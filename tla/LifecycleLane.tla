---------------------------- MODULE LifecycleLane ----------------------------
(***************************************************************************)
(* RuntimeLifecycleLane (src/runtime-lifecycle.ts): the owner behind every *)
(* session, execution world, branch and store.  It serializes lifecycle    *)
(* operations, admits borrowers, owns disposable resources, and tears all  *)
(* of them down once: drain the borrowers, release the resources, drain    *)
(* whatever those releases acquired, then finalize.                        *)
(*                                                                         *)
(* Borrowers call admit(), Proofs call serialize(), Operations call run(). *)
(* Each member makes one call.  Strays are callers of own() and release()  *)
(* outside any tracked work: the lane does not forbid them.                *)
(***************************************************************************)
EXTENDS Integers, Sequences, FiniteSets

CONSTANTS Borrowers, Proofs, Operations, Resources, Teardown

ASSUME Disjoint ==
  /\ Borrowers \cap Proofs = {} /\ Borrowers \cap Operations = {}
  /\ Proofs \cap Operations = {}
  /\ (Borrowers \cup Proofs \cup Operations) \cap Resources = {}
  /\ Teardown \notin Borrowers \cup Proofs \cup Operations

VARIABLES
  call,       \* call[c]: where the call c of this lane stands
  lane,       \* the chain of enqueued operations behind `tail`; its head runs
  owned,      \* `owned`: resources to release at teardown
  taken,      \* teardown took the owned set (`owned` is undefined)
  release,    \* release[r]: the entry of r in `released`, and its progress
  teardown,   \* how far the closing operation has come
  how,        \* which call sealed the lane: close() or dispose()
  round,      \* the work one round of drain() waits for
  entrusted   \* history: resources the lane answers for before it finalizes

vars == <<call, lane, owned, taken, release, teardown, how, round, entrusted>>

Calls == Borrowers \cup Proofs \cup Operations
CallStates == {"idle", "admitted", "running", "settled", "refused", "joined"}
ReleaseStates == {"none", "pending", "disposing", "done"}
Phases == {"open", "queued", "borrowers", "resources", "nested", "finalizing", "rest", "closed"}

TypeOK ==
  /\ call \in [Calls -> CallStates]
  /\ lane \in Seq(Calls \cup {Teardown})
  /\ owned \subseteq Resources
  /\ taken \in BOOLEAN
  /\ release \in [Resources -> ReleaseStates]
  /\ teardown \in Phases
  /\ how \in {"none", "close", "dispose"}
  /\ round \subseteq Calls \cup Resources
  /\ entrusted \subseteq Resources

Init ==
  /\ call = [c \in Calls |-> "idle"]
  /\ lane = <<>>
  /\ owned = {} /\ taken = FALSE
  /\ release = [r \in Resources |-> "none"]
  /\ teardown = "open" /\ how = "none"
  /\ round = {} /\ entrusted = {}

sealed == how # "none"

\* `work` of PendingTasks: what drain() waits for.
work ==
  {c \in Borrowers \cup Proofs : call[c] \in {"admitted", "running"}}
    \cup {r \in Resources : release[r] \in {"pending", "disposing"}}
-----------------------------------------------------------------------------
(* Calls. *)

\* admit(): the body starts in a later microtask, and is tracked at once.
Admit(b) ==
  /\ call[b] = "idle"
  /\ call' = [call EXCEPT ![b] = IF sealed THEN "refused" ELSE "admitted"]
  /\ UNCHANGED <<lane, owned, taken, release, teardown, how, round, entrusted>>

\* serialize(): refused by a sealed lane, otherwise tracked and enqueued.
Serialize(p) ==
  /\ call[p] = "idle"
  /\ call' = [call EXCEPT ![p] = IF sealed THEN "refused" ELSE "admitted"]
  /\ lane' = IF sealed THEN lane ELSE Append(lane, p)
  /\ UNCHANGED <<owned, taken, release, teardown, how, round, entrusted>>

\* run(): shares the teardown of a sealed lane, otherwise enqueued and untracked.
shared == IF teardown = "closed" THEN "settled" ELSE "joined"
Run(o) ==
  /\ call[o] = "idle"
  /\ call' = [call EXCEPT ![o] = IF sealed THEN shared ELSE "admitted"]
  /\ lane' = IF sealed THEN lane ELSE Append(lane, o)
  /\ UNCHANGED <<owned, taken, release, teardown, how, round, entrusted>>

\* A borrower starts on its own; an enqueued operation when it heads the lane.
Start(c) ==
  /\ call[c] = "admitted"
  /\ c \notin Borrowers => lane # <<>> /\ Head(lane) = c
  /\ call' = [call EXCEPT ![c] = "running"]
  /\ UNCHANGED <<lane, owned, taken, release, teardown, how, round, entrusted>>

\* A call settles, with a value or an error: neither stops the lane.
Settle(c) ==
  /\ call[c] = "running"
  /\ call' = [call EXCEPT ![c] = "settled"]
  /\ lane' = IF c \in Borrowers THEN lane ELSE Tail(lane)
  /\ UNCHANGED <<owned, taken, release, teardown, how, round, entrusted>>
-----------------------------------------------------------------------------
(* Resources. *)

\* Mutant: release() forgets that the resource was released before.
releasedAgain(r) == [release EXCEPT ![r] = "pending"]

\* release(): the first request starts the release, later ones share it.
released(r) ==
  IF release[r] = "none" THEN [release EXCEPT ![r] = "pending"] ELSE release

Release(r) ==
  /\ owned' = owned \ {r}
  /\ release' = released(r)
  /\ UNCHANGED <<call, lane, taken, teardown, how, round, entrusted>>

\* own(): a released resource is not owned again; after teardown took the set
\* it is released at once.  The lane answers for what it is given while open,
\* and for what tracked work or the release of such a resource gives it.
Own(r, by) ==
  /\ release[r] = "none"
  /\ owned' = IF taken THEN owned \ {r} ELSE owned \cup {r}
  /\ release' = IF taken THEN released(r) ELSE release
  /\ entrusted' = IF taken /\ by = "stray" THEN entrusted ELSE entrusted \cup {r}
  /\ UNCHANGED <<call, lane, taken, teardown, how, round>>

OwnFromCall(c, r) == call[c] = "running" /\ Own(r, "tracked")
OwnFromRelease(q, r) == release[q] = "disposing" /\ Own(r, IF q \in entrusted THEN "tracked" ELSE "stray")
StrayOwn(r) == Own(r, "stray")

\* The released resource's dispose(), called in a later microtask.
Dispose(r) ==
  /\ release[r] = "pending"
  /\ release' = [release EXCEPT ![r] = "disposing"]
  /\ UNCHANGED <<call, lane, owned, taken, teardown, how, round, entrusted>>

\* It settles; an error is swallowed.
Disposed(r) ==
  /\ release[r] = "disposing"
  /\ release' = [release EXCEPT ![r] = "done"]
  /\ UNCHANGED <<call, lane, owned, taken, teardown, how, round, entrusted>>
-----------------------------------------------------------------------------
(* Teardown. *)

\* close() and dispose(): the first of them seals the lane synchronously and
\* enqueues the closing operation; later ones share its promise.
Close(kind) ==
  /\ ~sealed
  /\ how' = kind
  /\ teardown' = "queued"
  /\ lane' = Append(lane, Teardown)
  /\ UNCHANGED <<call, owned, taken, release, round, entrusted>>

\* The closing operation reaches the head: close() runs its operation at once.
BeginTeardown ==
  /\ teardown = "queued" /\ Head(lane) = Teardown
  /\ teardown' = IF how = "dispose" THEN "borrowers" ELSE "finalizing"
  /\ round' = {}
  /\ UNCHANGED <<call, lane, owned, taken, release, how, entrusted>>

\* drain(): another round while there is work, and past it when there is none.
RoundOver == round \cap work = {}
DrainMore ==
  /\ teardown \in {"borrowers", "nested", "rest"}
  /\ RoundOver /\ work # {}
  /\ round' = work
  /\ UNCHANGED <<call, lane, owned, taken, release, teardown, how, entrusted>>
\* Mutant: drain() waits for one round and does not look again.
DrainedOnce(phase) == teardown = phase /\ RoundOver /\ (work = {} \/ round # {})
Drained(phase) == teardown = phase /\ RoundOver /\ work = {}

\* Mutant: teardown empties the owned set without releasing its members.
ForgetOwned ==
  /\ Drained("borrowers")
  /\ teardown' = "resources"
  /\ taken' = TRUE /\ owned' = {} /\ round' = owned
  /\ UNCHANGED <<call, lane, release, how, entrusted>>

\* Borrowers are gone: take the owned set and release every member.
ReleaseOwned ==
  /\ Drained("borrowers")
  /\ teardown' = "resources"
  /\ taken' = TRUE /\ owned' = {}
  /\ release' = [r \in Resources |-> IF r \in owned THEN released(r)[r] ELSE release[r]]
  /\ round' = owned
  /\ UNCHANGED <<call, lane, how, entrusted>>

\* Promise.all over those releases has settled: drain what they left behind.
OwnedReleased ==
  /\ teardown = "resources" /\ RoundOver
  /\ teardown' = "nested" /\ round' = {}
  /\ UNCHANGED <<call, lane, owned, taken, release, how, entrusted>>

Finalize ==
  /\ Drained("nested")
  /\ teardown' = "finalizing"
  /\ UNCHANGED <<call, lane, owned, taken, release, how, round, entrusted>>

\* The operation settles, or throws: `finally` drains once more.
Finalized ==
  /\ teardown = "finalizing"
  /\ teardown' = "rest" /\ round' = {}
  /\ UNCHANGED <<call, lane, owned, taken, release, how, entrusted>>

Closed ==
  /\ Drained("rest")
  /\ teardown' = "closed"
  /\ lane' = Tail(lane)
  /\ call' = [c \in Calls |-> IF call[c] = "joined" THEN "settled" ELSE call[c]]
  /\ UNCHANGED <<owned, taken, release, how, round, entrusted>>
-----------------------------------------------------------------------------
CallStep ==
  \/ \E b \in Borrowers : Admit(b)
  \/ \E p \in Proofs : Serialize(p)
  \/ \E o \in Operations : Run(o)
  \/ \E c \in Calls : Start(c) \/ Settle(c)

ResourceStep ==
  \/ \E r \in Resources : Release(r) \/ StrayOwn(r) \/ Dispose(r) \/ Disposed(r)
  \/ \E r \in Resources, c \in Calls : OwnFromCall(c, r)
  \/ \E r, q \in Resources : OwnFromRelease(q, r)

TeardownStep ==
  \/ \E kind \in {"close", "dispose"} : Close(kind)
  \/ BeginTeardown \/ DrainMore \/ ReleaseOwned \/ OwnedReleased
  \/ Finalize \/ Finalized \/ Closed

Next == CallStep \/ ResourceStep \/ TeardownStep
Spec == Init /\ [][Next]_vars

\* The event loop runs every microtask, and calls and dispose() settle: as long as one
\* of these steps is possible, one of them is taken.
LaneRuns ==
  \/ \E c \in Calls : Start(c) \/ Settle(c)
  \/ \E r \in Resources : Dispose(r) \/ Disposed(r)
  \/ BeginTeardown \/ DrainMore \/ ReleaseOwned \/ OwnedReleased
  \/ Finalize \/ Finalized \/ Closed
FairSpec == Spec /\ WF_vars(LaneRuns)
-----------------------------------------------------------------------------
(* Safety. *)

InFlight == {c \in Calls : call[c] \in {"admitted", "running"}}
Finalizing == how = "dispose" /\ teardown \in {"finalizing", "rest", "closed"}

\* dispose() releases no owned resource while a borrower, a proof or an earlier
\* operation may still use it: all of them have settled when the releases begin.
BorrowersDrainFirst ==
  how = "dispose" /\ teardown \in {"resources", "nested", "finalizing", "rest", "closed"}
    => InFlight = {}

\* The owner's metadata is finalized last: everything the lane answers for has
\* been disposed of by then, also what was acquired during the shutdown or by
\* another resource's dispose().
FinalizeIsLast ==
  Finalizing => \A r \in entrusted : release[r] = "done"

\* Once sealed, the lane starts no call that was not admitted before.
SealedAdmitsNothing ==
  [][sealed => InFlight' \subseteq InFlight]_vars

\* A resource is disposed of once, however often it is owned and released.
DisposedOnce ==
  [][\A r \in Resources : release[r] \in {"disposing", "done"} => release'[r] \in {"done", release[r]}]_vars
-----------------------------------------------------------------------------
(* Liveness. *)

\* Every call is refused or settles.
CallsAnswered == \A c \in Calls : call[c] # "idle" ~> call[c] \in {"settled", "refused"}

\* What the lane guarantees at every moment (RuntimeLifecycleLane): its borrowers drain first
\* and its metadata is finalized last.
LaneSafe == TypeOK /\ BorrowersDrainFirst /\ FinalizeIsLast

\* What no step of the lane does: start a call once sealed (admit, serialize, run), or dispose
\* of a resource a second time (release).
LaneSteps == SealedAdmitsNothing /\ DisposedOnce
=============================================================================
