-------------------------- MODULE EffectTransaction --------------------------
(***************************************************************************)
(* One sealed effect transaction: src/src/effect-transaction.ts from       *)
(* sealEffectTransaction on, with the RuntimeLifecycleLane it creates.     *)
(*                                                                         *)
(* A branch of a speculative world has been executed and sealed.  Callers  *)
(* validate it (is what it read still current?), commit it (apply its      *)
(* effect to the real workspace), borrow its inputs for other queries and  *)
(* retire it, all concurrently: every await is a place where any other     *)
(* caller may run.  The backend's own calls (validate, commit, reconstruct,*)
(* dispose) are external: their answers are chosen nondeterministically.   *)
(*                                                                         *)
(* A proof request is a validate() call of the transaction or of a         *)
(* reconstructed query; both go through the lane in the order of their     *)
(* calls.  Each element of Validators, Queries and Committers is one call. *)
(***************************************************************************)
EXTENDS Naturals, Sequences, FiniteSets

CONSTANTS Validators,    \* validate() calls of the transaction
          Queries,       \* reconstruct() calls, each with its own later validate()
          Committers,    \* commit() calls
          NoCall         \* validationPromise === undefined

ASSUME CallsAssumption ==
  /\ NoCall \notin Validators \cup Queries
  /\ Validators \cap Queries = {}

Calls == Validators \cup Queries

VARIABLES
  state,          \* attempt.stateValue
  validation,     \* the latest settled proof of the output
  validationPromise, \* the proof request a commit would wait for
  lane,           \* proof requests serialized on the lane, the first one may run
  call,           \* what each proof request is doing
  outcome,        \* EffectCommit.outcome
  apply,          \* the operation commit.run was given
  proof,          \* the proof request that operation waits for
  commit,         \* what each commit() caller has been told
  query,          \* the resource each reconstruct() call holds
  inputs,         \* takeCommittedInputs
  closing,        \* lifecycle.dispose
  backend,        \* sealed.dispose
  inputsOnly,     \* the branch retains inputs only and can never be committed
  overlap         \* history: the running proof overlapped an effect

proofVars == <<validation, validationPromise, lane, call, overlap>>
commitVars == <<outcome, apply, proof, commit>>
borrowVars == <<query, inputs>>
retireVars == <<closing, backend, inputsOnly>>
vars == <<state, proofVars, commitVars, borrowVars, retireVars>>

-----------------------------------------------------------------------------
States == {"sealed", "validating", "validated", "committing", "committed",
           "aborting", "aborted", "poisoned"}

TypeOK ==
  /\ state \in States
  /\ validation \in {"none", "valid", "invalid"}
  /\ validationPromise \in Calls \cup {NoCall}
  /\ lane \in Seq(Calls)
  /\ call \in [Calls -> {"idle", "parked", "woken", "queued", "running", "void",
                         "proved", "unproved", "unavailable"}]
  /\ outcome \in {"none", "pending", "fulfilled", "poisoned"}
  /\ apply \in {"idle", "reserved", "proving", "applying"}
  /\ proof \in Calls \cup {NoCall}
  /\ commit \in [Committers -> {"idle", "joined", "applied", "recoverable",
                                "refused", "poisoned"}]
  /\ query \in [Queries -> {"idle", "pending", "none", "held", "releasing", "released"}]
  /\ inputs \in {"none", "pending", "delivered", "dropped"}
  /\ closing \in {"open", "queued", "draining", "retiring", "closed"}
  /\ backend \in {"live", "released"}
  /\ inputsOnly \in BOOLEAN
  /\ overlap \in BOOLEAN

Init ==
  /\ state = "sealed"
  /\ validation = "none"
  /\ validationPromise = NoCall
  /\ lane = <<>>
  /\ call = [c \in Calls |-> "idle"]
  /\ outcome = "none"
  /\ apply = "idle"
  /\ proof = NoCall
  /\ commit = [c \in Committers |-> "idle"]
  /\ query = [q \in Queries |-> "idle"]
  /\ inputs = "none"
  /\ closing = "open"
  /\ backend = "live"
  /\ inputsOnly \in BOOLEAN
  /\ overlap = FALSE

laneSealed == closing # "open"
unavailable == state \in {"aborted", "aborting", "poisoned"}
Settled == {"proved", "unproved", "unavailable"}

\* Mutant: the commit is not tracked.
TrackedButCommit ==
  lane # <<>> \/ inputs = "pending" \/ \E q \in Queries : query[q] = "pending"
\* Mutant: a query is tracked until its holder has released it.
TrackedAndHeld ==
  \/ lane # <<>> \/ outcome = "pending" \/ inputs = "pending"
  \/ \E q \in Queries : query[q] \in {"pending", "held"}

\* PendingTasks: what the lane tracks and dispose drains before it finalizes.
Tracked ==
  \/ lane # <<>>
  \/ outcome = "pending"
  \/ inputs = "pending"
  \/ \E q \in Queries : query[q] = "pending"

-----------------------------------------------------------------------------
\* validate(): park behind a pending commit, refuse when retired, else queue.

Enqueue(c) ==
  IF laneSealed \/ unavailable
    THEN /\ call' = [call EXCEPT ![c] = "unavailable"]
         /\ UNCHANGED <<lane, validationPromise>>
    ELSE /\ call' = [call EXCEPT ![c] = "queued"]
         /\ lane' = Append(lane, c)
         /\ validationPromise' = c

Validate(c) ==
  /\ call[c] = "idle"
  /\ c \in Queries => query[c] \in {"held", "releasing", "released"}
  /\ IF ~laneSealed /\ outcome = "pending"
       THEN /\ call' = [call EXCEPT ![c] = "parked"]
            /\ UNCHANGED <<lane, validationPromise>>
       ELSE Enqueue(c)
  /\ UNCHANGED <<state, validation, overlap, commitVars, borrowVars, retireVars>>

\* The commit it was parked behind settled; nothing is re-read but the lane and state.
Resume(c) ==
  /\ call[c] = "woken"
  /\ Enqueue(c)
  /\ UNCHANGED <<state, validation, overlap, commitVars, borrowVars, retireVars>>

\* Mutant: a proof that starts overwrites whatever state it finds.
StartAlways == IF Head(lane) \in Validators THEN "validating" ELSE state
startedState ==
  IF Head(lane) \in Validators /\ state \in {"sealed", "validated"}
    THEN "validating" ELSE state

\* A query's proof borrows the lane but never the transaction's own state; once the
\* query is disposed it can only answer query_disposed.
StartProof ==
  /\ lane # <<>>
  /\ call[Head(lane)] = "queued"
  /\ call' = [call EXCEPT ![Head(lane)] =
       IF Head(lane) \in Queries /\ query[Head(lane)] # "held" THEN "void" ELSE "running"]
  /\ state' = startedState
  /\ overlap' = (apply = "applying")
  /\ UNCHANGED <<validation, validationPromise, lane, commitVars, borrowVars, retireVars>>

finishedState(result) ==
  CASE state # "validating" -> state
    [] state = "validating" /\ result = "valid" -> "validated"
    [] OTHER -> "sealed"

FinishProof(result) ==
  /\ lane # <<>>
  /\ \/ call[Head(lane)] = "running"
     \/ call[Head(lane)] = "void" /\ result = "invalid"
  /\ call' = [call EXCEPT ![Head(lane)] = IF result = "valid" THEN "proved" ELSE "unproved"]
  /\ lane' = Tail(lane)
  /\ validationPromise' =
       IF validationPromise = Head(lane) THEN NoCall ELSE validationPromise
  /\ IF Head(lane) \in Validators
       THEN /\ validation' = result
            /\ state' = finishedState(result)
       ELSE UNCHANGED <<validation, state>>
  /\ UNCHANGED <<overlap, commitVars, borrowVars, retireVars>>

-----------------------------------------------------------------------------
\* commit(): join a pending or final outcome, or reserve the whole operation.

Answer(c, result) == commit' = [commit EXCEPT ![c] = result]

\* An admitted effect keeps its settlement, also during and after retirement.
JoinCommit(c) ==
  /\ ~inputsOnly /\ outcome # "none"
  /\ Answer(c, CASE outcome = "pending" -> "joined"
                 [] outcome = "fulfilled" -> "applied"
                 [] outcome = "poisoned" -> "poisoned")
  /\ UNCHANGED <<outcome, apply>>

unproven == validationPromise = NoCall /\ validation # "valid"

DeclineCommit(c) ==
  /\ \/ /\ inputsOnly \/ (outcome = "none" /\ laneSealed)
        /\ Answer(c, "recoverable")
     \/ /\ ~inputsOnly /\ outcome = "none" /\ ~laneSealed /\ unproven
        /\ Answer(c, "refused")
  /\ UNCHANGED <<outcome, apply>>

Reserve(c) ==
  /\ Answer(c, "joined")
  /\ outcome' = "pending"
  /\ apply' = "reserved"

ReserveCommit(c) ==
  /\ ~inputsOnly /\ outcome = "none" /\ ~laneSealed /\ ~unproven
  /\ Reserve(c)

Commit(c) ==
  /\ commit[c] = "idle"
  /\ JoinCommit(c) \/ DeclineCommit(c) \/ ReserveCommit(c)
  /\ UNCHANGED <<state, proofVars, proof, borrowVars, retireVars>>

\* The reserved operation starts in a later microtask and reads validationPromise then.
AwaitProof ==
  /\ apply = "reserved"
  /\ apply' = "proving"
  /\ proof' = validationPromise
  /\ UNCHANGED <<state, proofVars, outcome, commit, borrowVars, retireVars>>

proofSettled == proof \notin {c \in Calls : call[c] \notin Settled}
authorized == validation = "valid" /\ state = "validated"

\* What follows the check of the proof; as a mutant of BeginEffect, the check dropped.
ApplyEffect ==
  /\ apply = "proving" /\ proofSettled
  /\ apply' = "applying"
  /\ state' = "committing"
  /\ overlap' = (overlap \/ \E c \in Calls : call[c] = "running")
  /\ UNCHANGED <<validation, validationPromise, lane, call, outcome, proof, commit,
                 borrowVars, retireVars>>

BeginEffect == authorized /\ ApplyEffect

\* Every caller that joined and every validation that parked sees the settlement.
Settle(result, told) ==
  /\ outcome' = result
  /\ apply' = "idle"
  /\ proof' = NoCall
  /\ commit' = [c \in Committers |-> IF commit[c] = "joined" THEN told ELSE commit[c]]
  /\ call' = [c \in Calls |-> IF call[c] = "parked" THEN "woken" ELSE call[c]]
  /\ UNCHANGED <<validationPromise, lane, overlap, borrowVars, retireVars>>

\* A recoverable failure clears the outcome: another attempt may be made.
Recover == Settle("none", "recoverable") /\ state' = "sealed" /\ validation' = "none"

DeclineEffect ==
  /\ apply = "proving" /\ proofSettled /\ ~authorized
  /\ Recover

EffectApplied ==
  /\ apply = "applying"
  /\ Settle("fulfilled", "applied")
  /\ state' = "committed"
  /\ UNCHANGED validation

\* The backend proves that it restored what it had written.
EffectRestored == apply = "applying" /\ Recover

\* Any other failure of sealed.commit().
EffectLost ==
  /\ apply = "applying"
  /\ Settle("poisoned", "poisoned")
  /\ state' = "poisoned"
  /\ validation' = "none"

-----------------------------------------------------------------------------
\* Borrowed resources: reconstructed queries and the inputs of a committed effect.

Reconstruct(q) ==
  /\ query[q] = "idle"
  /\ ~laneSealed
  /\ state \in {"sealed", "validating", "validated", "committed"}
  /\ query' = [query EXCEPT ![q] = "pending"]
  /\ UNCHANGED <<state, proofVars, commitVars, inputs, retireVars>>

\* reconstruct answers a resource to hold, or nothing.
Reconstructed(q) ==
  /\ query[q] = "pending"
  /\ \E result \in {"held", "none"} : query' = [query EXCEPT ![q] = result]
  /\ UNCHANGED <<state, proofVars, commitVars, inputs, retireVars>>

DisposeQuery(q) ==
  /\ query[q] = "held"
  /\ query' = [query EXCEPT ![q] = "releasing"]
  /\ UNCHANGED <<state, proofVars, commitVars, inputs, retireVars>>

QueryReleased(q) ==
  /\ query[q] = "releasing"
  /\ query' = [query EXCEPT ![q] = "released"]
  /\ UNCHANGED <<state, proofVars, commitVars, inputs, retireVars>>

TakeCommittedInputs ==
  /\ inputs = "none" /\ ~laneSealed /\ state = "committed"
  /\ inputs' = "pending"
  /\ UNCHANGED <<state, proofVars, commitVars, query, retireVars>>

\* Inputs that arrive after retirement began are disposed, not delivered.
InputsArrive ==
  /\ inputs = "pending"
  /\ inputs' = IF laneSealed THEN "dropped" ELSE "delivered"
  /\ UNCHANGED <<state, proofVars, commitVars, query, retireVars>>

-----------------------------------------------------------------------------
\* abort() / dispose(): seal at once, finalize after everything admitted before.

Abort ==
  /\ closing = "open"
  /\ closing' = "queued"
  /\ state' = IF state \notin {"committed", "poisoned"} /\ outcome = "none"
                THEN "aborting" ELSE state
  /\ UNCHANGED <<backend, inputsOnly, proofVars, commitVars, borrowVars>>

StartClose ==
  /\ closing = "queued" /\ lane = <<>>
  /\ closing' = "draining"
  /\ UNCHANGED <<state, backend, inputsOnly, proofVars, commitVars, borrowVars>>

Finalize ==
  /\ closing = "draining" /\ ~Tracked
  /\ closing' = "retiring"
  /\ query' = [q \in Queries |-> IF query[q] = "held" THEN "releasing" ELSE query[q]]
  /\ UNCHANGED <<state, backend, inputsOnly, proofVars, commitVars, inputs>>

ReleaseBackend ==
  /\ closing = "retiring" /\ backend = "live"
  /\ \A q \in Queries : query[q] # "releasing"
  /\ backend' = "released"
  /\ UNCHANGED <<state, closing, inputsOnly, proofVars, commitVars, borrowVars>>

FinishClose ==
  /\ closing = "retiring" /\ backend = "released"
  /\ closing' = "closed"
  /\ state' = IF state \in {"committed", "poisoned"} THEN state ELSE "aborted"
  /\ UNCHANGED <<backend, inputsOnly, proofVars, commitVars, borrowVars>>

-----------------------------------------------------------------------------
Proof == StartProof \/ \E result \in {"valid", "invalid"} : FinishProof(result)
Effect == AwaitProof \/ BeginEffect \/ DeclineEffect
          \/ EffectApplied \/ EffectRestored \/ EffectLost
Close == StartClose \/ Finalize \/ ReleaseBackend \/ FinishClose

Next ==
  \/ \E c \in Calls : Validate(c) \/ Resume(c)
  \/ Proof
  \/ \E c \in Committers : Commit(c)
  \/ Effect
  \/ \E q \in Queries : Reconstruct(q) \/ Reconstructed(q) \/ DisposeQuery(q)
                        \/ QueryReleased(q)
  \/ TakeCommittedInputs \/ InputsArrive
  \/ Abort \/ Close

\* The host runs every ready continuation, and each backend call settles.
Fairness ==
  /\ WF_vars(Proof)
  /\ WF_vars(Effect)
  /\ WF_vars(Close)
  /\ WF_vars(InputsArrive)
  /\ \A c \in Calls : WF_vars(Resume(c))
  /\ \A q \in Queries : WF_vars(Reconstructed(q)) /\ WF_vars(QueryReleased(q))

Spec == Init /\ [][Next]_vars
FairSpec == Spec /\ Fairness

-----------------------------------------------------------------------------
(* Properties *)

\* All callers of commit() who are told that the effect settled are told the same:
\* the outcome is shared, and a poisoned or successful attempt is never repeated.
AgreedOutcome ==
  \A c, d \in Committers :
    {commit[c], commit[d]} \subseteq {"applied", "poisoned"} => commit[c] = commit[d]

\* dispose() drains before it finalizes: once sealed.dispose() has been called, no proof,
\* effect, reconstruction or input transfer is using the branch, and every reconstructed
\* query's resource has been given back.
ReleasedIsIdle ==
  backend = "released" =>
    /\ ~Tracked
    /\ apply = "idle"
    /\ \A q \in Queries : query[q] \notin {"held", "releasing"}

\* Once retirement has begun without a reserved commit, no effect is ever applied,
\* whatever validations and commits are still in flight.
NoEffectAfterAbort ==
  [][closing # "open" /\ outcome = "none" => outcome' = "none" /\ apply' = "idle"]_vars

\* An abort that found no commit stays visible until the transaction is aborted:
\* a validation that settles late does not bring it back to life.
AbortSticks ==
  [][state = "aborting" => state' \in {"aborting", "aborted"}]_vars

\* A proof that authorizes an effect never ran while an attempt at that effect was
\* writing: it was neither begun before the attempt nor finished after its rollback.
ProofOutsideEffect ==
  [][state # "validated" /\ state' = "validated" => ~overlap]_vars

\* The transaction keeps the promise of EffectOnce.
effect ==
  CASE outcome = "fulfilled" -> "done"
    [] outcome = "poisoned" -> "lost"
    [] apply \in {"reserved", "proving"} -> "reserved"
    [] apply = "applying" -> "applying"
    [] OTHER -> "none"

Once == INSTANCE EffectOnce WITH
  proven <- authorized, retired <- laneSealed, resource <- backend

\* At most one effect, reserved before retirement, begun under a proof obtained since the
\* last attempt, and settled before the branch is released.
AppliesOnce == Once!Promise

\* Moreover a reserved effect settles, and a retired branch is released.
AppliesAndReleases == Once!Spec

\* Retirement always completes: nothing it drains waits for it.
RetirementCompletes == closing = "queued" ~> closing = "closed"

\* Every caller of validate() and commit() is answered, also one that parked behind a
\* commit or joined it, and also when the transaction is retired meanwhile.
CallersAnswered ==
  /\ \A c \in Calls : call[c] \in {"parked", "queued"} ~> call[c] \in Settled
  /\ \A c \in Committers : commit[c] = "joined" ~> commit[c] # "joined"

\* What holds of a transaction at every moment (EffectTransaction): every caller is told the one
\* outcome, and a released transaction is idle.
EffectSafe == TypeOK /\ AgreedOutcome /\ ReleasedIsIdle

\* What no step does: begin an effect after an abort, undo an abort, or let a proof stand that
\* was taken beside the effect (commit, abort, validate).
EffectSteps == NoEffectAfterAbort /\ AbortSticks /\ ProofOutsideEffect

\* What happens in the end: a retirement completes, every caller is answered, an applied effect
\* is released (retire, commit).
EffectProgress == RetirementCompletes /\ CallersAnswered /\ AppliesAndReleases
=============================================================================
