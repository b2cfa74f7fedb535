----------------------- MODULE EffectTransactionProofs -----------------------
(***************************************************************************)
(* Proofs about EffectTransaction, for every number of proof requests,     *)
(* queries and commit calls.  Inv is the inductive invariant: it ties the  *)
(* transaction's state to the commit's outcome (one fact kept in two       *)
(* variables of the code), a running proof to the state it may change, and *)
(* the phase of the retirement to the work that may still be in flight.    *)
(***************************************************************************)
EXTENDS EffectTransaction, TLAPS

\* The state a caller reads and the outcome commit() shares never disagree.
OutcomeInv ==
  /\ outcome = "pending" <=> apply # "idle"
  /\ apply = "applying" <=> state = "committing"
  /\ outcome = "fulfilled" <=> state = "committed"
  /\ outcome = "poisoned" <=> state = "poisoned"
  /\ \A c \in Committers : commit[c] = "applied" => outcome = "fulfilled"
  /\ \A c \in Committers : commit[c] = "poisoned" => outcome = "poisoned"

\* While the state is "validating" the transaction's own proof heads the lane.
ProofInv ==
  state = "validating" =>
    /\ lane # <<>>
    /\ Head(lane) \in Validators
    /\ call[Head(lane)] = "running"
    /\ ~overlap

\* Finalization starts only when nothing tracked is left, and admits nothing new.
RetireInv ==
  /\ state = "aborting" => laneSealed /\ outcome = "none"
  /\ state = "aborted" => closing = "closed"
  /\ closing \in {"retiring", "closed"} =>
       ~Tracked /\ \A q \in Queries : query[q] # "held"
  /\ backend = "released" =>
       /\ closing \in {"retiring", "closed"}
       /\ \A q \in Queries : query[q] # "releasing"

Inv == TypeOK /\ OutcomeInv /\ ProofInv /\ RetireInv

-----------------------------------------------------------------------------
\* The initial states of a sealed branch satisfy the invariant.
LEMMA InitInv == Init => Inv
<1> SUFFICES ASSUME Init PROVE Inv
  OBVIOUS
<1>1. overlap \in BOOLEAN /\ inputsOnly \in BOOLEAN
  BY DEF Init
<1>2. TypeOK
  BY <1>1 DEF Init, TypeOK, States
<1>3. OutcomeInv /\ ProofInv
  BY DEF Init, OutcomeInv, ProofInv
<1>4. RetireInv
  BY DEF Init, RetireInv
<1> QED
  BY <1>2, <1>3, <1>4 DEF Inv

\* Every step of the transaction, whoever takes it, preserves the invariant.
LEMMA StepInv == Inv /\ [Next]_vars => Inv'
<1> SUFFICES ASSUME Inv, [Next]_vars PROVE Inv'
  OBVIOUS
<1> USE CallsAssumption DEF Inv, Calls, proofVars, commitVars, borrowVars, retireVars
<1>1. ASSUME NEW c \in Calls, Validate(c) PROVE Inv'
  <2>0. lane \in Seq(Calls) /\ c \in Calls => Append(lane, c) \in Seq(Calls)
    OBVIOUS
  <2>1. TypeOK'
    <3>1. lane' \in Seq(Calls) /\ validationPromise' \in Calls \cup {NoCall}
      BY <1>1, <2>0 DEF Validate, Enqueue, TypeOK
    <3>2. call' \in [Calls -> {"idle", "parked", "woken", "queued", "running", "void",
                              "proved", "unproved", "unavailable"}]
      BY <1>1 DEF Validate, Enqueue, TypeOK
    <3> QED
      BY <1>1, <3>1, <3>2 DEF Validate, TypeOK, commitVars, borrowVars, retireVars
  <2>2. OutcomeInv'
    BY <1>1 DEF Validate, Enqueue, laneSealed, unavailable, TypeOK, OutcomeInv
  <2>3. ProofInv'
    BY <1>1 DEF Validate, Enqueue, laneSealed, unavailable, TypeOK, OutcomeInv, ProofInv
  <2>4. RetireInv'
    BY <1>1 DEF Validate, Enqueue, laneSealed, unavailable, TypeOK, OutcomeInv,
      RetireInv, Tracked
  <2>5. QED  BY <2>1, <2>2, <2>3, <2>4
<1>2. ASSUME NEW c \in Calls, Resume(c) PROVE Inv'
  <2>0. lane \in Seq(Calls) /\ c \in Calls => Append(lane, c) \in Seq(Calls)
    OBVIOUS
  <2>1. TypeOK'
    <3>1. lane' \in Seq(Calls) /\ validationPromise' \in Calls \cup {NoCall}
      BY <1>2, <2>0 DEF Resume, Enqueue, TypeOK
    <3>2. call' \in [Calls -> {"idle", "parked", "woken", "queued", "running", "void",
                              "proved", "unproved", "unavailable"}]
      BY <1>2 DEF Resume, Enqueue, TypeOK
    <3> QED
      BY <1>2, <3>1, <3>2 DEF Resume, TypeOK, commitVars, borrowVars, retireVars
  <2>2. OutcomeInv'
    BY <1>2 DEF Resume, Enqueue, laneSealed, unavailable, TypeOK, OutcomeInv
  <2>3. ProofInv'
    BY <1>2 DEF Resume, Enqueue, laneSealed, unavailable, TypeOK, OutcomeInv, ProofInv
  <2>4. RetireInv'
    BY <1>2 DEF Resume, Enqueue, laneSealed, unavailable, TypeOK, OutcomeInv,
      RetireInv, Tracked
  <2>5. QED  BY <2>1, <2>2, <2>3, <2>4
<1>3. ASSUME StartProof PROVE Inv'
  <2>1. TypeOK'
    BY <1>3 DEF StartProof, startedState, TypeOK, States
  <2>2. OutcomeInv'
    BY <1>3 DEF StartProof, startedState, TypeOK, OutcomeInv
  <2>3. ProofInv'
    BY <1>3 DEF StartProof, startedState, TypeOK, OutcomeInv, ProofInv
  <2>4. RetireInv'
    BY <1>3 DEF StartProof, startedState, TypeOK, OutcomeInv, RetireInv, Tracked, laneSealed
  <2>5. QED  BY <2>1, <2>2, <2>3, <2>4
<1>4. ASSUME NEW result \in {"valid", "invalid"}, FinishProof(result) PROVE Inv'
  <2>1. TypeOK'
    BY <1>4 DEF FinishProof, finishedState, TypeOK, States
  <2>2. OutcomeInv'
    <3>1. state' = state \/ (state = "validating" /\ state' \in {"validated", "sealed"})
      BY <1>4 DEF FinishProof, finishedState
    <3>2. UNCHANGED commitVars
      BY <1>4 DEF FinishProof, finishedState
    <3> QED
      BY <3>1, <3>2 DEF OutcomeInv, commitVars
  <2>3. ProofInv'
    BY <1>4 DEF FinishProof, finishedState, TypeOK, OutcomeInv, ProofInv
  <2>4. RetireInv'
    BY <1>4 DEF FinishProof, finishedState, TypeOK, OutcomeInv, RetireInv, Tracked, laneSealed
  <2>5. QED  BY <2>1, <2>2, <2>3, <2>4
<1>5. ASSUME NEW c \in Committers, Commit(c) PROVE Inv'
  <2>1. TypeOK'
    BY <1>5 DEF Commit, JoinCommit, DeclineCommit, ReserveCommit, Reserve, Answer, laneSealed, TypeOK, States
  <2>2. OutcomeInv'
    BY <1>5 DEF Commit, JoinCommit, DeclineCommit, ReserveCommit, Reserve, Answer, laneSealed, TypeOK, OutcomeInv
  <2>3. ProofInv'
    BY <1>5 DEF Commit, JoinCommit, DeclineCommit, ReserveCommit, Reserve, Answer, laneSealed, TypeOK, OutcomeInv, ProofInv
  <2>4. RetireInv'
    BY <1>5 DEF Commit, JoinCommit, DeclineCommit, ReserveCommit, Reserve, Answer, laneSealed, TypeOK, OutcomeInv, RetireInv, Tracked
  <2>5. QED  BY <2>1, <2>2, <2>3, <2>4
<1>6. ASSUME AwaitProof PROVE Inv'
  <2>1. TypeOK'
    BY <1>6 DEF AwaitProof, TypeOK, States
  <2>2. OutcomeInv'
    BY <1>6 DEF AwaitProof, TypeOK, OutcomeInv
  <2>3. ProofInv'
    BY <1>6 DEF AwaitProof, TypeOK, OutcomeInv, ProofInv
  <2>4. RetireInv'
    BY <1>6 DEF AwaitProof, TypeOK, OutcomeInv, RetireInv, Tracked, laneSealed
  <2>5. QED  BY <2>1, <2>2, <2>3, <2>4
<1>7. ASSUME BeginEffect PROVE Inv'
  <2>1. TypeOK'
    BY <1>7 DEF BeginEffect, ApplyEffect, authorized, TypeOK, States
  <2>2. OutcomeInv'
    BY <1>7 DEF BeginEffect, ApplyEffect, authorized, TypeOK, OutcomeInv
  <2>3. ProofInv'
    BY <1>7 DEF BeginEffect, ApplyEffect, authorized, TypeOK, OutcomeInv, ProofInv
  <2>4. RetireInv'
    BY <1>7 DEF BeginEffect, ApplyEffect, authorized, TypeOK, OutcomeInv, RetireInv, Tracked, laneSealed
  <2>5. QED  BY <2>1, <2>2, <2>3, <2>4
<1>8. ASSUME DeclineEffect PROVE Inv'
  <2>1. TypeOK'
    BY <1>8 DEF DeclineEffect, Recover, Settle, TypeOK, States
  <2>2. OutcomeInv'
    BY <1>8 DEF DeclineEffect, Recover, Settle, TypeOK, OutcomeInv
  <2>3. ProofInv'
    BY <1>8 DEF DeclineEffect, Recover, Settle, TypeOK, OutcomeInv, ProofInv
  <2>4. RetireInv'
    BY <1>8 DEF DeclineEffect, Recover, Settle, TypeOK, OutcomeInv, RetireInv,
      Tracked, laneSealed
  <2>5. QED  BY <2>1, <2>2, <2>3, <2>4
<1>9. ASSUME EffectApplied PROVE Inv'
  <2>1. TypeOK'
    BY <1>9 DEF EffectApplied, Settle, TypeOK, States
  <2>2. OutcomeInv'
    BY <1>9 DEF EffectApplied, Settle, TypeOK, OutcomeInv
  <2>3. ProofInv'
    BY <1>9 DEF EffectApplied, Settle, TypeOK, OutcomeInv, ProofInv
  <2>4. RetireInv'
    BY <1>9 DEF EffectApplied, Settle, TypeOK, OutcomeInv, RetireInv, Tracked, laneSealed
  <2>5. QED  BY <2>1, <2>2, <2>3, <2>4
<1>10. ASSUME EffectRestored PROVE Inv'
  <2>1. TypeOK'
    BY <1>10 DEF EffectRestored, Recover, Settle, TypeOK, States
  <2>2. OutcomeInv'
    BY <1>10 DEF EffectRestored, Recover, Settle, TypeOK, OutcomeInv
  <2>3. ProofInv'
    BY <1>10 DEF EffectRestored, Recover, Settle, TypeOK, OutcomeInv, ProofInv
  <2>4. RetireInv'
    BY <1>10 DEF EffectRestored, Recover, Settle, TypeOK, OutcomeInv, RetireInv,
      Tracked, laneSealed
  <2>5. QED  BY <2>1, <2>2, <2>3, <2>4
<1>11. ASSUME EffectLost PROVE Inv'
  <2>1. TypeOK'
    BY <1>11 DEF EffectLost, Settle, TypeOK, States
  <2>2. OutcomeInv'
    BY <1>11 DEF EffectLost, Settle, TypeOK, OutcomeInv
  <2>3. ProofInv'
    BY <1>11 DEF EffectLost, Settle, TypeOK, OutcomeInv, ProofInv
  <2>4. RetireInv'
    BY <1>11 DEF EffectLost, Settle, TypeOK, OutcomeInv, RetireInv, Tracked, laneSealed
  <2>5. QED  BY <2>1, <2>2, <2>3, <2>4
<1>12. ASSUME NEW q \in Queries, Reconstruct(q) PROVE Inv'
  <2>1. TypeOK'
    BY <1>12 DEF Reconstruct, laneSealed, TypeOK, States
  <2>2. OutcomeInv'
    BY <1>12 DEF Reconstruct, laneSealed, TypeOK, OutcomeInv
  <2>3. ProofInv'
    BY <1>12 DEF Reconstruct, laneSealed, TypeOK, OutcomeInv, ProofInv
  <2>4. RetireInv'
    BY <1>12 DEF Reconstruct, laneSealed, TypeOK, OutcomeInv, RetireInv, Tracked
  <2>5. QED  BY <2>1, <2>2, <2>3, <2>4
<1>13. ASSUME NEW q \in Queries, Reconstructed(q) PROVE Inv'
  <2>1. TypeOK'
    BY <1>13 DEF Reconstructed, TypeOK, States
  <2>2. OutcomeInv'
    BY <1>13 DEF Reconstructed, TypeOK, OutcomeInv
  <2>3. ProofInv'
    BY <1>13 DEF Reconstructed, TypeOK, OutcomeInv, ProofInv
  <2>4. RetireInv'
    BY <1>13 DEF Reconstructed, TypeOK, OutcomeInv, RetireInv, Tracked, laneSealed
  <2>5. QED  BY <2>1, <2>2, <2>3, <2>4
<1>14. ASSUME NEW q \in Queries, DisposeQuery(q) PROVE Inv'
  <2>1. TypeOK'
    BY <1>14 DEF DisposeQuery, TypeOK, States
  <2>2. OutcomeInv'
    BY <1>14 DEF DisposeQuery, TypeOK, OutcomeInv
  <2>3. ProofInv'
    BY <1>14 DEF DisposeQuery, TypeOK, OutcomeInv, ProofInv
  <2>4. RetireInv'
    BY <1>14 DEF DisposeQuery, TypeOK, OutcomeInv, RetireInv, Tracked, laneSealed
  <2>5. QED  BY <2>1, <2>2, <2>3, <2>4
<1>15. ASSUME NEW q \in Queries, QueryReleased(q) PROVE Inv'
  <2>1. TypeOK'
    BY <1>15 DEF QueryReleased, TypeOK, States
  <2>2. OutcomeInv'
    BY <1>15 DEF QueryReleased, TypeOK, OutcomeInv
  <2>3. ProofInv'
    BY <1>15 DEF QueryReleased, TypeOK, OutcomeInv, ProofInv
  <2>4. RetireInv'
    BY <1>15 DEF QueryReleased, TypeOK, OutcomeInv, RetireInv, Tracked, laneSealed
  <2>5. QED  BY <2>1, <2>2, <2>3, <2>4
<1>16. ASSUME TakeCommittedInputs PROVE Inv'
  <2>1. TypeOK'
    BY <1>16 DEF TakeCommittedInputs, laneSealed, TypeOK, States
  <2>2. OutcomeInv'
    BY <1>16 DEF TakeCommittedInputs, laneSealed, TypeOK, OutcomeInv
  <2>3. ProofInv'
    BY <1>16 DEF TakeCommittedInputs, laneSealed, TypeOK, OutcomeInv, ProofInv
  <2>4. RetireInv'
    BY <1>16 DEF TakeCommittedInputs, laneSealed, TypeOK, OutcomeInv, RetireInv, Tracked
  <2>5. QED  BY <2>1, <2>2, <2>3, <2>4
<1>17. ASSUME InputsArrive PROVE Inv'
  <2>1. TypeOK'
    BY <1>17 DEF InputsArrive, TypeOK, States
  <2>2. OutcomeInv'
    BY <1>17 DEF InputsArrive, TypeOK, OutcomeInv
  <2>3. ProofInv'
    BY <1>17 DEF InputsArrive, TypeOK, OutcomeInv, ProofInv
  <2>4. RetireInv'
    BY <1>17 DEF InputsArrive, TypeOK, OutcomeInv, RetireInv, Tracked, laneSealed
  <2>5. QED  BY <2>1, <2>2, <2>3, <2>4
<1>18. ASSUME Abort PROVE Inv'
  <2>1. TypeOK'
    BY <1>18 DEF Abort, TypeOK, States
  <2>2. OutcomeInv'
    BY <1>18 DEF Abort, TypeOK, OutcomeInv
  <2>3. ProofInv'
    BY <1>18 DEF Abort, TypeOK, OutcomeInv, ProofInv
  <2>4. RetireInv'
    BY <1>18 DEF Abort, TypeOK, OutcomeInv, RetireInv, Tracked, laneSealed
  <2>5. QED  BY <2>1, <2>2, <2>3, <2>4
<1>19. ASSUME StartClose PROVE Inv'
  <2>1. TypeOK'
    BY <1>19 DEF StartClose, TypeOK, States
  <2>2. OutcomeInv'
    BY <1>19 DEF StartClose, TypeOK, OutcomeInv
  <2>3. ProofInv'
    BY <1>19 DEF StartClose, TypeOK, OutcomeInv, ProofInv
  <2>4. RetireInv'
    BY <1>19 DEF StartClose, TypeOK, OutcomeInv, RetireInv, Tracked, laneSealed
  <2>5. QED  BY <2>1, <2>2, <2>3, <2>4
<1>20. ASSUME Finalize PROVE Inv'
  <2>1. TypeOK'
    BY <1>20 DEF Finalize, TypeOK, States
  <2>2. OutcomeInv'
    BY <1>20 DEF Finalize, TypeOK, OutcomeInv
  <2>3. ProofInv'
    BY <1>20 DEF Finalize, TypeOK, OutcomeInv, ProofInv
  <2>4. RetireInv'
    BY <1>20 DEF Finalize, TypeOK, OutcomeInv, RetireInv, Tracked, laneSealed
  <2>5. QED  BY <2>1, <2>2, <2>3, <2>4
<1>21. ASSUME ReleaseBackend PROVE Inv'
  <2>1. TypeOK'
    BY <1>21 DEF ReleaseBackend, TypeOK, States
  <2>2. OutcomeInv'
    BY <1>21 DEF ReleaseBackend, TypeOK, OutcomeInv
  <2>3. ProofInv'
    BY <1>21 DEF ReleaseBackend, TypeOK, OutcomeInv, ProofInv
  <2>4. RetireInv'
    BY <1>21 DEF ReleaseBackend, TypeOK, OutcomeInv, RetireInv, Tracked, laneSealed
  <2>5. QED  BY <2>1, <2>2, <2>3, <2>4
<1>22. ASSUME FinishClose PROVE Inv'
  <2>1. TypeOK'
    BY <1>22 DEF FinishClose, TypeOK, States
  <2>2. OutcomeInv'
    BY <1>22 DEF FinishClose, TypeOK, OutcomeInv, RetireInv, Tracked
  <2>3. ProofInv'
    BY <1>22 DEF FinishClose, TypeOK, OutcomeInv, ProofInv
  <2>4. RetireInv'
    BY <1>22 DEF FinishClose, TypeOK, OutcomeInv, RetireInv, Tracked, laneSealed
  <2>5. QED  BY <2>1, <2>2, <2>3, <2>4
<1>23. CASE UNCHANGED vars
  BY <1>23 DEF TypeOK, OutcomeInv, ProofInv, RetireInv, Tracked, laneSealed,
    vars
<1> QED
  BY <1>1, <1>2, <1>3, <1>4, <1>5, <1>6, <1>7, <1>8, <1>9, <1>10, <1>11, <1>12, <1>13,
    <1>14, <1>15, <1>16, <1>17, <1>18, <1>19, <1>20, <1>21, <1>22, <1>23 DEF Next,
    Proof, Effect, Close

-----------------------------------------------------------------------------
\* Every reachable state satisfies the inductive invariant.
THEOREM Invariance == Spec => []Inv
  BY InitInv, StepInv, PTL DEF Spec

\* The variables keep their types.
THEOREM TypeCorrect == Spec => []TypeOK
  BY Invariance, PTL DEF Inv

\* Callers of commit() agree on the settlement of the effect.
THEOREM OutcomeIsShared == Spec => []AgreedOutcome
<1>1. Inv => AgreedOutcome
  BY DEF Inv, OutcomeInv, AgreedOutcome
<1> QED
  BY <1>1, Invariance, PTL

\* The branch is released only when nothing uses it any more.
THEOREM ReleaseIsLast == Spec => []ReleasedIsIdle
<1>1. Inv => ReleasedIsIdle
  BY DEF Inv, TypeOK, OutcomeInv, RetireInv, ReleasedIsIdle, Tracked
<1> QED
  BY <1>1, Invariance, PTL

\* A retirement that found no reserved commit is final, and so is an abort.
LEMMA RetireStep ==
  Inv /\ [Next]_vars =>
    /\ closing # "open" /\ outcome = "none" => outcome' = "none" /\ apply' = "idle"
    /\ state = "aborting" => state' \in {"aborting", "aborted"}
<1> SUFFICES ASSUME Inv, [Next]_vars
             PROVE /\ closing # "open" /\ outcome = "none" => outcome' = "none" /\ apply' = "idle"
                   /\ state = "aborting" => state' \in {"aborting", "aborted"}
  OBVIOUS
<1> DEFINE Final ==
      /\ closing # "open" /\ outcome = "none" => outcome' = "none" /\ apply' = "idle"
      /\ state = "aborting" => state' \in {"aborting", "aborted"}
<1> USE DEF Inv, proofVars, commitVars, borrowVars, retireVars
<1>1. ASSUME NEW c \in Calls, Validate(c) PROVE Final
  BY <1>1 DEF Validate, Enqueue, laneSealed, unavailable, TypeOK, OutcomeInv, RetireInv
<1>2. ASSUME NEW c \in Calls, Resume(c) PROVE Final
  BY <1>2 DEF Resume, Enqueue, laneSealed, unavailable, TypeOK, OutcomeInv, RetireInv
<1>3. ASSUME StartProof PROVE Final
  BY <1>3 DEF StartProof, startedState, TypeOK, OutcomeInv, RetireInv, laneSealed
<1>4. ASSUME NEW result \in {"valid", "invalid"}, FinishProof(result) PROVE Final
  BY <1>4 DEF FinishProof, finishedState, TypeOK, OutcomeInv, RetireInv, laneSealed
<1>5. ASSUME NEW c \in Committers, Commit(c) PROVE Final
  BY <1>5 DEF Commit, JoinCommit, DeclineCommit, ReserveCommit, Reserve, Answer, laneSealed, TypeOK, OutcomeInv, RetireInv
<1>6. ASSUME AwaitProof PROVE Final
  BY <1>6 DEF AwaitProof, TypeOK, OutcomeInv, RetireInv, laneSealed
<1>7. ASSUME BeginEffect PROVE Final
  BY <1>7 DEF BeginEffect, ApplyEffect, authorized, TypeOK, OutcomeInv, RetireInv, laneSealed
<1>8. ASSUME DeclineEffect PROVE Final
  BY <1>8 DEF DeclineEffect, Recover, Settle, TypeOK, OutcomeInv, RetireInv, laneSealed
<1>9. ASSUME EffectApplied PROVE Final
  BY <1>9 DEF EffectApplied, Settle, TypeOK, OutcomeInv, RetireInv, laneSealed
<1>10. ASSUME EffectRestored PROVE Final
  BY <1>10 DEF EffectRestored, Recover, Settle, TypeOK, OutcomeInv, RetireInv, laneSealed
<1>11. ASSUME EffectLost PROVE Final
  BY <1>11 DEF EffectLost, Settle, TypeOK, OutcomeInv, RetireInv, laneSealed
<1>12. ASSUME NEW q \in Queries, Reconstruct(q) PROVE Final
  BY <1>12 DEF Reconstruct, laneSealed, TypeOK, OutcomeInv, RetireInv
<1>13. ASSUME NEW q \in Queries, Reconstructed(q) PROVE Final
  BY <1>13 DEF Reconstructed, TypeOK, OutcomeInv, RetireInv, laneSealed
<1>14. ASSUME NEW q \in Queries, DisposeQuery(q) PROVE Final
  BY <1>14 DEF DisposeQuery, TypeOK, OutcomeInv, RetireInv, laneSealed
<1>15. ASSUME NEW q \in Queries, QueryReleased(q) PROVE Final
  BY <1>15 DEF QueryReleased, TypeOK, OutcomeInv, RetireInv, laneSealed
<1>16. ASSUME TakeCommittedInputs PROVE Final
  BY <1>16 DEF TakeCommittedInputs, laneSealed, TypeOK, OutcomeInv, RetireInv
<1>17. ASSUME InputsArrive PROVE Final
  BY <1>17 DEF InputsArrive, TypeOK, OutcomeInv, RetireInv, laneSealed
<1>18. ASSUME Abort PROVE Final
  BY <1>18 DEF Abort, TypeOK, OutcomeInv, RetireInv, laneSealed
<1>19. ASSUME StartClose PROVE Final
  BY <1>19 DEF StartClose, TypeOK, OutcomeInv, RetireInv, laneSealed
<1>20. ASSUME Finalize PROVE Final
  BY <1>20 DEF Finalize, TypeOK, OutcomeInv, RetireInv, laneSealed
<1>21. ASSUME ReleaseBackend PROVE Final
  BY <1>21 DEF ReleaseBackend, TypeOK, OutcomeInv, RetireInv, laneSealed
<1>22. ASSUME FinishClose PROVE Final
  BY <1>22 DEF FinishClose, TypeOK, OutcomeInv, RetireInv, laneSealed
<1>23. CASE UNCHANGED vars
  BY <1>23 DEF OutcomeInv, TypeOK, vars
<1> QED
  BY <1>1, <1>2, <1>3, <1>4, <1>5, <1>6, <1>7, <1>8, <1>9, <1>10, <1>11, <1>12, <1>13,
    <1>14, <1>15, <1>16, <1>17, <1>18, <1>19, <1>20, <1>21, <1>22, <1>23 DEF Next,
    Proof, Effect, Close

\* No effect is applied after a retirement that found none reserved.
THEOREM RetirementForbidsEffect == Spec => NoEffectAfterAbort
<1>1. Inv /\ [Next]_vars =>
        [closing # "open" /\ outcome = "none" => outcome' = "none" /\ apply' = "idle"]_vars
  BY RetireStep
<1> QED
  BY <1>1, Invariance, PTL DEF Spec, NoEffectAfterAbort

\* A late validation does not revive an aborted transaction.
THEOREM AbortIsFinal == Spec => AbortSticks
<1>1. Inv /\ [Next]_vars => [state = "aborting" => state' \in {"aborting", "aborted"}]_vars
  BY RetireStep
<1> QED
  BY <1>1, Invariance, PTL DEF Spec, AbortSticks

\* A proof that authorizes an effect did not overlap an earlier attempt at it.
THEOREM ProofIsFresh == Spec => ProofOutsideEffect
<1>1. Inv /\ [Next]_vars => [state # "validated" /\ state' = "validated" => ~overlap]_vars
  <2> SUFFICES ASSUME Inv, Next, state # "validated", state' = "validated" PROVE ~overlap
    OBVIOUS
  <2> USE DEF Inv, proofVars, commitVars, borrowVars, retireVars
  <2>1. ASSUME NEW c \in Calls, Validate(c) PROVE ~overlap
    BY <2>1 DEF Validate, Enqueue, laneSealed, unavailable, ProofInv, TypeOK, OutcomeInv
  <2>2. ASSUME NEW c \in Calls, Resume(c) PROVE ~overlap
    BY <2>2 DEF Resume, Enqueue, laneSealed, unavailable, ProofInv, TypeOK, OutcomeInv
  <2>3. ASSUME StartProof PROVE ~overlap
    BY <2>3 DEF StartProof, startedState, ProofInv, TypeOK, OutcomeInv
  <2>4. ASSUME NEW result \in {"valid", "invalid"}, FinishProof(result) PROVE ~overlap
    BY <2>4 DEF FinishProof, finishedState, ProofInv, TypeOK, OutcomeInv
  <2>5. ASSUME NEW c \in Committers, Commit(c) PROVE ~overlap
    BY <2>5 DEF Commit, JoinCommit, DeclineCommit, ReserveCommit, Reserve, Answer, laneSealed, ProofInv, TypeOK, OutcomeInv
  <2>6. ASSUME AwaitProof PROVE ~overlap
    BY <2>6 DEF AwaitProof, ProofInv, TypeOK, OutcomeInv
  <2>7. ASSUME BeginEffect PROVE ~overlap
    BY <2>7 DEF BeginEffect, ApplyEffect, authorized, ProofInv, TypeOK, OutcomeInv
  <2>8. ASSUME DeclineEffect PROVE ~overlap
    BY <2>8 DEF DeclineEffect, Recover, Settle, ProofInv, TypeOK, OutcomeInv
  <2>9. ASSUME EffectApplied PROVE ~overlap
    BY <2>9 DEF EffectApplied, Settle, ProofInv, TypeOK, OutcomeInv
  <2>10. ASSUME EffectRestored PROVE ~overlap
    BY <2>10 DEF EffectRestored, Recover, Settle, ProofInv, TypeOK, OutcomeInv
  <2>11. ASSUME EffectLost PROVE ~overlap
    BY <2>11 DEF EffectLost, Settle, ProofInv, TypeOK, OutcomeInv
  <2>12. ASSUME NEW q \in Queries, Reconstruct(q) PROVE ~overlap
    BY <2>12 DEF Reconstruct, laneSealed, ProofInv, TypeOK, OutcomeInv
  <2>13. ASSUME NEW q \in Queries, Reconstructed(q) PROVE ~overlap
    BY <2>13 DEF Reconstructed, ProofInv, TypeOK, OutcomeInv
  <2>14. ASSUME NEW q \in Queries, DisposeQuery(q) PROVE ~overlap
    BY <2>14 DEF DisposeQuery, ProofInv, TypeOK, OutcomeInv
  <2>15. ASSUME NEW q \in Queries, QueryReleased(q) PROVE ~overlap
    BY <2>15 DEF QueryReleased, ProofInv, TypeOK, OutcomeInv
  <2>16. ASSUME TakeCommittedInputs PROVE ~overlap
    BY <2>16 DEF TakeCommittedInputs, laneSealed, ProofInv, TypeOK, OutcomeInv
  <2>17. ASSUME InputsArrive PROVE ~overlap
    BY <2>17 DEF InputsArrive, ProofInv, TypeOK, OutcomeInv
  <2>18. ASSUME Abort PROVE ~overlap
    BY <2>18 DEF Abort, ProofInv, TypeOK, OutcomeInv
  <2>19. ASSUME StartClose PROVE ~overlap
    BY <2>19 DEF StartClose, ProofInv, TypeOK, OutcomeInv
  <2>20. ASSUME Finalize PROVE ~overlap
    BY <2>20 DEF Finalize, ProofInv, TypeOK, OutcomeInv
  <2>21. ASSUME ReleaseBackend PROVE ~overlap
    BY <2>21 DEF ReleaseBackend, ProofInv, TypeOK, OutcomeInv
  <2>22. ASSUME FinishClose PROVE ~overlap
    BY <2>22 DEF FinishClose, ProofInv, TypeOK, OutcomeInv
  <2> QED
    BY <2>1, <2>2, <2>3, <2>4, <2>5, <2>6, <2>7, <2>8, <2>9, <2>10, <2>11, <2>12,
      <2>13, <2>14, <2>15, <2>16, <2>17, <2>18, <2>19, <2>20, <2>21, <2>22 DEF Next,
      Proof, Effect, Close
<1> QED
  BY <1>1, Invariance, PTL DEF Spec, ProofOutsideEffect

\* Every step of the transaction is a step of EffectOnce or leaves its variables alone.
LEMMA RefineStep == Inv /\ [Next]_vars => [Once!Next]_(Once!vars)
<1> SUFFICES ASSUME Inv, [Next]_vars PROVE [Once!Next]_(Once!vars)
  OBVIOUS
<1> USE DEF Inv, effect, authorized, laneSealed,
            proofVars, commitVars, borrowVars, retireVars
<1>1. ASSUME NEW c \in Calls, Validate(c) PROVE [Once!Next]_(Once!vars)
  BY <1>1 DEF Validate, Enqueue, laneSealed, unavailable, Once!vars, TypeOK, OutcomeInv,
    ProofInv, RetireInv, Tracked
<1>2. ASSUME NEW c \in Calls, Resume(c) PROVE [Once!Next]_(Once!vars)
  BY <1>2 DEF Resume, Enqueue, laneSealed, unavailable, Once!vars, TypeOK, OutcomeInv,
    ProofInv, RetireInv, Tracked
<1>3. ASSUME StartProof PROVE [Once!Next]_(Once!vars)
  BY <1>3 DEF StartProof, startedState, Once!Next, Once!Doubt, Once!vars, TypeOK, OutcomeInv,
    ProofInv, RetireInv, Tracked
<1>4. ASSUME NEW result \in {"valid", "invalid"}, FinishProof(result) PROVE [Once!Next]_(Once!vars)
  BY <1>4 DEF FinishProof, finishedState, Once!Next, Once!Prove, Once!Doubt, Once!vars, TypeOK,
    OutcomeInv, ProofInv, RetireInv, Tracked
<1>5. ASSUME NEW c \in Committers, Commit(c) PROVE [Once!Next]_(Once!vars)
  BY <1>5 DEF Commit, JoinCommit, DeclineCommit, ReserveCommit, Reserve, Answer, laneSealed, Once!Next, Once!Reserve, Once!vars, TypeOK,
    OutcomeInv, ProofInv, RetireInv, Tracked
<1>6. ASSUME AwaitProof PROVE [Once!Next]_(Once!vars)
  BY <1>6 DEF AwaitProof, Once!vars, TypeOK, OutcomeInv, ProofInv, RetireInv, Tracked
<1>7. ASSUME BeginEffect PROVE [Once!Next]_(Once!vars)
  BY <1>7 DEF BeginEffect, ApplyEffect, authorized, Once!Next, Once!Begin, Once!vars, TypeOK,
    OutcomeInv, ProofInv, RetireInv, Tracked
<1>8. ASSUME DeclineEffect PROVE [Once!Next]_(Once!vars)
  BY <1>8 DEF DeclineEffect, Recover, Settle, Once!Next, Once!Decline, Once!vars,
    TypeOK, OutcomeInv, ProofInv, RetireInv, Tracked
<1>9. ASSUME EffectApplied PROVE [Once!Next]_(Once!vars)
  BY <1>9 DEF EffectApplied, Settle, Once!Next, Once!Settle, Once!vars, TypeOK,
    OutcomeInv, ProofInv, RetireInv, Tracked
<1>10. ASSUME EffectRestored PROVE [Once!Next]_(Once!vars)
  BY <1>10 DEF EffectRestored, Recover, Settle, Once!Next, Once!Settle, Once!vars,
    TypeOK, OutcomeInv, ProofInv, RetireInv, Tracked
<1>11. ASSUME EffectLost PROVE [Once!Next]_(Once!vars)
  BY <1>11 DEF EffectLost, Settle, Once!Next, Once!Settle, Once!vars, TypeOK,
    OutcomeInv, ProofInv, RetireInv, Tracked
<1>12. ASSUME NEW q \in Queries, Reconstruct(q) PROVE [Once!Next]_(Once!vars)
  BY <1>12 DEF Reconstruct, laneSealed, Once!vars, TypeOK, OutcomeInv, ProofInv,
    RetireInv, Tracked
<1>13. ASSUME NEW q \in Queries, Reconstructed(q) PROVE [Once!Next]_(Once!vars)
  BY <1>13 DEF Reconstructed, Once!vars, TypeOK, OutcomeInv, ProofInv, RetireInv, Tracked
<1>14. ASSUME NEW q \in Queries, DisposeQuery(q) PROVE [Once!Next]_(Once!vars)
  BY <1>14 DEF DisposeQuery, Once!vars, TypeOK, OutcomeInv, ProofInv, RetireInv, Tracked
<1>15. ASSUME NEW q \in Queries, QueryReleased(q) PROVE [Once!Next]_(Once!vars)
  BY <1>15 DEF QueryReleased, Once!vars, TypeOK, OutcomeInv, ProofInv, RetireInv, Tracked
<1>16. ASSUME TakeCommittedInputs PROVE [Once!Next]_(Once!vars)
  BY <1>16 DEF TakeCommittedInputs, laneSealed, Once!vars, TypeOK, OutcomeInv, ProofInv,
    RetireInv, Tracked
<1>17. ASSUME InputsArrive PROVE [Once!Next]_(Once!vars)
  BY <1>17 DEF InputsArrive, Once!vars, TypeOK, OutcomeInv, ProofInv, RetireInv, Tracked
<1>18. ASSUME Abort PROVE [Once!Next]_(Once!vars)
  BY <1>18 DEF Abort, Once!Next, Once!Retire, Once!vars, TypeOK, OutcomeInv, ProofInv,
    RetireInv, Tracked
<1>19. ASSUME StartClose PROVE [Once!Next]_(Once!vars)
  BY <1>19 DEF StartClose, Once!vars, TypeOK, OutcomeInv, ProofInv, RetireInv, Tracked
<1>20. ASSUME Finalize PROVE [Once!Next]_(Once!vars)
  BY <1>20 DEF Finalize, Once!vars, TypeOK, OutcomeInv, ProofInv, RetireInv, Tracked
<1>21. ASSUME ReleaseBackend PROVE [Once!Next]_(Once!vars)
  BY <1>21 DEF ReleaseBackend, Once!Next, Once!Release, Once!vars, TypeOK, OutcomeInv,
    ProofInv, RetireInv, Tracked
<1>22. ASSUME FinishClose PROVE [Once!Next]_(Once!vars)
  BY <1>22 DEF FinishClose, Once!Next, Once!Doubt, Once!vars, TypeOK, OutcomeInv,
    ProofInv, RetireInv, Tracked
<1>23. CASE UNCHANGED vars
  BY <1>23 DEF Once!vars, vars
<1> HIDE DEF effect, authorized, laneSealed
<1> QED
  BY <1>1, <1>2, <1>3, <1>4, <1>5, <1>6, <1>7, <1>8, <1>9, <1>10, <1>11, <1>12, <1>13,
    <1>14, <1>15, <1>16, <1>17, <1>18, <1>19, <1>20, <1>21, <1>22, <1>23 DEF Next,
    Proof, Effect, Close

\* The transaction implements EffectOnce: one effect at most, reserved before retirement,
\* begun under a proof obtained since the last attempt, settled before the release.
THEOREM Refinement == Spec => AppliesOnce
<1>1. ASSUME Init PROVE Once!Init
  <2>1. effect = "none" /\ backend = "live"
    BY <1>1 DEF Init, effect
  <2>2. authorized = FALSE /\ laneSealed = FALSE
    BY <1>1 DEF Init, authorized, laneSealed
  <2> QED
    BY <2>1, <2>2 DEF Once!Init
<1> QED
  BY <1>1, RefineStep, Invariance, PTL DEF Spec, AppliesOnce, Once!Promise

\* What the run `effect` checks at every moment of a transaction (sealEffectTransaction).
THEOREM TransactionSafe == Spec => []EffectSafe
  BY TypeCorrect, OutcomeIsShared, ReleaseIsLast, PTL DEF EffectSafe

\* ... and what it checks of every step.
THEOREM TransactionSteps == Spec => EffectSteps
  BY RetirementForbidsEffect, AbortIsFinal, ProofIsFresh DEF EffectSteps
=============================================================================
