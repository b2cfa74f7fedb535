------------------------- MODULE ActorAdoptionProofs -------------------------
(***************************************************************************)
(* Safety of ActorAdoption for any calls, previews and candidates: types,  *)
(* reservations, one effect per call and never a native run after it, and  *)
(* the refinement of ActorOnce.                                            *)
(*                                                                         *)
(* Inv is inductive.  The properties alone are not: that a second call     *)
(* cannot commit a committed branch needs to know where the first one's    *)
(* claim is kept, which is its reservation until adoption (ClaimInv), the  *)
(* consumed reservation after it (ConsumedInv), or the poisoned effect.    *)
(***************************************************************************)
EXTENDS ActorAdoption, TLAPS

\* A call has a candidate exactly while it holds or retains one.
ChoiceInv ==
  \A a \in Actors : choice[a] \in Candidates <=> pc[a] \in Holding \cup {"retaining"}

\* Nobody reserves a consumed candidate; a call that retains one consumed it.
ConsumedInv ==
  /\ \A c \in consumed : lease[c] = {}
  /\ \A a \in Actors : pc[a] = "retaining" => choice[a] \in consumed

\* A committed branch stays claimed by the call it was committed for.
ClaimInv ==
  \A c \in Exclusive : \A a \in committedFor[c] :
    /\ pc[a] = "adopting" => choice[a] = c
    /\ pc[a] = "adopting" \/ c \in consumed \/ effect[c] = "poisoned"

\* No call is about to commit a poisoned branch.
CommitInv ==
  \A a \in Actors : pc[a] = "committing" => effect[choice[a]] # "poisoned"

Inv ==
  /\ TypeOK /\ ReservationsAccounted /\ ChoiceInv
  /\ ConsumedInv /\ NoRerun /\ ClaimInv /\ CommitInv /\ AdoptedOnce

\* Nothing has been claimed at the start.
LEMMA InitInv == Init => Inv
  BY Setting DEF Init, Inv, TypeOK, ExecStates, Steps, Holding, ReservationsAccounted, ChoiceInv,
    ConsumedInv, NoRerun, ClaimInv, CommitInv, AdoptedOnce

\* Every step keeps every variable's type.
LEMMA TypeStep == TypeOK /\ [Next]_vars => TypeOK'
<1> SUFFICES ASSUME TypeOK, [Next]_vars PROVE TypeOK'
  OBVIOUS
<1> USE Setting
<1>1. ASSUME NEW a \in Actors, Arrive(a) PROVE TypeOK'
  BY <1>1 DEF Arrive, candidateVars, TypeOK, ExecStates, Steps, Holding
<1>2. ASSUME NEW a \in Actors, Decline(a) PROVE TypeOK'
  BY <1>2 DEF Decline, candidateVars, turnVars, TypeOK, ExecStates, Steps, Holding
<1>3. ASSUME NEW a \in Actors, NEW c \in Candidates, Choose(a, c) PROVE TypeOK'
  BY <1>3 DEF Choose, Ranked, Available, Unreserved, Preemptable, Awaiting, Waiting, Observing, Holding, TypeOK, ExecStates, Steps, Holding
<1>4. ASSUME NEW a \in Actors, WaitForWork(a) PROVE TypeOK'
  BY <1>4 DEF WaitForWork, candidateVars, turnVars, TypeOK, ExecStates, Steps, Holding
<1>5. ASSUME NEW a \in Actors, GiveUp(a) PROVE TypeOK'
  BY <1>5 DEF GiveUp, candidateVars, turnVars, TypeOK, ExecStates, Steps, Holding
<1>6. ASSUME NEW a \in Actors, Wake(a) PROVE TypeOK'
  BY <1>6 DEF Wake, candidateVars, turnVars, TypeOK, ExecStates, Steps, Holding
<1>7. ASSUME NEW a \in Actors, Authorized(a) PROVE TypeOK'
  BY <1>7 DEF Authorized, Break, Reject, TryAgain, Leave, Advance, released, candidateVars, turnVars, freed, Waiting, TypeOK, ExecStates, Steps, Holding
<1>8. ASSUME NEW a \in Actors, Join(a) PROVE TypeOK'
  BY <1>8 DEF Join, Break, Reject, TryAgain, Leave, Advance, released, candidateVars, turnVars, freed, Waiting, TypeOK, ExecStates, Steps, Holding
<1>9. ASSUME NEW a \in Actors, Prepare(a) PROVE TypeOK'
  BY <1>9 DEF Prepare, Break, Reject, TryAgain, Leave, Advance, released, candidateVars, turnVars, freed, Waiting, TypeOK, ExecStates, Steps, Holding
<1>10. ASSUME NEW a \in Actors, CommitApplied(a) PROVE TypeOK'
  BY <1>10 DEF CommitApplied, turnVars, TypeOK, ExecStates, Steps, Holding
<1>11. ASSUME NEW a \in Actors, CommitFailed(a) PROVE TypeOK'
  BY <1>11 DEF CommitFailed, Break, Reject, TryAgain, Leave, Advance, released, candidateVars, turnVars, freed, Waiting, TypeOK, ExecStates, Steps, Holding
<1>12. ASSUME NEW a \in Actors, CommitPoisoned(a) PROVE TypeOK'
  BY <1>12 DEF CommitPoisoned, Leave, released, turnVars, freed, Waiting, TypeOK, ExecStates, Steps, Holding
<1>13. ASSUME NEW a \in Actors, Adopt(a) PROVE TypeOK'
  <2>1. CASE choice[a] \in Exclusive
    <3>1. PICK stale \in SUBSET (Unreserved \ {choice[a]}) :
            Discarded(stale) /\ Notify(IF stale = {} THEN "availability" ELSE "evidence")
      BY <1>13, <2>1 DEF Adopt
    <3>2. exec' \in [Candidates -> ExecStates] /\ stored' \subseteq Candidates
      BY <3>1 DEF Discarded, TypeOK, ExecStates
    <3>3. woken' \subseteq Actors /\ changed' \subseteq Actors
      BY <3>1 DEF Notify, Waiting, Observing, TypeOK
    <3> QED
      BY <1>13, <2>1, <3>2, <3>3 DEF Adopt, released, turnVars, TypeOK, Steps, Holding
  <2>2. CASE choice[a] \notin Exclusive
    BY <1>13, <2>2 DEF Adopt, released, turnVars, TypeOK, Steps, Holding
  <2> QED
    BY <2>1, <2>2
<1>14. ASSUME NEW a \in Actors, Retained(a) PROVE TypeOK'
  BY <1>14 DEF Retained, turnVars, Notify, Quiet, Waiting, Observing, Holding, TypeOK, ExecStates, Steps, Holding
<1>15. ASSUME NEW a \in Actors, Serve(a) PROVE TypeOK'
  BY <1>15 DEF Serve, candidateVars, TypeOK, ExecStates, Steps, Holding
<1>16. ASSUME NEW a \in Actors, Fallback(a) PROVE TypeOK'
  BY <1>16 DEF Fallback, Preemptable, Unreserved, Discarded, Awaiting, Notify, Quiet, Waiting, Observing, Holding, TypeOK, ExecStates, Steps, Holding
<1>17. ASSUME NEW a \in Actors, NativeSettled(a) PROVE TypeOK'
  BY <1>17 DEF NativeSettled, Unreserved, Discarded, Notify, Quiet, Waiting, Observing, Holding, TypeOK, ExecStates, Steps, Holding
<1>18. ASSUME NEW c \in Candidates, Register(c) PROVE TypeOK'
  BY <1>18 DEF Register, turnVars, Notify, Quiet, Waiting, Observing, Holding, TypeOK, ExecStates, Steps, Holding
<1>19. ASSUME NEW c \in Candidates, Start(c) PROVE TypeOK'
  BY <1>19 DEF Start, actorVars, turnVars, TypeOK, ExecStates, Steps, Holding
<1>20. ASSUME NEW c \in Candidates, Succeed(c) PROVE TypeOK'
  BY <1>20 DEF Succeed, turnVars, Notify, Quiet, Waiting, Observing, Holding, TypeOK, ExecStates, Steps, Holding
<1>21. ASSUME NEW c \in Candidates, Fail(c) PROVE TypeOK'
  BY <1>21 DEF Fail, turnVars, Notify, Quiet, Waiting, Observing, Holding, TypeOK, ExecStates, Steps, Holding
<1>22. ASSUME NEW c \in Candidates, Discard(c) PROVE TypeOK'
  BY <1>22 DEF Discard, Discarded, Unreserved, turnVars, Notify, Quiet, Waiting, Observing, Holding, TypeOK, ExecStates, Steps, Holding
<1>23. ASSUME NEW c \in Candidates, DropTool(c) PROVE TypeOK'
  BY <1>23 DEF DropTool, Discarded, turnVars, Notify, Quiet, Waiting, Observing, Holding, TypeOK, ExecStates, Steps, Holding
<1>24. ASSUME NEW a \in Actors, Promoted(a) PROVE TypeOK'
  BY <1>24 DEF Promoted, candidateVars, turnVars, TypeOK, ExecStates, Steps, Holding
<1>25. ASSUME NEW a \in Actors, Cancel(a) PROVE TypeOK'
  BY <1>25 DEF Cancel, candidateVars, actorVars, TypeOK, ExecStates, Steps, Holding
<1>26. ASSUME NEW p \in Previews, NEW c \in Candidates, PreviewAcquire(p, c) PROVE TypeOK'
  BY <1>26 DEF PreviewAcquire, Available, turnVars, TypeOK, ExecStates, Steps, Holding
<1>27. ASSUME NEW p \in Previews, NEW c \in Candidates, PreviewRelease(p, c) PROVE TypeOK'
  BY <1>27 DEF PreviewRelease, turnVars, Notify, Quiet, Waiting, Observing, Holding, TypeOK, ExecStates, Steps, Holding
<1>28. ASSUME CloseTurn PROVE TypeOK'
  BY <1>28 DEF CloseTurn, candidateVars, actorVars, TypeOK, ExecStates, Steps, Holding
<1>29. ASSUME FinishTurn PROVE TypeOK'
  BY <1>29 DEF FinishTurn, candidateVars, actorVars, TypeOK, ExecStates, Steps, Holding
<1>30. ASSUME EndSession PROVE TypeOK'
  BY <1>30 DEF EndSession, Discarded, Notify, Quiet, Waiting, Observing, Holding, TypeOK, ExecStates, Steps, Holding
<1>31. CASE UNCHANGED vars
  BY <1>31 DEF vars, TypeOK, ExecStates, Steps, Holding
<1> QED
  BY <1>1, <1>2, <1>3, <1>4, <1>5, <1>6, <1>7, <1>8, <1>9, <1>10,
    <1>11, <1>12, <1>13, <1>14, <1>15, <1>16, <1>17, <1>18, <1>19, <1>20,
    <1>21, <1>22, <1>23, <1>24, <1>25, <1>26, <1>27, <1>28, <1>29, <1>30,
    <1>31
    DEF Next, ActorStep, WorkStep

\* A call's candidate comes and goes with its place in the search.
LEMMA ChoiceStep == TypeOK /\ ChoiceInv /\ [Next]_vars => ChoiceInv'
<1> SUFFICES ASSUME TypeOK /\ ChoiceInv, [Next]_vars PROVE ChoiceInv'
  OBVIOUS
<1> USE Setting
<1>1. ASSUME NEW a \in Actors, Arrive(a) PROVE ChoiceInv'
  BY <1>1 DEF Arrive, candidateVars, TypeOK, ChoiceInv, Holding, Steps
<1>2. ASSUME NEW a \in Actors, Decline(a) PROVE ChoiceInv'
  BY <1>2 DEF Decline, candidateVars, turnVars, TypeOK, ChoiceInv, Holding, Steps
<1>3. ASSUME NEW a \in Actors, NEW c \in Candidates, Choose(a, c) PROVE ChoiceInv'
  BY <1>3 DEF Choose, Ranked, Available, Unreserved, Preemptable, Awaiting, TypeOK, ChoiceInv, Holding, Steps
<1>4. ASSUME NEW a \in Actors, WaitForWork(a) PROVE ChoiceInv'
  BY <1>4 DEF WaitForWork, candidateVars, turnVars, TypeOK, ChoiceInv, Holding, Steps
<1>5. ASSUME NEW a \in Actors, GiveUp(a) PROVE ChoiceInv'
  BY <1>5 DEF GiveUp, candidateVars, turnVars, TypeOK, ChoiceInv, Holding, Steps
<1>6. ASSUME NEW a \in Actors, Wake(a) PROVE ChoiceInv'
  BY <1>6 DEF Wake, candidateVars, turnVars, TypeOK, ChoiceInv, Holding, Steps
<1>7. ASSUME NEW a \in Actors, Authorized(a) PROVE ChoiceInv'
  BY <1>7 DEF Authorized, Break, Reject, TryAgain, Leave, Advance, released, candidateVars, turnVars, TypeOK, ChoiceInv, Holding, Steps
<1>8. ASSUME NEW a \in Actors, Join(a) PROVE ChoiceInv'
  BY <1>8 DEF Join, Break, Reject, TryAgain, Leave, Advance, released, candidateVars, turnVars, TypeOK, ChoiceInv, Holding, Steps
<1>9. ASSUME NEW a \in Actors, Prepare(a) PROVE ChoiceInv'
  BY <1>9 DEF Prepare, Break, Reject, TryAgain, Leave, Advance, released, candidateVars, turnVars, TypeOK, ChoiceInv, Holding, Steps
<1>10. ASSUME NEW a \in Actors, CommitApplied(a) PROVE ChoiceInv'
  BY <1>10 DEF CommitApplied, turnVars, TypeOK, ChoiceInv, Holding, Steps
<1>11. ASSUME NEW a \in Actors, CommitFailed(a) PROVE ChoiceInv'
  BY <1>11 DEF CommitFailed, Break, Reject, TryAgain, Leave, Advance, released, candidateVars, turnVars, TypeOK, ChoiceInv, Holding, Steps
<1>12. ASSUME NEW a \in Actors, CommitPoisoned(a) PROVE ChoiceInv'
  BY <1>12 DEF CommitPoisoned, Leave, released, turnVars, TypeOK, ChoiceInv, Holding, Steps
<1>13. ASSUME NEW a \in Actors, Adopt(a) PROVE ChoiceInv'
  BY <1>13 DEF Adopt, released, Discarded, Unreserved, turnVars, TypeOK, ChoiceInv, Holding, Steps
<1>14. ASSUME NEW a \in Actors, Retained(a) PROVE ChoiceInv'
  BY <1>14 DEF Retained, turnVars, TypeOK, ChoiceInv, Holding, Steps
<1>15. ASSUME NEW a \in Actors, Serve(a) PROVE ChoiceInv'
  BY <1>15 DEF Serve, candidateVars, TypeOK, ChoiceInv, Holding, Steps
<1>16. ASSUME NEW a \in Actors, Fallback(a) PROVE ChoiceInv'
  BY <1>16 DEF Fallback, Preemptable, Unreserved, Discarded, Awaiting, TypeOK, ChoiceInv, Holding, Steps
<1>17. ASSUME NEW a \in Actors, NativeSettled(a) PROVE ChoiceInv'
  BY <1>17 DEF NativeSettled, Unreserved, Discarded, TypeOK, ChoiceInv, Holding, Steps
<1>18. ASSUME NEW c \in Candidates, Register(c) PROVE ChoiceInv'
  BY <1>18 DEF Register, turnVars, TypeOK, ChoiceInv, Holding, Steps
<1>19. ASSUME NEW c \in Candidates, Start(c) PROVE ChoiceInv'
  BY <1>19 DEF Start, actorVars, turnVars, TypeOK, ChoiceInv, Holding, Steps
<1>20. ASSUME NEW c \in Candidates, Succeed(c) PROVE ChoiceInv'
  BY <1>20 DEF Succeed, turnVars, TypeOK, ChoiceInv, Holding, Steps
<1>21. ASSUME NEW c \in Candidates, Fail(c) PROVE ChoiceInv'
  BY <1>21 DEF Fail, turnVars, TypeOK, ChoiceInv, Holding, Steps
<1>22. ASSUME NEW c \in Candidates, Discard(c) PROVE ChoiceInv'
  BY <1>22 DEF Discard, Discarded, Unreserved, turnVars, TypeOK, ChoiceInv, Holding, Steps
<1>23. ASSUME NEW c \in Candidates, DropTool(c) PROVE ChoiceInv'
  BY <1>23 DEF DropTool, Discarded, turnVars, TypeOK, ChoiceInv, Holding, Steps
<1>24. ASSUME NEW a \in Actors, Promoted(a) PROVE ChoiceInv'
  BY <1>24 DEF Promoted, candidateVars, turnVars, TypeOK, ChoiceInv, Holding, Steps
<1>25. ASSUME NEW a \in Actors, Cancel(a) PROVE ChoiceInv'
  BY <1>25 DEF Cancel, candidateVars, actorVars, TypeOK, ChoiceInv, Holding, Steps
<1>26. ASSUME NEW p \in Previews, NEW c \in Candidates, PreviewAcquire(p, c) PROVE ChoiceInv'
  BY <1>26 DEF PreviewAcquire, Available, turnVars, TypeOK, ChoiceInv, Holding, Steps
<1>27. ASSUME NEW p \in Previews, NEW c \in Candidates, PreviewRelease(p, c) PROVE ChoiceInv'
  BY <1>27 DEF PreviewRelease, turnVars, TypeOK, ChoiceInv, Holding, Steps
<1>28. ASSUME CloseTurn PROVE ChoiceInv'
  BY <1>28 DEF CloseTurn, candidateVars, actorVars, TypeOK, ChoiceInv, Holding, Steps
<1>29. ASSUME FinishTurn PROVE ChoiceInv'
  BY <1>29 DEF FinishTurn, candidateVars, actorVars, TypeOK, ChoiceInv, Holding, Steps
<1>30. ASSUME EndSession PROVE ChoiceInv'
  BY <1>30 DEF EndSession, Discarded, TypeOK, ChoiceInv, Holding, Steps
<1>31. CASE UNCHANGED vars
  BY <1>31 DEF vars, TypeOK, ChoiceInv, Holding, Steps
<1> QED
  BY <1>1, <1>2, <1>3, <1>4, <1>5, <1>6, <1>7, <1>8, <1>9, <1>10,
    <1>11, <1>12, <1>13, <1>14, <1>15, <1>16, <1>17, <1>18, <1>19, <1>20,
    <1>21, <1>22, <1>23, <1>24, <1>25, <1>26, <1>27, <1>28, <1>29, <1>30,
    <1>31
    DEF Next, ActorStep, WorkStep

\* Reservations are made and released with the candidate.
LEMMA ReservationStep == TypeOK /\ ChoiceInv /\ ReservationsAccounted /\ [Next]_vars => ReservationsAccounted'
<1> SUFFICES ASSUME TypeOK /\ ChoiceInv /\ ReservationsAccounted, [Next]_vars PROVE ReservationsAccounted'
  OBVIOUS
<1> USE Setting
<1>1. ASSUME NEW a \in Actors, Arrive(a) PROVE ReservationsAccounted'
  BY <1>1 DEF Arrive, candidateVars, TypeOK, ReservationsAccounted, ChoiceInv, Holding, Steps
<1>2. ASSUME NEW a \in Actors, Decline(a) PROVE ReservationsAccounted'
  BY <1>2 DEF Decline, candidateVars, turnVars, TypeOK, ReservationsAccounted, ChoiceInv, Holding, Steps
<1>3. ASSUME NEW a \in Actors, NEW c \in Candidates, Choose(a, c) PROVE ReservationsAccounted'
  BY <1>3 DEF Choose, Ranked, Available, Unreserved, Preemptable, Awaiting, TypeOK, ReservationsAccounted, ChoiceInv, Holding, Steps
<1>4. ASSUME NEW a \in Actors, WaitForWork(a) PROVE ReservationsAccounted'
  BY <1>4 DEF WaitForWork, candidateVars, turnVars, TypeOK, ReservationsAccounted, ChoiceInv, Holding, Steps
<1>5. ASSUME NEW a \in Actors, GiveUp(a) PROVE ReservationsAccounted'
  BY <1>5 DEF GiveUp, candidateVars, turnVars, TypeOK, ReservationsAccounted, ChoiceInv, Holding, Steps
<1>6. ASSUME NEW a \in Actors, Wake(a) PROVE ReservationsAccounted'
  BY <1>6 DEF Wake, candidateVars, turnVars, TypeOK, ReservationsAccounted, ChoiceInv, Holding, Steps
<1>7. ASSUME NEW a \in Actors, Authorized(a) PROVE ReservationsAccounted'
  BY <1>7 DEF Authorized, Break, Reject, TryAgain, Leave, Advance, released, candidateVars, turnVars, TypeOK, ReservationsAccounted, ChoiceInv, Holding, Steps
<1>8. ASSUME NEW a \in Actors, Join(a) PROVE ReservationsAccounted'
  BY <1>8 DEF Join, Break, Reject, TryAgain, Leave, Advance, released, candidateVars, turnVars, TypeOK, ReservationsAccounted, ChoiceInv, Holding, Steps
<1>9. ASSUME NEW a \in Actors, Prepare(a) PROVE ReservationsAccounted'
  BY <1>9 DEF Prepare, Break, Reject, TryAgain, Leave, Advance, released, candidateVars, turnVars, TypeOK, ReservationsAccounted, ChoiceInv, Holding, Steps
<1>10. ASSUME NEW a \in Actors, CommitApplied(a) PROVE ReservationsAccounted'
  BY <1>10 DEF CommitApplied, turnVars, TypeOK, ReservationsAccounted, ChoiceInv, Holding, Steps
<1>11. ASSUME NEW a \in Actors, CommitFailed(a) PROVE ReservationsAccounted'
  BY <1>11 DEF CommitFailed, Break, Reject, TryAgain, Leave, Advance, released, candidateVars, turnVars, TypeOK, ReservationsAccounted, ChoiceInv, Holding, Steps
<1>12. ASSUME NEW a \in Actors, CommitPoisoned(a) PROVE ReservationsAccounted'
  BY <1>12 DEF CommitPoisoned, Leave, released, turnVars, TypeOK, ReservationsAccounted, ChoiceInv, Holding, Steps
<1>13. ASSUME NEW a \in Actors, Adopt(a) PROVE ReservationsAccounted'
  BY <1>13 DEF Adopt, released, Discarded, Unreserved, turnVars, TypeOK, ReservationsAccounted, ChoiceInv, Holding, Steps
<1>14. ASSUME NEW a \in Actors, Retained(a) PROVE ReservationsAccounted'
  BY <1>14 DEF Retained, turnVars, TypeOK, ReservationsAccounted, ChoiceInv, Holding, Steps
<1>15. ASSUME NEW a \in Actors, Serve(a) PROVE ReservationsAccounted'
  BY <1>15 DEF Serve, candidateVars, TypeOK, ReservationsAccounted, ChoiceInv, Holding, Steps
<1>16. ASSUME NEW a \in Actors, Fallback(a) PROVE ReservationsAccounted'
  BY <1>16 DEF Fallback, Preemptable, Unreserved, Discarded, Awaiting, TypeOK, ReservationsAccounted, ChoiceInv, Holding, Steps
<1>17. ASSUME NEW a \in Actors, NativeSettled(a) PROVE ReservationsAccounted'
  BY <1>17 DEF NativeSettled, Unreserved, Discarded, TypeOK, ReservationsAccounted, ChoiceInv, Holding, Steps
<1>18. ASSUME NEW c \in Candidates, Register(c) PROVE ReservationsAccounted'
  BY <1>18 DEF Register, turnVars, TypeOK, ReservationsAccounted, ChoiceInv, Holding, Steps
<1>19. ASSUME NEW c \in Candidates, Start(c) PROVE ReservationsAccounted'
  BY <1>19 DEF Start, actorVars, turnVars, TypeOK, ReservationsAccounted, ChoiceInv, Holding, Steps
<1>20. ASSUME NEW c \in Candidates, Succeed(c) PROVE ReservationsAccounted'
  BY <1>20 DEF Succeed, turnVars, TypeOK, ReservationsAccounted, ChoiceInv, Holding, Steps
<1>21. ASSUME NEW c \in Candidates, Fail(c) PROVE ReservationsAccounted'
  BY <1>21 DEF Fail, turnVars, TypeOK, ReservationsAccounted, ChoiceInv, Holding, Steps
<1>22. ASSUME NEW c \in Candidates, Discard(c) PROVE ReservationsAccounted'
  BY <1>22 DEF Discard, Discarded, Unreserved, turnVars, TypeOK, ReservationsAccounted, ChoiceInv, Holding, Steps
<1>23. ASSUME NEW c \in Candidates, DropTool(c) PROVE ReservationsAccounted'
  BY <1>23 DEF DropTool, Discarded, turnVars, TypeOK, ReservationsAccounted, ChoiceInv, Holding, Steps
<1>24. ASSUME NEW a \in Actors, Promoted(a) PROVE ReservationsAccounted'
  BY <1>24 DEF Promoted, candidateVars, turnVars, TypeOK, ReservationsAccounted, ChoiceInv, Holding, Steps
<1>25. ASSUME NEW a \in Actors, Cancel(a) PROVE ReservationsAccounted'
  BY <1>25 DEF Cancel, candidateVars, actorVars, TypeOK, ReservationsAccounted, ChoiceInv, Holding, Steps
<1>26. ASSUME NEW p \in Previews, NEW c \in Candidates, PreviewAcquire(p, c) PROVE ReservationsAccounted'
  BY <1>26 DEF PreviewAcquire, Available, turnVars, TypeOK, ReservationsAccounted, ChoiceInv, Holding, Steps
<1>27. ASSUME NEW p \in Previews, NEW c \in Candidates, PreviewRelease(p, c) PROVE ReservationsAccounted'
  BY <1>27 DEF PreviewRelease, turnVars, TypeOK, ReservationsAccounted, ChoiceInv, Holding, Steps
<1>28. ASSUME CloseTurn PROVE ReservationsAccounted'
  BY <1>28 DEF CloseTurn, candidateVars, actorVars, TypeOK, ReservationsAccounted, ChoiceInv, Holding, Steps
<1>29. ASSUME FinishTurn PROVE ReservationsAccounted'
  BY <1>29 DEF FinishTurn, candidateVars, actorVars, TypeOK, ReservationsAccounted, ChoiceInv, Holding, Steps
<1>30. ASSUME EndSession PROVE ReservationsAccounted'
  BY <1>30 DEF EndSession, Discarded, TypeOK, ReservationsAccounted, ChoiceInv, Holding, Steps
<1>31. CASE UNCHANGED vars
  BY <1>31 DEF vars, TypeOK, ReservationsAccounted, ChoiceInv, Holding, Steps
<1> QED
  BY <1>1, <1>2, <1>3, <1>4, <1>5, <1>6, <1>7, <1>8, <1>9, <1>10,
    <1>11, <1>12, <1>13, <1>14, <1>15, <1>16, <1>17, <1>18, <1>19, <1>20,
    <1>21, <1>22, <1>23, <1>24, <1>25, <1>26, <1>27, <1>28, <1>29, <1>30,
    <1>31
    DEF Next, ActorStep, WorkStep

\* A consumed candidate is never reserved again.
LEMMA ConsumedStep == TypeOK /\ ChoiceInv /\ ReservationsAccounted /\ ConsumedInv /\ [Next]_vars => ConsumedInv'
<1> SUFFICES ASSUME TypeOK /\ ChoiceInv /\ ReservationsAccounted /\ ConsumedInv, [Next]_vars PROVE ConsumedInv'
  OBVIOUS
<1> USE Setting
<1>1. ASSUME NEW a \in Actors, Arrive(a) PROVE ConsumedInv'
  BY <1>1 DEF Arrive, candidateVars, TypeOK, ReservationsAccounted, ChoiceInv, Holding, Steps, ConsumedInv
<1>2. ASSUME NEW a \in Actors, Decline(a) PROVE ConsumedInv'
  BY <1>2 DEF Decline, candidateVars, turnVars, TypeOK, ReservationsAccounted, ChoiceInv, Holding, Steps, ConsumedInv
<1>3. ASSUME NEW a \in Actors, NEW c \in Candidates, Choose(a, c) PROVE ConsumedInv'
  BY <1>3 DEF Choose, Ranked, Available, Unreserved, Preemptable, Awaiting, TypeOK, ReservationsAccounted, ChoiceInv, Holding, Steps, ConsumedInv
<1>4. ASSUME NEW a \in Actors, WaitForWork(a) PROVE ConsumedInv'
  BY <1>4 DEF WaitForWork, candidateVars, turnVars, TypeOK, ReservationsAccounted, ChoiceInv, Holding, Steps, ConsumedInv
<1>5. ASSUME NEW a \in Actors, GiveUp(a) PROVE ConsumedInv'
  BY <1>5 DEF GiveUp, candidateVars, turnVars, TypeOK, ReservationsAccounted, ChoiceInv, Holding, Steps, ConsumedInv
<1>6. ASSUME NEW a \in Actors, Wake(a) PROVE ConsumedInv'
  BY <1>6 DEF Wake, candidateVars, turnVars, TypeOK, ReservationsAccounted, ChoiceInv, Holding, Steps, ConsumedInv
<1>7. ASSUME NEW a \in Actors, Authorized(a) PROVE ConsumedInv'
  BY <1>7 DEF Authorized, Break, Reject, TryAgain, Leave, Advance, released, candidateVars, turnVars, TypeOK, ReservationsAccounted, ChoiceInv, Holding, Steps, ConsumedInv
<1>8. ASSUME NEW a \in Actors, Join(a) PROVE ConsumedInv'
  BY <1>8 DEF Join, Break, Reject, TryAgain, Leave, Advance, released, candidateVars, turnVars, TypeOK, ReservationsAccounted, ChoiceInv, Holding, Steps, ConsumedInv
<1>9. ASSUME NEW a \in Actors, Prepare(a) PROVE ConsumedInv'
  BY <1>9 DEF Prepare, Break, Reject, TryAgain, Leave, Advance, released, candidateVars, turnVars, TypeOK, ReservationsAccounted, ChoiceInv, Holding, Steps, ConsumedInv
<1>10. ASSUME NEW a \in Actors, CommitApplied(a) PROVE ConsumedInv'
  BY <1>10 DEF CommitApplied, turnVars, TypeOK, ReservationsAccounted, ChoiceInv, Holding, Steps, ConsumedInv
<1>11. ASSUME NEW a \in Actors, CommitFailed(a) PROVE ConsumedInv'
  BY <1>11 DEF CommitFailed, Break, Reject, TryAgain, Leave, Advance, released, candidateVars, turnVars, TypeOK, ReservationsAccounted, ChoiceInv, Holding, Steps, ConsumedInv
<1>12. ASSUME NEW a \in Actors, CommitPoisoned(a) PROVE ConsumedInv'
  BY <1>12 DEF CommitPoisoned, Leave, released, turnVars, TypeOK, ReservationsAccounted, ChoiceInv, Holding, Steps, ConsumedInv
<1>13. ASSUME NEW a \in Actors, Adopt(a) PROVE ConsumedInv'
  BY <1>13 DEF Adopt, released, Discarded, Unreserved, turnVars, TypeOK, ReservationsAccounted, ChoiceInv, Holding, Steps, ConsumedInv
<1>14. ASSUME NEW a \in Actors, Retained(a) PROVE ConsumedInv'
  BY <1>14 DEF Retained, turnVars, TypeOK, ReservationsAccounted, ChoiceInv, Holding, Steps, ConsumedInv
<1>15. ASSUME NEW a \in Actors, Serve(a) PROVE ConsumedInv'
  BY <1>15 DEF Serve, candidateVars, TypeOK, ReservationsAccounted, ChoiceInv, Holding, Steps, ConsumedInv
<1>16. ASSUME NEW a \in Actors, Fallback(a) PROVE ConsumedInv'
  BY <1>16 DEF Fallback, Preemptable, Unreserved, Discarded, Awaiting, TypeOK, ReservationsAccounted, ChoiceInv, Holding, Steps, ConsumedInv
<1>17. ASSUME NEW a \in Actors, NativeSettled(a) PROVE ConsumedInv'
  BY <1>17 DEF NativeSettled, Unreserved, Discarded, TypeOK, ReservationsAccounted, ChoiceInv, Holding, Steps, ConsumedInv
<1>18. ASSUME NEW c \in Candidates, Register(c) PROVE ConsumedInv'
  BY <1>18 DEF Register, turnVars, TypeOK, ReservationsAccounted, ChoiceInv, Holding, Steps, ConsumedInv
<1>19. ASSUME NEW c \in Candidates, Start(c) PROVE ConsumedInv'
  BY <1>19 DEF Start, actorVars, turnVars, TypeOK, ReservationsAccounted, ChoiceInv, Holding, Steps, ConsumedInv
<1>20. ASSUME NEW c \in Candidates, Succeed(c) PROVE ConsumedInv'
  BY <1>20 DEF Succeed, turnVars, TypeOK, ReservationsAccounted, ChoiceInv, Holding, Steps, ConsumedInv
<1>21. ASSUME NEW c \in Candidates, Fail(c) PROVE ConsumedInv'
  BY <1>21 DEF Fail, turnVars, TypeOK, ReservationsAccounted, ChoiceInv, Holding, Steps, ConsumedInv
<1>22. ASSUME NEW c \in Candidates, Discard(c) PROVE ConsumedInv'
  BY <1>22 DEF Discard, Discarded, Unreserved, turnVars, TypeOK, ReservationsAccounted, ChoiceInv, Holding, Steps, ConsumedInv
<1>23. ASSUME NEW c \in Candidates, DropTool(c) PROVE ConsumedInv'
  BY <1>23 DEF DropTool, Discarded, turnVars, TypeOK, ReservationsAccounted, ChoiceInv, Holding, Steps, ConsumedInv
<1>24. ASSUME NEW a \in Actors, Promoted(a) PROVE ConsumedInv'
  BY <1>24 DEF Promoted, candidateVars, turnVars, TypeOK, ReservationsAccounted, ChoiceInv, Holding, Steps, ConsumedInv
<1>25. ASSUME NEW a \in Actors, Cancel(a) PROVE ConsumedInv'
  BY <1>25 DEF Cancel, candidateVars, actorVars, TypeOK, ReservationsAccounted, ChoiceInv, Holding, Steps, ConsumedInv
<1>26. ASSUME NEW p \in Previews, NEW c \in Candidates, PreviewAcquire(p, c) PROVE ConsumedInv'
  BY <1>26 DEF PreviewAcquire, Available, turnVars, TypeOK, ReservationsAccounted, ChoiceInv, Holding, Steps, ConsumedInv
<1>27. ASSUME NEW p \in Previews, NEW c \in Candidates, PreviewRelease(p, c) PROVE ConsumedInv'
  BY <1>27 DEF PreviewRelease, turnVars, TypeOK, ReservationsAccounted, ChoiceInv, Holding, Steps, ConsumedInv
<1>28. ASSUME CloseTurn PROVE ConsumedInv'
  BY <1>28 DEF CloseTurn, candidateVars, actorVars, TypeOK, ReservationsAccounted, ChoiceInv, Holding, Steps, ConsumedInv
<1>29. ASSUME FinishTurn PROVE ConsumedInv'
  BY <1>29 DEF FinishTurn, candidateVars, actorVars, TypeOK, ReservationsAccounted, ChoiceInv, Holding, Steps, ConsumedInv
<1>30. ASSUME EndSession PROVE ConsumedInv'
  BY <1>30 DEF EndSession, Discarded, TypeOK, ReservationsAccounted, ChoiceInv, Holding, Steps, ConsumedInv
<1>31. CASE UNCHANGED vars
  BY <1>31 DEF vars, TypeOK, ReservationsAccounted, ChoiceInv, Holding, Steps, ConsumedInv
<1> QED
  BY <1>1, <1>2, <1>3, <1>4, <1>5, <1>6, <1>7, <1>8, <1>9, <1>10,
    <1>11, <1>12, <1>13, <1>14, <1>15, <1>16, <1>17, <1>18, <1>19, <1>20,
    <1>21, <1>22, <1>23, <1>24, <1>25, <1>26, <1>27, <1>28, <1>29, <1>30,
    <1>31
    DEF Next, ActorStep, WorkStep

\* A call whose branch was committed goes on to be served or to fail.
LEMMA NoRerunStep == TypeOK /\ ChoiceInv /\ NoRerun /\ [Next]_vars => NoRerun'
<1> SUFFICES ASSUME TypeOK /\ ChoiceInv /\ NoRerun, [Next]_vars PROVE NoRerun'
  OBVIOUS
<1> USE Setting
<1>1. ASSUME NEW a \in Actors, Arrive(a) PROVE NoRerun'
  BY <1>1 DEF Arrive, candidateVars, TypeOK, ChoiceInv, NoRerun, Holding, Steps
<1>2. ASSUME NEW a \in Actors, Decline(a) PROVE NoRerun'
  BY <1>2 DEF Decline, candidateVars, turnVars, TypeOK, ChoiceInv, NoRerun, Holding, Steps
<1>3. ASSUME NEW a \in Actors, NEW c \in Candidates, Choose(a, c) PROVE NoRerun'
  BY <1>3 DEF Choose, Ranked, Available, Unreserved, Preemptable, Awaiting, TypeOK, ChoiceInv, NoRerun, Holding, Steps
<1>4. ASSUME NEW a \in Actors, WaitForWork(a) PROVE NoRerun'
  BY <1>4 DEF WaitForWork, candidateVars, turnVars, TypeOK, ChoiceInv, NoRerun, Holding, Steps
<1>5. ASSUME NEW a \in Actors, GiveUp(a) PROVE NoRerun'
  BY <1>5 DEF GiveUp, candidateVars, turnVars, TypeOK, ChoiceInv, NoRerun, Holding, Steps
<1>6. ASSUME NEW a \in Actors, Wake(a) PROVE NoRerun'
  BY <1>6 DEF Wake, candidateVars, turnVars, TypeOK, ChoiceInv, NoRerun, Holding, Steps
<1>7. ASSUME NEW a \in Actors, Authorized(a) PROVE NoRerun'
  BY <1>7 DEF Authorized, Break, Reject, TryAgain, Leave, Advance, released, candidateVars, turnVars, TypeOK, ChoiceInv, NoRerun, Holding, Steps
<1>8. ASSUME NEW a \in Actors, Join(a) PROVE NoRerun'
  BY <1>8 DEF Join, Break, Reject, TryAgain, Leave, Advance, released, candidateVars, turnVars, TypeOK, ChoiceInv, NoRerun, Holding, Steps
<1>9. ASSUME NEW a \in Actors, Prepare(a) PROVE NoRerun'
  BY <1>9 DEF Prepare, Break, Reject, TryAgain, Leave, Advance, released, candidateVars, turnVars, TypeOK, ChoiceInv, NoRerun, Holding, Steps
<1>10. ASSUME NEW a \in Actors, CommitApplied(a) PROVE NoRerun'
  BY <1>10 DEF CommitApplied, turnVars, TypeOK, ChoiceInv, NoRerun, Holding, Steps
<1>11. ASSUME NEW a \in Actors, CommitFailed(a) PROVE NoRerun'
  BY <1>11 DEF CommitFailed, Break, Reject, TryAgain, Leave, Advance, released, candidateVars, turnVars, TypeOK, ChoiceInv, NoRerun, Holding, Steps
<1>12. ASSUME NEW a \in Actors, CommitPoisoned(a) PROVE NoRerun'
  BY <1>12 DEF CommitPoisoned, Leave, released, turnVars, TypeOK, ChoiceInv, NoRerun, Holding, Steps
<1>13. ASSUME NEW a \in Actors, Adopt(a) PROVE NoRerun'
  BY <1>13 DEF Adopt, released, Discarded, Unreserved, turnVars, TypeOK, ChoiceInv, NoRerun, Holding, Steps
<1>14. ASSUME NEW a \in Actors, Retained(a) PROVE NoRerun'
  BY <1>14 DEF Retained, turnVars, TypeOK, ChoiceInv, NoRerun, Holding, Steps
<1>15. ASSUME NEW a \in Actors, Serve(a) PROVE NoRerun'
  BY <1>15 DEF Serve, candidateVars, TypeOK, ChoiceInv, NoRerun, Holding, Steps
<1>16. ASSUME NEW a \in Actors, Fallback(a) PROVE NoRerun'
  BY <1>16 DEF Fallback, Preemptable, Unreserved, Discarded, Awaiting, TypeOK, ChoiceInv, NoRerun, Holding, Steps
<1>17. ASSUME NEW a \in Actors, NativeSettled(a) PROVE NoRerun'
  BY <1>17 DEF NativeSettled, Unreserved, Discarded, TypeOK, ChoiceInv, NoRerun, Holding, Steps
<1>18. ASSUME NEW c \in Candidates, Register(c) PROVE NoRerun'
  BY <1>18 DEF Register, turnVars, TypeOK, ChoiceInv, NoRerun, Holding, Steps
<1>19. ASSUME NEW c \in Candidates, Start(c) PROVE NoRerun'
  BY <1>19 DEF Start, actorVars, turnVars, TypeOK, ChoiceInv, NoRerun, Holding, Steps
<1>20. ASSUME NEW c \in Candidates, Succeed(c) PROVE NoRerun'
  BY <1>20 DEF Succeed, turnVars, TypeOK, ChoiceInv, NoRerun, Holding, Steps
<1>21. ASSUME NEW c \in Candidates, Fail(c) PROVE NoRerun'
  BY <1>21 DEF Fail, turnVars, TypeOK, ChoiceInv, NoRerun, Holding, Steps
<1>22. ASSUME NEW c \in Candidates, Discard(c) PROVE NoRerun'
  BY <1>22 DEF Discard, Discarded, Unreserved, turnVars, TypeOK, ChoiceInv, NoRerun, Holding, Steps
<1>23. ASSUME NEW c \in Candidates, DropTool(c) PROVE NoRerun'
  BY <1>23 DEF DropTool, Discarded, turnVars, TypeOK, ChoiceInv, NoRerun, Holding, Steps
<1>24. ASSUME NEW a \in Actors, Promoted(a) PROVE NoRerun'
  BY <1>24 DEF Promoted, candidateVars, turnVars, TypeOK, ChoiceInv, NoRerun, Holding, Steps
<1>25. ASSUME NEW a \in Actors, Cancel(a) PROVE NoRerun'
  BY <1>25 DEF Cancel, candidateVars, actorVars, TypeOK, ChoiceInv, NoRerun, Holding, Steps
<1>26. ASSUME NEW p \in Previews, NEW c \in Candidates, PreviewAcquire(p, c) PROVE NoRerun'
  BY <1>26 DEF PreviewAcquire, Available, turnVars, TypeOK, ChoiceInv, NoRerun, Holding, Steps
<1>27. ASSUME NEW p \in Previews, NEW c \in Candidates, PreviewRelease(p, c) PROVE NoRerun'
  BY <1>27 DEF PreviewRelease, turnVars, TypeOK, ChoiceInv, NoRerun, Holding, Steps
<1>28. ASSUME CloseTurn PROVE NoRerun'
  BY <1>28 DEF CloseTurn, candidateVars, actorVars, TypeOK, ChoiceInv, NoRerun, Holding, Steps
<1>29. ASSUME FinishTurn PROVE NoRerun'
  BY <1>29 DEF FinishTurn, candidateVars, actorVars, TypeOK, ChoiceInv, NoRerun, Holding, Steps
<1>30. ASSUME EndSession PROVE NoRerun'
  BY <1>30 DEF EndSession, Discarded, TypeOK, ChoiceInv, NoRerun, Holding, Steps
<1>31. CASE UNCHANGED vars
  BY <1>31 DEF vars, TypeOK, ChoiceInv, NoRerun, Holding, Steps
<1> QED
  BY <1>1, <1>2, <1>3, <1>4, <1>5, <1>6, <1>7, <1>8, <1>9, <1>10,
    <1>11, <1>12, <1>13, <1>14, <1>15, <1>16, <1>17, <1>18, <1>19, <1>20,
    <1>21, <1>22, <1>23, <1>24, <1>25, <1>26, <1>27, <1>28, <1>29, <1>30,
    <1>31
    DEF Next, ActorStep, WorkStep

\* The claim of a committed branch passes from its reservation to its consumption.
LEMMA ClaimStep == TypeOK /\ ChoiceInv /\ NoRerun /\ ClaimInv /\ [Next]_vars => ClaimInv'
<1> SUFFICES ASSUME TypeOK /\ ChoiceInv /\ NoRerun /\ ClaimInv, [Next]_vars PROVE ClaimInv'
  OBVIOUS
<1> USE Setting
<1>1. ASSUME NEW a \in Actors, Arrive(a) PROVE ClaimInv'
  BY <1>1 DEF Arrive, candidateVars, TypeOK, ChoiceInv, NoRerun, ClaimInv, Holding, Steps
<1>2. ASSUME NEW a \in Actors, Decline(a) PROVE ClaimInv'
  BY <1>2 DEF Decline, candidateVars, turnVars, TypeOK, ChoiceInv, NoRerun, ClaimInv, Holding, Steps
<1>3. ASSUME NEW a \in Actors, NEW c \in Candidates, Choose(a, c) PROVE ClaimInv'
  BY <1>3 DEF Choose, Ranked, Available, Unreserved, Preemptable, Awaiting, TypeOK, ChoiceInv, NoRerun, ClaimInv, Holding, Steps
<1>4. ASSUME NEW a \in Actors, WaitForWork(a) PROVE ClaimInv'
  BY <1>4 DEF WaitForWork, candidateVars, turnVars, TypeOK, ChoiceInv, NoRerun, ClaimInv, Holding, Steps
<1>5. ASSUME NEW a \in Actors, GiveUp(a) PROVE ClaimInv'
  BY <1>5 DEF GiveUp, candidateVars, turnVars, TypeOK, ChoiceInv, NoRerun, ClaimInv, Holding, Steps
<1>6. ASSUME NEW a \in Actors, Wake(a) PROVE ClaimInv'
  BY <1>6 DEF Wake, candidateVars, turnVars, TypeOK, ChoiceInv, NoRerun, ClaimInv, Holding, Steps
<1>7. ASSUME NEW a \in Actors, Authorized(a) PROVE ClaimInv'
  BY <1>7 DEF Authorized, Break, Reject, TryAgain, Leave, Advance, released, candidateVars, turnVars, TypeOK, ChoiceInv, NoRerun, ClaimInv, Holding, Steps
<1>8. ASSUME NEW a \in Actors, Join(a) PROVE ClaimInv'
  BY <1>8 DEF Join, Break, Reject, TryAgain, Leave, Advance, released, candidateVars, turnVars, TypeOK, ChoiceInv, NoRerun, ClaimInv, Holding, Steps
<1>9. ASSUME NEW a \in Actors, Prepare(a) PROVE ClaimInv'
  BY <1>9 DEF Prepare, Break, Reject, TryAgain, Leave, Advance, released, candidateVars, turnVars, TypeOK, ChoiceInv, NoRerun, ClaimInv, Holding, Steps
<1>10. ASSUME NEW a \in Actors, CommitApplied(a) PROVE ClaimInv'
  BY <1>10 DEF CommitApplied, turnVars, TypeOK, ChoiceInv, NoRerun, ClaimInv, Holding, Steps
<1>11. ASSUME NEW a \in Actors, CommitFailed(a) PROVE ClaimInv'
  BY <1>11 DEF CommitFailed, Break, Reject, TryAgain, Leave, Advance, released, candidateVars, turnVars, TypeOK, ChoiceInv, NoRerun, ClaimInv, Holding, Steps
<1>12. ASSUME NEW a \in Actors, CommitPoisoned(a) PROVE ClaimInv'
  BY <1>12 DEF CommitPoisoned, Leave, released, turnVars, TypeOK, ChoiceInv, NoRerun, ClaimInv, Holding, Steps
<1>13. ASSUME NEW a \in Actors, Adopt(a) PROVE ClaimInv'
  BY <1>13 DEF Adopt, released, Discarded, Unreserved, turnVars, TypeOK, ChoiceInv, NoRerun, ClaimInv, Holding, Steps
<1>14. ASSUME NEW a \in Actors, Retained(a) PROVE ClaimInv'
  BY <1>14 DEF Retained, turnVars, TypeOK, ChoiceInv, NoRerun, ClaimInv, Holding, Steps
<1>15. ASSUME NEW a \in Actors, Serve(a) PROVE ClaimInv'
  BY <1>15 DEF Serve, candidateVars, TypeOK, ChoiceInv, NoRerun, ClaimInv, Holding, Steps
<1>16. ASSUME NEW a \in Actors, Fallback(a) PROVE ClaimInv'
  BY <1>16 DEF Fallback, Preemptable, Unreserved, Discarded, Awaiting, TypeOK, ChoiceInv, NoRerun, ClaimInv, Holding, Steps
<1>17. ASSUME NEW a \in Actors, NativeSettled(a) PROVE ClaimInv'
  BY <1>17 DEF NativeSettled, Unreserved, Discarded, TypeOK, ChoiceInv, NoRerun, ClaimInv, Holding, Steps
<1>18. ASSUME NEW c \in Candidates, Register(c) PROVE ClaimInv'
  BY <1>18 DEF Register, turnVars, TypeOK, ChoiceInv, NoRerun, ClaimInv, Holding, Steps
<1>19. ASSUME NEW c \in Candidates, Start(c) PROVE ClaimInv'
  BY <1>19 DEF Start, actorVars, turnVars, TypeOK, ChoiceInv, NoRerun, ClaimInv, Holding, Steps
<1>20. ASSUME NEW c \in Candidates, Succeed(c) PROVE ClaimInv'
  BY <1>20 DEF Succeed, turnVars, TypeOK, ChoiceInv, NoRerun, ClaimInv, Holding, Steps
<1>21. ASSUME NEW c \in Candidates, Fail(c) PROVE ClaimInv'
  BY <1>21 DEF Fail, turnVars, TypeOK, ChoiceInv, NoRerun, ClaimInv, Holding, Steps
<1>22. ASSUME NEW c \in Candidates, Discard(c) PROVE ClaimInv'
  BY <1>22 DEF Discard, Discarded, Unreserved, turnVars, TypeOK, ChoiceInv, NoRerun, ClaimInv, Holding, Steps
<1>23. ASSUME NEW c \in Candidates, DropTool(c) PROVE ClaimInv'
  BY <1>23 DEF DropTool, Discarded, turnVars, TypeOK, ChoiceInv, NoRerun, ClaimInv, Holding, Steps
<1>24. ASSUME NEW a \in Actors, Promoted(a) PROVE ClaimInv'
  BY <1>24 DEF Promoted, candidateVars, turnVars, TypeOK, ChoiceInv, NoRerun, ClaimInv, Holding, Steps
<1>25. ASSUME NEW a \in Actors, Cancel(a) PROVE ClaimInv'
  BY <1>25 DEF Cancel, candidateVars, actorVars, TypeOK, ChoiceInv, NoRerun, ClaimInv, Holding, Steps
<1>26. ASSUME NEW p \in Previews, NEW c \in Candidates, PreviewAcquire(p, c) PROVE ClaimInv'
  BY <1>26 DEF PreviewAcquire, Available, turnVars, TypeOK, ChoiceInv, NoRerun, ClaimInv, Holding, Steps
<1>27. ASSUME NEW p \in Previews, NEW c \in Candidates, PreviewRelease(p, c) PROVE ClaimInv'
  BY <1>27 DEF PreviewRelease, turnVars, TypeOK, ChoiceInv, NoRerun, ClaimInv, Holding, Steps
<1>28. ASSUME CloseTurn PROVE ClaimInv'
  BY <1>28 DEF CloseTurn, candidateVars, actorVars, TypeOK, ChoiceInv, NoRerun, ClaimInv, Holding, Steps
<1>29. ASSUME FinishTurn PROVE ClaimInv'
  BY <1>29 DEF FinishTurn, candidateVars, actorVars, TypeOK, ChoiceInv, NoRerun, ClaimInv, Holding, Steps
<1>30. ASSUME EndSession PROVE ClaimInv'
  BY <1>30 DEF EndSession, Discarded, TypeOK, ChoiceInv, NoRerun, ClaimInv, Holding, Steps
<1>31. CASE UNCHANGED vars
  BY <1>31 DEF vars, TypeOK, ChoiceInv, NoRerun, ClaimInv, Holding, Steps
<1> QED
  BY <1>1, <1>2, <1>3, <1>4, <1>5, <1>6, <1>7, <1>8, <1>9, <1>10,
    <1>11, <1>12, <1>13, <1>14, <1>15, <1>16, <1>17, <1>18, <1>19, <1>20,
    <1>21, <1>22, <1>23, <1>24, <1>25, <1>26, <1>27, <1>28, <1>29, <1>30,
    <1>31
    DEF Next, ActorStep, WorkStep

\* A call that is about to commit holds the reservation alone.
LEMMA CommitStep == TypeOK /\ ChoiceInv /\ ReservationsAccounted /\ CommitInv /\ [Next]_vars => CommitInv'
<1> SUFFICES ASSUME TypeOK /\ ChoiceInv /\ ReservationsAccounted /\ CommitInv, [Next]_vars PROVE CommitInv'
  OBVIOUS
<1> USE Setting
<1>1. ASSUME NEW a \in Actors, Arrive(a) PROVE CommitInv'
  BY <1>1 DEF Arrive, candidateVars, TypeOK, ReservationsAccounted, ChoiceInv, Holding, Steps, CommitInv
<1>2. ASSUME NEW a \in Actors, Decline(a) PROVE CommitInv'
  BY <1>2 DEF Decline, candidateVars, turnVars, TypeOK, ReservationsAccounted, ChoiceInv, Holding, Steps, CommitInv
<1>3. ASSUME NEW a \in Actors, NEW c \in Candidates, Choose(a, c) PROVE CommitInv'
  BY <1>3 DEF Choose, Ranked, Available, Unreserved, Preemptable, Awaiting, TypeOK, ReservationsAccounted, ChoiceInv, Holding, Steps, CommitInv
<1>4. ASSUME NEW a \in Actors, WaitForWork(a) PROVE CommitInv'
  BY <1>4 DEF WaitForWork, candidateVars, turnVars, TypeOK, ReservationsAccounted, ChoiceInv, Holding, Steps, CommitInv
<1>5. ASSUME NEW a \in Actors, GiveUp(a) PROVE CommitInv'
  BY <1>5 DEF GiveUp, candidateVars, turnVars, TypeOK, ReservationsAccounted, ChoiceInv, Holding, Steps, CommitInv
<1>6. ASSUME NEW a \in Actors, Wake(a) PROVE CommitInv'
  BY <1>6 DEF Wake, candidateVars, turnVars, TypeOK, ReservationsAccounted, ChoiceInv, Holding, Steps, CommitInv
<1>7. ASSUME NEW a \in Actors, Authorized(a) PROVE CommitInv'
  BY <1>7 DEF Authorized, Break, Reject, TryAgain, Leave, Advance, released, candidateVars, turnVars, TypeOK, ReservationsAccounted, ChoiceInv, Holding, Steps, CommitInv
<1>8. ASSUME NEW a \in Actors, Join(a) PROVE CommitInv'
  BY <1>8 DEF Join, Break, Reject, TryAgain, Leave, Advance, released, candidateVars, turnVars, TypeOK, ReservationsAccounted, ChoiceInv, Holding, Steps, CommitInv
<1>9. ASSUME NEW a \in Actors, Prepare(a) PROVE CommitInv'
  BY <1>9 DEF Prepare, Break, Reject, TryAgain, Leave, Advance, released, candidateVars, turnVars, TypeOK, ReservationsAccounted, ChoiceInv, Holding, Steps, CommitInv
<1>10. ASSUME NEW a \in Actors, CommitApplied(a) PROVE CommitInv'
  BY <1>10 DEF CommitApplied, turnVars, TypeOK, ReservationsAccounted, ChoiceInv, Holding, Steps, CommitInv
<1>11. ASSUME NEW a \in Actors, CommitFailed(a) PROVE CommitInv'
  BY <1>11 DEF CommitFailed, Break, Reject, TryAgain, Leave, Advance, released, candidateVars, turnVars, TypeOK, ReservationsAccounted, ChoiceInv, Holding, Steps, CommitInv
<1>12. ASSUME NEW a \in Actors, CommitPoisoned(a) PROVE CommitInv'
  BY <1>12 DEF CommitPoisoned, Leave, released, turnVars, TypeOK, ReservationsAccounted, ChoiceInv, Holding, Steps, CommitInv
<1>13. ASSUME NEW a \in Actors, Adopt(a) PROVE CommitInv'
  BY <1>13 DEF Adopt, released, Discarded, Unreserved, turnVars, TypeOK, ReservationsAccounted, ChoiceInv, Holding, Steps, CommitInv
<1>14. ASSUME NEW a \in Actors, Retained(a) PROVE CommitInv'
  BY <1>14 DEF Retained, turnVars, TypeOK, ReservationsAccounted, ChoiceInv, Holding, Steps, CommitInv
<1>15. ASSUME NEW a \in Actors, Serve(a) PROVE CommitInv'
  BY <1>15 DEF Serve, candidateVars, TypeOK, ReservationsAccounted, ChoiceInv, Holding, Steps, CommitInv
<1>16. ASSUME NEW a \in Actors, Fallback(a) PROVE CommitInv'
  BY <1>16 DEF Fallback, Preemptable, Unreserved, Discarded, Awaiting, TypeOK, ReservationsAccounted, ChoiceInv, Holding, Steps, CommitInv
<1>17. ASSUME NEW a \in Actors, NativeSettled(a) PROVE CommitInv'
  BY <1>17 DEF NativeSettled, Unreserved, Discarded, TypeOK, ReservationsAccounted, ChoiceInv, Holding, Steps, CommitInv
<1>18. ASSUME NEW c \in Candidates, Register(c) PROVE CommitInv'
  BY <1>18 DEF Register, turnVars, TypeOK, ReservationsAccounted, ChoiceInv, Holding, Steps, CommitInv
<1>19. ASSUME NEW c \in Candidates, Start(c) PROVE CommitInv'
  BY <1>19 DEF Start, actorVars, turnVars, TypeOK, ReservationsAccounted, ChoiceInv, Holding, Steps, CommitInv
<1>20. ASSUME NEW c \in Candidates, Succeed(c) PROVE CommitInv'
  BY <1>20 DEF Succeed, turnVars, TypeOK, ReservationsAccounted, ChoiceInv, Holding, Steps, CommitInv
<1>21. ASSUME NEW c \in Candidates, Fail(c) PROVE CommitInv'
  BY <1>21 DEF Fail, turnVars, TypeOK, ReservationsAccounted, ChoiceInv, Holding, Steps, CommitInv
<1>22. ASSUME NEW c \in Candidates, Discard(c) PROVE CommitInv'
  BY <1>22 DEF Discard, Discarded, Unreserved, turnVars, TypeOK, ReservationsAccounted, ChoiceInv, Holding, Steps, CommitInv
<1>23. ASSUME NEW c \in Candidates, DropTool(c) PROVE CommitInv'
  BY <1>23 DEF DropTool, Discarded, turnVars, TypeOK, ReservationsAccounted, ChoiceInv, Holding, Steps, CommitInv
<1>24. ASSUME NEW a \in Actors, Promoted(a) PROVE CommitInv'
  BY <1>24 DEF Promoted, candidateVars, turnVars, TypeOK, ReservationsAccounted, ChoiceInv, Holding, Steps, CommitInv
<1>25. ASSUME NEW a \in Actors, Cancel(a) PROVE CommitInv'
  BY <1>25 DEF Cancel, candidateVars, actorVars, TypeOK, ReservationsAccounted, ChoiceInv, Holding, Steps, CommitInv
<1>26. ASSUME NEW p \in Previews, NEW c \in Candidates, PreviewAcquire(p, c) PROVE CommitInv'
  BY <1>26 DEF PreviewAcquire, Available, turnVars, TypeOK, ReservationsAccounted, ChoiceInv, Holding, Steps, CommitInv
<1>27. ASSUME NEW p \in Previews, NEW c \in Candidates, PreviewRelease(p, c) PROVE CommitInv'
  BY <1>27 DEF PreviewRelease, turnVars, TypeOK, ReservationsAccounted, ChoiceInv, Holding, Steps, CommitInv
<1>28. ASSUME CloseTurn PROVE CommitInv'
  BY <1>28 DEF CloseTurn, candidateVars, actorVars, TypeOK, ReservationsAccounted, ChoiceInv, Holding, Steps, CommitInv
<1>29. ASSUME FinishTurn PROVE CommitInv'
  BY <1>29 DEF FinishTurn, candidateVars, actorVars, TypeOK, ReservationsAccounted, ChoiceInv, Holding, Steps, CommitInv
<1>30. ASSUME EndSession PROVE CommitInv'
  BY <1>30 DEF EndSession, Discarded, TypeOK, ReservationsAccounted, ChoiceInv, Holding, Steps, CommitInv
<1>31. CASE UNCHANGED vars
  BY <1>31 DEF vars, TypeOK, ReservationsAccounted, ChoiceInv, Holding, Steps, CommitInv
<1> QED
  BY <1>1, <1>2, <1>3, <1>4, <1>5, <1>6, <1>7, <1>8, <1>9, <1>10,
    <1>11, <1>12, <1>13, <1>14, <1>15, <1>16, <1>17, <1>18, <1>19, <1>20,
    <1>21, <1>22, <1>23, <1>24, <1>25, <1>26, <1>27, <1>28, <1>29, <1>30,
    <1>31
    DEF Next, ActorStep, WorkStep

\* The branch a call commits is claimed by no call yet.
LEMMA Unclaimed ==
  ASSUME Inv, NEW a \in Actors, CommitApplied(a) \/ CommitPoisoned(a), choice[a] \in Exclusive
  PROVE committedFor[choice[a]] = {}
<1>1. choice[a] \in Candidates /\ a \in lease[choice[a]]
  BY DEF CommitApplied, CommitPoisoned, Inv, ChoiceInv, ReservationsAccounted, Holding
<1>2. ASSUME NEW b \in committedFor[choice[a]] PROVE FALSE
  <2>1. b \in Actors /\ effect[choice[a]] # "poisoned"
    BY <1>1, <1>2 DEF CommitApplied, CommitPoisoned, Inv, TypeOK, CommitInv
  <2>2. choice[a] \notin consumed
    BY <1>1 DEF Inv, ConsumedInv
  <2>3. pc[b] = "adopting" /\ choice[b] = choice[a]
    BY <1>2, <2>1, <2>2 DEF Inv, ClaimInv
  <2>4. b \in lease[choice[a]]
    BY <1>1, <2>1, <2>3 DEF Inv, ReservationsAccounted, Holding
  <2>5. a = b
    BY <1>1, <1>2, <2>4 DEF Inv, ReservationsAccounted
  <2> QED
    BY <2>3, <2>5 DEF CommitApplied, CommitPoisoned
<1> QED
  BY <1>2

\* No call commits a branch that another one claims.
LEMMA OnceStep == Inv /\ [Next]_vars => AdoptedOnce'
<1> SUFFICES ASSUME Inv, [Next]_vars PROVE AdoptedOnce'
  OBVIOUS
<1> USE Setting
<1>1. ASSUME NEW a \in Actors, Arrive(a) PROVE AdoptedOnce'
  BY <1>1 DEF Arrive, candidateVars, Inv, TypeOK, AdoptedOnce, ReservationsAccounted, ChoiceInv, NoRerun, ConsumedInv, ClaimInv, Holding
<1>2. ASSUME NEW a \in Actors, Decline(a) PROVE AdoptedOnce'
  BY <1>2 DEF Decline, candidateVars, turnVars, Inv, TypeOK, AdoptedOnce, ReservationsAccounted, ChoiceInv, NoRerun, ConsumedInv, ClaimInv, Holding
<1>3. ASSUME NEW a \in Actors, NEW c \in Candidates, Choose(a, c) PROVE AdoptedOnce'
  BY <1>3 DEF Choose, Ranked, Available, Unreserved, Preemptable, Awaiting, Inv, TypeOK, AdoptedOnce, ReservationsAccounted, ChoiceInv, NoRerun, ConsumedInv, ClaimInv, Holding
<1>4. ASSUME NEW a \in Actors, WaitForWork(a) PROVE AdoptedOnce'
  BY <1>4 DEF WaitForWork, candidateVars, turnVars, Inv, TypeOK, AdoptedOnce, ReservationsAccounted, ChoiceInv, NoRerun, ConsumedInv, ClaimInv, Holding
<1>5. ASSUME NEW a \in Actors, GiveUp(a) PROVE AdoptedOnce'
  BY <1>5 DEF GiveUp, candidateVars, turnVars, Inv, TypeOK, AdoptedOnce, ReservationsAccounted, ChoiceInv, NoRerun, ConsumedInv, ClaimInv, Holding
<1>6. ASSUME NEW a \in Actors, Wake(a) PROVE AdoptedOnce'
  BY <1>6 DEF Wake, candidateVars, turnVars, Inv, TypeOK, AdoptedOnce, ReservationsAccounted, ChoiceInv, NoRerun, ConsumedInv, ClaimInv, Holding
<1>7. ASSUME NEW a \in Actors, Authorized(a) PROVE AdoptedOnce'
  BY <1>7 DEF Authorized, Break, Reject, TryAgain, Leave, Advance, released, candidateVars, turnVars, Inv, TypeOK, AdoptedOnce, ReservationsAccounted, ChoiceInv, NoRerun, ConsumedInv, ClaimInv, Holding
<1>8. ASSUME NEW a \in Actors, Join(a) PROVE AdoptedOnce'
  BY <1>8 DEF Join, Break, Reject, TryAgain, Leave, Advance, released, candidateVars, turnVars, Inv, TypeOK, AdoptedOnce, ReservationsAccounted, ChoiceInv, NoRerun, ConsumedInv, ClaimInv, Holding
<1>9. ASSUME NEW a \in Actors, Prepare(a) PROVE AdoptedOnce'
  BY <1>9 DEF Prepare, Break, Reject, TryAgain, Leave, Advance, released, candidateVars, turnVars, Inv, TypeOK, AdoptedOnce, ReservationsAccounted, ChoiceInv, NoRerun, ConsumedInv, ClaimInv, Holding
<1>10. ASSUME NEW a \in Actors, CommitApplied(a) PROVE AdoptedOnce'
  <2>1. choice[a] \in Candidates
    BY <1>10 DEF CommitApplied, Inv, ChoiceInv, Holding
  <2>2. committedFor' = [committedFor EXCEPT ![choice[a]] = committedFor[choice[a]] \cup {a}]
    BY <1>10 DEF CommitApplied
  <2>3. CASE choice[a] \in Exclusive
    <3>1. committedFor[choice[a]] = {}
      BY <1>10, <2>3, Unclaimed
    <3> QED
      BY <2>1, <2>2, <3>1 DEF Inv, TypeOK, AdoptedOnce
  <2>4. CASE choice[a] \notin Exclusive
    BY <2>1, <2>2, <2>4 DEF Inv, TypeOK, AdoptedOnce
  <2> QED
    BY <2>3, <2>4
<1>11. ASSUME NEW a \in Actors, CommitFailed(a) PROVE AdoptedOnce'
  BY <1>11 DEF CommitFailed, Break, Reject, TryAgain, Leave, Advance, released, candidateVars, turnVars, Inv, TypeOK, AdoptedOnce, ReservationsAccounted, ChoiceInv, NoRerun, ConsumedInv, ClaimInv, Holding
<1>12. ASSUME NEW a \in Actors, CommitPoisoned(a) PROVE AdoptedOnce'
  BY <1>12, Unclaimed DEF CommitPoisoned, Inv, TypeOK, AdoptedOnce
<1>13. ASSUME NEW a \in Actors, Adopt(a) PROVE AdoptedOnce'
  BY <1>13 DEF Adopt, released, Discarded, Unreserved, turnVars, Inv, TypeOK, AdoptedOnce, ReservationsAccounted, ChoiceInv, NoRerun, ConsumedInv, ClaimInv, Holding
<1>14. ASSUME NEW a \in Actors, Retained(a) PROVE AdoptedOnce'
  BY <1>14 DEF Retained, turnVars, Inv, TypeOK, AdoptedOnce, ReservationsAccounted, ChoiceInv, NoRerun, ConsumedInv, ClaimInv, Holding
<1>15. ASSUME NEW a \in Actors, Serve(a) PROVE AdoptedOnce'
  BY <1>15 DEF Serve, candidateVars, Inv, TypeOK, AdoptedOnce, ReservationsAccounted, ChoiceInv, NoRerun, ConsumedInv, ClaimInv, Holding
<1>16. ASSUME NEW a \in Actors, Fallback(a) PROVE AdoptedOnce'
  BY <1>16 DEF Fallback, Preemptable, Unreserved, Discarded, Awaiting, Inv, TypeOK, AdoptedOnce, ReservationsAccounted, ChoiceInv, NoRerun, ConsumedInv, ClaimInv, Holding
<1>17. ASSUME NEW a \in Actors, NativeSettled(a) PROVE AdoptedOnce'
  BY <1>17 DEF NativeSettled, Unreserved, Discarded, Inv, TypeOK, AdoptedOnce, ReservationsAccounted, ChoiceInv, NoRerun, ConsumedInv, ClaimInv, Holding
<1>18. ASSUME NEW c \in Candidates, Register(c) PROVE AdoptedOnce'
  BY <1>18 DEF Register, turnVars, Inv, TypeOK, AdoptedOnce, ReservationsAccounted, ChoiceInv, NoRerun, ConsumedInv, ClaimInv, Holding
<1>19. ASSUME NEW c \in Candidates, Start(c) PROVE AdoptedOnce'
  BY <1>19 DEF Start, actorVars, turnVars, Inv, TypeOK, AdoptedOnce, ReservationsAccounted, ChoiceInv, NoRerun, ConsumedInv, ClaimInv, Holding
<1>20. ASSUME NEW c \in Candidates, Succeed(c) PROVE AdoptedOnce'
  BY <1>20 DEF Succeed, turnVars, Inv, TypeOK, AdoptedOnce, ReservationsAccounted, ChoiceInv, NoRerun, ConsumedInv, ClaimInv, Holding
<1>21. ASSUME NEW c \in Candidates, Fail(c) PROVE AdoptedOnce'
  BY <1>21 DEF Fail, turnVars, Inv, TypeOK, AdoptedOnce, ReservationsAccounted, ChoiceInv, NoRerun, ConsumedInv, ClaimInv, Holding
<1>22. ASSUME NEW c \in Candidates, Discard(c) PROVE AdoptedOnce'
  BY <1>22 DEF Discard, Discarded, Unreserved, turnVars, Inv, TypeOK, AdoptedOnce, ReservationsAccounted, ChoiceInv, NoRerun, ConsumedInv, ClaimInv, Holding
<1>23. ASSUME NEW c \in Candidates, DropTool(c) PROVE AdoptedOnce'
  BY <1>23 DEF DropTool, Discarded, turnVars, Inv, TypeOK, AdoptedOnce, ReservationsAccounted, ChoiceInv, NoRerun, ConsumedInv, ClaimInv, Holding
<1>24. ASSUME NEW a \in Actors, Promoted(a) PROVE AdoptedOnce'
  BY <1>24 DEF Promoted, candidateVars, turnVars, Inv, TypeOK, AdoptedOnce, ReservationsAccounted, ChoiceInv, NoRerun, ConsumedInv, ClaimInv, Holding
<1>25. ASSUME NEW a \in Actors, Cancel(a) PROVE AdoptedOnce'
  BY <1>25 DEF Cancel, candidateVars, actorVars, Inv, TypeOK, AdoptedOnce, ReservationsAccounted, ChoiceInv, NoRerun, ConsumedInv, ClaimInv, Holding
<1>26. ASSUME NEW p \in Previews, NEW c \in Candidates, PreviewAcquire(p, c) PROVE AdoptedOnce'
  BY <1>26 DEF PreviewAcquire, Available, turnVars, Inv, TypeOK, AdoptedOnce, ReservationsAccounted, ChoiceInv, NoRerun, ConsumedInv, ClaimInv, Holding
<1>27. ASSUME NEW p \in Previews, NEW c \in Candidates, PreviewRelease(p, c) PROVE AdoptedOnce'
  BY <1>27 DEF PreviewRelease, turnVars, Inv, TypeOK, AdoptedOnce, ReservationsAccounted, ChoiceInv, NoRerun, ConsumedInv, ClaimInv, Holding
<1>28. ASSUME CloseTurn PROVE AdoptedOnce'
  BY <1>28 DEF CloseTurn, candidateVars, actorVars, Inv, TypeOK, AdoptedOnce, ReservationsAccounted, ChoiceInv, NoRerun, ConsumedInv, ClaimInv, Holding
<1>29. ASSUME FinishTurn PROVE AdoptedOnce'
  BY <1>29 DEF FinishTurn, candidateVars, actorVars, Inv, TypeOK, AdoptedOnce, ReservationsAccounted, ChoiceInv, NoRerun, ConsumedInv, ClaimInv, Holding
<1>30. ASSUME EndSession PROVE AdoptedOnce'
  BY <1>30 DEF EndSession, Discarded, Inv, TypeOK, AdoptedOnce, ReservationsAccounted, ChoiceInv, NoRerun, ConsumedInv, ClaimInv, Holding
<1>31. CASE UNCHANGED vars
  BY <1>31 DEF vars, Inv, TypeOK, AdoptedOnce, ReservationsAccounted, ChoiceInv, NoRerun, ConsumedInv, ClaimInv, Holding
<1> QED
  BY <1>1, <1>2, <1>3, <1>4, <1>5, <1>6, <1>7, <1>8, <1>9, <1>10,
    <1>11, <1>12, <1>13, <1>14, <1>15, <1>16, <1>17, <1>18, <1>19, <1>20,
    <1>21, <1>22, <1>23, <1>24, <1>25, <1>26, <1>27, <1>28, <1>29, <1>30,
    <1>31
    DEF Next, ActorStep, WorkStep

\* A step of an open session leaves started reserved work in the store, unless it failed.
LEMMA ReservedStep == Inv /\ [Next]_vars => \A k \in stored : session' = "open" /\ lease[k] # {} /\ exec[k] # "queued" => k \in stored' \/ exec'[k] = "failed"
<1> SUFFICES ASSUME Inv, [Next]_vars PROVE \A k \in stored : session' = "open" /\ lease[k] # {} /\ exec[k] # "queued" => k \in stored' \/ exec'[k] = "failed"
  OBVIOUS
<1> USE Setting
<1>1. ASSUME NEW a \in Actors, Arrive(a) PROVE \A k \in stored : session' = "open" /\ lease[k] # {} /\ exec[k] # "queued" => k \in stored' \/ exec'[k] = "failed"
  BY <1>1 DEF Arrive, candidateVars, Inv, TypeOK, ReservationsAccounted, ChoiceInv, ConsumedInv, Holding
<1>2. ASSUME NEW a \in Actors, Decline(a) PROVE \A k \in stored : session' = "open" /\ lease[k] # {} /\ exec[k] # "queued" => k \in stored' \/ exec'[k] = "failed"
  BY <1>2 DEF Decline, candidateVars, turnVars, Inv, TypeOK, ReservationsAccounted, ChoiceInv, ConsumedInv, Holding
<1>3. ASSUME NEW a \in Actors, NEW c \in Candidates, Choose(a, c) PROVE \A k \in stored : session' = "open" /\ lease[k] # {} /\ exec[k] # "queued" => k \in stored' \/ exec'[k] = "failed"
  BY <1>3 DEF Choose, Ranked, Available, Unreserved, Preemptable, Awaiting, Inv, TypeOK, ReservationsAccounted, ChoiceInv, ConsumedInv, Holding
<1>4. ASSUME NEW a \in Actors, WaitForWork(a) PROVE \A k \in stored : session' = "open" /\ lease[k] # {} /\ exec[k] # "queued" => k \in stored' \/ exec'[k] = "failed"
  BY <1>4 DEF WaitForWork, candidateVars, turnVars, Inv, TypeOK, ReservationsAccounted, ChoiceInv, ConsumedInv, Holding
<1>5. ASSUME NEW a \in Actors, GiveUp(a) PROVE \A k \in stored : session' = "open" /\ lease[k] # {} /\ exec[k] # "queued" => k \in stored' \/ exec'[k] = "failed"
  BY <1>5 DEF GiveUp, candidateVars, turnVars, Inv, TypeOK, ReservationsAccounted, ChoiceInv, ConsumedInv, Holding
<1>6. ASSUME NEW a \in Actors, Wake(a) PROVE \A k \in stored : session' = "open" /\ lease[k] # {} /\ exec[k] # "queued" => k \in stored' \/ exec'[k] = "failed"
  BY <1>6 DEF Wake, candidateVars, turnVars, Inv, TypeOK, ReservationsAccounted, ChoiceInv, ConsumedInv, Holding
<1>7. ASSUME NEW a \in Actors, Authorized(a) PROVE \A k \in stored : session' = "open" /\ lease[k] # {} /\ exec[k] # "queued" => k \in stored' \/ exec'[k] = "failed"
  BY <1>7 DEF Authorized, Break, Reject, TryAgain, Leave, Advance, released, candidateVars, turnVars, Inv, TypeOK, ReservationsAccounted, ChoiceInv, ConsumedInv, Holding
<1>8. ASSUME NEW a \in Actors, Join(a) PROVE \A k \in stored : session' = "open" /\ lease[k] # {} /\ exec[k] # "queued" => k \in stored' \/ exec'[k] = "failed"
  BY <1>8 DEF Join, Break, Reject, TryAgain, Leave, Advance, released, candidateVars, turnVars, Inv, TypeOK, ReservationsAccounted, ChoiceInv, ConsumedInv, Holding
<1>9. ASSUME NEW a \in Actors, Prepare(a) PROVE \A k \in stored : session' = "open" /\ lease[k] # {} /\ exec[k] # "queued" => k \in stored' \/ exec'[k] = "failed"
  BY <1>9 DEF Prepare, Break, Reject, TryAgain, Leave, Advance, released, candidateVars, turnVars, Inv, TypeOK, ReservationsAccounted, ChoiceInv, ConsumedInv, Holding
<1>10. ASSUME NEW a \in Actors, CommitApplied(a) PROVE \A k \in stored : session' = "open" /\ lease[k] # {} /\ exec[k] # "queued" => k \in stored' \/ exec'[k] = "failed"
  BY <1>10 DEF CommitApplied, turnVars, Inv, TypeOK, ReservationsAccounted, ChoiceInv, ConsumedInv, Holding
<1>11. ASSUME NEW a \in Actors, CommitFailed(a) PROVE \A k \in stored : session' = "open" /\ lease[k] # {} /\ exec[k] # "queued" => k \in stored' \/ exec'[k] = "failed"
  BY <1>11 DEF CommitFailed, Break, Reject, TryAgain, Leave, Advance, released, candidateVars, turnVars, Inv, TypeOK, ReservationsAccounted, ChoiceInv, ConsumedInv, Holding
<1>12. ASSUME NEW a \in Actors, CommitPoisoned(a) PROVE \A k \in stored : session' = "open" /\ lease[k] # {} /\ exec[k] # "queued" => k \in stored' \/ exec'[k] = "failed"
  BY <1>12 DEF CommitPoisoned, Leave, released, turnVars, Inv, TypeOK, ReservationsAccounted, ChoiceInv, ConsumedInv, Holding
<1>13. ASSUME NEW a \in Actors, Adopt(a) PROVE \A k \in stored : session' = "open" /\ lease[k] # {} /\ exec[k] # "queued" => k \in stored' \/ exec'[k] = "failed"
  BY <1>13 DEF Adopt, released, Discarded, Unreserved, turnVars, Inv, TypeOK, ReservationsAccounted, ChoiceInv, ConsumedInv, Holding
<1>14. ASSUME NEW a \in Actors, Retained(a) PROVE \A k \in stored : session' = "open" /\ lease[k] # {} /\ exec[k] # "queued" => k \in stored' \/ exec'[k] = "failed"
  BY <1>14 DEF Retained, turnVars, Inv, TypeOK, ReservationsAccounted, ChoiceInv, ConsumedInv, Holding
<1>15. ASSUME NEW a \in Actors, Serve(a) PROVE \A k \in stored : session' = "open" /\ lease[k] # {} /\ exec[k] # "queued" => k \in stored' \/ exec'[k] = "failed"
  BY <1>15 DEF Serve, candidateVars, Inv, TypeOK, ReservationsAccounted, ChoiceInv, ConsumedInv, Holding
<1>16. ASSUME NEW a \in Actors, Fallback(a) PROVE \A k \in stored : session' = "open" /\ lease[k] # {} /\ exec[k] # "queued" => k \in stored' \/ exec'[k] = "failed"
  BY <1>16 DEF Fallback, Preemptable, Unreserved, Discarded, Awaiting, Inv, TypeOK, ReservationsAccounted, ChoiceInv, ConsumedInv, Holding
<1>17. ASSUME NEW a \in Actors, NativeSettled(a) PROVE \A k \in stored : session' = "open" /\ lease[k] # {} /\ exec[k] # "queued" => k \in stored' \/ exec'[k] = "failed"
  BY <1>17 DEF NativeSettled, Unreserved, Discarded, Inv, TypeOK, ReservationsAccounted, ChoiceInv, ConsumedInv, Holding
<1>18. ASSUME NEW c \in Candidates, Register(c) PROVE \A k \in stored : session' = "open" /\ lease[k] # {} /\ exec[k] # "queued" => k \in stored' \/ exec'[k] = "failed"
  BY <1>18 DEF Register, turnVars, Inv, TypeOK, ReservationsAccounted, ChoiceInv, ConsumedInv, Holding
<1>19. ASSUME NEW c \in Candidates, Start(c) PROVE \A k \in stored : session' = "open" /\ lease[k] # {} /\ exec[k] # "queued" => k \in stored' \/ exec'[k] = "failed"
  BY <1>19 DEF Start, actorVars, turnVars, Inv, TypeOK, ReservationsAccounted, ChoiceInv, ConsumedInv, Holding
<1>20. ASSUME NEW c \in Candidates, Succeed(c) PROVE \A k \in stored : session' = "open" /\ lease[k] # {} /\ exec[k] # "queued" => k \in stored' \/ exec'[k] = "failed"
  BY <1>20 DEF Succeed, turnVars, Inv, TypeOK, ReservationsAccounted, ChoiceInv, ConsumedInv, Holding
<1>21. ASSUME NEW c \in Candidates, Fail(c) PROVE \A k \in stored : session' = "open" /\ lease[k] # {} /\ exec[k] # "queued" => k \in stored' \/ exec'[k] = "failed"
  BY <1>21 DEF Fail, turnVars, Inv, TypeOK, ReservationsAccounted, ChoiceInv, ConsumedInv, Holding
<1>22. ASSUME NEW c \in Candidates, Discard(c) PROVE \A k \in stored : session' = "open" /\ lease[k] # {} /\ exec[k] # "queued" => k \in stored' \/ exec'[k] = "failed"
  BY <1>22 DEF Discard, Discarded, Unreserved, turnVars, Inv, TypeOK, ReservationsAccounted, ChoiceInv, ConsumedInv, Holding
<1>23. ASSUME NEW c \in Candidates, DropTool(c) PROVE \A k \in stored : session' = "open" /\ lease[k] # {} /\ exec[k] # "queued" => k \in stored' \/ exec'[k] = "failed"
  BY <1>23 DEF DropTool, Discarded, turnVars, Inv, TypeOK, ReservationsAccounted, ChoiceInv, ConsumedInv, Holding
<1>24. ASSUME NEW a \in Actors, Promoted(a) PROVE \A k \in stored : session' = "open" /\ lease[k] # {} /\ exec[k] # "queued" => k \in stored' \/ exec'[k] = "failed"
  BY <1>24 DEF Promoted, candidateVars, turnVars, Inv, TypeOK, ReservationsAccounted, ChoiceInv, ConsumedInv, Holding
<1>25. ASSUME NEW a \in Actors, Cancel(a) PROVE \A k \in stored : session' = "open" /\ lease[k] # {} /\ exec[k] # "queued" => k \in stored' \/ exec'[k] = "failed"
  BY <1>25 DEF Cancel, candidateVars, actorVars, Inv, TypeOK, ReservationsAccounted, ChoiceInv, ConsumedInv, Holding
<1>26. ASSUME NEW p \in Previews, NEW c \in Candidates, PreviewAcquire(p, c) PROVE \A k \in stored : session' = "open" /\ lease[k] # {} /\ exec[k] # "queued" => k \in stored' \/ exec'[k] = "failed"
  BY <1>26 DEF PreviewAcquire, Available, turnVars, Inv, TypeOK, ReservationsAccounted, ChoiceInv, ConsumedInv, Holding
<1>27. ASSUME NEW p \in Previews, NEW c \in Candidates, PreviewRelease(p, c) PROVE \A k \in stored : session' = "open" /\ lease[k] # {} /\ exec[k] # "queued" => k \in stored' \/ exec'[k] = "failed"
  BY <1>27 DEF PreviewRelease, turnVars, Inv, TypeOK, ReservationsAccounted, ChoiceInv, ConsumedInv, Holding
<1>28. ASSUME CloseTurn PROVE \A k \in stored : session' = "open" /\ lease[k] # {} /\ exec[k] # "queued" => k \in stored' \/ exec'[k] = "failed"
  BY <1>28 DEF CloseTurn, candidateVars, actorVars, Inv, TypeOK, ReservationsAccounted, ChoiceInv, ConsumedInv, Holding
<1>29. ASSUME FinishTurn PROVE \A k \in stored : session' = "open" /\ lease[k] # {} /\ exec[k] # "queued" => k \in stored' \/ exec'[k] = "failed"
  BY <1>29 DEF FinishTurn, candidateVars, actorVars, Inv, TypeOK, ReservationsAccounted, ChoiceInv, ConsumedInv, Holding
<1>30. ASSUME EndSession PROVE \A k \in stored : session' = "open" /\ lease[k] # {} /\ exec[k] # "queued" => k \in stored' \/ exec'[k] = "failed"
  BY <1>30 DEF EndSession, Discarded, Inv, TypeOK, ReservationsAccounted, ChoiceInv, ConsumedInv, Holding
<1>31. CASE UNCHANGED vars
  BY <1>31 DEF vars, Inv, TypeOK, ReservationsAccounted, ChoiceInv, ConsumedInv, Holding
<1> QED
  BY <1>1, <1>2, <1>3, <1>4, <1>5, <1>6, <1>7, <1>8, <1>9, <1>10,
    <1>11, <1>12, <1>13, <1>14, <1>15, <1>16, <1>17, <1>18, <1>19, <1>20,
    <1>21, <1>22, <1>23, <1>24, <1>25, <1>26, <1>27, <1>28, <1>29, <1>30,
    <1>31
    DEF Next, ActorStep, WorkStep

-----------------------------------------------------------------------------
\* The ends of a call that ActorOnce tells apart.
Natively == {"native", "settled", "bare"}
SameEnds ==
  \A b \in Actors :
    /\ pc'[b] \in Natively <=> pc[b] \in Natively
    /\ pc'[b] = "served" <=> pc[b] = "served"
    /\ pc'[b] = "thrown" <=> pc[b] = "thrown"

\* A step that ends no call and commits nothing is no step of ActorOnce.
LEMMA Stutter ==
  ASSUME committedFor' = committedFor, SameEnds
  PROVE UNCHANGED <<outcome, spent>>
<1>1. \A b \in Actors : outcome'[b] = outcome[b]
  BY DEF SameEnds, Natively, outcome
<1>2. outcome' = outcome
  BY <1>1 DEF outcome
<1> QED
  BY <1>2 DEF spent

\* Every step of the runtime is a step of ActorOnce, or none.
LEMMA PromiseStep == Inv /\ [Next]_vars => [Promise!Next]_<<outcome, spent>>
<1> SUFFICES ASSUME Inv, [Next]_vars PROVE [Promise!Next]_<<outcome, spent>>
  OBVIOUS
<1> USE Setting
<1>1. ASSUME NEW a \in Actors, Arrive(a) PROVE [Promise!Next]_<<outcome, spent>>
  <2>1. committedFor' = committedFor /\ SameEnds
    BY <1>1 DEF Arrive, candidateVars, Inv, TypeOK, SameEnds, Natively
  <2> QED
    BY <2>1, Stutter
<1>2. ASSUME NEW a \in Actors, Decline(a) PROVE [Promise!Next]_<<outcome, spent>>
  <2>1. outcome[a] = "open"
    BY <1>2 DEF Decline, candidateVars, turnVars, Inv, NoRerun, outcome
  <2>2. outcome' = [outcome EXCEPT ![a] = "native"]
    BY <1>2 DEF Decline, candidateVars, turnVars, Inv, TypeOK, outcome
  <2>3. spent' = spent
    BY <1>2 DEF Decline, candidateVars, turnVars, spent
  <2> QED
    BY <2>1, <2>2, <2>3 DEF Promise!Next, Promise!RunNatively
<1>3. ASSUME NEW a \in Actors, NEW c \in Candidates, Choose(a, c) PROVE [Promise!Next]_<<outcome, spent>>
  <2>1. committedFor' = committedFor /\ SameEnds
    BY <1>3 DEF Choose, Ranked, Available, Unreserved, Preemptable, Awaiting, Inv, TypeOK, SameEnds, Natively
  <2> QED
    BY <2>1, Stutter
<1>4. ASSUME NEW a \in Actors, WaitForWork(a) PROVE [Promise!Next]_<<outcome, spent>>
  <2>1. committedFor' = committedFor /\ SameEnds
    BY <1>4 DEF WaitForWork, candidateVars, turnVars, Inv, TypeOK, SameEnds, Natively
  <2> QED
    BY <2>1, Stutter
<1>5. ASSUME NEW a \in Actors, GiveUp(a) PROVE [Promise!Next]_<<outcome, spent>>
  <2>1. committedFor' = committedFor /\ SameEnds
    BY <1>5 DEF GiveUp, candidateVars, turnVars, Inv, TypeOK, SameEnds, Natively
  <2> QED
    BY <2>1, Stutter
<1>6. ASSUME NEW a \in Actors, Wake(a) PROVE [Promise!Next]_<<outcome, spent>>
  <2>1. committedFor' = committedFor /\ SameEnds
    BY <1>6 DEF Wake, candidateVars, turnVars, Inv, TypeOK, SameEnds, Natively
  <2> QED
    BY <2>1, Stutter
<1>7. ASSUME NEW a \in Actors, Authorized(a) PROVE [Promise!Next]_<<outcome, spent>>
  <2>1. committedFor' = committedFor /\ SameEnds
    BY <1>7 DEF Authorized, Break, Reject, TryAgain, Leave, Advance, released, candidateVars, turnVars, Inv, TypeOK, SameEnds, Natively
  <2> QED
    BY <2>1, Stutter
<1>8. ASSUME NEW a \in Actors, Join(a) PROVE [Promise!Next]_<<outcome, spent>>
  <2>1. committedFor' = committedFor /\ SameEnds
    BY <1>8 DEF Join, Break, Reject, TryAgain, Leave, Advance, released, candidateVars, turnVars, Inv, TypeOK, SameEnds, Natively
  <2> QED
    BY <2>1, Stutter
<1>9. ASSUME NEW a \in Actors, Prepare(a) PROVE [Promise!Next]_<<outcome, spent>>
  <2>1. committedFor' = committedFor /\ SameEnds
    BY <1>9 DEF Prepare, Break, Reject, TryAgain, Leave, Advance, released, candidateVars, turnVars, Inv, TypeOK, SameEnds, Natively
  <2> QED
    BY <2>1, Stutter
<1>10. ASSUME NEW a \in Actors, CommitApplied(a) PROVE [Promise!Next]_<<outcome, spent>>
  <2>1. choice[a] \in Candidates /\ committedFor' = [committedFor EXCEPT ![choice[a]] = committedFor[choice[a]] \cup {a}]
    BY <1>10 DEF CommitApplied, turnVars, Inv, ChoiceInv, Holding
  <2>2. CASE choice[a] \in Exclusive
    <3>1. outcome[a] = "open"
      BY <1>10 DEF CommitApplied, turnVars, Inv, NoRerun, outcome
    <3>2. outcome' = [outcome EXCEPT ![a] = "effect"]
      <4>1. a \in committedFor'[choice[a]] /\ \A b \in Actors \ {a}, c \in Candidates : b \in committedFor'[c] <=> b \in committedFor[c]
        BY <2>1 DEF Inv, TypeOK
      <4>2. \A b \in Actors \ {a} : pc'[b] = pc[b]
        BY <1>10 DEF CommitApplied, turnVars, Inv, TypeOK
      <4>3. \A b \in Actors \ {a} : outcome'[b] = outcome[b]
        BY <4>1, <4>2, Setting DEF outcome
      <4>4. outcome'[a] = "effect"
        BY <1>10, <2>2, <4>1 DEF CommitApplied, turnVars, Inv, TypeOK, outcome
      <4> QED
        BY <4>3, <4>4 DEF outcome
    <3>3. choice[a] \notin spent /\ spent' = spent \cup {choice[a]}
      BY <1>10, <2>1, <2>2, Unclaimed DEF Inv, TypeOK, spent
    <3> QED
      BY <2>2, <3>1, <3>2, <3>3 DEF Promise!Next, Promise!Spend
  <2>3. CASE choice[a] \notin Exclusive
    <3>1. spent' = spent
      BY <2>1, <2>3 DEF Inv, TypeOK, spent
    <3>2. outcome' = outcome
      BY <1>10, <2>1, <2>3 DEF CommitApplied, Inv, TypeOK, outcome
    <3> QED
      BY <3>1, <3>2
  <2> QED
    BY <2>2, <2>3
<1>11. ASSUME NEW a \in Actors, CommitFailed(a) PROVE [Promise!Next]_<<outcome, spent>>
  <2>1. committedFor' = committedFor /\ SameEnds
    BY <1>11 DEF CommitFailed, Break, Reject, TryAgain, Leave, Advance, released, candidateVars, turnVars, Inv, TypeOK, SameEnds, Natively
  <2> QED
    BY <2>1, Stutter
<1>12. ASSUME NEW a \in Actors, CommitPoisoned(a) PROVE [Promise!Next]_<<outcome, spent>>
  <2>1. choice[a] \in Candidates /\ committedFor' = [committedFor EXCEPT ![choice[a]] = committedFor[choice[a]] \cup {a}]
    BY <1>12 DEF CommitPoisoned, Leave, released, turnVars, Inv, ChoiceInv, Holding
  <2>2. CASE choice[a] \in Exclusive
    <3>1. outcome[a] = "open"
      BY <1>12 DEF CommitPoisoned, Leave, released, turnVars, Inv, NoRerun, outcome
    <3>2. outcome' = [outcome EXCEPT ![a] = "failed"]
      <4>1. a \in committedFor'[choice[a]] /\ \A b \in Actors \ {a}, c \in Candidates : b \in committedFor'[c] <=> b \in committedFor[c]
        BY <2>1 DEF Inv, TypeOK
      <4>2. \A b \in Actors \ {a} : pc'[b] = pc[b]
        BY <1>12 DEF CommitPoisoned, Leave, released, turnVars, Inv, TypeOK
      <4>3. \A b \in Actors \ {a} : outcome'[b] = outcome[b]
        BY <4>1, <4>2, Setting DEF outcome
      <4>4. outcome'[a] = "failed"
        BY <1>12, <2>2, <4>1 DEF CommitPoisoned, Leave, released, turnVars, Inv, TypeOK, outcome
      <4> QED
        BY <4>3, <4>4 DEF outcome
    <3>3. choice[a] \notin spent /\ spent' = spent \cup {choice[a]}
      BY <1>12, <2>1, <2>2, Unclaimed DEF Inv, TypeOK, spent
    <3> QED
      BY <2>2, <3>1, <3>2, <3>3 DEF Promise!Next, Promise!Lose
  <2> QED
    BY <1>12, <2>2 DEF CommitPoisoned
<1>13. ASSUME NEW a \in Actors, Adopt(a) PROVE [Promise!Next]_<<outcome, spent>>
  <2>1. committedFor' = committedFor /\ SameEnds
    BY <1>13 DEF Adopt, released, Discarded, Unreserved, turnVars, Inv, TypeOK, SameEnds, Natively
  <2> QED
    BY <2>1, Stutter
<1>14. ASSUME NEW a \in Actors, Retained(a) PROVE [Promise!Next]_<<outcome, spent>>
  <2>1. committedFor' = committedFor /\ SameEnds
    BY <1>14 DEF Retained, turnVars, Inv, TypeOK, SameEnds, Natively
  <2> QED
    BY <2>1, Stutter
<1>15. ASSUME NEW a \in Actors, Serve(a) PROVE [Promise!Next]_<<outcome, spent>>
  <2>1. outcome[a] \in {"open", "effect"}
    BY <1>15 DEF Serve, outcome
  <2>2. outcome' = [outcome EXCEPT ![a] = "served"]
    BY <1>15 DEF Serve, candidateVars, Inv, TypeOK, outcome
  <2>3. spent' = spent
    BY <1>15 DEF Serve, candidateVars, spent
  <2> QED
    BY <2>1, <2>2, <2>3 DEF Promise!Next, Promise!Serve
<1>16. ASSUME NEW a \in Actors, Fallback(a) PROVE [Promise!Next]_<<outcome, spent>>
  <2>1. outcome[a] = "open"
    BY <1>16 DEF Fallback, Preemptable, Unreserved, Discarded, Awaiting, Inv, NoRerun, outcome
  <2>2. outcome' = [outcome EXCEPT ![a] = "native"]
    BY <1>16 DEF Fallback, Preemptable, Unreserved, Discarded, Awaiting, Inv, TypeOK, outcome
  <2>3. spent' = spent
    BY <1>16 DEF Fallback, Preemptable, Unreserved, Discarded, Awaiting, spent
  <2> QED
    BY <2>1, <2>2, <2>3 DEF Promise!Next, Promise!RunNatively
<1>17. ASSUME NEW a \in Actors, NativeSettled(a) PROVE [Promise!Next]_<<outcome, spent>>
  <2>1. committedFor' = committedFor /\ SameEnds
    BY <1>17 DEF NativeSettled, Unreserved, Discarded, Inv, TypeOK, SameEnds, Natively
  <2> QED
    BY <2>1, Stutter
<1>18. ASSUME NEW c \in Candidates, Register(c) PROVE [Promise!Next]_<<outcome, spent>>
  <2>1. committedFor' = committedFor /\ SameEnds
    BY <1>18 DEF Register, turnVars, Inv, TypeOK, SameEnds, Natively
  <2> QED
    BY <2>1, Stutter
<1>19. ASSUME NEW c \in Candidates, Start(c) PROVE [Promise!Next]_<<outcome, spent>>
  <2>1. committedFor' = committedFor /\ SameEnds
    BY <1>19 DEF Start, actorVars, turnVars, Inv, TypeOK, SameEnds, Natively
  <2> QED
    BY <2>1, Stutter
<1>20. ASSUME NEW c \in Candidates, Succeed(c) PROVE [Promise!Next]_<<outcome, spent>>
  <2>1. committedFor' = committedFor /\ SameEnds
    BY <1>20 DEF Succeed, turnVars, Inv, TypeOK, SameEnds, Natively
  <2> QED
    BY <2>1, Stutter
<1>21. ASSUME NEW c \in Candidates, Fail(c) PROVE [Promise!Next]_<<outcome, spent>>
  <2>1. committedFor' = committedFor /\ SameEnds
    BY <1>21 DEF Fail, turnVars, Inv, TypeOK, SameEnds, Natively
  <2> QED
    BY <2>1, Stutter
<1>22. ASSUME NEW c \in Candidates, Discard(c) PROVE [Promise!Next]_<<outcome, spent>>
  <2>1. committedFor' = committedFor /\ SameEnds
    BY <1>22 DEF Discard, Discarded, Unreserved, turnVars, Inv, TypeOK, SameEnds, Natively
  <2> QED
    BY <2>1, Stutter
<1>23. ASSUME NEW c \in Candidates, DropTool(c) PROVE [Promise!Next]_<<outcome, spent>>
  <2>1. committedFor' = committedFor /\ SameEnds
    BY <1>23 DEF DropTool, Discarded, turnVars, Inv, TypeOK, SameEnds, Natively
  <2> QED
    BY <2>1, Stutter
<1>24. ASSUME NEW a \in Actors, Promoted(a) PROVE [Promise!Next]_<<outcome, spent>>
  <2>1. committedFor' = committedFor /\ SameEnds
    BY <1>24 DEF Promoted, candidateVars, turnVars, Inv, TypeOK, SameEnds, Natively
  <2> QED
    BY <2>1, Stutter
<1>25. ASSUME NEW a \in Actors, Cancel(a) PROVE [Promise!Next]_<<outcome, spent>>
  <2>1. committedFor' = committedFor /\ SameEnds
    BY <1>25 DEF Cancel, candidateVars, actorVars, Inv, TypeOK, SameEnds, Natively
  <2> QED
    BY <2>1, Stutter
<1>26. ASSUME NEW p \in Previews, NEW c \in Candidates, PreviewAcquire(p, c) PROVE [Promise!Next]_<<outcome, spent>>
  <2>1. committedFor' = committedFor /\ SameEnds
    BY <1>26 DEF PreviewAcquire, Available, turnVars, Inv, TypeOK, SameEnds, Natively
  <2> QED
    BY <2>1, Stutter
<1>27. ASSUME NEW p \in Previews, NEW c \in Candidates, PreviewRelease(p, c) PROVE [Promise!Next]_<<outcome, spent>>
  <2>1. committedFor' = committedFor /\ SameEnds
    BY <1>27 DEF PreviewRelease, turnVars, Inv, TypeOK, SameEnds, Natively
  <2> QED
    BY <2>1, Stutter
<1>28. ASSUME CloseTurn PROVE [Promise!Next]_<<outcome, spent>>
  <2>1. committedFor' = committedFor /\ SameEnds
    BY <1>28 DEF CloseTurn, candidateVars, actorVars, Inv, TypeOK, SameEnds, Natively
  <2> QED
    BY <2>1, Stutter
<1>29. ASSUME FinishTurn PROVE [Promise!Next]_<<outcome, spent>>
  <2>1. committedFor' = committedFor /\ SameEnds
    BY <1>29 DEF FinishTurn, candidateVars, actorVars, Inv, TypeOK, SameEnds, Natively
  <2> QED
    BY <2>1, Stutter
<1>30. ASSUME EndSession PROVE [Promise!Next]_<<outcome, spent>>
  <2>1. committedFor' = committedFor /\ SameEnds
    BY <1>30 DEF EndSession, Discarded, Inv, TypeOK, SameEnds, Natively
  <2> QED
    BY <2>1, Stutter
<1>31. CASE UNCHANGED vars
  BY <1>31 DEF vars, outcome, spent
<1> QED
  BY <1>1, <1>2, <1>3, <1>4, <1>5, <1>6, <1>7, <1>8, <1>9, <1>10,
    <1>11, <1>12, <1>13, <1>14, <1>15, <1>16, <1>17, <1>18, <1>19, <1>20,
    <1>21, <1>22, <1>23, <1>24, <1>25, <1>26, <1>27, <1>28, <1>29, <1>30,
    <1>31
    DEF Next, ActorStep, WorkStep

-----------------------------------------------------------------------------
\* Inv holds in every reachable state.
THEOREM Invariance == Spec => []Inv
<1>1. Inv /\ [Next]_vars => Inv'
  BY TypeStep, ChoiceStep, ReservationStep, ConsumedStep, NoRerunStep, ClaimStep, CommitStep, OnceStep DEF Inv
<1> QED
  BY <1>1, InitInv, PTL DEF Spec

\* Every variable keeps its type.
THEOREM TypeCorrect == Spec => []TypeOK
<1>1. Inv => TypeOK
  BY DEF Inv
<1> QED
  BY <1>1, Invariance, PTL

\* Reservations are held by the calls at work on the candidate, exclusive ones by one owner.
THEOREM ReservationsHeld == Spec => []ReservationsAccounted
<1>1. Inv => ReservationsAccounted
  BY DEF Inv
<1> QED
  BY <1>1, Invariance, PTL

\* A call whose branch was committed is never run natively.
THEOREM NeverRerun == Spec => []NoRerun
<1>1. Inv => NoRerun
  BY DEF Inv
<1> QED
  BY <1>1, Invariance, PTL

\* An exclusive branch is committed for one call.
THEOREM OneCallPerEffect == Spec => []AdoptedOnce
<1>1. Inv => AdoptedOnce
  BY DEF Inv
<1> QED
  BY <1>1, Invariance, PTL

\* Nothing takes started reserved work out of an open session's store.
THEOREM ReservedWorkIsKept == Spec => ReservedIsKept
<1>1. Inv /\ [Next]_vars =>
        [\A c \in stored : session' = "open" /\ lease[c] # {} /\ exec[c] # "queued" => c \in stored' \/ exec'[c] = "failed"]_vars
  BY ReservedStep
<1> QED
  BY <1>1, Invariance, PTL DEF Spec, ReservedIsKept

\* The runtime keeps what ActorOnce promises its host.
THEOREM Refinement == Spec => KeepsPromise
<1>1. Init => Promise!Init
  BY Setting DEF Init, Promise!Init, outcome, spent
<1> QED
  BY <1>1, PromiseStep, Invariance, PTL DEF Spec, KeepsPromise, Promise!Spec

\* What the run `adoption_safety` checks at every moment of the Actor's calls
\* (prepareActorCall, selectActorCandidate).
THEOREM CallsSafe == Spec => []AdoptionSafe
  BY TypeCorrect, NeverRerun, OneCallPerEffect, ReservationsHeld, PTL DEF AdoptionSafe
=============================================================================
