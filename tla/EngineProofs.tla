---------------------------- MODULE EngineProofs ----------------------------
(* Of the engine, for any number of calls, turns and requests: a capture of   *)
(* the Actor's own run ends once; a source's requests give their slots back,  *)
(* one alternative of a turn wins, and no answer comes into the plan late;    *)
(* what is dispatched is not forgotten, runs in an open world it was selected *)
(* for, and is told of truly, in order and without loss.                      *)
EXTENDS AuthoritativeCapture, SourceRequests, ExecutionWorlds, FiniteSetTheorems, SequenceTheorems, TLAPS

Attempts ==
  [kind : {"none", "whole", "inputs"},
   state : {"none", "begun", "sealing", "sealed", "failed", "aborted"},
   disposals : {0, 1}]

CaptureType ==
  /\ turn \in {"active", "closing", "finished"}
  /\ session \in {"open", "sealed", "discarded", "closed"}
  /\ reuse \in BOOLEAN
  /\ held \subseteq Calls /\ own \subseteq Calls
  /\ call \in [Calls -> {"idle", "matching", "capturing", "running", "sealing", "retaining", "done"}]
  /\ attempt \in [Calls -> Attempts]
  /\ branch \in [Calls -> {"none", "open", "kept", "released"}]

\* Before its run a call has no capture, and the coordinator no attempt for it.
NothingYet ==
  \A c \in Calls : call[c] \in {"idle", "matching", "capturing"} =>
    attempt[c] = NoAttempt /\ branch[c] = "none" /\ c \notin own

\* `resultCapture` is set exactly while the attempt can still be sealed: the ActorAction
\* that holds it is registered, its call runs and its turn is not finished.
HeldWhileBegun ==
  /\ \A c \in Calls : attempt[c].state = "begun" <=> c \in own
  /\ \A c \in own : c \in held /\ call[c] = "running"
  /\ turn = "finished" => held = {}

\* The coordinator's state says how often the backend was told to dispose of the capture.
DisposalsByState ==
  \A c \in Calls : attempt[c].disposals = IF attempt[c].state \in {"aborted", "failed"} THEN 1 ELSE 0

\* The settlement under way owns the attempt it seals and the branch it got.
OwnedBySettlement ==
  \A c \in Calls :
    /\ attempt[c].state = "sealing" <=> call[c] = "sealing"
    /\ branch[c] = "open" <=> call[c] = "retaining"
    /\ branch[c] \in {"open", "kept"} => attempt[c].state = "sealed"

\* The cache of a session keeps nothing after its results are discarded.
KeptBySession == \A c \in Calls : branch[c] = "kept" => session \in {"open", "sealed"}

CaptureInv ==
  /\ CaptureType /\ NothingYet /\ HeldWhileBegun /\ DisposalsByState
  /\ OwnedBySettlement /\ KeptBySession
-----------------------------------------------------------------------------
LEMMA CaptureStart == CaptureInit => CaptureInv
  BY DEF CaptureInit, NoAttempt, CaptureInv, CaptureType, Attempts, NothingYet, HeldWhileBegun, DisposalsByState, OwnedBySettlement, KeptBySession

LEMMA AttemptMoves ==
  ASSUME NEW a \in Attempts, NEW s \in {"begun", "sealing", "sealed"}
  PROVE  /\ [a EXCEPT !.state = s] \in Attempts
         /\ [a EXCEPT !.state = s].state = s
         /\ [a EXCEPT !.state = s].disposals = a.disposals
  BY DEF Attempts

LEMMA AttemptEnds ==
  ASSUME NEW a \in Attempts, NEW s \in {"failed", "aborted"}, a.disposals = 0
  PROVE  /\ [a EXCEPT !.state = s, !.disposals = a.disposals + 1] \in Attempts
         /\ [a EXCEPT !.state = s, !.disposals = a.disposals + 1].state = s
         /\ [a EXCEPT !.state = s, !.disposals = a.disposals + 1].disposals = 1
  <1> DEFINE n == a.disposals + 1
  <1>1. n = 1
    OBVIOUS
  <1> HIDE DEF n
  <1>2. /\ [a EXCEPT !.state = s, !.disposals = n] \in Attempts
        /\ [a EXCEPT !.state = s, !.disposals = n].state = s
        /\ [a EXCEPT !.state = s, !.disposals = n].disposals = 1
    BY <1>1 DEF Attempts
  <1>3. QED
    BY <1>2 DEF n

\* Disposing(C) gives up the attempts of C that have begun, and leaves the others alone.
LEMMA DisposingGivesUp ==
  ASSUME CaptureType, DisposalsByState, NEW C
  PROVE  /\ Disposing(C) \in [Calls -> Attempts]
         /\ \A c \in Calls : c \in C /\ attempt[c].state = "begun" =>
              Disposing(C)[c].state = "aborted" /\ Disposing(C)[c].disposals = 1
         /\ \A c \in Calls : ~(c \in C /\ attempt[c].state = "begun") => Disposing(C)[c] = attempt[c]
  <1>1. \A c \in Calls : attempt[c] \in Attempts
    BY DEF CaptureType
  <1>2. \A c \in Calls : attempt[c].state = "begun" => attempt[c].disposals = 0
    BY DEF DisposalsByState
  <1>3. ASSUME NEW c \in Calls, c \in C /\ attempt[c].state = "begun"
        PROVE  /\ Disposing(C)[c] = [attempt[c] EXCEPT !.state = "aborted", !.disposals = attempt[c].disposals + 1]
               /\ attempt[c].disposals = 0
    BY <1>2, <1>3 DEF Disposing
  <1>4. ASSUME NEW c \in Calls, ~(c \in C /\ attempt[c].state = "begun")
        PROVE  Disposing(C)[c] = attempt[c]
    BY <1>4 DEF Disposing
  <1>5. ASSUME NEW c \in Calls, c \in C /\ attempt[c].state = "begun"
        PROVE  /\ Disposing(C)[c] \in Attempts
               /\ Disposing(C)[c].state = "aborted" /\ Disposing(C)[c].disposals = 1
    <2>1. attempt[c] \in Attempts
      BY <1>1
    <2>2. attempt[c].disposals = 0
      BY <1>3, <1>5
    <2>3. /\ [attempt[c] EXCEPT !.state = "aborted", !.disposals = attempt[c].disposals + 1] \in Attempts
          /\ [attempt[c] EXCEPT !.state = "aborted", !.disposals = attempt[c].disposals + 1].state = "aborted"
          /\ [attempt[c] EXCEPT !.state = "aborted", !.disposals = attempt[c].disposals + 1].disposals = 1
      BY <2>1, <2>2, AttemptEnds
    <2>4. QED
      BY <1>3, <1>5, <2>3, Zenon
  <1>6. Disposing(C) = [c \in Calls |-> Disposing(C)[c]]
    BY DEF Disposing
  <1>7. \A c \in Calls : Disposing(C)[c] \in Attempts
    BY <1>1, <1>4, <1>5
  <1>8. QED
    BY <1>4, <1>5, <1>6, <1>7

LEMMA CaptureStep == CaptureInv /\ [CaptureNext]_captureVars => CaptureInv'
  <1> SUFFICES ASSUME CaptureInv, [CaptureNext]_captureVars PROVE CaptureInv'
    OBVIOUS
  <1>1. ASSUME NEW c \in Calls, Arrive(c) PROVE CaptureInv'
    BY <1>1 DEF Arrive, Goes, CaptureInv, CaptureType, Attempts, NothingYet, HeldWhileBegun, DisposalsByState, OwnedBySettlement, KeptBySession, NoAttempt
  <1>2. ASSUME NEW c \in Calls, Serve(c) PROVE CaptureInv'
    BY <1>2 DEF Serve, Goes, CaptureInv, CaptureType, Attempts, NothingYet, HeldWhileBegun, DisposalsByState, OwnedBySettlement, KeptBySession, NoAttempt
  <1>3. ASSUME NEW c \in Calls, NEW asks \in BOOLEAN, Fallback(c, asks) PROVE CaptureInv'
    BY <1>3 DEF Fallback, Goes, CaptureInv, CaptureType, Attempts, NothingYet, HeldWhileBegun, DisposalsByState, OwnedBySettlement, KeptBySession, NoAttempt
  <1>4. ASSUME NEW c \in Calls, NEW kind \in {"whole", "inputs"}, Captured(c, kind) PROVE CaptureInv'
    BY <1>4 DEF Captured, Goes, Wanted, CaptureInv, CaptureType, Attempts, NothingYet, HeldWhileBegun, DisposalsByState, OwnedBySettlement, KeptBySession, NoAttempt
  <1>5. ASSUME NEW c \in Calls, NotCaptured(c) PROVE CaptureInv'
    BY <1>5 DEF NotCaptured, Goes, CaptureInv, CaptureType, Attempts, NothingYet, HeldWhileBegun, DisposalsByState, OwnedBySettlement, KeptBySession, NoAttempt
  <1>6. ASSUME NEW c \in Calls, NEW output \in {"succeeded", "failed"}, Settle(c, output) PROVE CaptureInv'
    <2>1. CASE c \notin held
      BY <1>6, <2>1 DEF Settle, Goes, CaptureInv, CaptureType, Attempts, NothingYet, HeldWhileBegun, DisposalsByState, OwnedBySettlement, KeptBySession, NoAttempt
    <2>2. CASE c \in held /\ Seals(c, output) /\ attempt[c].state = "begun"
      <3> DEFINE after == [attempt[c] EXCEPT !.state = "sealing"]
      <3>1. /\ attempt' = [attempt EXCEPT ![c] = after]
            /\ call' = [call EXCEPT ![c] = "sealing"]
            /\ held' = held \ {c} /\ own' = own \ {c}
            /\ UNCHANGED <<turn, session, reuse, branch, changes>>
        BY <1>6, <2>2 DEF Settle, Goes, CaptureType, CaptureInv
      <3>2. attempt[c] \in Attempts /\ attempt[c].disposals = 0 /\ branch[c] \notin {"open", "kept"}
        BY <2>2 DEF CaptureInv, CaptureType, Attempts, NothingYet, HeldWhileBegun, DisposalsByState, OwnedBySettlement, KeptBySession, NoAttempt
      <3>3. after \in Attempts /\ after.state = "sealing" /\ after.disposals = 0
        BY <3>2, AttemptMoves
      <3>4. call[c] = "running"
        BY <1>6 DEF Settle
      <3> HIDE DEF after
      <3>5. QED
        BY <3>1, <3>2, <3>3, <3>4 DEF CaptureInv, CaptureType, Attempts, NothingYet, HeldWhileBegun, DisposalsByState, OwnedBySettlement, KeptBySession, NoAttempt
    <2>3. CASE c \in held /\ ~(Seals(c, output) /\ attempt[c].state = "begun")
      <3>1. /\ held' = held \ {c} /\ own' = own \ {c}
            /\ call' = [call EXCEPT ![c] = "done"] /\ attempt' = Disposing(own \cap {c})
            /\ UNCHANGED <<turn, session, reuse, branch, changes>>
        BY <1>6, <2>3 DEF Settle, Goes
      <3>2. call[c] = "running"
        BY <1>6 DEF Settle
      <3>3. QED
        <4> DEFINE after == Disposing(own \cap {c})
        <4>1. /\ after \in [Calls -> Attempts]
              /\ \A d \in Calls : d = c /\ c \in own => after[d].state = "aborted" /\ after[d].disposals = 1
              /\ \A d \in Calls : ~(d = c /\ c \in own) => after[d] = attempt[d]
          BY DisposingGivesUp DEF CaptureInv, CaptureType, Attempts, NothingYet, HeldWhileBegun, DisposalsByState, OwnedBySettlement, KeptBySession, NoAttempt
        <4>2. c \in own => branch[c] \notin {"open", "kept"}
          BY DEF CaptureInv, CaptureType, Attempts, NothingYet, HeldWhileBegun, DisposalsByState, OwnedBySettlement, KeptBySession, NoAttempt
        <4> HIDE DEF after
        <4>3. QED
          <5>1. attempt' = after
            BY <3>1 DEF after
          <5>2. \A d \in Calls : call'[d] = IF d = c THEN "done" ELSE call[d]
            BY <3>1 DEF CaptureInv, CaptureType
          <5>3. CaptureType'
            BY <3>1, <4>1, <5>1 DEF CaptureInv, CaptureType
          <5>4. NothingYet'
            BY <3>1, <3>2, <4>1, <5>1, <5>2 DEF CaptureInv, NothingYet, NoAttempt
          <5>5. HeldWhileBegun'
            BY <3>1, <4>1, <5>1, <5>2 DEF CaptureInv, HeldWhileBegun
          <5>6. DisposalsByState'
            BY <4>1, <5>1 DEF CaptureInv, DisposalsByState
          <5>7. OwnedBySettlement'
            BY <3>1, <3>2, <4>1, <4>2, <5>1, <5>2 DEF CaptureInv, OwnedBySettlement, HeldWhileBegun
          <5>8. KeptBySession'
            BY <3>1 DEF CaptureInv, KeptBySession
          <5>9. QED
            BY <5>3, <5>4, <5>5, <5>6, <5>7, <5>8 DEF CaptureInv
    <2>4. QED
      BY <2>1, <2>2, <2>3
  <1>7. ASSUME NEW c \in Calls, NEW result \in {"branch", "contradicts", "unsealable", "fails"}, Sealed(c, result) PROVE CaptureInv'
    <2>1. attempt[c].state = "sealing" /\ attempt[c].disposals = 0 /\ attempt[c] \in Attempts /\ branch[c] \in {"none", "released"}
      BY <1>7 DEF Sealed, CaptureInv, CaptureType, Attempts, NothingYet, HeldWhileBegun, DisposalsByState, OwnedBySettlement, KeptBySession, NoAttempt
    <2>2. CASE result = "branch"
      <3> DEFINE after == [attempt[c] EXCEPT !.state = "sealed"]
      <3>1. /\ attempt' = [attempt EXCEPT ![c] = after]
            /\ call' = [call EXCEPT ![c] = "retaining"]
            /\ branch' = [branch EXCEPT ![c] = "open"]
            /\ UNCHANGED <<turn, session, reuse, held, own, changes>>
        BY <1>7, <2>2 DEF Sealed, Goes, CaptureType, CaptureInv
      <3>2. after \in Attempts /\ after.state = "sealed" /\ after.disposals = 0
        BY <2>1, AttemptMoves
      <3>3. call[c] = "sealing"
        BY <1>7 DEF Sealed
      <3> HIDE DEF after
      <3>4. QED
        BY <3>1, <3>2, <3>3, <2>1 DEF CaptureInv, CaptureType, Attempts, NothingYet, HeldWhileBegun, DisposalsByState, OwnedBySettlement, KeptBySession, NoAttempt
    <2>3. CASE result # "branch"
      <3> DEFINE after == [attempt[c] EXCEPT !.state = "failed", !.disposals = attempt[c].disposals + 1]
      <3>1. /\ attempt' = [attempt EXCEPT ![c] = after]
            /\ call' = [call EXCEPT ![c] = "done"]
            /\ branch' = [branch EXCEPT ![c] = IF result = "fails" THEN "none" ELSE "released"]
            /\ UNCHANGED <<turn, session, reuse, held, own, changes>>
        BY <1>7, <2>3 DEF Sealed, Goes, CaptureType, CaptureInv
      <3>2. after \in Attempts /\ after.state = "failed" /\ after.disposals = 1
        BY <2>1, AttemptEnds
      <3>3. call[c] = "sealing"
        BY <1>7 DEF Sealed
      <3> HIDE DEF after
      <3>4. QED
        BY <3>1, <3>2, <3>3, <2>1 DEF CaptureInv, CaptureType, Attempts, NothingYet, HeldWhileBegun, DisposalsByState, OwnedBySettlement, KeptBySession, NoAttempt
    <2>4. QED
      BY <2>2, <2>3
  <1>8. ASSUME NEW c \in Calls, NEW rejected \in BOOLEAN, Retain(c, rejected) PROVE CaptureInv'
    BY <1>8 DEF Retain, Goes, Keeps, CaptureInv, CaptureType, Attempts, NothingYet, HeldWhileBegun, DisposalsByState, OwnedBySettlement, KeptBySession, NoAttempt
  <1>9. ASSUME NEW c \in Calls, Evict(c) PROVE CaptureInv'
    BY <1>9 DEF Evict, CaptureInv, CaptureType, Attempts, NothingYet, HeldWhileBegun, DisposalsByState, OwnedBySettlement, KeptBySession, NoAttempt
  <1>10. ASSUME Switch PROVE CaptureInv'
    BY <1>10 DEF Switch, CaptureInv, CaptureType, Attempts, NothingYet, HeldWhileBegun, DisposalsByState, OwnedBySettlement, KeptBySession, NoAttempt
  <1>11. ASSUME BeginClosure PROVE CaptureInv'
    BY <1>11 DEF BeginClosure, CaptureInv, CaptureType, Attempts, NothingYet, HeldWhileBegun, DisposalsByState, OwnedBySettlement, KeptBySession, NoAttempt
  <1>12. ASSUME CompleteClosure PROVE CaptureInv'
    <2>1. own \subseteq held
      BY DEF CaptureInv, CaptureType, Attempts, NothingYet, HeldWhileBegun, DisposalsByState, OwnedBySettlement, KeptBySession, NoAttempt
    <2>2. /\ attempt' = Disposing(own) /\ held' = {} /\ own' = {} /\ turn' = "finished"
          /\ UNCHANGED <<session, reuse, call, branch, changes>>
      <3>1. held \cap own = own /\ own \ held = {}
        BY <2>1
      <3>2. QED
        BY <1>12, <3>1 DEF CompleteClosure, Cleared
    <2>3. QED
      BY <2>2, DisposingGivesUp DEF CaptureInv, CaptureType, Attempts, NothingYet, HeldWhileBegun, DisposalsByState, OwnedBySettlement, KeptBySession, NoAttempt
  <1>13. ASSUME Seal PROVE CaptureInv'
    BY <1>13 DEF Seal, CaptureInv, CaptureType, Attempts, NothingYet, HeldWhileBegun, DisposalsByState, OwnedBySettlement, KeptBySession, NoAttempt
  <1>14. ASSUME Discard PROVE CaptureInv'
    BY <1>14 DEF Discard, CaptureInv, CaptureType, Attempts, NothingYet, HeldWhileBegun, DisposalsByState, OwnedBySettlement, KeptBySession, NoAttempt
  <1>15. ASSUME Close PROVE CaptureInv'
    BY <1>15 DEF Close, CaptureInv, CaptureType, Attempts, NothingYet, HeldWhileBegun, DisposalsByState, OwnedBySettlement, KeptBySession, NoAttempt
  <1>16. CASE UNCHANGED captureVars
    BY <1>16 DEF captureVars, CaptureInv, CaptureType, Attempts, NothingYet, HeldWhileBegun, DisposalsByState, OwnedBySettlement, KeptBySession, NoAttempt
  <1>17. QED
    BY <1>1, <1>2, <1>3, <1>4, <1>5, <1>6, <1>7, <1>8, <1>9, <1>10, <1>11, <1>12, <1>13, <1>14, <1>15, <1>16 DEF CaptureNext

\* A capture is in one pair of hands at a time, and the coordinator's states follow it
\* through the awaits of settleActorCall (effect-transaction.ts, runtime-engine.ts).
THEOREM CaptureInvariance == CaptureSpec => []CaptureInv
  BY CaptureStart, CaptureStep, PTL DEF CaptureSpec

\* The backend is told to dispose of a capture at most once and never of one whose branch is
\* in use; an open capture belongs to a registered call of the unfinished turn, a branch to the
\* settlement under way or to the cache of an open session (EffectTransactionCoordinator.capture,
\* clearActorActions, retainAuthoritativeBranch).
THEOREM CapturesSafe == CaptureSpec => []CapturesEndOnce
  <1>1. CaptureInv => CapturesEndOnce
    BY DEF CaptureInv, CaptureType, Attempts, HeldWhileBegun, DisposalsByState, OwnedBySettlement, KeptBySession, CapturesEndOnce
  <1>2. QED
    BY <1>1, CaptureInvariance, PTL
-----------------------------------------------------------------------------
(* The requests of a source *)

Reasons == {"none", "unused", "lost", "parent", "arrived", "turn_finished", "disabled", "disposed"}
Turning == [stage : {"none", "waiting", "launched", "arrived", "finished"}, seq : Nat]
Slotted == [held : BOOLEAN, kind : {"none", "proposal", "continuation"}, turn : Nat, target : Nat, proposal : Nat,
            reason : Reasons, pending : Nat, owners : SUBSET PlanActions]
Acting == [stage : {"none", "raw", "bound", "gone"}, slot : Nat, aborted : BOOLEAN]

SourceType ==
  /\ sourceSession \in [stage : {"open", "draining", "closed"}, enabled : BOOLEAN, decision : Nat]
  /\ sourceTurn \in [Turns -> Turning]
  /\ slot \in [Slots -> Slotted]
  /\ request \in [Slots -> {"none", "producing", "produced", "admitting", "binding", "done"}]
  /\ physical \in SUBSET Slots
  /\ planAction \in [PlanActions -> Acting]

\* A slot nobody claimed is free; a claimed one is held while its generation is active, by its
\* request or by an action.
SlotsUsed ==
  \A s \in Slots :
    /\ request[s] = "none" => ~slot[s].held /\ slot[s].kind = "none" /\ slot[s].owners = {} /\ s \notin physical
    /\ request[s] # "none" /\ Active(s) => slot[s].held
    /\ slot[s].held => sourceSession.stage = "open" /\ (slot[s].pending > 0 \/ slot[s].owners # {})
    /\ slot[s].held /\ Active(s) => sourceSession.enabled
    /\ request[s] \in {"producing", "produced", "admitting", "binding"} => slot[s].pending > 0
\* An action is in the plan as long as its slot has it for an owner.
Owned ==
  /\ \A s \in Slots : \A a \in slot[s].owners : a \in InPlan /\ planAction[a].slot = s
  /\ \A a \in InPlan : planAction[a].slot \in Slots /\ a \in slot[planAction[a].slot].owners /\ sourceSession.stage = "open"
\* Only what was bound before survives the end of its generation.
Admitted ==
  \A a \in InPlan : ~planAction[a].aborted =>
    LET s == planAction[a].slot IN Active(s) \/ (planAction[a].stage = "bound" /\ Survives(slot[s].reason))
\* The proposals of a turn have its decision for target, and end with it.
Turned ==
  \A s \in Slots : slot[s].kind = "proposal" =>
    /\ slot[s].turn \in Turns /\ slot[s].target = sourceTurn[slot[s].turn].seq
    /\ sourceTurn[slot[s].turn].stage \notin {"none", "waiting"}
    /\ Active(s) => sourceTurn[slot[s].turn].stage = "launched"
    /\ Survives(slot[s].reason) => sourceTurn[slot[s].turn].stage # "launched"
AllFinished == sourceSession.stage # "open" => \A t \in Turns : sourceTurn[t].stage = "finished"
\* One turn at a time.
OneTurn == \A t, u \in Turns : sourceTurn[t].stage \notin {"none", "finished"} /\ sourceTurn[u].stage \notin {"none", "finished"} => t = u
Within == \A target \in Nat : Cardinality(Alternatives(target)) <= MaxAlternatives

Ended == sourceSession.stage = "closed" => Quiet
SourceInv ==
  SourceType /\ SlotsUsed /\ Owned /\ Admitted /\ Turned /\ AllFinished /\ OneTurn /\ Within /\ OneWinner /\ Ended

LEMMA SourceStart == SourceInit => SourceInv
  <1> SUFFICES ASSUME SourceInit PROVE SourceInv
    OBVIOUS
  <1>1. FreeSlot \in Slotted /\ FreeSlot.held = FALSE /\ FreeSlot.kind = "none" /\ FreeSlot.owners = {} /\ FreeSlot.reason = "none"
    BY DEF FreeSlot, Slotted, Reasons
  <1>2. SourceType
    BY <1>1 DEF SourceInit, SourceType, Turning, Acting
  <1>3. InPlan = {} /\ Held = {}
    BY <1>1 DEF SourceInit, InPlan, Held
  <1>4. Within
    <2>1. \A target : Alternatives(target) = {}
      BY <1>3 DEF Alternatives
    <2>2. QED
      BY <2>1, FS_EmptySet, SourceSetting DEF Within
  <1>5. SlotsUsed /\ Owned /\ Admitted /\ Turned /\ AllFinished /\ OneTurn /\ OneWinner /\ Ended
    BY <1>1, <1>3 DEF SourceInit, SlotsUsed, Owned, Admitted, Turned, AllFinished, OneTurn, OneWinner, Ended
  <1>6. QED
    BY <1>2, <1>4, <1>5 DEF SourceInv

\* What sweeping a slot changes of it.
LEMMA SweptFields ==
  ASSUME NEW v \in Slotted
  PROVE  LET w == Swept(v) IN
         /\ w \in Slotted
         /\ w.kind = v.kind /\ w.turn = v.turn /\ w.target = v.target /\ w.proposal = v.proposal
         /\ w.pending = v.pending /\ w.owners = v.owners
         /\ w.held <=> v.held /\ (v.pending > 0 \/ v.owners # {})
         /\ w.reason = IF v.held /\ ~w.held /\ v.reason = "none" THEN "unused" ELSE v.reason
  <1>1. v.pending = 0 \/ v.pending > 0
    BY DEF Slotted
  <1>2. CASE v.held /\ v.pending = 0 /\ v.owners = {}
    <2> DEFINE q == IF v.reason = "none" THEN "unused" ELSE v.reason
    <2>1. Swept(v) = [v EXCEPT !.held = FALSE, !.reason = q]
      BY <1>2 DEF Swept
    <2>2. q \in Reasons
      BY DEF Slotted, Reasons
    <2> HIDE DEF q
    <2>3. /\ Swept(v) \in Slotted /\ Swept(v).held = FALSE /\ Swept(v).reason = q
          /\ Swept(v).kind = v.kind /\ Swept(v).turn = v.turn /\ Swept(v).target = v.target /\ Swept(v).proposal = v.proposal
          /\ Swept(v).pending = v.pending /\ Swept(v).owners = v.owners
      BY <2>1, <2>2 DEF Slotted
    <2>4. QED
      BY <1>2, <2>3 DEF q
  <1>3. CASE ~(v.held /\ v.pending = 0 /\ v.owners = {})
    <2>1. Swept(v) = v
      BY <1>3 DEF Swept
    <2>2. QED
      BY <1>1, <1>3, <2>1
  <1>4. QED
    BY <1>2, <1>3

\* What releasing slots changes of each.
LEMMA ReleasedFields ==
  ASSUME SourceType, NEW S, NEW r \in Reasons
  PROVE  LET f == Released(S, r) IN
         /\ f \in [Slots -> Slotted]
         /\ \A s \in Slots :
              /\ f[s].kind = slot[s].kind /\ f[s].turn = slot[s].turn /\ f[s].target = slot[s].target
              /\ f[s].proposal = slot[s].proposal /\ f[s].pending = slot[s].pending /\ f[s].owners = slot[s].owners
              /\ f[s].held <=> slot[s].held /\ s \notin S
              /\ f[s].reason = IF s \in S /\ slot[s].held /\ slot[s].reason = "none" THEN r ELSE slot[s].reason
  <1> DEFINE f == Released(S, r)
  <1>1. ASSUME NEW s \in Slots
        PROVE  /\ f[s] \in Slotted
               /\ f[s].kind = slot[s].kind /\ f[s].turn = slot[s].turn /\ f[s].target = slot[s].target
               /\ f[s].proposal = slot[s].proposal /\ f[s].pending = slot[s].pending /\ f[s].owners = slot[s].owners
               /\ f[s].held <=> slot[s].held /\ s \notin S
               /\ f[s].reason = IF s \in S /\ slot[s].held /\ slot[s].reason = "none" THEN r ELSE slot[s].reason
    <2>1. slot[s] \in Slotted
      BY DEF SourceType
    <2>2. CASE s \in S /\ slot[s].held
      <3> DEFINE q == IF slot[s].reason = "none" THEN r ELSE slot[s].reason
      <3>1. f[s] = [slot[s] EXCEPT !.held = FALSE, !.reason = q]
        BY <2>2 DEF Released
      <3>2. q \in Reasons
        BY <2>1 DEF Slotted
      <3> HIDE DEF q, f
      <3>3. /\ f[s] \in Slotted /\ f[s].held = FALSE /\ f[s].reason = q
            /\ f[s].kind = slot[s].kind /\ f[s].turn = slot[s].turn /\ f[s].target = slot[s].target
            /\ f[s].proposal = slot[s].proposal /\ f[s].pending = slot[s].pending /\ f[s].owners = slot[s].owners
        BY <2>1, <3>1, <3>2 DEF Slotted
      <3>4. QED
        BY <2>2, <3>3 DEF q
    <2>3. CASE ~(s \in S /\ slot[s].held)
      <3>1. f[s] = slot[s]
        BY <2>3 DEF Released
      <3> HIDE DEF f
      <3>2. QED
        BY <2>1, <2>3, <3>1
    <2>4. QED
      BY <2>2, <2>3
  <1>2. f = [s \in Slots |-> f[s]]
    BY DEF Released
  <1> HIDE DEF f
  <1>3. QED
    BY <1>1, <1>2 DEF f

\* Whose admission the end of the generations of S aborts.
Cut(a, S, r) ==
  /\ planAction[a].slot \in S /\ Active(planAction[a].slot)
  /\ planAction[a].stage = "raw" \/ (planAction[a].stage = "bound" /\ ~Survives(r))

LEMMA AbortedFields ==
  ASSUME SourceType, NEW S, NEW r
  PROVE  LET f == Aborted(Expiring(S, r)) IN
         /\ f \in [PlanActions -> Acting]
         /\ \A a \in PlanActions : /\ f[a].stage = planAction[a].stage /\ f[a].slot = planAction[a].slot
                                   /\ f[a].aborted <=> planAction[a].aborted \/ Cut(a, S, r)
  <1> DEFINE f == Aborted(Expiring(S, r))
             e == Expiring(S, r)
  <1>1. DOMAIN e = {q \in S : Active(q)} /\ \A q \in {q \in S : Active(q)} : e[q] = r
    BY DEF Expiring
  <1> HIDE DEF e
  <1>2. ASSUME NEW a \in PlanActions
        PROVE  /\ f[a] \in Acting /\ f[a].stage = planAction[a].stage /\ f[a].slot = planAction[a].slot
               /\ f[a].aborted <=> planAction[a].aborted \/ Cut(a, S, r)
    <2>1. planAction[a] \in Acting
      BY DEF SourceType
    <2>2. f[a] = IF planAction[a].slot \in DOMAIN e /\ (planAction[a].stage = "raw" \/ (planAction[a].stage = "bound" /\ ~Survives(e[planAction[a].slot])))
                 THEN [planAction[a] EXCEPT !.aborted = TRUE] ELSE planAction[a]
      BY DEF Aborted, e
    <2> HIDE DEF f
    <2>3. f[a] = IF Cut(a, S, r) THEN [planAction[a] EXCEPT !.aborted = TRUE] ELSE planAction[a]
      BY <1>1, <2>2 DEF Cut
    <2>4. QED
      BY <2>1, <2>3 DEF Acting
  <1>3. f = [a \in PlanActions |-> f[a]]
    BY DEF Aborted
  <1> HIDE DEF f
  <1>4. QED
    BY <1>2, <1>3 DEF f, e

\* The alternatives of a decision are finitely many, and fewer slots have no more of them.
LEMMA ImageFinite ==
  ASSUME NEW Q, IsFiniteSet(Q), NEW f
  PROVE  IsFiniteSet({f[s].proposal : s \in Q})
  <1> DEFINE T == {f[s].proposal : s \in Q}
             g == [s \in Q |-> f[s].proposal]
  <1>1. g \in [Q -> T] /\ \A t \in T : \E s \in Q : g[s] = t
    OBVIOUS
  <1> HIDE DEF g, T
  <1>2. g \in Surjection(Q, T)
    BY <1>1 DEF Surjection
  <1>3. IsFiniteSet(T)
    BY <1>2, FS_Surjection
  <1>4. QED
    BY <1>3 DEF T

LEMMA AlternativesFinite == \A target : IsFiniteSet(Alternatives(target)) /\ IsFiniteSet(Alternatives(target)')
  <1>1. Held \in SUBSET Slots /\ Held' \in SUBSET Slots
    BY DEF Held
  <1>2. ASSUME NEW target PROVE IsFiniteSet(Alternatives(target))
    <2> DEFINE Q == {q \in Held : slot[q].target = target}
    <2>1. IsFiniteSet(Q)
      <3>1. Q \in SUBSET Slots
        BY <1>1
      <3>2. QED
        BY <3>1, SourceSetting, FS_Subset
    <2>2. Alternatives(target) = {slot[s].proposal : s \in Q}
      BY DEF Alternatives
    <2> HIDE DEF Q
    <2>3. IsFiniteSet({slot[s].proposal : s \in Q})
      BY <2>1, ImageFinite
    <2>4. QED
      BY <2>2, <2>3
  <1>3. ASSUME NEW target PROVE IsFiniteSet(Alternatives(target)')
    <2> DEFINE Q == {q \in Held' : slot'[q].target = target}
    <2>1. IsFiniteSet(Q)
      <3>1. Q \in SUBSET Slots
        BY <1>1
      <3>2. QED
        BY <3>1, SourceSetting, FS_Subset
    <2>2. Alternatives(target)' = {slot'[s].proposal : s \in Q}
      BY DEF Alternatives
    <2> HIDE DEF Q
    <2>3. IsFiniteSet({slot'[s].proposal : s \in Q})
      BY <2>1, ImageFinite
    <2>4. QED
      BY <2>2, <2>3
  <1>4. QED
    BY <1>2, <1>3

LEMMA FewerAlternatives ==
  ASSUME SourceInv,
         \A s \in Slots : /\ slot'[s].target = slot[s].target /\ slot'[s].proposal = slot[s].proposal
                          /\ slot'[s].held => slot[s].held
  PROVE  Within'
  <1> SUFFICES ASSUME NEW target \in Nat PROVE Cardinality(Alternatives(target)') <= MaxAlternatives
    BY DEF Within, Alternatives, Held
  <1>1. Alternatives(target)' \subseteq Alternatives(target)
    BY DEF Alternatives, Held
  <1>2. Cardinality(Alternatives(target)) <= MaxAlternatives
    BY DEF SourceInv, Within
  <1>3. Cardinality(Alternatives(target)') <= Cardinality(Alternatives(target))
    BY <1>1, AlternativesFinite, FS_Subset
  <1>4. QED
    BY <1>2, <1>3, SourceSetting, AlternativesFinite, FS_CardinalityType

\* A step that adds no slot and no action, and only ends generations: who stays in the plan was
\* in it, is still an owner of its slot, and survives what ended there.
LEMMA Narrows ==
  ASSUME SourceInv,
         \A s \in Slots : /\ slot'[s].kind = slot[s].kind /\ slot'[s].turn = slot[s].turn
                          /\ slot'[s].target = slot[s].target /\ slot'[s].proposal = slot[s].proposal
                          /\ slot'[s].held => slot[s].held,
         \A s \in Slots : slot'[s].owners = slot[s].owners \cap InPlan',
         \A a \in PlanActions : /\ planAction'[a].slot = planAction[a].slot
                                /\ a \in InPlan' => a \in InPlan /\ sourceSession'.stage = "open",
         \A a \in InPlan' : /\ planAction[a].stage = "bound" => planAction'[a].stage = "bound"
                            /\ ~planAction'[a].aborted => ~planAction[a].aborted,
         \A a \in InPlan' : ~planAction'[a].aborted =>
            LET s == planAction[a].slot IN
            slot'[s].reason = slot[s].reason \/ (planAction'[a].stage = "bound" /\ Survives(slot'[s].reason))
  PROVE  Owned' /\ Admitted' /\ Within'
  <1>1. Within'
    BY FewerAlternatives
  <1>2. Owned'
    <2>1. ASSUME NEW s \in Slots, NEW a \in slot'[s].owners PROVE a \in InPlan' /\ planAction'[a].slot = s
      <3>1. a \in InPlan /\ planAction[a].slot = s /\ a \in InPlan' /\ a \in PlanActions
        BY <2>1 DEF SourceInv, Owned, InPlan
      <3>2. QED
        BY <3>1
    <2>2. ASSUME NEW a \in InPlan' PROVE planAction'[a].slot \in Slots /\ a \in slot'[planAction'[a].slot].owners /\ sourceSession'.stage = "open"
      <3>1. a \in PlanActions /\ a \in InPlan /\ planAction'[a].slot = planAction[a].slot
        BY <2>2 DEF InPlan
      <3>2. QED
        BY <2>2, <3>1 DEF SourceInv, Owned
    <2>3. QED
      BY <2>1, <2>2 DEF Owned
  <1>3. Admitted'
    <2>1. ASSUME NEW a \in InPlan', ~planAction'[a].aborted
          PROVE  slot'[planAction'[a].slot].reason = "none" \/ (planAction'[a].stage = "bound" /\ Survives(slot'[planAction'[a].slot].reason))
      <3>1. a \in PlanActions /\ a \in InPlan /\ planAction'[a].slot = planAction[a].slot /\ ~planAction[a].aborted
        BY <2>1 DEF InPlan
      <3>2. Active(planAction[a].slot) \/ (planAction[a].stage = "bound" /\ Survives(slot[planAction[a].slot].reason))
        BY <3>1 DEF SourceInv, Admitted
      <3>3. QED
        BY <2>1, <3>1, <3>2 DEF Active
    <2>2. QED
      BY <2>1 DEF Admitted, Active, Survives
  <1>4. QED
    BY <1>1, <1>2, <1>3

\* With nothing new bound, the winner stays alone.
LEMMA StillOne ==
  ASSUME SourceInv,
         \A s \in Slots : slot'[s].kind = slot[s].kind /\ slot'[s].turn = slot[s].turn,
         \A a \in PlanActions : a \in InPlan' /\ planAction'[a].stage = "bound" /\ ~planAction'[a].aborted =>
            /\ a \in InPlan /\ planAction[a].stage = "bound" /\ ~planAction[a].aborted
            /\ planAction'[a].slot = planAction[a].slot
  PROVE  OneWinner'
  <1> SUFFICES ASSUME NEW a \in InPlan', NEW b \in InPlan',
                      planAction'[a].stage = "bound", planAction'[b].stage = "bound", ~planAction'[a].aborted, ~planAction'[b].aborted,
                      slot'[planAction'[a].slot].kind = "proposal", slot'[planAction'[b].slot].kind = "proposal",
                      slot'[planAction'[a].slot].turn = slot'[planAction'[b].slot].turn
               PROVE  planAction'[a].slot = planAction'[b].slot
    BY DEF OneWinner
  <1>1. a \in PlanActions /\ b \in PlanActions
    BY DEF InPlan
  <1>2. /\ a \in InPlan /\ planAction[a].stage = "bound" /\ ~planAction[a].aborted /\ planAction'[a].slot = planAction[a].slot
        /\ b \in InPlan /\ planAction[b].stage = "bound" /\ ~planAction[b].aborted /\ planAction'[b].slot = planAction[b].slot
    BY <1>1
  <1>3. planAction[a].slot \in Slots /\ planAction[b].slot \in Slots
    BY <1>2 DEF SourceInv, Owned
  <1>4. QED
    BY <1>2, <1>3 DEF SourceInv, OneWinner

\* A step that leaves the slots and the plan alone.
LEMMA SlotsStay ==
  ASSUME SourceInv, slot' = slot, planAction' = planAction, sourceSession'.stage = sourceSession.stage
  PROVE  Owned' /\ Admitted' /\ Within' /\ OneWinner'
  BY DEF SourceInv, Owned, Admitted, Within, OneWinner, InPlan, Active, Survives, Alternatives, Held

LEMMA SourceKnown ==
  ASSUME SourceInv
  PROVE  /\ SourceType
         /\ \A s \in Slots : slot[s] \in Slotted
         /\ \A t \in Turns : sourceTurn[t] \in Turning
         /\ \A a \in PlanActions : planAction[a] \in Acting
         /\ sourceSession.stage \in {"open", "draining", "closed"} /\ sourceSession.enabled \in BOOLEAN /\ sourceSession.decision \in Nat
  BY DEF SourceInv, SourceType

LEMMA StartTurnKeeps ==
  ASSUME SourceInv, NEW t \in Turns, StartTurn(t)
  PROVE  SourceInv'
  <1> DEFINE v == [stage |-> "waiting", seq |-> sourceSession.decision + 1]
  <1>1. /\ sourceSession.stage = "open" /\ sourceTurn[t].stage = "none" /\ \A u \in Turns : sourceTurn[u].stage \in {"none", "finished"}
        /\ sourceTurn' = [sourceTurn EXCEPT ![t] = v] /\ UNCHANGED <<sourceSession, slot, request, physical, planAction>>
    BY DEF StartTurn, Open
  <1>2. v \in Turning /\ v.stage = "waiting" /\ sourceTurn \in [Turns -> Turning]
    BY SourceKnown DEF Turning, SourceType
  <1> HIDE DEF v
  <1>3. sourceTurn' \in [Turns -> Turning] /\ sourceTurn'[t] = v /\ \A u \in Turns : u # t => sourceTurn'[u] = sourceTurn[u]
    BY <1>1, <1>2
  <1>4. SourceType'
    BY <1>1, <1>3, SourceKnown DEF SourceType
  <1>5. SlotsUsed' /\ Ended'
    BY <1>1 DEF SourceInv, SlotsUsed, Ended, Active, Quiet
  <1>6. Turned'
    BY <1>1, <1>3 DEF SourceInv, Turned, Active, Survives
  <1>7. AllFinished' /\ OneTurn'
    BY <1>1, <1>2, <1>3 DEF SourceInv, AllFinished, OneTurn
  <1>8. QED
    BY <1>1, <1>4, <1>5, <1>6, <1>7, SlotsStay DEF SourceInv

LEMMA ProduceKeeps ==
  ASSUME SourceInv, NEW s \in Slots, Produce(s)
  PROVE  SourceInv'
  <1> DEFINE q == IF request[s] = "producing" /\ Active(s) THEN "produced" ELSE request[s]
  <1>1. /\ s \in physical /\ physical' = physical \ {s} /\ request' = [request EXCEPT ![s] = q]
        /\ UNCHANGED <<sourceSession, sourceTurn, slot, planAction>>
    BY DEF Produce
  <1>2. /\ q \in {"none", "producing", "produced", "admitting", "binding", "done"}
        /\ request \in [Slots -> {"none", "producing", "produced", "admitting", "binding", "done"}]
        /\ q = request[s] \/ (request[s] = "producing" /\ q = "produced")
    BY SourceKnown DEF SourceType
  <1> HIDE DEF q
  <1>3. request'[s] = q /\ \A p \in Slots : p # s => request'[p] = request[p]
    BY <1>1, <1>2
  <1>4. SourceType'
    BY <1>1, <1>2, SourceKnown DEF SourceType
  <1>5. SlotsUsed'
    BY <1>1, <1>2, <1>3 DEF SourceInv, SlotsUsed, Active
  <1>6. Turned' /\ AllFinished' /\ OneTurn'
    BY <1>1 DEF SourceInv, Turned, Active, Survives, AllFinished, OneTurn
  <1>7. Ended'
    BY <1>1, <1>2, <1>3 DEF SourceInv, Ended, Quiet
  <1>8. QED
    BY <1>1, <1>4, <1>5, <1>6, <1>7, SlotsStay DEF SourceInv

LEMMA AdmitKeeps ==
  ASSUME SourceInv, NEW s \in Slots, Admit(s)
  PROVE  SourceInv'
  <1>1. /\ request[s] = "produced" /\ request' = [request EXCEPT ![s] = "admitting"]
        /\ UNCHANGED <<sourceSession, sourceTurn, slot, physical, planAction>>
    BY DEF Admit
  <1>2. SourceType' /\ request'[s] = "admitting" /\ \A p \in Slots : p # s => request'[p] = request[p]
    BY <1>1, SourceKnown DEF SourceType
  <1>3. SlotsUsed'
    BY <1>1, <1>2 DEF SourceInv, SlotsUsed, Active
  <1>4. Turned' /\ AllFinished' /\ OneTurn'
    BY <1>1 DEF SourceInv, Turned, Active, Survives, AllFinished, OneTurn
  <1>5. Ended'
    BY <1>1, <1>2 DEF SourceInv, Ended, Quiet
  <1>6. QED
    BY <1>1, <1>2, <1>3, <1>4, <1>5, SlotsStay DEF SourceInv

LEMMA ClosedKeeps ==
  ASSUME SourceInv, Closed
  PROVE  SourceInv'
  <1>1. /\ sourceSession.stage = "draining" /\ Quiet /\ sourceSession' = [sourceSession EXCEPT !.stage = "closed"]
        /\ UNCHANGED <<sourceTurn, slot, request, physical, planAction>>
    BY DEF Closed
  <1>2. SourceType' /\ sourceSession'.stage = "closed" /\ sourceSession'.enabled = sourceSession.enabled
    BY <1>1, SourceKnown DEF SourceType
  <1>3. InPlan = {} /\ InPlan' = {}
    BY <1>1 DEF SourceInv, Owned, InPlan
  <1>4. SlotsUsed'
    BY <1>1, <1>2 DEF SourceInv, SlotsUsed, Active
  <1>5. Owned' /\ Admitted' /\ OneWinner'
    <2>1. \A s \in Slots : slot[s].owners = {}
      BY <1>3 DEF SourceInv, Owned
    <2>2. QED
      BY <1>1, <1>3, <2>1 DEF Owned, Admitted, OneWinner
  <1>6. Turned' /\ AllFinished' /\ OneTurn'
    BY <1>1 DEF SourceInv, Turned, Active, Survives, AllFinished, OneTurn
  <1>7. Within'
    BY <1>1, FewerAlternatives
  <1>8. Ended'
    BY <1>1 DEF Ended, Quiet
  <1>9. QED
    BY <1>2, <1>4, <1>5, <1>6, <1>7, <1>8 DEF SourceInv

\* Slots nobody had are claimed.
LEMMA ClaimedSlots ==
  ASSUME SourceInv, NEW S \in SUBSET Unclaimed, planAction' = planAction, sourceSession' = sourceSession,
         \A s \in Slots \ S : slot'[s] = slot[s], \A s \in S : slot'[s].owners = {}
  PROVE  Owned' /\ Admitted' /\ OneWinner'
  <1>1. InPlan' = InPlan
    BY DEF InPlan
  <1>2. \A s \in S : s \in Slots /\ request[s] = "none" /\ slot[s].owners = {}
    BY DEF SourceInv, SlotsUsed, Unclaimed
  <1>3. \A a \in InPlan : planAction[a].slot \in Slots \ S /\ slot'[planAction[a].slot] = slot[planAction[a].slot]
    BY <1>2 DEF SourceInv, Owned
  <1>4. Owned'
    <2>1. \A s \in Slots : \A a \in slot'[s].owners : a \in InPlan /\ planAction[a].slot = s
      BY <1>2 DEF SourceInv, Owned
    <2>2. \A a \in InPlan : planAction[a].slot \in Slots /\ a \in slot'[planAction[a].slot].owners /\ sourceSession.stage = "open"
      BY <1>3 DEF SourceInv, Owned
    <2>3. QED
      BY <1>1, <2>1, <2>2 DEF Owned
  <1>5. Admitted'
    BY <1>1, <1>3 DEF SourceInv, Admitted, Active, Survives
  <1>6. OneWinner'
    BY <1>1, <1>3 DEF SourceInv, OneWinner
  <1>7. QED
    BY <1>4, <1>5, <1>6

\* Room for more alternatives of one decision.
LEMMA MoreAlternatives ==
  ASSUME SourceInv, NEW target \in Nat, NEW X, IsFiniteSet(X),
         \A k \in Nat : k # target => Alternatives(k)' = Alternatives(k),
         Alternatives(target)' \subseteq Alternatives(target) \cup X,
         Cardinality(Alternatives(target)) + Cardinality(X) <= MaxAlternatives
  PROVE  Within'
  <1> SUFFICES ASSUME NEW k \in Nat PROVE Cardinality(Alternatives(k)') <= MaxAlternatives
    BY DEF Within, Alternatives, Held
  <1>1. CASE k # target
    BY <1>1 DEF SourceInv, Within
  <1>2. CASE k = target
    <2> DEFINE A == Alternatives(target)
               B == Alternatives(target)'
    <2>1. IsFiniteSet(A) /\ IsFiniteSet(B) /\ Cardinality(A) \in Nat /\ Cardinality(B) \in Nat /\ Cardinality(X) \in Nat
      BY AlternativesFinite, FS_CardinalityType
    <2>2. B \subseteq A \cup X /\ Cardinality(A) + Cardinality(X) <= MaxAlternatives
      OBVIOUS
    <2> HIDE DEF A, B
    <2>3. IsFiniteSet(A \cup X) /\ Cardinality(A \cup X) = Cardinality(A) + Cardinality(X) - Cardinality(A \cap X)
      BY <2>1, FS_Union
    <2>4. Cardinality(A \cap X) \in Nat
      <3>1. IsFiniteSet(A \cap X)
        BY <2>1, FS_Intersection
      <3>2. QED
        BY <3>1, FS_CardinalityType
    <2>5. Cardinality(B) <= Cardinality(A \cup X)
      BY <2>2, <2>3, FS_Subset
    <2>6. Cardinality(B) <= MaxAlternatives
      BY <2>1, <2>2, <2>3, <2>4, <2>5, SourceSetting
    <2>7. QED
      BY <1>2, <2>6 DEF B
  <1>3. QED
    BY <1>1, <1>2

LEMMA LaunchKeeps ==
  ASSUME SourceInv, NEW t \in Turns, Launch(t)
  PROVE  SourceInv'
  <1>0. PICK target \in Nat : target = sourceTurn[t].seq
    BY SourceKnown DEF Turning
  <1> DEFINE room == MaxAlternatives - Cardinality(Alternatives(target))
  <1>1. PICK S \in SUBSET Unclaimed :
          /\ Cardinality(S) = IF room > Cardinality(Unclaimed) THEN Cardinality(Unclaimed) ELSE room
          /\ slot' = [s \in Slots |-> IF s \in S THEN Claimed(s, "proposal", t, target, s) ELSE slot[s]]
          /\ request' = [s \in Slots |-> IF s \in S THEN "producing" ELSE request[s]]
          /\ physical' = physical \cup S
    BY <1>0 DEF Launch
  <1>2. sourceTurn[t].stage = "waiting" /\ sourceSession.enabled /\ sourceTurn' = [sourceTurn EXCEPT ![t].stage = "launched"] /\ sourceSession' = sourceSession /\ planAction' = planAction
    BY DEF Launch
  <1>3. /\ S \subseteq Slots /\ \A s \in S : request[s] = "none" /\ ~slot[s].held /\ slot[s].kind = "none"
        /\ sourceTurn[t] \in Turning /\ t \in Nat /\ \A s \in S : s \in Nat
    BY SourceKnown, SourceSetting DEF Unclaimed, SourceInv, SlotsUsed, Turning
  <1>4. /\ sourceTurn' \in [Turns -> Turning] /\ sourceTurn'[t].stage = "launched" /\ \A u \in Turns : sourceTurn'[u].seq = sourceTurn[u].seq
        /\ \A u \in Turns : u # t => sourceTurn'[u] = sourceTurn[u]
    BY <1>2, <1>3, SourceKnown DEF SourceType, Turning
  <1>5. sourceSession.stage = "open"
    BY <1>2, SourceKnown DEF SourceInv, AllFinished
  <1>6. \A s \in S : LET v == slot'[s] IN
          /\ v \in Slotted /\ v.held = TRUE /\ v.kind = "proposal" /\ v.turn = t /\ v.target = target /\ v.proposal = s
          /\ v.reason = "none" /\ v.pending = 1 /\ v.owners = {}
    <2>1. SUFFICES ASSUME NEW s \in S PROVE LET v == Claimed(s, "proposal", t, target, s) IN
          /\ v \in Slotted /\ v.held = TRUE /\ v.kind = "proposal" /\ v.turn = t /\ v.target = target /\ v.proposal = s
          /\ v.reason = "none" /\ v.pending = 1 /\ v.owners = {}
      BY <1>1, <1>3
    <2>2. s \in Nat
      BY <1>3
    <2>3. QED
      BY <1>3, <2>2 DEF Claimed, Slotted, Reasons
  <1>7. \A s \in Slots \ S : slot'[s] = slot[s] /\ request'[s] = request[s]
    BY <1>1
  <1>8. \A s \in S : request'[s] = "producing"
    BY <1>1, <1>3
  <1>9. SourceType'
    <2>1. slot' \in [Slots -> Slotted]
      <3>1. slot' = [s \in Slots |-> slot'[s]]
        BY <1>1
      <3>2. \A s \in Slots : slot'[s] \in Slotted
        BY <1>6, <1>7, SourceKnown
      <3>3. QED
        BY <3>1, <3>2
    <2>2. request' \in [Slots -> {"none", "producing", "produced", "admitting", "binding", "done"}]
      BY <1>1, SourceKnown DEF SourceType
    <2>3. physical' \in SUBSET Slots
      BY <1>1, <1>3, SourceKnown DEF SourceType
    <2>4. QED
      BY <1>2, <1>4, <2>1, <2>2, <2>3, SourceKnown DEF SourceType
  <1>10. SlotsUsed'
    <2>1. ASSUME NEW s \in Slots
          PROVE  /\ request'[s] = "none" => ~slot'[s].held /\ slot'[s].kind = "none" /\ slot'[s].owners = {} /\ s \notin physical'
                 /\ request'[s] # "none" /\ slot'[s].reason = "none" => slot'[s].held
                 /\ slot'[s].held => sourceSession'.stage = "open" /\ (slot'[s].pending > 0 \/ slot'[s].owners # {})
                 /\ slot'[s].held /\ slot'[s].reason = "none" => sourceSession'.enabled
                 /\ request'[s] \in {"producing", "produced", "admitting", "binding"} => slot'[s].pending > 0
      <3>1. CASE s \in S
        BY <1>2, <1>5, <1>6, <1>8, <3>1
      <3>2. CASE s \notin S
        BY <1>1, <1>2, <1>7, <3>2 DEF SourceInv, SlotsUsed, Active
      <3>3. QED
        BY <3>1, <3>2
    <2>2. QED
      BY <2>1 DEF SlotsUsed, Active
  <1>11. Owned' /\ Admitted' /\ OneWinner'
    BY <1>2, <1>6, <1>7, ClaimedSlots
  <1>12. Turned'
    <2>1. ASSUME NEW s \in Slots, slot'[s].kind = "proposal"
          PROVE  /\ slot'[s].turn \in Turns /\ slot'[s].target = sourceTurn'[slot'[s].turn].seq
                 /\ sourceTurn'[slot'[s].turn].stage \notin {"none", "waiting"}
                 /\ slot'[s].reason = "none" => sourceTurn'[slot'[s].turn].stage = "launched"
                 /\ Survives(slot'[s].reason) => sourceTurn'[slot'[s].turn].stage # "launched"
      <3>1. CASE s \in S
        BY <1>0, <1>4, <1>6, <3>1 DEF Survives
      <3>2. CASE s \notin S
        <4>1. slot'[s] = slot[s] /\ slot[s].turn # t /\ slot[s].turn \in Turns
          BY <1>2, <1>7, <2>1, <3>2 DEF SourceInv, Turned
        <4>2. QED
          BY <1>4, <2>1, <4>1 DEF SourceInv, Turned, Active
      <3>3. QED
        BY <3>1, <3>2
    <2>2. QED
      BY <2>1 DEF Turned, Active, Survives
  <1>13. AllFinished' /\ OneTurn'
    BY <1>2, <1>4, <1>5 DEF SourceInv, AllFinished, OneTurn
  <1>14. Within'
    <2>1. IsFiniteSet(S) /\ IsFiniteSet(Unclaimed)
      <3>1. S \in SUBSET Slots /\ Unclaimed \in SUBSET Slots
        BY <1>3 DEF Unclaimed
      <3>2. QED
        BY <3>1, SourceSetting, FS_Subset
    <2>2. Cardinality(Alternatives(target)) + Cardinality(S) <= MaxAlternatives
      <3>1. Cardinality(S) \in Nat /\ Cardinality(Unclaimed) \in Nat /\ Cardinality(Alternatives(target)) \in Nat
        BY <2>1, AlternativesFinite, FS_CardinalityType
      <3>2. QED
        BY <1>1, <3>1, SourceSetting
    <2>3. \A k : \A s \in Slots \ S : s \in Held' /\ slot'[s].target = k <=> s \in Held /\ slot[s].target = k
      BY <1>7 DEF Held
    <2>4. \A k \in Nat : k # target => Alternatives(k)' = Alternatives(k)
      <3>1. SUFFICES ASSUME NEW k \in Nat, k # target PROVE Alternatives(k)' = Alternatives(k)
        OBVIOUS
      <3>2. \A s \in S : ~(s \in Held' /\ slot'[s].target = k) /\ s \notin Held
        BY <1>3, <1>6, <3>1 DEF Held
      <3>3. {q \in Held' : slot'[q].target = k} = {q \in Held : slot[q].target = k}
        BY <2>3, <3>2 DEF Held
      <3>4. \A q \in {q \in Held : slot[q].target = k} : slot'[q].proposal = slot[q].proposal
        BY <1>7, <3>2 DEF Held
      <3>5. QED
        BY <3>3, <3>4 DEF Alternatives
    <2>5. Alternatives(target)' \subseteq Alternatives(target) \cup S
      <3>0. SUFFICES ASSUME NEW p \in Alternatives(target)' PROVE p \in Alternatives(target) \cup S
        OBVIOUS
      <3>1. PICK s \in Held' : slot'[s].target = target /\ p = slot'[s].proposal
        BY DEF Alternatives
      <3>2. CASE s \in S
        BY <1>6, <3>1, <3>2
      <3>3. CASE s \notin S
        BY <1>7, <3>1, <3>3 DEF Alternatives, Held
      <3>4. QED
        BY <3>2, <3>3
    <2>6. QED
      BY <1>3, <2>1, <2>2, <2>4, <2>5, MoreAlternatives
  <1>15. Ended'
    BY <1>2, <1>5 DEF Ended
  <1>16. QED
    BY <1>9, <1>10, <1>11, <1>12, <1>13, <1>14, <1>15 DEF SourceInv

LEMMA ContinueKeeps ==
  ASSUME SourceInv, NEW a \in PlanActions, Continue(a)
  PROVE  SourceInv'
  <1>0. planAction[a].stage = "bound" /\ sourceSession.stage = "open"
    BY DEF Continue, Open
  <1>3. slot[planAction[a].slot] \in Slotted
    BY <1>0, SourceKnown DEF SourceInv, Owned, InPlan
  <1>4. PICK parent \in Slotted : parent = slot[planAction[a].slot]
    BY <1>3
  <1> DEFINE target == parent.target + 1
             n == parent.proposal
  <1>1. PICK s \in Unclaimed :
          /\ slot' = [slot EXCEPT ![s] = Claimed(s, "continuation", parent.turn, target, n)]
          /\ request' = [request EXCEPT ![s] = "producing"] /\ physical' = physical \cup {s}
    BY <1>4 DEF Continue
  <1>2. /\ sourceSession.stage = "open" /\ sourceSession.enabled /\ UNCHANGED <<sourceSession, sourceTurn, planAction>> /\ planAction[a].stage = "bound"
        /\ n \in Alternatives(target) \/ Cardinality(Alternatives(target)) < MaxAlternatives
    BY <1>4 DEF Continue, Open
  <1>16. parent.turn \in Nat /\ target \in Nat /\ n \in Nat
    BY DEF Slotted
  <1> DEFINE v == Claimed(s, "continuation", parent.turn, target, n)
  <1>5. /\ v \in Slotted /\ v.held = TRUE /\ v.kind = "continuation" /\ v.target = target /\ v.proposal = n
        /\ v.reason = "none" /\ v.pending = 1 /\ v.owners = {}
    BY <1>16 DEF Claimed, Slotted, Reasons
  <1>6. /\ s \in Slots /\ request[s] = "none" /\ ~slot[s].held
    BY DEF Unclaimed, SourceInv, SlotsUsed
  <1> HIDE DEF v, target, n
  <1>7. /\ slot' \in [Slots -> Slotted] /\ slot'[s] = v /\ \A q \in Slots : q # s => slot'[q] = slot[q]
    BY <1>1, <1>5, <1>6, SourceKnown DEF SourceType, v
  <1>8. /\ request' \in [Slots -> {"none", "producing", "produced", "admitting", "binding", "done"}]
        /\ request'[s] = "producing" /\ \A q \in Slots : q # s => request'[q] = request[q]
        /\ physical' \in SUBSET Slots
    BY <1>1, <1>6, SourceKnown DEF SourceType
  <1>9. SourceType'
    BY <1>2, <1>7, <1>8, SourceKnown DEF SourceType
  <1>10. SlotsUsed'
    <2>1. ASSUME NEW q \in Slots
          PROVE  /\ request'[q] = "none" => ~slot'[q].held /\ slot'[q].kind = "none" /\ slot'[q].owners = {} /\ q \notin physical'
                 /\ request'[q] # "none" /\ slot'[q].reason = "none" => slot'[q].held
                 /\ slot'[q].held => sourceSession'.stage = "open" /\ (slot'[q].pending > 0 \/ slot'[q].owners # {})
                 /\ slot'[q].held /\ slot'[q].reason = "none" => sourceSession'.enabled
                 /\ request'[q] \in {"producing", "produced", "admitting", "binding"} => slot'[q].pending > 0
      <3>1. CASE q = s
        BY <1>2, <1>5, <1>7, <1>8, <3>1
      <3>2. CASE q # s
        BY <1>1, <1>2, <1>7, <1>8, <3>2 DEF SourceInv, SlotsUsed, Active
      <3>3. QED
        BY <3>1, <3>2
    <2>2. QED
      BY <2>1 DEF SlotsUsed, Active
  <1>11. Owned' /\ Admitted' /\ OneWinner'
    <2>1. {s} \in SUBSET Unclaimed /\ \A q \in Slots \ {s} : slot'[q] = slot[q]
      BY <1>7
    <2>2. QED
      BY <1>2, <1>5, <1>7, <2>1, ClaimedSlots
  <1>12. Turned'
    <2>1. \A q \in Slots : slot'[q].kind = "proposal" => q # s /\ slot'[q] = slot[q] /\ slot[q].kind = "proposal"
      BY <1>5, <1>7
    <2>2. QED
      BY <1>2, <2>1 DEF SourceInv, Turned, Active, Survives
  <1>13. AllFinished' /\ OneTurn' /\ Ended'
    BY <1>2 DEF SourceInv, AllFinished, OneTurn, Ended
  <1>14. Within'
    <2> DEFINE X == IF n \in Alternatives(target) THEN {} ELSE {n}
    <2>1. IsFiniteSet(X) /\ (X = {} \/ Cardinality(X) = 1) /\ Cardinality({}) = 0
      BY FS_EmptySet, FS_Singleton
    <2>2. Cardinality(Alternatives(target)) + Cardinality(X) <= MaxAlternatives
      <3>1. Cardinality(Alternatives(target)) \in Nat /\ Cardinality(Alternatives(target)) <= MaxAlternatives
        BY <1>16, AlternativesFinite, FS_CardinalityType DEF SourceInv, Within
      <3>2. X # {} => Cardinality(Alternatives(target)) < MaxAlternatives
        BY <1>2 DEF target, n
      <3> HIDE DEF X
      <3>3. QED
        BY <2>1, <3>1, <3>2, SourceSetting
    <2>3. \A k : \A q \in Slots \ {s} : q \in Held' /\ slot'[q].target = k <=> q \in Held /\ slot[q].target = k
      BY <1>7 DEF Held
    <2>4. \A k \in Nat : k # target => Alternatives(k)' = Alternatives(k)
      <3>1. SUFFICES ASSUME NEW k \in Nat, k # target PROVE Alternatives(k)' = Alternatives(k)
        OBVIOUS
      <3>2. ~(s \in Held' /\ slot'[s].target = k) /\ s \notin Held
        BY <1>5, <1>6, <1>7, <3>1 DEF Held
      <3>3. {q \in Held' : slot'[q].target = k} = {q \in Held : slot[q].target = k}
        BY <2>3, <3>2 DEF Held
      <3>4. \A q \in {q \in Held : slot[q].target = k} : slot'[q].proposal = slot[q].proposal
        BY <1>7, <3>2 DEF Held
      <3>5. QED
        BY <3>3, <3>4 DEF Alternatives
    <2>5. Alternatives(target)' \subseteq Alternatives(target) \cup X
      <3>0. SUFFICES ASSUME NEW p \in Alternatives(target)' PROVE p \in Alternatives(target) \cup X
        OBVIOUS
      <3>1. PICK q \in Held' : slot'[q].target = target /\ p = slot'[q].proposal
        BY DEF Alternatives
      <3>2. CASE q = s
        BY <1>5, <1>7, <3>1, <3>2
      <3>3. CASE q # s
        BY <1>7, <3>1, <3>3 DEF Alternatives, Held
      <3>4. QED
        BY <3>2, <3>3
    <2> HIDE DEF X
    <2>6. QED
      BY <1>16, <2>1, <2>2, <2>4, <2>5, MoreAlternatives
  <1>15. QED
    BY <1>9, <1>10, <1>11, <1>12, <1>13, <1>14 DEF SourceInv

\* A request that ends leaves its slot to the actions it issued.
LEMMA FinishedKeeps ==
  ASSUME SourceInv, NEW s \in Slots, request[s] # "none", Finished(s), UNCHANGED <<sourceSession, sourceTurn, physical, planAction>>
  PROVE  SourceInv'
  <1> DEFINE u == [slot[s] EXCEPT !.pending = 0]
             w == Swept(u)
  <1>1. slot' = [slot EXCEPT ![s] = w] /\ request' = [request EXCEPT ![s] = "done"] /\ UNCHANGED <<sourceSession, sourceTurn, physical, planAction>>
    BY DEF Finished
  <1>2. /\ u \in Slotted /\ u.kind = slot[s].kind /\ u.turn = slot[s].turn /\ u.target = slot[s].target
        /\ u.proposal = slot[s].proposal /\ u.pending = 0 /\ u.owners = slot[s].owners /\ u.held = slot[s].held
        /\ u.reason = slot[s].reason
    BY SourceKnown DEF Slotted
  <1> HIDE DEF u
  <1>3. /\ w \in Slotted /\ w.kind = slot[s].kind /\ w.turn = slot[s].turn /\ w.target = slot[s].target
        /\ w.proposal = slot[s].proposal /\ w.pending = 0 /\ w.owners = slot[s].owners
        /\ w.held <=> slot[s].held /\ slot[s].owners # {}
        /\ w.reason = IF slot[s].held /\ ~w.held /\ slot[s].reason = "none" THEN "unused" ELSE slot[s].reason
    BY <1>2, SweptFields
  <1> HIDE DEF w
  <1>4. /\ slot' \in [Slots -> Slotted] /\ slot'[s] = w /\ \A q \in Slots : q # s => slot'[q] = slot[q]
        /\ request' \in [Slots -> {"none", "producing", "produced", "admitting", "binding", "done"}]
        /\ request'[s] = "done" /\ \A q \in Slots : q # s => request'[q] = request[q]
    BY <1>1, <1>3, SourceKnown DEF SourceType
  <1>5. SourceType'
    BY <1>1, <1>4, SourceKnown DEF SourceType
  <1>6. InPlan' = InPlan /\ \A a \in InPlan : a \in PlanActions
    BY <1>1 DEF InPlan
  <1>7. SlotsUsed'
    <2>1. ASSUME NEW q \in Slots
          PROVE  /\ request'[q] = "none" => ~slot'[q].held /\ slot'[q].kind = "none" /\ slot'[q].owners = {} /\ q \notin physical'
                 /\ request'[q] # "none" /\ slot'[q].reason = "none" => slot'[q].held
                 /\ slot'[q].held => sourceSession'.stage = "open" /\ (slot'[q].pending > 0 \/ slot'[q].owners # {})
                 /\ slot'[q].held /\ slot'[q].reason = "none" => sourceSession'.enabled
                 /\ request'[q] \in {"producing", "produced", "admitting", "binding"} => slot'[q].pending > 0
      <3>1. CASE q = s
        BY <1>1, <1>3, <1>4, <3>1 DEF SourceInv, SlotsUsed, Active
      <3>2. CASE q # s
        BY <1>1, <1>4, <3>2 DEF SourceInv, SlotsUsed, Active
      <3>3. QED
        BY <3>1, <3>2
    <2>2. QED
      BY <2>1 DEF SlotsUsed, Active
  <1>8. \A q \in Slots : /\ slot'[q].kind = slot[q].kind /\ slot'[q].turn = slot[q].turn
                         /\ slot'[q].target = slot[q].target /\ slot'[q].proposal = slot[q].proposal
                         /\ slot'[q].held => slot[q].held
    BY <1>3, <1>4
  <1>9. Owned' /\ Admitted' /\ Within'
    <2>1. \A q \in Slots : slot'[q].owners = slot[q].owners \cap InPlan
      BY <1>3, <1>4 DEF SourceInv, Owned
    <2>2. ASSUME NEW a \in InPlan PROVE slot'[planAction[a].slot].reason = slot[planAction[a].slot].reason /\ sourceSession.stage = "open"
      <3>1. planAction[a].slot \in Slots /\ slot[planAction[a].slot].owners # {} /\ sourceSession.stage = "open"
        BY DEF SourceInv, Owned
      <3>2. QED
        BY <1>3, <1>4, <3>1
    <2>3. QED
      BY <1>1, <1>6, <1>8, <2>1, <2>2, Narrows
  <1>10. OneWinner'
    BY <1>1, <1>6, <1>8, StillOne
  <1>11. Turned'
    <2>1. \A q \in Slots : (slot'[q].reason = "none" => slot[q].reason = "none")
                           /\ (Survives(slot'[q].reason) => Survives(slot[q].reason))
      BY <1>3, <1>4 DEF Survives
    <2>2. QED
      BY <1>1, <1>8, <2>1 DEF SourceInv, Turned, Active, Survives
  <1>12. AllFinished' /\ OneTurn'
    BY <1>1 DEF SourceInv, AllFinished, OneTurn
  <1>13. Ended'
    BY <1>1, <1>4 DEF SourceInv, Ended, Quiet
  <1>14. QED
    BY <1>5, <1>7, <1>9, <1>10, <1>11, <1>12, <1>13 DEF SourceInv

LEMMA ApplyKeeps ==
  ASSUME SourceInv, NEW s \in Slots, Apply(s)
  PROVE  SourceInv'
  <1> DEFINE v == [stage |-> "raw", slot |-> s, aborted |-> FALSE]
  <1>1. PICK a \in PlanActions :
          /\ planAction[a].stage = "none" /\ planAction' = [planAction EXCEPT ![a] = v]
          /\ slot' = [slot EXCEPT ![s].owners = slot[s].owners \cup {a}]
    BY DEF Apply
  <1>2. /\ request[s] = "admitting" /\ sourceSession.stage = "open" /\ slot[s].reason = "none"
        /\ request' = [request EXCEPT ![s] = "binding"] /\ UNCHANGED <<sourceSession, sourceTurn, physical>>
    BY DEF Apply, Applicable, Open, Active
  <1> DEFINE o == slot[s].owners \cup {a}
             w == [slot[s] EXCEPT !.owners = o]
  <1>3. o \in SUBSET PlanActions /\ slot[s] \in Slotted
    BY SourceKnown DEF Slotted
  <1>4. slot' = [slot EXCEPT ![s] = w] /\ slot \in [Slots -> Slotted]
    BY <1>1, SourceKnown DEF SourceType
  <1>5. /\ w \in Slotted /\ w.kind = slot[s].kind /\ w.turn = slot[s].turn /\ w.target = slot[s].target
        /\ w.proposal = slot[s].proposal /\ w.pending = slot[s].pending /\ w.owners = o /\ w.held = slot[s].held
        /\ w.reason = "none"
    <2> HIDE DEF o
    <2>1. QED
      BY <1>2, <1>3 DEF Slotted
  <1> HIDE DEF w
  <1>6. v \in Acting /\ v.stage = "raw" /\ v.slot = s /\ v.aborted = FALSE /\ planAction \in [PlanActions -> Acting]
    BY SourceSetting, SourceKnown DEF Acting, SourceType
  <1> HIDE DEF v
  <1>7. /\ slot' \in [Slots -> Slotted] /\ slot'[s] = w /\ \A q \in Slots : q # s => slot'[q] = slot[q]
        /\ request' \in [Slots -> {"none", "producing", "produced", "admitting", "binding", "done"}]
        /\ request'[s] = "binding" /\ \A q \in Slots : q # s => request'[q] = request[q]
        /\ planAction' \in [PlanActions -> Acting] /\ planAction'[a] = v /\ \A b \in PlanActions : b # a => planAction'[b] = planAction[b]
    <2>1. slot' \in [Slots -> Slotted] /\ slot'[s] = w /\ \A q \in Slots : q # s => slot'[q] = slot[q]
      BY <1>4, <1>5
    <2>2. /\ request' \in [Slots -> {"none", "producing", "produced", "admitting", "binding", "done"}]
          /\ request'[s] = "binding" /\ \A q \in Slots : q # s => request'[q] = request[q]
      BY <1>2, SourceKnown DEF SourceType
    <2>3. planAction' \in [PlanActions -> Acting] /\ planAction'[a] = v /\ \A b \in PlanActions : b # a => planAction'[b] = planAction[b]
      BY <1>1, <1>6
    <2>4. QED
      BY <2>1, <2>2, <2>3
  <1>8. SourceType'
    BY <1>2, <1>7, SourceKnown DEF SourceType
  <1>9. InPlan' = InPlan \cup {a} /\ a \notin InPlan
    BY <1>1, <1>6, <1>7 DEF InPlan
  <1>10. SlotsUsed'
    <2>1. slot[s].held /\ slot[s].pending > 0
      BY <1>2 DEF SourceInv, SlotsUsed, Active
    <2>2. ASSUME NEW q \in Slots
          PROVE  /\ request'[q] = "none" => ~slot'[q].held /\ slot'[q].kind = "none" /\ slot'[q].owners = {} /\ q \notin physical'
                 /\ request'[q] # "none" /\ slot'[q].reason = "none" => slot'[q].held
                 /\ slot'[q].held => sourceSession'.stage = "open" /\ (slot'[q].pending > 0 \/ slot'[q].owners # {})
                 /\ slot'[q].held /\ slot'[q].reason = "none" => sourceSession'.enabled
                 /\ request'[q] \in {"producing", "produced", "admitting", "binding"} => slot'[q].pending > 0
      <3>1. CASE q = s
        BY <1>2, <1>5, <1>7, <2>1, <3>1 DEF SourceInv, SlotsUsed, Active
      <3>2. CASE q # s
        BY <1>2, <1>7, <3>2 DEF SourceInv, SlotsUsed, Active
      <3>3. QED
        BY <3>1, <3>2
    <2>3. QED
      BY <2>2 DEF SlotsUsed, Active
  <1>11. Owned'
    <2>1. ASSUME NEW q \in Slots, NEW b \in slot'[q].owners PROVE b \in InPlan' /\ planAction'[b].slot = q
      <3>1. CASE b \in slot[q].owners
        <4>1. b \in InPlan /\ planAction[b].slot = q /\ b # a /\ b \in PlanActions
          BY <1>9, <3>1 DEF SourceInv, Owned, InPlan
        <4>2. QED
          BY <1>7, <1>9, <4>1
      <3>2. CASE b \notin slot[q].owners
        <4>1. q = s /\ b = a
          BY <1>5, <1>7, <2>1, <3>2
        <4>2. QED
          BY <1>6, <1>7, <1>9, <4>1
      <3>3. QED
        BY <3>1, <3>2
    <2>2. ASSUME NEW b \in InPlan' PROVE planAction'[b].slot \in Slots /\ b \in slot'[planAction'[b].slot].owners /\ sourceSession'.stage = "open"
      <3>1. CASE b = a
        BY <1>2, <1>5, <1>6, <1>7, <3>1
      <3>2. CASE b # a
        <4>1. b \in InPlan /\ b \in PlanActions
          BY <1>9, <3>2 DEF InPlan
        <4>2. planAction'[b] = planAction[b] /\ planAction[b].slot \in Slots /\ b \in slot[planAction[b].slot].owners
          BY <1>7, <3>2, <4>1 DEF SourceInv, Owned
        <4>3. QED
          BY <1>2, <1>5, <1>7, <4>2
      <3>3. QED
        BY <3>1, <3>2
    <2>3. QED
      BY <2>1, <2>2 DEF Owned
  <1>12. \A q \in Slots : /\ slot'[q].kind = slot[q].kind /\ slot'[q].turn = slot[q].turn
                          /\ slot'[q].target = slot[q].target /\ slot'[q].proposal = slot[q].proposal
                          /\ slot'[q].held = slot[q].held /\ slot'[q].reason = slot[q].reason
    BY <1>2, <1>5, <1>7
  <1>13. Admitted'
    <2>1. ASSUME NEW b \in InPlan', ~planAction'[b].aborted
          PROVE  slot'[planAction'[b].slot].reason = "none" \/ (planAction'[b].stage = "bound" /\ Survives(slot'[planAction'[b].slot].reason))
      <3>1. CASE b = a
        BY <1>5, <1>6, <1>7, <3>1
      <3>2. CASE b # a
        <4>1. b \in InPlan /\ b \in PlanActions
          BY <1>9, <3>2 DEF InPlan
        <4>2. planAction'[b] = planAction[b] /\ planAction[b].slot \in Slots
          BY <1>7, <3>2, <4>1 DEF SourceInv, Owned
        <4>3. slot[planAction[b].slot].reason = "none" \/ (planAction[b].stage = "bound" /\ Survives(slot[planAction[b].slot].reason))
          BY <2>1, <4>1, <4>2 DEF SourceInv, Admitted, Active
        <4>4. QED
          BY <1>12, <4>2, <4>3
      <3>3. QED
        BY <3>1, <3>2
    <2>2. QED
      BY <2>1 DEF Admitted, Active, Survives
  <1>14. Within'
    BY <1>12, FewerAlternatives
  <1>15. OneWinner'
    <2>1. \A b \in PlanActions : b \in InPlan' /\ planAction'[b].stage = "bound" => b # a /\ b \in InPlan /\ planAction'[b] = planAction[b]
      BY <1>6, <1>7, <1>9
    <2>2. QED
      BY <1>12, <2>1, StillOne
  <1>16. Turned'
    BY <1>2, <1>12 DEF SourceInv, Turned, Active, Survives
  <1>17. AllFinished' /\ OneTurn' /\ Ended'
    BY <1>2 DEF SourceInv, AllFinished, OneTurn, Ended
  <1>18. QED
    BY <1>8, <1>10, <1>11, <1>13, <1>14, <1>15, <1>16, <1>17 DEF SourceInv

LEMMA BindKeeps ==
  ASSUME SourceInv, NEW a \in PlanActions, Bind(a)
  PROVE  SourceInv'
  <1> DEFINE S == Competing(planAction[a].slot)
             f == Released(S, "lost")
             g == Aborted(Expiring(S, "lost"))
             v == [g[a] EXCEPT !.stage = "bound"]
  <1>0. PICK s \in Slots : s = planAction[a].slot
    BY DEF Bind, SourceInv, Owned, InPlan
  <1>1. /\ planAction[a].stage = "raw" /\ ~planAction[a].aborted /\ slot' = f /\ planAction' = [g EXCEPT ![a] = v]
        /\ UNCHANGED <<sourceSession, sourceTurn, request, physical>>
    BY DEF Bind
  <1>2. a \in InPlan /\ a \in slot[s].owners /\ slot[s].reason = "none" /\ sourceSession.stage = "open"
    BY <1>0, <1>1 DEF SourceInv, Owned, Admitted, InPlan, Active
  <1>3. slot[s].held /\ request[s] # "none"
    BY <1>2 DEF SourceInv, SlotsUsed, Active
  <1>4. /\ s \notin S /\ S \subseteq Held
        /\ slot[s].kind = "proposal" => \A q \in Held : q # s /\ slot[q].kind = "proposal" /\ slot[q].target = slot[s].target => q \in S
    BY <1>0, <1>3 DEF Competing
  <1> HIDE DEF S
  <1>5. "lost" \in Reasons /\ ~Survives("lost")
    BY DEF Reasons, Survives
  <1>6. /\ f \in [Slots -> Slotted]
        /\ \A q \in Slots :
              /\ f[q].kind = slot[q].kind /\ f[q].turn = slot[q].turn /\ f[q].target = slot[q].target
              /\ f[q].proposal = slot[q].proposal /\ f[q].pending = slot[q].pending /\ f[q].owners = slot[q].owners
              /\ f[q].held <=> slot[q].held /\ q \notin S
              /\ f[q].reason = IF q \in S /\ slot[q].held /\ slot[q].reason = "none" THEN "lost" ELSE slot[q].reason
    BY <1>5, SourceKnown, ReleasedFields
  <1>7. /\ g \in [PlanActions -> Acting]
        /\ \A b \in PlanActions : /\ g[b].stage = planAction[b].stage /\ g[b].slot = planAction[b].slot
                                  /\ g[b].aborted <=> planAction[b].aborted \/ Cut(b, S, "lost")
    BY SourceKnown, AbortedFields
  <1>8. /\ v \in Acting /\ v.stage = "bound" /\ v.slot = s /\ v.aborted = FALSE
    <2>1. ~Cut(a, S, "lost")
      BY <1>0, <1>4 DEF Cut
    <2>2. g[a] \in Acting /\ g[a].slot = s /\ g[a].aborted = FALSE
      BY <1>0, <1>1, <1>7, <2>1 DEF Acting
    <2> HIDE DEF g
    <2>3. QED
      BY <2>2 DEF Acting
  <1> HIDE DEF f, g, v
  <1>9. /\ planAction' \in [PlanActions -> Acting] /\ planAction'[a] = v /\ \A b \in PlanActions : b # a => planAction'[b] = g[b]
    BY <1>1, <1>7, <1>8
  <1>10. SourceType'
    BY <1>1, <1>6, <1>9, SourceKnown DEF SourceType
  <1>11. \A b \in PlanActions : (b \in InPlan' <=> b \in InPlan) /\ planAction'[b].slot = planAction[b].slot
    BY <1>0, <1>2, <1>7, <1>8, <1>9 DEF InPlan
  <1>12. InPlan' = InPlan
    BY <1>11 DEF InPlan
  <1>13. SlotsUsed'
    <2>1. ASSUME NEW q \in Slots
          PROVE  /\ request'[q] = "none" => ~slot'[q].held /\ slot'[q].kind = "none" /\ slot'[q].owners = {} /\ q \notin physical'
                 /\ request'[q] # "none" /\ slot'[q].reason = "none" => slot'[q].held
                 /\ slot'[q].held => sourceSession'.stage = "open" /\ (slot'[q].pending > 0 \/ slot'[q].owners # {})
                 /\ slot'[q].held /\ slot'[q].reason = "none" => sourceSession'.enabled
                 /\ request'[q] \in {"producing", "produced", "admitting", "binding"} => slot'[q].pending > 0
      BY <1>1, <1>2, <1>6 DEF SourceInv, SlotsUsed, Active
    <2>2. QED
      BY <2>1 DEF SlotsUsed, Active
  <1>14. Owned' /\ Admitted' /\ Within'
    <2>1. \A q \in Slots : /\ slot'[q].kind = slot[q].kind /\ slot'[q].turn = slot[q].turn
                           /\ slot'[q].target = slot[q].target /\ slot'[q].proposal = slot[q].proposal
                           /\ slot'[q].held => slot[q].held
      BY <1>1, <1>6
    <2>2. \A q \in Slots : slot'[q].owners = slot[q].owners \cap InPlan'
      BY <1>1, <1>6, <1>12 DEF SourceInv, Owned
    <2>3. \A b \in InPlan' : /\ planAction[b].stage = "bound" => planAction'[b].stage = "bound"
                             /\ ~planAction'[b].aborted => ~planAction[b].aborted
      BY <1>1, <1>7, <1>8, <1>9, <1>12 DEF InPlan
    <2>4. ASSUME NEW b \in InPlan', ~planAction'[b].aborted PROVE slot'[planAction[b].slot].reason = slot[planAction[b].slot].reason
      <3>1. b \in InPlan /\ b \in PlanActions /\ planAction[b].slot \in Slots /\ planAction[b].stage \in {"raw", "bound"}
        BY <1>12 DEF InPlan, SourceInv, Owned
      <3>2. CASE b = a
        BY <1>0, <1>1, <1>4, <1>6, <3>1, <3>2
      <3>3. CASE b # a
        <4>1. ~Cut(b, S, "lost")
          BY <1>7, <1>9, <2>4, <3>1, <3>3
        <4>2. ~(planAction[b].slot \in S /\ slot[planAction[b].slot].reason = "none")
          BY <1>5, <3>1, <4>1 DEF Cut, Active
        <4>3. QED
          BY <1>1, <1>6, <3>1, <4>2
      <3>4. QED
        BY <3>2, <3>3
    <2>5. \A b \in PlanActions : /\ planAction'[b].slot = planAction[b].slot
                                 /\ b \in InPlan' => b \in InPlan /\ sourceSession'.stage = "open"
      BY <1>1, <1>2, <1>11
    <2>6. QED
      BY <2>1, <2>2, <2>3, <2>4, <2>5, Narrows
  <1>15. Turned'
    BY <1>1, <1>5, <1>6 DEF SourceInv, Turned, Active, Survives
  <1>16. AllFinished' /\ OneTurn' /\ Ended'
    BY <1>1, <1>2 DEF SourceInv, AllFinished, OneTurn, Ended
  <1>17. ASSUME NEW b \in InPlan, b # a, planAction'[b].stage = "bound", ~planAction'[b].aborted,
                slot[planAction[b].slot].kind = "proposal", slot[s].kind = "proposal", slot[planAction[b].slot].turn = slot[s].turn
         PROVE  planAction[b].slot = s
    <2>1. SUFFICES ASSUME planAction[b].slot # s PROVE FALSE
      OBVIOUS
    <2>2. PICK q \in Slots : q = planAction[b].slot
      BY DEF SourceInv, Owned
    <2>3. b \in PlanActions /\ planAction[b].stage = "bound" /\ ~planAction[b].aborted /\ ~Cut(b, S, "lost")
      BY <1>7, <1>9, <1>17 DEF InPlan
    <2>4. slot[q].target = slot[s].target /\ sourceTurn[slot[s].turn].stage = "launched" /\ ~Survives(slot[q].reason)
      BY <1>2, <1>17, <2>2 DEF SourceInv, Turned, Active
    <2>5. slot[q].reason = "none" /\ b \in slot[q].owners
      BY <2>2, <2>3, <2>4 DEF SourceInv, Admitted, Active, Owned
    <2>6. slot[q].held
      BY <2>5 DEF SourceInv, SlotsUsed, Active
    <2>7. q \in S
      BY <1>4, <1>17, <2>1, <2>2, <2>4, <2>6 DEF Held
    <2>8. QED
      BY <1>5, <2>2, <2>3, <2>5, <2>7 DEF Cut, Active
  <1>18. OneWinner'
    <2> SUFFICES ASSUME NEW b \in InPlan', NEW d \in InPlan',
                        planAction'[b].stage = "bound", planAction'[d].stage = "bound", ~planAction'[b].aborted, ~planAction'[d].aborted,
                        slot'[planAction'[b].slot].kind = "proposal", slot'[planAction'[d].slot].kind = "proposal",
                        slot'[planAction'[b].slot].turn = slot'[planAction'[d].slot].turn
                 PROVE  planAction'[b].slot = planAction'[d].slot
      BY DEF OneWinner
    <2>1. /\ b \in InPlan /\ d \in InPlan /\ b \in PlanActions /\ d \in PlanActions /\ planAction'[b].slot = planAction[b].slot /\ planAction'[d].slot = planAction[d].slot
          /\ planAction[b].slot \in Slots /\ planAction[d].slot \in Slots
      BY <1>11, <1>12 DEF SourceInv, Owned, InPlan
    <2>2. /\ slot[planAction[b].slot].kind = "proposal" /\ slot[planAction[d].slot].kind = "proposal"
          /\ slot[planAction[b].slot].turn = slot[planAction[d].slot].turn
      BY <1>1, <1>6, <2>1
    <2>3. CASE b = a
      BY <1>0, <1>17, <2>1, <2>2, <2>3
    <2>4. CASE d = a
      BY <1>0, <1>17, <2>1, <2>2, <2>4
    <2>5. CASE b # a /\ d # a
      <3>1. planAction[b].stage = "bound" /\ planAction[d].stage = "bound" /\ ~planAction[b].aborted /\ ~planAction[d].aborted
        BY <1>7, <1>9, <2>1, <2>5
      <3>2. QED
        BY <2>1, <2>2, <3>1 DEF SourceInv, OneWinner
    <2>6. QED
      BY <2>3, <2>4, <2>5
  <1>19. QED
    BY <1>10, <1>13, <1>14, <1>15, <1>16, <1>18 DEF SourceInv

LEMMA RetireKeeps ==
  ASSUME SourceInv, NEW a \in PlanActions, Retire(a)
  PROVE  SourceInv'
  <1>0. PICK s \in Slots : s = planAction[a].slot
    BY DEF Retire, SourceInv, Owned, InPlan
  <1>1. PICK kept \in BOOLEAN :
          LET freed == IF kept THEN slot ELSE Released(Descend(a) \ {s}, "parent") IN
          /\ slot' = [freed EXCEPT ![s] = Swept([freed[s] EXCEPT !.owners = freed[s].owners \ {a}])]
          /\ planAction' = [(IF kept THEN planAction ELSE Aborted(Expiring(Descend(a) \ {s}, "parent"))) EXCEPT ![a].stage = "gone"]
    BY <1>0 DEF Retire
  <1>2. /\ planAction[a].stage \in {"raw", "bound"} /\ UNCHANGED <<sourceSession, sourceTurn, request, physical>>
    BY DEF Retire
  <1> DEFINE S == IF kept THEN {} ELSE Descend(a) \ {s}
             f == IF kept THEN slot ELSE Released(Descend(a) \ {s}, "parent")
             g == IF kept THEN planAction ELSE Aborted(Expiring(Descend(a) \ {s}, "parent"))
             u == [f[s] EXCEPT !.owners = f[s].owners \ {a}]
             w == Swept(u)
             v == [g[a] EXCEPT !.stage = "gone"]
  <1>3. "parent" \in Reasons /\ ~Survives("parent") /\ s \notin S
    BY DEF Reasons, Survives
  <1>4. a \in InPlan /\ a \in slot[s].owners /\ sourceSession.stage = "open"
    BY <1>0, <1>2 DEF SourceInv, Owned, InPlan
  <1>5. /\ f \in [Slots -> Slotted]
        /\ \A q \in Slots :
              /\ f[q].kind = slot[q].kind /\ f[q].turn = slot[q].turn /\ f[q].target = slot[q].target
              /\ f[q].proposal = slot[q].proposal /\ f[q].pending = slot[q].pending /\ f[q].owners = slot[q].owners
              /\ f[q].held <=> slot[q].held /\ q \notin S
              /\ f[q].reason = IF q \in S /\ slot[q].held /\ slot[q].reason = "none" THEN "parent" ELSE slot[q].reason
    <2>1. CASE kept
      BY <2>1, SourceKnown DEF SourceType
    <2>2. CASE ~kept
      <3>1. S = Descend(a) \ {s} /\ f = Released(Descend(a) \ {s}, "parent")
        BY <2>2
      <3> HIDE DEF S, f
      <3>2. f = Released(S, "parent")
        BY <3>1
      <3>3. QED
        BY <1>3, <3>2, SourceKnown, ReleasedFields
    <2>3. QED
      BY <2>1, <2>2
  <1>6. /\ g \in [PlanActions -> Acting]
        /\ \A b \in PlanActions : /\ g[b].stage = planAction[b].stage /\ g[b].slot = planAction[b].slot
                                  /\ g[b].aborted <=> planAction[b].aborted \/ Cut(b, S, "parent")
    <2>1. CASE kept
      BY <2>1, SourceKnown DEF SourceType, Cut
    <2>2. CASE ~kept
      <3>1. S = Descend(a) \ {s} /\ g = Aborted(Expiring(Descend(a) \ {s}, "parent"))
        BY <2>2
      <3> HIDE DEF S, g
      <3>2. g = Aborted(Expiring(S, "parent"))
        BY <3>1
      <3>3. QED
        BY <3>2, SourceKnown, AbortedFields
    <2>3. QED
      BY <2>1, <2>2
  <1>7. slot' = [f EXCEPT ![s] = w] /\ planAction' = [g EXCEPT ![a] = v]
    BY <1>1
  <1> HIDE DEF f, g, S
  <1>8. /\ u \in Slotted /\ u.kind = slot[s].kind /\ u.turn = slot[s].turn /\ u.target = slot[s].target
        /\ u.proposal = slot[s].proposal /\ u.pending = slot[s].pending /\ u.owners = slot[s].owners \ {a} /\ u.held = slot[s].held
        /\ u.reason = slot[s].reason
    <2>1. f[s] \in Slotted /\ f[s].reason = slot[s].reason /\ (f[s].held <=> slot[s].held) /\ slot[s] \in Slotted
      BY <1>3, <1>5, SourceKnown
    <2>2. QED
      BY <1>5, <2>1 DEF Slotted
  <1> HIDE DEF u
  <1>9. /\ w \in Slotted /\ w.kind = slot[s].kind /\ w.turn = slot[s].turn /\ w.target = slot[s].target
        /\ w.proposal = slot[s].proposal /\ w.pending = slot[s].pending /\ w.owners = slot[s].owners \ {a}
        /\ w.held <=> slot[s].held /\ (w.pending > 0 \/ w.owners # {})
        /\ w.reason = IF slot[s].held /\ ~w.held /\ slot[s].reason = "none" THEN "unused" ELSE slot[s].reason
    BY <1>8, SweptFields
  <1>10. v \in Acting /\ v.stage = "gone" /\ v.slot = s
    BY <1>0, <1>6 DEF Acting
  <1> HIDE DEF w, v
  <1>11. /\ slot' \in [Slots -> Slotted] /\ slot'[s] = w /\ \A q \in Slots : q # s => slot'[q] = f[q]
         /\ planAction' \in [PlanActions -> Acting] /\ planAction'[a] = v /\ \A b \in PlanActions : b # a => planAction'[b] = g[b]
    BY <1>5, <1>6, <1>7, <1>9, <1>10
  <1>12. SourceType'
    BY <1>2, <1>11, SourceKnown DEF SourceType
  <1>13. InPlan' = InPlan \ {a} /\ \A b \in PlanActions : planAction'[b].slot = planAction[b].slot
    <2>1. \A b \in PlanActions : (b \in InPlan' <=> b \in InPlan /\ b # a) /\ planAction'[b].slot = planAction[b].slot
      BY <1>0, <1>6, <1>10, <1>11 DEF InPlan
    <2>2. QED
      BY <2>1 DEF InPlan
  <1>14. SlotsUsed'
    <2>1. ASSUME NEW q \in Slots
          PROVE  /\ request'[q] = "none" => ~slot'[q].held /\ slot'[q].kind = "none" /\ slot'[q].owners = {} /\ q \notin physical'
                 /\ request'[q] # "none" /\ slot'[q].reason = "none" => slot'[q].held
                 /\ slot'[q].held => sourceSession'.stage = "open" /\ (slot'[q].pending > 0 \/ slot'[q].owners # {})
                 /\ slot'[q].held /\ slot'[q].reason = "none" => sourceSession'.enabled
                 /\ request'[q] \in {"producing", "produced", "admitting", "binding"} => slot'[q].pending > 0
      <3>1. CASE q = s
        BY <1>2, <1>4, <1>9, <1>11, <3>1 DEF SourceInv, SlotsUsed, Active
      <3>2. CASE q # s
        BY <1>2, <1>5, <1>11, <3>2 DEF SourceInv, SlotsUsed, Active
      <3>3. QED
        BY <3>1, <3>2
    <2>2. QED
      BY <2>1 DEF SlotsUsed, Active
  <1>15. \A q \in Slots : /\ slot'[q].kind = slot[q].kind /\ slot'[q].turn = slot[q].turn
                          /\ slot'[q].target = slot[q].target /\ slot'[q].proposal = slot[q].proposal
                          /\ slot'[q].held => slot[q].held
    BY <1>5, <1>9, <1>11
  <1>16. Owned' /\ Admitted' /\ Within'
    <2>1. \A q \in Slots : slot'[q].owners = slot[q].owners \cap InPlan'
      <3>1. SUFFICES ASSUME NEW q \in Slots PROVE slot'[q].owners = slot[q].owners \cap InPlan'
        OBVIOUS
      <3>2. slot[q].owners \subseteq InPlan /\ (q # s => a \notin slot[q].owners)
        BY <1>0 DEF SourceInv, Owned
      <3>3. slot'[q].owners = IF q = s THEN slot[q].owners \ {a} ELSE slot[q].owners
        BY <1>5, <1>9, <1>11
      <3>4. QED
        BY <1>13, <3>2, <3>3
    <2>2. \A b \in InPlan' : /\ planAction[b].stage = "bound" => planAction'[b].stage = "bound"
                             /\ ~planAction'[b].aborted => ~planAction[b].aborted
      BY <1>6, <1>11, <1>13 DEF InPlan
    <2>3. ASSUME NEW b \in InPlan', ~planAction'[b].aborted PROVE slot'[planAction[b].slot].reason = slot[planAction[b].slot].reason
      <3>1. b \in InPlan /\ b # a /\ b \in PlanActions /\ planAction[b].slot \in Slots /\ planAction[b].stage \in {"raw", "bound"}
            /\ b \in slot[planAction[b].slot].owners
        BY <1>13 DEF InPlan, SourceInv, Owned
      <3>2. CASE planAction[b].slot = s
        <4>1. w.owners # {}
          BY <1>9, <3>1, <3>2
        <4>2. QED
          BY <1>9, <1>11, <3>2, <4>1
      <3>3. CASE planAction[b].slot # s
        <4>1. ~Cut(b, S, "parent")
          BY <1>6, <1>11, <2>3, <3>1
        <4>2. ~(planAction[b].slot \in S /\ slot[planAction[b].slot].reason = "none")
          BY <1>3, <3>1, <4>1 DEF Cut, Active
        <4>3. QED
          BY <1>5, <1>11, <3>1, <3>3, <4>2
      <3>4. QED
        BY <3>2, <3>3
    <2>4. \A b \in PlanActions : /\ planAction'[b].slot = planAction[b].slot
                                 /\ b \in InPlan' => b \in InPlan /\ sourceSession'.stage = "open"
      BY <1>2, <1>4, <1>13
    <2>5. QED
      BY <1>15, <2>1, <2>2, <2>3, <2>4, Narrows
  <1>17. OneWinner'
    <2>1. \A b \in PlanActions : b \in InPlan' /\ planAction'[b].stage = "bound" /\ ~planAction'[b].aborted =>
            b \in InPlan /\ planAction[b].stage = "bound" /\ ~planAction[b].aborted /\ planAction'[b].slot = planAction[b].slot
      BY <1>6, <1>11, <1>13
    <2>2. QED
      BY <1>15, <2>1, StillOne
  <1>18. Turned'
    <2>1. \A q \in Slots : (slot'[q].reason = "none" => slot[q].reason = "none")
                           /\ (Survives(slot'[q].reason) => Survives(slot[q].reason))
      BY <1>3, <1>5, <1>9, <1>11 DEF Survives
    <2>2. QED
      BY <1>2, <1>15, <2>1 DEF SourceInv, Turned, Active, Survives
  <1>19. AllFinished' /\ OneTurn' /\ Ended'
    BY <1>2, <1>4 DEF SourceInv, AllFinished, OneTurn, Ended
  <1>20. QED
    BY <1>12, <1>14, <1>16, <1>17, <1>18, <1>19 DEF SourceInv

LEMMA ArriveKeeps ==
  ASSUME SourceInv, NEW t \in Turns, ArriveTurn(t)
  PROVE  SourceInv'
  <1> DEFINE S == {s \in Held : slot[s].target <= sourceTurn[t].seq}
             f == Released(S, "arrived")
             g == Aborted(Expiring(S \cap Held, "arrived"))
             d == IF sourceTurn[t].seq > sourceSession.decision THEN sourceTurn[t].seq ELSE sourceSession.decision
  <1>1. /\ sourceTurn[t].stage \in {"waiting", "launched"} /\ sourceTurn' = [sourceTurn EXCEPT ![t].stage = "arrived"]
        /\ sourceSession' = [sourceSession EXCEPT !.decision = d] /\ slot' = f /\ planAction' = g /\ UNCHANGED <<request, physical>>
    BY DEF ArriveTurn, Release
  <1>2. "arrived" \in Reasons /\ Survives("arrived") /\ S \cap Held = S
    BY DEF Reasons, Survives
  <1>3. d \in Nat
    BY SourceKnown DEF Turning
  <1>4. /\ sourceTurn' \in [Turns -> Turning] /\ sourceTurn'[t].stage = "arrived" /\ \A u \in Turns : sourceTurn'[u].seq = sourceTurn[u].seq
        /\ \A u \in Turns : u # t => sourceTurn'[u] = sourceTurn[u]
    BY <1>1, SourceKnown DEF SourceType, Turning
  <1>5. sourceSession.stage = "open"
    BY <1>1, SourceKnown DEF SourceInv, AllFinished
  <1> HIDE DEF d
  <1>6. /\ sourceSession' \in [stage : {"open", "draining", "closed"}, enabled : BOOLEAN, decision : Nat]
        /\ sourceSession'.stage = "open" /\ sourceSession'.enabled = sourceSession.enabled
    BY <1>1, <1>3, <1>5, SourceKnown DEF SourceType
  <1>7. \A q \in Slots : q \in S <=> slot[q].held /\ slot[q].target <= sourceTurn[t].seq
    BY DEF Held
  <1> HIDE DEF S
  <1>8. /\ f \in [Slots -> Slotted]
        /\ \A q \in Slots :
              /\ f[q].kind = slot[q].kind /\ f[q].turn = slot[q].turn /\ f[q].target = slot[q].target
              /\ f[q].proposal = slot[q].proposal /\ f[q].pending = slot[q].pending /\ f[q].owners = slot[q].owners
              /\ f[q].held <=> slot[q].held /\ q \notin S
              /\ f[q].reason = IF q \in S /\ slot[q].held /\ slot[q].reason = "none" THEN "arrived" ELSE slot[q].reason
    BY <1>2, SourceKnown, ReleasedFields
  <1>9. /\ g \in [PlanActions -> Acting]
        /\ \A b \in PlanActions : /\ g[b].stage = planAction[b].stage /\ g[b].slot = planAction[b].slot
                                  /\ g[b].aborted <=> planAction[b].aborted \/ Cut(b, S, "arrived")
    <2>1. S \cap Held = S
      BY <1>2
    <2>2. g = Aborted(Expiring(S, "arrived"))
      BY <2>1
    <2> HIDE DEF g
    <2>3. QED
      BY <2>2, SourceKnown, AbortedFields
  <1> HIDE DEF f, g
  <1>10. SourceType'
    BY <1>1, <1>4, <1>6, <1>8, <1>9, SourceKnown DEF SourceType
  <1>11. InPlan' = InPlan
    BY <1>1, <1>9 DEF InPlan
  <1>12. SlotsUsed'
    <2>1. ASSUME NEW q \in Slots
          PROVE  /\ request'[q] = "none" => ~slot'[q].held /\ slot'[q].kind = "none" /\ slot'[q].owners = {} /\ q \notin physical'
                 /\ request'[q] # "none" /\ slot'[q].reason = "none" => slot'[q].held
                 /\ slot'[q].held => sourceSession'.stage = "open" /\ (slot'[q].pending > 0 \/ slot'[q].owners # {})
                 /\ slot'[q].held /\ slot'[q].reason = "none" => sourceSession'.enabled
                 /\ request'[q] \in {"producing", "produced", "admitting", "binding"} => slot'[q].pending > 0
      BY <1>1, <1>6, <1>8 DEF SourceInv, SlotsUsed, Active
    <2>2. QED
      BY <2>1 DEF SlotsUsed, Active
  <1>13. \A q \in Slots : /\ slot'[q].kind = slot[q].kind /\ slot'[q].turn = slot[q].turn
                          /\ slot'[q].target = slot[q].target /\ slot'[q].proposal = slot[q].proposal
                          /\ slot'[q].held => slot[q].held
    BY <1>1, <1>8
  <1>14. Owned' /\ Admitted' /\ Within'
    <2>1. \A q \in Slots : slot'[q].owners = slot[q].owners \cap InPlan'
      BY <1>1, <1>8, <1>11 DEF SourceInv, Owned
    <2>2. \A b \in InPlan' : /\ planAction[b].stage = "bound" => planAction'[b].stage = "bound"
                             /\ ~planAction'[b].aborted => ~planAction[b].aborted
      BY <1>1, <1>9, <1>11 DEF InPlan
    <2>3. ASSUME NEW b \in InPlan', ~planAction'[b].aborted
          PROVE  slot'[planAction[b].slot].reason = slot[planAction[b].slot].reason
                 \/ (planAction'[b].stage = "bound" /\ Survives(slot'[planAction[b].slot].reason))
      <3>1. b \in InPlan /\ b \in PlanActions /\ planAction[b].slot \in Slots /\ planAction[b].stage \in {"raw", "bound"}
        BY <1>11 DEF InPlan, SourceInv, Owned
      <3>2. ~Cut(b, S, "arrived") /\ planAction'[b].stage = planAction[b].stage
        BY <1>1, <1>9, <2>3, <3>1
      <3>3. CASE planAction[b].slot \in S /\ slot[planAction[b].slot].reason = "none"
        BY <1>1, <1>2, <1>7, <1>8, <3>1, <3>2, <3>3 DEF Cut, Active
      <3>4. CASE ~(planAction[b].slot \in S /\ slot[planAction[b].slot].reason = "none")
        BY <1>1, <1>8, <3>1, <3>4
      <3>5. QED
        BY <3>3, <3>4
    <2>4. \A b \in PlanActions : /\ planAction'[b].slot = planAction[b].slot
                                 /\ b \in InPlan' => b \in InPlan /\ sourceSession'.stage = "open"
      BY <1>1, <1>6, <1>9, <1>11
    <2>5. QED
      BY <1>13, <2>1, <2>2, <2>3, <2>4, Narrows
  <1>15. OneWinner'
    <2>1. \A b \in PlanActions : b \in InPlan' /\ planAction'[b].stage = "bound" /\ ~planAction'[b].aborted =>
            b \in InPlan /\ planAction[b].stage = "bound" /\ ~planAction[b].aborted /\ planAction'[b].slot = planAction[b].slot
      BY <1>1, <1>9, <1>11
    <2>2. QED
      BY <1>13, <2>1, StillOne
  <1>16. Turned'
    <2>1. ASSUME NEW q \in Slots, slot'[q].kind = "proposal"
          PROVE  /\ slot'[q].turn \in Turns /\ slot'[q].target = sourceTurn'[slot'[q].turn].seq
                 /\ sourceTurn'[slot'[q].turn].stage \notin {"none", "waiting"}
                 /\ slot'[q].reason = "none" => sourceTurn'[slot'[q].turn].stage = "launched"
                 /\ Survives(slot'[q].reason) => sourceTurn'[slot'[q].turn].stage # "launched"
      <3>1. /\ slot[q].kind = "proposal" /\ slot'[q].turn = slot[q].turn /\ slot'[q].target = slot[q].target
            /\ slot[q].turn \in Turns /\ slot[q].target = sourceTurn[slot[q].turn].seq
            /\ sourceTurn[slot[q].turn].stage \notin {"none", "waiting"}
            /\ slot[q].reason = "none" => sourceTurn[slot[q].turn].stage = "launched"
            /\ Survives(slot[q].reason) => sourceTurn[slot[q].turn].stage # "launched"
        BY <1>13, <2>1 DEF SourceInv, Turned, Active
      <3>2. CASE slot[q].turn = t
        <4>1. slot'[q].reason # "none"
          <5>1. SUFFICES ASSUME slot'[q].reason = "none" PROVE FALSE
            OBVIOUS
          <5>2. slot[q].reason = "none"
            BY <1>1, <1>2, <1>8, <5>1
          <5>3. slot[q].held
            BY <3>1, <5>2 DEF SourceInv, SlotsUsed, Active
          <5>4. q \in S
            BY <1>7, <3>1, <3>2, <5>3, SourceKnown DEF Turning
          <5>5. QED
            BY <1>1, <1>8, <5>1, <5>2, <5>3, <5>4
        <4>2. QED
          BY <1>4, <3>1, <3>2, <4>1
      <3>3. CASE slot[q].turn # t
        <4>1. sourceTurn[slot[q].turn].stage # "launched"
          BY <1>1, <3>1, <3>3 DEF SourceInv, OneTurn
        <4>2. slot'[q].reason = slot[q].reason
          BY <1>1, <1>8, <3>1, <4>1
        <4>3. QED
          BY <1>4, <3>1, <3>3, <4>2
      <3>4. QED
        BY <3>2, <3>3
    <2>2. QED
      BY <2>1 DEF Turned, Active, Survives
  <1>17. AllFinished' /\ OneTurn' /\ Ended'
    BY <1>1, <1>4, <1>6 DEF SourceInv, AllFinished, OneTurn, Ended
  <1>18. QED
    BY <1>10, <1>12, <1>14, <1>15, <1>16, <1>17 DEF SourceInv

LEMMA FinishKeeps ==
  ASSUME SourceInv, NEW t \in Turns, Finish(t)
  PROVE  SourceInv'
  <1> DEFINE S == OwnSlots(t)
             g == Aborted(Expiring(S, "turn_finished"))
             dead == {a \in InPlan : g[a].stage = "raw" /\ g[a].aborted}
             R(s) == IF s \in S THEN "turn_finished" ELSE slot[s].reason
             u(s) == [slot[s] EXCEPT !.reason = R(s), !.owners = slot[s].owners \ dead]
             w(s) == Swept(u(s))
  <1>1. /\ sourceSession.stage = "open" /\ sourceTurn[t].stage \in {"waiting", "launched", "arrived"}
        /\ sourceTurn' = [sourceTurn EXCEPT ![t].stage = "finished"] /\ UNCHANGED <<sourceSession, request, physical>>
        /\ slot' = [s \in Slots |-> w(s)]
        /\ planAction' = [a \in PlanActions |-> IF a \in dead THEN [g[a] EXCEPT !.stage = "gone"] ELSE g[a]]
    BY DEF Finish, Open
  <1>2. "turn_finished" \in Reasons /\ Survives("turn_finished")
    BY DEF Reasons, Survives
  <1>3. \A s \in Slots : s \in S <=> slot[s].turn = t /\ slot[s].kind = "proposal" /\ slot[s].reason = "none"
    BY DEF OwnSlots, Active
  <1>4. /\ sourceTurn' \in [Turns -> Turning] /\ sourceTurn'[t].stage = "finished" /\ \A v \in Turns : sourceTurn'[v].seq = sourceTurn[v].seq
        /\ \A v \in Turns : v # t => sourceTurn'[v] = sourceTurn[v]
    BY <1>1, SourceKnown DEF SourceType, Turning
  <1> HIDE DEF S
  <1>5. /\ g \in [PlanActions -> Acting]
        /\ \A b \in PlanActions : /\ g[b].stage = planAction[b].stage /\ g[b].slot = planAction[b].slot
                                  /\ g[b].aborted <=> planAction[b].aborted \/ Cut(b, S, "turn_finished")
    BY SourceKnown, AbortedFields
  <1>6. \A a \in PlanActions : a \in dead <=> a \in InPlan /\ planAction[a].stage = "raw" /\ (planAction[a].aborted \/ Cut(a, S, "turn_finished"))
    BY <1>5
  <1> HIDE DEF g, dead
  <1>7. ASSUME NEW a \in PlanActions
        PROVE  /\ planAction'[a] \in Acting /\ planAction'[a].slot = planAction[a].slot /\ planAction'[a].aborted = g[a].aborted
               /\ planAction'[a].stage = IF a \in dead THEN "gone" ELSE planAction[a].stage
    <2>1. g[a] \in Acting /\ planAction'[a] = IF a \in dead THEN [g[a] EXCEPT !.stage = "gone"] ELSE g[a]
      BY <1>1, <1>5
    <2>2. QED
      BY <1>5, <2>1 DEF Acting
  <1>8. planAction' \in [PlanActions -> Acting]
    <2>1. planAction' = [a \in PlanActions |-> planAction'[a]]
      BY <1>1
    <2>2. QED
      BY <1>7, <2>1
  <1>9. InPlan' = InPlan \ dead
    <2>1. \A a \in PlanActions : a \in InPlan' <=> a \in InPlan /\ a \notin dead
      BY <1>7 DEF InPlan
    <2>2. QED
      BY <2>1 DEF InPlan
  <1>10. ASSUME NEW s \in Slots
         PROVE  LET x == slot'[s] IN
                /\ x \in Slotted /\ x.kind = slot[s].kind /\ x.turn = slot[s].turn /\ x.target = slot[s].target
                /\ x.proposal = slot[s].proposal /\ x.pending = slot[s].pending /\ x.owners = slot[s].owners \ dead
                /\ x.held <=> slot[s].held /\ (x.pending > 0 \/ x.owners # {})
                /\ x.reason = IF slot[s].held /\ ~x.held /\ R(s) = "none" THEN "unused" ELSE R(s)
    <2>1. R(s) \in Reasons /\ slot[s] \in Slotted
      BY <1>2, SourceKnown DEF Slotted
    <2> HIDE DEF R
    <2>2. /\ u(s) \in Slotted /\ u(s).kind = slot[s].kind /\ u(s).turn = slot[s].turn /\ u(s).target = slot[s].target
          /\ u(s).proposal = slot[s].proposal /\ u(s).pending = slot[s].pending /\ u(s).owners = slot[s].owners \ dead
          /\ u(s).held = slot[s].held /\ u(s).reason = R(s)
      BY <2>1 DEF Slotted
    <2>3. slot'[s] = w(s)
      BY <1>1
    <2> HIDE DEF u
    <2>4. QED
      BY <2>2, <2>3, SweptFields
  <1> HIDE DEF w, u
  <1>11. slot' \in [Slots -> Slotted]
    <2>1. slot' = [s \in Slots |-> slot'[s]]
      BY <1>1
    <2>2. QED
      BY <1>10, <2>1
  <1>12. SourceType'
    BY <1>1, <1>4, <1>8, <1>11, SourceKnown DEF SourceType
  <1>13. \A s \in Slots : s \in S => R(s) = "turn_finished"
    OBVIOUS
  <1>14. \A s \in Slots : s \notin S => R(s) = slot[s].reason
    OBVIOUS
  <1> HIDE DEF R
  <1>15. SlotsUsed'
    <2>1. ASSUME NEW q \in Slots
          PROVE  /\ request'[q] = "none" => ~slot'[q].held /\ slot'[q].kind = "none" /\ slot'[q].owners = {} /\ q \notin physical'
                 /\ request'[q] # "none" /\ slot'[q].reason = "none" => slot'[q].held
                 /\ slot'[q].held => sourceSession'.stage = "open" /\ (slot'[q].pending > 0 \/ slot'[q].owners # {})
                 /\ slot'[q].held /\ slot'[q].reason = "none" => sourceSession'.enabled
                 /\ request'[q] \in {"producing", "produced", "admitting", "binding"} => slot'[q].pending > 0
      <3>1. slot'[q].reason = "none" => slot[q].reason = "none" /\ (slot[q].held => slot'[q].held)
        BY <1>10, <1>13, <1>14
      <3>2. QED
        BY <1>1, <1>10, <3>1 DEF SourceInv, SlotsUsed, Active
    <2>2. QED
      BY <2>1 DEF SlotsUsed, Active
  <1>16. \A q \in Slots : /\ slot'[q].kind = slot[q].kind /\ slot'[q].turn = slot[q].turn
                          /\ slot'[q].target = slot[q].target /\ slot'[q].proposal = slot[q].proposal
                          /\ slot'[q].held => slot[q].held
    BY <1>10
  <1>17. Owned' /\ Admitted' /\ Within'
    <2>1. \A q \in Slots : slot'[q].owners = slot[q].owners \cap InPlan'
      BY <1>9, <1>10 DEF SourceInv, Owned
    <2>2. \A b \in InPlan' : /\ planAction[b].stage = "bound" => planAction'[b].stage = "bound"
                             /\ ~planAction'[b].aborted => ~planAction[b].aborted
      BY <1>5, <1>7, <1>9 DEF InPlan
    <2>3. ASSUME NEW b \in InPlan', ~planAction'[b].aborted
          PROVE  slot'[planAction[b].slot].reason = slot[planAction[b].slot].reason
                 \/ (planAction'[b].stage = "bound" /\ Survives(slot'[planAction[b].slot].reason))
      <3>1. /\ b \in InPlan /\ b \notin dead /\ b \in PlanActions /\ planAction[b].slot \in Slots /\ planAction[b].stage \in {"raw", "bound"}
            /\ b \in slot[planAction[b].slot].owners
        BY <1>9 DEF InPlan, SourceInv, Owned
      <3>2. PICK q \in Slots : q = planAction[b].slot
        BY <3>1
      <3>3. slot'[q].owners # {} /\ (slot'[q].held <=> slot[q].held)
        BY <1>10, <3>1, <3>2
      <3>4. slot'[q].reason = R(q)
        BY <1>10, <3>3
      <3>5. ~Cut(b, S, "turn_finished") /\ planAction'[b].stage = planAction[b].stage
        BY <1>5, <1>7, <2>3, <3>1
      <3>6. CASE q \in S
        BY <1>2, <1>3, <1>13, <3>1, <3>2, <3>4, <3>5, <3>6 DEF Cut, Active
      <3>7. CASE q \notin S
        BY <1>14, <3>2, <3>4, <3>7
      <3>8. QED
        BY <3>6, <3>7
    <2>4. \A b \in PlanActions : /\ planAction'[b].slot = planAction[b].slot
                                 /\ b \in InPlan' => b \in InPlan /\ sourceSession'.stage = "open"
      BY <1>1, <1>7, <1>9
    <2>5. QED
      BY <1>16, <2>1, <2>2, <2>3, <2>4, Narrows
  <1>18. OneWinner'
    <2>1. \A b \in PlanActions : b \in InPlan' /\ planAction'[b].stage = "bound" /\ ~planAction'[b].aborted =>
            b \in InPlan /\ planAction[b].stage = "bound" /\ ~planAction[b].aborted /\ planAction'[b].slot = planAction[b].slot
      BY <1>5, <1>7, <1>9
    <2>2. QED
      BY <1>16, <2>1, StillOne
  <1>19. Turned'
    <2>1. ASSUME NEW q \in Slots, slot'[q].kind = "proposal"
          PROVE  /\ slot'[q].turn \in Turns /\ slot'[q].target = sourceTurn'[slot'[q].turn].seq
                 /\ sourceTurn'[slot'[q].turn].stage \notin {"none", "waiting"}
                 /\ slot'[q].reason = "none" => sourceTurn'[slot'[q].turn].stage = "launched"
                 /\ Survives(slot'[q].reason) => sourceTurn'[slot'[q].turn].stage # "launched"
      <3>1. /\ slot[q].kind = "proposal" /\ slot'[q].turn = slot[q].turn /\ slot'[q].target = slot[q].target
            /\ slot[q].turn \in Turns /\ slot[q].target = sourceTurn[slot[q].turn].seq
            /\ sourceTurn[slot[q].turn].stage \notin {"none", "waiting"}
            /\ slot[q].reason = "none" => sourceTurn[slot[q].turn].stage = "launched"
            /\ Survives(slot[q].reason) => sourceTurn[slot[q].turn].stage # "launched"
        BY <1>16, <2>1 DEF SourceInv, Turned, Active
      <3>2. CASE slot[q].turn = t
        <4>1. slot'[q].reason # "none"
          BY <1>3, <1>10, <1>13, <1>14, <3>1, <3>2
        <4>2. QED
          BY <1>4, <3>1, <3>2, <4>1
      <3>3. CASE slot[q].turn # t
        <4>1. slot'[q].reason = "none" => slot[q].reason = "none"
          BY <1>3, <1>10, <1>14, <3>3
        <4>2. Survives(slot'[q].reason) => Survives(slot[q].reason)
          BY <1>3, <1>10, <1>14, <3>3 DEF Survives
        <4>3. QED
          BY <1>4, <3>1, <3>3, <4>1, <4>2
      <3>4. QED
        BY <3>2, <3>3
    <2>2. QED
      BY <2>1 DEF Turned, Active, Survives
  <1>20. AllFinished' /\ OneTurn' /\ Ended'
    BY <1>1, <1>4 DEF SourceInv, AllFinished, OneTurn, Ended
  <1>21. QED
    BY <1>12, <1>15, <1>17, <1>18, <1>19, <1>20 DEF SourceInv

LEMMA DisableKeeps ==
  ASSUME SourceInv, Disable
  PROVE  SourceInv'
  <1> DEFINE f == Released(Held, "disabled")
             g == Aborted(Expiring(Held, "disabled"))
  <1>1. PICK kept \in SUBSET {a \in InPlan : planAction[a].stage = "bound"} :
          /\ planAction' = [a \in PlanActions |-> IF a \in InPlan \ kept THEN [g[a] EXCEPT !.stage = "gone"] ELSE g[a]]
          /\ slot' = [s \in Slots |-> [f[s] EXCEPT !.owners = f[s].owners \cap kept]]
    BY DEF Disable
  <1>2. /\ sourceSession.stage = "open" /\ sourceSession' = [sourceSession EXCEPT !.enabled = FALSE] /\ UNCHANGED <<sourceTurn, request, physical>>
    BY DEF Disable, Open
  <1>3. "disabled" \in Reasons /\ ~Survives("disabled")
    BY DEF Reasons, Survives
  <1>4. /\ f \in [Slots -> Slotted]
        /\ \A q \in Slots :
              /\ f[q].kind = slot[q].kind /\ f[q].turn = slot[q].turn /\ f[q].target = slot[q].target
              /\ f[q].proposal = slot[q].proposal /\ f[q].pending = slot[q].pending /\ f[q].owners = slot[q].owners
              /\ f[q].held = FALSE
              /\ f[q].reason = IF slot[q].held /\ slot[q].reason = "none" THEN "disabled" ELSE slot[q].reason
    <2>1. \A q \in Slots : q \in Held <=> slot[q].held
      BY DEF Held
    <2>2. \A q \in Slots : f[q].held <=> slot[q].held /\ q \notin Held
      BY <1>3, SourceKnown, ReleasedFields
    <2>3. /\ f \in [Slots -> Slotted]
          /\ \A q \in Slots :
              /\ f[q].kind = slot[q].kind /\ f[q].turn = slot[q].turn /\ f[q].target = slot[q].target
              /\ f[q].proposal = slot[q].proposal /\ f[q].pending = slot[q].pending /\ f[q].owners = slot[q].owners
              /\ f[q].reason = IF q \in Held /\ slot[q].held /\ slot[q].reason = "none" THEN "disabled" ELSE slot[q].reason
      BY <1>3, SourceKnown, ReleasedFields
    <2> HIDE DEF f
    <2>4. QED
      BY <2>1, <2>2, <2>3 DEF Slotted
  <1>5. /\ g \in [PlanActions -> Acting]
        /\ \A b \in PlanActions : /\ g[b].stage = planAction[b].stage /\ g[b].slot = planAction[b].slot
                                  /\ g[b].aborted <=> planAction[b].aborted \/ Cut(b, Held, "disabled")
    BY SourceKnown, AbortedFields
  <1> HIDE DEF f, g
  <1>6. ASSUME NEW a \in PlanActions
        PROVE  /\ planAction'[a] \in Acting /\ planAction'[a].slot = planAction[a].slot /\ planAction'[a].aborted = g[a].aborted
               /\ planAction'[a].stage = IF a \in InPlan \ kept THEN "gone" ELSE planAction[a].stage
    <2>1. g[a] \in Acting /\ planAction'[a] = IF a \in InPlan \ kept THEN [g[a] EXCEPT !.stage = "gone"] ELSE g[a]
      BY <1>1, <1>5
    <2>2. QED
      BY <1>5, <2>1 DEF Acting
  <1>7. planAction' \in [PlanActions -> Acting]
    <2>1. planAction' = [a \in PlanActions |-> planAction'[a]]
      BY <1>1
    <2>2. QED
      BY <1>6, <2>1
  <1>8. InPlan' = kept
    <2>1. \A a \in PlanActions : a \in InPlan' <=> a \in kept
      BY <1>6 DEF InPlan
    <2>2. QED
      BY <2>1 DEF InPlan
  <1>9. ASSUME NEW s \in Slots
        PROVE  LET x == slot'[s] IN
               /\ x \in Slotted /\ x.kind = slot[s].kind /\ x.turn = slot[s].turn /\ x.target = slot[s].target
               /\ x.proposal = slot[s].proposal /\ x.pending = slot[s].pending /\ x.owners = slot[s].owners \cap kept
               /\ x.held = FALSE
               /\ x.reason = IF slot[s].held /\ slot[s].reason = "none" THEN "disabled" ELSE slot[s].reason
    <2> DEFINE o == f[s].owners \cap kept
               x == [f[s] EXCEPT !.owners = o]
    <2>1. slot'[s] = x /\ f[s] \in Slotted
      BY <1>1, <1>4
    <2>2. o \in SUBSET PlanActions
      BY <2>1 DEF Slotted
    <2> HIDE DEF o
    <2>3. /\ x \in Slotted /\ x.kind = f[s].kind /\ x.turn = f[s].turn /\ x.target = f[s].target /\ x.proposal = f[s].proposal
          /\ x.pending = f[s].pending /\ x.owners = o /\ x.held = f[s].held /\ x.reason = f[s].reason
      BY <2>1, <2>2 DEF Slotted
    <2> HIDE DEF x
    <2>4. QED
      BY <1>4, <2>1, <2>3 DEF o
  <1>10. slot' \in [Slots -> Slotted]
    <2>1. slot' = [s \in Slots |-> slot'[s]]
      BY <1>1
    <2>2. QED
      BY <1>9, <2>1
  <1>11. sourceSession' \in [stage : {"open", "draining", "closed"}, enabled : BOOLEAN, decision : Nat] /\ sourceSession'.stage = "open"
    BY <1>2, SourceKnown DEF SourceType
  <1>12. SourceType'
    BY <1>2, <1>7, <1>10, <1>11, SourceKnown DEF SourceType
  <1>13. SlotsUsed'
    <2>1. ASSUME NEW q \in Slots
          PROVE  /\ request'[q] = "none" => ~slot'[q].held /\ slot'[q].kind = "none" /\ slot'[q].owners = {} /\ q \notin physical'
                 /\ request'[q] # "none" /\ slot'[q].reason = "none" => slot'[q].held
                 /\ slot'[q].held => sourceSession'.stage = "open" /\ (slot'[q].pending > 0 \/ slot'[q].owners # {})
                 /\ slot'[q].held /\ slot'[q].reason = "none" => sourceSession'.enabled
                 /\ request'[q] \in {"producing", "produced", "admitting", "binding"} => slot'[q].pending > 0
      BY <1>2, <1>9 DEF SourceInv, SlotsUsed, Active
    <2>2. QED
      BY <2>1 DEF SlotsUsed, Active
  <1>14. \A q \in Slots : /\ slot'[q].kind = slot[q].kind /\ slot'[q].turn = slot[q].turn
                          /\ slot'[q].target = slot[q].target /\ slot'[q].proposal = slot[q].proposal
                          /\ slot'[q].held => slot[q].held
    BY <1>9
  <1>15. kept \subseteq InPlan /\ \A b \in kept : b \in PlanActions /\ planAction[b].stage = "bound"
    BY DEF InPlan
  <1>16. Owned' /\ Admitted' /\ Within'
    <2>1. \A q \in Slots : slot'[q].owners = slot[q].owners \cap InPlan'
      BY <1>8, <1>9
    <2>2. \A b \in InPlan' : /\ planAction[b].stage = "bound" => planAction'[b].stage = "bound"
                             /\ ~planAction'[b].aborted => ~planAction[b].aborted
      BY <1>5, <1>6, <1>8, <1>15
    <2>3. ASSUME NEW b \in InPlan', ~planAction'[b].aborted PROVE slot'[planAction[b].slot].reason = slot[planAction[b].slot].reason
      <3>1. b \in InPlan /\ b \in PlanActions /\ planAction[b].slot \in Slots /\ planAction[b].stage = "bound"
        BY <1>8, <1>15 DEF SourceInv, Owned
      <3>2. ~Cut(b, Held, "disabled")
        BY <1>5, <1>6, <2>3, <3>1
      <3>3. ~(slot[planAction[b].slot].held /\ slot[planAction[b].slot].reason = "none")
        BY <1>3, <3>1, <3>2 DEF Cut, Active, Held
      <3>4. QED
        BY <1>9, <3>1, <3>3
    <2>4. \A b \in PlanActions : /\ planAction'[b].slot = planAction[b].slot
                                 /\ b \in InPlan' => b \in InPlan /\ sourceSession'.stage = "open"
      BY <1>6, <1>8, <1>11, <1>15
    <2>5. QED
      BY <1>14, <2>1, <2>2, <2>3, <2>4, Narrows
  <1>17. OneWinner'
    <2>1. \A b \in PlanActions : b \in InPlan' /\ planAction'[b].stage = "bound" /\ ~planAction'[b].aborted =>
            b \in InPlan /\ planAction[b].stage = "bound" /\ ~planAction[b].aborted /\ planAction'[b].slot = planAction[b].slot
      BY <1>5, <1>6, <1>8, <1>15
    <2>2. QED
      BY <1>14, <2>1, StillOne
  <1>18. Turned'
    <2>1. \A q \in Slots : (slot'[q].reason = "none" => slot[q].reason = "none")
                           /\ (Survives(slot'[q].reason) => Survives(slot[q].reason))
      BY <1>3, <1>9 DEF Survives
    <2>2. QED
      BY <1>2, <1>14, <2>1 DEF SourceInv, Turned, Active, Survives
  <1>19. AllFinished' /\ OneTurn' /\ Ended'
    BY <1>2, <1>11 DEF SourceInv, AllFinished, OneTurn, Ended
  <1>20. QED
    BY <1>12, <1>13, <1>16, <1>17, <1>18, <1>19 DEF SourceInv

LEMMA CloseKeeps ==
  ASSUME SourceInv, CloseSession
  PROVE  SourceInv'
  <1> DEFINE f == Released(Held, "disposed")
             R(s) == IF f[s].reason = "none" THEN "disposed" ELSE f[s].reason
  <1>1. /\ sourceSession.stage = "open" /\ sourceSession' = [sourceSession EXCEPT !.stage = "draining"] /\ UNCHANGED <<request, physical>>
        /\ sourceTurn' = [t \in Turns |-> [sourceTurn[t] EXCEPT !.stage = "finished"]]
        /\ slot' = [s \in Slots |-> [f[s] EXCEPT !.owners = {}, !.reason = R(s)]]
        /\ planAction' = [a \in PlanActions |-> [planAction[a] EXCEPT !.stage = IF planAction[a].stage = "none" THEN planAction[a].stage ELSE "gone"]]
    BY DEF CloseSession, Open
  <1>2. "disposed" \in Reasons
    BY DEF Reasons
  <1>3. /\ f \in [Slots -> Slotted]
        /\ \A q \in Slots :
              /\ f[q].kind = slot[q].kind /\ f[q].turn = slot[q].turn /\ f[q].target = slot[q].target
              /\ f[q].proposal = slot[q].proposal /\ f[q].pending = slot[q].pending
              /\ f[q].held <=> slot[q].held /\ q \notin Held
    BY <1>2, SourceKnown, ReleasedFields
  <1> HIDE DEF f
  <1>4. ASSUME NEW s \in Slots
        PROVE  LET x == slot'[s] IN
               /\ x \in Slotted /\ x.kind = slot[s].kind /\ x.turn = slot[s].turn /\ x.target = slot[s].target
               /\ x.proposal = slot[s].proposal /\ x.pending = slot[s].pending /\ x.owners = {}
               /\ x.held = FALSE /\ x.reason # "none"
    <2> DEFINE x == [f[s] EXCEPT !.owners = {}, !.reason = R(s)]
    <2>1. slot'[s] = x /\ f[s] \in Slotted
      BY <1>1, <1>3
    <2>2. R(s) \in Reasons /\ R(s) # "none"
      BY <1>2, <2>1 DEF Slotted
    <2> HIDE DEF R
    <2>3. /\ x \in Slotted /\ x.kind = f[s].kind /\ x.turn = f[s].turn /\ x.target = f[s].target /\ x.proposal = f[s].proposal
          /\ x.pending = f[s].pending /\ x.owners = {} /\ x.held = f[s].held /\ x.reason = R(s)
      BY <2>1, <2>2 DEF Slotted
    <2>4. f[s].held = FALSE
      BY <1>3, <2>1 DEF Held, Slotted
    <2> HIDE DEF x
    <2>5. QED
      BY <1>3, <2>1, <2>2, <2>3, <2>4
  <1>5. slot' \in [Slots -> Slotted]
    <2>1. slot' = [s \in Slots |-> slot'[s]]
      BY <1>1
    <2>2. QED
      BY <1>4, <2>1
  <1>6. /\ sourceTurn' \in [Turns -> Turning] /\ \A t \in Turns : sourceTurn'[t].stage = "finished" /\ sourceTurn'[t].seq = sourceTurn[t].seq
    BY <1>1, SourceKnown DEF Turning
  <1>7. planAction' \in [PlanActions -> Acting] /\ \A a \in PlanActions : planAction'[a].stage \in {"none", "gone"}
    <2>1. ASSUME NEW a \in PlanActions PROVE planAction'[a] \in Acting /\ planAction'[a].stage \in {"none", "gone"}
      <3> DEFINE z == IF planAction[a].stage = "none" THEN planAction[a].stage ELSE "gone"
      <3>1. z \in {"none", "gone"} /\ planAction'[a] = [planAction[a] EXCEPT !.stage = z] /\ planAction[a] \in Acting
        BY <1>1, SourceKnown
      <3> HIDE DEF z
      <3>2. QED
        BY <3>1 DEF Acting
    <2>2. planAction' = [a \in PlanActions |-> planAction'[a]]
      BY <1>1
    <2>3. QED
      BY <2>1, <2>2
  <1>8. sourceSession' \in [stage : {"open", "draining", "closed"}, enabled : BOOLEAN, decision : Nat] /\ sourceSession'.stage = "draining"
    BY <1>1, SourceKnown DEF SourceType
  <1>9. SourceType'
    BY <1>1, <1>5, <1>6, <1>7, <1>8, SourceKnown DEF SourceType
  <1>10. InPlan' = {}
    BY <1>7 DEF InPlan
  <1>11. SlotsUsed'
    <2>1. ASSUME NEW q \in Slots
          PROVE  /\ request'[q] = "none" => ~slot'[q].held /\ slot'[q].kind = "none" /\ slot'[q].owners = {} /\ q \notin physical'
                 /\ request'[q] # "none" /\ slot'[q].reason = "none" => slot'[q].held
                 /\ slot'[q].held => sourceSession'.stage = "open" /\ (slot'[q].pending > 0 \/ slot'[q].owners # {})
                 /\ slot'[q].held /\ slot'[q].reason = "none" => sourceSession'.enabled
                 /\ request'[q] \in {"producing", "produced", "admitting", "binding"} => slot'[q].pending > 0
      BY <1>1, <1>4 DEF SourceInv, SlotsUsed
    <2>2. QED
      BY <2>1 DEF SlotsUsed, Active
  <1>12. Owned' /\ Admitted' /\ OneWinner'
    BY <1>4, <1>10 DEF Owned, Admitted, OneWinner
  <1>13. Turned'
    <2>1. \A q \in Slots : slot'[q].kind = "proposal" =>
            /\ slot[q].turn \in Turns /\ slot[q].target = sourceTurn[slot[q].turn].seq
            /\ slot'[q].turn = slot[q].turn /\ slot'[q].target = slot[q].target /\ slot'[q].reason # "none"
      BY <1>4 DEF SourceInv, Turned
    <2>2. QED
      BY <1>6, <2>1 DEF Turned, Active
  <1>14. AllFinished' /\ OneTurn' /\ Ended'
    BY <1>6, <1>8 DEF AllFinished, OneTurn, Ended
  <1>15. Within'
    <2>1. \A q \in Slots : /\ slot'[q].target = slot[q].target /\ slot'[q].proposal = slot[q].proposal
                           /\ slot'[q].held => slot[q].held
      BY <1>4
    <2>2. QED
      BY <2>1, FewerAlternatives
  <1>16. QED
    BY <1>9, <1>11, <1>12, <1>13, <1>14, <1>15 DEF SourceInv

LEMMA SourceStep == SourceInv /\ [SourceNext]_sourceVars => SourceInv'
  <1> SUFFICES ASSUME SourceInv, [SourceNext]_sourceVars PROVE SourceInv'
    OBVIOUS
  <1>1. CASE UNCHANGED sourceVars
    <2>1. UNCHANGED <<sourceSession, sourceTurn, slot, request, physical, planAction>>
      BY <1>1 DEF sourceVars
    <2>2. SourceType' /\ SlotsUsed' /\ Turned' /\ AllFinished' /\ OneTurn' /\ Ended'
      BY <2>1 DEF SourceInv, SourceType, SlotsUsed, Turned, AllFinished, OneTurn, Ended, Quiet, Active, Survives
    <2>3. QED
      BY <2>1, <2>2, SlotsStay DEF SourceInv
  <1>2. ASSUME NEW t \in Turns, StartTurn(t) \/ Launch(t) \/ ArriveTurn(t) \/ Finish(t) PROVE SourceInv'
    BY <1>2, StartTurnKeeps, LaunchKeeps, ArriveKeeps, FinishKeeps
  <1>3. ASSUME NEW s \in Slots, Produce(s) \/ SettleRequest(s) \/ Admit(s) \/ Apply(s) \/ Applied(s) PROVE SourceInv'
    <2>1. CASE SettleRequest(s) \/ Applied(s)
      BY <2>1, FinishedKeeps DEF SettleRequest, Applied
    <2>2. CASE Produce(s) \/ Admit(s) \/ Apply(s)
      BY <2>2, ProduceKeeps, AdmitKeeps, ApplyKeeps
    <2>3. QED
      BY <1>3, <2>1, <2>2
  <1>4. ASSUME NEW a \in PlanActions, Continue(a) \/ Bind(a) \/ Retire(a) PROVE SourceInv'
    BY <1>4, ContinueKeeps, BindKeeps, RetireKeeps
  <1>5. CASE Disable \/ CloseSession \/ Closed
    BY <1>5, DisableKeeps, CloseKeeps, ClosedKeeps
  <1>6. QED
    BY <1>1, <1>2, <1>3, <1>4, <1>5 DEF SourceNext

\* What a request holds in the engine (sourceSlots, sourceTasks and the plan in runtime-engine):
\* for any numbers of turns, slots and actions a slot is held while its generation is active, by a
\* request or by an action in the plan, and the proposals of a turn end with it.
THEOREM SourceInvariance == SourceSpec => []SourceInv
  BY SourceStart, SourceStep, PTL DEF SourceSpec

\* Of the alternatives a turn asked for one wins, admission capacity comes back and a closed
\* session has nothing running, whatever arrives late (cancelCompetingProposals,
\* releaseSourceSlot and closeSessionState).
THEOREM SourcesAreSafe == SourceSpec => []SourcesSafe
  <1>1. SourceInv => SourcesSafe
    <2> SUFFICES ASSUME SourceInv PROVE SourcesSafe
      OBVIOUS
    <2>1. OneWinner
      BY DEF SourceInv
    <2>2. CapacityReturns
      <3>1. ASSUME NEW s \in Held PROVE slot[s].pending > 0 \/ (slot[s].owners # {} /\ slot[s].owners \subseteq InPlan)
        BY DEF Held, SourceInv, SlotsUsed, Owned
      <3>2. ASSUME NEW s \in Held PROVE Cardinality(Alternatives(slot[s].target)) <= MaxAlternatives
        <4>1. slot[s].target \in Nat
          BY SourceKnown DEF Held, Slotted
        <4>2. QED
          BY <4>1 DEF SourceInv, Within
      <3>3. QED
        BY <3>1, <3>2 DEF CapacityReturns
    <2>3. ClosedIsQuiet
      BY DEF SourceInv, Ended, Quiet, Owned, SlotsUsed, Held, ClosedIsQuiet
    <2>4. QED
      BY <2>1, <2>2, <2>3 DEF SourcesSafe
  <1>2. QED
    BY <1>1, SourceInvariance, PTL

\* A request that lost its authority adds nothing to the plan (applyUpdate).
THEOREM NothingIsLate == SourceSpec => NothingLate
  <1>1. SourceInv /\ [SourceNext]_sourceVars => [NothingLateStep]_sourceVars
    <2> SUFFICES ASSUME SourceInv, SourceNext, NEW a \in PlanActions, planAction[a].stage = "none", planAction'[a].stage # "none"
                 PROVE  LET s == planAction'[a].slot IN slot[s].held /\ Active(s) /\ Open /\ sourceSession.enabled
      BY DEF NothingLateStep
    <2>1. ASSUME planAction' = planAction PROVE FALSE
      BY <2>1
    <2>2. ASSUME \A b \in PlanActions : planAction[b].stage = "none" => planAction'[b].stage = "none" PROVE FALSE
      BY <2>2
    <2>3. ASSUME NEW t \in Turns, StartTurn(t) \/ Launch(t) PROVE FALSE
      BY <2>1, <2>3 DEF StartTurn, Launch
    <2>4. ASSUME NEW S, NEW r PROVE \A b \in PlanActions : Aborted(Expiring(S, r))[b].stage = planAction[b].stage
      BY SourceKnown, AbortedFields
    <2>5. ASSUME NEW t \in Turns, ArriveTurn(t) PROVE FALSE
      BY <2>2, <2>4, <2>5 DEF ArriveTurn, Release
    <2>6. ASSUME NEW t \in Turns, Finish(t) PROVE FALSE
      <3> DEFINE g == Aborted(Expiring(OwnSlots(t), "turn_finished"))
                 dead == {b \in InPlan : g[b].stage = "raw" /\ g[b].aborted}
      <3>1. planAction' = [b \in PlanActions |-> IF b \in dead THEN [g[b] EXCEPT !.stage = "gone"] ELSE g[b]]
        BY <2>6 DEF Finish
      <3>2. \A b \in PlanActions : g[b].stage = planAction[b].stage
        BY <2>4
      <3>3. \A b \in dead : planAction[b].stage # "none"
        BY DEF InPlan
      <3> HIDE DEF g, dead
      <3>4. QED
        BY <2>2, <3>1, <3>2, <3>3
    <2>7. ASSUME NEW s \in Slots, Produce(s) \/ SettleRequest(s) \/ Admit(s) \/ Applied(s) PROVE FALSE
      BY <2>1, <2>7 DEF Produce, SettleRequest, Admit, Applied
    <2>8. ASSUME NEW b \in PlanActions, Continue(b) \/ Bind(b) \/ Retire(b) PROVE FALSE
      <3>1. CASE Continue(b)
        BY <2>1, <3>1 DEF Continue
      <3>2. CASE Bind(b)
        <4> DEFINE g == Aborted(Expiring(Competing(planAction[b].slot), "lost"))
        <4>1. planAction' = [g EXCEPT ![b].stage = "bound"] /\ planAction[b].stage = "raw"
          BY <3>2 DEF Bind
        <4>2. \A c \in PlanActions : g[c].stage = planAction[c].stage
          BY <2>4
        <4>3. DOMAIN g = PlanActions
          BY DEF Aborted
        <4> HIDE DEF g
        <4>4. QED
          BY <2>2, <4>1, <4>2, <4>3
      <3>3. CASE Retire(b)
        <4>1. PICK g \in {planAction, Aborted(Expiring(Descend(b) \ {planAction[b].slot}, "parent"))} :
                planAction' = [g EXCEPT ![b].stage = "gone"] /\ planAction[b].stage \in {"raw", "bound"}
          BY <3>3 DEF Retire
        <4>2. \A c \in PlanActions : g[c].stage = planAction[c].stage
          BY <2>4
        <4>3. QED
          BY <2>2, <4>1, <4>2
      <3>4. QED
        BY <2>8, <3>1, <3>2, <3>3
    <2>9. CASE Disable
      <3> DEFINE g == Aborted(Expiring(Held, "disabled"))
      <3>1. PICK kept : planAction' = [b \in PlanActions |-> IF b \in InPlan \ kept THEN [g[b] EXCEPT !.stage = "gone"] ELSE g[b]]
        BY <2>9 DEF Disable
      <3>2. \A b \in PlanActions : g[b].stage = planAction[b].stage
        BY <2>4
      <3> HIDE DEF g
      <3>3. QED
        BY <2>2, <3>1, <3>2 DEF InPlan
    <2>10. CASE CloseSession
      <3> SUFFICES ASSUME NEW b \in PlanActions, planAction[b].stage = "none" PROVE planAction'[b].stage = "none"
        BY <2>2
      <3>1. planAction'[b] = [planAction[b] EXCEPT !.stage = IF planAction[b].stage = "none" THEN planAction[b].stage ELSE "gone"]
        BY <2>10 DEF CloseSession
      <3>2. planAction[b] \in Acting
        BY SourceKnown DEF SourceType
      <3>3. QED
        BY <3>1, <3>2 DEF Acting
    <2>11. CASE Closed
      BY <2>1, <2>11 DEF Closed
    <2>12. ASSUME NEW s \in Slots, Apply(s) PROVE LET q == planAction'[a].slot IN slot[q].held /\ Active(q) /\ Open /\ sourceSession.enabled
      <3>1. PICK b \in PlanActions : planAction[b].stage = "none" /\ planAction' = [planAction EXCEPT ![b] = [stage |-> "raw", slot |-> s, aborted |-> FALSE]]
        BY <2>12 DEF Apply
      <3>2. a = b /\ planAction'[a].slot = s
        BY <3>1, SourceKnown DEF SourceType
      <3>3. request[s] = "admitting" /\ Open /\ Active(s)
        BY <2>12 DEF Apply, Applicable
      <3>4. slot[s].held /\ sourceSession.enabled
        BY <3>3 DEF SourceInv, SlotsUsed
      <3>5. QED
        BY <3>2, <3>3, <3>4
    <2>13. QED
      BY <2>3, <2>5, <2>6, <2>7, <2>8, <2>9, <2>10, <2>11, <2>12 DEF SourceNext
  <1>2. QED
    BY <1>1, SourceInvariance, PTL DEF SourceSpec, NothingLate

-----------------------------------------------------------------------------
(* Scheduling: what waits is looked at again.                               *)

JobStages == {"none", "queued", "running", "draining", "gone"}
JobTable == [Jobs -> [stage : JobStages, size : Sizes \cup {0}, rank : Ranks \cup {0}, demand : BOOLEAN]]

SchedType ==
  /\ job \in JobTable
  /\ launch \in BOOLEAN /\ wake \in BOOLEAN /\ timer \in {"none", "armed", "sampling"}
  /\ samples \in Nat /\ samples <= MaxSamples

\* A timer is set only while there are samples left to take.
TimerCounts == timer # "none" => samples < MaxSamples

SchedInv == SchedType /\ TimerCounts /\ NothingForgotten

LEMMA CancelledTyped == ASSUME NEW v \in JobTable, NEW S PROVE Cancelled(v, S) \in JobTable
  <1>1. \A j \in Jobs : [v[j] EXCEPT !.stage = "draining"] \in [stage : JobStages, size : Sizes \cup {0}, rank : Ranks \cup {0}, demand : BOOLEAN]
    BY DEF JobTable, JobStages
  <1>2. QED
    BY <1>1 DEF Cancelled, JobTable

LEMMA RunsNowTyped == ASSUME NEW v \in JobTable, NEW j PROVE RunsNow(v, j) \in JobTable
  BY DEF RunsNow, JobTable, JobStages

LEMMA ForActorTyped == ASSUME NEW v \in JobTable, NEW size PROVE ForActor(v, size) \in JobTable
  BY CancelledTyped DEF ForActor

LEMMA TriedTyped == ASSUME NEW v \in JobTable, NEW j PROVE Tried(v, j) \in JobTable
  BY CancelledTyped, RunsNowTyped, ForActorTyped DEF Tried

\* A batch has a value, whatever the order: the jobs up to any of them have been tried.
Trials(f, n, v, order) == f = [k \in 0..n |-> IF k = 0 THEN v ELSE Tried(f[k - 1], order[k])]

\* A nonempty set of natural numbers has a least element.
LEMMA LeastNat ==
  ASSUME NEW T, T \subseteq Nat, T # {}
  PROVE  \E x \in T : \A y \in T : x <= y
<1> DEFINE Family == {0..x : x \in T}
           Smaller == StrictSubsetOrdering(Nat)
<1>1. IsWellFoundedOn(Smaller, FiniteSubsetsOf(Nat))
  BY FS_StrictSubsetOrderingWellFounded
<1>2. \A x \in T : IsFiniteSet(0..x)
  BY FS_Interval
<1>3. Family \subseteq FiniteSubsetsOf(Nat) /\ Family # {}
  <2>1. \A x \in T : 0..x \subseteq Nat
    OBVIOUS
  <2>2. \A x \in T : 0..x \in FiniteSubsetsOf(Nat)
    BY <2>1, <1>2 DEF FiniteSubsetsOf
  <2> QED BY <2>2
<1>4. PICK F \in Family : \A G \in Family : ~ (<<G, F>> \in Smaller)
  <2> HIDE DEF Family, Smaller
  <2> QED BY <1>1, <1>3, WFMin
<1>5. PICK x \in T : F = 0..x
  BY <1>4
<1>6. ASSUME NEW y \in T, y < x PROVE FALSE
  <2>1. 0..y \subseteq 0..x /\ 0..y # 0..x /\ 0..y \subseteq Nat /\ 0..x \subseteq Nat
    BY <1>6
  <2>2. <<0..y, F>> \in Smaller
    BY <2>1, <1>5 DEF StrictSubsetOrdering
  <2> QED BY <2>2, <1>4
<1> QED BY <1>6

LEMMA TrialsMade ==
  ASSUME NEW v, NEW order, NEW n \in Nat
  PROVE  \E f : Trials(f, n, v, order)
  <1> DEFINE Made(k) == \E f : Trials(f, k, v, order)
             T == {k \in Nat : ~Made(k)}
  <1>1. Made(0)
    <2> DEFINE f == [k \in 0..0 |-> v]
    <2>1. f = [k \in 0..0 |-> IF k = 0 THEN v ELSE Tried(f[k - 1], order[k])]
      OBVIOUS
    <2>2. QED
      BY <2>1 DEF Trials
  <1>2. ASSUME NEW k \in Nat, Made(k) PROVE Made(k + 1)
    <2>1. PICK f : f = [r \in 0..k |-> IF r = 0 THEN v ELSE Tried(f[r - 1], order[r])]
      BY <1>2 DEF Trials
    <2> DEFINE h == [r \in 0..(k + 1) |-> IF r = k + 1 THEN Tried(f[k], order[k + 1]) ELSE f[r]]
    <2>2. \A r \in 0..k : f[r] = IF r = 0 THEN v ELSE Tried(f[r - 1], order[r])
      BY <2>1, Zenon
    <2>3. \A r \in 0..(k + 1) : h[r] = IF r = 0 THEN v ELSE Tried(h[r - 1], order[r])
      <3> SUFFICES ASSUME NEW r \in 0..(k + 1) PROVE h[r] = IF r = 0 THEN v ELSE Tried(h[r - 1], order[r])
        OBVIOUS
      <3>1. CASE r = k + 1
        <4>1. h[r] = Tried(f[k], order[k + 1]) /\ r - 1 = k /\ h[k] = f[k] /\ r # 0
          BY <3>1
        <4>2. QED
          BY <3>1, <4>1
      <3>2. CASE r # k + 1
        <4>1. r \in 0..k /\ h[r] = f[r]
          BY <3>2
        <4>2. r # 0 => h[r - 1] = f[r - 1]
          BY <4>1
        <4>3. QED
          BY <4>1, <4>2, <2>2
      <3>3. QED
        BY <3>1, <3>2
    <2>4. h = [r \in 0..(k + 1) |-> h[r]]
      OBVIOUS
    <2> HIDE DEF h
    <2>5. h = [r \in 0..(k + 1) |-> IF r = 0 THEN v ELSE Tried(h[r - 1], order[r])]
      BY <2>3, <2>4
    <2>6. QED
      BY <2>5 DEF Trials
  <1> HIDE DEF Made
  <1>3. T = {}
    <2>1. SUFFICES ASSUME T # {} PROVE FALSE
      OBVIOUS
    <2>2. PICK k \in T : \A y \in T : k <= y
      BY <2>1, LeastNat
    <2>3. k # 0 /\ k - 1 \in Nat /\ k - 1 \notin T
      BY <1>1, <2>2
    <2>4. Made((k - 1) + 1)
      BY <2>3, <1>2
    <2>5. QED
      BY <2>2, <2>4
  <1>4. Made(n)
    BY <1>3
  <1>5. QED
    BY <1>4 DEF Made

LEMMA BatchTyped ==
  ASSUME NEW v \in JobTable, NEW S \in SUBSET Jobs
  PROVE  Batch(v, S) \in JobTable
  <1> DEFINE order == InOrder(v, S)
             n == Cardinality(S)
             after[k \in 0..n] == IF k = 0 THEN v ELSE Tried(after[k - 1], order[k])
             T == {k \in 0..n : after[k] \notin JobTable}
  <1>0. n \in Nat
    <2>1. IsFiniteSet(S)
      BY SchedulerSetting, FS_Union, FS_Subset DEF Jobs
    <2>2. QED
      BY <2>1, FS_CardinalityType
  <1>1. Batch(v, S) = after[n]
    BY DEF Batch
  <1> HIDE DEF order, n
  <1>2. \E f : f = [k \in 0..n |-> IF k = 0 THEN v ELSE Tried(f[k - 1], order[k])]
    <2>1. \E f : Trials(f, n, v, order)
      BY <1>0, TrialsMade
    <2>2. QED
      BY <2>1, Zenon DEF Trials
  <1>3. after = [k \in 0..n |-> IF k = 0 THEN v ELSE Tried(after[k - 1], order[k])]
    BY <1>2, Zenon
  <1> HIDE DEF after
  <1>4. \A k \in 0..n : after[k] = IF k = 0 THEN v ELSE Tried(after[k - 1], order[k])
    BY <1>3, Zenon
  <1>5. T = {}
    <2>1. SUFFICES ASSUME T # {} PROVE FALSE
      OBVIOUS
    <2>0. T \subseteq Nat
      BY <1>0
    <2>2. PICK k \in T : \A y \in T : k <= y
      BY <2>0, <2>1, LeastNat
    <2>3. k \in 0..n /\ k # 0 /\ k - 1 \in 0..n /\ k - 1 \notin T
      BY <1>0, <1>4, <2>2
    <2>4. after[k] \in JobTable
      BY <2>3, <1>4, TriedTyped
    <2>5. QED
      BY <2>2, <2>4
  <1>6. QED
    BY <1>0, <1>1, <1>5

\* The watch is set while work is queued and there are samples to take.
LEMMA WatchSet ==
  ASSUME SchedType, TimerCounts, NEW v
  PROVE  /\ Watch(v) \in {"none", "armed", "sampling"}
         /\ Watch(v) # "none" => samples < MaxSamples
         /\ Watch(v) = "none" /\ JobsAt(v, "queued") # {} => samples = MaxSamples
  BY SchedulerSetting DEF Watch, Needed, SchedType, TimerCounts

\* Whatever a step does to the jobs, it keeps the invariant when it looks at the watch.
LEMMA WatchKeeps ==
  ASSUME SchedInv, job' \in JobTable, launch' \in BOOLEAN, wake' \in BOOLEAN,
         samples' = samples, timer' = Watch(job')
  PROVE  SchedInv'
  <1>1. SchedType' /\ TimerCounts'
    BY WatchSet DEF SchedInv, SchedType, TimerCounts
  <1>2. NothingForgotten'
    BY WatchSet DEF SchedInv, NothingForgotten
  <1>3. QED
    BY <1>1, <1>2 DEF SchedInv

\* So it does when it queues nothing and takes nothing off what is due.
LEMMA QueueShrinks ==
  ASSUME SchedInv, job' \in JobTable, launch' = launch, wake' \in BOOLEAN, wake => wake', timer' = timer, samples' = samples,
         JobsAt(job', "queued") \subseteq JobsAt(job, "queued")
  PROVE  SchedInv'
  BY DEF SchedInv, SchedType, TimerCounts, NothingForgotten

LEMMA QueueKeeps == ASSUME SchedInv, NEW j \in Work, Queue(j) PROVE SchedInv'
  <1>1. job' \in JobTable
    <2>1. PICK size \in Sizes, rank \in Ranks : job' = [job EXCEPT ![j] = [stage |-> "queued", size |-> size, rank |-> rank, demand |-> FALSE]]
      BY DEF Queue
    <2>2. QED
      BY <2>1 DEF SchedInv, SchedType, JobTable, JobStages
  <1>2. QED
    BY <1>1, WatchKeeps DEF Queue, SchedInv, SchedType

LEMMA BatchKeeps == ASSUME SchedInv, LaunchBatch PROVE SchedInv'
  <1>1. job' \in JobTable
    BY BatchTyped DEF SchedInv, SchedType, LaunchBatch, JobsAt
  <1>2. QED
    BY <1>1, WatchKeeps DEF LaunchBatch, SchedInv, SchedType

LEMMA DemandKeeps == ASSUME SchedInv, NEW j \in Work, Demand(j) PROVE SchedInv'
  <1> DEFINE v == [job EXCEPT ![j].demand = TRUE]
  <1>1. v \in JobTable
    BY DEF SchedInv, SchedType, JobTable
  <1>2. job' = IF v[j].stage = "queued" THEN Tried(v, j) ELSE v
    BY DEF Demand
  <1>3. job' \in JobTable
    BY <1>1, <1>2, TriedTyped
  <1>4. QED
    BY <1>3, WatchKeeps DEF Demand, SchedInv, SchedType

LEMMA WithdrawKeeps == ASSUME SchedInv, NEW j \in Work, Withdraw(j) PROVE SchedInv'
  <1>1. job' \in JobTable /\ JobsAt(job', "queued") \subseteq JobsAt(job, "queued")
    BY DEF SchedInv, SchedType, Withdraw, JobTable, JobsAt, Jobs
  <1>2. QED
    BY <1>1, QueueShrinks DEF Withdraw, SchedInv, SchedType

LEMMA DropKeeps == ASSUME SchedInv, NEW j \in Work, Drop(j) PROVE SchedInv'
  <1>1. job' \in JobTable /\ JobsAt(job', "queued") \subseteq JobsAt(job, "queued")
    BY DEF SchedInv, SchedType, Drop, JobTable, JobsAt, Jobs, NoJob, JobStages
  <1>2. QED
    BY <1>1, QueueShrinks DEF Drop, SchedInv, SchedType

LEMMA CallKeeps == ASSUME SchedInv, NEW a \in HostCalls, Call(a) PROVE SchedInv'
  <1>1. PICK size \in Sizes : job' = ForActor([job EXCEPT ![a] = [stage |-> "running", size |-> size, rank |-> 0, demand |-> FALSE]], 0)
    BY DEF Call
  <1>2. [job EXCEPT ![a] = [stage |-> "running", size |-> size, rank |-> 0, demand |-> FALSE]] \in JobTable
    BY DEF SchedInv, SchedType, JobTable, JobStages
  <1>3. job' \in JobTable
    BY <1>1, <1>2, ForActorTyped
  <1>4. QED
    BY <1>3, WatchKeeps DEF Call, SchedInv, SchedType

LEMMA EndsKeeps == ASSUME SchedInv, NEW j \in Work, WorkEnds(j) PROVE SchedInv'
  <1> DEFINE v == [job EXCEPT ![j] = [NoJob EXCEPT !.stage = "gone"]]
  <1>1. v \in JobTable
    BY DEF SchedInv, SchedType, JobTable, JobStages, NoJob
  <1>2. job' = ForActor(v, 0) /\ launch' \in BOOLEAN
    BY DEF WorkEnds, Woken, SchedInv, SchedType
  <1>3. job' \in JobTable
    BY <1>1, <1>2, ForActorTyped
  <1>4. QED
    BY <1>2, <1>3, WatchKeeps DEF WorkEnds, SchedInv, SchedType

LEMMA CallEndsKeeps == ASSUME SchedInv, NEW a \in HostCalls, CallEnds(a) PROVE SchedInv'
  <1>1. job' \in JobTable /\ JobsAt(job', "queued") \subseteq JobsAt(job, "queued")
    BY DEF SchedInv, SchedType, CallEnds, JobTable, JobsAt, Jobs, NoJob, JobStages
  <1>2. QED
    BY <1>1, QueueShrinks DEF CallEnds, SchedInv, SchedType

LEMMA WakeKeeps == ASSUME SchedInv, Wake PROVE SchedInv'
  <1>1. job' \in JobTable /\ launch' \in BOOLEAN
    BY ForActorTyped DEF SchedInv, SchedType, Wake, Woken
  <1>2. QED
    BY <1>1, WatchKeeps DEF Wake, SchedInv, SchedType

LEMMA FireKeeps == ASSUME SchedInv, Fire PROVE SchedInv'
  BY DEF SchedInv, SchedType, TimerCounts, NothingForgotten, Fire, Needed

LEMMA SampleKeeps == ASSUME SchedInv, Sample PROVE SchedInv'
  <1>1. job' \in JobTable /\ launch' \in BOOLEAN /\ wake' = wake /\ samples' = samples + 1 /\ samples < MaxSamples
    BY ForActorTyped DEF SchedInv, SchedType, TimerCounts, Sample, Woken
  <1>2. timer' = IF Needed(job') /\ samples' < MaxSamples THEN "armed" ELSE "none"
    BY DEF Sample, Renewed
  <1>3. SchedType' /\ TimerCounts'
    BY <1>1, <1>2, SchedulerSetting DEF SchedInv, SchedType, TimerCounts
  <1>4. NothingForgotten'
    BY <1>1, <1>2, <1>3, SchedulerSetting DEF NothingForgotten, Needed, SchedType
  <1>5. QED
    BY <1>3, <1>4 DEF SchedInv

\* Scheduling: jobs keep their form through every launch and every choice of victims, a timer is
\* set only while there are samples left, and work that waits is looked at again.
THEOREM SchedulerInvariance == SchedSpec => []SchedInv
  <1>1. SchedInit => SchedInv
    <2> SUFFICES ASSUME SchedInit PROVE SchedInv
      OBVIOUS
    <2>1. job \in JobTable /\ JobsAt(job, "queued") = {}
      BY DEF SchedInit, JobTable, JobStages, NoJob, JobsAt
    <2>2. QED
      <3>1. launch = FALSE /\ wake = FALSE /\ timer = "none" /\ samples = 0 /\ 0 <= MaxSamples
        BY SchedulerSetting DEF SchedInit
      <3>2. QED
        BY <2>1, <3>1 DEF SchedInv, SchedType, TimerCounts, NothingForgotten
  <1>2. SchedInv /\ [SchedNext]_schedVars => SchedInv'
    <2> SUFFICES ASSUME SchedInv, [SchedNext]_schedVars PROVE SchedInv'
      OBVIOUS
    <2>1. ASSUME NEW j \in Work, Queue(j) \/ Demand(j) \/ Withdraw(j) \/ WorkEnds(j) \/ Drop(j) PROVE SchedInv'
      BY <2>1, QueueKeeps, DemandKeeps, WithdrawKeeps, EndsKeeps, DropKeeps
    <2>2. ASSUME NEW a \in HostCalls, Call(a) \/ CallEnds(a) PROVE SchedInv'
      BY <2>2, CallKeeps, CallEndsKeeps
    <2>3. CASE LaunchBatch \/ Wake \/ Fire \/ Sample
      BY <2>3, BatchKeeps, WakeKeeps, FireKeeps, SampleKeeps
    <2>4. CASE UNCHANGED schedVars
      BY <2>4 DEF schedVars, SchedInv, SchedType, TimerCounts, NothingForgotten, JobsAt
    <2>5. QED
      BY <2>1, <2>2, <2>3, <2>4 DEF SchedNext
  <1>3. QED
    BY <1>1, <1>2, PTL DEF SchedSpec

-----------------------------------------------------------------------------
(* Feedback queues: what is told after the fact, and when.                  *)

Tasks == {Settled(c) : c \in ToldCalls} \cup {Feedback(p, served) : p \in Predictions, served \in BOOLEAN}
ReceiptRow == [stage : {"none", "open", "settled", "failed"}, reused : SUBSET Producers]
PredRow == [stage : {"open", "waiting", "decided", "queued"}, producers : SUBSET Producers, served : BOOLEAN, asked : SUBSET ToldCalls]

FeedType ==
  /\ receipt \in [ToldCalls -> ReceiptRow] /\ pred \in [Predictions -> PredRow]
  /\ pending \in Seq(Tasks) /\ published \in Seq(Tasks) /\ closing \in {"open", "closing", "closed"}

\* All that was ever enqueued, in order: what has been told, then what waits.
Log == published \o pending
Spots == 1..Len(Log)
Consumes(c, p) == receipt[c].reused \cap pred[p].producers # {}

\* What is under delivery is the first of what waits.
HeadFirst == delivering = IF Len(pending) = 0 THEN {} ELSE {pending[1]}

LogOnce == \A i, k \in Spots : Log[i] = Log[k] => i = k
LogTrue ==
  \A i \in Spots : \/ \E c \in ToldCalls : Log[i] = Settled(c) /\ receipt[c].stage = "settled"
                   \/ \E p \in Predictions : Log[i] = Feedback(p, pred[p].served) /\ pred[p].stage = "queued"
LogWhole ==
  /\ \A c \in ToldCalls : receipt[c].stage = "settled" => \E i \in Spots : Log[i] = Settled(c)
  /\ \A p \in Predictions : pred[p].stage = "queued" => \E i \in Spots : Log[i] = Feedback(p, pred[p].served)
\* A use is told after the call that made it.
LogOrdered ==
  \A i \in Spots, p \in Predictions : Log[i] = Feedback(p, TRUE) =>
    \E k \in Spots, c \in ToldCalls : k < i /\ Log[k] = Settled(c) /\ Consumes(c, p)

\* Only a call that has settled has consumed something.
ReceiptTrue(c) == receipt[c].reused # {} => receipt[c].stage = "settled"

\* A prediction that served was used by a settled call; one that did not was used by none of those
\* it asked, and once it is decided none of them is open.
PredTrue(p) ==
  /\ pred[p].served => \E c \in ToldCalls : receipt[c].stage = "settled" /\ Consumes(c, p)
  /\ pred[p].stage # "open" => \A c \in pred[p].asked : receipt[c].stage # "none"
  /\ pred[p].stage # "open" /\ ~pred[p].served => \A c \in pred[p].asked : ~Consumes(c, p)
  /\ pred[p].stage \in {"decided", "queued"} /\ ~pred[p].served => \A c \in pred[p].asked : receipt[c].stage # "open"
  /\ pred[p].stage = "waiting" => ~pred[p].served

ClosingTrue ==
  /\ closing # "open" => /\ \A c \in ToldCalls : receipt[c].stage # "open"
                         /\ \A p \in Predictions : pred[p].stage # "open"
  /\ closing = "closed" => Len(pending) = 0 /\ \A p \in Predictions : pred[p].stage = "queued"

LogInv == LogOnce /\ LogTrue /\ LogWhole /\ LogOrdered
FeedInv ==
  /\ FeedType /\ HeadFirst /\ LogInv /\ ClosingTrue
  /\ (\A c \in ToldCalls : ReceiptTrue(c)) /\ (\A p \in Predictions : PredTrue(p))

LEMMA TasksTold ==
  /\ \A c \in ToldCalls : Settled(c) \in Tasks /\ Settled(c)[1] = "settled" /\ Settled(c)[2] = c
  /\ \A p \in Predictions, served \in BOOLEAN :
       /\ Feedback(p, served) \in Tasks /\ Feedback(p, served)[1] = "feedback"
       /\ Feedback(p, served)[2] = p /\ Feedback(p, served)[3] = served
  BY DEF Tasks, Settled, Feedback

LEMMA LogTyped ==
  ASSUME FeedType
  PROVE  /\ Log \in Seq(Tasks) /\ Len(Log) = Len(published) + Len(pending)
         /\ \A i \in 1..Len(published) : Log[i] = published[i]
         /\ \A i \in 1..Len(pending) : Log[Len(published) + i] = pending[i]
         /\ Len(published) \in Nat /\ Len(pending) \in Nat
  BY DEF FeedType, Log

\* No receipt and no report is taken back.
Onward ==
  /\ \A c \in ToldCalls : receipt[c].stage = "settled" => receipt'[c] = receipt[c]
  /\ \A p \in Predictions : pred[p].producers \subseteq pred'[p].producers
  /\ \A p \in Predictions : pred[p].stage = "queued" => pred'[p].stage = "queued" /\ pred'[p].served = pred[p].served

LEMMA ConsumedStays ==
  ASSUME Onward, NEW c \in ToldCalls, NEW p \in Predictions, receipt[c].stage = "settled", Consumes(c, p)
  PROVE  receipt'[c].stage = "settled" /\ Consumes(c, p)'
  BY DEF Onward, Consumes

\* A step that enqueues nothing.
LEMMA LogStays ==
  ASSUME FeedInv, FeedType', Onward, Log' = Log,
         \A c \in ToldCalls : receipt'[c].stage = "settled" => receipt[c].stage = "settled",
         \A p \in Predictions : pred'[p].stage = "queued" => pred[p].stage = "queued"
  PROVE  LogInv'
  <1>1. LogInv /\ Spots' = Spots
    BY DEF FeedInv, Spots
  <1>2. LogOnce'
    BY <1>1 DEF LogInv, LogOnce
  <1>3. LogTrue'
    <2> SUFFICES ASSUME NEW i \in Spots
                 PROVE  \/ \E c \in ToldCalls : Log[i] = Settled(c) /\ receipt'[c].stage = "settled"
                        \/ \E p \in Predictions : Log[i] = Feedback(p, pred'[p].served) /\ pred'[p].stage = "queued"
      BY <1>1 DEF LogTrue
    <2>1. CASE \E c \in ToldCalls : Log[i] = Settled(c) /\ receipt[c].stage = "settled"
      BY <2>1 DEF Onward
    <2>2. CASE \E p \in Predictions : Log[i] = Feedback(p, pred[p].served) /\ pred[p].stage = "queued"
      BY <2>2 DEF Onward
    <2>3. QED
      BY <1>1, <2>1, <2>2 DEF LogInv, LogTrue
  <1>4. LogWhole'
    BY <1>1 DEF LogInv, LogWhole, Onward
  <1>5. LogOrdered'
    <2> SUFFICES ASSUME NEW i \in Spots, NEW p \in Predictions, Log[i] = Feedback(p, TRUE)
                 PROVE  \E k \in Spots, c \in ToldCalls : k < i /\ Log[k] = Settled(c) /\ Consumes(c, p)'
      BY <1>1 DEF LogOrdered
    <2>1. PICK k \in Spots, c \in ToldCalls : k < i /\ Log[k] = Settled(c) /\ Consumes(c, p)
      BY <1>1 DEF LogInv, LogOrdered
    <2>2. receipt[c].stage = "settled"
      BY <2>1 DEF FeedInv, ReceiptTrue, Consumes
    <2>3. QED
      BY <2>1, <2>2, ConsumedStays
  <1>6. QED
    BY <1>2, <1>3, <1>4, <1>5 DEF LogInv

\* A step that enqueues a task: the one that a call which settled, or a prediction that was decided, calls for.
LEMMA LogGrows ==
  ASSUME FeedInv, FeedType', Onward, NEW task \in Tasks, Log' = Append(Log, task),
         \/ /\ \E c \in ToldCalls :
                 /\ task = Settled(c) /\ receipt[c].stage # "settled" /\ receipt'[c].stage = "settled"
                 /\ \A d \in ToldCalls \ {c} : receipt'[d].stage = "settled" => receipt[d].stage = "settled"
            /\ \A p \in Predictions : pred'[p].stage = "queued" => pred[p].stage = "queued"
         \/ /\ \E p \in Predictions :
                 /\ task = Feedback(p, pred[p].served) /\ pred[p].stage # "queued" /\ pred'[p].stage = "queued"
                 /\ pred'[p].served = pred[p].served
                 /\ \A q \in Predictions \ {p} : pred'[q].stage = "queued" => pred[q].stage = "queued"
            /\ \A c \in ToldCalls : receipt'[c].stage = "settled" => receipt[c].stage = "settled"
  PROVE  LogInv'
  <1> DEFINE n == Len(Log) + 1
  <1>1. LogInv /\ Log \in Seq(Tasks) /\ n \in Nat
    BY LogTyped DEF FeedInv
  <1>2. /\ Spots' = Spots \cup {n} /\ n \notin Spots /\ Log'[n] = task
        /\ \A i \in Spots : Log'[i] = Log[i] /\ i < n /\ i \in Nat
    BY <1>1 DEF Spots
  <1> HIDE DEF n
  <1>3. \A i \in Spots : Log[i] # task
    <2> SUFFICES ASSUME NEW i \in Spots, Log[i] = task PROVE FALSE
      OBVIOUS
    <2>1. CASE \E c \in ToldCalls : task = Settled(c) /\ receipt[c].stage # "settled"
      <3>1. PICK c \in ToldCalls : task = Settled(c) /\ receipt[c].stage # "settled"
        BY <2>1
      <3>2. task[1] = "settled" /\ task[2] = c
        BY <3>1, TasksTold
      <3>3. \A p \in Predictions : task # Feedback(p, pred[p].served)
        BY <3>2, TasksTold DEF FeedInv, FeedType, PredRow
      <3>4. PICK d \in ToldCalls : Log[i] = Settled(d) /\ receipt[d].stage = "settled"
        BY <1>1, <3>3 DEF LogInv, LogTrue
      <3>5. d = c
        BY <3>2, <3>4, TasksTold
      <3>6. QED
        BY <3>1, <3>4, <3>5
    <2>2. CASE \E p \in Predictions : task = Feedback(p, pred[p].served) /\ pred[p].stage # "queued"
      <3>1. PICK p \in Predictions : task = Feedback(p, pred[p].served) /\ pred[p].stage # "queued"
        BY <2>2
      <3>0. \A q \in Predictions : pred[q].served \in BOOLEAN
        BY DEF FeedInv, FeedType, PredRow
      <3>2. task[1] = "feedback" /\ task[2] = p
        BY <3>0, <3>1, TasksTold
      <3>3. PICK q \in Predictions : Log[i] = Feedback(q, pred[q].served) /\ pred[q].stage = "queued"
        BY <1>1, <3>2, TasksTold DEF LogInv, LogTrue
      <3>4. q = p
        BY <3>0, <3>2, <3>3, TasksTold
      <3>5. QED
        BY <3>1, <3>3, <3>4
    <2>3. QED
      BY <2>1, <2>2
  <1>4. LogOnce'
    <2> SUFFICES ASSUME NEW i \in Spots', NEW k \in Spots', Log'[i] = Log'[k] PROVE i = k
      BY DEF LogOnce
    <2>1. CASE i \in Spots /\ k \in Spots
      BY <1>1, <1>2, <2>1 DEF LogInv, LogOnce
    <2>2. CASE i \in Spots /\ k = n
      BY <1>2, <1>3, <2>2
    <2>3. CASE i = n /\ k \in Spots
      BY <1>2, <1>3, <2>3
    <2>4. QED
      BY <1>2, <2>1, <2>2, <2>3
  <1>5. LogTrue'
    <2> SUFFICES ASSUME NEW i \in Spots'
                 PROVE  \/ \E c \in ToldCalls : Log'[i] = Settled(c) /\ receipt'[c].stage = "settled"
                        \/ \E p \in Predictions : Log'[i] = Feedback(p, pred'[p].served) /\ pred'[p].stage = "queued"
      BY DEF LogTrue
    <2>1. CASE i = n
      BY <1>2, <2>1
    <2>2. CASE i \in Spots
      <3>1. Log'[i] = Log[i]
        BY <1>2, <2>2
      <3>2. CASE \E c \in ToldCalls : Log[i] = Settled(c) /\ receipt[c].stage = "settled"
        BY <3>1, <3>2 DEF Onward
      <3>3. CASE \E p \in Predictions : Log[i] = Feedback(p, pred[p].served) /\ pred[p].stage = "queued"
        BY <3>1, <3>3 DEF Onward
      <3>4. QED
        BY <1>1, <2>2, <3>2, <3>3 DEF LogInv, LogTrue
    <2>3. QED
      BY <1>2, <2>1, <2>2
  <1>6. LogWhole'
    <2>1. ASSUME NEW c \in ToldCalls, receipt'[c].stage = "settled" PROVE \E i \in Spots' : Log'[i] = Settled(c)
      <3>1. CASE receipt[c].stage = "settled"
        BY <1>1, <1>2, <3>1 DEF LogInv, LogWhole
      <3>2. CASE receipt[c].stage # "settled"
        <4>1. task = Settled(c)
          BY <2>1, <3>2
        <4>2. QED
          BY <1>2, <4>1
      <3>3. QED
        BY <3>1, <3>2
    <2>2. ASSUME NEW p \in Predictions, pred'[p].stage = "queued" PROVE \E i \in Spots' : Log'[i] = Feedback(p, pred'[p].served)
      <3>1. CASE pred[p].stage = "queued"
        <4>1. PICK i \in Spots : Log[i] = Feedback(p, pred[p].served)
          BY <1>1, <3>1 DEF LogInv, LogWhole
        <4>2. pred'[p].served = pred[p].served
          BY <3>1 DEF Onward
        <4>3. QED
          BY <1>2, <4>1, <4>2
      <3>2. CASE pred[p].stage # "queued"
        <4>1. task = Feedback(p, pred'[p].served)
          BY <2>2, <3>2
        <4>2. QED
          BY <1>2, <4>1
      <3>3. QED
        BY <3>1, <3>2
    <2>3. QED
      BY <2>1, <2>2 DEF LogWhole
  <1>7. LogOrdered'
    <2> SUFFICES ASSUME NEW i \in Spots', NEW p \in Predictions, Log'[i] = Feedback(p, TRUE)
                 PROVE  \E k \in Spots', c \in ToldCalls : k < i /\ Log'[k] = Settled(c) /\ Consumes(c, p)'
      BY DEF LogOrdered
    <2>1. CASE i \in Spots
      <3>1. PICK k \in Spots, c \in ToldCalls : k < i /\ Log[k] = Settled(c) /\ Consumes(c, p)
        BY <1>1, <1>2, <2>1 DEF LogInv, LogOrdered
      <3>2. receipt[c].stage = "settled"
        BY <3>1 DEF FeedInv, ReceiptTrue, Consumes
      <3>3. Consumes(c, p)'
        BY <3>1, <3>2, ConsumedStays
      <3>4. QED
        BY <1>2, <3>1, <3>3
    <2>2. CASE i = n
      <3>1. task = Feedback(p, TRUE)
        BY <1>2, <2>2
      <3>2. task[1] = "feedback" /\ task[2] = p /\ task[3] = TRUE
        BY <3>1, TasksTold
      <3>3. \A c \in ToldCalls : task # Settled(c)
        BY <3>2, TasksTold
      <3>4. PICK q \in Predictions : task = Feedback(q, pred[q].served)
        BY <3>3
      <3>5. pred[q].served \in BOOLEAN
        BY DEF FeedInv, FeedType, PredRow
      <3>6. q = p /\ pred[p].served
        BY <3>2, <3>4, <3>5, TasksTold
      <3>7. PICK c \in ToldCalls : receipt[c].stage = "settled" /\ Consumes(c, p)
        BY <3>6 DEF FeedInv, PredTrue
      <3>8. PICK k \in Spots : Log[k] = Settled(c)
        BY <1>1, <3>7 DEF LogInv, LogWhole
      <3>9. Consumes(c, p)'
        BY <3>7, ConsumedStays
      <3>10. QED
        BY <1>2, <2>2, <3>8, <3>9
    <2>3. QED
      BY <1>2, <2>1, <2>2
  <1>8. QED
    BY <1>4, <1>5, <1>6, <1>7 DEF LogInv

\* What a receipt makes of a prediction.
LEMMA ReceiptRead ==
  ASSUME FeedType, NEW S \in SUBSET ToldCalls, NEW reused, Receipts(S, reused), NEW p \in Predictions
  PROVE  LET hit == reused \cap pred[p].producers # {} IN
         /\ pred'[p] \in PredRow /\ pred'[p].producers = pred[p].producers /\ pred'[p].asked = pred[p].asked
         /\ pred[p].stage = "open" => pred'[p].stage = "open"
         /\ pred[p].stage = "open" /\ pred'[p].served => pred[p].served \/ hit
         /\ pred[p].stage = "waiting" /\ S \cap pred[p].asked # {} =>
              /\ pred'[p].served = hit
              /\ pred'[p].stage = IF hit \/ pred[p].asked \cap (OpenCalls \ S) = {} THEN "decided" ELSE "waiting"
         /\ pred[p].stage = "waiting" /\ S \cap pred[p].asked = {} => pred'[p] = pred[p]
         /\ pred[p].stage \in {"decided", "queued"} => pred'[p] = pred[p]
  <1> DEFINE hit == reused \cap pred[p].producers # {}
             told == IF hit THEN "decided" ELSE IF Decided(p, OpenCalls \ S) THEN "decided" ELSE pred[p].stage
  <1>0. pred[p] \in PredRow /\ hit \in BOOLEAN
    BY DEF FeedType
  <1>1. pred'[p] = IF pred[p].stage = "open" THEN [pred[p] EXCEPT !.served = pred[p].served \/ hit]
                   ELSE IF pred[p].stage = "waiting" /\ S \cap pred[p].asked # {}
                     THEN [pred[p] EXCEPT !.served = hit, !.stage = told]
                   ELSE pred[p]
    BY DEF Receipts
  <1> HIDE DEF hit
  <1>2. CASE pred[p].stage = "open"
    <2>1. pred'[p] = [pred[p] EXCEPT !.served = pred[p].served \/ hit]
      BY <1>1, <1>2
    <2>2. (pred[p].served \/ hit) \in BOOLEAN
      OBVIOUS
    <2>3. QED
      BY <1>0, <1>2, <2>1, <2>2 DEF PredRow, hit
  <1>3. CASE pred[p].stage = "waiting" /\ S \cap pred[p].asked # {}
    <2>1. pred'[p] = [pred[p] EXCEPT !.served = hit, !.stage = told]
      BY <1>1, <1>3
    <2>2. told = IF hit \/ pred[p].asked \cap (OpenCalls \ S) = {} THEN "decided" ELSE "waiting"
      BY <1>3 DEF Decided
    <2> HIDE DEF told
    <2>3. QED
      BY <1>0, <1>3, <2>1, <2>2 DEF PredRow, hit
  <1>4. CASE pred[p].stage # "open" /\ ~(pred[p].stage = "waiting" /\ S \cap pred[p].asked # {})
    BY <1>0, <1>1, <1>4
  <1>5. QED
    BY <1>2, <1>3, <1>4

\* The receipts of open calls that settle, or fail and have consumed nothing.
LEMMA ReceiptsKeep ==
  ASSUME FeedInv, NEW S \in SUBSET ToldCalls, \A c \in S : receipt[c].stage = "open",
         NEW reused \in SUBSET Producers, NEW stage \in {"settled", "failed"},
         stage = "failed" => reused = {}, S # {} \/ reused = {},
         receipt' = [c \in ToldCalls |-> IF c \in S THEN [stage |-> stage, reused |-> reused] ELSE receipt[c]],
         Receipts(S, reused)
  PROVE  /\ receipt' \in [ToldCalls -> ReceiptRow] /\ pred' \in [Predictions -> PredRow]
         /\ Onward /\ (\A c \in ToldCalls : ReceiptTrue(c)') /\ (\A p \in Predictions : PredTrue(p)')
         /\ \A p \in Predictions : /\ pred'[p].stage = "queued" => pred[p].stage = "queued"
                                   /\ pred[p].stage = "queued" => pred'[p].stage = "queued"
                                   /\ pred'[p].stage = "open" => pred[p].stage = "open"
  <1>0. FeedType
    BY DEF FeedInv
  <1>1. \A c \in S : receipt'[c].stage = stage /\ receipt'[c].reused = reused
    OBVIOUS
  <1>2. \A c \in ToldCalls \ S : receipt'[c] = receipt[c]
    OBVIOUS
  <1>3. receipt' \in [ToldCalls -> ReceiptRow]
    BY DEF FeedInv, FeedType, ReceiptRow
  <1>4. pred' \in [Predictions -> PredRow]
    <2>1. pred' = [p \in Predictions |-> pred'[p]]
      BY DEF Receipts
    <2>2. \A p \in Predictions : pred'[p] \in PredRow
      BY <1>0, ReceiptRead
    <2>3. QED
      BY <2>1, <2>2
  <1>50. \A p \in Predictions : pred[p].producers = pred'[p].producers
    BY <1>0, ReceiptRead
  <1>51. \A p \in Predictions : pred[p].stage = "queued" => pred'[p] = pred[p]
    <2> SUFFICES ASSUME NEW p \in Predictions, pred[p].stage = "queued" PROVE pred'[p] = pred[p]
      OBVIOUS
    <2>1. pred[p].stage \in {"decided", "queued"}
      OBVIOUS
    <2>2. QED
      BY <1>0, <2>1, ReceiptRead
  <1>52. \A c \in ToldCalls : receipt[c].stage = "settled" => receipt'[c] = receipt[c]
    BY <1>2
  <1>5. Onward
    BY <1>50, <1>51, <1>52 DEF Onward
  <1>6. ASSUME NEW c \in ToldCalls PROVE ReceiptTrue(c)'
    BY <1>1, <1>2 DEF FeedInv, ReceiptTrue
  <1>7. ASSUME NEW p \in Predictions PROVE PredTrue(p)'
    <2> DEFINE hit == reused \cap pred[p].producers # {}
               pr == pred'[p]
    <2>1. /\ pr.producers = pred[p].producers /\ pr.asked = pred[p].asked /\ pred[p].asked \subseteq ToldCalls
          /\ pred[p].stage \in {"open", "waiting", "decided", "queued"} /\ PredTrue(p)
      BY <1>0, ReceiptRead DEF FeedInv, FeedType, PredRow
    <2>2. \A c \in S : Consumes(c, p)' <=> hit
      BY <1>1, <2>1 DEF Consumes
    <2>3. \A c \in ToldCalls \ S : Consumes(c, p)' <=> Consumes(c, p)
      BY <1>2, <2>1 DEF Consumes
    <2>4. hit => S # {} /\ stage = "settled"
      OBVIOUS
    <2>5. \A c \in ToldCalls : receipt[c].stage = "settled" => c \notin S
      OBVIOUS
    <2>6. (\E c \in ToldCalls : receipt[c].stage = "settled" /\ Consumes(c, p)) =>
            \E c \in ToldCalls : receipt'[c].stage = "settled" /\ Consumes(c, p)'
      BY <1>2, <2>3, <2>5
    <2>7. hit => \E c \in ToldCalls : receipt'[c].stage = "settled" /\ Consumes(c, p)'
      BY <1>1, <2>2, <2>4
    <2>8. (\A c \in pred[p].asked : receipt[c].stage # "none") => \A c \in pred[p].asked : receipt'[c].stage # "none"
      BY <1>1, <1>2, <2>1
    <2>9. ~hit /\ (\A c \in pred[p].asked : ~Consumes(c, p)) => \A c \in pred[p].asked : ~Consumes(c, p)'
      BY <2>1, <2>2, <2>3
    <2>10. \A c \in ToldCalls : receipt'[c].stage = "open" => receipt[c].stage = "open" /\ c \notin S
      BY <1>1, <1>2
    <2> HIDE DEF hit, pr
    <2>11. CASE pred[p].stage = "open"
      <3>1. pr.stage = "open"
        BY <1>0, <2>11, ReceiptRead DEF pr
      <3>4. pr.served => pred[p].served \/ hit
        BY <1>0, <2>11, ReceiptRead DEF pr, hit
      <3>2. pr.served => \E c \in ToldCalls : receipt'[c].stage = "settled" /\ Consumes(c, p)'
        BY <2>1, <2>6, <2>7, <3>4 DEF PredTrue
      <3>3. QED
        BY <3>1, <3>2 DEF PredTrue, pr
    <2>12. CASE pred[p].stage = "waiting" /\ S \cap pred[p].asked # {}
      <3>1. pr.served = hit /\ pr.stage = IF hit \/ pred[p].asked \cap (OpenCalls \ S) = {} THEN "decided" ELSE "waiting"
        BY <1>0, <2>12, ReceiptRead DEF pr, hit
      <3>2. ~pred[p].served /\ (\A c \in pred[p].asked : receipt[c].stage # "none") /\ \A c \in pred[p].asked : ~Consumes(c, p)
        BY <2>1, <2>12 DEF PredTrue
      <3>3. pr.stage = "decided" /\ ~pr.served => \A c \in pred[p].asked : receipt'[c].stage # "open"
        BY <2>1, <2>10, <3>1 DEF OpenCalls
      <3>4. QED
        BY <2>1, <2>7, <2>8, <2>9, <3>1, <3>2, <3>3 DEF PredTrue, pr
    <2>13. CASE pred[p].stage = "waiting" /\ S \cap pred[p].asked = {}
      <3>1. pr = pred[p]
        BY <1>0, <2>13, ReceiptRead DEF pr
      <3>2. \A c \in pred[p].asked : c \in ToldCalls \ S
        BY <2>1, <2>13
      <3>3. QED
        BY <1>2, <2>1, <2>3, <2>13, <3>1, <3>2 DEF PredTrue, pr
    <2>14. CASE pred[p].stage \in {"decided", "queued"}
      <3>1. pr = pred[p]
        BY <1>0, <2>14, ReceiptRead DEF pr
      <3>2. ~pr.served => \A c \in pred[p].asked : c \in ToldCalls \ S
        BY <2>1, <2>14, <3>1 DEF PredTrue
      <3>3. QED
        BY <1>2, <2>1, <2>3, <2>6, <2>8, <2>14, <3>1, <3>2 DEF PredTrue, pr
    <2>15. QED
      BY <2>1, <2>11, <2>12, <2>13, <2>14
  <1>8. \A p \in Predictions : /\ pred'[p].stage = "queued" => pred[p].stage = "queued"
                               /\ pred[p].stage = "queued" => pred'[p].stage = "queued"
                               /\ pred'[p].stage = "open" => pred[p].stage = "open"
    <2> SUFFICES ASSUME NEW p \in Predictions
                 PROVE  /\ pred'[p].stage = "queued" => pred[p].stage = "queued"
                        /\ pred[p].stage = "queued" => pred'[p].stage = "queued"
                        /\ pred'[p].stage = "open" => pred[p].stage = "open"
      OBVIOUS
    <2>1. pred[p].stage \in {"open", "waiting", "decided", "queued"}
      BY DEF FeedInv, FeedType, PredRow
    <2>2. QED
      BY <1>0, <2>1, ReceiptRead
  <1>9. QED
    BY <1>3, <1>4, <1>5, <1>6, <1>7, <1>8
-----------------------------------------------------------------------------
LEMMA QuietLog ==
  ASSUME FeedInv, FeedType', Onward, UNCHANGED <<pending, published>>,
         \A c \in ToldCalls : receipt'[c].stage = "settled" => receipt[c].stage = "settled",
         \A p \in Predictions : pred'[p].stage = "queued" => pred[p].stage = "queued"
  PROVE  LogInv'
  <1>1. Log' = Log
    BY DEF Log
  <1>2. QED
    BY <1>1, LogStays

LEMMA IssueKeeps ==
  ASSUME FeedInv, NEW c \in ToldCalls, Issue(c)
  PROVE  FeedInv'
  <1>1. /\ receipt[c].stage = "none" /\ receipt[c].reused = {} /\ closing = "open" /\ receipt[c] \in ReceiptRow
        /\ receipt' = [receipt EXCEPT ![c] = [receipt[c] EXCEPT !.stage = "open"]]
        /\ UNCHANGED <<pred, pending, delivering, published, closing>>
    BY DEF Issue, FeedInv, FeedType, ReceiptTrue
  <1>2. /\ receipt' \in [ToldCalls -> ReceiptRow] /\ receipt'[c].stage = "open" /\ receipt'[c].reused = {}
        /\ \A d \in ToldCalls \ {c} : receipt'[d] = receipt[d]
    BY <1>1 DEF FeedInv, FeedType, ReceiptRow
  <1>3. FeedType'
    BY <1>1, <1>2 DEF FeedInv, FeedType
  <1>4. HeadFirst' /\ ClosingTrue'
    BY <1>1 DEF FeedInv, HeadFirst, ClosingTrue
  <1>5. Onward
    BY <1>1, <1>2 DEF Onward, FeedInv, FeedType
  <1>6. LogInv'
    BY <1>1, <1>2, <1>3, <1>5, QuietLog
  <1>7. ASSUME NEW d \in ToldCalls PROVE ReceiptTrue(d)'
    BY <1>2 DEF FeedInv, ReceiptTrue
  <1>8. ASSUME NEW p \in Predictions PROVE PredTrue(p)'
    <2>1. PredTrue(p) /\ pred'[p] = pred[p] /\ pred[p].asked \subseteq ToldCalls
      BY <1>1 DEF FeedInv, FeedType, PredRow
    <2>2. \A d \in ToldCalls : (Consumes(d, p)' <=> Consumes(d, p)) /\ (d # c => receipt'[d].stage = receipt[d].stage)
      BY <1>1, <1>2, <2>1 DEF Consumes
    <2>3. pred[p].stage # "open" => c \notin pred[p].asked
      BY <1>1, <2>1 DEF PredTrue
    <2>4. QED
      BY <1>1, <1>2, <2>1, <2>2, <2>3 DEF PredTrue
  <1>9. QED
    BY <1>3, <1>4, <1>6, <1>7, <1>8 DEF FeedInv

LEMMA AttachKeeps ==
  ASSUME FeedInv, NEW p \in Predictions, Attach(p)
  PROVE  FeedInv'
  <1>1. PICK x \in Producers : pred' = [pred EXCEPT ![p] = [pred[p] EXCEPT !.producers = pred[p].producers \cup {x}]]
    BY DEF Attach
  <1>2. /\ pred[p].stage = "open" /\ closing = "open" /\ pred[p] \in PredRow
        /\ UNCHANGED <<receipt, pending, delivering, published, closing>>
    BY DEF Attach, FeedInv, FeedType
  <1>3. /\ pred' \in [Predictions -> PredRow] /\ pred'[p].stage = "open" /\ pred'[p].served = pred[p].served
        /\ pred[p].producers \subseteq pred'[p].producers
        /\ \A q \in Predictions \ {p} : pred'[q] = pred[q]
    BY <1>1, <1>2 DEF FeedInv, FeedType, PredRow
  <1>4. FeedType'
    BY <1>2, <1>3 DEF FeedInv, FeedType
  <1>5. HeadFirst' /\ ClosingTrue'
    BY <1>2 DEF FeedInv, HeadFirst, ClosingTrue
  <1>6. Onward
    BY <1>2, <1>3 DEF Onward
  <1>7. LogInv'
    BY <1>2, <1>3, <1>4, <1>6, QuietLog
  <1>8. ASSUME NEW d \in ToldCalls PROVE ReceiptTrue(d)'
    BY <1>2 DEF FeedInv, ReceiptTrue
  <1>9. ASSUME NEW q \in Predictions PROVE PredTrue(q)'
    <2>1. CASE q = p
      <3>1. \A c \in ToldCalls : Consumes(c, p) => Consumes(c, p)'
        BY <1>2, <1>3 DEF Consumes
      <3>2. pred[p].served => \E c \in ToldCalls : receipt[c].stage = "settled" /\ Consumes(c, p)
        BY DEF FeedInv, PredTrue
      <3>3. QED
        BY <1>2, <1>3, <2>1, <3>1, <3>2 DEF PredTrue
    <2>2. CASE q # p
      BY <1>2, <1>3, <2>2 DEF FeedInv, PredTrue, Consumes
    <2>3. QED
      BY <2>1, <2>2
  <1>10. QED
    BY <1>4, <1>5, <1>7, <1>8, <1>9 DEF FeedInv

LEMMA SettlePredictionKeeps ==
  ASSUME FeedInv, NEW p \in Predictions, SettlePrediction(p)
  PROVE  FeedInv'
  <1> DEFINE asked == IF pred[p].served \/ pred[p].producers = {} THEN {} ELSE OpenCalls
             stage == IF asked = {} THEN "decided" ELSE "waiting"
  <1>1. /\ pred[p].stage = "open" /\ pred[p] \in PredRow
        /\ pred' = [pred EXCEPT ![p] = [pred[p] EXCEPT !.asked = asked, !.stage = stage]]
        /\ UNCHANGED <<receipt, pending, delivering, published, closing>>
    BY DEF SettlePrediction, FeedInv, FeedType
  <1>2. asked \in SUBSET ToldCalls /\ (\A c \in asked : receipt[c].stage = "open") /\ (asked # {} => ~pred[p].served)
    BY DEF OpenCalls
  <1>3. stage \in {"decided", "waiting"} /\ (asked = {} <=> stage = "decided")
    OBVIOUS
  <1> HIDE DEF asked, stage
  <1>4. /\ pred' \in [Predictions -> PredRow] /\ pred'[p].stage = stage /\ pred'[p].asked = asked
        /\ pred'[p].served = pred[p].served /\ pred'[p].producers = pred[p].producers
        /\ \A q \in Predictions \ {p} : pred'[q] = pred[q]
    BY <1>1, <1>2, <1>3 DEF FeedInv, FeedType, PredRow
  <1>5. FeedType'
    BY <1>1, <1>4 DEF FeedInv, FeedType
  <1>6. HeadFirst' /\ ClosingTrue'
    BY <1>1 DEF FeedInv, HeadFirst, ClosingTrue
  <1>7. Onward
    BY <1>1, <1>4 DEF Onward
  <1>8. LogInv'
    BY <1>1, <1>3, <1>4, <1>5, <1>7, QuietLog
  <1>9. ASSUME NEW d \in ToldCalls PROVE ReceiptTrue(d)'
    BY <1>1 DEF FeedInv, ReceiptTrue
  <1>10. ASSUME NEW q \in Predictions PROVE PredTrue(q)'
    <2>1. CASE q = p
      <3>1. \A c \in ToldCalls : Consumes(c, p) <=> Consumes(c, p)'
        BY <1>1, <1>4 DEF Consumes
      <3>2. pred[p].served => \E c \in ToldCalls : receipt[c].stage = "settled" /\ Consumes(c, p)
        BY DEF FeedInv, PredTrue
      <3>3. \A c \in asked : ~Consumes(c, p)
        BY <1>2 DEF FeedInv, ReceiptTrue, Consumes
      <3>4. QED
        BY <1>1, <1>2, <1>3, <1>4, <2>1, <3>1, <3>2, <3>3 DEF PredTrue
    <2>2. CASE q # p
      BY <1>1, <1>4, <2>2 DEF FeedInv, PredTrue, Consumes
    <2>3. QED
      BY <2>1, <2>2
  <1>11. QED
    BY <1>5, <1>6, <1>8, <1>9, <1>10 DEF FeedInv

LEMMA Enqueued ==
  ASSUME FeedInv, NEW task \in Tasks, Enqueue(task), published' = published
  PROVE  pending' \in Seq(Tasks) /\ HeadFirst' /\ Log' = Append(Log, task)
  <1>1. pending \in Seq(Tasks) /\ published \in Seq(Tasks) /\ pending' = Append(pending, task) /\ HeadFirst
    BY DEF FeedInv, FeedType, Enqueue
  <1>2. pending' \in Seq(Tasks) /\ Len(pending') = Len(pending) + 1 /\ Len(pending) \in Nat /\ pending'[Len(pending) + 1] = task
    BY <1>1
  <1>3. Log' = Append(Log, task)
    BY <1>1 DEF Log
  <1>4. CASE pending = <<>>
    <2>1. Len(pending) = 0 /\ {<<task>>[i] : i \in 1..Len(<<task>>)} = {task}
      BY <1>4
    <2>2. delivering' = {task}
      BY <1>4, <2>1 DEF Enqueue, Begun
    <2>3. QED
      BY <1>2, <1>3, <2>1, <2>2 DEF HeadFirst
  <1>5. CASE pending # <<>>
    <2>1. Len(pending) # 0 /\ delivering' = delivering
      BY <1>1, <1>5 DEF Enqueue, Begun
    <2>2. pending'[1] = pending[1]
      BY <1>1, <2>1
    <2>3. QED
      BY <1>1, <1>2, <1>3, <2>1, <2>2 DEF HeadFirst
  <1>6. QED
    BY <1>4, <1>5

LEMMA SettleCallKeeps ==
  ASSUME FeedInv, NEW c \in ToldCalls, SettleCall(c)
  PROVE  FeedInv'
  <1>1. PICK reused \in SUBSET Producers :
          receipt' = [receipt EXCEPT ![c] = [stage |-> "settled", reused |-> reused]] /\ Receipts({c}, reused)
    BY DEF SettleCall
  <1>2. receipt[c].stage = "open" /\ Enqueue(Settled(c)) /\ UNCHANGED <<published, closing>>
    BY DEF SettleCall
  <1> DEFINE S == {c}
  <1>3. S \in SUBSET ToldCalls /\ S # {} /\ (\A d \in S : receipt[d].stage = "open") /\ Receipts(S, reused)
    BY <1>1, <1>2
  <1>4. receipt' = [d \in ToldCalls |-> IF d \in S THEN [stage |-> "settled", reused |-> reused] ELSE receipt[d]]
    BY <1>1 DEF FeedInv, FeedType
  <1>5. \A d \in ToldCalls \ {c} : receipt'[d] = receipt[d]
    BY <1>4
  <1>6. receipt'[c].stage = "settled"
    BY <1>4
  <1> HIDE DEF S
  <1>7. /\ receipt' \in [ToldCalls -> ReceiptRow] /\ pred' \in [Predictions -> PredRow]
        /\ Onward /\ (\A d \in ToldCalls : ReceiptTrue(d)') /\ (\A p \in Predictions : PredTrue(p)')
        /\ \A p \in Predictions : pred'[p].stage = "queued" => pred[p].stage = "queued"
    BY <1>3, <1>4, ReceiptsKeep
  <1>8. Settled(c) \in Tasks
    BY TasksTold
  <1>9. pending' \in Seq(Tasks) /\ HeadFirst' /\ Log' = Append(Log, Settled(c))
    BY <1>2, <1>8, Enqueued
  <1>10. FeedType'
    BY <1>2, <1>7, <1>9 DEF FeedInv, FeedType
  <1>11. LogInv'
    BY <1>2, <1>5, <1>6, <1>7, <1>8, <1>9, <1>10, LogGrows
  <1>12. closing = "open"
    BY <1>2 DEF FeedInv, ClosingTrue
  <1>13. ClosingTrue'
    BY <1>2, <1>12 DEF ClosingTrue
  <1>14. QED
    BY <1>7, <1>9, <1>10, <1>11, <1>13 DEF FeedInv

\* Calls that end unsettled, each with an empty receipt.
LEMMA UnsettledKeeps ==
  ASSUME FeedInv, NEW S \in SUBSET OpenCalls, Unsettled(S), UNCHANGED <<pending, delivering, published>>,
         closing' \in {"open", "closing", "closed"}
  PROVE  /\ FeedType' /\ HeadFirst' /\ LogInv'
         /\ (\A c \in ToldCalls : ReceiptTrue(c)') /\ (\A p \in Predictions : PredTrue(p)')
         /\ \A p \in Predictions : pred'[p].stage = "open" => pred[p].stage = "open"
         /\ \A c \in ToldCalls : receipt'[c].stage = "open" => receipt[c].stage = "open" /\ c \notin S
  <1>1. S \in SUBSET ToldCalls /\ (\A c \in S : receipt[c].stage = "open") /\ Receipts(S, {})
    BY DEF OpenCalls, Unsettled
  <1>2. receipt' = [c \in ToldCalls |-> IF c \in S THEN [stage |-> "failed", reused |-> {}] ELSE receipt[c]]
    BY DEF Unsettled
  <1>3. \A c \in ToldCalls : IF c \in S THEN receipt'[c].stage = "failed" ELSE receipt'[c] = receipt[c]
    BY <1>2
  <1>4. /\ receipt' \in [ToldCalls -> ReceiptRow] /\ pred' \in [Predictions -> PredRow]
        /\ Onward /\ (\A c \in ToldCalls : ReceiptTrue(c)') /\ (\A p \in Predictions : PredTrue(p)')
        /\ \A p \in Predictions : /\ pred'[p].stage = "queued" => pred[p].stage = "queued"
                                  /\ pred'[p].stage = "open" => pred[p].stage = "open"
    BY <1>1, <1>2, ReceiptsKeep
  <1>5. FeedType'
    BY <1>4 DEF FeedInv, FeedType
  <1>6. HeadFirst'
    BY DEF FeedInv, HeadFirst
  <1>7. LogInv'
    BY <1>3, <1>4, <1>5, QuietLog
  <1>8. QED
    BY <1>3, <1>4, <1>5, <1>6, <1>7

LEMMA FailCallKeeps ==
  ASSUME FeedInv, NEW c \in ToldCalls, FailCall(c)
  PROVE  FeedInv'
  <1>1. {c} \in SUBSET OpenCalls /\ Unsettled({c}) /\ UNCHANGED <<pending, delivering, published, closing>>
    BY DEF FailCall
  <1>2. receipt[c].stage = "open"
    BY DEF FailCall, OpenCalls
  <1>3. closing = "open" /\ closing' = closing
    BY <1>1, <1>2 DEF FeedInv, ClosingTrue
  <1>4. /\ FeedType' /\ HeadFirst' /\ LogInv'
        /\ (\A d \in ToldCalls : ReceiptTrue(d)') /\ (\A p \in Predictions : PredTrue(p)')
    BY <1>1, <1>3, UnsettledKeeps
  <1>5. ClosingTrue'
    BY <1>3 DEF ClosingTrue
  <1>6. QED
    BY <1>4, <1>5 DEF FeedInv

LEMMA CloseTurnsKeeps ==
  ASSUME FeedInv, CloseTurns
  PROVE  FeedInv'
  <1>1. /\ OpenCalls \in SUBSET OpenCalls /\ Unsettled(OpenCalls) /\ UNCHANGED <<pending, delivering, published>>
        /\ closing' = "closing" /\ \A p \in Predictions : pred[p].stage # "open"
    BY DEF CloseTurns
  <1>2. /\ FeedType' /\ HeadFirst' /\ LogInv'
        /\ (\A d \in ToldCalls : ReceiptTrue(d)') /\ (\A p \in Predictions : PredTrue(p)')
        /\ \A p \in Predictions : pred'[p].stage = "open" => pred[p].stage = "open"
        /\ \A c \in ToldCalls : receipt'[c].stage = "open" => receipt[c].stage = "open" /\ c \notin OpenCalls
    BY <1>1, UnsettledKeeps
  <1>3. ClosingTrue'
    BY <1>1, <1>2 DEF ClosingTrue, OpenCalls
  <1>4. QED
    BY <1>2, <1>3 DEF FeedInv

LEMMA FeedBackKeeps ==
  ASSUME FeedInv, NEW p \in Predictions, FeedBack(p)
  PROVE  FeedInv'
  <1> DEFINE task == Feedback(p, pred[p].served)
  <1>1. /\ pred[p].stage = "decided" /\ pred' = [pred EXCEPT ![p] = [pred[p] EXCEPT !.stage = "queued"]]
        /\ Enqueue(task) /\ UNCHANGED <<receipt, published, closing>> /\ pred[p] \in PredRow
    BY DEF FeedBack, FeedInv, FeedType
  <1>2. task \in Tasks
    BY <1>1, TasksTold DEF PredRow
  <1>0. task = Feedback(p, pred[p].served)
    OBVIOUS
  <1> HIDE DEF task
  <1>3. pending' \in Seq(Tasks) /\ HeadFirst' /\ Log' = Append(Log, task)
    BY <1>1, <1>2, Enqueued
  <1>4. /\ pred' \in [Predictions -> PredRow] /\ pred'[p].stage = "queued" /\ pred'[p].asked = pred[p].asked
        /\ pred'[p].served = pred[p].served /\ pred'[p].producers = pred[p].producers
        /\ \A q \in Predictions \ {p} : pred'[q] = pred[q]
    BY <1>1 DEF FeedInv, FeedType, PredRow
  <1>5. FeedType'
    BY <1>1, <1>3, <1>4 DEF FeedInv, FeedType
  <1>6. ClosingTrue'
    BY <1>1, <1>4 DEF FeedInv, ClosingTrue
  <1>7. Onward
    BY <1>1, <1>4 DEF Onward
  <1>8. LogInv'
    <2>1. /\ task = Feedback(p, pred[p].served) /\ pred[p].stage # "queued" /\ pred'[p].stage = "queued"
          /\ pred'[p].served = pred[p].served
          /\ \A q \in Predictions \ {p} : pred'[q].stage = "queued" => pred[q].stage = "queued"
      BY <1>0, <1>1, <1>4
    <2>2. \A c \in ToldCalls : receipt'[c].stage = "settled" => receipt[c].stage = "settled"
      BY <1>1
    <2>3. QED
      BY <1>2, <1>3, <1>5, <1>7, <2>1, <2>2, LogGrows
  <1>9. ASSUME NEW d \in ToldCalls PROVE ReceiptTrue(d)'
    BY <1>1 DEF FeedInv, ReceiptTrue
  <1>10. ASSUME NEW q \in Predictions PROVE PredTrue(q)'
    <2>1. PredTrue(q)
      BY DEF FeedInv
    <2>2. \A c \in ToldCalls : Consumes(c, q) <=> Consumes(c, q)'
      BY <1>1, <1>4 DEF Consumes
    <2>3. pred'[q].asked = pred[q].asked /\ pred'[q].served = pred[q].served /\ pred[q].asked \subseteq ToldCalls
      BY <1>4 DEF FeedInv, FeedType, PredRow
    <2>4. (q = p /\ pred'[q].stage = "queued") \/ pred'[q].stage = pred[q].stage
      BY <1>4
    <2>5. QED
      BY <1>1, <2>1, <2>2, <2>3, <2>4 DEF PredTrue
  <1>11. QED
    BY <1>3, <1>5, <1>6, <1>8, <1>9, <1>10 DEF FeedInv
\* What was first of what waits is told, and the rest waits on.
LEMMA DeliverKeeps ==
  ASSUME FeedInv, NEW task \in delivering, Deliver(task)
  PROVE  FeedInv'
  <1>1. PICK i \in DOMAIN pending : pending[i] = task /\ pending' = RemoveAt(pending, i)
    BY DEF Deliver
  <1>2. /\ delivering' = (delivering \ {task}) \cup (IF pending' = <<>> THEN {} ELSE {Head(pending')})
        /\ published' = Append(published, task) /\ UNCHANGED <<receipt, pred, closing>>
    BY DEF Deliver
  <1>3. /\ pending \in Seq(Tasks) /\ published \in Seq(Tasks) /\ Len(pending) \in Nat /\ Len(published) \in Nat
        /\ Len(pending) # 0 /\ task = pending[1] /\ delivering = {task} /\ i \in 1..Len(pending)
    BY DEF FeedInv, FeedType, HeadFirst
  <1>4. i = 1
    <2>1. Len(published) + 1 \in Spots /\ Len(published) + i \in Spots
      BY <1>3, LogTyped DEF FeedInv, Spots
    <2>2. Log[Len(published) + 1] = task /\ Log[Len(published) + i] = task
      BY <1>1, <1>3, LogTyped DEF FeedInv
    <2>3. Len(published) + 1 = Len(published) + i
      BY <2>1, <2>2 DEF FeedInv, LogInv, LogOnce
    <2>4. QED
      BY <1>3, <2>3
  <1>5. /\ task \in Tasks /\ pending' \in Seq(Tasks) /\ Len(pending') = Len(pending) - 1
        /\ \A k \in 1..Len(pending') : pending'[k] = pending[k + 1]
    <2>1. pending' = SubSeq(pending, 1, 0) \o SubSeq(pending, 2, Len(pending))
      BY <1>1, <1>3, <1>4 DEF RemoveAt
    <2>2. SubSeq(pending, 1, 0) \in Seq(Tasks) /\ Len(SubSeq(pending, 1, 0)) = 0
      BY <1>3
    <2>3. /\ SubSeq(pending, 2, Len(pending)) \in Seq(Tasks) /\ Len(SubSeq(pending, 2, Len(pending))) = Len(pending) - 1
          /\ \A k \in 1..(Len(pending) - 1) : SubSeq(pending, 2, Len(pending))[k] = pending[k + 1]
      <3> DEFINE n == Len(pending)
                 t == SubSeq(pending, 2, n)
      <3>1. 2 \in Int /\ n \in Int /\ \A k \in 2..n : pending[k] \in Tasks
        BY <1>3
      <3>2. t \in Seq(Tasks) /\ Len(t) = (IF 2 <= n THEN n - 2 + 1 ELSE 0) /\ \A k \in 1..(n - 2 + 1) : t[k] = pending[2 + k - 1]
        BY <3>1, SubSeqProperties
      <3> HIDE DEF t
      <3>0. n \in Nat /\ n # 0
        BY <1>3
      <3> HIDE DEF n
      <3>3. Len(t) = n - 1
        BY <3>0, <3>2
      <3>4. ASSUME NEW k \in 1..(n - 1) PROVE t[k] = pending[k + 1]
        <4>1. k \in 1..(n - 2 + 1) /\ 2 + k - 1 = k + 1
          BY <3>0
        <4>2. QED
          BY <3>2, <4>1
      <3>5. QED
        BY <3>2, <3>3, <3>4 DEF n, t
    <2>4. QED
      BY <1>3, <2>1, <2>2, <2>3
  <1>6. Log' = Log
    <2>1. published' \in Seq(Tasks) /\ Len(published') = Len(published) + 1 /\ published'[Len(published) + 1] = task
          /\ \A k \in 1..Len(published) : published'[k] = published[k]
      BY <1>2, <1>3, <1>5
    <2>2. /\ Log' \in Seq(Tasks) /\ Len(Log') = Len(published) + Len(pending)
          /\ \A k \in 1..Len(Log') : Log'[k] = IF k <= Len(published') THEN published'[k] ELSE pending'[k - Len(published')]
      <3>1. Log' = published' \o pending'
        BY DEF Log
      <3>2. /\ Log' \in Seq(Tasks) /\ Len(Log') = Len(published') + Len(pending')
            /\ \A k \in 1..(Len(published') + Len(pending')) :
                 Log'[k] = IF k <= Len(published') THEN published'[k] ELSE pending'[k - Len(published')]
        BY <1>5, <2>1, <3>1, ConcatProperties
      <3>3. QED
        BY <1>3, <1>5, <2>1, <3>2
    <2>3. /\ Log \in Seq(Tasks) /\ Len(Log) = Len(published) + Len(pending)
          /\ \A k \in 1..Len(Log) : Log[k] = IF k <= Len(published) THEN published[k] ELSE pending[k - Len(published)]
      BY <1>3, ConcatProperties DEF Log
    <2>4. ASSUME NEW k \in 1..Len(Log') PROVE Log'[k] = Log[k]
      <3>0. k \in Nat /\ k >= 1 /\ k <= Len(published) + Len(pending) /\ k \in 1..Len(Log)
        BY <1>3, <2>2, <2>3
      <3>1. CASE k <= Len(published)
        <4>1. k <= Len(published') /\ k \in 1..Len(published)
          BY <1>3, <2>1, <3>0, <3>1
        <4>2. Log'[k] = published'[k]
          BY <2>2, <4>1
        <4>3. Log[k] = published[k]
          BY <2>3, <3>0, <3>1
        <4>4. QED
          BY <2>1, <4>1, <4>2, <4>3
      <3>2. CASE k = Len(published) + 1
        <4>1. k <= Len(published') /\ ~(k <= Len(published)) /\ k - Len(published) = 1
          BY <1>3, <2>1, <3>0, <3>2
        <4>2. Log'[k] = task
          BY <2>1, <2>2, <3>2, <4>1
        <4>3. Log[k] = pending[1]
          BY <2>3, <3>0, <4>1
        <4>4. QED
          BY <1>3, <4>2, <4>3
      <3>3. CASE k > Len(published) + 1
        <4>1. k - Len(published') \in 1..Len(pending') /\ k - Len(published') + 1 = k - Len(published)
          BY <1>3, <1>5, <2>1, <3>0, <3>3
        <4>5. ~(k <= Len(published')) /\ ~(k <= Len(published))
          BY <1>3, <2>1, <3>0, <3>3
        <4>2. Log'[k] = pending'[k - Len(published')]
          BY <2>2, <4>5
        <4>3. Log[k] = pending[k - Len(published)]
          BY <2>3, <3>0, <4>5
        <4>4. QED
          BY <1>5, <4>1, <4>2, <4>3
      <3>4. QED
        BY <1>3, <3>0, <3>1, <3>2, <3>3
    <2>5. QED
      BY <2>2, <2>3, <2>4, SeqEqual
  <1>7. FeedType'
    <2>1. published' \in Seq(Tasks)
      BY <1>2, <1>3, <1>5
    <2>2. QED
      BY <1>2, <1>5, <2>1 DEF FeedInv, FeedType
  <1>8. Onward
    BY <1>2 DEF Onward
  <1>9. LogInv'
    BY <1>2, <1>6, <1>7, <1>8, LogStays
  <1>10. HeadFirst'
    <2>1. delivering' = IF pending' = <<>> THEN {} ELSE {Head(pending')}
      BY <1>2, <1>3
    <2>2. pending' = <<>> <=> Len(pending') = 0
      BY <1>5
    <2>3. QED
      BY <1>5, <2>1, <2>2 DEF HeadFirst
  <1>11. ClosingTrue'
    BY <1>2, <1>3 DEF FeedInv, ClosingTrue
  <1>12. (\A c \in ToldCalls : ReceiptTrue(c)') /\ (\A p \in Predictions : PredTrue(p)')
    BY <1>2 DEF FeedInv, ReceiptTrue, PredTrue, Consumes
  <1>13. QED
    BY <1>7, <1>9, <1>10, <1>11, <1>12 DEF FeedInv

\* An optional event, the end of the session, or nothing at all.
LEMMA QuietKeeps ==
  ASSUME FeedInv, UNCHANGED <<receipt, pred, pending, delivering, published>>,
         closing' = closing \/ (closing = "closing" /\ closing' = "closed" /\ AllTold)
  PROVE  FeedInv'
  <1>1. FeedType'
    BY DEF FeedInv, FeedType
  <1>2. Onward
    BY DEF Onward
  <1>3. LogInv'
    BY <1>1, <1>2, QuietLog
  <1>4. HeadFirst' /\ (\A c \in ToldCalls : ReceiptTrue(c)') /\ (\A p \in Predictions : PredTrue(p)')
    BY DEF FeedInv, HeadFirst, ReceiptTrue, PredTrue, Consumes
  <1>5. ClosingTrue'
    BY DEF FeedInv, ClosingTrue, AllTold
  <1>6. QED
    BY <1>1, <1>3, <1>4, <1>5 DEF FeedInv

\* What has been told, what waits, what each call consumed and what each prediction is said to have
\* been worth agree at every step (PostSettlementQueue, queueActorSettlement, predictionSettled).
THEOREM FeedInvariance == FeedSpec => []FeedInv
  <1>1. FeedInit => FeedInv
    <2> SUFFICES ASSUME FeedInit PROVE FeedInv
      OBVIOUS
    <2>1. receipt \in [ToldCalls -> ReceiptRow] /\ \A c \in ToldCalls : receipt[c].stage = "none" /\ receipt[c].reused = {}
      BY DEF FeedInit, ReceiptRow
    <2>2. pred \in [Predictions -> PredRow] /\ \A p \in Predictions : pred[p].stage = "open" /\ ~pred[p].served
      BY DEF FeedInit, PredRow
    <2>3. pending = <<>> /\ published = <<>> /\ delivering = {} /\ closing = "open" /\ pending \in Seq(Tasks) /\ published \in Seq(Tasks)
      BY DEF FeedInit
    <2>4. FeedType /\ HeadFirst /\ ClosingTrue
      BY <2>1, <2>2, <2>3 DEF FeedType, HeadFirst, ClosingTrue
    <2>5. Spots = {}
      BY <2>3 DEF Spots, Log
    <2>6. LogInv
      BY <2>1, <2>2, <2>5 DEF LogInv, LogOnce, LogTrue, LogWhole, LogOrdered
    <2>7. (\A c \in ToldCalls : ReceiptTrue(c)) /\ (\A p \in Predictions : PredTrue(p))
      BY <2>1, <2>2 DEF ReceiptTrue, PredTrue
    <2>8. QED
      BY <2>4, <2>6, <2>7 DEF FeedInv
  <1>2. FeedInv /\ [FeedNext]_feedVars => FeedInv'
    <2> SUFFICES ASSUME FeedInv, [FeedNext]_feedVars PROVE FeedInv'
      OBVIOUS
    <2>1. CASE \E c \in ToldCalls : Issue(c) \/ SettleCall(c) \/ FailCall(c)
      BY <2>1, IssueKeeps, SettleCallKeeps, FailCallKeeps
    <2>2. CASE \E p \in Predictions : Attach(p) \/ SettlePrediction(p) \/ FeedBack(p)
      BY <2>2, AttachKeeps, SettlePredictionKeeps, FeedBackKeeps
    <2>3. CASE \E task \in delivering : Deliver(task)
      BY <2>3, DeliverKeeps
    <2>4. CASE DeliverEvent
      BY <2>4, QuietKeeps DEF DeliverEvent
    <2>5. CASE CloseTurns
      BY <2>5, CloseTurnsKeeps
    <2>6. CASE CloseEffects
      BY <2>6, QuietKeeps DEF CloseEffects
    <2>7. CASE UNCHANGED feedVars
      BY <2>7, QuietKeeps DEF feedVars
    <2>8. QED
      BY <2>1, <2>2, <2>3, <2>4, <2>5, <2>6, <2>7 DEF FeedNext
  <1>3. QED
    BY <1>1, <1>2, PTL DEF FeedSpec

LEMMA FeedTells ==
  ASSUME FeedInv
  PROVE  LearnsTruth /\ ToldInOrder /\ LearningLossless
  <1> DEFINE n == Len(published)
  <1>1. /\ FeedType /\ LogInv /\ n \in Nat /\ Len(pending) \in Nat /\ Len(Log) = n + Len(pending)
        /\ \A i \in 1..n : i \in Spots /\ Log[i] = published[i]
    BY LogTyped DEF FeedInv, Spots
  <1> HIDE DEF n
  <1>2. ASSUME NEW i \in 1..n, published[i][1] = "feedback"
        PROVE  \E p \in Predictions : published[i] = Feedback(p, pred[p].served) /\ pred[p].stage = "queued"
    <2>1. \A c \in ToldCalls : Log[i] # Settled(c)
      BY <1>1, <1>2, TasksTold
    <2>2. QED
      BY <1>1, <2>1 DEF LogInv, LogTrue
  <1>3. \A p \in Predictions : pred[p].served \in BOOLEAN /\ PredTrue(p)
    BY DEF FeedInv, FeedType, PredRow
  <1>4. LearnsTruth
    <2> SUFFICES ASSUME NEW i \in 1..n, published[i][1] = "feedback"
                 PROVE  IF published[i][3] THEN \E c \in ToldCalls : receipt[c].reused \cap pred[published[i][2]].producers # {}
                        ELSE \A c \in pred[published[i][2]].asked : receipt[c].stage # "open" /\ receipt[c].reused \cap pred[published[i][2]].producers = {}
      BY DEF LearnsTruth, n
    <2>1. PICK p \in Predictions : published[i] = Feedback(p, pred[p].served) /\ pred[p].stage = "queued"
      BY <1>2
    <2>2. published[i][2] = p /\ published[i][3] = pred[p].served
      BY <1>3, <2>1, TasksTold
    <2>3. CASE pred[p].served
      BY <1>3, <2>2, <2>3 DEF PredTrue, Consumes
    <2>4. CASE ~pred[p].served
      BY <1>3, <2>1, <2>2, <2>4 DEF PredTrue, Consumes
    <2>5. QED
      BY <2>3, <2>4
  <1>5. ToldInOrder
    <2>1. \A i, j \in 1..n : i # j => published[i] # published[j]
      BY <1>1 DEF LogInv, LogOnce
    <2>2. Cardinality(delivering) <= 1
      <3>1. delivering = {} \/ \E x : delivering = {x}
        BY DEF FeedInv, HeadFirst
      <3>2. QED
        <4>1. CASE delivering = {}
          BY <4>1, FS_EmptySet
        <4>2. CASE \E x : delivering = {x}
          <5>1. PICK x : delivering = {x}
            BY <4>2
          <5>2. Cardinality({x}) = 1
            BY FS_Singleton
          <5>3. QED
            BY <5>1, <5>2
        <4>3. QED
          BY <3>1, <4>1, <4>2
    <2>3. ASSUME NEW i \in 1..n, published[i][1] = "feedback", published[i][3]
          PROVE  \E j \in 1..(i - 1) : published[j][1] = "settled" /\ receipt[published[j][2]].reused \cap pred[published[i][2]].producers # {}
      <3>1. PICK p \in Predictions : published[i] = Feedback(p, pred[p].served) /\ pred[p].stage = "queued"
        BY <1>2, <2>3
      <3>2. published[i][2] = p /\ published[i][3] = pred[p].served
        BY <1>3, <3>1, TasksTold
      <3>3. Log[i] = Feedback(p, TRUE)
        BY <1>1, <1>3, <2>3, <3>1, <3>2
      <3>4. PICK k \in Spots, c \in ToldCalls : k < i /\ Log[k] = Settled(c) /\ Consumes(c, p)
        BY <1>1, <3>3 DEF LogInv, LogOrdered
      <3>5. k \in 1..(i - 1) /\ k \in 1..n
        BY <1>1, <3>4 DEF Spots
      <3>6. published[k] = Settled(c)
        BY <1>1, <3>4, <3>5
      <3>7. QED
        BY <3>2, <3>4, <3>5, <3>6, TasksTold DEF Consumes
    <2>4. QED
      BY <2>1, <2>2, <2>3 DEF ToldInOrder, n
  <1>6. LearningLossless
    <2> SUFFICES ASSUME closing = "closed"
                 PROVE  /\ \A c \in ToldCalls : receipt[c].stage = "settled" => \E i \in 1..n : published[i] = Settled(c)
                        /\ \A p \in Predictions : \E i \in 1..n : published[i] = Feedback(p, pred[p].served)
      BY DEF LearningLossless, n
    <2>1. Len(pending) = 0 /\ \A p \in Predictions : pred[p].stage = "queued"
      BY DEF FeedInv, ClosingTrue
    <2>2. Spots = 1..n
      BY <1>1, <2>1 DEF Spots
    <2>3. QED
      BY <1>1, <2>1, <2>2 DEF LogInv, LogWhole
  <1>7. QED
    BY <1>4, <1>5, <1>6

-----------------------------------------------------------------------------
(* Execution worlds: where a call may be, and on what.                      *)

WorldStages == Underway \cup {"idle", "routed", "done"}
Prints == 0..2
WorldRow == [active : BOOLEAN, enabled : BOOLEAN, print : Prints, closed : BOOLEAN]
CallRow == [pc : WorldStages, at : Nat, suits : SUBSET Worlds, whole : SUBSET Worlds, seen : SUBSET Prints]
RouteRow == [world : Worlds \cup {NoWorld}, print : Prints]

WorldsType ==
  /\ world \in [Worlds -> WorldRow] /\ lane \in {"open", "sealed", "closed"}
  /\ worldCall \in [WorldCalls -> CallRow] /\ route \in [WorldCalls -> RouteRow]

\* What is true of a call where it stands: the world it deals with is one of the router's; what runs
\* has heard its route's fingerprint since its fork began.
Placed(c) ==
  /\ worldCall[c].pc \in {"idle", "select", "verify", "prepare"} => route[c] = NoRoute
  /\ worldCall[c].pc \in {"verify", "prepare"} => worldCall[c].at \in DOMAIN Order
  /\ worldCall[c].pc = "prepare" => worldCall[c].seen # {}
  /\ worldCall[c].pc \in {"capture", "routed", "requalify", "running"} => route[c].world \in Worlds
  /\ worldCall[c].pc = "running" /\ route[c].world \in Registered => route[c].print \in worldCall[c].seen /\ route[c].print # 0

\* A world is closed by the router's disposal only, which has waited for what was under way.
ClosedLast ==
  /\ \A w \in Worlds : world[w].closed => lane = "closed"
  /\ lane = "closed" => \A c \in WorldCalls : worldCall[c].pc \notin Underway

WorldsInv == WorldsType /\ ClosedLast /\ \A c \in WorldCalls : Placed(c)


LEMMA OrderKnown == DOMAIN Order \subseteq Nat /\ \A i \in DOMAIN Order : Order[i] \in Worlds
  <1>1. Order \in Seq(Worlds)
    BY WorldsSetting DEF Order
  <1>2. QED
    BY <1>1

LEMMA RoutesTyped == NoRoute \in RouteRow /\ Idle \in CallRow /\ [Idle EXCEPT !.pc = "done"] \in CallRow
  BY DEF NoRoute, RouteRow, Prints, Idle, CallRow, WorldStages, Underway

\* A step of one call.
LEMMA OneCall ==
  ASSUME WorldsInv, NEW c \in WorldCalls, NEW row \in CallRow, NEW r \in RouteRow,
         worldCall' = [worldCall EXCEPT ![c] = row], route' = [route EXCEPT ![c] = r], UNCHANGED <<world, lane>>,
         row.pc \in Underway => lane # "closed",
         Placed(c)'
  PROVE  WorldsInv'
  <1>1. WorldsType'
    BY DEF WorldsInv, WorldsType
  <1>2. worldCall'[c] = row /\ \A d \in WorldCalls \ {c} : worldCall'[d] = worldCall[d] /\ route'[d] = route[d]
    BY DEF WorldsInv, WorldsType
  <1>3. ClosedLast'
    BY <1>2 DEF WorldsInv, ClosedLast
  <1>4. \A d \in WorldCalls : Placed(d)'
    BY <1>2 DEF WorldsInv, Placed
  <1>5. QED
    BY <1>1, <1>3, <1>4 DEF WorldsInv

\* The answer of a call, which keeps nothing.
LEMMA FinishesKeep == ASSUME WorldsInv, NEW c \in WorldCalls, Finishes(c), UNCHANGED <<world, lane>> PROVE WorldsInv'
  <1> DEFINE row == [Idle EXCEPT !.pc = "done"]
  <1>1. row.pc = "done"
    BY DEF Idle
  <1>2. worldCall'[c] = row /\ route'[c] = NoRoute
    BY DEF Finishes, WorldsInv, WorldsType
  <1>3. Placed(c)'
    BY <1>1, <1>2 DEF Placed
  <1>4. row.pc \notin Underway
    BY <1>1 DEF Underway
  <1>5. QED
    BY <1>3, <1>4, OneCall, RoutesTyped DEF Finishes

\* A world left out: the call goes on with the next.
LEMMA SkipKeeps ==
  ASSUME WorldsInv, NEW c \in WorldCalls, worldCall[c].pc \in Underway, Skipped(c), UNCHANGED <<world, lane>>
  PROVE  WorldsInv'
  <1> DEFINE row == [[[worldCall[c] EXCEPT !.pc = "select"] EXCEPT !.at = worldCall[c].at + 1] EXCEPT !.seen = {}]
  <1>1. worldCall[c] \in CallRow
    BY DEF WorldsInv, WorldsType
  <1>2. row \in CallRow /\ row.pc = "select"
    <2>1. worldCall[c].at + 1 \in Nat
      BY <1>1 DEF CallRow
    <2>2. QED
      BY <1>1, <2>1 DEF CallRow, WorldStages, Underway
  <1>3. worldCall' = [worldCall EXCEPT ![c] = row] /\ route' = [route EXCEPT ![c] = NoRoute]
    BY DEF Skipped
  <1>4. worldCall'[c] = row /\ route'[c] = NoRoute
    BY <1>3 DEF WorldsInv, WorldsType
  <1>5. Placed(c)'
    BY <1>2, <1>4 DEF Placed
  <1>6. lane # "closed"
    BY DEF WorldsInv, ClosedLast
  <1>7. QED
    BY <1>2, <1>3, <1>5, <1>6, OneCall, RoutesTyped

\* Another step of a call that is under way: its route stays or is known to be r.
LEMMA MoveKeeps ==
  ASSUME WorldsInv, NEW c \in WorldCalls, NEW row \in CallRow, NEW r \in RouteRow,
         worldCall[c].pc \in Underway \/ lane = "open",
         worldCall' = [worldCall EXCEPT ![c] = row], route' = [route EXCEPT ![c] = r], UNCHANGED <<world, lane>>,
         row.pc \in {"idle", "select", "verify", "prepare"} => r = NoRoute,
         row.pc \in {"verify", "prepare"} => row.at \in DOMAIN Order,
         row.pc = "prepare" => row.seen # {},
         row.pc \in {"capture", "routed", "requalify", "running"} => r.world \in Worlds,
         row.pc = "running" /\ r.world \in Registered => r.print \in row.seen /\ r.print # 0
  PROVE  WorldsInv'
  <1>1. worldCall'[c] = row /\ route'[c] = r
    BY DEF WorldsInv, WorldsType
  <1>2. Placed(c)'
    BY <1>1 DEF Placed
  <1>3. lane # "closed"
    BY DEF WorldsInv, ClosedLast
  <1>4. QED
    BY <1>2, <1>3, OneCall

LEMMA RouteSame == ASSUME WorldsInv, NEW c \in WorldCalls, UNCHANGED route PROVE route' = [route EXCEPT ![c] = route[c]] /\ route[c] \in RouteRow
  BY DEF WorldsInv, WorldsType

LEMMA RequestKeeps ==
  ASSUME WorldsInv, NEW c \in WorldCalls, NEW suits \in SUBSET Worlds, NEW whole \in SUBSET Worlds, Request(c, suits, whole)
  PROVE  WorldsInv'
  <1> DEFINE row == [Idle EXCEPT !.pc = "select", !.suits = suits, !.whole = whole]
  <1>1. row \in CallRow /\ row.pc = "select"
    BY DEF Idle, CallRow, WorldStages, Underway
  <1>2. route[c] = NoRoute
    BY DEF Request, WorldsInv, Placed
  <1>3. worldCall' = [worldCall EXCEPT ![c] = row] /\ UNCHANGED <<world, lane, route>> /\ lane = "open"
    BY DEF Request
  <1> HIDE DEF row
  <1>4. QED
    BY <1>1, <1>2, <1>3, MoveKeeps, RouteSame

LEMMA ConsiderKeeps == ASSUME WorldsInv, NEW c \in WorldCalls, Consider(c) PROVE WorldsInv'
  <1>1. CASE Usable(c) = {}
    BY <1>1, FinishesKeep DEF Consider
  <1>2. CASE Usable(c) # {}
    <2> DEFINE next == CHOOSE i \in Usable(c) : \A j \in Usable(c) : i <= j
               row == [worldCall[c] EXCEPT !.pc = "verify", !.at = next, !.seen = {world[Order[next]].print}]
    <2>0. worldCall[c] \in CallRow /\ worldCall[c].pc = "select" /\ route[c] = NoRoute
      BY DEF Consider, WorldsInv, WorldsType, Placed
    <2>1. Usable(c) \subseteq Nat
      BY OrderKnown DEF Usable
    <2>2. next \in Usable(c)
      <3>1. \E i \in Usable(c) : \A j \in Usable(c) : i <= j
        BY <1>2, <2>1, LeastNat
      <3>2. QED
        BY <3>1
    <2>3. worldCall' = [worldCall EXCEPT ![c] = row] /\ UNCHANGED <<world, lane, route>>
      BY <1>2 DEF Consider
    <2> HIDE DEF next
    <2>4. next \in DOMAIN Order /\ next \in Nat /\ Order[next] \in Worlds
      BY <2>2, OrderKnown DEF Usable
    <2>5. world[Order[next]].print \in Prints
      BY <2>4 DEF WorldsInv, WorldsType, WorldRow
    <2>6. row \in CallRow /\ row.pc = "verify" /\ row.at = next
      BY <2>0, <2>4, <2>5 DEF CallRow, WorldStages, Underway
    <2>7. worldCall[c].pc \in Underway
      BY <2>0 DEF Underway
    <2> HIDE DEF row
    <2>8. QED
      BY <2>0, <2>3, <2>4, <2>6, <2>7, MoveKeeps, RouteSame
  <1>3. QED
    BY <1>1, <1>2

LEMMA VerifyKeeps == ASSUME WorldsInv, NEW c \in WorldCalls, NEW print \in Prints, Verify(c, print) PROVE WorldsInv'
  <1>0. /\ worldCall[c] \in CallRow /\ worldCall[c].pc = "verify" /\ worldCall[c].pc \in Underway
        /\ route[c] = NoRoute /\ worldCall[c].at \in DOMAIN Order
    BY DEF Verify, WorldsInv, WorldsType, Placed, Underway
  <1>1. CASE Qualifies(WorldAt(c), print)
    <2> DEFINE row == [worldCall[c] EXCEPT !.pc = "prepare", !.seen = {print}]
    <2>1. worldCall' = [worldCall EXCEPT ![c] = row] /\ UNCHANGED <<world, lane, route>>
      BY <1>1 DEF Verify
    <2>2. row \in CallRow /\ row.pc = "prepare" /\ row.at = worldCall[c].at /\ row.seen = {print}
      BY <1>0 DEF CallRow, WorldStages, Underway
    <2> HIDE DEF row
    <2>3. QED
      BY <1>0, <2>1, <2>2, MoveKeeps, RouteSame
  <1>2. CASE ~Qualifies(WorldAt(c), print)
    BY <1>0, <1>2, SkipKeeps DEF Verify
  <1>3. QED
    BY <1>1, <1>2

LEMMA PrepareKeeps == ASSUME WorldsInv, NEW c \in WorldCalls, NEW fails \in BOOLEAN, Prepare(c, fails) PROVE WorldsInv'
  <1>0. /\ worldCall[c] \in CallRow /\ worldCall[c].pc = "prepare" /\ worldCall[c].pc \in Underway
        /\ route[c] = NoRoute /\ worldCall[c].at \in DOMAIN Order /\ worldCall[c].seen # {}
    BY DEF Prepare, WorldsInv, WorldsType, Placed, Underway
  <1>1. CASE fails
    BY <1>0, <1>1, SkipKeeps DEF Prepare
  <1>2. CASE ~fails
    <2> DEFINE pc == IF c \in Speculations THEN "routed" ELSE "capture"
               row == [worldCall[c] EXCEPT !.pc = pc]
               r == [world |-> WorldAt(c), print |-> CHOOSE p \in worldCall[c].seen : TRUE]
    <2>1. worldCall' = [worldCall EXCEPT ![c] = row] /\ route' = [route EXCEPT ![c] = r] /\ UNCHANGED <<world, lane>>
      BY <1>2 DEF Prepare, GoesOn
    <2>2. row \in CallRow /\ row.pc \in {"routed", "capture"}
      BY <1>0 DEF CallRow, WorldStages, Underway
    <2>3. r.world \in Worlds
      BY <1>0, OrderKnown DEF WorldAt
    <2>4. r.print \in Prints
      BY <1>0 DEF CallRow
    <2>5. r \in RouteRow
      BY <2>3, <2>4 DEF RouteRow
    <2> HIDE DEF row, r
    <2>6. QED
      BY <1>0, <2>1, <2>2, <2>3, <2>5, MoveKeeps
  <1>3. QED
    BY <1>1, <1>2

LEMMA CaptureOutcomeKeeps == ASSUME WorldsInv, NEW c \in WorldCalls, NEW outcome, Capture(c, outcome) PROVE WorldsInv'
  <1>1. worldCall[c].pc \in Underway
    BY DEF Capture, Underway
  <1>2. QED
    BY <1>1, SkipKeeps, FinishesKeep DEF Capture

LEMMA ForkKeeps == ASSUME WorldsInv, NEW c \in WorldCalls, Fork(c) PROVE WorldsInv'
  <1>0. worldCall[c] \in CallRow /\ worldCall[c].pc = "routed" /\ route[c].world \in Worlds
    BY DEF Fork, WorldsInv, WorldsType, Placed
  <1>1. CASE Forks(c)
    <2> DEFINE row == [worldCall[c] EXCEPT !.pc = "requalify", !.seen = {world[route[c].world].print}]
    <2>1. worldCall' = [worldCall EXCEPT ![c] = row] /\ UNCHANGED <<world, lane, route>> /\ lane = "open"
      BY <1>1 DEF Fork, Forks
    <2>2. world[route[c].world].print \in Prints
      BY <1>0 DEF WorldsInv, WorldsType, WorldRow
    <2>3. row \in CallRow /\ row.pc = "requalify"
      BY <1>0, <2>2 DEF CallRow, WorldStages, Underway
    <2> HIDE DEF row
    <2>4. QED
      BY <1>0, <2>1, <2>3, MoveKeeps, RouteSame
  <1>2. CASE ~Forks(c)
    BY <1>2, FinishesKeep DEF Fork
  <1>3. QED
    BY <1>1, <1>2

LEMMA RequalifyKeeps == ASSUME WorldsInv, NEW c \in WorldCalls, NEW print \in Prints, Requalify(c, print) PROVE WorldsInv'
  <1>0. worldCall[c] \in CallRow /\ worldCall[c].pc = "requalify" /\ worldCall[c].pc \in Underway /\ route[c].world \in Worlds
    BY DEF Requalify, WorldsInv, WorldsType, Placed, Underway
  <1>1. CASE StillQualifies(c, print)
    <2> DEFINE row == [worldCall[c] EXCEPT !.pc = "running"]
    <2>1. worldCall' = [worldCall EXCEPT ![c] = row] /\ UNCHANGED <<world, lane, route>>
      BY <1>1 DEF Requalify, GoesOn
    <2>2. row \in CallRow /\ row.pc = "running" /\ row.seen = worldCall[c].seen
      BY <1>0 DEF CallRow, WorldStages, Underway
    <2>3. route[c].world \in Registered => route[c].print \in worldCall[c].seen /\ route[c].print # 0
      BY <1>1 DEF Requalify, StillQualifies, Qualifies
    <2> HIDE DEF row
    <2>4. QED
      BY <1>0, <2>1, <2>2, <2>3, MoveKeeps, RouteSame
  <1>2. CASE ~StillQualifies(c, print)
    BY <1>2, FinishesKeep DEF Requalify
  <1>3. QED
    BY <1>1, <1>2

LEMMA AskKeeps == ASSUME WorldsInv, NEW c \in WorldCalls, Ask(c) PROVE WorldsInv'
  <1> DEFINE row == [Idle EXCEPT !.pc = "reuse"]
  <1>1. row \in CallRow /\ row.pc = "reuse"
    BY DEF Idle, CallRow, WorldStages, Underway
  <1>2. worldCall' = [worldCall EXCEPT ![c] = row] /\ UNCHANGED <<world, lane, route>> /\ lane = "open"
    BY DEF Ask
  <1> HIDE DEF row
  <1>3. QED
    BY <1>1, <1>2, MoveKeeps, RouteSame

LEMMA ReuseKeeps == ASSUME WorldsInv, NEW c \in WorldCalls, NEW outcome, Reuse(c, outcome) PROVE WorldsInv'
  <1>1. CASE outcome \in Final
    BY <1>1, FinishesKeep DEF Reuse
  <1>2. CASE outcome \notin Final
    <2> DEFINE row == [worldCall[c] EXCEPT !.pc = "execute"]
    <2>0. worldCall[c] \in CallRow /\ worldCall[c].pc \in Underway
      BY DEF Reuse, WorldsInv, WorldsType, Underway
    <2>1. worldCall' = [worldCall EXCEPT ![c] = row] /\ UNCHANGED <<world, lane, route>>
      BY <1>2 DEF Reuse, GoesOn
    <2>2. row \in CallRow /\ row.pc = "execute"
      BY <2>0 DEF CallRow, WorldStages, Underway
    <2> HIDE DEF row
    <2>3. QED
      BY <2>0, <2>1, <2>2, MoveKeeps, RouteSame
  <1>3. QED
    BY <1>1, <1>2

\* A provider's new answer is heard by the calls that are asking; nobody forgets one.
LEMMA ProviderKeeps == ASSUME WorldsInv, NEW w \in Worlds, NEW print \in Prints, ProviderChanges(w, print) PROVE WorldsInv'
  <1>1. world' \in [Worlds -> WorldRow] /\ \A v \in Worlds : world'[v].closed = world[v].closed
    BY DEF ProviderChanges, WorldsInv, WorldsType, WorldRow
  <1>2. ASSUME NEW c \in WorldCalls
        PROVE  /\ worldCall'[c] \in CallRow /\ worldCall'[c].pc = worldCall[c].pc /\ worldCall'[c].at = worldCall[c].at
               /\ worldCall[c].seen \subseteq worldCall'[c].seen
    <2>1. worldCall[c] \in CallRow
      BY DEF WorldsInv, WorldsType
    <2>2. worldCall'[c] = IF worldCall[c].pc \in {"verify", "requalify"} /\ WorldAt(c) = w
                            THEN [worldCall[c] EXCEPT !.seen = worldCall[c].seen \cup {print}] ELSE worldCall[c]
      BY DEF ProviderChanges, Sees
    <2>3. QED
      BY <2>1, <2>2 DEF CallRow
  <1>3. worldCall' = [c \in WorldCalls |-> worldCall'[c]] /\ UNCHANGED <<lane, route>>
    BY DEF ProviderChanges, Sees
  <1>4. WorldsType'
    BY <1>1, <1>2, <1>3 DEF WorldsInv, WorldsType
  <1>5. ClosedLast'
    BY <1>1, <1>2, <1>3 DEF WorldsInv, ClosedLast
  <1>6. \A c \in WorldCalls : Placed(c)'
    BY <1>2, <1>3 DEF WorldsInv, Placed
  <1>7. QED
    BY <1>4, <1>5, <1>6 DEF WorldsInv

\* The owners of the worlds and the user change a world without closing it.
LEMMA OwnersKeep == ASSUME WorldsInv, NEW w \in Worlds, PolicyChanges(w) \/ RetireWorld(w) PROVE WorldsInv'
  <1>1. world' \in [Worlds -> WorldRow] /\ \A v \in Worlds : world'[v].closed = world[v].closed
    <2>1. CASE PolicyChanges(w)
      <3>1. world' = [world EXCEPT ![w].enabled = ~world[w].enabled]
        BY <2>1 DEF PolicyChanges
      <3>2. (~world[w].enabled) \in BOOLEAN
        OBVIOUS
      <3>3. QED
        BY <3>1, <3>2 DEF WorldsInv, WorldsType, WorldRow
    <2>2. CASE RetireWorld(w)
      BY <2>2 DEF RetireWorld, WorldsInv, WorldsType, WorldRow
    <2>3. QED
      BY <2>1, <2>2
  <1>2. UNCHANGED <<lane, worldCall, route>>
    BY DEF PolicyChanges, RetireWorld
  <1>3. QED
    BY <1>1, <1>2 DEF WorldsInv, WorldsType, ClosedLast, Placed

LEMMA DisposalKeeps == ASSUME WorldsInv, Dispose \/ CloseWorlds PROVE WorldsInv'
  <1>1. CASE Dispose
    BY <1>1 DEF Dispose, WorldsInv, WorldsType, ClosedLast, Placed
  <1>2. CASE CloseWorlds
    <2>1. world' \in [Worlds -> WorldRow] /\ lane' = "closed" /\ UNCHANGED <<worldCall, route>>
      BY <1>2 DEF CloseWorlds, WorldsInv, WorldsType, WorldRow
    <2>2. \A c \in WorldCalls : worldCall[c].pc \notin Underway
      BY <1>2 DEF CloseWorlds, Inside
    <2>3. QED
      BY <2>1, <2>2 DEF WorldsInv, WorldsType, ClosedLast, Placed
  <1>3. QED
    BY <1>1, <1>2

\* ExecutionWorlds: a world is closed after the operations the lane admitted, every call deals with
\* a world of the router's order, and what runs has heard its route's fingerprint since its fork.
THEOREM WorldsInvariance == WorldsSpec => []WorldsInv
  <1>1. WorldsInit => WorldsInv
    <2> SUFFICES ASSUME WorldsInit PROVE WorldsInv
      OBVIOUS
    <2>1. WorldsType
      BY RoutesTyped DEF WorldsInit, WorldsType, WorldRow, Prints
    <2>2. \A c \in WorldCalls : worldCall[c].pc = "idle" /\ route[c] = NoRoute
      BY DEF WorldsInit, Idle
    <2>3. QED
      BY <2>1, <2>2 DEF WorldsInit, WorldsInv, ClosedLast, Placed
  <1>2. WorldsInv /\ [WorldsNext]_worldsVars => WorldsInv'
    <2> SUFFICES ASSUME WorldsInv, [WorldsNext]_worldsVars PROVE WorldsInv'
      OBVIOUS
    <2>1. ASSUME NEW c \in Speculations \cup Observations, NEW suits \in SUBSET Worlds,
                 NEW whole \in IF c \in Observations THEN SUBSET suits ELSE {suits}, Request(c, suits, whole)
          PROVE  WorldsInv'
      <3>1. c \in WorldCalls /\ whole \in SUBSET Worlds
        BY DEF WorldCalls
      <3>2. QED
        BY <2>1, <3>1, RequestKeeps
    <2>2. ASSUME NEW c \in WorldCalls, Consider(c) \/ Fork(c) \/ Executed(c) \/ Ask(c) \/ Execute(c) PROVE WorldsInv'
      BY <2>2, ConsiderKeeps, ForkKeeps, AskKeeps, FinishesKeep DEF Executed, Execute
    <2>3. ASSUME NEW c \in WorldCalls, NEW print \in 0..2, Verify(c, print) \/ Requalify(c, print) PROVE WorldsInv'
      BY <2>3, VerifyKeeps, RequalifyKeeps DEF Prints
    <2>4. ASSUME NEW c \in WorldCalls, NEW fails \in BOOLEAN, Prepare(c, fails) PROVE WorldsInv'
      BY <2>4, PrepareKeeps
    <2>5. ASSUME NEW c \in WorldCalls, NEW outcome, Capture(c, outcome) \/ Reuse(c, outcome) PROVE WorldsInv'
      BY <2>5, CaptureOutcomeKeeps, ReuseKeeps
    <2>6. ASSUME NEW w \in Worlds, NEW print \in 0..2, ProviderChanges(w, print) PROVE WorldsInv'
      BY <2>6, ProviderKeeps DEF Prints
    <2>7. ASSUME NEW w \in Worlds, PolicyChanges(w) \/ RetireWorld(w) PROVE WorldsInv'
      BY <2>7, OwnersKeep
    <2>8. CASE Dispose \/ CloseWorlds
      BY <2>8, DisposalKeeps
    <2>9. CASE UNCHANGED worldsVars
      BY <2>9 DEF worldsVars, WorldsInv, WorldsType, ClosedLast, Placed
    <2>10. QED
      BY <2>1, <2>2, <2>3, <2>4, <2>5, <2>6, <2>7, <2>8, <2>9 DEF WorldsNext
  <1>3. QED
    BY <1>1, <1>2, PTL DEF WorldsSpec

\* ExecutionWorlds: nothing runs, prepares or captures in a closed world, and a speculation runs on
\* what its route was selected for.
THEOREM WorldsAreSafe == WorldsSpec => [](NothingInAClosedWorld /\ RunsWhatWasSelected)
  <1>1. WorldsInv => NothingInAClosedWorld
    <2> SUFFICES ASSUME WorldsInv, NEW c \in WorldCalls, worldCall[c].pc \in {"prepare", "capture", "requalify", "running"}
                 PROVE  ~world[WorldAt(c)].closed
      BY DEF NothingInAClosedWorld
    <2>1. Placed(c) /\ ClosedLast
      BY DEF WorldsInv
    <2>2. WorldAt(c) \in Worlds
      <3>1. CASE worldCall[c].pc = "prepare"
        BY <2>1, <3>1, OrderKnown DEF Placed, WorldAt
      <3>2. CASE worldCall[c].pc # "prepare"
        <4>1. route[c].world \in Worlds
          BY <2>1, <3>2 DEF Placed
        <4>2. route[c] # NoRoute
          BY <4>1, WorldsSetting DEF NoRoute
        <4>3. QED
          BY <4>1, <4>2 DEF WorldAt
      <3>3. QED
        BY <3>1, <3>2
    <2>3. QED
      BY <2>1, <2>2 DEF ClosedLast, Underway
  <1>2. WorldsInv => RunsWhatWasSelected
    BY DEF WorldsInv, Placed, RunsWhatWasSelected, WorldCalls
  <1>3. QED
    BY <1>1, <1>2, WorldsInvariance, PTL

-----------------------------------------------------------------------------
\* What is dispatched is not forgotten while it waits, runs where and on what it was selected for,
\* and is told of truly, in order and whole (runtime-engine.ts, tool-execution-gateway.ts,
\* post-settlement.ts).
THEOREM DispatchIsSafe == SchedSpec /\ FeedSpec /\ WorldsSpec => []DispatchSafe
  <1>1. SchedInv => NothingForgotten
    BY DEF SchedInv
  <1>2. FeedInv => LearnsTruth /\ ToldInOrder /\ LearningLossless
    BY FeedTells
  <1>3. NothingForgotten /\ LearnsTruth /\ ToldInOrder /\ LearningLossless /\ NothingInAClosedWorld /\ RunsWhatWasSelected => DispatchSafe
    BY DEF DispatchSafe
  <1>4. QED
    BY <1>1, <1>2, <1>3, SchedulerInvariance, FeedInvariance, WorldsAreSafe, PTL
===============================================================================
