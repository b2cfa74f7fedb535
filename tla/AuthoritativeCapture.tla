------------------------ MODULE AuthoritativeCapture ------------------------
(***************************************************************************)
(* What becomes of a capture: before the host runs an Actor's call itself, *)
(* the engine asks a world to capture the run (prepareActorCall), and when *)
(* the run has settled it seals the capture into a branch and keeps that   *)
(* in the result cache (settleActorCall, retainAuthoritativeBranch of      *)
(* runtime-engine.ts).  The coordinator of effect-transaction.ts wraps     *)
(* every capture in an attempt, so that it is sealed or disposed of but    *)
(* not both.  Meanwhile the turn closes, reuse is switched off, results    *)
(* are evicted and the session goes.                                       *)
(*                                                                         *)
(* A capture is of the whole run, or of its inputs only.  One turn of one  *)
(* session; an adopted or evicted branch is EffectTransaction's.           *)
(***************************************************************************)
EXTENDS Naturals, FiniteSets

CONSTANTS Calls, MaxChanges  \* a bound: changes of the setting

VARIABLES
  turn,     \* `state.lifecycle`: "active", "closing", "finished"
  session,  \* its lane: "open", "sealed", "discarded", "closed"
  reuse,    \* `settings.reuseEnabled`
  held,     \* `state.actorActions`: calls not settled yet
  call,     \* call[c]: where the call stands
  own,      \* calls whose ActorAction holds a capture (`resultCapture`)
  attempt,  \* attempt[c]: the kind, the coordinator's state and how often the
            \* backend was told to dispose of the capture
  branch,   \* branch[c]: "none", "open", "kept", "released"
  changes

captureVars == <<turn, session, reuse, held, call, own, attempt, branch, changes>>

NoAttempt == [kind |-> "none", state |-> "none", disposals |-> 0]

CaptureInit ==
  /\ turn = "active" /\ session = "open" /\ reuse = TRUE
  /\ held = {} /\ own = {}
  /\ call = [c \in Calls |-> "idle"]
  /\ attempt = [c \in Calls |-> NoAttempt]
  /\ branch = [c \in Calls |-> "none"]
  /\ changes = 0

Goes(c, pc) == call' = [call EXCEPT ![c] = pc]
\* dispose() of the attempts of some captures: only one that has begun reaches the backend.
Disposing(C) ==
  [c \in Calls |-> IF c \in C /\ attempt[c].state = "begun"
                   THEN [attempt[c] EXCEPT !.state = "aborted", !.disposals = @ + 1] ELSE attempt[c]]
-----------------------------------------------------------------------------
(* Before the run: prepareActorCall(). *)

Arrive(c) ==
  /\ call[c] = "idle" /\ turn = "active"
  /\ held' = held \cup {c} /\ Goes(c, "matching")
  /\ UNCHANGED <<turn, session, reuse, own, attempt, branch, changes>>

\* A candidate serves the call.
Serve(c) ==
  /\ call[c] = "matching"
  /\ held' = held \ {c} /\ Goes(c, "done")
  /\ UNCHANGED <<turn, session, reuse, own, attempt, branch, changes>>

\* None does: deferToFallback, and a world may capture what is about to run.
Fallback(c, asks) ==
  /\ call[c] = "matching"
  /\ asks => reuse /\ c \in held
  /\ Goes(c, IF asks THEN "capturing" ELSE "running")
  /\ UNCHANGED <<turn, session, reuse, held, own, attempt, branch, changes>>

\* The capture arrives: is it still of use?
Wanted(c) == reuse /\ turn = "active" /\ c \in held

\* EffectTransactionCoordinator.begin and .capture; ActorAction.capture, or its release.
Captured(c, kind) ==
  /\ call[c] = "capturing"
  /\ Goes(c, "running")
  /\ IF Wanted(c)
     THEN /\ own' = own \cup {c}
          /\ attempt' = [attempt EXCEPT ![c] = [kind |-> kind, state |-> "begun", disposals |-> 0]]
     ELSE /\ attempt' = [attempt EXCEPT ![c] = [kind |-> kind, state |-> "aborted", disposals |-> 1]]
          /\ UNCHANGED own
  /\ UNCHANGED <<turn, session, reuse, held, branch, changes>>

\* No world captures it; the run goes ahead all the same.
NotCaptured(c) ==
  /\ call[c] = "capturing" /\ Goes(c, "running")
  /\ UNCHANGED <<turn, session, reuse, held, own, attempt, branch, changes>>
-----------------------------------------------------------------------------
(* After the run: settleActorCall(). *)

\* A failed run leaves no result to seal, but what it read may be sealed.
Seals(c, output) == c \in own /\ (attempt[c].kind = "inputs" \/ output = "succeeded")

Settle(c, output) ==
  /\ call[c] = "running"
  /\ IF c \notin held
     THEN Goes(c, "done") /\ UNCHANGED <<held, own, attempt>>
     ELSE /\ held' = held \ {c}
          /\ own' = own \ {c}  \* takeCapture
          /\ IF Seals(c, output) /\ attempt[c].state = "begun"
             THEN Goes(c, "sealing") /\ attempt' = [attempt EXCEPT ![c].state = "sealing"]
             ELSE Goes(c, "done") /\ attempt' = Disposing(own \cap {c})
  /\ UNCHANGED <<turn, session, reuse, branch, changes>>

\* seal() of the backend and the coordinator's seal(): a branch that no transaction can wrap,
\* or a whole result where inputs were promised, is disposed of, and so is the capture.
Sealed(c, result) ==
  /\ call[c] = "sealing"
  /\ result = "contradicts" => attempt[c].kind = "inputs"
  /\ IF result = "branch"
     THEN /\ Goes(c, "retaining")
          /\ attempt' = [attempt EXCEPT ![c].state = "sealed"]
          /\ branch' = [branch EXCEPT ![c] = "open"]
     ELSE /\ Goes(c, "done")
          /\ attempt' = [attempt EXCEPT ![c].state = "failed", ![c].disposals = @ + 1]
          /\ branch' = [branch EXCEPT ![c] = IF result = "fails" THEN "none" ELSE "released"]
  /\ UNCHANGED <<turn, session, reuse, held, own, changes>>

\* Mutant: a result is kept for a session that is on its way out.
KeepsLate(c) == reuse
\* retainAuthoritativeBranch asks all of it again.
Keeps(c) == turn = "active" /\ session = "open" /\ reuse

Retain(c, rejected) ==
  /\ call[c] = "retaining"
  /\ Goes(c, "done")
  /\ branch' = [branch EXCEPT ![c] = IF Keeps(c) /\ ~rejected THEN "kept" ELSE "released"]
  /\ UNCHANGED <<turn, session, reuse, held, own, attempt, changes>>

\* trimResults and discardCandidate.
Evict(c) ==
  /\ branch[c] = "kept"
  /\ branch' = [branch EXCEPT ![c] = "released"]
  /\ UNCHANGED <<turn, session, reuse, held, call, own, attempt, changes>>
-----------------------------------------------------------------------------
(* Settings, the end of the turn and of the session. *)

Switch ==
  /\ changes < MaxChanges /\ changes' = changes + 1
  /\ reuse' = ~reuse
  /\ UNCHANGED <<turn, session, held, call, own, attempt, branch>>

BeginClosure ==
  /\ turn = "active" /\ turn' = "closing"
  /\ UNCHANGED <<session, reuse, held, call, own, attempt, branch, changes>>

\* clearActorActions: the calls that have not settled give up their captures.
Cleared == held \cap own

CompleteClosure ==
  /\ turn = "closing" /\ turn' = "finished"
  /\ attempt' = Disposing(Cleared)
  /\ held' = {} /\ own' = own \ held
  /\ UNCHANGED <<session, reuse, call, branch, changes>>

Seal ==
  /\ session = "open" /\ session' = "sealed"
  /\ UNCHANGED <<turn, reuse, held, call, own, attempt, branch, changes>>

\* closeSessionState: the cached results are discarded, and then the settlements under way
\* are drained.
Discard ==
  /\ session = "sealed" /\ turn = "finished" /\ session' = "discarded"
  /\ branch' = [c \in Calls |-> IF branch[c] = "kept" THEN "released" ELSE branch[c]]
  /\ UNCHANGED <<turn, reuse, held, call, own, attempt, changes>>

Close ==
  /\ session = "discarded" /\ session' = "closed"
  /\ \A c \in Calls : call[c] \notin {"sealing", "retaining"}
  /\ UNCHANGED <<turn, reuse, held, call, own, attempt, branch, changes>>

CaptureNext ==
  \/ \E c \in Calls : Arrive(c) \/ Serve(c) \/ NotCaptured(c) \/ Evict(c)
  \/ \E c \in Calls, asks \in BOOLEAN : Fallback(c, asks)
  \/ \E c \in Calls, kind \in {"whole", "inputs"} : Captured(c, kind)
  \/ \E c \in Calls, output \in {"succeeded", "failed"} : Settle(c, output)
  \/ \E c \in Calls, result \in {"branch", "contradicts", "unsealable", "fails"} : Sealed(c, result)
  \/ \E c \in Calls, rejected \in BOOLEAN : Retain(c, rejected)
  \/ Switch \/ BeginClosure \/ CompleteClosure \/ Seal \/ Discard \/ Close

CaptureSpec == CaptureInit /\ [][CaptureNext]_captureVars
-----------------------------------------------------------------------------
(* Property. *)

\* A capture ends once, one way or the other, however the end of the turn, of reuse and of
\* the session fall between the awaits: the backend is told to dispose of it at most once and
\* never while the branch made of it is in use; while it is open a call of the unfinished turn
\* holds it; a branch belongs to the settlement under way or to the cache of an open session
\* (EffectTransactionCoordinator.capture, clearActorActions, retainAuthoritativeBranch).
CapturesEndOnce ==
  \A c \in Calls :
    /\ attempt[c].disposals <= IF branch[c] \in {"open", "kept"} THEN 0 ELSE 1
    /\ attempt[c].state = "begun" => c \in held \cap own /\ turn # "finished"
    /\ attempt[c].state = "sealing" => call[c] = "sealing"
    /\ branch[c] = "open" => call[c] = "retaining"
    /\ branch[c] = "kept" => session # "closed"
=============================================================================
