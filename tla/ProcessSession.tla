---------------------------- MODULE ProcessSession ----------------------------
(***************************************************************************)
(* A process session of the Linux backend (LinuxProcessReuseBackend.open,  *)
(* src/linux-process-backend): commands run in a private workspace behind  *)
(* a broker socket, their children ask the broker, and at the end the      *)
(* session is sealed into evidence, validated, closed and disposed.        *)
(*                                                                         *)
(* `written` says what was executed, `evidence` what the seal captured;    *)
(* `source` is the version of the host's inputs, which the validated proof *)
(* watches from the moment it is made.                                     *)
(***************************************************************************)
EXTENDS NativeRouting

CONSTANTS
  Executions,     \* calls of execute
  ChildRequests,  \* what children ask the broker
  MaxEdits        \* bound: how often the host's inputs change

VARIABLES
  processSession,  \* [stage, kind, dispatch, tx, discarded, server, domain]
  run,             \* run[e]: one execute()
  request,         \* request[r]: one wire request
  sealing,         \* the seal: "none", "draining", "capturing", "validating", "sealed", "failed"
  admission,       \* [state, at]: the proof of the inputs, "none", "inspecting", "held"
  written, evidence, source,
  producers        \* the backend's count of producers

sessionVars == <<processSession, run, request, sealing, admission, written, evidence, source, producers>>

NoSession == [stage |-> "none", kind |-> "none", dispatch |-> "none", tx |-> FALSE, discarded |-> FALSE,
              server |-> FALSE, domain |-> FALSE]

SessionInit ==
  /\ processSession = NoSession
  /\ run = [e \in Executions |-> "none"] /\ request = [r \in ChildRequests |-> "none"]
  /\ sealing = "none" /\ admission = [state |-> "none", at |-> 0]
  /\ written = {} /\ evidence = {} /\ source = 0
  /\ producers = 0

Running == {e \in Executions : run[e] \in {"dispatching", "executing"}} \cup {r \in ChildRequests : request[r] = "serving"}
LaneSealed == processSession.stage \in {"closing", "released", "closed"}
-----------------------------------------------------------------------------
\* allocateSession opens the execution domain last and closes it if a step after fails;
\* the session counts as a producer until it is closed.
Open ==
  /\ processSession.stage = "none"
  /\ \/ processSession' = [processSession EXCEPT !.stage = "open", !.domain = TRUE] /\ producers' = producers + 1
     \/ processSession' = [processSession EXCEPT !.stage = "refused"] /\ UNCHANGED producers
  /\ UNCHANGED <<run, request, sealing, admission, written, evidence, source>>

\* Mutant: a run is refused only once the session is closed.
AdmissibleLate(kind) == ~LaneSealed /\ processSession.kind # "operation" /\ processSession.kind \in {"none", kind}

\* One boundary: not after the seal began, and neither mixed nor repeated operations.
Admissible(kind) ==
  /\ ~LaneSealed /\ sealing = "none"
  /\ processSession.kind # "operation" /\ processSession.kind \in {"none", kind}

\* execute: the kind is taken at once; the dispatcher is created by the first run.
Execute(e) ==
  /\ run[e] = "none" /\ processSession.stage \notin {"none", "refused"}
  /\ \E kind \in {"tool", "operation"} :
       IF Admissible(kind)
       THEN /\ run' = [run EXCEPT ![e] = "dispatching"]
            /\ processSession' = [processSession EXCEPT !.kind = kind,
                 !.dispatch = IF processSession.dispatch = "none" THEN "creating" ELSE processSession.dispatch]
       ELSE run' = [run EXCEPT ![e] = "rejected"] /\ UNCHANGED processSession
  /\ UNCHANGED <<request, sealing, admission, written, evidence, source, producers>>

\* createProcessInterposition and the broker's socket; a failure stays for every run.
Dispatch ==
  /\ processSession.dispatch = "creating"
  /\ \E ok \in BOOLEAN : processSession' = [processSession EXCEPT !.dispatch = IF ok THEN "ready" ELSE "failed", !.server = ok]
  /\ UNCHANGED <<run, request, sealing, admission, written, evidence, source, producers>>

\* The workspace transaction begins with the first run that gets this far.
BeginRun(e) ==
  /\ run[e] = "dispatching" /\ processSession.dispatch \in {"ready", "failed"}
  /\ IF processSession.dispatch = "failed" THEN run' = [run EXCEPT ![e] = "failed"] /\ UNCHANGED processSession
     ELSE run' = [run EXCEPT ![e] = "executing"] /\ processSession' = [processSession EXCEPT !.tx = TRUE]
  /\ UNCHANGED <<request, sealing, admission, written, evidence, source, producers>>

\* executeRequest returns after its processes ended, with or without having written.
Finish(e) ==
  /\ run[e] = "executing"
  /\ run' = [run EXCEPT ![e] = "done"] /\ written' \in {written, written \cup {e}}
  /\ UNCHANGED <<processSession, request, sealing, admission, evidence, source, producers>>

\* serve and handleWireRequest: a held child of a run asks; the lane tracks the answer.
Ask(r) ==
  /\ request[r] = "none" /\ processSession.server /\ \E e \in Executions : run[e] = "executing"
  /\ request' = [request EXCEPT ![r] = IF LaneSealed THEN "refused" ELSE "serving"]
  /\ UNCHANGED <<processSession, run, sealing, admission, written, evidence, source, producers>>

\* A hit writes the result it adopts; anything else is left to the child.  A stream goes
\* on in the lane after its child was told to continue.
Answer(r) ==
  /\ request[r] = "serving"
  /\ request' = [request EXCEPT ![r] = "answered"] /\ written' \in {written, written \cup {r}}
  /\ UNCHANGED <<processSession, run, sealing, admission, evidence, source, producers>>
-----------------------------------------------------------------------------
(* seal and validate *)

Edit == source < MaxEdits /\ source' = source + 1
        /\ UNCHANGED <<processSession, run, request, sealing, admission, written, evidence, producers>>

SealSession ==
  /\ processSession.stage = "open" /\ sealing = "none"
  /\ sealing' = "draining" /\ producers' = producers + 1
  /\ UNCHANGED <<processSession, run, request, admission, written, evidence, source>>

Drained ==
  /\ sealing = "draining" /\ Running = {} /\ sealing' = "capturing"
  /\ UNCHANGED <<processSession, run, request, admission, written, evidence, source, producers>>

\* privateCommits refuses what cannot be represented; sealSessionEvidence takes the rest.
CaptureEvidence ==
  /\ sealing = "capturing"
  /\ \/ sealing' = "validating" /\ evidence' = written /\ UNCHANGED producers
     \/ sealing' = "failed" /\ producers' = producers - 1 /\ UNCHANGED evidence
  /\ UNCHANGED <<processSession, run, request, admission, written, source>>

\* The seal ends with a validation of its own, whatever that one says.
SealValidated ==
  /\ sealing = "validating" /\ admission.state # "inspecting"
  /\ sealing' = "sealed" /\ producers' = producers - 1
  /\ UNCHANGED <<processSession, run, request, admission, written, evidence, source>>

Proven == admission.state = "held" /\ admission.at = source

\* inspectAdmission, one at a time: a proof that still holds answers at once; else it is
\* closed and the inputs are proved again.
Validate ==
  /\ sealing \in {"validating", "sealed"} /\ ~processSession.discarded
  /\ admission.state # "inspecting" /\ ~Proven
  /\ admission' = [state |-> "inspecting", at |-> source]
  /\ UNCHANGED <<processSession, run, request, sealing, written, evidence, source, producers>>

\* The proof is kept only if nothing it watches moved while it was made.
Validated ==
  /\ admission.state = "inspecting"
  /\ admission' \in {[state |-> "none", at |-> 0]} \cup (IF admission.at = source THEN {[admission EXCEPT !.state = "held"]} ELSE {})
  /\ UNCHANGED <<processSession, run, request, sealing, written, evidence, source, producers>>
-----------------------------------------------------------------------------
(* close and dispose *)

CloseSession ==
  /\ processSession.stage = "open" /\ processSession' = [processSession EXCEPT !.stage = "closing"]
  /\ UNCHANGED <<run, request, sealing, admission, written, evidence, source, producers>>

\* Behind the lane's tasks: the broker closes, then the session is sealed if it was not.
CloseServer ==
  /\ processSession.stage = "closing" /\ Running = {} /\ processSession.dispatch # "creating"
  /\ processSession' = [processSession EXCEPT !.stage = "released", !.server = FALSE]
  /\ IF sealing = "none" THEN sealing' = "draining" /\ producers' = producers + 1 ELSE UNCHANGED <<sealing, producers>>
  /\ UNCHANGED <<run, request, admission, written, evidence, source>>

\* The domain outlives the seal, whether that succeeded or not.
Release ==
  /\ processSession.stage = "released" /\ sealing \in {"sealed", "failed"}
  /\ processSession' = [processSession EXCEPT !.stage = "closed", !.domain = FALSE] /\ producers' = producers - 1
  /\ UNCHANGED <<run, request, sealing, admission, written, evidence, source>>

\* dispose discards first, so that no validation begins behind the close it awaits.
Discard ==
  /\ processSession.stage \notin {"none", "refused"} /\ ~processSession.discarded
  /\ processSession' = [processSession EXCEPT !.discarded = TRUE,
       !.stage = IF processSession.stage = "open" THEN "closing" ELSE processSession.stage]
  /\ UNCHANGED <<run, request, sealing, admission, written, evidence, source, producers>>

Disposed ==
  /\ processSession.discarded /\ processSession.stage = "closed" /\ admission.state # "inspecting"
  /\ processSession' = [processSession EXCEPT !.stage = "disposed"] /\ admission' = [state |-> "none", at |-> 0]
  /\ UNCHANGED <<run, request, sealing, written, evidence, source, producers>>

SessionProgress ==
  \/ Dispatch \/ Drained \/ CaptureEvidence \/ SealValidated \/ Validated \/ CloseServer \/ Release \/ Disposed
  \/ \E e \in Executions : BeginRun(e) \/ Finish(e)
  \/ \E r \in ChildRequests : Answer(r)

SessionNext ==
  \/ SessionProgress \/ Open \/ Edit \/ SealSession \/ Validate \/ CloseSession \/ Discard
  \/ \E e \in Executions : Execute(e)
  \/ \E r \in ChildRequests : Ask(r)

SessionSpec == SessionInit /\ [][SessionNext]_sessionVars /\ WF_sessionVars(SessionProgress)
-----------------------------------------------------------------------------
\* What the seal captured is all the session ever does: once it has captured, no run or
\* request is under way or still to come, and its evidence has everything written.
SealsEverything ==
  sealing \in {"validating", "sealed"} => Running = {} /\ evidence = written

\* A disposed session holds nothing: no proof, domain or socket, and its producers are
\* counted out, so that hasReusableWork can become false again.
DisposedHoldsNothing ==
  processSession.stage = "disposed" =>
    /\ admission.state = "none" /\ ~processSession.domain /\ ~processSession.server /\ producers = 0

\* NativeRouting: a work that is gone leaves no session open in the worker; one boundary at a
\* time, and a command is replayed or run by the host, never both.  ProcessSession: the evidence
\* has everything the session ever wrote, and a disposed session holds nothing.
RoutingSafe == NoOrphanSession /\ OneBoundary /\ CommandOnce /\ SealsEverything /\ DisposedHoldsNothing
=============================================================================
