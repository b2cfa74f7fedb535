------------------------------ MODULE NestedExec ------------------------------
(***************************************************************************)
(* Processes held at their exec under LinuxProcessReuseBackend, in two parts *)
(* with variables of their own: those of a speculative session, and those of *)
(* an Actor's own command.  Each part has its own specification.           *)
(***************************************************************************)
EXTENDS FiniteSets, Integers

(***************************************************************************)
(* A process held at its exec inside a speculative session                 *)
(* (src/linux-process-backend.ts: serve, handleWireRequest and             *)
(* executeRequest): answered from a finished result, run in a transaction  *)
(* of its own, followed in the trace it already belongs to (a domain), or  *)
(* passed to run natively where it is.                                     *)
(*                                                                         *)
(* Every request here has the same weak key, so that the reservation of    *)
(* the key's work matters; the registry behind it is ProcessHandoff.      *)
(* Whatever may throw is a branch of the step that throws it.              *)
(***************************************************************************)

CONSTANTS
  Requests,
  Outlets,       \* those executed for the whole command (captureWorkspace): no one runs them if this does not
  MaxTroubles    \* bound: failures of one behaviour

VARIABLES
  session,    \* [life: "open", "draining", "sealed"; aborted; incomplete: does it have a reason to be incomplete]
  req,        \* req[r]: where its handler is
  answer,     \* answer[r]: what its dispatcher was told
  domain,     \* domain[r]: is it followed in the trace that holds it; "exited" once its exit was reported
  writer,     \* writer[r]: "none", "open", "ended": its record among the session's writers
  proof,      \* proof[r]: what the session knows of it: "none", "evidence", "observation"
  transaction,\* transaction[r]: "none", "begun", "finished", "aborted"
  work,       \* the request that holds the key's work, or {}
  published,  \* is there a finished result for the key
  ran,        \* history: how often the effects of r's process were made
  troubles

nestedVars == <<session, req, answer, domain, writer, proof, transaction, work, published, ran, troubles>>

AtStage(r, pc) == req[r] = pc
Handled(r) == AtStage(r, "done")
Trouble == troubles < MaxTroubles /\ troubles' = troubles + 1

\* The catch of serve: the session cannot be complete, the dispatcher fails its process.
Broken(r) ==
  /\ answer' = [answer EXCEPT ![r] = IF @ = "continue" THEN @ ELSE "failed"]
  /\ session' = [session EXCEPT !.incomplete = TRUE]

NestedInit ==
  /\ session = [life |-> "open", aborted |-> FALSE, incomplete |-> FALSE]
  /\ req = [r \in Requests |-> "new"] /\ answer = [r \in Requests |-> "none"]
  /\ domain = [r \in Requests |-> "no"] /\ writer = [r \in Requests |-> "none"]
  /\ proof = [r \in Requests |-> "none"] /\ transaction = [r \in Requests |-> "none"]
  /\ work = {} /\ published = FALSE /\ ran = [r \in Requests |-> 0] /\ troubles = 0
-----------------------------------------------------------------------------
(* handleWireRequest. *)

\* The request is checked, its process inspected and found eligible, ineligible or not held here.
Inspect(r) ==
  /\ AtStage(r, "new")
  /\ \/ /\ session.life = "open" /\ ~session.aborted
        /\ \E d \in IF r \in Outlets THEN {"no"} ELSE {"no", "running"} : domain' = [domain EXCEPT ![r] = d]
        /\ req' = [req EXCEPT ![r] = "acquire"] /\ UNCHANGED <<session, answer, troubles>>
     \/ /\ session.life = "open" /\ ~session.aborted /\ r \notin Outlets /\ Trouble
        /\ req' = [req EXCEPT ![r] = "done"] /\ answer' = [answer EXCEPT ![r] = "bypass"]
        /\ UNCHANGED <<session, domain>>
     \/ /\ session.life # "open" \/ session.aborted
        /\ req' = [req EXCEPT ![r] = "done"] /\ Broken(r) /\ UNCHANGED <<domain, troubles>>
  /\ UNCHANGED <<writer, proof, transaction, work, published, ran>>

\* handoffs.acquire: a published result, else the work; another's work is waited for.
AcquireWork(r) ==
  /\ AtStage(r, "acquire")
  /\ \/ session.aborted /\ req' = [req EXCEPT ![r] = "done"] /\ Broken(r) /\ UNCHANGED work
     \/ /\ ~session.aborted /\ published
        /\ req' = [req EXCEPT ![r] = "replay"] /\ UNCHANGED <<session, answer, work>>
     \/ /\ ~session.aborted /\ ~published /\ work = {}
        /\ work' = {r} /\ req' = [req EXCEPT ![r] = "begin"] /\ UNCHANGED <<session, answer>>
  /\ UNCHANGED <<domain, writer, proof, transaction, published, ran, troubles>>

\* The writer's record, with the certificate as its evidence, is shared before a byte is written.
ShareReplay(r) ==
  /\ AtStage(r, "replay") /\ writer[r] = "none"
  /\ writer' = [writer EXCEPT ![r] = "open"] /\ proof' = [proof EXCEPT ![r] = "evidence"]
  /\ UNCHANGED <<session, req, answer, domain, transaction, work, published, ran, troubles>>

\* replayFilesystemEffects: all of the journal, or a failure that rolled back, or one that could not.
Replay(r) ==
  /\ AtStage(r, "replay") /\ writer[r] = "open"
  /\ req' = [req EXCEPT ![r] = "done"] /\ writer' = [writer EXCEPT ![r] = "ended"]
  /\ \/ /\ ran' = [ran EXCEPT ![r] = @ + 1] /\ answer' = [answer EXCEPT ![r] = "hit"]
        /\ UNCHANGED <<session, troubles>>
     \/ \E left \in {0, 1} : ran' = [ran EXCEPT ![r] = @ + left] /\ Trouble /\ Broken(r)
  /\ UNCHANGED <<domain, proof, transaction, work, published>>
-----------------------------------------------------------------------------
(* executeRequest with the key's work. *)

\* The catch: only a failure before execution, of a process someone else can still run.
Fallback(r, stage) == stage = "capture" /\ r \notin Outlets /\ ~session.aborted

\* The finally blocks: an unfinished transaction is aborted, the writer's end recorded, the work completed.
Unwind(r) ==
  /\ transaction' = [transaction EXCEPT ![r] = IF @ = "begun" THEN "aborted" ELSE @]
  /\ writer' = [writer EXCEPT ![r] = IF @ = "open" THEN "ended" ELSE @]
  /\ work' = work \ {r} /\ req' = [req EXCEPT ![r] = "done"]

Throw(r, stage) ==
  /\ Unwind(r)
  /\ IF Fallback(r, stage) THEN answer' = [answer EXCEPT ![r] = IF @ = "continue" THEN @ ELSE "bypass"] /\ UNCHANGED session
                           ELSE Broken(r)

\* transaction.begin, the private branch and the descriptors: everything before stage "execution".
Prepare(r) ==
  /\ AtStage(r, "begin")
  /\ \/ /\ ~session.aborted
        /\ transaction' = [transaction EXCEPT ![r] = "begun"] /\ req' = [req EXCEPT ![r] = "run"]
        /\ writer' = [writer EXCEPT ![r] = "open"] /\ UNCHANGED <<session, answer, work, troubles>>
     \/ /\ ~session.aborted /\ Trouble /\ Throw(r, "capture")
     \/ session.aborted /\ Throw(r, "capture") /\ UNCHANGED troubles
  /\ UNCHANGED <<domain, proof, published, ran>>

\* domain.resume(): the race in handleWireRequest answers, and the process goes on in its own trace.
ResumeDomain(r) ==
  /\ AtStage(r, "run") /\ domain[r] = "running" /\ answer[r] = "none"
  /\ answer' = [answer EXCEPT ![r] = "continue"] /\ ran' = [ran EXCEPT ![r] = @ + 1]
  /\ UNCHANGED <<session, req, domain, writer, proof, transaction, work, published, troubles>>

\* The tracer reports the exit of a process of a domain and waits until its capture is complete.
ExitReported(r) ==
  /\ domain[r] = "running" /\ answer[r] = "continue" /\ AtStage(r, "run") /\ session.life = "open" /\ ~session.aborted
  /\ domain' = [domain EXCEPT ![r] = "exited"]
  /\ UNCHANGED <<session, req, answer, writer, proof, transaction, work, published, ran, troubles>>

\* runSpawn or the domain's exit: the process ran to its end, was suspended, or its run was lost.
Run(r) ==
  /\ AtStage(r, "run") /\ (domain[r] = "running" => session.aborted)
  /\ \/ /\ ~session.aborted
        /\ ran' = [ran EXCEPT ![r] = IF domain[r] = "no" THEN @ + 1 ELSE @]
        /\ \E to \in {"capture"} \cup (IF r \in Outlets THEN {"suspended"} ELSE {}) : req' = [req EXCEPT ![r] = to]
        /\ transaction' = [transaction EXCEPT ![r] = "finished"]
        /\ UNCHANGED <<session, answer, writer, work, troubles>>
     \/ /\ \E begun \in IF domain[r] = "no" THEN {0, 1} ELSE {0} : ran' = [ran EXCEPT ![r] = @ + begun]
        /\ IF session.aborted THEN UNCHANGED troubles ELSE Trouble
        /\ Throw(r, "execution")
  /\ UNCHANGED <<domain, proof, published>>

\* Mutant: a capture that failed leaves its observation behind, whatever the observation is worth.
UnattributedPartial(r, complete) == proof' = [proof EXCEPT ![r] = IF complete THEN "observation" ELSE @] /\ UNCHANGED session

\* The inner catch: a whole observation of a run that ended joins the session's evidence; otherwise the session says why not.
Unattributed(r, complete) ==
  IF complete /\ AtStage(r, "capture")
  THEN proof' = [proof EXCEPT ![r] = "observation"] /\ UNCHANGED session
  ELSE session' = [session EXCEPT !.incomplete = TRUE] /\ UNCHANGED proof

\* What the run did: delta, effects, dependencies, artifacts, certificate, publication; the process has run, so it is answered.
Capture(r) ==
  /\ req[r] \in {"capture", "suspended"}
  /\ \/ /\ proof' = [proof EXCEPT ![r] = "evidence"] /\ published' = TRUE /\ UNCHANGED <<session, troubles>>
     \/ \* The publication is refused, or its sources are incomplete: what was observed stands for it.
        \E p \in {"evidence"} \cup (IF AtStage(r, "capture") THEN {"observation"} ELSE {}) :
          proof' = [proof EXCEPT ![r] = p] /\ Trouble /\ UNCHANGED <<session, published>>
     \/ \E complete \in BOOLEAN : Unattributed(r, complete) /\ Trouble /\ UNCHANGED published
  /\ answer' = [answer EXCEPT ![r] = IF @ = "continue" THEN @
                                     ELSE IF AtStage(r, "suspended") THEN "suspended" ELSE "executed"]
  /\ req' = [req EXCEPT ![r] = "unwind"]
  /\ UNCHANGED <<domain, writer, transaction, work, ran>>

Finally(r) == AtStage(r, "unwind") /\ Unwind(r) /\ UNCHANGED <<session, answer, domain, proof, published, ran, troubles>>
-----------------------------------------------------------------------------
(* The rest of the session. *)

\* A process passed by runs where it is held, in the trace of its parent.
RunNatively(r) ==
  /\ answer[r] = "bypass" /\ Handled(r) /\ domain[r] # "native"
  /\ domain' = [domain EXCEPT ![r] = "native"] /\ ran' = [ran EXCEPT ![r] = @ + 1]
  /\ UNCHANGED <<session, req, answer, writer, proof, transaction, work, published, troubles>>

Abort ==
  /\ ~session.aborted /\ session.life # "sealed" /\ Trouble
  /\ session' = [session EXCEPT !.aborted = TRUE]
  /\ UNCHANGED <<req, answer, domain, writer, proof, transaction, work, published, ran>>

\* The command ended: its tree has exited, so no request of it is still held; the lifecycle drains what it tracks.
Seal ==
  /\ session.life = "open" /\ \A r \in Requests : req[r] = "new" \/ Handled(r)
  /\ session' = [session EXCEPT !.life = "sealed"]
  /\ UNCHANGED <<req, answer, domain, writer, proof, transaction, work, published, ran, troubles>>

RequestStep(r) ==
  \/ Inspect(r) \/ AcquireWork(r) \/ ShareReplay(r) \/ Replay(r) \/ Prepare(r) \/ ResumeDomain(r) \/ ExitReported(r)
  \/ Run(r) \/ Capture(r) \/ Finally(r) \/ RunNatively(r)

NestedNext == Abort \/ Seal \/ \E r \in Requests : RequestStep(r)

NestedSpec == NestedInit /\ [][NestedNext]_nestedVars
-----------------------------------------------------------------------------
\* A process's effects are made at most once: whoever was told to run it natively, to continue or that it
\* was executed is the only one, whatever failed and however far it had come (the catches of executeRequest).
EffectsOnce == \A r \in Requests : ran[r] <= 1

\* A sealed session that calls itself complete knows of every process it ran or replayed, by its evidence or its
\* observation; the others ran in their parent's trace (incompleteReasons at every throw after a run).
NothingUnseen ==
  (session.life = "sealed" /\ ~session.aborted /\ ~session.incomplete) =>
     \A r \in Requests : ran[r] > 0 => proof[r] # "none" \/ domain[r] = "native"

-------------------------------------------------------------------------------
(***************************************************************************)
(* The processes of an Actor's own command, each held at its exec while    *)
(* LinuxProcessReuseBackend.decideHeldExec (src/linux-process-backend.ts)  *)
(* decides whether it runs or a finished result is put in its place.  They *)
(* share one native observation: a few slots to learn launches in, the     *)
(* bindings kept, a count of claimed results, a checkpoint on disk.        *)
(***************************************************************************)

CONSTANTS
  Processes,
  Key, Duration,      \* Key[p], Duration[p]: what p executes and for how long when it runs
  LearnedLaunches,    \* LEARNED_LAUNCHES
  MaxBindings         \* store.limits.maxCertificates

\* A command has finitely many processes.
ASSUME ChildSetting == IsFiniteSet(Processes)

VARIABLES
  observation,  \* [closed, pending, claims, bindings: owners kept, learned: those learned from a completion]
  proc,         \* proc[p]: [pc, learning, reserved]
  acquired,     \* acquired[p]: "none", "live", "checkpoint": the plan p has acquired and not settled
  checkpoint    \* "stored", "claimed", "consumed"

childVars == <<observation, proc, acquired, checkpoint>>

ChildAt(p, pc) == proc[p].pc = pc

ChildInit ==
  /\ observation = [closed |-> FALSE, pending |-> 0, claims |-> 0, bindings |-> {}, learned |-> {}]
  /\ proc = [p \in Processes |-> [pc |-> "new", learning |-> FALSE, reserved |-> FALSE]]
  /\ acquired = [p \in Processes |-> "none"] /\ checkpoint \in {"stored", "consumed"}
-----------------------------------------------------------------------------
\* The decision is to run it: without an observation of its completion, the slot is given back at once.
Continue(p, watched) ==
  /\ proc' = [proc EXCEPT ![p].pc = IF watched /\ @ # "new" THEN "watched" ELSE "done", ![p].reserved = @ /\ watched]
  /\ observation' = IF proc[p].reserved /\ ~watched THEN [observation EXCEPT !.pending = @ - 1] ELSE observation

\* The slots are looked at before anything is awaited.
Begin(p) ==
  /\ ChildAt(p, "new")
  /\ proc' = [proc EXCEPT ![p].pc = "resolve",
       ![p].learning = ~observation.closed /\ observation.pending < LearnedLaunches]
  /\ UNCHANGED <<observation, acquired, checkpoint>>

\* The process's image is found, and only then a slot is taken; a failure lets it run.
Resolve(p) ==
  /\ ChildAt(p, "resolve")
  /\ \/ Continue(p, FALSE)
     \/ /\ proc' = [proc EXCEPT ![p].pc = "inspect", ![p].reserved = proc[p].learning]
        /\ observation' = [observation EXCEPT !.pending = @ + (IF proc[p].learning THEN 1 ELSE 0)]
  /\ UNCHANGED <<acquired, checkpoint>>

\* Nothing can be there for it, or its working directory is outside; otherwise a result is asked for.
InspectLaunch(p) ==
  /\ ChildAt(p, "inspect")
  /\ \/ \E watched \in {FALSE, proc[p].learning} : Continue(p, watched)
     \/ proc' = [proc EXCEPT ![p].pc = "acquire"] /\ UNCHANGED observation
  /\ UNCHANGED <<acquired, checkpoint>>

\* handoffs.acquire and restoreCheckpoint: a live result, the checkpoint as it is on disk, or none.
AcquireResult(p) ==
  /\ ChildAt(p, "acquire")
  /\ \/ \E found \in {"live"} \cup (IF checkpoint # "consumed" /\ ~observation.closed THEN {"checkpoint"} ELSE {}) :
          acquired' = [acquired EXCEPT ![p] = found] /\ proc' = [proc EXCEPT ![p].pc = IF found = "live" THEN "decide" ELSE "claim"]
        /\ UNCHANGED observation
     \/ Continue(p, proc[p].learning) /\ UNCHANGED acquired
  /\ UNCHANGED <<checkpoint>>

\* claimProcessCheckpoint: whoever comes second settles its plan and runs the process.
ClaimCheckpoint(p) ==
  /\ ChildAt(p, "claim")
  /\ IF checkpoint = "stored"
     THEN checkpoint' = "claimed" /\ proc' = [proc EXCEPT ![p].pc = "decide"] /\ UNCHANGED <<observation, acquired>>
     ELSE acquired' = [acquired EXCEPT ![p] = "none"] /\ Continue(p, proc[p].learning) /\ UNCHANGED checkpoint

\* settle: the claim on the checkpoint ends with it, consumed or free again.
Settled(p, consumed) ==
  /\ acquired' = [acquired EXCEPT ![p] = "none"]
  /\ checkpoint' = IF acquired[p] # "checkpoint" THEN checkpoint ELSE IF consumed THEN "consumed" ELSE "stored"

\* The replay is decided on and counted, or the result is unfit or fails to load and the finally settles it.
DecideLaunch(p) ==
  /\ ChildAt(p, "decide")
  /\ \/ /\ proc' = [proc EXCEPT ![p].pc = "replay", ![p].reserved = FALSE]
        /\ observation' = [observation EXCEPT !.claims = @ + 1, !.pending = @ - (IF proc[p].reserved THEN 1 ELSE 0)]
        /\ UNCHANGED <<acquired, checkpoint>>
     \/ Settled(p, FALSE) /\ Continue(p, FALSE)

\* The boundary did not adopt it: validation or commit refused, the process went.
Refused(p) ==
  /\ ChildAt(p, "replay") /\ Settled(p, FALSE)
  /\ proc' = [proc EXCEPT ![p].pc = "done"] /\ observation' = [observation EXCEPT !.claims = @ - 1]

\* bindings.size < maxCertificates.
Room == Cardinality(observation.bindings) < MaxBindings

\* adopted, then settle(true).  A checkpoint's commit refuses when the observation has been closed.
Adopted(p) ==
  /\ ChildAt(p, "replay") /\ (acquired[p] = "checkpoint" => ~observation.closed)
  /\ Settled(p, TRUE) /\ proc' = [proc EXCEPT ![p].pc = "adopted"]
  /\ \E bound \in {FALSE, ~observation.closed /\ Room} :
       observation' = [observation EXCEPT !.bindings = IF bound THEN @ \cup {p} ELSE @]

\* nativeLearningSlot: the launch of the same key, or when there is no room the shortest that was learned.
Victim(p) ==
  LET same == {q \in observation.learned : Key[q] = Key[p]} IN
  IF same # {} THEN same
  ELSE IF Cardinality(observation.learned) >= LearnedLaunches \/ ~Room
       THEN {q \in observation.learned : \A o \in observation.learned : Duration[q] <= Duration[o]} ELSE {}

\* Completion of a process that ran: learned if it is worth more than what it displaces; the slot is given back.
CompleteLaunch(p) ==
  /\ ChildAt(p, "watched")
  /\ proc' = [proc EXCEPT ![p].pc = "done", ![p].reserved = FALSE]
  /\ LET back == [observation EXCEPT !.pending = @ - 1] IN
     IF observation.closed
     THEN observation' = back
     ELSE IF IF Victim(p) = {} THEN Room ELSE \A v \in Victim(p) : Duration[p] > Duration[v]
     THEN LET gone == IF Victim(p) = {} THEN {} ELSE {CHOOSE v \in Victim(p) : TRUE} IN
          observation' = [back EXCEPT !.bindings = (@ \ gone) \cup {p}, !.learned = (@ \ gone) \cup {p}]
     ELSE observation' = back
  /\ UNCHANGED <<acquired, checkpoint>>

\* The process is lost, or its digest cannot be trusted: nothing is learned and the slot is given back.
Unlearned(p) ==
  /\ ChildAt(p, "watched")
  /\ proc' = [proc EXCEPT ![p].pc = "done", ![p].reserved = FALSE]
  /\ observation' = [observation EXCEPT !.pending = @ - 1] /\ UNCHANGED <<acquired, checkpoint>>

\* The Actor's call is over.
Close == ~observation.closed /\ observation' = [observation EXCEPT !.closed = TRUE] /\ UNCHANGED <<proc, acquired, checkpoint>>

ProcessStep(p) ==
  \/ Begin(p) \/ Resolve(p) \/ InspectLaunch(p) \/ AcquireResult(p) \/ ClaimCheckpoint(p) \/ DecideLaunch(p) \/ Refused(p) \/ Adopted(p)
  \/ CompleteLaunch(p) \/ Unlearned(p)

ChildNext == Close \/ \E p \in Processes : ProcessStep(p)

ChildSpec == ChildInit /\ [][ChildNext]_childVars
-----------------------------------------------------------------------------
Still == \A p \in Processes : proc[p].pc \in {"new", "done", "adopted"}

\* When no decision is open every shared count has come back: the claims are the adoptions, no slot is taken and no plan
\* held, and a checkpoint nobody adopted can be claimed again, whichever step of whichever process failed.
SharesReturned ==
  Still => /\ observation.claims = Cardinality({p \in Processes : ChildAt(p, "adopted")})
           /\ observation.pending = 0 /\ checkpoint # "claimed" /\ \A p \in Processes : acquired[p] = "none"

\* The effects of a nested execution happen once and none goes unseen, and what children share
\* comes back (executeRequest and decideHeldExec).
NestedSafe == EffectsOnce /\ NothingUnseen /\ SharesReturned

\* "Concurrent discovery is bounded": no more launches are being learned than there are slots.
DiscoveryBounded == observation.pending <= LearnedLaunches
===============================================================================
