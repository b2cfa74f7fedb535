------------------------------- MODULE HeldExec -------------------------------
(***************************************************************************)
(* The held-exec transport (LinuxHeldExecBoundary, src/linux-held-exec.ts) *)
(* and its native peer (src/linux-held-exec.c).  A callback is observed:   *)
(* its native child and every descendant stop at exec, and a job of the    *)
(* tracer asks the boundary, which lets the image run, or replays a known  *)
(* result in two phases: stage, validate, grant, arm the exit stub, commit *)
(* the host's effects, release, complete.                                  *)
(*                                                                         *)
(* A wire carries one line each way.  The boundary's end can be destroyed  *)
(* at any moment (retire): what the peer had sent is then lost, what was   *)
(* sent to it may or may not still arrive.  The peer's end closes with its *)
(* job.                                                                    *)
(***************************************************************************)
EXTENDS Naturals, FiniteSets

CONSTANT Processes   \* held launches of one observed child; all descend from it

VARIABLES
  observed,  \* observe(): "executing", "closed", then "returned" or "failed"
  barrier,   \* "none", or "descriptors": the whole tree stops for one decision
  retired,   \* the attachment's signal has aborted
  failure,   \* active.failure: the call is poisoned
  tracer,    \* [state, root]: "tracing", "draining", "released", "dead"; whether the root runs
  peer,      \* peer[p]: "unborn", "asking", "staged", "armed", "adopted", "native", "exited", "killed"
  serve,     \* serve[p]: where the boundary's handler is
  wire,      \* wire[p]: [down, up, open]
  claim,     \* claim[p]: the reservation of the result: "none", "held", "returned", "consumed"
  effect,    \* processes whose effects the boundary committed
  ran        \* processes whose own image ran

heldVars == <<observed, barrier, retired, failure, tracer, peer, serve, wire, claim, effect, ran>>

Quiet == [down |-> "none", up |-> "none", open |-> FALSE]
Jobs == {p \in Processes : peer[p] \in {"asking", "staged", "armed"}}
Pending == {p \in Processes : serve[p] \notin {"idle", "closed"}}
Prepared(p) == serve[p] \in {"granted", "committing", "completing"}

HeldInit ==
  /\ observed = "executing" /\ barrier \in {"none", "descriptors"}
  /\ retired = FALSE /\ failure = FALSE /\ tracer = [state |-> "tracing", root |-> TRUE]
  /\ peer = [p \in Processes |-> "unborn"] /\ serve = [p \in Processes |-> "idle"]
  /\ wire = [p \in Processes |-> Quiet] /\ claim = [p \in Processes |-> "none"]
  /\ effect = {} /\ ran = {}
-----------------------------------------------------------------------------
(* The native peer *)

\* A descendant stops at exec: its job asks, unless the tracer drains or the job cannot start.
Exec(p) ==
  /\ peer[p] = "unborn" /\ tracer.state # "dead"
  /\ barrier = "descriptors" => Jobs = {}
  /\ \/ /\ tracer.state = "tracing"
        /\ peer' = [peer EXCEPT ![p] = "asking"] /\ UNCHANGED ran
        /\ wire' = [wire EXCEPT ![p] = [down |-> "none", up |-> "request", open |-> TRUE]]
     \/ peer' = [peer EXCEPT ![p] = "native"] /\ ran' = ran \cup {p} /\ UNCHANGED wire
  /\ UNCHANGED <<observed, barrier, retired, failure, tracer, serve, claim, effect>>

Receives(p, line) == wire[p].down = line
Hangup(p) == ~wire[p].open /\ wire[p].down = "none"
Sends(p, line) == wire' = [wire EXCEPT ![p].down = "none", ![p].up = IF wire[p].open THEN line ELSE "none"]

\* The job ends and its image runs: nothing of the process was touched yet.
Continue(p) ==
  /\ peer' = [peer EXCEPT ![p] = "native"] /\ ran' = ran \cup {p}
  /\ UNCHANGED <<observed, barrier, retired, failure, tracer, serve, claim, effect>>

\* A job that fails after arming, or is told to, takes the whole tree with it.
Fatal ==
  /\ tracer' = [state |-> "dead", root |-> FALSE]
  /\ peer' = [q \in Processes |-> IF peer[q] \in {"adopted", "exited", "unborn"} THEN peer[q] ELSE "killed"]
  /\ UNCHANGED <<observed, barrier, retired, failure, serve, wire, claim, effect, ran>>

Declined(p) ==
  /\ peer[p] = "asking"
  /\ \/ (Receives(p, "C") \/ Hangup(p)) /\ wire' = [wire EXCEPT ![p] = Quiet]
     \/ Receives(p, "P") /\ Sends(p, "N")
  /\ Continue(p)

\* "O" hands the wire to the running image, whose end is told on it.
Watched(p) ==
  /\ peer[p] = "asking" /\ Receives(p, "O") /\ wire' = [wire EXCEPT ![p].down = "none"]
  /\ Continue(p)

Refused(p) == peer[p] = "asking" /\ Receives(p, "F") /\ Fatal

\* Staging owns private buffers and pins only.
Stage(p) ==
  /\ peer[p] = "asking" /\ Receives(p, "P") /\ Sends(p, "S")
  /\ peer' = [peer EXCEPT ![p] = "staged"]
  /\ UNCHANGED <<observed, barrier, retired, failure, tracer, serve, claim, effect, ran>>

Unstage(p) ==
  /\ peer[p] = "staged" /\ (Receives(p, "C") \/ Receives(p, "F") \/ Hangup(p))
  /\ wire' = [wire EXCEPT ![p] = Quiet] /\ Continue(p)

\* Mutant: the grant is acknowledged by a peer that has not armed its stub.
AckFirst(p) ==
  /\ peer[p] = "staged" /\ Receives(p, "G") /\ Sends(p, "A") /\ peer' = peer
  /\ UNCHANGED <<observed, barrier, retired, failure, tracer, serve, claim, effect, ran>>

\* replace_with_exit: from here the original image can no longer run.
Arm(p) ==
  /\ peer[p] = "staged" /\ Receives(p, "G") /\ Sends(p, "A")
  /\ peer' = [peer EXCEPT ![p] = "armed"]
  /\ UNCHANGED <<observed, barrier, retired, failure, tracer, serve, claim, effect, ran>>
ArmFails(p) == peer[p] = "staged" /\ Receives(p, "G") /\ Fatal

\* Descriptors, events and output are applied, then the exit code; completion must be told.
Complete(p) ==
  /\ peer[p] = "armed" /\ Receives(p, "R") /\ wire[p].open /\ Sends(p, "D")
  /\ peer' = [peer EXCEPT ![p] = "adopted"]
  /\ UNCHANGED <<observed, barrier, retired, failure, tracer, serve, claim, effect, ran>>
CompleteFails(p) ==
  /\ peer[p] = "armed" /\ (Receives(p, "R") \/ Receives(p, "F") \/ Hangup(p))
  /\ Fatal

\* A running image ends of itself.
Exit(p) ==
  /\ peer[p] = "native"
  /\ peer' = [peer EXCEPT ![p] = "exited"]
  /\ wire' = [wire EXCEPT ![p].up = IF wire[p].open /\ serve[p] = "watching" THEN "D" ELSE wire[p].up]
  /\ UNCHANGED <<observed, barrier, retired, failure, tracer, serve, claim, effect, ran>>
RootExit ==
  /\ tracer.root /\ tracer' = [tracer EXCEPT !.root = FALSE]
  /\ UNCHANGED <<observed, barrier, retired, failure, peer, serve, wire, claim, effect, ran>>

\* release_tracees: no job is left; what still runs is detached and its watchers are told.
ReleaseTree ==
  /\ tracer.state = "tracing" /\ (retired \/ ~tracer.root) /\ Jobs = {}
  /\ tracer' = [tracer EXCEPT !.state = "released"]
  /\ wire' = [p \in Processes |-> IF peer[p] = "native" /\ serve[p] = "watching" /\ wire[p].open THEN [wire[p] EXCEPT !.up = "C"] ELSE wire[p]]
  /\ UNCHANGED <<observed, barrier, retired, failure, peer, serve, claim, effect, ran>>
-----------------------------------------------------------------------------
(* The boundary: serve *)

\* The peer's end of the wire is gone and everything it sent has been read.
Lost(p) == wire[p].up = "none" /\ (~wire[p].open \/ peer[p] \in {"killed", "exited"} \/ (peer[p] = "native" /\ serve[p] # "watching"))

Reply(p, line) == wire' = [wire EXCEPT ![p].up = "none", ![p].down = IF wire[p].open THEN line ELSE "none"]
Goes(p, state) == serve' = [serve EXCEPT ![p] = state]

\* settle(prepared) gives the reservation back only if nothing was granted.
Settles(p, consumed) == claim' = [claim EXCEPT ![p] = IF @ # "held" THEN @ ELSE IF consumed THEN "consumed" ELSE "returned"]

\* readLine, parseRequest and heldBy: only a child of the living observer of a known execution.
Known(p) == observed \in {"executing", "closed"} /\ tracer.state # "dead"
Serve(p) ==
  /\ serve[p] = "idle" /\ wire[p].up = "request"
  /\ IF Known(p) THEN Goes(p, "deciding") /\ wire' = [wire EXCEPT ![p].up = "none"]
     ELSE Goes(p, "closed") /\ Reply(p, "C")
  /\ UNCHANGED <<observed, barrier, retired, failure, tracer, peer, claim, effect, ran>>

\* decide: continue, continue and watch, or replay a result it has reserved.
Decide(p) ==
  /\ serve[p] = "deciding" /\ ~retired
  /\ \/ Reply(p, "C") /\ Goes(p, "closed") /\ UNCHANGED claim
     \/ Reply(p, "O") /\ Goes(p, "watching") /\ UNCHANGED claim
     \/ Reply(p, "P") /\ Goes(p, "staging") /\ claim' = [claim EXCEPT ![p] = "held"]
  /\ UNCHANGED <<observed, barrier, retired, failure, tracer, peer, effect, ran>>

Staged(p) ==
  /\ serve[p] = "staging" /\ wire[p].up = "S"
  /\ Goes(p, "validating") /\ wire' = [wire EXCEPT ![p].up = "none"]
  /\ UNCHANGED <<observed, barrier, retired, failure, tracer, peer, claim, effect, ran>>

NotStaged(p) ==
  /\ serve[p] = "staging" /\ wire[p].up = "N"
  /\ Goes(p, "closed") /\ Settles(p, FALSE) /\ wire' = [wire EXCEPT ![p] = Quiet]
  /\ UNCHANGED <<observed, barrier, retired, failure, tracer, peer, effect, ran>>

\* validate, then the grant: a lost acknowledgement may mean the stub is armed.
Validate(p) ==
  /\ serve[p] = "validating" /\ ~retired
  /\ \/ Reply(p, "G") /\ Goes(p, "granted") /\ UNCHANGED claim
     \/ Reply(p, "C") /\ Goes(p, "closed") /\ Settles(p, FALSE)
  /\ UNCHANGED <<observed, barrier, retired, failure, tracer, peer, effect, ran>>

Acknowledged(p) ==
  /\ serve[p] = "granted" /\ wire[p].up = "A" /\ ~retired
  /\ Goes(p, "committing") /\ wire' = [wire EXCEPT ![p].up = "none"]
  /\ UNCHANGED <<observed, barrier, retired, failure, tracer, peer, claim, effect, ran>>

Commit(p) ==
  /\ serve[p] = "committing" /\ Reply(p, "R") /\ Goes(p, "completing") /\ effect' = effect \cup {p}
  /\ UNCHANGED <<observed, barrier, retired, failure, tracer, peer, claim, ran>>

Adopted(p) ==
  /\ serve[p] = "completing" /\ wire[p].up = "D"
  /\ Goes(p, "closed") /\ Settles(p, TRUE) /\ wire' = [wire EXCEPT ![p] = Quiet]
  /\ UNCHANGED <<observed, barrier, retired, failure, tracer, peer, effect, ran>>

Unwatch(p) ==
  /\ serve[p] = "watching" /\ (wire[p].up \in {"C", "D"} \/ Lost(p))
  /\ Goes(p, "closed") /\ wire' = [wire EXCEPT ![p].up = "none", ![p].open = FALSE]
  /\ UNCHANGED <<observed, barrier, retired, failure, tracer, peer, claim, effect, ran>>

Poisons(p) == Prepared(p)

\* Anything thrown: an abort where it is looked at, a lost peer, a failed commit.
Fail(p) ==
  /\ \/ serve[p] \in {"deciding", "committing"}
     \/ serve[p] \in {"validating", "granted"} /\ retired
     \/ serve[p] \in {"staging", "granted", "completing"} /\ Lost(p)
  /\ failure' = (failure \/ Poisons(p))
  /\ Reply(p, IF failure' THEN "F" ELSE "C") /\ Goes(p, "closed") /\ Settles(p, Prepared(p))
  /\ UNCHANGED <<observed, barrier, retired, tracer, peer, effect, ran>>
-----------------------------------------------------------------------------
(* observe and close *)

\* retire: the signal aborts and every accepted socket is destroyed.
Destroyed(p) ==
  IF serve[p] \in {"idle", "closed"} THEN {wire[p]}
  ELSE {[down |-> d, up |-> "none", open |-> FALSE] : d \in {wire[p].down, "none"}}
Retire ==
  /\ retired' = TRUE
  /\ wire' \in {w \in [Processes -> UNION {Destroyed(p) : p \in Processes}] : \A p \in Processes : w[p] \in Destroyed(p)}

\* The caller's signal, or the boundary closing, retires the observation of a running call.
Abort ==
  /\ observed = "executing" /\ ~retired /\ Retire
  /\ UNCHANGED <<observed, barrier, failure, tracer, peer, serve, claim, effect, ran>>

\* The callback has returned: a child that still runs is retired, one that ended is drained.
CloseCall ==
  /\ observed = "executing" /\ observed' = "closed"
  /\ IF tracer.root THEN Retire ELSE UNCHANGED <<retired, wire>>
  /\ UNCHANGED <<barrier, failure, tracer, peer, serve, claim, effect, ran>>

\* The completion: the tracer acknowledged or closed, and every pending handler settled.
Return ==
  /\ observed = "closed" /\ tracer.state \in {"released", "dead"} /\ Pending = {}
  /\ observed' = IF failure THEN "failed" ELSE "returned"
  /\ UNCHANGED <<barrier, retired, failure, tracer, peer, serve, wire, claim, effect, ran>>

PeerStep(p) ==
  \/ Declined(p) \/ Watched(p) \/ Refused(p) \/ Stage(p) \/ Unstage(p) \/ Arm(p) \/ ArmFails(p) \/ Complete(p) \/ CompleteFails(p)
ServeStep(p) ==
  \/ Serve(p) \/ Decide(p) \/ Staged(p) \/ NotStaged(p) \/ Validate(p) \/ Acknowledged(p) \/ Commit(p) \/ Adopted(p)
  \/ Unwatch(p) \/ Fail(p)

HeldNext ==
  \/ ReleaseTree \/ Abort \/ CloseCall \/ Return \/ RootExit
  \/ \E p \in Processes : Exec(p) \/ Exit(p) \/ PeerStep(p) \/ ServeStep(p)

\* Both ends read what they are sent and go on as long as one of them can.
HeldRuns == ReleaseTree \/ Return \/ \E p \in Processes : PeerStep(p) \/ ServeStep(p)

HeldSpec == HeldInit /\ [][HeldNext]_heldVars /\ WF_heldVars(HeldRuns)
-----------------------------------------------------------------------------
\* A launch happens once: whose effects the boundary commits, its image never ran, for
\* whatever lines the wire lost.
RunsOnce == effect \cap ran = {}

\* A reservation goes back only if the peer has touched nothing and never will.
ReturnedUnused ==
  \A p \in Processes : claim[p] = "returned" => peer[p] \notin {"armed", "adopted"} /\ p \notin effect

\* An observed call that returns owns no half of a handoff: what was committed was also
\* adopted, nothing of its tree was killed, and no handler can still change anything.
ReturnsWhole ==
  observed = "returned" =>
    /\ \A p \in Processes : p \in effect => peer[p] = "adopted"
    /\ \A p \in Processes : peer[p] # "killed"
    /\ Pending = {}

\* The promises of a replayed launch (serve): it happens once, a reservation goes back unused
\* only, and an observed call returns whole.
HeldSafe == RunsOnce /\ ReturnedUnused /\ ReturnsWhole
=============================================================================
