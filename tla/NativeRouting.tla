---------------------------- MODULE NativeRouting -----------------------------
(***************************************************************************)
(* How observations reach the native tracer and leave it again, in two parts *)
(* with variables of their own: the owner with its worker thread, and the  *)
(* route a backend opens to it.  Each part has its own specification.      *)
(***************************************************************************)
EXTENDS Naturals, FiniteSets

(***************************************************************************)
(* The native owner: one worker thread traces native processes for every   *)
(* backend and workspace of the process, each behind a connection of its   *)
(* own (src/native-owner.ts), served by src/native-worker.ts.              *)
(*                                                                         *)
(* A backend sends it observations of native launches, whose replays count *)
(* themselves in a word both threads share (`claims`), and works: process  *)
(* sessions the worker opens and the caller releases                       *)
(* (SynchronousProcessObserver, src/linux-process-sync.ts).  A port keeps  *)
(* its messages in order; a worker may exit at any moment and a            *)
(* synchronous caller waits for at most its deadline.                      *)
(***************************************************************************)

CONSTANTS
  Workers,       \* worker threads, in the order they are started
  Connections,   \* the backend's observers, in order: a failed one is replaced
  Observations, Works,
  MaxReplays     \* bound: replays of one observation counted at a time

ASSUME OwnerSetting == Workers \subseteq Nat \ {0} /\ Connections \subseteq Nat \ {0}

VARIABLES
  owner,     \* nativeOwner: the worker new connections go to, 0 for none
  worker,    \* worker[g]: "none", "running", "stopping", "exited"
  conn,      \* conn[c]: [state, worker]; "none", "open", "closing", "closed"
  current,   \* the backend's `synchronous`: a connection or 0
  far,       \* far[c]: the worker's end: "none", "serving", "closing", "closed"
  obs,       \* obs[o]: [stage, mode, conn]: the caller's side of an observation
  side,      \* side[o]: the worker's side: "none", "queued", "running", "claimed", "applied", "replied", "failed"
  told,      \* observations whose "finished" was sent
  claims,    \* claims[o]: the shared word
  changed,    \* observations in which a replay changed the host
  nativeWork, \* nativeWork[w]: [stage, conn]: the caller's side of a work
  served     \* served[w]: a work's session: "none", "queued", "dropped", "opening", "open", "cancelled", "disposed", "refused"

ownerVars == <<owner, worker, conn, current, far, obs, side, told, claims, changed, nativeWork, served>>

OwnerInit ==
  /\ owner = 0 /\ worker = [g \in Workers |-> "none"]
  /\ conn = [c \in Connections |-> [state |-> "none", worker |-> 0]] /\ current = 0
  /\ far = [c \in Connections |-> "none"]
  /\ obs = [o \in Observations |-> [stage |-> "none", mode |-> "none", conn |-> 0]]
  /\ side = [o \in Observations |-> "none"] /\ told = {}
  /\ claims = [o \in Observations |-> 0] /\ changed = {}
  /\ nativeWork = [w \in Works |-> [stage |-> "none", conn |-> 0]] /\ served = [w \in Works |-> "none"]

Failed(c) == conn[c].state = "closed"
Unconnected(c) == conn[c].state = "none"
Mine(c) == {o \in Observations : obs[o].conn = c}
Held(c) == {w \in Works : nativeWork[w].conn = c}
Clients(g) == {c \in Connections : conn[c].worker = g /\ ~Failed(c)}
-----------------------------------------------------------------------------
(* Connections *)

\* connectNativeOwner: an owner that is shutting down takes no new client.
Connect(c, g) ==
  /\ Unconnected(c) /\ \A d \in Connections : d < c => ~Unconnected(d)
  /\ IF owner # 0 THEN g = owner ELSE worker[g] = "none" /\ \A h \in Workers : h < g => worker[h] # "none"
  /\ owner' = g /\ worker' = [worker EXCEPT ![g] = IF worker[g] = "none" THEN "running" ELSE worker[g]]
  /\ conn' = [conn EXCEPT ![c] = [state |-> "open", worker |-> g]]
  /\ far' = [far EXCEPT ![c] = "serving"]

\* processOwner: the current observer, or a new one.
Use(c) ==
  \/ c = current /\ current # 0 /\ UNCHANGED <<owner, worker, conn, far, current>>
  \/ current = 0 /\ (\E g \in Workers : Connect(c, g)) /\ current' = c

\* SynchronousProcessObserver.close: asked once; the worker closes the port when it is done.
Closing(c) ==
  /\ conn' = [conn EXCEPT ![c].state = IF conn[c].state = "open" THEN "closing" ELSE conn[c].state]
  /\ far' = [far EXCEPT ![c] = IF conn[c].state = "open" /\ far[c] = "serving" THEN "asked" ELSE far[c]]
  /\ current' = IF current = c THEN 0 ELSE current

\* The port closed: this connection fails; the last one of a worker shuts it down.
Closed(c) ==
  /\ conn[c].state \in {"open", "closing"} /\ far[c] = "closed"
  /\ conn' = [conn EXCEPT ![c].state = "closed"]
  /\ LET g == conn[c].worker  last == Clients(g) = {c}
     IN /\ worker' = [worker EXCEPT ![g] = IF worker[g] = "running" /\ last THEN "stopping" ELSE worker[g]]
        /\ owner' = IF owner = g /\ last THEN 0 ELSE owner
  /\ UNCHANGED <<current, far, obs, side, told, claims, changed, nativeWork, served>>

\* The worker exits, by itself or as it was told: what it held goes with it, its clients fail.
Exit(g) ==
  /\ worker[g] \in {"running", "stopping"} /\ worker' = [worker EXCEPT ![g] = "exited"]
  /\ owner' = IF owner = g THEN 0 ELSE owner
  /\ conn' = [c \in Connections |-> IF conn[c].worker = g THEN [conn[c] EXCEPT !.state = "closed"] ELSE conn[c]]
  /\ far' = [c \in Connections |-> IF conn[c].worker = g THEN "closed" ELSE far[c]]
  /\ served' = [w \in Works |-> IF nativeWork[w].conn # 0 /\ conn[nativeWork[w].conn].worker = g THEN "disposed"
                         ELSE served[w]]
  /\ UNCHANGED <<current, obs, side, told, claims, changed, nativeWork>>
-----------------------------------------------------------------------------
(* Observations: attachSynchronous, and observeSynchronous on the worker *)

\* A connection that has failed throws at once: the child starts unobserved.
Attach(o) ==
  /\ obs[o].stage = "none"
  /\ \E c \in Connections, mode \in {"synchronous", "asynchronous"} :
       /\ Use(c)
       /\ obs' = [obs EXCEPT ![o] = [stage |-> "attaching", mode |-> mode, conn |-> c]]
       /\ side' = [side EXCEPT ![o] = IF far'[c] = "serving" THEN "queued" ELSE "none"]
  /\ UNCHANGED <<told, claims, changed, nativeWork, served>>

Served(o) ==
  obs[o].conn # 0 /\ far[obs[o].conn] \in {"serving", "asked"} /\ worker[conn[obs[o].conn].worker] \in {"running", "stopping"}

\* The boundary attached its observer to the gate, or could not.
ObserveGate(o) ==
  /\ side[o] = "queued" /\ Served(o) /\ side' \in {[side EXCEPT ![o] = "running"], [side EXCEPT ![o] = "failed"]}
  /\ UNCHANGED <<owner, worker, conn, current, far, obs, told, claims, changed, nativeWork, served>>

Attached(o) ==
  /\ obs[o].stage = "attaching" /\ side[o] \in {"running", "replied"} /\ ~Failed(obs[o].conn)
  /\ obs' = [obs EXCEPT ![o].stage = "attached"]
  /\ UNCHANGED <<owner, worker, conn, current, far, side, told, claims, changed, nativeWork, served>>

\* decideHeldExec: a replay is counted before it is offered to the held process,
ClaimReplay(o) ==
  /\ side[o] = "running" /\ Served(o) /\ obs[o].stage = "attached"
  /\ claims[o] < MaxReplays /\ side' = [side EXCEPT ![o] = "claimed"]
  /\ claims' = [claims EXCEPT ![o] = claims[o] + 1]
  /\ UNCHANGED <<owner, worker, conn, current, far, obs, told, changed, nativeWork, served>>

\* changes the host,
Apply(o) ==
  /\ side[o] = "claimed" /\ Served(o)
  /\ side' = [side EXCEPT ![o] = "applied"] /\ changed' = changed \cup {o}
  /\ UNCHANGED <<owner, worker, conn, current, far, obs, told, claims, nativeWork, served>>

\* and is counted back only if it consumed nothing.
SettleReplay(o) ==
  /\ side[o] \in {"claimed", "applied"} /\ Served(o) /\ side' = [side EXCEPT ![o] = "running"]
  /\ claims' = [claims EXCEPT ![o] = IF side[o] = "claimed" /\ claims[o] > 0 THEN claims[o] - 1 ELSE claims[o]]
  /\ UNCHANGED <<owner, worker, conn, current, far, obs, told, changed, nativeWork, served>>

\* The child has ended, or its call retires it: the worker is told, once.
FinishObservation(o) ==
  /\ obs[o].stage = "attached" /\ obs' = [obs EXCEPT ![o].stage = "finishing"] /\ told' = told \cup {o}
  /\ UNCHANGED <<owner, worker, conn, current, far, side, claims, changed, nativeWork, served>>

\* The observer's completion, asynchronous ones also before they are told.
Reply(o) ==
  /\ side[o] = "running" /\ Served(o) /\ (o \in told \/ obs[o].mode = "asynchronous" \/ far[obs[o].conn] = "asked")
  /\ side' \in {[side EXCEPT ![o] = "replied"], [side EXCEPT ![o] = "failed"]}
  /\ UNCHANGED <<owner, worker, conn, current, far, obs, told, claims, changed, nativeWork, served>>

Completed(o) ==
  /\ side[o] = "replied" /\ ~Failed(obs[o].conn)
  /\ obs[o].stage = "finishing" \/ (obs[o].stage = "attached" /\ obs[o].mode = "asynchronous")
  /\ obs' = [obs EXCEPT ![o].stage = "done"]
  /\ UNCHANGED <<owner, worker, conn, current, far, side, told, claims, changed, nativeWork, served>>

\* An error reply, a connection that failed, or a synchronous deadline.
ObservationBroken(o) ==
  LET waiting == obs[o].stage \in {"attaching", "finishing"} \/ (obs[o].stage = "attached" /\ obs[o].mode = "asynchronous")
      late == obs[o].stage = "attaching" \/ obs[o].mode = "synchronous"
  IN waiting /\ (side[o] = "failed" \/ Failed(obs[o].conn) \/ late)

\* Mutant: the caller trusts an error reply's word that nothing was claimed.
VerdictOf(o) == IF side[o] = "failed" THEN "fallback" ELSE IF claims[o] > 0 THEN "poisoned" ELSE "fallback"
Verdict(o) == IF claims[o] > 0 THEN "poisoned" ELSE "fallback"

\* failed(): the connection is closed and no longer used; what was claimed poisons the call.
Fail(o) ==
  /\ ObservationBroken(o) /\ Closing(obs[o].conn)
  /\ obs' = [obs EXCEPT ![o].stage = Verdict(o)]
  /\ UNCHANGED <<owner, worker, side, told, claims, changed, nativeWork, served>>
-----------------------------------------------------------------------------
(* Works: open and release *)

OpenWork(w) ==
  /\ nativeWork[w].stage = "none"
  /\ \E c \in Connections :
       /\ Use(c) /\ nativeWork' = [nativeWork EXCEPT ![w] = [stage |-> "opening", conn |-> c]]
       /\ served' = [served EXCEPT ![w] = IF far'[c] = "serving" THEN "queued" ELSE "refused"]
  /\ UNCHANGED <<obs, side, told, claims, changed>>

Alive(w) == nativeWork[w].conn # 0 /\ worker[conn[nativeWork[w].conn].worker] \in {"running", "stopping"}

Receive(w) ==
  /\ served[w] \in {"queued", "dropped"} /\ Alive(w) /\ far[nativeWork[w].conn] \in {"serving", "asked"}
  /\ served' = [served EXCEPT ![w] = IF served[w] = "queued" THEN "opening" ELSE "cancelled"]
  /\ UNCHANGED <<owner, worker, conn, current, far, obs, side, told, claims, changed, nativeWork>>

\* openSession: one that was aborted while it opened is disposed by its own opening.
Opened(w) ==
  /\ served[w] \in {"opening", "cancelled"} /\ Alive(w)
  /\ served' = [served EXCEPT ![w] = IF served[w] = "opening" THEN "open" ELSE "disposed"]
  /\ UNCHANGED <<owner, worker, conn, current, far, obs, side, told, claims, changed, nativeWork>>

Ready(w) ==
  /\ nativeWork[w].stage = "opening"
  /\ \/ served[w] = "open" /\ ~Failed(nativeWork[w].conn)
        /\ nativeWork' = [nativeWork EXCEPT ![w].stage = "open"]
     \/ (served[w] \in {"disposed", "refused"} \/ Failed(nativeWork[w].conn))
        /\ nativeWork' = [nativeWork EXCEPT ![w].stage = "gone"]
  /\ UNCHANGED <<owner, worker, conn, current, far, obs, side, told, claims, changed, served>>

\* dispose, an open that is aborted, or the lease's finalization: "release".
ReleaseWork(w) ==
  /\ nativeWork[w].stage \in {"opening", "open"}
  /\ nativeWork' = [nativeWork EXCEPT ![w].stage = "gone"]
  /\ served' = [served EXCEPT ![w] = CASE served[w] = "queued" -> "dropped" [] served[w] = "opening" -> "cancelled"
       [] served[w] = "open" -> "disposed" [] OTHER -> served[w]]
  /\ UNCHANGED <<owner, worker, conn, current, far, obs, side, told, claims, changed>>

\* "close" behind every earlier message: works are aborted and disposed, then the port closes.
Shut(c) ==
  /\ far[c] = "asked" /\ worker[conn[c].worker] \in {"running", "stopping"}
  /\ \A o \in Mine(c) : side[o] # "queued"
  /\ \A w \in Held(c) : served[w] \notin {"queued", "dropped"}
  /\ far' = [far EXCEPT ![c] = "closing"]
  /\ served' = [w \in Works |-> IF w \notin Held(c) THEN served[w]
       ELSE CASE served[w] = "opening" -> "cancelled" [] served[w] = "open" -> "disposed" [] OTHER -> served[w]]
  /\ UNCHANGED <<owner, worker, conn, current, obs, side, told, claims, changed, nativeWork>>

ShutDone(c) ==
  /\ far[c] = "closing" /\ far' = [far EXCEPT ![c] = "closed"]
  /\ UNCHANGED <<owner, worker, conn, current, obs, side, told, claims, changed, nativeWork, served>>

\* The backend's disposal closes the connection it uses.
DisposeBackend ==
  /\ current # 0 /\ Closing(current)
  /\ UNCHANGED <<owner, worker, obs, side, told, claims, changed, nativeWork, served>>

OwnerProgress ==
  \/ \E o \in Observations : ObserveGate(o) \/ Attached(o) \/ SettleReplay(o) \/ Reply(o) \/ Completed(o) \/ Fail(o)
  \/ \E w \in Works : Receive(w) \/ Opened(w) \/ Ready(w)
  \/ \E c \in Connections : Closed(c) \/ Shut(c) \/ ShutDone(c)
  \/ \E g \in Workers : worker[g] = "stopping" /\ Exit(g)

OwnerNext ==
  \/ OwnerProgress \/ DisposeBackend
  \/ \E o \in Observations : Attach(o) \/ ClaimReplay(o) \/ Apply(o) \/ FinishObservation(o)
  \/ \E w \in Works : OpenWork(w) \/ ReleaseWork(w)
  \/ \E g \in Workers : Exit(g)

OwnerSpec == OwnerInit /\ [][OwnerNext]_ownerVars /\ WF_ownerVars(OwnerProgress)
-----------------------------------------------------------------------------
\* A caller that goes on as though nothing had happened had nothing happen to it: an
\* observation falls back only while no replay of it changed the host.
FallsBackCleanStep == \A o \in Observations : obs[o].stage # "fallback" /\ obs'[o].stage = "fallback" => o \notin changed
FallsBackClean == [][FallsBackCleanStep]_ownerVars

\* Nothing outlives its release: a work that is gone leaves no session open, however its
\* opening, its release, the connection's close and the worker's exit fall.
NoOrphanSession ==
  \A w \in Works :
    nativeWork[w].stage = "gone" => served[w] \in {"queued", "dropped", "opening", "cancelled", "disposed", "refused"}

-------------------------------------------------------------------------------
(***************************************************************************)
(* The native route of LinuxProcessReuseBackend (src/linux-process-        *)
(* backend): the held-exec boundary it opens on demand, its retirement,    *)
(* the callbacks observed through it (observeNative), and the executor     *)
(* that replays a completed whole command instead of running it            *)
(* (completedReplayExecutor).                                              *)
(***************************************************************************)

CONSTANTS
  Boundaries,   \* LinuxHeldExecBoundary instances, in the order they are opened
  Callbacks,    \* calls of observeNative
  Commands      \* requests to the completed replay executor

ASSUME RouteSetting == Boundaries \subseteq Nat \ {0}

VARIABLES
  boundary,   \* boundary[b]: "none", "probing", "ready", "closing", "unavailable", "closed"
  aborted,    \* boundaries whose controller aborted
  heldExec,   \* the entry the backend holds, 0 for none
  retirement, \* [state, boundary]: "none", "waiting", "closing", "resetting"
  routeDisposed, \* "no", "retiring", "stores", "done"
  callback,   \* callback[o]: [stage, boundary]
  command     \* command[r]: [stage, effect, ran]

routeVars == <<boundary, aborted, heldExec, retirement, routeDisposed, callback, command>>

NoRetirement == [state |-> "none", boundary |-> 0]
RouteInit ==
  /\ boundary = [b \in Boundaries |-> "none"] /\ aborted = {} /\ heldExec = 0
  /\ retirement = NoRetirement /\ routeDisposed = "no"
  /\ callback = [o \in Callbacks |-> [stage |-> "none", boundary |-> 0]]
  /\ command = [r \in Commands |-> [stage |-> "none", effect |-> FALSE, ran |-> FALSE]]
-----------------------------------------------------------------------------
(* The boundary *)

Admits == routeDisposed = "no" /\ retirement.state = "none"

\* heldBoundary: the entry at hand, whatever became of it, or a new one that probes.
HeldBoundary(b) ==
  /\ Admits
  /\ IF heldExec # 0 THEN b = heldExec /\ UNCHANGED <<boundary, heldExec>>
     ELSE /\ boundary[b] = "none" /\ \A c \in Boundaries : c < b => boundary[c] # "none"
          /\ boundary' = [boundary EXCEPT ![b] = "probing"] /\ heldExec' = b

\* LinuxHeldExecBoundary.open: an abort is noticed last, and closes what was opened.
Probed(b) ==
  /\ boundary[b] = "probing"
  /\ boundary' \in {[boundary EXCEPT ![b] = "unavailable"]} \cup (IF b \in aborted THEN {} ELSE {[boundary EXCEPT ![b] = "ready"]})
  /\ UNCHANGED <<aborted, heldExec, retirement, routeDisposed, callback, command>>

\* resetNativeObservation: one retirement at a time; the entry is given up at once.
Retire ==
  /\ retirement' = [state |-> "waiting", boundary |-> heldExec]
  /\ heldExec' = 0 /\ aborted' = aborted \cup ({heldExec} \ {0})
Reset ==
  /\ routeDisposed = "no" /\ retirement.state = "none" /\ Retire
  /\ UNCHANGED <<boundary, routeDisposed, callback, command>>

\* The probe of the retired entry has settled: a ready boundary is closed.
RetireReady ==
  /\ retirement.state = "waiting"
  /\ LET b == retirement.boundary
     IN IF b # 0 /\ boundary[b] = "ready"
        THEN retirement' = [retirement EXCEPT !.state = "closing"] /\ boundary' = [boundary EXCEPT ![b] = "closing"]
        ELSE /\ b # 0 => boundary[b] # "probing"
             /\ retirement' = [retirement EXCEPT !.state = "resetting"] /\ UNCHANGED boundary
  /\ UNCHANGED <<aborted, heldExec, routeDisposed, callback, command>>

Observed(b) == {o \in Callbacks : callback[o] = [stage |-> "observing", boundary |-> b]}

\* close waits for the calls it aborted; they return when their callbacks do.
RetireClosed ==
  /\ retirement.state = "closing" /\ Observed(retirement.boundary) = {}
  /\ boundary' = [boundary EXCEPT ![retirement.boundary] = "closed"]
  /\ retirement' = [retirement EXCEPT !.state = "resetting"]
  /\ UNCHANGED <<aborted, heldExec, routeDisposed, callback, command>>

\* The worker's own route resets, or its connection closes, and new boundaries may open.
ResetDone ==
  /\ retirement.state = "resetting" /\ retirement' = NoRetirement
  /\ routeDisposed' = IF routeDisposed = "retiring" THEN "stores" ELSE routeDisposed
  /\ UNCHANGED <<boundary, aborted, heldExec, callback, command>>

\* dispose: a retirement under way is the disposal's own.
DisposeRoute ==
  /\ routeDisposed = "no" /\ routeDisposed' = "retiring"
  /\ IF retirement.state = "none" THEN Retire ELSE UNCHANGED <<retirement, heldExec, aborted>>
  /\ UNCHANGED <<boundary, callback, command>>

\* The replay workspace and the store drain what still uses them.
RouteDisposed ==
  /\ routeDisposed = "stores" /\ routeDisposed' = "done"
  /\ \A r \in Commands : command[r].stage \notin {"planning", "replaying"}
  /\ UNCHANGED <<boundary, aborted, heldExec, retirement, callback, command>>
-----------------------------------------------------------------------------
(* Observed callbacks *)

\* observeNative: something could be learned or reused, and a boundary may be had.
Seek(o) ==
  /\ callback[o].stage = "none"
  /\ \/ \E b \in Boundaries : HeldBoundary(b) /\ callback' = [callback EXCEPT ![o] = [stage |-> "waiting", boundary |-> b]]
     \/ callback' = [callback EXCEPT ![o].stage = "unobserved"] /\ UNCHANGED <<boundary, heldExec>>
  /\ UNCHANGED <<aborted, retirement, routeDisposed, command>>

\* A boundary that is closing runs the callback unobserved.
BeginCallback(o) ==
  /\ callback[o].stage = "waiting" /\ boundary[callback[o].boundary] # "probing"
  /\ callback' = [callback EXCEPT ![o].stage = IF boundary[callback[o].boundary] = "ready" THEN "observing" ELSE "unobserved"]
  /\ UNCHANGED <<boundary, aborted, heldExec, retirement, routeDisposed, command>>

End(o) ==
  /\ callback[o].stage \in {"observing", "unobserved"} /\ callback' = [callback EXCEPT ![o].stage = "done"]
  /\ UNCHANGED <<boundary, aborted, heldExec, retirement, routeDisposed, command>>
-----------------------------------------------------------------------------
(* Completed commands *)

Goes(r, state) == command' = [command EXCEPT ![r].stage = state]

\* A disposed backend, or nothing recorded for the shell, leaves the command to the host.
Request(r) ==
  /\ command[r].stage = "none"
  /\ \/ routeDisposed = "no" /\ Goes(r, "planning")
     \/ Goes(r, "host")
  /\ UNCHANGED <<boundary, aborted, heldExec, retirement, routeDisposed, callback>>

\* plan, then the last synchronous validation before the effects.
Planned(r) ==
  /\ command[r].stage = "planning"
  /\ \/ routeDisposed = "no" /\ Goes(r, "replaying")
     \/ Goes(r, "host")
  /\ UNCHANGED <<boundary, aborted, heldExec, retirement, routeDisposed, callback>>

\* replayFilesystemEffects: applied; failed and restored; or failed and not restored.
Replayed(r) ==
  /\ command[r].stage = "replaying"
  /\ \/ command' = [command EXCEPT ![r] = [command[r] EXCEPT !.stage = "committed", !.effect = TRUE]]
     \/ Goes(r, "host")
     \/ command' = [command EXCEPT ![r] = [command[r] EXCEPT !.stage = "thrown", !.effect = TRUE]]
  /\ UNCHANGED <<boundary, aborted, heldExec, retirement, routeDisposed, callback>>

\* The output is delivered; a consumer that throws ends the command.
Delivered(r) ==
  /\ command[r].stage = "committed" /\ (Goes(r, "returned") \/ Goes(r, "thrown"))
  /\ UNCHANGED <<boundary, aborted, heldExec, retirement, routeDisposed, callback>>

RunOnHost(r) ==
  /\ command[r].stage = "host"
  /\ command' = [command EXCEPT ![r] = [command[r] EXCEPT !.stage = "returned", !.ran = TRUE]]
  /\ UNCHANGED <<boundary, aborted, heldExec, retirement, routeDisposed, callback>>

RouteProgress ==
  \/ \E b \in Boundaries : Probed(b)
  \/ RetireReady \/ RetireClosed \/ ResetDone \/ RouteDisposed
  \/ \E o \in Callbacks : BeginCallback(o) \/ End(o)
  \/ \E r \in Commands : Planned(r) \/ Replayed(r) \/ Delivered(r) \/ RunOnHost(r)

RouteNext ==
  \/ RouteProgress \/ Reset \/ DisposeRoute
  \/ \E o \in Callbacks : Seek(o)
  \/ \E r \in Commands : Request(r)

RouteSpec == RouteInit /\ [][RouteNext]_routeVars /\ WF_routeVars(RouteProgress)
-----------------------------------------------------------------------------
\* Only one boundary at a time owns the process's startup hook, and a closed one observes
\* nothing, whatever resets, probes and callbacks overlap.
OneBoundary ==
  /\ \A b, c \in Boundaries : {boundary[b], boundary[c]} \subseteq {"probing", "ready", "closing"} => b = c
  /\ \A b \in Boundaries : boundary[b] = "closed" => Observed(b) = {}

\* A command happens once: replayed or run by the host, and never both.
CommandOnce == \A r \in Commands : ~(command[r].effect /\ command[r].ran)
===============================================================================
