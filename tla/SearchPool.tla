------------------------------ MODULE SearchPool ------------------------------
(***************************************************************************)
(* The processes of captured searches: ClosedSearchProcessPool and its     *)
(* workers (closed-search-process.mjs), the profile that owns a pool       *)
(* (createClosedSearchProfile in pi-tool-invocation.ts) and the session    *)
(* that prepares, resets and disposes of profiles (extension.ts).          *)
(*                                                                         *)
(* A run is one search, of the Actor or of a producer.  It binds to the    *)
(* profile of the moment, and only later borrows a worker of its pool; the *)
(* worker asks the run for inputs, which are read or searched with an      *)
(* engine the profile pinned on disk.  A pool retires once: producers are  *)
(* aborted, the Actor's runs are waited for, then the engine is released.  *)
(* Process numbers are used again once nobody knows the process.           *)
(***************************************************************************)
EXTENDS SettingsStore

CONSTANTS
  ActorRuns, ProducerRuns,
  Pools,       \* bound: profiles made in the session, 1..n
  Processes,   \* bound: worker processes known at a time
  MaxStops     \* bound: processes that fail, and callers that abort

Runs == ActorRuns \cup ProducerRuns
Roles == {"actor", "producer"}
RoleOf(r) == IF r \in ActorRuns THEN "actor" ELSE "producer"

\* No run is both; processes and profiles have numbers, 0 is none.
ASSUME SearchSetting ==
  ActorRuns \cap ProducerRuns = {} /\ Pools \subseteq Nat \ {0} /\ Processes \subseteq Nat \ {0}

VARIABLES
  session,  \* "open", "sealed", "drained", "ended"
  search,   \* the profile of `search`, 0 when there is none
  pool,     \* pool[p]: "none", "making", "ready", "reset" (before ready), "retired", "released"
  awaits,   \* awaits[p]: the workers its retirement waits for
  idle,     \* idle[p][role]: the worker kept for the role, 0 when there is none
  worker,   \* worker[w]: its process, its pool, the role of its lease
  run,      \* run[r]: where the search stands, its pool, its worker
  stops

poolVars == <<session, search, pool, awaits, idle, worker, run, stops>>

NoWorker == [state |-> "none", pool |-> 0, role |-> "producer"]
NoRun == [pc |-> "idle", pool |-> 0, worker |-> 0, aborted |-> FALSE, input |-> FALSE]

SearchInit ==
  /\ session = "open" /\ search = 0
  /\ pool = [p \in Pools |-> "none"]
  /\ awaits = [p \in Pools |-> {}]
  /\ idle = [p \in Pools |-> [role \in Roles |-> 0]]
  /\ worker = [w \in Processes |-> NoWorker]
  /\ run = [r \in Runs |-> NoRun]
  /\ stops = 0

\* The workers of a pool; the run that has leased one, and whether its execution goes on.
Of(p) == {w \in Processes : worker[w].state # "none" /\ worker[w].pool = p}
Executing(r) == run[r].pc \in {"work", "request"}
Leases(w) == {r \in Runs : run[r].worker = w /\ run[r].pc \in {"work", "request", "settled", "cleanup"}}
Busy(w) == \E r \in Leases(w) : Executing(r)

\* A new process, and another one.
Spare == {w \in Processes : worker[w].state = "none"}
Least(W) == CHOOSE w \in W : \A v \in W : w <= v
Fresh == Least(Spare)
Launched(p, role) == [state |-> "live", pool |-> p, role |-> role]
-----------------------------------------------------------------------------
(* The session's profile. *)

closedSearchEnabled == session = "open"

\* prepareSearch(): a new profile begins with one worker for producers.
PrepareSearch(p) ==
  /\ closedSearchEnabled /\ search = 0
  /\ pool[p] = "none" /\ Spare # {}
  /\ \A q \in Pools : q < p => pool[q] # "none"
  /\ search' = p
  /\ pool' = [pool EXCEPT ![p] = "making"]
  /\ worker' = [worker EXCEPT ![Fresh] = Launched(p, "producer")]
  /\ idle' = [idle EXCEPT ![p]["producer"] = Fresh]
  /\ UNCHANGED <<session, awaits, run, stops>>

\* The runs a retiring pool aborts.
Aborted(p) == {r \in ProducerRuns : Executing(r) /\ run[r].pool = p}

\* dispose() of the pool: whoever is not lent to the Actor is stopped.
Retires(p) ==
  /\ pool' = [pool EXCEPT ![p] = "retired"]
  /\ awaits' = [awaits EXCEPT ![p] = Of(p)]
  /\ idle' = [idle EXCEPT ![p] = [role \in Roles |-> 0]]
  /\ run' = [r \in Runs |-> IF r \in Aborted(p) THEN [run[r] EXCEPT !.aborted = TRUE] ELSE run[r]]
  /\ worker' = [w \in Processes |->
       IF w \in Of(p) /\ worker[w].state = "live" /\ Leases(w) \subseteq {r \in Runs : r \in Aborted(p)}
       THEN [worker[w] EXCEPT !.state = "dying"] ELSE worker[w]]

\* createClosedSearchProfile() comes to its end; one that fails disposes of its pool.
Made(p, fails) ==
  /\ pool[p] \in {"making", "reset"}
  /\ IF fails \/ pool[p] = "reset"
     THEN Retires(p)
     ELSE pool' = [pool EXCEPT ![p] = "ready"] /\ UNCHANGED <<awaits, idle, worker, run>>
  /\ UNCHANGED <<session, search, stops>>

\* resetSearch(): by a refresh of the diagnostics, and last of all by dispose().
ResetSearch ==
  /\ search # 0
  /\ session \in {"open", "drained"}
  /\ search' = 0
  /\ CASE pool[search] = "making" -> pool' = [pool EXCEPT ![search] = "reset"] /\ UNCHANGED <<awaits, idle, worker, run>>
       [] pool[search] = "ready"  -> Retires(search)
       [] OTHER -> UNCHANGED <<pool, awaits, idle, worker, run>>
  /\ UNCHANGED <<session, stops>>

\* The engine goes once the workers it had are gone and their executions have settled.
Releasable(p) == \A w \in awaits[p] \cap Of(p) : worker[w].state = "closed" /\ ~Busy(w)

Release(p) ==
  /\ pool[p] = "retired" /\ Releasable(p)
  /\ pool' = [pool EXCEPT ![p] = "released"]
  /\ awaits' = [awaits EXCEPT ![p] = {}]
  /\ UNCHANGED <<session, search, idle, worker, run, stops>>

\* dispose() of the session: nothing is bound from here on, the host drains its calls,
\* refreshes under way end, and the profile goes last.
Seal == session = "open" /\ session' = "sealed" /\ UNCHANGED <<search, pool, awaits, idle, worker, run, stops>>

InFlight(r) == run[r].pc \notin {"idle", "done"}

Drain ==
  /\ session = "sealed"
  /\ \A r \in Runs : ~InFlight(r)
  /\ \A p \in Pools : pool[p] \in {"reset", "retired"} => p = search
  /\ session' = "drained"
  /\ UNCHANGED <<search, pool, awaits, idle, worker, run, stops>>

End ==
  /\ session = "drained" /\ search = 0
  /\ \A p \in Pools : pool[p] \notin {"reset", "retired"}
  /\ session' = "ended"
  /\ UNCHANGED <<search, pool, awaits, idle, worker, run, stops>>
-----------------------------------------------------------------------------
(* Runs. *)

Ended(r) == run' = [run EXCEPT ![r] = [NoRun EXCEPT !.pc = "done"]]

\* resolveInvocation(): a search binds to the profile of the moment, once that is ready.
Bind(r) ==
  /\ run[r].pc = "idle" /\ closedSearchEnabled /\ search # 0
  /\ run' = [run EXCEPT ![r].pc = "bind", ![r].pool = search]
  /\ UNCHANGED <<session, search, pool, awaits, idle, worker, stops>>

\* A profile that failed leaves the search to the native tool.
Bound(r) ==
  /\ run[r].pc = "bind"
  /\ pool[run[r].pool] \notin {"making", "reset"}
  /\ IF pool[run[r].pool] = "ready" THEN run' = [run EXCEPT ![r].pc = "bound"] ELSE Ended(r)
  /\ UNCHANGED <<session, search, pool, awaits, idle, worker, stops>>

\* run(): the Actor borrows the producers' worker when it has none, and replaces it at once.
IdleRole(r) ==
  LET kept == idle[run[r].pool] IN
  IF RoleOf(r) = "actor" /\ kept["actor"] = 0 /\ kept["producer"] # 0 THEN "producer" ELSE RoleOf(r)

\* Mutant: the pool is not asked whether it has retired.
AdmitsRetired(p) == TRUE
Admits(p) == pool[p] = "ready"

Borrow(r) ==
  LET p == run[r].pool
      role == IdleRole(r)
      kept == idle[p][role]
      w == IF kept # 0 THEN kept ELSE Fresh
      replaces == role # RoleOf(r)
      lent == [worker EXCEPT ![w] = [Launched(p, RoleOf(r)) EXCEPT !.state = IF w = kept THEN worker[w].state ELSE @]]
  IN /\ run[r].pc = "bound" /\ Admits(p)
     /\ kept = 0 \/ replaces => Spare # {}
     /\ worker' = IF replaces THEN [lent EXCEPT ![Fresh] = Launched(p, role)] ELSE lent
     /\ idle' = [idle EXCEPT ![p][role] = IF replaces THEN Fresh ELSE 0]
     /\ run' = [run EXCEPT ![r].pc = "work", ![r].worker = w]
     /\ UNCHANGED <<session, search, pool, awaits, stops>>

\* A pool that retired in between takes no run.
Refused(r) ==
  /\ run[r].pc = "bound" /\ ~Admits(run[r].pool)
  /\ Ended(r)
  /\ UNCHANGED <<session, search, pool, awaits, idle, worker, stops>>

\* request(): to a worker that is neither failing nor closed.
Request(r) ==
  /\ run[r].pc = "work"
  /\ run' = [run EXCEPT ![r].pc = IF worker[run[r].worker].state = "live" /\ ~run[r].aborted
                                  THEN "request" ELSE "settled"]
  /\ UNCHANGED <<session, search, pool, awaits, idle, worker, stops>>

\* The worker asks for an input, the run's callback gives it.
Input(r) ==
  /\ run[r].pc = "request" /\ worker[run[r].worker].state = "live" /\ ~run[r].input
  /\ run' = [run EXCEPT ![r].input = TRUE]
  /\ UNCHANGED <<session, search, pool, awaits, idle, worker, stops>>

Given(r) ==
  /\ run[r].input
  /\ run' = [run EXCEPT ![r].input = FALSE]
  /\ UNCHANGED <<session, search, pool, awaits, idle, worker, stops>>

Answer(r) ==
  /\ run[r].pc = "request" /\ worker[run[r].worker].state = "live" /\ ~run[r].input
  /\ run' = [run EXCEPT ![r].pc = "settled"]
  /\ UNCHANGED <<session, search, pool, awaits, idle, worker, stops>>

\* A worker is kept for its role unless somebody else is, or it cannot be trusted any more.
Keeps(r) ==
  LET p == run[r].pool IN
  /\ pool[p] = "ready" /\ ~run[r].aborted
  /\ worker[run[r].worker].state # "closed" /\ idle[p][RoleOf(r)] = 0

Return(r) ==
  LET w == run[r].worker IN
  /\ run[r].pc = "settled"
  /\ IF Keeps(r)
     THEN /\ idle' = [idle EXCEPT ![run[r].pool][RoleOf(r)] = w]
          /\ Ended(r) /\ UNCHANGED worker
     ELSE /\ worker' = [worker EXCEPT ![w].state = IF @ = "live" THEN "dying" ELSE @]
          /\ run' = [run EXCEPT ![r].pc = "cleanup"] /\ UNCHANGED idle
  /\ UNCHANGED <<session, search, pool, awaits, stops>>

\* The run that disposed of its worker waits for the closure.
Cleanup(r) ==
  /\ run[r].pc = "cleanup" /\ worker[run[r].worker].state = "closed"
  /\ worker' = [worker EXCEPT ![run[r].worker] = NoWorker]
  /\ Ended(r)
  /\ UNCHANGED <<session, search, pool, awaits, idle, stops>>
-----------------------------------------------------------------------------
(* Processes. *)

\* A worker crashes, misses a deadline or breaks the protocol.
Stop(w) ==
  /\ stops < MaxStops /\ worker[w].state = "live"
  /\ worker' = [worker EXCEPT ![w].state = "dying"]
  /\ stops' = stops + 1
  /\ UNCHANGED <<session, search, pool, awaits, idle, run>>

\* The signal of a caller.
Abort(r) ==
  /\ stops < MaxStops /\ Executing(r) /\ ~run[r].aborted
  /\ run' = [run EXCEPT ![r].aborted = TRUE]
  /\ worker' = [worker EXCEPT ![run[r].worker].state =
                  IF run[r].pc = "request" /\ @ = "live" THEN "dying" ELSE @]
  /\ stops' = stops + 1
  /\ UNCHANGED <<session, search, pool, awaits, idle>>

\* What the closure of a worker waits for.
InputsGiven(w) == \A r \in Leases(w) : ~run[r].input

\* close of the process: its request fails, and an idle worker is forgotten.
Exit(w) ==
  /\ worker[w].state = "dying" /\ InputsGiven(w)
  /\ run' = [r \in Runs |-> IF r \in Leases(w) /\ run[r].pc = "request"
                            THEN [run[r] EXCEPT !.pc = "settled"] ELSE run[r]]
  /\ worker' = [worker EXCEPT ![w] = IF Leases(w) = {} THEN NoWorker ELSE [@ EXCEPT !.state = "closed"]]
  /\ idle' = [p \in Pools |-> [role \in Roles |-> IF idle[p][role] = w THEN 0 ELSE idle[p][role]]]
  /\ UNCHANGED <<session, search, pool, awaits, stops>>

SearchNext ==
  \/ \E p \in Pools : PrepareSearch(p) \/ Release(p)
  \/ \E p \in Pools, fails \in BOOLEAN : Made(p, fails)
  \/ ResetSearch \/ Seal \/ Drain \/ End
  \/ \E r \in Runs : \/ Bind(r) \/ Bound(r) \/ Borrow(r) \/ Refused(r) \/ Request(r) \/ Input(r) \/ Given(r)
                     \/ Answer(r) \/ Return(r) \/ Cleanup(r) \/ Abort(r)
  \/ \E w \in Processes : Stop(w) \/ Exit(w)

SearchSpec == SearchInit /\ [][SearchNext]_poolVars
-----------------------------------------------------------------------------
(* Properties. *)

\* A released engine has no user left: no worker of its pool is a process still, and no run
\* gives an input with it; and a session that ended has released every profile it made.
EngineOutlivesItsUsers ==
  \A p \in Pools :
    /\ pool[p] = "released" =>
         /\ \A w \in Of(p) : worker[w].state = "closed"
         /\ \A r \in Runs : run[r].pool = p => ~Executing(r) /\ ~run[r].input
    /\ session = "ended" => pool[p] \in {"none", "released"}

\* Only its own caller or the failure of its worker ends the Actor's search: a pool that
\* retires waits for it (dispose).
ActorIsWaitedFor ==
  stops = 0 => \A r \in ActorRuns : Executing(r) => ~run[r].aborted /\ worker[run[r].worker].state = "live"

\* What is the session's own: what was saved is what comes back (SettingsStore); no engine goes while
\* somebody uses it, and the end of the session waits for the Actor.
SessionSafe == SavedComesBack /\ EngineOutlivesItsUsers /\ ActorIsWaitedFor
=============================================================================
