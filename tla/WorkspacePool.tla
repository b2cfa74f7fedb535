---------------------------- MODULE WorkspacePool ----------------------------
(***************************************************************************)
(* The repository pool of WorkspaceSandboxService (src/workspace-sandbox): *)
(* one private repository per workspace root, its baseline snapshot, one   *)
(* slot for a prepared checkout, baselines shared by overlay mounts, the   *)
(* idle timer, quarantine, and the closing of pools and of the service.    *)
(*                                                                         *)
(* A client is one call of the service: "warm" is prepare(), "filesystem"  *)
(* a mutation in a private workspace, "process" a process branch, and      *)
(* "overlay" a process branch over a mounted snapshot.  A checkout promise *)
(* (the slot's type) is a task; a returned checkout is a task done at once.*)
(***************************************************************************)
EXTENDS Naturals, FiniteSets

CONSTANTS
  Clients,
  Kinds,            \* the calls the clients may make
  Attempts,         \* WORKSPACE_TRANSACTION_STABILITY_ATTEMPTS
  MaxEdits,         \* bound: changes of the source workspace
  MaxRepositories,  \* bound: repositories made for this root
  MaxCheckouts,     \* bound: checkouts attached
  MaxTasks          \* bound: promises put in a slot

ASSUME PoolAssumption ==
  /\ Kinds \subseteq {"warm", "filesystem", "process", "overlay"}
  /\ {Attempts, MaxEdits, MaxRepositories, MaxCheckouts, MaxTasks} \subseteq Nat

VARIABLES
  source,      \* version of the workspace's bytes
  service,     \* the service's lifetime
  registered,  \* `repositories`: the repository new calls get, or None
  repository,  \* repository[r]: one generation of the pool
  checkout,    \* checkout[t]: one worktree and what it holds
  task,        \* task[k]: one promise of a prepared checkout
  client       \* client[c]: how far a call has come

workspaceVars == <<source, service, registered, repository, checkout, task, client>>

None == 0
Dirty == MaxEdits + 1    \* content that is no snapshot of the source
Repositories == 1..MaxRepositories
Checkouts == 1..MaxCheckouts
Tasks == 1..MaxTasks
Versions == 0..MaxEdits

NoClient == [stage |-> "idle", kind |-> "warm", repo |-> None, since |-> 0, base |-> 0,
             attempt |-> 0, claim |-> None, tree |-> None, settled |-> FALSE]
NoCheckout == [stage |-> "none", repo |-> None, content |-> 0, written |-> FALSE]
NoTask == [stage |-> "none", repo |-> None, base |-> 0, prev |-> None, tree |-> None]
Over == [NoClient EXCEPT !.stage = "over"]
Gone == [NoCheckout EXCEPT !.stage = "gone"]
Spent(tasks, p) == IF p = None THEN tasks ELSE [tasks EXCEPT ![p] = [NoTask EXCEPT !.stage = "spent"]]

PoolInit ==
  /\ source = 0 /\ service = "open" /\ registered = None
  /\ repository = [r \in Repositories |-> [stage |-> "none", active |-> 0, toClose |-> FALSE,
       quarantined |-> FALSE, timer |-> FALSE, lock |-> {}, baseline |-> {}, slot |-> None,
       claim |-> None, lower |-> [v \in Versions |-> None], users |-> [v \in Versions |-> 0]]]
  /\ checkout = [t \in Checkouts |-> NoCheckout]
  /\ task = [k \in Tasks |-> NoTask]
  /\ client = [c \in Clients |-> NoClient]

\* How often the pool's own resources bound a run: a fresh name of each sort.
Fresh(f) == {n \in DOMAIN f : f[n].stage = "none" /\ \A m \in DOMAIN f : m < n => f[m].stage # "none"}

Sealed(r) == repository[r].stage \in {"closing", "draining", "removed", "kept"}
Move(c, stage) == client' = [client EXCEPT ![c].stage = stage]
Edit ==
  /\ source < MaxEdits /\ source' = source + 1
  /\ UNCHANGED <<service, registered, repository, checkout, task, client>>
-----------------------------------------------------------------------------
(* acquireRepository and releaseRepository. *)

\* The call finds the registered repository, or registers one in the making.
Call(c) ==
  /\ client[c].stage = "idle" /\ service = "open"
  /\ \E kind \in Kinds, r \in IF registered # None THEN {registered} ELSE Fresh(repository) :
       /\ client' = [client EXCEPT ![c].stage = "waiting", ![c].kind = kind, ![c].repo = r,
                                   ![c].since = IF kind \in {"process", "overlay"} THEN source ELSE 0]
       /\ registered' = r
       /\ repository' = IF registered # None THEN repository
                        ELSE [repository EXCEPT ![r].stage = "making"]
  /\ UNCHANGED <<source, service, checkout, task>>

\* createSandboxRepository settles; a failed one is forgotten, with its callers.
Made(r) ==
  /\ repository[r].stage = "making"
  /\ \/ /\ repository' = [repository EXCEPT ![r].stage = "open"]
        /\ UNCHANGED <<registered, client>>
     \/ /\ repository' = [repository EXCEPT ![r].stage = "removed"]
        /\ registered' = IF registered = r THEN None ELSE registered
        /\ client' = [c \in Clients |-> IF client[c].stage = "waiting" /\ client[c].repo = r
                                        THEN Over ELSE client[c]]
  /\ UNCHANGED <<source, service, checkout, task>>

\* The awaited repository is entered, unless it was quarantined meanwhile.
Enter(c) ==
  LET r == client[c].repo IN
  /\ client[c].stage = "waiting" /\ repository[r].stage = "open"
  /\ IF repository[r].quarantined
     THEN /\ client' = [client EXCEPT ![c] = IF service = "open" THEN NoClient ELSE Over]
          /\ UNCHANGED <<registered, repository>>
     ELSE /\ Move(c, "baseline")
          /\ repository' = [repository EXCEPT ![r].active = @ + 1, ![r].timer = FALSE]
          /\ UNCHANGED registered
  /\ UNCHANGED <<source, service, checkout, task>>

Released(repo) ==
  [repo EXCEPT !.active = @ - 1,
               !.timer = \/ @
                         \/ repo.active = 1 /\ ~repo.quarantined /\ repo.stage = "open"]

\* The idle timer detaches this generation and closes it.
IdleTimer(r) ==
  /\ repository[r].timer /\ repository[r].active = 0 /\ service = "open"
  /\ ~repository[r].toClose
  /\ registered' = IF registered = r THEN None ELSE registered
  /\ repository' = [repository EXCEPT ![r].toClose = TRUE]
  /\ UNCHANGED <<source, service, checkout, task, client>>
-----------------------------------------------------------------------------
(* acquireSandboxBaseline, serialized on the repository's lock. *)

Exact(c) == client[c].kind \in {"process", "overlay"}

\* A warm-up may take notifications that have not arrived yet for quiet; an
\* allocation validates the exact evidence.
ReuseBaseline(c) ==
  LET r == client[c].repo IN
  /\ client[c].stage = "baseline" /\ repository[r].lock = {} /\ ~Sealed(r)
  /\ \E v \in repository[r].baseline :
       /\ Exact(c) => v = source
       /\ client' = [client EXCEPT ![c].stage = "allocate", ![c].base = v]
  /\ UNCHANGED <<source, service, registered, repository, checkout, task>>

\* A missing or expired baseline is captured; staging takes a while.
CaptureBaseline(c) ==
  LET r == client[c].repo IN
  /\ client[c].stage = "baseline" /\ repository[r].lock = {} /\ ~Sealed(r)
  /\ source \notin repository[r].baseline
  /\ client' = [client EXCEPT ![c].stage = "staging", ![c].base = source, ![c].attempt = 1]
  /\ repository' = [repository EXCEPT ![r].lock = {c}]
  /\ UNCHANGED <<source, service, registered, checkout, task>>

\* What changed while it was staged is captured again, a bounded number of times.
InstallBaseline(c) ==
  LET r == client[c].repo IN
  /\ client[c].stage = "staging"
  /\ \/ /\ Exact(c) => client[c].base = source
        /\ client' = [client EXCEPT ![c].stage = "allocate", ![c].attempt = 0]
        /\ repository' = [repository EXCEPT ![r].lock = {}, ![r].baseline = {client[c].base}]
     \/ /\ client[c].base # source /\ client[c].attempt < Attempts
        /\ client' = [client EXCEPT ![c].base = source, ![c].attempt = @ + 1]
        /\ UNCHANGED repository
     \/ /\ client[c].base # source /\ client[c].attempt = Attempts
        /\ client' = [client EXCEPT ![c].stage = "dispose", ![c].attempt = 0]
        /\ repository' = [repository EXCEPT ![r].lock = {}]
  /\ UNCHANGED <<source, service, registered, checkout, task>>

\* A sealed lock refuses the work of a call that still holds the repository.
RefusedByLock(c) ==
  /\ \/ client[c].stage = "baseline"
     \/ client[c].stage = "allocate" /\ client[c].kind = "overlay"
  /\ Sealed(client[c].repo)
  /\ Move(c, "dispose")
  /\ UNCHANGED <<source, service, registered, repository, checkout, task>>
-----------------------------------------------------------------------------
(* The slot of prepared checkouts. *)

Settled(p) == IF p = None THEN TRUE ELSE task[p].stage \in {"done", "failed", "spent"}

\* attachSandboxWorkspace: a fresh worktree of snapshot v, or a failure.
Attached(trees, r, v) ==
  {[tree |-> None, trees |-> trees]} \cup
  {[tree |-> t, trees |-> [trees EXCEPT ![t] = [stage |-> "live", repo |-> r, content |-> v, written |-> FALSE]]]
     : t \in Fresh(trees)}

\* takePreparedSandbox once the claimed promise p has settled: an unwritten
\* checkout of the snapshot itself, one reset to it, or none.
Taken(p, v) ==
  IF p = None \/ task[p].tree = None THEN {[tree |-> None, trees |-> checkout]}
  ELSE LET t == task[p].tree IN
       IF ~checkout[t].written /\ task[p].base = v
       THEN {[tree |-> t, trees |-> checkout]}
       ELSE {[tree |-> t, trees |-> [checkout EXCEPT ![t].content = v, ![t].written = FALSE]],
             [tree |-> None, trees |-> [checkout EXCEPT ![t] = Gone]]}

TakenOrAttached(p, r, v) ==
  UNION {IF o.tree # None THEN {o} ELSE Attached(o.trees, r, v) : o \in Taken(p, v)}

\* prepareNextSandbox: claim the slot and fill it with the next preparation.
PrepareNext(r, v, repo, tasks) ==
  IF repo.stage # "open" \/ repo.quarantined THEN {[repo |-> repo, tasks |-> tasks, next |-> None]}
  ELSE {[repo |-> [repo EXCEPT !.slot = k], next |-> k,
         tasks |-> [tasks EXCEPT ![k] = [stage |-> "waiting", repo |-> r, base |-> v, prev |-> repo.slot, tree |-> None]]]
          : k \in Fresh(tasks)}

\* The preparation itself: it takes or resets the previous checkout or attaches one.
Prepare(k) ==
  LET r == task[k].repo IN
  /\ task[k].stage = "waiting" /\ Settled(task[k].prev)
  /\ \E o \in TakenOrAttached(task[k].prev, r, task[k].base) :
       /\ checkout' = o.trees
       /\ task' = [Spent(task, task[k].prev) EXCEPT ![k].prev = None, ![k].stage = IF o.tree = None THEN "failed" ELSE "done", ![k].tree = o.tree]
       /\ repository' = [repository EXCEPT ![r].slot = IF o.tree = None /\ @ = k THEN None ELSE @]
  /\ UNCHANGED <<source, service, registered, client>>
-----------------------------------------------------------------------------
(* prepare(), and createPrivateSandboxWorkspace after its baseline. *)

Warm(c) ==
  LET r == client[c].repo IN
  /\ client[c].stage = "allocate" /\ client[c].kind = "warm"
  /\ \E n \in PrepareNext(r, client[c].base, repository[r], task) :
       /\ repository' = [repository EXCEPT ![r] = n.repo] /\ task' = n.tasks
       /\ client' = [client EXCEPT ![c].stage = "warming", ![c].claim = n.next]
  /\ UNCHANGED <<source, service, registered, checkout>>

Warmed(c) ==
  /\ client[c].stage = "warming" /\ Settled(client[c].claim)
  /\ Move(c, "dispose")
  /\ UNCHANGED <<source, service, registered, repository, checkout, task>>

\* Mutant: the slot is emptied only when the awaited checkout arrives.
ClaimCheckoutLate(c) ==
  LET r == client[c].repo IN
  /\ client[c].stage = "allocate" /\ client[c].kind \in {"filesystem", "process"}
  /\ client' = [client EXCEPT ![c].stage = "taking", ![c].claim = repository[r].slot]
  /\ UNCHANGED <<source, service, registered, repository, checkout, task>>

\* The slot is claimed before the checkout in it is awaited.
ClaimCheckout(c) ==
  LET r == client[c].repo IN
  /\ client[c].stage = "allocate" /\ client[c].kind \in {"filesystem", "process"}
  /\ client' = [client EXCEPT ![c].stage = "taking", ![c].claim = repository[r].slot]
  /\ repository' = [repository EXCEPT ![r].slot = None]
  /\ UNCHANGED <<source, service, registered, checkout, task>>

\* The claimed checkout arrives; a process branch has the next one prepared.
TakeCheckout(c) ==
  LET r == client[c].repo v == client[c].base IN
  /\ client[c].stage = "taking" /\ Settled(client[c].claim)
  /\ \E o \in TakenOrAttached(client[c].claim, r, v) :
       /\ checkout' = o.trees
       /\ client' = [client EXCEPT ![c].stage = IF o.tree = None THEN "dispose" ELSE "running",
                                   ![c].tree = o.tree, ![c].claim = None]
       /\ IF client[c].kind = "process" /\ o.tree # None
          THEN \E n \in PrepareNext(r, v, repository[r], Spent(task, client[c].claim)) :
                 repository' = [repository EXCEPT ![r] = n.repo] /\ task' = n.tasks
          ELSE UNCHANGED repository /\ task' = Spent(task, client[c].claim)
  /\ UNCHANGED <<source, service, registered>>

\* Other baselines no mount uses.
Evictable(r, v) ==
  {u \in Versions \ {v} : repository[r].lower[u] # None /\ repository[r].users[u] = 0}

\* acquireOverlayBaseline evicts idle baselines and lends the one of this snapshot;
\* a mount that fails gives it back on disposal.
AcquireOverlay(c) ==
  LET r == client[c].repo v == client[c].base  idle == Evictable(r, v)  users == repository[r].users
      kept == [t \in Checkouts |-> IF \E u \in idle : repository[r].lower[u] = t
                                   THEN Gone ELSE checkout[t]]
      lower == [u \in Versions |-> IF u \in idle THEN None ELSE repository[r].lower[u]]
  IN
  /\ client[c].stage = "allocate" /\ client[c].kind = "overlay"
  /\ repository[r].lock = {} /\ ~Sealed(r)
  /\ \E o \in IF lower[v] # None THEN {[tree |-> lower[v], trees |-> kept]} ELSE Attached(kept, r, v) :
       /\ checkout' = o.trees
       /\ repository' = [repository EXCEPT ![r].lower = [lower EXCEPT ![v] = o.tree],
                           ![r].users = IF o.tree = None THEN users ELSE [users EXCEPT ![v] = users[v] + 1]]
       /\ \E mounted \in IF o.tree = None THEN {FALSE} ELSE BOOLEAN :
            client' = [client EXCEPT ![c].stage = IF mounted THEN "running" ELSE "dispose", ![c].tree = o.tree]
  /\ UNCHANGED <<source, service, registered, task>>

\* The branch runs; only a filesystem operation that settled recorded its writes.
RunTask(c) ==
  LET t == client[c].tree IN
  /\ client[c].stage = "running"
  /\ \E settled \in IF client[c].kind = "filesystem" THEN BOOLEAN ELSE {FALSE} :
       client' = [client EXCEPT ![c].stage = "dispose", ![c].settled = settled]
  /\ checkout' = IF client[c].kind = "overlay" THEN checkout
                 ELSE [checkout EXCEPT ![t].content = Dirty, ![t].written = client'[c].settled]
  /\ UNCHANGED <<source, service, registered, repository, task>>
-----------------------------------------------------------------------------
(* The workspace's dispose(). *)

\* A settled filesystem workspace returns to an empty slot and is prepared for
\* the next call; every other one is removed.
DisposeWorkspace(c) ==
  LET r == client[c].repo  t == client[c].tree  repo == repository[r]
      returns == client[c].settled /\ repo.slot = None /\ repo.stage = "open" /\ ~repo.quarantined
  IN
  /\ client[c].stage = "dispose" /\ client[c].kind # "overlay"
  /\ checkout' = IF t = None \/ returns THEN checkout ELSE [checkout EXCEPT ![t] = Gone]
  /\ \E k \in IF returns THEN Fresh(task) ELSE {None} :
       LET back == IF returns THEN [repo EXCEPT !.slot = k] ELSE repo
           with == IF returns
                   THEN [task EXCEPT ![k] = [stage |-> "done", repo |-> r, base |-> client[c].base, prev |-> None, tree |-> t]]
                   ELSE task
       IN \E n \in IF client[c].settled /\ repo.baseline # {}
                   THEN PrepareNext(r, CHOOSE v \in repo.baseline : TRUE, back, with)
                   ELSE {[repo |-> back, tasks |-> with]} :
            /\ repository' = [repository EXCEPT ![r] = Released(n.repo)]
            /\ task' = n.tasks
  /\ client' = [client EXCEPT ![c] = Over]
  /\ UNCHANGED <<source, service, registered>>

\* An unmounted overlay gives its lower back.
DisposeOverlay(c) ==
  LET r == client[c].repo v == client[c].base  users == repository[r].users IN
  /\ client[c].stage = "dispose" /\ client[c].kind = "overlay"
  /\ repository' = [repository EXCEPT ![r] = Released(
       [repository[r] EXCEPT !.users = IF client[c].tree = None THEN users ELSE [users EXCEPT ![v] = users[v] - 1]])]
  /\ client' = [client EXCEPT ![c] = Over]
  /\ UNCHANGED <<source, service, registered, checkout, task>>

\* Mutant: a quarantined repository is not given back by the call that leaves it.
QuarantineHeld(c) ==
  LET r == client[c].repo IN
  /\ client[c].stage = "dispose" /\ client[c].kind = "overlay" /\ client[c].tree # None
  /\ registered' = IF registered = r THEN None ELSE registered
  /\ repository' = [repository EXCEPT ![r].quarantined = TRUE, ![r].timer = FALSE, ![r].baseline = {}]
  /\ Move(c, "stuck")
  /\ UNCHANGED <<source, service, checkout, task>>

\* quarantineRepository: a mount that could not be closed keeps its storage, and
\* the whole repository leaves the pool.
Quarantine(c) ==
  LET r == client[c].repo IN
  /\ client[c].stage = "dispose" /\ client[c].kind = "overlay" /\ client[c].tree # None
  /\ registered' = IF registered = r THEN None ELSE registered
  /\ repository' = [repository EXCEPT ![r] = Released(
       [repository[r] EXCEPT !.quarantined = TRUE, !.timer = FALSE, !.baseline = {}])]
  /\ Move(c, "stuck")
  /\ UNCHANGED <<source, service, checkout, task>>
-----------------------------------------------------------------------------
(* closePools, closeSandboxRepository and the service's dispose(). *)

\* The pool of this root is closed by an execution world, or by the service.
ClosePools(by) ==
  /\ service = "open" /\ (by = "world" => registered # None)
  /\ service' = IF by = "service" THEN "disposing" ELSE service
  /\ registered' = None
  /\ repository' = IF registered = None THEN repository ELSE [repository EXCEPT ![registered].toClose = TRUE]
  /\ UNCHANGED <<source, checkout, task, client>>

\* The closer resumes after the callers that awaited the repository before it;
\* the lock is sealed at once.
BeginClose(r) ==
  /\ repository[r].toClose /\ repository[r].stage = "open"
  /\ \A c \in Clients : ~(client[c].stage = "waiting" /\ client[c].repo = r)
  /\ repository' = [repository EXCEPT ![r].stage = "closing"]
  /\ UNCHANGED <<source, service, registered, checkout, task, client>>

\* Once no call is inside, the closer claims the slot; quarantined storage stays.
CloseDrained(r) ==
  /\ repository[r].stage = "closing" /\ repository[r].lock = {} /\ repository[r].active = 0
  /\ repository' = IF repository[r].quarantined THEN [repository EXCEPT ![r].stage = "kept"]
                   ELSE [repository EXCEPT ![r].stage = "draining", ![r].timer = FALSE,
                                           ![r].claim = repository[r].slot, ![r].slot = None]
  /\ UNCHANGED <<source, service, registered, checkout, task, client>>

\* The prepared checkout is disposed of and the repository's tree removed.
Remove(r) ==
  /\ repository[r].stage = "draining" /\ Settled(repository[r].claim)
  /\ repository' = [repository EXCEPT ![r].stage = "removed", ![r].baseline = {}, ![r].claim = None,
                       ![r].lower = [v \in Versions |-> None], ![r].timer = FALSE]
  /\ task' = Spent(task, repository[r].claim)
  /\ checkout' = [t \in Checkouts |-> IF checkout[t].repo = r THEN Gone ELSE checkout[t]]
  /\ UNCHANGED <<source, service, registered, client>>

\* The service is disposed of when every pool it closes is.
ServiceDisposed ==
  /\ service = "disposing"
  /\ \A r \in Repositories : repository[r].toClose => repository[r].stage \in {"removed", "kept"}
  /\ service' = "disposed"
  /\ UNCHANGED <<source, registered, repository, checkout, task, client>>
-----------------------------------------------------------------------------
ClientStep(c) ==
  \/ Enter(c) \/ ReuseBaseline(c) \/ CaptureBaseline(c) \/ InstallBaseline(c) \/ RefusedByLock(c)
  \/ Warm(c) \/ Warmed(c) \/ ClaimCheckout(c) \/ TakeCheckout(c) \/ AcquireOverlay(c) \/ RunTask(c)
  \/ DisposeWorkspace(c) \/ DisposeOverlay(c)

PoolStep == ServiceDisposed \/ (\E r \in Repositories : Made(r) \/ BeginClose(r) \/ CloseDrained(r) \/ Remove(r))

PoolNext ==
  \/ Edit \/ PoolStep
  \/ \E c \in Clients : Call(c) \/ ClientStep(c) \/ Quarantine(c)
  \/ \E k \in Tasks : Prepare(k)
  \/ \E r \in Repositories : IdleTimer(r)
  \/ \E by \in {"world", "service"} : ClosePools(by)

\* Git, the filesystem and the mounts answer; nobody has to call, edit or wait.
PoolRuns == PoolStep \/ (\E c \in Clients : ClientStep(c)) \/ \E k \in Tasks : Prepare(k)

PoolSpec == PoolInit /\ [][PoolNext]_workspaceVars /\ WF_workspaceVars(PoolRuns)
-----------------------------------------------------------------------------
\* The owners of a live checkout: the call that runs in it, a promise nobody has
\* consumed yet, or the overlay baselines of its repository; and of a promise: the
\* slot, or whoever claimed it.
Owners(t) ==
  {<<"call", c>> : c \in {d \in Clients : client[d].tree = t /\ client[d].kind # "overlay"}}
    \cup {<<"promise", k>> : k \in {j \in Tasks : task[j].stage = "done" /\ task[j].tree = t}}
    \cup {<<"lower", r>> : r \in {q \in Repositories : \E v \in Versions : repository[q].lower[v] = t}}
Holders(k) ==
  {<<"slot", r>> : r \in {q \in Repositories : repository[q].slot = k}}
    \cup {<<"closer", r>> : r \in {q \in Repositories : repository[q].claim = k}}
    \cup {<<"task", j>> : j \in {i \in Tasks : task[i].prev = k}}
    \cup {<<"call", c>> : c \in {d \in Clients : client[d].claim = k /\ client[d].stage = "taking"}}

\* "Claim before waiting: allocation, warm-up and shutdown cannot own the same
\* checkout" (takePreparedSandbox): a live checkout of a pool that was not removed
\* has exactly one owner, and a promised one exactly one holder of the promise, so
\* none is shared and none is forgotten.
CheckoutsOwnedOnce ==
  /\ \A t \in Checkouts : checkout[t].stage = "live" => Cardinality(Owners(t)) = 1
  /\ \A k \in Tasks : task[k].stage = "done" => Cardinality(Holders(k)) = 1

\* A call starts in a checkout that holds exactly the snapshot it asked for, and a
\* process branch in a snapshot no older than the call (acquireSandboxBaseline).
StartsFromBaseline ==
  \A c \in Clients : client[c].stage = "running" =>
    /\ checkout[client[c].tree].content = client[c].base
    /\ Exact(c) => client[c].base >= client[c].since

\* closeSandboxRepository and the eviction of overlay baselines never remove what
\* a running call, or a preparation still in progress, works in.
InUseStays ==
  /\ \A c \in Clients : client[c].stage = "running" => checkout[client[c].tree].stage = "live"
  /\ \A k \in Tasks : task[k].stage = "waiting" => repository[task[k].repo].stage # "removed"

\* The promises of the pool (WorkspaceSandboxService): a checkout has one owner, a call starts
\* from the baseline it captured, and what is in use stays.
PoolSafe == CheckoutsOwnedOnce /\ StartsFromBaseline /\ InUseStays
=============================================================================
