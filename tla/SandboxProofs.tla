--------------------------- MODULE SandboxProofs ---------------------------
(***************************************************************************)
(* Two parts of the execution world that hold on to what is shared.        *)
(*                                                                         *)
(* The repository pool of the workspace sandbox: a checkout has one owner, *)
(* a call starts from the snapshot it captured, and nothing that is in use *)
(* is removed, for any number of calls, repositories, checkouts, promises  *)
(* and changes of the source.  The invariant, PoolInv, adds who holds each *)
(* promise and what each party knows; a step that hands a promise on and   *)
(* has the next one prepared is proved as the one change after the other.  *)
(*                                                                         *)
(* Held launches: a held launch happens once, whatever lines the wire      *)
(* loses, for any number of processes held at a time.                      *)
(***************************************************************************)
EXTENDS WorkspacePool, HeldExec, FiniteSetTheorems, TLAPS

InStages == {"baseline", "staging", "allocate", "warming", "taking", "running", "dispose"}
CallStages == InStages \cup {"idle", "waiting", "over", "stuck"}
RepositoryStages == {"none", "making", "open", "closing", "draining", "removed", "kept"}
Pledged == {"waiting", "done", "failed"}

RepositoryRecords ==
  [stage : RepositoryStages, active : Nat, toClose : BOOLEAN, quarantined : BOOLEAN, timer : BOOLEAN,
   lock : SUBSET Clients, baseline : SUBSET Versions, slot : Tasks \cup {None}, claim : Tasks \cup {None},
   lower : [Versions -> Checkouts \cup {None}], users : [Versions -> Nat]]
CheckoutRecords ==
  [stage : {"none", "live", "gone"}, repo : Repositories \cup {None}, content : 0..Dirty, written : BOOLEAN]
TaskRecords ==
  [stage : Pledged \cup {"none", "spent"}, repo : Repositories \cup {None}, base : Versions,
   prev : Tasks \cup {None}, tree : Checkouts \cup {None}]
CallRecords ==
  [stage : CallStages, kind : {"warm", "filesystem", "process", "overlay"}, repo : Repositories \cup {None},
   since : Versions, base : Versions, attempt : Nat, claim : Tasks \cup {None},
   tree : Checkouts \cup {None}, settled : BOOLEAN]

PoolType ==
  /\ source \in Versions
  /\ service \in {"open", "disposing", "disposed"}
  /\ registered \in Repositories \cup {None}
  /\ repository \in [Repositories -> RepositoryRecords]
  /\ checkout \in [Checkouts -> CheckoutRecords]
  /\ task \in [Tasks -> TaskRecords]
  /\ client \in [Clients -> CallRecords]

\* The calls a repository counts, and those that a mounted baseline counts.
Inside(r) == {c \in Clients : client[c].repo = r /\ client[c].stage \in InStages}
Mounted(r, v) ==
  {c \in Clients : client[c].repo = r /\ client[c].base = v /\ client[c].kind = "overlay" /\ client[c].tree # None}
Counted ==
  \A r \in Repositories :
    /\ IsFiniteSet(Inside(r)) /\ repository[r].active = Cardinality(Inside(r))
    /\ \A v \in Versions :
         IsFiniteSet(Mounted(r, v)) /\ repository[r].users[v] = Cardinality(Mounted(r, v))

\* Nobody is inside a repository that is not made yet, or that is being removed, and nothing is
\* put into its slot.
RepositoriesTrue ==
  \A r \in Repositories :
    /\ repository[r].stage \in {"none", "making", "draining", "removed"} =>
         Inside(r) = {} /\ ~repository[r].quarantined
    /\ repository[r].slot # None => repository[r].stage \in {"open", "closing", "kept"}
    /\ repository[r].claim # None => repository[r].stage = "draining"

\* What a call knows of its repository, its checkout and its snapshot.
CallsTrue ==
  \A c \in Clients :
    /\ client[c].stage \notin {"idle", "over"} => client[c].repo \in Repositories
    /\ client[c].stage = "taking" => client[c].kind \in {"filesystem", "process"}
    /\ client[c].stage = "running" => client[c].tree # None
    /\ client[c].stage = "stuck" =>
         client[c].tree # None /\ client[c].kind = "overlay" /\ repository[client[c].repo].quarantined
    /\ client[c].settled => client[c].stage = "dispose" /\ client[c].kind = "filesystem" /\ client[c].tree # None
    /\ client[c].tree # None => client[c].stage \in {"running", "dispose", "stuck"}
    /\ client[c].since <= source
    /\ client[c].stage \in {"staging", "allocate", "taking", "running"} /\ Exact(c) => client[c].base >= client[c].since

CallTrees ==
  \A c \in Clients : client[c].tree # None =>
    /\ checkout[client[c].tree].stage = "live" /\ checkout[client[c].tree].repo = client[c].repo
    /\ client[c].stage = "running" => checkout[client[c].tree].content = client[c].base
    /\ client[c].settled => checkout[client[c].tree].written
    /\ client[c].kind = "overlay" => repository[client[c].repo].lower[client[c].base] = client[c].tree

\* Promises are made one after the other, each of a repository that is not removed before.
TasksTrue ==
  \A k \in Tasks :
    /\ task[k].stage = "waiting" =>
         task[k].repo \in Repositories /\ repository[task[k].repo].stage \notin {"none", "making", "removed"}
    /\ task[k].tree # None <=> task[k].stage = "done"
    /\ task[k].prev # None => task[k].stage = "waiting" /\ task[k].prev < k
    /\ task[k].stage # "none" => \A m \in Tasks : m < k => task[m].stage # "none"

TaskTrees ==
  \A k \in Tasks : task[k].stage = "done" =>
    /\ checkout[task[k].tree].stage = "live" /\ checkout[task[k].tree].repo = task[k].repo
    /\ ~checkout[task[k].tree].written => checkout[task[k].tree].content = task[k].base

LowerTrees ==
  \A r \in Repositories, v \in Versions : repository[r].lower[v] # None =>
    /\ checkout[repository[r].lower[v]].stage = "live" /\ checkout[repository[r].lower[v]].repo = r
    /\ checkout[repository[r].lower[v]].content = v

\* Whoever holds a promise is of its repository, and the promise is still to be used.
Holding ==
  /\ \A r \in Repositories :
       /\ repository[r].slot # None =>
            task[repository[r].slot].repo = r /\ task[repository[r].slot].stage \in {"waiting", "done"}
       /\ repository[r].claim # None =>
            task[repository[r].claim].repo = r /\ task[repository[r].claim].stage \in Pledged
  /\ \A k \in Tasks : task[k].prev # None =>
       task[task[k].prev].repo = task[k].repo /\ task[task[k].prev].stage \in Pledged
  /\ \A c \in Clients : client[c].stage = "taking" /\ client[c].claim # None =>
       task[client[c].claim].repo = client[c].repo /\ task[client[c].claim].stage \in Pledged

Takes(c, k) == client[c].stage = "taking" /\ client[c].claim = k
\* A promise has one holder, of one kind.
HeldOnce ==
  \A k \in Tasks :
    /\ \A r, q \in Repositories : repository[r].slot = k /\ repository[q].slot = k => r = q
    /\ \A r, q \in Repositories : repository[r].claim = k /\ repository[q].claim = k => r = q
    /\ \A i, j \in Tasks : task[i].prev = k /\ task[j].prev = k => i = j
    /\ \A c, d \in Clients : Takes(c, k) /\ Takes(d, k) => c = d
    /\ \A r \in Repositories : repository[r].slot = k =>
         (\A q \in Repositories : repository[q].claim # k) /\ (\A j \in Tasks : task[j].prev # k) /\ (\A c \in Clients : ~Takes(c, k))
    /\ \A r \in Repositories : repository[r].claim = k =>
         (\A j \in Tasks : task[j].prev # k) /\ (\A c \in Clients : ~Takes(c, k))
    /\ \A j \in Tasks : task[j].prev = k => \A c \in Clients : ~Takes(c, k)
IsHeld(k) ==
  \/ \E r \in Repositories : repository[r].slot = k \/ repository[r].claim = k
  \/ \E j \in Tasks : task[j].prev = k
  \/ \E c \in Clients : Takes(c, k)
NoneForgotten == \A k \in Tasks : task[k].stage \in {"waiting", "done"} => IsHeld(k)

Runs(c, t) == client[c].tree = t /\ client[c].kind # "overlay"
Promises(k, t) == task[k].stage = "done" /\ task[k].tree = t
\* A checkout has one owner, of one kind.
OwnedOnce ==
  \A t \in Checkouts :
    /\ \A c, d \in Clients : Runs(c, t) /\ Runs(d, t) => c = d
    /\ \A j, k \in Tasks : Promises(j, t) /\ Promises(k, t) => j = k
    /\ \A r, q \in Repositories, u, v \in Versions :
         repository[r].lower[u] = t /\ repository[q].lower[v] = t => r = q /\ u = v
    /\ \A c \in Clients : Runs(c, t) =>
         (\A k \in Tasks : ~Promises(k, t)) /\ \A r \in Repositories, v \in Versions : repository[r].lower[v] # t
    /\ \A k \in Tasks : Promises(k, t) => \A r \in Repositories, v \in Versions : repository[r].lower[v] # t
IsOwned(t) ==
  \/ \E c \in Clients : Runs(c, t)
  \/ \E k \in Tasks : Promises(k, t)
  \/ \E r \in Repositories, v \in Versions : repository[r].lower[v] = t
NoneLeaked == \A t \in Checkouts : checkout[t].stage = "live" => IsOwned(t)

PoolInv ==
  /\ PoolType /\ Counted /\ RepositoriesTrue /\ CallsTrue /\ CallTrees /\ TasksTrue /\ TaskTrees /\ LowerTrees
  /\ Holding /\ HeldOnce /\ NoneForgotten /\ OwnedOnce /\ NoneLeaked
-----------------------------------------------------------------------------
\* A pool nobody has called yet.
LEMMA PoolStart == PoolInit => PoolInv
  <1> SUFFICES ASSUME PoolInit PROVE PoolInv
    OBVIOUS
  <1>0. MaxEdits \in Nat /\ 0 \in Versions /\ 0 \in 0..Dirty
    BY PoolAssumption DEF Versions, Dirty
  <1>1. PoolType
    <2>1. NoClient \in CallRecords /\ NoCheckout \in CheckoutRecords /\ NoTask \in TaskRecords
      BY <1>0 DEF NoClient, NoCheckout, NoTask, CallRecords, CheckoutRecords, TaskRecords, CallStages, Pledged, None
    <2>2. QED
      BY <1>0, <2>1 DEF PoolInit, PoolType, RepositoryRecords, RepositoryStages, None
  <1>2. \A r \in Repositories : Inside(r) = {} /\ \A v \in Versions : Mounted(r, v) = {}
    BY DEF PoolInit, Inside, Mounted, InStages, NoClient
  <1>3. Counted
    BY <1>2, FS_EmptySet DEF PoolInit, Counted
  <1>4. \A k \in Tasks : k # None
    BY PoolAssumption DEF Tasks, None
  <1>5. \A t \in Checkouts : t # None
    BY PoolAssumption DEF Checkouts, None
  <1>6. RepositoriesTrue /\ CallsTrue /\ CallTrees
    BY <1>0, <1>2 DEF PoolInit, NoClient, RepositoriesTrue, CallsTrue, CallTrees, Exact, None
  <1>7. TasksTrue /\ TaskTrees /\ LowerTrees /\ Holding
    BY <1>2 DEF PoolInit, NoTask, NoClient, TasksTrue, TaskTrees, LowerTrees, Holding, None
  <1>8. HeldOnce /\ NoneForgotten
    BY <1>4 DEF PoolInit, NoTask, NoClient, HeldOnce, NoneForgotten, Takes
  <1>9. OwnedOnce /\ NoneLeaked
    BY <1>5 DEF PoolInit, NoTask, NoClient, NoCheckout, OwnedOnce, NoneLeaked, Runs, Promises
  <1>10. QED
    BY <1>1, <1>3, <1>6, <1>7, <1>8, <1>9 DEF PoolInv

\* What the bounds are.
LEMMA Bounds ==
  /\ MaxEdits \in Nat /\ Attempts \in Nat /\ MaxTasks \in Nat
  /\ \A k \in Tasks : k \in Nat /\ k # None
  /\ \A t \in Checkouts : t # None
  /\ \A r \in Repositories : r # None
  /\ \A v \in Versions : v \in Nat /\ v \in 0..Dirty
  /\ Dirty \in 0..Dirty /\ Dirty \notin Versions
  BY PoolAssumption DEF Tasks, Checkouts, Repositories, Versions, Dirty, None
-----------------------------------------------------------------------------
(* What a step may leave as it is. *)

SameSlots ==
  \A r \in Repositories : repository'[r].slot = repository[r].slot /\ repository'[r].claim = repository[r].claim
SameLowers == \A r \in Repositories : repository'[r].lower = repository[r].lower
SameTakes ==
  \A c \in Clients :
    /\ client'[c].stage = "taking" <=> client[c].stage = "taking"
    /\ client[c].stage = "taking" => client'[c].claim = client[c].claim /\ client'[c].repo = client[c].repo
SameRuns == \A c \in Clients, t \in Checkouts : Runs(c, t)' <=> Runs(c, t)
SameCheckouts ==
  \A t \in Checkouts : checkout'[t].stage = checkout[t].stage /\ checkout'[t].repo = checkout[t].repo
\* A repository that waits for a preparation is not taken away.
SameUse ==
  \A r \in Repositories : repository'[r].stage \in {"none", "making", "removed"} =>
    repository[r].stage \in {"none", "making", "removed"}
Calm == task' = task /\ SameSlots /\ SameLowers /\ SameTakes /\ SameRuns /\ SameCheckouts /\ SameUse

\* No promise and no checkout changes hands in a calm step.
LEMMA CalmKeeps ==
  ASSUME PoolInv, Calm
  PROVE  TasksTrue' /\ Holding' /\ HeldOnce' /\ NoneForgotten' /\ OwnedOnce' /\ NoneLeaked'
  <1> USE DEF PoolInv, Calm
  <1>1. TasksTrue'
    BY DEF TasksTrue, SameUse
  <1>2. Holding'
    BY Bounds DEF Holding, SameSlots, SameTakes
  <1>3. \A c \in Clients, k \in Tasks : Takes(c, k)' <=> Takes(c, k)
    BY DEF SameTakes, Takes
  <1>4. HeldOnce' /\ NoneForgotten'
    <2>1. \A k \in Tasks : IsHeld(k)' <=> IsHeld(k)
      BY <1>3 DEF IsHeld, SameSlots
    <2>2. HeldOnce'
      BY <1>3 DEF HeldOnce, SameSlots
    <2>3. QED
      BY <2>1, <2>2 DEF NoneForgotten
  <1>5. \A k \in Tasks, t \in Checkouts : Promises(k, t)' <=> Promises(k, t)
    BY DEF Promises
  <1>6. OwnedOnce'
    BY <1>5 DEF OwnedOnce, SameRuns, SameLowers
  <1>7. \A t \in Checkouts : IsOwned(t)' <=> IsOwned(t)
    BY <1>5 DEF IsOwned, SameRuns, SameLowers
  <1>8. NoneLeaked'
    BY <1>7 DEF NoneLeaked, SameCheckouts
  <1>9. QED
    BY <1>1, <1>2, <1>4, <1>6, <1>8

\* Nor does a checkout change that a promise or a baseline is for.
LEMMA CalmTrees ==
  ASSUME PoolInv, Calm, checkout' = checkout
  PROVE  TaskTrees' /\ LowerTrees'
  BY DEF PoolInv, Calm, TaskTrees, LowerTrees, SameLowers

SameCounts ==
  \A r \in Repositories : repository'[r].active = repository[r].active /\ repository'[r].users = repository[r].users
SameInside == \A r \in Repositories : Inside(r)' = Inside(r)
SameMounted == \A r \in Repositories, v \in Versions : Mounted(r, v)' = Mounted(r, v)

\* What a repository counts is as it was.
LEMMA CountsStay ==
  ASSUME PoolInv, SameCounts, SameInside, SameMounted
  PROVE  Counted'
  BY DEF PoolInv, Counted, SameCounts, SameInside, SameMounted

\* Somebody enters a repository, or leaves it.
LEMMA OneEnters ==
  ASSUME PoolInv, PoolType', NEW r \in Repositories, NEW c \in Clients, c \notin Inside(r),
         Inside(r)' = Inside(r) \cup {c}, \A q \in Repositories \ {r} : Inside(q)' = Inside(q), SameMounted,
         \A q \in Repositories : repository'[q].users = repository[q].users,
         \A q \in Repositories \ {r} : repository'[q].active = repository[q].active,
         repository'[r].active = repository[r].active + 1
  PROVE  Counted'
  <1>1. IsFiniteSet(Inside(r)) /\ repository[r].active = Cardinality(Inside(r))
    BY DEF PoolInv, Counted
  <1>2. IsFiniteSet(Inside(r)') /\ Cardinality(Inside(r)') = repository'[r].active
    BY <1>1, FS_AddElement
  <1>3. QED
    BY <1>2 DEF PoolInv, Counted, SameMounted

\* Somebody leaves a repository that counted him.
LEMMA OneLeaves ==
  ASSUME PoolInv, NEW r \in Repositories, NEW c \in Clients, c \in Inside(r),
         Inside(r)' = Inside(r) \ {c}, \A q \in Repositories \ {r} : Inside(q)' = Inside(q),
         \A q \in Repositories \ {r} : repository'[q].active = repository[q].active,
         repository'[r].active = repository[r].active - 1
  PROVE  \A q \in Repositories : IsFiniteSet(Inside(q)') /\ repository'[q].active = Cardinality(Inside(q)')
  <1>1. IsFiniteSet(Inside(r)) /\ repository[r].active = Cardinality(Inside(r))
    BY DEF PoolInv, Counted
  <1>2. IsFiniteSet(Inside(r)') /\ Cardinality(Inside(r)') = repository'[r].active
    BY <1>1, FS_RemoveElement
  <1>3. QED
    BY <1>2 DEF PoolInv, Counted

\* There is somebody inside only if he is counted.
LEMMA CountedInside ==
  ASSUME PoolInv, NEW r \in Repositories
  PROVE  /\ repository[r].active = 0 <=> Inside(r) = {}
         /\ \A c \in Inside(r) : repository[r].active - 1 \in Nat
  <1>1. IsFiniteSet(Inside(r)) /\ repository[r].active = Cardinality(Inside(r))
    BY DEF PoolInv, Counted
  <1>2. Cardinality(Inside(r)) \in Nat /\ (Cardinality(Inside(r)) = 0 <=> Inside(r) = {})
    BY <1>1, FS_EmptySet, FS_CardinalityType
  <1>3. QED
    BY <1>1, <1>2

\* A baseline that counts no mount has none.
LEMMA CountedMounted ==
  ASSUME PoolInv, NEW r \in Repositories, NEW v \in Versions
  PROVE  /\ repository[r].users[v] = 0 <=> Mounted(r, v) = {}
         /\ \A c \in Mounted(r, v) : repository[r].users[v] - 1 \in Nat
  <1>1. IsFiniteSet(Mounted(r, v)) /\ repository[r].users[v] = Cardinality(Mounted(r, v))
    BY DEF PoolInv, Counted
  <1>2. Cardinality(Mounted(r, v)) \in Nat /\ (Cardinality(Mounted(r, v)) = 0 <=> Mounted(r, v) = {})
    BY <1>1, FS_EmptySet, FS_CardinalityType
  <1>3. QED
    BY <1>1, <1>2

\* A record of a repository keeps the fields an update does not name.
LEMMA FlagChanges ==
  ASSUME NEW x \in RepositoryRecords, NEW b \in BOOLEAN, NEW y, y = [x EXCEPT !.toClose = b]
  PROVE  /\ y \in RepositoryRecords
         /\ y.stage = x.stage /\ y.quarantined = x.quarantined /\ y.slot = x.slot /\ y.claim = x.claim
         /\ y.lower = x.lower /\ y.users = x.users /\ y.active = x.active
  BY DEF RepositoryRecords

\* The same of its stage.
LEMMA StageChanges ==
  ASSUME NEW x \in RepositoryRecords, NEW s \in RepositoryStages, NEW y, y = [x EXCEPT !.stage = s]
  PROVE  /\ y \in RepositoryRecords
         /\ y.stage = s /\ y.quarantined = x.quarantined /\ y.slot = x.slot /\ y.claim = x.claim
         /\ y.lower = x.lower /\ y.users = x.users /\ y.active = x.active
  BY DEF RepositoryRecords

SameRepositories ==
  \A r \in Repositories :
    /\ repository'[r].stage = repository[r].stage /\ repository'[r].quarantined = repository[r].quarantined
    /\ repository'[r].slot = repository[r].slot /\ repository'[r].claim = repository[r].claim
    /\ repository'[r].lower = repository[r].lower /\ repository'[r].users = repository[r].users
    /\ repository'[r].active = repository[r].active

\* One repository is replaced by a record that agrees with it so far.
LEMMA OneChanges ==
  ASSUME PoolType, NEW r \in Repositories, NEW y \in RepositoryRecords, repository' = [repository EXCEPT ![r] = y]
  PROVE  /\ repository' \in [Repositories -> RepositoryRecords]
         /\ repository'[r] = y /\ \A q \in Repositories \ {r} : repository'[q] = repository[q]
  BY DEF PoolType

\* closePools and the idle timer only mark a repository.
LEMMA FlagStep ==
  ASSUME PoolType, NEW r \in Repositories, NEW b \in BOOLEAN, repository' = [repository EXCEPT ![r].toClose = b]
  PROVE  repository' \in [Repositories -> RepositoryRecords] /\ SameRepositories
  <1> DEFINE y == [repository[r] EXCEPT !.toClose = b]
  <1>1. repository[r] \in RepositoryRecords
    BY DEF PoolType
  <1>2. /\ y \in RepositoryRecords
        /\ y.stage = repository[r].stage /\ y.quarantined = repository[r].quarantined /\ y.slot = repository[r].slot
        /\ y.claim = repository[r].claim /\ y.lower = repository[r].lower /\ y.users = repository[r].users
        /\ y.active = repository[r].active
    BY <1>1, FlagChanges
  <1>3. repository' = [repository EXCEPT ![r] = y]
    OBVIOUS
  <1> HIDE DEF y
  <1>4. QED
    BY <1>2, <1>3, OneChanges DEF SameRepositories

\* The steps of a call between its entry and its checkout.
LEMMA MovesInside ==
  ASSUME PoolInv, PoolType', NEW c \in Clients, task' = task, checkout' = checkout, source' = source, SameRepositories,
         client[c].stage \in {"baseline", "staging", "allocate", "warming"},
         client'[c].stage \in {"staging", "allocate", "dispose"},
         \A d \in Clients \ {c} : client'[d] = client[d],
         client'[c].repo = client[c].repo, client'[c].kind = client[c].kind, client'[c].since = client[c].since,
         client'[c].tree = client[c].tree, client'[c].settled = client[c].settled,
         client'[c].stage \in {"staging", "allocate"} /\ Exact(c) => client'[c].base >= client[c].since
  PROVE  PoolInv'
  <1>1. client[c].tree = None /\ ~client[c].settled /\ client[c].repo \in Repositories
    BY DEF PoolInv, CallsTrue
  <1>2. Calm
    BY <1>1, Bounds DEF Calm, SameRepositories, SameSlots, SameLowers, SameTakes, SameRuns, SameCheckouts, SameUse, Runs
  <1>3. SameInside
    BY DEF SameInside, Inside, InStages
  <1>4. SameMounted
    BY <1>1 DEF SameMounted, Mounted
  <1>5. Counted'
    BY <1>3, <1>4, CountsStay DEF SameCounts, SameRepositories
  <1>6. RepositoriesTrue'
    BY <1>3 DEF PoolInv, RepositoriesTrue, SameInside, SameRepositories
  <1>7. CallsTrue'
    BY <1>1 DEF PoolInv, CallsTrue, Exact, SameRepositories
  <1>8. CallTrees'
    BY <1>1, Bounds DEF PoolInv, CallTrees, CallsTrue, SameRepositories
  <1>9. QED
    BY <1>2, <1>5, <1>6, <1>7, <1>8, CalmKeeps, CalmTrees DEF PoolInv

\* acquireSandboxBaseline: a call gets its snapshot, or gives up.
LEMMA BaselineSteps ==
  ASSUME PoolInv, NEW c \in Clients,
         ReuseBaseline(c) \/ CaptureBaseline(c) \/ InstallBaseline(c) \/ RefusedByLock(c) \/ Warmed(c)
  PROVE  PoolInv'
  <1> DEFINE r == client[c].repo
  <1>0. client[c] \in CallRecords /\ source \in Versions
    BY DEF PoolInv, PoolType
  <1>1. client[c].stage \notin {"idle", "over"} => r \in Repositories /\ repository[r] \in RepositoryRecords
    BY DEF PoolInv, PoolType, CallsTrue
  <1>2. client[c].since <= source /\ source \in Nat /\ client[c].base \in Nat /\ client[c].since \in Nat
    BY <1>0, Bounds DEF PoolInv, CallsTrue, CallRecords
  <1>3. CASE ReuseBaseline(c)
    <2>1. PICK v \in repository[r].baseline :
            (Exact(c) => v = source) /\ client' = [client EXCEPT ![c].stage = "allocate", ![c].base = v]
      BY <1>3 DEF ReuseBaseline
    <2>2. v \in Versions
      BY <1>1, <1>3 DEF ReuseBaseline, RepositoryRecords
    <2>3. PoolType' /\ SameRepositories
      BY <1>0, <1>1, <1>3, <2>1, <2>2 DEF ReuseBaseline, PoolInv, PoolType, CallRecords, CallStages, InStages,
           SameRepositories
    <2>4. client'[c] = [client[c] EXCEPT !.stage = "allocate", !.base = v]
      BY <2>1 DEF PoolInv, PoolType
    <2>5. /\ client'[c].stage = "allocate" /\ client'[c].base = v /\ client'[c].repo = client[c].repo
          /\ client'[c].kind = client[c].kind /\ client'[c].since = client[c].since
          /\ client'[c].tree = client[c].tree /\ client'[c].settled = client[c].settled
      BY <1>0, <2>4 DEF CallRecords
    <2>6. \A d \in Clients \ {c} : client'[d] = client[d]
      BY <2>1 DEF PoolInv, PoolType
    <2>7. Exact(c) => v >= client[c].since
      BY <1>2, <2>1
    <2>8. QED
      BY <1>3, <2>3, <2>5, <2>6, <2>7, MovesInside DEF ReuseBaseline
  <1>4. CASE CaptureBaseline(c)
    <2>1. PoolType' /\ SameRepositories
      <3>1. repository' \in [Repositories -> RepositoryRecords]
        BY <1>0, <1>1, <1>4 DEF CaptureBaseline, PoolInv, PoolType, RepositoryRecords
      <3>2. client' \in [Clients -> CallRecords]
        BY <1>0, <1>1, <1>4 DEF CaptureBaseline, PoolInv, PoolType, CallRecords, CallStages, InStages
      <3>3. SameRepositories
        BY <1>0, <1>1, <1>4 DEF CaptureBaseline, PoolInv, PoolType, RepositoryRecords, SameRepositories
      <3>4. QED
        BY <1>0, <1>1, <1>4, <3>1, <3>2, <3>3 DEF CaptureBaseline, PoolInv, PoolType
    <2>2. /\ client'[c].stage = "staging" /\ client'[c].base = source /\ client'[c].repo = client[c].repo
          /\ client'[c].kind = client[c].kind /\ client'[c].since = client[c].since
          /\ client'[c].tree = client[c].tree /\ client'[c].settled = client[c].settled
      BY <1>0, <1>4 DEF CaptureBaseline, PoolInv, PoolType, CallRecords
    <2>3. \A d \in Clients \ {c} : client'[d] = client[d]
      BY <1>4 DEF CaptureBaseline, PoolInv, PoolType
    <2>4. QED
      BY <1>2, <1>4, <2>1, <2>2, <2>3, MovesInside DEF CaptureBaseline
  <1>5. CASE InstallBaseline(c)
    <2>0. client[c].stage = "staging" /\ task' = task /\ checkout' = checkout /\ source' = source
      BY <1>5 DEF InstallBaseline
    <2>1. client[c].attempt + 1 \in Nat
      BY <1>0 DEF CallRecords
    <2>2. CASE client' = [client EXCEPT ![c].stage = "allocate", ![c].attempt = 0] /\ (Exact(c) => client[c].base = source)
              /\ repository' = [repository EXCEPT ![r].lock = {}, ![r].baseline = {client[c].base}]
      <3>1. PoolType' /\ SameRepositories
        <4> DEFINE y == [repository[r] EXCEPT !.lock = {}, !.baseline = {client[c].base}]
        <4>0. client[c].base \in Versions /\ repository[r] \in RepositoryRecords
          BY <1>0, <1>1, <2>0 DEF PoolInv, PoolType, CallsTrue, CallRecords
        <4>a. y \in RepositoryRecords
          BY <4>0 DEF RepositoryRecords
        <4>b. repository' = [repository EXCEPT ![r] = y]
          BY <2>2
        <4> HIDE DEF y
        <4>1. repository' \in [Repositories -> RepositoryRecords]
          BY <4>a, <4>b DEF PoolInv, PoolType
        <4>2. client' \in [Clients -> CallRecords]
          BY <1>0, <1>1, <1>5, <2>2 DEF InstallBaseline, PoolInv, PoolType, CallRecords, CallStages, InStages
        <4>3. SameRepositories
          BY <1>0, <1>1, <1>5, <2>2 DEF InstallBaseline, PoolInv, PoolType, RepositoryRecords, SameRepositories
        <4>4. QED
          BY <1>0, <1>1, <1>5, <2>2, <4>1, <4>2, <4>3 DEF InstallBaseline, PoolInv, PoolType
      <3>2. /\ client'[c].stage = "allocate" /\ client'[c].base = client[c].base /\ client'[c].repo = client[c].repo
            /\ client'[c].kind = client[c].kind /\ client'[c].since = client[c].since
            /\ client'[c].tree = client[c].tree /\ client'[c].settled = client[c].settled
        BY <1>0, <2>2 DEF PoolInv, PoolType, CallRecords
      <3>3. \A d \in Clients \ {c} : client'[d] = client[d]
        BY <2>2 DEF PoolInv, PoolType
      <3>4. Exact(c) => client'[c].base >= client[c].since
        BY <1>2, <2>2, <3>2
      <3>5. QED
        BY <2>0, <3>1, <3>2, <3>3, <3>4, MovesInside
    <2>3. CASE client' = [client EXCEPT ![c].base = source, ![c].attempt = @ + 1] /\ UNCHANGED repository
      <3> DEFINE n == client[c].attempt + 1
      <3>0. client' = [client EXCEPT ![c].base = source, ![c].attempt = n] /\ n \in Nat
        BY <2>1, <2>3
      <3> HIDE DEF n
      <3>1. PoolType' /\ SameRepositories
        <4>1. repository' \in [Repositories -> RepositoryRecords]
          BY <1>0, <1>1, <1>5, <2>3, <3>0 DEF InstallBaseline, PoolInv, PoolType, RepositoryRecords
        <4>2. client' \in [Clients -> CallRecords]
          BY <1>0, <1>1, <1>5, <2>3, <3>0 DEF InstallBaseline, PoolInv, PoolType, CallRecords, CallStages, InStages
        <4>3. SameRepositories
          BY <1>0, <1>1, <1>5, <2>3, <3>0 DEF InstallBaseline, PoolInv, PoolType, RepositoryRecords, SameRepositories
        <4>4. QED
          BY <1>0, <1>1, <1>5, <2>3, <3>0, <4>1, <4>2, <4>3 DEF InstallBaseline, PoolInv, PoolType
      <3>2. /\ client'[c].stage = client[c].stage /\ client'[c].base = source /\ client'[c].repo = client[c].repo
            /\ client'[c].kind = client[c].kind /\ client'[c].since = client[c].since
            /\ client'[c].tree = client[c].tree /\ client'[c].settled = client[c].settled
        BY <1>0, <3>0 DEF PoolInv, PoolType, CallRecords
      <3>3. \A d \in Clients \ {c} : client'[d] = client[d]
        BY <3>0 DEF PoolInv, PoolType
      <3>4. Exact(c) => client'[c].base >= client[c].since
        BY <1>2, <3>2
      <3>5. QED
        BY <2>0, <3>1, <3>2, <3>3, <3>4, MovesInside
    <2>4. CASE client' = [client EXCEPT ![c].stage = "dispose", ![c].attempt = 0] /\ repository' = [repository EXCEPT ![r].lock = {}]
      <3>1. PoolType' /\ SameRepositories
        <4>1. repository' \in [Repositories -> RepositoryRecords]
          BY <1>0, <1>1, <1>5, <2>4 DEF InstallBaseline, PoolInv, PoolType, RepositoryRecords
        <4>2. client' \in [Clients -> CallRecords]
          BY <1>0, <1>1, <1>5, <2>4 DEF InstallBaseline, PoolInv, PoolType, CallRecords, CallStages, InStages
        <4>3. SameRepositories
          BY <1>0, <1>1, <1>5, <2>4 DEF InstallBaseline, PoolInv, PoolType, RepositoryRecords, SameRepositories
        <4>4. QED
          BY <1>0, <1>1, <1>5, <2>4, <4>1, <4>2, <4>3 DEF InstallBaseline, PoolInv, PoolType
      <3>2. /\ client'[c].stage = "dispose" /\ client'[c].base = client[c].base /\ client'[c].repo = client[c].repo
            /\ client'[c].kind = client[c].kind /\ client'[c].since = client[c].since
            /\ client'[c].tree = client[c].tree /\ client'[c].settled = client[c].settled
        BY <1>0, <2>4 DEF PoolInv, PoolType, CallRecords
      <3>3. \A d \in Clients \ {c} : client'[d] = client[d]
        BY <2>4 DEF PoolInv, PoolType
      <3>4. QED
        BY <2>0, <3>1, <3>2, <3>3, MovesInside
    <2>5. QED
      BY <1>5, <2>2, <2>3, <2>4 DEF InstallBaseline
  <1>6. CASE RefusedByLock(c) \/ Warmed(c)
    <2>0. /\ client' = [client EXCEPT ![c].stage = "dispose"]
          /\ UNCHANGED <<source, service, registered, repository, checkout, task>>
          /\ client[c].stage \in {"baseline", "allocate", "warming"}
      BY <1>6 DEF RefusedByLock, Warmed, Move
    <2>1. PoolType' /\ SameRepositories
      BY <1>0, <2>0 DEF PoolInv, PoolType, CallRecords, CallStages, InStages, SameRepositories
    <2>2. QED
      BY <2>0, <2>1, MovesInside DEF PoolInv, PoolType, CallRecords
  <1>7. QED
    BY <1>3, <1>4, <1>5, <1>6

\* Steps that touch neither the calls nor what they hold.
LEMMA Elsewhere ==
  ASSUME PoolInv, PoolType', task' = task, checkout' = checkout, client' = client, SameRepositories, source' >= source
  PROVE  PoolInv'
  <1>1. Calm
    BY DEF Calm, SameRepositories, SameSlots, SameLowers, SameTakes, SameRuns, SameCheckouts, SameUse, Runs
  <1>2. SameInside /\ SameMounted
    BY DEF SameInside, SameMounted, Inside, Mounted
  <1>3. Counted'
    BY <1>2, CountsStay DEF SameCounts, SameRepositories
  <1>4. RepositoriesTrue'
    BY <1>2 DEF PoolInv, RepositoriesTrue, SameInside, SameRepositories
  <1>5. \A c \in Clients : client[c].since \in Nat /\ source \in Nat /\ source' \in Nat
    BY Bounds DEF PoolInv, PoolType, CallRecords
  <1>6. CallsTrue'
    BY <1>5 DEF PoolInv, CallsTrue, Exact, SameRepositories
  <1>7. CallTrees'
    BY DEF PoolInv, CallTrees, CallsTrue, SameRepositories
  <1>8. QED
    BY <1>1, <1>3, <1>4, <1>6, <1>7, CalmKeeps, CalmTrees DEF PoolInv

\* What happens outside the pool, and the marks it sets.
LEMMA ElsewhereSteps ==
  ASSUME PoolInv, \/ Edit \/ ServiceDisposed \/ \E r \in Repositories : IdleTimer(r)
                  \/ \E by \in {"world", "service"} : ClosePools(by)
  PROVE  PoolInv'
  <1>1. CASE Edit
    <2>1. PoolType' /\ SameRepositories /\ source' >= source
      BY <1>1, PoolAssumption DEF Edit, PoolInv, PoolType, SameRepositories, Versions
    <2>2. QED
      BY <1>1, <2>1, Elsewhere DEF Edit
  <1>2. CASE ServiceDisposed
    <2>1. PoolType' /\ SameRepositories /\ source' >= source
      BY <1>2, Bounds DEF ServiceDisposed, PoolInv, PoolType, SameRepositories
    <2>2. QED
      BY <1>2, <2>1, Elsewhere DEF ServiceDisposed
  <1>3. ASSUME NEW r \in Repositories, IdleTimer(r) PROVE PoolInv'
    <2>0. repository' \in [Repositories -> RepositoryRecords] /\ SameRepositories
      BY <1>3, FlagStep DEF IdleTimer, PoolInv
    <2>1. PoolType' /\ source' >= source
      BY <1>3, <2>0, Bounds DEF IdleTimer, PoolInv, PoolType
    <2>2. QED
      BY <1>3, <2>0, <2>1, Elsewhere DEF IdleTimer
  <1>4. ASSUME NEW by \in {"world", "service"}, ClosePools(by) PROVE PoolInv'
    <2>0. repository' \in [Repositories -> RepositoryRecords] /\ SameRepositories
      <3>1. CASE registered = None
        BY <1>4, <3>1 DEF ClosePools, PoolInv, PoolType, SameRepositories
      <3>2. CASE registered # None
        <4>1. repository' = [repository EXCEPT ![registered].toClose = TRUE] /\ registered \in Repositories
          BY <1>4, <3>2 DEF ClosePools, PoolInv, PoolType
        <4>2. QED
          BY <4>1, FlagStep DEF PoolInv
      <3>3. QED
        BY <3>1, <3>2
    <2>1. PoolType' /\ source' >= source
      BY <1>4, <2>0, Bounds DEF ClosePools, PoolInv, PoolType
    <2>2. QED
      BY <1>4, <2>0, <2>1, Elsewhere DEF ClosePools
  <1>5. QED
    BY <1>1, <1>2, <1>3, <1>4

\* One call is replaced by a record.
LEMMA OneMoves ==
  ASSUME PoolType, NEW c \in Clients, NEW z \in CallRecords, client' = [client EXCEPT ![c] = z]
  PROVE  /\ client' \in [Clients -> CallRecords]
         /\ client'[c] = z /\ \A d \in Clients \ {c} : client'[d] = client[d]
  BY DEF PoolType

\* A record of a call keeps the fields an update does not name.
LEMMA MoveChanges ==
  ASSUME NEW x \in CallRecords, NEW s \in CallStages, NEW y, y = [x EXCEPT !.stage = s]
  PROVE  /\ y \in CallRecords
         /\ y.stage = s /\ y.kind = x.kind /\ y.repo = x.repo /\ y.since = x.since /\ y.base = x.base
         /\ y.claim = x.claim /\ y.tree = x.tree /\ y.settled = x.settled
  BY DEF CallRecords

\* releaseRepository counts a call out and may start the idle timer.
LEMMA ReleasedIs ==
  ASSUME NEW x \in RepositoryRecords, x.active - 1 \in Nat, NEW y, y = Released(x)
  PROVE  /\ y \in RepositoryRecords
         /\ y.stage = x.stage /\ y.quarantined = x.quarantined /\ y.slot = x.slot /\ y.claim = x.claim
         /\ y.lower = x.lower /\ y.users = x.users /\ y.active = x.active - 1
  <1> DEFINE n == x.active - 1
             b == x.timer \/ (x.active = 1 /\ ~x.quarantined /\ x.stage = "open")
  <1>1. y = [x EXCEPT !.active = n, !.timer = b] /\ n \in Nat /\ b \in BOOLEAN
    BY DEF Released, RepositoryRecords
  <1> HIDE DEF n, b
  <1>2. /\ y \in RepositoryRecords
        /\ y.stage = x.stage /\ y.quarantined = x.quarantined /\ y.slot = x.slot /\ y.claim = x.claim
        /\ y.lower = x.lower /\ y.users = x.users /\ y.active = n
    BY <1>1 DEF RepositoryRecords
  <1>3. QED
    BY <1>2 DEF n

\* The values of a call that is not there, or is over.
LEMMA NobodyIs ==
  /\ NoClient \in CallRecords /\ Over \in CallRecords
  /\ NoClient.stage = "idle" /\ Over.stage = "over"
  /\ \A z \in {NoClient, Over} : z.tree = None /\ z.claim = None /\ ~z.settled /\ z.since = 0 /\ z.repo = None
  <1>1. 0 \in Versions
    BY PoolAssumption DEF Versions
  <1>2. NoClient \in CallRecords
    BY <1>1 DEF NoClient, CallRecords, CallStages, None
  <1>3. Over \in CallRecords
    BY <1>2 DEF Over, CallRecords, CallStages
  <1>4. QED
    BY <1>2, <1>3 DEF NoClient, Over

\* A call that has no checkout takes another stage, or ends.
LEMMA BareMoves ==
  ASSUME PoolInv, PoolType', NEW C \in SUBSET Clients, task' = task, checkout' = checkout, source' = source,
         SameSlots, SameLowers, SameUse,
         \A d \in Clients \ C : client'[d] = client[d],
         \A c \in C : /\ client[c].tree = None /\ client'[c].tree = None /\ ~client'[c].settled
                      /\ client[c].stage # "taking" /\ client'[c].stage \notin {"taking", "running", "stuck"}
                      /\ client'[c].stage \notin {"idle", "over"} => client'[c].repo \in Repositories
                      /\ client'[c].since <= source
                      /\ client'[c].stage \in {"staging", "allocate"} /\ Exact(c)' => client'[c].base >= client'[c].since,
         \A r \in Repositories : repository[r].quarantined => repository'[r].quarantined
  PROVE  Calm /\ CallsTrue' /\ CallTrees' /\ SameMounted
  <1>1. SameTakes /\ SameRuns
    BY Bounds DEF SameTakes, SameRuns, Runs
  <1>2. Calm
    BY <1>1 DEF Calm, SameCheckouts
  <1>3. CallsTrue'
    BY DEF PoolInv, CallsTrue, Exact
  <1>4. CallTrees'
    BY DEF PoolInv, CallTrees, CallsTrue, SameLowers
  <1>5. SameMounted
    BY DEF SameMounted, Mounted
  <1>6. QED
    BY <1>2, <1>3, <1>4, <1>5

\* A new call registers the repository it waits for.
LEMMA CallStep ==
  ASSUME PoolInv, NEW c \in Clients, Call(c)
  PROVE  PoolInv'
  <1>1. PICK kind \in Kinds, r \in IF registered # None THEN {registered} ELSE Fresh(repository) :
          /\ client' = [client EXCEPT ![c].stage = "waiting", ![c].kind = kind, ![c].repo = r,
                                   ![c].since = IF kind \in {"process", "overlay"} THEN source ELSE 0]
          /\ registered' = r
          /\ repository' = IF registered # None THEN repository ELSE [repository EXCEPT ![r].stage = "making"]
    BY DEF Call
  <1>2. r \in Repositories /\ (registered = None => repository[r].stage = "none")
    BY <1>1 DEF PoolInv, PoolType, Fresh
  <1> DEFINE s == IF kind \in {"process", "overlay"} THEN source ELSE 0
             z == [client[c] EXCEPT !.stage = "waiting", !.kind = kind, !.repo = r, !.since = s]
  <1>3. s \in Versions /\ s <= source /\ kind \in {"warm", "filesystem", "process", "overlay"}
    BY PoolAssumption, Bounds DEF PoolInv, PoolType, Versions
  <1>4. client' = [client EXCEPT ![c] = z]
    BY <1>1
  <1>5. client[c] \in CallRecords /\ client[c].stage = "idle"
    BY DEF PoolInv, PoolType, Call
  <1>6. client[c].tree = None /\ ~client[c].settled
    BY <1>5 DEF PoolInv, CallsTrue
  <1> HIDE DEF s
  <1>7. /\ z \in CallRecords /\ z.stage = "waiting" /\ z.repo = r /\ z.since = s
        /\ z.tree = client[c].tree /\ z.settled = client[c].settled
    BY <1>2, <1>3, <1>5 DEF CallRecords, CallStages
  <1> HIDE DEF z
  <1>8. /\ client' \in [Clients -> CallRecords]
        /\ client'[c] = z /\ \A d \in Clients \ {c} : client'[d] = client[d]
    BY <1>4, <1>7, OneMoves DEF PoolInv
  <1>9. /\ repository' \in [Repositories -> RepositoryRecords]
        /\ \A q \in Repositories : repository'[q] = repository[q] \/
             /\ repository[q].stage = "none" /\ repository'[q].stage = "making"
             /\ repository'[q].quarantined = repository[q].quarantined /\ repository'[q].slot = repository[q].slot
             /\ repository'[q].claim = repository[q].claim /\ repository'[q].lower = repository[q].lower
             /\ repository'[q].users = repository[q].users /\ repository'[q].active = repository[q].active
    <2>1. CASE registered # None
      BY <1>1, <2>1 DEF PoolInv, PoolType
    <2>2. CASE registered = None
      <3> DEFINE y == [repository[r] EXCEPT !.stage = "making"]
      <3>1. repository' = [repository EXCEPT ![r] = y]
        BY <1>1, <2>2
      <3>2. /\ y \in RepositoryRecords /\ y.stage = "making" /\ y.quarantined = repository[r].quarantined
            /\ y.slot = repository[r].slot /\ y.claim = repository[r].claim /\ y.lower = repository[r].lower
            /\ y.users = repository[r].users /\ y.active = repository[r].active
        BY <1>2, StageChanges DEF PoolInv, PoolType, RepositoryStages
      <3> HIDE DEF y
      <3>3. QED
        BY <1>2, <2>2, <3>1, <3>2, OneChanges DEF PoolInv
    <2>3. QED
      BY <2>1, <2>2
  <1>10. PoolType'
    BY <1>1, <1>2, <1>8, <1>9 DEF Call, PoolInv, PoolType
  <1>11. Calm /\ CallsTrue' /\ CallTrees' /\ SameMounted
    <2>1. SameSlots /\ SameLowers /\ SameUse /\ \A q \in Repositories : repository[q].quarantined => repository'[q].quarantined
      BY <1>9 DEF SameSlots, SameLowers, SameUse
    <2> DEFINE C == {c}
    <2>2. C \in SUBSET Clients /\ \A d \in Clients \ C : client'[d] = client[d]
      BY <1>8
    <2>3. \A d \in C : /\ client[d].tree = None /\ client'[d].tree = None /\ ~client'[d].settled
                      /\ client[d].stage = "idle" /\ client'[d].stage = "waiting"
                      /\ client'[d].repo \in Repositories /\ client'[d].since <= source
      BY <1>2, <1>3, <1>5, <1>6, <1>7, <1>8
    <2>4. task' = task /\ checkout' = checkout /\ source' = source
      BY DEF Call
    <2> HIDE DEF C
    <2>5. QED
      BY <1>10, <2>1, <2>2, <2>3, <2>4, BareMoves
  <1>12. SameInside
    BY <1>5, <1>7, <1>8 DEF SameInside, Inside, InStages
  <1>13. Counted'
    BY <1>9, <1>11, <1>12, CountsStay DEF SameCounts
  <1>14. RepositoriesTrue'
    BY <1>9, <1>12 DEF PoolInv, RepositoriesTrue, SameInside
  <1>15. QED
    BY <1>10, <1>11, <1>13, <1>14, CalmKeeps, CalmTrees DEF Call, PoolInv

\* createSandboxRepository settles.
LEMMA MadeStep ==
  ASSUME PoolInv, NEW r \in Repositories, Made(r)
  PROVE  PoolInv'
  <1> DEFINE y(s) == [repository[r] EXCEPT !.stage = s]
             C == {c \in Clients : client[c].stage = "waiting" /\ client[c].repo = r /\ client'[c] # client[c]}
  <1>1. PICK s \in {"open", "removed"} :
          /\ repository' = [repository EXCEPT ![r].stage = s]
          /\ IF s = "open" THEN UNCHANGED <<registered, client>>
             ELSE /\ registered' = IF registered = r THEN None ELSE registered
                  /\ client' = [c \in Clients |-> IF client[c].stage = "waiting" /\ client[c].repo = r
                                                  THEN Over ELSE client[c]]
    BY DEF Made
  <1>2. /\ y(s) \in RepositoryRecords /\ y(s).stage = s /\ y(s).quarantined = repository[r].quarantined
        /\ y(s).slot = repository[r].slot /\ y(s).claim = repository[r].claim /\ y(s).lower = repository[r].lower
        /\ y(s).users = repository[r].users /\ y(s).active = repository[r].active
    BY StageChanges DEF PoolInv, PoolType, RepositoryStages
  <1>3. repository' = [repository EXCEPT ![r] = y(s)]
    BY <1>1
  <1> HIDE DEF y
  <1>4. /\ repository' \in [Repositories -> RepositoryRecords]
        /\ repository'[r] = y(s) /\ \A q \in Repositories \ {r} : repository'[q] = repository[q]
    BY <1>2, <1>3, OneChanges DEF PoolInv
  <1>5. client' \in [Clients -> CallRecords] /\ \A c \in Clients : client'[c] # client[c] =>
          client[c].stage = "waiting" /\ client'[c] = Over
    BY <1>1, NobodyIs DEF PoolInv, PoolType
  <1>6. PoolType'
    BY <1>1, <1>4, <1>5 DEF Made, PoolInv, PoolType
  <1>7. C \in SUBSET Clients /\ \A d \in Clients \ C : client'[d] = client[d]
    BY <1>1, <1>5 DEF PoolInv, PoolType
  <1>8. \A d \in C : /\ client[d].tree = None /\ client'[d].tree = None /\ ~client'[d].settled
                     /\ client[d].stage = "waiting" /\ client'[d].stage = "over"
                     /\ client'[d].since <= source
    <2>1. \A d \in C : client[d].stage = "waiting" /\ client'[d] = Over
      BY <1>5
    <2>2. source \in Nat
      BY Bounds DEF PoolInv, PoolType
    <2>3. QED
      BY <2>1, <2>2, NobodyIs DEF PoolInv, CallsTrue
  <1>9. task' = task /\ checkout' = checkout /\ source' = source /\ repository[r].stage = "making"
    BY DEF Made
  <1>10. SameSlots /\ SameLowers /\ SameUse /\ \A q \in Repositories : repository[q].quarantined => repository'[q].quarantined
    BY <1>2, <1>4, <1>9 DEF SameSlots, SameLowers, SameUse
  <1> HIDE DEF C
  <1>11. Calm /\ CallsTrue' /\ CallTrees' /\ SameMounted
    BY <1>6, <1>7, <1>8, <1>9, <1>10, BareMoves
  <1>12. SameInside
    BY <1>5, NobodyIs DEF SameInside, Inside, InStages
  <1>13. Counted'
    BY <1>2, <1>4, <1>11, <1>12, CountsStay DEF SameCounts
  <1>14. RepositoriesTrue'
    BY <1>2, <1>4, <1>9, <1>12 DEF PoolInv, RepositoriesTrue, SameInside
  <1>15. QED
    BY <1>6, <1>9, <1>11, <1>13, <1>14, CalmKeeps, CalmTrees DEF PoolInv

\* acquireRepository counts the call in.
LEMMA EnterStep ==
  ASSUME PoolInv, NEW c \in Clients, Enter(c)
  PROVE  PoolInv'
  <1> DEFINE C == {c}
  <1>0. PICK r \in Repositories : r = client[c].repo
    BY DEF Enter, PoolInv, CallsTrue
  <1>1. /\ client[c] \in CallRecords /\ client[c].stage = "waiting" /\ r \in Repositories
        /\ client[c].tree = None /\ ~client[c].settled /\ client[c].since <= source
        /\ repository[r] \in RepositoryRecords /\ repository[r].stage = "open" /\ source \in Nat
    BY <1>0, Bounds DEF Enter, PoolInv, PoolType, CallsTrue
  <1>2. task' = task /\ checkout' = checkout /\ source' = source /\ service' = service
    BY DEF Enter
  <1>3. C \in SUBSET Clients
    OBVIOUS
  <1>4. CASE repository[r].quarantined
    <2> DEFINE z == IF service = "open" THEN NoClient ELSE Over
    <2>1. client' = [client EXCEPT ![c] = z] /\ registered' = registered /\ repository' = repository
      BY <1>0, <1>4 DEF Enter
    <2>2. z \in CallRecords /\ z.stage \in {"idle", "over"} /\ z.tree = None /\ ~z.settled /\ z.since = 0
      BY NobodyIs
    <2> HIDE DEF z
    <2>3. /\ client' \in [Clients -> CallRecords]
          /\ client'[c] = z /\ \A d \in Clients \ {c} : client'[d] = client[d]
      BY <2>1, <2>2, OneMoves DEF PoolInv
    <2>4. PoolType'
      BY <1>2, <2>1, <2>3 DEF PoolInv, PoolType
    <2>5. SameSlots /\ SameLowers /\ SameUse /\ SameCounts
      BY <2>1 DEF SameSlots, SameLowers, SameUse, SameCounts
    <2>6. \A d \in C : /\ client[d].tree = None /\ client'[d].tree = None /\ ~client'[d].settled
                       /\ client[d].stage = "waiting" /\ client'[d].stage \in {"idle", "over"}
                       /\ client'[d].since <= source
      BY <1>1, <2>2, <2>3
    <2>7. \A d \in Clients \ C : client'[d] = client[d]
      BY <2>3
    <2>8. SameInside
      BY <1>0, <1>1, <2>2, <2>3 DEF SameInside, Inside, InStages
    <2> HIDE DEF C
    <2>9. Calm /\ CallsTrue' /\ CallTrees' /\ SameMounted
      BY <1>2, <1>3, <2>1, <2>4, <2>5, <2>6, <2>7, BareMoves
    <2>10. Counted'
      BY <2>5, <2>8, <2>9, CountsStay
    <2>11. RepositoriesTrue'
      BY <2>1, <2>8 DEF PoolInv, RepositoriesTrue, SameInside
    <2>12. QED
      BY <1>2, <2>4, <2>9, <2>10, <2>11, CalmKeeps, CalmTrees DEF PoolInv
  <1>5. CASE ~repository[r].quarantined
    <2> DEFINE z == [client[c] EXCEPT !.stage = "baseline"]
               n == repository[r].active + 1
               y == [repository[r] EXCEPT !.active = n, !.timer = FALSE]
    <2>1. /\ client' = [client EXCEPT ![c] = z] /\ registered' = registered
          /\ repository' = [repository EXCEPT ![r] = y]
      BY <1>0, <1>5 DEF Enter, Move
    <2>2. /\ z \in CallRecords /\ z.stage = "baseline" /\ z.tree = None /\ ~z.settled /\ z.since = client[c].since
          /\ z.repo = r
      BY <1>0, <1>1, MoveChanges DEF CallStages, InStages
    <2>3. n \in Nat
      BY <1>1 DEF RepositoryRecords
    <2> HIDE DEF n
    <2>4. /\ y \in RepositoryRecords /\ y.stage = repository[r].stage /\ y.quarantined = repository[r].quarantined
          /\ y.slot = repository[r].slot /\ y.claim = repository[r].claim /\ y.lower = repository[r].lower
          /\ y.users = repository[r].users /\ y.active = n
      BY <1>1, <2>3 DEF RepositoryRecords
    <2> HIDE DEF z, y
    <2>5. /\ client' \in [Clients -> CallRecords]
          /\ client'[c] = z /\ \A d \in Clients \ {c} : client'[d] = client[d]
      BY <2>1, <2>2, OneMoves DEF PoolInv
    <2>6. /\ repository' \in [Repositories -> RepositoryRecords]
          /\ repository'[r] = y /\ \A q \in Repositories \ {r} : repository'[q] = repository[q]
      BY <1>1, <2>1, <2>4, OneChanges DEF PoolInv
    <2>7. PoolType'
      BY <1>2, <2>1, <2>5, <2>6 DEF PoolInv, PoolType
    <2>8. SameSlots /\ SameLowers /\ SameUse /\ \A q \in Repositories : repository'[q].quarantined = repository[q].quarantined
      BY <2>4, <2>6 DEF SameSlots, SameLowers, SameUse
    <2>9. \A d \in C : /\ client[d].tree = None /\ client'[d].tree = None /\ ~client'[d].settled
                       /\ client[d].stage = "waiting" /\ client'[d].stage = "baseline"
                       /\ client'[d].repo \in Repositories /\ client'[d].since <= source
      BY <1>0, <1>1, <2>2, <2>5
    <2>10. \A d \in Clients \ C : client'[d] = client[d]
      BY <2>5
    <2>11. /\ c \notin Inside(r) /\ Inside(r)' = Inside(r) \cup {c}
           /\ \A q \in Repositories \ {r} : Inside(q)' = Inside(q)
      BY <1>0, <1>1, <2>2, <2>5 DEF Inside, InStages
    <2> HIDE DEF C
    <2>12. Calm /\ CallsTrue' /\ CallTrees' /\ SameMounted
      BY <1>2, <1>3, <2>7, <2>8, <2>9, <2>10, BareMoves
    <2>13. Counted'
      <3>1. repository'[r].active = repository[r].active + 1
        BY <2>4, <2>6 DEF n
      <3>2. \A q \in Repositories : repository'[q].users = repository[q].users
        BY <2>4, <2>6
      <3>3. \A q \in Repositories \ {r} : repository'[q].active = repository[q].active
        BY <2>6
      <3>4. QED
        BY <1>1, <2>7, <2>11, <2>12, <3>1, <3>2, <3>3, OneEnters
    <2>14. RepositoriesTrue'
      BY <1>1, <2>4, <2>6, <2>11 DEF PoolInv, RepositoriesTrue
    <2>15. QED
      BY <1>2, <2>7, <2>12, <2>13, <2>14, CalmKeeps, CalmTrees DEF PoolInv
  <1>6. QED
    BY <1>4, <1>5

\* The closer seals the lock.
LEMMA BeginCloseStep ==
  ASSUME PoolInv, NEW r \in Repositories, BeginClose(r)
  PROVE  PoolInv'
  <1> DEFINE y == [repository[r] EXCEPT !.stage = "closing"]
  <1>1. repository' = [repository EXCEPT ![r] = y] /\ repository[r].stage = "open"
    BY DEF BeginClose
  <1>2. /\ y \in RepositoryRecords /\ y.stage = "closing" /\ y.quarantined = repository[r].quarantined
        /\ y.slot = repository[r].slot /\ y.claim = repository[r].claim /\ y.lower = repository[r].lower
        /\ y.users = repository[r].users /\ y.active = repository[r].active
    BY StageChanges DEF PoolInv, PoolType, RepositoryStages
  <1> HIDE DEF y
  <1>3. /\ repository' \in [Repositories -> RepositoryRecords]
        /\ repository'[r] = y /\ \A q \in Repositories \ {r} : repository'[q] = repository[q]
    BY <1>1, <1>2, OneChanges DEF PoolInv
  <1>4. client' = client /\ task' = task /\ checkout' = checkout /\ source' = source /\ service' = service /\ registered' = registered
    BY DEF BeginClose
  <1>5. PoolType'
    BY <1>3, <1>4 DEF PoolInv, PoolType
  <1>6. SameSlots /\ SameLowers /\ SameUse /\ SameCounts /\ \A q \in Repositories : repository[q].quarantined = repository'[q].quarantined
    BY <1>2, <1>3 DEF SameSlots, SameLowers, SameUse, SameCounts
  <1>7. {} \in SUBSET Clients /\ \A d \in Clients \ {} : client'[d] = client[d]
    BY <1>4
  <1>8. Calm /\ CallsTrue' /\ CallTrees' /\ SameMounted
    BY <1>4, <1>5, <1>6, <1>7, BareMoves
  <1>9. SameInside
    BY <1>4 DEF SameInside, Inside
  <1>10. Counted'
    BY <1>6, <1>8, <1>9, CountsStay
  <1>11. RepositoriesTrue'
    BY <1>1, <1>2, <1>3, <1>9 DEF PoolInv, RepositoriesTrue, SameInside
  <1>12. QED
    BY <1>4, <1>5, <1>8, <1>10, <1>11, CalmKeeps, CalmTrees DEF PoolInv
-----------------------------------------------------------------------------
(* The end of a branch over a mounted snapshot. *)

\* A mount is taken off the count of its baseline.
LEMMA OneUnmounts ==
  ASSUME PoolInv, NEW r \in Repositories, NEW v \in Versions, NEW c \in Clients, c \in Mounted(r, v),
         Mounted(r, v)' = Mounted(r, v) \ {c},
         \A q \in Repositories, u \in Versions : q # r \/ u # v =>
           Mounted(q, u)' = Mounted(q, u) /\ repository'[q].users[u] = repository[q].users[u],
         repository'[r].users[v] = repository[r].users[v] - 1
  PROVE  \A q \in Repositories, u \in Versions :
           IsFiniteSet(Mounted(q, u)') /\ repository'[q].users[u] = Cardinality(Mounted(q, u)')
  <1>1. IsFiniteSet(Mounted(r, v)) /\ repository[r].users[v] = Cardinality(Mounted(r, v))
    BY DEF PoolInv, Counted
  <1>2. IsFiniteSet(Mounted(r, v)') /\ Cardinality(Mounted(r, v)') = repository'[r].users[v]
    BY <1>1, FS_RemoveElement
  <1>3. \A q \in Repositories, u \in Versions :
          IsFiniteSet(Mounted(q, u)) /\ repository[q].users[u] = Cardinality(Mounted(q, u))
    BY DEF PoolInv, Counted
  <1>4. ASSUME NEW q \in Repositories, NEW u \in Versions
        PROVE  IsFiniteSet(Mounted(q, u)') /\ repository'[q].users[u] = Cardinality(Mounted(q, u)')
    <2>1. CASE q = r /\ u = v
      BY <1>2, <2>1
    <2>2. CASE q # r \/ u # v
      <3>1. Mounted(q, u)' = Mounted(q, u) /\ repository'[q].users[u] = repository[q].users[u]
        BY <2>2
      <3>2. QED
        BY <1>3, <3>1
    <2>3. QED
      BY <2>1, <2>2
  <1>5. QED
    BY <1>4

\* A branch runs and leaves its writes in a checkout that is its own.
LEMMA RunTaskStep ==
  ASSUME PoolInv, NEW c \in Clients, RunTask(c)
  PROVE  PoolInv'
  <1>0. PICK settled \in IF client[c].kind = "filesystem" THEN BOOLEAN ELSE {FALSE} :
          client' = [client EXCEPT ![c].stage = "dispose", ![c].settled = settled]
    BY DEF RunTask
  <1>1. /\ client[c] \in CallRecords /\ client[c].stage = "running" /\ settled \in BOOLEAN
        /\ settled => client[c].kind = "filesystem"
    BY <1>0 DEF RunTask, PoolInv, PoolType
  <1> DEFINE z == [client[c] EXCEPT !.stage = "dispose", !.settled = settled]
  <1>2. client' = [client EXCEPT ![c] = z]
    BY <1>0
  <1>3. /\ z \in CallRecords /\ z.stage = "dispose" /\ z.settled = settled /\ z.repo = client[c].repo
        /\ z.kind = client[c].kind /\ z.base = client[c].base /\ z.tree = client[c].tree
        /\ z.since = client[c].since
    BY <1>1 DEF CallRecords, CallStages, InStages
  <1> HIDE DEF z
  <1>4. /\ client' \in [Clients -> CallRecords]
        /\ client'[c] = z /\ \A d \in Clients \ {c} : client'[d] = client[d]
    BY <1>2, <1>3, OneMoves DEF PoolInv
  <1>5. PICK t \in Checkouts : t = client[c].tree
    BY <1>1 DEF PoolInv, CallsTrue, CallRecords
  <1>6. /\ source' = source /\ service' = service /\ registered' = registered
        /\ repository' = repository /\ task' = task
        /\ checkout' = IF client[c].kind = "overlay" THEN checkout
                       ELSE [checkout EXCEPT ![t].content = Dirty, ![t].written = settled]
    BY <1>3, <1>4, <1>5 DEF RunTask
  <1>7. /\ checkout' \in [Checkouts -> CheckoutRecords] /\ SameCheckouts
        /\ \A u \in Checkouts : u # t \/ client[c].kind = "overlay" => checkout'[u] = checkout[u]
        /\ client[c].kind # "overlay" => checkout'[t].written = settled
    <2>1. CASE client[c].kind = "overlay"
      BY <1>6, <2>1 DEF PoolInv, PoolType, SameCheckouts
    <2>2. CASE client[c].kind # "overlay"
      <3> DEFINE y == [checkout[t] EXCEPT !.content = Dirty, !.written = settled]
      <3>1. checkout' = [checkout EXCEPT ![t] = y] /\ checkout[t] \in CheckoutRecords
        BY <1>6, <2>2 DEF PoolInv, PoolType
      <3>2. y \in CheckoutRecords /\ y.stage = checkout[t].stage /\ y.repo = checkout[t].repo /\ y.written = settled
        BY <1>1, <3>1, Bounds DEF CheckoutRecords
      <3> HIDE DEF y
      <3>3. QED
        BY <2>2, <3>1, <3>2 DEF PoolInv, PoolType, SameCheckouts
    <2>3. QED
      BY <2>1, <2>2
  <1>8. PoolType'
    BY <1>4, <1>6, <1>7 DEF PoolInv, PoolType
  <1>9. Calm
    BY <1>1, <1>3, <1>4, <1>6, <1>7
      DEF Calm, SameSlots, SameLowers, SameTakes, SameRuns, SameUse, Runs
  <1>10. SameInside /\ SameMounted
    BY <1>1, <1>3, <1>4 DEF SameInside, SameMounted, Inside, Mounted, InStages
  <1>11. Counted'
    BY <1>6, <1>10, CountsStay DEF SameCounts
  <1>12. RepositoriesTrue'
    BY <1>6, <1>10 DEF PoolInv, RepositoriesTrue, SameInside
  <1>13. CallsTrue'
    BY <1>1, <1>3, <1>4, <1>5, <1>6, Bounds DEF PoolInv, CallsTrue, Exact
  <1>14. client[c].kind # "overlay" => Runs(c, t)
    BY <1>5 DEF Runs
  <1>15. CallTrees'
    <2> SUFFICES ASSUME NEW d \in Clients, client'[d].tree # None
                 PROVE  /\ checkout'[client'[d].tree].stage = "live" /\ checkout'[client'[d].tree].repo = client'[d].repo
                        /\ client'[d].stage = "running" => checkout'[client'[d].tree].content = client'[d].base
                        /\ client'[d].settled => checkout'[client'[d].tree].written
                        /\ client'[d].kind = "overlay" => repository'[client'[d].repo].lower[client'[d].base] = client'[d].tree
      BY DEF CallTrees
    <2>1. client'[d].tree = client[d].tree /\ client'[d].repo = client[d].repo /\ client'[d].kind = client[d].kind
          /\ client'[d].base = client[d].base
      BY <1>3, <1>4
    <2>2. PICK u \in Checkouts : u = client[d].tree
      BY <1>8, <2>1 DEF PoolInv, PoolType, CallRecords
    <2>3. /\ checkout[u].stage = "live" /\ checkout[u].repo = client[d].repo
          /\ client[d].stage = "running" => checkout[u].content = client[d].base
          /\ client[d].settled => checkout[u].written
          /\ client[d].kind = "overlay" => repository[client[d].repo].lower[client[d].base] = u
      BY <2>1, <2>2 DEF PoolInv, CallTrees
    <2>4. CASE d = c
      <3>1. checkout'[u].stage = checkout[u].stage /\ checkout'[u].repo = checkout[u].repo
        BY <1>7 DEF SameCheckouts
      <3>2. client'[d].stage = "dispose" /\ client'[d].settled = settled
        BY <1>3, <1>4, <2>4
      <3>3. u = t /\ (settled => client[c].kind # "overlay")
        BY <1>1, <1>5, <2>2, <2>4
      <3>4. settled => checkout'[u].written
        BY <1>7, <3>3
      <3>5. repository' = repository
        BY <1>6
      <3>6. QED
        BY <2>1, <2>2, <2>3, <3>1, <3>2, <3>4, <3>5
    <2>5. CASE d # c
      <3>1. client'[d] = client[d]
        BY <1>4, <2>5
      <3>2. u # t \/ client[c].kind = "overlay"
        <4> SUFFICES ASSUME u = t, client[c].kind # "overlay" PROVE FALSE
          OBVIOUS
        <4>1. CASE client[d].kind = "overlay"
          <5>1. client[d].repo \in Repositories /\ client[d].base \in Versions
            BY <2>1, <2>2, Bounds DEF PoolInv, PoolType, CallRecords, CallsTrue
          <5>2. QED
            BY <1>14, <2>3, <4>1, <5>1 DEF PoolInv, OwnedOnce
        <4>2. CASE client[d].kind # "overlay"
          BY <1>14, <2>2, <2>5, <4>2 DEF PoolInv, OwnedOnce, Runs
        <4>3. QED
          BY <4>1, <4>2
      <3>3. checkout'[u] = checkout[u]
        BY <1>7, <3>2
      <3>4. QED
        BY <1>6, <2>1, <2>2, <2>3, <3>1, <3>3
    <2>6. QED
      BY <2>4, <2>5
  <1>16. TaskTrees'
    <2> SUFFICES ASSUME NEW k \in Tasks, task[k].stage = "done"
                 PROVE  /\ checkout'[task[k].tree].stage = "live" /\ checkout'[task[k].tree].repo = task[k].repo
                        /\ ~checkout'[task[k].tree].written => checkout'[task[k].tree].content = task[k].base
      BY <1>6 DEF TaskTrees
    <2>1. PICK u \in Checkouts : u = task[k].tree
      BY DEF PoolInv, PoolType, TasksTrue, TaskRecords
    <2>2. Promises(k, u)
      BY <2>1 DEF Promises
    <2>3. u # t \/ client[c].kind = "overlay"
      BY <1>14, <2>2 DEF PoolInv, OwnedOnce
    <2>4. checkout'[u] = checkout[u]
      BY <1>7, <2>3
    <2>5. QED
      BY <2>1, <2>4 DEF PoolInv, TaskTrees
  <1>17. LowerTrees'
    <2>1. \A r \in Repositories, v \in Versions : repository[r].lower[v] # None =>
            /\ checkout'[repository[r].lower[v]].stage = "live" /\ checkout'[repository[r].lower[v]].repo = r
            /\ checkout'[repository[r].lower[v]].content = v
      <3> SUFFICES ASSUME NEW r \in Repositories, NEW v \in Versions, repository[r].lower[v] # None
                   PROVE  /\ checkout'[repository[r].lower[v]].stage = "live" /\ checkout'[repository[r].lower[v]].repo = r
                          /\ checkout'[repository[r].lower[v]].content = v
        OBVIOUS
      <3>1. PICK u \in Checkouts : u = repository[r].lower[v]
        BY DEF PoolInv, PoolType, RepositoryRecords
      <3>2. u # t \/ client[c].kind = "overlay"
        BY <1>14, <3>1 DEF PoolInv, OwnedOnce
      <3>3. checkout'[u] = checkout[u]
        BY <1>7, <3>2
      <3>4. QED
        BY <3>1, <3>3 DEF PoolInv, LowerTrees
    <2>2. repository' = repository
      BY <1>6
    <2>3. QED
      BY <2>1, <2>2 DEF LowerTrees
  <1>18. QED
    BY <1>8, <1>9, <1>11, <1>12, <1>13, <1>15, <1>16, <1>17, CalmKeeps DEF PoolInv

\* A branch over a mounted snapshot ends; the snapshot stays.
LEMMA DisposeOverlayStep ==
  ASSUME PoolInv, NEW c \in Clients, DisposeOverlay(c)
  PROVE  PoolInv'
  <1>0. PICK r \in Repositories : r = client[c].repo
    BY DEF DisposeOverlay, PoolInv, CallsTrue
  <1>1. PICK v \in Versions : v = client[c].base
    BY DEF PoolInv, PoolType, CallRecords
  <1>2. /\ client[c] \in CallRecords /\ client[c].stage = "dispose" /\ client[c].kind = "overlay"
        /\ repository[r] \in RepositoryRecords
    BY DEF DisposeOverlay, PoolInv, PoolType
  <1>3. c \in Inside(r) /\ (client[c].tree # None <=> c \in Mounted(r, v))
    BY <1>0, <1>1, <1>2 DEF Inside, Mounted, InStages
  <1>4. client[c].tree # None => repository[r].users[v] - 1 \in Nat
    BY <1>3, CountedMounted
  <1> DEFINE n == repository[r].users[v] - 1
             w == IF client[c].tree = None THEN repository[r].users ELSE [repository[r].users EXCEPT ![v] = n]
             x == [repository[r] EXCEPT !.users = w]
             y == Released(x)
  <1>5. /\ client' = [client EXCEPT ![c] = Over] /\ repository' = [repository EXCEPT ![r] = y]
        /\ source' = source /\ service' = service /\ registered' = registered /\ checkout' = checkout /\ task' = task
    BY <1>0, <1>1 DEF DisposeOverlay
  <1>6. /\ w \in [Versions -> Nat] /\ \A u \in Versions \ {v} : w[u] = repository[r].users[u]
        /\ w[v] = IF client[c].tree = None THEN repository[r].users[v] ELSE n
    BY <1>2, <1>4 DEF RepositoryRecords
  <1> HIDE DEF w
  <1>7. /\ x \in RepositoryRecords /\ x.stage = repository[r].stage /\ x.quarantined = repository[r].quarantined
        /\ x.slot = repository[r].slot /\ x.claim = repository[r].claim /\ x.lower = repository[r].lower
        /\ x.users = w /\ x.active = repository[r].active
    BY <1>2, <1>6 DEF RepositoryRecords
  <1> HIDE DEF x
  <1>8. x.active - 1 \in Nat
    BY <1>3, <1>7, CountedInside
  <1>9. /\ y \in RepositoryRecords /\ y.stage = repository[r].stage /\ y.quarantined = repository[r].quarantined
        /\ y.slot = repository[r].slot /\ y.claim = repository[r].claim /\ y.lower = repository[r].lower
        /\ y.users = w /\ y.active = repository[r].active - 1
    BY <1>7, <1>8, ReleasedIs
  <1> HIDE DEF y
  <1>10. /\ repository' \in [Repositories -> RepositoryRecords]
         /\ repository'[r] = y /\ \A q \in Repositories \ {r} : repository'[q] = repository[q]
    BY <1>5, <1>9, OneChanges DEF PoolInv
  <1>11. /\ client' \in [Clients -> CallRecords]
         /\ client'[c] = Over /\ \A d \in Clients \ {c} : client'[d] = client[d]
    BY <1>5, NobodyIs, OneMoves DEF PoolInv
  <1>12. PoolType'
    BY <1>5, <1>10, <1>11 DEF PoolInv, PoolType
  <1>13. Calm
    BY <1>2, <1>5, <1>9, <1>10, <1>11, NobodyIs, Bounds
      DEF Calm, SameSlots, SameLowers, SameTakes, SameRuns, SameCheckouts, SameUse, Runs
  <1>14. Inside(r)' = Inside(r) \ {c} /\ \A q \in Repositories \ {r} : Inside(q)' = Inside(q)
    BY <1>0, <1>11, NobodyIs DEF Inside, InStages
  <1>15. \A q \in Repositories, u \in Versions :
           Mounted(q, u)' = IF q = r /\ u = v THEN Mounted(q, u) \ {c} ELSE Mounted(q, u)
    BY <1>0, <1>1, <1>11, NobodyIs DEF Mounted
  <1>16. Counted'
    <2>1. \A q \in Repositories : IsFiniteSet(Inside(q)') /\ repository'[q].active = Cardinality(Inside(q)')
      BY <1>3, <1>9, <1>10, <1>14, OneLeaves
    <2>2. \A q \in Repositories, u \in Versions : q # r \/ u # v =>
            Mounted(q, u)' = Mounted(q, u) /\ repository'[q].users[u] = repository[q].users[u]
      BY <1>6, <1>9, <1>10, <1>15
    <2>3. \A q \in Repositories, u \in Versions :
            IsFiniteSet(Mounted(q, u)') /\ repository'[q].users[u] = Cardinality(Mounted(q, u)')
      <3>1. CASE client[c].tree = None
        <4>1. Mounted(r, v)' = Mounted(r, v) /\ repository'[r].users[v] = repository[r].users[v]
          BY <1>3, <1>6, <1>9, <1>10, <1>15, <3>1
        <4>2. QED
          BY <2>2, <4>1 DEF PoolInv, Counted
      <3>2. CASE client[c].tree # None
        <4>1. repository'[r].users[v] = repository[r].users[v] - 1 /\ Mounted(r, v)' = Mounted(r, v) \ {c}
              /\ c \in Mounted(r, v)
          BY <1>3, <1>6, <1>9, <1>10, <1>15, <3>2
        <4>2. QED
          BY <2>2, <4>1, OneUnmounts
      <3>3. QED
        BY <3>1, <3>2
    <2>4. QED
      BY <2>1, <2>3 DEF Counted
  <1>17. RepositoriesTrue'
    BY <1>3, <1>9, <1>10, <1>14 DEF PoolInv, RepositoriesTrue
  <1>18. CallsTrue'
    <2>1. source \in Nat
      BY Bounds DEF PoolInv, PoolType
    <2>2. \A q \in Repositories : repository'[q].quarantined = repository[q].quarantined
      BY <1>9, <1>10
    <2>3. QED
      BY <1>5, <1>11, <2>1, <2>2, NobodyIs DEF PoolInv, CallsTrue, Exact
  <1>19. CallTrees'
    <2>1. \A q \in Repositories : repository'[q].lower = repository[q].lower
      BY <1>9, <1>10
    <2>2. \A d \in Clients : client[d].tree # None => client[d].repo \in Repositories
      BY DEF PoolInv, CallsTrue
    <2>3. QED
      BY <1>5, <1>11, <2>1, <2>2, NobodyIs DEF PoolInv, CallTrees
  <1>20. QED
    BY <1>5, <1>12, <1>13, <1>16, <1>17, <1>18, <1>19, CalmKeeps, CalmTrees DEF PoolInv

\* quarantineRepository keeps what a stuck mount uses.
LEMMA QuarantineStep ==
  ASSUME PoolInv, NEW c \in Clients, Quarantine(c)
  PROVE  PoolInv'
  <1>0. PICK r \in Repositories : r = client[c].repo
    BY DEF Quarantine, PoolInv, CallsTrue
  <1>1. /\ client[c] \in CallRecords /\ client[c].stage = "dispose" /\ client[c].kind = "overlay" /\ client[c].tree # None
        /\ repository[r] \in RepositoryRecords
    BY DEF Quarantine, PoolInv, PoolType
  <1>2. c \in Inside(r)
    BY <1>0, <1>1 DEF Inside, InStages
  <1> DEFINE x == [repository[r] EXCEPT !.quarantined = TRUE, !.timer = FALSE, !.baseline = {}]
             y == Released(x)
             z == [client[c] EXCEPT !.stage = "stuck"]
  <1>3. /\ client' = [client EXCEPT ![c] = z] /\ repository' = [repository EXCEPT ![r] = y]
        /\ registered' = IF registered = r THEN None ELSE registered
        /\ source' = source /\ service' = service /\ checkout' = checkout /\ task' = task
    BY <1>0 DEF Quarantine, Move
  <1>4. /\ x \in RepositoryRecords /\ x.stage = repository[r].stage /\ x.quarantined
        /\ x.slot = repository[r].slot /\ x.claim = repository[r].claim /\ x.lower = repository[r].lower
        /\ x.users = repository[r].users /\ x.active = repository[r].active
    BY <1>1 DEF RepositoryRecords
  <1> HIDE DEF x
  <1>5. x.active - 1 \in Nat
    BY <1>2, <1>4, CountedInside
  <1>6. /\ y \in RepositoryRecords /\ y.stage = repository[r].stage /\ y.quarantined
        /\ y.slot = repository[r].slot /\ y.claim = repository[r].claim /\ y.lower = repository[r].lower
        /\ y.users = repository[r].users /\ y.active = repository[r].active - 1
    BY <1>4, <1>5, ReleasedIs
  <1>7. /\ z \in CallRecords /\ z.stage = "stuck" /\ z.kind = "overlay" /\ z.repo = r /\ z.since = client[c].since
        /\ z.base = client[c].base /\ z.tree = client[c].tree /\ z.settled = client[c].settled
    BY <1>0, <1>1, MoveChanges DEF CallStages
  <1> HIDE DEF y, z
  <1>8. /\ repository' \in [Repositories -> RepositoryRecords]
        /\ repository'[r] = y /\ \A q \in Repositories \ {r} : repository'[q] = repository[q]
    BY <1>3, <1>6, OneChanges DEF PoolInv
  <1>9. /\ client' \in [Clients -> CallRecords]
        /\ client'[c] = z /\ \A d \in Clients \ {c} : client'[d] = client[d]
    BY <1>3, <1>7, OneMoves DEF PoolInv
  <1>10. PoolType'
    BY <1>3, <1>8, <1>9 DEF PoolInv, PoolType
  <1>11. Calm
    BY <1>1, <1>3, <1>6, <1>7, <1>8, <1>9
      DEF Calm, SameSlots, SameLowers, SameTakes, SameRuns, SameCheckouts, SameUse, Runs
  <1>12. Inside(r)' = Inside(r) \ {c} /\ \A q \in Repositories \ {r} : Inside(q)' = Inside(q)
    BY <1>0, <1>7, <1>9 DEF Inside, InStages
  <1>13. SameMounted
    BY <1>0, <1>1, <1>7, <1>9 DEF SameMounted, Mounted
  <1>14. Counted'
    <2>1. \A q \in Repositories : IsFiniteSet(Inside(q)') /\ repository'[q].active = Cardinality(Inside(q)')
      BY <1>2, <1>6, <1>8, <1>12, OneLeaves
    <2>2. \A q \in Repositories : repository'[q].users = repository[q].users
      BY <1>6, <1>8
    <2>3. QED
      BY <1>13, <2>1, <2>2 DEF PoolInv, Counted, SameMounted
  <1>15. RepositoriesTrue'
    BY <1>2, <1>6, <1>8, <1>12 DEF PoolInv, RepositoriesTrue
  <1>16. client[c].settled = FALSE
    BY <1>1 DEF PoolInv, CallsTrue, CallRecords
  <1>17. CallsTrue'
    <2>1. \A q \in Repositories : repository[q].quarantined => repository'[q].quarantined
      BY <1>6, <1>8
    <2>2. QED
      BY <1>0, <1>1, <1>3, <1>6, <1>7, <1>8, <1>9, <1>16, <2>1 DEF PoolInv, CallsTrue, Exact
  <1>18. CallTrees'
    <2>1. \A q \in Repositories : repository'[q].lower = repository[q].lower
      BY <1>6, <1>8
    <2>2. \A d \in Clients : client[d].tree # None => client[d].repo \in Repositories
      BY DEF PoolInv, CallsTrue
    <2>3. QED
      BY <1>0, <1>1, <1>3, <1>7, <1>9, <1>16, <2>1, <2>2 DEF PoolInv, CallTrees
  <1>19. QED
    BY <1>3, <1>10, <1>11, <1>14, <1>15, <1>17, <1>18, CalmKeeps, CalmTrees DEF PoolInv
-----------------------------------------------------------------------------
(* The promises and who holds them, said of any repositories R, tasks T and calls C: a step that   *)
(* hands a promise on and has the next one prepared is the one change after the other.             *)

Typed(R, T, C) ==
  R \in [Repositories -> RepositoryRecords] /\ T \in [Tasks -> TaskRecords] /\ C \in [Clients -> CallRecords]
TakesIn(C, c, k) == C[c].stage = "taking" /\ C[c].claim = k
TasksIn(R, T) ==
  \A k \in Tasks :
    /\ T[k].stage = "waiting" => T[k].repo \in Repositories /\ R[T[k].repo].stage \notin {"none", "making", "removed"}
    /\ T[k].tree # None <=> T[k].stage = "done"
    /\ T[k].prev # None => T[k].stage = "waiting" /\ T[k].prev < k
    /\ T[k].stage # "none" => \A m \in Tasks : m < k => T[m].stage # "none"
HoldingIn(R, T, C) ==
  /\ \A r \in Repositories :
       /\ R[r].slot # None => T[R[r].slot].repo = r /\ T[R[r].slot].stage \in {"waiting", "done"}
       /\ R[r].claim # None => T[R[r].claim].repo = r /\ T[R[r].claim].stage \in Pledged
  /\ \A k \in Tasks : T[k].prev # None => T[T[k].prev].repo = T[k].repo /\ T[T[k].prev].stage \in Pledged
  /\ \A c \in Clients : C[c].stage = "taking" /\ C[c].claim # None =>
       T[C[c].claim].repo = C[c].repo /\ T[C[c].claim].stage \in Pledged
HeldOnceAt(R, T, C, k) ==
  /\ \A r, q \in Repositories : R[r].slot = k /\ R[q].slot = k => r = q
  /\ \A r, q \in Repositories : R[r].claim = k /\ R[q].claim = k => r = q
  /\ \A i, j \in Tasks : T[i].prev = k /\ T[j].prev = k => i = j
  /\ \A c, d \in Clients : TakesIn(C, c, k) /\ TakesIn(C, d, k) => c = d
  /\ \A r \in Repositories : R[r].slot = k =>
       (\A q \in Repositories : R[q].claim # k) /\ (\A j \in Tasks : T[j].prev # k) /\ (\A c \in Clients : ~TakesIn(C, c, k))
  /\ \A r \in Repositories : R[r].claim = k =>
       (\A j \in Tasks : T[j].prev # k) /\ (\A c \in Clients : ~TakesIn(C, c, k))
  /\ \A j \in Tasks : T[j].prev = k => \A c \in Clients : ~TakesIn(C, c, k)
HeldOnceIn(R, T, C) == \A k \in Tasks : HeldOnceAt(R, T, C, k)
HeldIn(R, T, C, k) ==
  \/ \E r \in Repositories : R[r].slot = k \/ R[r].claim = k
  \/ \E j \in Tasks : T[j].prev = k
  \/ \E c \in Clients : TakesIn(C, c, k)
NoneForgottenIn(R, T, C) == \A k \in Tasks : T[k].stage \in {"waiting", "done"} => HeldIn(R, T, C, k)
Promised(R, T, C) == TasksIn(R, T) /\ HoldingIn(R, T, C) /\ HeldOnceIn(R, T, C) /\ NoneForgottenIn(R, T, C)

\* What holds of the promises of the pool's state.
LEMMA PromisedNow ==
  ASSUME PoolInv
  PROVE  Typed(repository, task, client) /\ Promised(repository, task, client)
  BY DEF PoolInv, PoolType, Typed, Promised, TasksIn, HoldingIn, HeldOnceIn, HeldOnceAt, HeldIn,
       NoneForgottenIn, TakesIn,
         TasksTrue, Holding, HeldOnce, IsHeld, NoneForgotten, Takes

\* And what has to hold of them after a step.
LEMMA PromisedNext ==
  ASSUME Promised(repository', task', client')
  PROVE  TasksTrue' /\ Holding' /\ HeldOnce' /\ NoneForgotten'
  BY DEF Promised, TasksIn, HoldingIn, HeldOnceIn, HeldOnceAt, HeldIn, NoneForgottenIn, TakesIn,
         TasksTrue, Holding, HeldOnce, IsHeld, NoneForgotten, Takes

\* Whatever is held has been promised.
LEMMA HeldIsPledged ==
  ASSUME NEW R, NEW T, NEW C, Typed(R, T, C), Promised(R, T, C), NEW k \in Tasks, HeldIn(R, T, C, k)
  PROVE  T[k].stage \in Pledged
  <1>1. k # None
    BY Bounds
  <1>2. QED
    BY <1>1 DEF Promised, HoldingIn, HeldIn, TakesIn, Pledged

NextPrepared(R, T, C, S, r, n) ==
  /\ Typed(S, n.tasks, C) /\ Promised(S, n.tasks, C)
  /\ \A q \in Repositories \ {r} : S[q] = R[q]
  /\ S[r] = n.repo /\ n.repo \in RepositoryRecords
  /\ n.repo.stage = R[r].stage /\ n.repo.quarantined = R[r].quarantined /\ n.repo.claim = R[r].claim
  /\ n.repo.lower = R[r].lower /\ n.repo.users = R[r].users /\ n.repo.active = R[r].active
  /\ n.repo.slot # R[r].slot => R[r].stage = "open" /\ ~R[r].quarantined
  /\ n.next \in Tasks \cup {None}
  /\ \A k \in Tasks : n.tasks[k] # T[k] => T[k].stage = "none" /\ n.tasks[k].stage = "waiting"
\* prepareNextSandbox puts a new promise into the slot, which holds on to the one before.
LEMMA PreparesNext ==
  ASSUME NEW R, NEW T, NEW C, Typed(R, T, C), Promised(R, T, C),
         NEW r \in Repositories, NEW v \in Versions, NEW n \in PrepareNext(r, v, R[r], T),
         NEW S, S = [R EXCEPT ![r] = n.repo]
  PROVE  NextPrepared(R, T, C, S, r, n)
  <1>0. R[r] \in RepositoryRecords
    BY DEF Typed
  <1>1. CASE n = [repo |-> R[r], tasks |-> T, next |-> None]
    <2>1. n.repo = R[r] /\ n.tasks = T /\ n.next = None
      BY <1>1
    <2>2. S = R
      BY <2>1 DEF Typed
    <2>3. QED
      BY <1>0, <2>1, <2>2 DEF NextPrepared
  <1>2. CASE \E k \in Fresh(T) : R[r].stage = "open" /\ ~R[r].quarantined /\
               n = [repo |-> [R[r] EXCEPT !.slot = k], next |-> k,
                    tasks |-> [T EXCEPT ![k] = [stage |-> "waiting", repo |-> r, base |-> v, prev |-> R[r].slot, tree |-> None]]]
    <2>1. PICK k \in Fresh(T) : R[r].stage = "open" /\ ~R[r].quarantined /\
               n = [repo |-> [R[r] EXCEPT !.slot = k], next |-> k,
                    tasks |-> [T EXCEPT ![k] = [stage |-> "waiting", repo |-> r, base |-> v, prev |-> R[r].slot, tree |-> None]]]
      BY <1>2
    <2>2. k \in Tasks /\ T[k].stage = "none" /\ \A m \in Tasks : m < k => T[m].stage # "none"
      BY DEF Fresh, Typed
    <2> DEFINE p == R[r].slot
               x == [stage |-> "waiting", repo |-> r, base |-> v, prev |-> p, tree |-> None]
               y == [R[r] EXCEPT !.slot = k]
               U == [T EXCEPT ![k] = x]
    <2>3. n.repo = y /\ n.tasks = U /\ n.next = k /\ S = [R EXCEPT ![r] = y]
      BY <2>1
    <2>4. /\ y \in RepositoryRecords /\ y.slot = k
          /\ y.stage = R[r].stage /\ y.quarantined = R[r].quarantined /\ y.claim = R[r].claim
          /\ y.lower = R[r].lower /\ y.users = R[r].users /\ y.active = R[r].active
      BY <1>0, <2>2 DEF RepositoryRecords
    <2>5. /\ x \in TaskRecords /\ x.stage = "waiting" /\ x.repo = r /\ x.prev = p /\ x.tree = None
      BY <1>0 DEF TaskRecords, RepositoryRecords, Pledged, None
    <2>6. U \in [Tasks -> TaskRecords] /\ U[k] = x /\ \A j \in Tasks \ {k} : U[j] = T[j]
      BY <2>2, <2>5 DEF Typed
    <2>7. S \in [Repositories -> RepositoryRecords] /\ S[r] = y /\ \A q \in Repositories \ {r} : S[q] = R[q]
      BY <2>3, <2>4 DEF Typed
    <2>8. p \in Tasks \cup {None}
      BY <1>0 DEF RepositoryRecords
    <2> HIDE DEF x, y, U, p
    <2>9. ~HeldIn(R, T, C, k)
      BY <2>2, HeldIsPledged DEF Pledged
    <2>10. p # None => p \in Tasks /\ T[p].stage \in {"waiting", "done"} /\ T[p].repo = r /\ p < k /\ p # k
      <3>1. p # None => T[p].stage \in {"waiting", "done"} /\ T[p].repo = r
        BY DEF Promised, HoldingIn, p
      <3>2. p # None => p # k /\ ~(k < p)
        BY <2>2, <2>8, <3>1 DEF Promised, TasksIn
      <3>3. QED
        BY <2>2, <2>8, <3>1, <3>2, Bounds
    <2>11. k # None
      BY <2>2, Bounds
    <2>12. Typed(S, U, C)
      BY <2>6, <2>7 DEF Typed
    <2>13. TasksIn(S, U)
      <3>1. \A q \in Repositories : S[q].stage = R[q].stage
        BY <2>4, <2>7
      <3> SUFFICES ASSUME NEW j \in Tasks
                   PROVE  /\ U[j].stage = "waiting" => U[j].repo \in Repositories /\ S[U[j].repo].stage \notin {"none", "making", "removed"}
                          /\ U[j].tree # None <=> U[j].stage = "done"
                          /\ U[j].prev # None => U[j].stage = "waiting" /\ U[j].prev < j
                          /\ U[j].stage # "none" => \A m \in Tasks : m < j => U[m].stage # "none"
        BY DEF TasksIn
      <3>2. CASE j = k
        BY <2>1, <2>2, <2>5, <2>6, <2>10, <3>1, <3>2
      <3>3. CASE j # k
        <4>1. U[j] = T[j]
          BY <2>6, <3>3
        <4>2. \A m \in Tasks : T[m].stage # "none" => U[m].stage # "none"
          BY <2>5, <2>6
        <4>3. QED
          BY <3>1, <4>1, <4>2 DEF Promised, TasksIn
      <3>4. QED
        BY <3>2, <3>3
    <2>14. HoldingIn(S, U, C)
      <3>1. \A j \in Tasks : T[j].stage # "none" => U[j] = T[j]
        BY <2>2, <2>6
      <3>2. \A q \in Repositories : S[q].claim = R[q].claim /\ S[q].slot = IF q = r THEN k ELSE R[q].slot
        BY <2>4, <2>7
      <3>3. \A q \in Repositories : R[q].slot \in Tasks \cup {None} /\ R[q].claim \in Tasks \cup {None}
        BY DEF Typed, RepositoryRecords
      <3>4. \A q \in Repositories :
             /\ S[q].slot # None => U[S[q].slot].repo = q /\ U[S[q].slot].stage \in {"waiting", "done"}
             /\ S[q].claim # None => U[S[q].claim].repo = q /\ U[S[q].claim].stage \in Pledged
        BY <2>5, <2>6, <3>1, <3>2, <3>3 DEF Promised, HoldingIn, Pledged
      <3>5. \A j \in Tasks : U[j].prev # None => U[U[j].prev].repo = U[j].repo /\ U[U[j].prev].stage \in Pledged
        <4>1. \A j \in Tasks : T[j].prev \in Tasks \cup {None}
          BY DEF Typed, TaskRecords
        <4>2. \A j \in Tasks : T[j].prev # None => T[T[j].prev].repo = T[j].repo /\ T[T[j].prev].stage \in Pledged
          BY DEF Promised, HoldingIn
        <4>3. QED
          BY <2>5, <2>6, <2>8, <2>10, <3>1, <4>1, <4>2 DEF Pledged
      <3>6. \A c \in Clients : C[c].stage = "taking" /\ C[c].claim # None =>
              U[C[c].claim].repo = C[c].repo /\ U[C[c].claim].stage \in Pledged
        <4>1. \A c \in Clients : C[c].claim \in Tasks \cup {None}
          BY DEF Typed, CallRecords
        <4>2. QED
          BY <3>1, <4>1 DEF Promised, HoldingIn, Pledged
      <3>7. QED
        BY <3>4, <3>5, <3>6 DEF HoldingIn
    <2>15. HeldOnceIn(S, U, C) /\ NoneForgottenIn(S, U, C)
      <3>1. \A q \in Repositories : S[q].claim = R[q].claim /\ S[q].slot = IF q = r THEN k ELSE R[q].slot
        BY <2>4, <2>7
      <3>2. \A j \in Tasks : U[j].prev = IF j = k THEN p ELSE T[j].prev
        BY <2>5, <2>6
      <3>3. T[k].prev = None
        BY <2>2 DEF Promised, TasksIn
      <3>4. HeldOnceIn(S, U, C)
        <4> SUFFICES ASSUME NEW j \in Tasks PROVE HeldOnceAt(S, U, C, j)
          BY DEF HeldOnceIn
        <4>1. HeldOnceAt(R, T, C, j)
          BY DEF Promised, HeldOnceIn
        <4>2. CASE j = k
          BY <2>9, <2>10, <2>11, <3>1, <3>2, <4>2 DEF HeldIn, HeldOnceAt
        <4>3. CASE j # k /\ j = p
          <5>1. R[r].slot = j
            BY <4>3 DEF p
          <5>2. QED
            BY <3>1, <3>2, <4>1, <4>3, <5>1 DEF HeldOnceAt
        <4>4. CASE j # k /\ j # p
          BY <3>1, <3>2, <3>3, <4>1, <4>4, Bounds DEF HeldOnceAt
        <4>5. QED
          BY <4>2, <4>3, <4>4
      <3>5. NoneForgottenIn(S, U, C)
        <4> SUFFICES ASSUME NEW j \in Tasks, U[j].stage \in {"waiting", "done"} PROVE HeldIn(S, U, C, j)
          BY DEF NoneForgottenIn
        <4>1. CASE j = k
          BY <3>1, <4>1 DEF HeldIn
        <4>2. CASE j = p
          BY <2>2, <3>2, <4>2 DEF HeldIn
        <4>3. CASE j # k /\ j # p
          <5>1. HeldIn(R, T, C, j)
            BY <2>6, <4>3 DEF Promised, NoneForgottenIn
          <5>2. R[r].slot # j
            BY <4>3 DEF p
          <5>3. QED
            BY <3>1, <3>2, <3>3, <4>3, <5>1, <5>2, Bounds DEF HeldIn
        <4>4. QED
          BY <4>1, <4>2, <4>3
      <3>6. QED
        BY <3>4, <3>5
    <2>16. QED
      BY <2>1, <2>2, <2>3, <2>4, <2>5, <2>6, <2>7, <2>12, <2>13, <2>14, <2>15 DEF Promised, NextPrepared
  <1>3. QED
    BY <1>1, <1>2 DEF PrepareNext

\* A promise that was used up is out of the way.
LEMMA SpentIs ==
  ASSUME NEW T \in [Tasks -> TaskRecords], NEW p \in Tasks \cup {None}, NEW U, U = Spent(T, p)
  PROVE  /\ U \in [Tasks -> TaskRecords] /\ \A k \in Tasks : k # p => U[k] = T[k]
         /\ p # None => U[p].stage = "spent" /\ U[p].prev = None /\ U[p].tree = None
  <1> DEFINE x == [NoTask EXCEPT !.stage = "spent"]
  <1>1. 0 \in Versions
    BY PoolAssumption DEF Versions
  <1>2. x \in TaskRecords /\ x.stage = "spent" /\ x.prev = None /\ x.tree = None
    BY <1>1 DEF NoTask, TaskRecords, Pledged, None
  <1>3. U = IF p = None THEN T ELSE [T EXCEPT ![p] = x]
    BY DEF Spent
  <1> HIDE DEF x
  <1>4. QED
    BY <1>2, <1>3

\* What is the same for the promises is as good.
LEMMA Alike ==
  ASSUME NEW R, NEW T, NEW C, NEW S, NEW D, Typed(S, T, D), Promised(R, T, C),
         \A q \in Repositories : /\ S[q].slot = R[q].slot /\ S[q].claim = R[q].claim
                                 /\ S[q].stage \in {"none", "making", "removed"} => R[q].stage \in {"none", "making", "removed"},
         \A c \in Clients : /\ D[c].stage = "taking" <=> C[c].stage = "taking"
                            /\ C[c].stage = "taking" => D[c].claim = C[c].claim /\ D[c].repo = C[c].repo
  PROVE  Promised(S, T, D)
  <1>1. \A c \in Clients, k \in Tasks : TakesIn(D, c, k) <=> TakesIn(C, c, k)
    BY DEF TakesIn
  <1>2. TasksIn(S, T)
    BY DEF Promised, TasksIn
  <1>3. HoldingIn(S, T, D)
    BY DEF Promised, HoldingIn
  <1>4. HeldOnceIn(S, T, D)
    BY <1>1 DEF Promised, HeldOnceIn, HeldOnceAt
  <1>5. \A k \in Tasks : HeldIn(R, T, C, k) => HeldIn(S, T, D, k)
    BY <1>1 DEF HeldIn
  <1>6. NoneForgottenIn(S, T, D)
    BY <1>5 DEF Promised, NoneForgottenIn
  <1>7. QED
    BY <1>2, <1>3, <1>4, <1>6 DEF Promised

\* A call that took the claimed promise has used it up.
LEMMA TakesPromise ==
  ASSUME NEW R, NEW T, NEW C, Typed(R, T, C), Promised(R, T, C),
         NEW c \in Clients, C[c].stage = "taking", NEW p, p = C[c].claim, p # None => T[p].stage # "waiting",
         NEW z \in CallRecords, z.stage # "taking", NEW D, D = [C EXCEPT ![c] = z], NEW U, U = Spent(T, p)
  PROVE  Typed(R, U, D) /\ Promised(R, U, D)
  <1>0. p \in Tasks \cup {None}
    BY DEF Typed, CallRecords
  <1>1. D \in [Clients -> CallRecords] /\ D[c] = z /\ \A d \in Clients \ {c} : D[d] = C[d]
    BY DEF Typed
  <1>2. /\ U \in [Tasks -> TaskRecords] /\ \A k \in Tasks : k # p => U[k] = T[k]
        /\ p # None => U[p].stage = "spent" /\ U[p].prev = None /\ U[p].tree = None
    BY <1>0, SpentIs DEF Typed
  <1>3. Typed(R, U, D)
    BY <1>1, <1>2 DEF Typed
  <1>4. \A k \in Tasks : U[k].prev = T[k].prev
    <2>1. p # None => T[p].prev = None
      BY <1>0 DEF Promised, TasksIn
    <2>2. QED
      BY <1>0, <1>2, <2>1, Bounds
  <1>5. \A d \in Clients, k \in Tasks : TakesIn(D, d, k) <=> TakesIn(C, d, k) /\ d # c
    BY <1>1 DEF TakesIn
  <1>6. p # None => /\ TakesIn(C, c, p) /\ \A d \in Clients : ~TakesIn(D, d, p)
                    /\ \A q \in Repositories : R[q].slot # p /\ R[q].claim # p
                    /\ \A j \in Tasks : T[j].prev # p
    BY <1>0, <1>5 DEF Promised, HeldOnceIn, HeldOnceAt, TakesIn
  <1>7. TasksIn(R, U)
    <2>1. p # None => T[p].stage \in Pledged
      BY <1>0 DEF Promised, HoldingIn
    <2> SUFFICES ASSUME NEW j \in Tasks
                 PROVE  /\ U[j].stage = "waiting" => U[j].repo \in Repositories /\ R[U[j].repo].stage \notin {"none", "making", "removed"}
                        /\ U[j].tree # None <=> U[j].stage = "done"
                        /\ U[j].prev # None => U[j].stage = "waiting" /\ U[j].prev < j
                        /\ U[j].stage # "none" => \A m \in Tasks : m < j => U[m].stage # "none"
      BY DEF TasksIn
    <2>2. \A m \in Tasks : U[m].stage = "none" <=> T[m].stage = "none"
      BY <1>0, <1>2, <2>1, Bounds DEF Pledged
    <2>3. QED
      BY <1>0, <1>2, <2>2, Bounds DEF Promised, TasksIn
  <1>8. HoldingIn(R, U, D)
    <2>1. \A q \in Repositories : R[q].slot \in Tasks \cup {None} /\ R[q].claim \in Tasks \cup {None}
      BY DEF Typed, RepositoryRecords
    <2>2. \A j \in Tasks : T[j].prev \in Tasks \cup {None}
      BY DEF Typed, TaskRecords
    <2>3. \A d \in Clients : C[d].claim \in Tasks \cup {None}
      BY DEF Typed, CallRecords
    <2>4. \A q \in Repositories :
            /\ R[q].slot # None => U[R[q].slot].repo = q /\ U[R[q].slot].stage \in {"waiting", "done"}
            /\ R[q].claim # None => U[R[q].claim].repo = q /\ U[R[q].claim].stage \in Pledged
      BY <1>2, <1>6, <2>1 DEF Promised, HoldingIn
    <2>5. \A k \in Tasks : U[k].prev # None => U[U[k].prev].repo = U[k].repo /\ U[U[k].prev].stage \in Pledged
      <3> SUFFICES ASSUME NEW k \in Tasks, U[k].prev # None
                   PROVE  U[U[k].prev].repo = U[k].repo /\ U[U[k].prev].stage \in Pledged
        OBVIOUS
      <3>1. T[k].prev # None /\ T[k].prev \in Tasks /\ T[k].stage = "waiting" /\ U[k].prev = T[k].prev
        BY <1>4, <2>2 DEF Promised, TasksIn
      <3>2. k # p /\ T[k].prev # p
        BY <1>0, <1>6, <3>1, Bounds
      <3>3. U[k] = T[k] /\ U[T[k].prev] = T[T[k].prev]
        BY <1>2, <3>1, <3>2
      <3>4. QED
        BY <3>1, <3>3 DEF Promised, HoldingIn
    <2>6. \A d \in Clients : D[d].stage = "taking" /\ D[d].claim # None =>
            U[D[d].claim].repo = D[d].repo /\ U[D[d].claim].stage \in Pledged
      <3> SUFFICES ASSUME NEW d \in Clients, D[d].stage = "taking", D[d].claim # None
                   PROVE  U[D[d].claim].repo = D[d].repo /\ U[D[d].claim].stage \in Pledged
        OBVIOUS
      <3>1. d # c /\ D[d] = C[d] /\ C[d].claim \in Tasks
        BY <1>1, <2>3
      <3>2. C[d].claim # p
        BY <1>6, <3>1 DEF TakesIn
      <3>3. QED
        BY <1>2, <3>1, <3>2 DEF Promised, HoldingIn
    <2>7. QED
      BY <2>4, <2>5, <2>6 DEF HoldingIn
  <1>9. HeldOnceIn(R, U, D)
    <2>1. HeldOnceIn(R, T, D)
      BY <1>5 DEF Promised, HeldOnceIn, HeldOnceAt
    <2>2. ASSUME NEW k \in Tasks
          PROVE  /\ \A i, j \in Tasks : U[i].prev = k /\ U[j].prev = k => i = j
                 /\ \A q \in Repositories : R[q].slot = k \/ R[q].claim = k => \A j \in Tasks : U[j].prev # k
                 /\ \A j \in Tasks : U[j].prev = k => \A d \in Clients : ~TakesIn(D, d, k)
      <3>1. /\ \A i, j \in Tasks : T[i].prev = k /\ T[j].prev = k => i = j
            /\ \A q \in Repositories : R[q].slot = k \/ R[q].claim = k => \A j \in Tasks : T[j].prev # k
            /\ \A j \in Tasks : T[j].prev = k => \A d \in Clients : ~TakesIn(D, d, k)
        BY <2>1 DEF HeldOnceIn, HeldOnceAt
      <3>2. QED
        BY <1>4, <3>1
    <2>3. QED
      BY <2>1, <2>2 DEF HeldOnceIn, HeldOnceAt
  <1>10. NoneForgottenIn(R, U, D)
    <2> SUFFICES ASSUME NEW j \in Tasks, U[j].stage \in {"waiting", "done"} PROVE HeldIn(R, U, D, j)
      BY DEF NoneForgottenIn
    <2>1. j # p /\ U[j] = T[j]
      BY <1>2, Bounds
    <2>2. HeldIn(R, T, C, j)
      BY <2>1 DEF Promised, NoneForgottenIn
    <2>3. ~TakesIn(C, c, j)
      BY <2>1 DEF TakesIn
    <2>4. QED
      BY <1>4, <1>5, <2>2, <2>3 DEF HeldIn
  <1>11. QED
    BY <1>3, <1>7, <1>8, <1>9, <1>10 DEF Promised

\* A returned checkout is a promise kept at once.
LEMMA ReturnsPromise ==
  ASSUME NEW R, NEW T, NEW C, Typed(R, T, C), Promised(R, T, C), NEW r \in Repositories,
         R[r].slot = None, R[r].stage = "open", NEW k \in Fresh(T), NEW x \in TaskRecords,
         x.stage = "done", x.repo = r, x.prev = None, x.tree # None, NEW U, U = [T EXCEPT ![k] = x],
         NEW y \in RepositoryRecords, y.slot = k, y.claim = R[r].claim, y.stage = "open", NEW S, S = [R EXCEPT ![r] = y]
  PROVE  Typed(S, U, C) /\ Promised(S, U, C)
  <1>1. k \in Tasks /\ T[k].stage = "none" /\ (\A m \in Tasks : m < k => T[m].stage # "none") /\ k # None
    BY Bounds DEF Fresh, Typed
  <1>2. U \in [Tasks -> TaskRecords] /\ U[k] = x /\ \A j \in Tasks \ {k} : U[j] = T[j]
    BY <1>1 DEF Typed
  <1>3. S \in [Repositories -> RepositoryRecords] /\ S[r] = y /\ \A q \in Repositories \ {r} : S[q] = R[q]
    BY DEF Typed
  <1>4. Typed(S, U, C)
    BY <1>2, <1>3 DEF Typed
  <1>5. ~HeldIn(R, T, C, k)
    BY <1>1, HeldIsPledged DEF Pledged
  <1>6. \A q \in Repositories :
          /\ R[q].slot \in Tasks \cup {None} /\ R[q].claim \in Tasks \cup {None}
          /\ S[q].claim = R[q].claim /\ S[q].stage = R[q].stage /\ S[q].slot = IF q = r THEN k ELSE R[q].slot
    BY <1>3 DEF Typed, RepositoryRecords
  <1>7. \A j \in Tasks : U[j].prev = T[j].prev /\ T[j].prev \in Tasks \cup {None}
    BY <1>1, <1>2 DEF Typed, TaskRecords, Promised, TasksIn
  <1>8. TasksIn(S, U)
    <2> SUFFICES ASSUME NEW j \in Tasks
                 PROVE  /\ U[j].stage = "waiting" => U[j].repo \in Repositories /\ S[U[j].repo].stage \notin {"none", "making", "removed"}
                        /\ U[j].tree # None <=> U[j].stage = "done"
                        /\ U[j].prev # None => U[j].stage = "waiting" /\ U[j].prev < j
                        /\ U[j].stage # "none" => \A m \in Tasks : m < j => U[m].stage # "none"
      BY DEF TasksIn
    <2>1. \A m \in Tasks : T[m].stage # "none" => U[m].stage # "none"
      BY <1>2
    <2>2. CASE j = k
      BY <1>1, <1>2, <2>1, <2>2
    <2>3. CASE j # k
      BY <1>2, <1>6, <2>1, <2>3 DEF Promised, TasksIn
    <2>4. QED
      BY <2>2, <2>3
  <1>9. HoldingIn(S, U, C)
    <2>1. \A j \in Tasks : T[j].stage # "none" => U[j] = T[j]
      BY <1>1, <1>2
    <2>2. \A q \in Repositories :
            /\ S[q].slot # None => U[S[q].slot].repo = q /\ U[S[q].slot].stage \in {"waiting", "done"}
            /\ S[q].claim # None => U[S[q].claim].repo = q /\ U[S[q].claim].stage \in Pledged
      BY <1>2, <1>6, <2>1 DEF Promised, HoldingIn, Pledged
    <2>3. \A j \in Tasks : U[j].prev # None => U[U[j].prev].repo = U[j].repo /\ U[U[j].prev].stage \in Pledged
      <3> SUFFICES ASSUME NEW j \in Tasks, U[j].prev # None
                   PROVE  U[U[j].prev].repo = U[j].repo /\ U[U[j].prev].stage \in Pledged
        OBVIOUS
      <3>1. T[j].prev # None /\ T[j].prev \in Tasks /\ T[j].stage = "waiting" /\ U[j].prev = T[j].prev
        BY <1>7 DEF Promised, TasksIn
      <3>2. T[T[j].prev].stage \in Pledged /\ T[T[j].prev].repo = T[j].repo
        BY <3>1 DEF Promised, HoldingIn
      <3>3. QED
        BY <2>1, <3>1, <3>2 DEF Pledged
    <2>4. \A c \in Clients : C[c].stage = "taking" /\ C[c].claim # None =>
            U[C[c].claim].repo = C[c].repo /\ U[C[c].claim].stage \in Pledged
      <3>1. \A c \in Clients : C[c].claim \in Tasks \cup {None}
        BY DEF Typed, CallRecords
      <3>2. QED
        BY <2>1, <3>1 DEF Promised, HoldingIn, Pledged
    <2>5. QED
      BY <2>2, <2>3, <2>4 DEF HoldingIn
  <1>10. HeldOnceIn(S, U, C)
    <2> SUFFICES ASSUME NEW j \in Tasks PROVE HeldOnceAt(S, U, C, j)
      BY DEF HeldOnceIn
    <2>1. HeldOnceAt(R, T, C, j)
      BY DEF Promised, HeldOnceIn
    <2>2. CASE j = k
      BY <1>5, <1>6, <1>7, <2>2 DEF HeldIn, HeldOnceAt
    <2>3. CASE j # k
      BY <1>6, <1>7, <2>1, <2>3 DEF HeldOnceAt
    <2>4. QED
      BY <2>2, <2>3
  <1>11. NoneForgottenIn(S, U, C)
    <2> SUFFICES ASSUME NEW j \in Tasks, U[j].stage \in {"waiting", "done"} PROVE HeldIn(S, U, C, j)
      BY DEF NoneForgottenIn
    <2>1. CASE j = k
      BY <1>6, <2>1 DEF HeldIn
    <2>2. CASE j # k
      <3>1. HeldIn(R, T, C, j) /\ R[r].slot # j
        BY <1>2, <2>2, Bounds DEF Promised, NoneForgottenIn
      <3>2. QED
        BY <1>6, <1>7, <3>1 DEF HeldIn
    <2>3. QED
      BY <2>1, <2>2
  <1>12. QED
    BY <1>4, <1>8, <1>9, <1>10, <1>11 DEF Promised

\* The slot's promise goes to the call that claims it.
LEMMA ClaimsSlot ==
  ASSUME NEW R, NEW T, NEW C, Typed(R, T, C), Promised(R, T, C), NEW r \in Repositories, NEW c \in Clients,
         C[c].stage # "taking", NEW z \in CallRecords, z.stage = "taking", z.claim = R[r].slot, z.repo = r,
         NEW D, D = [C EXCEPT ![c] = z],
         NEW y \in RepositoryRecords, y.slot = None, y.claim = R[r].claim, y.stage = R[r].stage,
         NEW S, S = [R EXCEPT ![r] = y]
  PROVE  Typed(S, T, D) /\ Promised(S, T, D)
  <1>1. D \in [Clients -> CallRecords] /\ D[c] = z /\ \A d \in Clients \ {c} : D[d] = C[d]
    BY DEF Typed
  <1>2. S \in [Repositories -> RepositoryRecords] /\ S[r] = y /\ \A q \in Repositories \ {r} : S[q] = R[q]
    BY DEF Typed
  <1>3. Typed(S, T, D)
    BY <1>1, <1>2 DEF Typed
  <1>4. \A q \in Repositories :
          S[q].claim = R[q].claim /\ S[q].stage = R[q].stage /\ S[q].slot = IF q = r THEN None ELSE R[q].slot
    BY <1>2
  <1>5. \A d \in Clients, k \in Tasks : TakesIn(D, d, k) <=> TakesIn(C, d, k) \/ (d = c /\ k = R[r].slot)
    BY <1>1 DEF TakesIn
  <1>6. TasksIn(S, T)
    BY <1>4 DEF Promised, TasksIn
  <1>7. HoldingIn(S, T, D)
    <2>1. \A d \in Clients : D[d].stage = "taking" /\ D[d].claim # None =>
            T[D[d].claim].repo = D[d].repo /\ T[D[d].claim].stage \in Pledged
      BY <1>1 DEF Promised, HoldingIn, Pledged
    <2>2. QED
      BY <1>4, <2>1 DEF Promised, HoldingIn
  <1>8. HeldOnceIn(S, T, D)
    <2> SUFFICES ASSUME NEW j \in Tasks PROVE HeldOnceAt(S, T, D, j)
      BY DEF HeldOnceIn
    <2>1. HeldOnceAt(R, T, C, j)
      BY DEF Promised, HeldOnceIn
    <2>2. j # None
      BY Bounds
    <2>3. CASE R[r].slot = j
      <3>1. \A d \in Clients : ~TakesIn(C, d, j)
        BY <2>1, <2>3 DEF HeldOnceAt
      <3>2. \A d \in Clients : TakesIn(D, d, j) => d = c
        BY <1>5, <3>1
      <3>3. \A q \in Repositories : S[q].slot # j /\ S[q].claim # j
        BY <1>4, <2>1, <2>2, <2>3 DEF HeldOnceAt
      <3>4. \A i \in Tasks : T[i].prev # j
        BY <2>1, <2>3 DEF HeldOnceAt
      <3>5. QED
        BY <3>2, <3>3, <3>4 DEF HeldOnceAt
    <2>4. CASE R[r].slot # j
      <3>1. \A d \in Clients : TakesIn(D, d, j) <=> TakesIn(C, d, j)
        BY <1>5, <2>4
      <3>2. \A q \in Repositories : (S[q].slot = j <=> R[q].slot = j) /\ S[q].claim = R[q].claim
        BY <1>4, <2>2, <2>4
      <3>3. \A d, e \in Clients : TakesIn(D, d, j) /\ TakesIn(D, e, j) => d = e
        BY <2>1, <3>1 DEF HeldOnceAt
      <3>4. \A a \in Repositories : S[a].slot = j \/ S[a].claim = j =>
              (\A i \in Tasks : T[i].prev # j) /\ (\A d \in Clients : ~TakesIn(D, d, j))
        BY <2>1, <3>1, <3>2 DEF HeldOnceAt
      <3>5. \A i \in Tasks : T[i].prev = j => \A d \in Clients : ~TakesIn(D, d, j)
        BY <2>1, <3>1 DEF HeldOnceAt
      <3>6. /\ \A a, b \in Repositories : S[a].slot = j /\ S[b].slot = j => a = b
            /\ \A a, b \in Repositories : S[a].claim = j /\ S[b].claim = j => a = b
            /\ \A a \in Repositories : S[a].slot = j => \A q \in Repositories : S[q].claim # j
        BY <2>1, <3>2 DEF HeldOnceAt
      <3>7. \A a, b \in Tasks : T[a].prev = j /\ T[b].prev = j => a = b
        BY <2>1 DEF HeldOnceAt
      <3>8. QED
        BY <3>3, <3>4, <3>5, <3>6, <3>7 DEF HeldOnceAt
    <2>5. QED
      BY <2>3, <2>4
  <1>9. NoneForgottenIn(S, T, D)
    <2> SUFFICES ASSUME NEW j \in Tasks, HeldIn(R, T, C, j) PROVE HeldIn(S, T, D, j)
      BY DEF Promised, NoneForgottenIn
    <2>1. CASE R[r].slot = j
      BY <1>5, <2>1 DEF HeldIn
    <2>2. CASE R[r].slot # j
      <3>1. \A q \in Repositories : S[q].claim = R[q].claim /\ (S[q].slot = R[q].slot \/ q = r)
        BY <1>4
      <3>2. \A d \in Clients : TakesIn(C, d, j) => TakesIn(D, d, j)
        BY <1>5
      <3>3. QED
        BY <2>2, <3>1, <3>2 DEF HeldIn
    <2>3. QED
      BY <2>1, <2>2
  <1>10. QED
    BY <1>3, <1>6, <1>7, <1>8, <1>9 DEF Promised

\* The closer claims it when the repository is drained.
LEMMA CloserClaims ==
  ASSUME NEW R, NEW T, NEW C, Typed(R, T, C), Promised(R, T, C), NEW r \in Repositories, R[r].claim = None,
         NEW y \in RepositoryRecords, y.slot = None, y.claim = R[r].slot, y.stage = "draining",
         NEW S, S = [R EXCEPT ![r] = y]
  PROVE  Typed(S, T, C) /\ Promised(S, T, C)
  <1>1. S \in [Repositories -> RepositoryRecords] /\ S[r] = y /\ \A q \in Repositories \ {r} : S[q] = R[q]
    BY DEF Typed
  <1>2. Typed(S, T, C)
    BY <1>1 DEF Typed
  <1>3. \A q \in Repositories :
          /\ S[q].claim = IF q = r THEN R[r].slot ELSE R[q].claim
          /\ S[q].slot = IF q = r THEN None ELSE R[q].slot
          /\ S[q].stage = IF q = r THEN "draining" ELSE R[q].stage
    BY <1>1
  <1>4. TasksIn(S, T)
    BY <1>3 DEF Promised, TasksIn
  <1>5. HoldingIn(S, T, C)
    BY <1>3 DEF Promised, HoldingIn, Pledged
  <1>6. HeldOnceIn(S, T, C)
    <2> SUFFICES ASSUME NEW j \in Tasks PROVE HeldOnceAt(S, T, C, j)
      BY DEF HeldOnceIn
    <2>1. HeldOnceAt(R, T, C, j)
      BY DEF Promised, HeldOnceIn
    <2>2. j # None
      BY Bounds
    <2>3. QED
      BY <1>3, <2>1, <2>2 DEF HeldOnceAt
  <1>7. NoneForgottenIn(S, T, C)
    <2> SUFFICES ASSUME NEW j \in Tasks, HeldIn(R, T, C, j) PROVE HeldIn(S, T, C, j)
      BY DEF Promised, NoneForgottenIn
    <2>1. QED
      BY <1>3, Bounds DEF HeldIn
  <1>8. QED
    BY <1>2, <1>4, <1>5, <1>6, <1>7 DEF Promised

\* A preparation that ends keeps its promise, or breaks it and leaves the slot.
LEMMA EndsPreparation ==
  ASSUME NEW R, NEW T, NEW C, Typed(R, T, C), Promised(R, T, C), NEW k \in Tasks, T[k].stage = "waiting",
         NEW p, p = T[k].prev, p # None => T[p].stage # "waiting",
         NEW x \in TaskRecords, x.stage \in {"done", "failed"}, x.repo = T[k].repo, x.prev = None,
         x.tree # None <=> x.stage = "done",
         NEW U \in [Tasks -> TaskRecords], U[k] = x, \A j \in Tasks : j # p /\ j # k => U[j] = T[j],
         p # None => U[p].stage = "spent" /\ U[p].prev = None /\ U[p].tree = None,
         NEW r \in Repositories, r = T[k].repo, NEW S \in [Repositories -> RepositoryRecords],
         \A q \in Repositories : S[q].claim = R[q].claim /\ S[q].stage = R[q].stage,
         \A q \in Repositories : S[q].slot = IF x.stage = "failed" /\ R[q].slot = k THEN None ELSE R[q].slot
  PROVE  Typed(S, U, C) /\ Promised(S, U, C)
  <1>0. p \in Tasks \cup {None} /\ p # k /\ k # None
    <2>1. p \in Tasks \cup {None}
      BY DEF Typed, TaskRecords
    <2>2. p # None => p < k
      BY DEF Promised, TasksIn
    <2>3. QED
      BY <2>1, <2>2, Bounds
  <1>2. /\ U \in [Tasks -> TaskRecords] /\ U[k] = x /\ \A j \in Tasks : j # p /\ j # k => U[j] = T[j]
        /\ p # None => U[p].stage = "spent" /\ U[p].prev = None /\ U[p].tree = None
    OBVIOUS
  <1>4. Typed(S, U, C)
    BY DEF Typed
  <1>5. \A q \in Repositories :
          /\ S[q].claim = R[q].claim /\ S[q].stage = R[q].stage
          /\ S[q].slot = R[q].slot \/ (S[q].slot = None /\ R[q].slot = k /\ x.stage = "failed")
          /\ R[q].slot = k => q = r
    <2>1. \A q \in Repositories : R[q].slot = k => q = r
      BY <1>0 DEF Promised, HoldingIn
    <2>2. QED
      BY <2>1
  <1>6. \A j \in Tasks : T[j].prev \in Tasks \cup {None} /\ U[j].prev = IF j = k THEN None ELSE T[j].prev
    <2>1. p # None => T[p].prev = None
      BY <1>0 DEF Promised, TasksIn
    <2>2. QED
      BY <1>0, <1>2, <2>1, Bounds DEF Typed, TaskRecords
  <1>7. TasksIn(S, U)
    <2> SUFFICES ASSUME NEW j \in Tasks
                 PROVE  /\ U[j].stage = "waiting" => U[j].repo \in Repositories /\ S[U[j].repo].stage \notin {"none", "making", "removed"}
                        /\ U[j].tree # None <=> U[j].stage = "done"
                        /\ U[j].prev # None => U[j].stage = "waiting" /\ U[j].prev < j
                        /\ U[j].stage # "none" => \A m \in Tasks : m < j => U[m].stage # "none"
      BY DEF TasksIn
    <2>1. p # None => T[p].stage # "none"
      BY <1>0 DEF Promised, HoldingIn, Pledged
    <2>2. \A m \in Tasks : U[m].stage = "none" <=> T[m].stage = "none"
      BY <1>0, <1>2, <2>1, Bounds
    <2>3. CASE j = k
      BY <1>0, <1>2, <2>2, <2>3 DEF Promised, TasksIn
    <2>4. CASE j = p
      BY <1>0, <1>2, <2>2, <2>4, Bounds DEF Promised, TasksIn
    <2>5. CASE j # k /\ j # p
      BY <1>2, <1>5, <2>2, <2>5 DEF Promised, TasksIn
    <2>6. QED
      BY <2>3, <2>4, <2>5
  <1>8. \A j \in Tasks : T[j].stage \in Pledged /\ j # p => U[j].repo = T[j].repo /\ U[j].stage \in Pledged
    BY <1>2 DEF Pledged
  <1>9. HoldingIn(S, U, C)
    <2>0. p # None => /\ \A q \in Repositories : R[q].slot # p /\ R[q].claim # p
                      /\ \A j \in Tasks : T[j].prev = p => j = k
                      /\ \A c \in Clients : ~TakesIn(C, c, p)
      BY <1>0 DEF Promised, HeldOnceIn, HeldOnceAt
    <2>1. \A q \in Repositories :
            /\ S[q].slot # None => U[S[q].slot].repo = q /\ U[S[q].slot].stage \in {"waiting", "done"}
            /\ S[q].claim # None => U[S[q].claim].repo = q /\ U[S[q].claim].stage \in Pledged
      <3> SUFFICES ASSUME NEW q \in Repositories
                   PROVE  /\ S[q].slot # None => U[S[q].slot].repo = q /\ U[S[q].slot].stage \in {"waiting", "done"}
                          /\ S[q].claim # None => U[S[q].claim].repo = q /\ U[S[q].claim].stage \in Pledged
        OBVIOUS
      <3>1. R[q].slot \in Tasks \cup {None} /\ R[q].claim \in Tasks \cup {None}
        BY DEF Typed, RepositoryRecords
      <3>2. R[q].slot # None => T[R[q].slot].repo = q /\ T[R[q].slot].stage \in {"waiting", "done"} /\ R[q].slot # p
        BY <2>0 DEF Promised, HoldingIn
      <3>3. R[q].claim # None => T[R[q].claim].repo = q /\ T[R[q].claim].stage \in Pledged /\ R[q].claim # p
        BY <2>0 DEF Promised, HoldingIn
      <3>4. S[q].claim # None => U[S[q].claim].repo = q /\ U[S[q].claim].stage \in Pledged
        BY <1>5, <1>8, <3>1, <3>3
      <3>5. S[q].slot # None => U[S[q].slot].repo = q /\ U[S[q].slot].stage \in {"waiting", "done"}
        <4>1. CASE R[q].slot = k /\ x.stage = "failed"
          BY <1>5, <4>1
        <4>2. CASE R[q].slot = k /\ x.stage = "done"
          BY <1>0, <1>2, <1>5, <3>2, <4>2
        <4>3. CASE R[q].slot # k
          BY <1>2, <1>5, <3>1, <3>2, <4>3
        <4>4. QED
          BY <4>1, <4>2, <4>3
      <3>6. QED
        BY <3>4, <3>5
    <2>2. \A j \in Tasks : U[j].prev # None => U[U[j].prev].repo = U[j].repo /\ U[U[j].prev].stage \in Pledged
      <3> SUFFICES ASSUME NEW j \in Tasks, U[j].prev # None
                   PROVE  U[U[j].prev].repo = U[j].repo /\ U[U[j].prev].stage \in Pledged
        OBVIOUS
      <3>1. j # k /\ T[j].prev \in Tasks /\ U[j].prev = T[j].prev /\ T[j].prev # None
        BY <1>0, <1>6
      <3>2. T[T[j].prev].repo = T[j].repo /\ T[T[j].prev].stage \in Pledged /\ T[j].stage = "waiting"
        BY <3>1 DEF Promised, HoldingIn, TasksIn
      <3>3. T[j].prev # p /\ j # p
        BY <1>0, <2>0, <3>1, <3>2, Bounds
      <3>4. U[j] = T[j] /\ U[T[j].prev].repo = T[T[j].prev].repo /\ U[T[j].prev].stage \in Pledged
        BY <1>2, <1>8, <3>1, <3>2, <3>3
      <3>5. QED
        BY <3>1, <3>2, <3>4
    <2>3. \A c \in Clients : C[c].stage = "taking" /\ C[c].claim # None =>
            U[C[c].claim].repo = C[c].repo /\ U[C[c].claim].stage \in Pledged
      <3>1. \A c \in Clients : C[c].claim \in Tasks \cup {None}
        BY DEF Typed, CallRecords
      <3>2. \A c \in Clients : C[c].stage = "taking" /\ C[c].claim # None => C[c].claim # p
        BY <2>0 DEF TakesIn
      <3>3. QED
        BY <1>8, <3>1, <3>2 DEF Promised, HoldingIn
    <2>4. QED
      BY <2>1, <2>2, <2>3 DEF HoldingIn
  <1>10. HeldOnceIn(S, U, C)
    <2> SUFFICES ASSUME NEW j \in Tasks PROVE HeldOnceAt(S, U, C, j)
      BY DEF HeldOnceIn
    <2>1. HeldOnceAt(R, T, C, j) /\ j # None
      BY Bounds DEF Promised, HeldOnceIn
    <2>2. \A q \in Repositories : S[q].slot = j => R[q].slot = j
      BY <1>5, <2>1
    <2>3. \A i \in Tasks : U[i].prev = j => T[i].prev = j
      BY <1>6, <2>1
    <2>4. \A q \in Repositories : S[q].claim = R[q].claim
      BY <1>5
    <2>5. QED
      BY <2>1, <2>2, <2>3, <2>4 DEF HeldOnceAt
  <1>11. NoneForgottenIn(S, U, C)
    <2> SUFFICES ASSUME NEW j \in Tasks, U[j].stage \in {"waiting", "done"} PROVE HeldIn(S, U, C, j)
      BY DEF NoneForgottenIn
    <2>1. j # p /\ T[j].stage \in {"waiting", "done"} /\ (j = k => x.stage = "done")
      BY <1>2, Bounds
    <2>2. HeldIn(R, T, C, j)
      BY <2>1 DEF Promised, NoneForgottenIn
    <2>3. \A q \in Repositories : R[q].slot = j => S[q].slot = j
      BY <1>5, <2>1
    <2>4. \A i \in Tasks : T[i].prev = j => U[i].prev = j
      BY <1>6, <2>1
    <2>5. QED
      BY <1>5, <2>2, <2>3, <2>4 DEF HeldIn
  <1>12. QED
    BY <1>4, <1>7, <1>9, <1>10, <1>11 DEF Promised

\* A removed repository has used up its claim, and nobody waits for a checkout of it.
LEMMA RemovesClaim ==
  ASSUME NEW R, NEW T, NEW C, Typed(R, T, C), Promised(R, T, C), NEW r \in Repositories, R[r].slot = None,
         NEW p, p = R[r].claim, p # None => T[p].stage # "waiting",
         \A k \in Tasks : T[k].stage = "waiting" => T[k].repo # r,
         NEW U, U = Spent(T, p),
         NEW y \in RepositoryRecords, y.slot = None, y.claim = None, y.stage = "removed", NEW S, S = [R EXCEPT ![r] = y]
  PROVE  Typed(S, U, C) /\ Promised(S, U, C)
  <1>0. p \in Tasks \cup {None}
    BY DEF Typed, RepositoryRecords
  <1>1. S \in [Repositories -> RepositoryRecords] /\ S[r] = y /\ \A q \in Repositories \ {r} : S[q] = R[q]
    BY DEF Typed
  <1>2. /\ U \in [Tasks -> TaskRecords] /\ \A k \in Tasks : k # p => U[k] = T[k]
        /\ p # None => U[p].stage = "spent" /\ U[p].prev = None /\ U[p].tree = None
    BY <1>0, SpentIs DEF Typed
  <1>3. Typed(S, U, C)
    BY <1>1, <1>2 DEF Typed
  <1>4. \A k \in Tasks : U[k].prev = T[k].prev /\ T[k].prev \in Tasks \cup {None}
    <2>1. p # None => T[p].prev = None
      BY <1>0 DEF Promised, TasksIn
    <2>2. QED
      BY <1>0, <1>2, <2>1, Bounds DEF Typed, TaskRecords
  <1>5. \A q \in Repositories :
          S[q].slot = R[q].slot /\ S[q].claim = (IF q = r THEN None ELSE R[q].claim) /\ (q # r => S[q].stage = R[q].stage)
    BY <1>1
  <1>6. p # None => /\ \A q \in Repositories : R[q].slot # p /\ (R[q].claim = p => q = r)
                    /\ \A j \in Tasks : T[j].prev # p
                    /\ \A c \in Clients : ~TakesIn(C, c, p)
    BY <1>0 DEF Promised, HeldOnceIn, HeldOnceAt
  <1>7. TasksIn(S, U)
    <2> SUFFICES ASSUME NEW j \in Tasks
                 PROVE  /\ U[j].stage = "waiting" => U[j].repo \in Repositories /\ S[U[j].repo].stage \notin {"none", "making", "removed"}
                        /\ U[j].tree # None <=> U[j].stage = "done"
                        /\ U[j].prev # None => U[j].stage = "waiting" /\ U[j].prev < j
                        /\ U[j].stage # "none" => \A m \in Tasks : m < j => U[m].stage # "none"
      BY DEF TasksIn
    <2>1. p # None => T[p].stage # "none"
      BY <1>0 DEF Promised, HoldingIn, Pledged
    <2>2. \A m \in Tasks : U[m].stage = "none" <=> T[m].stage = "none"
      BY <1>0, <1>2, <2>1, Bounds
    <2>3. CASE j = p
      BY <1>0, <1>2, <2>2, <2>3, Bounds DEF Promised, TasksIn
    <2>4. CASE j # p
      BY <1>2, <1>5, <2>2, <2>4 DEF Promised, TasksIn
    <2>5. QED
      BY <2>3, <2>4
  <1>8. HoldingIn(S, U, C)
    <2>1. \A q \in Repositories :
            /\ S[q].slot # None => U[S[q].slot].repo = q /\ U[S[q].slot].stage \in {"waiting", "done"}
            /\ S[q].claim # None => U[S[q].claim].repo = q /\ U[S[q].claim].stage \in Pledged
      <3>1. \A q \in Repositories : R[q].slot \in Tasks \cup {None} /\ R[q].claim \in Tasks \cup {None}
        BY DEF Typed, RepositoryRecords
      <3>2. QED
        BY <1>2, <1>5, <1>6, <3>1 DEF Promised, HoldingIn
    <2>2. \A j \in Tasks : U[j].prev # None => U[U[j].prev].repo = U[j].repo /\ U[U[j].prev].stage \in Pledged
      <3> SUFFICES ASSUME NEW j \in Tasks, U[j].prev # None
                   PROVE  U[U[j].prev].repo = U[j].repo /\ U[U[j].prev].stage \in Pledged
        OBVIOUS
      <3>1. T[j].prev \in Tasks /\ U[j].prev = T[j].prev /\ T[j].prev # None
        BY <1>4
      <3>2. T[T[j].prev].repo = T[j].repo /\ T[T[j].prev].stage \in Pledged /\ T[j].stage = "waiting"
        BY <3>1 DEF Promised, HoldingIn, TasksIn
      <3>3. T[j].prev # p /\ j # p
        BY <1>0, <1>6, <3>1, <3>2, Bounds
      <3>4. QED
        BY <1>2, <3>1, <3>2, <3>3
    <2>3. \A c \in Clients : C[c].stage = "taking" /\ C[c].claim # None =>
            U[C[c].claim].repo = C[c].repo /\ U[C[c].claim].stage \in Pledged
      <3>1. \A c \in Clients : C[c].claim \in Tasks \cup {None}
        BY DEF Typed, CallRecords
      <3>2. \A c \in Clients : C[c].stage = "taking" /\ C[c].claim # None => C[c].claim # p
        BY <1>6 DEF TakesIn
      <3>3. QED
        BY <1>2, <3>1, <3>2 DEF Promised, HoldingIn
    <2>4. QED
      BY <2>1, <2>2, <2>3 DEF HoldingIn
  <1>9. HeldOnceIn(S, U, C)
    <2> SUFFICES ASSUME NEW j \in Tasks PROVE HeldOnceAt(S, U, C, j)
      BY DEF HeldOnceIn
    <2>1. HeldOnceAt(R, T, C, j) /\ j # None
      BY Bounds DEF Promised, HeldOnceIn
    <2>2. \A q \in Repositories : S[q].slot = R[q].slot /\ (S[q].claim = j => R[q].claim = j)
      BY <1>5, <2>1
    <2>3. \A i \in Tasks : U[i].prev = T[i].prev
      BY <1>4
    <2>4. QED
      BY <2>1, <2>2, <2>3 DEF HeldOnceAt
  <1>10. NoneForgottenIn(S, U, C)
    <2> SUFFICES ASSUME NEW j \in Tasks, U[j].stage \in {"waiting", "done"} PROVE HeldIn(S, U, C, j)
      BY DEF NoneForgottenIn
    <2>1. j # p /\ U[j] = T[j]
      BY <1>2, Bounds
    <2>2. HeldIn(R, T, C, j)
      BY <2>1 DEF Promised, NoneForgottenIn
    <2>3. QED
      BY <1>4, <1>5, <2>1, <2>2 DEF HeldIn
  <1>11. QED
    BY <1>3, <1>7, <1>8, <1>9, <1>10 DEF Promised
-----------------------------------------------------------------------------
(* The owners of checkouts, said of any R, T, C and checkouts K in the same way. *)

OwnTree(R, C, K, c) ==
  C[c].tree # None =>
    /\ K[C[c].tree].stage = "live" /\ K[C[c].tree].repo = C[c].repo
    /\ C[c].stage = "running" => K[C[c].tree].content = C[c].base
    /\ C[c].settled => K[C[c].tree].written
    /\ C[c].kind = "overlay" => R[C[c].repo].lower[C[c].base] = C[c].tree
OwnTask(T, K, k) ==
  T[k].stage = "done" =>
    /\ K[T[k].tree].stage = "live" /\ K[T[k].tree].repo = T[k].repo
    /\ ~K[T[k].tree].written => K[T[k].tree].content = T[k].base
OwnLower(R, K, r, v) ==
  R[r].lower[v] # None =>
    /\ K[R[r].lower[v]].stage = "live" /\ K[R[r].lower[v]].repo = r
    /\ K[R[r].lower[v]].content = v
TreesIn(R, T, C, K) ==
  /\ \A c \in Clients : OwnTree(R, C, K, c)
  /\ \A k \in Tasks : OwnTask(T, K, k)
  /\ \A r \in Repositories, v \in Versions : OwnLower(R, K, r, v)
RunsIn(C, c, t) == C[c].tree = t /\ C[c].kind # "overlay"
PromisesIn(T, k, t) == T[k].stage = "done" /\ T[k].tree = t
OwnedOnceAt(R, T, C, t) ==
  /\ \A c, d \in Clients : RunsIn(C, c, t) /\ RunsIn(C, d, t) => c = d
  /\ \A j, k \in Tasks : PromisesIn(T, j, t) /\ PromisesIn(T, k, t) => j = k
  /\ \A r, q \in Repositories, u, v \in Versions : R[r].lower[u] = t /\ R[q].lower[v] = t => r = q /\ u = v
  /\ \A c \in Clients : RunsIn(C, c, t) =>
       (\A k \in Tasks : ~PromisesIn(T, k, t)) /\ \A r \in Repositories, v \in Versions : R[r].lower[v] # t
  /\ \A k \in Tasks : PromisesIn(T, k, t) => \A r \in Repositories, v \in Versions : R[r].lower[v] # t
OwnedIn(R, T, C, t) ==
  \/ \E c \in Clients : RunsIn(C, c, t)
  \/ \E k \in Tasks : PromisesIn(T, k, t)
  \/ \E r \in Repositories, v \in Versions : R[r].lower[v] = t
Owned(R, T, C, K) ==
  /\ TreesIn(R, T, C, K)
  /\ \A t \in Checkouts : OwnedOnceAt(R, T, C, t) /\ (K[t].stage = "live" => OwnedIn(R, T, C, t))

\* What holds of the checkouts of the pool's state.
LEMMA OwnedNow == ASSUME PoolInv PROVE Owned(repository, task, client, checkout)
  <1>1. TreesIn(repository, task, client, checkout)
    BY DEF PoolInv, TreesIn, OwnTree, OwnTask, OwnLower, CallTrees, TaskTrees, LowerTrees
  <1>2. \A t \in Checkouts : OwnedOnceAt(repository, task, client, t)
    BY DEF PoolInv, OwnedOnceAt, OwnedOnce, RunsIn, PromisesIn, Runs, Promises
  <1>3. \A t \in Checkouts : IsOwned(t) => OwnedIn(repository, task, client, t)
    BY DEF OwnedIn, RunsIn, PromisesIn, IsOwned, Runs, Promises
  <1>4. QED
    BY <1>1, <1>2, <1>3 DEF Owned, PoolInv, NoneLeaked

\* And what has to hold of them after a step.
LEMMA OwnedNext ==
  ASSUME Owned(repository', task', client', checkout')
  PROVE  CallTrees' /\ TaskTrees' /\ LowerTrees' /\ OwnedOnce' /\ NoneLeaked'
  <1>1. CallTrees' /\ TaskTrees' /\ LowerTrees'
    BY DEF Owned, TreesIn, OwnTree, OwnTask, OwnLower, CallTrees, TaskTrees, LowerTrees
  <1>2. OwnedOnce'
    BY DEF Owned, OwnedOnceAt, OwnedOnce, RunsIn, PromisesIn, Runs, Promises
  <1>3. NoneLeaked'
    BY DEF Owned, OwnedIn, NoneLeaked, IsOwned, RunsIn, PromisesIn, Runs, Promises
  <1>4. QED
    BY <1>1, <1>2, <1>3

\* What changes neither the kept promises nor the calls' and baselines' checkouts changes no owner.
LEMMA SameOwners ==
  ASSUME NEW R, NEW T, NEW C, NEW K, NEW S, NEW U, NEW D, Owned(R, T, C, K),
         \A q \in Repositories : S[q].lower = R[q].lower,
         \A k \in Tasks : U[k] = T[k] \/ (T[k].stage # "done" /\ U[k].stage # "done"),
         \A c \in Clients : /\ D[c].tree = C[c].tree
                            /\ C[c].tree # None => D[c] = C[c] /\ C[c].repo \in Repositories
                            /\ D[c].kind = C[c].kind \/ C[c].tree = None
  PROVE  Owned(S, U, D, K)
  <1>1. \A c \in Clients, t \in Checkouts : RunsIn(D, c, t) <=> RunsIn(C, c, t)
    BY Bounds DEF RunsIn
  <1>2. \A k \in Tasks, t \in Checkouts : PromisesIn(U, k, t) <=> PromisesIn(T, k, t)
    BY DEF PromisesIn
  <1>3. TreesIn(S, U, D, K)
    <2>1. \A c \in Clients : OwnTree(S, D, K, c)
      BY DEF Owned, TreesIn, OwnTree
    <2>2. \A k \in Tasks : OwnTask(U, K, k)
      BY DEF Owned, TreesIn, OwnTask
    <2>3. \A r \in Repositories, v \in Versions : OwnLower(S, K, r, v)
      BY DEF Owned, TreesIn, OwnLower
    <2>4. QED
      BY <2>1, <2>2, <2>3 DEF TreesIn
  <1>4. ASSUME NEW t \in Checkouts PROVE OwnedOnceAt(S, U, D, t)
    <2>1. OwnedOnceAt(R, T, C, t)
      BY DEF Owned
    <2>2. QED
      BY <1>1, <1>2, <2>1 DEF OwnedOnceAt
  <1>5. ASSUME NEW t \in Checkouts, OwnedIn(R, T, C, t) PROVE OwnedIn(S, U, D, t)
    BY <1>1, <1>2, <1>5 DEF OwnedIn
  <1>6. QED
    BY <1>3, <1>4, <1>5 DEF Owned

\* A fresh worktree, or a failure that leaves everything as it is.
LEMMA AttachedIs ==
  ASSUME NEW K \in [Checkouts -> CheckoutRecords], NEW r \in Repositories, NEW v \in Versions, NEW a \in Attached(K, r, v)
  PROVE  /\ a.trees \in [Checkouts -> CheckoutRecords] /\ a.tree \in Checkouts \cup {None}
         /\ \A u \in Checkouts : u # a.tree => a.trees[u] = K[u]
         /\ a.tree # None => /\ K[a.tree].stage = "none"
                             /\ a.trees[a.tree].stage = "live" /\ a.trees[a.tree].repo = r
                             /\ a.trees[a.tree].content = v /\ ~a.trees[a.tree].written
  <1>1. CASE a = [tree |-> None, trees |-> K]
    BY <1>1
  <1>2. CASE a # [tree |-> None, trees |-> K]
    <2>1. PICK t \in Fresh(K) :
            a = [tree |-> t, trees |-> [K EXCEPT ![t] = [stage |-> "live", repo |-> r, content |-> v, written |-> FALSE]]]
      BY <1>2 DEF Attached
    <2> DEFINE x == [stage |-> "live", repo |-> r, content |-> v, written |-> FALSE]
    <2>2. x \in CheckoutRecords /\ x.stage = "live" /\ x.repo = r /\ x.content = v /\ ~x.written
      BY Bounds DEF CheckoutRecords
    <2>3. a.tree = t /\ a.trees = [K EXCEPT ![t] = x] /\ t \in Checkouts /\ K[t].stage = "none"
      BY <2>1 DEF Fresh
    <2> HIDE DEF x
    <2>4. QED
      BY <2>2, <2>3
  <1>3. QED
    BY <1>1, <1>2

GoneIs == Gone \in CheckoutRecords /\ Gone.stage = "gone" /\ Gone.repo = None
\* A removed checkout is of no repository.
LEMMA GoneHolds == GoneIs
  <1>1. 0 \in 0..Dirty
    BY PoolAssumption DEF Dirty
  <1>2. QED
    BY <1>1 DEF GoneIs, Gone, NoCheckout, CheckoutRecords, None

\* What a claimed promise comes to: its own checkout as the snapshot, a fresh one in its place, or none.
HandsOver(K, L, old, t, r, v) ==
  /\ L \in [Checkouts -> CheckoutRecords] /\ t \in Checkouts \cup {None}
  /\ \A u \in Checkouts : u # old /\ u # t => L[u] = K[u]
  /\ old # None /\ t # old => L[old].stage = "gone"
  /\ t # None => /\ t = old \/ K[t].stage = "none"
                 /\ L[t].stage = "live" /\ L[t].repo = r /\ L[t].content = v /\ ~L[t].written
TreeAt(T, p) == IF p = None THEN None ELSE T[p].tree
\* takePreparedSandbox hands over the promised checkout, or a fresh one once that is gone.
LEMMA TakenOrAttachedIs ==
  ASSUME PoolInv, NEW p \in Tasks \cup {None}, NEW r \in Repositories, NEW v \in Versions,
         p # None => task[p].repo = r, NEW o \in TakenOrAttached(p, r, v)
  PROVE  HandsOver(checkout, o.trees, TreeAt(task, p), o.tree, r, v)
  <1>0. checkout \in [Checkouts -> CheckoutRecords]
    BY DEF PoolInv, PoolType
  <1>1. PICK w \in Taken(p, v) : IF w.tree # None THEN o = w ELSE o \in Attached(w.trees, r, v)
    BY DEF TakenOrAttached
  <1>2. CASE TreeAt(task, p) = None
    <2>1. w.tree = None /\ w.trees = checkout
      BY <1>1, <1>2 DEF Taken, TreeAt
    <2>2. o \in Attached(checkout, r, v)
      BY <1>1, <2>1
    <2>3. QED
      BY <1>0, <1>2, <2>2, AttachedIs DEF HandsOver
  <1>3. CASE TreeAt(task, p) # None
    <2>0. PICK t \in Checkouts : t = TreeAt(task, p)
      BY <1>3 DEF TreeAt, PoolInv, PoolType, TaskRecords
    <2>1. /\ checkout[t].stage = "live" /\ checkout[t].repo = r /\ checkout[t] \in CheckoutRecords
          /\ ~checkout[t].written => checkout[t].content = task[p].base
      BY <1>3, <2>0 DEF TreeAt, PoolInv, PoolType, TasksTrue, TaskTrees
    <2>2. t # None
      BY Bounds
    <2>3. \/ w = [tree |-> t, trees |-> checkout] /\ ~checkout[t].written /\ task[p].base = v
          \/ w = [tree |-> t, trees |-> [checkout EXCEPT ![t].content = v, ![t].written = FALSE]]
          \/ w = [tree |-> None, trees |-> [checkout EXCEPT ![t] = Gone]]
      BY <1>1, <1>3, <2>0 DEF Taken, TreeAt
    <2>4. CASE w = [tree |-> t, trees |-> checkout] /\ ~checkout[t].written /\ task[p].base = v
      <3>1. o.tree = t /\ o.trees = checkout
        BY <1>1, <2>2, <2>4
      <3>2. QED
        BY <1>0, <2>0, <2>1, <2>4, <3>1 DEF HandsOver
    <2>5. CASE w = [tree |-> t, trees |-> [checkout EXCEPT ![t].content = v, ![t].written = FALSE]]
      <3> DEFINE x == [checkout[t] EXCEPT !.content = v, !.written = FALSE]
             M == [checkout EXCEPT ![t].content = v, ![t].written = FALSE]
      <3>0. M = [checkout EXCEPT ![t] = x]
        OBVIOUS
      <3>1. o.tree = t /\ o.trees = [checkout EXCEPT ![t] = x]
        <4> HIDE DEF M, x
        <4>1. w = [tree |-> t, trees |-> M]
          BY <2>5 DEF M
        <4>2. w.tree = t /\ w.trees = M
          BY <4>1
        <4>3. QED
          BY <1>1, <2>2, <3>0, <4>2
      <3>2. x \in CheckoutRecords /\ x.stage = "live" /\ x.repo = r /\ x.content = v /\ ~x.written
        BY <2>1, Bounds DEF CheckoutRecords
      <3> HIDE DEF x
      <3>3. o.trees \in [Checkouts -> CheckoutRecords] /\ o.trees[t] = x /\ \A u \in Checkouts \ {t} : o.trees[u] = checkout[u]
        BY <1>0, <3>1, <3>2
      <3>4. QED
        BY <2>0, <3>1, <3>2, <3>3 DEF HandsOver
    <2>6. CASE w = [tree |-> None, trees |-> [checkout EXCEPT ![t] = Gone]]
      <3> DEFINE K == [checkout EXCEPT ![t] = Gone]
      <3>1. o \in Attached(K, r, v)
        BY <1>1, <2>6
      <3>2. K \in [Checkouts -> CheckoutRecords] /\ K[t].stage = "gone" /\ \A u \in Checkouts \ {t} : K[u] = checkout[u]
        BY <1>0, GoneHolds DEF GoneIs
      <3> HIDE DEF K
      <3>3. /\ o.trees \in [Checkouts -> CheckoutRecords] /\ o.tree \in Checkouts \cup {None}
            /\ \A u \in Checkouts : u # o.tree => o.trees[u] = K[u]
            /\ o.tree # None => /\ K[o.tree].stage = "none"
                                /\ o.trees[o.tree].stage = "live" /\ o.trees[o.tree].repo = r
                                /\ o.trees[o.tree].content = v /\ ~o.trees[o.tree].written
        BY <3>1, <3>2, AttachedIs
      <3>4. o.tree # t
        BY <2>2, <3>2, <3>3
      <3>5. QED
        BY <2>0, <3>2, <3>3, <3>4 DEF HandsOver
    <2>7. QED
      BY <2>3, <2>4, <2>5, <2>6
  <1>4. QED
    BY <1>2, <1>3

\* Where nobody owns a checkout, it is nobody's to give away: it is not there.
LEMMA FreshIsFree ==
  ASSUME NEW R, NEW T, NEW C, NEW K, Owned(R, T, C, K), NEW t \in Checkouts, K[t].stage # "live"
  PROVE  /\ \A c \in Clients : C[c].tree # t
         /\ \A k \in Tasks : ~PromisesIn(T, k, t)
         /\ \A r \in Repositories, v \in Versions : R[r].lower[v] # t
  <1>1. t # None
    BY Bounds
  <1>2. QED
    BY <1>1 DEF Owned, TreesIn, OwnTree, OwnTask, OwnLower, PromisesIn

\* Nobody else has a checkout that is handed over, or one that is fresh.
Placed(R, T, C) ==
  /\ \A c \in Clients : C[c].tree # None => C[c].repo \in Repositories
  /\ \A k \in Tasks : T[k].tree # None <=> T[k].stage = "done"
Apart(R, T, C, p, old, t) ==
  /\ \A c \in Clients : C[c].tree # None => C[c].tree \in Checkouts /\ C[c].tree # old /\ C[c].tree # t
  /\ \A k \in Tasks : T[k].stage = "done" =>
       T[k].tree \in Checkouts /\ (k # p => T[k].tree # old) /\ (k # p => T[k].tree # t)
  /\ \A q \in Repositories, u \in Versions : R[q].lower[u] # None =>
       R[q].lower[u] \in Checkouts /\ R[q].lower[u] # old /\ R[q].lower[u] # t
  /\ old # None => old \in Checkouts /\ PromisesIn(T, p, old)
\* Nobody else has what is handed over.
LEMMA NobodyElse ==
  ASSUME NEW R, NEW T, NEW C, NEW K, NEW L, Typed(R, T, C), Placed(R, T, C), Owned(R, T, C, K),
         NEW p \in Tasks \cup {None},
         NEW t, NEW r, NEW v, HandsOver(K, L, TreeAt(T, p), t, r, v)
  PROVE  Apart(R, T, C, p, TreeAt(T, p), t)
  <1> DEFINE old == TreeAt(T, p)
  <1>0. old # None => p \in Tasks /\ old \in Checkouts /\ PromisesIn(T, p, old)
    BY DEF Typed, TaskRecords, Placed, PromisesIn, TreeAt
  <1> HIDE DEF old
  <1>1. \A q \in Repositories, u \in Versions : R[q].lower[u] \in Checkouts \cup {None}
    BY DEF Typed, RepositoryRecords
  <1>2. \A q \in Repositories, u \in Versions : R[q].lower[u] # None => R[q].lower[u] # old
    BY <1>0 DEF Owned, OwnedOnceAt
  <1>3. t # None /\ t # old => K[t].stage # "live" /\ t \in Checkouts
    BY DEF HandsOver, old
  <1>4. t # None /\ t # old => /\ \A c \in Clients : C[c].tree # t
                               /\ \A k \in Tasks : ~PromisesIn(T, k, t)
                               /\ \A q \in Repositories, u \in Versions : R[q].lower[u] # t
    BY <1>3, FreshIsFree
  <1>5. ASSUME NEW c \in Clients, C[c].tree # None PROVE C[c].tree \in Checkouts /\ C[c].tree # old /\ C[c].tree # t
    <2>1. C[c].tree \in Checkouts /\ C[c].repo \in Repositories /\ C[c].base \in Versions
      BY <1>5 DEF Typed, CallRecords, Placed
    <2>2. CASE C[c].kind = "overlay"
      <3>1. R[C[c].repo].lower[C[c].base] = C[c].tree
        BY <1>5, <2>2 DEF Owned, TreesIn, OwnTree
      <3>2. QED
        BY <1>2, <1>4, <1>5, <2>1, <3>1
    <2>3. CASE C[c].kind # "overlay"
      <3>1. old # None => C[c].tree # old
        BY <1>0, <2>3 DEF Owned, OwnedOnceAt, RunsIn
      <3>2. QED
        BY <1>4, <1>5, <2>1, <3>1
    <2>4. QED
      BY <2>2, <2>3
  <1>6. ASSUME NEW k \in Tasks, T[k].stage = "done"
        PROVE  T[k].tree \in Checkouts /\ (k # p => T[k].tree # old) /\ (k # p => T[k].tree # t)
    <2>1. T[k].tree \in Checkouts /\ T[k].tree # None /\ PromisesIn(T, k, T[k].tree)
      BY <1>6 DEF Typed, TaskRecords, Placed, PromisesIn
    <2>2. k # p => T[k].tree # old
      BY <1>0, <2>1 DEF Owned, OwnedOnceAt
    <2>3. QED
      BY <1>4, <2>1, <2>2
  <1>7. QED
    BY <1>0, <1>1, <1>2, <1>4, <1>5, <1>6 DEF Apart, old

\* The call runs in the checkout it was handed.
LEMMA CallGetsTree ==
  ASSUME NEW R, NEW T, NEW C, NEW K, NEW L, Typed(R, T, C), Placed(R, T, C), Owned(R, T, C, K),
         NEW p \in Tasks \cup {None},
         NEW t, NEW r, NEW v, HandsOver(K, L, TreeAt(T, p), t, r, v),
         NEW U, \A k \in Tasks : k # p => U[k] = T[k], p # None => U[p].stage = "spent",
         NEW c \in Clients, C[c].tree = None, NEW D, \A d \in Clients \ {c} : D[d] = C[d],
         D[c].tree = t, D[c].kind # "overlay", D[c].repo = r, D[c].base = v, ~D[c].settled
  PROVE  Owned(R, U, D, L)
  <1> DEFINE old == TreeAt(T, p)
  <1>1. /\ \A d \in Clients : C[d].tree # None => C[d].tree \in Checkouts /\ C[d].tree # old /\ C[d].tree # t
        /\ \A k \in Tasks : T[k].stage = "done" => T[k].tree \in Checkouts /\ (k # p => T[k].tree # old) /\
                                                   (k # p => T[k].tree # t)
        /\ \A q \in Repositories, u \in Versions : R[q].lower[u] # None =>
             R[q].lower[u] \in Checkouts /\ R[q].lower[u] # old /\ R[q].lower[u] # t
        /\ old # None => old \in Checkouts /\ PromisesIn(T, p, old)
    <2>1. Apart(R, T, C, p, old, t)
      BY NobodyElse
    <2>2. QED
      BY <2>1 DEF Apart
  <1> HIDE DEF old
  <1>2. \A u \in Checkouts : u # old /\ u # t => L[u] = K[u]
    BY DEF HandsOver, old
  <1>3. \A k \in Tasks : U[k].stage = "done" => k # p /\ U[k] = T[k]
    BY Bounds
  <1>4. TreesIn(R, U, D, L)
    <2>1. ASSUME NEW d \in Clients PROVE OwnTree(R, D, L, d)
      <3>1. CASE d = c
        BY <3>1 DEF OwnTree, HandsOver
      <3>2. CASE d # c
        <4>1. OwnTree(R, C, K, d) /\ D[d] = C[d]
          BY <3>2 DEF Owned, TreesIn
        <4>2. C[d].tree # None => L[C[d].tree] = K[C[d].tree]
          BY <1>1, <1>2
        <4>3. QED
          BY <4>1, <4>2 DEF OwnTree
      <3>3. QED
        BY <3>1, <3>2
    <2>2. ASSUME NEW k \in Tasks PROVE OwnTask(U, L, k)
      <3>1. OwnTask(T, K, k)
        BY DEF Owned, TreesIn
      <3>2. U[k].stage = "done" => L[U[k].tree] = K[U[k].tree]
        BY <1>1, <1>2, <1>3
      <3>3. QED
        BY <1>3, <3>1, <3>2 DEF OwnTask
    <2>3. ASSUME NEW q \in Repositories, NEW u \in Versions PROVE OwnLower(R, L, q, u)
      <3>1. OwnLower(R, K, q, u)
        BY DEF Owned, TreesIn
      <3>2. R[q].lower[u] # None => L[R[q].lower[u]] = K[R[q].lower[u]]
        BY <1>1, <1>2
      <3>3. QED
        BY <3>1, <3>2 DEF OwnLower
    <2>4. QED
      BY <2>1, <2>2, <2>3 DEF TreesIn
  <1>5. ASSUME NEW u \in Checkouts
        PROVE  OwnedOnceAt(R, U, D, u) /\ (L[u].stage = "live" => OwnedIn(R, U, D, u))
    <2>0. u # None
      BY Bounds
    <2>1. CASE u = t
      <3>1. \A d \in Clients : RunsIn(D, d, u) <=> d = c
        BY <1>1, <2>0, <2>1 DEF RunsIn
      <3>2. \A k \in Tasks : ~PromisesIn(U, k, u)
        BY <1>1, <1>3, <2>1 DEF PromisesIn
      <3>3. \A q \in Repositories, w \in Versions : R[q].lower[w] # u
        BY <1>1, <2>0, <2>1
      <3>4. QED
        BY <3>1, <3>2, <3>3 DEF OwnedOnceAt, OwnedIn
    <2>2. CASE u # t
      <3>1. \A d \in Clients : RunsIn(D, d, u) <=> RunsIn(C, d, u)
        BY <2>0, <2>2 DEF RunsIn
      <3>2. \A k \in Tasks : PromisesIn(U, k, u) => PromisesIn(T, k, u)
        BY <1>3 DEF PromisesIn
      <3>3. OwnedOnceAt(R, T, C, u)
        BY DEF Owned
      <3>4. OwnedOnceAt(R, U, D, u)
        BY <3>1, <3>2, <3>3 DEF OwnedOnceAt
      <3>5. ASSUME L[u].stage = "live" PROVE OwnedIn(R, U, D, u)
        <4>1. u # old
          BY <2>0, <2>2, <3>5 DEF HandsOver, old
        <4>2. OwnedIn(R, T, C, u)
          BY <1>2, <2>2, <3>5, <4>1 DEF Owned
        <4>3. \A k \in Tasks : PromisesIn(T, k, u) => PromisesIn(U, k, u)
          BY <4>1, Bounds DEF PromisesIn, TreeAt, old
        <4>4. QED
          BY <3>1, <4>2, <4>3 DEF OwnedIn
      <3>6. QED
        BY <3>4, <3>5
    <2>3. QED
      BY <2>1, <2>2
  <1>6. QED
    BY <1>4, <1>5 DEF Owned

\* The preparation keeps the checkout it was handed.
LEMMA TaskGetsTree ==
  ASSUME NEW R, NEW T, NEW C, NEW K, NEW L, Typed(R, T, C), Placed(R, T, C), Owned(R, T, C, K),
         NEW p \in Tasks \cup {None},
         NEW t, NEW r, NEW v, HandsOver(K, L, TreeAt(T, p), t, r, v),
         NEW k \in Tasks, T[k].stage = "waiting", k # p,
         NEW U, \A j \in Tasks : j # p /\ j # k => U[j] = T[j], p # None => U[p].stage = "spent",
         U[k].tree = t, U[k].repo = r, U[k].base = v, U[k].stage = "done" <=> t # None
  PROVE  Owned(R, U, C, L)
  <1> DEFINE old == TreeAt(T, p)
  <1>1. /\ \A d \in Clients : C[d].tree # None => C[d].tree \in Checkouts /\ C[d].tree # old /\ C[d].tree # t
        /\ \A j \in Tasks : T[j].stage = "done" => T[j].tree \in Checkouts /\ (j # p => T[j].tree # old) /\
                                                   (j # p => T[j].tree # t)
        /\ \A q \in Repositories, u \in Versions : R[q].lower[u] # None =>
             R[q].lower[u] \in Checkouts /\ R[q].lower[u] # old /\ R[q].lower[u] # t
        /\ old # None => old \in Checkouts /\ PromisesIn(T, p, old)
    <2>1. Apart(R, T, C, p, old, t)
      BY NobodyElse
    <2>2. QED
      BY <2>1 DEF Apart
  <1> HIDE DEF old
  <1>2. \A u \in Checkouts : u # old /\ u # t => L[u] = K[u]
    BY DEF HandsOver, old
  <1>3. \A j \in Tasks \ {k} : U[j].stage = "done" => j # p /\ U[j] = T[j]
    BY Bounds
  <1>4. TreesIn(R, U, C, L)
    <2>1. ASSUME NEW d \in Clients PROVE OwnTree(R, C, L, d)
      <3>1. OwnTree(R, C, K, d)
        BY DEF Owned, TreesIn
      <3>2. C[d].tree # None => L[C[d].tree] = K[C[d].tree]
        BY <1>1, <1>2
      <3>3. QED
        BY <3>1, <3>2 DEF OwnTree
    <2>2. ASSUME NEW j \in Tasks PROVE OwnTask(U, L, j)
      <3>1. CASE j = k
        BY <3>1 DEF OwnTask, HandsOver
      <3>2. CASE j # k
        <4>1. OwnTask(T, K, j)
          BY DEF Owned, TreesIn
        <4>2. U[j].stage = "done" => L[U[j].tree] = K[U[j].tree]
          BY <1>1, <1>2, <1>3, <3>2
        <4>3. QED
          BY <1>3, <3>2, <4>1, <4>2 DEF OwnTask
      <3>3. QED
        BY <3>1, <3>2
    <2>3. ASSUME NEW q \in Repositories, NEW u \in Versions PROVE OwnLower(R, L, q, u)
      <3>1. OwnLower(R, K, q, u)
        BY DEF Owned, TreesIn
      <3>2. R[q].lower[u] # None => L[R[q].lower[u]] = K[R[q].lower[u]]
        BY <1>1, <1>2
      <3>3. QED
        BY <3>1, <3>2 DEF OwnLower
    <2>4. QED
      BY <2>1, <2>2, <2>3 DEF TreesIn
  <1>5. ASSUME NEW u \in Checkouts
        PROVE  OwnedOnceAt(R, U, C, u) /\ (L[u].stage = "live" => OwnedIn(R, U, C, u))
    <2>0. u # None
      BY Bounds
    <2>1. CASE u = t
      <3>1. \A d \in Clients : ~RunsIn(C, d, u)
        BY <1>1, <2>0, <2>1 DEF RunsIn
      <3>2. \A j \in Tasks : PromisesIn(U, j, u) <=> j = k
        BY <1>1, <1>3, <2>0, <2>1 DEF PromisesIn
      <3>3. \A q \in Repositories, w \in Versions : R[q].lower[w] # u
        BY <1>1, <2>0, <2>1
      <3>4. QED
        BY <3>1, <3>2, <3>3 DEF OwnedOnceAt, OwnedIn
    <2>2. CASE u # t
      <3>1. \A j \in Tasks : PromisesIn(U, j, u) => PromisesIn(T, j, u)
        BY <1>3, <2>2 DEF PromisesIn
      <3>2. OwnedOnceAt(R, T, C, u)
        BY DEF Owned
      <3>3. OwnedOnceAt(R, U, C, u)
        BY <3>1, <3>2 DEF OwnedOnceAt
      <3>4. ASSUME L[u].stage = "live" PROVE OwnedIn(R, U, C, u)
        <4>1. u # old
          BY <2>0, <2>2, <3>4 DEF HandsOver, old
        <4>2. OwnedIn(R, T, C, u)
          BY <1>2, <2>2, <3>4, <4>1 DEF Owned
        <4>3. \A j \in Tasks : PromisesIn(T, j, u) => PromisesIn(U, j, u)
          BY <4>1, Bounds DEF PromisesIn, TreeAt, old
        <4>4. QED
          BY <4>2, <4>3 DEF OwnedIn
      <3>5. QED
        BY <3>3, <3>4
    <2>3. QED
      BY <2>1, <2>2
  <1>6. QED
    BY <1>4, <1>5 DEF Owned

\* A call's own checkout is nobody else's.
ApartFrom(R, T, C, c, t) ==
  /\ \A d \in Clients \ {c} : C[d].tree # None => C[d].tree \in Checkouts /\ C[d].tree # t
  /\ \A k \in Tasks : T[k].stage = "done" => T[k].tree \in Checkouts /\ T[k].tree # t
  /\ \A q \in Repositories, u \in Versions : R[q].lower[u] # None => R[q].lower[u] \in Checkouts /\ R[q].lower[u] # t
\* So a call can do away with it.
LEMMA OwnApart ==
  ASSUME NEW R, NEW T, NEW C, NEW K, Typed(R, T, C), Placed(R, T, C), Owned(R, T, C, K),
         NEW c \in Clients, NEW t \in Checkouts, RunsIn(C, c, t)
  PROVE  ApartFrom(R, T, C, c, t)
  <1>0. OwnedOnceAt(R, T, C, t)
    BY DEF Owned
  <1>1. \A q \in Repositories, u \in Versions : R[q].lower[u] # None => R[q].lower[u] \in Checkouts /\ R[q].lower[u] # t
    BY <1>0 DEF Typed, RepositoryRecords, OwnedOnceAt
  <1>2. \A k \in Tasks : T[k].stage = "done" => T[k].tree \in Checkouts /\ T[k].tree # t
    <2>1. \A k \in Tasks : T[k].stage = "done" => T[k].tree \in Checkouts
      BY DEF Typed, TaskRecords, Placed
    <2>2. QED
      BY <1>0, <2>1 DEF OwnedOnceAt, PromisesIn
  <1>3. ASSUME NEW d \in Clients \ {c}, C[d].tree # None PROVE C[d].tree \in Checkouts /\ C[d].tree # t
    <2>1. C[d].tree \in Checkouts /\ C[d].repo \in Repositories /\ C[d].base \in Versions
      BY <1>3 DEF Typed, CallRecords, Placed
    <2>2. CASE C[d].kind = "overlay"
      <3>1. R[C[d].repo].lower[C[d].base] = C[d].tree
        BY <1>3, <2>2 DEF Owned, TreesIn, OwnTree
      <3>2. QED
        BY <1>1, <1>3, <2>1, <3>1
    <2>3. CASE C[d].kind # "overlay"
      BY <1>0, <2>1, <2>3 DEF OwnedOnceAt, RunsIn
    <2>4. QED
      BY <2>2, <2>3
  <1>4. QED
    BY <1>1, <1>2, <1>3 DEF ApartFrom

\* A checkout that is removed leaves nobody behind.
LEMMA CallDropsTree ==
  ASSUME NEW R, NEW T, NEW C, NEW K, NEW L, Typed(R, T, C), Placed(R, T, C), Owned(R, T, C, K),
         NEW c \in Clients, NEW t \in Checkouts, RunsIn(C, c, t),
         L[t].stage = "gone", \A u \in Checkouts \ {t} : L[u] = K[u],
         NEW D, \A d \in Clients \ {c} : D[d] = C[d], D[c].tree = None
  PROVE  Owned(R, T, D, L)
  <1>1. /\ \A d \in Clients \ {c} : C[d].tree # None => C[d].tree \in Checkouts /\ C[d].tree # t
        /\ \A k \in Tasks : T[k].stage = "done" => T[k].tree \in Checkouts /\ T[k].tree # t
        /\ \A q \in Repositories, u \in Versions : R[q].lower[u] # None => R[q].lower[u] \in Checkouts /\ R[q].lower[u] # t
    <2>1. ApartFrom(R, T, C, c, t)
      BY OwnApart
    <2>2. QED
      BY <2>1 DEF ApartFrom
  <1>2. TreesIn(R, T, D, L)
    <2>1. ASSUME NEW d \in Clients PROVE OwnTree(R, D, L, d)
      <3>1. CASE d = c
        BY <3>1 DEF OwnTree
      <3>2. CASE d # c
        BY <1>1, <3>2 DEF Owned, TreesIn, OwnTree
      <3>3. QED
        BY <3>1, <3>2
    <2>2. \A k \in Tasks : OwnTask(T, L, k)
      BY <1>1 DEF Owned, TreesIn, OwnTask
    <2>3. \A q \in Repositories, u \in Versions : OwnLower(R, L, q, u)
      BY <1>1 DEF Owned, TreesIn, OwnLower
    <2>4. QED
      BY <2>1, <2>2, <2>3 DEF TreesIn
  <1>3. ASSUME NEW u \in Checkouts
        PROVE  OwnedOnceAt(R, T, D, u) /\ (L[u].stage = "live" => OwnedIn(R, T, D, u))
    <2>1. \A d \in Clients : RunsIn(D, d, u) => d # c /\ RunsIn(C, d, u)
      BY Bounds DEF RunsIn
    <2>2. OwnedOnceAt(R, T, D, u)
      BY <2>1 DEF Owned, OwnedOnceAt
    <2>3. ASSUME L[u].stage = "live" PROVE OwnedIn(R, T, D, u)
      <3>1. u # t /\ OwnedIn(R, T, C, u)
        BY <2>3 DEF Owned
      <3>2. \A d \in Clients : RunsIn(C, d, u) => RunsIn(D, d, u)
        BY <3>1 DEF RunsIn
      <3>3. QED
        BY <3>1, <3>2 DEF OwnedIn
    <2>4. QED
      BY <2>2, <2>3
  <1>4. QED
    BY <1>2, <1>3 DEF Owned

\* A returned checkout belongs to the promise in the slot.
LEMMA CallReturnsTree ==
  ASSUME NEW R, NEW T, NEW C, NEW K, Typed(R, T, C), Placed(R, T, C), Owned(R, T, C, K),
         NEW c \in Clients, NEW t \in Checkouts, RunsIn(C, c, t), K[t].written,
         NEW D, \A d \in Clients \ {c} : D[d] = C[d], D[c].tree = None,
         NEW k \in Tasks, T[k].stage # "done", NEW U, \A j \in Tasks \ {k} : U[j] = T[j],
         U[k].stage = "done", U[k].tree = t, U[k].repo = C[c].repo
  PROVE  Owned(R, U, D, K)
  <1>1. /\ \A d \in Clients \ {c} : C[d].tree # None => C[d].tree \in Checkouts /\ C[d].tree # t
        /\ \A j \in Tasks : T[j].stage = "done" => T[j].tree \in Checkouts /\ T[j].tree # t
        /\ \A q \in Repositories, u \in Versions : R[q].lower[u] # None => R[q].lower[u] \in Checkouts /\ R[q].lower[u] # t
    <2>1. ApartFrom(R, T, C, c, t)
      BY OwnApart
    <2>2. QED
      BY <2>1 DEF ApartFrom
  <1>2. TreesIn(R, U, D, K)
    <2>1. ASSUME NEW d \in Clients PROVE OwnTree(R, D, K, d)
      <3>1. CASE d = c
        BY <3>1 DEF OwnTree
      <3>2. CASE d # c
        BY <3>2 DEF Owned, TreesIn, OwnTree
      <3>3. QED
        BY <3>1, <3>2
    <2>2. ASSUME NEW j \in Tasks PROVE OwnTask(U, K, j)
      <3>1. CASE j = k
        <4>1. OwnTree(R, C, K, c) /\ C[c].tree = t
          BY DEF Owned, TreesIn, RunsIn
        <4>2. QED
          BY <3>1, <4>1, Bounds DEF OwnTree, OwnTask
      <3>2. CASE j # k
        BY <3>2 DEF Owned, TreesIn, OwnTask
      <3>3. QED
        BY <3>1, <3>2
    <2>3. QED
      BY <2>1, <2>2 DEF Owned, TreesIn
  <1>3. ASSUME NEW u \in Checkouts
        PROVE  OwnedOnceAt(R, U, D, u) /\ (K[u].stage = "live" => OwnedIn(R, U, D, u))
    <2>0. u # None /\ OwnedOnceAt(R, T, C, u)
      BY Bounds DEF Owned
    <2>1. CASE u = t
      <3>1. \A d \in Clients : ~RunsIn(D, d, u)
        BY <1>1, <2>0, <2>1 DEF RunsIn
      <3>2. \A j \in Tasks : PromisesIn(U, j, u) <=> j = k
        BY <1>1, <2>1 DEF PromisesIn
      <3>3. \A q \in Repositories, w \in Versions : R[q].lower[w] # u
        BY <1>1, <2>0, <2>1
      <3>4. QED
        BY <3>1, <3>2, <3>3 DEF OwnedOnceAt, OwnedIn
    <2>2. CASE u # t
      <3>1. \A d \in Clients : RunsIn(D, d, u) <=> RunsIn(C, d, u)
        BY <2>0, <2>2 DEF RunsIn
      <3>2. \A j \in Tasks : PromisesIn(U, j, u) <=> PromisesIn(T, j, u)
        BY <2>2 DEF PromisesIn
      <3>3. OwnedOnceAt(R, U, D, u)
        BY <2>0, <3>1, <3>2 DEF OwnedOnceAt
      <3>4. OwnedIn(R, T, C, u) => OwnedIn(R, U, D, u)
        BY <3>1, <3>2 DEF OwnedIn
      <3>5. QED
        BY <3>3, <3>4 DEF Owned
    <2>3. QED
      BY <2>1, <2>2
  <1>4. QED
    BY <1>2, <1>3 DEF Owned

\* Who has a checkout has a repository.
LEMMA PlacedNow == ASSUME PoolInv PROVE Placed(repository, task, client)
  BY DEF PoolInv, Placed, CallsTrue, TasksTrue
-----------------------------------------------------------------------------
(* The steps in which promises and checkouts change hands. *)

\* The parts of the invariant after such a step.
LEMMA Assembled ==
  ASSUME PoolType', Counted', RepositoriesTrue', CallsTrue',
         Promised(repository', task', client'), Owned(repository', task', client', checkout')
  PROVE  PoolInv'
  <1>1. TasksTrue' /\ Holding' /\ HeldOnce' /\ NoneForgotten'
    BY PromisedNext
  <1>2. CallTrees' /\ TaskTrees' /\ LowerTrees' /\ OwnedOnce' /\ NoneLeaked'
    BY OwnedNext
  <1>3. QED
    BY <1>1, <1>2 DEF PoolInv

\* What a call that moves on may know.
CallFine(z) ==
  /\ z.stage \notin {"idle", "over"} => z.repo \in Repositories
  /\ z.stage = "taking" => z.kind \in {"filesystem", "process"}
  /\ z.stage = "running" => z.tree # None
  /\ z.stage # "stuck"
  /\ z.settled => z.stage = "dispose" /\ z.kind = "filesystem" /\ z.tree # None
  /\ z.tree # None => z.stage \in {"running", "dispose"}
  /\ z.since <= source
  /\ z.stage \in {"staging", "allocate", "taking", "running"} /\ z.kind \in {"process", "overlay"} => z.base >= z.since
\* The other calls know what they knew.
LEMMA CallsNext ==
  ASSUME PoolInv, NEW c \in Clients, source' = source, \A d \in Clients \ {c} : client'[d] = client[d],
         \A q \in Repositories : repository[q].quarantined => repository'[q].quarantined, CallFine(client'[c])
  PROVE  CallsTrue'
  BY DEF PoolInv, CallsTrue, CallFine, Exact

\* The slot is claimed before its checkout is awaited.
LEMMA ClaimCheckoutStep ==
  ASSUME PoolInv, NEW c \in Clients, ClaimCheckout(c)
  PROVE  PoolInv'
  <1>0. PICK r \in Repositories : r = client[c].repo
    BY DEF ClaimCheckout, PoolInv, CallsTrue
  <1>1. /\ client[c] \in CallRecords /\ client[c].stage = "allocate" /\ client[c].kind \in {"filesystem", "process"}
        /\ client[c].tree = None /\ ~client[c].settled /\ client[c].since <= source
        /\ client[c].kind = "process" => client[c].base >= client[c].since
        /\ repository[r] \in RepositoryRecords
    BY DEF ClaimCheckout, PoolInv, PoolType, CallsTrue, Exact
  <1> DEFINE p == repository[r].slot
             z == [client[c] EXCEPT !.stage = "taking", !.claim = p]
             y == [repository[r] EXCEPT !.slot = None]
  <1>2. /\ client' = [client EXCEPT ![c] = z] /\ repository' = [repository EXCEPT ![r] = y]
        /\ source' = source /\ service' = service /\ registered' = registered /\ checkout' = checkout /\ task' = task
    BY <1>0 DEF ClaimCheckout
  <1>3. p \in Tasks \cup {None}
    BY <1>1 DEF RepositoryRecords
  <1>4. /\ y \in RepositoryRecords /\ y.slot = None /\ y.stage = repository[r].stage
        /\ y.quarantined = repository[r].quarantined /\ y.claim = repository[r].claim
        /\ y.lower = repository[r].lower /\ y.users = repository[r].users /\ y.active = repository[r].active
    BY <1>1 DEF RepositoryRecords
  <1> HIDE DEF p, y
  <1>5. /\ z \in CallRecords /\ z.stage = "taking" /\ z.claim = p /\ z.repo = r /\ z.kind = client[c].kind
        /\ z.since = client[c].since /\ z.base = client[c].base /\ z.tree = None /\ ~z.settled
    BY <1>0, <1>1, <1>3 DEF CallRecords, CallStages, InStages
  <1> HIDE DEF z
  <1>6. /\ repository' \in [Repositories -> RepositoryRecords]
        /\ repository'[r] = y /\ \A q \in Repositories \ {r} : repository'[q] = repository[q]
    BY <1>2, <1>4, OneChanges DEF PoolInv
  <1>7. /\ client' \in [Clients -> CallRecords]
        /\ client'[c] = z /\ \A d \in Clients \ {c} : client'[d] = client[d]
    BY <1>2, <1>5, OneMoves DEF PoolInv
  <1>8. PoolType'
    BY <1>2, <1>6, <1>7 DEF PoolInv, PoolType
  <1>9. Promised(repository', task', client')
    <2>1. Typed(repository, task, client) /\ Promised(repository, task, client)
      BY PromisedNow
    <2>2. Promised(repository', task, client')
      BY <1>1, <1>2, <1>4, <1>5, <2>1, ClaimsSlot DEF p
    <2>3. QED
      BY <1>2, <2>2
  <1>10. Owned(repository', task', client', checkout')
    <2>1. Owned(repository, task, client, checkout)
      BY OwnedNow
    <2>2. \A q \in Repositories : repository'[q].lower = repository[q].lower
      BY <1>4, <1>6
    <2>3. \A d \in Clients : /\ client'[d].tree = client[d].tree
                             /\ client[d].tree # None => client'[d] = client[d] /\ client[d].repo \in Repositories
                             /\ client'[d].kind = client[d].kind \/ client[d].tree = None
      BY <1>1, <1>5, <1>7 DEF PoolInv, CallsTrue
    <2>4. Owned(repository', task, client', checkout)
      BY <2>1, <2>2, <2>3, SameOwners
    <2>5. QED
      BY <1>2, <2>4
  <1>11. SameInside /\ SameMounted
    BY <1>0, <1>1, <1>5, <1>7 DEF SameInside, SameMounted, Inside, Mounted, InStages
  <1>12. Counted'
    BY <1>4, <1>6, <1>11, CountsStay DEF SameCounts
  <1>13. RepositoriesTrue'
    BY <1>4, <1>6, <1>11 DEF PoolInv, RepositoriesTrue, SameInside
  <1>14. CallsTrue'
    <2>1. CallFine(client'[c])
      BY <1>1, <1>5, <1>7 DEF CallFine
    <2>2. \A q \in Repositories : repository[q].quarantined => repository'[q].quarantined
      BY <1>4, <1>6
    <2>3. QED
      BY <1>2, <1>7, <2>1, <2>2, CallsNext
  <1>15. QED
    BY <1>8, <1>9, <1>10, <1>12, <1>13, <1>14, Assembled

\* prepare() has a checkout prepared.
LEMMA WarmStep ==
  ASSUME PoolInv, NEW c \in Clients, Warm(c)
  PROVE  PoolInv'
  <1>0. PICK r \in Repositories : r = client[c].repo
    BY DEF Warm, PoolInv, CallsTrue
  <1>1. /\ client[c] \in CallRecords /\ client[c].stage = "allocate"
        /\ client[c].tree = None /\ ~client[c].settled /\ client[c].since <= source /\ client[c].base \in Versions
        /\ repository[r] \in RepositoryRecords
    BY DEF Warm, PoolInv, PoolType, CallsTrue, CallRecords
  <1>2. PICK n \in PrepareNext(r, client[c].base, repository[r], task) :
          /\ repository' = [repository EXCEPT ![r] = n.repo] /\ task' = n.tasks
          /\ client' = [client EXCEPT ![c].stage = "warming", ![c].claim = n.next]
    BY <1>0 DEF Warm
  <1>3. /\ Typed(repository', n.tasks, client) /\ Promised(repository', n.tasks, client)
        /\ \A q \in Repositories \ {r} : repository'[q] = repository[q]
        /\ repository'[r] = n.repo
        /\ n.repo.stage = repository[r].stage /\ n.repo.quarantined = repository[r].quarantined
        /\ n.repo.claim = repository[r].claim /\ n.repo.lower = repository[r].lower
        /\ n.repo.users = repository[r].users /\ n.repo.active = repository[r].active
        /\ n.repo.slot # repository[r].slot => repository[r].stage = "open"
        /\ n.next \in Tasks \cup {None}
        /\ \A k \in Tasks : n.tasks[k] # task[k] => task[k].stage = "none" /\ n.tasks[k].stage = "waiting"
    <2>1. Typed(repository, task, client) /\ Promised(repository, task, client)
      BY PromisedNow
    <2>2. NextPrepared(repository, task, client, repository', r, n)
      BY <1>1, <1>2, <2>1, PreparesNext
    <2>3. QED
      BY <2>2 DEF NextPrepared
  <1> DEFINE m == n.next
             z == [client[c] EXCEPT !.stage = "warming", !.claim = m]
  <1>4. client' = [client EXCEPT ![c] = z] /\ m \in Tasks \cup {None}
    BY <1>2, <1>3
  <1> HIDE DEF m
  <1>5. z \in CallRecords /\ z.stage = "warming" /\ z.repo = r /\ z.since = client[c].since /\ z.tree = None /\ ~z.settled
    BY <1>0, <1>1, <1>4 DEF CallRecords, CallStages, InStages
  <1> HIDE DEF z
  <1>6. /\ client' \in [Clients -> CallRecords]
        /\ client'[c] = z /\ \A d \in Clients \ {c} : client'[d] = client[d]
    BY <1>4, <1>5, OneMoves DEF PoolInv
  <1>7. source' = source /\ service' = service /\ registered' = registered /\ checkout' = checkout
    BY DEF Warm
  <1>8. PoolType' /\ Typed(repository', task', client')
    BY <1>2, <1>3, <1>6, <1>7 DEF PoolInv, PoolType, Typed
  <1>9. Promised(repository', task', client')
    <2>1. Promised(repository', task', client)
      BY <1>2, <1>3
    <2>2. \A d \in Clients : /\ client'[d].stage = "taking" <=> client[d].stage = "taking"
                             /\ client[d].stage = "taking" => client'[d].claim = client[d].claim /\ client'[d].repo = client[d].repo
      BY <1>1, <1>5, <1>6
    <2>3. QED
      BY <1>8, <2>1, <2>2, Alike
  <1>10. Owned(repository', task', client', checkout')
    <2>1. Owned(repository, task, client, checkout)
      BY OwnedNow
    <2>2. \A q \in Repositories : repository'[q].lower = repository[q].lower
      BY <1>3
    <2>3. \A d \in Clients : /\ client'[d].tree = client[d].tree
                             /\ client[d].tree # None => client'[d] = client[d] /\ client[d].repo \in Repositories
                             /\ client'[d].kind = client[d].kind \/ client[d].tree = None
      BY <1>1, <1>5, <1>6 DEF PoolInv, CallsTrue
    <2>4. \A k \in Tasks : task'[k] = task[k] \/ (task[k].stage # "done" /\ task'[k].stage # "done")
      BY <1>2, <1>3
    <2>5. Owned(repository', task', client', checkout)
      BY <2>1, <2>2, <2>3, <2>4, SameOwners
    <2>6. QED
      BY <1>7, <2>5
  <1>11. SameInside /\ SameMounted
    BY <1>0, <1>1, <1>5, <1>6 DEF SameInside, SameMounted, Inside, Mounted, InStages
  <1>12. Counted'
    BY <1>3, <1>11, CountsStay DEF SameCounts
  <1>13. RepositoriesTrue'
    BY <1>3, <1>11 DEF PoolInv, RepositoriesTrue, SameInside
  <1>14. CallsTrue'
    <2>1. CallFine(client'[c])
      BY <1>1, <1>5, <1>6 DEF CallFine
    <2>2. \A q \in Repositories : repository[q].quarantined => repository'[q].quarantined
      BY <1>3
    <2>3. QED
      BY <1>6, <1>7, <2>1, <2>2, CallsNext
  <1>15. QED
    BY <1>8, <1>9, <1>10, <1>12, <1>13, <1>14, Assembled

\* closeSandboxRepository goes on once no call is inside.
LEMMA CloseDrainedStep ==
  ASSUME PoolInv, NEW r \in Repositories, CloseDrained(r)
  PROVE  PoolInv'
  <1>1. /\ repository[r] \in RepositoryRecords /\ repository[r].stage = "closing" /\ repository[r].active = 0
        /\ source' = source /\ service' = service /\ registered' = registered
        /\ checkout' = checkout /\ task' = task /\ client' = client
    BY DEF CloseDrained, PoolInv, PoolType
  <1>2. Inside(r) = {}
    BY <1>1, CountedInside
  <1>3. repository[r].claim = None
    BY <1>1 DEF PoolInv, RepositoriesTrue
  <1> DEFINE held == repository[r].slot
             y == IF repository[r].quarantined THEN [repository[r] EXCEPT !.stage = "kept"]
                  ELSE [repository[r] EXCEPT !.stage = "draining", !.timer = FALSE, !.claim = held, !.slot = None]
  <1>4. repository' = [repository EXCEPT ![r] = y]
    BY DEF CloseDrained
  <1>5. held \in Tasks \cup {None}
    BY <1>1 DEF RepositoryRecords
  <1>6. /\ y \in RepositoryRecords /\ y.quarantined = repository[r].quarantined
        /\ y.lower = repository[r].lower /\ y.users = repository[r].users /\ y.active = repository[r].active
        /\ IF repository[r].quarantined THEN y.stage = "kept" /\ y.slot = held /\ y.claim = None
                                        ELSE y.stage = "draining" /\ y.slot = None /\ y.claim = held
    <2> HIDE DEF held
    <2>1. CASE repository[r].quarantined
      <3>1. y = [repository[r] EXCEPT !.stage = "kept"]
        BY <2>1
      <3>2. repository[r].slot = held
        BY DEF held
      <3> HIDE DEF y
      <3>3. QED
        <4>1. /\ y \in RepositoryRecords /\ y.stage = "kept" /\ y.quarantined = repository[r].quarantined
              /\ y.slot = repository[r].slot /\ y.claim = repository[r].claim /\ y.lower = repository[r].lower
              /\ y.users = repository[r].users /\ y.active = repository[r].active
          BY <1>1, <3>1, StageChanges DEF RepositoryStages
        <4>2. QED
          BY <1>3, <2>1, <3>2, <4>1
    <2>2. CASE ~repository[r].quarantined
      <3>1. y = [repository[r] EXCEPT !.stage = "draining", !.timer = FALSE, !.claim = held, !.slot = None]
        BY <2>2
      <3> HIDE DEF y
      <3>2. QED
        BY <1>1, <1>5, <2>2, <3>1 DEF RepositoryRecords, RepositoryStages
    <2>3. QED
      BY <2>1, <2>2
  <1> HIDE DEF y
  <1>7. /\ repository' \in [Repositories -> RepositoryRecords]
        /\ repository'[r] = y /\ \A q \in Repositories \ {r} : repository'[q] = repository[q]
    BY <1>4, <1>6, OneChanges DEF PoolInv
  <1>8. PoolType'
    BY <1>1, <1>7 DEF PoolInv, PoolType
  <1>9. Promised(repository', task', client')
    <2>1. Typed(repository, task, client) /\ Promised(repository, task, client)
      BY PromisedNow
    <2>2. Typed(repository', task, client)
      BY <1>7, <2>1 DEF Typed
    <2>3. Promised(repository', task, client)
      <3>1. CASE repository[r].quarantined
        <4>1. \A q \in Repositories :
                /\ repository'[q].slot = repository[q].slot /\ repository'[q].claim = repository[q].claim
                /\ repository'[q].stage \in {"none", "making", "removed"} => repository[q].stage \in {"none", "making", "removed"}
          BY <1>3, <1>6, <1>7, <3>1
        <4>2. QED
          BY <2>1, <2>2, <4>1, Alike
      <3>2. CASE ~repository[r].quarantined
        BY <1>3, <1>4, <1>6, <2>1, <3>2, CloserClaims
      <3>3. QED
        BY <3>1, <3>2
    <2>4. QED
      BY <1>1, <2>3
  <1>10. Owned(repository', task', client', checkout')
    <2>1. Owned(repository, task, client, checkout)
      BY OwnedNow
    <2>2. \A q \in Repositories : repository'[q].lower = repository[q].lower
      BY <1>6, <1>7
    <2>3. \A d \in Clients : client[d].tree # None => client[d].repo \in Repositories
      BY DEF PoolInv, CallsTrue
    <2>4. Owned(repository', task, client, checkout)
      BY <2>1, <2>2, <2>3, SameOwners
    <2>5. QED
      BY <1>1, <2>4
  <1>11. SameInside /\ SameMounted
    BY <1>1 DEF SameInside, SameMounted, Inside, Mounted
  <1>12. Counted'
    BY <1>6, <1>7, <1>11, CountsStay DEF SameCounts
  <1>13. RepositoriesTrue'
    <2>1. held # None => repository[r].slot # None
      OBVIOUS
    <2> HIDE DEF held
    <2>2. QED
      BY <1>2, <1>6, <1>7, <1>11 DEF PoolInv, RepositoriesTrue, SameInside
  <1>14. CallsTrue'
    <2>1. \A q \in Repositories : repository'[q].quarantined = repository[q].quarantined
      BY <1>6, <1>7
    <2>2. QED
      BY <1>1, <2>1 DEF PoolInv, CallsTrue, Exact
  <1>15. QED
    BY <1>8, <1>9, <1>10, <1>12, <1>13, <1>14, Assembled

\* A preparation takes the checkout before it, or attaches one.
LEMMA PrepareStep ==
  ASSUME PoolInv, NEW k \in Tasks, Prepare(k)
  PROVE  PoolInv'
  <1>0. PICK r \in Repositories : r = task[k].repo
    BY DEF Prepare, PoolInv, TasksTrue
  <1>1. /\ task \in [Tasks -> TaskRecords] /\ task[k] \in TaskRecords /\ task[k].stage = "waiting"
        /\ repository[r] \in RepositoryRecords
        /\ source' = source /\ service' = service /\ registered' = registered /\ client' = client
    BY DEF Prepare, PoolInv, PoolType
  <1>2. PICK p \in Tasks \cup {None} : p = task[k].prev
    BY <1>1 DEF TaskRecords
  <1>3. PICK v \in Versions : v = task[k].base
    BY <1>1 DEF TaskRecords
  <1>4. p # None => p # k /\ task[p].repo = r /\ task[p].stage # "waiting"
    BY <1>0, <1>2, Bounds DEF Prepare, Settled, PoolInv, TasksTrue, Holding
  <1>5. PICK o \in TakenOrAttached(p, r, v) :
          /\ checkout' = o.trees
          /\ task' = [Spent(task, p) EXCEPT ![k].prev = None, ![k].stage = IF o.tree = None THEN "failed" ELSE "done", ![k].tree = o.tree]
          /\ repository' = [repository EXCEPT ![r].slot = IF o.tree = None /\ @ = k THEN None ELSE @]
    BY <1>0, <1>2, <1>3 DEF Prepare
  <1>6. HandsOver(checkout, o.trees, TreeAt(task, p), o.tree, r, v)
    BY <1>4, TakenOrAttachedIs
  <1> DEFINE t == o.tree
             s == IF t = None THEN "failed" ELSE "done"
             V == Spent(task, p)
             x == [V[k] EXCEPT !.prev = None, !.stage = s, !.tree = t]
             m == IF t = None /\ repository[r].slot = k THEN None ELSE repository[r].slot
             y == [repository[r] EXCEPT !.slot = m]
  <1>7. V \in [Tasks -> TaskRecords] /\ (\A j \in Tasks : j # p => V[j] = task[j]) /\ (p # None => V[p].stage = "spent" /\ V[p].prev = None /\ V[p].tree = None)
    <2> HIDE DEF V
    <2>1. QED
      BY <1>1, SpentIs DEF V
  <1>8. V[k] = task[k]
    BY <1>4, <1>7, Bounds
  <1>9. task' = [V EXCEPT ![k] = x] /\ repository' = [repository EXCEPT ![r] = y]
    <2>1. task' = [V EXCEPT ![k].prev = None, ![k].stage = s, ![k].tree = t]
      BY <1>5
    <2> HIDE DEF V, s, t
    <2>2. task' = [V EXCEPT ![k] = x]
      BY <1>7, <2>1
    <2>3. repository' = [repository EXCEPT ![r] = y]
      BY <1>5 DEF t
    <2>4. QED
      BY <2>2, <2>3
  <1>10. t \in Checkouts \cup {None}
    BY <1>6 DEF HandsOver
  <1> HIDE DEF V, t
  <1>11. /\ x \in TaskRecords /\ x.stage = s /\ x.prev = None /\ x.tree = t /\ x.repo = r /\ x.base = v
    BY <1>0, <1>1, <1>3, <1>8, <1>10 DEF TaskRecords, Pledged
  <1>12. /\ s \in {"done", "failed"} /\ (t # None <=> s = "done")
    OBVIOUS
  <1>13. m \in Tasks \cup {None} /\ m = IF s = "failed" /\ repository[r].slot = k THEN None ELSE repository[r].slot
    BY <1>1 DEF RepositoryRecords
  <1> HIDE DEF x, s, m
  <1>14. /\ y \in RepositoryRecords /\ y.slot = m /\ y.stage = repository[r].stage
         /\ y.quarantined = repository[r].quarantined /\ y.claim = repository[r].claim
         /\ y.lower = repository[r].lower /\ y.users = repository[r].users /\ y.active = repository[r].active
    BY <1>1, <1>13 DEF RepositoryRecords
  <1> HIDE DEF y
  <1>15. /\ repository' \in [Repositories -> RepositoryRecords]
         /\ repository'[r] = y /\ \A q \in Repositories \ {r} : repository'[q] = repository[q]
    BY <1>9, <1>14, OneChanges DEF PoolInv
  <1>16. /\ task' \in [Tasks -> TaskRecords] /\ task'[k] = x
         /\ (\A j \in Tasks : j # p /\ j # k => task'[j] = task[j]) /\ (p # None => task'[p].stage = "spent" /\ task'[p].prev = None /\ task'[p].tree = None)
    BY <1>4, <1>7, <1>9, <1>11
  <1>17. Typed(repository', task', client) /\ Promised(repository', task', client)
    <2>1. Typed(repository, task, client) /\ Promised(repository, task, client)
      BY PromisedNow
    <2>2. \A q \in Repositories : repository[q].slot = k => q = r
      BY <1>0, Bounds DEF PoolInv, Holding
    <2>3. \A q \in Repositories :
            /\ repository'[q].claim = repository[q].claim /\ repository'[q].stage = repository[q].stage
            /\ repository'[q].slot = IF x.stage = "failed" /\ repository[q].slot = k THEN None ELSE repository[q].slot
      BY <1>11, <1>13, <1>14, <1>15, <2>2
    <2>4. x.stage \in {"done", "failed"} /\ x.repo = task[k].repo /\ x.prev = None /\ (x.tree # None <=> x.stage = "done")
      BY <1>0, <1>11, <1>12
    <2>5. QED
      BY <1>0, <1>1, <1>2, <1>4, <1>11, <1>15, <1>16, <2>1, <2>3, <2>4, EndsPreparation
  <1>18. Owned(repository', task', client', checkout')
    <2>1. Owned(repository, task, client, checkout) /\ Typed(repository, task, client) /\ Placed(repository, task, client)
      BY OwnedNow, PromisedNow, PlacedNow
    <2>2. HandsOver(checkout, checkout', TreeAt(task, p), t, r, v)
      BY <1>5, <1>6 DEF t
    <2>3. k # p
      BY <1>4, Bounds
    <2>4. task'[k].tree = t /\ task'[k].repo = r /\ task'[k].base = v /\ (task'[k].stage = "done" <=> t # None)
      BY <1>11, <1>12, <1>16
    <2>5. Owned(repository, task', client, checkout')
      BY <1>1, <1>16, <2>1, <2>2, <2>3, <2>4, TaskGetsTree
    <2>6. \A q \in Repositories : repository'[q].lower = repository[q].lower
      BY <1>14, <1>15
    <2>7. \A d \in Clients : client[d].tree # None => client[d].repo \in Repositories
      BY DEF PoolInv, CallsTrue
    <2>8. Owned(repository', task', client, checkout')
      BY <2>5, <2>6, <2>7, SameOwners
    <2>9. QED
      BY <1>1, <2>8
  <1>19. PoolType'
    BY <1>1, <1>5, <1>6, <1>15, <1>17 DEF PoolInv, PoolType, Typed, HandsOver
  <1>20. Promised(repository', task', client')
    BY <1>1, <1>17
  <1>21. SameInside /\ SameMounted
    BY <1>1 DEF SameInside, SameMounted, Inside, Mounted
  <1>22. Counted'
    BY <1>14, <1>15, <1>21, CountsStay DEF SameCounts
  <1>23. RepositoriesTrue'
    BY <1>13, <1>14, <1>15, <1>21 DEF PoolInv, RepositoriesTrue, SameInside
  <1>24. CallsTrue'
    <2>1. \A q \in Repositories : repository'[q].quarantined = repository[q].quarantined
      BY <1>14, <1>15
    <2>2. QED
      BY <1>1, <2>1 DEF PoolInv, CallsTrue, Exact
  <1>25. QED
    BY <1>18, <1>19, <1>20, <1>22, <1>23, <1>24, Assembled

\* The claimed checkout arrives, and the next one is prepared.
LEMMA TakeCheckoutStep ==
  ASSUME PoolInv, NEW c \in Clients, TakeCheckout(c)
  PROVE  PoolInv'
  <1>0. PICK r \in Repositories : r = client[c].repo
    BY DEF TakeCheckout, PoolInv, CallsTrue
  <1>1. /\ client[c] \in CallRecords /\ client[c].stage = "taking" /\ client[c].kind \in {"filesystem", "process"}
        /\ client[c].tree = None /\ ~client[c].settled /\ client[c].since <= source
        /\ client[c].kind = "process" => client[c].base >= client[c].since
        /\ repository[r] \in RepositoryRecords /\ task \in [Tasks -> TaskRecords]
        /\ source' = source /\ service' = service /\ registered' = registered
    BY DEF TakeCheckout, PoolInv, PoolType, CallsTrue, Exact
  <1>2. PICK v \in Versions : v = client[c].base
    BY <1>1 DEF CallRecords
  <1>3. PICK p \in Tasks \cup {None} : p = client[c].claim
    BY <1>1 DEF CallRecords
  <1>4. p # None => task[p].repo = r /\ task[p].stage # "waiting"
    BY <1>0, <1>1, <1>3 DEF TakeCheckout, Settled, PoolInv, Holding
  <1> DEFINE V == Spent(task, p)
  <1>5. PICK o \in TakenOrAttached(p, r, v) :
          /\ checkout' = o.trees
          /\ client' = [client EXCEPT ![c].stage = IF o.tree = None THEN "dispose" ELSE "running",
                                      ![c].tree = o.tree, ![c].claim = None]
          /\ \/ repository' = repository /\ task' = V
             \/ \E n \in PrepareNext(r, v, repository[r], V) :
                  repository' = [repository EXCEPT ![r] = n.repo] /\ task' = n.tasks
    BY <1>0, <1>2, <1>3 DEF TakeCheckout
  <1>6. HandsOver(checkout, o.trees, TreeAt(task, p), o.tree, r, v)
    BY <1>4, TakenOrAttachedIs
  <1> DEFINE t == o.tree
             s == IF t = None THEN "dispose" ELSE "running"
             z == [client[c] EXCEPT !.stage = s, !.tree = t, !.claim = None]
  <1>7. client' = [client EXCEPT ![c] = z]
    BY <1>5
  <1>8. t \in Checkouts \cup {None} /\ s \in {"dispose", "running"} /\ (s = "running" <=> t # None)
    BY <1>6 DEF HandsOver
  <1> HIDE DEF V, t, s
  <1>9. /\ z \in CallRecords /\ z.stage = s /\ z.tree = t /\ z.repo = r /\ z.kind = client[c].kind
        /\ z.since = client[c].since /\ z.base = v /\ ~z.settled
    BY <1>0, <1>1, <1>2, <1>8 DEF CallRecords, CallStages, InStages
  <1> HIDE DEF z
  <1>10. /\ client' \in [Clients -> CallRecords]
         /\ client'[c] = z /\ \A d \in Clients \ {c} : client'[d] = client[d]
    BY <1>7, <1>9, OneMoves DEF PoolInv
  <1>11. (\A k \in Tasks : k # p => V[k] = task[k]) /\ (p # None => V[p].stage = "spent")
    BY <1>1, SpentIs DEF V
  <1>12. Typed(repository, V, client') /\ Promised(repository, V, client')
    <2>1. Typed(repository, task, client) /\ Promised(repository, task, client)
      BY PromisedNow
    <2>2. V = Spent(task, p) /\ z.stage # "taking"
      BY <1>8, <1>9 DEF V
    <2>3. QED
      BY <1>1, <1>3, <1>4, <1>7, <1>9, <2>1, <2>2, TakesPromise
  <1>13. Owned(repository, V, client', checkout')
    <2>1. Owned(repository, task, client, checkout) /\ Typed(repository, task, client) /\ Placed(repository, task, client)
      BY OwnedNow, PromisedNow, PlacedNow
    <2>2. HandsOver(checkout, checkout', TreeAt(task, p), t, r, v)
      BY <1>5, <1>6 DEF t
    <2>3. /\ client'[c].tree = t /\ client'[c].kind # "overlay" /\ client'[c].repo = r /\ client'[c].base = v
          /\ ~client'[c].settled
      BY <1>1, <1>9, <1>10
    <2>4. QED
      BY <1>1, <1>10, <1>11, <2>1, <2>2, <2>3, CallGetsTree
  <1>14. /\ Typed(repository', task', client') /\ Promised(repository', task', client')
         /\ \A q \in Repositories :
              /\ repository'[q].stage = repository[q].stage /\ repository'[q].quarantined = repository[q].quarantined
              /\ repository'[q].claim = repository[q].claim /\ repository'[q].lower = repository[q].lower
              /\ repository'[q].users = repository[q].users /\ repository'[q].active = repository[q].active
              /\ repository'[q].slot # repository[q].slot => repository[q].stage = "open"
         /\ \A k \in Tasks : task'[k] = V[k] \/ (V[k].stage # "done" /\ task'[k].stage # "done")
    <2>1. CASE repository' = repository /\ task' = V
      BY <1>12, <2>1
    <2>2. CASE \E n \in PrepareNext(r, v, repository[r], V) :
                 repository' = [repository EXCEPT ![r] = n.repo] /\ task' = n.tasks
      <3>1. PICK n \in PrepareNext(r, v, repository[r], V) :
              repository' = [repository EXCEPT ![r] = n.repo] /\ task' = n.tasks
        BY <2>2
      <3>2. NextPrepared(repository, V, client', repository', r, n)
        BY <1>12, <3>1, PreparesNext
      <3>3. QED
        BY <3>1, <3>2 DEF NextPrepared
    <2>3. QED
      BY <1>5, <2>1, <2>2
  <1>15. Owned(repository', task', client', checkout')
    <2>1. \A d \in Clients : client'[d].tree # None => client'[d].repo \in Repositories
      BY <1>9, <1>10 DEF PoolInv, CallsTrue
    <2>2. \A q \in Repositories : repository'[q].lower = repository[q].lower
      BY <1>14
    <2>3. QED
      BY <1>13, <1>14, <2>1, <2>2, SameOwners
  <1>16. PoolType'
    BY <1>1, <1>5, <1>6, <1>14 DEF PoolInv, PoolType, Typed, HandsOver
  <1>17. SameInside /\ SameMounted
    BY <1>0, <1>1, <1>8, <1>9, <1>10 DEF SameInside, SameMounted, Inside, Mounted, InStages
  <1>18. Counted'
    BY <1>14, <1>17, CountsStay DEF SameCounts
  <1>19. RepositoriesTrue'
    BY <1>14, <1>17 DEF PoolInv, RepositoriesTrue, SameInside
  <1>20. CallsTrue'
    <2>1. CallFine(client'[c])
      BY <1>1, <1>2, <1>8, <1>9, <1>10 DEF CallFine
    <2>2. \A q \in Repositories : repository[q].quarantined => repository'[q].quarantined
      BY <1>14
    <2>3. QED
      BY <1>1, <1>10, <2>1, <2>2, CallsNext
  <1>21. QED
    BY <1>14, <1>15, <1>16, <1>18, <1>19, <1>20, Assembled

\* dispose() returns the checkout to an empty slot, or removes it.
LEMMA DisposeWorkspaceStep ==
  ASSUME PoolInv, NEW c \in Clients, DisposeWorkspace(c)
  PROVE  PoolInv'
  <1>0. PICK r \in Repositories : r = client[c].repo
    BY DEF DisposeWorkspace, PoolInv, CallsTrue
  <1>1. /\ client[c] \in CallRecords /\ client[c].stage = "dispose" /\ client[c].kind # "overlay"
        /\ repository[r] \in RepositoryRecords /\ repository \in [Repositories -> RepositoryRecords]
        /\ task \in [Tasks -> TaskRecords] /\ checkout \in [Checkouts -> CheckoutRecords]
        /\ source' = source /\ service' = service /\ registered' = registered
        /\ client' = [client EXCEPT ![c] = Over]
    BY DEF DisposeWorkspace, PoolInv, PoolType
  <1>2. PICK b \in Versions : b = client[c].base
    BY <1>1 DEF CallRecords
  <1>3. PICK t \in Checkouts \cup {None} : t = client[c].tree
    BY <1>1 DEF CallRecords
  <1>4. client[c].settled => t # None
    BY <1>3 DEF PoolInv, CallsTrue
  <1> DEFINE returns == client[c].settled /\ repository[r].slot = None /\ repository[r].stage = "open" /\ ~repository[r].quarantined
             back(k) == IF returns THEN [repository[r] EXCEPT !.slot = k] ELSE repository[r]
             given(k) == [stage |-> "done", repo |-> r, base |-> b, prev |-> None, tree |-> t]
             with(k) == IF returns THEN [task EXCEPT ![k] = given(k)] ELSE task
  <1>5. PICK k \in IF returns THEN Fresh(task) ELSE {None} :
          \E n \in IF client[c].settled /\ repository[r].baseline # {}
                   THEN PrepareNext(r, CHOOSE v \in repository[r].baseline : TRUE, back(k), with(k))
                   ELSE {[repo |-> back(k), tasks |-> with(k)]} :
            repository' = [repository EXCEPT ![r] = Released(n.repo)] /\ task' = n.tasks
    BY <1>0, <1>2, <1>3 DEF DisposeWorkspace
  <1>6. checkout' = IF t = None \/ returns THEN checkout ELSE [checkout EXCEPT ![t] = Gone]
    BY <1>0, <1>3 DEF DisposeWorkspace
  <1>7. PICK v \in Versions : repository[r].baseline # {} => v = CHOOSE w \in repository[r].baseline : TRUE
    BY <1>1, Bounds DEF RepositoryRecords
  <1> DEFINE B == back(k)
             W == with(k)
             x == given(k)
  <1>8. PICK n : /\ \/ n = [repo |-> B, tasks |-> W]
                    \/ n \in PrepareNext(r, v, B, W)
                 /\ repository' = [repository EXCEPT ![r] = Released(n.repo)] /\ task' = n.tasks
    BY <1>5, <1>7
  <1>9. returns => k \in Fresh(task) /\ k \in Tasks /\ task[k].stage = "none"
    BY <1>1, <1>5 DEF Fresh
  <1>10. /\ B \in RepositoryRecords /\ B.stage = repository[r].stage /\ B.quarantined = repository[r].quarantined
         /\ B.claim = repository[r].claim /\ B.lower = repository[r].lower /\ B.users = repository[r].users
         /\ B.active = repository[r].active /\ B.slot = IF returns THEN k ELSE repository[r].slot
    <2>1. CASE returns
      <3>1. B = [repository[r] EXCEPT !.slot = k]
        BY <2>1
      <3> HIDE DEF B
      <3>2. QED
        BY <1>1, <1>9, <2>1, <3>1 DEF RepositoryRecords
    <2>2. CASE ~returns
      BY <1>1, <2>2
    <2>3. QED
      BY <2>1, <2>2
  <1>11. /\ x \in TaskRecords /\ x.stage = "done" /\ x.repo = r /\ x.prev = None /\ x.tree = t
    BY DEF TaskRecords, Pledged, None
  <1>12. W = IF returns THEN [task EXCEPT ![k] = x] ELSE task
    OBVIOUS
  <1>13. returns => client[c].settled /\ repository[r].slot = None /\ repository[r].stage = "open" /\ ~repository[r].quarantined
    OBVIOUS
  <1> HIDE DEF B, x, W, returns, back, given, with
  <1> DEFINE M == [repository EXCEPT ![r] = B]
  <1>14. M \in [Repositories -> RepositoryRecords] /\ M[r] = B /\ \A q \in Repositories \ {r} : M[q] = repository[q]
    BY <1>1, <1>10
  <1>15. M = [repository EXCEPT ![r] = B]
    OBVIOUS
  <1> HIDE DEF M
  <1>16. /\ client' \in [Clients -> CallRecords]
         /\ client'[c] = Over /\ \A d \in Clients \ {c} : client'[d] = client[d]
    BY <1>1, NobodyIs, OneMoves DEF PoolInv
  <1>17. Typed(repository, task, client') /\ Promised(repository, task, client')
    <2>1. Typed(repository, task, client) /\ Promised(repository, task, client)
      BY PromisedNow
    <2>2. Typed(repository, task, client')
      BY <1>16, <2>1 DEF Typed
    <2>3. \A d \in Clients : /\ client'[d].stage = "taking" <=> client[d].stage = "taking"
                             /\ client[d].stage = "taking" => client'[d].claim = client[d].claim /\ client'[d].repo = client[d].repo
      BY <1>1, <1>16, NobodyIs
    <2>4. QED
      BY <2>1, <2>2, <2>3, Alike
  <1>18. Typed(M, W, client') /\ Promised(M, W, client')
    <2>1. CASE returns
      <3>1. W = [task EXCEPT ![k] = x] /\ B.slot = k /\ x.tree # None /\ B.stage = "open"
        BY <1>4, <1>10, <1>11, <1>12, <1>13, <2>1
      <3>2. QED
        BY <1>9, <1>10, <1>11, <1>13, <1>15, <1>17, <2>1, <3>1, ReturnsPromise
    <2>2. CASE ~returns
      <3>1. W = task /\ \A q \in Repositories : M[q].slot = repository[q].slot /\ M[q].claim = repository[q].claim /\ M[q].stage = repository[q].stage
        BY <1>10, <1>12, <1>14, <2>2
      <3>2. Typed(M, task, client')
        BY <1>14, <1>17 DEF Typed
      <3>3. Promised(M, task, client')
        BY <1>17, <3>1, <3>2, Alike
      <3>4. QED
        BY <3>1, <3>2, <3>3
    <2>3. QED
      BY <2>1, <2>2
  <1>19. Owned(repository, W, client', checkout')
    <2>1. Owned(repository, task, client, checkout) /\ Typed(repository, task, client) /\ Placed(repository, task, client)
      BY OwnedNow, PromisedNow, PlacedNow
    <2>2. client'[c].tree = None
      BY <1>16, NobodyIs
    <2>3. t # None => t \in Checkouts /\ RunsIn(client, c, t)
      BY <1>1, <1>3 DEF RunsIn
    <2>4. CASE t = None
      <3>1. W = task /\ checkout' = checkout
        BY <1>4, <1>6, <1>12, <1>13, <2>4
      <3>2. \A d \in Clients : /\ client'[d].tree = client[d].tree
                               /\ client[d].tree # None => client'[d] = client[d] /\ client[d].repo \in Repositories
                               /\ client'[d].kind = client[d].kind \/ client[d].tree = None
        BY <1>3, <1>16, <2>2, <2>4 DEF PoolInv, CallsTrue
      <3>3. Owned(repository, task, client', checkout)
        BY <2>1, <3>2, SameOwners
      <3>4. QED
        BY <3>1, <3>3
    <2>5. CASE t # None /\ returns
      <3>1. checkout[t].written
        BY <1>3, <1>13, <2>5 DEF PoolInv, CallTrees
      <3>2. k \in Tasks /\ task[k].stage # "done" /\ W[k] = x /\ \A j \in Tasks \ {k} : W[j] = task[j]
        BY <1>1, <1>9, <1>12, <2>5
      <3>3. W[k].stage = "done" /\ W[k].tree = t /\ W[k].repo = client[c].repo
        BY <1>0, <1>11, <3>2
      <3>4. Owned(repository, W, client', checkout)
        BY <1>16, <2>1, <2>2, <2>3, <2>5, <3>1, <3>2, <3>3, CallReturnsTree
      <3>5. checkout' = checkout
        BY <1>6, <2>5
      <3>6. QED
        BY <3>4, <3>5
    <2>6. CASE t # None /\ ~returns
      <3>1. W = task /\ checkout'[t].stage = "gone" /\ \A u \in Checkouts \ {t} : checkout'[u] = checkout[u]
        BY <1>1, <1>6, <1>12, <2>3, <2>6, GoneHolds DEF GoneIs
      <3>2. Owned(repository, task, client', checkout')
        BY <1>16, <2>1, <2>2, <2>3, <2>6, <3>1, CallDropsTree
      <3>3. QED
        BY <3>1, <3>2
    <2>7. QED
      BY <2>4, <2>5, <2>6
  <1> DEFINE N == [M EXCEPT ![r] = n.repo]
  <1>20. /\ Typed(N, task', client') /\ Promised(N, task', client')
         /\ N[r] = n.repo /\ n.repo \in RepositoryRecords /\ \A q \in Repositories \ {r} : N[q] = M[q]
         /\ n.repo.stage = B.stage /\ n.repo.quarantined = B.quarantined /\ n.repo.claim = B.claim
         /\ n.repo.lower = B.lower /\ n.repo.users = B.users /\ n.repo.active = B.active
         /\ n.repo.slot # B.slot => B.stage = "open"
         /\ \A j \in Tasks : task'[j] = W[j] \/ (W[j].stage # "done" /\ task'[j].stage # "done")
    <2>1. CASE n = [repo |-> B, tasks |-> W]
      <3>1. n.repo = B /\ n.tasks = W
        BY <2>1
      <3>2. N = M /\ task' = W
        BY <1>8, <1>14, <3>1
      <3>3. QED
        BY <1>10, <1>14, <1>18, <3>1, <3>2
    <2>2. CASE n \in PrepareNext(r, v, B, W)
      <3>1. N = [M EXCEPT ![r] = n.repo]
        OBVIOUS
      <3> HIDE DEF N
      <3>2. NextPrepared(M, W, client', N, r, n)
        BY <1>14, <1>18, <2>2, <3>1, PreparesNext
      <3>3. QED
        BY <1>8, <1>14, <3>2 DEF NextPrepared
    <2>3. QED
      BY <1>8, <2>1, <2>2
  <1> HIDE DEF N
  <1> DEFINE y == Released(n.repo)
  <1>21. c \in Inside(r)
    BY <1>0, <1>1 DEF Inside, InStages
  <1>22. /\ y \in RepositoryRecords
         /\ y.stage = n.repo.stage /\ y.quarantined = n.repo.quarantined /\ y.slot = n.repo.slot /\ y.claim = n.repo.claim
         /\ y.lower = n.repo.lower /\ y.users = n.repo.users /\ y.active = n.repo.active - 1
    <2>1. n.repo.active - 1 \in Nat
      BY <1>10, <1>20, <1>21, CountedInside
    <2>2. QED
      BY <1>20, <2>1, ReleasedIs
  <1>23. repository' = [repository EXCEPT ![r] = y]
    BY <1>8
  <1> HIDE DEF y
  <1>24. /\ repository' \in [Repositories -> RepositoryRecords]
         /\ repository'[r] = y /\ \A q \in Repositories \ {r} : repository'[q] = repository[q]
    BY <1>22, <1>23, OneChanges DEF PoolInv
  <1>25. \A q \in Repositories :
           /\ repository'[q].slot = N[q].slot /\ repository'[q].claim = N[q].claim /\ repository'[q].stage = N[q].stage
           /\ repository'[q].lower = N[q].lower
    BY <1>14, <1>20, <1>22, <1>24
  <1>26. Typed(repository', task', client') /\ Promised(repository', task', client')
    <2>1. Typed(repository', task', client')
      BY <1>20, <1>24 DEF Typed
    <2>2. QED
      BY <1>20, <1>25, <2>1, Alike
  <1>27. Owned(repository', task', client', checkout')
    <2>1. \A q \in Repositories : repository'[q].lower = repository[q].lower
      BY <1>10, <1>14, <1>20, <1>25
    <2>2. \A d \in Clients : client'[d].tree # None => client'[d].repo \in Repositories
      BY <1>16, NobodyIs DEF PoolInv, CallsTrue
    <2>3. QED
      BY <1>19, <1>20, <2>1, <2>2, SameOwners
  <1>28. checkout' \in [Checkouts -> CheckoutRecords]
    BY <1>1, <1>6, GoneHolds DEF GoneIs
  <1>29. PoolType'
    BY <1>1, <1>26, <1>28 DEF PoolInv, PoolType, Typed
  <1>30. Inside(r)' = Inside(r) \ {c} /\ \A q \in Repositories \ {r} : Inside(q)' = Inside(q)
    BY <1>0, <1>16, NobodyIs DEF Inside, InStages
  <1>31. SameMounted
    BY <1>1, <1>16, NobodyIs DEF SameMounted, Mounted
  <1>32. Counted'
    <2>1. \A q \in Repositories : IsFiniteSet(Inside(q)') /\ repository'[q].active = Cardinality(Inside(q)')
      BY <1>10, <1>20, <1>21, <1>22, <1>24, <1>30, OneLeaves
    <2>2. \A q \in Repositories : repository'[q].users = repository[q].users
      BY <1>10, <1>20, <1>22, <1>24
    <2>3. QED
      BY <1>31, <2>1, <2>2 DEF PoolInv, Counted, SameMounted
  <1>33. RepositoriesTrue'
    <2>1. /\ repository'[r].stage = repository[r].stage /\ repository'[r].quarantined = repository[r].quarantined
          /\ repository'[r].claim = repository[r].claim
          /\ repository'[r].slot # None => repository[r].slot # None \/ repository[r].stage = "open"
      BY <1>10, <1>13, <1>20, <1>22, <1>24
    <2>2. QED
      BY <1>24, <1>30, <2>1 DEF PoolInv, RepositoriesTrue
  <1>34. CallsTrue'
    <2>1. source \in Nat
      BY Bounds DEF PoolInv, PoolType
    <2>2. CallFine(client'[c])
      BY <1>16, <2>1, NobodyIs DEF CallFine
    <2>3. \A q \in Repositories : repository[q].quarantined => repository'[q].quarantined
      BY <1>10, <1>20, <1>22, <1>24
    <2>4. QED
      BY <1>1, <1>16, <2>2, <2>3, CallsNext
  <1>35. QED
    BY <1>26, <1>27, <1>29, <1>32, <1>33, <1>34, Assembled

\* A mount is counted by its baseline.
LEMMA OneMounts ==
  ASSUME PoolInv, NEW r \in Repositories, NEW v \in Versions, NEW c \in Clients, c \notin Mounted(r, v),
         Mounted(r, v)' = Mounted(r, v) \cup {c},
         \A q \in Repositories, u \in Versions : q # r \/ u # v =>
           Mounted(q, u)' = Mounted(q, u) /\ repository'[q].users[u] = repository[q].users[u],
         repository'[r].users[v] = repository[r].users[v] + 1
  PROVE  \A q \in Repositories, u \in Versions :
           IsFiniteSet(Mounted(q, u)') /\ repository'[q].users[u] = Cardinality(Mounted(q, u)')
  <1>1. IsFiniteSet(Mounted(r, v)) /\ repository[r].users[v] = Cardinality(Mounted(r, v))
    BY DEF PoolInv, Counted
  <1>2. IsFiniteSet(Mounted(r, v)') /\ Cardinality(Mounted(r, v)') = repository'[r].users[v]
    BY <1>1, FS_AddElement
  <1>3. \A q \in Repositories, u \in Versions :
          IsFiniteSet(Mounted(q, u)) /\ repository[q].users[u] = Cardinality(Mounted(q, u))
    BY DEF PoolInv, Counted
  <1>4. ASSUME NEW q \in Repositories, NEW u \in Versions
        PROVE  IsFiniteSet(Mounted(q, u)') /\ repository'[q].users[u] = Cardinality(Mounted(q, u)')
    <2>1. CASE q = r /\ u = v
      BY <1>2, <2>1
    <2>2. CASE q # r \/ u # v
      <3>1. Mounted(q, u)' = Mounted(q, u) /\ repository'[q].users[u] = repository[q].users[u]
        BY <2>2
      <3>2. QED
        BY <1>3, <3>1
    <2>3. QED
      BY <2>1, <2>2
  <1>5. QED
    BY <1>4

\* Baselines that no mount uses are evicted, and nobody had their checkouts.
Unused(C, r, idle) ==
  \A c \in Clients : ~(C[c].tree # None /\ C[c].kind = "overlay" /\ C[c].repo = r /\ C[c].base \in idle)
Evicted(R, S, r, idle) ==
  \A q \in Repositories, u \in Versions : S[q].lower[u] = IF q = r /\ u \in idle THEN None ELSE R[q].lower[u]
Evicts(R, K, L, r, idle) ==
  \A t \in Checkouts : L[t] = IF \E u \in idle : R[r].lower[u] = t THEN Gone ELSE K[t]
\* No owner loses his checkout by it.
LEMMA EvictsIdle ==
  ASSUME NEW R, NEW T, NEW C, NEW K, Typed(R, T, C), Placed(R, T, C), Owned(R, T, C, K),
         NEW r \in Repositories, NEW idle \in SUBSET Versions,
         NEW L, NEW S, Unused(C, r, idle), Evicts(R, K, L, r, idle), Evicted(R, S, r, idle)
  PROVE  Owned(S, T, C, L)
  <1> USE DEF Unused, Evicts, Evicted
  <1>0. Gone.stage = "gone"
    BY GoneHolds DEF GoneIs
  <1>1. \A q \in Repositories, u \in Versions : R[q].lower[u] \in Checkouts \cup {None}
    BY DEF Typed, RepositoryRecords
  <1>2. ASSUME NEW c \in Clients, C[c].tree # None
        PROVE  /\ C[c].tree \in Checkouts /\ C[c].repo \in Repositories /\ C[c].base \in Versions
               /\ \A u \in idle : R[r].lower[u] # C[c].tree
    <2>1. C[c].tree \in Checkouts /\ C[c].repo \in Repositories /\ C[c].base \in Versions
      BY <1>2 DEF Typed, CallRecords, Placed
    <2>2. CASE C[c].kind = "overlay"
      <3>1. R[C[c].repo].lower[C[c].base] = C[c].tree
        BY <1>2, <2>2 DEF Owned, TreesIn, OwnTree
      <3>2. QED
        BY <1>2, <2>1, <2>2, <3>1 DEF Owned, OwnedOnceAt
    <2>3. CASE C[c].kind # "overlay"
      BY <2>1, <2>3 DEF Owned, OwnedOnceAt, RunsIn
    <2>4. QED
      BY <2>1, <2>2, <2>3
  <1>3. ASSUME NEW k \in Tasks, T[k].stage = "done"
        PROVE  T[k].tree \in Checkouts /\ \A u \in idle : R[r].lower[u] # T[k].tree
    <2>1. T[k].tree \in Checkouts
      BY <1>3 DEF Typed, TaskRecords, Placed
    <2>2. QED
      BY <1>3, <2>1 DEF Owned, OwnedOnceAt, PromisesIn
  <1>4. ASSUME NEW q \in Repositories, NEW w \in Versions, S[q].lower[w] # None
        PROVE  /\ S[q].lower[w] = R[q].lower[w] /\ R[q].lower[w] \in Checkouts
               /\ \A u \in idle : R[r].lower[u] # R[q].lower[w]
    <2>1. S[q].lower[w] = R[q].lower[w] /\ R[q].lower[w] \in Checkouts /\ ~(q = r /\ w \in idle)
      BY <1>1, <1>4
    <2>2. QED
      BY <2>1 DEF Owned, OwnedOnceAt
  <1>5. TreesIn(S, T, C, L)
    <2>1. ASSUME NEW c \in Clients PROVE OwnTree(S, C, L, c)
      <3>1. OwnTree(R, C, K, c)
        BY DEF Owned, TreesIn
      <3>2. C[c].tree # None => L[C[c].tree] = K[C[c].tree]
        BY <1>2
      <3>3. C[c].tree # None /\ C[c].kind = "overlay" =>
              S[C[c].repo].lower[C[c].base] = R[C[c].repo].lower[C[c].base]
        BY <1>2
      <3>4. QED
        BY <3>1, <3>2, <3>3 DEF OwnTree
    <2>2. ASSUME NEW k \in Tasks PROVE OwnTask(T, L, k)
      <3>1. OwnTask(T, K, k)
        BY DEF Owned, TreesIn
      <3>2. T[k].stage = "done" => L[T[k].tree] = K[T[k].tree]
        BY <1>3
      <3>3. QED
        BY <3>1, <3>2 DEF OwnTask
    <2>3. ASSUME NEW q \in Repositories, NEW w \in Versions PROVE OwnLower(S, L, q, w)
      <3>1. OwnLower(R, K, q, w)
        BY DEF Owned, TreesIn
      <3>2. S[q].lower[w] # None => S[q].lower[w] = R[q].lower[w] /\ L[R[q].lower[w]] = K[R[q].lower[w]]
        BY <1>4
      <3>3. QED
        BY <3>1, <3>2 DEF OwnLower
    <2>4. QED
      BY <2>1, <2>2, <2>3 DEF TreesIn
  <1>6. ASSUME NEW t \in Checkouts
        PROVE  OwnedOnceAt(S, T, C, t) /\ (L[t].stage = "live" => OwnedIn(S, T, C, t))
    <2>1. t # None /\ OwnedOnceAt(R, T, C, t)
      BY Bounds DEF Owned
    <2>2. \A q \in Repositories, w \in Versions : S[q].lower[w] = t => R[q].lower[w] = t
      BY <1>4, <2>1
    <2>3. OwnedOnceAt(S, T, C, t)
      BY <2>1, <2>2 DEF OwnedOnceAt
    <2>4. ASSUME L[t].stage = "live" PROVE OwnedIn(S, T, C, t)
      <3>1. \A u \in idle : R[r].lower[u] # t
        BY <1>0, <2>4
      <3>2. OwnedIn(R, T, C, t)
        BY <2>4, <3>1 DEF Owned
      <3>3. \A q \in Repositories, w \in Versions : R[q].lower[w] = t => S[q].lower[w] = t
        BY <3>1
      <3>4. QED
        BY <3>2, <3>3 DEF OwnedIn
    <2>5. QED
      BY <2>3, <2>4
  <1>7. QED
    BY <1>5, <1>6 DEF Owned

\* The baseline is lent, and attached first if it is not there.
Lends(K, L, old, t, r, v) ==
  \/ t = old /\ \A u \in Checkouts : L[u] = K[u]
  \/ /\ old = None /\ t \in Checkouts /\ K[t].stage = "none" /\ \A u \in Checkouts : u # t => L[u] = K[u]
     /\ L[t].stage = "live" /\ L[t].repo = r /\ L[t].content = v
Lent(R, S, r, v, t) ==
  \A q \in Repositories, u \in Versions : S[q].lower[u] = IF q = r /\ u = v THEN t ELSE R[q].lower[u]
Borrows(C, D, c, r, v, t) ==
  /\ C[c].tree = None /\ \A d \in Clients \ {c} : D[d] = C[d]
  /\ D[c].tree = t /\ D[c].kind = "overlay" /\ D[c].repo = r /\ D[c].base = v /\ ~D[c].settled
\* The baseline is its repository's, whoever mounts it.
LEMMA LendsLower ==
  ASSUME NEW R, NEW T, NEW C, NEW K, Typed(R, T, C), Placed(R, T, C), Owned(R, T, C, K),
         NEW r \in Repositories, NEW v \in Versions, NEW L, NEW t, Lends(K, L, R[r].lower[v], t, r, v),
         NEW S, Lent(R, S, r, v, t), NEW c \in Clients, NEW D, Borrows(C, D, c, r, v, t)
  PROVE  Owned(S, T, D, L)
  <1> USE DEF Lent, Borrows
  <1>0. (\A u \in Checkouts : u # None) /\ \A q \in Repositories, u \in Versions : R[q].lower[u] \in Checkouts \cup {None}
    BY Bounds DEF Typed, RepositoryRecords
  <1>1. \A d \in Clients, u \in Checkouts : RunsIn(D, d, u) <=> RunsIn(C, d, u)
    BY <1>0 DEF RunsIn
  <1>2. \A u \in Checkouts : K[u].stage = "live" => L[u] = K[u]
    BY DEF Lends
  <1>3. t # None => t \in Checkouts /\ L[t].stage = "live" /\ L[t].repo = r /\ L[t].content = v
    <2>1. OwnLower(R, K, r, v)
      BY DEF Owned, TreesIn
    <2>2. QED
      BY <1>0, <2>1 DEF Lends, OwnLower
  <1>4. \A q \in Repositories, u \in Versions :
          /\ R[q].lower[u] # None => S[q].lower[u] = R[q].lower[u]
          /\ S[q].lower[u] # R[q].lower[u] => q = r /\ u = v /\ S[q].lower[u] = t /\ t \in Checkouts /\ K[t].stage = "none"
    BY DEF Lends
  <1>5. TreesIn(S, T, D, L)
    <2>1. ASSUME NEW d \in Clients PROVE OwnTree(S, D, L, d)
      <3>1. CASE d = c
        <4>1. S[r].lower[v] = t
          OBVIOUS
        <4>2. QED
          BY <1>3, <3>1, <4>1 DEF OwnTree
      <3>2. CASE d # c
        <4>1. OwnTree(R, C, K, d) /\ D[d] = C[d]
          BY <3>2 DEF Owned, TreesIn
        <4>2. C[d].tree # None => C[d].tree \in Checkouts /\ C[d].repo \in Repositories /\ C[d].base \in Versions
          BY DEF Typed, CallRecords, Placed
        <4>3. C[d].tree # None => L[C[d].tree] = K[C[d].tree]
          BY <1>2, <4>1, <4>2 DEF OwnTree
        <4>4. C[d].tree # None /\ C[d].kind = "overlay" => S[C[d].repo].lower[C[d].base] = C[d].tree
          BY <1>4, <4>1, <4>2 DEF OwnTree
        <4>5. QED
          BY <4>1, <4>3, <4>4 DEF OwnTree
      <3>3. QED
        BY <3>1, <3>2
    <2>2. ASSUME NEW k \in Tasks PROVE OwnTask(T, L, k)
      <3>1. OwnTask(T, K, k) /\ (T[k].stage = "done" => T[k].tree \in Checkouts)
        BY DEF Owned, TreesIn, Typed, TaskRecords, Placed
      <3>2. QED
        BY <1>2, <3>1 DEF OwnTask
    <2>3. ASSUME NEW q \in Repositories, NEW u \in Versions PROVE OwnLower(S, L, q, u)
      <3>1. CASE q = r /\ u = v
        BY <1>3, <3>1 DEF OwnLower
      <3>2. CASE ~(q = r /\ u = v)
        <4>1. OwnLower(R, K, q, u) /\ S[q].lower[u] = R[q].lower[u]
          BY <3>2 DEF Owned, TreesIn
        <4>2. R[q].lower[u] # None => L[R[q].lower[u]] = K[R[q].lower[u]]
          BY <1>0, <1>2, <4>1 DEF OwnLower
        <4>3. QED
          BY <4>1, <4>2 DEF OwnLower
      <3>3. QED
        BY <3>1, <3>2
    <2>4. QED
      BY <2>1, <2>2, <2>3 DEF TreesIn
  <1>6. ASSUME NEW u \in Checkouts
        PROVE  OwnedOnceAt(S, T, D, u) /\ (L[u].stage = "live" => OwnedIn(S, T, D, u))
    <2>1. CASE u = t /\ K[u].stage = "none"
      <3>1. /\ \A d \in Clients : C[d].tree # u
            /\ \A k \in Tasks : ~PromisesIn(T, k, u)
            /\ \A q \in Repositories, w \in Versions : R[q].lower[w] # u
        BY <2>1, FreshIsFree
      <3>2. \A d \in Clients : ~RunsIn(D, d, u)
        BY <1>1, <3>1 DEF RunsIn
      <3>3. \A q \in Repositories, w \in Versions : S[q].lower[w] = u <=> q = r /\ w = v
        BY <1>4, <2>1, <3>1
      <3>4. QED
        BY <3>1, <3>2, <3>3 DEF OwnedOnceAt, OwnedIn
    <2>2. CASE ~(u = t /\ K[u].stage = "none")
      <3>1. \A q \in Repositories, w \in Versions : S[q].lower[w] = u <=> R[q].lower[w] = u
        BY <1>0, <1>4, <2>2
      <3>2. OwnedOnceAt(R, T, C, u) /\ (K[u].stage = "live" => OwnedIn(R, T, C, u))
        BY DEF Owned
      <3>3. OwnedOnceAt(S, T, D, u)
        BY <1>1, <3>1, <3>2 DEF OwnedOnceAt
      <3>4. OwnedIn(R, T, C, u) => OwnedIn(S, T, D, u)
        BY <1>1, <3>1 DEF OwnedIn
      <3>5. L[u] = K[u]
        BY <2>2 DEF Lends
      <3>6. QED
        BY <3>2, <3>3, <3>4, <3>5
    <2>3. QED
      BY <2>1, <2>2
  <1>7. QED
    BY <1>5, <1>6 DEF Owned

\* acquireOverlayBaseline evicts what no mount uses and lends the snapshot.
LEMMA AcquireOverlayStep ==
  ASSUME PoolInv, NEW c \in Clients, AcquireOverlay(c)
  PROVE  PoolInv'
  <1>0. PICK r \in Repositories : r = client[c].repo
    BY DEF AcquireOverlay, PoolInv, CallsTrue
  <1>1. PICK v \in Versions : v = client[c].base
    BY DEF PoolInv, PoolType, CallRecords
  <1>2. /\ client[c] \in CallRecords /\ client[c].stage = "allocate" /\ client[c].kind = "overlay"
        /\ client[c].tree = None /\ ~client[c].settled /\ client[c].since <= source /\ v >= client[c].since
        /\ repository[r] \in RepositoryRecords /\ checkout \in [Checkouts -> CheckoutRecords]
        /\ source' = source /\ service' = service /\ registered' = registered /\ task' = task
    BY <1>1 DEF AcquireOverlay, PoolInv, PoolType, CallsTrue, Exact
  <1> DEFINE idles(q, b) == Evictable(q, b)
             keeps(q, b) == [t \in Checkouts |-> IF \E u \in idles(q, b) : repository[q].lower[u] = t THEN Gone ELSE checkout[t]]
             lowers(q, b) == [u \in Versions |-> IF u \in idles(q, b) THEN None ELSE repository[q].lower[u]]
             counts(q) == repository[q].users
             Acquires(q, b) ==
               \E o \in IF lowers(q, b)[b] # None THEN {[tree |-> lowers(q, b)[b], trees |-> keeps(q, b)]}
                        ELSE Attached(keeps(q, b), q, b) :
                 /\ checkout' = o.trees
                 /\ repository' = [repository EXCEPT ![q].lower = [lowers(q, b) EXCEPT ![b] = o.tree],
                                     ![q].users = IF o.tree = None THEN counts(q) ELSE [counts(q) EXCEPT ![b] = counts(q)[b] + 1]]
                 /\ \E mounted \in IF o.tree = None THEN {FALSE} ELSE BOOLEAN :
                      client' = [client EXCEPT ![c].stage = IF mounted THEN "running" ELSE "dispose", ![c].tree = o.tree]
             idle == idles(r, v)
             kept == keeps(r, v)
             lower == lowers(r, v)
             users == repository[r].users
  <1>a. Acquires(client[c].repo, client[c].base)
    BY DEF AcquireOverlay
  <1> HIDE DEF Acquires
  <1>b. Acquires(r, v)
    BY <1>0, <1>1, <1>a
  <1>3. PICK o \in IF lower[v] # None THEN {[tree |-> lower[v], trees |-> kept]} ELSE Attached(kept, r, v) :
          /\ checkout' = o.trees
          /\ repository' = [repository EXCEPT ![r].lower = [lower EXCEPT ![v] = o.tree],
                              ![r].users = IF o.tree = None THEN users ELSE [users EXCEPT ![v] = users[v] + 1]]
          /\ \E mounted \in IF o.tree = None THEN {FALSE} ELSE BOOLEAN :
               client' = [client EXCEPT ![c].stage = IF mounted THEN "running" ELSE "dispose", ![c].tree = o.tree]
    BY <1>b DEF Acquires
  <1>4. idle \in SUBSET Versions /\ v \notin idle /\ \A u \in idle : Mounted(r, u) = {}
    BY CountedMounted DEF Evictable
  <1> HIDE DEF idle, idles
  <1>5. /\ kept \in [Checkouts -> CheckoutRecords] /\ lower \in [Versions -> Checkouts \cup {None}]
        /\ \A u \in Checkouts : checkout[u].stage # "live" => kept[u].stage # "live"
    BY <1>2, GoneHolds DEF GoneIs, RepositoryRecords
  <1>6. /\ \A t \in Checkouts : kept[t] = IF \E u \in idle : repository[r].lower[u] = t THEN Gone ELSE checkout[t]
        /\ \A u \in Versions : lower[u] = IF u \in idle THEN None ELSE repository[r].lower[u]
    BY DEF idle
  <1> HIDE DEF kept, lower, keeps, lowers
  <1> DEFINE t == o.tree
             w == [lower EXCEPT ![v] = t]
             n == users[v] + 1
             m == IF t = None THEN users ELSE [users EXCEPT ![v] = n]
             y == [repository[r] EXCEPT !.lower = w, !.users = m]
  <1>7. Lends(kept, checkout', lower[v], t, r, v) /\ checkout' \in [Checkouts -> CheckoutRecords] /\ t \in Checkouts \cup {None}
    <2>1. CASE lower[v] # None
      <3>1. o = [tree |-> lower[v], trees |-> kept]
        BY <1>3, <2>1
      <3>2. t = lower[v] /\ checkout' = kept
        BY <1>3, <3>1
      <3>3. QED
        BY <1>5, <3>2 DEF Lends
    <2>2. CASE lower[v] = None
      <3>1. o \in Attached(kept, r, v)
        BY <1>3, <2>2
      <3>2. /\ o.trees \in [Checkouts -> CheckoutRecords] /\ o.tree \in Checkouts \cup {None}
            /\ \A u \in Checkouts : u # o.tree => o.trees[u] = kept[u]
            /\ o.tree # None => /\ kept[o.tree].stage = "none"
                                /\ o.trees[o.tree].stage = "live" /\ o.trees[o.tree].repo = r
                                /\ o.trees[o.tree].content = v /\ ~o.trees[o.tree].written
        BY <1>5, <3>1, AttachedIs
      <3>3. QED
        BY <1>3, <2>2, <3>2, Bounds DEF Lends
    <2>3. QED
      BY <2>1, <2>2
  <1>8. PICK s \in {"running", "dispose"} :
          client' = [client EXCEPT ![c].stage = s, ![c].tree = t] /\ (t = None => s = "dispose")
    BY <1>3
  <1> DEFINE z == [client[c] EXCEPT !.stage = s, !.tree = t]
  <1>9. repository' = [repository EXCEPT ![r] = y] /\ client' = [client EXCEPT ![c] = z]
    BY <1>3, <1>8
  <1>10. n \in Nat /\ users \in [Versions -> Nat]
    BY <1>2 DEF RepositoryRecords
  <1> HIDE DEF t, n
  <1>11. m \in [Versions -> Nat] /\ (\A u \in Versions \ {v} : m[u] = users[u]) /\ m[v] = IF t = None THEN users[v] ELSE n
    BY <1>10
  <1>12. w \in [Versions -> Checkouts \cup {None}] /\ w[v] = t /\ \A u \in Versions \ {v} : w[u] = lower[u]
    BY <1>5, <1>7
  <1> HIDE DEF m, w
  <1>13. /\ y \in RepositoryRecords /\ y.stage = repository[r].stage /\ y.quarantined = repository[r].quarantined
         /\ y.slot = repository[r].slot /\ y.claim = repository[r].claim
         /\ y.lower = w /\ y.users = m /\ y.active = repository[r].active
    BY <1>2, <1>11, <1>12 DEF RepositoryRecords
  <1>14. /\ z \in CallRecords /\ z.stage = s /\ z.tree = t /\ z.repo = r /\ z.base = v /\ z.kind = "overlay"
         /\ z.since = client[c].since /\ ~z.settled
    BY <1>0, <1>1, <1>2, <1>7, <1>8 DEF CallRecords, CallStages, InStages
  <1> HIDE DEF y, z
  <1>15. /\ repository' \in [Repositories -> RepositoryRecords]
         /\ repository'[r] = y /\ \A q \in Repositories \ {r} : repository'[q] = repository[q]
    BY <1>9, <1>13, OneChanges DEF PoolInv
  <1>16. /\ client' \in [Clients -> CallRecords]
         /\ client'[c] = z /\ \A d \in Clients \ {c} : client'[d] = client[d]
    BY <1>9, <1>14, OneMoves DEF PoolInv
  <1>17. PoolType'
    BY <1>2, <1>7, <1>15, <1>16 DEF PoolInv, PoolType
  <1>18. Promised(repository', task', client')
    <2>1. Typed(repository, task, client) /\ Promised(repository, task, client)
      BY PromisedNow
    <2>2. Typed(repository', task, client')
      BY <1>15, <1>16, <2>1 DEF Typed
    <2>3. \A q \in Repositories :
            /\ repository'[q].slot = repository[q].slot /\ repository'[q].claim = repository[q].claim
            /\ repository'[q].stage = repository[q].stage
      BY <1>13, <1>15
    <2>4. \A d \in Clients : /\ client'[d].stage = "taking" <=> client[d].stage = "taking"
                             /\ client[d].stage = "taking" => client'[d].claim = client[d].claim /\ client'[d].repo = client[d].repo
      BY <1>2, <1>14, <1>16
    <2>5. Promised(repository', task, client')
      BY <2>1, <2>2, <2>3, <2>4, Alike
    <2>6. QED
      BY <1>2, <2>5
  <1> DEFINE x == [repository[r] EXCEPT !.lower = lower]
             M == [repository EXCEPT ![r] = x]
  <1>19. x \in RepositoryRecords /\ x.lower = lower
    BY <1>2, <1>5 DEF RepositoryRecords
  <1> HIDE DEF x
  <1>20. M \in [Repositories -> RepositoryRecords] /\ M[r] = x /\ \A q \in Repositories \ {r} : M[q] = repository[q]
    BY <1>19 DEF PoolInv, PoolType
  <1> HIDE DEF M
  <1>21. Owned(repository', task', client', checkout')
    <2>1. Owned(repository, task, client, checkout) /\ Typed(repository, task, client) /\ Placed(repository, task, client)
      BY OwnedNow, PromisedNow, PlacedNow
    <2>2. \A d \in Clients : ~(client[d].tree # None /\ client[d].kind = "overlay" /\ client[d].repo = r /\ client[d].base \in idle)
      BY <1>4 DEF Mounted
    <2>3. \A q \in Repositories, u \in Versions :
            M[q].lower[u] = IF q = r /\ u \in idle THEN None ELSE repository[q].lower[u]
      BY <1>6, <1>19, <1>20
    <2>4. Owned(M, task, client, kept)
      <3>1. Unused(client, r, idle) /\ Evicts(repository, checkout, kept, r, idle) /\ Evicted(repository, M, r, idle)
        BY <1>6, <2>2, <2>3 DEF Unused, Evicts, Evicted
      <3>2. QED
        BY <1>4, <2>1, <3>1, EvictsIdle
    <2>5. Typed(M, task, client)
      BY <1>20, <2>1 DEF Typed
    <2>6. Lends(kept, checkout', M[r].lower[v], t, r, v)
      BY <1>7, <1>19, <1>20
    <2>7. \A q \in Repositories, u \in Versions : repository'[q].lower[u] = IF q = r /\ u = v THEN t ELSE M[q].lower[u]
      BY <1>12, <1>13, <1>15, <1>19, <1>20
    <2>8. Owned(repository', task, client', checkout')
      <3>1. Lent(M, repository', r, v, t)
        BY <2>7 DEF Lent
      <3>2. Borrows(client, client', c, r, v, t)
        BY <1>2, <1>14, <1>16 DEF Borrows
      <3>3. Placed(M, task, client)
        BY <2>1 DEF Placed
      <3>4. QED
        BY <2>4, <2>5, <2>6, <3>1, <3>2, <3>3, LendsLower
    <2>9. QED
      BY <1>2, <2>8
  <1>22. SameInside
    BY <1>0, <1>2, <1>14, <1>16 DEF SameInside, Inside, InStages
  <1>23. Counted'
    <2>1. c \notin Mounted(r, v)
      BY <1>2 DEF Mounted
    <2>2. \A q \in Repositories, u \in Versions :
            Mounted(q, u)' = IF q = r /\ u = v /\ t # None THEN Mounted(q, u) \cup {c} ELSE Mounted(q, u)
      BY <1>2, <1>14, <1>16 DEF Mounted
    <2>3. \A q \in Repositories, u \in Versions : q # r \/ u # v =>
            Mounted(q, u)' = Mounted(q, u) /\ repository'[q].users[u] = repository[q].users[u]
      BY <1>11, <1>13, <1>15, <2>2
    <2>4. \A q \in Repositories, u \in Versions :
            IsFiniteSet(Mounted(q, u)') /\ repository'[q].users[u] = Cardinality(Mounted(q, u)')
      <3>1. CASE t = None
        <4>1. Mounted(r, v)' = Mounted(r, v) /\ repository'[r].users[v] = repository[r].users[v]
          BY <1>11, <1>13, <1>15, <2>2, <3>1
        <4>2. QED
          BY <2>3, <4>1 DEF PoolInv, Counted
      <3>2. CASE t # None
        <4>1. repository'[r].users[v] = repository[r].users[v] + 1 /\ Mounted(r, v)' = Mounted(r, v) \cup {c}
          BY <1>11, <1>13, <1>15, <2>2, <3>2 DEF n
        <4>2. QED
          BY <2>1, <2>3, <4>1, OneMounts
      <3>3. QED
        BY <3>1, <3>2
    <2>5. \A q \in Repositories : repository'[q].active = repository[q].active
      BY <1>13, <1>15
    <2>6. QED
      BY <1>22, <2>4, <2>5 DEF PoolInv, Counted, SameInside
  <1>24. RepositoriesTrue'
    BY <1>13, <1>15, <1>22 DEF PoolInv, RepositoriesTrue, SameInside
  <1>25. CallsTrue'
    <2>1. CallFine(client'[c])
      BY <1>2, <1>8, <1>14, <1>16 DEF CallFine
    <2>2. \A q \in Repositories : repository[q].quarantined => repository'[q].quarantined
      BY <1>13, <1>15
    <2>3. QED
      BY <1>2, <1>16, <2>1, <2>2, CallsNext
  <1>26. QED
    BY <1>17, <1>18, <1>21, <1>23, <1>24, <1>25, Assembled

\* A nonempty set of natural numbers has a least element.
LEMMA LeastNat ==
  ASSUME NEW T, T \subseteq Nat, T # {}
  PROVE  \E x \in T : \A y \in T : x <= y
  <1> DEFINE Family == {0..x : x \in T}
             Smaller == StrictSubsetOrdering(Nat)
  <1>1. IsWellFoundedOn(Smaller, FiniteSubsetsOf(Nat))
    BY FS_StrictSubsetOrderingWellFounded
  <1>2. \A x \in T : IsFiniteSet(0..x)
    BY FS_Interval
  <1>3. Family \subseteq FiniteSubsetsOf(Nat) /\ Family # {}
    <2>1. \A x \in T : 0..x \subseteq Nat
      OBVIOUS
    <2>2. \A x \in T : 0..x \in FiniteSubsetsOf(Nat)
      BY <2>1, <1>2 DEF FiniteSubsetsOf
    <2> QED BY <2>2
  <1>4. PICK F \in Family : \A G \in Family : ~ (<<G, F>> \in Smaller)
    <2> HIDE DEF Family, Smaller
    <2> QED BY <1>1, <1>3, WFMin
  <1>5. PICK x \in T : F = 0..x
    BY <1>4
  <1>6. ASSUME NEW y \in T, y < x PROVE FALSE
    <2>1. 0..y \subseteq 0..x /\ 0..y # 0..x /\ 0..y \subseteq Nat /\ 0..x \subseteq Nat
      BY <1>6
    <2>2. <<0..y, F>> \in Smaller
      BY <2>1, <1>5 DEF StrictSubsetOrdering
    <2> QED BY <2>2, <1>4
  <1> QED BY <1>6

\* Once a repository is drained, nobody waits for a checkout of it: each preparation waits for the one
\* before it, and the last of them has been claimed and has come to an end.
LEMMA NoneWaits ==
  ASSUME PoolInv, NEW r \in Repositories, repository[r].stage = "draining", Settled(repository[r].claim)
  PROVE  \A k \in Tasks : task[k].repo = r =>
           task[k].stage # "waiting" /\ (task[k].stage = "done" => k = repository[r].claim)
  <1>1. Inside(r) = {} /\ repository[r].slot = None
    BY DEF PoolInv, RepositoriesTrue
  <1>2. ASSUME NEW k \in Tasks, task[k].repo = r, task[k].stage \in {"waiting", "done"}, k # repository[r].claim
        PROVE  \E j \in Tasks : task[j].prev = k /\ task[j].repo = r /\ task[j].stage = "waiting" /\ k < j
    <2>1. IsHeld(k) /\ k # None
      BY <1>2, Bounds DEF PoolInv, NoneForgotten
    <2>2. \A q \in Repositories : repository[q].slot # k /\ repository[q].claim # k
      BY <1>1, <1>2, <2>1 DEF PoolInv, Holding
    <2>3. \A c \in Clients : ~Takes(c, k)
      <3> SUFFICES ASSUME NEW c \in Clients, Takes(c, k) PROVE FALSE
        OBVIOUS
      <3>1. client[c].stage = "taking" /\ client[c].repo = r
        BY <1>2, <2>1 DEF PoolInv, Holding, Takes
      <3>2. c \in Inside(r)
        BY <3>1 DEF Inside, InStages
      <3>3. QED
        BY <1>1, <3>2
    <2>4. PICK j \in Tasks : task[j].prev = k
      BY <2>1, <2>2, <2>3 DEF IsHeld
    <2>5. QED
      BY <1>2, <2>1, <2>4 DEF PoolInv, Holding, TasksTrue
  <1>3. ASSUME NEW k \in Tasks, task[k].repo = r, task[k].stage = "waiting" PROVE FALSE
    <2> DEFINE Waits == {j \in Tasks : task[j].repo = r /\ task[j].stage = "waiting"}
               Ages == {MaxTasks - j : j \in Waits}
    <2>1. \A j \in Waits : j \in Tasks /\ j # repository[r].claim
      <3>1. repository[r].claim # None => task[repository[r].claim].stage \in {"done", "failed", "spent"}
        BY DEF Settled
      <3>2. QED
        BY <3>1, Bounds
    <2>2. \A j \in Waits : j \in Nat /\ MaxTasks - j \in Nat
      BY Bounds DEF Tasks
    <2>3. Ages \subseteq Nat /\ Ages # {}
      BY <1>3, <2>2
    <2>4. PICK a \in Ages : \A b \in Ages : a <= b
      <3> HIDE DEF Ages
      <3>1. QED
        BY <2>3, LeastNat
    <2>5. PICK j \in Waits : a = MaxTasks - j
      BY <2>4
    <2>6. PICK i \in Waits : j < i
      BY <1>2, <2>1, <2>5
    <2>7. a <= MaxTasks - i
      BY <2>4, <2>6
    <2>8. i \in Nat /\ j \in Nat /\ MaxTasks \in Nat
      BY <2>2, Bounds
    <2> HIDE DEF Waits, Ages
    <2>9. QED
      BY <2>5, <2>6, <2>7, <2>8
  <1>4. QED
    BY <1>2, <1>3

\* Nobody has a checkout of a removed repository any more.
Removed(r, R, S, K, L) ==
  /\ \A q \in Repositories, v \in Versions : S[q].lower[v] = IF q = r THEN None ELSE R[q].lower[v]
  /\ \A t \in Checkouts : L[t] = IF K[t].repo = r THEN Gone ELSE K[t]
Deserted(r, T, C, p) ==
  /\ \A c \in Clients : C[c].tree # None => C[c].repo # r
  /\ \A k \in Tasks : T[k].stage = "done" => (k = p <=> T[k].repo = r)
\* Who has a checkout then has it of another repository.
LEMMA RemovesTrees ==
  ASSUME NEW R, NEW T, NEW C, NEW K, Typed(R, T, C), Placed(R, T, C), Owned(R, T, C, K), NEW r \in Repositories,
         NEW p \in Tasks \cup {None}, Deserted(r, T, C, p), NEW U, U = Spent(T, p),
         NEW S, NEW L, Removed(r, R, S, K, L)
  PROVE  Owned(S, U, C, L)
  <1>1. /\ \A k \in Tasks : k # p => U[k] = T[k]
        /\ p # None => U[p].stage = "spent"
    BY SpentIs DEF Typed
  <1>2. \A k \in Tasks : U[k].stage = "done" <=> T[k].stage = "done" /\ T[k].repo # r
    BY <1>1, Bounds DEF Deserted
  <1>3. \A k \in Tasks : U[k].stage = "done" => U[k] = T[k]
    BY <1>1, Bounds
  <1>4. /\ \A c \in Clients : C[c].tree # None => C[c].tree \in Checkouts /\ C[c].repo \in Repositories /\ C[c].base \in Versions
        /\ \A k \in Tasks : T[k].stage = "done" => T[k].tree \in Checkouts
        /\ \A q \in Repositories, v \in Versions : R[q].lower[v] \in Checkouts \cup {None}
    BY DEF Typed, CallRecords, TaskRecords, RepositoryRecords, Placed
  <1>5. Gone.stage = "gone"
    BY GoneHolds DEF GoneIs
  <1>6. TreesIn(S, U, C, L)
    <2>1. ASSUME NEW c \in Clients PROVE OwnTree(S, C, L, c)
      <3>1. OwnTree(R, C, K, c)
        BY DEF Owned, TreesIn
      <3>2. C[c].tree # None => C[c].repo # r /\ L[C[c].tree] = K[C[c].tree]
        BY <1>4, <3>1 DEF Deserted, Removed, OwnTree
      <3>3. C[c].tree # None => S[C[c].repo].lower[C[c].base] = R[C[c].repo].lower[C[c].base]
        BY <1>4, <3>2 DEF Removed
      <3>4. QED
        BY <3>1, <3>2, <3>3 DEF OwnTree
    <2>2. ASSUME NEW k \in Tasks PROVE OwnTask(U, L, k)
      <3>1. OwnTask(T, K, k)
        BY DEF Owned, TreesIn
      <3>2. U[k].stage = "done" => U[k] = T[k] /\ L[T[k].tree] = K[T[k].tree]
        BY <1>2, <1>3, <1>4, <3>1 DEF Removed, OwnTask
      <3>3. QED
        BY <3>1, <3>2 DEF OwnTask
    <2>3. ASSUME NEW q \in Repositories, NEW v \in Versions PROVE OwnLower(S, L, q, v)
      <3>1. OwnLower(R, K, q, v)
        BY DEF Owned, TreesIn
      <3>2. S[q].lower[v] # None => S[q].lower[v] = R[q].lower[v] /\ q # r
        BY DEF Removed
      <3>3. S[q].lower[v] # None => L[R[q].lower[v]] = K[R[q].lower[v]]
        BY <1>4, <3>1, <3>2 DEF Removed, OwnLower
      <3>4. QED
        BY <3>1, <3>2, <3>3 DEF OwnLower
    <2>4. QED
      BY <2>1, <2>2, <2>3 DEF TreesIn
  <1>7. ASSUME NEW t \in Checkouts
        PROVE  OwnedOnceAt(S, U, C, t) /\ (L[t].stage = "live" => OwnedIn(S, U, C, t))
    <2>1. t # None /\ OwnedOnceAt(R, T, C, t)
      BY Bounds DEF Owned
    <2>2. \A k \in Tasks : PromisesIn(U, k, t) <=> PromisesIn(T, k, t) /\ T[k].repo # r
      BY <1>2, <1>3 DEF PromisesIn
    <2>3. \A q \in Repositories, v \in Versions : S[q].lower[v] = t <=> R[q].lower[v] = t /\ q # r
      BY <2>1 DEF Removed
    <2>4. OwnedOnceAt(S, U, C, t)
      BY <2>1, <2>2, <2>3 DEF OwnedOnceAt
    <2>5. ASSUME L[t].stage = "live" PROVE OwnedIn(S, U, C, t)
      <3>1. K[t].repo # r /\ OwnedIn(R, T, C, t)
        BY <1>5, <2>5 DEF Removed, Owned
      <3>2. \A k \in Tasks : PromisesIn(T, k, t) => T[k].repo # r
        BY <3>1 DEF Owned, TreesIn, OwnTask, PromisesIn
      <3>3. \A q \in Repositories, v \in Versions : R[q].lower[v] = t => q # r
        BY <2>1, <3>1 DEF Owned, TreesIn, OwnLower
      <3>4. QED
        BY <2>2, <2>3, <3>1, <3>2, <3>3 DEF OwnedIn
    <2>6. QED
      BY <2>4, <2>5
  <1>8. QED
    BY <1>6, <1>7 DEF Owned

\* The repository's tree is removed after its last checkout.
LEMMA RemoveStep ==
  ASSUME PoolInv, NEW r \in Repositories, Remove(r)
  PROVE  PoolInv'
  <1>1. /\ repository[r] \in RepositoryRecords /\ repository[r].stage = "draining" /\ Settled(repository[r].claim)
        /\ checkout \in [Checkouts -> CheckoutRecords]
        /\ source' = source /\ service' = service /\ registered' = registered /\ client' = client
    BY DEF Remove, PoolInv, PoolType
  <1>2. Inside(r) = {} /\ ~repository[r].quarantined /\ repository[r].slot = None
    BY <1>1 DEF PoolInv, RepositoriesTrue
  <1> DEFINE p == repository[r].claim
             none == [v \in Versions |-> None]
             y == [repository[r] EXCEPT !.stage = "removed", !.baseline = {}, !.claim = None, !.lower = none, !.timer = FALSE]
  <1>3. /\ repository' = [repository EXCEPT ![r] = y] /\ task' = Spent(task, p)
        /\ checkout' = [t \in Checkouts |-> IF checkout[t].repo = r THEN Gone ELSE checkout[t]]
    BY DEF Remove
  <1>4. none \in [Versions -> Checkouts \cup {None}] /\ \A v \in Versions : none[v] = None
    OBVIOUS
  <1> HIDE DEF none
  <1>5. /\ y \in RepositoryRecords /\ y.stage = "removed" /\ y.quarantined = repository[r].quarantined
        /\ y.slot = None /\ y.claim = None /\ y.lower = none /\ y.users = repository[r].users
        /\ y.active = repository[r].active
    BY <1>1, <1>2, <1>4 DEF RepositoryRecords, RepositoryStages
  <1>6. p \in Tasks \cup {None} /\ (p # None => task[p].stage # "waiting")
    BY <1>1 DEF RepositoryRecords, Settled
  <1>7. \A k \in Tasks : task[k].repo = r => task[k].stage # "waiting" /\ (task[k].stage = "done" => k = p)
    BY <1>1, NoneWaits
  <1>8. p # None => task[p].repo = r
    BY DEF PoolInv, Holding
  <1> HIDE DEF y, p
  <1>9. /\ repository' \in [Repositories -> RepositoryRecords]
        /\ repository'[r] = y /\ \A q \in Repositories \ {r} : repository'[q] = repository[q]
    BY <1>3, <1>5, OneChanges DEF PoolInv
  <1>10. checkout' \in [Checkouts -> CheckoutRecords]
    BY <1>1, <1>3, GoneHolds DEF GoneIs
  <1>11. Typed(repository', task', client') /\ Promised(repository', task', client')
    <2>1. Typed(repository, task, client) /\ Promised(repository, task, client)
      BY PromisedNow
    <2>2. \A k \in Tasks : task[k].stage = "waiting" => task[k].repo # r
      BY <1>7
    <2>3. p = repository[r].claim
      BY DEF p
    <2>4. Typed(repository', task', client) /\ Promised(repository', task', client)
      BY <1>2, <1>3, <1>5, <1>6, <2>1, <2>2, <2>3, RemovesClaim
    <2>5. QED
      BY <1>1, <2>4
  <1>12. PoolType'
    BY <1>1, <1>10, <1>11 DEF PoolInv, PoolType, Typed
  <1>13. Owned(repository', task', client', checkout')
    <2>1. Owned(repository, task, client, checkout) /\ Typed(repository, task, client) /\ Placed(repository, task, client)
      BY OwnedNow, PromisedNow, PlacedNow
    <2>2. Deserted(r, task, client, p)
      <3>1. \A c \in Clients : client[c].tree # None => client[c].repo # r
        <4> SUFFICES ASSUME NEW c \in Clients, client[c].tree # None, client[c].repo = r PROVE FALSE
          OBVIOUS
        <4>1. client[c].stage \in {"running", "dispose"}
          BY <1>2 DEF PoolInv, CallsTrue
        <4>2. c \in Inside(r)
          BY <4>1 DEF Inside, InStages
        <4>3. QED
          BY <1>2, <4>2
      <3>2. \A k \in Tasks : k # None
        BY Bounds
      <3>3. QED
        BY <1>7, <1>8, <3>1, <3>2 DEF Deserted
    <2>3. Removed(r, repository, repository', checkout, checkout')
      BY <1>3, <1>4, <1>5, <1>9 DEF Removed
    <2>4. Owned(repository', task', client, checkout')
      BY <1>3, <1>6, <2>1, <2>2, <2>3, RemovesTrees
    <2>5. QED
      BY <1>1, <2>4
  <1>14. SameInside /\ SameMounted
    BY <1>1 DEF SameInside, SameMounted, Inside, Mounted
  <1>15. Counted'
    BY <1>5, <1>9, <1>14, CountsStay DEF SameCounts
  <1>16. RepositoriesTrue'
    BY <1>2, <1>5, <1>9, <1>14 DEF PoolInv, RepositoriesTrue, SameInside
  <1>17. CallsTrue'
    <2>1. \A q \in Repositories : repository'[q].quarantined = repository[q].quarantined
      BY <1>5, <1>9
    <2>2. QED
      BY <1>1, <2>1 DEF PoolInv, CallsTrue, Exact
  <1>18. QED
    BY <1>11, <1>12, <1>13, <1>15, <1>16, <1>17, Assembled
-----------------------------------------------------------------------------
(* The pool's promises. *)

\* Nothing happens.
LEMMA ElsewhereStays ==
  ASSUME PoolInv, UNCHANGED workspaceVars
  PROVE  PoolInv'
  <1> USE DEF workspaceVars
  <1>1. PoolType' /\ Promised(repository', task', client') /\ Owned(repository', task', client', checkout')
    <2>1. Promised(repository, task, client) /\ Owned(repository, task, client, checkout)
      BY PromisedNow, OwnedNow
    <2>2. QED
      BY <2>1 DEF PoolInv, PoolType
  <1>2. SameInside /\ SameMounted
    BY DEF SameInside, SameMounted, Inside, Mounted
  <1>3. Counted'
    BY <1>2, CountsStay DEF SameCounts
  <1>4. RepositoriesTrue' /\ CallsTrue'
    BY <1>2 DEF PoolInv, RepositoriesTrue, CallsTrue, Exact, SameInside
  <1>5. QED
    BY <1>1, <1>3, <1>4, Assembled

\* Every step of the pool keeps its invariant.
LEMMA PoolSteps ==
  ASSUME PoolInv, [PoolNext]_workspaceVars
  PROVE  PoolInv'
  <1>1. ASSUME NEW c \in Clients, ClientStep(c) PROVE PoolInv'
    <2>1. CASE ReuseBaseline(c) \/ CaptureBaseline(c) \/ InstallBaseline(c) \/ RefusedByLock(c) \/ Warmed(c)
      BY <2>1, BaselineSteps
    <2>2. CASE Enter(c) \/ Warm(c) \/ ClaimCheckout(c) \/ TakeCheckout(c)
      BY <2>2, EnterStep, WarmStep, ClaimCheckoutStep, TakeCheckoutStep
    <2>3. CASE AcquireOverlay(c) \/ RunTask(c) \/ DisposeWorkspace(c) \/ DisposeOverlay(c)
      BY <2>3, AcquireOverlayStep, RunTaskStep, DisposeWorkspaceStep, DisposeOverlayStep
    <2>4. QED
      BY <1>1, <2>1, <2>2, <2>3 DEF ClientStep
  <1>2. CASE PoolStep
    BY <1>2, ElsewhereSteps, MadeStep, BeginCloseStep, CloseDrainedStep, RemoveStep DEF PoolStep
  <1>3. CASE Edit \/ (\E r \in Repositories : IdleTimer(r)) \/ (\E by \in {"world", "service"} : ClosePools(by))
    BY <1>3, ElsewhereSteps
  <1>4. ASSUME NEW c \in Clients, Call(c) \/ Quarantine(c) PROVE PoolInv'
    BY <1>4, CallStep, QuarantineStep
  <1>5. ASSUME NEW k \in Tasks, Prepare(k) PROVE PoolInv'
    BY <1>5, PrepareStep
  <1>6. CASE UNCHANGED workspaceVars
    BY <1>6, ElsewhereStays
  <1>7. QED
    BY <1>1, <1>2, <1>3, <1>4, <1>5, <1>6 DEF PoolNext

\* What is live is owned by one alone, and what is promised is held by one alone.
LEMMA OneOwner == PoolInv => CheckoutsOwnedOnce
  <1> SUFFICES ASSUME PoolInv PROVE CheckoutsOwnedOnce
    OBVIOUS
  <1>1. ASSUME NEW t \in Checkouts, checkout[t].stage = "live" PROVE Cardinality(Owners(t)) = 1
    <2>1. IsOwned(t)
      BY <1>1 DEF PoolInv, NoneLeaked
    <2>2. \E x : Owners(t) = {x}
      <3>1. CASE \E c \in Clients : Runs(c, t)
        <4>1. PICK c \in Clients : Runs(c, t)
          BY <3>1
        <4>2. Owners(t) = {<<"call", c>>}
          BY <4>1 DEF Owners, PoolInv, OwnedOnce, Runs, Promises
        <4>3. QED
          BY <4>2
      <3>2. CASE \E k \in Tasks : Promises(k, t)
        <4>1. PICK k \in Tasks : Promises(k, t)
          BY <3>2
        <4>2. Owners(t) = {<<"promise", k>>}
          BY <4>1 DEF Owners, PoolInv, OwnedOnce, Runs, Promises
        <4>3. QED
          BY <4>2
      <3>3. CASE \E r \in Repositories, v \in Versions : repository[r].lower[v] = t
        <4>1. PICK r \in Repositories, v \in Versions : repository[r].lower[v] = t
          BY <3>3
        <4>2. Owners(t) = {<<"lower", r>>}
          BY <4>1 DEF Owners, PoolInv, OwnedOnce, Runs, Promises
        <4>3. QED
          BY <4>2
      <3>4. QED
        BY <2>1, <3>1, <3>2, <3>3 DEF IsOwned
    <2>3. QED
      BY <2>2, FS_Singleton
  <1>2. ASSUME NEW k \in Tasks, task[k].stage = "done" PROVE Cardinality(Holders(k)) = 1
    <2>1. IsHeld(k)
      BY <1>2 DEF PoolInv, NoneForgotten
    <2>2. \E x : Holders(k) = {x}
      <3>1. CASE \E r \in Repositories : repository[r].slot = k
        <4>1. PICK r \in Repositories : repository[r].slot = k
          BY <3>1
        <4>2. Holders(k) = {<<"slot", r>>}
          BY <4>1 DEF Holders, PoolInv, HeldOnce, Takes
        <4>3. QED
          BY <4>2
      <3>2. CASE \E r \in Repositories : repository[r].claim = k
        <4>1. PICK r \in Repositories : repository[r].claim = k
          BY <3>2
        <4>2. Holders(k) = {<<"closer", r>>}
          BY <4>1 DEF Holders, PoolInv, HeldOnce, Takes
        <4>3. QED
          BY <4>2
      <3>3. CASE \E j \in Tasks : task[j].prev = k
        <4>1. PICK j \in Tasks : task[j].prev = k
          BY <3>3
        <4>2. Holders(k) = {<<"task", j>>}
          BY <4>1 DEF Holders, PoolInv, HeldOnce, Takes
        <4>3. QED
          BY <4>2
      <3>4. CASE \E c \in Clients : Takes(c, k)
        <4>1. PICK c \in Clients : Takes(c, k)
          BY <3>4
        <4>2. Holders(k) = {<<"call", c>>}
          BY <4>1 DEF Holders, PoolInv, HeldOnce, Takes
        <4>3. QED
          BY <4>2
      <3>5. QED
        BY <2>1, <3>1, <3>2, <3>3, <3>4 DEF IsHeld
    <2>3. QED
      BY <2>2, FS_Singleton
  <1>3. QED
    BY <1>1, <1>2 DEF CheckoutsOwnedOnce

\* What a running call works in, and what a preparation is for, is still there.
LEMMA PromisesKept == PoolInv => StartsFromBaseline /\ InUseStays
  <1> SUFFICES ASSUME PoolInv PROVE StartsFromBaseline /\ InUseStays
    OBVIOUS
  <1>1. StartsFromBaseline
    BY DEF PoolInv, CallsTrue, CallTrees, StartsFromBaseline
  <1>2. InUseStays
    BY DEF PoolInv, CallsTrue, CallTrees, TasksTrue, InUseStays
  <1>3. QED
    BY <1>1, <1>2

\* The invariant of the pool holds of every behaviour of WorkspaceSandboxService.
THEOREM PoolInvariance == PoolSpec => []PoolInv
  <1>1. PoolInit => PoolInv
    BY PoolStart
  <1>2. PoolInv /\ [PoolNext]_workspaceVars => PoolInv'
    BY PoolSteps
  <1>3. QED
    BY <1>1, <1>2, PTL DEF PoolSpec

\* A live checkout has one owner and a kept promise one holder (takePreparedSandbox); a call starts from
\* the snapshot it captured (acquireSandboxBaseline), and closeSandboxRepository takes nothing that is in use.
THEOREM PoolIsSafe == PoolSpec => []PoolSafe
  <1>1. PoolInv => PoolSafe
    BY OneOwner, PromisesKept DEF PoolSafe
  <1>2. QED
    BY <1>1, PoolInvariance, PTL
-----------------------------------------------------------------------------
(* Held launches. *)

Peers == {"unborn", "asking", "staged", "armed", "adopted", "native", "exited", "killed"}
Handlers ==
  {"idle", "deciding", "watching", "staging", "validating", "granted", "committing", "completing", "closed"}
Wires ==
  [down : {"none", "C", "P", "O", "F", "G", "R"}, up : {"none", "request", "N", "S", "A", "C", "D"}, open : BOOLEAN]

HeldType ==
  /\ observed \in {"executing", "closed", "returned", "failed"}
  /\ retired \in BOOLEAN /\ failure \in BOOLEAN
  /\ tracer \in [state : {"tracing", "released", "dead"}, root : BOOLEAN]
  /\ peer \in [Processes -> Peers] /\ serve \in [Processes -> Handlers]
  /\ wire \in [Processes -> Wires]
  /\ claim \in [Processes -> {"none", "held", "returned", "consumed"}]
  /\ effect \subseteq Processes /\ ran \subseteq Processes

\* The exit stub has taken the place of the image, for good.
TookOver(p) == peer[p] \in {"armed", "adopted", "killed"} /\ p \notin ran

\* What a line under way says: the grant is read only of the handler that gave it, an
\* acknowledgement only of an armed peer, a refusal to stage only of an image that runs.
LinesTrue ==
  \A p \in Processes :
    /\ wire[p].down = "G" => serve[p] = "granted"
    /\ wire[p].down = "F" => failure
    /\ wire[p].up = "A" => TookOver(p) /\ wire[p].down = "none"
    /\ wire[p].up = "N" => p \in ran
    /\ wire[p].up = "D" => peer[p] \in {"adopted", "exited"}

\* A peer that has armed its stub had a grant, which spends the reservation or poisons the call.
PeersTrue ==
  \A p \in Processes :
    /\ p \in ran => peer[p] \in {"native", "exited", "killed"}
    /\ peer[p] \in {"armed", "adopted"} => Prepared(p) \/ claim[p] = "consumed"
    /\ peer[p] = "armed" => Prepared(p) \/ failure

\* The handler has the reservation from the replay's decision to its end, and commits only
\* what a peer took over.
HandlersTrue ==
  \A p \in Processes :
    /\ claim[p] = "held" <=> serve[p] = "staging" \/ serve[p] = "validating" \/ Prepared(p)
    /\ claim[p] \in {"returned", "consumed"} => serve[p] = "closed"
    /\ serve[p] \in {"committing", "completing"} => TookOver(p)
    /\ p \in effect => TookOver(p) /\ (serve[p] = "completing" \/ claim[p] = "consumed")

\* A tree that was killed has poisoned the call, or is about to: the handler of the replay
\* that failed can only fail.
TreeTrue ==
  /\ tracer.state # "tracing" => Jobs = {}
  /\ \A p \in Processes : peer[p] = "killed" => tracer.state = "dead"
  /\ tracer.state = "dead" => failure \/ \E p \in Processes : Prepared(p) /\ peer[p] = "killed"

ReturnTrue ==
  observed = "returned" => ~failure /\ tracer.state = "released" /\ Pending = {}

Inv == HeldType /\ LinesTrue /\ PeersTrue /\ HandlersTrue /\ TreeTrue /\ ReturnTrue
-----------------------------------------------------------------------------
LEMMA HeldStart == HeldInit => Inv
  <1> SUFFICES ASSUME HeldInit PROVE Inv
    OBVIOUS
  <1>1. Quiet \in Wires
    BY DEF Quiet, Wires
  <1>2. HeldType
    BY <1>1 DEF HeldInit, HeldType, Peers, Handlers
  <1>3. QED
    BY <1>2 DEF HeldInit, Quiet, Inv, TookOver, LinesTrue, PeersTrue, HandlersTrue, TreeTrue, ReturnTrue,
         Prepared, Pending, Jobs

(* What becomes of a wire. *)

LEMMA Replies ==
  ASSUME HeldType, NEW p \in Processes, NEW line \in {"C", "P", "O", "F", "G", "R"}, Reply(p, line)
  PROVE  /\ wire' \in [Processes -> Wires]
         /\ \A q \in Processes : q # p => wire'[q] = wire[q]
         /\ wire'[p].up = "none" /\ wire'[p].down \in {line, "none"}
  <1>1. wire[p] \in Wires
    BY DEF HeldType
  <1> DEFINE w == [wire[p] EXCEPT !.up = "none", !.down = IF wire[p].open THEN line ELSE "none"]
  <1>2. w \in Wires /\ w.up = "none" /\ w.down \in {line, "none"}
    BY <1>1 DEF Wires
  <1>3. wire' = [wire EXCEPT ![p] = w]
    BY DEF Reply
  <1> HIDE DEF w
  <1>4. QED
    BY <1>2, <1>3 DEF HeldType

LEMMA Answers ==
  ASSUME HeldType, NEW p \in Processes, NEW line \in {"N", "S", "A", "D"}, Sends(p, line)
  PROVE  /\ wire' \in [Processes -> Wires]
         /\ \A q \in Processes : q # p => wire'[q] = wire[q]
         /\ wire'[p].down = "none" /\ wire'[p].up \in {line, "none"}
  <1>1. wire[p] \in Wires
    BY DEF HeldType
  <1> DEFINE w == [wire[p] EXCEPT !.down = "none", !.up = IF wire[p].open THEN line ELSE "none"]
  <1>2. w \in Wires /\ w.down = "none" /\ w.up \in {line, "none"}
    BY <1>1 DEF Wires
  <1>3. wire' = [wire EXCEPT ![p] = w]
    BY DEF Sends
  <1> HIDE DEF w
  <1>4. QED
    BY <1>2, <1>3 DEF HeldType

LEMMA Reads ==
  ASSUME HeldType, NEW p \in Processes,
         \/ wire' = [wire EXCEPT ![p].up = "none"]
         \/ wire' = [wire EXCEPT ![p].up = "none", ![p].open = FALSE]
  PROVE  /\ wire' \in [Processes -> Wires]
         /\ \A q \in Processes : q # p => wire'[q] = wire[q]
         /\ wire'[p].up = "none" /\ wire'[p].down = wire[p].down
  BY DEF HeldType, Wires

LEMMA Retires ==
  ASSUME HeldType, Retire
  PROVE  /\ wire' \in [Processes -> Wires]
         /\ \A q \in Processes : /\ wire'[q].up \in {wire[q].up, "none"}
                                 /\ wire'[q].down \in {wire[q].down, "none"}
         /\ retired' = TRUE
  <1>1. \A q \in Processes : wire[q] \in Wires
    BY DEF HeldType
  <1>2. ASSUME NEW q \in Processes, NEW w \in Destroyed(q)
        PROVE  w \in Wires /\ w.up \in {wire[q].up, "none"} /\ w.down \in {wire[q].down, "none"}
    <2>1. wire[q] \in Wires
      BY <1>1
    <2>2. CASE w = wire[q]
      BY <2>1, <2>2
    <2>3. CASE w # wire[q]
      <3>1. PICK d \in {wire[q].down, "none"} : w = [down |-> d, up |-> "none", open |-> FALSE]
        BY <1>2, <2>3 DEF Destroyed
      <3>2. QED
        BY <2>1, <3>1 DEF Wires
    <2>4. QED
      BY <2>2, <2>3
  <1>3. wire' \in [Processes -> UNION {Destroyed(p) : p \in Processes}] /\ \A q \in Processes : wire'[q] \in Destroyed(q)
    BY DEF Retire
  <1>4. QED
    BY <1>2, <1>3 DEF Retire

LEMMA HeldStep == Inv /\ [HeldNext]_heldVars => Inv'
  <1> SUFFICES ASSUME Inv, [HeldNext]_heldVars PROVE Inv'
    OBVIOUS
  <1>1. ASSUME NEW p \in Processes, Exec(p) PROVE Inv'
    <2>1. /\ wire' \in [Processes -> Wires]
          /\ \A q \in Processes : q # p => wire'[q] = wire[q]
          /\ wire'[p] = wire[p] \/ (wire'[p].down = "none" /\ wire'[p].up = "request")
      <3>1. [down |-> "none", up |-> "request", open |-> TRUE] \in Wires
        BY DEF Wires
      <3>2. CASE wire' = [wire EXCEPT ![p] = [down |-> "none", up |-> "request", open |-> TRUE]]
        BY <3>1, <3>2 DEF Inv, HeldType
      <3>3. CASE UNCHANGED wire
        BY <3>3 DEF Inv, HeldType
      <3>4. QED
        BY <1>1, <3>2, <3>3 DEF Exec
    <2>2. HeldType'
      BY <1>1, <2>1 DEF Exec, Inv, HeldType, Peers, Handlers
    <2>3. LinesTrue'
      BY <1>1, <2>1 DEF Exec, Inv, HeldType, LinesTrue, TookOver, PeersTrue
    <2>4. PeersTrue'
      BY <1>1, <2>1 DEF Exec, Inv, HeldType, PeersTrue, LinesTrue, HandlersTrue, TookOver, Prepared
    <2>5. HandlersTrue'
      BY <1>1, <2>1 DEF Exec, Inv, HeldType, PeersTrue, LinesTrue, HandlersTrue, TookOver, Prepared
    <2>6. TreeTrue'
      BY <1>1, <2>1 DEF Exec, Inv, HeldType, TreeTrue, Jobs, Prepared
    <2>7. ReturnTrue'
      BY <1>1, <2>1 DEF Exec, Inv, HeldType, ReturnTrue, TreeTrue, Pending, Jobs
    <2>8. QED
      BY <2>2, <2>3, <2>4, <2>5, <2>6, <2>7 DEF Inv
  <1>2. ASSUME NEW p \in Processes, Declined(p) PROVE Inv'
    <2>1. /\ wire' \in [Processes -> Wires]
          /\ \A q \in Processes : q # p => wire'[q] = wire[q]
          /\ wire'[p].down = "none" /\ wire'[p].up \in {"none", "N"}
      <3>1. Quiet \in Wires /\ Quiet.down = "none" /\ Quiet.up = "none"
        BY DEF Quiet, Wires
      <3>2. CASE wire' = [wire EXCEPT ![p] = Quiet]
        BY <3>1, <3>2 DEF Inv, HeldType
      <3>3. CASE Sends(p, "N")
        BY <3>3, Answers DEF Inv
      <3>4. QED
        BY <1>2, <3>2, <3>3 DEF Declined
    <2>2. HeldType'
      BY <1>2, <2>1 DEF Declined, Receives, Hangup, Continue, Inv, HeldType, Peers, Handlers
    <2>3. LinesTrue'
      BY <1>2, <2>1 DEF Declined, Receives, Hangup, Continue, Inv, HeldType, LinesTrue, TookOver, PeersTrue
    <2>4. PeersTrue'
      BY <1>2, <2>1 DEF Declined, Receives, Hangup, Continue, Inv, HeldType, PeersTrue, LinesTrue,
           HandlersTrue, TookOver, Prepared
    <2>5. HandlersTrue'
      BY <1>2, <2>1 DEF Declined, Receives, Hangup, Continue, Inv, HeldType, PeersTrue, LinesTrue,
           HandlersTrue, TookOver, Prepared
    <2>6. TreeTrue'
      BY <1>2, <2>1 DEF Declined, Receives, Hangup, Continue, Inv, HeldType, TreeTrue, Jobs, Prepared
    <2>7. ReturnTrue'
      BY <1>2, <2>1 DEF Declined, Receives, Hangup, Continue, Inv, HeldType, ReturnTrue, TreeTrue, Pending, Jobs
    <2>8. QED
      BY <2>2, <2>3, <2>4, <2>5, <2>6, <2>7 DEF Inv
  <1>3. ASSUME NEW p \in Processes, Watched(p) PROVE Inv'
    BY <1>3 DEF Watched, Receives, Continue, Inv, HeldType, Peers, Handlers, Wires, TookOver, LinesTrue,
         PeersTrue, HandlersTrue, TreeTrue, ReturnTrue, Prepared, Pending, Jobs
  <1>4. ASSUME NEW p \in Processes, Refused(p) PROVE Inv'
    BY <1>4 DEF Refused, Receives, Fatal, Inv, HeldType, Peers, Handlers, Wires, TookOver, LinesTrue,
         PeersTrue, HandlersTrue, TreeTrue, ReturnTrue, Prepared, Pending, Jobs
  <1>5. ASSUME NEW p \in Processes, Stage(p) PROVE Inv'
    BY <1>5, Answers DEF Stage, Receives, Inv, HeldType, Peers, Handlers, Wires, TookOver, LinesTrue,
         PeersTrue, HandlersTrue, TreeTrue, ReturnTrue, Prepared, Pending, Jobs
  <1>6. ASSUME NEW p \in Processes, Unstage(p) PROVE Inv'
    BY <1>6 DEF Unstage, Receives, Hangup, Continue, Quiet, Inv, HeldType, Peers, Handlers, Wires, TookOver,
         LinesTrue, PeersTrue, HandlersTrue, TreeTrue, ReturnTrue, Prepared, Pending, Jobs
  <1>7. ASSUME NEW p \in Processes, Arm(p) PROVE Inv'
    BY <1>7, Answers DEF Arm, Receives, Inv, HeldType, Peers, Handlers, Wires, TookOver, LinesTrue, PeersTrue,
         HandlersTrue, TreeTrue, ReturnTrue, Prepared, Pending, Jobs
  <1>8. ASSUME NEW p \in Processes, ArmFails(p) PROVE Inv'
    BY <1>8 DEF ArmFails, Receives, Fatal, Inv, HeldType, Peers, Handlers, Wires, TookOver, LinesTrue,
         PeersTrue, HandlersTrue, TreeTrue, ReturnTrue, Prepared, Pending, Jobs
  <1>9. ASSUME NEW p \in Processes, Complete(p) PROVE Inv'
    BY <1>9, Answers DEF Complete, Receives, Inv, HeldType, Peers, Handlers, Wires, TookOver, LinesTrue,
         PeersTrue, HandlersTrue, TreeTrue, ReturnTrue, Prepared, Pending, Jobs
  <1>10. ASSUME NEW p \in Processes, CompleteFails(p) PROVE Inv'
    BY <1>10 DEF CompleteFails, Receives, Hangup, Fatal, Inv, HeldType, Peers, Handlers, Wires, TookOver,
         LinesTrue, PeersTrue, HandlersTrue, TreeTrue, ReturnTrue, Prepared, Pending, Jobs
  <1>11. ASSUME NEW p \in Processes, Exit(p) PROVE Inv'
    BY <1>11 DEF Exit, Inv, HeldType, Peers, Handlers, Wires, TookOver, LinesTrue, PeersTrue, HandlersTrue,
         TreeTrue, ReturnTrue, Prepared, Pending, Jobs
  <1>12. ASSUME RootExit PROVE Inv'
    <2>1. tracer' \in [state : {"tracing", "released", "dead"}, root : BOOLEAN] /\ tracer'.state = tracer.state
      BY <1>12 DEF RootExit, Inv, HeldType
    <2>2. QED
      BY <1>12, <2>1 DEF RootExit, Inv, HeldType, Peers, Handlers, TookOver, LinesTrue, PeersTrue,
           HandlersTrue, TreeTrue, ReturnTrue, Prepared, Pending, Jobs
  <1>13. ASSUME ReleaseTree PROVE Inv'
    BY <1>13 DEF ReleaseTree, Inv, HeldType, Peers, Handlers, Wires, TookOver, LinesTrue, PeersTrue,
         HandlersTrue, TreeTrue, ReturnTrue, Prepared, Pending, Jobs
  <1>14. ASSUME NEW p \in Processes, Serve(p) PROVE Inv'
    <2>1. /\ wire' \in [Processes -> Wires]
          /\ \A q \in Processes : q # p => wire'[q] = wire[q]
          /\ wire'[p].down \in {"C", wire[p].down, "none"} /\ wire'[p].up = "none"
      BY <1>14, Replies, Reads DEF Serve, Inv
    <2>2. HeldType'
      BY <1>14, <2>1 DEF Serve, Goes, Inv, HeldType, Peers, Handlers
    <2>3. LinesTrue'
      BY <1>14, <2>1 DEF Serve, Goes, Inv, HeldType, LinesTrue, TookOver, PeersTrue
    <2>4. PeersTrue'
      BY <1>14, <2>1 DEF Serve, Goes, Inv, HeldType, PeersTrue, LinesTrue, HandlersTrue, TookOver, Prepared
    <2>5. HandlersTrue'
      BY <1>14, <2>1 DEF Serve, Goes, Inv, HeldType, PeersTrue, LinesTrue, HandlersTrue, TookOver, Prepared
    <2>6. TreeTrue'
      BY <1>14, <2>1 DEF Serve, Goes, Inv, HeldType, TreeTrue, Jobs, Prepared
    <2>7. ReturnTrue'
      BY <1>14, <2>1 DEF Serve, Known, Goes, Inv, HeldType, ReturnTrue, TreeTrue, Pending, Jobs
    <2>8. QED
      BY <2>2, <2>3, <2>4, <2>5, <2>6, <2>7 DEF Inv
  <1>15. ASSUME NEW p \in Processes, Decide(p) PROVE Inv'
    <2>1. /\ wire' \in [Processes -> Wires]
          /\ \A q \in Processes : q # p => wire'[q] = wire[q]
          /\ wire'[p].down \in {"C", "O", "P", "none"} /\ wire'[p].up = "none"
      BY <1>15, Replies DEF Decide, Inv
    <2>2. HeldType'
      BY <1>15, <2>1 DEF Decide, Goes, Inv, HeldType, Peers, Handlers
    <2>3. LinesTrue'
      BY <1>15, <2>1 DEF Decide, Goes, Inv, HeldType, LinesTrue, TookOver, PeersTrue
    <2>4. PeersTrue'
      BY <1>15, <2>1 DEF Decide, Goes, Inv, HeldType, PeersTrue, LinesTrue, HandlersTrue, TookOver, Prepared
    <2>5. HandlersTrue'
      BY <1>15, <2>1 DEF Decide, Goes, Inv, HeldType, PeersTrue, LinesTrue, HandlersTrue, TookOver, Prepared
    <2>6. TreeTrue'
      BY <1>15, <2>1 DEF Decide, Goes, Inv, HeldType, TreeTrue, Jobs, Prepared
    <2>7. ReturnTrue'
      BY <1>15, <2>1 DEF Decide, Goes, Inv, HeldType, ReturnTrue, TreeTrue, Pending, Jobs
    <2>8. QED
      BY <2>2, <2>3, <2>4, <2>5, <2>6, <2>7 DEF Inv
  <1>16. ASSUME NEW p \in Processes, Staged(p) PROVE Inv'
    BY <1>16 DEF Staged, Goes, Inv, HeldType, Peers, Handlers, Wires, TookOver, LinesTrue, PeersTrue,
         HandlersTrue, TreeTrue, ReturnTrue, Prepared, Pending, Jobs
  <1>17. ASSUME NEW p \in Processes, NotStaged(p) PROVE Inv'
    BY <1>17 DEF NotStaged, Goes, Settles, Quiet, Inv, HeldType, Peers, Handlers, Wires, TookOver, LinesTrue,
         PeersTrue, HandlersTrue, TreeTrue, ReturnTrue, Prepared, Pending, Jobs
  <1>18. ASSUME NEW p \in Processes, Validate(p) PROVE Inv'
    <2>1. /\ wire' \in [Processes -> Wires]
          /\ \A q \in Processes : q # p => wire'[q] = wire[q]
          /\ wire'[p].down \in {"C", "G", "none"} /\ wire'[p].up = "none"
      <3>1. CASE Reply(p, "G")
        BY <3>1, Replies DEF Inv
      <3>2. CASE Reply(p, "C")
        BY <3>2, Replies DEF Inv
      <3>3. QED
        BY <1>18, <3>1, <3>2 DEF Validate
    <2>0. wire'[p].down = "G" => serve' = [serve EXCEPT ![p] = "granted"]
      BY <1>18, Replies DEF Validate, Goes, Inv
    <2>2. HeldType'
      BY <1>18, <2>1, <2>0 DEF Validate, Goes, Settles, Inv, HeldType, Peers, Handlers
    <2>3. LinesTrue'
      BY <1>18, <2>1, <2>0 DEF Validate, Goes, Settles, Inv, HeldType, LinesTrue, TookOver, PeersTrue
    <2>4. PeersTrue'
      BY <1>18, <2>1, <2>0 DEF Validate, Goes, Settles, Inv, HeldType, PeersTrue, LinesTrue, HandlersTrue,
           TookOver, Prepared
    <2>5. HandlersTrue'
      BY <1>18, <2>1, <2>0 DEF Validate, Goes, Settles, Inv, HeldType, PeersTrue, LinesTrue, HandlersTrue,
           TookOver, Prepared
    <2>6. TreeTrue'
      BY <1>18, <2>1, <2>0 DEF Validate, Goes, Settles, Inv, HeldType, TreeTrue, Jobs, Prepared
    <2>7. ReturnTrue'
      BY <1>18, <2>1, <2>0 DEF Validate, Goes, Settles, Inv, HeldType, ReturnTrue, TreeTrue, Pending, Jobs
    <2>8. QED
      BY <2>2, <2>3, <2>4, <2>5, <2>6, <2>7 DEF Inv
  <1>19. ASSUME NEW p \in Processes, Acknowledged(p) PROVE Inv'
    <2>1. /\ wire' \in [Processes -> Wires]
          /\ \A q \in Processes : q # p => wire'[q] = wire[q]
          /\ wire'[p].down = wire[p].down /\ wire'[p].up = "none"
      BY <1>19, Reads DEF Acknowledged, Inv
    <2>2. HeldType'
      BY <1>19, <2>1 DEF Acknowledged, Goes, Inv, HeldType, Peers, Handlers
    <2>3. LinesTrue'
      BY <1>19, <2>1 DEF Acknowledged, Goes, Inv, HeldType, LinesTrue, TookOver, PeersTrue
    <2>4. PeersTrue'
      BY <1>19, <2>1 DEF Acknowledged, Goes, Inv, HeldType, PeersTrue, LinesTrue, HandlersTrue, TookOver, Prepared
    <2>5. HandlersTrue'
      BY <1>19, <2>1 DEF Acknowledged, Goes, Inv, HeldType, PeersTrue, LinesTrue, HandlersTrue, TookOver, Prepared
    <2>6. TreeTrue'
      BY <1>19, <2>1 DEF Acknowledged, Goes, Inv, HeldType, TreeTrue, Jobs, Prepared
    <2>7. ReturnTrue'
      BY <1>19, <2>1 DEF Acknowledged, Goes, Inv, HeldType, ReturnTrue, TreeTrue, Pending, Jobs
    <2>8. QED
      BY <2>2, <2>3, <2>4, <2>5, <2>6, <2>7 DEF Inv
  <1>20. ASSUME NEW p \in Processes, Commit(p) PROVE Inv'
    BY <1>20, Replies DEF Commit, Goes, Inv, HeldType, Peers, Handlers, Wires, TookOver, LinesTrue, PeersTrue,
         HandlersTrue, TreeTrue, ReturnTrue, Prepared, Pending, Jobs
  <1>21. ASSUME NEW p \in Processes, Adopted(p) PROVE Inv'
    BY <1>21 DEF Adopted, Goes, Settles, Quiet, Inv, HeldType, Peers, Handlers, Wires, TookOver, LinesTrue,
         PeersTrue, HandlersTrue, TreeTrue, ReturnTrue, Prepared, Pending, Jobs
  <1>22. ASSUME NEW p \in Processes, Unwatch(p) PROVE Inv'
    <2>1. /\ wire' \in [Processes -> Wires]
          /\ \A q \in Processes : q # p => wire'[q] = wire[q]
          /\ wire'[p].down = wire[p].down /\ wire'[p].up = "none"
      BY <1>22, Reads DEF Unwatch, Inv
    <2>2. HeldType'
      BY <1>22, <2>1 DEF Unwatch, Goes, Inv, HeldType, Peers, Handlers
    <2>3. LinesTrue'
      BY <1>22, <2>1 DEF Unwatch, Goes, Inv, HeldType, LinesTrue, TookOver, PeersTrue
    <2>4. PeersTrue'
      BY <1>22, <2>1 DEF Unwatch, Goes, Inv, HeldType, PeersTrue, LinesTrue, HandlersTrue, TookOver, Prepared
    <2>5. HandlersTrue'
      BY <1>22, <2>1 DEF Unwatch, Goes, Inv, HeldType, PeersTrue, LinesTrue, HandlersTrue, TookOver, Prepared
    <2>6. TreeTrue'
      BY <1>22, <2>1 DEF Unwatch, Goes, Inv, HeldType, TreeTrue, Jobs, Prepared
    <2>7. ReturnTrue'
      BY <1>22, <2>1 DEF Unwatch, Goes, Inv, HeldType, ReturnTrue, TreeTrue, Pending, Jobs
    <2>8. QED
      BY <2>2, <2>3, <2>4, <2>5, <2>6, <2>7 DEF Inv
  <1>23. ASSUME NEW p \in Processes, Fail(p) PROVE Inv'
    <2>1. /\ wire' \in [Processes -> Wires]
          /\ \A q \in Processes : q # p => wire'[q] = wire[q]
          /\ wire'[p].down \in {"C", "F", "none"} /\ (wire'[p].down = "F" => failure') /\ wire'[p].up = "none"
      BY <1>23, Replies DEF Fail, Inv
    <2>2. HeldType'
      BY <1>23, <2>1 DEF Fail, Goes, Settles, Poisons, Inv, HeldType, Peers, Handlers
    <2>3. LinesTrue'
      BY <1>23, <2>1 DEF Fail, Goes, Settles, Poisons, Inv, HeldType, LinesTrue, TookOver, PeersTrue
    <2>4. PeersTrue'
      <3>1. claim'[p] = IF claim[p] # "held" THEN claim[p] ELSE IF Prepared(p) THEN "consumed" ELSE "returned"
        BY <1>23 DEF Fail, Settles, Inv, HeldType
      <3>2. \A q \in Processes : q # p => serve'[q] = serve[q] /\ claim'[q] = claim[q]
        BY <1>23 DEF Fail, Goes, Settles, Inv, HeldType
      <3>3. UNCHANGED <<peer, ran>> /\ failure' = (failure \/ Prepared(p))
        BY <1>23 DEF Fail, Poisons
      <3>4. Prepared(p) => claim[p] = "held"
        BY DEF Inv, HandlersTrue
      <3>5. QED
        BY <3>1, <3>2, <3>3, <3>4 DEF Inv, PeersTrue, Prepared
    <2>5. HandlersTrue'
      BY <1>23, <2>1 DEF Fail, Goes, Settles, Poisons, Inv, HeldType, PeersTrue, LinesTrue, HandlersTrue,
           TookOver, Prepared
    <2>6. TreeTrue'
      BY <1>23, <2>1 DEF Fail, Goes, Settles, Poisons, Inv, HeldType, TreeTrue, Jobs, Prepared
    <2>7. ReturnTrue'
      BY <1>23, <2>1 DEF Fail, Goes, Settles, Poisons, Inv, HeldType, ReturnTrue, TreeTrue, Pending, Jobs
    <2>8. QED
      BY <2>2, <2>3, <2>4, <2>5, <2>6, <2>7 DEF Inv
  <1>24. ASSUME Abort PROVE Inv'
    <2>1. /\ wire' \in [Processes -> Wires]
          /\ \A q \in Processes : wire'[q].up \in {wire[q].up, "none"} /\ wire'[q].down \in {wire[q].down, "none"}
          /\ retired' \in BOOLEAN
      BY <1>24, Retires DEF Abort, Inv
    <2>2. HeldType'
      BY <1>24, <2>1 DEF Abort, Inv, HeldType, Peers, Handlers
    <2>3. LinesTrue'
      BY <1>24, <2>1 DEF Abort, Inv, HeldType, LinesTrue, TookOver, PeersTrue
    <2>4. PeersTrue'
      BY <1>24, <2>1 DEF Abort, Inv, HeldType, PeersTrue, LinesTrue, HandlersTrue, TookOver, Prepared
    <2>5. HandlersTrue'
      BY <1>24, <2>1 DEF Abort, Inv, HeldType, PeersTrue, LinesTrue, HandlersTrue, TookOver, Prepared
    <2>6. TreeTrue'
      BY <1>24, <2>1 DEF Abort, Inv, HeldType, TreeTrue, Jobs, Prepared
    <2>7. ReturnTrue'
      BY <1>24, <2>1 DEF Abort, Inv, HeldType, ReturnTrue, TreeTrue, Pending, Jobs
    <2>8. QED
      BY <2>2, <2>3, <2>4, <2>5, <2>6, <2>7 DEF Inv
  <1>25. ASSUME CloseCall PROVE Inv'
    <2>1. /\ wire' \in [Processes -> Wires]
          /\ \A q \in Processes : wire'[q].up \in {wire[q].up, "none"} /\ wire'[q].down \in {wire[q].down, "none"}
          /\ retired' \in BOOLEAN
      BY <1>25, Retires DEF CloseCall, Inv, HeldType
    <2>2. HeldType'
      BY <1>25, <2>1 DEF CloseCall, Inv, HeldType, Peers, Handlers
    <2>3. LinesTrue'
      BY <1>25, <2>1 DEF CloseCall, Inv, HeldType, LinesTrue, TookOver, PeersTrue
    <2>4. PeersTrue'
      BY <1>25, <2>1 DEF CloseCall, Inv, HeldType, PeersTrue, LinesTrue, HandlersTrue, TookOver, Prepared
    <2>5. HandlersTrue'
      BY <1>25, <2>1 DEF CloseCall, Inv, HeldType, PeersTrue, LinesTrue, HandlersTrue, TookOver, Prepared
    <2>6. TreeTrue'
      BY <1>25, <2>1 DEF CloseCall, Inv, HeldType, TreeTrue, Jobs, Prepared
    <2>7. ReturnTrue'
      BY <1>25, <2>1 DEF CloseCall, Inv, HeldType, ReturnTrue, TreeTrue, Pending, Jobs
    <2>8. QED
      BY <2>2, <2>3, <2>4, <2>5, <2>6, <2>7 DEF Inv
  <1>26. ASSUME Return PROVE Inv'
    BY <1>26 DEF Return, Inv, HeldType, Peers, Handlers, Wires, TookOver, LinesTrue, PeersTrue, HandlersTrue,
         TreeTrue, ReturnTrue, Prepared, Pending, Jobs
  <1>27. CASE UNCHANGED heldVars
    BY <1>27 DEF heldVars, Inv, HeldType, Peers, Handlers, Wires, TookOver, LinesTrue, PeersTrue,
         HandlersTrue, TreeTrue, ReturnTrue, Prepared, Pending, Jobs
  <1>28. QED
    BY <1>1, <1>2, <1>3, <1>4, <1>5, <1>6, <1>7, <1>8, <1>9, <1>10, <1>11, <1>12, <1>13, <1>14, <1>15, <1>16,
         <1>17, <1>18, <1>19, <1>20, <1>21, <1>22, <1>23, <1>24, <1>25, <1>26, <1>27 DEF HeldNext, PeerStep,
         ServeStep

\* Where the handler, its peer and the two lines between them can stand (serve() in
\* linux-held-exec.ts, the job in linux-held-exec.c).
THEOREM HeldInvariance == HeldSpec => []Inv
  BY HeldStart, HeldStep, PTL DEF HeldSpec

\* A launch happens once: either its image runs or the boundary commits what a replay stands
\* for; a reservation goes back unused only, and an observed call returns owning no half of a
\* handoff (LinuxHeldExecBoundary.serve and observe, the jobs of linux-held-exec.c).
THEOREM HeldIsSafe == HeldSpec => []HeldSafe
  <1>1. Inv => RunsOnce
    BY DEF Inv, HeldType, HandlersTrue, TookOver, RunsOnce
  <1>2. Inv => ReturnedUnused
    BY DEF Inv, HeldType, PeersTrue, HandlersTrue, Prepared, ReturnedUnused
  <1>3. Inv => ReturnsWhole
    BY DEF Inv, HeldType, HandlersTrue, TookOver, TreeTrue, ReturnTrue, Jobs, ReturnsWhole
  <1>4. QED
    BY <1>1, <1>2, <1>3, HeldInvariance, PTL DEF HeldSafe
=============================================================================
