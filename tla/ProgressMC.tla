------------------------------ MODULE ProgressMC ------------------------------
(*****************************************************************************)
(* The parts that promise to come to an end: the lifecycle lane, the pool of *)
(* workspaces, the held launches of an observed child, the pattern-aware     *)
(* source and its file.  A behaviour is about one of them (`part`).          *)
(*****************************************************************************)
EXTENDS LifecycleLane, WorkspacePool, HeldExec, PatternPersistence

CONSTANTS b1, p1, o1, r1, r2, d1, d2, e1, e2, e3, x, y

VARIABLE part  \* the part this behaviour is about

suiteVars == <<part, vars, workspaceVars, heldVars, sourceVars, persistVars>>

\* The others keep the state they start in.
SuiteInit ==
  /\ part \in {"lane", "pool", "held", "source", "file"}
  /\ Init /\ PoolInit /\ HeldInit /\ PatternSourceInit /\ PersistInit
  /\ part # "held" => barrier = "none"

OfLane(A) == part = "lane" /\ A /\ UNCHANGED <<part, workspaceVars, heldVars, sourceVars, persistVars>>
OfPool(A) == part = "pool" /\ A /\ UNCHANGED <<part, vars, heldVars, sourceVars, persistVars>>
OfHeld(A) == part = "held" /\ A /\ UNCHANGED <<part, vars, workspaceVars, sourceVars, persistVars>>
OfSource(A) == part = "source" /\ A /\ UNCHANGED <<part, vars, workspaceVars, heldVars, persistVars>>
OfFile(A) == part = "file" /\ A /\ UNCHANGED <<part, vars, workspaceVars, heldVars, sourceVars>>

SuiteNext == OfLane(Next) \/ OfPool(PoolNext) \/ OfHeld(HeldNext) \/ OfSource(PatternSourceNext) \/ OfFile(PersistNext)

\* What the event loop, the disk and the other processes keep doing.
SuiteRuns == OfLane(LaneRuns) \/ OfPool(PoolRuns) \/ OfHeld(HeldRuns) \/ OfSource(SourceRuns) \/ OfFile(PersistRuns)

SuiteSpec == SuiteInit /\ [][SuiteNext]_suiteVars /\ WF_suiteVars(SuiteRuns)
-------------------------------------------------------------------------------
\* What has begun to end: a sealed lane, a service that is disposed of, an observed call whose
\* callback has returned, a sealed pattern source.
Shutting ==
  \/ part = "lane" /\ sealed
  \/ part = "pool" /\ service = "disposing"
  \/ part = "held" /\ observed = "closed"
  \/ part = "source" /\ SourceSealed

\* ... and what its end is.
Shut ==
  \/ part = "lane" /\ teardown = "closed"
  \/ part = "pool" /\ service = "disposed"
  \/ part = "held" /\ observed \in {"returned", "failed"}
  \/ part = "source" /\ SourceDisposed

\* Whatever begins to end comes to its end: close() of the lane, dispose() of the workspace
\* service (it waits for the calls inside, they wait for preparations and the lock, and the lock
\* refuses new work), an observed call whatever its descendants do, dispose() of the pattern
\* source.
ShutdownEnds == Shutting ~> Shut

\* What a lane that is disposed of owes its n-th resource, and a pattern store its file.
Owing(n) ==
  \/ part = "lane" /\ how = "dispose" /\ (<<r1, r2>>[n] \in owned \/ release[<<r1, r2>>[n]] # "none")
  \/ part = "file" /\ Unwritten(n) /\ ~Troubled

\* ... and when it has done so; a failed write asks for nothing more.
Paid(n) ==
  \/ part = "lane" /\ release[<<r1, r2>>[n]] = "done"
  \/ part = "file" /\ (~Unwritten(n) \/ Troubled)

\* Every call of a lane is refused or settles; a resource handed to a disposed lane is disposed
\* of, whenever that happens (own, release), and what is learned reaches the file without anyone
\* asking, unless a write failed (persist).
NothingIsLost == CallsAnswered /\ \A n \in {1, 2} : Owing(n) ~> Paid(n)
===============================================================================
