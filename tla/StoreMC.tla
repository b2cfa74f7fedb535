------------------------------- MODULE StoreMC --------------------------------
(*****************************************************************************)
(* What outlives a call: the reuse store with its publisher, its collectors  *)
(* and a restoring process, the commits of branches and the intervals that   *)
(* attribute writes, the versions and the preparations of the resources, the *)
(* settings and the search pool.  A behaviour is about one of them (`part`): *)
(* the reuse store with the variables of its module, the others in turn in   *)
(* the state variables s1, s2, ....                                          *)
(*****************************************************************************)
EXTENDS ReuseStore, SearchPool, TLC

CONSTANTS u1, c1, c2, r1, row, image, p1, p2, w1, w2, f, dir

\* The record and the checkpoint of the store refer to the same artifact.
Shared == [k \in Record |-> {image}]
Picture == {image}
Interchangeable == Permutations(Collector)

\* Two branches over a directory 1 with the file 2, and a file 3 beside it.  The first removes
\* the directory with its file, replaces 3 and makes 5, whose directory 4 is missing; the
\* second writes 3 in place and makes the directory 4 and the file 5.
Change(how, before, after) == [how |-> how, before |-> before, after |-> after]
TwoChanges ==
  "b1" :> (1 :> Change("rmdir", "dir", "absent") @@ 2 :> Change("delete", "v0", "absent")
             @@ 3 :> Change("replace", "v0", "new1") @@ 5 :> Change("replace", "absent", "new1"))
    @@ "b2" :> (3 :> Change("native", "v0", "new2") @@ 4 :> Change("mkdir", "absent", "dir")
                  @@ 5 :> Change("replace", "absent", "new2"))

VARIABLES
  part,  \* the part this behaviour is about
  s1, s2, s3, s4, s5, s6, s7  \* its state

\* Two branches and a write of the host; two writers of one file.
Workspace == INSTANCE WorkspaceTransaction WITH
  files <- s1, queue <- s2, commit <- s3, branch <- s4, sealed <- s5, host <- s6, faults <- s7,
  tree <- s1, now <- s2, log <- s3, looks <- s4, driver <- s5, interval <- s6,
  Branches <- {"b1", "b2"}, Hosts <- {"h1"}, Paths <- 1..5, Parent <- <<0, 1, 0, 0, 4>>,
  Changes <- TwoChanges, MaxFaults <- 2, MaxTries <- 1, Writers <- {w1, w2}, Files <- {f},
  MaxWrites <- 1, MaxLooks <- 1, MaxTime <- 2
\* Two tokens of one file; two calls for one resource and a nested one.
Resource == INSTANCE ResourceVersions WITH
  disk <- s1, clock <- s2, writes <- s3, notices <- s4, manager <- s5, token <- s6,
  touched <- s7, call <- s1, build <- s2, table <- s3, view <- s4, Paths <- {p1, p2},
  Directory <- dir, Tokens <- {1, 2}, Deps <- <<{p1}, {p1}>>, Values <- {0}, MaxWrites <- 1,
  MaxTicks <- 0, MaxHistory <- 2, MaxChecks <- 1, Keys <- {101}, Roots <- {1, 2}, Nested <- {3},
  MaxDepth <- 1, MaxBytes <- 1, MaxTroubles <- 1
shared == <<s1, s2, s3, s4, s5, s6, s7>>
suiteVars == <<part, shared, vars, settingsVars, poolVars>>
owned == <<vars, settingsVars, poolVars>>
\* State variables a part does not use.
Unused7 == s7 = 0
Unused5 == s5 = 0 /\ s6 = 0 /\ Unused7
Unused1 == s1 = 0 /\ s2 = 0 /\ s3 = 0 /\ s4 = 0 /\ Unused5

\* The others keep the state they start in; one of the states the settings may start in stands for all.
SuiteInit ==
  /\ Init /\ SearchInit /\ SettingsInit
  /\ \/ part \in {"store", "settings", "search"} /\ Unused1
     \/ part = "commit" /\ Workspace!CommitInit
     \/ part = "interval" /\ Workspace!IntervalInit /\ Unused7
     \/ part = "versions" /\ Resource!VersionsInit
     \/ part = "preparations" /\ Resource!PreparationsInit /\ Unused5
  /\ part # "settings" => ~trusted /\ file = [s \in Scopes |-> Empty]

SuiteNext ==
  \/ part = "store" /\ Next /\ UNCHANGED <<part, shared, settingsVars, poolVars>>
  \/ part = "settings" /\ SettingsNext /\ UNCHANGED <<part, shared, vars, poolVars>>
  \/ part = "search" /\ SearchNext /\ UNCHANGED <<part, shared, vars, settingsVars>>
  \/ part = "commit" /\ Workspace!CommitNext /\ UNCHANGED <<part, owned>>
  \/ part = "interval" /\ Workspace!IntervalNext /\ UNCHANGED <<part, owned, s7>>
  \/ part = "versions" /\ Resource!VersionsNext /\ UNCHANGED <<part, owned>>
  \/ part = "preparations" /\ Resource!PreparationsNext /\ UNCHANGED <<part, owned, s5, s6, s7>>

SuiteSpec == SuiteInit /\ [][SuiteNext]_suiteVars
-------------------------------------------------------------------------------
\* WorkspaceTransaction: a commit leaves all of its changes or none, and commits never wait for
\* each other in a circle; a change is attributed to the writer that made it, and no writer takes
\* a foreign write for its own.
WorkspaceSafe ==
  /\ part = "commit" => Workspace!CommitAllOrNothing /\ Workspace!NoWaitCycle
  /\ part = "interval" => Workspace!AttributedToWriter /\ Workspace!ForeignUnseen

\* WorkspaceTransaction: what a tool of the host writes no commit writes over.  SettingsStore: a
\* file that cannot be parsed is never written over.
OthersWritesKept ==
  [][BrokenKeptStep /\ (part = "commit" => Workspace!HostWritesKeptStep)]_suiteVars

\* ResourceVersions: a sealed version stands only if nothing it depends on was touched, and every
\* watch is given back; no retained value is out of date, none is withdrawn while it is borrowed,
\* and builds never wait in a circle.
ResourcesSafe ==
  /\ part = "versions" => Resource!SealedUntouched /\ Resource!WatchesReturned
  /\ part = "preparations" => Resource!NeverOutdated /\ Resource!BorrowedStays /\ Resource!NoCircle
===============================================================================
