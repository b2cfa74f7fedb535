------------------------- MODULE WorkspaceTransaction -------------------------
(*****************************************************************************)
(* Transactions on a workspace (src/workspace-sandbox) in two parts with     *)
(* variables of their own: the commit of a branch into the workspace, and    *)
(* the intervals by which several writers of a private workspace are told    *)
(* apart.  Each part has its own specification.                              *)
(*****************************************************************************)
EXTENDS Naturals, Sequences, SequencesExt, FiniteSets, FiniteSetsExt

(*****************************************************************************)
(* A workspace branch (createBranch) and its commit into the workspace     *)
(* (src/workspace-sandbox): every proven name is locked in the host's file *)
(* queue in one strict order, the recorded inputs are proved, contents are *)
(* staged, changes are applied one by one, and a failure rolls back what   *)
(* was applied unless a write in place has begun.                          *)
(*                                                                         *)
(* Changes[b][p] says how branch b changes the path p: "replace" renames a *)
(* staged file over it, "native" writes in place, "delete", "mkdir" and    *)
(* "rmdir" do what they say, "link" takes over the object of another path, *)
(* "input" only proves what was read.  Hosts are the tools of the agent    *)
(* outside any branch; they queue for the one path they write.             *)
(*****************************************************************************)

CONSTANTS
  Branches, Hosts,
  Paths,      \* names below the workspace root, numbered in their lock order
  Parent,     \* Parent[p]: the directory of p, 0 for the root
  Changes,
  MaxFaults,  \* bound: operations of the filesystem that fail
  MaxTries    \* bound: attempts to commit one branch

VARIABLES
  files,    \* content of every path in the live workspace
  queue,    \* queue[k]: who holds (the head) and awaits the name k
  commit,   \* commit[b]: the attempt to commit b
  branch,   \* branch[b]: the branch's lifetime and the inputs it hands out
  sealed,   \* the service is disposed
  host,     \* host[h]: the write of a host tool
  faults    \* operations that failed so far

commitVars == <<files, queue, commit, branch, sealed, host, faults>>

Absent == "absent"
Dir == "dir"
Torn == "torn"    \* a write in place that broke off
ByHost == "host"
Keys == Paths \cup {0}

Proven(b) == DOMAIN Changes[b]
Writes(b) == {p \in Proven(b) : Changes[b][p].how # "input"}
Names(b) == Proven(b) \cup {0}    \* its root and every proven name

NoAttempt == [stage |-> "idle", held |-> 0, baseline |-> <<>>, staged |-> {}, applied |-> <<>>,
              created |-> {}, native |-> FALSE, failed |-> FALSE, outcome |-> "none", tries |-> 0]

CommitInit ==
  /\ files \in [Paths -> {Absent, Dir, "v0"}]
  /\ \A b \in Branches, p \in Paths : p \in Proven(b) => files[p] = Changes[b][p].before
  /\ \A p \in Paths : (\A b \in Branches : p \notin Proven(b)) => files[p] = Absent
  /\ queue = [k \in Keys |-> <<>>]
  /\ commit = [b \in Branches |-> NoAttempt]
  /\ branch = [b \in Branches |-> [sealed |-> FALSE, released |-> FALSE, inputs |-> FALSE]]
  /\ sealed = FALSE /\ faults = 0
  /\ host = [h \in Hosts |-> [stage |-> "idle", path |-> 0]]

Faulty == faults < MaxFaults /\ faults' = faults + 1
Holds(b, k) == queue[k] # <<>> /\ Head(queue[k]) = b
Unlocked(a) == [k \in Keys |-> SelectSeq(queue[k], LAMBDA x : x # a)]
-----------------------------------------------------------------------------
(* EffectCommit.run and the branch's own checks. *)

\* A disposed branch, or inputs that changed, fail with nothing moved; a disposed
\* service is not known to have moved nothing.
Commit(b) ==
  LET inputs == Proven(b) \ Writes(b) IN
  /\ commit[b].stage = "idle" /\ commit[b].outcome \notin {"committed", "poisoned"}
  /\ commit[b].tries < MaxTries /\ ~branch[b].released
  /\ \E outcome \in (IF branch[b].sealed THEN {"recoverable"}
                      ELSE IF \E p \in inputs : files[p] # Changes[b][p].before THEN {"recoverable", "none"}
                      ELSE IF sealed THEN {"poisoned"} ELSE {"none"}) :
       commit' = [commit EXCEPT ![b] = [NoAttempt EXCEPT !.stage = IF outcome = "none" THEN "locking" ELSE "idle",
                                          !.outcome = outcome, !.tries = commit[b].tries + 1]]
  /\ UNCHANGED <<files, queue, branch, sealed, host, faults>>

\* withCommitLocks: resolved names, each locked inside the one before it.
NextName(b) == Min({k \in Names(b) : \A i \in 1..Len(queue[k]) : queue[k][i] # b})

\* Mutant: only the root is locked.
QueueNamesRoot(b) == IF Holds(b, 0) THEN {} ELSE {0}

QueueNames(b) == {k \in Names(b) : ~Holds(b, k)}

Lock(b) ==
  /\ commit[b].stage = "locking" /\ QueueNames(b) # {}
  /\ \A k \in Names(b) : (\E i \in 1..Len(queue[k]) : queue[k][i] = b) => Holds(b, k)
  /\ queue' = [queue EXCEPT ![NextName(b)] = Append(@, b)]
  /\ UNCHANGED <<files, commit, branch, sealed, host, faults>>

-----------------------------------------------------------------------------
(* commit(): proof, staging, application. *)

\* Every input and predecessor is read once, under the locks, and must still be
\* what the branch saw.
Prove(b) ==
  /\ commit[b].stage = "locking" /\ QueueNames(b) = {}
  /\ commit' = [commit EXCEPT ![b] =
       IF \A p \in Proven(b) : files[p] = Changes[b][p].before
       THEN [@ EXCEPT !.stage = "staging", !.baseline = [p \in Proven(b) |-> files[p]]]
       ELSE [@ EXCEPT !.stage = "finished", !.outcome = "recoverable"]]
  /\ UNCHANGED <<files, queue, branch, sealed, host, faults>>

\* Complete contents are staged beside their targets, and source objects pinned by a
\* link, which is the first native effect.
Stage(b) ==
  LET linked == {p \in Writes(b) : Changes[b][p].how = "link"}
      staged == {p \in Writes(b) : Changes[b][p].how = "replace"} \cup linked IN
  /\ commit[b].stage = "staging"
  /\ \/ /\ commit' = [commit EXCEPT ![b].stage = "applying", ![b].staged = staged, ![b].native = linked # {}]
        /\ UNCHANGED faults
     \/ /\ Faulty
        /\ \E native \in IF linked # {} THEN BOOLEAN ELSE {FALSE} :
             commit' = [commit EXCEPT ![b].stage = "failed", ![b].native = native]
  /\ UNCHANGED <<files, queue, branch, sealed, host>>

\* orderWorkspaceChanges: files go before their directories, directories come before
\* their files, removals child first and creations parent first.
Phase(b, p) ==
  LET how == Changes[b][p].how IN
  IF how = "delete" THEN 0 ELSE IF how = "rmdir" THEN 1 ELSE IF how = "mkdir" THEN 2 ELSE 3
Before(b, p, q) ==
  \/ Phase(b, p) < Phase(b, q)
  \/ Phase(b, p) = Phase(b, q) /\ IF Phase(b, p) < 2 THEN p > q ELSE p < q
Pending(b) == Writes(b) \ ToSet(commit[b].applied)
NextChange(b) == CHOOSE p \in Pending(b) : \A q \in Pending(b) \ {p} : Before(b, p, q)

\* Missing directories above p, which a write to p creates first.
Above[p \in Paths] == IF Parent[p] = 0 THEN {} ELSE {Parent[p]} \cup Above[Parent[p]]
MissingAbove(p) == {d \in Above[p] : files[d] = Absent}

Children(p) == {q \in Paths : Parent[q] = p /\ files[q] # Absent}
With(p, content, dirs) ==
  [q \in Paths |-> IF q = p THEN content ELSE IF q \in dirs THEN Dir ELSE files[q]]

\* One change succeeds.
Apply(b) ==
  LET p == NextChange(b)  change == Changes[b][p]
      dirs == IF change.after \in {Absent, Dir} /\ change.how # "mkdir" THEN {} ELSE MissingAbove(p)
  IN
  /\ commit[b].stage = "applying" /\ Pending(b) # {}
  /\ change.how = "rmdir" => Children(p) = {}
  /\ files' = With(p, change.after, dirs)
  /\ commit' = [commit EXCEPT ![b].applied = Append(@, p), ![b].created = @ \cup dirs, ![b].staged = @ \ {p}]
  /\ UNCHANGED <<queue, branch, sealed, host, faults>>

\* Mutant: a directory counts as applied only after its mode is set.
FailuresLate(b, p, how, dirs) ==
  CASE how = "native" -> {[applied |-> TRUE, files |-> With(p, Torn, dirs), dirs |-> dirs]}
    [] how = "mkdir" -> {[applied |-> FALSE, files |-> With(p, Dir, dirs), dirs |-> dirs]}
    [] OTHER -> {[applied |-> FALSE, files |-> files, dirs |-> {}]}

\* How a change may fail: before its first effect, or after it.  A replacement or
\* removal of a file is recorded before it is tried, a directory after it is made.
Failures(b, p, how, dirs) ==
  {[applied |-> FALSE, files |-> With(p, files[p], dirs), dirs |-> dirs]} \cup
  (CASE how = "native" -> {[applied |-> TRUE, files |-> With(p, Torn, dirs), dirs |-> dirs]}
     [] how = "mkdir" -> {[applied |-> TRUE, files |-> With(p, Dir, dirs), dirs |-> dirs]}
     [] how = "rmdir" -> {}
     [] OTHER -> {[applied |-> TRUE, files |-> With(p, files[p], dirs), dirs |-> dirs]})

ApplyFails(b) ==
  LET p == NextChange(b)  how == Changes[b][p].how
      dirs == IF how \in {"delete", "rmdir"} THEN {} ELSE MissingAbove(p) IN
  /\ commit[b].stage = "applying" /\ Pending(b) # {}
  /\ IF how = "rmdir" /\ Children(p) # {} THEN UNCHANGED faults ELSE Faulty
  /\ \E f \in Failures(b, p, how, dirs) :
       /\ files' = f.files
       /\ commit' = [commit EXCEPT ![b].stage = "failed", ![b].created = @ \cup f.dirs,
                                   ![b].applied = IF f.applied THEN Append(@, p) ELSE @]
  /\ UNCHANGED <<queue, branch, sealed, host>>

\* Times are restored and made directories looked at again, then the view is verified;
\* a view that no longer verifies cannot be rolled back with certainty.
Verify(b) ==
  /\ commit[b].stage = "applying" /\ Pending(b) = {}
  /\ \/ /\ commit' = [commit EXCEPT ![b].stage = "closing", ![b].outcome = "committed"]
        /\ UNCHANGED faults
     \/ /\ Faulty
        /\ \E poisoned \in BOOLEAN :
             commit' = [commit EXCEPT ![b].stage = "failed",
                          ![b].native = @ \/ (poisoned /\ commit[b].applied # <<>>)]
  /\ UNCHANGED <<files, queue, branch, sealed, host>>
-----------------------------------------------------------------------------
(* Failure: poison or roll back (restoreChanges). *)

InPlace(b) == \E i \in 1..Len(commit[b].applied) : Changes[b][commit[b].applied[i]].how = "native"

Fail(b) ==
  /\ commit[b].stage = "failed"
  /\ commit' = [commit EXCEPT ![b] = IF commit[b].native \/ InPlace(b)
                                     THEN [@ EXCEPT !.stage = "closing", !.outcome = "poisoned"]
                                     ELSE [@ EXCEPT !.stage = "restoring"]]
  /\ UNCHANGED <<files, queue, branch, sealed, host, faults>>

Restored(b, p) ==
  With(p, commit[b].baseline[p], IF commit[b].baseline[p] = Absent THEN {} ELSE MissingAbove(p))

\* The last applied change is undone; one that cannot be is remembered, not the end.
Restore(b) ==
  LET p == Last(commit[b].applied) IN
  /\ commit[b].stage = "restoring" /\ commit[b].applied # <<>>
  /\ \/ /\ ~(Changes[b][p].how = "mkdir" /\ Children(p) # {})
        /\ files' = Restored(b, p) /\ UNCHANGED faults
        /\ commit' = [commit EXCEPT ![b].applied = Front(@)]
     \/ /\ IF Changes[b][p].how = "mkdir" /\ Children(p) # {} THEN UNCHANGED faults ELSE Faulty
        /\ commit' = [commit EXCEPT ![b].applied = Front(@), ![b].failed = TRUE]
        /\ UNCHANGED files
  /\ UNCHANGED <<queue, branch, sealed, host>>

\* Created parents that can go, deepest first; one a host has used in the meantime stays.
Removable(b) ==
  {d \in commit[b].created : files[d] = Dir /\ \A q \in Paths : Parent[q] = d /\ files[q] # Absent => q \in commit[b].created}

RolledBack(b) ==
  LET gone == Removable(b)
      clean == ~commit[b].failed /\ gone = {d \in commit[b].created : files[d] = Dir} IN
  /\ commit[b].stage = "restoring" /\ commit[b].applied = <<>>
  /\ files' = IF commit[b].failed THEN files ELSE [p \in Paths |-> IF p \in gone THEN Absent ELSE files[p]]
  /\ commit' = [commit EXCEPT ![b].stage = "closing", ![b].outcome = IF clean THEN "recoverable" ELSE "poisoned"]
  /\ UNCHANGED <<queue, branch, sealed, host, faults>>

\* Descriptors of objects written in place are closed; a failure leaves the outcome unknown.
CloseDescriptors(b) ==
  /\ commit[b].stage = "closing"
  /\ \/ /\ commit' = [commit EXCEPT ![b].stage = "finished", ![b].staged = {}]
        /\ UNCHANGED faults
     \/ /\ \E p \in Writes(b) : Changes[b][p].how = "native"
        /\ Faulty
        /\ commit' = [commit EXCEPT ![b].stage = "finished", ![b].staged = {}, ![b].outcome = "poisoned"]
  /\ UNCHANGED <<files, queue, branch, sealed, host>>

\* The names are released; a committed branch anchors later forks in the live
\* workspace and keeps its own inputs, unless it was disposed of meanwhile.
Finish(b) ==
  /\ commit[b].stage = "finished"
  /\ queue' = Unlocked(b)
  /\ commit' = [commit EXCEPT ![b] = [NoAttempt EXCEPT !.outcome = commit[b].outcome, !.tries = commit[b].tries]]
  /\ branch' = [branch EXCEPT ![b].inputs = commit[b].outcome = "committed" /\ ~branch[b].sealed]
  /\ UNCHANGED <<files, sealed, host, faults>>
-----------------------------------------------------------------------------
(* The branch's inputs and its disposal; the service; the host's tools. *)

\* takeCommittedInputs: once, of a committed branch.
TakeCommitted(b) ==
  /\ ~branch[b].sealed /\ commit[b].stage = "idle" /\ branch[b].inputs
  /\ branch' = [branch EXCEPT ![b].inputs = FALSE]
  /\ UNCHANGED <<files, queue, commit, sealed, host, faults>>

Dispose(b) ==
  /\ ~branch[b].sealed
  /\ branch' = [branch EXCEPT ![b].sealed = TRUE, ![b].inputs = FALSE]
  /\ UNCHANGED <<files, queue, commit, sealed, host, faults>>

\* The retained contents go when the commit under way has ended.
Release(b) ==
  /\ branch[b].sealed /\ ~branch[b].released
  /\ commit[b].stage = "idle"
  /\ branch' = [branch EXCEPT ![b].released = TRUE]
  /\ UNCHANGED <<files, queue, commit, sealed, host, faults>>

DisposeService ==
  /\ ~sealed /\ sealed' = TRUE
  /\ UNCHANGED <<files, queue, commit, branch, host, faults>>

HostQueues(h) ==
  /\ host[h].stage = "idle"
  /\ \E p \in Paths : /\ files[p] # Dir
                      /\ host' = [host EXCEPT ![h] = [stage |-> "queued", path |-> p]]
                      /\ queue' = [queue EXCEPT ![p] = Append(@, h)]
  /\ UNCHANGED <<files, commit, branch, sealed, faults>>
HostWrites(h) ==
  LET p == host[h].path IN
  /\ host[h].stage = "queued" /\ Head(queue[p]) = h
  /\ files' = IF files[p] = Dir THEN files ELSE With(p, ByHost, MissingAbove(p))
  /\ queue' = [queue EXCEPT ![p] = Tail(@)]
  /\ host' = [host EXCEPT ![h] = [stage |-> "done", path |-> 0]]
  /\ UNCHANGED <<commit, branch, sealed, faults>>
-----------------------------------------------------------------------------
CommitStep(b) ==
  \/ Lock(b) \/ Prove(b) \/ Stage(b) \/ Apply(b) \/ ApplyFails(b) \/ Verify(b)
  \/ Fail(b) \/ Restore(b) \/ RolledBack(b) \/ CloseDescriptors(b) \/ Finish(b)

CommitNext ==
  \/ \E b \in Branches : \/ Commit(b) \/ CommitStep(b) \/ TakeCommitted(b)
                         \/ Dispose(b) \/ Release(b)
  \/ \E h \in Hosts : HostQueues(h) \/ HostWrites(h)
  \/ DisposeService

CommitSpec == CommitInit /\ [][CommitNext]_commitVars
-----------------------------------------------------------------------------
\* commit(): when the names are about to be released, a committed attempt has made
\* every change and a recoverable one has left every proven path as it found it and
\* no directory behind; anything else is poisoned.
CommitAllOrNothing ==
  \A b \in Branches : commit[b].stage = "finished" =>
    /\ commit[b].outcome = "committed" => \A p \in Writes(b) : files[p] = Changes[b][p].after
    /\ commit[b].outcome = "recoverable" =>
         /\ \A p \in DOMAIN commit[b].baseline : files[p] = commit[b].baseline[p]
         /\ \A d \in commit[b].created : files[d] # Dir

\* withCommitLocks: what a host tool wrote is never overwritten by a commit that was
\* computed before it, nor by the rollback of one.
HostWritesKeptStep == \A p \in Paths : files[p] = ByHost => files'[p] = ByHost
HostWritesKept == [][HostWritesKeptStep]_commitVars

\* "Resolved keys give all transactions one strict order" (withCommitLocks): of the
\* calls that wait for a name, one waits for a holder that does not wait itself.
Waits(a, k) == \E i \in 2..Len(queue[k]) : queue[k][i] = a
NoWaitCycle ==
  LET waiting == {a \in Branches \cup Hosts : \E k \in Keys : Waits(a, k)} IN
  waiting # {} => \E a \in waiting, k \in Keys : Waits(a, k) /\ Head(queue[k]) \notin waiting

-------------------------------------------------------------------------------
(*****************************************************************************)
(* The transaction driver of a private workspace                           *)
(* (createGitWorkspaceTransactionDriver, src/workspace-sandbox): intervals *)
(* of several traced writers overlap, and each is attributed afterwards by *)
(* its writer's own account (WorkspaceTransactionOwnership).               *)
(*                                                                         *)
(* A file is the number of the write that made it and the time of that     *)
(* write: the change time of a digest decides equality, its milliseconds   *)
(* decide what came later.  `log` and `looks` are the writers' traces.     *)
(*****************************************************************************)

CONSTANTS
  Writers, Files,
  MaxWrites,  \* bound: how often one writer writes one name
  MaxLooks,   \* bound: how often one writer looks at names
  MaxTime     \* bound: the clock, in milliseconds

VARIABLES
  tree,      \* tree[p]: the number and the time of the last write to p
  now,
  log,       \* every write: [by, name, seq, at]
  looks,     \* every look: [by, name, seq, at]
  driver,    \* the lock, the retained versions, whether it is disposed
  interval   \* interval[w]: the capture of writer w

intervalVars == <<tree, now, log, looks, driver, interval>>

Unread == 1000    \* a version whose content was not retained
Untouched == [p \in Files |-> [seq |-> 0, at |-> 0]]
Interval == [stage |-> "none", overlapped |-> FALSE, contaminated |-> FALSE, started |-> 0, ended |-> 0,
             before |-> Untouched, known |-> {}, racing |-> {}, after |-> Untouched, kept |-> {}, capturedAt |-> 0]
\* Aborted, lost or without a complete delta.
Dropped == [Interval EXCEPT !.stage = "dropped"]

IntervalInit ==
  /\ tree = Untouched /\ now = 1
  /\ log = {} /\ looks = {}
  /\ driver = [lock |-> FALSE, versions |-> [p \in Files |-> 0], disposed |-> FALSE]
  /\ interval = [w \in Writers |-> Interval]

Active == {w \in Writers : interval[w].stage \in {"beginning", "running", "ended"}}
Changed(a, b) == {p \in Files : a[p].seq # b[p].seq}
Known(versions, t) == {p \in Files : versions[p] = t[p].seq}
-----------------------------------------------------------------------------
(* The writers and their traces. *)

Tick == now < MaxTime /\ now' = now + 1 /\ UNCHANGED <<tree, log, looks, driver, interval>>

Write(w) ==
  /\ interval[w].stage = "running"
  /\ \E p \in Files :
       LET write == [by |-> w, name |-> p, seq |-> Cardinality(log) + 1, at |-> now] IN
       /\ Cardinality({e \in log : e.by = w /\ e.name = p}) < MaxWrites
       /\ log' = log \cup {write}
       /\ tree' = [tree EXCEPT ![p] = [seq |-> write.seq, at |-> now]]
  /\ UNCHANGED <<now, looks, driver, interval>>

Look(w) ==
  /\ interval[w].stage = "running" /\ Cardinality({e \in looks : e.by = w}) < MaxLooks
  /\ \E p \in Files : looks' = looks \cup {[by |-> w, name |-> p, seq |-> tree[p].seq, at |-> now]}
  /\ UNCHANGED <<tree, now, log, driver, interval>>

\* Its processes have exited.
Exit(w) ==
  /\ interval[w].stage = "running"
  /\ interval' = [interval EXCEPT ![w].stage = "ended", ![w].ended = now]
  /\ UNCHANGED <<tree, now, log, looks, driver>>
-----------------------------------------------------------------------------
(* begin(): two captures of the structure, with a clock step between them. *)

\* Intervals under way and the new one overlap each other.
Begin(w) ==
  /\ interval[w].stage = "none" /\ ~driver.lock /\ ~driver.disposed
  /\ interval' = [v \in Writers |->
       IF v = w THEN [Interval EXCEPT !.stage = "beginning", !.overlapped = Active # {}, !.before = tree]
       ELSE IF v \in Active THEN [interval[v] EXCEPT !.overlapped = TRUE] ELSE interval[v]]
  /\ driver' = [driver EXCEPT !.lock = TRUE]
  /\ UNCHANGED <<tree, now, log, looks>>

\* captureBefore: contents are retained only if the structure stood still; else the
\* names that raced are remembered and whatever is new stays unread.
BeginSettled(w) ==
  LET racing == Changed(interval[w].before, tree) IN
  /\ interval[w].stage = "beginning"
  /\ driver' = [driver EXCEPT !.lock = FALSE,
       !.versions = IF racing = {} THEN [p \in Files |-> tree[p].seq]
                    ELSE [p \in Files |-> IF @[p] = tree[p].seq THEN @[p] ELSE Unread]]
  /\ interval' = [interval EXCEPT ![w].stage = "running", ![w].started = now, ![w].before = tree,
                    ![w].racing = racing, ![w].known = Known(driver'.versions, tree)]
  /\ UNCHANGED <<tree, now, log, looks>>

\* An interval whose operation may have begun spoils the ones it overlapped.
AbortInterval(w) ==
  /\ interval[w].stage \in {"running", "ended"} /\ ~driver.lock
  /\ \E unchanged \in IF \E e \in log : e.by = w THEN {FALSE} ELSE {TRUE, FALSE} :
       interval' = [v \in Writers |->
         IF v = w THEN Dropped
         ELSE IF v \in Active /\ ~unchanged THEN [interval[v] EXCEPT !.contaminated = TRUE] ELSE interval[v]]
  /\ UNCHANGED <<tree, now, log, looks, driver>>

DisposeDriver ==
  /\ ~driver.disposed /\ ~driver.lock
  /\ driver' = [driver EXCEPT !.disposed = TRUE]
  /\ interval' = [v \in Writers |-> IF v \in Active THEN Dropped ELSE interval[v]]
  /\ UNCHANGED <<tree, now, log, looks>>
-----------------------------------------------------------------------------
(* finish() *)

\* Under the lock: the second endpoint.  A structure still moving is captured too,
\* with the contents of its new names unread.
FinishCapture(w) ==
  /\ interval[w].stage = "ended" /\ ~driver.lock
  /\ IF interval[w].contaminated
     THEN /\ interval' = [interval EXCEPT ![w] = Dropped]
          /\ UNCHANGED driver
     ELSE \E still \in IF interval[w].overlapped THEN BOOLEAN ELSE {TRUE} :
            /\ driver' = [driver EXCEPT !.versions = [p \in Files |-> IF still \/ @[p] = tree[p].seq THEN tree[p].seq ELSE Unread]]
            /\ interval' = [interval EXCEPT ![w].stage = "finishing", ![w].after = tree, ![w].capturedAt = now,
                                            ![w].kept = Known(driver'.versions, tree)]
  /\ UNCHANGED <<tree, now, log, looks>>

Written(w) == {e.name : e \in {d \in log : d.by = w}}
Own(w) == IF interval[w].overlapped THEN Written(w) ELSE Files
Mine(w) == Changed(interval[w].before, interval[w].after) \cap Own(w)

\* Its last look at a name, 0 for none.
Seen(w, p) == Max({0} \cup {e.at : e \in {d \in looks : d.by = w /\ d.name = p}})

\* Foreign changes that reach what it saw: made no later than its last look.
Reached(w) ==
  {p \in interval[w].racing \cup (Changed(interval[w].before, interval[w].after) \ Mine(w)) :
     /\ Seen(w, p) > 0
     /\ p \in interval[w].racing \/ interval[w].after[p].at <= Seen(w, p)}

\* Another writer touched one of its names from its start to the second endpoint.
Interfered(w) ==
  \E e \in log : e.by # w /\ e.name \in Own(w) /\ e.at \in interval[w].started..interval[w].capturedAt

Attributable(w) ==
  /\ Reached(w) = {}
  /\ \A p \in Mine(w) : interval[w].after[p].at <= interval[w].ended
  /\ ~Interfered(w)
  /\ \A p \in Mine(w) : p \in interval[w].known
  /\ \A p \in Mine(w) : p \notin interval[w].kept => tree[p].seq = interval[w].after[p].seq

\* Outside the lock: the writer's account is awaited, and an overlapped interval is
\* complete only if everything between its endpoints is its own or did not reach it.
Attribute(w) ==
  /\ interval[w].stage = "finishing"
  /\ interval' = [interval EXCEPT ![w] =
       IF ~@.overlapped \/ Attributable(w) THEN [@ EXCEPT !.stage = "complete"] ELSE Dropped]
  /\ UNCHANGED <<tree, now, log, looks, driver>>

\* A writer that cannot account for itself.
Unaccounted(w) ==
  /\ interval[w].stage = "finishing" /\ interval[w].overlapped
  /\ interval' = [interval EXCEPT ![w] = Dropped]
  /\ UNCHANGED <<tree, now, log, looks, driver>>
-----------------------------------------------------------------------------
IntervalNext ==
  \/ Tick \/ DisposeDriver
  \/ \E w \in Writers :
       \/ Write(w) \/ Look(w) \/ Exit(w) \/ Begin(w) \/ BeginSettled(w) \/ AbortInterval(w)
       \/ FinishCapture(w) \/ Attribute(w) \/ Unaccounted(w)

IntervalSpec == IntervalInit /\ [][IntervalNext]_intervalVars
-----------------------------------------------------------------------------
Complete(w) == interval[w].stage = "complete"

\* finish(): a complete interval reports exactly what its own writer did to the names
\* it reports, from the content it began with, and nothing of its writer is missing.
AttributedToWriter ==
  \A w \in Writers : Complete(w) =>
    /\ \A p \in Mine(w), e \in log :
         (e.name = p /\ e.seq > interval[w].before[p].seq /\ e.seq <= interval[w].after[p].seq) => e.by = w
    /\ Written(w) \subseteq Mine(w)

\* "Other changes are foreign and must not reach what it observed" (finish): whatever
\* the writer of a complete interval looked at was as the interval began, or its own.
ForeignUnseen ==
  \A e \in looks : Complete(e.by) =>
    \/ e.seq = interval[e.by].before[e.name].seq
    \/ \E d \in log : d.by = e.by /\ d.seq = e.seq
===============================================================================
