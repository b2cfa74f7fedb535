--------------------------- MODULE ResourceVersions ---------------------------
(***************************************************************************)
(* Resource versions (src/resource-version.ts) in two parts with variables *)
(* of their own: the freshness tokens, and the values prepared in the view *)
(* of a token.  Each part has its own specification.                       *)
(***************************************************************************)
EXTENDS Naturals, Sequences, FiniteSets, SequencesExt

(***************************************************************************)
(* The freshness tokens of src/src/resource-version.ts: a capture reads    *)
(* its dependencies one by one while the host goes on writing, a seal      *)
(* proves that nothing of them was written in the window since the         *)
(* capture, and a validation proves only that they are again as they were. *)
(*                                                                         *)
(* A file is its value and the tick of its last write: its stamp, which    *)
(* two writes of one tick share.  A write is noticed by the watcher of the *)
(* root, which names the file or only its directory, and by the precise    *)
(* watch of the file if there is one; a notice is delivered later, and at  *)
(* the latest by a turn of the event loop.                                 *)
(***************************************************************************)

CONSTANTS
  Paths,        \* the files under the root
  Directory,    \* what a coarse notice names
  Tokens,       \* the tokens of one run
  Deps,         \* what each of them depends on
  Values,       \* what a file holds
  MaxWrites,    \* bound on the writes of the host
  MaxTicks,     \* bound on the ticks of the file system's clock
  MaxHistory,   \* MAX_EVENT_HISTORY
  MaxChecks     \* bound on the checks of one token

VARIABLES
  disk,       \* the files: value and tick of the last write
  clock,
  writes,
  notices,    \* what the watchers have not delivered yet
  manager,    \* the manager of the root: state, watcher, history, references
  token,
  touched     \* history: what the host wrote in each token's window

versionsVars == <<disk, clock, writes, notices, manager, token, touched>>

Fresh == [state |-> "idle", watcher |-> "none", reliable |-> FALSE, epoch |-> 0, events |-> <<>>,
          references |-> 0, precise |-> [p \in Paths |-> 0]]

Unread == [val |-> 0, at |-> 0]

NoToken == [state |-> "none", deps |-> {}, left |-> {}, seen |-> [p \in Paths |-> Unread],
            again |-> [p \in Paths |-> Unread], epoch |-> 0, watching |-> FALSE, precise |-> {},
            sealing |-> FALSE, verdict |-> "none", checks |-> 0]

VersionsInit ==
  /\ disk = [p \in Paths |-> [val |-> 0, at |-> 0]]
  /\ clock = 0
  /\ writes = 0
  /\ notices = <<>>
  /\ manager = Fresh
  /\ token = [t \in Tokens |-> NoToken]
  /\ touched = [t \in Tokens |-> {}]

----------------------------------------------------------------------------
(* The manager's record of what the watchers told it. *)

\* changed(): a new event at the end, the oldest ones forgotten.
Recorded(m, what) ==
  LET all == Append(m.events, [epoch |-> m.epoch + 1, path |-> what.path, type |-> what.type])
  IN [m EXCEPT !.epoch = @ + 1,
               !.events = SubSeq(all, (IF Len(all) > MaxHistory THEN Len(all) - MaxHistory ELSE 0) + 1, Len(all))]

Delivered(m) == FoldLeft(Recorded, m, notices)

\* changesSince(): whether the history since the token may be incomplete.
Lost(m, t) ==
  LET oldest == IF m.events = <<>> THEN m.epoch ELSE m.events[1].epoch
  IN token[t].epoch < oldest /\ Len(m.events) >= MaxHistory

Since(m, t) == SelectSeq(m.events, LAMBDA e : e.epoch > token[t].epoch)

Uncertain(m, t) ==
  \/ ~token[t].watching
  \/ ~m.reliable
  \/ Lost(m, t)
  \/ \E i \in DOMAIN Since(m, t) : Since(m, t)[i].type = "unknown"

\* affects(): a notice of the file, or a coarse one where the file has no watch of its own.
Affects(e, p, t) ==
  \/ e.type = "unknown"
  \/ e.path = p
  \/ p \notin token[t].precise /\ e.path = Directory

\* invalidation(): what the watchers alone say against the token.
Invalidation(m, t) ==
  \/ m.state # "open"
  \/ /\ token[t].sealing /\ token[t].watching
     /\ \/ Uncertain(m, t)
        \/ \E i \in DOMAIN Since(m, t), p \in token[t].deps : Affects(Since(m, t)[i], p, t)

----------------------------------------------------------------------------
(* The host and the watchers. *)

InWindow(t) == token[t].state \in {"held", "turning", "rereading"} /\ token[t].verdict = "none"

Coarse(p) == {[path |-> p, type |-> "change"], [path |-> Directory, type |-> "change"]}

\* A write may share the tick of the one before it; one that no capture can see is left out.
HostWrites(p, v) ==
  /\ writes < MaxWrites
  /\ \E t \in Tokens : token[t].state \in {"reading", "settling"} \/ InWindow(t)
  /\ writes' = writes + 1
  /\ clock' \in {clock, clock + 1} \cap 0..MaxTicks
  /\ disk' = [disk EXCEPT ![p] = [val |-> v, at |-> clock']]
  /\ \E root \in Coarse(p) :
       notices' = IF manager.watcher # "on" THEN notices
                  ELSE notices \o <<root>> \o (IF manager.precise[p] > 0 /\ root.path # p
                                               THEN <<[path |-> p, type |-> "change"]>> ELSE <<>>)
  /\ touched' = [t \in Tokens |-> IF InWindow(t) /\ p \in token[t].deps THEN touched[t] \cup {p} ELSE touched[t]]
  /\ UNCHANGED <<manager, token>>

Deliver ==
  /\ notices # <<>>
  /\ manager' = Delivered(manager)
  /\ notices' = <<>>
  /\ UNCHANGED <<disk, clock, writes, token, touched>>

\* The error handler of a watcher: the manager is unreliable from here on.
WatcherFails ==
  /\ manager.watcher = "on" /\ manager.reliable
  /\ manager' = Recorded([manager EXCEPT !.reliable = FALSE], [path |-> Directory, type |-> "unknown"])
  /\ UNCHANGED <<disk, clock, writes, notices, token, touched>>

----------------------------------------------------------------------------
(* Captures. *)

Capture(t) ==
  /\ token[t].state = "none"
  /\ manager.state \in {"idle", "open"}
  /\ manager' = [manager EXCEPT !.state = "open", !.references = @ + 1]
  /\ token' = [token EXCEPT ![t].state = "starting", ![t].deps = Deps[t]]
  /\ UNCHANGED <<disk, clock, writes, notices, touched>>

\* startWatching(), once for a manager; a failure leaves it unreliable.
StartWatching ==
  /\ manager.state = "open" /\ manager.watcher = "none"
  /\ \E t \in Tokens : token[t].state = "starting"
  /\ \E up \in BOOLEAN :
       manager' = [manager EXCEPT !.watcher = IF up THEN "on" ELSE "failed", !.reliable = up]
  /\ UNCHANGED <<disk, clock, writes, notices, token, touched>>

\* acquirePreciseWatches(): a file that cannot be watched stays with the root's watcher.
WatchPrecisely(t) ==
  /\ token[t].state = "starting" /\ manager.watcher # "none"
  /\ \E some \in {{}, token[t].deps} :
       /\ ~manager.reliable => some = {}
       /\ token' = [token EXCEPT ![t].state = "reading", ![t].left = token[t].deps, ![t].precise = some]
       /\ manager' = [manager EXCEPT !.precise = [p \in Paths |-> @[p] + (IF p \in some THEN 1 ELSE 0)]]
  /\ UNCHANGED <<disk, clock, writes, notices, touched>>

ReadOne(t, p) ==
  /\ token[t].state = "reading" /\ p \in token[t].left
  /\ token' = [token EXCEPT ![t].left = @ \ {p}, ![t].seen[p] = disk[p]]
  /\ UNCHANGED <<disk, clock, writes, notices, manager, touched>>

\* watcherTurn() after the reads.
CaptureTurn(t) ==
  /\ token[t].state = "reading" /\ token[t].left = {}
  /\ manager' = IF manager.state = "open" THEN Delivered(manager) ELSE manager
  /\ notices' = <<>>
  /\ token' = [token EXCEPT ![t].state = "settling"]
  /\ UNCHANGED <<disk, clock, writes, touched>>

\* The window opens: the token names the epoch it starts at.
Hold(t) ==
  /\ token[t].state = "settling" /\ manager.state = "open"
  /\ token' = [token EXCEPT ![t].state = "held", ![t].epoch = manager.epoch, ![t].watching = manager.reliable]
  /\ UNCHANGED <<disk, clock, writes, notices, manager, touched>>

\* releaseCapture(): the watches of its own first, then the reference; the last one closes the manager.
Freed(m, t) ==
  LET unwatched == [m EXCEPT !.precise = [p \in Paths |-> @[p] - (IF p \in token[t].precise THEN 1 ELSE 0)],
                             !.references = @ - 1]
  IN IF m.state # "open" THEN [m EXCEPT !.references = @ - 1]
     ELSE IF unwatched.references = 0 /\ \A p \in Paths : unwatched.precise[p] = 0 THEN Fresh ELSE unwatched

Release(t) ==
  /\ token[t].state \in {"starting", "reading", "settling", "held"}
  /\ manager' = Freed(manager, t)
  /\ notices' = IF manager'.watcher = "on" THEN notices ELSE <<>>
  /\ token' = [token EXCEPT ![t] = [NoToken EXCEPT !.state = "released"]]
  /\ touched' = [touched EXCEPT ![t] = {}]
  /\ UNCHANGED <<disk, clock, writes>>

\* retain(): the observations in a token of their own, which no watcher covers.
Retain(t, u) ==
  /\ token[t].state = "held" /\ token[u].state = "none" /\ manager.state = "open"
  /\ token' = [token EXCEPT ![u] = [token[t] EXCEPT !.watching = FALSE, !.precise = {}, !.verdict = "none"]]
  /\ manager' = [manager EXCEPT !.references = @ + 1]
  /\ touched' = [touched EXCEPT ![u] = {}]
  /\ UNCHANGED <<disk, clock, writes, notices>>

\* close() by the owner of a private manager.
Close ==
  /\ manager.state = "open"
  /\ manager' = [Fresh EXCEPT !.state = "closed", !.epoch = manager.epoch, !.references = manager.references]
  /\ notices' = <<>>
  /\ UNCHANGED <<disk, clock, writes, token, touched>>

----------------------------------------------------------------------------
(* Seals and validations: inspect(). *)

Check(t) ==
  /\ token[t].state = "held" /\ token[t].checks < MaxChecks
  /\ \E sealing \in BOOLEAN :
       /\ sealing => token[t].verdict = "none"
       /\ token' = [token EXCEPT ![t].state = "turning", ![t].sealing = sealing, ![t].checks = @ + 1,
                                 ![t].left = token[t].deps]
  /\ UNCHANGED <<disk, clock, writes, notices, manager, touched>>

Verdict(t, word) == [token EXCEPT ![t].state = "held", ![t].verdict = word, ![t].left = {},
                                  ![t].again = [p \in Paths |-> Unread]]

\* Only a seal lets the event loop turn before it asks the watchers.
Turned(t) == IF token[t].sealing /\ manager.state = "open" THEN Delivered(manager) ELSE manager

FirstLook(t) ==
  /\ token[t].state = "turning"
  /\ manager' = Turned(t)
  /\ notices' = IF token[t].sealing THEN <<>> ELSE notices
  /\ token' = IF Invalidation(Turned(t), t) THEN Verdict(t, "expired")
              ELSE [token EXCEPT ![t].state = "rereading"]
  /\ UNCHANGED <<disk, clock, writes, touched>>

RereadOne(t, p) ==
  /\ token[t].state = "rereading" /\ p \in token[t].left
  /\ token' = [token EXCEPT ![t].left = @ \ {p}, ![t].again[p] = disk[p]]
  /\ UNCHANGED <<disk, clock, writes, notices, manager, touched>>

\* The fingerprints must agree; for a seal the stamps as well.
Agrees(t, p) ==
  /\ token[t].again[p].val = token[t].seen[p].val
  /\ token[t].sealing => token[t].again[p].at = token[t].seen[p].at

\* Mutant: what the watchers delivered during the second reading is not asked for.
LateNever(m, t) == m.state # "open"

Late(m, t) == Invalidation(m, t)

LastLook(t) ==
  /\ token[t].state = "rereading" /\ token[t].left = {}
  /\ manager' = Turned(t)
  /\ notices' = IF token[t].sealing THEN <<>> ELSE notices
  /\ token' = Verdict(t, IF Late(Turned(t), t) \/ \E p \in token[t].deps : ~Agrees(t, p) THEN "expired"
                         ELSE IF token[t].sealing THEN "sealed" ELSE "valid")
  /\ UNCHANGED <<disk, clock, writes, touched>>

----------------------------------------------------------------------------
VersionsNext ==
  \/ \E p \in Paths, v \in Values : HostWrites(p, v)
  \/ Deliver \/ WatcherFails \/ StartWatching \/ Close
  \/ \E t \in Tokens :
       \/ Capture(t) \/ WatchPrecisely(t) \/ CaptureTurn(t) \/ Hold(t) \/ Release(t)
       \/ Check(t) \/ FirstLook(t) \/ LastLook(t)
       \/ \E p \in Paths : ReadOne(t, p) \/ RereadOne(t, p)
       \/ \E u \in Tokens : Retain(t, u)

VersionsSpec == VersionsInit /\ [][VersionsNext]_versionsVars

----------------------------------------------------------------------------
Live == {t \in Tokens : token[t].state \notin {"none", "released"}}

\* A watched token that was sealed saw every write of the host: none of its dependencies was written between
\* the capture and the seal, not even back to what it was within one tick of the file system's clock
\* (seal(): two questions to the watchers around the second reading, history and reliability included).
SealedUntouched ==
  \A t \in Tokens : token[t].verdict = "sealed" /\ token[t].watching => touched[t] = {}

\* Watches and managers are returned by the last token that holds them, and no earlier: a file is watched as
\* often as a live token watches it, and the manager is there exactly while a token refers to it (releaseCapture).
WatchesReturned ==
  /\ manager.references = Cardinality(Live)
  /\ manager.state = "open" => /\ Live # {}
                               /\ \A p \in Paths : manager.precise[p] = Cardinality({t \in Live : p \in token[t].precise})
  /\ manager.state = "idle" => manager = Fresh /\ Live = {}

-------------------------------------------------------------------------------
(***************************************************************************)
(* The preparations of a ResourceReadView (src/src/resource-version.ts):   *)
(* calls ask one view for a computed value by its key, share a build under *)
(* way or a retained one, build otherwise, and a build may ask the view    *)
(* for other keys.  Meanwhile the inputs are invalidated, the view is      *)
(* sealed, callers give up and the view is disposed of.                    *)
(*                                                                         *)
(* A build has the identity of the call that started it.  The lookup in    *)
(* the views of other tokens is left out.                                  *)
(***************************************************************************)

CONSTANTS
  Keys,
  Roots,      \* calls of the view's user
  Nested,     \* calls made by builds
  MaxDepth,   \* bound on the nesting of builds
  MaxBytes,   \* the budget: a retained value costs 1
  MaxTroubles \* bound on the aborts, failed builds and invalidations of one run

Calls == Roots \cup Nested
None == 0

VARIABLES
  call,     \* each call of prepare()
  build,    \* the PreparedResource each call may have started
  table,    \* prepared.bindings: the build known under a key
  view      \* the view: open, sealed to new values, failed, its lane, its epoch and bytes

preparationsVars == <<call, build, table, view>>

NoCall == [phase |-> "none", key |-> None, parent |-> None, depth |-> 0, using |-> None, tried |-> FALSE,
           aborted |-> FALSE, result |-> "none", stale |-> FALSE]
NoBuild == [state |-> "none", key |-> None, holders |-> {}, borrowers |-> {}, child |-> None, epoch |-> 0,
            aborted |-> FALSE, declined |-> FALSE, revoked |-> FALSE, retained |-> FALSE, outdated |-> FALSE,
            release |-> "no"]

PreparationsInit ==
  /\ \E asked \in [Roots -> Keys] :
       call = [c \in Calls |-> IF c \in Roots THEN [NoCall EXCEPT !.phase = "looking", !.key = asked[c]] ELSE NoCall]
  /\ build = [c \in Calls |-> NoBuild]
  /\ table = [k \in Keys |-> None]
  /\ \E sealed \in BOOLEAN : view = [sealed |-> sealed, lane |-> "open", epoch |-> 0, bytes |-> 0,
                                        troubles |-> 0]

Trouble == view.troubles < MaxTroubles

Troubled == [view EXCEPT !.troubles = @ + 1]

Failed == view.lane # "open"   \* dispose() sets the failure and seals the lane at once

----------------------------------------------------------------------------
(* Sharing. *)

\* What the build of b waits for: the build its nested call uses.
Waiting(b) == IF b = None \/ build[b].child = None THEN None ELSE call[build[b].child].using

\* preparationWaitsFor(): b or something b waits for is the target.
WaitsFor(b, target) ==
  LET chain[n \in 0..Cardinality(Calls)] == IF n = 0 THEN b ELSE Waiting(chain[n - 1])
  IN target # None /\ \E n \in DOMAIN chain : chain[n] = target

Compatible(b) ==
  /\ b # None
  /\ ~build[b].revoked
  /\ build[b].retained \/ ~build[b].aborted

Joinable(c) ==
  LET b == table[call[c].key]
  IN Compatible(b) /\ ~call[c].tried /\ ~WaitsFor(b, call[c].parent)

Joined(c, b) == [call EXCEPT ![c].phase = "joined", ![c].using = b, ![c].stale = build[b].outdated /\ b # c]

----------------------------------------------------------------------------
(* Calls. *)

\* A call made in time: its view is open and its signal, for a nested call that of the build, not aborted.
Open(c) == /\ call[c].phase = "looking" /\ ~Failed
           /\ c \in Nested => ~build[call[c].parent].aborted

Join(c) ==
  /\ Open(c) /\ Joinable(c)
  /\ LET b == table[call[c].key]
     IN /\ call' = Joined(c, b)
        /\ build' = [build EXCEPT ![b].borrowers = @ \cup {c},
                                  ![b].holders = @ \cup {c}]
  /\ UNCHANGED <<table, view>>

\* A build of one's own takes the key unless a live one has it.  If it meets inputs of other tokens (foreign),
\* its sharers cannot answer for them and are declined.
Build(c) ==
  /\ Open(c) /\ ~Joinable(c)
  /\ LET b == table[call[c].key]
     IN table' = IF b = None \/ (~build[b].retained /\ build[b].aborted)
                 THEN [table EXCEPT ![call[c].key] = c] ELSE table
  /\ \E foreign \in BOOLEAN :
       build' = [build EXCEPT ![c] = [NoBuild EXCEPT !.state = "building", !.key = call[c].key, !.epoch = view.epoch,
                                                   !.borrowers = {c}, !.holders = {c}, !.declined = foreign]]
  /\ call' = Joined(c, c)
  /\ UNCHANGED view

TooLate(c) ==
  /\ call[c].phase = "looking" /\ ~Open(c)
  /\ call' = [call EXCEPT ![c] = [NoCall EXCEPT !.phase = "done", !.result = "failed"]]
  /\ UNCHANGED <<build, table, view>>

\* SharedAbortScope: the last holder that leaves aborts the build.
Withdrawn(b, c) == [build[b] EXCEPT !.holders = @ \ {c}, !.aborted = @ \/ build[b].holders = {c}]

\* The caller's signal; a nested call has the signal of the build that made it.
Abort(c) ==
  /\ call[c].phase \in {"joined", "consuming"} /\ ~call[c].aborted
  /\ IF c \in Nested THEN build[call[c].parent].aborted /\ view' = view ELSE Trouble /\ view' = Troubled
  /\ call' = [call EXCEPT ![c].aborted = TRUE]
  /\ build' = [build EXCEPT ![call[c].using] = Withdrawn(call[c].using, c)]
  /\ UNCHANGED table

\* What the wait for a build ends with.
Readiness(c) ==
  LET b == call[c].using
  IN IF call[c].aborted THEN "failed"
     ELSE IF build[b].state = "ready"
          THEN IF Failed THEN "failed"
               ELSE IF c # b /\ build[b].declined THEN "retry" ELSE "value"
     ELSE IF build[b].state = "failed" THEN IF c = b \/ Failed THEN "failed" ELSE "retry"
     ELSE IF c # b /\ build[b].declined THEN IF Failed THEN "failed" ELSE "retry"
     ELSE "wait"

Consume(c) ==
  /\ call[c].phase = "joined" /\ Readiness(c) = "value"
  /\ call' = [call EXCEPT ![c].phase = "consuming"]
  /\ UNCHANGED <<build, table, view>>

\* A build nobody borrows is released, unless it is retained and still good.
Free(b) == b.borrowers = {} /\ ~(b.retained /\ ~b.revoked)

\* The finally of use(): withdraw, stop borrowing, release what nobody needs.
Left(c) ==
  LET b == call[c].using
      gone == [Withdrawn(b, c) EXCEPT !.borrowers = @ \ {c}]
  IN [build EXCEPT ![b] = [gone EXCEPT !.release = IF Free(gone) /\ @ = "no" THEN "asked" ELSE @]]

Leave(c) ==
  /\ \/ call[c].phase = "joined" /\ Readiness(c) \in {"failed", "retry"}
     \/ call[c].phase = "consuming"
  /\ build' = Left(c)
  /\ call' = [call EXCEPT ![c].phase = "releasing",
                          ![c].result = IF call[c].phase = "consuming" THEN IF Failed THEN "failed" ELSE "value"
                                        ELSE Readiness(c)]
  /\ UNCHANGED <<table, view>>

\* The call waits for a release it caused, unless it was aborted.
Return(c) ==
  /\ call[c].phase = "releasing"
  /\ ~call[c].aborted /\ build[call[c].using].borrowers = {} => build[call[c].using].release # "asked"
  /\ call' = [call EXCEPT ![c] = IF call[c].result = "retry"
                                 THEN [@ EXCEPT !.phase = "looking", !.using = None, !.tried = TRUE, !.result = "none", !.stale = FALSE]
                                 ELSE [NoCall EXCEPT !.phase = "done", !.result = call[c].result]]
  /\ UNCHANGED <<build, table, view>>

----------------------------------------------------------------------------
(* Builds. *)

\* A build asks its view for another value.
Nest(b, n, k) ==
  /\ build[b].state = "building" /\ build[b].child = None /\ call[b].depth < MaxDepth
  /\ ~build[b].aborted
  /\ call[n].phase = "none" /\ \A m \in Nested : m < n => call[m].phase # "none"
  /\ build' = [build EXCEPT ![b].child = n]
  /\ call' = [call EXCEPT ![n] = [NoCall EXCEPT !.phase = "looking", !.key = k, !.parent = b,
                                                !.depth = call[b].depth + 1]]
  /\ UNCHANGED <<table, view>>

ChildDone(b) == build[b].child # None => call[build[b].child].phase = "done"

\* The value is retained if its inputs were not invalidated meanwhile, it fits and its key is free.
Retainable(b) ==
  /\ build[b].epoch = view.epoch
  /\ ~view.sealed /\ view.bytes < MaxBytes
  /\ table[build[b].key] \in {None, b}

BuildEnds(b) ==
  /\ build[b].state = "building" /\ ChildDone(b) /\ ~build[b].aborted /\ ~Failed
  /\ build[b].child # None => call[build[b].child].result = "value"
  /\ IF Retainable(b)
     THEN /\ table' = [table EXCEPT ![build[b].key] = b]
          /\ view' = [view EXCEPT !.bytes = @ + 1]
          /\ build' = [build EXCEPT ![b].state = "ready", ![b].retained = TRUE]
     ELSE /\ build' = [build EXCEPT ![b].state = "ready"]
          /\ UNCHANGED <<table, view>>
  /\ UNCHANGED call

\* An aborted build, one without its nested value and one of a failed view fail; any other may.
BuildFails(b) ==
  /\ build[b].state = "building" /\ ChildDone(b)
  /\ IF \/ build[b].aborted \/ Failed
        \/ build[b].child # None /\ call[build[b].child].result # "value"
     THEN view' = view ELSE Trouble /\ view' = Troubled
  /\ build' = [build EXCEPT ![b].state = "failed"]
  /\ UNCHANGED <<call, table>>

\* The dispose of a PreparedResource: after the build, out of the table, its bytes returned.
Disposed(b) ==
  /\ build[b].release = "asked" /\ build[b].state \in {"ready", "failed"}
  /\ build' = [build EXCEPT ![b] = [NoBuild EXCEPT !.state = "gone", !.release = "done"]]
  /\ table' = [k \in Keys |-> IF table[k] = b THEN None ELSE table[k]]
  /\ view' = IF build[b].retained THEN [view EXCEPT !.bytes = @ - 1] ELSE view
  /\ UNCHANGED call

----------------------------------------------------------------------------
(* The view. *)

Known(b) == build[b].key \in Keys /\ table[build[b].key] = b

\* invalidate(): an unfinished build has no dependencies yet and is revoked by whatever changed.
Hit(b, changed) == Known(b) /\ (build[b].state = "building" \/ build[b].key \in changed)

Invalidate(changed) ==
  /\ Trouble /\ ~Failed /\ changed # {}
  /\ view' = [Troubled EXCEPT !.epoch = @ + 1]
  /\ build' = [b \in Calls |->
       LET old == [build[b] EXCEPT !.outdated = @ \/ build[b].state = "building" \/ build[b].key \in changed]
       IN IF ~Hit(b, changed) THEN old
          ELSE [old EXCEPT !.revoked = TRUE,
                           !.release = IF build[b].borrowers = {} /\ @ = "no" THEN "asked" ELSE @]]
  /\ table' = [k \in Keys |-> IF table[k] # None /\ Hit(table[k], changed) THEN None ELSE table[k]]
  /\ UNCHANGED call

Dispose ==
  /\ view.lane = "open"
  /\ view' = [view EXCEPT !.lane = "draining"]
  /\ UNCHANGED <<call, build, table>>

Idle ==
  /\ \A c \in Calls : call[c].phase \in {"none", "done"}
  /\ \A b \in Calls : build[b].state # "building" /\ build[b].release # "asked"

\* The lane is drained: what the view still owns is released, at last the table is cleared.
ReleaseOwned ==
  /\ view.lane = "draining" /\ Idle
  /\ view' = [view EXCEPT !.lane = "releasing"]
  /\ build' = [b \in Calls |-> IF build[b].retained /\ build[b].release = "no"
                               THEN [build[b] EXCEPT !.release = "asked"] ELSE build[b]]
  /\ UNCHANGED <<call, table>>

Finalize ==
  /\ view.lane = "releasing" /\ Idle
  /\ view' = [view EXCEPT !.lane = "closed", !.bytes = 0]
  /\ table' = [k \in Keys |-> None]
  /\ UNCHANGED <<call, build>>

----------------------------------------------------------------------------
CallStep(c) == Join(c) \/ Build(c) \/ TooLate(c) \/ Consume(c) \/ Leave(c) \/ Return(c)

BuildStep(b) == BuildEnds(b) \/ BuildFails(b) \/ Disposed(b)

PreparationsNext ==
  \/ \E c \in Calls : CallStep(c) \/ Abort(c) \/ BuildStep(c)
  \/ \E b \in Calls, n \in Nested, k \in Keys : Nest(b, n, k)
  \/ \E changed \in SUBSET Keys : Invalidate(changed)
  \/ Dispose \/ ReleaseOwned \/ Finalize

PreparationsSpec == PreparationsInit /\ [][PreparationsNext]_preparationsVars

----------------------------------------------------------------------------
\* A call is never served by a build whose inputs had been invalidated before the call looked
\* (invalidate() revokes unfinished builds, and a build that outlived an invalidation is not retained).
NeverOutdated == \A c \in Calls : ~call[c].stale

\* The budget counts exactly the retained values, and a value is neither freed while a call borrows it nor
\* given up while a caller still waits for it (reserve, dispose and the SharedAbortScope of a preparation).
BorrowedStays ==
  /\ view.bytes <= MaxBytes
  /\ view.lane # "closed" => view.bytes = Cardinality({b \in Calls : build[b].retained})
  /\ \A c \in Calls : call[c].phase \in {"joined", "consuming"} =>
       /\ build[call[c].using].release = "no"
       /\ ~call[c].aborted /\ build[call[c].using].state = "building" => ~build[call[c].using].aborted

\* No build waits for itself through the calls of other builds, however the builds ask for each other's keys:
\* nothing would ever end such a wait (preparationWaitsFor walks the waits when a call looks, not when they form).
NoCircle ==
  \A b \in Calls : build[b].state = "building" /\ build[b].child # None =>
    LET after[n \in 0..Cardinality(Calls)] == IF n = 0 THEN Waiting(b) ELSE Waiting(after[n - 1])
    IN \A n \in DOMAIN after : after[n] # b
===============================================================================
