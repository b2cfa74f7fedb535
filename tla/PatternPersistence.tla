------------------------- MODULE PatternPersistence -------------------------
(***************************************************************************)
(* How what is learned outlives a session (src/pattern-aware.ts): stores   *)
(* are shared by the sessions of a workspace through leases, written to    *)
(* one file by whichever flush finds them dirty, and loaded by the next    *)
(* store of the workspace.  What is learned is a set of items; trimming    *)
(* and the contents of the file are left out.  Other processes that write  *)
(* the same file are not modelled; a crash of this one is.                 *)
(***************************************************************************)
EXTENDS PatternSource

CONSTANTS
  Sessions, Items,
  Stores,        \* bound: the stores one workspace may have had, 1..n
  MaxTroubles    \* bound: failed writes and crashes

\* Stores have numbers, 0 is none; a session is not a store.
ASSUME PersistSetting == Stores \subseteq Nat \ {0} /\ Sessions \cap Stores = {}

VARIABLES
  file,      \* what the file holds
  current,   \* the store acquirers share, 0 for none
  store,     \* store[g]: [made, ready, refs, items, dirty, timer, write, snap]
  lease,     \* lease[s]: [phase, on]
  flush,     \* flush[f]: "idle" or "wait", for a session or a store's own timer
  troubles

persistVars == <<file, current, store, lease, flush, troubles>>

NoStore == [made |-> FALSE, ready |-> FALSE, refs |-> 0, items |-> {}, dirty |-> FALSE, timer |-> FALSE,
            write |-> "none", snap |-> {}]
Flushers == Sessions \cup Stores
On(f) == IF f \in Stores THEN f ELSE lease[f].on

PersistInit ==
  /\ file = {} /\ current = 0 /\ store = [g \in Stores |-> NoStore] /\ troubles = 0
  /\ lease = [s \in Sessions |-> [phase |-> "none", on |-> 0]] /\ flush = [f \in Flushers |-> "idle"]
-----------------------------------------------------------------------------
(* Leases *)

\* acquirePatternAwareStore: the store of the workspace, or a new one that loads.
Acquire(s) ==
  /\ lease[s].phase = "none"
  /\ \E g \in Stores :
       /\ IF current # 0 THEN g = current ELSE ~store[g].made /\ \A h \in Stores : h < g => store[h].made
       /\ store' = [store EXCEPT ![g].made = TRUE, ![g].refs = @ + 1]
       /\ lease' = [lease EXCEPT ![s] = [phase |-> "opening", on |-> g]] /\ current' = g
  /\ UNCHANGED <<file, flush, troubles>>

\* load: the store starts from the file.
Load(g) ==
  /\ store[g].made /\ ~store[g].ready
  /\ store' = [store EXCEPT ![g].ready = TRUE, ![g].items = file] /\ UNCHANGED <<file, current, lease, flush, troubles>>

Opened(s) ==
  /\ lease[s].phase = "opening" /\ store[On(s)].ready
  /\ lease' = [lease EXCEPT ![s].phase = "held"] /\ UNCHANGED <<file, current, store, flush, troubles>>

\* persist: what is learned makes the store dirty, and a timer will write it.
Persisted(g, i) == [store EXCEPT ![g].items = @ \cup {i}, ![g].dirty = TRUE, ![g].timer = TRUE]

Learn(s, i) ==
  /\ lease[s].phase = "held" /\ i \notin store[On(s)].items /\ store' = Persisted(On(s), i)
  /\ UNCHANGED <<file, current, lease, flush, troubles>>

-----------------------------------------------------------------------------
(* flush.  What a flush checks it checks in one go with what made it check.  *)

\* Mutant: the store is forgotten while its last write may still be under way.
ForgottenAtOnce(S, l) == IF current # 0 /\ \A s \in Sessions : l[s].on = current => l[s].phase = "releasing" THEN 0 ELSE current
\* The finally of the releases S, once their flush has ended; l are the leases by then.
Forgotten(S, l) == IF (\E s \in S : On(s) = current) /\ store[current].refs = 0 THEN 0 ELSE current

\* The flushes that waited for the write of store g end, and with them the releases.
Finish(g) ==
  LET S == {s \in Sessions : flush[s] = "wait" /\ On(s) = g /\ lease[s].phase = "releasing"}
  IN /\ flush' = [f \in Flushers |-> IF flush[f] = "wait" /\ On(f) = g THEN "idle" ELSE flush[f]]
     /\ lease' = [s \in Sessions |-> IF s \in S THEN [phase |-> "done", on |-> 0] ELSE lease[s]]
     /\ current' = Forgotten(S, lease')

Clean(g) == store[g].write = "none" /\ ~store[g].dirty
Awaited(g) == [store EXCEPT ![g].timer = FALSE, ![g].write = IF @ = "none" THEN "queued" ELSE @]

\* The timer, or a finished turn, asks for a write: one write serves all who wait.
Ask(f) ==
  /\ flush[f] = "idle" /\ IF f \in Stores THEN store[f].timer ELSE lease[f].phase = "held"
  /\ ~Clean(On(f)) /\ flush' = [flush EXCEPT ![f] = "wait"] /\ store' = Awaited(On(f))
  /\ UNCHANGED <<file, current, lease, troubles>>

\* The lease is given back, and the store is written before it is forgotten.
GiveBack(s) ==
  /\ lease[s].phase = "held" /\ flush[s] = "idle"
  /\ LET g == On(s)  left == [store[g] EXCEPT !.refs = @ - 1, !.timer = FALSE]
     IN IF Clean(g)
        THEN /\ store' = [store EXCEPT ![g] = left] /\ lease' = [lease EXCEPT ![s] = [phase |-> "done", on |-> 0]]
             /\ current' = (IF current = g /\ left.refs = 0 THEN 0 ELSE current) /\ UNCHANGED flush
        ELSE /\ store' = [store EXCEPT ![g] = [left EXCEPT !.write = IF @ = "none" THEN "queued" ELSE @]]
             /\ lease' = [lease EXCEPT ![s].phase = "releasing"] /\ flush' = [flush EXCEPT ![s] = "wait"]
             /\ current' = Forgotten({}, lease')
  /\ UNCHANGED <<file, troubles>>

\* persistedLearningState, and the patterns: what a write takes.
Written(g) == store[g].items

\* The write takes what the store holds when it starts; what comes later is dirty again.
WriteStart(g) ==
  /\ store[g].write = "queued"
  /\ store' = [store EXCEPT ![g].write = "writing", ![g].snap = Written(g), ![g].dirty = FALSE]
  /\ UNCHANGED <<file, current, lease, flush, troubles>>

\* Mutant: what is learned while a write is under way is taken as written.
AgainNever(g) == FALSE
Again(g) == store[g].dirty

\* writeJsonFile replaces the file as a whole; the loop writes again what came meanwhile.
WriteEnd(g) ==
  /\ store[g].write = "writing" /\ file' = store[g].snap /\ UNCHANGED troubles
  /\ store' = [store EXCEPT ![g].write = IF Again(g) THEN "queued" ELSE "none", ![g].snap = {},
                            ![g].dirty = Again(g), ![g].timer = FALSE]
  /\ IF Again(g) THEN UNCHANGED <<flush, lease, current>> ELSE Finish(g)

\* A failed write leaves the store dirty and fails every flush that waits for it.
WriteFails(g) ==
  /\ store[g].write = "writing" /\ troubles < MaxTroubles /\ troubles' = troubles + 1 /\ Finish(g)
  /\ store' = [store EXCEPT ![g].write = "none", ![g].snap = {}, ![g].dirty = TRUE] /\ UNCHANGED file

\* The process ends without notice: only the file is left, and other sessions may come.
Crash ==
  /\ current # 0 /\ troubles < MaxTroubles /\ troubles' = troubles + 1 /\ current' = 0
  /\ store' = [g \in Stores |-> [NoStore EXCEPT !.made = store[g].made, !.ready = store[g].made]]
  /\ lease' = [s \in Sessions |-> IF lease[s].phase = "none" THEN lease[s] ELSE [phase |-> "done", on |-> 0]]
  /\ flush' = [f \in Flushers |-> "idle"] /\ UNCHANGED file

PersistNext ==
  \/ \E s \in Sessions : Acquire(s) \/ Opened(s) \/ GiveBack(s) \/ \E i \in Items : Learn(s, i)
  \/ \E g \in Stores : Load(g) \/ WriteStart(g) \/ WriteEnd(g) \/ WriteFails(g)
  \/ (\E f \in Flushers : Ask(f)) \/ Crash

\* Timers fire, and promises and the disk answer.
PersistRuns == \E g \in Stores : WriteStart(g) \/ WriteEnd(g) \/ Ask(g)

PersistSpec == PersistInit /\ [][PersistNext]_persistVars /\ WF_persistVars(PersistRuns)
-----------------------------------------------------------------------------
\* What the file once held no later store of the workspace writes away: stores of one
\* workspace never overlap (acquirePatternAwareStore forgets a store after its flush only).
FileOnlyGrowsStep == file \subseteq file'
FileOnlyGrows == [][FileOnlyGrowsStep]_persistVars

\* A store that is clean has all it learned in the file (flush clears dirty as its write starts).
CleanIsWritten ==
  \A g \in Stores : ~store[g].dirty /\ store[g].write = "none" => store[g].items \subseteq file

\* What the promise that learning reaches the file is stated with (persist).
Unwritten(g) == store[g].dirty
Troubled == troubles > 0

\* Each finished turn is learned once, whole and in its order, and a source that was disposed of
\* holds no store (PatternSource); a store that is clean has all it learned in the file.
LearningSafe == LearnsInOrder /\ LeasesReturned /\ CleanIsWritten

\* A prediction knows every earlier turn, and silence is kept only on what the runtime still holds
\* (PatternSource); what the file once held no later store writes away.
LearningSteps == [][PredictsOnAllStep /\ SilenceCoveredStep /\ FileOnlyGrowsStep]_<<sourceVars, persistVars>>
=============================================================================
