----------------------------- MODULE ReuseStore -----------------------------
(***************************************************************************)
(* The provenance store of src/reuse-store.ts: certificates, persistent    *)
(* input versions and process checkpoints in one SQLite database, their    *)
(* artifacts as files of a content-addressed directory beside it, and the  *)
(* processes that share both.                                              *)
(*                                                                         *)
(* A transaction of the database is visible when it commits and gone when  *)
(* its process dies; a file written or removed inside it is neither: it    *)
(* is visible at once and survives the rollback.  A collector reads the    *)
(* store without the lock, decides, and deletes object by object, each in  *)
(* a transaction of its own between which anybody may publish.  What keeps *)
(* it off new records is the change log: every commit writes its revision  *)
(* against the keys it named.                                              *)
(*                                                                         *)
(* Certificates and input versions are one kind of root here (Record): the *)
(* store treats them alike.  A commit that names no key raises the         *)
(* revision in the code and leaves it in the model: revisions are only     *)
(* compared, and no comparison tells the two apart.                        *)
(***************************************************************************)
EXTENDS Naturals, FiniteSets

CONSTANTS Publisher,    \* flows that publish: withPublication, put, handoffs
          Collector,    \* flows that run gc() or clear()
          Restorer,     \* flows that look up and claim checkpoints
          Record,       \* certificate and input version identities
          Digest,       \* artifacts
          Needs,        \* Record -> the artifacts its value refers to
          Image,        \* the artifacts a checkpoint's value refers to
          NoOne, NoRoot,
          MaxTicket,    \* bound on the tickets issued
          MaxClaim,     \* bound on the claims made
          MaxRevision   \* bound on the commits that name a key

Ticket == 1 .. MaxTicket
Root == Record \cup Ticket
Key == Root \cup Digest     \* the keys of the change log

ASSUME StoreAssumption ==
  /\ Needs \in [Record -> SUBSET Digest] /\ Image \subseteq Digest
  /\ MaxTicket \in Nat /\ MaxClaim \in Nat /\ MaxRevision \in Nat
  /\ Publisher \cap Collector = {}
  /\ NoOne \notin Publisher \cup Collector
  /\ NoRoot \notin Root
  /\ Root \cap Digest = {} /\ Record \cap Ticket = {}

VARIABLES
  db,       \* the committed database
  draft,    \* the database as the open transaction sees it
  files,    \* the artifacts present in the directory
  writer,   \* who holds the write transaction
  touched,  \* the keys the open transaction will name
  root,     \* the root the open transaction has written
  mine,     \* publisher -> the ticket it was issued and has not published, 0
  gc,       \* collector -> where it stands and what it has read
  hold,     \* restorer -> the claim it holds
  claims,   \* claims made so far: the next random claim identity
  lost,     \* history: artifacts an unfinished clear has removed
  stamp,    \* history: root -> revision of its last publication
  adopted   \* history: ticket -> times a native process adopted it

vars == <<db, draft, files, writer, touched, root, mine, gc, hold, claims,
          lost, stamp, adopted>>

Refs(k) == IF k \in Record THEN Needs[k] ELSE Image

Idle == [stage |-> "idle", rev |-> 0, rows |-> {}, valued |-> {}, keys |-> {},
         strays |-> {}]
NoHold == [ticket |-> 0, claim |-> 0, used |-> FALSE]

Database ==
  [ rows : SUBSET Root,                 \* rows with a value
    issued : SUBSET Ticket,             \* checkpoint rows whose value is null
    seq : 0 .. MaxTicket,               \* checkpoint_owner.sequence
    claim : [Ticket -> Nat],            \* process_checkpoints.claim, 0 for null
    log : [Key -> Nat],    \* changes, 0: no entry
    cleared : Nat,                      \* changes['.clear']
    rev : Nat ]                         \* changes['']

Init ==
  /\ db = [rows |-> {}, issued |-> {}, seq |-> 0,
           claim |-> [t \in Ticket |-> 0],
           log |-> [k \in Key |-> 0], cleared |-> 0, rev |-> 0]
  /\ draft = db /\ files = {} /\ writer = NoOne /\ touched = {} /\ root = NoRoot
  /\ mine = [p \in Publisher |-> 0]
  /\ gc = [c \in Collector |-> Idle]
  /\ hold = [r \in Restorer |-> NoHold]
  /\ claims = 0 /\ lost = {}
  /\ stamp = [k \in Root |-> 0]
  /\ adopted = [t \in Ticket |-> 0]

-----------------------------------------------------------------------------
(* The write transaction.                                                  *)

\* BEGIN IMMEDIATE: one writer among all processes
Begin(w) ==
  /\ writer = NoOne
  /\ writer' = w /\ draft' = db /\ touched' = {} /\ root' = NoRoot

\* what a commit of d leaves: a revision against every key the transaction named
Stamped(d, keys) ==
  IF keys = {} THEN d
  ELSE [d EXCEPT !.rev = d.rev + 1,
                 !.log = [k \in Key |-> IF k \in keys THEN d.rev + 1 ELSE d.log[k]]]

\* the transaction ends with d in the database
Close(d) ==
  /\ db' = d /\ draft' = d
  /\ writer' = NoOne /\ touched' = {} /\ root' = NoRoot

\* ROLLBACK, or the death of the writer's process: files stay as they are
Rollback == Close(db)

\* a row, with its claim, goes
Without(d, k) ==
  [d EXCEPT !.rows = @ \ {k}, !.issued = @ \ {k},
            !.claim = [t \in Ticket |-> IF t = k THEN 0 ELSE d.claim[t]]]

-----------------------------------------------------------------------------
(* Publication.                                                            *)

\* withPublication, put and putInputVersion: the transaction opens
Publish(p) ==
  /\ db.rev < MaxRevision
  /\ Begin(p)
  /\ UNCHANGED <<db, files, mine, gc, hold, claims, lost, stamp, adopted>>

\* publishImmutable, inside the transaction: the file is there at once
Share(p, d) ==
  /\ writer = p
  /\ root # NoRoot => d \in Refs(root)
  /\ files' = files \cup {d} /\ lost' = lost \ {d}
  /\ touched' = touched \cup {d}
  /\ UNCHANGED <<db, draft, writer, root, mine, gc, hold, claims, stamp, adopted>>

\* Mutant: a publication names its row and not the artifacts it adopts.
WriteRecordAlone(p, k) ==
  /\ writer = p /\ root = NoRoot
  /\ draft' = [draft EXCEPT !.rows = @ \cup {k}]
  /\ root' = k /\ touched' = touched \cup {k}
  /\ UNCHANGED <<db, files, writer, mine, gc, hold, claims, lost, stamp, adopted>>

\* publishRoot writes the row of a certificate or an input version
WriteRecord(p, k) ==
  /\ writer = p /\ root = NoRoot
  /\ draft' = [draft EXCEPT !.rows = @ \cup {k}]
  /\ root' = k /\ touched' = touched \cup {k} \cup Refs(k)
  /\ UNCHANGED <<db, files, writer, mine, gc, hold, claims, lost, stamp, adopted>>

\* putProcessCheckpoint: only a ticket issued and never published takes a value
WriteCheckpoint(p, t) ==
  /\ writer = p /\ root = NoRoot /\ touched = {}
  /\ mine[p] = t /\ t \in draft.issued
  /\ draft' = [draft EXCEPT !.rows = @ \cup {t}, !.issued = @ \ {t}]
  /\ root' = t /\ touched' = {t} \cup Refs(t)
  /\ mine' = [mine EXCEPT ![p] = 0]
  /\ UNCHANGED <<db, files, writer, gc, hold, claims, lost, stamp, adopted>>

\* the closure of the root is loaded and verified before the commit
Complete == root # NoRoot => Refs(root) \subseteq files

CommitPublication(p) ==
  /\ writer = p /\ Complete
  /\ stamp' = IF root = NoRoot THEN stamp ELSE [stamp EXCEPT ![root] = db.rev + 1]
  /\ Close(Stamped(draft, touched))
  /\ UNCHANGED <<files, mine, gc, hold, claims, lost, adopted>>

\* an artifact is missing, the ticket is gone, or the disk fails
AbortPublication(p) ==
  /\ writer = p
  /\ Rollback
  /\ mine' = [mine EXCEPT ![p] = 0]
  /\ UNCHANGED <<files, gc, hold, claims, lost, stamp, adopted>>

\* issueProcessCheckpoint: a transaction that names no key
IssueCheckpoint(p) ==
  /\ writer = NoOne /\ mine[p] = 0 /\ db.seq < MaxTicket
  /\ LET t == db.seq + 1 IN
       /\ Close([db EXCEPT !.seq = t, !.issued = @ \cup {t}])
       /\ mine' = [mine EXCEPT ![p] = t]
  /\ UNCHANGED <<files, gc, hold, claims, lost, stamp, adopted>>

PublisherStep(p) ==
  \/ Publish(p)
  \/ \E d \in Digest : Share(p, d)
  \/ \E k \in Record : WriteRecord(p, k)
  \/ \E t \in Ticket : WriteCheckpoint(p, t)
  \/ CommitPublication(p)
  \/ AbortPublication(p)
  \/ IssueCheckpoint(p)

-----------------------------------------------------------------------------
(* Restoring a checkpoint in a later process.                              *)

\* claimProcessCheckpoint: durable before any native proposal; it names the
\* ticket and none of the artifacts
ClaimCheckpoint(r, t) ==
  /\ writer = NoOne /\ hold[r] = NoHold
  /\ claims < MaxClaim
  /\ t \in db.rows /\ db.claim[t] = 0
  /\ Close(Stamped([db EXCEPT !.claim[t] = claims + 1], {t}))
  /\ claims' = claims + 1
  /\ hold' = [hold EXCEPT ![r] = [ticket |-> t, claim |-> claims + 1, used |-> FALSE]]
  /\ UNCHANGED <<files, mine, gc, lost, stamp, adopted>>

\* the held native process takes the image
Adopt(r) ==
  /\ hold[r] # NoHold /\ ~hold[r].used
  /\ hold' = [hold EXCEPT ![r].used = TRUE]
  /\ adopted' = [adopted EXCEPT ![hold[r].ticket] = @ + 1]
  /\ UNCHANGED <<db, draft, files, writer, touched, root, mine, gc, claims, lost, stamp>>

\* DELETE ... WHERE ticket=? AND claim=?, or the claim set back to null
Released(h, consumed) ==
  IF db.claim[h.ticket] # h.claim THEN db
  ELSE IF consumed THEN Without(db, h.ticket)
  ELSE [db EXCEPT !.claim[h.ticket] = 0]

\* the settlement, once: what was adopted is consumed
SettleClaim(r, consumed) ==
  /\ writer = NoOne /\ hold[r] # NoHold
  /\ hold[r].used => consumed
  /\ Close(Stamped(Released(hold[r], consumed), {hold[r].ticket}))
  /\ hold' = [hold EXCEPT ![r] = NoHold]
  /\ UNCHANGED <<files, mine, gc, claims, lost, stamp, adopted>>

\* the settlement is not admitted in time, or its process dies: still claimed
LoseClaim(r) ==
  /\ hold[r] # NoHold
  /\ hold' = [hold EXCEPT ![r] = NoHold]
  /\ UNCHANGED <<db, draft, files, writer, touched, root, mine, gc, claims, lost, stamp, adopted>>

RestorerStep(r) ==
  \/ \E t \in Ticket : ClaimCheckpoint(r, t)
  \/ Adopt(r)
  \/ \E consumed \in BOOLEAN : SettleClaim(r, consumed)
  \/ LoseClaim(r)

-----------------------------------------------------------------------------
(* Collection.                                                             *)

AtStage(c, s) == gc[c].stage = s

\* a step of a collector outside the lock
Unlocked == UNCHANGED <<db, draft, files, writer, touched, root, mine, hold,
                        claims, lost, stamp, adopted>>

\* gc(): the revision first
ReadRevision(c) ==
  /\ AtStage(c, "idle")
  /\ gc' = [gc EXCEPT ![c] = [Idle EXCEPT !.stage = "rows", !.rev = db.rev]]
  /\ Unlocked

\* inventory(): then the rows,
ReadRows(c) ==
  /\ AtStage(c, "rows")
  /\ gc' = [gc EXCEPT ![c].stage = "keys", ![c].valued = db.rows,
                      ![c].rows = db.rows \cup db.issued]
  /\ Unlocked

\* then the keys of the change log,
ReadKeys(c) ==
  /\ AtStage(c, "keys")
  /\ gc' = [gc EXCEPT ![c].stage = "files",
                      ![c].keys = {k \in Key : db.log[k] > 0}]
  /\ Unlocked

\* then the files, and what to keep: complete rows within the limits, which any
\* set of them may be, and their artifacts
ReadFiles(c, keep) ==
  /\ AtStage(c, "files")
  /\ keep \subseteq {k \in gc[c].valued : Refs(k) \subseteq files}
  /\ gc' = [gc EXCEPT ![c].stage = "collect",
                      ![c].rows = @ \ keep, ![c].valued = {},
                      ![c].strays = files \ UNION {Refs(k) : k \in keep},
                      ![c].keys = @ \ (gc[c].rows \cup files)]
  /\ Unlocked

\* Mutant: the collector looks for a clear only.
RenewedByClear(c, k) == db.cleared > gc[c].rev

\* changed since the revision was read: not for this collection
Renewed(c, k) == db.log[k] > gc[c].rev \/ db.cleared > gc[c].rev

\* the object is deleted together with its entry in the change log
Forget(d, k) == [d EXCEPT !.log[k] = 0]

\* a row, in one transaction
CollectRow(c, k) ==
  /\ AtStage(c, "collect") /\ writer = NoOne
  /\ k \in gc[c].rows
  /\ Close(IF Renewed(c, k) THEN db ELSE Forget(Without(db, k), k))
  /\ gc' = [gc EXCEPT ![c].rows = @ \ {k}]
  /\ UNCHANGED <<files, mine, hold, claims, lost, stamp, adopted>>

\* a file, after the rows: renewed, or young enough for the orphan grace
SkipFile(c, d) ==
  /\ AtStage(c, "collect") /\ writer = NoOne
  /\ gc[c].rows = {} /\ d \in gc[c].strays
  /\ gc' = [gc EXCEPT ![c].strays = @ \ {d}]
  /\ UNCHANGED <<db, draft, files, writer, touched, root, mine, hold, claims,
                 lost, stamp, adopted>>

\* or removed, while the transaction that drops its entry is open
RemoveFile(c, d) ==
  /\ AtStage(c, "collect") /\ writer = NoOne
  /\ gc[c].rows = {} /\ d \in gc[c].strays
  /\ ~Renewed(c, d)
  /\ writer' = c /\ draft' = Forget(db, d)
  /\ files' = files \ {d}
  /\ gc' = [gc EXCEPT ![c].stage = "remove", ![c].strays = @ \ {d}]
  /\ UNCHANGED <<db, touched, root, mine, hold, claims, lost, stamp, adopted>>

CommitRemoval(c) ==
  /\ AtStage(c, "remove")
  /\ Close(draft)
  /\ gc' = [gc EXCEPT ![c].stage = "collect"]
  /\ UNCHANGED <<files, mine, hold, claims, lost, stamp, adopted>>

\* an entry of the change log that had neither a row nor a file, after the files
CollectKey(c, k) ==
  /\ AtStage(c, "collect") /\ writer = NoOne
  /\ gc[c].rows = {} /\ gc[c].strays = {} /\ k \in gc[c].keys
  /\ Close(IF Renewed(c, k) THEN db ELSE Forget(Without(db, k), k))
  /\ gc' = [gc EXCEPT ![c].keys = @ \ {k}]
  /\ UNCHANGED <<files, mine, hold, claims, lost, stamp, adopted>>

EndCollection(c) ==
  /\ AtStage(c, "collect")
  /\ gc[c].rows = {} /\ gc[c].strays = {} /\ gc[c].keys = {}
  /\ gc' = [gc EXCEPT ![c] = Idle]
  /\ Unlocked

\* clear(): the payloads go first, file by file,
BeginClear(c) ==
  /\ AtStage(c, "idle") /\ db.rev < MaxRevision
  /\ Begin(c)
  /\ gc' = [gc EXCEPT ![c].stage = "clear"]
  /\ UNCHANGED <<db, files, mine, hold, claims, lost, stamp, adopted>>

ClearFile(c, d) ==
  /\ AtStage(c, "clear") /\ d \in files
  /\ files' = files \ {d} /\ lost' = lost \cup {d}
  /\ UNCHANGED <<db, draft, writer, touched, root, mine, gc, hold, claims, stamp, adopted>>

\* then every row and the change log, but for the revision and the issuer
Cleared(d) ==
  [d EXCEPT !.rows = {}, !.issued = {}, !.claim = [t \in Ticket |-> 0],
            !.log = [k \in Key |-> 0], !.rev = d.rev + 1, !.cleared = d.rev + 1]

CommitClear(c) ==
  /\ AtStage(c, "clear") /\ files = {}
  /\ Close(Cleared(draft))
  /\ gc' = [gc EXCEPT ![c] = Idle]
  /\ lost' = {}
  /\ UNCHANGED <<files, mine, hold, claims, stamp, adopted>>

\* a transaction is not admitted in time, the disk fails or the process dies:
\* the collection ends where it is, what its open transaction wrote is undone,
\* what it removed from the directory is not
GiveUp(c) ==
  /\ ~AtStage(c, "idle")
  /\ gc' = [gc EXCEPT ![c] = Idle]
  /\ IF writer = c THEN Rollback
     ELSE UNCHANGED <<db, draft, writer, touched, root>>
  /\ UNCHANGED <<files, mine, hold, claims, lost, stamp, adopted>>

CollectorStep(c) ==
  \/ ReadRevision(c) \/ ReadRows(c) \/ ReadKeys(c)
  \/ \E keep \in SUBSET Root : ReadFiles(c, keep)
  \/ \E k \in Root : CollectRow(c, k)
  \/ \E d \in Digest : SkipFile(c, d) \/ RemoveFile(c, d) \/ ClearFile(c, d)
  \/ CommitRemoval(c)
  \/ \E k \in Key : CollectKey(c, k)
  \/ EndCollection(c) \/ BeginClear(c) \/ CommitClear(c) \/ GiveUp(c)

Next ==
  \/ \E p \in Publisher : PublisherStep(p)
  \/ \E r \in Restorer : RestorerStep(r)
  \/ \E c \in Collector : CollectorStep(c)

Spec == Init /\ [][Next]_vars

-----------------------------------------------------------------------------
(* Properties.                                                             *)

\* The variables keep their types; the draft differs from the database only
\* inside a transaction.
TypeOK ==
  /\ db \in Database /\ draft \in Database
  /\ files \subseteq Digest /\ lost \subseteq Digest
  /\ writer \in Publisher \cup Collector \cup {NoOne}
  /\ touched \subseteq Key /\ root \in Root \cup {NoRoot}
  /\ mine \in [Publisher -> 0 .. MaxTicket]
  /\ gc \in [Collector -> [stage : {"idle", "rows", "keys", "files", "collect",
                                    "remove", "clear"},
                           rev : Nat, rows : SUBSET Root,
                           valued : SUBSET Root, keys : SUBSET Key,
                           strays : SUBSET Digest]]
  /\ hold \in [Restorer -> [ticket : Ticket, claim : Nat, used : BOOLEAN] \cup {NoHold}]
  /\ claims \in Nat
  /\ stamp \in [Root -> Nat] /\ adopted \in [Ticket -> Nat]
  /\ writer = NoOne => draft = db /\ touched = {} /\ root = NoRoot

\* What is committed has all its artifacts in the directory, whatever collectors
\* and publishers of other processes do at the same time and wherever one of
\* them dies; only what an unfinished clear has removed may be missing.  A
\* checkpoint is excepted once it has been claimed: a claim names the ticket
\* without its artifacts, so that a collection begun earlier may still take the
\* image of a checkpoint it can no longer take itself; the claimer has loaded
\* the image before.  (publishRoot, collect, clear, claimProcessCheckpoint)
RootsComplete ==
  \A k \in db.rows :
    (k \in Ticket => db.log[k] = stamp[k]) => Refs(k) \subseteq files \cup lost

\* A collection removes no root published after it read the revision, although
\* other collections drop entries of the change log, and a clear drops them
\* all, between its reading and its deleting.  (gc, collect, clear)
NothingNewCollected ==
  [][\A c \in Collector : AtStage(c, "collect") /\ gc'[c] # gc[c] =>
       \A k \in db.rows \ db'.rows : stamp[k] <= gc[c].rev]_vars

\* A checkpoint is adopted by one native process at most, whichever of claim,
\* adoption and settlement a process dies between, and whoever collects or
\* clears the store meanwhile.  (claimProcessCheckpoint, settle)
AdoptedOnce == \A t \in Ticket : adopted[t] <= 1

\* A ticket that was published and whose row is gone never has one again: neither
\* a clear nor a collection makes the issuer repeat itself, and a publication in
\* flight does not revive what they removed.  (issueProcessCheckpoint)
TicketsNeverReturn ==
  [][\A t \in Ticket : stamp[t] > 0 /\ t \notin db.rows \cup db.issued
       => t \notin db'.rows \cup db'.issued]_vars

\* What holds of the store at every moment: its types, artifacts under every root, and one
\* adopter of a checkpoint (publishRoot, collect, claimProcessCheckpoint).
StoreSafe == TypeOK /\ RootsComplete /\ AdoptedOnce

\* What no step does: bring back a ticket that is gone, or collect what was published after the
\* collection read the revision (issueProcessCheckpoint, collect).
StoreSteps == TicketsNeverReturn /\ NothingNewCollected
=============================================================================
