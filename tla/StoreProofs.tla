---------------------------- MODULE StoreProofs ----------------------------
(* What ReuseStore promises, for any processes, records, artifacts and      *)
(* bounds; then what SettingsStore and SearchPool promise, for any saves,   *)
(* failures, runs, profiles and processes.                                  *)
EXTENDS ReuseStore, SearchPool, FiniteSetTheorems, SequenceTheorems, WellFoundedInduction, TLAPS

-----------------------------------------------------------------------------
(* The database under the operators that change it.                        *)

LEMMA StampedFields ==
  ASSUME NEW d \in Database, NEW keys
  PROVE  /\ Stamped(d, keys) \in Database
         /\ Stamped(d, keys).rows = d.rows
         /\ Stamped(d, keys).issued = d.issued
         /\ Stamped(d, keys).seq = d.seq
         /\ Stamped(d, keys).claim = d.claim
         /\ Stamped(d, keys).cleared = d.cleared
         /\ Stamped(d, keys).rev = IF keys = {} THEN d.rev ELSE d.rev + 1
         /\ \A k \in Key : Stamped(d, keys).log[k] =
              IF k \in keys THEN d.rev + 1 ELSE d.log[k]
  <1>1. CASE keys = {}
    BY <1>1 DEF Stamped
  <1>2. CASE keys # {}
    <2> DEFINE next == d.rev + 1
               log == [k \in Key |-> IF k \in keys THEN next ELSE d.log[k]]
    <2>1. Stamped(d, keys) = [d EXCEPT !.rev = next, !.log = log]
      BY <1>2, Zenon DEF Stamped
    <2>2. next \in Nat
      BY DEF Database
    <2> HIDE DEF next
    <2>3. log \in [Key -> Nat]
      BY <2>2 DEF Database
    <2>4. \A k \in Key : log[k] = IF k \in keys THEN next ELSE d.log[k]
      OBVIOUS
    <2> HIDE DEF log
    <2>5. /\ Stamped(d, keys) \in Database
          /\ Stamped(d, keys).rows = d.rows
          /\ Stamped(d, keys).issued = d.issued
          /\ Stamped(d, keys).seq = d.seq
          /\ Stamped(d, keys).claim = d.claim
          /\ Stamped(d, keys).cleared = d.cleared
          /\ Stamped(d, keys).rev = next
          /\ Stamped(d, keys).log = log
      BY <2>1, <2>2, <2>3 DEF Database
    <2>6. QED
      BY <1>2, <2>4, <2>5 DEF next
  <1>3. QED
    BY <1>1, <1>2

LEMMA WithoutFields ==
  ASSUME NEW d \in Database, NEW k
  PROVE  /\ Without(d, k) \in Database
         /\ Without(d, k).rows = d.rows \ {k}
         /\ Without(d, k).issued = d.issued \ {k}
         /\ Without(d, k).seq = d.seq
         /\ \A t \in Ticket : t # k => Without(d, k).claim[t] = d.claim[t]
         /\ Without(d, k).log = d.log
         /\ Without(d, k).cleared = d.cleared
         /\ Without(d, k).rev = d.rev
  BY DEF Without, Database

LEMMA ForgetFields ==
  ASSUME NEW d \in Database, NEW k
  PROVE  /\ Forget(d, k) \in Database
         /\ Forget(d, k).rows = d.rows
         /\ Forget(d, k).issued = d.issued
         /\ Forget(d, k).seq = d.seq
         /\ Forget(d, k).claim = d.claim
         /\ \A j \in Key : Forget(d, k).log[j] = IF j = k THEN 0 ELSE d.log[j]
         /\ Forget(d, k).cleared = d.cleared
         /\ Forget(d, k).rev = d.rev
  BY DEF Forget, Database, Key

LEMMA ClearedFields ==
  ASSUME NEW d \in Database
  PROVE  /\ Cleared(d) \in Database
         /\ Cleared(d).rows = {}
         /\ Cleared(d).issued = {}
         /\ Cleared(d).seq = d.seq
         /\ Cleared(d).rev = d.rev + 1
         /\ Cleared(d).cleared = d.rev + 1
         /\ \A k \in Key : Cleared(d).log[k] = 0
  <1> DEFINE next == d.rev + 1
             log == [k \in Key |-> 0]
             claim == [t \in Ticket |-> 0]
  <1>1. Cleared(d) = [d EXCEPT !.rows = {}, !.issued = {}, !.claim = claim, !.log = log,
                               !.rev = next, !.cleared = next]
    BY Zenon DEF Cleared
  <1>2. next \in Nat
    BY DEF Database
  <1>3. log \in [Key -> Nat] /\ claim \in [Ticket -> Nat] /\ (\A k \in Key : log[k] = 0)
    OBVIOUS
  <1> HIDE DEF next, log, claim
  <1>4. /\ Cleared(d) \in Database
        /\ Cleared(d).rows = {}
        /\ Cleared(d).issued = {}
        /\ Cleared(d).seq = d.seq
        /\ Cleared(d).rev = next
        /\ Cleared(d).cleared = next
        /\ Cleared(d).log = log
    BY <1>1, <1>2, <1>3 DEF Database
  <1>5. QED
    BY <1>3, <1>4 DEF next

LEMMA ReleasedFields ==
  ASSUME db \in Database, NEW h \in [ticket : Ticket, claim : Nat, used : BOOLEAN],
         NEW consumed \in BOOLEAN
  PROVE  /\ Released(h, consumed) \in Database
         /\ Released(h, consumed).rows \subseteq db.rows
         /\ db.rows \ {h.ticket} \subseteq Released(h, consumed).rows
         /\ Released(h, consumed).issued \subseteq db.issued
         /\ Released(h, consumed).seq = db.seq
         /\ \A t \in Ticket : t # h.ticket => Released(h, consumed).claim[t] = db.claim[t]
         /\ Released(h, consumed).log = db.log
         /\ Released(h, consumed).cleared = db.cleared
         /\ Released(h, consumed).rev = db.rev
  <1>1. CASE db.claim[h.ticket] # h.claim
    BY <1>1 DEF Released
  <1>2. CASE db.claim[h.ticket] = h.claim /\ consumed
    BY <1>2, WithoutFields DEF Released, Database
  <1>3. CASE db.claim[h.ticket] = h.claim /\ ~consumed
    BY <1>3 DEF Released, Database
  <1>4. QED
    BY <1>1, <1>2, <1>3

LEMMA ClaimedFields ==
  ASSUME NEW d \in Database, NEW t \in Ticket, NEW n \in Nat
  PROVE  LET e == [d EXCEPT !.claim[t] = n] IN
         /\ e \in Database
         /\ e.rows = d.rows /\ e.issued = d.issued /\ e.seq = d.seq
         /\ \A u \in Ticket : e.claim[u] = IF u = t THEN n ELSE d.claim[u]
         /\ e.log = d.log /\ e.cleared = d.cleared /\ e.rev = d.rev
  BY DEF Database

LEMMA IssuedFields ==
  ASSUME NEW d \in Database, NEW t \in Ticket
  PROVE  LET e == [d EXCEPT !.seq = t, !.issued = @ \cup {t}] IN
         /\ e \in Database
         /\ e.rows = d.rows /\ e.issued = d.issued \cup {t} /\ e.seq = t
         /\ e.claim = d.claim
         /\ e.log = d.log /\ e.cleared = d.cleared /\ e.rev = d.rev
  <1> DEFINE issued == d.issued \cup {t}
             numbers == 0 .. MaxTicket
  <1>1. issued \in SUBSET Ticket /\ t \in numbers
    BY StoreAssumption DEF Database, Ticket
  <1>2. Database = [rows : SUBSET Root, issued : SUBSET Ticket, seq : numbers,
                    claim : [Ticket -> Nat], log : [Key -> Nat], cleared : Nat, rev : Nat]
    BY DEF Database
  <1> HIDE DEF issued, numbers
  <1>3. LET e == [d EXCEPT !.seq = t, !.issued = issued] IN
        /\ e \in Database
        /\ e.rows = d.rows /\ e.issued = issued /\ e.seq = t
        /\ e.claim = d.claim
        /\ e.log = d.log /\ e.cleared = d.cleared /\ e.rev = d.rev
    BY <1>1, <1>2
  <1>4. QED
    BY <1>3 DEF issued

LEMMA RecordFields ==
  ASSUME NEW d \in Database, NEW k \in Root
  PROVE  LET e == [d EXCEPT !.rows = @ \cup {k}] IN
         /\ e \in Database
         /\ e.rows = d.rows \cup {k} /\ e.issued = d.issued /\ e.seq = d.seq
         /\ e.claim = d.claim
         /\ e.log = d.log /\ e.cleared = d.cleared /\ e.rev = d.rev
  BY DEF Database

LEMMA CheckpointFields ==
  ASSUME NEW d \in Database, NEW k \in Root, NEW e,
         e = [d EXCEPT !.rows = @ \cup {k}, !.issued = @ \ {k}]
  PROVE  /\ e \in Database
         /\ e.rows = d.rows \cup {k} /\ e.issued = d.issued \ {k} /\ e.seq = d.seq
         /\ e.claim = d.claim
         /\ e.log = d.log /\ e.cleared = d.cleared /\ e.rev = d.rev
  BY DEF Database

LEMMA RefsType ==
  ASSUME NEW k \in Root
  PROVE  Refs(k) \subseteq Digest
  BY StoreAssumption DEF Refs, Root

-----------------------------------------------------------------------------
(* The inductive invariant.                                                *)

\* k is committed and nothing but its last publication has named it since
Standing(k) == k \in db.rows /\ db.log[k] = stamp[k]

\* What the open transaction of a publisher has done to the database.
DraftFollows ==
  /\ draft.log = db.log /\ draft.cleared = db.cleared /\ draft.rev = db.rev
  /\ draft.claim = db.claim /\ draft.seq = db.seq
  /\ draft.rows = db.rows \cup ({root} \ {NoRoot})
  /\ draft.issued = db.issued \ {root}
  /\ touched \cap Root \subseteq {root}
  /\ root # NoRoot => {root} \cup Refs(root) \subseteq touched
  /\ root \in Ticket => root \in db.issued

DraftInv ==
  /\ writer \in Publisher => DraftFollows
  /\ \A c \in Collector :
       /\ AtStage(c, "clear") => writer = c /\ draft = db
       /\ AtStage(c, "remove") =>
            /\ writer = c
            /\ \E d \in Digest : /\ draft = Forget(db, d)
                                 /\ \A k \in Root : Standing(k) => d \notin Refs(k)

\* Revisions: nobody knows one that has not been given out, and a row is named
\* at its publication or later.
NumberInv ==
  /\ db.cleared <= db.rev
  /\ \A k \in Key : db.log[k] <= db.rev
  /\ \A k \in Root : stamp[k] <= db.rev
  /\ \A c \in Collector : gc[c].rev <= db.rev
  /\ \A k \in db.rows : stamp[k] > 0 /\ stamp[k] <= db.log[k]
  /\ \A k \in db.rows \cap Record : db.log[k] = stamp[k]

\* A standing root has its artifacts, and the change log has them too.
CoverInv ==
  \A k \in Root : Standing(k) =>
    \A d \in Refs(k) : d \in files \cup lost /\ stamp[k] <= db.log[d]

\* A collection under way either still has the row before it, and looks at it
\* before it looks at any artifact, or will find what it would take renewed.
ProtectInv ==
  \A c \in Collector : \A k \in Root : Standing(k) =>
    /\ gc[c].stage \in {"keys", "files"} =>
         k \in gc[c].rows \/ (\A d \in Refs(k) : Renewed(c, d))
    /\ gc[c].stage \in {"collect", "remove"} =>
         k \in gc[c].rows \/
         (\A d \in Refs(k) : d \in gc[c].strays \cup gc[c].keys => Renewed(c, d))

Holds(r, t) == hold[r].ticket = t

\* A ticket is fresh, then issued, then published, then claimed by one.
TicketInv ==
  /\ \A t \in Ticket :
       /\ t > db.seq => t \notin db.rows \cup db.issued /\ stamp[t] = 0
       /\ stamp[t] > 0 => t \notin db.issued
       /\ stamp[t] = 0 \/ (t \in db.rows /\ db.claim[t] = 0) =>
            adopted[t] = 0 /\ \A r \in Restorer : ~Holds(r, t)
       /\ adopted[t] <= 1
       /\ \A r \in Restorer : Holds(r, t) /\ ~hold[r].used => adopted[t] = 0
       /\ \A r, s \in Restorer : Holds(r, t) /\ Holds(s, t) => r = s

Inv == TypeOK /\ DraftInv /\ NumberInv /\ CoverInv /\ ProtectInv /\ TicketInv

LEMMA InitType ==
  ASSUME Init
  PROVE  TypeOK
  <1>1. db \in Database
    BY StoreAssumption DEF Init, Database
  <1>2. QED
    BY <1>1, StoreAssumption DEF Init, TypeOK, Idle, NoHold

\* a transaction that ends
LEMMA CloseType ==
  ASSUME NEW d \in Database, Close(d)
  PROVE  /\ db' \in Database /\ draft' \in Database
         /\ writer' \in Publisher \cup Collector \cup {NoOne}
         /\ touched' \subseteq Key /\ root' \in Root \cup {NoRoot}
         /\ writer' = NoOne => draft' = db' /\ touched' = {} /\ root' = NoRoot
  BY DEF Close

LEMMA PublisherType ==
  ASSUME TypeOK, NEW p \in Publisher, PublisherStep(p)
  PROVE  TypeOK'
  <1> USE DEF TypeOK
  <1>1. CASE Publish(p)
    BY <1>1, StoreAssumption DEF Publish, Begin
  <1>2. ASSUME NEW d \in Digest, Share(p, d) PROVE TypeOK'
    BY <1>2, StoreAssumption DEF Share, Key
  <1>3. ASSUME NEW k \in Record, WriteRecord(p, k) PROVE TypeOK'
    <2>1. k \in Root /\ Refs(k) \subseteq Digest
      BY RefsType DEF Root
    <2>2. draft' \in Database
      BY <1>3, <2>1, RecordFields DEF WriteRecord
    <2>3. QED
      BY <1>3, <2>1, <2>2, StoreAssumption DEF WriteRecord, Key
  <1>4. ASSUME NEW t \in Ticket, WriteCheckpoint(p, t) PROVE TypeOK'
    <2>1. t \in Root /\ Refs(t) \subseteq Digest
      BY RefsType DEF Root
    <2>2. draft' \in Database
      BY <1>4, <2>1, CheckpointFields DEF WriteCheckpoint
    <2>3. mine' \in [Publisher -> 0 .. MaxTicket]
      BY <1>4, StoreAssumption DEF WriteCheckpoint
    <2>4. QED
      BY <1>4, <2>1, <2>2, <2>3, StoreAssumption DEF WriteCheckpoint, Key
  <1>5. CASE CommitPublication(p)
    <2>1. Stamped(draft, touched) \in Database
      BY StampedFields
    <2>2. Close(Stamped(draft, touched))
      BY <1>5 DEF CommitPublication
    <2>3. stamp' \in [Root -> Nat]
      BY <1>5 DEF CommitPublication, Database
    <2>4. QED
      BY <1>5, <2>1, <2>2, <2>3, CloseType DEF CommitPublication
  <1>6. CASE AbortPublication(p)
    <2>1. Close(db) /\ mine' \in [Publisher -> 0 .. MaxTicket]
      BY <1>6, StoreAssumption DEF AbortPublication, Rollback
    <2>2. QED
      BY <1>6, <2>1, CloseType DEF AbortPublication
  <1>7. CASE IssueCheckpoint(p)
    <2> DEFINE t == db.seq + 1
    <2>1. t \in Ticket /\ t \in 0 .. MaxTicket
      BY <1>7, StoreAssumption DEF IssueCheckpoint, Database, Ticket
    <2>2. Close([db EXCEPT !.seq = t, !.issued = @ \cup {t}]) /\ mine' = [mine EXCEPT ![p] = t]
      BY <1>7 DEF IssueCheckpoint
    <2> HIDE DEF t
    <2>3. [db EXCEPT !.seq = t, !.issued = @ \cup {t}] \in Database
      BY <2>1, IssuedFields
    <2>4. QED
      BY <1>7, <2>1, <2>2, <2>3, CloseType DEF IssueCheckpoint
  <1>8. QED
    BY <1>1, <1>2, <1>3, <1>4, <1>5, <1>6, <1>7 DEF PublisherStep

LEMMA RestorerType ==
  ASSUME TypeOK, NEW r \in Restorer, RestorerStep(r)
  PROVE  TypeOK'
  <1> USE DEF TypeOK
  <1>1. ASSUME NEW t \in Ticket, ClaimCheckpoint(r, t) PROVE TypeOK'
    <2> DEFINE n == claims + 1
               d == [db EXCEPT !.claim[t] = n]
    <2>1. n \in Nat
      OBVIOUS
    <2>2. claims' = n /\ hold' = [hold EXCEPT ![r] = [ticket |-> t, claim |-> n, used |-> FALSE]]
      BY <1>1 DEF ClaimCheckpoint
    <2>3. Close(Stamped(d, {t}))
      BY <1>1 DEF ClaimCheckpoint
    <2> HIDE DEF n
    <2>4. d \in Database
      BY <2>1, ClaimedFields
    <2> HIDE DEF d
    <2>5. Stamped(d, {t}) \in Database
      BY <2>4, StampedFields
    <2>6. QED
      BY <1>1, <2>1, <2>2, <2>3, <2>5, CloseType DEF ClaimCheckpoint
  <1>2. CASE Adopt(r)
    <2>1. hold[r] \in [ticket : Ticket, claim : Nat, used : BOOLEAN]
      BY <1>2 DEF Adopt
    <2>2. hold' \in [Restorer -> [ticket : Ticket, claim : Nat, used : BOOLEAN] \cup {NoHold}]
      BY <1>2, <2>1 DEF Adopt
    <2>3. adopted' \in [Ticket -> Nat]
      BY <1>2, <2>1 DEF Adopt
    <2>4. QED
      BY <1>2, <2>2, <2>3 DEF Adopt
  <1>3. ASSUME NEW consumed \in BOOLEAN, SettleClaim(r, consumed) PROVE TypeOK'
    <2>1. hold[r] \in [ticket : Ticket, claim : Nat, used : BOOLEAN]
      BY <1>3 DEF SettleClaim
    <2>2. Released(hold[r], consumed) \in Database
      BY <2>1, ReleasedFields
    <2>3. Stamped(Released(hold[r], consumed), {hold[r].ticket}) \in Database
      BY <2>2, StampedFields
    <2>4. Close(Stamped(Released(hold[r], consumed), {hold[r].ticket}))
      BY <1>3 DEF SettleClaim
    <2>5. hold' \in [Restorer -> [ticket : Ticket, claim : Nat, used : BOOLEAN] \cup {NoHold}]
      BY <1>3 DEF SettleClaim
    <2>6. QED
      BY <1>3, <2>3, <2>4, <2>5, CloseType DEF SettleClaim
  <1>4. CASE LoseClaim(r)
    BY <1>4 DEF LoseClaim
  <1>5. QED
    BY <1>1, <1>2, <1>3, <1>4 DEF RestorerStep

CollectorState == [stage : {"idle", "rows", "keys", "files", "collect", "remove", "clear"},
                   rev : Nat, rows : SUBSET Root, valued : SUBSET Root,
                   keys : SUBSET Key, strays : SUBSET Digest]

\* a deletion, whether the object was renewed or not
LEMMA DeletionType ==
  ASSUME TypeOK, NEW c, NEW k
  PROVE  (IF Renewed(c, k) THEN db ELSE Forget(Without(db, k), k)) \in Database
  <1>1. Without(db, k) \in Database
    BY WithoutFields DEF TypeOK
  <1>2. Forget(Without(db, k), k) \in Database
    BY <1>1, ForgetFields
  <1>3. QED
    BY <1>2 DEF TypeOK

LEMMA CollectorType ==
  ASSUME TypeOK, NEW c \in Collector, CollectorStep(c)
  PROVE  TypeOK'
  <1> USE DEF TypeOK
  <1>0. gc \in [Collector -> CollectorState] /\ gc[c] \in CollectorState /\ Idle \in CollectorState
    BY DEF CollectorState, Idle
  <1>1. CASE ReadRevision(c)
    <2>1. gc' = [gc EXCEPT ![c] = [Idle EXCEPT !.stage = "rows", !.rev = db.rev]]
      BY <1>1 DEF ReadRevision
    <2>2. [Idle EXCEPT !.stage = "rows", !.rev = db.rev] \in CollectorState
      BY DEF Idle, CollectorState, Database
    <2>3. gc' \in [Collector -> CollectorState]
      BY <1>0, <2>1, <2>2
    <2>4. QED
      BY <1>1, <2>3 DEF ReadRevision, Unlocked, CollectorState
  <1>2. CASE ReadRows(c)
    <2> DEFINE s == [gc[c] EXCEPT !.stage = "keys", !.valued = db.rows, !.rows = db.rows \cup db.issued]
    <2>1. gc' = [gc EXCEPT ![c] = s]
      BY <1>0, <1>2 DEF ReadRows
    <2>2. db.rows \subseteq Root /\ db.issued \subseteq Root
      BY DEF Database, Root
    <2>3. s \in CollectorState
      BY <1>0, <2>2 DEF CollectorState
    <2>4. gc' \in [Collector -> CollectorState]
      BY <1>0, <2>1, <2>3
    <2>5. QED
      BY <1>2, <2>4 DEF ReadRows, Unlocked, CollectorState
  <1>3. CASE ReadKeys(c)
    <2> DEFINE s == [gc[c] EXCEPT !.stage = "files", !.keys = {k \in Key : db.log[k] > 0}]
    <2>1. gc' = [gc EXCEPT ![c] = s]
      BY <1>0, <1>3 DEF ReadKeys
    <2>2. s \in CollectorState
      BY <1>0 DEF CollectorState
    <2>3. gc' \in [Collector -> CollectorState]
      BY <1>0, <2>1, <2>2
    <2>4. QED
      BY <1>3, <2>3 DEF ReadKeys, Unlocked, CollectorState
  <1>4. ASSUME NEW keep \in SUBSET Root, ReadFiles(c, keep) PROVE TypeOK'
    <2> DEFINE strays == files \ UNION {Refs(k) : k \in keep}
               keys == gc[c].keys \ (gc[c].rows \cup files)
               rows == gc[c].rows \ keep
    <2>1. strays \subseteq Digest /\ keys \subseteq Key /\ rows \subseteq Root
      BY <1>0 DEF CollectorState
    <2>2. gc' = [gc EXCEPT ![c].stage = "collect", ![c].rows = rows, ![c].valued = {},
                           ![c].strays = strays, ![c].keys = keys]
      BY <1>4, Zenon DEF ReadFiles
    <2> HIDE DEF strays, keys, rows
    <2> DEFINE s == [gc[c] EXCEPT !.stage = "collect", !.rows = rows, !.valued = {},
                                  !.strays = strays, !.keys = keys]
    <2>3. gc' = [gc EXCEPT ![c] = s]
      BY <1>0, <2>2
    <2>4. s \in CollectorState
      BY <1>0, <2>1 DEF CollectorState
    <2>5. gc' \in [Collector -> CollectorState]
      BY <1>0, <2>3, <2>4
    <2>6. QED
      BY <1>4, <2>5 DEF ReadFiles, Unlocked, CollectorState
  <1>5. ASSUME NEW k \in Root, CollectRow(c, k) PROVE TypeOK'
    <2>1. Close(IF Renewed(c, k) THEN db ELSE Forget(Without(db, k), k))
      BY <1>5 DEF CollectRow
    <2>2. gc' \in [Collector -> CollectorState]
      BY <1>0, <1>5 DEF CollectRow, CollectorState
    <2>3. QED
      BY <1>5, <2>1, <2>2, DeletionType, CloseType DEF CollectRow, CollectorState
  <1>6. ASSUME NEW d \in Digest, SkipFile(c, d) PROVE TypeOK'
    <2>1. gc' \in [Collector -> CollectorState]
      BY <1>0, <1>6 DEF SkipFile, CollectorState
    <2>2. QED
      BY <1>6, <2>1 DEF SkipFile, CollectorState
  <1>7. ASSUME NEW d \in Digest, RemoveFile(c, d) PROVE TypeOK'
    <2>1. gc' \in [Collector -> CollectorState]
      BY <1>0, <1>7 DEF RemoveFile, CollectorState
    <2>2. draft' \in Database
      BY <1>7, ForgetFields DEF RemoveFile
    <2>3. writer' = c /\ writer' # NoOne
      BY <1>7, StoreAssumption DEF RemoveFile
    <2>4. QED
      BY <1>7, <2>1, <2>2, <2>3 DEF RemoveFile, CollectorState
  <1>8. ASSUME NEW d \in Digest, ClearFile(c, d) PROVE TypeOK'
    BY <1>8 DEF ClearFile
  <1>9. CASE CommitRemoval(c)
    <2>1. gc' \in [Collector -> CollectorState]
      BY <1>0, <1>9 DEF CommitRemoval, CollectorState
    <2>2. QED
      BY <1>9, <2>1, CloseType DEF CommitRemoval, CollectorState
  <1>10. ASSUME NEW k \in Key, CollectKey(c, k) PROVE TypeOK'
    <2>1. Close(IF Renewed(c, k) THEN db ELSE Forget(Without(db, k), k))
      BY <1>10 DEF CollectKey
    <2>2. gc' \in [Collector -> CollectorState]
      BY <1>0, <1>10 DEF CollectKey, CollectorState
    <2>3. QED
      BY <1>10, <2>1, <2>2, DeletionType, CloseType DEF CollectKey, CollectorState
  <1>11. CASE EndCollection(c)
    BY <1>0, <1>11 DEF EndCollection, Unlocked, CollectorState
  <1>12. CASE BeginClear(c)
    <2>1. gc' \in [Collector -> CollectorState]
      BY <1>0, <1>12 DEF BeginClear, CollectorState
    <2>2. QED
      BY <1>12, <2>1, StoreAssumption DEF BeginClear, Begin, CollectorState
  <1>13. CASE CommitClear(c)
    <2>1. Cleared(draft) \in Database /\ Close(Cleared(draft))
      BY <1>13, ClearedFields DEF CommitClear
    <2>2. gc' \in [Collector -> CollectorState]
      BY <1>0, <1>13 DEF CommitClear
    <2>3. QED
      BY <1>13, <2>1, <2>2, CloseType DEF CommitClear, CollectorState
  <1>14. CASE GiveUp(c)
    <2>1. gc' \in [Collector -> CollectorState]
      BY <1>0, <1>14 DEF GiveUp
    <2>2. CASE writer = c
      <3>1. Close(db)
        BY <1>14, <2>2 DEF GiveUp, Rollback
      <3>2. QED
        BY <1>14, <2>1, <3>1, CloseType DEF GiveUp, CollectorState
    <2>3. CASE writer # c
      BY <1>14, <2>1, <2>3 DEF GiveUp, CollectorState
    <2>4. QED
      BY <2>2, <2>3
  <1>15. QED
    BY <1>1, <1>2, <1>3, <1>4, <1>5, <1>6, <1>7, <1>8, <1>9, <1>10, <1>11, <1>12, <1>13, <1>14
    DEF CollectorStep

LEMMA TypeStep ==
  ASSUME TypeOK, [Next]_vars
  PROVE  TypeOK'
  <1>1. CASE Next
    BY <1>1, PublisherType, RestorerType, CollectorType DEF Next
  <1>2. CASE UNCHANGED vars
    BY <1>2 DEF vars, TypeOK
  <1>3. QED
    BY <1>1, <1>2

-----------------------------------------------------------------------------
(* The open transaction.                                                   *)

Writing(c) == gc[c].stage \in {"clear", "remove"}

\* who writes, when it is no collector
LEMMA NobodyWrites ==
  ASSUME TypeOK, DraftInv, writer \notin Collector, NEW c \in Collector
  PROVE  ~Writing(c)
  BY DEF DraftInv, Writing, AtStage

\* a transaction that ends leaves none
LEMMA CloseDraft ==
  ASSUME NEW d, Close(d), \A c \in Collector : ~Writing(c)'
  PROVE  DraftInv'
  BY StoreAssumption DEF Close, DraftInv, Writing, AtStage

\* a step that writes nothing
LEMMA FrameDraft ==
  ASSUME DraftInv, UNCHANGED <<db, draft, writer, touched, root, stamp>>,
         \A c \in Collector : Writing(c)' => gc'[c].stage = gc[c].stage
  PROVE  DraftInv'
  <1>1. writer \in Publisher => DraftFollows'
    BY DEF DraftInv, DraftFollows, Refs
  <1>2. ASSUME NEW c \in Collector, gc'[c].stage = "clear" PROVE writer' = c /\ draft' = db'
    BY <1>2 DEF DraftInv, Writing, AtStage
  <1>3. ASSUME NEW c \in Collector, gc'[c].stage = "remove"
        PROVE  /\ writer' = c
               /\ \E d \in Digest : /\ draft' = Forget(db, d)'
                                    /\ \A k \in Root : Standing(k)' => d \notin Refs(k)
    <2>1. writer = c /\ \E d \in Digest : /\ draft = Forget(db, d)
                                          /\ \A k \in Root : Standing(k) => d \notin Refs(k)
      BY <1>3 DEF DraftInv, Writing, AtStage
    <2>2. QED
      BY <2>1 DEF Standing, Forget
  <1>4. QED
    BY <1>1, <1>2, <1>3 DEF DraftInv, AtStage

LEMMA PublisherDraft ==
  ASSUME TypeOK, DraftInv, NEW p \in Publisher, PublisherStep(p)
  PROVE  DraftInv'
  <1>1. CASE Publish(p)
    <2>1. \A c \in Collector : ~Writing(c) /\ ~Writing(c)'
      BY <1>1, NobodyWrites, StoreAssumption DEF Publish, Begin, Writing
    <2>2. /\ draft' = db /\ db' = db /\ touched' = {} /\ root' = NoRoot
      BY <1>1 DEF Publish, Begin
    <2>3. NoRoot \notin Ticket /\ db.issued \ {NoRoot} = db.issued
      BY StoreAssumption DEF Root, TypeOK, Database
    <2>4. DraftFollows'
      BY <2>2, <2>3 DEF DraftFollows
    <2>5. QED
      BY <2>1, <2>4 DEF DraftInv, Writing, AtStage
  <1>2. ASSUME writer = p PROVE \A c \in Collector : ~Writing(c)
    BY <1>2, NobodyWrites, StoreAssumption
  <1>3. ASSUME NEW d \in Digest, Share(p, d) PROVE DraftInv'
    <2>1. \A c \in Collector : ~Writing(c)'
      BY <1>2, <1>3 DEF Share, Writing
    <2>2. d \notin Root
      BY StoreAssumption
    <2>3. DraftFollows
      BY <1>3 DEF Share, DraftInv
    <2>4. DraftFollows'
      BY <1>3, <2>2, <2>3 DEF Share, DraftFollows, Refs
    <2>5. QED
      BY <2>1, <2>4 DEF DraftInv, Writing, AtStage
  <1>4. ASSUME NEW k \in Record, WriteRecord(p, k) PROVE DraftInv'
    <2>1. \A c \in Collector : ~Writing(c)'
      BY <1>2, <1>4 DEF WriteRecord, Writing
    <2>2. k \in Root /\ k # NoRoot /\ k \notin Ticket /\ Refs(k) \subseteq Digest
      BY StoreAssumption, RefsType DEF Root
    <2>3. /\ writer \in Publisher /\ root = NoRoot /\ root' = k
          /\ draft' = [draft EXCEPT !.rows = @ \cup {k}]
          /\ touched' = touched \cup {k} \cup Refs(k)
          /\ UNCHANGED <<db, writer>>
      BY <1>4 DEF WriteRecord
    <2>4. /\ draft'.rows = draft.rows \cup {k} /\ draft'.issued = draft.issued
          /\ draft'.seq = draft.seq /\ draft'.claim = draft.claim /\ draft'.log = draft.log
          /\ draft'.cleared = draft.cleared /\ draft'.rev = draft.rev
      BY <2>2, <2>3, RecordFields DEF TypeOK
    <2>5. DraftFollows
      BY <2>3 DEF DraftInv
    <2>6. NoRoot \notin db.issued /\ k \notin db.issued
      BY <2>2, StoreAssumption DEF TypeOK, Database, Root
    <2>7. draft.issued = db.issued /\ db.issued \ {k} = db.issued
      BY <2>3, <2>5, <2>6 DEF DraftFollows
    <2>8. draft'.rows = db.rows \cup ({k} \ {NoRoot})
      BY <2>2, <2>3, <2>4, <2>5 DEF DraftFollows
    <2>9. touched' \cap Root \subseteq {k} /\ {k} \cup Refs(k) \subseteq touched'
      BY <2>2, <2>3, <2>5, StoreAssumption DEF DraftFollows
    <2>10. DraftFollows'
      BY <2>2, <2>3, <2>4, <2>5, <2>7, <2>8, <2>9 DEF DraftFollows, Refs
    <2>11. QED
      BY <2>1, <2>10 DEF DraftInv, Writing, AtStage
  <1>5. ASSUME NEW t \in Ticket, WriteCheckpoint(p, t) PROVE DraftInv'
    <2>1. \A c \in Collector : ~Writing(c)'
      BY <1>2, <1>5 DEF WriteCheckpoint, Writing
    <2>2. t \in Root /\ t # NoRoot /\ Refs(t) \subseteq Digest
      BY StoreAssumption, RefsType DEF Root
    <2>3. /\ writer \in Publisher /\ root = NoRoot /\ root' = t /\ t \in draft.issued
          /\ draft' = [draft EXCEPT !.rows = @ \cup {t}, !.issued = @ \ {t}]
          /\ touched' = {t} \cup Refs(t)
          /\ UNCHANGED <<db, writer>>
      BY <1>5 DEF WriteCheckpoint
    <2>4. /\ draft'.rows = draft.rows \cup {t} /\ draft'.issued = draft.issued \ {t}
          /\ draft'.seq = draft.seq /\ draft'.claim = draft.claim /\ draft'.log = draft.log
          /\ draft'.cleared = draft.cleared /\ draft'.rev = draft.rev
      <3>1. draft \in Database
        BY DEF TypeOK
      <3>2. draft' = [draft EXCEPT !.rows = @ \cup {t}, !.issued = @ \ {t}]
        BY <2>3
      <3>3. QED
        BY <3>1, <3>2 DEF Database
    <2>5. DraftFollows
      BY <2>3 DEF DraftInv
    <2>6. NoRoot \notin db.issued
      BY StoreAssumption DEF TypeOK, Database, Root
    <2>7. draft.issued = db.issued
      BY <2>3, <2>5, <2>6 DEF DraftFollows
    <2>8. draft'.rows = db.rows \cup ({t} \ {NoRoot})
      BY <2>2, <2>3, <2>4, <2>5 DEF DraftFollows
    <2>9. touched' \cap Root \subseteq {t} /\ {t} \cup Refs(t) \subseteq touched'
      BY <2>2, <2>3, StoreAssumption
    <2>10. DraftFollows'
      BY <2>2, <2>3, <2>4, <2>5, <2>7, <2>8, <2>9 DEF DraftFollows, Refs
    <2>11. QED
      BY <2>1, <2>10 DEF DraftInv, Writing, AtStage
  <1>6. CASE CommitPublication(p)
    BY <1>2, <1>6, CloseDraft DEF CommitPublication, Writing
  <1>7. CASE AbortPublication(p)
    BY <1>2, <1>7, CloseDraft DEF AbortPublication, Rollback, Writing
  <1>8. CASE IssueCheckpoint(p)
    <2>1. \A c \in Collector : ~Writing(c)'
      BY <1>8, NobodyWrites, StoreAssumption DEF IssueCheckpoint, Writing
    <2>2. \E d : Close(d)
      BY <1>8 DEF IssueCheckpoint
    <2>3. QED
      BY <2>1, <2>2, CloseDraft
  <1>9. QED
    BY <1>1, <1>3, <1>4, <1>5, <1>6, <1>7, <1>8 DEF PublisherStep

LEMMA RestorerDraft ==
  ASSUME TypeOK, DraftInv, NEW r \in Restorer, RestorerStep(r)
  PROVE  DraftInv'
  <1>1. ASSUME writer = NoOne, UNCHANGED gc PROVE \A c \in Collector : ~Writing(c)'
    BY <1>1, NobodyWrites, StoreAssumption DEF Writing
  <1>2. ASSUME NEW t \in Ticket, ClaimCheckpoint(r, t) PROVE DraftInv'
    <2>1. \E d : Close(d)
      BY <1>2 DEF ClaimCheckpoint
    <2>2. QED
      BY <1>1, <1>2, <2>1, CloseDraft DEF ClaimCheckpoint
  <1>3. ASSUME NEW consumed \in BOOLEAN, SettleClaim(r, consumed) PROVE DraftInv'
    <2>1. \E d : Close(d)
      BY <1>3 DEF SettleClaim
    <2>2. QED
      BY <1>1, <1>3, <2>1, CloseDraft DEF SettleClaim
  <1>4. CASE Adopt(r)
    BY <1>4, FrameDraft DEF Adopt
  <1>5. CASE LoseClaim(r)
    BY <1>5, FrameDraft DEF LoseClaim
  <1>6. QED
    BY <1>2, <1>3, <1>4, <1>5 DEF RestorerStep

\* The lock keeps one object of one collection at a time half removed, and
\* ProtectInv keeps it from being one that is needed.
LEMMA CollectorDraft ==
  ASSUME TypeOK, DraftInv, ProtectInv, NEW c \in Collector, CollectorStep(c)
  PROVE  DraftInv'
  <1>0. gc \in [Collector -> CollectorState]
    BY DEF TypeOK, CollectorState
  <1>1. ASSUME NEW s \in CollectorState, gc' = [gc EXCEPT ![c] = s],
               s.stage \notin {"clear", "remove"},
               UNCHANGED <<db, draft, writer, touched, root, stamp>>
        PROVE  DraftInv'
    <2>1. \A b \in Collector : Writing(b)' => gc'[b].stage = gc[b].stage
      BY <1>0, <1>1 DEF Writing
    <2>2. QED
      BY <1>1, <2>1, FrameDraft
  <1>2. ASSUME writer \notin Collector \/ writer = c,
               \A b \in Collector \ {c} : gc'[b] = gc[b],
               ~Writing(c)', NEW d, Close(d)
        PROVE  DraftInv'
    <2>1. \A b \in Collector \ {c} : ~Writing(b)
      BY <1>2, NobodyWrites DEF DraftInv, Writing, AtStage
    <2>2. \A b \in Collector : ~Writing(b)'
      BY <1>2, <2>1 DEF Writing
    <2>3. QED
      BY <1>2, <2>2, CloseDraft
  <1>3. NoOne \notin Collector
    BY StoreAssumption
  <1>4. CASE ReadRevision(c)
    <2>1. \A b \in Collector : Writing(b)' => gc'[b].stage = gc[b].stage
      BY <1>0, <1>4 DEF ReadRevision, Writing, Idle
    <2>2. QED
      BY <1>4, <2>1, FrameDraft DEF ReadRevision, Unlocked
  <1>5. CASE ReadRows(c)
    <2>1. \A b \in Collector : Writing(b)' => gc'[b].stage = gc[b].stage
      BY <1>0, <1>5 DEF ReadRows, Writing, CollectorState
    <2>2. QED
      BY <1>5, <2>1, FrameDraft DEF ReadRows, Unlocked
  <1>6. CASE ReadKeys(c)
    <2>1. \A b \in Collector : Writing(b)' => gc'[b].stage = gc[b].stage
      BY <1>0, <1>6 DEF ReadKeys, Writing, CollectorState
    <2>2. QED
      BY <1>6, <2>1, FrameDraft DEF ReadKeys, Unlocked
  <1>7. ASSUME NEW keep \in SUBSET Root, ReadFiles(c, keep) PROVE DraftInv'
    <2>1. \A b \in Collector : Writing(b)' => gc'[b].stage = gc[b].stage
      BY <1>0, <1>7 DEF ReadFiles, Writing, CollectorState
    <2>2. QED
      BY <1>7, <2>1, FrameDraft DEF ReadFiles, Unlocked
  <1>8. ASSUME NEW k \in Root, CollectRow(c, k) PROVE DraftInv'
    <2>1. ~Writing(c)' /\ \A b \in Collector \ {c} : gc'[b] = gc[b]
      BY <1>0, <1>8 DEF CollectRow, Writing, CollectorState, AtStage
    <2>2. QED
      BY <1>2, <1>3, <1>8, <2>1 DEF CollectRow
  <1>9. ASSUME NEW d \in Digest, SkipFile(c, d) PROVE DraftInv'
    <2>1. \A b \in Collector : Writing(b)' => gc'[b].stage = gc[b].stage
      BY <1>0, <1>9 DEF SkipFile, Writing, CollectorState
    <2>2. QED
      BY <1>9, <2>1, FrameDraft DEF SkipFile
  <1>10. ASSUME NEW d \in Digest, RemoveFile(c, d) PROVE DraftInv'
    <2>1. \A b \in Collector : ~Writing(b)
      BY <1>3, <1>10, NobodyWrites DEF RemoveFile
    <2>2. /\ gc'[c].stage = "remove" /\ writer' = c /\ draft' = Forget(db, d)
          /\ \A b \in Collector \ {c} : gc'[b] = gc[b]
          /\ UNCHANGED <<db, stamp>>
      BY <1>0, <1>10 DEF RemoveFile, CollectorState
    <2>3. ASSUME NEW k \in Root, Standing(k)' PROVE d \notin Refs(k)
      <3>1. Standing(k)
        BY <2>2, <2>3 DEF Standing
      <3>2. k \notin gc[c].rows /\ d \in gc[c].strays /\ ~Renewed(c, d) /\ gc[c].stage = "collect"
        BY <1>10 DEF RemoveFile, AtStage
      <3>3. QED
        BY <3>1, <3>2 DEF ProtectInv
    <2>4. \E e \in Digest : /\ draft' = Forget(db, e)'
                            /\ \A k \in Root : Standing(k)' => e \notin Refs(k)
      BY <2>2, <2>3 DEF Forget
    <2>5. writer' \notin Publisher
      BY <2>2, StoreAssumption
    <2>6. QED
      BY <2>1, <2>2, <2>4, <2>5 DEF DraftInv, Writing, AtStage
  <1>11. ASSUME NEW d \in Digest, ClearFile(c, d) PROVE DraftInv'
    BY <1>11, FrameDraft DEF ClearFile
  <1>12. CASE CommitRemoval(c)
    <2>1. ~Writing(c)' /\ \A b \in Collector \ {c} : gc'[b] = gc[b]
      BY <1>0, <1>12 DEF CommitRemoval, Writing, CollectorState
    <2>2. writer = c
      BY <1>12 DEF CommitRemoval, DraftInv
    <2>3. QED
      BY <1>2, <1>12, <2>1, <2>2 DEF CommitRemoval
  <1>13. ASSUME NEW k \in Key, CollectKey(c, k) PROVE DraftInv'
    <2>1. ~Writing(c)' /\ \A b \in Collector \ {c} : gc'[b] = gc[b]
      BY <1>0, <1>13 DEF CollectKey, Writing, CollectorState, AtStage
    <2>2. QED
      BY <1>2, <1>3, <1>13, <2>1 DEF CollectKey
  <1>14. CASE EndCollection(c)
    <2>1. \A b \in Collector : Writing(b)' => gc'[b].stage = gc[b].stage
      BY <1>0, <1>14 DEF EndCollection, Writing, Idle
    <2>2. QED
      BY <1>14, <2>1, FrameDraft DEF EndCollection, Unlocked
  <1>15. CASE BeginClear(c)
    <2>1. \A b \in Collector : ~Writing(b)
      BY <1>3, <1>15, NobodyWrites DEF BeginClear, Begin
    <2>2. /\ gc'[c].stage = "clear" /\ writer' = c /\ draft' = db'
          /\ \A b \in Collector \ {c} : gc'[b] = gc[b]
      BY <1>0, <1>15 DEF BeginClear, Begin, CollectorState
    <2>3. writer' \notin Publisher
      BY <2>2, StoreAssumption
    <2>4. QED
      BY <2>1, <2>2, <2>3 DEF DraftInv, Writing, AtStage
  <1>16. CASE CommitClear(c)
    <2>1. ~Writing(c)' /\ \A b \in Collector \ {c} : gc'[b] = gc[b]
      BY <1>0, <1>16 DEF CommitClear, Writing, Idle
    <2>2. writer = c
      BY <1>16 DEF CommitClear, DraftInv
    <2>3. QED
      BY <1>2, <1>16, <2>1, <2>2 DEF CommitClear
  <1>17. CASE GiveUp(c)
    <2>1. gc' = [gc EXCEPT ![c] = Idle]
      BY <1>17 DEF GiveUp
    <2>2. ~Writing(c)' /\ \A b \in Collector \ {c} : gc'[b] = gc[b]
      BY <1>0, <2>1 DEF Writing, Idle
    <2>3. CASE writer = c
      BY <1>2, <1>17, <2>2, <2>3 DEF GiveUp, Rollback
    <2>4. CASE writer # c
      <3>1. \A b \in Collector : Writing(b)' => gc'[b].stage = gc[b].stage
        BY <2>2 DEF Writing
      <3>2. QED
        BY <1>17, <2>4, <3>1, FrameDraft DEF GiveUp
    <2>5. QED
      BY <2>3, <2>4
  <1>18. QED
    BY <1>4, <1>5, <1>6, <1>7, <1>8, <1>9, <1>10, <1>11, <1>12, <1>13, <1>14, <1>15, <1>16, <1>17
    DEF CollectorStep

-----------------------------------------------------------------------------
(* What a step may do to the database.                                     *)

Kept == UNCHANGED <<db, stamp>>

\* a publication, of a root or of artifacts alone
Published ==
  /\ db'.rows = db.rows \cup ({root} \ {NoRoot}) /\ db'.issued = db.issued \ {root}
  /\ db'.seq = db.seq /\ db'.claim = db.claim /\ db'.cleared = db.cleared
  /\ db'.rev = IF touched = {} THEN db.rev ELSE db.rev + 1
  /\ \A k \in Key : db'.log[k] = IF k \in touched THEN db.rev + 1 ELSE db.log[k]
  /\ \A k \in Root : stamp'[k] = IF k = root THEN db.rev + 1 ELSE stamp[k]
  /\ touched \cap Root \subseteq {root}
  /\ root # NoRoot => {root} \cup Refs(root) \subseteq touched /\ Refs(root) \subseteq files
  /\ root \in Ticket => root \in db.issued
  /\ UNCHANGED <<files, lost>>

Issued ==
  /\ db'.rows = db.rows /\ db'.issued = db.issued \cup {db.seq + 1} /\ db'.seq = db.seq + 1
  /\ db'.claim = db.claim /\ db'.log = db.log /\ db'.cleared = db.cleared /\ db'.rev = db.rev
  /\ stamp' = stamp

\* a claim of t or its settlement
Named(t) ==
  /\ db'.rows \subseteq db.rows /\ db.rows \ {t} \subseteq db'.rows /\ db'.issued \subseteq db.issued
  /\ db'.seq = db.seq /\ db'.cleared = db.cleared /\ db'.rev = db.rev + 1
  /\ \A u \in Ticket : u # t => db'.claim[u] = db.claim[u]
  /\ \A k \in Key : db'.log[k] = IF k = t THEN db.rev + 1 ELSE db.log[k]
  /\ stamp' = stamp

\* a row, an entry of the change log, or both
Deleted(k) ==
  /\ db'.rows = db.rows \ {k} /\ db'.issued = db.issued \ {k}
  /\ db'.seq = db.seq /\ db'.cleared = db.cleared /\ db'.rev = db.rev
  /\ \A t \in Ticket : t # k => db'.claim[t] = db.claim[t]
  /\ \A j \in Key : db'.log[j] = IF j = k THEN 0 ELSE db.log[j]
  /\ stamp' = stamp
  /\ \A j \in Root : Standing(j) => k \notin Refs(j)

Emptied ==
  /\ db'.rows = {} /\ db'.issued = {} /\ db'.seq = db.seq
  /\ db'.rev = db.rev + 1 /\ db'.cleared = db.rev + 1
  /\ \A k \in Key : db'.log[k] = 0
  /\ stamp' = stamp

LEMMA CommitPublishes ==
  ASSUME TypeOK, DraftInv, NEW p \in Publisher, CommitPublication(p)
  PROVE  Published
  <1>1. DraftFollows
    BY DEF CommitPublication, DraftInv
  <1>2. db' = Stamped(draft, touched)
    BY DEF CommitPublication, Close
  <1>3. /\ db'.rows = draft.rows /\ db'.issued = draft.issued
        /\ db'.seq = draft.seq /\ db'.claim = draft.claim /\ db'.cleared = draft.cleared
        /\ db'.rev = IF touched = {} THEN draft.rev ELSE draft.rev + 1
        /\ \A k \in Key : db'.log[k] = IF k \in touched THEN draft.rev + 1 ELSE draft.log[k]
    BY <1>2, StampedFields DEF TypeOK
  <1>4. \A k \in Root : stamp'[k] = IF k = root THEN db.rev + 1 ELSE stamp[k]
    BY StoreAssumption DEF CommitPublication, TypeOK
  <1>5. root # NoRoot => Refs(root) \subseteq files
    BY DEF CommitPublication, Complete
  <1>6. UNCHANGED <<files, lost>>
    BY DEF CommitPublication
  <1>7. QED
    BY <1>1, <1>3, <1>4, <1>5, <1>6 DEF DraftFollows, Published

LEMMA IssueIssues ==
  ASSUME TypeOK, NEW p \in Publisher, IssueCheckpoint(p)
  PROVE  Issued
  <1> DEFINE t == db.seq + 1
  <1>1. t \in Ticket
    BY StoreAssumption DEF IssueCheckpoint, TypeOK, Database, Ticket
  <1>2. db' = [db EXCEPT !.seq = t, !.issued = @ \cup {t}] /\ stamp' = stamp
    BY DEF IssueCheckpoint, Close
  <1> HIDE DEF t
  <1>3. LET e == [db EXCEPT !.seq = t, !.issued = @ \cup {t}] IN
         /\ e.rows = db.rows /\ e.issued = db.issued \cup {t} /\ e.seq = t
         /\ e.claim = db.claim
         /\ e.log = db.log /\ e.cleared = db.cleared /\ e.rev = db.rev
    <2>1. db \in Database
      BY DEF TypeOK
    <2>2. QED
      BY ONLY <1>1, <2>1, IssuedFields
  <1>4. QED
    BY <1>2, <1>3 DEF Issued, t

LEMMA ClaimNames ==
  ASSUME TypeOK, NEW r \in Restorer, NEW t \in Ticket, ClaimCheckpoint(r, t)
  PROVE  Named(t)
  <1> DEFINE n == claims + 1
             d == [db EXCEPT !.claim[t] = n]
  <1>1. n \in Nat
    BY DEF TypeOK
  <1>2. db' = Stamped(d, {t}) /\ stamp' = stamp
    BY DEF ClaimCheckpoint, Close
  <1> HIDE DEF n
  <1>3. /\ d \in Database
        /\ d.rows = db.rows /\ d.issued = db.issued /\ d.seq = db.seq
        /\ \A u \in Ticket : d.claim[u] = IF u = t THEN n ELSE db.claim[u]
        /\ d.log = db.log /\ d.cleared = db.cleared /\ d.rev = db.rev
    BY <1>1 DEF TypeOK, Database
  <1> HIDE DEF d
  <1>4. QED
    BY <1>2, <1>3, StampedFields DEF Named

LEMMA SettlementNames ==
  ASSUME TypeOK, NEW r \in Restorer, NEW consumed \in BOOLEAN, SettleClaim(r, consumed)
  PROVE  Named(hold[r].ticket)
  <1> DEFINE d == Released(hold[r], consumed)
  <1>1. hold[r] \in [ticket : Ticket, claim : Nat, used : BOOLEAN]
    BY DEF SettleClaim, TypeOK
  <1>2. db' = Stamped(d, {hold[r].ticket}) /\ stamp' = stamp
    BY DEF SettleClaim, Close
  <1>3. /\ d \in Database
        /\ d.rows \subseteq db.rows /\ db.rows \ {hold[r].ticket} \subseteq d.rows
        /\ d.issued \subseteq db.issued /\ d.seq = db.seq
        /\ \A t \in Ticket : t # hold[r].ticket => d.claim[t] = db.claim[t]
        /\ d.log = db.log /\ d.cleared = db.cleared /\ d.rev = db.rev
    BY <1>1, ReleasedFields DEF TypeOK
  <1> HIDE DEF d
  <1>4. QED
    BY <1>1, <1>2, <1>3, StampedFields DEF Named

LEMMA DeletionDeletes ==
  ASSUME TypeOK, NEW k \in Key, stamp' = stamp, db' = Forget(Without(db, k), k),
         \A j \in Root : Standing(j) => k \notin Refs(j)
  PROVE  Deleted(k)
  <1> DEFINE d == Without(db, k)
  <1>1. /\ d \in Database
        /\ d.rows = db.rows \ {k} /\ d.issued = db.issued \ {k} /\ d.seq = db.seq
        /\ \A t \in Ticket : t # k => d.claim[t] = db.claim[t]
        /\ d.log = db.log /\ d.cleared = db.cleared /\ d.rev = db.rev
    BY WithoutFields DEF TypeOK
  <1>2. db' = Forget(d, k)
    OBVIOUS
  <1> HIDE DEF d
  <1>3. QED
    BY <1>1, <1>2, ForgetFields DEF Deleted

LEMMA RowDeletes ==
  ASSUME TypeOK, NEW c \in Collector, NEW k \in Root, CollectRow(c, k)
  PROVE  (Kept /\ Renewed(c, k)) \/ (Deleted(k) /\ ~Renewed(c, k))
  <1>1. CASE Renewed(c, k)
    BY <1>1 DEF CollectRow, Close, Kept
  <1>2. CASE ~Renewed(c, k)
    <2>1. db' = Forget(Without(db, k), k) /\ stamp' = stamp
      BY <1>2 DEF CollectRow, Close
    <2>2. \A j \in Root : k \notin Refs(j)
      BY RefsType, StoreAssumption
    <2>3. k \in Key
      BY DEF Key
    <2>4. QED
      BY <1>2, <2>1, <2>2, <2>3, DeletionDeletes
  <1>3. QED
    BY <1>1, <1>2

LEMMA KeyDeletes ==
  ASSUME TypeOK, ProtectInv, NEW c \in Collector, NEW k \in Key, CollectKey(c, k)
  PROVE  (Kept /\ Renewed(c, k)) \/ (Deleted(k) /\ ~Renewed(c, k))
  <1>1. CASE Renewed(c, k)
    BY <1>1 DEF CollectKey, Close, Kept
  <1>2. CASE ~Renewed(c, k)
    <2>1. db' = Forget(Without(db, k), k) /\ stamp' = stamp
      BY <1>2 DEF CollectKey, Close
    <2>2. \A j \in Root : Standing(j) => k \notin Refs(j)
      BY <1>2 DEF CollectKey, ProtectInv, AtStage
    <2>3. QED
      BY <1>2, <2>1, <2>2, DeletionDeletes
  <1>3. QED
    BY <1>1, <1>2

LEMMA RemovalDeletes ==
  ASSUME TypeOK, DraftInv, NEW c \in Collector, CommitRemoval(c)
  PROVE  \E d \in Digest : Deleted(d)
  <1>1. PICK d \in Digest : /\ draft = Forget(db, d)
                            /\ \A k \in Root : Standing(k) => d \notin Refs(k)
    BY DEF CommitRemoval, DraftInv
  <1>2. db' = Forget(db, d) /\ stamp' = stamp
    BY <1>1 DEF CommitRemoval, Close
  <1>3. d \notin db.rows /\ d \notin db.issued
    BY StoreAssumption DEF TypeOK, Database, Root
  <1>4. Deleted(d)
    BY <1>1, <1>2, <1>3, ForgetFields DEF Deleted, TypeOK
  <1>5. QED
    BY <1>4

LEMMA ClearEmpties ==
  ASSUME TypeOK, DraftInv, NEW c \in Collector, CommitClear(c)
  PROVE  Emptied
  <1>1. db' = Cleared(db) /\ stamp' = stamp
    BY DEF CommitClear, Close, DraftInv
  <1>2. QED
    BY <1>1, ClearedFields DEF Emptied, TypeOK

\* every step is one of these
Rewritten ==
  \/ Kept \/ Published \/ Issued \/ Emptied
  \/ \E k \in Key : Deleted(k)

Changed == Rewritten \/ \E t \in Ticket : Named(t)

LEMMA PublisherChanges ==
  ASSUME TypeOK, DraftInv, NEW p \in Publisher, PublisherStep(p)
  PROVE  Rewritten
  <1>1. CASE CommitPublication(p)
    BY <1>1, CommitPublishes DEF Rewritten
  <1>2. CASE IssueCheckpoint(p)
    BY <1>2, IssueIssues DEF Rewritten
  <1>3. CASE AbortPublication(p)
    BY <1>3 DEF AbortPublication, Rollback, Close, Kept, Rewritten
  <1>4. CASE Publish(p) \/ \E d \in Digest : Share(p, d)
    BY <1>4 DEF Publish, Share, Kept, Rewritten
  <1>5. CASE (\E k \in Record : WriteRecord(p, k)) \/ \E t \in Ticket : WriteCheckpoint(p, t)
    BY <1>5 DEF WriteRecord, WriteCheckpoint, Kept, Rewritten
  <1>6. QED
    BY <1>1, <1>2, <1>3, <1>4, <1>5 DEF PublisherStep

LEMMA CollectorChanges ==
  ASSUME TypeOK, DraftInv, ProtectInv, NEW c \in Collector, CollectorStep(c)
  PROVE  Rewritten
  <1>1. CASE ReadRevision(c) \/ ReadRows(c) \/ ReadKeys(c) \/ EndCollection(c)
    BY <1>1 DEF ReadRevision, ReadRows, ReadKeys, EndCollection, Unlocked, Kept, Rewritten
  <1>2. CASE \E keep \in SUBSET Root : ReadFiles(c, keep)
    BY <1>2 DEF ReadFiles, Unlocked, Kept, Rewritten
  <1>3. ASSUME NEW k \in Root, CollectRow(c, k) PROVE Rewritten
    BY <1>3, RowDeletes DEF Rewritten, Key
  <1>4. ASSUME NEW k \in Key, CollectKey(c, k) PROVE Rewritten
    BY <1>4, KeyDeletes DEF Rewritten
  <1>5. ASSUME NEW d \in Digest, SkipFile(c, d) \/ RemoveFile(c, d) \/ ClearFile(c, d) PROVE Rewritten
    BY <1>5 DEF SkipFile, RemoveFile, ClearFile, Kept, Rewritten
  <1>6. CASE CommitRemoval(c)
    BY <1>6, RemovalDeletes DEF Rewritten, Key
  <1>7. CASE CommitClear(c)
    BY <1>7, ClearEmpties DEF Rewritten
  <1>8. CASE BeginClear(c)
    BY <1>8 DEF BeginClear, Kept, Rewritten
  <1>9. CASE GiveUp(c)
    BY <1>9 DEF GiveUp, Rollback, Close, Kept, Rewritten
  <1>10. QED
    BY <1>1, <1>2, <1>3, <1>4, <1>5, <1>6, <1>7, <1>8, <1>9 DEF CollectorStep

LEMMA StepChanges ==
  ASSUME TypeOK, DraftInv, ProtectInv, Next
  PROVE  Changed
  <1>1. ASSUME NEW p \in Publisher, PublisherStep(p) PROVE Changed
    BY <1>1, PublisherChanges DEF Changed
  <1>2. ASSUME NEW r \in Restorer, RestorerStep(r) PROVE Changed
    <2>1. ASSUME NEW t \in Ticket, ClaimCheckpoint(r, t) PROVE Changed
      BY <2>1, ClaimNames DEF Changed
    <2>2. ASSUME NEW consumed \in BOOLEAN, SettleClaim(r, consumed) PROVE Changed
      <3>1. hold[r].ticket \in Ticket
        BY <2>2 DEF SettleClaim, TypeOK
      <3>2. QED
        BY <2>2, <3>1, SettlementNames DEF Changed
    <2>3. CASE Adopt(r) \/ LoseClaim(r)
      BY <2>3 DEF Adopt, LoseClaim, Kept, Rewritten, Changed
    <2>4. QED
      BY <1>2, <2>1, <2>2, <2>3 DEF RestorerStep
  <1>3. ASSUME NEW c \in Collector, CollectorStep(c) PROVE Changed
    BY <1>3, CollectorChanges DEF Changed
  <1>4. QED
    BY <1>1, <1>2, <1>3 DEF Next

-----------------------------------------------------------------------------
(* Revisions.                                                              *)

LEMMA RevisionsRead ==
  ASSUME TypeOK, Next, NEW c \in Collector
  PROVE  gc'[c].rev \in {0, db.rev, gc[c].rev}
  <1>1. gc \in [Collector -> CollectorState]
    BY DEF TypeOK, CollectorState
  <1>2. ASSUME NEW p \in Publisher, PublisherStep(p) PROVE gc' = gc
    BY <1>2 DEF PublisherStep, Publish, Share, WriteRecord, WriteCheckpoint, CommitPublication,
                AbortPublication, IssueCheckpoint
  <1>3. ASSUME NEW r \in Restorer, RestorerStep(r) PROVE gc' = gc
    BY <1>3 DEF RestorerStep, ClaimCheckpoint, Adopt, SettleClaim, LoseClaim
  <1>4. ASSUME NEW b \in Collector, CollectorStep(b) PROVE gc'[c].rev \in {0, db.rev, gc[c].rev}
    <2>1. CASE ReadRevision(b) \/ GiveUp(b) \/ EndCollection(b) \/ CommitClear(b)
      <3>1. PICK s : gc' = [gc EXCEPT ![b] = s] /\ s.rev \in {0, db.rev}
        <4>1. CASE ReadRevision(b)
          <5> DEFINE s == [Idle EXCEPT !.stage = "rows", !.rev = db.rev]
          <5>1. gc' = [gc EXCEPT ![b] = s]
            BY <4>1 DEF ReadRevision
          <5>2. s.rev = db.rev
            BY DEF Idle
          <5>3. QED
            BY <5>1, <5>2
        <4>2. CASE GiveUp(b) \/ EndCollection(b) \/ CommitClear(b)
          BY <4>2 DEF GiveUp, EndCollection, CommitClear, Idle
        <4>3. QED
          BY <2>1, <4>1, <4>2
      <3>2. QED
        BY <1>1, <3>1
    <2>2. CASE ReadRows(b) \/ ReadKeys(b) \/ CommitRemoval(b) \/ BeginClear(b)
      BY <1>1, <2>2 DEF ReadRows, ReadKeys, CommitRemoval, BeginClear, CollectorState
    <2>3. ASSUME NEW keep \in SUBSET Root, ReadFiles(b, keep) PROVE gc'[c].rev = gc[c].rev
      <3>1. PICK strays, keys, rows :
              gc' = [gc EXCEPT ![b].stage = "collect", ![b].rows = rows, ![b].valued = {},
                               ![b].strays = strays, ![b].keys = keys]
        BY <2>3, Zenon DEF ReadFiles
      <3>2. QED
        BY <1>1, <3>1 DEF CollectorState
    <2>4. ASSUME NEW k \in Key, CollectRow(b, k) \/ CollectKey(b, k) PROVE gc'[c].rev = gc[c].rev
      BY <1>1, <2>4 DEF CollectRow, CollectKey, CollectorState
    <2>5. ASSUME NEW d \in Digest, SkipFile(b, d) \/ RemoveFile(b, d) \/ ClearFile(b, d)
          PROVE  gc'[c].rev = gc[c].rev
      BY <1>1, <2>5 DEF SkipFile, RemoveFile, ClearFile, CollectorState
    <2>6. Root \subseteq Key
      BY DEF Key
    <2>7. QED
      BY <1>4, <2>1, <2>2, <2>3, <2>4, <2>5, <2>6 DEF CollectorStep
  <1>5. QED
    BY <1>2, <1>3, <1>4 DEF Next

LEMMA NumberStep ==
  ASSUME TypeOK, NumberInv, Changed, \A c \in Collector : gc'[c].rev \in {0, db.rev, gc[c].rev}
  PROVE  NumberInv'
  <1>1. /\ db.rev \in Nat /\ db.cleared \in Nat
        /\ \A k \in Key : db.log[k] \in Nat
        /\ \A k \in Root : stamp[k] \in Nat /\ k \in Key
        /\ \A k \in Record : k \in Root
        /\ \A c \in Collector : gc[c].rev \in Nat
        /\ db.rows \subseteq Root
    BY DEF TypeOK, Database, Key, Root
  <1>2. CASE Kept
    BY <1>1, <1>2 DEF Kept, NumberInv
  <1>3. CASE Published
    <2>1. db.rev <= db'.rev /\ (root \in Root => db'.rev = db.rev + 1)
      BY <1>1, <1>3, StoreAssumption DEF Published
    <2>2. \A k \in Key : db'.log[k] <= db'.rev
      BY <1>1, <1>3, <2>1 DEF Published, NumberInv
    <2>3. \A k \in Root : stamp'[k] <= db'.rev
      BY <1>1, <1>3, <2>1 DEF Published, NumberInv
    <2>4. ASSUME NEW k \in db'.rows
          PROVE  stamp'[k] > 0 /\ stamp'[k] <= db'.log[k] /\ (k \in Record => db'.log[k] = stamp'[k])
      <3>1. CASE k = root
        <4>1. k \in touched /\ k \in Key /\ k \in Root
          BY <1>1, <1>3, <2>4, <3>1, StoreAssumption DEF Published, TypeOK
        <4>2. stamp'[k] = db.rev + 1 /\ db'.log[k] = db.rev + 1
          BY <1>3, <3>1, <4>1 DEF Published
        <4>3. QED
          BY <1>1, <4>2
      <3>2. CASE k # root
        <4>1. k \in db.rows /\ k \in Root /\ k \in Key /\ k \notin touched
          BY <1>1, <1>3, <2>4, <3>2 DEF Published
        <4>2. stamp'[k] = stamp[k] /\ db'.log[k] = db.log[k]
          BY <1>3, <3>2, <4>1 DEF Published
        <4>3. QED
          BY <4>1, <4>2 DEF NumberInv
      <3>3. QED
        BY <3>1, <3>2
    <2>5. db'.cleared <= db'.rev
      BY <1>1, <1>3, <2>1 DEF Published, NumberInv
    <2>6. ASSUME NEW c \in Collector PROVE gc'[c].rev <= db'.rev
      <3>1. gc'[c].rev \in Nat /\ gc'[c].rev <= db.rev
        BY <1>1 DEF NumberInv
      <3>2. db'.rev \in Nat
        BY <1>1, <1>3 DEF Published
      <3>3. QED
        BY <1>1, <2>1, <3>1, <3>2
    <2>7. QED
      BY <2>2, <2>3, <2>4, <2>5, <2>6 DEF NumberInv
  <1>4. CASE Issued
    BY <1>1, <1>4 DEF Issued, NumberInv
  <1>5. CASE Emptied
    BY <1>1, <1>5 DEF Emptied, NumberInv
  <1>6. ASSUME NEW t \in Ticket, Named(t) PROVE NumberInv'
    <2>1. t \notin Record
      BY StoreAssumption
    <2>2. QED
      BY <1>1, <1>6, <2>1 DEF Named, NumberInv
  <1>7. ASSUME NEW k \in Key, Deleted(k) PROVE NumberInv'
    BY <1>1, <1>7 DEF Deleted, NumberInv
  <1>8. QED
    BY <1>2, <1>3, <1>4, <1>5, <1>6, <1>7 DEF Changed, Rewritten

-----------------------------------------------------------------------------
(* Standing roots.                                                         *)

\* A root stands after a step because the step published it, or because it
\* stood before and the entries of its artifacts are no older than they were.
LEMMA StandingStep ==
  ASSUME TypeOK, NumberInv, Changed, NEW k \in Root, Standing(k)'
  PROVE  \/ /\ Refs(k) \subseteq files /\ UNCHANGED <<files, lost>>
            /\ stamp'[k] = db.rev + 1
            /\ \A d \in Refs(k) : db'.log[d] = db.rev + 1
         \/ /\ Standing(k) /\ stamp'[k] = stamp[k] /\ db'.cleared = db.cleared
            /\ \A d \in Refs(k) : db'.log[d] \in {db.log[d], db.rev + 1}
  <1>1. k \in Key /\ Refs(k) \subseteq Key /\ Refs(k) \cap Root = {}
    BY RefsType, StoreAssumption DEF Key
  <1>2. db.rev \in Nat /\ stamp[k] <= db.rev /\ stamp[k] \in Nat
    BY DEF TypeOK, Database, NumberInv
  <1>3. CASE Kept
    BY <1>3 DEF Kept, Standing
  <1>4. CASE Published
    <2>1. CASE k = root
      BY <1>1, <1>4, <2>1, StoreAssumption DEF Published
    <2>2. CASE k # root
      <3>1. k \notin touched
        BY <1>4, <2>2 DEF Published
      <3>2. Standing(k) /\ stamp'[k] = stamp[k]
        BY <1>1, <1>4, <2>2, <3>1 DEF Published, Standing
      <3>3. QED
        BY <1>1, <1>4, <3>2 DEF Published
    <2>3. QED
      BY <2>1, <2>2
  <1>5. CASE Issued
    BY <1>5 DEF Issued, Standing
  <1>6. CASE Emptied
    BY <1>6 DEF Emptied, Standing
  <1>7. ASSUME NEW t \in Ticket, Named(t)
        PROVE  /\ Standing(k) /\ stamp'[k] = stamp[k] /\ db'.cleared = db.cleared
               /\ \A d \in Refs(k) : db'.log[d] = db.log[d]
    <2>1. t \in Root
      BY DEF Root
    <2>2. k # t
      BY <1>1, <1>2, <1>7 DEF Named, Standing
    <2>3. QED
      BY <1>1, <1>7, <2>1, <2>2 DEF Named, Standing
  <1>8. ASSUME NEW j \in Key, Deleted(j)
        PROVE  /\ Standing(k) /\ stamp'[k] = stamp[k] /\ db'.cleared = db.cleared
               /\ \A d \in Refs(k) : db'.log[d] = db.log[d]
    <2>1. k # j /\ Standing(k)
      BY <1>1, <1>8 DEF Deleted, Standing
    <2>2. QED
      BY <1>1, <1>8, <2>1 DEF Deleted
  <1>9. QED
    BY <1>3, <1>4, <1>5, <1>6, <1>7, <1>8 DEF Changed, Rewritten

\* What a standing root needs is removed by a clear alone, which says so.
LEMMA FilesStep ==
  ASSUME TypeOK, DraftInv, ProtectInv, Next, NEW k \in Root, Standing(k), Standing(k)',
         NEW d \in Refs(k), d \in files \cup lost
  PROVE  d \in files' \cup lost'
  <1>1. ASSUME NEW p \in Publisher, PublisherStep(p) PROVE d \in files' \cup lost'
    BY <1>1 DEF PublisherStep, Publish, Share, WriteRecord, WriteCheckpoint, CommitPublication,
                AbortPublication, IssueCheckpoint
  <1>2. ASSUME NEW r \in Restorer, RestorerStep(r) PROVE d \in files' \cup lost'
    BY <1>2 DEF RestorerStep, ClaimCheckpoint, Adopt, SettleClaim, LoseClaim
  <1>3. ASSUME NEW c \in Collector, CollectorStep(c) PROVE d \in files' \cup lost'
    <2>1. ASSUME NEW e \in Digest, RemoveFile(c, e) PROVE d \in files' \cup lost'
      <3>1. e # d
        BY <2>1 DEF RemoveFile, ProtectInv, AtStage
      <3>2. QED
        BY <2>1, <3>1 DEF RemoveFile
    <2>2. CASE CommitClear(c)
      BY <2>2, ClearEmpties DEF Emptied, Standing
    <2>3. CASE \E e \in Digest : SkipFile(c, e) \/ ClearFile(c, e)
      BY <2>3 DEF SkipFile, ClearFile
    <2>4. CASE \/ ReadRevision(c) \/ ReadRows(c) \/ ReadKeys(c) \/ EndCollection(c)
               \/ BeginClear(c) \/ GiveUp(c) \/ CommitRemoval(c)
      BY <2>4 DEF ReadRevision, ReadRows, ReadKeys, EndCollection, BeginClear, GiveUp,
                  CommitRemoval, Unlocked
    <2>5. CASE \/ \E keep \in SUBSET Root : ReadFiles(c, keep)
               \/ \E j \in Root : CollectRow(c, j)
               \/ \E j \in Key : CollectKey(c, j)
      BY <2>5 DEF ReadFiles, CollectRow, CollectKey, Unlocked
    <2>6. QED
      BY <1>3, <2>1, <2>2, <2>3, <2>4, <2>5 DEF CollectorStep
  <1>4. QED
    BY <1>1, <1>2, <1>3 DEF Next

LEMMA CoverStep ==
  ASSUME TypeOK, DraftInv, NumberInv, CoverInv, ProtectInv, Next
  PROVE  CoverInv'
  <1>1. SUFFICES ASSUME NEW k \in Root, Standing(k)', NEW d \in Refs(k)
                 PROVE  d \in files' \cup lost' /\ stamp'[k] <= db'.log[d]
    BY DEF CoverInv, Refs
  <1>2. d \in Key /\ db.rev \in Nat /\ stamp[k] \in Nat /\ db.log[d] \in Nat
    BY RefsType DEF Key, TypeOK, Database
  <1>3. Changed
    BY StepChanges
  <1>4. CASE /\ Refs(k) \subseteq files /\ UNCHANGED <<files, lost>>
             /\ stamp'[k] = db.rev + 1
             /\ \A e \in Refs(k) : db'.log[e] = db.rev + 1
    BY <1>1, <1>2, <1>4
  <1>5. CASE /\ Standing(k) /\ stamp'[k] = stamp[k]
             /\ \A e \in Refs(k) : db'.log[e] \in {db.log[e], db.rev + 1}
    <2>1. d \in files \cup lost /\ stamp[k] <= db.log[d] /\ stamp[k] <= db.rev
      BY <1>5 DEF CoverInv, NumberInv
    <2>2. d \in files' \cup lost'
      BY <1>1, <1>5, <2>1, FilesStep
    <2>3. QED
      BY <1>2, <1>5, <2>1, <2>2
  <1>6. QED
    BY <1>1, <1>3, <1>4, <1>5, StandingStep

-----------------------------------------------------------------------------
(* Collections under way.                                                  *)

\* the part of ProtectInv that is about one collection and one root
Protected(c, k) ==
  /\ gc[c].stage \in {"keys", "files"} =>
       k \in gc[c].rows \/ (\A d \in Refs(k) : Renewed(c, d))
  /\ gc[c].stage \in {"collect", "remove"} =>
       k \in gc[c].rows \/
       (\A d \in Refs(k) : d \in gc[c].strays \cup gc[c].keys => Renewed(c, d))

\* What a collection finds renewed stays renewed as long as the root stands.
LEMMA RenewedStep ==
  ASSUME TypeOK, NumberInv, Changed, NEW c \in Collector, gc'[c].rev = gc[c].rev,
         NEW k \in Root, Standing(k)'
  PROVE  \/ \A d \in Refs(k) : Renewed(c, d)'
         \/ Standing(k) /\ \A d \in Refs(k) : Renewed(c, d) => Renewed(c, d)'
  <1>1. /\ db.rev \in Nat /\ gc[c].rev \in Nat /\ gc[c].rev <= db.rev
        /\ \A d \in Refs(k) : db.log[d] \in Nat
    BY RefsType DEF TypeOK, Database, Key, NumberInv
  <1>2. CASE \A d \in Refs(k) : db'.log[d] = db.rev + 1
    BY <1>1, <1>2 DEF Renewed
  <1>3. CASE /\ Standing(k) /\ db'.cleared = db.cleared
             /\ \A d \in Refs(k) : db'.log[d] \in {db.log[d], db.rev + 1}
    BY <1>1, <1>3 DEF Renewed
  <1>4. QED
    BY <1>2, <1>3, StandingStep

\* so that a collection which reads nothing more and drops no row stays harmless
LEMMA ProtectedStep ==
  ASSUME TypeOK, NumberInv, ProtectInv, Changed, NEW c \in Collector,
         gc'[c].rev = gc[c].rev,
         gc'[c].rows = gc[c].rows,
         gc'[c].stage = gc[c].stage \/ {gc'[c].stage, gc[c].stage} = {"collect", "remove"},
         gc'[c].strays \subseteq gc[c].strays, gc'[c].keys \subseteq gc[c].keys,
         NEW k \in Root, Standing(k)'
  PROVE  Protected(c, k)'
  <1>1. CASE \A d \in Refs(k) : Renewed(c, d)'
    BY <1>1 DEF Protected, Refs
  <1>2. CASE Standing(k) /\ \A d \in Refs(k) : Renewed(c, d) => Renewed(c, d)'
    <2>1. Protected(c, k)
      BY <1>2 DEF ProtectInv, Protected
    <2>2. CASE gc'[c].stage = gc[c].stage
      BY <1>2, <2>1, <2>2 DEF Protected, Refs
    <2>3. CASE {gc'[c].stage, gc[c].stage} = {"collect", "remove"}
      <3>1. gc'[c].stage \in {"collect", "remove"} /\ gc[c].stage \in {"collect", "remove"}
        BY <2>3
      <3>2. QED
        BY <1>2, <2>1, <3>1 DEF Protected, Refs
    <2>4. QED
      BY <2>2, <2>3
  <1>3. QED
    BY <1>1, <1>2, RenewedStep

\* nobody touches what a collector has read but itself
LEMMA CollectorsApart ==
  ASSUME TypeOK, Next, NEW c \in Collector
  PROVE  gc'[c] = gc[c] \/ CollectorStep(c)
  <1>1. gc \in [Collector -> CollectorState]
    BY DEF TypeOK, CollectorState
  <1>2. ASSUME NEW p \in Publisher, PublisherStep(p) PROVE gc' = gc
    BY <1>2 DEF PublisherStep, Publish, Share, WriteRecord, WriteCheckpoint, CommitPublication,
                AbortPublication, IssueCheckpoint
  <1>3. ASSUME NEW r \in Restorer, RestorerStep(r) PROVE gc' = gc
    BY <1>3 DEF RestorerStep, ClaimCheckpoint, Adopt, SettleClaim, LoseClaim
  <1>4. ASSUME NEW b \in Collector, b # c, CollectorStep(b) PROVE gc'[c] = gc[c]
    <2>1. CASE \/ ReadRevision(b) \/ GiveUp(b) \/ EndCollection(b) \/ CommitClear(b)
               \/ ReadRows(b) \/ ReadKeys(b) \/ CommitRemoval(b) \/ BeginClear(b)
      BY <1>1, <1>4, <2>1 DEF ReadRevision, GiveUp, EndCollection, CommitClear,
                              ReadRows, ReadKeys, CommitRemoval, BeginClear
    <2>2. CASE \E keep \in SUBSET Root : ReadFiles(b, keep)
      BY <1>1, <1>4, <2>2 DEF ReadFiles
    <2>3. CASE (\E k \in Root : CollectRow(b, k)) \/ (\E k \in Key : CollectKey(b, k))
      BY <1>1, <1>4, <2>3 DEF CollectRow, CollectKey
    <2>4. CASE \E d \in Digest : SkipFile(b, d) \/ RemoveFile(b, d) \/ ClearFile(b, d)
      BY <1>1, <1>4, <2>4 DEF SkipFile, RemoveFile, ClearFile
    <2>5. QED
      BY <1>4, <2>1, <2>2, <2>3, <2>4 DEF CollectorStep
  <1>5. QED
    BY <1>2, <1>3, <1>4 DEF Next

\* a root that a collection looks at and finds renewed
LEMMA RenewedRow ==
  ASSUME TypeOK, CoverInv, NEW c \in Collector, NEW k \in Root, Standing(k), Renewed(c, k),
         NEW d \in Refs(k)
  PROVE  Renewed(c, d)
  <1>1. stamp[k] <= db.log[d] /\ db.log[k] = stamp[k]
    BY DEF CoverInv, Standing
  <1>2. d \in Key /\ db.log[d] \in Nat /\ stamp[k] \in Nat /\ gc[c].rev \in Nat
    BY RefsType DEF TypeOK, Database, Key
  <1>3. QED
    BY <1>1, <1>2 DEF Renewed

LEMMA ProtectStep ==
  ASSUME TypeOK, DraftInv, NumberInv, CoverInv, ProtectInv, Next
  PROVE  ProtectInv'
  <1>1. SUFFICES ASSUME NEW c \in Collector, NEW k \in Root, Standing(k)' PROVE Protected(c, k)'
    BY DEF ProtectInv, Protected
  <1>2. Changed
    BY StepChanges
  <1>3. gc \in [Collector -> CollectorState] /\ gc[c] \in CollectorState
    BY DEF TypeOK, CollectorState
  <1>4. CASE gc'[c] = gc[c]
    BY <1>1, <1>2, <1>4, ProtectedStep
  <1>5. CASE CollectorStep(c)
    <2>1. CASE ReadRevision(c) \/ EndCollection(c) \/ BeginClear(c) \/ CommitClear(c) \/ GiveUp(c)
      <3>1. gc'[c].stage \in {"idle", "rows", "clear"}
        <4>1. CASE ReadRevision(c)
          BY <1>3, <4>1 DEF ReadRevision, Idle
        <4>2. CASE BeginClear(c)
          BY <1>3, <4>2 DEF BeginClear, CollectorState
        <4>3. CASE EndCollection(c) \/ CommitClear(c) \/ GiveUp(c)
          BY <1>3, <4>3 DEF EndCollection, CommitClear, GiveUp, Idle
        <4>4. QED
          BY <2>1, <4>1, <4>2, <4>3
      <3>2. QED
        BY <3>1 DEF Protected
    <2>2. CASE ReadRows(c)
      <3>1. gc'[c].stage = "keys" /\ db.rows \subseteq gc'[c].rows /\ db' = db
        BY <1>3, <2>2 DEF ReadRows, Unlocked, CollectorState
      <3>2. QED
        BY <1>1, <3>1 DEF Protected, Standing
    <2>3. CASE ReadKeys(c)
      <3>1. /\ gc'[c].stage = "files" /\ gc[c].stage = "keys"
            /\ gc'[c].rows = gc[c].rows /\ gc'[c].rev = gc[c].rev
            /\ db' = db /\ stamp' = stamp
        BY <1>3, <2>3 DEF ReadKeys, AtStage, Unlocked, CollectorState
      <3>2. k \in gc[c].rows \/ \A d \in Refs(k) : Renewed(c, d)
        BY <1>1, <3>1 DEF ProtectInv, Standing
      <3>3. QED
        BY <3>1, <3>2 DEF Protected, Renewed, Refs
    <2>4. ASSUME NEW keep \in SUBSET Root, ReadFiles(c, keep) PROVE Protected(c, k)'
      <3> DEFINE strays == files \ UNION {Refs(j) : j \in keep}
                 keys == gc[c].keys \ (gc[c].rows \cup files)
                 rows == gc[c].rows \ keep
      <3>1. gc' = [gc EXCEPT ![c].stage = "collect", ![c].rows = rows, ![c].valued = {},
                             ![c].strays = strays, ![c].keys = keys]
        BY <2>4, Zenon DEF ReadFiles
      <3>2. \A d \in strays \cup keys : k \in keep => d \notin Refs(k)
        BY <2>4 DEF ReadFiles
      <3>3. k \in gc[c].rows /\ k \notin keep => k \in rows
        OBVIOUS
      <3> HIDE DEF strays, keys, rows
      <3>4. /\ gc'[c].stage = "collect" /\ gc'[c].rows = rows /\ gc'[c].strays = strays
            /\ gc'[c].keys = keys /\ gc'[c].rev = gc[c].rev
        BY <1>3, <3>1 DEF CollectorState
      <3>5. k \in gc[c].rows \/ \A d \in Refs(k) : Renewed(c, d)
        BY <1>1, <2>4 DEF ReadFiles, ProtectInv, Standing, AtStage, Unlocked
      <3>6. db' = db
        BY <2>4 DEF ReadFiles, Unlocked
      <3>7. QED
        BY <3>2, <3>3, <3>4, <3>5, <3>6 DEF Protected, Renewed, Refs
    <2>5. ASSUME NEW j \in Root, CollectRow(c, j) PROVE Protected(c, k)'
      <3>1. /\ gc'[c].stage = "collect" /\ gc[c].stage = "collect"
            /\ gc'[c].rows = gc[c].rows \ {j} /\ gc'[c].rev = gc[c].rev
            /\ gc'[c].strays = gc[c].strays /\ gc'[c].keys = gc[c].keys
        BY <1>3, <2>5 DEF CollectRow, AtStage, CollectorState
      <3>2. CASE \A d \in Refs(k) : Renewed(c, d)'
        BY <3>2 DEF Protected, Refs
      <3>3. CASE Standing(k) /\ \A d \in Refs(k) : Renewed(c, d) => Renewed(c, d)'
        <4>1. CASE k # j
          <5>1. Protected(c, k)
            BY <3>3 DEF ProtectInv, Protected
          <5>2. QED
            BY <3>1, <3>3, <4>1, <5>1 DEF Protected, Refs
        <4>2. CASE k = j
          <5>1. Renewed(c, j)
            BY <1>1, <2>5, <4>2, RowDeletes DEF Deleted, Standing
          <5>2. \A d \in Refs(k) : Renewed(c, d)
            BY <3>3, <4>2, <5>1, RenewedRow
          <5>3. QED
            BY <3>3, <5>2 DEF Protected, Refs
        <4>3. QED
          BY <4>1, <4>2
      <3>4. QED
        BY <1>1, <1>2, <3>1, <3>2, <3>3, RenewedStep
    <2>6. ASSUME NEW d \in Digest, SkipFile(c, d) \/ RemoveFile(c, d) PROVE Protected(c, k)'
      <3>1. /\ gc[c].stage = "collect" /\ gc'[c].stage \in {"collect", "remove"}
            /\ gc'[c].rows = gc[c].rows /\ gc'[c].rev = gc[c].rev
            /\ gc'[c].strays = gc[c].strays \ {d} /\ gc'[c].keys = gc[c].keys
        BY <1>3, <2>6 DEF SkipFile, RemoveFile, AtStage, CollectorState
      <3>2. QED
        BY <1>1, <1>2, <3>1, ProtectedStep
    <2>7. ASSUME NEW d \in Digest, ClearFile(c, d) PROVE Protected(c, k)'
      BY <1>1, <1>2, <2>7, ProtectedStep DEF ClearFile
    <2>8. CASE CommitRemoval(c)
      <3>1. /\ gc[c].stage = "remove" /\ gc'[c].stage = "collect"
            /\ gc'[c].rows = gc[c].rows /\ gc'[c].rev = gc[c].rev
            /\ gc'[c].strays = gc[c].strays /\ gc'[c].keys = gc[c].keys
        BY <1>3, <2>8 DEF CommitRemoval, AtStage, CollectorState
      <3>2. QED
        BY <1>1, <1>2, <3>1, ProtectedStep
    <2>9. ASSUME NEW j \in Key, CollectKey(c, j) PROVE Protected(c, k)'
      <3>1. /\ gc'[c].stage = gc[c].stage
            /\ gc'[c].rows = gc[c].rows /\ gc'[c].rev = gc[c].rev
            /\ gc'[c].strays = gc[c].strays /\ gc'[c].keys = gc[c].keys \ {j}
        BY <1>3, <2>9 DEF CollectKey, AtStage, CollectorState
      <3>2. QED
        BY <1>1, <1>2, <3>1, ProtectedStep
    <2>10. QED
      BY <1>5, <2>1, <2>2, <2>3, <2>4, <2>5, <2>6, <2>7, <2>8, <2>9 DEF CollectorStep
  <1>6. QED
    BY <1>4, <1>5, CollectorsApart

-----------------------------------------------------------------------------
(* Tickets.                                                                *)

LEMMA TicketFrame ==
  ASSUME TypeOK, NumberInv, TicketInv, Rewritten, UNCHANGED <<hold, adopted>>
  PROVE  TicketInv'
  <1>1. db.rev \in Nat /\ db.seq \in Nat /\ Ticket \subseteq Root /\ Ticket \subseteq Nat
        /\ \A t \in Ticket : stamp[t] \in Nat
    BY DEF TypeOK, Database, Root, Ticket
  <1>2. CASE Kept
    BY <1>2 DEF Kept, TicketInv, Holds
  <1>3. CASE Published
    <2>1. ASSUME NEW t \in Ticket, t # root
          PROVE  stamp'[t] = stamp[t] /\ (t \in db'.rows <=> t \in db.rows)
                 /\ (t \in db'.issued <=> t \in db.issued)
      BY <1>1, <1>3, <2>1 DEF Published
    <2>2. root \in Ticket => /\ root \in db.issued /\ root \notin db'.issued
                             /\ stamp[root] = 0 /\ root <= db.seq
      <3>1. root \in Ticket => root \in db.issued /\ root \notin db'.issued
        BY <1>3 DEF Published
      <3>2. root \in db.issued /\ root \in Ticket => ~(stamp[root] > 0) /\ ~(root > db.seq)
        BY DEF TicketInv
      <3>3. root \in Ticket => root \in Nat /\ stamp[root] \in Nat /\ db.seq \in Nat
        BY <1>1
      <3>4. QED
        BY <3>1, <3>2, <3>3
    <2>3. db'.seq = db.seq /\ db'.claim = db.claim
      BY <1>3 DEF Published
    <2>4. QED
      BY <1>1, <2>1, <2>2, <2>3 DEF TicketInv, Holds
  <1>4. CASE Issued
    <2>1. ASSUME NEW t \in Ticket, t > db.seq + 1
          PROVE  t \notin db'.rows \cup db'.issued /\ stamp'[t] = 0
      BY <1>1, <1>4, <2>1 DEF Issued, TicketInv
    <2>2. ASSUME NEW t \in Ticket, stamp'[t] > 0 PROVE t \notin db'.issued
      <3>1. t # db.seq + 1
        BY <1>1, <1>4, <2>2 DEF Issued, TicketInv
      <3>2. QED
        BY <1>4, <2>2, <3>1 DEF Issued, TicketInv
    <2>3. QED
      BY <1>4, <2>1, <2>2 DEF Issued, TicketInv, Holds
  <1>5. CASE Emptied
    BY <1>5 DEF Emptied, TicketInv, Holds
  <1>6. ASSUME NEW k \in Key, Deleted(k) PROVE TicketInv'
    BY <1>6 DEF Deleted, TicketInv, Holds
  <1>7. QED
    BY <1>2, <1>3, <1>4, <1>5, <1>6 DEF Rewritten

LEMMA RestorerTickets ==
  ASSUME TypeOK, NumberInv, TicketInv, NEW r \in Restorer, RestorerStep(r)
  PROVE  TicketInv'
  <1>1. /\ hold \in [Restorer -> [ticket : Ticket, claim : Nat, used : BOOLEAN] \cup {NoHold}]
        /\ adopted \in [Ticket -> Nat] /\ stamp \in [Root -> Nat] /\ Ticket \subseteq Root
        /\ NoHold.ticket \notin Ticket
    BY StoreAssumption DEF TypeOK, NoHold, Ticket, Root
  <1>2. ASSUME hold[r] # NoHold
        PROVE  /\ hold[r].ticket \in Ticket /\ Holds(r, hold[r].ticket)
               /\ hold[r].used \in BOOLEAN
    BY <1>1, <1>2 DEF Holds
  <1>3. ASSUME NEW h, hold' = [hold EXCEPT ![r] = h], NEW s \in Restorer, s # r
        PROVE  hold'[s] = hold[s]
    BY <1>1, <1>3
  <1>4. ASSUME NEW t \in Ticket, ClaimCheckpoint(r, t) PROVE TicketInv'
    <2>1. /\ t \in db.rows /\ db.claim[t] = 0
          /\ adopted' = adopted /\ Named(t)
      BY <1>4, ClaimNames DEF ClaimCheckpoint
    <2>2. hold'[r].ticket = t /\ \A s \in Restorer \ {r} : hold'[s] = hold[s]
      BY <1>1, <1>4 DEF ClaimCheckpoint
    <2>3. /\ adopted[t] = 0 /\ (\A s \in Restorer : ~Holds(s, t))
          /\ stamp[t] > 0 /\ db'.claim[t] = claims + 1
      <3>1. adopted[t] = 0 /\ \A s \in Restorer : ~Holds(s, t)
        BY <2>1 DEF TicketInv
      <3>2. stamp[t] > 0
        BY <2>1 DEF NumberInv
      <3>3. db'.claim[t] = claims + 1
        <4> DEFINE n == claims + 1
                   d == [db EXCEPT !.claim[t] = n]
        <4>1. n \in Nat
          BY DEF TypeOK
        <4>2. db' = Stamped(d, {t})
          BY <1>4 DEF ClaimCheckpoint, Close
        <4>3. n = claims + 1
          OBVIOUS
        <4> HIDE DEF n
        <4>4. d \in Database /\ d.claim[t] = n
          BY <4>1 DEF TypeOK, Database
        <4> HIDE DEF d
        <4>5. QED
          BY <4>2, <4>3, <4>4, StampedFields
      <3>4. QED
        BY <3>1, <3>2, <3>3
    <2>4. claims + 1 # 0
      BY DEF TypeOK
    <2>5. QED
      BY <1>1, <2>1, <2>2, <2>3, <2>4 DEF TicketInv, Holds, Named
  <1>5. CASE Adopt(r)
    <2>1. hold[r].ticket \in Ticket /\ Holds(r, hold[r].ticket) /\ ~hold[r].used
      BY <1>2, <1>5 DEF Adopt
    <2>2. /\ UNCHANGED <<db, stamp>>
          /\ hold'[r].ticket = hold[r].ticket /\ hold'[r].used = TRUE
          /\ \A s \in Restorer \ {r} : hold'[s] = hold[s]
          /\ \A t \in Ticket : adopted'[t] = IF t = hold[r].ticket THEN adopted[t] + 1 ELSE adopted[t]
      BY <1>1, <1>5, <2>1 DEF Adopt
    <2>3. adopted[hold[r].ticket] = 0
      BY <2>1 DEF TicketInv
    <2>4. QED
      BY <1>1, <2>1, <2>2, <2>3 DEF TicketInv, Holds
  <1>6. ASSUME NEW consumed \in BOOLEAN, SettleClaim(r, consumed) PROVE TicketInv'
    <2> DEFINE t == hold[r].ticket
    <2>1. t \in Ticket /\ Holds(r, t) /\ Named(t) /\ adopted' = adopted
      BY <1>2, <1>6, SettlementNames DEF SettleClaim
    <2>2. /\ hold'[r] = NoHold
          /\ \A s \in Restorer \ {r} : hold'[s] = hold[s]
      BY <1>1, <1>6 DEF SettleClaim
    <2>3. t \in db'.rows /\ db'.claim[t] = 0 => adopted[t] = 0
      <3>1. CASE consumed
        <4>1. CASE db.claim[t] # hold[r].claim
          <5>1. db' = Stamped(db, {t})
            BY <1>6, <4>1 DEF SettleClaim, Released, Close
          <5>2. db'.rows = db.rows /\ db'.claim = db.claim
            BY <5>1, StampedFields DEF TypeOK
          <5>3. QED
            BY <2>1, <5>2 DEF TicketInv
        <4>2. CASE db.claim[t] = hold[r].claim
          <5> DEFINE d == Without(db, t)
          <5>1. d \in Database /\ t \notin d.rows
            BY WithoutFields DEF TypeOK
          <5>2. db' = Stamped(d, {t})
            BY <1>6, <3>1, <4>2 DEF SettleClaim, Released, Close
          <5> HIDE DEF d
          <5>3. QED
            BY <5>1, <5>2, StampedFields
        <4>3. QED
          BY <4>1, <4>2
      <3>2. CASE ~consumed
        BY <1>6, <2>1, <3>2 DEF SettleClaim, TicketInv
      <3>3. QED
        BY <3>1, <3>2
    <2>4. \A s \in Restorer \ {r} : ~Holds(s, t)
      BY <2>1 DEF TicketInv
    <2>5. stamp[t] # 0
      BY <2>1 DEF TicketInv
    <2> HIDE DEF t
    <2>6. QED
      BY <1>1, <2>1, <2>2, <2>3, <2>4, <2>5 DEF TicketInv, Holds, Named
  <1>7. CASE LoseClaim(r)
    <2>1. /\ UNCHANGED <<db, stamp, adopted>> /\ hold'[r] = NoHold
          /\ \A s \in Restorer \ {r} : hold'[s] = hold[s]
      BY <1>1, <1>7 DEF LoseClaim
    <2>2. QED
      BY <1>1, <2>1 DEF TicketInv, Holds
  <1>8. QED
    BY <1>4, <1>5, <1>6, <1>7 DEF RestorerStep

-----------------------------------------------------------------------------
(* The store's promises.                                                   *)

LEMMA InvInit ==
  ASSUME Init
  PROVE  Inv
  <1>1. TypeOK
    BY InitType
  <1>2. /\ db.rows = {} /\ db.issued = {} /\ db.cleared = 0 /\ db.rev = 0
        /\ \A k \in Key : db.log[k] = 0
        /\ \A k \in Root : stamp[k] = 0
        /\ \A t \in Ticket : adopted[t] = 0
        /\ \A c \in Collector : gc[c].rev = 0 /\ gc[c].stage = "idle"
        /\ \A r \in Restorer : hold[r].ticket = 0
        /\ writer = NoOne
    BY DEF Init, Idle, NoHold
  <1>3. 0 \notin Ticket
    BY StoreAssumption DEF Ticket
  <1>4. DraftInv
    BY <1>2, StoreAssumption DEF DraftInv, AtStage
  <1>5. NumberInv
    BY <1>2 DEF NumberInv
  <1>6. CoverInv /\ ProtectInv
    <2>1. \A k \in Root : ~Standing(k)
      BY <1>2 DEF Standing
    <2>2. QED
      BY <2>1 DEF CoverInv, ProtectInv
  <1>7. TicketInv
    <2>1. \A t \in Ticket : t \in Root /\ stamp[t] = 0 /\ adopted[t] = 0
      BY <1>2 DEF Root
    <2>2. \A t \in Ticket : \A r \in Restorer : ~Holds(r, t)
      BY <1>2, <1>3 DEF Holds
    <2>3. QED
      BY <1>2, <2>1, <2>2 DEF TicketInv
  <1>8. QED
    BY <1>1, <1>4, <1>5, <1>6, <1>7 DEF Inv

LEMMA InvStep ==
  ASSUME Inv, [Next]_vars
  PROVE  Inv'
  <1>1. CASE Next
    <2>1. Changed
      BY StepChanges, <1>1 DEF Inv
    <2>2. TypeOK' /\ CoverInv' /\ ProtectInv'
      BY <1>1, TypeStep, CoverStep, ProtectStep DEF Inv
    <2>3. NumberInv'
      BY <1>1, <2>1, RevisionsRead, NumberStep DEF Inv
    <2>4. DraftInv'
      BY <1>1, PublisherDraft, RestorerDraft, CollectorDraft DEF Inv, Next
    <2>5. TicketInv'
      <3>1. ASSUME NEW p \in Publisher, PublisherStep(p) PROVE TicketInv'
        <4>1. UNCHANGED <<hold, adopted>>
          BY <3>1 DEF PublisherStep, Publish, Share, WriteRecord, WriteCheckpoint,
                      CommitPublication, AbortPublication, IssueCheckpoint
        <4>2. QED
          BY <3>1, <4>1, PublisherChanges, TicketFrame DEF Inv
      <3>2. ASSUME NEW c \in Collector, CollectorStep(c) PROVE TicketInv'
        <4>1. UNCHANGED <<hold, adopted>>
          BY <3>2 DEF CollectorStep, ReadRevision, ReadRows, ReadKeys, ReadFiles, CollectRow,
                      SkipFile, RemoveFile, CommitRemoval, CollectKey, EndCollection, BeginClear,
                      ClearFile, CommitClear, GiveUp, Unlocked
        <4>2. QED
          BY <3>2, <4>1, CollectorChanges, TicketFrame DEF Inv
      <3>3. QED
        BY <1>1, <3>1, <3>2, RestorerTickets DEF Inv, Next
    <2>6. QED
      BY <2>2, <2>3, <2>4, <2>5 DEF Inv
  <1>2. CASE UNCHANGED vars
    <2>1. TypeOK'
      BY <1>2, TypeStep DEF Inv
    <2>2. \A k \in Root : Standing(k)' = Standing(k)
      BY <1>2 DEF vars, Standing
    <2>3. \A c \in Collector : \A k \in Key : Renewed(c, k)' = Renewed(c, k)
      BY <1>2 DEF vars, Renewed
    <2>4. CoverInv' /\ ProtectInv'
      BY <1>2 DEF vars, Inv, CoverInv, ProtectInv, Standing, Renewed, Refs
    <2>5. DraftInv'
      BY <1>2, FrameDraft DEF vars, Inv
    <2>6. NumberInv' /\ TicketInv'
      BY <1>2 DEF vars, Inv, NumberInv, TicketInv, Holds
    <2>7. QED
      BY <2>1, <2>4, <2>5, <2>6 DEF Inv
  <1>3. QED
    BY <1>1, <1>2

\* The inductive invariant holds in every state.
THEOREM StoreInvariance == Spec => []Inv
  BY InvInit, InvStep, PTL DEF Spec

\* The variables keep their types and a closed transaction leaves no draft.
THEOREM StoreTypeCorrect == Spec => []TypeOK
  <1>1. Inv => TypeOK
    BY DEF Inv
  <1>2. QED
    BY <1>1, StoreInvariance, PTL

\* What is committed has its artifacts, whoever collects, clears or dies.
THEOREM StoreRootsComplete == Spec => []RootsComplete
  <1>1. ASSUME Inv PROVE RootsComplete
    <2>1. ASSUME NEW k \in db.rows, k \in Ticket => db.log[k] = stamp[k]
          PROVE  Refs(k) \subseteq files \cup lost
      <3>1. k \in Root /\ Standing(k)
        BY <1>1, <2>1 DEF Inv, TypeOK, Database, NumberInv, Standing, Root
      <3>2. QED
        BY <1>1, <3>1 DEF Inv, CoverInv
    <2>2. QED
      BY <2>1 DEF RootsComplete
  <1>2. QED
    BY <1>1, StoreInvariance, PTL

\* No checkpoint is adopted twice.
THEOREM StoreAdoptsOnce == Spec => []AdoptedOnce
  <1>1. Inv => AdoptedOnce
    BY DEF Inv, TicketInv, AdoptedOnce
  <1>2. QED
    BY <1>1, StoreInvariance, PTL

\* A ticket that was published and removed is not issued or published again.
THEOREM StoreTicketsFresh == Spec => TicketsNeverReturn
  <1> DEFINE Gone(t) == stamp[t] > 0 /\ t \notin db.rows \cup db.issued
             Unissued == \A t \in Ticket : Gone(t) => t \notin db'.rows \cup db'.issued
  <1>1. ASSUME Inv, [Next]_vars PROVE [Unissued]_vars
    <2>1. CASE UNCHANGED vars
      BY <2>1
    <2>2. CASE Next
      <3>1. Changed
        BY <1>1, <2>2, StepChanges DEF Inv
      <3>2. ASSUME NEW t \in Ticket, Gone(t) PROVE t \notin db'.rows \cup db'.issued
        <4>1. t \in Root /\ db.seq \in Nat /\ stamp[t] \in Nat
          BY <1>1 DEF Inv, TypeOK, Database, Root
        <4>2. t # db.seq + 1
          BY <1>1, <3>2, <4>1 DEF Inv, TicketInv, Ticket
        <4>3. CASE Published
          BY <3>2, <4>3 DEF Published
        <4>4. CASE Kept \/ Issued \/ Emptied
          BY <3>2, <4>2, <4>4 DEF Kept, Issued, Emptied
        <4>5. CASE \E k \in Key : Deleted(k)
          BY <3>2, <4>5 DEF Deleted
        <4>6. CASE \E u \in Ticket : Named(u)
          BY <3>2, <4>6 DEF Named
        <4>7. QED
          BY <3>1, <4>3, <4>4, <4>5, <4>6 DEF Changed, Rewritten
      <3>3. QED
        BY <3>2
    <2>3. QED
      BY <1>1, <2>1, <2>2
  <1>2. Spec => [][Unissued]_vars
    BY <1>1, StoreInvariance, PTL DEF Spec
  <1>3. QED
    BY <1>2 DEF TicketsNeverReturn

\* A collection removes nothing that was published after it began.
THEOREM StoreCollectsOld == Spec => NothingNewCollected
  <1> DEFINE Old == \A c \in Collector : AtStage(c, "collect") /\ gc'[c] # gc[c] =>
                      \A k \in db.rows \ db'.rows : stamp[k] <= gc[c].rev
  <1>1. ASSUME Inv, [Next]_vars PROVE [Old]_vars
    <2>1. CASE UNCHANGED vars
      BY <2>1
    <2>2. CASE Next
      <3>1. ASSUME NEW c \in Collector, AtStage(c, "collect"), gc'[c] # gc[c],
                   NEW k \in db.rows \ db'.rows
            PROVE  stamp[k] <= gc[c].rev
        <4>1. CollectorStep(c)
          BY <1>1, <2>2, <3>1, CollectorsApart DEF Inv
        <4>2. /\ k \in Root /\ k \in Key /\ stamp[k] \in Nat /\ db.log[k] \in Nat
              /\ gc[c].rev \in Nat /\ stamp[k] <= db.log[k]
          BY <1>1, <3>1 DEF Inv, TypeOK, Database, NumberInv, Key
        <4>3. ASSUME NEW j \in Key, CollectRow(c, j) \/ CollectKey(c, j), ~Renewed(c, j), Deleted(j)
              PROVE  stamp[k] <= gc[c].rev
          <5>1. k = j
            BY <3>1, <4>3 DEF Deleted
          <5>2. QED
            BY <4>2, <4>3, <5>1 DEF Renewed
        <4>4. ASSUME NEW j \in Root, CollectRow(c, j) PROVE stamp[k] <= gc[c].rev
          <5>1. Deleted(j) /\ ~Renewed(c, j)
            BY <1>1, <3>1, <4>4, RowDeletes DEF Inv, Kept
          <5>2. QED
            BY <4>3, <4>4, <5>1 DEF Key
        <4>5. ASSUME NEW j \in Key, CollectKey(c, j) PROVE stamp[k] <= gc[c].rev
          <5>1. Deleted(j) /\ ~Renewed(c, j)
            BY <1>1, <3>1, <4>5, KeyDeletes DEF Inv, Kept
          <5>2. QED
            BY <4>3, <4>5, <5>1
        <4>6. ASSUME NEW d \in Digest, SkipFile(c, d) \/ RemoveFile(c, d) \/ ClearFile(c, d)
              PROVE  db' = db
          BY <4>6 DEF SkipFile, RemoveFile, ClearFile
        <4>7. CASE EndCollection(c) \/ GiveUp(c)
          BY <3>1, <4>7 DEF EndCollection, Unlocked, GiveUp, Rollback, Close
        <4>8. ~(ReadRevision(c) \/ ReadRows(c) \/ ReadKeys(c) \/ CommitRemoval(c) \/ BeginClear(c)
                \/ CommitClear(c) \/ \E keep \in SUBSET Root : ReadFiles(c, keep))
          BY <3>1 DEF ReadRevision, ReadRows, ReadKeys, CommitRemoval, BeginClear, CommitClear,
                      ReadFiles, AtStage
        <4>9. QED
          BY <3>1, <4>1, <4>4, <4>5, <4>6, <4>7, <4>8 DEF CollectorStep
      <3>2. QED
        BY <3>1
    <2>3. QED
      BY <1>1, <2>1, <2>2
  <1>2. Spec => [][Old]_vars
    BY <1>1, StoreInvariance, PTL DEF Spec
  <1>3. QED
    BY <1>2 DEF NothingNewCollected

\* What the run `store` checks of the reuse store at every moment (ProvenanceCertificateStore).
THEOREM StoreIsSafe == Spec => []StoreSafe
  BY StoreTypeCorrect, StoreRootsComplete, StoreAdoptsOnce, PTL DEF StoreSafe

\* ... and what it checks of every step.
THEOREM StoreStepsHold == Spec => StoreSteps
  BY StoreTicketsFresh, StoreCollectsOld DEF StoreSteps
-----------------------------------------------------------------------------
(* Settings: what the files, the memory and the saves under way say.        *)

GlobalOverlays == [Keys -> {"none", "a", "b"}]
ProjectOverlays == {o \in [Keys -> {"none", "null", "a", "b"}] : o.key = "none"}
Overlays == [Keys -> {"none", "null", "a", "b"}]
Fits(s, o) == IF s = "global" THEN o \in GlobalOverlays ELSE o \in ProjectOverlays
Saves == [scope : Scopes, value : Overlays, checked : BOOLEAN]

SettingsType ==
  /\ file \in [Scopes -> Overlays \cup {Broken}] /\ file["global"] \in GlobalOverlays \cup {Broken}
  /\ mem \in [Scopes -> Overlays] /\ \A s \in Scopes : Fits(s, mem[s])
  /\ scope \in Scopes /\ trusted \in BOOLEAN
  /\ unreadable \subseteq Scopes /\ broken \subseteq Scopes /\ dirty \subseteq Scopes
  /\ queue \in Seq(Saves) /\ \A i \in 1..Len(queue) : Fits(queue[i].scope, queue[i].value)
  /\ saves \in Nat /\ spent \in [edits : Nat, writes : Nat, reads : Nat]
  /\ wanted \in [Scopes -> [Keys -> {"none", "a", "b", "any"}]]

\* A scope with a save under way is not clean, and the last of its saves is what the session remembers.
LastSave(i) == \A k \in 1..Len(queue) : k > i => queue[k].scope # queue[i].scope
SavesTrue ==
  \A i \in 1..Len(queue) :
    /\ queue[i].scope \in dirty
    /\ LastSave(i) => queue[i].value = mem[queue[i].scope]
    /\ queue[i].checked => i = 1

\* The settings for all projects are read in every session.
GlobalKnown == "global" \notin dirty => mem["global"] = Readable("global")

\* What was asked for is in the file of a clean scope, and in the memory of another.
Stands == [s \in Scopes |-> IF s \in dirty THEN mem[s] ELSE Loaded(TRUE)[s]]
WishesStand == \A s \in Scopes : wanted[s] # NoWish => editable(Stands, s) = wanted[s]

\* A file that was unparsable is known to be, and no save of its scope has passed the check.
BrokenKnown ==
  \A s \in broken : file[s] = Broken /\ s \in unreadable /\ \A i \in 1..Len(queue) : queue[i].scope = s => ~queue[i].checked

SettingsInv == SettingsType /\ SavesTrue /\ GlobalKnown /\ WishesStand

LEMMA BrokenIsNone == Broken \notin Overlays /\ Broken # Empty /\ Empty \in GlobalOverlays /\ Empty \in ProjectOverlays
  <1>1. Broken["on"] = "unparsable" /\ Empty["on"] = "none"
    BY DEF Broken, Empty, Keys
  <1>2. Broken \notin Overlays
    BY <1>1 DEF Overlays, Keys
  <1>3. QED
    BY <1>1, <1>2 DEF Empty, GlobalOverlays, ProjectOverlays, Keys

LEMMA ScopesFit ==
  /\ GlobalOverlays \subseteq Overlays /\ ProjectOverlays \subseteq Overlays
  /\ \A o \in Overlays : userScoped(o) \in ProjectOverlays
  /\ \A o \in ProjectOverlays : userScoped(o) = o
  BY DEF GlobalOverlays, ProjectOverlays, Overlays, userScoped, Keys

LEMMA ReadTyped ==
  ASSUME SettingsType
  PROVE  /\ \A s \in Scopes : Readable(s) \in Overlays
         /\ Readable("global") \in GlobalOverlays
  BY BrokenIsNone, ScopesFit DEF SettingsType, Readable, Scopes

LEMMA LoadedTyped ==
  ASSUME SettingsType, NEW trust \in BOOLEAN
  PROVE  /\ Loaded(trust) \in [Scopes -> Overlays] /\ \A s \in Scopes : Fits(s, Loaded(trust)[s])
         /\ Loaded(trust)["global"] = Readable("global")
  BY ReadTyped, BrokenIsNone, ScopesFit DEF Loaded, Fits, Scopes

\* What diffRecord leaves out and takes away comes back through applyOverlay, in either scope.
LEMMA GlobalComesBack ==
  ASSUME NEW value \in Values
  PROVE  /\ diffRecord(Normal(Empty), value) \in GlobalOverlays
         /\ Normal(applyOverlay(diffRecord(Normal(Empty), value), Empty)) = value
  <1> DEFINE base == Normal(Empty)
             d == diffRecord(base, value)
             back == Normal(applyOverlay(d, Empty))
  <1>1. base = [k \in Keys |-> Defaults[k]]
    BY DEF Normal, Empty
  <1>2. Defaults["on"] = "a" /\ Defaults["model"] = "none" /\ Defaults["key"] = "none"
    BY DEF Defaults
  <1>3. value \in [Keys -> {"none", "a", "b"}] /\ value["on"] # "none"
    BY DEF Values, Keys
  <1> HIDE DEF base
  <1>4. \A k \in Keys : d[k] = IF value[k] = Defaults[k] THEN "none" ELSE value[k]
    BY <1>1, <1>2, <1>3 DEF diffRecord, Keys
  <1>5. d = [k \in Keys |-> d[k]]
    BY DEF diffRecord
  <1> HIDE DEF d
  <1>6. d \in GlobalOverlays
    BY <1>3, <1>4, <1>5 DEF GlobalOverlays
  <1>7. \A k \in Keys : back[k] = IF d[k] = "none" THEN Defaults[k] ELSE d[k]
    BY <1>6 DEF Normal, applyOverlay, Empty, GlobalOverlays
  <1>8. back = [k \in Keys |-> back[k]]
    BY DEF Normal
  <1> HIDE DEF back
  <1>9. \A k \in Keys : back[k] = value[k]
    BY <1>2, <1>3, <1>4, <1>7 DEF Keys
  <1>10. back = value
    BY <1>3, <1>8, <1>9
  <1>11. QED
    BY <1>6, <1>10 DEF base, d, back

LEMMA ProjectComesBack ==
  ASSUME NEW value \in Values, NEW g \in GlobalOverlays
  PROVE  /\ userScoped(diffRecord(Normal(g), value)) \in ProjectOverlays
         /\ Normal(applyOverlay(g, userScoped(diffRecord(Normal(g), value)))) = [value EXCEPT !.key = Normal(g).key]
  <1> DEFINE base == Normal(g)
             d == diffRecord(base, value)
             o == userScoped(d)
             back == Normal(applyOverlay(g, o))
  <1>1. \A k \in Keys : base[k] = IF g[k] = "none" THEN Defaults[k] ELSE g[k]
    BY DEF Normal
  <1>2. Defaults["on"] = "a" /\ Defaults["model"] = "none" /\ Defaults["key"] = "none"
    BY DEF Defaults
  <1>3. /\ value \in [Keys -> {"none", "a", "b"}] /\ value["on"] # "none"
        /\ g \in [Keys -> {"none", "a", "b"}] /\ Keys = {"on", "model", "key"}
    BY DEF Values, GlobalOverlays, Keys
  <1> HIDE DEF base
  <1>4. /\ d = [k \in Keys |-> d[k]]
        /\ \A k \in Keys : d[k] = IF value[k] = base[k] THEN "none" ELSE IF value[k] = "none" THEN "null" ELSE value[k]
    BY DEF diffRecord
  <1> HIDE DEF d
  <1>5. d \in Overlays
    BY <1>3, <1>4 DEF Overlays
  <1>6. o \in ProjectOverlays /\ o["key"] = "none" /\ o["on"] = d["on"] /\ o["model"] = d["model"]
    BY <1>3, <1>5, ScopesFit DEF userScoped, Overlays
  <1> HIDE DEF o
  <1>7. \A k \in Keys : applyOverlay(g, o)[k] = IF o[k] = "null" THEN "none" ELSE IF o[k] = "none" THEN g[k] ELSE o[k]
    BY DEF applyOverlay
  <1>8. /\ back = [k \in Keys |-> back[k]]
        /\ \A k \in Keys : back[k] = IF applyOverlay(g, o)[k] = "none" THEN Defaults[k] ELSE applyOverlay(g, o)[k]
    BY DEF Normal
  <1> HIDE DEF back
  <1>9. back["on"] = value["on"]
    BY <1>1, <1>2, <1>3, <1>4, <1>6, <1>7, <1>8
  <1>10. back["model"] = value["model"]
    BY <1>1, <1>2, <1>3, <1>4, <1>6, <1>7, <1>8
  <1>11. back["key"] = base["key"]
    BY <1>1, <1>2, <1>3, <1>6, <1>7, <1>8
  <1>12. back = [value EXCEPT !["key"] = base["key"]]
    BY <1>3, <1>8, <1>9, <1>10, <1>11
  <1>13. QED
    BY <1>6, <1>12 DEF base, d, o, back

LEMMA StandsTyped ==
  ASSUME SettingsInv
  PROVE  /\ Stands \in [Scopes -> Overlays] /\ \A s \in Scopes : Fits(s, Stands[s])
         /\ Stands["global"] = mem["global"] /\ mem["global"] \in GlobalOverlays
  BY LoadedTyped DEF SettingsInv, SettingsType, GlobalKnown, Stands, Fits, Scopes

LEMMA SettingsStart == SettingsInit => SettingsInv /\ BrokenKnown
  <1> SUFFICES ASSUME SettingsInit PROVE SettingsInv /\ BrokenKnown
    OBVIOUS
  <1>1. SettingsType
    <2>1. file \in [Scopes -> Overlays \cup {Broken}] /\ file["global"] \in GlobalOverlays \cup {Broken}
      BY BrokenIsNone, ScopesFit DEF SettingsInit, Scopes, Overlays, GlobalOverlays, Keys
    <2>2. \A s \in Scopes : Readable(s) \in Overlays
      BY <2>1, BrokenIsNone, ScopesFit DEF Readable
    <2>3. Readable("global") \in GlobalOverlays
      BY <2>1, BrokenIsNone DEF Readable
    <2>4. mem \in [Scopes -> Overlays] /\ \A s \in Scopes : Fits(s, mem[s])
      BY <2>2, <2>3, BrokenIsNone, ScopesFit DEF SettingsInit, Loaded, Fits, Scopes
    <2>5. wanted \in [Scopes -> [Keys -> {"none", "a", "b", "any"}]]
      BY DEF SettingsInit, NoWish
    <2>6. QED
      BY <2>1, <2>4, <2>5 DEF SettingsInit, SettingsType, Unparsable, Chosen, Scopes
  <1>2. Len(queue) = 0
    BY DEF SettingsInit
  <1>3. QED
    BY <1>1, <1>2 DEF SettingsInit, SettingsInv, SavesTrue, GlobalKnown, WishesStand, BrokenKnown, Loaded, Unparsable, Scopes

\* A save joins the queue: only its scope changes hands.
LEMMA PersistKeeps ==
  ASSUME SettingsInv, NEW o \in Overlays, Fits(scope, o), Persist([mem EXCEPT ![scope] = o]),
         wanted' \in [Scopes -> [Keys -> {"none", "a", "b", "any"}]]
  PROVE  /\ SettingsType' /\ SavesTrue' /\ GlobalKnown'
         /\ Stands' = [Stands EXCEPT ![scope] = o]
         /\ BrokenKnown => BrokenKnown'
  <1> DEFINE save == [scope |-> scope, value |-> o, checked |-> FALSE]
  <1>1. mem' = [mem EXCEPT ![scope] = o] /\ mem'[scope] = o /\ dirty' = dirty \cup {scope}
    BY DEF Persist, SettingsInv, SettingsType
  <1>2. save \in Saves /\ queue' = Append(queue, save)
    BY <1>1 DEF Persist, Saves, SettingsInv, SettingsType
  <1>3. /\ queue' \in Seq(Saves) /\ Len(queue') = Len(queue) + 1 /\ queue'[Len(queue) + 1] = save
        /\ \A i \in 1..Len(queue) : queue'[i] = queue[i]
    BY <1>2 DEF SettingsInv, SettingsType
  <1>4. SettingsType'
    <2>1. mem' \in [Scopes -> Overlays] /\ \A s \in Scopes : Fits(s, mem'[s])
      BY <1>1 DEF SettingsInv, SettingsType
    <2>2. \A i \in 1..Len(queue') : Fits(queue'[i].scope, queue'[i].value)
      <3>1. ASSUME NEW i \in 1..Len(queue') PROVE i \in 1..Len(queue) \/ i = Len(queue) + 1
        BY <1>3 DEF SettingsInv, SettingsType
      <3>2. QED
        BY <1>3, <3>1 DEF SettingsInv, SettingsType
    <2>3. QED
      BY <1>1, <1>3, <2>1, <2>2 DEF Persist, SettingsInv, SettingsType
  <1>5. SavesTrue'
    <2> SUFFICES ASSUME NEW i \in 1..Len(queue')
                 PROVE  /\ queue'[i].scope \in dirty'
                        /\ LastSave(i)' => queue'[i].value = mem'[queue'[i].scope]
                        /\ queue'[i].checked => i = 1
      BY DEF SavesTrue
    <2>1. CASE i = Len(queue) + 1
      BY <2>1, <1>1, <1>3
    <2>2. CASE i # Len(queue) + 1
      <3>1. i \in 1..Len(queue) /\ Len(queue) \in Nat
        BY <2>2, <1>3 DEF SettingsInv, SettingsType
      <3>2. LastSave(i)' => LastSave(i) /\ queue[i].scope # scope
        BY <3>1, <1>3 DEF LastSave
      <3>3. QED
        BY <3>1, <3>2, <1>1, <1>3 DEF SettingsInv, SavesTrue, SettingsType, Saves
    <2>3. QED
      BY <2>1, <2>2
  <1>6. GlobalKnown'
    BY <1>1 DEF Persist, SettingsInv, SettingsType, GlobalKnown, Readable, Scopes
  <1>7. Stands' = [Stands EXCEPT ![scope] = o]
    BY <1>1 DEF Persist, SettingsInv, SettingsType, Stands, Loaded, Readable
  <1>8. ASSUME BrokenKnown PROVE BrokenKnown'
    BY <1>8, <1>3 DEF BrokenKnown, Persist, SettingsInv, SettingsType
  <1>9. QED
    BY <1>4, <1>5, <1>6, <1>7, <1>8

LEMMA SetEffectiveKeeps ==
  ASSUME SettingsInv, NEW value \in Values, SetEffective(value)
  PROVE  SettingsInv' /\ (BrokenKnown => BrokenKnown')
  <1> DEFINE inherited == Normal(IF scope = "project" THEN mem["global"] ELSE Empty)
             overlay == diffRecord(inherited, value)
             o == IF scope = "project" THEN userScoped(overlay) ELSE overlay
             wish == [value EXCEPT !.key = IF scope = "project" THEN inherited.key ELSE @]
  <1>1. Persist([mem EXCEPT ![scope] = o]) /\ wanted' = Wants({scope}, wish)
    BY DEF SetEffective
  <1>2. scope \in Scopes /\ mem["global"] \in GlobalOverlays /\ Stands["global"] = mem["global"]
    BY StandsTyped DEF SettingsInv, SettingsType
  <1>3. CASE scope = "global"
    <2>1. o = diffRecord(Normal(Empty), value) /\ wish = value
      BY <1>3 DEF Values, Keys
    <2>2. o \in GlobalOverlays /\ Normal(applyOverlay(o, Empty)) = wish
      BY <2>1, GlobalComesBack
    <2>3. wanted' = [s \in Scopes |-> IF s = "global" THEN wish ELSE NoWish]
      BY <1>1, <1>3 DEF Wants
    <2>4. wanted' \in [Scopes -> [Keys -> {"none", "a", "b", "any"}]]
      BY <2>1, <2>3 DEF Values, NoWish
    <2> HIDE DEF o, wish
    <2>5. o \in Overlays /\ Fits(scope, o)
      BY <2>2, <1>3, ScopesFit DEF Fits
    <2>6. /\ SettingsType' /\ SavesTrue' /\ GlobalKnown'
          /\ Stands' = [Stands EXCEPT ![scope] = o]
          /\ BrokenKnown => BrokenKnown'
      BY <2>4, <2>5, <1>1, PersistKeeps
    <2>7. Stands'["global"] = o
      BY <2>6, <1>3, StandsTyped DEF Scopes
    <2>8. WishesStand'
      BY <2>2, <2>3, <2>7 DEF WishesStand, editable, Scopes
    <2>9. QED
      BY <2>6, <2>8 DEF SettingsInv
  <1>4. CASE scope = "project"
    <2>1. o = userScoped(diffRecord(Normal(mem["global"]), value))
      BY <1>4
    <2>2. wish = [value EXCEPT !.key = Normal(mem["global"]).key]
      BY <1>4
    <2>3. o \in ProjectOverlays /\ Normal(applyOverlay(mem["global"], o)) = wish
      BY <2>1, <2>2, <1>2, ProjectComesBack
    <2>4. wanted' = [wanted EXCEPT !["project"] = wish]
      BY <1>1, <1>4 DEF Wants, SettingsInv, SettingsType, Scopes
    <2>5. wish \in [Keys -> {"none", "a", "b", "any"}]
      BY <2>2, <1>2 DEF Values, Normal, Keys, Defaults, GlobalOverlays
    <2>6. wanted' \in [Scopes -> [Keys -> {"none", "a", "b", "any"}]]
      BY <2>4, <2>5 DEF SettingsInv, SettingsType
    <2> HIDE DEF o, wish
    <2>7. o \in Overlays /\ Fits(scope, o)
      BY <2>3, <1>4, ScopesFit DEF Fits
    <2>8. /\ SettingsType' /\ SavesTrue' /\ GlobalKnown'
          /\ Stands' = [Stands EXCEPT ![scope] = o]
          /\ BrokenKnown => BrokenKnown'
      BY <2>6, <2>7, <1>1, PersistKeeps
    <2>9. Stands'["project"] = o /\ Stands'["global"] = mem["global"]
      BY <2>8, <1>2, <1>4, StandsTyped DEF Scopes
    <2>10. wanted'["project"] = wish /\ wanted'["global"] = wanted["global"]
      BY <2>4 DEF SettingsInv, SettingsType, Scopes
    <2>11. WishesStand'
      <3> SUFFICES ASSUME NEW s \in Scopes, wanted'[s] # NoWish PROVE editable(Stands', s) = wanted'[s]
        BY DEF WishesStand
      <3>1. CASE s = "project"
        BY <3>1, <2>3, <2>9, <2>10 DEF editable
      <3>2. CASE s = "global"
        BY <3>2, <2>9, <2>10, <1>2 DEF editable, SettingsInv, WishesStand
      <3>3. QED
        BY <3>1, <3>2 DEF Scopes
    <2>12. QED
      BY <2>8, <2>11 DEF SettingsInv
  <1>5. QED
    BY <1>2, <1>3, <1>4 DEF Scopes

LEMMA ClearKeeps == ASSUME SettingsInv, Clear PROVE SettingsInv' /\ (BrokenKnown => BrokenKnown')
  <1>1. Persist([mem EXCEPT ![scope] = Empty]) /\ wanted' = Wants({scope}, NoWish)
    BY DEF Clear
  <1>2. Empty \in Overlays /\ Fits(scope, Empty) /\ scope \in Scopes
    BY BrokenIsNone, ScopesFit DEF Fits, SettingsInv, SettingsType
  <1>3. wanted' \in [Scopes -> [Keys -> {"none", "a", "b", "any"}]]
    BY <1>1 DEF Wants, NoWish, SettingsInv, SettingsType
  <1>4. /\ SettingsType' /\ SavesTrue' /\ GlobalKnown'
        /\ Stands' = [Stands EXCEPT ![scope] = Empty]
        /\ BrokenKnown => BrokenKnown'
    BY <1>1, <1>2, <1>3, PersistKeeps
  <1>5. WishesStand'
    <2> SUFFICES ASSUME NEW s \in Scopes, wanted'[s] # NoWish PROVE editable(Stands', s) = wanted'[s]
      BY DEF WishesStand
    <2>1. s = "global" /\ scope = "project" /\ wanted'[s] = wanted[s]
      BY <1>1, <1>2 DEF Wants, Scopes
    <2>2. Stands'["global"] = Stands["global"]
      BY <1>4, <2>1, StandsTyped DEF Scopes
    <2>3. QED
      BY <2>1, <2>2 DEF editable, SettingsInv, WishesStand
  <1>6. QED
    BY <1>4, <1>5 DEF SettingsInv

LEMMA SetScopeKeeps ==
  ASSUME SettingsInv, NEW s \in Scopes, SetScope(s)
  PROVE  SettingsInv' /\ (BrokenKnown => BrokenKnown')
  BY DEF SetScope, SettingsInv, SettingsType, SavesTrue, LastSave, GlobalKnown, Readable, WishesStand, Stands, Loaded, BrokenKnown

\* The saves that wait when the first one is done with.
LEMMA Popped ==
  ASSUME SettingsInv, queue # <<>>, queue' = Tail(queue)
  PROVE  /\ queue' \in Seq(Saves) /\ Len(queue') = Len(queue) - 1 /\ Len(queue) \in Nat \ {0}
         /\ \A i \in 1..Len(queue') : i + 1 \in 1..Len(queue) /\ queue'[i] = queue[i + 1]
         /\ \A i \in 1..Len(queue') : LastSave(i)' => LastSave(i + 1)
  <1>1. queue' \in Seq(Saves) /\ Len(queue') = Len(queue) - 1 /\ Len(queue) \in Nat \ {0}
    BY DEF SettingsInv, SettingsType
  <1>2. \A i \in 1..Len(queue') : i + 1 \in 1..Len(queue) /\ queue'[i] = queue[i + 1]
    BY <1>1 DEF SettingsInv, SettingsType
  <1>3. ASSUME NEW i \in 1..Len(queue'), LastSave(i)' PROVE LastSave(i + 1)
    <2> SUFFICES ASSUME NEW k \in 1..Len(queue), k > i + 1 PROVE queue[k].scope # queue[i + 1].scope
      BY DEF LastSave
    <2>1. k - 1 \in 1..Len(queue') /\ k - 1 > i /\ queue'[k - 1] = queue[k]
      BY <1>1, <1>2
    <2>2. QED
      BY <2>1, <1>2, <1>3 DEF LastSave
  <1>4. QED
    BY <1>1, <1>2, <1>3

\* The first save has passed the check of its file.
LEMMA Passed ==
  ASSUME NEW q \in Saves
  PROVE  /\ [q EXCEPT !.checked = TRUE] \in Saves
         /\ [q EXCEPT !.checked = TRUE].scope = q.scope /\ [q EXCEPT !.checked = TRUE].value = q.value
  BY DEF Saves

LEMMA CheckedKeeps ==
  ASSUME SettingsInv, queue # <<>>, NEW next, next = [queue EXCEPT ![1].checked = TRUE]
  PROVE  /\ next \in Seq(Saves) /\ Len(next) = Len(queue)
         /\ \A i \in 1..Len(queue) : /\ next[i].scope = queue[i].scope /\ next[i].value = queue[i].value
                                     /\ i # 1 => next[i] = queue[i]
  <1>1. Len(queue) \in Nat \ {0} /\ queue \in Seq(Saves) /\ 1 \in 1..Len(queue) /\ DOMAIN queue = 1..Len(queue)
    BY DEF SettingsInv, SettingsType
  <1>2. queue[1] \in Saves
    BY <1>1
  <1> DEFINE q == [queue[1] EXCEPT !.checked = TRUE]
  <1>3. q \in Saves /\ q.scope = queue[1].scope /\ q.value = queue[1].value
    BY <1>2, Passed
  <1>4. next = [queue EXCEPT ![1] = q]
    OBVIOUS
  <1> HIDE DEF q
  <1>5. next \in Seq(Saves) /\ Len(next) = Len(queue)
    <2>0. \A i \in 1..Len(queue) : queue[i] \in Saves
      BY <1>1
    <2>1. next \in [1..Len(queue) -> Saves]
      BY <1>1, <1>3, <1>4, <2>0
    <2>2. QED
      BY <1>1, <2>1
  <1>6. next[1] = q /\ \A i \in 1..Len(queue) : i # 1 => next[i] = queue[i]
    BY <1>1, <1>4
  <1>7. QED
    BY <1>3, <1>5, <1>6

LEMMA TailShorter == ASSUME NEW q \in Seq(Saves), q # <<>> PROVE Len(Tail(q)) = Len(q) - 1
  OBVIOUS

LEMMA Unpopped == ASSUME SettingsInv, queue # <<>> PROVE [queue EXCEPT ![1].checked = TRUE] # Tail(queue)
  <1> SUFFICES ASSUME NEW next, next = [queue EXCEPT ![1].checked = TRUE], next = Tail(queue) PROVE FALSE
    OBVIOUS
  <1>1. queue \in Seq(Saves) /\ Len(queue) \in Nat \ {0}
    BY DEF SettingsInv, SettingsType
  <1>2. Len(next) = Len(queue)
    BY CheckedKeeps
  <1>3. Len(next) = Len(queue) - 1
    BY <1>1, TailShorter
  <1>4. QED
    BY <1>1, <1>2, <1>3

LEMMA CheckKeeps ==
  ASSUME SettingsInv, NEW fault \in BOOLEAN, Check(fault)
  PROVE  SettingsInv' /\ (MaxReadFaults = 0 /\ BrokenKnown => BrokenKnown')
  <1>1. queue # <<>> /\ ~Head(queue).checked /\ UNCHANGED <<file, mem, scope, trusted, saves, broken, dirty, wanted>>
    BY DEF Check
  <1>2. Len(queue) \in Nat \ {0} /\ Head(queue) = queue[1] /\ queue[1] \in Saves
    BY <1>1 DEF SettingsInv, SettingsType
  <1>3. unreadable' \subseteq Scopes /\ spent' \in [edits : Nat, writes : Nat, reads : Nat]
    BY DEF Check, SettingsInv, SettingsType
  <1>4. GlobalKnown' /\ WishesStand'
    BY <1>1 DEF SettingsInv, GlobalKnown, WishesStand, Stands, Loaded, Readable
  <1>5. CASE queue' = Tail(queue)
    <2>1. SettingsType'
      BY <1>1, <1>3, <1>5, Popped DEF SettingsInv, SettingsType
    <2>2. SavesTrue'
      BY <1>1, <1>5, Popped DEF SettingsInv, SavesTrue
    <2>3. ASSUME MaxReadFaults = 0, BrokenKnown, NEW s \in broken PROVE unreadable' = unreadable \/ s # Head(queue).scope
      BY <1>1, <1>2, <2>3 DEF Check, BrokenKnown, SettingsInv, SettingsType, Saves
    <2>4. ASSUME MaxReadFaults = 0, BrokenKnown PROVE BrokenKnown'
      BY <1>1, <1>5, <2>3, <2>4, Popped DEF Check, BrokenKnown
    <2>5. QED
      BY <1>4, <2>1, <2>2, <2>4 DEF SettingsInv
  <1>6. CASE queue' = [queue EXCEPT ![1].checked = TRUE]
    <2>1. SettingsType'
      BY <1>1, <1>3, <1>6, CheckedKeeps DEF SettingsInv, SettingsType
    <2>2. SavesTrue'
      <3>1. \A i \in 1..Len(queue) : LastSave(i)' => LastSave(i)
        BY <1>1, <1>6, CheckedKeeps DEF LastSave
      <3>2. QED
        BY <1>1, <1>6, <3>1, CheckedKeeps DEF SettingsInv, SavesTrue
    <2>3. ASSUME MaxReadFaults = 0, BrokenKnown PROVE BrokenKnown'
      <3>1. Head(queue).scope \notin broken
        BY <1>1, <1>2, <1>6, <2>3, Unpopped DEF Check, BrokenKnown, Pops
      <3>2. \A s \in broken : s \in unreadable'
        BY <1>1, <2>3, <3>1 DEF Check, BrokenKnown
      <3>3. \A i \in 1..Len(queue) : queue'[i].scope \in broken => i # 1 /\ queue'[i] = queue[i]
        BY <1>1, <1>2, <1>6, <3>1, CheckedKeeps
      <3>4. QED
        BY <1>1, <1>6, <2>3, <3>2, <3>3, CheckedKeeps DEF BrokenKnown
    <2>4. QED
      BY <1>4, <2>1, <2>2, <2>3 DEF SettingsInv
  <1>7. QED
    BY <1>5, <1>6 DEF Check, Pops

LEMMA WriteKeeps ==
  ASSUME SettingsInv, NEW fault \in BOOLEAN, Write(fault)
  PROVE  /\ SettingsInv' /\ (BrokenKnown => BrokenKnown')
         /\ BrokenKnown => \A s \in broken : file'[s] = file[s]
  <1>1. queue # <<>> /\ Head(queue).checked /\ queue' = Tail(queue) /\ UNCHANGED <<mem, scope, trusted, unreadable, saves, wanted>>
    BY DEF Write, Pops
  <1>s. PICK s : s = Head(queue).scope
    OBVIOUS
  <1>2. /\ Len(queue) \in Nat \ {0} /\ Head(queue) = queue[1] /\ queue[1] \in Saves
        /\ s = queue[1].scope /\ s \in Scopes /\ queue[1].value \in Overlays /\ Fits(s, queue[1].value)
    <2>1. Len(queue) \in Nat \ {0} /\ Head(queue) = queue[1] /\ queue[1] \in Saves /\ 1 \in 1..Len(queue)
      BY <1>1 DEF SettingsInv, SettingsType
    <2>2. Fits(queue[1].scope, queue[1].value)
      BY <2>1 DEF SettingsInv, SettingsType
    <2>3. QED
      BY <1>s, <2>1, <2>2 DEF Saves
  <1>3. CASE fault
    <2>1. UNCHANGED <<file, dirty, broken>> /\ spent' \in [edits : Nat, writes : Nat, reads : Nat]
      BY <1>3 DEF Write, SettingsInv, SettingsType
    <2>2. SettingsType'
      BY <1>1, <2>1, Popped DEF SettingsInv, SettingsType
    <2>3. SavesTrue'
      BY <1>1, <2>1, Popped DEF SettingsInv, SavesTrue
    <2>4. GlobalKnown' /\ WishesStand'
      BY <1>1, <2>1 DEF SettingsInv, GlobalKnown, WishesStand, Stands, Loaded, Readable
    <2>5. BrokenKnown => BrokenKnown'
      BY <1>1, <2>1, Popped DEF BrokenKnown
    <2>6. QED
      BY <2>1, <2>2, <2>3, <2>4, <2>5 DEF SettingsInv
  <1>4. CASE ~fault
    <2>1. /\ file' = [file EXCEPT ![s] = queue[1].value] /\ UNCHANGED spent
          /\ dirty' = dirty \ Cleaned(s) /\ broken' = broken \ {s}
      BY <1>s, <1>2, <1>4 DEF Write
    <2>2. dirty' \subseteq dirty /\ \A t \in Scopes : t # s => (t \in dirty' <=> t \in dirty)
      BY <2>1 DEF Cleaned
    <2>3. SettingsType'
      <3>1. file' \in [Scopes -> Overlays \cup {Broken}] /\ file'["global"] \in GlobalOverlays \cup {Broken}
        BY <1>2, <2>1 DEF SettingsInv, SettingsType, Fits
      <3>2. QED
        BY <1>1, <2>1, <2>2, <3>1, Popped DEF SettingsInv, SettingsType
    <2>4. SavesTrue'
      <3>1. ASSUME NEW i \in 1..Len(queue') PROVE queue'[i].scope \in dirty'
        <4>1. queue[i + 1].scope \in dirty /\ i + 1 \in 2..Len(queue) /\ queue'[i] = queue[i + 1]
          BY <1>1, Popped DEF SettingsInv, SavesTrue
        <4>2. QED
          BY <2>1, <4>1 DEF Cleaned
      <3>2. QED
        BY <1>1, <3>1, Popped DEF SettingsInv, SavesTrue
    <2>5. s \notin dirty' => queue[1].value = mem[s]
      <3>1. ASSUME s \notin dirty' PROVE LastSave(1)
        <4>1. s \in dirty
          BY <1>2 DEF SettingsInv, SavesTrue
        <4>2. ~\E i \in 2..Len(queue) : queue[i].scope = s
          BY <2>1, <3>1, <4>1 DEF Cleaned
        <4>3. QED
          BY <1>2, <4>2 DEF LastSave
      <3>2. QED
        BY <1>2, <3>1 DEF SettingsInv, SavesTrue
    <2>6. queue[1].value # Broken
      BY <1>2, BrokenIsNone
    <2>7. /\ Readable(s)' = queue[1].value
          /\ \A t \in Scopes : t # s => Readable(t)' = Readable(t)
      BY <1>2, <2>1, <2>6 DEF Readable, SettingsInv, SettingsType
    <2>8. GlobalKnown'
      BY <1>1, <2>2, <2>5, <2>7 DEF SettingsInv, GlobalKnown, Scopes
    <2>9. Stands' = Stands
      <3> SUFFICES ASSUME NEW t \in Scopes PROVE Stands'[t] = Stands[t]
        BY DEF Stands
      <3>1. CASE t # s
        BY <1>1, <2>2, <2>7, <3>1 DEF Stands, Loaded
      <3>2. CASE t = s
        <4>1. s \in dirty
          BY <1>2 DEF SettingsInv, SavesTrue
        <4>2. Stands[s] = mem[s]
          BY <1>2, <4>1 DEF Stands
        <4>3. CASE s \in dirty'
          BY <1>1, <1>2, <3>2, <4>2, <4>3 DEF Stands
        <4>4. CASE s \notin dirty'
          <5>1. Readable(s)' = mem[s] /\ Fits(s, mem[s])
            BY <1>2, <2>5, <2>7, <4>4 DEF SettingsInv, SettingsType
          <5>2. Loaded(TRUE)'[s] = mem[s]
            BY <1>2, <5>1, ScopesFit DEF Loaded, Fits
          <5>3. QED
            BY <3>2, <1>2, <4>2, <4>4, <5>2 DEF Stands
        <4>5. QED
          BY <4>3, <4>4
      <3>3. QED
        BY <3>1, <3>2
    <2>10. WishesStand'
      BY <1>1, <2>9 DEF SettingsInv, WishesStand
    <2>11. ASSUME BrokenKnown PROVE BrokenKnown' /\ \A t \in broken : file'[t] = file[t]
      <3>1. s \notin broken
        BY <1>1, <1>2, <2>11 DEF BrokenKnown
      <3>2. QED
        BY <1>1, <1>2, <2>1, <2>11, <3>1, Popped DEF BrokenKnown, SettingsInv, SettingsType
    <2>12. QED
      BY <2>3, <2>4, <2>8, <2>10, <2>11 DEF SettingsInv
  <1>5. QED
    BY <1>3, <1>4

LEMMA HandEditKeeps ==
  ASSUME SettingsInv, NEW s \in Scopes,
         NEW content \in {Broken, Empty, [on |-> "b", model |-> "none", key |-> "none"]}, HandEdit(s, content)
  PROVE  /\ SettingsInv' /\ (BrokenKnown => BrokenKnown')
         /\ spent'.edits > spent.edits
  <1>1. /\ file' = [file EXCEPT ![s] = content] /\ broken' = broken \ {s} /\ dirty' = dirty \cup {s}
        /\ spent' = [spent EXCEPT !.edits = @ + 1] /\ wanted' = Wants({s}, NoWish)
        /\ UNCHANGED <<mem, scope, trusted, unreadable, queue, saves>>
    BY DEF HandEdit
  <1>2. content \in GlobalOverlays \cup {Broken}
    BY BrokenIsNone DEF GlobalOverlays, Keys
  <1>3. spent' \in [edits : Nat, writes : Nat, reads : Nat] /\ spent'.edits > spent.edits
    BY <1>1 DEF SettingsInv, SettingsType
  <1>4. SettingsType'
    <2>1. file' \in [Scopes -> Overlays \cup {Broken}] /\ file'["global"] \in GlobalOverlays \cup {Broken}
      BY <1>1, <1>2, ScopesFit DEF SettingsInv, SettingsType
    <2>2. wanted' \in [Scopes -> [Keys -> {"none", "a", "b", "any"}]]
      BY <1>1 DEF Wants, NoWish, SettingsInv, SettingsType
    <2>3. QED
      BY <1>1, <1>3, <2>1, <2>2 DEF SettingsInv, SettingsType
  <1>5. SavesTrue'
    BY <1>1 DEF SettingsInv, SavesTrue, LastSave
  <1>6. GlobalKnown'
    BY <1>1 DEF SettingsInv, SettingsType, GlobalKnown, Readable, Scopes
  <1>7. WishesStand'
    <2> SUFFICES ASSUME NEW t \in Scopes, wanted'[t] # NoWish PROVE editable(Stands', t) = wanted'[t]
      BY DEF WishesStand
    <2>1. t = "global" /\ s = "project" /\ wanted'[t] = wanted[t]
      BY <1>1 DEF Wants, Scopes
    <2>2. Stands'["global"] = Stands["global"]
      BY <1>1, <2>1 DEF Stands, Loaded, Readable, Scopes, SettingsInv, SettingsType
    <2>3. QED
      BY <2>1, <2>2 DEF editable, SettingsInv, WishesStand
  <1>8. BrokenKnown => BrokenKnown'
    BY <1>1 DEF BrokenKnown, SettingsInv, SettingsType
  <1>9. QED
    BY <1>3, <1>4, <1>5, <1>6, <1>7, <1>8 DEF SettingsInv

LEMMA RestartKeeps ==
  ASSUME SettingsInv, NEW trust \in BOOLEAN, Restart(trust)
  PROVE  SettingsInv' /\ BrokenKnown'
  <1>1. /\ trusted' = trust /\ mem' = Loaded(trust) /\ unreadable' = Unparsable(trust) /\ broken' = Unparsable(trust)
        /\ scope' = Chosen(trust) /\ queue' = <<>> /\ dirty' = {} /\ wanted' = Wants(dirty, NoWish)
        /\ UNCHANGED <<file, saves, spent>>
    BY DEF Restart
  <1>2. queue' \in Seq(Saves) /\ Len(queue') = 0
    BY <1>1
  <1>3. SettingsType'
    <2>1. wanted' \in [Scopes -> [Keys -> {"none", "a", "b", "any"}]]
      BY <1>1 DEF Wants, NoWish, SettingsInv, SettingsType
    <2>2. mem' \in [Scopes -> Overlays] /\ \A s \in Scopes : Fits(s, mem'[s])
      BY <1>1, LoadedTyped DEF SettingsInv
    <2>3. scope' \in Scopes /\ unreadable' \subseteq Scopes
      BY <1>1 DEF Chosen, Unparsable, Scopes
    <2>4. QED
      BY <1>1, <1>2, <2>1, <2>2, <2>3 DEF SettingsInv, SettingsType
  <1>4. SavesTrue'
    BY <1>2 DEF SavesTrue
  <1>5. GlobalKnown'
    BY <1>1, LoadedTyped DEF SettingsInv, GlobalKnown, Readable
  <1>6. WishesStand'
    <2> SUFFICES ASSUME NEW t \in Scopes, wanted'[t] # NoWish PROVE editable(Stands', t) = wanted'[t]
      BY DEF WishesStand
    <2>1. t \notin dirty /\ "global" \notin dirty /\ wanted'[t] = wanted[t]
      BY <1>1 DEF Wants, Scopes
    <2>2. Stands'["global"] = Stands["global"] /\ Stands'[t] = Stands[t]
      BY <1>1, <2>1 DEF Stands, Loaded, Readable, Scopes
    <2>3. QED
      BY <2>1, <2>2 DEF editable, SettingsInv, WishesStand, Scopes
  <1>7. BrokenKnown'
    BY <1>1, <1>2 DEF BrokenKnown, Unparsable
  <1>8. QED
    BY <1>3, <1>4, <1>5, <1>6, <1>7 DEF SettingsInv

LEMMA SettingsStutters == ASSUME UNCHANGED settingsVars PROVE (SettingsInv => SettingsInv') /\ (BrokenKnown => BrokenKnown')
  BY DEF settingsVars, SettingsInv, SettingsType, SavesTrue, LastSave, GlobalKnown, Readable, WishesStand, Stands, Loaded, BrokenKnown

LEMMA SettingsStep == SettingsInv /\ [SettingsNext]_settingsVars => SettingsInv'
  <1> SUFFICES ASSUME SettingsInv, [SettingsNext]_settingsVars PROVE SettingsInv'
    OBVIOUS
  <1>1. CASE UNCHANGED settingsVars
    BY <1>1, SettingsStutters
  <1>2. CASE SettingsNext
    BY <1>2, SetEffectiveKeeps, ClearKeeps, SetScopeKeeps, CheckKeeps, WriteKeeps, HandEditKeeps, RestartKeeps DEF SettingsNext
  <1>3. QED
    BY <1>1, <1>2

\* The inductive invariant of the settings holds in every behaviour of them.
THEOREM SettingsInvariance == SettingsSpec => []SettingsInv
  BY SettingsStart, SettingsStep, PTL DEF SettingsSpec

\* What was asked for in a scope is what a later session finds there (setEffective, diffRecord, applyOverlay).
LEMMA ComesBack == SettingsInv => SavedComesBack
  <1> SUFFICES ASSUME SettingsInv, dirty = {}, NEW s \in Scopes, wanted[s] # NoWish
               PROVE  editable(Loaded(TRUE), s) = wanted[s]
    BY DEF SavedComesBack
  <1>1. Stands["global"] = Loaded(TRUE)["global"] /\ Stands[s] = Loaded(TRUE)[s]
    BY DEF Stands, Scopes
  <1>2. QED
    BY <1>1 DEF SettingsInv, WishesStand, editable, Scopes

\* A file that could not be parsed is replaced by an edit only, when no read of it fails for a moment (save).
LEMMA BrokenStaysStep ==
  MaxReadFaults = 0 /\ SettingsInv /\ BrokenKnown /\ [SettingsNext]_settingsVars => BrokenKnown' /\ BrokenKeptStep
  <1> SUFFICES ASSUME MaxReadFaults = 0, SettingsInv, BrokenKnown, [SettingsNext]_settingsVars
               PROVE  BrokenKnown' /\ BrokenKeptStep
    OBVIOUS
  <1>1. CASE UNCHANGED settingsVars
    BY <1>1, SettingsStutters DEF settingsVars, BrokenKeptStep
  <1>2. CASE UNCHANGED file /\ BrokenKnown'
    BY <1>2 DEF BrokenKeptStep
  <1>3. ASSUME NEW value \in Values, SetEffective(value) PROVE UNCHANGED file /\ BrokenKnown'
    BY <1>3, SetEffectiveKeeps DEF SetEffective, Persist
  <1>4. CASE Clear
    BY <1>2, <1>4, ClearKeeps DEF Clear, Persist
  <1>5. ASSUME NEW s \in Scopes, SetScope(s) PROVE UNCHANGED file /\ BrokenKnown'
    BY <1>5, SetScopeKeeps DEF SetScope
  <1>6. ASSUME NEW fault \in BOOLEAN, Check(fault) PROVE UNCHANGED file /\ BrokenKnown'
    BY <1>6, CheckKeeps DEF Check
  <1>7. ASSUME NEW fault \in BOOLEAN, Write(fault) PROVE BrokenKnown' /\ BrokenKeptStep
    BY <1>7, WriteKeeps DEF BrokenKeptStep
  <1>8. ASSUME NEW s \in Scopes, NEW content \in {Broken, Empty, [on |-> "b", model |-> "none", key |-> "none"]},
               HandEdit(s, content)
        PROVE  BrokenKnown' /\ BrokenKeptStep
    BY <1>8, HandEditKeeps DEF BrokenKeptStep
  <1>9. ASSUME NEW trust \in BOOLEAN, Restart(trust) PROVE UNCHANGED file /\ BrokenKnown'
    BY <1>9, RestartKeeps DEF Restart
  <1>10. QED
    BY <1>1, <1>2, <1>3, <1>4, <1>5, <1>6, <1>7, <1>8, <1>9 DEF SettingsNext

\* Hence a save leaves a file that does not parse alone, whatever was asked for meanwhile (persistSelected).
THEOREM BrokenIsKept == ASSUME MaxReadFaults = 0 PROVE SettingsSpec => BrokenKept
  <1>1. SettingsSpec => []BrokenKnown
    BY BrokenStaysStep, SettingsStart, SettingsInvariance, PTL DEF SettingsSpec
  <1>2. QED
    BY <1>1, BrokenStaysStep, SettingsInvariance, PTL DEF SettingsSpec, BrokenKept
-----------------------------------------------------------------------------
(* Searches: who has which worker.                                          *)

WorkerRecords == [state : {"live", "dying", "closed"}, pool : Pools, role : Roles]
RunRecords ==
  [pc : {"idle", "bind", "bound", "work", "request", "settled", "cleanup", "done"},
   pool : Pools \cup {0}, worker : Processes \cup {0}, aborted : BOOLEAN, input : BOOLEAN]

PoolType ==
  /\ session \in {"open", "sealed", "drained", "ended"} /\ search \in Pools \cup {0}
  /\ pool \in [Pools -> {"none", "making", "ready", "reset", "retired", "released"}]
  /\ awaits \in [Pools -> SUBSET Processes]
  /\ idle \in [Pools -> [Roles -> Processes \cup {0}]]
  /\ worker \in [Processes -> WorkerRecords \cup {NoWorker}]
  /\ run \in [Runs -> RunRecords]
  /\ stops \in Nat

\* A run that has a worker has it alone, from the pool it is bound to.
Leasing(r) == run[r].pc \in {"work", "request", "settled", "cleanup"}
LeasesTrue ==
  \A r \in Runs :
    /\ run[r].pc \notin {"idle", "done"} <=> run[r].pool # 0
    /\ run[r].pool # 0 => pool[run[r].pool] # "none"
    /\ Leasing(r) => /\ run[r].worker \in Processes /\ worker[run[r].worker].state # "none"
                     /\ worker[run[r].worker].pool = run[r].pool /\ worker[run[r].worker].role = RoleOf(r)
                     /\ \A q \in Runs : Leasing(q) /\ run[q].worker = run[r].worker => q = r
    /\ (run[r].input => run[r].pc = "request") /\ (run[r].aborted => Leasing(r))

\* A worker that is kept for a role is lent to nobody, and a pool that has retired keeps none.
KeptFor(w, p, role) ==
  /\ pool[p] \in {"making", "ready", "reset"} /\ w \in Processes /\ Leases(w) = {}
  /\ worker[w].state \in {"live", "dying"} /\ worker[w].pool = p /\ worker[w].role = role
IdleTrue == \A p \in Pools, role \in Roles : idle[p][role] # 0 => KeptFor(idle[p][role], p, role)

\* The workers of each pool, by where the pool stands.
WorkersTrue ==
  /\ \A w \in Processes : worker[w].state = "closed" => Leases(w) # {}
  /\ \A p \in Pools :
       /\ pool[p] = "none" => Of(p) = {}
       /\ pool[p] = "retired" => Of(p) \subseteq awaits[p]
       /\ pool[p] = "released" => \A w \in Of(p) : worker[w].state = "closed" /\ ~Busy(w)
       /\ pool[p] \in {"making", "ready"} => p = search
  /\ search # 0 => pool[search] # "none"

SessionEnds ==
  session = "ended" => search = 0 /\ \A p \in Pools : pool[p] \notin {"reset", "retired"}

\* While nothing has failed, a worker dies with its pool, or by the run that gives it up.
DiesInOrder ==
  stops = 0 => \A w \in Processes : worker[w].state \in {"dying", "closed"} =>
    \/ pool[worker[w].pool] \in {"retired", "released"}
    \/ \E r \in Leases(w) : run[r].pc = "cleanup"

PoolsInv == PoolType /\ LeasesTrue /\ IdleTrue /\ WorkersTrue /\ SessionEnds /\ DiesInOrder /\ ActorIsWaitedFor

\* A nonempty set of natural numbers has a least element.
LEMMA LeastNat ==
  ASSUME NEW T, T \subseteq Nat, T # {}
  PROVE  \E x \in T : \A y \in T : x <= y
<1> DEFINE Family == {0..x : x \in T}
           Smaller == StrictSubsetOrdering(Nat)
<1>1. IsWellFoundedOn(Smaller, FiniteSubsetsOf(Nat))
  BY FS_StrictSubsetOrderingWellFounded
<1>2. \A x \in T : IsFiniteSet(0..x)
  BY FS_Interval
<1>3. Family \subseteq FiniteSubsetsOf(Nat) /\ Family # {}
  <2>1. \A x \in T : 0..x \subseteq Nat
    OBVIOUS
  <2>2. \A x \in T : 0..x \in FiniteSubsetsOf(Nat)
    BY <2>1, <1>2 DEF FiniteSubsetsOf
  <2> QED BY <2>2
<1>4. PICK F \in Family : \A G \in Family : ~ (<<G, F>> \in Smaller)
  <2> HIDE DEF Family, Smaller
  <2> QED BY <1>1, <1>3, WFMin
<1>5. PICK x \in T : F = 0..x
  BY <1>4
<1>6. ASSUME NEW y \in T, y < x PROVE FALSE
  <2>1. 0..y \subseteq 0..x /\ 0..y # 0..x /\ 0..y \subseteq Nat /\ 0..x \subseteq Nat
    BY <1>6
  <2>2. <<0..y, F>> \in Smaller
    BY <2>1, <1>5 DEF StrictSubsetOrdering
  <2> QED BY <2>2, <1>4
<1> QED BY <1>6

LEMMA PoolsStart == SearchInit => PoolsInv
  <1> SUFFICES ASSUME SearchInit PROVE PoolsInv
    OBVIOUS
  <1>1. PoolType
    BY DEF SearchInit, PoolType, NoRun, RunRecords, Roles
  <1>2. LeasesTrue /\ ActorIsWaitedFor
    BY DEF SearchInit, LeasesTrue, Leasing, NoRun, ActorIsWaitedFor, Executing, Runs
  <1>3. QED
    BY <1>1, <1>2 DEF SearchInit, PoolsInv, IdleTrue, WorkersTrue, SessionEnds, DiesInOrder, NoWorker, Of

LEMMA NoneIsZero == 0 \notin Pools /\ 0 \notin Processes /\ Processes \subseteq Nat
  BY SearchSetting

\* A new process is lent to nobody and kept for nothing.
LEMMA FreshSpare ==
  ASSUME PoolsInv, Spare # {}
  PROVE  /\ Fresh \in Processes /\ worker[Fresh].state = "none" /\ Leases(Fresh) = {}
         /\ \A p \in Pools, role \in Roles : idle[p][role] # Fresh
  <1>1. Spare \subseteq Nat
    BY NoneIsZero DEF Spare
  <1>2. \E w \in Spare : \A v \in Spare : w <= v
    BY <1>1, LeastNat
  <1>3. Fresh \in Spare
    BY <1>2 DEF Fresh, Least
  <1>4. Fresh \in Processes /\ worker[Fresh].state = "none"
    BY <1>3 DEF Spare
  <1>5. QED
    BY <1>4, NoneIsZero DEF PoolsInv, LeasesTrue, IdleTrue, KeptFor, Leasing, Leases

\* A step of one run that neither takes a worker nor gives one up.
LEMMA OneRun ==
  ASSUME PoolsInv, NEW r \in Runs, NEW x \in RunRecords, run' = [run EXCEPT ![r] = x],
         UNCHANGED <<session, search, pool, awaits, idle, worker, stops>>,
         x.pc \in {"work", "request", "settled", "cleanup"} <=> Leasing(r),
         Leasing(r) => x.worker = run[r].worker /\ x.pool = run[r].pool,
         x.pc \notin {"idle", "done"} <=> x.pool # 0, x.pool # 0 => pool[x.pool] # "none",
         x.input => x.pc = "request", x.aborted => Leasing(r), x.pc \in {"work", "request"} => Executing(r) /\ x.aborted = run[r].aborted,
         run[r].pc # "cleanup"
  PROVE  PoolsInv'
  <1>1. run' \in [Runs -> RunRecords] /\ run'[r] = x /\ \A q \in Runs : q # r => run'[q] = run[q]
    BY DEF PoolsInv, PoolType
  <1>2. \A q \in Runs : Leasing(q)' <=> Leasing(q)
    BY <1>1 DEF Leasing
  <1>3. \A q \in Runs : Leasing(q) => run'[q].worker = run[q].worker /\ run'[q].pool = run[q].pool
    BY <1>1
  <1>4. \A w : Leases(w)' = Leases(w)
    BY <1>2, <1>3 DEF Leases, Leasing
  <1>5. \A q \in Runs : Executing(q)' => Executing(q) /\ run'[q].aborted = run[q].aborted
    BY <1>1 DEF Executing
  <1>6. \A w : Busy(w)' => Busy(w)
    BY <1>4, <1>5 DEF Busy, Leases
  <1>7. LeasesTrue'
    BY <1>1, <1>2, <1>3 DEF PoolsInv, LeasesTrue
  <1>8. IdleTrue' /\ WorkersTrue' /\ SessionEnds'
    <2>1. IdleTrue'
      BY <1>4 DEF PoolsInv, IdleTrue, KeptFor
    <2>2. \A q : Of(q)' = Of(q)
      BY DEF Of
    <2>3. WorkersTrue'
      BY <1>4, <1>6, <2>2 DEF PoolsInv, WorkersTrue
    <2>4. SessionEnds'
      BY DEF PoolsInv, SessionEnds
    <2>5. QED
      BY <2>1, <2>3, <2>4
  <1>9. DiesInOrder'
    BY <1>1, <1>4 DEF PoolsInv, DiesInOrder, Leases
  <1>10. ActorIsWaitedFor'
    BY <1>3, <1>5 DEF PoolsInv, ActorIsWaitedFor, Executing, Leasing, Runs
  <1>11. QED
    BY <1>1, <1>7, <1>8, <1>9, <1>10 DEF PoolsInv, PoolType

LEMMA RunKeeps ==
  ASSUME PoolsInv, NEW r \in Runs,
         Bind(r) \/ Bound(r) \/ Refused(r) \/ Request(r) \/ Input(r) \/ Given(r) \/ Answer(r)
  PROVE  PoolsInv'
  <1>0. run[r] \in RunRecords /\ [NoRun EXCEPT !.pc = "done"] \in RunRecords
    BY DEF PoolsInv, PoolType, NoRun, RunRecords
  <1>1. CASE Bind(r)
    <2> DEFINE x == [run[r] EXCEPT !.pc = "bind", !.pool = search]
    <2>1. /\ x \in RunRecords /\ run' = [run EXCEPT ![r] = x] /\ x.pc = "bind" /\ x.pool = search /\ x.input = run[r].input
          /\ x.aborted = run[r].aborted
      BY <1>0, <1>1 DEF Bind, PoolsInv, PoolType, RunRecords
    <2> HIDE DEF x
    <2>2. run[r].pc = "idle" /\ ~Leasing(r) /\ ~run[r].input /\ ~run[r].aborted /\ search # 0 /\ pool[search] # "none"
      BY <1>1 DEF Bind, PoolsInv, LeasesTrue, WorkersTrue, Leasing
    <2>3. QED
      BY <1>1, <2>1, <2>2, OneRun DEF Bind
  <1>2. CASE (Bound(r) \/ Refused(r)) /\ Ended(r)
    <2> DEFINE x == [NoRun EXCEPT !.pc = "done"]
    <2>1. x \in RunRecords /\ run' = [run EXCEPT ![r] = x] /\ x.pc = "done" /\ x.pool = 0 /\ ~x.input /\ ~x.aborted
      BY <1>0, <1>2 DEF Ended, NoRun
    <2> HIDE DEF x
    <2>2. QED
      BY <1>2, <2>1, OneRun DEF Bound, Refused, Leasing
  <1>3. CASE Bound(r) /\ run' = [run EXCEPT ![r].pc = "bound"]
    <2> DEFINE x == [run[r] EXCEPT !.pc = "bound"]
    <2>1. /\ x \in RunRecords /\ run' = [run EXCEPT ![r] = x] /\ x.pc = "bound" /\ x.pool = run[r].pool /\ x.input = run[r].input
          /\ x.aborted = run[r].aborted
      BY <1>0, <1>3 DEF RunRecords
    <2>2. run[r].pc = "bind" /\ ~run[r].input /\ ~run[r].aborted /\ run[r].pool # 0 /\ pool[run[r].pool] # "none" /\ ~Leasing(r)
      BY <1>3 DEF Bound, PoolsInv, LeasesTrue, Leasing
    <2> HIDE DEF x
    <2>3. UNCHANGED <<session, search, pool, awaits, idle, worker, stops>>
      BY <1>3 DEF Bound
    <2>4. QED
      BY <2>1, <2>2, <2>3, OneRun
  <1>4. CASE Request(r) \/ Answer(r)
    <2>1. PICK to \in {"request", "settled"} : run' = [run EXCEPT ![r].pc = to] /\ (Answer(r) => to = "settled")
      BY <1>4 DEF Request, Answer
    <2> DEFINE x == [run[r] EXCEPT !.pc = to]
    <2>2. /\ x \in RunRecords /\ run' = [run EXCEPT ![r] = x] /\ x.pc = to /\ x.pool = run[r].pool
          /\ x.worker = run[r].worker /\ x.aborted = run[r].aborted /\ x.input = run[r].input
      BY <1>0, <2>1 DEF RunRecords
    <2>3. /\ run[r].pc \in {"work", "request"} /\ ~run[r].input /\ run[r].pool # 0 /\ pool[run[r].pool] # "none"
          /\ Leasing(r) /\ Executing(r)
      BY <1>4 DEF Request, Answer, PoolsInv, LeasesTrue, Leasing, Executing
    <2> HIDE DEF x
    <2>4. UNCHANGED <<session, search, pool, awaits, idle, worker, stops>>
      BY <1>4 DEF Request, Answer
    <2>5. /\ x.pc \in {"work", "request", "settled", "cleanup"} <=> Leasing(r)
          /\ x.pc \notin {"idle", "done"} <=> x.pool # 0
          /\ run[r].pc # "cleanup" /\ (x.input => x.pc = "request")
      BY <2>1, <2>2, <2>3
    <2>6. QED
      BY <2>2, <2>3, <2>4, <2>5, OneRun
  <1>5. CASE Input(r) \/ Given(r)
    <2>1. PICK to \in BOOLEAN : run' = [run EXCEPT ![r].input = to]
      BY <1>5 DEF Input, Given
    <2> DEFINE x == [run[r] EXCEPT !.input = to]
    <2>2. /\ x \in RunRecords /\ run' = [run EXCEPT ![r] = x] /\ x.pc = run[r].pc /\ x.pool = run[r].pool
          /\ x.worker = run[r].worker /\ x.aborted = run[r].aborted /\ run[r].pc = "request"
      BY <1>0, <1>5, <2>1 DEF RunRecords, Input, Given, PoolsInv, LeasesTrue
    <2> HIDE DEF x
    <2>3. QED
      BY <1>5, <2>2, OneRun DEF Input, Given, PoolsInv, LeasesTrue, Leasing, Executing
  <1>6. QED
    BY <1>1, <1>2, <1>3, <1>4, <1>5 DEF Bound, Refused

\* A new profile begins with a process of its own.
LEMMA PrepareKeeps == ASSUME PoolsInv, NEW p \in Pools, PrepareSearch(p) PROVE PoolsInv'
  <1>0. PICK w : w = Fresh
    OBVIOUS
  <1>1. /\ session = "open" /\ search = 0 /\ pool[p] = "none" /\ Spare # {} /\ search' = p
        /\ pool' = [pool EXCEPT ![p] = "making"] /\ worker' = [worker EXCEPT ![w] = Launched(p, "producer")]
        /\ idle' = [idle EXCEPT ![p]["producer"] = w] /\ UNCHANGED <<session, awaits, run, stops>>
    BY <1>0 DEF PrepareSearch, closedSearchEnabled
  <1>2. /\ w \in Processes /\ worker[w].state = "none" /\ Leases(w) = {}
        /\ \A q \in Pools, role \in Roles : idle[q][role] # w
    BY <1>0, <1>1, FreshSpare
  <1>3. /\ Launched(p, "producer") \in WorkerRecords /\ Launched(p, "producer").state = "live"
        /\ Launched(p, "producer").pool = p /\ Launched(p, "producer").role = "producer"
    BY DEF Launched, WorkerRecords, Roles
  <1>4. PoolType'
    BY <1>1, <1>2, <1>3 DEF PoolsInv, PoolType, Roles
  <1>5. /\ \A q \in Pools : q # p => pool'[q] = pool[q] /\ idle'[q] = idle[q]
        /\ pool'[p] = "making" /\ idle'[p]["producer"] = w /\ idle'[p]["actor"] = idle[p]["actor"]
        /\ worker'[w] = Launched(p, "producer") /\ \A v \in Processes : v # w => worker'[v] = worker[v]
    BY <1>1, <1>2 DEF PoolsInv, PoolType, Roles
  <1>6. \A v : Leases(v)' = Leases(v) /\ Busy(v)' = Busy(v)
    BY <1>1 DEF Leases, Busy, Executing
  <1>7. \A r \in Runs : Leasing(r) => run[r].worker # w
    BY <1>2 DEF Leases, Leasing
  <1>8. LeasesTrue'
    BY <1>1, <1>5, <1>7 DEF PoolsInv, PoolType, LeasesTrue, Leasing, RunRecords
  <1>9. IdleTrue'
    <2> SUFFICES ASSUME NEW q \in Pools, NEW role \in Roles, NEW v, v = idle'[q][role], v # 0
                 PROVE  KeptFor(v, q, role)'
      BY DEF IdleTrue
    <2>1. CASE q = p /\ role = "producer"
      BY <2>1, <1>2, <1>3, <1>5, <1>6 DEF KeptFor
    <2>2. CASE ~(q = p /\ role = "producer")
      <3>1. v = idle[q][role] /\ v # w
        BY <2>2, <1>2, <1>5 DEF Roles
      <3>2. KeptFor(v, q, role)
        BY <3>1 DEF PoolsInv, IdleTrue
      <3>3. q # p
        BY <3>2, <1>1 DEF KeptFor
      <3>4. QED
        BY <3>1, <3>2, <3>3, <1>5, <1>6 DEF KeptFor
    <2>3. QED
      BY <2>1, <2>2
  <1>10. WorkersTrue'
    <2>1. \A q \in Pools : q # p => Of(q)' = Of(q)
      BY <1>2, <1>3, <1>5 DEF Of
    <2>2. \A q \in Pools : q # p => pool[q] \notin {"making", "ready"}
      BY <1>1, NoneIsZero DEF PoolsInv, WorkersTrue
    <2>3. \A v \in Processes : worker'[v].state = "closed" => Leases(v)' # {}
      BY <1>3, <1>5, <1>6 DEF PoolsInv, WorkersTrue
    <2>4. ASSUME NEW q \in Pools, q # p, pool[q] = "released", NEW v \in Of(q)
          PROVE  worker'[v].state = "closed" /\ ~Busy(v)'
      BY <2>4, <1>2, <1>5, <1>6 DEF PoolsInv, WorkersTrue, Of
    <2>5. QED
      BY <1>1, <1>5, <2>1, <2>2, <2>3, <2>4 DEF PoolsInv, WorkersTrue
  <1>11. SessionEnds'
    BY <1>1 DEF SessionEnds
  <1>12. DiesInOrder'
    <2> SUFFICES ASSUME stops' = 0, NEW v \in Processes, worker'[v].state \in {"dying", "closed"}
                 PROVE  \/ pool'[worker'[v].pool] \in {"retired", "released"}
                        \/ \E r \in Leases(v)' : run'[r].pc = "cleanup"
      BY DEF DiesInOrder
    <2>1. v # w /\ worker'[v] = worker[v] /\ worker[v].pool \in Pools /\ worker[v].pool # p
      BY <1>1, <1>3, <1>5 DEF PoolsInv, PoolType, WorkersTrue, Of, NoWorker, WorkerRecords
    <2>2. QED
      BY <2>1, <1>1, <1>5, <1>6 DEF PoolsInv, DiesInOrder
  <1>13. ActorIsWaitedFor'
    BY <1>1, <1>5, <1>7 DEF PoolsInv, LeasesTrue, ActorIsWaitedFor, Executing, Leasing, Runs
  <1>14. QED
    BY <1>4, <1>8, <1>9, <1>10, <1>11, <1>12, <1>13 DEF PoolsInv

\* Only the pool's own account changes: it is ready, or will be given up, or released, or nobody's.
LEMMA PoolMoves ==
  ASSUME PoolsInv, NEW p \in Pools, NEW to \in {"ready", "reset", "released"},
         pool[p] # "none", pool' = [pool EXCEPT ![p] = to], UNCHANGED <<session, idle, worker, run, stops>>,
         awaits' \in [Pools -> SUBSET Processes], \A q \in Pools : q # p => awaits'[q] = awaits[q],
         search' = search \/ (search' = 0 /\ search = p),
         to # "released" => pool[p] \in {"making", "reset"}, to = "released" => pool[p] = "retired",
         to = "released" => \A w \in Of(p) : worker[w].state = "closed" /\ ~Busy(w),
         to = "ready" => pool[p] = "making" /\ search' = search, to = "reset" => session # "ended"
  PROVE  PoolsInv'
  <1>1. pool'[p] = to /\ \A q \in Pools : q # p => pool'[q] = pool[q]
    BY DEF PoolsInv, PoolType
  <1>2. \A q : Of(q)' = Of(q) /\ Leases(q)' = Leases(q) /\ Busy(q)' = Busy(q)
    BY DEF Of, Leases, Busy, Executing
  <1>3. PoolType'
    BY <1>1, NoneIsZero DEF PoolsInv, PoolType
  <1>4. LeasesTrue'
    BY <1>1 DEF PoolsInv, PoolType, LeasesTrue, Leasing, RunRecords
  <1>5. IdleTrue'
    <2> SUFFICES ASSUME NEW q \in Pools, NEW role \in Roles, NEW v, v = idle[q][role], v # 0
                 PROVE  KeptFor(v, q, role)'
      BY DEF IdleTrue
    <2>1. KeptFor(v, q, role)
      BY DEF PoolsInv, IdleTrue
    <2>2. pool'[q] \in {"making", "ready", "reset"}
      BY <1>1, <2>1 DEF KeptFor
    <2>3. QED
      BY <2>1, <2>2, <1>2 DEF KeptFor
  <1>6. WorkersTrue'
    BY <1>1, <1>2, NoneIsZero DEF PoolsInv, PoolType, WorkersTrue
  <1>7. SessionEnds'
    BY <1>1 DEF PoolsInv, SessionEnds
  <1>8. DiesInOrder'
    BY <1>1, <1>2 DEF PoolsInv, DiesInOrder
  <1>9. ActorIsWaitedFor'
    BY DEF PoolsInv, ActorIsWaitedFor, Executing
  <1>10. QED
    BY <1>3, <1>4, <1>5, <1>6, <1>7, <1>8, <1>9 DEF PoolsInv

\* What a retiring pool leaves to its workers and runs.
LEMMA RetiresKeeps ==
  ASSUME PoolsInv, NEW p \in Pools, pool[p] \in {"making", "reset", "ready"}, Retires(p), UNCHANGED <<session, stops>>,
         search' = search \/ (search' = 0 /\ search = p),
         session # "ended"
  PROVE  PoolsInv'
  <1>1. /\ pool' = [pool EXCEPT ![p] = "retired"] /\ awaits' = [awaits EXCEPT ![p] = Of(p)]
        /\ idle' = [idle EXCEPT ![p] = [role \in Roles |-> 0]]
    BY DEF Retires
  <1>2. /\ pool'[p] = "retired" /\ awaits'[p] = Of(p) /\ \A role \in Roles : idle'[p][role] = 0
        /\ \A q \in Pools : q # p => pool'[q] = pool[q] /\ awaits'[q] = awaits[q] /\ idle'[q] = idle[q]
    BY <1>1 DEF PoolsInv, PoolType
  <1>3. /\ run' = [r \in Runs |-> run'[r]]
        /\ \A r \in Runs : run'[r] = IF r \in Aborted(p) THEN [run[r] EXCEPT !.aborted = TRUE] ELSE run[r]
    BY DEF Retires
  <1>4. \A r \in Runs : /\ run'[r] \in RunRecords /\ run'[r].pc = run[r].pc /\ run'[r].pool = run[r].pool
                        /\ run'[r].worker = run[r].worker /\ run'[r].input = run[r].input
                        /\ (r \notin ProducerRuns => run'[r] = run[r]) /\ (run'[r].aborted => run[r].aborted \/ Leasing(r))
    <2> SUFFICES ASSUME NEW r \in Runs
                 PROVE  /\ run'[r] \in RunRecords /\ run'[r].pc = run[r].pc /\ run'[r].pool = run[r].pool
                        /\ run'[r].worker = run[r].worker /\ run'[r].input = run[r].input
                        /\ (r \notin ProducerRuns => run'[r] = run[r]) /\ (run'[r].aborted => run[r].aborted \/ Leasing(r))
      OBVIOUS
    <2>1. run[r] \in RunRecords
      BY DEF PoolsInv, PoolType
    <2>2. QED
      BY <2>1, <1>3 DEF RunRecords, Aborted, Executing, Leasing
  <1>5. \A w : Leases(w)' = Leases(w) /\ (Busy(w)' <=> Busy(w))
    BY <1>4 DEF Leases, Busy, Executing
  <1>6. \A r \in Runs : Leasing(r)' <=> Leasing(r)
    BY <1>4 DEF Leasing
  <1> DEFINE dies(w) == w \in Of(p) /\ worker[w].state = "live" /\ Leases(w) \subseteq {r \in Runs : r \in Aborted(p)}
  <1>7. /\ worker' = [w \in Processes |-> worker'[w]]
        /\ \A w \in Processes : worker'[w] = IF dies(w) THEN [worker[w] EXCEPT !.state = "dying"] ELSE worker[w]
    BY DEF Retires
  <1>8. \A w \in Processes : /\ worker'[w] \in WorkerRecords \cup {NoWorker} /\ worker'[w].pool = worker[w].pool
                             /\ worker'[w].role = worker[w].role
                             /\ worker'[w].state = IF dies(w) THEN "dying" ELSE worker[w].state
    <2> SUFFICES ASSUME NEW w \in Processes
                 PROVE  /\ worker'[w] \in WorkerRecords \cup {NoWorker} /\ worker'[w].pool = worker[w].pool
                        /\ worker'[w].role = worker[w].role
                        /\ worker'[w].state = IF dies(w) THEN "dying" ELSE worker[w].state
      OBVIOUS
    <2>1. worker[w] \in WorkerRecords \cup {NoWorker}
      BY DEF PoolsInv, PoolType
    <2>2. worker[w].state = "live" => worker[w] \in WorkerRecords
      BY <2>1 DEF NoWorker
    <2>3. QED
      BY <2>1, <2>2, <1>7 DEF WorkerRecords
  <1>9. \A q : Of(q)' = Of(q)
    BY <1>8 DEF Of
  <1>10. \A w \in Processes : dies(w) => worker[w].pool = p /\ worker[w].state = "live"
    BY DEF Of
  <1> HIDE DEF dies
  <1>11. PoolType'
    <2>1. Of(p) \subseteq Processes
      BY DEF Of
    <2>2. run' \in [Runs -> RunRecords] /\ worker' \in [Processes -> WorkerRecords \cup {NoWorker}]
      BY <1>3, <1>4, <1>7, <1>8
    <2>3. QED
      BY <1>1, <2>1, <2>2 DEF PoolsInv, PoolType
  <1>12. LeasesTrue'
    <2> SUFFICES ASSUME NEW r \in Runs
                 PROVE  /\ run'[r].pc \notin {"idle", "done"} <=> run'[r].pool # 0
                        /\ run'[r].pool # 0 => pool'[run'[r].pool] # "none"
                        /\ Leasing(r)' => /\ run'[r].worker \in Processes /\ worker'[run'[r].worker].state # "none"
                                          /\ worker'[run'[r].worker].pool = run'[r].pool
                                          /\ worker'[run'[r].worker].role = RoleOf(r)
                                          /\ \A q \in Runs : Leasing(q)' /\ run'[q].worker = run'[r].worker => q = r
                        /\ (run'[r].input => run'[r].pc = "request") /\ (run'[r].aborted => Leasing(r)')
      BY DEF LeasesTrue, RoleOf
    <2>1. run[r].pool \in Pools \cup {0}
      BY DEF PoolsInv, PoolType, RunRecords
    <2>2. QED
      BY <2>1, <1>2, <1>4, <1>6, <1>8 DEF PoolsInv, LeasesTrue
  <1>13. IdleTrue'
    <2> SUFFICES ASSUME NEW q \in Pools, NEW role \in Roles, NEW v, v = idle'[q][role], v # 0
                 PROVE  KeptFor(v, q, role)'
      BY DEF IdleTrue
    <2>1. q # p /\ v = idle[q][role] /\ KeptFor(v, q, role)
      BY <1>2 DEF PoolsInv, IdleTrue
    <2>2. QED
      BY <2>1, <1>2, <1>5, <1>8, <1>10 DEF KeptFor
  <1>14. WorkersTrue'
    <2>1. \A w \in Processes : worker'[w].state = "closed" => Leases(w)' # {}
      BY <1>5, <1>8 DEF PoolsInv, WorkersTrue
    <2>2. ASSUME NEW q \in Pools, pool'[q] = "released", NEW w \in Of(q) PROVE worker'[w].state = "closed" /\ ~Busy(w)'
      <3>1. q # p /\ pool[q] = "released" /\ w \in Processes /\ worker[w].state = "closed" /\ ~Busy(w)
        BY <2>2, <1>2 DEF PoolsInv, WorkersTrue, Of
      <3>2. QED
        BY <3>1, <1>5, <1>8, <1>10
    <2>3. search' # 0 => pool'[search'] # "none"
      BY <1>2 DEF PoolsInv, PoolType, WorkersTrue
    <2>4. \A q \in Pools : pool'[q] \in {"making", "ready"} => q = search'
      BY <1>2, NoneIsZero DEF PoolsInv, WorkersTrue
    <2>5. QED
      BY <2>1, <2>2, <2>3, <2>4, <1>2, <1>9 DEF PoolsInv, WorkersTrue
  <1>15. SessionEnds'
    BY DEF SessionEnds
  <1>16. DiesInOrder'
    <2> SUFFICES ASSUME stops' = 0, NEW v \in Processes, worker'[v].state \in {"dying", "closed"}
                 PROVE  \/ pool'[worker'[v].pool] \in {"retired", "released"}
                        \/ \E r \in Leases(v)' : run'[r].pc = "cleanup"
      BY DEF DiesInOrder
    <2>1. CASE worker[v].pool = p
      BY <2>1, <1>2, <1>8
    <2>2. CASE worker[v].pool # p
      <3>1. ~dies(v) /\ worker[v].state \in {"dying", "closed"} /\ worker[v].pool \in Pools
        BY <2>2, <1>8, <1>10 DEF PoolsInv, PoolType, WorkerRecords, NoWorker
      <3>2. \A r \in Leases(v) : run'[r].pc = run[r].pc
        BY <1>4 DEF Leases
      <3>3. QED
        BY <3>1, <3>2, <2>2, <1>2, <1>5, <1>8 DEF PoolsInv, DiesInOrder
    <2>3. QED
      BY <2>1, <2>2
  <1>17. ActorIsWaitedFor'
    <2> SUFFICES ASSUME stops' = 0, NEW r \in ActorRuns, Executing(r)'
                 PROVE  ~run'[r].aborted /\ worker'[run'[r].worker].state = "live"
      BY DEF ActorIsWaitedFor
    <2>1. r \in Runs /\ r \notin ProducerRuns /\ run'[r] = run[r] /\ Executing(r)
      BY <1>4, SearchSetting DEF Runs, Executing
    <2>2. ~run[r].aborted /\ worker[run[r].worker].state = "live" /\ run[r].worker \in Processes /\ r \in Leases(run[r].worker)
      BY <2>1 DEF PoolsInv, ActorIsWaitedFor, LeasesTrue, Leasing, Leases, Executing
    <2>3. ~dies(run[r].worker)
      BY <2>1, <2>2 DEF dies, Aborted
    <2>4. QED
      BY <2>1, <2>2, <2>3, <1>8
  <1>18. QED
    BY <1>11, <1>12, <1>13, <1>14, <1>15, <1>16, <1>17 DEF PoolsInv

LEMMA MadeKeeps == ASSUME PoolsInv, NEW p \in Pools, NEW fails \in BOOLEAN, Made(p, fails) PROVE PoolsInv'
  <1>1. pool[p] \in {"making", "reset"} /\ session' = session /\ search' = search /\ stops' = stops
    BY DEF Made
  <1>2. CASE Retires(p)
    <2>1. session # "ended"
      BY <1>1, NoneIsZero DEF PoolsInv, SessionEnds, WorkersTrue
    <2>2. pool[p] \in {"making", "reset", "ready"} /\ UNCHANGED <<session, stops>>
      BY <1>1
    <2>3. QED
      BY <1>1, <1>2, <2>1, <2>2, RetiresKeeps
  <1>3. CASE pool' = [pool EXCEPT ![p] = "ready"] /\ pool[p] = "making" /\ UNCHANGED <<awaits, idle, worker, run>>
    <2>1. awaits' \in [Pools -> SUBSET Processes] /\ \A q \in Pools : q # p => awaits'[q] = awaits[q]
      BY <1>3 DEF PoolsInv, PoolType
    <2>2. pool[p] \in {"making", "reset"} /\ pool[p] # "none" /\ UNCHANGED <<session, idle, worker, run, stops>>
      BY <1>1, <1>3
    <2>3. QED
      BY <1>1, <1>3, <2>1, <2>2, PoolMoves
  <1>4. QED
    BY <1>1, <1>2, <1>3 DEF Made

LEMMA ResetKeepsPools == ASSUME PoolsInv, ResetSearch PROVE PoolsInv'
  <1>1. search # 0 /\ search \in Pools /\ search' = 0 /\ session \in {"open", "drained"} /\ UNCHANGED <<session, stops>>
    BY DEF ResetSearch, PoolsInv, PoolType
  <1>2. CASE pool[search] = "making"
    BY <1>1, <1>2, PoolMoves DEF ResetSearch, PoolsInv, PoolType
  <1>3. CASE pool[search] = "ready"
    <2>1. Retires(search)
      BY <1>1, <1>3 DEF ResetSearch
    <2>2. PICK p \in Pools : p = search
      BY <1>1
    <2>3. Retires(p)
      BY <2>1, <2>2
    <2>4. QED
      BY <1>1, <1>3, <2>2, <2>3, RetiresKeeps
  <1>4. CASE pool[search] \notin {"making", "ready"}
    <2>1. UNCHANGED <<pool, awaits, idle, worker, run>>
      BY <1>4 DEF ResetSearch
    <2>2. \A q : Of(q)' = Of(q) /\ Leases(q)' = Leases(q) /\ Busy(q)' = Busy(q)
      BY <2>1 DEF Of, Leases, Busy, Executing
    <2>3. PoolType'
      BY <1>1, <2>1 DEF PoolsInv, PoolType
    <2>4. LeasesTrue'
      BY <2>1 DEF PoolsInv, LeasesTrue, Leasing
    <2>5. IdleTrue'
      BY <2>1, <2>2 DEF PoolsInv, IdleTrue, KeptFor
    <2>6. DiesInOrder' /\ ActorIsWaitedFor'
      BY <1>1, <2>1, <2>2 DEF PoolsInv, DiesInOrder, ActorIsWaitedFor, Executing
    <2>7. WorkersTrue'
      BY <1>1, <1>4, <2>1, <2>2 DEF PoolsInv, WorkersTrue
    <2>8. SessionEnds'
      BY <1>1, <2>1 DEF PoolsInv, SessionEnds
    <2>9. QED
      BY <2>3, <2>4, <2>5, <2>6, <2>7, <2>8 DEF PoolsInv
  <1>5. QED
    BY <1>2, <1>3, <1>4

LEMMA ReleaseKeeps == ASSUME PoolsInv, NEW p \in Pools, Release(p) PROVE PoolsInv'
  <1>1. \A w \in Of(p) : worker[w].state = "closed" /\ ~Busy(w)
    BY DEF Release, Releasable, PoolsInv, WorkersTrue
  <1>2. /\ pool[p] = "retired" /\ pool' = [pool EXCEPT ![p] = "released"] /\ awaits' = [awaits EXCEPT ![p] = {}]
        /\ UNCHANGED <<session, search, idle, worker, run, stops>>
    BY DEF Release
  <1>3. awaits' \in [Pools -> SUBSET Processes] /\ \A q \in Pools : q # p => awaits'[q] = awaits[q]
    BY <1>2 DEF PoolsInv, PoolType
  <1>4. pool[p] # "none" /\ search' = search /\ UNCHANGED <<session, idle, worker, run, stops>>
    BY <1>2
  <1>5. QED
    BY <1>1, <1>2, <1>3, <1>4, PoolMoves

LEMMA SessionKeeps == ASSUME PoolsInv, Seal \/ Drain \/ End PROVE PoolsInv'
  <1>1. UNCHANGED <<search, pool, awaits, idle, worker, run, stops>>
    BY DEF Seal, Drain, End
  <1>2. \A q : Of(q)' = Of(q) /\ Leases(q)' = Leases(q) /\ Busy(q)' = Busy(q)
    BY <1>1 DEF Of, Leases, Busy, Executing
  <1>3. PoolType'
    BY <1>1 DEF Seal, Drain, End, PoolsInv, PoolType
  <1>4. LeasesTrue'
    BY <1>1 DEF PoolsInv, LeasesTrue, Leasing
  <1>5. IdleTrue'
    BY <1>1, <1>2 DEF PoolsInv, IdleTrue, KeptFor
  <1>6. DiesInOrder' /\ ActorIsWaitedFor'
    BY <1>1, <1>2 DEF PoolsInv, DiesInOrder, ActorIsWaitedFor, Executing
  <1>7. WorkersTrue'
    BY <1>1, <1>2 DEF PoolsInv, WorkersTrue
  <1>8. SessionEnds'
    BY DEF Seal, Drain, End, SessionEnds
  <1>9. QED
    BY <1>3, <1>4, <1>5, <1>6, <1>7, <1>8 DEF PoolsInv

\* A worker that is lent goes to a run of its pool, and one the Actor takes from the producers is replaced.
LEMMA BorrowKeeps == ASSUME PoolsInv, NEW r \in Runs, Borrow(r) PROVE PoolsInv'
  <1>1. PICK p, role, kept, f, w : /\ p = run[r].pool /\ role = IdleRole(r) /\ kept = idle[p][role] /\ f = Fresh
                                   /\ w = IF kept # 0 THEN kept ELSE f
    OBVIOUS
  <1> DEFINE replaces == role # RoleOf(r)
             lent == [worker EXCEPT ![w] = [Launched(p, RoleOf(r)) EXCEPT !.state = IF w = kept THEN worker[w].state ELSE @]]
  <1>2. /\ run[r].pc = "bound" /\ pool[p] = "ready" /\ (kept = 0 \/ replaces => Spare # {})
        /\ worker' = (IF replaces THEN [lent EXCEPT ![f] = Launched(p, role)] ELSE lent)
        /\ idle' = [idle EXCEPT ![p][role] = IF replaces THEN f ELSE 0]
        /\ run' = [run EXCEPT ![r].pc = "work", ![r].worker = w]
        /\ UNCHANGED <<session, search, pool, awaits, stops>>
    BY <1>1 DEF Borrow, Admits
  <1>3. p \in Pools /\ ~Leasing(r) /\ ~run[r].input /\ ~run[r].aborted
    BY <1>1, <1>2 DEF PoolsInv, PoolType, RunRecords, LeasesTrue, Leasing
  <1>4. role \in Roles /\ RoleOf(r) \in Roles /\ (replaces => kept # 0) /\ (kept # 0 => KeptFor(kept, p, role))
    BY <1>1, <1>3 DEF IdleRole, RoleOf, Roles, PoolsInv, IdleTrue
  <1>5. kept = 0 \/ replaces => /\ f \in Processes /\ worker[f].state = "none" /\ Leases(f) = {}
                                /\ \A q \in Pools, ro \in Roles : idle[q][ro] # f
    BY <1>1, <1>2, FreshSpare
  <1>6. w \in Processes /\ Leases(w) = {} /\ (w = kept <=> kept # 0) /\ (replaces => w # f)
    BY <1>1, <1>3, <1>4, <1>5, NoneIsZero DEF KeptFor
  <1>7. /\ worker' \in [Processes -> WorkerRecords \cup {NoWorker}]
        /\ worker'[w].pool = p /\ worker'[w].role = RoleOf(r)
        /\ worker'[w].state = IF kept # 0 THEN worker[w].state ELSE "live"
        /\ replaces => worker'[f].state = "live" /\ worker'[f].pool = p /\ worker'[f].role = role
        /\ \A v \in Processes : v # w /\ (replaces => v # f) => worker'[v] = worker[v]
    <2>1. worker \in [Processes -> WorkerRecords \cup {NoWorker}]
      BY DEF PoolsInv, PoolType
    <2>2. kept # 0 => worker[w].state \in {"live", "dying"}
      BY <1>4, <1>6 DEF KeptFor
    <2> DEFINE x == [Launched(p, RoleOf(r)) EXCEPT !.state = IF w = kept THEN worker[w].state ELSE @]
    <2>3. x \in WorkerRecords /\ x.pool = p /\ x.role = RoleOf(r) /\ x.state = IF kept # 0 THEN worker[w].state ELSE "live"
      BY <1>3, <1>4, <1>6, <2>2 DEF Launched, WorkerRecords
    <2>4. Launched(p, role) \in WorkerRecords /\ Launched(p, role) = [state |-> "live", pool |-> p, role |-> role]
      BY <1>3, <1>4 DEF Launched, WorkerRecords
    <2>5. lent = [worker EXCEPT ![w] = x]
      OBVIOUS
    <2> HIDE DEF x, lent, replaces
    <2>6. CASE replaces
      BY <1>2, <1>5, <1>6, <2>1, <2>3, <2>4, <2>5, <2>6
    <2>7. CASE ~replaces
      BY <1>2, <1>6, <2>1, <2>3, <2>5, <2>7
    <2>8. QED
      BY <2>6, <2>7
  <1> HIDE DEF lent
  <1>8. /\ run' \in [Runs -> RunRecords] /\ run'[r].pc = "work" /\ run'[r].worker = w /\ run'[r].pool = p
        /\ ~run'[r].input /\ ~run'[r].aborted /\ \A q \in Runs : q # r => run'[q] = run[q]
    BY <1>1, <1>2, <1>3, <1>6 DEF PoolsInv, PoolType, RunRecords
  <1>9. Leases(w)' = {r} /\ \A v : v # w => Leases(v)' = Leases(v)
    BY <1>3, <1>6, <1>8 DEF Leases, Leasing
  <1>10. \A v : v # w => (Busy(v)' <=> Busy(v))
    BY <1>3, <1>8, <1>9 DEF Busy, Executing, Leases, Leasing
  <1>11. /\ idle' \in [Pools -> [Roles -> Processes \cup {0}]] /\ idle'[p][role] = IF replaces THEN f ELSE 0
         /\ \A q \in Pools, ro \in Roles : q # p \/ ro # role => idle'[q][ro] = idle[q][ro]
    BY <1>2, <1>3, <1>4, <1>5 DEF PoolsInv, PoolType
  <1>12. w # kept => kept = 0 /\ w = f
    BY <1>1, <1>6
  <1> HIDE DEF replaces
  <1>13. PoolType'
    BY <1>2, <1>7, <1>8, <1>11 DEF PoolsInv, PoolType
  <1>14. LeasesTrue'
    <2> SUFFICES ASSUME NEW q \in Runs
                 PROVE  /\ run'[q].pc \notin {"idle", "done"} <=> run'[q].pool # 0
                        /\ run'[q].pool # 0 => pool'[run'[q].pool] # "none"
                        /\ Leasing(q)' => /\ run'[q].worker \in Processes /\ worker'[run'[q].worker].state # "none"
                                          /\ worker'[run'[q].worker].pool = run'[q].pool
                                          /\ worker'[run'[q].worker].role = RoleOf(q)
                                          /\ \A o \in Runs : Leasing(o)' /\ run'[o].worker = run'[q].worker => o = q
                        /\ (run'[q].input => run'[q].pc = "request") /\ (run'[q].aborted => Leasing(q)')
      BY DEF LeasesTrue, RoleOf
    <2>1. \A o \in Runs : o # r => (Leasing(o)' <=> Leasing(o))
      BY <1>8 DEF Leasing
    <2>2. \A o \in Runs : Leasing(o) => run[o].worker # w
      BY <1>6 DEF Leases, Leasing
    <2>3. CASE q = r
      <3>1. worker'[w].state # "none"
        BY <1>4, <1>6, <1>7 DEF KeptFor
      <3>2. QED
        BY <2>1, <2>2, <2>3, <3>1, <1>2, <1>3, <1>6, <1>7, <1>8, NoneIsZero DEF Leasing
    <2>4. CASE q # r
      <3>1. Leasing(q) => run[q].worker # w /\ (replaces => run[q].worker # f)
        BY <2>2, <1>5 DEF PoolsInv, LeasesTrue
      <3>2. QED
        BY <2>1, <2>4, <3>1, <1>2, <1>7, <1>8 DEF PoolsInv, LeasesTrue
    <2>5. QED
      BY <2>3, <2>4
  <1>15. IdleTrue'
    <2> SUFFICES ASSUME NEW q \in Pools, NEW ro \in Roles, NEW v, v = idle'[q][ro], v # 0
                 PROVE  KeptFor(v, q, ro)'
      BY DEF IdleTrue
    <2>1. CASE q = p /\ ro = role
      <3>1. replaces /\ v = f
        BY <2>1, <1>11
      <3>2. QED
        BY <2>1, <3>1, <1>2, <1>5, <1>6, <1>7, <1>9 DEF KeptFor
    <2>2. CASE q # p \/ ro # role
      <3>1. v = idle[q][ro] /\ KeptFor(v, q, ro)
        BY <2>2, <1>11 DEF PoolsInv, IdleTrue
      <3>2. v # w
        BY <3>1, <2>2, <1>4, <1>5, <1>12 DEF KeptFor
      <3>3. replaces => v # f
        BY <3>1, <1>5
      <3>4. QED
        BY <3>1, <3>2, <3>3, <1>2, <1>7, <1>9 DEF KeptFor
    <2>3. QED
      BY <2>1, <2>2
  <1>16. WorkersTrue'
    <2>1. \A v \in Processes : worker'[v].state = "closed" => Leases(v)' # {}
      <3> SUFFICES ASSUME NEW v \in Processes, worker'[v].state = "closed" PROVE Leases(v)' # {}
        OBVIOUS
      <3>1. v # w => worker'[v] = worker[v]
        BY <1>7
      <3>2. QED
        BY <3>1, <1>9 DEF PoolsInv, WorkersTrue
    <2>2. ASSUME NEW q \in Pools, q # p PROVE Of(q)' = Of(q) /\ \A v \in Of(q) : v # w /\ (replaces => v # f)
      <3>1. w \notin Of(q) /\ (replaces => f \notin Of(q))
        <4>1. kept # 0 => w = kept /\ worker[w].pool = p
          BY <1>4, <1>12 DEF KeptFor
        <4>2. kept = 0 \/ replaces => worker[f].state = "none"
          BY <1>5
        <4>3. QED
          BY <2>2, <4>1, <4>2, <1>6, <1>12 DEF Of
      <3>2. w \notin Of(q)' /\ (replaces => f \notin Of(q)')
        BY <2>2, <1>7 DEF Of
      <3>3. QED
        BY <3>1, <3>2, <1>7 DEF Of
    <2>3. ASSUME NEW q \in Pools, pool[q] = "released", NEW v \in Of(q) PROVE worker'[v].state = "closed" /\ ~Busy(v)'
      <3>1. q # p /\ v \in Processes
        BY <2>3, <1>2 DEF Of
      <3>2. QED
        BY <2>2, <2>3, <3>1, <1>7, <1>10 DEF PoolsInv, WorkersTrue
    <2>4. QED
      BY <2>1, <2>2, <2>3, <1>2 DEF PoolsInv, WorkersTrue
  <1>17. SessionEnds'
    BY <1>2 DEF PoolsInv, SessionEnds
  <1>18. stops = 0 => worker'[w].state = "live"
    BY <1>2, <1>4, <1>6, <1>7 DEF KeptFor, PoolsInv, DiesInOrder
  <1>19. DiesInOrder'
    <2> SUFFICES ASSUME stops' = 0, NEW v \in Processes, worker'[v].state \in {"dying", "closed"}
                 PROVE  \/ pool'[worker'[v].pool] \in {"retired", "released"}
                        \/ \E q \in Leases(v)' : run'[q].pc = "cleanup"
      BY DEF DiesInOrder
    <2>1. v # w /\ worker'[v] = worker[v]
      BY <1>2, <1>7, <1>18
    <2>2. \A q \in Leases(v) : q # r /\ run'[q] = run[q]
      BY <1>3, <1>8 DEF Leases, Leasing
    <2>3. QED
      BY <2>1, <2>2, <1>2, <1>9 DEF PoolsInv, DiesInOrder
  <1>20. ActorIsWaitedFor'
    <2> SUFFICES ASSUME stops' = 0, NEW q \in ActorRuns, Executing(q)'
                 PROVE  ~run'[q].aborted /\ worker'[run'[q].worker].state = "live"
      BY DEF ActorIsWaitedFor
    <2>1. CASE q = r
      BY <2>1, <1>2, <1>8, <1>18
    <2>2. CASE q # r
      <3>1. q \in Runs /\ run'[q] = run[q] /\ Executing(q) /\ Leasing(q) /\ stops = 0
        BY <2>2, <1>2, <1>8 DEF Runs, Executing, Leasing
      <3>2. ~run[q].aborted /\ worker[run[q].worker].state = "live" /\ run[q].worker \in Processes /\ run[q].worker # w
        BY <3>1, <1>6 DEF PoolsInv, ActorIsWaitedFor, LeasesTrue, Leases, Leasing
      <3>3. QED
        BY <3>1, <3>2, <1>5, <1>7
    <2>3. QED
      BY <2>1, <2>2
  <1>21. QED
    BY <1>13, <1>14, <1>15, <1>16, <1>17, <1>19, <1>20 DEF PoolsInv

\* A failure: workers die, runs are aborted, and nobody gives up what he has.
LEMMA FailureKeeps ==
  ASSUME PoolsInv, stops' = stops + 1, UNCHANGED <<session, search, pool, awaits, idle>>,
         worker' \in [Processes -> WorkerRecords \cup {NoWorker}], run' \in [Runs -> RunRecords],
         \A v \in Processes : /\ worker'[v].pool = worker[v].pool /\ worker'[v].role = worker[v].role
                              /\ \/ worker'[v].state = worker[v].state
                                 \/ worker[v].state = "live" /\ worker'[v].state = "dying",
         \A q \in Runs : /\ run'[q].pc = run[q].pc /\ run'[q].pool = run[q].pool /\ run'[q].worker = run[q].worker
                         /\ run'[q].input = run[q].input /\ (run'[q].aborted => run[q].aborted \/ Leasing(q))
  PROVE  PoolsInv'
  <1>1. \A w : Leases(w)' = Leases(w) /\ (Busy(w)' <=> Busy(w))
    BY DEF Leases, Busy, Executing
  <1>2. \A q \in Runs : Leasing(q)' <=> Leasing(q)
    BY DEF Leasing
  <1>3. \A q : Of(q)' = Of(q)
    BY DEF Of
  <1>4. PoolType' /\ stops' # 0
    BY DEF PoolsInv, PoolType
  <1>5. LeasesTrue'
    <2> SUFFICES ASSUME NEW q \in Runs
                 PROVE  /\ run'[q].pc \notin {"idle", "done"} <=> run'[q].pool # 0
                        /\ run'[q].pool # 0 => pool'[run'[q].pool] # "none"
                        /\ Leasing(q)' => /\ run'[q].worker \in Processes /\ worker'[run'[q].worker].state # "none"
                                          /\ worker'[run'[q].worker].pool = run'[q].pool
                                          /\ worker'[run'[q].worker].role = RoleOf(q)
                                          /\ \A o \in Runs : Leasing(o)' /\ run'[o].worker = run'[q].worker => o = q
                        /\ (run'[q].input => run'[q].pc = "request") /\ (run'[q].aborted => Leasing(q)')
      BY DEF LeasesTrue, RoleOf
    <2>1. QED
      BY <1>2 DEF PoolsInv, LeasesTrue
  <1>6. IdleTrue'
    <2> SUFFICES ASSUME NEW q \in Pools, NEW role \in Roles, NEW v, v = idle[q][role], v # 0
                 PROVE  KeptFor(v, q, role)'
      BY DEF IdleTrue
    <2>1. KeptFor(v, q, role)
      BY DEF PoolsInv, IdleTrue
    <2>2. QED
      BY <2>1, <1>1 DEF KeptFor
  <1>7. WorkersTrue'
    <2>1. \A v \in Processes : worker'[v].state = "closed" <=> worker[v].state = "closed"
      BY DEF PoolsInv, PoolType
    <2>2. \A q \in Pools : Of(q) \subseteq Processes
      BY DEF Of
    <2>3. \A q \in Pools : pool[q] = "released" => \A v \in Of(q) : worker'[v].state = "closed" /\ ~Busy(v)'
      BY <1>1, <2>1, <2>2 DEF PoolsInv, WorkersTrue
    <2>4. QED
      BY <1>1, <1>3, <2>1, <2>3 DEF PoolsInv, WorkersTrue
  <1>8. SessionEnds'
    BY DEF PoolsInv, SessionEnds
  <1>9. DiesInOrder' /\ ActorIsWaitedFor'
    BY <1>4 DEF DiesInOrder, ActorIsWaitedFor
  <1>10. QED
    BY <1>4, <1>5, <1>6, <1>7, <1>8, <1>9 DEF PoolsInv

LEMMA StopKeeps == ASSUME PoolsInv, NEW w \in Processes, Stop(w) PROVE PoolsInv'
  <1>1. /\ worker[w].state = "live" /\ worker' = [worker EXCEPT ![w].state = "dying"] /\ stops' = stops + 1
        /\ UNCHANGED <<session, search, pool, awaits, idle, run>>
    BY DEF Stop
  <1>2. worker[w] \in WorkerRecords /\ worker \in [Processes -> WorkerRecords \cup {NoWorker}] /\ run \in [Runs -> RunRecords]
    BY <1>1 DEF PoolsInv, PoolType, NoWorker
  <1>3. [worker[w] EXCEPT !.state = "dying"] \in WorkerRecords
    BY <1>2 DEF WorkerRecords
  <1>4. worker' \in [Processes -> WorkerRecords \cup {NoWorker}]
    BY <1>1, <1>2, <1>3
  <1>5. \A v \in Processes : /\ worker'[v].pool = worker[v].pool /\ worker'[v].role = worker[v].role
                             /\ \/ worker'[v].state = worker[v].state
                                \/ worker[v].state = "live" /\ worker'[v].state = "dying"
    BY <1>1, <1>2 DEF WorkerRecords
  <1>6. \A q \in Runs : run'[q] = run[q] /\ (run[q].aborted => Leasing(q))
    BY <1>1 DEF PoolsInv, LeasesTrue
  <1>7. run' \in [Runs -> RunRecords]
    BY <1>1, <1>2
  <1>8. QED
    BY <1>1, <1>4, <1>5, <1>6, <1>7, FailureKeeps

LEMMA AbortKeeps == ASSUME PoolsInv, NEW r \in Runs, Abort(r) PROVE PoolsInv'
  <1>1. PICK w : w = run[r].worker
    OBVIOUS
  <1>2. PICK s : s = IF run[r].pc = "request" /\ worker[w].state = "live" THEN "dying" ELSE worker[w].state
    OBVIOUS
  <1>3. /\ Executing(r) /\ run' = [run EXCEPT ![r].aborted = TRUE] /\ worker' = [worker EXCEPT ![w].state = s]
        /\ stops' = stops + 1 /\ UNCHANGED <<session, search, pool, awaits, idle>>
    BY <1>1, <1>2 DEF Abort
  <1>4. Leasing(r) /\ w \in Processes /\ worker[w].state # "none"
    BY <1>1, <1>3 DEF Leasing, Executing, PoolsInv, LeasesTrue
  <1>5. worker[w] \in WorkerRecords /\ worker \in [Processes -> WorkerRecords \cup {NoWorker}] /\ run \in [Runs -> RunRecords]
    BY <1>4 DEF PoolsInv, PoolType, NoWorker
  <1>6. [worker[w] EXCEPT !.state = s] \in WorkerRecords /\ [run[r] EXCEPT !.aborted = TRUE] \in RunRecords
    BY <1>2, <1>5 DEF WorkerRecords, RunRecords
  <1>7. worker' \in [Processes -> WorkerRecords \cup {NoWorker}] /\ run' \in [Runs -> RunRecords]
    BY <1>3, <1>5, <1>6
  <1>8. \A v \in Processes : /\ worker'[v].pool = worker[v].pool /\ worker'[v].role = worker[v].role
                             /\ \/ worker'[v].state = worker[v].state
                                \/ worker[v].state = "live" /\ worker'[v].state = "dying"
    BY <1>2, <1>3, <1>5 DEF WorkerRecords
  <1>9. \A q \in Runs : /\ run'[q].pc = run[q].pc /\ run'[q].pool = run[q].pool /\ run'[q].worker = run[q].worker
                        /\ run'[q].input = run[q].input /\ (run'[q].aborted => run[q].aborted \/ Leasing(q))
    BY <1>3, <1>4, <1>5 DEF RunRecords
  <1>10. QED
    BY <1>3, <1>7, <1>8, <1>9, FailureKeeps

\* A process is gone: its run hears of it, and who has lent it to nobody forgets it.
LEMMA ExitKeeps == ASSUME PoolsInv, NEW w \in Processes, Exit(w) PROVE PoolsInv'
  <1>1. /\ worker[w].state = "dying" /\ (\A q \in Leases(w) : ~run[q].input)
        /\ UNCHANGED <<session, search, pool, awaits, stops>>
        /\ idle' = [p \in Pools |-> [role \in Roles |-> IF idle[p][role] = w THEN 0 ELSE idle[p][role]]]
    BY DEF Exit, InputsGiven
  <1>2. /\ run' = [r \in Runs |-> run'[r]]
        /\ \A r \in Runs : run'[r] = IF r \in Leases(w) /\ run[r].pc = "request" THEN [run[r] EXCEPT !.pc = "settled"] ELSE run[r]
    BY DEF Exit
  <1>3. worker \in [Processes -> WorkerRecords \cup {NoWorker}] /\ worker[w] \in WorkerRecords /\ run \in [Runs -> RunRecords]
    BY <1>1 DEF PoolsInv, PoolType, NoWorker
  <1>4. \A r \in Runs : /\ run'[r] \in RunRecords /\ run'[r].pool = run[r].pool /\ run'[r].worker = run[r].worker
                        /\ run'[r].input = run[r].input /\ run'[r].aborted = run[r].aborted
                        /\ run'[r].pc = IF r \in Leases(w) /\ run[r].pc = "request" THEN "settled" ELSE run[r].pc
    BY <1>2, <1>3 DEF RunRecords
  <1>5. run' \in [Runs -> RunRecords]
    BY <1>2, <1>4
  <1>6. \A r \in Runs : (Leasing(r)' <=> Leasing(r)) /\ (Executing(r)' => Executing(r))
    BY <1>4 DEF Leasing, Executing
  <1>7. \A v : Leases(v)' = Leases(v) /\ (Busy(v)' => Busy(v))
    BY <1>4, <1>6 DEF Leases, Busy, Executing
  <1>8. /\ worker' \in [Processes -> WorkerRecords \cup {NoWorker}]
        /\ \A v \in Processes : v # w => worker'[v] = worker[v]
        /\ Leases(w) = {} => worker'[w].state = "none"
        /\ Leases(w) # {} => worker'[w].state = "closed" /\ worker'[w].pool = worker[w].pool /\ worker'[w].role = worker[w].role
    <2> DEFINE x == IF Leases(w) = {} THEN NoWorker ELSE [worker[w] EXCEPT !.state = "closed"]
    <2>1. worker' = [worker EXCEPT ![w] = x]
      BY DEF Exit
    <2>2. /\ x \in WorkerRecords \cup {NoWorker} /\ (Leases(w) = {} => x.state = "none")
          /\ Leases(w) # {} => x.state = "closed" /\ x.pool = worker[w].pool /\ x.role = worker[w].role
      BY <1>3 DEF WorkerRecords, NoWorker
    <2> HIDE DEF x
    <2>3. QED
      BY <1>3, <2>1, <2>2
  <1>9. \A q \in Pools, role \in Roles : idle'[q][role] # 0 => idle'[q][role] = idle[q][role] /\ idle[q][role] # w
    BY <1>1
  <1>10. PoolType'
    BY <1>1, <1>5, <1>8, NoneIsZero DEF PoolsInv, PoolType
  <1>11. LeasesTrue'
    <2> SUFFICES ASSUME NEW q \in Runs
                 PROVE  /\ run'[q].pc \notin {"idle", "done"} <=> run'[q].pool # 0
                        /\ run'[q].pool # 0 => pool'[run'[q].pool] # "none"
                        /\ Leasing(q)' => /\ run'[q].worker \in Processes /\ worker'[run'[q].worker].state # "none"
                                          /\ worker'[run'[q].worker].pool = run'[q].pool
                                          /\ worker'[run'[q].worker].role = RoleOf(q)
                                          /\ \A o \in Runs : Leasing(o)' /\ run'[o].worker = run'[q].worker => o = q
                        /\ (run'[q].input => run'[q].pc = "request") /\ (run'[q].aborted => Leasing(q)')
      BY DEF LeasesTrue, RoleOf
    <2>1. Leasing(q) /\ run[q].worker = w => Leases(w) # {}
      BY DEF Leases, Leasing
    <2>2. run[q].input => ~(q \in Leases(w) /\ run[q].pc = "request")
      BY <1>1
    <2>3. QED
      BY <2>1, <2>2, <1>1, <1>4, <1>6, <1>8 DEF PoolsInv, LeasesTrue
  <1>12. IdleTrue'
    <2> SUFFICES ASSUME NEW q \in Pools, NEW role \in Roles, NEW v, v = idle'[q][role], v # 0
                 PROVE  KeptFor(v, q, role)'
      BY DEF IdleTrue
    <2>1. v = idle[q][role] /\ v # w /\ KeptFor(v, q, role)
      BY <1>9 DEF PoolsInv, IdleTrue
    <2>2. QED
      BY <2>1, <1>1, <1>7, <1>8 DEF KeptFor
  <1>13. WorkersTrue'
    <2>1. \A v \in Processes : worker'[v].state = "closed" => Leases(v)' # {}
      <3> SUFFICES ASSUME NEW v \in Processes, worker'[v].state = "closed" PROVE Leases(v) # {}
        BY <1>7
      <3>1. QED
        BY <1>8 DEF PoolsInv, WorkersTrue
    <2>2. \A q \in Pools : Of(q)' \subseteq Of(q)
      <3> SUFFICES ASSUME NEW q \in Pools, NEW v \in Processes, worker'[v].state # "none", worker'[v].pool = q
                   PROVE  worker[v].state # "none" /\ worker[v].pool = q
        BY DEF Of
      <3>1. QED
        BY <1>1, <1>8
    <2>3. ASSUME NEW q \in Pools, pool[q] = "released", NEW v \in Of(q) PROVE worker'[v].state = "closed" /\ ~Busy(v)'
      <3>1. v \in Processes /\ worker[v].state = "closed" /\ ~Busy(v)
        BY <2>3 DEF PoolsInv, WorkersTrue, Of
      <3>2. QED
        BY <3>1, <1>1, <1>7, <1>8
    <2>4. QED
      BY <2>1, <2>2, <2>3, <1>1 DEF PoolsInv, WorkersTrue
  <1>14. SessionEnds'
    BY <1>1 DEF PoolsInv, SessionEnds
  <1>15. DiesInOrder'
    <2> SUFFICES ASSUME stops' = 0, NEW v \in Processes, worker'[v].state \in {"dying", "closed"}
                 PROVE  \/ pool'[worker'[v].pool] \in {"retired", "released"}
                        \/ \E q \in Leases(v)' : run'[q].pc = "cleanup"
      BY DEF DiesInOrder
    <2>1. worker[v].state \in {"dying", "closed"} /\ worker'[v].pool = worker[v].pool
      BY <1>1, <1>8
    <2>2. \A q \in Leases(v) : run[q].pc = "cleanup" => run'[q].pc = "cleanup"
      BY <1>4 DEF Leases
    <2>3. QED
      BY <2>1, <2>2, <1>1, <1>7 DEF PoolsInv, DiesInOrder
  <1>16. ActorIsWaitedFor'
    <2> SUFFICES ASSUME stops' = 0, NEW q \in ActorRuns, Executing(q)'
                 PROVE  ~run'[q].aborted /\ worker'[run'[q].worker].state = "live"
      BY DEF ActorIsWaitedFor
    <2>1. q \in Runs /\ Executing(q) /\ Leasing(q)
      BY <1>6 DEF Runs, Executing, Leasing
    <2>2. ~run[q].aborted /\ worker[run[q].worker].state = "live" /\ run[q].worker \in Processes
      BY <2>1, <1>1 DEF PoolsInv, ActorIsWaitedFor, LeasesTrue
    <2>3. QED
      BY <2>1, <2>2, <1>1, <1>4, <1>8
  <1>17. QED
    BY <1>10, <1>11, <1>12, <1>13, <1>14, <1>15, <1>16 DEF PoolsInv

\* A run that is over: nobody else had its worker.
LEMMA OverKeeps ==
  ASSUME PoolsInv, NEW r \in Runs, Leasing(r), Ended(r), NEW w, w = run[r].worker
  PROVE  /\ run' \in [Runs -> RunRecords] /\ ~Leasing(r)' /\ \A q \in Runs : q # r => run'[q] = run[q]
         /\ run'[r].pc = "done" /\ run'[r].pool = 0 /\ ~run'[r].input /\ ~run'[r].aborted
         /\ w \in Processes /\ Leases(w) = {r} /\ Leases(w)' = {} /\ \A v : v # w => Leases(v)' = Leases(v) /\ (Busy(v)' <=> Busy(v))
         /\ \A q \in Runs : Leasing(q) /\ q # r => run[q].worker # w
  <1>1. [NoRun EXCEPT !.pc = "done"] \in RunRecords
    BY DEF NoRun, RunRecords
  <1>2. /\ run' \in [Runs -> RunRecords] /\ \A q \in Runs : q # r => run'[q] = run[q]
        /\ run'[r].pc = "done" /\ run'[r].pool = 0 /\ ~run'[r].input /\ ~run'[r].aborted
    BY <1>1 DEF PoolsInv, PoolType, Ended, NoRun
  <1>3. w \in Processes /\ \A q \in Runs : Leasing(q) /\ q # r => run[q].worker # w
    BY DEF PoolsInv, LeasesTrue
  <1>4. Leases(w) = {r} /\ Leases(w)' = {}
    BY <1>2, <1>3 DEF Leases, Leasing
  <1>5. \A v : v # w => Leases(v)' = Leases(v)
    BY <1>2 DEF Leases, Leasing
  <1>6. \A v : v # w => r \notin Leases(v) /\ (Busy(v)' <=> Busy(v))
    BY <1>2, <1>5 DEF Leases, Busy, Executing
  <1>7. QED
    BY <1>2, <1>3, <1>4, <1>5, <1>6 DEF Leasing

LEMMA CleanupKeeps == ASSUME PoolsInv, NEW r \in Runs, Cleanup(r) PROVE PoolsInv'
  <1>1. PICK w : w = run[r].worker
    OBVIOUS
  <1>2. /\ run[r].pc = "cleanup" /\ worker[w].state = "closed" /\ worker' = [worker EXCEPT ![w] = NoWorker] /\ Ended(r)
        /\ UNCHANGED <<session, search, pool, awaits, idle, stops>> /\ Leasing(r)
    BY <1>1 DEF Cleanup, Leasing
  <1>3. /\ run' \in [Runs -> RunRecords] /\ ~Leasing(r)' /\ \A q \in Runs : q # r => run'[q] = run[q]
        /\ run'[r].pc = "done" /\ run'[r].pool = 0 /\ ~run'[r].input /\ ~run'[r].aborted
        /\ w \in Processes /\ Leases(w) = {r} /\ Leases(w)' = {} /\ \A v : v # w => Leases(v)' = Leases(v) /\ (Busy(v)' <=> Busy(v))
        /\ \A q \in Runs : Leasing(q) /\ q # r => run[q].worker # w
    BY <1>1, <1>2, OverKeeps
  <1>4. /\ worker' \in [Processes -> WorkerRecords \cup {NoWorker}] /\ worker'[w].state = "none"
        /\ \A v \in Processes : v # w => worker'[v] = worker[v]
    BY <1>2, <1>3 DEF PoolsInv, PoolType, NoWorker
  <1>5. PoolType'
    BY <1>2, <1>3, <1>4 DEF PoolsInv, PoolType
  <1>6. LeasesTrue'
    <2> SUFFICES ASSUME NEW q \in Runs
                 PROVE  /\ run'[q].pc \notin {"idle", "done"} <=> run'[q].pool # 0
                        /\ run'[q].pool # 0 => pool'[run'[q].pool] # "none"
                        /\ Leasing(q)' => /\ run'[q].worker \in Processes /\ worker'[run'[q].worker].state # "none"
                                          /\ worker'[run'[q].worker].pool = run'[q].pool
                                          /\ worker'[run'[q].worker].role = RoleOf(q)
                                          /\ \A o \in Runs : Leasing(o)' /\ run'[o].worker = run'[q].worker => o = q
                        /\ (run'[q].input => run'[q].pc = "request") /\ (run'[q].aborted => Leasing(q)')
      BY DEF LeasesTrue, RoleOf
    <2>1. CASE q = r
      BY <2>1, <1>3
    <2>2. CASE q # r
      <3>1. (Leasing(q)' <=> Leasing(q)) /\ (Leasing(q) => run[q].worker # w)
        BY <2>2, <1>3 DEF Leasing
      <3>2. \A o \in Runs : Leasing(o)' => Leasing(o) /\ run'[o] = run[o]
        BY <1>3 DEF Leasing
      <3>3. QED
        BY <2>2, <3>1, <3>2, <1>2, <1>3, <1>4 DEF PoolsInv, LeasesTrue
    <2>3. QED
      BY <2>1, <2>2
  <1>7. IdleTrue'
    <2> SUFFICES ASSUME NEW q \in Pools, NEW role \in Roles, NEW v, v = idle'[q][role], v # 0
                 PROVE  KeptFor(v, q, role)'
      BY DEF IdleTrue
    <2>1. v = idle[q][role] /\ KeptFor(v, q, role)
      BY <1>2 DEF PoolsInv, IdleTrue
    <2>2. v # w
      BY <2>1, <1>3 DEF KeptFor
    <2>3. QED
      BY <2>1, <2>2, <1>2, <1>3, <1>4 DEF KeptFor
  <1>8. WorkersTrue'
    <2>1. \A q \in Pools : Of(q)' \subseteq Of(q) /\ w \notin Of(q)'
      BY <1>4 DEF Of
    <2>2. \A v \in Processes : worker'[v].state = "closed" => Leases(v)' # {}
      BY <1>3, <1>4 DEF PoolsInv, WorkersTrue
    <2>3. ASSUME NEW q \in Pools, pool[q] = "released", NEW v \in Of(q)' PROVE worker'[v].state = "closed" /\ ~Busy(v)'
      <3>1. v \in Of(q) /\ v # w /\ v \in Processes
        BY <2>1 DEF Of
      <3>2. QED
        BY <2>3, <3>1, <1>3, <1>4 DEF PoolsInv, WorkersTrue
    <2>4. QED
      BY <2>1, <2>2, <2>3, <1>2 DEF PoolsInv, WorkersTrue
  <1>9. SessionEnds'
    BY <1>2 DEF PoolsInv, SessionEnds
  <1>10. DiesInOrder'
    <2> SUFFICES ASSUME stops' = 0, NEW v \in Processes, worker'[v].state \in {"dying", "closed"}
                 PROVE  \/ pool'[worker'[v].pool] \in {"retired", "released"}
                        \/ \E q \in Leases(v)' : run'[q].pc = "cleanup"
      BY DEF DiesInOrder
    <2>1. v # w /\ worker'[v] = worker[v]
      BY <1>4
    <2>2. \A q \in Leases(v) : q # r /\ run'[q] = run[q]
      BY <2>1, <1>1, <1>3 DEF Leases
    <2>3. QED
      BY <2>1, <2>2, <1>2, <1>3 DEF PoolsInv, DiesInOrder
  <1>11. ActorIsWaitedFor'
    <2> SUFFICES ASSUME stops' = 0, NEW q \in ActorRuns, Executing(q)'
                 PROVE  ~run'[q].aborted /\ worker'[run'[q].worker].state = "live"
      BY DEF ActorIsWaitedFor
    <2>1. q \in Runs /\ q # r /\ run'[q] = run[q] /\ Executing(q) /\ Leasing(q)
      BY <1>3 DEF Runs, Executing, Leasing
    <2>2. ~run[q].aborted /\ worker[run[q].worker].state = "live" /\ run[q].worker \in Processes /\ run[q].worker # w
      BY <2>1, <1>2, <1>3 DEF PoolsInv, ActorIsWaitedFor, LeasesTrue
    <2>3. QED
      BY <2>1, <2>2, <1>4
  <1>12. QED
    BY <1>5, <1>6, <1>7, <1>8, <1>9, <1>10, <1>11 DEF PoolsInv

\* A run gives its worker back: kept for its role while nothing speaks against it, or else stopped.
LEMMA ReturnKeeps == ASSUME PoolsInv, NEW r \in Runs, Return(r) PROVE PoolsInv'
  <1>1. PICK p, w, own : p = run[r].pool /\ w = run[r].worker /\ own = RoleOf(r)
    OBVIOUS
  <1>2. run[r].pc = "settled" /\ Leasing(r) /\ UNCHANGED <<session, search, pool, awaits, stops>>
    BY DEF Return, Leasing
  <1>3. /\ p \in Pools /\ w \in Processes /\ own \in Roles /\ worker[w].state # "none" /\ worker[w].pool = p
        /\ worker[w].role = own /\ ~run[r].input
    BY <1>1, <1>2 DEF PoolsInv, PoolType, RunRecords, LeasesTrue, RoleOf, Roles
  <1>4. CASE Keeps(r)
    <2>1. /\ idle' = [idle EXCEPT ![p][own] = w] /\ Ended(r) /\ UNCHANGED worker
          /\ pool[p] = "ready" /\ worker[w].state # "closed"
      BY <1>1, <1>4 DEF Return, Keeps
    <2>2. /\ run' \in [Runs -> RunRecords] /\ ~Leasing(r)' /\ \A q \in Runs : q # r => run'[q] = run[q]
          /\ run'[r].pc = "done" /\ run'[r].pool = 0 /\ ~run'[r].input /\ ~run'[r].aborted
          /\ w \in Processes /\ Leases(w) = {r} /\ Leases(w)' = {} /\ \A v : v # w => Leases(v)' = Leases(v) /\ (Busy(v)' <=> Busy(v))
          /\ \A q \in Runs : Leasing(q) /\ q # r => run[q].worker # w
      BY <1>1, <1>2, <2>1, OverKeeps
    <2>3. /\ idle' \in [Pools -> [Roles -> Processes \cup {0}]] /\ idle'[p][own] = w
          /\ \A q \in Pools, role \in Roles : q # p \/ role # own => idle'[q][role] = idle[q][role]
      BY <1>3, <2>1 DEF PoolsInv, PoolType
    <2>4. worker[w].state \in {"live", "dying"} /\ w # 0
      BY <1>3, <2>1, NoneIsZero DEF PoolsInv, PoolType, WorkerRecords, NoWorker
    <2>5. PoolType'
      BY <1>2, <2>1, <2>2, <2>3 DEF PoolsInv, PoolType
    <2>6. LeasesTrue'
      <3> SUFFICES ASSUME NEW q \in Runs
                   PROVE  /\ run'[q].pc \notin {"idle", "done"} <=> run'[q].pool # 0
                          /\ run'[q].pool # 0 => pool'[run'[q].pool] # "none"
                          /\ Leasing(q)' => /\ run'[q].worker \in Processes /\ worker'[run'[q].worker].state # "none"
                                            /\ worker'[run'[q].worker].pool = run'[q].pool
                                            /\ worker'[run'[q].worker].role = RoleOf(q)
                                            /\ \A o \in Runs : Leasing(o)' /\ run'[o].worker = run'[q].worker => o = q
                          /\ (run'[q].input => run'[q].pc = "request") /\ (run'[q].aborted => Leasing(q)')
        BY DEF LeasesTrue, RoleOf
      <3>1. CASE q = r
        BY <3>1, <2>2
      <3>2. CASE q # r
        <4>1. Leasing(q)' <=> Leasing(q)
          BY <3>2, <2>2 DEF Leasing
        <4>2. \A o \in Runs : Leasing(o)' => Leasing(o) /\ run'[o] = run[o]
          BY <2>2 DEF Leasing
        <4>3. QED
          BY <3>2, <4>1, <4>2, <1>2, <2>1, <2>2 DEF PoolsInv, LeasesTrue
      <3>3. QED
        BY <3>1, <3>2
    <2>7. IdleTrue'
      <3> SUFFICES ASSUME NEW q \in Pools, NEW role \in Roles, NEW v, v = idle'[q][role], v # 0
                   PROVE  KeptFor(v, q, role)'
        BY DEF IdleTrue
      <3>1. CASE q = p /\ role = own
        BY <3>1, <1>2, <1>3, <2>1, <2>2, <2>3, <2>4 DEF KeptFor
      <3>2. CASE q # p \/ role # own
        <4>1. v = idle[q][role] /\ KeptFor(v, q, role)
          BY <3>2, <2>3 DEF PoolsInv, IdleTrue
        <4>2. v # w
          BY <4>1, <2>2 DEF KeptFor
        <4>3. QED
          BY <4>1, <4>2, <1>2, <2>1, <2>2 DEF KeptFor
      <3>3. QED
        BY <3>1, <3>2
    <2>8. WorkersTrue'
      <3>1. \A q : Of(q)' = Of(q)
        BY <2>1 DEF Of
      <3>2. \A v \in Processes : worker'[v].state = "closed" => Leases(v)' # {}
        BY <2>1, <2>2 DEF PoolsInv, WorkersTrue
      <3>3. ASSUME NEW q \in Pools, pool[q] = "released", NEW v \in Of(q) PROVE worker'[v].state = "closed" /\ ~Busy(v)'
        <4>1. worker[v].state = "closed" /\ ~Busy(v)
          BY <3>3 DEF PoolsInv, WorkersTrue
        <4>2. QED
          BY <4>1, <2>1, <2>2
      <3>4. QED
        BY <3>1, <3>2, <3>3, <1>2 DEF PoolsInv, WorkersTrue
    <2>9. SessionEnds'
      BY <1>2 DEF PoolsInv, SessionEnds
    <2>10. DiesInOrder'
      <3> SUFFICES ASSUME stops' = 0, NEW v \in Processes, worker'[v].state \in {"dying", "closed"}
                   PROVE  \/ pool'[worker'[v].pool] \in {"retired", "released"}
                          \/ \E q \in Leases(v)' : run'[q].pc = "cleanup"
        BY DEF DiesInOrder
      <3>1. v # w
        BY <1>2, <1>3, <2>1, <2>2 DEF PoolsInv, DiesInOrder
      <3>2. \A q \in Leases(v) : q # r /\ run'[q] = run[q]
        BY <3>1, <1>1, <2>2 DEF Leases
      <3>3. QED
        BY <3>1, <3>2, <1>2, <2>1, <2>2 DEF PoolsInv, DiesInOrder
    <2>11. ActorIsWaitedFor'
      <3> SUFFICES ASSUME stops' = 0, NEW q \in ActorRuns, Executing(q)'
                   PROVE  ~run'[q].aborted /\ worker'[run'[q].worker].state = "live"
        BY DEF ActorIsWaitedFor
      <3>1. q \in Runs /\ run'[q] = run[q] /\ Executing(q)
        BY <2>2 DEF Runs, Executing
      <3>2. QED
        BY <3>1, <1>2, <2>1 DEF PoolsInv, ActorIsWaitedFor
    <2>12. QED
      BY <2>5, <2>6, <2>7, <2>8, <2>9, <2>10, <2>11 DEF PoolsInv
  <1>5. CASE ~Keeps(r)
    <2>1. PICK s : s = IF worker[w].state = "live" THEN "dying" ELSE worker[w].state
      OBVIOUS
    <2>2. /\ worker' = [worker EXCEPT ![w].state = s] /\ run' = [run EXCEPT ![r].pc = "cleanup"] /\ UNCHANGED idle
      BY <1>1, <1>5, <2>1 DEF Return
    <2>3. worker[w] \in WorkerRecords /\ worker \in [Processes -> WorkerRecords \cup {NoWorker}] /\ run \in [Runs -> RunRecords]
      BY <1>3 DEF PoolsInv, PoolType, NoWorker
    <2>4. [worker[w] EXCEPT !.state = s] \in WorkerRecords /\ [run[r] EXCEPT !.pc = "cleanup"] \in RunRecords
      BY <2>1, <2>3 DEF WorkerRecords, RunRecords
    <2>5. worker' \in [Processes -> WorkerRecords \cup {NoWorker}] /\ run' \in [Runs -> RunRecords]
      BY <2>2, <2>3, <2>4
    <2>6. \A v \in Processes : /\ worker'[v].pool = worker[v].pool /\ worker'[v].role = worker[v].role
                               /\ v # w => worker'[v] = worker[v]
                               /\ v = w => worker'[v].state = s
      BY <1>3, <2>2, <2>3 DEF WorkerRecords
    <2>7. /\ run'[r].pc = "cleanup" /\ run'[r].pool = run[r].pool /\ run'[r].worker = run[r].worker
          /\ run'[r].input = run[r].input /\ run'[r].aborted = run[r].aborted
          /\ \A q \in Runs : q # r => run'[q] = run[q]
      BY <2>2, <2>3 DEF RunRecords
    <2>8. \A q \in Runs : (Leasing(q)' <=> Leasing(q)) /\ (Executing(q)' => Executing(q) /\ q # r)
      BY <1>2, <2>7 DEF Leasing, Executing
    <2>9. \A v : Leases(v)' = Leases(v) /\ (Busy(v)' => Busy(v))
      BY <1>2, <2>7 DEF Leases, Busy, Executing
    <2>10. \A q : Of(q)' = Of(q)
      BY <1>3, <2>1, <2>6 DEF Of
    <2>11. PoolType'
      BY <1>2, <2>2, <2>5 DEF PoolsInv, PoolType
    <2>12. LeasesTrue'
      <3> SUFFICES ASSUME NEW q \in Runs
                   PROVE  /\ run'[q].pc \notin {"idle", "done"} <=> run'[q].pool # 0
                          /\ run'[q].pool # 0 => pool'[run'[q].pool] # "none"
                          /\ Leasing(q)' => /\ run'[q].worker \in Processes /\ worker'[run'[q].worker].state # "none"
                                            /\ worker'[run'[q].worker].pool = run'[q].pool
                                            /\ worker'[run'[q].worker].role = RoleOf(q)
                                            /\ \A o \in Runs : Leasing(o)' /\ run'[o].worker = run'[q].worker => o = q
                          /\ (run'[q].input => run'[q].pc = "request") /\ (run'[q].aborted => Leasing(q)')
        BY DEF LeasesTrue, RoleOf
      <3>1. Leasing(q) => worker'[run[q].worker].state # "none"
        BY <1>3, <2>1, <2>6 DEF PoolsInv, LeasesTrue
      <3>2. run'[q].pc \notin {"idle", "done"} <=> run[q].pc \notin {"idle", "done"}
        BY <1>2, <2>7
      <3>3. \A o \in Runs : run'[o].pool = run[o].pool /\ run'[o].worker = run[o].worker /\ run'[o].aborted = run[o].aborted
        BY <2>7
      <3>4. run'[q].input => run'[q].pc = "request"
        BY <1>3, <2>7 DEF PoolsInv, LeasesTrue
      <3>5. QED
        BY <3>1, <3>2, <3>3, <3>4, <1>2, <2>6, <2>8 DEF PoolsInv, LeasesTrue
    <2>13. IdleTrue'
      <3> SUFFICES ASSUME NEW q \in Pools, NEW role \in Roles, NEW v, v = idle'[q][role], v # 0
                   PROVE  KeptFor(v, q, role)'
        BY DEF IdleTrue
      <3>1. KeptFor(v, q, role)
        BY <2>2 DEF PoolsInv, IdleTrue
      <3>2. v # w
        BY <3>1, <1>1, <1>2 DEF KeptFor, Leases, Leasing
      <3>3. QED
        BY <3>1, <3>2, <1>2, <2>6, <2>9 DEF KeptFor
    <2>14. WorkersTrue'
      <3>1. \A v \in Processes : worker'[v].state = "closed" <=> worker[v].state = "closed"
        BY <2>1, <2>6
      <3>2. \A q \in Pools : Of(q) \subseteq Processes
        BY DEF Of
      <3>3. \A q \in Pools : pool[q] = "released" => \A v \in Of(q) : worker'[v].state = "closed" /\ ~Busy(v)'
        BY <2>9, <3>1, <3>2 DEF PoolsInv, WorkersTrue
      <3>4. QED
        BY <1>2, <2>9, <2>10, <3>1, <3>3 DEF PoolsInv, WorkersTrue
    <2>15. SessionEnds'
      BY <1>2 DEF PoolsInv, SessionEnds
    <2>16. DiesInOrder'
      <3> SUFFICES ASSUME stops' = 0, NEW v \in Processes, worker'[v].state \in {"dying", "closed"}
                   PROVE  \/ pool'[worker'[v].pool] \in {"retired", "released"}
                          \/ \E q \in Leases(v)' : run'[q].pc = "cleanup"
        BY DEF DiesInOrder
      <3>1. CASE v = w
        <4>1. r \in Leases(w)
          BY <1>1, <1>2 DEF Leases, Leasing
        <4>2. QED
          BY <3>1, <4>1, <2>7, <2>9
      <3>2. CASE v # w
        <4>1. worker'[v] = worker[v]
          BY <3>2, <2>6
        <4>2. \A q \in Leases(v) : q # r /\ run'[q] = run[q]
          BY <3>2, <1>1, <2>7 DEF Leases
        <4>3. QED
          BY <4>1, <4>2, <1>2, <2>9 DEF PoolsInv, DiesInOrder
      <3>3. QED
        BY <3>1, <3>2
    <2>17. ActorIsWaitedFor'
      <3> SUFFICES ASSUME stops' = 0, NEW q \in ActorRuns, Executing(q)'
                   PROVE  ~run'[q].aborted /\ worker'[run'[q].worker].state = "live"
        BY DEF ActorIsWaitedFor
      <3>1. q \in Runs /\ q # r /\ run'[q] = run[q] /\ Executing(q) /\ Leasing(q)
        BY <2>7, <2>8 DEF Runs, Executing, Leasing
      <3>2. ~run[q].aborted /\ worker[run[q].worker].state = "live" /\ run[q].worker \in Processes /\ run[q].worker # w
        BY <3>1, <1>1, <1>2 DEF PoolsInv, ActorIsWaitedFor, LeasesTrue
      <3>3. QED
        BY <3>1, <3>2, <2>6
    <2>18. QED
      BY <2>11, <2>12, <2>13, <2>14, <2>15, <2>16, <2>17 DEF PoolsInv
  <1>6. QED
    BY <1>4, <1>5

LEMMA PoolsStutter == ASSUME PoolsInv, UNCHANGED poolVars PROVE PoolsInv'
  <1>1. \A q : Of(q)' = Of(q) /\ Leases(q)' = Leases(q) /\ Busy(q)' = Busy(q)
    BY DEF poolVars, Of, Leases, Busy, Executing
  <1>2. PoolType' /\ LeasesTrue' /\ SessionEnds'
    BY DEF poolVars, PoolsInv, PoolType, LeasesTrue, Leasing, SessionEnds
  <1>3. IdleTrue'
    BY <1>1 DEF poolVars, PoolsInv, IdleTrue, KeptFor
  <1>4. WorkersTrue'
    BY <1>1 DEF poolVars, PoolsInv, WorkersTrue
  <1>5. DiesInOrder' /\ ActorIsWaitedFor'
    BY <1>1 DEF poolVars, PoolsInv, DiesInOrder, ActorIsWaitedFor, Executing
  <1>6. QED
    BY <1>2, <1>3, <1>4, <1>5 DEF PoolsInv

LEMMA SearchStep == PoolsInv /\ [SearchNext]_poolVars => PoolsInv'
  <1> SUFFICES ASSUME PoolsInv, [SearchNext]_poolVars PROVE PoolsInv'
    OBVIOUS
  <1>1. CASE UNCHANGED poolVars
    BY <1>1, PoolsStutter
  <1>2. ASSUME NEW p \in Pools, PrepareSearch(p) \/ Release(p) PROVE PoolsInv'
    BY <1>2, PrepareKeeps, ReleaseKeeps
  <1>3. ASSUME NEW p \in Pools, NEW fails \in BOOLEAN, Made(p, fails) PROVE PoolsInv'
    BY <1>3, MadeKeeps
  <1>4. CASE ResetSearch \/ Seal \/ Drain \/ End
    BY <1>4, ResetKeepsPools, SessionKeeps
  <1>5. ASSUME NEW r \in Runs,
               \/ Bind(r) \/ Bound(r) \/ Borrow(r) \/ Refused(r) \/ Request(r) \/ Input(r) \/ Given(r)
               \/ Answer(r) \/ Return(r) \/ Cleanup(r) \/ Abort(r)
        PROVE  PoolsInv'
    BY <1>5, RunKeeps, BorrowKeeps, ReturnKeeps, CleanupKeeps, AbortKeeps
  <1>6. ASSUME NEW w \in Processes, Stop(w) \/ Exit(w) PROVE PoolsInv'
    BY <1>6, StopKeeps, ExitKeeps
  <1>7. QED
    BY <1>1, <1>2, <1>3, <1>4, <1>5, <1>6 DEF SearchNext

\* The inductive invariant of the searches holds in every behaviour of them.
THEOREM PoolsInvariance == SearchSpec => []PoolsInv
  BY PoolsStart, SearchStep, PTL DEF SearchSpec

\* An engine that is released has no user, and every engine is by the session's end.
LEMMA EngineOutlives == PoolsInv => EngineOutlivesItsUsers
  <1> SUFFICES ASSUME PoolsInv, NEW p \in Pools
               PROVE  /\ pool[p] = "released" =>
                           /\ \A w \in Of(p) : worker[w].state = "closed"
                           /\ \A r \in Runs : run[r].pool = p => ~Executing(r) /\ ~run[r].input
                      /\ session = "ended" => pool[p] \in {"none", "released"}
    BY DEF EngineOutlivesItsUsers
  <1>1. pool[p] = "released" => \A w \in Of(p) : worker[w].state = "closed" /\ ~Busy(w)
    BY DEF PoolsInv, WorkersTrue
  <1>2. ASSUME pool[p] = "released", NEW r \in Runs, run[r].pool = p PROVE ~Executing(r) /\ ~run[r].input
    <2>1. Leasing(r) => run[r].worker \in Of(p) /\ r \in Leases(run[r].worker)
      BY <1>2 DEF PoolsInv, LeasesTrue, Leasing, Of, Leases
    <2>2. ~Executing(r)
      BY <1>1, <1>2, <2>1 DEF Busy, Executing, Leasing
    <2>3. QED
      BY <2>2 DEF PoolsInv, LeasesTrue, Executing
  <1>3. session = "ended" => pool[p] \in {"none", "released"}
    BY NoneIsZero DEF PoolsInv, PoolType, SessionEnds, WorkersTrue
  <1>4. QED
    BY <1>1, <1>2, <1>3

\* What is the session's own is safe: its settings come back, its engines outlive their users, and its end
\* waits for the Actor's searches (settings.ts, closed-search-process.mjs).
THEOREM SessionIsSafe == SettingsSpec /\ SearchSpec => []SessionSafe
  <1>1. PoolsInv => ActorIsWaitedFor
    BY DEF PoolsInv
  <1>2. QED
    BY <1>1, SettingsInvariance, ComesBack, PoolsInvariance, EngineOutlives, PTL DEF SessionSafe
=============================================================================
