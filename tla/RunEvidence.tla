----------------------------- MODULE RunEvidence ------------------------------
(*****************************************************************************)
(* What proves a run's inputs, in two parts with variables of their own: the *)
(* evidence of the runs of one session, and the digests of one file with     *)
(* their validation.  Each part has its own specification.                   *)
(*****************************************************************************)
EXTENDS Integers, FiniteSets, Sequences

(*****************************************************************************)
(* What a run brokered inside a session proves of the files outside its    *)
(* workspace (src/linux-process-backend.ts: privateCommits,                *)
(* privateInterference, privateInputImages, captureDependencies,           *)
(* evidenceSources).                                                       *)
(*                                                                         *)
(* The runs of a session share one private branch over the host: a write   *)
(* goes to its upper directory, a removal leaves a whiteout, and the first *)
(* read of a host file installs an image of it there.  When a run ends its *)
(* evidence is computed from the branch as it was at the run's start, from *)
(* the host as it is now, and from the evidence of the runs it brokered.   *)
(*                                                                         *)
(* A value is 0 for a name that does not exist.  Unknown stands for an     *)
(* input the code leaves undefined, which makes the evidence incomplete.   *)
(*****************************************************************************)

CONSTANTS
  Names, Values,
  Runs, Parent,     \* Parent[r]: the run whose trace holds r's launcher; the command's is itself
  HostChanges,      \* what may happen to the host while the session runs: "modify", "create", "remove"
  MaxWrites,        \* bound: writes of the runs
  MaxHost           \* bound: changes of the host

Content == Values \cup {0}
Unknown == -1

VARIABLES
  host,     \* host[n]: [v, at]: the host's file and when it last changed
  branch,   \* branch[n]: [v, deleted]: the private branch; v is 0 when the upper directory does not have n
  image,    \* image[n]: [v, kept]: the original value of n's input image, or 0, and whether its private object is as installed
  now,
  run,      \* run[r]: [pc, since, pre: the branch at its start]
  wrote,    \* the writes of the traces: [run, name, at]
  reads,    \* reads[r]: the names r's own trace looked up, and whether it found them
  proof,    \* proof[r]: [as, complete, before, deps]: "evidence" or "observation", and functions of the names;
            \* Unknown where there is no value
  start,    \* history: what r's view was at its start
  saw,      \* history: saw[r][n]: what r's tree first saw of n before it wrote it, or Unknown
  changes   \* bounds

evidenceVars == <<host, branch, image, now, run, wrote, reads, proof, start, saw, changes>>

View(n) == IF branch[n].v # 0 THEN branch[n].v ELSE IF branch[n].deleted THEN 0 ELSE host[n].v

Running(r) == run[r].pc = "running"
Children(r) == {c \in Runs \ {r} : Parent[c] = r}
\* The runs r's own process started, and theirs; a chain of launchers is at most Cardinality(Runs) long.
Trees ==
  LET ahead[k \in 0..Cardinality(Runs)] ==
        IF k = 0 THEN [r \in Runs |-> {r}] ELSE [r \in Runs |-> ahead[k - 1][r] \cup UNION {ahead[k - 1][c] : c \in Children(r)}]
  IN ahead[Cardinality(Runs)]
Tree(r) == Trees[r]
None == [n \in Names |-> Unknown]

EvidenceInit ==
  /\ host \in [Names -> {[v |-> v, at |-> 0] : v \in {0, 1}}]
  /\ branch = [n \in Names |-> [v |-> 0, deleted |-> FALSE]] /\ image = [n \in Names |-> [v |-> 0, kept |-> TRUE]]
  /\ now = 1 /\ wrote = {} /\ reads = [r \in Runs |-> {}]
  /\ run = [r \in Runs |-> [pc |-> "new", since |-> 0, pre |-> branch]]
  /\ proof = [r \in Runs |-> [as |-> "none", complete |-> FALSE, before |-> None, deps |-> None]]
  /\ start = [r \in Runs |-> None] /\ saw = [r \in Runs |-> None] /\ changes = [runs |-> 0, host |-> 0]
-----------------------------------------------------------------------------
(* The branch, the host and the runs. *)

\* executeRequest: the private prestate is captured, the writer begins.
Start(r) ==
  /\ run[r].pc = "new" /\ (Parent[r] # r => Running(Parent[r]))
  /\ run' = [run EXCEPT ![r] = [pc |-> "running", since |-> now, pre |-> branch]]
  /\ start' = [start EXCEPT ![r] = [n \in Names |-> View(n)]] /\ now' = now + 1
  /\ UNCHANGED <<host, branch, image, wrote, reads, proof, saw, changes>>

\* What r's tree has not written yet is seen as an input of r and of every run around it.
Seen(r, n) == [q \in Runs |-> IF r \in Tree(q) /\ Running(q) /\ saw[q][n] = Unknown /\ ~\E w \in wrote : w.name = n /\ w.run \in Tree(q)
                              THEN [saw[q] EXCEPT ![n] = View(n)] ELSE saw[q]]

\* The sandbox reads n: the branch's, or the host's, of which it installs an image first.
Read(r, n) ==
  /\ Running(r) /\ saw' = Seen(r, n) 
  /\ <<n, View(n) # 0>> \notin reads[r] /\ reads' = [reads EXCEPT ![r] = @ \cup {<<n, View(n) # 0>>}]
  /\ IF branch[n].v = 0 /\ ~branch[n].deleted /\ host[n].v # 0
     THEN image' = [image EXCEPT ![n].v = host[n].v] /\ branch' = [branch EXCEPT ![n].v = host[n].v]
     ELSE UNCHANGED <<image, branch>>
  /\ UNCHANGED <<host, now, run, wrote, proof, start, changes>>

\* The sandbox writes or removes n in the branch.
Write(r, n, v) ==
  /\ Running(r) /\ changes.runs < MaxWrites /\ v # View(n)
  /\ branch' = [branch EXCEPT ![n] = [v |-> v, deleted |-> IF v = 0 THEN host[n].v # 0 \/ @.deleted ELSE @.deleted]]
  /\ wrote' = wrote \cup {[run |-> r, name |-> n, at |-> now]} /\ now' = now + 1
  /\ changes' = [changes EXCEPT !.runs = @ + 1] /\ image' = [image EXCEPT ![n].kept = @ /\ image[n].v = 0]
  /\ UNCHANGED <<host, run, reads, proof, start, saw>>

\* The user or the Actor changes the host.
HostWrite(n, v) ==
  /\ changes.host < MaxHost /\ v # host[n].v /\ (\E r \in Runs : Running(r))
  /\ (IF v = 0 THEN "remove" ELSE IF host[n].v = 0 THEN "create" ELSE "modify") \in HostChanges
  /\ host' = [host EXCEPT ![n] = [v |-> v, at |-> now]] /\ now' = now + 1 /\ changes' = [changes EXCEPT !.host = @ + 1]
  /\ UNCHANGED <<branch, image, run, wrote, reads, proof, start, saw>>
-----------------------------------------------------------------------------
(* The evidence of a run that ended. *)

\* Mutant: only the runs that are still running interfere.
InterferedRunning(r, n, owned) ==
  \E w \in wrote : w.name = n /\ w.run \notin owned /\ w.at >= run[r].since /\ Running(w.run)

\* privateInterference: another writer of the session wrote n since the run began.
Interfered(r, n, owned) == \E w \in wrote : w.name = n /\ w.run \notin owned /\ w.at >= run[r].since

External(r) == {n \in Names : \E w \in wrote : w.name = n /\ w.run \in Tree(r)}

\* privateCommits: the branch's own file at the start, else the host's unless it has changed since.
Baseline(r, n) ==
  LET prior == run[r].pre[n] IN
  IF prior.v # 0 THEN prior.v
  ELSE IF host[n].v # 0 /\ host[n].at > run[r].since THEN Unknown
  ELSE IF prior.deleted THEN 0 ELSE host[n].v

\* One interfered name leaves none of them known.
Before(r) ==
  LET owned == Tree(r) IN
  [n \in Names |-> IF n \notin External(r) \/ (\E m \in External(r) : Interfered(r, m, owned)) THEN Unknown ELSE Baseline(r, n)]

\* captureDependencies of a name only looked up: the branch's file at the start, the image, or the host's absence
\* when no lookup found it.
Input(r, n, found) ==
  LET prior == run[r].pre[n] IN
  IF prior.v # 0 THEN IF Interfered(r, n, {}) THEN Unknown ELSE prior.v
  ELSE IF image[n].v # 0 THEN IF image[n].kept THEN image[n].v ELSE Unknown
  ELSE IF branch[n].v = 0 /\ ~found /\ host[n].v = 0 THEN 0 ELSE Unknown

\* evidenceSources: a certificate answers for the runs under it, an observation only for itself.
EvidenceSources(r) ==
  LET under == Tree(r) \ {r} IN {c \in under : ~\E a \in under \ {c} : proof[a].as = "evidence" /\ c \in Tree(a)}

\* atStart: an input the run's own tree wrote is the run's baseline, not what a child found.
Rebased(r, n, v) == IF n \in External(r) THEN Before(r)[n] ELSE v

\* What the observed names, r's own and those of its children that keep an observation, and the effects rest on.
SourceClaims(r, n) ==
  IF n \in External(r) THEN {Before(r)[n]}
  ELSE LET looked == UNION {reads[c] : c \in {r} \cup {c \in EvidenceSources(r) : proof[c].as = "observation"}} IN
       {Input(r, n, <<n, TRUE>> \in looked) : look \in {look \in looked : look[1] = n}}

\* The certificates of the runs it brokered, rebased.
RunClaims(r, n) == {Rebased(r, n, proof[c].deps[n]) : c \in {c \in EvidenceSources(r) : proof[c].as = "evidence" /\ proof[c].deps[n] # Unknown}}

\* End(r): its process and every run it brokered are over; unknown or conflicting inputs are incomplete.
\* A run that cannot prove its inputs alone leaves its observation to the runs around it.
End(r) ==
  /\ Running(r) /\ \A c \in Children(r) : ~Running(c)
  /\ run' = [run EXCEPT ![r].pc = "done"]
  /\ LET claims == [n \in Names |-> SourceClaims(r, n) \cup RunClaims(r, n)]
         sourceComplete == \A n \in Names : Unknown \notin SourceClaims(r, n)
         external == \A n \in External(r) : Before(r)[n] # Unknown
     IN proof' = [proof EXCEPT ![r] =
       [as |-> IF ~sourceComplete /\ external THEN "observation" ELSE "evidence",
        complete |-> /\ \A n \in Names : Unknown \notin claims[n] /\ Cardinality(claims[n]) <= 1
                     /\ \A c \in EvidenceSources(r) : proof[c].as = "evidence" => proof[c].complete,
        before |-> Before(r),
        deps |-> [n \in Names |-> IF Cardinality(claims[n]) = 1 THEN CHOOSE v \in claims[n] : TRUE ELSE Unknown]]]
  /\ UNCHANGED <<host, branch, image, now, wrote, reads, start, saw, changes>>

EvidenceNext ==
  \/ \E r \in Runs : Start(r) \/ End(r) \/ \E n \in Names : Read(r, n) \/ \E v \in Content : Write(r, n, v)
  \/ \E n \in Names, v \in Content : HostWrite(n, v)

EvidenceSpec == EvidenceInit /\ [][EvidenceNext]_evidenceVars
-----------------------------------------------------------------------------
\* A complete proof gives every name the run or a run under it read before writing exactly what was seen, so a result
\* is reused only over the inputs that made it (captureDependencies with the evidence of brokered runs).
InputsProven ==
  \A r \in Runs : proof[r].complete => \A n \in Names : saw[r][n] # Unknown => proof[r].deps[n] = saw[r][n]

\* The state a complete proof takes an effect to start from is the one the run started from ("this run's private or host prestate").
BaselineIsStart ==
  \A r \in Runs : proof[r].complete => \A n \in External(r) : proof[r].before[n] = start[r][n]

-------------------------------------------------------------------------------
(*****************************************************************************)
(* Evidence of files and its validation (filesystem-evidence.ts,           *)
(* provenance-validation.ts).                                              *)
(*                                                                         *)
(* A file's digest is taken by a series of calls on a descriptor of it,    *)
(* with the host at work meanwhile, and kept under the file's identity and *)
(* change time for every later reader of the process.  A validation reads  *)
(* again, concurrently, every dependency of a certificate through a view   *)
(* of the mounts: here a file's content, a directory's entries, and the    *)
(* absence of a name of it, whose listing it shares.                       *)
(*                                                                         *)
(* The host writes the file in place, a half at a time, replaces it by     *)
(* another, makes and removes the name, and mounts over the whole.  Two    *)
(* changes within one tick of the clock have the same change time.         *)
(*****************************************************************************)

CONSTANTS Inodes,      \* files the name may come to stand for, 1 .. n
          Readers,     \* captures of the file, the first of a validation
          Validator,   \* the reader that validates a certificate
          MaxTime,     \* bound: ticks of the clock
          MaxChanges   \* bound: changes by the host

Halves == {1, 2}
Contents == {"old", "new"}
\* What the certificate recorded.
Expected == [file |-> [h \in Halves |-> "old"], entries |-> {"f"}, absent |-> TRUE]

VARIABLES clock, hostChanges,
          data,     \* inode -> the two halves of its content
          stamp,    \* inode -> its change time
          name,     \* the inode the file's name stands for
          extra,    \* whether the name that should be absent is there
          dirStamp, \* change time of the directory
          mounted,  \* whether another file system covers the directory
          digests,  \* the process-wide digests: [ino, stamp, hash, taken]
          reader,   \* reader -> its capture of the file
          walk,     \* the validator's listing and absence
          result,   \* "none", "valid", "stale" or "indeterminate"
          seen,     \* facts that held since the validation began, for the properties
          torn      \* the file was rewritten, as it was read, in the tick of its last change

fileVars == <<clock, hostChanges, data, stamp, name, extra, dirStamp, mounted,
                  digests, reader, walk, result, seen, torn>>

Nothing == [h \in Halves |-> "none"]
Idle == [at |-> "idle", ino |-> 1, before |-> 0, taken |-> 0, got |-> Nothing]
NoWalk == [list |-> "idle", before |-> 0, entries |-> {}, absent |-> "idle"]

FileInit ==
  /\ clock = 0 /\ hostChanges = 0
  /\ data = [i \in Inodes |-> [h \in Halves |-> IF i = 1 /\ h = 2 THEN "new" ELSE "old"]]
  /\ stamp = [i \in Inodes |-> 0] /\ name = 1 /\ extra = FALSE /\ dirStamp = 0
  /\ mounted = FALSE
  /\ digests = {}
  /\ reader = [r \in Readers |-> [Idle EXCEPT !.at = IF r = Validator THEN "idle" ELSE "begun"]]
  /\ walk = NoWalk
  /\ result = "none" /\ seen = {} /\ torn = FALSE

hostVars == <<data, stamp, name, extra, dirStamp, mounted, hostChanges>>

--------------------------------------------------------------------------------
(* The host *)

Entries(x) == IF x THEN {"f", "g"} ELSE {"f"}
\* What is true of the paths, had one looked: nothing of it under a mount.
Facts(d, n, x, m) ==
  IF m THEN {}
  ELSE {<<"file", d[n]>>, <<"entries", Entries(x)>>} \union (IF x THEN {} ELSE {<<"absent">>})

Change ==
  /\ hostChanges < MaxChanges /\ hostChanges' = hostChanges + 1 /\ result = "none"
  /\ UNCHANGED <<clock, digests, reader, walk, result>>
Reading(r) == reader[r].at \in {"open", "half", "whole"}
Looked == seen' = IF result = "none" /\ reader[Validator].at # "idle"
                  THEN seen \union Facts(data', name', extra', mounted') ELSE seen

WriteHalf(i, h, v) ==
  /\ Change /\ data[i][h] # v
  /\ data' = [data EXCEPT ![i][h] = v]
  /\ stamp' = [stamp EXCEPT ![i] = clock]
  /\ torn' = (torn \/ (Reading(Validator) /\ reader[Validator].ino = i
                      /\ reader[Validator].before = clock))
  /\ UNCHANGED <<name, extra, dirStamp, mounted>> /\ Looked
Replace(i) ==
  /\ Change /\ i # name
  /\ name' = i /\ stamp' = [stamp EXCEPT ![i] = clock, ![name] = clock]
  /\ dirStamp' = clock
  /\ UNCHANGED <<data, extra, mounted, torn>> /\ Looked
Toggle ==
  /\ Change
  /\ extra' = ~extra /\ dirStamp' = clock
  /\ UNCHANGED <<data, stamp, name, mounted, torn>> /\ Looked
Mount ==
  /\ Change /\ ~mounted /\ mounted' = TRUE
  /\ UNCHANGED <<data, stamp, name, extra, dirStamp, torn>> /\ Looked
Tick ==
  /\ clock < MaxTime /\ clock' = clock + 1
  /\ UNCHANGED <<hostVars, digests, reader, walk, result, seen, torn>>

--------------------------------------------------------------------------------
(* The capture of a file *)

\* settledIdentity: the bytes were taken more than a tick after the change.
SettledIdentity(at, taken) == taken > at
\* rememberCapture keeps one digest of an identity, the last.
Remembered(i, at, hash, taken) ==
  {d \in digests : d.ino # i \/ d.stamp # at}
    \union {[ino |-> i, stamp |-> at, hash |-> hash, taken |-> taken]}
CachedCapture(i) == {d \in digests : d.ino = i /\ d.stamp = stamp[i]
                                      /\ SettledIdentity(stamp[i], d.taken)}

\* A validation borrows the view of its execution world, or reads now.
Begin(r) ==
  /\ r = Validator /\ reader[r].at = "idle"
  /\ reader' = [reader EXCEPT ![r].at = "begun"]
  /\ seen' = Facts(data, name, extra, mounted)
  /\ UNCHANGED <<hostVars, clock, digests, walk, result, torn>>

\* Only the validation looks at the digest it is given.
Finished(r, hash) == [Idle EXCEPT !.at = "done", !.got = IF r = Validator THEN hash ELSE Nothing]
\* captureFileDigest: a cached digest stands for reading the file again.
StatFile(r) ==
  /\ reader[r].at = "begun"
  /\ reader' = [reader EXCEPT ![r] =
       IF CachedCapture(name) # {}
         THEN Finished(r, (CHOOSE d \in CachedCapture(name) : TRUE).hash)
         ELSE [@ EXCEPT !.at = "pin", !.taken = clock]]
  /\ UNCHANGED <<hostVars, clock, digests, walk, result, seen, torn>>

OpenFile(r) ==
  /\ reader[r].at = "pin"
  /\ reader' = [reader EXCEPT ![r].at = "open", ![r].ino = name, ![r].before = stamp[name]]
  /\ UNCHANGED <<hostVars, clock, digests, walk, result, seen, torn>>

ReadHalf(r) ==
  /\ reader[r].at \in {"open", "half"}
  /\ LET h == IF reader[r].at = "open" THEN 1 ELSE 2 IN
     reader' = [reader EXCEPT ![r].got[h] = data[reader[r].ino][h],
                              ![r].at = IF h = 1 THEN "half" ELSE "whole"]
  /\ UNCHANGED <<hostVars, clock, digests, walk, result, seen, torn>>

Unchanged(r) == stamp[reader[r].ino] = reader[r].before
\* The descriptor has the identity it was read under, and the name stands for
\* that file.
Verify(r) ==
  /\ reader[r].at = "whole"
  /\ LET ok == name = reader[r].ino /\ Unchanged(r) IN
     /\ reader' = [reader EXCEPT ![r] = IF ok THEN Finished(r, @.got)
                                       ELSE [Idle EXCEPT !.at = "failed"]]
     /\ digests' = IF ok THEN Remembered(name, reader[r].before, reader[r].got, reader[r].taken)
                   ELSE digests
  /\ UNCHANGED <<hostVars, clock, walk, result, seen, torn>>

--------------------------------------------------------------------------------
(* The listing of the directory, and the absent name *)

Begun == reader[Validator].at # "idle"
\* captureFilesystemDirectory: the identity, the entries, both again.
List ==
  /\ Begun /\ result = "none"
  /\ walk.list = "idle"
  /\ walk' = [walk EXCEPT !.list = "listed", !.before = dirStamp, !.entries = Entries(extra)]
  /\ UNCHANGED <<hostVars, clock, digests, reader, result, seen, torn>>
ListAgain ==
  /\ walk.list = "listed"
  /\ walk' = [walk EXCEPT !.before = 0,
       !.list = IF dirStamp = walk.before /\ Entries(extra) = walk.entries
                THEN "done" ELSE "failed"]
  /\ UNCHANGED <<hostVars, clock, digests, reader, result, seen, torn>>
\* captureAbsenceDependency: the name, then the listing both share.
LookAbsent ==
  /\ Begun /\ walk.absent = "idle"
  /\ walk' = [walk EXCEPT !.absent = IF extra THEN "present" ELSE "absent"]
  /\ UNCHANGED <<hostVars, clock, digests, reader, result, seen, torn>>

--------------------------------------------------------------------------------
(* The answer *)

AllChecked == /\ reader[Validator].at \in {"done", "failed"}
              /\ walk.list \in {"done", "failed"} /\ walk.absent # "idle"
Failed == reader[Validator].at = "failed" \/ walk.list = "failed"
Stale == \/ reader[Validator].got # Expected.file
         \/ walk.entries # Expected.entries \/ walk.absent = "present"
Verified == ~mounted
Answer ==
  /\ result = "none" /\ AllChecked
  /\ result' = IF Failed \/ ~Verified THEN "indeterminate"
               ELSE IF Stale THEN "stale" ELSE "valid"
  /\ UNCHANGED <<hostVars, clock, digests, reader, walk, seen, torn>>

FileNext ==
  \/ \E i \in Inodes, h \in Halves, v \in Contents : WriteHalf(i, h, v)
  \/ \E i \in Inodes : Replace(i)
  \/ Toggle \/ Mount \/ Tick
  \/ \E r \in Readers : \/ Begin(r) \/ StatFile(r) \/ OpenFile(r) \/ ReadHalf(r)
                        \/ Verify(r)
  \/ List \/ ListAgain \/ LookAbsent \/ Answer

FileSpec == FileInit /\ [][FileNext]_evidenceVars

--------------------------------------------------------------------------------

\* A digest that would be trusted for a file as it is now is the digest of what
\* the file holds now, whatever was written while, or in the tick when, it was
\* taken (cachedCapture).
TrustedIsCurrent ==
  \A i \in Inodes : \A d \in CachedCapture(i) : d.hash = data[i]

\* A certificate is found valid only if each of its dependencies held at some
\* moment of the validation, unless the file was rewritten, as it was read,
\* within the tick of its last change: no change time shows that.
ValidHeld ==
  result = "valid" /\ ~torn =>
    {<<"file", Expected.file>>, <<"entries", Expected.entries>>, <<"absent">>} \subseteq seen
===============================================================================
