------------------------------- MODULE TraceTail -------------------------------
(***************************************************************************)
(* Reading a growing transcript (strace-observer.ts: traceDecoder,         *)
(* traceTail).                                                             *)
(*                                                                         *)
(* A tracer appends one row per call of the traced processes.  A call that *)
(* another process interrupts takes two rows, "unfinished" and "resumed";  *)
(* the last row of the file may be half written.  Readers ask for the rows *)
(* so far at any time: their requests are batched, a batch reads what was  *)
(* appended since the last one, pairs the rows of interrupted calls, sorts *)
(* the calls by their entry and follows each process's directory through   *)
(* forks and chdirs, so that a relative name can be attributed to a        *)
(* directory.                                                              *)
(*                                                                         *)
(* Here every fork is interrupted and the other calls are not.             *)
(***************************************************************************)
EXTENDS Integers, Sequences, FiniteSets, SequencesExt

CONSTANTS Pids,          \* traced processes; Root is the first
          Root,
          Dirs,          \* directories; Home is the initial one
          Home,
          Readers,       \* callers of read()
          MovesInFork,   \* whether a child may move before its fork returns
          MaxRows        \* bound: rows of the transcript

VARIABLES log,      \* rows of the transcript, oldest first
          half,     \* whether the last row is still being written
          born,     \* processes started
          forking,  \* pid -> entry of its fork under way, 0 none
          group,    \* pid -> the kernel's directory cell of the process
          at,       \* cell -> the directory
          offset,   \* rows the tail has consumed
          pending,  \* pid -> its unfinished row, 0 none
          cwds,     \* pid -> the tail's cell of the process, 0 unknown
          dir,      \* the tail's cell -> directory, or "unknown"
          writes,   \* writes the tail has recorded: <<row, directory>>
          lost,     \* whether a call could not be paired (unsafe)
          batch,    \* state of the batch under way: "idle", "started", "sized"
          size,     \* complete rows, rows the batch under way found
          queued,   \* whether a batch is queued behind the one under way
          reader,   \* reader -> "idle", "running", "queued", "answered"
          asked     \* reader -> complete rows when it asked

tailVars == <<log, half, born, forking, group, at, offset, pending, cwds, dir,
              writes, lost, batch, size, queued, reader, asked>>
kernelVars == <<log, half, born, forking, group, at>>
readVars == <<offset, pending, cwds, dir, writes, lost, batch, size, queued,
              reader, asked>>

TailInit ==
  /\ log = <<>> /\ half = FALSE /\ born = {Root}
  /\ forking = [p \in Pids |-> 0]
  /\ group = [p \in Pids |-> IF p = Root THEN Root ELSE 0]
  /\ at = [p \in Pids |-> Home]
  /\ offset = 0 /\ pending = [p \in Pids |-> 0]
  /\ cwds = [p \in Pids |-> IF p = Root THEN Root ELSE 0]
  /\ dir = [p \in Pids |-> IF p = Root THEN Home ELSE "unknown"]
  /\ writes = {} /\ lost = FALSE
  /\ batch = "idle" /\ size = <<0, 0>> /\ queued = FALSE
  /\ reader = [r \in Readers |-> "idle"]
  /\ asked = [r \in Readers |-> 0]

Complete == IF half THEN Len(log) - 1 ELSE Len(log)

--------------------------------------------------------------------------------
(* The traced processes *)

\* A row is appended whole or, for a while, only in part.
Row(kind, p, op, arg, entry) ==
  [kind |-> kind, pid |-> p, op |-> op, arg |-> arg, entry |-> entry,
   truth |-> IF op = "write" THEN at[group[p]] ELSE Home]
Append1(r) ==
  /\ ~half /\ Len(log) < MaxRows
  /\ log' = Append(log, r)
  /\ half' \in BOOLEAN
Runs(p) == p \in born /\ forking[p] = 0

EndRow == half /\ half' = FALSE
          /\ UNCHANGED <<log, born, forking, group, at>> /\ UNCHANGED readVars

CallWrite(p) ==
  /\ Runs(p)
  /\ Append1(Row("call", p, "write", Home, Len(log) + 1))
  /\ UNCHANGED <<born, forking, group, at>> /\ UNCHANGED readVars

ParentForking(p) == \E q \in born : forking[q] # 0 /\ log[forking[q]].arg = p
CallChdir(p, d) ==
  /\ Runs(p) /\ d # at[group[p]]
  /\ MovesInFork \/ ~ParentForking(p)
  /\ Append1(Row("call", p, "chdir", d, Len(log) + 1))
  /\ at' = [at EXCEPT ![group[p]] = d]
  /\ UNCHANGED <<born, forking, group>> /\ UNCHANGED readVars

EnterFork(p, c, shared) ==
  /\ Runs(p) /\ c \notin born
  /\ Append1(Row("unfinished", p, IF shared THEN "clone" ELSE "fork", c,
                 Len(log) + 1))
  /\ born' = born \union {c}
  /\ forking' = [forking EXCEPT ![p] = Len(log) + 1]
  /\ group' = [group EXCEPT ![c] = IF shared THEN group[p] ELSE c]
  /\ at' = [at EXCEPT ![c] = at[group[p]]]
  /\ UNCHANGED readVars

LeaveFork(p) ==
  /\ forking[p] # 0
  /\ Append1(Row("resumed", p, log[forking[p]].op, log[forking[p]].arg,
                 Len(log) + 1))
  /\ forking' = [forking EXCEPT ![p] = 0]
  /\ UNCHANGED <<born, group, at>> /\ UNCHANGED readVars

--------------------------------------------------------------------------------
(* The tail *)

\* A batch starts after every caller it serves: a request during a read joins
\* the next one, and the first such request queues it.
Joins == FALSE
Read(r) ==
  /\ reader[r] = "idle"
  /\ asked' = [asked EXCEPT ![r] = Complete]
  /\ reader' = [reader EXCEPT ![r] = IF Joins THEN "running" ELSE "queued"]
  /\ queued' = (queued \/ ~Joins)
  /\ UNCHANGED kernelVars
  /\ UNCHANGED <<offset, pending, cwds, dir, writes, lost, batch, size>>

StartBatch ==
  /\ batch = "idle" /\ queued
  /\ batch' = "started" /\ queued' = FALSE
  /\ reader' = [r \in Readers |->
                 IF reader[r] = "queued" THEN "running" ELSE reader[r]]
  /\ UNCHANGED kernelVars
  /\ UNCHANGED <<offset, pending, cwds, dir, writes, lost, size, asked>>

\* The size is taken before the bytes are read; what is appended meanwhile is
\* left to the next batch.
Stat ==
  /\ batch = "started"
  /\ batch' = "sized" /\ size' = <<Complete, Len(log)>>
  /\ UNCHANGED kernelVars
  /\ UNCHANGED <<offset, pending, cwds, dir, writes, lost, queued, reader, asked>>

Whole == offset + 1 .. size[1]
\* A half-written row at the end is read again by the next batch.
Consumed == size[1]

\* Pairing: an unfinished row waits, per process, for its resumption.
Waits(i) == log[i].kind = "unfinished"
Prefix(i) ==
  LET before == {j \in 1 .. i - 1 : Waits(j) /\ log[j].pid = log[i].pid
                   /\ (j > offset \/ pending[log[i].pid] = j)
                   /\ ~\E k \in j + 1 .. i - 1 : log[k].kind = "resumed"
                                                 /\ log[k].pid = log[j].pid}
  IN IF before = {} THEN 0 ELSE CHOOSE j \in before : TRUE
Paired(i) == IF log[i].kind = "resumed" THEN Prefix(i) ELSE i
\* The calls of the batch in the order of their entries, as rows; a pair is
\* the row that resumes it.
EntryOf(i) == log[Paired(i)].entry
Calls == {i \in Whole : ~Waits(i) /\ Paired(i) # 0}
InOrder(S) == SetToSortSeq(S, LAMBDA i, j : EntryOf(i) < EntryOf(j))

Shares(r) == r.op = "clone"

\* One call: a write is recorded with the directory known for its process, a
\* chdir moves the cell, a fork gives the child the cell or a copy of it.
\* A process no fork of which has been read has no cell.
Followed(s, i) ==
  LET r == log[i]
      known == s.cwds[r.pid] # 0
      here == IF known THEN s.dir[s.cwds[r.pid]] ELSE "unknown"
  IN CASE r.op = "write" -> [s EXCEPT !.writes = @ \union {<<i, here>>}]
       [] r.op = "chdir" -> IF known THEN [s EXCEPT !.dir[s.cwds[r.pid]] = r.arg]
                            ELSE s
       [] OTHER -> IF s.cwds[r.arg] # 0 THEN s
                   ELSE IF Shares(r) /\ known
                     THEN [s EXCEPT !.cwds[r.arg] = s.cwds[r.pid]]
                     ELSE [s EXCEPT !.cwds[r.arg] = r.arg,
                             !.dir[r.arg] = IF r.op = "fork" THEN here
                                            ELSE "unknown"]

Advance ==
  /\ batch = "sized"
  /\ LET s == FoldLeft(Followed, [cwds |-> cwds, dir |-> dir, writes |-> writes],
                       InOrder(Calls))
         waiting(p) == {j \in Whole \union {pending[p]} : j # 0 /\ Waits(j)
                          /\ log[j].pid = p
                          /\ ~\E k \in Whole : k > j /\ log[k].kind = "resumed"
                                               /\ log[k].pid = p}
     IN /\ cwds' = s.cwds /\ dir' = s.dir /\ writes' = s.writes
        /\ pending' = [p \in Pids |-> IF waiting(p) = {} THEN 0
                                      ELSE CHOOSE j \in waiting(p) : TRUE]
        /\ lost' = (lost \/ \E i \in Whole : Paired(i) = 0)
        /\ offset' = Consumed
  /\ batch' = "idle"
  /\ reader' = [r \in Readers |->
                 IF reader[r] = "running" THEN "answered" ELSE reader[r]]
  /\ UNCHANGED kernelVars /\ UNCHANGED <<size, queued, asked>>

TailNext ==
  \/ EndRow
  \/ \E p \in Pids :
       \/ CallWrite(p)
       \/ LeaveFork(p)
       \/ \E d \in Dirs : CallChdir(p, d)
       \/ \E c \in Pids, shared \in BOOLEAN : EnterFork(p, c, shared)
  \/ StartBatch
  \/ Stat
  \/ Advance
  \/ \E r \in Readers : Read(r)

TailSpec == TailInit /\ [][TailNext]_tailVars

--------------------------------------------------------------------------------

\* A reader that was answered has every row that was complete when it asked:
\* its calls are recorded or known to be unfinished, each pair is found however
\* the rows were split between reads, and no write is recorded twice.
AnswersCover ==
  /\ ~lost
  /\ \A r \in Readers : reader[r] = "answered" =>
       \A i \in 1 .. asked[r] :
         /\ i <= offset
         /\ log[i].op = "write" => \E w \in writes : w[1] = i
  /\ \A v, w \in writes : v[1] = w[1] => v = w

\* A write is attributed to the directory its process was in when it wrote, or
\* to none ("an unresolvable write counts"): never to another directory.
AttributedTrue ==
  \A w \in writes : w[2] \in {"unknown", log[w[1]].truth}
=============================================================================
