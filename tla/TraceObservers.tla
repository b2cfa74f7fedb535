---------------------------- MODULE TraceObservers ----------------------------
(***************************************************************************)
(* What two observers of a process tree make of their records (src/strace- *)
(* observer.ts), in two parts with variables of their own: the transcript  *)
(* of one execution in a domain, and the records of calls the kernel       *)
(* collects.  Each part has its own specification.                         *)
(***************************************************************************)
EXTENDS Integers, Sequences, FiniteSets, SequencesExt

(***************************************************************************)
(* Selection and reading of one execution's transcript (strace-observer.ts:*)
(* selectTraceRoot and the domain passes of observeStrace).                *)
(*                                                                         *)
(* A launcher starts tasks, one of which executes the target.  From the    *)
(* complete transcript the observer selects the target's task and its      *)
(* descendants, follows each task's directory, and names what each wrote;  *)
(* whenever the transcript does not prove a name it says "incomplete"      *)
(* instead.  It also keeps the descriptors a task opened itself, whose     *)
(* status flags need no other evidence.                                    *)
(***************************************************************************)

CONSTANTS Pids,     \* tasks; Launcher is the first
          Launcher,
          Dirs,     \* directories; Home is the initial one
          Home,
          MaxRows   \* bound: calls of the transcript

VARIABLES log,      \* calls in the order of the transcript
          born,     \* tasks started
          forking,  \* tasks whose fork has not returned
          group,    \* task -> its directory cell
          at,       \* cell -> directory
          opened,   \* task -> whether its descriptor is one it (or a parent) opened
          observed    \* what the observer made of the transcript

domainVars == <<log, born, forking, group, at, opened, observed>>

Unread == [reason |-> "unread", named |-> {}, own |-> {}]

DomainInit ==
  /\ log = <<>> /\ born = {Launcher} /\ forking = {}
  /\ group = [p \in Pids |-> p]
  /\ at = [p \in Pids |-> Home]
  /\ opened = [p \in Pids |-> FALSE]
  /\ observed = Unread

Call(p, op, arg) ==
  /\ p \in born /\ p \notin forking /\ Len(log) < MaxRows /\ observed = Unread
  /\ log' = Append(log, [pid |-> p, op |-> op, arg |-> arg,
                         truth |-> at[group[p]], mine |-> opened[p]])

WriteFile(p) == Call(p, "write", 0)
                /\ UNCHANGED <<born, forking, group, at, opened, observed>>
AskFlags(p) == Call(p, "getfl", 0)
               /\ UNCHANGED <<born, forking, group, at, opened, observed>>
ExecTarget(p) ==
  /\ \A i \in DOMAIN log : log[i].pid = p => log[i].op # "exec"
  /\ at[group[p]] = Home \* a launcher keeps the initial directory until then
  /\ Call(p, "exec", 0)
  /\ UNCHANGED <<born, forking, group, at, opened, observed>>
OpenFile(p) ==
  /\ ~opened[p] /\ Call(p, "open", 0)
  /\ opened' = [opened EXCEPT ![p] = TRUE]
  /\ UNCHANGED <<born, forking, group, at, observed>>
CloseFile(p) ==
  /\ opened[p] /\ Call(p, "close", 0)
  /\ opened' = [opened EXCEPT ![p] = FALSE]
  /\ UNCHANGED <<born, forking, group, at, observed>>
Chdir(p, d) ==
  /\ d # at[group[p]]
  /\ p = Launcher => \E i \in DOMAIN log : log[i].op = "exec"
  /\ Call(p, "chdir", d)
  /\ at' = [at EXCEPT ![group[p]] = d]
  /\ UNCHANGED <<born, forking, group, opened, observed>>

\* A fork is ordered by its entry; the child runs before the parent returns.
Fork(p, c, shared) ==
  /\ c \notin born /\ Call(p, IF shared THEN "clone" ELSE "fork", c)
  /\ born' = born \union {c} /\ forking' = forking \union {p}
  /\ group' = [group EXCEPT ![c] = IF shared THEN group[p] ELSE c]
  /\ at' = [at EXCEPT ![c] = at[group[p]]]
  /\ opened' = [opened EXCEPT ![c] = opened[p]]
  /\ UNCHANGED observed
ForkReturns(p) ==
  /\ p \in forking /\ forking' = forking \ {p}
  /\ UNCHANGED <<log, born, group, at, opened, observed>>

--------------------------------------------------------------------------------
(* The observer *)

Lines(p) == {i \in DOMAIN log : log[i].pid = p}
Spawns(i) == log[i].op \in {"clone", "fork"}
ParentOf(c) == {log[i].pid : i \in {j \in DOMAIN log : Spawns(j) /\ log[j].arg = c}}

\* Depth of each task below the launcher.
Level(n) ==
  LET step[k \in 0 .. Cardinality(Pids)] ==
        IF k = 0 THEN {Launcher}
        ELSE {c \in Pids : ParentOf(c) \intersect step[k - 1] # {}}
  IN step[n]
DepthOf(p) == CHOOSE n \in 0 .. Cardinality(Pids) : p \in Level(n)
Execs(p) == {i \in Lines(p) : log[i].op = "exec"}
StartOf(p) == CHOOSE i \in Execs(p) : \A j \in Execs(p) : i <= j
Candidates == {p \in born : Execs(p) # {}}
Shallowest == {p \in Candidates : \A q \in Candidates : DepthOf(p) <= DepthOf(q)}

\* exec does not unshare the directory: a task started sharing it, or that
\* shared its own before the target began, leaves it unproven.
Unproven(p) ==
  \E i \in DOMAIN log : log[i].op = "clone" /\
    (log[i].arg = p \/ (log[i].pid = p /\ i < StartOf(p)))

\* The selected tasks: the root's lines from its exec on, its descendants' all.
Selected(root) ==
  LET grow[k \in 0 .. Cardinality(Pids)] ==
        IF k = 0 THEN {root}
        ELSE grow[k - 1] \union
             {log[i].arg : i \in {j \in DOMAIN log : Spawns(j)
                /\ log[j].pid \in grow[k - 1]
                /\ (log[j].pid = root => j >= StartOf(root))}}
  IN grow[Cardinality(Pids)]
Reads(root, p) == {i \in Lines(p) : p = root => i >= StartOf(root)}

\* The tasks that share one directory within the selection.
Sharing(root, p) ==
  LET near(S) == S \union {q \in Selected(root) : \E i \in DOMAIN log :
        log[i].op = "clone" /\ ((log[i].pid \in S /\ log[i].arg = q)
                                \/ (log[i].arg \in S /\ log[i].pid = q))}
      grow[k \in 0 .. Cardinality(Pids)] ==
        IF k = 0 THEN {p} ELSE near(grow[k - 1])
  IN grow[Cardinality(Pids)]
\* A directory that several tasks share was moved by one of them, after the
\* share began: no name relative to it is proven.
Moved(root, p) ==
  /\ Cardinality(Sharing(root, p)) > 1
  /\ \E q \in Sharing(root, p) : \E i \in Reads(root, q) :
       /\ log[i].op = "chdir"
       /\ \E j \in DOMAIN log : log[j].op = "clone"
            /\ (log[j].arg = q \/ (log[j].pid = q /\ j < i))

\* Directory and own descriptors, one call after the other.
Followed(s, i) ==
  LET r == log[i] IN
  CASE r.op = "chdir" -> [s EXCEPT !.cwd[r.pid] = r.arg]
    [] Spawns(i) -> [s EXCEPT !.cwd[r.arg] = s.cwd[r.pid], !.own[r.arg] = s.own[r.pid]]
    [] r.op = "open" -> [s EXCEPT !.own[r.pid] = TRUE]
    [] r.op = "close" -> [s EXCEPT !.own[r.pid] = FALSE]
    [] r.op = "write" -> [s EXCEPT !.named = @ \union {<<i, s.cwd[r.pid]>>}]
    [] r.op = "getfl" /\ s.own[r.pid] -> [s EXCEPT !.trusted = @ \union {i}]
    [] OTHER -> s

Observe ==
  /\ observed = Unread /\ forking = {} /\ log # <<>>
  /\ UNCHANGED <<log, born, forking, group, at, opened>>
  /\ IF Candidates = {} THEN observed' = [Unread EXCEPT !.reason = "target_exec_not_found"]
     ELSE IF Cardinality(Shallowest) # 1
       THEN observed' = [Unread EXCEPT !.reason = "target_exec_ambiguous"]
     ELSE LET root == CHOOSE p \in Shallowest : TRUE IN
       IF Unproven(root)
         THEN observed' = [Unread EXCEPT !.reason = "filesystem_context_unproven"]
       ELSE IF \E p \in Selected(root) : Moved(root, p)
         THEN observed' = [Unread EXCEPT !.reason = "shared_cwd_mutation"]
       ELSE LET rows == SetToSortSeq(UNION {Reads(root, p) : p \in Selected(root)}, <)
                s == FoldLeft(Followed,
                       [cwd |-> [p \in Pids |-> Home], own |-> [p \in Pids |-> FALSE],
                        named |-> {}, trusted |-> {}], rows)
            IN observed' = [reason |-> "complete", named |-> s.named, own |-> s.trusted]

DomainNext ==
  \/ Observe
  \/ \E p \in Pids :
       \/ WriteFile(p) \/ AskFlags(p) \/ ExecTarget(p) \/ OpenFile(p)
       \/ CloseFile(p) \/ ForkReturns(p)
       \/ \E d \in Dirs : Chdir(p, d)
       \/ \E c \in Pids, shared \in BOOLEAN : Fork(p, c, shared)

DomainSpec == DomainInit /\ [][DomainNext]_domainVars

--------------------------------------------------------------------------------

\* What a complete observation says is what happened: every write is named by
\* the directory the task was in, and a descriptor's flags are taken on trust
\* only where the traced tasks opened it themselves.
CompleteIsTrue ==
  observed.reason = "complete" =>
    /\ \A w \in observed.named : w[2] = log[w[1]].truth
    /\ \A i \in observed.own : log[i].mine

-------------------------------------------------------------------------------
(***************************************************************************)
(* Records of calls the kernel collects (strace-observer.ts,               *)
(* nativeMetadataTrace).                                                   *)
(*                                                                         *)
(* Two writers share one ring: the kernel writes a call's entry and        *)
(* return, the broker that served it its request, the path it resolved and *)
(* its response.  The observer reads what the ring holds in batches and    *)
(* gives its consumers one line per call, which they keep: pending until   *)
(* enough records came, then failed or usable, then frozen.  The same ring *)
(* carries the index of inputs, one frame per row.                         *)
(***************************************************************************)

CONSTANTS Ids,       \* calls
          Images,    \* images an input may have
          MaxRing    \* bound: records unread

VARIABLES positional, \* calls that read or write at an offset (no broker)
          kernel,  \* call -> "out", "entered", "ok", "error", "restart"
          broker,  \* call -> records the broker has written
          ring,    \* records unread, oldest first
          calls,   \* call -> what was read of it, NoCall when not in the map
          line,    \* call -> [failure, named, path, result] consumers see
          frozen,  \* lines frozen
          inputs,  \* the one input's row: "none", [image, sealed]
          rows,    \* images of the rows read of it
          failure  \* whether the record failed as a whole

traceVars == <<positional, kernel, broker, ring, calls, line, frozen, inputs,
               rows, failure>>

NoCall == [in |-> FALSE, requested |-> FALSE, returned |-> "none",
           response |-> "none", failed |-> FALSE, canceled |-> FALSE,
           error |-> FALSE, path |-> "none", rank |-> 0]
NoLine == [failure |-> "absent", named |-> TRUE, path |-> "none",
           result |-> "none"]
NoInput == [image |-> "none", sealed |-> FALSE]

TraceInit ==
  /\ positional \in SUBSET Ids
  /\ kernel = [c \in Ids |-> "out"] /\ broker = [c \in Ids |-> {}]
  /\ ring = <<>>
  /\ calls = [c \in Ids |-> NoCall] /\ line = [c \in Ids |-> NoLine]
  /\ frozen = {} /\ inputs = NoInput /\ rows = {} /\ failure = FALSE

--------------------------------------------------------------------------------
(* The writers *)

Write(r) == Len(ring) < MaxRing /\ ring' = Append(ring, r)
Observed == <<positional, calls, line, frozen, inputs, rows, failure>>

KernelEntry(c) ==
  /\ kernel[c] = "out" /\ kernel' = [kernel EXCEPT ![c] = "entered"]
  /\ Write([id |-> c, kind |-> "entry", value |-> ""])
  /\ UNCHANGED broker /\ UNCHANGED Observed

KernelReturn(c, result) ==
  /\ kernel[c] = "entered" /\ kernel' = [kernel EXCEPT ![c] = result]
  /\ Write([id |-> c, kind |-> "return", value |-> result])
  /\ UNCHANGED broker /\ UNCHANGED Observed

\* The broker's records of a call: in its order, but the ring may be late.
BrokerRecord(c, kind, value) ==
  /\ kernel[c] # "out" /\ kind \notin broker[c]
  /\ CASE kind = "request" -> c \notin positional
       [] kind = "path" -> c \in positional \/ "request" \in broker[c]
       [] kind = "response" -> "request" \in broker[c] /\ "fail" \notin broker[c]
       [] kind = "fail" -> "request" \in broker[c] /\ "response" \notin broker[c]
       [] OTHER -> c \notin positional /\ "request" \in broker[c]
  /\ broker' = [broker EXCEPT ![c] = @ \union {kind}]
  /\ Write([id |-> c, kind |-> kind, value |-> value])
  /\ UNCHANGED kernel /\ UNCHANGED Observed

\* The kernel resolves a path of its own.
KernelPath(c, value) ==
  /\ kernel[c] = "entered" /\ "path2" \notin broker[c]
  /\ broker' = [broker EXCEPT ![c] = @ \union {"path2"}]
  /\ Write([id |-> c, kind |-> "kpath", value |-> value])
  /\ UNCHANGED kernel /\ UNCHANGED Observed

InputRow(image, sealed) ==
  /\ Write([id |-> 0, kind |-> "input", value |-> <<image, sealed>>])
  /\ UNCHANGED <<kernel, broker>> /\ UNCHANGED Observed

--------------------------------------------------------------------------------
(* The observer: read() *)

\* A record of a call; a call that is not in the map has no kernel entry, and a
\* second request, response or return contradicts the first.
Broken(s, r) ==
  IF r.kind = "input" THEN FALSE
  ELSE IF r.kind = "entry" THEN s.calls[r.id].in
  ELSE \/ ~s.calls[r.id].in
       \/ r.kind = "request" /\ s.calls[r.id].requested
       \/ r.kind = "response" /\ s.calls[r.id].response # "none"
       \/ r.kind = "return" /\ s.calls[r.id].returned # "none"

PathsAgree(c, rank, value) == rank # c.rank \/ value = c.path
WithPath(c, rank, value) ==
  [c EXCEPT !.error = @ \/ ~PathsAgree(c, rank, value),
            !.path = IF rank > c.rank \/ (rank = c.rank
                          /\ PathsAgree(c, rank, value)) THEN value ELSE @,
            !.rank = IF rank > @ THEN rank ELSE @]

Taken(c, r) ==
  CASE r.kind = "entry" -> [NoCall EXCEPT !.in = TRUE]
    [] r.kind = "request" -> [c EXCEPT !.requested = TRUE]
    [] r.kind = "response" -> [c EXCEPT !.response = r.value]
    [] r.kind = "fail" -> [c EXCEPT !.failed = TRUE]
    [] r.kind = "cancel" -> [c EXCEPT !.canceled = TRUE]
    [] r.kind = "return" -> [c EXCEPT !.returned = r.value]
    [] r.kind = "kpath" -> WithPath(c, 3, r.value)
    [] OTHER -> WithPath(c, 2, r.value)

\* A row of the input index: rows that disagree leave an unsealed entry whose
\* image no later row can match.
Conflicting(known, image) == known # NoInput /\ known.image # image
Indexed(known, v) ==
  IF Conflicting(known, v[1]) THEN [image |-> "unknown", sealed |-> FALSE]
  ELSE [image |-> v[1], sealed |-> v[2]]

Processed(s, r) ==
  IF s.failure \/ Broken(s, r) THEN [s EXCEPT !.failure = TRUE]
  ELSE IF r.kind = "input"
    THEN [s EXCEPT !.inputs = Indexed(@, r.value), !.rows = @ \union {r.value[1]}]
  ELSE [s EXCEPT !.calls[r.id] = Taken(@, r), !.changed = @ \union {r.id}]

\* What a call's line says of it: what the call returned, unless it was cancelled
\* or restarts, must be what the broker answered ("continue" leaves the answer
\* to the kernel).
Failure(i, c) ==
  IF c.canceled \/ c.returned = "restart" THEN "none"
  ELSE IF c.error THEN "error"
  ELSE IF i \in positional
    THEN IF c.returned = "none" THEN "pending"
         ELSE IF c.returned = "ok" /\ c.path = "none" THEN "path_missing"
         ELSE "none"
  ELSE IF c.returned = "none" \/ ~(c.requested /\ c.response # "none")
    THEN IF c.failed THEN "rejected" ELSE "pending"
  ELSE IF c.response \in {c.returned, "continue"} THEN "none" ELSE "changed"

LineOf(i, c) ==
  [failure |-> Failure(i, c),
   named |-> ~(c.canceled \/ c.returned = "restart"),
   path |-> c.path, result |-> c.returned]
Complete(i, c) ==
  c.returned # "none" /\ (i \in positional \/ (c.requested /\ c.response # "none"))

ReadRing ==
  LET s == FoldLeft(Processed, [calls |-> calls, inputs |-> inputs, rows |-> rows,
                                failure |-> FALSE, changed |-> {}], ring)
      done == {i \in s.changed : Complete(i, s.calls[i])}
  IN /\ ~failure /\ ring # <<>>
     /\ ring' = <<>>
     /\ failure' = s.failure
     /\ IF s.failure THEN UNCHANGED <<calls, line, frozen, inputs, rows>>
        ELSE /\ inputs' = s.inputs /\ rows' = s.rows
             /\ line' = [i \in Ids |-> IF i \in s.changed
                                       THEN LineOf(i, s.calls[i]) ELSE line[i]]
             /\ frozen' = frozen \union done
             /\ calls' = [i \in Ids |-> IF i \in done THEN NoCall ELSE s.calls[i]]
     /\ UNCHANGED <<positional, kernel, broker>>

TraceNext ==
  \/ ReadRing
  \/ \E c \in Ids :
       \/ KernelEntry(c)
       \/ \E result \in {"ok", "error", "restart"} : KernelReturn(c, result)
       \/ \E value \in {"p", "q"} :
            BrokerRecord(c, "path", value) \/ KernelPath(c, value)
       \/ \E kind \in {"request", "fail", "cancel"} : BrokerRecord(c, kind, "")
       \/ \E value \in {"ok", "error", "continue"} :
            BrokerRecord(c, "response", value)
  \/ \E image \in Images, sealed \in BOOLEAN : InputRow(image, sealed)

TraceSpec == TraceInit /\ [][TraceNext]_traceVars

--------------------------------------------------------------------------------

Usable(c) == line[c].failure = "none" /\ line[c].named

\* What consumers kept stays true: a line they may use never changes again, is
\* the kernel's own result, and an input of which two rows ever disagreed is
\* never sealed again.
NothingTakenBackStep ==
  /\ \A c \in Ids : Usable(c) => line'[c] = line[c]
  /\ \A c \in Ids : Usable(c)' => line'[c].result = kernel[c]
  /\ Cardinality(rows') > 1 => ~inputs'.sealed
NothingTakenBack == [][NothingTakenBackStep]_traceVars
===============================================================================
