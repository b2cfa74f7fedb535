---------------------------- MODULE HandleLifetimes ----------------------------
(***************************************************************************)
(* Reduction of descriptor lifetimes to object releases                    *)
(* (strace-observer.ts, resourceTransitions).                              *)
(*                                                                         *)
(* A traced tree of processes inherits some open descriptions.  From the   *)
(* calls of its trace the observer rebuilds who still holds what: a table  *)
(* per process, shared by CLONE_FILES, copied by fork, unshared by exec,   *)
(* and the queued messages that carry descriptions as rights.  When the    *)
(* last holder of an end goes, a "release" is journaled; the replay of the *)
(* execution closes that end at that point and at no other.                *)
(*                                                                         *)
(* One object "pipe" has a write end W (a file for some instances, whose   *)
(* releases are counted by description); the sockets "t" and "u" are each  *)
(* other's peers, with descriptions T and U.                               *)
(***************************************************************************)
EXTENDS Integers, Sequences, FiniteSets, SequencesExt

CONSTANTS Pids,     \* processes of the tree; Root is the first
          Root,
          Fds,      \* descriptor numbers
          MaxCalls  \* bound: calls of one trace

VARIABLES held,     \* pid -> its table, 0 not yet started, -1 terminated
          tables,   \* table -> descriptor number -> handle
          messages, \* the reducer's queued messages that carry a right
          outside,  \* object -> accesses also held outside the tree
          file,     \* whether the pipe's inode is a file
          journal,  \* <<object, access>> -> releases journaled
          before,   \* references before the call being reduced
          phase,    \* "record" or "release"
          inflight, \* the kernel's messages sent and not received
          calls     \* calls so far

lifeVars == <<held, tables, messages, outside, file, journal, before, phase,
              inflight, calls>>

Descriptions == {"W", "T", "U"}
Objects == {"pipe", "t", "u"}
Object(d) == CASE d = "W" -> "pipe" [] d = "T" -> "t" [] OTHER -> "u"
Access(d) == IF d = "W" THEN {2} ELSE {1, 2}
Peer(o) == CASE o = "t" -> "u" [] o = "u" -> "t" [] OTHER -> "pipe"
NoHandle == [d |-> "none", cloexec |-> FALSE]
NoTable == [f \in Fds |-> NoHandle]
Live == {p \in Pids : held[p] > 0}
TableIds == {held[p] : p \in Live}
FreeTable == CHOOSE i \in 1 .. Cardinality(Pids) : i \notin TableIds

\* Which descriptions a set of tables and of queued messages refers to.
InTables(hs, ts) ==
  {ts[hs[p]][f].d : p \in {q \in Pids : hs[q] > 0}, f \in Fds} \ {"none"}
References(hs, ts, ms) == InTables(hs, ts) \union {m.right : m \in ToSet(ms)}
Mask(refs, o) == UNION {Access(d) : d \in {x \in refs : Object(x) = o}}

LifeInit ==
  /\ held = [p \in Pids |-> IF p = Root THEN 1 ELSE 0]
  /\ tables = [i \in 1 .. Cardinality(Pids) |->
       IF i = 1 THEN [f \in Fds |-> CASE f = 1 -> [d |-> "W", cloexec |-> FALSE]
                                      [] f = 2 -> [d |-> "T", cloexec |-> FALSE]
                                      [] f = 3 -> [d |-> "U", cloexec |-> FALSE]
                                      [] OTHER -> NoHandle]
       ELSE NoTable]
  /\ messages = <<>> /\ inflight = <<>>
  /\ outside \in {o \in [Objects -> SUBSET {1, 2}] :
       o["pipe"] \subseteq {2} /\ o["t"] \in {{}, {1, 2}} /\ o["u"] = {}}
  /\ file \in BOOLEAN
  /\ journal = [k \in Objects \X {1, 2} |-> 0]
  /\ before = {} /\ phase = "record" /\ calls = 0

\* A call of the trace is reduced as a whole: its changes of the tables, then,
\* when it may have dropped a reference, the loop that journals releases.
Called(lifetime) ==
  /\ phase = "record" /\ calls < MaxCalls
  /\ calls' = calls + 1
  /\ before' = IF lifetime THEN References(held, tables, messages) ELSE {}
  /\ phase' = IF lifetime THEN "release" ELSE "record"
  /\ UNCHANGED <<outside, file, journal>>
Kept == UNCHANGED <<messages, inflight>>
Present(p, f) == held[p] > 0 /\ tables[held[p]][f] # NoHandle

CloseFd(p, f) ==
  /\ Present(p, f) /\ Called(TRUE)
  /\ tables' = [tables EXCEPT ![held[p]][f] = NoHandle]
  /\ UNCHANGED held /\ Kept

\* dup2 onto a number in use closes what was there.
DupFd(p, f, g, cloexec) ==
  /\ Present(p, f) /\ f # g /\ Called(TRUE)
  /\ tables' = [tables EXCEPT ![held[p]][g] =
       [d |-> tables[held[p]][f].d, cloexec |-> cloexec]]
  /\ UNCHANGED held /\ Kept

SetCloexec(p, f) ==
  /\ Present(p, f) /\ ~tables[held[p]][f].cloexec /\ Called(TRUE)
  /\ tables' = [tables EXCEPT ![held[p]][f].cloexec = TRUE]
  /\ UNCHANGED held /\ Kept

SpawnTask(p, c, shared) ==
  /\ held[p] > 0 /\ held[c] = 0 /\ Called(FALSE)
  /\ held' = [held EXCEPT ![c] = IF shared THEN held[p] ELSE FreeTable]
  /\ tables' = IF shared THEN tables
               ELSE [tables EXCEPT ![FreeTable] = tables[held[p]]]
  /\ Kept

WithoutCloexec(t) == [f \in Fds |-> IF t[f].cloexec THEN NoHandle ELSE t[f]]
Alone(p) == \A q \in Live \ {p} : held[q] # held[p]

\* exec unshares the table before it applies FD_CLOEXEC.
Unshared(p) ==
  IF Alone(p) THEN [tables EXCEPT ![held[p]] = WithoutCloexec(tables[held[p]])]
  ELSE [tables EXCEPT ![FreeTable] = WithoutCloexec(tables[held[p]])]

Exec(p) ==
  /\ held[p] > 0 /\ Called(TRUE)
  /\ \E f \in Fds : tables[held[p]][f].cloexec
  /\ tables' = Unshared(p)
  /\ held' = IF Alone(p) THEN held ELSE [held EXCEPT ![p] = FreeTable]
  /\ Kept

CloseRange(p, f) ==
  /\ Present(p, f) /\ Called(TRUE)
  /\ tables' = [tables EXCEPT ![held[p]] =
       [g \in Fds |-> IF g >= f THEN NoHandle ELSE @[g]]]
  /\ UNCHANGED held /\ Kept

Terminate(p) ==
  /\ held[p] > 0 /\ Called(TRUE)
  /\ held' = [held EXCEPT ![p] = -1]
  /\ tables' = IF Alone(p) THEN [tables EXCEPT ![held[p]] = NoTable] ELSE tables
  /\ Kept

\* sendmsg with SCM_RIGHTS: the right waits in the peer's queue.
SendRight(p, s, f) ==
  /\ Present(p, s) /\ Object(tables[held[p]][s].d) # "pipe" /\ Present(p, f)
  /\ Len(inflight) < 2 /\ Called(FALSE)
  /\ LET m == [to |-> Peer(Object(tables[held[p]][s].d)),
               right |-> tables[held[p]][f].d]
     IN messages' = Append(messages, m) /\ inflight' = Append(inflight, m)
  /\ UNCHANGED <<held, tables>>

\* recvmsg installs the first message's right; a plain read loses it.
First(o, ms) == CHOOSE i \in DOMAIN ms :
  ms[i].to = o /\ \A j \in 1 .. i - 1 : ms[j].to # o
Waiting(o, ms) == \E i \in DOMAIN ms : ms[i].to = o
Receive(p, s, f, installs) ==
  /\ Present(p, s)
  /\ LET o == Object(tables[held[p]][s].d) IN
     /\ Waiting(o, inflight) /\ Waiting(o, messages)
     /\ installs => ~Present(p, f)
     /\ Called(TRUE)
     /\ tables' = IF installs
          THEN [tables EXCEPT ![held[p]][f] =
            [d |-> messages[First(o, messages)].right, cloexec |-> FALSE]]
          ELSE tables
     /\ messages' = RemoveAt(messages, First(o, messages))
     /\ inflight' = RemoveAt(inflight, First(o, inflight))
  /\ UNCHANGED held

\* Mutant: a queue's rights outlive the last holder of its receiver.
DestroyedNever(m, refs) == FALSE
\* A message dies with its receiver: nobody in the tree or outside holds it.
Destroyed(m, refs) == outside[m.to] = {} /\ Mask(refs, m.to) = {}

\* What an object lost since the references before: a file by description.
Lost(o, old, new) ==
  IF o = "pipe" /\ file
    THEN IF Mask(old, o) \ Mask(new, o) # {} THEN {2} ELSE {}
    ELSE (Mask(old, o) \ Mask(new, o)) \ outside[o]

\* One pass of the loop: journal what went, drop the messages of destroyed
\* receivers, and pass again while some were dropped.
Release ==
  LET after == References(held, tables, messages)
      kept == SelectSeq(messages, LAMBDA m : ~Destroyed(m, after))
  IN /\ phase = "release"
     /\ journal' = [k \in DOMAIN journal |->
          journal[k] + IF k[2] \in Lost(k[1], before, after) THEN 1 ELSE 0]
     /\ messages' = kept
     /\ before' = IF kept = messages THEN {} ELSE after
     /\ phase' = IF kept = messages THEN "record" ELSE "release"
     /\ UNCHANGED <<held, tables, outside, file, inflight, calls>>

LifeNext ==
  \/ Release
  \/ \E p \in Pids :
       \/ Exec(p)
       \/ Terminate(p)
       \/ \E c \in Pids, shared \in BOOLEAN : SpawnTask(p, c, shared)
       \/ \E f \in Fds : CloseFd(p, f) \/ CloseRange(p, f) \/ SetCloexec(p, f)
       \/ \E f, g \in Fds, cloexec \in BOOLEAN : DupFd(p, f, g, cloexec)
       \/ \E s, f \in Fds : SendRight(p, s, f)
       \/ \E s, f \in Fds, installs \in BOOLEAN : Receive(p, s, f, installs)

LifeSpec == LifeInit /\ [][LifeNext]_lifeVars

--------------------------------------------------------------------------------

\* What the kernel keeps: the largest set of queued messages whose receivers
\* are held from a table, from outside or by another kept message.
KernelMessages ==
  UNION {ms \in SUBSET (DOMAIN inflight) :
    \A i \in ms :
      \/ outside[inflight[i].to] # {}
      \/ \E d \in InTables(held, tables) \union {inflight[j].right : j \in ms} :
           Object(d) = inflight[i].to}
KernelHeld ==
  InTables(held, tables) \union {inflight[i].right : i \in KernelMessages}

\* The journal says what the kernel does: after every call an access was
\* released exactly once when neither a process, a queue that can still be read
\* nor a holder outside the tree refers to it, and not at all otherwise; and
\* the descriptions the observer retains are those the kernel still has.
ReleasedAsHeld ==
  phase = "record" =>
    /\ References(held, tables, messages) = KernelHeld
    /\ \A o \in Objects, a \in {1, 2} :
         journal[<<o, a>>] =
           IF /\ a \in Mask(Descriptions, o)
              /\ a \notin Mask(KernelHeld, o)
              /\ a \notin outside[o] \/ (o = "pipe" /\ file)
           THEN 1 ELSE 0
=============================================================================
