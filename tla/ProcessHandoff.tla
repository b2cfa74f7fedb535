---------------------------- MODULE ProcessHandoff ----------------------------
(***************************************************************************)
(* The process handoff (src/process-handoff.ts) in two parts with variables  *)
(* of their own: the registry of one process key, in the thread that owns  *)
(* it, and the shared words by which threads claim one result.  Each part  *)
(* has its own specification.                                              *)
(***************************************************************************)
EXTENDS Integers, FiniteSets, FiniteSetsExt, SequencesExt, Sequences

(***************************************************************************)
(* ProcessHandoffRegistry (src/process-handoff) for one process key:       *)
(* producers reserve a record, publish its result and lend it to the       *)
(* consumers that acquire the key; a one-shot result has one consumer, and *)
(* shares its adoption branches with the branch that encloses it          *)
(* (ProcessHandoffOwnership, here in the registry's own thread;            *)
(* the second part has its words shared by threads).                      *)
(*                                                                         *)
(* Records are numbered in the order they were reserved.  Each result and  *)
(* each binding weighs one byte.  `spent` is a history variable.           *)
(***************************************************************************)

CONSTANTS
  Owners,       \* enclosing branches: each may produce records
  Joiners,      \* consumers without a producer of their own
  MaxRecords,   \* bound: records reserved in all
  MaxCompleted, MaxBytes

\* Finitely many branches and consumers; no branch has the name of none.
ASSUME RegistrySetting ==
  /\ IsFiniteSet(Owners) /\ IsFiniteSet(Joiners) /\ "none" \notin Owners
  /\ MaxRecords \in Nat /\ MaxCompleted \in Nat /\ MaxBytes \in Nat

VARIABLES
  reg,        \* [rec, count, bytes, woken]: executions, completedCount, retainedBytes, whether wake was called
  limit,      \* maxCompleted
  branches,  \* branches[o]: [whole, children, partial]
  cons,       \* cons[c]: an acquire() and what it granted
  spent,      \* the results that were consumed, by the record that made them
  disposed

registryVars == <<reg, limit, branches, cons, spent, disposed>>

Ids == 1..MaxRecords
Consumers == Owners \cup Joiners
Unused == [status |-> "unused", owner |-> "none", oneShot |-> FALSE, result |-> 0, binding |-> FALSE,
           borrowers |-> 0, advance |-> FALSE]
Gone == [Unused EXCEPT !.status = "gone"]
Idle == [pc |-> "idle", changed |-> FALSE, considered |-> {}, history |-> FALSE, at |-> 0, waits |-> {},
         claim |-> "none", result |-> 0]
Answered == [Idle EXCEPT !.pc = "answered"]

RegistryInit ==
  /\ reg = [rec |-> [r \in Ids |-> Unused], count |-> 0, bytes |-> 0, woken |-> FALSE]
  /\ limit = MaxCompleted
  /\ branches = [o \in Owners |-> [whole |-> "free", children |-> 0, partial |-> FALSE]]
  /\ cons = [c \in Consumers |-> Idle]
  /\ spent = {} /\ disposed = FALSE

Weight(b) == IF b THEN 1 ELSE 0
Live(g) == {r \in Ids : g.rec[r].status \notin {"unused", "gone"}}
Finished(g) == {r \in Live(g) : g.rec[r].status # "running"}
Fresh == {r \in Ids : reg.rec[r].status = "unused" /\ \A q \in 1..(r - 1) : reg.rec[q].status # "unused"}
-----------------------------------------------------------------------------
(* The registry's bookkeeping, as functions of reg. *)

Wake(g) == [g EXCEPT !.woken = TRUE]

\* releaseResult
ReleaseResult(g, r) ==
  [g EXCEPT !.bytes = @ - Weight(g.rec[r].result # 0), !.rec[r].status = "retained", !.rec[r].result = 0]

Evict(g, r) ==
  LET released == IF g.rec[r].status = "running" THEN g ELSE ReleaseResult(g, r) IN
  Wake([released EXCEPT !.bytes = @ - Weight(g.rec[r].binding), !.rec[r] = Gone,
                        !.count = IF g.rec[r].status = "running" THEN @ ELSE @ - 1])

\* The records of S leave, the oldest first, while a limit is exceeded.
Over(g, max) == g.count > max \/ g.bytes > MaxBytes
Sweep(g, S, max) ==
  LET after[r \in 0..MaxRecords] ==
        IF r = 0 THEN g
        ELSE IF r \in S /\ Over(after[r - 1], max) THEN Evict(after[r - 1], r) ELSE after[r - 1]
  IN after[MaxRecords]

\* trim spares what is borrowed or running; clearing stops at no limit.
Trim(g, max) == Sweep(g, {r \in Finished(g) : g.rec[r].borrowers <= 0}, max)
NoLimit == -1

\* reserve
Reserved(g, r, o) == [g EXCEPT !.rec[r] = [Unused EXCEPT !.status = "running", !.owner = o]]

\* Mutant: a completion wakes nobody.
CompleteQuiet(g, r, result, oneShot) ==
  LET done == [g EXCEPT !.bytes = @ + Weight(result # 0), !.count = @ + 1, !.rec[r].status = "completed",
                        !.rec[r].result = result, !.rec[r].oneShot = oneShot, !.rec[r].advance = FALSE] IN
  IF result = 0 THEN Evict(done, r) ELSE Trim(done, limit)

\* complete, of a record that is running; 0 is no result.
Complete(g, r, result, oneShot) ==
  LET done == Wake([g EXCEPT !.bytes = @ + Weight(result # 0), !.count = @ + 1, !.rec[r].status = "completed",
                             !.rec[r].result = result, !.rec[r].oneShot = oneShot, !.rec[r].advance = FALSE]) IN
  IF result = 0 THEN Evict(done, r) ELSE Trim(done, limit)

\* Every subscribed lookup learns that the key changed.
Told(g, cs) == [c \in Consumers |-> IF g.woken /\ cs[c].pc \in {"scan", "lookup", "history", "waiting"}
                                    THEN [cs[c] EXCEPT !.changed = TRUE] ELSE cs[c]]
Update(g, cs) == reg' = [g EXCEPT !.woken = FALSE] /\ cons' = Told(g, cs)
-----------------------------------------------------------------------------
(* acquire *)

Accepts(r) == branches[reg.rec[r].owner].whole = "free"

Eligible(c, considered) ==
  {r \in Ids \ considered : reg.rec[r].status = "completed" /\ reg.rec[r].result # 0
                            /\ (reg.rec[r].oneShot => reg.rec[r].owner # c /\ Accepts(r))}

Awaited == {r \in Live(reg) : reg.rec[r].status \in {"running", "reserved"}
                              \/ (reg.rec[r].owner \in Owners /\ branches[reg.rec[r].owner].whole = "pending")}

Acquire(c) ==
  /\ cons[c].pc = "idle" /\ ~disposed
  /\ cons' = [cons EXCEPT ![c].pc = "scan"]
  /\ UNCHANGED <<reg, limit, branches, spent, disposed>>

\* One synchronous pass: a change drops the negative evidence; the newest result not yet
\* considered is looked up, then history once, then a producer works and a joiner waits.
Scan(c) ==
  LET considered == IF cons[c].changed THEN {} ELSE cons[c].considered
      history    == cons[c].history /\ ~cons[c].changed
      found      == Eligible(c, considered) IN
  /\ cons[c].pc = "scan" /\ ~disposed
  /\ IF found # {} THEN
       /\ cons' = [cons EXCEPT ![c] = [@ EXCEPT !.changed = FALSE, !.considered = considered \cup {Max(found)},
                                                !.history = history, !.pc = "lookup", !.at = Max(found)]]
       /\ UNCHANGED reg
     ELSE IF ~history THEN
       /\ cons' = [cons EXCEPT ![c] = [@ EXCEPT !.changed = FALSE, !.considered = considered,
                                                !.history = TRUE, !.pc = "history"]]
       /\ UNCHANGED reg
     ELSE IF c \in Owners THEN
       \E r \in Fresh :
         /\ reg' = Reserved(reg, r, c)
         /\ cons' = [cons EXCEPT ![c] = [Idle EXCEPT !.pc = "working", !.at = r]]
     ELSE
       /\ cons' = [cons EXCEPT ![c] = [@ EXCEPT !.pc = "waiting", !.waits = Awaited]]
       /\ UNCHANGED reg
  /\ UNCHANGED <<limit, branches, spent, disposed>>

\* claim: the child's branches first, then the record; `claim` is the owner whose
\* branches is held.
Claimable(r) ==
  /\ reg.rec[r].status = "completed"
  /\ reg.rec[r].oneShot => branches[reg.rec[r].owner].whole = "free"

Claim(c, r) ==
  LET owner == IF reg.rec[r].oneShot THEN reg.rec[r].owner ELSE "none" IN
  /\ reg' = [reg EXCEPT !.rec[r].borrowers = @ + 1, !.rec[r].status = IF reg.rec[r].oneShot THEN "reserved" ELSE @]
  /\ branches' = [o \in Owners |-> IF o = owner THEN [branches[o] EXCEPT !.children = @ + 1] ELSE branches[o]]
  /\ cons' = [cons EXCEPT ![c] = [Idle EXCEPT !.pc = "hit", !.at = r, !.claim = owner, !.result = reg.rec[r].result]]

\* The lookup was awaited: its plan is granted only if the record is as it was found.
LookedUp(c) ==
  /\ cons[c].pc = "lookup" /\ ~disposed
  /\ \E plan \in BOOLEAN :
       IF plan /\ Claimable(cons[c].at) THEN Claim(c, cons[c].at)
       ELSE cons' = [cons EXCEPT ![c].pc = "scan", ![c].at = 0] /\ UNCHANGED <<reg, branches>>
  /\ UNCHANGED <<limit, spent, disposed>>

\* A certificate of the store answers, or history has none.
HistoryLookedUp(c) ==
  /\ cons[c].pc = "history"
  /\ \E plan \in BOOLEAN : cons' = [cons EXCEPT ![c] = IF plan \/ disposed THEN Answered ELSE [@ EXCEPT !.pc = "scan"]]
  /\ UNCHANGED <<reg, limit, branches, spent, disposed>>

\* A producer's advance declines this join; nothing else can settle without a change.
Declined(c) ==
  /\ cons[c].pc = "waiting" /\ ~cons[c].changed
  /\ \E r \in cons[c].waits :
       /\ reg.rec[r].status = "running" /\ reg.rec[r].advance
       /\ cons' = [cons EXCEPT ![c].waits = @ \ {r}]
  /\ UNCHANGED <<reg, limit, branches, spent, disposed>>

\* A change starts another pass; with nothing left to wait for, the acquisition misses.
Resume(c) ==
  /\ cons[c].pc = "waiting" /\ (cons[c].changed \/ cons[c].waits = {})
  /\ cons' = [cons EXCEPT ![c] = IF cons[c].changed THEN [@ EXCEPT !.pc = "scan", !.waits = {}] ELSE Answered]
  /\ UNCHANGED <<reg, limit, branches, spent, disposed>>

\* The caller's signal, or the registry's end, is seen at the next check.
GiveUp(c) ==
  /\ cons[c].pc \in {"scan", "lookup", "waiting"}
  /\ cons' = [cons EXCEPT ![c] = Answered]
  /\ UNCHANGED <<reg, limit, branches, spent, disposed>>
-----------------------------------------------------------------------------
(* Settling a hit. *)

Unheld(g, r) == [g EXCEPT !.rec[r].borrowers = IF r \in Live(g) THEN @ - 1 ELSE @]

\* The child's branches goes back, marked if its result was consumed.
ReturnAuthority(c, consumed) ==
  /\ branches' = [o \in Owners |-> IF o = cons[c].claim
                     THEN [branches[o] EXCEPT !.children = @ - 1, !.partial = @ \/ consumed] ELSE branches[o]]
  /\ spent' = IF consumed /\ cons[c].claim # "none" THEN spent \cup {cons[c].result} ELSE spent

\* claim's settle(consumed, forward): a consumed one-shot is forwarded to the producer's
\* own record, or released; one not consumed is available again; the key's waiters are
\* told either way.
Settle(c, consumed, forward) ==
  LET r == cons[c].at  g == Unheld(reg, r)  one == cons[c].claim # "none" /\ r \in Live(reg) IN
  /\ cons[c].pc = "hit"
  /\ ReturnAuthority(c, consumed)
  /\ IF one /\ consumed /\ forward /\ c \in Owners THEN
       \E n \in Fresh :
         LET moved == [Reserved(g, n, c) EXCEPT !.rec[n].binding = g.rec[r].binding, !.rec[r].binding = FALSE]
         IN Update(Trim(Wake(Complete(Evict(ReleaseResult(moved, r), r), n, n, TRUE)), limit),
                   [cons EXCEPT ![c] = Answered])
     ELSE Update(Trim(IF ~one THEN g ELSE IF consumed THEN Wake(ReleaseResult(g, r))
                      ELSE Wake([g EXCEPT !.rec[r].status = "completed"]), limit),
                 [cons EXCEPT ![c] = Answered])
  /\ UNCHANGED <<limit, disposed>>
-----------------------------------------------------------------------------
(* Producers, their branches and the registry's owner. *)

\* publish: artifacts are loaded, then the record completes with them, or without.
Publish(c) ==
  LET r == cons[c].at IN
  /\ cons[c].pc = "working"
  /\ IF reg.rec[r].status = "running"
     THEN \E result \in {0, r}, oneShot \in BOOLEAN :
            Update(Complete(reg, r, result, oneShot), [cons EXCEPT ![c] = Answered])
     ELSE cons' = [cons EXCEPT ![c] = Answered] /\ UNCHANGED reg
  /\ UNCHANGED <<limit, branches, spent, disposed>>

\* observeRunning and its withdrawal.
ObserveRunning(r) ==
  /\ reg.rec[r].status = "running"
  /\ Update(Wake([reg EXCEPT !.rec[r].advance = ~@]), cons)
  /\ UNCHANGED <<limit, branches, spent, disposed>>

\* bind: the launch capability of a complete result, within the byte limit.
Bind(r) ==
  /\ reg.rec[r].status \in {"completed", "reserved"} /\ reg.rec[r].result # 0
  /\ ~reg.rec[r].binding /\ MaxBytes > 0
  /\ Update(Trim([reg EXCEPT !.rec[r].binding = TRUE, !.bytes = @ + 1], limit), cons)
  /\ UNCHANGED <<limit, branches, spent, disposed>>

\* observe: a native launch is kept as a binding without a result; learned again, the
\* earlier record keeps it.
Observe ==
  /\ ~disposed /\ MaxBytes > 0
  /\ ~\E r \in Live(reg) : reg.rec[r].status = "retained" /\ reg.rec[r].binding
  /\ \E r \in Fresh :
       Update(Trim([reg EXCEPT !.rec[r] = [Unused EXCEPT !.status = "retained", !.binding = TRUE],
                               !.count = @ + 1, !.bytes = @ + 1], limit), cons)
  /\ UNCHANGED <<limit, branches, spent, disposed>>

\* commit of the enclosing branch: only an untouched word is claimed whole.
CommitBranch(o) ==
  /\ branches[o] = [whole |-> "free", children |-> 0, partial |-> FALSE]
  /\ branches' = [branches EXCEPT ![o].whole = "pending"]
  /\ UNCHANGED <<reg, limit, cons, spent, disposed>>

\* A recoverable failure gives the word back; whoever awaited the branch looks again.
BranchSettled(o) ==
  /\ branches[o].whole = "pending"
  /\ \E outcome \in {"spent", "free"} : branches' = [branches EXCEPT ![o].whole = outcome]
  /\ cons' = [c \in Consumers |-> IF \E r \in cons[c].waits : reg.rec[r].owner = o
                                  THEN [cons[c] EXCEPT !.changed = TRUE] ELSE cons[c]]
  /\ UNCHANGED <<reg, limit, spent, disposed>>

Configure ==
  /\ limit > 0
  /\ limit' = limit - 1 /\ Update(Trim(reg, limit - 1), cons)
  /\ UNCHANGED <<branches, spent, disposed>>

ClearCompleted ==
  /\ Finished(reg) # {}
  /\ Update(Sweep(reg, Finished(reg), NoLimit), cons)
  /\ UNCHANGED <<limit, branches, spent, disposed>>

Dispose ==
  /\ ~disposed /\ disposed' = TRUE
  /\ Update(Wake(Sweep(reg, Live(reg), NoLimit)), cons)
  /\ UNCHANGED <<limit, branches, spent>>

RegistryNext ==
  \/ \E c \in Consumers :
       \/ Acquire(c) \/ Scan(c) \/ LookedUp(c) \/ HistoryLookedUp(c) \/ Declined(c) \/ Resume(c) \/ GiveUp(c)
       \/ \E consumed, forward \in BOOLEAN : Settle(c, consumed, forward)
       \/ Publish(c)
  \/ \E r \in Ids : ObserveRunning(r) \/ Bind(r)
  \/ \E o \in Owners : CommitBranch(o) \/ BranchSettled(o)
  \/ Observe \/ Configure \/ ClearCompleted \/ Dispose

RegistrySpec == RegistryInit /\ [][RegistryNext]_registryVars
-----------------------------------------------------------------------------
\* completedCount and retainedBytes, kept by increments at a dozen places, are what the
\* records of the registry add up to.
Accounted ==
  /\ reg.count = Cardinality(Finished(reg))
  /\ reg.bytes = Cardinality({r \in Live(reg) : reg.rec[r].result # 0}) + Cardinality({r \in Live(reg) : reg.rec[r].binding})

\* A consumer that waits without having been told of a change has nothing it could
\* take: no result completed, came back or was freed by a failing branch behind its back.
NoLostWake ==
  \A c \in Joiners : cons[c].pc = "waiting" /\ ~cons[c].changed =>
    Eligible(c, cons[c].considered) = {}

\* A one-shot result has one holder at most, who keeps its record, and is not
\* consumed twice, nor after the whole branch that contains it was.
Holders(r) == {c \in Consumers : cons[c].pc = "hit" /\ cons[c].at = r}
OneShotOnce ==
  /\ \A r \in Live(reg) : reg.rec[r].status = "reserved" => Cardinality(Holders(r)) = 1 /\ reg.rec[r].result \notin spent
  /\ \A r \in Live(reg) : reg.rec[r].status = "completed" => reg.rec[r].result \notin spent
  /\ \A o \in Owners : branches[o].whole # "free" => branches[o].children = 0 /\ ~branches[o].partial

-------------------------------------------------------------------------------
(***************************************************************************)
(* The shared words of a one-shot process result (src/process-handoff):    *)
(* its owner lends it to workers, a worker may lend it on, the branch that *)
(* encloses it may be committed as a whole, and every thread claims with   *)
(* Atomics, one word at a time.  Each action is one atomic operation; what *)
(* a thread does between two of them is not interrupted by that thread's   *)
(* other handlers.                                                         *)
(*                                                                         *)
(* `authority` is ProcessHandoffOwnership's word (BRANCH), `reservation`   *)
(* the claimState all aliases share (CLAIM), receipt[b] the word of the    *)
(* loan to b (LOAN).                                                       *)
(***************************************************************************)

CONSTANTS
  Owner, Borrowers,
  Lender,      \* Lender[b]: who lends to b
  MaxClaims    \* bound: how often one thread claims

Threads == Borrowers \cup {Owner}

\* Finitely many workers, each of whom borrows from a thread.
ASSUME AuthoritySetting ==
  IsFiniteSet(Borrowers) /\ Lender \in [Borrowers -> Threads] /\ MaxClaims \in Nat

\* What the owner lends may be lent on, but never back to where it came from.
ASSUME LendingSetting ==
  /\ Owner \notin Borrowers
  /\ \E depth \in [Threads -> 0..Cardinality(Borrowers)] : \A b \in Borrowers : depth[Lender[b]] < depth[b]

VARIABLES
  authority,    \* [whole, partial, child]
  reservation,  \* "available", "reserved", "consumed"
  receipt,      \* receipt[b]: [lent, closed, consumed, readers, settled]
  result,       \* result[x]: does x's record still have the result
  claim,        \* claim[x]: the claim under way: pc, seen, i, left, reserved, consumed, tries
  took,         \* history: who consumed the result
  whole         \* the enclosing branch: "none", "applying", "applied"

authorityVars == <<authority, reservation, receipt, result, claim, took, whole>>

Zero == [whole |-> FALSE, partial |-> FALSE, child |-> 0]
NoClaim == [pc |-> "idle", seen |-> Zero, i |-> 0, left |-> 0, reserved |-> FALSE, consumed |-> FALSE, tries |-> 0]

AuthorityInit ==
  /\ authority = Zero /\ reservation = "available"
  /\ receipt = [b \in Borrowers |-> [lent |-> FALSE, closed |-> FALSE, consumed |-> FALSE, readers |-> 0, settled |-> FALSE]]
  /\ result = [x \in Threads |-> x = Owner]
  /\ claim = [x \in Threads |-> NoClaim]
  /\ took = {} /\ whole = "none"

\* receipts of a record: every loan in its ancestry, the oldest first.
Chain[x \in Threads] == IF x = Owner THEN <<>> ELSE Append(Chain[Lender[x]], x)

Free(x) == claim[x].pc \in {"idle", "held"}
At(x, pc) == claim[x].pc = pc
-----------------------------------------------------------------------------
(* claim and claimChild. *)

\* The receipts and the authority are read; a closed loan or a whole claim ends it.
Load(x) ==
  /\ At(x, "idle") \/ At(x, "again")
  /\ result[x] /\ (At(x, "idle") => claim[x].tries < MaxClaims)
  /\ claim' = [claim EXCEPT ![x] =
       IF (\E b \in ToSet(Chain[x]) : receipt[b].closed) \/ authority.whole
       THEN [NoClaim EXCEPT !.tries = MaxClaims]
       ELSE [claim[x] EXCEPT !.pc = "child", !.seen = authority,
                              !.tries = IF At(x, "idle") THEN claim[x].tries + 1 ELSE claim[x].tries]]
  /\ UNCHANGED <<authority, reservation, receipt, result, took, whole>>

\* Mutant: the child is added to whatever the word has become.
ClaimChildBlind(x) ==
  /\ At(x, "child")
  /\ authority' = [authority EXCEPT !.child = @ + 1] /\ claim' = [claim EXCEPT ![x].pc = "reserve"]
  /\ UNCHANGED <<reservation, receipt, result, took, whole>>

\* compareExchange(authority, state, state + child); a lost race reads it again.
ClaimChild(x) ==
  /\ At(x, "child")
  /\ IF authority = claim[x].seen
     THEN authority' = [authority EXCEPT !.child = @ + 1] /\ claim' = [claim EXCEPT ![x].pc = "reserve"]
     ELSE claim' = [claim EXCEPT ![x].pc = "again"] /\ UNCHANGED authority
  /\ UNCHANGED <<reservation, receipt, result, took, whole>>

Reserve(x) ==
  /\ At(x, "reserve")
  /\ IF reservation = "available"
     THEN reservation' = "reserved" /\ claim' = [claim EXCEPT ![x].pc = "register", ![x].i = 1, ![x].reserved = TRUE]
     ELSE claim' = [claim EXCEPT ![x].pc = "return"] /\ UNCHANGED reservation
  /\ UNCHANGED <<authority, receipt, result, took, whole>>

\* A reader is added to each receipt in turn; one that was closed before ends the claim.
Register(x) ==
  /\ At(x, "register")
  /\ IF claim[x].i > Len(Chain[x]) THEN claim' = [claim EXCEPT ![x].pc = "held", ![x].i = @ - 1] /\ UNCHANGED receipt
     ELSE LET b == Chain[x][claim[x].i] IN
          /\ receipt' = [receipt EXCEPT ![b].readers = @ + 1]
          /\ claim' = [claim EXCEPT ![x] = IF receipt[b].closed THEN [claim[x] EXCEPT !.pc = "return"]
                                            ELSE [claim[x] EXCEPT !.i = claim[x].i + 1]]
  /\ UNCHANGED <<authority, reservation, result, took, whole>>
-----------------------------------------------------------------------------
(* settle *)

Decide(x) ==
  /\ At(x, "held")
  /\ \E consumed \in BOOLEAN :
       /\ claim' = [claim EXCEPT ![x].pc = IF consumed THEN "partial" ELSE "return", ![x].consumed = consumed]
       /\ took' = IF consumed THEN took \cup {x} ELSE took
  /\ UNCHANGED <<authority, reservation, receipt, result, whole>>

MarkPartial(x) ==
  /\ At(x, "partial")
  /\ authority' = [authority EXCEPT !.partial = TRUE] /\ claim' = [claim EXCEPT ![x].pc = "return"]
  /\ UNCHANGED <<reservation, receipt, result, took, whole>>

ReturnChild(x) ==
  /\ At(x, "return")
  /\ authority' = [authority EXCEPT !.child = @ - 1]
  /\ claim' = [claim EXCEPT ![x] = IF ~@.reserved THEN [NoClaim EXCEPT !.tries = claim[x].tries]
                                   ELSE [@ EXCEPT !.pc = IF claim[x].consumed THEN "flag" ELSE "leave"]]
  /\ UNCHANGED <<reservation, receipt, result, took, whole>>

\* or(receipt, consumed), for every receipt that is not marked yet.
Flag(x) ==
  /\ At(x, "flag")
  /\ LET next == SelectInSeq(Chain[x], LAMBDA b : ~receipt[b].consumed) IN
     IF next = 0 THEN claim' = [claim EXCEPT ![x].pc = "leave"] /\ UNCHANGED receipt
     ELSE receipt' = [receipt EXCEPT ![Chain[x][next]].consumed = TRUE] /\ UNCHANGED claim
  /\ UNCHANGED <<authority, reservation, result, took, whole>>

\* sub(receipt, reader), one at a time; then the reservation is consumed or free again,
\* and the record of this thread has lost the result or not.
Leave(x) ==
  /\ At(x, "leave")
  /\ IF claim[x].left < claim[x].i
     THEN /\ receipt' = [receipt EXCEPT ![Chain[x][claim[x].left + 1]].readers = @ - 1]
          /\ claim' = [claim EXCEPT ![x].left = @ + 1]
          /\ UNCHANGED <<reservation, result>>
     ELSE /\ reservation' = IF claim[x].consumed THEN "consumed" ELSE IF reservation = "reserved" THEN "available" ELSE reservation
          /\ result' = [result EXCEPT ![x] = @ /\ ~claim[x].consumed]
          /\ claim' = [claim EXCEPT ![x] = [NoClaim EXCEPT !.tries = claim[x].tries]]
          /\ UNCHANGED receipt
  /\ UNCHANGED <<authority, took, whole>>
-----------------------------------------------------------------------------
(* The enclosing branch and the loans. *)

\* commit: compareExchange(authority, 0, whole).
CommitWhole ==
  /\ Free(Owner) /\ whole = "none" /\ authority = Zero
  /\ authority' = [Zero EXCEPT !.whole = TRUE] /\ whole' = "applying"
  /\ UNCHANGED <<reservation, receipt, result, claim, took>>

\* It is applied, or a recoverable failure stores 0.
WholeSettled ==
  /\ Free(Owner) /\ whole = "applying"
  /\ \/ whole' = "applied" /\ UNCHANGED authority
     \/ whole' = "none" /\ authority' = Zero
  /\ UNCHANGED <<reservation, receipt, result, claim, took>>

\* offer: a completed result whose receipts are open and whose branch is not whole.
Lend(b) ==
  LET l == Lender[b] IN
  /\ At(l, "idle") /\ result[l] /\ ~receipt[b].lent /\ ~authority.whole
  /\ \A a \in ToSet(Chain[l]) : ~receipt[a].closed
  /\ receipt' = [receipt EXCEPT ![b].lent = TRUE] /\ result' = [result EXCEPT ![b] = TRUE]
  /\ UNCHANGED <<authority, reservation, claim, took, whole>>

\* lend's settle: the word is closed and what it held before, a reader or a consumer,
\* costs the lender its result; releasing it closes the lender's other loans.
CloseLoan(b) ==
  LET l == Lender[b]  lost == receipt[b].consumed \/ receipt[b].readers > 0 IN
  /\ Free(l) /\ receipt[b].lent /\ ~receipt[b].settled
  /\ receipt' = [a \in Borrowers |->
       [receipt[a] EXCEPT !.closed = @ \/ a = b \/ (lost /\ receipt[a].lent /\ Lender[a] = l), !.settled = @ \/ a = b]]
  /\ result' = [result EXCEPT ![l] = @ /\ ~lost]
  /\ UNCHANGED <<authority, reservation, claim, took, whole>>

AuthorityNext ==
  \/ \E x \in Threads :
       \/ Load(x) \/ ClaimChild(x) \/ Reserve(x) \/ Register(x) \/ Decide(x)
       \/ MarkPartial(x) \/ ReturnChild(x) \/ Flag(x) \/ Leave(x)
  \/ \E b \in Borrowers : Lend(b) \/ CloseLoan(b)
  \/ CommitWhole \/ WholeSettled

AuthoritySpec == AuthorityInit /\ [][AuthorityNext]_authorityVars
-----------------------------------------------------------------------------
\* A one-shot result is held by one thread at a time and consumed once, and it is never
\* both consumed by itself and applied with the whole branch around it.
AdoptedOnce ==
  /\ Cardinality({x \in Threads : At(x, "held")}) <= 1
  /\ Cardinality(took) <= 1
  /\ whole # "none" => took = {}

\* Once the owner has taken back every loan it made and still has the result, nobody
\* else can have it or get it: what a loan's reader did is known to the owner.
TakenBack ==
  (\A b \in Borrowers : Lender[b] = Owner => receipt[b].lent /\ receipt[b].settled) /\ result[Owner] =>
    took \subseteq {Owner} /\ \A b \in Borrowers : ~At(b, "held")

\* What holds of the handoff at every moment (ProcessHandoff): every result is accounted for, no
\* waiter is left asleep, a one-shot result is taken once, and a loan that came back is over.
HandoffSafe == Accounted /\ NoLostWake /\ OneShotOnce /\ TakenBack
===============================================================================
