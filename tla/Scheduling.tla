----------------------------- MODULE Scheduling -----------------------------
(***************************************************************************)
(* The physical ledger: which prepared work runs, and what gives way to    *)
(* the Actor (src/scheduler.ts, and the engine's launches in               *)
(* src/runtime-engine.ts).                                                 *)
(*                                                                         *)
(* A job occupies its hardware from its admission until its execution has  *)
(* physically ended; cancelling it returns nothing before that.  Actor     *)
(* calls are entered whatever they take.  One session and one resource     *)
(* dimension are modelled; what the failure circuit or the launch window   *)
(* holds back stays queued.                                                *)
(***************************************************************************)
EXTENDS Naturals, FiniteSets, FiniteSetsExt, Functions, SequencesExt

CONSTANTS
  Work, HostCalls,   \* candidates or preparations, and Actor calls (numbers)
  MachineUnits,  \* the machine's units
  Sizes, Ranks,  \* bounds: units a job takes, and its place in the scheduler's order (lower first)
  MaxSamples     \* bound: resource samples taken

ASSUME SchedulerSetting == IsFiniteSet(Work) /\ IsFiniteSet(HostCalls) /\ MaxSamples \in Nat

VARIABLES
  job,        \* job[j]: [stage, size, rank, demand]; stage: "none", "queued", "running", "draining", "gone"
  admission,  \* units the last sample lets prepared work take
  launch,     \* pendingLaunch: a batch is to be launched
  wake,       \* wakeResourceWaiters is queued behind an Actor's settlement
  timer,      \* "none", "armed", "sampling"
  samples     \* resource samples taken

schedVars == <<job, admission, launch, wake, timer, samples>>

Jobs == Work \cup HostCalls
NoJob == [stage |-> "none", size |-> 0, rank |-> 0, demand |-> FALSE]

SchedInit ==
  /\ job = [j \in Jobs |-> NoJob] /\ admission = MachineUnits
  /\ launch = FALSE /\ wake = FALSE /\ timer = "none" /\ samples = 0

JobsAt(v, stage) == {j \in Jobs : v[j].stage = stage}
Ledger(v) == JobsAt(v, "running") \cup JobsAt(v, "draining")
Units(v, S) == MapThenSumSet(LAMBDA j : v[j].size, S)

\* needsResourceSamples
Needed(v) == JobsAt(v, "queued") \cup Ledger(v) # {}
\* watch: one timer or one sample at a time.
Watch(v) == IF timer = "none" /\ Needed(v) /\ samples < MaxSamples THEN "armed" ELSE timer
-----------------------------------------------------------------------------
(* preemptFor: the weakest first, until what remains fits *)

Protected(v, j) == j \in HostCalls \/ v[j].demand
Weaker(v, rank, actor) == {j \in JobsAt(v, "running") : ~Protected(v, j) /\ (actor \/ rank < v[j].rank)}
Weakest(v, S) == CHOOSE j \in S : \A k \in S : v[k].rank < v[j].rank \/ (v[k].rank = v[j].rank /\ k <= j)

\* Draining work is left out only here: its units are on their way back.
Remaining(v) == JobsAt(v, "running")

\* Mutant: one victim is taken however much is missing.
VictimsOne(v, size, room, eligible) ==
  IF eligible # {} /\ Units(v, Remaining(v)) + size > room THEN {Weakest(v, eligible)} ELSE {}
Victims(v, size, room, eligible) ==
  LET take[n \in 0..Cardinality(eligible)] ==
        IF n = 0 THEN {}
        ELSE LET taken == take[n - 1]
             IN IF Units(v, Remaining(v) \ taken) + size > room /\ eligible # taken
                  THEN taken \cup {Weakest(v, eligible \ taken)} ELSE taken
  IN take[Cardinality(eligible)]

\* cancelScheduled: a cancelled job keeps its units until it has ended.
Cancelled(v, S) == [j \in Jobs |-> IF j \in S THEN [v[j] EXCEPT !.stage = "draining"] ELSE v[j]]
ForActor(v, size) == Cancelled(v, Victims(v, size, MachineUnits, Weaker(v, 0, TRUE)))
RunsNow(v, j) == [v EXCEPT ![j].stage = "running"]

\* admit, and on a full ledger preemptFor, of one queued job.
Tried(v, j) ==
  IF v[j].demand THEN RunsNow(ForActor(v, v[j].size), j)
  ELSE IF Units(v, Ledger(v)) + v[j].size <= admission THEN RunsNow(v, j)
  ELSE IF v[j].size > admission THEN v
  ELSE Cancelled(v, Victims(v, v[j].size, admission, Weaker(v, v[j].rank, FALSE)))

\* launchCandidateBatch: the queue in the scheduler's order.
InOrder(v, S) == SetToSortSeq(S, LAMBDA j, k :
  IF v[j].demand # v[k].demand THEN v[j].demand ELSE v[j].rank < v[k].rank \/ (v[j].rank = v[k].rank /\ j < k))
Batch(v, S) ==
  LET order == InOrder(v, S)
      after[n \in 0..Cardinality(S)] == IF n = 0 THEN v ELSE Tried(after[n - 1], order[n])
  IN after[Cardinality(S)]
-----------------------------------------------------------------------------
\* A candidate is registered, or a preparation: coalesced behind the current events.
Queue(j) ==
  /\ job[j].stage = "none" /\ \A k \in Work : k < j => job[k].stage # "none"
  /\ \E size \in Sizes, rank \in Ranks :
       job' = [job EXCEPT ![j] = [stage |-> "queued", size |-> size, rank |-> rank, demand |-> FALSE]]
  /\ launch' = TRUE /\ timer' = Watch(job')
  /\ UNCHANGED <<admission, wake, samples>>

LaunchBatch ==
  /\ launch /\ launch' = FALSE
  /\ \E S \in SUBSET JobsAt(job, "queued") : job' = Batch(job, S)
  /\ timer' = Watch(job')
  /\ UNCHANGED <<admission, wake, samples>>

\* The Actor waits for this work: launched at once, whatever it displaces.
Demand(j) ==
  /\ j \in Work /\ job[j].stage \in {"queued", "running"} /\ ~job[j].demand
  /\ LET v == [job EXCEPT ![j].demand = TRUE] IN job' = IF v[j].stage = "queued" THEN Tried(v, j) ELSE v
  /\ timer' = Watch(job')
  /\ UNCHANGED <<admission, launch, wake, samples>>

Withdraw(j) ==
  /\ job[j].demand /\ job' = [job EXCEPT ![j].demand = FALSE]
  /\ UNCHANGED <<admission, launch, wake, timer, samples>>

\* An Actor call falls back to the host: entered in the ledger, then room is made.
Call(a) ==
  /\ job[a].stage = "none"
  /\ \E size \in Sizes :
       job' = ForActor([job EXCEPT ![a] = [stage |-> "running", size |-> size, rank |-> 0, demand |-> FALSE]], 0)
  /\ timer' = Watch(job') /\ UNCHANGED <<admission, launch, wake, samples>>

\* wakeResourceWaiters
Woken(v) == job' = ForActor(v, 0) /\ launch' = (launch \/ JobsAt(v, "queued") # {})
  
\* The physical end of a job: only now its units return.
WorkEnds(j) ==
  /\ j \in Work /\ job[j].stage \in {"running", "draining"}
  /\ Woken([job EXCEPT ![j] = [NoJob EXCEPT !.stage = "gone"]]) /\ timer' = Watch(job')
  /\ UNCHANGED <<admission, wake, samples>>

CallEnds(a) ==
  /\ a \in HostCalls /\ job[a].stage = "running"
  /\ job' = [job EXCEPT ![a] = [NoJob EXCEPT !.stage = "gone"]] /\ wake' = TRUE
  /\ UNCHANGED <<admission, launch, timer, samples>>

Wake ==
  /\ wake /\ wake' = FALSE /\ Woken(job) /\ timer' = Watch(job')
  /\ UNCHANGED <<admission, samples>>

\* The plan or the cache drops queued work.
Drop(j) ==
  /\ job[j].stage = "queued" /\ job' = [job EXCEPT ![j] = [NoJob EXCEPT !.stage = "gone"]]
  /\ UNCHANGED <<admission, launch, wake, timer, samples>>

\* The timer: nothing to sample for, or a sample.
Fire ==
  /\ timer = "armed" /\ timer' = IF Needed(job) THEN "sampling" ELSE "none"
  /\ UNCHANGED <<job, admission, launch, wake, samples>>

Renewed == IF Needed(job') /\ samples' < MaxSamples THEN "armed" ELSE "none"
\* updateResources and changed(), then the watch is renewed.
Sample ==
  /\ timer = "sampling" /\ samples' = samples + 1
  /\ IF Needed(job)
       THEN /\ \E idle \in 0..MachineUnits :
                 LET seen == Units(job, Ledger(job)) + idle IN admission' = IF seen > MachineUnits THEN MachineUnits ELSE seen
            /\ Woken(job)
       ELSE UNCHANGED <<job, admission, launch>>
  /\ timer' = Renewed
  /\ UNCHANGED wake

SchedNext ==
  \/ \E j \in Work : Queue(j) \/ Demand(j) \/ Withdraw(j) \/ WorkEnds(j) \/ Drop(j)
  \/ \E a \in HostCalls : Call(a) \/ CallEnds(a)
  \/ LaunchBatch \/ Wake \/ Fire \/ Sample

SchedSpec == SchedInit /\ [][SchedNext]_schedVars
-----------------------------------------------------------------------------
\* The Actor is not kept waiting by guesses: once a call of its own is entered, prepared
\* work nobody demanded runs on only while it fits beside everything else that runs.
ActorRelievedStep ==
  \A a \in HostCalls : job[a].stage = "none" /\ job'[a].stage = "running" =>
    Units(job', JobsAt(job', "running")) <= MachineUnits \/ \A j \in JobsAt(job', "running") : Protected(job', j)
ActorRelieved == [][ActorRelievedStep]_schedVars

\* Work is cancelled for units that are really missing: with what drains already gone and
\* with the one in front of the queue admitted, the cancelled work did not fit.
NoOverkillStep ==
  LET cut == {j \in JobsAt(job, "running") : job'[j].stage = "draining"}
      kept == JobsAt(job', "running") \ JobsAt(job, "running")
  IN cut # {} => \/ Units(job, JobsAt(job, "running")) + Units(job', kept) > MachineUnits
                 \/ \E q \in JobsAt(job, "queued") : Units(job, JobsAt(job, "running") \cup kept) + job[q].size > admission
NoOverkill == [][NoOverkillStep]_schedVars

\* Queued work is never forgotten: while some waits, a launch, a wake-up or a sample is due.
NothingForgotten ==
  JobsAt(job, "queued") # {} => launch \/ wake \/ timer # "none" \/ samples = MaxSamples
=============================================================================
