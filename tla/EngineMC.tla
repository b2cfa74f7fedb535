------------------------------- MODULE EngineMC -------------------------------
(*****************************************************************************)
(* The parts of the engine and of its prediction sources that PlanRuntime,   *)
(* EffectTransaction, LifecycleLane and ActorAdoption are not about, each on *)
(* a small instance of its own.  A behaviour is about one of them (`part`):  *)
(* the plan graph, the captures, the requests of a source and what is        *)
(* dispatched (scheduler, worlds, queues) with the variables of their        *)
(* modules, the others in turn in s1, s2, ....                               *)
(*****************************************************************************)
EXTENDS PlanGraph, AuthoritativeCapture, SourceRequests, ExecutionWorlds

CONSTANTS planP, planQ, x, y, i, j, a, b, NoKey

Offer(plan, action, input, needs) ==
  [plan |-> plan, action |-> action, input |-> input, horizon |-> 0,
   needs |-> {[plan |-> n[1], action |-> n[2], when |-> "settled"] : n \in needs}]

\* Roots that may change, edges both ways between x and y of a plan and across
\* the plans: every cycle of four nodes can be offered, one edge at a time.
Tangle ==
  {Offer(planP, x, i, {}), Offer(planP, x, j, {}), Offer(planP, x, i, {<<planP, y>>}), Offer(planP, x, i, {<<planQ, y>>}),
   Offer(planP, y, i, {}), Offer(planP, y, i, {<<planP, x>>}),
   Offer(planQ, x, i, {}), Offer(planQ, x, i, {<<planP, y>>}), Offer(planQ, y, i, {<<planQ, x>>}), Offer(planQ, y, i, {<<planP, x>>})}

\* The router's order: a world of the session and one to fall back on.
SessionWorlds == <<"vm">>
HostWorlds == <<"local">>

VARIABLES
  part,  \* the part this behaviour is about
  s1, s2, s3, s4, s5, s6, s7, s8, s9, s10, s11, s12  \* its state

\* Three requests of two tasks; two drafts of one batch and two calls.
Draft == INSTANCE Drafter WITH
  task <- s1, finished <- s2, state <- s3, req <- s4, batch <- s1, member <- s2, call <- s3,
  cont <- s4, request <- s5, Requests <- {1, 2, 3}, Tasks <- {1, 2}, MaxRequests <- 2,
  MaxTokens <- 5, Window <- 4, Prompts <- {1, 2}, Outputs <- {1, 3}, Members <- {1, 2},
  Calls <- {1, 2}, Scopes <- {{1, 2}}, Keys <- {a, b}, Attempts <- {1, 2},
  Triggers <- {"succeeded", "adopted"}, None <- NoKey
\* Two turns, of which the second may reuse what the first is still producing.
Self == INSTANCE SelfSpeculation WITH
  transport <- s1, turn <- s2, active <- s3, state <- s4, fork <- s5, kept <- s6, latest <- s7,
  accepting <- s8, serves <- s9, proposer <- s10, posts <- s11, faults <- s12, Turns <- {1, 2},
  Keys <- {"k"}, Decisions <- {1}, MaxAttempts <- 2, Step <- 2, Boundary <- 1, MaxChunks <- 1,
  MaxFaults <- 1
\* Three pools with a pattern or two each, two of which share a control.
Miner == INSTANCE PatternMining WITH
  clock <- s1, step <- s2, todo <- s3, pool <- s4, control <- s5, pattern <- s6, pending <- s7,
  history <- s1, whole <- s2, matched <- s3, learned <- s4, samples <- s1, field <- s2,
  bindings <- s3, Pools <- {1, 2, 3}, Controls <- {"a", "b"}, Patterns <- 1..4,
  Kinds <- {"x", "y"}, ControlOf <- <<"a", "a", "b">>, PatternsOf <- <<{1}, {2, 3}, {4}>>,
  Covers <- <<{"x"}, {"x", "y"}, {"y"}, {"x"}>>, SampleLimit <- 2, MinOccurrences <- 2,
  MaxPools <- 2, MaxPatterns <- 2, MaxPending <- 2, MaxGap <- 1, MaxBatches <- 2,
  MaxContextLength <- 2, MaxFutureGap <- 1, MaxWidth <- 3, HistoryBatches <- 7, Paths <- {a, b},
  Lines <- {1, 2}, MaxLocations <- 2, SampleCount <- 2, ConstantSupport <- 2

\* The variables of the modules that have their own.
dispatchVars == <<schedVars, feedVars, worldsVars>>
engineVars == <<graphVars, captureVars, sourceVars, dispatchVars>>
pool == <<s1, s2, s3, s4, s5, s6, s7, s8, s9, s10, s11, s12>>
suiteVars == <<part, pool, engineVars>>
\* State variables a part does not use.
Unused8 == s8 = 0 /\ s9 = 0 /\ s10 = 0 /\ s11 = 0 /\ s12 = 0
Unused7 == s7 = 0 /\ Unused8
Unused6 == s6 = 0 /\ Unused7
Unused5 == s5 = 0 /\ Unused6
Unused4 == s4 = 0 /\ Unused5
Unused1 == s1 = 0 /\ s2 = 0 /\ s3 = 0 /\ Unused4

\* The others keep the state they start in.
SuiteInit ==
  /\ GraphInit
  /\ CaptureInit
  /\ SourceInit
  /\ SchedInit /\ FeedInit /\ WorldsInit
  /\ \/ part \in {"graph", "capture", "sources", "scheduling", "feedback", "worlds"} /\ Unused1
     \/ part = "budget" /\ Draft!BudgetInit /\ Unused5
     \/ part = "rollout" /\ Draft!RolloutInit /\ Unused6
     \/ part = "self" /\ Self!SpecInit
     \/ part = "store" /\ Miner!PatternInit /\ Unused8
     \/ part = "contexts" /\ Miner!ContextInit /\ Unused5
     \/ part = "bindings" /\ Miner!BindingInit /\ Unused4

SuiteNext ==
  \/ part = "graph" /\ GraphNext /\ UNCHANGED <<part, pool, captureVars, sourceVars, dispatchVars>>
  \/ part = "capture" /\ CaptureNext /\ UNCHANGED <<part, pool, graphVars, sourceVars, dispatchVars>>
  \/ part = "sources" /\ SourceNext /\ UNCHANGED <<part, pool, graphVars, captureVars, dispatchVars>>
  \/ part = "scheduling" /\ SchedNext /\ UNCHANGED <<part, pool, graphVars, captureVars, sourceVars, feedVars, worldsVars>>
  \/ part = "feedback" /\ FeedNext /\ UNCHANGED <<part, pool, graphVars, captureVars, sourceVars, schedVars, worldsVars>>
  \/ part = "worlds" /\ WorldsNext /\ UNCHANGED <<part, pool, graphVars, captureVars, sourceVars, schedVars, feedVars>>
  \/ part = "budget" /\ Draft!BudgetNext /\ UNCHANGED <<part, engineVars, s5, s6, s7, s8, s9, s10, s11, s12>>
  \/ part = "rollout" /\ Draft!RolloutNext /\ UNCHANGED <<part, engineVars, s6, s7, s8, s9, s10, s11, s12>>
  \/ part = "self" /\ Self!SpecNext /\ UNCHANGED <<part, engineVars>>
  \/ part = "store" /\ Miner!PatternNext /\ UNCHANGED <<part, engineVars, s8, s9, s10, s11, s12>>
  \/ part = "contexts" /\ Miner!ObserveBatch /\ UNCHANGED <<part, engineVars, s5, s6, s7, s8, s9, s10, s11, s12>>
  \/ part = "bindings" /\ Miner!BindingNext /\ UNCHANGED <<part, engineVars, s4, s5, s6, s7, s8, s9, s10, s11, s12>>

SuiteSpec == SuiteInit /\ [][SuiteNext]_suiteVars
-------------------------------------------------------------------------------
\* Scheduling: an Actor call that starts has the units it needs or nothing is left to cancel, and
\* no work is cancelled for units that are not missing.
CancelsWhatItMust == [][ActorRelievedStep /\ NoOverkillStep]_schedVars

\* Drafter: what a task is charged, with what is reserved for it, stays within the policy; a draft
\* that leaves does not take its batch from the others, and no continuation rests on what was
\* contradicted.  SelfSpeculation: a request that was handed over is sent, and reported once.
DraftsSafe ==
  /\ part = "budget" => Draft!WithinPolicy
  /\ part = "rollout" => Draft!PeersKeepBatch /\ Draft!NothingContradicted
  /\ part = "self" => Self!RequestsKept

\* PatternMining: the counts kept by increments are those of the samples, and a pattern rests on
\* samples its bindings reproduce; what was learned under a context is found again under it, and a
\* trimmed history yields the same contexts; what inference replayed is what is applied, and the
\* parts of one location come from one result.
PatternsSafe ==
  /\ part = "store" => Miner!CountsMatchSamples /\ Miner!Grounded
  /\ part = "contexts" => Miner!LearnedContextsMatch /\ Miner!TrimmingLosesNothing
  /\ part = "bindings" => Miner!ReplayedIsApplied /\ Miner!LocationsStayTogether
===============================================================================
