--------------------------- MODULE FeedbackQueues ---------------------------
(***************************************************************************)
(* What the runtime tells its sources after the fact, and in which order   *)
(* (src/post-settlement.ts, and predictionSettled, queueActorSettlement    *)
(* and the closing of a session in src/runtime-engine.ts).                 *)
(*                                                                         *)
(* Effects are delivered one at a time outside the Actor's settlement.  A  *)
(* prediction that has settled still waits, where it produced something,   *)
(* for the receipts of the calls then open: what they consumed says        *)
(* whether it served.                                                      *)
(***************************************************************************)
EXTENDS Naturals, FiniteSets, SequencesExt

CONSTANTS
  ToldCalls,    \* Actor calls
  Predictions,  \* predictions with a context
  Producers,    \* the physical producers of their work
  EventCapacity \* optional events that may be pending

VARIABLES
  receipt,    \* receipt[c]: [stage, reused]; stage: "none", "open", "settled", "failed"
  pred,       \* pred[p]: [stage, producers, served, asked]; stage: "open", "waiting", "decided", "queued"
  pending,    \* effects not yet delivered, in order, with those under delivery
  delivering, \* effects under delivery
  published,  \* effects whose subscribers have been told
  events,     \* pending optional events
  closing     \* "open", "closing" (the last turn is over), "closed"

feedVars == <<receipt, pred, pending, delivering, published, events, closing>>

FeedInit ==
  /\ receipt = [c \in ToldCalls |-> [stage |-> "none", reused |-> {}]]
  /\ pred = [p \in Predictions |-> [stage |-> "open", producers |-> {}, served |-> FALSE, asked |-> {}]]
  /\ pending = <<>> /\ delivering = {} /\ published = <<>> /\ events = 0 /\ closing = "open"

Settled(c) == <<"settled", c>>
Feedback(p, served) == <<"feedback", p, served>>
OpenCalls == {c \in ToldCalls : receipt[c].stage = "open"}
-----------------------------------------------------------------------------
(* BoundedEventQueue *)

\* Mutant: every effect enqueued starts a drain.
BegunAlways(tasks) == delivering \cup {tasks[i] : i \in 1..Len(tasks)}
\* enqueue: what comes while a drain is under way is left to it.
Begun(tasks) == IF pending = <<>> THEN {tasks[i] : i \in 1..Len(tasks)} ELSE delivering
Enqueue(task) == pending' = Append(pending, task) /\ delivering' = Begun(<<task>>)

\* An effect has been delivered, or failed, which changes nothing: the drain goes on to the
\* next.  Some lead to an optional event, which is dropped when too many are pending.
Deliver(task) ==
  /\ task \in delivering
  /\ \E i \in DOMAIN pending : pending[i] = task /\ pending' = RemoveAt(pending, i)
  /\ delivering' = (delivering \ {task}) \cup (IF pending' = <<>> THEN {} ELSE {Head(pending')})
  /\ published' = Append(published, task)
  /\ events' = IF task[1] = "settled" /\ events < EventCapacity /\ closing # "closed" THEN events + 1 ELSE events
  /\ UNCHANGED <<receipt, pred, closing>>

DeliverEvent == events > 0 /\ events' = events - 1 /\ UNCHANGED <<receipt, pred, pending, delivering, published, closing>>
-----------------------------------------------------------------------------
(* Calls and predictions *)

Issue(c) ==
  /\ receipt[c].stage = "none" /\ closing = "open"
  /\ receipt' = [receipt EXCEPT ![c].stage = "open"]
  /\ UNCHANGED <<pred, pending, delivering, published, events, closing>>

\* attachNode: the prediction gains a physical producer.
Attach(p) ==
  /\ pred[p].stage = "open" /\ closing = "open"
  /\ \E x \in Producers : pred' = [pred EXCEPT ![p].producers = @ \cup {x}]
  /\ UNCHANGED <<receipt, pending, delivering, published, events, closing>>

\* One of the calls it waits for consumed its work, or none is left that could.
Decided(p, open) == pred[p].asked \cap open = {}

\* The receipt of the calls of S: contexts that are still open remember it, those waiting
\* for them look at it.
Receipts(S, reused) ==
  pred' = [p \in Predictions |->
     LET hit == reused \cap pred[p].producers # {}
     IN IF pred[p].stage = "open" THEN [pred[p] EXCEPT !.served = @ \/ hit]
        ELSE IF pred[p].stage = "waiting" /\ S \cap pred[p].asked # {}
          THEN [pred[p] EXCEPT !.served = hit, !.stage = IF hit THEN "decided" ELSE IF Decided(p, OpenCalls \ S) THEN "decided" ELSE @]
        ELSE pred[p]]

\* queueActorSettlement: the receipt, then the settlement, in one step.
SettleCall(c) ==
  /\ receipt[c].stage = "open"
  /\ \E reused \in SUBSET Producers :
       receipt' = [receipt EXCEPT ![c] = [stage |-> "settled", reused |-> reused]] /\ Receipts({c}, reused)
  /\ Enqueue(Settled(c))
  /\ UNCHANGED <<published, events, closing>>

\* A call that never settles (a poisoned commit, the end of its turn) issues an empty receipt.
Unsettled(S) ==
  /\ receipt' = [c \in ToldCalls |-> IF c \in S THEN [stage |-> "failed", reused |-> {}] ELSE receipt[c]]
  /\ Receipts(S, {})
FailCall(c) ==
  /\ c \in OpenCalls /\ Unsettled({c}) /\ UNCHANGED <<pending, delivering, published, events, closing>>

\* predictionSettled: asked of the calls that are open now.
SettlePrediction(p) ==
  /\ pred[p].stage = "open"
  /\ LET asked == IF pred[p].served \/ pred[p].producers = {} THEN {} ELSE OpenCalls
     IN pred' = [pred EXCEPT ![p].asked = asked, ![p].stage = IF asked = {} THEN "decided" ELSE "waiting"]
  /\ UNCHANGED <<receipt, pending, delivering, published, events, closing>>

\* deliver(served)
FeedBack(p) ==
  /\ pred[p].stage = "decided" /\ pred' = [pred EXCEPT ![p].stage = "queued"]
  /\ Enqueue(Feedback(p, pred[p].served)) /\ UNCHANGED <<receipt, published, events, closing>>

\* closeSessionState: every prediction is settled before the turns end and their calls with them.
CloseTurns ==
  /\ closing = "open" /\ \A p \in Predictions : pred[p].stage # "open"
  /\ closing' = "closing" /\ Unsettled(OpenCalls) /\ UNCHANGED <<pending, delivering, published, events>>

\* effects.close after the last flush: what a receipt decided has been enqueued by then.
AllTold == pending = <<>> /\ \A p \in Predictions : pred[p].stage = "queued"
CloseEffects ==
  /\ closing = "closing" /\ AllTold
  /\ closing' = "closed" /\ events' = 0 /\ UNCHANGED <<receipt, pred, pending, delivering, published>>

FeedNext ==
  \/ \E c \in ToldCalls : Issue(c) \/ SettleCall(c) \/ FailCall(c)
  \/ \E p \in Predictions : Attach(p) \/ SettlePrediction(p) \/ FeedBack(p)
  \/ \E task \in delivering : Deliver(task)
  \/ DeliverEvent \/ CloseTurns \/ CloseEffects

FeedSpec == FeedInit /\ [][FeedNext]_feedVars
-----------------------------------------------------------------------------
\* A source learns what really happened: a prediction is reported as served exactly when
\* a call that ran beside it consumed what it produced, and not before the last of the
\* calls that could have has said so (predictionSettled).
LearnsTruth ==
  \A i \in 1..Len(published) : published[i][1] = "feedback" =>
    LET p == published[i][2]  consumes(c) == receipt[c].reused \cap pred[p].producers # {}
    IN IF published[i][3] THEN \E c \in ToldCalls : consumes(c)
       ELSE \A c \in pred[p].asked : receipt[c].stage # "open" /\ ~consumes(c)

\* Learning is ordered: no effect is told twice or beside another, calls in the order they
\* settled, and a prediction's use after the call that used it (PostSettlementQueue).
ToldInOrder ==
  /\ \A i, j \in 1..Len(published) : i # j => published[i] # published[j]
  /\ Cardinality(delivering) <= 1
  /\ \A i \in 1..Len(published) : published[i][1] = "feedback" /\ published[i][3] =>
       \E j \in 1..(i - 1) : published[j][1] = "settled" /\ receipt[published[j][2]].reused \cap pred[published[i][2]].producers # {}

\* Learning is lossless: when a session is closed every settled call and every prediction
\* has been told of (closeSessionState, effects.close).
LearningLossless ==
  closing = "closed" =>
    /\ \A c \in ToldCalls : receipt[c].stage = "settled" => \E i \in 1..Len(published) : published[i] = Settled(c)
    /\ \A p \in Predictions : \E i \in 1..Len(published) : published[i] = Feedback(p, pred[p].served)
=============================================================================
