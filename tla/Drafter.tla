------------------------------- MODULE Drafter --------------------------------
(***************************************************************************)
(* The Drafter in two parts with variables of their own: the budget its    *)
(* requests are charged to, and the source of plans that makes them.  Each *)
(* part has its own specification.                                         *)
(***************************************************************************)
EXTENDS Naturals, FiniteSets, FiniteSetsExt

(***************************************************************************)
(* One budget for everything a user's task asks of the Drafter model       *)
(* (src/drafter-budget.ts).  A request reserves its prompt and the most it *)
(* may answer before it is sent; the reservation is settled by the usage   *)
(* reported for it, or stays charged when none is.                         *)
(***************************************************************************)

CONSTANTS
  Requests,      \* requests to the model, in any order
  Tasks,         \* user tasks, 1..n (bound)
  MaxRequests, MaxTokens,  \* drafterTaskMaxRequests, drafterTaskMaxTokens
  Window,        \* the model's context window
  Prompts, Outputs         \* bounds: tokens of a prompt, and of the longest answer asked for

VARIABLES
  task,      \* the task whose counters are charged
  finished,  \* finishTask was called: the next request starts afresh
  state,     \* state[t]: the counters of a task; the requests of an earlier one still hold its own
  req        \* req[r]: [stage, task, hold, cost]; stage: "none", "running", "reported", "unreported", "skipped"

budgetVars == <<task, finished, state, req>>

NoCharges == [requests |-> 0, reported |-> 0, unreported |-> 0, reserved |-> 0]
Idle == [stage |-> "none", task |-> 0, hold |-> 0, cost |-> 0]

BudgetInit == task = 1 /\ finished = FALSE /\ state = [t \in Tasks |-> NoCharges] /\ req = [r \in Requests |-> Idle]

\* available: a finished task is replaced, its counters left to what still runs.
Current == IF finished THEN task + 1 ELSE task
Spent(s) == s.reported + s.unreported + s.reserved
Available(s) == s.requests < MaxRequests /\ Spent(s) < MaxTokens

Least(a, b) == IF a < b THEN a ELSE b
Minus(a, b) == IF a > b THEN a - b ELSE 0
\* What the answer may take, of the model's window and of the budget.
Granted(s, prompt, output) == Least(Least(output, Minus(Window, prompt)), Minus(Minus(MaxTokens, Spent(s)), prompt))

Enter == Current \in Tasks /\ task' = Current /\ finished' = FALSE

Run(r) ==
  /\ req[r].stage = "none" /\ Enter
  /\ \E prompt \in Prompts, output \in Outputs :
       LET s == state[task']  tokens == Granted(s, prompt, output)
       IN IF Available(s) /\ tokens > 0
            THEN /\ req' = [req EXCEPT ![r] = [Idle EXCEPT !.stage = "running", !.task = task', !.hold = prompt + tokens]]
                 /\ state' = [state EXCEPT ![task'] = [@ EXCEPT !.requests = @ + 1, !.reserved = @ + prompt + tokens]]
            ELSE req' = [req EXCEPT ![r].stage = "skipped"] /\ UNCHANGED state

\* The counters the request reserved from.
SettledIn(r) == req[r].task

\* finally: the hold is given back, and charged for good when no usage was reported.
Settle(r, reported, cost) ==
  /\ req[r].stage = "running"
  /\ req' = [req EXCEPT ![r].stage = IF reported THEN "reported" ELSE "unreported", ![r].cost = IF reported THEN cost ELSE @]
  /\ state' = [state EXCEPT ![SettledIn(r)] =
       [@ EXCEPT !.reserved = Minus(@, req[r].hold),
                 !.reported = IF reported THEN @ + cost ELSE @,
                 !.unreported = IF reported THEN @ ELSE @ + req[r].hold]]
  /\ UNCHANGED <<task, finished>>

\* Zero tokens count as a report only of an answer that neither failed nor was aborted.
Complete(r) == \E cost \in 0..req[r].hold : Settle(r, TRUE, cost)
Fail(r) == Settle(r, FALSE, 0)

FinishTask == ~finished /\ task < Cardinality(Tasks) /\ finished' = TRUE /\ UNCHANGED <<task, state, req>>

BudgetNext == FinishTask \/ \E r \in Requests : Run(r) \/ Complete(r) \/ Fail(r)

BudgetSpec == BudgetInit /\ [][BudgetNext]_budgetVars
-----------------------------------------------------------------------------
\* A task never costs more than its policy, however its requests overlap and whenever they
\* end, those of an earlier task included: counted on the requests themselves, at what was
\* reported or else at all they might have taken (DrafterTaskBudget.run, available).
Of(t) == {r \in Requests : req[r].stage \in {"running", "reported", "unreported"} /\ req[r].task = t}
Charge(r) == IF req[r].stage = "reported" THEN req[r].cost ELSE req[r].hold
WithinPolicy ==
  \A t \in Tasks : Cardinality(Of(t)) <= MaxRequests /\ MapThenSumSet(Charge, Of(t)) <= MaxTokens

-------------------------------------------------------------------------------
(***************************************************************************)
(* The Drafter as a source of plans (src/drafter-plan-source.ts): the      *)
(* batch its proposals of one turn share, and the rollouts that continue a *)
(* proposal from observations of its calls, real ones where they are known *)
(* and forecast ones where they are not.                                   *)
(*                                                                         *)
(* One proposal with its calls is rolled out.  A scope is a set of calls   *)
(* whose observations one continuation reads; a request is one attempt at  *)
(* it.  Budget, prompts and the shape of the drafted calls are left out.   *)
(***************************************************************************)

CONSTANTS
  Members,   \* proposals of one turn that share a batch
  Calls,     \* the calls of the proposal that is rolled out
  Scopes,    \* the continuations: sets of calls
  Keys,      \* observation keys a result or a forecast may have
  Attempts,  \* continuation requests, in the order they are made (bound)
  Triggers,  \* of "prepared", "succeeded", "adopted"
  None       \* no observation

VARIABLES
  batch,     \* [ready, borrowers, aborted, closed]
  member,    \* member[p]: "none", "waiting", "drafting", "drafted", "empty"
  call,      \* call[c]: [key, result, triggers]: bound to an action, observed, what was seen of it
  cont,      \* cont[k]: [forecast, current, due]: of scope k
  request    \* request[r]: [scope, stage, aborted, obs]; stage: "none", "forecasting", "drafting", "drafted", "ended"

rolloutVars == <<batch, member, call, cont, request>>
batchVars == <<batch, member>>
contVars == <<call, cont, request>>

Blank == [c \in Calls |-> None]

RolloutInit ==
  /\ batch = [ready |-> "none", borrowers |-> {}, aborted |-> FALSE, closed |-> FALSE]
  /\ member = [p \in Members |-> "none"]
  /\ call = [c \in Calls |-> [key |-> FALSE, result |-> None, triggers |-> {}]]
  /\ cont = [k \in Scopes |-> [forecast |-> Blank, current |-> 0, due |-> FALSE]]
  /\ request = [r \in Attempts |-> [scope |-> {}, stage |-> "none", aborted |-> FALSE, obs |-> Blank]]
-----------------------------------------------------------------------------
(* The batch of a turn: prepared once, on behalf of whoever still waits *)

\* Mutant: the first borrower to leave ends the preparation for all.
Abandoned(b, left) == [b EXCEPT !.borrowers = @ \ left, !.aborted = TRUE]
\* SharedAbortScope: the last borrower to leave aborts it.
Left(b, left) ==
  [b EXCEPT !.borrowers = @ \ left, !.aborted = @ \/ (left \cap b.borrowers # {} /\ b.borrowers \ left = {})]

\* propose: the alternatives of a turn are asked for together, and find one batch or begin it;
\* a request aborted before that proposes nothing.
Propose ==
  /\ batch.ready = "none" /\ ~batch.closed
  /\ \E asked \in SUBSET Members \ {{}} :
       /\ batch' = [batch EXCEPT !.borrowers = asked, !.ready = "preparing"]
       /\ member' = [p \in Members |-> IF p \in asked THEN "waiting" ELSE "empty"]
  /\ UNCHANGED contVars

\* Hints, model and options are awaited; an aborted lifetime or a context too long yields nothing.
Ready ==
  /\ batch.ready = "preparing"
  /\ \E ready \in IF batch.aborted THEN {"failed"} ELSE {"ready", "failed"} : batch' = [batch EXCEPT !.ready = ready]
  /\ UNCHANGED <<member, contVars>>

Draft(p) ==
  /\ member[p] = "waiting" /\ batch.ready \in {"ready", "failed"}
  /\ IF batch.ready = "ready" /\ ~batch.aborted
       THEN member' = [member EXCEPT ![p] = "drafting"] /\ UNCHANGED batch
       ELSE member' = [member EXCEPT ![p] = "empty"] /\ batch' = Left(batch, {p})
  /\ UNCHANGED contVars

Drafted(p) ==
  /\ member[p] = "drafting" /\ ~batch.aborted /\ member' = [member EXCEPT ![p] = "drafted"]
  /\ UNCHANGED <<batch, contVars>>

\* finally: what did not draft lets go of the batch; so does a request whose signal aborts.
Empty(p) ==
  /\ member[p] \in {"waiting", "drafting", "drafted"}
  /\ member' = [member EXCEPT ![p] = "empty"] /\ batch' = Left(batch, {p}) /\ UNCHANGED contVars

\* turn_finished, session_closed: finishBatch.
FinishBatch ==
  /\ ~batch.closed /\ batch' = [batch EXCEPT !.closed = TRUE, !.aborted = TRUE] /\ UNCHANGED <<member, contVars>>
-----------------------------------------------------------------------------
(* Continuations of one proposal *)

Live(r) == r # 0 /\ request[r].stage # "none" /\ ~request[r].aborted

\* continueOn: a scope is asked for once all its calls are bound, and again when a result
\* differs from what its request was given, or came before anything was given.
Continues(k, c, known, result) ==
  /\ c \in k /\ known
  /\ \/ cont[k].current = 0
     \/ result # None /\ result # request[cont[k].current].obs[c]

\* The engine passes each trigger once; a result also fulfils the forecasts of its call.
ContinueOn(c, trigger) ==
  /\ \E p \in Members : member[p] = "drafted"
  /\ trigger \notin call[c].triggers
  /\ \E result \in IF trigger = "prepared" THEN {None} ELSE Keys \cup {None} :
       LET seen == IF result = None THEN call[c].result ELSE result
           bound == [call EXCEPT ![c] = [key |-> TRUE, result |-> seen, triggers |-> @.triggers \cup {trigger}]]
           again == {k \in Scopes : Continues(k, c, \A d \in k : bound[d].key, result)}
       IN /\ call' = bound
          /\ cont' = [k \in Scopes |->
               [cont[k] EXCEPT !.forecast[c] = IF c \in k /\ result # None THEN None ELSE @, !.due = @ \/ k \in again]]
          /\ request' = [r \in Attempts |->
               [request[r] EXCEPT !.aborted = @ \/ \E k \in again : cont[k].current = r]]
  /\ UNCHANGED batchVars

\* A real observation, or else the one forecast.
Known(k, c) == IF call[c].result # None THEN call[c].result ELSE cont[k].forecast[c]
Frozen(k) == [c \in Calls |-> IF c \in k THEN Known(k, c) ELSE None]
Missing(k) == {c \in k : Known(k, c) = None}

\* continue: while the scope's last request stands there is nothing to do.
Start(k) ==
  /\ cont[k].due
  /\ IF Live(cont[k].current) THEN cont' = [cont EXCEPT ![k].due = FALSE] /\ UNCHANGED request
     ELSE \E r \in Attempts :
       /\ request[r].stage = "none" /\ \A q \in Attempts : q < r => request[q].stage # "none"
       /\ cont' = [cont EXCEPT ![k].due = FALSE, ![k].current = r]
       /\ request' = [request EXCEPT ![r] =
            IF Missing(k) # {} THEN [@ EXCEPT !.scope = k, !.stage = "forecasting"]
            ELSE [@ EXCEPT !.scope = k, !.stage = "drafting", !.obs = Frozen(k)]]
  /\ UNCHANGED <<batchVars, call>>

\* The observations asked of the model; those the rollout uses are frozen with their answer.
Forecast(r) ==
  LET k == request[r].scope
  IN /\ request[r].stage = "forecasting" /\ ~request[r].aborted
     /\ \E guess \in [Missing(k) -> Keys] :
          LET v == [c \in Calls |-> IF c \in Missing(k) THEN guess[c] ELSE cont[k].forecast[c]]
          IN /\ cont' = [cont EXCEPT ![k].forecast = v]
             /\ request' = [request EXCEPT ![r].stage = "drafting",
                  ![r].obs = [c \in Calls |-> IF c \notin k THEN None ELSE IF call[c].result # None THEN call[c].result ELSE v[c]]]
     /\ UNCHANGED <<batchVars, call>>

Rollout(r) ==
  /\ request[r].stage = "drafting" /\ ~request[r].aborted
  /\ request' = [request EXCEPT ![r].stage = "drafted"] /\ UNCHANGED <<batchVars, call, cont>>

\* An error, an invalid answer, or an abort noticed after an await.
Ended(r) ==
  /\ request[r].stage \in {"forecasting", "drafting"}
  /\ request' = [request EXCEPT ![r].stage = "ended"] /\ UNCHANGED <<batchVars, call, cont>>

RolloutNext ==
  \/ \E p \in Members : Draft(p) \/ Drafted(p) \/ Empty(p)
  \/ Propose \/ Ready \/ FinishBatch
  \/ \E c \in Calls, trigger \in Triggers : ContinueOn(c, trigger)
  \/ \E k \in Scopes : Start(k)
  \/ \E r \in Attempts : Forecast(r) \/ Rollout(r) \/ Ended(r)

RolloutSpec == RolloutInit /\ [][RolloutNext]_rolloutVars
-----------------------------------------------------------------------------
\* A peer that gives up costs the others nothing: while the turn goes on, the batch is
\* stopped only when no proposal is waiting for it or drafting from it (SharedAbortScope).
PeersKeepBatch ==
  batch.aborted /\ ~batch.closed => \A p \in Members : member[p] \in {"none", "empty"}

\* What a rollout reads is never contradicted: the observations of a request that still
\* stands agree with every result known, in whatever order results, forecasts and
\* requests came (continueOn, continue).
NothingContradicted ==
  \A k \in Scopes : LET r == cont[k].current IN
    Live(r) /\ request[r].stage \in {"drafting", "drafted"} =>
      \A c \in k : call[c].result # None => request[r].obs[c] = call[c].result
===============================================================================
