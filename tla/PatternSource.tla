---------------------------- MODULE PatternSource ----------------------------
(***************************************************************************)
(* The pattern-aware plan source (src/pattern-plan-source.ts) of one       *)
(* session.  The observations of a turn form a batch, the batch of a       *)
(* finished turn is analysed after those before it, and a prediction waits *)
(* for the analyses that were ahead of it.  Settings choose the analyzer,  *)
(* whose store is leased when it is first needed.  What is predicted is    *)
(* represented by what it is based on.                                     *)
(***************************************************************************)
EXTENDS Naturals, Sequences, FiniteSets

CONSTANTS
  Analyzers,
  Orders,        \* the calls of a turn
  MaxTurns,      \* bound
  MaxFailures    \* bound: stores that cannot be opened

ASSUME TurnsSetting == MaxTurns \in Nat /\ Analyzers # {}

VARIABLES
  turn,       \* [n, open]: the latest turn
  batch,      \* batch[n]: what was observed of turn n before it finished
  setting,    \* the analyzer the settings name
  tail,       \* analysisTail: [n, events, on], the oldest first
  ended,      \* analyses that have ended
  analysed,   \* the batches a store observed: <<n, events>>
  ops,        \* admitted operations that wait: [kind, n, by, ahead, on]
  leased,     \* leased[k]: "none", "opening", "open"
  carried,    \* carriedPredictions: [id, base, pending, abandoned]
  live,       \* what the runtime made of the prediction after observation <<n, o>>
  silent,     \* silent[n]: the proposal of turn n was not made, for it repeats what is carried
  life,       \* the lifecycle: "no", "sealed", "disposed"
  failures

sourceVars == <<turn, batch, setting, tail, ended, analysed, ops, leased, carried, live, silent, life, failures>>

Turns == 1..MaxTurns
NoCarried == [id |-> <<>>, base |-> <<>>, pending |-> FALSE, abandoned |-> FALSE]

PatternSourceInit ==
  /\ turn = [n |-> 0, open |-> FALSE] /\ batch = [n \in Turns |-> {}] /\ tail = <<>> /\ ended = 0 /\ analysed = <<>>
  /\ setting = (CHOOSE a \in Analyzers : TRUE) /\ ops = {} /\ leased = [k \in Analyzers |-> "none"] /\ carried = NoCarried
  /\ live = [i \in Turns \X Orders |-> "none"] /\ silent = [n \in Turns |-> FALSE] /\ life = "no" /\ failures = 0
-----------------------------------------------------------------------------
(* Turns *)

\* Entry discards what was observed of a turn; only a finished turn hands its batch over.
Entered(n) == {}

\* observeTurn at the start of a turn, with the settings of the turn.
StartTurn ==
  /\ ~turn.open /\ turn.n < MaxTurns /\ life = "no" /\ setting' \in Analyzers
  /\ LET n == turn.n + 1
     IN /\ turn' = [n |-> n, open |-> TRUE] /\ tail' = Append(tail, [n |-> n, events |-> Entered(n), on |-> setting'])
        /\ ops' = ops \cup {[kind |-> "propose", n |-> n, by |-> 0, ahead |-> ended + Len(tail) + 1, on |-> setting']}
  /\ UNCHANGED <<batch, ended, analysed, leased, carried, live, silent, life, failures>>

\* observe: the call joins the batch of its turn, and what follows it is predicted; an
\* observation may come after its turn has finished.
Observe(o) ==
  /\ turn.n > 0 /\ life = "no" /\ live[<<turn.n, o>>] = "none" /\ \A op \in ops : <<op.n, op.by>> # <<turn.n, o>>
  /\ o \notin batch[turn.n]
  /\ batch' = IF turn.open THEN [batch EXCEPT ![turn.n] = @ \cup {o}] ELSE batch
  /\ ops' = ops \cup {[kind |-> "after", n |-> turn.n, by |-> o, ahead |-> ended + Len(tail), on |-> setting]}
  /\ UNCHANGED <<turn, setting, tail, ended, analysed, leased, carried, live, silent, life, failures>>

\* observeTurn at its end: what was observed is handed over.
FinishTurn ==
  /\ turn.open /\ turn' = [turn EXCEPT !.open = FALSE]
  /\ IF life # "no" THEN UNCHANGED tail ELSE tail' = Append(tail, [n |-> turn.n, events |-> batch[turn.n], on |-> setting])
  /\ UNCHANGED <<batch, setting, ended, analysed, ops, leased, carried, live, silent, life, failures>>
-----------------------------------------------------------------------------
(* Stores *)

\* predictionStore: every analysis that was ahead has ended.
Ready(op) == ended >= op.ahead

\* resolveStore: the analyzer is opened when an analysis or a prediction first needs it.
Needs(k) == (tail # <<>> /\ Head(tail).on = k) \/ \E op \in ops : op.on = k /\ Ready(op)
OpenStore(k) ==
  /\ leased[k] = "none" /\ Needs(k) /\ leased' = [leased EXCEPT ![k] = "opening"]
  /\ UNCHANGED <<turn, batch, setting, tail, ended, analysed, ops, carried, live, silent, life, failures>>

StoreOpened(k) ==
  /\ leased[k] = "opening" /\ leased' = [leased EXCEPT ![k] = "open"]
  /\ UNCHANGED <<turn, batch, setting, tail, ended, analysed, ops, carried, live, silent, life, failures>>

\* What waited for a store that cannot be opened fails, and the next one opens it again.
OpenFails(k) ==
  /\ leased[k] = "opening" /\ failures < MaxFailures /\ failures' = failures + 1
  /\ leased' = [leased EXCEPT ![k] = "none"] /\ ops' = {op \in ops : ~(op.on = k /\ Ready(op))}
  /\ IF tail # <<>> /\ Head(tail).on = k THEN tail' = Tail(tail) /\ ended' = ended + 1 ELSE UNCHANGED <<tail, ended>>
  /\ UNCHANGED <<turn, batch, setting, analysed, carried, live, silent, life>>

\* One analysis: the store observes the batch.
Analyse ==
  /\ tail # <<>> /\ leased[Head(tail).on] = "open" /\ tail' = Tail(tail) /\ ended' = ended + 1
  /\ analysed' = IF Head(tail).events = {} THEN analysed ELSE Append(analysed, <<Head(tail).n, Head(tail).events>>)
  /\ UNCHANGED <<turn, batch, setting, ops, leased, carried, live, silent, life, failures>>
-----------------------------------------------------------------------------
(* Predictions *)

\* continue after an observation: the batch so far on top of what was analysed.
Follow(op) ==
  /\ op \in ops /\ op.kind = "after" /\ Ready(op) /\ leased[op.on] = "open" /\ ops' = ops \ {op}
  /\ LET id == <<op.n, op.by>>
     IN carried' = [id |-> id, base |-> <<op.on, Append(analysed, <<op.n, IF op.by \in batch[op.n] THEN batch[op.n] ELSE {op.by}>>)>>, pending |-> TRUE, abandoned |-> FALSE]
        /\ live' = [live EXCEPT ![id] = "submitted"]
  /\ UNCHANGED <<turn, batch, setting, tail, ended, analysed, leased, silent, life, failures>>

\* prediction_admitted, prediction_feedback: what the runtime makes of it, told to its object.
Admitted(i) ==
  /\ live[i] = "submitted" /\ live' = [live EXCEPT ![i] = "held"]
  /\ carried' = IF life = "no" /\ carried.id = i THEN [carried EXCEPT !.pending = FALSE] ELSE carried
  /\ UNCHANGED <<turn, batch, setting, tail, ended, analysed, ops, leased, silent, life, failures>>
Lose(i) ==
  /\ live[i] \in {"submitted", "held"} /\ live' = [live EXCEPT ![i] = "lost"]
  /\ carried' = IF live[i] = "held" /\ life = "no" /\ carried.id = i THEN [carried EXCEPT !.abandoned = TRUE] ELSE carried
  /\ UNCHANGED <<turn, batch, setting, tail, ended, analysed, ops, leased, silent, life, failures>>

Repeated(op) == carried.base = <<op.on, analysed>> /\ ~carried.pending /\ ~carried.abandoned

\* propose: nothing is proposed that the runtime still holds; what was learned may have
\* changed the prediction all the same.
Propose(op) ==
  /\ op \in ops /\ op.kind = "propose" /\ Ready(op) /\ leased[op.on] = "open" /\ ops' = ops \ {op}
  /\ carried' = NoCarried
  /\ \E changed \in BOOLEAN : silent' = [silent EXCEPT ![op.n] = Repeated(op) /\ ~changed]
  /\ UNCHANGED <<turn, batch, setting, tail, ended, analysed, leased, live, life, failures>>
-----------------------------------------------------------------------------
(* Disposal *)

Seal ==
  /\ life = "no" /\ life' = "sealed"
  /\ UNCHANGED <<turn, batch, setting, tail, ended, analysed, ops, leased, carried, live, silent, failures>>

SourceSettled == life = "sealed" /\ ops = {} /\ tail = <<>>

\* dispose: after what was admitted and analysed, every lease is given back.
DisposeSource ==
  /\ SourceSettled /\ life' = "disposed" /\ leased' = [k \in Analyzers |-> "none"]
  /\ UNCHANGED <<turn, batch, setting, tail, ended, analysed, ops, carried, live, silent, failures>>

Predict == \E op \in ops : Follow(op) \/ Propose(op)

PatternSourceNext ==
  \/ (\E k \in Analyzers : OpenStore(k) \/ StoreOpened(k) \/ OpenFails(k))
  \/ StartTurn \/ FinishTurn \/ Analyse \/ Seal \/ DisposeSource
  \/ (\E o \in Orders : Observe(o)) \/ Predict
  \/ \E i \in Turns \X Orders : Admitted(i) \/ Lose(i)

\* Stores open and answer, and what waits for them goes on.
SourceRuns == (\E k \in Analyzers : OpenStore(k) \/ StoreOpened(k)) \/ Analyse \/ Predict \/ DisposeSource

PatternSourceSpec == PatternSourceInit /\ [][PatternSourceNext]_sourceVars /\ WF_sourceVars(SourceRuns)
-----------------------------------------------------------------------------
Learned(s) == {s[i][1] : i \in 1..Len(s)}

\* Each finished turn is learned once, whole and in its order, and a prediction of a later turn
\* knows it, unless its store could not be opened (observeTurn, analysisTail, predictionStore).
LearnsInOrder ==
  /\ \A i, j \in 1..Len(analysed) : i < j => analysed[i][1] < analysed[j][1]
  /\ \A i \in 1..Len(analysed) : analysed[i][2] = batch[analysed[i][1]]

Predicts(n) == \E op \in ops \ ops' : op.kind = "propose" /\ op.n = n
PredictsOnAllStep ==
  \A n \in Turns : Predicts(n) /\ failures' = 0 =>
    \A p \in 1..(n - 1) : batch[p] # {} => p \in Learned(analysed)
PredictsOnAll == [][PredictsOnAllStep]_sourceVars

\* The source keeps silent only on what the runtime was given and has not lost (propose).
SilenceCoveredStep == \A n \in Turns : silent'[n] /\ ~silent[n] /\ life = "no" => live[carried.id] = "held"
SilenceCovered == [][SilenceCoveredStep]_sourceVars

\* A source that was disposed of holds no store, whatever was still under way (dispose).
LeasesReturned == life = "disposed" => \A k \in Analyzers : leased[k] = "none"

\* What the promise that a sealed source is disposed of is stated with (dispose).
SourceSealed == life = "sealed"
SourceDisposed == life = "disposed"
=============================================================================
