---------------------------- MODULE PatternMining -----------------------------
(***************************************************************************)
(* The miner of the pattern-aware source (src/pattern-aware.ts), in three  *)
(* parts with variables of their own: what is learned and forgotten, which *)
(* stretches of history are contexts, and how the input of a call is       *)
(* inferred from results.  Each part has its own specification.            *)
(***************************************************************************)
EXTENDS Naturals, Sequences, FiniteSets

(***************************************************************************)
(* What the pattern-aware source has learned (src/pattern-aware.ts): the   *)
(* pools of samples, the patterns inferred from a pool, the opportunities  *)
(* each context had, and the validations that wait for what comes next.    *)
(*                                                                         *)
(* A pool stands for a context, a target and a gap.  Pools whose context   *)
(* and gap are the same share the count of their opportunities: one per    *)
(* batch.  What a pattern's bindings reproduce of a sample is its kind.    *)
(* Contexts, bindings and probabilities are left out; what ranking would   *)
(* choose among is chosen freely.  One session is modelled.                *)
(***************************************************************************)

CONSTANTS
  Pools, Controls, Patterns,
  ControlOf,     \* [Pools -> Controls]
  PatternsOf,    \* [Pools -> SUBSET Patterns]
  Covers,        \* [Patterns -> SUBSET Kinds]: samples its bindings reproduce
  Kinds,
  SampleLimit, MinOccurrences, MaxPools, MaxPatterns, MaxPending,
  MaxGap,        \* the latest horizon of a pattern
  MaxBatches     \* bound

VARIABLES
  clock,     \* batches observed: the identity of an opportunity
  step,      \* what observeEvents does next: "idle", "learn", "start", "pools", "patterns"
  todo,      \* the samples the batch yields: [pool, kind, first]
  pool,      \* pool[q]: [samples, ids]; a pool without samples does not exist
  control,   \* control[k][o]: samples of opportunity o in pools of k
  pattern,   \* pattern[p]: [live, occurrences, opportunities, matches]
  pending    \* validations that wait: <<pattern, trigger, remaining>>

patternVars == <<clock, step, todo, pool, control, pattern, pending>>

NoPattern == [live |-> FALSE, occurrences |-> 0, opportunities |-> 0, matches |-> 0]
Batches == 1..MaxBatches

PatternInit ==
  /\ clock = 0 /\ step = "idle" /\ todo = <<>> /\ pending = <<>>
  /\ pool = [q \in Pools |-> [samples |-> <<>>, ids |-> {}]] /\ pattern = [p \in Patterns |-> NoPattern]
  /\ control = [k \in Controls |-> [o \in Batches |-> 0]]

Known == {q \in Pools : pool[q].samples # <<>>}
Live == {p \in Patterns : pattern[p].live}
Waits == 1..Len(pending)
-----------------------------------------------------------------------------
(* Validations *)

\* recordValidation, for all that is settled at once.
Validated(settled, matched) ==
  [p \in Patterns |-> IF ~pattern[p].live THEN pattern[p]
     ELSE [pattern[p] EXCEPT !.opportunities = @ + Cardinality({i \in settled : pending[i][1] = p}),
                             !.matches = @ + Cardinality({i \in matched : pending[i][1] = p})]]

\* resolvePendingBatch: matched, missed once its time is over, or kept one batch less.
Resolve ==
  \E matched \in SUBSET Waits :
    LET settled == matched \cup {i \in Waits : pending[i][3] = 0}
        Left(i) == <<pending[i][1], pending[i][2], pending[i][3] - 1>>
        kept == SelectSeq([i \in Waits |-> i], LAMBDA i : i \notin settled)
    IN pattern' = Validated(settled, matched) /\ pending' = [i \in 1..Len(kept) |-> Left(kept[i])]

\* A batch yields at most two samples here, in the same or in different pools.
News == {<<>>} \cup {<<a>> : a \in [pool : Pools, kind : Kinds, first : BOOLEAN]}
          \cup {<<a, b>> : a, b \in [pool : Pools, kind : Kinds, first : {FALSE}]}

\* observeEvents: what waits is resolved before the batch is learned.
Observe ==
  /\ step = "idle" /\ clock < MaxBatches /\ clock' = clock + 1
  /\ Resolve /\ todo' \in News /\ step' = "learn" /\ UNCHANGED <<pool, control>>

\* finishSession: what still waits was missed.
FinishSession ==
  /\ step = "idle" /\ pending # <<>> /\ pattern' = Validated(Waits, {}) /\ pending' = <<>>
  /\ UNCHANGED <<clock, step, todo, pool, control>>
-----------------------------------------------------------------------------
(* learnOccurrence *)

\* removePattern: the validations that wait for it go with it.
Removed(S) ==
  /\ pattern' = [p \in Patterns |-> IF p \in S THEN NoPattern ELSE pattern[p]]
  /\ pending' = SelectSeq(pending, LAMBDA w : w[1] \notin S)

\* addControlOpportunities: samples of pool q enter or leave.
Uses(samples, o) == Cardinality({i \in 1..Len(samples) : samples[i].batch = o})
Counted(q, into, out) ==
  [control EXCEPT ![ControlOf[q]] = [o \in Batches |-> (@[o] + Uses(into, o)) - Uses(out, o)]]

Opportunities(counts) == LET n == Cardinality({o \in Batches : counts[o] > 0}) IN IF n = 0 THEN 1 ELSE n

Support(samples, p) == {i \in 1..Len(samples) : samples[i].kind \in Covers[p]}

Matches(samples, p) == Cardinality({samples[i].batch : i \in Support(samples, p)})

\* A pool that has a pattern on probation, or the first sample of the shortest context,
\* keeps what all its samples support.
Probationary(q, probe) == probe \/ \E p \in pool[q].ids : pattern[p].live /\ pattern[p].occurrences < MinOccurrences

\* One sample enters its pool, the oldest leave; the patterns still supported are kept.
Learn ==
  /\ step = "learn" /\ todo # <<>>
  /\ LET new == Head(todo)  q == new.pool
         all == Append(pool[q].samples, [batch |-> clock, kind |-> new.kind])
         drop == IF Len(all) > SampleLimit THEN Len(all) - SampleLimit ELSE 0
         samples == SubSeq(all, drop + 1, Len(all))
         lenient == Probationary(q, new.first /\ Len(all) = 1)
         least == IF lenient THEN Len(samples) ELSE MinOccurrences
         kept == IF Len(samples) < least THEN {} ELSE {p \in PatternsOf[q] : Cardinality(Support(samples, p)) >= least}
         gone == pool[q].ids \ kept
     IN /\ pool' = [pool EXCEPT ![q] = [samples |-> samples, ids |-> kept]]
        /\ control' = Counted(q, <<all[Len(all)]>>, SubSeq(all, 1, drop))
        /\ pattern' = [p \in Patterns |->
             IF p \in gone THEN NoPattern
             ELSE IF p \notin kept THEN pattern[p]
             ELSE IF pattern[p].live THEN [pattern[p] EXCEPT !.occurrences = Cardinality(Support(samples, p))]
             ELSE [live |-> TRUE, occurrences |-> Cardinality(Support(samples, p)),
                   opportunities |-> Opportunities(control'[ControlOf[q]]), matches |-> Matches(samples, p)]]
        /\ pending' = SelectSeq(pending, LAMBDA w : w[1] \notin gone)
  /\ todo' = Tail(todo) /\ UNCHANGED <<clock, step>>

\* startPending: patterns whose context the history now ends with; the newest waits are kept.
Start ==
  /\ step = "learn" /\ todo = <<>> /\ step' = "pools"
  /\ \E S \in SUBSET {p \in Live : pattern[p].occurrences >= MinOccurrences} :
       \E order \in {f \in [1..Cardinality(S) -> S] : {f[i] : i \in DOMAIN f} = S} :
         LET all == pending \o [i \in DOMAIN order |-> <<order[i], clock, MaxGap>>]
         IN pending' = SubSeq(all, IF Len(all) > MaxPending THEN Len(all) - MaxPending + 1 ELSE 1, Len(all))
  /\ UNCHANGED <<clock, todo, pool, control, pattern>>
-----------------------------------------------------------------------------
(* Bounds *)

\* Mutant: the opportunities of a pool that is dropped stay counted.
UncountedKept(q) == control
Uncounted(q) == Counted(q, <<>>, pool[q].samples)

\* trimPools: no pattern outlives the samples that support it.
TrimPools ==
  /\ step = "pools"
  /\ IF Cardinality(Known) <= MaxPools THEN step' = "patterns" /\ UNCHANGED <<pool, control, pattern, pending>>
     ELSE \E q \in Known :
       /\ control' = Uncounted(q) /\ Removed(pool[q].ids)
       /\ pool' = [pool EXCEPT ![q] = [samples |-> <<>>, ids |-> {}]] /\ UNCHANGED step
  /\ UNCHANGED <<clock, todo>>

\* trimPatterns
TrimPatterns ==
  /\ step = "patterns" /\ step' = "idle"
  /\ \E S \in SUBSET Live :
       /\ Cardinality(S) = IF Cardinality(Live) > MaxPatterns THEN Cardinality(Live) - MaxPatterns ELSE 0
       /\ Removed(S)
  /\ UNCHANGED <<clock, todo, pool, control>>

PatternNext == Observe \/ FinishSession \/ Learn \/ Start \/ TrimPools \/ TrimPatterns

PatternSpec == PatternInit /\ [][PatternNext]_patternVars
-----------------------------------------------------------------------------
\* The count of opportunities is that of the samples held: it neither leaks when samples
\* and pools are dropped nor forgets one that another pool still has (addControlOpportunities).
CountsMatchSamples ==
  \A k \in Controls, o \in Batches :
    control[k][o] = Cardinality({<<q, i>> \in Pools \X (1..SampleLimit) :
      ControlOf[q] = k /\ i <= Len(pool[q].samples) /\ pool[q].samples[i].batch = o})

\* What is learned stays grounded: a pattern never matched more often than it had the
\* opportunity, it is known to a pool that holds samples, and nothing waits to validate a
\* pattern that is gone (learnOccurrence, retirePoolPatterns, removePattern).
Grounded ==
  /\ \A p \in Live : pattern[p].matches <= pattern[p].opportunities /\ \E q \in Known : p \in pool[q].ids
  /\ \A i \in Waits : pattern[pending[i][1]].live
  /\ step = "idle" => Cardinality(Known) <= MaxPools /\ Cardinality(Live) <= MaxPatterns

-------------------------------------------------------------------------------
(***************************************************************************)
(* Which stretches of a session's history are contexts (src/pattern-       *)
(* aware.ts): those a batch is learned after, those a prediction matches,  *)
(* and what may be trimmed.  Calls made together are one batch, and a      *)
(* context does not start inside one unless it is too wide.                *)
(***************************************************************************)

CONSTANTS
  MaxContextLength, MaxFutureGap,
  MaxWidth, HistoryBatches     \* bounds

VARIABLES
  history,   \* what is kept: [call, batch]; all calls differ here, so contexts differ wherever they can
  whole,     \* all that happened
  matched,   \* matched[b]: the contexts that matched once batch b had happened
  learned    \* what the latest batch was learned after: [context, gap]

contextVars == <<history, whole, matched, learned>>

ContextInit == history = <<>> /\ whole = <<>> /\ matched = <<>> /\ learned = {}

Least(a, b) == IF a < b THEN a ELSE b
Tokens(s) == [i \in 1..Len(s) |-> <<s[i].batch, s[i].call>>]

\* actionBatchStarts: where a batch begins.
Starts(h) == SelectSeq([i \in 1..Len(h) |-> i], LAMBDA i : i = 1 \/ h[i].batch # h[i - 1].batch)

\* learningContexts: up to MaxContextLength batches that end gap batches ago, as long as
\* they are no longer than a context; a batch that is longer gives its newest calls.
LearningContexts(h) ==
  LET starts == Starts(h)  n == Len(starts)
      End(gap) == IF gap = 0 THEN Len(h) ELSE starts[n - gap + 1] - 1
      Size(gap, length) == End(gap) - starts[n - gap - length + 1] + 1
      Slice(gap, size) == SubSeq(h, End(gap) - size + 1, End(gap))
      Within(gap, length) == \A k \in 1..(length - 1) : Size(gap, k) < MaxContextLength
  IN UNION {{[context |-> Tokens(Slice(gap, Least(Size(gap, length), MaxContextLength))), gap |-> gap] :
              length \in {k \in 1..Least(MaxContextLength, n - gap) :
                            Within(gap, k) /\ (k = 1 \/ Size(gap, k) <= MaxContextLength)}} :
            gap \in 0..(IF n = 0 THEN 0 ELSE Least(MaxFutureGap, n - 1))}

\* contextStarts: a wide last batch matches from its newest calls only.
ContextStarts(h) ==
  LET starts == Starts(h)  width == Len(h) - starts[Len(starts)] + 1
  IN IF width > MaxContextLength THEN {Len(h) - MaxContextLength + 1} ELSE 1..Len(h)

\* matchingPatterns: every context that could match now.
MatchingContexts(h) ==
  IF h = <<>> THEN {} ELSE {Tokens(SubSeq(h, i, Len(h))) : i \in {j \in ContextStarts(h) : Len(h) - j < MaxContextLength}}

Limit == MaxContextLength + MaxFutureGap + 1

\* trimSessionHistory
Trimmed(h) ==
  LET starts == Starts(h) IN IF Len(starts) <= Limit THEN h ELSE SubSeq(h, starts[Len(starts) - Limit + 1], Len(h))

\* observeEvents: a batch is learned after the contexts so far, then it joins the history.
ObserveBatch ==
  /\ Len(matched) < HistoryBatches
  /\ \E width \in 1..MaxWidth :
       LET batch == [i \in 1..width |-> [call |-> i, batch |-> Len(matched) + 1]]
       IN /\ learned' = LearningContexts(history) /\ whole' = whole \o batch
          /\ history' = Trimmed(history \o batch) /\ matched' = Append(matched, MatchingContexts(history \o batch))

ContextSpec == ContextInit /\ [][ObserveBatch]_contextVars
-----------------------------------------------------------------------------
\* What is learned after a context is found again where the context recurs: each context a batch
\* is learned after, with a gap, matched as many batches ago (learningContexts, contextStarts,
\* matchingPatterns use the same rules; a context that never matches is learned for nothing).
LearnedContextsMatch ==
  \A c \in learned : c.gap + 1 < Len(matched) => c.context \in matched[Len(matched) - 1 - c.gap]

\* Trimming the history loses nothing that is learned or matched (trimSessionHistory).
TrimmingLosesNothing ==
  LearningContexts(history) = LearningContexts(whole) /\ MatchingContexts(history) = MatchingContexts(whole)

-------------------------------------------------------------------------------
(***************************************************************************)
(* How the input of a call is inferred from the results before it          *)
(* (PatternBindingAnalysis of src/pattern-aware.ts), for a call that takes *)
(* a path and a line, after a call that reported a file and a list of      *)
(* locations.  A binding names where a field comes from; a field taken     *)
(* from each location keeps the location it came from.  Texts that are     *)
(* composed of others, and the weights of the variants, are left out.      *)
(***************************************************************************)

CONSTANTS
  Paths, Lines,
  MaxLocations,       \* bound
  SampleCount,        \* bound
  ConstantSupport     \* samples from which a path may be a constant

VARIABLES
  samples,    \* [file, locations, target]: what was reported, and the call that followed
  field,      \* the field that is inferred next: "line", "path", then "done" or "none"
  bindings    \* the bindings of the fields so far

bindingVars == <<samples, field, bindings>>

Locations == [path : Paths, line : Lines]
Lists == UNION {[1..n -> Locations] : n \in 0..MaxLocations}
\* The first call: paths and lines are interchangeable.
FirstTarget == CHOOSE l \in Locations : TRUE
Fields == {"path", "line"}
Of(s, f) == s.target[f]

BindingInit == samples = <<>> /\ field = "sample" /\ bindings = <<>>

\* learnOccurrence has gathered the samples of one pool.
Gather ==
  /\ field = "sample" /\ field' = "line" /\ UNCHANGED bindings
  /\ samples' \in [1..SampleCount -> [file : Paths, locations : Lists, target : Locations]]
  /\ samples'[1].target = FirstTarget
-----------------------------------------------------------------------------
(* Evaluation: a row is a value and the location it came from, 0 if from none. *)

Row(v, at) == [value |-> v, at |-> at]

\* evaluateBindingRows
RowsOf(b, s) ==
  IF b.type = "constant" THEN {Row(b.value, 0)}
  ELSE IF b.type = "file" THEN {Row(s.file, 0)}
  ELSE IF b.type = "item" THEN IF b.index \in DOMAIN s.locations THEN {Row(s.locations[b.index][b.of], 0)} ELSE {}
  ELSE {Row(s.locations[i][b.of], i) : i \in DOMAIN s.locations}
\* coalesce: the first source that has a value.
Rows(b, s) ==
  IF b.type # "coalesce" THEN RowsOf(b, s)
  ELSE LET some == {i \in DOMAIN b.sources : RowsOf(b.sources[i], s) # {}}
       IN IF some = {} THEN {} ELSE RowsOf(b.sources[CHOOSE i \in some : \A j \in some : i <= j], s)

\* joinBindingRows: rows agree unless they come from different locations.
Agree(r, q) == r.at = 0 \/ q.at = 0 \/ r.at = q.at

\* bindingMatches: some rows that agree give the call its input.
BindingMatches(bs, s) ==
  \E rows \in [DOMAIN bs -> UNION {Rows(bs[f], s) : f \in DOMAIN bs}] :
    /\ \A f \in DOMAIN bs : rows[f] \in Rows(bs[f], s) /\ rows[f].value = Of(s, f)
    /\ \A f, g \in DOMAIN bs : Agree(rows[f], rows[g])

\* bindingUnits: fields that take from each location are one choice.
Units(bs, s) ==
  LET Linked(f) == {g \in DOMAIN bs : g = f \/ \A h \in {f, g} : \E r \in Rows(bs[h], s) : r.at > 0}
  IN {Linked(f) : f \in DOMAIN bs}

\* applyWeightedBindings: the inputs the bindings give after s, a choice for each unit.
Choices(u, bs, s) ==
  {[f \in u |-> rows[f].value] : rows \in
     {r \in [u -> UNION {Rows(bs[f], s) : f \in u}] :
        (\A f \in u : r[f] \in Rows(bs[f], s)) /\ \A f, g \in u : Agree(r[f], r[g])}}
Applied(bs, s) ==
  {c \in [DOMAIN bs -> Paths \cup Lines] : \A u \in Units(bs, s) : [f \in u |-> c[f]] \in Choices(u, bs, s)}
-----------------------------------------------------------------------------
(* Inference *)

File == [type |-> "file"]
Each(f) == [type |-> "each", of |-> f]
Item(f, i) == [type |-> "item", of |-> f, index |-> i]
Unique(seq) == LET ks == SelectSeq([i \in DOMAIN seq |-> i], LAMBDA i : \A j \in 1..(i - 1) : seq[j] # seq[i])
               IN [i \in DOMAIN ks |-> seq[ks[i]]]

\* candidateBindings of one sample: the latest result first; a location counts as any of its list.
CandidatesOf(f, s) ==
  LET at == SelectSeq([i \in DOMAIN s.locations |-> i], LAMBDA i : s.locations[i][f] = Of(s, f))
  IN (IF f = "path" /\ s.file = Of(s, f) THEN <<File>> ELSE <<>>)
       \o (IF at # <<>> THEN <<Each(f)>> ELSE <<>>) \o [i \in DOMAIN at |-> Item(f, at[i])]

Direct(f) ==
  LET gathered[n \in 0..SampleCount] == IF n = 0 THEN <<>> ELSE gathered[n - 1] \o CandidatesOf(f, samples[n])
  IN Unique(gathered[SampleCount])
\* The candidates, and last the fallback through all that take from one place.
Candidates(f) ==
  LET direct == Direct(f)  events == SelectSeq(direct, LAMBDA b : b.type \in {"file", "item"})
  IN direct \o (IF Len(events) > 1 THEN <<[type |-> "coalesce", sources |-> events]>> ELSE <<>>)

Replay(bs) == Cardinality({i \in DOMAIN samples : BindingMatches(bs, samples[i])})
With(f, b) == [g \in DOMAIN bindings \cup {f} |-> IF g = f THEN b ELSE bindings[g]]

\* The first of the best candidates is taken.
Best(f) ==
  LET cs == Candidates(f)
      best == {i \in DOMAIN cs : \A j \in DOMAIN cs : Replay(With(f, cs[i])) >= Replay(With(f, cs[j]))}
  IN cs[CHOOSE i \in best : \A j \in best : i <= j]

Same(f) == \A i, j \in DOMAIN samples : Of(samples[i], f) = Of(samples[j], f)
Constant(f) == [type |-> "constant", value |-> Of(samples[1], f)]

\* inferBindingsFromSamples, one field: a value that needs no provenance may be a constant at
\* once, a path only when nothing else gives it and enough samples have it.
Infer ==
  /\ field \in Fields /\ UNCHANGED samples
  /\ LET next == IF field = "line" THEN "path" ELSE "done"
     IN \/ field = "line" /\ Same(field) /\ bindings' = With(field, Constant(field)) /\ field' = next
        \/ /\ ~(field = "line" /\ Same(field)) /\ Candidates(field) # <<>>
           /\ bindings' = With(field, Best(field)) /\ field' = next
        \/ /\ ~(field = "line" /\ Same(field)) /\ Candidates(field) = <<>>
           /\ IF field = "path" /\ Same(field) /\ SampleCount >= ConstantSupport
              THEN bindings' = With(field, Constant(field)) /\ field' = next
              ELSE field' = "none" /\ bindings' = <<>>

BindingNext == Gather \/ Infer

BindingSpec == BindingInit /\ [][BindingNext]_bindingVars
-----------------------------------------------------------------------------
\* The two evaluations agree: bindings replay a sample when, applied after what the sample
\* reported, they give its call (bindingMatches selects, applyWeightedBindings predicts).
ReplayedIsApplied ==
  field = "done" => \A i \in DOMAIN samples : BindingMatches(bindings, samples[i]) <=> samples[i].target \in Applied(bindings, samples[i])

\* A path and a line taken from the locations reported are those of one location
\* (joinBindingRows: a source row is an identity, even when two rows hold the same value).
LocationsStayTogether ==
  field = "done" /\ (\A f \in Fields : bindings[f].type = "each") =>
    \A i \in DOMAIN samples : \A c \in Applied(bindings, samples[i]) :
      \E j \in DOMAIN samples[i].locations : samples[i].locations[j] = c
===============================================================================
