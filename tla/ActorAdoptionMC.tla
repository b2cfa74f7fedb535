--------------------------- MODULE ActorAdoptionMC ---------------------------
(* ActorAdoption on one or two calls and as many candidates. *)
EXTENDS ActorAdoption, TLC

CONSTANTS a1, a2, c1, c2

\* Every call finds every candidate.
Compete == Actors \X Candidates
\* Then calls are interchangeable (safety run only).
Alike == Permutations(Actors)
\* Each call has an exclusive candidate of its own.
Apart == {<<a1, c1>>, <<a2, c2>>}

\* Fair behaviours in which nothing is cancelled, closed, evicted or predicted
\* anew: calls and executions are alone with each other.
UndisturbedSpec ==
  /\ Init
  /\ [][Next /\ UNCHANGED <<turn, cancelled, pending>> /\ stored \subseteq stored' /\ "failed" \notin {exec'[c] : c \in Candidates}]_vars
  /\ Fairness

\* Fair behaviours of the first call with either the second one or a preview.
PairSpec == Init /\ [][Next /\ (pc'[a2] = "idle" \/ previewed' = {})]_vars /\ Fairness
=============================================================================
