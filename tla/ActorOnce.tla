------------------------------ MODULE ActorOnce ------------------------------
(***************************************************************************)
(* What the runtime promises the host of an agent: every Actor call has    *)
(* one provider.  An exclusive effect is spent on one call, and a call     *)
(* that spent one is served with it or fails: it is never run natively.    *)
(***************************************************************************)
CONSTANTS Actors, Exclusive

VARIABLES
  outcome,  \* outcome[a]: who answered the call a
  spent     \* exclusive effects that were applied, or may have been

TypeOK ==
  /\ outcome \in [Actors -> {"open", "effect", "served", "native", "failed"}]
  /\ spent \subseteq Exclusive

Init ==
  /\ outcome = [a \in Actors |-> "open"]
  /\ spent = {}

\* The effect prepared for the call is applied.
Spend(a, c) ==
  /\ outcome[a] = "open" /\ c \notin spent
  /\ outcome' = [outcome EXCEPT ![a] = "effect"]
  /\ spent' = spent \cup {c}

\* The effect may have been applied and cannot be undone: the call fails.
Lose(a, c) ==
  /\ outcome[a] = "open" /\ c \notin spent
  /\ outcome' = [outcome EXCEPT ![a] = "failed"]
  /\ spent' = spent \cup {c}

\* The call is answered by prepared work, with or without an effect of its own.
Serve(a) ==
  /\ outcome[a] \in {"open", "effect"}
  /\ outcome' = [outcome EXCEPT ![a] = "served"]
  /\ UNCHANGED spent

RunNatively(a) ==
  /\ outcome[a] = "open"
  /\ outcome' = [outcome EXCEPT ![a] = "native"]
  /\ UNCHANGED spent

Next ==
  \E a \in Actors :
    \/ \E c \in Exclusive : Spend(a, c) \/ Lose(a, c)
    \/ Serve(a) \/ RunNatively(a)

Spec == Init /\ [][Next]_<<outcome, spent>>
=============================================================================
