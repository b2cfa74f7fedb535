-------------------------------- MODULE PlanMC --------------------------------
(* PlanRuntime on one plan or two, and a few offers. *)
EXTENDS PlanRuntime, TLC

CONSTANTS p, q, x, y, i, j, c

Offer(plan, action, input, needs) ==
  [plan |-> plan, action |-> action, input |-> input, horizon |-> 0,
   needs |-> {[plan |-> n[1], action |-> n[2], when |-> n[3]] : n \in needs}]

\* A child that was predicted from what its parent is expected to return.
Forecast == {Offer(p, x, i, {}), Offer(p, y, i, {<<p, x, "prediction">>})}
\* A child in another plan that pins its parent, and needs its work and its adoption.
Across == {Offer(p, x, i, {}), Offer(q, x, i, {<<p, x, "adopted">>, <<p, x, "succeeded">>})}

Work == (c :> i)
=============================================================================
