----------------------------- MODULE EffectOnce -----------------------------
(***************************************************************************)
(* What an effect transaction promises to the runtime that adopts it: an   *)
(* effect is applied at most once, only under a proof obtained since the   *)
(* previous attempt at it ended, never after an unexplained failure, never *)
(* when it was not reserved before retirement, and the branch behind it is *)
(* released only when the effect has settled.                              *)
(***************************************************************************)
VARIABLES effect,    \* none, reserved, applying, done or lost
          proven,    \* a current proof would let a reserved effect begin
          retired,   \* the owner gave the transaction up
          resource   \* the branch: live or released

vars == <<effect, proven, retired, resource>>

Init == effect = "none" /\ proven = FALSE /\ retired = FALSE /\ resource = "live"

Prove == effect # "applying" /\ resource = "live" /\ proven' = TRUE
         /\ UNCHANGED <<effect, retired, resource>>
Doubt == proven' = FALSE /\ UNCHANGED <<effect, retired, resource>>

Reserve == effect = "none" /\ ~retired /\ effect' = "reserved"
           /\ UNCHANGED <<proven, retired, resource>>
Decline == effect = "reserved" /\ effect' = "none" /\ proven' = FALSE
           /\ UNCHANGED <<retired, resource>>
Begin == effect = "reserved" /\ proven /\ effect' = "applying" /\ proven' = FALSE
         /\ UNCHANGED <<retired, resource>>
Settle == effect = "applying" /\ effect' \in {"done", "lost", "none"}
          /\ UNCHANGED <<proven, retired, resource>>

Retire == ~retired /\ retired' = TRUE /\ proven' \in {proven, FALSE}
          /\ UNCHANGED <<effect, resource>>
Release == retired /\ effect \notin {"reserved", "applying"} /\ resource = "live"
           /\ resource' = "released" /\ UNCHANGED <<effect, proven, retired>>

Next == \/ Prove \/ Doubt \/ Reserve \/ Decline \/ Begin \/ Settle \/ Retire \/ Release

Promise == Init /\ [][Next]_vars
Spec == Promise /\ WF_vars(Decline \/ Begin \/ Settle) /\ WF_vars(Release)
=============================================================================
