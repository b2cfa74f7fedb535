--------------------------- MODULE ProgressProofs ----------------------------
(***************************************************************************)
(* Proofs about the parts of ProgressMC.  LifecycleLane, for every number  *)
(* of calls and resources: Inv is the inductive invariant, the teardown is *)
(* the last operation of the lane, so every earlier one has settled when   *)
(* it runs (LaneInv), and a resource the lane answers for is owned until   *)
(* its release starts (CustodyInv).  PatternSource, for every number of    *)
(* turns, calls and analyzers: a finished turn was analysed, or waits      *)
(* ahead of every prediction of a later turn (SourceInv).                  *)
(* PatternPersistence, for every number of sessions, stores and troubles:  *)
(* only the store the sessions share writes, and it knows what the file    *)
(* has (PersistInv).                                                       *)
(***************************************************************************)
EXTENDS LifecycleLane, PatternPersistence, FiniteSetTheorems, TLAPS

-----------------------------------------------------------------------------
(* The lane.                                                                *)

Active == {"borrowers", "resources", "nested", "finalizing", "rest"}

\* The lane runs its head; once sealed nothing is enqueued behind the teardown.
LaneInv ==
  /\ sealed <=> teardown # "open"
  /\ teardown \in {"borrowers", "resources", "nested"} => how = "dispose"
  /\ \A i \in 1..Len(lane) : lane[i] = Teardown => i = Len(lane) /\ sealed
  /\ teardown \in Active => Len(lane) = 1 /\ lane[1] = Teardown
  /\ teardown = "queued" => lane # <<>> /\ lane[Len(lane)] = Teardown
  /\ teardown = "closed" => lane = <<>>

\* An enqueued call in flight waits in the lane, and runs only at its head.
QueueInv ==
  \A c \in Proofs \cup Operations :
    /\ call[c] \in {"admitted", "running"} => \E i \in 1..Len(lane) : lane[i] = c
    /\ call[c] = "running" => lane # <<>> /\ lane[1] = c

\* The owned set is taken by dispose() when the borrowers are gone, and only then.
CustodyInv ==
  /\ taken <=> how = "dispose" /\ teardown \in {"resources", "nested", "finalizing", "rest", "closed"}
  /\ taken => owned = {}
  /\ \A r \in entrusted : r \in owned \/ release[r] # "none"

Inv == TypeOK /\ LaneInv /\ QueueInv /\ BorrowersDrainFirst /\ CustodyInv /\ FinalizeIsLast

-----------------------------------------------------------------------------
\* What is left of the lane when its head has settled.
LEMMA TailFacts ==
  ASSUME NEW S, NEW s \in Seq(S), s # <<>>
  PROVE  /\ Tail(s) \in Seq(S) /\ Len(Tail(s)) = Len(s) - 1 /\ Len(s) \in Nat \ {0}
         /\ \A i \in 1..Len(Tail(s)) : Tail(s)[i] = s[i + 1]
         /\ Head(s) = s[1]
  OBVIOUS

\* What the lane holds when an operation was enqueued.
LEMMA AppendFacts ==
  ASSUME NEW S, NEW s \in Seq(S), NEW e \in S
  PROVE  /\ Append(s, e) \in Seq(S) /\ Len(Append(s, e)) = Len(s) + 1 /\ Len(s) \in Nat
         /\ \A i \in 1..Len(s) : Append(s, e)[i] = s[i]
         /\ Append(s, e)[Len(s) + 1] = e
         /\ Append(s, e) # <<>>
  OBVIOUS

\* A new lane satisfies the invariant.
LEMMA InitInv == Init => Inv
<1> SUFFICES ASSUME Init PROVE Inv
  OBVIOUS
<1>1. /\ taken \in BOOLEAN
      /\ lane \in Seq(Calls \cup {Teardown})
  <2>1. taken = FALSE /\ lane = <<>>
    BY DEF Init
  <2>2. lane \in Seq(Calls \cup {Teardown})
    BY <2>1
  <2> QED
    BY <2>1, <2>2
<1>2. TypeOK
  <2>1. call \in [Calls -> CallStates] /\ release \in [Resources -> ReleaseStates]
    BY DEF Init, CallStates, ReleaseStates
  <2> QED
    BY <1>1, <2>1 DEF Init, TypeOK, Phases
<1>3. LaneInv /\ QueueInv
  BY DEF Init, LaneInv, QueueInv, sealed, Active, Calls
<1>4. BorrowersDrainFirst /\ CustodyInv /\ FinalizeIsLast
  BY DEF Init, BorrowersDrainFirst, CustodyInv, FinalizeIsLast, Finalizing
<1> QED
  BY <1>2, <1>3, <1>4 DEF Inv

\* Every step of the lane keeps every variable's type.
LEMMA TypeStep == TypeOK /\ LaneInv /\ QueueInv /\ [Next]_vars => TypeOK'
<1> SUFFICES ASSUME TypeOK, LaneInv, QueueInv, [Next]_vars PROVE TypeOK'
  OBVIOUS
<1> USE Disjoint DEF Calls
<1>1. ASSUME NEW b \in Borrowers, Admit(b) PROVE TypeOK'
  <2>1. call' \in [Calls -> CallStates] /\ release' \in [Resources -> ReleaseStates]
    BY <1>1 DEF Admit, TypeOK, CallStates, ReleaseStates
  <2>2. lane' \in Seq(Calls \cup {Teardown})
    BY <1>1 DEF Admit, TypeOK
  <2> QED
    BY <1>1, <2>1, <2>2 DEF Admit, TypeOK, Phases, work
<1>2. ASSUME NEW p \in Proofs, Serialize(p) PROVE TypeOK'
  <2>1. call' \in [Calls -> CallStates] /\ release' \in [Resources -> ReleaseStates]
    BY <1>2 DEF Serialize, TypeOK, CallStates, ReleaseStates
  <2>2. lane' \in Seq(Calls \cup {Teardown})
    BY <1>2 DEF Serialize, TypeOK
  <2> QED
    BY <1>2, <2>1, <2>2 DEF Serialize, TypeOK, Phases, work
<1>3. ASSUME NEW o \in Operations, Run(o) PROVE TypeOK'
  <2>1. call' \in [Calls -> CallStates] /\ release' \in [Resources -> ReleaseStates]
    BY <1>3 DEF Run, shared, TypeOK, CallStates, ReleaseStates
  <2>2. lane' \in Seq(Calls \cup {Teardown})
    BY <1>3 DEF Run, shared, TypeOK
  <2> QED
    BY <1>3, <2>1, <2>2 DEF Run, shared, TypeOK, Phases, work
<1>4. ASSUME NEW c \in Calls, Start(c) PROVE TypeOK'
  <2>1. call' \in [Calls -> CallStates] /\ release' \in [Resources -> ReleaseStates]
    BY <1>4 DEF Start, TypeOK, CallStates, ReleaseStates
  <2>2. lane' \in Seq(Calls \cup {Teardown})
    BY <1>4 DEF Start, TypeOK
  <2> QED
    BY <1>4, <2>1, <2>2 DEF Start, TypeOK, Phases, work
<1>5. ASSUME NEW c \in Calls, Settle(c) PROVE TypeOK'
  <2>1. call' \in [Calls -> CallStates] /\ release' \in [Resources -> ReleaseStates]
    BY <1>5 DEF Settle, TypeOK, CallStates, ReleaseStates
  <2>2. lane' \in Seq(Calls \cup {Teardown})
    <3>1. c \notin Borrowers => lane # <<>>
      BY <1>5 DEF Settle, QueueInv
    <3> QED
      BY <1>5, <3>1, TailFacts DEF Settle, TypeOK
  <2> QED
    BY <1>5, <2>1, <2>2 DEF Settle, TypeOK
<1>6. ASSUME NEW r \in Resources, Release(r) PROVE TypeOK'
  <2>1. call' \in [Calls -> CallStates] /\ release' \in [Resources -> ReleaseStates]
    BY <1>6 DEF Release, released, TypeOK, CallStates, ReleaseStates
  <2>2. lane' \in Seq(Calls \cup {Teardown})
    BY <1>6 DEF Release, released, TypeOK
  <2> QED
    BY <1>6, <2>1, <2>2 DEF Release, released, TypeOK, Phases, work
<1>7. ASSUME NEW r \in Resources, NEW c \in Calls, OwnFromCall(c, r) PROVE TypeOK'
  <2>1. call' \in [Calls -> CallStates] /\ release' \in [Resources -> ReleaseStates]
    BY <1>7 DEF OwnFromCall, Own, released, TypeOK, CallStates, ReleaseStates
  <2>2. lane' \in Seq(Calls \cup {Teardown})
    BY <1>7 DEF OwnFromCall, Own, released, TypeOK
  <2> QED
    BY <1>7, <2>1, <2>2 DEF OwnFromCall, Own, released, TypeOK, Phases, work
<1>8. ASSUME NEW r \in Resources, NEW q \in Resources, OwnFromRelease(q, r) PROVE TypeOK'
  <2>1. call' \in [Calls -> CallStates] /\ release' \in [Resources -> ReleaseStates]
    BY <1>8 DEF OwnFromRelease, Own, released, TypeOK, CallStates, ReleaseStates
  <2>2. lane' \in Seq(Calls \cup {Teardown})
    BY <1>8 DEF OwnFromRelease, Own, released, TypeOK
  <2> QED
    BY <1>8, <2>1, <2>2 DEF OwnFromRelease, Own, released, TypeOK, Phases, work
<1>9. ASSUME NEW r \in Resources, StrayOwn(r) PROVE TypeOK'
  <2>1. call' \in [Calls -> CallStates] /\ release' \in [Resources -> ReleaseStates]
    BY <1>9 DEF StrayOwn, Own, released, TypeOK, CallStates, ReleaseStates
  <2>2. lane' \in Seq(Calls \cup {Teardown})
    BY <1>9 DEF StrayOwn, Own, released, TypeOK
  <2> QED
    BY <1>9, <2>1, <2>2 DEF StrayOwn, Own, released, TypeOK, Phases, work
<1>10. ASSUME NEW r \in Resources, Dispose(r) PROVE TypeOK'
  <2>1. call' \in [Calls -> CallStates] /\ release' \in [Resources -> ReleaseStates]
    BY <1>10 DEF Dispose, TypeOK, CallStates, ReleaseStates
  <2>2. lane' \in Seq(Calls \cup {Teardown})
    BY <1>10 DEF Dispose, TypeOK
  <2> QED
    BY <1>10, <2>1, <2>2 DEF Dispose, TypeOK, Phases, work
<1>11. ASSUME NEW r \in Resources, Disposed(r) PROVE TypeOK'
  <2>1. call' \in [Calls -> CallStates] /\ release' \in [Resources -> ReleaseStates]
    BY <1>11 DEF Disposed, TypeOK, CallStates, ReleaseStates
  <2>2. lane' \in Seq(Calls \cup {Teardown})
    BY <1>11 DEF Disposed, TypeOK
  <2> QED
    BY <1>11, <2>1, <2>2 DEF Disposed, TypeOK, Phases, work
<1>12. ASSUME NEW kind \in {"close", "dispose"}, Close(kind) PROVE TypeOK'
  <2>1. call' \in [Calls -> CallStates] /\ release' \in [Resources -> ReleaseStates]
    BY <1>12 DEF Close, TypeOK, CallStates, ReleaseStates
  <2>2. lane' \in Seq(Calls \cup {Teardown})
    BY <1>12 DEF Close, TypeOK
  <2> QED
    BY <1>12, <2>1, <2>2 DEF Close, TypeOK, Phases, work
<1>13. ASSUME BeginTeardown PROVE TypeOK'
  <2>1. call' \in [Calls -> CallStates] /\ release' \in [Resources -> ReleaseStates]
    BY <1>13 DEF BeginTeardown, TypeOK, CallStates, ReleaseStates
  <2>2. lane' \in Seq(Calls \cup {Teardown})
    BY <1>13 DEF BeginTeardown, TypeOK
  <2> QED
    BY <1>13, <2>1, <2>2 DEF BeginTeardown, TypeOK, Phases, work
<1>14. ASSUME DrainMore PROVE TypeOK'
  <2>1. call' \in [Calls -> CallStates] /\ release' \in [Resources -> ReleaseStates]
    BY <1>14 DEF DrainMore, TypeOK, CallStates, ReleaseStates
  <2>2. lane' \in Seq(Calls \cup {Teardown})
    BY <1>14 DEF DrainMore, TypeOK
  <2> QED
    BY <1>14, <2>1, <2>2 DEF DrainMore, TypeOK, Phases, work
<1>15. ASSUME ReleaseOwned PROVE TypeOK'
  <2>1. call' \in [Calls -> CallStates] /\ release' \in [Resources -> ReleaseStates]
    BY <1>15 DEF ReleaseOwned, Drained, released, TypeOK, CallStates, ReleaseStates
  <2>2. lane' \in Seq(Calls \cup {Teardown})
    BY <1>15 DEF ReleaseOwned, Drained, released, TypeOK
  <2> QED
    BY <1>15, <2>1, <2>2 DEF ReleaseOwned, Drained, released, TypeOK, Phases, work
<1>16. ASSUME OwnedReleased PROVE TypeOK'
  <2>1. call' \in [Calls -> CallStates] /\ release' \in [Resources -> ReleaseStates]
    BY <1>16 DEF OwnedReleased, TypeOK, CallStates, ReleaseStates
  <2>2. lane' \in Seq(Calls \cup {Teardown})
    BY <1>16 DEF OwnedReleased, TypeOK
  <2> QED
    BY <1>16, <2>1, <2>2 DEF OwnedReleased, TypeOK, Phases, work
<1>17. ASSUME Finalize PROVE TypeOK'
  <2>1. call' \in [Calls -> CallStates] /\ release' \in [Resources -> ReleaseStates]
    BY <1>17 DEF Finalize, Drained, TypeOK, CallStates, ReleaseStates
  <2>2. lane' \in Seq(Calls \cup {Teardown})
    BY <1>17 DEF Finalize, Drained, TypeOK
  <2> QED
    BY <1>17, <2>1, <2>2 DEF Finalize, Drained, TypeOK, Phases, work
<1>18. ASSUME Finalized PROVE TypeOK'
  <2>1. call' \in [Calls -> CallStates] /\ release' \in [Resources -> ReleaseStates]
    BY <1>18 DEF Finalized, TypeOK, CallStates, ReleaseStates
  <2>2. lane' \in Seq(Calls \cup {Teardown})
    BY <1>18 DEF Finalized, TypeOK
  <2> QED
    BY <1>18, <2>1, <2>2 DEF Finalized, TypeOK, Phases, work
<1>19. ASSUME Closed PROVE TypeOK'
  <2>1. call' \in [Calls -> CallStates] /\ release' \in [Resources -> ReleaseStates]
    BY <1>19 DEF Closed, TypeOK, CallStates, ReleaseStates
  <2>2. lane' \in Seq(Calls \cup {Teardown})
    <3>1. lane # <<>>
      BY <1>19 DEF Closed, Drained, LaneInv, Active, TypeOK
    <3> QED
      BY <1>19, <3>1, TailFacts DEF Closed, TypeOK
  <2> QED
    BY <1>19, <2>1, <2>2 DEF Closed, TypeOK, Phases
<1>20. CASE UNCHANGED vars
  BY <1>20 DEF vars, TypeOK, CallStates, ReleaseStates, Phases, work, sealed
<1> QED
  BY <1>1, <1>2, <1>3, <1>4, <1>5, <1>6, <1>7, <1>8, <1>9, <1>10,
    <1>11, <1>12, <1>13, <1>14, <1>15, <1>16, <1>17, <1>18, <1>19, <1>20
    DEF Next, CallStep, ResourceStep, TeardownStep

\* Nothing is enqueued behind the teardown, and it runs when it heads the lane.
LEMMA LaneStep == TypeOK /\ LaneInv /\ QueueInv /\ [Next]_vars => LaneInv'
<1> SUFFICES ASSUME TypeOK, LaneInv, QueueInv, [Next]_vars PROVE LaneInv'
  OBVIOUS
<1> USE Disjoint DEF Calls
<1>1. ASSUME NEW b \in Borrowers, Admit(b) PROVE LaneInv'
  BY <1>1 DEF Admit, TypeOK, LaneInv, sealed, Active, Phases
<1>2. ASSUME NEW p \in Proofs, Serialize(p) PROVE LaneInv'
  BY <1>2 DEF Serialize, TypeOK, LaneInv, sealed, Active, Phases
<1>3. ASSUME NEW o \in Operations, Run(o) PROVE LaneInv'
  BY <1>3 DEF Run, shared, TypeOK, LaneInv, sealed, Active, Phases
<1>4. ASSUME NEW c \in Calls, Start(c) PROVE LaneInv'
  BY <1>4 DEF Start, TypeOK, LaneInv, sealed, Active, Phases
<1>5. ASSUME NEW c \in Calls, Settle(c) PROVE LaneInv'
  <2>1. CASE c \in Borrowers
    BY <1>5, <2>1 DEF Settle, LaneInv, sealed, Active
  <2>2. CASE c \notin Borrowers
    <3>1. lane # <<>> /\ lane[1] = c /\ c # Teardown
      BY <1>5, <2>2 DEF Settle, QueueInv
    <3>2. lane \in Seq(Calls \cup {Teardown}) /\ lane' = Tail(lane)
      BY <1>5, <2>2 DEF Settle, TypeOK
    <3> DEFINE L == Len(lane)
    <3>3. /\ L \in Nat \ {0} /\ Len(lane') = L - 1
          /\ \A i \in 1..(L - 1) : lane'[i] = lane[i + 1]
      BY <3>1, <3>2, TailFacts
    <3>4. teardown \notin Active /\ teardown # "closed"
      BY <3>1 DEF LaneInv
    <3>5. UNCHANGED <<teardown, how>>
      BY <1>5 DEF Settle
    <3>6. \A i \in 1..Len(lane') : lane'[i] = Teardown => i = Len(lane') /\ sealed'
      BY <3>3, <3>5 DEF LaneInv, sealed
    <3>7. teardown = "queued" => lane' # <<>> /\ lane'[Len(lane')] = Teardown
      <4> SUFFICES ASSUME teardown = "queued" PROVE lane' # <<>> /\ lane'[Len(lane')] = Teardown
        OBVIOUS
      <4>1. lane[L] = Teardown
        BY DEF LaneInv
      <4>2. L > 1
        BY <3>1, <3>3, <4>1
      <4>3. L - 1 \in 1..(L - 1) /\ (L - 1) + 1 = L
        BY <3>3, <4>2
      <4> QED
        BY <3>3, <4>1, <4>2, <4>3
    <3> QED
      BY <3>4, <3>5, <3>6, <3>7 DEF LaneInv, sealed
  <2> QED
    BY <2>1, <2>2
<1>6. ASSUME NEW r \in Resources, Release(r) PROVE LaneInv'
  BY <1>6 DEF Release, released, TypeOK, LaneInv, sealed, Active, Phases
<1>7. ASSUME NEW r \in Resources, NEW c \in Calls, OwnFromCall(c, r) PROVE LaneInv'
  BY <1>7 DEF OwnFromCall, Own, released, TypeOK, LaneInv, sealed, Active, Phases
<1>8. ASSUME NEW r \in Resources, NEW q \in Resources, OwnFromRelease(q, r) PROVE LaneInv'
  BY <1>8 DEF OwnFromRelease, Own, released, TypeOK, LaneInv, sealed, Active, Phases
<1>9. ASSUME NEW r \in Resources, StrayOwn(r) PROVE LaneInv'
  BY <1>9 DEF StrayOwn, Own, released, TypeOK, LaneInv, sealed, Active, Phases
<1>10. ASSUME NEW r \in Resources, Dispose(r) PROVE LaneInv'
  BY <1>10 DEF Dispose, TypeOK, LaneInv, sealed, Active, Phases
<1>11. ASSUME NEW r \in Resources, Disposed(r) PROVE LaneInv'
  BY <1>11 DEF Disposed, TypeOK, LaneInv, sealed, Active, Phases
<1>12. ASSUME NEW kind \in {"close", "dispose"}, Close(kind) PROVE LaneInv'
  <2> DEFINE L == Len(lane)
  <2>1. /\ Len(lane') = L + 1 /\ L \in Nat /\ lane' # <<>>
        /\ \A i \in 1..L : lane'[i] = lane[i]
        /\ lane'[L + 1] = Teardown
    BY <1>12, AppendFacts DEF Close, TypeOK
  <2>2. how' = kind /\ teardown' = "queued" /\ ~sealed
    BY <1>12 DEF Close
  <2>3. \A i \in 1..Len(lane') : lane'[i] = Teardown => i = Len(lane')
    BY <2>1, <2>2 DEF LaneInv
  <2>4. sealed'
    BY <2>2 DEF sealed
  <2> QED
    BY <2>1, <2>2, <2>3, <2>4 DEF LaneInv, Active
<1>13. ASSUME BeginTeardown PROVE LaneInv'
  <2>1. lane # <<>> /\ Head(lane) = Teardown
    BY <1>13 DEF BeginTeardown, LaneInv
  <2>2. lane[1] = Teardown /\ 1 \in 1..Len(lane) /\ Len(lane) \in Nat
    BY <2>1, TailFacts DEF TypeOK
  <2>3. Len(lane) = 1
    BY <2>2 DEF LaneInv
  <2>4. UNCHANGED <<lane, how>> /\ how # "none" /\ teardown' \in {"borrowers", "finalizing"}
    BY <1>13 DEF BeginTeardown, LaneInv, sealed
  <2>5. teardown' = "borrowers" => how = "dispose"
    BY <1>13 DEF BeginTeardown
  <2> QED
    BY <2>2, <2>3, <2>4, <2>5 DEF LaneInv, sealed, Active
<1>14. ASSUME DrainMore PROVE LaneInv'
  BY <1>14 DEF DrainMore, TypeOK, LaneInv, sealed, Active, Phases
<1>15. ASSUME ReleaseOwned PROVE LaneInv'
  BY <1>15 DEF ReleaseOwned, Drained, released, TypeOK, LaneInv, sealed, Active, Phases
<1>16. ASSUME OwnedReleased PROVE LaneInv'
  BY <1>16 DEF OwnedReleased, TypeOK, LaneInv, sealed, Active, Phases
<1>17. ASSUME Finalize PROVE LaneInv'
  BY <1>17 DEF Finalize, Drained, TypeOK, LaneInv, sealed, Active, Phases
<1>18. ASSUME Finalized PROVE LaneInv'
  BY <1>18 DEF Finalized, TypeOK, LaneInv, sealed, Active, Phases
<1>19. ASSUME Closed PROVE LaneInv'
  BY <1>19 DEF Closed, Drained, TypeOK, LaneInv, sealed, Active, Phases
<1>20. CASE UNCHANGED vars
  BY <1>20 DEF vars, TypeOK, LaneInv, sealed, Active, Phases
<1> QED
  BY <1>1, <1>2, <1>3, <1>4, <1>5, <1>6, <1>7, <1>8, <1>9, <1>10,
    <1>11, <1>12, <1>13, <1>14, <1>15, <1>16, <1>17, <1>18, <1>19, <1>20
    DEF Next, CallStep, ResourceStep, TeardownStep

\* An enqueued call in flight stays in the lane until it settles.
LEMMA QueueStep == TypeOK /\ LaneInv /\ QueueInv /\ [Next]_vars => QueueInv'
<1> SUFFICES ASSUME TypeOK /\ LaneInv /\ QueueInv, [Next]_vars PROVE QueueInv'
  OBVIOUS
<1> USE Disjoint DEF Calls
<1>1. ASSUME NEW b \in Borrowers, Admit(b) PROVE QueueInv'
  BY <1>1 DEF Admit, TypeOK, LaneInv, QueueInv, sealed, Active
<1>2. ASSUME NEW p \in Proofs, Serialize(p) PROVE QueueInv'
  BY <1>2 DEF Serialize, TypeOK, LaneInv, QueueInv, sealed, Active
<1>3. ASSUME NEW o \in Operations, Run(o) PROVE QueueInv'
  BY <1>3 DEF Run, shared, TypeOK, LaneInv, QueueInv, sealed, Active
<1>4. ASSUME NEW c \in Calls, Start(c) PROVE QueueInv'
  BY <1>4 DEF Start, TypeOK, LaneInv, QueueInv, sealed, Active
<1>5. ASSUME NEW c \in Calls, Settle(c) PROVE QueueInv'
  <2>1. CASE c \in Borrowers
    BY <1>5, <2>1 DEF Settle, QueueInv, TypeOK
  <2>2. CASE c \notin Borrowers
    <3>1. lane # <<>> /\ lane[1] = c
      BY <1>5, <2>2 DEF Settle, QueueInv
    <3>2. lane \in Seq(Calls \cup {Teardown}) /\ lane' = Tail(lane)
      BY <1>5, <2>2 DEF Settle, TypeOK
    <3> DEFINE L == Len(lane)
    <3>3. /\ L \in Nat \ {0} /\ Len(lane') = L - 1
          /\ \A i \in 1..(L - 1) : lane'[i] = lane[i + 1]
      BY <3>1, <3>2, TailFacts
    <3>4. \A d \in Calls : d # c => call'[d] = call[d]
      BY <1>5 DEF Settle, TypeOK
    <3>5. call'[c] = "settled"
      BY <1>5 DEF Settle, TypeOK
    <3> SUFFICES ASSUME NEW d \in Proofs \cup Operations, d # c,
                        call[d] \in {"admitted", "running"}
                 PROVE  call[d] # "running" /\ \E i \in 1..Len(lane') : lane'[i] = d
      BY <3>4, <3>5 DEF QueueInv
    <3>6. call[d] # "running"
      BY <3>1 DEF QueueInv
    <3>7. PICK i \in 1..L : lane[i] = d
      BY DEF QueueInv
    <3>8. i - 1 \in 1..(L - 1) /\ (i - 1) + 1 = i
      BY <3>1, <3>3, <3>7
    <3> QED
      BY <3>3, <3>6, <3>7, <3>8
  <2> QED
    BY <2>1, <2>2
<1>6. ASSUME NEW r \in Resources, Release(r) PROVE QueueInv'
  BY <1>6 DEF Release, released, TypeOK, LaneInv, QueueInv, sealed, Active
<1>7. ASSUME NEW r \in Resources, NEW c \in Calls, OwnFromCall(c, r) PROVE QueueInv'
  BY <1>7 DEF OwnFromCall, Own, released, TypeOK, LaneInv, QueueInv, sealed, Active
<1>8. ASSUME NEW r \in Resources, NEW q \in Resources, OwnFromRelease(q, r) PROVE QueueInv'
  BY <1>8 DEF OwnFromRelease, Own, released, TypeOK, LaneInv, QueueInv, sealed, Active
<1>9. ASSUME NEW r \in Resources, StrayOwn(r) PROVE QueueInv'
  BY <1>9 DEF StrayOwn, Own, released, TypeOK, LaneInv, QueueInv, sealed, Active
<1>10. ASSUME NEW r \in Resources, Dispose(r) PROVE QueueInv'
  BY <1>10 DEF Dispose, TypeOK, LaneInv, QueueInv, sealed, Active
<1>11. ASSUME NEW r \in Resources, Disposed(r) PROVE QueueInv'
  BY <1>11 DEF Disposed, TypeOK, LaneInv, QueueInv, sealed, Active
<1>12. ASSUME NEW kind \in {"close", "dispose"}, Close(kind) PROVE QueueInv'
  BY <1>12 DEF Close, TypeOK, LaneInv, QueueInv, sealed, Active
<1>13. ASSUME BeginTeardown PROVE QueueInv'
  BY <1>13 DEF BeginTeardown, TypeOK, LaneInv, QueueInv, sealed, Active
<1>14. ASSUME DrainMore PROVE QueueInv'
  BY <1>14 DEF DrainMore, TypeOK, LaneInv, QueueInv, sealed, Active
<1>15. ASSUME ReleaseOwned PROVE QueueInv'
  BY <1>15 DEF ReleaseOwned, Drained, released, TypeOK, LaneInv, QueueInv, sealed, Active
<1>16. ASSUME OwnedReleased PROVE QueueInv'
  BY <1>16 DEF OwnedReleased, TypeOK, LaneInv, QueueInv, sealed, Active
<1>17. ASSUME Finalize PROVE QueueInv'
  BY <1>17 DEF Finalize, Drained, TypeOK, LaneInv, QueueInv, sealed, Active
<1>18. ASSUME Finalized PROVE QueueInv'
  BY <1>18 DEF Finalized, TypeOK, LaneInv, QueueInv, sealed, Active
<1>19. ASSUME Closed PROVE QueueInv'
  BY <1>19 DEF Closed, Drained, TypeOK, LaneInv, QueueInv, sealed, Active
<1>20. CASE UNCHANGED vars
  BY <1>20 DEF vars, TypeOK, LaneInv, QueueInv, sealed, Active
<1> QED
  BY <1>1, <1>2, <1>3, <1>4, <1>5, <1>6, <1>7, <1>8, <1>9, <1>10,
    <1>11, <1>12, <1>13, <1>14, <1>15, <1>16, <1>17, <1>18, <1>19, <1>20
    DEF Next, CallStep, ResourceStep, TeardownStep

\* Once dispose() is past its first drain no call is in flight.
LEMMA BorrowerStep == TypeOK /\ LaneInv /\ QueueInv /\ BorrowersDrainFirst /\ [Next]_vars => BorrowersDrainFirst'
<1> SUFFICES ASSUME TypeOK /\ LaneInv /\ QueueInv /\ BorrowersDrainFirst, [Next]_vars PROVE BorrowersDrainFirst'
  OBVIOUS
<1> USE Disjoint DEF Calls
<1>1. ASSUME NEW b \in Borrowers, Admit(b) PROVE BorrowersDrainFirst'
  BY <1>1 DEF Admit, TypeOK, LaneInv, QueueInv, BorrowersDrainFirst, InFlight, sealed, Active, work, CallStates
<1>2. ASSUME NEW p \in Proofs, Serialize(p) PROVE BorrowersDrainFirst'
  BY <1>2 DEF Serialize, TypeOK, LaneInv, QueueInv, BorrowersDrainFirst, InFlight, sealed, Active, work, CallStates
<1>3. ASSUME NEW o \in Operations, Run(o) PROVE BorrowersDrainFirst'
  BY <1>3 DEF Run, shared, TypeOK, LaneInv, QueueInv, BorrowersDrainFirst, InFlight, sealed, Active, work, CallStates
<1>4. ASSUME NEW c \in Calls, Start(c) PROVE BorrowersDrainFirst'
  BY <1>4 DEF Start, TypeOK, LaneInv, QueueInv, BorrowersDrainFirst, InFlight, sealed, Active, work, CallStates
<1>5. ASSUME NEW c \in Calls, Settle(c) PROVE BorrowersDrainFirst'
  BY <1>5 DEF Settle, TypeOK, LaneInv, QueueInv, BorrowersDrainFirst, InFlight, sealed, Active, work, CallStates
<1>6. ASSUME NEW r \in Resources, Release(r) PROVE BorrowersDrainFirst'
  BY <1>6 DEF Release, released, TypeOK, LaneInv, QueueInv, BorrowersDrainFirst, InFlight, sealed, Active, work, CallStates
<1>7. ASSUME NEW r \in Resources, NEW c \in Calls, OwnFromCall(c, r) PROVE BorrowersDrainFirst'
  BY <1>7 DEF OwnFromCall, Own, released, TypeOK, LaneInv, QueueInv, BorrowersDrainFirst, InFlight, sealed, Active, work, CallStates
<1>8. ASSUME NEW r \in Resources, NEW q \in Resources, OwnFromRelease(q, r) PROVE BorrowersDrainFirst'
  BY <1>8 DEF OwnFromRelease, Own, released, TypeOK, LaneInv, QueueInv, BorrowersDrainFirst, InFlight, sealed, Active, work, CallStates
<1>9. ASSUME NEW r \in Resources, StrayOwn(r) PROVE BorrowersDrainFirst'
  BY <1>9 DEF StrayOwn, Own, released, TypeOK, LaneInv, QueueInv, BorrowersDrainFirst, InFlight, sealed, Active, work, CallStates
<1>10. ASSUME NEW r \in Resources, Dispose(r) PROVE BorrowersDrainFirst'
  BY <1>10 DEF Dispose, TypeOK, LaneInv, QueueInv, BorrowersDrainFirst, InFlight, sealed, Active, work, CallStates
<1>11. ASSUME NEW r \in Resources, Disposed(r) PROVE BorrowersDrainFirst'
  BY <1>11 DEF Disposed, TypeOK, LaneInv, QueueInv, BorrowersDrainFirst, InFlight, sealed, Active, work, CallStates
<1>12. ASSUME NEW kind \in {"close", "dispose"}, Close(kind) PROVE BorrowersDrainFirst'
  BY <1>12 DEF Close, TypeOK, LaneInv, QueueInv, BorrowersDrainFirst, InFlight, sealed, Active, work, CallStates
<1>13. ASSUME BeginTeardown PROVE BorrowersDrainFirst'
  BY <1>13 DEF BeginTeardown, TypeOK, LaneInv, QueueInv, BorrowersDrainFirst, InFlight, sealed, Active, work, CallStates
<1>14. ASSUME DrainMore PROVE BorrowersDrainFirst'
  BY <1>14 DEF DrainMore, TypeOK, LaneInv, QueueInv, BorrowersDrainFirst, InFlight, sealed, Active, work, CallStates
<1>15. ASSUME ReleaseOwned PROVE BorrowersDrainFirst'
  <2>1. \A c \in Borrowers \cup Proofs : call[c] \notin {"admitted", "running"}
    BY <1>15 DEF ReleaseOwned, Drained, work
  <2>2. Len(lane) = 1 /\ lane[1] = Teardown
    BY <1>15 DEF ReleaseOwned, Drained, LaneInv, Active
  <2>3. \A c \in Operations : call[c] \notin {"admitted", "running"}
    BY <2>2 DEF QueueInv
  <2> QED
    BY <1>15, <2>1, <2>3 DEF ReleaseOwned, BorrowersDrainFirst, InFlight
<1>16. ASSUME OwnedReleased PROVE BorrowersDrainFirst'
  BY <1>16 DEF OwnedReleased, TypeOK, LaneInv, QueueInv, BorrowersDrainFirst, InFlight, sealed, Active, work, CallStates
<1>17. ASSUME Finalize PROVE BorrowersDrainFirst'
  BY <1>17 DEF Finalize, Drained, TypeOK, LaneInv, QueueInv, BorrowersDrainFirst, InFlight, sealed, Active, work, CallStates
<1>18. ASSUME Finalized PROVE BorrowersDrainFirst'
  BY <1>18 DEF Finalized, TypeOK, LaneInv, QueueInv, BorrowersDrainFirst, InFlight, sealed, Active, work, CallStates
<1>19. ASSUME Closed PROVE BorrowersDrainFirst'
  BY <1>19 DEF Closed, Drained, TypeOK, LaneInv, QueueInv, BorrowersDrainFirst, InFlight, sealed, Active, work, CallStates
<1>20. CASE UNCHANGED vars
  BY <1>20 DEF vars, TypeOK, LaneInv, QueueInv, BorrowersDrainFirst, InFlight, sealed, Active, work, CallStates
<1> QED
  BY <1>1, <1>2, <1>3, <1>4, <1>5, <1>6, <1>7, <1>8, <1>9, <1>10,
    <1>11, <1>12, <1>13, <1>14, <1>15, <1>16, <1>17, <1>18, <1>19, <1>20
    DEF Next, CallStep, ResourceStep, TeardownStep

\* A resource the lane answers for is owned, or its release has begun.
LEMMA CustodyStep == TypeOK /\ LaneInv /\ CustodyInv /\ [Next]_vars => CustodyInv'
<1> SUFFICES ASSUME TypeOK /\ LaneInv /\ CustodyInv, [Next]_vars PROVE CustodyInv'
  OBVIOUS
<1> USE Disjoint DEF Calls
<1>1. ASSUME NEW b \in Borrowers, Admit(b) PROVE CustodyInv'
  BY <1>1 DEF Admit, TypeOK, LaneInv, CustodyInv, sealed, Active
<1>2. ASSUME NEW p \in Proofs, Serialize(p) PROVE CustodyInv'
  BY <1>2 DEF Serialize, TypeOK, LaneInv, CustodyInv, sealed, Active
<1>3. ASSUME NEW o \in Operations, Run(o) PROVE CustodyInv'
  BY <1>3 DEF Run, shared, TypeOK, LaneInv, CustodyInv, sealed, Active
<1>4. ASSUME NEW c \in Calls, Start(c) PROVE CustodyInv'
  BY <1>4 DEF Start, TypeOK, LaneInv, CustodyInv, sealed, Active
<1>5. ASSUME NEW c \in Calls, Settle(c) PROVE CustodyInv'
  BY <1>5 DEF Settle, TypeOK, LaneInv, CustodyInv, sealed, Active
<1>6. ASSUME NEW r \in Resources, Release(r) PROVE CustodyInv'
  BY <1>6 DEF Release, released, TypeOK, LaneInv, CustodyInv, sealed, Active
<1>7. ASSUME NEW r \in Resources, NEW c \in Calls, OwnFromCall(c, r) PROVE CustodyInv'
  BY <1>7 DEF OwnFromCall, Own, released, TypeOK, LaneInv, CustodyInv, sealed, Active
<1>8. ASSUME NEW r \in Resources, NEW q \in Resources, OwnFromRelease(q, r) PROVE CustodyInv'
  BY <1>8 DEF OwnFromRelease, Own, released, TypeOK, LaneInv, CustodyInv, sealed, Active
<1>9. ASSUME NEW r \in Resources, StrayOwn(r) PROVE CustodyInv'
  BY <1>9 DEF StrayOwn, Own, released, TypeOK, LaneInv, CustodyInv, sealed, Active
<1>10. ASSUME NEW r \in Resources, Dispose(r) PROVE CustodyInv'
  BY <1>10 DEF Dispose, TypeOK, LaneInv, CustodyInv, sealed, Active
<1>11. ASSUME NEW r \in Resources, Disposed(r) PROVE CustodyInv'
  BY <1>11 DEF Disposed, TypeOK, LaneInv, CustodyInv, sealed, Active
<1>12. ASSUME NEW kind \in {"close", "dispose"}, Close(kind) PROVE CustodyInv'
  BY <1>12 DEF Close, TypeOK, LaneInv, CustodyInv, sealed, Active
<1>13. ASSUME BeginTeardown PROVE CustodyInv'
  BY <1>13 DEF BeginTeardown, TypeOK, LaneInv, CustodyInv, sealed, Active
<1>14. ASSUME DrainMore PROVE CustodyInv'
  BY <1>14 DEF DrainMore, TypeOK, LaneInv, CustodyInv, sealed, Active
<1>15. ASSUME ReleaseOwned PROVE CustodyInv'
  BY <1>15 DEF ReleaseOwned, Drained, released, TypeOK, LaneInv, CustodyInv, sealed, Active
<1>16. ASSUME OwnedReleased PROVE CustodyInv'
  BY <1>16 DEF OwnedReleased, TypeOK, LaneInv, CustodyInv, sealed, Active
<1>17. ASSUME Finalize PROVE CustodyInv'
  BY <1>17 DEF Finalize, Drained, TypeOK, LaneInv, CustodyInv, sealed, Active
<1>18. ASSUME Finalized PROVE CustodyInv'
  BY <1>18 DEF Finalized, TypeOK, LaneInv, CustodyInv, sealed, Active
<1>19. ASSUME Closed PROVE CustodyInv'
  BY <1>19 DEF Closed, Drained, TypeOK, LaneInv, CustodyInv, sealed, Active
<1>20. CASE UNCHANGED vars
  BY <1>20 DEF vars, TypeOK, LaneInv, CustodyInv, sealed, Active
<1> QED
  BY <1>1, <1>2, <1>3, <1>4, <1>5, <1>6, <1>7, <1>8, <1>9, <1>10,
    <1>11, <1>12, <1>13, <1>14, <1>15, <1>16, <1>17, <1>18, <1>19, <1>20
    DEF Next, CallStep, ResourceStep, TeardownStep

\* When finalization starts all those releases are over, and no tracked work remains to add one.
LEMMA FinalStep == Inv /\ [Next]_vars => FinalizeIsLast'
<1> SUFFICES ASSUME Inv, [Next]_vars PROVE FinalizeIsLast'
  OBVIOUS
<1> USE Disjoint DEF Calls
<1>1. ASSUME NEW b \in Borrowers, Admit(b) PROVE FinalizeIsLast'
  BY <1>1 DEF Admit, Inv, TypeOK, LaneInv, CustodyInv, BorrowersDrainFirst, InFlight, FinalizeIsLast, Finalizing, sealed, Active, work, ReleaseStates
<1>2. ASSUME NEW p \in Proofs, Serialize(p) PROVE FinalizeIsLast'
  BY <1>2 DEF Serialize, Inv, TypeOK, LaneInv, CustodyInv, BorrowersDrainFirst, InFlight, FinalizeIsLast, Finalizing, sealed, Active, work, ReleaseStates
<1>3. ASSUME NEW o \in Operations, Run(o) PROVE FinalizeIsLast'
  BY <1>3 DEF Run, shared, Inv, TypeOK, LaneInv, CustodyInv, BorrowersDrainFirst, InFlight, FinalizeIsLast, Finalizing, sealed, Active, work, ReleaseStates
<1>4. ASSUME NEW c \in Calls, Start(c) PROVE FinalizeIsLast'
  BY <1>4 DEF Start, Inv, TypeOK, LaneInv, CustodyInv, BorrowersDrainFirst, InFlight, FinalizeIsLast, Finalizing, sealed, Active, work, ReleaseStates
<1>5. ASSUME NEW c \in Calls, Settle(c) PROVE FinalizeIsLast'
  BY <1>5 DEF Settle, Inv, TypeOK, LaneInv, CustodyInv, BorrowersDrainFirst, InFlight, FinalizeIsLast, Finalizing, sealed, Active, work, ReleaseStates
<1>6. ASSUME NEW r \in Resources, Release(r) PROVE FinalizeIsLast'
  BY <1>6 DEF Release, released, Inv, TypeOK, LaneInv, CustodyInv, BorrowersDrainFirst, InFlight, FinalizeIsLast, Finalizing, sealed, Active, work, ReleaseStates
<1>7. ASSUME NEW r \in Resources, NEW c \in Calls, OwnFromCall(c, r) PROVE FinalizeIsLast'
  BY <1>7 DEF OwnFromCall, Own, released, Inv, TypeOK, LaneInv, CustodyInv, BorrowersDrainFirst, InFlight, FinalizeIsLast, Finalizing, sealed, Active, work, ReleaseStates
<1>8. ASSUME NEW r \in Resources, NEW q \in Resources, OwnFromRelease(q, r) PROVE FinalizeIsLast'
  BY <1>8 DEF OwnFromRelease, Own, released, Inv, TypeOK, LaneInv, CustodyInv, BorrowersDrainFirst, InFlight, FinalizeIsLast, Finalizing, sealed, Active, work, ReleaseStates
<1>9. ASSUME NEW r \in Resources, StrayOwn(r) PROVE FinalizeIsLast'
  BY <1>9 DEF StrayOwn, Own, released, Inv, TypeOK, LaneInv, CustodyInv, BorrowersDrainFirst, InFlight, FinalizeIsLast, Finalizing, sealed, Active, work, ReleaseStates
<1>10. ASSUME NEW r \in Resources, Dispose(r) PROVE FinalizeIsLast'
  BY <1>10 DEF Dispose, Inv, TypeOK, LaneInv, CustodyInv, BorrowersDrainFirst, InFlight, FinalizeIsLast, Finalizing, sealed, Active, work, ReleaseStates
<1>11. ASSUME NEW r \in Resources, Disposed(r) PROVE FinalizeIsLast'
  BY <1>11 DEF Disposed, Inv, TypeOK, LaneInv, CustodyInv, BorrowersDrainFirst, InFlight, FinalizeIsLast, Finalizing, sealed, Active, work, ReleaseStates
<1>12. ASSUME NEW kind \in {"close", "dispose"}, Close(kind) PROVE FinalizeIsLast'
  BY <1>12 DEF Close, Inv, TypeOK, LaneInv, CustodyInv, BorrowersDrainFirst, InFlight, FinalizeIsLast, Finalizing, sealed, Active, work, ReleaseStates
<1>13. ASSUME BeginTeardown PROVE FinalizeIsLast'
  BY <1>13 DEF BeginTeardown, Inv, TypeOK, LaneInv, CustodyInv, BorrowersDrainFirst, InFlight, FinalizeIsLast, Finalizing, sealed, Active, work, ReleaseStates
<1>14. ASSUME DrainMore PROVE FinalizeIsLast'
  BY <1>14 DEF DrainMore, Inv, TypeOK, LaneInv, CustodyInv, BorrowersDrainFirst, InFlight, FinalizeIsLast, Finalizing, sealed, Active, work, ReleaseStates
<1>15. ASSUME ReleaseOwned PROVE FinalizeIsLast'
  BY <1>15 DEF ReleaseOwned, Drained, released, Inv, TypeOK, LaneInv, CustodyInv, BorrowersDrainFirst, InFlight, FinalizeIsLast, Finalizing, sealed, Active, work, ReleaseStates
<1>16. ASSUME OwnedReleased PROVE FinalizeIsLast'
  BY <1>16 DEF OwnedReleased, Inv, TypeOK, LaneInv, CustodyInv, BorrowersDrainFirst, InFlight, FinalizeIsLast, Finalizing, sealed, Active, work, ReleaseStates
<1>17. ASSUME Finalize PROVE FinalizeIsLast'
  BY <1>17 DEF Finalize, Drained, Inv, TypeOK, LaneInv, CustodyInv, BorrowersDrainFirst, InFlight, FinalizeIsLast, Finalizing, sealed, Active, work, ReleaseStates
<1>18. ASSUME Finalized PROVE FinalizeIsLast'
  BY <1>18 DEF Finalized, Inv, TypeOK, LaneInv, CustodyInv, BorrowersDrainFirst, InFlight, FinalizeIsLast, Finalizing, sealed, Active, work, ReleaseStates
<1>19. ASSUME Closed PROVE FinalizeIsLast'
  BY <1>19 DEF Closed, Drained, Inv, TypeOK, LaneInv, CustodyInv, BorrowersDrainFirst, InFlight, FinalizeIsLast, Finalizing, sealed, Active, work, ReleaseStates
<1>20. CASE UNCHANGED vars
  BY <1>20 DEF vars, Inv, TypeOK, LaneInv, CustodyInv, BorrowersDrainFirst, InFlight, FinalizeIsLast, Finalizing, sealed, Active, work, ReleaseStates
<1> QED
  BY <1>1, <1>2, <1>3, <1>4, <1>5, <1>6, <1>7, <1>8, <1>9, <1>10,
    <1>11, <1>12, <1>13, <1>14, <1>15, <1>16, <1>17, <1>18, <1>19, <1>20
    DEF Next, CallStep, ResourceStep, TeardownStep

-----------------------------------------------------------------------------
\* Inv holds in every reachable state of the lane.
THEOREM Invariance == Spec => []Inv
<1>1. Inv /\ [Next]_vars => Inv'
  BY TypeStep, LaneStep, QueueStep, BorrowerStep, CustodyStep, FinalStep DEF Inv
<1> QED
  BY <1>1, InitInv, PTL DEF Spec

\* Every variable keeps its type.
THEOREM TypeCorrect == Spec => []TypeOK
<1>1. Inv => TypeOK
  BY DEF Inv
<1> QED
  BY <1>1, Invariance, PTL

\* dispose() starts to release resources only when no admitted call can still use them.
THEOREM BorrowersFirst == Spec => []BorrowersDrainFirst
<1>1. Inv => BorrowersDrainFirst
  BY DEF Inv
<1> QED
  BY <1>1, Invariance, PTL

\* The owner's finalizer runs after the disposal of everything the lane answers for.
THEOREM FinalizationIsLast == Spec => []FinalizeIsLast
<1>1. Inv => FinalizeIsLast
  BY DEF Inv
<1> QED
  BY <1>1, Invariance, PTL

\* A step of a sealed lane adds no call to those in flight.
LEMMA SealStep == TypeOK /\ [Next]_vars => (sealed => InFlight' \subseteq InFlight)
<1> SUFFICES ASSUME TypeOK, [Next]_vars PROVE (sealed => InFlight' \subseteq InFlight)
  OBVIOUS
<1> USE Disjoint DEF Calls
<1>1. ASSUME NEW b \in Borrowers, Admit(b) PROVE (sealed => InFlight' \subseteq InFlight)
  BY <1>1 DEF Admit, TypeOK, InFlight, sealed, CallStates
<1>2. ASSUME NEW p \in Proofs, Serialize(p) PROVE (sealed => InFlight' \subseteq InFlight)
  BY <1>2 DEF Serialize, TypeOK, InFlight, sealed, CallStates
<1>3. ASSUME NEW o \in Operations, Run(o) PROVE (sealed => InFlight' \subseteq InFlight)
  BY <1>3 DEF Run, shared, TypeOK, InFlight, sealed, CallStates
<1>4. ASSUME NEW c \in Calls, Start(c) PROVE (sealed => InFlight' \subseteq InFlight)
  BY <1>4 DEF Start, TypeOK, InFlight, sealed, CallStates
<1>5. ASSUME NEW c \in Calls, Settle(c) PROVE (sealed => InFlight' \subseteq InFlight)
  BY <1>5 DEF Settle, TypeOK, InFlight, sealed, CallStates
<1>6. ASSUME NEW r \in Resources, Release(r) PROVE (sealed => InFlight' \subseteq InFlight)
  BY <1>6 DEF Release, released, TypeOK, InFlight, sealed, CallStates
<1>7. ASSUME NEW r \in Resources, NEW c \in Calls, OwnFromCall(c, r) PROVE (sealed => InFlight' \subseteq InFlight)
  BY <1>7 DEF OwnFromCall, Own, released, TypeOK, InFlight, sealed, CallStates
<1>8. ASSUME NEW r \in Resources, NEW q \in Resources, OwnFromRelease(q, r) PROVE (sealed => InFlight' \subseteq InFlight)
  BY <1>8 DEF OwnFromRelease, Own, released, TypeOK, InFlight, sealed, CallStates
<1>9. ASSUME NEW r \in Resources, StrayOwn(r) PROVE (sealed => InFlight' \subseteq InFlight)
  BY <1>9 DEF StrayOwn, Own, released, TypeOK, InFlight, sealed, CallStates
<1>10. ASSUME NEW r \in Resources, Dispose(r) PROVE (sealed => InFlight' \subseteq InFlight)
  BY <1>10 DEF Dispose, TypeOK, InFlight, sealed, CallStates
<1>11. ASSUME NEW r \in Resources, Disposed(r) PROVE (sealed => InFlight' \subseteq InFlight)
  BY <1>11 DEF Disposed, TypeOK, InFlight, sealed, CallStates
<1>12. ASSUME NEW kind \in {"close", "dispose"}, Close(kind) PROVE (sealed => InFlight' \subseteq InFlight)
  BY <1>12 DEF Close, TypeOK, InFlight, sealed, CallStates
<1>13. ASSUME BeginTeardown PROVE (sealed => InFlight' \subseteq InFlight)
  BY <1>13 DEF BeginTeardown, TypeOK, InFlight, sealed, CallStates
<1>14. ASSUME DrainMore PROVE (sealed => InFlight' \subseteq InFlight)
  BY <1>14 DEF DrainMore, TypeOK, InFlight, sealed, CallStates
<1>15. ASSUME ReleaseOwned PROVE (sealed => InFlight' \subseteq InFlight)
  BY <1>15 DEF ReleaseOwned, Drained, released, TypeOK, InFlight, sealed, CallStates
<1>16. ASSUME OwnedReleased PROVE (sealed => InFlight' \subseteq InFlight)
  BY <1>16 DEF OwnedReleased, TypeOK, InFlight, sealed, CallStates
<1>17. ASSUME Finalize PROVE (sealed => InFlight' \subseteq InFlight)
  BY <1>17 DEF Finalize, Drained, TypeOK, InFlight, sealed, CallStates
<1>18. ASSUME Finalized PROVE (sealed => InFlight' \subseteq InFlight)
  BY <1>18 DEF Finalized, TypeOK, InFlight, sealed, CallStates
<1>19. ASSUME Closed PROVE (sealed => InFlight' \subseteq InFlight)
  BY <1>19 DEF Closed, Drained, TypeOK, InFlight, sealed, CallStates
<1>20. CASE UNCHANGED vars
  BY <1>20 DEF vars, TypeOK, InFlight, sealed, CallStates
<1> QED
  BY <1>1, <1>2, <1>3, <1>4, <1>5, <1>6, <1>7, <1>8, <1>9, <1>10,
    <1>11, <1>12, <1>13, <1>14, <1>15, <1>16, <1>17, <1>18, <1>19, <1>20
    DEF Next, CallStep, ResourceStep, TeardownStep

\* A release only moves forward.
LEMMA DisposeStep == TypeOK /\ [Next]_vars => \A s \in Resources : release[s] \in {"disposing", "done"} => release'[s] \in {"done", release[s]}
<1> SUFFICES ASSUME TypeOK, [Next]_vars PROVE \A s \in Resources : release[s] \in {"disposing", "done"} => release'[s] \in {"done", release[s]}
  OBVIOUS
<1> USE Disjoint DEF Calls
<1>1. ASSUME NEW b \in Borrowers, Admit(b) PROVE \A s \in Resources : release[s] \in {"disposing", "done"} => release'[s] \in {"done", release[s]}
  BY <1>1 DEF Admit, TypeOK, ReleaseStates
<1>2. ASSUME NEW p \in Proofs, Serialize(p) PROVE \A s \in Resources : release[s] \in {"disposing", "done"} => release'[s] \in {"done", release[s]}
  BY <1>2 DEF Serialize, TypeOK, ReleaseStates
<1>3. ASSUME NEW o \in Operations, Run(o) PROVE \A s \in Resources : release[s] \in {"disposing", "done"} => release'[s] \in {"done", release[s]}
  BY <1>3 DEF Run, shared, TypeOK, ReleaseStates
<1>4. ASSUME NEW c \in Calls, Start(c) PROVE \A s \in Resources : release[s] \in {"disposing", "done"} => release'[s] \in {"done", release[s]}
  BY <1>4 DEF Start, TypeOK, ReleaseStates
<1>5. ASSUME NEW c \in Calls, Settle(c) PROVE \A s \in Resources : release[s] \in {"disposing", "done"} => release'[s] \in {"done", release[s]}
  BY <1>5 DEF Settle, TypeOK, ReleaseStates
<1>6. ASSUME NEW r \in Resources, Release(r) PROVE \A s \in Resources : release[s] \in {"disposing", "done"} => release'[s] \in {"done", release[s]}
  BY <1>6 DEF Release, released, TypeOK, ReleaseStates
<1>7. ASSUME NEW r \in Resources, NEW c \in Calls, OwnFromCall(c, r) PROVE \A s \in Resources : release[s] \in {"disposing", "done"} => release'[s] \in {"done", release[s]}
  BY <1>7 DEF OwnFromCall, Own, released, TypeOK, ReleaseStates
<1>8. ASSUME NEW r \in Resources, NEW q \in Resources, OwnFromRelease(q, r) PROVE \A s \in Resources : release[s] \in {"disposing", "done"} => release'[s] \in {"done", release[s]}
  BY <1>8 DEF OwnFromRelease, Own, released, TypeOK, ReleaseStates
<1>9. ASSUME NEW r \in Resources, StrayOwn(r) PROVE \A s \in Resources : release[s] \in {"disposing", "done"} => release'[s] \in {"done", release[s]}
  BY <1>9 DEF StrayOwn, Own, released, TypeOK, ReleaseStates
<1>10. ASSUME NEW r \in Resources, Dispose(r) PROVE \A s \in Resources : release[s] \in {"disposing", "done"} => release'[s] \in {"done", release[s]}
  BY <1>10 DEF Dispose, TypeOK, ReleaseStates
<1>11. ASSUME NEW r \in Resources, Disposed(r) PROVE \A s \in Resources : release[s] \in {"disposing", "done"} => release'[s] \in {"done", release[s]}
  BY <1>11 DEF Disposed, TypeOK, ReleaseStates
<1>12. ASSUME NEW kind \in {"close", "dispose"}, Close(kind) PROVE \A s \in Resources : release[s] \in {"disposing", "done"} => release'[s] \in {"done", release[s]}
  BY <1>12 DEF Close, TypeOK, ReleaseStates
<1>13. ASSUME BeginTeardown PROVE \A s \in Resources : release[s] \in {"disposing", "done"} => release'[s] \in {"done", release[s]}
  BY <1>13 DEF BeginTeardown, TypeOK, ReleaseStates
<1>14. ASSUME DrainMore PROVE \A s \in Resources : release[s] \in {"disposing", "done"} => release'[s] \in {"done", release[s]}
  BY <1>14 DEF DrainMore, TypeOK, ReleaseStates
<1>15. ASSUME ReleaseOwned PROVE \A s \in Resources : release[s] \in {"disposing", "done"} => release'[s] \in {"done", release[s]}
  BY <1>15 DEF ReleaseOwned, Drained, released, TypeOK, ReleaseStates
<1>16. ASSUME OwnedReleased PROVE \A s \in Resources : release[s] \in {"disposing", "done"} => release'[s] \in {"done", release[s]}
  BY <1>16 DEF OwnedReleased, TypeOK, ReleaseStates
<1>17. ASSUME Finalize PROVE \A s \in Resources : release[s] \in {"disposing", "done"} => release'[s] \in {"done", release[s]}
  BY <1>17 DEF Finalize, Drained, TypeOK, ReleaseStates
<1>18. ASSUME Finalized PROVE \A s \in Resources : release[s] \in {"disposing", "done"} => release'[s] \in {"done", release[s]}
  BY <1>18 DEF Finalized, TypeOK, ReleaseStates
<1>19. ASSUME Closed PROVE \A s \in Resources : release[s] \in {"disposing", "done"} => release'[s] \in {"done", release[s]}
  BY <1>19 DEF Closed, Drained, TypeOK, ReleaseStates
<1>20. CASE UNCHANGED vars
  BY <1>20 DEF vars, TypeOK, ReleaseStates
<1> QED
  BY <1>1, <1>2, <1>3, <1>4, <1>5, <1>6, <1>7, <1>8, <1>9, <1>10,
    <1>11, <1>12, <1>13, <1>14, <1>15, <1>16, <1>17, <1>18, <1>19, <1>20
    DEF Next, CallStep, ResourceStep, TeardownStep

\* A sealed lane starts no call it had not admitted.
THEOREM SealIsFinal == Spec => SealedAdmitsNothing
<1>1. Inv => TypeOK
  BY DEF Inv
<1>2. TypeOK /\ [Next]_vars => [sealed => InFlight' \subseteq InFlight]_vars
  BY SealStep
<1> QED
  BY <1>1, <1>2, Invariance, PTL DEF Spec, SealedAdmitsNothing

\* No resource is disposed of twice.
THEOREM DisposedAtMostOnce == Spec => DisposedOnce
<1>1. Inv => TypeOK
  BY DEF Inv
<1>2. TypeOK /\ [Next]_vars =>
        [\A r \in Resources : release[r] \in {"disposing", "done"} => release'[r] \in {"done", release[r]}]_vars
  BY DisposeStep
<1> QED
  BY <1>1, <1>2, Invariance, PTL DEF Spec, DisposedOnce

\* What the run `progress` checks at every moment of a lane (RuntimeLifecycleLane).
THEOREM LaneIsSafe == Spec => []LaneSafe
  BY TypeCorrect, BorrowersFirst, FinalizationIsLast, PTL DEF LaneSafe

\* ... and what it checks of every step.
THEOREM LaneStepsHold == Spec => LaneSteps
  BY SealIsFinal, DisposedAtMostOnce DEF LaneSteps

-----------------------------------------------------------------------------
(* The source: what waits to be analysed, and what a prediction rests on.   *)

Batches == [n : Turns, events : SUBSET Orders, on : Analyzers]
Waiting == [kind : {"propose", "after"}, n : Turns, by : Orders \cup {0}, ahead : Nat, on : Analyzers]
SourceType ==
  /\ turn \in [n : 0..MaxTurns, open : BOOLEAN] /\ (turn.open => turn.n > 0)
  /\ batch \in [Turns -> SUBSET Orders] /\ setting \in Analyzers
  /\ tail \in Seq(Batches) /\ ended \in Nat /\ analysed \in Seq(Turns \X SUBSET Orders)
  /\ ops \subseteq Waiting /\ \A op \in ops : op.n <= turn.n /\ (op.kind = "after" => op.by \in Orders)
  /\ leased \in [Analyzers -> {"none", "opening", "open"}]
  /\ carried = [id |-> carried.id, base |-> carried.base, pending |-> carried.pending, abandoned |-> carried.abandoned]
  /\ carried.pending \in BOOLEAN /\ carried.abandoned \in BOOLEAN
  /\ live \in [Turns \X Orders -> {"none", "submitted", "held", "lost"}]
  /\ silent \in [Turns -> BOOLEAN] /\ life \in {"no", "sealed", "disposed"} /\ failures \in Nat

\* The batch of a turn that is over is what waits for its analysis, and waits behind those of earlier turns.
Over(n) == n < turn.n \/ (n = turn.n /\ ~turn.open)
InLine(i) ==
  /\ tail[i].n <= turn.n
  /\ tail[i].events # {} => /\ Over(tail[i].n) /\ tail[i].events = batch[tail[i].n]
                            /\ \A j \in 1..Len(tail) : i < j /\ tail[j].events # {} => tail[i].n < tail[j].n
                            /\ \A j \in 1..Len(analysed) : analysed[j][1] < tail[i].n
TailTrue == \A i \in 1..Len(tail) : InLine(i)
AnalysedTrue == \A j \in 1..Len(analysed) : Over(analysed[j][1])

\* A batch that was handed over was analysed, or is ahead of every prediction of a later turn.
HandedOver(p) == p < turn.n \/ (p = turn.n /\ ~turn.open /\ life = "no")
Ahead(p) ==
  \E i \in 1..Len(tail) :
    /\ tail[i].n = p /\ tail[i].events # {}
    /\ \A op \in ops : op.kind = "propose" /\ op.n > p => op.ahead >= ended + i
NoneMissing ==
  failures = 0 => \A p \in Turns : HandedOver(p) /\ batch[p] # {} => p \in Learned(analysed) \/ Ahead(p)

\* What is carried as settled is what the runtime holds.
CarriedTrue ==
  carried.base # <<>> /\ life = "no" =>
    /\ carried.id \in Turns \X Orders
    /\ ~carried.pending /\ ~carried.abandoned => live[carried.id] = "held"

EndsEmpty == life = "disposed" => ops = {} /\ tail = <<>>

LearnedInv == TailTrue /\ AnalysedTrue /\ NoneMissing /\ LearnsInOrder
SourceInv == SourceType /\ LearnedInv /\ CarriedTrue /\ EndsEmpty /\ LeasesReturned

-----------------------------------------------------------------------------
(* The file: which store may write, and what it knows.                      *)

LeasePhases == {"none", "opening", "held", "releasing", "done"}
StoreRecords ==
  [made : BOOLEAN, ready : BOOLEAN, refs : Nat, items : SUBSET Items, dirty : BOOLEAN, timer : BOOLEAN,
   write : {"none", "queued", "writing"}, snap : SUBSET Items]
PersistType ==
  /\ file \subseteq Items /\ current \in Stores \cup {0} /\ troubles \in Nat
  /\ store \in [Stores -> StoreRecords]
  /\ lease \in [Sessions -> [phase : LeasePhases, on : Stores \cup {0}]]
  /\ flush \in [Flushers -> {"idle", "wait"}]

\* The sessions that still count for a store; what counts or waits is at the current store.
Users(g) == {s \in Sessions : lease[s].on = g /\ lease[s].phase \in {"opening", "held"}}
LeaseAgrees(s) ==
  /\ lease[s].phase \in {"opening", "held", "releasing"} <=> lease[s].on # 0
  /\ lease[s].on # 0 => lease[s].on = current
  /\ lease[s].phase \in {"held", "releasing"} => store[current].ready
  /\ lease[s].phase = "releasing" => flush[s] = "wait"
LeasesAgree == \A s \in Sessions : LeaseAgrees(s)
UsersCounted == \A g \in Stores : IsFiniteSet(Users(g)) /\ store[g].refs = Cardinality(Users(g))
FlushesWait == \A f \in Flushers : flush[f] = "wait" => On(f) = current /\ current # 0 /\ store[current].write # "none"

\* Only the current store writes; it knows all that the file has, and what it writes is what it knows.
StoreKnows(g) ==
  /\ ~store[g].made => store[g] = NoStore
  /\ ~store[g].ready => ~store[g].dirty /\ ~store[g].timer /\ store[g].write = "none" /\ store[g].items = {}
  /\ g # current => store[g].write = "none" /\ ~store[g].timer /\ (store[g].made => store[g].ready)
  /\ g = current => store[g].made
  /\ store[g].timer => \E s \in Users(g) : lease[s].phase = "held"
  /\ g = current /\ store[g].ready => file \subseteq store[g].items
  /\ store[g].write = "writing" => /\ file \subseteq store[g].snap /\ store[g].snap \subseteq store[g].items
                                   /\ ~store[g].dirty => store[g].items \subseteq store[g].snap
StoresKnow == \A g \in Stores : StoreKnows(g)

PersistRest == LeasesAgree /\ UsersCounted /\ FlushesWait /\ StoresKnow /\ CleanIsWritten
PersistInv == PersistType /\ PersistRest

-----------------------------------------------------------------------------
\* Nothing is observed, analysed or carried at first.
LEMMA SourceStart == PatternSourceInit => SourceInv
  <1> SUFFICES ASSUME PatternSourceInit PROVE SourceInv
    OBVIOUS
  <1>1. SourceType
    BY TurnsSetting DEF PatternSourceInit, SourceType, NoCarried, Turns
  <1>2. LearnedInv
    BY TurnsSetting DEF PatternSourceInit, LearnedInv, TailTrue, InLine, AnalysedTrue, NoneMissing, LearnsInOrder, HandedOver, Turns
  <1>3. CarriedTrue
    BY DEF PatternSourceInit, CarriedTrue, NoCarried
  <1>4. QED
    BY <1>1, <1>2, <1>3 DEF PatternSourceInit, SourceInv, EndsEmpty, LeasesReturned

\* Every action keeps the types; an observation belongs to a turn that has begun.
LEMMA SourceTyped == SourceInv /\ PatternSourceNext => SourceType'
  <1> SUFFICES ASSUME SourceInv, PatternSourceNext PROVE SourceType'
    OBVIOUS
  <1> USE DEF SourceInv
  <1>1. ASSUME NEW k \in Analyzers, OpenStore(k) PROVE SourceType'
    BY <1>1 DEF OpenStore, SourceType
  <1>2. ASSUME NEW k \in Analyzers, StoreOpened(k) PROVE SourceType'
    BY <1>2 DEF StoreOpened, SourceType
  <1>3. ASSUME NEW k \in Analyzers, OpenFails(k) PROVE SourceType'
    <2>1. tail' \in Seq(Batches) /\ ended' \in Nat
      <3>1. tail \in Seq(Batches) /\ (tail # <<>> => Tail(tail) \in Seq(Batches))
        BY TailFacts DEF SourceType
      <3>2. (tail # <<>> /\ tail' = Tail(tail) /\ ended' = ended + 1) \/ UNCHANGED <<tail, ended>>
        BY <1>3 DEF OpenFails
      <3>3. ended \in Nat
        BY DEF SourceType
      <3>4. QED
        BY <3>1, <3>2, <3>3
    <2>2. QED
      BY <1>3, <2>1 DEF OpenFails, SourceType
  <1>4. CASE StartTurn
    <2>1. turn.n + 1 \in Turns /\ turn' = [n |-> turn.n + 1, open |-> TRUE] /\ turn'.n = turn.n + 1
      BY <1>4, TurnsSetting DEF StartTurn, SourceType, Turns
    <2>2. [n |-> turn.n + 1, events |-> {}, on |-> setting'] \in Batches
      BY <1>4, <2>1 DEF StartTurn, Batches
    <2>3. tail' \in Seq(Batches) /\ Len(tail) \in Nat
      BY <1>4, <2>2, AppendFacts DEF StartTurn, SourceType, Entered
    <2>4. [kind |-> "propose", n |-> turn.n + 1, by |-> 0, ahead |-> ended + Len(tail) + 1, on |-> setting'] \in Waiting
      BY <1>4, <2>1, <2>3 DEF StartTurn, Waiting, SourceType
    <2>5. ops' \subseteq Waiting /\ \A op \in ops' : op.n <= turn'.n /\ (op.kind = "after" => op.by \in Orders)
      <3>1. \A op \in ops : op.n <= turn'.n
        BY <2>1 DEF SourceType, Waiting, Turns
      <3>2. QED
        BY <1>4, <2>1, <2>4, <3>1 DEF StartTurn, SourceType
    <2>6. turn' \in [n : 0..MaxTurns, open : BOOLEAN] /\ (turn'.open => turn'.n > 0)
      BY <2>1, TurnsSetting DEF SourceType, Turns
    <2>7. QED
      BY <1>4, <2>3, <2>5, <2>6 DEF StartTurn, SourceType
  <1>5. CASE FinishTurn
    <2>1. turn.n \in Turns /\ [n |-> turn.n, events |-> batch[turn.n], on |-> setting] \in Batches
      BY <1>5, TurnsSetting DEF FinishTurn, SourceType, Turns, Batches
    <2>2. tail' \in Seq(Batches)
      <3>1. tail \in Seq(Batches) /\ Append(tail, [n |-> turn.n, events |-> batch[turn.n], on |-> setting]) \in Seq(Batches)
        BY <2>1, AppendFacts DEF SourceType
      <3>2. QED
        BY <1>5, <3>1 DEF FinishTurn
    <2>3. turn' \in [n : 0..MaxTurns, open : BOOLEAN] /\ turn'.n = turn.n /\ ~turn'.open
      BY <1>5 DEF FinishTurn, SourceType
    <2>4. QED
      BY <1>5, <2>2, <2>3 DEF FinishTurn, SourceType
  <1>6. CASE Analyse
    <2>1. tail' \in Seq(Batches) /\ ended' \in Nat /\ Head(tail) \in Batches
      BY <1>6, TailFacts DEF Analyse, SourceType
    <2>2. analysed' \in Seq(Turns \X SUBSET Orders)
      BY <1>6, <2>1, AppendFacts DEF Analyse, SourceType, Batches
    <2>3. QED
      BY <1>6, <2>1, <2>2 DEF Analyse, SourceType
  <1>7. CASE Seal
    BY <1>7 DEF Seal, SourceType
  <1>8. CASE DisposeSource
    BY <1>8 DEF DisposeSource, SourceType
  <1>9. ASSUME NEW o \in Orders, Observe(o) PROVE SourceType'
    <2>1. turn.n \in Turns /\ Len(tail) \in Nat
      BY <1>9, TurnsSetting DEF Observe, SourceType, Turns
    <2>2. batch' \in [Turns -> SUBSET Orders]
      BY <1>9, <2>1 DEF Observe, SourceType
    <2>3. [kind |-> "after", n |-> turn.n, by |-> o, ahead |-> ended + Len(tail), on |-> setting] \in Waiting
      BY <2>1 DEF Waiting, SourceType
    <2>4. ops' \subseteq Waiting /\ \A op \in ops' : op.n <= turn'.n /\ (op.kind = "after" => op.by \in Orders)
      BY <1>9, <2>1, <2>3 DEF Observe, SourceType, Turns
    <2>5. QED
      BY <1>9, <2>2, <2>4 DEF Observe, SourceType
  <1>10. ASSUME NEW op \in ops, Follow(op) PROVE SourceType'
    BY <1>10 DEF Follow, SourceType
  <1>11. ASSUME NEW op \in ops, Propose(op) PROVE SourceType'
    BY <1>11 DEF Propose, SourceType, NoCarried
  <1>12. ASSUME NEW i \in Turns \X Orders, Admitted(i) \/ Lose(i) PROVE SourceType'
    <2>1. live' \in [Turns \X Orders -> {"none", "submitted", "held", "lost"}]
      BY <1>12 DEF Admitted, Lose, SourceType
    <2>2. /\ carried' = [id |-> carried'.id, base |-> carried'.base, pending |-> carried'.pending, abandoned |-> carried'.abandoned]
          /\ carried'.pending \in BOOLEAN /\ carried'.abandoned \in BOOLEAN
      BY <1>12 DEF Admitted, Lose, SourceType
    <2>3. QED
      BY <1>12, <2>1, <2>2 DEF Admitted, Lose, SourceType
  <1>13. QED
    BY <1>1, <1>2, <1>3, <1>4, <1>5, <1>6, <1>7, <1>8, <1>9, <1>10, <1>11, <1>12 DEF PatternSourceNext, Predict
-----------------------------------------------------------------------------
\* Steps that neither hand a batch over nor analyse one keep what is known of both.
LEMMA LearnedKept ==
  ASSUME SourceInv, UNCHANGED <<turn, batch, tail, ended, analysed, failures>>, ops' \subseteq ops, life' = "no" => life = "no"
  PROVE  LearnedInv'
  <1> USE DEF SourceInv, LearnedInv
  <1>1. TailTrue' /\ AnalysedTrue' /\ LearnsInOrder'
    BY DEF TailTrue, InLine, AnalysedTrue, LearnsInOrder, Over
  <1>2. ASSUME NEW p \in Turns, Ahead(p) PROVE Ahead(p)'
    BY <1>2 DEF Ahead
  <1>3. NoneMissing'
    BY <1>2 DEF NoneMissing, HandedOver, Learned
  <1>4. QED
    BY <1>1, <1>3

\* A prediction that begins with a turn waits for all that is in line.
LEMMA LearnedAtStart == ASSUME SourceInv, SourceType', StartTurn PROVE LearnedInv'
  <1> USE DEF SourceInv, LearnedInv
  <1> DEFINE entry == [n |-> turn.n + 1, events |-> {}, on |-> setting']
             op0 == [kind |-> "propose", n |-> turn.n + 1, by |-> 0, ahead |-> ended + Len(tail) + 1, on |-> setting']
  <1>1. /\ turn'.n = turn.n + 1 /\ turn'.open /\ turn.n \in Nat /\ ~turn.open /\ life = "no"
        /\ UNCHANGED <<batch, ended, analysed, failures>> /\ ops' = ops \cup {op0} /\ tail' = Append(tail, entry)
    BY DEF StartTurn, SourceType, Entered
  <1>2. entry \in Batches
    BY <1>1 DEF SourceType, Batches, Turns
  <1>3. /\ Len(tail') = Len(tail) + 1 /\ Len(tail) \in Nat /\ tail'[Len(tail) + 1] = entry
        /\ \A i \in 1..Len(tail) : tail'[i] = tail[i]
    BY <1>1, <1>2, AppendFacts DEF SourceType
  <1>4. \A i \in 1..Len(tail) : tail[i] \in Batches
    BY DEF SourceType
  <1>5. TailTrue'
    <2>1. SUFFICES ASSUME NEW i \in 1..Len(tail') PROVE InLine(i)'
      BY DEF TailTrue
    <2>2. CASE i = Len(tail) + 1
      BY <1>1, <1>3, <2>2 DEF InLine
    <2>3. CASE i \in 1..Len(tail)
      <3>1. tail'[i] = tail[i] /\ tail[i].n \in Nat
        BY <1>3, <1>4, <2>3 DEF Batches, Turns
      <3>2. tail[i].n <= turn.n /\ (tail[i].events # {} => Over(tail[i].n) /\ tail[i].events = batch[tail[i].n])
        BY <2>3 DEF TailTrue, InLine
      <3>3. tail[i].events # {} => \A j \in 1..Len(analysed) : analysed[j][1] < tail[i].n
        BY <2>3 DEF TailTrue, InLine
      <3>4. tail[i].events # {} => \A j \in 1..Len(tail') : i < j /\ tail'[j].events # {} => tail'[i].n < tail'[j].n
        BY <1>3, <2>3 DEF TailTrue, InLine
      <3>5. tail[i].n <= turn'.n /\ tail[i].n < turn'.n
        BY <1>1, <3>1, <3>2
      <3>6. QED
        BY <1>1, <3>1, <3>2, <3>3, <3>4, <3>5 DEF InLine, Over
    <2>4. QED
      BY <1>3, <2>2, <2>3
  <1>6. AnalysedTrue' /\ LearnsInOrder'
    <2>1. \A j \in 1..Len(analysed) : analysed[j][1] \in Nat
      BY DEF SourceType, Turns
    <2>2. QED
      BY <1>1, <2>1 DEF AnalysedTrue, LearnsInOrder, Over
  <1>7. NoneMissing'
    <2>1. SUFFICES ASSUME failures = 0, NEW p \in Turns, HandedOver(p)', batch[p] # {} PROVE p \in Learned(analysed) \/ Ahead(p)'
      BY <1>1 DEF NoneMissing, Learned
    <2>2. p < turn.n + 1 /\ p \in Nat /\ HandedOver(p)
      BY <1>1, <2>1 DEF HandedOver, Turns
    <2>3. SUFFICES ASSUME Ahead(p) PROVE Ahead(p)'
      BY <2>1, <2>2 DEF NoneMissing
    <2>4. PICK i \in 1..Len(tail) : tail[i].n = p /\ tail[i].events # {}
                                    /\ \A op \in ops : op.kind = "propose" /\ op.n > p => op.ahead >= ended + i
      BY <2>3 DEF Ahead
    <2>5. tail'[i] = tail[i] /\ i \in 1..Len(tail') /\ op0.ahead >= ended + i
      BY <1>3, <2>4 DEF SourceType
    <2>6. \A op \in ops' : op.kind = "propose" /\ op.n > p => op.ahead >= ended' + i
      BY <1>1, <2>4, <2>5
    <2>7. QED
      BY <2>4, <2>5, <2>6 DEF Ahead
  <1>8. QED
    BY <1>5, <1>6, <1>7
\* Only the batch of the open turn grows, and it was not handed over.
LEMMA LearnedAtObservation == ASSUME SourceInv, SourceType', NEW o \in Orders, Observe(o) PROVE LearnedInv'
  <1> USE DEF SourceInv, LearnedInv
  <1> DEFINE op0 == [kind |-> "after", n |-> turn.n, by |-> o, ahead |-> ended + Len(tail), on |-> setting]
  <1>1. /\ UNCHANGED <<turn, tail, ended, analysed, failures, life>> /\ ops' = ops \cup {op0} /\ turn.n \in Turns
        /\ \A n \in Turns : batch'[n] # batch[n] => n = turn.n /\ turn.open
    BY TurnsSetting DEF Observe, SourceType, Turns
  <1>2. \A n \in Turns : Over(n) => batch'[n] = batch[n] /\ n \in Nat
    BY <1>1 DEF Over, Turns
  <1>3. \A i \in 1..Len(tail) : tail[i] \in Batches
    BY DEF SourceType
  <1>4. \A i \in 1..Len(analysed) : analysed[i][1] \in Turns
    BY DEF SourceType
  <1>5. TailTrue'
    BY <1>1, <1>2, <1>3 DEF TailTrue, InLine, Over, Batches
  <1>6. AnalysedTrue' /\ LearnsInOrder'
    BY <1>1, <1>2, <1>4 DEF AnalysedTrue, LearnsInOrder, Over
  <1>7. NoneMissing'
    <2>1. ASSUME NEW p \in Turns, Ahead(p) PROVE Ahead(p)'
      BY <1>1, <2>1 DEF Ahead
    <2>2. \A p \in Turns : HandedOver(p)' => HandedOver(p) /\ batch'[p] = batch[p]
      BY <1>1 DEF HandedOver, Turns
    <2>3. QED
      BY <1>1, <2>1, <2>2 DEF NoneMissing, Learned
  <1>8. QED
    BY <1>5, <1>6, <1>7

\* The batch that is handed over is the latest, behind every other.
LEMMA LearnedAtEnd == ASSUME SourceInv, SourceType', FinishTurn PROVE LearnedInv'
  <1> USE DEF SourceInv, LearnedInv
  <1> DEFINE entry == [n |-> turn.n, events |-> batch[turn.n], on |-> setting]
  <1>1. /\ turn.open /\ turn.n \in Turns /\ turn'.n = turn.n /\ ~turn'.open
        /\ UNCHANGED <<batch, ended, analysed, ops, failures, life>>
        /\ life # "no" => tail' = tail
        /\ life = "no" => tail' = Append(tail, entry)
    BY TurnsSetting DEF FinishTurn, SourceType, Turns
  <1>2. entry \in Batches
    BY <1>1 DEF SourceType, Batches
  <1>3. /\ \A i \in 1..Len(tail) : tail[i] \in Batches /\ tail[i].n \in Nat
        /\ \A i \in 1..Len(analysed) : analysed[i][1] \in Nat
        /\ turn.n \in Nat /\ Len(tail) \in Nat
    <2>1. \A i \in 1..Len(tail) : tail[i] \in Batches
      BY DEF SourceType
    <2>2. \A i \in 1..Len(analysed) : analysed[i][1] \in Turns
      BY DEF SourceType
    <2>3. QED
      BY <1>1, <2>1, <2>2 DEF SourceType, Turns, Batches
  <1>4. AnalysedTrue' /\ LearnsInOrder'
    BY <1>1, <1>3 DEF AnalysedTrue, LearnsInOrder, Over
  <1>5. \A i \in 1..Len(tail) : tail[i].events # {} => tail[i].n < turn.n
    BY <1>1, <1>3 DEF TailTrue, InLine, Over
  <1>6. \A i \in 1..Len(analysed) : analysed[i][1] < turn.n
    BY <1>1, <1>3 DEF AnalysedTrue, Over
  <1>7. CASE life # "no"
    <2>1. TailTrue'
      BY <1>1, <1>3, <1>5, <1>7 DEF TailTrue, InLine, Over
    <2>2. ASSUME NEW p \in Turns, Ahead(p) PROVE Ahead(p)'
      BY <1>1, <1>7, <2>2 DEF Ahead
    <2>3. NoneMissing'
      BY <1>1, <1>7, <2>2 DEF NoneMissing, Learned, HandedOver
    <2>4. QED
      BY <1>4, <2>1, <2>3
  <1>8. CASE life = "no"
    <2>1. /\ Len(tail') = Len(tail) + 1 /\ tail'[Len(tail) + 1] = entry
          /\ \A i \in 1..Len(tail) : tail'[i] = tail[i]
      BY <1>1, <1>2, <1>8, AppendFacts DEF SourceType
    <2>2. TailTrue'
      <3>1. SUFFICES ASSUME NEW i \in 1..Len(tail') PROVE InLine(i)'
        BY DEF TailTrue
      <3>2. CASE i = Len(tail) + 1
        BY <1>1, <1>3, <1>6, <2>1, <3>2 DEF InLine, Over
      <3>3. CASE i \in 1..Len(tail)
        <4>1. InLine(i) /\ tail'[i] = tail[i] /\ tail[i].n \in Nat
          BY <1>3, <2>1, <3>3 DEF TailTrue
        <4>2. tail[i].events # {} => \A j \in 1..Len(tail') : i < j /\ tail'[j].events # {} => tail'[i].n < tail'[j].n
          <5>1. tail[i].events # {} => tail[i].n < turn.n /\ tail'[Len(tail) + 1].n = turn.n
            BY <1>5, <2>1, <3>3
          <5>2. tail[i].events # {} => \A j \in 1..Len(tail) : i < j /\ tail[j].events # {} => tail[i].n < tail[j].n
            BY <4>1 DEF InLine
          <5>3. \A j \in 1..Len(tail') : j \in 1..Len(tail) \/ j = Len(tail) + 1
            BY <1>3, <2>1
          <5>4. QED
            BY <2>1, <4>1, <5>1, <5>2, <5>3
        <4>3. QED
          BY <1>1, <1>3, <1>5, <3>3, <4>1, <4>2 DEF InLine, Over
      <3>4. QED
        BY <1>3, <2>1, <3>2, <3>3
    <2>3. NoneMissing'
      <3>1. SUFFICES ASSUME failures = 0, NEW p \in Turns, HandedOver(p)', batch[p] # {} PROVE p \in Learned(analysed) \/ Ahead(p)'
        BY <1>1 DEF NoneMissing, Learned
      <3>2. CASE p = turn.n
        <4>1. \A op \in ops : op.n <= p /\ op.n \in Nat
          BY <3>2 DEF SourceType, Waiting, Turns
        <4>2. Len(tail) + 1 \in 1..Len(tail') /\ tail'[Len(tail) + 1].n = p /\ tail'[Len(tail) + 1].events # {}
          BY <1>3, <2>1, <3>1, <3>2
        <4>3. \A op \in ops' : op.kind = "propose" /\ op.n > p => op.ahead >= ended' + (Len(tail) + 1)
          BY <1>1, <1>3, <3>2, <4>1
        <4>4. QED
          BY <4>2, <4>3 DEF Ahead
      <3>3. CASE p # turn.n
        <4>1. HandedOver(p)
          BY <1>1, <3>1, <3>3 DEF HandedOver, Turns
        <4>2. SUFFICES ASSUME Ahead(p) PROVE Ahead(p)'
          BY <3>1, <4>1 DEF NoneMissing
        <4>3. QED
          BY <1>1, <1>3, <2>1, <4>2 DEF Ahead
      <3>4. QED
        BY <3>2, <3>3
    <2>4. QED
      BY <1>4, <2>2, <2>3
  <1>9. QED
    BY <1>7, <1>8
\* Behind the head every entry keeps its place before the next.
LEMMA BehindTheHead ==
  ASSUME TailTrue, Len(tail') = Len(tail) - 1, Len(tail) \in Nat, \A i \in 1..Len(tail') : tail'[i] = tail[i + 1],
         NEW i \in 1..Len(tail'), UNCHANGED <<turn, batch>>
  PROVE  /\ i + 1 \in 1..Len(tail) /\ InLine(i + 1) /\ tail'[i] = tail[i + 1]
         /\ tail'[i].events # {} => \A j \in 1..Len(tail') : i < j /\ tail'[j].events # {} => tail'[i].n < tail'[j].n
         /\ analysed' = analysed => InLine(i)'
  <1>1. i + 1 \in 1..Len(tail) /\ InLine(i + 1) /\ tail'[i] = tail[i + 1]
    BY DEF TailTrue
  <1>2. ASSUME tail'[i].events # {}, NEW j \in 1..Len(tail'), i < j, tail'[j].events # {} PROVE tail'[i].n < tail'[j].n
    <2>1. j + 1 \in 1..Len(tail) /\ tail'[j] = tail[j + 1] /\ i + 1 < j + 1
      BY <1>2
    <2>2. QED
      BY <1>1, <1>2, <2>1 DEF InLine
  <1>3. QED
    BY <1>1, <1>2 DEF InLine, Over

\* What could not be opened is dropped from the line, and failures tell of it.
LEMMA LearnedAtFailure == ASSUME SourceInv, SourceType', NEW k \in Analyzers, OpenFails(k) PROVE LearnedInv'
  <1> USE DEF SourceInv, LearnedInv
  <1>1. /\ UNCHANGED <<turn, batch, analysed>> /\ failures' = failures + 1 /\ failures \in Nat
        /\ (tail # <<>> /\ tail' = Tail(tail)) \/ tail' = tail
    BY DEF OpenFails, SourceType
  <1>2. NoneMissing'
    BY <1>1 DEF NoneMissing
  <1>3. TailTrue'
    <2>1. CASE tail' = tail
      BY <1>1, <2>1 DEF TailTrue, InLine, Over
    <2>2. CASE tail # <<>> /\ tail' = Tail(tail)
      <3>1. Len(tail') = Len(tail) - 1 /\ Len(tail) \in Nat \ {0} /\ \A i \in 1..Len(tail') : tail'[i] = tail[i + 1]
        BY <2>2, TailFacts DEF SourceType
      <3>2. QED
        BY <1>1, <3>1, BehindTheHead DEF TailTrue
    <2>3. QED
      BY <1>1, <2>1, <2>2
  <1>4. QED
    BY <1>1, <1>2, <1>3 DEF AnalysedTrue, LearnsInOrder, Over

\* The head of the line is later than what was analysed, and earlier than the rest of the line.
LEMMA LearnedAtAnalysis == ASSUME SourceInv, SourceType', Analyse PROVE LearnedInv'
  <1> USE DEF SourceInv, LearnedInv
  <1> DEFINE head == tail[1]
  <1>1. /\ UNCHANGED <<turn, batch, ops, failures, life>> /\ ended' = ended + 1 /\ ended \in Nat
        /\ Len(tail') = Len(tail) - 1 /\ Len(tail) \in Nat \ {0} /\ \A i \in 1..Len(tail') : tail'[i] = tail[i + 1]
        /\ analysed' = IF head.events = {} THEN analysed ELSE Append(analysed, <<head.n, head.events>>)
    <2>1. /\ Len(Tail(tail)) = Len(tail) - 1 /\ Len(tail) \in Nat \ {0} /\ Head(tail) = tail[1]
          /\ \A i \in 1..Len(Tail(tail)) : Tail(tail)[i] = tail[i + 1]
      BY TailFacts DEF Analyse, SourceType
    <2>2. tail' = Tail(tail) /\ analysed' = IF Head(tail).events = {} THEN analysed ELSE Append(analysed, <<Head(tail).n, Head(tail).events>>)
      BY DEF Analyse
    <2>3. UNCHANGED <<turn, batch, ops, failures, life>> /\ ended' = ended + 1 /\ ended \in Nat
      BY DEF Analyse, SourceType
    <2>4. QED
      BY <2>1, <2>2, <2>3
  <1>2. /\ \A i \in 1..Len(tail) : tail[i] \in Batches /\ InLine(i) /\ tail[i].n \in Nat
        /\ \A i \in 1..Len(analysed) : analysed[i][1] \in Nat
        /\ Len(analysed) \in Nat /\ turn.n \in Nat
    <2>1. \A i \in 1..Len(tail) : tail[i] \in Batches
      BY DEF SourceType
    <2>2. \A i \in 1..Len(analysed) : analysed[i][1] \in Turns
      BY DEF SourceType
    <2>3. QED
      BY <2>1, <2>2 DEF SourceType, TailTrue, Batches, Turns
  <1>3. head \in Batches /\ InLine(1) /\ head.n \in Nat
    BY <1>1, <1>2
  <1>4. CASE head.events = {}
    <2>1. analysed' = analysed
      BY <1>1, <1>4
    <2>2. TailTrue'
      BY <1>1, <2>1, BehindTheHead DEF TailTrue
    <2>3. NoneMissing'
      <3>1. SUFFICES ASSUME failures = 0, NEW p \in Turns, HandedOver(p), Ahead(p) PROVE Ahead(p)'
        BY <1>1, <2>1 DEF NoneMissing, Learned, HandedOver
      <3>2. PICK i \in 1..Len(tail) : tail[i].n = p /\ tail[i].events # {}
                                      /\ \A op \in ops : op.kind = "propose" /\ op.n > p => op.ahead >= ended + i
        BY <3>1 DEF Ahead
      <3>3. i # 1 /\ i - 1 \in 1..Len(tail') /\ tail'[i - 1] = tail[i] /\ ended' + (i - 1) = ended + i
        <4>1. i # 1
          BY <1>4, <3>2
        <4>2. i - 1 \in 1..Len(tail') /\ (i - 1) + 1 = i /\ ended' + (i - 1) = ended + i
          BY <1>1, <4>1
        <4>3. QED
          BY <1>1, <4>1, <4>2
      <3>4. QED
        BY <1>1, <3>2, <3>3 DEF Ahead
    <2>4. QED
      BY <1>1, <2>1, <2>2, <2>3 DEF AnalysedTrue, LearnsInOrder, Over
  <1>5. CASE head.events # {}
    <2>1. <<head.n, head.events>> \in Turns \X SUBSET Orders
      BY <1>3 DEF Batches
    <2>2. /\ Len(analysed') = Len(analysed) + 1 /\ analysed'[Len(analysed) + 1] = <<head.n, head.events>>
          /\ \A i \in 1..Len(analysed) : analysed'[i] = analysed[i]
      BY <1>1, <1>5, <2>1, AppendFacts DEF SourceType
    <2>3. /\ Over(head.n) /\ head.events = batch[head.n]
          /\ \A j \in 1..Len(tail) : 1 < j /\ tail[j].events # {} => head.n < tail[j].n
          /\ \A j \in 1..Len(analysed) : analysed[j][1] < head.n
      BY <1>3, <1>5 DEF InLine
    <2>4. \A j \in 1..Len(analysed') : j \in 1..Len(analysed) \/ (j = Len(analysed) + 1 /\ analysed'[j][1] = head.n /\ analysed'[j][2] = head.events)
      BY <1>2, <2>2
    <2>5. TailTrue'
      <3>1. SUFFICES ASSUME NEW i \in 1..Len(tail') PROVE InLine(i)'
        BY DEF TailTrue
      <3>2. i + 1 \in 1..Len(tail) /\ tail'[i] = tail[i + 1] /\ InLine(i + 1) /\ 1 < i + 1
        BY <1>1, <1>2
      <3>3. tail'[i].n <= turn'.n
        BY <1>1, <3>2 DEF InLine
      <3>4. SUFFICES ASSUME tail[i + 1].events # {}
                     PROVE  /\ \A j \in 1..Len(tail') : i < j /\ tail'[j].events # {} => tail'[i].n < tail'[j].n
                            /\ \A j \in 1..Len(analysed') : analysed'[j][1] < tail'[i].n
        BY <1>1, <3>2, <3>3 DEF InLine, Over
      <3>5. \A j \in 1..Len(tail') : i < j /\ tail'[j].events # {} => tail'[i].n < tail'[j].n
        BY <1>1, <3>2, <3>4, BehindTheHead
      <3>6. \A j \in 1..Len(analysed) : analysed[j][1] < tail'[i].n
        BY <3>2, <3>4 DEF InLine
      <3>7. head.n < tail'[i].n
        BY <2>3, <3>2, <3>4
      <3>8. QED
        BY <2>2, <2>4, <3>5, <3>6, <3>7
    <2>6. AnalysedTrue'
      BY <1>1, <2>2, <2>3, <2>4 DEF AnalysedTrue, Over
    <2>7. LearnsInOrder'
      <3>1. \A i, j \in 1..Len(analysed') : i < j => analysed'[i][1] < analysed'[j][1]
        <4>1. SUFFICES ASSUME NEW i \in 1..Len(analysed'), NEW j \in 1..Len(analysed'), i < j PROVE analysed'[i][1] < analysed'[j][1]
          OBVIOUS
        <4>2. i \in 1..Len(analysed) /\ analysed'[i] = analysed[i]
          BY <1>2, <2>2, <2>4, <4>1
        <4>3. CASE j \in 1..Len(analysed)
          BY <2>2, <4>1, <4>2, <4>3 DEF LearnsInOrder
        <4>4. CASE j = Len(analysed) + 1
          BY <2>3, <2>4, <4>2, <4>4, <1>2
        <4>5. QED
          BY <2>4, <4>3, <4>4
      <3>2. \A i \in 1..Len(analysed') : analysed'[i][2] = batch'[analysed'[i][1]]
        BY <1>1, <2>2, <2>3, <2>4 DEF LearnsInOrder
      <3>3. QED
        BY <3>1, <3>2 DEF LearnsInOrder
    <2>8. NoneMissing'
      <3>1. SUFFICES ASSUME failures = 0, NEW p \in Turns, HandedOver(p), p \in Learned(analysed) \/ Ahead(p)
                     PROVE  p \in Learned(analysed') \/ Ahead(p)'
        BY <1>1 DEF NoneMissing, Learned, HandedOver
      <3>2. CASE p \in Learned(analysed)
        BY <1>2, <2>2, <3>2 DEF Learned
      <3>3. CASE Ahead(p)
        <4>1. PICK i \in 1..Len(tail) : tail[i].n = p /\ tail[i].events # {}
                                        /\ \A op \in ops : op.kind = "propose" /\ op.n > p => op.ahead >= ended + i
          BY <3>3 DEF Ahead
        <4>2. CASE i = 1
          BY <1>2, <2>2, <2>4, <4>1, <4>2 DEF Learned
        <4>3. CASE i # 1
          <5>1. i - 1 \in 1..Len(tail') /\ tail'[i - 1] = tail[i] /\ ended' + (i - 1) = ended + i
            <6>1. i - 1 \in 1..Len(tail') /\ (i - 1) + 1 = i /\ ended' + (i - 1) = ended + i
              BY <1>1, <4>3
            <6>2. QED
              BY <1>1, <6>1
          <5>2. QED
            BY <1>1, <4>1, <5>1 DEF Ahead
        <4>4. QED
          BY <4>2, <4>3
      <3>4. QED
        BY <3>1, <3>2, <3>3
    <2>9. QED
      BY <2>5, <2>6, <2>7, <2>8
  <1>6. QED
    BY <1>4, <1>5
\* What was handed over is analysed in order or waits, after any action.
LEMMA LearnedStep == SourceInv /\ PatternSourceNext => LearnedInv'
  <1> SUFFICES ASSUME SourceInv, PatternSourceNext PROVE LearnedInv'
    OBVIOUS
  <1>1. SourceType'
    BY SourceTyped
  <1>2. ASSUME NEW k \in Analyzers, OpenStore(k) \/ StoreOpened(k) PROVE LearnedInv'
    BY <1>2, LearnedKept DEF OpenStore, StoreOpened
  <1>3. ASSUME NEW op \in ops, Follow(op) \/ Propose(op) PROVE LearnedInv'
    BY <1>3, LearnedKept DEF Follow, Propose
  <1>4. CASE Seal \/ DisposeSource
    BY <1>4, LearnedKept DEF Seal, DisposeSource
  <1>5. ASSUME NEW i \in Turns \X Orders, Admitted(i) \/ Lose(i) PROVE LearnedInv'
    BY <1>5, LearnedKept DEF Admitted, Lose
  <1>6. QED
    BY <1>1, <1>2, <1>3, <1>4, <1>5, LearnedAtStart, LearnedAtObservation, LearnedAtEnd, LearnedAtFailure, LearnedAtAnalysis
       DEF PatternSourceNext, Predict

\* A prediction that is carried as settled is held by the runtime (prediction_admitted, prediction_feedback).
LEMMA CarriedStep == SourceInv /\ PatternSourceNext => CarriedTrue'
  <1> SUFFICES ASSUME SourceInv, PatternSourceNext PROVE CarriedTrue'
    OBVIOUS
  <1> USE DEF SourceInv
  <1>1. ASSUME UNCHANGED <<carried, live>>, life' = "no" => life = "no" PROVE CarriedTrue'
    BY <1>1 DEF CarriedTrue
  <1>2. ASSUME NEW op \in ops, Follow(op) PROVE CarriedTrue'
    <2>1. <<op.n, op.by>> \in Turns \X Orders
      BY <1>2 DEF Follow, SourceType, Waiting
    <2>2. carried'.id = <<op.n, op.by>> /\ carried'.pending
      BY <1>2 DEF Follow
    <2>3. QED
      BY <2>1, <2>2 DEF CarriedTrue
  <1>3. ASSUME NEW op \in ops, Propose(op) PROVE CarriedTrue'
    BY <1>3 DEF Propose, NoCarried, CarriedTrue
  <1>4. ASSUME NEW i \in Turns \X Orders, Admitted(i) PROVE CarriedTrue'
    <2>1. live[i] = "submitted" /\ live' = [live EXCEPT ![i] = "held"] /\ life' = life
      BY <1>4 DEF Admitted
    <2>2. carried' = IF life = "no" /\ carried.id = i THEN [carried EXCEPT !.pending = FALSE] ELSE carried
      BY <1>4 DEF Admitted
    <2>3. carried'.id = carried.id /\ carried'.base = carried.base /\ carried'.abandoned = carried.abandoned
          /\ (carried'.pending # carried.pending => carried.id = i)
      BY <2>2 DEF SourceType
    <2>4. QED
      BY <2>1, <2>3 DEF CarriedTrue, SourceType
  <1>5. ASSUME NEW i \in Turns \X Orders, Lose(i) PROVE CarriedTrue'
    <2>1. live[i] \in {"submitted", "held"} /\ live' = [live EXCEPT ![i] = "lost"] /\ life' = life
      BY <1>5 DEF Lose
    <2>2. carried' = IF live[i] = "held" /\ life = "no" /\ carried.id = i THEN [carried EXCEPT !.abandoned = TRUE] ELSE carried
      BY <1>5 DEF Lose
    <2>3. /\ carried'.id = carried.id /\ carried'.base = carried.base /\ carried'.pending = carried.pending
          /\ ~carried'.abandoned => ~carried.abandoned /\ ~(live[i] = "held" /\ life = "no" /\ carried.id = i)
      BY <2>2 DEF SourceType
    <2>4. QED
      BY <2>1, <2>3 DEF CarriedTrue, SourceType
  <1>6. CASE StartTurn \/ FinishTurn \/ Analyse \/ Seal \/ DisposeSource
    BY <1>1, <1>6 DEF StartTurn, FinishTurn, Analyse, Seal, DisposeSource
  <1>7. ASSUME NEW k \in Analyzers, OpenStore(k) \/ StoreOpened(k) \/ OpenFails(k) PROVE CarriedTrue'
    BY <1>1, <1>7 DEF OpenStore, StoreOpened, OpenFails
  <1>8. ASSUME NEW o \in Orders, Observe(o) PROVE CarriedTrue'
    BY <1>1, <1>8 DEF Observe
  <1>9. QED
    BY <1>2, <1>3, <1>4, <1>5, <1>6, <1>7, <1>8 DEF PatternSourceNext, Predict

\* A disposed source has nothing under way that could lease a store again.
LEMMA DisposedStep == SourceInv /\ PatternSourceNext => EndsEmpty' /\ LeasesReturned'
  <1> SUFFICES ASSUME SourceInv, PatternSourceNext PROVE EndsEmpty' /\ LeasesReturned'
    OBVIOUS
  <1> USE DEF SourceInv, EndsEmpty, LeasesReturned
  <1>1. CASE life # "disposed" /\ life' = life
    BY <1>1
  <1>2. CASE Seal
    BY <1>2 DEF Seal
  <1>3. CASE DisposeSource
    BY <1>3 DEF DisposeSource, SourceSettled
  <1>4. CASE StartTurn
    BY <1>1, <1>4 DEF StartTurn
  <1>5. CASE FinishTurn
    BY <1>5 DEF FinishTurn
  <1>6. CASE Analyse
    BY <1>1, <1>6 DEF Analyse
  <1>7. ASSUME NEW k \in Analyzers, OpenStore(k) \/ StoreOpened(k) \/ OpenFails(k) PROVE EndsEmpty' /\ LeasesReturned'
    BY <1>1, <1>7 DEF OpenStore, StoreOpened, OpenFails, Needs
  <1>8. ASSUME NEW o \in Orders, Observe(o) PROVE EndsEmpty' /\ LeasesReturned'
    BY <1>1, <1>8 DEF Observe
  <1>9. ASSUME NEW op \in ops, Follow(op) \/ Propose(op) PROVE EndsEmpty' /\ LeasesReturned'
    BY <1>1, <1>9 DEF Follow, Propose
  <1>10. ASSUME NEW i \in Turns \X Orders, Admitted(i) \/ Lose(i) PROVE EndsEmpty' /\ LeasesReturned'
    BY <1>1, <1>10 DEF Admitted, Lose
  <1>11. QED
    BY <1>2, <1>3, <1>4, <1>5, <1>6, <1>7, <1>8, <1>9, <1>10 DEF PatternSourceNext, Predict

\* SourceInv is inductive.
LEMMA SourceKept == SourceInv /\ [PatternSourceNext]_sourceVars => SourceInv'
  <1>1. SourceInv /\ PatternSourceNext => SourceInv'
    BY SourceTyped, LearnedStep, CarriedStep, DisposedStep DEF SourceInv
  <1>2. SourceInv /\ UNCHANGED sourceVars => SourceInv'
    <2> SUFFICES ASSUME SourceInv, UNCHANGED sourceVars PROVE SourceInv'
      OBVIOUS
    <2>1. LearnedInv'
      BY LearnedKept DEF sourceVars
    <2>2. SourceType' /\ CarriedTrue' /\ EndsEmpty' /\ LeasesReturned'
      BY DEF SourceInv, sourceVars, SourceType, CarriedTrue, EndsEmpty, LeasesReturned
    <2>3. QED
      BY <2>1, <2>2 DEF SourceInv
  <1>3. QED
    BY <1>1, <1>2

\* Only a prediction that is made, and one that could not be, stops waiting.
LEMMA PredictsOnAllHolds == SourceInv /\ [PatternSourceNext]_sourceVars => PredictsOnAllStep
  <1> SUFFICES ASSUME SourceInv, [PatternSourceNext]_sourceVars, NEW n \in Turns, Predicts(n), failures' = 0,
                      NEW p \in 1..(n - 1), batch[p] # {}
               PROVE  p \in Learned(analysed)
    BY DEF PredictsOnAllStep
  <1>1. PICK op \in ops \ ops' : op.kind = "propose" /\ op.n = n
    BY DEF Predicts
  <1>2. CASE Propose(op)
    <2>1. /\ ended >= op.ahead /\ failures = 0 /\ ended \in Nat /\ op.ahead \in Nat
          /\ n <= turn.n /\ turn.n \in Nat /\ n \in Nat /\ p \in Turns
      BY <1>1, <1>2, TurnsSetting DEF Propose, Ready, SourceInv, SourceType, Waiting, Turns
    <2>2. HandedOver(p)
      BY <2>1 DEF HandedOver
    <2>3. ~Ahead(p)
      <3>1. SUFFICES ASSUME NEW i \in 1..Len(tail), \A o \in ops : o.kind = "propose" /\ o.n > p => o.ahead >= ended + i PROVE FALSE
        BY DEF Ahead
      <3>2. op.ahead >= ended + i /\ i \in Nat \ {0}
        BY <1>1, <2>1, <3>1
      <3>3. QED
        BY <2>1, <3>2
    <2>4. QED
      BY <2>1, <2>2, <2>3 DEF SourceInv, LearnedInv, NoneMissing
  <1>3. ASSUME NEW o \in ops, Follow(o) \/ Propose(o) PROVE o = op
    BY <1>1, <1>3 DEF Follow, Propose
  <1>4. ASSUME NEW k \in Analyzers, OpenFails(k) PROVE FALSE
    BY <1>4 DEF OpenFails, SourceInv, SourceType
  <1>5. ASSUME NEW k \in Analyzers, OpenStore(k) \/ StoreOpened(k) PROVE FALSE
    BY <1>1, <1>5 DEF OpenStore, StoreOpened
  <1>6. CASE StartTurn \/ FinishTurn \/ Analyse \/ Seal \/ DisposeSource \/ UNCHANGED sourceVars
    BY <1>1, <1>6 DEF StartTurn, FinishTurn, Analyse, Seal, DisposeSource, sourceVars
  <1>7. ASSUME NEW o \in Orders, Observe(o) PROVE FALSE
    BY <1>1, <1>7 DEF Observe
  <1>8. ASSUME NEW i \in Turns \X Orders, Admitted(i) \/ Lose(i) PROVE FALSE
    BY <1>1, <1>8 DEF Admitted, Lose
  <1>9. ~Follow(op)
    BY <1>1 DEF Follow
  <1>10. QED
    BY <1>2, <1>3, <1>4, <1>5, <1>6, <1>7, <1>8, <1>9 DEF PatternSourceNext, Predict

\* Only propose falls silent, on a prediction that is carried as settled.
LEMMA SilenceCoveredHolds == SourceInv /\ [PatternSourceNext]_sourceVars => SilenceCoveredStep
  <1> SUFFICES ASSUME SourceInv, [PatternSourceNext]_sourceVars, NEW n \in Turns, silent'[n], ~silent[n], life = "no"
               PROVE  live[carried.id] = "held"
    BY DEF SilenceCoveredStep
  <1>1. ASSUME NEW op \in ops, Propose(op) PROVE live[carried.id] = "held"
    <2>1. PICK changed \in BOOLEAN : silent' = [silent EXCEPT ![op.n] = Repeated(op) /\ ~changed]
      BY <1>1 DEF Propose
    <2>2. silent \in [Turns -> BOOLEAN]
      BY DEF SourceInv, SourceType
    <2>3. Repeated(op)
      BY <2>1, <2>2
    <2>4. carried.base = <<op.on, analysed>> /\ ~carried.pending /\ ~carried.abandoned
      BY <2>3 DEF Repeated
    <2>5. carried.base # <<>>
      BY <2>4
    <2>6. QED
      BY <2>4, <2>5 DEF SourceInv, CarriedTrue
  <1>2. silent' # silent
    OBVIOUS
  <1>3. ASSUME NEW k \in Analyzers, OpenStore(k) \/ StoreOpened(k) \/ OpenFails(k) PROVE FALSE
    BY <1>2, <1>3 DEF OpenStore, StoreOpened, OpenFails
  <1>4. CASE StartTurn \/ FinishTurn \/ Analyse \/ Seal \/ DisposeSource \/ UNCHANGED sourceVars
    BY <1>2, <1>4 DEF StartTurn, FinishTurn, Analyse, Seal, DisposeSource, sourceVars
  <1>5. ASSUME NEW o \in Orders, Observe(o) PROVE FALSE
    BY <1>2, <1>5 DEF Observe
  <1>6. ASSUME NEW i \in Turns \X Orders, Admitted(i) \/ Lose(i) PROVE FALSE
    BY <1>2, <1>6 DEF Admitted, Lose
  <1>7. ASSUME NEW op \in ops, Follow(op) PROVE FALSE
    BY <1>2, <1>7 DEF Follow
  <1>8. QED
    BY <1>1, <1>3, <1>4, <1>5, <1>6, <1>7 DEF PatternSourceNext, Predict
-----------------------------------------------------------------------------
\* A store without references has no session that opens or holds it.
LEMMA NobodyCounts == ASSUME PersistInv, NEW g \in Stores, store[g].refs = 0 PROVE \A s \in Sessions : s \notin Users(g)
  <1>1. IsFiniteSet(Users(g)) /\ Cardinality(Users(g)) = 0
    BY DEF PersistInv, PersistRest, UsersCounted
  <1>2. QED
    BY <1>1, FS_EmptySet

\* Counting one session more, and one less.
LEMMA OneMore ==
  ASSUME PersistInv, NEW g \in Stores, NEW s \in Sessions, s \notin Users(g)
  PROVE  IsFiniteSet(Users(g) \cup {s}) /\ Cardinality(Users(g) \cup {s}) = store[g].refs + 1
  BY FS_AddElement DEF PersistInv, PersistRest, UsersCounted

LEMMA OneLess ==
  ASSUME PersistInv, NEW g \in Stores, NEW s \in Sessions, s \in Users(g)
  PROVE  /\ IsFiniteSet(Users(g) \ {s}) /\ Cardinality(Users(g) \ {s}) = store[g].refs - 1 /\ store[g].refs \in Nat \ {0}
  <1>1. IsFiniteSet(Users(g)) /\ store[g].refs = Cardinality(Users(g)) /\ Cardinality(Users(g)) \in Nat
    BY FS_CardinalityType DEF PersistInv, PersistRest, UsersCounted
  <1>2. IsFiniteSet(Users(g) \ {s}) /\ Cardinality(Users(g) \ {s}) = Cardinality(Users(g)) - 1
    BY <1>1, FS_RemoveElement
  <1>3. Cardinality(Users(g)) # 0
    BY <1>1, FS_EmptySet
  <1>4. QED
    BY <1>1, <1>2, <1>3

\* What a session and a store are at.
LEMMA Places ==
  ASSUME PersistInv
  PROVE  /\ \A s \in Sessions : On(s) = lease[s].on /\ s \in Flushers
         /\ \A g \in Stores : On(g) = g /\ g \in Flushers /\ g # 0
  BY PersistSetting DEF On, Flushers

\* No store was made, and no session has a lease.
LEMMA PersistStart == PersistInit => PersistInv
  <1> SUFFICES ASSUME PersistInit PROVE PersistInv
    OBVIOUS
  <1>1. PersistType
    BY DEF PersistInit, PersistType, StoreRecords, NoStore, LeasePhases
  <1>2. \A g \in Stores : store[g] = NoStore /\ Users(g) = {}
    BY DEF PersistInit, Users
  <1>3. UsersCounted
    BY <1>2, FS_EmptySet DEF UsersCounted, NoStore
  <1>4. StoresKnow
    BY <1>2, PersistSetting DEF PersistInit, StoresKnow, StoreKnows, NoStore
  <1>5. LeasesAgree /\ FlushesWait
    BY DEF PersistInit, LeasesAgree, LeaseAgrees, FlushesWait
  <1>6. CleanIsWritten
    BY <1>2 DEF CleanIsWritten, NoStore
  <1>7. QED
    BY <1>1, <1>3, <1>4, <1>5, <1>6 DEF PersistInv, PersistRest

\* Every action keeps the types; in particular refs never falls below 0.
LEMMA PersistTyped == PersistInv /\ PersistNext => PersistType'
  <1> SUFFICES ASSUME PersistInv, PersistNext PROVE PersistType'
    OBVIOUS
  <1> USE DEF PersistInv, PersistRest
  <1>1. ASSUME NEW s \in Sessions, Acquire(s) PROVE PersistType'
    <2>1. PICK g \in Stores : store' = [store EXCEPT ![g].made = TRUE, ![g].refs = @ + 1]
                              /\ lease' = [lease EXCEPT ![s] = [phase |-> "opening", on |-> g]] /\ current' = g
      BY <1>1 DEF Acquire
    <2>2. store[g] \in StoreRecords
      BY DEF PersistType
    <2>3. store' \in [Stores -> StoreRecords]
      BY <2>1, <2>2 DEF PersistType, StoreRecords
    <2>4. QED
      BY <1>1, <2>1, <2>3 DEF Acquire, PersistType, LeasePhases
  <1>2. ASSUME NEW g \in Stores, Load(g) PROVE PersistType'
    <2>1. store[g] \in StoreRecords /\ file \subseteq Items
      BY DEF PersistType
    <2>2. store' \in [Stores -> StoreRecords]
      BY <1>2, <2>1 DEF Load, PersistType, StoreRecords
    <2>3. QED
      BY <1>2, <2>2 DEF Load, PersistType
  <1>3. ASSUME NEW s \in Sessions, Opened(s) PROVE PersistType'
    BY <1>3 DEF Opened, PersistType, LeasePhases
  <1>4. ASSUME NEW s \in Sessions, NEW i \in Items, Learn(s, i) PROVE PersistType'
    <2>1. On(s) = current /\ current \in Stores /\ store[current] \in StoreRecords
      BY <1>4, Places DEF Learn, LeasesAgree, LeaseAgrees, PersistType
    <2>2. store' \in [Stores -> StoreRecords]
      BY <1>4, <2>1 DEF Learn, Persisted, PersistType, StoreRecords
    <2>3. QED
      BY <1>4, <2>2 DEF Learn, PersistType
  <1>5. ASSUME NEW f \in Flushers, Ask(f) PROVE PersistType'
    <2>1. On(f) \in Stores
      BY <1>5, Places DEF Ask, Flushers, LeasesAgree, LeaseAgrees, PersistType
    <2>2. store[On(f)] \in StoreRecords
      BY <2>1 DEF PersistType
    <2>3. store' \in [Stores -> StoreRecords]
      BY <1>5, <2>1, <2>2 DEF Ask, Awaited, PersistType, StoreRecords
    <2>4. QED
      BY <1>5, <2>3 DEF Ask, PersistType
  <1>6. ASSUME NEW s \in Sessions, GiveBack(s) PROVE PersistType'
    <2>1. On(s) = current /\ current \in Stores /\ lease[s].phase = "held" /\ lease[s].on = current
      BY <1>6, Places DEF GiveBack, LeasesAgree, LeaseAgrees, PersistType
    <2>2. store[current] \in StoreRecords /\ store[current].refs - 1 \in Nat
      <3>1. s \in Users(current)
        BY <2>1 DEF Users
      <3>2. store[current].refs \in Nat \ {0}
        BY <2>1, <3>1, OneLess
      <3>3. QED
        BY <2>1, <3>2 DEF PersistType
    <2>3. CASE Clean(current)
      <3>1. /\ store' = [store EXCEPT ![current] = [store[current] EXCEPT !.refs = @ - 1, !.timer = FALSE]]
            /\ lease' = [lease EXCEPT ![s] = [phase |-> "done", on |-> 0]] /\ current' \in {current, 0} /\ UNCHANGED <<file, flush, troubles>>
        BY <1>6, <2>1, <2>3 DEF GiveBack
      <3>2. store' \in [Stores -> StoreRecords]
        BY <2>1, <2>2, <3>1 DEF PersistType, StoreRecords
      <3>3. QED
        BY <3>1, <3>2 DEF PersistType, LeasePhases
    <2>4. CASE ~Clean(current)
      <3>1. /\ store' = [store EXCEPT ![current] = [[store[current] EXCEPT !.refs = @ - 1, !.timer = FALSE] EXCEPT !.write = IF @ = "none" THEN "queued" ELSE @]]
            /\ lease' = [lease EXCEPT ![s].phase = "releasing"] /\ flush' = [flush EXCEPT ![s] = "wait"]
            /\ current' = current /\ UNCHANGED <<file, troubles>>
        BY <1>6, <2>1, <2>4 DEF GiveBack, Forgotten
      <3>2. store' \in [Stores -> StoreRecords]
        BY <2>1, <2>2, <3>1 DEF PersistType, StoreRecords
      <3>3. QED
        BY <3>1, <3>2 DEF PersistType, LeasePhases
    <2>5. QED
      BY <2>3, <2>4
  <1>7. ASSUME NEW g \in Stores, WriteStart(g) PROVE PersistType'
    <2>1. store[g] \in StoreRecords
      BY DEF PersistType
    <2>2. store' \in [Stores -> StoreRecords]
      BY <1>7, <2>1 DEF WriteStart, Written, PersistType, StoreRecords
    <2>3. QED
      BY <1>7, <2>2 DEF WriteStart, PersistType
  <1>8. ASSUME NEW g \in Stores, Finish(g) PROVE /\ flush' \in [Flushers -> {"idle", "wait"}]
                                                 /\ lease' \in [Sessions -> [phase : LeasePhases, on : Stores \cup {0}]]
                                                 /\ current' \in Stores \cup {0}
    BY <1>8 DEF Finish, Forgotten, PersistType, LeasePhases
  <1>9. ASSUME NEW g \in Stores, WriteEnd(g) PROVE PersistType'
    <2>1. store[g] \in StoreRecords
      BY DEF PersistType
    <2>2. store' \in [Stores -> StoreRecords] /\ file' \subseteq Items
      BY <1>9, <2>1 DEF WriteEnd, Again, PersistType, StoreRecords
    <2>3. QED
      BY <1>8, <1>9, <2>2 DEF WriteEnd, PersistType
  <1>10. ASSUME NEW g \in Stores, WriteFails(g) PROVE PersistType'
    <2>1. store[g] \in StoreRecords
      BY DEF PersistType
    <2>2. store' \in [Stores -> StoreRecords]
      BY <1>10, <2>1 DEF WriteFails, PersistType, StoreRecords
    <2>3. QED
      BY <1>8, <1>10, <2>2 DEF WriteFails, PersistType
  <1>11. CASE Crash
    <2>1. \A g \in Stores : [NoStore EXCEPT !.made = store[g].made, !.ready = store[g].made] \in StoreRecords
      BY DEF NoStore, StoreRecords, PersistType
    <2>2. QED
      <3>1. store' \in [Stores -> StoreRecords]
        BY <1>11, <2>1 DEF Crash
      <3>2. \A s \in Sessions : lease[s] \in [phase : LeasePhases, on : Stores \cup {0}]
        BY DEF PersistType
      <3>3. lease' \in [Sessions -> [phase : LeasePhases, on : Stores \cup {0}]]
        BY <1>11, <3>2 DEF Crash, LeasePhases
      <3>4. flush' \in [Flushers -> {"idle", "wait"}] /\ current' = 0 /\ troubles' \in Nat /\ file' = file
        <4>1. troubles \in Nat /\ troubles' = troubles + 1
          BY <1>11 DEF Crash, PersistType
        <4>2. QED
          <5>1. flush' = [f \in Flushers |-> "idle"] /\ current' = 0 /\ file' = file
            BY <1>11 DEF Crash
          <5>2. QED
            BY <4>1, <5>1
      <3>5. QED
        BY <3>1, <3>3, <3>4 DEF PersistType
  <1>12. QED
    BY <1>1, <1>2, <1>3, <1>4, <1>5, <1>6, <1>7, <1>9, <1>10, <1>11 DEF PersistNext
\* Facts about one session and one store.
LEMMA AtOne ==
  ASSUME PersistInv
  PROVE  /\ \A s \in Sessions : LeaseAgrees(s)
         /\ \A g \in Stores : /\ StoreKnows(g) /\ store[g] \in StoreRecords
                              /\ ~store[g].dirty /\ store[g].write = "none" => store[g].items \subseteq file
         /\ \A f \in Flushers : flush[f] = "wait" => On(f) = current /\ current # 0 /\ store[current].write # "none"
         /\ current = 0 => \A s \in Sessions : lease[s].on = 0
         /\ current = 0 \/ current \in Stores
  BY DEF PersistInv, PersistRest, PersistType, LeasesAgree, LeaseAgrees, StoresKnow, FlushesWait, CleanIsWritten

\* A new store is made only when none is current, so no session is at another (acquirePatternAwareStore).
LEMMA AcquireKeeps == ASSUME PersistInv, PersistType', NEW s \in Sessions, Acquire(s) PROVE PersistRest'
  <1>1. PICK g \in Stores : /\ IF current # 0 THEN g = current ELSE ~store[g].made
                            /\ store' = [store EXCEPT ![g].made = TRUE, ![g].refs = @ + 1]
                            /\ lease' = [lease EXCEPT ![s] = [phase |-> "opening", on |-> g]] /\ current' = g
    BY DEF Acquire
  <1>2. lease[s].phase = "none" /\ lease[s].on = 0 /\ UNCHANGED <<file, flush, troubles>> /\ g # 0
    BY AtOne, Places DEF Acquire, LeaseAgrees
  <1>3. /\ store'[g].made /\ store'[g].refs = store[g].refs + 1 /\ store'[g].ready = store[g].ready /\ store'[g].items = store[g].items
        /\ store'[g].dirty = store[g].dirty /\ store'[g].timer = store[g].timer /\ store'[g].write = store[g].write
        /\ store'[g].snap = store[g].snap
        /\ \A h \in Stores \ {g} : store'[h] = store[h]
    BY <1>1, AtOne DEF PersistInv, PersistType, StoreRecords
  <1>4. lease'[s].phase = "opening" /\ lease'[s].on = g /\ \A t \in Sessions \ {s} : lease'[t] = lease[t]
    BY <1>1 DEF PersistInv, PersistType
  <1>5. current = 0 => store[g] = NoStore
    BY <1>1, AtOne DEF StoreKnows
  <1>6. LeasesAgree'
    <2>1. SUFFICES ASSUME NEW t \in Sessions PROVE LeaseAgrees(t)'
      BY DEF LeasesAgree
    <2>2. CASE t = s
      BY <1>1, <1>2, <1>4, <2>2 DEF LeaseAgrees
    <2>3. CASE t # s
      BY <1>1, <1>2, <1>3, <1>4, <2>3, AtOne DEF LeaseAgrees
    <2>4. QED
      BY <2>2, <2>3
  <1>7. /\ Users(g)' = Users(g) \cup {s} /\ s \notin Users(g)
        /\ \A h \in Stores \ {g} : Users(h)' = Users(h)
    BY <1>2, <1>4 DEF Users
  <1>8. UsersCounted'
    BY <1>3, <1>7, OneMore DEF UsersCounted, PersistInv, PersistRest
  <1>9. FlushesWait'
    <2>1. SUFFICES ASSUME NEW f \in Flushers, flush[f] = "wait" PROVE On(f)' = g /\ store'[g].write # "none"
      BY <1>1, <1>2 DEF FlushesWait
    <2>2. On(f) = g /\ store[g].write # "none" /\ f # s
      BY <1>1, <1>2, <2>1, AtOne, Places
    <2>3. QED
      BY <1>3, <1>4, <2>1, <2>2, Places DEF On, Flushers
  <1>10. StoresKnow'
    <2>1. SUFFICES ASSUME NEW h \in Stores PROVE StoreKnows(h)'
      BY DEF StoresKnow
    <2>2. StoreKnows(h) /\ (\E t \in Users(h) : lease[t].phase = "held") => \E t \in Users(h)' : lease'[t].phase = "held"
      BY <1>2, <1>4, <1>7, AtOne DEF Users
    <2>3. StoreKnows(h)
      BY AtOne
    <2>4. CASE h = g /\ current = 0
      <3>1. store[g].write = "none" /\ ~store[g].ready /\ ~store[g].dirty /\ ~store[g].timer /\ store[g].items = {}
        BY <1>5, <2>4 DEF NoStore
      <3>2. QED
        BY <1>1, <1>3, <2>4, <3>1 DEF StoreKnows
    <2>5. CASE h = g /\ current # 0
      <3>1. current' = current /\ h = current /\ file' = file
        BY <1>1, <1>2, <2>5
      <3>2. store'[g].timer => \E t \in Users(g)' : lease'[t].phase = "held"
        BY <1>3, <2>2, <2>3, <2>5 DEF StoreKnows
      <3>3. QED
        BY <1>3, <2>3, <2>5, <3>1, <3>2 DEF StoreKnows
    <2>6. CASE h # g
      <3>1. store'[h] = store[h] /\ h # current
        BY <1>1, <1>3, <2>6, Places
      <3>2. QED
        BY <1>1, <1>2, <2>2, <2>3, <2>6, <3>1 DEF StoreKnows
    <2>7. QED
      BY <2>4, <2>5, <2>6
  <1>11. CleanIsWritten'
    <2>1. SUFFICES ASSUME NEW h \in Stores, ~store'[h].dirty, store'[h].write = "none" PROVE store'[h].items \subseteq file
      BY <1>2 DEF CleanIsWritten
    <2>2. store'[h].items = store[h].items /\ store'[h].dirty = store[h].dirty /\ store'[h].write = store[h].write
      BY <1>3
    <2>3. QED
      BY <2>1, <2>2, AtOne
  <1>12. QED
    BY <1>6, <1>8, <1>9, <1>10, <1>11 DEF PersistRest

\* What is loaded is what the file has, and only the current store loads.
LEMMA LoadKeeps == ASSUME PersistInv, PersistType', NEW g \in Stores, Load(g) PROVE PersistRest'
  <1>1. /\ store[g].made /\ ~store[g].ready /\ UNCHANGED <<file, current, lease, flush, troubles>>
        /\ store' = [store EXCEPT ![g].ready = TRUE, ![g].items = file] /\ current = g
    BY AtOne DEF Load, StoreKnows
  <1>2. /\ store'[g].made = store[g].made /\ store'[g].refs = store[g].refs /\ store'[g].ready /\ store'[g].items = file
        /\ store'[g].dirty = store[g].dirty /\ store'[g].timer = store[g].timer /\ store'[g].write = store[g].write
        /\ store'[g].snap = store[g].snap
        /\ \A h \in Stores \ {g} : store'[h] = store[h]
    BY <1>1, AtOne DEF PersistInv, PersistType, StoreRecords
  <1>3. /\ \A h \in Stores : Users(h)' = Users(h)
        /\ \A f \in Flushers : On(f)' = On(f)
    BY <1>1 DEF Users, On
  <1>4. LeasesAgree' /\ UsersCounted' /\ FlushesWait'
    <2>1. LeasesAgree'
      <3>1. SUFFICES ASSUME NEW s \in Sessions PROVE LeaseAgrees(s)'
        BY DEF LeasesAgree
      <3>2. LeaseAgrees(s)
        BY AtOne
      <3>3. QED
        BY <1>1, <1>2, <3>2 DEF LeaseAgrees
    <2>2. UsersCounted'
      BY <1>2, <1>3 DEF UsersCounted, PersistInv, PersistRest
    <2>3. FlushesWait'
      BY <1>1, <1>2, <1>3, AtOne DEF FlushesWait
    <2>4. QED
      BY <2>1, <2>2, <2>3
  <1>5. StoresKnow'
    <2>1. SUFFICES ASSUME NEW h \in Stores PROVE StoreKnows(h)'
      BY DEF StoresKnow
    <2>2. StoreKnows(h) /\ Users(h)' = Users(h)
      BY <1>3, AtOne
    <2>3. CASE h = g
      BY <1>1, <1>2, <2>2, <2>3 DEF StoreKnows
    <2>4. CASE h # g
      <3>1. store'[h] = store[h]
        BY <1>2, <2>4
      <3>2. QED
        BY <1>1, <2>2, <3>1 DEF StoreKnows
    <2>5. QED
      BY <2>3, <2>4
  <1>6. CleanIsWritten'
    BY <1>1, <1>2, AtOne DEF CleanIsWritten
  <1>7. QED
    BY <1>4, <1>5, <1>6 DEF PersistRest
\* A step of the current store that leaves the file and the count of sessions alone.
LEMMA InPlace ==
  ASSUME PersistInv, current \in Stores, UNCHANGED <<file, current>>, LeasesAgree', FlushesWait', StoreKnows(current)',
         \A h \in Stores : /\ h # current => store'[h] = store[h]
                           /\ Users(h)' = Users(h) /\ store'[h].refs = store[h].refs,
         ~store'[current].dirty /\ store'[current].write = "none" => store'[current].items \subseteq file
  PROVE  PersistRest'
  <1>1. UsersCounted'
    BY DEF UsersCounted, PersistInv, PersistRest
  <1>2. StoresKnow'
    <2>1. SUFFICES ASSUME NEW h \in Stores, h # current PROVE StoreKnows(h)'
      BY DEF StoresKnow
    <2>2. StoreKnows(h) /\ store'[h] = store[h]
      BY <2>1, AtOne
    <2>3. QED
      BY <2>1, <2>2 DEF StoreKnows
  <1>3. CleanIsWritten'
    <2>1. SUFFICES ASSUME NEW h \in Stores, ~store'[h].dirty, store'[h].write = "none" PROVE store'[h].items \subseteq file
      BY DEF CleanIsWritten
    <2>2. QED
      BY <2>1, AtOne
  <1>4. QED
    BY <1>1, <1>2, <1>3 DEF PersistRest

\* A lease is held once its store is ready.
LEMMA OpenedKeeps == ASSUME PersistInv, PersistType', NEW s \in Sessions, Opened(s) PROVE PersistRest'
  <1>1. /\ lease[s].phase = "opening" /\ On(s) = current /\ current \in Stores /\ store[current].ready
        /\ lease[s].on = current /\ lease' = [lease EXCEPT ![s].phase = "held"] /\ UNCHANGED <<file, current, store, flush, troubles>>
    BY AtOne, Places DEF Opened, LeaseAgrees
  <1>2. /\ lease'[s].phase = "held" /\ lease'[s].on = lease[s].on
        /\ \A t \in Sessions \ {s} : lease'[t] = lease[t]
    BY <1>1 DEF PersistInv, PersistType
  <1>3. LeasesAgree'
    <2>1. SUFFICES ASSUME NEW t \in Sessions PROVE LeaseAgrees(t)'
      BY DEF LeasesAgree
    <2>2. LeaseAgrees(t)
      BY AtOne
    <2>3. QED
      BY <1>1, <1>2, <2>2 DEF LeaseAgrees
  <1>4. \A h \in Stores : Users(h)' = Users(h)
    BY <1>1, <1>2 DEF Users
  <1>5. \A f \in Flushers : On(f)' = On(f)
    BY <1>2 DEF On, Flushers
  <1>6. FlushesWait'
    BY <1>1, <1>5, AtOne DEF FlushesWait
  <1>7. StoreKnows(current)'
    <2>1. StoreKnows(current) /\ s \in Users(current)
      BY <1>1, AtOne DEF Users
    <2>2. \E t \in Users(current)' : lease'[t].phase = "held"
      BY <1>2, <1>4, <1>1, <2>1
    <2>3. QED
      BY <1>1, <2>1, <2>2 DEF StoreKnows
  <1>8. QED
    BY <1>1, <1>3, <1>4, <1>6, <1>7, AtOne, InPlace

\* What is learned is dirty, and the session that learned it holds its lease.
LEMMA LearnKeeps == ASSUME PersistInv, PersistType', NEW s \in Sessions, NEW i \in Items, Learn(s, i) PROVE PersistRest'
  <1>1. /\ lease[s].phase = "held" /\ lease[s].on = current /\ current \in Stores /\ store[current].ready
        /\ store' = [store EXCEPT ![current].items = @ \cup {i}, ![current].dirty = TRUE, ![current].timer = TRUE]
        /\ UNCHANGED <<file, current, lease, flush, troubles>>
    BY AtOne, Places DEF Learn, Persisted, LeaseAgrees
  <1>2. /\ store'[current].made = store[current].made /\ store'[current].refs = store[current].refs
        /\ store'[current].ready /\ store'[current].items = store[current].items \cup {i} /\ store'[current].dirty
        /\ store'[current].write = store[current].write /\ store'[current].snap = store[current].snap
        /\ \A h \in Stores \ {current} : store'[h] = store[h]
    BY <1>1, AtOne DEF PersistInv, PersistType, StoreRecords
  <1>3. /\ \A h \in Stores : Users(h)' = Users(h)
        /\ \A f \in Flushers : On(f)' = On(f)
    BY <1>1 DEF Users, On
  <1>4. LeasesAgree'
    <2>1. SUFFICES ASSUME NEW t \in Sessions PROVE LeaseAgrees(t)'
      BY DEF LeasesAgree
    <2>2. LeaseAgrees(t)
      BY AtOne
    <2>3. QED
      BY <1>1, <1>2, <2>2 DEF LeaseAgrees
  <1>5. FlushesWait'
    BY <1>1, <1>2, <1>3, AtOne DEF FlushesWait
  <1>6. StoreKnows(current)'
    <2>1. StoreKnows(current) /\ s \in Users(current)'
      BY <1>1, <1>3, AtOne DEF Users
    <2>2. QED
      BY <1>1, <1>2, <2>1 DEF StoreKnows
  <1>7. QED
    BY <1>1, <1>2, <1>3, <1>4, <1>5, <1>6, InPlace

\* Who asks is at the current store, which has something to write.
LEMMA AskKeeps == ASSUME PersistInv, PersistType', NEW f \in Flushers, Ask(f) PROVE PersistRest'
  <1>1. On(f) = current /\ current \in Stores /\ store[current].ready
    <2>1. CASE f \in Stores
      <3>1. StoreKnows(f) /\ store[f].timer
        BY <2>1, AtOne DEF Ask
      <3>2. QED
        BY <2>1, <3>1, Places DEF StoreKnows
    <2>2. CASE f \in Sessions
      <3>1. f \notin Stores /\ LeaseAgrees(f) /\ lease[f].phase = "held"
        BY <2>2, AtOne, PersistSetting DEF Ask
      <3>2. QED
        BY <2>2, <3>1, AtOne, Places DEF LeaseAgrees
    <2>3. QED
      BY <2>1, <2>2 DEF Flushers
  <1>2. /\ store' = [store EXCEPT ![current].timer = FALSE, ![current].write = IF @ = "none" THEN "queued" ELSE @]
        /\ flush' = [flush EXCEPT ![f] = "wait"] /\ UNCHANGED <<file, current, lease, troubles>>
    BY <1>1 DEF Ask, Awaited
  <1>3. /\ store'[current].made = store[current].made /\ store'[current].refs = store[current].refs
        /\ store'[current].ready /\ store'[current].items = store[current].items /\ store'[current].dirty = store[current].dirty
        /\ ~store'[current].timer /\ store'[current].snap = store[current].snap /\ store'[current].write # "none"
        /\ store'[current].write = "writing" => store[current].write = "writing"
        /\ \A h \in Stores \ {current} : store'[h] = store[h]
    BY <1>1, <1>2, AtOne DEF PersistInv, PersistType, StoreRecords
  <1>4. /\ \A h \in Stores : Users(h)' = Users(h)
        /\ \A e \in Flushers : On(e)' = On(e)
    BY <1>2 DEF Users, On
  <1>5. flush'[f] = "wait" /\ \A e \in Flushers : e # f => flush'[e] = flush[e]
    BY <1>2 DEF PersistInv, PersistType
  <1>6. LeasesAgree'
    <2>1. SUFFICES ASSUME NEW t \in Sessions PROVE LeaseAgrees(t)'
      BY DEF LeasesAgree
    <2>2. LeaseAgrees(t) /\ (flush[t] = "wait" => flush'[t] = "wait")
      BY <1>5, AtOne, Places
    <2>3. QED
      BY <1>2, <1>3, <2>2 DEF LeaseAgrees
  <1>7. FlushesWait'
    BY <1>1, <1>2, <1>3, <1>4, <1>5, AtOne, Places DEF FlushesWait
  <1>8. StoreKnows(current)'
    <2>1. StoreKnows(current)
      BY <1>1, AtOne
    <2>2. QED
      BY <1>1, <1>2, <1>3, <2>1 DEF StoreKnows
  <1>9. QED
    BY <1>1, <1>2, <1>3, <1>4, <1>6, <1>7, <1>8, InPlace

\* What a write takes has all that the file has.
LEMMA WriteStartKeeps == ASSUME PersistInv, PersistType', NEW g \in Stores, WriteStart(g) PROVE PersistRest'
  <1>1. g = current /\ current \in Stores /\ store[current].ready
    BY AtOne DEF WriteStart, StoreKnows
  <1>2. /\ store' = [store EXCEPT ![current].write = "writing", ![current].snap = store[current].items, ![current].dirty = FALSE]
        /\ UNCHANGED <<file, current, lease, flush, troubles>> /\ store[current].write = "queued"
    BY <1>1 DEF WriteStart, Written
  <1>3. /\ store'[current].made = store[current].made /\ store'[current].refs = store[current].refs
        /\ store'[current].ready /\ store'[current].items = store[current].items /\ ~store'[current].dirty
        /\ store'[current].timer = store[current].timer /\ store'[current].snap = store[current].items /\ store'[current].write = "writing"
        /\ \A h \in Stores \ {current} : store'[h] = store[h]
    BY <1>1, <1>2, AtOne DEF PersistInv, PersistType, StoreRecords
  <1>4. /\ \A h \in Stores : Users(h)' = Users(h)
        /\ \A e \in Flushers : On(e)' = On(e)
    BY <1>2 DEF Users, On
  <1>5. LeasesAgree'
    <2>1. SUFFICES ASSUME NEW t \in Sessions PROVE LeaseAgrees(t)'
      BY DEF LeasesAgree
    <2>2. LeaseAgrees(t)
      BY AtOne
    <2>3. QED
      BY <1>2, <1>3, <2>2 DEF LeaseAgrees
  <1>6. FlushesWait'
    BY <1>2, <1>3, <1>4, AtOne DEF FlushesWait
  <1>7. StoreKnows(current)'
    <2>1. StoreKnows(current) /\ Users(current)' = Users(current)
      BY <1>1, <1>2, AtOne DEF Users
    <2>2. QED
      BY <1>1, <1>2, <1>3, <2>1 DEF StoreKnows
  <1>8. QED
    BY <1>1, <1>2, <1>3, <1>4, <1>5, <1>6, <1>7, InPlace
\* A clean store is forgotten by its last session, and then no session is at it.
LEMMA GiveBackKeeps == ASSUME PersistInv, PersistType', NEW s \in Sessions, GiveBack(s) PROVE PersistRest'
  <1>1. /\ lease[s].phase = "held" /\ lease[s].on = current /\ current \in Stores /\ On(s) = current /\ store[current].ready
        /\ flush[s] = "idle" /\ UNCHANGED <<file, troubles>> /\ current # 0
    BY AtOne, Places DEF GiveBack, LeaseAgrees
  <1>2. StoreKnows(current) /\ s \in Users(current)
    BY <1>1, AtOne DEF Users
  <1> DEFINE left == [store[current] EXCEPT !.refs = @ - 1, !.timer = FALSE]
  <1>3. CASE Clean(current)
    <2>1. /\ store' = [store EXCEPT ![current] = left] /\ lease' = [lease EXCEPT ![s] = [phase |-> "done", on |-> 0]]
          /\ current' = (IF left.refs = 0 THEN 0 ELSE current) /\ UNCHANGED flush
      BY <1>1, <1>3 DEF GiveBack
    <2>2. /\ store'[current].made = store[current].made /\ store'[current].refs = store[current].refs - 1
          /\ store'[current].ready /\ store'[current].items = store[current].items /\ ~store'[current].dirty
          /\ ~store'[current].timer /\ store'[current].snap = store[current].snap /\ store'[current].write = "none"
          /\ left.refs = store[current].refs - 1
          /\ \A h \in Stores \ {current} : store'[h] = store[h]
      BY <1>1, <1>3, <2>1, AtOne DEF PersistInv, PersistType, StoreRecords, Clean
    <2>3. lease'[s].phase = "done" /\ lease'[s].on = 0 /\ \A t \in Sessions \ {s} : lease'[t] = lease[t]
      BY <2>1 DEF PersistInv, PersistType
    <2>4. \A f \in Flushers : flush[f] # "wait"
      BY <1>3, AtOne DEF Clean
    <2>5. \A t \in Sessions \ {s} : lease[t].on # 0 => t \in Users(current)
      BY <2>4, AtOne, Places DEF LeaseAgrees, Users
    <2>6. \A h \in Stores : Users(h)' = IF h = current THEN Users(current) \ {s} ELSE Users(h)
      BY <1>1, <1>2, <2>3, Places DEF Users
    <2>7. UsersCounted'
      BY <1>1, <1>2, <2>2, <2>6, OneLess DEF UsersCounted, PersistInv, PersistRest
    <2>8. current' = 0 => Users(current) = {s}
      <3>1. SUFFICES ASSUME current' = 0 PROVE Users(current) \ {s} = {}
        BY <1>2
      <3>2. IsFiniteSet(Users(current) \ {s}) /\ Cardinality(Users(current) \ {s}) = 0
        BY <1>1, <1>2, <2>1, <2>2, <3>1, OneLess
      <3>3. QED
        BY <3>2, FS_EmptySet
    <2>9. LeasesAgree'
      <3>1. SUFFICES ASSUME NEW t \in Sessions PROVE LeaseAgrees(t)'
        BY DEF LeasesAgree
      <3>2. CASE t = s
        BY <2>3, <3>2 DEF LeaseAgrees
      <3>3. CASE t # s
        <4>1. LeaseAgrees(t) /\ lease'[t] = lease[t] /\ (lease[t].on # 0 => current' = current)
          BY <2>1, <2>3, <2>5, <2>8, <3>3, AtOne
        <4>2. QED
          BY <2>1, <2>2, <4>1, <1>1 DEF LeaseAgrees
      <3>4. QED
        BY <3>2, <3>3
    <2>10. FlushesWait'
      BY <2>1, <2>4 DEF FlushesWait
    <2>11. StoresKnow'
      <3>1. SUFFICES ASSUME NEW h \in Stores PROVE StoreKnows(h)'
        BY DEF StoresKnow
      <3>2. CASE h = current
        <4>1. store'[h].made /\ current' \in {current, 0}
          BY <1>2, <2>1, <2>2, <3>2 DEF StoreKnows
        <4>2. QED
          BY <1>1, <1>2, <2>2, <3>2, <4>1 DEF StoreKnows
      <3>3. CASE h # current
        <4>1. StoreKnows(h) /\ store'[h] = store[h] /\ h # current' /\ Users(h)' = Users(h)
          BY <2>1, <2>2, <2>6, <3>3, AtOne, Places
        <4>2. QED
          BY <3>3, <4>1 DEF StoreKnows
      <3>4. QED
        BY <3>2, <3>3
    <2>12. CleanIsWritten'
      <3>1. store[current].items \subseteq file
        BY <1>1, <1>3, AtOne DEF Clean
      <3>2. QED
        BY <1>1, <2>2, <3>1, AtOne DEF CleanIsWritten
    <2>13. QED
      BY <2>7, <2>9, <2>10, <2>11, <2>12 DEF PersistRest
  <1>4. CASE ~Clean(current)
    <2>1. /\ store' = [store EXCEPT ![current] = [left EXCEPT !.write = IF @ = "none" THEN "queued" ELSE @]]
          /\ lease' = [lease EXCEPT ![s].phase = "releasing"] /\ flush' = [flush EXCEPT ![s] = "wait"] /\ current' = current
      BY <1>1, <1>4 DEF GiveBack, Forgotten
    <2>2. /\ store'[current].made = store[current].made /\ store'[current].refs = store[current].refs - 1
          /\ store'[current].ready /\ store'[current].items = store[current].items /\ store'[current].dirty = store[current].dirty
          /\ ~store'[current].timer /\ store'[current].snap = store[current].snap /\ store'[current].write # "none"
          /\ store'[current].write = "writing" => store[current].write = "writing"
          /\ \A h \in Stores \ {current} : store'[h] = store[h]
      BY <1>1, <2>1, AtOne DEF PersistInv, PersistType, StoreRecords
    <2>3. lease'[s].phase = "releasing" /\ lease'[s].on = current /\ \A t \in Sessions \ {s} : lease'[t] = lease[t]
      BY <1>1, <2>1 DEF PersistInv, PersistType
    <2>4. flush'[s] = "wait" /\ \A e \in Flushers : e # s => flush'[e] = flush[e]
      BY <2>1, Places DEF PersistInv, PersistType
    <2>5. \A h \in Stores : Users(h)' = IF h = current THEN Users(current) \ {s} ELSE Users(h)
      BY <1>1, <1>2, <2>3 DEF Users
    <2>6. UsersCounted'
      BY <1>1, <1>2, <2>2, <2>5, OneLess DEF UsersCounted, PersistInv, PersistRest
    <2>7. LeasesAgree'
      <3>1. SUFFICES ASSUME NEW t \in Sessions PROVE LeaseAgrees(t)'
        BY DEF LeasesAgree
      <3>2. LeaseAgrees(t) /\ (flush[t] = "wait" => flush'[t] = "wait")
        BY <2>4, AtOne, Places
      <3>3. QED
        BY <1>1, <2>1, <2>2, <2>3, <2>4, <3>2 DEF LeaseAgrees
    <2>8. FlushesWait'
      <3>1. \A f \in Flushers : On(f)' = On(f)
        BY <1>1, <2>3 DEF On, Flushers
      <3>2. QED
        BY <1>1, <2>1, <2>2, <2>4, <3>1, AtOne DEF FlushesWait
    <2>9. StoresKnow'
      <3>1. SUFFICES ASSUME NEW h \in Stores PROVE StoreKnows(h)'
        BY DEF StoresKnow
      <3>2. CASE h = current
        BY <1>1, <1>2, <2>1, <2>2, <3>2 DEF StoreKnows
      <3>3. CASE h # current
        <4>1. StoreKnows(h) /\ store'[h] = store[h] /\ h # current'
          BY <2>1, <2>2, <3>3, AtOne
        <4>2. QED
          BY <3>3, <4>1 DEF StoreKnows
      <3>4. QED
        BY <3>2, <3>3
    <2>10. CleanIsWritten'
      BY <1>1, <2>2, AtOne DEF CleanIsWritten
    <2>11. QED
      BY <2>6, <2>7, <2>8, <2>9, <2>10 DEF PersistRest
  <1>5. QED
    BY <1>3, <1>4

\* When the write of a store ends, every flush has waited for it, and every release is over.
LEMMA FinishKeeps ==
  ASSUME PersistInv, NEW g \in Stores, g = current, store[g].ready, Finish(g),
         \A h \in Stores : h # g => store'[h] = store[h],
         store'[g].made, store'[g].ready, store'[g].refs = store[g].refs, store'[g].write = "none",
         store'[g].timer => store[g].timer, file \subseteq file', file' \subseteq store'[g].items,
         ~store'[g].dirty => store'[g].items \subseteq file'
  PROVE  PersistRest'
  <1> DEFINE S == {s \in Sessions : flush[s] = "wait" /\ On(s) = g /\ lease[s].phase = "releasing"}
  <1>1. /\ flush' = [f \in Flushers |-> IF flush[f] = "wait" /\ On(f) = g THEN "idle" ELSE flush[f]]
        /\ lease' = [s \in Sessions |-> IF s \in S THEN [phase |-> "done", on |-> 0] ELSE lease[s]]
        /\ current' = IF (\E s \in S : On(s) = current) /\ store[current].refs = 0 THEN 0 ELSE current
    BY DEF Finish, Forgotten
  <1>2. \A f \in Flushers : flush'[f] # "wait"
    BY <1>1, AtOne
  <1>3. /\ \A s \in Sessions : s \in S <=> lease[s].phase = "releasing"
        /\ \A s \in S : lease'[s].phase = "done" /\ lease'[s].on = 0
        /\ \A s \in Sessions : s \notin S => lease'[s] = lease[s]
    <2>1. \A s \in Sessions : lease[s].phase = "releasing" => flush[s] = "wait" /\ On(s) = g
      BY AtOne, Places DEF LeaseAgrees
    <2>2. QED
      BY <1>1, <2>1
  <1>4. \A h \in Stores : Users(h)' = Users(h)
    BY <1>3 DEF Users
  <1>5. current' \in {g, 0} /\ (current' = 0 => \A s \in Sessions : s \notin Users(g)) /\ g # 0
    BY <1>1, NobodyCounts, Places
  <1>6. LeasesAgree'
    <2>1. SUFFICES ASSUME NEW s \in Sessions PROVE LeaseAgrees(s)'
      BY DEF LeasesAgree
    <2>2. CASE s \in S
      BY <1>3, <2>2 DEF LeaseAgrees
    <2>3. CASE s \notin S
      <3>1. LeaseAgrees(s) /\ lease'[s] = lease[s] /\ lease[s].phase # "releasing"
        BY <1>3, <2>3, AtOne
      <3>2. lease[s].on # 0 => current' = g
        BY <1>5, <3>1 DEF LeaseAgrees, Users
      <3>3. QED
        BY <1>5, <3>1, <3>2 DEF LeaseAgrees
    <2>4. QED
      BY <2>2, <2>3
  <1>7. UsersCounted'
    <2>1. \A h \in Stores : store'[h].refs = store[h].refs
      OBVIOUS
    <2>2. QED
      BY <1>4, <2>1 DEF UsersCounted, PersistInv, PersistRest
  <1>8. StoresKnow'
    <2>1. SUFFICES ASSUME NEW h \in Stores PROVE StoreKnows(h)'
      BY DEF StoresKnow
    <2>2. CASE h = g
      <3>1. StoreKnows(g)
        BY AtOne
      <3>2. store'[g].timer => \E s \in Users(g)' : lease'[s].phase = "held"
        BY <1>3, <1>4, <3>1 DEF StoreKnows, Users
      <3>3. store'[g].timer => current' = g
        BY <1>4, <1>5, <3>2 DEF Users
      <3>4. QED
        BY <1>5, <2>2, <3>2, <3>3 DEF StoreKnows
    <2>3. CASE h # g
      <3>1. StoreKnows(h) /\ store'[h] = store[h] /\ h # current' /\ h # current
        BY <1>5, <2>3, AtOne, Places
      <3>2. QED
        BY <3>1 DEF StoreKnows
    <2>4. QED
      BY <2>2, <2>3
  <1>9. CleanIsWritten'
    <2>1. SUFFICES ASSUME NEW h \in Stores, ~store'[h].dirty, store'[h].write = "none" PROVE store'[h].items \subseteq file'
      BY DEF CleanIsWritten
    <2>2. QED
      BY <2>1, AtOne
  <1>10. QED
    BY <1>2, <1>6, <1>7, <1>8, <1>9 DEF PersistRest, FlushesWait
\* The file becomes what the write took, and a store that learned meanwhile writes again.
LEMMA WriteEndKeeps == ASSUME PersistInv, PersistType', NEW g \in Stores, WriteEnd(g) PROVE PersistRest' /\ FileOnlyGrowsStep
  <1>1. /\ StoreKnows(g) /\ store[g].write = "writing" /\ file' = store[g].snap /\ g = current /\ store[g].ready /\ store[g].made
        /\ file \subseteq store[g].snap /\ store[g].snap \subseteq store[g].items
        /\ ~store[g].dirty => store[g].items \subseteq store[g].snap
    BY AtOne DEF WriteEnd, StoreKnows
  <1>2. store' = [store EXCEPT ![g].write = IF store[g].dirty THEN "queued" ELSE "none", ![g].snap = {},
                               ![g].dirty = store[g].dirty, ![g].timer = FALSE]
    BY DEF WriteEnd, Again
  <1>3. /\ store'[g].made = store[g].made /\ store'[g].refs = store[g].refs /\ store'[g].ready /\ store'[g].items = store[g].items
        /\ store'[g].dirty = store[g].dirty /\ ~store'[g].timer
        /\ store'[g].write = IF store[g].dirty THEN "queued" ELSE "none"
        /\ \A h \in Stores : h # g => store'[h] = store[h]
    <2>1. store[g] \in StoreRecords /\ store \in [Stores -> StoreRecords] /\ store[g].ready
      BY <1>1 DEF PersistInv, PersistType
    <2>2. QED
      BY <1>2, <2>1 DEF StoreRecords
  <1>4. FileOnlyGrowsStep
    BY <1>1 DEF FileOnlyGrowsStep
  <1>5. CASE ~store[g].dirty
    <2>1. Finish(g)
      BY <1>5 DEF WriteEnd, Again
    <2>2. PersistRest'
      BY <1>1, <1>3, <1>5, <2>1, FinishKeeps
    <2>3. QED
      BY <1>4, <2>2
  <1>6. CASE store[g].dirty
    <2>1. UNCHANGED <<flush, lease, current>>
      BY <1>6 DEF WriteEnd, Again
    <2>2. /\ \A h \in Stores : Users(h)' = Users(h)
          /\ \A f \in Flushers : On(f)' = On(f)
      BY <2>1 DEF Users, On
    <2>3. LeasesAgree'
      <3>1. SUFFICES ASSUME NEW t \in Sessions PROVE LeaseAgrees(t)'
        BY DEF LeasesAgree
      <3>2. LeaseAgrees(t)
        BY AtOne
      <3>3. QED
        BY <1>1, <1>3, <2>1, <3>2 DEF LeaseAgrees
    <2>4. UsersCounted'
      BY <1>3, <2>2 DEF UsersCounted, PersistInv, PersistRest
    <2>5. FlushesWait'
      BY <1>1, <1>3, <1>6, <2>1, <2>2, AtOne DEF FlushesWait
    <2>6. StoresKnow'
      <3>1. SUFFICES ASSUME NEW h \in Stores PROVE StoreKnows(h)'
        BY DEF StoresKnow
      <3>2. CASE h = g
        BY <1>1, <1>3, <1>6, <2>1, <3>2 DEF StoreKnows
      <3>3. CASE h # g
        <4>1. StoreKnows(h) /\ store'[h] = store[h] /\ h # current' /\ h # current
          BY <1>1, <1>3, <2>1, <3>3, AtOne
        <4>2. QED
          BY <4>1 DEF StoreKnows
      <3>4. QED
        BY <3>2, <3>3
    <2>7. CleanIsWritten'
      <3>1. SUFFICES ASSUME NEW h \in Stores, ~store'[h].dirty, store'[h].write = "none" PROVE store'[h].items \subseteq file'
        BY DEF CleanIsWritten
      <3>2. h # g /\ store'[h] = store[h]
        BY <1>3, <1>6, <3>1
      <3>3. QED
        BY <1>1, <3>1, <3>2, AtOne
    <2>8. QED
      BY <1>4, <2>3, <2>4, <2>5, <2>6, <2>7 DEF PersistRest
  <1>7. QED
    BY <1>5, <1>6

\* A failed write changes no file, and its store stays dirty.
LEMMA WriteFailsKeeps == ASSUME PersistInv, PersistType', NEW g \in Stores, WriteFails(g) PROVE PersistRest'
  <1>1. /\ StoreKnows(g) /\ store[g].write = "writing" /\ file' = file /\ g = current /\ store[g].ready /\ store[g].made
        /\ file \subseteq store[g].items /\ Finish(g)
        /\ store' = [store EXCEPT ![g].write = "none", ![g].snap = {}, ![g].dirty = TRUE]
    BY AtOne DEF WriteFails, StoreKnows
  <1>2. /\ store'[g].made = store[g].made /\ store'[g].refs = store[g].refs /\ store'[g].ready /\ store'[g].items = store[g].items
        /\ store'[g].dirty /\ store'[g].timer = store[g].timer /\ store'[g].write = "none"
        /\ \A h \in Stores : h # g => store'[h] = store[h]
    <2>1. store[g] \in StoreRecords /\ store \in [Stores -> StoreRecords] /\ store[g].ready
      BY <1>1 DEF PersistInv, PersistType
    <2>2. store' = [store EXCEPT ![g].write = "none", ![g].snap = {}, ![g].dirty = TRUE]
      BY <1>1
    <2>3. QED
      BY <2>1, <2>2 DEF StoreRecords
  <1>3. QED
    BY <1>1, <1>2, FinishKeeps

\* After a crash only the file is left.
LEMMA CrashKeeps == ASSUME PersistInv, PersistType', Crash PROVE PersistRest'
  <1>1. /\ current' = 0 /\ UNCHANGED file
        /\ store' = [g \in Stores |-> [NoStore EXCEPT !.made = store[g].made, !.ready = store[g].made]]
        /\ lease' = [s \in Sessions |-> IF lease[s].phase = "none" THEN lease[s] ELSE [phase |-> "done", on |-> 0]]
        /\ flush' = [f \in Flushers |-> "idle"]
    BY DEF Crash
  <1>2. \A g \in Stores :
          /\ store'[g].made = store[g].made /\ store'[g].ready = store[g].made /\ store'[g].refs = 0 /\ store'[g].items = {}
          /\ ~store'[g].dirty /\ ~store'[g].timer /\ store'[g].write = "none"
          /\ ~store[g].made => store'[g] = NoStore
    <2>1. \A g \in Stores : store'[g] = [made |-> store[g].made, ready |-> store[g].made, refs |-> 0, items |-> {}, dirty |-> FALSE,
                                         timer |-> FALSE, write |-> "none", snap |-> {}]
      BY <1>1 DEF NoStore
    <2>2. \A g \in Stores : store[g].made \in BOOLEAN
      BY AtOne DEF StoreRecords
    <2>3. \A g \in Stores : ~store[g].made => store[g].made = FALSE
      BY <2>2
    <2>4. ASSUME NEW g \in Stores, ~store[g].made PROVE store'[g] = NoStore
      <3>1. store[g].made = FALSE
        BY <2>3, <2>4
      <3>2. store'[g] = [made |-> FALSE, ready |-> FALSE, refs |-> 0, items |-> {}, dirty |-> FALSE,
                         timer |-> FALSE, write |-> "none", snap |-> {}]
        BY <2>1, <3>1
      <3>3. QED
        BY <3>2 DEF NoStore
    <2>5. ASSUME NEW g \in Stores
          PROVE  /\ store'[g].made = store[g].made /\ store'[g].ready = store[g].made /\ store'[g].refs = 0 /\ store'[g].items = {}
                 /\ ~store'[g].dirty /\ ~store'[g].timer /\ store'[g].write = "none"
      <3>1. PICK r : r = store'[g]
        OBVIOUS
      <3>2. r = [made |-> store[g].made, ready |-> store[g].made, refs |-> 0, items |-> {}, dirty |-> FALSE,
                 timer |-> FALSE, write |-> "none", snap |-> {}]
        BY <2>1, <3>1
      <3>3. /\ r.made = store[g].made /\ r.ready = store[g].made /\ r.refs = 0 /\ r.items = {}
            /\ r.dirty = FALSE /\ r.timer = FALSE /\ r.write = "none"
        BY <3>2
      <3>4. QED
        BY <3>1, <3>3
    <2>6. QED
      BY <2>4, <2>5
  <1>3. \A s \in Sessions : lease'[s].phase \in {"none", "done"} /\ lease'[s].on = 0
    BY <1>1, AtOne DEF LeaseAgrees
  <1>4. \A g \in Stores : Users(g)' = {}
    BY <1>3 DEF Users
  <1>5. LeasesAgree'
    BY <1>3 DEF LeasesAgree, LeaseAgrees
  <1>6. UsersCounted'
    BY <1>2, <1>4, FS_EmptySet DEF UsersCounted
  <1>7. FlushesWait'
    BY <1>1 DEF FlushesWait
  <1>8. StoresKnow'
    BY <1>1, <1>2, Places DEF StoresKnow, StoreKnows
  <1>9. CleanIsWritten'
    BY <1>2 DEF CleanIsWritten
  <1>10. QED
    BY <1>5, <1>6, <1>7, <1>8, <1>9 DEF PersistRest

\* PersistInv is inductive, and its steps only add to the file.
LEMMA PersistKept == PersistInv /\ [PersistNext]_persistVars => PersistInv' /\ FileOnlyGrowsStep
  <1>1. ASSUME PersistInv, PersistNext PROVE PersistInv' /\ FileOnlyGrowsStep
    <2>1. PersistType'
      BY <1>1, PersistTyped
    <2>2. ASSUME NEW s \in Sessions, Acquire(s) \/ Opened(s) \/ GiveBack(s) PROVE PersistRest' /\ FileOnlyGrowsStep
      <3>1. PersistRest'
        BY <1>1, <2>1, <2>2, AcquireKeeps, OpenedKeeps, GiveBackKeeps
      <3>2. file' = file
        BY <2>2 DEF Acquire, Opened, GiveBack
      <3>3. QED
        BY <3>1, <3>2 DEF FileOnlyGrowsStep
    <2>3. ASSUME NEW s \in Sessions, NEW i \in Items, Learn(s, i) PROVE PersistRest' /\ FileOnlyGrowsStep
      BY <1>1, <2>1, <2>3, LearnKeeps DEF Learn, FileOnlyGrowsStep
    <2>4. ASSUME NEW g \in Stores, Load(g) \/ WriteStart(g) \/ WriteFails(g) PROVE PersistRest' /\ FileOnlyGrowsStep
      <3>1. PersistRest'
        BY <1>1, <2>1, <2>4, LoadKeeps, WriteStartKeeps, WriteFailsKeeps
      <3>2. file' = file
        BY <2>4 DEF Load, WriteStart, WriteFails
      <3>3. QED
        BY <3>1, <3>2 DEF FileOnlyGrowsStep
    <2>5. ASSUME NEW g \in Stores, WriteEnd(g) PROVE PersistRest' /\ FileOnlyGrowsStep
      BY <1>1, <2>1, <2>5, WriteEndKeeps
    <2>6. ASSUME NEW f \in Flushers, Ask(f) PROVE PersistRest' /\ FileOnlyGrowsStep
      BY <1>1, <2>1, <2>6, AskKeeps DEF Ask, FileOnlyGrowsStep
    <2>7. ASSUME Crash PROVE PersistRest' /\ FileOnlyGrowsStep
      <3>1. file' = file
        BY <2>7 DEF Crash
      <3>2. QED
        BY <1>1, <2>1, <2>7, <3>1, CrashKeeps DEF FileOnlyGrowsStep
    <2>8. PersistRest' /\ FileOnlyGrowsStep
      <3>1. CASE \E s \in Sessions : Acquire(s) \/ Opened(s) \/ GiveBack(s) \/ \E i \in Items : Learn(s, i)
        BY <2>2, <2>3, <3>1
      <3>2. CASE \E g \in Stores : Load(g) \/ WriteStart(g) \/ WriteEnd(g) \/ WriteFails(g)
        BY <2>4, <2>5, <3>2
      <3>3. QED
        BY <1>1, <2>6, <2>7, <3>1, <3>2 DEF PersistNext
    <2>9. QED
      BY <2>1, <2>8 DEF PersistInv
  <1>2. ASSUME PersistInv, UNCHANGED persistVars PROVE PersistInv' /\ FileOnlyGrowsStep
    <2>1. UNCHANGED <<file, current, store, lease, flush, troubles>>
      BY <1>2 DEF persistVars
    <2>2. \A g \in Stores : Users(g)' = Users(g) /\ (StoreKnows(g) => StoreKnows(g)')
      BY <2>1 DEF Users, StoreKnows
    <2>3. PersistType' /\ LeasesAgree' /\ CleanIsWritten' /\ FileOnlyGrowsStep
      BY <1>2, <2>1 DEF PersistInv, PersistRest, PersistType, LeasesAgree, LeaseAgrees, CleanIsWritten, FileOnlyGrowsStep
    <2>4. UsersCounted' /\ StoresKnow'
      BY <1>2, <2>1, <2>2 DEF PersistInv, PersistRest, UsersCounted, StoresKnow
    <2>5. FlushesWait'
      BY <1>2, <2>1 DEF PersistInv, PersistRest, FlushesWait, On
    <2>6. QED
      BY <2>3, <2>4, <2>5 DEF PersistInv, PersistRest
  <1>3. QED
    BY <1>1, <1>2

-----------------------------------------------------------------------------
\* A finished turn was analysed, or waits ahead of every prediction of a later turn (observeTurn,
\* analysisTail, predictionStore).
THEOREM PatternSourceInvariance == PatternSourceSpec => []SourceInv
  BY SourceStart, SourceKept, PTL DEF PatternSourceSpec

\* Only the store that the sessions share writes, and it knows what the file has
\* (acquirePatternAwareStore, flush).
THEOREM PersistInvariance == PersistSpec => []PersistInv
  <1>1. PersistInv /\ [PersistNext]_persistVars => PersistInv'
    BY PersistKept
  <1>2. QED
    BY PersistStart, <1>1, PTL DEF PersistSpec

\* Each finished turn is learned once, whole and in its order, a source that was disposed of
\* holds no store, and a store that is clean has all it learned in the file (observeTurn,
\* analysisTail, dispose; flush of pattern-aware.ts).
THEOREM LearningIsSafe == PatternSourceSpec /\ PersistSpec => []LearningSafe
  <1>1. SourceInv /\ PersistInv => LearningSafe
    BY DEF SourceInv, LearnedInv, PersistInv, PersistRest, LearningSafe
  <1>2. QED
    BY PatternSourceInvariance, PersistInvariance, <1>1, PTL

\* A prediction knows every earlier turn unless a store could not be opened, the source keeps
\* silent only on what the runtime still holds (predictionStore, propose), and what the file once
\* held no later store of the workspace writes away (acquirePatternAwareStore).
THEOREM LearningStepsHold == PatternSourceSpec /\ PersistSpec => LearningSteps
  <1>1. SourceInv /\ PersistInv /\ [PatternSourceNext]_sourceVars /\ [PersistNext]_persistVars
        => [PredictsOnAllStep /\ SilenceCoveredStep /\ FileOnlyGrowsStep]_<<sourceVars, persistVars>>
    BY PredictsOnAllHolds, SilenceCoveredHolds, PersistKept
  <1>2. QED
    BY PatternSourceInvariance, PersistInvariance, <1>1, PTL DEF PatternSourceSpec, PersistSpec, LearningSteps
=============================================================================
