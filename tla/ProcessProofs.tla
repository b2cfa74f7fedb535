---------------------------- MODULE ProcessProofs ----------------------------
(* Of the reuse of processes, for any numbers of branches, consumers, workers, *)
(* requests and processes: the handoff's registry and its shared words, the    *)
(* executions nested in a session, and the children of an Actor's command; the *)
(* process session, the native route and the native owner.                     *)
EXTENDS ProcessHandoff, NestedExec, ProcessSession, FiniteSetTheorems, TLAPS

Words == [whole : BOOLEAN, partial : BOOLEAN, child : Nat]
States == {"idle", "again", "child", "reserve", "register", "held", "partial", "return", "flag", "leave"}
ClaimRecords ==
  [pc : States, seen : Words, i : Int, left : Int, reserved : BOOLEAN, consumed : BOOLEAN, tries : Nat]

AuthorityType ==
  /\ authority \in Words
  /\ reservation \in {"available", "reserved", "consumed"}
  /\ claim \in [Threads -> ClaimRecords]
  /\ took \subseteq Threads
  /\ whole \in {"none", "applying", "applied"}

\* The claims that have added a child to the branch's word and not taken it off.
Children == {x \in Threads : claim[x].pc \in {"reserve", "register", "held", "partial", "return"}}
Counted == authority.child = Cardinality(Children)

\* A claim's flags agree with where it stands.
ClaimsTrue ==
  \A x \in Threads :
    /\ claim[x].pc \in {"register", "held", "partial", "flag", "leave"} => claim[x].reserved
    /\ claim[x].pc \in {"idle", "again", "child", "reserve"} => ~claim[x].reserved
    /\ claim[x].consumed => claim[x].reserved /\ claim[x].pc \in {"partial", "return", "flag", "leave"}
    /\ claim[x].pc = "partial" => claim[x].consumed
    /\ claim[x].pc = "child" => ~claim[x].seen.whole

\* One claim holds the reservation.
ReservedOnce ==
  /\ \A x \in Threads : claim[x].reserved => reservation = "reserved"
  /\ \A x, y \in Threads : claim[x].reserved /\ claim[y].reserved => x = y

\* Whoever took the result still holds the reservation, or has spent it; and has marked the
\* branch's word as spent in part, or is about to, with its child still in it.
TookOnce ==
  \A x \in took :
    /\ took = {x}
    /\ reservation = "consumed" \/ (claim[x].reserved /\ claim[x].consumed)
    /\ authority.partial \/ claim[x].pc = "partial"

\* A word claimed whole holds no child and no part.
WholeAlone ==
  /\ whole # "none" <=> authority.whole
  /\ authority.whole => authority.child = 0 /\ took = {}

Inv == AuthorityType /\ Counted /\ ClaimsTrue /\ ReservedOnce /\ TookOnce /\ WholeAlone
-----------------------------------------------------------------------------
LEMMA AuthorityStart == AuthorityInit => Inv
  <1> SUFFICES ASSUME AuthorityInit PROVE Inv
    OBVIOUS
  <1>1. Zero \in Words /\ NoClaim \in ClaimRecords
    BY DEF Zero, NoClaim, Words, ClaimRecords, States
  <1>2. AuthorityType
    BY <1>1 DEF AuthorityInit, AuthorityType
  <1>3. Counted
    <2>1. Children = {}
      BY DEF AuthorityInit, NoClaim, Children
    <2>2. QED
      BY <2>1, FS_EmptySet DEF AuthorityInit, Zero, Counted
  <1>4. QED
    BY <1>2, <1>3 DEF AuthorityInit, Zero, NoClaim, Inv, ClaimsTrue, ReservedOnce, TookOnce, WholeAlone

LEMMA WorkersFinite == IsFiniteSet(Threads)
  BY AuthoritySetting, FS_AddElement DEF Threads

LEMMA ChildrenFinite == IsFiniteSet(Children) /\ IsFiniteSet(Children') /\ Cardinality(Children) \in Nat
  <1>1. Children \in SUBSET Threads /\ Children' \in SUBSET Threads
    BY DEF Children
  <1>2. QED
    BY <1>1, WorkersFinite, FS_Subset, FS_CardinalityType

\* One thread's claim moves, the others stay.
LEMMA ClaimMoves ==
  ASSUME AuthorityType, NEW x \in Threads, NEW r \in ClaimRecords, claim' = [claim EXCEPT ![x] = r]
  PROVE  /\ claim' \in [Threads -> ClaimRecords]
         /\ claim'[x] = r
         /\ \A y \in Threads : y # x => claim'[y] = claim[y]
  BY DEF AuthorityType

\* A claim joins the children, leaves them, or neither.
LEMMA ChildrenMove ==
  ASSUME NEW x \in Threads, \A y \in Threads : y # x => claim'[y] = claim[y]
  PROVE  /\ x \notin Children /\ x \in Children' => Cardinality(Children') = Cardinality(Children) + 1
         /\ x \in Children /\ x \notin Children' => Cardinality(Children') = Cardinality(Children) - 1
         /\ (x \in Children <=> x \in Children') => Children' = Children
         /\ x \in Children => Cardinality(Children) # 0
  <1>1. ASSUME x \notin Children, x \in Children' PROVE Cardinality(Children') = Cardinality(Children) + 1
    <2>1. Children' = Children \cup {x}
      BY <1>1 DEF Children
    <2>2. QED
      BY <1>1, <2>1, ChildrenFinite, FS_AddElement
  <1>2. ASSUME x \in Children, x \notin Children' PROVE Cardinality(Children') = Cardinality(Children) - 1
    <2>1. Children' = Children \ {x}
      BY <1>2 DEF Children
    <2>2. QED
      BY <1>2, <2>1, ChildrenFinite, FS_RemoveElement
  <1>3. ASSUME x \in Children <=> x \in Children' PROVE Children' = Children
    BY <1>3 DEF Children
  <1>4. x \in Children => Cardinality(Children) # 0
    BY ChildrenFinite, FS_EmptySet
  <1>5. QED
    BY <1>1, <1>2, <1>3, <1>4

\* The records a claim moves to.
LEMMA Restarted ==
  ASSUME NEW k \in Nat
  PROVE  /\ [NoClaim EXCEPT !.tries = k] \in ClaimRecords
         /\ [NoClaim EXCEPT !.tries = k].pc = "idle"
         /\ [NoClaim EXCEPT !.tries = k].reserved = FALSE /\ [NoClaim EXCEPT !.tries = k].consumed = FALSE
  <1>1. Zero \in Words
    BY DEF Zero, Words
  <1>2. /\ NoClaim \in ClaimRecords
        /\ NoClaim.pc = "idle" /\ NoClaim.reserved = FALSE /\ NoClaim.consumed = FALSE
    BY <1>1 DEF NoClaim, ClaimRecords, States
  <1>3. \A c \in ClaimRecords :
          /\ [c EXCEPT !.tries = k] \in ClaimRecords
          /\ [c EXCEPT !.tries = k].pc = c.pc
          /\ [c EXCEPT !.tries = k].reserved = c.reserved /\ [c EXCEPT !.tries = k].consumed = c.consumed
    BY DEF ClaimRecords
  <1>4. QED
    BY <1>2, <1>3

LEMMA Moved ==
  ASSUME NEW c \in ClaimRecords, NEW p \in States
  PROVE  /\ [c EXCEPT !.pc = p] \in ClaimRecords
         /\ [c EXCEPT !.pc = p].pc = p
         /\ [c EXCEPT !.pc = p].reserved = c.reserved /\ [c EXCEPT !.pc = p].consumed = c.consumed
  BY DEF ClaimRecords

LEMMA Registering ==
  ASSUME NEW c \in ClaimRecords, NEW n \in Int, NEW b \in BOOLEAN
  PROVE  LET r == [c EXCEPT !.pc = "register", !.i = n, !.reserved = b] IN
         r \in ClaimRecords /\ r.pc = "register" /\ r.reserved = b /\ r.consumed = c.consumed
  <1> DEFINE r == [c EXCEPT !.pc = "register", !.i = n, !.reserved = b]
  <1>1. r \in ClaimRecords
    BY DEF ClaimRecords, States
  <1>2. r.pc = "register"
    BY DEF ClaimRecords
  <1>3. r.reserved = b
    BY DEF ClaimRecords
  <1>4. r.consumed = c.consumed
    BY DEF ClaimRecords
  <1>5. QED
    BY <1>1, <1>2, <1>3, <1>4

\* A child joins the branch's word or leaves it.
LEMMA WordMoves ==
  ASSUME NEW w \in Words, NEW n \in Nat
  PROVE  /\ [w EXCEPT !.child = n] \in Words /\ [w EXCEPT !.child = n].child = n
         /\ [w EXCEPT !.child = n].whole = w.whole /\ [w EXCEPT !.child = n].partial = w.partial
         /\ [w EXCEPT !.partial = TRUE] \in Words /\ [w EXCEPT !.partial = TRUE].child = w.child
         /\ [w EXCEPT !.partial = TRUE].whole = w.whole /\ [w EXCEPT !.partial = TRUE].partial = TRUE
  BY DEF Words

LEMMA Walked ==
  ASSUME NEW c \in ClaimRecords, NEW n \in Int
  PROVE  /\ [c EXCEPT !.i = n] \in ClaimRecords
         /\ [c EXCEPT !.i = n].pc = c.pc
         /\ [c EXCEPT !.i = n].reserved = c.reserved /\ [c EXCEPT !.i = n].consumed = c.consumed
         /\ [c EXCEPT !.pc = "held", !.i = n] \in ClaimRecords
         /\ [c EXCEPT !.pc = "held", !.i = n].pc = "held"
         /\ [c EXCEPT !.pc = "held", !.i = n].reserved = c.reserved
         /\ [c EXCEPT !.pc = "held", !.i = n].consumed = c.consumed
         /\ [c EXCEPT !.left = n] \in ClaimRecords
         /\ [c EXCEPT !.left = n].pc = c.pc
         /\ [c EXCEPT !.left = n].reserved = c.reserved /\ [c EXCEPT !.left = n].consumed = c.consumed
  BY DEF ClaimRecords, States

LEMMA ClaimNumbers ==
  ASSUME AuthorityType, NEW x \in Threads
  PROVE  /\ claim[x] \in ClaimRecords
         /\ claim[x].i \in Int /\ claim[x].i + 1 \in Int /\ claim[x].i - 1 \in Int
         /\ claim[x].left \in Int /\ claim[x].left + 1 \in Int
         /\ claim[x].tries \in Nat /\ claim[x].tries + 1 \in Nat
         /\ authority \in Words
  BY DEF AuthorityType, ClaimRecords

LEMMA AuthorityStep == Inv /\ [AuthorityNext]_authorityVars => Inv'
  <1> SUFFICES ASSUME Inv, [AuthorityNext]_authorityVars PROVE Inv'
    OBVIOUS
  <1>0. /\ AuthorityType /\ Counted
        /\ authority.child \in Nat
    BY DEF Inv, AuthorityType, Words
  <1>1. ASSUME NEW x \in Threads, Load(x) PROVE Inv'
    <2>1. CASE (\E b \in ToSet(Chain[x]) : receipt[b].closed) \/ authority.whole
      <3> DEFINE r == [NoClaim EXCEPT !.tries = MaxClaims]
      <3>1. claim' = [claim EXCEPT ![x] = r] /\ claim[x].pc \in {"idle", "again"}
        <4>1. claim' = [claim EXCEPT ![x] = r]
          BY <1>1, <2>1, Zenon DEF Load
        <4>2. QED
          BY <1>1, <2>1, <4>1 DEF Load, At
      <3>2. UNCHANGED <<authority, reservation, took, whole>>
        BY <1>1, <2>1 DEF Load
      <3>3. claim[x] \in ClaimRecords
        BY <1>0, ClaimNumbers
      <3>4. r \in ClaimRecords /\ r.pc = "idle" /\ r.reserved = FALSE /\ r.consumed = FALSE
        BY <1>1, <2>1, <1>0, ClaimNumbers, AuthoritySetting, Restarted
      <3> HIDE DEF r
      <3>5. /\ claim' \in [Threads -> ClaimRecords] /\ claim'[x] = r
            /\ \A y \in Threads : y # x => claim'[y] = claim[y]
        BY <1>0, <3>1, <3>4, ClaimMoves
      <3>6. AuthorityType' /\ Counted'
        BY <1>1, <2>1, <1>0, <3>1, <3>2, <3>4, <3>5, ChildrenMove, ChildrenFinite DEF AuthorityType, Counted, Children, Words
      <3>7. ClaimsTrue' /\ ReservedOnce'
        BY <1>1, <2>1, <3>1, <3>2, <3>4, <3>5 DEF Inv, ClaimsTrue, ReservedOnce
      <3>8. TookOnce' /\ WholeAlone'
        BY <1>1, <2>1, <1>0, <3>1, <3>2, <3>4, <3>5, ChildrenMove DEF Inv, ClaimsTrue, ReservedOnce, TookOnce, WholeAlone, AuthorityType, Counted, Children, Words
      <3>9. QED
        BY <3>6, <3>7, <3>8 DEF Inv
    <2>2. CASE ~((\E b \in ToSet(Chain[x]) : receipt[b].closed) \/ authority.whole)
      <3> DEFINE r == [claim[x] EXCEPT !.pc = "child", !.seen = authority, !.tries = IF At(x, "idle") THEN claim[x].tries + 1 ELSE claim[x].tries]
      <3>1. claim' = [claim EXCEPT ![x] = r] /\ claim[x].pc \in {"idle", "again"}
        <4>1. claim' = [claim EXCEPT ![x] = r]
          <5> DEFINE shut == (\E b \in ToSet(Chain[x]) : receipt[b].closed) \/ authority.whole
        <5>1. claim' = [claim EXCEPT ![x] = IF shut THEN [NoClaim EXCEPT !.tries = MaxClaims] ELSE r]
          BY <1>1 DEF Load
        <5>2. ~shut
          BY <2>2
        <5> HIDE DEF shut, r
        <5>3. QED
          BY <5>1, <5>2
        <4>2. QED
          BY <1>1, <2>2, <4>1 DEF Load, At
      <3>2. UNCHANGED <<authority, reservation, took, whole>>
        BY <1>1, <2>2 DEF Load
      <3>3. claim[x] \in ClaimRecords
        BY <1>0, ClaimNumbers
      <3>4. r \in ClaimRecords /\ r.pc = "child" /\ r.seen = authority /\ ~authority.whole /\ r.reserved = claim[x].reserved /\ r.consumed = claim[x].consumed
        <4>1. (IF At(x, "idle") THEN claim[x].tries + 1 ELSE claim[x].tries) \in Nat
          BY <1>0, ClaimNumbers
        <4>2. ~authority.whole
          BY <2>2
        <4>3. QED
          <5>1. claim[x] \in ClaimRecords /\ authority \in Words
            BY <1>0, ClaimNumbers
          <5> DEFINE k == IF At(x, "idle") THEN claim[x].tries + 1 ELSE claim[x].tries
          <5>2. r = [claim[x] EXCEPT !.pc = "child", !.seen = authority, !.tries = k]
            OBVIOUS
          <5> HIDE DEF k, r
          <5>3. k \in Nat
            BY <4>1 DEF k
          <5>4. LET e == [claim[x] EXCEPT !.pc = "child", !.seen = authority, !.tries = k] IN
                  e \in ClaimRecords /\ e.pc = "child" /\ e.seen = authority
                    /\ e.reserved = claim[x].reserved /\ e.consumed = claim[x].consumed
            BY <5>1, <5>3 DEF ClaimRecords, States
          <5>5. QED
            BY <4>2, <5>2, <5>4
      <3> HIDE DEF r
      <3>5. /\ claim' \in [Threads -> ClaimRecords] /\ claim'[x] = r
            /\ \A y \in Threads : y # x => claim'[y] = claim[y]
        BY <1>0, <3>1, <3>4, ClaimMoves
      <3>6. AuthorityType' /\ Counted'
        BY <1>1, <2>2, <1>0, <3>1, <3>2, <3>4, <3>5, ChildrenMove, ChildrenFinite DEF AuthorityType, Counted, Children, Words
      <3>7. ClaimsTrue' /\ ReservedOnce'
        BY <1>1, <2>2, <3>1, <3>2, <3>4, <3>5 DEF Inv, ClaimsTrue, ReservedOnce
      <3>8. TookOnce' /\ WholeAlone'
        BY <1>1, <2>2, <1>0, <3>1, <3>2, <3>4, <3>5, ChildrenMove DEF Inv, ClaimsTrue, ReservedOnce, TookOnce, WholeAlone, AuthorityType, Counted, Children, Words
      <3>9. QED
        BY <3>6, <3>7, <3>8 DEF Inv
    <2>3. QED
      BY <2>1, <2>2
  <1>2. ASSUME NEW x \in Threads, ClaimChild(x) PROVE Inv'
    <2>1. CASE authority = claim[x].seen
      <3> DEFINE r == [claim[x] EXCEPT !.pc = "reserve"]
      <3>1. claim' = [claim EXCEPT ![x] = r] /\ claim[x].pc = "child"
        BY <1>2, <2>1 DEF ClaimChild, At
      <3>2. authority' = [authority EXCEPT !.child = authority.child + 1] /\ UNCHANGED <<reservation, took, whole>>
        BY <1>2, <2>1 DEF ClaimChild
      <3>3. claim[x] \in ClaimRecords
        BY <1>0, ClaimNumbers
      <3>4. r \in ClaimRecords /\ r.pc = "reserve" /\ r.reserved = claim[x].reserved /\ r.consumed = claim[x].consumed
        BY <1>2, <2>1, <1>0, ClaimNumbers, Moved DEF States
      <3> HIDE DEF r
      <3>5. /\ claim' \in [Threads -> ClaimRecords] /\ claim'[x] = r
            /\ \A y \in Threads : y # x => claim'[y] = claim[y]
        BY <1>0, <3>1, <3>4, ClaimMoves
      <3>6. AuthorityType' /\ Counted'
        BY <1>2, <2>1, <1>0, <3>1, <3>2, <3>4, <3>5, ChildrenMove, ChildrenFinite DEF AuthorityType, Counted, Children, Words
      <3>7. ClaimsTrue' /\ ReservedOnce'
        BY <1>2, <2>1, <3>1, <3>2, <3>4, <3>5 DEF Inv, ClaimsTrue, ReservedOnce
      <3>8. TookOnce' /\ WholeAlone'
        BY <1>2, <2>1, <1>0, <3>1, <3>2, <3>4, <3>5, ChildrenMove DEF Inv, ClaimsTrue, ReservedOnce, TookOnce, WholeAlone, AuthorityType, Counted, Children, Words
      <3>9. QED
        BY <3>6, <3>7, <3>8 DEF Inv
    <2>2. CASE authority # claim[x].seen
      <3> DEFINE r == [claim[x] EXCEPT !.pc = "again"]
      <3>1. claim' = [claim EXCEPT ![x] = r] /\ claim[x].pc = "child"
        BY <1>2, <2>2 DEF ClaimChild, At
      <3>2. UNCHANGED <<authority, reservation, took, whole>>
        BY <1>2, <2>2 DEF ClaimChild
      <3>3. claim[x] \in ClaimRecords
        BY <1>0, ClaimNumbers
      <3>4. r \in ClaimRecords /\ r.pc = "again" /\ r.reserved = claim[x].reserved /\ r.consumed = claim[x].consumed
        BY <1>2, <2>2, <1>0, ClaimNumbers, Moved DEF States
      <3> HIDE DEF r
      <3>5. /\ claim' \in [Threads -> ClaimRecords] /\ claim'[x] = r
            /\ \A y \in Threads : y # x => claim'[y] = claim[y]
        BY <1>0, <3>1, <3>4, ClaimMoves
      <3>6. AuthorityType' /\ Counted'
        BY <1>2, <2>2, <1>0, <3>1, <3>2, <3>4, <3>5, ChildrenMove, ChildrenFinite DEF AuthorityType, Counted, Children, Words
      <3>7. ClaimsTrue' /\ ReservedOnce'
        BY <1>2, <2>2, <3>1, <3>2, <3>4, <3>5 DEF Inv, ClaimsTrue, ReservedOnce
      <3>8. TookOnce' /\ WholeAlone'
        BY <1>2, <2>2, <1>0, <3>1, <3>2, <3>4, <3>5, ChildrenMove DEF Inv, ClaimsTrue, ReservedOnce, TookOnce, WholeAlone, AuthorityType, Counted, Children, Words
      <3>9. QED
        BY <3>6, <3>7, <3>8 DEF Inv
    <2>3. QED
      BY <2>1, <2>2
  <1>3. ASSUME NEW x \in Threads, Reserve(x) PROVE Inv'
    <2>1. CASE reservation = "available"
      <3> DEFINE r == [claim[x] EXCEPT !.pc = "register", !.i = 1, !.reserved = TRUE]
      <3>1. claim' = [claim EXCEPT ![x] = r] /\ claim[x].pc = "reserve"
        BY <1>3, <2>1 DEF Reserve, At
      <3>2. reservation' = "reserved" /\ UNCHANGED <<authority, took, whole>>
        BY <1>3, <2>1 DEF Reserve
      <3>3. claim[x] \in ClaimRecords
        BY <1>0, ClaimNumbers
      <3>4. r \in ClaimRecords /\ r.pc = "register" /\ r.reserved = TRUE /\ r.consumed = claim[x].consumed
        <4>1. claim[x] \in ClaimRecords /\ 1 \in Int /\ TRUE \in BOOLEAN
          BY <3>3
        <4>2. LET e == [claim[x] EXCEPT !.pc = "register", !.i = 1, !.reserved = TRUE] IN
                e \in ClaimRecords /\ e.pc = "register" /\ e.reserved = TRUE /\ e.consumed = claim[x].consumed
          BY <4>1, Registering
        <4>3. QED
          BY <4>2
      <3> HIDE DEF r
      <3>5. /\ claim' \in [Threads -> ClaimRecords] /\ claim'[x] = r
            /\ \A y \in Threads : y # x => claim'[y] = claim[y]
        BY <1>0, <3>1, <3>4, ClaimMoves
      <3>6. AuthorityType' /\ Counted'
        BY <1>3, <2>1, <1>0, <3>1, <3>2, <3>4, <3>5, ChildrenMove, ChildrenFinite DEF AuthorityType, Counted, Children, Words
      <3>7. ClaimsTrue' /\ ReservedOnce'
        BY <1>3, <2>1, <3>1, <3>2, <3>4, <3>5 DEF Inv, ClaimsTrue, ReservedOnce
      <3>8. TookOnce' /\ WholeAlone'
        BY <1>3, <2>1, <1>0, <3>1, <3>2, <3>4, <3>5, ChildrenMove DEF Inv, ClaimsTrue, ReservedOnce, TookOnce, WholeAlone, AuthorityType, Counted, Children, Words
      <3>9. QED
        BY <3>6, <3>7, <3>8 DEF Inv
    <2>2. CASE reservation # "available"
      <3> DEFINE r == [claim[x] EXCEPT !.pc = "return"]
      <3>1. claim' = [claim EXCEPT ![x] = r] /\ claim[x].pc = "reserve"
        BY <1>3, <2>2 DEF Reserve, At
      <3>2. UNCHANGED <<authority, reservation, took, whole>>
        BY <1>3, <2>2 DEF Reserve
      <3>3. claim[x] \in ClaimRecords
        BY <1>0, ClaimNumbers
      <3>4. r \in ClaimRecords /\ r.pc = "return" /\ r.reserved = claim[x].reserved /\ r.consumed = claim[x].consumed
        BY <1>3, <2>2, <1>0, ClaimNumbers, Moved DEF States
      <3> HIDE DEF r
      <3>5. /\ claim' \in [Threads -> ClaimRecords] /\ claim'[x] = r
            /\ \A y \in Threads : y # x => claim'[y] = claim[y]
        BY <1>0, <3>1, <3>4, ClaimMoves
      <3>6. AuthorityType' /\ Counted'
        BY <1>3, <2>2, <1>0, <3>1, <3>2, <3>4, <3>5, ChildrenMove, ChildrenFinite DEF AuthorityType, Counted, Children, Words
      <3>7. ClaimsTrue' /\ ReservedOnce'
        BY <1>3, <2>2, <3>1, <3>2, <3>4, <3>5 DEF Inv, ClaimsTrue, ReservedOnce
      <3>8. TookOnce' /\ WholeAlone'
        BY <1>3, <2>2, <1>0, <3>1, <3>2, <3>4, <3>5, ChildrenMove DEF Inv, ClaimsTrue, ReservedOnce, TookOnce, WholeAlone, AuthorityType, Counted, Children, Words
      <3>9. QED
        BY <3>6, <3>7, <3>8 DEF Inv
    <2>3. QED
      BY <2>1, <2>2
  <1>4. ASSUME NEW x \in Threads, Register(x) PROVE Inv'
    <2>1. CASE claim[x].i > Len(Chain[x])
      <3> DEFINE r == [claim[x] EXCEPT !.pc = "held", !.i = claim[x].i - 1]
      <3>1. claim' = [claim EXCEPT ![x] = r] /\ claim[x].pc = "register"
        <4>1. claim' = [claim EXCEPT ![x] = r]
          BY <1>4, <2>1, Zenon DEF Register
        <4>2. QED
          BY <1>4, <2>1, <4>1 DEF Register, At
      <3>2. UNCHANGED <<authority, reservation, took, whole>>
        BY <1>4, <2>1 DEF Register
      <3>3. claim[x] \in ClaimRecords
        BY <1>0, ClaimNumbers
      <3>4. r \in ClaimRecords /\ r.pc = "held" /\ r.reserved = claim[x].reserved /\ r.consumed = claim[x].consumed
        BY <1>4, <2>1, <1>0, ClaimNumbers, Walked
      <3> HIDE DEF r
      <3>5. /\ claim' \in [Threads -> ClaimRecords] /\ claim'[x] = r
            /\ \A y \in Threads : y # x => claim'[y] = claim[y]
        BY <1>0, <3>1, <3>4, ClaimMoves
      <3>6. AuthorityType' /\ Counted'
        BY <1>4, <2>1, <1>0, <3>1, <3>2, <3>4, <3>5, ChildrenMove, ChildrenFinite DEF AuthorityType, Counted, Children, Words
      <3>7. ClaimsTrue' /\ ReservedOnce'
        BY <1>4, <2>1, <3>1, <3>2, <3>4, <3>5 DEF Inv, ClaimsTrue, ReservedOnce
      <3>8. TookOnce' /\ WholeAlone'
        BY <1>4, <2>1, <1>0, <3>1, <3>2, <3>4, <3>5, ChildrenMove DEF Inv, ClaimsTrue, ReservedOnce, TookOnce, WholeAlone, AuthorityType, Counted, Children, Words
      <3>9. QED
        BY <3>6, <3>7, <3>8 DEF Inv
    <2>2. CASE ~(claim[x].i > Len(Chain[x])) /\ receipt[Chain[x][claim[x].i]].closed
      <3> DEFINE r == [claim[x] EXCEPT !.pc = "return"]
      <3>1. claim' = [claim EXCEPT ![x] = r] /\ claim[x].pc = "register"
        <4>1. claim' = [claim EXCEPT ![x] = r]
          BY <1>4, <2>2, Zenon DEF Register
        <4>2. QED
          BY <1>4, <2>2, <4>1 DEF Register, At
      <3>2. UNCHANGED <<authority, reservation, took, whole>>
        BY <1>4, <2>2 DEF Register
      <3>3. claim[x] \in ClaimRecords
        BY <1>0, ClaimNumbers
      <3>4. r \in ClaimRecords /\ r.pc = "return" /\ r.reserved = claim[x].reserved /\ r.consumed = claim[x].consumed
        BY <1>4, <2>2, <1>0, ClaimNumbers, Moved DEF States
      <3> HIDE DEF r
      <3>5. /\ claim' \in [Threads -> ClaimRecords] /\ claim'[x] = r
            /\ \A y \in Threads : y # x => claim'[y] = claim[y]
        BY <1>0, <3>1, <3>4, ClaimMoves
      <3>6. AuthorityType' /\ Counted'
        BY <1>4, <2>2, <1>0, <3>1, <3>2, <3>4, <3>5, ChildrenMove, ChildrenFinite DEF AuthorityType, Counted, Children, Words
      <3>7. ClaimsTrue' /\ ReservedOnce'
        BY <1>4, <2>2, <3>1, <3>2, <3>4, <3>5 DEF Inv, ClaimsTrue, ReservedOnce
      <3>8. TookOnce' /\ WholeAlone'
        BY <1>4, <2>2, <1>0, <3>1, <3>2, <3>4, <3>5, ChildrenMove DEF Inv, ClaimsTrue, ReservedOnce, TookOnce, WholeAlone, AuthorityType, Counted, Children, Words
      <3>9. QED
        BY <3>6, <3>7, <3>8 DEF Inv
    <2>3. CASE ~(claim[x].i > Len(Chain[x])) /\ ~receipt[Chain[x][claim[x].i]].closed
      <3> DEFINE r == [claim[x] EXCEPT !.i = claim[x].i + 1]
      <3>1. claim' = [claim EXCEPT ![x] = r] /\ claim[x].pc = "register"
        <4>1. claim' = [claim EXCEPT ![x] = r]
          <5> DEFINE shut == receipt[Chain[x][claim[x].i]].closed
        <5>1. claim' = [claim EXCEPT ![x] = IF shut THEN [claim[x] EXCEPT !.pc = "return"] ELSE r]
          BY <1>4, <2>3 DEF Register
        <5>2. ~shut
          BY <2>3
        <5> HIDE DEF shut, r
        <5>3. QED
          BY <5>1, <5>2
        <4>2. QED
          BY <1>4, <2>3, <4>1 DEF Register, At
      <3>2. UNCHANGED <<authority, reservation, took, whole>>
        BY <1>4, <2>3 DEF Register
      <3>3. claim[x] \in ClaimRecords
        BY <1>0, ClaimNumbers
      <3>4. r \in ClaimRecords /\ r.pc = claim[x].pc /\ r.reserved = claim[x].reserved /\ r.consumed = claim[x].consumed
        BY <1>4, <2>3, <1>0, ClaimNumbers, Walked
      <3> HIDE DEF r
      <3>5. /\ claim' \in [Threads -> ClaimRecords] /\ claim'[x] = r
            /\ \A y \in Threads : y # x => claim'[y] = claim[y]
        BY <1>0, <3>1, <3>4, ClaimMoves
      <3>6. AuthorityType' /\ Counted'
        BY <1>4, <2>3, <1>0, <3>1, <3>2, <3>4, <3>5, ChildrenMove, ChildrenFinite DEF AuthorityType, Counted, Children, Words
      <3>7. ClaimsTrue' /\ ReservedOnce'
        BY <1>4, <2>3, <3>1, <3>2, <3>4, <3>5 DEF Inv, ClaimsTrue, ReservedOnce
      <3>8. TookOnce' /\ WholeAlone'
        BY <1>4, <2>3, <1>0, <3>1, <3>2, <3>4, <3>5, ChildrenMove DEF Inv, ClaimsTrue, ReservedOnce, TookOnce, WholeAlone, AuthorityType, Counted, Children, Words
      <3>9. QED
        BY <3>6, <3>7, <3>8 DEF Inv
    <2>4. QED
      BY <2>1, <2>2, <2>3
  <1>5. ASSUME NEW x \in Threads, MarkPartial(x) PROVE Inv'
    <2> DEFINE r == [claim[x] EXCEPT !.pc = "return"]
    <2>1. claim' = [claim EXCEPT ![x] = r] /\ claim[x].pc = "partial"
      BY <1>5 DEF MarkPartial, At
    <2>2. authority' = [authority EXCEPT !.partial = TRUE] /\ UNCHANGED <<reservation, took, whole>>
      BY <1>5 DEF MarkPartial
    <2>3. claim[x] \in ClaimRecords
      BY <1>0, ClaimNumbers
    <2>4. r \in ClaimRecords /\ r.pc = "return" /\ r.reserved = claim[x].reserved /\ r.consumed = claim[x].consumed
      BY <1>5, <1>0, ClaimNumbers, Moved DEF States
    <2> HIDE DEF r
    <2>5. /\ claim' \in [Threads -> ClaimRecords] /\ claim'[x] = r
          /\ \A y \in Threads : y # x => claim'[y] = claim[y]
      BY <1>0, <2>1, <2>4, ClaimMoves
    <2>6. AuthorityType' /\ Counted'
      BY <1>5, <1>0, <2>1, <2>2, <2>4, <2>5, ChildrenMove, ChildrenFinite DEF AuthorityType, Counted, Children, Words
    <2>7. ClaimsTrue' /\ ReservedOnce'
      BY <1>5, <2>1, <2>2, <2>4, <2>5 DEF Inv, ClaimsTrue, ReservedOnce
    <2>8. TookOnce' /\ WholeAlone'
      BY <1>5, <1>0, <2>1, <2>2, <2>4, <2>5, ChildrenMove DEF Inv, ClaimsTrue, ReservedOnce, TookOnce, WholeAlone, AuthorityType, Counted, Children, Words
    <2>9. QED
      BY <2>6, <2>7, <2>8 DEF Inv
  <1>6. ASSUME NEW x \in Threads, ReturnChild(x) PROVE Inv'
    <2>1. CASE ~claim[x].reserved
      <3> DEFINE r == [NoClaim EXCEPT !.tries = claim[x].tries]
      <3>1. claim' = [claim EXCEPT ![x] = r] /\ claim[x].pc = "return"
        BY <1>6, <2>1 DEF ReturnChild, At
      <3>2. authority' = [authority EXCEPT !.child = authority.child - 1] /\ UNCHANGED <<reservation, took, whole>>
        BY <1>6, <2>1 DEF ReturnChild
      <3>3. claim[x] \in ClaimRecords
        BY <1>0, ClaimNumbers
      <3>4. r \in ClaimRecords /\ r.pc = "idle" /\ r.reserved = FALSE /\ r.consumed = FALSE
        BY <1>6, <2>1, <1>0, ClaimNumbers, AuthoritySetting, Restarted
      <3> HIDE DEF r
      <3>5. /\ claim' \in [Threads -> ClaimRecords] /\ claim'[x] = r
            /\ \A y \in Threads : y # x => claim'[y] = claim[y]
        BY <1>0, <3>1, <3>4, ClaimMoves
      <3>6. AuthorityType' /\ Counted'
        BY <1>6, <2>1, <1>0, <3>1, <3>2, <3>4, <3>5, ChildrenMove, ChildrenFinite DEF AuthorityType, Counted, Children, Words
      <3>7. ClaimsTrue' /\ ReservedOnce'
        BY <1>6, <2>1, <3>1, <3>2, <3>4, <3>5 DEF Inv, ClaimsTrue, ReservedOnce
      <3>8. TookOnce' /\ WholeAlone'
        BY <1>6, <2>1, <1>0, <3>1, <3>2, <3>4, <3>5, ChildrenMove DEF Inv, ClaimsTrue, ReservedOnce, TookOnce, WholeAlone, AuthorityType, Counted, Children, Words
      <3>9. QED
        BY <3>6, <3>7, <3>8 DEF Inv
    <2>2. CASE claim[x].reserved /\ claim[x].consumed
      <3> DEFINE r == [claim[x] EXCEPT !.pc = "flag"]
      <3>1. claim' = [claim EXCEPT ![x] = r] /\ claim[x].pc = "return"
        BY <1>6, <2>2 DEF ReturnChild, At
      <3>2. authority' = [authority EXCEPT !.child = authority.child - 1] /\ UNCHANGED <<reservation, took, whole>>
        BY <1>6, <2>2 DEF ReturnChild
      <3>3. claim[x] \in ClaimRecords
        BY <1>0, ClaimNumbers
      <3>4. r \in ClaimRecords /\ r.pc = "flag" /\ r.reserved = claim[x].reserved /\ r.consumed = claim[x].consumed
        BY <1>6, <2>2, <1>0, ClaimNumbers, Moved DEF States
      <3> HIDE DEF r
      <3>5. /\ claim' \in [Threads -> ClaimRecords] /\ claim'[x] = r
            /\ \A y \in Threads : y # x => claim'[y] = claim[y]
        BY <1>0, <3>1, <3>4, ClaimMoves
      <3>6. AuthorityType' /\ Counted'
        <4>1. x \in Children /\ x \notin Children'
            BY <3>1, <3>4, <3>5 DEF Children
        <4>2. Cardinality(Children') = authority.child - 1 /\ authority.child - 1 \in Nat
          BY <1>0, <3>5, <4>1, ChildrenMove, ChildrenFinite DEF Counted
        <4>3. QED
          BY <1>0, <3>2, <3>4, <3>5, <4>2, ClaimNumbers, WordMoves DEF AuthorityType, Counted
      <3>7. ClaimsTrue' /\ ReservedOnce'
        BY <1>6, <2>2, <3>1, <3>2, <3>4, <3>5 DEF Inv, ClaimsTrue, ReservedOnce
      <3>8. TookOnce' /\ WholeAlone'
        BY <1>6, <2>2, <1>0, <3>1, <3>2, <3>4, <3>5, ChildrenMove DEF Inv, ClaimsTrue, ReservedOnce, TookOnce, WholeAlone, AuthorityType, Counted, Children, Words
      <3>9. QED
        BY <3>6, <3>7, <3>8 DEF Inv
    <2>3. CASE claim[x].reserved /\ ~claim[x].consumed
      <3> DEFINE r == [claim[x] EXCEPT !.pc = "leave"]
      <3>1. claim' = [claim EXCEPT ![x] = r] /\ claim[x].pc = "return"
        BY <1>6, <2>3 DEF ReturnChild, At
      <3>2. authority' = [authority EXCEPT !.child = authority.child - 1] /\ UNCHANGED <<reservation, took, whole>>
        BY <1>6, <2>3 DEF ReturnChild
      <3>3. claim[x] \in ClaimRecords
        BY <1>0, ClaimNumbers
      <3>4. r \in ClaimRecords /\ r.pc = "leave" /\ r.reserved = claim[x].reserved /\ r.consumed = claim[x].consumed
        BY <1>6, <2>3, <1>0, ClaimNumbers, Moved DEF States
      <3> HIDE DEF r
      <3>5. /\ claim' \in [Threads -> ClaimRecords] /\ claim'[x] = r
            /\ \A y \in Threads : y # x => claim'[y] = claim[y]
        BY <1>0, <3>1, <3>4, ClaimMoves
      <3>6. AuthorityType' /\ Counted'
        <4>1. x \in Children /\ x \notin Children'
            BY <3>1, <3>4, <3>5 DEF Children
        <4>2. Cardinality(Children') = authority.child - 1 /\ authority.child - 1 \in Nat
          BY <1>0, <3>5, <4>1, ChildrenMove, ChildrenFinite DEF Counted
        <4>3. QED
          BY <1>0, <3>2, <3>4, <3>5, <4>2, ClaimNumbers, WordMoves DEF AuthorityType, Counted
      <3>7. ClaimsTrue' /\ ReservedOnce'
        BY <1>6, <2>3, <3>1, <3>2, <3>4, <3>5 DEF Inv, ClaimsTrue, ReservedOnce
      <3>8. TookOnce' /\ WholeAlone'
        BY <1>6, <2>3, <1>0, <3>1, <3>2, <3>4, <3>5, ChildrenMove DEF Inv, ClaimsTrue, ReservedOnce, TookOnce, WholeAlone, AuthorityType, Counted, Children, Words
      <3>9. QED
        BY <3>6, <3>7, <3>8 DEF Inv
    <2>4. QED
      BY <2>1, <2>2, <2>3
  <1>7. ASSUME NEW x \in Threads, Leave(x) PROVE Inv'
    <2>1. CASE claim[x].left < claim[x].i
      <3> DEFINE r == [claim[x] EXCEPT !.left = claim[x].left + 1]
      <3>1. claim' = [claim EXCEPT ![x] = r] /\ claim[x].pc = "leave"
        BY <1>7, <2>1 DEF Leave, At
      <3>2. UNCHANGED <<authority, reservation, took, whole>>
        BY <1>7, <2>1 DEF Leave
      <3>3. claim[x] \in ClaimRecords
        BY <1>0, ClaimNumbers
      <3>4. r \in ClaimRecords /\ r.pc = claim[x].pc /\ r.reserved = claim[x].reserved /\ r.consumed = claim[x].consumed
        BY <1>7, <2>1, <1>0, ClaimNumbers, Walked
      <3> HIDE DEF r
      <3>5. /\ claim' \in [Threads -> ClaimRecords] /\ claim'[x] = r
            /\ \A y \in Threads : y # x => claim'[y] = claim[y]
        BY <1>0, <3>1, <3>4, ClaimMoves
      <3>6. AuthorityType' /\ Counted'
        BY <1>7, <2>1, <1>0, <3>1, <3>2, <3>4, <3>5, ChildrenMove, ChildrenFinite DEF AuthorityType, Counted, Children, Words
      <3>7. ClaimsTrue' /\ ReservedOnce'
        BY <1>7, <2>1, <3>1, <3>2, <3>4, <3>5 DEF Inv, ClaimsTrue, ReservedOnce
      <3>8. TookOnce' /\ WholeAlone'
        BY <1>7, <2>1, <1>0, <3>1, <3>2, <3>4, <3>5, ChildrenMove DEF Inv, ClaimsTrue, ReservedOnce, TookOnce, WholeAlone, AuthorityType, Counted, Children, Words
      <3>9. QED
        BY <3>6, <3>7, <3>8 DEF Inv
    <2>2. CASE ~(claim[x].left < claim[x].i)
      <3> DEFINE r == [NoClaim EXCEPT !.tries = claim[x].tries]
      <3>1. claim' = [claim EXCEPT ![x] = r] /\ claim[x].pc = "leave"
        BY <1>7, <2>2 DEF Leave, At
      <3>2. reservation' = (IF claim[x].consumed THEN "consumed" ELSE IF reservation = "reserved" THEN "available" ELSE reservation) /\ UNCHANGED <<authority, took, whole>>
        BY <1>7, <2>2 DEF Leave
      <3>3. claim[x] \in ClaimRecords
        BY <1>0, ClaimNumbers
      <3>4. r \in ClaimRecords /\ r.pc = "idle" /\ r.reserved = FALSE /\ r.consumed = FALSE
        BY <1>7, <2>2, <1>0, ClaimNumbers, AuthoritySetting, Restarted
      <3> HIDE DEF r
      <3>5. /\ claim' \in [Threads -> ClaimRecords] /\ claim'[x] = r
            /\ \A y \in Threads : y # x => claim'[y] = claim[y]
        BY <1>0, <3>1, <3>4, ClaimMoves
      <3>6. AuthorityType' /\ Counted'
        BY <1>7, <2>2, <1>0, <3>1, <3>2, <3>4, <3>5, ChildrenMove, ChildrenFinite DEF AuthorityType, Counted, Children, Words
      <3>7. ClaimsTrue' /\ ReservedOnce'
        BY <1>7, <2>2, <3>1, <3>2, <3>4, <3>5 DEF Inv, ClaimsTrue, ReservedOnce
      <3>8. TookOnce' /\ WholeAlone'
        BY <1>7, <2>2, <1>0, <3>1, <3>2, <3>4, <3>5, ChildrenMove DEF Inv, ClaimsTrue, ReservedOnce, TookOnce, WholeAlone, AuthorityType, Counted, Children, Words
      <3>9. QED
        BY <3>6, <3>7, <3>8 DEF Inv
    <2>3. QED
      BY <2>1, <2>2
  <1>8. ASSUME NEW x \in Threads, Decide(x) PROVE Inv'
    <2>0. PICK b \in BOOLEAN :
            /\ claim' = [claim EXCEPT ![x].pc = IF b THEN "partial" ELSE "return", ![x].consumed = b]
            /\ took' = IF b THEN took \cup {x} ELSE took
      BY <1>8 DEF Decide
    <2> DEFINE r == [claim[x] EXCEPT !.pc = IF b THEN "partial" ELSE "return", !.consumed = b]
    <2>1. claim' = [claim EXCEPT ![x] = r] /\ claim[x].pc = "held" /\ UNCHANGED <<authority, reservation, whole>>
      BY <1>8, <2>0 DEF Decide, At
    <2>2. claim[x] \in ClaimRecords
      BY <1>0 DEF AuthorityType
    <2>3. r \in ClaimRecords /\ r.pc = (IF b THEN "partial" ELSE "return") /\ r.reserved = claim[x].reserved /\ r.consumed = b
      BY <2>2 DEF ClaimRecords, States
    <2> HIDE DEF r
    <2>4. /\ claim' \in [Threads -> ClaimRecords] /\ claim'[x] = r
          /\ \A y \in Threads : y # x => claim'[y] = claim[y]
      BY <1>0, <2>1, <2>3, ClaimMoves
    <2>5. claim[x].reserved /\ ~claim[x].consumed /\ reservation = "reserved" /\ ~authority.whole /\ took = {}
      <3>1. claim[x].reserved /\ ~claim[x].consumed /\ reservation = "reserved"
        BY <2>1 DEF Inv, ClaimsTrue, ReservedOnce
      <3>2. authority.child # 0
        BY <1>0, <2>1, ChildrenFinite, FS_EmptySet DEF Counted, Children
      <3>3. \A y \in took : y \in Threads
        BY <1>0 DEF AuthorityType
      <3>4. QED
        BY <3>1, <3>2, <3>3 DEF Inv, ReservedOnce, TookOnce, WholeAlone
    <2>6. AuthorityType' /\ Counted'
      BY <1>0, <2>0, <2>1, <2>3, <2>4, ChildrenMove DEF AuthorityType, Counted, Children
    <2>7. ClaimsTrue' /\ ReservedOnce'
      BY <2>1, <2>3, <2>4, <2>5 DEF Inv, ClaimsTrue, ReservedOnce
    <2>8. TookOnce' /\ WholeAlone'
      BY <2>0, <2>1, <2>3, <2>4, <2>5 DEF Inv, TookOnce, WholeAlone
    <2>9. QED
      BY <2>6, <2>7, <2>8 DEF Inv
  <1>9. ASSUME NEW x \in Threads, Flag(x) PROVE Inv'
    <2>1. CASE UNCHANGED claim
      <3>1. UNCHANGED <<authority, reservation, claim, took, whole>> /\ Children' = Children
        BY <1>9, <2>1 DEF Flag, Children
      <3>2. QED
        BY <3>1 DEF Inv, AuthorityType, Counted, ClaimsTrue, ReservedOnce, TookOnce, WholeAlone
    <2>2. CASE claim' # claim
      <3> DEFINE r == [claim[x] EXCEPT !.pc = "leave"]
      <3>1. claim' = [claim EXCEPT ![x] = r] /\ claim[x].pc = "flag"
        BY <1>9, <2>2 DEF Flag, At
      <3>2. UNCHANGED <<authority, reservation, took, whole>>
        BY <1>9, <2>2 DEF Flag
      <3>3. claim[x] \in ClaimRecords
        BY <1>0, ClaimNumbers
      <3>4. r \in ClaimRecords /\ r.pc = "leave" /\ r.reserved = claim[x].reserved /\ r.consumed = claim[x].consumed
        BY <1>9, <2>2, <1>0, ClaimNumbers, Moved DEF States
      <3> HIDE DEF r
      <3>5. /\ claim' \in [Threads -> ClaimRecords] /\ claim'[x] = r
            /\ \A y \in Threads : y # x => claim'[y] = claim[y]
        BY <1>0, <3>1, <3>4, ClaimMoves
      <3>6. AuthorityType' /\ Counted'
        BY <1>9, <2>2, <1>0, <3>1, <3>2, <3>4, <3>5, ChildrenMove, ChildrenFinite DEF AuthorityType, Counted, Children, Words
      <3>7. ClaimsTrue' /\ ReservedOnce'
        BY <1>9, <2>2, <3>1, <3>2, <3>4, <3>5 DEF Inv, ClaimsTrue, ReservedOnce
      <3>8. TookOnce' /\ WholeAlone'
        BY <1>9, <2>2, <1>0, <3>1, <3>2, <3>4, <3>5, ChildrenMove DEF Inv, ClaimsTrue, ReservedOnce, TookOnce, WholeAlone, AuthorityType, Counted, Children, Words
      <3>9. QED
        BY <3>6, <3>7, <3>8 DEF Inv
    <2>3. QED
      BY <2>1, <2>2
  <1>10. ASSUME CommitWhole PROVE Inv'
    <2>1. /\ whole = "none" /\ authority = Zero /\ authority' = [Zero EXCEPT !.whole = TRUE] /\ whole' = "applying"
          /\ UNCHANGED <<reservation, claim, took>>
      BY <1>10 DEF CommitWhole
    <2>2. authority' \in Words /\ authority'.whole /\ authority'.child = 0 /\ authority.child = 0 /\ ~authority.partial
      BY <2>1 DEF Zero, Words
    <2>3. Children' = Children
      BY <2>1 DEF Children
    <2>4. \A x \in Threads : x \notin Children
      BY <1>0, <2>2, ChildrenFinite, FS_EmptySet DEF Counted
    <2>5. took = {}
      BY <1>0, <2>2, <2>4 DEF Inv, TookOnce, Children, AuthorityType
    <2>6. QED
      BY <1>0, <2>1, <2>2, <2>3, <2>5 DEF Inv, AuthorityType, Counted, ClaimsTrue, ReservedOnce, TookOnce, WholeAlone
  <1>11. ASSUME WholeSettled PROVE Inv'
    <2>1. /\ whole = "applying" /\ UNCHANGED <<reservation, claim, took>>
          /\ (whole' = "applied" /\ UNCHANGED authority) \/ (whole' = "none" /\ authority' = Zero)
      BY <1>11 DEF WholeSettled
    <2>2. Zero \in Words /\ ~Zero.whole /\ Zero.child = 0
      BY DEF Zero, Words
    <2>3. Children' = Children /\ authority.child = 0 /\ took = {}
      BY <2>1 DEF Children, Inv, WholeAlone
    <2>4. QED
      BY <1>0, <2>1, <2>2, <2>3 DEF Inv, AuthorityType, Counted, ClaimsTrue, ReservedOnce, TookOnce, WholeAlone
  <1>12. ASSUME NEW b \in Borrowers, Lend(b) \/ CloseLoan(b) PROVE Inv'
    <2>1. UNCHANGED <<authority, reservation, claim, took, whole>> /\ Children' = Children
      BY <1>12 DEF Lend, CloseLoan, Children
    <2>2. QED
      BY <2>1 DEF Inv, AuthorityType, Counted, ClaimsTrue, ReservedOnce, TookOnce, WholeAlone
  <1>13. CASE UNCHANGED authorityVars
    <2>1. UNCHANGED <<authority, reservation, claim, took, whole>> /\ Children' = Children
      BY <1>13 DEF authorityVars, Children
    <2>2. QED
      BY <2>1 DEF Inv, AuthorityType, Counted, ClaimsTrue, ReservedOnce, TookOnce, WholeAlone
  <1>14. QED
    BY <1>1, <1>2, <1>3, <1>4, <1>5, <1>6, <1>7, <1>8, <1>9, <1>10, <1>11, <1>12, <1>13 DEF AuthorityNext

\* The children in the branch's word are the claims under way, one of which has the
\* reservation; a word claimed whole has neither child nor part (ProcessHandoffOwnership and the
\* claim of process-handoff.ts).
THEOREM AuthorityInvariance == AuthoritySpec => []Inv
  BY AuthorityStart, AuthorityStep, PTL DEF AuthoritySpec

\* A one-shot result is held by one thread at a time and consumed once, and never both consumed
\* by itself and applied with the whole branch around it (claim and settle of process-handoff.ts).
THEOREM ResultAdoptedOnce == AuthoritySpec => []AdoptedOnce
  <1>1. ASSUME Inv PROVE Cardinality({x \in Threads : At(x, "held")}) <= 1
    <2> DEFINE H == {x \in Threads : At(x, "held")}
    <2>1. \A x, y \in H : x = y
      BY <1>1 DEF Inv, ClaimsTrue, ReservedOnce, At
    <2>2. H = {} \/ \E x : H = {x}
      BY <2>1
    <2> HIDE DEF H
    <2>3. Cardinality(H) <= 1
      <3>1. CASE H = {}
        BY <3>1, FS_EmptySet
      <3>2. ASSUME NEW x, H = {x} PROVE Cardinality(H) <= 1
        <4>1. Cardinality({x}) = 1
          BY FS_Singleton
        <4>2. QED
          BY <3>2, <4>1, SMT
      <3>3. QED
        BY <2>2, <3>1, <3>2
    <2>4. QED
      BY <2>3 DEF H
  <1>2. ASSUME Inv PROVE Cardinality(took) <= 1
    <2>1. took = {} \/ \E x : took = {x}
      BY <1>2 DEF Inv, TookOnce
    <2>2. QED
      <3>1. CASE took = {}
        BY <3>1, FS_EmptySet
      <3>2. ASSUME NEW x, took = {x} PROVE Cardinality(took) <= 1
        <4>1. Cardinality({x}) = 1
          BY FS_Singleton
        <4>2. QED
          BY <3>2, <4>1, SMT
      <3>3. QED
        BY <2>1, <3>1, <3>2
  <1>3. ASSUME Inv PROVE whole # "none" => took = {}
    BY <1>3 DEF Inv, WholeAlone
  <1>4. Inv => AdoptedOnce
    BY <1>1, <1>2, <1>3 DEF AdoptedOnce
  <1>5. QED
    BY <1>4, AuthorityInvariance, PTL
-----------------------------------------------------------------------------
Statuses == {"unused", "running", "completed", "reserved", "retained", "gone"}
Record ==
  [status : Statuses, owner : Owners \cup {"none"}, oneShot : BOOLEAN, result : Nat, binding : BOOLEAN,
   borrowers : Int, advance : BOOLEAN]
\* A record of the id r: what its status says of its result, and of the branch around it.
RecordTrue(r, e) ==
  /\ e.status \in {"unused", "gone"} => e.result = 0 /\ ~e.binding
  /\ e.status \in {"running", "retained"} => e.result = 0
  /\ e.status \in {"running", "completed", "reserved"} => e.owner \in Owners
  /\ e.status = "reserved" => e.oneShot
Registry == {g \in [rec : [Ids -> Record], count : Int, bytes : Int, woken : BOOLEAN] : \A r \in Ids : RecordTrue(r, g.rec[r])}

Results(g) == {r \in Live(g) : g.rec[r].result # 0}
Bindings(g) == {r \in Live(g) : g.rec[r].binding}
Sums(g) == g.count = Cardinality(Finished(g)) /\ g.bytes = Cardinality(Results(g)) + Cardinality(Bindings(g))

\* What a record counts for.
One(b) == IF b THEN 1 ELSE 0
Stands(e) == e.status \notin {"unused", "gone"}
Counts(e) == One(Stands(e) /\ e.status # "running")
Weighs(e) == One(Stands(e) /\ e.result # 0) + One(Stands(e) /\ e.binding)

LEMMA Replaced ==
  ASSUME NEW f, NEW S, f \in [Ids -> S], NEW r \in Ids, NEW e \in S
  PROVE  /\ [f EXCEPT ![r] = e] \in [Ids -> S]
         /\ [f EXCEPT ![r] = e][r] = e
         /\ \A q \in Ids : q # r => [f EXCEPT ![r] = e][q] = f[q]
  OBVIOUS

LEMMA IdsFinite == IsFiniteSet(Ids)
  BY RegistrySetting, FS_Interval DEF Ids

\* One member more, one less, or neither.
LEMMA MemberMoves ==
  ASSUME NEW A, IsFiniteSet(A), NEW B, NEW r, \A q : q # r => (q \in A <=> q \in B)
  PROVE  /\ IsFiniteSet(B) /\ Cardinality(A) \in Nat /\ Cardinality(B) \in Nat
         /\ Cardinality(B) = Cardinality(A) + One(r \in B) - One(r \in A)
  <1>1. CASE r \in A /\ r \in B
    <2>1. A = B
      BY <1>1
    <2>2. QED
      BY <1>1, <2>1, FS_CardinalityType DEF One
  <1>2. CASE r \notin A /\ r \notin B
    <2>1. A = B
      BY <1>2
    <2>2. QED
      BY <1>2, <2>1, FS_CardinalityType DEF One
  <1>3. CASE r \in A /\ r \notin B
    <2>1. B = A \ {r}
      BY <1>3
    <2>2. IsFiniteSet(B) /\ Cardinality(B) = Cardinality(A) - 1
      BY <1>3, <2>1, FS_RemoveElement
    <2>3. QED
      BY <1>3, <2>2, FS_CardinalityType DEF One
  <1>4. CASE r \notin A /\ r \in B
    <2>1. B = A \cup {r}
      BY <1>4
    <2>2. QED
      BY <1>4, <2>1, FS_CardinalityType, FS_AddElement DEF One
  <1>5. QED
    BY <1>1, <1>2, <1>3, <1>4

\* A registry of which one record moved adds up if count and bytes moved with it.
LEMMA SumsMove ==
  ASSUME NEW g \in Registry, NEW h \in Registry, NEW r \in Ids,
         \A q \in Ids : q # r => h.rec[q] = g.rec[q],
         h.count = g.count + Counts(h.rec[r]) - Counts(g.rec[r]),
         h.bytes = g.bytes + Weighs(h.rec[r]) - Weighs(g.rec[r]),
         Sums(g)
  PROVE  Sums(h)
  <1>1. Finished(g) \subseteq Ids /\ Results(g) \subseteq Ids /\ Bindings(g) \subseteq Ids
    BY DEF Finished, Results, Bindings, Live
  <1>2. IsFiniteSet(Finished(g)) /\ IsFiniteSet(Results(g)) /\ IsFiniteSet(Bindings(g))
    BY <1>1, IdsFinite, FS_Subset
  <1>3. /\ \A q : q # r => (q \in Finished(g) <=> q \in Finished(h))
        /\ \A q : q # r => (q \in Results(g) <=> q \in Results(h))
        /\ \A q : q # r => (q \in Bindings(g) <=> q \in Bindings(h))
    BY DEF Finished, Results, Bindings, Live
  <1>4. /\ Cardinality(Finished(h)) = Cardinality(Finished(g)) + One(r \in Finished(h)) - One(r \in Finished(g))
        /\ Cardinality(Finished(g)) \in Nat
    BY <1>2, <1>3, MemberMoves
  <1>5. /\ Cardinality(Results(h)) = Cardinality(Results(g)) + One(r \in Results(h)) - One(r \in Results(g))
        /\ Cardinality(Results(g)) \in Nat
    BY <1>2, <1>3, MemberMoves
  <1>6. /\ Cardinality(Bindings(h)) = Cardinality(Bindings(g)) + One(r \in Bindings(h)) - One(r \in Bindings(g))
        /\ Cardinality(Bindings(g)) \in Nat
    BY <1>2, <1>3, MemberMoves
  <1>7. /\ One(r \in Finished(g)) = Counts(g.rec[r]) /\ One(r \in Finished(h)) = Counts(h.rec[r])
        /\ One(r \in Results(g)) + One(r \in Bindings(g)) = Weighs(g.rec[r])
        /\ One(r \in Results(h)) + One(r \in Bindings(h)) = Weighs(h.rec[r])
    BY DEF Finished, Results, Bindings, Live, Counts, Weighs, Stands, One
  <1>8. /\ One(r \in Finished(g)) \in Nat /\ One(r \in Finished(h)) \in Nat
        /\ One(r \in Results(g)) \in Nat /\ One(r \in Results(h)) \in Nat
        /\ One(r \in Bindings(g)) \in Nat /\ One(r \in Bindings(h)) \in Nat
    BY DEF One
  <1>9. g.count \in Int /\ g.bytes \in Int
    BY DEF Registry
  <1>10. QED
    BY <1>4, <1>5, <1>6, <1>7, <1>8, <1>9 DEF Sums

LEMMA GoneTrue ==
  /\ Gone \in Record /\ Gone.status = "gone" /\ \A r \in Ids : RecordTrue(r, Gone)
  /\ Unused \in Record /\ Unused.status = "unused" /\ \A r \in Ids : RecordTrue(r, Unused)
  <1>1. Unused \in Record
    BY DEF Unused, Record, Statuses
  <1>2. /\ Unused.status = "unused" /\ Unused.result = 0 /\ Unused.binding = FALSE
    BY DEF Unused
  <1>3. /\ Gone \in Record
        /\ Gone.status = "gone" /\ Gone.result = 0 /\ Gone.binding = FALSE
    BY <1>1, <1>2 DEF Gone, Record, Statuses
  <1>4. QED
    BY <1>1, <1>2, <1>3 DEF RecordTrue

\* A registry rebuilt with another record.
Rebuild(g, r, e, n, b, w) == [g EXCEPT !.rec = [g.rec EXCEPT ![r] = e], !.count = n, !.bytes = b, !.woken = w]
LEMMA Rebuilt ==
  ASSUME NEW g \in Registry, NEW r \in Ids, NEW e \in Record, RecordTrue(r, e), NEW n \in Int, NEW b \in Int, NEW w \in BOOLEAN
  PROVE  LET h == Rebuild(g, r, e, n, b, w) IN
         /\ h \in Registry
         /\ h.rec[r] = e /\ \A q \in Ids : q # r => h.rec[q] = g.rec[q]
         /\ h.count = n /\ h.bytes = b /\ h.woken = w
  <1> DEFINE f == [g.rec EXCEPT ![r] = e]
             h == [g EXCEPT !.rec = f, !.count = n, !.bytes = b, !.woken = w]
  <1>0. h = Rebuild(g, r, e, n, b, w)
    BY DEF Rebuild
  <1>1. g \in [rec : [Ids -> Record], count : Int, bytes : Int, woken : BOOLEAN] /\ \A q \in Ids : RecordTrue(q, g.rec[q])
    BY DEF Registry
  <1>2. f \in [Ids -> Record] /\ f[r] = e /\ \A q \in Ids : q # r => f[q] = g.rec[q]
    BY <1>1, Replaced
  <1> HIDE DEF f
  <1>3. /\ h \in [rec : [Ids -> Record], count : Int, bytes : Int, woken : BOOLEAN]
        /\ h.rec = f /\ h.count = n /\ h.bytes = b /\ h.woken = w
    BY <1>1, <1>2
  <1> HIDE DEF h
  <1>4. \A q \in Ids : RecordTrue(q, h.rec[q])
    BY <1>1, <1>2, <1>3
  <1>5. h \in Registry
    BY <1>3, <1>4 DEF Registry
  <1>6. QED
    BY <1>0, <1>2, <1>3, <1>5

\* What is known of a registry and of one of its records.
LEMMA RegistryHas ==
  ASSUME NEW g \in Registry, NEW r \in Ids
  PROVE  /\ g.rec \in [Ids -> Record] /\ g.count \in Int /\ g.bytes \in Int /\ g.woken \in BOOLEAN
         /\ g.rec[r] \in Record /\ RecordTrue(r, g.rec[r])
         /\ g.rec[r].binding \in BOOLEAN /\ g.rec[r].result \in Nat /\ g.rec[r].status \in Statuses
         /\ g.rec[r].owner \in Owners \cup {"none"} /\ g.rec[r].borrowers \in Int
         /\ g.rec[r].oneShot \in BOOLEAN
         /\ g \in [rec : [Ids -> Record], count : Int, bytes : Int, woken : BOOLEAN]
  <1>1. g.rec \in [Ids -> Record]
    BY DEF Registry
  <1>2. g.rec[r] \in Record
    BY <1>1
  <1>3. QED
    BY <1>1, <1>2 DEF Registry, Record

LEMMA Weights == \A b \in BOOLEAN : Weight(b) = One(b) /\ One(b) \in Int
  BY DEF Weight, One

\* releaseResult, of a record that stands and does not run.
LEMMA ResultReleased ==
  ASSUME NEW g \in Registry, NEW r \in Live(g), g.rec[r].status # "running"
  PROVE  LET h == ReleaseResult(g, r) IN
         /\ h \in Registry /\ h.woken = g.woken
         /\ h.rec[r] = [g.rec[r] EXCEPT !.status = "retained", !.result = 0]
         /\ \A q \in Ids : q # r => h.rec[q] = g.rec[q]
         /\ Sums(g) => Sums(h)
  <1> DEFINE e == [g.rec[r] EXCEPT !.status = "retained", !.result = 0]
             h == ReleaseResult(g, r)
             b == g.bytes - Weight(g.rec[r].result # 0)
             n == g.count
             w == g.woken
             k == Rebuild(g, r, e, n, b, w)
  <1>0. r \in Ids /\ g.rec[r].status \notin {"unused", "gone"}
    BY DEF Live
  <1>1. e \in Record /\ e.status = "retained" /\ e.result = 0 /\ e.binding = g.rec[r].binding
    <2>1. g.rec[r] \in Record
      BY <1>0, RegistryHas
    <2>2. QED
      BY <2>1 DEF Record, Statuses
  <1>2. RecordTrue(r, e)
    BY <1>1 DEF RecordTrue
  <1>3. b \in Int
    BY <1>0, RegistryHas DEF Weight
  <1>4. h = k
    BY <1>0, RegistryHas, ZenonT(30) DEF ReleaseResult, Rebuild
  <1>5. n \in Int /\ w \in BOOLEAN
    BY <1>0, RegistryHas
  <1> HIDE DEF e, b, n, w
  <1>10. /\ k \in Registry
         /\ k.rec[r] = e /\ \A q \in Ids : q # r => k.rec[q] = g.rec[q]
         /\ k.count = n /\ k.bytes = b /\ k.woken = w
    <2>1. r \in Ids /\ e \in Record
      BY <1>0, <1>1
    <2>2. QED
      BY <2>1, <1>2, <1>3, <1>5, Rebuilt
  <1> HIDE DEF h, k
  <1>6. Counts(e) = Counts(g.rec[r]) /\ Counts(e) \in Int
    BY <1>0, <1>1 DEF Counts, Stands, One
  <1>7. Weighs(e) - Weighs(g.rec[r]) = 0 - Weight(g.rec[r].result # 0) /\ Weighs(e) \in Int /\ Weighs(g.rec[r]) \in Int
    BY <1>0, <1>1 DEF Weighs, Stands, One, Weight
  <1>8. Sums(g) => Sums(k)
    <2>1. k.count = g.count + Counts(k.rec[r]) - Counts(g.rec[r])
      BY <1>10, <1>6, <1>0, RegistryHas DEF n
    <2>2. k.bytes = g.bytes + Weighs(k.rec[r]) - Weighs(g.rec[r])
      BY <1>10, <1>7, <1>0, RegistryHas DEF b, Weight
    <2>3. QED
      BY <2>1, <2>2, <1>10, <1>0, SumsMove
  <1>9. QED
    BY <1>4, <1>10, <1>8 DEF h, e, w

\* Evict, of a record that stands.
LEMMA Evicted ==
  ASSUME NEW g \in Registry, NEW r \in Live(g)
  PROVE  LET h == Evict(g, r) IN
         /\ h \in Registry /\ h.woken = TRUE
         /\ h.rec[r] = Gone /\ \A q \in Ids : q # r => h.rec[q] = g.rec[q]
         /\ Sums(g) => Sums(h)
  <1> DEFINE running == g.rec[r].status = "running"
             d == IF running THEN g ELSE ReleaseResult(g, r)
             n == IF running THEN d.count ELSE d.count - 1
             b == d.bytes - Weight(d.rec[r].binding)
             h == Evict(g, r)
             k == Rebuild(d, r, Gone, n, b, TRUE)
  <1>0. r \in Ids /\ g.rec[r].status \notin {"unused", "gone"}
    BY DEF Live
  <1>1. /\ d \in Registry /\ d.rec[r].binding = g.rec[r].binding
        /\ \A q \in Ids : q # r => d.rec[q] = g.rec[q]
        /\ Sums(g) => Sums(d)
        /\ d.rec[r].status \notin {"unused", "gone"} /\ d.rec[r].result = 0
        /\ running <=> d.rec[r].status = "running"
    <2>1. CASE running
      BY <2>1, <1>0, RegistryHas DEF RecordTrue
    <2>2. CASE ~running
      <3>1. g.rec[r] \in Record
        BY <1>0, RegistryHas
      <3>2. LET e == [g.rec[r] EXCEPT !.status = "retained", !.result = 0] IN
            e.status = "retained" /\ e.result = 0 /\ e.binding = g.rec[r].binding
        BY <3>1 DEF Record
      <3>3. QED
        BY <2>2, <3>2, ResultReleased
    <2>3. QED
      BY <2>1, <2>2
  <1>2. h = k
    <2>1. CASE running
      BY <2>1, <1>0, RegistryHas DEF Evict, Wake, Rebuild
    <2>2. CASE ~running
      BY <2>2, <1>0, <1>1, RegistryHas DEF Evict, Wake, Rebuild
    <2>3. QED
      BY <2>1, <2>2
  <1>3. n \in Int /\ b \in Int
    BY <1>0, <1>1, RegistryHas DEF Weight
  <1>4. Counts(Gone) = 0 /\ Weighs(Gone) = 0
    BY GoneTrue DEF Counts, Weighs, Stands, One
  <1>5. Counts(d.rec[r]) = (IF running THEN 0 ELSE 1) /\ Weighs(d.rec[r]) = Weight(d.rec[r].binding)
    BY <1>1 DEF Counts, Weighs, Stands, One, Weight
  <1>6. n = d.count + Counts(Gone) - Counts(d.rec[r]) /\ b = d.bytes + Weighs(Gone) - Weighs(d.rec[r])
    BY <1>0, <1>1, <1>4, <1>5, RegistryHas DEF Weight
  <1> HIDE DEF n, b, d
  <1>7. /\ k \in Registry
        /\ k.rec[r] = Gone /\ \A q \in Ids : q # r => k.rec[q] = d.rec[q]
        /\ k.count = n /\ k.bytes = b /\ k.woken = TRUE
    BY <1>0, <1>1, <1>3, GoneTrue, Rebuilt
  <1> HIDE DEF h, k
  <1>8. Sums(g) => Sums(k)
    BY <1>0, <1>1, <1>6, <1>7, SumsMove
  <1>9. QED
    BY <1>1, <1>2, <1>7, <1>8 DEF h
-----------------------------------------------------------------------------
\* A nonempty set of natural numbers has a least element.
LEMMA LeastNat ==
  ASSUME NEW T, T \subseteq Nat, T # {}
  PROVE  \E x \in T : \A y \in T : x <= y
<1> DEFINE Family == {0..x : x \in T}
           Smaller == StrictSubsetOrdering(Nat)
<1>1. IsWellFoundedOn(Smaller, FiniteSubsetsOf(Nat))
  BY FS_StrictSubsetOrderingWellFounded
<1>2. \A x \in T : IsFiniteSet(0..x)
  BY FS_Interval
<1>3. Family \subseteq FiniteSubsetsOf(Nat) /\ Family # {}
  <2>1. \A x \in T : 0..x \subseteq Nat
    OBVIOUS
  <2>2. \A x \in T : 0..x \in FiniteSubsetsOf(Nat)
    BY <2>1, <1>2 DEF FiniteSubsetsOf
  <2> QED BY <2>2
<1>4. PICK F \in Family : \A G \in Family : ~ (<<G, F>> \in Smaller)
  <2> HIDE DEF Family, Smaller
  <2> QED BY <1>1, <1>3, WFMin
<1>5. PICK x \in T : F = 0..x
  BY <1>4
<1>6. ASSUME NEW y \in T, y < x PROVE FALSE
  <2>1. 0..y \subseteq 0..x /\ 0..y # 0..x /\ 0..y \subseteq Nat /\ 0..x \subseteq Nat
    BY <1>6
  <2>2. <<0..y, F>> \in Smaller
    BY <2>1, <1>5 DEF StrictSubsetOrdering
  <2> QED BY <2>2, <1>4
<1> QED BY <1>6

\* One turn of a sweep: what it makes of the registry h when it comes to r.
Swept(h, r, S, max) == IF r \in S /\ Over(h, max) THEN Evict(h, r) ELSE h

Turns(f, n, g, S, max) == f = [r \in 0..n |-> IF r = 0 THEN g ELSE Swept(f[r - 1], r, S, max)]

\* A sweep has a value: the turns up to any record do.
LEMMA TurnsTaken ==
  ASSUME NEW g, NEW S, NEW max, NEW n \in Nat
  PROVE  \E f : Turns(f, n, g, S, max)
  <1> DEFINE Taken(k) == \E f : f = [r \in 0..k |-> IF r = 0 THEN g ELSE Swept(f[r - 1], r, S, max)]
             T == {k \in Nat : ~Taken(k)}
  <1>1. Taken(0)
    <2> DEFINE f == [r \in 0..0 |-> g]
    <2>1. f = [r \in 0..0 |-> IF r = 0 THEN g ELSE Swept(f[r - 1], r, S, max)]
      OBVIOUS
    <2>2. QED
      BY <2>1
  <1>2. ASSUME NEW k \in Nat, Taken(k) PROVE Taken(k + 1)
    <2>1. PICK f : f = [r \in 0..k |-> IF r = 0 THEN g ELSE Swept(f[r - 1], r, S, max)]
      BY <1>2
    <2> DEFINE h == [r \in 0..(k + 1) |-> IF r = k + 1 THEN Swept(f[k], k + 1, S, max) ELSE f[r]]
    <2>2. \A r \in 0..k : f[r] = IF r = 0 THEN g ELSE Swept(f[r - 1], r, S, max)
      BY <2>1, Zenon
    <2>3. \A r \in 0..(k + 1) : h[r] = IF r = 0 THEN g ELSE Swept(h[r - 1], r, S, max)
      <3> SUFFICES ASSUME NEW r \in 0..(k + 1) PROVE h[r] = IF r = 0 THEN g ELSE Swept(h[r - 1], r, S, max)
        OBVIOUS
      <3>1. CASE r = k + 1
        <4>1. h[r] = Swept(f[k], k + 1, S, max) /\ r - 1 = k /\ h[k] = f[k] /\ r # 0
          BY <3>1
        <4>2. QED
          BY <3>1, <4>1
      <3>2. CASE r # k + 1
        <4>1. r \in 0..k /\ h[r] = f[r]
          BY <3>2
        <4>2. r # 0 => h[r - 1] = f[r - 1]
          BY <4>1
        <4>3. QED
          BY <4>1, <4>2, <2>2
      <3>3. QED
        BY <3>1, <3>2
    <2>4. h = [r \in 0..(k + 1) |-> h[r]]
      OBVIOUS
    <2> HIDE DEF h
    <2>5. h = [r \in 0..(k + 1) |-> IF r = 0 THEN g ELSE Swept(h[r - 1], r, S, max)]
      BY <2>3, <2>4
    <2>6. QED
      BY <2>5
  <1> HIDE DEF Taken
  <1>3. T = {}
    <2>1. SUFFICES ASSUME T # {} PROVE FALSE
      OBVIOUS
    <2>2. PICK k \in T : \A y \in T : k <= y
      BY <2>1, LeastNat
    <2>3. k # 0 /\ k - 1 \in Nat /\ k - 1 \notin T
      BY <1>1, <2>2
    <2>4. Taken((k - 1) + 1)
      BY <2>3, <1>2
    <2>5. QED
      BY <2>2, <2>4
  <1>4. Taken(n)
    BY <1>3
  <1>5. QED
    BY <1>4, Zenon DEF Taken, Turns

\* What a sweep of S makes of a registry g: records of S may be gone, and who waits is woken.
Lost(g, h, S) ==
  /\ h \in Registry
  /\ \A q \in Ids : h.rec[q] = g.rec[q] \/ (q \in S /\ h.rec[q] = Gone)
  /\ (g.woken => h.woken) /\ (h.woken \/ \A q \in Ids : h.rec[q] = g.rec[q])
  /\ Sums(g) => Sums(h)

LEMMA SweepLoses ==
  ASSUME NEW g \in Registry, NEW S \in SUBSET Live(g), NEW max
  PROVE  Lost(g, Sweep(g, S, max), S)
  <1> DEFINE after[r \in 0..MaxRecords] ==
               IF r = 0 THEN g
               ELSE IF r \in S /\ Over(after[r - 1], max) THEN Evict(after[r - 1], r) ELSE after[r - 1]
             Done(k) == Lost(g, after[k], S) /\ \A q \in Ids : q > k => after[k].rec[q] = g.rec[q]
             T == {k \in 0..MaxRecords : ~Done(k)}
  <1>0. MaxRecords \in Nat
    BY RegistrySetting
  <1>1. Sweep(g, S, max) = after[MaxRecords]
    BY DEF Sweep
  <1>2. \E f : f = [r \in 0..MaxRecords |-> IF r = 0 THEN g ELSE IF r \in S /\ Over(f[r - 1], max) THEN Evict(f[r - 1], r) ELSE f[r - 1]]
    <2>1. \E f : Turns(f, MaxRecords, g, S, max)
      BY <1>0, TurnsTaken
    <2>2. QED
      BY <2>1, Zenon DEF Swept, Turns
  <1>3. after = [r \in 0..MaxRecords |-> IF r = 0 THEN g ELSE IF r \in S /\ Over(after[r - 1], max) THEN Evict(after[r - 1], r) ELSE after[r - 1]]
    BY <1>2, Zenon
  <1> HIDE DEF after
  <1>4. \A r \in 0..MaxRecords : after[r] = IF r = 0 THEN g ELSE Swept(after[r - 1], r, S, max)
    BY <1>3, Zenon DEF Swept
  <1>5. Done(0)
    BY <1>0, <1>4 DEF Lost
  <1>6. ASSUME NEW k \in 1..MaxRecords, Done(k - 1) PROVE Done(k)
    <2> DEFINE h == after[k - 1]
    <2>1. h \in Registry /\ k \in Ids /\ h.rec[k] = g.rec[k] /\ Lost(g, h, S)
      BY <1>6, <1>0 DEF Lost, Ids
    <2>2. after[k] = Swept(h, k, S, max)
      BY <1>4, <1>0
    <2>3. CASE after[k] = h
      BY <2>3, <1>6, <2>1, <1>0 DEF Ids
    <2>4. CASE k \in S /\ after[k] = Evict(h, k)
      <3>1. k \in Live(h)
        BY <2>1, <2>4 DEF Live
      <3>0. \A q \in Ids : q > k => h.rec[q] = g.rec[q]
        BY <1>6 DEF Ids
      <3> DEFINE v == after[k]
      <3> HIDE DEF h, v
      <3>2. /\ after[k] \in Registry /\ after[k].woken = TRUE
            /\ after[k].rec[k] = Gone /\ \A q \in Ids : q # k => after[k].rec[q] = h.rec[q]
            /\ Sums(h) => Sums(after[k])
        <4>1. v = Evict(h, k)
          BY <2>4 DEF v
        <4>2. /\ v \in Registry /\ v.woken = TRUE
              /\ v.rec[k] = Gone /\ \A q \in Ids : q # k => v.rec[q] = h.rec[q]
              /\ Sums(h) => Sums(v)
          BY <2>1, <4>1, <3>1, Evicted
        <4>3. QED
          BY <4>2 DEF v
      <3>3. Lost(g, after[k], S)
        BY <2>1, <2>4, <3>2 DEF Lost
      <3>4. \A q \in Ids : q > k => after[k].rec[q] = g.rec[q]
        BY <3>0, <3>2 DEF Ids
      <3>5. QED
        BY <3>3, <3>4
    <2>5. QED
      BY <2>2, <2>3, <2>4 DEF Swept
  <1> HIDE DEF Done
  <1>7. T = {}
    <2>1. SUFFICES ASSUME T # {} PROVE FALSE
      OBVIOUS
    <2>2. PICK k \in T : \A y \in T : k <= y
      <3>1. T \subseteq Nat
        BY <1>0
      <3> HIDE DEF T
      <3>2. QED
        BY <2>1, <3>1, LeastNat
    <2>3. k \in 1..MaxRecords /\ k - 1 \in 0..MaxRecords /\ k - 1 \notin T
      BY <1>0, <1>5, <2>2
    <2>4. QED
      BY <1>6, <2>2, <2>3
  <1>8. Done(MaxRecords)
    BY <1>0, <1>7
  <1>9. QED
    BY <1>1, <1>8 DEF Done
-----------------------------------------------------------------------------
Acquisition ==
  [pc : {"idle", "scan", "lookup", "history", "waiting", "working", "hit", "answered"}, changed : BOOLEAN,
   considered : SUBSET Ids, history : BOOLEAN, at : 0..MaxRecords, waits : SUBSET Ids,
   claim : Owners \cup {"none"}, result : Nat]
Branch == [whole : {"free", "pending", "spent"}, children : Int, partial : BOOLEAN]

\* A result is named by the record that has it.
Named(g) == \A r \in Ids : g.rec[r].status \in {"completed", "reserved"} => g.rec[r].result = r
\* What was consumed is in no record any more.
Past(g, s) == \A r \in s : g.rec[r].status \in {"retained", "gone"}
\* A hit has its record, reserved if the result is a one-shot, unless the record is gone.
HitTrue(g, v) ==
  /\ v.at \in Ids /\ v.result = v.at
  /\ \/ g.rec[v.at].status = "gone"
     \/ v.claim # "none" /\ g.rec[v.at].status = "reserved" /\ g.rec[v.at].owner = v.claim
     \/ v.claim = "none" /\ g.rec[v.at].status = "completed" /\ ~g.rec[v.at].oneShot
HitsTrue(g, cs) == \A c \in Consumers : cs[c].pc = "hit" => HitTrue(g, cs[c])
Claims(cs, c, r) == cs[c].pc = "hit" /\ cs[c].claim # "none" /\ cs[c].at = r
Alone(cs) == \A c, d \in Consumers, r \in Ids : Claims(cs, c, r) /\ Claims(cs, d, r) => c = d
Reserver(g, cs) == \A r \in Ids : g.rec[r].status = "reserved" => \E c \in Consumers : Claims(cs, c, r)
\* A branch counts the claims on it, and is committed only without one.
ClaimsOn(cs, o) == {c \in Consumers : cs[c].pc = "hit" /\ cs[c].claim = o}
BranchesTrue(b, cs) ==
  \A o \in Owners : /\ b[o].children = Cardinality(ClaimsOn(cs, o))
                    /\ b[o].whole # "free" => b[o].children = 0 /\ ~b[o].partial
\* A consumer waits that was told of nothing: each result it has not considered is in a branch
\* being committed, and the consumer waits for that record, or in one that is spent.
OutOfReach(g, b, v) ==
  \A r \in Ids : g.rec[r].status = "completed" /\ r \notin v.considered =>
     /\ g.rec[r].oneShot /\ b[g.rec[r].owner].whole # "free"
     /\ b[g.rec[r].owner].whole = "pending" => r \in v.waits
WaitsTrue(g, b, cs) ==
  \A c \in Consumers : cs[c].pc = "waiting" =>
     c \notin Owners /\ (~cs[c].changed /\ ~g.woken => OutOfReach(g, b, cs[c]))
Aimed(cs) == \A c \in Consumers : cs[c].pc \in {"lookup", "working"} => cs[c].at \in Ids

Joined(g, b, cs, s) ==
  /\ g \in Registry /\ b \in [Owners -> Branch] /\ cs \in [Consumers -> Acquisition] /\ s \subseteq Ids
  /\ Named(g) /\ Past(g, s) /\ HitsTrue(g, cs) /\ Alone(cs) /\ Reserver(g, cs)
  /\ BranchesTrue(b, cs) /\ WaitsTrue(g, b, cs) /\ Aimed(cs)

RegistryInv == Joined(reg, branches, cons, spent) /\ reg.woken = FALSE /\ Sums(reg)

LEMMA ConsumersFinite == IsFiniteSet(Consumers)
  BY RegistrySetting, FS_Union DEF Consumers

LEMMA IdleTrue ==
  /\ Idle \in Acquisition /\ Answered \in Acquisition
  /\ Idle.pc = "idle" /\ Answered.pc = "answered"
  <1>1. 0 \in 0..MaxRecords
    BY RegistrySetting
  <1>2. /\ Idle \in Acquisition /\ Idle.pc = "idle"
    BY <1>1 DEF Idle, Acquisition
  <1>3. QED
    BY <1>2 DEF Answered, Acquisition

LEMMA RegistryStart == RegistryInit => RegistryInv
  <1> SUFFICES ASSUME RegistryInit PROVE RegistryInv
    OBVIOUS
  <1>1. /\ reg.rec \in [Ids -> Record] /\ \A r \in Ids : reg.rec[r] = Unused /\ RecordTrue(r, reg.rec[r])
        /\ reg.count = 0 /\ reg.bytes = 0 /\ reg.woken = FALSE
    BY GoneTrue DEF RegistryInit
  <1>2. reg \in Registry
    <2>1. reg \in [rec : [Ids -> Record], count : Int, bytes : Int, woken : BOOLEAN]
      BY <1>1 DEF RegistryInit
    <2>2. QED
      BY <1>1, <2>1 DEF Registry
  <1>3. Live(reg) = {} /\ Finished(reg) = {} /\ Results(reg) = {} /\ Bindings(reg) = {}
    BY <1>1, GoneTrue DEF Live, Finished, Results, Bindings
  <1>4. Sums(reg)
    BY <1>1, <1>3, FS_EmptySet DEF Sums
  <1>5. /\ cons \in [Consumers -> Acquisition] /\ \A c \in Consumers : cons[c].pc = "idle"
        /\ branches \in [Owners -> Branch] /\ \A o \in Owners : branches[o].whole = "free" /\ branches[o].children = 0
        /\ spent = {}
    BY IdleTrue DEF RegistryInit, Branch
  <1>6. \A o \in Owners : Cardinality(ClaimsOn(cons, o)) = 0
    <2>1. \A o \in Owners : ClaimsOn(cons, o) = {}
      BY <1>5 DEF ClaimsOn
    <2>2. QED
      BY <2>1, FS_EmptySet
  <1>7. /\ Named(reg) /\ Past(reg, spent) /\ HitsTrue(reg, cons) /\ Alone(cons) /\ Reserver(reg, cons)
        /\ BranchesTrue(branches, cons) /\ WaitsTrue(reg, branches, cons) /\ Aimed(cons)
    BY <1>1, <1>5, <1>6, GoneTrue
       DEF Named, Past, HitsTrue, Alone, Claims, Reserver, BranchesTrue, WaitsTrue, Aimed
  <1>8. QED
    BY <1>1, <1>2, <1>4, <1>5, <1>7 DEF RegistryInv, Joined

\* Records that are gone contradict nothing.
LEMMA LostKeeps ==
  ASSUME NEW g, NEW h, NEW S, NEW b, NEW cs, NEW s, Joined(g, b, cs, s), Lost(g, h, S)
  PROVE  Joined(h, b, cs, s)
  <1>1. /\ h \in Registry
        /\ \A q \in Ids : h.rec[q] = g.rec[q] \/ (h.rec[q] = Gone /\ h.rec[q].status = "gone")
        /\ g.woken => h.woken
    BY GoneTrue DEF Lost
  <1>2. Named(h)
    BY <1>1 DEF Joined, Named
  <1>3. Past(h, s)
    BY <1>1 DEF Joined, Past
  <1>4. HitsTrue(h, cs)
    <2>1. ASSUME NEW v, HitTrue(g, v) PROVE HitTrue(h, v)
      <3>1. v.at \in Ids
        BY <2>1 DEF HitTrue
      <3>2. h.rec[v.at] = g.rec[v.at] \/ h.rec[v.at].status = "gone"
        BY <1>1, <3>1
      <3>3. QED
        BY <2>1, <3>1, <3>2 DEF HitTrue
    <2>2. QED
      BY <2>1 DEF Joined, HitsTrue
  <1>5. Reserver(h, cs)
    BY <1>1 DEF Joined, Reserver
  <1>6. WaitsTrue(h, b, cs)
    <2>1. ASSUME NEW v, OutOfReach(g, b, v) PROVE OutOfReach(h, b, v)
      <3>1. SUFFICES ASSUME NEW r \in Ids, h.rec[r].status = "completed", r \notin v.considered
                     PROVE  /\ h.rec[r].oneShot /\ b[h.rec[r].owner].whole # "free"
                            /\ b[h.rec[r].owner].whole = "pending" => r \in v.waits
        BY DEF OutOfReach
      <3>2. h.rec[r] = g.rec[r]
        BY <1>1, <3>1
      <3>3. QED
        BY <2>1, <3>1, <3>2 DEF OutOfReach
    <2>2. QED
      BY <1>1, <2>1 DEF Joined, WaitsTrue
  <1>7. QED
    BY <1>1, <1>2, <1>3, <1>4, <1>5, <1>6 DEF Joined

\* One record moves, and nobody holds or awaits what it was.
SameClaim(d, e) == e.status = d.status /\ e.owner = d.owner /\ e.oneShot = d.oneShot
Moves(g, h, r) ==
  /\ h \in Registry /\ \A q \in Ids : q # r => h.rec[q] = g.rec[q]
  /\ h.rec[r].status \in {"completed", "reserved"} => h.rec[r].result = r
  /\ \/ SameClaim(g.rec[r], h.rec[r])
     \/ /\ g.rec[r].status \in {"unused", "running"} /\ h.rec[r].status # "reserved"
        /\ h.rec[r].status = "completed" => h.woken
  /\ g.woken => h.woken

LEMMA MovesKeep ==
  ASSUME NEW g, NEW h, NEW r \in Ids, NEW b, NEW cs, NEW s, Joined(g, b, cs, s), Moves(g, h, r)
  PROVE  Joined(h, b, cs, s)
  <1>1. h \in Registry /\ \A q \in Ids : q = r \/ h.rec[q] = g.rec[q]
    BY DEF Moves
  <1>2. Named(h)
    BY <1>1 DEF Joined, Named, Moves
  <1>3. Past(h, s)
    BY <1>1 DEF Joined, Past, Moves, SameClaim
  <1>4. HitsTrue(h, cs)
    <2>1. ASSUME NEW v, HitTrue(g, v) PROVE HitTrue(h, v)
      <3>1. v.at \in Ids
        BY <2>1 DEF HitTrue
      <3>2. SameClaim(g.rec[v.at], h.rec[v.at])
        BY <1>1, <2>1, <3>1 DEF Moves, HitTrue, SameClaim
      <3>3. QED
        BY <2>1, <3>1, <3>2 DEF HitTrue, SameClaim
    <2>2. QED
      BY <2>1 DEF Joined, HitsTrue
  <1>5. Reserver(h, cs)
    BY <1>1 DEF Joined, Reserver, Moves, SameClaim
  <1>6. WaitsTrue(h, b, cs)
    <2>1. ASSUME NEW v, OutOfReach(g, b, v), ~h.woken PROVE OutOfReach(h, b, v)
      <3>1. SUFFICES ASSUME NEW q \in Ids, h.rec[q].status = "completed", q \notin v.considered
                     PROVE  /\ h.rec[q].oneShot /\ b[h.rec[q].owner].whole # "free"
                            /\ b[h.rec[q].owner].whole = "pending" => q \in v.waits
        BY DEF OutOfReach
      <3>2. SameClaim(g.rec[q], h.rec[q])
        BY <1>1, <2>1, <3>1 DEF Moves, SameClaim
      <3>3. QED
        BY <2>1, <3>1, <3>2 DEF OutOfReach, SameClaim
    <2>2. QED
      BY <2>1 DEF Joined, WaitsTrue, Moves
  <1>7. QED
    BY <1>1, <1>2, <1>3, <1>4, <1>5, <1>6 DEF Joined

\* The end of a handler: the waiters of a registry that was woken are told.
LEMMA Updated ==
  ASSUME NEW h, NEW cs, Joined(h, branches', cs, spent'), Sums(h), Update(h, cs)
  PROVE  RegistryInv'
  <1>1. /\ reg' = [h EXCEPT !.woken = FALSE] /\ cons' = Told(h, cs)
    BY DEF Update
  <1>2. h \in [rec : [Ids -> Record], count : Int, bytes : Int, woken : BOOLEAN] /\ \A r \in Ids : RecordTrue(r, h.rec[r])
    BY DEF Joined, Registry
  <1>3. /\ reg' \in [rec : [Ids -> Record], count : Int, bytes : Int, woken : BOOLEAN]
        /\ reg'.rec = h.rec /\ reg'.count = h.count /\ reg'.bytes = h.bytes /\ reg'.woken = FALSE
    BY <1>1, <1>2
  <1>4. reg' \in Registry
    BY <1>2, <1>3 DEF Registry
  <1>5. Sums(reg')
    BY <1>3 DEF Sums, Finished, Results, Bindings, Live
  <1>6. /\ cons' \in [Consumers -> Acquisition]
        /\ \A c \in Consumers : /\ cons'[c].pc = cs[c].pc /\ cons'[c].at = cs[c].at /\ cons'[c].claim = cs[c].claim
                                /\ cons'[c].result = cs[c].result /\ cons'[c].waits = cs[c].waits
                                /\ cons'[c].considered = cs[c].considered
                                /\ cs[c].changed => cons'[c].changed
                                /\ h.woken /\ cs[c].pc = "waiting" => cons'[c].changed
    <2>1. cs \in [Consumers -> Acquisition]
      BY DEF Joined
    <2>2. \A v \in Acquisition : LET w == [v EXCEPT !.changed = TRUE] IN
             /\ w \in Acquisition /\ w.pc = v.pc /\ w.at = v.at /\ w.claim = v.claim /\ w.result = v.result
             /\ w.waits = v.waits /\ w.considered = v.considered /\ w.changed = TRUE
      BY DEF Acquisition
    <2>3. \A c \in Consumers : cons'[c] = IF h.woken /\ cs[c].pc \in {"scan", "lookup", "history", "waiting"} THEN [cs[c] EXCEPT !.changed = TRUE] ELSE cs[c]
      BY <1>1 DEF Told
    <2>4. cons' = [c \in Consumers |-> cons'[c]]
      BY <1>1 DEF Told
    <2>5. \A c \in Consumers : cons'[c] \in Acquisition
      BY <2>1, <2>2, <2>3
    <2>6. cons' \in [Consumers -> Acquisition]
      BY <2>4, <2>5
    <2>7. QED
      BY <2>1, <2>2, <2>3, <2>6, ZenonT(30)
  <1>7. Named(reg') /\ Past(reg', spent') /\ Aimed(cons')
    BY <1>3, <1>6 DEF Joined, Named, Past, Aimed
  <1>8. HitsTrue(reg', cons')
    BY <1>3, <1>6 DEF Joined, HitsTrue, HitTrue
  <1>9. Alone(cons') /\ Reserver(reg', cons')
    BY <1>3, <1>6 DEF Joined, Alone, Reserver, Claims
  <1>10. BranchesTrue(branches', cons')
    <2>1. \A o \in Owners : ClaimsOn(cons', o) = ClaimsOn(cs, o)
      BY <1>6 DEF ClaimsOn
    <2>2. QED
      BY <2>1 DEF Joined, BranchesTrue
  <1>11. WaitsTrue(reg', branches', cons')
    BY <1>3, <1>6 DEF Joined, WaitsTrue, OutOfReach
  <1>12. QED
    BY <1>3, <1>4, <1>5, <1>6, <1>7, <1>8, <1>9, <1>10, <1>11 DEF RegistryInv, Joined

LEMMA LostUpdated ==
  ASSUME NEW g, NEW h, NEW S, NEW cs, Joined(g, branches', cs, spent'), Sums(g), Lost(g, h, S), Update(h, cs)
  PROVE  RegistryInv'
  <1>1. Joined(h, branches', cs, spent') /\ Sums(h)
    BY LostKeeps DEF Lost
  <1>2. QED
    BY <1>1, Updated
-----------------------------------------------------------------------------
\* What a consumer may become when neither the registry nor a branch moves.
Becomes(v) ==
  /\ v \in Acquisition /\ v.pc # "hit"
  /\ v.pc \in {"lookup", "working"} => v.at \in Ids

LEMMA ConsumerMoves ==
  ASSUME RegistryInv, NEW c \in Consumers, NEW v, Becomes(v), cons[c].pc # "hit",
         v.pc = "waiting" => c \notin Owners /\ (~v.changed => OutOfReach(reg, branches, v)),
         cons' = [cons EXCEPT ![c] = v], UNCHANGED <<reg, branches, spent>>
  PROVE  RegistryInv'
  <1>1. cons \in [Consumers -> Acquisition]
    BY DEF RegistryInv, Joined
  <1>2. cons' \in [Consumers -> Acquisition] /\ cons'[c] = v /\ \A d \in Consumers : d # c => cons'[d] = cons[d]
    BY <1>1 DEF Becomes
  <1>3. \A d \in Consumers : d = c \/ cons'[d] = cons[d]
    BY <1>2
  <1>4. HitsTrue(reg, cons') /\ Aimed(cons')
    BY <1>2, <1>3 DEF RegistryInv, Joined, HitsTrue, Aimed, Becomes
  <1>5. \A d \in Consumers, r \in Ids : Claims(cons', d, r) <=> Claims(cons, d, r)
    BY <1>2, <1>3 DEF Becomes, Claims
  <1>6. Alone(cons') /\ Reserver(reg, cons')
    BY <1>5 DEF RegistryInv, Joined, Alone, Reserver
  <1>7. BranchesTrue(branches, cons')
    <2>1. \A o \in Owners : ClaimsOn(cons', o) = ClaimsOn(cons, o)
      BY <1>2, <1>3 DEF ClaimsOn, Becomes
    <2>2. QED
      BY <2>1 DEF RegistryInv, Joined, BranchesTrue
  <1>8. WaitsTrue(reg, branches, cons')
    BY <1>2, <1>3 DEF RegistryInv, Joined, WaitsTrue
  <1>9. Joined(reg, branches, cons', spent)
    BY <1>2, <1>4, <1>6, <1>7, <1>8 DEF RegistryInv, Joined
  <1>10. reg' = reg /\ branches' = branches /\ spent' = spent
    OBVIOUS
  <1>11. QED
    BY <1>9, <1>10 DEF RegistryInv, Sums, Finished, Results, Bindings, Live

\* The fields of an acquisition.
LEMMA AcquisitionHas ==
  ASSUME NEW v \in Acquisition
  PROVE  /\ v.considered \in SUBSET Ids /\ v.waits \in SUBSET Ids /\ v.at \in 0..MaxRecords
         /\ v.changed \in BOOLEAN /\ v.history \in BOOLEAN /\ v.result \in Nat
         /\ v.claim \in Owners \cup {"none"}
  BY DEF Acquisition

LEMMA Stepped ==
  ASSUME NEW v \in Acquisition
  PROVE  /\ \A p \in {"idle", "scan", "lookup", "history", "waiting", "working", "answered"} :
              LET w == [v EXCEPT !.pc = p] IN
              /\ w \in Acquisition /\ w.pc = p /\ w.at = v.at /\ w.considered = v.considered /\ w.changed = v.changed
         /\ LET w == [v EXCEPT !.pc = "scan", !.at = 0] IN w \in Acquisition /\ w.pc = "scan"
         /\ LET w == [v EXCEPT !.pc = "scan", !.waits = {}] IN w \in Acquisition /\ w.pc = "scan"
  <1>1. 0 \in 0..MaxRecords /\ {} \in SUBSET Ids
    BY RegistrySetting
  <1>2. QED
    BY <1>1 DEF Acquisition

LEMMA ConsumersKnown ==
  ASSUME RegistryInv, NEW c \in Consumers
  PROVE  cons[c] \in Acquisition /\ cons \in [Consumers -> Acquisition]
  BY DEF RegistryInv, Joined

LEMMA AcquireKeeps ==
  ASSUME RegistryInv, NEW c \in Consumers, Acquire(c)
  PROVE  RegistryInv'
  <1> DEFINE v == [cons[c] EXCEPT !.pc = "scan"]
  <1>1. cons' = [cons EXCEPT ![c] = v] /\ cons[c].pc = "idle" /\ UNCHANGED <<reg, branches, spent>>
    BY DEF Acquire
  <1>2. v \in Acquisition /\ v.pc = "scan"
    BY ConsumersKnown, Stepped
  <1> HIDE DEF v
  <1>3. QED
    BY <1>1, <1>2, ConsumerMoves DEF Becomes

LEMMA HistoryLookedUpKeeps ==
  ASSUME RegistryInv, NEW c \in Consumers, HistoryLookedUp(c)
  PROVE  RegistryInv'
  <1>1. PICK plan \in BOOLEAN : cons' = [cons EXCEPT ![c] = IF plan \/ disposed THEN Answered ELSE [cons[c] EXCEPT !.pc = "scan"]]
    BY DEF HistoryLookedUp
  <1> DEFINE v == IF plan \/ disposed THEN Answered ELSE [cons[c] EXCEPT !.pc = "scan"]
  <1>2. v \in Acquisition /\ v.pc \in {"scan", "answered"}
    <2>1. CASE plan \/ disposed
      BY <2>1, IdleTrue
    <2>2. CASE ~(plan \/ disposed)
      BY <2>2, ConsumersKnown, Stepped
    <2>3. QED
      BY <2>1, <2>2
  <1>3. cons' = [cons EXCEPT ![c] = v] /\ cons[c].pc = "history" /\ UNCHANGED <<reg, branches, spent>>
    BY <1>1 DEF HistoryLookedUp
  <1> HIDE DEF v
  <1>4. QED
    BY <1>2, <1>3, ConsumerMoves DEF Becomes

LEMMA DeclinedKeeps ==
  ASSUME RegistryInv, NEW c \in Consumers, Declined(c)
  PROVE  RegistryInv'
  <1>1. PICK r \in cons[c].waits : reg.rec[r].status = "running" /\ cons' = [cons EXCEPT ![c] = [cons[c] EXCEPT !.waits = cons[c].waits \ {r}]]
    BY ConsumersKnown DEF Declined
  <1> DEFINE v == [cons[c] EXCEPT !.waits = cons[c].waits \ {r}]
  <1>2. cons[c].pc = "waiting" /\ UNCHANGED <<reg, branches, spent>> /\ cons[c].changed = FALSE
    BY ConsumersKnown, AcquisitionHas DEF Declined
  <1>3. /\ v \in Acquisition /\ v.pc = "waiting" /\ v.considered = cons[c].considered
        /\ v.waits = cons[c].waits \ {r}
    <2>1. cons[c] \in Acquisition
      BY ConsumersKnown
    <2>2. QED
      BY <1>2, <2>1 DEF Acquisition
  <1>4. cons' = [cons EXCEPT ![c] = v]
    BY <1>1
  <1>5. c \notin Owners /\ OutOfReach(reg, branches, cons[c])
    BY <1>2 DEF RegistryInv, Joined, WaitsTrue
  <1> HIDE DEF v
  <1>6. OutOfReach(reg, branches, v)
    BY <1>1, <1>3, <1>5 DEF OutOfReach
  <1>7. QED
    BY <1>2, <1>3, <1>4, <1>5, <1>6, ConsumerMoves DEF Becomes

LEMMA ResumeKeeps ==
  ASSUME RegistryInv, NEW c \in Consumers, Resume(c)
  PROVE  RegistryInv'
  <1> DEFINE v == IF cons[c].changed THEN [cons[c] EXCEPT !.pc = "scan", !.waits = {}] ELSE Answered
  <1>1. cons' = [cons EXCEPT ![c] = v] /\ cons[c].pc = "waiting" /\ UNCHANGED <<reg, branches, spent>>
    BY DEF Resume
  <1>2. v \in Acquisition /\ v.pc \in {"scan", "answered"}
    <2>1. CASE cons[c].changed
      BY <2>1, ConsumersKnown, Stepped
    <2>2. CASE ~cons[c].changed
      BY <2>2, IdleTrue
    <2>3. QED
      BY <2>1, <2>2
  <1> HIDE DEF v
  <1>3. QED
    BY <1>1, <1>2, ConsumerMoves DEF Becomes

LEMMA GiveUpKeeps ==
  ASSUME RegistryInv, NEW c \in Consumers, GiveUp(c)
  PROVE  RegistryInv'
  <1>1. cons' = [cons EXCEPT ![c] = Answered] /\ cons[c].pc \in {"scan", "lookup", "waiting"} /\ UNCHANGED <<reg, branches, spent>>
    BY DEF GiveUp
  <1>2. QED
    BY <1>1, IdleTrue, ConsumerMoves DEF Becomes

\* The newest of a set of records.
LEMMA NewestIn ==
  ASSUME NEW A \in SUBSET Ids, A # {}
  PROVE  Max(A) \in A
  <1> DEFINE B == {MaxRecords - r : r \in A}
  <1>1. B \subseteq Nat /\ B # {}
    <2>1. \A r \in A : MaxRecords - r \in Nat
      BY RegistrySetting DEF Ids
    <2>2. QED
      BY <2>1
  <1>2. PICK m \in B : \A n \in B : m <= n
    <2> HIDE DEF B
    <2>1. QED
      BY <1>1, LeastNat
  <1>3. PICK r \in A : m = MaxRecords - r
    BY <1>2
  <1>4. \A q \in A : r >= q
    <2>1. SUFFICES ASSUME NEW q \in A PROVE r >= q
      OBVIOUS
    <2>2. MaxRecords - q \in B
      OBVIOUS
    <2>3. m <= MaxRecords - q
      BY <1>2, <2>2
    <2>4. r \in Nat /\ q \in Nat /\ MaxRecords \in Nat
      BY RegistrySetting DEF Ids
    <2>5. QED
      BY <1>3, <2>3, <2>4
  <1>5. QED
    BY <1>3, <1>4 DEF Max

\* A sweep over nothing but a new record.
LEMMA FreshRunning ==
  ASSUME NEW g \in Registry, NEW r \in Ids, g.rec[r].status = "unused", NEW c \in Owners
  PROVE  LET h == Reserved(g, r, c) IN
         /\ h \in Registry /\ h.woken = g.woken
         /\ h.rec[r] = [Unused EXCEPT !.status = "running", !.owner = c] /\ h.rec[r].status = "running"
         /\ \A q \in Ids : q # r => h.rec[q] = g.rec[q]
         /\ Sums(g) => Sums(h)
  <1> DEFINE e == [Unused EXCEPT !.status = "running", !.owner = c]
             n == g.count
             b == g.bytes
             w == g.woken
             h == Reserved(g, r, c)
             k == Rebuild(g, r, e, n, b, w)
  <1>1. /\ e \in Record /\ e.status = "running" /\ e.result = 0 /\ e.owner \in Owners /\ e.binding = FALSE
    <2>1. Unused \in Record /\ Unused.result = 0 /\ Unused.binding = FALSE
      BY GoneTrue DEF Unused
    <2>2. QED
      BY <2>1 DEF Record, Statuses
  <1>2. RecordTrue(r, e)
    BY <1>1 DEF RecordTrue
  <1>3. n \in Int /\ b \in Int /\ w \in BOOLEAN
    BY RegistryHas
  <1>4. h = k
    BY RegistryHas DEF Reserved, Rebuild
  <1>5. Counts(e) = 0 /\ Weighs(e) = 0 /\ Counts(g.rec[r]) = 0 /\ Weighs(g.rec[r]) = 0
    BY <1>1 DEF Counts, Weighs, Stands, One
  <1> HIDE DEF e, n, b, w
  <1> HIDE DEF h
  <1>6. /\ k \in Registry
        /\ k.rec[r] = e /\ \A q \in Ids : q # r => k.rec[q] = g.rec[q]
        /\ k.count = n /\ k.bytes = b /\ k.woken = w
    <2>1. e \in Record /\ n \in Int /\ b \in Int /\ w \in BOOLEAN
      BY <1>1, <1>3
    <2>2. QED
      BY <2>1, <1>2, Rebuilt
  <1> HIDE DEF k
  <1>7. k.count = g.count + Counts(k.rec[r]) - Counts(g.rec[r]) /\ k.bytes = g.bytes + Weighs(k.rec[r]) - Weighs(g.rec[r])
    BY <1>3, <1>5, <1>6 DEF n, b
  <1>8. Sums(g) => Sums(k)
    BY <1>6, <1>7, SumsMove
  <1>9. QED
    BY <1>1, <1>4, <1>6, <1>8 DEF h, e, w

\* A consumer moves on, outside the hits.
LEMMA ConsumerTurns ==
  ASSUME NEW g, NEW b, NEW cs, NEW s, Joined(g, b, cs, s), NEW c \in Consumers, NEW v, Becomes(v),
         cs[c].pc # "hit", v.pc # "waiting"
  PROVE  Joined(g, b, [cs EXCEPT ![c] = v], s)
  <1> DEFINE ds == [cs EXCEPT ![c] = v]
  <1>1. cs \in [Consumers -> Acquisition]
    BY DEF Joined
  <1>2. ds \in [Consumers -> Acquisition] /\ ds[c] = v /\ \A d \in Consumers : d = c \/ ds[d] = cs[d]
    BY <1>1 DEF Becomes
  <1> HIDE DEF ds
  <1>3. HitsTrue(g, ds) /\ Aimed(ds) /\ WaitsTrue(g, b, ds)
    BY <1>2 DEF Joined, HitsTrue, Aimed, Becomes, WaitsTrue
  <1>4. \A d \in Consumers, r \in Ids : Claims(ds, d, r) <=> Claims(cs, d, r)
    BY <1>2 DEF Becomes, Claims
  <1>5. Alone(ds) /\ Reserver(g, ds)
    BY <1>4 DEF Joined, Alone, Reserver
  <1>6. BranchesTrue(b, ds)
    <2>1. \A o \in Owners : ClaimsOn(ds, o) = ClaimsOn(cs, o)
      BY <1>2 DEF ClaimsOn, Becomes
    <2>2. QED
      BY <2>1 DEF Joined, BranchesTrue
  <1>7. Joined(g, b, ds, s)
    BY <1>2, <1>3, <1>5, <1>6 DEF Joined
  <1>8. QED
    BY <1>7 DEF ds

LEMMA ScanKeeps ==
  ASSUME RegistryInv, NEW c \in Consumers, Scan(c)
  PROVE  RegistryInv'
  <1> DEFINE considered == IF cons[c].changed THEN {} ELSE cons[c].considered
             history    == cons[c].history /\ ~cons[c].changed
             found      == Eligible(c, considered)
  <1>0. /\ cons[c] \in Acquisition /\ cons[c].pc = "scan" /\ considered \in SUBSET Ids /\ history \in BOOLEAN
        /\ found \in SUBSET Ids
    BY ConsumersKnown, AcquisitionHas DEF Scan, Eligible
  <1>1. CASE found # {}
    <2> DEFINE v == [cons[c] EXCEPT !.changed = FALSE, !.considered = considered \cup {Max(found)},
                                    !.history = history, !.pc = "lookup", !.at = Max(found)]
    <2>1. cons' = [cons EXCEPT ![c] = v] /\ UNCHANGED <<reg, branches, spent>>
      BY <1>1, <1>0, ConsumersKnown DEF Scan
    <2>2. Max(found) \in Ids
      <3> HIDE DEF found
      <3>1. QED
        BY <1>0, <1>1, NewestIn
    <2>3. v \in Acquisition /\ v.pc = "lookup" /\ v.at \in Ids
      <3> DEFINE m == Max(found)
                 seen == considered \cup {m}
      <3>1. m \in 0..MaxRecords /\ m \in Ids /\ seen \in SUBSET Ids
        BY <1>0, <2>2, RegistrySetting DEF Ids
      <3> HIDE DEF found, history, considered, m, seen
      <3>2. LET w == [cons[c] EXCEPT !.changed = FALSE, !.considered = seen, !.history = history, !.pc = "lookup", !.at = m] IN
            w \in Acquisition /\ w.pc = "lookup" /\ w.at = m
        BY <1>0, <3>1 DEF Acquisition
      <3>3. QED
        BY <3>1, <3>2 DEF m, seen
    <2> HIDE DEF v
    <2>4. QED
      BY <1>0, <2>1, <2>3, ConsumerMoves DEF Becomes
  <1>2. CASE found = {} /\ ~history
    <2> DEFINE v == [cons[c] EXCEPT !.changed = FALSE, !.considered = considered, !.history = TRUE, !.pc = "history"]
    <2>1. cons' = [cons EXCEPT ![c] = v] /\ UNCHANGED <<reg, branches, spent>>
      BY <1>2, <1>0, ConsumersKnown DEF Scan
    <2> HIDE DEF found, history, considered
    <2>2. v \in Acquisition /\ v.pc = "history"
      BY <1>0 DEF Acquisition
    <2> HIDE DEF v
    <2>3. QED
      BY <1>0, <2>1, <2>2, ConsumerMoves DEF Becomes
  <1>3. CASE found = {} /\ history /\ c \in Owners
    <2>1. PICK r \in Fresh : reg' = Reserved(reg, r, c) /\ cons' = [cons EXCEPT ![c] = [Idle EXCEPT !.pc = "working", !.at = r]]
      BY <1>3, <1>0, ConsumersKnown DEF Scan
    <2> DEFINE v == [Idle EXCEPT !.pc = "working", !.at = r]
               h == Reserved(reg, r, c)
    <2>2. r \in Ids /\ reg.rec[r].status = "unused" /\ reg \in Registry
      BY DEF Fresh, RegistryInv, Joined
    <2>3. v \in Acquisition /\ v.pc = "working" /\ v.at \in Ids
      <3>1. r \in 0..MaxRecords
        BY <2>2, RegistrySetting DEF Ids
      <3>2. QED
        BY <2>2, <3>1, IdleTrue DEF Acquisition
    <2>4. /\ h \in Registry /\ h.woken = reg.woken /\ h.rec[r].status = "running"
          /\ \A q \in Ids : q # r => h.rec[q] = reg.rec[q]
          /\ Sums(h)
      BY <1>3, <2>2, FreshRunning DEF RegistryInv
    <2> HIDE DEF v, h
    <2>5. Moves(reg, h, r)
      BY <2>2, <2>4 DEF Moves
    <2>6. Joined(h, branches, cons, spent)
      BY <2>2, <2>5, MovesKeep DEF RegistryInv
    <2>7. Joined(h, branches, [cons EXCEPT ![c] = v], spent)
      BY <1>0, <2>3, <2>6, ConsumerTurns DEF Becomes
    <2>8. reg' = h /\ cons' = [cons EXCEPT ![c] = v] /\ branches' = branches /\ spent' = spent
      BY <2>1 DEF Scan, h, v
    <2>9. Joined(reg', branches', cons', spent')
      BY <2>7, <2>8
    <2>10. Sums(reg') /\ reg'.woken = FALSE
      BY <2>4, <2>8 DEF RegistryInv
    <2>11. QED
      BY <2>9, <2>10 DEF RegistryInv
  <1>4. CASE found = {} /\ history /\ c \notin Owners
    <2> DEFINE v == [cons[c] EXCEPT !.pc = "waiting", !.waits = Awaited]
    <2>1. cons' = [cons EXCEPT ![c] = v] /\ UNCHANGED <<reg, branches, spent>>
      BY <1>4, <1>0, ConsumersKnown DEF Scan
    <2>2. Awaited \in SUBSET Ids
      BY DEF Awaited, Live
    <2>3. /\ v \in Acquisition /\ v.pc = "waiting" /\ v.considered = cons[c].considered
          /\ v.changed = cons[c].changed /\ v.waits = Awaited
      BY <1>0, <2>2 DEF Acquisition
    <2>4. ~cons[c].changed /\ Eligible(c, cons[c].considered) = {}
      BY <1>4
    <2> HIDE DEF v
    <2>5. OutOfReach(reg, branches, v)
      <3>1. SUFFICES ASSUME NEW r \in Ids, reg.rec[r].status = "completed", r \notin v.considered
                     PROVE  /\ reg.rec[r].oneShot /\ branches[reg.rec[r].owner].whole # "free"
                            /\ branches[reg.rec[r].owner].whole = "pending" => r \in v.waits
        BY DEF OutOfReach
      <3>2. reg.rec[r].result # 0 /\ reg.rec[r].owner \in Owners
        BY <3>1, RegistryHas DEF RegistryInv, Joined, Named, RecordTrue, Ids
      <3>3. r \notin Eligible(c, cons[c].considered)
        BY <2>4
      <3>4. reg.rec[r].oneShot /\ branches[reg.rec[r].owner].whole # "free"
        BY <1>4, <2>3, <3>1, <3>2, <3>3 DEF Eligible, Accepts
      <3>5. branches[reg.rec[r].owner].whole = "pending" => r \in Awaited
        BY <3>1, <3>2 DEF Awaited, Live
      <3>6. QED
        BY <2>3, <3>4, <3>5
    <2>6. QED
      BY <1>0, <1>4, <2>1, <2>3, <2>5, ConsumerMoves DEF Becomes
  <1>5. QED
    BY <1>1, <1>2, <1>3, <1>4
-----------------------------------------------------------------------------
\* A registry that holds what another one held, and adds up as it did.
Keeps(g, h) == (\A b, cs, s : Joined(g, b, cs, s) => Joined(h, b, cs, s)) /\ (Sums(g) => Sums(h))

LEMMA KeepsOn == \A g, h, k : Keeps(g, h) /\ Keeps(h, k) => Keeps(g, k)
  BY DEF Keeps

LEMMA LostKept == \A g, h, S : Lost(g, h, S) => Keeps(g, h)
  BY LostKeeps DEF Keeps, Lost

LEMMA MovesKept == \A g, h, r : r \in Ids /\ Moves(g, h, r) /\ (Sums(g) => Sums(h)) => Keeps(g, h)
  BY MovesKeep DEF Keeps

LEMMA KeptUpdated ==
  ASSUME NEW g, NEW h, NEW cs, Joined(g, branches', cs, spent'), Sums(g), Keeps(g, h), Update(h, cs)
  PROVE  RegistryInv'
  <1>1. Joined(h, branches', cs, spent') /\ Sums(h)
    BY DEF Keeps
  <1>2. QED
    BY <1>1, Updated

LEMMA WakeLoses == ASSUME NEW g \in Registry PROVE Lost(g, Wake(g), {}) /\ Wake(g).woken = TRUE /\ Wake(g) \in Registry /\ Wake(g).rec = g.rec
  <1> DEFINE h == Wake(g)
  <1>1. g \in [rec : [Ids -> Record], count : Int, bytes : Int, woken : BOOLEAN] /\ \A r \in Ids : RecordTrue(r, g.rec[r])
    BY DEF Registry
  <1>2. /\ h \in [rec : [Ids -> Record], count : Int, bytes : Int, woken : BOOLEAN]
        /\ h.rec = g.rec /\ h.count = g.count /\ h.bytes = g.bytes /\ h.woken = TRUE
    BY <1>1 DEF Wake
  <1> HIDE DEF h
  <1>3. h \in Registry
    BY <1>1, <1>2 DEF Registry
  <1>4. Sums(g) => Sums(h)
    BY <1>2 DEF Sums, Finished, Results, Bindings, Live
  <1>5. QED
    BY <1>2, <1>3, <1>4 DEF Lost, h

LEMMA TrimLoses == ASSUME NEW g \in Registry, NEW max PROVE Lost(g, Trim(g, max), {r \in Finished(g) : g.rec[r].borrowers <= 0})
  <1>1. {r \in Finished(g) : g.rec[r].borrowers <= 0} \in SUBSET Live(g)
    BY DEF Finished
  <1>2. QED
    BY <1>1, SweepLoses DEF Trim

LEMMA Trimmed == ASSUME NEW g \in Registry, NEW max PROVE Keeps(g, Trim(g, max)) /\ Trim(g, max) \in Registry
  BY TrimLoses, LostKept DEF Lost

LEMMA Wakened == ASSUME NEW g \in Registry PROVE Keeps(g, Wake(g)) /\ Wake(g) \in Registry /\ Wake(g).woken = TRUE /\ Wake(g).rec = g.rec
  BY WakeLoses, LostKept

\* A record is replaced, and the sums with it.
LEMMA RebuiltAdds ==
  ASSUME NEW g \in Registry, NEW r \in Ids, NEW e \in Record, RecordTrue(r, e), NEW n \in Int, NEW b \in Int, NEW w \in BOOLEAN,
         n = g.count + Counts(e) - Counts(g.rec[r]), b = g.bytes + Weighs(e) - Weighs(g.rec[r])
  PROVE  LET k == Rebuild(g, r, e, n, b, w) IN
         /\ k \in Registry
         /\ k.rec[r] = e /\ \A q \in Ids : q # r => k.rec[q] = g.rec[q]
         /\ k.woken = w /\ k.count = n /\ k.bytes = b
         /\ Sums(g) => Sums(k)
  <1> DEFINE k == Rebuild(g, r, e, n, b, w)
  <1>1. /\ k \in Registry
        /\ k.rec[r] = e /\ \A q \in Ids : q # r => k.rec[q] = g.rec[q]
        /\ k.count = n /\ k.bytes = b /\ k.woken = w
    BY Rebuilt
  <1> HIDE DEF k
  <1>2. Sums(g) => Sums(k)
    BY <1>1, SumsMove
  <1>3. QED
    BY <1>1, <1>2 DEF k

\* complete, of a record that runs: it has its result, or is gone.
LEMMA CompleteKeeps ==
  ASSUME NEW g \in Registry, NEW r \in Ids, g.rec[r].status = "running", NEW x \in {0, r}, NEW oneShot \in BOOLEAN
  PROVE  Keeps(g, Complete(g, r, x, oneShot)) /\ Complete(g, r, x, oneShot) \in Registry
  <1> DEFINE d == g.rec[r]
             e == [d EXCEPT !.status = "completed", !.result = x, !.oneShot = oneShot, !.advance = FALSE]
             n == g.count + 1
             b == g.bytes + Weight(x # 0)
             k == Rebuild(g, r, e, n, b, TRUE)
             done == Wake([g EXCEPT !.bytes = g.bytes + Weight(x # 0), !.count = g.count + 1,
                                    !.rec = [g.rec EXCEPT ![r] = [g.rec[r] EXCEPT !.status = "completed", !.result = x, !.oneShot = oneShot, !.advance = FALSE]]])
  <1>1. d \in Record /\ RecordTrue(r, d) /\ d.status = "running" /\ d.result = 0 /\ d.owner \in Owners
    BY RegistryHas DEF RecordTrue
  <1>2. x \in Nat /\ r # 0
    BY DEF Ids
  <1>3. /\ e \in Record /\ e.status = "completed" /\ e.result = x /\ e.owner = d.owner /\ e.binding = d.binding
    BY <1>1, <1>2 DEF Record, Statuses
  <1>4. RecordTrue(r, e)
    BY <1>1, <1>3 DEF RecordTrue
  <1>5. Counts(e) = 1 /\ Counts(d) = 0
    BY <1>1, <1>3 DEF Counts, Stands, One
  <1>6. Weighs(e) = Weight(x # 0) + Weight(d.binding) /\ Weighs(d) = Weight(d.binding) /\ Weight(d.binding) \in Int /\ Weight(x # 0) \in Int
    BY <1>1, <1>3 DEF Weighs, Stands, One, Weight
  <1>7. g.count \in Int /\ g.bytes \in Int
    BY RegistryHas
  <1>8. n \in Int /\ b \in Int /\ n = g.count + Counts(e) - Counts(d) /\ b = g.bytes + Weighs(e) - Weighs(d)
    BY <1>5, <1>6, <1>7
  <1>9. done = k
    BY RegistryHas DEF Rebuild, Wake
  <1>10. Complete(g, r, x, oneShot) = IF x = 0 THEN Evict(done, r) ELSE Trim(done, limit)
    BY RegistryHas DEF Complete
  <1> HIDE DEF e, n, b, done
  <1>11. /\ k \in Registry
         /\ k.rec[r] = e /\ \A q \in Ids : q # r => k.rec[q] = g.rec[q]
         /\ k.woken = TRUE
         /\ Sums(g) => Sums(k)
    <2>1. e \in Record /\ n \in Int /\ b \in Int /\ TRUE \in BOOLEAN
      BY <1>3, <1>8
    <2>2. n = g.count + Counts(e) - Counts(g.rec[r]) /\ b = g.bytes + Weighs(e) - Weighs(g.rec[r])
      BY <1>8
    <2> HIDE DEF d
    <2>3. /\ k \in Registry
          /\ k.rec[r] = e /\ \A q \in Ids : q # r => k.rec[q] = g.rec[q]
          /\ k.count = n /\ k.bytes = b /\ k.woken = TRUE
      BY <2>1, <1>4, Rebuilt
    <2> HIDE DEF k
    <2>4. Sums(g) => Sums(k)
      BY <2>2, <2>3, SumsMove
    <2>5. QED
      BY <2>3, <2>4
  <1> HIDE DEF k
  <1>12. CASE x = 0
    <2> DEFINE h == Evict(k, r)
    <2>1. r \in Live(k)
      BY <1>3, <1>11 DEF Live
    <2>2. /\ h \in Registry /\ h.woken = TRUE
          /\ h.rec[r] = Gone /\ \A q \in Ids : q # r => h.rec[q] = k.rec[q]
          /\ Sums(k) => Sums(h)
      BY <1>11, <2>1, Evicted
    <2> HIDE DEF h
    <2>3. Moves(g, h, r)
      BY <1>1, <1>11, <2>2, GoneTrue DEF Moves
    <2>4. Keeps(g, h)
      BY <1>11, <2>2, <2>3, MovesKept
    <2>5. QED
      BY <1>9, <1>10, <1>12, <2>2, <2>4 DEF h
  <1>13. CASE x # 0
    <2>1. x = r
      BY <1>13
    <2>2. Moves(g, k, r)
      BY <1>1, <1>3, <1>11, <2>1 DEF Moves
    <2>3. Keeps(g, k)
      BY <1>11, <2>2, MovesKept
    <2>4. Keeps(g, Trim(k, limit)) /\ Trim(k, limit) \in Registry
      BY <1>11, <2>3, Trimmed, KeepsOn
    <2>5. QED
      BY <1>9, <1>10, <1>13, <2>4
  <1>14. QED
    BY <1>12, <1>13

\* A hit is over: its claim is given back, its record released, free again, or gone.
Returned(b, v, consumed) ==
  [o \in Owners |-> IF o = v.claim THEN [b[o] EXCEPT !.children = b[o].children - 1, !.partial = b[o].partial \/ consumed] ELSE b[o]]
Consumed(s, v, consumed) == IF consumed /\ v.claim # "none" THEN s \cup {v.result} ELSE s
OverFor(g, h, v, consumed) ==
  /\ h \in Registry /\ \A q \in Ids : q # v.at => h.rec[q] = g.rec[q]
  /\ g.woken => h.woken
  /\ v.claim = "none" \/ v.at \notin Live(g) => h.rec[v.at] = g.rec[v.at]
  /\ v.claim # "none" /\ v.at \in Live(g) =>
       IF consumed THEN h.rec[v.at].status \in {"retained", "gone"}
       ELSE /\ h.rec[v.at].status = "completed" /\ h.rec[v.at].result = g.rec[v.at].result /\ h.woken

LEMMA HitOver ==
  ASSUME NEW g, NEW h, NEW b, NEW cs, NEW s, NEW c \in Consumers, NEW consumed \in BOOLEAN,
         Joined(g, b, cs, s), cs[c].pc = "hit", OverFor(g, h, cs[c], consumed)
  PROVE  Joined(h, Returned(b, cs[c], consumed), [cs EXCEPT ![c] = Answered], Consumed(s, cs[c], consumed))
  <1> DEFINE v == cs[c]
             b2 == Returned(b, v, consumed)
             ds == [cs EXCEPT ![c] = Answered]
             s2 == Consumed(s, v, consumed)
  <1>1. cs \in [Consumers -> Acquisition] /\ v \in Acquisition /\ v.pc = "hit" /\ HitTrue(g, v)
    BY DEF Joined, HitsTrue
  <1>2. ds \in [Consumers -> Acquisition] /\ ds[c].pc = "answered" /\ \A d \in Consumers : d # c => ds[d] = cs[d]
    BY <1>1, IdleTrue
  <1>3. /\ h \in Registry /\ \A q \in Ids : q # v.at => h.rec[q] = g.rec[q]
        /\ g.woken => h.woken
        /\ v.at \in Ids /\ v.result = v.at
    BY <1>1 DEF OverFor, HitTrue
  <1>4. v.claim # "none" => Claims(cs, c, v.at)
    BY <1>1 DEF Claims
  <1>5. \A d \in Consumers, r \in Ids : Claims(ds, d, r) => Claims(cs, d, r) /\ d # c
    BY <1>2 DEF Claims
  <1>6. \A d \in Consumers, r \in Ids : Claims(cs, d, r) /\ d # c => Claims(ds, d, r)
    BY <1>2 DEF Claims
  \* What the record of the hit was, and what it is now.
  <1>7. \/ h.rec[v.at] = g.rec[v.at] /\ (v.claim = "none" \/ g.rec[v.at].status = "gone")
        \/ /\ v.claim # "none" /\ g.rec[v.at].status = "reserved"
           /\ \/ consumed /\ h.rec[v.at].status \in {"retained", "gone"}
              \/ ~consumed /\ h.rec[v.at].status = "completed" /\ h.rec[v.at].result = v.at /\ h.woken
    <2>1. CASE v.claim = "none"
      BY <2>1 DEF OverFor
    <2>2. CASE v.claim # "none" /\ g.rec[v.at].status = "gone"
      BY <1>3, <2>2 DEF OverFor, Live
    <2>3. CASE v.claim # "none" /\ g.rec[v.at].status = "reserved"
      <3>1. v.at \in Live(g) /\ g.rec[v.at].result = v.at
        BY <1>3, <2>3 DEF Live, Joined, Named
      <3>2. QED
        BY <2>3, <3>1 DEF OverFor
    <2>4. QED
      BY <1>1, <2>1, <2>2, <2>3 DEF HitTrue
  <1>8. b \in [Owners -> Branch] /\ s \subseteq Ids /\ "none" \notin Owners
    BY RegistrySetting DEF Joined
  <1>9. \A o \in Owners : b2[o] = IF o = v.claim THEN [b[o] EXCEPT !.children = b[o].children - 1, !.partial = b[o].partial \/ consumed] ELSE b[o]
    BY DEF Returned
  <1>10. b2 \in [Owners -> Branch]
    <2>1. \A x \in Branch : [x EXCEPT !.children = x.children - 1, !.partial = x.partial \/ consumed] \in Branch
      <3>1. SUFFICES ASSUME NEW x \in Branch
                     PROVE  [x EXCEPT !.children = x.children - 1, !.partial = x.partial \/ consumed] \in Branch
        OBVIOUS
      <3>2. x.children - 1 \in Int
        BY DEF Branch
      <3> DEFINE p == x.partial \/ consumed
      <3>3. p \in BOOLEAN
        OBVIOUS
      <3> HIDE DEF p
      <3>4. [x EXCEPT !.children = x.children - 1, !.partial = p] \in Branch
        BY <3>2, <3>3 DEF Branch
      <3>5. QED
        BY <3>4 DEF p
    <2>2. \A o \in Owners : b2[o] \in Branch
      BY <1>8, <1>9, <2>1, ZenonT(30)
    <2>3. QED
      BY <2>2 DEF Returned
  <1>11. /\ s2 \subseteq Ids
         /\ \A r \in s2 : r \in s \/ (r = v.at /\ consumed /\ v.claim # "none")
    BY <1>3, <1>8 DEF Consumed
  <1>21. \A x \in Branch : LET y == [x EXCEPT !.children = x.children - 1, !.partial = x.partial \/ consumed] IN
            y.children = x.children - 1 /\ y.whole = x.whole
    BY DEF Branch
  <1> HIDE DEF b2, ds, s2, v
  <1>12. Named(h)
    BY <1>3, <1>7 DEF Joined, Named
  <1>13. Past(h, s2)
    <2>1. SUFFICES ASSUME NEW r \in s2 PROVE h.rec[r].status \in {"retained", "gone"}
      BY DEF Past
    <2>2. CASE r # v.at
      <3>1. r \in s /\ h.rec[r] = g.rec[r]
        BY <2>2, <1>3, <1>11, <1>8
      <3>2. QED
        BY <3>1 DEF Joined, Past
    <2>3. CASE r = v.at /\ r \in s
      <3>1. g.rec[r].status \in {"retained", "gone"}
        BY <2>3 DEF Joined, Past
      <3>2. QED
        BY <3>1, <2>3, <1>7
    <2>4. CASE r = v.at /\ consumed /\ v.claim # "none"
      BY <2>4, <1>7
    <2>5. QED
      BY <2>2, <2>3, <2>4, <1>11
  <1>14. HitsTrue(h, ds)
    <2>1. SUFFICES ASSUME NEW d \in Consumers, ds[d].pc = "hit" PROVE HitTrue(h, ds[d])
      BY DEF HitsTrue
    <2>2. d # c /\ ds[d] = cs[d] /\ HitTrue(g, cs[d])
      BY <2>1, <1>2 DEF Joined, HitsTrue
    <2>3. CASE h.rec[cs[d].at] = g.rec[cs[d].at]
      BY <2>2, <2>3 DEF HitTrue
    <2>4. CASE h.rec[cs[d].at] # g.rec[cs[d].at]
      <3>1. cs[d].at = v.at /\ v.claim # "none" /\ g.rec[v.at].status = "reserved"
        BY <2>2, <2>4, <1>3, <1>7 DEF HitTrue
      <3>2. Claims(cs, d, v.at) /\ Claims(cs, c, v.at)
        BY <2>1, <2>2, <3>1, <1>4 DEF HitTrue, Claims
      <3>3. QED
        BY <2>2, <3>2, <1>3 DEF Joined, Alone
    <2>5. QED
      BY <2>3, <2>4
  <1>15. Alone(ds)
    BY <1>5 DEF Joined, Alone
  <1>16. Reserver(h, ds)
    <2>1. SUFFICES ASSUME NEW r \in Ids, h.rec[r].status = "reserved" PROVE \E d \in Consumers : Claims(ds, d, r)
      BY DEF Reserver
    <2>2. r # v.at \/ v.claim = "none"
      BY <2>1, <1>7
    <2>3. g.rec[r].status = "reserved"
      BY <2>1, <2>2, <1>3, <1>7
    <2>4. PICK d \in Consumers : Claims(cs, d, r)
      BY <2>3 DEF Joined, Reserver
    <2>5. d # c
      BY <2>2, <2>4 DEF Claims, v
    <2>6. QED
      BY <2>4, <2>5, <1>6
  <1>17. BranchesTrue(b2, ds)
    <2>1. SUFFICES ASSUME NEW o \in Owners
                   PROVE  /\ b2[o].children = Cardinality(ClaimsOn(ds, o))
                          /\ b2[o].whole # "free" => b2[o].children = 0 /\ ~b2[o].partial
      BY DEF BranchesTrue
    <2>2. /\ b[o].children = Cardinality(ClaimsOn(cs, o))
          /\ b[o].whole # "free" => b[o].children = 0 /\ ~b[o].partial
      BY DEF Joined, BranchesTrue
    <2>3. CASE o # v.claim
      <3>1. ClaimsOn(ds, o) = ClaimsOn(cs, o)
        BY <2>3, <1>2 DEF ClaimsOn, v
      <3>2. QED
        BY <2>2, <2>3, <3>1, <1>9
    <2>4. CASE o = v.claim
      <3>1. c \in ClaimsOn(cs, o) /\ ClaimsOn(ds, o) = ClaimsOn(cs, o) \ {c}
        BY <2>4, <1>1, <1>2 DEF ClaimsOn, v
      <3>2. IsFiniteSet(ClaimsOn(cs, o))
        BY ConsumersFinite, FS_Subset DEF ClaimsOn
      <3>3. /\ Cardinality(ClaimsOn(ds, o)) = Cardinality(ClaimsOn(cs, o)) - 1
            /\ Cardinality(ClaimsOn(cs, o)) # 0
        BY <3>1, <3>2, FS_RemoveElement, FS_EmptySet
      <3>4. b[o] \in Branch
        BY <1>8
      <3>5. b2[o].children = b[o].children - 1 /\ b2[o].whole = b[o].whole
        BY <2>4, <3>4, <1>9, <1>21
      <3>6. QED
        BY <2>2, <3>3, <3>5
    <2>5. QED
      BY <2>3, <2>4
  <1>18. WaitsTrue(h, b2, ds)
    <2>1. SUFFICES ASSUME NEW d \in Consumers, ds[d].pc = "waiting"
                   PROVE  d \notin Owners /\ (~ds[d].changed /\ ~h.woken => OutOfReach(h, b2, ds[d]))
      BY DEF WaitsTrue
    <2>2. ds[d] = cs[d]
      BY <2>1, <1>2
    <2>3. d \notin Owners /\ (~cs[d].changed /\ ~g.woken => OutOfReach(g, b, cs[d]))
      BY <2>1, <2>2 DEF Joined, WaitsTrue
    <2>4. ASSUME ~h.woken, OutOfReach(g, b, cs[d]) PROVE OutOfReach(h, b2, cs[d])
      <3>1. SUFFICES ASSUME NEW r \in Ids, h.rec[r].status = "completed", r \notin cs[d].considered
                     PROVE  /\ h.rec[r].oneShot /\ b2[h.rec[r].owner].whole # "free"
                            /\ b2[h.rec[r].owner].whole = "pending" => r \in cs[d].waits
        BY DEF OutOfReach
      <3>2. h.rec[r] = g.rec[r]
        BY <2>4, <3>1, <1>3, <1>7
      <3>3. h.rec[r].owner \in Owners
        BY <3>1, <1>3, RegistryHas DEF RecordTrue
      <3>4. b2[h.rec[r].owner].whole = b[h.rec[r].owner].whole
        BY <3>3, <1>8, <1>9, <1>21
      <3>5. QED
        BY <2>4, <3>1, <3>2, <3>4 DEF OutOfReach
    <2>5. QED
      BY <2>2, <2>3, <2>4, <1>3
  <1>19. Aimed(ds)
    <2>1. \A d \in Consumers : d # c => ds[d] = cs[d]
      BY <1>2
    <2>2. QED
      BY <2>1, <1>2 DEF Joined, Aimed
  <1>20. Joined(h, b2, ds, s2)
    BY <1>2, <1>3, <1>10, <1>11, <1>12, <1>13, <1>14, <1>15, <1>16, <1>17, <1>18, <1>19 DEF Joined
  <1>22. QED
    BY <1>20 DEF b2, ds, s2, v
-----------------------------------------------------------------------------
\* A claim is granted: the record is borrowed, a one-shot reserved and its branch told.
Lent(b, lender) == [o \in Owners |-> IF o = lender THEN [b[o] EXCEPT !.children = b[o].children + 1] ELSE b[o]]
ClaimOf(e) == IF e.oneShot THEN e.owner ELSE "none"
Granted(d, e) ==
  /\ e.status = (IF d.oneShot THEN "reserved" ELSE "completed")
  /\ e.owner = d.owner /\ e.oneShot = d.oneShot /\ e.result = d.result

LEMMA ClaimKeeps ==
  ASSUME NEW g, NEW h \in Registry, NEW b, NEW cs, NEW s, NEW c \in Consumers, NEW r \in Ids, NEW v \in Acquisition,
         Joined(g, b, cs, s), cs[c].pc # "hit",
         \A q \in Ids : q # r => h.rec[q] = g.rec[q],
         g.woken => h.woken, Granted(g.rec[r], h.rec[r]),
         g.rec[r].status = "completed", g.rec[r].oneShot => b[g.rec[r].owner].whole = "free",
         v.pc = "hit", v.at = r, v.result = r, v.claim = ClaimOf(g.rec[r])
  PROVE  Joined(h, Lent(b, ClaimOf(g.rec[r])), [cs EXCEPT ![c] = v], s)
  <1> DEFINE d0 == g.rec[r]
             e0 == h.rec[r]
             w == ClaimOf(d0)
             b2 == Lent(b, w)
             ds == [cs EXCEPT ![c] = v]
  <1>1. cs \in [Consumers -> Acquisition] /\ b \in [Owners -> Branch] /\ g \in Registry /\ s \subseteq Ids
    BY DEF Joined
  <1>2. ds \in [Consumers -> Acquisition] /\ ds[c] = v /\ \A d \in Consumers : d = c \/ ds[d] = cs[d]
    BY <1>1
  <1>3. d0.owner \in Owners /\ d0.oneShot \in BOOLEAN /\ "none" \notin Owners /\ d0.result = r
    BY <1>1, RegistryHas, RegistrySetting DEF RecordTrue, Joined, Named
  <1>4. /\ d0.oneShot => w = d0.owner /\ w # "none" /\ e0.status = "reserved" /\ b[w].whole = "free"
        /\ ~d0.oneShot => w = "none" /\ e0.status = "completed"
        /\ e0.owner = d0.owner /\ e0.oneShot = d0.oneShot /\ e0.result = d0.result /\ d0.status = "completed"
    BY <1>3 DEF ClaimOf, Granted
  <1>5. \A q \in Ids : q = r \/ h.rec[q] = g.rec[q]
    OBVIOUS
  <1>6. \A d \in Consumers : ~Claims(cs, d, r)
    <2>1. SUFFICES ASSUME NEW d \in Consumers, Claims(cs, d, r) PROVE FALSE
      OBVIOUS
    <2>2. HitTrue(g, cs[d]) /\ cs[d].at = r /\ cs[d].claim # "none"
      BY <2>1 DEF Claims, Joined, HitsTrue
    <2>3. QED
      BY <2>2, <1>4 DEF HitTrue
  <1>7. \A o \in Owners : b2[o] = IF o = w THEN [b[o] EXCEPT !.children = b[o].children + 1] ELSE b[o]
    BY DEF Lent
  <1>8. \A x \in Branch : LET y == [x EXCEPT !.children = x.children + 1] IN
           y \in Branch /\ y.children = x.children + 1 /\ y.whole = x.whole /\ y.partial = x.partial
    BY DEF Branch
  <1>9. b2 \in [Owners -> Branch] /\ \A o \in Owners : b2[o].whole = b[o].whole /\ b2[o].partial = b[o].partial
    <2>1. \A o \in Owners : b2[o] \in Branch /\ b2[o].whole = b[o].whole /\ b2[o].partial = b[o].partial
      BY <1>1, <1>7, <1>8, ZenonT(30)
    <2>2. QED
      BY <2>1 DEF Lent
  <1>10. v.pc = "hit" /\ v.at = r /\ v.result = r /\ v.claim = w
    OBVIOUS
  <1> HIDE DEF b2, ds, w, d0, e0
  <1>11. d0 = g.rec[r] /\ e0 = h.rec[r]
    BY DEF d0, e0
  <1>12. Named(h)
    BY <1>3, <1>4, <1>5, <1>11 DEF Joined, Named
  <1>13. Past(h, s)
    <2>1. r \notin s
      BY <1>4, <1>11 DEF Joined, Past
    <2>2. QED
      BY <1>1, <1>5, <2>1 DEF Joined, Past
  <1>14. HitsTrue(h, ds)
    <2>1. SUFFICES ASSUME NEW d \in Consumers, ds[d].pc = "hit" PROVE HitTrue(h, ds[d])
      BY DEF HitsTrue
    <2>2. CASE d = c
      <3>1. ds[d] = v
        BY <2>2, <1>2
      <3>2. HitTrue(h, v)
        BY <1>3, <1>4, <1>10, <1>11 DEF HitTrue
      <3>3. QED
        BY <3>1, <3>2
    <2>3. CASE d # c
      <3>1. ds[d] = cs[d] /\ HitTrue(g, cs[d])
        BY <2>1, <2>3, <1>2 DEF Joined, HitsTrue
      <3>2. CASE cs[d].at = r
        BY <3>1, <3>2, <1>4, <1>11 DEF HitTrue
      <3>3. CASE cs[d].at # r
        BY <3>1, <3>3, <1>5 DEF HitTrue
      <3>4. QED
        BY <3>2, <3>3
    <2>4. QED
      BY <2>2, <2>3
  <1>15. /\ \A d \in Consumers, q \in Ids : Claims(ds, d, q) => Claims(cs, d, q) \/ (d = c /\ q = r)
         /\ \A d \in Consumers, q \in Ids : Claims(cs, d, q) => Claims(ds, d, q)
         /\ w # "none" => Claims(ds, c, r)
    <2>1. \A d \in Consumers : d = c \/ ds[d] = cs[d]
      BY <1>2
    <2>2. ~\E q \in Ids : Claims(cs, c, q)
      BY DEF Claims
    <2>3. QED
      BY <2>1, <2>2, <1>2, <1>10 DEF Claims
  <1>16. Alone(ds)
    BY <1>6, <1>15 DEF Joined, Alone
  <1>17. Reserver(h, ds)
    <2>1. SUFFICES ASSUME NEW q \in Ids, h.rec[q].status = "reserved" PROVE \E d \in Consumers : Claims(ds, d, q)
      BY DEF Reserver
    <2>2. CASE q = r
      BY <2>1, <2>2, <1>3, <1>4, <1>11, <1>15
    <2>3. CASE q # r
      BY <2>1, <2>3, <1>5, <1>15 DEF Joined, Reserver
    <2>4. QED
      BY <2>2, <2>3
  <1>18. BranchesTrue(b2, ds)
    <2>1. SUFFICES ASSUME NEW o \in Owners
                   PROVE  /\ b2[o].children = Cardinality(ClaimsOn(ds, o))
                          /\ b2[o].whole # "free" => b2[o].children = 0 /\ ~b2[o].partial
      BY DEF BranchesTrue
    <2>2. /\ b[o].children = Cardinality(ClaimsOn(cs, o))
          /\ b[o].whole # "free" => b[o].children = 0 /\ ~b[o].partial
          /\ b[o] \in Branch
      BY <1>1 DEF Joined, BranchesTrue
    <2>3. \A d \in Consumers : d = c \/ ds[d] = cs[d]
      BY <1>2
    <2>4. CASE o # w
      <3>1. ClaimsOn(ds, o) = ClaimsOn(cs, o)
        BY <2>3, <2>4, <1>2, <1>10 DEF ClaimsOn
      <3>2. QED
        BY <2>2, <2>4, <3>1, <1>7
    <2>5. CASE o = w
      <3>1. ClaimsOn(ds, o) = ClaimsOn(cs, o) \cup {c} /\ c \notin ClaimsOn(cs, o)
        BY <2>3, <2>5, <1>2, <1>10 DEF ClaimsOn
      <3>2. IsFiniteSet(ClaimsOn(cs, o))
        BY ConsumersFinite, FS_Subset DEF ClaimsOn
      <3>3. Cardinality(ClaimsOn(ds, o)) = Cardinality(ClaimsOn(cs, o)) + 1
        BY <3>1, <3>2, FS_AddElement
      <3>4. b2[o].children = b[o].children + 1
        BY <2>2, <2>5, <1>7, <1>8
      <3>5. b[o].whole = "free"
        BY <2>5, <1>3, <1>4
      <3>6. QED
        BY <2>2, <3>3, <3>4, <3>5, <1>9
    <2>6. QED
      BY <2>4, <2>5
  <1>19. WaitsTrue(h, b2, ds)
    <2>1. SUFFICES ASSUME NEW d \in Consumers, ds[d].pc = "waiting"
                   PROVE  d \notin Owners /\ (~ds[d].changed /\ ~h.woken => OutOfReach(h, b2, ds[d]))
      BY DEF WaitsTrue
    <2>2. ds[d] = cs[d]
      BY <2>1, <1>2, <1>10
    <2>3. d \notin Owners /\ (~cs[d].changed /\ ~g.woken => OutOfReach(g, b, cs[d]))
      BY <2>1, <2>2 DEF Joined, WaitsTrue
    <2>4. ASSUME OutOfReach(g, b, cs[d]) PROVE OutOfReach(h, b2, cs[d])
      <3>1. SUFFICES ASSUME NEW q \in Ids, h.rec[q].status = "completed", q \notin cs[d].considered
                     PROVE  /\ h.rec[q].oneShot /\ b2[h.rec[q].owner].whole # "free"
                            /\ b2[h.rec[q].owner].whole = "pending" => q \in cs[d].waits
        BY DEF OutOfReach
      <3>2. h.rec[q].status = g.rec[q].status /\ h.rec[q].oneShot = g.rec[q].oneShot /\ h.rec[q].owner = g.rec[q].owner
        BY <3>1, <1>4, <1>5, <1>11
      <3>3. h.rec[q].owner \in Owners
        BY <3>1, RegistryHas DEF RecordTrue
      <3>4. QED
        BY <2>4, <3>1, <3>2, <3>3, <1>9 DEF OutOfReach
    <2>5. QED
      BY <2>2, <2>3, <2>4
  <1>20. Aimed(ds)
    BY <1>2, <1>10 DEF Joined, Aimed
  <1>21. Joined(h, b2, ds, s)
    BY <1>1, <1>2, <1>9, <1>12, <1>13, <1>14, <1>16, <1>17, <1>18, <1>19, <1>20 DEF Joined
  <1>22. QED
    BY <1>21 DEF b2, ds, w, d0

\* The registry with a record lent: it adds up as before.
LEMMA BorrowerAdded ==
  ASSUME NEW g \in Registry, NEW r \in Ids, g.rec[r].status = "completed"
  PROVE  LET h == [g EXCEPT !.rec = [g.rec EXCEPT ![r] =
                     [g.rec[r] EXCEPT !.borrowers = g.rec[r].borrowers + 1,
                                      !.status = IF g.rec[r].oneShot THEN "reserved" ELSE g.rec[r].status]]] IN
         /\ h \in Registry /\ h.woken = g.woken
         /\ \A q \in Ids : q # r => h.rec[q] = g.rec[q]
         /\ Granted(g.rec[r], h.rec[r])
         /\ Sums(g) => Sums(h)
  <1> DEFINE d == g.rec[r]
             m == d.borrowers + 1
             t == IF d.oneShot THEN "reserved" ELSE d.status
             e == [d EXCEPT !.borrowers = m, !.status = t]
             n == g.count
             b == g.bytes
             w == g.woken
             h == [g EXCEPT !.rec = [g.rec EXCEPT ![r] = e]]
             k == Rebuild(g, r, e, n, b, w)
  <1>1. d \in Record /\ RecordTrue(r, d) /\ d.status = "completed" /\ d.owner \in Owners /\ d.oneShot \in BOOLEAN
    BY RegistryHas DEF RecordTrue
  <1>2. m \in Int /\ t \in Statuses /\ t = (IF d.oneShot THEN "reserved" ELSE "completed")
    BY <1>1, RegistryHas DEF Statuses
  <1>3. h = k
    BY RegistryHas DEF Rebuild
  <1>4. n \in Int /\ b \in Int /\ w \in BOOLEAN
    BY RegistryHas
  <1> HIDE DEF m, t, n, b, w
  <1>5. /\ e \in Record /\ e.status = t /\ e.owner = d.owner /\ e.oneShot = d.oneShot /\ e.result = d.result
        /\ e.binding = d.binding
    BY <1>1, <1>2 DEF Record
  <1>6. RecordTrue(r, e)
    BY <1>1, <1>2, <1>5 DEF RecordTrue
  <1>7. Granted(d, e)
    BY <1>2, <1>5 DEF Granted
  <1>8. Counts(e) = Counts(d) /\ Weighs(e) = Weighs(d) /\ Counts(d) \in Int /\ Weighs(d) \in Int
    BY <1>1, <1>2, <1>5 DEF Counts, Weighs, Stands, One
  <1> HIDE DEF e
  <1>9. /\ k \in Registry
        /\ k.rec[r] = e /\ \A q \in Ids : q # r => k.rec[q] = g.rec[q]
        /\ k.count = n /\ k.bytes = b /\ k.woken = w
    BY <1>4, <1>5, <1>6, Rebuilt
  <1> HIDE DEF h, k
  <1>10. Sums(g) => Sums(k)
    <2>1. k.count = g.count + Counts(k.rec[r]) - Counts(g.rec[r]) /\ k.bytes = g.bytes + Weighs(k.rec[r]) - Weighs(g.rec[r])
      BY <1>4, <1>8, <1>9 DEF n, b
    <2>2. QED
      BY <2>1, <1>9, SumsMove
  <1>11. QED
    BY <1>3, <1>7, <1>9, <1>10 DEF h, e, w, m, t

LEMMA LookedUpKeeps ==
  ASSUME RegistryInv, NEW c \in Consumers, LookedUp(c)
  PROVE  RegistryInv'
  <1> DEFINE r == cons[c].at
  <1>1. /\ cons[c] \in Acquisition /\ cons[c].pc = "lookup" /\ r \in Ids /\ reg \in Registry
        /\ branches \in [Owners -> Branch] /\ spent' = spent
    BY ConsumersKnown DEF LookedUp, RegistryInv, Joined, Aimed
  <1>2. \/ Claimable(r) /\ Claim(c, r)
        \/ cons' = [cons EXCEPT ![c].pc = "scan", ![c].at = 0] /\ UNCHANGED <<reg, branches>>
    BY DEF LookedUp
  <1>3. CASE cons' = [cons EXCEPT ![c].pc = "scan", ![c].at = 0] /\ UNCHANGED <<reg, branches>>
    <2> DEFINE v == [cons[c] EXCEPT !.pc = "scan", !.at = 0]
    <2>1. cons' = [cons EXCEPT ![c] = v]
      BY <1>3, ConsumersKnown
    <2>2. v \in Acquisition /\ v.pc = "scan"
      BY <1>1, Stepped
    <2> HIDE DEF v
    <2>3. QED
      BY <1>1, <1>3, <2>1, <2>2, ConsumerMoves DEF Becomes
  <1>4. CASE Claimable(r) /\ Claim(c, r)
    <2> DEFINE w == ClaimOf(reg.rec[r])
               v == [Idle EXCEPT !.pc = "hit", !.at = r, !.claim = w, !.result = reg.rec[r].result]
               h == [reg EXCEPT !.rec = [reg.rec EXCEPT ![r] =
                     [reg.rec[r] EXCEPT !.borrowers = reg.rec[r].borrowers + 1,
                                        !.status = IF reg.rec[r].oneShot THEN "reserved" ELSE reg.rec[r].status]]]
    <2>1. reg.rec[r].status = "completed" /\ (reg.rec[r].oneShot => branches[reg.rec[r].owner].whole = "free")
      BY <1>4 DEF Claimable
    <2>2. reg' = h
      BY <1>1, <1>4, RegistryHas DEF Claim
    <2>3. branches' = Lent(branches, w)
      BY <1>4 DEF Claim, Lent, ClaimOf
    <2>4. cons' = [cons EXCEPT ![c] = v]
      BY <1>4 DEF Claim, ClaimOf
    <2>5. reg.rec[r].result = r /\ w \in Owners \cup {"none"} /\ r \in 0..MaxRecords /\ r \in Nat
      BY <1>1, <2>1, RegistryHas, RegistrySetting DEF RegistryInv, Joined, Named, ClaimOf, RecordTrue, Ids
    <2>6. /\ v \in Acquisition /\ v.pc = "hit" /\ v.at = r /\ v.result = r /\ v.claim = w
      <3> HIDE DEF w, r
      <3>1. QED
        BY <2>5, IdleTrue DEF Acquisition
    <2>7. /\ h \in Registry /\ h.woken = reg.woken
          /\ \A q \in Ids : q # r => h.rec[q] = reg.rec[q]
          /\ Granted(reg.rec[r], h.rec[r])
          /\ Sums(reg) => Sums(h)
      <3> HIDE DEF r
      <3>1. QED
        BY <1>1, <2>1, BorrowerAdded
    <2> HIDE DEF v, h, r
    <2>8. Joined(h, Lent(branches, w), [cons EXCEPT ![c] = v], spent)
      BY <1>1, <2>1, <2>6, <2>7, ClaimKeeps DEF RegistryInv
    <2>9. Joined(reg', branches', cons', spent')
      BY <1>1, <2>2, <2>3, <2>4, <2>8
    <2>10. Sums(reg') /\ reg'.woken = FALSE
      BY <2>2, <2>7 DEF RegistryInv
    <2>11. QED
      BY <2>9, <2>10 DEF RegistryInv
  <1>5. QED
    BY <1>2, <1>3, <1>4
-----------------------------------------------------------------------------
\* A record that counts for what it did is put in the place of another.
LEMMA Substituted ==
  ASSUME NEW g \in Registry, NEW r \in Ids, NEW e \in Record, RecordTrue(r, e),
         Counts(e) = Counts(g.rec[r]), NEW b \in Int, b = g.bytes + Weighs(e) - Weighs(g.rec[r])
  PROVE  LET k == Rebuild(g, r, e, g.count, b, g.woken) IN
         /\ k \in Registry /\ k.woken = g.woken /\ k.count = g.count /\ k.bytes = b
         /\ k.rec[r] = e /\ \A q \in Ids : q # r => k.rec[q] = g.rec[q]
         /\ Sums(g) => Sums(k)
  <1> DEFINE n == g.count
             w == g.woken
             k == Rebuild(g, r, e, n, b, w)
  <1>1. n \in Int /\ w \in BOOLEAN /\ g.count \in Int
    BY RegistryHas
  <1> HIDE DEF n, w
  <1>2. /\ k \in Registry /\ k.woken = w /\ k.count = n /\ k.bytes = b
        /\ k.rec[r] = e /\ \A q \in Ids : q # r => k.rec[q] = g.rec[q]
    BY <1>1, Rebuilt
  <1> HIDE DEF k
  <1>3. Counts(g.rec[r]) \in Int
    BY DEF Counts, One
  <1>4. Sums(g) => Sums(k)
    <2>1. k.count = g.count + Counts(k.rec[r]) - Counts(g.rec[r]) /\ k.bytes = g.bytes + Weighs(k.rec[r]) - Weighs(g.rec[r])
      BY <1>1, <1>2, <1>3 DEF n
    <2>2. QED
      BY <1>2, <2>1, SumsMove
  <1>5. QED
    BY <1>2, <1>4 DEF k, n, w

LEMMA Unlent ==
  ASSUME NEW g \in Registry, NEW r \in Ids
  PROVE  LET h == Unheld(g, r) IN
         /\ h \in Registry /\ h.woken = g.woken
         /\ \A q \in Ids : q # r => h.rec[q] = g.rec[q]
         /\ SameClaim(g.rec[r], h.rec[r]) /\ h.rec[r].result = g.rec[r].result /\ h.rec[r].binding = g.rec[r].binding
         /\ Sums(g) => Sums(h)
  <1> DEFINE d == g.rec[r]
             m == IF r \in Live(g) THEN d.borrowers - 1 ELSE d.borrowers
             e == [d EXCEPT !.borrowers = m]
             b == g.bytes
             h == Unheld(g, r)
             k == Rebuild(g, r, e, g.count, b, g.woken)
  <1>1. d \in Record /\ RecordTrue(r, d) /\ m \in Int /\ b \in Int /\ g \in [rec : [Ids -> Record], count : Int, bytes : Int, woken : BOOLEAN]
    BY RegistryHas
  <1>2. h = k
    BY <1>1 DEF Unheld, Rebuild
  <1> HIDE DEF m
  <1>3. /\ e \in Record /\ e.status = d.status /\ e.owner = d.owner /\ e.oneShot = d.oneShot /\ e.result = d.result
        /\ e.binding = d.binding
    BY <1>1 DEF Record
  <1>4. RecordTrue(r, e) /\ SameClaim(d, e)
    BY <1>1, <1>3 DEF RecordTrue, SameClaim
  <1>5. Counts(e) = Counts(d) /\ Weighs(e) = Weighs(d) /\ Weighs(d) \in Int
    BY <1>3 DEF Counts, Weighs, Stands, One
  <1>6. b = g.bytes + Weighs(e) - Weighs(g.rec[r])
    BY <1>1, <1>5
  <1> HIDE DEF e, b
  <1>7. /\ k \in Registry /\ k.woken = g.woken
        /\ k.rec[r] = e /\ \A q \in Ids : q # r => k.rec[q] = g.rec[q]
        /\ Sums(g) => Sums(k)
    BY <1>1, <1>3, <1>4, <1>5, <1>6, Substituted
  <1> HIDE DEF h, k
  <1>8. QED
    BY <1>2, <1>3, <1>4, <1>7 DEF h

\* The end of a claim, when nothing is forwarded.
Ended(g, r, one, consumed) ==
  IF ~one THEN g ELSE IF consumed THEN Wake(ReleaseResult(g, r)) ELSE Wake([g EXCEPT !.rec[r].status = "completed"])

LEMMA EndedOver ==
  ASSUME NEW g \in Registry, NEW v, NEW consumed \in BOOLEAN, HitTrue(g, v)
  PROVE  LET one == v.claim # "none" /\ v.at \in Live(g)
             h == Ended(g, v.at, one, consumed) IN
         OverFor(g, h, v, consumed) /\ h \in Registry /\ (Sums(g) => Sums(h))
  <1> DEFINE r == v.at
             one == v.claim # "none" /\ r \in Live(g)
             h == Ended(g, r, one, consumed)
  <1>0. r \in Ids
    BY DEF HitTrue
  <1>1. CASE ~one
    BY <1>1, <1>0 DEF Ended, OverFor
  <1>2. ASSUME one PROVE r \in Live(g) /\ g.rec[r].status = "reserved" /\ v.claim # "none"
    BY <1>2 DEF HitTrue, Live
  <1>3. CASE one /\ consumed
    <2> DEFINE k == ReleaseResult(g, r)
    <2>1. h = Wake(k)
      BY <1>3 DEF Ended
    <2>2. r \in Live(g) /\ g.rec[r].status # "running" /\ v.claim # "none"
      BY <1>2, <1>3
    <2>3. /\ k \in Registry /\ k.woken = g.woken
          /\ k.rec[r] = [g.rec[r] EXCEPT !.status = "retained", !.result = 0]
          /\ \A q \in Ids : q # r => k.rec[q] = g.rec[q]
          /\ Sums(g) => Sums(k)
      <3> HIDE DEF r
      <3>1. QED
        BY <2>2, ResultReleased
    <2>4. k.rec[r].status = "retained"
      <3>1. g.rec[r] \in Record
        BY <1>0, RegistryHas
      <3>2. QED
        BY <2>3, <3>1 DEF Record
    <2> HIDE DEF k, h
    <2>5. h \in Registry /\ h.rec = k.rec /\ h.woken = TRUE /\ (Sums(g) => Sums(h))
      BY <2>1, <2>3, WakeLoses DEF Lost
    <2>6. OverFor(g, h, v, consumed)
      BY <1>3, <2>2, <2>3, <2>4, <2>5 DEF OverFor
    <2>7. QED
      BY <2>5, <2>6 DEF h
  <1>4. CASE one /\ ~consumed
    <2> DEFINE d == g.rec[r]
               e == [d EXCEPT !.status = "completed"]
               b == g.bytes
               k == Rebuild(g, r, e, g.count, b, g.woken)
    <2>1. /\ g \in [rec : [Ids -> Record], count : Int, bytes : Int, woken : BOOLEAN]
          /\ d \in Record /\ RecordTrue(r, d) /\ d.status = "reserved" /\ b \in Int /\ r \in Live(g) /\ v.claim # "none"
      BY <1>0, <1>2, <1>4, RegistryHas
    <2>2. h = Wake(k)
      <3>1. [g EXCEPT !.rec[r].status = "completed"] = k
        BY <1>0, <2>1 DEF Rebuild
      <3>2. QED
        BY <1>4, <3>1 DEF Ended
    <2>3. /\ e \in Record /\ e.status = "completed" /\ e.owner = d.owner /\ e.oneShot = d.oneShot /\ e.result = d.result
          /\ e.binding = d.binding
      BY <2>1 DEF Record, Statuses
    <2>4. RecordTrue(r, e)
      BY <2>1, <2>3 DEF RecordTrue
    <2>5. Counts(e) = Counts(d) /\ Weighs(e) = Weighs(d) /\ Weighs(d) \in Int
      BY <2>1, <2>3 DEF Counts, Weighs, Stands, One
    <2>6. b = g.bytes + Weighs(e) - Weighs(g.rec[r])
      BY <2>1, <2>5
    <2> HIDE DEF e, b
    <2>7. /\ k \in Registry /\ k.rec[r] = e /\ \A q \in Ids : q # r => k.rec[q] = g.rec[q]
          /\ Sums(g) => Sums(k)
      <3> HIDE DEF r
      <3>1. QED
        BY <1>0, <2>1, <2>3, <2>4, <2>5, <2>6, Substituted
    <2> HIDE DEF k, h
    <2>8. h \in Registry /\ h.rec = k.rec /\ h.woken = TRUE /\ (Sums(g) => Sums(h))
      BY <2>2, <2>7, WakeLoses DEF Lost
    <2>9. OverFor(g, h, v, consumed)
      BY <1>4, <2>1, <2>3, <2>7, <2>8 DEF OverFor
    <2>10. QED
      BY <2>8, <2>9 DEF h
  <1>5. QED
    BY <1>1, <1>3, <1>4

\* A binding moves from one record to another, which runs.
LEMMA BindingMoved ==
  ASSUME NEW g \in Registry, NEW r \in Ids, NEW n \in Ids, n # r,
         g.rec[n].status = "running", g.rec[n].binding = FALSE, g.rec[r].status \in {"completed", "reserved", "retained"}
  PROVE  LET h == [g EXCEPT !.rec = [[g.rec EXCEPT ![n] = [g.rec[n] EXCEPT !.binding = g.rec[r].binding]]
                                      EXCEPT ![r] = [g.rec[r] EXCEPT !.binding = FALSE]]] IN
         /\ h \in Registry /\ h.woken = g.woken
         /\ \A q \in Ids : q \notin {r, n} => h.rec[q] = g.rec[q]
         /\ SameClaim(g.rec[n], h.rec[n]) /\ SameClaim(g.rec[r], h.rec[r]) /\ h.rec[r].result = g.rec[r].result
         /\ Sums(g) => Sums(h)
  <1> DEFINE f == g.rec[n]
             d == g.rec[r]
             e1 == [f EXCEPT !.binding = d.binding]
             b1 == g.bytes + Weight(d.binding)
             k1 == Rebuild(g, n, e1, g.count, b1, g.woken)
             e2 == [d EXCEPT !.binding = FALSE]
             b2 == g.bytes
             k2 == Rebuild(k1, r, e2, k1.count, b2, k1.woken)
             h == [g EXCEPT !.rec = [[g.rec EXCEPT ![n] = e1] EXCEPT ![r] = e2]]
  <1>1. /\ g \in [rec : [Ids -> Record], count : Int, bytes : Int, woken : BOOLEAN]
        /\ d \in Record /\ RecordTrue(r, d) /\ f \in Record /\ RecordTrue(n, f) /\ d.binding \in BOOLEAN /\ f.result = 0
    BY RegistryHas DEF RecordTrue
  <1>2. Weight(d.binding) \in Int /\ b1 \in Int /\ b2 \in Int
    BY <1>1 DEF Weight
  <1>3. /\ e1 \in Record /\ e1.status = "running" /\ e1.owner = f.owner /\ e1.oneShot = f.oneShot /\ e1.result = 0
        /\ e1.binding = d.binding
    BY <1>1 DEF Record
  <1>4. /\ e2 \in Record /\ e2.status = d.status /\ e2.owner = d.owner /\ e2.oneShot = d.oneShot /\ e2.result = d.result
        /\ e2.binding = FALSE
    BY <1>1 DEF Record
  <1>5. RecordTrue(n, e1) /\ SameClaim(f, e1) /\ RecordTrue(r, e2) /\ SameClaim(d, e2)
    BY <1>1, <1>3, <1>4 DEF RecordTrue, SameClaim
  <1>6. Counts(e1) = Counts(f) /\ Weighs(e1) = Weight(d.binding) /\ Weighs(f) = 0
    BY <1>1, <1>3 DEF Counts, Weighs, Stands, One, Weight
  <1>7. Counts(e2) = Counts(d) /\ Weighs(e2) = Weighs(d) - Weight(d.binding) /\ Weighs(d) \in Int
    BY <1>1, <1>4 DEF Counts, Weighs, Stands, One, Weight
  <1>8. h = k2
    BY <1>1 DEF Rebuild
  <1>9. b1 = g.bytes + Weighs(e1) - Weighs(g.rec[n])
    BY <1>1, <1>2, <1>6
  <1> HIDE DEF e1, e2, k2, h
  <1>10. /\ k1 \in Registry /\ k1.woken = g.woken /\ k1.count = g.count /\ k1.bytes = b1
         /\ k1.rec[n] = e1 /\ \A q \in Ids : q # n => k1.rec[q] = g.rec[q]
         /\ Sums(g) => Sums(k1)
    <2> HIDE DEF b1
    <2>1. QED
      BY <1>2, <1>3, <1>5, <1>6, <1>9, Substituted
  <1> HIDE DEF k1
  <1>11. b2 = k1.bytes + Weighs(e2) - Weighs(k1.rec[r]) /\ Counts(e2) = Counts(k1.rec[r])
    BY <1>1, <1>2, <1>7, <1>10
  <1>12. /\ k2 \in Registry /\ k2.woken = k1.woken
         /\ k2.rec[r] = e2 /\ \A q \in Ids : q # r => k2.rec[q] = k1.rec[q]
         /\ Sums(k1) => Sums(k2)
    <2> HIDE DEF b2
    <2>1. QED
      BY <1>2, <1>4, <1>5, <1>10, <1>11, Substituted DEF k2
  <1>13. QED
    BY <1>4, <1>5, <1>8, <1>10, <1>12 DEF h, e1, e2

\* A consumer that is told of its record's return gives it back (Settle).
LEMMA AuthorityReturned ==
  ASSUME RegistryInv, NEW c \in Consumers, NEW consumed \in BOOLEAN, ReturnAuthority(c, consumed)
  PROVE  branches' = Returned(branches, cons[c], consumed) /\ spent' = Consumed(spent, cons[c], consumed)
  BY DEF ReturnAuthority, Returned, Consumed

LEMMA SettleKeeps ==
  ASSUME RegistryInv, NEW c \in Consumers, NEW consumed \in BOOLEAN, NEW forward \in BOOLEAN, Settle(c, consumed, forward)
  PROVE  RegistryInv'
  <1> DEFINE v == cons[c]
             r == v.at
             g == Unheld(reg, r)
             ds == [cons EXCEPT ![c] = Answered]
             one == v.claim # "none" /\ r \in Live(reg)
  <1>1. v.pc = "hit" /\ HitTrue(reg, v) /\ r \in Ids /\ reg \in Registry /\ Sums(reg) /\ Joined(reg, branches, cons, spent)
    BY DEF Settle, RegistryInv, Joined, HitsTrue, HitTrue
  <1>2. branches' = Returned(branches, v, consumed) /\ spent' = Consumed(spent, v, consumed)
    BY AuthorityReturned DEF Settle
  <1>3. /\ g \in Registry /\ g.woken = reg.woken
        /\ \A q \in Ids : q # r => g.rec[q] = reg.rec[q]
        /\ SameClaim(reg.rec[r], g.rec[r]) /\ g.rec[r].result = reg.rec[r].result /\ g.rec[r].binding = reg.rec[r].binding
        /\ Sums(g)
    <2> HIDE DEF r
    <2>1. QED
      BY <1>1, Unlent
  <1>4. \/ /\ one /\ consumed /\ c \in Owners
           /\ \E n \in Fresh :
                LET moved == [Reserved(g, n, c) EXCEPT !.rec[n].binding = g.rec[r].binding, !.rec[r].binding = FALSE]
                IN Update(Trim(Wake(Complete(Evict(ReleaseResult(moved, r), r), n, n, TRUE)), limit), ds)
        \/ Update(Trim(Ended(g, r, one, consumed), limit), ds)
    BY DEF Settle, Ended
  <1> HIDE DEF g
  <1>5. Joined(g, branches, cons, spent)
    <2>1. Moves(reg, g, r)
      BY <1>1, <1>3 DEF Moves, Joined, Named, SameClaim
    <2> HIDE DEF r
    <2>2. QED
      BY <1>1, <2>1, MovesKeep
  <1>6. one <=> v.claim # "none" /\ r \in Live(g)
    BY <1>1, <1>3 DEF Live, SameClaim
  <1>7. HitTrue(g, v)
    BY <1>1, <1>5 DEF Joined, HitsTrue
  <1>8. CASE Update(Trim(Ended(g, r, one, consumed), limit), ds)
    <2> DEFINE h == Ended(g, r, one, consumed)
    <2>1. OverFor(g, h, v, consumed) /\ h \in Registry /\ (Sums(g) => Sums(h))
      <3> HIDE DEF v
      <3>1. CASE one
        <4>1. one = TRUE /\ (v.claim # "none" /\ v.at \in Live(g)) = TRUE
          BY <1>6, <3>1
        <4>2. h = Ended(g, r, v.claim # "none" /\ v.at \in Live(g), consumed)
          BY <3>1, <4>1 DEF Ended
        <4>3. QED
          BY <1>3, <1>7, <4>2, EndedOver
      <3>2. CASE ~one
        <4>2. h = Ended(g, r, v.claim # "none" /\ v.at \in Live(g), consumed)
          BY <1>6, <3>2 DEF Ended
        <4>3. QED
          BY <1>3, <1>7, <4>2, EndedOver
      <3>3. QED
        BY <3>1, <3>2
    <2> HIDE DEF h
    <2>2. Joined(h, Returned(branches, v, consumed), ds, Consumed(spent, v, consumed))
      BY <1>1, <1>5, <2>1, HitOver
    <2>3. Keeps(h, Trim(h, limit))
      BY <2>1, Trimmed
    <2>4. Joined(h, branches', ds, spent') /\ Sums(h) /\ Update(Trim(h, limit), ds)
      BY <1>2, <1>3, <1>8, <2>1, <2>2 DEF h
    <2> HIDE DEF ds
    <2>5. QED
      BY <2>3, <2>4, KeptUpdated
  <1>9. ASSUME one, consumed, c \in Owners, NEW n \in Fresh,
               LET moved == [Reserved(g, n, c) EXCEPT !.rec[n].binding = g.rec[r].binding, !.rec[r].binding = FALSE]
               IN Update(Trim(Wake(Complete(Evict(ReleaseResult(moved, r), r), n, n, TRUE)), limit), ds)
        PROVE  RegistryInv'
    <2> DEFINE k == Reserved(g, n, c)
               moved == [k EXCEPT !.rec = [[k.rec EXCEPT ![n] = [k.rec[n] EXCEPT !.binding = k.rec[r].binding]]
                                           EXCEPT ![r] = [k.rec[r] EXCEPT !.binding = FALSE]]]
               released == ReleaseResult(moved, r)
               gone == Evict(released, r)
               h == Complete(gone, n, n, TRUE)
    <2>1. /\ n \in Ids /\ reg.rec[n].status = "unused" /\ n # r /\ g.rec[n].status = "unused"
          /\ g.rec[r].status = "reserved"
      BY <1>1, <1>3, <1>9 DEF Fresh, HitTrue, Live, SameClaim
    <2>2. /\ k \in Registry /\ k.woken = g.woken
          /\ k.rec[n] = [Unused EXCEPT !.status = "running", !.owner = c] /\ k.rec[n].status = "running"
          /\ \A q \in Ids : q # n => k.rec[q] = g.rec[q]
          /\ Sums(k)
      BY <1>3, <1>9, <2>1, FreshRunning, ZenonT(30)
    <2>3. k.rec[n].binding = FALSE /\ k.rec[r] = g.rec[r]
      BY <1>1, <2>1, <2>2 DEF Unused
    <2>4. moved = [k EXCEPT !.rec[n].binding = g.rec[r].binding, !.rec[r].binding = FALSE]
      <3> HIDE DEF r
      <3>1. k.rec \in [Ids -> Record] /\ k \in [rec : [Ids -> Record], count : Int, bytes : Int, woken : BOOLEAN]
        BY <2>1, <2>2, RegistryHas
      <3> HIDE DEF k
      <3>2. QED
        BY <1>1, <2>1, <2>3, <3>1
    <2>5. Update(Trim(Wake(h), limit), ds)
      BY <1>9, <2>4
    <2> HIDE DEF k, r
    <2>6. /\ moved \in Registry /\ moved.woken = k.woken
          /\ \A q \in Ids : q \notin {r, n} => moved.rec[q] = k.rec[q]
          /\ SameClaim(k.rec[n], moved.rec[n]) /\ SameClaim(k.rec[r], moved.rec[r]) /\ moved.rec[r].result = k.rec[r].result
          /\ Sums(moved)
      <3>1. /\ r \in Ids /\ n \in Ids /\ n # r /\ k \in Registry /\ Sums(k)
            /\ k.rec[n].status = "running" /\ k.rec[n].binding = FALSE
            /\ k.rec[r].status \in {"completed", "reserved", "retained"}
        BY <1>1, <2>1, <2>2, <2>3
      <3> HIDE DEF moved
      <3>2. /\ moved \in Registry /\ moved.woken = k.woken
            /\ \A q \in Ids : q \notin {r, n} => moved.rec[q] = k.rec[q]
            /\ SameClaim(k.rec[n], moved.rec[n]) /\ SameClaim(k.rec[r], moved.rec[r]) /\ moved.rec[r].result = k.rec[r].result
            /\ Sums(k) => Sums(moved)
        BY <3>1, BindingMoved DEF moved
      <3>3. QED
        BY <3>1, <3>2
    <2> HIDE DEF moved
    <2>7. Joined(k, branches, cons, spent)
      <3>1. Moves(g, k, n)
        BY <2>1, <2>2 DEF Moves
      <3>2. QED
        BY <1>5, <2>1, <3>1, MovesKeep
    <2>8. Joined(moved, branches, cons, spent)
      \* Two records moved, neither in what a claim sees of it.
      <3>1. \A q \in Ids : SameClaim(k.rec[q], moved.rec[q])
        BY <2>6 DEF SameClaim
      <3>2. k.rec[r].status = "reserved" /\ moved.rec[r].status = "reserved" /\ moved.rec[n].status = "running"
        BY <2>1, <2>2, <2>3, <2>6 DEF SameClaim
      <3>3. Named(moved)
        BY <2>6, <2>7, <3>1, <3>2 DEF Named, Joined, SameClaim
      <3>4. Past(moved, spent) /\ Reserver(moved, cons)
        BY <2>7, <3>1 DEF Past, Reserver, Joined, SameClaim
      <3>5. HitsTrue(moved, cons)
        BY <2>7, <3>1 DEF HitsTrue, HitTrue, Joined, SameClaim
      <3>6. WaitsTrue(moved, branches, cons)
        BY <2>6, <2>7, <3>1 DEF WaitsTrue, OutOfReach, Joined, SameClaim
      <3>7. QED
        BY <2>6, <2>7, <3>3, <3>4, <3>5, <3>6 DEF Joined
    <2>9. r \in Live(moved) /\ moved.rec[r].status # "running" /\ moved.rec[n].status = "running"
      BY <1>1, <2>1, <2>2, <2>3, <2>6 DEF SameClaim, Live
    <2>10. /\ released \in Registry
           /\ released.rec[r] = [moved.rec[r] EXCEPT !.status = "retained", !.result = 0]
           /\ \A q \in Ids : q # r => released.rec[q] = moved.rec[q]
           /\ Sums(released)
      BY <2>6, <2>9, ResultReleased
    <2>11. r \in Live(released)
      <3>1. moved.rec[r] \in Record
        BY <1>1, <2>6, RegistryHas
      <3>2. released.rec[r].status = "retained"
        BY <2>10, <3>1 DEF Record
      <3>3. QED
        BY <1>1, <3>2 DEF Live
    <2> HIDE DEF released
    <2>12. /\ gone \in Registry /\ gone.woken = TRUE
           /\ gone.rec[r] = Gone /\ \A q \in Ids : q # r => gone.rec[q] = released.rec[q]
           /\ Sums(gone)
      BY <2>10, <2>11, Evicted
    <2> HIDE DEF gone
    <2>13. OverFor(moved, gone, v, consumed)
      BY <1>1, <1>9, <2>9, <2>10, <2>12, GoneTrue DEF OverFor, r
    <2>14. Joined(gone, Returned(branches, v, consumed), ds, Consumed(spent, v, consumed))
      BY <1>1, <2>8, <2>13, HitOver
    <2>15. gone.rec[n].status = "running"
      BY <2>1, <2>9, <2>10, <2>12
    <2>16. Keeps(gone, h) /\ h \in Registry
      BY <2>1, <2>12, <2>15, CompleteKeeps
    <2> HIDE DEF h
    <2>17. Keeps(h, Wake(h)) /\ Wake(h) \in Registry
      BY <2>16, Wakened
    <2>18. Keeps(Wake(h), Trim(Wake(h), limit))
      BY <2>17, Trimmed
    <2>19. Keeps(gone, Trim(Wake(h), limit))
      BY <2>16, <2>17, <2>18, KeepsOn
    <2> HIDE DEF ds
    <2>20. Joined(gone, branches', ds, spent')
      BY <1>2, <2>14
    <2>21. QED
      BY <2>5, <2>12, <2>19, <2>20, KeptUpdated
  <1>10. QED
    BY <1>4, <1>8, <1>9
-----------------------------------------------------------------------------
\* One record is put in the place of what it was, as far as a claim can see.
LEMMA RecordMoved ==
  ASSUME NEW g \in Registry, NEW r \in Ids, NEW e \in Record, RecordTrue(r, e), NEW n \in Int, NEW b \in Int, NEW w \in BOOLEAN,
         n = g.count + Counts(e) - Counts(g.rec[r]), b = g.bytes + Weighs(e) - Weighs(g.rec[r]), g.woken => w,
         e.status \in {"completed", "reserved"} => e.result = r,
         \/ SameClaim(g.rec[r], e)
         \/ g.rec[r].status \in {"unused", "running"} /\ e.status = "retained"
  PROVE  LET k == Rebuild(g, r, e, n, b, w) IN Keeps(g, k) /\ k \in Registry /\ k.woken = w
  <1> DEFINE k == Rebuild(g, r, e, n, b, w)
  <1>1. /\ k \in Registry
        /\ k.rec[r] = e /\ \A q \in Ids : q # r => k.rec[q] = g.rec[q]
        /\ k.count = n /\ k.bytes = b /\ k.woken = w
    BY Rebuilt
  <1> HIDE DEF k
  <1>2. Sums(g) => Sums(k)
    BY <1>1, SumsMove
  <1>3. Moves(g, k, r)
    BY <1>1 DEF Moves
  <1>4. QED
    BY <1>1, <1>2, <1>3, MovesKept DEF k

LEMMA RegistryKnown == ASSUME RegistryInv PROVE reg \in Registry /\ Sums(reg) /\ Joined(reg, branches, cons, spent) /\ reg.woken = FALSE
  BY DEF RegistryInv, Joined

LEMMA PublishKeeps ==
  ASSUME RegistryInv, NEW c \in Consumers, Publish(c)
  PROVE  RegistryInv'
  <1> DEFINE r == cons[c].at
             ds == [cons EXCEPT ![c] = Answered]
  <1>1. /\ cons[c].pc = "working" /\ r \in Ids /\ reg \in Registry /\ Sums(reg) /\ Joined(reg, branches, cons, spent)
        /\ branches' = branches /\ spent' = spent
    BY DEF Publish, RegistryInv, Joined, Aimed
  <1>2. CASE reg.rec[r].status = "running"
    <2>1. PICK x \in {0, r}, oneShot \in BOOLEAN : Update(Complete(reg, r, x, oneShot), ds)
      BY <1>2 DEF Publish
    <2> DEFINE h == Complete(reg, r, x, oneShot)
    <2>2. Keeps(reg, h)
      <3> HIDE DEF r
      <3>1. QED
        BY <1>1, <1>2, <2>1, CompleteKeeps
    <2>3. Joined(reg, branches, ds, spent)
      BY <1>1, IdleTrue, ConsumerTurns DEF Becomes
    <2>4. Joined(reg, branches', ds, spent') /\ Update(h, ds)
      BY <1>1, <2>1, <2>3
    <2> HIDE DEF h, ds
    <2>5. QED
      BY <1>1, <2>2, <2>4, KeptUpdated
  <1>3. CASE reg.rec[r].status # "running"
    <2>1. cons' = ds /\ UNCHANGED <<reg, branches, spent>>
      BY <1>3 DEF Publish
    <2>2. QED
      BY <1>1, <2>1, IdleTrue, ConsumerMoves DEF Becomes
  <1>4. QED
    BY <1>2, <1>3

LEMMA ObserveRunningKeeps ==
  ASSUME RegistryInv, NEW r \in Ids, ObserveRunning(r)
  PROVE  RegistryInv'
  <1> DEFINE d == reg.rec[r]
             e == [d EXCEPT !.advance = ~d.advance]
             n == reg.count
             b == reg.bytes
             k == Rebuild(reg, r, e, n, b, FALSE)
  <1>1. /\ d \in Record /\ RecordTrue(r, d) /\ d.status = "running" /\ n \in Int /\ b \in Int
        /\ reg \in [rec : [Ids -> Record], count : Int, bytes : Int, woken : BOOLEAN]
    BY RegistryKnown, RegistryHas DEF ObserveRunning
  <1>2. Update(Wake(k), cons) /\ branches' = branches /\ spent' = spent
    <2>1. [reg EXCEPT !.rec[r].advance = ~reg.rec[r].advance] = k
      BY <1>1, RegistryKnown DEF Rebuild
    <2>2. QED
      BY <2>1 DEF ObserveRunning
  <1>3. /\ e \in Record /\ e.status = d.status /\ e.owner = d.owner /\ e.oneShot = d.oneShot /\ e.result = d.result
        /\ e.binding = d.binding
    BY <1>1 DEF Record
  <1>4. RecordTrue(r, e) /\ SameClaim(d, e) /\ e.status = "running"
    BY <1>1, <1>3 DEF RecordTrue, SameClaim
  <1>5. Counts(e) = Counts(d) /\ Weighs(e) = Weighs(d) /\ Counts(d) \in Int /\ Weighs(d) \in Int
    BY <1>3 DEF Counts, Weighs, Stands, One
  <1>6. n = reg.count + Counts(e) - Counts(reg.rec[r]) /\ b = reg.bytes + Weighs(e) - Weighs(reg.rec[r])
    BY <1>1, <1>5
  <1> HIDE DEF e, n, b
  <1>7. Keeps(reg, k) /\ k \in Registry
    BY <1>1, <1>3, <1>4, <1>6, RegistryKnown, RecordMoved
  <1> HIDE DEF k
  <1>8. Keeps(reg, Wake(k))
    BY <1>7, Wakened, KeepsOn
  <1>9. Joined(reg, branches', cons, spent')
    BY <1>2, RegistryKnown
  <1>10. QED
    BY <1>2, <1>8, <1>9, RegistryKnown, KeptUpdated

LEMMA BindKeeps ==
  ASSUME RegistryInv, NEW r \in Ids, Bind(r)
  PROVE  RegistryInv'
  <1> DEFINE d == reg.rec[r]
             e == [d EXCEPT !.binding = TRUE]
             n == reg.count
             b == reg.bytes + 1
             k == Rebuild(reg, r, e, n, b, FALSE)
  <1>1. /\ d \in Record /\ RecordTrue(r, d) /\ d.status \in {"completed", "reserved"} /\ d.binding = FALSE
        /\ d.result = r /\ n \in Int /\ b \in Int
        /\ reg \in [rec : [Ids -> Record], count : Int, bytes : Int, woken : BOOLEAN]
    BY RegistryKnown, RegistryHas DEF Bind, Joined, Named
  <1>2. Update(Trim(k, limit), cons) /\ branches' = branches /\ spent' = spent
    <2>1. [reg EXCEPT !.rec[r].binding = TRUE, !.bytes = reg.bytes + 1] = k
      BY <1>1, RegistryKnown DEF Rebuild
    <2>2. QED
      BY <2>1 DEF Bind
  <1>3. /\ e \in Record /\ e.status = d.status /\ e.owner = d.owner /\ e.oneShot = d.oneShot /\ e.result = d.result
        /\ e.binding = TRUE
    BY <1>1 DEF Record
  <1>4. RecordTrue(r, e) /\ SameClaim(d, e)
    BY <1>1, <1>3 DEF RecordTrue, SameClaim
  <1>5. Counts(e) = Counts(d) /\ Counts(d) \in Int /\ Weighs(e) = Weighs(d) + 1 /\ Weighs(d) \in Int
    BY <1>1, <1>3 DEF Counts, Weighs, Stands, One
  <1>6. n = reg.count + Counts(e) - Counts(reg.rec[r]) /\ b = reg.bytes + Weighs(e) - Weighs(reg.rec[r])
    BY <1>1, <1>5
  <1>11. e.status \in {"completed", "reserved"} => e.result = r
    BY <1>1, <1>3
  <1> HIDE DEF e, n, b
  <1>7. Keeps(reg, k) /\ k \in Registry
    BY <1>1, <1>3, <1>4, <1>6, <1>11, RegistryKnown, RecordMoved
  <1> HIDE DEF k
  <1>8. Keeps(reg, Trim(k, limit))
    BY <1>7, Trimmed, KeepsOn
  <1>9. Joined(reg, branches', cons, spent')
    BY <1>2, RegistryKnown
  <1>10. QED
    BY <1>2, <1>8, <1>9, RegistryKnown, KeptUpdated

LEMMA ObserveKeeps ==
  ASSUME RegistryInv, Observe
  PROVE  RegistryInv'
  <1>0. PICK r \in Fresh : Update(Trim([reg EXCEPT !.rec[r] = [Unused EXCEPT !.status = "retained", !.binding = TRUE],
                                                   !.count = reg.count + 1, !.bytes = reg.bytes + 1], limit), cons)
    BY DEF Observe
  <1> DEFINE d == reg.rec[r]
             e == [Unused EXCEPT !.status = "retained", !.binding = TRUE]
             n == reg.count + 1
             b == reg.bytes + 1
             k == Rebuild(reg, r, e, n, b, FALSE)
  <1>1. /\ r \in Ids /\ d.status = "unused" /\ n \in Int /\ b \in Int
        /\ reg \in [rec : [Ids -> Record], count : Int, bytes : Int, woken : BOOLEAN]
    BY RegistryKnown, RegistryHas DEF Fresh
  <1>2. Update(Trim(k, limit), cons) /\ branches' = branches /\ spent' = spent
    <2>1. [reg EXCEPT !.rec[r] = e, !.count = reg.count + 1, !.bytes = reg.bytes + 1] = k
      <3> HIDE DEF e
      <3>1. QED
        BY <1>1, RegistryKnown DEF Rebuild
    <2>2. QED
      BY <2>1, <1>0 DEF Observe
  <1>3. e \in Record /\ e.status = "retained" /\ e.result = 0 /\ e.binding = TRUE
    <2>1. Unused.result = 0
      BY DEF Unused
    <2>2. QED
      BY <2>1, GoneTrue DEF Record, Statuses
  <1>4. RecordTrue(r, e)
    BY <1>3 DEF RecordTrue
  <1>5. Counts(e) = 1 /\ Counts(d) = 0 /\ Weighs(e) = 1 /\ Weighs(d) = 0
    BY <1>1, <1>3 DEF Counts, Weighs, Stands, One
  <1>6. n = reg.count + Counts(e) - Counts(reg.rec[r]) /\ b = reg.bytes + Weighs(e) - Weighs(reg.rec[r])
    BY <1>1, <1>5
  <1> HIDE DEF e, n, b
  <1>7. Keeps(reg, k) /\ k \in Registry
    BY <1>1, <1>3, <1>4, <1>6, RegistryKnown, RecordMoved
  <1> HIDE DEF k
  <1>8. Keeps(reg, Trim(k, limit))
    BY <1>7, Trimmed, KeepsOn
  <1>9. Joined(reg, branches', cons, spent')
    BY <1>2, RegistryKnown
  <1>10. QED
    BY <1>2, <1>8, <1>9, RegistryKnown, KeptUpdated

LEMMA ConfigureKeeps ==
  ASSUME RegistryInv, Configure
  PROVE  RegistryInv'
  <1>1. Update(Trim(reg, limit - 1), cons) /\ branches' = branches /\ spent' = spent
    BY DEF Configure
  <1>2. Joined(reg, branches', cons, spent') /\ Sums(reg) /\ Keeps(reg, Trim(reg, limit - 1))
    BY <1>1, RegistryKnown, Trimmed
  <1>3. QED
    BY <1>1, <1>2, KeptUpdated

LEMMA ClearCompletedKeeps ==
  ASSUME RegistryInv, ClearCompleted
  PROVE  RegistryInv'
  <1> DEFINE h == Sweep(reg, Finished(reg), NoLimit)
  <1>1. Update(h, cons) /\ branches' = branches /\ spent' = spent
    BY DEF ClearCompleted
  <1>2. Finished(reg) \in SUBSET Live(reg)
    BY DEF Finished
  <1>3. Lost(reg, h, Finished(reg))
    BY <1>2, RegistryKnown, SweepLoses
  <1>4. Joined(reg, branches', cons, spent') /\ Sums(reg)
    BY <1>1, RegistryKnown
  <1> HIDE DEF h
  <1>5. QED
    BY <1>1, <1>3, <1>4, LostUpdated

LEMMA DisposeKeeps ==
  ASSUME RegistryInv, Dispose
  PROVE  RegistryInv'
  <1> DEFINE h == Sweep(reg, Live(reg), NoLimit)
  <1>1. Update(Wake(h), cons) /\ branches' = branches /\ spent' = spent
    BY DEF Dispose
  <1>2. Lost(reg, h, Live(reg))
    BY RegistryKnown, SweepLoses
  <1>3. Joined(reg, branches', cons, spent') /\ Sums(reg)
    BY <1>1, RegistryKnown
  <1> HIDE DEF h
  <1>4. Keeps(reg, h) /\ h \in Registry
    BY <1>2, LostKept DEF Lost
  <1>5. Keeps(reg, Wake(h))
    BY <1>4, Wakened, KeepsOn
  <1>6. QED
    BY <1>1, <1>3, <1>5, KeptUpdated

\* Nobody waits for a branch that may still be committed: its results were there to take.
LEMMA CommitBranchKeeps ==
  ASSUME RegistryInv, NEW o \in Owners, CommitBranch(o)
  PROVE  RegistryInv'
  <1>1. /\ branches \in [Owners -> Branch] /\ branches[o].whole = "free" /\ branches[o].children = 0 /\ branches[o].partial = FALSE
        /\ branches' = [branches EXCEPT ![o] = [branches[o] EXCEPT !.whole = "pending"]]
        /\ reg' = reg /\ cons' = cons /\ spent' = spent
    BY RegistryKnown DEF CommitBranch, Joined
  <1> DEFINE b2 == branches'
  <1>2. /\ b2 \in [Owners -> Branch] /\ \A p \in Owners : p # o => b2[p] = branches[p]
        /\ b2[o].whole = "pending" /\ b2[o].children = 0 /\ b2[o].partial = FALSE
    <2>1. [branches[o] EXCEPT !.whole = "pending"] \in Branch
      BY <1>1 DEF Branch
    <2>2. QED
      BY <1>1, <2>1 DEF Branch
  <1> HIDE DEF b2
  <1>3. BranchesTrue(b2, cons)
    <2>1. SUFFICES ASSUME NEW p \in Owners
                   PROVE  /\ b2[p].children = Cardinality(ClaimsOn(cons, p))
                          /\ b2[p].whole # "free" => b2[p].children = 0 /\ ~b2[p].partial
      BY DEF BranchesTrue
    <2>2. /\ branches[p].children = Cardinality(ClaimsOn(cons, p))
          /\ branches[p].whole # "free" => branches[p].children = 0 /\ ~branches[p].partial
      BY RegistryKnown DEF Joined, BranchesTrue
    <2>3. QED
      BY <1>1, <1>2, <2>2
  <1>4. WaitsTrue(reg, b2, cons)
    <2>1. ASSUME NEW v, OutOfReach(reg, branches, v) PROVE OutOfReach(reg, b2, v)
      <3>1. SUFFICES ASSUME NEW r \in Ids, reg.rec[r].status = "completed", r \notin v.considered
                     PROVE  /\ reg.rec[r].oneShot /\ b2[reg.rec[r].owner].whole # "free"
                            /\ b2[reg.rec[r].owner].whole = "pending" => r \in v.waits
        BY DEF OutOfReach
      <3>2. /\ reg.rec[r].oneShot /\ branches[reg.rec[r].owner].whole # "free"
            /\ branches[reg.rec[r].owner].whole = "pending" => r \in v.waits
        BY <2>1, <3>1 DEF OutOfReach
      <3>3. reg.rec[r].owner \in Owners
        BY <3>1, RegistryKnown, RegistryHas DEF RecordTrue
      <3>4. reg.rec[r].owner # o
        BY <1>1, <3>2
      <3>5. b2[reg.rec[r].owner] = branches[reg.rec[r].owner]
        BY <1>2, <3>3, <3>4
      <3>6. QED
        BY <3>2, <3>5
    <2>2. QED
      BY <2>1, RegistryKnown DEF Joined, WaitsTrue
  <1>5. Joined(reg, b2, cons, spent)
    BY <1>2, <1>3, <1>4, RegistryKnown DEF Joined
  <1>6. Joined(reg', branches', cons', spent')
    BY <1>1, <1>5 DEF b2
  <1>7. Sums(reg') /\ reg'.woken = FALSE
    BY <1>1, RegistryKnown
  <1>8. QED
    BY <1>6, <1>7 DEF RegistryInv

\* Who waits for a branch is told how it ended.
LEMMA BranchSettledKeeps ==
  ASSUME RegistryInv, NEW o \in Owners, BranchSettled(o)
  PROVE  RegistryInv'
  <1>1. PICK outcome \in {"spent", "free"} : branches' = [branches EXCEPT ![o] = [branches[o] EXCEPT !.whole = outcome]]
    BY RegistryKnown DEF BranchSettled, Joined
  <1>2. /\ branches \in [Owners -> Branch] /\ branches[o].whole = "pending"
        /\ cons' = [c \in Consumers |-> IF \E r \in cons[c].waits : reg.rec[r].owner = o
                                        THEN [cons[c] EXCEPT !.changed = TRUE] ELSE cons[c]]
        /\ reg' = reg /\ spent' = spent
    BY RegistryKnown DEF BranchSettled, Joined
  <1> DEFINE b2 == branches'
             ds == cons'
  <1>3. /\ b2 \in [Owners -> Branch] /\ \A p \in Owners : p # o => b2[p] = branches[p]
        /\ b2[o].whole = outcome /\ b2[o].children = branches[o].children /\ b2[o].partial = branches[o].partial
    <2>1. [branches[o] EXCEPT !.whole = outcome] \in Branch
      BY <1>2 DEF Branch
    <2>2. QED
      BY <1>1, <1>2, <2>1 DEF Branch
  <1>4. /\ ds \in [Consumers -> Acquisition]
        /\ \A c \in Consumers : /\ ds[c].pc = cons[c].pc /\ ds[c].at = cons[c].at /\ ds[c].claim = cons[c].claim
                                /\ ds[c].result = cons[c].result /\ ds[c].waits = cons[c].waits
                                /\ ds[c].considered = cons[c].considered
                                /\ cons[c].changed => ds[c].changed
                                /\ (\E r \in cons[c].waits : reg.rec[r].owner = o) => ds[c].changed
    <2>1. \A c \in Consumers : cons[c] \in Acquisition
      BY ConsumersKnown
    <2>2. \A v \in Acquisition : LET w == [v EXCEPT !.changed = TRUE] IN
             /\ w \in Acquisition /\ w.pc = v.pc /\ w.at = v.at /\ w.claim = v.claim /\ w.result = v.result
             /\ w.waits = v.waits /\ w.considered = v.considered /\ w.changed = TRUE
      BY DEF Acquisition
    <2>3. \A c \in Consumers : ds[c] = IF \E r \in cons[c].waits : reg.rec[r].owner = o THEN [cons[c] EXCEPT !.changed = TRUE] ELSE cons[c]
      BY <1>2
    <2>4. ds = [c \in Consumers |-> ds[c]]
      BY <1>2
    <2>5. \A c \in Consumers : ds[c] \in Acquisition
      BY <2>1, <2>2, <2>3
    <2> HIDE DEF ds
    <2>6. ds \in [Consumers -> Acquisition]
      BY <2>4, <2>5
    <2>7. ASSUME NEW c \in Consumers
          PROVE  /\ ds[c].pc = cons[c].pc /\ ds[c].at = cons[c].at /\ ds[c].claim = cons[c].claim
                 /\ ds[c].result = cons[c].result /\ ds[c].waits = cons[c].waits /\ ds[c].considered = cons[c].considered
                 /\ cons[c].changed => ds[c].changed
                 /\ (\E r \in cons[c].waits : reg.rec[r].owner = o) => ds[c].changed
      <3>1. CASE \E r \in cons[c].waits : reg.rec[r].owner = o
        <4> DEFINE v == cons[c]  w == [v EXCEPT !.changed = TRUE]
        <4>1. v \in Acquisition /\ ds[c] = w
          BY <2>1, <2>3, <3>1
        <4> HIDE DEF w
        <4>2. w.pc = v.pc /\ w.at = v.at /\ w.claim = v.claim /\ w.result = v.result
              /\ w.waits = v.waits /\ w.considered = v.considered /\ w.changed = TRUE
          BY <2>2, <4>1 DEF w
        <4>3. QED
          BY <4>1, <4>2
      <3>2. CASE ~\E r \in cons[c].waits : reg.rec[r].owner = o
        <4>1. ds[c] = cons[c]
          BY <2>3, <3>2
        <4>2. QED
          BY <3>2, <4>1
      <3>3. QED
        BY <3>1, <3>2
    <2>8. QED
      BY <2>6, <2>7
  <1> HIDE DEF b2, ds
  <1>5. HitsTrue(reg, ds) /\ Aimed(ds)
    BY <1>4, RegistryKnown DEF Joined, HitsTrue, HitTrue, Aimed
  <1>6. Alone(ds) /\ Reserver(reg, ds)
    BY <1>4, RegistryKnown DEF Joined, Alone, Reserver, Claims
  <1>7. BranchesTrue(b2, ds)
    <2>1. SUFFICES ASSUME NEW p \in Owners
                   PROVE  /\ b2[p].children = Cardinality(ClaimsOn(ds, p))
                          /\ b2[p].whole # "free" => b2[p].children = 0 /\ ~b2[p].partial
      BY DEF BranchesTrue
    <2>2. /\ branches[p].children = Cardinality(ClaimsOn(cons, p))
          /\ branches[p].whole # "free" => branches[p].children = 0 /\ ~branches[p].partial
      BY RegistryKnown DEF Joined, BranchesTrue
    <2>3. ClaimsOn(ds, p) = ClaimsOn(cons, p)
      BY <1>4 DEF ClaimsOn
    <2>4. QED
      BY <1>2, <1>3, <2>2, <2>3
  <1>8. WaitsTrue(reg, b2, ds)
    <2>1. SUFFICES ASSUME NEW c \in Consumers, ds[c].pc = "waiting"
                   PROVE  c \notin Owners /\ (~ds[c].changed /\ ~reg.woken => OutOfReach(reg, b2, ds[c]))
      BY DEF WaitsTrue
    <2>2. c \notin Owners /\ (~ds[c].changed => OutOfReach(reg, branches, cons[c]))
      BY <2>1, <1>4, RegistryKnown DEF Joined, WaitsTrue
    <2>3. ASSUME ~ds[c].changed PROVE OutOfReach(reg, b2, ds[c])
      <3>1. SUFFICES ASSUME NEW r \in Ids, reg.rec[r].status = "completed", r \notin ds[c].considered
                     PROVE  /\ reg.rec[r].oneShot /\ b2[reg.rec[r].owner].whole # "free"
                            /\ b2[reg.rec[r].owner].whole = "pending" => r \in ds[c].waits
        BY DEF OutOfReach
      <3>2. /\ reg.rec[r].oneShot /\ branches[reg.rec[r].owner].whole # "free"
            /\ branches[reg.rec[r].owner].whole = "pending" => r \in cons[c].waits
        BY <2>2, <2>3, <3>1, <1>4 DEF OutOfReach
      <3>3. reg.rec[r].owner \in Owners
        BY <3>1, RegistryKnown, RegistryHas DEF RecordTrue
      <3>4. reg.rec[r].owner # o
        BY <1>2, <1>4, <2>3, <3>2
      <3>5. b2[reg.rec[r].owner] = branches[reg.rec[r].owner]
        BY <1>3, <3>3, <3>4
      <3>6. QED
        BY <1>4, <3>2, <3>5
    <2>4. QED
      BY <2>2, <2>3
  <1>9. Joined(reg, b2, ds, spent)
    BY <1>3, <1>4, <1>5, <1>6, <1>7, <1>8, RegistryKnown DEF Joined
  <1>10. Joined(reg', branches', cons', spent')
    BY <1>2, <1>9 DEF b2, ds
  <1>11. Sums(reg') /\ reg'.woken = FALSE
    BY <1>2, RegistryKnown
  <1>12. QED
    BY <1>10, <1>11 DEF RegistryInv

LEMMA RegistryStep == RegistryInv /\ [RegistryNext]_registryVars => RegistryInv'
  <1> SUFFICES ASSUME RegistryInv, [RegistryNext]_registryVars PROVE RegistryInv'
    OBVIOUS
  <1>1. ASSUME NEW c \in Consumers,
               \/ Acquire(c) \/ Scan(c) \/ LookedUp(c) \/ HistoryLookedUp(c) \/ Declined(c) \/ Resume(c) \/ GiveUp(c)
               \/ Publish(c)
        PROVE  RegistryInv'
    BY <1>1, AcquireKeeps, ScanKeeps, LookedUpKeeps, HistoryLookedUpKeeps, DeclinedKeeps, ResumeKeeps, GiveUpKeeps, PublishKeeps
  <1>2. ASSUME NEW c \in Consumers, NEW consumed \in BOOLEAN, NEW forward \in BOOLEAN, Settle(c, consumed, forward) PROVE RegistryInv'
    BY <1>2, SettleKeeps
  <1>3. ASSUME NEW r \in Ids, ObserveRunning(r) \/ Bind(r) PROVE RegistryInv'
    BY <1>3, ObserveRunningKeeps, BindKeeps
  <1>4. ASSUME NEW o \in Owners, CommitBranch(o) \/ BranchSettled(o) PROVE RegistryInv'
    BY <1>4, CommitBranchKeeps, BranchSettledKeeps
  <1>5. CASE Observe \/ Configure \/ ClearCompleted \/ Dispose
    BY <1>5, ObserveKeeps, ConfigureKeeps, ClearCompletedKeeps, DisposeKeeps
  <1>6. CASE UNCHANGED registryVars
    <2>1. reg' = reg /\ branches' = branches /\ cons' = cons /\ spent' = spent
      BY <1>6 DEF registryVars
    <2>2. Joined(reg', branches', cons', spent') /\ Sums(reg') /\ reg'.woken = FALSE
      BY <2>1, RegistryKnown
    <2>3. QED
      BY <2>2 DEF RegistryInv
  <1>7. QED
    BY <1>1, <1>2, <1>3, <1>4, <1>5, <1>6 DEF RegistryNext

LEMMA RegistryPromises == RegistryInv => Accounted /\ NoLostWake /\ OneShotOnce
  <1> SUFFICES ASSUME RegistryInv PROVE Accounted /\ NoLostWake /\ OneShotOnce
    OBVIOUS
  <1>1. Accounted
    BY DEF RegistryInv, Accounted, Sums, Results, Bindings
  <1>2. NoLostWake
    <2>1. SUFFICES ASSUME NEW c \in Joiners, cons[c].pc = "waiting", ~cons[c].changed, NEW r \in Eligible(c, cons[c].considered)
                   PROVE  FALSE
      BY DEF NoLostWake
    <2>2. OutOfReach(reg, branches, cons[c])
      BY <2>1 DEF RegistryInv, Joined, WaitsTrue, Consumers
    <2>3. QED
      BY <2>1, <2>2 DEF OutOfReach, Eligible, Accepts
  <1>3. OneShotOnce
    <2>1. ASSUME NEW r \in Live(reg), reg.rec[r].status = "reserved"
          PROVE  Cardinality(Holders(r)) = 1 /\ reg.rec[r].result \notin spent
      <3>1. r \in Ids /\ reg.rec[r].result = r /\ r \notin spent
        BY <2>1 DEF Live, RegistryInv, Joined, Named, Past
      <3>2. PICK c \in Consumers : Claims(cons, c, r)
        BY <2>1, <3>1 DEF RegistryInv, Joined, Reserver
      <3>3. \A d \in Holders(r) : d = c
        <4>1. SUFFICES ASSUME NEW d \in Holders(r) PROVE d = c
          OBVIOUS
        <4>2. d \in Consumers /\ cons[d].pc = "hit" /\ cons[d].at = r /\ HitTrue(reg, cons[d])
          BY DEF Holders, RegistryInv, Joined, HitsTrue
        <4>3. Claims(cons, d, r)
          BY <2>1, <4>2 DEF HitTrue, Claims
        <4>4. QED
          BY <3>1, <3>2, <4>2, <4>3 DEF RegistryInv, Joined, Alone
      <3>4. Holders(r) = {c}
        BY <3>2, <3>3 DEF Holders, Claims
      <3>5. QED
        BY <3>1, <3>4, FS_Singleton
    <2>2. ASSUME NEW r \in Live(reg), reg.rec[r].status = "completed" PROVE reg.rec[r].result \notin spent
      BY <2>2 DEF Live, RegistryInv, Joined, Named, Past
    <2>3. ASSUME NEW o \in Owners, branches[o].whole # "free" PROVE branches[o].children = 0 /\ ~branches[o].partial
      BY <2>3 DEF RegistryInv, Joined, BranchesTrue
    <2>4. QED
      BY <2>1, <2>2, <2>3 DEF OneShotOnce
  <1>4. QED
    BY <1>1, <1>2, <1>3

\* The counters of process-handoff's registry are those of what it retains, no joiner waits while a
\* result it could take is there, and a one-shot result has one holder until it is spent.
THEOREM RegistryKept == RegistrySpec => [](Accounted /\ NoLostWake /\ OneShotOnce)
  <1>1. RegistryInit => RegistryInv
    BY RegistryStart
  <1>2. RegistryInv /\ [RegistryNext]_registryVars => RegistryInv'
    BY RegistryStep
  <1>3. RegistryInv => Accounted /\ NoLostWake /\ OneShotOnce
    BY RegistryPromises
  <1>4. QED
    BY <1>1, <1>2, <1>3, PTL DEF RegistrySpec
-----------------------------------------------------------------------------
Loans == [lent : BOOLEAN, closed : BOOLEAN, consumed : BOOLEAN, readers : Int, settled : BOOLEAN]

\* The loan by which a borrower's result left the owner.
Top(x) == Chain[x][1]
\* A claim that has a reader on that loan's receipt.
Topped(c) == c.reserved /\ c.left = 0 /\ (IF c.pc = "register" THEN c.i >= 2 ELSE c.i >= 1)
\* A claim that passed that receipt while the loan was open, and is not given up.
Passed(c) == c.reserved /\ (c.pc = "held" \/ c.consumed \/ (c.pc = "register" /\ c.i >= 2))
Spends(c) == c.reserved /\ c.consumed
\* How far a claim has walked its receipts, and how far back.
WalkTrue(x, c) ==
  /\ ~c.reserved \/ c.pc # "leave" => c.left = 0
  /\ c.reserved /\ c.pc = "register" => c.i \in 1..(Len(Chain[x]) + 1)
  /\ c.reserved /\ c.pc # "register" => c.i \in 0..Len(Chain[x]) /\ c.left \in 0..c.i /\ (x # Owner => c.i >= 1)

LoansType == receipt \in [Borrowers -> Loans] /\ result \in [Threads -> BOOLEAN]
Walks == \A x \in Threads : WalkTrue(x, claim[x])
\* A receipt counts the readers it has.
ReadersTrue ==
  /\ \A b \in Borrowers : Lender[b] = Owner => receipt[b].readers >= 0
  /\ \A x \in Borrowers : Topped(claim[x]) => receipt[Top(x)].readers >= 1
\* Who consumes the result marks the receipt before the reader leaves it.
Flagged ==
  /\ \A x \in Borrowers : Spends(claim[x]) /\ claim[x].pc = "leave" => receipt[Top(x)].consumed
  /\ \A x \in took : x # Owner => receipt[Top(x)].consumed \/ Spends(claim[x])
\* A loan that ended under a claim cost the owner its result.
LoanLost ==
  /\ \A b \in Borrowers : receipt[b].settled => receipt[b].closed
  /\ \A x \in Borrowers : (Passed(claim[x]) \/ x \in took) /\ receipt[Top(x)].closed => ~result[Owner]
LoanInv == LoansType /\ Walks /\ ReadersTrue /\ Flagged /\ LoanLost
-----------------------------------------------------------------------------
\* The receipts of the threads no further than n loans from the owner.
ChainTo(f, n, depth) ==
  f = [x \in Threads |-> IF depth[x] > n \/ x = Owner THEN <<>> ELSE Append(f[Lender[x]], x)]

LEMMA ChainsTo ==
  ASSUME NEW depth \in [Threads -> Nat], \A b \in Borrowers : depth[Lender[b]] < depth[b], NEW n \in Nat
  PROVE  \E f : ChainTo(f, n, depth)
  <1> DEFINE Made(k) == \E f : f = [x \in Threads |-> IF depth[x] > k \/ x = Owner THEN <<>> ELSE Append(f[Lender[x]], x)]
             T == {k \in Nat : ~Made(k)}
  <1>0. \A x \in Threads : depth[x] \in Nat /\ (x # Owner => x \in Borrowers /\ Lender[x] \in Threads /\ depth[Lender[x]] \in Nat /\ depth[Lender[x]] < depth[x])
    BY AuthoritySetting DEF Threads
  <1>1. Made(0)
    <2> DEFINE f == [x \in Threads |-> <<>>]
    <2>1. \A x \in Threads : depth[x] > 0 \/ x = Owner
      BY <1>0
    <2>2. f = [x \in Threads |-> IF depth[x] > 0 \/ x = Owner THEN <<>> ELSE Append(f[Lender[x]], x)]
      BY <2>1
    <2>3. QED
      BY <2>2
  <1>2. ASSUME NEW k \in Nat, Made(k) PROVE Made(k + 1)
    <2>1. PICK f : f = [x \in Threads |-> IF depth[x] > k \/ x = Owner THEN <<>> ELSE Append(f[Lender[x]], x)]
      BY <1>2
    <2> DEFINE h == [x \in Threads |-> IF depth[x] = k + 1 /\ x # Owner THEN Append(f[Lender[x]], x) ELSE f[x]]
    <2>2. \A x \in Threads : f[x] = IF depth[x] > k \/ x = Owner THEN <<>> ELSE Append(f[Lender[x]], x)
      BY <2>1, Zenon
    <2>3. \A x \in Threads : h[x] = IF depth[x] > k + 1 \/ x = Owner THEN <<>> ELSE Append(h[Lender[x]], x)
      <3> SUFFICES ASSUME NEW x \in Threads PROVE h[x] = IF depth[x] > k + 1 \/ x = Owner THEN <<>> ELSE Append(h[Lender[x]], x)
        OBVIOUS
      <3>1. CASE x = Owner
        <4>1. h[x] = f[x] /\ f[x] = <<>>
          BY <3>1, <2>2
        <4>2. QED
          BY <3>1, <4>1
      <3>2. CASE x # Owner /\ depth[x] > k + 1
        <4>1. h[x] = f[x] /\ depth[x] > k
          BY <3>2, <1>0
        <4>2. f[x] = <<>>
          BY <4>1, <2>2
        <4>3. QED
          BY <3>2, <4>1, <4>2
      <3>3. CASE x # Owner /\ ~(depth[x] > k + 1)
        <4>1. Lender[x] \in Threads /\ depth[Lender[x]] # k + 1 /\ h[Lender[x]] = f[Lender[x]]
          BY <3>3, <1>0
        <4>2. h[x] = Append(f[Lender[x]], x)
          <5>1. CASE depth[x] = k + 1
            BY <3>3, <5>1
          <5>2. CASE depth[x] # k + 1
            <6>1. h[x] = f[x] /\ ~(depth[x] > k)
              BY <3>3, <5>2, <1>0
            <6>2. QED
              BY <3>3, <6>1, <2>2
          <5>3. QED
            BY <5>1, <5>2
        <4> HIDE DEF h
        <4>3. QED
          BY <3>3, <4>1, <4>2
      <3>4. QED
        BY <3>1, <3>2, <3>3
    <2>4. h = [x \in Threads |-> h[x]]
      OBVIOUS
    <2> HIDE DEF h
    <2>5. h = [x \in Threads |-> IF depth[x] > k + 1 \/ x = Owner THEN <<>> ELSE Append(h[Lender[x]], x)]
      BY <2>3, <2>4
    <2>6. QED
      BY <2>5
  <1> HIDE DEF Made
  <1>3. T = {}
    <2>1. SUFFICES ASSUME T # {} PROVE FALSE
      OBVIOUS
    <2>2. PICK k \in T : \A y \in T : k <= y
      <3>1. T \subseteq Nat
        OBVIOUS
      <3> HIDE DEF T
      <3>2. QED
        BY <2>1, <3>1, LeastNat
    <2>3. k # 0 /\ k - 1 \in Nat /\ k - 1 \notin T
      BY <1>1, <2>2
    <2>4. Made((k - 1) + 1)
      BY <2>3, <1>2
    <2>5. QED
      BY <2>2, <2>4
  <1>4. Made(n)
    BY <1>3
  <1>5. QED
    BY <1>4, Zenon DEF Made, ChainTo

\* A chain ends with the borrower and starts with a loan of the owner's.
ChainTrue(s, x) ==
  /\ s \in Seq(Borrowers)
  /\ x = Owner <=> s = <<>>
  /\ s # <<>> => Lender[s[1]] = Owner
  /\ \A p \in 2..Len(s) : Lender[s[p]] # Owner

LEMMA Chained == \A x \in Threads : ChainTrue(Chain[x], x)
  <1>1. PICK depth \in [Threads -> 0..Cardinality(Borrowers)] : \A b \in Borrowers : depth[Lender[b]] < depth[b]
    BY LendingSetting
  <1> DEFINE n == Cardinality(Borrowers)
  <1>2. n \in Nat
    BY AuthoritySetting, FS_CardinalityType
  <1>3. \A x \in Threads : depth[x] \in Nat /\ depth[x] <= n
    BY <1>1, <1>2
  <1> HIDE DEF n
  <1>4. depth \in [Threads -> Nat]
    BY <1>1, <1>3
  <1>5. PICK f : ChainTo(f, n, depth)
    BY <1>1, <1>2, <1>4, ChainsTo
  <1>6. \E g : g = [x \in Threads |-> IF x = Owner THEN <<>> ELSE Append(g[Lender[x]], x)]
    <2>1. f = [x \in Threads |-> IF depth[x] > n \/ x = Owner THEN <<>> ELSE Append(f[Lender[x]], x)]
      BY <1>5, Zenon DEF ChainTo
    <2>2. \A x \in Threads : f[x] = IF depth[x] > n \/ x = Owner THEN <<>> ELSE Append(f[Lender[x]], x)
      BY <2>1, Zenon
    <2>3. \A x \in Threads : f[x] = IF x = Owner THEN <<>> ELSE Append(f[Lender[x]], x)
      <3>1. SUFFICES ASSUME NEW x \in Threads PROVE f[x] = IF x = Owner THEN <<>> ELSE Append(f[Lender[x]], x)
        OBVIOUS
      <3>2. ~(depth[x] > n)
        BY <1>2, <1>3
      <3>3. QED
        BY <2>2, <3>2, Zenon
    <2>4. f = [x \in Threads |-> f[x]]
      BY <2>1
    <2>5. f = [x \in Threads |-> IF x = Owner THEN <<>> ELSE Append(f[Lender[x]], x)]
      BY <2>3, <2>4
    <2>6. QED
      BY <2>5, Zenon
  <1>7. Chain = [x \in Threads |-> IF x = Owner THEN <<>> ELSE Append(Chain[Lender[x]], x)]
    BY <1>6, Zenon DEF Chain
  <1>8. \A x \in Threads : Chain[x] = IF x = Owner THEN <<>> ELSE Append(Chain[Lender[x]], x)
    BY <1>7, Zenon
  <1> DEFINE T == {k \in Nat : \E x \in Threads : depth[x] = k /\ ~ChainTrue(Chain[x], x)}
  <1>9. ASSUME NEW x \in Threads, x # Owner => ChainTrue(Chain[Lender[x]], Lender[x]) PROVE ChainTrue(Chain[x], x)
    <2>1. CASE x = Owner
      <3>1. Chain[x] = <<>>
        BY <2>1, <1>8
      <3> HIDE DEF Chain
      <3>2. QED
        BY <2>1, <3>1 DEF ChainTrue
    <2>2. CASE x # Owner
      <3> DEFINE s == Chain[Lender[x]]
      <3>1. Chain[x] = Append(s, x) /\ x \in Borrowers
        BY <2>2, <1>8 DEF Threads
      <3>2. ChainTrue(s, Lender[x])
        BY <2>2, <1>9
      <3> HIDE DEF s, Chain
      <3>3. s \in Seq(Borrowers)
        BY <3>2 DEF ChainTrue
      <3>4. /\ Append(s, x) \in Seq(Borrowers) /\ Append(s, x) # <<>> /\ Len(Append(s, x)) = Len(s) + 1 /\ Len(s) \in Nat
            /\ Append(s, x)[Len(s) + 1] = x /\ \A p \in 1..Len(s) : Append(s, x)[p] = s[p]
        BY <3>1, <3>3
      <3>5. CASE s = <<>>
        <4>1. Len(s) = 0 /\ Lender[x] = Owner
          BY <3>2, <3>5 DEF ChainTrue
        <4>2. Append(s, x)[1] = x /\ Len(Append(s, x)) = 1
          BY <3>4, <4>1
        <4>3. QED
          BY <2>2, <3>1, <3>4, <4>1, <4>2 DEF ChainTrue
      <3>6. CASE s # <<>>
        <4>1. Len(s) >= 1 /\ Lender[x] # Owner
          BY <3>2, <3>3, <3>6 DEF ChainTrue
        <4>2. Append(s, x)[1] = s[1]
          BY <3>4, <4>1
        <4>3. \A p \in 2..Len(Append(s, x)) : Lender[Append(s, x)[p]] # Owner
          <5>1. SUFFICES ASSUME NEW p \in 2..Len(Append(s, x)) PROVE Lender[Append(s, x)[p]] # Owner
            OBVIOUS
          <5>2. CASE p = Len(s) + 1
            BY <3>4, <4>1, <5>2
          <5>3. CASE p # Len(s) + 1
            <6>1. p \in 2..Len(s) /\ p \in 1..Len(s)
              BY <3>4, <5>3
            <6>2. QED
              BY <3>2, <3>4, <6>1 DEF ChainTrue
          <5>4. QED
            BY <5>2, <5>3
        <4>4. QED
          BY <2>2, <3>1, <3>2, <3>4, <3>6, <4>2, <4>3 DEF ChainTrue
      <3>7. QED
        BY <3>5, <3>6
    <2>3. QED
      BY <2>1, <2>2
  <1> HIDE DEF Chain
  <1>10. T = {}
    <2>1. SUFFICES ASSUME T # {} PROVE FALSE
      OBVIOUS
    <2>2. PICK k \in T : \A y \in T : k <= y
      <3>1. T \subseteq Nat
        OBVIOUS
      <3> HIDE DEF T
      <3>2. QED
        BY <2>1, <3>1, LeastNat
    <2>3. PICK x \in Threads : depth[x] = k /\ ~ChainTrue(Chain[x], x)
      BY <2>2
    <2>4. x # Owner => Lender[x] \in Threads /\ depth[Lender[x]] \in Nat /\ depth[Lender[x]] < k
      BY <1>1, <1>3, <2>3, AuthoritySetting DEF Threads
    <2>5. x # Owner => ChainTrue(Chain[Lender[x]], Lender[x])
      BY <2>2, <2>4
    <2>6. QED
      BY <2>3, <2>5, <1>9
  <1>11. QED
    BY <1>3, <1>10

\* The loan a borrower's result left the owner by.
LEMMA TopTrue ==
  ASSUME NEW x \in Borrowers
  PROVE  /\ Top(x) \in Borrowers /\ Lender[Top(x)] = Owner /\ Len(Chain[x]) \in Nat /\ Len(Chain[x]) >= 1 /\ x # Owner
         /\ \A p \in 1..Len(Chain[x]) : Chain[x][p] \in Borrowers /\ (p # 1 => Lender[Chain[x][p]] # Owner)
  <1>1. x \in Threads /\ x # Owner
    BY LendingSetting DEF Threads
  <1> DEFINE s == Chain[x]
  <1>2. ChainTrue(s, x)
    BY <1>1, Chained
  <1> HIDE DEF s
  <1>3. s \in Seq(Borrowers) /\ s # <<>>
    BY <1>1, <1>2 DEF ChainTrue
  <1>4. Len(s) \in Nat /\ Len(s) >= 1 /\ \A p \in 1..Len(s) : s[p] \in Borrowers
    BY <1>3
  <1>5. QED
    BY <1>1, <1>2, <1>3, <1>4 DEF ChainTrue, Top, s

LEMMA OwnerChain == Chain[Owner] = <<>> /\ Len(Chain[Owner]) = 0
  <1>1. Owner \in Threads
    BY DEF Threads
  <1>2. Chain[Owner] = <<>>
    BY <1>1, Chained DEF ChainTrue
  <1>3. QED
    BY <1>2
-----------------------------------------------------------------------------
LEMMA LoanStart == AuthorityInit => LoanInv
  <1> SUFFICES ASSUME AuthorityInit PROVE LoanInv
    OBVIOUS
  <1>1. /\ \A x \in Threads : claim[x].reserved = FALSE /\ claim[x].left = 0
        /\ \A b \in Borrowers : receipt[b].closed = FALSE /\ receipt[b].settled = FALSE /\ receipt[b].readers = 0
        /\ took = {}
    BY DEF AuthorityInit, NoClaim
  <1>2. LoansType
    BY DEF AuthorityInit, LoansType, Loans
  <1>3. \A x \in Borrowers : x \in Threads
    BY DEF Threads
  <1>4. Walks /\ ReadersTrue /\ Flagged
    BY <1>1, <1>3 DEF Walks, WalkTrue, ReadersTrue, Topped, Flagged, Spends
  <1>5. LoanLost
    BY <1>1, <1>3 DEF LoanLost, Passed
  <1>6. QED
    BY <1>2, <1>4, <1>5 DEF LoanInv

\* One claim moves, with what it does to the receipts.
LEMMA LoanMoves ==
  ASSUME LoanInv, NEW x \in Threads, NEW r,
         claim'[x] = r, \A y \in Threads : y # x => claim'[y] = claim[y],
         LoansType', result'[Owner] => result[Owner],
         WalkTrue(x, r),
         \A b \in Borrowers : /\ receipt'[b].closed = receipt[b].closed /\ receipt'[b].settled = receipt[b].settled
                              /\ receipt[b].consumed => receipt'[b].consumed
                              /\ Lender[b] = Owner => receipt'[b].readers >= 0,
         \A y \in Borrowers : y # x /\ Topped(claim[y]) => receipt'[Top(y)].readers >= 1,
         x \in Borrowers /\ Topped(r) => receipt'[Top(x)].readers >= 1,
         x \in Borrowers /\ Passed(r) => Passed(claim[x]) \/ ~receipt[Top(x)].closed,
         x \in Borrowers /\ Spends(r) /\ r.pc = "leave" => receipt'[Top(x)].consumed,
         \A y \in took' : y \in took \/ (y = x /\ Passed(claim[x])),
         x # Owner /\ x \in took' => receipt'[Top(x)].consumed \/ Spends(r),
         took \subseteq Threads
  PROVE  LoanInv'
  <1>1. \A y \in Borrowers : y \in Threads /\ Top(y) \in Borrowers /\ Lender[Top(y)] = Owner /\ y # Owner
    BY TopTrue DEF Threads
  <1>2. Walks'
    BY DEF LoanInv, Walks, WalkTrue
  <1>3. ReadersTrue'
    BY <1>1 DEF LoanInv, ReadersTrue, Top
  <1>4. Flagged'
    <2>1. \A y \in Borrowers : Spends(claim'[y]) /\ claim'[y].pc = "leave" => receipt'[Top(y)].consumed
      BY <1>1 DEF LoanInv, Flagged
    <2>2. \A y \in took' : y # Owner => receipt'[Top(y)].consumed \/ Spends(claim'[y])
      <3>1. SUFFICES ASSUME NEW y \in took', y # Owner PROVE receipt'[Top(y)].consumed \/ Spends(claim'[y])
        OBVIOUS
      <3>2. CASE y = x
        BY <3>1, <3>2
      <3>3. CASE y # x
        <4>1. y \in took /\ y \in Threads /\ y \in Borrowers
          BY <3>1, <3>3 DEF Threads
        <4>2. QED
          BY <1>1, <3>1, <3>3, <4>1 DEF LoanInv, Flagged
      <3>4. QED
        BY <3>2, <3>3
    <2>3. QED
      BY <2>1, <2>2 DEF Flagged, Top
  <1>5. LoanLost'
    <2>1. \A b \in Borrowers : receipt'[b].settled => receipt'[b].closed
      BY DEF LoanInv, LoanLost
    <2>2. \A y \in Borrowers : (Passed(claim'[y]) \/ y \in took') /\ receipt'[Top(y)].closed => ~result'[Owner]
      <3>1. SUFFICES ASSUME NEW y \in Borrowers, Passed(claim'[y]) \/ y \in took', receipt'[Top(y)].closed PROVE ~result'[Owner]
        OBVIOUS
      <3>2. receipt[Top(y)].closed
        BY <1>1, <3>1
      <3>3. Passed(claim[y]) \/ y \in took
        BY <1>1, <3>1, <3>2
      <3>4. QED
        BY <3>2, <3>3 DEF LoanInv, LoanLost
    <2>3. QED
      BY <2>1, <2>2 DEF LoanLost, Top
  <1>6. QED
    BY <1>2, <1>3, <1>4, <1>5 DEF LoanInv

\* What a claim's record becomes when a field of it moves.
LEMMA ClaimFields ==
  ASSUME NEW c \in ClaimRecords
  PROVE  /\ \A p \in States : LET r == [c EXCEPT !.pc = p] IN
              r.pc = p /\ r.i = c.i /\ r.left = c.left /\ r.reserved = c.reserved /\ r.consumed = c.consumed
         /\ \A n \in Int : LET r == [c EXCEPT !.i = n] IN
              r.pc = c.pc /\ r.i = n /\ r.left = c.left /\ r.reserved = c.reserved /\ r.consumed = c.consumed
         /\ \A n \in Int : LET r == [c EXCEPT !.left = n] IN
              r.pc = c.pc /\ r.i = c.i /\ r.left = n /\ r.reserved = c.reserved /\ r.consumed = c.consumed
         /\ \A n \in Int : LET r == [c EXCEPT !.pc = "held", !.i = n] IN
              r.pc = "held" /\ r.i = n /\ r.left = c.left /\ r.reserved = c.reserved /\ r.consumed = c.consumed
         /\ \A p \in States, b \in BOOLEAN : LET r == [c EXCEPT !.pc = p, !.consumed = b] IN
              r.pc = p /\ r.i = c.i /\ r.left = c.left /\ r.reserved = c.reserved /\ r.consumed = b
         /\ c.i \in Int /\ c.left \in Int /\ c.pc \in States
  BY DEF ClaimRecords

\* A receipt of which one field moves.
LEMMA ReceiptMoves ==
  ASSUME LoansType, NEW b \in Borrowers, NEW n \in Int
  PROVE  LET f == [receipt EXCEPT ![b].readers = n] IN
         /\ f \in [Borrowers -> Loans] /\ f[b].readers = n
         /\ \A a \in Borrowers : /\ f[a].closed = receipt[a].closed /\ f[a].settled = receipt[a].settled
                                 /\ f[a].consumed = receipt[a].consumed
                                 /\ a # b => f[a].readers = receipt[a].readers
  BY DEF LoansType, Loans

LEMMA ReceiptMarked ==
  ASSUME LoansType, NEW b
  PROVE  LET f == [receipt EXCEPT ![b].consumed = TRUE] IN
         /\ f \in [Borrowers -> Loans]
         /\ \A a \in Borrowers : /\ f[a].closed = receipt[a].closed /\ f[a].settled = receipt[a].settled
                                 /\ f[a].readers = receipt[a].readers
                                 /\ receipt[a].consumed => f[a].consumed
  BY DEF LoansType, Loans

\* The receipts are as they were, or the reader of one moves.
LEMMA LoanKnown ==
  ASSUME LoanInv, Inv
  PROVE  /\ LoansType /\ AuthorityType /\ took \subseteq Threads
         /\ \A b \in Borrowers : receipt[b].readers \in Int /\ (Lender[b] = Owner => receipt[b].readers >= 0)
         /\ \A x \in Borrowers : x \in Threads /\ (Topped(claim[x]) => receipt[Top(x)].readers >= 1)
         /\ \A x \in Threads : claim[x] \in ClaimRecords /\ WalkTrue(x, claim[x])
         /\ \A x \in Threads : x # Owner => x \in Borrowers
  BY DEF LoanInv, Inv, LoansType, Loans, AuthorityType, ReadersTrue, Walks, Threads

\* A step of a claim that leaves the receipts alone.
LEMMA ClaimTurns ==
  ASSUME LoanInv, Inv, Inv', NEW x \in Threads, \A y \in Threads : y # x => claim'[y] = claim[y],
         UNCHANGED <<receipt, result, took>>, WalkTrue(x, claim'[x]),
         x \in Borrowers /\ Topped(claim'[x]) => Topped(claim[x]),
         x \in Borrowers /\ Passed(claim'[x]) => Passed(claim[x]),
         x \in Borrowers /\ Spends(claim'[x]) /\ claim'[x].pc = "leave" => receipt[Top(x)].consumed,
         x \in Borrowers /\ Spends(claim[x]) => Spends(claim'[x])
  PROVE  LoanInv'
  <1>1. LoansType'
    BY LoanKnown DEF LoansType
  <1>2. receipt' = receipt /\ result' = result /\ took' = took
    OBVIOUS
  <1>3. x # Owner /\ x \in took => receipt[Top(x)].consumed \/ Spends(claim'[x])
    BY LoanKnown DEF LoanInv, Flagged
  <1>4. QED
    BY <1>1, <1>2, <1>3, LoanKnown, LoanMoves

LEMMA LoadLends ==
  ASSUME LoanInv, Inv, Inv', NEW x \in Threads, Load(x)
  PROVE  LoanInv'
  <1> DEFINE shut == (\E b \in ToSet(Chain[x]) : receipt[b].closed) \/ authority.whole
             r1 == [NoClaim EXCEPT !.tries = MaxClaims]
             r2 == [claim[x] EXCEPT !.pc = "child", !.seen = authority,
                              !.tries = IF At(x, "idle") THEN claim[x].tries + 1 ELSE claim[x].tries]
  <1>1. claim' = [claim EXCEPT ![x] = IF shut THEN r1 ELSE r2] /\ UNCHANGED <<receipt, result, took>> /\ claim[x].pc \in {"idle", "again"}
    BY DEF Load, At
  <1>2. claim[x] \in ClaimRecords /\ claim \in [Threads -> ClaimRecords] /\ claim[x].reserved = FALSE /\ claim[x].left = 0
    BY <1>1, LoanKnown DEF Inv, ClaimsTrue, AuthorityType, ClaimRecords, WalkTrue
  <1>3. r1.reserved = FALSE /\ r1.left = 0 /\ r2.reserved = FALSE /\ r2.left = 0
    BY <1>2 DEF NoClaim, ClaimRecords
  <1> HIDE DEF shut, r1, r2
  <1>4. claim'[x].reserved = FALSE /\ claim'[x].left = 0 /\ \A y \in Threads : y # x => claim'[y] = claim[y]
    BY <1>1, <1>2, <1>3
  <1>5. QED
    BY <1>1, <1>2, <1>4, ClaimTurns DEF WalkTrue, Topped, Passed, Spends

LEMMA ClaimChildLends ==
  ASSUME LoanInv, Inv, Inv', NEW x \in Threads, ClaimChild(x)
  PROVE  LoanInv'
  <1>1. /\ UNCHANGED <<receipt, result, took>> /\ claim[x].pc = "child"
        /\ \E p \in {"reserve", "again"} : claim' = [claim EXCEPT ![x] = [claim[x] EXCEPT !.pc = p]]
    BY LoanKnown DEF ClaimChild, At, AuthorityType
  <1>2. claim[x] \in ClaimRecords /\ claim \in [Threads -> ClaimRecords] /\ claim[x].reserved = FALSE /\ claim[x].left = 0
    BY <1>1, LoanKnown DEF Inv, ClaimsTrue, AuthorityType, ClaimRecords, WalkTrue
  <1>3. claim'[x].reserved = FALSE /\ claim'[x].left = 0 /\ \A y \in Threads : y # x => claim'[y] = claim[y]
    BY <1>1, <1>2, ClaimFields DEF States
  <1>4. QED
    BY <1>1, <1>2, <1>3, ClaimTurns DEF WalkTrue, Topped, Passed, Spends

LEMMA ReserveLends ==
  ASSUME LoanInv, Inv, Inv', NEW x \in Threads, Reserve(x)
  PROVE  LoanInv'
  <1> DEFINE r1 == [claim[x] EXCEPT !.pc = "register", !.i = 1, !.reserved = TRUE]
             r2 == [claim[x] EXCEPT !.pc = "return"]
  <1>1. /\ UNCHANGED <<receipt, result, took>> /\ claim[x].pc = "reserve"
        /\ claim' = [claim EXCEPT ![x] = r1] \/ claim' = [claim EXCEPT ![x] = r2]
    BY LoanKnown DEF Reserve, At, AuthorityType
  <1>2. claim[x] \in ClaimRecords /\ claim \in [Threads -> ClaimRecords] /\ claim[x].reserved = FALSE /\ claim[x].left = 0
        /\ claim[x].consumed = FALSE
    BY <1>1, LoanKnown DEF Inv, ClaimsTrue, AuthorityType, ClaimRecords, WalkTrue
  <1>3. /\ r1.pc = "register" /\ r1.i = 1 /\ r1.left = 0 /\ r1.consumed = FALSE
        /\ r2.reserved = FALSE /\ r2.left = 0
    BY <1>2 DEF ClaimRecords
  <1>4. Len(Chain[x]) \in Nat
    BY LoanKnown, TopTrue, OwnerChain
  <1> HIDE DEF r1, r2
  <1>5. WalkTrue(x, r1) /\ WalkTrue(x, r2)
    BY <1>3, <1>4 DEF WalkTrue
  <1>6. ~Topped(r1) /\ ~Topped(r2) /\ ~Passed(r1) /\ ~Passed(r2) /\ ~Spends(r1) /\ ~Spends(r2) /\ ~Spends(claim[x])
    BY <1>2, <1>3 DEF Topped, Passed, Spends
  <1>7. claim'[x] \in {r1, r2} /\ \A y \in Threads : y # x => claim'[y] = claim[y]
    BY <1>1, <1>2
  <1>8. QED
    BY <1>1, <1>5, <1>6, <1>7, ClaimTurns

\* Who moves with the reservation moves alone.
LEMMA AloneThere ==
  ASSUME Inv, NEW x \in Threads, claim[x].reserved, NEW y \in Threads, y # x
  PROVE  ~Topped(claim[y])
  BY DEF Inv, ReservedOnce, Topped

LEMMA RegisterLends ==
  ASSUME LoanInv, Inv, Inv', NEW x \in Threads, Register(x)
  PROVE  LoanInv'
  <1> DEFINE c == claim[x]
             b == Chain[x][c.i]
  <1>1. /\ c.pc = "register" /\ c \in ClaimRecords /\ claim \in [Threads -> ClaimRecords]
        /\ c.reserved = TRUE /\ c.consumed = FALSE /\ c.left = 0
        /\ Len(Chain[x]) \in Nat /\ c.i \in 1..(Len(Chain[x]) + 1)
        /\ result' = result /\ took' = took
    <2>1. c.pc = "register" /\ c \in ClaimRecords /\ claim \in [Threads -> ClaimRecords] /\ WalkTrue(x, c)
      BY LoanKnown DEF Register, At, AuthorityType
    <2>2. c.reserved = TRUE /\ c.consumed = FALSE
      BY <2>1 DEF Inv, ClaimsTrue, ClaimRecords
    <2>3. Len(Chain[x]) \in Nat
      BY LoanKnown, TopTrue, OwnerChain
    <2>4. QED
      BY <2>1, <2>2, <2>3 DEF WalkTrue, Register
  <1>2. CASE c.i > Len(Chain[x])
    <2>1. claim' = [claim EXCEPT ![x] = [c EXCEPT !.pc = "held", !.i = c.i - 1]] /\ receipt' = receipt
      BY <1>1, <1>2 DEF Register
    <2>2. /\ claim'[x].pc = "held" /\ claim'[x].i = c.i - 1 /\ claim'[x].left = 0 /\ claim'[x].consumed = FALSE
          /\ claim'[x].reserved = TRUE
          /\ \A y \in Threads : y # x => claim'[y] = claim[y]
      BY <1>1, <2>1, ClaimFields
    <2>3. x \in Borrowers => Len(Chain[x]) >= 1
      BY TopTrue
    <2>4. c.i = Len(Chain[x]) + 1 /\ (x # Owner => x \in Borrowers)
      BY <1>1, <1>2, LoanKnown
    <2> HIDE DEF c
    <2>5. WalkTrue(x, claim'[x]) /\ ~Spends(claim'[x])
      BY <1>1, <2>2, <2>3, <2>4 DEF WalkTrue, Spends
    <2>6. x \in Borrowers => Topped(c) /\ Passed(c)
      BY <1>1, <2>3, <2>4 DEF Topped, Passed
    <2>7. ~Spends(c)
      BY <1>1 DEF Spends
    <2>8. QED
      BY <1>1, <2>1, <2>2, <2>5, <2>6, <2>7, ClaimTurns DEF c
  <1>3. CASE ~(c.i > Len(Chain[x]))
    <2> DEFINE n == receipt[b].readers + 1
    <2>1. /\ receipt' = [receipt EXCEPT ![b].readers = n]
          /\ claim' = [claim EXCEPT ![x] = IF receipt[b].closed THEN [c EXCEPT !.pc = "return"] ELSE [c EXCEPT !.i = c.i + 1]]
      BY <1>1, <1>3 DEF Register
    <2>2. x \in Borrowers /\ c.i \in 1..Len(Chain[x])
      <3>1. x # Owner
        BY <1>1, <1>3, OwnerChain
      <3>2. QED
        BY <1>1, <1>3, <3>1, LoanKnown
    <2>3. b \in Borrowers /\ (c.i # 1 => Lender[b] # Owner) /\ (c.i = 1 => b = Top(x)) /\ Lender[Top(x)] = Owner /\ Top(x) \in Borrowers
      BY <2>2, TopTrue DEF Top
    <2>4. receipt[b].readers \in Int /\ n \in Int
      BY <2>3, LoanKnown
    <2> DEFINE f == [receipt EXCEPT ![b].readers = n]
    <2>5. /\ f \in [Borrowers -> Loans] /\ f[b].readers = n
          /\ \A a \in Borrowers : /\ f[a].closed = receipt[a].closed /\ f[a].settled = receipt[a].settled
                                  /\ f[a].consumed = receipt[a].consumed
                                  /\ a # b => f[a].readers = receipt[a].readers
      <3> HIDE DEF n, b
      <3>1. QED
        BY <2>3, <2>4, LoanKnown, ReceiptMoves
    <2>6. receipt' = f
      BY <2>1
    <2> HIDE DEF f
    <2>7. \A a \in Borrowers : Lender[a] = Owner => f[a].readers >= 0
      BY <2>3, <2>4, <2>5, LoanKnown
    <2>8. f[Top(x)].readers >= 1
      <3>1. CASE c.i = 1
        <4>1. b = Top(x) /\ n >= 1
          BY <2>3, <2>4, <3>1, LoanKnown
        <4>2. f[b].readers >= 1
          BY <2>5, <4>1
        <4>3. f[Top(x)].readers >= 1
          BY <4>1, <4>2
        <4>4. QED
          BY <4>3
      <3>2. CASE c.i # 1
        <4>1. Topped(c)
          BY <1>1, <2>2, <3>2 DEF Topped
        <4>2. receipt[Top(x)].readers >= 1 /\ Top(x) # b
          BY <2>2, <2>3, <3>2, <4>1, LoanKnown
        <4>3. f[Top(x)].readers = receipt[Top(x)].readers
          BY <2>3, <2>5, <4>2
        <4>4. f[Top(x)].readers >= 1
          BY <4>2, <4>3
        <4>5. QED
          BY <4>4
      <3>3. QED
        BY <3>1, <3>2
    <2>9. \A y \in Borrowers : y # x => ~Topped(claim[y])
      BY <1>1, AloneThere, LoanKnown
    <2>10. /\ \A y \in Threads : y # x => claim'[y] = claim[y]
           /\ claim'[x] = IF receipt[b].closed THEN [c EXCEPT !.pc = "return"] ELSE [c EXCEPT !.i = c.i + 1]
      BY <1>1, <2>1
    <2>11. LoansType'
      BY <1>1, <2>5, <2>6, LoanKnown DEF LoansType
    <2>12. /\ claim'[x].left = 0 /\ claim'[x].reserved = TRUE /\ claim'[x].consumed = FALSE
           /\ IF receipt[b].closed THEN claim'[x].pc = "return" /\ claim'[x].i = c.i
              ELSE claim'[x].pc = "register" /\ claim'[x].i = c.i + 1
      <3>1. CASE receipt[b].closed
        BY <3>1, <1>1, <2>10, ClaimFields DEF States
      <3>2. CASE ~receipt[b].closed
        BY <3>2, <1>1, <2>10, ClaimFields
      <3>3. QED
        BY <3>1, <3>2
    <2>13. WalkTrue(x, claim'[x]) /\ ~Spends(claim'[x])
      BY <1>1, <2>2, <2>12 DEF WalkTrue, Spends
    <2>14. Topped(claim'[x]) => f[Top(x)].readers >= 1
      BY <2>8
    <2>15. Passed(claim'[x]) => Passed(c) \/ ~receipt[Top(x)].closed
      <3>1. CASE receipt[b].closed
        BY <3>1, <2>12 DEF Passed
      <3>2. CASE ~receipt[b].closed /\ c.i = 1
        BY <3>2, <2>3
      <3>3. CASE c.i # 1
        BY <3>3, <1>1, <2>2 DEF Passed
      <3>4. QED
        BY <3>1, <3>2, <3>3
    <2>16. x \in took => f[Top(x)].consumed
      <3>1. ~Spends(c)
        BY <1>1 DEF Spends
      <3>2. x \in took => receipt[Top(x)].consumed
        BY <2>2, <3>1, LoanKnown, TopTrue DEF LoanInv, Flagged
      <3>3. QED
        BY <2>3, <2>5, <3>2
    <2> HIDE DEF b, c, n
    <2>17. QED
      BY <1>1, <2>5, <2>6, <2>7, <2>9, <2>10, <2>11, <2>13, <2>14, <2>15, <2>16, LoanKnown, LoanMoves DEF c
  <1>4. QED
    BY <1>2, <1>3
-----------------------------------------------------------------------------
\* A claim with the reservation: where it stands.
LEMMA ReservedKnown ==
  ASSUME LoanInv, Inv, NEW x \in Threads, claim[x].pc \in {"held", "partial", "return", "flag", "leave"}
  PROVE  /\ claim[x] \in ClaimRecords /\ claim \in [Threads -> ClaimRecords] /\ Len(Chain[x]) \in Nat
         /\ claim[x].reserved \in BOOLEAN /\ claim[x].consumed \in BOOLEAN
         /\ claim[x].pc \in {"held", "partial", "flag", "leave"} => claim[x].reserved
         /\ claim[x].pc = "held" => ~claim[x].consumed
         /\ claim[x].pc = "partial" => claim[x].consumed
         /\ claim[x].consumed => claim[x].reserved
         /\ claim[x].pc # "leave" => claim[x].left = 0
         /\ claim[x].reserved => /\ claim[x].i \in 0..Len(Chain[x]) /\ claim[x].left \in 0..claim[x].i
                                 /\ x # Owner => claim[x].i >= 1
  <1>1. claim[x] \in ClaimRecords /\ claim \in [Threads -> ClaimRecords] /\ WalkTrue(x, claim[x]) /\ Len(Chain[x]) \in Nat
    BY LoanKnown, TopTrue, OwnerChain DEF AuthorityType
  <1>2. claim[x].reserved \in BOOLEAN /\ claim[x].consumed \in BOOLEAN
    BY <1>1 DEF ClaimRecords
  <1>3. QED
    BY <1>1, <1>2 DEF WalkTrue, Inv, ClaimsTrue

LEMMA DecideLends ==
  ASSUME LoanInv, Inv, Inv', NEW x \in Threads, Decide(x)
  PROVE  LoanInv'
  <1>1. PICK consumed \in BOOLEAN :
          /\ claim' = [claim EXCEPT ![x].pc = IF consumed THEN "partial" ELSE "return", ![x].consumed = consumed]
          /\ took' = IF consumed THEN took \cup {x} ELSE took
    BY DEF Decide
  <1> DEFINE c == claim[x]
             p == IF consumed THEN "partial" ELSE "return"
             r == [c EXCEPT !.pc = p, !.consumed = consumed]
  <1>2. /\ c.pc = "held" /\ c \in ClaimRecords /\ claim \in [Threads -> ClaimRecords] /\ UNCHANGED <<receipt, result>>
        /\ c.reserved = TRUE /\ c.consumed = FALSE /\ c.left = 0 /\ Len(Chain[x]) \in Nat
        /\ c.i \in 0..Len(Chain[x]) /\ (x # Owner => c.i >= 1)
    BY ReservedKnown DEF Decide, At
  <1>3. claim' = [claim EXCEPT ![x] = r]
    BY <1>1, <1>2
  <1>4. p \in States /\ p \in {"partial", "return"}
    BY DEF States
  <1> HIDE DEF p
  <1>5. r.pc = p /\ r.i = c.i /\ r.left = 0 /\ r.reserved = TRUE /\ r.consumed = consumed
    <2> HIDE DEF c
    <2>1. QED
      BY <1>2, <1>4, ClaimFields
  <1> HIDE DEF r
  <1>6. claim'[x] = r /\ \A y \in Threads : y # x => claim'[y] = claim[y]
    BY <1>2, <1>3
  <1> HIDE DEF c
  <1>7. WalkTrue(x, r)
    BY <1>2, <1>4, <1>5 DEF WalkTrue
  <1>8. x \in Borrowers => Topped(c) /\ Passed(c)
    <2>1. x \in Borrowers => x # Owner
      BY TopTrue
    <2>2. QED
      BY <1>2, <2>1 DEF Topped, Passed
  <1>9. ~Spends(c)
    BY <1>2 DEF Spends
  <1>10. x # Owner /\ x \in took' => receipt[Top(x)].consumed \/ Spends(r)
    <2>1. CASE consumed
      BY <2>1, <1>5 DEF Spends
    <2>2. CASE ~consumed
      <3>1. x # Owner /\ x \in took => receipt[Top(x)].consumed
        BY <1>9 DEF LoanInv, Flagged, c
      <3>2. QED
        BY <2>2, <3>1, <1>1
    <2>3. QED
      BY <2>1, <2>2
  <1>11. \A y \in took' : y \in took \/ (y = x /\ (x # Owner => Passed(claim[x])))
    <2>1. x # Owner => Passed(claim[x])
      BY <1>8, LoanKnown DEF c
    <2>2. QED
      BY <1>1, <2>1
  <1>12. ~Spends(r) \/ r.pc # "leave"
    BY <1>4, <1>5
  <1>13. receipt' = receipt /\ result' = result /\ LoansType'
    BY <1>2, LoanKnown DEF LoansType
  <1>14. \A y \in took' : y \in took \/ (y = x /\ Passed(claim[x]))
    <2>1. Passed(claim[x])
      BY <1>2 DEF Passed, c
    <2>2. QED
      BY <1>11, <2>1
  <1>15. QED
    BY <1>6, <1>7, <1>8, <1>10, <1>12, <1>13, <1>14, LoanKnown, LoanMoves DEF c

LEMMA MarkPartialLends ==
  ASSUME LoanInv, Inv, Inv', NEW x \in Threads, MarkPartial(x)
  PROVE  LoanInv'
  <1> DEFINE c == claim[x]
             r == [c EXCEPT !.pc = "return"]
  <1>1. /\ c.pc = "partial" /\ c \in ClaimRecords /\ claim \in [Threads -> ClaimRecords] /\ UNCHANGED <<receipt, result, took>>
        /\ c.reserved = TRUE /\ c.consumed = TRUE /\ c.left = 0 /\ Len(Chain[x]) \in Nat
        /\ c.i \in 0..Len(Chain[x]) /\ (x # Owner => c.i >= 1)
    BY ReservedKnown DEF MarkPartial, At
  <1>2. claim' = [claim EXCEPT ![x] = r]
    BY DEF MarkPartial
  <1>3. r.pc = "return" /\ r.i = c.i /\ r.left = 0 /\ r.reserved = TRUE /\ r.consumed = TRUE
    BY <1>1, ClaimFields DEF States
  <1> HIDE DEF r
  <1>4. claim'[x] = r /\ \A y \in Threads : y # x => claim'[y] = claim[y]
    BY <1>1, <1>2
  <1> HIDE DEF c
  <1>5. /\ WalkTrue(x, r) /\ (Topped(r) => Topped(c)) /\ (Passed(r) => Passed(c)) /\ Spends(r) /\ r.pc # "leave"
    BY <1>1, <1>3 DEF WalkTrue, Topped, Passed, Spends
  <1>6. QED
    BY <1>1, <1>4, <1>5, ClaimTurns DEF c

LEMMA ReturnChildLends ==
  ASSUME LoanInv, Inv, Inv', NEW x \in Threads, ReturnChild(x)
  PROVE  LoanInv'
  <1> DEFINE c == claim[x]
             r1 == [NoClaim EXCEPT !.tries = c.tries]
             p == IF c.consumed THEN "flag" ELSE "leave"
             r2 == [c EXCEPT !.pc = p]
  <1>1. /\ c.pc = "return" /\ c \in ClaimRecords /\ claim \in [Threads -> ClaimRecords] /\ UNCHANGED <<receipt, result, took>>
        /\ c.left = 0 /\ Len(Chain[x]) \in Nat /\ (c.consumed => c.reserved)
        /\ c.reserved => c.i \in 0..Len(Chain[x]) /\ (x # Owner => c.i >= 1)
    BY ReservedKnown DEF ReturnChild, At
  <1>2. claim' = [claim EXCEPT ![x] = IF ~c.reserved THEN r1 ELSE r2]
    BY DEF ReturnChild
  <1>3. r1.reserved = FALSE /\ r1.left = 0
    BY DEF NoClaim
  <1>4. p \in States /\ p \in {"flag", "leave"} /\ (c.consumed => p = "flag")
    BY DEF States
  <1> HIDE DEF p
  <1>5. r2.pc = p /\ r2.i = c.i /\ r2.left = 0 /\ r2.reserved = c.reserved /\ r2.consumed = c.consumed
    <2> HIDE DEF c
    <2>1. QED
      BY <1>1, <1>4, ClaimFields
  <1> HIDE DEF r1, r2
  <1>6. claim'[x] = (IF ~c.reserved THEN r1 ELSE r2) /\ \A y \in Threads : y # x => claim'[y] = claim[y]
    BY <1>1, <1>2
  <1> HIDE DEF c
  <1>7. CASE ~c.reserved
    <2>1. /\ WalkTrue(x, r1) /\ ~Topped(r1) /\ ~Passed(r1) /\ ~Spends(r1) /\ ~Spends(c) /\ claim'[x] = r1
      BY <1>3, <1>6, <1>7 DEF WalkTrue, Topped, Passed, Spends
    <2>2. QED
      BY <1>1, <1>6, <2>1, ClaimTurns DEF c
  <1>8. CASE c.reserved
    <2>1. /\ WalkTrue(x, r2) /\ (Topped(r2) => Topped(c)) /\ (Passed(r2) => Passed(c)) /\ (Spends(r2) <=> Spends(c))
          /\ ~(Spends(r2) /\ r2.pc = "leave") /\ claim'[x] = r2
      BY <1>1, <1>4, <1>5, <1>6, <1>8 DEF WalkTrue, Topped, Passed, Spends
    <2>2. QED
      BY <1>1, <1>6, <2>1, ClaimTurns DEF c
  <1>9. QED
    BY <1>7, <1>8

\* With nothing left to mark, every receipt of the chain is marked.
LEMMA AllMarked ==
  ASSUME NEW s, Len(s) \in Nat, SelectInSeq(s, LAMBDA b : ~receipt[b].consumed) = 0
  PROVE  \A p \in 1..Len(s) : receipt[s[p]].consumed
  <1> DEFINE I == {p \in 1..Len(s) : ~receipt[s[p]].consumed}
  <1>1. (IF I # {} THEN Min(I) ELSE 0) = 0
    BY DEF SelectInSeq
  <1>2. I = {}
    <2>1. SUFFICES ASSUME I # {} PROVE FALSE
      OBVIOUS
    <2>2. I \subseteq Nat /\ \A p \in I : p # 0
      OBVIOUS
    <2> HIDE DEF I
    <2>3. \E p \in I : \A q \in I : p <= q
      BY <2>1, <2>2, LeastNat
    <2>4. Min(I) \in I
      BY <2>3 DEF Min
    <2>5. QED
      BY <1>1, <2>1, <2>2, <2>4
  <1>3. QED
    BY <1>2

LEMMA FlagLends ==
  ASSUME LoanInv, Inv, Inv', NEW x \in Threads, Flag(x)
  PROVE  LoanInv'
  <1> DEFINE c == claim[x]
             r == [c EXCEPT !.pc = "leave"]
             next == SelectInSeq(Chain[x], LAMBDA b : ~receipt[b].consumed)
  <1>1. /\ c.pc = "flag" /\ c \in ClaimRecords /\ claim \in [Threads -> ClaimRecords] /\ result' = result /\ took' = took
        /\ c.reserved = TRUE /\ c.left = 0 /\ Len(Chain[x]) \in Nat
        /\ c.i \in 0..Len(Chain[x]) /\ (x # Owner => c.i >= 1)
    BY ReservedKnown DEF Flag, At
  <1>2. CASE next = 0
    <2>1. claim' = [claim EXCEPT ![x] = r] /\ receipt' = receipt
      BY <1>2 DEF Flag
    <2>2. \A p \in 1..Len(Chain[x]) : receipt[Chain[x][p]].consumed
      BY <1>1, <1>2, AllMarked
    <2> HIDE DEF next
    <2>3. x \in Borrowers => receipt[Top(x)].consumed
      <3>1. x \in Borrowers => 1 \in 1..Len(Chain[x])
        BY TopTrue
      <3>2. QED
        BY <2>2, <3>1 DEF Top
    <2>4. r.pc = "leave" /\ r.i = c.i /\ r.left = 0 /\ r.reserved = TRUE /\ r.consumed = c.consumed
      BY <1>1, ClaimFields DEF States
    <2> HIDE DEF r
    <2>5. claim'[x] = r /\ \A y \in Threads : y # x => claim'[y] = claim[y]
      BY <1>1, <2>1
    <2> HIDE DEF c
    <2>6. WalkTrue(x, r) /\ (Topped(r) => Topped(c)) /\ (Passed(r) => Passed(c)) /\ (Spends(c) => Spends(r))
      BY <1>1, <2>4 DEF WalkTrue, Topped, Passed, Spends
    <2>7. QED
      BY <1>1, <2>1, <2>3, <2>5, <2>6, ClaimTurns DEF c
  <1>3. CASE next # 0
    <2> DEFINE k == Chain[x][next]
               f == [receipt EXCEPT ![k].consumed = TRUE]
    <2>1. receipt' = f /\ claim' = claim
      BY <1>3 DEF Flag
    <2> HIDE DEF next, k
    <2>2. /\ f \in [Borrowers -> Loans]
          /\ \A a \in Borrowers : /\ f[a].closed = receipt[a].closed /\ f[a].settled = receipt[a].settled
                                  /\ f[a].readers = receipt[a].readers
                                  /\ receipt[a].consumed => f[a].consumed
      BY LoanKnown, ReceiptMarked
    <2> HIDE DEF f
    <2>3. \A y \in Borrowers : y \in Threads /\ Top(y) \in Borrowers
      BY LoanKnown, TopTrue
    <2>4. LoansType'
      BY <1>1, <2>1, <2>2, LoanKnown DEF LoansType
    <2>5. \A a \in Borrowers : Lender[a] = Owner => f[a].readers >= 0
      BY <2>2, LoanKnown
    <2>6. \A y \in Borrowers : Topped(claim[y]) => f[Top(y)].readers >= 1
      BY <2>2, <2>3, LoanKnown
    <2>7. x \in Borrowers /\ Spends(c) /\ c.pc = "leave" => f[Top(x)].consumed
      BY <1>1
    <2>8. x # Owner /\ x \in took => f[Top(x)].consumed \/ Spends(c)
      <3>1. x # Owner /\ x \in took => receipt[Top(x)].consumed \/ Spends(c)
        BY DEF LoanInv, Flagged
      <3>2. QED
        BY <2>2, <2>3, <3>1, LoanKnown
    <2>9. WalkTrue(x, c) /\ claim'[x] = c /\ \A y \in Threads : y # x => claim'[y] = claim[y]
      BY <2>1, LoanKnown
    <2> HIDE DEF c
    <2>10. QED
      BY <1>1, <2>1, <2>2, <2>4, <2>5, <2>6, <2>7, <2>8, <2>9, LoanKnown, LoanMoves DEF c
  <1>4. QED
    BY <1>2, <1>3

LEMMA LeaveLends ==
  ASSUME LoanInv, Inv, Inv', NEW x \in Threads, Leave(x)
  PROVE  LoanInv'
  <1> DEFINE c == claim[x]
  <1>1. /\ c.pc = "leave" /\ c \in ClaimRecords /\ claim \in [Threads -> ClaimRecords] /\ took' = took
        /\ c.reserved = TRUE /\ Len(Chain[x]) \in Nat
        /\ c.i \in 0..Len(Chain[x]) /\ c.left \in 0..c.i /\ (x # Owner => c.i >= 1)
    BY ReservedKnown DEF Leave, At
  <1>9. x \in Borrowers /\ Spends(c) => receipt[Top(x)].consumed
    BY <1>1 DEF LoanInv, Flagged
  <1>10. x \in Borrowers /\ x \in took => receipt[Top(x)].consumed
    BY <1>9, TopTrue DEF LoanInv, Flagged
  <1>2. CASE c.left < c.i
    <2> DEFINE b == Chain[x][c.left + 1]
               n == receipt[b].readers - 1
               f == [receipt EXCEPT ![b].readers = n]
               r == [c EXCEPT !.left = c.left + 1]
    <2>1. receipt' = f /\ claim' = [claim EXCEPT ![x] = r] /\ result' = result
      BY <1>1, <1>2 DEF Leave
    <2>2. x \in Borrowers /\ c.left + 1 \in 1..Len(Chain[x])
      <3>1. c.left + 1 \in 1..Len(Chain[x])
        BY <1>1, <1>2
      <3>2. x # Owner
        BY <3>1, OwnerChain
      <3>3. QED
        BY <3>1, <3>2, LoanKnown
    <2>3. /\ b \in Borrowers /\ (c.left # 0 => Lender[b] # Owner) /\ (c.left = 0 => b = Top(x)) /\ Lender[Top(x)] = Owner
          /\ Top(x) \in Borrowers
      <3>1. c.left # 0 => c.left + 1 # 1
        BY <1>1
      <3>2. QED
        BY <2>2, <3>1, TopTrue DEF Top
    <2>4. receipt[b].readers \in Int /\ n \in Int
      BY <2>3, LoanKnown
    <2>5. /\ f \in [Borrowers -> Loans] /\ f[b].readers = n
          /\ \A a \in Borrowers : /\ f[a].closed = receipt[a].closed /\ f[a].settled = receipt[a].settled
                                  /\ f[a].consumed = receipt[a].consumed
                                  /\ a # b => f[a].readers = receipt[a].readers
      <3> HIDE DEF n, b
      <3>1. QED
        BY <2>3, <2>4, LoanKnown, ReceiptMoves
    <2>6. /\ r.pc = "leave" /\ r.i = c.i /\ r.left = c.left + 1 /\ r.reserved = TRUE /\ r.consumed = c.consumed
      <3>1. c.left + 1 \in Int
        BY <1>1
      <3>2. QED
        BY <1>1, <3>1, ClaimFields
    <2> HIDE DEF f, r
    <2>7. claim'[x] = r /\ \A y \in Threads : y # x => claim'[y] = claim[y]
      BY <1>1, <2>1
    <2>8. Lender[b] = Owner => n >= 0
      <3>1. SUFFICES ASSUME Lender[b] = Owner PROVE n >= 0
        OBVIOUS
      <3>2. c.left = 0 /\ b = Top(x)
        BY <2>3, <3>1
      <3>3. Topped(c)
        BY <1>1, <1>2, <3>2 DEF Topped
      <3>4. receipt[b].readers >= 1
        BY <2>2, <3>2, <3>3, LoanKnown
      <3>5. QED
        BY <2>4, <3>4
    <2>9. \A a \in Borrowers : Lender[a] = Owner => f[a].readers >= 0
      BY <2>3, <2>5, <2>8, LoanKnown
    <2>10. \A y \in Borrowers : y # x => ~Topped(claim[y])
      BY <1>1, AloneThere, LoanKnown
    <2>11. LoansType'
      BY <2>1, <2>5, LoanKnown DEF LoansType
    <2>12. f[Top(x)].consumed = receipt[Top(x)].consumed
      BY <2>3, <2>5
    <2> HIDE DEF c, b, n
    <2>13. WalkTrue(x, r) /\ ~Topped(r) /\ (Passed(r) => Passed(c)) /\ (Spends(r) <=> Spends(c))
      BY <1>1, <1>2, <2>6 DEF WalkTrue, Topped, Passed, Spends
    <2>14. QED
      BY <1>1, <1>9, <1>10, <2>1, <2>2, <2>5, <2>7, <2>9, <2>10, <2>11, <2>12, <2>13, LoanKnown, LoanMoves DEF c
  <1>3. CASE ~(c.left < c.i)
    <2> DEFINE r == [NoClaim EXCEPT !.tries = c.tries]
               q == result[x] /\ ~c.consumed
    <2>1. receipt' = receipt /\ claim' = [claim EXCEPT ![x] = r] /\ result' = [result EXCEPT ![x] = q]
      BY <1>1, <1>3 DEF Leave
    <2>2. r.reserved = FALSE /\ r.left = 0
      BY DEF NoClaim
    <2> HIDE DEF r
    <2>3. claim'[x] = r /\ \A y \in Threads : y # x => claim'[y] = claim[y]
      BY <1>1, <2>1
    <2>4. result \in [Threads -> BOOLEAN] /\ Owner \in Threads
      BY LoanKnown DEF LoansType, Threads
    <2>5. q \in BOOLEAN /\ (q => result[x])
      BY <2>4
    <2> HIDE DEF q
    <2>6. LoansType' /\ (result'[Owner] => result[Owner])
      BY <2>1, <2>4, <2>5, LoanKnown DEF LoansType
    <2>7. WalkTrue(x, r) /\ ~Topped(r) /\ ~Passed(r) /\ ~Spends(r)
      BY <2>2 DEF WalkTrue, Topped, Passed, Spends
    <2> HIDE DEF c
    <2>8. QED
      BY <1>1, <1>9, <1>10, <2>1, <2>3, <2>6, <2>7, LoanKnown, LoanMoves DEF c
  <1>4. QED
    BY <1>2, <1>3
-----------------------------------------------------------------------------
\* A step that leaves the loans and the claims alone.
LEMMA WordLends ==
  ASSUME LoanInv, UNCHANGED <<receipt, result, claim, took>>
  PROVE  LoanInv'
  BY DEF LoanInv, LoansType, Walks, WalkTrue, ReadersTrue, Topped, Flagged, Spends, LoanLost, Passed, Top

LEMMA LendLends ==
  ASSUME LoanInv, Inv, NEW b \in Borrowers, Lend(b)
  PROVE  LoanInv'
  <1>1. /\ receipt' = [receipt EXCEPT ![b].lent = TRUE] /\ result' = [result EXCEPT ![b] = TRUE]
        /\ claim' = claim /\ took' = took
    BY DEF Lend
  <1>2. b # Owner /\ b \in Threads
    BY LendingSetting DEF Threads
  <1>3. /\ receipt \in [Borrowers -> Loans] /\ result \in [Threads -> BOOLEAN]
    BY LoanKnown DEF LoansType
  <1>4. /\ receipt' \in [Borrowers -> Loans]
        /\ \A a \in Borrowers : /\ receipt'[a].closed = receipt[a].closed /\ receipt'[a].settled = receipt[a].settled
                                /\ receipt'[a].consumed = receipt[a].consumed /\ receipt'[a].readers = receipt[a].readers
    BY <1>1, <1>3 DEF Loans
  <1>5. result' \in [Threads -> BOOLEAN] /\ result'[Owner] = result[Owner]
    BY <1>1, <1>2, <1>3 DEF Threads
  <1>6. \A x \in Borrowers : Top(x) \in Borrowers
    BY TopTrue
  <1>7. \A x \in took : x # Owner => x \in Borrowers
    BY LoanKnown
  <1>8. LoansType'
    BY <1>4, <1>5 DEF LoansType
  <1>9. Walks'
    BY <1>1 DEF LoanInv, Walks, WalkTrue
  <1>10. ReadersTrue'
    BY <1>1, <1>4, <1>6 DEF LoanInv, ReadersTrue, Topped, Top
  <1>11. Flagged'
    BY <1>1, <1>4, <1>6, <1>7 DEF LoanInv, Flagged, Spends, Top
  <1>12. LoanLost'
    BY <1>1, <1>4, <1>5, <1>6 DEF LoanInv, LoanLost, Passed, Top
  <1>13. QED
    BY <1>8, <1>9, <1>10, <1>11, <1>12 DEF LoanInv

\* A borrower's claim that passed the owner's loan, or took the result, is seen when it comes back.
LEMMA LossSeen ==
  ASSUME LoanInv, Inv, NEW x \in Borrowers, Passed(claim[x]) \/ x \in took
  PROVE  receipt[Top(x)].consumed \/ receipt[Top(x)].readers > 0
  <1>1. x \in Threads /\ x # Owner /\ Top(x) \in Borrowers /\ receipt[Top(x)].readers \in Int
    BY TopTrue, LoanKnown
  <1>2. claim[x] \in ClaimRecords /\ WalkTrue(x, claim[x])
    BY <1>1, LoanKnown
  <1>3. ASSUME Topped(claim[x]) PROVE receipt[Top(x)].readers > 0
    BY <1>1, <1>3, LoanKnown
  <1>4. CASE Spends(claim[x])
    <2>1. CASE claim[x].pc = "leave"
      BY <1>4, <2>1 DEF LoanInv, Flagged
    <2>2. CASE claim[x].pc # "leave"
      <3>1. claim[x].pc # "register" /\ claim[x].reserved
        BY <1>1, <1>4 DEF Inv, ClaimsTrue, Spends
      <3>2. Topped(claim[x])
        BY <1>1, <1>2, <2>2, <3>1 DEF WalkTrue, Topped
      <3>3. QED
        BY <1>3, <3>2
    <2>3. QED
      BY <2>1, <2>2
  <1>5. CASE ~Spends(claim[x]) /\ x \in took
    BY <1>1, <1>5 DEF LoanInv, Flagged
  <1>6. CASE ~Spends(claim[x]) /\ Passed(claim[x])
    <2>1. claim[x].reserved /\ (claim[x].pc = "held" \/ (claim[x].pc = "register" /\ claim[x].i >= 2))
      BY <1>6 DEF Spends, Passed
    <2>2. Topped(claim[x])
      BY <1>1, <1>2, <2>1 DEF WalkTrue, Topped
    <2>3. QED
      BY <1>3, <2>2
  <1>7. QED
    BY <1>4, <1>5, <1>6

LEMMA CloseLends ==
  ASSUME LoanInv, Inv, NEW b \in Borrowers, CloseLoan(b)
  PROVE  LoanInv'
  <1> DEFINE l == Lender[b]
             lost == receipt[b].consumed \/ receipt[b].readers > 0
             ClosedNow(a) == receipt[a].closed \/ a = b \/ (lost /\ receipt[a].lent /\ Lender[a] = l)
             Over2(a) == receipt[a].settled \/ a = b
  <1>1. /\ receipt' = [a \in Borrowers |-> [receipt[a] EXCEPT !.closed = ClosedNow(a), !.settled = Over2(a)]]
        /\ result' = [result EXCEPT ![l] = result[l] /\ ~lost]
        /\ claim' = claim /\ took' = took
    BY DEF CloseLoan
  <1>2. /\ receipt \in [Borrowers -> Loans] /\ result \in [Threads -> BOOLEAN] /\ l \in Threads /\ Owner \in Threads
    BY LoanKnown, AuthoritySetting DEF LoansType, Threads
  <1>3. \A a \in Borrowers : ClosedNow(a) \in BOOLEAN /\ Over2(a) \in BOOLEAN
    BY <1>2 DEF Loans
  <1>4. \A a \in Borrowers : Over2(a) => ClosedNow(a)
    BY DEF LoanInv, LoanLost
  <1>5. \A a \in Borrowers : ClosedNow(a) => receipt[a].closed \/ a = b \/ (lost /\ Lender[a] = l)
    OBVIOUS
  <1> HIDE DEF ClosedNow, Over2
  <1>6. /\ receipt' \in [Borrowers -> Loans]
        /\ \A a \in Borrowers : /\ receipt'[a].closed = ClosedNow(a) /\ receipt'[a].settled = Over2(a)
                                /\ receipt'[a].consumed = receipt[a].consumed /\ receipt'[a].readers = receipt[a].readers
    BY <1>1, <1>2, <1>3 DEF Loans
  <1>7. /\ result' \in [Threads -> BOOLEAN]
        /\ result'[Owner] => result[Owner]
        /\ l = Owner /\ lost => ~result'[Owner]
    BY <1>1, <1>2
  <1>8. \A x \in Borrowers : Top(x) \in Borrowers /\ Lender[Top(x)] = Owner
    BY TopTrue
  <1>9. \A x \in took : x # Owner => x \in Borrowers
    BY LoanKnown
  <1>10. LoansType'
    BY <1>6, <1>7 DEF LoansType
  <1>11. Walks'
    BY <1>1 DEF LoanInv, Walks, WalkTrue
  <1>12. ReadersTrue'
    BY <1>1, <1>6, <1>8 DEF LoanInv, ReadersTrue, Topped, Top
  <1>13. Flagged'
    <2>1. \A x \in Borrowers : Spends(claim'[x]) /\ claim'[x].pc = "leave" => receipt'[Top(x)].consumed
      BY <1>1, <1>6, <1>8 DEF LoanInv, Flagged
    <2>2. \A x \in took' : x # Owner => receipt'[Top(x)].consumed \/ Spends(claim'[x])
      BY <1>1, <1>6, <1>8, <1>9 DEF LoanInv, Flagged
    <2>3. QED
      BY <2>1, <2>2 DEF Flagged, Top
  <1>14. LoanLost'
    <2>1. \A a \in Borrowers : receipt'[a].settled => receipt'[a].closed
      BY <1>4, <1>6
    <2>2. ASSUME NEW x \in Borrowers, Passed(claim[x]) \/ x \in took, receipt'[Top(x)].closed PROVE ~result'[Owner]
      <3>1. receipt[Top(x)].closed \/ Top(x) = b \/ (lost /\ Lender[Top(x)] = l)
        BY <1>5, <1>6, <1>8, <2>2
      <3>2. CASE receipt[Top(x)].closed
        BY <1>7, <2>2, <3>2 DEF LoanInv, LoanLost
      <3>3. CASE Top(x) = b
        <4>1. lost /\ l = Owner
          BY <1>8, <2>2, <3>3, LossSeen
        <4>2. QED
          BY <1>7, <4>1
      <3>4. CASE lost /\ Lender[Top(x)] = l
        BY <1>7, <1>8, <3>4
      <3>5. QED
        BY <3>1, <3>2, <3>3, <3>4
    <2>3. QED
      BY <1>1, <2>1, <2>2 DEF LoanLost, Passed, Top
  <1>15. QED
    BY <1>10, <1>11, <1>12, <1>13, <1>14 DEF LoanInv

LEMMA LoanStep == Inv /\ LoanInv /\ Inv' /\ [AuthorityNext]_authorityVars => LoanInv'
  <1> SUFFICES ASSUME Inv, LoanInv, Inv', [AuthorityNext]_authorityVars PROVE LoanInv'
    OBVIOUS
  <1>1. CASE UNCHANGED authorityVars
    BY <1>1, WordLends DEF authorityVars
  <1>2. ASSUME NEW x \in Threads,
               Load(x) \/ ClaimChild(x) \/ Reserve(x) \/ Register(x) \/ Decide(x)
               \/ MarkPartial(x) \/ ReturnChild(x) \/ Flag(x) \/ Leave(x)
        PROVE  LoanInv'
    BY <1>2, LoadLends, ClaimChildLends, ReserveLends, RegisterLends, DecideLends, MarkPartialLends, ReturnChildLends,
       FlagLends, LeaveLends
  <1>3. ASSUME NEW b \in Borrowers, Lend(b) \/ CloseLoan(b) PROVE LoanInv'
    BY <1>3, LendLends, CloseLends
  <1>4. CASE CommitWhole \/ WholeSettled
    BY <1>4, WordLends DEF CommitWhole, WholeSettled
  <1>5. QED
    BY <1>1, <1>2, <1>3, <1>4 DEF AuthorityNext

\* Once the owner has taken back every loan it made and still has the result, no worker
\* can have it or get it (lend's settle in process-handoff reads what a claim left in the word).
THEOREM LoansTakenBack == AuthoritySpec => []TakenBack
  <1>1. Inv /\ LoanInv => TakenBack
    <2> SUFFICES ASSUME Inv, LoanInv, \A b \in Borrowers : Lender[b] = Owner => receipt[b].lent /\ receipt[b].settled,
                        result[Owner]
                 PROVE  took \subseteq {Owner} /\ \A b \in Borrowers : ~At(b, "held")
      BY DEF TakenBack
    <2>1. ASSUME NEW x \in Borrowers PROVE ~Passed(claim[x]) /\ x \notin took
      <3>1. receipt[Top(x)].closed
        BY TopTrue DEF LoanInv, LoanLost
      <3>2. QED
        BY <3>1 DEF LoanInv, LoanLost
    <2>2. took \subseteq {Owner}
      BY <2>1, LoanKnown
    <2>3. ASSUME NEW b \in Borrowers PROVE ~At(b, "held")
      BY <2>1, LoanKnown DEF Inv, ClaimsTrue, Passed, At
    <2>4. QED
      BY <2>2, <2>3
  <1>2. QED
    BY <1>1, LoanStart, LoanStep, AuthorityInvariance, PTL DEF AuthoritySpec

\* What a run checks of the handoff's two parts holds for any numbers of branches, consumers,
\* records and workers, and any way they lend (process-handoff's registry and its shared words).
THEOREM HandoffKept == RegistrySpec /\ AuthoritySpec => []HandoffSafe
  BY RegistryKept, LoansTakenBack, PTL DEF HandoffSafe
-----------------------------------------------------------------------------
(* Nested executions *)

NestedType ==
  /\ session \in [life : {"open", "draining", "sealed"}, aborted : BOOLEAN, incomplete : BOOLEAN]
  /\ req \in [Requests -> {"new", "acquire", "replay", "begin", "run", "capture", "suspended", "unwind", "done"}]
  /\ answer \in [Requests -> {"none", "continue", "failed", "bypass", "hit", "executed", "suspended"}]
  /\ domain \in [Requests -> {"no", "running", "exited", "native"}]
  /\ writer \in [Requests -> {"none", "open", "ended"}]
  /\ proof \in [Requests -> {"none", "evidence", "observation"}]
  /\ ran \in [Requests -> {0, 1}]

\* Nothing of a request ran before its handler came to its run; what continues in its domain ran there.
BeforeRun(r) ==
  /\ req[r] \in {"new", "acquire", "replay", "begin"} => ran[r] = 0 /\ answer[r] = "none" /\ domain[r] \in {"no", "running"}
  /\ req[r] \in {"new", "acquire"} => writer[r] = "none"
  /\ req[r] = "run" => \/ answer[r] = "none" /\ ran[r] = 0 /\ domain[r] \in {"no", "running"}
                       \/ answer[r] = "continue" /\ domain[r] \in {"running", "exited"}
\* What was passed by has not run until it ran in its parent's trace.
PassedBy(r) == answer[r] = "bypass" => req[r] = "done" /\ (domain[r] # "native" => ran[r] = 0)
\* What ran and is over is known to the session, or the session knows that it is not.
Known(r) ==
  /\ req[r] = "replay" /\ writer[r] = "open" => proof[r] # "none"
  /\ req[r] = "unwind" => proof[r] # "none" \/ session.incomplete
  /\ req[r] = "done" /\ ran[r] > 0 => proof[r] # "none" \/ domain[r] = "native" \/ session.incomplete
SealedOver == session.life = "sealed" => \A r \in Requests : req[r] \in {"new", "done"}

NestedInv == NestedType /\ SealedOver /\ \A r \in Requests : BeforeRun(r) /\ PassedBy(r) /\ Known(r)

Deciding == {"inspect", "acquire", "claim", "decide"}
ChildType ==
  /\ observation \in [closed : BOOLEAN, pending : Int, claims : Int, bindings : SUBSET Processes, learned : SUBSET Processes]
  /\ proc \in [Processes -> [pc : {"new", "resolve", "replay", "watched", "done", "adopted"} \cup Deciding,
                             learning : BOOLEAN, reserved : BOOLEAN]]
  /\ acquired \in [Processes -> {"none", "live", "checkpoint"}]
  /\ checkpoint \in {"stored", "claimed", "consumed"}

Reserving == {p \in Processes : proc[p].reserved}
Claiming == {p \in Processes : proc[p].pc \in {"replay", "adopted"}}
ChildTotals == observation.pending = Cardinality(Reserving) /\ observation.claims = Cardinality(Claiming)
\* A slot is held from the resolution of the image to the decision, or to the end of what is watched.
Slot(p) ==
  /\ proc[p].pc \in Deciding => proc[p].reserved = proc[p].learning
  /\ proc[p].pc = "watched" => proc[p].reserved
  /\ proc[p].pc \notin {"watched"} \cup Deciding => ~proc[p].reserved
Plan(p) ==
  /\ acquired[p] # "none" => proc[p].pc \in {"claim", "decide", "replay"}
  /\ proc[p].pc = "claim" => acquired[p] = "checkpoint"
HasClaim(p) == acquired[p] = "checkpoint" /\ proc[p].pc \in {"decide", "replay"}
OneClaim ==
  /\ checkpoint = "claimed" => \E p \in Processes : HasClaim(p)
  /\ \A p \in Processes : HasClaim(p) => checkpoint = "claimed"
  /\ \A p, q \in Processes : HasClaim(p) /\ HasClaim(q) => p = q

ChildInv == ChildType /\ ChildTotals /\ OneClaim /\ \A p \in Processes : Slot(p) /\ Plan(p)

LEMMA NestedStart == NestedInit => NestedInv
  BY DEF NestedInit, NestedInv, NestedType, SealedOver, BeforeRun, PassedBy, Known

\* A step of one request: what is true of the others stays, for the session's reasons to be
\* incomplete only grow.
LEMMA OneRequest ==
  ASSUME NestedInv, NEW r \in Requests, NestedType',
         session'.life = session.life, session.incomplete => session'.incomplete,
         \A q \in Requests \ {r} :
           /\ req'[q] = req[q] /\ answer'[q] = answer[q] /\ domain'[q] = domain[q] /\ writer'[q] = writer[q]
           /\ proof'[q] = proof[q] /\ ran'[q] = ran[q],
         session.life = "sealed" => req'[r] \in {"new", "done"},
         BeforeRun(r)', PassedBy(r)', Known(r)'
  PROVE  NestedInv'
  <1>1. ASSUME NEW q \in Requests PROVE BeforeRun(q)' /\ PassedBy(q)' /\ Known(q)'
    <2>1. CASE q = r
      BY <2>1
    <2>2. CASE q # r
      BY <2>2 DEF NestedInv, BeforeRun, PassedBy, Known
    <2>3. QED
      BY <2>1, <2>2
  <1>2. SealedOver'
    BY DEF NestedInv, SealedOver
  <1>3. QED
    BY <1>1, <1>2 DEF NestedInv

Sessions == [life : {"open", "draining", "sealed"}, aborted : BOOLEAN, incomplete : BOOLEAN]
\* What a step leaves of the session: its life, and the reasons it has to be incomplete.
Lasts == session' \in Sessions /\ session'.life = session.life /\ (session.incomplete => session'.incomplete)

LEMMA Marked ==
  ASSUME NestedType, session' = [session EXCEPT !.incomplete = TRUE]
  PROVE  Lasts /\ session'.incomplete /\ session'.aborted = session.aborted
  BY DEF NestedType, Lasts, Sessions

LEMMA BrokenMarks ==
  ASSUME NestedType, NEW r \in Requests, Broken(r)
  PROVE  /\ Lasts /\ session'.incomplete /\ session'.aborted = session.aborted
         /\ answer' = [answer EXCEPT ![r] = IF answer[r] = "continue" THEN answer[r] ELSE "failed"]
  BY Marked DEF Broken

LEMMA SameSession == ASSUME NestedType, UNCHANGED session PROVE Lasts
  BY DEF NestedType, Lasts, Sessions

LEMMA InspectKeeps == ASSUME NestedInv, NEW r \in Requests, Inspect(r) PROVE NestedInv'
  <1> USE DEF NestedInv, NestedType
  <1>1. req[r] = "new" /\ BeforeRun(r) /\ PassedBy(r) /\ Known(r)
    BY DEF Inspect, AtStage
  <1>2. Lasts
    BY BrokenMarks, SameSession DEF Inspect
  <1>a. NestedType'
    BY <1>1, <1>2, BrokenMarks DEF Inspect, Lasts, Sessions
  <1>3. \A q \in Requests \ {r} :
           /\ req'[q] = req[q] /\ answer'[q] = answer[q] /\ domain'[q] = domain[q] /\ writer'[q] = writer[q]
           /\ proof'[q] = proof[q] /\ ran'[q] = ran[q]
    BY DEF Inspect, AtStage, Broken, Trouble
  <1>4. BeforeRun(r)' /\ PassedBy(r)' /\ Known(r)' /\ (session.life = "sealed" => req'[r] \in {"new", "done"})
    BY <1>1 DEF Inspect, AtStage, Broken, Trouble, BeforeRun, PassedBy, Known
  <1>5. QED
    BY <1>2, <1>a, <1>3, <1>4, OneRequest DEF Lasts

LEMMA AcquireWorkKeeps == ASSUME NestedInv, NEW r \in Requests, AcquireWork(r) PROVE NestedInv'
  <1> USE DEF NestedInv, NestedType
  <1>1. req[r] = "acquire" /\ BeforeRun(r) /\ PassedBy(r) /\ Known(r) /\ session.life # "sealed"
    BY DEF AcquireWork, AtStage, SealedOver
  <1>2. Lasts
    BY BrokenMarks, SameSession DEF AcquireWork
  <1>a. NestedType'
    BY <1>1, <1>2, BrokenMarks DEF AcquireWork, Lasts, Sessions
  <1>3. \A q \in Requests \ {r} :
           /\ req'[q] = req[q] /\ answer'[q] = answer[q] /\ domain'[q] = domain[q] /\ writer'[q] = writer[q]
           /\ proof'[q] = proof[q] /\ ran'[q] = ran[q]
    BY DEF AcquireWork, AtStage, Broken
  <1>4. BeforeRun(r)' /\ PassedBy(r)' /\ Known(r)'
    BY <1>1 DEF AcquireWork, AtStage, Broken, BeforeRun, PassedBy, Known
  <1>5. QED
    BY <1>1, <1>2, <1>a, <1>3, <1>4, OneRequest DEF Lasts

LEMMA ReplayKeeps == ASSUME NestedInv, NEW r \in Requests, ShareReplay(r) \/ Replay(r) PROVE NestedInv'
  <1> USE DEF NestedInv, NestedType
  <1>1. req[r] = "replay" /\ BeforeRun(r) /\ PassedBy(r) /\ Known(r) /\ session.life # "sealed"
    BY DEF ShareReplay, Replay, AtStage, SealedOver
  <1>2. Lasts
    BY BrokenMarks, SameSession DEF ShareReplay, Replay
  <1>a. NestedType'
    BY <1>1, <1>2, BrokenMarks DEF ShareReplay, Replay, Lasts, Sessions, BeforeRun
  <1>3. \A q \in Requests \ {r} :
           /\ req'[q] = req[q] /\ answer'[q] = answer[q] /\ domain'[q] = domain[q] /\ writer'[q] = writer[q]
           /\ proof'[q] = proof[q] /\ ran'[q] = ran[q]
    BY DEF ShareReplay, Replay, AtStage, Broken, Trouble
  <1>4. BeforeRun(r)' /\ PassedBy(r)' /\ Known(r)'
    BY <1>1 DEF ShareReplay, Replay, AtStage, Broken, Trouble, BeforeRun, PassedBy, Known
  <1>5. QED
    BY <1>1, <1>2, <1>a, <1>3, <1>4, OneRequest DEF Lasts

\* The finally blocks and the catch of executeRequest.
LEMMA ThrowMarks ==
  ASSUME NestedType, NEW r \in Requests, NEW stage, Throw(r, stage)
  PROVE  /\ Lasts /\ Unwind(r) /\ session'.aborted = session.aborted
         /\ \E a \in {"none", "continue", "failed", "bypass", "hit", "executed", "suspended"} :
              /\ answer' = [answer EXCEPT ![r] = a]
              /\ \/ session'.incomplete /\ (answer[r] = "continue" => a = "continue") /\ (answer[r] # "continue" => a = "failed")
                 \/ stage = "capture" /\ (answer[r] = "continue" => a = "continue") /\ (answer[r] # "continue" => a = "bypass")
  <1>1. CASE Fallback(r, stage)
    <2>1. Lasts /\ UNCHANGED session
      BY <1>1, SameSession DEF Throw
    <2>2. answer' = [answer EXCEPT ![r] = IF answer[r] = "continue" THEN answer[r] ELSE "bypass"]
      BY <1>1 DEF Throw
    <2>3. (IF answer[r] = "continue" THEN answer[r] ELSE "bypass") \in {"continue", "bypass"}
      OBVIOUS
    <2>4. QED
      BY <1>1, <2>1, <2>2, <2>3 DEF Throw, Fallback
  <1>2. CASE ~Fallback(r, stage)
    <2>1. Broken(r) /\ Unwind(r)
      BY <1>2 DEF Throw
    <2>2. (IF answer[r] = "continue" THEN answer[r] ELSE "failed") \in {"continue", "failed"}
      OBVIOUS
    <2>3. QED
      BY <2>1, <2>2, BrokenMarks
  <1>3. QED
    BY <1>1, <1>2

LEMMA PrepareKeeps == ASSUME NestedInv, NEW r \in Requests, Prepare(r) PROVE NestedInv'
  <1> USE DEF NestedInv, NestedType
  <1>1. req[r] = "begin" /\ BeforeRun(r) /\ PassedBy(r) /\ Known(r) /\ session.life # "sealed"
    BY DEF Prepare, AtStage, SealedOver, PassedBy, Handled
  <1>2. Lasts
    BY BrokenMarks, SameSession, ThrowMarks DEF Prepare
  <1>3. NestedType'
    BY <1>1, <1>2, BrokenMarks, ThrowMarks DEF Prepare, Lasts, Sessions, BeforeRun, PassedBy, Unwind
  <1>4. \A q \in Requests \ {r} :
           /\ req'[q] = req[q] /\ answer'[q] = answer[q] /\ domain'[q] = domain[q] /\ writer'[q] = writer[q]
           /\ proof'[q] = proof[q] /\ ran'[q] = ran[q]
    BY <1>1, ThrowMarks DEF Prepare, AtStage, Broken, Trouble, Unwind
  <1>5. BeforeRun(r)' /\ PassedBy(r)' /\ Known(r)'
    BY <1>1, <1>2, ThrowMarks DEF Prepare, AtStage, Broken, Trouble, BeforeRun, PassedBy, Known, Unwind, Lasts
  <1>6. QED
    BY <1>1, <1>2, <1>3, <1>4, <1>5, OneRequest DEF Lasts

LEMMA ResumeDomainKeeps == ASSUME NestedInv, NEW r \in Requests, ResumeDomain(r) \/ ExitReported(r) PROVE NestedInv'
  <1> USE DEF NestedInv, NestedType
  <1>1. req[r] = "run" /\ BeforeRun(r) /\ PassedBy(r) /\ Known(r) /\ session.life # "sealed"
    BY DEF ResumeDomain, ExitReported, AtStage, SealedOver, PassedBy, Handled
  <1>2. Lasts
    BY BrokenMarks, SameSession DEF ResumeDomain, ExitReported
  <1>3. NestedType'
    BY <1>1, <1>2, BrokenMarks DEF ResumeDomain, ExitReported, Lasts, Sessions, BeforeRun, PassedBy, Unwind
  <1>4. \A q \in Requests \ {r} :
           /\ req'[q] = req[q] /\ answer'[q] = answer[q] /\ domain'[q] = domain[q] /\ writer'[q] = writer[q]
           /\ proof'[q] = proof[q] /\ ran'[q] = ran[q]
    BY <1>1 DEF ResumeDomain, ExitReported, AtStage, Broken, Trouble, Unwind
  <1>5. BeforeRun(r)' /\ PassedBy(r)' /\ Known(r)'
    BY <1>1, <1>2 DEF ResumeDomain, ExitReported, AtStage, Broken, Trouble, BeforeRun, PassedBy, Known, Unwind, Lasts
  <1>6. QED
    BY <1>1, <1>2, <1>3, <1>4, <1>5, OneRequest DEF Lasts

LEMMA RunKeeps == ASSUME NestedInv, NEW r \in Requests, Run(r) PROVE NestedInv'
  <1> USE DEF NestedInv, NestedType
  <1>1. req[r] = "run" /\ BeforeRun(r) /\ PassedBy(r) /\ Known(r) /\ session.life # "sealed"
    BY DEF Run, AtStage, SealedOver, PassedBy, Handled
  <1>2. Lasts
    BY BrokenMarks, SameSession, ThrowMarks DEF Run
  <1>3. NestedType'
    BY <1>1, <1>2, BrokenMarks, ThrowMarks DEF Run, Lasts, Sessions, BeforeRun, PassedBy, Unwind
  <1>4. \A q \in Requests \ {r} :
           /\ req'[q] = req[q] /\ answer'[q] = answer[q] /\ domain'[q] = domain[q] /\ writer'[q] = writer[q]
           /\ proof'[q] = proof[q] /\ ran'[q] = ran[q]
    BY <1>1, ThrowMarks DEF Run, AtStage, Broken, Trouble, Unwind
  <1>5. BeforeRun(r)' /\ PassedBy(r)' /\ Known(r)'
    BY <1>1, <1>2, ThrowMarks DEF Run, AtStage, Broken, Trouble, BeforeRun, PassedBy, Known, Unwind, Lasts
  <1>6. QED
    BY <1>1, <1>2, <1>3, <1>4, <1>5, OneRequest DEF Lasts

LEMMA CaptureKeeps == ASSUME NestedInv, NEW r \in Requests, Capture(r) PROVE NestedInv'
  <1> USE DEF NestedInv, NestedType
  <1>1. req[r] \in {"capture", "suspended"} /\ BeforeRun(r) /\ PassedBy(r) /\ Known(r) /\ session.life # "sealed"
    BY DEF Capture, Unattributed, AtStage, SealedOver, PassedBy, Handled
  <1>2. Lasts
    BY BrokenMarks, SameSession, Marked DEF Capture, Unattributed
  <1>3. NestedType'
    BY <1>1, <1>2, BrokenMarks, Marked DEF Capture, Unattributed, Lasts, Sessions, BeforeRun, PassedBy, Unwind
  <1>4. \A q \in Requests \ {r} :
           /\ req'[q] = req[q] /\ answer'[q] = answer[q] /\ domain'[q] = domain[q] /\ writer'[q] = writer[q]
           /\ proof'[q] = proof[q] /\ ran'[q] = ran[q]
    BY <1>1, Marked DEF Capture, Unattributed, AtStage, Broken, Trouble, Unwind
  <1>5. BeforeRun(r)' /\ PassedBy(r)' /\ Known(r)'
    BY <1>1, <1>2, Marked DEF Capture, Unattributed, AtStage, Broken, Trouble, BeforeRun, PassedBy, Known, Unwind, Lasts
  <1>6. QED
    BY <1>1, <1>2, <1>3, <1>4, <1>5, OneRequest DEF Lasts

LEMMA FinallyKeeps == ASSUME NestedInv, NEW r \in Requests, Finally(r) PROVE NestedInv'
  <1> USE DEF NestedInv, NestedType
  <1>1. req[r] = "unwind" /\ BeforeRun(r) /\ PassedBy(r) /\ Known(r) /\ session.life # "sealed"
    BY DEF Finally, AtStage, SealedOver, PassedBy, Handled
  <1>2. Lasts
    BY BrokenMarks, SameSession DEF Finally
  <1>3. NestedType'
    BY <1>1, <1>2, BrokenMarks DEF Finally, Lasts, Sessions, BeforeRun, PassedBy, Unwind
  <1>4. \A q \in Requests \ {r} :
           /\ req'[q] = req[q] /\ answer'[q] = answer[q] /\ domain'[q] = domain[q] /\ writer'[q] = writer[q]
           /\ proof'[q] = proof[q] /\ ran'[q] = ran[q]
    BY <1>1 DEF Finally, AtStage, Broken, Trouble, Unwind
  <1>5. BeforeRun(r)' /\ PassedBy(r)' /\ Known(r)'
    BY <1>1, <1>2 DEF Finally, AtStage, Broken, Trouble, BeforeRun, PassedBy, Known, Unwind, Lasts
  <1>6. QED
    BY <1>1, <1>2, <1>3, <1>4, <1>5, OneRequest DEF Lasts

LEMMA RunNativelyKeeps == ASSUME NestedInv, NEW r \in Requests, RunNatively(r) PROVE NestedInv'
  BY DEF NestedInv, NestedType, SealedOver, BeforeRun, PassedBy, Known, RunNatively, Handled, AtStage

LEMMA SessionKeeps == ASSUME NestedInv, Abort \/ Seal PROVE NestedInv'
  <1>1. NestedType'
    BY DEF NestedInv, NestedType, Abort, Seal, Trouble
  <1>2. session'.incomplete = session.incomplete /\ UNCHANGED <<req, answer, domain, writer, proof, ran>>
    BY DEF NestedInv, NestedType, Abort, Seal
  <1>3. SealedOver'
    BY DEF NestedInv, NestedType, SealedOver, Abort, Seal, Handled, AtStage
  <1>4. QED
    BY <1>1, <1>2, <1>3 DEF NestedInv, BeforeRun, PassedBy, Known

\* For any requests and failures: nothing of a request ran before its handler reached its run, what was
\* passed by ran in its parent's trace only, and the session knows of the rest (executeRequest).
THEOREM NestedInvariance == NestedSpec => []NestedInv
  <1>1. NestedInv /\ [NestedNext]_nestedVars => NestedInv'
    <2> SUFFICES ASSUME NestedInv, [NestedNext]_nestedVars PROVE NestedInv'
      OBVIOUS
    <2>1. ASSUME NEW r \in Requests, RequestStep(r) PROVE NestedInv'
      BY <2>1, InspectKeeps, AcquireWorkKeeps, ReplayKeeps, PrepareKeeps, ResumeDomainKeeps, RunKeeps, CaptureKeeps, FinallyKeeps,
         RunNativelyKeeps DEF RequestStep
    <2>2. CASE UNCHANGED nestedVars
      BY <2>2 DEF nestedVars, NestedInv, NestedType, SealedOver, BeforeRun, PassedBy, Known
    <2>3. QED
      BY <2>1, <2>2, SessionKeeps DEF NestedNext
  <1>2. QED
    BY <1>1, NestedStart, PTL DEF NestedSpec

\* The effects of a process are made at most once, and a session that is sealed as complete knows of
\* every process it ran (the catches of executeRequest).
THEOREM EffectsHappenOnce == NestedSpec => [](EffectsOnce /\ NothingUnseen)
  <1>1. NestedInv => EffectsOnce
    BY DEF NestedInv, NestedType, EffectsOnce
  <1>2. NestedInv => NothingUnseen
    <2> SUFFICES ASSUME NestedInv, session.life = "sealed", ~session.incomplete, NEW r \in Requests, ran[r] > 0
                 PROVE  proof[r] # "none" \/ domain[r] = "native"
      BY DEF NothingUnseen
    <2>1. req[r] = "done" /\ Known(r)
      BY DEF NestedInv, NestedType, SealedOver, BeforeRun
    <2>2. QED
      BY <2>1 DEF Known
  <1>3. QED
    BY <1>1, <1>2, NestedInvariance, PTL
-----------------------------------------------------------------------------
LEMMA ChildStart == ChildInit => ChildInv
  <1> SUFFICES ASSUME ChildInit PROVE ChildInv
    OBVIOUS
  <1>1. Reserving = {} /\ Claiming = {}
    BY DEF ChildInit, Reserving, Claiming
  <1>2. Cardinality({}) = 0
    BY FS_EmptySet
  <1>3. ChildType /\ OneClaim /\ \A p \in Processes : Slot(p) /\ Plan(p)
    BY DEF ChildInit, ChildType, OneClaim, HasClaim, Slot, Plan, Deciding
  <1>4. ChildTotals
    BY <1>1, <1>2 DEF ChildInit, ChildTotals
  <1>5. QED
    BY <1>3, <1>4 DEF ChildInv

LEMMA ChildFinite == IsFiniteSet(Reserving) /\ IsFiniteSet(Claiming)
  BY ChildSetting, FS_Subset DEF Reserving, Claiming

\* What one process's step makes of the counts.
LEMMA ChildCounts ==
  ASSUME ChildInv, ChildType', NEW p \in Processes, \A q \in Processes \ {p} : proc'[q] = proc[q],
         observation'.pending = observation.pending + (IF proc'[p].reserved THEN 1 ELSE 0) - (IF proc[p].reserved THEN 1 ELSE 0),
         observation'.claims = observation.claims + (IF proc'[p].pc \in {"replay", "adopted"} THEN 1 ELSE 0)
                                                  - (IF proc[p].pc \in {"replay", "adopted"} THEN 1 ELSE 0)
  PROVE  ChildTotals'
  <1>0. observation.pending \in Int /\ observation.claims \in Int /\ ChildTotals
    BY DEF ChildInv, ChildType
  <1>1. observation'.pending = Cardinality(Reserving')
    <2>1. CASE proc'[p].reserved = proc[p].reserved
      <3>1. Reserving' = Reserving
        BY <2>1 DEF Reserving, ChildType
      <3>2. QED
        BY <2>1, <3>1 DEF ChildInv, ChildType, ChildTotals
    <2>2. CASE proc'[p].reserved /\ ~proc[p].reserved
      <3>1. Reserving' = Reserving \cup {p} /\ p \notin Reserving
        BY <2>2 DEF Reserving
      <3>2. QED
        <4>1. Cardinality(Reserving') = Cardinality(Reserving) + 1
          BY <3>1, ChildFinite, FS_AddElement
        <4>2. QED
          BY <1>0, <2>2, <4>1 DEF ChildTotals
    <2>3. CASE ~proc'[p].reserved /\ proc[p].reserved
      <3>1. Reserving' = Reserving \ {p} /\ p \in Reserving
        BY <2>3 DEF Reserving
      <3>2. QED
        <4>1. Cardinality(Reserving') = Cardinality(Reserving) - 1
          BY <3>1, ChildFinite, FS_RemoveElement
        <4>2. QED
          BY <1>0, <2>3, <4>1 DEF ChildTotals
    <2>4. proc'[p].reserved \in BOOLEAN /\ proc[p].reserved \in BOOLEAN
      BY DEF ChildInv, ChildType
    <2>5. QED
      BY <2>1, <2>2, <2>3, <2>4
  <1>2. observation'.claims = Cardinality(Claiming')
    <2> DEFINE is == proc[p].pc \in {"replay", "adopted"}
               will == proc'[p].pc \in {"replay", "adopted"}
    <2>1. CASE is = will
      <3>1. Claiming' = Claiming
        BY <2>1 DEF Claiming
      <3>2. QED
        <4>1. observation'.claims = observation.claims + (IF is THEN 1 ELSE 0) - (IF is THEN 1 ELSE 0)
          BY <2>1
        <4>2. observation'.claims = observation.claims
          BY <1>0, <4>1
        <4>3. QED
          BY <1>0, <3>1, <4>2 DEF ChildTotals
    <2>2. CASE will /\ ~is
      <3>1. Claiming' = Claiming \cup {p} /\ p \notin Claiming
        BY <2>2 DEF Claiming
      <3>2. QED
        <4>1. Cardinality(Claiming') = Cardinality(Claiming) + 1
          BY <3>1, ChildFinite, FS_AddElement
        <4>2. QED
          BY <1>0, <2>2, <4>1 DEF ChildTotals
    <2>3. CASE ~will /\ is
      <3>1. Claiming' = Claiming \ {p} /\ p \in Claiming
        BY <2>3 DEF Claiming
      <3>2. QED
        <4>1. Cardinality(Claiming') = Cardinality(Claiming) - 1
          BY <3>1, ChildFinite, FS_RemoveElement
        <4>2. QED
          BY <1>0, <2>3, <4>1 DEF ChildTotals
    <2>4. QED
      BY <2>1, <2>2, <2>3
  <1>3. QED
    BY <1>1, <1>2 DEF ChildTotals

\* A step of one process that neither takes nor gives back a claim on the checkpoint.
LEMMA ChildFrame ==
  ASSUME ChildInv, ChildType', NEW p \in Processes,
         \A q \in Processes \ {p} : proc'[q] = proc[q] /\ acquired'[q] = acquired[q],
         observation'.pending = observation.pending + (IF proc'[p].reserved THEN 1 ELSE 0) - (IF proc[p].reserved THEN 1 ELSE 0),
         observation'.claims = observation.claims + (IF proc'[p].pc \in {"replay", "adopted"} THEN 1 ELSE 0)
                                                  - (IF proc[p].pc \in {"replay", "adopted"} THEN 1 ELSE 0),
         Slot(p)', Plan(p)',
         \/ HasClaim(p)' = HasClaim(p) /\ checkpoint' = checkpoint
         \/ HasClaim(p)' /\ checkpoint = "stored" /\ checkpoint' = "claimed"
         \/ HasClaim(p) /\ ~HasClaim(p)' /\ checkpoint' # "claimed"
  PROVE  ChildInv'
  <1>1. ChildTotals'
    BY ChildCounts
  <1>2. \A q \in Processes : Slot(q)' /\ Plan(q)'
    BY DEF ChildInv, Slot, Plan
  <1>3. \A q \in Processes \ {p} : HasClaim(q)' = HasClaim(q)
    BY DEF HasClaim
  <1>4. OneClaim'
    <2>1. CASE HasClaim(p)' = HasClaim(p) /\ checkpoint' = checkpoint
      BY <1>3, <2>1 DEF ChildInv, OneClaim
    <2>2. CASE HasClaim(p)' /\ checkpoint = "stored" /\ checkpoint' = "claimed"
      BY <1>3, <2>2 DEF ChildInv, OneClaim
    <2>3. CASE HasClaim(p) /\ ~HasClaim(p)' /\ checkpoint' # "claimed"
      BY <1>3, <2>3 DEF ChildInv, OneClaim
    <2>4. QED
      BY <2>1, <2>2, <2>3
  <1>5. QED
    BY <1>1, <1>2, <1>4 DEF ChildInv

Observing == [closed : BOOLEAN, pending : Int, claims : Int, bindings : SUBSET Processes, learned : SUBSET Processes]
Launches == [pc : {"new", "resolve", "replay", "watched", "done", "adopted"} \cup Deciding, learning : BOOLEAN, reserved : BOOLEAN]

LEMMA ChildKnown ==
  ASSUME ChildInv
  PROVE  /\ observation \in Observing /\ observation.pending \in Int /\ observation.claims \in Int
         /\ \A p \in Processes : proc[p] \in Launches
         /\ DOMAIN proc = Processes
  BY DEF ChildInv, ChildType, Observing, Launches

\* The decision to run a launch: its slot stays with what is watched, and goes back otherwise.
LEMMA ContinueFields ==
  ASSUME ChildInv, NEW p \in Processes, NEW watched \in BOOLEAN, Continue(p, watched), proc[p].pc \in {"resolve"} \cup Deciding
  PROVE  /\ observation' \in Observing /\ observation'.claims = observation.claims
         /\ observation'.pending = observation.pending - (IF proc[p].reserved /\ ~watched THEN 1 ELSE 0)
         /\ proc' \in [Processes -> Launches] /\ \A q \in Processes \ {p} : proc'[q] = proc[q]
         /\ proc'[p].pc = IF watched THEN "watched" ELSE "done"
         /\ proc'[p].reserved = (proc[p].reserved /\ watched)
  <1>1. /\ observation' \in Observing /\ observation'.claims = observation.claims
        /\ observation'.pending = observation.pending - (IF proc[p].reserved /\ ~watched THEN 1 ELSE 0)
    <2>1. CASE proc[p].reserved /\ ~watched
      <3>1. observation' = [observation EXCEPT !.pending = observation.pending - 1]
        BY <2>1 DEF Continue
      <3>2. QED
        BY <2>1, <3>1, ChildKnown DEF Observing
    <2>2. CASE ~(proc[p].reserved /\ ~watched)
      BY <2>2, ChildKnown DEF Continue
    <2>3. QED
      BY <2>1, <2>2
  <1>2. proc[p] \in Launches /\ proc[p].pc # "new"
    BY ChildKnown DEF Deciding
  <1>3. proc' = [proc EXCEPT ![p].pc = IF watched THEN "watched" ELSE "done", ![p].reserved = proc[p].reserved /\ watched]
    BY <1>2 DEF Continue
  <1>4. QED
    BY <1>1, <1>2, <1>3, ChildKnown DEF Launches

\* A launch moves: of its fields only those named change.
LEMMA LaunchMoves ==
  ASSUME ChildInv, NEW p \in Processes, NEW pc \in {"new", "resolve", "replay", "watched", "done", "adopted"} \cup Deciding,
         NEW learning \in BOOLEAN, NEW reserved \in BOOLEAN,
         \/ proc' = [proc EXCEPT ![p].pc = pc] /\ learning = proc[p].learning /\ reserved = proc[p].reserved
         \/ proc' = [proc EXCEPT ![p].pc = pc, ![p].learning = learning] /\ reserved = proc[p].reserved
         \/ proc' = [proc EXCEPT ![p].pc = pc, ![p].reserved = reserved] /\ learning = proc[p].learning
  PROVE  /\ proc' \in [Processes -> Launches] /\ \A q \in Processes \ {p} : proc'[q] = proc[q]
         /\ proc'[p].pc = pc /\ proc'[p].learning = learning /\ proc'[p].reserved = reserved
  BY ChildKnown DEF Launches

LEMMA ContinueKeeps ==
  ASSUME ChildInv, NEW p \in Processes, NEW watched \in BOOLEAN, Continue(p, watched), proc[p].pc \in {"resolve"} \cup Deciding,
         watched => proc[p].reserved,
         acquired' \in [Processes -> {"none", "live", "checkpoint"}], \A q \in Processes \ {p} : acquired'[q] = acquired[q], acquired'[p] = "none",
         \/ ~HasClaim(p) /\ checkpoint' = checkpoint
         \/ HasClaim(p) /\ checkpoint' \in {"stored", "consumed"}
  PROVE  ChildInv'
  <1>1. /\ observation' \in Observing /\ observation'.claims = observation.claims
        /\ observation'.pending = observation.pending - (IF proc[p].reserved /\ ~watched THEN 1 ELSE 0)
        /\ proc' \in [Processes -> Launches] /\ \A q \in Processes \ {p} : proc'[q] = proc[q]
        /\ proc'[p].pc = IF watched THEN "watched" ELSE "done"
        /\ proc'[p].reserved = (proc[p].reserved /\ watched)
    BY ContinueFields
  <1>2. ChildType'
    BY <1>1 DEF ChildInv, ChildType, Observing, Launches
  <1>3. observation.pending \in Int /\ observation.claims \in Int /\ proc[p].reserved \in BOOLEAN
    BY ChildKnown DEF Launches
  <1>4. observation'.pending = observation.pending + (IF proc'[p].reserved THEN 1 ELSE 0) - (IF proc[p].reserved THEN 1 ELSE 0)
    BY <1>1, <1>3
  <1>5. proc'[p].pc \notin {"replay", "adopted"} /\ proc[p].pc \notin {"replay", "adopted"}
    BY <1>1 DEF Deciding
  <1>6. observation'.claims = observation.claims + (IF proc'[p].pc \in {"replay", "adopted"} THEN 1 ELSE 0)
                                                  - (IF proc[p].pc \in {"replay", "adopted"} THEN 1 ELSE 0)
    BY <1>1, <1>3, <1>5
  <1>7. Slot(p)' /\ Plan(p)' /\ ~HasClaim(p)'
    BY <1>1 DEF Slot, Plan, HasClaim, Deciding
  <1>8. HasClaim(p) \in BOOLEAN /\ HasClaim(p)' \in BOOLEAN
    BY DEF HasClaim
  <1>9. QED
    BY <1>1, <1>2, <1>4, <1>6, <1>7, <1>8, ChildFrame

LEMMA BeginKeeps == ASSUME ChildInv, NEW p \in Processes, Begin(p) PROVE ChildInv'
  <1>1. proc[p] \in Launches /\ proc[p].pc = "new" /\ Slot(p) /\ Plan(p)
    BY ChildKnown DEF Begin, ChildAt, ChildInv
  <1>2. PICK learning \in BOOLEAN : proc' = [proc EXCEPT ![p].pc = "resolve", ![p].learning = learning]
    BY <1>1 DEF Begin
  <1>3. proc[p].reserved = FALSE /\ acquired[p] = "none" /\ UNCHANGED <<observation, acquired, checkpoint>>
    BY <1>1 DEF Begin, Slot, Plan, Deciding, ChildInv, ChildType, Launches
  <1>4. /\ proc' \in [Processes -> Launches] /\ \A q \in Processes \ {p} : proc'[q] = proc[q]
        /\ proc'[p].pc = "resolve" /\ proc'[p].reserved = FALSE
    BY <1>2, <1>3, LaunchMoves
  <1>5. ChildType'
    BY <1>3, <1>4 DEF ChildInv, ChildType, Launches
  <1>6. Slot(p)' /\ Plan(p)' /\ ~HasClaim(p)' /\ ~HasClaim(p)
    BY <1>3, <1>4 DEF Slot, Plan, HasClaim, Deciding
  <1>7. HasClaim(p) \in BOOLEAN /\ HasClaim(p)' \in BOOLEAN
    BY DEF HasClaim
  <1>8. /\ observation'.pending = observation.pending + (IF proc'[p].reserved THEN 1 ELSE 0) - (IF proc[p].reserved THEN 1 ELSE 0)
        /\ observation'.claims = observation.claims + (IF proc'[p].pc \in {"replay", "adopted"} THEN 1 ELSE 0)
                                                  - (IF proc[p].pc \in {"replay", "adopted"} THEN 1 ELSE 0)
    BY <1>1, <1>3, <1>4, ChildKnown
  <1>9. QED
    BY <1>3, <1>4, <1>5, <1>6, <1>7, <1>8, ChildFrame

LEMMA ResolveKeeps == ASSUME ChildInv, NEW p \in Processes, Resolve(p) PROVE ChildInv'
  <1>1. proc[p] \in Launches /\ proc[p].pc = "resolve" /\ Slot(p) /\ Plan(p) /\ UNCHANGED <<acquired, checkpoint>>
    BY ChildKnown DEF Resolve, ChildAt, ChildInv
  <1>2. proc[p].reserved = FALSE /\ acquired[p] = "none" /\ ~HasClaim(p) /\ proc[p].learning \in BOOLEAN
    BY <1>1 DEF Slot, Plan, HasClaim, Deciding, ChildInv, ChildType, Launches
  <1>3. CASE Continue(p, FALSE)
    BY <1>1, <1>2, <1>3, ContinueKeeps DEF ChildInv, ChildType
  <1>4. CASE /\ proc' = [proc EXCEPT ![p].pc = "inspect", ![p].reserved = proc[p].learning]
             /\ observation' = [observation EXCEPT !.pending = @ + (IF proc[p].learning THEN 1 ELSE 0)]
    <2>1. proc' = [proc EXCEPT ![p].pc = "inspect", ![p].reserved = proc[p].learning]
      BY <1>4
    <2>2. /\ proc' \in [Processes -> Launches] /\ \A q \in Processes \ {p} : proc'[q] = proc[q]
          /\ proc'[p].pc = "inspect" /\ proc'[p].reserved = proc[p].learning /\ proc'[p].learning = proc[p].learning
      BY <1>2, <2>1, LaunchMoves DEF Deciding
    <2>3. observation' \in Observing /\ observation'.pending = observation.pending + (IF proc[p].learning THEN 1 ELSE 0)
          /\ observation'.claims = observation.claims
      BY <1>4, ChildKnown DEF Observing
    <2>4. ChildType'
      BY <1>1, <2>2, <2>3 DEF ChildInv, ChildType, Launches, Observing
    <2>5. Slot(p)' /\ Plan(p)' /\ ~HasClaim(p)'
      BY <1>1, <1>2, <2>2 DEF Slot, Plan, HasClaim, Deciding
    <2>6. observation'.pending = observation.pending + (IF proc'[p].reserved THEN 1 ELSE 0) - (IF proc[p].reserved THEN 1 ELSE 0)
      BY <1>2, <2>2, <2>3, ChildKnown
    <2>7. observation'.claims = observation.claims + (IF proc'[p].pc \in {"replay", "adopted"} THEN 1 ELSE 0)
                                                  - (IF proc[p].pc \in {"replay", "adopted"} THEN 1 ELSE 0)
      BY <1>1, <2>2, <2>3, ChildKnown
    <2>8. HasClaim(p) \in BOOLEAN /\ HasClaim(p)' \in BOOLEAN
      BY DEF HasClaim
    <2>9. QED
      BY <1>1, <1>2, <2>2, <2>4, <2>5, <2>6, <2>7, <2>8, ChildFrame
  <1>5. QED
    BY <1>3, <1>4 DEF Resolve

\* A decision that goes on keeps its slot.
LEMMA Advances ==
  ASSUME ChildInv, NEW p \in Processes, NEW to \in Deciding, proc[p].pc \in Deciding, proc' = [proc EXCEPT ![p].pc = to],
         UNCHANGED observation, acquired' \in [Processes -> {"none", "live", "checkpoint"}],
         \A q \in Processes \ {p} : acquired'[q] = acquired[q],
         acquired'[p] # "none" => to \in {"claim", "decide"}, to = "claim" => acquired'[p] = "checkpoint", ~HasClaim(p),
         \/ ~(acquired'[p] = "checkpoint" /\ to = "decide") /\ checkpoint' = checkpoint
         \/ acquired'[p] = "checkpoint" /\ to = "decide" /\ checkpoint = "stored" /\ checkpoint' = "claimed"
  PROVE  ChildInv'
  <1>1. /\ proc' \in [Processes -> Launches] /\ \A q \in Processes \ {p} : proc'[q] = proc[q]
        /\ proc'[p].pc = to /\ proc'[p].learning = proc[p].learning /\ proc'[p].reserved = proc[p].reserved
    BY ChildKnown, LaunchMoves DEF Launches
  <1>2. checkpoint' \in {"stored", "claimed", "consumed"}
    BY DEF ChildInv, ChildType
  <1>3. ChildType'
    BY <1>1, <1>2 DEF ChildInv, ChildType, Launches
  <1>4. Slot(p)' /\ Plan(p)'
    BY <1>1 DEF Slot, Plan, Deciding, ChildInv
  <1>5. HasClaim(p)' <=> acquired'[p] = "checkpoint" /\ to = "decide"
    BY <1>1 DEF HasClaim, Deciding
  <1>6. HasClaim(p) \in BOOLEAN /\ HasClaim(p)' \in BOOLEAN
    BY DEF HasClaim
  <1>7. to \notin {"replay", "adopted"} /\ proc[p].pc \notin {"replay", "adopted"} /\ proc[p].reserved \in BOOLEAN
    BY ChildKnown DEF Deciding, Launches
  <1>8. /\ observation'.pending = observation.pending + (IF proc'[p].reserved THEN 1 ELSE 0) - (IF proc[p].reserved THEN 1 ELSE 0)
        /\ observation'.claims = observation.claims + (IF proc'[p].pc \in {"replay", "adopted"} THEN 1 ELSE 0)
                                                  - (IF proc[p].pc \in {"replay", "adopted"} THEN 1 ELSE 0)
    BY <1>1, <1>7, ChildKnown
  <1>9. QED
    BY <1>1, <1>3, <1>4, <1>5, <1>6, <1>8, ChildFrame

LEMMA InspectLaunchKeeps == ASSUME ChildInv, NEW p \in Processes, InspectLaunch(p) PROVE ChildInv'
  <1>1. proc[p] \in Launches /\ proc[p].pc = "inspect" /\ Slot(p) /\ Plan(p) /\ UNCHANGED <<acquired, checkpoint>>
    BY ChildKnown DEF InspectLaunch, ChildAt, ChildInv
  <1>2. proc[p].reserved = proc[p].learning /\ acquired[p] = "none" /\ ~HasClaim(p) /\ proc[p].learning \in BOOLEAN
        /\ acquired \in [Processes -> {"none", "live", "checkpoint"}]
    BY <1>1 DEF Slot, Plan, HasClaim, Deciding, ChildInv, ChildType, Launches
  <1>3. ASSUME NEW watched \in {FALSE, proc[p].learning}, Continue(p, watched) PROVE ChildInv'
    BY <1>1, <1>2, <1>3, ContinueKeeps DEF Deciding
  <1>4. CASE proc' = [proc EXCEPT ![p].pc = "acquire"] /\ UNCHANGED observation
    BY <1>1, <1>2, <1>4, Advances DEF Deciding
  <1>5. QED
    BY <1>3, <1>4 DEF InspectLaunch

LEMMA AcquireResultKeeps == ASSUME ChildInv, NEW p \in Processes, AcquireResult(p) PROVE ChildInv'
  <1>1. proc[p] \in Launches /\ proc[p].pc = "acquire" /\ Slot(p) /\ Plan(p) /\ UNCHANGED checkpoint
    BY ChildKnown DEF AcquireResult, ChildAt, ChildInv
  <1>2. proc[p].reserved = proc[p].learning /\ acquired[p] = "none" /\ ~HasClaim(p) /\ proc[p].learning \in BOOLEAN
        /\ acquired \in [Processes -> {"none", "live", "checkpoint"}]
    BY <1>1 DEF Slot, Plan, HasClaim, Deciding, ChildInv, ChildType, Launches
  <1>3. CASE Continue(p, proc[p].learning) /\ UNCHANGED acquired
    BY <1>1, <1>2, <1>3, ContinueKeeps DEF Deciding
  <1>4. ASSUME NEW found \in {"live", "checkpoint"}, acquired' = [acquired EXCEPT ![p] = found],
               proc' = [proc EXCEPT ![p].pc = IF found = "live" THEN "decide" ELSE "claim"], UNCHANGED observation
        PROVE  ChildInv'
    <2>1. acquired' \in [Processes -> {"none", "live", "checkpoint"}] /\ \A q \in Processes \ {p} : acquired'[q] = acquired[q]
      BY <1>2, <1>4
    <2>2. acquired'[p] = found
      BY <1>2, <1>4
    <2>3. CASE found = "live"
      BY <1>1, <1>2, <1>4, <2>1, <2>2, <2>3, Advances DEF Deciding
    <2>4. CASE found = "checkpoint"
      BY <1>1, <1>2, <1>4, <2>1, <2>2, <2>4, Advances DEF Deciding
    <2>5. QED
      BY <2>3, <2>4
  <1>5. QED
    BY <1>3, <1>4 DEF AcquireResult

LEMMA ClaimCheckpointKeeps == ASSUME ChildInv, NEW p \in Processes, ClaimCheckpoint(p) PROVE ChildInv'
  <1>1. proc[p] \in Launches /\ proc[p].pc = "claim" /\ Slot(p) /\ Plan(p)
    BY ChildKnown DEF ClaimCheckpoint, ChildAt, ChildInv
  <1>2. proc[p].reserved = proc[p].learning /\ acquired[p] = "checkpoint" /\ ~HasClaim(p) /\ proc[p].learning \in BOOLEAN
        /\ acquired \in [Processes -> {"none", "live", "checkpoint"}]
    BY <1>1 DEF Slot, Plan, HasClaim, Deciding, ChildInv, ChildType, Launches
  <1>3. CASE checkpoint = "stored"
    BY <1>1, <1>2, <1>3, Advances DEF ClaimCheckpoint, Deciding
  <1>4. CASE checkpoint # "stored"
    <2>1. acquired' = [acquired EXCEPT ![p] = "none"] /\ Continue(p, proc[p].learning) /\ UNCHANGED checkpoint
      BY <1>4 DEF ClaimCheckpoint
    <2>2. /\ acquired' \in [Processes -> {"none", "live", "checkpoint"}] /\ \A q \in Processes \ {p} : acquired'[q] = acquired[q]
          /\ acquired'[p] = "none"
      BY <1>2, <2>1
    <2>3. QED
      BY <1>1, <1>2, <2>1, <2>2, ContinueKeeps DEF Deciding
  <1>5. QED
    BY <1>3, <1>4

LEMMA SettledFields ==
  ASSUME ChildInv, NEW p \in Processes, NEW consumed \in BOOLEAN, Settled(p, consumed), proc[p].pc \in {"decide", "replay"}
  PROVE  /\ acquired' \in [Processes -> {"none", "live", "checkpoint"}] /\ \A q \in Processes \ {p} : acquired'[q] = acquired[q]
         /\ acquired'[p] = "none" /\ checkpoint' \in {"stored", "claimed", "consumed"}
         /\ \/ ~HasClaim(p) /\ checkpoint' = checkpoint
            \/ HasClaim(p) /\ checkpoint' \in {"stored", "consumed"}
  BY DEF Settled, HasClaim, ChildInv, ChildType

LEMMA DecideKeeps == ASSUME ChildInv, NEW p \in Processes, DecideLaunch(p) PROVE ChildInv'
  <1>1. proc[p] \in Launches /\ proc[p].pc = "decide" /\ Slot(p) /\ Plan(p)
    BY ChildKnown DEF DecideLaunch, ChildAt, ChildInv
  <1>2. CASE Settled(p, FALSE) /\ Continue(p, FALSE)
    BY <1>1, <1>2, SettledFields, ContinueKeeps DEF Deciding
  <1>3. CASE /\ proc' = [proc EXCEPT ![p].pc = "replay", ![p].reserved = FALSE]
             /\ observation' = [observation EXCEPT !.claims = @ + 1, !.pending = @ - (IF proc[p].reserved THEN 1 ELSE 0)]
             /\ UNCHANGED <<acquired, checkpoint>>
    <2>1. /\ proc' \in [Processes -> Launches] /\ \A q \in Processes \ {p} : proc'[q] = proc[q]
          /\ proc'[p].pc = "replay" /\ proc'[p].reserved = FALSE
      BY <1>1, <1>3, LaunchMoves DEF Launches
    <2>2. /\ observation' \in Observing /\ observation'.claims = observation.claims + 1
          /\ observation'.pending = observation.pending - (IF proc[p].reserved THEN 1 ELSE 0)
      <3> DEFINE c == observation.claims + 1
                 n == observation.pending - (IF proc[p].reserved THEN 1 ELSE 0)
      <3>1. c \in Int /\ n \in Int
        BY ChildKnown
      <3>2. observation' = [observation EXCEPT !.claims = c, !.pending = n]
        BY <1>3
      <3> HIDE DEF c, n
      <3>3. observation \in Observing
        BY ChildKnown
      <3>4. observation' \in Observing /\ observation'.claims = c /\ observation'.pending = n
        BY <3>1, <3>2, <3>3 DEF Observing
      <3>5. QED
        BY <3>4 DEF c, n
    <2>3. ChildType'
      BY <1>3, <2>1, <2>2 DEF ChildInv, ChildType, Launches, Observing
    <2>4. Slot(p)' /\ Plan(p)' /\ HasClaim(p)' = HasClaim(p)
      BY <1>1, <1>3, <2>1 DEF Slot, Plan, HasClaim, Deciding
    <2>5. /\ observation'.pending = observation.pending + (IF proc'[p].reserved THEN 1 ELSE 0) - (IF proc[p].reserved THEN 1 ELSE 0)
          /\ observation'.claims = observation.claims + (IF proc'[p].pc \in {"replay", "adopted"} THEN 1 ELSE 0)
                                                    - (IF proc[p].pc \in {"replay", "adopted"} THEN 1 ELSE 0)
      BY <1>1, <2>1, <2>2, ChildKnown
    <2>6. QED
      BY <1>3, <2>1, <2>3, <2>4, <2>5, ChildFrame
  <1>4. QED
    BY <1>2, <1>3 DEF DecideLaunch

\* A replay that ends gives its plan back, and its count if it was not adopted.
LEMMA ReplayedKeeps == ASSUME ChildInv, NEW p \in Processes, Refused(p) \/ Adopted(p) PROVE ChildInv'
  <1>1. proc[p] \in Launches /\ proc[p].pc = "replay" /\ Slot(p) /\ Plan(p) /\ ~proc[p].reserved
    BY ChildKnown DEF Refused, Adopted, ChildAt, ChildInv, Slot, Deciding
  <1>2. PICK consumed \in BOOLEAN : Settled(p, consumed)
    BY DEF Refused, Adopted
  <1>3. PICK pc \in {"done", "adopted"} : proc' = [proc EXCEPT ![p].pc = pc] /\ (pc = "done" => Refused(p)) /\ (pc = "adopted" => Adopted(p))
    BY DEF Refused, Adopted
  <1>4. /\ proc' \in [Processes -> Launches] /\ \A q \in Processes \ {p} : proc'[q] = proc[q]
        /\ proc'[p].pc = pc /\ proc'[p].reserved = proc[p].reserved
    BY <1>1, <1>3, LaunchMoves DEF Launches
  <1>5. /\ observation' \in Observing /\ observation'.pending = observation.pending
        /\ observation'.claims = observation.claims - (IF pc = "done" THEN 1 ELSE 0)
    <2>1. CASE pc = "done"
      BY <1>3, <2>1, ChildKnown DEF Refused, Observing
    <2>2. CASE pc = "adopted"
      <3>1. PICK bindings \in SUBSET Processes : observation' = [observation EXCEPT !.bindings = bindings]
        BY <1>3, <2>2, ChildKnown DEF Adopted, Observing
      <3>2. QED
        BY <2>2, <3>1, ChildKnown DEF Observing
    <2>3. QED
      BY <2>1, <2>2
  <1>6. /\ acquired' \in [Processes -> {"none", "live", "checkpoint"}] /\ \A q \in Processes \ {p} : acquired'[q] = acquired[q]
        /\ acquired'[p] = "none" /\ checkpoint' \in {"stored", "claimed", "consumed"}
        /\ \/ ~HasClaim(p) /\ checkpoint' = checkpoint
           \/ HasClaim(p) /\ checkpoint' \in {"stored", "consumed"}
    BY <1>1, <1>2, SettledFields
  <1>7. ChildType'
    BY <1>4, <1>5, <1>6 DEF ChildType, Launches, Observing
  <1>8. Slot(p)' /\ Plan(p)' /\ ~HasClaim(p)'
    BY <1>1, <1>4, <1>6 DEF Slot, Plan, HasClaim, Deciding
  <1>9. HasClaim(p) \in BOOLEAN /\ HasClaim(p)' \in BOOLEAN
    BY DEF HasClaim
  <1>10. /\ observation'.pending = observation.pending + (IF proc'[p].reserved THEN 1 ELSE 0) - (IF proc[p].reserved THEN 1 ELSE 0)
         /\ observation'.claims = observation.claims + (IF proc'[p].pc \in {"replay", "adopted"} THEN 1 ELSE 0)
                                                   - (IF proc[p].pc \in {"replay", "adopted"} THEN 1 ELSE 0)
    BY <1>1, <1>4, <1>5, ChildKnown
  <1>11. QED
    BY <1>4, <1>6, <1>7, <1>8, <1>9, <1>10, ChildFrame

LEMMA WatchedKeeps == ASSUME ChildInv, NEW p \in Processes, CompleteLaunch(p) \/ Unlearned(p) PROVE ChildInv'
  <1>1. proc[p] \in Launches /\ proc[p].pc = "watched" /\ Slot(p) /\ Plan(p) /\ proc[p].reserved /\ acquired[p] = "none"
    BY ChildKnown DEF CompleteLaunch, Unlearned, ChildAt, ChildInv, ChildType, Slot, Plan
  <1>2. proc' = [proc EXCEPT ![p].pc = "done", ![p].reserved = FALSE] /\ UNCHANGED <<acquired, checkpoint>>
    BY DEF CompleteLaunch, Unlearned
  <1>3. /\ proc' \in [Processes -> Launches] /\ \A q \in Processes \ {p} : proc'[q] = proc[q]
        /\ proc'[p].pc = "done" /\ proc'[p].reserved = FALSE
    BY <1>1, <1>2, LaunchMoves DEF Launches
  <1>4. observation' \in Observing /\ observation'.pending = observation.pending - 1 /\ observation'.claims = observation.claims
    <2> DEFINE back == [observation EXCEPT !.pending = observation.pending - 1]
    <2>1. back \in Observing /\ back.pending = observation.pending - 1 /\ back.claims = observation.claims
      BY ChildKnown DEF Observing
    <2>2. observation' = back \/ \E gone : observation' = [back EXCEPT !.bindings = (back.bindings \ gone) \cup {p},
                                                                       !.learned = (back.learned \ gone) \cup {p}]
      BY DEF CompleteLaunch, Unlearned
    <2> HIDE DEF back
    <2>3. QED
      BY <2>1, <2>2 DEF Observing
  <1>5. ChildType'
    BY <1>2, <1>3, <1>4 DEF ChildInv, ChildType, Launches, Observing
  <1>6. Slot(p)' /\ Plan(p)' /\ HasClaim(p)' = HasClaim(p)
    BY <1>1, <1>2, <1>3 DEF Slot, Plan, HasClaim, Deciding
  <1>7. /\ observation'.pending = observation.pending + (IF proc'[p].reserved THEN 1 ELSE 0) - (IF proc[p].reserved THEN 1 ELSE 0)
        /\ observation'.claims = observation.claims + (IF proc'[p].pc \in {"replay", "adopted"} THEN 1 ELSE 0)
                                                  - (IF proc[p].pc \in {"replay", "adopted"} THEN 1 ELSE 0)
    BY <1>1, <1>3, <1>4, ChildKnown
  <1>8. QED
    BY <1>2, <1>3, <1>5, <1>6, <1>7, ChildFrame

LEMMA CloseKeeps == ASSUME ChildInv, Close PROVE ChildInv'
  <1>1. observation' \in Observing /\ observation'.pending = observation.pending /\ observation'.claims = observation.claims
    BY ChildKnown DEF Close, Observing
  <1>2. UNCHANGED <<proc, acquired, checkpoint>>
    BY DEF Close
  <1>3. ChildType' /\ ChildTotals'
    BY <1>1, <1>2 DEF ChildInv, ChildType, Observing, ChildTotals, Reserving, Claiming
  <1>4. QED
    BY <1>2, <1>3 DEF ChildInv, OneClaim, HasClaim, Slot, Plan

\* For any processes: slots are counted while a decision or a watch has them, claims while a replay or an
\* adoption stands, and one decision at most has the checkpoint (decideHeldExec).
THEOREM ChildInvariance == ChildSpec => []ChildInv
  <1>1. ChildInv /\ [ChildNext]_childVars => ChildInv'
    <2> SUFFICES ASSUME ChildInv, [ChildNext]_childVars PROVE ChildInv'
      OBVIOUS
    <2>1. ASSUME NEW p \in Processes, ProcessStep(p) PROVE ChildInv'
      BY <2>1, BeginKeeps, ResolveKeeps, InspectLaunchKeeps, AcquireResultKeeps, ClaimCheckpointKeeps, DecideKeeps, ReplayedKeeps,
         WatchedKeeps DEF ProcessStep
    <2>2. CASE UNCHANGED childVars
      BY <2>2 DEF childVars, ChildInv, ChildType, ChildTotals, Reserving, Claiming, OneClaim, HasClaim, Slot, Plan
    <2>3. QED
      BY <2>1, <2>2, CloseKeeps DEF ChildNext
  <1>2. QED
    BY <1>1, ChildStart, PTL DEF ChildSpec

\* When no decision is open, the slots, the claims and the checkpoint have come back (the finally blocks and
\* settle of decideHeldExec).
THEOREM SharesComeBack == ChildSpec => []SharesReturned
  <1>1. ChildInv => SharesReturned
    <2> SUFFICES ASSUME ChildInv, Still
                 PROVE  /\ observation.claims = Cardinality({p \in Processes : ChildAt(p, "adopted")})
                        /\ observation.pending = 0 /\ checkpoint # "claimed" /\ \A p \in Processes : acquired[p] = "none"
      BY DEF SharesReturned
    <2>1. Claiming = {p \in Processes : ChildAt(p, "adopted")}
      BY DEF Still, Claiming, ChildAt
    <2>2. Reserving = {}
      BY DEF Still, Reserving, ChildInv, Slot, Deciding
    <2>3. \A p \in Processes : ~HasClaim(p) /\ acquired[p] = "none"
      BY DEF Still, HasClaim, ChildInv, Plan
    <2>4. QED
      BY <2>1, <2>2, <2>3, FS_EmptySet DEF ChildInv, ChildTotals, OneClaim
  <1>2. QED
    BY <1>1, ChildInvariance, PTL

\* What a run checks of nested executions and of the children of an Actor's command holds for any numbers
\* of requests, failures and processes (linux-process-backend.ts).
THEOREM NestedIsSafe == NestedSpec /\ ChildSpec => []NestedSafe
  BY EffectsHappenOnce, SharesComeBack, PTL DEF NestedSafe
-----------------------------------------------------------------------------
(* The process session (ProcessSession). *)

SessionRecords ==
  [stage : {"none", "refused", "open", "closing", "released", "closed", "disposed"},
   kind : {"none", "tool", "operation"}, dispatch : {"none", "creating", "ready", "failed"},
   tx : BOOLEAN, discarded : BOOLEAN, server : BOOLEAN, domain : BOOLEAN]
Admissions == [state : {"none", "inspecting", "held"}, at : Nat]

SessionType ==
  /\ processSession \in SessionRecords
  /\ run \in [Executions -> {"none", "rejected", "dispatching", "executing", "done", "failed"}]
  /\ request \in [ChildRequests -> {"none", "refused", "serving", "answered"}]
  /\ sealing \in {"none", "draining", "capturing", "validating", "sealed", "failed"}
  /\ admission \in Admissions
  /\ source \in Nat

\* Nothing runs any more once the seal has drained the session, and nothing written since is missing.
DrainedQuiet ==
  /\ sealing \in {"capturing", "validating", "sealed", "failed"} => Running = {}
  /\ sealing \in {"validating", "sealed"} => evidence = written

\* What a session holds at each of its stages.
StagesTrue ==
  /\ processSession.domain <=> processSession.stage \in {"open", "closing", "released"}
  /\ processSession.stage \in {"released", "closed", "disposed"} =>
       processSession.dispatch # "creating" /\ ~processSession.server /\ sealing # "none"
  /\ processSession.stage \in {"closed", "disposed"} => sealing \in {"sealed", "failed"}
  /\ processSession.stage \in {"none", "refused"} => sealing = "none" /\ processSession.dispatch = "none"
  /\ processSession.stage = "disposed" => processSession.discarded /\ admission.state = "none"

\* The session and its seal are counted as producers while they are at work.
ProducersTrue ==
  producers = (IF processSession.stage \in {"open", "closing", "released"} THEN 1 ELSE 0)
              + (IF sealing \in {"draining", "capturing", "validating"} THEN 1 ELSE 0)

SessionInv == SessionType /\ DrainedQuiet /\ StagesTrue /\ ProducersTrue


-----------------------------------------------------------------------------
LEMMA SessionStart == SessionInit => SessionInv
  <1> SUFFICES ASSUME SessionInit PROVE SessionInv
    OBVIOUS
  <1>1. SessionType
    BY DEF SessionInit, SessionType, NoSession, SessionRecords, Admissions
  <1>2. Running = {}
    BY DEF SessionInit, Running
  <1>3. QED
    BY <1>1, <1>2 DEF SessionInit, SessionInv, NoSession, DrainedQuiet, StagesTrue, ProducersTrue

\* What is under way is in `run` and `request`.
LEMMA RunningStays == ASSUME UNCHANGED <<run, request>> PROVE Running' = Running
  BY DEF Running

LEMMA OpenKeeps == ASSUME SessionInv, Open PROVE SessionInv'
  <1>1. Running' = Running
    BY RunningStays DEF Open
  <1>2. SessionType'
    BY DEF SessionInv, SessionType, SessionRecords, Open
  <1>3. ASSUME processSession' = [processSession EXCEPT !.stage = "open", !.domain = TRUE]
        PROVE  /\ processSession'.stage = "open" /\ processSession'.domain
               /\ processSession'.dispatch = processSession.dispatch
    BY <1>3 DEF SessionInv, SessionType, SessionRecords
  <1>4. ASSUME processSession' = [processSession EXCEPT !.stage = "refused"]
        PROVE  /\ processSession'.stage = "refused" /\ processSession'.domain = processSession.domain
               /\ processSession'.dispatch = processSession.dispatch
    BY <1>4 DEF SessionInv, SessionType, SessionRecords
  <1>5. processSession.stage = "none" /\ UNCHANGED <<sealing, written, evidence, admission>>
    BY DEF Open
  <1>6. DrainedQuiet'
    BY <1>1, <1>5 DEF SessionInv, DrainedQuiet
  <1>7. StagesTrue'
    BY <1>3, <1>4, <1>5 DEF SessionInv, StagesTrue, Open
  <1>8. ProducersTrue'
    BY <1>3, <1>4, <1>5 DEF SessionInv, StagesTrue, ProducersTrue, Open
  <1>9. QED
    BY <1>2, <1>6, <1>7, <1>8 DEF SessionInv

LEMMA ExecuteKeeps == ASSUME SessionInv, NEW e \in Executions, Execute(e) PROVE SessionInv'
  <1>1. PICK kind \in {"tool", "operation"} :
          IF Admissible(kind)
          THEN /\ run' = [run EXCEPT ![e] = "dispatching"]
               /\ processSession' = [processSession EXCEPT !.kind = kind,
                    !.dispatch = IF processSession.dispatch = "none" THEN "creating" ELSE processSession.dispatch]
          ELSE run' = [run EXCEPT ![e] = "rejected"] /\ UNCHANGED processSession
    BY DEF Execute
  <1>2. CASE Admissible(kind)
    <2>1. SessionType'
      BY <1>1, <1>2 DEF SessionInv, SessionType, SessionRecords, Execute
    <2>2. sealing = "none" /\ processSession.stage \notin {"closing", "released", "closed", "none", "refused"}
      BY <1>2 DEF Admissible, LaneSealed, Execute
    <2>3. /\ processSession'.stage = processSession.stage /\ processSession'.domain = processSession.domain
          /\ UNCHANGED <<sealing, written, evidence, admission, producers>>
      BY <1>1, <1>2 DEF SessionInv, Execute, SessionType, SessionRecords
    <2>4. DrainedQuiet' /\ ProducersTrue'
      BY <2>2, <2>3 DEF SessionInv, DrainedQuiet, ProducersTrue
    <2>5. StagesTrue'
      BY <2>2, <2>3 DEF SessionInv, SessionType, SessionRecords, StagesTrue
    <2>6. QED
      BY <2>1, <2>4, <2>5 DEF SessionInv
  <1>3. CASE ~Admissible(kind)
    <2>1. SessionType'
      BY <1>1, <1>3 DEF SessionInv, SessionType, Execute
    <2>2. Running' \subseteq Running
      BY <1>1, <1>3 DEF Running, SessionInv, SessionType, Execute
    <2>3. QED
      BY <1>1, <1>3, <2>1, <2>2 DEF SessionInv, Execute, DrainedQuiet, StagesTrue, ProducersTrue
  <1>4. QED
    BY <1>2, <1>3

LEMMA DispatchKeeps == ASSUME SessionInv, Dispatch PROVE SessionInv'
  <1>1. Running' = Running
    BY RunningStays DEF Dispatch
  <1>2. SessionType'
    BY DEF SessionInv, SessionType, SessionRecords, Dispatch
  <1>3. QED
    BY <1>1, <1>2 DEF SessionInv, Dispatch, SessionType, SessionRecords, DrainedQuiet, StagesTrue, ProducersTrue

\* A run or a request that moves on while something is under way.
LEMMA BeginRunKeeps == ASSUME SessionInv, NEW e \in Executions, BeginRun(e) PROVE SessionInv'
  <1>1. e \in Running
    BY DEF BeginRun, Running
  <1>2. SessionType'
    BY DEF SessionInv, SessionType, SessionRecords, BeginRun
  <1>3. QED
    BY <1>1, <1>2 DEF SessionInv, BeginRun, SessionType, SessionRecords, DrainedQuiet, StagesTrue, ProducersTrue

LEMMA FinishKeeps == ASSUME SessionInv, NEW e \in Executions, Finish(e) PROVE SessionInv'
  <1>1. e \in Running
    BY DEF Finish, Running
  <1>2. SessionType'
    BY DEF SessionInv, SessionType, Finish
  <1>3. QED
    BY <1>1, <1>2 DEF SessionInv, Finish, DrainedQuiet, StagesTrue, ProducersTrue

LEMMA AskKeeps == ASSUME SessionInv, NEW r \in ChildRequests, Ask(r) PROVE SessionInv'
  <1>1. Running # {}
    BY DEF Ask, Running
  <1>2. SessionType'
    BY DEF SessionInv, SessionType, Ask
  <1>3. QED
    BY <1>1, <1>2 DEF SessionInv, Ask, DrainedQuiet, StagesTrue, ProducersTrue

LEMMA AnswerKeeps == ASSUME SessionInv, NEW r \in ChildRequests, Answer(r) PROVE SessionInv'
  <1>1. r \in Running
    BY DEF Answer, Running
  <1>2. SessionType'
    BY DEF SessionInv, SessionType, Answer
  <1>3. QED
    BY <1>1, <1>2 DEF SessionInv, Answer, DrainedQuiet, StagesTrue, ProducersTrue

\* The seal: it starts while the session is open, and captures once nothing runs.
LEMMA SealKeeps ==
  ASSUME SessionInv, SealSession \/ Drained \/ CaptureEvidence \/ SealValidated
  PROVE  SessionInv'
  <1>1. Running' = Running
    BY RunningStays DEF SealSession, Drained, CaptureEvidence, SealValidated
  <1>2. SessionType'
    BY DEF SessionInv, SessionType, SealSession, Drained, CaptureEvidence, SealValidated
  <1>3. CASE SealSession
    BY <1>1, <1>2, <1>3 DEF SessionInv, SealSession, DrainedQuiet, StagesTrue, ProducersTrue
  <1>4. CASE Drained
    BY <1>1, <1>2, <1>4 DEF SessionInv, Drained, DrainedQuiet, StagesTrue, ProducersTrue
  <1>5. CASE CaptureEvidence
    BY <1>1, <1>2, <1>5 DEF SessionInv, CaptureEvidence, DrainedQuiet, StagesTrue, ProducersTrue
  <1>6. CASE SealValidated
    BY <1>1, <1>2, <1>6 DEF SessionInv, SealValidated, DrainedQuiet, StagesTrue, ProducersTrue
  <1>7. QED
    BY <1>3, <1>4, <1>5, <1>6

\* The proof of the inputs, which a disposed session has given up.
LEMMA ProofKeeps == ASSUME SessionInv, Edit \/ Validate \/ Validated PROVE SessionInv'
  <1>1. Running' = Running
    BY RunningStays DEF Edit, Validate, Validated
  <1>2. SessionType'
    <2>1. CASE Edit
      BY <2>1 DEF SessionInv, SessionType, Edit
    <2>2. CASE Validate
      BY <2>2 DEF SessionInv, SessionType, Validate, Admissions
    <2>3. CASE Validated
      BY <2>3 DEF SessionInv, SessionType, Validated, Admissions
    <2>4. QED
      BY <2>1, <2>2, <2>3
  <1>3. UNCHANGED <<processSession, sealing, written, evidence, producers>>
    BY DEF Edit, Validate, Validated
  <1>4. processSession.stage = "disposed" => admission'.state = "none"
    BY DEF SessionInv, StagesTrue, Edit, Validate, Validated
  <1>5. QED
    BY <1>1, <1>2, <1>3, <1>4 DEF SessionInv, DrainedQuiet, StagesTrue, ProducersTrue

\* Closing: the broker goes with the last run, the domain with the seal, the proof at the end.
LEMMA SessionCloseKeeps ==
  ASSUME SessionInv, CloseSession \/ CloseServer \/ Release \/ Discard \/ Disposed
  PROVE  SessionInv'
  <1>1. Running' = Running
    BY RunningStays DEF CloseSession, CloseServer, Release, Discard, Disposed
  <1>2. CASE CloseSession
    <2>1. SessionType'
      BY <1>2 DEF SessionInv, SessionType, SessionRecords, CloseSession
    <2>2. QED
      BY <1>1, <1>2, <2>1 DEF SessionInv, SessionType, SessionRecords, CloseSession, DrainedQuiet, StagesTrue, ProducersTrue
  <1>3. CASE CloseServer
    <2>1. SessionType'
      BY <1>3 DEF SessionInv, SessionType, SessionRecords, CloseServer
    <2>2. QED
      BY <1>1, <1>3, <2>1 DEF SessionInv, SessionType, SessionRecords, CloseServer, DrainedQuiet, StagesTrue, ProducersTrue
  <1>4. CASE Release
    <2>1. SessionType'
      BY <1>4 DEF SessionInv, SessionType, SessionRecords, Release
    <2>2. QED
      BY <1>1, <1>4, <2>1 DEF SessionInv, SessionType, SessionRecords, Release, DrainedQuiet, StagesTrue, ProducersTrue
  <1>5. CASE Discard
    <2>1. SessionType'
      BY <1>5 DEF SessionInv, SessionType, SessionRecords, Discard
    <2>2. QED
      BY <1>1, <1>5, <2>1 DEF SessionInv, SessionType, SessionRecords, Discard, DrainedQuiet, StagesTrue, ProducersTrue
  <1>6. CASE Disposed
    <2>1. SessionType'
      BY <1>6 DEF SessionInv, SessionType, SessionRecords, Admissions, Disposed
    <2>2. QED
      BY <1>1, <1>6, <2>1 DEF SessionInv, SessionType, SessionRecords, Disposed, DrainedQuiet, StagesTrue, ProducersTrue
  <1>7. QED
    BY <1>2, <1>3, <1>4, <1>5, <1>6

LEMMA SessionStutters == ASSUME SessionInv, UNCHANGED sessionVars PROVE SessionInv'
  <1>1. Running' = Running
    BY RunningStays DEF sessionVars
  <1>2. QED
    BY <1>1 DEF sessionVars, SessionInv, SessionType, DrainedQuiet, StagesTrue, ProducersTrue

LEMMA SessionStep == SessionInv /\ [SessionNext]_sessionVars => SessionInv'
  <1> SUFFICES ASSUME SessionInv, [SessionNext]_sessionVars PROVE SessionInv'
    OBVIOUS
  <1>1. CASE UNCHANGED sessionVars
    BY <1>1, SessionStutters
  <1>2. CASE SessionNext
    BY <1>2, OpenKeeps, ExecuteKeeps, DispatchKeeps, BeginRunKeeps, FinishKeeps, AskKeeps, AnswerKeeps, SealKeeps,
       ProofKeeps, SessionCloseKeeps DEF SessionNext, SessionProgress
  <1>3. QED
    BY <1>1, <1>2

\* The inductive invariant of a process session holds in every behaviour of it.
THEOREM SessionInvariance == SessionSpec => []SessionInv
  BY SessionStart, SessionStep, PTL DEF SessionSpec

LEMMA SessionSafely == SessionInv => SealsEverything /\ DisposedHoldsNothing
  BY DEF SessionInv, DrainedQuiet, StagesTrue, ProducersTrue, SealsEverything, DisposedHoldsNothing
-----------------------------------------------------------------------------
(* The native route (NativeRouting). *)

CommandStages == {"none", "planning", "replaying", "host", "committed", "thrown", "returned"}
CommandRecords == [stage : CommandStages, effect : BOOLEAN, ran : BOOLEAN]

RouteType ==
  /\ boundary \in [Boundaries -> {"none", "probing", "ready", "closing", "unavailable", "closed"}]
  /\ heldExec \in Boundaries \cup {0}
  /\ retirement \in [state : {"none", "waiting", "closing", "resetting"}, boundary : Boundaries \cup {0}]
  /\ callback \in [Callbacks -> [stage : {"none", "waiting", "observing", "unobserved", "done"},
                                 boundary : Boundaries \cup {0}]]
  /\ command \in [Commands -> CommandRecords]

BoundariesOwned ==
  /\ \A b \in Boundaries : boundary[b] \in {"probing", "ready", "closing"} =>
       b = heldExec \/ (retirement.state \in {"waiting", "closing"} /\ b = retirement.boundary)
  /\ heldExec # 0 => retirement.state = "none"
  /\ \A b \in Boundaries : boundary[b] = "closing" => retirement.state = "closing"
  /\ retirement.state = "closing" => retirement.boundary # 0

CallbacksTrue ==
  /\ \A o \in Callbacks : callback[o].stage \in {"waiting", "observing"} => callback[o].boundary # 0
  /\ \A b \in Boundaries : boundary[b] = "closed" => Observed(b) = {}

\* A command that was replayed did not run, and before it goes either way nothing has happened.
CommandTrue(c) ==
  /\ c.stage \in {"none", "planning", "replaying", "host"} => ~c.effect /\ ~c.ran
  /\ c.stage \in {"committed", "thrown"} => ~c.ran
  /\ ~(c.effect /\ c.ran)

CommandsTrue == \A r \in Commands : CommandTrue(command[r])

RouteInv == RouteType /\ BoundariesOwned /\ CallbacksTrue /\ CommandsTrue

-----------------------------------------------------------------------------
LEMMA RouteStart == RouteInit => RouteInv
  BY RouteSetting DEF RouteInit, RouteInv, RouteType, NoRetirement, BoundariesOwned, CallbacksTrue, CommandsTrue,
     CommandTrue, CommandRecords, CommandStages

LEMMA ZeroIsNone == 0 \notin Boundaries
  BY RouteSetting

\* A boundary that is not the entry at hand and not being retired has no part in the hook.
LEMMA ProbedKeeps == ASSUME RouteInv, NEW b \in Boundaries, Probed(b) PROVE RouteInv'
  <1>1. PICK to \in {"unavailable", "ready"} : boundary' = [boundary EXCEPT ![b] = to]
    BY DEF Probed
  <1>2. RouteType'
    BY <1>1 DEF RouteInv, RouteType, Probed
  <1>3. BoundariesOwned'
    BY <1>1 DEF RouteInv, RouteType, BoundariesOwned, Probed
  <1>4. CallbacksTrue'
    BY <1>1 DEF RouteInv, RouteType, CallbacksTrue, Observed, Probed
  <1>5. CommandsTrue'
    BY DEF RouteInv, CommandsTrue, Probed
  <1>6. QED
    BY <1>2, <1>3, <1>4, <1>5 DEF RouteInv

\* The entry is given up: what it held is what is retired.
LEMMA RetireKeeps ==
  ASSUME RouteInv, Retire, retirement.state = "none", UNCHANGED <<boundary, callback, command>>
  PROVE  RouteInv'
  <1>1. retirement'.state = "waiting" /\ retirement'.boundary = heldExec /\ heldExec' = 0
    BY DEF Retire
  <1>2. RouteType'
    BY DEF RouteInv, RouteType, Retire
  <1>3. BoundariesOwned'
    BY <1>1 DEF RouteInv, BoundariesOwned
  <1>4. CallbacksTrue' /\ CommandsTrue'
    BY DEF RouteInv, CallbacksTrue, CommandsTrue, Observed
  <1>5. QED
    BY <1>2, <1>3, <1>4 DEF RouteInv

LEMMA ResetKeeps == ASSUME RouteInv, Reset PROVE RouteInv'
  BY RetireKeeps DEF Reset

LEMMA DisposeRouteKeeps == ASSUME RouteInv, DisposeRoute PROVE RouteInv'
  <1>1. CASE retirement.state = "none"
    BY <1>1, RetireKeeps DEF DisposeRoute
  <1>2. CASE retirement.state # "none"
    BY <1>2 DEF DisposeRoute, RouteInv, RouteType, BoundariesOwned, CallbacksTrue, CommandsTrue, Observed
  <1>3. QED
    BY <1>1, <1>2

LEMMA RetireReadyKeeps == ASSUME RouteInv, RetireReady PROVE RouteInv'
  <1> DEFINE b == retirement.boundary
  <1>1. b \in Boundaries \cup {0} /\ retirement.state = "waiting" /\ heldExec = 0
    BY DEF RetireReady, RouteInv, RouteType, BoundariesOwned
  <1>2. UNCHANGED <<heldExec, callback, command>>
    BY DEF RetireReady
  <1>3. CommandsTrue'
    BY <1>2 DEF RouteInv, CommandsTrue
  <1>4. CASE b # 0 /\ boundary[b] = "ready"
    <2>1. b \in Boundaries
      BY <1>1, <1>4
    <2>2. /\ retirement' = [retirement EXCEPT !.state = "closing"]
          /\ boundary' = [boundary EXCEPT ![b] = "closing"]
      BY <1>4 DEF RetireReady
    <2>3. retirement'.state = "closing" /\ retirement'.boundary = b
      BY <2>2 DEF RouteInv, RouteType
    <2>4. /\ boundary'[b] = "closing"
          /\ \A c \in Boundaries : c # b => boundary'[c] = boundary[c]
      BY <2>1, <2>2 DEF RouteInv, RouteType
    <2>5. RouteType'
      BY <1>2, <2>1, <2>2 DEF RouteInv, RouteType
    <2>6. BoundariesOwned'
      BY <1>1, <1>2, <1>4, <2>3, <2>4 DEF RouteInv, BoundariesOwned
    <2>7. CallbacksTrue'
      BY <1>2, <2>4 DEF RouteInv, CallbacksTrue, Observed
    <2>8. QED
      BY <1>3, <2>5, <2>6, <2>7 DEF RouteInv
  <1>5. CASE ~(b # 0 /\ boundary[b] = "ready")
    <2>1. /\ b # 0 => boundary[b] # "probing"
          /\ retirement' = [retirement EXCEPT !.state = "resetting"] /\ UNCHANGED boundary
      BY <1>5 DEF RetireReady
    <2>2. retirement'.state = "resetting"
      BY <2>1 DEF RouteInv, RouteType
    <2>3. RouteType'
      BY <1>2, <2>1 DEF RouteInv, RouteType
    <2>4. BoundariesOwned'
      BY ZeroIsNone, <1>1, <1>2, <1>5, <2>1, <2>2 DEF RouteInv, BoundariesOwned
    <2>5. CallbacksTrue'
      BY <1>2, <2>1 DEF RouteInv, CallbacksTrue, Observed
    <2>6. QED
      BY <1>3, <2>3, <2>4, <2>5 DEF RouteInv
  <1>6. QED
    BY <1>4, <1>5

LEMMA RetireClosedKeeps == ASSUME RouteInv, RetireClosed PROVE RouteInv'
  <1> DEFINE b == retirement.boundary
  <1>1. b \in Boundaries /\ retirement.state = "closing" /\ heldExec = 0
    BY DEF RetireClosed, RouteInv, RouteType, BoundariesOwned
  <1>2. /\ UNCHANGED <<heldExec, callback, command>>
        /\ retirement' = [retirement EXCEPT !.state = "resetting"]
        /\ boundary' = [boundary EXCEPT ![b] = "closed"]
    BY DEF RetireClosed
  <1>3. retirement'.state = "resetting"
    BY <1>2 DEF RouteInv, RouteType
  <1>4. /\ boundary'[b] = "closed"
        /\ \A c \in Boundaries : c # b => boundary'[c] = boundary[c]
    BY <1>1, <1>2 DEF RouteInv, RouteType
  <1>5. RouteType'
    BY <1>1, <1>2 DEF RouteInv, RouteType
  <1>6. BoundariesOwned'
    BY ZeroIsNone, <1>1, <1>2, <1>3, <1>4 DEF RouteInv, BoundariesOwned
  <1>7. CallbacksTrue'
    BY <1>2, <1>4 DEF RouteInv, CallbacksTrue, Observed, RetireClosed
  <1>8. CommandsTrue'
    BY <1>2 DEF RouteInv, CommandsTrue
  <1>9. QED
    BY <1>5, <1>6, <1>7, <1>8 DEF RouteInv

LEMMA ResetDoneKeeps == ASSUME RouteInv, ResetDone \/ RouteDisposed PROVE RouteInv'
  <1>1. CASE ResetDone
    BY <1>1 DEF ResetDone, NoRetirement, RouteInv, RouteType, BoundariesOwned, CallbacksTrue, CommandsTrue, Observed
  <1>2. CASE RouteDisposed
    BY <1>2 DEF RouteDisposed, RouteInv, RouteType, BoundariesOwned, CallbacksTrue, CommandsTrue, Observed
  <1>3. QED
    BY <1>1, <1>2

\* A boundary is opened only while none is at hand and none is being retired.
LEMMA SeekKeeps == ASSUME RouteInv, NEW o \in Callbacks, Seek(o) PROVE RouteInv'
  <1>1. UNCHANGED <<retirement, command>>
    BY DEF Seek
  <1>2. CommandsTrue'
    BY <1>1 DEF RouteInv, CommandsTrue
  <1>3. ASSUME NEW b \in Boundaries, HeldBoundary(b),
               callback' = [callback EXCEPT ![o] = [stage |-> "waiting", boundary |-> b]]
        PROVE  RouteInv'
    <2>1. CASE heldExec # 0
      BY <1>1, <1>2, <1>3, <2>1, ZeroIsNone
         DEF HeldBoundary, RouteInv, RouteType, BoundariesOwned, CallbacksTrue, Observed
    <2>2. CASE heldExec = 0
      <3>1. /\ boundary[b] = "none" /\ boundary' = [boundary EXCEPT ![b] = "probing"] /\ heldExec' = b
            /\ retirement.state = "none"
        BY <1>3, <2>2 DEF HeldBoundary, Admits
      <3>2. RouteType'
        BY <1>1, <1>3, <3>1 DEF RouteInv, RouteType
      <3>3. BoundariesOwned'
        BY <1>1, <2>2, <3>1, ZeroIsNone DEF RouteInv, RouteType, BoundariesOwned
      <3>4. CallbacksTrue'
        BY <1>3, <3>1, ZeroIsNone DEF RouteInv, RouteType, CallbacksTrue, Observed
      <3>5. QED
        BY <1>2, <3>2, <3>3, <3>4 DEF RouteInv
    <2>3. QED
      BY <2>1, <2>2
  <1>4. ASSUME callback' = [callback EXCEPT ![o].stage = "unobserved"], UNCHANGED <<boundary, heldExec>>
        PROVE  RouteInv'
    BY <1>1, <1>2, <1>4 DEF RouteInv, RouteType, BoundariesOwned, CallbacksTrue, Observed
  <1>5. QED
    BY <1>3, <1>4 DEF Seek

\* What a callback is observed by is ready when it begins.
LEMMA CallbackKeeps == ASSUME RouteInv, NEW o \in Callbacks, BeginCallback(o) \/ End(o) PROVE RouteInv'
  <1>1. UNCHANGED <<boundary, heldExec, retirement, command>>
    BY DEF BeginCallback, End
  <1>2. BoundariesOwned' /\ CommandsTrue'
    BY <1>1 DEF RouteInv, BoundariesOwned, CommandsTrue
  <1>3. CASE BeginCallback(o)
    BY <1>1, <1>2, <1>3 DEF BeginCallback, RouteInv, RouteType, CallbacksTrue, Observed
  <1>4. CASE End(o)
    BY <1>1, <1>2, <1>4 DEF End, RouteInv, RouteType, CallbacksTrue, Observed
  <1>5. QED
    BY <1>3, <1>4

\* The records a command moves to.
LEMMA CommandMoves ==
  ASSUME NEW c \in CommandRecords, NEW s \in CommandStages
  PROVE  /\ [c EXCEPT !.stage = s] \in CommandRecords
         /\ [c EXCEPT !.stage = s].stage = s
         /\ [c EXCEPT !.stage = s].effect = c.effect /\ [c EXCEPT !.stage = s].ran = c.ran
         /\ [c EXCEPT !.stage = s, !.effect = TRUE] \in CommandRecords
         /\ [c EXCEPT !.stage = s, !.effect = TRUE].stage = s
         /\ [c EXCEPT !.stage = s, !.effect = TRUE].ran = c.ran
         /\ [c EXCEPT !.stage = s, !.ran = TRUE] \in CommandRecords
         /\ [c EXCEPT !.stage = s, !.ran = TRUE].stage = s
         /\ [c EXCEPT !.stage = s, !.ran = TRUE].effect = c.effect
  BY DEF CommandRecords

\* A command moves alone, and its record stays true to what happened.
LEMMA CommandSteps ==
  ASSUME RouteInv, NEW r \in Commands, Request(r) \/ Planned(r) \/ Replayed(r) \/ Delivered(r) \/ RunOnHost(r)
  PROVE  \E c \in CommandRecords : command' = [command EXCEPT ![r] = c] /\ CommandTrue(c)
  <1> DEFINE c == command[r]
  <1>1. c \in CommandRecords /\ CommandTrue(c)
    BY DEF RouteInv, RouteType, CommandsTrue
  <1>2. ASSUME NEW s \in CommandStages, Goes(r, s),
               s \in {"planning", "replaying", "host"} => c.stage \in {"none", "planning", "replaying"},
               s \in {"thrown", "returned"} => c.stage = "committed", s \notin {"none", "committed"}
        PROVE  \E d \in CommandRecords : command' = [command EXCEPT ![r] = d] /\ CommandTrue(d)
    <2> DEFINE d == [c EXCEPT !.stage = s]
    <2>1. d \in CommandRecords /\ d.stage = s /\ d.effect = c.effect /\ d.ran = c.ran
      BY <1>1, CommandMoves
    <2>2. s \in {"planning", "replaying", "host", "thrown", "returned"}
      BY <1>2 DEF CommandStages
    <2>3. command' = [command EXCEPT ![r] = d]
      BY <1>2 DEF Goes
    <2> HIDE DEF d
    <2>4. CommandTrue(d)
      BY <1>1, <1>2, <2>1, <2>2 DEF CommandTrue
    <2>5. QED
      BY <2>1, <2>3, <2>4
  <1>3. CASE Request(r)
    BY <1>2, <1>3 DEF Request, CommandStages
  <1>4. CASE Planned(r)
    BY <1>2, <1>4 DEF Planned, CommandStages
  <1>5. CASE Replayed(r)
    <2>1. ASSUME NEW s \in {"committed", "thrown"},
                 command' = [command EXCEPT ![r] = [command[r] EXCEPT !.stage = s, !.effect = TRUE]]
          PROVE  \E d \in CommandRecords : command' = [command EXCEPT ![r] = d] /\ CommandTrue(d)
      <3>1. s \in CommandStages /\ c.stage = "replaying"
        BY <1>5 DEF CommandStages, Replayed
      <3> DEFINE d == [c EXCEPT !.stage = s, !.effect = TRUE]
      <3>2. d \in CommandRecords /\ d.stage = s /\ d.ran = c.ran
        BY <1>1, <3>1, CommandMoves
      <3>3. CommandTrue(d)
        BY <1>1, <3>1, <3>2 DEF CommandTrue
      <3>4. QED
        BY <2>1, <3>2, <3>3
    <2>2. QED
      BY <1>2, <1>5, <2>1 DEF Replayed, CommandStages
  <1>6. CASE Delivered(r)
    BY <1>2, <1>6 DEF Delivered, CommandStages
  <1>7. CASE RunOnHost(r)
    <2> DEFINE d == [c EXCEPT !.stage = "returned", !.ran = TRUE]
    <2>1. d \in CommandRecords /\ d.stage = "returned" /\ d.effect = c.effect
      BY <1>1, CommandMoves DEF CommandStages
    <2>2. CommandTrue(d)
      BY <1>1, <1>7, <2>1 DEF CommandTrue, RunOnHost
    <2>3. QED
      BY <1>7, <2>1, <2>2 DEF RunOnHost
  <1>8. QED
    BY <1>3, <1>4, <1>5, <1>6, <1>7

LEMMA CommandKeeps ==
  ASSUME RouteInv, NEW r \in Commands, Request(r) \/ Planned(r) \/ Replayed(r) \/ Delivered(r) \/ RunOnHost(r)
  PROVE  RouteInv'
  <1>1. UNCHANGED <<boundary, heldExec, retirement, callback>>
    BY DEF Request, Planned, Replayed, Delivered, RunOnHost
  <1>2. BoundariesOwned' /\ CallbacksTrue'
    BY <1>1 DEF RouteInv, BoundariesOwned, CallbacksTrue, Observed
  <1>3. PICK c \in CommandRecords : command' = [command EXCEPT ![r] = c] /\ CommandTrue(c)
    BY CommandSteps
  <1>4. RouteType'
    BY <1>1, <1>3 DEF RouteInv, RouteType, CommandRecords, CommandStages
  <1>5. CommandsTrue'
    BY <1>3 DEF RouteInv, RouteType, CommandsTrue
  <1>6. QED
    BY <1>2, <1>4, <1>5 DEF RouteInv

LEMMA RouteStutters == ASSUME RouteInv, UNCHANGED routeVars PROVE RouteInv'
  BY DEF routeVars, RouteInv, RouteType, BoundariesOwned, CallbacksTrue, CommandsTrue, Observed

LEMMA RouteStep == RouteInv /\ [RouteNext]_routeVars => RouteInv'
  <1> SUFFICES ASSUME RouteInv, [RouteNext]_routeVars PROVE RouteInv'
    OBVIOUS
  <1>1. CASE UNCHANGED routeVars
    BY <1>1, RouteStutters
  <1>2. CASE RouteNext
    BY <1>2, ProbedKeeps, ResetKeeps, DisposeRouteKeeps, RetireReadyKeeps, RetireClosedKeeps, ResetDoneKeeps,
       SeekKeeps, CallbackKeeps, CommandKeeps DEF RouteNext, RouteProgress
  <1>3. QED
    BY <1>1, <1>2

\* The inductive invariant of the native route holds in every behaviour of it.
THEOREM RouteInvariance == RouteSpec => []RouteInv
  BY RouteStart, RouteStep, PTL DEF RouteSpec

LEMMA RouteSafely == RouteInv => OneBoundary /\ CommandOnce
  <1> SUFFICES ASSUME RouteInv PROVE OneBoundary /\ CommandOnce
    OBVIOUS
  <1>1. ASSUME NEW b \in Boundaries, NEW c \in Boundaries,
               {boundary[b], boundary[c]} \subseteq {"probing", "ready", "closing"}
        PROVE  b = c
    BY <1>1, ZeroIsNone DEF RouteInv, BoundariesOwned
  <1>2. QED
    BY <1>1 DEF RouteInv, CallbacksTrue, CommandsTrue, CommandTrue, OneBoundary, CommandOnce
-----------------------------------------------------------------------------
(* The native owner and its connections (NativeRouting). *)

ServedStates == {"none", "queued", "dropped", "opening", "open", "cancelled", "disposed", "refused"}
SideStates == {"none", "queued", "running", "claimed", "applied", "replied", "failed"}
ConnectionRecords == [state : {"none", "open", "closing", "closed"}, worker : Workers \cup {0}]
\* An observation has a connection from the moment it is attached.
AttachedRecords ==
  [stage : {"attaching", "attached", "finishing", "done", "poisoned", "fallback"},
   mode : {"synchronous", "asynchronous"}, conn : Connections]
Unattached == [stage |-> "none", mode |-> "none", conn |-> 0]
OwnerType ==
  /\ conn \in [Connections -> ConnectionRecords]
  /\ current \in Connections \cup {0}
  /\ far \in [Connections -> {"none", "serving", "asked", "closing", "closed"}]
  /\ obs \in [Observations -> AttachedRecords \cup {Unattached}]
  /\ side \in [Observations -> SideStates]
  /\ claims \in [Observations -> Nat]
  /\ changed \subseteq Observations
  /\ nativeWork \in [Works -> [stage : {"none", "opening", "open", "gone"}, conn : Connections \cup {0}]]
  /\ served \in [Works -> ServedStates]

\* Both ends of a connection, and of a work that is sent over it.
ConnectionsTrue == \A c \in Connections : conn[c].state = "closed" => far[c] = "closed"
WorksTrue ==
  \A w \in Works :
    /\ nativeWork[w].conn = 0 <=> nativeWork[w].stage = "none"
    /\ served[w] = "none" <=> nativeWork[w].stage = "none"
    /\ nativeWork[w].stage = "gone" => served[w] \in {"dropped", "cancelled", "disposed", "refused"}
    /\ nativeWork[w].conn # 0 /\ far[nativeWork[w].conn] \in {"closing", "closed"} =>
         served[w] \in {"cancelled", "disposed", "refused"}

\* A replay that changed the host is counted for good, beside one that is only offered.
ClaimsCounted ==
  \A o \in Observations :
    /\ side[o] = "claimed" => claims[o] > 0
    /\ side[o] = "applied" => o \in changed
    /\ o \in changed => claims[o] > 0 /\ (side[o] = "claimed" => claims[o] > 1)

OwnerInv == OwnerType /\ ConnectionsTrue /\ WorksTrue /\ ClaimsCounted
-----------------------------------------------------------------------------
LEMMA OwnerStart == OwnerInit => OwnerInv
  <1> SUFFICES ASSUME OwnerInit PROVE OwnerInv
    OBVIOUS
  <1>1. OwnerType
    BY DEF OwnerInit, OwnerType, ConnectionRecords, SideStates, ServedStates, Unattached
  <1>2. QED
    BY <1>1 DEF OwnerInit, OwnerInv, ConnectionsTrue, WorksTrue, ClaimsCounted

LEMMA ConnectionsArePositive == 0 \notin Connections /\ 0 \notin Workers
  BY OwnerSetting

\* The parts of the invariant an action does not touch.
LEMMA ObservationsStay == ASSUME ClaimsCounted, UNCHANGED <<side, claims, changed>> PROVE ClaimsCounted'
  BY DEF ClaimsCounted

LEMMA WorksStay ==
  ASSUME OwnerInv, UNCHANGED <<nativeWork, served>>,
         \A c \in Connections : far'[c] \in {"closing", "closed"} => far[c] \in {"closing", "closed"}
  PROVE  WorksTrue'
  BY DEF OwnerInv, OwnerType, WorksTrue

LEMMA ConnectionsStay == ASSUME ConnectionsTrue, UNCHANGED <<conn, far>> PROVE ConnectionsTrue'
  BY DEF ConnectionsTrue

\* processOwner gives a connection, which is new and serves, or is the one at hand.
LEMMA UseGives ==
  ASSUME OwnerInv, NEW c \in Connections, Use(c)
  PROVE  /\ conn' \in [Connections -> ConnectionRecords] /\ current' = c
         /\ far' \in [Connections -> {"none", "serving", "asked", "closing", "closed"}]
         /\ \A d \in Connections : far'[d] \in {"closing", "closed"} => far[d] \in {"closing", "closed"}
         /\ ConnectionsTrue'
  <1>1. CASE c = current /\ UNCHANGED <<conn, far, current>>
    BY <1>1 DEF OwnerInv, OwnerType, ConnectionsTrue
  <1>2. CASE current' = c /\ \E g \in Workers : Connect(c, g)
    <2>1. PICK g \in Workers : Connect(c, g)
      BY <1>2
    <2> DEFINE r == [state |-> "open", worker |-> g]
    <2>2. r \in ConnectionRecords /\ r.state = "open"
      BY DEF ConnectionRecords
    <2>3. conn' = [conn EXCEPT ![c] = r] /\ far' = [far EXCEPT ![c] = "serving"]
      BY <2>1 DEF Connect
    <2> HIDE DEF r
    <2>4. QED
      BY <1>2, <2>2, <2>3 DEF OwnerInv, OwnerType, ConnectionsTrue
  <1>3. QED
    BY <1>1, <1>2 DEF Use

\* A connection that is asked to close is still served, and one that has failed stays closed.
LEMMA ClosingKeeps ==
  ASSUME OwnerInv, NEW c \in Connections, Closing(c)
  PROVE  /\ conn' \in [Connections -> ConnectionRecords] /\ current' \in Connections \cup {0}
         /\ far' \in [Connections -> {"none", "serving", "asked", "closing", "closed"}]
         /\ \A d \in Connections : far'[d] \in {"closing", "closed"} => far[d] \in {"closing", "closed"}
         /\ ConnectionsTrue'
  <1> DEFINE s == IF conn[c].state = "open" THEN "closing" ELSE conn[c].state
             e == IF conn[c].state = "open" /\ far[c] = "serving" THEN "asked" ELSE far[c]
  <1>1. /\ conn' = [conn EXCEPT ![c].state = s] /\ far' = [far EXCEPT ![c] = e]
        /\ current' = IF current = c THEN 0 ELSE current
    BY DEF Closing
  <1>2. conn \in [Connections -> ConnectionRecords] /\ conn[c] \in ConnectionRecords
    BY DEF OwnerInv, OwnerType
  <1>3. conn' \in [Connections -> ConnectionRecords]
    BY <1>1, <1>2 DEF ConnectionRecords
  <1>4. far[c] \in {"none", "serving", "asked", "closing", "closed"}
    BY DEF OwnerInv, OwnerType
  <1>5. far' \in [Connections -> {"none", "serving", "asked", "closing", "closed"}]
    BY <1>1, <1>4 DEF OwnerInv, OwnerType
  <1>6. /\ far'[c] = e /\ conn'[c].state = s
        /\ \A d \in Connections : d # c => far'[d] = far[d] /\ conn'[d] = conn[d]
    BY <1>1, <1>2 DEF ConnectionRecords, OwnerInv, OwnerType
  <1>7. \A d \in Connections : far'[d] \in {"closing", "closed"} => far[d] \in {"closing", "closed"}
    BY <1>6
  <1>8. ConnectionsTrue'
    BY <1>6 DEF OwnerInv, ConnectionsTrue
  <1>9. QED
    BY <1>1, <1>3, <1>5, <1>7, <1>8 DEF OwnerInv, OwnerType

\* A step of the connections alone.
LEMMA ClosedKeeps == ASSUME OwnerInv, NEW c \in Connections, Closed(c) PROVE OwnerInv'
  <1>1. conn' = [conn EXCEPT ![c].state = "closed"] /\ far[c] = "closed"
    BY DEF Closed
  <1>2. UNCHANGED <<current, far, obs, side, claims, changed, nativeWork, served>>
    BY DEF Closed
  <1>3. OwnerType'
    BY <1>1, <1>2 DEF OwnerInv, OwnerType, ConnectionRecords
  <1>4. ConnectionsTrue'
    BY <1>1, <1>2 DEF OwnerInv, OwnerType, ConnectionRecords, ConnectionsTrue
  <1>5. WorksTrue' /\ ClaimsCounted'
    BY <1>2, WorksStay, ObservationsStay DEF OwnerInv
  <1>6. QED
    BY <1>3, <1>4, <1>5 DEF OwnerInv

LEMMA ExitKeeps == ASSUME OwnerInv, NEW g \in Workers, Exit(g) PROVE OwnerInv'
  <1>1. /\ conn' = [c \in Connections |->
                      IF conn[c].worker = g THEN [conn[c] EXCEPT !.state = "closed"] ELSE conn[c]]
        /\ far' = [c \in Connections |-> IF conn[c].worker = g THEN "closed" ELSE far[c]]
        /\ served' = [w \in Works |-> IF nativeWork[w].conn # 0 /\ conn[nativeWork[w].conn].worker = g THEN "disposed"
                                      ELSE served[w]]
        /\ UNCHANGED <<current, obs, side, claims, changed, nativeWork>>
    BY DEF Exit
  <1>2. \A c \in Connections :
          /\ [conn[c] EXCEPT !.state = "closed"] \in ConnectionRecords
          /\ [conn[c] EXCEPT !.state = "closed"].state = "closed"
    BY DEF OwnerInv, OwnerType, ConnectionRecords
  <1>3. conn' \in [Connections -> ConnectionRecords]
    BY <1>1, <1>2 DEF OwnerInv, OwnerType
  <1>4. OwnerType'
    BY <1>1, <1>3 DEF OwnerInv, OwnerType, ServedStates
  <1>5. ConnectionsTrue'
    BY <1>1 DEF OwnerInv, ConnectionsTrue
  <1>6. WorksTrue'
    <2> SUFFICES ASSUME NEW w \in Works
                 PROVE  /\ nativeWork[w].conn = 0 <=> nativeWork[w].stage = "none"
                        /\ served'[w] = "none" <=> nativeWork[w].stage = "none"
                        /\ nativeWork[w].stage = "gone" => served'[w] \in {"dropped", "cancelled", "disposed", "refused"}
                        /\ nativeWork[w].conn # 0 /\ far'[nativeWork[w].conn] \in {"closing", "closed"} =>
                             served'[w] \in {"cancelled", "disposed", "refused"}
      BY <1>1 DEF WorksTrue
    <2>1. nativeWork[w].conn \in Connections \cup {0}
      BY DEF OwnerInv, OwnerType
    <2>2. CASE nativeWork[w].conn # 0 /\ conn[nativeWork[w].conn].worker = g
      BY <1>1, <2>1, <2>2 DEF OwnerInv, WorksTrue
    <2>3. CASE ~(nativeWork[w].conn # 0 /\ conn[nativeWork[w].conn].worker = g)
      BY <1>1, <2>1, <2>3 DEF OwnerInv, WorksTrue
    <2>4. QED
      BY <2>2, <2>3
  <1>7. ClaimsCounted'
    BY <1>1, ObservationsStay DEF OwnerInv
  <1>8. QED
    BY <1>4, <1>5, <1>6, <1>7 DEF OwnerInv

\* The worker's end closes behind its works.
LEMMA ShutKeeps == ASSUME OwnerInv, NEW c \in Connections, Shut(c) PROVE OwnerInv'
  <1>1. /\ far' = [far EXCEPT ![c] = "closing"] /\ far[c] = "asked"
        /\ \A w \in Held(c) : served[w] \notin {"queued", "dropped"}
        /\ served' = [w \in Works |-> IF w \notin Held(c) THEN served[w]
             ELSE CASE served[w] = "opening" -> "cancelled" [] served[w] = "open" -> "disposed" [] OTHER -> served[w]]
        /\ UNCHANGED <<conn, current, obs, side, claims, changed, nativeWork>>
    BY DEF Shut
  <1>2. \A w \in Works :
          /\ served'[w] \in ServedStates
          /\ w \notin Held(c) => served'[w] = served[w]
          /\ w \in Held(c) => served'[w] \in {"none", "cancelled", "disposed", "refused"}
          /\ served'[w] = "none" <=> served[w] = "none"
    BY <1>1 DEF OwnerInv, OwnerType, ServedStates
  <1>3. served' \in [Works -> ServedStates]
    BY <1>1, <1>2
  <1>4. OwnerType'
    BY <1>1, <1>3 DEF OwnerInv, OwnerType
  <1>5. ConnectionsTrue'
    BY <1>1 DEF OwnerInv, OwnerType, ConnectionsTrue
  <1>6. WorksTrue'
    <2> SUFFICES ASSUME NEW w \in Works
                 PROVE  /\ nativeWork[w].conn = 0 <=> nativeWork[w].stage = "none"
                        /\ served'[w] = "none" <=> nativeWork[w].stage = "none"
                        /\ nativeWork[w].stage = "gone" => served'[w] \in {"dropped", "cancelled", "disposed", "refused"}
                        /\ nativeWork[w].conn # 0 /\ far'[nativeWork[w].conn] \in {"closing", "closed"} =>
                             served'[w] \in {"cancelled", "disposed", "refused"}
      BY <1>1 DEF WorksTrue
    <2>1. nativeWork[w].conn \in Connections \cup {0}
      BY DEF OwnerInv, OwnerType
    <2>2. CASE w \in Held(c)
      BY <1>2, <2>2, ConnectionsArePositive DEF OwnerInv, WorksTrue, Held
    <2>3. CASE w \notin Held(c)
      <3>1. nativeWork[w].conn # c
        BY <2>3 DEF Held
      <3>2. nativeWork[w].conn # 0 => far'[nativeWork[w].conn] = far[nativeWork[w].conn]
        BY <1>1, <2>1, <3>1 DEF OwnerInv, OwnerType
      <3>3. QED
        BY <1>2, <2>3, <3>2 DEF OwnerInv, WorksTrue
    <2>4. QED
      BY <2>2, <2>3
  <1>7. ClaimsCounted'
    BY <1>1, ObservationsStay DEF OwnerInv
  <1>8. QED
    BY <1>4, <1>5, <1>6, <1>7 DEF OwnerInv

LEMMA ShutDoneKeeps == ASSUME OwnerInv, NEW c \in Connections, ShutDone(c) PROVE OwnerInv'
  <1>1. /\ far[c] = "closing" /\ far' = [far EXCEPT ![c] = "closed"]
        /\ UNCHANGED <<conn, current, obs, side, claims, changed, nativeWork, served>>
    BY DEF ShutDone
  <1>2. OwnerType'
    BY <1>1 DEF OwnerInv, OwnerType
  <1>3. ConnectionsTrue'
    BY <1>1 DEF OwnerInv, OwnerType, ConnectionsTrue
  <1>4. WorksTrue'
    BY <1>1, WorksStay DEF OwnerInv, OwnerType
  <1>5. ClaimsCounted'
    BY <1>1, ObservationsStay DEF OwnerInv
  <1>6. QED
    BY <1>2, <1>3, <1>4, <1>5 DEF OwnerInv

LEMMA DisposeBackendKeeps == ASSUME OwnerInv, DisposeBackend PROVE OwnerInv'
  <1>1. current \in Connections /\ Closing(current)
    BY DEF DisposeBackend, OwnerInv, OwnerType
  <1>2. UNCHANGED <<obs, side, claims, changed, nativeWork, served>>
    BY DEF DisposeBackend
  <1>3. /\ conn' \in [Connections -> ConnectionRecords] /\ current' \in Connections \cup {0}
        /\ far' \in [Connections -> {"none", "serving", "asked", "closing", "closed"}]
        /\ \A d \in Connections : far'[d] \in {"closing", "closed"} => far[d] \in {"closing", "closed"}
        /\ ConnectionsTrue'
    BY <1>1, ClosingKeeps
  <1>4. OwnerType'
    BY <1>2, <1>3 DEF OwnerInv, OwnerType
  <1>5. WorksTrue' /\ ClaimsCounted'
    BY <1>2, <1>3, WorksStay, ObservationsStay DEF OwnerInv
  <1>6. QED
    BY <1>3, <1>4, <1>5 DEF OwnerInv

\* Observations.
LEMMA AttachKeeps == ASSUME OwnerInv, NEW o \in Observations, Attach(o) PROVE OwnerInv'
  <1>1. PICK c \in Connections, mode \in {"synchronous", "asynchronous"} :
          /\ Use(c)
          /\ obs' = [obs EXCEPT ![o] = [stage |-> "attaching", mode |-> mode, conn |-> c]]
          /\ side' = [side EXCEPT ![o] = IF far'[c] = "serving" THEN "queued" ELSE "none"]
    BY DEF Attach
  <1>2. UNCHANGED <<claims, changed, nativeWork, served>>
    BY DEF Attach
  <1>3. /\ conn' \in [Connections -> ConnectionRecords] /\ current' = c
        /\ far' \in [Connections -> {"none", "serving", "asked", "closing", "closed"}]
        /\ \A d \in Connections : far'[d] \in {"closing", "closed"} => far[d] \in {"closing", "closed"}
        /\ ConnectionsTrue'
    BY <1>1, UseGives
  <1>4. side' \in [Observations -> SideStates] /\ side'[o] \in {"queued", "none"}
        /\ \A p \in Observations : p # o => side'[p] = side[p]
    BY <1>1 DEF OwnerInv, OwnerType, SideStates
  <1>5. obs' \in [Observations -> AttachedRecords \cup {Unattached}]
    BY <1>1 DEF OwnerInv, OwnerType, AttachedRecords
  <1>6. OwnerType'
    BY <1>2, <1>3, <1>4, <1>5 DEF OwnerInv, OwnerType
  <1>7. WorksTrue'
    BY <1>2, <1>3, WorksStay
  <1>8. ClaimsCounted'
    BY <1>2, <1>4 DEF OwnerInv, ClaimsCounted
  <1>9. QED
    BY <1>3, <1>6, <1>7, <1>8 DEF OwnerInv

\* The worker's side of one observation moves, the connections and the works stay.
LEMMA SideKeeps ==
  ASSUME OwnerInv, NEW o \in Observations,
         ObserveGate(o) \/ ClaimReplay(o) \/ Apply(o) \/ SettleReplay(o) \/ Reply(o)
  PROVE  OwnerInv'
  <1>1. UNCHANGED <<conn, current, far, obs, nativeWork, served>>
    BY DEF ObserveGate, ClaimReplay, Apply, SettleReplay, Reply
  <1>2. WorksTrue' /\ ConnectionsTrue'
    BY <1>1, WorksStay, ConnectionsStay DEF OwnerInv
  <1>3. side[o] \in SideStates /\ claims[o] \in Nat
    BY DEF OwnerInv, OwnerType
  <1>4. CASE ObserveGate(o) \/ Reply(o)
    <2>1. PICK to \in {"running", "replied", "failed"} : side' = [side EXCEPT ![o] = to]
      BY <1>4 DEF ObserveGate, Reply
    <2>2. UNCHANGED <<claims, changed>>
      BY <1>4 DEF ObserveGate, Reply
    <2>3. OwnerType'
      BY <1>1, <2>1, <2>2 DEF OwnerInv, OwnerType, SideStates
    <2>4. ClaimsCounted'
      BY <2>1, <2>2 DEF OwnerInv, OwnerType, ClaimsCounted
    <2>5. QED
      BY <1>2, <2>3, <2>4 DEF OwnerInv
  <1>5. CASE ClaimReplay(o)
    <2>1. /\ side[o] = "running" /\ side' = [side EXCEPT ![o] = "claimed"]
          /\ claims' = [claims EXCEPT ![o] = claims[o] + 1] /\ UNCHANGED changed
      BY <1>5 DEF ClaimReplay
    <2>2. OwnerType'
      BY <1>1, <1>3, <2>1 DEF OwnerInv, OwnerType, SideStates
    <2>3. ClaimsCounted'
      BY <1>3, <2>1 DEF OwnerInv, OwnerType, ClaimsCounted
    <2>4. QED
      BY <1>2, <2>2, <2>3 DEF OwnerInv
  <1>6. CASE Apply(o)
    <2>1. /\ side[o] = "claimed" /\ side' = [side EXCEPT ![o] = "applied"]
          /\ changed' = changed \cup {o} /\ UNCHANGED claims
      BY <1>6 DEF Apply
    <2>2. OwnerType'
      BY <1>1, <2>1 DEF OwnerInv, OwnerType, SideStates
    <2>3. ClaimsCounted'
      BY <2>1 DEF OwnerInv, OwnerType, ClaimsCounted
    <2>4. QED
      BY <1>2, <2>2, <2>3 DEF OwnerInv
  <1>7. CASE SettleReplay(o)
    <2>1. /\ side[o] \in {"claimed", "applied"} /\ side' = [side EXCEPT ![o] = "running"]
          /\ claims' = [claims EXCEPT ![o] = IF side[o] = "claimed" /\ claims[o] > 0 THEN claims[o] - 1 ELSE claims[o]]
          /\ UNCHANGED changed
      BY <1>7 DEF SettleReplay
    <2>2. OwnerType'
      BY <1>1, <1>3, <2>1 DEF OwnerInv, OwnerType, SideStates
    <2>3. ClaimsCounted'
      BY <1>3, <2>1 DEF OwnerInv, OwnerType, ClaimsCounted
    <2>4. QED
      BY <1>2, <2>2, <2>3 DEF OwnerInv
  <1>8. QED
    BY <1>4, <1>5, <1>6, <1>7

\* The caller's side of one observation moves alone.
LEMMA CallerKeeps ==
  ASSUME OwnerInv, NEW o \in Observations, Attached(o) \/ FinishObservation(o) \/ Completed(o)
  PROVE  OwnerInv'
  <1>1. UNCHANGED <<conn, current, far, side, claims, changed, nativeWork, served>>
    BY DEF Attached, FinishObservation, Completed
  <1>2. PICK s \in {"attached", "finishing", "done"} : obs' = [obs EXCEPT ![o].stage = s]
    BY DEF Attached, FinishObservation, Completed
  <1>3. obs[o] \in AttachedRecords
    BY DEF Attached, FinishObservation, Completed, OwnerInv, OwnerType, Unattached
  <1>4. [obs[o] EXCEPT !.stage = s] \in AttachedRecords
    BY <1>3 DEF AttachedRecords
  <1>5. OwnerType'
    BY <1>1, <1>2, <1>4 DEF OwnerInv, OwnerType
  <1>6. WorksTrue' /\ ConnectionsTrue' /\ ClaimsCounted'
    BY <1>1, WorksStay, ConnectionsStay, ObservationsStay DEF OwnerInv
  <1>7. QED
    BY <1>5, <1>6 DEF OwnerInv

\* An observation that fails closes its connection.
LEMMA FailKeeps == ASSUME OwnerInv, NEW o \in Observations, Fail(o) PROVE OwnerInv'
  <1>1. obs[o] \in AttachedRecords
    BY DEF Fail, ObservationBroken, OwnerInv, OwnerType, Unattached
  <1>2. obs[o].conn \in Connections /\ Closing(obs[o].conn)
    BY <1>1 DEF Fail, AttachedRecords
  <1>3. /\ conn' \in [Connections -> ConnectionRecords] /\ current' \in Connections \cup {0}
        /\ far' \in [Connections -> {"none", "serving", "asked", "closing", "closed"}]
        /\ \A d \in Connections : far'[d] \in {"closing", "closed"} => far[d] \in {"closing", "closed"}
        /\ ConnectionsTrue'
    BY <1>2, ClosingKeeps
  <1>4. UNCHANGED <<side, claims, changed, nativeWork, served>>
    BY DEF Fail
  <1>5. Verdict(o) \in {"poisoned", "fallback"} /\ obs' = [obs EXCEPT ![o].stage = Verdict(o)]
    BY DEF Fail, Verdict
  <1>6. [obs[o] EXCEPT !.stage = Verdict(o)] \in AttachedRecords
    BY <1>1, <1>5 DEF AttachedRecords
  <1>7. OwnerType'
    BY <1>3, <1>4, <1>5, <1>6 DEF OwnerInv, OwnerType
  <1>8. WorksTrue' /\ ClaimsCounted'
    BY <1>3, <1>4, WorksStay, ObservationsStay DEF OwnerInv
  <1>9. QED
    BY <1>3, <1>7, <1>8 DEF OwnerInv

\* Works.  A new one is refused by an end that is closing.
LEMMA OpenWorkKeeps == ASSUME OwnerInv, NEW w \in Works, OpenWork(w) PROVE OwnerInv'
  <1>1. PICK c \in Connections :
          /\ Use(c) /\ nativeWork' = [nativeWork EXCEPT ![w] = [stage |-> "opening", conn |-> c]]
          /\ served' = [served EXCEPT ![w] = IF far'[c] = "serving" THEN "queued" ELSE "refused"]
    BY DEF OpenWork
  <1>2. UNCHANGED <<obs, side, claims, changed>>
    BY DEF OpenWork
  <1>3. /\ conn' \in [Connections -> ConnectionRecords] /\ current' = c
        /\ far' \in [Connections -> {"none", "serving", "asked", "closing", "closed"}]
        /\ \A d \in Connections : far'[d] \in {"closing", "closed"} => far[d] \in {"closing", "closed"}
        /\ ConnectionsTrue'
    BY <1>1, UseGives
  <1>4. /\ nativeWork'[w].stage = "opening" /\ nativeWork'[w].conn = c
        /\ served'[w] \in {"queued", "refused"} /\ (served'[w] = "queued" => far'[c] = "serving")
        /\ \A v \in Works : v # w => nativeWork'[v] = nativeWork[v] /\ served'[v] = served[v]
    BY <1>1 DEF OwnerInv, OwnerType
  <1>5. OwnerType'
    BY <1>1, <1>2, <1>3 DEF OwnerInv, OwnerType, ServedStates
  <1>6. WorksTrue'
    <2> SUFFICES ASSUME NEW v \in Works
                 PROVE  /\ nativeWork'[v].conn = 0 <=> nativeWork'[v].stage = "none"
                        /\ served'[v] = "none" <=> nativeWork'[v].stage = "none"
                        /\ nativeWork'[v].stage = "gone" => served'[v] \in {"dropped", "cancelled", "disposed", "refused"}
                        /\ nativeWork'[v].conn # 0 /\ far'[nativeWork'[v].conn] \in {"closing", "closed"} =>
                             served'[v] \in {"cancelled", "disposed", "refused"}
      BY DEF WorksTrue
    <2>1. CASE v = w
      BY <1>3, <1>4, <2>1, ConnectionsArePositive
    <2>2. CASE v # w
      <3>1. nativeWork[v].conn \in Connections \cup {0}
        BY DEF OwnerInv, OwnerType
      <3>2. QED
        BY <1>3, <1>4, <2>2, <3>1 DEF OwnerInv, WorksTrue
    <2>3. QED
      BY <2>1, <2>2
  <1>7. ClaimsCounted'
    BY <1>2, ObservationsStay DEF OwnerInv
  <1>8. QED
    BY <1>3, <1>5, <1>6, <1>7 DEF OwnerInv

\* A step of one work, at either end.
LEMMA WorkMoves ==
  ASSUME OwnerInv, NEW w \in Works, NEW s \in {"opening", "open", "gone"}, NEW t \in ServedStates \ {"none"},
         nativeWork[w].stage # "none",
         nativeWork' = [nativeWork EXCEPT ![w].stage = s], served' = [served EXCEPT ![w] = t],
         s = "gone" => t \in {"dropped", "cancelled", "disposed", "refused"},
         far[nativeWork[w].conn] \in {"closing", "closed"} => t \in {"cancelled", "disposed", "refused"},
         UNCHANGED <<conn, current, far, obs, side, claims, changed>>
  PROVE  OwnerInv'
  <1>1. OwnerType'
    BY DEF OwnerInv, OwnerType
  <1>2. /\ nativeWork'[w].stage = s /\ nativeWork'[w].conn = nativeWork[w].conn /\ served'[w] = t
        /\ \A v \in Works : v # w => nativeWork'[v] = nativeWork[v] /\ served'[v] = served[v]
    BY DEF OwnerInv, OwnerType
  <1>3. WorksTrue'
    BY <1>2 DEF OwnerInv, WorksTrue
  <1>4. ConnectionsTrue' /\ ClaimsCounted'
    BY ConnectionsStay, ObservationsStay DEF OwnerInv
  <1>5. QED
    BY <1>1, <1>3, <1>4 DEF OwnerInv

\* A record whose stage is set to what it is stays as it is.
LEMMA StageStays ==
  ASSUME OwnerInv, NEW w \in Works
  PROVE  nativeWork = [nativeWork EXCEPT ![w].stage = nativeWork[w].stage]
  BY DEF OwnerInv, OwnerType

LEMMA ServedStays ==
  ASSUME OwnerInv, NEW w \in Works
  PROVE  served = [served EXCEPT ![w] = served[w]]
  BY DEF OwnerInv, OwnerType

LEMMA ReceiveKeeps == ASSUME OwnerInv, NEW w \in Works, Receive(w) \/ Opened(w) PROVE OwnerInv'
  <1> DEFINE s == nativeWork[w].stage
             t == CASE served[w] = "queued" -> "opening" [] served[w] = "dropped" -> "cancelled"
                    [] served[w] = "opening" -> "open" [] OTHER -> "disposed"
  <1>1. served[w] \in {"queued", "dropped", "opening", "cancelled"} /\ served' = [served EXCEPT ![w] = t]
    BY DEF Receive, Opened
  <1>2. UNCHANGED <<nativeWork, conn, current, far, obs, side, claims, changed>>
    BY DEF Receive, Opened
  <1>3. s \in {"opening", "open", "gone"} /\ s # "none"
    BY <1>1 DEF OwnerInv, OwnerType, WorksTrue
  <1>4. nativeWork' = [nativeWork EXCEPT ![w].stage = s]
    BY <1>2, StageStays
  <1>5. t \in ServedStates \ {"none"}
    BY DEF ServedStates
  <1>6. s = "gone" => t \in {"dropped", "cancelled", "disposed", "refused"}
    BY <1>1 DEF OwnerInv, WorksTrue
  <1>7. far[nativeWork[w].conn] \in {"closing", "closed"} => t \in {"cancelled", "disposed", "refused"}
    BY <1>1, <1>3 DEF OwnerInv, WorksTrue
  <1> HIDE DEF s, t
  <1>8. QED
    BY <1>1, <1>2, <1>3, <1>4, <1>5, <1>6, <1>7, WorkMoves DEF s

\* The caller learns what became of its work, or of the connection.
LEMMA ReadyKeeps == ASSUME OwnerInv, NEW w \in Works, Ready(w) PROVE OwnerInv'
  <1> DEFINE t == served[w]
  <1>1. PICK s \in {"open", "gone"} :
          /\ nativeWork' = [nativeWork EXCEPT ![w].stage = s]
          /\ s = "gone" => t \in {"disposed", "refused"} \/ Failed(nativeWork[w].conn)
    BY DEF Ready
  <1>2. UNCHANGED <<served, conn, current, far, obs, side, claims, changed>> /\ nativeWork[w].stage = "opening"
    BY DEF Ready
  <1>3. nativeWork[w].conn \in Connections
    BY <1>2 DEF OwnerInv, OwnerType, WorksTrue
  <1>4. t \in ServedStates \ {"none"}
    BY <1>2 DEF OwnerInv, OwnerType, WorksTrue
  <1>5. far[nativeWork[w].conn] \in {"closing", "closed"} => t \in {"cancelled", "disposed", "refused"}
    BY <1>2 DEF OwnerInv, WorksTrue
  <1>6. s = "gone" => t \in {"dropped", "cancelled", "disposed", "refused"}
    BY <1>1, <1>3, <1>5 DEF OwnerInv, ConnectionsTrue, Failed
  <1>7. served' = [served EXCEPT ![w] = t]
    BY <1>2, ServedStays
  <1> HIDE DEF t
  <1>8. QED
    BY <1>1, <1>2, <1>4, <1>5, <1>6, <1>7, WorkMoves

LEMMA ReleaseWorkKeeps == ASSUME OwnerInv, NEW w \in Works, ReleaseWork(w) PROVE OwnerInv'
  <1> DEFINE t == CASE served[w] = "queued" -> "dropped" [] served[w] = "opening" -> "cancelled"
                    [] served[w] = "open" -> "disposed" [] OTHER -> served[w]
  <1>1. /\ nativeWork' = [nativeWork EXCEPT ![w].stage = "gone"] /\ served' = [served EXCEPT ![w] = t]
        /\ UNCHANGED <<conn, current, far, obs, side, claims, changed>>
        /\ nativeWork[w].stage \in {"opening", "open"}
    BY DEF ReleaseWork
  <1>2. served[w] \in ServedStates \ {"none"}
    BY <1>1 DEF OwnerInv, OwnerType, WorksTrue
  <1>3. t \in {"dropped", "cancelled", "disposed", "refused"}
    BY <1>2 DEF ServedStates
  <1>4. t \in ServedStates \ {"none"}
    BY <1>3 DEF ServedStates
  <1>5. far[nativeWork[w].conn] \in {"closing", "closed"} => t \in {"cancelled", "disposed", "refused"}
    BY <1>1 DEF OwnerInv, WorksTrue
  <1> HIDE DEF t
  <1>6. QED
    BY <1>1, <1>3, <1>4, <1>5, WorkMoves

LEMMA OwnerStutters == ASSUME OwnerInv, UNCHANGED ownerVars PROVE OwnerInv'
  BY DEF ownerVars, OwnerInv, OwnerType, ConnectionsTrue, WorksTrue, ClaimsCounted

LEMMA OwnerStep == OwnerInv /\ [OwnerNext]_ownerVars => OwnerInv'
  <1> SUFFICES ASSUME OwnerInv, [OwnerNext]_ownerVars PROVE OwnerInv'
    OBVIOUS
  <1>1. CASE UNCHANGED ownerVars
    BY <1>1, OwnerStutters
  <1>2. CASE OwnerNext
    BY <1>2, ClosedKeeps, ExitKeeps, ShutKeeps, ShutDoneKeeps, DisposeBackendKeeps, AttachKeeps, SideKeeps,
       CallerKeeps, FailKeeps, OpenWorkKeeps, ReceiveKeeps, ReadyKeeps, ReleaseWorkKeeps DEF OwnerNext, OwnerProgress
  <1>3. QED
    BY <1>1, <1>2

\* The inductive invariant of the native owner and its backend holds in every behaviour of them.
THEOREM OwnerInvariance == OwnerSpec => []OwnerInv
  BY OwnerStart, OwnerStep, PTL DEF OwnerSpec

LEMMA OwnerSafely == OwnerInv => NoOrphanSession
  BY DEF OwnerInv, WorksTrue, NoOrphanSession

\* Only a failure makes an observation fall back, and it has counted what was changed.
LEMMA FallBackStep == OwnerInv /\ [OwnerNext]_ownerVars => [FallsBackCleanStep]_ownerVars
  <1> SUFFICES ASSUME OwnerInv, OwnerNext, NEW o \in Observations,
                      obs[o].stage # "fallback", obs'[o].stage = "fallback"
               PROVE  o \notin changed
    BY DEF FallsBackCleanStep
  <1>1. PICK p \in Observations : Attach(p) \/ Attached(p) \/ FinishObservation(p) \/ Completed(p) \/ Fail(p)
    <2>1. obs' # obs
      OBVIOUS
    <2>2. QED
      BY <2>1 DEF OwnerNext, OwnerProgress, DisposeBackend, ObserveGate, SettleReplay, Reply, ClaimReplay, Apply,
         Receive, Opened, Ready, OpenWork, ReleaseWork, Closed, Shut, ShutDone, Exit
  <1>2. CASE Attach(p)
    BY <1>2 DEF Attach, OwnerInv, OwnerType
  <1>3. CASE Attached(p) \/ FinishObservation(p) \/ Completed(p)
    <2>1. PICK s \in {"attached", "finishing", "done"} : obs' = [obs EXCEPT ![p].stage = s]
      BY <1>3 DEF Attached, FinishObservation, Completed
    <2>2. obs[p] \in AttachedRecords
      BY <1>3 DEF Attached, FinishObservation, Completed, OwnerInv, OwnerType, Unattached
    <2>3. QED
      BY <2>1, <2>2 DEF OwnerInv, OwnerType, AttachedRecords
  <1>4. CASE Fail(p)
    <2>1. obs[p] \in AttachedRecords
      BY <1>4 DEF Fail, ObservationBroken, OwnerInv, OwnerType, Unattached
    <2>2. obs' = [obs EXCEPT ![p].stage = Verdict(p)]
      BY <1>4 DEF Fail
    <2>3. p = o /\ Verdict(p) = "fallback"
      BY <2>1, <2>2 DEF OwnerInv, OwnerType, AttachedRecords
    <2>4. claims[p] \in Nat /\ ~(claims[p] > 0)
      BY <2>3 DEF Verdict, OwnerInv, OwnerType
    <2>5. QED
      BY <2>3, <2>4 DEF OwnerInv, ClaimsCounted
  <1>5. QED
    BY <1>1, <1>2, <1>3, <1>4

\* For any workers, connections and observations: an observation falls back, as though it had not
\* been watched, only while no replay of it changed the host (decideHeldExec, failed()).
THEOREM FallsBackOnlyClean == OwnerSpec => FallsBackClean
  <1>1. OwnerInv /\ [OwnerNext]_ownerVars => [FallsBackCleanStep]_ownerVars
    BY FallBackStep
  <1>2. QED
    BY <1>1, OwnerInvariance, PTL DEF OwnerSpec, FallsBackClean
-----------------------------------------------------------------------------
\* What a run checks of the native owner, the route to it and a process session: no work that is gone
\* leaves a session open, one boundary owns the startup hook, a command happens once, the seal has all
\* that was written, and a disposed session holds nothing (native-owner.ts, linux-process-backend.ts).
THEOREM RoutingIsSafe == OwnerSpec /\ RouteSpec /\ SessionSpec => []RoutingSafe
  <1>1. NoOrphanSession /\ OneBoundary /\ CommandOnce /\ SealsEverything /\ DisposedHoldsNothing => RoutingSafe
    BY DEF RoutingSafe
  <1>2. QED
    BY <1>1, OwnerSafely, RouteSafely, SessionSafely, OwnerInvariance, RouteInvariance, SessionInvariance, PTL

=============================================================================
