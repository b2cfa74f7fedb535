---------------------------- MODULE SelfSpeculation ----------------------------
(***************************************************************************)
(* Feedback to a decoder that can fork the Actor (self-speculation.ts,     *)
(* actor-fork-plan-source.ts).                                             *)
(*                                                                         *)
(* For the turn under way the coordinator keeps the candidates other       *)
(* sources proposed, submits them to the engine under the id of the one    *)
(* request bound to the turn, probes the engine for a fork of the Actor's  *)
(* decode while it streams, and hands the fork's calls to the plan source  *)
(* that waits for them.  Every post is asynchronous; when a turn closes,   *)
(* its request is cleared behind the posts under way.  Candidates of a     *)
(* decision that is tried again, or of a later one, are kept for it.       *)
(***************************************************************************)
EXTENDS Integers, FiniteSets

CONSTANTS Turns,        \* turns, 1 .. n, started in order
          Keys,         \* predicted actions
          Decisions,    \* decision sequence numbers, 1 .. n
          MaxAttempts,  \* probes of one turn
          Step,         \* stream updates between two probes
          Boundary,     \* stream updates after which a sentence's end probes
          MaxChunks,    \* bound: stream updates of one turn
          MaxFaults     \* bound: posts that fail

VARIABLES transport,  \* "sidecar" or "drafter"
          turn,       \* turns started
          active,     \* the turn under way, 0 none
          state,      \* turn -> its TurnState
          fork,       \* turn -> its PendingFork
          kept,       \* decision -> candidates kept for it
          latest,     \* latest decision started
          accepting,  \* whether candidates are accepted
          serves,     \* what the engine declared: "unknown", "all", "nofork"
          proposer,   \* turn -> "no", "waits" or what the plan source was given
          posts,      \* turn -> posts by kind and outcome, for the properties
          faults      \* failed posts so far

specVars == <<transport, turn, active, state, fork, kept, latest, accepting, serves,
              proposer, posts, faults>>

NoState == [decision |-> 0, bound |-> FALSE, dirty |-> FALSE, flush |-> {"none"},
            probing |-> FALSE, ended |-> FALSE, clear |-> "no",
            candidates |-> {}]
NoFork == [open |-> FALSE, bound |-> FALSE, chunks |-> 0, attempts |-> 0,
           last |-> 0, retryAt |-> 1, inFlight |-> FALSE, settled |-> FALSE,
           aborted |-> FALSE]
NoPosts == [late |-> FALSE, registered |-> {}, failed |-> FALSE]

SpecInit ==
  /\ transport \in {"sidecar", "drafter"}
  /\ turn = 0 /\ active = 0
  /\ state = [t \in Turns |-> NoState] /\ fork = [t \in Turns |-> NoFork]
  /\ kept = [d \in Decisions |-> {}] /\ latest = 0 /\ accepting = FALSE
  /\ serves = "unknown"
  /\ proposer = [t \in Turns |-> "no"]
  /\ posts = [t \in Turns |-> NoPosts]
  /\ faults = 0

--------------------------------------------------------------------------------
(* Submission of candidates *)

\* scheduleFlush: one flush at a time, for a bound request.
CanFlush(s) == s.bound /\ s.flush = {"none"} /\ transport = "sidecar"
\* A flush submits what there is and clears the mark; an empty bundle is not sent.
Flushed(s) ==
  IF CanFlush(s) /\ s.dirty
    THEN [s EXCEPT !.dirty = FALSE,
                   !.flush = IF s.candidates = {} THEN {"none"} ELSE s.candidates]
    ELSE s
\* A post after the request was cleared would reach an engine that forgot it.
Late(s) == s.clear \in {"posted", "done"}
Posted(p, old, new) ==
  IF new.flush # old.flush /\ new.flush # {"none"}
    THEN [p EXCEPT !.late = @ \/ Late(old)] ELSE p

\* Where a candidate goes: the active turn, to a later decision, or nowhere.
Target(d) ==
  IF active # 0
    THEN IF d < state[active].decision THEN "none"
         ELSE IF d = state[active].decision THEN "active" ELSE "kept"
    ELSE IF d < latest THEN "none" ELSE "kept"
AddCandidate(k, d) ==
  /\ accepting /\ Target(d) # "none"
  /\ IF Target(d) = "kept"
       THEN /\ kept' = [kept EXCEPT ![d] = @ \union {k}]
            /\ UNCHANGED <<state, posts>>
       ELSE LET s == [state[active] EXCEPT !.candidates = @ \union {k},
                        !.dirty = TRUE]
                f == Flushed(s)
            IN /\ state' = [state EXCEPT ![active] = f]
               /\ posts' = [posts EXCEPT ![active] = Posted(@, s, f)]
               /\ UNCHANGED kept
  /\ UNCHANGED <<transport, turn, active, fork, latest, accepting, serves,
                 proposer, faults>>

\* The loop, and then its end, look at the mark again: an ended turn only
\* finishes the flush under way, the loop itself.
Again(s) == Flushed(s)
FlushAnswer(t, ok) ==
  /\ state[t].flush # {"none"}
  /\ ok \/ faults < MaxFaults
  /\ LET s == [state[t] EXCEPT !.flush = {"none"}]
         f == IF ok \/ active = t THEN Again(s) ELSE s
     IN /\ state' = [state EXCEPT ![t] = f]
        /\ posts' = [posts EXCEPT ![t] = Posted(
             IF ok THEN [@ EXCEPT !.registered = state[t].flush]
             ELSE [@ EXCEPT !.failed = TRUE], s, f)]
  /\ faults' = IF ok THEN faults ELSE faults + 1
  /\ UNCHANGED <<transport, turn, active, fork, kept, latest, accepting, serves,
                 proposer>>

--------------------------------------------------------------------------------
(* Turns *)

\* closeTurn of the plan source: whoever waits is answered with nothing.
ClosedFork(f) == [NoFork EXCEPT !.aborted = TRUE]
ClosedState(s) ==
  [s EXCEPT !.ended = TRUE,
            !.clear = IF s.bound /\ transport = "sidecar" THEN "waiting" ELSE "no"]
Answered(p) == IF p = "waits" THEN "nothing" ELSE p
\* What a retry of the decision starts from.
Preserved == IF active # 0 /\ state[active].candidates # {}
             THEN [kept EXCEPT ![state[active].decision] = state[active].candidates]
             ELSE kept

StartTurn(d) ==
  /\ turn < Cardinality(Turns) /\ d >= latest
  /\ turn' = turn + 1 /\ active' = turn + 1
  /\ LET k == Preserved IN
     /\ kept' = [x \in Decisions |-> IF x <= d THEN {} ELSE k[x]]
     /\ state' = [t \in Turns |->
          IF t = active THEN ClosedState(state[t])
          ELSE IF t = turn + 1 THEN [NoState EXCEPT !.decision = d,
                                       !.candidates = k[d], !.dirty = k[d] # {}]
          ELSE state[t]]
  /\ fork' = [t \in Turns |-> IF t = active THEN ClosedFork(fork[t])
                              ELSE IF t = turn + 1 THEN [NoFork EXCEPT !.open = TRUE]
                              ELSE fork[t]]
  /\ proposer' = [t \in Turns |-> IF t = active THEN Answered(proposer[t])
                                  ELSE proposer[t]]
  /\ latest' = d /\ accepting' = TRUE
  /\ UNCHANGED <<transport, serves, posts, faults>>

Close(preserve) ==
  /\ active # 0
  /\ active' = 0
  /\ state' = [state EXCEPT ![active] = ClosedState(@)]
  /\ fork' = [fork EXCEPT ![active] = ClosedFork(@)]
  /\ proposer' = [proposer EXCEPT ![active] = Answered(@)]
  /\ kept' = IF preserve THEN Preserved ELSE [d \in Decisions |-> {}]
  /\ latest' = IF preserve THEN latest ELSE 0
  /\ accepting' = (accepting /\ preserve)
  /\ UNCHANGED <<transport, turn, serves, posts, faults>>
EndTurn == Close(TRUE)
Reset == Close(FALSE)

\* Exactly one request of the Actor is bound to a turn.
BindRequest ==
  /\ active # 0 /\ ~state[active].bound
  /\ LET s == [state[active] EXCEPT !.bound = TRUE]
         f == Flushed(s)
     IN /\ state' = [state EXCEPT ![active] = f]
        /\ posts' = [posts EXCEPT ![active] = Posted(@, s, f)]
  /\ fork' = [fork EXCEPT ![active].bound = TRUE]
  /\ UNCHANGED <<transport, turn, active, kept, latest, accepting, serves,
                 proposer, faults>>

\* The declaration of what the engine serves, asked once; no answer serves all.
Negotiated(answer) ==
  /\ serves = "unknown" /\ transport = "sidecar" /\ turn > 0
  /\ serves' = answer
  /\ UNCHANGED <<transport, turn, active, state, fork, kept, latest, accepting,
                 proposer, posts, faults>>

--------------------------------------------------------------------------------
(* Probes *)

Ready(f) == f.open /\ ~f.settled /\ ~f.inFlight /\ f.bound
            /\ f.attempts < MaxAttempts /\ f.chunks >= f.retryAt
Claimed(f) == [f EXCEPT !.inFlight = TRUE, !.attempts = @ + 1,
                        !.last = f.chunks, !.retryAt = f.chunks + Step]
\* The end of a sentence or of a thought asks for the next probe sooner.
Sooner(f, updates) ==
  [f EXCEPT !.retryAt = IF f.last + updates < @ THEN f.last + updates ELSE @]
Published(f) == [f EXCEPT !.settled = TRUE]
\* What the plan source's caller is given, the first time only.
Given(t, calls) == IF proposer[t] = "waits" /\ fork[t].open /\ ~fork[t].settled
                   THEN calls ELSE proposer[t]

\* A claimed probe is posted, unless the engine declared that it forks nothing.
Probed(s, f) ==
  IF ~Ready(f) THEN [s |-> s, f |-> f, quiet |-> FALSE]
  ELSE IF serves = "nofork"
    THEN [s |-> s, f |-> Published(Claimed(f)), quiet |-> TRUE]
  ELSE [s |-> [s EXCEPT !.probing = TRUE], f |-> Claimed(f), quiet |-> FALSE]

\* A stream update: text, text that ends a sentence, or the end of a thought,
\* which adds no output.
Delta(kind) ==
  /\ active # 0 /\ fork[active].open /\ fork[active].bound /\ ~fork[active].settled
  /\ kind # "thought" => fork[active].chunks < MaxChunks
  /\ LET more == [fork[active] EXCEPT !.chunks = @ + 1]
         f == CASE kind = "text" -> more
                [] kind = "sentence" -> Sooner(more, Boundary)
                [] kind = "thought" -> Sooner(fork[active], 1)
         r == Probed(state[active], f)
     IN /\ fork' = [fork EXCEPT ![active] = r.f]
        /\ state' = [state EXCEPT ![active] = r.s]
        /\ proposer' = IF r.quiet
             THEN [proposer EXCEPT ![active] = Given(active, "nothing")] ELSE proposer
  /\ UNCHANGED <<transport, turn, active, kept, latest, accepting, serves, posts,
                 faults>>

\* The engine's answer, by the turn that asked: calls end the probing, nothing
\* lets another probe be claimed until the attempts are spent, a failure ends
\* it; then an active turn probes again at once if it may.
ForkAnswer(t, answer) ==
  /\ state[t].probing
  /\ answer = "failed" => faults < MaxFaults \/ fork[t].aborted
  /\ answer # "failed" => ~fork[t].aborted
  /\ LET spent == fork[t].attempts >= MaxAttempts
         done == [fork[t] EXCEPT !.inFlight = FALSE]
         ends == answer \in {"calls", "failed"} \/ spent
         f1 == IF fork[t].open /\ ~fork[t].settled
               THEN IF ends THEN Published(done) ELSE done ELSE fork[t]
         s1 == [state[t] EXCEPT !.probing = FALSE]
         r == IF active = t THEN Probed(s1, f1)
              ELSE [s |-> s1, f |-> f1, quiet |-> FALSE]
     IN /\ state' = [state EXCEPT ![t] = r.s]
        /\ fork' = [fork EXCEPT ![t] = r.f]
        /\ proposer' = [proposer EXCEPT ![t] =
             IF ends \/ r.quiet
               THEN Given(t, IF answer = "calls" THEN "calls" ELSE "nothing")
               ELSE proposer[t]]
  /\ faults' = IF answer = "failed" /\ ~fork[t].aborted THEN faults + 1 ELSE faults
  /\ UNCHANGED <<transport, turn, active, kept, latest, accepting, serves, posts>>

\* The Actor's message is complete: nothing is left to fork.
FinishStream ==
  /\ active # 0 /\ fork[active].open /\ ~fork[active].settled
  /\ fork' = [fork EXCEPT ![active].settled = TRUE, ![active].aborted = TRUE]
  /\ proposer' = [proposer EXCEPT ![active] = Given(active, "nothing")]
  /\ UNCHANGED <<transport, turn, active, state, kept, latest, accepting, serves,
                 posts, faults>>

\* The plan source asks for the turn's batches; its own signal may end it.
Propose(t) ==
  /\ t <= turn /\ proposer[t] = "no"
  /\ proposer' = [proposer EXCEPT ![t] =
       IF fork[t].open /\ ~fork[t].settled THEN "waits" ELSE "nothing"]
  /\ UNCHANGED <<transport, turn, active, state, fork, kept, latest, accepting,
                 serves, posts, faults>>
ProposalAborted(t) ==
  /\ proposer[t] = "waits" /\ faults < MaxFaults
  /\ proposer' = [proposer EXCEPT ![t] = "nothing"]
  /\ fork' = [fork EXCEPT ![t].aborted = TRUE]
  /\ faults' = faults + 1
  /\ UNCHANGED <<transport, turn, active, state, kept, latest, accepting, serves,
                 posts>>

--------------------------------------------------------------------------------
(* The end of a request *)

Settled(s) == s.flush = {"none"} /\ ~s.probing
PostClear(t) ==
  /\ state[t].clear = "waiting" /\ Settled(state[t])
  /\ state' = [state EXCEPT ![t].clear = "posted"]
  /\ UNCHANGED <<transport, turn, active, fork, kept, latest, accepting, serves,
                 proposer, posts, faults>>

ClearAnswer(t) ==
  /\ state[t].clear = "posted"
  /\ state' = [state EXCEPT ![t] =
       [NoState EXCEPT !.ended = TRUE, !.clear = "done"]]
  /\ UNCHANGED <<transport, turn, active, fork, kept, latest, accepting, serves,
                 proposer, posts, faults>>

SpecNext ==
  \/ EndTurn \/ Reset \/ BindRequest \/ FinishStream
  \/ \E d \in Decisions : StartTurn(d)
  \/ \E k \in Keys, d \in Decisions : AddCandidate(k, d)
  \/ \E answer \in {"all", "nofork"} : Negotiated(answer)
  \/ \E kind \in {"text", "sentence", "thought"} : Delta(kind)
  \/ \E t \in Turns :
       \/ PostClear(t) \/ ClearAnswer(t) \/ Propose(t) \/ ProposalAborted(t)
       \/ \E ok \in BOOLEAN : FlushAnswer(t, ok)
       \/ \E answer \in {"calls", "none", "failed"} : ForkAnswer(t, answer)

SpeculationSpec == SpecInit /\ [][SpecNext]_specVars

--------------------------------------------------------------------------------

\* The engine and the plan source are served to the end: nothing is posted for
\* a request after its clear, a bound turn at rest has submitted every
\* candidate it holds (unless a post failed), a probe marked in flight is one
\* that was posted, and whoever waits for a fork has a turn that can answer.
RequestsKept ==
  /\ \A t \in Turns : ~posts[t].late /\ (Late(state[t]) => Settled(state[t]))
  /\ active # 0 =>
       LET s == state[active] IN
       /\ s.bound /\ transport = "sidecar" /\ s.flush = {"none"}
            /\ ~posts[active].failed
          => ~s.dirty /\ s.candidates \subseteq posts[active].registered
       /\ fork[active].inFlight /\ ~fork[active].settled => s.probing
  /\ \A t \in Turns : proposer[t] = "waits" => fork[t].open /\ ~fork[t].settled
=============================================================================
