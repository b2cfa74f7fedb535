------------------------------ MODULE ProcessMC -------------------------------
(*****************************************************************************)
(* The reuse of processes: the handoff of results between branches and its   *)
(* shared authority, the native owner and its routing, the session of one    *)
(* process call, nested executions and their children, the evidence of a run *)
(* and of a file, and the observers of the trace.  A behaviour is about one  *)
(* of them (`part`): the handoff, the executions, the routing and the        *)
(* session with the variables of their modules, the others in turn in the    *)
(* state variables s1, s2, ....                                              *)
(*****************************************************************************)
EXTENDS ProcessHandoff, NestedExec, ProcessSession, Sequences, TLC

CONSTANTS shell, first, second

\* Two borrowers in a chain.
Lends == "b1" :> "o" @@ "b2" :> "b1"
\* Three children, two of one key.
Keys == <<"a", "a", "b">>
Durations == <<1, 3, 2>>

VARIABLES
  part,  \* the part this behaviour is about
  s1, s2, s3, s4, s5, s6, s7, s8, s9, s10, s11, s12, s13, s14, s15, s16, s17  \* its state

\* A shell that brokers two runs; a file that changes twice while it is read.
Evidence == INSTANCE RunEvidence WITH
  host <- s1, branch <- s2, image <- s3, now <- s4, run <- s5, wrote <- s6, reads <- s7,
  proof <- s8, start <- s9, saw <- s10, changes <- s11, clock <- s1, hostChanges <- s2,
  data <- s3, stamp <- s4, name <- s5, extra <- s6, dirStamp <- s7, mounted <- s8,
  digests <- s9, reader <- s10, walk <- s11, result <- s12, seen <- s13, torn <- s14,
  Names <- {"a"}, Values <- {1, 2}, Runs <- {shell, first, second},
  Parent <- [r \in {shell, first, second} |-> shell], HostChanges <- {"modify"}, MaxWrites <- 1,
  MaxHost <- 1, Inodes <- {1, 2}, Readers <- {1}, Validator <- 1, MaxTime <- 1, MaxChanges <- 2
\* A process and its child, two readers.
Reader == INSTANCE TraceTail WITH
  log <- s1, half <- s2, born <- s3, forking <- s4, group <- s5, at <- s6, offset <- s7,
  pending <- s8, cwds <- s9, dir <- s10, writes <- s11, lost <- s12, batch <- s13, size <- s14,
  queued <- s15, reader <- s16, asked <- s17, Pids <- {1, 2}, Root <- 1, Dirs <- {"a", "b"},
  Home <- "a", Readers <- {1, 2}, MovesInFork <- FALSE, MaxRows <- 4
\* A launcher and two children; one native call.
Trace == INSTANCE TraceObservers WITH
  log <- s1, born <- s2, forking <- s3, group <- s4, at <- s5, opened <- s6, observed <- s7,
  positional <- s1, kernel <- s2, broker <- s3, ring <- s4, calls <- s5, line <- s6,
  frozen <- s7, inputs <- s8, rows <- s9, failure <- s10, Pids <- {1, 2, 3}, Launcher <- 1,
  Dirs <- {"a", "b"}, Home <- "a", MaxRows <- 4, Ids <- {1}, Images <- {"x", "y"}, MaxRing <- 1
\* Two processes and three descriptors.
Handles == INSTANCE HandleLifetimes WITH
  held <- s1, tables <- s2, messages <- s3, outside <- s4, file <- s5, journal <- s6,
  before <- s7, phase <- s8, inflight <- s9, calls <- s10, Pids <- {1, 2}, Root <- 1,
  Fds <- {1, 2, 3}, MaxCalls <- 3

\* The variables of the modules that have their own.
processVars ==
  <<registryVars, authorityVars, nestedVars, childVars, ownerVars, routeVars, sessionVars>>
pool == <<s1, s2, s3, s4, s5, s6, s7, s8, s9, s10, s11, s12, s13, s14, s15, s16, s17>>
suiteVars == <<part, pool, processVars>>
\* State variables a part does not use.
Unused15 == s15 = 0 /\ s16 = 0 /\ s17 = 0
Unused13 == s13 = 0 /\ s14 = 0 /\ Unused15
Unused12 == s12 = 0 /\ Unused13
Unused11 == s11 = 0 /\ Unused12
Unused10 == s10 = 0 /\ Unused11
Unused8 == s8 = 0 /\ s9 = 0 /\ Unused10
Unused5 == s5 = 0 /\ s6 = 0 /\ s7 = 0 /\ Unused8
Unused1 == s1 = 0 /\ s2 = 0 /\ s3 = 0 /\ s4 = 0 /\ Unused5

\* The others keep the state they start in.
SuiteInit ==
  /\ RegistryInit
  /\ AuthorityInit
  /\ NestedInit
  /\ ChildInit
  /\ OwnerInit
  /\ RouteInit
  /\ SessionInit
  /\ \/ part \in {"registry", "authority", "nested", "child", "owner", "route", "session"} /\ Unused1
     \/ part = "run" /\ Evidence!EvidenceInit /\ Unused12
     \/ part = "file" /\ Evidence!FileInit /\ Unused15
     \/ part = "tail" /\ Reader!TailInit
     \/ part = "domain" /\ Trace!DomainInit /\ Unused8
     \/ part = "native" /\ Trace!TraceInit /\ Unused11
     \/ part = "handles" /\ Handles!LifeInit /\ Unused11
  /\ part = "child" \/ checkpoint = "stored"

SuiteNext ==
  \/ part = "registry" /\ RegistryNext
       /\ UNCHANGED <<part, pool, authorityVars, nestedVars, childVars, ownerVars, routeVars, sessionVars>>
  \/ part = "authority" /\ AuthorityNext
       /\ UNCHANGED <<part, pool, registryVars, nestedVars, childVars, ownerVars, routeVars, sessionVars>>
  \/ part = "nested" /\ NestedNext
       /\ UNCHANGED <<part, pool, registryVars, authorityVars, childVars, ownerVars, routeVars, sessionVars>>
  \/ part = "child" /\ ChildNext
       /\ UNCHANGED <<part, pool, registryVars, authorityVars, nestedVars, ownerVars, routeVars, sessionVars>>
  \/ part = "owner" /\ OwnerNext
       /\ UNCHANGED <<part, pool, registryVars, authorityVars, nestedVars, childVars, routeVars, sessionVars>>
  \/ part = "route" /\ RouteNext
       /\ UNCHANGED <<part, pool, registryVars, authorityVars, nestedVars, childVars, ownerVars, sessionVars>>
  \/ part = "session" /\ SessionNext
       /\ UNCHANGED <<part, pool, registryVars, authorityVars, nestedVars, childVars, ownerVars, routeVars>>
  \/ part = "run" /\ Evidence!EvidenceNext /\ UNCHANGED <<part, processVars, s12, s13, s14, s15, s16, s17>>
  \/ part = "file" /\ Evidence!FileNext /\ UNCHANGED <<part, processVars, s15, s16, s17>>
  \/ part = "tail" /\ Reader!TailNext /\ UNCHANGED <<part, processVars>>
  \/ part = "domain" /\ Trace!DomainNext /\ UNCHANGED <<part, processVars, s8, s9, s10, s11, s12, s13, s14, s15, s16, s17>>
  \/ part = "native" /\ Trace!TraceNext /\ UNCHANGED <<part, processVars, s11, s12, s13, s14, s15, s16, s17>>
  \/ part = "handles" /\ Handles!LifeNext /\ UNCHANGED <<part, processVars, s11, s12, s13, s14, s15, s16, s17>>

SuiteSpec == SuiteInit /\ [][SuiteNext]_suiteVars
-------------------------------------------------------------------------------
\* NativeRouting: an observation falls back only while no replay of it changed the host.
\* TraceObservers: what consumers kept stays true.
NeverTakenBack ==
  [][/\ FallsBackCleanStep
     /\ part = "native" => Trace!NothingTakenBackStep]_suiteVars

\* RunEvidence: what a certificate says of the inputs of a run is what the run read; a trusted
\* digest is current, and what is found valid held.
EvidenceSafe ==
  /\ part = "run" => Evidence!InputsProven /\ Evidence!BaselineIsStart
  /\ part = "file" => Evidence!TrustedIsCurrent /\ Evidence!ValidHeld

\* TraceTail: an answered reader has every row, and a write is attributed to its directory.
\* TraceObservers: a domain that is complete tells the truth.  HandleLifetimes: the journal
\* releases what the kernel releases.
TraceSafe ==
  /\ part = "tail" => Reader!AnswersCover /\ Reader!AttributedTrue
  /\ part = "domain" => Trace!CompleteIsTrue
  /\ part = "handles" => Handles!ReleasedAsHeld
===============================================================================
