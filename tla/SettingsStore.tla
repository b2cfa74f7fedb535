---------------------------- MODULE SettingsStore ----------------------------
(***************************************************************************)
(* SpeculativeActionSettingsStore (settings-store.ts) under the commands   *)
(* of the extension (setSettings, runCommand and openSettings of           *)
(* extension.ts): two files of differences, one for all projects and one   *)
(* for this project, a session's memory of both, and the queue by which    *)
(* saves reach the files while users edit them by hand.                    *)
(*                                                                         *)
(* Three settings stand for all: "on" has a default, "model" has none, and *)
(* neither has "key", which belongs to the user (endpoint, apiKeyEnv): no  *)
(* project may set it.  The overlay of a scope maps a setting to its value *)
(* there, to "null" where it takes away what lies below, or to "none".  A  *)
(* missing file is one without settings, and writeJsonFile replaces a file *)
(* whole or not at all.                                                    *)
(***************************************************************************)
EXTENDS Naturals, Sequences, FiniteSets

CONSTANTS
  MaxSaves, MaxEdits, MaxWriteFaults, MaxReadFaults  \* bounds

Scopes == {"global", "project"}
Keys == {"on", "model", "key"}
Defaults == [on |-> "a", model |-> "none", key |-> "none"]
\* What the settings dialogs hand over, and what a hand-edited file can say.
Values == {v \in [Keys -> {"none", "a", "b"}] : v.on # "none" /\ v.model # "b" /\ v.key # "b"}
Empty == [k \in Keys |-> "none"]
NoWish == [k \in Keys |-> "any"]
Broken == [k \in Keys |-> "unparsable"]

VARIABLES
  file,       \* file[s]: an overlay, or Broken
  mem,        \* `global` and `project`
  scope,      \* `scopeValue`
  trusted,    \* whether the session's project is
  unreadable, \* scopes whose file failed to parse
  queue,      \* `writeQueue`: the saves not settled yet
  saves,      \* saves enqueued so far
  spent,      \* faults and edits so far
  broken,     \* history: scopes seen unparsable and not edited since
  dirty,      \* history: scopes whose file is not the session's: edited by hand,
              \* or a save is pending or failed
  wanted      \* history: wanted[s]: the settings last asked for in a scope, or NoWish

settingsVars == <<file, mem, scope, trusted, unreadable, queue, saves, spent, broken, dirty, wanted>>
-----------------------------------------------------------------------------
(* Overlays. *)

applyOverlay(base, overlay) ==
  [k \in Keys |-> CASE overlay[k] = "null" -> "none"
                    [] overlay[k] = "none" -> base[k]
                    [] OTHER -> overlay[k]]

diffRecord(base, target) ==
  [k \in Keys |-> IF target[k] = base[k] THEN "none" ELSE IF target[k] = "none" THEN "null" ELSE target[k]]

userScoped(overlay) == [overlay EXCEPT !.key = "none"]

\* normalizeSpeculativeActionSettings(): every setting with a default has a value.
Normal(value) == [k \in Keys |-> IF value[k] = "none" THEN Defaults[k] ELSE value[k]]

editable(layers, s) ==
  Normal(applyOverlay(layers["global"], IF s = "project" THEN layers["project"] ELSE Empty))

\* What load() makes of the files.
Readable(s) == IF file[s] = Broken THEN Empty ELSE file[s]
Loaded(trust) ==
  [s \in Scopes |-> IF s = "global" THEN Readable(s)
                    ELSE IF trust THEN userScoped(Readable(s)) ELSE Empty]
-----------------------------------------------------------------------------
\* What load() could not parse, and the scope it leaves chosen.
Unparsable(trust) == {s \in Scopes : file[s] = Broken /\ (s = "project" => trust)}
Chosen(trust) ==
  IF Loaded(trust)["project"] # Empty \/ "project" \in Unparsable(trust) THEN "project" ELSE "global"

SettingsInit ==
  /\ file \in [Scopes -> {Empty, Broken, [on |-> "b", model |-> "a", key |-> "a"]}]
  /\ trusted \in BOOLEAN
  /\ mem = Loaded(trusted)
  /\ unreadable = Unparsable(trusted) /\ broken = Unparsable(trusted)
  /\ scope = Chosen(trusted)
  /\ queue = <<>> /\ saves = 0
  /\ spent = [edits |-> 0, writes |-> 0, reads |-> 0]
  /\ dirty = {}
  /\ wanted = [s \in Scopes |-> NoWish]

\* persistSelected(): the snapshot of the scope joins the queue.
Persist(layers) ==
  /\ mem' = layers
  /\ queue' = Append(queue, [scope |-> scope, value |-> layers[scope], checked |-> FALSE])
  /\ saves' = saves + 1
  /\ dirty' = dirty \cup {scope}
  /\ UNCHANGED <<file, scope, trusted, unreadable, spent, broken>>

\* A scope's settings change, and with the global ones what the project inherits.
Wants(changed, wish) ==
  [s \in Scopes |-> IF s \in changed THEN wish
                    ELSE IF "global" \in changed THEN NoWish ELSE wanted[s]]

\* setEffective(): a scope keeps its differences from the layer below.
SetEffective(value) ==
  /\ saves < MaxSaves
  /\ LET inherited == Normal(IF scope = "project" THEN mem["global"] ELSE Empty)
         overlay == diffRecord(inherited, value)
     IN /\ Persist([mem EXCEPT ![scope] = IF scope = "project" THEN userScoped(overlay) ELSE overlay])
        /\ wanted' = Wants({scope}, [value EXCEPT !.key = IF scope = "project" THEN inherited.key ELSE @])

Clear ==
  /\ saves < MaxSaves
  /\ Persist([mem EXCEPT ![scope] = Empty])
  /\ wanted' = Wants({scope}, NoWish)

\* The choice of what the next save is for.
SetScope(s) ==
  /\ scope # s
  /\ scope' = s
  /\ UNCHANGED <<file, mem, trusted, unreadable, queue, saves, spent, broken, dirty, wanted>>
-----------------------------------------------------------------------------
(* The queue. *)

Pops == queue' = Tail(queue)

\* A file that failed to parse is read again before it is replaced.
Check(fault) ==
  /\ queue # <<>> /\ ~Head(queue).checked
  /\ LET s == Head(queue).scope IN
     IF s \notin unreadable
     THEN /\ ~fault
          /\ queue' = [queue EXCEPT ![1].checked = TRUE]
          /\ UNCHANGED <<unreadable, spent>>
     ELSE /\ fault => spent.reads < MaxReadFaults
          /\ unreadable' = IF fault \/ file[s] # Broken THEN unreadable \ {s} ELSE unreadable
          /\ IF fault \/ file[s] = Broken
             THEN Pops
             ELSE queue' = [queue EXCEPT ![1].checked = TRUE]
          /\ spent' = IF fault THEN [spent EXCEPT !.reads = @ + 1] ELSE spent
  /\ UNCHANGED <<file, mem, scope, trusted, saves, broken, dirty, wanted>>

\* The scopes whose file is the session's once the head of the queue is written.
Cleaned(s) == IF \E i \in 2..Len(queue) : queue[i].scope = s THEN {} ELSE {s}

Write(fault) ==
  /\ queue # <<>> /\ Head(queue).checked
  /\ Pops
  /\ LET s == Head(queue).scope IN
     IF fault
     THEN /\ spent.writes < MaxWriteFaults
          /\ spent' = [spent EXCEPT !.writes = @ + 1]
          /\ UNCHANGED <<file, dirty, broken>>
     ELSE /\ file' = [file EXCEPT ![s] = Head(queue).value]
          /\ dirty' = dirty \ Cleaned(s) /\ broken' = broken \ {s}
          /\ UNCHANGED spent
  /\ UNCHANGED <<mem, scope, trusted, unreadable, saves, wanted>>

\* A file is edited by hand, or in another session.
HandEdit(s, content) ==
  /\ spent.edits < MaxEdits /\ content # file[s]
  /\ file' = [file EXCEPT ![s] = content]
  /\ spent' = [spent EXCEPT !.edits = @ + 1]
  /\ broken' = broken \ {s} /\ dirty' = dirty \cup {s}
  /\ wanted' = Wants({s}, NoWish)
  /\ UNCHANGED <<mem, scope, trusted, unreadable, queue, saves>>

\* A new session reads the files; the saves of a process that ended are lost.
Restart(trust) ==
  /\ trusted' = trust
  /\ mem' = Loaded(trust)
  /\ unreadable' = Unparsable(trust) /\ broken' = Unparsable(trust)
  /\ scope' = Chosen(trust)
  /\ queue' = <<>> /\ dirty' = {}
  /\ wanted' = Wants(dirty, NoWish)
  /\ UNCHANGED <<file, saves, spent>>

SettingsNext ==
  \/ \E value \in Values : SetEffective(value)
  \/ Clear
  \/ \E s \in Scopes : SetScope(s)
  \/ \E fault \in BOOLEAN : Check(fault) \/ Write(fault)
  \/ \E s \in Scopes, content \in {Broken, Empty, [on |-> "b", model |-> "none", key |-> "none"]} : HandEdit(s, content)
  \/ \E trust \in BOOLEAN : Restart(trust)

SettingsSpec == SettingsInit /\ [][SettingsNext]_settingsVars
-----------------------------------------------------------------------------
(* Properties. *)

\* What was asked for in a scope is what a later session finds there, a project's share of
\* the user's own settings apart, unless a file was edited by hand or a save is pending or
\* failed: what diffRecord leaves out and takes away comes back through applyOverlay.
SavedComesBack ==
  dirty = {} => \A s \in Scopes : wanted[s] # NoWish => editable(Loaded(TRUE), s) = wanted[s]

\* "Hand-edited files that failed to parse: ignored when read and never replaced by a save":
\* only an edit takes the place of content seen unparsable.
BrokenKeptStep == \A s \in Scopes : s \in broken /\ file'[s] # file[s] => spent'.edits > spent.edits
BrokenKept == [][BrokenKeptStep]_settingsVars
=============================================================================
