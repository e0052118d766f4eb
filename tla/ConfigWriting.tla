---------------------------- MODULE ConfigWriting ----------------------------
(***************************************************************************)
(* Commands that change a configuration file or the credentials of a       *)
(* server: several processes that run at once, a lock file, a change       *)
(* planned on the document that was read, the pool views of the old        *)
(* definition retired before the new one replaces it, and an editor that   *)
(* knows nothing of the lock.                                              *)
(***************************************************************************)
EXTENDS Integers, FiniteSets

CONSTANTS
    Writers,            \* processes that run a command
    ServerNames,        \* names of servers
    MaxEdits,           \* bound: changes made with an editor
    MaxStarts,          \* bound: pool views that clients start
    MaxRotations        \* bound: credentials that a server replaces

ASSUME ConfigWritingAssumption ==
  /\ Writers \subseteq 1..9 /\ MaxEdits \in Nat /\ MaxStarts \in Nat /\ MaxRotations \in Nat

VARIABLES
    writers,            \* each command: where it is, what it read and plans
    configs,            \* the home and the project configuration
    configLocks,        \* the lock file beside each of them
    views,              \* the pool view of each entry
    vault,              \* the credentials of each name, as a version
    past                \* what the bounds count, and the edits nobody checked for

configVars == <<writers, configs, configLocks, views, vault, past>>

ConfigFiles == {"home", "project"}
Definitions == {"none", "first", "second"}
Entries == ConfigFiles \X ServerNames

\* Which commands plan against the whole document, and which only for credentials.
Rewrites == {"add", "copy", "import", "remove", "persist"}
Retiring == {"retiring", "stopping"}
Committing == {"checking", "replacing", "releasing", "crediting"}
Underway == {"loading", "locking", "reading", "planning"} \cup Retiring \cup Committing

Fates == {"none", "usage", "invalid", "unknown", "link", "busy", "unreadable", "conflict",
          "changed", "retirement", "credentials"}

ConfigWritingTypeOK ==
  /\ \A w \in Writers :
       /\ writers[w].at \in {"done", "failed", "crashed"} \cup Underway
       /\ writers[w].fate \in Fates /\ writers[w].file \in ConfigFiles
       /\ writers[w].staged \in BOOLEAN
       /\ writers[w].retires \subseteq {"entry", "tokens"} \X ServerNames
       /\ writers[w].found \subseteq Entries /\ writers[w].old \subseteq Entries
  /\ \A f \in ConfigFiles :
       /\ configs[f].is \in {"absent", "file", "link", "broken", "readonly"}
       /\ configs[f].entries \in [ServerNames -> Definitions]
       /\ configLocks[f] \in {0} \cup Writers
  /\ \A v \in Entries : views[v] \in [live : BOOLEAN, owned : BOOLEAN]
  /\ vault \in [ServerNames -> Nat]

\* The change a command wants, and what it found and plans.
NewWriter(op) ==
  [at |-> "loading", op |-> op, file |-> "home", fate |-> "none", staged |-> FALSE, retires |-> {},
   found |-> {}, old |-> {}, seen |-> {}, next |-> {}, kept |-> [n \in ServerNames |-> 0]]

ConfigInit(ops, documents, alive, owned, credentials) ==
  /\ writers = [w \in Writers |-> NewWriter(ops[w])]
  /\ configs = documents
  /\ configLocks = [f \in ConfigFiles |-> 0]
  /\ views = [v \in Entries |-> [live |-> v \in alive, owned |-> v \in owned]]
  /\ vault = credentials
  /\ past = [edits |-> {}, late |-> {}, starts |-> 0, rotations |-> 0]

----------------------------------------------------------------------------
(* What a command asks for.                                                *)

NoTarget == [url |-> FALSE, command |-> "none", args |-> FALSE, transport |-> "none"]

\* An entry is either remote or a command, and its transport agrees.
ValidNew(entry) ==
  /\ entry.url # (entry.command # "none")
  /\ entry.transport \in IF entry.url THEN {"none", "http", "sse"} ELSE {"none", "stdio"}

\* A definition copied from elsewhere, under the target of the command line.
CopiedKeepingTransport(source, args) ==
  IF ~args.url /\ args.command = "none"
  THEN [source EXCEPT !.args = IF args.args THEN TRUE ELSE @,
                      !.transport = IF args.transport # "none" THEN args.transport ELSE @]
  ELSE [url |-> args.url, command |-> args.command, args |-> args.args,
        transport |-> IF args.transport # "none" THEN args.transport ELSE source.transport]

\* A target of the other kind brings its transport with it.
Copied(source, args) ==
  LET wasStdio == source.command # "none"
      kept == CopiedKeepingTransport(source, args) IN
  IF args.transport # "none" THEN kept
  ELSE IF args.url /\ wasStdio THEN [kept EXCEPT !.transport = "http"]
  ELSE IF args.command # "none" /\ ~wasStdio THEN [kept EXCEPT !.transport = "stdio"]
  ELSE kept

\* Arguments after the target need a command, of the line or of the copied entry; a URL
\* takes the copied command away first.
CopyUsage(source, args) ==
  /\ ~(args.url /\ args.command # "none")
  /\ args.args => args.command # "none" \/ (source.command # "none" /\ ~args.url)

\* A plain addition names one target, and the transport that goes with it.
AddUsage(args) ==
  /\ args.url # (args.command # "none")
  /\ args.transport # "none" => (args.transport = "stdio") = (args.command # "none")

Usage(op) ==
  CASE op.kind = "add" -> AddUsage(op.args)
    [] op.kind = "copy" -> CopyUsage(op.source, op.args)
    [] OTHER -> TRUE

Invalid(op) == op.kind = "copy" /\ ~ValidNew(Copied(op.source, op.args))

\* Without a path an import changes the home configuration, another command that of the
\* project where there is one.
Destination(op) ==
  IF op.to # "default" THEN op.to
  ELSE IF op.kind = "import" \/ configs["project"].is = "absent" THEN "home" ELSE "project"

\* A path that was given, and that of an import, is made canonical before it is used;
\* a default path is not, nor is the one a server is saved to after a login.
Canonical(op) == op.kind = "import" \/ (op.to # "default" /\ op.kind # "persist")

\* Entries of the project hide those of the home configuration.
Effective(n) ==
  IF configs["project"].entries[n] # "none" THEN "project" ELSE "home"

Known(n) == configs[Effective(n)].entries[n] # "none"

\* The credentials to import: nothing is written over others without being asked.
Differs(n) == vault[n] \notin {0, 9}
ImportRefused(op) == op.auth /\ ~op.replace /\ \E n \in op.names : Differs(n)

----------------------------------------------------------------------------
(* The steps of a command.                                                 *)

Proceeds(w, writer) ==
  /\ writers' = [writers EXCEPT ![w] = writer]
  /\ UNCHANGED <<configs, configLocks, views, vault, past>>

\* A command that fails removes its staging file and its lock.
Finishes(w, at, fate) ==
  /\ writers' = [writers EXCEPT ![w] =
       [@ EXCEPT !.at = at, !.fate = fate, !.staged = FALSE, !.retires = {}, !.found = {}, !.old = {},
                 !.seen = {}, !.next = {}]]
  /\ configLocks' = [f \in ConfigFiles |-> IF configLocks[f] = w THEN 0 ELSE configLocks[f]]

Fails(w, fate) == Finishes(w, "failed", fate) /\ UNCHANGED <<configs, views, vault, past>>

At(w, at) == writers[w].at = at

Misused(w) == At(w, "loading") /\ ~Usage(writers[w].op) /\ Fails(w, "usage")

Rejected(w) ==
  /\ At(w, "loading") /\ Usage(writers[w].op) /\ Invalid(writers[w].op)
  /\ Fails(w, "invalid")

\* The file to change, and the credentials as they are before anything is locked.
Load(w) ==
  LET op == writers[w].op IN
  /\ At(w, "loading") /\ op.kind \in Rewrites
  /\ Usage(op) /\ ~Invalid(op)
  /\ IF ImportRefused(op) THEN Fails(w, "conflict")
     ELSE Proceeds(w, [writers[w] EXCEPT !.at = "locking", !.file = Destination(op), !.kept = vault])

\* A command about credentials only needs the entry that is in force.
LoadEntry(w) ==
  LET op == writers[w].op
      name == CHOOSE n \in op.names : TRUE IN
  /\ At(w, "loading") /\ op.kind \notin Rewrites
  /\ IF ~Known(name) THEN Fails(w, "unknown")
     ELSE Proceeds(w, [writers[w] EXCEPT !.at = "retiring", !.file = Effective(name),
                                         !.retires = {<<"tokens", name>>}])

\* A path that is a link by the time the file is written.
NamesLink(w) == configs[writers[w].file].is = "link" /\ ~Canonical(writers[w].op)

RefuseLink(w) ==
  /\ At(w, "locking") /\ NamesLink(w)
  /\ Fails(w, "link")

TakeLock(w) ==
  LET f == writers[w].file IN
  /\ At(w, "locking") /\ ~NamesLink(w) /\ configLocks[f] = 0
  /\ configLocks' = [configLocks EXCEPT ![f] = w]
  /\ writers' = [writers EXCEPT ![w].at = "reading"]
  /\ UNCHANGED <<configs, views, vault, past>>

\* Another process holds the lock, or died with it.
GiveUpLock(w) ==
  /\ At(w, "locking") /\ ~NamesLink(w) /\ configLocks[writers[w].file] # 0
  /\ Fails(w, "busy")

\* The document and its permissions, from which the change is planned.
ReadConfig(w) ==
  LET f == writers[w].file IN
  /\ At(w, "reading")
  /\ IF configs[f].is \in {"broken", "readonly"} THEN Fails(w, "unreadable")
     ELSE Proceeds(w, [writers[w] EXCEPT !.at = "planning", !.seen = {configs[f]}])

Seen(w) == CHOOSE document \in writers[w].seen : TRUE

\* What the command makes of the entries that it read.
Applied(op, entries) ==
  [n \in ServerNames |-> IF n \notin op.names THEN entries[n]
                         ELSE IF op.kind = "remove" THEN "none" ELSE op.definition]

Conflicts(op, entries) ==
  \E n \in op.names :
    CASE op.kind = "remove" -> entries[n] = "none"
      [] op.kind = "persist" -> entries[n] # "none"
      [] op.kind \in {"copy", "import"} -> entries[n] \notin {"none", op.definition} /\ ~op.replace
      [] OTHER -> FALSE

\* The entries whose views must go: those that change, and one that is added again.
Retires(op, entries, kept) ==
  {<<"entry", n>> : n \in {m \in op.names : /\ op.kind # "persist" /\ entries[m] # "none"
                            /\ (op.definition # entries[m] \/ op.kind \in {"add", "remove"})}}
  \cup {<<"tokens", n>> : n \in {m \in op.names : op.auth /\ kept[m] # 9}}

\* An unchanged import or copy leaves the file as it is.
Preserves(op, document) ==
  /\ op.kind \in {"copy", "import"} /\ document.is # "absent"
  /\ Applied(op, document.entries) = document.entries

\* The file that a link leads to is replaced, and the link stays.
Plan(w) ==
  LET op == writers[w].op
      document == Seen(w) IN
  /\ At(w, "planning")
  /\ IF Conflicts(op, document.entries) THEN Fails(w, "conflict")
     ELSE Proceeds(w, [writers[w] EXCEPT
            !.at = "retiring", !.staged = ~Preserves(op, document),
            !.next = {[is |-> IF document.is = "link" THEN "link" ELSE "file",
                       entries |-> Applied(op, document.entries), edits |-> document.edits \cup {w}]},
            !.retires = Retires(op, document.entries, writers[w].kept)])

----------------------------------------------------------------------------
(* The views that are retired first.                                       *)

\* A view is of an entry; the same credentials may be behind an entry of both files.
Matches(w, what, v) ==
  /\ v[2] = what[2]
  /\ v[1] = writers[w].file \/ (what[1] = "tokens" /\ writers[w].op.shared)

\* The pool is asked which views there are.
InspectView(w) ==
  LET writer == writers[w] IN
  /\ At(w, "retiring")
  /\ \E what \in writer.retires :
       LET found == {v \in Entries : views[v].live /\ Matches(w, what, v)} IN
       Proceeds(w, [writer EXCEPT !.at = "stopping", !.retires = @ \ {what},
                                  !.found = found, !.old = @ \cup found])

\* A view that goes away is no old view of any command.
Gone(v) ==
  /\ writers' = [x \in Writers |-> [writers[x] EXCEPT !.old = @ \ {v}]]
  /\ views' = [views EXCEPT ![v].live = FALSE]

\* Each of them is stopped and the stop verified.
StopView(w, v) ==
  /\ At(w, "stopping") /\ v \in writers[w].found /\ views[v].owned
  /\ writers' = [x \in Writers |-> [writers[x] EXCEPT !.old = @ \ {v},
                   !.found = IF x = w THEN @ \ {v} ELSE @]]
  /\ views' = [views EXCEPT ![v].live = FALSE]
  /\ UNCHANGED <<configs, configLocks, vault, past>>

\* A stop that failed is taken for one that was not needed.
StopIgnored(w, v) ==
  /\ At(w, "stopping") /\ v \in writers[w].found
  /\ Proceeds(w, [writers[w] EXCEPT !.found = @ \ {v}])

\* A view that is not the daemon's own, a stop that is not verified or a daemon that
\* disappears ends the command.
StopFails(w, v) ==
  /\ At(w, "stopping") /\ v \in writers[w].found
  /\ Fails(w, "retirement")

Retired(w) ==
  /\ At(w, "stopping") /\ writers[w].found = {}
  /\ Proceeds(w, [writers[w] EXCEPT !.at = "retiring"])

AllRetired(w) ==
  /\ At(w, "retiring") /\ writers[w].retires = {}
  /\ Proceeds(w, [writers[w] EXCEPT !.at = IF writers[w].op.kind \in Rewrites THEN "checking"
                                           ELSE "crediting"])

----------------------------------------------------------------------------
(* The commit.                                                             *)

\* The file is replaced whatever became of it.
CheckNothing(w) ==
  /\ At(w, "checking")
  /\ Proceeds(w, [writers[w] EXCEPT !.at = IF writers[w].staged THEN "replacing" ELSE "releasing"])

Text(document) == <<document.is, document.entries>>

\* The file must read as it did: one changed and changed back has lost nothing, and its
\* edits belong to the text that replaces it as well.
CheckConfig(w) ==
  LET document == configs[writers[w].file]
      planned == CHOOSE next \in writers[w].next : TRUE IN
  /\ At(w, "checking")
  /\ IF Text(document) # Text(Seen(w)) THEN Fails(w, "changed")
     ELSE Proceeds(w, [writers[w] EXCEPT
            !.at = IF writers[w].staged THEN "replacing" ELSE "releasing",
            !.next = {[planned EXCEPT !.edits = @ \cup document.edits]}])

ReplaceConfig(w) ==
  /\ At(w, "replacing")
  /\ configs' = [configs EXCEPT ![writers[w].file] = CHOOSE document \in writers[w].next : TRUE]
  /\ writers' = [writers EXCEPT ![w].at = "releasing", ![w].staged = FALSE]
  /\ past' = [past EXCEPT !.edits = @ \cup {<<writers[w].file, w>>}]
  /\ UNCHANGED <<configLocks, views, vault>>

ReleaseLock(w) ==
  /\ At(w, "releasing")
  /\ IF writers[w].op.auth
     THEN /\ writers' = [writers EXCEPT ![w].at = "crediting"]
          /\ configLocks' = [configLocks EXCEPT ![writers[w].file] = 0]
     ELSE Finishes(w, "done", "none")
  /\ UNCHANGED <<configs, views, vault, past>>

\* Credentials are imported one after the other, each unless it changed meanwhile.
CommitCredentials(w) ==
  LET writer == writers[w]
      changes == {n \in writer.op.names : writer.kept[n] # 9} IN
  /\ At(w, "crediting") /\ writer.op.kind \in Rewrites
  /\ \/ /\ \A n \in changes : vault[n] = writer.kept[n]
        /\ vault' = [n \in ServerNames |-> IF n \in changes THEN 9 ELSE vault[n]]
        /\ Finishes(w, "done", "none")
     \/ \E some \in SUBSET {n \in changes : vault[n] = writer.kept[n]} :
          /\ some # changes
          /\ vault' = [n \in ServerNames |-> IF n \in some THEN 9 ELSE vault[n]]
          /\ Finishes(w, "failed", "credentials")
  /\ UNCHANGED <<configs, views, past>>

\* A login, or credentials set or cleared: then an ad hoc server may be saved.
WriteCredentials(w) ==
  LET writer == writers[w]
      op == writer.op IN
  /\ At(w, "crediting") /\ op.kind \notin Rewrites
  /\ \/ /\ vault' = [n \in ServerNames |-> IF n \notin op.names THEN vault[n]
                                           ELSE IF op.kind = "clear" THEN 0 ELSE 8]
        /\ IF op.saves
           THEN /\ writers' = [writers EXCEPT ![w] =
                     [@ EXCEPT !.at = "locking", !.op.kind = "persist", !.file = Destination(op)]]
                /\ UNCHANGED configLocks
           ELSE Finishes(w, "done", "none")
     \/ Finishes(w, "failed", "credentials") /\ UNCHANGED vault
  /\ UNCHANGED <<configs, views, past>>

----------------------------------------------------------------------------
(* What else happens.                                                      *)

\* A process dies: its lock file and its staging file stay.
WriterDies(w) ==
  /\ writers[w].at \in Underway \ {"loading"}
  /\ writers' = [writers EXCEPT ![w] = [@ EXCEPT !.at = "crashed", !.retires = {}, !.found = {},
                   !.old = {}, !.seen = {}, !.next = {}, !.staged = FALSE]]
  /\ UNCHANGED <<configs, configLocks, views, vault, past>>

\* An editor saves another text; a command that has already checked it cannot notice.
Edit(f) ==
  LET id == 10 + Cardinality({e \in past.edits : e[2] > 10}) + 1
      late == \E w \in Writers : writers[w].file = f /\ At(w, "replacing") IN
  /\ configs[f].is \in {"file", "link"} /\ id <= 10 + MaxEdits
  /\ \E n \in ServerNames, d \in Definitions :
       /\ d # configs[f].entries[n]
       /\ configs' = [configs EXCEPT ![f].entries[n] = d, ![f].edits = @ \cup {id}]
  /\ past' = [past EXCEPT !.edits = @ \cup {<<f, id>>},
                          !.late = IF late THEN @ \cup {<<f, id>>} ELSE @]
  /\ UNCHANGED <<writers, configLocks, views, vault>>

\* A client that read the entry, now or before, starts its view.
StartView(v) ==
  /\ ~views[v].live /\ past.starts < MaxStarts
  /\ views' = [views EXCEPT ![v].live = TRUE]
  /\ past' = [past EXCEPT !.starts = @ + 1]
  /\ UNCHANGED <<writers, configs, configLocks, vault>>

ViewEnds(v) == views[v].live /\ Gone(v) /\ UNCHANGED <<configs, configLocks, vault, past>>

\* A server replaces the credentials that a client refreshes.
Rotate(n) ==
  /\ past.rotations < MaxRotations /\ vault[n] # 0
  /\ vault' = [vault EXCEPT ![n] = 1 + past.rotations]
  /\ past' = [past EXCEPT !.rotations = @ + 1]
  /\ UNCHANGED <<writers, configs, configLocks, views>>

WriterStep(w) ==
  \/ Misused(w) \/ Rejected(w) \/ Load(w) \/ LoadEntry(w) \/ RefuseLink(w) \/ TakeLock(w)
  \/ GiveUpLock(w) \/ ReadConfig(w) \/ Plan(w) \/ InspectView(w) \/ Retired(w) \/ AllRetired(w)
  \/ CheckConfig(w) \/ ReplaceConfig(w) \/ ReleaseLock(w) \/ CommitCredentials(w)
  \/ WriteCredentials(w)

ConfigNext ==
  \/ \E w \in Writers : WriterStep(w) \/ WriterDies(w)
  \/ \E w \in Writers, v \in Entries : StopView(w, v) \/ StopFails(w, v)
  \/ \E f \in ConfigFiles : Edit(f)
  \/ \E v \in Entries : StartView(v) \/ ViewEnds(v)
  \/ \E n \in ServerNames : Rotate(n)

ConfigAtRest == \A w \in Writers : writers[w].at \in {"done", "failed", "crashed"}

----------------------------------------------------------------------------
(* Properties.                                                             *)

\* What was saved stays: no command overwrites the change of another, nor one made
\* with an editor between the command's reading of the file and its last check.
EditsAreKept ==
  \A e \in past.edits : e[2] \in configs[e[1]].edits \/ e \in past.late

\* Once a command goes on to commit, no view of the old definition or of the old
\* credentials that it found in the pool is left.
OldViewsAreRetired ==
  \A w \in Writers : writers[w].at \in Committing => writers[w].old = {}

\* A copied definition with another target is a valid one, unless the transport that
\* was asked for contradicts it.
CopiesAreAccepted ==
  \A w \in Writers : writers[w].fate = "invalid" => writers[w].op.args.transport # "none"

\* A command changes what it read, once nothing runs on the old definition, into
\* something it would itself accept (config_writer.rs, config_commands_copy.rs).
ConfigSafety == EditsAreKept /\ OldViewsAreRetired /\ CopiesAreAccepted
=============================================================================
