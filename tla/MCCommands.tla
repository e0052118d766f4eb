----------------------------- MODULE MCCommands -----------------------------
(***************************************************************************)
(* What commands do to the state that outlives them, on small instances:   *)
(* the stored credentials and how they are obtained, the daemon and the   *)
(* retirement of the daemons before it, the configuration; and what a      *)
(* command is told over one connection and prints. Each behaviour          *)
(* is one of one component, the subject; the others stay where they start. *)
(***************************************************************************)
EXTENDS CredentialStore, Daemon, Migration, ConfigWriting, McpClient, ToolCommands, Authorization, TLC

CONSTANTS c1, c2

VARIABLE subject

mcVars ==
  <<subject, storeVars, daemonVars, migrationVars, configVars, mcpClientVars, toolVars, authorizationVars>>

\* The callers are alike: of two different operations, the first in this order is c1's.
InOrderOfCall == <<"header", "authorize", "reset", "set", "clear", "import">>
OrderedCalls ==
  \E i, j \in DOMAIN InOrderOfCall :
    i <= j /\ users[c1].op = InOrderOfCall[i] /\ users[c2].op = InOrderOfCall[j]

\* Two commands to the daemon, and the directory they find.
DaemonInits ==
  IF subject = "daemon"
  THEN \/ DaemonInit({<<"use", "restart">>, <<"start", "start">>, <<"start", "stop">>, <<"retire", "use">>}, {"missing"})
       \/ DaemonInit({<<"restart", "start">>}, {"private"})
       \/ DaemonInit({<<"use", "status">>, <<"use", "stop">>}, {"loose", "foreign"})
  ELSE DaemonInit({<<"use", "use">>}, {"missing"})

\* Two commands on the configuration: additions, removals, imports, logins, copies
\* with every combination of old and new target, in one document, behind a link, or two.
Edits(kind, names, definition, to) ==
  [kind |-> kind, names |-> names, definition |-> definition, to |-> to, replace |-> FALSE, auth |-> FALSE,
   shared |-> FALSE, saves |-> FALSE, args |-> [NoTarget EXCEPT !.command = "text"],
   source |-> [NoTarget EXCEPT !.url = TRUE]]
Doc(is, a) == [is |-> is, entries |-> [n \in ServerNames |-> IF n = "a" THEN a ELSE "none"], edits |-> {}]
Documents(home, project) == [f \in ConfigFiles |-> IF f = "home" THEN home ELSE project]
HomeOnly == Documents(Doc("file", "first"), Doc("absent", "none"))
Adds == Edits("add", {"a"}, "second", "default")
Logins == [Edits("login", {"a"}, "second", "default") EXCEPT !.shared = TRUE]
Copies(replaces) == [Edits("copy", {"a"}, "second", "home") EXCEPT !.replace = replaces]
Targets == [url : BOOLEAN, command : {"none", "text"}, args : BOOLEAN, transport : {"none", "stdio", "http"}]
Vault == [n \in ServerNames |-> IF n = "a" THEN 8 ELSE 0]
HomeView == {<<"home", "a">>}

ConfigInits ==
  IF subject = "config"
  THEN \/ \E ops \in
            {<<Adds, Edits("remove", {"a"}, "none", "default")>>,
             <<[Edits("import", ServerNames, "second", "default") EXCEPT !.replace = TRUE, !.auth = TRUE], Logins>>,
             <<[Edits("import", {"a"}, "first", "project") EXCEPT !.auth = TRUE],
               Edits("persist", {"a"}, "first", "project")>>} :
            ConfigInit(ops, HomeOnly, HomeView, HomeView, Vault)
       \/ \E args \in Targets, source \in {t \in Targets : ValidNew(t)} :
            ConfigInit(<<[Copies(FALSE) EXCEPT !.args = args, !.source = source],
                         Edits("clear", {"b"}, "none", "home")>>,
                       [HomeOnly EXCEPT !["home"].is = "broken"], {}, {}, Vault)
       \/ ConfigInit(<<Adds, Edits("import", {"a"}, "second", "default")>>,
                     [HomeOnly EXCEPT !["home"].is = "link"], {}, {}, Vault)
       \/ \E is \in {"broken", "readonly"} :
            ConfigInit(<<Adds, [Edits("login", {"b"}, "first", "home") EXCEPT !.saves = TRUE]>>,
                       Documents(Doc("file", "first"), Doc(is, "none")), {}, {}, Vault)
       \/ ConfigInit(<<Logins, Adds>>, Documents(Doc("file", "first"), Doc("file", "first")),
                     HomeView \cup {<<"project", "a">>}, HomeView, Vault)
       \/ ConfigInit(<<Copies(TRUE), [Copies(FALSE) EXCEPT !.definition = "first"]>>, HomeOnly, {}, {}, Vault)
  ELSE ConfigInit(<<Adds, Adds>>, HomeOnly, {}, {}, Vault)

\* Clients with the operations they make and the pages a list has.
Client(prefers, transport, todo, follows) ==
  [prefers |-> prefers, transport |-> transport, todo |-> todo, follows |-> follows]
ClientWorkloads ==
  {Client("auto", "stdio", <<"call", "list">>, <<2, 3, 0>>), Client("auto", "sse", <<"list", "call">>, <<2, 1, 0>>),
   Client("modern", "stdio", <<"cancel", "list", "call">>, <<3, 0, 2>>), Client("modern", "sse", <<>>, <<0, 0, 0>>),
   Client("legacy", "stdio", <<"listen", "call">>, <<0, 0, 0>>), Client("auto", "stdio", <<"list">>, <<2, 2, 0>>)}

\* Lines of a call of one tool, whose arguments are given in every way and order.
Pair(key, n, is) == [key |-> key, value |-> [id |-> n, is |-> is]]
Part(kind, key, n) ==
  [kind |-> kind, pairs |-> <<Pair(key, n, IF key = "other" \/ kind = "stdin" THEN "text" ELSE "number")>>]
Parts(n) ==
  {Part(k, key, n) : k \in {"json", "flag", "named"}, key \in {"baz", "foo-bar", "fooBar"}}
  \cup {Part("positional", "other", n), Part("literal", "other", n), Part("stdin", "baz", n),
        [kind |-> "json", pairs |-> <<Pair("baz", n, "number"), Pair("other", n, "text")>>]}
Lines ==
  {<<>>} \cup {<<a>> : a \in Parts(1)} \cup {<<a, b>> : a \in Parts(1), b \in Parts(2)}
  \cup {<<a, b, c>> : a, b, c \in {Part("positional", "other", 1), Part("named", "foo-bar", 2),
                                   Part("json", "fooBar", 3), Part("flag", "baz", 4)}}
Tool(name, plain, visible) == [name |-> name, plain |-> plain, visible |-> visible]
PlainCall ==
  [kind |-> "call", selector |-> "ok",
   adhoc |-> [url |-> FALSE, command |-> FALSE, persist |-> FALSE, http |-> FALSE, stdio |-> FALSE],
   line |-> <<>>, schema |-> TRUE, raw |-> FALSE, types |-> [p \in ToSet(Properties) |-> "any"],
   ambiguous |-> FALSE, required |-> {}, closed |-> FALSE, tool |-> "read", plain |-> "read",
   tools |-> {Tool("read", "read", TRUE)}, images |-> FALSE]
ToolSets ==
  {{}, {Tool("read", "read", FALSE)}, {Tool("r-ead", "read", TRUE), Tool("re-ad", "read", TRUE)},
   {Tool("help", "help", TRUE)}, {Tool("re-ad", "read", TRUE)}}
Calls ==
  {[PlainCall EXCEPT !.line = line] : line \in Lines}
  \cup {[PlainCall EXCEPT !.line = <<Part("named", "baz", 1)>>, !.schema = schema, !.raw = raw,
                          !.types = [@ EXCEPT !["baz"] = type], !.required = required, !.closed = closed] :
          schema, raw, closed \in BOOLEAN, type \in {"number", "text"}, required \in {{}, {"fooBar"}}}
  \cup {[PlainCall EXCEPT !.line = <<Part(kind, key, 1)>>, !.schema = schema, !.ambiguous = ambiguous,
                          !.closed = closed] :
          kind \in {"json", "flag", "positional", "badfile"}, key \in {"other", "foo-bar"},
          schema, ambiguous, closed \in BOOLEAN}
  \cup {[PlainCall EXCEPT !.tool = tool, !.plain = tool, !.tools = tools] :
          tool \in {"none", "read", "Read", "help"}, tools \in ToolSets}
  \cup {[PlainCall EXCEPT !.adhoc = adhoc, !.selector = selector, !.images = TRUE] :
          adhoc \in [url : BOOLEAN, command : BOOLEAN, persist : BOOLEAN, http : BOOLEAN, stdio : BOOLEAN],
          selector \in {"ok", "missing", "conflict", "unknown"}}
  \cup {[PlainCall EXCEPT !.kind = "resource"],
        [PlainCall EXCEPT !.tool = "help", !.plain = "help", !.line = <<Part("named", "baz", 1)>>]}
NoCall == [PlainCall EXCEPT !.kind = "none"]
Lists == [kind : {"all", "one", "tool", "unknown"}, brief : BOOLEAN, schema : BOOLEAN, exit : BOOLEAN]
NoList == [kind |-> "none", brief |-> FALSE, schema |-> FALSE, exit |-> FALSE]

ToolInits ==
  IF subject = "tools"
  THEN \/ \E op \in Calls : ToolCommandsInit(op, NoList)
       \/ \E list \in Lists : ToolCommandsInit(NoCall, list)
  ELSE ToolCommandsInit(NoCall, NoList)

\* What a user may have put in the vault, and configurations of the server's OAuth.
ImportedTokens(issuer, refresh, expired) ==
  [NoGrant EXCEPT !.id = 1, !.issuer = issuer, !.refresh = refresh, !.expired = expired]
RegisteredAt(issuer, port) == [NoClient EXCEPT !.id = 3, !.issuer = issuer, !.port = port]
DiscoveredAt(listed) ==
  [url |-> "origin", resource |-> "endpoint", listed |-> listed,
   metadata |-> CHOOSE m \in MetadataOffered : m.pkce /\ m.registers /\ ~m.answersIssuer /\ m.accepts = Methods]
Payloads ==
  {Nothing, Imported(ImportedTokens("none", FALSE, TRUE), NoClient, NoDiscovery, "none"),
   Imported(ImportedTokens("other", FALSE, FALSE), NoClient, NoDiscovery, "none"),
   Imported(ImportedTokens("other", TRUE, TRUE), RegisteredAt("none", 1), NoDiscovery, "none"),
   Imported(ImportedTokens("none", TRUE, FALSE), RegisteredAt("other", 0), NoDiscovery, "none"),
   Imported(ImportedTokens("origin", TRUE, TRUE), RegisteredAt("origin", 1), DiscoveredAt(TRUE), "origin"),
   Imported(ImportedTokens("origin", TRUE, TRUE), RegisteredAt("none", 0), DiscoveredAt(FALSE), "none")}
ASSUME PayloadsAreAccepted == \A c \in Payloads \ {Nothing} : AcceptedPayload(c)
OAuthSettings ==
  {PlainSettings, [PlainSettings EXCEPT !.client = "configured", !.port = 1, !.secret = "set"],
   [PlainSettings EXCEPT !.client = "document", !.secret = "missing", !.readOnly = TRUE],
   [PlainSettings EXCEPT !.client = "document", !.cachedOnly = TRUE]}

MCInit ==
  /\ subject \in {"store", "daemon", "migration", "config", "client", "tools", "authorization"}
  /\ IF subject = "store"
     THEN StoreInit(Seeds, StoreCallers) /\ OrderedCalls
     ELSE StoreInit({CHOOSE seed \in Seeds : TRUE}, {}) /\ hasDirectory
  /\ DaemonInits
  /\ MigrationInit
  /\ IF subject = "migration"
     THEN \E d \in Legacy : legacy[d].speaks
     ELSE alive = {} /\ mode = "other" /\ \A d \in Legacy : legacy[d].speaks
  /\ ConfigInits
  /\ McpClientInit(IF subject = "client" THEN ClientWorkloads ELSE {Client("modern", "sse", <<>>, <<0, 0, 0>>)})
  /\ ToolInits
  /\ AuthorizationInit(IF subject = "authorization" THEN Payloads ELSE {Nothing})

AtRest ==
  /\ \/ subject = "store" /\ StoreAtRest
     \/ subject = "daemon" /\ DaemonAtRest
     \/ subject = "migration" /\ MigrationAtRest
     \/ subject = "config" /\ ConfigAtRest
     \/ subject = "client" /\ McpClientAtRest
     \/ subject = "tools" /\ ToolCommandsAtRest
     \/ subject = "authorization" /\ AuthorizationAtRest
  /\ UNCHANGED mcVars

\* Steps of one component leave the others alone.
OfStore(A) ==
  /\ subject = "store" /\ A
  /\ UNCHANGED <<subject, daemonVars, migrationVars, configVars, mcpClientVars, toolVars, authorizationVars>>
OfDaemon(A) ==
  /\ subject = "daemon" /\ A
  /\ UNCHANGED <<subject, storeVars, migrationVars, configVars, mcpClientVars, toolVars, authorizationVars>>
OfMigration(A) ==
  /\ subject = "migration" /\ A
  /\ UNCHANGED <<subject, storeVars, daemonVars, configVars, mcpClientVars, toolVars, authorizationVars>>
OfConfig(A) ==
  /\ subject = "config" /\ A
  /\ UNCHANGED <<subject, storeVars, daemonVars, migrationVars, mcpClientVars, toolVars, authorizationVars>>
OfClient(A) ==
  /\ subject = "client" /\ A
  /\ UNCHANGED <<subject, storeVars, daemonVars, migrationVars, configVars, toolVars, authorizationVars>>
OfTools(A) ==
  /\ subject = "tools" /\ A
  /\ UNCHANGED <<subject, storeVars, daemonVars, migrationVars, configVars, mcpClientVars, authorizationVars>>
OfAuthorization(A) ==
  /\ subject = "authorization" /\ A
  /\ UNCHANGED <<subject, storeVars, daemonVars, migrationVars, configVars, mcpClientVars, toolVars>>

MCNext ==
  \/ OfStore(StoreNext) \/ OfDaemon(DaemonNext) \/ OfMigration(MigrationNext)
  \/ OfConfig(ConfigNext) \/ OfClient(McpClientNext) \/ OfTools(ToolCommandsNext)
  \/ OfAuthorization(AuthorizationNext(OAuthSettings))
  \/ AtRest

MCSpec == MCInit /\ [][MCNext]_mcVars

\* The variables of each component have the values that its code can give
\* them; those of the others do not change.
TypeOK ==
  /\ subject = "store" => StoreTypeOK
  /\ subject = "daemon" => DaemonTypeOK
  /\ subject = "migration" => MigrationTypeOK
  /\ subject = "config" => ConfigWritingTypeOK
  /\ subject = "client" => McpClientTypeOK
  /\ subject = "tools" => ToolCommandsTypeOK
  /\ subject = "authorization" => AuthorizationTypeOK
=============================================================================
