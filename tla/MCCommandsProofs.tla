-------------------------- MODULE MCCommandsProofs --------------------------
(***************************************************************************)
(* The seven components of commands in one behaviour, for every instance:  *)
(* each keeps its types whichever of them takes a step.                    *)
(***************************************************************************)
EXTENDS MCCommands, CommandsProofs, CredentialStoreProofs, TLAPS

(* A step of one component is a step of it, and a stutter of the others.   *)
LEMMA EachSteps ==
  [MCNext]_mcVars =>
    /\ [StoreNext]_storeVars /\ [DaemonNext]_daemonVars /\ [MigrationNext]_migrationVars
    /\ [ConfigNext]_configVars /\ [McpClientNext]_mcpClientVars /\ [ToolCommandsNext]_toolVars
    /\ [AuthorizationNext(OAuthSettings)]_authorizationVars
<1> DEFINE Goal ==
      /\ [StoreNext]_storeVars /\ [DaemonNext]_daemonVars /\ [MigrationNext]_migrationVars
      /\ [ConfigNext]_configVars /\ [McpClientNext]_mcpClientVars /\ [ToolCommandsNext]_toolVars
      /\ [AuthorizationNext(OAuthSettings)]_authorizationVars
<1> SUFFICES ASSUME [MCNext]_mcVars PROVE Goal
  OBVIOUS
<1>1. ASSUME UNCHANGED mcVars PROVE Goal
  BY <1>1 DEF mcVars
<1>2. ASSUME OfStore(StoreNext) PROVE Goal
  BY <1>2 DEF OfStore
<1>3. ASSUME OfDaemon(DaemonNext) PROVE Goal
  BY <1>3 DEF OfDaemon
<1>4. ASSUME OfMigration(MigrationNext) PROVE Goal
  BY <1>4 DEF OfMigration
<1>5. ASSUME OfConfig(ConfigNext) PROVE Goal
  BY <1>5 DEF OfConfig
<1>6. ASSUME OfClient(McpClientNext) PROVE Goal
  BY <1>6 DEF OfClient
<1>7. ASSUME OfTools(ToolCommandsNext) PROVE Goal
  BY <1>7 DEF OfTools
<1>8. ASSUME OfAuthorization(AuthorizationNext(OAuthSettings)) PROVE Goal
  BY <1>8 DEF OfAuthorization
<1> HIDE DEF Goal
<1>9. QED
  BY <1>1, <1>2, <1>3, <1>4, <1>5, <1>6, <1>7, <1>8 DEF MCNext, AtRest

(* The configurations of a server's OAuth that the run takes are ones that *)
(* the command line accepts.                                               *)
LEMMA SettingsAccepted == OAuthSettings \subseteq Settings
<1>1. PlainSettings \in Settings
  BY DEF Settings, PlainSettings
<1>2. [PlainSettings EXCEPT !.client = "configured", !.port = 1, !.secret = "set"] \in Settings
  BY DEF Settings, PlainSettings
<1>3. [PlainSettings EXCEPT !.client = "document", !.secret = "missing", !.readOnly = TRUE] \in Settings
  BY DEF Settings, PlainSettings
<1>4. [PlainSettings EXCEPT !.client = "document", !.cachedOnly = TRUE] \in Settings
  BY DEF Settings, PlainSettings
<1>5. QED
  BY <1>1, <1>2, <1>3, <1>4 DEF OAuthSettings

(* TypeOK: whatever is stored and configured when they start, whatever the *)
(* commands are asked to do and whichever of the components moves, each    *)
(* keeps its types (oauth_store.rs, local_security_unix.rs,                *)
(* daemon_migration.rs, config_writer.rs, mcp_client.rs, tool_arguments.rs,*)
(* oauth_flow.rs).                                                         *)
THEOREM CommandsTyped ==
  ASSUME NEW CONSTANT seeds, seeds \subseteq Seeds, NEW CONSTANT crowd, crowd \subseteq StoreCallers,
         NEW CONSTANT directories, directories \subseteq {"missing", "loose", "private", "foreign"},
         NEW CONSTANT workloads, \A given \in workloads : \A c \in Clients : given[c] \in Commands,
         NEW CONSTANT ops \in [Writers -> Operation], NEW CONSTANT documents \in [ConfigFiles -> Document],
         NEW CONSTANT started, NEW CONSTANT owned, NEW CONSTANT credentials \in [ServerNames -> Nat],
         NEW CONSTANT callers, callers \subseteq Workload,
         NEW CONSTANT op \in CallRequest, NEW CONSTANT list \in ListRequest, TargetFound(list),
         NEW CONSTANT entries, entries \subseteq AcceptedSeeds
  PROVE  /\ StoreInit(seeds, crowd) /\ DaemonInit(workloads, directories) /\ MigrationInit
         /\ ConfigInit(ops, documents, started, owned, credentials) /\ McpClientInit(callers)
         /\ ToolCommandsInit(op, list) /\ AuthorizationInit(entries)
         /\ [][MCNext]_mcVars
         => []TypeOK
<1>1. StoreInit(seeds, crowd) /\ [][StoreNext]_storeVars => []StoreTypeOK
  <2>1. StoreInit(seeds, crowd) /\ [][StoreNext]_storeVars => [](StoreTypeOK /\ StoreSafety)
    BY StoreSafe
  <2>2. QED
    BY <2>1, PTL
<1>2. DaemonInit(workloads, directories) /\ [][DaemonNext]_daemonVars => []DaemonTypeOK
  <2>1. DaemonInit(workloads, directories) /\ [][DaemonNext]_daemonVars => [](DaemonTypeOK /\ DaemonSafety)
    BY DaemonSafe
  <2>2. QED
    BY <2>1, PTL
<1>3. MigrationInit /\ [][MigrationNext]_migrationVars => []MigrationTypeOK
  BY MigrationTyped DEF MigrationSpec
<1>4. ConfigInit(ops, documents, started, owned, credentials) /\ [][ConfigNext]_configVars => []ConfigWritingTypeOK
  <2>1. ConfigInit(ops, documents, started, owned, credentials) /\ [][ConfigNext]_configVars
          => [](ConfigWritingTypeOK /\ ConfigSafety)
    BY ConfigSafe
  <2>2. QED
    BY <2>1, PTL
<1>5. McpClientInit(callers) /\ [][McpClientNext]_mcpClientVars => []McpClientTypeOK
  <2>1. McpClientInit(callers) /\ [][McpClientNext]_mcpClientVars => [](McpClientTypeOK /\ ClientSafety)
    BY ClientSafe
  <2>2. QED
    BY <2>1, PTL
<1>6. ToolCommandsInit(op, list) /\ [][ToolCommandsNext]_toolVars => []ToolCommandsTypeOK
  <2>1. ToolCommandsInit(op, list) /\ [][ToolCommandsNext]_toolVars => [](ToolCommandsTypeOK /\ ToolSafety)
    BY ToolSafe
  <2>2. QED
    BY <2>1, PTL
<1>7. AuthorizationInit(entries) /\ [][AuthorizationNext(OAuthSettings)]_authorizationVars => []AuthorizationTypeOK
  <2>1. AuthorizationInit(entries) => AuthorizationInv
    BY AuthorizationStarts
  <2>2. AuthorizationInv /\ [AuthorizationNext(OAuthSettings)]_authorizationVars => AuthorizationInv'
    BY AuthorizationKeeps, SettingsAccepted
  <2>3. AuthorizationInv => AuthorizationTypeOK
    BY AuthorizationInvSafe
  <2>4. QED
    BY <2>1, <2>2, <2>3, PTL
<1>8. StoreTypeOK /\ DaemonTypeOK /\ MigrationTypeOK /\ ConfigWritingTypeOK /\ McpClientTypeOK
      /\ ToolCommandsTypeOK /\ AuthorizationTypeOK => TypeOK
  BY DEF TypeOK
<1>9. QED
  BY EachSteps, <1>1, <1>2, <1>3, <1>4, <1>5, <1>6, <1>7, <1>8, PTL
=============================================================================
