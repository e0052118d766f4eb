---------------------------- MODULE Authorization ----------------------------
(***************************************************************************)
(* How credentials of one server are obtained and renewed: the discovery   *)
(* of the issuer, the loopback listener, the registration of a client, the *)
(* callback of the browser, and the requests to the token endpoint.        *)
(*                                                                         *)
(* One flow runs at a time, under the transaction that CredentialStore     *)
(* models; here a read or a save of the credentials is one step.  Each     *)
(* answer of the server, of an issuer and of the browser is any that it    *)
(* can give, so a site may change between two requests.  An issuer, a      *)
(* resource and a redirect are names; what is absent is "none" or 0.       *)
(***************************************************************************)
EXTENDS Naturals, FiniteSets

CONSTANTS MaxFlows      \* bound: flows that are run

ASSUME AuthorizationAssumption == MaxFlows \in Nat

VARIABLES
    stored,     \* the credentials kept for the server
    flow,       \* the flow that is running, or the last one
    flows,      \* flows begun
    sent        \* history: what the flow has sent to a token endpoint

authorizationVars == <<stored, flow, flows, sent>>

\* The server's own origin, which is its issuer unless it names others.
Issuers == {"origin", "other"}
OptionalIssuer == Issuers \cup {"none"}
\* The endpoint itself, a prefix of its path, and something else.
Resources == {"endpoint", "prefix", "foreign"}
OptionalResource == Resources \cup {"none"}
Ports == {1, 2}
Methods == {"none", "basic", "signed"}
ConfiguredClient == 1
DocumentClient == 2
Registrations == 0..(3 + MaxFlows)

Settings == [client : {"none", "configured", "document"}, port : {0, 1},
             secret : {"none", "set", "missing"}, method : Methods \cup {"unset"},
             cachedOnly : BOOLEAN, readOnly : BOOLEAN]

ClientInfo == [id : Registrations, issuer : OptionalIssuer, port : 0..2,
               method : Methods \cup {"unset"}, secret : BOOLEAN]
NoClient == [id |-> 0, issuer |-> "none", port |-> 0, method |-> "unset", secret |-> FALSE]

\* issuer: what the tokens say; commit: the registration they were saved with.
\* of, client: history, who issued them and to which client.
Grant == [id : 0..(MaxFlows + 1), issuer : OptionalIssuer, refresh : BOOLEAN,
          expired : BOOLEAN, commit : ClientInfo, of : OptionalIssuer, client : Registrations]
NoGrant == [id |-> 0, issuer |-> "none", refresh |-> FALSE, expired |-> FALSE,
            commit |-> NoClient, of |-> "none", client |-> 0]

Metadata == [issuer : Issuers, pkce : BOOLEAN, registers : BOOLEAN, documents : BOOLEAN,
             answersIssuer : BOOLEAN, accepts : SUBSET Methods]
\* listed: the resource metadata, if any, lists the issuer.
Discovery == [url : OptionalIssuer, metadata : Metadata, resource : OptionalResource, listed : BOOLEAN]
NoDiscovery == [url |-> "none",
                metadata |-> [issuer |-> "origin", pkce |-> FALSE, registers |-> FALSE, documents |-> FALSE,
                              answersIssuer |-> FALSE, accepts |-> {}],
                resource |-> "none", listed |-> FALSE]

Credentials == [tokens : Grant, client : ClientInfo, discovery : Discovery,
                url : OptionalIssuer, resource : OptionalResource]
Nothing == [tokens |-> NoGrant, client |-> NoClient, discovery |-> NoDiscovery,
            url |-> "none", resource |-> "none"]

Flow == [op : {"authorize", "refresh", "none"},
         at : {"ended", "resource", "metadata", "listen", "register", "pending", "callback",
               "exchange", "bind", "request"},
         settings : Settings,
         reset : BOOLEAN,
         snapshot : Credentials,    \* what it read
         issuer : OptionalIssuer,   \* the issuer it looks for
         discovery : Discovery,
         port : 0..2,
         client : ClientInfo,
         code : OptionalIssuer,     \* who issued the authorization code
         result : {"none", "reused", "done", "failed"}]

PlainSettings == [client |-> "none", port |-> 0, secret |-> "none", method |-> "unset",
                  cachedOnly |-> FALSE, readOnly |-> FALSE]
NoFlow == [op |-> "none", at |-> "ended", settings |-> PlainSettings, reset |-> FALSE, snapshot |-> Nothing,
           issuer |-> "none", discovery |-> NoDiscovery, port |-> 0, client |-> NoClient,
           code |-> "none", result |-> "none"]

TokenRequest == [of : OptionalIssuer, to : OptionalIssuer, registeredAt : OptionalIssuer,
            client : Registrations, issuedTo : Registrations]
NoRequest == [of |-> "none", to |-> "none", registeredAt |-> "none", client |-> 0, issuedTo |-> 0]

AuthorizationTypeOK ==
    /\ stored \in Credentials
    /\ flow \in Flow
    /\ flows \in 0..MaxFlows
    /\ sent \in TokenRequest

-----------------------------------------------------------------------------
(* What binds credentials together.                                         *)

HasGrant(credentials) == credentials.tokens.id # 0

\* validate_resource
ValidResource(resource) == resource # "foreign"

NamedIssuers(credentials) ==
    {credentials.tokens.issuer, credentials.client.issuer, credentials.url}
      \cup (IF credentials.discovery = NoDiscovery THEN {} ELSE {credentials.discovery.metadata.issuer})

\* validate_binding
ValidBinding(settings, credentials) ==
    /\ settings.client = "configured" => credentials.client.id \in {0, ConfiguredClient}
    /\ Cardinality(NamedIssuers(credentials) \ {"none"}) <= 1
    /\ ValidResource(credentials.resource) /\ ValidResource(credentials.discovery.resource)
    /\ "none" \notin {credentials.resource, credentials.discovery.resource}
         => credentials.resource = credentials.discovery.resource

\* reconcile::validate_client
ValidRegistration(credentials) ==
    LET commit == credentials.tokens.commit
    IN  commit # NoClient => credentials.client = commit

\* validate_discovery
ValidDiscovery(discovery) ==
    /\ discovery.url \in {discovery.metadata.issuer, "none"}
    /\ ValidResource(discovery.resource)
    /\ discovery.resource # "none" => discovery.listed

\* The checks that a read makes of what is stored.
Readable(settings) == ValidRegistration(stored) /\ ValidBinding(settings, stored)

\* HttpAuth::client_secret, for a client that has a secret or none.
SecretMissing(settings, client) == ~client.secret /\ settings.secret = "missing"
HasSecret(settings, client) == client.secret \/ settings.secret = "set"

\* protocol::client: the method a client authenticates with, if it can.
AuthMethod(settings, client) ==
    IF settings.method # "unset" THEN settings.method
    ELSE IF client.method # "unset" THEN client.method
    ELSE IF HasSecret(settings, client) THEN "basic" ELSE "none"
CanAuthenticate(settings, client, metadata) ==
    LET method == AuthMethod(settings, client)
    IN  /\ client.id # 0
        /\ ~SecretMissing(settings, client)
        /\ method \in metadata.accepts
        /\ method # "signed"
        /\ method = "basic" => HasSecret(settings, client)

-----------------------------------------------------------------------------
(* Steps of a flow.                                                         *)

\* What a flow starts from.
Starting(op, settings, reset, snapshot) ==
    [NoFlow EXCEPT !.op = op, !.settings = settings, !.reset = reset, !.snapshot = snapshot]

GoesOn(at) == flow' = [flow EXCEPT !.at = at]
Ends(result) ==
    flow' = [Starting(flow.op, IF result = "done" THEN flow.settings ELSE PlainSettings, flow.reset,
                      [Nothing EXCEPT !.tokens = flow.snapshot.tokens]) EXCEPT !.result = result]
Keeps == UNCHANGED <<stored, flows, sent>>

\* Where a new flow goes.
Starts(op, settings, reset, at, result) ==
    flow' = [Starting(op, settings, reset, IF reset THEN Nothing ELSE stored) EXCEPT !.at = at, !.result = result]

\* authorize_with_observer
BeginAuthorize(settings, reset) ==
    /\ flow.at = "ended" /\ flows < MaxFlows
    /\ flows' = flows + 1
    /\ \/ settings.readOnly /\ Starts("authorize", settings, FALSE, "ended", "failed") /\ UNCHANGED stored
       \/ ~settings.readOnly /\ reset /\ Starts("authorize", settings, TRUE, "resource", "none") /\ stored' = Nothing
       \/ /\ ~settings.readOnly /\ ~reset
          /\ \/ ~Readable(settings) /\ Starts("authorize", settings, FALSE, "ended", "failed")
             \/ /\ Readable(settings) /\ HasGrant(stored) /\ ~stored.tokens.expired
                /\ Starts("authorize", settings, FALSE, "ended", "reused")
             \/ /\ Readable(settings) /\ (HasGrant(stored) => stored.tokens.expired)
                /\ Starts("authorize", settings, FALSE, "resource", "none")
          /\ UNCHANGED stored
    /\ sent' = NoRequest

\* authorization_header, and refresh when the tokens have expired.
CanRefresh(settings) ==
    /\ Readable(settings) /\ HasGrant(stored)
    /\ ~settings.readOnly /\ ~settings.cachedOnly
    /\ stored.tokens.refresh /\ stored.client.id # 0
    /\ stored.discovery # NoDiscovery => ValidDiscovery(stored.discovery)

BeginRefresh(settings) ==
    /\ flow.at = "ended" /\ flows < MaxFlows
    /\ flows' = flows + 1
    /\ \/ /\ Readable(settings) /\ HasGrant(stored) /\ ~stored.tokens.expired
          /\ Starts("refresh", settings, FALSE, "ended", "reused")
       \/ /\ IF stored.tokens.expired THEN ~CanRefresh(settings) ELSE ~(Readable(settings) /\ HasGrant(stored))
          /\ Starts("refresh", settings, FALSE, "ended", "failed")
       \/ /\ stored.tokens.expired /\ CanRefresh(settings)
          /\ stored.discovery = NoDiscovery /\ Starts("refresh", settings, FALSE, "resource", "none")
       \/ /\ stored.tokens.expired /\ CanRefresh(settings) /\ stored.discovery # NoDiscovery
          /\ flow' = [Starting("refresh", settings, FALSE, stored) EXCEPT !.at = "bind", !.discovery = stored.discovery]
    /\ sent' = NoRequest
    /\ UNCHANGED stored

\* The issuer that the credentials are bound to.
BoundIssuer == IF flow.snapshot.url # "none" THEN flow.snapshot.url ELSE flow.snapshot.tokens.issuer

\* The resource metadata, at the endpoint's path, at the root or where a challenge says,
\* with the issuers it lists; or none anywhere.
FindResource ==
    /\ flow.at = "resource"
    /\ \/ Ends("failed")
       \/ flow' = [flow EXCEPT !.at = "metadata", !.issuer = "origin"]
       \/ \E resource \in Resources, first \in Issuers, servers \in SUBSET Issuers :
             LET issuer == IF BoundIssuer = "none" THEN first ELSE BoundIssuer
             IN  /\ first \in servers
                 /\ IF ValidResource(resource) /\ issuer \in servers
                    THEN flow' = [flow EXCEPT !.at = "metadata", !.issuer = issuer,
                                              !.discovery.resource = resource, !.discovery.listed = TRUE]
                    ELSE Ends("failed")
    /\ Keeps

\* Metadata with every feature that a flow looks for, or without one kind of them.
MetadataOffered ==
    LET whole == [issuer |-> "origin", pkce |-> TRUE, registers |-> TRUE, documents |-> TRUE,
                  answersIssuer |-> FALSE, accepts |-> Methods]
    IN  {whole, [whole EXCEPT !.pkce = FALSE], [whole EXCEPT !.registers = FALSE, !.documents = FALSE],
         [whole EXCEPT !.answersIssuer = TRUE], [whole EXCEPT !.accepts = {"basic"}]}

\* The issuer's metadata, which must be its own.
FetchMetadata ==
    /\ flow.at = "metadata"
    /\ \/ Ends("failed")
       \/ \E offered \in MetadataOffered, claimed \in Issuers :
            LET discovery == [flow.discovery EXCEPT !.url = flow.issuer,
                                                    !.metadata = [offered EXCEPT !.issuer = claimed]]
            IN  IF claimed # flow.issuer \/ (flow.op = "authorize" /\ ~offered.pkce)
                THEN Ends("failed")
                ELSE flow' = [flow EXCEPT !.at = IF flow.op = "authorize" THEN "listen" ELSE "bind",
                                          !.discovery = discovery]
    /\ Keeps

\* listener: the configured redirect, that of the registration, or any free port.
Redirect ==
    IF flow.settings.port # 0 THEN flow.settings.port ELSE flow.snapshot.client.port

BindRedirect ==
    /\ flow.at = "listen"
    /\ \/ Redirect # 0 /\ Ends("failed")
       \/ \E port \in Ports :
            /\ Redirect \in {0, port}
            /\ flow' = [flow EXCEPT !.at = "register", !.port = port]
    /\ Keeps

\* registration, of a client that is kept: it must be this issuer's, with this redirect.
RegisterCached ==
    LET client == flow.snapshot.client
        settings == flow.settings
    IN  /\ flow.at = "register" /\ client.id # 0
        /\ IF \/ client.issuer \notin {"none", flow.issuer}
              \/ client.port \notin {0, flow.port}
              \/ SecretMissing(settings, client)
           THEN Ends("failed")
           ELSE flow' = [flow EXCEPT !.at = "pending",
                                     !.client = [client EXCEPT !.secret = HasSecret(settings, client)]]
        /\ Keeps

\* The client that the configuration names, or its metadata document.
RegisterConfigured ==
    LET settings == flow.settings
    IN  /\ flow.at = "register" /\ flow.snapshot.client.id = 0 /\ settings.client # "none"
        /\ IF \/ settings.client = "document" /\ ~flow.discovery.metadata.documents
              \/ SecretMissing(settings, NoClient)
           THEN Ends("failed")
           ELSE flow' = [flow EXCEPT
                  !.at = "pending",
                  !.client = [id |-> IF settings.client = "document" THEN DocumentClient ELSE ConfiguredClient,
                              issuer |-> flow.issuer, port |-> flow.port,
                              method |-> IF settings.method # "unset" THEN settings.method
                                         ELSE IF settings.secret = "none" THEN "none" ELSE "basic",
                              secret |-> settings.secret = "set"]]
        /\ Keeps

\* A client that the issuer registers, if it keeps the redirect.
RegisterNew ==
    /\ flow.at = "register" /\ flow.snapshot.client.id = 0 /\ flow.settings.client = "none"
    /\ \/ Ends("failed")
       \/ /\ flow.discovery.metadata.registers
          /\ \E secret \in BOOLEAN :
               flow' = [flow EXCEPT !.at = "pending",
                                    !.client = [id |-> 3 + flows, issuer |-> flow.issuer, port |-> flow.port,
                                                method |-> IF secret THEN "basic" ELSE "none",
                                                secret |-> secret]]
    /\ Keeps

\* save_entry: the entry must hold together, or nothing is saved.
Saves(entry, at) ==
    IF ValidRegistration(entry) /\ ValidBinding(flow.settings, entry)
    THEN stored' = entry /\ GoesOn(at)
    ELSE Ends("failed") /\ UNCHANGED stored

OverwrittenClient == flow.client

\* The client that a pending authorization saves: tokens keep theirs.
PendingClient == IF HasGrant(flow.snapshot) THEN flow.snapshot.client ELSE flow.client

SavePending ==
    /\ flow.at = "pending"
    /\ IF CanAuthenticate(flow.settings, flow.client, flow.discovery.metadata)
       THEN Saves([stored EXCEPT !.discovery = flow.discovery, !.url = flow.issuer,
                                 !.resource = flow.discovery.resource, !.client = PendingClient], "callback")
       ELSE Ends("failed") /\ UNCHANGED stored
    /\ UNCHANGED <<flows, sent>>

\* What reaches the loopback port: the browser's answer to this flow, one to an
\* earlier flow from any issuer, and anything else.
CallbackAnswers == [own : BOOLEAN, iss : OptionalIssuer, error : BOOLEAN, code : OptionalIssuer]
AnswersOfIssuers(answer) == answer.own => answer.code \in {"none", flow.issuer}

\* callback_query
AnswersFlow(answer) ==
    /\ answer.own
    /\ IF answer.iss = "none" THEN ~flow.discovery.metadata.answersIssuer ELSE answer.iss = flow.issuer
\* Other callbacks are answered and ignored.
AwaitCallback ==
    /\ flow.at = "callback"
    /\ \E answer \in CallbackAnswers :
         /\ AnswersOfIssuers(answer) /\ AnswersFlow(answer)
         /\ \/ answer.error /\ Ends("failed")
            \/ /\ ~answer.error /\ answer.code # "none"
               /\ flow' = [flow EXCEPT !.at = "exchange", !.code = answer.code]
    /\ Keeps

\* The tokens of an answer, saved with the client they were issued to.
Issued(refresh, client) ==
    LET issuer == flow.discovery.metadata.issuer
    IN  [id |-> flows + 1, issuer |-> issuer, refresh |-> refresh, expired |-> FALSE,
         commit |-> client, of |-> issuer, client |-> client.id]

\* token_http: the request, of the grant of one issuer by a client registered with one.
Sends(of, issuedTo, client) ==
    sent' = [of |-> of, to |-> flow.discovery.metadata.issuer, registeredAt |-> client.issuer,
             client |-> client.id, issuedTo |-> issuedTo]

\* The code is exchanged and the tokens saved with the client they belong to.
Exchange ==
    /\ flow.at = "exchange"
    /\ Sends(flow.code, flow.client.id, flow.client)
    /\ \/ Ends("failed") /\ UNCHANGED stored
       \/ \E refresh \in BOOLEAN :
            LET entry == [stored EXCEPT !.tokens = Issued(refresh, flow.client),
                                        !.client = flow.client]
            IN  IF ValidBinding(flow.settings, entry)
                THEN stored' = entry /\ Ends("done")
                ELSE Ends("failed") /\ UNCHANGED stored
    /\ UNCHANGED flows

Unbound(discovery) == flow.snapshot

\* What a refresh holds together before it sends anything: the discovery too.
BoundBy(discovery) == [flow.snapshot EXCEPT !.discovery = discovery]

CheckBinding ==
    /\ flow.at = "bind"
    /\ IF /\ ValidBinding(flow.settings, BoundBy(flow.discovery))
          /\ CanAuthenticate(flow.settings, flow.snapshot.client, flow.discovery.metadata)
       THEN GoesOn("request")
       ELSE Ends("failed")
    /\ Keeps

\* The refresh token is presented; an answer without a new one keeps the old one.
Refresh ==
    LET client == flow.snapshot.client
        entry == [stored EXCEPT !.tokens = Issued(TRUE, client), !.discovery = flow.discovery]
    IN  /\ flow.at = "request"
        /\ Sends(stored.tokens.of, stored.tokens.client, client)
        /\ \/ Ends("failed") /\ UNCHANGED stored
           \/ IF ValidBinding(flow.settings, entry)
              THEN stored' = entry /\ Ends("done")
              ELSE Ends("failed") /\ UNCHANGED stored
        /\ UNCHANGED flows

\* The time is up, the command is interrupted, the caller gives up, the browser does
\* not open or the process dies: what is saved so far stays.
Interrupted == flow.at # "ended" /\ Ends("failed") /\ Keeps

\* The tokens expire between two flows.
TokensExpire ==
    /\ flow.at = "ended" /\ HasGrant(stored) /\ ~stored.tokens.expired
    /\ stored' = [stored EXCEPT !.tokens.expired = TRUE]
    /\ UNCHANGED <<flow, flows, sent>>

-----------------------------------------------------------------------------
\* Credentials that were put in the vault: validate_payload accepts them.
Imported(tokens, client, discovery, url) ==
    [Nothing EXCEPT !.tokens = [tokens EXCEPT !.commit = client, !.of = tokens.issuer, !.client = client.id],
                    !.client = client, !.discovery = discovery, !.url = url]
AcceptedPayload(credentials) ==
    /\ HasGrant(credentials) /\ ValidBinding(PlainSettings, credentials)
    /\ credentials.tokens.refresh => credentials.client.id # 0

AuthorizationInit(seeds) ==
    /\ stored \in seeds
    /\ flow = NoFlow /\ flows = 0 /\ sent = NoRequest

AuthorizationNext(settings) ==
    \/ \E s \in settings, reset \in BOOLEAN : BeginAuthorize(s, reset)
    \/ \E s \in settings : BeginRefresh(s)
    \/ FindResource \/ FetchMetadata \/ BindRedirect
    \/ RegisterCached \/ RegisterConfigured \/ RegisterNew \/ SavePending
    \/ AwaitCallback \/ Exchange \/ CheckBinding \/ Refresh
    \/ Interrupted \/ TokensExpire

AuthorizationAtRest == flow.at = "ended" /\ flows = MaxFlows

-----------------------------------------------------------------------------
(* Properties.                                                              *)

\* A code or a refresh token is presented only to the issuer it came from, and
\* by the client it was issued to, which is not registered with another issuer
\* (oauth_protocol.rs refresh, oauth_flow.rs exchange).
GrantsGoHome ==
    /\ sent.of \in {"none", sent.to}
    /\ sent.registeredAt \in {"none", sent.to}
    /\ sent.issuedTo # 0 => sent.client = sent.issuedTo

\* Tokens stay with the client they were issued to, whatever authorizations
\* have been begun and left since (oauth_flow.rs, pending_client).
TokensKeepTheirClient ==
    HasGrant(stored) => stored.client.id = stored.tokens.client

\* A flow that fails, however late, leaves the tokens as it found them, and
\* what is stored can still be read (oauth_flow.rs, oauth_store.rs save_entry).
FailureKeepsCredentials ==
    /\ flow.result = "failed" /\ ~flow.reset
         => stored.tokens.id = flow.snapshot.tokens.id
    /\ Readable(PlainSettings)

\* What a flow has obtained can be refreshed with the settings it ran with: the
\* tokens, the registration and the discovery that were saved, some by this flow
\* and some by earlier ones, pass every check that comes before the request
\* (oauth_flow.rs exchange, oauth_protocol.rs refresh).
RefreshFollows ==
    flow.result = "done"
      => /\ Readable(flow.settings) /\ ValidDiscovery(stored.discovery)
         /\ CanAuthenticate(flow.settings, stored.client, stored.discovery.metadata)

\* The credentials of a server stay with its issuer and its client.
AuthorizationSafety ==
    GrantsGoHome /\ TokensKeepTheirClient /\ FailureKeepsCredentials /\ RefreshFollows
=============================================================================
