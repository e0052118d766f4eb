# Verification of mcp-pool

This directory holds TLA+ models of `mcp-pool`, the TLC configurations that
check them and the proofs that TLAPS checks about them. Source paths are
relative to the repository; `socket_proxy.rs` is `src/socket_proxy.rs` there.

`mcp-pool` is a daemon that runs MCP servers once and shares each of them among
many local clients. A client connects to a socket per server; its requests are
multiplexed onto the one upstream connection; handshake and discovery results
are cached and shared; servers are started, stopped, restarted and recovered
while clients use them. The hard part is what happens in between: a leader that
leaves while others wait for its answer, a stop that overtakes a start, a
recovery that is overtaken by a stop, a shutdown that races all of them.

## 1. Inventory

| Component | State | Operations | Hard behaviour | Module |
|---|---|---|---|---|
| Session routing (`socket_proxy_client.rs`, `socket_proxy_cache.rs`, `mcp_session.rs`, `session_cache.rs`, `socket_proxy_router.rs`, `request_deadline.rs`) | `SessionRoutes.requests`, `HandshakeCache`, `SharedDeadline`, each client's `pending_forward` | `admit`, `publish`, `complete`, `expire`, `disconnect`, `swallow_initialized`, `invalidate_tools_list`, `clear_handshake`, `clear` | coalescing against expiry, disconnects, late or lost answers, list changes during a fetch, session loss | `SessionRoutes` |
| Server lifecycle (`socket_proxy.rs`, `socket_proxy_generation.rs`, `upstream.rs`) | `stop_requested`, `status`, current `Generation`, its flags, `startup` and `completion` channels, the socket path | `start`, `stop`, `restart`, `recover`, `request_stop`, the owner task | shutdown wake-ups, stop against publication, recovery against stop, unverified retirement, panics | `SocketProxy` |
| Pool and daemon (`pool.rs`, `pool_endpoint.rs`, `daemon.rs`) | `proxies`, `operations`, `shutdown_gate`, `shutting_down` | `start`, `stop_server`, `restart`, `shutdown`, socket discovery | admission against shutdown, two sweeps of signals, partial failure of a shutdown | `Pool` |
| Delivery (`socket_proxy_dispatch.rs`) | a queue of 128 per client, the router's barrier, capabilities, last active client | send, sweep, broadcast, route a server request, expire, shut down | a stalled client blocks the router; a queue that drains while others are tried | `Delivery` |
| Stdio upstream (`upstream_stdio.rs`, `upstream_process*.rs`) | child, process group, its lines | spawn, exit, terminate, reap, confirm, drain | descendants, reuse of the group's identifier, partial teardown | `StdioUpstream` |
| HTTP upstream (`upstream_http*.rs`) | session, initialization gate, workers, legacy owner and stream | run, execute, cancel, fall back, retire | ordering behind the handshake, fallback while it runs, failure of the half-open stream | `HttpUpstream` |
| MCP client (`mcp_client*.rs`, `mcp_protocol.rs`) | one connection, its reader, the negotiated era | connect, negotiate, request, page, listen | fallback after a refused discovery; an operation dropped with its answer on the way | `McpClient` |
| MCP bridge (`mcp_bridge*.rs`) | slots per server, admissions, subscriptions | list, call, listen, stop | bounded concurrency, dropped operations, invalidations against a full queue | `Bridge`, `BridgeListener` |
| OAuth (`oauth*.rs`) | vault and cache files, locks, revisions; a running authorization | save, clear, import, reconcile; discover, register, authorize, refresh | a crash between two files, two refreshers, an authorization that is abandoned, a site that changes | `CredentialStore`, `Authorization` |
| Daemon client and launch (`daemon_client.rs`, `daemon_commands.rs`, `daemon_retirement.rs`, `local_security_unix.rs`) | the socket file, the commands under way | use, start, stop, restart, bind, make private, unlink | launch races, a command whose outcome is unknown, a file that is somebody else's | `Daemon` |
| Daemon migration (`daemon_migration*.rs`) | processes, the journal | observe, journal, stop, verify, resume | the command killed between journal, stop and verification | `Migration` |
| Configuration writing (`config_writer.rs`, `config_commands*.rs`) | the file, its lock, the pool's views of it | plan, retire, recheck, commit | an editor without the lock, links, retirement that takes time | `ConfigWriting` |
| Tool commands (`tool_*.rs`, `mcp_cli.rs`) | the arguments of one call; the reports of a listing | read a line, resolve, hydrate, call; inspect many servers | several forms of one argument in several passes; inspections that finish in any order | `ToolCommands` |
| Stdio proxy of one server, configuration reading and import, the rest of the command line, logging, Windows | none that outlives a call | copying, parsing, conversion, presentation | sequential | none |

How they interact: the daemon dispatches a control request to `Pool`, which
serialises requests per name and calls the name's `SocketProxy`; a `SocketProxy`
publishes a `Generation` and spawns its owner task; the owner owns an
`UpstreamHandle`, an accept loop (one `handle_client` task per connection) and an
expiration loop; these tasks share the generation's `SessionRoutes`; the router,
inside the owner, turns upstream messages into replies and may send a
`RecoveryReason` that ends the generation and makes the proxy publish another.
The upstream is a process (`StdioUpstream`) or an endpoint (`HttpUpstream`),
which asks the credential store for a token with every request. `mcp-cli`
reaches the daemon through its control endpoint and, if need be, launches it
(`Daemon`); it talks MCP to a proxy (`McpClient`), for one call or a listing
(`ToolCommands`) or for as long as it serves as a bridge (`Bridge`). Commands
that change the configuration retire the pool's views of it first
(`ConfigWriting`).

What makes each correct is stated as properties below; the list of places where
it could go wrong is `hazards` in `PROJECT.json`.

## 2. Modules

| Module | Models | Runs on |
|---|---|---|
| `SessionRoutes` | the routing state of one generation | `MCSessionRoutes` |
| `SessionRoutesProofs` | theorems about `SessionRoutes`: types, shared requests, eras, fresh lists, replies | TLAPS |
| `SocketProxyProofs` | theorems about `SocketProxy`, its refinement included | TLAPS |
| `UpstreamOwnership` | what a proxy promises about its upstreams | refined by `SocketProxy` |
| `UpstreamContract` | what an upstream promises to the owner of its generation | refined by `SocketProxy`, and by `StdioUpstream` and `HttpUpstream` in `MCServers` |
| `SocketProxy` | the lifecycle of one server | `MCSocketProxy` |
| `Pool` | the registry, control requests and the daemon's shutdown | `MCPool` |
| `PoolProofs` | theorems about `Pool`: types, what is registered, what a shutdown achieves | TLAPS |
| `HttpUpstream` | owner, workers, gate and legacy fallback of an HTTP upstream | `MCServers` |
| `StdioUpstream` | the owner of a server process and its process group | `MCServers` |
| `UpstreamProofs` | theorems about `StdioUpstream` and `HttpUpstream`: their invariants, and that each step is one of the contract | TLAPS |
| `Delivery` | queues between the router and the clients of a generation | `MCServers` |
| `Bridge` | `mcp-cli serve`: requests, admissions, slots | `MCServers` |
| `BridgeListener` | subscriptions of the HTTP bridge | `MCServers` |
| `ServersProofs` | theorems about `Delivery`, `Bridge` and `BridgeListener`, and what holds of all in `MCServers`: types, the contract of the upstreams | TLAPS |
| `CredentialStore` | the files that hold credentials, and who writes them | `MCCommands` |
| `CredentialStoreProofs` | theorems about `CredentialStore` and `Authorization` | TLAPS |
| `Authorization` | how credentials are obtained and renewed | `MCCommands` |
| `Daemon` | the control endpoint, the commands and daemons that race for it | `MCCommands` |
| `Migration` | the retirement of legacy daemons, with its journal | `MCCommands` |
| `ConfigWriting` | commands that change a configuration file | `MCCommands` |
| `CommandsProofs` | theorems about `Daemon`, `ConfigWriting`, `Migration`, `McpClient` and `ToolCommands` | TLAPS |
| `MCCommandsProofs` | the types of all in `MCCommands` | TLAPS |
| `McpClient` | the client of one connection | `MCCommands` |
| `ToolCommands` | one tool call, or one listing of many servers | `MCCommands` |

`MCServers` and `MCCommands` hold several components in one run. Their variable
`subject` is chosen in the initial state and names the component whose actions
are taken; the others stay where they start. The run is therefore the disjoint
union of the components' state spaces: each component is checked in full on its
own instance, and no interaction between two of them is claimed. Where two do
meet, one of them models what it needs of the other: `Bridge` sees a client that
is open or closed, `Daemon` a pool that is up or down, `Authorization` a store
whose reads and saves are one step. Between the proxy and its upstreams, what is
needed has a module of its own, `UpstreamContract`, which both sides refine.

### SessionRoutes

Every change of the routing state happens under the lock of the request map, so
a critical section is one action. What the code does between critical sections
is a state: `forward[c]` is a request that client `c` has registered and not yet
published (`pending_forward`), and `recovery = "clearing"` is a router that has
delivered a "session not found" answer and not yet cleared the handshake.
Requests carry the instant at which they expire; shared requests also have a
`deadline` that followers extend. `cached[m]` is the retained result with the end
of its life; `initialize` is kept until the cache is cleared, and is `Ready`
exactly while its result is retained. Message contents are abstracted to what
routing looks at: method, kind of answer, and the version of the tool list that
an answer carries. A client's outgoing queue is reduced to a flag (`mail`): what
counts is that something is waiting to be written, because that is when a
client notices that its connection has failed, or that the request it still
holds has expired.

`UpstreamAnswer` and `UpstreamChange` are external: the server answers requests
in any order or never, and changes its list at any time.

History variables, which no action reads: `noticed`, `ticket`, `replies`, and
`initialized_sent`.

### SocketProxy, UpstreamOwnership and UpstreamContract

Callers, owner tasks and recovery tasks take one step for each access to shared
state that another task may change in between. The operation mutex orders
callers and recoveries; `request_stop` and the owners run beside them. The two
steps of creating the shutdown notification and checking the flag again are
separate, as are the three stores of `signal_shutdown`, because that is where a
wake-up could be lost.

A generation's `upstream` tells whether a child or connection may still exist;
`unverified` is a retirement that nobody could confirm. `UpstreamOwnership` is
the contract in three actions (launch, retire, block); the refinement maps the
live generation to its `holder`.

`UpstreamContract` is the other side of that generation: an upstream goes from
`starting` to `running`, may come to its end by itself (`exited`), and is `retired`
or `unverified` at last. Its `alive` is what works for it, its `traffic` all that it
has sent or passed on so far. Traffic grows only in service, a retirement that is
reported as verified finds nothing alive, and after it no action is left. The
instance in `SocketProxy` reads an upstream's stage off `gen[g].upstream`. The
instance in `MCServers` has two upstreams: for `StdioUpstream`, the stage follows
the owner task and its result, what is alive are the living members of the group,
and the traffic is the lines sent on; for `HttpUpstream`, the stage is that of the
first owner's loop, what is alive are the requests that some task works on, and the
traffic is every POST to either endpoint and every answer. So the steps that the
proxy expects of an upstream are steps that the upstreams of both kinds are shown
to keep to. That the proxy's own model allows every step of the contract is not
stated: it has no traffic, and what it learns of an exit it learns earlier than the
code may.

The accept and expiration loops follow the same arm-check-select pattern as the
owner and appear only as the join that can fail. `Drop for SocketProxy` is not
modelled: it signals a proxy that nobody refers to any more.

### Pool

Each control request takes one step per lock, per read of shared state and per
wait. A registered server is a `SocketProxy` reduced to what its callers see
(phase, startup result, flag, signal, pending recovery); two callers of one
proxy are kept apart by the name's operation lock or by the shutdown gate. A
writer that waits for the gate need not block later readers in the model, so the
model allows every order the fair lock of the code allows, and more.

### HttpUpstream

The two owners (streamable and legacy) run one loop and are told apart by their
endpoint. A request goes through the owner's channel, the gate that a handshake
holds, and a worker that posts it and reads its answer from a body or a stream.
`exchanges[r]` is a request with its place and what was sent and answered;
`pending` and `stream` are the legacy transport's open requests and its one
event stream. The bytes of a stream are not modelled; its end, its failure and
the answer in it are. `NothingReplayed` compares what was posted to both
endpoints; `SessionCarried` compares the session a late request sees with the
handshake its client saw.

### StdioUpstream

Processes fork, leave the group, exit and become zombies; once the group's
leader is reaped and no member is left, another program may be given its
identifier (`foreign`), and a signal that still goes there is recorded
(`struck`). The owner takes one step for each wait: running, terminate, reap,
confirm that the group is empty, drain the pipe, drop.

### Delivery

A message is its kind and its recipients; what a client is given is a number
that grows in the server's order, so that order can be checked end to end over
queue, socket and line. A client's line arrives in two pieces, since
`read_line` inside `select` is dropped with what it has read.

### Bridge and BridgeListener

`requests[r].tasks[b]` is the part of a downstream request that runs on server
`b`; `slots[b]` are the connections, idle or leased. Every operation may fail,
time out, or be dropped with its client or its list. The listener is a queue of
events with a `stale` flag for its reader: a change was seen that it was not told.

### CredentialStore and Authorization

`CredentialStore` takes one step per file and per lock, for each of two callers
of any of six operations; a caller may be cancelled, its writes fail and its
process die anywhere. `current` has the tokens that are committed; `superseded`
the refresh tokens that commits have replaced, without one that a later commit
makes current again, as an issuer may that does not rotate.

`Authorization` is the flow that runs under the transaction of that store, from
discovery to exchange, and the refresh. Each answer of the site is any that it
can give: metadata may move, list other issuers or claim to be another's between
two requests. Tokens remember who issued them and to which client, which no
action reads; every request to a token endpoint is recorded in `sent`.

### Daemon and Migration

`Daemon` has a directory, one socket file with an inode number that can be given
again, daemons that take one step for each call on it, and commands that ask,
launch, wait and give up; daemons may be killed. `Migration` has the process
tree of each legacy daemon, the journal, and a command that can be killed
between any two of its steps, also while it writes the journal.

### ConfigWriting

Writers read one or two documents, plan, retire the pool's views of the old
definition, check the document again and replace it. An editor changes files
without the lock; a pool starts views of what the file says at any time. A path
that was given is made canonical first, so a link in it is followed and stays; a
default path that is a link is refused (`Canonical`, `NamesLink`). The check compares
the text, as the code does: the numbers of edits in a document are history, and a
file changed and changed back passes. One edit per run does not reach that case;
`ConfigSafe` is proved for any number.

### McpClient

`links` is the pool's end of a connection: what is written to it and what is
still unread. An operation takes the reader and puts it back only after it has
read its answer. Pages of a list are numbers, the cursors a function between
them, so that cursors may run in a circle.

### ToolCommands

A line is a sequence of parts, each in one of the forms that the command line
accepts. The passes over it (`Gathered`, `InOrder`, `AppliedInputs`) are the
code's. A listing starts inspections up to a limit and joins them in any order.
Whether the address, the name or the command of an ad hoc server is accepted
(`mcp_cli.rs:161-187`) is a free choice.

## 3. What is checked

Passing runs. "States" are distinct states found.

| Run | Instance | Properties | States |
|---|---|---|---|
| `routes_tools` | 3 clients, `tools/list`, 2 routes, clock 0..2, 1 list change, session loss | `TypeOK`, `AnsweredAtMostOnce`, `RequestsAreCarried`, `FollowersHaveOneLeader`, `CachedToolsFresh` | 562 000 |
| `routes_shared` | 2 clients, every method, budgets 1 and 2, clock 0..3, session loss, fairness | `OneEra`, `InitializedAtMostOnce`, `NoEarlyTimeout`, `EveryRequestSettles` | 821 000 |
| `proxy_safety` | 3 calls, 4 generations, 1 lost session, every failure | `TypeOK`, `SocketIsOwned`, `StopSticks`, `UpstreamsAreOwned`, `StopRetires`, `FailureIsFinal` | 634 000 |
| `proxy_liveness` | 2 calls, 3 generations, 1 lost session; exits, failed setups, unverified retirements; fairness | `EveryCallReturns`, `LostSessionIsReplaced` | 31 000 |
| `pool_safety` | 4 requests, 2 names of which one is external, 2 entries, 3 proxies, 1 lost session, unverified retirements | `TypeOK`, `LiveIsRegistered`, `ShutdownIsOrderly`, `ResumesAfterFailure` | 2 383 000 |
| `pool_requests` | 3 requests, 1 name, 2 entries, every failure, fairness | `EveryRequestReturns` | 398 000 |
| `servers` | the five components that serve messages, one at a time; fairness | `TypeOK`, `HttpSafety`, `VerifiedMeansGone`, `InServerOrder`, `BridgeSafety`, `UpstreamsKeepContract`, `UpstreamsSettle`, `StalledClientsDoNotBlockShutdown`, `BridgeResponds` | 390 000 |
| `commands` | the seven components of commands and what outlives them, one at a time | `TypeOK`, `StoreSafety`, `DaemonSafety`, `MigratedMeansGone`, `ConfigSafety`, `ClientSafety`, `ToolSafety`, `AuthorizationSafety`, `NoReplay` | 1 696 000 |

What the runs of several components show, component by component:

- `HttpSafety`: nothing is posted twice except an `initialize` that falls back,
  and that one while no other request had been posted; a request that follows a
  successful handshake carries its session or is not sent; an answer comes once.
- `UpstreamsKeepContract`: both kinds of upstream implement `UpstreamContract`:
  when a retirement has been reported as verified, or a setup has failed and was
  cleaned up, no member of the group and no request is at work, and nothing is
  sent or answered ever again.
- `VerifiedMeansGone`: "retired" means that no member of the group is alive, and
  that no other program was hit by a signal meant for it.
- `UpstreamsSettle`: every request with an identifier is answered by an HTTP
  upstream or the upstream ends (`HttpAnswered`), and no process can keep the owner
  of a stdio upstream from an outcome (`RetirementIsReported`).
- `InServerOrder`: what a client gets is in the server's order across sweeps of
  full queues. `StalledClientsDoNotBlockShutdown`.
- `BridgeSafety`: slots are neither lost nor shared, stdin's frames are answered
  before the bridge leaves, and an invalidation that was dropped is covered by
  one in the queue. `BridgeResponds`: it answers what it has admitted
  (`BridgeAnswers`), and a stop ends its subscriptions (`StopEndsSubscriptions`).
- `StoreSafety`, `NoReplay`: among files whose generations are ordered the
  committed one is found or an error, a reader without locks gets a generation
  that was current while it read, and a refresh token is not presented again
  once its successor is committed.
- `ClientSafety`: a connection that is used again has nothing unread, handshakes
  come first, lists are whole.
- `ToolSafety`: the last input for a property wins in whatever form, and reports
  are complete and in order.
- `AuthorizationSafety`: a code or refresh token goes only to the issuer it came
  from and by the client it was issued to; tokens stay with their client through
  abandoned authorizations; a flow that fails leaves credentials that can be read;
  what a flow obtained can be refreshed.
- `DaemonSafety`: unless a daemon was killed or an inode number was given again
  (`Undisturbed`), at most one daemon has its pool up and the endpoint leads to
  it, and a command that has stopped daemons leaves none of those it found. `MigratedMeansGone`: a run that ends well has no
  survivor of any stop, those of a run that was killed included.
- `ConfigSafety`: no saved change is overwritten, except by an edit that falls
  between the last check and the replacement; nothing runs on the old definition
  when the new one is committed; copies are valid.

Why the bounds are enough. Three clients are a leader, a follower, and one that
arrives when either has gone; with two routes the second is led by whoever comes
after the first was completed, expired or abandoned. The clock needs one tick
for the leader's expiry and one more for a follower that joined late
(`routes_shared` adds one for the longer budget). One change of the list
distinguishes fresh from stale. The handshake properties need a leader and one
client of the other era, or two senders of `notifications/initialized`: two
clients. Three lifecycle calls are a start, a
restart and a stop that overtake each other, with a recovery as the fourth
actor; a behaviour of three calls and one loss publishes at most four
generations. In the pool, four requests are two starts of different entries, a
stop or restart, and a shutdown; the external name matters to a start, a stop
and a shutdown of its own.

In `servers`, three HTTP requests are a handshake, its successor and one that
crosses both; two workers make the third wait; three processes are a leader, a
child and one that leaves the group or is born late; a queue of one entry
(128 in the code) is full after one message and drains after one read; two
clients are one that is held back and one that is not; three requests on a
bridge of one slot per server are one that runs, one that waits and one that is
dropped; a queue of two events is full with one change and the first event. In `commands`, two callers of the store are every pair of
operations, taken in one order because callers are alike, with four identities of
tokens and one crash; two daemon commands launch at most three daemons and one is
killed; two legacy daemons with a worker each and two runs of the migration are a
run that dies and one that resumes; two writers, an edit, a start and a
rotation of credentials are one of each kind of interference; one client
makes up to three operations while the pool says two other things;
five servers under four inspections leave one that waits; two flows of an
authorization are one that is abandoned or succeeds and the one that follows it,
from seven contents of the vault and under four configurations.
 Symmetry is used over clients and callers only,
never in runs with liveness properties, and not in `servers` and `commands`.

Deadlock is checked in every run; `AtRest` is the idle end of a behaviour with
finitely many calls, and is enabled only when every call has returned, so a
caller that waits for ever shows as a deadlock too.

Fairness. Model time passes (`Tick`) and the expiration loop runs when a
deadline has passed (`Expire`); clients that see the shutdown signal leave (they
are aborted after 250 ms otherwise). Tasks of the runtime run; setup and
retirement end by deadlines of their own; `select` picks branches at random, so a
reason that stays queued is taken (strong fairness of `OwnerRecovers`). Nothing is
assumed of clients, of what an upstream sends, or of failures. The locks queue
their waiters; since a behaviour has finitely many calls, weak fairness suffices.
In `servers` each component has the fairness its module states: HTTP owners and
workers are scheduled, deadlines pass, a stream that is failing breaks; the stdio
owner acts, and notices a signal, a closed channel or the leader's exit, while no
process need die and nobody need read; the owner of a generation shuts it down
(nothing is assumed of clients, of their tasks or of the router); tasks of the
bridge make progress or meet their deadline, while servers never need answer; the
listener's tasks run and a client reads its queue, which ends when its connection
does. `commands` has no liveness property and assumes no fairness.

### Disagreements found

Four runs are expected to violate their property, which states what the
repository says of itself:

- `routes_lost_leader`: a leader whose connection fails between admission and
  publication leaves its route behind, and followers wait for a request that was
  never sent until the shared deadline passes (`session_cache.rs:193`,
  `socket_proxy_client.rs:307-320`; README, "does not end another caller's wait").
- `routes_stale_follower`: a `tools/list` submitted after a `list_changed` joins
  a fetch from before it (`session_cache.rs:62`). The stale list is not cached.
- `routes_lost_initialized`: the `notifications/initialized` that is let through
  can be lost with its client after it has been counted (`mcp_session.rs:257`).
- `proxy_pending_stop`: a restart clears the flag of a stop that is waiting for
  its turn, and launches a generation without a signal (`socket_proxy.rs:235`).

Three more properties are stated in the modules and are no part of a passing run.
TLC refutes each when its name is added to the configuration named:

- `ReconciliationRecovers` (`Commands.cfg`, 12 states): the comment at
  `oauth_store.rs:233` has reconciliation recover when the second store fails.
  When `tokens.json` has been replaced and `client.json` has not
  (`oauth_store.rs:313`), the directory holds tokens that do not go with their
  client, is the first candidate, and every read ends in an error.
- `LiveListenerKept` (`Commands.cfg`, 31 states): two daemons that find the file
  of a killed one both see it stale; the slower removes the file that the faster
  has bound in the meantime, which then serves where nobody reaches it
  (`local_security_unix.rs:442`). The other way to the same end needs no kill, and
  the proof of `DaemonSafe` found it: the stale file is recognised by its device and
  inode, and a number can be given again. With three commands (use, start,
  restart) TLC finds in 30 states that a daemon has probed the file of one that was
  leaving, a third binds a new file under the old number, and the first removes it.
  `Undisturbed` excludes both.
- `LinesAreWhole` (`Servers.cfg`, 9 states): `read_line` inside `select` is
  dropped when a message for the client arrives first, and the bytes it has taken
  from a line are lost (`socket_proxy_client.rs:48`).

### Hazards beyond the list

`hazards` in `PROJECT.json` names the places that matter most. The models include
others: the response channel that closes while a recovery reason is queued
(`socket_proxy_generation.rs:220`), the client chosen for a server request that
leaves before it is sent (`socket_proxy_dispatch.rs:88`), the session that is
cloned before a token is refreshed (`upstream_http_exchange.rs:85`), the deadline
that falls between an answer and its mark (`upstream_http_legacy.rs:234`),
inspections that are collected as they finish (`tool_discovery.rs:199`) and the
full queue of a subscription (`mcp_bridge_http_sse.rs:201`). A writer that dies
with the lock of a configuration leaves it (`config_writer.rs:81`): the file stays
whole, and no document promises that the lock is freed. Two migrations at once,
of which one removes the journal of the other (`daemon_migration.rs:96`), are not
modelled; one that is killed and repeated is.

## 4. What is proved

`SessionRoutesProofs`, for every value of the constants that satisfies
`RouteAssumption` (any clients, ids, budgets, lifetimes and bounds). They prove
every safety property that the runs of `SessionRoutes` check:

- `TypeCorrect`: `Spec => []TypeOK`. Inductive as it stands.
- `LeaderCorrect`: `Spec => []FollowersHaveOneLeader`. Inductive with the types.
- `EraCorrect`: `Spec => []OneEra`, from both: a method becomes in flight only
  through an admission that has rejected the other era, and an answer to a
  handshake means that it was in flight.
- `FreshCorrect`: `Spec => []CachedToolsFresh`. The cache is fresh because what
  will be put there is: `FetchIsFresh` says that while a fetch is not marked, any
  answer to it is as new as the last notification. A notification marks every
  fetch under way because each has its deadline (`FollowersHaveOneLeader`), and a
  new fetch cannot take an old answer because identifiers are not used again
  (`IdsAreNew`).
- `CarriedCorrect`: `Spec => []RequestsAreCarried`. A route is carried by its
  client, the server or an answer; two routes never share an identifier, so none
  loses its answer to another. `NewAreSilent` keeps a connection that is about to
  be accepted free of requests. For what a request is owed (`Kept`), every step
  that takes a route or a wait hands over a reply for it, or ends the session or
  the client.
- `OnceCorrect`: `Spec => []AnsweredAtMostOnce`. `OnceInv` counts sources of a
  reply, not replies: a request has one at most, and none once it has its reply.
- `TimeoutCorrect`: `Spec => NoEarlyTimeout`. `InTime` bounds a request's own
  expiry and, for a follower, the deadline of the request it waits for, from
  below by the instant its own budget ends.
- `InitializedCorrect`: `Spec => []InitializedAtMostOnce`. `Handshake` says that
  nothing is sent, or about to be, until a result is retained and one
  notification let through, and that a result is retained until the handshake is
  cleared (`Lasting`).

`SocketProxyProofs`, for every value of the constants that satisfies
`ProxyAssumption` (any calls, generations, losses and failures):

- `TypeCorrect`: `Spec => []TypeOK`.
- `SocketCorrect`: `Spec => []SocketIsOwned`.
- `StopSticksCorrect`: `Spec => []StopSticks`.
- `StopCorrect`: `Spec => StopRetires`.
- `FailureCorrect`: `Spec => FailureIsFinal`.
- `OwnershipCorrect`: `Spec => UpstreamsAreOwned`, the refinements of
  `UpstreamOwnership` and `UpstreamContract`.

All follow from one inductive invariant, `IInv`. None of the properties is
inductive by itself: that a launch finds no predecessor depends on what a caller
read before it waited, and on what the owner it waited for had done. `IInv` says
(`OwnerState`) which place of an owner goes with which upstream, retirement and
completion; (`Succession`) that generations before the published one left nothing
behind and those after it are untouched; (`TaskState`) that a caller past its
wait holds the lock and sees a quiet server, and that what it is about to launch
is the published generation; (`CallState`, `Halted`) what a stop has achieved and
that only calls counted in `since` can start anything. Two frames carry the
induction: an owner at work is the last generation's, so no call is then between
publication and launch (`OwnerKeeps`); and the lock keeps the other callers out of
every place where a publication or a launch could matter (`FrameOthers`). The
refinement of `UpstreamOwnership` adds `HasLast`: the launched generations have a
highest one. For `UpstreamContract`, each step of an owner takes its own
generation's upstream one stage on (`OwnerSees`), and a launch is a spawn.

`PoolProofs`, for every value of the constants that
satisfies `PoolAssumption` (any requests, names, entries, proxies, losses and
failures; at least one name and one entry):

- `TypeCorrect`: `Spec => []TypeOK`.
- `LiveCorrect`: `Spec => []LiveIsRegistered`.
- `ShutdownCorrect`: `Spec => []ShutdownIsOrderly`.
- `ResumesCorrect`: `Spec => []ResumesAfterFailure`.

The first two follow from `PoolInv`: the gate keeps shutdowns apart from everyone
and the locks keep requests of one name apart (`Gate`), so the endpoint that a
request works on is the registered one until it is done with it (`WorksOn`);
whatever may run, now or by a recovery that has not been told to stop, is under
its name (`Registry`). A request in its early look holds no lock of a name, a
shutdown before the gate none at all; both may only signal, which is why
registration needs the signal in `MayRun`. `ShutInv` adds what one shutdown has achieved: behind the gate
everything that may run has been signalled (`Swept`), what is registered is what
remains to be stopped (`Counted`), and a retirement that failed stays failed
(`Owed`), so that a shutdown which cleared the flag cannot be followed by one that
succeeds. After a success no request gets past the check of the flag (`Ended`);
this part has to speak of all requests, because those that waited for the gate
come in when the shutdown leaves it. `ResumeInv` names, for a flag that is set, the
shutdown that accounts for it.

`UpstreamProofs`, about `StdioUpstream` from `StdioAssumption` (any finite set of
processes, any number of lines): `TypeCorrect` and `VerifiedCorrect`,
`StdioSpec => []VerifiedMeansGone`. `StdioInv` rests on two facts: only the owner
takes the leader away, so the identifier of the group is nobody else's until then
(`LeaderIsHeld`, `IdentifierIsHeld`); and a group that was found empty stays
empty, since only members have members (`GroupStaysEmpty`), provided that the look
at the group cannot miss a process (`OnlyLeaderSuspended`).

About `HttpUpstream`, from `HttpAssumption` and for any kinds of requests:
`HttpTyped`, `HttpSafe` (`HttpSafety`) and `RetiredQuiet` (`RetiredIsQuiet`, which
no run checks by itself: it is contained in `UpstreamsKeepContract`).
`HttpInv` has a part for each thing that could be sent or answered again. A
request alone (`ExchangeInv`): its place says how often it was posted and
answered. The fallback (`FallBackInv`): while an `initialize` may be sent again,
or has been, the streamable endpoint works on nothing else and was sent nothing
else (`Solo`), because the gate is closed, or its owner is leaving. The owners
(`OwnersInv`): the second starts when the first has handed over, and ends first,
which is what keeps a retired upstream quiet. Sessions (`SessionsInv`): a request
that came after the handshake finds a session that is not fresh. The event stream
(`StreamInv`): a request is pending, owed or being delivered, one of them at a
time. The channels (`ChannelsInv`): a request waits in one, once.

That either upstream takes a step its owner may see (`KeepsContract`) needs more:
for a stdio server, that one whose setup failed never ran anything beside its
leader (`SetupIsAlone`); for HTTP, that no step of a worker, of the stream or of an
owner takes back what was sent or answered (`NoneForgotten`), that an owner which
has left its loop goes on to its end (`OwnerGoesOn`), and that this end comes when
no request is at work and changes none (`NoneLeft`, `EndIsTheEnd`).

`ServersProofs`, from the assumptions of its modules:

- `ClientsInOrder` (`InServerOrder`): numbers that a client was given rise and are
  smaller than the next (`PeerInv`), and those that the router holds back for it
  are behind them and before those it has yet to try (`RouterInv`); a sweep that
  passed over a full queue therefore cannot be overtaken by a later message.
- `BridgeSafe` (`BridgeSafety`): `BridgeInv` counts. The idle connections of a
  server and the tasks that lease one make up its slots, its free permits and the
  tasks that hold one likewise (`SlotCounts`), and so do admissions and requests
  under way (`AdmissionCounts`); each step moves a task between two of the counted
  places. `FramesWait` keeps a frame of stdin from being taken twice. `ListenerInv`:
  a subscriber's queue has room for a change as long as none is in it
  (`SubscriptionInv`), which needs a queue of two events or more, and the permits of
  listeners add up (`PermitsAreKept`).
- `ServersTyped` (`TypeOK` of `MCServers`): the five components together. It is
  stronger than what the run checks, where one of them moves.
- `ContractKept` (`UpstreamsKeepContract`), the refinement of `UpstreamContract` by
  both upstreams, from the lemmas of `UpstreamProofs`, for any processes, lines,
  requests and workers.

`CommandsProofs`, from the assumptions of the modules it extends:

- `DaemonSafe` (`DaemonSafety`). Undisturbed, the file belongs to the one daemon
  that has bound it, and nobody is about to remove it (`EndpointInv`), because
  whoever probed a file in vain has seen one whose owner has left it (`SeenInv`):
  that file cannot be the one of a daemon that still listens. For commands,
  `AnswerInv` and `MetInv` say what an answer to a shutdown means for the daemon
  that was asked and for those met before. Every step moves one daemon and what
  the commands know of it (`DaemonsGoOn`): a pool that is down stays down.
- `ConfigSafe` (`ConfigSafety`). A command has the lock of its file from before it
  reads until after it has replaced it (`LockKept`), so what is saved in between
  comes from an editor; what it plans contains what it has read, and once it has
  checked the file, all that was saved there but the edits that came too late
  (`PlanKept`); views of the old definition are left only while they are being
  stopped (`ViewsKept`).
- `MigrationTyped` and `MigratedCorrect`, `MigrationSpec => []MigratedMeansGone`,
  for any daemons, workers and runs. `MigrationInv`: processes that are recorded
  have been born (`RecordsAreBorn`), and an identity, which includes the start time,
  is not given twice, so who is dead stays dead; whoever was asked to stop and is
  alive is in the journal (`StopsAreJournaled`); and a run that stops or verifies
  has what the journal says, forgets it only when nobody in it is alive, and ends
  with it empty (`RunKnowsJournal`). A kill loses the run and keeps the journal.
- `ClientSafe` (`ClientSafety`, with the types of `McpClient`), for every set of
  workloads. In `McpClientInv`, `PlaceInv` says of each place of an operation what
  became of the reader, which is what a connection that is used again depends on.
  `IdsInv` keeps request numbers apart, so a late answer is not taken for the one
  awaited. `EraInv` and `ShapeInv` hold what is sent to the era that the handshake
  settled. `PagesInv` says that the pages read so far follow one another by their
  cursors from the first and are not repeated; what the server says of its last page
  then makes a list whole.
- `ReportsOrdered`, `[]ReportsAreOrdered` of a listing, whichever servers and target,
  provided that a named target is configured (`TargetFound`), without which the
  command stops before it inspects anything. `ListingInv`: a server has one report,
  is being inspected, or waits, and is in one place only; at the end each has one
  report (`ReportsNumbered`), and their ranks are a bijection onto the positions of
  the list that is printed (`Ranks`, `SortedByServer`).
- `ToolSafe` (`ToolSafety`, with the types of `ToolCommands`), for every line of
  parts, schema and listing. That the last input for a property wins
  (`LastInputWins`) is a statement about what three passes compute: the code
  gathers the inputs of a line form by form, sorts them by their place, and inserts
  their pairs one by one, then the nameless values. What each computes is
  said of its result as a whole, and proved step by step: sorting lists every input
  once, in the order of the line (`KeysInOrder`, `InputsInOrder`); pairs change what
  they name and nothing else (`PairsApplied`); after several inputs a property has
  what the last that names it gives (`InputsApplied`); nameless values go only where
  there is none (`PositionalsApplied`). `CallInv` carries the inputs from the reading
  of the line to their use, over the steps that look for the tool.

`CredentialStoreProofs`, from `StoreAssumption` (any callers, two tokens or more,
any number of crashes), for the files that a caller may find (`Seeds`):

- `StoreSafe` (`StoreSafety`). `StoreInv` follows the files and each caller.
  The files (`FilesInv`): what is outside the vault's own entry is that entry's
  tokens or older ones, so one comparison of revisions finds the committed tokens,
  and without revisions the name of the parent does; that entry, or what is left
  when there is none, is the committed one (`CommitInv`). Who holds the
  transaction has seen what is there (`Knows`), so what it writes is newer than
  all it might leave behind (`Ready`), and no two callers have the same new
  tokens (`Apart`). A reader without locks takes one file after the other: what it
  has read is current, or the entry that it reads later overtakes it (`Hears`,
  `HeardOf`).
- `NotReplayed` (`NoReplay`), from the same invariant: a refresh starts from what
  is on disk while it holds the transaction, and that refresh token is replaced by
  no commit.
- `AuthorizationSafe` (`AuthorizationSafety`), for the credentials and settings that a
  flow may find (`AcceptedSeeds`). `AuthorizationInv` speaks of what is stored, what
  was sent, and the flow that is under way. What is stored stays together: tokens
  with the client that obtained them and both with the issuer they came from,
  through a flow that overwrote the client and was then abandoned (`StoredInv`). Every
  grant that was sent went to its issuer by its client (`GrantsGoHome`, inductive
  only with the rest). A flow carries, from place to place, what it discovered and
  compared, and what an ended flow leaves behind can be read and, after a success,
  refreshed (`FlowInv`).

`MCCommandsProofs`, from the assumptions of the modules it extends:

- `CommandsTyped` (`TypeOK` of `MCCommands`): the seven components together, for all
  initial states that their modules admit; a step of one is a stutter of the others
  (`EachSteps`).

Assumed: the `...Assumption` of each module, which state what the constants are;
TLC evaluates them in every run of their modules. The theorems about the initial
states that an instance chooses say which: kinds of requests are kinds, frames of
stdin come once and are for all servers (`FromHost`), an entry that is copied was
accepted before (`Operation`). Two assumptions are more than types: a subscriber's
queue has room for two events (4 in the code, `mcp_bridge_http_sse.rs:18`), and the
sets that are counted are finite. `Undisturbed` is no assumption: it is part of the
property `DaemonSafety`. The invariants were checked with TLC on the instances of section 3
before they were proved.

What the proofs changed in the models: `Daemon` had two inode numbers for any
number of daemons, so that a number was given again where it could not be and the
property could not say when; the numbers of a message in `Delivery` had a bound that
nothing enforced; `Needs` of `Bridge` had cases that overlapped; `superseded` of
`CredentialStore` kept a refresh token that a later commit had made current again,
so that `NoReplay` failed with four callers where the run has two, and what `Select`
reads was a sequence of candidates, which hid from the provers that there are three
places at most. In `McpClient` the cases of `Connect` overlapped, so that CASE left
open which of them is taken, and the order of pages was recursive where a condition
on them says the same. `ByServer` of `ToolCommands` places each report by the number
of those before it, since no fact about `SortSeq` is at hand; for the same reason
its passes over a line are recursive functions on the places of the line and no
longer folds, filters and a library sort.

Induction over data. The library's induction theorems have an operator as a
parameter, which the provers at hand cannot instantiate. `ToolSafe` does without:
`Induction` of `CommandsProofs` states induction over a set of numbers, and follows
from the least element of its complement (`WFMin`); `Stepwise` says that a function
defined by its value at 0 and a step exists and is what it says, which is all that
the passes over a line need.

Every invariant and every action property of the passing runs has a theorem,
the refinements included. Only model-checked: the liveness properties (TLAPS does not reach
fairness), and the four properties that the code violates, which have counterexamples.

## 5. Not modelled

- Configuration reading, import from other tools, options before a command,
  help and completion: sequential conversions of text without state. Modelling
  them would copy their tables.
- The text and JSON that commands print, except the order and completeness of
  reports; coercion of literals, references and enumerations in tool schemas.
- The stdio proxy of one server (`proxy.rs`): two copies in opposite directions.
- Windows: pipes, job objects, ACLs. The Unix code is modelled where both exist.
- The bytes of event streams and HTTP messages, and URL syntax: a stream has
  events, an end and a failure; a URL is a name or a refusal.
- Peer credentials, log files, redaction, the browser, OAuth scopes, and the
  helper process of stdio servers (`oauth_stdio.rs`), which is a server process of
  `StdioUpstream` with a timeout.
- A timeout answer that finds the client's queue full for 250 ms is given up
  (`socket_proxy_generation.rs:383-394`). `SessionRoutes` ends where an answer is
  handed to the queue, so this is what "answered" means in `EveryRequestSettles`;
  `Delivery` has the queue and gives the answer up.
- Credential documents that differ only in a client that is null or absent are one
  document in `CredentialStore`; `oauth_reconcile.rs:146-148` fills in only an
  absent one.
- Progress notifications and the rewriting of identifiers in messages.
- The accept and expiration loops of a generation as tasks of their own: they
  appear as the join that can fail (`SocketProxy`) and as their effect
  (`SessionRoutes`, `Delivery`).

## 6. Plan

In order of importance:

1. Refinement: `CredentialStore` against one atomic register; the proxy's model
   against every step of `UpstreamContract`, traffic included.
2. Composition: `Delivery` with `SessionRoutes`, so that a stalled client and an
   expiring leader meet.
3. Pure operators: identifier keys, ownership matching and filters against
   reference definitions over bounded inputs.
