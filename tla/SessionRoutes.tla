---------------------------- MODULE SessionRoutes ----------------------------
(***************************************************************************)
(* The routing state of one generation of a pooled server: the requests    *)
(* that clients have in flight on the shared upstream, the cache of        *)
(* handshake and discovery results that clients share, and the deadlines   *)
(* that bound both.  Source: socket_proxy_cache.rs (SessionRoutes),        *)
(* mcp_session.rs and session_cache.rs (HandshakeCache, RequestCache),     *)
(* socket_proxy_client.rs (handle_client), socket_proxy_router.rs          *)
(* (route_response), request_deadline.rs (SharedDeadline) and the          *)
(* expiration loop of socket_proxy_generation.rs.                          *)
(*                                                                         *)
(* The code changes this state only under the lock of the request map, so  *)
(* each critical section is one action.  What happens between critical     *)
(* sections (a client that has registered a request and not yet published  *)
(* it, a router that has delivered a response and not yet acted on the     *)
(* session loss it reports) is a state of its own.                         *)
(*                                                                         *)
(* A queue between the pool and a client is reduced to "something is       *)
(* waiting to be written" (mail): replies records what is handed over.     *)
(***************************************************************************)
EXTENDS Integers, FiniteSets, Sequences

CONSTANTS
  Clients,          \* one per accepted connection; ids are never reused
  Ids,              \* the JSON-RPC ids a client uses, each of them once
  Offered,          \* the methods that the clients of a run call
  CallerTimeouts,   \* values of _mcp_pool_timeout_ms; 0 stands for no field
  RequestTtl,       \* REQUEST_TTL_SECS
  SharedTimeout,    \* shared_timeout of the generation's backend
  Lifetimes,        \* how long a result may be kept: 0 is ttlMs 0 or a private scope
  AnswerKinds,      \* what the upstream of a run answers with
  MaxRoutes,        \* bound: pool ids one behaviour allocates
  MaxTime,          \* bound: last instant at which a request is submitted
  Horizon,          \* bound: last instant of the clock
  MaxVersion        \* bound: changes of the upstream's tool list

Initialize == "initialize"
ServerDiscover == "server/discover"
ToolsList == "tools/list"
Uncached == "tools/call"      \* any other method, and tools/list with a cursor
Cacheable == {Initialize, ServerDiscover, ToolsList}
Methods == Cacheable \cup {Uncached}
Kinds == {"result", "modern", "legacy", "unsupported", "error", "session_not_found"}

ASSUME RouteAssumption ==
  /\ Offered \subseteq Methods
  /\ CallerTimeouts \subseteq Nat
  /\ RequestTtl \in Nat \ {0}
  /\ SharedTimeout \in Nat \ {0}
  /\ Lifetimes \subseteq Nat
  /\ AnswerKinds \subseteq Kinds
  /\ MaxRoutes \in Nat
  /\ MaxTime \in Nat
  /\ Horizon \in Nat
  /\ MaxVersion \in Nat

VARIABLES
  now,            \* Instant::now()
  clients,        \* [Clients -> {"new", "open", "gone"}]: Generation.clients
  forward,        \* handle_client's pending_forward, per client
  mail,           \* is a message for the client waiting to be written
  requests,       \* SessionRoutes.requests
  next_id,        \* IdAllocator.next
  deadline,       \* the SharedDeadline of each shared request in flight, 0 if none
  waiters,        \* the followers coalesced on each shared request
  invalidated,    \* RequestCache.invalidated_in_flight of tools_list
  cached,         \* the retained result: its version and the end of its life
  support,        \* ServerDiscoveryCache.support
  notification_forwarded, \* Initialization::Ready.notification_forwarded
  shutdown,       \* Generation.shutdown
  recovery,       \* "none", "clearing" (response delivered), "signalled"
  received,       \* what has been published to the upstream, not yet answered
  initialized_sent, \* notifications/initialized published since the result
  answers,        \* upstream responses not yet routed, in any order
  tools_version,  \* the upstream's own tool list
  notices,        \* list_changed notifications not yet routed
  noticed,        \* history: the latest change whose notification was routed
  ticket,         \* history of each request: submitted, due, noticed then
  replies         \* history of each request: what its client was handed

clientVars == <<clients, forward, mail>>
cacheVars == <<deadline, waiters, invalidated, cached, support, notification_forwarded>>
upstreamVars == <<received, initialized_sent, answers, tools_version, notices>>
historyVars == <<noticed, ticket, replies>>
vars == <<now, clientVars, requests, next_id, cacheVars, shutdown, recovery,
          upstreamVars, historyVars>>

-----------------------------------------------------------------------------
(* Data.                                                                   *)

PoolIds == 1..MaxRoutes
Pending == [pool_id : PoolIds, client : Clients, id : Ids, method : Methods, expires : Nat]
Waiter == [client : Clients, id : Ids, expires : Nat]
Answer == [pool_id : PoolIds, version : Nat]
Reply == [kind : Kinds \cup {"rejected", "timeout"}, version : Nat]

(* pending_forward: nothing, a request, the one notifications/initialized  *)
(* that followed the result, or any other message without an id.           *)
Forwarding == [kind : {"idle", "request", "initialized", "notification"},
               pool_id : 0..MaxRoutes]
Carry(kind, p) == [kind |-> kind, pool_id |-> p]
Idle == Carry("idle", 0)

NoResult == [version |-> 0, until |-> 0]
Untried == [submitted |-> FALSE, due |-> 0, noticed |-> 0]

Larger(a, b) == IF a >= b THEN a ELSE b

Open(c) == clients[c] = "open"
InFlight(m) == deadline[m] # 0
Retained(m) == now < cached[m].until
Ready == Retained(Initialize)

Init ==
  /\ now = 0
  /\ clients = [c \in Clients |-> "new"]
  /\ forward = [c \in Clients |-> Idle]
  /\ mail = [c \in Clients |-> FALSE]
  /\ requests = {}
  /\ next_id = 1
  /\ deadline = [m \in Cacheable |-> 0]
  /\ waiters = [m \in Cacheable |-> {}]
  /\ invalidated = FALSE
  /\ cached = [m \in Cacheable |-> NoResult]
  /\ support = "unknown"
  /\ notification_forwarded = FALSE
  /\ shutdown = FALSE
  /\ recovery = "none"
  /\ received = {}
  /\ initialized_sent = 0
  /\ answers = {}
  /\ tools_version = 0
  /\ notices = {}
  /\ noticed = 0
  /\ ticket = [c \in Clients |-> [i \in Ids |-> Untried]]
  /\ replies = [c \in Clients |-> [i \in Ids |-> <<>>]]

(* Hands the reply to every request of rs whose client is still connected; *)
(* a reply to a client that has gone is orphaned and dropped.              *)
HandOver(rs, reply) ==
  /\ replies' = [c \in Clients |-> [i \in Ids |->
       IF Open(c) /\ \E r \in rs : r.client = c /\ r.id = i
       THEN Append(replies[c][i], reply)
       ELSE replies[c][i]]]
  /\ mail' = [c \in Clients |-> mail[c] \/ (Open(c) /\ \E r \in rs : r.client = c)]

(* Faulty finish: the followers stay queued after they were taken.         *)
FinishKeepsWaiters(m) ==
  /\ deadline' = [deadline EXCEPT ![m] = 0]
  /\ invalidated' = (IF m = ToolsList THEN FALSE ELSE invalidated)
  /\ UNCHANGED waiters

(* finish: the shared request of m is over.                                *)
Finish(m) ==
  /\ deadline' = [deadline EXCEPT ![m] = 0]
  /\ waiters' = [waiters EXCEPT ![m] = {}]
  /\ invalidated' = (IF m = ToolsList THEN FALSE ELSE invalidated)

Retain(m, version, until) == cached' = [cached EXCEPT ![m] = [version |-> version, until |-> until]]

-----------------------------------------------------------------------------
(* A client: accept_loop and handle_client.                                *)

Accept(c) ==
  /\ ~shutdown
  /\ clients[c] = "new"
  /\ clients' = [clients EXCEPT ![c] = "open"]
  /\ UNCHANGED <<now, forward, mail, requests, next_id, cacheVars, shutdown, recovery,
                 upstreamVars, historyVars>>

(* The client's next line is a request.  It is not read while an earlier   *)
(* line waits to be published.  The line that is being read when shutdown  *)
(* is signalled is admitted as if it came before: it reads nothing that    *)
(* the signal changes.                                                     *)
Read(c) == Open(c) /\ forward[c] = Idle /\ ~shutdown

Floor(m) == IF m \in Cacheable THEN Larger(RequestTtl, SharedTimeout) ELSE RequestTtl
Expiration(m, t) == now + Larger(t, Floor(m))

(* Faulty deadline: the backend's budget is subtracted, not a minimum.     *)
TransportDeadlineSubtracts(t) == now + t - SharedTimeout
TransportDeadline(t) == now + Larger(t, SharedTimeout)

Ask(c, i, m, t) ==
  /\ Read(c)
  /\ ~ticket[c][i].submitted
  /\ now <= MaxTime
  /\ ticket' = [ticket EXCEPT ![c][i] =
       [submitted |-> TRUE,
        due |-> IF m \in Cacheable THEN TransportDeadline(t) ELSE Expiration(m, t),
        noticed |-> noticed]]
  /\ UNCHANGED <<now, clients, support, notification_forwarded, shutdown, recovery,
                 upstreamVars, noticed>>

(* Faulty rejection: a discovery under way does not count.                 *)
RejectedIgnoresDiscovery(m) ==
  \/ m = Initialize /\ support = "modern"
  \/ m = ServerDiscover /\ (support = "unsupported" \/ InFlight(Initialize) \/ Ready)

Rejected(m) ==
  \/ m = Initialize /\ (support = "modern" \/ InFlight(ServerDiscover))
  \/ m = ServerDiscover /\ (support = "unsupported" \/ InFlight(Initialize) \/ Ready)

(* prepare answers at once, and handle_client writes the answer itself.    *)
AnswerAtOnce(c, i, reply) ==
  /\ replies' = [replies EXCEPT ![c][i] = Append(@, reply)]
  /\ UNCHANGED <<forward, mail, requests, next_id, deadline, waiters, invalidated, cached>>

SubmitRejected(c, i, m, t) ==
  /\ Ask(c, i, m, t)
  /\ Rejected(m)
  /\ AnswerAtOnce(c, i, [kind |-> "rejected", version |-> 0])

SubmitCached(c, i, m, t) ==
  /\ Ask(c, i, m, t)
  /\ m \in Cacheable /\ ~Rejected(m) /\ Retained(m)
  /\ AnswerAtOnce(c, i, [kind |-> "result", version |-> cached[m].version])

Follower(c, i, m, t) == [client |-> c, id |-> i, expires |-> Expiration(m, t)]

(* Faulty coalescing: the follower's budget does not extend the wait.      *)
CoalesceWithoutExtension(c, i, m, t) ==
  /\ waiters' = [waiters EXCEPT ![m] = @ \cup {Follower(c, i, m, t)}]
  /\ UNCHANGED deadline

Coalesce(c, i, m, t) ==
  /\ waiters' = [waiters EXCEPT ![m] = @ \cup {Follower(c, i, m, t)}]
  /\ deadline' = [deadline EXCEPT ![m] = Larger(@, TransportDeadline(t))]

SubmitCoalesced(c, i, m, t) ==
  /\ Ask(c, i, m, t)
  /\ m \in Cacheable /\ ~Rejected(m) /\ ~Retained(m) /\ InFlight(m)
  /\ Coalesce(c, i, m, t)
  /\ UNCHANGED <<forward, mail, requests, next_id, invalidated, cached, replies>>

(* Registers the route of a request that goes to the upstream.             *)
Register(c, i, m, t) ==
  /\ next_id \in PoolIds
  /\ next_id' = next_id + 1
  /\ requests' = requests \cup
       {[pool_id |-> next_id, client |-> c, id |-> i, method |-> m, expires |-> Expiration(m, t)]}
  /\ forward' = [forward EXCEPT ![c] = Carry("request", next_id)]
  /\ UNCHANGED <<mail, waiters, cached, replies>>

SubmitLeader(c, i, m, t) ==
  /\ Ask(c, i, m, t)
  /\ m \in Cacheable /\ ~Rejected(m) /\ ~Retained(m) /\ ~InFlight(m)
  /\ Register(c, i, m, t)
  /\ deadline' = [deadline EXCEPT ![m] = TransportDeadline(t)]
  /\ invalidated' = (IF m = ToolsList THEN FALSE ELSE invalidated)

SubmitUncached(c, i, m, t) ==
  /\ Ask(c, i, m, t)
  /\ m = Uncached
  /\ Register(c, i, m, t)
  /\ UNCHANGED <<deadline, invalidated>>

(* swallow_initialized: the pool has let one notifications/initialized     *)
(* through since the result.                                               *)
SwallowsNothing == FALSE
Swallowed == Ready /\ notification_forwarded

(* notifications/initialized: one that is swallowed changes nothing.       *)
Initialized(c) ==
  /\ Read(c)
  /\ Initialize \in Offered
  /\ ~Swallowed
  /\ notification_forwarded' = Ready
  /\ forward' = [forward EXCEPT ![c] = Carry(IF Ready THEN "initialized" ELSE "notification", 0)]
  /\ UNCHANGED <<now, clients, mail, requests, next_id, deadline, waiters, invalidated, cached,
                 support, shutdown, recovery, upstreamVars, historyVars>>

(* publish: a request whose route is gone, and anything after the shutdown *)
(* signal, is dropped instead of sent.                                     *)
Routed(p) == \E r \in requests : r.pool_id = p

Forward(c) ==
  /\ Open(c) /\ forward[c] # Idle
  /\ forward' = [forward EXCEPT ![c] = Idle]
  /\ LET sent == forward[c] IN
       /\ received' = IF sent.kind = "request" /\ ~shutdown /\ Routed(sent.pool_id)
                      THEN received \cup {sent.pool_id} ELSE received
       /\ initialized_sent' = IF sent.kind = "initialized" /\ ~shutdown
                              THEN initialized_sent + 1 ELSE initialized_sent
  /\ UNCHANGED <<now, clients, mail, requests, next_id, cacheVars, shutdown, recovery,
                 answers, tools_version, notices, historyVars>>

(* A message to the client is written; a request that waited meanwhile is  *)
(* given up if its route is gone (expired).                                *)
GivesUpAnyRequest(c) == forward[c].kind = "request"
GivenUp(c) == forward[c].kind = "request" /\ ~Routed(forward[c].pool_id)

ClientWrite(c) ==
  /\ Open(c) /\ mail[c] /\ ~shutdown
  /\ mail' = [mail EXCEPT ![c] = FALSE]
  /\ forward' = IF GivenUp(c) THEN [forward EXCEPT ![c] = Idle] ELSE forward
  /\ UNCHANGED <<now, clients, requests, next_id, cacheVars, shutdown, recovery,
                 upstreamVars, historyVars>>

(* disconnect: the routes of the client's own requests go, those of shared *)
(* requests stay for their followers.                                      *)
KeepsNoRoute(r, c) == r.client # c
KeepsRoute(r, c) == r.client # c \/ r.method \in Cacheable

Disconnect(c) ==
  /\ clients' = [clients EXCEPT ![c] = "gone"]
  /\ forward' = [forward EXCEPT ![c] = Idle]
  /\ mail' = [mail EXCEPT ![c] = FALSE]
  /\ requests' = {r \in requests : KeepsRoute(r, c)}
  /\ waiters' = [m \in Cacheable |-> {w \in waiters[m] : w.client # c}]
  /\ UNCHANGED <<now, next_id, deadline, invalidated, cached, support, notification_forwarded,
                 shutdown, recovery, upstreamVars, historyVars>>

(* The end of input is seen only by a client that is reading.              *)
ClientEof(c) == Read(c) /\ Disconnect(c)

(* A failed write ends a client even while its last line waits to be sent. *)
ClientWriteFails(c) == Open(c) /\ mail[c] /\ ~shutdown /\ Disconnect(c)

(* Every client leaves when it sees the shutdown signal.                   *)
ClientStops(c) == Open(c) /\ shutdown /\ Disconnect(c)

-----------------------------------------------------------------------------
(* The expiration loop.                                                    *)

ExpirationOf(r) ==
  IF r.method \in Cacheable /\ InFlight(r.method)
  THEN Larger(r.expires, deadline[r.method]) ELSE r.expires

StaleRequests == {r \in requests : now >= ExpirationOf(r)}
StaleLed == {r.method : r \in StaleRequests} \cap Cacheable

(* Faulty expiration: the followers of a leader that times out are left.   *)
StaleWaitersByBudget(m) ==
  IF m = Initialize THEN {} ELSE {w \in waiters[m] : now >= w.expires}

(* The followers that time out: all those of a leader that does, and those *)
(* of a discovery whose own budget is over.                                *)
StaleWaiters(m) ==
  IF m \in StaleLed THEN waiters[m]
  ELSE IF m = Initialize THEN {}
  ELSE {w \in waiters[m] : now >= w.expires}

(* Their answers are handed over here; Delivery has the queues, which may  *)
(* be full.                                                                *)
TimedOut == StaleRequests \cup UNION {StaleWaiters(m) : m \in Cacheable}

Expire ==
  /\ ~shutdown
  /\ TimedOut # {}
  /\ HandOver(TimedOut, [kind |-> "timeout", version |-> 0])
  /\ requests' = requests \ StaleRequests
  /\ waiters' = [m \in Cacheable |-> waiters[m] \ StaleWaiters(m)]
  /\ deadline' = [m \in Cacheable |-> IF m \in StaleLed THEN 0 ELSE deadline[m]]
  /\ invalidated' = (invalidated /\ ToolsList \notin StaleLed)
  /\ UNCHANGED <<now, clients, forward, next_id, cached, support, notification_forwarded,
                 shutdown, recovery, upstreamVars, noticed, ticket>>

-----------------------------------------------------------------------------
(* The upstream (external): it answers in any order, or never, and changes *)
(* its tool list whenever it likes.                                        *)

UpstreamAnswer(p) ==
  /\ ~shutdown
  /\ p \in received
  /\ received' = received \ {p}
  /\ answers' = answers \cup {[pool_id |-> p, version |-> tools_version]}
  /\ UNCHANGED <<now, clientVars, requests, next_id, cacheVars, shutdown, recovery,
                 initialized_sent, tools_version, notices, historyVars>>

UpstreamChange ==
  /\ ~shutdown
  /\ tools_version < MaxVersion
  /\ tools_version' = tools_version + 1
  /\ notices' = notices \cup {tools_version'}
  /\ UNCHANGED <<now, clientVars, requests, next_id, cacheVars, shutdown, recovery,
                 received, initialized_sent, answers, historyVars>>

-----------------------------------------------------------------------------
(* The router: route_response, one upstream message at a time.  A response *)
(* that reports a lost session is delivered before the handshake is        *)
(* cleared, and no other message is routed in between.                     *)

Routing == ~shutdown /\ recovery # "clearing"

Take(a) ==
  /\ Routing
  /\ a \in answers
  /\ answers' = answers \ {a}
  /\ UNCHANGED <<now, clients, forward, next_id, shutdown, received, tools_version, notices,
                 noticed, ticket>>

OrphanAnswer(a) ==
  /\ Take(a)
  /\ ~Routed(a.pool_id)
  /\ UNCHANGED <<mail, requests, cacheVars, recovery, initialized_sent, replies>>

(* complete: the route of the response and the followers it serves.        *)
ServesLeaderOnly(r, followers) == {r}
Served(r, followers) == {r} \cup followers

Complete(a, r, followers, kind) ==
  /\ Take(a)
  /\ r.pool_id = a.pool_id
  /\ requests' = requests \ {r}
  /\ HandOver(Served(r, followers), [kind |-> kind, version |-> a.version])
  /\ recovery' = IF kind = "session_not_found" THEN "clearing" ELSE recovery

AnswerUncached(a, r, kind) ==
  /\ r.method = Uncached
  /\ Complete(a, r, {}, kind)
  /\ UNCHANGED <<cacheVars, initialized_sent>>

AnswerInitialize(a, r, kind) ==
  /\ r.method = Initialize
  /\ Complete(a, r, waiters[Initialize], kind)
  /\ Finish(Initialize)
  /\ \/ /\ kind = "result"
        /\ Retain(Initialize, a.version, Horizon + 1)
        /\ notification_forwarded' = FALSE
        /\ initialized_sent' = 0
     \/ /\ kind # "result"
        /\ UNCHANGED <<cached, notification_forwarded, initialized_sent>>
  /\ UNCHANGED support

AnswerDiscover(a, r, kind, lifetime) ==
  /\ r.method = ServerDiscover
  /\ Complete(a, r, waiters[ServerDiscover], kind)
  /\ Finish(ServerDiscover)
  /\ \/ /\ kind \in {"modern", "legacy"}
        /\ support' = kind
        /\ Retain(ServerDiscover, a.version, now + lifetime)
     \/ /\ kind = "unsupported"
        /\ support' = kind
        /\ Retain(ServerDiscover, 0, 0)
     \/ /\ kind \notin {"modern", "legacy", "unsupported"}
        /\ UNCHANGED <<support, cached>>
  /\ UNCHANGED <<notification_forwarded, initialized_sent>>

StoresInvalidated(kind) == kind = "result"
Storable(kind) == kind = "result" /\ ~invalidated

AnswerTools(a, r, kind, lifetime) ==
  /\ r.method = ToolsList
  /\ Complete(a, r, waiters[ToolsList], kind)
  /\ Finish(ToolsList)
  /\ IF Storable(kind)
     THEN Retain(ToolsList, a.version, now + lifetime)
     ELSE UNCHANGED cached
  /\ UNCHANGED <<support, notification_forwarded, initialized_sent>>

(* What an upstream may answer to a method: the era of a discovery, or a   *)
(* result, or an error.                                                    *)
KindsOf(m) ==
  AnswerKinds \ (IF m = ServerDiscover THEN {"result"} ELSE {"modern", "legacy", "unsupported"})

RouteAnswer(a) ==
  \E r \in requests : \E kind \in KindsOf(r.method) :
    \/ AnswerUncached(a, r, kind)
    \/ AnswerInitialize(a, r, kind)
    \/ \E lifetime \in Lifetimes :
         AnswerDiscover(a, r, kind, lifetime) \/ AnswerTools(a, r, kind, lifetime)

(* clear_all forgets every shared result and every follower.               *)
ClearAll ==
  /\ deadline' = [m \in Cacheable |-> 0]
  /\ waiters' = [m \in Cacheable |-> {}]
  /\ invalidated' = FALSE
  /\ cached' = [m \in Cacheable |-> NoResult]
  /\ support' = "unknown"
  /\ notification_forwarded' = FALSE
  /\ initialized_sent' = 0

(* request_recovery_if_session_not_found: the routes themselves stay, and  *)
(* the owner is told to replace the generation.                            *)
ClearHandshake ==
  /\ ~shutdown
  /\ recovery = "clearing"
  /\ recovery' = "signalled"
  /\ ClearAll
  /\ UNCHANGED <<now, clientVars, requests, next_id, shutdown, received, answers,
                 tools_version, notices, historyVars>>

(* notifications/tools/list_changed: invalidate, then broadcast.           *)
RouteNotice(n) ==
  /\ Routing
  /\ n \in notices
  /\ notices' = notices \ {n}
  /\ noticed' = Larger(noticed, n)
  /\ Retain(ToolsList, 0, 0)
  /\ invalidated' = InFlight(ToolsList)
  /\ mail' = [c \in Clients |-> mail[c] \/ Open(c)]
  /\ UNCHANGED <<now, clients, forward, requests, next_id, deadline, waiters, support,
                 notification_forwarded, shutdown, recovery, received, initialized_sent,
                 answers, tools_version, ticket, replies>>

-----------------------------------------------------------------------------
(* The end of the generation.                                              *)

Close ==
  /\ ~shutdown
  /\ shutdown' = TRUE
  /\ UNCHANGED <<now, clientVars, requests, next_id, cacheVars, recovery, upstreamVars,
                 historyVars>>

(* Generation::clear, once the accept loop has joined every client.        *)
Retire ==
  /\ shutdown
  /\ \A c \in Clients : ~Open(c)
  /\ requests' = {}
  /\ ClearAll
  /\ UNCHANGED <<now, clientVars, next_id, shutdown, recovery, received, answers,
                 tools_version, notices, historyVars>>

Tick ==
  /\ ~shutdown
  /\ now < Horizon
  /\ now' = now + 1
  /\ UNCHANGED <<clientVars, requests, next_id, cacheVars, shutdown, recovery,
                 upstreamVars, historyVars>>

ClientStep(c) ==
  \/ Accept(c)
  \/ \E i \in Ids, m \in Offered, t \in CallerTimeouts :
       \/ SubmitRejected(c, i, m, t)
       \/ SubmitCached(c, i, m, t)
       \/ SubmitCoalesced(c, i, m, t)
       \/ SubmitLeader(c, i, m, t)
       \/ SubmitUncached(c, i, m, t)
  \/ Initialized(c)
  \/ Forward(c)
  \/ ClientWrite(c)
  \/ ClientEof(c)
  \/ ClientWriteFails(c)
  \/ ClientStops(c)

UpstreamStep ==
  \/ \E p \in received : UpstreamAnswer(p)
  \/ UpstreamChange

RouterStep ==
  \/ \E a \in answers : OrphanAnswer(a) \/ RouteAnswer(a)
  \/ ClearHandshake
  \/ \E n \in notices : RouteNotice(n)

Next ==
  \/ \E c \in Clients : ClientStep(c)
  \/ Expire
  \/ UpstreamStep
  \/ RouterStep
  \/ Close
  \/ Retire
  \/ Tick

Spec == Init /\ [][Next]_vars

(* Time passes, deadlines are enforced, a lost session ends the generation *)
(* and clients leave it.  Neither the upstream nor a client is trusted to  *)
(* do anything.                                                            *)
Fairness ==
  /\ WF_vars(Tick)
  /\ WF_vars(Expire)
  /\ WF_vars(ClearHandshake)
  /\ WF_vars(recovery = "signalled" /\ Close)
  /\ \A c \in Clients : WF_vars(ClientStops(c))

FairSpec == Spec /\ Fairness

-----------------------------------------------------------------------------
(* Properties.                                                             *)

(* Every variable has its type.                                            *)
TypeOK ==
  /\ now \in Nat
  /\ clients \in [Clients -> {"new", "open", "gone"}]
  /\ forward \in [Clients -> Forwarding]
  /\ mail \in [Clients -> BOOLEAN]
  /\ requests \subseteq Pending
  /\ next_id \in 1..(MaxRoutes + 1)
  /\ deadline \in [Cacheable -> Nat]
  /\ waiters \in [Cacheable -> SUBSET Waiter]
  /\ invalidated \in BOOLEAN
  /\ cached \in [Cacheable -> [version : Nat, until : Nat]]
  /\ support \in {"unknown", "modern", "legacy", "unsupported"}
  /\ notification_forwarded \in BOOLEAN
  /\ shutdown \in BOOLEAN
  /\ recovery \in {"none", "clearing", "signalled"}
  /\ received \subseteq PoolIds
  /\ initialized_sent \in Nat
  /\ answers \subseteq Answer
  /\ tools_version \in Nat
  /\ notices \subseteq Nat
  /\ noticed \in Nat
  /\ ticket \in [Clients -> [Ids -> [submitted : BOOLEAN, due : Nat, noticed : Nat]]]
  /\ replies \in [Clients -> [Ids -> Seq(Reply)]]

(* The places that still owe the request i of c a reply.                   *)
Owing(c, i) ==
  {r.pool_id : r \in {r \in requests : r.client = c /\ r.id = i}}
  \cup {m \in Cacheable : \E w \in waiters[m] : w.client = c /\ w.id = i}

(* A request is answered once: whatever the order of responses, timeouts,  *)
(* disconnects and session losses, nothing answers it again, and nothing   *)
(* that could do so is left behind once it has been answered.              *)
AnsweredAtMostOnce ==
  \A c \in Clients, i \in Ids : Cardinality(Owing(c, i)) + Len(replies[c][i]) <= 1

(* No request is lost: until the session is lost or the generation stops,  *)
(* each request of a connected client has been answered or is owed by a    *)
(* route or by a coalesced wait.                                           *)
NoRequestLost ==
  ~shutdown /\ recovery = "none" =>
    \A c \in Clients, i \in Ids :
      Open(c) /\ ticket[c][i].submitted => Owing(c, i) # {} \/ replies[c][i] # <<>>

(* Followers always have a leader: a shared request is in flight exactly   *)
(* when one route, and only one, will complete it, and nobody waits on     *)
(* one that is not.                                                        *)
OneLeader(m) ==
  /\ InFlight(m) <=> \E r \in requests : r.method = m
  /\ \A r, s \in requests : r.method = m /\ s.method = m => r = s
  /\ waiters[m] # {} => InFlight(m)

FollowersHaveOneLeader == recovery = "none" => \A m \in Cacheable : OneLeader(m)

(* One upstream serves one protocol era: a legacy handshake, under way or  *)
(* done, excludes a modern discovery, under way or done.                   *)
OneEra ==
  recovery = "none" =>
    ~((InFlight(Initialize) \/ Ready) /\ (InFlight(ServerDiscover) \/ support = "modern"))

(* A cached tool list is not older than the last list_changed that the     *)
(* pool has routed, even when the list was being fetched at that time.     *)
CachedToolsFresh ==
  recovery = "none" /\ Retained(ToolsList) => cached[ToolsList].version >= noticed

(* The handshake is completed once: after the initialize result at most    *)
(* one notifications/initialized is sent or about to be.                   *)
InitializedAtMostOnce ==
  recovery = "none" =>
    initialized_sent + Cardinality({c \in Clients : forward[c].kind = "initialized"}) <= 1

(* A connected client's route is never a route to nowhere: its request is  *)
(* about to be published, with the upstream, or on its way back.           *)
UnderWay(r) ==
  \/ forward[r.client] = Carry("request", r.pool_id)
  \/ r.pool_id \in received
  \/ \E a \in answers : a.pool_id = r.pool_id

RoutesAreUnderWay ==
  ~shutdown => \A r \in requests : Open(r.client) => UnderWay(r)

(* A request is owed an answer, and by something that can still bring one  *)
(* (session_cache.rs, socket_proxy_cache.rs).                              *)
RequestsAreCarried == NoRequestLost /\ RoutesAreUnderWay

(* No reply comes too early: a request times out only once its own budget, *)
(* at least the backend's for a shared request, is over, whichever client  *)
(* led the request.                                                        *)
NoEarlyTimeout ==
  [][\A c \in Clients, i \in Ids :
       replies'[c][i] # replies[c][i] /\ replies'[c][i][Len(replies'[c][i])].kind = "timeout"
         => now >= ticket[c][i].due]_vars

(* Every request of a client that stays is answered in the end, by a       *)
(* timeout if by nothing else, or its connection is closed. Answered means *)
(* handed to the client's queue: the pool gives a timeout up that finds    *)
(* the queue full for 250 ms (socket_proxy_generation.rs:383-394), which   *)
(* Delivery models.                                                        *)
EveryRequestSettles ==
  \A c \in Clients, i \in Ids :
    ticket[c][i].submitted ~> (replies[c][i] # <<>> \/ ~Open(c))

(* What README:863 and the test disconnected_initialize_leader_does_not_   *)
(* strand_follower say: a follower's wait survives the disconnect of the   *)
(* leader, so the request it waits for is still on its way.                *)
FollowersAwaitAnAnswer ==
  ~shutdown /\ recovery = "none" =>
    \A m \in Cacheable :
      waiters[m] # {} => \E r \in requests : r.method = m /\ UnderWay(r)

(* What README:852 says: a list_changed notification invalidates tool      *)
(* discovery, so a tools/list submitted after it does not get an older     *)
(* list.                                                                   *)
ToolsRepliesFresh ==
  \A c \in Clients, i \in Ids :
    replies[c][i] # <<>> /\ replies[c][i][1].kind = "result"
      => replies[c][i][1].version >= ticket[c][i].noticed

(* What the initialize tests say: the upstream is told that the handshake  *)
(* is over, so once the pool swallows notifications/initialized one of     *)
(* them has been sent or is about to be.                                   *)
InitializedReachesUpstream ==
  notification_forwarded /\ ~shutdown =>
    initialized_sent > 0 \/ \E c \in Clients : forward[c].kind = "initialized"
=============================================================================
