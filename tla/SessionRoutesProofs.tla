------------------------- MODULE SessionRoutesProofs -------------------------
(***************************************************************************)
(* What holds of SessionRoutes for every number of clients, every budget   *)
(* and every upstream: proofs of its type invariant, of the safety of the  *)
(* shared requests, of the service given (a cached tool list is fresh, no  *)
(* request is lost) and of the replies (one at most, none too early, and   *)
(* the handshake completed once).                                          *)
(***************************************************************************)
EXTENDS SessionRoutes, TLAPS, FiniteSetTheorems

-----------------------------------------------------------------------------
(* Facts about single definitions.                                         *)

(* A caller's budget gives naturals, and a shared deadline that is not 0.  *)
LEMMA Budgets ==
  ASSUME TypeOK, NEW m \in Methods, NEW t \in CallerTimeouts
  PROVE  /\ Expiration(m, t) \in Nat
         /\ TransportDeadline(t) \in Nat
         /\ TransportDeadline(t) # 0
<1>1. t \in Nat /\ now \in Nat /\ RequestTtl \in Nat /\ SharedTimeout \in Nat \ {0}
  BY RouteAssumption DEF TypeOK
<1>2. Floor(m) \in Nat
  BY <1>1 DEF Floor, Larger
<1>3. Expiration(m, t) \in Nat
  BY <1>1, <1>2 DEF Expiration, Larger
<1>4. TransportDeadline(t) \in Nat /\ TransportDeadline(t) # 0
  BY <1>1 DEF TransportDeadline, Larger
<1>5. QED
  BY <1>3, <1>4

(* What HandOver writes has its type.                                      *)
LEMMA HandOverType ==
  ASSUME TypeOK, NEW rs, NEW reply \in Reply, HandOver(rs, reply)
  PROVE  /\ replies' \in [Clients -> [Ids -> Seq(Reply)]]
         /\ mail' \in [Clients -> BOOLEAN]
<1>1. ASSUME NEW c \in Clients, NEW i \in Ids
      PROVE  /\ replies[c][i] \in Seq(Reply)
             /\ Append(replies[c][i], reply) \in Seq(Reply)
  BY DEF TypeOK
<1>2. replies' \in [Clients -> [Ids -> Seq(Reply)]]
  BY <1>1 DEF HandOver
<1>3. mail' \in [Clients -> BOOLEAN]
  BY DEF HandOver, TypeOK
<1>4. QED
  BY <1>2, <1>3

-----------------------------------------------------------------------------
(* Type correctness, one lemma per group of actions.                       *)

LEMMA TypeClient ==
  ASSUME TypeOK, NEW c \in Clients,
         \/ Accept(c) \/ Initialized(c) \/ Forward(c) \/ ClientWrite(c)
         \/ ClientEof(c) \/ ClientWriteFails(c) \/ ClientStops(c)
  PROVE  TypeOK'
<1> USE DEF TypeOK, vars, clientVars, cacheVars, upstreamVars, historyVars
<1>1. CASE Accept(c)
  BY <1>1 DEF Accept
<1>2. CASE Initialized(c)
  <2>1. Carry(IF Ready THEN "initialized" ELSE "notification", 0) \in Forwarding
    BY RouteAssumption DEF Carry, Forwarding
  <2>2. Ready \in BOOLEAN
    BY DEF Ready, Retained
  <2>3. QED
    BY <1>2, <2>1, <2>2 DEF Initialized
<1>3. Idle \in Forwarding
  BY RouteAssumption DEF Idle, Carry, Forwarding
<1>4. CASE Forward(c)
  <2>1. forward[c].kind = "request" /\ Routed(forward[c].pool_id) => forward[c].pool_id \in PoolIds
    BY DEF Routed, Pending
  <2>2. QED
    BY <1>3, <1>4, <2>1 DEF Forward
<1>5. CASE ClientWrite(c)
  BY <1>3, <1>5 DEF ClientWrite
<1>6. CASE Disconnect(c)
  BY <1>3, <1>6 DEF Disconnect
<1>7. QED
  BY <1>1, <1>2, <1>4, <1>5, <1>6 DEF ClientEof, ClientWriteFails, ClientStops

LEMMA TypeSubmit ==
  ASSUME TypeOK, NEW c \in Clients, NEW i \in Ids, NEW m \in Offered, NEW t \in CallerTimeouts,
         \/ SubmitRejected(c, i, m, t) \/ SubmitCached(c, i, m, t) \/ SubmitCoalesced(c, i, m, t)
         \/ SubmitLeader(c, i, m, t) \/ SubmitUncached(c, i, m, t)
  PROVE  TypeOK'
<1>1. m \in Methods
  BY RouteAssumption
<1>2. /\ Expiration(m, t) \in Nat
      /\ TransportDeadline(t) \in Nat
  BY <1>1, Budgets
<1> USE DEF TypeOK, vars, clientVars, cacheVars, upstreamVars, historyVars
<1>3. Ask(c, i, m, t) => ticket' \in [Clients -> [Ids -> [submitted : BOOLEAN, due : Nat, noticed : Nat]]]
  BY <1>2 DEF Ask
<1>4. ASSUME Ask(c, i, m, t), NEW reply \in Reply, AnswerAtOnce(c, i, reply)
      PROVE  TypeOK'
  <2>1. Append(replies[c][i], reply) \in Seq(Reply)
    OBVIOUS
  <2>2. QED
    BY <1>3, <1>4, <2>1 DEF Ask, AnswerAtOnce
<1>5. CASE SubmitRejected(c, i, m, t)
  <2>1. [kind |-> "rejected", version |-> 0] \in Reply
    BY DEF Reply
  <2>2. QED
    BY <1>4, <1>5, <2>1 DEF SubmitRejected
<1>6. CASE SubmitCached(c, i, m, t)
  <2>1. m \in Cacheable
    BY <1>6 DEF SubmitCached
  <2>2. [kind |-> "result", version |-> cached[m].version] \in Reply
    BY <2>1 DEF Reply, Kinds
  <2>3. QED
    BY <1>4, <1>6, <2>2 DEF SubmitCached
<1>7. CASE SubmitCoalesced(c, i, m, t)
  <2>1. Larger(deadline[m], TransportDeadline(t)) \in Nat
    BY <1>2, <1>7 DEF Larger, SubmitCoalesced
  <2>2. Follower(c, i, m, t) \in Waiter
    BY <1>2 DEF Follower, Waiter
  <2>3. QED
    BY <1>3, <1>7, <2>1, <2>2 DEF SubmitCoalesced, Coalesce, Ask
<1>8. ASSUME Register(c, i, m, t)
      PROVE  /\ requests' \subseteq Pending
             /\ next_id' \in 1..(MaxRoutes + 1)
             /\ forward' \in [Clients -> Forwarding]
  <2>1. next_id \in PoolIds /\ MaxRoutes \in Nat
    BY <1>8, RouteAssumption DEF Register
  <2>2. Carry("request", next_id) \in Forwarding
    BY <2>1 DEF Carry, Forwarding, PoolIds
  <2>3. [pool_id |-> next_id, client |-> c, id |-> i, method |-> m, expires |-> Expiration(m, t)] \in Pending
    BY <1>1, <1>2, <2>1 DEF Pending
  <2>4. QED
    BY <1>8, <2>1, <2>2, <2>3 DEF Register, PoolIds
<1>9. CASE SubmitLeader(c, i, m, t)
  BY <1>2, <1>3, <1>8, <1>9 DEF SubmitLeader, Ask, Register
<1>10. CASE SubmitUncached(c, i, m, t)
  BY <1>3, <1>8, <1>10 DEF SubmitUncached, Ask, Register
<1>11. QED
  BY <1>5, <1>6, <1>7, <1>9, <1>10

LEMMA TypeExpire ==
  ASSUME TypeOK, Expire
  PROVE  TypeOK'
<1> USE DEF TypeOK, vars, clientVars, cacheVars, upstreamVars, historyVars
<1>1. [kind |-> "timeout", version |-> 0] \in Reply
  BY DEF Reply
<1>2. HandOver(TimedOut, [kind |-> "timeout", version |-> 0])
  BY DEF Expire
<1>3. /\ replies' \in [Clients -> [Ids -> Seq(Reply)]]
      /\ mail' \in [Clients -> BOOLEAN]
  BY <1>1, <1>2, HandOverType
<1>4. waiters' \in [Cacheable -> SUBSET Waiter]
  BY DEF Expire
<1>5. deadline' \in [Cacheable -> Nat]
  BY DEF Expire
<1>6. QED
  BY <1>3, <1>4, <1>5 DEF Expire

LEMMA TypeUpstream ==
  ASSUME TypeOK, UpstreamStep
  PROVE  TypeOK'
<1> USE DEF TypeOK, vars, clientVars, cacheVars, upstreamVars, historyVars
<1>1. ASSUME NEW p \in received, UpstreamAnswer(p)
      PROVE  TypeOK'
  <2>1. [pool_id |-> p, version |-> tools_version] \in Answer
    BY DEF Answer
  <2>2. QED
    BY <1>1, <2>1 DEF UpstreamAnswer
<1>2. CASE UpstreamChange
  BY <1>2 DEF UpstreamChange
<1>3. QED
  BY <1>1, <1>2 DEF UpstreamStep

LEMMA TypeComplete ==
  ASSUME TypeOK, NEW a \in answers, NEW r \in requests, NEW rs, NEW kind \in Kinds,
         Complete(a, r, rs, kind)
  PROVE  /\ replies' \in [Clients -> [Ids -> Seq(Reply)]]
         /\ mail' \in [Clients -> BOOLEAN]
         /\ requests' \subseteq Pending
         /\ recovery' \in {"none", "clearing", "signalled"}
         /\ answers' \subseteq Answer
<1>1. [kind |-> kind, version |-> a.version] \in Reply
  BY DEF Reply, TypeOK, Answer
<1>2. HandOver(Served(r, rs), [kind |-> kind, version |-> a.version])
  BY DEF Complete
<1>3. /\ replies' \in [Clients -> [Ids -> Seq(Reply)]]
      /\ mail' \in [Clients -> BOOLEAN]
  BY <1>1, <1>2, HandOverType
<1>4. QED
  BY <1>3 DEF Complete, Take, TypeOK

LEMMA TypeRouteAnswer ==
  ASSUME TypeOK, NEW a \in answers, RouteAnswer(a)
  PROVE  TypeOK'
<1>0. PICK r \in requests : \E kind \in KindsOf(r.method) :
        \/ AnswerUncached(a, r, kind)
        \/ AnswerInitialize(a, r, kind)
        \/ \E lifetime \in Lifetimes :
             AnswerDiscover(a, r, kind, lifetime) \/ AnswerTools(a, r, kind, lifetime)
  BY DEF RouteAnswer
<1>1. PICK kind \in KindsOf(r.method) :
        \/ AnswerUncached(a, r, kind)
        \/ AnswerInitialize(a, r, kind)
        \/ \E lifetime \in Lifetimes :
             AnswerDiscover(a, r, kind, lifetime) \/ AnswerTools(a, r, kind, lifetime)
  BY <1>0
<1>2. kind \in Kinds /\ a.version \in Nat
  BY RouteAssumption DEF KindsOf, TypeOK, Answer
<1>3. ASSUME NEW rs, Complete(a, r, rs, kind)
      PROVE  /\ replies' \in [Clients -> [Ids -> Seq(Reply)]]
             /\ mail' \in [Clients -> BOOLEAN]
             /\ requests' \subseteq Pending
             /\ recovery' \in {"none", "clearing", "signalled"}
             /\ answers' \subseteq Answer
             /\ UNCHANGED <<now, clients, forward, next_id, shutdown, received, tools_version,
                            notices, noticed, ticket>>
  BY <1>2, <1>3, TypeComplete DEF Complete, Take
<1> USE DEF TypeOK, vars, clientVars, cacheVars, upstreamVars, historyVars
<1>4. ASSUME NEW m \in Cacheable, Finish(m)
      PROVE  /\ deadline' \in [Cacheable -> Nat]
             /\ waiters' \in [Cacheable -> SUBSET Waiter]
             /\ invalidated' \in BOOLEAN
  BY <1>4 DEF Finish
<1>5. ASSUME NEW m \in Cacheable, NEW v \in Nat, NEW u \in Nat, Retain(m, v, u)
      PROVE  cached' \in [Cacheable -> [version : Nat, until : Nat]]
  BY <1>5 DEF Retain
<1>6. CASE AnswerUncached(a, r, kind)
  BY <1>3, <1>6 DEF AnswerUncached
<1>7. CASE AnswerInitialize(a, r, kind)
  <2>1. cached' \in [Cacheable -> [version : Nat, until : Nat]]
    <3>1. Initialize \in Cacheable /\ Horizon + 1 \in Nat
      BY RouteAssumption DEF Cacheable
    <3>2. QED
      BY <1>2, <1>5, <1>7, <3>1 DEF AnswerInitialize
  <2>2. Initialize \in Cacheable
    BY DEF Cacheable
  <2>3. notification_forwarded' \in BOOLEAN
    <3>1. notification_forwarded \in BOOLEAN
      OBVIOUS
    <3>2. notification_forwarded' = FALSE \/ UNCHANGED notification_forwarded
      BY <1>7, Zenon DEF AnswerInitialize
    <3>3. QED
      BY <3>1, <3>2, Zenon
  <2>4. initialized_sent' \in Nat /\ UNCHANGED support
    BY <1>7 DEF AnswerInitialize
  <2>5. Complete(a, r, waiters[Initialize], kind) /\ Finish(Initialize)
    BY <1>7 DEF AnswerInitialize
  <2>6. QED
    BY <1>3, <1>4, <2>1, <2>2, <2>3, <2>4, <2>5
<1>8. ASSUME NEW lifetime \in Lifetimes, AnswerDiscover(a, r, kind, lifetime)
      PROVE  TypeOK'
  <2>1. ServerDiscover \in Cacheable /\ now + lifetime \in Nat
    BY RouteAssumption DEF Cacheable
  <2>2. cached' \in [Cacheable -> [version : Nat, until : Nat]]
    BY <1>2, <1>5, <1>8, <2>1 DEF AnswerDiscover
  <2>3. QED
    BY <1>3, <1>4, <1>8, <2>1, <2>2 DEF AnswerDiscover
<1>9. ASSUME NEW lifetime \in Lifetimes, AnswerTools(a, r, kind, lifetime)
      PROVE  TypeOK'
  <2>1. ToolsList \in Cacheable /\ now + lifetime \in Nat
    BY RouteAssumption DEF Cacheable
  <2>2. cached' \in [Cacheable -> [version : Nat, until : Nat]]
    BY <1>2, <1>5, <1>9, <2>1 DEF AnswerTools
  <2>3. /\ Complete(a, r, waiters[ToolsList], kind)
        /\ Finish(ToolsList)
        /\ UNCHANGED <<support, notification_forwarded, initialized_sent>>
    BY <1>9 DEF AnswerTools
  <2>4. QED
    BY <1>3, <1>4, <2>1, <2>2, <2>3
<1>10. QED
  BY <1>1, <1>6, <1>7, <1>8, <1>9

LEMMA TypeRouter ==
  ASSUME TypeOK, RouterStep
  PROVE  TypeOK'
<1> USE DEF TypeOK, vars, clientVars, cacheVars, upstreamVars, historyVars
<1>1. ASSUME NEW a \in answers, OrphanAnswer(a)
      PROVE  TypeOK'
  BY <1>1 DEF OrphanAnswer, Take
<1>2. ASSUME NEW a \in answers, RouteAnswer(a)
      PROVE  TypeOK'
  BY <1>2, TypeRouteAnswer
<1>3. CASE ClearHandshake
  BY <1>3 DEF ClearHandshake, ClearAll, NoResult
<1>4. ASSUME NEW n \in notices, RouteNotice(n)
      PROVE  TypeOK'
  BY <1>4 DEF RouteNotice, Retain, InFlight, Larger, Cacheable, Open
<1>5. QED
  BY <1>1, <1>2, <1>3, <1>4 DEF RouterStep

(* Every step preserves the types.                                         *)
LEMMA TypeStep ==
  ASSUME TypeOK, [Next]_vars
  PROVE  TypeOK'
<1>1. ASSUME NEW c \in Clients, ClientStep(c)
      PROVE  TypeOK'
  BY <1>1, TypeClient, TypeSubmit DEF ClientStep
<1> USE DEF TypeOK, vars, clientVars, cacheVars, upstreamVars, historyVars
<1>2. CASE Close
  BY <1>2 DEF Close
<1>3. CASE Retire
  BY <1>3 DEF Retire, ClearAll, NoResult
<1>4. CASE Tick
  BY <1>4 DEF Tick
<1>5. CASE UNCHANGED vars
  BY <1>5
<1>6. QED
  BY <1>1, <1>2, <1>3, <1>4, <1>5, TypeExpire, TypeUpstream, TypeRouter DEF Next

LEMMA TypeInit ==
  ASSUME Init
  PROVE  TypeOK
<1>1. forward \in [Clients -> Forwarding] /\ next_id \in 1..(MaxRoutes + 1)
  BY RouteAssumption DEF Init, Idle, Carry, Forwarding
<1>2. replies \in [Clients -> [Ids -> Seq(Reply)]]
  BY DEF Init
<1>3. ticket \in [Clients -> [Ids -> [submitted : BOOLEAN, due : Nat, noticed : Nat]]]
  BY DEF Init, Untried
<1>4. QED
  BY <1>1, <1>2, <1>3 DEF Init, TypeOK, NoResult

(* Every variable keeps its type in every behaviour, whatever the upstream *)
(* and the clients do and for every size of the model.                     *)
THEOREM TypeCorrect == Spec => []TypeOK
<1>1. Init => TypeOK
  BY TypeInit
<1>2. TypeOK /\ [Next]_vars => TypeOK'
  BY TypeStep
<1>3. QED
  BY <1>1, <1>2, PTL DEF Spec

-----------------------------------------------------------------------------
(* Shared requests: one leader, whose followers wait on it.                *)

(* What the steps that lead, join, complete or expire no shared request    *)
(* leave alone.                                                            *)
LEMMA LeaderFrame ==
  ASSUME FollowersHaveOneLeader, UNCHANGED <<requests, deadline, waiters, recovery>>
  PROVE  FollowersHaveOneLeader'
BY DEF FollowersHaveOneLeader, OneLeader, InFlight

LEMMA LeaderClient ==
  ASSUME TypeOK, FollowersHaveOneLeader, NEW c \in Clients, ClientStep(c)
  PROVE  FollowersHaveOneLeader'
<1> USE DEF vars, clientVars, cacheVars, upstreamVars, historyVars
<1>1. CASE Accept(c)
  BY <1>1, LeaderFrame DEF Accept
<1>2. CASE Initialized(c)
  BY <1>2, LeaderFrame DEF Initialized
<1>3. CASE Forward(c)
  BY <1>3, LeaderFrame DEF Forward
<1>4. CASE ClientWrite(c)
  BY <1>4, LeaderFrame DEF ClientWrite
<1>5. CASE Disconnect(c)
  <2> SUFFICES ASSUME recovery' = "none", NEW m \in Cacheable
               PROVE  OneLeader(m)'
    BY DEF FollowersHaveOneLeader
  <2>1. OneLeader(m)
    BY <1>5 DEF Disconnect, FollowersHaveOneLeader
  <2>2. \A r \in requests : r.method = m => r \in requests'
    BY <1>5 DEF Disconnect, KeepsRoute
  <2>3. requests' \subseteq requests /\ UNCHANGED deadline /\ waiters'[m] \subseteq waiters[m]
    BY <1>5 DEF Disconnect
  <2>4. QED
    BY <2>1, <2>2, <2>3 DEF OneLeader, InFlight
<1>6. ASSUME NEW i \in Ids, NEW m \in Offered, NEW t \in CallerTimeouts,
             SubmitRejected(c, i, m, t) \/ SubmitCached(c, i, m, t)
      PROVE  FollowersHaveOneLeader'
  BY <1>6, LeaderFrame DEF SubmitRejected, SubmitCached, Ask, AnswerAtOnce
<1>7. ASSUME NEW i \in Ids, NEW n \in Offered, NEW t \in CallerTimeouts,
             \/ SubmitCoalesced(c, i, n, t)
             \/ SubmitLeader(c, i, n, t)
             \/ SubmitUncached(c, i, n, t)
      PROVE  FollowersHaveOneLeader'
  <2> SUFFICES ASSUME recovery' = "none", NEW m \in Cacheable
               PROVE  OneLeader(m)'
    BY DEF FollowersHaveOneLeader
  <2>1. OneLeader(m)
    BY <1>7 DEF FollowersHaveOneLeader, SubmitCoalesced, SubmitLeader, SubmitUncached, Ask
  <2>2. TransportDeadline(t) \in Nat /\ TransportDeadline(t) # 0
    BY Budgets, RouteAssumption
  <2>3. deadline \in [Cacheable -> Nat] /\ waiters \in [Cacheable -> SUBSET Waiter]
    BY DEF TypeOK
  <2>4. CASE SubmitCoalesced(c, i, n, t)
    <3>1. InFlight(n) /\ n \in Cacheable
      BY <2>4 DEF SubmitCoalesced
    <3>2. deadline'[n] # 0 /\ \A k \in Cacheable \ {n} : deadline'[k] = deadline[k]
      BY <2>2, <2>3, <2>4, <3>1 DEF SubmitCoalesced, Coalesce, Larger, InFlight
    <3>3. m # n => waiters'[m] = waiters[m]
      BY <2>3, <2>4 DEF SubmitCoalesced, Coalesce
    <3>4. UNCHANGED requests
      BY <2>4 DEF SubmitCoalesced
    <3>5. QED
      BY <2>1, <3>1, <3>2, <3>3, <3>4 DEF OneLeader, InFlight
  <2>5. ASSUME Register(c, i, n, t)
        PROVE  \E r : requests' = requests \cup {r} /\ r.method = n
    <3> DEFINE new == [pool_id |-> next_id, client |-> c, id |-> i, method |-> n,
                       expires |-> Expiration(n, t)]
    <3>1. requests' = requests \cup {new} /\ new.method = n
      BY <2>5 DEF Register
    <3> HIDE DEF new
    <3>2. QED
      BY <3>1
  <2>6. CASE SubmitLeader(c, i, n, t)
    <3>1. ~InFlight(n) /\ n \in Cacheable /\ UNCHANGED waiters
      BY <2>6 DEF SubmitLeader, Register
    <3>2. deadline'[n] # 0 /\ \A k \in Cacheable \ {n} : deadline'[k] = deadline[k]
      BY <2>2, <2>3, <2>6, <3>1 DEF SubmitLeader
    <3>3. PICK r : requests' = requests \cup {r} /\ r.method = n
      BY <2>5, <2>6 DEF SubmitLeader
    <3>4. QED
      BY <2>1, <3>1, <3>2, <3>3 DEF OneLeader, InFlight
  <2>7. CASE SubmitUncached(c, i, n, t)
    <3>1. PICK r : requests' = requests \cup {r} /\ r.method = n
      BY <2>5, <2>7 DEF SubmitUncached
    <3>2. n \notin Cacheable
      BY <2>7 DEF SubmitUncached, Uncached, Cacheable, Initialize, ServerDiscover, ToolsList
    <3>3. UNCHANGED <<deadline, waiters>>
      BY <2>7 DEF SubmitUncached, Register
    <3>4. QED
      BY <2>1, <3>1, <3>2, <3>3 DEF OneLeader, InFlight
  <2>8. QED
    BY <1>7, <2>4, <2>6, <2>7
<1>8. QED
  BY <1>1, <1>2, <1>3, <1>4, <1>5, <1>6, <1>7 DEF ClientStep, ClientEof, ClientWriteFails, ClientStops

(* A completed or expired request takes its followers with it, and nothing *)
(* of the other shared requests.                                           *)
LEMMA LeaderComplete ==
  ASSUME TypeOK, FollowersHaveOneLeader, NEW a \in answers, RouteAnswer(a)
  PROVE  FollowersHaveOneLeader'
<1> SUFFICES ASSUME recovery' = "none", NEW m \in Cacheable
             PROVE  OneLeader(m)'
  BY DEF FollowersHaveOneLeader
<1>1. PICK r \in requests : \E kind \in KindsOf(r.method) :
        \/ AnswerUncached(a, r, kind)
        \/ AnswerInitialize(a, r, kind)
        \/ \E lifetime \in Lifetimes :
             AnswerDiscover(a, r, kind, lifetime) \/ AnswerTools(a, r, kind, lifetime)
  BY DEF RouteAnswer
<1>2. PICK kind, lifetime :
        \/ AnswerUncached(a, r, kind)
        \/ AnswerInitialize(a, r, kind)
        \/ AnswerDiscover(a, r, kind, lifetime)
        \/ AnswerTools(a, r, kind, lifetime)
  BY <1>1
<1>3. ASSUME NEW rs, Complete(a, r, rs, kind)
      PROVE  requests' = requests \ {r} /\ recovery = "none"
  BY <1>3 DEF Complete
<1>4. ASSUME r.method \in Cacheable, Finish(r.method), requests' = requests \ {r}, recovery = "none"
      PROVE  OneLeader(m)'
  <2>1. OneLeader(m) /\ OneLeader(r.method)
    BY <1>4 DEF FollowersHaveOneLeader
  <2>2. /\ deadline' = [deadline EXCEPT ![r.method] = 0]
        /\ waiters' = [waiters EXCEPT ![r.method] = {}]
        /\ deadline \in [Cacheable -> Nat]
        /\ waiters \in [Cacheable -> SUBSET Waiter]
    BY <1>4 DEF Finish, TypeOK
  <2>3. CASE m = r.method
    BY <1>4, <2>1, <2>2, <2>3 DEF OneLeader, InFlight
  <2>4. CASE m # r.method
    <3>1. deadline'[m] = deadline[m] /\ waiters'[m] = waiters[m]
      BY <2>2, <2>4
    <3>2. QED
      BY <1>4, <2>1, <2>4, <3>1 DEF OneLeader, InFlight
  <2>5. QED
    BY <2>3, <2>4
<1>5. CASE AnswerUncached(a, r, kind)
  <2>1. UNCHANGED <<deadline, waiters>> /\ requests' = requests \ {r} /\ recovery = "none"
    BY <1>3, <1>5 DEF AnswerUncached, cacheVars
  <2>2. r.method # m
    BY <1>5 DEF AnswerUncached, Uncached, Cacheable, Initialize, ServerDiscover, ToolsList
  <2>3. QED
    BY <2>1, <2>2 DEF FollowersHaveOneLeader, OneLeader, InFlight
<1>6. CASE AnswerInitialize(a, r, kind)
  BY <1>3, <1>4, <1>6 DEF AnswerInitialize, Cacheable
<1>7. CASE AnswerDiscover(a, r, kind, lifetime)
  BY <1>3, <1>4, <1>7 DEF AnswerDiscover, Cacheable
<1>8. CASE AnswerTools(a, r, kind, lifetime)
  BY <1>3, <1>4, <1>8 DEF AnswerTools, Cacheable
<1>9. QED
  BY <1>2, <1>5, <1>6, <1>7, <1>8

LEMMA LeaderExpire ==
  ASSUME TypeOK, FollowersHaveOneLeader, Expire
  PROVE  FollowersHaveOneLeader'
<1> SUFFICES ASSUME recovery' = "none", NEW m \in Cacheable
             PROVE  OneLeader(m)'
  BY DEF FollowersHaveOneLeader
<1>1. OneLeader(m)
  BY DEF Expire, FollowersHaveOneLeader
<1>2. /\ requests' = requests \ StaleRequests
      /\ waiters'[m] = waiters[m] \ StaleWaiters(m)
      /\ deadline'[m] = IF m \in StaleLed THEN 0 ELSE deadline[m]
  BY DEF Expire
<1>3. m \in StaleLed <=> \E r \in StaleRequests : r.method = m
  BY DEF StaleLed
<1>4. StaleRequests \subseteq requests
  BY DEF StaleRequests
<1>5. CASE m \in StaleLed
  <2>1. waiters'[m] = {}
    BY <1>2, <1>5 DEF StaleWaiters
  <2>2. \A r \in requests' : r.method # m
    BY <1>1, <1>2, <1>3, <1>4, <1>5 DEF OneLeader
  <2>3. QED
    BY <1>2, <1>5, <2>1, <2>2 DEF OneLeader, InFlight
<1>6. CASE m \notin StaleLed
  <2>1. \A r : r.method = m => (r \in requests' <=> r \in requests)
    BY <1>2, <1>3, <1>4, <1>6
  <2>2. QED
    BY <1>1, <1>2, <1>6, <2>1 DEF OneLeader, InFlight
<1>7. QED
  BY <1>5, <1>6

LEMMA LeaderStep ==
  ASSUME TypeOK, FollowersHaveOneLeader, [Next]_vars
  PROVE  FollowersHaveOneLeader'
<1>1. ASSUME NEW c \in Clients, ClientStep(c)
      PROVE  FollowersHaveOneLeader'
  BY <1>1, LeaderClient
<1>2. CASE Expire
  BY <1>2, LeaderExpire
<1>3. ASSUME NEW a \in answers, RouteAnswer(a)
      PROVE  FollowersHaveOneLeader'
  BY <1>3, LeaderComplete
<1> USE DEF vars, clientVars, cacheVars, upstreamVars, historyVars
<1>4. ASSUME \/ UpstreamStep
             \/ \E a \in answers : OrphanAnswer(a)
             \/ \E n \in notices : RouteNotice(n)
             \/ Close \/ Tick \/ UNCHANGED vars
      PROVE  FollowersHaveOneLeader'
  BY <1>4, LeaderFrame
     DEF UpstreamStep, UpstreamAnswer, UpstreamChange, OrphanAnswer, Take, RouteNotice, Close, Tick
<1>5. CASE ClearHandshake
  BY <1>5 DEF ClearHandshake, FollowersHaveOneLeader
<1>6. CASE Retire
  BY <1>6 DEF Retire, ClearAll, FollowersHaveOneLeader, OneLeader, InFlight
<1>7. QED
  BY <1>1, <1>2, <1>3, <1>4, <1>5, <1>6 DEF Next, RouterStep

LEMMA LeaderInit ==
  ASSUME Init
  PROVE  FollowersHaveOneLeader
BY DEF Init, FollowersHaveOneLeader, OneLeader, InFlight

(* A follower always waits on a request that one route will complete.      *)
THEOREM LeaderCorrect == Spec => []FollowersHaveOneLeader
<1>1. Init => TypeOK /\ FollowersHaveOneLeader
  BY TypeInit, LeaderInit
<1>2. TypeOK /\ FollowersHaveOneLeader /\ [Next]_vars => (TypeOK /\ FollowersHaveOneLeader)'
  BY TypeStep, LeaderStep
<1>3. QED
  BY <1>1, <1>2, PTL DEF Spec

-----------------------------------------------------------------------------
(* One protocol era.                                                       *)

(* What a step may do to the state that the era depends on without making  *)
(* a new era possible.                                                     *)
LEMMA EraFrame ==
  ASSUME OneEra, recovery' = "none" => recovery = "none",
         InFlight(Initialize)' => InFlight(Initialize),
         InFlight(ServerDiscover)' => InFlight(ServerDiscover),
         Ready' => Ready,
         support' = "modern" => support = "modern"
  PROVE  OneEra'
BY DEF OneEra

(* Time does not make a handshake ready.                                   *)
LEMMA ReadyFades ==
  ASSUME TypeOK, TypeOK', cached'[Initialize] = cached[Initialize], now' >= now
  PROVE  Ready' => Ready
<1>1. /\ now \in Nat /\ now' \in Nat
      /\ cached[Initialize].until \in Nat
  BY DEF TypeOK, Cacheable
<1>2. QED
  BY <1>1 DEF Ready, Retained

LEMMA EraClient ==
  ASSUME TypeOK, OneEra, NEW c \in Clients, ClientStep(c)
  PROVE  OneEra'
<1> USE DEF vars, clientVars, cacheVars, upstreamVars, historyVars
<1>1. ASSUME \/ Accept(c) \/ Initialized(c) \/ Forward(c) \/ ClientWrite(c) \/ Disconnect(c)
      PROVE  UNCHANGED <<now, deadline, cached, support, recovery>>
  BY <1>1 DEF Accept, Initialized, Forward, ClientWrite, Disconnect
<1>2. ASSUME NEW i \in Ids, NEW m \in Offered, NEW t \in CallerTimeouts,
             \/ SubmitRejected(c, i, m, t) \/ SubmitCached(c, i, m, t) \/ SubmitUncached(c, i, m, t)
      PROVE  UNCHANGED <<now, deadline, cached, support, recovery>>
  BY <1>2 DEF SubmitRejected, SubmitCached, SubmitUncached, Ask, AnswerAtOnce, Register
<1>3. UNCHANGED <<now, deadline, cached, support, recovery>> => OneEra'
  BY DEF OneEra, InFlight, Ready, Retained
<1>4. ASSUME NEW i \in Ids, NEW m \in Offered, NEW t \in CallerTimeouts,
             SubmitCoalesced(c, i, m, t) \/ SubmitLeader(c, i, m, t)
      PROVE  OneEra'
  <2>1. UNCHANGED <<now, cached, support, recovery>> /\ m \in Cacheable /\ ~Rejected(m)
    BY <1>4 DEF SubmitCoalesced, SubmitLeader, Ask, Register
  <2>2. TransportDeadline(t) \in Nat /\ deadline \in [Cacheable -> Nat]
    BY Budgets, RouteAssumption DEF TypeOK
  <2>3. \A k \in Cacheable \ {m} : deadline'[k] = deadline[k]
    BY <1>4, <2>1, <2>2 DEF SubmitCoalesced, Coalesce, SubmitLeader
  <2>4. Ready' = Ready
    BY <2>1 DEF Ready, Retained
  <2>5. CASE m = Initialize
    <3>1. InFlight(ServerDiscover)' = InFlight(ServerDiscover)
      BY <2>3, <2>5 DEF InFlight, Cacheable, Initialize, ServerDiscover
    <3>2. support # "modern" /\ ~InFlight(ServerDiscover)
      BY <2>1, <2>5 DEF Rejected
    <3>3. QED
      BY <2>1, <3>1, <3>2 DEF OneEra
  <2>6. CASE m = ServerDiscover
    <3>1. InFlight(Initialize)' = InFlight(Initialize)
      BY <2>3, <2>6 DEF InFlight, Cacheable, Initialize, ServerDiscover
    <3>2. ~InFlight(Initialize) /\ ~Ready
      BY <2>1, <2>6 DEF Rejected
    <3>3. QED
      BY <2>4, <3>1, <3>2 DEF OneEra
  <2>7. CASE m = ToolsList
    <3>1. /\ InFlight(Initialize)' = InFlight(Initialize)
          /\ InFlight(ServerDiscover)' = InFlight(ServerDiscover)
      BY <2>3, <2>7 DEF InFlight, Cacheable, Initialize, ServerDiscover, ToolsList
    <3>2. QED
      BY <2>1, <2>4, <3>1, EraFrame
  <2>8. QED
    BY <2>1, <2>5, <2>6, <2>7 DEF Cacheable
<1>5. QED
  BY <1>1, <1>2, <1>3, <1>4 DEF ClientStep, ClientEof, ClientWriteFails, ClientStops

LEMMA EraComplete ==
  ASSUME TypeOK, FollowersHaveOneLeader, OneEra, NEW a \in answers, RouteAnswer(a)
  PROVE  OneEra'
<1> SUFFICES ASSUME recovery' = "none"
             PROVE  OneEra'
  BY DEF OneEra
<1>1. PICK r \in requests : \E kind \in KindsOf(r.method) :
        \/ AnswerUncached(a, r, kind)
        \/ AnswerInitialize(a, r, kind)
        \/ \E lifetime \in Lifetimes :
             AnswerDiscover(a, r, kind, lifetime) \/ AnswerTools(a, r, kind, lifetime)
  BY DEF RouteAnswer
<1>2. PICK kind, lifetime :
        \/ AnswerUncached(a, r, kind)
        \/ AnswerInitialize(a, r, kind)
        \/ AnswerDiscover(a, r, kind, lifetime)
        \/ AnswerTools(a, r, kind, lifetime)
  BY <1>1
<1>3. ASSUME NEW rs, Complete(a, r, rs, kind)
      PROVE  recovery = "none" /\ now' = now
  BY <1>3 DEF Complete, Take
<1>4. ASSUME NEW m \in Cacheable, Finish(m), NEW k \in Cacheable
      PROVE  InFlight(k)' => k # m /\ InFlight(k)
  BY <1>4 DEF Finish, InFlight, TypeOK
<1>5. /\ Initialize \in Cacheable /\ ServerDiscover \in Cacheable /\ ToolsList \in Cacheable
      /\ Initialize # ServerDiscover /\ Initialize # ToolsList
  BY DEF Cacheable, Initialize, ServerDiscover, ToolsList
<1>6. CASE AnswerUncached(a, r, kind)
  BY <1>3, <1>6 DEF AnswerUncached, cacheVars, OneEra, InFlight, Ready, Retained
<1>7. CASE AnswerInitialize(a, r, kind)
  <2>1. recovery = "none" /\ Finish(Initialize) /\ UNCHANGED support /\ r.method = Initialize
    BY <1>3, <1>7 DEF AnswerInitialize
  <2>2. InFlight(Initialize)
    BY <1>5, <2>1 DEF FollowersHaveOneLeader, OneLeader
  <2>3. ~InFlight(ServerDiscover) /\ support # "modern"
    BY <2>1, <2>2 DEF OneEra
  <2>4. ~InFlight(ServerDiscover)' /\ support' # "modern"
    BY <1>4, <1>5, <2>1, <2>3
  <2>5. QED
    BY <2>4 DEF OneEra
<1>8. CASE AnswerDiscover(a, r, kind, lifetime)
  <2>1. recovery = "none" /\ Finish(ServerDiscover) /\ r.method = ServerDiscover /\ now' = now
    BY <1>3, <1>8 DEF AnswerDiscover
  <2>2. InFlight(ServerDiscover)
    BY <1>5, <2>1 DEF FollowersHaveOneLeader, OneLeader
  <2>3. ~InFlight(Initialize) /\ ~Ready
    BY <2>1, <2>2 DEF OneEra
  <2>4. cached'[Initialize] = cached[Initialize]
    BY <1>5, <1>8 DEF AnswerDiscover, Retain, TypeOK
  <2>5. ~InFlight(Initialize)' /\ ~Ready'
    BY <1>4, <1>5, <2>1, <2>3, <2>4 DEF Ready, Retained
  <2>6. QED
    BY <2>5 DEF OneEra
<1>9. CASE AnswerTools(a, r, kind, lifetime)
  <2>1. recovery = "none" /\ Finish(ToolsList) /\ UNCHANGED support /\ now' = now
    BY <1>3, <1>9 DEF AnswerTools
  <2>2. cached'[Initialize] = cached[Initialize]
    BY <1>5, <1>9 DEF AnswerTools, Retain, TypeOK
  <2>3. Ready' = Ready
    BY <2>1, <2>2 DEF Ready, Retained
  <2>4. QED
    BY <1>4, <1>5, <2>1, <2>3, EraFrame
<1>10. QED
  BY <1>2, <1>6, <1>7, <1>8, <1>9

LEMMA EraStep ==
  ASSUME TypeOK, TypeOK', FollowersHaveOneLeader, OneEra, [Next]_vars
  PROVE  OneEra'
<1>1. ASSUME NEW c \in Clients, ClientStep(c)
      PROVE  OneEra'
  BY <1>1, EraClient
<1>2. ASSUME NEW a \in answers, RouteAnswer(a)
      PROVE  OneEra'
  BY <1>2, EraComplete
<1> USE DEF vars, clientVars, cacheVars, upstreamVars, historyVars
<1>3. CASE Expire
  <2>1. UNCHANGED <<now, cached, support, recovery>>
    BY <1>3 DEF Expire
  <2>2. \A m \in Cacheable : InFlight(m)' => InFlight(m)
    BY <1>3 DEF Expire, InFlight
  <2>3. QED
    BY <2>1, <2>2, EraFrame DEF Ready, Retained, Cacheable
<1>4. ASSUME \/ UpstreamStep
             \/ \E a \in answers : OrphanAnswer(a)
             \/ \E n \in notices : RouteNotice(n)
             \/ Close \/ Tick \/ UNCHANGED vars
      PROVE  OneEra'
  <2>1. UNCHANGED <<deadline, support, recovery>>
    BY <1>4 DEF UpstreamStep, UpstreamAnswer, UpstreamChange, OrphanAnswer, Take, RouteNotice,
                Close, Tick
  <2>2. cached'[Initialize] = cached[Initialize]
    <3>1. Initialize \in Cacheable /\ Initialize # ToolsList /\ DOMAIN cached = Cacheable
      BY DEF Cacheable, Initialize, ToolsList, TypeOK
    <3>2. ASSUME NEW n \in notices, RouteNotice(n)
          PROVE  cached'[Initialize] = cached[Initialize]
      BY <3>1, <3>2 DEF RouteNotice, Retain
    <3>3. QED
      BY <1>4, <3>2
         DEF UpstreamStep, UpstreamAnswer, UpstreamChange, OrphanAnswer, Take, Close, Tick
  <2>3. now' >= now
    BY <1>4 DEF UpstreamStep, UpstreamAnswer, UpstreamChange, OrphanAnswer, Take, RouteNotice,
                Close, Tick, TypeOK
  <2>4. QED
    BY <2>1, <2>2, <2>3, ReadyFades, EraFrame DEF InFlight
<1>5. CASE ClearHandshake
  BY <1>5 DEF ClearHandshake, OneEra
<1>6. CASE Retire
  BY <1>6 DEF Retire, ClearAll, OneEra, InFlight, Cacheable, ServerDiscover
<1>7. QED
  BY <1>1, <1>2, <1>3, <1>4, <1>5, <1>6 DEF Next, RouterStep

(* No behaviour mixes a legacy handshake with a modern discovery.          *)
THEOREM EraCorrect == Spec => []OneEra
<1>1. Init => TypeOK /\ FollowersHaveOneLeader /\ OneEra
  <2>1. Init => OneEra
    BY DEF Init, OneEra, InFlight, Ready, Retained, NoResult, Cacheable
  <2>2. QED
    BY <2>1, TypeInit, LeaderInit
<1>2. TypeOK /\ FollowersHaveOneLeader /\ OneEra /\ [Next]_vars
        => (TypeOK /\ FollowersHaveOneLeader /\ OneEra)'
  BY TypeStep, LeaderStep, EraStep
<1>3. QED
  BY <1>1, <1>2, PTL DEF Spec

-----------------------------------------------------------------------------
(* Steps of a client that submits a request, and of all others.            *)

Submit(c, i, m, t) ==
  \/ SubmitRejected(c, i, m, t)
  \/ SubmitCached(c, i, m, t)
  \/ SubmitCoalesced(c, i, m, t)
  \/ SubmitLeader(c, i, m, t)
  \/ SubmitUncached(c, i, m, t)

(* A submission registers one route under a new identifier, or none.       *)
LEMMA SubmitRoutes ==
  ASSUME NEW c \in Clients, NEW i \in Ids, NEW m \in Offered, NEW t \in CallerTimeouts,
         Submit(c, i, m, t)
  PROVE  /\ Ask(c, i, m, t)
         /\ UNCHANGED <<requests, forward, next_id>> \/ Register(c, i, m, t)
  BY DEF Submit, SubmitRejected, SubmitCached, SubmitCoalesced, SubmitLeader, SubmitUncached,
         AnswerAtOnce

(* What an answer that is routed takes away.                               *)
LEMMA RouteAnswerTakes ==
  ASSUME NEW a \in answers, RouteAnswer(a)
  PROVE  \E r \in requests :
           /\ r.pool_id = a.pool_id
           /\ requests' = requests \ {r}
           /\ answers' = answers \ {a}
           /\ recovery # "clearing" /\ recovery' \in {recovery, "clearing"}
           /\ UNCHANGED <<now, clients, forward, next_id, shutdown, received, tools_version,
                          notices, noticed, ticket>>
<1>1. PICK r \in requests : \E kind, lifetime :
        \/ AnswerUncached(a, r, kind)
        \/ AnswerInitialize(a, r, kind)
        \/ AnswerDiscover(a, r, kind, lifetime)
        \/ AnswerTools(a, r, kind, lifetime)
  BY DEF RouteAnswer
<1>2. PICK kind, rs : Complete(a, r, rs, kind)
  BY <1>1 DEF AnswerUncached, AnswerInitialize, AnswerDiscover, AnswerTools
<1>3. QED
  BY <1>2 DEF Complete, Take, Routing

-----------------------------------------------------------------------------
(* Identifiers.                                                            *)

(* An identifier is used for one route, and for nothing before it.         *)
IdsAreNew ==
  /\ \A r \in requests : r.pool_id < next_id
  /\ \A r, s \in requests : r.pool_id = s.pool_id => r = s
  /\ \A p \in received : p < next_id
  /\ \A a \in answers : a.pool_id < next_id

LEMMA IdsFrame ==
  ASSUME IdsAreNew, next_id' = next_id, requests' \subseteq requests,
         \A p \in received' : p \in received \/ Routed(p),
         \A a \in answers' : a \in answers \/ a.pool_id \in received
  PROVE  IdsAreNew'
  BY DEF IdsAreNew, Routed

LEMMA IdsClient ==
  ASSUME TypeOK, IdsAreNew, NEW c \in Clients, ClientStep(c)
  PROVE  IdsAreNew'
<1> USE DEF clientVars, cacheVars, upstreamVars, historyVars
<1>1. ASSUME NEW i \in Ids, NEW m \in Offered, NEW t \in CallerTimeouts, Submit(c, i, m, t)
      PROVE  IdsAreNew'
  <2>1. UNCHANGED <<received, answers>>
    BY <1>1, SubmitRoutes DEF Ask
  <2>2. CASE UNCHANGED <<requests, forward, next_id>>
    BY <2>1, <2>2, IdsFrame
  <2>3. CASE Register(c, i, m, t)
    <3> DEFINE new == [pool_id |-> next_id, client |-> c, id |-> i, method |-> m,
                       expires |-> Expiration(m, t)]
    <3>1. next_id' = next_id + 1 /\ requests' = requests \cup {new} /\ new.pool_id = next_id
      BY <2>3 DEF Register
    <3>2. /\ next_id \in Nat
          /\ \A r \in requests : r.pool_id \in Nat
          /\ \A p \in received : p \in Nat
          /\ \A a \in answers : a.pool_id \in Nat
      BY RouteAssumption DEF TypeOK, Pending, Answer, PoolIds
    <3> HIDE DEF new
    <3>3. \A r \in requests : r.pool_id # new.pool_id
      BY <3>1, <3>2 DEF IdsAreNew
    <3>4. \A r \in requests' : r.pool_id < next_id'
      BY <3>1, <3>2 DEF IdsAreNew
    <3>5. \A r, s \in requests' : r.pool_id = s.pool_id => r = s
      BY <3>1, <3>3 DEF IdsAreNew
    <3>6. QED
      BY <2>1, <3>1, <3>2, <3>4, <3>5 DEF IdsAreNew
  <2>4. QED
    BY <1>1, <2>2, <2>3, SubmitRoutes
<1>2. CASE Forward(c)
  BY <1>2, IdsFrame DEF Forward
<1>3. CASE Disconnect(c)
  BY <1>3, IdsFrame DEF Disconnect
<1>4. CASE Accept(c) \/ Initialized(c) \/ ClientWrite(c)
  BY <1>4, IdsFrame DEF Accept, Initialized, ClientWrite
<1>5. QED
  BY <1>1, <1>2, <1>3, <1>4
     DEF ClientStep, Submit, ClientEof, ClientWriteFails, ClientStops

LEMMA IdsStep ==
  ASSUME TypeOK, IdsAreNew, [Next]_vars
  PROVE  IdsAreNew'
<1> USE DEF vars, clientVars, cacheVars, upstreamVars, historyVars
<1>1. ASSUME NEW c \in Clients, ClientStep(c)
      PROVE  IdsAreNew'
  BY <1>1, IdsClient
<1>2. ASSUME NEW a \in answers, RouteAnswer(a)
      PROVE  IdsAreNew'
  <2>1. /\ requests' \subseteq requests /\ answers' \subseteq answers
        /\ UNCHANGED <<next_id, received>>
    BY <1>2, RouteAnswerTakes
  <2>2. QED
    BY <2>1, IdsFrame
<1>3. ASSUME NEW p \in received, UpstreamAnswer(p)
      PROVE  IdsAreNew'
  BY <1>3, IdsFrame DEF UpstreamAnswer
<1>4. ASSUME NEW a \in answers, OrphanAnswer(a)
      PROVE  IdsAreNew'
  BY <1>4, IdsFrame DEF OrphanAnswer, Take
<1>5. CASE Expire \/ Retire
  BY <1>5, IdsFrame DEF Expire, Retire
<1>6. ASSUME \/ UpstreamChange \/ ClearHandshake \/ Close \/ Tick \/ UNCHANGED vars
             \/ \E n \in notices : RouteNotice(n)
      PROVE  IdsAreNew'
  BY <1>6, IdsFrame DEF UpstreamChange, ClearHandshake, Close, Tick, RouteNotice
<1>7. QED
  BY <1>1, <1>2, <1>3, <1>4, <1>5, <1>6 DEF Next, UpstreamStep, RouterStep

-----------------------------------------------------------------------------
(* Freshness of the tool list.                                             *)

NoticesAreOld == noticed <= tools_version /\ \A n \in notices : n <= tools_version

(* An answer on its way to a fetch that no notification has overtaken is   *)
(* as new as the last one: the answers that are older belong to fetches    *)
(* that are marked, or to none.                                            *)
FetchIsFresh ==
  recovery = "none" /\ ~invalidated =>
    \A r \in requests, a \in answers :
      r.method = ToolsList /\ a.pool_id = r.pool_id => a.version >= noticed

FreshInv == NoticesAreOld /\ FetchIsFresh /\ CachedToolsFresh

(* A step that neither notices a change, nor begins a fetch, nor retains a *)
(* list, and leaves no unmarked fetch that was marked.                     *)
LEMMA FreshFrame ==
  ASSUME TypeOK, TypeOK', FreshInv,
         UNCHANGED <<tools_version, notices, noticed>>, now' >= now,
         recovery' = "none" => recovery = "none",
         cached'[ToolsList] = cached[ToolsList] \/ ~Retained(ToolsList)',
         answers' \subseteq answers,
         \A r \in requests' : r.method = ToolsList /\ ~invalidated' => r \in requests /\ ~invalidated
  PROVE  FreshInv'
<1>1. NoticesAreOld'
  BY DEF FreshInv, NoticesAreOld
<1>2. FetchIsFresh'
  BY DEF FreshInv, FetchIsFresh
<1>3. CachedToolsFresh'
  <2>1. now \in Nat /\ now' \in Nat /\ cached[ToolsList].until \in Nat
    BY DEF TypeOK, Cacheable
  <2>2. QED
    BY <2>1 DEF FreshInv, CachedToolsFresh, Retained
<1>4. QED
  BY <1>1, <1>2, <1>3 DEF FreshInv

LEMMA FreshClient ==
  ASSUME TypeOK, TypeOK', IdsAreNew, FollowersHaveOneLeader, FreshInv,
         NEW c \in Clients, ClientStep(c)
  PROVE  FreshInv'
<1> USE DEF clientVars, cacheVars, upstreamVars, historyVars
<1>0. now \in Nat
  BY DEF TypeOK
<1>1. ASSUME NEW i \in Ids, NEW m \in Offered, NEW t \in CallerTimeouts, Submit(c, i, m, t)
      PROVE  FreshInv'
  <2>1. UNCHANGED <<now, tools_version, notices, noticed, recovery, received, answers, cached>>
    BY <1>1 DEF Submit, SubmitRejected, SubmitCached, SubmitCoalesced, SubmitLeader,
                SubmitUncached, AnswerAtOnce, Register, Ask
  <2>2. CASE SubmitLeader(c, i, m, t) /\ m = ToolsList
    <3> DEFINE new == [pool_id |-> next_id, client |-> c, id |-> i, method |-> m,
                       expires |-> Expiration(m, t)]
    <3>1. requests' = requests \cup {new} /\ new.pool_id = next_id
      BY <2>2 DEF SubmitLeader, Register
    <3> HIDE DEF new
    <3>2. next_id \in Nat /\ \A a \in answers : a.pool_id \in Nat
      BY RouteAssumption DEF TypeOK, Answer, PoolIds
    <3>3. \A a \in answers : a.pool_id # next_id
      BY <3>2 DEF IdsAreNew
    <3>4. recovery = "none" => \A r \in requests : r.method # ToolsList
      BY <2>2 DEF SubmitLeader, FollowersHaveOneLeader, OneLeader
    <3>5. FetchIsFresh'
      BY <2>1, <3>1, <3>3, <3>4 DEF FetchIsFresh
    <3>6. NoticesAreOld' /\ CachedToolsFresh'
      BY <2>1 DEF FreshInv, NoticesAreOld, CachedToolsFresh, Retained
    <3>7. QED
      BY <3>5, <3>6 DEF FreshInv
  <2>3. CASE ~(SubmitLeader(c, i, m, t) /\ m = ToolsList)
    <3>1. UNCHANGED invalidated
      BY <1>1, <2>3 DEF Submit, SubmitRejected, SubmitCached, SubmitCoalesced, SubmitLeader,
                        SubmitUncached, AnswerAtOnce
    <3>2. ASSUME NEW r \in requests', r.method = ToolsList PROVE r \in requests
      <4>1. CASE Register(c, i, m, t)
        <5>1. r \in requests \/ r.method = m
          BY <4>1 DEF Register
        <5>2. m = ToolsList => SubmitLeader(c, i, m, t) \/ UNCHANGED requests
          BY <1>1 DEF Submit, SubmitRejected, SubmitCached, SubmitCoalesced, SubmitUncached,
                      AnswerAtOnce, Uncached, ToolsList
        <5>3. QED
          BY <2>3, <3>2, <5>1, <5>2
      <4>2. QED
        BY <1>1, <3>2, <4>1, SubmitRoutes
    <3>3. QED
      BY <1>0, <2>1, <3>1, <3>2, FreshFrame
  <2>4. QED
    BY <2>2, <2>3
<1>2. CASE Accept(c) \/ Initialized(c) \/ Forward(c) \/ ClientWrite(c)
  BY <1>0, <1>2, FreshFrame DEF Accept, Initialized, Forward, ClientWrite
<1>3. CASE Disconnect(c)
  BY <1>0, <1>3, FreshFrame DEF Disconnect
<1>4. QED
  BY <1>1, <1>2, <1>3 DEF ClientStep, Submit, ClientEof, ClientWriteFails, ClientStops

LEMMA FreshComplete ==
  ASSUME TypeOK, TypeOK', FollowersHaveOneLeader, FollowersHaveOneLeader', FreshInv,
         NEW a \in answers, RouteAnswer(a)
  PROVE  FreshInv'
<1> USE DEF cacheVars
<1>1. PICK r \in requests : \E kind, lifetime :
        \/ AnswerUncached(a, r, kind)
        \/ AnswerInitialize(a, r, kind)
        \/ AnswerDiscover(a, r, kind, lifetime)
        \/ AnswerTools(a, r, kind, lifetime)
  BY DEF RouteAnswer
<1>0. PICK kind, lifetime :
        \/ AnswerUncached(a, r, kind)
        \/ AnswerInitialize(a, r, kind)
        \/ AnswerDiscover(a, r, kind, lifetime)
        \/ AnswerTools(a, r, kind, lifetime)
  BY <1>1
<1>2. /\ answers' \subseteq answers /\ requests' \subseteq requests
      /\ UNCHANGED <<now, tools_version, notices, noticed>>
      /\ recovery' = "none" => recovery = "none"
  BY RouteAnswerTakes
<1>3. now \in Nat /\ DOMAIN cached = Cacheable
  BY DEF TypeOK
<1>4. /\ ToolsList \in Cacheable /\ Initialize \in Cacheable /\ ServerDiscover \in Cacheable
      /\ ToolsList # Initialize /\ ToolsList # ServerDiscover
  BY DEF Cacheable, Initialize, ServerDiscover, ToolsList
<1>5. CASE r.method # ToolsList
  <2>1. UNCHANGED invalidated
    BY <1>0, <1>4, <1>5 DEF AnswerUncached, AnswerInitialize, AnswerDiscover, AnswerTools, Finish
  <2>2. cached'[ToolsList] = cached[ToolsList]
    BY <1>0, <1>3, <1>4, <1>5
       DEF AnswerUncached, AnswerInitialize, AnswerDiscover, AnswerTools, Retain
  <2>3. QED
    BY <1>2, <1>3, <2>1, <2>2, FreshFrame
<1>6. CASE r.method = ToolsList
  <2>1. AnswerTools(a, r, kind, lifetime)
    BY <1>0, <1>4, <1>6 DEF AnswerUncached, AnswerInitialize, AnswerDiscover, Uncached, ToolsList
  <2>2. r.pool_id = a.pool_id /\ requests' = requests \ {r} /\ Finish(ToolsList)
    BY <2>1 DEF AnswerTools, Complete
  <2>3. recovery' = "none" => \A s \in requests' : s.method # ToolsList
    BY <1>2, <1>4, <1>6, <2>2 DEF FollowersHaveOneLeader, OneLeader
  <2>4. FetchIsFresh'
    BY <2>3 DEF FetchIsFresh
  <2>5. CachedToolsFresh'
    <3>1. CASE Storable(kind)
      <4>1. cached'[ToolsList].version = a.version
        BY <1>3, <1>4, <2>1, <3>1 DEF AnswerTools, Retain
      <4>2. recovery = "none" => a.version >= noticed
        BY <1>6, <2>2, <3>1 DEF Storable, FreshInv, FetchIsFresh
      <4>3. QED
        BY <1>2, <4>1, <4>2 DEF CachedToolsFresh
    <3>2. CASE ~Storable(kind)
      <4>1. cached' = cached
        BY <2>1, <3>2 DEF AnswerTools
      <4>2. QED
        BY <1>2, <4>1 DEF FreshInv, CachedToolsFresh, Retained
    <3>3. QED
      BY <3>1, <3>2
  <2>6. NoticesAreOld'
    BY <1>2 DEF FreshInv, NoticesAreOld
  <2>7. QED
    BY <2>4, <2>5, <2>6 DEF FreshInv
<1>7. QED
  BY <1>5, <1>6

(* The server answers with its present list, and a change of the list is   *)
(* later than every notification before it.                                *)
LEMMA FreshUpstream ==
  ASSUME TypeOK, FreshInv, UpstreamStep
  PROVE  FreshInv'
<1> USE DEF cacheVars, historyVars
<1>1. /\ tools_version \in Nat /\ noticed \in Nat /\ notices \subseteq Nat
  BY DEF TypeOK
<1>2. ASSUME NEW p \in received, UpstreamAnswer(p)
      PROVE  FreshInv'
  <2>1. /\ answers' = answers \cup {[pool_id |-> p, version |-> tools_version]}
        /\ UNCHANGED <<now, requests, recovery, cached, invalidated, tools_version, notices, noticed>>
    BY <1>2 DEF UpstreamAnswer
  <2>2. \A a \in answers' : a \in answers \/ a.version = tools_version
    BY <2>1
  <2>3. tools_version >= noticed
    BY <1>1 DEF FreshInv, NoticesAreOld
  <2>4. FetchIsFresh'
    BY <2>1, <2>2, <2>3 DEF FreshInv, FetchIsFresh
  <2>5. NoticesAreOld' /\ CachedToolsFresh'
    BY <2>1 DEF FreshInv, NoticesAreOld, CachedToolsFresh, Retained
  <2>6. QED
    BY <2>4, <2>5 DEF FreshInv
<1>3. CASE UpstreamChange
  <2>1. /\ tools_version' = tools_version + 1 /\ notices' = notices \cup {tools_version'}
        /\ UNCHANGED <<now, requests, answers, recovery, cached, invalidated, noticed>>
    BY <1>3 DEF UpstreamChange
  <2>2. NoticesAreOld'
    BY <1>1, <2>1 DEF FreshInv, NoticesAreOld
  <2>3. FetchIsFresh' /\ CachedToolsFresh'
    BY <2>1 DEF FreshInv, FetchIsFresh, CachedToolsFresh, Retained
  <2>4. QED
    BY <2>2, <2>3 DEF FreshInv
<1>4. QED
  BY <1>2, <1>3 DEF UpstreamStep

(* A notification drops the list and marks the fetch that is under way.    *)
LEMMA FreshNotice ==
  ASSUME TypeOK, FollowersHaveOneLeader, FreshInv, NEW n \in notices, RouteNotice(n)
  PROVE  FreshInv'
<1>1. now \in Nat /\ DOMAIN cached = Cacheable /\ ToolsList \in Cacheable
  BY DEF TypeOK, Cacheable
<1>2. /\ invalidated' = InFlight(ToolsList)
      /\ UNCHANGED <<now, requests, answers, recovery, tools_version>>
      /\ notices' \subseteq notices /\ noticed' = Larger(noticed, n)
      /\ Retain(ToolsList, 0, 0)
  BY DEF RouteNotice
<1>3. NoticesAreOld'
  BY <1>2 DEF FreshInv, NoticesAreOld, Larger
<1>4. FetchIsFresh'
  BY <1>1, <1>2 DEF FetchIsFresh, FollowersHaveOneLeader, OneLeader
<1>5. CachedToolsFresh'
  <2>1. cached'[ToolsList].until = 0
    BY <1>1, <1>2 DEF Retain
  <2>2. ~Retained(ToolsList)'
    BY <1>1, <1>2, <2>1 DEF Retained
  <2>3. QED
    BY <2>2 DEF CachedToolsFresh
<1>6. QED
  BY <1>3, <1>4, <1>5 DEF FreshInv

LEMMA FreshStep ==
  ASSUME TypeOK, TypeOK', FollowersHaveOneLeader, FollowersHaveOneLeader', IdsAreNew, FreshInv,
         [Next]_vars
  PROVE  FreshInv'
<1> USE DEF vars, clientVars, cacheVars, upstreamVars, historyVars
<1>0. now \in Nat /\ ToolsList \in Cacheable
  BY DEF TypeOK, Cacheable
<1>1. ASSUME NEW c \in Clients, ClientStep(c)
      PROVE  FreshInv'
  BY <1>1, FreshClient
<1>2. ASSUME NEW a \in answers, RouteAnswer(a)
      PROVE  FreshInv'
  BY <1>2, FreshComplete
<1>3. CASE UpstreamStep
  BY <1>3, FreshUpstream
<1>4. ASSUME NEW n \in notices, RouteNotice(n)
      PROVE  FreshInv'
  BY <1>4, FreshNotice
<1>5. CASE Expire
  <2>1. requests' \subseteq requests /\ UNCHANGED <<now, cached, recovery, answers, tools_version, notices, noticed>>
    BY <1>5 DEF Expire
  <2>2. CASE ToolsList \in StaleLed
    <3>1. ~InFlight(ToolsList)'
      BY <1>0, <1>5, <2>2 DEF Expire, InFlight
    <3>2. recovery' = "none" => \A r \in requests' : r.method # ToolsList
      BY <1>0, <3>1 DEF FollowersHaveOneLeader, OneLeader
    <3>3. FetchIsFresh'
      BY <3>2 DEF FetchIsFresh
    <3>4. NoticesAreOld' /\ CachedToolsFresh'
      BY <2>1 DEF FreshInv, NoticesAreOld, CachedToolsFresh, Retained
    <3>5. QED
      BY <3>3, <3>4 DEF FreshInv
  <2>3. CASE ToolsList \notin StaleLed
    <3>1. invalidated' = invalidated
      BY <1>5, <2>3 DEF Expire, TypeOK
    <3>2. QED
      BY <1>0, <2>1, <3>1, FreshFrame
  <2>4. QED
    BY <2>2, <2>3
<1>6. ASSUME NEW a \in answers, OrphanAnswer(a)
      PROVE  FreshInv'
  BY <1>0, <1>6, FreshFrame DEF OrphanAnswer, Take
<1>7. CASE ClearHandshake
  BY <1>7 DEF ClearHandshake, FreshInv, NoticesAreOld, FetchIsFresh, CachedToolsFresh
<1>8. CASE Retire
  <2>1. ~Retained(ToolsList)' /\ requests' = {}
    BY <1>0, <1>8 DEF Retire, ClearAll, NoResult, Retained
  <2>2. QED
    BY <1>8, <2>1 DEF Retire, FreshInv, NoticesAreOld, FetchIsFresh, CachedToolsFresh
<1>9. CASE Close \/ Tick \/ UNCHANGED vars
  BY <1>0, <1>9, FreshFrame DEF Close, Tick
<1>10. QED
  BY <1>1, <1>2, <1>3, <1>4, <1>5, <1>6, <1>7, <1>8, <1>9 DEF Next, RouterStep

(* A tool list that is retained is not older than the last list_changed    *)
(* that was routed, also when a fetch, its expiry, changes and losses of   *)
(* the session overtake one another (session_cache.rs).                    *)
THEOREM FreshCorrect == Spec => []CachedToolsFresh
<1> DEFINE All == TypeOK /\ FollowersHaveOneLeader /\ IdsAreNew /\ FreshInv
<1>1. Init => All
  <2>1. Init => IdsAreNew /\ NoticesAreOld /\ FetchIsFresh
    BY DEF Init, IdsAreNew, NoticesAreOld, FetchIsFresh
  <2>2. Init => CachedToolsFresh
    BY DEF Init, CachedToolsFresh, Retained, NoResult, Cacheable
  <2>3. QED
    BY <2>1, <2>2, TypeInit, LeaderInit DEF FreshInv
<1>2. All /\ [Next]_vars => All'
  BY TypeStep, LeaderStep, IdsStep, FreshStep
<1>3. All => CachedToolsFresh
  BY DEF FreshInv
<1>4. QED
  BY <1>1, <1>2, <1>3, PTL DEF Spec

-----------------------------------------------------------------------------
(* No request is lost: routes.                                             *)

(* A connection that has not been accepted has asked for nothing.          *)
NewAreSilent ==
  /\ \A r \in requests : clients[r.client] # "new"
  /\ \A c \in Clients, i \in Ids : ticket[c][i].submitted => clients[c] # "new"

(* A step that takes from no route what carries it.                        *)
LEMMA RoutesFrame ==
  ASSUME RoutesAreUnderWay, ~shutdown' => ~shutdown, requests' \subseteq requests,
         \A r \in requests' : Open(r.client)' => Open(r.client),
         \A r \in requests' : UnderWay(r) => UnderWay(r)'
  PROVE  RoutesAreUnderWay'
  BY DEF RoutesAreUnderWay

LEMMA RoutesClient ==
  ASSUME TypeOK, IdsAreNew, NewAreSilent, RoutesAreUnderWay, NEW c \in Clients, ClientStep(c)
  PROVE  NewAreSilent' /\ RoutesAreUnderWay'
<1> USE DEF clientVars, cacheVars, upstreamVars, historyVars
<1>0. \A r \in requests : r.client \in Clients
  BY DEF TypeOK, Pending
<1>1. ASSUME NEW i \in Ids, NEW m \in Offered, NEW t \in CallerTimeouts, Submit(c, i, m, t)
      PROVE  NewAreSilent' /\ RoutesAreUnderWay'
  <2>1. /\ Ask(c, i, m, t) /\ UNCHANGED <<clients, shutdown, received, answers>>
        /\ clients[c] = "open" /\ forward[c] = Idle
    BY <1>1, SubmitRoutes DEF Ask, Read, Open
  <2>2. \A d \in Clients, j \in Ids : d # c => ticket'[d][j] = ticket[d][j]
    BY <2>1 DEF Ask, TypeOK
  <2>3. CASE UNCHANGED <<requests, forward, next_id>>
    <3>1. NewAreSilent'
      BY <2>1, <2>2, <2>3 DEF NewAreSilent
    <3>2. RoutesAreUnderWay'
      BY <2>1, <2>3 DEF RoutesAreUnderWay, UnderWay, Open
    <3>3. QED
      BY <3>1, <3>2
  <2>4. CASE Register(c, i, m, t)
    <3> DEFINE new == [pool_id |-> next_id, client |-> c, id |-> i, method |-> m,
                       expires |-> Expiration(m, t)]
    <3>1. /\ requests' = requests \cup {new} /\ new.pool_id = next_id /\ new.client = c
          /\ forward' = [forward EXCEPT ![c] = Carry("request", next_id)]
      BY <2>4 DEF Register
    <3> HIDE DEF new
    <3>2. NewAreSilent'
      BY <2>1, <2>2, <3>1 DEF NewAreSilent
    <3>3. /\ forward'[c] = Carry("request", next_id)
          /\ \A d \in Clients : d # c => forward'[d] = forward[d]
      BY <3>1 DEF TypeOK
    <3>4. \A n : Idle # Carry("request", n)
      BY DEF Idle, Carry
    <3>5. ASSUME NEW r, r = new PROVE UnderWay(r)'
      BY <3>5, <3>1, <3>3 DEF UnderWay
    <3>6. \A r \in requests : UnderWay(r) => UnderWay(r)'
      BY <1>0, <2>1, <3>3, <3>4 DEF UnderWay
    <3>7. RoutesAreUnderWay'
      BY <2>1, <3>1, <3>5, <3>6 DEF RoutesAreUnderWay, Open
    <3>8. QED
      BY <3>2, <3>7
  <2>5. QED
    BY <1>1, <2>3, <2>4, SubmitRoutes
<1>2. CASE Accept(c)
  <2>1. /\ clients[c] = "new" /\ clients'[c] = "open"
        /\ \A d \in Clients \ {c} : clients'[d] = clients[d]
        /\ UNCHANGED <<requests, forward, received, answers, shutdown, ticket>>
    BY <1>2 DEF Accept, TypeOK
  <2>2. \A r \in requests : r.client # c
    BY <2>1 DEF NewAreSilent
  <2>3. QED
    BY <1>0, <2>1, <2>2 DEF NewAreSilent, RoutesAreUnderWay, UnderWay, Open
<1>3. CASE Initialized(c)
  <2>1. /\ UNCHANGED <<clients, requests, received, answers, shutdown, ticket>>
        /\ forward[c] = Idle /\ \A d \in Clients \ {c} : forward'[d] = forward[d]
    BY <1>3 DEF Initialized, Read, TypeOK
  <2>2. \A n : Idle # Carry("request", n)
    BY DEF Idle, Carry
  <2>3. \A r \in requests : UnderWay(r) => UnderWay(r)'
    BY <1>0, <2>1, <2>2 DEF UnderWay
  <2>4. QED
    BY <2>1, <2>3, RoutesFrame DEF NewAreSilent, Open
<1>4. CASE Forward(c)
  <2>1. /\ UNCHANGED <<clients, requests, answers, shutdown, ticket>>
        /\ received \subseteq received'
        /\ \A d \in Clients \ {c} : forward'[d] = forward[d]
    BY <1>4 DEF Forward, TypeOK
  <2>2. ASSUME ~shutdown, NEW r \in requests, forward[c] = Carry("request", r.pool_id)
        PROVE  r.pool_id \in received'
    <3>1. forward[c].kind = "request" /\ forward[c].pool_id = r.pool_id
      BY <2>2 DEF Carry
    <3>2. QED
      BY <1>4, <2>2, <3>1 DEF Forward, Routed
  <2>3. ~shutdown => \A r \in requests : UnderWay(r) => UnderWay(r)'
    BY <1>0, <2>1, <2>2 DEF UnderWay
  <2>4. QED
    BY <2>1, <2>3 DEF NewAreSilent, RoutesAreUnderWay, Open
<1>5. CASE ClientWrite(c)
  <2>1. /\ UNCHANGED <<clients, requests, received, answers, shutdown, ticket>>
        /\ forward' = IF GivenUp(c) THEN [forward EXCEPT ![c] = Idle] ELSE forward
    BY <1>5 DEF ClientWrite
  <2>2. ASSUME NEW r \in requests, forward[c] = Carry("request", r.pool_id) PROVE ~GivenUp(c)
    BY <2>2 DEF Carry, GivenUp, Routed
  <2>3. ASSUME NEW r \in requests, UnderWay(r) PROVE UnderWay(r)'
    <3>1. CASE forward[r.client] = Carry("request", r.pool_id)
      <4>1. forward'[r.client] = forward[r.client]
        BY <1>0, <2>1, <2>2, <3>1 DEF TypeOK
      <4>2. QED
        BY <3>1, <4>1 DEF UnderWay
    <3>2. QED
      BY <2>1, <2>3, <3>1 DEF UnderWay
  <2>4. QED
    BY <2>1, <2>3, RoutesFrame DEF NewAreSilent, Open
<1>6. CASE Disconnect(c)
  <2>1. /\ requests' \subseteq requests /\ UNCHANGED <<received, answers, shutdown, ticket>>
        /\ clients'[c] = "gone"
        /\ \A d \in Clients \ {c} : clients'[d] = clients[d] /\ forward'[d] = forward[d]
    BY <1>6 DEF Disconnect, TypeOK
  <2>2. NewAreSilent'
    BY <1>0, <2>1 DEF NewAreSilent
  <2>3. ASSUME ~shutdown', NEW r \in requests', Open(r.client)' PROVE UnderWay(r)'
    <3>1. r.client \in Clients \ {c} /\ Open(r.client) /\ UnderWay(r)
      BY <1>0, <2>1, <2>3 DEF Open, RoutesAreUnderWay
    <3>2. QED
      BY <2>1, <3>1 DEF UnderWay
  <2>4. QED
    BY <2>2, <2>3 DEF RoutesAreUnderWay
<1>7. QED
  BY <1>1, <1>2, <1>3, <1>4, <1>5, <1>6
     DEF ClientStep, Submit, ClientEof, ClientWriteFails, ClientStops

LEMMA RoutesStep ==
  ASSUME TypeOK, IdsAreNew, NewAreSilent, RoutesAreUnderWay, [Next]_vars
  PROVE  NewAreSilent' /\ RoutesAreUnderWay'
<1> USE DEF vars, clientVars, cacheVars, upstreamVars, historyVars
<1>1. ASSUME NEW c \in Clients, ClientStep(c)
      PROVE  NewAreSilent' /\ RoutesAreUnderWay'
  BY <1>1, RoutesClient
<1>2. ASSUME requests' \subseteq requests, UNCHANGED <<clients, ticket>>
      PROVE  NewAreSilent'
  BY <1>2 DEF NewAreSilent
<1>3. ASSUME NEW a \in answers, RouteAnswer(a)
      PROVE  NewAreSilent' /\ RoutesAreUnderWay'
  <2>1. PICK r \in requests :
          /\ r.pool_id = a.pool_id /\ requests' = requests \ {r} /\ answers' = answers \ {a}
          /\ UNCHANGED <<clients, forward, shutdown, received, ticket>>
    BY <1>3, RouteAnswerTakes
  <2>2. \A s \in requests' : s.pool_id # a.pool_id
    BY <2>1 DEF IdsAreNew
  <2>3. \A s \in requests' : UnderWay(s) => UnderWay(s)'
    BY <2>1, <2>2 DEF UnderWay
  <2>4. QED
    BY <1>2, <2>1, <2>3, RoutesFrame DEF Open
<1>4. ASSUME NEW a \in answers, OrphanAnswer(a)
      PROVE  NewAreSilent' /\ RoutesAreUnderWay'
  <2>1. /\ ~Routed(a.pool_id) /\ answers' = answers \ {a}
        /\ UNCHANGED <<clients, forward, requests, shutdown, received, ticket>>
    BY <1>4 DEF OrphanAnswer, Take
  <2>2. \A s \in requests : UnderWay(s) => UnderWay(s)'
    BY <2>1 DEF UnderWay, Routed
  <2>3. QED
    BY <1>2, <2>1, <2>2, RoutesFrame DEF Open
<1>5. ASSUME NEW p \in received, UpstreamAnswer(p)
      PROVE  NewAreSilent' /\ RoutesAreUnderWay'
  <2>1. /\ received' = received \ {p}
        /\ answers' = answers \cup {[pool_id |-> p, version |-> tools_version]}
        /\ UNCHANGED <<clients, forward, requests, shutdown, ticket>>
    BY <1>5 DEF UpstreamAnswer
  <2>2. \E b \in answers' : b.pool_id = p
    <3> DEFINE b == [pool_id |-> p, version |-> tools_version]
    <3>1. b \in answers' /\ b.pool_id = p
      BY <2>1
    <3>2. QED
      BY <3>1
  <2>3. \A s \in requests : UnderWay(s) => UnderWay(s)'
    BY <2>1, <2>2 DEF UnderWay
  <2>4. QED
    BY <1>2, <2>1, <2>3, RoutesFrame DEF Open
<1>6. ASSUME \/ UpstreamChange \/ ClearHandshake \/ Expire \/ Close \/ Retire \/ Tick
             \/ UNCHANGED vars \/ \E n \in notices : RouteNotice(n)
      PROVE  NewAreSilent' /\ RoutesAreUnderWay'
  <2>1. /\ requests' \subseteq requests
        /\ shutdown => shutdown'
        /\ UNCHANGED <<clients, forward, received, answers, ticket>>
    BY <1>6 DEF UpstreamChange, ClearHandshake, Expire, Close, Retire, Tick, RouteNotice
  <2>2. QED
    BY <1>2, <2>1, RoutesFrame DEF UnderWay, Open
<1>7. QED
  BY <1>1, <1>3, <1>4, <1>5, <1>6 DEF Next, UpstreamStep, RouterStep

-----------------------------------------------------------------------------
(* No request is lost: what a request is owed.                             *)

(* A route or a coalesced wait owes the request i of c a reply ...         *)
Owed(c, i) ==
  \/ \E r \in requests : r.client = c /\ r.id = i
  \/ \E m \in Cacheable : \E w \in waiters[m] : w.client = c /\ w.id = i

(* ... or it has had one.                                                  *)
Kept(c, i) == Owed(c, i) \/ replies[c][i] # <<>>

LEMMA OwedIsOwing ==
  ASSUME NEW c \in Clients, NEW i \in Ids
  PROVE  Owing(c, i) # {} <=> Owed(c, i)
  BY DEF Owing, Owed

LEMMA LostIsUnkept ==
  NoRequestLost <=>
    (~shutdown /\ recovery = "none" =>
       \A c \in Clients, i \in Ids : Open(c) /\ ticket[c][i].submitted => Kept(c, i))
  BY OwedIsOwing DEF NoRequestLost, Kept

LEMMA LostFrame ==
  ASSUME NoRequestLost, ~shutdown' => ~shutdown, recovery' = "none" => recovery = "none",
         \A c \in Clients, i \in Ids :
           ~shutdown' /\ recovery' = "none" /\ Open(c)' /\ ticket'[c][i].submitted
             => Open(c) /\ ticket[c][i].submitted /\ (Kept(c, i) => Kept(c, i)')
  PROVE  NoRequestLost'
<1>1. \A c \in Clients, i \in Ids : Owing(c, i)' # {} <=> Owed(c, i)'
  BY DEF Owing, Owed
<1>2. \A c \in Clients, i \in Ids : Kept(c, i)' => Owing(c, i)' # {} \/ replies'[c][i] # <<>>
  BY <1>1 DEF Kept
<1>3. QED
  BY <1>2, LostIsUnkept DEF NoRequestLost

(* A reply is handed to every request of the set whose client is there,    *)
(* and takes nobody's reply away.                                          *)
LEMMA HandedOver ==
  ASSUME TypeOK, NEW rs, NEW reply \in Reply, HandOver(rs, reply), NEW c \in Clients, NEW i \in Ids
  PROVE  /\ replies[c][i] # <<>> => replies'[c][i] # <<>>
         /\ Open(c) /\ (\E r \in rs : r.client = c /\ r.id = i) => replies'[c][i] # <<>>
<1>1. replies[c][i] \in Seq(Reply)
  BY DEF TypeOK
<1>2. Append(replies[c][i], reply) # <<>>
  BY <1>1
<1>3. replies'[c][i] = IF Open(c) /\ \E r \in rs : r.client = c /\ r.id = i
                       THEN Append(replies[c][i], reply) ELSE replies[c][i]
  BY DEF HandOver
<1>4. QED
  BY <1>2, <1>3

LEMMA LostClient ==
  ASSUME TypeOK, NewAreSilent, NoRequestLost, NEW c \in Clients, ClientStep(c)
  PROVE  NoRequestLost'
<1> USE DEF clientVars, cacheVars, upstreamVars, historyVars
<1>1. ASSUME NEW i \in Ids, NEW m \in Offered, NEW t \in CallerTimeouts, Submit(c, i, m, t)
      PROVE  NoRequestLost'
  <2>1. /\ Ask(c, i, m, t) /\ UNCHANGED <<clients, shutdown, recovery>>
        /\ requests \subseteq requests'
    BY <1>1, SubmitRoutes DEF Ask, Register
  <2>2. \A d \in Clients, j \in Ids : (d # c \/ j # i) => ticket'[d][j] = ticket[d][j]
    BY <2>1 DEF Ask, TypeOK
  <2>3. \A k \in Cacheable : waiters[k] \subseteq waiters'[k]
    <3>1. CASE SubmitCoalesced(c, i, m, t)
      BY <3>1 DEF SubmitCoalesced, Coalesce, TypeOK
    <3>2. CASE ~SubmitCoalesced(c, i, m, t)
      <4>1. UNCHANGED waiters
        BY <1>1, <3>2 DEF Submit, SubmitRejected, SubmitCached, SubmitLeader, SubmitUncached, AnswerAtOnce,
                          Register
      <4>2. QED
        BY <4>1
    <3>3. QED
      BY <3>1, <3>2
  <2>4. ASSUME NEW reply, AnswerAtOnce(c, i, reply)
        PROVE  /\ replies'[c][i] # <<>>
               /\ \A d \in Clients, j \in Ids : (d # c \/ j # i) => replies'[d][j] = replies[d][j]
    <3>1. replies'[c][i] = Append(replies[c][i], reply) /\ replies[c][i] \in Seq(Reply)
      BY <2>4 DEF AnswerAtOnce, TypeOK
    <3>2. Len(replies'[c][i]) = Len(replies[c][i]) + 1
      BY <3>1
    <3>3. replies'[c][i] # <<>>
      BY <3>1, <3>2
    <3>4. /\ \A d \in Clients : d # c => replies'[d] = replies[d]
          /\ \A j \in Ids : j # i => replies'[c][j] = replies[c][j]
      BY <2>4 DEF AnswerAtOnce, TypeOK
    <3>5. QED
      BY <3>3, <3>4
  <2>5. Kept(c, i)'
    <3>1. CASE SubmitRejected(c, i, m, t) \/ SubmitCached(c, i, m, t)
      BY <2>4, <3>1 DEF SubmitRejected, SubmitCached, Kept
    <3>2. CASE SubmitCoalesced(c, i, m, t)
      <4>1. m \in Cacheable /\ Follower(c, i, m, t) \in waiters'[m]
        BY <3>2 DEF SubmitCoalesced, Coalesce, TypeOK
      <4>2. Follower(c, i, m, t).client = c /\ Follower(c, i, m, t).id = i
        BY DEF Follower
      <4>3. QED
        BY <4>1, <4>2 DEF Kept, Owed
    <3>3. CASE Register(c, i, m, t)
      <4> DEFINE new == [pool_id |-> next_id, client |-> c, id |-> i, method |-> m,
                         expires |-> Expiration(m, t)]
      <4>1. new \in requests' /\ new.client = c /\ new.id = i
        BY <3>3 DEF Register
      <4>2. QED
        BY <4>1 DEF Kept, Owed
    <3>4. QED
      BY <1>1, <3>1, <3>2, <3>3 DEF Submit, SubmitLeader, SubmitUncached
  <2>6. \A d \in Clients, j \in Ids : (d # c \/ j # i) => replies'[d][j] = replies[d][j]
    BY <1>1, <2>4 DEF Submit, SubmitRejected, SubmitCached, SubmitCoalesced, SubmitLeader,
                      SubmitUncached, Register
  <2>7. ASSUME NEW d \in Clients, NEW j \in Ids, Kept(d, j) PROVE Kept(d, j)'
    BY <2>1, <2>3, <2>5, <2>6, <2>7 DEF Kept, Owed
  <2>8. ASSUME NEW d \in Clients, NEW j \in Ids, ~shutdown', recovery' = "none",
               Open(d)', ticket'[d][j].submitted
        PROVE  Kept(d, j)'
    <3>1. CASE d = c /\ j = i
      BY <2>5, <3>1
    <3>2. CASE d # c \/ j # i
      <4>1. Kept(d, j)
        BY <2>1, <2>2, <2>8, <3>2, LostIsUnkept DEF Open
      <4>2. QED
        BY <2>7, <4>1
    <3>3. QED
      BY <3>1, <3>2
  <2>9. ASSUME NEW d \in Clients, NEW j \in Ids, Kept(d, j)' PROVE Owing(d, j)' # {} \/ replies'[d][j] # <<>>
    <3>1. Owed(d, j)' => Owing(d, j)' # {}
      BY DEF Owed, Owing
    <3>2. Kept(d, j)' <=> Owed(d, j)' \/ replies'[d][j] # <<>>
      BY DEF Kept
    <3>3. QED
      BY <2>9, <3>1, <3>2
  <2>10. QED
    BY <2>8, <2>9 DEF NoRequestLost
<1>2. CASE Accept(c)
  <2>1. /\ clients[c] = "new"
        /\ \A d \in Clients \ {c} : clients'[d] = clients[d]
        /\ UNCHANGED <<requests, waiters, replies, ticket, shutdown, recovery>>
    BY <1>2 DEF Accept, TypeOK
  <2>2. QED
    BY <2>1, LostFrame DEF NewAreSilent, Open, Kept, Owed
<1>3. CASE Initialized(c) \/ Forward(c) \/ ClientWrite(c)
  <2>1. UNCHANGED <<clients, requests, waiters, replies, ticket, shutdown, recovery>>
    BY <1>3 DEF Initialized, Forward, ClientWrite
  <2>2. QED
    BY <2>1, LostFrame DEF Open, Kept, Owed
<1>4. CASE Disconnect(c)
  <2>1. /\ clients'[c] = "gone"
        /\ \A d \in Clients \ {c} : clients'[d] = clients[d]
        /\ UNCHANGED <<replies, ticket, shutdown, recovery>>
    BY <1>4 DEF Disconnect, TypeOK
  <2>2. /\ \A r \in requests : r.client # c => r \in requests'
        /\ \A m \in Cacheable : \A w \in waiters[m] : w.client # c => w \in waiters'[m]
    BY <1>4 DEF Disconnect, KeepsRoute
  <2>3. \A d \in Clients \ {c}, i \in Ids : Kept(d, i) => Kept(d, i)'
    BY <2>1, <2>2 DEF Kept, Owed
  <2>4. QED
    BY <2>1, <2>3, LostFrame DEF Open
<1>5. QED
  BY <1>1, <1>2, <1>3, <1>4
     DEF ClientStep, Submit, ClientEof, ClientWriteFails, ClientStops

(* An answer is handed to the request it answers and to all that wait on   *)
(* it; what other requests are owed stays.                                 *)
LEMMA LostComplete ==
  ASSUME TypeOK, NoRequestLost, NEW a \in answers, RouteAnswer(a)
  PROVE  NoRequestLost'
<1> USE DEF cacheVars
<1>1. PICK r \in requests : \E kind \in KindsOf(r.method) :
        \/ AnswerUncached(a, r, kind)
        \/ AnswerInitialize(a, r, kind)
        \/ \E lifetime \in Lifetimes :
             AnswerDiscover(a, r, kind, lifetime) \/ AnswerTools(a, r, kind, lifetime)
  BY DEF RouteAnswer
<1>2. PICK kind, lifetime :
        /\ kind \in KindsOf(r.method)
        /\ \/ AnswerUncached(a, r, kind)
           \/ AnswerInitialize(a, r, kind)
           \/ AnswerDiscover(a, r, kind, lifetime)
           \/ AnswerTools(a, r, kind, lifetime)
  BY <1>1
<1>3. PICK fs :
        /\ Complete(a, r, fs, kind)
        /\ \A m \in Cacheable : \A w \in waiters[m] : w \in waiters'[m] \/ w \in fs
  <2>1. ASSUME NEW n \in Cacheable, Finish(n)
        PROVE  \A m \in Cacheable : \A w \in waiters[m] : w \in waiters'[m] \/ w \in waiters[n]
    BY <2>1 DEF Finish, TypeOK
  <2>2. CASE AnswerUncached(a, r, kind)
    BY <2>2 DEF AnswerUncached
  <2>3. CASE AnswerInitialize(a, r, kind)
    BY <2>1, <2>3 DEF AnswerInitialize, Cacheable
  <2>4. CASE AnswerDiscover(a, r, kind, lifetime)
    BY <2>1, <2>4 DEF AnswerDiscover, Cacheable
  <2>5. CASE AnswerTools(a, r, kind, lifetime)
    BY <2>1, <2>5 DEF AnswerTools, Cacheable
  <2>6. QED
    BY <1>2, <2>2, <2>3, <2>4, <2>5
<1>4. /\ requests' = requests \ {r} /\ UNCHANGED <<clients, ticket, shutdown>>
      /\ recovery' = "none" => recovery = "none"
      /\ HandOver({r} \cup fs, [kind |-> kind, version |-> a.version])
  BY <1>3 DEF Complete, Take, Served
<1>5. [kind |-> kind, version |-> a.version] \in Reply
  BY <1>2, RouteAssumption DEF KindsOf, TypeOK, Answer, Reply
<1>6. ASSUME NEW c \in Clients, NEW i \in Ids, Open(c), Kept(c, i) PROVE Kept(c, i)'
  <2>1. /\ replies[c][i] # <<>> => replies'[c][i] # <<>>
        /\ (\E s \in {r} \cup fs : s.client = c /\ s.id = i) => replies'[c][i] # <<>>
    BY <1>4, <1>5, <1>6, HandedOver
  <2>2. CASE \E s \in requests : s.client = c /\ s.id = i
    <3>1. PICK s \in requests : s.client = c /\ s.id = i
      BY <2>2
    <3>2. s \in requests' \/ s = r
      BY <1>4
    <3>3. QED
      BY <2>1, <3>1, <3>2 DEF Kept, Owed
  <2>3. CASE \E m \in Cacheable : \E w \in waiters[m] : w.client = c /\ w.id = i
    BY <1>3, <2>1, <2>3 DEF Kept, Owed
  <2>4. QED
    BY <1>6, <2>1, <2>2, <2>3 DEF Kept, Owed
<1>7. QED
  BY <1>4, <1>6, LostFrame DEF Open

(* The requests and the waits that end with a deadline have a reply.       *)
LEMMA LostExpire ==
  ASSUME TypeOK, NoRequestLost, Expire
  PROVE  NoRequestLost'
<1>1. /\ HandOver(TimedOut, [kind |-> "timeout", version |-> 0])
      /\ requests' = requests \ StaleRequests
      /\ UNCHANGED <<clients, ticket, shutdown, recovery>>
  BY DEF Expire
<1>2. \A m \in Cacheable : \A w \in waiters[m] : w \in waiters'[m] \/ w \in TimedOut
  BY DEF Expire, TimedOut
<1>3. StaleRequests \subseteq TimedOut
  BY DEF TimedOut
<1>4. [kind |-> "timeout", version |-> 0] \in Reply
  BY DEF Reply
<1>5. ASSUME NEW c \in Clients, NEW i \in Ids, Open(c), Kept(c, i) PROVE Kept(c, i)'
  <2>1. /\ replies[c][i] # <<>> => replies'[c][i] # <<>>
        /\ (\E s \in TimedOut : s.client = c /\ s.id = i) => replies'[c][i] # <<>>
    BY <1>1, <1>4, <1>5, HandedOver
  <2>2. CASE \E s \in requests : s.client = c /\ s.id = i
    BY <1>1, <1>3, <2>1, <2>2 DEF Kept, Owed
  <2>3. CASE \E m \in Cacheable : \E w \in waiters[m] : w.client = c /\ w.id = i
    BY <1>2, <2>1, <2>3 DEF Kept, Owed
  <2>4. QED
    BY <1>5, <2>1, <2>2, <2>3 DEF Kept, Owed
<1>6. QED
  BY <1>1, <1>5, LostFrame DEF Open

LEMMA LostStep ==
  ASSUME TypeOK, NewAreSilent, NoRequestLost, [Next]_vars
  PROVE  NoRequestLost'
<1> USE DEF vars, clientVars, cacheVars, upstreamVars, historyVars
<1>1. ASSUME NEW c \in Clients, ClientStep(c)
      PROVE  NoRequestLost'
  BY <1>1, LostClient
<1>2. ASSUME NEW a \in answers, RouteAnswer(a)
      PROVE  NoRequestLost'
  BY <1>2, LostComplete
<1>3. CASE Expire
  BY <1>3, LostExpire
<1>4. ASSUME \/ UpstreamStep \/ Tick \/ UNCHANGED vars
             \/ \E a \in answers : OrphanAnswer(a)
             \/ \E n \in notices : RouteNotice(n)
      PROVE  NoRequestLost'
  <2>1. UNCHANGED <<clients, requests, waiters, replies, ticket, shutdown, recovery>>
    BY <1>4 DEF UpstreamStep, UpstreamAnswer, UpstreamChange, Tick, OrphanAnswer, Take, RouteNotice
  <2>2. QED
    BY <2>1, LostFrame DEF Open, Kept, Owed
<1>5. CASE ClearHandshake \/ Close \/ Retire
  BY <1>5 DEF ClearHandshake, Close, Retire, NoRequestLost
<1>6. QED
  BY <1>1, <1>2, <1>3, <1>4, <1>5 DEF Next, RouterStep

(* Until the session is lost or the generation stops, every request of a   *)
(* connected client has had its reply or is owed one by a route or a wait, *)
(* and every route of a connected client is one that an answer can take    *)
(* (socket_proxy_cache.rs, session_cache.rs).                              *)
THEOREM CarriedCorrect == Spec => []RequestsAreCarried
<1> DEFINE All == TypeOK /\ IdsAreNew /\ NewAreSilent /\ RoutesAreUnderWay /\ NoRequestLost
<1>1. Init => All
  <2>1. Init => IdsAreNew /\ RoutesAreUnderWay
    BY DEF Init, IdsAreNew, RoutesAreUnderWay
  <2>2. Init => NewAreSilent /\ NoRequestLost
    BY DEF Init, NewAreSilent, NoRequestLost, Untried, Open
  <2>3. QED
    BY <2>1, <2>2, TypeInit
<1>2. All /\ [Next]_vars => All'
  BY TypeStep, IdsStep, RoutesStep, LostStep
<1>3. All => RequestsAreCarried
  BY DEF RequestsAreCarried
<1>4. QED
  BY <1>1, <1>2, <1>3, PTL DEF Spec

-----------------------------------------------------------------------------
(* One reply to a request: a request has one source of a reply, a route or *)
(* a coalesced wait, until it has its reply.                               *)

Of(s, c, i) == s.client = c /\ s.id = i

OneSource(c, i) ==
  /\ \A r, s \in requests : Of(r, c, i) /\ Of(s, c, i) => r = s
  /\ \A m, n \in Cacheable : \A w \in waiters[m], v \in waiters[n] :
       Of(w, c, i) /\ Of(v, c, i) => m = n /\ w = v
  /\ \A r \in requests, m \in Cacheable : \A w \in waiters[m] : ~(Of(r, c, i) /\ Of(w, c, i))

Once(c, i) ==
  /\ OneSource(c, i)
  /\ Owed(c, i) => ticket[c][i].submitted /\ replies[c][i] = <<>>
  /\ replies[c][i] # <<>> => ticket[c][i].submitted
  /\ Len(replies[c][i]) <= 1

OnceInv == \A c \in Clients, i \in Ids : Once(c, i)

(* A source that goes without a reply leaves none behind.                  *)
SourcesShrink ==
  /\ requests' \subseteq requests
  /\ \A m \in Cacheable : waiters'[m] \subseteq waiters[m]

LEMMA OnceFrame ==
  ASSUME SourcesShrink, NEW c \in Clients, NEW i \in Ids, Once(c, i),
         ticket'[c][i] = ticket[c][i], replies'[c][i] = replies[c][i]
  PROVE  Once(c, i)'
<1>1. OneSource(c, i)'
  BY DEF Once, OneSource, SourcesShrink
<1>2. Owed(c, i)' => Owed(c, i)
  BY DEF Owed, SourcesShrink
<1>3. QED
  BY <1>1, <1>2 DEF Once

LEMMA OnceQuiet ==
  ASSUME SourcesShrink, OnceInv, UNCHANGED <<ticket, replies>>
  PROVE  OnceInv'
  BY OnceFrame DEF OnceInv

(* Replies are handed to sources that go with it.                          *)
LEMMA OnceHanded ==
  ASSUME TypeOK, SourcesShrink, OnceInv, NEW rs, NEW reply \in Reply, HandOver(rs, reply),
         ticket' = ticket,
         \A s \in rs : \/ s \in requests \ requests'
                       \/ \E m \in Cacheable : s \in waiters[m] \ waiters'[m]
  PROVE  OnceInv'
<1> SUFFICES ASSUME NEW c \in Clients, NEW i \in Ids PROVE Once(c, i)'
  BY DEF OnceInv
<1>1. Once(c, i)
  BY DEF OnceInv
<1>2. CASE Open(c) /\ \E s \in rs : Of(s, c, i)
  <2>1. PICK s \in rs : Of(s, c, i)
    BY <1>2
  <2>2. Owed(c, i)
    BY <2>1 DEF Owed, Of
  <2>3. ~Owed(c, i)'
    BY <1>1, <2>1 DEF Once, OneSource, Owed, Of, SourcesShrink
  <2>4. replies'[c][i] = Append(<<>>, reply)
    BY <1>1, <1>2, <2>2 DEF HandOver, Once, Of
  <2>5. replies'[c][i] # <<>> /\ Len(replies'[c][i]) = 1
    BY <2>4
  <2>6. OneSource(c, i)'
    BY <1>1 DEF Once, OneSource, SourcesShrink
  <2>7. QED
    BY <1>1, <2>2, <2>3, <2>5, <2>6 DEF Once
<1>3. CASE ~(Open(c) /\ \E s \in rs : Of(s, c, i))
  <2>1. replies'[c][i] = replies[c][i]
    BY <1>3 DEF HandOver, Of
  <2>2. QED
    BY <1>1, <2>1, OnceFrame
<1>4. QED
  BY <1>2, <1>3

(* A submission gives a fresh request its source or its reply.             *)
LEMMA OnceSubmit ==
  ASSUME TypeOK, OnceInv, NEW c \in Clients, NEW i \in Ids, NEW m \in Offered,
         NEW t \in CallerTimeouts, Submit(c, i, m, t)
  PROVE  OnceInv'
<1>1. /\ ~ticket[c][i].submitted /\ ticket'[c][i].submitted
      /\ \A d \in Clients, j \in Ids : (d # c \/ j # i) => ticket'[d][j] = ticket[d][j]
  <2>1. Ask(c, i, m, t)
    BY SubmitRoutes
  <2>2. QED
    BY <2>1 DEF Ask, TypeOK
<1>2. Once(c, i) /\ ~Owed(c, i) /\ replies[c][i] = <<>>
  BY <1>1 DEF OnceInv, Once
<1>3. ASSUME NEW reply, AnswerAtOnce(c, i, reply)
      PROVE  OnceInv'
  <2>1. /\ UNCHANGED <<requests, waiters>>
        /\ replies'[c][i] = Append(<<>>, reply)
        /\ \A d \in Clients : d # c => replies'[d] = replies[d]
        /\ \A j \in Ids : j # i => replies'[c][j] = replies[c][j]
    BY <1>2, <1>3 DEF AnswerAtOnce, TypeOK
  <2>2. Len(replies'[c][i]) = 1 /\ replies'[c][i] # <<>>
    BY <2>1
  <2>3. OneSource(c, i)' /\ ~Owed(c, i)'
    BY <1>2, <2>1 DEF Once, OneSource, Owed
  <2>4. Once(c, i)'
    BY <1>1, <2>2, <2>3 DEF Once
  <2>5. ASSUME NEW d \in Clients, NEW j \in Ids, d # c \/ j # i PROVE Once(d, j)'
    BY <1>1, <2>1, <2>5, OnceFrame DEF OnceInv, SourcesShrink
  <2>6. QED
    BY <2>4, <2>5 DEF OnceInv
<1>4. ASSUME NEW new, Of(new, c, i), UNCHANGED replies,
             \/ requests' = requests \cup {new} /\ UNCHANGED waiters
             \/ /\ UNCHANGED requests
                /\ \E n \in Cacheable : waiters' = [waiters EXCEPT ![n] = @ \cup {new}]
      PROVE  OnceInv'
  <2>1. waiters \in [Cacheable -> SUBSET Waiter]
    BY DEF TypeOK
  <2>2. \A r \in requests : ~Of(r, c, i)
    BY <1>2 DEF Owed, Of
  <2>3. \A n \in Cacheable : \A w \in waiters[n] : ~Of(w, c, i)
    BY <1>2 DEF Owed, Of
  <2>4. ASSUME NEW d \in Clients, NEW j \in Ids, d # c \/ j # i PROVE Once(d, j)'
    <3>1. Once(d, j) /\ ~Of(new, d, j)
      BY <1>4, <2>4 DEF OnceInv, Of
    <3>2. /\ \A r \in requests' : r \in requests \/ r = new
          /\ \A n \in Cacheable : \A w \in waiters'[n] : w \in waiters[n] \/ w = new
      BY <1>4, <2>1
    <3>3. OneSource(d, j)'
      BY <3>1, <3>2 DEF Once, OneSource
    <3>4. Owed(d, j)' => Owed(d, j)
      BY <3>1, <3>2 DEF Owed, Of
    <3>5. QED
      BY <1>1, <1>4, <2>4, <3>1, <3>3, <3>4 DEF Once
  <2>5. OneSource(c, i)'
    <3>1. CASE requests' = requests \cup {new} /\ UNCHANGED waiters
      BY <2>2, <2>3, <3>1 DEF OneSource
    <3>2. CASE /\ UNCHANGED requests
               /\ \E n \in Cacheable : waiters' = [waiters EXCEPT ![n] = @ \cup {new}]
      <4>1. PICK n \in Cacheable : waiters' = [waiters EXCEPT ![n] = @ \cup {new}]
        BY <3>2
      <4>2. /\ waiters'[n] = waiters[n] \cup {new}
            /\ \A k \in Cacheable \ {n} : waiters'[k] = waiters[k]
        BY <2>1, <4>1
      <4>3. \A k \in Cacheable : \A w \in waiters'[k] : w \in waiters[k] \/ (k = n /\ w = new)
        BY <4>2
      <4>4. QED
        BY <2>2, <2>3, <3>2, <4>3 DEF OneSource
    <3>3. QED
      BY <1>4, <3>1, <3>2
  <2>6. Once(c, i)'
    BY <1>1, <1>2, <1>4, <2>5 DEF Once
  <2>7. QED
    BY <2>4, <2>6 DEF OnceInv
<1>5. CASE SubmitRejected(c, i, m, t) \/ SubmitCached(c, i, m, t)
  BY <1>3, <1>5 DEF SubmitRejected, SubmitCached
<1>6. CASE SubmitCoalesced(c, i, m, t)
  <2>1. Of(Follower(c, i, m, t), c, i)
    BY DEF Of, Follower
  <2>2. QED
    BY <1>4, <1>6, <2>1 DEF SubmitCoalesced, Coalesce
<1>7. CASE Register(c, i, m, t)
  <2> DEFINE new == [pool_id |-> next_id, client |-> c, id |-> i, method |-> m,
                     expires |-> Expiration(m, t)]
  <2>1. Of(new, c, i) /\ requests' = requests \cup {new} /\ UNCHANGED <<waiters, replies>>
    BY <1>7 DEF Register, Of
  <2> HIDE DEF new
  <2>2. QED
    BY <1>4, <2>1
<1>8. QED
  BY <1>5, <1>6, <1>7 DEF Submit, SubmitLeader, SubmitUncached

(* The route of an answer, and the waits that it serves, are over.         *)
LEMMA RouteAnswerServes ==
  ASSUME TypeOK, NEW a \in answers, RouteAnswer(a)
  PROVE  \E r \in requests, kind \in Kinds : \E fs :
           /\ requests' = requests \ {r} /\ UNCHANGED ticket
           /\ HandOver({r} \cup fs, [kind |-> kind, version |-> a.version])
           /\ \A m \in Cacheable : waiters'[m] \subseteq waiters[m]
           /\ \A s \in fs : \E m \in Cacheable : s \in waiters[m] \ waiters'[m]
<1> USE DEF cacheVars
<1>1. PICK r \in requests : \E kind \in KindsOf(r.method) :
        \/ AnswerUncached(a, r, kind)
        \/ AnswerInitialize(a, r, kind)
        \/ \E lifetime \in Lifetimes :
             AnswerDiscover(a, r, kind, lifetime) \/ AnswerTools(a, r, kind, lifetime)
  BY DEF RouteAnswer
<1>2. PICK kind, lifetime :
        /\ kind \in KindsOf(r.method)
        /\ \/ AnswerUncached(a, r, kind)
           \/ AnswerInitialize(a, r, kind)
           \/ AnswerDiscover(a, r, kind, lifetime)
           \/ AnswerTools(a, r, kind, lifetime)
  BY <1>1
<1>3. kind \in Kinds
  BY <1>2, RouteAssumption DEF KindsOf
<1>4. ASSUME NEW fs, Complete(a, r, fs, kind)
      PROVE  /\ requests' = requests \ {r} /\ UNCHANGED ticket
             /\ HandOver({r} \cup fs, [kind |-> kind, version |-> a.version])
  BY <1>4 DEF Complete, Take, Served
<1>5. ASSUME NEW n \in Cacheable, Finish(n)
      PROVE  /\ \A m \in Cacheable : waiters'[m] \subseteq waiters[m]
             /\ \A s \in waiters[n] : \E m \in Cacheable : s \in waiters[m] \ waiters'[m]
  <2>1. waiters'[n] = {} /\ \A m \in Cacheable \ {n} : waiters'[m] = waiters[m]
    BY <1>5 DEF Finish, TypeOK
  <2>2. QED
    BY <2>1
<1>6. CASE AnswerUncached(a, r, kind)
  <2> DEFINE none == {}
  <2>1. Complete(a, r, none, kind) /\ UNCHANGED waiters /\ \A s \in none : FALSE
    BY <1>6 DEF AnswerUncached
  <2> HIDE DEF none
  <2>2. QED
    BY <1>3, <1>4, <2>1
<1>7. \A n \in Cacheable : Complete(a, r, waiters[n], kind) /\ Finish(n)
        => \E fs : /\ requests' = requests \ {r} /\ UNCHANGED ticket
                   /\ HandOver({r} \cup fs, [kind |-> kind, version |-> a.version])
                   /\ \A m \in Cacheable : waiters'[m] \subseteq waiters[m]
                   /\ \A s \in fs : \E m \in Cacheable : s \in waiters[m] \ waiters'[m]
  BY <1>4, <1>5
<1>8. CASE AnswerInitialize(a, r, kind) \/ AnswerDiscover(a, r, kind, lifetime)
           \/ AnswerTools(a, r, kind, lifetime)
  <2>1. PICK n \in Cacheable : Complete(a, r, waiters[n], kind) /\ Finish(n)
    BY <1>8 DEF AnswerInitialize, AnswerDiscover, AnswerTools, Cacheable
  <2>2. PICK fs : /\ requests' = requests \ {r} /\ UNCHANGED ticket
                  /\ HandOver({r} \cup fs, [kind |-> kind, version |-> a.version])
                  /\ \A m \in Cacheable : waiters'[m] \subseteq waiters[m]
                  /\ \A s \in fs : \E m \in Cacheable : s \in waiters[m] \ waiters'[m]
    BY <1>7, <2>1
  <2>3. QED
    BY <1>3, <2>2, Zenon
<1>9. QED
  BY <1>2, <1>6, <1>8

LEMMA OnceStep ==
  ASSUME TypeOK, OnceInv, [Next]_vars
  PROVE  OnceInv'
<1> USE DEF vars, clientVars, cacheVars, upstreamVars, historyVars
<1>0. \A m \in Cacheable : waiters[m] \in SUBSET Waiter
  BY DEF TypeOK
<1>1. ASSUME NEW c \in Clients, NEW i \in Ids, NEW m \in Offered, NEW t \in CallerTimeouts,
             Submit(c, i, m, t)
      PROVE  OnceInv'
  BY <1>1, OnceSubmit
<1>2. ASSUME NEW c \in Clients, Disconnect(c)
      PROVE  OnceInv'
  BY <1>2, OnceQuiet DEF Disconnect, SourcesShrink
<1>3. ASSUME NEW c \in Clients, Accept(c) \/ Initialized(c) \/ Forward(c) \/ ClientWrite(c)
      PROVE  OnceInv'
  BY <1>3, OnceQuiet DEF Accept, Initialized, Forward, ClientWrite, SourcesShrink
<1>4. ASSUME NEW a \in answers, RouteAnswer(a)
      PROVE  OnceInv'
  <2>1. PICK r \in requests, kind \in Kinds : \E fs :
          /\ requests' = requests \ {r} /\ UNCHANGED ticket
          /\ HandOver({r} \cup fs, [kind |-> kind, version |-> a.version])
          /\ \A m \in Cacheable : waiters'[m] \subseteq waiters[m]
          /\ \A s \in fs : \E m \in Cacheable : s \in waiters[m] \ waiters'[m]
    BY <1>4, RouteAnswerServes
  <2>2. [kind |-> kind, version |-> a.version] \in Reply
    BY DEF TypeOK, Answer, Reply
  <2>3. QED
    BY <2>1, <2>2, OnceHanded DEF SourcesShrink
<1>5. CASE Expire
  <2>1. /\ requests' = requests \ StaleRequests /\ UNCHANGED ticket
        /\ \A m \in Cacheable : waiters'[m] = waiters[m] \ StaleWaiters(m)
        /\ HandOver(TimedOut, [kind |-> "timeout", version |-> 0])
    BY <1>5 DEF Expire
  <2>2. /\ StaleRequests \subseteq requests
        /\ \A m \in Cacheable : StaleWaiters(m) \subseteq waiters[m]
    BY DEF StaleRequests, StaleWaiters
  <2>3. \A s \in TimedOut : \/ s \in requests \ requests'
                            \/ \E m \in Cacheable : s \in waiters[m] \ waiters'[m]
    BY <2>1, <2>2 DEF TimedOut
  <2>4. [kind |-> "timeout", version |-> 0] \in Reply
    BY DEF Reply
  <2>5. QED
    BY <2>1, <2>3, <2>4, OnceHanded DEF SourcesShrink
<1>6. CASE ClearHandshake \/ Retire
  BY <1>6, OnceQuiet DEF ClearHandshake, Retire, ClearAll, SourcesShrink
<1>7. ASSUME \/ UpstreamStep \/ Close \/ Tick \/ UNCHANGED vars
             \/ \E a \in answers : OrphanAnswer(a)
             \/ \E n \in notices : RouteNotice(n)
      PROVE  OnceInv'
  <2>1. UNCHANGED <<requests, waiters, ticket, replies>>
    BY <1>7 DEF UpstreamStep, UpstreamAnswer, UpstreamChange, Close, Tick, OrphanAnswer, Take,
                RouteNotice
  <2>2. QED
    BY <2>1, OnceQuiet DEF SourcesShrink
<1>8. QED
  BY <1>1, <1>2, <1>3, <1>4, <1>5, <1>6, <1>7
     DEF Next, ClientStep, Submit, ClientEof, ClientWriteFails, ClientStops, RouterStep

LEMMA OnceInit ==
  ASSUME Init PROVE OnceInv
  BY DEF Init, OnceInv, Once, OneSource, Owed, Untried

LEMMA OnceIsEnough ==
  ASSUME TypeOK, OnceInv PROVE AnsweredAtMostOnce
<1> SUFFICES ASSUME NEW c \in Clients, NEW i \in Ids
             PROVE  Cardinality(Owing(c, i)) + Len(replies[c][i]) <= 1
  BY DEF AnsweredAtMostOnce
<1>1. Once(c, i)
  BY DEF OnceInv
<1>2. CASE Owing(c, i) = {}
  <2>1. Cardinality(Owing(c, i)) = 0
    BY <1>2, FS_EmptySet
  <2>2. Len(replies[c][i]) \in Nat
    BY DEF TypeOK
  <2>3. QED
    BY <1>1, <2>1, <2>2 DEF Once
<1>3. CASE Owing(c, i) # {}
  <2>1. Owed(c, i)
    BY <1>3, OwedIsOwing
  <2>2. Len(replies[c][i]) = 0
    BY <1>1, <2>1 DEF Once
  <2>3. PICK x : x \in Owing(c, i)
    BY <1>3
  <2>4. \A y \in Owing(c, i) : y = x
    BY <1>1, <2>3 DEF Once, OneSource, Owing, Of
  <2>5. Owing(c, i) = {x}
    BY <2>3, <2>4
  <2>6. Cardinality(Owing(c, i)) = 1
    BY <2>5, FS_Singleton
  <2>7. QED
    BY <2>2, <2>6
<1>4. QED
  BY <1>2, <1>3

(* Whatever answers, timeouts, disconnects and losses of the session cross *)
(* one another, a request has one reply and leaves nothing that could give *)
(* it a second (SessionRoutes.requests, RequestCache of session_cache.rs). *)
THEOREM OnceCorrect == Spec => []AnsweredAtMostOnce
<1>1. Init => TypeOK /\ OnceInv
  BY TypeInit, OnceInit
<1>2. TypeOK /\ OnceInv /\ [Next]_vars => (TypeOK /\ OnceInv)'
  BY TypeStep, OnceStep
<1>3. TypeOK /\ OnceInv => AnsweredAtMostOnce
  BY OnceIsEnough
<1>4. QED
  BY <1>1, <1>2, <1>3, PTL DEF Spec

-----------------------------------------------------------------------------
(* No early timeout: what a request waits for ends no sooner than the      *)
(* request may.                                                            *)

Due(s) == ticket[s.client][s.id].due

InTime ==
  /\ \A r \in requests : r.expires >= Due(r)
  /\ \A m \in Cacheable : \A w \in waiters[m] :
       w.expires >= Due(w) /\ deadline[m] >= Due(w) /\ InFlight(m)

LEMMA InTimeFrame ==
  ASSUME InTime, SourcesShrink, ticket' = ticket,
         \A m \in Cacheable : waiters'[m] # {} => deadline'[m] = deadline[m]
  PROVE  InTime'
<1>1. \A s : Due(s)' = Due(s)
  BY DEF Due
<1>2. ASSUME NEW m \in Cacheable, NEW w \in waiters'[m]
      PROVE  w \in waiters[m] /\ deadline'[m] = deadline[m]
  BY <1>2 DEF SourcesShrink
<1>3. QED
  BY <1>1, <1>2 DEF InTime, SourcesShrink, InFlight

(* The shared request lasts as long as its latest follower may.            *)
LEMMA InTimeSubmit ==
  ASSUME TypeOK, OnceInv, InTime, NEW c \in Clients, NEW i \in Ids, NEW m \in Offered,
         NEW t \in CallerTimeouts, Submit(c, i, m, t)
  PROVE  InTime'
<1> DEFINE due == IF m \in Cacheable THEN TransportDeadline(t) ELSE Expiration(m, t)
<1>1. /\ ~ticket[c][i].submitted
      /\ ticket'[c][i] = [submitted |-> TRUE, due |-> due, noticed |-> noticed]
      /\ \A d \in Clients, j \in Ids : (d # c \/ j # i) => ticket'[d][j] = ticket[d][j]
  <2>1. /\ ~ticket[c][i].submitted
        /\ ticket' = [ticket EXCEPT ![c][i] = [submitted |-> TRUE, due |-> due, noticed |-> noticed]]
    BY SubmitRoutes DEF Ask
  <2> HIDE DEF due
  <2>2. QED
    BY <2>1 DEF TypeOK
<1>2. ~Owed(c, i)
  BY <1>1 DEF OnceInv, Once
<1>3. m \in Methods /\ t \in Nat /\ RequestTtl \in Nat /\ SharedTimeout \in Nat /\ now \in Nat
  BY RouteAssumption DEF TypeOK
<1>4. /\ Expiration(m, t) \in Nat /\ TransportDeadline(t) \in Nat /\ TransportDeadline(t) # 0
      /\ Expiration(m, t) >= due
  <2>1. m \in Cacheable => Expiration(m, t) >= TransportDeadline(t)
    BY <1>3 DEF Expiration, TransportDeadline, Floor, Larger
  <2>2. QED
    BY <1>3, <2>1, Budgets
<1>5. \A s : Of(s, c, i) => Due(s)' = due
  BY <1>1 DEF Due, Of
<1>6. \A r \in requests : Due(r)' = Due(r)
  <2>1. \A r \in requests : r.client \in Clients /\ r.id \in Ids /\ ~Of(r, c, i)
    BY <1>2 DEF TypeOK, Pending, Owed, Of
  <2>2. QED
    BY <1>1, <2>1 DEF Due, Of
<1>7. \A n \in Cacheable : \A w \in waiters[n] : Due(w)' = Due(w)
  <2>1. \A n \in Cacheable : \A w \in waiters[n] : w.client \in Clients /\ w.id \in Ids /\ ~Of(w, c, i)
    BY <1>2 DEF TypeOK, Waiter, Owed, Of
  <2>2. QED
    BY <1>1, <2>1 DEF Due, Of
<1>8. deadline \in [Cacheable -> Nat] /\ waiters \in [Cacheable -> SUBSET Waiter]
  BY DEF TypeOK
<1> HIDE DEF due
<1>9. CASE SubmitRejected(c, i, m, t) \/ SubmitCached(c, i, m, t)
  <2>1. UNCHANGED <<requests, waiters, deadline>>
    BY <1>9 DEF SubmitRejected, SubmitCached, AnswerAtOnce
  <2>2. QED
    BY <1>6, <1>7, <2>1 DEF InTime, InFlight
<1>10. ASSUME Register(c, i, m, t)
       PROVE  \A r \in requests' : r.expires >= Due(r)'
  <2> DEFINE new == [pool_id |-> next_id, client |-> c, id |-> i, method |-> m,
                     expires |-> Expiration(m, t)]
  <2>1. requests' = requests \cup {new} /\ Of(new, c, i) /\ new.expires = Expiration(m, t)
    BY <1>10 DEF Register, Of
  <2> HIDE DEF new
  <2>2. ASSUME NEW r, r = new PROVE r.expires >= Due(r)'
    BY <1>4, <1>5, <2>1, <2>2
  <2>3. QED
    BY <1>6, <2>1, <2>2 DEF InTime
<1>11. CASE SubmitUncached(c, i, m, t)
  <2>1. Register(c, i, m, t) /\ UNCHANGED <<waiters, deadline>>
    BY <1>11 DEF SubmitUncached, Register
  <2>2. QED
    BY <1>7, <1>10, <2>1 DEF InTime, InFlight
<1>12. CASE SubmitLeader(c, i, m, t)
  <2>1. /\ Register(c, i, m, t) /\ UNCHANGED waiters
        /\ m \in Cacheable /\ ~InFlight(m)
        /\ \A n \in Cacheable \ {m} : deadline'[n] = deadline[n]
    BY <1>8, <1>12 DEF SubmitLeader, Register
  <2>2. waiters[m] = {}
    BY <2>1 DEF InTime
  <2>3. QED
    BY <1>7, <1>10, <2>1, <2>2 DEF InTime, InFlight
<1>13. CASE SubmitCoalesced(c, i, m, t)
  <2> DEFINE new == Follower(c, i, m, t)
  <2>1. /\ m \in Cacheable /\ UNCHANGED requests
        /\ waiters'[m] = waiters[m] \cup {new}
        /\ deadline'[m] = Larger(deadline[m], TransportDeadline(t))
        /\ \A n \in Cacheable \ {m} : waiters'[n] = waiters[n] /\ deadline'[n] = deadline[n]
    BY <1>8, <1>13 DEF SubmitCoalesced, Coalesce
  <2>2. /\ deadline'[m] >= deadline[m] /\ deadline'[m] >= TransportDeadline(t)
        /\ deadline'[m] # 0 /\ deadline[m] \in Nat /\ deadline'[m] \in Nat
    BY <1>4, <1>8, <2>1 DEF Larger
  <2>3. Of(new, c, i) /\ new.expires = Expiration(m, t) /\ due = TransportDeadline(t)
    BY <2>1 DEF Of, Follower, due
  <2> HIDE DEF new
  <2>4. ASSUME NEW w, w = new
        PROVE  w.expires >= Due(w)' /\ deadline'[m] >= Due(w)'
    BY <1>4, <1>5, <2>2, <2>3, <2>4
  <2>5. ASSUME NEW w \in waiters[m]
        PROVE  w.expires >= Due(w)' /\ deadline'[m] >= Due(w)'
    <3>1. deadline[m] >= Due(w) /\ w.expires >= Due(w) /\ Due(w)' = Due(w) /\ Due(w) \in Nat
      <4>1. deadline[m] >= Due(w) /\ w.expires >= Due(w) /\ Due(w)' = Due(w)
        BY <1>7, <2>1 DEF InTime
      <4>2. w.client \in Clients /\ w.id \in Ids
        BY <1>8, <2>1 DEF Waiter
      <4>3. Due(w) \in Nat
        BY <4>2 DEF TypeOK, Due
      <4>4. QED
        BY <4>1, <4>3
    <3>2. QED
      BY <2>2, <3>1
  <2>6. ASSUME NEW n \in Cacheable, NEW w \in waiters'[n]
        PROVE  w.expires >= Due(w)' /\ deadline'[n] >= Due(w)' /\ InFlight(n)'
    <3>1. CASE n = m
      BY <2>1, <2>2, <2>4, <2>5, <3>1 DEF InFlight
    <3>2. CASE n # m
      BY <1>7, <2>1, <3>2 DEF InTime, InFlight
    <3>3. QED
      BY <3>1, <3>2
  <2>7. QED
    BY <1>6, <2>1, <2>6 DEF InTime
<1>14. QED
  BY <1>9, <1>11, <1>12, <1>13 DEF Submit

LEMMA InTimeStep ==
  ASSUME TypeOK, OnceInv, InTime, [Next]_vars
  PROVE  InTime'
<1> USE DEF vars, clientVars, cacheVars, upstreamVars, historyVars
<1>1. ASSUME NEW c \in Clients, NEW i \in Ids, NEW m \in Offered, NEW t \in CallerTimeouts,
             Submit(c, i, m, t)
      PROVE  InTime'
  BY <1>1, InTimeSubmit
<1>2. ASSUME NEW c \in Clients, Disconnect(c)
      PROVE  InTime'
  BY <1>2, InTimeFrame DEF Disconnect, SourcesShrink
<1>3. ASSUME NEW c \in Clients, Accept(c) \/ Initialized(c) \/ Forward(c) \/ ClientWrite(c)
      PROVE  InTime'
  BY <1>3, InTimeFrame DEF Accept, Initialized, Forward, ClientWrite, SourcesShrink
<1>4. ASSUME NEW a \in answers, RouteAnswer(a)
      PROVE  InTime'
  <2>1. PICK r \in requests : \E kind, lifetime :
          \/ AnswerUncached(a, r, kind)
          \/ AnswerInitialize(a, r, kind)
          \/ AnswerDiscover(a, r, kind, lifetime)
          \/ AnswerTools(a, r, kind, lifetime)
    BY <1>4 DEF RouteAnswer
  <2>2. requests' \subseteq requests /\ UNCHANGED ticket
    BY <1>4, RouteAnswerTakes
  <2>3. UNCHANGED <<waiters, deadline>> \/ \E n \in Cacheable : Finish(n)
    BY <2>1 DEF AnswerUncached, AnswerInitialize, AnswerDiscover, AnswerTools, Cacheable
  <2>4. ASSUME NEW m \in Cacheable
        PROVE  /\ waiters'[m] \subseteq waiters[m]
               /\ waiters'[m] # {} => deadline'[m] = deadline[m]
    BY <2>3 DEF Finish, TypeOK
  <2>5. QED
    BY <2>2, <2>4, InTimeFrame DEF SourcesShrink
<1>5. CASE Expire
  <2>1. \A m \in Cacheable : m \in StaleLed => waiters'[m] = {}
    BY <1>5 DEF Expire, StaleWaiters
  <2>2. QED
    BY <1>5, <2>1, InTimeFrame DEF Expire, SourcesShrink
<1>6. CASE ClearHandshake \/ Retire
  BY <1>6, InTimeFrame DEF ClearHandshake, Retire, ClearAll, SourcesShrink
<1>7. ASSUME \/ UpstreamStep \/ Close \/ Tick \/ UNCHANGED vars
             \/ \E a \in answers : OrphanAnswer(a)
             \/ \E n \in notices : RouteNotice(n)
      PROVE  InTime'
  <2>1. UNCHANGED <<requests, waiters, ticket, deadline>>
    BY <1>7 DEF UpstreamStep, UpstreamAnswer, UpstreamChange, Close, Tick, OrphanAnswer, Take,
                RouteNotice
  <2>2. QED
    BY <2>1, InTimeFrame DEF SourcesShrink
<1>8. QED
  BY <1>1, <1>2, <1>3, <1>4, <1>5, <1>6, <1>7
     DEF Next, ClientStep, Submit, ClientEof, ClientWriteFails, ClientStops, RouterStep

TimesOut(c, i) ==
  replies'[c][i] # replies[c][i] /\ replies'[c][i][Len(replies'[c][i])].kind = "timeout"

(* What HandOver hands to a request is the reply, and because of a source. *)
LEMMA HandsReply ==
  ASSUME TypeOK, NEW rs, NEW reply \in Reply, HandOver(rs, reply), NEW c \in Clients, NEW i \in Ids,
         TimesOut(c, i)
  PROVE  reply.kind = "timeout" /\ \E s \in rs : Of(s, c, i)
<1>1. Open(c) /\ (\E s \in rs : Of(s, c, i)) /\ replies'[c][i] = Append(replies[c][i], reply)
  BY DEF HandOver, TimesOut, Of
<1>2. replies[c][i] \in Seq(Reply)
  BY DEF TypeOK
<1>3. replies'[c][i][Len(replies'[c][i])] = reply
  BY <1>1, <1>2
<1>4. QED
  BY <1>1, <1>3 DEF TimesOut

(* The expiration loop takes no request before its time.                   *)
LEMMA ExpireInTime ==
  ASSUME TypeOK, OnceInv, InTime, Expire, NEW c \in Clients, NEW i \in Ids, TimesOut(c, i)
  PROVE  now >= ticket[c][i].due
<1>1. now \in Nat /\ ticket[c][i].due \in Nat
  BY DEF TypeOK
<1>2. PICK s \in TimedOut : Of(s, c, i)
  <2>1. [kind |-> "timeout", version |-> 0] \in Reply
    BY DEF Reply
  <2>2. QED
    BY <2>1, HandsReply DEF Expire
<1>3. Due(s) = ticket[c][i].due
  BY <1>2 DEF Due, Of
<1>4. ASSUME NEW r \in StaleRequests
      PROVE  /\ r \in requests /\ r.expires \in Nat /\ now >= r.expires
             /\ r.method \in Cacheable /\ InFlight(r.method) => now >= deadline[r.method]
  <2>1. r \in requests /\ now >= ExpirationOf(r)
    BY DEF StaleRequests
  <2>2. r.expires \in Nat /\ (r.method \in Cacheable => deadline[r.method] \in Nat)
    BY <2>1 DEF TypeOK, Pending
  <2>3. QED
    BY <1>1, <2>1, <2>2 DEF ExpirationOf, Larger
<1>5. CASE s \in StaleRequests
  <2>1. s.expires >= ticket[c][i].due
    BY <1>3, <1>4, <1>5 DEF InTime
  <2>2. QED
    BY <1>1, <1>4, <1>5, <2>1
<1>6. ASSUME NEW m \in Cacheable, s \in StaleWaiters(m)
      PROVE  now >= ticket[c][i].due
  <2>1. s \in waiters[m]
    BY <1>6 DEF StaleWaiters
  <2>2. /\ s.expires >= ticket[c][i].due /\ deadline[m] >= ticket[c][i].due /\ InFlight(m)
        /\ s.expires \in Nat /\ deadline[m] \in Nat
    BY <1>3, <2>1 DEF InTime, TypeOK, Waiter
  <2>3. CASE m \in StaleLed
    <3>1. PICK r \in StaleRequests : r.method = m
      BY <2>3 DEF StaleLed
    <3>2. now >= deadline[m]
      BY <1>4, <2>2, <3>1
    <3>3. QED
      BY <1>1, <2>2, <3>2
  <2>4. CASE m \notin StaleLed
    <3>1. now >= s.expires
      BY <1>6, <2>4 DEF StaleWaiters
    <3>2. QED
      BY <1>1, <2>2, <3>1
  <2>5. QED
    BY <2>3, <2>4
<1>7. QED
  BY <1>2, <1>5, <1>6 DEF TimedOut

LEMMA EarlyStep ==
  ASSUME TypeOK, OnceInv, InTime, [Next]_vars, NEW c \in Clients, NEW i \in Ids, TimesOut(c, i)
  PROVE  now >= ticket[c][i].due
<1> USE DEF vars, clientVars, cacheVars, upstreamVars, historyVars
<1>1. ASSUME NEW d \in Clients, NEW j \in Ids, NEW reply, AnswerAtOnce(d, j, reply)
      PROVE  reply.kind = "timeout"
  <2>1. replies' = [replies EXCEPT ![d][j] = Append(@, reply)]
    BY <1>1 DEF AnswerAtOnce
  <2>2. d = c /\ j = i
    BY <2>1 DEF TimesOut, TypeOK
  <2>3. replies'[c][i] = Append(replies[c][i], reply) /\ replies[c][i] \in Seq(Reply)
    BY <2>1, <2>2 DEF TypeOK
  <2>4. replies'[c][i][Len(replies'[c][i])] = reply
    BY <2>3
  <2>5. QED
    BY <2>4 DEF TimesOut
<1>2. ASSUME NEW d \in Clients, NEW j \in Ids, NEW m \in Offered, NEW t \in CallerTimeouts,
             Submit(d, j, m, t)
      PROVE  FALSE
  <2>1. replies' # replies
    BY DEF TimesOut
  <2>2. PICK reply : AnswerAtOnce(d, j, reply) /\ reply.kind \in {"rejected", "result"}
    <3> DEFINE no == [kind |-> "rejected", version |-> 0]
               known == [kind |-> "result", version |-> cached[m].version]
    <3>1. no.kind = "rejected" /\ known.kind = "result"
      OBVIOUS
    <3>2. AnswerAtOnce(d, j, no) \/ AnswerAtOnce(d, j, known)
      BY <1>2, <2>1 DEF Submit, SubmitRejected, SubmitCached, SubmitCoalesced, SubmitLeader,
                        SubmitUncached, Register
    <3> HIDE DEF no, known
    <3>3. QED
      BY <3>1, <3>2
  <2>3. QED
    BY <1>1, <2>2
<1>3. ASSUME NEW a \in answers, RouteAnswer(a)
      PROVE  FALSE
  <2>1. PICK kind \in Kinds : \E rs : HandOver(rs, [kind |-> kind, version |-> a.version])
    BY <1>3, RouteAnswerServes
  <2>2. [kind |-> kind, version |-> a.version] \in Reply
    BY DEF TypeOK, Answer, Reply
  <2>3. kind = "timeout"
    BY <2>1, <2>2, HandsReply
  <2>4. QED
    BY <2>3 DEF Kinds
<1>4. CASE Expire
  BY <1>4, ExpireInTime
<1>5. replies' # replies
  BY DEF TimesOut
<1>6. ASSUME NEW d \in Clients,
             Accept(d) \/ Initialized(d) \/ Forward(d) \/ ClientWrite(d) \/ Disconnect(d)
      PROVE  FALSE
  BY <1>5, <1>6 DEF Accept, Initialized, Forward, ClientWrite, Disconnect
<1>7. ASSUME \/ UpstreamStep \/ ClearHandshake \/ Close \/ Retire \/ Tick \/ UNCHANGED vars
             \/ \E a \in answers : OrphanAnswer(a)
             \/ \E n \in notices : RouteNotice(n)
      PROVE  FALSE
  BY <1>5, <1>7 DEF UpstreamStep, UpstreamAnswer, UpstreamChange, ClearHandshake, Close, Retire,
                    Tick, OrphanAnswer, Take, RouteNotice
<1>8. QED
  BY <1>2, <1>3, <1>4, <1>6, <1>7
     DEF Next, ClientStep, Submit, ClientEof, ClientWriteFails, ClientStops, RouterStep

(* No request times out before the budget of its caller, or of the backend *)
(* if that is larger, is over, whoever led the request it waited for       *)
(* (request_deadline.rs, socket_proxy_cache.rs).                           *)
THEOREM TimeoutCorrect == Spec => NoEarlyTimeout
<1> DEFINE All == TypeOK /\ OnceInv /\ InTime
<1>1. Init => All
  BY TypeInit, OnceInit DEF Init, InTime
<1>2. All /\ [Next]_vars => All'
  BY TypeStep, OnceStep, InTimeStep
<1>3. All /\ [Next]_vars =>
        [\A c \in Clients, i \in Ids :
           replies'[c][i] # replies[c][i] /\ replies'[c][i][Len(replies'[c][i])].kind = "timeout"
             => now >= ticket[c][i].due]_vars
  BY EarlyStep DEF TimesOut
<1>4. QED
  BY <1>1, <1>2, <1>3, PTL DEF Spec, NoEarlyTimeout

-----------------------------------------------------------------------------
(* One completion of the handshake.                                        *)

Senders == {c \in Clients : forward[c].kind = "initialized"}

(* The handshake that is retained stays so until it is cleared.            *)
Lasting ==
  /\ now <= Horizon
  /\ cached[Initialize].until \in {0, Horizon + 1}
  /\ \A c \in Clients : ~Open(c) => forward[c] = Idle

(* Nothing is sent before the result, nor after it until one notification  *)
(* is let through; then one client has it, or it has been sent.            *)
Handshake ==
  /\ InFlight(Initialize) => ~Ready
  /\ ~(Ready /\ notification_forwarded) => initialized_sent = 0 /\ Senders = {}
  /\ initialized_sent > 0 => Senders = {}
  /\ initialized_sent <= 1
  /\ \A c, d \in Senders : c = d

HandshakeInv == Lasting /\ (recovery = "none" => Handshake)

LEMMA LastingReady ==
  ASSUME TypeOK, Lasting PROVE Ready <=> cached[Initialize].until = Horizon + 1
  BY RouteAssumption DEF TypeOK, Lasting, Ready, Retained

LEMMA HandshakeFrame ==
  ASSUME TypeOK, HandshakeInv, Lasting', recovery' = "none" => recovery = "none",
         UNCHANGED <<initialized_sent, notification_forwarded>>, Senders' \subseteq Senders,
         Ready' = Ready, InFlight(Initialize)' => InFlight(Initialize) \/ ~Ready
  PROVE  HandshakeInv'
  BY DEF HandshakeInv, Handshake

LEMMA LastingStep ==
  ASSUME TypeOK, Lasting, [Next]_vars
  PROVE  Lasting'
<1> USE DEF vars, clientVars, cacheVars, upstreamVars, historyVars
<1>1. ASSUME now' <= Horizon,
             cached'[Initialize].until = cached[Initialize].until
               \/ cached'[Initialize].until \in {0, Horizon + 1},
             \A c \in Clients : ~Open(c)' => forward'[c] = Idle
      PROVE  Lasting'
  BY <1>1 DEF Lasting
<1>2. /\ DOMAIN cached = Cacheable /\ DOMAIN forward = Clients /\ DOMAIN clients = Clients
      /\ Initialize \in Cacheable /\ Initialize # ToolsList /\ Initialize # ServerDiscover
  BY DEF TypeOK, Cacheable, Initialize, ToolsList, ServerDiscover
<1>3. now <= Horizon /\ \A c \in Clients : ~Open(c) => forward[c] = Idle
  BY DEF Lasting
<1>4. ASSUME NEW c \in Clients, NEW i \in Ids, NEW m \in Offered, NEW t \in CallerTimeouts,
             Submit(c, i, m, t)
      PROVE  Lasting'
  <2>1. Open(c) /\ UNCHANGED <<now, clients, cached>>
    BY <1>4 DEF Submit, SubmitRejected, SubmitCached, SubmitCoalesced, SubmitLeader,
                SubmitUncached, AnswerAtOnce, Register, Ask, Read
  <2>2. \A d \in Clients \ {c} : forward'[d] = forward[d]
    BY <1>2, <1>4, SubmitRoutes DEF Register
  <2>3. QED
    BY <1>1, <1>3, <2>1, <2>2 DEF Open
<1>5. ASSUME NEW c \in Clients, Accept(c) \/ Disconnect(c) \/ Forward(c) \/ ClientWrite(c)
      PROVE  Lasting'
  <2>1. UNCHANGED <<now, cached>>
    BY <1>5 DEF Accept, Disconnect, Forward, ClientWrite
  <2>2. ASSUME NEW d \in Clients, ~Open(d)' PROVE forward'[d] = Idle
    <3>1. CASE Accept(c)
      BY <1>2, <1>3, <2>2, <3>1 DEF Accept, Open
    <3>2. CASE Disconnect(c)
      BY <1>2, <1>3, <2>2, <3>2 DEF Disconnect, Open
    <3>3. CASE Forward(c) \/ ClientWrite(c)
      <4>1. UNCHANGED clients /\ forward' \in {forward, [forward EXCEPT ![c] = Idle]}
        BY <3>3 DEF Forward, ClientWrite
      <4>2. forward[d] = Idle
        BY <1>3, <2>2, <4>1 DEF Open
      <4>3. QED
        BY <1>2, <4>1, <4>2
    <3>4. QED
      BY <1>5, <3>1, <3>2, <3>3
  <2>3. QED
    BY <1>1, <1>3, <2>1, <2>2
<1>6. ASSUME NEW c \in Clients, Initialized(c)
      PROVE  Lasting'
  <2>1. /\ Open(c) /\ UNCHANGED <<now, cached, clients>>
        /\ \A d \in Clients \ {c} : forward'[d] = forward[d]
    BY <1>2, <1>6 DEF Initialized, Read
  <2>2. QED
    BY <1>1, <1>3, <2>1 DEF Open
<1>7. ASSUME NEW a \in answers, RouteAnswer(a)
      PROVE  Lasting'
  <2>1. PICK r \in requests : \E kind, lifetime :
          \/ AnswerUncached(a, r, kind)
          \/ AnswerInitialize(a, r, kind)
          \/ AnswerDiscover(a, r, kind, lifetime)
          \/ AnswerTools(a, r, kind, lifetime)
    BY <1>7 DEF RouteAnswer
  <2>2. UNCHANGED <<now, clients, forward>>
    BY <1>7, RouteAnswerTakes
  <2>3. PICK kind, lifetime :
          \/ AnswerUncached(a, r, kind)
          \/ AnswerInitialize(a, r, kind)
          \/ AnswerDiscover(a, r, kind, lifetime)
          \/ AnswerTools(a, r, kind, lifetime)
    BY <2>1
  <2>4. CASE AnswerInitialize(a, r, kind)
    <3>1. cached' = cached \/ cached'[Initialize].until = Horizon + 1
      BY <1>2, <2>4 DEF AnswerInitialize, Retain
    <3>2. QED
      BY <1>1, <1>3, <2>2, <3>1 DEF Open
  <2>5. CASE ~AnswerInitialize(a, r, kind)
    <3>1. cached'[Initialize] = cached[Initialize]
      BY <1>2, <2>3, <2>5 DEF AnswerUncached, AnswerDiscover, AnswerTools, Retain
    <3>2. QED
      BY <1>1, <1>3, <2>2, <3>1 DEF Open
  <2>6. QED
    BY <2>4, <2>5
<1>8. ASSUME NEW n \in notices, RouteNotice(n)
      PROVE  Lasting'
  <2>1. cached'[Initialize] = cached[Initialize] /\ UNCHANGED <<now, clients, forward>>
    BY <1>2, <1>8 DEF RouteNotice, Retain
  <2>2. QED
    BY <1>1, <1>3, <2>1 DEF Open
<1>9. CASE ClearHandshake \/ Retire
  <2>1. cached'[Initialize].until = 0 /\ UNCHANGED <<now, clients, forward>>
    BY <1>2, <1>9 DEF ClearHandshake, Retire, ClearAll, NoResult
  <2>2. QED
    BY <1>1, <1>3, <2>1 DEF Open
<1>10. CASE Tick
  BY <1>1, <1>3, <1>10, RouteAssumption DEF Tick, Open, TypeOK
<1>11. ASSUME \/ Expire \/ UpstreamStep \/ Close \/ UNCHANGED vars
              \/ \E a \in answers : OrphanAnswer(a)
       PROVE  Lasting'
  BY <1>1, <1>3, <1>11 DEF Expire, UpstreamStep, UpstreamAnswer, UpstreamChange, Close,
                           OrphanAnswer, Take, Open
<1>12. QED
  BY <1>4, <1>5, <1>6, <1>7, <1>8, <1>9, <1>10, <1>11
     DEF Next, ClientStep, Submit, ClientEof, ClientWriteFails, ClientStops, RouterStep

LEMMA HandshakeClient ==
  ASSUME TypeOK, TypeOK', HandshakeInv, Lasting', NEW c \in Clients, ClientStep(c)
  PROVE  HandshakeInv'
<1> USE DEF clientVars, cacheVars, upstreamVars, historyVars
<1>1. /\ DOMAIN forward = Clients /\ Initialize \in Cacheable
      /\ deadline \in [Cacheable -> Nat] /\ initialized_sent \in Nat
      /\ Idle.kind = "idle" /\ \A kind, p : Carry(kind, p).kind = kind
  BY DEF TypeOK, Cacheable, Idle, Carry
<1>2. UNCHANGED <<now, cached>> => Ready' = Ready
  BY DEF Ready, Retained
<1>3. ASSUME NEW i \in Ids, NEW m \in Offered, NEW t \in CallerTimeouts, Submit(c, i, m, t)
      PROVE  HandshakeInv'
  <2>1. UNCHANGED <<now, cached, recovery, initialized_sent, notification_forwarded>>
    BY <1>3 DEF Submit, SubmitRejected, SubmitCached, SubmitCoalesced, SubmitLeader,
                SubmitUncached, AnswerAtOnce, Register, Ask
  <2>2. Senders' \subseteq Senders
    <3>1. forward' \in {forward, [forward EXCEPT ![c] = Carry("request", next_id)]}
      BY <1>3, SubmitRoutes DEF Register
    <3>2. QED
      BY <1>1, <3>1 DEF Senders
  <2>3. InFlight(Initialize)' => InFlight(Initialize) \/ ~Ready
    <3>1. CASE m = Initialize
      BY <1>3, <3>1 DEF Submit, SubmitRejected, SubmitCached, SubmitCoalesced, SubmitLeader,
                        SubmitUncached, AnswerAtOnce, InFlight, Ready
    <3>2. CASE m # Initialize
      BY <1>1, <1>3, <3>2 DEF Submit, SubmitRejected, SubmitCached, SubmitCoalesced, Coalesce,
                              SubmitLeader, SubmitUncached, AnswerAtOnce, InFlight
    <3>3. QED
      BY <3>1, <3>2
  <2>4. QED
    BY <1>2, <2>1, <2>2, <2>3, HandshakeFrame
<1>4. CASE Initialized(c)
  <2>1. /\ ~(Ready /\ notification_forwarded) /\ notification_forwarded' = Ready
        /\ forward' = [forward EXCEPT
                         ![c] = Carry(IF Ready THEN "initialized" ELSE "notification", 0)]
        /\ UNCHANGED <<now, cached, deadline, recovery, initialized_sent>>
    BY <1>4 DEF Initialized, Swallowed
  <2>2. CASE recovery = "none"
    <3>1. initialized_sent = 0 /\ Senders = {} /\ (InFlight(Initialize) => ~Ready)
      BY <2>1, <2>2 DEF HandshakeInv, Handshake
    <3>2. Ready' = Ready /\ InFlight(Initialize)' = InFlight(Initialize)
      BY <1>2, <2>1 DEF InFlight
    <3>3. Senders' = IF Ready THEN {c} ELSE {}
      BY <1>1, <2>1, <3>1 DEF Senders
    <3>4. QED
      BY <2>1, <3>1, <3>2, <3>3 DEF HandshakeInv, Handshake
  <2>3. QED
    BY <2>1, <2>2 DEF HandshakeInv
<1>5. CASE Forward(c)
  <2>1. /\ forward' = [forward EXCEPT ![c] = Idle]
        /\ UNCHANGED <<now, cached, deadline, recovery, notification_forwarded>>
        /\ initialized_sent' = IF forward[c].kind = "initialized" /\ ~shutdown
                               THEN initialized_sent + 1 ELSE initialized_sent
    BY <1>5 DEF Forward
  <2>2. Senders' = Senders \ {c}
    BY <1>1, <2>1 DEF Senders
  <2>3. Ready' = Ready /\ InFlight(Initialize)' = InFlight(Initialize)
    BY <1>2, <2>1 DEF InFlight
  <2>4. CASE forward[c].kind # "initialized" \/ recovery # "none"
    BY <2>1, <2>2, <2>3, <2>4, HandshakeFrame DEF HandshakeInv
  <2>5. CASE forward[c].kind = "initialized" /\ recovery = "none"
    <3>1. c \in Senders
      BY <2>5 DEF Senders
    <3>2. /\ Ready /\ notification_forwarded /\ initialized_sent = 0 /\ Senders = {c}
          /\ ~InFlight(Initialize)
      BY <1>1, <2>5, <3>1 DEF HandshakeInv, Handshake
    <3>3. Senders' = {} /\ initialized_sent' \in {0, 1}
      BY <2>1, <2>2, <3>2
    <3>4. QED
      BY <2>1, <2>3, <3>2, <3>3 DEF HandshakeInv, Handshake
  <2>6. QED
    BY <2>4, <2>5
<1>6. CASE Accept(c) \/ ClientWrite(c) \/ Disconnect(c)
  <2>1. /\ forward' \in {forward, [forward EXCEPT ![c] = Idle]}
        /\ UNCHANGED <<now, cached, deadline, recovery, notification_forwarded, initialized_sent>>
    BY <1>6 DEF Accept, ClientWrite, Disconnect
  <2>2. Senders' \subseteq Senders
    BY <1>1, <2>1 DEF Senders
  <2>3. QED
    BY <1>2, <2>1, <2>2, HandshakeFrame DEF InFlight
<1>7. QED
  BY <1>3, <1>4, <1>5, <1>6 DEF ClientStep, Submit, ClientEof, ClientWriteFails, ClientStops

(* The result comes while nothing was let through.                         *)
LEMMA HandshakeComplete ==
  ASSUME TypeOK, TypeOK', FollowersHaveOneLeader, HandshakeInv, Lasting',
         NEW a \in answers, RouteAnswer(a)
  PROVE  HandshakeInv'
<1> USE DEF cacheVars
<1>1. PICK r \in requests : \E kind, lifetime :
        \/ AnswerUncached(a, r, kind)
        \/ AnswerInitialize(a, r, kind)
        \/ AnswerDiscover(a, r, kind, lifetime)
        \/ AnswerTools(a, r, kind, lifetime)
  BY DEF RouteAnswer
<1>2. PICK kind, lifetime :
        \/ AnswerUncached(a, r, kind)
        \/ AnswerInitialize(a, r, kind)
        \/ AnswerDiscover(a, r, kind, lifetime)
        \/ AnswerTools(a, r, kind, lifetime)
  BY <1>1
<1>3. UNCHANGED <<now, forward>> /\ (recovery' = "none" => recovery = "none")
  BY RouteAnswerTakes
<1>4. /\ DOMAIN cached = Cacheable /\ deadline \in [Cacheable -> Nat]
      /\ Initialize \in Cacheable /\ Initialize # ToolsList /\ Initialize # ServerDiscover
  BY DEF TypeOK, Cacheable, Initialize, ToolsList, ServerDiscover
<1>5. Senders' = Senders
  BY <1>3 DEF Senders
<1>6. CASE AnswerInitialize(a, r, kind)
  <2>1. r.method = Initialize /\ Finish(Initialize)
    BY <1>6 DEF AnswerInitialize
  <2>2. CASE recovery = "none"
    <3>1. InFlight(Initialize)
      BY <1>4, <2>1, <2>2 DEF FollowersHaveOneLeader, OneLeader
    <3>2. ~Ready /\ initialized_sent = 0 /\ Senders = {}
      BY <2>2, <3>1 DEF HandshakeInv, Handshake
    <3>3. ~InFlight(Initialize)' /\ initialized_sent' = 0
      BY <1>4, <1>6, <2>1, <3>2 DEF AnswerInitialize, Finish, InFlight
    <3>4. QED
      BY <1>5, <3>2, <3>3 DEF HandshakeInv, Handshake
  <2>3. QED
    BY <1>3, <2>2 DEF HandshakeInv
<1>7. CASE ~AnswerInitialize(a, r, kind)
  <2>1. /\ cached'[Initialize] = cached[Initialize] /\ deadline'[Initialize] = deadline[Initialize]
        /\ UNCHANGED <<initialized_sent, notification_forwarded>>
    BY <1>2, <1>4, <1>7 DEF AnswerUncached, AnswerDiscover, AnswerTools, Retain, Finish
  <2>2. Ready' = Ready /\ InFlight(Initialize)' = InFlight(Initialize)
    BY <1>3, <2>1 DEF Ready, Retained, InFlight
  <2>3. QED
    BY <1>3, <1>5, <2>1, <2>2, HandshakeFrame
<1>8. QED
  BY <1>6, <1>7

LEMMA HandshakeStep ==
  ASSUME TypeOK, TypeOK', FollowersHaveOneLeader, HandshakeInv, [Next]_vars
  PROVE  HandshakeInv'
<1> USE DEF vars, clientVars, cacheVars, upstreamVars, historyVars
<1>1. Lasting'
  BY LastingStep DEF HandshakeInv
<1>2. /\ DOMAIN cached = Cacheable /\ Initialize \in Cacheable /\ Initialize # ToolsList
      /\ DOMAIN forward = Clients
  BY DEF TypeOK, Cacheable, Initialize, ToolsList
<1>3. (Ready <=> cached[Initialize].until = Horizon + 1)
      /\ (Ready' <=> cached'[Initialize].until = Horizon + 1)
  <2>1. Lasting /\ now \in Nat /\ now' \in Nat /\ Horizon \in Nat
    BY RouteAssumption DEF HandshakeInv, TypeOK
  <2>2. QED
    BY <1>1, <2>1 DEF Lasting, Ready, Retained
<1>4. ASSUME NEW c \in Clients, ClientStep(c)
      PROVE  HandshakeInv'
  BY <1>1, <1>4, HandshakeClient
<1>5. ASSUME NEW a \in answers, RouteAnswer(a)
      PROVE  HandshakeInv'
  BY <1>1, <1>5, HandshakeComplete
<1>6. CASE ClearHandshake
  BY <1>1, <1>6 DEF ClearHandshake, HandshakeInv
<1>7. CASE Retire
  <2>1. /\ ~InFlight(Initialize)' /\ initialized_sent' = 0
        /\ Senders' = {}
    <3>1. \A c \in Clients : forward'[c] = Idle
      BY <1>7 DEF Retire, HandshakeInv, Lasting
    <3>2. QED
      BY <1>2, <1>7, <3>1 DEF Retire, ClearAll, InFlight, Senders, Idle, Carry
  <2>2. QED
    BY <1>1, <2>1 DEF HandshakeInv, Handshake
<1>8. ASSUME \/ Expire \/ UpstreamStep \/ Close \/ Tick \/ UNCHANGED vars
             \/ \E a \in answers : OrphanAnswer(a)
             \/ \E n \in notices : RouteNotice(n)
      PROVE  HandshakeInv'
  <2>1. /\ UNCHANGED <<forward, recovery, initialized_sent, notification_forwarded>>
        /\ cached'[Initialize] = cached[Initialize]
        /\ InFlight(Initialize)' => InFlight(Initialize)
    BY <1>2, <1>8 DEF Expire, UpstreamStep, UpstreamAnswer, UpstreamChange, Close, Tick,
                      OrphanAnswer, Take, RouteNotice, Retain, InFlight
  <2>2. Senders' = Senders /\ Ready' = Ready
    <3>1. Ready' <=> Ready
      BY <1>3, <2>1
    <3>2. Ready \in BOOLEAN /\ Ready' \in BOOLEAN
      BY DEF Ready, Retained
    <3>3. Ready' = Ready
      BY <3>1, <3>2, Zenon
    <3>4. QED
      BY <2>1, <3>3 DEF Senders
  <2>3. QED
    BY <1>1, <2>1, <2>2, HandshakeFrame
<1>9. QED
  BY <1>4, <1>5, <1>6, <1>7, <1>8 DEF Next, RouterStep

LEMMA HandshakeIsEnough ==
  ASSUME TypeOK, HandshakeInv PROVE InitializedAtMostOnce
<1> SUFFICES ASSUME recovery = "none"
             PROVE  initialized_sent + Cardinality(Senders) <= 1
  BY DEF InitializedAtMostOnce, Senders
<1>1. Handshake /\ initialized_sent \in Nat
  BY DEF HandshakeInv, TypeOK
<1>2. CASE Senders = {}
  BY <1>1, <1>2, FS_EmptySet DEF Handshake
<1>3. CASE Senders # {}
  <2>0. PICK c : c \in Senders
    BY <1>3
  <2>1. Senders = {c}
    BY <1>1, <2>0 DEF Handshake
  <2>2. Cardinality(Senders) = 1
    BY <2>1, FS_Singleton
  <2>3. QED
    BY <1>1, <1>3, <2>2 DEF Handshake
<1>4. QED
  BY <1>2, <1>3

(* Between two results of initialize at most one notifications/initialized *)
(* is sent or about to be, whichever clients say it and whenever           *)
(* (mcp_session.rs, swallow_initialized).                                  *)
THEOREM InitializedCorrect == Spec => []InitializedAtMostOnce
<1> DEFINE All == TypeOK /\ FollowersHaveOneLeader /\ HandshakeInv
<1>1. Init => All
  <2>1. ASSUME Init PROVE HandshakeInv
    <3>1. /\ now = 0 /\ cached[Initialize].until = 0
          /\ \A c \in Clients : forward[c] = Idle
          /\ deadline[Initialize] = 0 /\ initialized_sent = 0
      BY <2>1 DEF Init, NoResult, Cacheable
    <3>2. Lasting
      BY <3>1, RouteAssumption DEF Lasting
    <3>3. Senders = {}
      BY <3>1 DEF Senders, Idle, Carry
    <3>4. QED
      BY <3>1, <3>2, <3>3 DEF HandshakeInv, Handshake, InFlight
  <2>2. QED
    BY <2>1, TypeInit, LeaderInit
<1>2. All /\ [Next]_vars => All'
  BY TypeStep, LeaderStep, HandshakeStep
<1>3. All => InitializedAtMostOnce
  BY HandshakeIsEnough
<1>4. QED
  BY <1>1, <1>2, <1>3, PTL DEF Spec
=============================================================================
