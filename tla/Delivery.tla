------------------------------ MODULE Delivery ------------------------------
(***************************************************************************)
(* How a generation delivers messages: the router hands what the server    *)
(* sends to the clients' bounded queues, the expiration loop adds timeout  *)
(* answers, each client task writes its queue to a socket and reads lines  *)
(* from it, and a shutdown bounds them all.                                *)
(*                                                                         *)
(* A message from the server is its kind and the clients it is for; what a *)
(* client is sent is a number that grows in the order of the server's      *)
(* output.  A client's line comes in two pieces, its odd and its even      *)
(* ones.  Clients that never read are among the clients.                   *)
(***************************************************************************)
EXTENDS Integers, Sequences, FiniteSets, SequencesExt

CONSTANTS
    DeliveryClients,    \* the clients of the generation
    QueueLimit,         \* the capacity of a client's queue
    MaxInput            \* bound: lines a client sends

ASSUME DeliveryAssumption ==
    /\ IsFiniteSet(DeliveryClients)
    /\ QueueLimit \in Nat \ {0} /\ MaxInput \in Nat

VARIABLES
    peers,              \* the clients, their tasks, queues and sockets
    output,             \* what the server has yet to send, and the next number
    router,             \* the message being routed
    expiration,         \* the timeout answers being delivered
    closing,            \* how far the shutdown of the generation is
    lastActive          \* the client whose request was forwarded last

deliveryVars == <<peers, output, router, expiration, closing, lastActive>>

Nobody == "nobody"
TimedOut == 0                    \* the number of every timeout answer
Numbers == Nat
Messages == [kind : {"answer", "sampling", "callback", "notice"}, for : Seq(DeliveryClients)]
Sending == Seq(DeliveryClients \X Numbers)

DeliveryTypeOK ==
  /\ \A c \in DeliveryClients :
       /\ peers[c].task \in {"away", "serving", "writing", "draining", "left"}
       /\ peers[c].reads \in BOOLEAN /\ peers[c].capable \in BOOLEAN
       /\ peers[c].queue \in Seq(Numbers) /\ Len(peers[c].queue) <= QueueLimit
       /\ peers[c].wire \in Seq(Numbers) /\ peers[c].socket \in Seq(Numbers)
       /\ peers[c].got \in Seq(Numbers)
       /\ peers[c].lines \in 0..MaxInput /\ peers[c].taken <= peers[c].written /\ peers[c].written \in 0..(2 * MaxInput)
       /\ peers[c].partial \in BOOLEAN /\ peers[c].whole \in BOOLEAN
  /\ output.left \in Seq(Messages) /\ output.next \in Numbers
  /\ router.at \in {"idle", "refusing", "trying", "holding"}
  /\ router.todo \in Sending /\ router.held \in Sending
  /\ expiration.at \in {"idle", "holding", "left"} /\ expiration.held \in Sending
  /\ closing \in {"open", "closed", "joining", "aborted", "over"}
  /\ lastActive \in DeliveryClients \cup {Nobody}

NoRoute == [at |-> "idle", todo |-> <<>>, held |-> <<>>]

\* A scene is what the server sends and which clients read, write and have the
\* capability that some callbacks need.
DeliveryInit(scenes) ==
  /\ \E scene \in scenes :
       /\ output = [left |-> scene.messages, next |-> 1]
       /\ peers = [c \in DeliveryClients |->
            [task |-> "away", reads |-> c \in scene.readers, capable |-> c \in scene.capable,
             lines |-> IF c \in scene.writers THEN MaxInput ELSE 0, written |-> 0, taken |-> 0,
             partial |-> FALSE, whole |-> TRUE,
             queue |-> <<>>, wire |-> <<>>, socket |-> <<>>, got |-> <<>>]]
  /\ router = NoRoute
  /\ expiration = [at |-> "idle", held |-> <<>>]
  /\ closing = "open"
  /\ lastActive = Nobody

---------------------------------------------------------------------------
Present == {c \in DeliveryClients : peers[c].task \notin {"away", "left"}}
FullTooLate(c) == Len(peers[c].queue) > QueueLimit
Full(c) == Len(peers[c].queue) = QueueLimit
Push(c, number) == peers' = [peers EXCEPT ![c].queue = Append(@, number)]

\* A task that ends drops its queue and its socket.
Gone(p) == [p EXCEPT !.task = "left", !.lines = 0, !.written = 0, !.taken = 0, !.partial = FALSE,
                     !.queue = <<>>, !.wire = <<>>, !.socket = <<>>, !.got = <<>>]

\* accept_loop
Accept(c) ==
  /\ closing = "open" /\ peers[c].task = "away"
  /\ peers' = [peers EXCEPT ![c].task = "serving"]
  /\ UNCHANGED <<output, router, expiration, closing, lastActive>>

---------------------------------------------------------------------------
\* The router takes the next message and looks for its recipients: an answer has
\* its own, a callback goes to the last active client if it will do and to any
\* other that will, a notice goes to all.  A callback that needs a capability
\* which no client has is refused.
Suitable(kind) == IF kind = "sampling" THEN {c \in Present : peers[c].capable} ELSE Present
Targets(kind) == IF lastActive \in Suitable(kind) THEN {lastActive} ELSE Suitable(kind)
Recipients(m) ==
  CASE m.kind = "answer" -> {m.for}
    [] m.kind = "notice" -> SetToSeqs(Present)
    [] OTHER -> {<<c>> : c \in Targets(m.kind)}

RouterTake ==
  /\ closing = "open" /\ router.at = "idle" /\ output.left # <<>>
  /\ LET m == Head(output.left) IN
     \/ \E to \in Recipients(m) :
          /\ router' = [at |-> "trying", held |-> <<>>,
                        todo |-> [i \in DOMAIN to |-> <<to[i], output.next + i - 1>>]]
          /\ output' = [left |-> Tail(output.left), next |-> output.next + Len(to)]
     \/ /\ Recipients(m) = {}
        /\ router' = [NoRoute EXCEPT !.at = IF m.kind = "sampling" THEN "refusing" ELSE "idle"]
        /\ output' = [output EXCEPT !.left = Tail(@)]
  /\ UNCHANGED <<peers, expiration, closing, lastActive>>

\* The refusal waits for room in the upstream's queue, which may never come.
RouterRefuses ==
  /\ router.at = "refusing"
  /\ router' = NoRoute
  /\ UNCHANGED <<peers, output, expiration, closing, lastActive>>

\* One try for each recipient; what does not fit is held back, and so is what
\* follows it for the same client.
UnblockedAgain(held, c) == FALSE
Blocked(held, c) == \E i \in DOMAIN held : held[i][1] = c

Sweep(items, held, here) ==
  LET c == Head(items)[1] IN
  IF c \in here /\ (Blocked(held, c) \/ Full(c)) THEN Append(held, Head(items)) ELSE held

RouterTry ==
  /\ router.at = "trying"
  /\ IF router.todo = <<>>
     THEN router' = [router EXCEPT !.at = "holding"] /\ UNCHANGED peers
     ELSE LET c == Head(router.todo)[1]
              held == Sweep(router.todo, router.held, Present)
          IN  /\ router' = [router EXCEPT !.todo = Tail(@), !.held = held]
              /\ IF c \in Present /\ held = router.held
                 THEN Push(c, Head(router.todo)[2]) ELSE UNCHANGED peers
  /\ UNCHANGED <<output, expiration, closing, lastActive>>

\* Then it waits for room, for one held message after the other.
RouterSend ==
  /\ router.at = "holding"
  /\ IF router.held = <<>>
     THEN router' = NoRoute /\ UNCHANGED peers
     ELSE LET c == Head(router.held)[1] IN
          /\ router' = [router EXCEPT !.held = Tail(@)]
          /\ IF c \in Present THEN ~Full(c) /\ Push(c, Head(router.held)[2]) ELSE UNCHANGED peers
  /\ UNCHANGED <<output, expiration, closing, lastActive>>

\* The expiration loop answers the requests whose time is up; it tries each client
\* and then waits, for a quarter of a second each, for those with a full queue.
Expire ==
  /\ closing = "open" /\ expiration.at = "idle"
  /\ \E late \in SUBSET Present \ {{}} :
       /\ peers' = [c \in DeliveryClients |->
            IF c \in late /\ ~Full(c)
            THEN [peers[c] EXCEPT !.queue = Append(@, TimedOut)] ELSE peers[c]]
       /\ \E order \in SetToSeqs({c \in late : Full(c)}) :
            expiration' = [at |-> "holding", held |-> [i \in DOMAIN order |-> <<order[i], TimedOut>>]]
  /\ UNCHANGED <<output, router, closing, lastActive>>

DeliverMessage ==
  /\ expiration.at = "holding"
  /\ IF expiration.held = <<>>
     THEN expiration' = [expiration EXCEPT !.at = "left"] /\ UNCHANGED peers
     ELSE LET c == Head(expiration.held)[1] IN
          /\ expiration' = [expiration EXCEPT !.held = Tail(@)]
          /\ UNCHANGED peers \/ (c \in Present /\ ~Full(c) /\ Push(c, TimedOut))
  /\ UNCHANGED <<output, router, closing, lastActive>>

---------------------------------------------------------------------------
\* The client writes a piece of a line, reads what it was sent, or goes away.
ClientWrites(c) ==
  /\ c \in Present /\ peers[c].written < 2 * peers[c].lines
  /\ peers' = [peers EXCEPT ![c].written = @ + 1]
  /\ UNCHANGED <<output, router, expiration, closing, lastActive>>

ClientReads(c) ==
  /\ peers[c].reads /\ peers[c].socket # <<>>
  /\ peers' = [peers EXCEPT ![c].got = @ \o peers[c].socket, ![c].socket = <<>>]
  /\ UNCHANGED <<output, router, expiration, closing, lastActive>>

ClientCloses(c) ==
  /\ c \in Present
  /\ peers' = [peers EXCEPT ![c] = Gone(@)]
  /\ UNCHANGED <<output, router, expiration, closing, lastActive>>

---------------------------------------------------------------------------
\* The client's task.  Its select takes pieces of a line into the future of
\* read_line; when the queue wins the select, that future is dropped with the
\* bytes it has taken from the socket.
TaskReads(c) ==
  /\ peers[c].task = "serving" /\ peers[c].taken < peers[c].written
  /\ LET first == peers[c].taken % 2 = 0 IN
     /\ peers' = [peers EXCEPT ![c].taken = @ + 1, ![c].partial = first,
                               ![c].whole = @ /\ (first \/ peers[c].partial)]
     /\ lastActive' = IF first THEN lastActive ELSE c
  /\ UNCHANGED <<output, router, expiration, closing>>

TaskTakes(c) ==
  /\ peers[c].task \in {"serving", "draining"} /\ peers[c].queue # <<>>
  /\ peers' = [peers EXCEPT ![c].task = "writing", ![c].wire = <<Head(peers[c].queue)>>,
                            ![c].queue = Tail(@), ![c].partial = FALSE]
  /\ UNCHANGED <<output, router, expiration, closing, lastActive>>

TaskWrites(c) ==
  /\ peers[c].task = "writing" /\ peers[c].socket = <<>>
  /\ peers' = [peers EXCEPT ![c].task = "serving", ![c].socket = peers[c].wire, ![c].wire = <<>>]
  /\ UNCHANGED <<output, router, expiration, closing, lastActive>>

\* Once the generation is shut down the task writes what is queued, and ends.
TaskStops(c) ==
  /\ closing # "open"
  /\ \/ /\ peers[c].task = "serving"
        /\ peers' = [peers EXCEPT ![c].task = "draining", ![c].partial = FALSE]
     \/ /\ peers[c].task = "draining" /\ peers[c].queue = <<>>
        /\ peers' = [peers EXCEPT ![c] = Gone(@)]
  /\ UNCHANGED <<output, router, expiration, closing, lastActive>>

---------------------------------------------------------------------------
\* The shutdown: the owner's select drops the routing under way, the expiration
\* loop ends, and the accept loop waits a quarter of a second for the clients'
\* tasks before it aborts them.
CloseGeneration ==
  /\ closing = "open"
  /\ closing' = "closed"
  /\ UNCHANGED <<peers, output, router, expiration, lastActive>>

OwnerLeaves ==
  /\ closing = "closed" /\ closing' = "joining"
  /\ router' = NoRoute /\ expiration' = [at |-> "left", held |-> <<>>]
  /\ UNCHANGED <<peers, output, lastActive>>

JoinWithoutAbort ==
  /\ closing = "joining" /\ Present = {}
  /\ closing' = "over" /\ UNCHANGED peers

JoinClients ==
  \/ /\ closing \in {"joining", "aborted"} /\ Present = {}
     /\ closing' = "over" /\ UNCHANGED peers
  \/ /\ closing = "joining" /\ Present # {}
     /\ closing' = "aborted" /\ UNCHANGED peers
  \/ /\ closing = "aborted" /\ UNCHANGED closing
     /\ \E c \in Present : peers' = [peers EXCEPT ![c] = Gone(@)]

ShutDown == OwnerLeaves \/ (JoinClients /\ UNCHANGED <<output, router, expiration, lastActive>>)

---------------------------------------------------------------------------
ClientStep(c) ==
  \/ Accept(c) \/ ClientWrites(c) \/ ClientReads(c) \/ ClientCloses(c)
  \/ TaskReads(c) \/ TaskTakes(c) \/ TaskWrites(c) \/ TaskStops(c)

DeliveryNext ==
  \/ RouterTake \/ RouterRefuses \/ RouterTry \/ RouterSend
  \/ Expire \/ DeliverMessage \/ CloseGeneration \/ ShutDown
  \/ \E c \in DeliveryClients : ClientStep(c)

DeliveryAtRest == closing = "over" \/ closing = "open"

\* The owner and the accept loop run; a client need not read, nor its task notice
\* the shutdown (a notification between its look at the flag and its wait is lost).
DeliveryFairness == WF_deliveryVars(ShutDown)

---------------------------------------------------------------------------
\* All that a client was sent: what it read, what is on its way, and what waits.
Given(p) == p.got \o p.socket \o p.wire \o p.queue

(***************************************************************************)
(* Each client is given the server's messages in the order in which the    *)
(* server sent them, although a full queue holds some of them back while   *)
(* later ones are tried and the queue drains meanwhile                     *)
(* (socket_proxy_dispatch.rs, sweep_recipients).                           *)
(***************************************************************************)
InServerOrder ==
  \A c \in DeliveryClients :
    LET all == Given(peers[c])
        ofServer == {i \in DOMAIN all : all[i] # TimedOut}
    IN  \A i, j \in ofServer : i < j => all[i] < all[j]

(***************************************************************************)
(* A shutdown of the generation ends although a client never reads, the    *)
(* router waits for room in its queue and its task for room in its socket  *)
(* ("one stalled client cannot block later deadlines or shutdown",         *)
(* socket_proxy_generation.rs).                                            *)
(***************************************************************************)
StalledClientsDoNotBlockShutdown == closing = "closed" ~> closing = "over"

(***************************************************************************)
(* A line that a client writes is read whole, whatever is delivered to the *)
(* client while the line arrives (socket_proxy_client.rs, handle_client).  *)
(***************************************************************************)
LinesAreWhole == \A c \in DeliveryClients : peers[c].whole
=============================================================================
