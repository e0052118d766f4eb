---------------------------- MODULE HttpUpstream ----------------------------
(***************************************************************************)
(* The HTTP upstream: an owner task takes requests from a channel and runs *)
(* each in a worker that POSTs it and reads the answer from a body or an   *)
(* event stream; a handshake holds the owner at a gate; an initialize that *)
(* the endpoint rejects as unknown is handed to a second owner, the legacy *)
(* transport, whose answers arrive on one shared event stream.             *)
(*                                                                         *)
(* Both owners run the same loop and are told apart by their endpoint.  A  *)
(* request is its kind; a session is its state, whether it has an          *)
(* identifier and whether it speaks the modern protocol; an HTTP response  *)
(* is its status class.  The server answers a request once, if at all.     *)
(***************************************************************************)
EXTENDS Integers, Sequences, FiniteSets

CONSTANTS
    HttpRequests,       \* the requests, 1..n, submitted in this order
    MaxWorkers          \* MAX_CONCURRENT_REQUESTS

ASSUME HttpAssumption ==
    /\ HttpRequests \subseteq Nat \ {0} /\ IsFiniteSet(HttpRequests)
    /\ MaxWorkers \in Nat \ {0}

VARIABLES
    exchanges,          \* the requests and how far each is
    channels,           \* the requests each owner has yet to receive
    owners,             \* where each owner's loop is, and for which request
    sessions,           \* the session with each endpoint
    negotiation,        \* whether the first request may still fall back
    pending,            \* legacy: the requests awaiting the event stream
    stream,             \* legacy: the event stream and what it is delivering
    plug,               \* what the upstream's user has done to it
    established         \* history: the client has seen a handshake succeed

httpVars == <<exchanges, channels, owners, sessions, negotiation, pending,
              stream, plug, established>>

Endpoints == {"streamable", "legacy"}
ExchangeKind == {"initialize", "discover", "initialized", "call", "modern", "malformed"}
IsModern(kind) == kind \in {"discover", "modern"}
IsHandshake(kind) == kind \in {"initialize", "discover"}
IsBarrier(kind) == IsHandshake(kind) \/ kind = "initialized"
Identified(kind) == kind # "initialized"

Session == [state : {"fresh", "ready", "expired"}, id : BOOLEAN, modern : BOOLEAN]
FreshSession == [state |-> "fresh", id |-> FALSE, modern |-> FALSE]
ExpiredSession == [FreshSession EXCEPT !.state = "expired"]
ReadySession(id, modern) == [state |-> "ready", id |-> id, modern |-> modern]

Steps == {"new", "queued", "open", "authorizing", "posted", "reading", "awaiting",
          "handed", "failing", "ended"}
Exchange == [kind : ExchangeKind, at : Steps, on : Endpoints,
             mayFallBack : BOOLEAN,          \* ExchangeMode::InitialLegacy
             saw : Session,                  \* the session it was sent under
             posts : [Endpoints -> 0..2], answers : 0..3,
             answered : BOOLEAN,             \* the code's own flag
             done : {"none", "ok", "error"}, \* what the event stream told it
             after : BOOLEAN]                \* history: submitted once established
NewExchange == [kind |-> "call", at |-> "new", on |-> "streamable", mayFallBack |-> FALSE,
                saw |-> FreshSession, posts |-> [e \in Endpoints |-> 0], answers |-> 0,
                answered |-> FALSE, done |-> "none", after |-> FALSE]

Owner == [at : {"absent", "select", "gate", "settle", "inline", "connecting", "forward",
                "drain", "aborting", "stopping", "complete"},
          for : HttpRequests \cup {0}, deliberate : BOOLEAN]
Stream == [at : {"open", "failing"}, delivering : HttpRequests \cup {0},
           verdict : {"result", "error", "invalid"}, owed : SUBSET HttpRequests]
ClosedStream == [at |-> "open", delivering |-> 0, verdict |-> "error", owed |-> {}]
Idle == [at |-> "select", for |-> 0, deliberate |-> FALSE]

HttpTypeOK ==
  /\ exchanges \in [HttpRequests -> Exchange]
  /\ \A e \in Endpoints : channels[e] \in Seq(HttpRequests)
  /\ owners \in [Endpoints -> Owner]
  /\ sessions \in [Endpoints -> Session]
  /\ negotiation \in {"probing", "active"}
  /\ pending \subseteq HttpRequests
  /\ stream \in Stream
  /\ plug \in {"in", "closed", "deaf", "shutdown"}
  /\ established \in BOOLEAN

HttpInit(workloads) ==
  /\ \E kinds \in workloads :
       exchanges = [r \in HttpRequests |-> [NewExchange EXCEPT !.kind = kinds[r]]]
  /\ channels = [e \in Endpoints |-> <<>>]
  /\ owners = [streamable |-> Idle, legacy |-> [Idle EXCEPT !.at = "absent"]]
  /\ sessions = [e \in Endpoints |-> FreshSession]
  /\ negotiation = "probing"
  /\ pending = {}
  /\ stream = ClosedStream
  /\ plug = "in"
  /\ established = FALSE

---------------------------------------------------------------------------
Live(r) == exchanges[r].at \notin {"new", "queued", "handed", "ended"}
Workers(e) ==
  {r \in HttpRequests : exchanges[r].on = e /\ Live(r) /\ ~(owners[e].at = "inline" /\ owners[e].for = r)}

\* An exchange that is over keeps what the client and the server saw of it.
Over(x) == [x EXCEPT !.at = "ended", !.saw = FreshSession, !.mayFallBack = FALSE,
                     !.answered = FALSE]
Change(r, x) == exchanges' = [exchanges EXCEPT ![r] = x]
Step(r, at) == Change(r, [exchanges[r] EXCEPT !.at = at])

\* The owner waits for r at the gate or runs it itself; it goes on.
Resume(r) ==
  owners' = [e \in Endpoints |->
               IF owners[e].for = r /\ owners[e].at \in {"gate", "inline"} THEN Idle ELSE owners[e]]
Leave(e, deliberate) ==
  owners' = [owners EXCEPT ![e] = [at |-> "aborting", for |-> 0, deliberate |-> deliberate]]

\* Mutant: a failure is reported after the answer, too.
ToldAgain(x) == IF Identified(x.kind) THEN [x EXCEPT !.answers = @ + 1] ELSE x

\* send_failure: only a request with an identifier is told, and not again.
Told(x) == IF Identified(x.kind) /\ ~x.answered THEN [x EXCEPT !.answers = @ + 1] ELSE x

---------------------------------------------------------------------------
\* The user of the upstream: it submits requests, closes one of the two
\* channels, or asks for a shutdown.
Submit ==
  /\ plug = "in" /\ owners["streamable"].at \notin {"aborting", "stopping", "complete"}
  /\ \E r \in HttpRequests :
       /\ exchanges[r].at = "new" /\ \A q \in HttpRequests : q < r => exchanges[q].at # "new"
       /\ Change(r, [exchanges[r] EXCEPT !.at = "queued", !.after = established])
       /\ channels' = [channels EXCEPT !["streamable"] = Append(@, r)]
  /\ UNCHANGED <<owners, sessions, negotiation, pending, stream, plug, established>>

Unplug ==
  /\ plug = "in"
  /\ plug' \in {"closed", "deaf", "shutdown"}
  /\ UNCHANGED <<exchanges, channels, owners, sessions, negotiation, pending, stream, established>>

---------------------------------------------------------------------------
\* An owner's loop.  A discovery on an established modern session is no
\* barrier; the legacy loop knows no gate but lets its workers finish first.
Refreshes(kind) == kind = "discover" /\ sessions["streamable"] = ReadySession(FALSE, TRUE)

\* Mutant: a request still being worked on does not rule the fallback out.
AdmitBusy(kind, quiescent) == negotiation = "probing" /\ kind = "initialize"

Admit(kind, quiescent) == negotiation = "probing" /\ quiescent /\ kind = "initialize"

Waits(e, kind) ==
  CASE ~IsBarrier(kind) \/ (e = "streamable" /\ Refreshes(kind)) -> "select"
    [] IsBarrier(kind) /\ e = "legacy" -> "settle"
    [] e = "streamable" /\ IsHandshake(kind) /\ ~Refreshes(kind) -> "gate"
    [] OTHER -> "inline"

Take(e) ==
  /\ owners[e].at = "select" /\ channels[e] # <<>> /\ plug # "deaf"
  /\ Cardinality(Workers(e)) < MaxWorkers
  /\ LET r == Head(channels[e])
         x == [exchanges[r] EXCEPT !.on = e, !.at = "open"]
     IN  /\ channels' = [channels EXCEPT ![e] = Tail(@)]
         /\ IF x.kind = "malformed"
            THEN Change(r, Over(Told(x))) /\ UNCHANGED <<owners, negotiation>>
            ELSE /\ Change(r, [x EXCEPT !.mayFallBack =
                                 e = "streamable" /\ Admit(x.kind, Workers(e) = {})])
                 /\ negotiation' = IF e = "streamable" /\ x.kind # "discover"
                                   THEN "active" ELSE negotiation
                 /\ owners' = [owners EXCEPT ![e] =
                      IF Waits(e, x.kind) = "select" THEN @
                      ELSE [@ EXCEPT !.at = Waits(e, x.kind), !.for = r]]
  /\ UNCHANGED <<sessions, pending, stream, plug, established>>

\* The legacy loop's barrier request waits for the workers before it runs.
Settle ==
  /\ owners["legacy"].at = "settle"
  /\ Workers("legacy") \subseteq {owners["legacy"].for}
  /\ owners' = [owners EXCEPT !["legacy"].at = "inline"]
  /\ UNCHANGED <<exchanges, channels, sessions, negotiation, pending, stream, plug, established>>

Closed(e) ==
  IF e = "streamable" THEN plug = "closed"
  ELSE owners["streamable"].at \in {"aborting", "stopping", "complete"}

\* The request channel is closed: the workers finish and the loop ends.
DrainExchanges(e) ==
  /\ Closed(e) /\ channels[e] = <<>>
  /\ \/ owners[e].at = "select" /\ owners' = [owners EXCEPT ![e].at = "drain"]
     \/ owners[e].at = "drain" /\ Workers(e) = {} /\ Leave(e, FALSE)
     \/ owners[e].at = "forward" /\ Leave(e, FALSE)
  /\ UNCHANGED <<exchanges, channels, sessions, negotiation, pending, stream, plug, established>>

\* Nobody reads the responses any more.
Deaf(e) ==
  /\ plug = "deaf" /\ owners[e].at \in {"select", "forward"}
  /\ Leave(e, FALSE)
  /\ UNCHANGED <<exchanges, channels, sessions, negotiation, pending, stream, plug, established>>

\* The shutdown signal drops the loop wherever it is, with the request it is
\* itself running or handing over.
Running == {"select", "gate", "settle", "inline", "connecting", "forward", "drain"}
Told2Stop(e) == IF e = "streamable" THEN plug = "shutdown" ELSE owners["streamable"].at = "stopping"
Shutdown(e) ==
  /\ Told2Stop(e) /\ owners[e].at \in Running
  /\ Leave(e, e = "streamable")
  /\ exchanges' = [r \in HttpRequests |->
       IF r = owners[e].for /\ owners[e].at \in {"settle", "inline", "connecting"}
       THEN Over(exchanges[r]) ELSE exchanges[r]]
  /\ UNCHANGED <<channels, sessions, negotiation, pending, stream, plug, established>>

\* Mutant: the workers are not joined.
AbortUnjoined(e) ==
  /\ owners[e].at = "aborting"
  /\ owners' = [owners EXCEPT ![e].at = IF e = "streamable" THEN "stopping" ELSE "complete"]
  /\ UNCHANGED <<exchanges, pending, stream, channels, sessions, negotiation, plug, established>>

\* The workers are aborted and joined; then a fallback is shut down, and a
\* deliberate shutdown ends the session with a DELETE.
Abort(e) ==
  /\ owners[e].at = "aborting"
  /\ \/ /\ \E r \in Workers(e) : Change(r, Over(exchanges[r]))
        /\ UNCHANGED <<owners, pending, stream>>
     \/ /\ Workers(e) = {}
        /\ owners' = [owners EXCEPT ![e].at = IF e = "streamable" THEN "stopping" ELSE "complete"]
        /\ pending' = IF e = "legacy" THEN {} ELSE pending
        /\ stream' = IF e = "legacy" THEN ClosedStream ELSE stream
        /\ UNCHANGED exchanges
  /\ UNCHANGED <<channels, sessions, negotiation, plug, established>>

Retire ==
  /\ owners["streamable"].at = "stopping"
  /\ owners["legacy"].at \in {"absent", "complete"}
  /\ owners' = [owners EXCEPT !["streamable"].at = "complete"]
  /\ sessions' = [sessions EXCEPT !["streamable"] =
                    IF owners["streamable"].deliberate THEN ExpiredSession ELSE @]
  /\ UNCHANGED <<exchanges, channels, negotiation, pending, stream, plug, established>>

\* The rejected initialize goes to the legacy transport, which opens its event
\* stream and sends it first; then every request is passed on.
Connect ==
  /\ owners["streamable"].at = "connecting"
  /\ LET r == owners["streamable"].for IN
     \/ /\ owners' = [streamable |-> [Idle EXCEPT !.at = "forward"],
                      legacy |-> [Idle EXCEPT !.at = "inline", !.for = r]]
        /\ Change(r, [exchanges[r] EXCEPT !.at = "open", !.on = "legacy", !.mayFallBack = FALSE,
                                          !.saw = FreshSession])
     \/ Change(r, Over(Told(exchanges[r]))) /\ Leave("streamable", FALSE)
  /\ UNCHANGED <<channels, sessions, negotiation, pending, stream, plug, established>>

Forward ==
  /\ owners["streamable"].at = "forward"
  /\ \/ /\ channels["streamable"] # <<>>
        /\ channels' = [streamable |-> Tail(channels["streamable"]),
                        legacy |-> Append(channels["legacy"], Head(channels["streamable"]))]
        /\ UNCHANGED owners
     \/ /\ owners["legacy"].at = "complete"
        /\ Leave("streamable", FALSE) /\ UNCHANGED channels
  /\ UNCHANGED <<exchanges, sessions, negotiation, pending, stream, plug, established>>

---------------------------------------------------------------------------
\* A request under way.  It reads the session before it is authorized, which
\* may refresh a token, and it is sent under what it read.
Refused(x, s) ==
  \/ s.state = "expired"
  \/ s.state = "ready" /\ x.kind = "initialize"
  \/ s.state = "ready" /\ x.on = "streamable" /\ s.modern # IsModern(x.kind)

Open(r) ==
  /\ exchanges[r].at = "open"
  /\ exchanges[r].on = "legacy" => owners["legacy"].at # "settle" \/ owners["legacy"].for # r
  /\ LET x == [exchanges[r] EXCEPT !.saw = sessions[exchanges[r].on]]
         refused == x.on = "legacy" /\ Refused(x, x.saw)
     IN  /\ Change(r, [x EXCEPT !.at = IF refused THEN "failing" ELSE "authorizing"])
         /\ pending' = IF x.on = "legacy" /\ ~refused /\ Identified(x.kind)
                       THEN pending \cup {r} ELSE pending
  /\ UNCHANGED <<channels, owners, sessions, negotiation, stream, plug, established>>

Post(r) ==
  /\ exchanges[r].at = "authorizing"
  /\ LET x == exchanges[r] IN
     \/ Step(r, "failing")
     \/ ~Refused(x, x.saw) /\ Change(r, [x EXCEPT !.at = "posted", !.posts[x.on] = @ + 1])
  /\ UNCHANGED <<channels, owners, sessions, negotiation, pending, stream, plug, established>>

\* A 404 or 405 to the very first initialize is what lets it fall back; a 404 on a
\* session with an identifier ends the session.
Rejects(x, status) == x.kind = "discover" /\ x.saw = FreshSession /\ status \in {"400", "404", "405"}
Mismatch(x, status) == x.mayFallBack /\ x.saw = FreshSession /\ status \in {"404", "405"}
Ends(x, status) ==
  /\ status = "404" /\ ~Rejects(x, status) /\ ~Mismatch(x, status)
  /\ x.on = "legacy" \/ (sessions["streamable"].state = "ready" /\ sessions["streamable"].id)

Respond(r) ==
  /\ exchanges[r].at = "posted"
  /\ LET x == exchanges[r] IN
     \E status \in {"lost", "400", "404", "405", "202", "body"} :
       \/ /\ status \notin {"202", "body"} /\ ~(x.on = "streamable" /\ Mismatch(x, status))
          /\ Step(r, "failing")
          /\ sessions' = IF Ends(x, status) THEN [sessions EXCEPT ![x.on] = ExpiredSession] ELSE sessions
          /\ UNCHANGED owners
       \/ /\ x.on = "streamable" /\ Mismatch(x, status)
          /\ IF owners["streamable"].at = "gate"
             THEN Step(r, "handed") /\ owners' = [owners EXCEPT !["streamable"].at = "connecting"]
             ELSE Change(r, Over(x)) /\ UNCHANGED owners
          /\ UNCHANGED sessions
       \/ /\ status \in {"202", "body"} /\ ~(x.on = "streamable" /\ status = "202" /\ Identified(x.kind))
          /\ IF Identified(x.kind) \/ (x.on = "streamable" /\ status = "body")
             THEN Step(r, IF x.on = "streamable" THEN "reading" ELSE "awaiting") /\ UNCHANGED owners
             ELSE Change(r, Over(x)) /\ Resume(r)
          /\ UNCHANGED sessions
       \/ /\ status = "202" /\ x.on = "streamable" /\ Identified(x.kind)
          /\ Step(r, "failing") /\ UNCHANGED <<owners, sessions>>
  /\ UNCHANGED <<channels, negotiation, pending, stream, plug, established>>

\* Mutant: the legacy stream forgets the session it established.
EstablishesNothing(x) == IF x.on = "legacy" THEN {FreshSession} ELSE {ReadySession(FALSE, IsModern(x.kind))}

\* deliver: the session is established before the client is told, and the
\* gate opens once it has been.
Establishes(x) ==
  CASE x.kind = "initialize" /\ x.on = "streamable" -> {ReadySession(id, FALSE) : id \in BOOLEAN}
    [] x.kind = "initialize" /\ x.on = "legacy" -> {ReadySession(FALSE, FALSE)}
    [] x.kind = "discover" /\ x.on = "streamable" -> {ReadySession(FALSE, TRUE)}
    [] OTHER -> {}

Deliver(r) ==
  /\ exchanges[r].at = "reading" /\ ~exchanges[r].answered /\ Identified(exchanges[r].kind)
  /\ LET x == exchanges[r] IN
     /\ \/ \E session \in Establishes(x) :
             sessions' = [sessions EXCEPT ![x.on] = session] /\ established' = TRUE
        \/ UNCHANGED <<sessions, established>>
     /\ Change(r, [x EXCEPT !.answers = @ + 1, !.answered = TRUE])
  /\ Resume(r)
  /\ UNCHANGED <<channels, negotiation, pending, stream, plug>>

\* The body or the stream ends, or fails, or carries an invalid result.
EndOfBody(r) ==
  /\ exchanges[r].at = "reading"
  /\ \/ /\ exchanges[r].answered \/ ~Identified(exchanges[r].kind)
        /\ Change(r, Over(exchanges[r])) /\ Resume(r)
     \/ Step(r, "failing") /\ UNCHANGED owners
  /\ UNCHANGED <<channels, sessions, negotiation, pending, stream, plug, established>>

\* The legacy worker learns from the event stream that it is done.
Completed(r) ==
  /\ exchanges[r].at = "awaiting" /\ exchanges[r].done # "none"
  /\ IF exchanges[r].done = "ok"
     THEN Change(r, Over(exchanges[r])) /\ Resume(r)
     ELSE Step(r, "failing") /\ UNCHANGED owners
  /\ UNCHANGED <<channels, sessions, negotiation, pending, stream, plug, established>>

Timeout(r) ==
  /\ exchanges[r].at \in {"authorizing", "posted", "reading", "awaiting"}
  /\ Step(r, "failing")
  /\ UNCHANGED <<channels, owners, sessions, negotiation, pending, stream, plug, established>>

\* Mutant: a handshake that fails does not open the gate.
FailAtGate(r) ==
  /\ exchanges[r].at = "failing"
  /\ Change(r, Over(Told(exchanges[r])))
  /\ pending' = pending \ {r}
  /\ UNCHANGED <<channels, owners, sessions, negotiation, stream, plug, established>>

\* The tail of execute: the entry is removed, then the client is told unless
\* the answer has been marked as sent; the gate opens whatever happened.
Fail(r) ==
  /\ exchanges[r].at = "failing"
  /\ Change(r, Over(Told(exchanges[r])))
  /\ Resume(r)
  /\ pending' = pending \ {r}
  /\ UNCHANGED <<channels, sessions, negotiation, stream, plug, established>>

---------------------------------------------------------------------------
\* The legacy event stream.  It takes an entry first, establishes the session,
\* and only then sends the answer and marks it as sent.
Streaming == owners["legacy"].at \in Running /\ stream.at = "open"

StreamTake ==
  /\ Streaming /\ stream.delivering = 0
  /\ \E r \in pending, verdict \in {"result", "error", "invalid"} :
       /\ exchanges[r].posts["legacy"] > 0
       /\ verdict # "error" => exchanges[r].kind = "initialize"
       /\ pending' = pending \ {r}
       /\ stream' = [stream EXCEPT !.delivering = r, !.verdict = verdict]
       /\ IF verdict = "result"
          THEN \E session \in Establishes(exchanges[r]) :
                 sessions' = [sessions EXCEPT !["legacy"] = session]
          ELSE UNCHANGED sessions
  /\ UNCHANGED <<exchanges, channels, owners, negotiation, plug, established>>

StreamSend ==
  /\ Streaming /\ stream.delivering # 0
  /\ LET r == stream.delivering
         x == exchanges[r]
     IN  /\ Change(r, IF stream.verdict = "invalid"
                      THEN [x EXCEPT !.done = "error"]
                      ELSE [x EXCEPT !.answers = @ + 1, !.answered = x.at # "ended", !.done = "ok"])
         /\ established' = (established \/ (stream.verdict = "result" /\ x.answers = 0))
  /\ stream' = ClosedStream
  /\ UNCHANGED <<channels, owners, sessions, negotiation, pending, plug>>

\* An answer nobody waits for any more is passed on as it is.
StreamLate ==
  /\ Streaming /\ stream.delivering = 0
  /\ \E r \in HttpRequests \ pending :
       /\ exchanges[r].at = "ended" /\ exchanges[r].posts["legacy"] > 0
       /\ exchanges[r].done = "none" /\ Identified(exchanges[r].kind)
       /\ Change(r, [exchanges[r] EXCEPT !.answers = @ + 1, !.done = "ok"])
  /\ UNCHANGED <<channels, owners, sessions, negotiation, pending, stream, plug, established>>

\* The stream breaks: the entries are drained, each is told, and the owner ends.
StreamBreaks ==
  /\ owners["legacy"].at \in Running
  /\ \/ /\ stream.at = "open" /\ stream.delivering = 0
        /\ stream' = [ClosedStream EXCEPT !.at = "failing", !.owed = pending]
        /\ pending' = {}
        /\ UNCHANGED <<exchanges, owners>>
     \/ /\ \E r \in stream.owed :
             /\ stream' = [stream EXCEPT !.owed = @ \ {r}]
             /\ Change(r, [exchanges[r] EXCEPT !.answers = @ + 1, !.done = "error",
                                               !.answered = exchanges[r].at # "ended"])
        /\ UNCHANGED <<owners, pending>>
     \/ /\ stream.at = "failing" /\ stream.owed = {}
        /\ Leave("legacy", FALSE)
        /\ exchanges' = [r \in HttpRequests |->
             IF r = owners["legacy"].for /\ owners["legacy"].at \in {"settle", "inline"}
             THEN Over(exchanges[r]) ELSE exchanges[r]]
        /\ UNCHANGED <<stream, pending>>
  /\ UNCHANGED <<channels, sessions, negotiation, plug, established>>

---------------------------------------------------------------------------
OwnerStep(e) == Take(e) \/ DrainExchanges(e) \/ Deaf(e) \/ Shutdown(e) \/ Abort(e)
WorkerStep(r) ==
  \/ Open(r) \/ Post(r) \/ Respond(r) \/ Deliver(r) \/ EndOfBody(r)
  \/ Completed(r) \/ Timeout(r) \/ Fail(r)
StreamStep == StreamTake \/ StreamSend \/ StreamLate \/ StreamBreaks

\* What the tasks of the runtime do without waiting for the server.
RuntimeStep ==
  \/ \E e \in Endpoints : OwnerStep(e)
  \/ Settle \/ Retire \/ Connect \/ Forward
  \/ \E r \in HttpRequests : WorkerStep(r)

HttpNext ==
  \/ Submit \/ Unplug
  \/ RuntimeStep
  \/ StreamStep

\* The runtime is scheduled: some task that can act does (deadlines pass, so a worker
\* never waits forever); a stream that has taken an entry or broken goes on.
HttpFairness ==
  /\ WF_httpVars(RuntimeStep)
  /\ WF_httpVars(stream.at = "failing" /\ StreamBreaks)
  /\ WF_httpVars(StreamSend)

HttpAtRest ==
  /\ owners["streamable"].at \in {"select", "forward", "complete"}
  /\ \A r \in HttpRequests : ~Live(r) /\ exchanges[r].at \notin {"handed"}
  /\ \A e \in Endpoints : channels[e] = <<>> \/ owners[e].at \in {"absent", "complete"}

---------------------------------------------------------------------------
(***************************************************************************)
(* A request is POSTed at most once ("request was not replayed" in every   *)
(* failure the transport reports); only an initialize is POSTed to both    *)
(* endpoints, after the first refused it and before any request other than *)
(* a discovery was sent there or was still being worked on.                *)
(***************************************************************************)
NothingReplayed ==
  /\ \A r \in HttpRequests, e \in Endpoints : exchanges[r].posts[e] <= 1
  /\ \A r \in HttpRequests :
       \A q \in HttpRequests \ {r} :
         /\ exchanges[r].posts["legacy"] = 1 /\ exchanges[r].posts["streamable"] = 1
         => /\ exchanges[r].kind = "initialize"
            /\ exchanges[q].posts["streamable"] = 1
               => exchanges[q].kind = "discover" /\ exchanges[q].at = "ended"

(***************************************************************************)
(* A request that the client submits after it has seen the handshake       *)
(* succeed is sent under the session the handshake established, whichever  *)
(* worker runs it and however late the handshake's own stream ends; when   *)
(* that session is gone it is not sent at all (upstream_http_response.rs). *)
(***************************************************************************)
SessionCarried ==
  \A r \in HttpRequests :
    exchanges[r].after /\ exchanges[r].at \in {"posted", "reading", "awaiting"}
    => exchanges[r].saw.state = "ready"

(***************************************************************************)
(* The streamable endpoint's requests are answered at most once, although  *)
(* the answer, the end of its stream, the request's deadline and a failed  *)
(* handshake each end a request (upstream_http_exchange.rs); a request of  *)
(* the legacy stream may be told of its deadline and answered later.       *)
(***************************************************************************)
StreamableAnswersOnce ==
  \A r \in HttpRequests : exchanges[r].on = "streamable" => exchanges[r].answers <= 1

(* The upstream as the owner of its generation sees it.                    *)
HttpStage ==
  CASE owners["streamable"].at = "complete" -> "retired"
    [] owners["streamable"].at \in {"aborting", "stopping"} -> "exited"
    [] OTHER -> "running"
HttpAlive == {r \in HttpRequests : Live(r)}
HttpTraffic ==
  {t \in HttpRequests \X (Endpoints \cup {"answer"}) \X (1..3) :
     t[3] <= IF t[2] = "answer" THEN exchanges[t[1]].answers ELSE exchanges[t[1]].posts[t[2]]}

(***************************************************************************)
(* Once the upstream has reported its retirement no worker is running, the *)
(* fallback is gone and nothing is sent or answered again                  *)
(* (upstream_http.rs, spawn_configured).                                   *)
(***************************************************************************)
RetiredIsQuiet ==
  [][ owners["streamable"].at = "complete"
      => /\ \A r \in HttpRequests : ~Live(r) \/ exchanges'[r] = exchanges[r]
         /\ \A r \in HttpRequests : exchanges'[r].posts = exchanges[r].posts
                                    /\ exchanges'[r].answers = exchanges[r].answers ]_httpVars

(***************************************************************************)
(* Every request with an identifier is answered or the upstream ends: no   *)
(* gate, deadline, broken stream or failed fallback leaves a caller waiting *)
(* on an upstream that goes on (upstream_http_runtime.rs).                 *)
(***************************************************************************)
HttpAnswered ==
  <>[](owners["streamable"].at # "complete" =>
         \A r \in HttpRequests :
           exchanges[r].at # "new" /\ Identified(exchanges[r].kind) => exchanges[r].answers > 0)

\* What is sent and answered, over both transports and the change from one to the other:
\* nothing is sent twice, requests carry the session of the server, answers come once
\* (upstream_http_runtime.rs, upstream_http_exchange.rs, upstream_http_legacy.rs).
HttpSafety == NothingReplayed /\ SessionCarried /\ StreamableAnswersOnce
=============================================================================
