------------------------------- MODULE Bridge -------------------------------
(***************************************************************************)
(* mcp-cli serve: downstream requests arrive on stdin or over HTTP, are    *)
(* checked, and run on the connections the bridge keeps to each server, a  *)
(* fixed number of slots that operations take in turn.                     *)
(*                                                                         *)
(* A connection is McpClient's, seen from outside: open, or closed by an   *)
(* operation that failed, timed out or was dropped.  Subscriptions are in  *)
(* module BridgeListener.                                                  *)
(***************************************************************************)
EXTENDS Integers, Sequences, FiniteSets

CONSTANTS
    Bridged,            \* the servers configured
    Downstream,         \* downstream requests
    MaxInFlight,        \* requests of stdin under way
    MaxHttpRequests     \* requests over HTTP under way

ASSUME BridgeAssumption ==
  /\ IsFiniteSet(Downstream)
  /\ MaxInFlight \in Nat \ {0} /\ MaxHttpRequests \in Nat \ {0}

VARIABLES
    bridge,             \* the process: startup, stdin or HTTP, and the end
    slots,              \* of each server: idle slots and free permits
    requests,           \* downstream requests and their tasks
    admissions          \* free permits of the HTTP endpoint

bridgeVars == <<bridge, slots, requests, admissions>>

TaskStates == {"none", "waiting", "admitted", "dialing", "operating", "leaving", "pushed", "finished"}

BridgeTypeOK ==
  /\ bridge.mode \in {"none", "stdio", "http"} /\ bridge.at \in {"starting", "connecting", "serving", "left"}
  /\ bridge.outcome \in {"none", "ok", "failed"} /\ bridge.linked \subseteq bridge.chosen
  /\ bridge.chosen \subseteq Bridged /\ bridge.concurrency \in Nat
  /\ bridge.open \in BOOLEAN /\ bridge.input \in Seq(Downstream) /\ bridge.ends \in {"end", "error"}
  /\ \A b \in Bridged : slots[b].free \in 0..bridge.concurrency /\ slots[b].idle \in Seq({"none", "open", "closed"})
  /\ \A r \in Downstream :
       /\ requests[r].at \in {"new", "body", "running", "answered", "done", "dropped"}
       /\ requests[r].answer \in {"none", "ok", "error", "refused", "busy", "accepted"}
       /\ \A b \in Bridged : requests[r].tasks[b].at \in TaskStates
  /\ admissions \in 0..MaxHttpRequests

NoTask == [at |-> "none", connection |-> "none", result |-> "none"]

\* A workload: the arguments of serve, the servers of the configuration, the message
\* of each request and, on stdin, its frames and how they end.
BridgeInit(workloads) ==
  /\ \E given \in workloads :
       /\ bridge = [mode |-> "none", at |-> "starting", outcome |-> "none", linked |-> {},
                    chosen |-> {}, options |-> given.options, concurrency |-> given.options.concurrency,
                    servers |-> given.servers, open |-> TRUE, input |-> given.input, ends |-> given.ends]
       /\ requests = [r \in Downstream |->
            [message |-> given.messages[r], at |-> "new", answer |-> "none",
             tasks |-> [b \in Bridged |-> NoTask]]]
  /\ slots = [b \in Bridged |-> [idle |-> <<>>, free |-> 0]]
  /\ admissions = MaxHttpRequests

----------------------------------------------------------------------------
(* Startup.                                                                *)

\* Flags that do not go together: HTTP is chosen by its port, and only then has a host.
Contradictory(options) ==
  \/ {"--stdio", "--http"} \subseteq options.flags
  \/ "--host" \in options.flags /\ "--http" \notin options.flags
  \/ options.concurrency \notin 1..64

\* The environment enables or disables names, then the configuration decides, then
\* what the command looks like: some programs are kept alive by default.
KeptAlive(server, options) ==
  \/ server.names \cap options.enabled # {}
  \/ /\ server.names \cap options.disabled = {}
     /\ server.lifecycle = "keep-alive" \/ (server.lifecycle = "default" /\ server.known)

\* The servers asked for, all of which must be kept alive, or all that are.
Select ==
  LET options == bridge.options
      kept == {b \in Bridged : KeptAlive(bridge.servers[b], options)}
      chosen == IF options.only = {} THEN kept ELSE options.only IN
  /\ bridge.at = "starting"
  /\ IF Contradictory(options) \/ chosen = {} \/ ~(chosen \subseteq kept)
     THEN bridge' = [bridge EXCEPT !.at = "left", !.outcome = "failed"]
     ELSE bridge' = [bridge EXCEPT !.at = "connecting", !.chosen = chosen,
                                     !.mode = IF "--http" \in options.flags THEN "http" ELSE "stdio"]
  /\ UNCHANGED <<slots, requests, admissions>>

\* Every selected server is connected at once; the slot on top of each gets its
\* connection, the others are filled when they are used.
Link(b) ==
  LET n == bridge.concurrency IN
  /\ bridge.at = "connecting" /\ b \in bridge.chosen \ bridge.linked
  /\ bridge' = [bridge EXCEPT !.linked = @ \cup {b},
                              !.at = IF bridge.linked \cup {b} = bridge.chosen THEN "serving" ELSE @]
  /\ slots' = [slots EXCEPT ![b] =
       [idle |-> [i \in 1..n |-> IF i = n THEN "open" ELSE "none"], free |-> n]]
  /\ UNCHANGED <<requests, admissions>>

LinkFails ==
  /\ bridge.at = "connecting"
  /\ bridge' = [bridge EXCEPT !.at = "left", !.outcome = "failed"]
  /\ UNCHANGED <<slots, requests, admissions>>

----------------------------------------------------------------------------
(* The checks of a request over HTTP, in their order.                      *)

HostAllowed(host, bind) ==
  \/ bind = "any"
  \/ bind = "loopback" /\ host = "loopback"
  \/ bind = "named" /\ host = "named"

FromHere(m) ==
  /\ m.port /\ HostAllowed(m.host, m.bind)
  /\ m.origin = "none" \/ (m.origin = m.host /\ HostAllowed(m.origin, m.bind))

Routed(m) == m.path = "all" \/ (m.path = "one" /\ m.servers \subseteq bridge.chosen)

\* A media type counts when its quality is not zero.
Accepts(m, media) == \E a \in m.accepts : ~a.zero /\ a.media \in {media, "any"}

AcceptsBoth(m) == Accepts(m, "json") /\ Accepts(m, "events")

ModernHeaders(m) == m.version = "modern" \/ m.methodHeader # "none" \/ m.nameHeader # "none"

\* The headers repeat the method and, when there is one, the name of the message.
HeadersRepeat(m) ==
  m.methodHeader = "same" /\ m.nameHeader = IF m.names THEN "same" ELSE "none"

\* Before the body is read: no session, JSON, a known version and, unless the
\* headers are modern, both media types.
HeadersFit(m) ==
  /\ ~m.session /\ m.json
  /\ m.version # "unknown"
  /\ ModernHeaders(m) \/ AcceptsBoth(m)

\* The version in the body, in the headers and the named method agree or are all absent.
ErasAgree(m) ==
  IF m.meta # "none" THEN m.meta = "modern" /\ m.version = "modern" /\ HeadersRepeat(m)
  ELSE ~ModernHeaders(m)

AcceptFits(m) == ~ModernHeaders(m) \/ AcceptsBoth(m)

----------------------------------------------------------------------------
(* Dispatch.                                                               *)

\* A tool is called on a selected server whose filter permits it, a list asks
\* every server of the endpoint.
Needs(m) ==
  CASE m.asks = "list" /\ m.path = "all" -> bridge.chosen
    [] m.asks = "list" /\ m.path # "all" -> m.servers
    [] m.asks = "call" /\ m.permitted /\ m.servers \subseteq bridge.chosen -> m.servers
    [] OTHER -> {}

\* A frame that is too long or no JSON, and a message that is no JSON-RPC request.
Unreadable(m) == m.asks = "malformed"
Invalid(m) == m.asks = "invalid"

BadParameters(m) == m.asks \in {"bad call", "bad initialize"}

Began(request) ==
  LET m == request.message IN
  IF Needs(m) # {}
  THEN [request EXCEPT !.at = "running",
          !.tasks = [b \in Bridged |-> IF b \in Needs(m) THEN [NoTask EXCEPT !.at = "waiting"] ELSE NoTask]]
  ELSE [request EXCEPT !.at = "answered",
          !.answer = IF \/ Unreadable(m) \/ Invalid(m) \/ BadParameters(m)
                        \/ m.asks \in {"call", "unknown method"} THEN "error"
                     ELSE IF m.asks = "notification" THEN "accepted" ELSE "ok"]

UnderWay == {r \in Downstream : requests[r].at \in {"body", "running", "answered"}}

\* A frame of stdin, or its end, while fewer than the limit are under way.
MayTake ==
  /\ bridge.at = "serving" /\ bridge.mode = "stdio" /\ bridge.open
  /\ Cardinality(UnderWay) < MaxInFlight

TakeFrame ==
  /\ MayTake /\ bridge.input # <<>>
  /\ bridge' = [bridge EXCEPT !.input = Tail(@)]
  /\ requests' = [requests EXCEPT ![Head(bridge.input)] = Began(@)]
  /\ UNCHANGED <<slots, admissions>>

EndInput ==
  /\ MayTake /\ bridge.input = <<>>
  /\ bridge' = [bridge EXCEPT !.open = FALSE,
                              !.outcome = IF bridge.ends = "error" THEN "failed" ELSE @]
  /\ UNCHANGED <<slots, requests, admissions>>

InterruptBridge ==
  /\ bridge.at = "serving" /\ bridge.open
  /\ bridge' = [bridge EXCEPT !.open = FALSE]
  /\ UNCHANGED <<slots, requests, admissions>>

\* A request over HTTP: refused at once, or admitted and its body awaited.
Arrive(r) ==
  LET m == requests[r].message
      answer == IF ~bridge.open THEN "busy"
                ELSE IF ~Routed(m) \/ ~m.post \/ ~FromHere(m) THEN "refused"
                ELSE IF admissions = 0 THEN "busy"
                ELSE IF ~HeadersFit(m) THEN "refused" ELSE "none" IN
  /\ bridge.at = "serving" /\ bridge.mode = "http" /\ requests[r].at = "new"
  /\ requests' = [requests EXCEPT ![r].at = IF answer = "none" THEN "body" ELSE "done", ![r].answer = answer]
  /\ admissions' = IF answer = "none" THEN admissions - 1 ELSE admissions
  /\ UNCHANGED <<bridge, slots>>

\* The body is read in time, or is late, too large or no JSON; then the eras must agree.
ReadBody(r) ==
  LET m == requests[r].message IN
  /\ requests[r].at = "body"
  /\ IF m.body = "ok" /\ ErasAgree(m) /\ AcceptFits(m)
     THEN requests' = [requests EXCEPT ![r] = Began(@)] /\ UNCHANGED admissions
     ELSE /\ requests' = [requests EXCEPT ![r].at = "done", ![r].answer = "refused"]
          /\ admissions' = admissions + 1
  /\ UNCHANGED <<bridge, slots>>

----------------------------------------------------------------------------
(* An operation on a slot.                                                 *)

StepOf(r, b, task) == requests' = [requests EXCEPT ![r].tasks[b] = task]

Runs(r, b, at) == requests[r].at = "running" /\ requests[r].tasks[b].at = at

AdmitDownstream(r, b) ==
  /\ Runs(r, b, "waiting") /\ slots[b].free > 0
  /\ slots' = [slots EXCEPT ![b].free = @ - 1]
  /\ StepOf(r, b, [requests[r].tasks[b] EXCEPT !.at = "admitted"])
  /\ UNCHANGED <<bridge, admissions>>

\* The slot on top, which an admitted operation must find.
Pop(r, b) ==
  LET idle == slots[b].idle IN
  /\ requests[r].tasks[b].at = "admitted" /\ idle # <<>>
  /\ slots' = [slots EXCEPT ![b].idle = SubSeq(idle, 1, Len(idle) - 1)]
  /\ StepOf(r, b, [requests[r].tasks[b] EXCEPT
                   !.at = IF idle[Len(idle)] = "open" THEN "operating" ELSE "dialing",
                   !.connection = idle[Len(idle)]])
  /\ UNCHANGED <<bridge, admissions>>

Redial(r, b) ==
  /\ Runs(r, b, "dialing")
  /\ \/ StepOf(r, b, [requests[r].tasks[b] EXCEPT !.at = "operating", !.connection = "open"])
     \/ StepOf(r, b, [requests[r].tasks[b] EXCEPT !.at = "leaving", !.result = "failed"])
  /\ UNCHANGED <<bridge, slots, admissions>>

\* The server answers, answers with an error, or the connection fails.
Operate(r, b) ==
  /\ Runs(r, b, "operating")
  /\ \/ StepOf(r, b, [requests[r].tasks[b] EXCEPT !.at = "leaving", !.result = "ok"])
     \/ StepOf(r, b, [requests[r].tasks[b] EXCEPT !.at = "leaving", !.result = "failed"])
     \/ StepOf(r, b, [requests[r].tasks[b] EXCEPT !.at = "leaving", !.result = "failed", !.connection = "closed"])
  /\ UNCHANGED <<bridge, slots, admissions>>

\* The timeout covers operations that were admitted but not the wait.
GiveUpAdmitted(r, b) ==
  LET task == requests[r].tasks[b] IN
  /\ task.at = "dialing"
  /\ StepOf(r, b, [task EXCEPT !.at = "leaving", !.result = "failed"])
  /\ UNCHANGED <<bridge, slots, admissions>>

\* The timeout, which counts the wait and the reconnect, or the drop of the request:
\* the operation ends where it is, and a connection in use is closed.
GiveUp(r, b) ==
  LET task == requests[r].tasks[b] IN
  /\ \/ task.at = "waiting" /\ StepOf(r, b, [task EXCEPT !.at = "finished", !.result = "failed"])
     \/ task.at = "dialing" /\ StepOf(r, b, [task EXCEPT !.at = "leaving", !.result = "failed"])
     \/ /\ task.at = "operating"
        /\ StepOf(r, b, [task EXCEPT !.at = "leaving", !.result = "failed", !.connection = "closed"])
  /\ UNCHANGED <<bridge, slots, admissions>>

\* The lease is dropped: its slot goes back when there is a good connection in it.
PushGood(r, b) ==
  LET task == requests[r].tasks[b] IN
  /\ task.at = "leaving"
  /\ slots' = IF task.connection # "open" THEN slots
              ELSE [slots EXCEPT ![b].idle = Append(@, task.connection)]
  /\ StepOf(r, b, [task EXCEPT !.at = "pushed", !.connection = "none"])
  /\ UNCHANGED <<bridge, admissions>>

\* The lease is dropped: its slot goes back, whatever is in it, and then its permit.
PushBack(r, b) ==
  LET task == requests[r].tasks[b] IN
  /\ task.at = "leaving"
  /\ slots' = [slots EXCEPT ![b].idle = Append(@, task.connection)]
  /\ StepOf(r, b, [task EXCEPT !.at = "pushed", !.connection = "none"])
  /\ UNCHANGED <<bridge, admissions>>

ReturnPermit(r, b) ==
  /\ requests[r].tasks[b].at = "pushed"
  /\ slots' = [slots EXCEPT ![b].free = @ + 1]
  /\ StepOf(r, b, [requests[r].tasks[b] EXCEPT !.at = "finished"])
  /\ UNCHANGED <<bridge, admissions>>

----------------------------------------------------------------------------
(* Answers and the end.                                                    *)

Tasks(r) == {b \in Bridged : requests[r].tasks[b].at # "none"}

\* The first failure is the answer, and the tasks that are left are aborted;
\* otherwise all of them are waited for.
Conclude(r) ==
  LET done(result) == {b \in Tasks(r) : requests[r].tasks[b].at = "finished"
                                          /\ requests[r].tasks[b].result = result} IN
  /\ requests[r].at = "running"
  /\ \/ done("failed") # {} /\ requests' = [requests EXCEPT ![r].at = "answered", ![r].answer = "error"]
     \/ done("ok") = Tasks(r) /\ requests' = [requests EXCEPT ![r].at = "answered", ![r].answer = "ok"]
  /\ UNCHANGED <<bridge, slots, admissions>>

RespondDownstream(r) ==
  /\ requests[r].at = "answered" /\ bridge.at = "serving"
  /\ requests' = [requests EXCEPT ![r].at = "done"]
  /\ admissions' = IF bridge.mode = "http" THEN admissions + 1 ELSE admissions
  /\ UNCHANGED <<bridge, slots>>

\* An HTTP client goes away and its request is dropped.
Disconnect(r) ==
  /\ bridge.mode = "http" /\ requests[r].at \in {"body", "running"}
  /\ requests' = [requests EXCEPT ![r].at = "dropped"]
  /\ admissions' = admissions + 1
  /\ UNCHANGED <<bridge, slots>>

\* The output is closed: the loop ends with the error and drops what is under way.
OutputFails ==
  /\ bridge.at = "serving" /\ bridge.mode = "stdio"
  /\ \E r \in Downstream : requests[r].at = "answered" /\ requests[r].answer # "accepted"
  /\ bridge' = [bridge EXCEPT !.at = "left", !.outcome = "failed"]
  /\ requests' = [r \in Downstream |->
       IF r \in UnderWay THEN [requests[r] EXCEPT !.at = "dropped"] ELSE requests[r]]
  /\ UNCHANGED <<slots, admissions>>

\* The bridge leaves as soon as its input has ended.
LeaveAtOnce ==
  /\ bridge.at = "serving" /\ ~bridge.open
  /\ bridge' = [bridge EXCEPT !.at = "left", !.outcome = IF @ = "none" THEN "ok" ELSE @]
  /\ UNCHANGED <<slots, requests, admissions>>

\* The input has ended, or the endpoint was told to stop, and nothing is under way.
LeaveServing ==
  /\ bridge.at = "serving" /\ ~bridge.open /\ UnderWay = {}
  /\ bridge' = [bridge EXCEPT !.at = "left", !.outcome = IF @ = "none" THEN "ok" ELSE @]
  /\ UNCHANGED <<slots, requests, admissions>>

TaskStep(r, b) == AdmitDownstream(r, b) \/ Pop(r, b) \/ GiveUp(r, b) \/ PushBack(r, b) \/ ReturnPermit(r, b)

BridgeNext ==
  \/ Select \/ LinkFails \/ TakeFrame \/ EndInput \/ InterruptBridge \/ OutputFails \/ LeaveServing
  \/ \E b \in Bridged : Link(b)
  \/ \E r \in Downstream : Arrive(r) \/ ReadBody(r) \/ Conclude(r) \/ RespondDownstream(r) \/ Disconnect(r)
  \/ \E r \in Downstream, b \in Bridged : TaskStep(r, b) \/ Redial(r, b) \/ Operate(r, b)

BridgeAtRest ==
  /\ bridge.at = "left" \/ (bridge.mode = "http" /\ UnderWay = {} /\ bridge.at = "serving")
  /\ \A r \in Downstream, b \in Bridged : requests[r].tasks[b].at \in {"none", "finished"}

\* What the runtime goes on with by itself, timers included; servers need not answer.
\* Every such step brings a request or a task nearer to its end, so one weak fairness
\* condition does for all of them.
Progress ==
  \/ TakeFrame \/ EndInput \/ LeaveServing
  \/ \E r \in Downstream :
       \/ ReadBody(r) \/ Conclude(r) \/ RespondDownstream(r)
       \/ \E b \in Bridged : TaskStep(r, b)

BridgeFairness == WF_bridgeVars(Progress)

----------------------------------------------------------------------------
(* Properties.                                                             *)

\* No slot is lost or shared: of each server the idle slots and the leased ones
\* are as many as ever, and an operation that was admitted finds one ("Bridge
\* connection slot unavailable after admission" never happens), however many
\* operations fail, time out, are dropped or aborted.
SlotsAreKept ==
  \A b \in Bridged :
    LET at(states) == Cardinality({r \in Downstream : requests[r].tasks[b].at \in states}) IN
    b \in bridge.linked =>
      /\ Len(slots[b].idle) + at({"dialing", "operating", "leaving"}) = bridge.concurrency
      /\ at({"admitted"}) <= Len(slots[b].idle)

\* A bridge on stdin that leaves without an error answered every frame it took:
\* the requests under way when its input ends are waited for.
AnsweredBeforeLeaving ==
  bridge.at = "left" /\ bridge.outcome = "ok" =>
    \A r \in Downstream : requests[r].at \in {"new", "done", "dropped"}

\* In the end every downstream request that was taken is answered, or dropped by
\* its client, even when its servers never answer, and stdin that ended has
\* ended the bridge.
BridgeAnswers ==
  <>[](/\ \A r \in Downstream : requests[r].at \notin {"body", "running", "answered"}
       /\ bridge.mode = "stdio" /\ bridge.at = "serving" => bridge.open)
=============================================================================
