------------------------------ MODULE MCServers ------------------------------
(***************************************************************************)
(* What serves messages, on small instances: the two kinds of upstream     *)
(* runtime, the delivery of their messages to clients, and the bridge with *)
(* its subscriptions. Each behaviour is one of one component, the subject; *)
(* the others stay where they start.                                       *)
(***************************************************************************)
EXTENDS HttpUpstream, StdioUpstream, Delivery, Bridge, BridgeListener, TLC

CONSTANTS c1, c2

VARIABLE subject

mcVars == <<subject, httpVars, stdioVars, deliveryVars, bridgeVars, listenerVars>>

\* Requests in the order of their submission.
Requests3 ==
  {<<"initialize", "initialized", "call">>, <<"discover", "initialize", "call">>,
   <<"malformed", "modern", "discover">>}

\* Answers that fill the queue of one client and a notice to both; questions of the server to a client;
\* a reader that asks nothing and a client that never reads.
Answers == <<[kind |-> "answer", for |-> <<c1, c1>>], [kind |-> "notice", for |-> <<>>]>>
Callbacks == <<[kind |-> "sampling", for |-> <<>>], [kind |-> "callback", for |-> <<>>]>>
Scenes ==
  {[messages |-> Answers, readers |-> {c2}, writers |-> {}, capable |-> {}],
   [messages |-> <<Callbacks[2]>>, readers |-> {c1}, writers |-> {c1}, capable |-> {c2}],
   [messages |-> <<Callbacks[1]>>, readers |-> {c1}, writers |-> {}, capable |-> {c2}],
   [messages |-> <<Callbacks[1]>>, readers |-> {c1}, writers |-> {}, capable |-> {}]}
Silence == [messages |-> <<>>, readers |-> {}, writers |-> {}, capable |-> {}]

\* Messages of a host over stdin, and of clients over HTTP.
Frame(asks, servers) == [asks |-> asks, path |-> "all", servers |-> servers, permitted |-> TRUE]
Both == {[media |-> "json", zero |-> FALSE], [media |-> "events", zero |-> FALSE]}
Posted ==
  [asks |-> "call", path |-> "all", servers |-> {"a"}, permitted |-> TRUE, post |-> TRUE, port |-> TRUE,
   host |-> "loopback", bind |-> "loopback", origin |-> "none", session |-> FALSE, json |-> TRUE,
   version |-> "none", methodHeader |-> "none", nameHeader |-> "none", names |-> TRUE, accepts |-> Both,
   body |-> "ok", meta |-> "none"]
Modern == [Posted EXCEPT !.version = "modern", !.methodHeader = "same", !.nameHeader = "same", !.meta = "modern"]

TwoServers == [b \in {"a", "b"} |-> [names |-> {b}, lifecycle |-> "keep-alive", known |-> FALSE]]
Options(mode, n) ==
  [flags |-> IF mode = "http" THEN {"--http", "--host"} ELSE {"--stdio"}, concurrency |-> n,
   enabled |-> {}, disabled |-> {}, only |-> {}]
OverStdio(messages, input, ends) ==
  [options |-> Options("stdio", 1), servers |-> TwoServers, messages |-> messages, input |-> input, ends |-> ends]
OverHttp(messages) ==
  [options |-> Options("http", 1), servers |-> TwoServers, messages |-> messages, input |-> <<>>, ends |-> "end"]

Call(b) == Frame("call", {b})
Hosts ==
  {OverStdio(<<Frame("list", {}), Call("a"), Call("a")>>, <<1, 2, 3>>, "end"),
   [OverStdio(<<Call("a"), Call("a"), Frame("list", {})>>, <<1, 2, 3>>, "end") EXCEPT
      !.options.concurrency = 2, !.options.only = {"a"}, !.servers["b"].lifecycle = "default"],
   OverStdio(<<Frame("notification", {}), Frame("ping", {}), [Call("a") EXCEPT !.permitted = FALSE]>>,
             <<1, 2, 3>>, "error"),
   [OverStdio(<<Frame("bad call", {}), Call("b"), Frame("malformed", {})>>, <<3, 2, 1>>, "end") EXCEPT
      !.options.disabled = {"a"}],
   [OverHttp(<<[Posted EXCEPT !.asks = "list"], [Posted EXCEPT !.servers = {"b"}, !.path = "one"], Posted>>)
      EXCEPT !.options.only = {"a"}],
   OverHttp(<<[Posted EXCEPT !.origin = "other"], [Posted EXCEPT !.body = "late"],
              [Posted EXCEPT !.version = "modern"]>>),
   OverHttp(<<[Posted EXCEPT !.session = TRUE], [Modern EXCEPT !.asks = "discover"],
              [Posted EXCEPT !.path = "unknown"]>>),
   [OverHttp(<<Posted, Posted, Posted>>) EXCEPT !.options.flags = {"--http", "--stdio"}],
   [OverHttp(<<Posted, Posted, Posted>>) EXCEPT !.options.only = {"b"}, !.options.disabled = {"b"}],
   OverHttp(<<Modern, [Modern EXCEPT !.nameHeader = "other"], [Posted EXCEPT !.accepts = {}]>>)}
Idly == {OverHttp(<<Posted, Posted, Posted>>)}

MCInit ==
  /\ subject \in {"http", "stdio", "delivery", "bridge", "listener"}
  /\ HttpInit(IF subject = "http" THEN Requests3 ELSE {<<"call", "call", "call">>})
  /\ StdioInit
  /\ DeliveryInit(IF subject = "delivery" THEN Scenes ELSE {Silence})
  /\ BridgeInit(IF subject = "bridge" THEN Hosts ELSE Idly)
  /\ \E wants \in IF subject = "listener" THEN {<<TRUE, TRUE>>, <<FALSE, TRUE>>} ELSE {<<TRUE, TRUE>>} :
       BridgeListenerInit(IF subject = "listener" THEN "new" ELSE "done", wants)

AtRest ==
  /\ \/ subject = "http" /\ HttpAtRest
     \/ subject = "stdio" /\ StdioAtRest
     \/ subject = "delivery" /\ DeliveryAtRest
     \/ subject = "bridge" /\ BridgeAtRest
     \/ subject = "listener" /\ BridgeListenerAtRest
  /\ UNCHANGED mcVars

\* Steps of one component leave the others alone.
OfHttp(A) ==
  subject = "http" /\ A /\ UNCHANGED <<subject, stdioVars, deliveryVars, bridgeVars, listenerVars>>
OfStdio(A) ==
  subject = "stdio" /\ A /\ UNCHANGED <<subject, httpVars, deliveryVars, bridgeVars, listenerVars>>
OfDelivery(A) ==
  subject = "delivery" /\ A /\ UNCHANGED <<subject, httpVars, stdioVars, bridgeVars, listenerVars>>
OfBridge(A) ==
  subject = "bridge" /\ A /\ UNCHANGED <<subject, httpVars, stdioVars, deliveryVars, listenerVars>>
OfListener(A) ==
  subject = "listener" /\ A /\ UNCHANGED <<subject, httpVars, stdioVars, deliveryVars, bridgeVars>>

MCNext ==
  \/ OfHttp(HttpNext) \/ OfStdio(StdioNext) \/ OfDelivery(DeliveryNext)
  \/ OfBridge(BridgeNext) \/ OfListener(BridgeListenerNext)
  \/ AtRest

\* The fairness of the subject, as its module states it; the others have nothing to do.
MCFairness ==
  /\ WF_httpVars(subject = "http" /\ RuntimeStep)
  /\ WF_httpVars(subject = "http" /\ stream.at = "failing" /\ StreamBreaks)
  /\ WF_httpVars(subject = "http" /\ StreamSend)
  /\ WF_stdioVars(subject = "stdio" /\ OwnerActs)
  /\ WF_stdioVars(subject = "stdio" /\ (handle # "in" \/ In(1, {"zombie"})) /\ Interrupt)
  /\ WF_deliveryVars(subject = "delivery" /\ ShutDown)
  /\ WF_bridgeVars(subject = "bridge" /\ Progress)
  /\ WF_listenerVars(subject = "listener" /\ TasksStep)
  /\ \A l \in Subscriptions : WF_listenerVars(subject = "listener" /\ Read(l))

MCSpec == MCInit /\ [][MCNext]_mcVars /\ MCFairness

\* The variables of each component have the values that its code can give them.
TypeOK == HttpTypeOK /\ StdioTypeOK /\ DeliveryTypeOK /\ BridgeTypeOK /\ BridgeListenerTypeOK

\* Each kind of upstream keeps what the owner of a generation relies on: nothing of a
\* retired upstream is alive, or is sent, ever again (upstream.rs, UpstreamHandle).
Contract ==
  INSTANCE UpstreamContract WITH
    Upstreams <- {"stdio", "http"},
    stage <- [u \in {"stdio", "http"} |-> IF u = "stdio" THEN StdioStage ELSE HttpStage],
    alive <- [u \in {"stdio", "http"} |-> IF u = "stdio" THEN StdioAlive ELSE HttpAlive],
    traffic <- [u \in {"stdio", "http"} |-> IF u = "stdio" THEN StdioTraffic ELSE HttpTraffic]
UpstreamsKeepContract == Contract!Spec

\* The bridge keeps its clients for later requests, answers before it leaves, and
\* lets no subscriber miss a change (mcp_bridge_clients.rs, mcp_bridge_stdio.rs,
\* mcp_bridge_http_sse.rs).
BridgeSafety == SlotsAreKept /\ AnsweredBeforeLeaving /\ ChangesReachClients

\* Every call of a client comes to an end: what is posted over HTTP is answered or the
\* upstream ends, and a stdio upstream that is retired reports what became of its
\* processes (upstream_http.rs, upstream_stdio.rs).
UpstreamsSettle == HttpAnswered /\ RetirementIsReported

\* The bridge leaves no client waiting: a request is answered or refused, and a
\* subscription ends when the bridge stops (mcp_bridge.rs, mcp_bridge_http_sse.rs).
BridgeResponds == BridgeAnswers /\ StopEndsSubscriptions
=============================================================================
