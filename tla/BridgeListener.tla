--------------------------- MODULE BridgeListener ---------------------------
(***************************************************************************)
(* Subscriptions of the HTTP bridge to changes of the tool lists: a        *)
(* connection of its own to each server, a short queue of events and a     *)
(* client that reads them when it likes, keep-alives in between and a last *)
(* event when the bridge stops.                                            *)
(***************************************************************************)
EXTENDS Integers, Sequences, FiniteSets

CONSTANTS
    Subscriptions,      \* subscriptions asked for
    Feeds,              \* the servers of the endpoint
    MaxQueuedEvents,    \* size of the queue of a subscription
    MaxListeners,       \* listening connections of the bridge
    MaxChanges,         \* bound: changes of tool lists
    MaxLosses           \* bound: listening connections lost

\* A queue of one event would be full with the acknowledgement alone.
ASSUME BridgeListenerAssumption ==
  /\ IsFiniteSet(Subscriptions) /\ IsFiniteSet(Feeds)
  /\ MaxQueuedEvents \in Nat \ {0, 1} /\ MaxListeners \in Nat
  /\ MaxChanges \in Nat /\ MaxLosses \in Nat

VARIABLES
    subscriptions,      \* the task of each subscription and its queue
    listening,          \* free listener permits
    stopping,           \* the shutdown signal of the bridge
    happened            \* changes and losses so far

listenerVars == <<subscriptions, listening, stopping, happened>>

Events == {"ack", "change", "alive", "complete"}
LiveStates == {"connecting", "subscribed", "acked", "running", "completing"}

BridgeListenerTypeOK ==
  /\ \A l \in Subscriptions :
       /\ subscriptions[l].at \in {"new", "refused", "done"} \cup LiveStates
       /\ subscriptions[l].wants \in BOOLEAN /\ subscriptions[l].seen \in BOOLEAN
       /\ subscriptions[l].reads \in BOOLEAN /\ subscriptions[l].stale \in BOOLEAN
       /\ subscriptions[l].queue \in Seq(Events) /\ Len(subscriptions[l].queue) <= MaxQueuedEvents
       /\ \A f \in Feeds : /\ subscriptions[l].link[f] \in {"none", "up", "down"}
                           /\ subscriptions[l].notices[f] \in 0..MaxChanges
  /\ listening \in 0..MaxListeners /\ stopping \in BOOLEAN
  /\ happened \in [changes : 0..MaxChanges, losses : 0..MaxLosses]

BridgeListenerInit(at, wants) ==
  /\ subscriptions = [l \in Subscriptions |->
       [at |-> at, wants |-> wants[l], seen |-> FALSE, reads |-> TRUE, stale |-> FALSE, queue |-> <<>>,
        link |-> [f \in Feeds |-> "none"], notices |-> [f \in Feeds |-> 0]]]
  /\ listening = MaxListeners
  /\ stopping = (at = "done")
  /\ happened = [changes |-> 0, losses |-> 0]

Becomes(l, subscription) ==
  /\ subscriptions' = [subscriptions EXCEPT ![l] = subscription]
  /\ UNCHANGED <<listening, stopping, happened>>

Room(subscription) == MaxQueuedEvents - Len(subscription.queue)
Queued(subscription, event) == [subscription EXCEPT !.queue = Append(@, event)]

\* What a subscription holds goes with its task.
Ended(subscription, at) ==
  [subscription EXCEPT !.at = at, !.link = [f \in Feeds |-> "none"],
                       !.notices = [f \in Feeds |-> 0], !.stale = FALSE]

End(l, subscription, at) ==
  /\ subscriptions' = [subscriptions EXCEPT ![l] = Ended(subscription, at)]
  /\ listening' = IF subscription.wants THEN listening + Cardinality(Feeds) ELSE listening
  /\ UNCHANGED <<stopping, happened>>

----------------------------------------------------------------------------
(* The start of a subscription.                                            *)

\* What is not a request to listen is answered and starts nothing.
NotAListen(l) ==
  /\ subscriptions[l].at = "new"
  /\ Becomes(l, [subscriptions[l] EXCEPT !.at = "refused"])

\* Refused while the bridge stops or when its listeners would be too many.
Start(l) ==
  LET subscription == subscriptions[l]
      listeners == IF subscription.wants THEN Cardinality(Feeds) ELSE 0 IN
  /\ subscription.at = "new"
  /\ IF stopping \/ listening < listeners
     THEN subscriptions' = [subscriptions EXCEPT ![l].at = "refused"] /\ UNCHANGED listening
     ELSE /\ subscriptions' = [subscriptions EXCEPT ![l].at = "connecting"]
          /\ listening' = listening - listeners
  /\ UNCHANGED <<stopping, happened>>

AttachFeed(l, f) ==
  LET subscription == subscriptions[l] IN
  /\ subscription.at = "connecting" /\ subscription.wants /\ subscription.link[f] = "none"
  /\ \/ Becomes(l, [subscription EXCEPT !.link[f] = "up"])
     \/ End(l, subscription, "refused")

\* All connections are there: the task is spawned, and sees later changes of the signal.
Subscribe(l) ==
  LET subscription == subscriptions[l] IN
  /\ subscription.at = "connecting"
  /\ subscription.wants => \A f \in Feeds : subscription.link[f] # "none"
  /\ Becomes(l, [subscription EXCEPT !.at = "subscribed", !.seen = stopping])

Acknowledge(l) ==
  LET subscription == subscriptions[l] IN
  /\ subscription.at = "subscribed"
  /\ IF subscription.reads THEN Becomes(l, [Queued(subscription, "ack") EXCEPT !.at = "acked"])
     ELSE End(l, subscription, "done")

\* The signal is not looked at: the task waits for a change of it.
Listen(l) ==
  LET subscription == subscriptions[l] IN
  /\ subscription.at = "acked"
  /\ Becomes(l, [subscription EXCEPT !.at = "running"])

\* A signal given before the task subscribed to it does not change any more: it is looked at once.
CheckSignal(l) ==
  LET subscription == subscriptions[l] IN
  /\ subscription.at = "acked"
  /\ Becomes(l, [subscription EXCEPT !.at = IF stopping THEN "completing" ELSE "running"])

----------------------------------------------------------------------------
(* A subscription that runs.                                               *)

\* A change of a tool list is queued; when the queue is full it is dropped, since
\* the client will read one that is queued already.
ForwardChange(l, f) ==
  LET subscription == [subscriptions[l] EXCEPT !.notices[f] = @ - 1, !.stale = TRUE] IN
  /\ subscriptions[l].at \in {"running", "completing"} /\ subscriptions[l].link[f] = "up"
  /\ subscriptions[l].notices[f] > 0
  /\ Becomes(l, IF subscription.reads /\ Room(subscription) > 0 THEN Queued(subscription, "change")
                ELSE subscription)

\* A notification too large for an event ends the subscription.
Overflow(l, f) ==
  /\ subscriptions[l].at = "running" /\ subscriptions[l].link[f] = "up"
  /\ subscriptions[l].notices[f] > 0
  /\ End(l, subscriptions[l], "done")

\* A listening connection is lost, and what it had not delivered with it.
Lose(l, f) ==
  LET subscription == subscriptions[l] IN
  /\ happened.losses < MaxLosses
  /\ subscription.at \in LiveStates /\ subscription.link[f] = "up"
  /\ subscriptions' = [subscriptions EXCEPT ![l].link[f] = "down", ![l].notices[f] = 0]
  /\ happened' = [happened EXCEPT !.losses = @ + 1]
  /\ UNCHANGED <<listening, stopping>>

\* It is made again after a while; until then the attempts fail and the wait grows.
Reattach(l, f) ==
  LET subscription == subscriptions[l] IN
  /\ subscription.at \in {"running", "completing"} /\ subscription.link[f] = "down"
  /\ Becomes(l, [subscription EXCEPT !.link[f] = "up"])

\* A keep-alive may take the last place of the queue.
KeepAliveAnyway(l) ==
  LET subscription == subscriptions[l] IN
  /\ subscription.at = "running" /\ subscription.reads /\ Room(subscription) > 0
  /\ Becomes(l, Queued(subscription, "alive"))

\* A keep-alive never takes the last place of the queue.
KeepAlive(l) ==
  LET subscription == subscriptions[l] IN
  /\ subscription.at = "running" /\ subscription.reads /\ Room(subscription) > 1
  /\ Becomes(l, Queued(subscription, "alive"))

Signalled(l) ==
  /\ subscriptions[l].at = "running" /\ stopping # subscriptions[l].seen
  /\ Becomes(l, [subscriptions[l] EXCEPT !.at = "completing"])

\* The last event waits for its place.
Complete(l) ==
  LET subscription == subscriptions[l] IN
  /\ subscription.at = "completing"
  /\ \/ subscription.reads /\ Room(subscription) > 0 /\ End(l, Queued(subscription, "complete"), "done")
     \/ ~subscription.reads /\ End(l, subscription, "done")

StreamClosed(l) ==
  /\ subscriptions[l].at = "running" /\ ~subscriptions[l].reads
  /\ End(l, subscriptions[l], "done")

----------------------------------------------------------------------------
(* The client, the servers and the end of the bridge.                      *)

Read(l) ==
  LET subscription == subscriptions[l] IN
  /\ subscription.reads /\ subscription.queue # <<>>
  /\ Becomes(l, [subscription EXCEPT !.queue = Tail(@),
                   !.stale = IF Head(subscription.queue) = "change" THEN FALSE ELSE @])

GoAway(l) ==
  /\ subscriptions[l].at \in LiveStates /\ subscriptions[l].reads
  /\ Becomes(l, [subscriptions[l] EXCEPT !.reads = FALSE, !.queue = <<>>, !.stale = FALSE])

ToolsChange(f) ==
  /\ happened.changes < MaxChanges
  /\ happened' = [happened EXCEPT !.changes = @ + 1]
  /\ subscriptions' = [l \in Subscriptions |->
       IF subscriptions[l].link[f] = "up" THEN [subscriptions[l] EXCEPT !.notices[f] = @ + 1]
       ELSE subscriptions[l]]
  /\ UNCHANGED <<listening, stopping>>

StopBridge ==
  /\ ~stopping
  /\ stopping' = TRUE
  /\ UNCHANGED <<subscriptions, listening, happened>>

SubscriptionStep(l) ==
  \/ Subscribe(l) \/ Acknowledge(l) \/ CheckSignal(l) \/ Signalled(l) \/ Complete(l) \/ StreamClosed(l)

BridgeListenerNext ==
  \/ StopBridge
  \/ \E f \in Feeds : ToolsChange(f)
  \/ \E l \in Subscriptions : NotAListen(l) \/ Start(l) \/ SubscriptionStep(l) \/ KeepAlive(l) \/ Read(l) \/ GoAway(l)
  \/ \E l \in Subscriptions, f \in Feeds :
       AttachFeed(l, f) \/ ForwardChange(l, f) \/ Overflow(l, f) \/ Lose(l, f) \/ Reattach(l, f)

BridgeListenerAtRest == \A l \in Subscriptions : subscriptions[l].at \in {"refused", "done"}

\* The tasks of the bridge are polled and a connection is made or fails in the end;
\* a client reads or goes away.
TasksStep == \E l \in Subscriptions : SubscriptionStep(l) \/ \E f \in Feeds : AttachFeed(l, f)
BridgeListenerFairness ==
  /\ WF_listenerVars(TasksStep)
  /\ \A l \in Subscriptions : WF_listenerVars(Read(l))

----------------------------------------------------------------------------
(* Properties.                                                             *)

\* A change that was dropped because the queue was full is covered by one that is
\* still in it: a client that was told of no change since the last one its
\* listeners saw has such an event to read, whatever the queue was filled with.
ChangesReachClients ==
  \A l \in Subscriptions :
    subscriptions[l].stale /\ subscriptions[l].reads =>
      \E i \in DOMAIN subscriptions[l].queue : subscriptions[l].queue[i] = "change"

\* When the bridge is told to stop, every subscription comes to its end, those
\* that were starting when the signal was given too.
StopEndsSubscriptions ==
  <>[](stopping => \A l \in Subscriptions : subscriptions[l].at \notin LiveStates)
=============================================================================
