---------------------------- MODULE ServersProofs ----------------------------
(***************************************************************************)
(* What serves messages, for every instance: the subscriptions of the      *)
(* bridge, its slots and answers, the delivery of a server's messages to   *)
(* its clients, and the contract of the upstreams with their owner.        *)
(***************************************************************************)
EXTENDS MCServers, UpstreamProofs, TLAPS, FiniteSetTheorems, SequenceTheorems

-----------------------------------------------------------------------------
(* Subscriptions: one of them.                                             *)

Subscription ==
  [at : {"new", "refused", "done"} \cup LiveStates, wants : BOOLEAN, seen : BOOLEAN,
   reads : BOOLEAN, stale : BOOLEAN, queue : Seq(Events),
   link : [Feeds -> {"none", "up", "down"}], notices : [Feeds -> Nat]]

(* A change is among the events that wait for the client.                  *)
ToldOfChange(queue) == \E i \in DOMAIN queue : queue[i] = "change"

(* What holds of a subscription after so many changes: its queue is empty  *)
(* until it is acknowledged, and as long as no change is in it there is    *)
(* room for one.                                                           *)
SubscriptionInv(s, changes) ==
  /\ Len(s.queue) <= MaxQueuedEvents
  /\ s.at \in {"new", "connecting", "subscribed"} => s.queue = <<>>
  /\ \A f \in Feeds : s.notices[f] <= changes
  /\ s.at \in LiveStates /\ ~ToldOfChange(s.queue) => Len(s.queue) < MaxQueuedEvents
  /\ s.stale /\ s.reads => ToldOfChange(s.queue)

Good(s, changes) == s \in Subscription /\ SubscriptionInv(s, changes)

(* An event goes to the end of a queue, and the client reads the first.    *)
LEMMA QueueAppend ==
  ASSUME NEW q \in Seq(Events), NEW e \in Events
  PROVE  /\ Append(q, e) \in Seq(Events) /\ Len(Append(q, e)) = Len(q) + 1
         /\ ToldOfChange(Append(q, e)) <=> ToldOfChange(q) \/ e = "change"
<1> DEFINE r == Append(q, e)
<1>1. r \in Seq(Events) /\ Len(r) = Len(q) + 1 /\ DOMAIN r = 1..(Len(q) + 1) /\ DOMAIN q = 1..Len(q)
  OBVIOUS
<1>2. Len(q) \in Nat /\ r[Len(q) + 1] = e /\ \A i \in 1..Len(q) : r[i] = q[i]
  OBVIOUS
<1>3. ASSUME ToldOfChange(r) PROVE ToldOfChange(q) \/ e = "change"
  BY <1>1, <1>2, <1>3 DEF ToldOfChange
<1>4. ASSUME ToldOfChange(q) \/ e = "change" PROVE ToldOfChange(r)
  <2>1. CASE e = "change"
    BY <1>1, <1>2, <2>1 DEF ToldOfChange
  <2>2. CASE ToldOfChange(q)
    BY <1>1, <1>2, <2>2 DEF ToldOfChange
  <2>3. QED
    BY <1>4, <2>1, <2>2
<1>5. QED
  BY <1>1, <1>3, <1>4

LEMMA QueueTail ==
  ASSUME NEW q \in Seq(Events), q # <<>>
  PROVE  /\ Tail(q) \in Seq(Events) /\ Len(Tail(q)) = Len(q) - 1 /\ Len(q) > 0
         /\ ToldOfChange(q) /\ Head(q) # "change" => ToldOfChange(Tail(q))
<1> DEFINE r == Tail(q)
<1>1. r \in Seq(Events) /\ Len(r) = Len(q) - 1 /\ Len(q) \in Nat \ {0}
  OBVIOUS
<1>2. DOMAIN r = 1..(Len(q) - 1) /\ DOMAIN q = 1..Len(q) /\ Head(q) = q[1]
  BY <1>1
<1>3. \A i \in 1..(Len(q) - 1) : r[i] = q[i + 1]
  BY <1>1
<1>4. ASSUME ToldOfChange(q), Head(q) # "change" PROVE ToldOfChange(r)
  <2>1. PICK i \in 1..Len(q) : q[i] = "change"
    BY <1>2, <1>4 DEF ToldOfChange
  <2>2. i # 1 /\ i - 1 \in 1..(Len(q) - 1) /\ r[i - 1] = q[i]
    BY <1>1, <1>2, <1>3, <1>4, <2>1
  <2>3. QED
    BY <1>2, <2>1, <2>2 DEF ToldOfChange
<1>5. QED
  BY <1>1, <1>4

LEMMA QueueEmpty == <<>> \in Seq(Events) /\ Len(<<>>) = 0 /\ ~ToldOfChange(<<>>)
  BY DEF ToldOfChange

(* Each step of a subscription leaves a good one.                          *)
LEMMA GoodMoves ==
  ASSUME NEW n \in Nat, NEW s, Good(s, n), NEW at,
         \/ s.at \in LiveStates /\ at \in LiveStates \ {"connecting", "subscribed"}
         \/ s.at \in {"new", "connecting"} /\ at \in {"connecting", "subscribed", "refused"}
         \/ at \in {"done", "refused"},
         NEW t, t = [s EXCEPT !.at = at]
  PROVE  Good(t, n)
<1>1. /\ t.at = at /\ t.wants = s.wants /\ t.seen = s.seen /\ t.reads = s.reads /\ t.stale = s.stale
      /\ t.queue = s.queue /\ t.link = s.link /\ t.notices = s.notices /\ t \in Subscription
  BY DEF Good, Subscription, LiveStates
<1>2. s.queue = <<>> => Len(s.queue) < MaxQueuedEvents
  BY QueueEmpty, BridgeListenerAssumption
<1>3. QED
  BY <1>1, <1>2 DEF Good, SubscriptionInv, LiveStates

LEMMA GoodSubscribed ==
  ASSUME NEW n \in Nat, NEW s, Good(s, n), s.at = "connecting", NEW seen \in BOOLEAN,
         NEW t, t = [s EXCEPT !.at = "subscribed", !.seen = seen]
  PROVE  Good(t, n)
<1>1. /\ t.at = "subscribed" /\ t.wants = s.wants /\ t.reads = s.reads /\ t.stale = s.stale
      /\ t.queue = s.queue /\ t.link = s.link /\ t.notices = s.notices /\ t \in Subscription
  BY DEF Good, Subscription, LiveStates
<1>2. QED
  BY <1>1 DEF Good, SubscriptionInv, LiveStates

LEMMA GoodLinks ==
  ASSUME NEW n \in Nat, NEW s, Good(s, n), NEW link \in [Feeds -> {"none", "up", "down"}],
         NEW notices \in [Feeds -> Nat], \A f \in Feeds : notices[f] <= n,
         NEW t, t = [s EXCEPT !.link = link, !.notices = notices]
  PROVE  Good(t, n)
<1>1. /\ t.at = s.at /\ t.wants = s.wants /\ t.seen = s.seen /\ t.reads = s.reads /\ t.stale = s.stale
      /\ t.queue = s.queue /\ t.link = link /\ t.notices = notices /\ t \in Subscription
  BY DEF Good, Subscription
<1>2. QED
  BY <1>1 DEF Good, SubscriptionInv

LEMMA GoodQueued ==
  ASSUME NEW n \in Nat, NEW s, Good(s, n), NEW e \in Events,
         \/ Len(s.queue) + 1 < MaxQueuedEvents
         \/ e = "change" /\ Len(s.queue) < MaxQueuedEvents
         \/ s.at \notin LiveStates /\ Len(s.queue) < MaxQueuedEvents,
         s.at \notin {"new", "connecting", "subscribed"},
         NEW t, t = Queued(s, e)
  PROVE  Good(t, n)
<1>0. s.queue \in Seq(Events)
  BY DEF Good, Subscription
<1>1. /\ t.at = s.at /\ t.wants = s.wants /\ t.seen = s.seen /\ t.reads = s.reads /\ t.stale = s.stale
      /\ t.queue = Append(s.queue, e) /\ t.link = s.link /\ t.notices = s.notices
      /\ t \in Subscription
  BY <1>0, QueueAppend DEF Good, Subscription, Queued
<1>2. Len(t.queue) = Len(s.queue) + 1 /\ Len(s.queue) \in Nat
      /\ (ToldOfChange(t.queue) <=> ToldOfChange(s.queue) \/ e = "change")
  BY <1>0, <1>1, QueueAppend
<1>3. QED
  BY <1>1, <1>2, BridgeListenerAssumption DEF Good, SubscriptionInv

LEMMA GoodEnded ==
  ASSUME NEW n \in Nat, NEW s, Good(s, n), NEW at \in {"refused", "done"},
         NEW t, t = Ended(s, at)
  PROVE  Good(t, n)
<1>1. /\ t.at = at /\ t.wants = s.wants /\ t.seen = s.seen /\ t.reads = s.reads /\ t.stale = FALSE
      /\ t.queue = s.queue /\ t \in Subscription
      /\ \A f \in Feeds : t.notices[f] = 0
  BY DEF Good, Subscription, Ended
<1>2. QED
  BY <1>1 DEF Good, SubscriptionInv, LiveStates

(* A change passed on: there is room for it or one waits already.          *)
LEMMA GoodForwarded ==
  ASSUME NEW n \in Nat, NEW s, Good(s, n), s.at \in {"running", "completing"},
         NEW f \in Feeds, s.notices[f] > 0, NEW t,
         t = [s EXCEPT !.notices[f] = @ - 1, !.stale = TRUE]
  PROVE  Good(IF t.reads /\ Room(t) > 0 THEN Queued(t, "change") ELSE t, n)
<1>1. /\ t.at = s.at /\ t.wants = s.wants /\ t.seen = s.seen /\ t.reads = s.reads /\ t.stale = TRUE
      /\ t.queue = s.queue /\ t.link = s.link
      /\ t.notices = [s.notices EXCEPT ![f] = @ - 1]
  BY DEF Good, Subscription
<1>2. t.notices \in [Feeds -> Nat] /\ \A g \in Feeds : t.notices[g] <= n
  BY <1>1 DEF Good, Subscription, SubscriptionInv
<1>3. t \in Subscription
  BY <1>1, <1>2 DEF Good, Subscription
<1>4. s.queue \in Seq(Events) /\ Len(s.queue) \in Nat
  BY DEF Good, Subscription
<1>5. CASE t.reads /\ Room(t) > 0
  <2> DEFINE u == Queued(t, "change")
  <2>6. PICK queue \in Seq(Events) : queue = Append(t.queue, "change")
    BY <1>1, <1>4, QueueAppend DEF Events
  <2>7. u = [t EXCEPT !.queue = queue]
    BY <2>6 DEF Queued
  <2>1. /\ u.at = s.at /\ u.wants = s.wants /\ u.seen = s.seen /\ u.reads = s.reads /\ u.stale = TRUE
        /\ u.queue = Append(s.queue, "change") /\ u.link = s.link /\ u.notices = t.notices
        /\ u \in Subscription
    <3>1. u \in Subscription
      BY <1>3, <2>7 DEF Subscription
    <3>2. /\ u.at = t.at /\ u.wants = t.wants /\ u.seen = t.seen /\ u.reads = t.reads
          /\ u.stale = t.stale /\ u.queue = queue /\ u.link = t.link /\ u.notices = t.notices
      BY <1>3, <2>7 DEF Subscription
    <3>3. QED
      BY <1>1, <2>6, <3>1, <3>2
  <2>2. Len(u.queue) = Len(s.queue) + 1 /\ ToldOfChange(u.queue)
    BY <1>4, <2>1, QueueAppend DEF Events
  <2> HIDE DEF u
  <2>3. Len(s.queue) < MaxQueuedEvents
    BY <1>1, <1>4, <1>5, BridgeListenerAssumption DEF Room
  <2>4. Good(u, n)
    BY <1>2, <1>4, <2>1, <2>2, <2>3, BridgeListenerAssumption DEF Good, SubscriptionInv
  <2>5. QED
    BY <1>5, <2>4 DEF u
<1>6. CASE ~(t.reads /\ Room(t) > 0)
  <2>1. t.reads => ToldOfChange(t.queue)
    BY <1>1, <1>4, <1>6, BridgeListenerAssumption DEF Room, Good, SubscriptionInv, LiveStates
  <2>2. Good(t, n)
    BY <1>1, <1>2, <1>3, <2>1 DEF Good, SubscriptionInv
  <2>3. QED
    BY <1>6, <2>2
<1>7. QED
  BY <1>5, <1>6

(* The client reads an event, or goes away and reads no more.              *)
LEMMA GoodRead ==
  ASSUME NEW n \in Nat, NEW s, Good(s, n), s.queue # <<>>,
         NEW t, t = [s EXCEPT !.queue = Tail(@), !.stale = IF Head(s.queue) = "change" THEN FALSE ELSE @]
  PROVE  Good(t, n)
<1>0. s.queue \in Seq(Events) /\ Len(s.queue) \in Nat
  BY DEF Good, Subscription
<1>1. /\ t.at = s.at /\ t.wants = s.wants /\ t.seen = s.seen /\ t.reads = s.reads
      /\ t.stale = (IF Head(s.queue) = "change" THEN FALSE ELSE s.stale)
      /\ t.queue = Tail(s.queue) /\ t.link = s.link /\ t.notices = s.notices
      /\ t \in Subscription
  BY <1>0, QueueTail DEF Good, Subscription
<1>2. Len(t.queue) = Len(s.queue) - 1 /\ Len(s.queue) > 0
      /\ (ToldOfChange(s.queue) /\ Head(s.queue) # "change" => ToldOfChange(t.queue))
  BY <1>0, <1>1, QueueTail
<1>3. QED
  BY <1>0, <1>1, <1>2, BridgeListenerAssumption DEF Good, SubscriptionInv

LEMMA GoodGone ==
  ASSUME NEW n \in Nat, NEW s, Good(s, n),
         NEW t, t = [s EXCEPT !.reads = FALSE, !.queue = <<>>, !.stale = FALSE]
  PROVE  Good(t, n)
<1>1. /\ t.at = s.at /\ t.wants = s.wants /\ t.seen = s.seen /\ t.reads = FALSE
      /\ t.queue = <<>> /\ t.link = s.link /\ t.notices = s.notices
      /\ t \in Subscription
  BY QueueEmpty DEF Good, Subscription
<1>2. QED
  BY <1>1, QueueEmpty, BridgeListenerAssumption DEF Good, SubscriptionInv

-----------------------------------------------------------------------------
(* Subscriptions: all of them, and the permits they hold.                  *)

(* Who holds a permit for each of the servers.                             *)
Listeners == {l \in Subscriptions : subscriptions[l].at \in LiveStates /\ subscriptions[l].wants}

PermitsAreKept ==
  /\ listening \in Nat
  /\ listening + Cardinality(Listeners) * Cardinality(Feeds) = MaxListeners

ListenerInv ==
  /\ stopping \in BOOLEAN
  /\ happened \in [changes : 0..MaxChanges, losses : 0..MaxLosses]
  /\ DOMAIN subscriptions = Subscriptions
  /\ subscriptions = [l \in Subscriptions |-> subscriptions[l]]
  /\ \A l \in Subscriptions : Good(subscriptions[l], happened.changes)
  /\ PermitsAreKept

(* A subscription that starts or ends takes or gives back its permits.     *)
LEMMA OneListenerMore ==
  ASSUME NEW S, IsFiniteSet(S), NEW l, l \notin S, NEW free \in Int,
         free + Cardinality(S) * Cardinality(Feeds) = MaxListeners
  PROVE  (free - Cardinality(Feeds)) + Cardinality(S \cup {l}) * Cardinality(Feeds) = MaxListeners
<1>1. Cardinality(Feeds) \in Nat /\ Cardinality(S) \in Nat
  BY FS_CardinalityType, BridgeListenerAssumption
<1>2. Cardinality(S \cup {l}) = Cardinality(S) + 1
  BY FS_AddElement
<1>3. \A n, k \in Int : (n + 1) * k = n * k + k
  BY SMT
<1>4. Cardinality(S \cup {l}) * Cardinality(Feeds)
        = Cardinality(S) * Cardinality(Feeds) + Cardinality(Feeds)
  BY <1>1, <1>2, <1>3
<1>5. Cardinality(S) * Cardinality(Feeds) \in Int
  BY <1>1
<1>6. QED
  BY <1>1, <1>4, <1>5, BridgeListenerAssumption

LEMMA OneListenerLess ==
  ASSUME NEW S, IsFiniteSet(S), NEW l \in S, NEW free \in Int,
         free + Cardinality(S) * Cardinality(Feeds) = MaxListeners
  PROVE  (free + Cardinality(Feeds)) + Cardinality(S \ {l}) * Cardinality(Feeds) = MaxListeners
<1>1. Cardinality(Feeds) \in Nat /\ Cardinality(S) \in Nat
  BY FS_CardinalityType, BridgeListenerAssumption
<1>2. Cardinality(S \ {l}) = Cardinality(S) - 1
  BY FS_RemoveElement
<1>3. \A n, k \in Int : (n - 1) * k = n * k - k
  BY SMT
<1>4. Cardinality(S \ {l}) * Cardinality(Feeds)
        = Cardinality(S) * Cardinality(Feeds) - Cardinality(Feeds)
  BY <1>1, <1>2, <1>3
<1>5. Cardinality(S) * Cardinality(Feeds) \in Int
  BY <1>1
<1>6. QED
  BY <1>1, <1>4, <1>5, BridgeListenerAssumption

(* One subscription changes; its permits move with it.                     *)
LEMMA ListenerFrame ==
  ASSUME ListenerInv, NEW l \in Subscriptions, NEW t, Good(t, happened'.changes),
         subscriptions' = [subscriptions EXCEPT ![l] = t], t.wants = subscriptions[l].wants,
         happened' \in [changes : 0..MaxChanges, losses : 0..MaxLosses],
         happened'.changes = happened.changes, stopping' = stopping, listening' \in Nat,
         LET live == subscriptions[l].at \in LiveStates
             lives == t.at \in LiveStates
         IN  \/ (live <=> lives) /\ listening' = listening
             \/ ~t.wants /\ listening' = listening
             \/ ~live /\ lives /\ t.wants /\ listening' = listening - Cardinality(Feeds)
             \/ live /\ ~lives /\ t.wants /\ listening' = listening + Cardinality(Feeds)
  PROVE  ListenerInv'
<1>1. /\ subscriptions'[l] = t /\ \A k \in Subscriptions \ {l} : subscriptions'[k] = subscriptions[k]
      /\ DOMAIN subscriptions' = Subscriptions
      /\ subscriptions' = [k \in Subscriptions |-> subscriptions'[k]]
  BY DEF ListenerInv
<1>2. \A k \in Subscriptions : Good(subscriptions'[k], happened'.changes)
  BY <1>1 DEF ListenerInv
<1>3. IsFiniteSet(Listeners) /\ listening \in Int
  BY FS_Subset, BridgeListenerAssumption DEF Listeners, ListenerInv, PermitsAreKept
<1>4. listening' + Cardinality(Listeners') * Cardinality(Feeds) = MaxListeners
  <2> DEFINE live == subscriptions[l].at \in LiveStates
             lives == t.at \in LiveStates
  <2>1. CASE ((live <=> lives) \/ ~t.wants) /\ listening' = listening
    <3>1. Listeners' = Listeners
      BY <1>1, <2>1 DEF Listeners
    <3>2. QED
      BY <3>1, <2>1 DEF ListenerInv, PermitsAreKept
  <2>2. CASE ~live /\ lives /\ t.wants /\ listening' = listening - Cardinality(Feeds)
    <3>1. Listeners' = Listeners \cup {l} /\ l \notin Listeners
      BY <1>1, <2>2 DEF Listeners
    <3>2. QED
      BY <1>3, <2>2, <3>1, OneListenerMore DEF ListenerInv, PermitsAreKept
  <2>3. CASE live /\ ~lives /\ t.wants /\ listening' = listening + Cardinality(Feeds)
    <3>1. Listeners' = Listeners \ {l} /\ l \in Listeners
      BY <1>1, <2>3 DEF Listeners
    <3>2. QED
      BY <1>3, <2>3, <3>1, OneListenerLess DEF ListenerInv, PermitsAreKept
  <2>4. QED
    BY <2>1, <2>2, <2>3
<1>5. QED
  BY <1>1, <1>2, <1>4 DEF ListenerInv, PermitsAreKept

(* A subscription that stays alive, or stays away, and one that ends.      *)
LEMMA ListenerBecomes ==
  ASSUME ListenerInv, NEW l \in Subscriptions, NEW t, Good(t, happened.changes), Becomes(l, t),
         t.wants = subscriptions[l].wants,
         t.at \in LiveStates <=> subscriptions[l].at \in LiveStates
  PROVE  ListenerInv'
<1>1. happened' = happened /\ listening' = listening /\ stopping' = stopping
      /\ subscriptions' = [subscriptions EXCEPT ![l] = t]
  BY DEF Becomes
<1>2. QED
  BY <1>1, ListenerFrame DEF ListenerInv, PermitsAreKept

LEMMA ListenerEnds ==
  ASSUME ListenerInv, NEW l \in Subscriptions, NEW s, Good(s, happened.changes),
         s.wants = subscriptions[l].wants, subscriptions[l].at \in LiveStates,
         NEW at \in {"refused", "done"}, End(l, s, at)
  PROVE  ListenerInv'
<1> DEFINE t == Ended(s, at)
<1>1. Good(t, happened.changes)
  BY GoodEnded DEF ListenerInv
<1>2. t.wants = s.wants /\ t.at = at /\ s.wants \in BOOLEAN
  BY DEF Ended, Good, Subscription
<1>3. happened' = happened /\ stopping' = stopping /\ subscriptions' = [subscriptions EXCEPT ![l] = t]
      /\ listening' = IF s.wants THEN listening + Cardinality(Feeds) ELSE listening
  BY DEF End
<1>4. Cardinality(Feeds) \in Nat /\ listening \in Nat
  BY FS_CardinalityType, BridgeListenerAssumption DEF ListenerInv, PermitsAreKept
<1>5. at \notin LiveStates
  BY DEF LiveStates
<1> HIDE DEF t
<1>6. QED
  BY <1>1, <1>2, <1>3, <1>4, <1>5, ListenerFrame DEF ListenerInv

LEMMA ListenerFacts ==
  ASSUME ListenerInv, NEW l \in Subscriptions
  PROVE  /\ happened.changes \in Nat /\ Good(subscriptions[l], happened.changes)
         /\ subscriptions[l] \in Subscription /\ subscriptions[l].wants \in BOOLEAN
         /\ subscriptions[l].queue \in Seq(Events) /\ Len(subscriptions[l].queue) \in Nat
         /\ listening \in Nat /\ Cardinality(Feeds) \in Nat
  BY FS_CardinalityType, BridgeListenerAssumption
     DEF ListenerInv, PermitsAreKept, Good, Subscription

-----------------------------------------------------------------------------
(* The invariant of the subscriptions is inductive.                        *)

LEMMA ListenerStarts ==
  ASSUME ListenerInv, NEW l \in Subscriptions,
         NotAListen(l) \/ Start(l) \/ Subscribe(l) \/ Acknowledge(l) \/ CheckSignal(l)
  PROVE  ListenerInv'
<1> USE ListenerFacts
<1> DEFINE s == subscriptions[l]
<1>1. CASE NotAListen(l)
  <2> DEFINE t == [s EXCEPT !.at = "refused"]
  <2>1. Good(t, happened.changes)
    BY <1>1, GoodMoves DEF NotAListen
  <2>2. t.wants = s.wants /\ t.at = "refused" /\ s.at = "new" /\ Becomes(l, t)
    BY <1>1 DEF NotAListen, Subscription
  <2> HIDE DEF t
  <2>3. QED
    BY <2>1, <2>2, ListenerBecomes DEF LiveStates
<1>2. CASE Start(l) /\ (stopping \/ listening < IF s.wants THEN Cardinality(Feeds) ELSE 0)
  <2> DEFINE t == [s EXCEPT !.at = "refused"]
  <2>1. Good(t, happened.changes)
    BY <1>2, GoodMoves DEF Start
  <2>2. /\ t.wants = s.wants /\ t.at = "refused" /\ s.at = "new"
        /\ subscriptions' = [subscriptions EXCEPT ![l] = t]
        /\ UNCHANGED <<listening, stopping, happened>>
    BY <1>2 DEF Start, Subscription
  <2> HIDE DEF t
  <2>3. QED
    BY <2>1, <2>2, ListenerBecomes DEF LiveStates, Becomes
<1>3. CASE Start(l) /\ ~(stopping \/ listening < IF s.wants THEN Cardinality(Feeds) ELSE 0)
  <2> DEFINE t == [s EXCEPT !.at = "connecting"]
  <2>1. Good(t, happened.changes)
    BY <1>3, GoodMoves DEF Start
  <2>2. /\ t.wants = s.wants /\ t.at = "connecting" /\ s.at = "new"
        /\ subscriptions' = [subscriptions EXCEPT ![l] = t]
        /\ listening' = listening - IF s.wants THEN Cardinality(Feeds) ELSE 0
        /\ UNCHANGED <<stopping, happened>>
    BY <1>3 DEF Start, Subscription
  <2> HIDE DEF t
  <2>3. listening' \in Nat
    BY <1>3, <2>2
  <2>4. CASE s.wants
    BY <2>1, <2>2, <2>3, <2>4, ListenerFrame DEF LiveStates, ListenerInv
  <2>5. CASE ~s.wants
    <3>1. listening' = listening
      BY <2>2, <2>5
    <3>2. QED
      BY <2>1, <2>2, <2>3, <2>5, <3>1, ListenerFrame DEF LiveStates, ListenerInv
  <2>6. QED
    BY <2>4, <2>5
<1>4. CASE Subscribe(l)
  <2> DEFINE t == [s EXCEPT !.at = "subscribed", !.seen = stopping]
  <2>1. Good(t, happened.changes)
    BY <1>4, GoodSubscribed DEF Subscribe, ListenerInv
  <2>2. t.wants = s.wants /\ t.at = "subscribed" /\ s.at = "connecting" /\ Becomes(l, t)
    BY <1>4 DEF Subscribe, Subscription
  <2> HIDE DEF t
  <2>3. QED
    BY <2>1, <2>2, ListenerBecomes DEF LiveStates
<1>5. CASE Acknowledge(l) /\ s.reads
  <2> DEFINE u == [s EXCEPT !.at = "acked"]
             t == [Queued(s, "ack") EXCEPT !.at = "acked"]
  <2>0. s.at = "subscribed" /\ s.queue = <<>>
    BY <1>5 DEF Acknowledge, Good, SubscriptionInv
  <2>1. Good(u, happened.changes)
    BY <2>0, GoodMoves DEF LiveStates
  <2>2. u.at = "acked" /\ u.queue = <<>> /\ u.wants = s.wants /\ t = Queued(u, "ack")
    BY <2>0 DEF Subscription, Queued
  <2>3. Becomes(l, t)
    BY <1>5 DEF Acknowledge
  <2> HIDE DEF u, t
  <2>4. Len(u.queue) + 1 < MaxQueuedEvents
    BY <2>2, QueueEmpty, BridgeListenerAssumption
  <2>5. Good(t, happened.changes)
    BY <2>1, <2>2, <2>4, GoodQueued DEF Events
  <2>6. t.wants = s.wants /\ t.at = "acked"
    BY <2>1, <2>2 DEF Queued, Good, Subscription
  <2>7. QED
    BY <2>0, <2>3, <2>5, <2>6, ListenerBecomes DEF LiveStates
<1>6. CASE Acknowledge(l) /\ ~s.reads
  BY <1>6, ListenerEnds DEF Acknowledge, LiveStates
<1>7. CASE CheckSignal(l)
  <2> DEFINE at == IF stopping THEN "completing" ELSE "running"
             t == [s EXCEPT !.at = at]
  <2>1. Good(t, happened.changes)
    <3>1. s.at \in LiveStates /\ at \in LiveStates \ {"connecting", "subscribed"}
      BY <1>7 DEF CheckSignal, LiveStates
    <3>2. QED
      BY <3>1, GoodMoves
  <2>2. t.wants = s.wants /\ t.at \in {"completing", "running"} /\ s.at = "acked" /\ Becomes(l, t)
    BY <1>7 DEF CheckSignal, Subscription
  <2> HIDE DEF t, at
  <2>3. QED
    BY <2>1, <2>2, ListenerBecomes DEF LiveStates
<1>8. QED
  BY <1>1, <1>2, <1>3, <1>4, <1>5, <1>6, <1>7

LEMMA ListenerRuns ==
  ASSUME ListenerInv, NEW l \in Subscriptions,
         Signalled(l) \/ Complete(l) \/ StreamClosed(l) \/ KeepAlive(l) \/ Read(l) \/ GoAway(l)
  PROVE  ListenerInv'
<1> USE ListenerFacts
<1> DEFINE s == subscriptions[l]
<1>1. CASE Signalled(l)
  <2> DEFINE t == [s EXCEPT !.at = "completing"]
  <2>1. Good(t, happened.changes)
    BY <1>1, GoodMoves DEF Signalled, LiveStates
  <2>2. t.wants = s.wants /\ t.at = "completing" /\ s.at = "running" /\ Becomes(l, t)
    BY <1>1 DEF Signalled, Subscription
  <2> HIDE DEF t
  <2>3. QED
    BY <2>1, <2>2, ListenerBecomes DEF LiveStates
<1>2. CASE Complete(l) /\ ~s.reads
  BY <1>2, ListenerEnds DEF Complete, LiveStates
<1>3. CASE Complete(l) /\ s.reads
  <2> DEFINE u == [s EXCEPT !.at = "done"]
             v == Queued(u, "complete")
             t == Ended(Queued(s, "complete"), "done")
  <2>0. s.at = "completing" /\ Room(s) > 0 /\ End(l, Queued(s, "complete"), "done")
    BY <1>3 DEF Complete
  <2>1. Good(u, happened.changes)
    BY GoodMoves
  <2>2. /\ u.at = "done" /\ u.queue = s.queue /\ u.wants = s.wants
        /\ t = Ended(v, "done")
    BY DEF Subscription, Queued, Ended
  <2>3. Len(u.queue) < MaxQueuedEvents
    BY <2>0, <2>2, BridgeListenerAssumption DEF Room
  <2>4. v.wants = u.wants
    BY DEF Queued, Subscription
  <2>5. End(l, v, "done")
    BY <2>0, <2>2, <2>4 DEF End, Queued, Subscription
  <2> HIDE DEF u, t
  <2>6. Good(v, happened.changes)
    BY <2>1, <2>2, <2>3, GoodQueued DEF LiveStates, Events
  <2> HIDE DEF v
  <2>7. QED
    BY <2>0, <2>2, <2>4, <2>5, <2>6, ListenerEnds DEF LiveStates
<1>4. CASE StreamClosed(l)
  BY <1>4, ListenerEnds DEF StreamClosed, LiveStates
<1>5. CASE KeepAlive(l)
  <2> DEFINE t == Queued(s, "alive")
  <2>1. Becomes(l, t) /\ s.at = "running" /\ Len(s.queue) + 1 < MaxQueuedEvents
    BY <1>5, BridgeListenerAssumption DEF KeepAlive, Room
  <2>2. Good(t, happened.changes)
    BY <2>1, GoodQueued DEF Events
  <2>3. t.wants = s.wants /\ t.at = s.at
    BY DEF Queued, Subscription
  <2> HIDE DEF t
  <2>4. QED
    BY <2>1, <2>2, <2>3, ListenerBecomes
<1>6. CASE Read(l)
  <2> DEFINE t == [s EXCEPT !.queue = Tail(@),
                            !.stale = IF Head(s.queue) = "change" THEN FALSE ELSE @]
  <2>1. Becomes(l, t) /\ s.queue # <<>>
    BY <1>6 DEF Read
  <2>2. Good(t, happened.changes)
    BY <2>1, GoodRead
  <2>3. t.wants = s.wants /\ t.at = s.at
    BY DEF Subscription
  <2> HIDE DEF t
  <2>4. QED
    BY <2>1, <2>2, <2>3, ListenerBecomes
<1>7. CASE GoAway(l)
  <2> DEFINE t == [s EXCEPT !.reads = FALSE, !.queue = <<>>, !.stale = FALSE]
  <2>1. Becomes(l, t)
    BY <1>7 DEF GoAway
  <2>2. Good(t, happened.changes)
    BY GoodGone
  <2>3. t.wants = s.wants /\ t.at = s.at
    BY DEF Subscription
  <2> HIDE DEF t
  <2>4. QED
    BY <2>1, <2>2, <2>3, ListenerBecomes
<1>8. QED
  BY <1>1, <1>2, <1>3, <1>4, <1>5, <1>6, <1>7

LEMMA ListenerLinks ==
  ASSUME ListenerInv, NEW l \in Subscriptions, NEW f \in Feeds,
         AttachFeed(l, f) \/ ForwardChange(l, f) \/ Overflow(l, f) \/ Lose(l, f) \/ Reattach(l, f)
  PROVE  ListenerInv'
<1> USE ListenerFacts
<1> DEFINE s == subscriptions[l]
           up == [s.link EXCEPT ![f] = "up"]
           t == [s EXCEPT !.link[f] = "up"]
<1>0. /\ s.link \in [Feeds -> {"none", "up", "down"}] /\ s.notices \in [Feeds -> Nat]
      /\ \A g \in Feeds : s.notices[g] <= happened.changes
  BY DEF Good, Subscription, SubscriptionInv
<1>1. /\ t = [s EXCEPT !.link = up, !.notices = s.notices] /\ t.wants = s.wants /\ t.at = s.at
      /\ up \in [Feeds -> {"none", "up", "down"}]
  BY <1>0 DEF Subscription
<1>2. Good(t, happened.changes)
  <2> HIDE DEF t, up
  <2>1. QED
    BY <1>0, <1>1, GoodLinks
<1>3. CASE Becomes(l, t)
  <2> HIDE DEF t
  <2>1. QED
    BY <1>1, <1>2, <1>3, ListenerBecomes
<1>4. CASE AttachFeed(l, f)
  BY <1>3, <1>4, ListenerEnds DEF AttachFeed, LiveStates
<1>5. CASE Reattach(l, f)
  BY <1>3, <1>5 DEF Reattach
<1>6. CASE Overflow(l, f)
  BY <1>6, ListenerEnds DEF Overflow, LiveStates
<1>7. CASE ForwardChange(l, f)
  <2> DEFINE u == [s EXCEPT !.notices[f] = @ - 1, !.stale = TRUE]
             v == IF u.reads /\ Room(u) > 0 THEN Queued(u, "change") ELSE u
  <2>1. Becomes(l, v) /\ s.at \in {"running", "completing"} /\ s.notices[f] > 0
    BY <1>7 DEF ForwardChange
  <2>2. Good(v, happened.changes)
    BY <2>1, GoodForwarded
  <2>3. u.wants = s.wants /\ u.at = s.at
    BY DEF Subscription
  <2>4. v.wants = s.wants /\ v.at = s.at
    BY <2>3 DEF Queued, Subscription
  <2> HIDE DEF u, v
  <2>5. QED
    BY <2>1, <2>2, <2>4, ListenerBecomes
<1>8. CASE Lose(l, f)
  <2> DEFINE down == [s.link EXCEPT ![f] = "down"]
             none == [s.notices EXCEPT ![f] = 0]
             u == [s EXCEPT !.link = down, !.notices = none]
  <2>1. subscriptions' = [subscriptions EXCEPT ![l] = u]
    <3>1. subscriptions' = [subscriptions EXCEPT ![l].link[f] = "down", ![l].notices[f] = 0]
      BY <1>8 DEF Lose
    <3>2. DOMAIN subscriptions = Subscriptions /\ s \in Subscription
      BY DEF ListenerInv, Good
    <3>3. QED
      BY <3>1, <3>2 DEF Subscription
  <2>2. down \in [Feeds -> {"none", "up", "down"}] /\ none \in [Feeds -> Nat]
        /\ \A g \in Feeds : none[g] <= happened.changes
    BY <1>0
  <2>3. u.wants = s.wants /\ u.at = s.at
    BY DEF Subscription
  <2> HIDE DEF down, none
  <2>4. Good(u, happened.changes)
    BY <2>2, GoodLinks
  <2>5. /\ happened' \in [changes : 0..MaxChanges, losses : 0..MaxLosses]
        /\ happened'.changes = happened.changes /\ listening' = listening /\ stopping' = stopping
    BY <1>8, BridgeListenerAssumption DEF Lose, ListenerInv
  <2> HIDE DEF u
  <2>6. QED
    BY <2>1, <2>3, <2>4, <2>5, ListenerFrame
<1>9. QED
  BY <1>4, <1>5, <1>6, <1>7, <1>8

LEMMA ListenerSurroundings ==
  ASSUME ListenerInv, StopBridge \/ \E f \in Feeds : ToolsChange(f)
  PROVE  ListenerInv'
<1>1. CASE StopBridge
  BY <1>1 DEF StopBridge, ListenerInv, PermitsAreKept, Listeners
<1>2. ASSUME NEW f \in Feeds, ToolsChange(f) PROVE ListenerInv'
  <2>1. /\ happened'.changes = happened.changes + 1 /\ happened.changes \in Nat
        /\ happened' \in [changes : 0..MaxChanges, losses : 0..MaxLosses]
        /\ listening' = listening /\ stopping' = stopping
    BY <1>2, BridgeListenerAssumption DEF ToolsChange, ListenerInv
  <2>2. ASSUME NEW l \in Subscriptions
        PROVE  /\ Good(subscriptions'[l], happened'.changes)
               /\ subscriptions'[l].at = subscriptions[l].at
               /\ subscriptions'[l].wants = subscriptions[l].wants
    <3> DEFINE s == subscriptions[l]
               more == [s.notices EXCEPT ![f] = @ + 1]
               t == [s EXCEPT !.link = s.link, !.notices = more]
    <3>0. s \in Subscription /\ Good(s, happened.changes)
      BY ListenerFacts
    <3>1. /\ s.link \in [Feeds -> {"none", "up", "down"}] /\ s.notices \in [Feeds -> Nat]
          /\ \A g \in Feeds : s.notices[g] <= happened.changes
      BY <3>0 DEF Good, Subscription, SubscriptionInv
    <3>2. Good(s, happened'.changes)
      BY <2>1, <3>0, <3>1 DEF Good, SubscriptionInv
    <3>3. subscriptions'[l] = s \/ subscriptions'[l] = t
      BY <1>2, <3>0 DEF ToolsChange, Subscription
    <3>4. more \in [Feeds -> Nat] /\ \A g \in Feeds : more[g] <= happened'.changes
      BY <2>1, <3>1
    <3>5. t.at = s.at /\ t.wants = s.wants
      BY <3>0 DEF Subscription
    <3>6. Good(t, happened'.changes)
      <4>1. t = [s EXCEPT !.link = s.link, !.notices = more] /\ happened'.changes \in Nat
        BY <2>1
      <4> HIDE DEF more, t
      <4>2. QED
        BY <3>1, <3>2, <3>4, <4>1, GoodLinks
    <3> HIDE DEF more, t
    <3>7. QED
      BY <3>2, <3>3, <3>5, <3>6
  <2>3. Listeners' = Listeners
    BY <2>2 DEF Listeners
  <2>4. DOMAIN subscriptions' = Subscriptions
        /\ subscriptions' = [l \in Subscriptions |-> subscriptions'[l]]
    BY <1>2 DEF ToolsChange
  <2>5. QED
    BY <2>1, <2>2, <2>3, <2>4 DEF ListenerInv, PermitsAreKept
<1>3. QED
  BY <1>1, <1>2

LEMMA ListenerStep ==
  ASSUME ListenerInv, [BridgeListenerNext]_listenerVars
  PROVE  ListenerInv'
<1>1. CASE UNCHANGED listenerVars
  BY <1>1 DEF listenerVars, ListenerInv, PermitsAreKept, Listeners
<1>2. CASE BridgeListenerNext
  BY <1>2, ListenerStarts, ListenerRuns, ListenerLinks, ListenerSurroundings
     DEF BridgeListenerNext, SubscriptionStep
<1>3. QED
  BY <1>1, <1>2

LEMMA ListenerStart ==
  ASSUME NEW at \in {"new", "done"}, NEW wants \in [Subscriptions -> BOOLEAN],
         BridgeListenerInit(at, wants)
  PROVE  ListenerInv
<1>1. ASSUME NEW l \in Subscriptions PROVE Good(subscriptions[l], 0)
  <2> DEFINE s == subscriptions[l]
  <2>1. /\ s.at = at /\ s.queue = <<>> /\ s.stale = FALSE /\ s \in Subscription
        /\ \A f \in Feeds : s.notices[f] = 0
    BY QueueEmpty DEF BridgeListenerInit, Subscription
  <2> HIDE DEF s
  <2>2. Good(s, 0)
    BY <2>1, QueueEmpty, BridgeListenerAssumption DEF Good, SubscriptionInv, LiveStates
  <2>3. QED
    BY <2>2 DEF s
<1>2. Listeners = {}
  BY DEF Listeners, BridgeListenerInit, LiveStates
<1>3. Cardinality(Listeners) = 0 /\ Cardinality(Feeds) \in Nat
  BY <1>2, FS_EmptySet, FS_CardinalityType, BridgeListenerAssumption
<1>4. PermitsAreKept
  BY <1>3, BridgeListenerAssumption DEF PermitsAreKept, BridgeListenerInit
<1>5. stopping \in BOOLEAN /\ happened = [changes |-> 0, losses |-> 0]
  BY DEF BridgeListenerInit
<1>6. DOMAIN subscriptions = Subscriptions /\ subscriptions = [l \in Subscriptions |-> subscriptions[l]]
  BY DEF BridgeListenerInit
<1>7. QED
  BY <1>1, <1>4, <1>5, <1>6, BridgeListenerAssumption DEF ListenerInv

LEMMA ListenerTyped ==
  ASSUME ListenerInv PROVE BridgeListenerTypeOK
<1>1. \A l \in Subscriptions : Good(subscriptions[l], happened.changes)
  BY DEF ListenerInv
<1>2. ASSUME NEW l \in Subscriptions, NEW f \in Feeds
      PROVE  subscriptions[l].notices[f] \in 0..MaxChanges
  BY <1>1, BridgeListenerAssumption DEF ListenerInv, Good, Subscription, SubscriptionInv
<1>3. listening \in 0..MaxListeners
  <2>1. Cardinality(Feeds) \in Nat /\ Cardinality(Listeners) \in Nat
    BY FS_Subset, FS_CardinalityType, BridgeListenerAssumption DEF Listeners
  <2>2. Cardinality(Listeners) * Cardinality(Feeds) \in Nat
    BY <2>1
  <2>3. QED
    BY <2>2, BridgeListenerAssumption DEF ListenerInv, PermitsAreKept
<1>4. QED
  BY <1>1, <1>2, <1>3 DEF ListenerInv, Good, Subscription, SubscriptionInv, BridgeListenerTypeOK

LEMMA ListenerTold ==
  ASSUME ListenerInv PROVE ChangesReachClients
  BY DEF ListenerInv, Good, SubscriptionInv, ToldOfChange, ChangesReachClients

-----------------------------------------------------------------------------
(* The bridge: the shape of its state.                                     *)

Task == [at : TaskStates, connection : {"none", "open", "closed"}, result : {"none", "ok", "failed"}]
Slots == [idle : Seq({"none", "open", "closed"}), free : Nat]
RequestStates == {"new", "body", "running", "answered", "done", "dropped"}
AnswerKinds == {"none", "ok", "error", "refused", "busy", "accepted"}

(* Options, servers and messages are what the host gives.                  *)
BridgeShape ==
  /\ bridge \in [mode : {"none", "stdio", "http"}, at : {"starting", "connecting", "serving", "left"},
                 outcome : {"none", "ok", "failed"}, linked : SUBSET Bridged, chosen : SUBSET Bridged,
                 options : {bridge.options}, concurrency : Nat, servers : {bridge.servers},
                 open : BOOLEAN, input : Seq(Downstream), ends : {"end", "error"}]
  /\ slots \in [Bridged -> Slots]
  /\ requests \in [Downstream -> [message : {requests[r].message : r \in Downstream},
                                  at : RequestStates, answer : AnswerKinds, tasks : [Bridged -> Task]]]
  /\ admissions \in Nat

(* Startup: nothing is served before every selected server is linked, and  *)
(* what comes in over stdin is for all of them.                            *)
Phases ==
  /\ bridge.at \in {"starting", "connecting"} => \A r \in Downstream : requests[r].at = "new"
  /\ bridge.at = "starting" => bridge.mode = "none" /\ bridge.linked = {} /\ bridge.chosen = {}
  /\ bridge.mode = "none" => \A r \in Downstream : requests[r].at = "new"
  /\ bridge.at \in {"connecting", "serving"} => bridge.mode # "none"
  /\ bridge.linked \subseteq bridge.chosen
  /\ bridge.at = "serving" => bridge.linked = bridge.chosen
  /\ bridge.mode = "stdio" => "--http" \notin bridge.options.flags
  /\ "--http" \in bridge.options.flags \/ \A r \in Downstream : requests[r].message.path = "all"

(* A frame that waits on stdin has not been taken, and comes once.         *)
FramesWait ==
  bridge.mode # "http" =>
    /\ \A i \in DOMAIN bridge.input : requests[bridge.input[i]].at = "new"
    /\ \A i, j \in DOMAIN bridge.input : i # j => bridge.input[i] # bridge.input[j]

(* Tasks run on linked servers, for requests that have begun.              *)
TasksFit ==
  /\ \A r \in Downstream, b \in Bridged : requests[r].tasks[b].at # "none" => b \in bridge.linked
  /\ \A r \in Downstream : requests[r].at \in {"new", "body"} =>
                             \A b \in Bridged : requests[r].tasks[b].at = "none"
  /\ \A r \in Downstream : requests[r].at = "body" =>
                             bridge.mode = "http" /\ bridge.at = "serving" /\ Routed(requests[r].message)

(* The requests whose task on a server is in one of some states; those     *)
(* that hold a slot, and those that hold a permit.                         *)
At(b, states) == {r \in Downstream : requests[r].tasks[b].at \in states}
Leased == {"dialing", "operating", "leaving"}
Permitted == {"admitted", "dialing", "operating", "leaving", "pushed"}

SlotCounts ==
  /\ \A b \in bridge.linked :
       /\ Len(slots[b].idle) + Cardinality(At(b, Leased)) = bridge.concurrency
       /\ slots[b].free + Cardinality(At(b, Permitted)) = bridge.concurrency
  /\ \A b \in Bridged \ bridge.linked : slots[b].free = 0

AdmissionCounts ==
  IF bridge.mode = "http" THEN admissions + Cardinality(UnderWay) = MaxHttpRequests
  ELSE admissions = MaxHttpRequests

BridgeInv ==
  BridgeShape /\ Phases /\ FramesWait /\ TasksFit /\ SlotCounts /\ AdmissionCounts /\ AnsweredBeforeLeaving

-----------------------------------------------------------------------------
(* The bridge: counting.                                                   *)

LEMMA CountsFinite ==
  ASSUME NEW b, NEW states
  PROVE  /\ IsFiniteSet(At(b, states)) /\ Cardinality(At(b, states)) \in Nat
         /\ IsFiniteSet(UnderWay) /\ Cardinality(UnderWay) \in Nat
<1>1. At(b, states) \subseteq Downstream /\ UnderWay \subseteq Downstream
  BY DEF At, UnderWay
<1>2. QED
  BY <1>1, FS_Subset, FS_CardinalityType, BridgeAssumption

(* A set that gains or loses one element, or none.                         *)
LEMMA CountChanges ==
  ASSUME NEW S, IsFiniteSet(S), NEW x, NEW T,
         T = S \cup {x} \/ T = S \ {x}
  PROVE  /\ x \in S /\ x \in T => Cardinality(T) = Cardinality(S)
         /\ x \notin S /\ x \notin T => Cardinality(T) = Cardinality(S)
         /\ x \notin S /\ x \in T => Cardinality(T) = Cardinality(S) + 1
         /\ x \in S /\ x \notin T => Cardinality(T) = Cardinality(S) - 1
  BY FS_AddElement, FS_RemoveElement

(* A task moves.                                                           *)
LEMMA TaskMoves ==
  ASSUME BridgeShape, NEW r \in Downstream, NEW b \in Bridged, NEW t \in Task, StepOf(r, b, t)
  PROVE  /\ requests' \in [Downstream -> [message : {requests'[q].message : q \in Downstream},
                                  at : RequestStates, answer : AnswerKinds, tasks : [Bridged -> Task]]]
         /\ \A q \in Downstream : /\ requests'[q].at = requests[q].at
                                  /\ requests'[q].message = requests[q].message
                                  /\ requests'[q].answer = requests[q].answer
         /\ \A q \in Downstream, c \in Bridged :
              requests'[q].tasks[c] = IF q = r /\ c = b THEN t ELSE requests[q].tasks[c]
<1> DEFINE x == [requests[r] EXCEPT !.tasks[b] = t]
<1>0. requests[r] \in [message : {requests[q].message : q \in Downstream}, at : RequestStates,
                       answer : AnswerKinds, tasks : [Bridged -> Task]]
  BY DEF BridgeShape
<1>1. /\ x.at = requests[r].at /\ x.message = requests[r].message /\ x.answer = requests[r].answer
      /\ x.tasks = [requests[r].tasks EXCEPT ![b] = t]
      /\ x \in [message : {requests[q].message : q \in Downstream}, at : RequestStates,
                answer : AnswerKinds, tasks : [Bridged -> Task]]
  BY <1>0
<1>2. requests' = [requests EXCEPT ![r] = x]
  BY DEF StepOf, BridgeShape
<1> HIDE DEF x
<1>3. \A q \in Downstream : /\ requests'[q] = IF q = r THEN x ELSE requests[q]
                            /\ requests'[q].message = requests[q].message
  BY <1>1, <1>2 DEF BridgeShape
<1>4. {requests'[q].message : q \in Downstream} = {requests[q].message : q \in Downstream}
  BY <1>3
<1>5. QED
  BY <1>1, <1>2, <1>3, <1>4 DEF BridgeShape

LEMMA TaskCounts ==
  ASSUME BridgeShape, NEW r \in Downstream, NEW b \in Bridged, NEW t \in Task, StepOf(r, b, t),
         NEW states
  PROVE  /\ \A c \in Bridged \ {b} : At(c, states)' = At(c, states)
         /\ LET here == requests[r].tasks[b].at \in states
                there == t.at \in states
            IN  /\ (here <=> there) => Cardinality(At(b, states)') = Cardinality(At(b, states))
                /\ ~here /\ there => Cardinality(At(b, states)') = Cardinality(At(b, states)) + 1
                /\ here /\ ~there => Cardinality(At(b, states)') = Cardinality(At(b, states)) - 1
<1>1. At(b, states)' = (IF t.at \in states THEN At(b, states) \cup {r} ELSE At(b, states) \ {r})
  BY TaskMoves DEF At
<1>2. r \in At(b, states)' <=> t.at \in states
  BY <1>1
<1>3. r \in At(b, states) <=> requests[r].tasks[b].at \in states
  BY DEF At
<1>4. \A c \in Bridged \ {b} : At(c, states)' = At(c, states)
  BY TaskMoves DEF At
<1>5. Cardinality(At(b, states)') = IF r \in At(b, states)'
        THEN IF r \in At(b, states) THEN Cardinality(At(b, states)) ELSE Cardinality(At(b, states)) + 1
        ELSE IF r \in At(b, states) THEN Cardinality(At(b, states)) - 1 ELSE Cardinality(At(b, states))
  <2> DEFINE S == At(b, states)
             T == At(b, states)'
  <2>1. IsFiniteSet(S) /\ (T = S \cup {r} \/ T = S \ {r})
    BY <1>1, CountsFinite
  <2> HIDE DEF S, T
  <2>2. Cardinality(T) = IF r \in T
        THEN IF r \in S THEN Cardinality(S) ELSE Cardinality(S) + 1
        ELSE IF r \in S THEN Cardinality(S) - 1 ELSE Cardinality(S)
    BY <2>1, CountChanges
  <2>3. QED
    BY <2>2 DEF S, T
<1>6. QED
  BY <1>2, <1>3, <1>4, <1>5

(* One more in use is one fewer at rest.                                   *)
LEMMA OneForOne ==
  ASSUME NEW n \in Nat, NEW m \in Nat
  PROVE  (n - 1) + (m + 1) = n + m /\ (n + 1) + (m - 1) = n + m
  OBVIOUS

(* What is left to show of a step of a task: what becomes of its slot and  *)
(* its permit.                                                             *)
LEMMA TaskFrame ==
  ASSUME BridgeInv, NEW r \in Downstream, NEW b \in Bridged, NEW t \in Task, StepOf(r, b, t),
         requests[r].tasks[b].at # "none", t.at # "none", UNCHANGED <<bridge, admissions>>,
         NEW slot \in Slots, slots' = [slots EXCEPT ![b] = slot],
         LET change(states) ==
               IF t.at \in states THEN IF requests[r].tasks[b].at \in states THEN 0 ELSE 1
               ELSE IF requests[r].tasks[b].at \in states THEN -1 ELSE 0
         IN  /\ Len(slot.idle) = Len(slots[b].idle) - change(Leased)
             /\ slot.free = slots[b].free - change(Permitted)
  PROVE  BridgeInv'
<1>0. /\ \A q \in Downstream : /\ requests'[q].at = requests[q].at
                               /\ requests'[q].message = requests[q].message
      /\ \A q \in Downstream, c \in Bridged :
            requests'[q].tasks[c] = IF q = r /\ c = b THEN t ELSE requests[q].tasks[c]
      /\ bridge' = bridge /\ admissions' = admissions
  BY TaskMoves DEF BridgeInv
<1>1. BridgeShape'
  <2>1. slots' \in [Bridged -> Slots]
    BY DEF BridgeInv, BridgeShape
  <2>2. requests' \in [Downstream -> [message : {requests'[q].message : q \in Downstream},
                          at : RequestStates, answer : AnswerKinds, tasks : [Bridged -> Task]]]
    BY TaskMoves DEF BridgeInv
  <2>3. QED
    BY <1>0, <2>1, <2>2 DEF BridgeInv, BridgeShape
<1>2. Phases' /\ AnsweredBeforeLeaving'
  BY <1>0 DEF BridgeInv, Phases, AnsweredBeforeLeaving
<1>3. FramesWait'
  <2>1. \A i \in DOMAIN bridge.input : bridge.input[i] \in Downstream
    BY DEF BridgeInv, BridgeShape
  <2>2. QED
    BY <1>0, <2>1 DEF BridgeInv, FramesWait
<1>7. TasksFit'
  <2>1. \A q \in Downstream : requests[q].at \in {"new", "body"} => q # r
    BY DEF BridgeInv, TasksFit
  <2>2. b \in bridge.linked
    BY DEF BridgeInv, TasksFit
  <2>3. QED
    BY <1>0, <2>1, <2>2 DEF BridgeInv, TasksFit, Routed
<1>4. SlotCounts'
  <2>1. ASSUME NEW c \in bridge.linked, c # b
        PROVE  /\ Len(slots'[c].idle) + Cardinality(At(c, Leased)') = bridge.concurrency
               /\ slots'[c].free + Cardinality(At(c, Permitted)') = bridge.concurrency
    <3>1. c \in Bridged \ {b} /\ slots'[c] = slots[c]
      BY <2>1 DEF BridgeInv, BridgeShape
    <3>4. \A q \in Downstream : requests'[q].tasks[c] = requests[q].tasks[c]
      BY <1>0, <3>1
    <3>2. At(c, Leased)' = At(c, Leased) /\ At(c, Permitted)' = At(c, Permitted)
      BY <3>4 DEF At
    <3>3. QED
      BY <2>1, <3>1, <3>2 DEF BridgeInv, SlotCounts
  <2>2. b \in bridge.linked
    BY DEF BridgeInv, TasksFit
  <2>3. /\ Len(slots'[b].idle) + Cardinality(At(b, Leased)') = bridge.concurrency
        /\ slots'[b].free + Cardinality(At(b, Permitted)') = bridge.concurrency
    <3>1. slots'[b] = slot
      BY DEF BridgeInv, BridgeShape
    <3>2. /\ Len(slots[b].idle) + Cardinality(At(b, Leased)) = bridge.concurrency
          /\ slots[b].free + Cardinality(At(b, Permitted)) = bridge.concurrency
      BY <2>2 DEF BridgeInv, SlotCounts
    <3>3. /\ Cardinality(At(b, Leased)) \in Nat /\ Cardinality(At(b, Permitted)) \in Nat
          /\ Len(slots[b].idle) \in Nat /\ slots[b].free \in Nat
      BY CountsFinite DEF BridgeInv, BridgeShape, Slots
    <3>8. BridgeShape
      BY DEF BridgeInv
    <3>7. Len(slots'[b].idle) = Len(slot.idle) /\ slots'[b].free = slot.free
      BY <3>1
    <3>4. Len(slots'[b].idle) + Cardinality(At(b, Leased)') = bridge.concurrency
      <4>1. CASE t.at \in Leased <=> requests[r].tasks[b].at \in Leased
        <5>1. Cardinality(At(b, Leased)') = Cardinality(At(b, Leased))
          BY <4>1, <3>8, TaskCounts
        <5>2. Len(slot.idle) = Len(slots[b].idle) - 0
          BY <4>1
        <5>3. QED
          BY <5>1, <5>2, <3>2, <3>3, <3>7
      <4>2. CASE t.at \in Leased /\ requests[r].tasks[b].at \notin Leased
        <5>1. Cardinality(At(b, Leased)') = Cardinality(At(b, Leased)) + 1
          BY <4>2, <3>8, TaskCounts
        <5>2. Len(slot.idle) = Len(slots[b].idle) - 1
          BY <4>2, <3>3
        <5>3. PICK held \in Nat, out \in Nat : held = Len(slots[b].idle) /\ out = Cardinality(At(b, Leased))
          BY <3>3
        <5>4. held + out = bridge.concurrency
          BY <3>2, <5>3
        <5>5. Len(slots'[b].idle) = held - 1 /\ Cardinality(At(b, Leased)') = out + 1
          BY <3>7, <5>1, <5>2, <5>3
        <5>6. QED
          BY <5>4, <5>5, OneForOne
      <4>3. CASE t.at \notin Leased /\ requests[r].tasks[b].at \in Leased
        <5>1. Cardinality(At(b, Leased)') = Cardinality(At(b, Leased)) - 1
          BY <4>3, <3>8, TaskCounts
        <5>2. Len(slot.idle) = Len(slots[b].idle) + 1
          BY <4>3, <3>3
        <5>3. PICK held \in Nat, out \in Nat : held = Len(slots[b].idle) /\ out = Cardinality(At(b, Leased))
          BY <3>3
        <5>4. held + out = bridge.concurrency
          BY <3>2, <5>3
        <5>5. Len(slots'[b].idle) = held + 1 /\ Cardinality(At(b, Leased)') = out - 1
          BY <3>7, <5>1, <5>2, <5>3
        <5>6. QED
          BY <5>4, <5>5, OneForOne
      <4>4. QED
        BY <4>1, <4>2, <4>3
    <3>5. slots'[b].free + Cardinality(At(b, Permitted)') = bridge.concurrency
      <4>1. CASE t.at \in Permitted <=> requests[r].tasks[b].at \in Permitted
        <5>1. Cardinality(At(b, Permitted)') = Cardinality(At(b, Permitted))
          BY <4>1, <3>8, TaskCounts
        <5>2. slot.free = slots[b].free
          BY <4>1, <3>3
        <5>3. QED
          BY <5>1, <5>2, <3>2, <3>3, <3>7
      <4>2. CASE t.at \in Permitted /\ requests[r].tasks[b].at \notin Permitted
        <5>1. Cardinality(At(b, Permitted)') = Cardinality(At(b, Permitted)) + 1
          BY <4>2, <3>8, TaskCounts
        <5>2. slot.free = slots[b].free - 1
          BY <4>2, <3>3
        <5>3. QED
          BY <5>1, <5>2, <3>2, <3>3, <3>7
      <4>3. CASE t.at \notin Permitted /\ requests[r].tasks[b].at \in Permitted
        <5>1. Cardinality(At(b, Permitted)') = Cardinality(At(b, Permitted)) - 1
          BY <4>3, <3>8, TaskCounts
        <5>2. slot.free = slots[b].free + 1
          BY <4>3, <3>3
        <5>3. QED
          BY <5>1, <5>2, <3>2, <3>3, <3>7
      <4>4. QED
        BY <4>1, <4>2, <4>3
    <3>6. QED
      BY <3>4, <3>5
  <2>4. \A c \in Bridged \ bridge.linked : slots'[c].free = 0
    BY <2>2 DEF BridgeInv, BridgeShape, SlotCounts
  <2>5. QED
    BY <1>0, <2>1, <2>3, <2>4 DEF SlotCounts
<1>5. AdmissionCounts'
  <2>1. UnderWay' = UnderWay
    BY <1>0 DEF UnderWay
  <2>2. QED
    BY <1>0, <2>1 DEF BridgeInv, AdmissionCounts
<1>6. QED
  BY <1>1, <1>2, <1>3, <1>4, <1>5, <1>7 DEF BridgeInv

-----------------------------------------------------------------------------
(* The bridge: steps of tasks.                                             *)

LEMMA TaskFacts ==
  ASSUME BridgeInv, NEW r \in Downstream, NEW b \in Bridged
  PROVE  /\ requests[r].tasks[b] \in Task /\ slots[b] \in Slots
         /\ slots[b] = [idle |-> slots[b].idle, free |-> slots[b].free]
         /\ slots[b].idle \in Seq({"none", "open", "closed"}) /\ slots[b].free \in Nat
         /\ Len(slots[b].idle) \in Nat /\ slots \in [Bridged -> Slots]
<1>1. requests[r] \in [message : {requests[q].message : q \in Downstream}, at : RequestStates,
                       answer : AnswerKinds, tasks : [Bridged -> Task]]
  BY DEF BridgeInv, BridgeShape
<1>2. slots[b] \in Slots
  BY DEF BridgeInv, BridgeShape
<1>3. QED
  BY <1>1, <1>2 DEF BridgeInv, BridgeShape, Slots

(* A step that leaves the slots alone: the task keeps what it holds.       *)
LEMMA TaskHolds ==
  ASSUME BridgeInv, NEW r \in Downstream, NEW b \in Bridged, NEW t \in Task, StepOf(r, b, t),
         requests[r].tasks[b].at # "none", t.at # "none", UNCHANGED <<bridge, slots, admissions>>,
         requests[r].tasks[b].at \in Leased <=> t.at \in Leased,
         requests[r].tasks[b].at \in Permitted <=> t.at \in Permitted
  PROVE  BridgeInv'
<1>1. /\ slots[b] \in Slots /\ slots \in [Bridged -> Slots]
      /\ Len(slots[b].idle) \in Nat /\ slots[b].free \in Nat
  BY TaskFacts
<1> DEFINE change(states) ==
             IF t.at \in states THEN IF requests[r].tasks[b].at \in states THEN 0 ELSE 1
             ELSE IF requests[r].tasks[b].at \in states THEN -1 ELSE 0
<1>2. change(Leased) = 0 /\ change(Permitted) = 0
  OBVIOUS
<1>3. /\ slots' = [slots EXCEPT ![b] = slots[b]]
      /\ Len(slots[b].idle) = Len(slots[b].idle) - change(Leased)
      /\ slots[b].free = slots[b].free - change(Permitted)
  <2> HIDE DEF change
  <2>1. QED
    BY <1>1, <1>2
<1>4. QED
  BY <1>1, <1>3, TaskFrame

LEMMA TaskWaits ==
  ASSUME BridgeInv, NEW r \in Downstream, NEW b \in Bridged,
         Redial(r, b) \/ Operate(r, b) \/ GiveUp(r, b)
  PROVE  BridgeInv'
<1> DEFINE s == requests[r].tasks[b]
<1>1. s \in Task
  BY TaskFacts
<1> USE DEF TaskStates, Leased, Permitted
<1>0. /\ [s EXCEPT !.at = "operating", !.connection = "open"] \in Task
      /\ [s EXCEPT !.at = "operating", !.connection = "open"].at = "operating"
      /\ \A result \in {"ok", "failed"} :
           /\ [s EXCEPT !.at = "leaving", !.result = result] \in Task
           /\ [s EXCEPT !.at = "leaving", !.result = result].at = "leaving"
      /\ [s EXCEPT !.at = "finished", !.result = "failed"] \in Task
      /\ [s EXCEPT !.at = "finished", !.result = "failed"].at = "finished"
      /\ [s EXCEPT !.at = "leaving", !.result = "failed", !.connection = "closed"] \in Task
      /\ [s EXCEPT !.at = "leaving", !.result = "failed", !.connection = "closed"].at = "leaving"
  <2> HIDE DEF s
  <2>1. QED
    BY <1>1 DEF Task
<1>2. ASSUME NEW t \in Task, StepOf(r, b, t), UNCHANGED <<bridge, slots, admissions>>,
             \/ s.at \in {"dialing", "operating"} /\ t.at \in {"operating", "leaving"}
             \/ s.at = "waiting" /\ t.at = "finished"
      PROVE  BridgeInv'
  BY <1>2, TaskHolds
<1>3. CASE Redial(r, b)
  <2>1. s.at = "dialing"
    BY <1>3 DEF Redial, Runs
  <2>2. CASE StepOf(r, b, [s EXCEPT !.at = "operating", !.connection = "open"])
    BY <1>0, <1>2, <1>3, <2>1, <2>2 DEF Redial
  <2>3. CASE StepOf(r, b, [s EXCEPT !.at = "leaving", !.result = "failed"])
    BY <1>0, <1>2, <1>3, <2>1, <2>3 DEF Redial
  <2>4. QED
    BY <1>3, <2>2, <2>3 DEF Redial
<1>4. CASE Operate(r, b)
  <2>1. s.at = "operating"
    BY <1>4 DEF Operate, Runs
  <2>2. CASE StepOf(r, b, [s EXCEPT !.at = "leaving", !.result = "ok"])
    BY <1>0, <1>2, <1>4, <2>1, <2>2 DEF Operate
  <2>3. CASE StepOf(r, b, [s EXCEPT !.at = "leaving", !.result = "failed"])
    BY <1>0, <1>2, <1>4, <2>1, <2>3 DEF Operate
  <2>4. CASE StepOf(r, b, [s EXCEPT !.at = "leaving", !.result = "failed", !.connection = "closed"])
    BY <1>0, <1>2, <1>4, <2>1, <2>4 DEF Operate
  <2>5. QED
    BY <1>4, <2>2, <2>3, <2>4 DEF Operate
<1>5. CASE GiveUp(r, b)
  <2>2. CASE s.at = "waiting" /\ StepOf(r, b, [s EXCEPT !.at = "finished", !.result = "failed"])
    BY <1>0, <1>2, <1>5, <2>2 DEF GiveUp
  <2>3. CASE s.at = "dialing" /\ StepOf(r, b, [s EXCEPT !.at = "leaving", !.result = "failed"])
    BY <1>0, <1>2, <1>5, <2>3 DEF GiveUp
  <2>4. CASE /\ s.at = "operating"
             /\ StepOf(r, b, [s EXCEPT !.at = "leaving", !.result = "failed", !.connection = "closed"])
    BY <1>0, <1>2, <1>5, <2>4 DEF GiveUp
  <2>5. QED
    BY <1>5, <2>2, <2>3, <2>4 DEF GiveUp
<1>6. QED
  BY <1>3, <1>4, <1>5

(* A permit is taken, a slot is popped, the slot goes back and then the    *)
(* permit.                                                                 *)
LEMMA TaskPops ==
  ASSUME BridgeInv, NEW r \in Downstream, NEW b \in Bridged,
         AdmitDownstream(r, b) \/ Pop(r, b)
  PROVE  BridgeInv'
<1> DEFINE s == requests[r].tasks[b]
<1>1. /\ s \in Task /\ s.at \in TaskStates
      /\ slots[b] \in Slots /\ slots[b] = [idle |-> slots[b].idle, free |-> slots[b].free]
      /\ slots[b].idle \in Seq({"none", "open", "closed"}) /\ slots[b].free \in Nat
      /\ Len(slots[b].idle) \in Nat /\ slots \in [Bridged -> Slots]
  BY TaskFacts DEF Task
<1> USE DEF TaskStates, Leased, Permitted
<1>2. CASE AdmitDownstream(r, b)
  <2> DEFINE t == [s EXCEPT !.at = "admitted"]
             slot == [slots[b] EXCEPT !.free = @ - 1]
  <2>1. StepOf(r, b, t) /\ s.at = "waiting" /\ slots[b].free > 0 /\ UNCHANGED <<bridge, admissions>>
    BY <1>2 DEF AdmitDownstream, Runs
  <2>2. slots' = [slots EXCEPT ![b] = slot]
    BY <1>2, <1>1 DEF AdmitDownstream, Slots
  <2>3. t \in Task /\ t.at = "admitted"
    <3> HIDE DEF s
    <3>1. QED
      BY <1>1 DEF Task
  <2>4. slot \in Slots /\ slot.idle = slots[b].idle /\ slot.free = slots[b].free - 1
    BY <2>1, <1>1 DEF Slots
  <2>5. Len(slot.idle) = Len(slots[b].idle) - 0 /\ slot.free = slots[b].free - 1
    BY <2>4, <1>1
  <2> HIDE DEF t, slot
  <2>6. QED
    BY <2>1, <2>2, <2>3, <2>4, <2>5, TaskFrame
<1>3. CASE Pop(r, b)
  <2> DEFINE idle == slots[b].idle
             connection == idle[Len(idle)]
             at == IF connection = "open" THEN "operating" ELSE "dialing"
             t == [s EXCEPT !.at = at, !.connection = connection]
             rest == SubSeq(idle, 1, Len(idle) - 1)
             slot == [slots[b] EXCEPT !.idle = rest]
  <2>1. StepOf(r, b, t) /\ s.at = "admitted" /\ idle # <<>> /\ UNCHANGED <<bridge, admissions>>
    BY <1>3 DEF Pop
  <2>2. slots' = [slots EXCEPT ![b] = slot]
    BY <1>3, <1>1 DEF Pop, Slots
  <2>3. idle \in Seq({"none", "open", "closed"}) /\ Len(idle) > 0
        /\ connection \in {"none", "open", "closed"} /\ at \in {"operating", "dialing"}
    BY <2>1, <1>1
  <2>4. rest \in Seq({"none", "open", "closed"}) /\ Len(rest) = Len(idle) - 1
    BY <2>3
  <2>5. slot \in Slots /\ Len(slot.idle) = Len(slots[b].idle) - 1 /\ slot.free = slots[b].free - 0
    <3> HIDE DEF rest
    <3>1. slot \in Slots /\ slot.idle = rest /\ slot.free = slots[b].free
      BY <2>4, <1>1 DEF Slots
    <3>2. QED
      BY <2>4, <1>1, <3>1
  <2>6. t \in Task /\ t.at \in {"operating", "dialing"}
    <3> HIDE DEF connection, at, s
    <3>1. QED
      BY <1>1, <2>3 DEF Task
  <2> HIDE DEF t, slot, rest, connection, at
  <2>7. QED
    BY <2>1, <2>2, <2>5, <2>6, TaskFrame
<1>4. QED
  BY <1>2, <1>3

LEMMA TaskReturns ==
  ASSUME BridgeInv, NEW r \in Downstream, NEW b \in Bridged,
         PushBack(r, b) \/ ReturnPermit(r, b)
  PROVE  BridgeInv'
<1> DEFINE s == requests[r].tasks[b]
<1>1. /\ s \in Task /\ s.at \in TaskStates /\ s.connection \in {"none", "open", "closed"}
      /\ slots[b] \in Slots /\ slots[b] = [idle |-> slots[b].idle, free |-> slots[b].free]
      /\ slots[b].idle \in Seq({"none", "open", "closed"}) /\ slots[b].free \in Nat
      /\ Len(slots[b].idle) \in Nat /\ slots \in [Bridged -> Slots]
  BY TaskFacts DEF Task
<1> USE DEF TaskStates, Leased, Permitted
<1>2. CASE PushBack(r, b)
  <2> DEFINE t == [s EXCEPT !.at = "pushed", !.connection = "none"]
             slot == [slots[b] EXCEPT !.idle = Append(@, s.connection)]
  <2>1. StepOf(r, b, t) /\ s.at = "leaving" /\ UNCHANGED <<bridge, admissions>>
    BY <1>2 DEF PushBack
  <2>2. slots' = [slots EXCEPT ![b] = slot]
    BY <1>2, <1>1 DEF PushBack, Slots
  <2>3. t \in Task /\ t.at = "pushed"
    <3> HIDE DEF s
    <3>1. QED
      BY <1>1 DEF Task
  <2>4. slot \in Slots /\ Len(slot.idle) = Len(slots[b].idle) + 1 /\ slot.free = slots[b].free
    <3>1. s.connection \in {"none", "open", "closed"}
      BY <1>1 DEF Task
    <3> HIDE DEF s
    <3>2. /\ Append(slots[b].idle, s.connection) \in Seq({"none", "open", "closed"})
          /\ Len(Append(slots[b].idle, s.connection)) = Len(slots[b].idle) + 1
      BY <1>1, <3>1, AppendProperties
    <3>3. slots[b] \in [idle : Seq({"none", "open", "closed"}), free : Nat]
      BY <1>1 DEF Slots
    <3>4. QED
      BY <3>2, <3>3 DEF Slots
  <2>5. Len(slot.idle) = Len(slots[b].idle) - (-1) /\ slot.free = slots[b].free - 0
    BY <2>4, <1>1
  <2> HIDE DEF t, slot
  <2>6. QED
    BY <2>1, <2>2, <2>3, <2>4, <2>5, TaskFrame
<1>3. CASE ReturnPermit(r, b)
  <2> DEFINE t == [s EXCEPT !.at = "finished"]
             slot == [slots[b] EXCEPT !.free = @ + 1]
  <2>1. StepOf(r, b, t) /\ s.at = "pushed" /\ UNCHANGED <<bridge, admissions>>
    BY <1>3 DEF ReturnPermit
  <2>2. slots' = [slots EXCEPT ![b] = slot]
    BY <1>3, <1>1 DEF ReturnPermit, Slots
  <2>3. t \in Task /\ t.at = "finished"
    <3> HIDE DEF s
    <3>1. QED
      BY <1>1 DEF Task
  <2>4. slot \in Slots /\ slot.idle = slots[b].idle /\ slot.free = slots[b].free + 1
    BY <1>1 DEF Slots
  <2>5. Len(slot.idle) = Len(slots[b].idle) - 0 /\ slot.free = slots[b].free - (-1)
    BY <2>4, <1>1
  <2> HIDE DEF t, slot
  <2>6. QED
    BY <2>1, <2>2, <2>3, <2>4, <2>5, TaskFrame
<1>4. QED
  BY <1>2, <1>3

-----------------------------------------------------------------------------
(* The bridge: steps of requests.                                          *)

Request ==
  [message : {requests[r].message : r \in Downstream}, at : RequestStates, answer : AnswerKinds,
   tasks : [Bridged -> Task]]
BridgeProcess ==
  [mode : {"none", "stdio", "http"}, at : {"starting", "connecting", "serving", "left"},
   outcome : {"none", "ok", "failed"}, linked : SUBSET Bridged, chosen : SUBSET Bridged,
   options : {bridge.options}, concurrency : Nat, servers : {bridge.servers},
   open : BOOLEAN, input : Seq(Downstream), ends : {"end", "error"}]

LEMMA RequestFacts ==
  ASSUME BridgeInv, NEW r \in Downstream
  PROVE  requests[r] \in Request /\ bridge \in BridgeProcess
  BY DEF BridgeInv, BridgeShape, Request, BridgeProcess

(* What is left to show of a step of a request: the process, the frames    *)
(* that wait, its permit at the endpoint, and the tasks it begins.         *)
LEMMA RequestFrame ==
  ASSUME BridgeInv, NEW r \in Downstream, NEW x \in Request, x.message = requests[r].message,
         requests' = [requests EXCEPT ![r] = x], UNCHANGED slots, bridge' \in BridgeProcess',
         /\ bridge'.mode = bridge.mode /\ bridge'.at = bridge.at /\ bridge'.outcome = bridge.outcome
         /\ bridge'.linked = bridge.linked /\ bridge'.chosen = bridge.chosen
         /\ bridge'.concurrency = bridge.concurrency /\ bridge'.options = bridge.options,
         FramesWait',
         x.at # "new", requests[r].at # "new" \/ bridge.at = "serving",
         x.at = "body" => /\ bridge.mode = "http" /\ bridge.at = "serving" /\ Routed(x.message)
                          /\ \A b \in Bridged : x.tasks[b].at = "none",
         \A b \in Bridged : \/ x.tasks[b].at = requests[r].tasks[b].at
                            \/ /\ requests[r].tasks[b].at = "none" /\ x.tasks[b].at = "waiting"
                               /\ b \in bridge.linked,
         requests[r].at \in {"body", "running", "answered"} \/ bridge.at = "serving",
         admissions' \in Nat,
         bridge.mode # "http" => admissions' = admissions,
         bridge.mode = "http" =>
           LET before == requests[r].at \in {"body", "running", "answered"}
               after == x.at \in {"body", "running", "answered"}
           IN  admissions' = IF before THEN IF after THEN admissions ELSE admissions + 1
                             ELSE IF after THEN admissions - 1 ELSE admissions
  PROVE  BridgeInv'
<1>0. /\ requests'[r] = x /\ \A q \in Downstream \ {r} : requests'[q] = requests[q]
      /\ \A q \in Downstream : requests'[q].message = requests[q].message
  BY DEF BridgeInv, BridgeShape
<1>1. BridgeShape'
  <2>1. {requests'[q].message : q \in Downstream} = {requests[q].message : q \in Downstream}
    BY <1>0
  <2>2. requests' \in [Downstream -> Request]
    BY DEF BridgeInv, BridgeShape, Request
  <2>3. QED
    BY <2>1, <2>2 DEF BridgeInv, BridgeShape, Request, BridgeProcess
<1>2. Phases'
  BY <1>0 DEF BridgeInv, Phases
<1>3. TasksFit'
  BY <1>0 DEF BridgeInv, TasksFit, Routed
<1>4. \A b \in Bridged : At(b, Leased)' = At(b, Leased) /\ At(b, Permitted)' = At(b, Permitted)
  BY <1>0 DEF At, Leased, Permitted
<1>5. SlotCounts'
  BY <1>4 DEF BridgeInv, BridgeShape, SlotCounts
<1>6. AdmissionCounts'
  <2> DEFINE before == requests[r].at \in {"body", "running", "answered"}
             after == x.at \in {"body", "running", "answered"}
  <2>1. UnderWay' = IF after THEN UnderWay \cup {r} ELSE UnderWay \ {r}
    BY <1>0 DEF UnderWay
  <2>2. (r \in UnderWay <=> before) /\ (r \in UnderWay' <=> after)
    BY <1>0 DEF UnderWay
  <2>3. IsFiniteSet(UnderWay) /\ Cardinality(UnderWay) \in Nat /\ admissions \in Nat
    BY CountsFinite DEF BridgeInv, BridgeShape
  <2>4. Cardinality(UnderWay') = IF before THEN IF after THEN Cardinality(UnderWay) ELSE Cardinality(UnderWay) - 1
                                 ELSE IF after THEN Cardinality(UnderWay) + 1 ELSE Cardinality(UnderWay)
    <3> DEFINE S == UnderWay
               T == UnderWay'
    <3>1. IsFiniteSet(S) /\ (T = S \cup {r} \/ T = S \ {r})
      BY <2>1, <2>3
    <3> HIDE DEF S, T
    <3>2. Cardinality(T) = IF r \in S THEN IF r \in T THEN Cardinality(S) ELSE Cardinality(S) - 1
                           ELSE IF r \in T THEN Cardinality(S) + 1 ELSE Cardinality(S)
      BY <3>1, CountChanges
    <3>3. QED
      BY <2>2, <3>2 DEF S, T
  <2> HIDE DEF before, after
  <2>5. CASE bridge.mode = "http"
    <3>1. admissions' = IF before THEN IF after THEN admissions ELSE admissions + 1
                        ELSE IF after THEN admissions - 1 ELSE admissions
      BY <2>5 DEF before, after
    <3>2. admissions + Cardinality(UnderWay) = MaxHttpRequests
      BY <2>5 DEF BridgeInv, AdmissionCounts
    <3>3. admissions' + Cardinality(UnderWay') = MaxHttpRequests
      BY <2>3, <2>4, <3>1, <3>2
    <3>4. QED
      BY <2>5, <3>3 DEF AdmissionCounts
  <2>6. CASE bridge.mode # "http"
    BY <2>6 DEF BridgeInv, AdmissionCounts
  <2>7. QED
    BY <2>5, <2>6
<1>7. AnsweredBeforeLeaving'
  BY <1>0 DEF BridgeInv, AnsweredBeforeLeaving
<1>8. QED
  BY <1>1, <1>2, <1>3, <1>5, <1>6, <1>7 DEF BridgeInv

(* What a request begins: one task, waiting, on each server it needs.      *)
LEMMA Begins ==
  ASSUME BridgeInv, NEW r \in Downstream, bridge.at = "serving", requests[r].at \in {"new", "body"},
         requests[r].at = "new" => bridge.mode = "stdio"
  PROVE  LET x == Began(requests[r]) IN
         /\ x \in Request /\ x.message = requests[r].message /\ x.at \in {"running", "answered"}
         /\ \A b \in Bridged : \/ x.tasks[b].at = requests[r].tasks[b].at
                               \/ /\ requests[r].tasks[b].at = "none" /\ x.tasks[b].at = "waiting"
                                  /\ b \in bridge.linked
<1> DEFINE m == requests[r].message
           x == Began(requests[r])
           tasks == [b \in Bridged |-> IF b \in Needs(m) THEN [NoTask EXCEPT !.at = "waiting"] ELSE NoTask]
<1>1. requests[r] \in Request
  BY RequestFacts
<1>2. Needs(m) \subseteq bridge.linked
  <2>1. bridge.linked = bridge.chosen
    BY DEF BridgeInv, Phases
  <2>2. m.path = "all" \/ (m.path = "one" /\ m.servers \subseteq bridge.chosen)
    <3>1. CASE requests[r].at = "body"
      BY <3>1 DEF BridgeInv, TasksFit, Routed
    <3>2. CASE requests[r].at = "new"
      BY <3>2 DEF BridgeInv, Phases
    <3>3. QED
      BY <3>1, <3>2
  <2>3. \/ m.path = "all" /\ Needs(m) = bridge.chosen
        \/ m.path # "all" /\ Needs(m) = m.servers
        \/ Needs(m) \subseteq bridge.chosen
    <3> HIDE DEF m
    <3>1. QED
      BY Zenon DEF Needs
  <2>4. QED
    BY <2>1, <2>2, <2>3
<1>3. \A b \in Bridged : requests[r].tasks[b].at = "none"
  BY DEF BridgeInv, TasksFit
<1>4. /\ tasks \in [Bridged -> Task]
      /\ \A b \in Bridged : tasks[b].at = IF b \in Needs(m) THEN "waiting" ELSE "none"
  BY DEF Task, NoTask, TaskStates
<1> DEFINE answer == IF \/ Unreadable(m) \/ Invalid(m) \/ BadParameters(m)
                        \/ m.asks \in {"call", "unknown method"} THEN "error"
                     ELSE IF m.asks = "notification" THEN "accepted" ELSE "ok"
<1>5. \/ x = [requests[r] EXCEPT !.at = "running", !.tasks = tasks]
      \/ x = [requests[r] EXCEPT !.at = "answered", !.answer = answer]
  BY Zenon DEF Began
<1>9. answer \in {"error", "accepted", "ok"}
  OBVIOUS
<1> HIDE DEF answer
<1> HIDE DEF x, tasks, m
<1>6. CASE x = [requests[r] EXCEPT !.at = "running", !.tasks = tasks]
  <2>1. /\ x \in Request /\ x.message = requests[r].message /\ x.at = "running" /\ x.tasks = tasks
    BY <1>1, <1>4, <1>6 DEF Request, RequestStates
  <2>2. QED
    BY <1>2, <1>3, <1>4, <2>1 DEF x
<1>7. CASE x = [requests[r] EXCEPT !.at = "answered", !.answer = answer]
  <2>1. /\ x \in Request /\ x.message = requests[r].message /\ x.at = "answered"
        /\ x.tasks = requests[r].tasks
    BY <1>1, <1>7, <1>9 DEF Request, RequestStates, AnswerKinds
  <2>2. QED
    BY <2>1 DEF x
<1>8. QED
  BY <1>5, <1>6, <1>7

(* The request itself changes, and no task of it.                          *)
LEMMA RequestOnly ==
  ASSUME BridgeInv, NEW r \in Downstream, NEW x,
         NEW at \in RequestStates \ {"new"}, NEW answer \in AnswerKinds,
         x = [requests[r] EXCEPT !.at = at, !.answer = answer],
         requests' = [requests EXCEPT ![r] = x], UNCHANGED <<bridge, slots>>,
         requests[r].at \in {"body", "running", "answered"} \/ (bridge.at = "serving" /\ bridge.mode = "http"),
         at = "body" => /\ bridge.mode = "http" /\ bridge.at = "serving"
                        /\ Routed(requests[r].message) /\ requests[r].at = "new",
         admissions' \in Nat,
         bridge.mode # "http" => admissions' = admissions,
         bridge.mode = "http" =>
           LET before == requests[r].at \in {"body", "running", "answered"}
               after == at \in {"body", "running", "answered"}
           IN  admissions' = IF before THEN IF after THEN admissions ELSE admissions + 1
                             ELSE IF after THEN admissions - 1 ELSE admissions
  PROVE  BridgeInv'
<1>1. /\ x \in Request /\ x.message = requests[r].message /\ x.at = at /\ x.tasks = requests[r].tasks
  BY RequestFacts DEF Request
<1>2. bridge' \in BridgeProcess'
  BY DEF BridgeInv, BridgeShape, BridgeProcess
<1>3. FramesWait'
  <2>1. \A i \in DOMAIN bridge.input : bridge.input[i] \in Downstream
    BY DEF BridgeInv, BridgeShape
  <2>2. bridge.mode # "http" => requests[r].at # "new"
    BY DEF BridgeInv
  <2>3. \A q \in Downstream : q # r => requests'[q] = requests[q]
    BY DEF BridgeInv, BridgeShape
  <2>4. QED
    BY <2>1, <2>2, <2>3 DEF BridgeInv, FramesWait
<1>4. at = "body" => \A b \in Bridged : x.tasks[b].at = "none"
  BY <1>1 DEF BridgeInv, TasksFit
<1>5. requests[r].at # "new" \/ bridge.at = "serving"
  OBVIOUS
<1>6. \A b \in Bridged : x.tasks[b].at = requests[r].tasks[b].at
  BY <1>1
<1>7. QED
  BY <1>1, <1>2, <1>3, <1>4, <1>5, <1>6, RequestFrame

LEMMA RequestRefused ==
  ASSUME BridgeInv, NEW r \in Downstream, Arrive(r)
  PROVE  BridgeInv'
<1> DEFINE m == requests[r].message
           answer == IF ~bridge.open THEN "busy"
                     ELSE IF ~Routed(m) \/ ~m.post \/ ~FromHere(m) THEN "refused"
                     ELSE IF admissions = 0 THEN "busy"
                     ELSE IF ~HeadersFit(m) THEN "refused" ELSE "none"
           at == IF answer = "none" THEN "body" ELSE "done"
<1>1. /\ bridge.at = "serving" /\ bridge.mode = "http" /\ requests[r].at = "new"
      /\ requests' = [requests EXCEPT ![r] = [@ EXCEPT !.at = at, !.answer = answer]]
      /\ admissions' = (IF answer = "none" THEN admissions - 1 ELSE admissions)
      /\ UNCHANGED <<bridge, slots>>
  BY DEF Arrive
<1>2. answer = "none" => Routed(m) /\ admissions # 0
  OBVIOUS
<1>3. answer \in AnswerKinds
  BY DEF AnswerKinds
<1>4. admissions \in Nat
  BY DEF BridgeInv, BridgeShape
<1> HIDE DEF answer
<1>5. /\ at \in RequestStates \ {"new"} /\ (at = "body" <=> answer = "none")
      /\ at \in {"body", "running", "answered"} <=> answer = "none"
  BY DEF RequestStates
<1> HIDE DEF at
<1>6. requests' = [requests EXCEPT ![r] = [requests[r] EXCEPT !.at = at, !.answer = answer]]
  BY <1>1
<1>7. admissions' \in Nat
  BY <1>1, <1>2, <1>4
<1>8. QED
  BY <1>1, <1>2, <1>3, <1>5, <1>6, <1>7, RequestOnly

LEMMA RequestEnds ==
  ASSUME BridgeInv, NEW r \in Downstream, Conclude(r) \/ RespondDownstream(r) \/ Disconnect(r)
  PROVE  BridgeInv'
<1>0. /\ requests[r] \in Request /\ requests[r].answer \in AnswerKinds /\ admissions \in Nat
      /\ requests \in [Downstream -> Request]
  BY RequestFacts DEF BridgeInv, BridgeShape, Request
<1> USE DEF RequestStates, AnswerKinds
<1>1. CASE Conclude(r)
  <2>1. PICK answer \in {"error", "ok"} :
          requests' = [requests EXCEPT ![r].at = "answered", ![r].answer = answer]
    BY <1>1 DEF Conclude
  <2>2. requests' = [requests EXCEPT ![r] = [requests[r] EXCEPT !.at = "answered", !.answer = answer]]
    BY <1>0, <2>1 DEF Request
  <2>3. requests[r].at = "running" /\ UNCHANGED <<bridge, slots, admissions>>
    BY <1>1 DEF Conclude
  <2>4. QED
    BY <1>0, <2>2, <2>3, RequestOnly
<1>2. CASE RespondDownstream(r)
  <2> DEFINE answer == requests[r].answer
  <2>1. requests' = [requests EXCEPT ![r] = [requests[r] EXCEPT !.at = "done", !.answer = answer]]
    BY <1>0, <1>2 DEF RespondDownstream, Request
  <2>2. /\ requests[r].at = "answered" /\ UNCHANGED <<bridge, slots>>
        /\ admissions' = IF bridge.mode = "http" THEN admissions + 1 ELSE admissions
    BY <1>2 DEF RespondDownstream
  <2> HIDE DEF answer
  <2>3. answer \in AnswerKinds
    BY <1>0 DEF answer
  <2> DEFINE at == "done"
  <2>4. /\ at \in RequestStates \ {"new"} /\ at \notin {"body", "running", "answered"}
        /\ requests' = [requests EXCEPT ![r] = [requests[r] EXCEPT !.at = at, !.answer = answer]]
        /\ admissions' \in Nat
    BY <1>0, <2>1, <2>2
  <2> HIDE DEF at
  <2>5. QED
    BY <2>2, <2>3, <2>4, RequestOnly
<1>3. CASE Disconnect(r)
  <2> DEFINE answer == requests[r].answer
  <2>1. requests' = [requests EXCEPT ![r] = [requests[r] EXCEPT !.at = "dropped", !.answer = answer]]
    BY <1>0, <1>3 DEF Disconnect, Request
  <2>2. /\ requests[r].at \in {"body", "running"} /\ UNCHANGED <<bridge, slots>>
        /\ admissions' = admissions + 1 /\ bridge.mode = "http"
    BY <1>3 DEF Disconnect
  <2> HIDE DEF answer
  <2>3. answer \in AnswerKinds
    BY <1>0 DEF answer
  <2> DEFINE at == "dropped"
  <2>4. /\ at \in RequestStates \ {"new"} /\ at \notin {"body", "running", "answered"}
        /\ requests' = [requests EXCEPT ![r] = [requests[r] EXCEPT !.at = at, !.answer = answer]]
        /\ admissions' \in Nat
    BY <1>0, <2>1, <2>2
  <2> HIDE DEF at
  <2>5. QED
    BY <2>2, <2>3, <2>4, RequestOnly
<1>4. QED
  BY <1>1, <1>2, <1>3

LEMMA RequestRead ==
  ASSUME BridgeInv, NEW r \in Downstream, ReadBody(r)
  PROVE  BridgeInv'
<1> DEFINE m == requests[r].message
<1>0. /\ requests[r] \in Request /\ admissions \in Nat /\ requests \in [Downstream -> Request]
      /\ requests[r].at = "body" /\ UNCHANGED <<bridge, slots>>
      /\ bridge.mode = "http" /\ bridge.at = "serving"
  BY RequestFacts DEF BridgeInv, BridgeShape, Request, TasksFit, ReadBody
<1>1. CASE m.body = "ok" /\ ErasAgree(m) /\ AcceptFits(m)
  <2> DEFINE x == Began(requests[r])
  <2>1. requests' = [requests EXCEPT ![r] = x] /\ admissions' = admissions
    BY <1>1 DEF ReadBody
  <2>2. /\ x \in Request /\ x.message = requests[r].message /\ x.at \in {"running", "answered"}
        /\ \A b \in Bridged : \/ x.tasks[b].at = requests[r].tasks[b].at
                              \/ /\ requests[r].tasks[b].at = "none" /\ x.tasks[b].at = "waiting"
                                 /\ b \in bridge.linked
    BY <1>0, Begins
  <2> HIDE DEF x
  <2>3. bridge' \in BridgeProcess'
    BY <1>0 DEF BridgeInv, BridgeShape, BridgeProcess
  <2>4. FramesWait'
    BY <1>0 DEF FramesWait
  <2>5. QED
    BY <1>0, <2>1, <2>2, <2>3, <2>4, RequestFrame
<1>2. CASE ~(m.body = "ok" /\ ErasAgree(m) /\ AcceptFits(m))
  <2>1. requests' = [requests EXCEPT ![r] = [requests[r] EXCEPT !.at = "done", !.answer = "refused"]]
        /\ admissions' = admissions + 1
    BY <1>0, <1>2 DEF ReadBody, Request
  <2> DEFINE at == "done"
             answer == "refused"
  <2>2. /\ at \in RequestStates \ {"new"} /\ at \notin {"body", "running", "answered"}
        /\ answer \in AnswerKinds /\ admissions' \in Nat
        /\ requests' = [requests EXCEPT ![r] = [requests[r] EXCEPT !.at = at, !.answer = answer]]
    BY <1>0, <2>1 DEF RequestStates, AnswerKinds
  <2> HIDE DEF at, answer
  <2>3. QED
    BY <1>0, <2>1, <2>2, RequestOnly
<1>3. QED
  BY <1>1, <1>2

LEMMA RequestTaken ==
  ASSUME BridgeInv, TakeFrame
  PROVE  BridgeInv'
<1> DEFINE r == Head(bridge.input)
           x == Began(requests[r])
<1>0. /\ bridge.at = "serving" /\ bridge.mode = "stdio" /\ bridge.input # <<>>
      /\ bridge.input \in Seq(Downstream) /\ bridge \in BridgeProcess
      /\ bridge' = [bridge EXCEPT !.input = Tail(@)]
      /\ requests' = [requests EXCEPT ![r] = x]
      /\ UNCHANGED <<slots, admissions>> /\ admissions \in Nat
  BY RequestFacts DEF TakeFrame, MayTake, BridgeInv, BridgeShape, BridgeProcess
<1>1. /\ r \in Downstream /\ r = bridge.input[1] /\ Len(bridge.input) \in Nat \ {0}
      /\ DOMAIN bridge.input = 1..Len(bridge.input)
      /\ Tail(bridge.input) \in Seq(Downstream) /\ Len(Tail(bridge.input)) = Len(bridge.input) - 1
      /\ DOMAIN Tail(bridge.input) = 1..(Len(bridge.input) - 1)
      /\ \A i \in 1..(Len(bridge.input) - 1) : Tail(bridge.input)[i] = bridge.input[i + 1]
  BY <1>0
<1>2. requests[r].at = "new"
  BY <1>0, <1>1 DEF BridgeInv, FramesWait
<1>3. /\ x \in Request /\ x.message = requests[r].message /\ x.at \in {"running", "answered"}
      /\ \A b \in Bridged : \/ x.tasks[b].at = requests[r].tasks[b].at
                            \/ /\ requests[r].tasks[b].at = "none" /\ x.tasks[b].at = "waiting"
                               /\ b \in bridge.linked
  BY <1>0, <1>1, <1>2, Begins
<1> HIDE DEF x
<1>4. /\ bridge'.mode = bridge.mode /\ bridge'.at = bridge.at /\ bridge'.outcome = bridge.outcome
      /\ bridge'.linked = bridge.linked /\ bridge'.chosen = bridge.chosen
      /\ bridge'.concurrency = bridge.concurrency /\ bridge'.options = bridge.options
      /\ bridge'.servers = bridge.servers /\ bridge'.input = Tail(bridge.input)
      /\ bridge' \in BridgeProcess
  BY <1>0, <1>1 DEF BridgeProcess
<1>5. bridge' \in BridgeProcess'
  BY <1>4 DEF BridgeProcess
<1>6. FramesWait'
  <2>0. \A i, j \in 1..Len(bridge.input) : i # j => bridge.input[i] # bridge.input[j]
    BY <1>0, <1>1 DEF BridgeInv, FramesWait
  <2>6. \A i \in 1..Len(bridge.input) : bridge.input[i] \in Downstream
    BY <1>0
  <2> HIDE DEF r
  <2>1. \A i \in 1..(Len(bridge.input) - 1) :
          /\ bridge'.input[i] = bridge.input[i + 1] /\ i + 1 \in 1..Len(bridge.input)
          /\ bridge.input[i + 1] \in Downstream /\ bridge.input[i + 1] # r
    BY <1>1, <1>4, <2>0, <2>6
  <2>2. \A q \in Downstream : q # r => requests'[q] = requests[q]
    BY <1>0 DEF BridgeInv, BridgeShape
  <2>3. \A i \in DOMAIN bridge'.input : requests'[bridge'.input[i]].at = "new"
    BY <1>0, <1>1, <1>4, <2>1, <2>2 DEF BridgeInv, FramesWait
  <2>4. \A i, j \in DOMAIN bridge'.input : i # j => bridge'.input[i] # bridge'.input[j]
    BY <1>0, <1>1, <1>4, <2>1 DEF BridgeInv, FramesWait
  <2>5. QED
    BY <2>3, <2>4 DEF FramesWait
<1> HIDE DEF r
<1>7. QED
  BY <1>0, <1>1, <1>2, <1>3, <1>4, <1>5, <1>6, RequestFrame

-----------------------------------------------------------------------------
(* The bridge: steps of the process.                                       *)

LEMMA ProcessFrame ==
  ASSUME BridgeInv, NEW at \in {bridge.at, "left"}, NEW outcome \in {"none", "ok", "failed"},
         NEW open \in BOOLEAN,
         bridge' = [bridge EXCEPT !.at = at, !.outcome = outcome, !.open = open],
         UNCHANGED <<slots, requests, admissions>>,
         bridge.at # "left",
         at = "left" => UnderWay = {}
  PROVE  BridgeInv'
<1>1. /\ bridge' \in BridgeProcess /\ bridge'.mode = bridge.mode /\ bridge'.at = at /\ bridge'.outcome = outcome
      /\ bridge'.linked = bridge.linked /\ bridge'.chosen = bridge.chosen
      /\ bridge'.concurrency = bridge.concurrency /\ bridge'.options = bridge.options
      /\ bridge'.servers = bridge.servers /\ bridge'.input = bridge.input
  <2>1. at \in {"starting", "connecting", "serving", "left"}
    BY DEF BridgeInv, BridgeShape
  <2>2. QED
    BY <2>1 DEF BridgeInv, BridgeShape, BridgeProcess
<1>2. BridgeShape'
  BY <1>1 DEF BridgeInv, BridgeShape, BridgeProcess
<1>3. Phases' /\ FramesWait'
  BY <1>1 DEF BridgeInv, Phases, FramesWait
<1>4. TasksFit'
  <2>1. at = "left" => \A r \in Downstream : requests[r].at # "body"
    BY DEF UnderWay
  <2>2. QED
    BY <1>1, <2>1 DEF BridgeInv, TasksFit, Routed
<1>5. SlotCounts' /\ AdmissionCounts'
  <2>1. UnderWay' = UnderWay /\ \A b : At(b, Leased)' = At(b, Leased) /\ At(b, Permitted)' = At(b, Permitted)
    BY DEF At, UnderWay
  <2>2. QED
    BY <1>1, <2>1 DEF BridgeInv, SlotCounts, AdmissionCounts
<1>6. AnsweredBeforeLeaving'
  <2>2. UnderWay = {} => \A r \in Downstream : requests[r].at \in {"new", "done", "dropped"}
    BY DEF UnderWay, BridgeInv, BridgeShape, RequestStates
  <2>3. bridge'.at = "left" => at = "left"
    BY <1>1
  <2>4. QED
    BY <1>1, <2>2 DEF AnsweredBeforeLeaving
<1>7. QED
  BY <1>2, <1>3, <1>4, <1>5, <1>6 DEF BridgeInv

LEMMA ProcessEnds ==
  ASSUME BridgeInv, LinkFails \/ EndInput \/ InterruptBridge \/ LeaveServing
  PROVE  BridgeInv'
<1>0. bridge \in BridgeProcess
  BY DEF BridgeInv, BridgeShape, BridgeProcess
<1>1. CASE LinkFails
  <2>1. bridge' = [bridge EXCEPT !.at = "left", !.outcome = "failed", !.open = bridge.open]
    BY <1>0, <1>1 DEF LinkFails, BridgeProcess
  <2>2. UnderWay = {} /\ bridge.at # "left" /\ UNCHANGED <<slots, requests, admissions>>
    BY <1>1 DEF LinkFails, BridgeInv, Phases, UnderWay
  <2>3. bridge.open \in BOOLEAN
    BY <1>0 DEF BridgeProcess
  <2>4. QED
    BY <2>1, <2>2, <2>3, ProcessFrame
<1>2. CASE EndInput
  <2> DEFINE outcome == IF bridge.ends = "error" THEN "failed" ELSE bridge.outcome
  <2>1. bridge' = [bridge EXCEPT !.at = bridge.at, !.outcome = outcome, !.open = FALSE]
    BY <1>0, <1>2 DEF EndInput, BridgeProcess
  <2>2. bridge.at = "serving" /\ UNCHANGED <<slots, requests, admissions>>
    BY <1>2 DEF EndInput, MayTake
  <2>3. outcome \in {"none", "ok", "failed"}
    BY <1>0 DEF BridgeProcess
  <2> HIDE DEF outcome
  <2>4. QED
    BY <2>1, <2>2, <2>3, ProcessFrame
<1>3. CASE InterruptBridge
  <2>1. bridge' = [bridge EXCEPT !.at = bridge.at, !.outcome = bridge.outcome, !.open = FALSE]
    BY <1>0, <1>3 DEF InterruptBridge, BridgeProcess
  <2>2. bridge.at = "serving" /\ UNCHANGED <<slots, requests, admissions>>
    BY <1>3 DEF InterruptBridge
  <2>3. bridge.outcome \in {"none", "ok", "failed"}
    BY <1>0 DEF BridgeProcess
  <2>4. QED
    BY <2>1, <2>2, <2>3, ProcessFrame
<1>4. CASE LeaveServing
  <2> DEFINE outcome == IF bridge.outcome = "none" THEN "ok" ELSE bridge.outcome
  <2>1. bridge' = [bridge EXCEPT !.at = "left", !.outcome = outcome, !.open = bridge.open]
    BY <1>0, <1>4 DEF LeaveServing, BridgeProcess
  <2>2. bridge.at = "serving" /\ UnderWay = {} /\ UNCHANGED <<slots, requests, admissions>>
    BY <1>4 DEF LeaveServing
  <2>3. outcome \in {"none", "ok", "failed"} /\ bridge.open \in BOOLEAN
    BY <1>0 DEF BridgeProcess
  <2> HIDE DEF outcome
  <2>4. QED
    BY <2>1, <2>2, <2>3, ProcessFrame
<1>5. QED
  BY <1>1, <1>2, <1>3, <1>4

LEMMA ProcessSelects ==
  ASSUME BridgeInv, Select
  PROVE  BridgeInv'
<1>0. bridge \in BridgeProcess /\ bridge.at = "starting" /\ UNCHANGED <<slots, requests, admissions>>
  BY DEF BridgeInv, BridgeShape, BridgeProcess, Select
<1>1. UnderWay = {} /\ UnderWay' = {} /\ bridge.linked = {} /\ bridge.mode = "none"
      /\ \A r \in Downstream : requests[r].at = "new"
  BY <1>0 DEF BridgeInv, Phases, UnderWay
<1> DEFINE kept == {b \in Bridged : KeptAlive(bridge.servers[b], bridge.options)}
           chosen == IF bridge.options.only = {} THEN kept ELSE bridge.options.only
           fails == Contradictory(bridge.options) \/ chosen = {} \/ ~(chosen \subseteq kept)
           mode == IF "--http" \in bridge.options.flags THEN "http" ELSE "stdio"
<1>2. bridge' = IF fails THEN [bridge EXCEPT !.at = "left", !.outcome = "failed"]
                ELSE [bridge EXCEPT !.at = "connecting", !.chosen = chosen, !.mode = mode]
  BY DEF Select
<1>3. CASE fails
  <2>1. bridge' = [bridge EXCEPT !.at = "left", !.outcome = "failed", !.open = bridge.open]
    BY <1>0, <1>2, <1>3 DEF BridgeProcess
  <2>2. bridge.open \in BOOLEAN
    BY <1>0 DEF BridgeProcess
  <2>3. QED
    BY <1>0, <1>1, <2>1, <2>2, ProcessFrame
<1>4. CASE ~fails
  <2>1. chosen \in SUBSET Bridged /\ mode \in {"stdio", "http"}
        /\ (mode = "stdio" => "--http" \notin bridge.options.flags)
    BY <1>4
  <2>2. bridge' = [bridge EXCEPT !.at = "connecting", !.chosen = chosen, !.mode = mode]
    BY <1>2, <1>4
  <2> HIDE DEF kept, chosen, fails, mode
  <2>3. /\ bridge' \in BridgeProcess /\ bridge'.mode = mode /\ bridge'.at = "connecting"
        /\ bridge'.linked = {} /\ bridge'.chosen = chosen
        /\ bridge'.concurrency = bridge.concurrency /\ bridge'.options = bridge.options
        /\ bridge'.servers = bridge.servers /\ bridge'.input = bridge.input
    BY <1>0, <1>1, <2>1, <2>2 DEF BridgeProcess
  <2>4. BridgeShape'
    BY <1>0, <2>3 DEF BridgeInv, BridgeShape, BridgeProcess
  <2>5. Phases' /\ AnsweredBeforeLeaving'
    BY <1>0, <1>1, <2>1, <2>3 DEF BridgeInv, Phases, AnsweredBeforeLeaving
  <2>6. FramesWait' /\ TasksFit'
    BY <1>0, <1>1, <2>1, <2>3 DEF BridgeInv, FramesWait, TasksFit
  <2>7. SlotCounts'
    BY <1>0, <1>1, <2>3 DEF BridgeInv, SlotCounts
  <2>8. AdmissionCounts'
    <3>1. admissions' = MaxHttpRequests /\ Cardinality(UnderWay') = 0
      BY <1>0, <1>1, FS_EmptySet DEF BridgeInv, AdmissionCounts
    <3>2. QED
      BY <3>1, BridgeAssumption DEF AdmissionCounts
  <2>9. QED
    BY <2>4, <2>5, <2>6, <2>7, <2>8 DEF BridgeInv
<1>5. QED
  BY <1>3, <1>4

LEMMA ProcessLinks ==
  ASSUME BridgeInv, NEW b \in Bridged, Link(b)
  PROVE  BridgeInv'
<1> DEFINE n == bridge.concurrency
           linked == bridge.linked \cup {b}
           at == IF linked = bridge.chosen THEN "serving" ELSE bridge.at
           slot == [idle |-> [i \in 1..n |-> IF i = n THEN "open" ELSE "none"], free |-> n]
<1>0. /\ bridge \in BridgeProcess /\ bridge.at = "connecting" /\ b \in bridge.chosen \ bridge.linked
      /\ bridge' = [bridge EXCEPT !.linked = linked, !.at = at]
      /\ slots' = [slots EXCEPT ![b] = slot] /\ UNCHANGED <<requests, admissions>>
  BY DEF BridgeInv, BridgeShape, BridgeProcess, Link
<1>1. /\ linked \in SUBSET Bridged /\ at \in {"connecting", "serving"} /\ n \in Nat
      /\ linked \subseteq bridge.chosen /\ (at = "serving" => linked = bridge.chosen)
      /\ bridge.linked \subseteq linked
  BY <1>0 DEF BridgeProcess, BridgeInv, Phases
<1>2. slot \in Slots /\ Len(slot.idle) = n /\ slot.free = n
  BY <1>1 DEF Slots
<1> HIDE DEF at, slot
<1>3. /\ bridge' \in BridgeProcess /\ bridge'.mode = bridge.mode /\ bridge'.at = at
      /\ bridge'.linked = linked /\ bridge'.chosen = bridge.chosen /\ bridge'.outcome = bridge.outcome
      /\ bridge'.concurrency = n /\ bridge'.options = bridge.options
      /\ bridge'.servers = bridge.servers /\ bridge'.input = bridge.input
  BY <1>0, <1>1 DEF BridgeProcess
<1>4. BridgeShape'
  BY <1>0, <1>2, <1>3 DEF BridgeInv, BridgeShape, BridgeProcess
<1>5. Phases' /\ AnsweredBeforeLeaving' /\ FramesWait'
  BY <1>0, <1>1, <1>3 DEF BridgeInv, Phases, AnsweredBeforeLeaving, FramesWait
<1>6. TasksFit'
  BY <1>0, <1>1, <1>3 DEF BridgeInv, TasksFit
<1>7. /\ UnderWay' = UnderWay
      /\ \A c : At(c, Leased)' = At(c, Leased) /\ At(c, Permitted)' = At(c, Permitted)
  BY <1>0 DEF At, UnderWay
<1>8. SlotCounts'
  <2>1. \A r \in Downstream : requests[r].tasks[b].at = "none"
    BY <1>0 DEF BridgeInv, TasksFit
  <2>2. At(b, Leased) = {} /\ At(b, Permitted) = {}
    BY <2>1 DEF At, Leased, Permitted
  <2>3. Cardinality(At(b, Leased)) = 0 /\ Cardinality(At(b, Permitted)) = 0
    BY <2>2, FS_EmptySet
  <2>4. slots'[b] = slot /\ \A c \in Bridged \ {b} : slots'[c] = slots[c]
    BY <1>0 DEF BridgeInv, BridgeShape
  <2>5. ASSUME NEW c \in linked
        PROVE  /\ Len(slots'[c].idle) + Cardinality(At(c, Leased)') = n
               /\ slots'[c].free + Cardinality(At(c, Permitted)') = n
    <3>1. CASE c = b
      BY <1>1, <1>2, <1>7, <2>3, <2>4, <3>1
    <3>2. CASE c # b
      BY <1>0, <1>1, <1>7, <2>4, <2>5, <3>2 DEF BridgeInv, SlotCounts
    <3>3. QED
      BY <3>1, <3>2
  <2>6. \A c \in Bridged \ linked : slots'[c].free = 0
    BY <2>4 DEF BridgeInv, SlotCounts
  <2>7. QED
    BY <1>3, <2>5, <2>6 DEF SlotCounts
<1>9. AdmissionCounts'
  BY <1>0, <1>3, <1>7 DEF BridgeInv, AdmissionCounts
<1>10. QED
  BY <1>4, <1>5, <1>6, <1>8, <1>9 DEF BridgeInv

LEMMA ProcessDrops ==
  ASSUME BridgeInv, OutputFails
  PROVE  BridgeInv'
<1>0. /\ bridge \in BridgeProcess /\ requests \in [Downstream -> Request] /\ admissions \in Nat
      /\ bridge.at = "serving" /\ bridge.mode = "stdio" /\ UNCHANGED <<slots, admissions>>
      /\ bridge' = [bridge EXCEPT !.at = "left", !.outcome = "failed"]
  BY DEF BridgeInv, BridgeShape, BridgeProcess, Request, OutputFails
<1>1. /\ bridge' \in BridgeProcess /\ bridge'.mode = "stdio" /\ bridge'.at = "left" /\ bridge'.outcome = "failed"
      /\ bridge'.linked = bridge.linked /\ bridge'.chosen = bridge.chosen
      /\ bridge'.concurrency = bridge.concurrency /\ bridge'.options = bridge.options
      /\ bridge'.servers = bridge.servers /\ bridge'.input = bridge.input
  BY <1>0 DEF BridgeProcess
<1>2. \A r \in Downstream :
        /\ requests'[r] \in Request /\ requests'[r].message = requests[r].message
        /\ requests'[r].tasks = requests[r].tasks
        /\ requests'[r].at \in {requests[r].at, "dropped"} /\ requests'[r].at \notin {"body", "running", "answered"}
        /\ requests[r].at = "new" => requests'[r].at = "new"
  <2> TAKE r \in Downstream
  <2> DEFINE x == [requests[r] EXCEPT !.at = "dropped"]
  <2>1. requests[r] \in Request
    BY <1>0
  <2>2. x \in Request /\ x.message = requests[r].message /\ x.tasks = requests[r].tasks /\ x.at = "dropped"
    BY <2>1 DEF Request, RequestStates
  <2>3. requests'[r] = IF r \in UnderWay THEN x ELSE requests[r]
    BY DEF OutputFails
  <2> HIDE DEF x
  <2>4. QED
    BY <2>1, <2>2, <2>3 DEF UnderWay
<1>3. BridgeShape'
  <2>1. {requests'[r].message : r \in Downstream} = {requests[r].message : r \in Downstream}
    BY <1>2
  <2>2. requests' \in [Downstream -> Request]
    BY <1>2 DEF OutputFails
  <2>3. QED
    BY <1>0, <1>1, <2>1, <2>2 DEF BridgeInv, BridgeShape, BridgeProcess, Request
<1>4. Phases' /\ AnsweredBeforeLeaving'
  <2>1. Phases'
    BY <1>0, <1>1, <1>2 DEF BridgeInv, Phases
  <2>2. AnsweredBeforeLeaving'
    BY <1>1 DEF AnsweredBeforeLeaving
  <2>3. QED
    BY <2>1, <2>2
<1>5. FramesWait'
  <2>1. \A i \in DOMAIN bridge.input : bridge.input[i] \in Downstream
    BY DEF BridgeInv, BridgeShape
  <2>2. QED
    BY <1>0, <1>1, <1>2, <2>1 DEF BridgeInv, FramesWait
<1>6. TasksFit'
  BY <1>0, <1>1, <1>2 DEF BridgeInv, TasksFit
<1>7. \A c : At(c, Leased)' = At(c, Leased) /\ At(c, Permitted)' = At(c, Permitted)
  BY <1>2 DEF At
<1>8. SlotCounts' /\ AdmissionCounts'
  BY <1>0, <1>1, <1>7 DEF BridgeInv, SlotCounts, AdmissionCounts
<1>9. QED
  BY <1>3, <1>4, <1>5, <1>6, <1>8 DEF BridgeInv

LEMMA BridgeStep ==
  ASSUME BridgeInv, [BridgeNext]_bridgeVars
  PROVE  BridgeInv'
<1>1. CASE UNCHANGED bridgeVars
  <2>1. /\ UnderWay' = UnderWay /\ bridge' = bridge /\ slots' = slots /\ requests' = requests
        /\ admissions' = admissions
        /\ \A c : At(c, Leased)' = At(c, Leased) /\ At(c, Permitted)' = At(c, Permitted)
    BY <1>1 DEF bridgeVars, At, UnderWay
  <2>2. BridgeShape' /\ Phases' /\ FramesWait' /\ TasksFit' /\ AnsweredBeforeLeaving'
    BY <2>1 DEF BridgeInv, BridgeShape, Phases, FramesWait, TasksFit, AnsweredBeforeLeaving, Routed
  <2>3. SlotCounts' /\ AdmissionCounts'
    BY <2>1 DEF BridgeInv, SlotCounts, AdmissionCounts
  <2>4. QED
    BY <2>2, <2>3 DEF BridgeInv
<1>2. CASE BridgeNext
  BY <1>2, ProcessSelects, ProcessEnds, ProcessLinks, ProcessDrops, RequestTaken, RequestRefused,
     RequestRead, RequestEnds, TaskWaits, TaskPops, TaskReturns DEF BridgeNext, TaskStep
<1>3. QED
  BY <1>1, <1>2

-----------------------------------------------------------------------------
(* The bridge: what a host gives it, and what holds.                       *)

(* A number of connections, frames of which each comes once, and paths     *)
(* only over HTTP (mcp_bridge_stdio.rs serves all servers on one pipe).    *)
FromHost(given) ==
  /\ given.options.concurrency \in Nat
  /\ given.input \in Seq(Downstream) /\ given.ends \in {"end", "error"}
  /\ \A i, j \in DOMAIN given.input : i # j => given.input[i] # given.input[j]
  /\ "--http" \in given.options.flags \/ \A r \in Downstream : given.messages[r].path = "all"

LEMMA BridgeStarts ==
  ASSUME NEW workloads, \A given \in workloads : FromHost(given), BridgeInit(workloads)
  PROVE  BridgeInv
<1>1. PICK given \in workloads :
       /\ bridge = [mode |-> "none", at |-> "starting", outcome |-> "none", linked |-> {},
                    chosen |-> {}, options |-> given.options, concurrency |-> given.options.concurrency,
                    servers |-> given.servers, open |-> TRUE, input |-> given.input, ends |-> given.ends]
       /\ requests = [r \in Downstream |->
            [message |-> given.messages[r], at |-> "new", answer |-> "none",
             tasks |-> [b \in Bridged |-> NoTask]]]
  BY DEF BridgeInit
<1>2. FromHost(given)
  OBVIOUS
<1>3. slots = [b \in Bridged |-> [idle |-> <<>>, free |-> 0]] /\ admissions = MaxHttpRequests
  BY DEF BridgeInit
<1>4. \A r \in Downstream : /\ requests[r].message = given.messages[r] /\ requests[r].at = "new"
                            /\ requests[r].answer = "none"
                            /\ requests[r].tasks = [b \in Bridged |-> NoTask]
  BY <1>1
<1>5. BridgeShape
  <2>1. bridge \in BridgeProcess
    BY <1>1, <1>2 DEF BridgeProcess, FromHost
  <2>2. [b \in Bridged |-> NoTask] \in [Bridged -> Task]
    BY DEF Task, TaskStates, NoTask
  <2>3. requests \in [Downstream -> Request]
    BY <1>1, <1>4, <2>2 DEF Request, RequestStates, AnswerKinds
  <2>4. slots \in [Bridged -> Slots]
    BY <1>3 DEF Slots
  <2>5. QED
    BY <1>3, <2>1, <2>3, <2>4, BridgeAssumption DEF BridgeShape, BridgeProcess, Request
<1>6. Phases /\ FramesWait /\ AnsweredBeforeLeaving
  <2>1. \A i \in DOMAIN given.input : given.input[i] \in Downstream
    BY <1>2 DEF FromHost
  <2>2. QED
    BY <1>1, <1>2, <1>4, <2>1 DEF FromHost, Phases, FramesWait, AnsweredBeforeLeaving
<1>7. TasksFit /\ SlotCounts /\ AdmissionCounts
  BY <1>1, <1>3, <1>4 DEF TasksFit, NoTask, SlotCounts, AdmissionCounts
<1>8. QED
  BY <1>5, <1>6, <1>7 DEF BridgeInv

LEMMA BridgeTyped ==
  ASSUME BridgeInv PROVE BridgeTypeOK
<1>1. \A b \in Bridged : slots[b].idle \in Seq({"none", "open", "closed"}) /\ slots[b].free \in Nat
  BY DEF BridgeInv, BridgeShape, Slots
<1>2. bridge.concurrency \in Nat /\ admissions \in Nat
  BY DEF BridgeInv, BridgeShape
<1>3. \A b \in Bridged : slots[b].free \in 0..bridge.concurrency
  <2> TAKE b \in Bridged
  <2>1. Cardinality(At(b, Permitted)) \in Nat
    BY CountsFinite
  <2>2. QED
    BY <1>1, <1>2, <2>1 DEF BridgeInv, SlotCounts
<1>4. admissions \in 0..MaxHttpRequests
  <2>1. Cardinality(UnderWay) \in Nat
    BY CountsFinite
  <2>2. QED
    BY <1>2, <2>1, BridgeAssumption DEF BridgeInv, AdmissionCounts
<1>5. \A r \in Downstream : requests[r] \in Request
  BY RequestFacts
<1>6. \A r \in Downstream :
        /\ requests[r].at \in {"new", "body", "running", "answered", "done", "dropped"}
        /\ requests[r].answer \in {"none", "ok", "error", "refused", "busy", "accepted"}
        /\ \A b \in Bridged : requests[r].tasks[b].at \in TaskStates
  BY <1>5 DEF Request, RequestStates, AnswerKinds, Task
<1>7. bridge.linked \subseteq bridge.chosen /\ BridgeShape
  BY DEF BridgeInv, Phases
<1>8. /\ bridge.mode \in {"none", "stdio", "http"}
      /\ bridge.at \in {"starting", "connecting", "serving", "left"}
      /\ bridge.outcome \in {"none", "ok", "failed"} /\ bridge.chosen \subseteq Bridged
      /\ bridge.open \in BOOLEAN /\ bridge.input \in Seq(Downstream) /\ bridge.ends \in {"end", "error"}
  BY <1>7 DEF BridgeShape
<1>9. QED
  BY <1>1, <1>2, <1>3, <1>4, <1>6, <1>7, <1>8 DEF BridgeTypeOK

LEMMA BridgeKeepsSlots ==
  ASSUME BridgeInv PROVE SlotsAreKept
<1> SUFFICES ASSUME NEW b \in bridge.linked
             PROVE  /\ Len(slots[b].idle) + Cardinality(At(b, Leased)) = bridge.concurrency
                    /\ Cardinality(At(b, {"admitted"})) <= Len(slots[b].idle)
  BY DEF SlotsAreKept, At, Leased
<1>1. /\ Len(slots[b].idle) + Cardinality(At(b, Leased)) = bridge.concurrency
      /\ slots[b].free + Cardinality(At(b, Permitted)) = bridge.concurrency
  BY DEF BridgeInv, SlotCounts
<1>2. /\ IsFiniteSet(At(b, Leased)) /\ IsFiniteSet(At(b, {"admitted"})) /\ IsFiniteSet(At(b, Permitted))
      /\ Cardinality(At(b, Leased)) \in Nat /\ Cardinality(At(b, {"admitted"})) \in Nat
      /\ Cardinality(At(b, Permitted)) \in Nat
  BY CountsFinite
<1>3. /\ At(b, Leased) \cup At(b, {"admitted"}) \in SUBSET At(b, Permitted)
      /\ At(b, Leased) \cap At(b, {"admitted"}) = {}
  BY DEF At, Leased, Permitted
<1>4. Cardinality(At(b, Leased) \cup At(b, {"admitted"}))
        = Cardinality(At(b, Leased)) + Cardinality(At(b, {"admitted"})) - 0
  BY <1>2, <1>3, FS_Union, FS_EmptySet
<1>5. Cardinality(At(b, Leased) \cup At(b, {"admitted"})) <= Cardinality(At(b, Permitted))
  BY <1>2, <1>3, FS_Subset
<1>6. /\ b \in Bridged /\ slots[b].free \in Nat /\ Len(slots[b].idle) \in Nat
      /\ bridge.concurrency \in Nat
  BY TaskFacts DEF BridgeInv, BridgeShape, Slots
<1>7. QED
  BY <1>1, <1>2, <1>4, <1>5, <1>6

-----------------------------------------------------------------------------
(* Delivery: one client.                                                   *)

Peer ==
  [task : {"away", "serving", "writing", "draining", "left"}, reads : BOOLEAN, capable : BOOLEAN,
   lines : 0..MaxInput, written : 0..(2 * MaxInput), taken : Nat, partial : BOOLEAN, whole : BOOLEAN,
   queue : Seq(Nat), wire : Seq(Nat), socket : Seq(Nat), got : Seq(Nat)]

(* The server's numbers rise, timeout answers between them.                *)
Rising(all) ==
  \A i, j \in DOMAIN all : all[i] # TimedOut /\ all[j] # TimedOut /\ i < j => all[i] < all[j]

(* What was given to a client so far is of numbers before the next, and    *)
(* of numbers before those that the router still has for it.               *)
Before(all, next) == \A i \in DOMAIN all : all[i] < next
BeforeAll(all, c, items) == \A i \in DOMAIN items : items[i][1] = c => Before(all, items[i][2])

PeerInv(p, next) ==
  /\ p \in Peer
  /\ Len(p.queue) <= QueueLimit /\ p.taken <= p.written
  /\ p.task # "writing" => p.wire = <<>>
  /\ Rising(Given(p)) /\ Before(Given(p), next)

(* What the router has: numbers already drawn, rising, and those held back *)
(* before those yet to be tried.                                           *)
ItemsRise(items, next) ==
  /\ \A i \in DOMAIN items : 0 < items[i][2] /\ items[i][2] < next
  /\ \A i, j \in DOMAIN items : i < j => items[i][2] < items[j][2]

RouterInv ==
  /\ ItemsRise(router.todo, output.next) /\ ItemsRise(router.held, output.next)
  /\ \A i \in DOMAIN router.held, j \in DOMAIN router.todo : router.held[i][2] < router.todo[j][2]
  /\ \A c \in DeliveryClients : /\ BeforeAll(Given(peers[c]), c, router.held)
                                /\ BeforeAll(Given(peers[c]), c, router.todo)

DeliveryShape ==
  /\ peers \in [DeliveryClients -> Peer]
  /\ output \in [left : Seq(Messages), next : Nat \ {0}]
  /\ router \in [at : {"idle", "refusing", "trying", "holding"}, todo : Sending, held : Sending]
  /\ expiration \in [at : {"idle", "holding", "left"}, held : Sending]
  /\ closing \in {"open", "closed", "joining", "aborted", "over"}
  /\ lastActive \in DeliveryClients \cup {Nobody}

DeliveryInv ==
  /\ DeliveryShape
  /\ \A c \in DeliveryClients : PeerInv(peers[c], output.next)
  /\ RouterInv

-----------------------------------------------------------------------------
(* Delivery: what a client is given.                                       *)

LEMMA GivenIsSeq ==
  ASSUME NEW p \in Peer
  PROVE  /\ p.queue \in Seq(Nat) /\ p.wire \in Seq(Nat) /\ p.socket \in Seq(Nat) /\ p.got \in Seq(Nat)
         /\ Given(p) \in Seq(Nat)
<1>1. p.queue \in Seq(Nat) /\ p.wire \in Seq(Nat) /\ p.socket \in Seq(Nat) /\ p.got \in Seq(Nat)
  BY DEF Peer
<1>2. p.got \o p.socket \in Seq(Nat)
  BY <1>1, ConcatProperties
<1>3. (p.got \o p.socket) \o p.wire \in Seq(Nat)
  BY <1>1, <1>2, ConcatProperties
<1>4. Given(p) \in Seq(Nat)
  BY <1>1, <1>3, ConcatProperties DEF Given
<1>5. QED
  BY <1>1, <1>4

LEMMA HeadAndTail ==
  ASSUME NEW s \in Seq(Nat), s # <<>>
  PROVE  /\ s = <<Head(s)>> \o Tail(s) /\ <<Head(s)>> \in Seq(Nat) /\ Tail(s) \in Seq(Nat)
         /\ Len(Tail(s)) < Len(s)
<1>1. Head(s) \in Nat /\ Tail(s) \in Seq(Nat) /\ Len(Tail(s)) = Len(s) - 1 /\ Len(s) \in Nat \ {0}
  OBVIOUS
<1> DEFINE t == <<Head(s)>> \o Tail(s)
<1>2. t \in Seq(Nat) /\ Len(t) = Len(s)
  BY <1>1
<1>3. \A i \in 1..Len(s) : t[i] = s[i]
  BY <1>1
<1>4. s = t
  BY <1>2, <1>3, SeqEqual
<1>5. QED
  BY <1>1, <1>4

LEMMA AppendOne ==
  ASSUME NEW s \in Seq(Nat), NEW n \in Nat
  PROVE  Append(s, n) = s \o <<n>> /\ <<n>> \in Seq(Nat)
  OBVIOUS

LEMMA ConcatAppend ==
  ASSUME NEW s \in Seq(Nat), NEW t \in Seq(Nat), NEW n \in Nat
  PROVE  s \o Append(t, n) = Append(s \o t, n)
<1>1. PICK one \in Seq(Nat) : one = <<n>>
  BY AppendOne
<1>2. Append(t, n) = t \o one
  BY <1>1, AppendOne
<1>3. s \o t \in Seq(Nat)
  BY ConcatProperties
<1>4. Append(s \o t, n) = (s \o t) \o one
  BY <1>1, <1>3, AppendOne
<1>5. s \o (t \o one) = (s \o t) \o one
  BY <1>1, ConcatAssociative
<1>6. QED
  BY <1>2, <1>4, <1>5

(* A message is queued.                                                    *)
LEMMA GivenPush ==
  ASSUME NEW p \in Peer, NEW n \in Nat, NEW q, q = [p EXCEPT !.queue = Append(@, n)]
  PROVE  /\ q \in Peer /\ Given(q) = Append(Given(p), n)
         /\ q.task = p.task /\ q.wire = p.wire /\ q.taken = p.taken /\ q.written = p.written
         /\ Len(q.queue) = Len(p.queue) + 1
<1> DEFINE before == (p.got \o p.socket) \o p.wire
<1>1. /\ p.queue \in Seq(Nat) /\ p.wire \in Seq(Nat) /\ p.socket \in Seq(Nat) /\ p.got \in Seq(Nat)
      /\ Given(p) \in Seq(Nat)
  BY GivenIsSeq
<1>2. /\ q.queue = Append(p.queue, n) /\ q.wire = p.wire /\ q.socket = p.socket /\ q.got = p.got
      /\ q.task = p.task /\ q.taken = p.taken /\ q.written = p.written
  BY DEF Peer
<1>3. Append(p.queue, n) \in Seq(Nat) /\ Len(Append(p.queue, n)) = Len(p.queue) + 1
  BY <1>1
<1>4. q \in Peer
  BY <1>3 DEF Peer
<1>5. before \in Seq(Nat)
  BY <1>1, ConcatProperties
<1>6. Given(q) = before \o Append(p.queue, n) /\ Given(p) = before \o p.queue
  BY <1>2 DEF Given
<1> HIDE DEF before
<1>7. before \o Append(p.queue, n) = Append(before \o p.queue, n)
  BY <1>1, <1>5, ConcatAppend
<1>8. Given(q) = Append(Given(p), n)
  BY <1>6, <1>7
<1>9. QED
  BY <1>2, <1>3, <1>4, <1>8

(* Frames joined from three places.                                        *)
LEMMA ThreeParts ==
  ASSUME NEW s \in Seq(Nat), NEW t \in Seq(Nat), NEW u \in Seq(Nat)
  PROVE  (s \o t) \o u = s \o (t \o u)
<1>1. \A v, w \in Seq(Nat) : v \o w \in Seq(Nat) /\ Len(v \o w) = Len(v) + Len(w)
  BY ConcatProperties
<1>2. QED
  BY <1>1, ConcatAssociative

(* The client reads, and its task takes a message and writes it.           *)
LEMMA GivenMoves ==
  ASSUME NEW p \in Peer, NEW q,
         \/ q = [p EXCEPT !.got = @ \o p.socket, !.socket = <<>>]
         \/ /\ p.wire = <<>> /\ p.queue # <<>>
            /\ q = [p EXCEPT !.task = "writing", !.wire = <<Head(p.queue)>>, !.queue = Tail(@),
                             !.partial = FALSE]
         \/ p.socket = <<>> /\ q = [p EXCEPT !.task = "serving", !.socket = p.wire, !.wire = <<>>]
  PROVE  /\ q \in Peer /\ Given(q) = Given(p) /\ Len(q.queue) <= Len(p.queue)
         /\ q.taken = p.taken /\ q.written = p.written
         /\ (q.task # "writing" /\ p.task # "writing") \/ q.task = "writing" \/ q.wire = <<>>
<1>1. /\ p.queue \in Seq(Nat) /\ p.wire \in Seq(Nat) /\ p.socket \in Seq(Nat) /\ p.got \in Seq(Nat)
      /\ p.got \o p.socket \in Seq(Nat) /\ <<>> \in Seq(Nat) /\ Len(p.queue) \in Nat
  BY GivenIsSeq, ConcatProperties
<1>2. \A s \in Seq(Nat) : s \o <<>> = s /\ <<>> \o s = s
  BY ConcatEmptySeq
<1>3. CASE q = [p EXCEPT !.got = @ \o p.socket, !.socket = <<>>]
  <2>1. /\ q.queue = p.queue /\ q.wire = p.wire /\ q.socket = <<>> /\ q.got = p.got \o p.socket
        /\ q.task = p.task /\ q.taken = p.taken /\ q.written = p.written
    BY <1>3 DEF Peer
  <2>2. q \in Peer
    BY <1>1, <1>3 DEF Peer
  <2>3. (p.got \o p.socket) \o <<>> = p.got \o p.socket
    BY <1>1, <1>2
  <2>4. QED
    BY <1>1, <2>1, <2>2, <2>3 DEF Given
<1>4. CASE /\ p.wire = <<>> /\ p.queue # <<>>
           /\ q = [p EXCEPT !.task = "writing", !.wire = <<Head(p.queue)>>, !.queue = Tail(@),
                            !.partial = FALSE]
  <2> DEFINE one == <<Head(p.queue)>>
             rest == Tail(p.queue)
             before == p.got \o p.socket
  <2>1. p.queue = one \o rest /\ one \in Seq(Nat) /\ rest \in Seq(Nat) /\ Len(rest) < Len(p.queue)
    BY <1>1, <1>4, HeadAndTail
  <2>2. q = [p EXCEPT !.task = "writing", !.wire = one, !.queue = rest, !.partial = FALSE]
    BY <1>4
  <2>3. before \in Seq(Nat)
    BY <1>1
  <2> HIDE DEF one, rest
  <2>4. /\ q.queue = rest /\ q.wire = one /\ q.socket = p.socket /\ q.got = p.got
        /\ q.task = "writing" /\ q.taken = p.taken /\ q.written = p.written /\ q \in Peer
    BY <2>1, <2>2 DEF Peer
  <2>5. Given(q) = (before \o one) \o rest /\ Given(p) = (before \o <<>>) \o (one \o rest)
    BY <1>4, <2>1, <2>4 DEF Given
  <2> HIDE DEF before
  <2>9. one \in Seq(Nat) /\ rest \in Seq(Nat)
    BY <2>1
  <2>6. (before \o one) \o rest = before \o (one \o rest)
    BY <2>3, <2>9, ThreeParts
  <2>7. Len(rest) \in Nat
    BY <2>1
  <2>8. QED
    BY <1>1, <1>2, <2>1, <2>3, <2>4, <2>5, <2>6, <2>7
<1>5. CASE p.socket = <<>> /\ q = [p EXCEPT !.task = "serving", !.socket = p.wire, !.wire = <<>>]
  <2>1. /\ q.queue = p.queue /\ q.wire = <<>> /\ q.socket = p.wire /\ q.got = p.got
        /\ q.task = "serving" /\ q.taken = p.taken /\ q.written = p.written
    BY <1>5 DEF Peer
  <2>2. q \in Peer
    BY <1>1, <1>5 DEF Peer
  <2>3. /\ Given(q) = ((p.got \o p.wire) \o <<>>) \o p.queue
        /\ Given(p) = ((p.got \o <<>>) \o p.wire) \o p.queue
    BY <1>5, <2>1 DEF Given
  <2>4. p.got \o p.wire \in Seq(Nat)
    BY <1>1, ConcatProperties
  <2>5. Given(q) = Given(p)
    BY <1>1, <1>2, <2>3, <2>4
  <2>6. QED
    BY <1>1, <2>1, <2>2, <2>5
<1>6. QED
  BY <1>3, <1>4, <1>5

(* The rest of a client changes, and what it was given does not.           *)
LEMMA GivenElse ==
  ASSUME NEW p \in Peer, NEW q \in Peer,
         q.got = p.got, q.socket = p.socket, q.wire = p.wire, q.queue = p.queue
  PROVE  Given(q) = Given(p)
  BY DEF Given

LEMMA GivenNothing ==
  ASSUME NEW p \in Peer
  PROVE  Gone(p) \in Peer /\ Given(Gone(p)) = <<>> /\ Gone(p).queue = <<>> /\ Gone(p).wire = <<>>
         /\ Gone(p).taken = 0 /\ Gone(p).written = 0
<1>1. /\ Gone(p).queue = <<>> /\ Gone(p).wire = <<>> /\ Gone(p).socket = <<>> /\ Gone(p).got = <<>>
      /\ Gone(p).taken = 0 /\ Gone(p).written = 0
  BY DEF Gone, Peer
<1>2. 0 \in 0..MaxInput /\ 0 \in 0..(2 * MaxInput) /\ <<>> \in Seq(Nat)
  BY DeliveryAssumption
<1>3. Gone(p) \in Peer
  BY <1>2 DEF Gone, Peer
<1>4. <<>> \o <<>> = <<>>
  BY <1>2, ConcatEmptySeq
<1>5. QED
  BY <1>1, <1>3, <1>4 DEF Given

LEMMA RisingAppend ==
  ASSUME NEW all \in Seq(Nat), Rising(all), NEW n \in Nat, n = TimedOut \/ Before(all, n)
  PROVE  Rising(Append(all, n))
<1> DEFINE r == Append(all, n)
<1>1. /\ r \in Seq(Nat) /\ Len(all) \in Nat /\ DOMAIN r = 1..(Len(all) + 1) /\ DOMAIN all = 1..Len(all)
      /\ r[Len(all) + 1] = n /\ \A i \in 1..Len(all) : r[i] = all[i]
  <2>1. Len(all) \in Nat /\ DOMAIN all = 1..Len(all)
    OBVIOUS
  <2>2. r \in Seq(Nat) /\ Len(r) = Len(all) + 1
    BY AppendProperties
  <2>3. DOMAIN r = 1..(Len(all) + 1)
    BY <2>2
  <2>4. r[Len(all) + 1] = n /\ \A i \in 1..Len(all) : r[i] = all[i]
    BY AppendProperties
  <2>5. QED
    BY <2>1, <2>2, <2>3, <2>4
<1> HIDE DEF r
<1>2. ASSUME NEW i \in DOMAIN r, NEW j \in DOMAIN r, r[i] # TimedOut, r[j] # TimedOut, i < j
      PROVE  r[i] < r[j]
  <2>1. i \in DOMAIN all
    BY <1>1, <1>2
  <2>2. CASE j \in DOMAIN all
    BY <1>1, <1>2, <2>1, <2>2 DEF Rising
  <2>3. CASE j = Len(all) + 1
    BY <1>1, <1>2, <2>1, <2>3 DEF Before
  <2>4. QED
    BY <1>1, <2>2, <2>3
<1>4. Rising(r)
  BY <1>2 DEF Rising
<1>3. QED
  BY <1>4 DEF r

LEMMA BeforeAppend ==
  ASSUME NEW all \in Seq(Nat), NEW n \in Nat, NEW m \in Nat, Before(all, m), n < m
  PROVE  Before(Append(all, n), m)
<1> DEFINE r == Append(all, n)
<1>1. /\ r \in Seq(Nat) /\ Len(all) \in Nat /\ DOMAIN r = 1..(Len(all) + 1) /\ DOMAIN all = 1..Len(all)
      /\ r[Len(all) + 1] = n /\ \A i \in 1..Len(all) : r[i] = all[i]
  <2>1. Len(all) \in Nat /\ DOMAIN all = 1..Len(all)
    OBVIOUS
  <2>2. r \in Seq(Nat) /\ Len(r) = Len(all) + 1
    BY AppendProperties
  <2>3. DOMAIN r = 1..(Len(all) + 1)
    BY <2>2
  <2>4. r[Len(all) + 1] = n /\ \A i \in 1..Len(all) : r[i] = all[i]
    BY AppendProperties
  <2>5. QED
    BY <2>1, <2>2, <2>3, <2>4
<1> HIDE DEF r
<1>2. ASSUME NEW i \in DOMAIN r PROVE r[i] < m
  <2>1. i \in 1..Len(all) \/ i = Len(all) + 1
    BY <1>1, <1>2
  <2>2. CASE i \in 1..Len(all)
    <3>1. r[i] = all[i] /\ all[i] < m
      BY <1>1, <2>2 DEF Before
    <3>2. QED
      BY <3>1
  <2>3. CASE i = Len(all) + 1
    BY <1>1, <2>3
  <2>4. QED
    BY <2>1, <2>2, <2>3
<1>4. Before(r, m)
  BY <1>2 DEF Before
<1>3. QED
  BY <1>4 DEF r

LEMMA BeforeLater ==
  ASSUME NEW all \in Seq(Nat), NEW n \in Nat, NEW m \in Nat, Before(all, n), n <= m
  PROVE  Before(all, m)
<1>1. \A i \in DOMAIN all : all[i] \in Nat
  OBVIOUS
<1>2. QED
  BY <1>1 DEF Before
LEMMA BeforeNothing == ASSUME NEW n PROVE Before(<<>>, n) /\ Rising(<<>>)
  BY DEF Before, Rising

-----------------------------------------------------------------------------
(* Delivery: steps of clients.                                             *)

(* A client's record changes and nothing new from the server is in it.     *)
LEMMA PeersMove ==
  ASSUME DeliveryInv, peers' \in [DeliveryClients -> Peer], output' = output,
         router' = router \/ router' = NoRoute,
         expiration' \in [at : {"idle", "holding", "left"}, held : Sending],
         closing' \in {"open", "closed", "joining", "aborted", "over"},
         lastActive' \in DeliveryClients \cup {Nobody},
         \A c \in DeliveryClients :
            /\ PeerInv(peers'[c], output.next)
            /\ \/ Given(peers'[c]) = Given(peers[c]) \/ Given(peers'[c]) = <<>>
               \/ Given(peers'[c]) = Append(Given(peers[c]), TimedOut)
  PROVE  DeliveryInv'
<1>1. DeliveryShape'
  <2>1. NoRoute \in [at : {"idle", "refusing", "trying", "holding"}, todo : Sending, held : Sending]
    BY DEF NoRoute, Sending
  <2>2. router' \in [at : {"idle", "refusing", "trying", "holding"}, todo : Sending, held : Sending]
    BY <2>1 DEF DeliveryInv, DeliveryShape
  <2>3. QED
    BY <2>2 DEF DeliveryInv, DeliveryShape
<1>2. ASSUME NEW c \in DeliveryClients, NEW items \in Sending, ItemsRise(items, output.next),
             BeforeAll(Given(peers[c]), c, items)
      PROVE  BeforeAll(Given(peers'[c]), c, items)
  <2> SUFFICES ASSUME NEW i \in DOMAIN items, items[i][1] = c
               PROVE  Before(Given(peers'[c]), items[i][2])
    BY DEF BeforeAll
  <2>1. items[i][2] \in Nat /\ 0 < items[i][2]
    BY <1>2 DEF Sending, Numbers, ItemsRise
  <2>2. Given(peers[c]) \in Seq(Nat) /\ Before(Given(peers[c]), items[i][2])
    BY <1>2, GivenIsSeq DEF BeforeAll, DeliveryInv, DeliveryShape
  <2>3. Before(Append(Given(peers[c]), TimedOut), items[i][2])
    BY <2>1, <2>2, BeforeAppend DEF TimedOut
  <2>4. QED
    BY <2>2, <2>3, BeforeNothing
<1>3. RouterInv'
  <2>1. CASE router' = router
    <3>1. router.todo \in Sending /\ router.held \in Sending
      BY DEF DeliveryInv, DeliveryShape
    <3>2. \A c \in DeliveryClients : /\ BeforeAll(Given(peers'[c]), c, router.held)
                                     /\ BeforeAll(Given(peers'[c]), c, router.todo)
      BY <1>2, <3>1 DEF DeliveryInv, RouterInv
    <3>3. QED
      BY <2>1, <3>2 DEF DeliveryInv, RouterInv
  <2>2. CASE router' = NoRoute
    <3>1. router'.todo = <<>> /\ router'.held = <<>>
      BY <2>2 DEF NoRoute
    <3>2. QED
      BY <3>1 DEF RouterInv, ItemsRise, BeforeAll
  <2>3. QED
    BY <2>1, <2>2
<1>4. QED
  BY <1>1, <1>3 DEF DeliveryInv

(* One client's step.                                                      *)
LEMMA PeerMoves ==
  ASSUME DeliveryInv, NEW c \in DeliveryClients, NEW q, PeerInv(q, output.next),
         \/ Given(q) = Given(peers[c]) \/ Given(q) = <<>> \/ Given(q) = Append(Given(peers[c]), TimedOut),
         peers' = [peers EXCEPT ![c] = q], UNCHANGED <<output, router>>,
         expiration' \in [at : {"idle", "holding", "left"}, held : Sending],
         closing' \in {"open", "closed", "joining", "aborted", "over"},
         lastActive' \in DeliveryClients \cup {Nobody}
  PROVE  DeliveryInv'
<1>1. peers \in [DeliveryClients -> Peer] /\ q \in Peer
  BY DEF DeliveryInv, DeliveryShape, PeerInv
<1>2. \A b \in DeliveryClients : peers'[b] = IF b = c THEN q ELSE peers[b]
  BY <1>1
<1>3. peers' \in [DeliveryClients -> Peer]
  BY <1>1
<1>4. \A b \in DeliveryClients :
            /\ PeerInv(peers'[b], output.next)
            /\ \/ Given(peers'[b]) = Given(peers[b]) \/ Given(peers'[b]) = <<>>
               \/ Given(peers'[b]) = Append(Given(peers[b]), TimedOut)
  BY <1>2 DEF DeliveryInv
<1>5. QED
  BY <1>3, <1>4, PeersMove

(* What keeps a client right.                                              *)
LEMMA PeerKept ==
  ASSUME NEW next \in Nat, NEW p, PeerInv(p, next), NEW q \in Peer, Given(q) = Given(p),
         Len(q.queue) <= Len(p.queue), q.taken <= q.written, q.task # "writing" => q.wire = <<>>
  PROVE  PeerInv(q, next)
<1>1. Len(q.queue) <= QueueLimit
  <2>1. Len(p.queue) <= QueueLimit /\ p.queue \in Seq(Nat) /\ q.queue \in Seq(Nat)
    BY DEF PeerInv, Peer
  <2>2. QED
    BY <2>1, DeliveryAssumption
<1>2. QED
  BY <1>1 DEF PeerInv

LEMMA PeerGone ==
  ASSUME NEW next \in Nat, NEW p, PeerInv(p, next)
  PROVE  PeerInv(Gone(p), next) /\ Given(Gone(p)) = <<>>
<1>1. p \in Peer
  BY DEF PeerInv
<1>2. Len(<<>>) <= QueueLimit
  BY DeliveryAssumption
<1>3. QED
  BY <1>1, <1>2, GivenNothing, BeforeNothing DEF PeerInv

(* A message is queued where there is room.                                *)
LEMMA PeerPushed ==
  ASSUME NEW next \in Nat \ {0}, NEW p, PeerInv(p, next), Len(p.queue) # QueueLimit,
         NEW n \in Nat, n < next, n = TimedOut \/ Before(Given(p), n),
         NEW q, q = [p EXCEPT !.queue = Append(@, n)]
  PROVE  PeerInv(q, next) /\ Given(q) = Append(Given(p), n)
<1>1. p \in Peer
  BY DEF PeerInv
<1>2. /\ q \in Peer /\ Given(q) = Append(Given(p), n) /\ Len(q.queue) = Len(p.queue) + 1
      /\ q.task = p.task /\ q.wire = p.wire /\ q.taken = p.taken /\ q.written = p.written
  BY <1>1, GivenPush
<1>3. Given(p) \in Seq(Nat) /\ Len(p.queue) \in Nat
  BY <1>1, GivenIsSeq
<1>4. Rising(Append(Given(p), n)) /\ Before(Append(Given(p), n), next)
  BY <1>1, <1>3, RisingAppend, BeforeAppend DEF PeerInv
<1>5. Len(q.queue) <= QueueLimit
  <2>1. Len(p.queue) <= QueueLimit
    BY DEF PeerInv
  <2>2. QED
    BY <1>2, <1>3, <2>1, DeliveryAssumption
<1>6. q.taken <= q.written /\ (q.task # "writing" => q.wire = <<>>)
  BY <1>2 DEF PeerInv
<1>7. QED
  BY <1>1, <1>2, <1>4, <1>5, <1>6 DEF PeerInv

LEMMA ClientSteps ==
  ASSUME DeliveryInv, NEW c \in DeliveryClients, ClientStep(c)
  PROVE  DeliveryInv'
<1> DEFINE p == peers[c]
           next == output.next
<1>1. /\ PeerInv(p, next) /\ p \in Peer /\ next \in Nat \ {0} /\ output \in [left : Seq(Messages), next : Nat \ {0}]
      /\ expiration \in [at : {"idle", "holding", "left"}, held : Sending]
      /\ closing \in {"open", "closed", "joining", "aborted", "over"}
      /\ lastActive \in DeliveryClients \cup {Nobody} /\ peers \in [DeliveryClients -> Peer]
  BY DEF DeliveryInv, DeliveryShape
<1>2. p.taken <= p.written /\ (p.task # "writing" => p.wire = <<>>) /\ Len(p.queue) \in Nat
  BY <1>1, GivenIsSeq DEF PeerInv
<1> HIDE DEF next
<1>3. CASE Accept(c)
  <2> DEFINE q == [p EXCEPT !.task = "serving"]
  <2>1. q \in Peer /\ q.got = p.got /\ q.socket = p.socket /\ q.wire = p.wire /\ q.queue = p.queue
        /\ q.taken = p.taken /\ q.written = p.written /\ q.task = "serving" /\ p.task = "away"
    BY <1>1, <1>3 DEF Peer, Accept
  <2>2. peers' = [peers EXCEPT ![c] = q] /\ UNCHANGED <<output, router, expiration, closing, lastActive>>
    BY <1>3 DEF Accept
  <2> HIDE DEF p, q
  <2>3. Given(q) = Given(p)
    BY <1>1, <2>1, GivenElse
  <2>4. PeerInv(q, next)
    BY <1>1, <1>2, <2>1, <2>3, PeerKept
  <2>5. QED
    BY <1>1, <2>2, <2>3, <2>4, PeerMoves DEF p, next
<1>4. CASE ClientWrites(c)
  <2> DEFINE q == [p EXCEPT !.written = @ + 1]
  <2>0. p.written + 1 \in 0..(2 * MaxInput) /\ p.written \in Nat
    <3>1. p.written \in Nat /\ p.lines \in Nat /\ p.lines <= MaxInput /\ p.written < 2 * p.lines
      BY <1>1, <1>4, DeliveryAssumption DEF Peer, ClientWrites
    <3>2. QED
      BY <3>1, DeliveryAssumption
  <2>1. q \in Peer /\ q.got = p.got /\ q.socket = p.socket /\ q.wire = p.wire /\ q.queue = p.queue
        /\ q.taken = p.taken /\ q.written = p.written + 1 /\ q.task = p.task
    BY <1>1, <2>0 DEF Peer
  <2>2. peers' = [peers EXCEPT ![c] = q] /\ UNCHANGED <<output, router, expiration, closing, lastActive>>
    BY <1>4 DEF ClientWrites
  <2> HIDE DEF q
  <2>3. Given(q) = Given(p)
    BY <1>1, <2>1, GivenElse
  <2>4. q.taken <= q.written
    BY <1>1, <1>2, <2>0, <2>1 DEF Peer
  <2>5. PeerInv(q, next)
    BY <1>1, <1>2, <2>1, <2>3, <2>4, PeerKept
  <2>6. QED
    BY <1>1, <2>2, <2>3, <2>5, PeerMoves DEF next
<1>5. CASE ClientReads(c) \/ TaskTakes(c) \/ TaskWrites(c)
  <2>1. PICK q : /\ peers' = [peers EXCEPT ![c] = q]
                 /\ UNCHANGED <<output, router, expiration, closing, lastActive>>
                 /\ \/ q = [p EXCEPT !.got = @ \o p.socket, !.socket = <<>>]
                    \/ /\ p.wire = <<>> /\ p.queue # <<>>
                       /\ q = [p EXCEPT !.task = "writing", !.wire = <<Head(p.queue)>>, !.queue = Tail(@),
                                        !.partial = FALSE]
                    \/ p.socket = <<>> /\ q = [p EXCEPT !.task = "serving", !.socket = p.wire, !.wire = <<>>]
    <3>1. CASE ClientReads(c)
      BY <1>1, <3>1 DEF ClientReads
    <3>2. CASE TaskTakes(c)
      BY <1>1, <1>2, <3>2 DEF TaskTakes
    <3>3. CASE TaskWrites(c)
      BY <1>1, <3>3 DEF TaskWrites
    <3>4. QED
      BY <1>5, <3>1, <3>2, <3>3
  <2>2. /\ q \in Peer /\ Given(q) = Given(p) /\ Len(q.queue) <= Len(p.queue)
        /\ q.taken = p.taken /\ q.written = p.written
        /\ q.task # "writing" => q.wire = <<>>
    <3>1. q.task # "writing" => q.wire = <<>>
      <4>0. p.task # "writing" => p.wire = <<>>
        BY <1>1, <1>2
      <4>1. CASE q = [p EXCEPT !.got = @ \o p.socket, !.socket = <<>>]
        BY <1>1, <4>0, <4>1 DEF Peer
      <4>2. CASE q = [p EXCEPT !.task = "writing", !.wire = <<Head(p.queue)>>, !.queue = Tail(@),
                               !.partial = FALSE]
        BY <1>1, <4>2 DEF Peer
      <4>3. CASE q = [p EXCEPT !.task = "serving", !.socket = p.wire, !.wire = <<>>]
        BY <1>1, <4>3 DEF Peer
      <4>4. QED
        BY <2>1, <4>1, <4>2, <4>3
    <3>2. QED
      BY <1>1, <2>1, <3>1, GivenMoves
  <2>3. PeerInv(q, next)
    BY <1>1, <1>2, <2>2, PeerKept
  <2>4. QED
    BY <1>1, <2>1, <2>2, <2>3, PeerMoves DEF next
<1>6. CASE ClientCloses(c) \/ (TaskStops(c) /\ peers' = [peers EXCEPT ![c] = Gone(@)])
  <2>1. peers' = [peers EXCEPT ![c] = Gone(p)] /\ UNCHANGED <<output, router, expiration, closing, lastActive>>
    BY <1>6 DEF ClientCloses, TaskStops
  <2>2. PeerInv(Gone(p), next) /\ Given(Gone(p)) = <<>>
    BY <1>1, PeerGone
  <2>3. QED
    BY <1>1, <2>1, <2>2, PeerMoves DEF next
<1>7. CASE TaskReads(c) \/ (TaskStops(c) /\ peers' = [peers EXCEPT ![c].task = "draining", ![c].partial = FALSE])
  <2>1. PICK q \in Peer :
          /\ peers' = [peers EXCEPT ![c] = q] /\ UNCHANGED <<output, router, expiration, closing>>
          /\ lastActive' \in {lastActive, c}
          /\ q.got = p.got /\ q.socket = p.socket /\ q.wire = p.wire /\ q.queue = p.queue
          /\ q.taken <= q.written /\ (q.task # "writing" => p.task # "writing")
    <3>1. CASE TaskReads(c)
      <4> DEFINE first == p.taken % 2 = 0
                 q == [p EXCEPT !.taken = @ + 1, !.partial = first, !.whole = @ /\ (first \/ p.partial)]
      <4>1. /\ peers' = [peers EXCEPT ![c] = q] /\ UNCHANGED <<output, router, expiration, closing>>
            /\ lastActive' \in {lastActive, c}
        BY <1>1, <3>1 DEF TaskReads
      <4>2. p.taken \in Nat /\ p.written \in Nat /\ p.taken < p.written /\ p.taken + 1 \in Nat
        BY <1>1, <3>1, DeliveryAssumption DEF Peer, TaskReads
      <4>3. first \in BOOLEAN /\ (p.whole /\ (first \/ p.partial)) \in BOOLEAN
        BY Zenon
      <4>6. PICK whole \in BOOLEAN : q = [p EXCEPT !.taken = p.taken + 1, !.partial = first, !.whole = whole]
        BY <4>3
      <4> HIDE DEF first, q
      <4>4. /\ q \in Peer /\ q.got = p.got /\ q.socket = p.socket /\ q.wire = p.wire /\ q.queue = p.queue
            /\ q.taken = p.taken + 1 /\ q.written = p.written /\ q.task = p.task
        BY <1>1, <4>2, <4>3, <4>6 DEF Peer
      <4>5. q.taken <= q.written
        BY <4>2, <4>4
      <4>7. QED
        BY <4>1, <4>4, <4>5
    <3>2. CASE TaskStops(c) /\ peers' = [peers EXCEPT ![c].task = "draining", ![c].partial = FALSE]
      <4> DEFINE q == [p EXCEPT !.task = "draining", !.partial = FALSE]
      <4>1. /\ peers' = [peers EXCEPT ![c] = q]
            /\ UNCHANGED <<output, router, expiration, closing, lastActive>>
        BY <1>1, <3>2 DEF TaskStops
      <4>2. /\ q \in Peer /\ q.got = p.got /\ q.socket = p.socket /\ q.wire = p.wire /\ q.queue = p.queue
            /\ q.taken = p.taken /\ q.written = p.written
        BY <1>1 DEF Peer
      <4>3. p.task # "writing"
        BY <3>2 DEF TaskStops
      <4>4. QED
        BY <1>2, <4>1, <4>2, <4>3
    <3>3. QED
      BY <1>7, <3>1, <3>2
  <2>2. Given(q) = Given(p)
    BY <1>1, <2>1, GivenElse
  <2>3. PeerInv(q, next)
    BY <1>1, <1>2, <2>1, <2>2, PeerKept
  <2>4. lastActive' \in DeliveryClients \cup {Nobody}
    BY <1>1, <2>1
  <2>5. QED
    BY <1>1, <2>1, <2>2, <2>3, <2>4, PeerMoves DEF next
<1>8. QED
  BY <1>3, <1>4, <1>5, <1>6, <1>7 DEF ClientStep, TaskStops

-----------------------------------------------------------------------------
(* Delivery: steps of the router.                                          *)

LEMMA ItemsTail ==
  ASSUME NEW items \in Sending, items # <<>>
  PROVE  /\ Head(items) \in DeliveryClients \X Nat /\ Head(items) = items[1] /\ 1 \in DOMAIN items
         /\ Tail(items) \in Sending
         /\ \A i \in DOMAIN Tail(items) : /\ i + 1 \in DOMAIN items /\ Tail(items)[i] = items[i + 1]
                                          /\ 1 < i + 1
<1>1. items \in Seq(DeliveryClients \X Nat)
  BY DEF Sending, Numbers
<1> DEFINE T == DeliveryClients \X Nat
           rest == Tail(items)
<1> HIDE DEF T
<1>2. items \in Seq(T)
  BY <1>1 DEF T
<1>3. /\ Head(items) \in T /\ Head(items) = items[1] /\ Len(items) \in Nat \ {0}
      /\ rest \in Seq(T) /\ Len(rest) = Len(items) - 1
      /\ DOMAIN rest = 1..(Len(items) - 1) /\ DOMAIN items = 1..Len(items)
  BY <1>2
<1>4. \A i \in 1..(Len(items) - 1) : rest[i] = items[i + 1]
  BY <1>2
<1> HIDE DEF rest
<1>5. /\ \A i \in DOMAIN rest : i + 1 \in DOMAIN items /\ rest[i] = items[i + 1] /\ 1 < i + 1
      /\ 1 \in DOMAIN items
  BY <1>3, <1>4
<1>6. QED
  BY <1>3, <1>5 DEF T, rest, Sending, Numbers

LEMMA ItemsAppend ==
  ASSUME NEW items \in Sending, NEW item \in DeliveryClients \X Nat
  PROVE  LET r == Append(items, item) IN
         /\ r \in Sending /\ DOMAIN r = DOMAIN items \cup {Len(items) + 1}
         /\ r[Len(items) + 1] = item /\ Len(items) + 1 \notin DOMAIN items
         /\ \A i \in DOMAIN items : r[i] = items[i] /\ i < Len(items) + 1 /\ i \in Nat
<1> DEFINE T == DeliveryClients \X Nat
           r == Append(items, item)
<1>1. items \in Seq(T) /\ item \in T
  BY DEF Sending, Numbers
<1> HIDE DEF T
<1>2. /\ r \in Seq(T) /\ Len(items) \in Nat /\ DOMAIN r = 1..(Len(items) + 1)
      /\ DOMAIN items = 1..Len(items) /\ r[Len(items) + 1] = item
      /\ \A i \in 1..Len(items) : r[i] = items[i]
  BY <1>1
<1> HIDE DEF r
<1>3. QED
  BY <1>2 DEF r, T, Sending, Numbers

(* What the router tries next or sends comes before the rest.              *)
LEMMA RiseTail ==
  ASSUME NEW items \in Sending, items # <<>>, NEW next \in Nat, ItemsRise(items, next)
  PROVE  /\ ItemsRise(Tail(items), next) /\ Head(items)[2] < next /\ 0 < Head(items)[2]
         /\ \A i \in DOMAIN Tail(items) : Head(items)[2] < Tail(items)[i][2]
         /\ \A all, c : BeforeAll(all, c, items) => BeforeAll(all, c, Tail(items))
<1> DEFINE rest == Tail(items)
           first == Head(items)
<1>1. /\ first = items[1] /\ 1 \in DOMAIN items
      /\ \A i \in DOMAIN rest : i + 1 \in DOMAIN items /\ rest[i] = items[i + 1] /\ 1 < i + 1
  BY ItemsTail
<1>2. \A i \in DOMAIN rest : i \in Int
  <2>1. rest \in Sending
    BY ItemsTail
  <2>2. QED
    BY <2>1 DEF Sending
<1> HIDE DEF rest, first
<1>3. \A i, j \in DOMAIN rest : i < j => i + 1 < j + 1
  BY <1>2
<1>4. ItemsRise(rest, next) /\ first[2] < next /\ 0 < first[2]
  BY <1>1, <1>3 DEF ItemsRise
<1>5. \A i \in DOMAIN rest : first[2] < rest[i][2]
  BY <1>1 DEF ItemsRise
<1>6. \A all, c : BeforeAll(all, c, items) => BeforeAll(all, c, rest)
  BY <1>1 DEF BeforeAll
<1>7. QED
  BY <1>4, <1>5, <1>6 DEF rest, first

(* The router has other items, and the clients what they had.              *)
LEMMA RouterKeeps ==
  ASSUME DeliveryInv, NEW at \in {"idle", "refusing", "trying", "holding"},
         NEW todo \in Sending, NEW held \in Sending,
         router' = [at |-> at, todo |-> todo, held |-> held],
         UNCHANGED <<peers, output, expiration, closing, lastActive>>,
         ItemsRise(todo, output.next), ItemsRise(held, output.next),
         \A i \in DOMAIN held, j \in DOMAIN todo : held[i][2] < todo[j][2],
         \A c \in DeliveryClients : /\ BeforeAll(Given(peers[c]), c, held)
                                    /\ BeforeAll(Given(peers[c]), c, todo)
  PROVE  DeliveryInv'
<1>1. router'.at = at /\ router'.todo = todo /\ router'.held = held
  OBVIOUS
<1>2. DeliveryShape'
  BY DEF DeliveryInv, DeliveryShape
<1>3. RouterInv'
  BY <1>1 DEF RouterInv
<1>4. QED
  BY <1>2, <1>3 DEF DeliveryInv

(* One item goes to its client's queue, and the rest are after it.         *)
LEMMA RouterPushes ==
  ASSUME DeliveryInv, NEW at \in {"idle", "refusing", "trying", "holding"},
         NEW todo \in Sending, NEW held \in Sending,
         router' = [at |-> at, todo |-> todo, held |-> held],
         UNCHANGED <<output, expiration, closing, lastActive>>,
         NEW c \in DeliveryClients, NEW n \in Nat, Push(c, n), ~Full(c), 0 < n, n < output.next,
         Before(Given(peers[c]), n),
         ItemsRise(todo, output.next), ItemsRise(held, output.next),
         \A i \in DOMAIN held, j \in DOMAIN todo : held[i][2] < todo[j][2],
         \A b \in DeliveryClients : /\ BeforeAll(Given(peers[b]), b, held)
                                    /\ BeforeAll(Given(peers[b]), b, todo),
         \A i \in DOMAIN held : held[i][1] = c => n < held[i][2],
         \A i \in DOMAIN todo : todo[i][1] = c => n < todo[i][2]
  PROVE  DeliveryInv'
<1> DEFINE p == peers[c]
           q == [p EXCEPT !.queue = Append(@, n)]
<1>1. /\ peers \in [DeliveryClients -> Peer] /\ PeerInv(p, output.next) /\ output.next \in Nat \ {0}
      /\ p \in Peer
  BY DEF DeliveryInv, DeliveryShape
<1>2. peers' = [peers EXCEPT ![c] = q] /\ Len(p.queue) # QueueLimit
  BY <1>1 DEF Push, Full
<1>12. q = [p EXCEPT !.queue = Append(@, n)] /\ Before(Given(p), n)
  OBVIOUS
<1> HIDE DEF q
<1>3. PeerInv(q, output.next) /\ Given(q) = Append(Given(p), n)
  <2> DEFINE next == output.next
  <2>1. /\ next \in Nat \ {0} /\ PeerInv(p, next) /\ Len(p.queue) # QueueLimit /\ n < next
        /\ q = [p EXCEPT !.queue = Append(@, n)] /\ Before(Given(p), n)
    BY <1>1, <1>2, <1>12
  <2> HIDE DEF next, p
  <2>2. PeerInv(q, next) /\ Given(q) = Append(Given(p), n)
    BY <2>1, PeerPushed
  <2>3. QED
    BY <2>2 DEF next
<1>4. \A b \in DeliveryClients : peers'[b] = IF b = c THEN q ELSE peers[b]
  BY <1>1, <1>2
<1>5. DeliveryShape'
  <2>1. peers' \in [DeliveryClients -> Peer]
    BY <1>1, <1>2, <1>3 DEF PeerInv
  <2>2. QED
    BY <2>1 DEF DeliveryInv, DeliveryShape
<1>6. ASSUME NEW items \in Sending, ItemsRise(items, output.next), BeforeAll(Given(p), c, items),
             \A i \in DOMAIN items : items[i][1] = c => n < items[i][2]
      PROVE  BeforeAll(Given(q), c, items)
  <2> SUFFICES ASSUME NEW i \in DOMAIN items, items[i][1] = c
               PROVE  Before(Append(Given(p), n), items[i][2])
    BY <1>3 DEF BeforeAll
  <2>1. items[i][2] \in Nat /\ n < items[i][2] /\ Before(Given(p), items[i][2])
    BY <1>6 DEF Sending, Numbers, BeforeAll
  <2>2. Given(p) \in Seq(Nat)
    BY <1>1, GivenIsSeq
  <2>3. QED
    BY <2>1, <2>2, BeforeAppend
<1>7. \A b \in DeliveryClients : /\ BeforeAll(Given(peers'[b]), b, held)
                                 /\ BeforeAll(Given(peers'[b]), b, todo)
  BY <1>4, <1>6
<1>8. router'.at = at /\ router'.todo = todo /\ router'.held = held
  OBVIOUS
<1>9. RouterInv'
  BY <1>7, <1>8 DEF RouterInv
<1>10. \A b \in DeliveryClients : PeerInv(peers'[b], output'.next)
  BY <1>3, <1>4 DEF DeliveryInv
<1>11. QED
  BY <1>5, <1>9, <1>10 DEF DeliveryInv

LEMMA RouterSteps ==
  ASSUME DeliveryInv, RouterRefuses \/ RouterTry \/ RouterSend
  PROVE  DeliveryInv'
<1> DEFINE next == output.next
           todo == router.todo
           held == router.held
<1>1. /\ router = [at |-> router.at, todo |-> todo, held |-> held]
      /\ todo \in Sending /\ held \in Sending /\ <<>> \in Sending /\ next \in Nat
      /\ router.at \in {"idle", "refusing", "trying", "holding"} /\ RouterInv
      /\ \A c \in DeliveryClients : BeforeAll(Given(peers[c]), c, todo) /\ BeforeAll(Given(peers[c]), c, held)
      /\ ItemsRise(todo, next) /\ ItemsRise(held, next)
      /\ \A i \in DOMAIN held, j \in DOMAIN todo : held[i][2] < todo[j][2]
  BY DEF DeliveryInv, DeliveryShape, RouterInv, Sending
<1>2. /\ ItemsRise(<<>>, next) /\ \A c : BeforeAll(Given(peers[c]), c, <<>>)
      /\ DOMAIN <<>> = {} /\ NoRoute = [at |-> "idle", todo |-> <<>>, held |-> <<>>]
  BY DEF ItemsRise, BeforeAll, NoRoute
<1>3. CASE router' = NoRoute /\ UNCHANGED <<peers, output, expiration, closing, lastActive>>
  BY <1>1, <1>2, <1>3, RouterKeeps
<1>4. CASE RouterTry
  <2>1. UNCHANGED <<output, expiration, closing, lastActive>> /\ router.at = "trying"
    BY <1>4 DEF RouterTry
  <2>2. CASE todo = <<>>
    <3>1. router' = [at |-> "holding", todo |-> todo, held |-> held] /\ peers' = peers
      BY <1>1, <1>4, <2>2 DEF RouterTry
    <3>2. QED
      BY <1>1, <2>1, <3>1, RouterKeeps
  <2>3. CASE todo # <<>>
    <3> DEFINE item == Head(todo)
               c == item[1]
               n == item[2]
               rest == Tail(todo)
               kept == Sweep(todo, held, Present)
    <3>1. /\ router' = [at |-> "trying", todo |-> rest, held |-> kept]
          /\ IF c \in Present /\ kept = held THEN Push(c, n) ELSE UNCHANGED peers
      BY <1>1, <1>4, <2>1, <2>3 DEF RouterTry
    <3>2. /\ item \in DeliveryClients \X Nat /\ item = todo[1] /\ 1 \in DOMAIN todo /\ rest \in Sending
          /\ \A i \in DOMAIN rest : i + 1 \in DOMAIN todo /\ rest[i] = todo[i + 1]
      BY <1>1, <2>3, ItemsTail
    <3>3. /\ ItemsRise(rest, next) /\ n < next /\ 0 < n
          /\ \A i \in DOMAIN rest : n < rest[i][2]
          /\ \A b \in DeliveryClients : BeforeAll(Given(peers[b]), b, rest)
      BY <1>1, <2>3, RiseTail
    <3>4. c \in DeliveryClients /\ n \in Nat /\ Before(Given(peers[c]), n)
          /\ \A i \in DOMAIN held : held[i][2] < n
      BY <1>1, <3>2 DEF BeforeAll
    <3>5. \A i \in DOMAIN held, j \in DOMAIN rest : held[i][2] < rest[j][2]
      BY <1>1, <3>2
    <3>6. CASE c \in Present /\ (Blocked(held, c) \/ Full(c))
      <4> DEFINE m == Len(held) + 1
      <4>1. kept = Append(held, item)
        BY <3>6 DEF Sweep
      <4> HIDE DEF kept, item
      <4>2. /\ kept \in Sending /\ DOMAIN kept = DOMAIN held \cup {m}
            /\ kept[m] = item /\ m \notin DOMAIN held
            /\ \A i \in DOMAIN held : kept[i] = held[i] /\ i < m /\ i \in Nat
        <5>1. held \in Sending /\ item \in DeliveryClients \X Nat
          BY <1>1, <3>2
        <5> HIDE DEF held
        <5>2. QED
          BY <4>1, <5>1, ItemsAppend
      <4>3. kept # held
        BY <4>2
      <4>4. m \in Nat /\ \A i, j \in DOMAIN kept : i < j => j = m \/ (i \in DOMAIN held /\ j \in DOMAIN held)
        BY <1>1, <4>2 DEF Sending
      <4> HIDE DEF m, kept, item, rest
      <4>5. ItemsRise(kept, next)
        <5>1. \A i \in DOMAIN kept : 0 < kept[i][2] /\ kept[i][2] < next
          BY <1>1, <3>3, <4>2 DEF ItemsRise
        <5>2. ASSUME NEW i \in DOMAIN kept, NEW j \in DOMAIN kept, i < j PROVE kept[i][2] < kept[j][2]
          <6>1. CASE j = m
            <7>1. i \in DOMAIN held
              BY <4>2, <4>4, <5>2, <6>1
            <7>2. QED
              BY <3>4, <4>2, <6>1, <7>1
          <6>2. CASE i \in DOMAIN held /\ j \in DOMAIN held
            BY <1>1, <4>2, <5>2, <6>2 DEF ItemsRise
          <6>3. QED
            BY <4>4, <5>2, <6>1, <6>2
        <5>3. QED
          BY <5>1, <5>2 DEF ItemsRise
      <4>6. \A i \in DOMAIN kept, j \in DOMAIN rest : kept[i][2] < rest[j][2]
        BY <3>3, <3>5, <4>2
      <4>7. \A b \in DeliveryClients : BeforeAll(Given(peers[b]), b, kept)
        BY <1>1, <3>4, <4>2 DEF BeforeAll
      <4>8. UNCHANGED peers
        BY <3>1, <4>3
      <4>9. QED
        BY <2>1, <3>1, <3>2, <3>3, <4>2, <4>5, <4>6, <4>7, <4>8, RouterKeeps
    <3>7. CASE ~(c \in Present /\ (Blocked(held, c) \/ Full(c)))
      <4>1. kept = held
        BY <3>7 DEF Sweep
      <4>2. CASE c \notin Present
        <5> HIDE DEF kept, item, rest
        <5>1. QED
          BY <1>1, <2>1, <3>1, <3>2, <3>3, <3>5, <4>1, <4>2, RouterKeeps
      <4>3. CASE c \in Present
        <5>1. /\ \A i \in DOMAIN held : held[i][1] # c
              /\ ~Full(c)
          BY <3>7, <4>3 DEF Blocked
        <5>2. Push(c, n) /\ router' = [at |-> "trying", todo |-> rest, held |-> held]
          BY <3>1, <4>1, <4>3
        <5> HIDE DEF kept, item, rest
        <5>3. QED
          BY <1>1, <2>1, <3>2, <3>3, <3>4, <3>5, <5>1, <5>2, RouterPushes
      <4>4. QED
        BY <4>2, <4>3
    <3>8. QED
      BY <3>6, <3>7
  <2>4. QED
    BY <2>2, <2>3
<1>5. CASE RouterSend /\ held # <<>>
  <2> DEFINE item == Head(held)
             c == item[1]
             n == item[2]
             rest == Tail(held)
  <2>1. /\ UNCHANGED <<output, expiration, closing, lastActive>>
        /\ router' = [at |-> "holding", todo |-> todo, held |-> rest]
        /\ IF c \in Present THEN ~Full(c) /\ Push(c, n) ELSE UNCHANGED peers
    BY <1>1, <1>5 DEF RouterSend
  <2>2. /\ item \in DeliveryClients \X Nat /\ item = held[1] /\ 1 \in DOMAIN held /\ rest \in Sending
        /\ \A i \in DOMAIN rest : i + 1 \in DOMAIN held /\ rest[i] = held[i + 1]
    BY <1>1, <1>5, ItemsTail
  <2>3. /\ ItemsRise(rest, next) /\ n < next /\ 0 < n
        /\ \A i \in DOMAIN rest : n < rest[i][2]
        /\ \A b \in DeliveryClients : BeforeAll(Given(peers[b]), b, rest)
    BY <1>1, <1>5, RiseTail
  <2>4. c \in DeliveryClients /\ n \in Nat /\ Before(Given(peers[c]), n)
        /\ \A i \in DOMAIN todo : n < todo[i][2]
    BY <1>1, <2>2 DEF BeforeAll
  <2>5. \A i \in DOMAIN rest, j \in DOMAIN todo : rest[i][2] < todo[j][2]
    BY <1>1, <2>2
  <2> HIDE DEF item, rest
  <2>6. CASE c \in Present
    BY <1>1, <2>1, <2>2, <2>3, <2>4, <2>5, <2>6, RouterPushes
  <2>7. CASE c \notin Present
    BY <1>1, <2>1, <2>2, <2>3, <2>5, <2>7, RouterKeeps
  <2>8. QED
    BY <2>6, <2>7
<1>6. QED
  BY <1>3, <1>4, <1>5 DEF RouterRefuses, RouterSend

(* Whoever a message goes to, they are clients in some order.              *)
LEMMA RecipientsAreClients ==
  ASSUME DeliveryInv, NEW m \in Messages, NEW to \in Recipients(m)
  PROVE  to \in Seq(DeliveryClients)
<1>1. Present \subseteq DeliveryClients /\ IsFiniteSet(Present) /\ Cardinality(Present) \in Nat
  <2>1. Present \in SUBSET DeliveryClients
    BY DEF Present
  <2>2. QED
    BY <2>1, FS_Subset, FS_CardinalityType, DeliveryAssumption
<1>2. CASE m.kind = "answer"
  BY <1>2 DEF Recipients, Messages
<1>3. CASE m.kind = "notice"
  <2>1. to \in SetToSeqs(Present)
    BY <1>3 DEF Recipients
  <2>2. to \in [1..Cardinality(Present) -> Present]
    BY <2>1 DEF SetToSeqs
  <2>3. to \in Seq(Present)
    BY <1>1, <2>2
  <2>4. QED
    BY <1>1, <2>3, SeqMonotonic
<1>4. CASE m.kind \notin {"answer", "notice"}
  <2>1. PICK c \in Targets(m.kind) : to = <<c>>
    BY <1>4 DEF Recipients
  <2>2. c \in DeliveryClients
    BY <1>1, <2>1 DEF Targets, Suitable
  <2>3. QED
    BY <2>1, <2>2
<1>5. QED
  BY <1>2, <1>3, <1>4

LEMMA RouterTakes ==
  ASSUME DeliveryInv, RouterTake
  PROVE  DeliveryInv'
<1> DEFINE m == Head(output.left)
           next == output.next
<1>1. /\ output \in [left : Seq(Messages), next : Nat \ {0}] /\ output.left # <<>>
      /\ UNCHANGED <<peers, expiration, closing, lastActive>>
      /\ <<>> \in Sending /\ m \in Messages /\ Tail(output.left) \in Seq(Messages)
  BY DEF RouterTake, DeliveryInv, DeliveryShape, Sending
<1>2. \A c \in DeliveryClients :
        /\ PeerInv(peers[c], next) /\ Given(peers[c]) \in Seq(Nat) /\ Before(Given(peers[c]), next)
  BY GivenIsSeq DEF DeliveryInv, DeliveryShape, PeerInv
<1>3. ASSUME NEW later \in Nat \ {0}, NEW at \in {"idle", "refusing", "trying", "holding"}, NEW todo \in Sending,
             next <= later, output' = [left |-> Tail(output.left), next |-> later],
             router' = [at |-> at, todo |-> todo, held |-> <<>>],
             ItemsRise(todo, later),
             \A i \in DOMAIN todo : next <= todo[i][2]
      PROVE  DeliveryInv'
  <2>1. DeliveryShape'
    BY <1>1, <1>3 DEF DeliveryInv, DeliveryShape
  <2>2. \A c \in DeliveryClients : PeerInv(peers'[c], output'.next)
    <3> TAKE c \in DeliveryClients
    <3>1. Before(Given(peers[c]), later)
      BY <1>1, <1>2, <1>3, BeforeLater
    <3>2. QED
      BY <1>1, <1>2, <1>3, <3>1 DEF PeerInv
  <2>3. \A c \in DeliveryClients : BeforeAll(Given(peers'[c]), c, todo)
    <3> TAKE c \in DeliveryClients
    <3>1. \A i \in DOMAIN todo : todo[i][2] \in Nat
      BY DEF Sending, Numbers
    <3>2. QED
      BY <1>1, <1>2, <1>3, <3>1, BeforeLater DEF BeforeAll
  <2>4. RouterInv'
    BY <1>3, <2>3 DEF RouterInv, ItemsRise, BeforeAll
  <2>5. QED
    BY <2>1, <2>2, <2>4 DEF DeliveryInv
<1>4. CASE \E to \in Recipients(m) :
          /\ router' = [at |-> "trying", held |-> <<>>,
                        todo |-> [i \in DOMAIN to |-> <<to[i], output.next + i - 1>>]]
          /\ output' = [left |-> Tail(output.left), next |-> output.next + Len(to)]
  <2>1. PICK to \in Recipients(m) :
          /\ router' = [at |-> "trying", held |-> <<>>,
                        todo |-> [i \in DOMAIN to |-> <<to[i], next + i - 1>>]]
          /\ output' = [left |-> Tail(output.left), next |-> next + Len(to)]
    BY <1>4
  <2> DEFINE todo == [i \in DOMAIN to |-> <<to[i], next + i - 1>>]
  <2>2. to \in Seq(DeliveryClients)
    BY <1>1, RecipientsAreClients
  <2>3. DOMAIN to = 1..Len(to) /\ Len(to) \in Nat /\ next \in Nat \ {0}
    BY <1>1, <2>2
  <2>4. /\ DOMAIN todo = 1..Len(to)
        /\ \A i \in 1..Len(to) : todo[i] = <<to[i], next + i - 1>> /\ todo[i][2] = next + i - 1
                                 /\ todo[i] \in DeliveryClients \X Nat
    BY <2>2, <2>3
  <2>5. todo \in Sending
    BY <2>3, <2>4 DEF Sending, Numbers
  <2>6. /\ router' = [at |-> "trying", todo |-> todo, held |-> <<>>]
        /\ output' = [left |-> Tail(output.left), next |-> next + Len(to)]
    BY <2>1
  <2> HIDE DEF todo, next
  <2>7. ItemsRise(todo, next + Len(to)) /\ \A i \in DOMAIN todo : next <= todo[i][2]
    BY <2>3, <2>4 DEF ItemsRise
  <2>8. next + Len(to) \in Nat \ {0} /\ next <= next + Len(to)
    BY <2>3
  <2>9. QED
    BY <1>3, <2>5, <2>6, <2>7, <2>8
<1>5. CASE /\ router' = [NoRoute EXCEPT !.at = IF m.kind = "sampling" THEN "refusing" ELSE "idle"]
           /\ output' = [output EXCEPT !.left = Tail(@)]
  <2>1. PICK at \in {"idle", "refusing"} : router' = [at |-> at, todo |-> <<>>, held |-> <<>>]
    BY <1>5 DEF NoRoute
  <2>2. output' = [left |-> Tail(output.left), next |-> next]
    BY <1>1, <1>5
  <2>3. ItemsRise(<<>>, next) /\ \A i \in DOMAIN <<>> : next <= <<>>[i][2]
    BY DEF ItemsRise
  <2>4. next \in Nat \ {0} /\ next <= next
    BY <1>1
  <2>5. QED
    BY <1>1, <1>3, <2>1, <2>2, <2>3, <2>4
<1>6. QED
  BY <1>4, <1>5 DEF RouterTake

-----------------------------------------------------------------------------
(* Delivery: timeouts and the end.                                         *)

LEMMA ExpirationSteps ==
  ASSUME DeliveryInv, Expire \/ DeliverMessage
  PROVE  DeliveryInv'
<1>1. /\ peers \in [DeliveryClients -> Peer] /\ output.next \in Nat \ {0} /\ UNCHANGED <<output, router, closing, lastActive>>
      /\ \A c \in DeliveryClients : PeerInv(peers[c], output.next)
      /\ expiration \in [at : {"idle", "holding", "left"}, held : Sending]
      /\ closing \in {"open", "closed", "joining", "aborted", "over"}
      /\ lastActive \in DeliveryClients \cup {Nobody}
  BY DEF DeliveryInv, DeliveryShape, Expire, DeliverMessage
<1> DEFINE told(c) == [peers[c] EXCEPT !.queue = Append(@, TimedOut)]
<1>2. ASSUME NEW c \in DeliveryClients, ~Full(c)
      PROVE  PeerInv(told(c), output.next) /\ Given(told(c)) = Append(Given(peers[c]), TimedOut)
  <2> DEFINE p == peers[c]
             q == told(c)
             next == output.next
  <2>1. PeerInv(p, next) /\ next \in Nat \ {0} /\ q = [p EXCEPT !.queue = Append(@, TimedOut)]
        /\ TimedOut \in Nat /\ TimedOut < next /\ Len(p.queue) # QueueLimit
    BY <1>1, <1>2 DEF TimedOut, Full
  <2> HIDE DEF p, q, next
  <2>2. PeerInv(q, next) /\ Given(q) = Append(Given(p), TimedOut)
    BY <2>1, PeerPushed
  <2>3. QED
    BY <2>2 DEF p, q, next
<1> HIDE DEF told
<1>3. CASE Expire
  <2>1. PICK late \in SUBSET Present :
          /\ peers' = [c \in DeliveryClients |-> IF c \in late /\ ~Full(c) THEN told(c) ELSE peers[c]]
          /\ \E order \in SetToSeqs({c \in late : Full(c)}) :
                expiration' = [at |-> "holding", held |-> [i \in DOMAIN order |-> <<order[i], TimedOut>>]]
    BY <1>3 DEF Expire, told
  <2>2. \A c \in DeliveryClients : peers'[c] = IF c \in late /\ ~Full(c) THEN told(c) ELSE peers[c]
    BY <2>1
  <2>3. \A c \in DeliveryClients :
            /\ PeerInv(peers'[c], output.next)
            /\ \/ Given(peers'[c]) = Given(peers[c]) \/ Given(peers'[c]) = <<>>
               \/ Given(peers'[c]) = Append(Given(peers[c]), TimedOut)
    BY <1>1, <1>2, <2>2
  <2>4. peers' \in [DeliveryClients -> Peer]
    BY <2>1, <2>3 DEF PeerInv
  <2>5. expiration' \in [at : {"idle", "holding", "left"}, held : Sending]
    <3> DEFINE S == {c \in late : Full(c)}
    <3>1. S \in SUBSET DeliveryClients
      BY <2>1 DEF Present
    <3>2. IsFiniteSet(S) /\ Cardinality(S) \in Nat
      BY <3>1, FS_Subset, FS_CardinalityType, DeliveryAssumption
    <3>3. PICK order \in SetToSeqs(S) :
            expiration' = [at |-> "holding", held |-> [i \in DOMAIN order |-> <<order[i], TimedOut>>]]
      BY <2>1
    <3> HIDE DEF S
    <3>4. order \in [1..Cardinality(S) -> S]
      BY <3>3 DEF SetToSeqs
    <3>5. \A i \in 1..Cardinality(S) : <<order[i], TimedOut>> \in DeliveryClients \X Nat
      BY <3>1, <3>4 DEF TimedOut
    <3>6. [i \in DOMAIN order |-> <<order[i], TimedOut>>] \in Sending
      BY <3>2, <3>4, <3>5 DEF Sending, Numbers
    <3>7. QED
      BY <3>3, <3>6
  <2>6. QED
    BY <1>1, <2>3, <2>4, <2>5, PeersMove
<1>4. CASE DeliverMessage
  <2>1. expiration' \in [at : {"idle", "holding", "left"}, held : Sending]
    <3>1. CASE expiration.held = <<>>
      BY <1>1, <1>4, <3>1 DEF DeliverMessage
    <3>2. CASE expiration.held # <<>>
      <4>1. Tail(expiration.held) \in Sending
        BY <1>1, <3>2, ItemsTail
      <4>2. QED
        BY <1>1, <1>4, <3>2, <4>1 DEF DeliverMessage
    <3>3. QED
      BY <3>1, <3>2
  <2>2. CASE peers' = peers
    BY <1>1, <2>1, <2>2, PeersMove
  <2>3. CASE peers' # peers
    <3>1. PICK c \in DeliveryClients : ~Full(c) /\ peers' = [peers EXCEPT ![c] = told(c)]
      BY <1>4, <2>3 DEF DeliverMessage, Push, Present, told
    <3>2. PeerInv(told(c), output.next) /\ Given(told(c)) = Append(Given(peers[c]), TimedOut)
      BY <1>2, <3>1
    <3>3. QED
      BY <1>1, <2>1, <3>1, <3>2, PeerMoves
  <2>4. QED
    BY <2>2, <2>3
<1>5. QED
  BY <1>3, <1>4

LEMMA ClosingSteps ==
  ASSUME DeliveryInv, CloseGeneration \/ ShutDown
  PROVE  DeliveryInv'
<1>1. /\ peers \in [DeliveryClients -> Peer] /\ output.next \in Nat \ {0} /\ UNCHANGED <<output, lastActive>>
      /\ \A c \in DeliveryClients : PeerInv(peers[c], output.next)
      /\ expiration \in [at : {"idle", "holding", "left"}, held : Sending] /\ <<>> \in Sending
      /\ closing \in {"open", "closed", "joining", "aborted", "over"}
      /\ lastActive \in DeliveryClients \cup {Nobody}
  BY DEF DeliveryInv, DeliveryShape, CloseGeneration, ShutDown, OwnerLeaves, JoinClients, Sending
<1>2. CASE CloseGeneration \/ OwnerLeaves \/ (JoinClients /\ peers' = peers /\ UNCHANGED <<output, router, expiration, lastActive>>)
  <2>1. /\ peers' = peers /\ router' \in {router, NoRoute}
        /\ expiration' \in [at : {"idle", "holding", "left"}, held : Sending]
        /\ closing' \in {"open", "closed", "joining", "aborted", "over"}
    BY <1>1, <1>2 DEF CloseGeneration, OwnerLeaves, JoinClients
  <2>2. QED
    BY <1>1, <2>1, PeersMove
<1>3. CASE /\ UNCHANGED <<closing, output, router, expiration, lastActive>>
           /\ \E c \in Present : peers' = [peers EXCEPT ![c] = Gone(@)]
  <2>1. PICK c \in DeliveryClients : peers' = [peers EXCEPT ![c] = Gone(peers[c])]
    BY <1>3 DEF Present
  <2>2. PeerInv(Gone(peers[c]), output.next) /\ Given(Gone(peers[c])) = <<>>
    BY <1>1, PeerGone
  <2>3. QED
    BY <1>1, <1>3, <2>1, <2>2, PeerMoves
<1>4. QED
  BY <1>2, <1>3 DEF ShutDown, JoinClients

LEMMA DeliveryStep ==
  ASSUME DeliveryInv, [DeliveryNext]_deliveryVars
  PROVE  DeliveryInv'
<1>1. CASE UNCHANGED deliveryVars
  <2>1. peers' = peers /\ output' = output /\ router' = router
    BY <1>1 DEF deliveryVars
  <2>2. DeliveryShape' /\ RouterInv' /\ \A c \in DeliveryClients : PeerInv(peers'[c], output'.next)
    BY <1>1, <2>1 DEF DeliveryInv, DeliveryShape, RouterInv, deliveryVars
  <2>3. QED
    BY <2>2 DEF DeliveryInv
<1>2. QED
  BY <1>1, RouterTakes, RouterSteps, ExpirationSteps, ClosingSteps, ClientSteps DEF DeliveryNext

(* A scene is what a server sends: answers to clients it has, callbacks    *)
(* and notices.                                                            *)
LEMMA DeliveryStarts ==
  ASSUME NEW scenes, \A scene \in scenes : scene.messages \in Seq(Messages), DeliveryInit(scenes)
  PROVE  DeliveryInv
<1>1. PICK scene \in scenes :
       /\ output = [left |-> scene.messages, next |-> 1]
       /\ peers = [c \in DeliveryClients |->
            [task |-> "away", reads |-> c \in scene.readers, capable |-> c \in scene.capable,
             lines |-> IF c \in scene.writers THEN MaxInput ELSE 0, written |-> 0, taken |-> 0,
             partial |-> FALSE, whole |-> TRUE,
             queue |-> <<>>, wire |-> <<>>, socket |-> <<>>, got |-> <<>>]]
  BY DEF DeliveryInit
<1>2. /\ router.todo = <<>> /\ router.held = <<>> /\ router.at = "idle" /\ <<>> \in Sending
      /\ router = [at |-> "idle", todo |-> <<>>, held |-> <<>>]
      /\ expiration = [at |-> "idle", held |-> <<>>] /\ closing = "open" /\ lastActive = Nobody
  BY DEF DeliveryInit, NoRoute, Sending
<1>3. \A c \in DeliveryClients :
        /\ peers[c] \in Peer /\ peers[c].queue = <<>> /\ peers[c].wire = <<>> /\ peers[c].socket = <<>>
        /\ peers[c].got = <<>> /\ peers[c].taken = 0 /\ peers[c].written = 0
  <2> TAKE c \in DeliveryClients
  <2>1. 0 \in 0..MaxInput /\ MaxInput \in 0..MaxInput /\ 0 \in 0..(2 * MaxInput) /\ <<>> \in Seq(Nat)
    BY DeliveryAssumption
  <2>2. PICK reads \in BOOLEAN, capable \in BOOLEAN, many \in 0..MaxInput :
          peers[c] = [task |-> "away", reads |-> reads, capable |-> capable,
             lines |-> many, written |-> 0, taken |-> 0, partial |-> FALSE, whole |-> TRUE,
             queue |-> <<>>, wire |-> <<>>, socket |-> <<>>, got |-> <<>>]
    <3>1. (c \in scene.readers) \in BOOLEAN /\ (c \in scene.capable) \in BOOLEAN
      OBVIOUS
    <3>2. (IF c \in scene.writers THEN MaxInput ELSE 0) \in 0..MaxInput
      BY <2>1
    <3>3. peers[c] = [task |-> "away", reads |-> c \in scene.readers, capable |-> c \in scene.capable,
             lines |-> IF c \in scene.writers THEN MaxInput ELSE 0, written |-> 0, taken |-> 0,
             partial |-> FALSE, whole |-> TRUE,
             queue |-> <<>>, wire |-> <<>>, socket |-> <<>>, got |-> <<>>]
      BY <1>1
    <3>4. QED
      BY <3>1, <3>2, <3>3, Zenon
  <2>3. QED
    BY <2>1, <2>2 DEF Peer
<1>4. DeliveryShape
  BY <1>1, <1>2, <1>3 DEF DeliveryShape
<1>5. \A c \in DeliveryClients : Given(peers[c]) = <<>>
  <2>1. <<>> \o <<>> = <<>>
    BY ConcatEmptySeq
  <2>2. QED
    BY <1>3, <2>1 DEF Given
<1>6. \A c \in DeliveryClients : PeerInv(peers[c], output.next)
  <2>1. Len(<<>>) <= QueueLimit
    BY DeliveryAssumption
  <2>2. QED
    BY <1>3, <1>5, <2>1, BeforeNothing DEF PeerInv
<1>7. RouterInv
  BY <1>2 DEF RouterInv, ItemsRise, BeforeAll
<1>8. QED
  BY <1>4, <1>6, <1>7 DEF DeliveryInv

LEMMA DeliveryTyped ==
  ASSUME DeliveryInv
  PROVE  DeliveryTypeOK
<1>1. \A c \in DeliveryClients : peers[c] \in Peer /\ Len(peers[c].queue) <= QueueLimit
                                /\ peers[c].taken <= peers[c].written
  BY DEF DeliveryInv, DeliveryShape, PeerInv
<1>2. QED
  BY <1>1 DEF DeliveryInv, DeliveryShape, DeliveryTypeOK, Peer, Numbers

LEMMA DeliveryOrdered ==
  ASSUME DeliveryInv
  PROVE  InServerOrder
  BY DEF DeliveryInv, PeerInv, Rising, InServerOrder

-----------------------------------------------------------------------------
(* What holds of every behaviour.                                          *)

(* InServerOrder: whatever the server sends, each client is given its      *)
(* messages in the order they were sent, in spite of the held back ones    *)
(* (socket_proxy_dispatch.rs).                                             *)
THEOREM ClientsInOrder ==
  ASSUME NEW scenes, \A scene \in scenes : scene.messages \in Seq(Messages)
  PROVE  DeliveryInit(scenes) /\ [][DeliveryNext]_deliveryVars => []InServerOrder
<1>1. DeliveryInit(scenes) => DeliveryInv
  BY DeliveryStarts
<1>2. DeliveryInv /\ [DeliveryNext]_deliveryVars => DeliveryInv'
  BY DeliveryStep
<1>3. DeliveryInv => InServerOrder
  BY DeliveryOrdered
<1>4. QED
  BY <1>1, <1>2, <1>3, PTL

(* BridgeSafety: whatever its clients do, the bridge keeps the slots of    *)
(* every server, leaves no request that it took unanswered when it leaves  *)
(* without an error, and a subscriber whose queue is full still learns of  *)
(* a change (mcp_bridge_clients.rs, mcp_bridge_stdio.rs,                   *)
(* mcp_bridge_http_sse.rs).                                                *)
THEOREM BridgeSafe ==
  ASSUME NEW hosts, \A given \in hosts : FromHost(given),
         NEW at \in {"new", "done"}, NEW wants \in [Subscriptions -> BOOLEAN]
  PROVE  /\ BridgeInit(hosts) /\ [][BridgeNext]_bridgeVars
         /\ BridgeListenerInit(at, wants) /\ [][BridgeListenerNext]_listenerVars
         => []BridgeSafety
<1>1. BridgeInit(hosts) => BridgeInv
  BY BridgeStarts
<1>2. BridgeInv /\ [BridgeNext]_bridgeVars => BridgeInv'
  BY BridgeStep
<1>3. BridgeListenerInit(at, wants) => ListenerInv
  BY ListenerStart
<1>4. ListenerInv /\ [BridgeListenerNext]_listenerVars => ListenerInv'
  BY ListenerStep
<1>5. BridgeInv /\ ListenerInv => BridgeSafety
  BY BridgeKeepsSlots, ListenerTold DEF BridgeSafety, BridgeInv
<1>6. QED
  BY <1>1, <1>2, <1>3, <1>4, <1>5, PTL

(* TypeOK: the five components that serve messages keep their types, in    *)
(* every behaviour of all of them at once (the runtimes of                 *)
(* upstream_http_*.rs and upstream_process.rs, the delivery of             *)
(* socket_proxy_dispatch.rs, the bridge of mcp_bridge_*.rs).               *)
THEOREM ServersTyped ==
  ASSUME NEW workloads, \A kinds \in workloads : \A r \in HttpRequests : kinds[r] \in ExchangeKind,
         NEW scenes, \A scene \in scenes : scene.messages \in Seq(Messages),
         NEW hosts, \A given \in hosts : FromHost(given),
         NEW at \in {"new", "done"}, NEW wants \in [Subscriptions -> BOOLEAN]
  PROVE  /\ HttpSpec(workloads)
         /\ StdioSpec
         /\ DeliveryInit(scenes) /\ [][DeliveryNext]_deliveryVars
         /\ BridgeInit(hosts) /\ [][BridgeNext]_bridgeVars
         /\ BridgeListenerInit(at, wants) /\ [][BridgeListenerNext]_listenerVars
         => []TypeOK
<1>1. HttpSpec(workloads) => []HttpTypeOK
  BY HttpTyped
<1>2. StdioSpec => []StdioTypeOK
  BY TypeCorrect
<1>3. DeliveryInit(scenes) => DeliveryInv
  BY DeliveryStarts
<1>4. DeliveryInv /\ [DeliveryNext]_deliveryVars => DeliveryInv'
  BY DeliveryStep
<1>5. BridgeInit(hosts) => BridgeInv
  BY BridgeStarts
<1>6. BridgeInv /\ [BridgeNext]_bridgeVars => BridgeInv'
  BY BridgeStep
<1>7. BridgeListenerInit(at, wants) => ListenerInv
  BY ListenerStart
<1>8. ListenerInv /\ [BridgeListenerNext]_listenerVars => ListenerInv'
  BY ListenerStep
<1>9. HttpTypeOK /\ StdioTypeOK /\ DeliveryInv /\ BridgeInv /\ ListenerInv => TypeOK
  BY DeliveryTyped, BridgeTyped, ListenerTyped DEF TypeOK
<1>10. QED
  BY <1>1, <1>2, <1>3, <1>4, <1>5, <1>6, <1>7, <1>8, <1>9, PTL

-----------------------------------------------------------------------------
(* The refinement of UpstreamContract.                                     *)

(* The contract's state.                                                   *)
StageOf == [u \in {"stdio", "http"} |-> IF u = "stdio" THEN StdioStage ELSE HttpStage]
AliveOf == [u \in {"stdio", "http"} |-> IF u = "stdio" THEN StdioAlive ELSE HttpAlive]
TrafficOf == [u \in {"stdio", "http"} |-> IF u = "stdio" THEN StdioTraffic ELSE HttpTraffic]

(* A step that one upstream's owner may see, while the other rests.        *)
LEMMA OneMoves ==
  ASSUME NEW u \in {"stdio", "http"},
         \A v \in {"stdio", "http"} \ {u} :
           StageOf'[v] = StageOf[v] /\ AliveOf'[v] = AliveOf[v] /\ TrafficOf'[v] = TrafficOf[v],
         KeepsContract(StageOf[u], StageOf'[u], TrafficOf[u], TrafficOf'[u], AliveOf[u], AliveOf'[u])
  PROVE  [Contract!Next]_(Contract!vars)
<1>1. CASE StageOf'[u] = StageOf[u] /\ TrafficOf'[u] = TrafficOf[u] /\ AliveOf'[u] = AliveOf[u]
  <2>1. \A v \in {"stdio", "http"} :
          StageOf'[v] = StageOf[v] /\ AliveOf'[v] = AliveOf[v] /\ TrafficOf'[v] = TrafficOf[v]
    BY <1>1
  <2>2. StageOf' = StageOf /\ AliveOf' = AliveOf /\ TrafficOf' = TrafficOf
    BY <2>1 DEF StageOf, AliveOf, TrafficOf
  <2>3. QED
    BY <2>2 DEF Contract!vars, StageOf, AliveOf, TrafficOf
<1>2. CASE ~(StageOf'[u] = StageOf[u] /\ TrafficOf'[u] = TrafficOf[u] /\ AliveOf'[u] = AliveOf[u])
  <2> DEFINE s == StageOf[u]
             s1 == StageOf'[u]
             t == TrafficOf[u]
             t1 == TrafficOf'[u]
  <2>1. \/ s = "starting" /\ s1 = "running" /\ t1 = t
        \/ s \in {"running", "exited"} /\ s1 = s /\ t \subseteq t1
        \/ s = "running" /\ s1 = "exited" /\ t \subseteq t1
        \/ s \in {"starting", "running", "exited"} /\ s1 = "retired" /\ AliveOf'[u] = {} /\ t1 = t
        \/ s \in {"starting", "running", "exited"} /\ s1 = "unverified" /\ t1 = t
        \/ s \in {"starting", "unverified"} /\ s1 = s /\ t1 = t
    BY <1>2 DEF KeepsContract
  <2>2. \/ Contract!Start(u) \/ Contract!Serve(u) \/ Contract!Exit(u)
        \/ Contract!Retire(u) \/ Contract!GiveUp(u) \/ Contract!Linger(u)
    BY <2>1 DEF Contract!Start, Contract!Serve, Contract!Exit, Contract!Retire, Contract!GiveUp,
       Contract!Linger, Contract!Goes, Contract!Silent, StageOf, AliveOf, TrafficOf
  <2>3. QED
    BY <2>2 DEF Contract!Next, StageOf, AliveOf, TrafficOf
<1>3. QED
  BY <1>1, <1>2

LEMMA ContractStep ==
  ASSUME StdioInv, SetupIsAlone, HttpInv, StdioInv', SetupIsAlone', HttpInv', [MCNext]_mcVars
  PROVE  [Contract!Next]_(Contract!vars)
<1>1. /\ StageOf["stdio"] = StdioStage /\ StageOf["http"] = HttpStage
      /\ AliveOf["stdio"] = StdioAlive /\ AliveOf["http"] = HttpAlive
      /\ TrafficOf["stdio"] = StdioTraffic /\ TrafficOf["http"] = HttpTraffic
  BY DEF StageOf, AliveOf, TrafficOf
<1>2. /\ StageOf'["stdio"] = StdioStage' /\ StageOf'["http"] = HttpStage'
      /\ AliveOf'["stdio"] = StdioAlive' /\ AliveOf'["http"] = HttpAlive'
      /\ TrafficOf'["stdio"] = StdioTraffic' /\ TrafficOf'["http"] = HttpTraffic'
  BY DEF StageOf, AliveOf, TrafficOf
<1>3. CASE [StdioNext]_stdioVars /\ UNCHANGED httpVars
  <2>1. HttpStage' = HttpStage /\ HttpAlive' = HttpAlive /\ HttpTraffic' = HttpTraffic
    BY <1>3 DEF httpVars, HttpStage, HttpAlive, HttpTraffic, Live
  <2>2. KeepsContract(StdioStage, StdioStage', StdioTraffic, StdioTraffic', StdioAlive, StdioAlive')
    BY <1>3, StdioKeepsContract
  <2>3. QED
    BY <1>1, <1>2, <2>1, <2>2, OneMoves
<1>4. CASE [HttpNext]_httpVars /\ UNCHANGED stdioVars
  <2>1. StdioStage' = StdioStage /\ StdioAlive' = StdioAlive /\ StdioTraffic' = StdioTraffic
    BY <1>4 DEF stdioVars, StdioStage, StdioAlive, StdioTraffic, Alive, In
  <2>2. KeepsContract(HttpStage, HttpStage', HttpTraffic, HttpTraffic', HttpAlive, HttpAlive')
    BY <1>4, HttpKeepsContract
  <2>3. QED
    BY <1>1, <1>2, <2>1, <2>2, OneMoves
<1>5. QED
  BY <1>3, <1>4 DEF MCNext, OfHttp, OfStdio, OfDelivery, OfBridge, OfListener, AtRest, mcVars

LEMMA ContractStarts ==
  ASSUME NEW workloads, StdioInit, HttpInit(workloads)
  PROVE  Contract!Init
<1>1. StdioStage = "starting" /\ StdioTraffic = {}
  BY DEF StdioInit, StdioStage, StdioTraffic
<1>2. HttpStage = "running"
  BY DEF HttpInit, HttpStage, Idle
<1>3. HttpTraffic = {}
  <2>1. \A r \in HttpRequests : exchanges[r].answers = 0 /\ \A e \in Endpoints : exchanges[r].posts[e] = 0
    BY DEF HttpInit, NewExchange
  <2>2. QED
    BY <2>1 DEF HttpTraffic
<1>4. /\ StageOf \in [{"stdio", "http"} -> {"none", "starting", "running"}]
      /\ \A u \in {"stdio", "http"} : StageOf[u] # "none"
      /\ TrafficOf = [u \in {"stdio", "http"} |-> {}]
  BY <1>1, <1>2, <1>3 DEF StageOf, TrafficOf
<1>5. QED
  BY <1>4 DEF Contract!Init, StageOf, AliveOf, TrafficOf

(* UpstreamsKeepContract: however many processes a stdio server forks and  *)
(* whatever is submitted to an HTTP server and answered by it, each        *)
(* upstream takes only the steps that the owner of its generation counts   *)
(* on; above all nothing of a retired one is alive, sent or answered again *)
(* (upstream.rs, upstream_process.rs, upstream_http.rs).                   *)
THEOREM ContractKept ==
  ASSUME NEW workloads, \A kinds \in workloads : \A r \in HttpRequests : kinds[r] \in ExchangeKind
  PROVE  StdioInit /\ HttpInit(workloads) /\ [][MCNext]_mcVars => UpstreamsKeepContract
<1> DEFINE Inv == StdioInv /\ SetupIsAlone /\ HttpInv
<1>1. StdioInit /\ HttpInit(workloads) => Inv /\ Contract!Init
  BY InvInit, SetupAloneInit, HttpStarts, ContractStarts
<1>2. Inv /\ [MCNext]_mcVars => Inv'
  <2> SUFFICES ASSUME Inv, [MCNext]_mcVars PROVE Inv'
    OBVIOUS
  <2>1. [StdioNext]_stdioVars /\ [HttpNext]_httpVars
    BY DEF MCNext, OfHttp, OfStdio, OfDelivery, OfBridge, OfListener, AtRest, mcVars
  <2>2. QED
    BY <2>1, StdioInvStep, SetupAloneStep, HttpStep
<1>3. Inv /\ Inv' /\ [MCNext]_mcVars => [Contract!Next]_(Contract!vars)
  BY ContractStep
<1> HIDE DEF Inv
<1>4. QED
  BY <1>1, <1>2, <1>3, PTL DEF UpstreamsKeepContract, Contract!Spec
=============================================================================
