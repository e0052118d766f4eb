----------------------------- MODULE PoolProofs ------------------------------
(***************************************************************************)
(* What holds of Pool for any number of requests, names and proxies:       *)
(* proofs of its type invariant, of the registration of everything that may*)
(* be running, and of a shutdown: every upstream has been signalled before *)
(* it waits for one, and when it succeeds nothing is registered, runs or is*)
(* about to.                                                               *)
(***************************************************************************)
EXTENDS Pool, TLAPS

USE PoolAssumption

-----------------------------------------------------------------------------
(* Places.                                                                 *)

(* A start, stop or restart holds the lock of its name here ...            *)
Locked == {"admit", "examine", "stop", "retire", "remove", "create", "recheck", "launch",
           "publish", "startup"}

(* ... and the shared side of the gate here.                               *)
Shared == Locked \cup {"early", "signal", "operation"}

(* A shutdown holds the gate alone here.                                   *)
Alone == {"collect", "announce", "next", "stop", "retire", "remove", "close"}

(* Here a request works on the endpoint that it found under the name.      *)
Bound == {"stop", "retire", "remove", "create", "recheck", "launch", "publish", "startup"}

Shuts(c) == call[c].op = "shutdown"
Inside(c) == IF Shuts(c) THEN call[c].at \in Alone ELSE call[c].at \in Locked

-----------------------------------------------------------------------------
(* The invariant.                                                          *)

(* What a request holds.                                                   *)
Holds(c) ==
  /\ Shuts(c) => /\ call[c].at \in {"flag", "snapshot", "sweep", "gate", "done"} \cup Alone
                 /\ call[c].at \in Alone => writer = c
  /\ ~Shuts(c) => /\ call[c].at \in {"idle", "gate", "done"} \cup Shared
                  /\ call[c].at \in Shared => c \in readers
                  /\ call[c].at \in Locked => locks[call[c].name] = c

Gate == (writer # NoCaller => readers = {}) /\ \A c \in Callers : Holds(c)

(* The endpoint a request works on is the one under its name, and in the   *)
(* condition that the next step relies on.                                 *)
WorksOn(c) ==
  LET p == call[c].proxy IN
  /\ call[c].at = "signal" => p \in Proxies
  /\ call[c].at \in Bound => p = proxies[call[c].name]
  /\ call[c].at \in {"stop", "retire", "recheck", "launch", "publish", "startup"} => p \in Proxies
  /\ call[c].at = "remove" => p # Absent
  /\ call[c].at = "create" => p # External
  /\ call[c].at = "retire" => proxy[p].signalled
  /\ call[c].at \in {"remove", "create"} /\ p \in Proxies
       => proxy[p].signalled /\ proxy[p].phase = "none"
  /\ call[c].at = "recheck" => proxy[p].phase = "none" /\ ~proxy[p].recovering

(* What a shutdown has still to stop is registered.                        *)
Remaining(c) ==
  Shuts(c) =>
    /\ call[c].at \in {"announce", "next", "stop", "retire", "remove"}
         => \A n \in call[c].todo : proxies[n] # Absent
    /\ call[c].at \in {"stop", "retire", "remove"} => call[c].name \notin call[c].todo

(* A proxy that may run, now or by its own recovery.                       *)
MayRun(p) == proxy[p].phase # "none" \/ (proxy[p].recovering /\ ~proxy[p].signalled)

Registry ==
  /\ \A n \in Names : proxies[n] \in Proxies =>
       proxy[proxies[n]].name = n /\ proxies[n] <= created
  /\ \A p \in Proxies : p > created => proxy[p].phase = "none" /\ ~proxy[p].recovering
  /\ \A p \in Proxies : MayRun(p) => proxies[proxy[p].name] = p

PoolInv ==
  /\ TypeOK
  /\ Gate
  /\ \A c \in Callers : WorksOn(c) /\ Remaining(c)
  /\ Registry

-----------------------------------------------------------------------------
(* Numbers and names.                                                      *)

LEMMA Endpoints ==
  /\ Absent \notin Proxies /\ External \notin Proxies /\ Absent # External
  /\ \A p \in Proxies : p \in Nat
  /\ NoCaller \notin Callers
  BY DEF Absent, External, Proxies, NoCaller

LEMMA Chosen == SomeName \in Names /\ SomeEntry \in Entries
  BY DEF SomeName, SomeEntry

(* No two requests are inside with one name, and a shutdown is alone.      *)
LEMMA Exclusion ==
  ASSUME Gate, NEW c \in Callers, NEW d \in Callers, c # d, Inside(c), Inside(d)
  PROVE  ~Shuts(c) /\ ~Shuts(d) /\ call[c].name # call[d].name
  BY Endpoints DEF Gate, Holds, Inside, Locked, Shared

-----------------------------------------------------------------------------
(* What one step of a request leaves alone.                                *)

(* A request that goes on, or finishes, changes only its own record.       *)
Went(c, place) ==
  /\ call' \in [Callers -> Call]
  /\ call'[c].at = place
  /\ call'[c].op = call[c].op /\ call'[c].name = call[c].name
  /\ call'[c].proxy = call[c].proxy /\ call'[c].todo = call[c].todo
  /\ call'[c].failure = call[c].failure /\ call'[c].result = call[c].result
  /\ \A d \in Callers \ {c} : call'[d] = call[d]

LEMMA GoesTo ==
  ASSUME TypeOK, NEW c \in Callers, NEW place \in Places, Goto(c, place)
  PROVE  Went(c, place)
<1>1. call[c] \in Call
  BY DEF TypeOK
<1>2. call'[c] = [call[c] EXCEPT !.at = place] /\ \A d \in Callers \ {c} : call'[d] = call[d]
  BY DEF TypeOK, Goto
<1>3. [call[c] EXCEPT !.at = place] \in Call
  BY <1>1 DEF Call
<1>4. call' \in [Callers -> Call]
  BY <1>2, <1>3 DEF TypeOK, Goto
<1>5. QED
  BY <1>1, <1>2, <1>4 DEF Call, Went

LEMMA Finishes ==
  ASSUME TypeOK, NEW c \in Callers, NEW outcome \in {"ok", "err"}, Finish(c, outcome)
  PROVE  /\ call' \in [Callers -> Call]
         /\ call'[c].at = "done" /\ call'[c].op = call[c].op /\ call'[c].result = outcome
         /\ \A d \in Callers \ {c} : call'[d] = call[d]
         /\ locks' \in [Names -> Callers \cup {NoCaller}]
         /\ \A n \in Names : locks[n] # c => locks'[n] = locks[n]
         /\ readers' = readers \ {c}
         /\ writer' \in {writer, NoCaller} /\ (writer # c => writer' = writer)
<1>1. call[c] \in Call
  BY DEF TypeOK
<1>2. /\ call'[c] = [call[c] EXCEPT !.at = "done", !.result = outcome]
      /\ \A d \in Callers \ {c} : call'[d] = call[d]
  BY DEF TypeOK, Finish
<1>3. [call[c] EXCEPT !.at = "done", !.result = outcome] \in Call
  BY <1>1 DEF Call, Places
<1>4. call' \in [Callers -> Call]
  BY <1>2, <1>3 DEF TypeOK, Finish
<1>5. call'[c].at = "done" /\ call'[c].op = call[c].op /\ call'[c].result = outcome
  BY <1>1, <1>2 DEF Call
<1>6. /\ locks' \in [Names -> Callers \cup {NoCaller}]
      /\ \A n \in Names : locks[n] # c => locks'[n] = locks[n]
      /\ readers' = readers \ {c}
      /\ writer' \in {writer, NoCaller} /\ (writer # c => writer' = writer)
  BY DEF TypeOK, Finish
<1>7. QED
  BY <1>2, <1>4, <1>5, <1>6

(* What the other requests hold and do is untouched by a step of c.        *)
OthersKeep(c) ==
  \A d \in Callers \ {c} :
    /\ call'[d] = call[d]
    /\ d \in readers => d \in readers'
    /\ \A n \in Names : locks[n] = d => locks'[n] = d
    /\ writer = d => writer' = d

(* A proxy that is not launched: a signal stays, and what cannot run does  *)
(* not begin to.                                                           *)
Mild(p) ==
  /\ proxy'[p].name = proxy[p].name
  /\ proxy[p].signalled => proxy'[p].signalled
  /\ ~MayRun(p) => ~MayRun(p)'
  /\ proxy[p].phase = "none" /\ ~proxy[p].recovering => ~proxy'[p].recovering

LEMMA OtherHolds ==
  ASSUME PoolInv, NEW c \in Callers, OthersKeep(c), NEW d \in Callers \ {c}
  PROVE  Holds(d)'
<1>1. Holds(d) /\ call[d] \in Call
  BY DEF PoolInv, Gate, TypeOK
<1>2. call[d].name \in Names
  BY <1>1 DEF Call
<1>3. QED
  BY <1>1, <1>2 DEF OthersKeep, Holds, Shuts

LEMMA OtherWorks ==
  ASSUME PoolInv, NEW d \in Callers, call'[d] = call[d],
         Inside(d) => proxies'[call[d].name] = proxies[call[d].name],
         Inside(d) /\ Shuts(d) => \A n \in Names : proxies[n] # Absent => proxies'[n] # Absent,
         call[d].at \in Bound /\ call[d].proxy \in Proxies => Mild(call[d].proxy)
  PROVE  WorksOn(d)' /\ Remaining(d)'
<1>1. WorksOn(d) /\ Remaining(d) /\ Holds(d) /\ call[d] \in Call
  BY DEF PoolInv, Gate, TypeOK
<1>2. call[d].name \in Names /\ call[d].todo \subseteq Names
  BY <1>1 DEF Call
<1>3. Remaining(d)'
  BY <1>1, <1>2 DEF Remaining, Shuts, Inside, Alone
<1>4. call[d].at \in Bound => Inside(d)
  BY <1>1 DEF Bound, Holds, Inside, Shared, Locked, Alone
<1>5. WorksOn(d)'
  BY <1>1, <1>4 DEF Bound, WorksOn, Mild, MayRun
<1>6. QED
  BY <1>3, <1>5

LEMMA RegistryKept ==
  ASSUME PoolInv, UNCHANGED <<proxies, created>>, \A p \in Proxies : Mild(p)
  PROVE  Registry'
<1>1. Registry /\ TypeOK
  BY DEF PoolInv
<1>2. \A p \in Proxies : proxy[p].name \in Names
  BY <1>1 DEF TypeOK, Proxy
<1>3. \A n \in Names : proxies'[n] \in Proxies =>
        proxy'[proxies'[n]].name = n /\ proxies'[n] <= created'
  BY <1>1 DEF Registry, Mild
<1>4. \A p \in Proxies : p > created' => proxy'[p].phase = "none" /\ ~proxy'[p].recovering
  BY <1>1 DEF Registry, Mild, MayRun
<1>5. \A p \in Proxies : MayRun(p)' => proxies'[proxy'[p].name] = p
  BY <1>1, <1>2 DEF Registry, Mild
<1>6. QED
  BY <1>3, <1>4, <1>5 DEF Registry

(* A step of c that launches, registers and removes nothing.               *)
LEMMA QuietStep ==
  ASSUME PoolInv, NEW c \in Callers, OthersKeep(c), UNCHANGED <<proxies, created>>,
         \A p \in Proxies : Mild(p),
         TypeOK', Holds(c)', WorksOn(c)', Remaining(c)', (writer # NoCaller => readers = {})'
  PROVE  PoolInv'
<1>1. \A d \in Callers : Holds(d)'
  BY OtherHolds
<1>2. \A d \in Callers : WorksOn(d)' /\ Remaining(d)'
  <2>1. ASSUME NEW d \in Callers \ {c} PROVE WorksOn(d)' /\ Remaining(d)'
    BY OtherWorks DEF OthersKeep
  <2>2. QED
    BY <2>1
<1>3. Registry'
  BY RegistryKept
<1>4. QED
  BY <1>1, <1>2, <1>3 DEF PoolInv, Gate

LEMMA SameProxies ==
  ASSUME proxy' = proxy PROVE \A p \in Proxies : Mild(p)
  BY DEF Mild, MayRun

(* A step that only moves c.                                               *)
LEMMA Moves ==
  ASSUME PoolInv, NEW c \in Callers, NEW place \in Places, Goto(c, place),
         UNCHANGED <<proxies, Guards, shutting_down, proxy, Rest>>
  PROVE  Went(c, place) /\ TypeOK' /\ OthersKeep(c) /\ UNCHANGED <<proxies, created>>
         /\ (\A p \in Proxies : Mild(p)) /\ (writer # NoCaller => readers = {})'
<1> USE DEF PoolInv, Guards, Rest
<1>1. Went(c, place)
  BY GoesTo
<1>2. TypeOK'
  BY <1>1 DEF TypeOK, Went
<1>3. OthersKeep(c)
  BY <1>1 DEF OthersKeep, Went
<1>4. (writer # NoCaller => readers = {})'
  BY DEF Gate
<1>5. QED
  BY <1>1, <1>2, <1>3, <1>4, SameProxies

(* A request that ends leaves what it held.                                *)
LEMMA Ends ==
  ASSUME PoolInv, NEW c \in Callers, NEW outcome \in {"ok", "err"}, Finish(c, outcome),
         UNCHANGED <<proxies, proxy, Rest>>, shutting_down' \in BOOLEAN
  PROVE  PoolInv'
<1>1. TypeOK'
  BY Finishes DEF PoolInv, TypeOK, Rest
<1>2. OthersKeep(c)
  BY Finishes DEF PoolInv, OthersKeep, TypeOK
<1>3. (writer # NoCaller => readers = {})'
  BY Finishes DEF PoolInv, Gate
<1>4. Holds(c)' /\ WorksOn(c)' /\ Remaining(c)'
  BY Finishes DEF PoolInv, Holds, Bound, WorksOn, Remaining, Shuts, Alone, Shared, Locked
<1>5. QED
  BY <1>1, <1>2, <1>3, <1>4, SameProxies, QuietStep DEF Rest

(* A step that gives c another record, and its guards or not.              *)
LEMMA Becomes ==
  ASSUME PoolInv, NEW c \in Callers, NEW r \in Call, call' = [call EXCEPT ![c] = r],
         UNCHANGED <<proxies, Guards, created>>
  PROVE  /\ call' \in [Callers -> Call] /\ call'[c] = r
         /\ OthersKeep(c) /\ (writer # NoCaller => readers = {})'
  BY DEF PoolInv, TypeOK, OthersKeep, Gate, Guards

(* SocketProxy::request_stop, and the signal alone.                        *)
LEMMA Signals ==
  ASSUME PoolInv, NEW p \in Proxies,
         proxy' = Signalled(p) \/ proxy' = [proxy EXCEPT ![p].signalled = TRUE]
  PROVE  /\ proxy' \in [Proxies -> Proxy]
         /\ \A q \in Proxies : Mild(q)
         /\ proxy'[p].signalled
<1>1. \A q \in Proxies : proxy[q] \in Proxy
  BY DEF PoolInv, TypeOK
<1>2. /\ \A q \in Proxies \ {p} : proxy'[q] = proxy[q]
      /\ \/ proxy'[p] = [proxy[p] EXCEPT !.stop_requested = TRUE, !.signalled = TRUE]
         \/ proxy'[p] = [proxy[p] EXCEPT !.signalled = TRUE]
  BY DEF Signalled, PoolInv, TypeOK
<1>3. /\ proxy'[p] \in Proxy /\ proxy'[p].signalled
      /\ proxy'[p].name = proxy[p].name /\ proxy'[p].phase = proxy[p].phase
      /\ proxy'[p].recovering = proxy[p].recovering
  BY <1>1, <1>2 DEF Proxy
<1>4. proxy' \in [Proxies -> Proxy]
  BY <1>2, <1>3 DEF Signalled, PoolInv, TypeOK
<1>5. QED
  BY <1>2, <1>3, <1>4 DEF Mild, MayRun

-----------------------------------------------------------------------------
(* The steps of a request, one lemma for each.                             *)

LEMMA SubmitInv ==
  ASSUME PoolInv, NEW c \in Callers, Submit(c) PROVE PoolInv'
<1>1. PICK op \in Operations, n \in Names, e \in Entries :
        call' = [call EXCEPT ![c].op = op, ![c].name = n, ![c].entry = e,
                   ![c].at = IF op = "shutdown" THEN "flag" ELSE "gate"]
  BY DEF Submit
<1> DEFINE r == [call[c] EXCEPT !.op = op, !.name = n, !.entry = e,
                   !.at = IF op = "shutdown" THEN "flag" ELSE "gate"]
<1>2. call[c] \in Call
  BY DEF PoolInv, TypeOK
<1>3. r \in Call /\ r.op = op /\ r.at = IF op = "shutdown" THEN "flag" ELSE "gate"
  <2>1. PICK place \in Places : place = IF op = "shutdown" THEN "flag" ELSE "gate"
    BY DEF Places
  <2>2. PICK z : z = [call[c] EXCEPT !.op = op, !.name = n, !.entry = e, !.at = place]
    OBVIOUS
  <2>3. z \in Call
    BY <1>2, <2>2 DEF Call
  <2>4. z.op = op /\ z.at = place
    BY <1>2, <2>2 DEF Call
  <2>5. QED
    BY <2>1, <2>2, <2>3, <2>4
<1>4. call' = [call EXCEPT ![c] = r]
  BY <1>1
<1>5. UNCHANGED <<proxies, Guards, shutting_down, proxy, Rest>>
  BY DEF Submit
<1> HIDE DEF r
<1>6. /\ call' \in [Callers -> Call] /\ call'[c] = r
      /\ OthersKeep(c) /\ (writer # NoCaller => readers = {})'
  BY <1>3, <1>4, <1>5, Becomes DEF Rest
<1>7. TypeOK'
  BY <1>5, <1>6 DEF PoolInv, TypeOK, Guards, Rest
<1>8. Holds(c)' /\ WorksOn(c)' /\ Remaining(c)'
  BY <1>3, <1>6 DEF Holds, Bound, WorksOn, Remaining, Shuts, Alone, Shared, Locked
<1>9. QED
  BY <1>5, <1>6, <1>7, <1>8, SameProxies, QuietStep DEF Rest

LEMMA EnterGateInv ==
  ASSUME PoolInv, NEW c \in Callers, EnterGate(c) PROVE PoolInv'
<1>1. PICK place \in {"collect", "early", "operation"} :
        /\ Goto(c, place)
        /\ IF Shuts(c) THEN readers = {} /\ writer' = c /\ readers' = readers /\ place = "collect"
           ELSE readers' = readers \cup {c} /\ writer' = writer /\ place # "collect"
  BY DEF EnterGate, Shuts
<1>2. /\ writer = NoCaller /\ call[c].at = "gate"
      /\ UNCHANGED <<proxies, locks, shutting_down, proxy, Rest>>
  BY DEF EnterGate, At
<1>3. Went(c, place)
  BY <1>1, GoesTo DEF Places, PoolInv
<1>4. TypeOK'
  <2>1. writer' \in Callers \cup {NoCaller} /\ readers' \subseteq Callers
    BY <1>1, <1>2 DEF PoolInv, TypeOK
  <2>2. QED
    BY <1>2, <1>3, <2>1 DEF PoolInv, TypeOK, Rest, Went
<1>5. OthersKeep(c)
  <2>1. \A d \in Callers \ {c} : (d \in readers => d \in readers') /\ writer # d
    BY <1>1, <1>2, Endpoints
  <2>2. QED
    BY <1>2, <1>3, <2>1 DEF OthersKeep, Went
<1>6. (writer # NoCaller => readers = {})'
  BY <1>1, <1>2
<1>7. Holds(c)' /\ WorksOn(c)' /\ Remaining(c)'
  BY <1>1, <1>3 DEF Went, Holds, Bound, WorksOn, Remaining, Shuts, Alone, Shared, Locked
<1>8. QED
  BY <1>2, <1>4, <1>5, <1>6, <1>7, SameProxies, QuietStep DEF Rest

LEMMA LookEarlyInv ==
  ASSUME PoolInv, NEW c \in Callers, LookEarly(c) PROVE PoolInv'
<1> DEFINE p == proxies[NameOf(c)]
           r == [call[c] EXCEPT !.proxy = p, !.at = IF p \in Proxies THEN "signal" ELSE "operation"]
<1>1. call[c] \in Call /\ p \in Proxies \cup {Absent, External} /\ call[c].at = "early"
  BY DEF PoolInv, TypeOK, Call, NameOf, LookEarly, At
<1>2. /\ r \in Call /\ r.op = call[c].op /\ r.proxy = p /\ r.name = call[c].name
      /\ r.at = IF p \in Proxies THEN "signal" ELSE "operation"
  BY <1>1 DEF Call, Places
<1>3. call' = [call EXCEPT ![c] = r]
  BY DEF LookEarly
<1>4. UNCHANGED <<proxies, Guards, shutting_down, proxy, Rest>>
  BY DEF LookEarly
<1> HIDE DEF r
<1>5. /\ call' \in [Callers -> Call] /\ call'[c] = r
      /\ OthersKeep(c) /\ (writer # NoCaller => readers = {})'
  BY <1>2, <1>3, <1>4, Becomes DEF Rest
<1>6. TypeOK'
  BY <1>4, <1>5 DEF PoolInv, TypeOK, Guards, Rest
<1>7. ~Shuts(c) /\ c \in readers
  BY <1>1 DEF PoolInv, Gate, Holds, Shared, Alone
<1>8. Holds(c)' /\ WorksOn(c)' /\ Remaining(c)'
  BY <1>2, <1>4, <1>5, <1>7 DEF Holds, Bound, WorksOn, Remaining, Shuts, Alone, Shared, Locked, Guards
<1>9. QED
  BY <1>4, <1>5, <1>6, <1>8, SameProxies, QuietStep DEF Rest

LEMMA SignalEarlyInv ==
  ASSUME PoolInv, NEW c \in Callers, SignalEarly(c) PROVE PoolInv'
<1>1. call[c].at = "signal" /\ Goto(c, "operation") /\ proxy' = Signalled(call[c].proxy)
      /\ UNCHANGED <<proxies, Guards, shutting_down, Rest>>
  BY DEF SignalEarly, At
<1>2. call[c].proxy \in Proxies /\ ~Shuts(c) /\ c \in readers
  BY <1>1 DEF PoolInv, Bound, WorksOn, Gate, Holds, Shared, Alone
<1>3. proxy' \in [Proxies -> Proxy] /\ \A q \in Proxies : Mild(q)
  BY <1>1, <1>2, Signals
<1>4. Went(c, "operation")
  BY <1>1, GoesTo DEF Places, PoolInv
<1>5. TypeOK'
  BY <1>1, <1>3, <1>4 DEF PoolInv, TypeOK, Guards, Rest, Went
<1>6. OthersKeep(c) /\ (writer # NoCaller => readers = {})'
  BY <1>1, <1>4 DEF PoolInv, OthersKeep, Guards, Gate, Went
<1>7. Holds(c)' /\ WorksOn(c)' /\ Remaining(c)'
  BY <1>1, <1>2, <1>4
     DEF Went, Holds, Bound, WorksOn, Remaining, Shuts, Alone, Shared, Locked, Guards
<1>8. QED
  BY <1>1, <1>3, <1>5, <1>6, <1>7, QuietStep DEF Rest

LEMMA LockOperationInv ==
  ASSUME PoolInv, NEW c \in Callers, LockOperation(c) PROVE PoolInv'
<1>1. PICK place \in {"examine", "admit"} : Goto(c, place)
  BY DEF LockOperation
<1>2. /\ call[c].at = "operation" /\ locks[call[c].name] = NoCaller
      /\ locks' = [locks EXCEPT ![call[c].name] = c]
      /\ UNCHANGED <<proxies, readers, writer, shutting_down, proxy, Rest>>
  BY DEF LockOperation, At, NameOf
<1>3. Went(c, place)
  BY <1>1, GoesTo DEF Places, PoolInv
<1>4. call[c].name \in Names /\ ~Shuts(c) /\ c \in readers
  BY <1>2 DEF PoolInv, Gate, Holds, TypeOK, Call, Shared, Alone
<1>5. locks' \in [Names -> Callers \cup {NoCaller}] /\ locks'[call[c].name] = c
  BY <1>2, <1>4 DEF PoolInv, TypeOK
<1>6. TypeOK'
  BY <1>2, <1>3, <1>5 DEF PoolInv, TypeOK, Rest, Went
<1>7. OthersKeep(c)
  <2>1. \A d \in Callers, n \in Names : locks[n] = d => locks'[n] = d
    BY <1>2, <1>4, Endpoints DEF PoolInv, TypeOK
  <2>2. QED
    BY <1>2, <1>3, <2>1 DEF OthersKeep, Went
<1>8. Holds(c)' /\ WorksOn(c)' /\ Remaining(c)'
  BY <1>2, <1>3, <1>4, <1>5
     DEF Went, Holds, Bound, WorksOn, Remaining, Shuts, Alone, Shared, Locked
<1>9. QED
  BY <1>2, <1>6, <1>7, <1>8, SameProxies, QuietStep DEF Rest, PoolInv, Gate

LEMMA AdmitInv ==
  ASSUME PoolInv, NEW c \in Callers, Admit(c) PROVE PoolInv'
<1>1. call[c].at = "admit" /\ UNCHANGED <<proxies, shutting_down, proxy, Rest>>
  BY DEF Admit, At
<1>2. CASE Finish(c, "err")
  BY <1>1, <1>2, Ends DEF PoolInv, TypeOK
<1>3. CASE Goto(c, "examine") /\ UNCHANGED Guards
  <2>1. /\ Went(c, "examine") /\ TypeOK' /\ OthersKeep(c) /\ UNCHANGED <<proxies, created>>
        /\ (\A p \in Proxies : Mild(p)) /\ (writer # NoCaller => readers = {})'
    BY <1>1, <1>3, Moves DEF Places, Guards
  <2>2. ~Shuts(c) /\ c \in readers /\ locks[call[c].name] = c
    BY <1>1 DEF PoolInv, Gate, Holds, Shared, Locked, Alone
  <2>3. Holds(c)' /\ WorksOn(c)' /\ Remaining(c)'
    BY <1>3, <2>1, <2>2
       DEF Went, Holds, Bound, WorksOn, Remaining, Shuts, Alone, Shared, Locked, Guards
  <2>4. QED
    BY <2>1, <2>3, QuietStep
<1>4. QED
  BY <1>2, <1>3 DEF Admit

(* Inside, a start, stop or restart has its share of the gate and its lock. *)
LEMMA Has ==
  ASSUME PoolInv, NEW c \in Callers
  PROVE  /\ call[c] \in Call /\ call[c].name \in Names
         /\ Holds(c) /\ WorksOn(c) /\ Remaining(c)
         /\ call[c].op \in {"start", "stop", "restart"} => ~Shuts(c)
         /\ proxies[call[c].name] \in Proxies \cup {Absent, External}
  BY DEF PoolInv, Gate, TypeOK, Call, Shuts

LEMMA ExamineStartInv ==
  ASSUME PoolInv, NEW c \in Callers, ExamineStart(c) PROVE PoolInv'
<1> DEFINE p == proxies[NameOf(c)]
           place == CASE p = Absent -> "create"
                      [] p # Absent /\ proxy[p].phase \in {"setup", "running"} -> "launch"
                      [] OTHER -> "stop"
           r == [call[c] EXCEPT !.proxy = p, !.at = place]
<1>1. /\ call[c].at = "examine" /\ call[c].op = "start"
      /\ UNCHANGED <<proxies, shutting_down, proxy, Rest>>
  BY DEF ExamineStart, At
<1>2. CASE Finish(c, "ok") \/ Finish(c, "err")
  BY <1>1, <1>2, Ends DEF PoolInv, TypeOK
<1>3. CASE call' = [call EXCEPT ![c] = r] /\ UNCHANGED Guards /\ p # External
  <2>1. p \in Proxies \cup {Absent} /\ call[c] \in Call
    BY <1>3, Has DEF NameOf
  <2>0. IF p = Absent THEN place = "create" ELSE place \in {"launch", "stop"}
    OBVIOUS
  <2>2. /\ r \in Call /\ r.op = call[c].op /\ r.proxy = p /\ r.name = call[c].name
        /\ r.at = place
    BY <2>0, <2>1 DEF Call, Places
  <2> HIDE DEF r
  <2>3. /\ call' \in [Callers -> Call] /\ call'[c] = r
        /\ OthersKeep(c) /\ (writer # NoCaller => readers = {})'
    BY <1>1, <1>3, <2>2, Becomes DEF Rest
  <2>4. TypeOK'
    BY <1>1, <1>3, <2>3 DEF PoolInv, TypeOK, Guards, Rest
  <2>5. ~Shuts(c) /\ c \in readers /\ locks[call[c].name] = c
    BY <1>1, Has DEF Holds, Shared, Locked
  <2>6. Holds(c)' /\ WorksOn(c)' /\ Remaining(c)'
    BY <1>1, <1>3, <2>1, <2>2, <2>3, <2>5, Endpoints
       DEF Holds, Bound, WorksOn, Remaining, Shuts, Alone, Shared, Locked, Guards, NameOf
  <2>7. QED
    BY <1>1, <2>3, <2>4, <2>6, SameProxies, QuietStep DEF Rest
<1>4. p = External => Foreign(c) \/ ~Foreign(c)
  OBVIOUS
<1>5. QED
  BY <1>2, <1>3, <1>4 DEF ExamineStart

LEMMA EnvironmentFailsInv ==
  ASSUME PoolInv, NEW c \in Callers, EnvironmentFails(c) PROVE PoolInv'
  BY Ends DEF EnvironmentFails, PoolInv, TypeOK

LEMMA ExamineInv ==
  ASSUME PoolInv, NEW c \in Callers, Examine(c) PROVE PoolInv'
<1> DEFINE p == proxies[NameOf(c)]
           r == [call[c] EXCEPT !.proxy = p, !.at = IF p = External THEN "remove" ELSE "stop"]
<1>1. /\ call[c].at = "examine" /\ call[c].op \in {"stop", "restart"}
      /\ UNCHANGED <<proxies, shutting_down, proxy, Rest>>
  BY DEF Examine, At
<1>2. CASE Finish(c, "ok")
  BY <1>1, <1>2, Ends DEF PoolInv, TypeOK
<1>3. CASE call' = [call EXCEPT ![c] = r] /\ UNCHANGED Guards /\ p # Absent
  <2>1. p \in Proxies \cup {External} /\ call[c] \in Call
    BY <1>3, Has DEF NameOf
  <2>2. /\ r \in Call /\ r.op = call[c].op /\ r.proxy = p /\ r.name = call[c].name
        /\ r.at = IF p = External THEN "remove" ELSE "stop"
    <3>1. PICK place \in Places : place = IF p = External THEN "remove" ELSE "stop"
      BY DEF Places
    <3> HIDE DEF p
    <3>2. r = [call[c] EXCEPT !.proxy = p, !.at = place]
      BY <3>1
    <3>3. r \in Call
      BY <2>1, <3>2 DEF Call
    <3>4. QED
      BY <2>1, <3>1, <3>2, <3>3 DEF Call
  <2> HIDE DEF r
  <2>3. /\ call' \in [Callers -> Call] /\ call'[c] = r
        /\ OthersKeep(c) /\ (writer # NoCaller => readers = {})'
    BY <1>1, <1>3, <2>2, Becomes DEF Rest
  <2>4. TypeOK'
    BY <1>1, <1>3, <2>3 DEF PoolInv, TypeOK, Guards, Rest
  <2>5. ~Shuts(c) /\ c \in readers /\ locks[call[c].name] = c
    BY <1>1, Has DEF Holds, Shared, Locked
  <2>6. Holds(c)' /\ WorksOn(c)' /\ Remaining(c)'
    BY <1>1, <1>3, <2>1, <2>2, <2>3, <2>5, Endpoints
       DEF Holds, Bound, WorksOn, Remaining, Shuts, Alone, Shared, Locked, Guards, NameOf
  <2>7. QED
    BY <1>1, <2>3, <2>4, <2>6, SameProxies, QuietStep DEF Rest
<1>4. QED
  BY <1>2, <1>3 DEF Examine

LEMMA StopProxyInv ==
  ASSUME PoolInv, NEW c \in Callers, StopProxy(c) PROVE PoolInv'
<1>1. /\ call[c].at = "stop" /\ Goto(c, "retire")
      /\ UNCHANGED <<proxies, Guards, shutting_down, Rest>>
  BY DEF StopProxy, At
<1>2. call[c].proxy \in Proxies /\ Holds(c) /\ WorksOn(c) /\ Remaining(c)
  BY <1>1, Has DEF Bound, WorksOn
<1>3. /\ proxy' \in [Proxies -> Proxy] /\ \A q \in Proxies : Mild(q)
      /\ proxy'[call[c].proxy].signalled
  BY <1>2, Signals DEF StopProxy
<1>4. Went(c, "retire")
  BY <1>1, GoesTo DEF Places, PoolInv
<1>5. TypeOK'
  BY <1>1, <1>3, <1>4 DEF PoolInv, TypeOK, Guards, Rest, Went
<1>6. OthersKeep(c) /\ (writer # NoCaller => readers = {})'
  BY <1>1, <1>4 DEF PoolInv, OthersKeep, Guards, Gate, Went
<1>7. Holds(c)'
  BY <1>1, <1>2, <1>4 DEF Went, Holds, Shuts, Alone, Shared, Locked, Guards
<1>8. WorksOn(c)' /\ Remaining(c)'
  BY <1>1, <1>2, <1>3, <1>4 DEF Bound, Went, WorksOn, Remaining, Shuts
<1>9. QED
  BY <1>1, <1>3, <1>5, <1>6, <1>7, <1>8, QuietStep DEF Rest

LEMMA AwaitRetirementInv ==
  ASSUME PoolInv, NEW c \in Callers, AwaitRetirement(c) PROVE PoolInv'
<1> DEFINE p == call[c].proxy
           place == AfterRetirement(call[c].op)
<1>1. /\ call[c].at = "retire" /\ Goto(c, place) /\ proxy[p].phase = "none"
      /\ proxy' = [proxy EXCEPT ![p].stop_requested = FALSE]
      /\ UNCHANGED <<proxies, Guards, shutting_down, Rest>>
  BY DEF AwaitRetirement, At
<1>2. p \in Proxies /\ Holds(c) /\ WorksOn(c) /\ Remaining(c) /\ proxy[p].signalled
  BY <1>1, Has DEF Bound, WorksOn
<1>3. /\ place \in {"create", "launch", "remove"}
      /\ place \in {"create", "launch"} => ~Shuts(c)
  BY DEF AfterRetirement, Shuts
<1>4. Went(c, place)
  BY <1>1, <1>3, GoesTo DEF Places, PoolInv
<1> HIDE DEF place
<1>5. proxy' \in [Proxies -> Proxy] /\ \A q \in Proxies : Mild(q)
  <2>1. proxy[p] \in Proxy
    BY <1>2 DEF PoolInv, TypeOK
  <2>2. /\ proxy'[p] = [proxy[p] EXCEPT !.stop_requested = FALSE]
        /\ \A q \in Proxies \ {p} : proxy'[q] = proxy[q]
    BY <1>1, <1>2 DEF PoolInv, TypeOK
  <2>3. /\ proxy'[p] \in Proxy /\ proxy'[p].name = proxy[p].name
        /\ proxy'[p].phase = proxy[p].phase /\ proxy'[p].recovering = proxy[p].recovering
        /\ proxy'[p].signalled = proxy[p].signalled
    BY <2>1, <2>2 DEF Proxy
  <2>4. proxy' \in [Proxies -> Proxy]
    BY <1>1, <1>2, <2>3 DEF PoolInv, TypeOK
  <2>5. QED
    BY <2>2, <2>3, <2>4 DEF Mild, MayRun
<1>6. TypeOK'
  BY <1>1, <1>4, <1>5 DEF PoolInv, TypeOK, Guards, Rest, Went
<1>7. OthersKeep(c) /\ (writer # NoCaller => readers = {})'
  BY <1>1, <1>4 DEF PoolInv, OthersKeep, Guards, Gate, Went
<1>8. Holds(c)'
  BY <1>1, <1>2, <1>3, <1>4 DEF Went, Holds, Shuts, Alone, Shared, Locked, Guards
<1>9. WorksOn(c)'
  <2>1. Mild(p) /\ p \notin {Absent, External}
    BY <1>2, <1>5, Endpoints
  <2>2. proxy'[p].signalled /\ proxy'[p].phase = "none"
    BY <1>1, <1>2, <2>1 DEF Mild, MayRun
  <2>3. QED
    BY <1>1, <1>2, <1>3, <1>4, <2>1, <2>2 DEF Bound, Went, WorksOn
<1>10. Remaining(c)'
  BY <1>1, <1>2, <1>3, <1>4 DEF Went, Remaining, Shuts
<1>11. QED
  BY <1>1, <1>5, <1>6, <1>7, <1>8, <1>9, <1>10, QuietStep DEF Rest

LEMMA RetirementFailsInv ==
  ASSUME PoolInv, NEW c \in Callers, RetirementFails(c) PROVE PoolInv'
<1>1. call[c].at = "retire" /\ UNCHANGED <<proxies, shutting_down, proxy, Rest>>
  BY DEF RetirementFails, At
<1>2. CASE Finish(c, "err")
  BY <1>1, <1>2, Ends DEF PoolInv, TypeOK
<1> DEFINE r == [call[c] EXCEPT !.at = "next", !.failure = TRUE]
<1>3. CASE Shuts(c) /\ call' = [call EXCEPT ![c] = r] /\ UNCHANGED Guards
  <2>1. call[c] \in Call /\ Holds(c) /\ Remaining(c)
    BY Has
  <2>2. r \in Call /\ r.op = call[c].op /\ r.at = "next" /\ r.todo = call[c].todo
    BY <2>1 DEF Call, Places
  <2> HIDE DEF r
  <2>3. /\ call' \in [Callers -> Call] /\ call'[c] = r
        /\ OthersKeep(c) /\ (writer # NoCaller => readers = {})'
    BY <1>1, <1>3, <2>2, Becomes DEF Rest
  <2>4. TypeOK'
    BY <1>1, <1>3, <2>3 DEF PoolInv, TypeOK, Guards, Rest
  <2>5. Holds(c)' /\ WorksOn(c)' /\ Remaining(c)'
    BY <1>1, <1>3, <2>1, <2>2, <2>3 DEF Holds, Bound, WorksOn, Remaining, Shuts, Alone, Guards
  <2>6. QED
    BY <1>1, <2>3, <2>4, <2>5, SameProxies, QuietStep DEF Rest
<1>4. QED
  BY <1>2, <1>3 DEF RetirementFails, Shuts

(* A step of c inside, which may change the endpoint under its name, and   *)
(* launch or create the proxy that it puts or finds there.                 *)
LEMMA InsideStep ==
  ASSUME PoolInv, NEW c \in Callers, Inside(c), OthersKeep(c),
         \A n \in Names \ {call[c].name} : proxies'[n] = proxies[n],
         \A p \in Proxies : Mild(p) \/ p = proxies[call[c].name] \/ p > created,
         TypeOK', Registry', Holds(c)', WorksOn(c)', Remaining(c)', (writer # NoCaller => readers = {})'
  PROVE  PoolInv'
<1>1. \A d \in Callers : Holds(d)'
  BY OtherHolds
<1>2. ASSUME NEW d \in Callers \ {c} PROVE WorksOn(d)' /\ Remaining(d)'
  <2>1. call[d].name \in Names /\ Holds(d) /\ WorksOn(d)
    BY Has
  <2>2. Inside(d) => ~Shuts(d) /\ call[d].name # call[c].name
    BY Exclusion DEF PoolInv
  <2>3. call[d].at \in Bound => Inside(d)
    BY <2>1 DEF Bound, Holds, Inside, Shared, Locked, Alone
  <2>4. ASSUME call[d].at \in Bound, call[d].proxy \in Proxies PROVE Mild(call[d].proxy)
    <3>1. call[d].proxy = proxies[call[d].name] /\ call[d].name # call[c].name
      BY <2>1, <2>2, <2>3, <2>4 DEF WorksOn
    <3>2. proxies[call[c].name] # call[d].proxy /\ call[d].proxy <= created
      BY <2>1, <2>4, <3>1, Has DEF PoolInv, Registry
    <3>3. call[d].proxy \in Nat /\ created \in Nat
      BY <2>4, Endpoints DEF PoolInv, TypeOK
    <3>4. QED
      BY <2>4, <3>2, <3>3
  <2>5. call'[d] = call[d]
    BY DEF OthersKeep
  <2>6. QED
    BY <2>1, <2>2, <2>4, <2>5, OtherWorks
<1>3. QED
  BY <1>1, <1>2 DEF PoolInv, Gate

(* The endpoint under the name of c is taken away; it cannot be running.   *)
LEMMA RegistryCleared ==
  ASSUME PoolInv, NEW n \in Names, proxies' = [proxies EXCEPT ![n] = Absent],
         UNCHANGED <<proxy, created>>, proxies[n] \in Proxies => ~MayRun(proxies[n])
  PROVE  Registry' /\ proxies' \in [Names -> Proxies \cup {Absent, External}]
<1>1. /\ proxies' \in [Names -> Proxies \cup {Absent, External}]
      /\ proxies'[n] = Absent /\ \A m \in Names \ {n} : proxies'[m] = proxies[m]
  BY DEF PoolInv, TypeOK
<1>2. \A p \in Proxies : proxy[p].name \in Names /\ (MayRun(p)' <=> MayRun(p))
  BY DEF PoolInv, TypeOK, Proxy, MayRun
<1>3. \A p \in Proxies : MayRun(p)' => proxies'[proxy'[p].name] = p
  BY <1>1, <1>2 DEF PoolInv, Registry
<1>4. \A m \in Names : proxies'[m] \in Proxies =>
        proxy'[proxies'[m]].name = m /\ proxies'[m] <= created'
  BY <1>1, Endpoints DEF PoolInv, Registry
<1>5. \A p \in Proxies : p > created' => proxy'[p].phase = "none" /\ ~proxy'[p].recovering
  BY DEF PoolInv, Registry
<1>6. QED
  BY <1>1, <1>3, <1>4, <1>5 DEF Registry

LEMMA RemoveInv ==
  ASSUME PoolInv, NEW c \in Callers, Remove(c) PROVE PoolInv'
<1>1. /\ call[c].at = "remove"
      /\ proxies' = [proxies EXCEPT ![call[c].name] = Absent]
      /\ UNCHANGED <<shutting_down, proxy, Rest>>
  BY DEF Remove, At, NameOf
<1>2. /\ call[c].name \in Names /\ Holds(c) /\ WorksOn(c) /\ Remaining(c) /\ Inside(c)
      /\ call[c] \in Call
  BY <1>1, Has DEF Holds, Inside, Locked, Alone, Shared
<1>3. Registry' /\ proxies' \in [Names -> Proxies \cup {Absent, External}]
  BY <1>1, <1>2, RegistryCleared DEF Bound, WorksOn, MayRun, Rest
<1>4. \A n \in Names \ {call[c].name} : proxies'[n] = proxies[n]
  BY <1>1, <1>2 DEF PoolInv, TypeOK
<1>5. CASE Shuts(c) /\ Goto(c, "next") /\ UNCHANGED Guards
  <2>1. Went(c, "next")
    BY <1>5, GoesTo DEF Places, PoolInv
  <2>2. TypeOK'
    BY <1>1, <1>3, <1>5, <2>1 DEF PoolInv, TypeOK, Guards, Rest, Went
  <2>3. OthersKeep(c) /\ (writer # NoCaller => readers = {})'
    BY <1>5, <2>1 DEF PoolInv, OthersKeep, Guards, Gate, Went
  <2>4. Holds(c)' /\ WorksOn(c)'
    BY <1>1, <1>2, <1>5, <2>1 DEF Went, Holds, Bound, WorksOn, Shuts, Alone, Guards
  <2>5. Remaining(c)'
    BY <1>1, <1>2, <1>4, <1>5, <2>1 DEF Went, Remaining, Shuts, Call
  <2>6. QED
    BY <1>1, <1>2, <1>3, <1>4, <2>2, <2>3, <2>4, <2>5, SameProxies, InsideStep
<1>6. CASE Finish(c, "ok")
  <2>1. TypeOK'
    BY <1>1, <1>3, <1>6, Finishes DEF PoolInv, TypeOK, Rest
  <2>2. OthersKeep(c)
    BY <1>6, Finishes DEF PoolInv, OthersKeep, TypeOK
  <2>3. (writer # NoCaller => readers = {})'
    BY <1>6, Finishes DEF PoolInv, Gate
  <2>4. Holds(c)' /\ WorksOn(c)' /\ Remaining(c)'
    BY <1>2, <1>6, Finishes
       DEF PoolInv, Holds, Bound, WorksOn, Remaining, Shuts, Alone, Shared, Locked
  <2>5. QED
    BY <1>1, <1>2, <1>3, <1>4, <2>1, <2>2, <2>3, <2>4, SameProxies, InsideStep
<1>7. QED
  BY <1>5, <1>6 DEF Remove, Shuts

LEMMA RecheckInv ==
  ASSUME PoolInv, NEW c \in Callers, Recheck(c) PROVE PoolInv'
<1>1. call[c].at = "recheck" /\ UNCHANGED <<shutting_down, proxy, Rest>>
  BY DEF Recheck, At
<1>2. /\ call[c].name \in Names /\ Holds(c) /\ WorksOn(c) /\ Remaining(c) /\ Inside(c)
      /\ call[c] \in Call
  BY <1>1, Has DEF Holds, Inside, Locked, Alone, Shared
<1>3. CASE Finish(c, "err") /\ proxies' = [proxies EXCEPT ![NameOf(c)] = Absent]
  <2>1. Registry' /\ proxies' \in [Names -> Proxies \cup {Absent, External}]
    BY <1>1, <1>2, <1>3, RegistryCleared DEF Bound, WorksOn, MayRun, Rest, NameOf
  <2>2. \A n \in Names \ {call[c].name} : proxies'[n] = proxies[n]
    BY <1>2, <1>3 DEF PoolInv, TypeOK, NameOf
  <2>3. TypeOK'
    BY <1>1, <1>3, <2>1, Finishes DEF PoolInv, TypeOK, Rest
  <2>4. OthersKeep(c)
    BY <1>3, Finishes DEF PoolInv, OthersKeep, TypeOK
  <2>5. (writer # NoCaller => readers = {})'
    BY <1>3, Finishes DEF PoolInv, Gate
  <2>6. Holds(c)' /\ WorksOn(c)' /\ Remaining(c)'
    BY <1>2, <1>3, Finishes
       DEF PoolInv, Holds, Bound, WorksOn, Remaining, Shuts, Alone, Shared, Locked
  <2>7. QED
    BY <1>1, <1>2, <2>1, <2>2, <2>3, <2>4, <2>5, <2>6, SameProxies, InsideStep
<1>4. CASE Goto(c, "launch") /\ UNCHANGED <<proxies, Guards>>
  <2>1. /\ Went(c, "launch") /\ TypeOK' /\ OthersKeep(c) /\ UNCHANGED <<proxies, created>>
        /\ (\A p \in Proxies : Mild(p)) /\ (writer # NoCaller => readers = {})'
    BY <1>1, <1>4, Moves DEF Places, Guards
  <2>2. Holds(c)' /\ WorksOn(c)' /\ Remaining(c)'
    BY <1>1, <1>2, <1>4, <2>1
       DEF Went, Holds, Bound, WorksOn, Remaining, Shuts, Alone, Shared, Locked, Guards
  <2>3. QED
    BY <2>1, <2>2, QuietStep
<1>5. QED
  BY <1>3, <1>4 DEF Recheck

LEMMA CreateInv ==
  ASSUME PoolInv, NEW c \in Callers, Create(c) PROVE PoolInv'
<1>0. PICK p \in Nat, n \in Names : p = created + 1 /\ n = call[c].name
  BY Has DEF PoolInv, TypeOK
<1> DEFINE r == [call[c] EXCEPT !.proxy = p, !.at = "recheck"]
<1>1. /\ call[c].at = "create" /\ created' = p
      /\ proxy' = [proxy EXCEPT ![p].name = n, ![p].entry = call[c].entry]
      /\ proxies' = [proxies EXCEPT ![n] = p]
      /\ call' = [call EXCEPT ![c] = r]
      /\ UNCHANGED <<Guards, shutting_down, losses, exited>>
  BY <1>0 DEF Create, At, NameOf
<1>2. /\ n \in Names /\ Holds(c) /\ WorksOn(c) /\ Inside(c) /\ ~Shuts(c) /\ call[c] \in Call
      /\ call[c].entry \in Entries
  BY <1>0, <1>1, Has DEF Holds, Inside, Locked, Alone, Shared, Call
<1>3. p \in Proxies /\ created \in Nat /\ p \in Nat
  BY <1>0 DEF Create, PoolInv, TypeOK, Proxies
<1>4. /\ proxy[p] \in Proxy /\ proxy[p].phase = "none" /\ ~proxy[p].recovering
  BY <1>0, <1>3 DEF PoolInv, TypeOK, Registry
<1>5. /\ proxy'[p] = [proxy[p] EXCEPT !.name = n, !.entry = call[c].entry]
      /\ \A q \in Proxies \ {p} : proxy'[q] = proxy[q]
  BY <1>1, <1>3 DEF PoolInv, TypeOK
<1>6. /\ proxy'[p] \in Proxy /\ proxy'[p].name = n /\ proxy'[p].phase = "none"
      /\ ~proxy'[p].recovering
  BY <1>2, <1>4, <1>5 DEF Proxy
<1>7. proxy' \in [Proxies -> Proxy]
  BY <1>1, <1>3, <1>6 DEF PoolInv, TypeOK
<1>8. r \in Call /\ r.op = call[c].op /\ r.proxy = p /\ r.name = n /\ r.at = "recheck"
  BY <1>0, <1>2, <1>3 DEF Call, Places
<1> HIDE DEF r
<1>9. /\ proxies' \in [Names -> Proxies \cup {Absent, External}]
      /\ proxies'[n] = p /\ \A m \in Names \ {n} : proxies'[m] = proxies[m]
  BY <1>1, <1>2, <1>3 DEF PoolInv, TypeOK
<1>10. call' \in [Callers -> Call] /\ call'[c] = r /\ \A d \in Callers \ {c} : call'[d] = call[d]
  BY <1>1, <1>8 DEF PoolInv, TypeOK
<1>11. TypeOK'
  <2>1. created' \in 0 .. MaxProxies
    BY <1>1, <1>3 DEF Proxies
  <2>2. QED
    BY <1>1, <1>7, <1>9, <1>10, <2>1 DEF PoolInv, TypeOK, Guards
<1>12. OthersKeep(c) /\ (writer # NoCaller => readers = {})'
  BY <1>1, <1>10 DEF PoolInv, OthersKeep, Guards, Gate
<1>13. \A q \in Proxies \ {p} : Mild(q)
  BY <1>5 DEF Mild, MayRun
<1>14. Registry'
  <2>1. \A q \in Proxies : q \in Nat
    BY Endpoints
  <2>2. \A m \in Names : proxies'[m] \in Proxies => proxy'[proxies'[m]].name = m /\ proxies'[m] <= created'
    <3>1. ASSUME NEW m \in Names \ {n}, proxies'[m] \in Proxies
          PROVE  proxy'[proxies'[m]].name = m /\ proxies'[m] <= created'
      <4>1. proxies[m] \in Proxies /\ proxies[m] <= created /\ proxy[proxies[m]].name = m
        BY <1>9, <3>1 DEF PoolInv, Registry
      <4>2. proxies[m] # p
        BY <1>0, <1>3, <2>1, <4>1
      <4>3. proxies'[m] = proxies[m] /\ proxy'[proxies[m]] = proxy[proxies[m]]
        BY <1>5, <1>9, <4>1, <4>2
      <4>4. proxies[m] <= created'
        BY <1>0, <1>1, <1>3, <2>1, <4>1
      <4>5. QED
        BY <4>1, <4>3, <4>4
    <3>2. proxies'[n] = p /\ proxy'[p].name = n /\ p <= created'
      BY <1>0, <1>1, <1>6, <1>9
    <3>3. QED
      BY <3>1, <3>2
  <2>3. \A q \in Proxies : q > created' => proxy'[q].phase = "none" /\ ~proxy'[q].recovering
    <3>1. ASSUME NEW q \in Proxies, q > created' PROVE q # p /\ q > created
      BY <1>0, <1>1, <1>3, <2>1, <3>1
    <3>2. QED
      BY <1>5, <3>1 DEF PoolInv, Registry
  <2>4. \A q \in Proxies : MayRun(q)' => proxies'[proxy'[q].name] = q
    <3>1. ~MayRun(p)'
      BY <1>6 DEF MayRun
    <3>2. ASSUME NEW q \in Proxies \ {p}, MayRun(q)' PROVE proxies'[proxy'[q].name] = q
      <4>1. MayRun(q) /\ proxies[proxy[q].name] = q /\ proxy[q].name \in Names
        BY <1>5, <3>2 DEF MayRun, PoolInv, Registry, TypeOK, Proxy
      <4>2. proxy[q].name # n
        BY <1>0, <1>1, <1>2, <4>1 DEF Bound, WorksOn, MayRun
      <4>3. QED
        BY <1>5, <1>9, <4>1, <4>2
    <3>3. QED
      BY <3>1, <3>2
  <2>5. QED
    BY <2>2, <2>3, <2>4 DEF Registry
<1>15. Holds(c)' /\ Remaining(c)'
  BY <1>0, <1>1, <1>2, <1>8, <1>10 DEF Holds, Remaining, Shuts, Alone, Shared, Locked, Guards
<1>16. WorksOn(c)'
  BY <1>1, <1>3, <1>6, <1>8, <1>9, <1>10 DEF Bound, WorksOn
<1>17. p > created
  BY <1>0, <1>3
<1>18. QED
  BY <1>2, <1>9, <1>11, <1>12, <1>13, <1>14, <1>15, <1>16, <1>17, <1>0, InsideStep

LEMMA LaunchInv ==
  ASSUME PoolInv, NEW c \in Callers, Launch(c) PROVE PoolInv'
<1>1. call[c].at = "launch" /\ UNCHANGED <<proxies, shutting_down, proxy, Rest>>
  BY DEF Launch, At
<1>2. CASE Finish(c, "err")
  BY <1>1, <1>2, Ends DEF PoolInv, TypeOK
<1>3. CASE Goto(c, "publish") /\ UNCHANGED Guards
  <2>1. /\ Went(c, "publish") /\ TypeOK' /\ OthersKeep(c) /\ UNCHANGED <<proxies, created>>
        /\ (\A p \in Proxies : Mild(p)) /\ (writer # NoCaller => readers = {})'
    BY <1>1, <1>3, Moves DEF Places, Guards
  <2>2. Holds(c) /\ WorksOn(c) /\ Remaining(c)
    BY Has
  <2>3. Holds(c)' /\ WorksOn(c)' /\ Remaining(c)'
    BY <1>1, <1>3, <2>1, <2>2
       DEF Went, Holds, Bound, WorksOn, Remaining, Shuts, Alone, Shared, Locked, Guards
  <2>4. QED
    BY <2>1, <2>3, QuietStep
<1>4. QED
  BY <1>2, <1>3 DEF Launch

(* A generation is published: its proxy changes and no other.              *)
LEMMA FreshOne ==
  ASSUME PoolInv, NEW p \in Proxies, proxy' = Fresh(p)
  PROVE  /\ proxy' \in [Proxies -> Proxy]
         /\ proxy'[p].name = proxy[p].name /\ proxy'[p].phase = "setup"
         /\ \A q \in Proxies \ {p} : proxy'[q] = proxy[q]
<1>1. proxy[p] \in Proxy
  BY DEF PoolInv, TypeOK
<1>2. /\ proxy'[p] = [proxy[p] EXCEPT !.phase = "setup", !.startup = "none", !.recovering = FALSE,
                                      !.signalled = proxy[p].stop_requested]
      /\ \A q \in Proxies \ {p} : proxy'[q] = proxy[q]
  BY DEF Fresh, PoolInv, TypeOK
<1>3. proxy'[p] \in Proxy /\ proxy'[p].name = proxy[p].name /\ proxy'[p].phase = "setup"
  BY <1>1, <1>2 DEF Proxy
<1>4. proxy' \in [Proxies -> Proxy]
  BY <1>2, <1>3 DEF Fresh, PoolInv, TypeOK
<1>5. QED
  BY <1>2, <1>3, <1>4

(* The proxy that is published may begin to run: it is the one registered. *)
LEMMA RegistryFresh ==
  ASSUME PoolInv, NEW p \in Proxies, proxy' = Fresh(p), UNCHANGED <<proxies, created>>,
         proxies[proxy[p].name] = p
  PROVE  Registry'
<1>1. /\ proxy'[p].name = proxy[p].name /\ proxy'[p].phase = "setup"
      /\ \A q \in Proxies \ {p} : proxy'[q] = proxy[q]
  BY FreshOne
<1>2. proxy[p].name \in Names
  BY DEF PoolInv, TypeOK, Proxy
<1>3. p <= created /\ p \in Nat /\ created \in Nat
  BY <1>2, Endpoints DEF PoolInv, Registry, TypeOK
<1>4. \A q \in Proxies : q > created' => proxy'[q].phase = "none" /\ ~proxy'[q].recovering
  <2>1. ~(p > created)
    BY <1>3
  <2>2. QED
    BY <1>1, <2>1 DEF PoolInv, Registry
<1>5. \A q \in Proxies : MayRun(q)' => proxies'[proxy'[q].name] = q
  BY <1>1 DEF PoolInv, Registry, MayRun
<1>6. \A m \in Names : proxies'[m] \in Proxies =>
        proxy'[proxies'[m]].name = m /\ proxies'[m] <= created'
  BY <1>1 DEF PoolInv, Registry
<1>7. QED
  BY <1>4, <1>5, <1>6 DEF Registry

LEMMA PublishInv ==
  ASSUME PoolInv, NEW c \in Callers, Publish(c) PROVE PoolInv'
<1> DEFINE p == call[c].proxy
<1>1. call[c].at = "publish" /\ UNCHANGED <<proxies, shutting_down, Rest>>
  BY DEF Publish, At
<1>2. /\ p \in Proxies /\ p = proxies[call[c].name] /\ call[c].name \in Names
      /\ Holds(c) /\ WorksOn(c) /\ Remaining(c) /\ Inside(c) /\ ~Shuts(c)
  BY <1>1, Has DEF Bound, WorksOn, Holds, Inside, Shared, Locked, Alone
<1>3. CASE Finish(c, "err") /\ UNCHANGED proxy
  BY <1>1, <1>3, Ends DEF PoolInv, TypeOK
<1>4. CASE Goto(c, "startup") /\ UNCHANGED <<proxy, Guards>>
  <2>1. /\ Went(c, "startup") /\ TypeOK' /\ OthersKeep(c) /\ UNCHANGED <<proxies, created>>
        /\ (\A q \in Proxies : Mild(q)) /\ (writer # NoCaller => readers = {})'
    BY <1>1, <1>4, Moves DEF Places, Guards
  <2>2. Holds(c)' /\ WorksOn(c)' /\ Remaining(c)'
    BY <1>1, <1>2, <1>4, <2>1
       DEF Went, Holds, Bound, WorksOn, Remaining, Shuts, Alone, Shared, Locked, Guards
  <2>3. QED
    BY <2>1, <2>2, QuietStep
<1>5. CASE Goto(c, "startup") /\ proxy' = Fresh(p) /\ UNCHANGED Guards
  <2>1. Went(c, "startup")
    BY <1>5, GoesTo DEF Places, PoolInv
  <2>2. /\ proxy' \in [Proxies -> Proxy] /\ \A q \in Proxies \ {p} : proxy'[q] = proxy[q]
    BY <1>2, <1>5, FreshOne
  <2>3. proxy[p].name = call[c].name
    BY <1>2 DEF PoolInv, Registry
  <2>4. Registry'
    BY <1>1, <1>2, <1>5, <2>3, RegistryFresh DEF Rest
  <2>5. TypeOK'
    BY <1>1, <1>5, <2>1, <2>2 DEF PoolInv, TypeOK, Guards, Rest, Went
  <2>6. OthersKeep(c) /\ (writer # NoCaller => readers = {})'
    BY <1>5, <2>1 DEF PoolInv, OthersKeep, Guards, Gate, Went
  <2>7. Holds(c)' /\ WorksOn(c)' /\ Remaining(c)'
    BY <1>1, <1>2, <1>5, <2>1
       DEF Went, Holds, Bound, WorksOn, Remaining, Shuts, Alone, Shared, Locked, Guards
  <2>8. \A q \in Proxies \ {p} : Mild(q)
    BY <2>2 DEF Mild, MayRun
  <2>9. QED
    BY <1>1, <1>2, <2>4, <2>5, <2>6, <2>7, <2>8, InsideStep
<1>6. QED
  BY <1>3, <1>4, <1>5 DEF Publish

LEMMA AwaitStartupInv ==
  ASSUME PoolInv, NEW c \in Callers, AwaitStartup(c) PROVE PoolInv'
<1>1. /\ call[c].at = "startup" /\ UNCHANGED <<proxies, shutting_down, proxy, Rest>>
      /\ proxy[call[c].proxy].startup # "none" /\ Finish(c, proxy[call[c].proxy].startup)
  BY DEF AwaitStartup, At
<1>2. call[c].proxy \in Proxies
  BY <1>1, Has DEF WorksOn
<1>3. proxy[call[c].proxy].startup \in {"ok", "err"}
  BY <1>1, <1>2 DEF PoolInv, TypeOK, Proxy
<1>4. QED
  BY <1>1, <1>3, Ends DEF PoolInv, TypeOK

LEMMA FlagInv ==
  ASSUME PoolInv, NEW c \in Callers, Flag(c) PROVE PoolInv'
<1>1. /\ call[c].at = "flag" /\ Goto(c, "snapshot") /\ shutting_down' = TRUE
      /\ UNCHANGED <<proxies, Guards, proxy, Rest>>
  BY DEF Flag, At
<1>2. Went(c, "snapshot") /\ Holds(c)
  BY <1>1, GoesTo, Has DEF Places, PoolInv
<1>3. TypeOK'
  BY <1>1, <1>2 DEF PoolInv, TypeOK, Guards, Rest, Went
<1>4. OthersKeep(c) /\ (writer # NoCaller => readers = {})'
  BY <1>1, <1>2 DEF PoolInv, OthersKeep, Guards, Gate, Went
<1>5. Holds(c)' /\ WorksOn(c)' /\ Remaining(c)'
  BY <1>1, <1>2 DEF Went, Holds, Bound, WorksOn, Remaining, Shuts, Alone, Shared, Locked
<1>6. QED
  BY <1>1, <1>3, <1>4, <1>5, SameProxies, QuietStep DEF Rest

LEMMA OwnedType == PoolInv => Owned \subseteq Proxies /\ Registered \subseteq Names
  BY DEF Owned, Registered

LEMMA SnapshotInv ==
  ASSUME PoolInv, NEW c \in Callers, Snapshot(c) PROVE PoolInv'
<1> DEFINE r == [call[c] EXCEPT !.seen = Owned, !.at = "sweep"]
<1>1. /\ call[c].at = "snapshot" /\ call' = [call EXCEPT ![c] = r]
      /\ UNCHANGED <<proxies, Guards, shutting_down, proxy, Rest>>
  BY DEF Snapshot, At
<1>2. call[c] \in Call /\ Holds(c)
  BY Has
<1>3. r \in Call /\ r.op = call[c].op /\ r.at = "sweep"
  BY <1>2, OwnedType DEF Call, Places
<1> HIDE DEF r
<1>4. /\ call' \in [Callers -> Call] /\ call'[c] = r
      /\ OthersKeep(c) /\ (writer # NoCaller => readers = {})'
  BY <1>1, <1>3, Becomes DEF Rest
<1>5. TypeOK'
  BY <1>1, <1>4 DEF PoolInv, TypeOK, Guards, Rest
<1>6. Holds(c)' /\ WorksOn(c)' /\ Remaining(c)'
  BY <1>1, <1>2, <1>3, <1>4 DEF Holds, Bound, WorksOn, Remaining, Shuts, Alone, Shared, Locked
<1>7. QED
  BY <1>1, <1>4, <1>5, <1>6, SameProxies, QuietStep DEF Rest

LEMMA SweepInv ==
  ASSUME PoolInv, NEW c \in Callers, Sweep(c) PROVE PoolInv'
<1>1. /\ call[c].at \in {"sweep", "announce"}
      /\ UNCHANGED <<proxies, Guards, shutting_down, Rest>>
  BY DEF Sweep
<1>2. call[c] \in Call /\ Holds(c) /\ Remaining(c) /\ Shuts(c)
  BY <1>1, Has DEF Holds, Shared, Locked
<1>3. ASSUME NEW p \in call[c].seen, proxy' = Signalled(p), call' = [call EXCEPT ![c].seen = @ \ {p}]
      PROVE  PoolInv'
  <2> DEFINE r == [call[c] EXCEPT !.seen = @ \ {p}]
  <2>1. /\ r \in Call /\ r.op = call[c].op /\ r.at = call[c].at /\ r.todo = call[c].todo
        /\ p \in Proxies
    BY <1>2 DEF Call
  <2>2. call' = [call EXCEPT ![c] = r]
    BY <1>3
  <2> HIDE DEF r
  <2>3. /\ call' \in [Callers -> Call] /\ call'[c] = r
        /\ OthersKeep(c) /\ (writer # NoCaller => readers = {})'
    BY <1>1, <2>1, <2>2, Becomes DEF Rest
  <2>4. proxy' \in [Proxies -> Proxy] /\ \A q \in Proxies : Mild(q)
    BY <1>3, <2>1, Signals
  <2>5. TypeOK'
    BY <1>1, <2>3, <2>4 DEF PoolInv, TypeOK, Guards, Rest
  <2>6. Holds(c)' /\ WorksOn(c)' /\ Remaining(c)'
    BY <1>1, <1>2, <2>1, <2>3 DEF Holds, Bound, WorksOn, Remaining, Shuts, Alone, Guards
  <2>7. QED
    BY <1>1, <2>3, <2>4, <2>5, <2>6, QuietStep DEF Rest
<1>4. ASSUME NEW place \in {"gate", "next"}, Goto(c, place), UNCHANGED proxy,
             call[c].at = "announce" <=> place = "next"
      PROVE  PoolInv'
  <2>1. /\ Went(c, place) /\ TypeOK' /\ OthersKeep(c) /\ UNCHANGED <<proxies, created>>
        /\ (\A p \in Proxies : Mild(p)) /\ (writer # NoCaller => readers = {})'
    BY <1>1, <1>4, Moves DEF Places
  <2>2. Holds(c)' /\ WorksOn(c)' /\ Remaining(c)'
    BY <1>1, <1>2, <1>4, <2>1 DEF Went, Holds, Bound, WorksOn, Remaining, Shuts, Alone, Guards
  <2>3. QED
    BY <2>1, <2>2, QuietStep
<1>5. QED
  BY <1>1, <1>3, <1>4 DEF Sweep, At

LEMMA CollectInv ==
  ASSUME PoolInv, NEW c \in Callers, Collect(c) PROVE PoolInv'
<1> DEFINE r == [call[c] EXCEPT !.seen = Owned, !.todo = Registered, !.at = "announce"]
<1>1. /\ call[c].at = "collect" /\ call' = [call EXCEPT ![c] = r]
      /\ UNCHANGED <<proxies, Guards, shutting_down, proxy, Rest>>
  BY DEF Collect, At
<1>2. call[c] \in Call /\ Holds(c)
  BY Has
<1>3. r \in Call /\ r.op = call[c].op /\ r.at = "announce" /\ r.todo = Registered
  BY <1>2, OwnedType DEF Call, Places
<1> HIDE DEF r
<1>4. /\ call' \in [Callers -> Call] /\ call'[c] = r
      /\ OthersKeep(c) /\ (writer # NoCaller => readers = {})'
  BY <1>1, <1>3, Becomes DEF Rest
<1>5. TypeOK'
  BY <1>1, <1>4 DEF PoolInv, TypeOK, Guards, Rest
<1>6. Holds(c)' /\ WorksOn(c)'
  BY <1>1, <1>2, <1>3, <1>4 DEF Holds, Bound, WorksOn, Shuts, Alone, Shared, Locked, Guards
<1>7. Remaining(c)'
  BY <1>1, <1>3, <1>4 DEF Remaining, Registered
<1>8. QED
  BY <1>1, <1>4, <1>5, <1>6, <1>7, SameProxies, QuietStep DEF Rest

LEMMA StopNextInv ==
  ASSUME PoolInv, NEW c \in Callers, StopNext(c) PROVE PoolInv'
<1>1. call[c].at = "next" /\ UNCHANGED <<proxies, Guards, shutting_down, proxy, Rest>>
  BY DEF StopNext, At
<1>2. call[c] \in Call /\ Holds(c) /\ Remaining(c) /\ Shuts(c)
  BY <1>1, Has DEF Holds, Shared, Locked
<1>3. ASSUME NEW n \in call[c].todo,
             call' = [call EXCEPT ![c].name = n, ![c].todo = @ \ {n}, ![c].proxy = proxies[n],
                        ![c].at = IF proxies[n] = External THEN "remove" ELSE "stop"]
      PROVE  PoolInv'
  <2> DEFINE place == IF proxies[n] = External THEN "remove" ELSE "stop"
             r == [call[c] EXCEPT !.name = n, !.todo = @ \ {n}, !.proxy = proxies[n], !.at = place]
  <2>1. n \in Names /\ proxies[n] \in Proxies \cup {External}
    BY <1>1, <1>2 DEF Call, Remaining, PoolInv, TypeOK
  <2>2. place \in {"remove", "stop"}
    OBVIOUS
  <2>3. /\ r \in Call /\ r.op = call[c].op /\ r.at = place /\ r.todo = call[c].todo \ {n}
        /\ r.name = n /\ r.proxy = proxies[n]
    <3>1. PICK at \in Places : at = place
      BY <2>2 DEF Places
    <3>2. PICK todo \in SUBSET Names, endpoint \in Proxies \cup {External} :
            todo = call[c].todo \ {n} /\ endpoint = proxies[n]
      BY <1>2, <2>1 DEF Call
    <3> HIDE DEF place
    <3>3. PICK z : z = [call[c] EXCEPT !.name = n, !.todo = todo, !.proxy = endpoint, !.at = at]
      OBVIOUS
    <3>4. z \in Call
      BY <1>2, <2>1, <3>3 DEF Call
    <3>5. /\ z.op = call[c].op /\ z.at = at /\ z.todo = todo /\ z.name = n /\ z.proxy = endpoint
      BY <1>2, <3>3 DEF Call
    <3>6. r = z
      BY <3>1, <3>2, <3>3
    <3>7. QED
      BY <3>1, <3>2, <3>4, <3>5, <3>6
  <2>4. call' = [call EXCEPT ![c] = r]
    BY <1>3
  <2> HIDE DEF r
  <2>5. /\ call' \in [Callers -> Call] /\ call'[c] = r
        /\ OthersKeep(c) /\ (writer # NoCaller => readers = {})'
    BY <1>1, <2>3, <2>4, Becomes DEF Rest
  <2>6. TypeOK'
    BY <1>1, <2>5 DEF PoolInv, TypeOK, Guards, Rest
  <2>7. Holds(c)'
    BY <1>1, <1>2, <2>2, <2>3, <2>5 DEF Holds, Shuts, Alone, Guards
  <2>8. WorksOn(c)' /\ Remaining(c)'
    BY <1>1, <1>2, <2>1, <2>3, <2>5, Endpoints DEF Bound, WorksOn, Remaining, Shuts
  <2>9. QED
    BY <1>1, <2>5, <2>6, <2>7, <2>8, SameProxies, QuietStep DEF Rest
<1>4. CASE Goto(c, "close")
  <2>1. /\ Went(c, "close") /\ TypeOK' /\ OthersKeep(c) /\ UNCHANGED <<proxies, created>>
        /\ (\A p \in Proxies : Mild(p)) /\ (writer # NoCaller => readers = {})'
    BY <1>1, <1>4, Moves DEF Places
  <2>2. Holds(c)' /\ WorksOn(c)' /\ Remaining(c)'
    BY <1>1, <1>2, <2>1 DEF Went, Holds, Bound, WorksOn, Remaining, Shuts, Alone, Guards
  <2>3. QED
    BY <2>1, <2>2, QuietStep
<1>5. QED
  BY <1>3, <1>4 DEF StopNext

LEMMA CloseInv ==
  ASSUME PoolInv, NEW c \in Callers, Close(c) PROVE PoolInv'
<1>1. shutting_down' \in BOOLEAN
  BY DEF Close, PoolInv, TypeOK
<1>2. QED
  BY <1>1, Ends DEF Close

LEMMA ExitInv ==
  ASSUME PoolInv, NEW c \in Callers, Exit(c) PROVE PoolInv'
<1>1. exited' = TRUE /\ UNCHANGED <<proxies, Guards, shutting_down, created, proxy, losses, call>>
  BY DEF Exit
<1>2. TypeOK'
  BY <1>1 DEF PoolInv, TypeOK, Guards
<1>3. QED
  BY <1>1, <1>2 DEF PoolInv, Gate, Holds, Shuts, Bound, WorksOn, Remaining, Registry, MayRun, Guards

LEMMA RequestInv ==
  ASSUME PoolInv, NEW c \in Callers, Submit(c) \/ Handle(c) PROVE PoolInv'
  BY SubmitInv, EnterGateInv, LookEarlyInv, SignalEarlyInv, LockOperationInv, AdmitInv,
     ExamineStartInv, EnvironmentFailsInv, ExamineInv, StopProxyInv, AwaitRetirementInv,
     RetirementFailsInv, RemoveInv, CreateInv, RecheckInv, LaunchInv, PublishInv,
     AwaitStartupInv, FlagInv, SnapshotInv, SweepInv, CollectInv, StopNextInv, CloseInv, ExitInv
     DEF Handle

-----------------------------------------------------------------------------
(* The steps of the proxies.                                               *)

LEMMA Turns ==
  ASSUME PoolInv, NEW p \in Proxies, proxy[p].phase # "none",
         NEW phase \in {"none", "setup", "running", "closing", "failed"},
         NEW startup \in {"none", "ok", "err"}, Turn(p, phase, startup)
  PROVE  proxy' \in [Proxies -> Proxy] /\ \A q \in Proxies : Mild(q)
<1>1. proxy[p] \in Proxy
  BY DEF PoolInv, TypeOK
<1>2. /\ proxy'[p] = [proxy[p] EXCEPT !.phase = phase, !.startup = startup]
      /\ \A q \in Proxies \ {p} : proxy'[q] = proxy[q]
  BY DEF Turn, PoolInv, TypeOK
<1>3. /\ proxy'[p] \in Proxy /\ proxy'[p].name = proxy[p].name
      /\ proxy'[p].signalled = proxy[p].signalled
  BY <1>1, <1>2 DEF Proxy
<1>4. proxy' \in [Proxies -> Proxy]
  BY <1>2, <1>3 DEF Turn, PoolInv, TypeOK
<1>5. QED
  BY <1>2, <1>3, <1>4 DEF Mild, MayRun

(* Steps of a proxy that leave the registry as it is.                      *)
LEMMA ProxyStep ==
  ASSUME PoolInv, UNCHANGED Beside, losses' \in 0 .. MaxLosses, proxy' \in [Proxies -> Proxy],
         Registry', \A d \in Callers : call[d].at \in Bound /\ call[d].proxy \in Proxies
                                         => Mild(call[d].proxy)
  PROVE  PoolInv'
<1>1. TypeOK'
  BY DEF PoolInv, TypeOK, Beside, Guards
<1>2. Gate'
  BY DEF PoolInv, Gate, Holds, Shuts, Beside, Guards
<1>3. \A d \in Callers : WorksOn(d)' /\ Remaining(d)'
  BY OtherWorks DEF Beside
<1>4. QED
  BY <1>1, <1>2, <1>3 DEF PoolInv

LEMMA RecoversInv ==
  ASSUME PoolInv, NEW p \in Proxies, Recovers(p) PROVE PoolInv'
<1>1. /\ proxy[p].phase = "none" /\ proxy[p].recovering /\ proxy[p] \in Proxy
      /\ UNCHANGED Beside /\ losses' \in 0 .. MaxLosses
  BY DEF Recovers, PoolInv, TypeOK
<1>2. CASE proxy' = [proxy EXCEPT ![p].recovering = FALSE]
  <2>1. /\ proxy'[p] = [proxy[p] EXCEPT !.recovering = FALSE]
        /\ \A q \in Proxies \ {p} : proxy'[q] = proxy[q]
    BY <1>2 DEF PoolInv, TypeOK
  <2>2. /\ proxy'[p] \in Proxy /\ proxy'[p].name = proxy[p].name
        /\ proxy'[p].signalled = proxy[p].signalled /\ proxy'[p].phase = proxy[p].phase
        /\ ~proxy'[p].recovering
    <3>1. [proxy[p] EXCEPT !.recovering = FALSE] \in Proxy
      BY <1>1 DEF Proxy
    <3>2. proxy'[p].recovering = FALSE
      BY <1>1, <2>1, Zenon DEF Proxy
    <3>3. QED
      BY <1>1, <2>1, <3>1, <3>2 DEF Proxy
  <2>3. proxy' \in [Proxies -> Proxy] /\ \A q \in Proxies : Mild(q)
    BY <1>2, <2>1, <2>2 DEF Mild, MayRun, PoolInv, TypeOK
  <2>4. QED
    BY <1>1, <2>3, RegistryKept, ProxyStep DEF Beside
<1>3. CASE proxy' = Fresh(p) /\ ~proxy[p].signalled
  <2>1. /\ proxy' \in [Proxies -> Proxy] /\ \A q \in Proxies \ {p} : proxy'[q] = proxy[q]
    BY <1>3, FreshOne
  <2>2. proxies[proxy[p].name] = p
    BY <1>1, <1>3 DEF PoolInv, Registry, MayRun
  <2>3. Registry'
    BY <1>1, <1>3, <2>2, RegistryFresh DEF Beside
  <2>4. ASSUME NEW d \in Callers, call[d].at \in Bound, call[d].proxy = p
        PROVE  call[d].at \in {"stop", "launch", "publish", "startup"}
    BY <1>1, <1>3, <2>4, Has DEF Bound, WorksOn
  <2>5. QED
    <3>1. TypeOK'
      BY <1>1, <2>1 DEF PoolInv, TypeOK, Beside, Guards
    <3>2. Gate'
      BY <1>1 DEF PoolInv, Gate, Holds, Shuts, Beside, Guards
    <3>3. \A d \in Callers : Remaining(d)'
      BY <1>1 DEF PoolInv, Remaining, Shuts, Beside
    <3>4. ASSUME NEW d \in Callers PROVE WorksOn(d)'
      <4>1. WorksOn(d) /\ UNCHANGED <<call, proxies>>
        BY <1>1, Has DEF Beside
      <4>2. CASE call[d].at \in Bound /\ call[d].proxy = p
        BY <2>4, <4>1, <4>2 DEF WorksOn
      <4>3. CASE call[d].at \notin Bound
        BY <4>1, <4>3 DEF WorksOn, Bound
      <4>4. CASE call[d].proxy # p
        BY <2>1, <4>1, <4>4 DEF WorksOn
      <4>5. QED
        BY <4>2, <4>3, <4>4
    <3>5. QED
      BY <2>3, <3>1, <3>2, <3>3, <3>4 DEF PoolInv
<1>4. QED
  BY <1>2, <1>3 DEF Recovers

LEMMA WorkInv ==
  ASSUME PoolInv, NEW p \in Proxies, Work(p) \/ UpstreamExits(p) \/ SessionLost(p)
  PROVE  PoolInv'
<1>1. proxy[p].startup \in {"none", "ok", "err"} /\ proxy[p] \in Proxy
  BY DEF PoolInv, TypeOK, Proxy
<1>2. ASSUME UNCHANGED Beside, losses' \in 0 .. MaxLosses, proxy' \in [Proxies -> Proxy],
             \A q \in Proxies : Mild(q)
      PROVE  PoolInv'
  BY <1>2, RegistryKept, ProxyStep DEF Beside
<1>3. losses \in 0 .. MaxLosses
  BY DEF PoolInv, TypeOK
<1>4. CASE SetupEnds(p)
  BY <1>1, <1>2, <1>3, <1>4, Turns DEF SetupEnds
<1>5. CASE SignalTaken(p)
  BY <1>1, <1>2, <1>3, <1>5, Turns DEF SignalTaken
<1>6. CASE UpstreamExits(p)
  BY <1>1, <1>2, <1>3, <1>6, Turns DEF UpstreamExits
<1>7. CASE Retires(p)
  BY <1>1, <1>2, <1>3, <1>7, Turns DEF Retires
<1>8. CASE SessionLost(p)
  <2>1. /\ proxy'[p] = [proxy[p] EXCEPT !.phase = "closing", !.recovering = TRUE]
        /\ \A q \in Proxies \ {p} : proxy'[q] = proxy[q]
    BY <1>8 DEF SessionLost, PoolInv, TypeOK
  <2>2. /\ proxy'[p] \in Proxy /\ proxy'[p].name = proxy[p].name
        /\ proxy'[p].signalled = proxy[p].signalled /\ proxy[p].phase # "none"
    <3>1. [proxy[p] EXCEPT !.phase = "closing", !.recovering = TRUE] \in Proxy
      BY <1>1 DEF Proxy
    <3>2. proxy'[p] \in Proxy
      BY <2>1, <3>1
    <3>3. proxy'[p].name = proxy[p].name
      BY <1>1, <2>1 DEF Proxy
    <3>4. proxy'[p].signalled = proxy[p].signalled
      BY <1>1, <2>1, Zenon DEF Proxy
    <3>5. proxy[p].phase # "none"
      BY <1>8 DEF SessionLost
    <3>6. QED
      BY <3>2, <3>3, <3>4, <3>5
  <2>3. proxy' \in [Proxies -> Proxy] /\ \A q \in Proxies : Mild(q)
    BY <1>8, <2>1, <2>2 DEF Mild, MayRun, PoolInv, TypeOK, SessionLost
  <2>4. losses' \in 0 .. MaxLosses /\ UNCHANGED Beside
    BY <1>3, <1>8 DEF SessionLost
  <2>5. QED
    BY <1>2, <2>3, <2>4
<1>9. QED
  BY <1>4, <1>5, <1>6, <1>7, <1>8, RecoversInv DEF Work

-----------------------------------------------------------------------------
(* Theorems.                                                               *)

LEMMA InvInit == Init => PoolInv
<1> SUFFICES ASSUME Init PROVE PoolInv
  OBVIOUS
<1>1. proxies \in [Names -> {Absent, External}] /\ \A n \in Names : proxies[n] \notin Proxies
  BY Endpoints DEF Init
<1>2. call \in [Callers -> Call] /\ \A c \in Callers : call[c].at = "idle" /\ call[c].op = "none"
  BY Chosen DEF Init, Call, Places
<1>3. /\ proxy \in [Proxies -> Proxy]
      /\ \A p \in Proxies : proxy[p].phase = "none" /\ ~proxy[p].recovering
  BY Chosen DEF Init, Proxy
<1>4. TypeOK
  <2>1. 0 \in 0 .. MaxProxies /\ 0 \in 0 .. MaxLosses
    OBVIOUS
  <2>2. locks \in [Names -> Callers \cup {NoCaller}]
    BY DEF Init
  <2>3. QED
    BY <1>1, <1>2, <1>3, <2>1, <2>2 DEF Init, TypeOK
<1>5. Gate
  BY <1>2 DEF Init, Gate, Holds, Shuts, Shared, Locked
<1>6. \A c \in Callers : WorksOn(c) /\ Remaining(c)
  BY <1>2 DEF Bound, WorksOn, Remaining, Shuts
<1>7. Registry
  BY <1>1, <1>3 DEF Registry, MayRun
<1>8. QED
  BY <1>4, <1>5, <1>6, <1>7 DEF PoolInv

LEMMA PoolInvariant == Spec => []PoolInv
<1>1. PoolInv /\ [Next]_vars => PoolInv'
  <2>1. ASSUME PoolInv, UNCHANGED vars PROVE PoolInv'
    BY <2>1 DEF vars, PoolInv, TypeOK, Gate, Holds, Shuts, Bound, WorksOn, Remaining, Registry, MayRun
  <2>2. QED
    BY <2>1, RequestInv, WorkInv DEF Next, AtRest
<1>2. QED
  BY <1>1, InvInit, PTL DEF Spec

(* TypeOK: the registry, the gate, the locks, every proxy and every request *)
(* have one of the values that pool.rs can give them.                      *)
THEOREM TypeCorrect == Spec => []TypeOK
<1>1. PoolInv => TypeOK
  BY DEF PoolInv
<1>2. QED
  BY <1>1, PoolInvariant, PTL

(* LiveIsRegistered: whatever may be running is the endpoint registered    *)
(* under its name, through any interleaving of starts, stops, restarts,    *)
(* shutdowns, recoveries and failed retirements.                           *)
THEOREM LiveCorrect == Spec => []LiveIsRegistered
<1>1. PoolInv => LiveIsRegistered
  BY DEF PoolInv, Registry, MayRun, LiveIsRegistered, Live
<1>2. QED
  BY <1>1, PoolInvariant, PTL

-----------------------------------------------------------------------------
(* The invariant.                                                          *)

(* A retirement could not be verified.  Nothing but an exit of the daemon  *)
(* undoes that, and it is why a shutdown that failed cannot be followed by *)
(* one that succeeds after requests have been admitted again.              *)
Failed == \E p \in Proxies : proxy[p].phase = "failed"

AllGone == \A n \in Names : proxies[n] = Absent

Owed(c) ==
  /\ call[c].failure => Failed
  /\ Shuts(c) /\ call[c].at # "flag" => shutting_down \/ Failed
  /\ call[c].result = "ok" => call[c].at = "done"

(* Behind the gate a shutdown tells everything that may run to stop ...    *)
Swept(c) ==
  Shuts(c) =>
    /\ call[c].at = "announce"
         => \A p \in Proxies : MayRun(p) => proxy[p].signalled \/ p \in call[c].seen
    /\ call[c].at \in {"next", "stop", "retire", "remove"}
         => \A p \in Proxies : MayRun(p) => proxy[p].signalled

(* ... and what is registered is what it has still to stop.                *)
Counted(c) ==
  Shuts(c) /\ ~call[c].failure =>
    /\ call[c].at \in {"announce", "next", "stop", "retire", "remove"}
         => \A n \in Names : \/ proxies[n] = Absent \/ n \in call[c].todo
                             \/ call[c].at \in {"stop", "retire", "remove"} /\ n = call[c].name
    /\ call[c].at = "close" => AllGone

(* A shutdown has succeeded, and no other request can register a server.   *)
Over(c) == Shuts(c) /\ call[c].result = "ok"
Behind(d) ==
  ~Shuts(d) => call[d].at \notin Bound /\ (call[d].at = "examine" => call[d].op # "start")
Ended == AllGone /\ \A d \in Callers : Behind(d)

ShutInv ==
  /\ \A c \in Callers : Owed(c) /\ Swept(c) /\ Counted(c)
  /\ (\E c \in Callers : Over(c)) => Ended

-----------------------------------------------------------------------------
(* Steps of the proxies.                                                   *)

(* A proxy begins to run by itself only if it might.                       *)
LEMMA WorkMild ==
  ASSUME PoolInv, NEW p \in Proxies, Work(p) \/ UpstreamExits(p) \/ SessionLost(p)
  PROVE  UNCHANGED Beside /\ \A q \in Proxies : Mild(q)
<1>1. proxy[p].startup \in {"none", "ok", "err"} /\ proxy[p] \in Proxy
  BY DEF PoolInv, TypeOK, Proxy
<1>2. CASE SetupEnds(p)
  BY <1>1, <1>2, Turns DEF SetupEnds
<1>3. CASE SignalTaken(p)
  BY <1>1, <1>3, Turns DEF SignalTaken
<1>4. CASE UpstreamExits(p)
  BY <1>1, <1>4, Turns DEF UpstreamExits
<1>5. CASE Retires(p)
  BY <1>1, <1>5, Turns DEF Retires
<1>6. CASE SessionLost(p)
  <2>1. /\ proxy'[p] = [proxy[p] EXCEPT !.phase = "closing", !.recovering = TRUE]
        /\ \A q \in Proxies \ {p} : proxy'[q] = proxy[q]
    BY <1>6 DEF SessionLost, PoolInv, TypeOK
  <2>2. proxy'[p].name = proxy[p].name
    BY <1>1, <2>1 DEF Proxy
  <2>3. proxy'[p].signalled = proxy[p].signalled
    BY <1>1, <2>1, Zenon DEF Proxy
  <2>4. proxy[p].phase = "running" /\ UNCHANGED Beside
    BY <1>6 DEF SessionLost
  <2>5. QED
    BY <2>1, <2>2, <2>3, <2>4 DEF Mild, MayRun
<1>7. CASE Recovers(p)
  <2>1. proxy[p].phase = "none" /\ proxy[p].recovering /\ UNCHANGED Beside
    BY <1>7 DEF Recovers
  <2>2. CASE proxy' = [proxy EXCEPT ![p].recovering = FALSE]
    <3>1. /\ proxy'[p] = [proxy[p] EXCEPT !.recovering = FALSE]
          /\ \A q \in Proxies \ {p} : proxy'[q] = proxy[q]
      BY <2>2 DEF PoolInv, TypeOK
    <3>2. proxy'[p].name = proxy[p].name /\ proxy'[p].phase = proxy[p].phase
      BY <1>1, <3>1 DEF Proxy
    <3>3. proxy'[p].signalled = proxy[p].signalled /\ proxy'[p].recovering = FALSE
      BY <1>1, <3>1, Zenon DEF Proxy
    <3>4. QED
      BY <2>1, <3>1, <3>2, <3>3 DEF Mild, MayRun
  <2>3. CASE proxy' = Fresh(p) /\ ~proxy[p].signalled
    BY <2>1, <2>3, FreshOne DEF Mild, MayRun
  <2>4. QED
    BY <1>7, <2>1, <2>2, <2>3 DEF Recovers
<1>8. QED
  BY <1>2, <1>3, <1>4, <1>5, <1>6, <1>7 DEF Work

(* A change of some other field of one proxy keeps every phase.            *)
LEMMA SamePhases ==
  ASSUME PoolInv, NEW p,
         \/ proxy' = Signalled(p)
         \/ proxy' = [proxy EXCEPT ![p].signalled = TRUE]
         \/ proxy' = [proxy EXCEPT ![p].stop_requested = FALSE]
         \/ \E n \in Names, e \in Entries : proxy' = [proxy EXCEPT ![p].name = n, ![p].entry = e]
  PROVE  \A q \in Proxies : proxy'[q].phase = proxy[q].phase
<1> SUFFICES ASSUME NEW q \in Proxies PROVE proxy'[q].phase = proxy[q].phase
  OBVIOUS
<1>1. proxy[q] \in Proxy /\ proxy \in [Proxies -> Proxy]
  BY DEF PoolInv, TypeOK
<1>2. CASE proxy' = Signalled(p)
  <2>1. \/ proxy'[q] = proxy[q]
        \/ proxy'[q] = [proxy[q] EXCEPT !.stop_requested = TRUE, !.signalled = TRUE]
    BY <1>1, <1>2 DEF Signalled
  <2>2. QED
    BY <1>1, <2>1 DEF Proxy
<1>3. CASE proxy' = [proxy EXCEPT ![p].signalled = TRUE]
  BY <1>1, <1>3 DEF Proxy
<1>4. CASE proxy' = [proxy EXCEPT ![p].stop_requested = FALSE]
  BY <1>1, <1>4 DEF Proxy
<1>5. CASE \E n \in Names, e \in Entries : proxy' = [proxy EXCEPT ![p].name = n, ![p].entry = e]
  <2>1. PICK n \in Names, e \in Entries : proxy' = [proxy EXCEPT ![p].name = n, ![p].entry = e]
    BY <1>5
  <2>2. proxy'[q] = proxy[q] \/ proxy'[q] = [proxy[q] EXCEPT !.name = n, !.entry = e]
    BY <1>1, <2>1
  <2>3. QED
    BY <1>1, <2>2 DEF Proxy
<1>6. QED
  BY <1>2, <1>3, <1>4, <1>5

(* An unverified retirement stays so.                                      *)
LEMMA StaysFailed ==
  ASSUME PoolInv, Next, Failed PROVE Failed'
<1>1. PICK q \in Proxies : proxy[q].phase = "failed"
  BY DEF Failed
<1>2. proxy \in [Proxies -> Proxy] /\ proxy[q] \in Proxy
  BY DEF PoolInv, TypeOK
<1> SUFFICES proxy'[q].phase = "failed"
  BY DEF Failed
<1>3. ASSUME NEW c \in Callers, Submit(c) \/ Handle(c) PROVE proxy'[q].phase = "failed"
  <2>1. CASE SignalEarly(c) \/ StopProxy(c) \/ AwaitRetirement(c) \/ Sweep(c) \/ Create(c)
    <3>1. CASE SignalEarly(c)
      BY <1>1, <3>1, SamePhases DEF SignalEarly
    <3>2. CASE StopProxy(c)
      BY <1>1, <3>2, SamePhases DEF StopProxy
    <3>3. CASE AwaitRetirement(c)
      BY <1>1, <3>3, SamePhases DEF AwaitRetirement
    <3>4. CASE Sweep(c)
      BY <1>1, <3>4, SamePhases DEF Sweep
    <3>5. CASE Create(c)
      <4>1. call[c].name \in Names /\ call[c].entry \in Entries
        BY DEF PoolInv, TypeOK, Call
      <4>2. QED
        BY <1>1, <3>5, <4>1, SamePhases DEF Create, NameOf
    <3>6. QED
      BY <2>1, <3>1, <3>2, <3>3, <3>4, <3>5
  <2>2. CASE Publish(c)
    <3> DEFINE p == call[c].proxy
    <3>1. CASE proxy' = proxy
      BY <1>1, <3>1
    <3>2. CASE proxy[p].phase = "none" /\ proxy' = Fresh(p)
      <4>1. p \in Proxies
        BY <2>2, Has DEF Publish, At, WorksOn
      <4>2. QED
        BY <1>1, <3>2, <4>1, FreshOne
    <3>3. QED
      BY <2>2, <3>1, <3>2 DEF Publish
  <2>3. CASE proxy' = proxy
    BY <1>1, <2>3
  <2>4. Handle(c) \/ Submit(c) => \/ proxy' = proxy \/ Publish(c) \/ SignalEarly(c) \/ StopProxy(c)
                               \/ AwaitRetirement(c) \/ Sweep(c) \/ Create(c)
    BY DEF Handle, Submit, EnterGate, LookEarly, LockOperation, Admit, ExamineStart,
           EnvironmentFails, Examine, RetirementFails, Remove, Recheck, Launch, AwaitStartup,
           Flag, Snapshot, Collect, StopNext, Close, Exit
  <2>5. QED
    BY <1>3, <2>1, <2>2, <2>3, <2>4
<1>4. ASSUME NEW p \in Proxies, Work(p) \/ UpstreamExits(p) \/ SessionLost(p)
      PROVE  proxy'[q].phase = "failed"
  <2>1. proxy[p].phase # "failed"
    BY <1>4 DEF Work, SetupEnds, SignalTaken, Retires, Recovers, UpstreamExits, SessionLost
  <2>2. proxy'[q] = proxy[q]
    BY <1>1, <1>2, <1>4, <2>1
       DEF Work, SetupEnds, SignalTaken, Retires, Recovers, UpstreamExits, SessionLost, Turn, Fresh
  <2>3. QED
    BY <1>1, <2>2
<1>5. QED
  BY <1>1, <1>3, <1>4 DEF Next, AtRest, vars

-----------------------------------------------------------------------------
(* What one step leaves of the invariant.                                  *)

(* Once a shutdown has succeeded, start and restart are refused.           *)
LEMMA EndedIsFlagged ==
  ASSUME PoolInv, ShutInv, \E c \in Callers : Over(c)
  PROVE  Ended /\ ~Failed /\ shutting_down
<1>1. PICK c \in Callers : Over(c)
  OBVIOUS
<1>2. Ended /\ Owed(c)
  BY <1>1 DEF ShutInv
<1>3. ~Failed
  <2>1. ASSUME NEW p \in Proxies, proxy[p].phase = "failed" PROVE FALSE
    <3>1. proxies[proxy[p].name] = p /\ proxy[p].name \in Names
      BY <2>1 DEF PoolInv, Registry, MayRun, TypeOK, Proxy
    <3>2. QED
      BY <1>2, <3>1, Endpoints DEF Ended, AllGone
  <2>2. QED
    BY <2>1 DEF Failed
<1>4. QED
  BY <1>1, <1>2, <1>3 DEF Over, Owed

(* Behind the gate a shutdown is alone.                                    *)
LEMMA AloneBehindGate ==
  ASSUME PoolInv, NEW c \in Callers, NEW d \in Callers \ {c}, Shuts(d), call[d].at \in Alone
  PROVE  ~Inside(c) /\ call[c].at \notin Shared \ Alone
<1>1. Holds(c) /\ Holds(d) /\ writer = d /\ readers = {}
  BY Endpoints, Has DEF PoolInv, Gate, Holds
<1>2. QED
  BY <1>1 DEF Holds, Inside, Shared, Locked, Alone

(* What a shutdown knows stays true in the steps of the others.            *)
LEMMA OtherShuts ==
  ASSUME PoolInv, ShutInv, NEW d \in Callers, call'[d] = call[d], Failed => Failed',
         shutting_down => shutting_down' \/ Failed',
         Shuts(d) /\ call[d].at \in Alone => UNCHANGED proxies /\ \A p \in Proxies : Mild(p)
  PROVE  Owed(d)' /\ Swept(d)' /\ Counted(d)'
<1>1. Owed(d) /\ Swept(d) /\ Counted(d)
  BY DEF ShutInv
<1>2. Owed(d)'
  BY <1>1 DEF Owed, Shuts
<1>3. Swept(d)'
  BY <1>1 DEF Swept, Shuts, Mild, Alone
<1>4. Counted(d)'
  BY <1>1 DEF Counted, Shuts, AllGone, Alone
<1>5. QED
  BY <1>2, <1>3, <1>4

(* A step of a start, stop or restart.                                     *)
LEMMA RequestKeeps ==
  ASSUME PoolInv, ShutInv, NEW c \in Callers, ~Shuts(c), Failed => Failed',
         \A d \in Callers \ {c} : call'[d] = call[d],
         call'[c].op = call[c].op, call'[c].failure = call[c].failure,
         call'[c].result = "ok" => call'[c].at = "done",
         shutting_down' = shutting_down,
         call[c].at \in Bound \/ (UNCHANGED proxies /\ \A p \in Proxies : Mild(p)),
         call[c].at \notin Bound /\ shutting_down /\ Ended => Behind(c)'
  PROVE  ShutInv'
<1>1. ASSUME NEW d \in Callers \ {c}, Shuts(d), call[d].at \in Alone
      PROVE  call[c].at \notin Bound
  <2>1. Holds(c)
    BY Has
  <2>2. QED
    BY <1>1, <2>1, AloneBehindGate DEF Holds, Inside, Bound, Shared, Locked
<1>2. \A d \in Callers \ {c} : Owed(d)' /\ Swept(d)' /\ Counted(d)'
  BY <1>1, OtherShuts
<1>3. Owed(c)' /\ Swept(c)' /\ Counted(c)'
  BY DEF ShutInv, Owed, Swept, Counted, Shuts
<1>4. ASSUME \E e \in Callers : Over(e)' PROVE Ended'
  <2>1. \E e \in Callers : Over(e)
    BY <1>4 DEF Over, Shuts
  <2>2. Ended /\ shutting_down
    BY <2>1, EndedIsFlagged
  <2>3. call[c].at \notin Bound /\ AllGone'
    BY <2>2 DEF Ended, Behind, AllGone
  <2>4. \A d \in Callers \ {c} : Behind(d)'
    BY <2>2 DEF Ended, Behind, Shuts
  <2>5. QED
    BY <2>2, <2>3, <2>4 DEF Ended
<1>5. QED
  BY <1>2, <1>3, <1>4 DEF ShutInv

(* A step of a shutdown.                                                   *)
LEMMA ShutdownKeeps ==
  ASSUME PoolInv, ShutInv, NEW c \in Callers, Shuts(c), Failed => Failed',
         \A d \in Callers \ {c} : call'[d] = call[d],
         call'[c].op = call[c].op, \A p \in Proxies : Mild(p),
         call[c].at \in Alone \/ UNCHANGED proxies,
         AllGone => AllGone', shutting_down => shutting_down' \/ Failed',
         Owed(c)', Swept(c)', Counted(c)', Over(c)' => Over(c) \/ Ended'
  PROVE  ShutInv'
<1>1. ASSUME NEW d \in Callers \ {c}, Shuts(d), call[d].at \in Alone
      PROVE  call[c].at \notin Alone
  BY <1>1, AloneBehindGate DEF Inside
<1>2. \A d \in Callers \ {c} : Owed(d)' /\ Swept(d)' /\ Counted(d)'
  BY <1>1, OtherShuts
<1>3. ASSUME \E e \in Callers : Over(e)' PROVE Ended'
  <2>1. CASE \E e \in Callers : Over(e)
    <3>1. Ended
      BY <2>1 DEF ShutInv
    <3>2. QED
      BY <3>1 DEF Ended, Behind, Shuts
  <2>2. CASE \A e \in Callers : ~Over(e)
    BY <1>3, <2>2 DEF Over, Shuts
  <2>3. QED
    BY <2>1, <2>2
<1>4. QED
  BY <1>2, <1>3 DEF ShutInv

-----------------------------------------------------------------------------
(* The steps of a start, stop or restart.                                  *)

LEMMA FinishFields ==
  ASSUME PoolInv, NEW c \in Callers, NEW outcome \in {"ok", "err"}, Finish(c, outcome)
  PROVE  /\ call'[c].at = "done" /\ call'[c].result = outcome
         /\ call'[c].op = call[c].op /\ call'[c].failure = call[c].failure
         /\ \A d \in Callers \ {c} : call'[d] = call[d]
<1>1. call[c] \in Call /\ call'[c] = [call[c] EXCEPT !.at = "done", !.result = outcome]
  BY DEF PoolInv, TypeOK, Finish
<1>2. call'[c].failure = call[c].failure
  BY <1>1, Zenon DEF Call
<1>3. QED
  BY <1>2, Finishes DEF PoolInv

(* It ends ...                                                             *)
LEMMA EndsKeeps ==
  ASSUME PoolInv, ShutInv, NEW c \in Callers, ~Shuts(c), Failed => Failed',
         NEW outcome \in {"ok", "err"}, Finish(c, outcome), shutting_down' = shutting_down,
         call[c].at \in Bound \/ UNCHANGED <<proxies, proxy>>
  PROVE  ShutInv'
<1>1. Behind(c)'
  BY FinishFields DEF Behind, Bound
<1>2. QED
  BY <1>1, FinishFields, SameProxies, RequestKeeps

(* ... or it goes on.                                                      *)
LEMMA MovesKeeps ==
  ASSUME PoolInv, ShutInv, NEW c \in Callers, ~Shuts(c), Failed => Failed',
         NEW place, Went(c, place), call[c].at # "done",
         shutting_down' = shutting_down,
         call[c].at \in Bound \/ (UNCHANGED proxies /\ \A p \in Proxies : Mild(p)),
         call[c].at \notin Bound /\ shutting_down /\ Ended
           => place \notin Bound /\ (place = "examine" => call[c].op # "start")
  PROVE  ShutInv'
<1>1. call[c].result # "ok"
  BY DEF ShutInv, Owed
<1>2. /\ call'[c].op = call[c].op /\ call'[c].failure = call[c].failure
      /\ call'[c].result # "ok" /\ call'[c].at = place
      /\ \A d \in Callers \ {c} : call'[d] = call[d]
  BY <1>1 DEF Went
<1>3. call[c].at \notin Bound /\ shutting_down /\ Ended => Behind(c)'
  BY <1>2 DEF Behind, Shuts
<1>4. QED
  BY <1>2, <1>3, RequestKeeps

(* It goes on with the endpoint that it has found.                         *)
LEMMA TakesKeeps ==
  ASSUME PoolInv, ShutInv, NEW c \in Callers, ~Shuts(c), Failed => Failed',
         NEW p \in Proxies \cup {Absent, External}, NEW place \in Places, call' = [call EXCEPT ![c].proxy = p, ![c].at = place],
         call[c].at # "done", shutting_down' = shutting_down,
         call[c].at \in Bound \/ UNCHANGED <<proxies, proxy>>,
         call[c].at \notin Bound /\ shutting_down /\ Ended
           => place \notin Bound /\ (place = "examine" => call[c].op # "start")
  PROVE  ShutInv'
<1> DEFINE r == [call[c] EXCEPT !.proxy = p, !.at = place]
<1>1. call[c] \in Call /\ call[c].result # "ok"
  BY Has DEF ShutInv, Owed
<1>2. /\ r.op = call[c].op /\ r.failure = call[c].failure
      /\ r.result = call[c].result /\ r.at = place
  BY <1>1 DEF Call, Places
<1>3. call'[c] = r /\ \A d \in Callers \ {c} : call'[d] = call[d]
  BY DEF PoolInv, TypeOK
<1> HIDE DEF r
<1>4. call[c].at \notin Bound /\ shutting_down /\ Ended => Behind(c)'
  BY <1>2, <1>3 DEF Behind, Shuts
<1>5. call[c].at \in Bound \/ (UNCHANGED proxies /\ \A q \in Proxies : Mild(q))
  BY SameProxies
<1>6. QED
  BY <1>1, <1>2, <1>3, <1>4, <1>5, RequestKeeps

LEMMA RequestShuts ==
  ASSUME PoolInv, ShutInv, NEW c \in Callers, ~Shuts(c), Failed => Failed', Handle(c)
  PROVE  ShutInv'
<1> USE DEF At, NameOf
<1>0. TypeOK /\ call[c].name \in Names
  BY Has DEF PoolInv
<1>1. CASE EnterGate(c)
  <2>1. PICK place \in {"early", "operation"} : Goto(c, place)
    BY <1>1 DEF EnterGate, Shuts
  <2>2. Went(c, place)
    BY <1>0, <2>1, GoesTo DEF Places
  <2>3. QED
    BY <1>1, <2>2, SameProxies, MovesKeeps DEF EnterGate, Bound
<1>2. CASE LookEarly(c)
  <2>1. PICK place \in {"signal", "operation"} :
          call' = [call EXCEPT ![c].proxy = proxies[call[c].name], ![c].at = place]
    BY <1>2 DEF LookEarly
  <2>2. /\ call[c].at = "early" /\ UNCHANGED <<proxies, proxy, shutting_down>>
        /\ place \in Places /\ place \notin Bound /\ place # "examine"
    BY <1>2 DEF LookEarly, Places, Bound
  <2>3. PICK p \in Proxies \cup {Absent, External} : p = proxies[call[c].name]
    BY Has
  <2>4. call' = [call EXCEPT ![c].proxy = p, ![c].at = place]
    BY <2>1, <2>3
  <2>5. QED
    BY <2>2, <2>4, TakesKeeps
<1>3. CASE SignalEarly(c)
  <2>1. Went(c, "operation")
    BY <1>0, <1>3, GoesTo DEF Places, SignalEarly
  <2>2. \A p \in Proxies : Mild(p)
    BY <1>3, Has, Signals DEF SignalEarly, WorksOn
  <2>3. QED
    BY <1>3, <2>1, <2>2, MovesKeeps DEF SignalEarly, Bound
<1>4. CASE LockOperation(c)
  <2>1. PICK place \in {"examine", "admit"} :
          Goto(c, place) /\ (place = "examine" => call[c].op = "stop")
    BY <1>4 DEF LockOperation
  <2>2. Went(c, place)
    BY <1>0, <2>1, GoesTo DEF Places
  <2>3. QED
    BY <1>4, <2>1, <2>2, SameProxies, MovesKeeps DEF LockOperation, Bound
<1>5. CASE Admit(c)
  <2>1. CASE Finish(c, "err")
    BY <1>5, <2>1, EndsKeeps DEF Admit
  <2>2. CASE ~shutting_down /\ Goto(c, "examine")
    <3>1. Went(c, "examine")
      BY <1>0, <2>2, GoesTo DEF Places
    <3>2. QED
      BY <1>5, <2>2, <3>1, SameProxies, MovesKeeps DEF Admit
  <2>3. QED
    BY <1>5, <2>1, <2>2 DEF Admit
<1>6. CASE ExamineStart(c)
  <2>1. call[c].at = "examine" /\ call[c].op = "start" /\ UNCHANGED <<proxies, shutting_down, proxy>>
    BY <1>6 DEF ExamineStart
  <2>2. CASE Finish(c, "ok") \/ Finish(c, "err")
    BY <2>1, <2>2, EndsKeeps
  <2>3. CASE \E p \in Proxies \cup {Absent, External}, place \in Places :
               call' = [call EXCEPT ![c].proxy = p, ![c].at = place]
    <3>1. ~Ended
      BY <2>1 DEF Ended, Behind
    <3>2. QED
      BY <2>1, <2>3, <3>1, TakesKeeps
  <2>4. QED
    BY <1>6, <2>2, <2>3, Has DEF ExamineStart, Places
<1>7. CASE EnvironmentFails(c)
  BY <1>7, EndsKeeps DEF EnvironmentFails
<1>8. CASE Examine(c)
  <2>1. call[c].at = "examine" /\ UNCHANGED <<proxies, shutting_down, proxy>>
    BY <1>8 DEF Examine
  <2>2. CASE Finish(c, "ok")
    BY <2>1, <2>2, EndsKeeps
  <2>3. CASE /\ proxies[call[c].name] # Absent
             /\ \E p \in Proxies \cup {Absent, External}, place \in Places :
                  call' = [call EXCEPT ![c].proxy = p, ![c].at = place]
    <3>1. ~Ended
      BY <1>0, <2>3 DEF Ended, AllGone
    <3>2. QED
      BY <2>1, <2>3, <3>1, TakesKeeps
  <2>4. QED
    BY <1>8, <2>2, <2>3, Has DEF Examine, Places
<1>9. CASE StopProxy(c)
  <2>1. Went(c, "retire")
    BY <1>0, <1>9, GoesTo DEF Places, StopProxy
  <2>2. QED
    BY <1>9, <2>1, MovesKeeps DEF StopProxy, Bound
<1>10. CASE AwaitRetirement(c)
  <2>1. PICK place \in {"create", "launch", "remove"} : Goto(c, place)
    BY <1>10 DEF AwaitRetirement, AfterRetirement
  <2>2. Went(c, place)
    BY <1>0, <2>1, GoesTo DEF Places
  <2>3. QED
    BY <1>10, <2>2, MovesKeeps DEF AwaitRetirement, Bound
<1>11. CASE RetirementFails(c)
  BY <1>11, EndsKeeps DEF RetirementFails, Shuts
<1>12. CASE Remove(c)
  BY <1>12, EndsKeeps DEF Remove, Shuts, Bound
<1>13. CASE Create(c)
  <2>1. created + 1 \in Proxies
    BY <1>0, <1>13 DEF Create, TypeOK, Proxies
  <2>2. QED
    BY <1>13, <2>1, TakesKeeps DEF Create, Bound, Places
<1>14. CASE Recheck(c)
  <2>1. CASE Finish(c, "err")
    BY <1>14, <2>1, EndsKeeps DEF Recheck, Bound
  <2>2. CASE Goto(c, "launch")
    <3>1. Went(c, "launch")
      BY <1>0, <2>2, GoesTo DEF Places
    <3>2. QED
      BY <1>14, <3>1, MovesKeeps DEF Recheck, Bound
  <2>3. QED
    BY <1>14, <2>1, <2>2 DEF Recheck
<1>15. CASE Launch(c)
  <2>1. CASE Finish(c, "err")
    BY <1>15, <2>1, EndsKeeps DEF Launch, Bound
  <2>2. CASE Goto(c, "publish")
    <3>1. Went(c, "publish")
      BY <1>0, <2>2, GoesTo DEF Places
    <3>2. QED
      BY <1>15, <3>1, MovesKeeps DEF Launch, Bound
  <2>3. QED
    BY <1>15, <2>1, <2>2 DEF Launch
<1>16. CASE Publish(c)
  <2>1. CASE Finish(c, "err")
    BY <1>16, <2>1, EndsKeeps DEF Publish, Bound
  <2>2. CASE Goto(c, "startup")
    <3>1. Went(c, "startup")
      BY <1>0, <2>2, GoesTo DEF Places
    <3>2. QED
      BY <1>16, <3>1, MovesKeeps DEF Publish, Bound
  <2>3. QED
    BY <1>16, <2>1, <2>2 DEF Publish
<1>17. CASE AwaitStartup(c)
  <2>1. proxy[call[c].proxy].startup \in {"ok", "err"}
    BY <1>17, Has DEF AwaitStartup, WorksOn, PoolInv, TypeOK, Proxy
  <2>2. QED
    BY <1>17, <2>1, EndsKeeps DEF AwaitStartup, Bound
<1>18. ~Flag(c) /\ ~Snapshot(c) /\ ~Sweep(c) /\ ~Collect(c) /\ ~StopNext(c) /\ ~Close(c) /\ ~Exit(c)
  BY Has DEF Holds, Shared, Locked, Shuts, Flag, Snapshot, Sweep, Collect, StopNext, Close, Exit
<1>19. QED
  BY <1>1, <1>2, <1>3, <1>4, <1>5, <1>6, <1>7, <1>8, <1>9, <1>10, <1>11, <1>12, <1>13, <1>14,
     <1>15, <1>16, <1>17, <1>18 DEF Handle

-----------------------------------------------------------------------------
(* The steps of a shutdown.                                                *)

(* It goes on, and what it knows of upstreams and names is kept.           *)
LEMMA GoesOnKeeps ==
  ASSUME PoolInv, ShutInv, NEW c \in Callers, Shuts(c), Failed => Failed',
         \A d \in Callers \ {c} : call'[d] = call[d],
         call'[c].op = call[c].op, call'[c].result = call[c].result, call[c].at # "done",
         call'[c].failure => call[c].failure \/ Failed',
         shutting_down' \/ (call[c].at # "flag" /\ shutting_down' = shutting_down),
         \A p \in Proxies : Mild(p), call[c].at \in Alone \/ UNCHANGED proxies,
         AllGone => AllGone', Swept(c)', Counted(c)'
  PROVE  ShutInv'
<1>1. Owed(c) /\ call[c].result # "ok"
  BY DEF ShutInv, Owed
<1>2. Owed(c)' /\ ~Over(c)' /\ (shutting_down => shutting_down' \/ Failed')
  BY <1>1 DEF Owed, Over, Shuts
<1>3. QED
  BY <1>2, ShutdownKeeps

LEMMA CollectKeeps ==
  ASSUME PoolInv, ShutInv, NEW c \in Callers, Shuts(c), Failed => Failed', Collect(c)
  PROVE  ShutInv'
<1> DEFINE r == [call[c] EXCEPT !.seen = Owned, !.todo = Registered, !.at = "announce"]
<1>1. call[c].at = "collect" /\ UNCHANGED <<proxies, shutting_down, proxy>>
  BY DEF Collect, At
<1>2. call[c] \in Call /\ Owned \subseteq Proxies /\ Registered \subseteq Names
  BY Has, OwnedType
<1>3. /\ r.op = call[c].op /\ r.failure = call[c].failure /\ r.result = call[c].result
      /\ r.seen = Owned /\ r.todo = Registered /\ r.at = "announce"
  BY <1>2 DEF Call, Places
<1>4. call'[c] = r /\ \A d \in Callers \ {c} : call'[d] = call[d]
  BY DEF Collect, PoolInv, TypeOK
<1> HIDE DEF r
<1>5. Swept(c)'
  <2>1. ASSUME NEW p \in Proxies, MayRun(p) PROVE p \in Owned
    <3>1. proxies[proxy[p].name] = p /\ proxy[p].name \in Names
      BY <2>1 DEF PoolInv, Registry, TypeOK, Proxy
    <3>2. QED
      BY <3>1, Endpoints DEF Owned, Registered
  <2>2. QED
    BY <1>1, <1>3, <1>4, <2>1 DEF Swept, MayRun
<1>6. Counted(c)'
  BY <1>1, <1>3, <1>4 DEF Counted, Registered
<1>7. QED
  BY <1>1, <1>3, <1>4, <1>5, <1>6, SameProxies, GoesOnKeeps DEF AllGone

LEMMA SweepKeeps ==
  ASSUME PoolInv, ShutInv, NEW c \in Callers, Shuts(c), Failed => Failed', Sweep(c)
  PROVE  ShutInv'
<1>1. /\ call[c].at \in {"sweep", "announce"} /\ UNCHANGED <<proxies, shutting_down>>
      /\ call[c] \in Call /\ Swept(c) /\ Counted(c)
  BY Has DEF Sweep, ShutInv
<1>2. CASE \E p \in call[c].seen : /\ proxy' = Signalled(p)
                                   /\ call' = [call EXCEPT ![c].seen = @ \ {p}]
  <2>1. PICK p \in call[c].seen : /\ proxy' = Signalled(p)
                                  /\ call' = [call EXCEPT ![c].seen = @ \ {p}]
    BY <1>2
  <2> DEFINE r == [call[c] EXCEPT !.seen = @ \ {p}]
  <2>2. p \in Proxies /\ call[c].seen \subseteq Proxies
    BY <1>1 DEF Call
  <2>3. (\A q \in Proxies : Mild(q)) /\ proxy'[p].signalled
    BY <2>1, <2>2, Signals
  <2>4. /\ r.op = call[c].op /\ r.failure = call[c].failure /\ r.result = call[c].result
        /\ r.todo = call[c].todo /\ r.at = call[c].at /\ r.name = call[c].name
    BY <1>1 DEF Call
  <2>5. r.seen = call[c].seen \ {p}
    BY <1>1 DEF Call
  <2>6. call'[c] = r /\ \A d \in Callers \ {c} : call'[d] = call[d]
    BY <2>1 DEF PoolInv, TypeOK
  <2> HIDE DEF r
  <2>7. Swept(c)'
    BY <1>1, <2>3, <2>4, <2>5, <2>6 DEF Swept, Shuts, Mild
  <2>8. Counted(c)'
    BY <1>1, <2>4, <2>6 DEF Counted, Shuts, AllGone
  <2>9. QED
    BY <1>1, <2>3, <2>4, <2>6, <2>7, <2>8, GoesOnKeeps DEF AllGone
<1>3. CASE call[c].seen = {} /\ UNCHANGED proxy /\ \E place \in {"gate", "next"} :
             Goto(c, place) /\ (place = "next" => call[c].at = "announce")
  <2>1. PICK place \in {"gate", "next"} :
          Goto(c, place) /\ (place = "next" => call[c].at = "announce")
    BY <1>3
  <2>2. Went(c, place)
    BY <2>1, GoesTo DEF Places, PoolInv
  <2>3. Swept(c)'
    BY <1>1, <1>3, <2>1, <2>2 DEF Swept, Went, Shuts, MayRun
  <2>4. Counted(c)'
    BY <1>1, <2>1, <2>2 DEF Counted, Went, Shuts
  <2>5. QED
    BY <1>1, <1>3, <2>2, <2>3, <2>4, SameProxies, GoesOnKeeps DEF Went, AllGone
<1>4. QED
  BY <1>1, <1>2, <1>3 DEF Sweep, At

LEMMA StopNextKeeps ==
  ASSUME PoolInv, ShutInv, NEW c \in Callers, Shuts(c), Failed => Failed', StopNext(c)
  PROVE  ShutInv'
<1>1. /\ call[c].at = "next" /\ UNCHANGED <<proxies, shutting_down, proxy>>
      /\ call[c] \in Call /\ Swept(c) /\ Counted(c)
  BY Has DEF StopNext, ShutInv, At
<1>2. CASE call[c].todo = {} /\ Goto(c, "close")
  <2>1. Went(c, "close")
    BY <1>2, GoesTo DEF Places, PoolInv
  <2>2. Swept(c)' /\ Counted(c)'
    BY <1>1, <1>2, <2>1 DEF Swept, Counted, Went, Shuts, AllGone
  <2>3. QED
    BY <1>1, <2>1, <2>2, SameProxies, GoesOnKeeps DEF Went, AllGone
<1>3. CASE \E n \in call[c].todo :
             call' = [call EXCEPT ![c].name = n, ![c].todo = @ \ {n}, ![c].proxy = proxies[n],
                        ![c].at = IF proxies[n] = External THEN "remove" ELSE "stop"]
  <2>1. PICK n \in call[c].todo, place \in {"remove", "stop"} :
          call' = [call EXCEPT ![c].name = n, ![c].todo = @ \ {n}, ![c].proxy = proxies[n],
                     ![c].at = place]
    BY <1>3
  <2> DEFINE r == [call[c] EXCEPT !.name = n, !.todo = @ \ {n}, !.proxy = proxies[n], !.at = place]
  <2>2. n \in Names /\ proxies[n] \in Proxies \cup {Absent, External}
    BY <1>1 DEF Call, PoolInv, TypeOK
  <2>3. /\ r.op = call[c].op /\ r.failure = call[c].failure /\ r.result = call[c].result
        /\ r.name = n /\ r.todo = call[c].todo \ {n} /\ r.at = place
    BY <1>1, <2>2 DEF Call, Places
  <2>4. call'[c] = r /\ \A d \in Callers \ {c} : call'[d] = call[d]
    BY <2>1 DEF PoolInv, TypeOK
  <2> HIDE DEF r
  <2>5. Swept(c)'
    BY <1>1, <2>1, <2>3, <2>4 DEF Swept, Shuts, MayRun
  <2>6. Counted(c)'
    BY <1>1, <2>1, <2>3, <2>4 DEF Counted, Shuts
  <2>7. QED
    BY <1>1, <2>3, <2>4, <2>5, <2>6, SameProxies, GoesOnKeeps DEF AllGone
<1>4. QED
  BY <1>2, <1>3 DEF StopNext

(* Signalling one server more, and its retirement.                         *)
LEMMA RetiringKeeps ==
  ASSUME PoolInv, ShutInv, NEW c \in Callers, Shuts(c), Failed => Failed',
         StopProxy(c) \/ AwaitRetirement(c) \/ RetirementFails(c) \/ Remove(c)
  PROVE  ShutInv'
<1>1. call[c] \in Call /\ call[c].name \in Names /\ Swept(c) /\ Counted(c) /\ WorksOn(c)
  BY Has DEF ShutInv
<1>2. CASE StopProxy(c)
  <2>1. call[c].at = "stop" /\ UNCHANGED <<proxies, shutting_down>> /\ Went(c, "retire")
    BY <1>2, GoesTo DEF StopProxy, At, Places, PoolInv
  <2>2. \A p \in Proxies : Mild(p)
    BY <1>1, <1>2, <2>1, Signals DEF StopProxy, WorksOn
  <2>3. Swept(c)' /\ Counted(c)'
    BY <1>1, <2>1, <2>2 DEF Swept, Counted, Went, Shuts, Mild
  <2>4. QED
    BY <2>1, <2>2, <2>3, GoesOnKeeps DEF Went, AllGone
<1>3. CASE AwaitRetirement(c)
  <2> DEFINE p == call[c].proxy
  <2>1. /\ call[c].at = "retire" /\ UNCHANGED <<proxies, shutting_down>> /\ Went(c, "remove")
        /\ proxy' = [proxy EXCEPT ![p].stop_requested = FALSE]
    BY <1>3, GoesTo DEF AwaitRetirement, AfterRetirement, Shuts, At, Places, PoolInv
  <2>2. p \in Proxies /\ proxy[p] \in Proxy
    BY <1>1, <2>1 DEF WorksOn, PoolInv, TypeOK
  <2>3. \A q \in Proxies : Mild(q)
    <3>1. /\ proxy'[p] = [proxy[p] EXCEPT !.stop_requested = FALSE]
          /\ \A q \in Proxies \ {p} : proxy'[q] = proxy[q]
      BY <2>1, <2>2 DEF PoolInv, TypeOK
    <3>2. /\ proxy'[p].name = proxy[p].name /\ proxy'[p].phase = proxy[p].phase
          /\ proxy'[p].recovering = proxy[p].recovering
          /\ proxy'[p].signalled = proxy[p].signalled
      BY <2>2, <3>1 DEF Proxy
    <3>3. QED
      BY <3>1, <3>2 DEF Mild, MayRun
  <2>4. Swept(c)' /\ Counted(c)'
    BY <1>1, <2>1, <2>3 DEF Swept, Counted, Went, Shuts, Mild
  <2>5. QED
    BY <2>1, <2>3, <2>4, GoesOnKeeps DEF Went, AllGone
<1>4. CASE RetirementFails(c)
  <2> DEFINE r == [call[c] EXCEPT !.at = "next", !.failure = TRUE]
  <2>1. /\ call[c].at = "retire" /\ UNCHANGED <<proxies, shutting_down, proxy>>
        /\ call' = [call EXCEPT ![c] = r] /\ proxy[call[c].proxy].phase = "failed"
    BY <1>4 DEF RetirementFails, At, Shuts
  <2>2. /\ r.op = call[c].op /\ r.failure = TRUE /\ r.result = call[c].result /\ r.at = "next"
    BY <1>1 DEF Call, Places
  <2>3. call'[c] = r /\ \A d \in Callers \ {c} : call'[d] = call[d]
    BY <2>1 DEF PoolInv, TypeOK
  <2> HIDE DEF r
  <2>4. Failed
    BY <1>1, <2>1 DEF Failed, WorksOn
  <2>5. Swept(c)' /\ Counted(c)'
    BY <1>1, <2>1, <2>2, <2>3 DEF Swept, Counted, Shuts, MayRun
  <2>6. QED
    BY <2>1, <2>2, <2>3, <2>4, <2>5, SameProxies, GoesOnKeeps DEF AllGone
<1>5. CASE Remove(c)
  <2>1. /\ call[c].at = "remove" /\ UNCHANGED <<shutting_down, proxy>> /\ Went(c, "next")
        /\ proxies' = [proxies EXCEPT ![call[c].name] = Absent]
    BY <1>5, GoesTo DEF Remove, Shuts, At, NameOf, Places, PoolInv
  <2>2. /\ proxies'[call[c].name] = Absent
        /\ \A n \in Names \ {call[c].name} : proxies'[n] = proxies[n]
    BY <1>1, <2>1 DEF PoolInv, TypeOK
  <2>3. Swept(c)' /\ Counted(c)'
    BY <1>1, <2>1, <2>2 DEF Swept, Counted, Went, Shuts, MayRun
  <2>4. AllGone => AllGone'
    BY <2>2 DEF AllGone
  <2>5. QED
    BY <2>1, <2>3, <2>4, SameProxies, GoesOnKeeps DEF Went, Alone
<1>6. QED
  BY <1>2, <1>3, <1>4, <1>5

(* It ends: what it has not stopped is why it fails.                       *)
LEMMA CloseKeeps ==
  ASSUME PoolInv, ShutInv, NEW c \in Callers, Shuts(c), Failed => Failed', Close(c)
  PROVE  ShutInv'
<1>1. /\ call[c].at = "close" /\ UNCHANGED <<proxies, proxy>>
      /\ shutting_down' = IF call[c].failure THEN FALSE ELSE shutting_down
      /\ Owed(c) /\ Counted(c)
  BY DEF Close, At, ShutInv
<1>2. /\ call'[c].at = "done" /\ call'[c].op = call[c].op /\ call'[c].failure = call[c].failure
      /\ call'[c].result = "ok" => ~call[c].failure
      /\ \A d \in Callers \ {c} : call'[d] = call[d]
  BY FinishFields DEF Close
<1>3. Owed(c)' /\ (shutting_down => shutting_down' \/ Failed')
  BY <1>1, <1>2 DEF Owed, Shuts
<1>4. Swept(c)' /\ Counted(c)'
  BY <1>2 DEF Swept, Counted
<1>5. Over(c)' => Ended'
  <2>1. ASSUME Over(c)' PROVE AllGone'
    BY <1>1, <1>2, <2>1 DEF Over, Counted, AllGone
  <2>2. ASSUME NEW d \in Callers PROVE Behind(d)'
    <3>1. d # c => Holds(d) /\ d \notin readers
      BY <1>1, Has, Endpoints DEF Holds, Alone, PoolInv, Gate
    <3>2. QED
      BY <1>2, <3>1 DEF Behind, Shuts, Holds, Bound, Shared, Locked
  <2>3. QED
    BY <2>1, <2>2 DEF Ended
<1>6. QED
  BY <1>1, <1>2, <1>3, <1>4, <1>5, SameProxies, ShutdownKeeps DEF AllGone

LEMMA ShutdownShuts ==
  ASSUME PoolInv, ShutInv, NEW c \in Callers, Shuts(c), Failed => Failed', Handle(c)
  PROVE  ShutInv'
<1> USE DEF At
<1>1. CASE EnterGate(c)
  <2>1. Goto(c, "collect") /\ call[c].at = "gate" /\ UNCHANGED <<proxies, shutting_down, proxy>>
    BY <1>1 DEF EnterGate, Shuts
  <2>2. Went(c, "collect")
    BY <2>1, GoesTo DEF Places, PoolInv
  <2>3. Swept(c)' /\ Counted(c)'
    BY <2>2 DEF Swept, Counted, Went
  <2>4. QED
    BY <2>1, <2>2, <2>3, SameProxies, GoesOnKeeps DEF Went, AllGone
<1>2. CASE Flag(c)
  <2>1. Went(c, "snapshot") /\ call[c].at = "flag" /\ shutting_down' = TRUE /\ UNCHANGED <<proxies, proxy>>
    BY <1>2, GoesTo DEF Flag, Places, PoolInv
  <2>2. Swept(c)' /\ Counted(c)'
    BY <2>1 DEF Swept, Counted, Went
  <2>3. QED
    BY <2>1, <2>2, SameProxies, GoesOnKeeps DEF Went, AllGone
<1>3. CASE Snapshot(c)
  <2> DEFINE r == [call[c] EXCEPT !.seen = Owned, !.at = "sweep"]
  <2>1. /\ call[c].at = "snapshot" /\ call' = [call EXCEPT ![c] = r]
        /\ UNCHANGED <<proxies, shutting_down, proxy>>
    BY <1>3 DEF Snapshot
  <2>2. call[c] \in Call /\ Owned \subseteq Proxies
    BY Has, OwnedType
  <2>3. r.op = call[c].op /\ r.failure = call[c].failure /\ r.result = call[c].result /\ r.at = "sweep"
    BY <2>2 DEF Call, Places
  <2>4. call'[c] = r /\ \A d \in Callers \ {c} : call'[d] = call[d]
    BY <2>1 DEF PoolInv, TypeOK
  <2> HIDE DEF r
  <2>5. Swept(c)' /\ Counted(c)'
    BY <2>3, <2>4 DEF Swept, Counted
  <2>6. QED
    BY <2>1, <2>3, <2>4, <2>5, SameProxies, GoesOnKeeps DEF AllGone
<1>4. CASE Exit(c)
  BY <1>4 DEF Exit, ShutInv, Owed, Swept, Counted, Over, Ended, Behind, AllGone, Failed, Shuts, MayRun
<1>5. Holds(c)
  BY Has
<1>6. call[c].at \in {"flag", "snapshot", "sweep", "gate", "done"} \cup Alone /\ call[c].op = "shutdown"
  BY <1>5 DEF Holds, Shuts
<1>7. ~LookEarly(c) /\ ~SignalEarly(c) /\ ~LockOperation(c) /\ ~Admit(c) /\ ~ExamineStart(c)
  BY <1>6 DEF Alone, LookEarly, SignalEarly, LockOperation, Admit, ExamineStart
<1>8. ~EnvironmentFails(c) /\ ~Examine(c) /\ ~Create(c) /\ ~Recheck(c) /\ ~Launch(c)
  BY <1>6 DEF Alone, EnvironmentFails, Examine, Create, Recheck, Launch
<1>9. ~Publish(c) /\ ~AwaitStartup(c)
  BY <1>6 DEF Alone, Publish, AwaitStartup
<1>10. QED
  BY <1>1, <1>2, <1>3, <1>4, <1>7, <1>8, <1>9, CollectKeeps, SweepKeeps, StopNextKeeps,
     RetiringKeeps, CloseKeeps DEF Handle

-----------------------------------------------------------------------------
(* Theorems.                                                               *)

LEMMA ShutInit == Init => ShutInv
<1> SUFFICES ASSUME Init PROVE ShutInv
  OBVIOUS
<1>1. \A c \in Callers : /\ call[c].op = "none" /\ call[c].at = "idle"
                         /\ ~call[c].failure /\ call[c].result = "none"
  BY DEF Init
<1>2. QED
  BY <1>1 DEF ShutInv, Owed, Swept, Counted, Over, Shuts

LEMMA ShutNext ==
  ASSUME PoolInv, ShutInv, Next PROVE ShutInv'
<1>1. Failed => Failed'
  BY StaysFailed
<1>2. ASSUME NEW c \in Callers, Submit(c) PROVE ShutInv'
  <2>1. PICK op \in Operations, n \in Names, e \in Entries :
          call' = [call EXCEPT ![c].op = op, ![c].name = n, ![c].entry = e,
                     ![c].at = IF op = "shutdown" THEN "flag" ELSE "gate"]
    BY <1>2 DEF Submit
  <2> DEFINE r == [call[c] EXCEPT !.op = op, !.name = n, !.entry = e,
                     !.at = IF op = "shutdown" THEN "flag" ELSE "gate"]
  <2>2. call[c] \in Call /\ call[c].at = "idle" /\ UNCHANGED <<proxies, shutting_down, proxy>>
    BY <1>2, Has DEF Submit, At
  <2>3. /\ r.op = op /\ r.failure = call[c].failure /\ r.result = call[c].result
        /\ r.at = IF op = "shutdown" THEN "flag" ELSE "gate"
    BY <2>2 DEF Call, Places
  <2>4. call'[c] = r /\ \A d \in Callers \ {c} : call'[d] = call[d]
    BY <2>1 DEF PoolInv, TypeOK
  <2> HIDE DEF r
  <2>5. Owed(c) /\ call[c].result # "ok"
    BY <2>2 DEF ShutInv, Owed
  <2>6. Owed(c)' /\ Swept(c)' /\ Counted(c)' /\ Behind(c)' /\ ~Over(c)'
    BY <1>1, <2>2, <2>3, <2>4, <2>5 DEF Owed, Swept, Counted, Behind, Over, Shuts, Bound
  <2>7. \A d \in Callers \ {c} : Owed(d)' /\ Swept(d)' /\ Counted(d)'
    BY <1>1, <2>2, <2>4, SameProxies, OtherShuts
  <2>8. ASSUME \E d \in Callers : Over(d)' PROVE Ended'
    <3>1. \E d \in Callers : Over(d)
      BY <2>4, <2>6, <2>8 DEF Over, Shuts
    <3>2. Ended
      BY <3>1 DEF ShutInv
    <3>3. QED
      BY <2>2, <2>4, <2>6, <3>2 DEF Ended, AllGone, Behind, Shuts
  <2>9. QED
    BY <2>6, <2>7, <2>8 DEF ShutInv
<1>3. ASSUME NEW c \in Callers, Handle(c) PROVE ShutInv'
  BY <1>1, <1>3, RequestShuts, ShutdownShuts
<1>4. ASSUME NEW p \in Proxies, Work(p) \/ UpstreamExits(p) \/ SessionLost(p) PROVE ShutInv'
  <2>1. UNCHANGED Beside /\ \A q \in Proxies : Mild(q)
    BY <1>4, WorkMild
  <2>2. \A d \in Callers : Owed(d)' /\ Swept(d)' /\ Counted(d)'
    BY <1>1, <2>1, OtherShuts DEF Beside
  <2>3. (\E d \in Callers : Over(d)') => Ended'
    BY <2>1 DEF Beside, ShutInv, Over, Ended, AllGone, Behind, Shuts
  <2>4. QED
    BY <2>2, <2>3 DEF ShutInv
<1>5. CASE UNCHANGED vars
  BY <1>5 DEF vars, ShutInv, Owed, Swept, Counted, Over, Ended, Behind, AllGone, Failed, Shuts, MayRun
<1>6. QED
  BY <1>2, <1>3, <1>4, <1>5 DEF Next, AtRest

LEMMA ShutInvariant == Spec => [](PoolInv /\ ShutInv)
<1>1. PoolInv /\ ShutInv /\ [Next]_vars => ShutInv'
  <2>1. ASSUME ShutInv, UNCHANGED vars PROVE ShutInv'
    BY <2>1 DEF vars, ShutInv, Owed, Swept, Counted, Over, Ended, Behind, AllGone, Failed, Shuts, MayRun
  <2>2. QED
    BY <2>1, ShutNext
<1>2. QED
  BY <1>1, PoolInvariant, ShutInit, PTL DEF Spec

(* ShutdownIsOrderly: a shutdown has signalled every upstream before it    *)
(* waits for one, and when it reports success no server is registered and  *)
(* none runs, whatever starts, stops, recoveries and other shutdowns it    *)
(* raced (pool.rs, shutdown).                                              *)
THEOREM ShutdownCorrect == Spec => []ShutdownIsOrderly
<1>1. PoolInv /\ ShutInv => ShutdownIsOrderly
  <2> SUFFICES ASSUME PoolInv, ShutInv PROVE ShutdownIsOrderly
    OBVIOUS
  <2>1. ShutdownSignalsFirst
    BY DEF ShutdownSignalsFirst, ShutDown, ShutInv, Swept, Shuts, MayRun
  <2>2. ASSUME NEW c \in ShutDown, call[c].result = "ok"
        PROVE  Registered = {} /\ \A p \in Proxies : ~Live(p)
    <3>1. AllGone
      BY <2>2 DEF ShutDown, ShutInv, Over, Shuts, Ended
    <3>2. ASSUME NEW p \in Proxies PROVE ~Live(p)
      <4>1. proxy[p].name \in Names
        BY DEF PoolInv, TypeOK, Proxy
      <4>2. QED
        BY <3>1, <4>1, Endpoints DEF Live, AllGone, PoolInv, Registry, MayRun
    <3>3. QED
      BY <3>1, <3>2 DEF AllGone, Registered
  <2>3. QED
    BY <2>1, <2>2 DEF ShutdownIsOrderly, ShutdownIsComplete
<1>2. QED
  BY <1>1, ShutInvariant, PTL

-----------------------------------------------------------------------------
(* A pool that refuses starts does so for a shutdown.                      *)

(* The flag is up, and c is a shutdown that answers for it.                *)
Accounts(c) == Shuts(c) /\ call[c].at \notin {"idle", "flag"} /\ call[c].result # "err"

AnswersLast == \A c \in Callers : call[c].result # "none" => call[c].at = "done"

ResumeInv == AnswersLast /\ (shutting_down => \E c \in Callers : Accounts(c))

(* Until it closes, a shutdown goes on.                                    *)
LEMMA ShutdownGoes ==
  ASSUME PoolInv, NEW c \in Callers, Shuts(c), Handle(c), ~Close(c), ~Exit(c)
  PROVE  /\ \A d \in Callers \ {c} : call'[d] = call[d]
         /\ call[c].at # "done"
         /\ call'[c].op = call[c].op /\ call'[c].result = call[c].result
         /\ call'[c].at \notin {"idle", "flag"}
         /\ call[c].at = "flag" \/ shutting_down' = shutting_down
<1> USE DEF At
<1>1. TypeOK /\ call[c] \in Call /\ Holds(c)
  BY Has DEF PoolInv
<1>2. call[c].at \in {"flag", "snapshot", "sweep", "gate", "done"} \cup Alone /\ call[c].op = "shutdown"
  BY <1>1 DEF Holds, Shuts
<1>3. ASSUME NEW place \in Places \ {"idle", "flag"}, Goto(c, place)
      PROVE  /\ \A d \in Callers \ {c} : call'[d] = call[d]
             /\ call'[c].op = call[c].op /\ call'[c].result = call[c].result
             /\ call'[c].at \notin {"idle", "flag"}
  BY <1>1, <1>3, GoesTo DEF Went
<1>4. CASE EnterGate(c)
  BY <1>3, <1>4 DEF EnterGate, Shuts, Places
<1>5. CASE Flag(c)
  BY <1>3, <1>5 DEF Flag, Places
<1>6. CASE StopProxy(c) \/ AwaitRetirement(c) \/ Remove(c)
  BY <1>3, <1>6 DEF StopProxy, AwaitRetirement, AfterRetirement, Remove, Shuts, Places
<1>7. CASE RetirementFails(c)
  <2>1. call'[c] = [call[c] EXCEPT !.at = "next", !.failure = TRUE]
        /\ \A d \in Callers \ {c} : call'[d] = call[d]
    BY <1>1, <1>7 DEF RetirementFails, Shuts, TypeOK
  <2>2. QED
    BY <1>1, <1>7, <2>1 DEF RetirementFails, Call
<1>8. CASE Snapshot(c)
  <2> DEFINE r == [call[c] EXCEPT !.seen = Owned, !.at = "sweep"]
  <2>1. call'[c] = r /\ \A d \in Callers \ {c} : call'[d] = call[d]
    BY <1>1, <1>8 DEF Snapshot, TypeOK
  <2>2. r.op = call[c].op /\ r.result = call[c].result /\ r.at = "sweep"
    BY <1>1 DEF Call
  <2> HIDE DEF r
  <2>3. QED
    BY <1>8, <2>1, <2>2 DEF Snapshot
<1>9. CASE Collect(c)
  <2> DEFINE r == [call[c] EXCEPT !.seen = Owned, !.todo = Registered, !.at = "announce"]
  <2>1. call'[c] = r /\ \A d \in Callers \ {c} : call'[d] = call[d]
    BY <1>1, <1>9 DEF Collect, TypeOK
  <2>2. r.op = call[c].op /\ r.result = call[c].result /\ r.at = "announce"
    BY <1>1 DEF Call
  <2> HIDE DEF r
  <2>3. QED
    BY <1>9, <2>1, <2>2 DEF Collect
<1>10. CASE Sweep(c)
  <2>1. call[c].at \in {"sweep", "announce"} /\ shutting_down' = shutting_down
    BY <1>10 DEF Sweep
  <2>2. CASE Goto(c, IF At(c, "sweep") THEN "gate" ELSE "next")
    BY <1>3, <2>1, <2>2 DEF Places
  <2>3. CASE \E p \in call[c].seen : call' = [call EXCEPT ![c].seen = @ \ {p}]
    <3>1. PICK p \in call[c].seen : call' = [call EXCEPT ![c].seen = @ \ {p}]
      BY <2>3
    <3>2. call'[c] = [call[c] EXCEPT !.seen = @ \ {p}] /\ \A d \in Callers \ {c} : call'[d] = call[d]
      BY <1>1, <3>1 DEF TypeOK
    <3>3. QED
      BY <1>1, <2>1, <3>2 DEF Call
  <2>4. QED
    BY <1>10, <2>2, <2>3 DEF Sweep
<1>11. CASE StopNext(c)
  <2>1. call[c].at = "next" /\ shutting_down' = shutting_down
    BY <1>11 DEF StopNext
  <2>2. CASE Goto(c, "close")
    BY <1>3, <2>1, <2>2 DEF Places
  <2>3. CASE \E n \in call[c].todo, place \in {"remove", "stop"} :
               call' = [call EXCEPT ![c].name = n, ![c].todo = @ \ {n}, ![c].proxy = proxies[n],
                          ![c].at = place]
    <3>1. PICK n \in call[c].todo, place \in {"remove", "stop"} :
            call' = [call EXCEPT ![c].name = n, ![c].todo = @ \ {n}, ![c].proxy = proxies[n],
                       ![c].at = place]
      BY <2>3
    <3> DEFINE r == [call[c] EXCEPT !.name = n, !.todo = @ \ {n}, !.proxy = proxies[n], !.at = place]
    <3>2. call'[c] = r /\ \A d \in Callers \ {c} : call'[d] = call[d]
      BY <1>1, <3>1 DEF TypeOK
    <3>3. r.op = call[c].op /\ r.result = call[c].result /\ r.at = place
      BY <1>1 DEF Call
    <3> HIDE DEF r
    <3>4. QED
      BY <2>1, <3>2, <3>3
  <2>4. QED
    BY <1>11, <2>2, <2>3 DEF StopNext
<1>12. ~LookEarly(c) /\ ~SignalEarly(c) /\ ~LockOperation(c) /\ ~Admit(c) /\ ~ExamineStart(c)
  BY <1>2 DEF Alone, LookEarly, SignalEarly, LockOperation, Admit, ExamineStart
<1>13. ~EnvironmentFails(c) /\ ~Examine(c) /\ ~Create(c) /\ ~Recheck(c) /\ ~Launch(c)
  BY <1>2 DEF Alone, EnvironmentFails, Examine, Create, Recheck, Launch
<1>14. ~Publish(c) /\ ~AwaitStartup(c)
  BY <1>2 DEF Alone, Publish, AwaitStartup
<1>15. QED
  BY <1>4, <1>5, <1>6, <1>7, <1>8, <1>9, <1>10, <1>11, <1>12, <1>13, <1>14 DEF Handle

(* A start, stop or restart is no shutdown, and is answered when it ends.  *)
LEMMA RequestGoes ==
  ASSUME PoolInv, AnswersLast, NEW c \in Callers, ~Shuts(c), Handle(c)
  PROVE  /\ \A d \in Callers \ {c} : call'[d] = call[d]
         /\ ~Shuts(c)' /\ shutting_down' = shutting_down
         /\ call'[c].result # "none" => call'[c].at = "done"
<1> USE DEF At, NameOf
<1> DEFINE Goes == /\ \A d \in Callers \ {c} : call'[d] = call[d]
                   /\ ~Shuts(c)'
                   /\ call'[c].result # "none" => call'[c].at = "done"
<1>1. TypeOK /\ call[c] \in Call /\ Holds(c)
  BY Has DEF PoolInv
<1>2. ~Flag(c) /\ ~Snapshot(c) /\ ~Sweep(c) /\ ~Collect(c) /\ ~StopNext(c) /\ ~Close(c) /\ ~Exit(c)
  BY <1>1 DEF Holds, Shared, Locked, Shuts, Flag, Snapshot, Sweep, Collect, StopNext, Close, Exit
<1>3. shutting_down' = shutting_down
  BY <1>2 DEF Handle, EnterGate, LookEarly, SignalEarly, LockOperation, Admit, ExamineStart,
              EnvironmentFails, Examine, StopProxy, AwaitRetirement, RetirementFails, Remove,
              Create, Recheck, Launch, Publish, AwaitStartup
<1>4. ASSUME NEW outcome \in {"ok", "err"}, Finish(c, outcome) PROVE Goes
  BY <1>4, FinishFields DEF Shuts
<1>5. ASSUME NEW place \in Places, Goto(c, place), call[c].at # "done" PROVE Goes
  BY <1>1, <1>5, GoesTo DEF Went, Shuts, AnswersLast
<1>6. ASSUME NEW p \in Proxies \cup {Absent, External}, NEW place \in Places,
             call' = [call EXCEPT ![c].proxy = p, ![c].at = place], call[c].at # "done"
      PROVE  Goes
  <2> DEFINE r == [call[c] EXCEPT !.proxy = p, !.at = place]
  <2>1. call'[c] = r /\ \A d \in Callers \ {c} : call'[d] = call[d]
    BY <1>1, <1>6 DEF TypeOK
  <2>2. r.op = call[c].op /\ r.result = call[c].result
    BY <1>1 DEF Call
  <2> HIDE DEF r
  <2>3. QED
    BY <1>6, <2>1, <2>2 DEF Shuts, AnswersLast
<1>7. proxies[call[c].name] \in Proxies \cup {Absent, External}
  BY Has
<1> SUFFICES Goes
  BY <1>3
<1> HIDE DEF Goes
<1>8. CASE EnterGate(c) \/ LookEarly(c) \/ SignalEarly(c) \/ LockOperation(c) \/ Admit(c)
  <2>1. CASE EnterGate(c)
    BY <1>5, <2>1 DEF EnterGate, Places, Shuts
  <2>2. CASE LookEarly(c)
    BY <1>6, <1>7, <2>2 DEF LookEarly, Places
  <2>3. CASE SignalEarly(c)
    BY <1>5, <2>3 DEF SignalEarly, Places
  <2>4. CASE LockOperation(c)
    BY <1>5, <2>4 DEF LockOperation, Places
  <2>5. CASE Admit(c)
    BY <1>4, <1>5, <2>5 DEF Admit, Places
  <2>6. QED
    BY <1>8, <2>1, <2>2, <2>3, <2>4, <2>5
<1>9. CASE ExamineStart(c) \/ EnvironmentFails(c) \/ Examine(c)
  <2>1. CASE ExamineStart(c)
    BY <1>4, <1>6, <1>7, <2>1 DEF ExamineStart, Places
  <2>2. CASE EnvironmentFails(c)
    BY <1>4, <2>2 DEF EnvironmentFails
  <2>3. CASE Examine(c)
    BY <1>4, <1>6, <1>7, <2>3 DEF Examine, Places
  <2>4. QED
    BY <1>9, <2>1, <2>2, <2>3
<1>10. CASE StopProxy(c) \/ AwaitRetirement(c) \/ RetirementFails(c) \/ Remove(c)
  BY <1>4, <1>5, <1>10
     DEF StopProxy, AwaitRetirement, AfterRetirement, RetirementFails, Remove, Shuts, Places
<1>11. CASE Create(c)
  <2>1. created + 1 \in Proxies
    BY <1>1, <1>11 DEF Create, TypeOK, Proxies
  <2>2. QED
    BY <1>6, <1>11, <2>1 DEF Create, Places
<1>12. CASE Recheck(c) \/ Launch(c) \/ Publish(c)
  BY <1>4, <1>5, <1>12 DEF Recheck, Launch, Publish, Places
<1>13. CASE AwaitStartup(c)
  <2>1. proxy[call[c].proxy].startup \in {"ok", "err"}
    BY <1>1, <1>13, Has DEF AwaitStartup, WorksOn, TypeOK, Proxy
  <2>2. QED
    BY <1>4, <1>13, <2>1 DEF AwaitStartup
<1>14. QED
  BY <1>2, <1>8, <1>9, <1>10, <1>11, <1>12, <1>13 DEF Handle

LEMMA ResumeHandle ==
  ASSUME PoolInv, ResumeInv, NEW c \in Callers, Handle(c) PROVE ResumeInv'
<1>1. AnswersLast
  BY DEF ResumeInv
<1>2. CASE ~Shuts(c)
  <2>1. AnswersLast'
    BY <1>1, <1>2, RequestGoes DEF AnswersLast
  <2>2. ASSUME NEW d \in Callers, Accounts(d) PROVE Accounts(d)'
    BY <1>1, <1>2, <2>2, RequestGoes DEF Accounts, Shuts
  <2>3. QED
    BY <1>1, <1>2, <2>1, <2>2, RequestGoes DEF ResumeInv
<1>3. CASE Exit(c)
  BY <1>3 DEF Exit, ResumeInv, AnswersLast, Accounts, Shuts
<1>4. CASE Close(c) /\ Shuts(c)
  <2>1. /\ call'[c].at = "done" /\ call'[c].op = call[c].op
        /\ call'[c].result = IF call[c].failure THEN "err" ELSE "ok"
        /\ \A d \in Callers \ {c} : call'[d] = call[d]
    BY <1>4, FinishFields DEF Close
  <2>2. AnswersLast'
    BY <1>1, <2>1 DEF AnswersLast
  <2>3. shutting_down' => Accounts(c)'
    BY <1>4, <2>1 DEF Close, Accounts, Shuts
  <2>4. QED
    BY <2>2, <2>3 DEF ResumeInv
<1>5. CASE Shuts(c) /\ ~Close(c) /\ ~Exit(c)
  <2>1. /\ \A d \in Callers \ {c} : call'[d] = call[d]
        /\ call[c].at # "done"
        /\ call'[c].op = call[c].op /\ call'[c].result = call[c].result
        /\ call'[c].at \notin {"idle", "flag"}
    BY <1>5, ShutdownGoes
  <2>2. call[c].result = "none"
    BY <1>1, <2>1 DEF AnswersLast
  <2>3. AnswersLast' /\ Accounts(c)'
    BY <1>1, <1>5, <2>1, <2>2 DEF AnswersLast, Accounts, Shuts
  <2>4. QED
    BY <2>3 DEF ResumeInv
<1>6. QED
  BY <1>2, <1>3, <1>4, <1>5

LEMMA ResumeInvariant == Spec => []ResumeInv
<1>1. Init => ResumeInv
  BY DEF Init, ResumeInv, AnswersLast
<1>2. PoolInv /\ ResumeInv /\ [Next]_vars => ResumeInv'
  <2> SUFFICES ASSUME PoolInv, ResumeInv, [Next]_vars PROVE ResumeInv'
    OBVIOUS
  <2>1. CASE UNCHANGED <<call, shutting_down>>
    BY <2>1 DEF ResumeInv, AnswersLast, Accounts, Shuts
  <2>2. ASSUME NEW c \in Callers, Submit(c) PROVE ResumeInv'
    <3>1. PICK op \in Operations, n \in Names, e \in Entries :
            call' = [call EXCEPT ![c].op = op, ![c].name = n, ![c].entry = e,
                       ![c].at = IF op = "shutdown" THEN "flag" ELSE "gate"]
      BY <2>2 DEF Submit
    <3> DEFINE r == [call[c] EXCEPT !.op = op, !.name = n, !.entry = e,
                       !.at = IF op = "shutdown" THEN "flag" ELSE "gate"]
    <3>2. call[c] \in Call /\ call[c].at = "idle" /\ shutting_down' = shutting_down
      BY <2>2, Has DEF Submit, At
    <3>3. r.result = call[c].result
      BY <3>2 DEF Call
    <3>4. call'[c] = r /\ \A d \in Callers \ {c} : call'[d] = call[d]
      BY <3>1 DEF PoolInv, TypeOK
    <3> HIDE DEF r
    <3>5. AnswersLast'
      BY <3>2, <3>3, <3>4 DEF ResumeInv, AnswersLast
    <3>6. ~Accounts(c)
      BY <3>2 DEF Accounts
    <3>7. \A d \in Callers : Accounts(d) => Accounts(d)'
      BY <3>4, <3>6 DEF Accounts, Shuts
    <3>8. QED
      BY <3>2, <3>5, <3>7 DEF ResumeInv
  <2>3. ASSUME NEW p \in Proxies, Work(p) \/ UpstreamExits(p) \/ SessionLost(p)
        PROVE  UNCHANGED <<call, shutting_down>>
    BY <2>3, WorkMild DEF Beside
  <2>4. QED
    BY <2>1, <2>2, <2>3, ResumeHandle DEF Next, AtRest, vars
<1>3. QED
  BY <1>1, <1>2, PoolInvariant, PTL DEF Spec

(* ResumesAfterFailure: the pool refuses starts only for a shutdown that   *)
(* is under way or has succeeded; one that failed admits them again, also  *)
(* when several shutdowns overlap (pool.rs, shutdown).                     *)
THEOREM ResumesCorrect == Spec => []ResumesAfterFailure
<1>1. ResumeInv => ResumesAfterFailure
  BY DEF ResumeInv, Accounts, Shuts, ResumesAfterFailure, ShutDown
<1>2. QED
  BY <1>1, ResumeInvariant, PTL
=============================================================================
