-------------------------------- MODULE Pool --------------------------------
(***************************************************************************)
(* The daemon's registry of pooled servers and the control requests that   *)
(* start, stop, restart and shut them down concurrently.  Source: pool.rs  *)
(* (Pool), pool_endpoint.rs (Endpoint) and daemon.rs (handle_connection,   *)
(* dispatch).                                                              *)
(*                                                                         *)
(* A request takes one step per lock it acquires, per access to shared     *)
(* state that another request may change in between, and per wait.  Each   *)
(* registered server is a SocketProxy reduced to what its callers see; the *)
(* module SocketProxy models it in detail.  Within one name the operation  *)
(* lock keeps the calls on a proxy apart; request_stop, retirement and     *)
(* recovery happen beside them.                                            *)
(***************************************************************************)
EXTENDS Integers, FiniteSets

CONSTANTS
  Callers,        \* the control requests of one behaviour
  Operations,     \* what they ask for
  Names,          \* the servers they name
  Entries,        \* the configuration entries that starts come from
  NoEntry,        \* the entry of an ad-hoc server, a member of Entries or not
  MaxProxies,     \* bound: SocketProxy values one behaviour creates
  MaxLosses,      \* bound: sessions that are lost and recovered
  Failures,       \* what may go wrong in a run
  Discovered      \* the names whose sockets were found live at startup

Proxies == 1 .. MaxProxies
Absent == 0                     \* no endpoint under a name
External == MaxProxies + 1      \* Endpoint::External
NoCaller == 0

ASSUME PoolAssumption ==
  /\ Callers \cap Nat = {}
  /\ Names # {} /\ Entries # {}
  /\ Operations \subseteq {"start", "stop", "restart", "shutdown"}
  /\ MaxProxies \in Nat
  /\ MaxLosses \in Nat
  /\ Failures \subseteq {"setup", "unverified", "exit", "environment"}
  /\ Discovered \subseteq Names

VARIABLES
  proxies,          \* Pool.proxies
  locks,            \* Pool.operations: who holds the lock of a name
  readers, writer,  \* Pool.shutdown_gate
  shutting_down,    \* Pool.shutting_down
  created,          \* how many SocketProxy values exist
  proxy,            \* [Proxies -> a SocketProxy]
  losses,           \* how many sessions were lost
  call,             \* [Callers -> a control request]
  exited            \* serve has left its loop

vars == <<proxies, locks, readers, writer, shutting_down, created, proxy, losses, call, exited>>

Places == {"idle", "gate", "early", "signal", "operation", "admit", "examine", "stop",
           "retire", "remove", "create", "recheck", "launch", "publish", "startup",
           "flag", "snapshot", "sweep", "collect", "announce", "next", "close",
           "acknowledge", "done"}

Proxy ==
  [name : Names, entry : Entries,
   stop_requested : BOOLEAN,
   signalled : BOOLEAN,         \* explicit_stop of the current generation
   phase : {"none", "setup", "running", "closing", "failed"},
   startup : {"none", "ok", "err"},
   recovering : BOOLEAN]        \* a recover task is pending

Call ==
  [op : Operations \cup {"none"}, at : Places, name : Names, entry : Entries,
   proxy : Proxies \cup {Absent, External},     \* the endpoint it read
   seen : SUBSET Proxies,                       \* shutdown: still to signal
   todo : SUBSET Names,                         \* shutdown: still to stop
   failure : BOOLEAN, result : {"none", "ok", "err"}]

TypeOK ==
  /\ proxies \in [Names -> Proxies \cup {Absent, External}]
  /\ locks \in [Names -> Callers \cup {NoCaller}]
  /\ readers \subseteq Callers
  /\ writer \in Callers \cup {NoCaller}
  /\ shutting_down \in BOOLEAN
  /\ created \in 0 .. MaxProxies
  /\ proxy \in [Proxies -> Proxy]
  /\ losses \in 0 .. MaxLosses
  /\ call \in [Callers -> Call]
  /\ exited \in BOOLEAN

SomeName == CHOOSE n \in Names : TRUE
SomeEntry == CHOOSE e \in Entries : TRUE

\* discover_existing_sockets has run; the control socket is bound after it.
Init ==
  /\ proxies = [n \in Names |-> IF n \in Discovered THEN External ELSE Absent]
  /\ locks = [n \in Names |-> NoCaller]
  /\ readers = {}
  /\ writer = NoCaller
  /\ shutting_down = FALSE
  /\ created = 0
  /\ proxy = [p \in Proxies |->
                [name |-> SomeName, entry |-> SomeEntry, stop_requested |-> FALSE,
                 signalled |-> FALSE, phase |-> "none", startup |-> "none",
                 recovering |-> FALSE]]
  /\ losses = 0
  /\ call = [c \in Callers |->
               [op |-> "none", at |-> "idle", name |-> SomeName, entry |-> SomeEntry,
                proxy |-> Absent, seen |-> {}, todo |-> {}, failure |-> FALSE,
                result |-> "none"]]
  /\ exited = FALSE

-----------------------------------------------------------------------------
At(c, place) == call[c].at = place
NameOf(c) == call[c].name
Goto(c, place) == call' = [call EXCEPT ![c].at = place]

\* Leaves every guard the request holds.
Finish(c, outcome) ==
  /\ call' = [call EXCEPT ![c].at = "done", ![c].result = outcome]
  /\ locks' = [n \in Names |-> IF locks[n] = c THEN NoCaller ELSE locks[n]]
  /\ readers' = readers \ {c}
  /\ writer' = IF writer = c THEN NoCaller ELSE writer

Guards == <<locks, readers, writer>>
Rest == <<created, losses, exited>>

\* Faulty: the flag is set and the generation is not told.
FlagsOnly(p) == [proxy EXCEPT ![p].stop_requested = TRUE]

\* SocketProxy::request_stop also marks a generation that has retired already.
Signalled(p) == [proxy EXCEPT ![p].stop_requested = TRUE, ![p].signalled = TRUE]

Registered == {n \in Names : proxies[n] # Absent}
Owned == {proxies[n] : n \in Registered} \cap Proxies

Submit(c) ==
  /\ At(c, "idle")
  /\ ~exited
  /\ \E op \in Operations, n \in Names, e \in Entries :
       /\ op = "shutdown" => n = SomeName
       /\ op # "start" => e = SomeEntry
       /\ call' = [call EXCEPT ![c].op = op, ![c].name = n, ![c].entry = e,
                               ![c].at = IF op = "shutdown" THEN "flag" ELSE "gate"]
  /\ UNCHANGED <<proxies, Guards, shutting_down, proxy, Rest>>

EnterGate(c) ==
  /\ At(c, "gate")
  /\ writer = NoCaller
  /\ IF call[c].op = "shutdown"
       THEN readers = {} /\ writer' = c /\ Goto(c, "collect") /\ UNCHANGED readers
       ELSE /\ readers' = readers \cup {c}
            /\ Goto(c, IF call[c].op = "stop" THEN "early" ELSE "operation")
            /\ UNCHANGED writer
  /\ UNCHANGED <<proxies, locks, shutting_down, proxy, Rest>>

\* stop_server signals the server before it waits for its turn.
LookEarly(c) ==
  /\ At(c, "early")
  /\ call' = [call EXCEPT ![c].proxy = proxies[NameOf(c)],
                ![c].at = IF proxies[NameOf(c)] \in Proxies THEN "signal" ELSE "operation"]
  /\ UNCHANGED <<proxies, Guards, shutting_down, proxy, Rest>>

SignalEarly(c) ==
  /\ At(c, "signal")
  /\ proxy' = Signalled(call[c].proxy)
  /\ Goto(c, "operation")
  /\ UNCHANGED <<proxies, Guards, shutting_down, Rest>>

LockOperation(c) ==
  /\ At(c, "operation")
  /\ locks[NameOf(c)] = NoCaller
  /\ locks' = [locks EXCEPT ![NameOf(c)] = c]
  /\ Goto(c, IF call[c].op = "stop" THEN "examine" ELSE "admit")
  /\ UNCHANGED <<proxies, readers, writer, shutting_down, proxy, Rest>>

\* start and restart are refused while the pool shuts down.
Admit(c) ==
  /\ At(c, "admit")
  /\ IF shutting_down
       THEN Finish(c, "err")
       ELSE Goto(c, "examine") /\ UNCHANGED Guards
  /\ UNCHANGED <<proxies, shutting_down, proxy, Rest>>

\* Endpoint::configuration_entry: an external endpoint has none.
EntryOf(endpoint) == IF endpoint = External THEN NoEntry ELSE proxy[endpoint].entry

\* Whether the endpoint under the name belongs to another configuration entry.
Foreign(c) ==
  proxies[NameOf(c)] # Absent /\ EntryOf(proxies[NameOf(c)]) # call[c].entry

\* start: what the name holds decides between joining, replacing and creating.
ExamineStart(c) ==
  /\ At(c, "examine")
  /\ call[c].op = "start"
  /\ LET p == proxies[NameOf(c)] IN
       CASE Foreign(c) -> Finish(c, "err")
         [] p = External /\ ~Foreign(c) -> Finish(c, "ok")
         [] OTHER ->
              /\ call' = [call EXCEPT ![c].proxy = p,
                   ![c].at = CASE p = Absent -> "create"
                               [] p # Absent /\ proxy[p].phase \in {"setup", "running"} -> "launch"
                               [] OTHER -> "stop"]
              /\ UNCHANGED Guards
  /\ UNCHANGED <<proxies, shutting_down, proxy, Rest>>

\* register_identity fails, or the socket path of a new proxy cannot be built.
EnvironmentFails(c) ==
  /\ "environment" \in Failures
  /\ call[c].op = "start"
  /\ call[c].at \in {"examine", "create"}
  /\ ~(At(c, "examine") /\ Foreign(c))
  /\ Finish(c, "err")
  /\ UNCHANGED <<proxies, shutting_down, proxy, Rest>>

\* stop_server and restart: a missing server is no error, an external one is
\* forgotten by stop_server and left alone by restart.
Examine(c) ==
  /\ At(c, "examine")
  /\ call[c].op \in {"stop", "restart"}
  /\ LET p == proxies[NameOf(c)] IN
       IF p = Absent \/ (p = External /\ call[c].op = "restart")
         THEN Finish(c, "ok")
         ELSE /\ call' = [call EXCEPT ![c].proxy = p,
                            ![c].at = IF p = External THEN "remove" ELSE "stop"]
              /\ UNCHANGED Guards
  /\ UNCHANGED <<proxies, shutting_down, proxy, Rest>>

\* SocketProxy::stop sets the flag as well as the signal; restart only signals.
StopProxy(c) ==
  /\ At(c, "stop")
  /\ LET p == call[c].proxy IN
       proxy' = IF call[c].op = "restart"
                  THEN [proxy EXCEPT ![p].signalled = TRUE]
                  ELSE Signalled(p)
  /\ Goto(c, "retire")
  /\ UNCHANGED <<proxies, Guards, shutting_down, Rest>>

\* Where a request continues once its proxy has retired.
AfterRetirement(op) ==
  CASE op = "start" -> "create" [] op = "restart" -> "launch" [] OTHER -> "remove"

AwaitRetirement(c) ==
  /\ At(c, "retire")
  /\ proxy[call[c].proxy].phase = "none"
  /\ proxy' = [proxy EXCEPT ![call[c].proxy].stop_requested = FALSE]
  /\ Goto(c, AfterRetirement(call[c].op))
  /\ UNCHANGED <<proxies, Guards, shutting_down, Rest>>

\* Faulty: a server is unregistered although it has not retired.
RetirementFailsRemoves(c) ==
  /\ At(c, "retire")
  /\ proxy[call[c].proxy].phase = "failed"
  /\ proxies' = [proxies EXCEPT ![NameOf(c)] = Absent]
  /\ IF call[c].op = "shutdown"
       THEN /\ call' = [call EXCEPT ![c].at = "next", ![c].failure = TRUE]
            /\ UNCHANGED Guards
       ELSE Finish(c, "err")
  /\ UNCHANGED <<shutting_down, proxy, Rest>>

\* Faulty: a shutdown logs the failure and reports success.
RetirementFailsSilently(c) ==
  /\ At(c, "retire")
  /\ proxy[call[c].proxy].phase = "failed"
  /\ IF call[c].op = "shutdown"
       THEN Goto(c, "next") /\ UNCHANGED Guards
       ELSE Finish(c, "err")
  /\ UNCHANGED <<proxies, shutting_down, proxy, Rest>>

RetirementFails(c) ==
  /\ At(c, "retire")
  /\ proxy[call[c].proxy].phase = "failed"
  /\ IF call[c].op = "shutdown"
       THEN /\ call' = [call EXCEPT ![c].at = "next", ![c].failure = TRUE]
            /\ UNCHANGED Guards
       ELSE Finish(c, "err")
  /\ UNCHANGED <<proxies, shutting_down, proxy, Rest>>

Remove(c) ==
  /\ At(c, "remove")
  /\ proxies' = [proxies EXCEPT ![NameOf(c)] = Absent]
  /\ IF call[c].op = "shutdown"
       THEN Goto(c, "next") /\ UNCHANGED Guards
       ELSE Finish(c, "ok")
  /\ UNCHANGED <<shutting_down, proxy, Rest>>

\* The new proxy is registered before the flag is read again, so that a
\* shutdown either sees the proxy or is seen.
Create(c) ==
  /\ At(c, "create")
  /\ created < MaxProxies
  /\ created' = created + 1
  /\ proxy' = [proxy EXCEPT ![created + 1].name = NameOf(c),
                            ![created + 1].entry = call[c].entry]
  /\ proxies' = [proxies EXCEPT ![NameOf(c)] = created + 1]
  /\ call' = [call EXCEPT ![c].proxy = created + 1, ![c].at = "recheck"]
  /\ UNCHANGED <<Guards, shutting_down, losses, exited>>

Recheck(c) ==
  /\ At(c, "recheck")
  /\ IF shutting_down
       THEN Finish(c, "err") /\ proxies' = [proxies EXCEPT ![NameOf(c)] = Absent]
       ELSE Goto(c, "launch") /\ UNCHANGED <<proxies, Guards>>
  /\ UNCHANGED <<shutting_down, proxy, Rest>>

\* SocketProxy::start_locked: refuse, join, or publish a generation.
Launch(c) ==
  /\ At(c, "launch")
  /\ IF proxy[call[c].proxy].stop_requested \/ proxy[call[c].proxy].phase = "failed"
       THEN Finish(c, "err")
       ELSE Goto(c, "publish") /\ UNCHANGED Guards
  /\ UNCHANGED <<proxies, shutting_down, proxy, Rest>>

Fresh(p) == [proxy EXCEPT ![p].phase = "setup", ![p].startup = "none",
                          ![p].recovering = FALSE,
                          ![p].signalled = proxy[p].stop_requested]

Publish(c) ==
  /\ At(c, "publish")
  /\ LET p == call[c].proxy IN
       \/ /\ proxy[p].phase \in {"setup", "running"}
          /\ ~proxy[p].signalled
          /\ Goto(c, "startup")
          /\ UNCHANGED <<proxy, Guards>>
       \/ /\ proxy[p].phase = "none"
          /\ proxy' = Fresh(p)
          /\ Goto(c, "startup")
          /\ UNCHANGED Guards
       \/ /\ proxy[p].phase = "failed"
          /\ Finish(c, "err")
          /\ UNCHANGED proxy
  /\ UNCHANGED <<proxies, shutting_down, Rest>>

AwaitStartup(c) ==
  /\ At(c, "startup")
  /\ proxy[call[c].proxy].startup # "none"
  /\ Finish(c, proxy[call[c].proxy].startup)
  /\ UNCHANGED <<proxies, shutting_down, proxy, Rest>>

-----------------------------------------------------------------------------
(* Shutdown.                                                               *)

Flag(c) ==
  /\ At(c, "flag")
  /\ shutting_down' = TRUE
  /\ Goto(c, "snapshot")
  /\ UNCHANGED <<proxies, Guards, proxy, Rest>>

Snapshot(c) ==
  /\ At(c, "snapshot")
  /\ call' = [call EXCEPT ![c].seen = Owned, ![c].at = "sweep"]
  /\ UNCHANGED <<proxies, Guards, shutting_down, proxy, Rest>>

\* One request_stop at a time, before the gate and again behind it.
Sweep(c) ==
  /\ call[c].at \in {"sweep", "announce"}
  /\ \/ \E p \in call[c].seen :
          /\ proxy' = Signalled(p)
          /\ call' = [call EXCEPT ![c].seen = @ \ {p}]
     \/ /\ call[c].seen = {}
        /\ Goto(c, IF At(c, "sweep") THEN "gate" ELSE "next")
        /\ UNCHANGED proxy
  /\ UNCHANGED <<proxies, Guards, shutting_down, Rest>>

\* Faulty: proxies are signalled one by one as they are stopped.
CollectWithoutSignals(c) ==
  /\ At(c, "collect")
  /\ call' = [call EXCEPT ![c].todo = Registered, ![c].at = "announce"]
  /\ UNCHANGED <<proxies, Guards, shutting_down, proxy, Rest>>

Collect(c) ==
  /\ At(c, "collect")
  /\ call' = [call EXCEPT ![c].seen = Owned, ![c].todo = Registered, ![c].at = "announce"]
  /\ UNCHANGED <<proxies, Guards, shutting_down, proxy, Rest>>

StopNext(c) ==
  /\ At(c, "next")
  /\ \/ \E n \in call[c].todo :
          call' = [call EXCEPT ![c].name = n, ![c].todo = @ \ {n}, ![c].proxy = proxies[n],
                     ![c].at = IF proxies[n] = External THEN "remove" ELSE "stop"]
     \/ call[c].todo = {} /\ Goto(c, "close")
  /\ UNCHANGED <<proxies, Guards, shutting_down, proxy, Rest>>

\* Faulty: the flag outlives a failed shutdown.
CloseKeepsFlag(c) ==
  /\ At(c, "close")
  /\ Finish(c, IF call[c].failure THEN "err" ELSE "ok")
  /\ UNCHANGED <<proxies, shutting_down, proxy, Rest>>

\* A failed shutdown admits requests again.
Close(c) ==
  /\ At(c, "close")
  /\ shutting_down' = IF call[c].failure THEN FALSE ELSE shutting_down
  /\ Finish(c, IF call[c].failure THEN "err" ELSE "ok")
  /\ UNCHANGED <<proxies, proxy, Rest>>

\* handle_connection answers a successful shutdown, then ends the accept loop.
Exit(c) ==
  /\ At(c, "done")
  /\ call[c].op = "shutdown"
  /\ call[c].result = "ok"
  /\ ~exited
  /\ exited' = TRUE
  /\ UNCHANGED <<proxies, Guards, shutting_down, created, proxy, losses, call>>

-----------------------------------------------------------------------------
(* What the proxies do by themselves; see SocketProxy.                     *)

Beside == <<proxies, Guards, shutting_down, created, call, exited>>

\* Faulty: the two are swapped.
TurnSwapped(p, phase, startup) ==
  proxy' = [proxy EXCEPT ![p].startup = phase, ![p].phase = startup]

Turn(p, phase, startup) ==
  proxy' = [proxy EXCEPT ![p].phase = phase, ![p].startup = startup]

SetupEnds(p) ==
  /\ proxy[p].phase = "setup"
  /\ \/ ~proxy[p].signalled /\ Turn(p, "running", "ok")
     \/ proxy[p].signalled /\ Turn(p, "closing", "err")
     \/ "setup" \in Failures /\ Turn(p, "none", "err")
     \/ "unverified" \in Failures /\ Turn(p, "failed", "err")
  /\ UNCHANGED <<Beside, losses>>

SignalTaken(p) ==
  /\ proxy[p].phase = "running"
  /\ proxy[p].signalled
  /\ Turn(p, "closing", proxy[p].startup)
  /\ UNCHANGED <<Beside, losses>>

UpstreamExits(p) ==
  /\ "exit" \in Failures
  /\ proxy[p].phase = "running"
  /\ Turn(p, "closing", proxy[p].startup)
  /\ UNCHANGED <<Beside, losses>>

SessionLost(p) ==
  /\ losses < MaxLosses
  /\ losses' = losses + 1
  /\ proxy[p].phase = "running"
  /\ proxy' = [proxy EXCEPT ![p].phase = "closing", ![p].recovering = TRUE]
  /\ UNCHANGED Beside

Retires(p) ==
  /\ proxy[p].phase = "closing"
  /\ \/ Turn(p, "none", proxy[p].startup)
     \/ "unverified" \in Failures /\ Turn(p, "failed", proxy[p].startup)
  /\ UNCHANGED <<Beside, losses>>

\* SocketProxy::recover
Recovers(p) ==
  /\ proxy[p].phase = "none"
  /\ proxy[p].recovering
  /\ proxy' = IF proxy[p].signalled \/ proxy[p].stop_requested
                THEN [proxy EXCEPT ![p].recovering = FALSE]
                ELSE Fresh(p)
  /\ UNCHANGED <<Beside, losses>>

-----------------------------------------------------------------------------
Handle(c) ==
  \/ EnterGate(c) \/ LookEarly(c) \/ SignalEarly(c) \/ LockOperation(c) \/ Admit(c)
  \/ ExamineStart(c) \/ EnvironmentFails(c) \/ Examine(c) \/ StopProxy(c) \/ AwaitRetirement(c)
  \/ RetirementFails(c) \/ Remove(c) \/ Create(c) \/ Recheck(c) \/ Launch(c)
  \/ Publish(c) \/ AwaitStartup(c) \/ Flag(c) \/ Snapshot(c) \/ Sweep(c)
  \/ Collect(c) \/ StopNext(c) \/ Close(c) \/ Exit(c)

Work(p) == SetupEnds(p) \/ SignalTaken(p) \/ Retires(p) \/ Recovers(p)

AtRest ==
  /\ \A c \in Callers : At(c, "done") \/ (exited /\ At(c, "idle"))
  /\ UNCHANGED vars

Next ==
  \/ \E c \in Callers : Submit(c) \/ Handle(c)
  \/ \E p \in Proxies : Work(p) \/ UpstreamExits(p) \/ SessionLost(p)
  \/ AtRest

Spec == Init /\ [][Next]_vars

(***************************************************************************)
(* Requests are tokio tasks and proxies work by themselves.  The locks     *)
(* queue their waiters; with finitely many requests weak fairness is       *)
(* enough for that.                                                        *)
(***************************************************************************)
Fairness ==
  /\ \A c \in Callers : WF_vars(Handle(c))
  /\ \A p \in Proxies : WF_vars(Work(p))

FairSpec == Spec /\ Fairness

-----------------------------------------------------------------------------
(* Correctness.                                                            *)

Live(p) == proxy[p].phase # "none"
ShutDown == {c \in Callers : call[c].op = "shutdown"}

\* Whatever may be running is the endpoint registered under its name: a later
\* stop or shutdown finds it, status shows it, and no two proxies of one name
\* have upstreams at a time, across replacement, recovery and failed retirement
\* (README: it leaves the pool failed and blocks replacement).
LiveIsRegistered == \A p \in Proxies : Live(p) => proxies[proxy[p].name] = p

\* Once a shutdown has succeeded nothing runs and nothing is registered, so
\* the daemon that then exits leaves no upstream (daemon.rs: a successful
\* shutdown retires the pool before acknowledging and stopping accepts).
ShutdownIsComplete ==
  (\E c \in ShutDown : call[c].result = "ok") => Registered = {} /\ \A p \in Proxies : ~Live(p)

\* When a shutdown starts to wait for retirements it has signalled every
\* upstream, replacements by restarts admitted earlier included (README).
ShutdownSignalsFirst ==
  \A c \in ShutDown, p \in Proxies :
    call[c].at \in {"next", "stop", "retire", "remove"} /\ proxy[p].phase \in {"setup", "running"}
      => proxy[p].signalled

\* A shutdown signals every upstream before it waits for one, and has retired
\* every one when it succeeds (pool.rs, shutdown).
ShutdownIsOrderly == ShutdownSignalsFirst /\ ShutdownIsComplete

\* A pool refuses starts only for a shutdown that is under way or has
\* succeeded (README: the daemon resumes accepting lifecycle commands).
ResumesAfterFailure ==
  shutting_down => \E c \in ShutDown : call[c].at \notin {"idle", "flag"} /\ call[c].result # "err"

\* Every control request is answered.
EveryRequestReturns == \A c \in Callers : call[c].op # "none" ~> At(c, "done")
=============================================================================
