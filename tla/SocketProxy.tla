----------------------------- MODULE SocketProxy -----------------------------
(***************************************************************************)
(* The lifecycle of one pooled server: callers that start, stop and        *)
(* restart it, the generations that serve it one after the other, the task *)
(* that owns each generation's upstream from setup to retirement, and the  *)
(* task that replaces a generation whose session is lost.  Source:         *)
(* socket_proxy.rs (SocketProxy), socket_proxy_generation.rs (Generation,  *)
(* spawn_owner_with) and upstream.rs (UpstreamHandle, SetupFailure).       *)
(*                                                                         *)
(* A task takes one step per access to state that another task may change  *)
(* in between: the stop_requested flag, the published generation, its      *)
(* flags and its two watch channels are read and written in separate       *)
(* steps.  The operation mutex excludes callers from one another, never    *)
(* from request_stop nor from an owner task.                               *)
(*                                                                         *)
(* Routing, clients and deadlines are the subject of SessionRoutes; the    *)
(* accept and expiration loops, which follow the owner's shutdown pattern, *)
(* are reduced to their join.                                              *)
(***************************************************************************)
EXTENDS Integers, FiniteSets

CONSTANTS
  Callers,          \* the calls of one behaviour, one operation each
  Operations,       \* the operations they may be: start, stop, restart
  MaxGenerations,   \* bound: generations one behaviour publishes
  MaxLosses,        \* bound: generations whose session the upstream forgets
  Failures          \* what may go wrong in a run

Generations == 1 .. MaxGenerations
Tasks == Callers \cup Generations     \* generation g's recover task is g

ASSUME ProxyAssumption ==
  /\ Callers \cap Nat = {}
  /\ Operations \subseteq {"start", "stop", "restart"}
  /\ MaxGenerations \in Nat
  /\ MaxLosses \in Nat
  /\ Failures \subseteq {"bind", "setup", "unverified", "exit", "local", "panic"}

NoTask == 0         \* no generation has this number

VARIABLES
  operation,        \* who holds SocketProxy.operation
  stop_requested,   \* SocketProxy.stop_requested
  status,           \* SocketProxy.status
  published,        \* SocketProxy.generation: its number, 0 for None
  socket,           \* the generation listening on the socket path, 0 for none
  gen,              \* [Generations -> Generation]
  task,             \* [Tasks -> the call's operation and where it is]
  since             \* history: the starts and restarts that were under way
                    \* when a stop last succeeded, and those called later

vars == <<operation, stop_requested, status, published, socket, gen, task, since>>

Places == {"idle", "request", "read", "mark", "shut", "wake", "locking", "recover",
           "stop", "retire", "stopped", "start", "previous", "publish", "bind",
           "recheck", "spawn", "startup", "done"}

OwnerPlaces == {"none", "setup", "started", "announce", "loop", "arming", "armed",
                "select", "draining", "closing", "retiring", "joining", "retired", "done"}

Outcomes == {"none", "ok", "err"}         \* Completion: None, Ok, Err

Generation ==
  [explicit_stop : BOOLEAN, shutdown : BOOLEAN, startup : Outcomes, completion : Outcomes,
   owner : OwnerPlaces,
   woken : BOOLEAN,             \* shutdown_notify reached the owner's armed future
   reason : BOOLEAN,            \* recovery_rx holds a reason
   recover : BOOLEAN,
   retirement : Outcomes,       \* what the owner task returned
   upstream : {"none", "starting", "running", "exited", "retired", "unverified"}]

Task ==
  [op : {"none", "start", "stop", "restart", "recover"}, at : Places,
   saw : Generations \cup {0},  \* the generation it read
   then : Places,               \* where signal_shutdown returns to
   result : Outcomes]

TypeOK ==
  /\ operation \in Tasks \cup {NoTask}
  /\ stop_requested \in BOOLEAN
  /\ status \in {"Stopped", "Starting", "Running", "Stopping", "Failed"}
  /\ published \in 0 .. MaxGenerations
  /\ socket \in 0 .. MaxGenerations
  /\ gen \in [Generations -> Generation]
  /\ task \in [Tasks -> Task]
  /\ since \subseteq Callers

Init ==
  /\ operation = NoTask
  /\ stop_requested = FALSE
  /\ status = "Stopped"
  /\ published = 0
  /\ socket = 0
  /\ gen = [g \in Generations |->
              [explicit_stop |-> FALSE, shutdown |-> FALSE, startup |-> "none",
               completion |-> "none", owner |-> "none", woken |-> FALSE, reason |-> FALSE,
               recover |-> FALSE, retirement |-> "none", upstream |-> "none"]]
  /\ task = [t \in Tasks |->
               [op |-> IF t \in Generations THEN "recover" ELSE "none", at |-> "idle",
                saw |-> 0, then |-> "idle", result |-> "none"]]
  /\ since = {}

\* An upstream that may still be running.
Live == {"starting", "running", "exited", "unverified"}
LiveGenerations == {g \in Generations : gen[g].upstream \in Live}

-----------------------------------------------------------------------------
(* Callers.                                                                *)

At(t, place) == task[t].at = place

Goto(t, place) == task' = [task EXCEPT ![t].at = place]

Signal(t, g, place) ==
  task' = [task EXCEPT ![t].at = "mark", ![t].saw = g, ![t].then = place]

Return(t, outcome) ==
  /\ task' = [task EXCEPT ![t].at = "done", ![t].result = outcome]
  /\ operation' = NoTask

Call(c) ==
  /\ At(c, "idle")
  /\ \E op \in Operations :
       /\ task' = [task EXCEPT ![c].op = op,
                               ![c].at = IF op = "stop" THEN "request" ELSE "locking"]
       /\ since' = IF op = "stop" THEN since ELSE since \cup {c}
  /\ UNCHANGED <<operation, stop_requested, status, published, socket, gen>>

\* request_stop stores the flag, then reads the generation.
Request(c) ==
  /\ At(c, "request")
  /\ stop_requested' = TRUE
  /\ Goto(c, "read")
  /\ UNCHANGED <<operation, status, published, socket, gen, since>>

Read(c) ==
  /\ At(c, "read")
  /\ IF published = 0 THEN Goto(c, "locking") ELSE Signal(c, published, "locking")
  /\ UNCHANGED <<operation, stop_requested, status, published, socket, gen, since>>

\* signal_shutdown: explicit_stop, shutdown, notify_waiters.
Mark(t) ==
  /\ At(t, "mark")
  /\ gen' = [gen EXCEPT ![task[t].saw].explicit_stop = TRUE]
  /\ Goto(t, "shut")
  /\ UNCHANGED <<operation, stop_requested, status, published, socket, since>>

Shut(t) ==
  /\ At(t, "shut")
  /\ gen' = [gen EXCEPT ![task[t].saw].shutdown = TRUE]
  /\ Goto(t, "wake")
  /\ UNCHANGED <<operation, stop_requested, status, published, socket, since>>

\* notify_waiters reaches only a notified() future that exists already.
Registered(g) == gen[g].owner \in {"armed", "select", "draining"}

Wake(t) ==
  /\ At(t, "wake")
  /\ gen' = [gen EXCEPT ![task[t].saw].woken = @ \/ Registered(task[t].saw)]
  /\ Goto(t, task[t].then)
  /\ UNCHANGED <<operation, stop_requested, status, published, socket, since>>

Entry(op) ==
  CASE op = "start" -> "start"
    [] op \in {"stop", "restart"} -> "stop"
    [] OTHER -> "recover"

Lock(t) ==
  /\ At(t, "locking")
  /\ operation = NoTask
  /\ operation' = t
  /\ Goto(t, Entry(task[t].op))
  /\ UNCHANGED <<stop_requested, status, published, socket, gen, since>>

\* Faulty: stop_locked does not wait for the generation it has signalled.
StopSignalsOnly(t) ==
  /\ At(t, "stop")
  /\ IF published = 0 THEN Goto(t, "stopped") ELSE Signal(t, published, "stopped")
  /\ UNCHANGED <<operation, stop_requested, status, published, socket, gen, since>>

\* stop_locked
StopLocked(t) ==
  /\ At(t, "stop")
  /\ IF published = 0 THEN Goto(t, "stopped") ELSE Signal(t, published, "retire")
  /\ UNCHANGED <<operation, stop_requested, status, published, socket, gen, since>>

\* Faulty: the wait is on the startup channel.
AwaitStartupInstead(t) ==
  /\ At(t, "retire")
  /\ gen[task[t].saw].startup # "none"
  /\ Goto(t, IF task[t].then = "publish" THEN "publish" ELSE "stopped")
  /\ UNCHANGED <<operation, stop_requested, status, published, socket, gen, since>>

\* Faulty: a failed retirement is waited for and then ignored.
AwaitAnyRetirement(t) ==
  /\ At(t, "retire")
  /\ gen[task[t].saw].completion # "none"
  /\ Goto(t, IF task[t].then = "publish" THEN "publish" ELSE "stopped")
  /\ UNCHANGED <<operation, stop_requested, status, published, socket, gen, since>>

AwaitRetirement(t) ==
  /\ At(t, "retire")
  /\ gen[task[t].saw].completion # "none"
  /\ IF gen[task[t].saw].completion = "err"
       THEN Return(t, "err")
       ELSE /\ Goto(t, IF task[t].then = "publish" THEN "publish" ELSE "stopped")
            /\ UNCHANGED operation
  /\ UNCHANGED <<stop_requested, status, published, socket, gen, since>>

Stopped(t) ==
  /\ At(t, "stopped")
  /\ status' = "Stopped"
  /\ stop_requested' = FALSE
  /\ IF task[t].op = "restart"
       THEN Goto(t, "start") /\ UNCHANGED <<operation, since>>
       ELSE /\ Return(t, "ok")
            /\ since' = {c \in since : ~At(c, "done")}
  /\ UNCHANGED <<published, socket, gen>>

\* Faulty: a recovery checks that it is current and not that it was stopped.
SupersededByPublication(t) == published # t

\* recover: the task runs only after its generation's completion was sent.
Superseded(t) == gen[t].explicit_stop \/ published # t

Recover(t) ==
  /\ At(t, "recover")
  /\ IF Superseded(t)
       THEN Return(t, "none")
       ELSE Goto(t, "start") /\ UNCHANGED operation
  /\ UNCHANGED <<stop_requested, status, published, socket, gen, since>>

\* start_locked
Refused == stop_requested \/ (published # 0 /\ gen[published].completion = "err")

Start(t) ==
  /\ At(t, "start")
  /\ IF Refused
       THEN Return(t, "err")
       ELSE Goto(t, "previous") /\ UNCHANGED operation
  /\ UNCHANGED <<stop_requested, status, published, socket, gen, since>>

Serving(g) == ~gen[g].shutdown /\ gen[g].completion = "none"

\* It joins a generation in service, and waits for any other to retire.
Previous(t) ==
  /\ At(t, "previous")
  /\ IF published = 0
       THEN Goto(t, "publish")
       ELSE task' = [task EXCEPT ![t].saw = published, ![t].then = "publish",
                                 ![t].at = IF Serving(published) THEN "startup" ELSE "retire"]
  /\ UNCHANGED <<operation, stop_requested, status, published, socket, gen, since>>

Publish(t) ==
  /\ At(t, "publish")
  /\ published < MaxGenerations
  /\ published' = published + 1
  /\ status' = "Starting"
  /\ task' = [task EXCEPT ![t].at = "bind", ![t].saw = published + 1]
  /\ UNCHANGED <<operation, stop_requested, socket, gen, since>>

Bind(t) ==
  /\ At(t, "bind")
  /\ socket' = task[t].saw
  /\ Goto(t, "recheck")
  /\ UNCHANGED <<operation, stop_requested, status, published, gen, since>>

\* fail_binding: nothing was launched, so the retirement is confirmed.
BindFails(t) ==
  /\ At(t, "bind")
  /\ "bind" \in Failures
  /\ gen' = [gen EXCEPT ![task[t].saw].startup = "err", ![task[t].saw].shutdown = TRUE,
                        ![task[t].saw].completion = "ok"]
  /\ status' = "Stopped"
  /\ Return(t, "err")
  /\ UNCHANGED <<stop_requested, published, socket, since>>

\* A stop requested before the generation was published has not signalled it.
Recheck(t) ==
  /\ At(t, "recheck")
  /\ IF stop_requested THEN Signal(t, task[t].saw, "spawn") ELSE Goto(t, "spawn")
  /\ UNCHANGED <<operation, stop_requested, status, published, socket, gen, since>>

SpawnOwner(t) ==
  /\ At(t, "spawn")
  /\ gen' = [gen EXCEPT ![task[t].saw].owner = "setup", ![task[t].saw].upstream = "starting"]
  /\ Goto(t, "startup")
  /\ UNCHANGED <<operation, stop_requested, status, published, socket, since>>

AwaitStartup(t) ==
  /\ At(t, "startup")
  /\ gen[task[t].saw].startup # "none"
  /\ Return(t, gen[task[t].saw].startup)
  /\ UNCHANGED <<stop_requested, status, published, socket, gen, since>>

-----------------------------------------------------------------------------
(* The owner of a generation.                                              *)

Owner(g, place) == gen[g].owner = place

OwnerGoto(g, place) == gen' = [gen EXCEPT ![g].owner = place]

SetupReturns(g) ==
  /\ Owner(g, "setup")
  /\ gen' = [gen EXCEPT ![g].owner = "started", ![g].upstream = "running"]
  /\ UNCHANGED <<operation, stop_requested, status, published, socket, task, since>>

\* Faulty: the failure's kind is lost when it is converted to an io::Error.
SetupFailsVerified(g) ==
  /\ Owner(g, "setup")
  /\ \E failure \in Failures \cap {"setup", "unverified"} :
       gen' = [gen EXCEPT ![g].owner = "closing", ![g].startup = "err",
                 ![g].retirement = "ok",
                 ![g].upstream = IF failure = "setup" THEN "retired" ELSE "unverified"]
  /\ UNCHANGED <<operation, stop_requested, status, published, socket, task, since>>

\* SetupFailure::Failed and SetupFailure::RetirementUnverified.
SetupFails(g) ==
  /\ Owner(g, "setup")
  /\ \E failure \in Failures \cap {"setup", "unverified"} :
       gen' = [gen EXCEPT ![g].owner = "closing", ![g].startup = "err",
                 ![g].retirement = IF failure = "setup" THEN "ok" ELSE "err",
                 ![g].upstream = IF failure = "setup" THEN "retired" ELSE "unverified"]
  /\ UNCHANGED <<operation, stop_requested, status, published, socket, task, since>>

OwnerStarts(g) ==
  /\ Owner(g, "started")
  /\ gen' = [gen EXCEPT ![g].owner = IF gen[g].shutdown THEN "loop" ELSE "announce",
                        ![g].startup = IF gen[g].shutdown THEN "err" ELSE @]
  /\ UNCHANGED <<operation, stop_requested, status, published, socket, task, since>>

OwnerAnnounces(g) ==
  /\ Owner(g, "announce")
  /\ status' = "Running"
  /\ gen' = [gen EXCEPT ![g].owner = "loop", ![g].startup = "ok"]
  /\ UNCHANGED <<operation, stop_requested, published, socket, task, since>>

\* while !shutdown { enable the notification; check again; select }
OwnerLoops(g) ==
  /\ Owner(g, "loop")
  /\ OwnerGoto(g, IF gen[g].shutdown THEN "closing" ELSE "arming")
  /\ UNCHANGED <<operation, stop_requested, status, published, socket, task, since>>

\* Faulty: the flag is not checked again once the notification is enabled.
OwnerArmsUnchecked(g) ==
  /\ Owner(g, "arming")
  /\ gen' = [gen EXCEPT ![g].owner = "select", ![g].woken = FALSE]
  /\ UNCHANGED <<operation, stop_requested, status, published, socket, task, since>>

OwnerArms(g) ==
  /\ Owner(g, "arming")
  /\ gen' = [gen EXCEPT ![g].owner = "armed", ![g].woken = FALSE]
  /\ UNCHANGED <<operation, stop_requested, status, published, socket, task, since>>

OwnerChecks(g) ==
  /\ Owner(g, "armed")
  /\ OwnerGoto(g, IF gen[g].shutdown THEN "closing" ELSE "select")
  /\ UNCHANGED <<operation, stop_requested, status, published, socket, task, since>>

OwnerIsWoken(g) ==
  /\ Owner(g, "select")
  /\ gen[g].woken
  /\ OwnerGoto(g, "closing")
  /\ UNCHANGED <<operation, stop_requested, status, published, socket, task, since>>

Losses == Cardinality({g \in Generations : gen[g].reason})

\* A message is routed; the upstream's "session not found" queues a reason.
OwnerRoutes(g) ==
  /\ Owner(g, "select")
  /\ \E lost \in BOOLEAN :
       /\ lost => Losses < MaxLosses
       /\ gen' = [gen EXCEPT ![g].owner = "loop", ![g].reason = @ \/ lost]
  /\ UNCHANGED <<operation, stop_requested, status, published, socket, task, since>>

OwnerRecovers(g) ==
  /\ Owner(g, "select")
  /\ gen[g].reason
  /\ gen' = [gen EXCEPT ![g].owner = "closing", ![g].recover = TRUE]
  /\ UNCHANGED <<operation, stop_requested, status, published, socket, task, since>>

\* The upstream exits by itself: the process ends, or the stream is closed.
UpstreamExits(g) ==
  /\ "exit" \in Failures
  /\ gen[g].upstream = "running"
  /\ gen' = [gen EXCEPT ![g].upstream = "exited"]
  /\ UNCHANGED <<operation, stop_requested, status, published, socket, task, since>>

OwnerSeesExit(g) ==
  /\ Owner(g, "select")
  /\ gen[g].upstream = "exited"
  /\ status' = "Stopping"
  /\ OwnerGoto(g, "draining")
  /\ UNCHANGED <<operation, stop_requested, published, socket, task, since>>

\* The last responses may report a lost session; shutdown cuts the drain short.
OwnerDrains(g) ==
  /\ Owner(g, "draining")
  /\ \E lost \in BOOLEAN :
       /\ lost => Losses < MaxLosses
       /\ gen' = [gen EXCEPT ![g].owner = "closing", ![g].reason = @ \/ lost,
                             ![g].recover = gen[g].reason \/ lost]
  /\ UNCHANGED <<operation, stop_requested, status, published, socket, task, since>>

\* response_rx is closed before the exit is seen: the loop ends at once.
OwnerLosesResponses(g) ==
  /\ Owner(g, "select")
  /\ gen[g].upstream = "exited"
  /\ OwnerGoto(g, "closing")
  /\ UNCHANGED <<operation, stop_requested, status, published, socket, task, since>>

\* Faulty: the owner closes its generation as an explicit stop would.
OwnerSignals(g) ==
  /\ Owner(g, "closing")
  /\ gen' = [gen EXCEPT ![g].shutdown = TRUE, ![g].explicit_stop = TRUE,
               ![g].owner = IF gen[g].retirement = "none" THEN "retiring" ELSE "joining"]
  /\ status' = IF gen[g].retirement = "none" THEN "Stopping" ELSE status
  /\ UNCHANGED <<operation, stop_requested, published, socket, task, since>>

OwnerCloses(g) ==
  /\ Owner(g, "closing")
  /\ gen' = [gen EXCEPT ![g].shutdown = TRUE,
               ![g].owner = IF gen[g].retirement = "none" THEN "retiring" ELSE "joining"]
  /\ status' = IF gen[g].retirement = "none" THEN "Stopping" ELSE status
  /\ UNCHANGED <<operation, stop_requested, published, socket, task, since>>

\* handle.shutdown() waits for the upstream's own completion.
UpstreamRetires(g) ==
  /\ Owner(g, "retiring")
  /\ \E verified \in BOOLEAN :
       /\ verified \/ "unverified" \in Failures
       /\ gen' = [gen EXCEPT ![g].owner = "joining",
                    ![g].retirement = IF verified THEN "ok" ELSE "err",
                    ![g].upstream = IF verified THEN "retired" ELSE "unverified"]
  /\ UNCHANGED <<operation, stop_requested, status, published, socket, task, since>>

\* The task that runs the backend dies: owner.await returns an error.
OwnerPanics(g) ==
  /\ "panic" \in Failures
  /\ gen[g].owner \in OwnerPlaces \ {"none", "joining", "retired", "done"}
  /\ gen[g].retirement = "none"
  /\ gen' = [gen EXCEPT ![g].owner = "closing", ![g].retirement = "err", ![g].recover = FALSE,
               ![g].startup = IF @ = "none" THEN "err" ELSE @,
               ![g].upstream = "unverified"]
  /\ UNCHANGED <<operation, stop_requested, status, published, socket, task, since>>

\* Faulty: the status is the outcome of the retirement.
OwnerJoinsWithOutcome(g) ==
  /\ Owner(g, "joining")
  /\ gen' = [gen EXCEPT ![g].owner = "retired"]
  /\ status' = gen[g].retirement
  /\ socket' = 0
  /\ UNCHANGED <<operation, stop_requested, published, task, since>>

\* The loops are joined, the state is cleared and the socket path is removed.
OwnerJoins(g) ==
  /\ Owner(g, "joining")
  /\ \E joined, removed \in BOOLEAN :
       /\ (joined /\ removed) \/ "local" \in Failures
       /\ LET retirement == IF joined /\ removed THEN gen[g].retirement ELSE "err" IN
            /\ gen' = [gen EXCEPT ![g].owner = "retired", ![g].retirement = retirement]
            /\ status' = IF retirement = "ok" THEN "Stopped" ELSE "Failed"
            /\ socket' = IF removed THEN 0 ELSE socket
  /\ UNCHANGED <<operation, stop_requested, published, task, since>>

\* The completion is sent, then a recovery is spawned.
OwnerCompletes(g) ==
  /\ Owner(g, "retired")
  /\ gen' = [gen EXCEPT ![g].owner = "done", ![g].completion = gen[g].retirement]
  /\ task' = IF gen[g].recover /\ gen[g].retirement = "ok"
               THEN [task EXCEPT ![g].at = "locking"]
               ELSE task
  /\ UNCHANGED <<operation, stop_requested, status, published, socket, since>>

-----------------------------------------------------------------------------
RequestStop(c) == Request(c) \/ Read(c)

Step(t) ==
  \/ Mark(t) \/ Shut(t) \/ Wake(t) \/ Lock(t)
  \/ StopLocked(t) \/ AwaitRetirement(t) \/ Stopped(t)
  \/ Start(t) \/ Previous(t) \/ Publish(t) \/ Bind(t) \/ BindFails(t)
  \/ Recheck(t) \/ SpawnOwner(t) \/ AwaitStartup(t)

\* What an owner does by itself, and what makes it act.
OwnerStep(g) ==
  \/ SetupReturns(g) \/ SetupFails(g) \/ OwnerStarts(g) \/ OwnerAnnounces(g)
  \/ OwnerLoops(g) \/ OwnerArms(g) \/ OwnerChecks(g) \/ OwnerIsWoken(g)
  \/ OwnerRecovers(g) \/ OwnerSeesExit(g) \/ OwnerDrains(g) \/ OwnerLosesResponses(g)
  \/ OwnerCloses(g) \/ UpstreamRetires(g) \/ OwnerJoins(g) \/ OwnerCompletes(g)

OwnerEvent(g) == OwnerRoutes(g) \/ UpstreamExits(g) \/ OwnerPanics(g)

\* Every call has returned and every generation has been retired.
AtRest ==
  /\ \A c \in Callers : At(c, "done")
  /\ \A g \in Generations : task[g].at \in {"idle", "done"} /\ gen[g].owner \in {"none", "done"}
  /\ UNCHANGED vars

Next ==
  \/ \E c \in Callers : Call(c) \/ RequestStop(c)
  \/ \E t \in Tasks : Step(t)
  \/ \E g \in Generations : Recover(g) \/ OwnerStep(g) \/ OwnerEvent(g)
  \/ AtRest

Spec == Init /\ [][Next]_vars

(***************************************************************************)
(* Each task runs (tokio), setup and retirement of an upstream end (their  *)
(* own deadlines), and select picks its branches at random, so a reason    *)
(* that stays queued is taken in the end.  Messages and exits of the       *)
(* upstream need not happen.  The mutex queues its waiters; with finitely  *)
(* many calls weak fairness is enough for that.                            *)
(***************************************************************************)
Fairness ==
  /\ \A c \in Callers : WF_vars(RequestStop(c))
  /\ \A t \in Tasks : WF_vars(Step(t))
  /\ \A g \in Generations :
       WF_vars(Recover(g)) /\ WF_vars(OwnerStep(g)) /\ SF_vars(OwnerRecovers(g))

FairSpec == Spec /\ Fairness

-----------------------------------------------------------------------------
(* Correctness.                                                            *)

Holder == IF LiveGenerations = {} THEN 0 ELSE CHOOSE g \in LiveGenerations : TRUE
Launched == {g \in Generations : gen[g].upstream # "none"}
LastLaunched ==
  IF Launched = {} THEN 0 ELSE CHOOSE g \in Launched : \A h \in Launched : h <= g
Blocked == \E g \in Generations : gen[g].upstream = "unverified" \/ gen[g].retirement = "err"

Ownership ==
  INSTANCE UpstreamOwnership WITH holder <- Holder, launched <- LastLaunched, blocked <- Blocked

\* What a generation sees of its upstream; what passes through it is not looked at.
Contract ==
  INSTANCE UpstreamContract WITH
    Upstreams <- Generations,
    stage <- [g \in Generations |-> gen[g].upstream],
    alive <- [g \in Generations |-> IF gen[g].upstream \in Live THEN {g} ELSE {}],
    traffic <- [g \in Generations |-> {}]

\* Whatever calls, recoveries and failures interleave, an upstream is launched
\* only when the one before it is known to have retired, and never after a
\* retirement that could not be verified (socket_proxy.rs, SocketProxy); and a
\* generation takes its upstream through no step but those of either kind of
\* upstream (upstream.rs, UpstreamHandle).
UpstreamsAreOwned == Ownership!Spec /\ Contract!Spec

\* From its spawn to its join a generation is the one at the socket path: no
\* retiring predecessor removes the path that its replacement has bound
\* (remove_file in spawn_owner_with names the path, not its owner).
SocketIsOwned ==
  \A g \in Generations : gen[g].owner \notin {"none", "retired", "done"} => socket = g

\* A stop that returns success leaves no upstream behind (README: stop waits
\* for owned upstream retirement), whoever else was starting or recovering.
StopRetires ==
  [][\A c \in Callers :
       task[c].op = "stop" /\ ~At(c, "done") /\ task'[c].result = "ok"
         => LiveGenerations' = {}]_vars

\* After a successful stop, and until someone asks for a start or a restart,
\* nothing runs: a recovery that was pending does not resurrect the server.
StopSticks == since = {} => LiveGenerations = {}

\* A failed retirement is permanent: no start, stop, restart or recovery moves
\* the server out of the failed state (README: it blocks replacement).
FailureIsFinal == [][status = "Failed" => status' = "Failed"]_vars

\* Every call returns: no lost shutdown notification, no wait on a channel
\* that nobody completes, no lock left held.
EveryCallReturns == \A c \in Callers : task[c].op # "none" ~> At(c, "done")

\* A running generation whose session is lost is replaced, by a recovery or by the start
\* or restart that overtakes it, unless someone stops the server, its retirement
\* cannot be verified or its upstream ends by itself (recover).
LostSessionIsReplaced ==
  \A g \in Generations :
    gen[g].reason /\ gen[g].upstream = "running" ~>
      \/ published > g
      \/ \E c \in Callers : task[c].op = "stop"
      \/ gen[g].completion = "err" \/ gen[g].upstream = "exited"

\* A stop that waits for its turn is not forgotten: no generation is launched
\* unsignalled meanwhile (socket_proxy_lifecycle_tests.rs:
\* stop_before_generation_publication_does_not_launch_backend).
PendingStopPreventsLaunch ==
  [][\A g \in Generations :
       /\ gen[g].upstream = "none"
       /\ gen'[g].upstream = "starting"
       /\ \E c \in Callers : task[c].op = "stop" /\ At(c, "locking")
       => gen[g].shutdown]_vars
=============================================================================
