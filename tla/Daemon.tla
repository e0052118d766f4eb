------------------------------- MODULE Daemon -------------------------------
(***************************************************************************)
(* The control endpoint of the daemon on Unix: the commands of mcp-cli     *)
(* that use it, start a daemon, stop it or replace it, and the daemons     *)
(* that bind it, serve it and leave it.                                    *)
(*                                                                         *)
(* The endpoint is a socket file; the inode number of one that was removed *)
(* may be given again.  The pool of a daemon is up or down and has one     *)
(* server, which runs or not (module Pool has the rest).                   *)
(***************************************************************************)
EXTENDS Integers, Sequences, FiniteSets

CONSTANTS
    Clients,            \* processes of mcp-cli
    MaxDaemons,         \* bound: daemons launched
    MaxKills            \* bound: daemons killed

ASSUME DaemonAssumption == MaxDaemons \in Nat /\ MaxKills \in Nat

VARIABLES
    directory,          \* the directory of the endpoint
    file,               \* the socket file
    daemons,            \* the daemons launched so far
    clients,            \* the commands and their connections
    kills               \* daemons killed so far

daemonVars == <<directory, file, daemons, clients, kills>>

Daemons == 1..MaxDaemons
NoFile == [inode |-> 0, owner |-> 0, private |-> FALSE]
Commands == {"use", "status", "start", "stop", "restart", "retire"}
Asking == {"start", "status", "check", "list", "poll", "shutdown", "stop"}
Binding == {"prepare", "bind", "listen", "chmod", "validate", "inspect", "probe", "compare", "remove"}

DaemonTypeOK ==
  /\ directory \in {"missing", "loose", "private", "foreign"}
  /\ file \in [inode : 0..MaxDaemons, owner : 0..MaxDaemons, private : BOOLEAN]
  /\ \A d \in Daemons :
       /\ daemons[d].at \in {"none", "serving", "leaving", "unlinked", "gone"} \cup Binding
       /\ daemons[d].again \in BOOLEAN
       /\ daemons[d].inode \in 0..MaxDaemons /\ daemons[d].seen \in 0..MaxDaemons
       /\ daemons[d].listens \in BOOLEAN /\ daemons[d].pool \in {"up", "down"}
       /\ daemons[d].runs \in BOOLEAN
  /\ \A c \in Clients :
       /\ clients[c].command \in Commands
       /\ clients[c].todo \in Seq(Asking \cup {"wait", "launch"})
       /\ clients[c].at \in {"idle", "going", "launching", "asked", "done", "failed"}
       /\ clients[c].peer \in 0..MaxDaemons
       /\ clients[c].outcome \in {"none", "ok", "running", "refused"}
       /\ clients[c].reply \in {"none", "ok", "running", "refused", "eof", "reset"}
       /\ clients[c].retried \in BOOLEAN /\ clients[c].met \subseteq Daemons
  /\ kills \in 0..MaxKills

NoDaemon ==
  [at |-> "none", again |-> FALSE, inode |-> 0, seen |-> 0, listens |-> FALSE, pool |-> "up", runs |-> FALSE]

DaemonInit(workloads, directories) ==
  /\ directory \in directories
  /\ file = NoFile
  /\ daemons = [d \in Daemons |-> NoDaemon]
  /\ \E given \in workloads :
       clients = [c \in Clients |-> [command |-> given[c], todo |-> <<>>, at |-> "idle", peer |-> 0,
                                     outcome |-> "none", reply |-> "none", retried |-> FALSE, met |-> {}]]
  /\ kills = 0

---------------------------------------------------------------------------
\* transport::connect: the directory and the file are looked at first.
Denied == directory = "foreign" \/ (file # NoFile /\ (directory = "loose" \/ ~file.private))
Reachable == ~Denied /\ file # NoFile /\ daemons[file.owner].listens
Absent == ~Denied /\ ~Reachable

Become(d, at) == daemons' = [daemons EXCEPT ![d].at = at]
Exits(d) ==
  [daemons EXCEPT ![d] = [NoDaemon EXCEPT !.at = "gone", !.inode = daemons[d].inode, !.pool = daemons[d].pool]]

\* The tasks of a process that exits do not answer.
Abandoned(d) ==
  \E how \in [{c \in Clients : clients[c].peer = d /\ clients[c].reply = "none"} -> {"eof", "reset"}] :
    clients' = [c \in Clients |->
      IF c \in DOMAIN how THEN [clients[c] EXCEPT !.reply = how[c], !.outcome = "none"] ELSE clients[c]]
Refuse(d) == daemons' = Exits(d) /\ Abandoned(d)
GoOn(d, at) == Become(d, at) /\ UNCHANGED clients

\* spawn_detached
Launch ==
  \E d \in Daemons :
    /\ daemons[d].at = "none" /\ \A e \in 1..(d - 1) : daemons[e].at # "none"
    /\ Become(d, "prepare")

---------------------------------------------------------------------------
\* The daemon binds: it repairs or makes the directory, binds the file, listens on
\* it and makes it private.  Only an endpoint that no one answers is removed.
Prepare(d) ==
  /\ daemons[d].at = "prepare" /\ directory # "foreign"
  /\ GoOn(d, "bind") /\ directory' = "private"
  /\ UNCHANGED <<file, kills>>

\* External: the number of a new file is its own or one of a file that is gone.
Numbered(d) == ({d} \cup {daemons[e].inode : e \in Daemons}) \ {0}

Bind(d) ==
  /\ daemons[d].at = "bind"
  /\ \/ /\ file = NoFile /\ UNCHANGED clients
        /\ \E i \in Numbered(d) :
             /\ daemons' = [daemons EXCEPT ![d].at = "listen", ![d].inode = i]
             /\ file' = [inode |-> i, owner |-> d, private |-> FALSE]
     \/ file # NoFile /\ ~daemons[d].again /\ GoOn(d, "inspect") /\ UNCHANGED file
     \/ file # NoFile /\ daemons[d].again /\ Refuse(d) /\ UNCHANGED file
  /\ UNCHANGED <<directory, kills>>

Listen(d) ==
  /\ daemons[d].at = "listen"
  /\ daemons' = [daemons EXCEPT ![d].at = "chmod", ![d].listens = TRUE]
  /\ UNCHANGED clients
  /\ UNCHANGED <<directory, file, kills>>

\* set_permissions and validate_socket_file follow the path, not the socket.
MakePrivate(d) ==
  /\ daemons[d].at = "chmod"
  /\ IF file = NoFile THEN Refuse(d) /\ UNCHANGED file
     ELSE GoOn(d, "validate") /\ file' = [file EXCEPT !.private = TRUE]
  /\ UNCHANGED <<directory, kills>>

Validate(d) ==
  /\ daemons[d].at = "validate"
  /\ IF file # NoFile /\ file.private THEN GoOn(d, "serving") ELSE Refuse(d)
  /\ UNCHANGED <<directory, file, kills>>

Inspect(d) ==
  /\ daemons[d].at = "inspect"
  /\ IF file # NoFile /\ ~file.private THEN Refuse(d)
     ELSE daemons' = [daemons EXCEPT ![d].at = "probe", ![d].seen = file.inode] /\ UNCHANGED clients
  /\ UNCHANGED <<directory, file, kills>>

ProbeNothing(d) ==
  /\ daemons[d].at = "probe" /\ GoOn(d, "compare")
  /\ UNCHANGED <<directory, file, kills>>

Probe(d) ==
  /\ daemons[d].at = "probe"
  /\ IF file # NoFile /\ daemons[file.owner].listens THEN Refuse(d) ELSE GoOn(d, "compare")
  /\ UNCHANGED <<directory, file, kills>>

Rebind(d) ==
  daemons' = [daemons EXCEPT ![d].at = "bind", ![d].again = TRUE] /\ UNCHANGED clients

Compare(d) ==
  /\ daemons[d].at = "compare"
  /\ \/ (daemons[d].seen = 0 \/ file = NoFile) /\ Rebind(d)
     \/ /\ daemons[d].seen # 0 /\ file # NoFile
        /\ IF file.private /\ file.inode = daemons[d].seen THEN GoOn(d, "remove") ELSE Refuse(d)
  /\ UNCHANGED <<directory, file, kills>>

RemoveEndpoint(d) ==
  /\ daemons[d].at = "remove"
  /\ IF file = NoFile THEN Refuse(d)
     ELSE Rebind(d)
  /\ file' = NoFile
  /\ UNCHANGED <<directory, kills>>

---------------------------------------------------------------------------
\* A command goes on with what it has left to do, or ends.
Idle(c) == [clients[c] EXCEPT !.peer = 0, !.outcome = "none", !.reply = "none", !.retried = FALSE]
Goes(c, todo) ==
  clients' = [clients EXCEPT ![c] = IF todo = <<>> THEN [Idle(c) EXCEPT !.at = "done", !.todo = <<>>]
                                    ELSE [Idle(c) EXCEPT !.at = "going", !.todo = todo]]
ClientFails(c) == clients' = [clients EXCEPT ![c] = [Idle(c) EXCEPT !.at = "failed", !.todo = <<>>]]

\* The daemon serves each connection in a task of its own: it carries the request
\* out and then answers, also one whose sender has given up.  A shutdown that has
\* retired the pool ends the daemon after it was answered.
Wire(op) == IF op \in {"check", "list", "poll"} THEN "status" ELSE op

Dispatch(c) ==
  LET d == clients[c].peer
      op == Wire(Head(clients[c].todo))
      up == daemons[d].pool = "up"
      Pool(pool, runs) == daemons' = [daemons EXCEPT ![d].pool = pool, ![d].runs = runs]
      Outcome(r) == clients' = [clients EXCEPT ![c].outcome = r]
  IN  /\ clients[c].peer # 0 /\ clients[c].reply = "none" /\ clients[c].outcome = "none"
      /\ daemons[d].at \in {"serving", "leaving", "unlinked"}
      /\ \/ op = "start" /\ up /\ Pool("up", TRUE) /\ Outcome("ok")
         \/ op = "status" /\ Outcome(IF daemons[d].runs THEN "running" ELSE "ok") /\ UNCHANGED daemons
         \/ op = "stop" /\ Pool(daemons[d].pool, FALSE) /\ Outcome("ok")
         \/ op = "shutdown" /\ Pool("down", FALSE) /\ Outcome("ok")
         \/ op # "status" /\ Outcome("refused") /\ UNCHANGED daemons
      /\ UNCHANGED <<directory, file, kills>>

\* A start that fails, a retirement that is not verified and a start on a pool that
\* is down are refused.
Answer(c) ==
  LET d == clients[c].peer IN
  /\ clients[c].outcome # "none"
  /\ \/ clients[c].at = "failed" /\ ClientFails(c)
     \/ /\ clients[c].at = "asked"
        /\ clients' = [clients EXCEPT ![c].reply = clients[c].outcome, ![c].outcome = "none"]
  /\ IF /\ Head(clients[c].todo) = "shutdown" /\ clients[c].outcome = "ok"
        /\ daemons[d].at = "serving"
     THEN Become(d, "leaving") ELSE UNCHANGED daemons
  /\ UNCHANGED <<directory, file, kills>>

\* The accept loop ends and unlinks the path; the process exits.
Unlink(d) ==
  /\ daemons[d].at = "leaving"
  /\ Become(d, "unlinked") /\ file' = NoFile
  /\ UNCHANGED <<directory, clients, kills>>

Exit(d) ==
  /\ daemons[d].at = "unlinked"
  /\ Refuse(d)
  /\ UNCHANGED <<directory, file, kills>>

\* A kill leaves the file behind.
Kill(d) ==
  /\ daemons[d].at \notin {"none", "gone"} /\ kills < MaxKills
  /\ kills' = kills + 1
  /\ daemons' = [Exits(d) EXCEPT ![d].pool = "down"] /\ Abandoned(d)
  /\ UNCHANGED <<directory, file>>

---------------------------------------------------------------------------
\* The commands.  "use" asks natively: it launches a daemon when it reaches none,
\* and asks once more when the connection was closed without an answer.  The
\* others ask a daemon that exists.
Script(command) ==
  CASE command = "use"     -> <<"start">>
    [] command = "status"  -> <<"status">>
    [] command = "start"   -> <<"check">>
    [] command = "stop"    -> <<"shutdown", "wait">>
    [] command = "restart" -> <<"shutdown", "wait", "launch", "poll", "status">>
    [] command = "retire"  -> <<"list", "stop">>

Start(c) ==
  /\ clients[c].at = "idle"
  /\ clients' = [clients EXCEPT ![c].at = "going", ![c].todo = Script(clients[c].command),
                                ![c].met = {d \in Daemons : daemons[d].at = "serving"}]
  /\ UNCHANGED <<directory, file, daemons, kills>>

Ask(c) ==
  /\ clients[c].at \in {"going", "launching"} /\ Head(clients[c].todo) \in Asking
  /\ Reachable
  /\ clients' = [clients EXCEPT ![c].at = "asked", ![c].peer = file.owner]
  /\ UNCHANGED <<directory, file, daemons, kills>>

\* What a request does when there is no daemon.
FindNone(c) ==
  LET op == Head(clients[c].todo) IN
  /\ clients[c].at = "going" /\ Absent /\ op \in Asking \ {"start", "poll"}
  /\ \/ op = "shutdown" /\ Goes(c, Tail(clients[c].todo))
     \/ op = "check" /\ Goes(c, <<"launch", "poll", "status">>)
     \/ op \in {"status", "list"} /\ Goes(c, <<>>)
     \/ op = "stop" /\ ClientFails(c)
  /\ UNCHANGED <<directory, file, daemons, kills>>

LaunchDaemon(c) ==
  LET op == Head(clients[c].todo) IN
  /\ clients[c].at = "going" /\ Launch
  /\ \/ op = "launch" /\ Goes(c, Tail(clients[c].todo))
     \/ op = "start" /\ Absent /\ clients' = [clients EXCEPT ![c].at = "launching"]
  /\ UNCHANGED <<directory, file, kills>>

\* The endpoint is someone else's, a launch fails, or the time of a request, of a
\* launch or of a wait is over; what was asked may still be carried out.
GiveUp(c) ==
  /\ \/ clients[c].at \in {"going", "launching"} /\ Denied /\ Head(clients[c].todo) # "launch"
     \/ clients[c].at = "launching" /\ Absent
     \/ clients[c].at = "going" /\ Head(clients[c].todo) \in {"poll", "wait", "launch"}
     \/ clients[c].at = "going" /\ Head(clients[c].todo) = "start" /\ Absent
     \/ clients[c].at = "asked" /\ Head(clients[c].todo) # "start"
  /\ IF clients[c].at = "asked" THEN clients' = [clients EXCEPT ![c].at = "failed"] ELSE ClientFails(c)
  /\ UNCHANGED <<directory, file, daemons, kills>>

\* daemon_retirement::wait
WaitForNothing(c) ==
  /\ clients[c].at = "going" /\ Head(clients[c].todo) = "wait"
  /\ Goes(c, Tail(clients[c].todo))
  /\ UNCHANGED <<directory, file, daemons, kills>>

Wait(c) ==
  /\ clients[c].at = "going" /\ Head(clients[c].todo) = "wait" /\ Absent
  /\ Goes(c, Tail(clients[c].todo))
  /\ UNCHANGED <<directory, file, daemons, kills>>

Learn(c) ==
  LET op == Head(clients[c].todo)
      r == clients[c].reply
  IN  /\ clients[c].at = "asked" /\ r # "none"
      /\ \/ r = "running" /\ Goes(c, Tail(clients[c].todo))
         \/ r = "ok" /\ Goes(c, IF op = "list" THEN <<>> ELSE Tail(clients[c].todo))
         \/ r \in {"refused", "reset"} /\ ClientFails(c)
         \/ r = "eof" /\ (op # "start" \/ clients[c].retried) /\ ClientFails(c)
         \/ /\ r = "eof" /\ op = "start" /\ ~clients[c].retried
            /\ clients' = [clients EXCEPT ![c] = [Idle(c) EXCEPT !.at = "going", !.retried = TRUE]]
      /\ UNCHANGED <<directory, file, daemons, kills>>

---------------------------------------------------------------------------
DaemonStep(d) ==
  \/ Prepare(d) \/ Bind(d) \/ Listen(d) \/ MakePrivate(d) \/ Validate(d) \/ Inspect(d) \/ Probe(d)
  \/ Compare(d) \/ RemoveEndpoint(d) \/ Unlink(d) \/ Exit(d)
ClientAsks(c) ==
  \/ Start(c) \/ Ask(c) \/ FindNone(c) \/ LaunchDaemon(c) \/ Wait(c) \/ Learn(c)

DaemonNext ==
  \/ \E d \in Daemons : DaemonStep(d) \/ Kill(d)
  \/ \E c \in Clients : ClientAsks(c) \/ GiveUp(c) \/ Dispatch(c) \/ Answer(c)

DaemonAtRest == \A c \in Clients : clients[c].at \in {"idle", "done", "failed"}

---------------------------------------------------------------------------
(***************************************************************************)
(* A killed daemon leaves its socket file behind, and a number given again *)
(* makes a new file look like the old one; nobody guards against either.   *)
(***************************************************************************)
Distinct == \A d, e \in Daemons : daemons[d].inode # 0 /\ daemons[d].inode = daemons[e].inode => d = e
Undisturbed == kills = 0 /\ Distinct

(***************************************************************************)
(* However the commands and the daemons they launch interleave, at most    *)
(* one daemon serves with its pool up, and it is the one that the endpoint *)
(* leads to, unless a daemon was killed or an inode number given again     *)
(* (local_security_unix.rs, bind_unix_listener).                           *)
(***************************************************************************)
OneDaemon ==
  Undisturbed =>
    \A d \in Daemons : daemons[d].at = "serving" /\ daemons[d].pool = "up" => file.owner = d

(***************************************************************************)
(* A command that has stopped the daemon or is past stopping it in order   *)
(* to replace it leaves no daemon of those it found with its pool up, so   *)
(* the replacement never runs beside it (daemon_commands.rs, stop;         *)
(* daemon_retirement.rs).                                                  *)
(***************************************************************************)
StoppedIsGone ==
  \A c \in Clients :
    /\ Undisturbed /\ clients[c].command \in {"stop", "restart"}
    /\ clients[c].at \in {"going", "asked", "done"}
    /\ \A i \in DOMAIN clients[c].todo : clients[c].todo[i] \notin {"shutdown", "wait"}
    => \A d \in clients[c].met : daemons[d].pool = "down" /\ ~daemons[d].runs /\ file.owner # d

(***************************************************************************)
(* A listener that is live keeps its file: "Binds a same-user endpoint     *)
(* without unlinking a live listener first" (transport.rs).                *)
(***************************************************************************)
LiveListenerKept ==
  \A d \in Daemons : daemons[d].at = "serving" => file.owner = d

\* The endpoint has one daemon, and none that was reported as stopped
\* (daemon.rs, daemon_client.rs).
DaemonSafety == OneDaemon /\ StoppedIsGone
=============================================================================
