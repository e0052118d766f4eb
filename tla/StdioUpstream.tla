---------------------------- MODULE StdioUpstream ----------------------------
(***************************************************************************)
(* A stdio upstream: the owner task that starts a server process, passes   *)
(* requests to its stdin and lines of its stdout to the response channel,  *)
(* and retires its whole process group; and the processes themselves, which *)
(* fork, leave the group, exit and become zombies as Unix has it.          *)
(*                                                                         *)
(* The first process leads the group, whose identifier is its own process  *)
(* identifier: once it has been reaped and no member is left, a process    *)
(* unrelated to the server may get that identifier.  A line is a number.   *)
(***************************************************************************)
EXTENDS Integers, FiniteSets

CONSTANTS
    Processes,          \* the processes of the server, 1..n; 1 is the leader
    MaxLines            \* bound: lines the server writes

ASSUME StdioAssumption ==
    /\ Processes \subseteq Nat \ {0} /\ IsFiniteSet(Processes) /\ 1 \in Processes
    /\ MaxLines \in Nat

VARIABLES
    processes,          \* the processes: state, group membership, parent
    foreign,            \* an unrelated group has taken the identifier
    lines,              \* lines written by the server, sent on and received
    child,              \* the owner task and what it knows
    handle              \* what the user of the UpstreamHandle has done

stdioVars == <<processes, foreign, lines, child, handle>>

Process == [state : {"none", "suspended", "running", "dying", "zombie", "gone"},
            member : BOOLEAN, parent : Processes \cup {0}]
Unborn == [state |-> "none", member |-> FALSE, parent |-> 0]
ChildOwner == [at : {"attach", "cleanup", "running", "terminate", "reap", "confirm", "drain",
                     "complete", "dropped"},
               natural : BOOLEAN, result : {"none", "ok", "failed", "unverified"},
               struck : BOOLEAN]     \* history: a group of another program was killed

StdioTypeOK ==
  /\ processes \in [Processes -> Process]
  /\ foreign \in BOOLEAN
  /\ lines \in [written : 0..MaxLines, sent : 0..MaxLines, received : 0..MaxLines]
  /\ child \in ChildOwner
  /\ handle \in {"in", "closed", "deaf", "shutdown"}

\* spawn: the process is the leader of its own group; on Windows it is
\* suspended until it has been assigned to the job.
StdioInit ==
  /\ processes = [p \in Processes |->
       IF p = 1 THEN [state |-> "suspended", member |-> TRUE, parent |-> 0] ELSE Unborn]
  /\ foreign = FALSE
  /\ lines = [written |-> 0, sent |-> 0, received |-> 0]
  /\ child = [at |-> "attach", natural |-> FALSE, result |-> "none", struck |-> FALSE]
  /\ handle = "in"

In(p, states) == processes[p].state \in states
Alive(p) == In(p, {"suspended", "running", "dying"})
Members == {p \in Processes : processes[p].member /\ (Alive(p) \/ In(p, {"zombie"}))}
Orphan(p) == processes[p].parent # 0 /\ ~Alive(processes[p].parent)

---------------------------------------------------------------------------
\* The server's processes.
Fork ==
  /\ \E p, q \in Processes :
       /\ In(p, {"running"}) /\ In(q, {"none"})
       /\ processes' = [processes EXCEPT ![q] = [processes[p] EXCEPT !.parent = p]]
  /\ UNCHANGED <<foreign, lines, child, handle>>

LeaveGroup ==
  /\ \E p \in Processes \ {1} :
       /\ In(p, {"running"}) /\ processes[p].member
       /\ processes' = [processes EXCEPT ![p].member = FALSE]
  /\ UNCHANGED <<foreign, lines, child, handle>>

Exit ==
  /\ \E p \in Processes :
       /\ In(p, {"running", "dying"})
       /\ processes' = [processes EXCEPT ![p].state = "zombie"]
  /\ UNCHANGED <<foreign, lines, child, handle>>

\* A parent reaps its child; whoever leaves the daemon's sight is init's to reap.
Reap ==
  /\ \E p \in Processes \ {1} :
       /\ In(p, {"zombie"}) /\ (In(processes[p].parent, {"running"}) \/ ~processes[p].member)
       /\ processes' = [processes EXCEPT ![p].state = "gone"]
  /\ UNCHANGED <<foreign, lines, child, handle>>

Reuse ==
  /\ In(1, {"gone"}) /\ Members = {}
  /\ foreign' = ~foreign
  /\ UNCHANGED <<processes, lines, child, handle>>

WriteLine ==
  /\ \E p \in Processes : In(p, {"running"})
  /\ lines.written < MaxLines
  /\ lines' = [lines EXCEPT !.written = @ + 1]
  /\ UNCHANGED <<processes, foreign, child, handle>>

---------------------------------------------------------------------------
\* The user: it receives lines, drops an end of the channels or shuts down.
Receive ==
  /\ handle # "deaf" /\ lines.received < lines.sent
  /\ lines' = [lines EXCEPT !.received = @ + 1]
  /\ UNCHANGED <<processes, foreign, child, handle>>

Ask(how) ==
  /\ handle = "in" /\ how # "in"
  /\ handle' = how
  /\ UNCHANGED <<processes, foreign, lines, child>>

---------------------------------------------------------------------------
\* The owner.  Attaching may fail: then the process alone is killed and waited for.
Attach ==
  /\ child.at = "attach"
  /\ \/ /\ processes' = [processes EXCEPT ![1].state = "running"]
        /\ child' = [child EXCEPT !.at = "running"]
     \/ /\ processes' = [processes EXCEPT ![1].state = "dying"]
        /\ child' = [child EXCEPT !.at = "cleanup"]
  /\ UNCHANGED <<foreign, lines, handle>>

CleanUpSetup ==
  /\ child.at = "cleanup"
  /\ \/ /\ In(1, {"zombie"})
        /\ processes' = [processes EXCEPT ![1].state = "gone"]
        /\ child' = [child EXCEPT !.at = "complete", !.result = "failed"]
     \/ /\ In(1, {"dying"})
        /\ child' = [child EXCEPT !.at = "complete", !.result = "unverified"]
        /\ UNCHANGED processes
  /\ UNCHANGED <<foreign, lines, handle>>

\* read_responses: one line at a time, held back while the channel is full.
Pass ==
  /\ child.at \in {"running", "drain"} /\ handle # "deaf"
  /\ lines.sent < lines.written /\ lines.sent = lines.received
  /\ lines' = [lines EXCEPT !.sent = @ + 1]
  /\ UNCHANGED <<processes, foreign, child, handle>>

\* Mutant: waiting for the leader's exit reaps it.
ObserveAndReap == [processes EXCEPT ![1].state = "gone"]

\* wait_for_exit looks at the leader without reaping it (WNOWAIT).
Observe == processes

\* The first of the workers that ends, the exit of the leader or the signal ends
\* the session; only the exit counts as natural.  A worker also ends when its
\* read or write fails.
Interrupt ==
  /\ child.at = "running"
  /\ \/ /\ In(1, {"zombie"})
        /\ processes' = Observe
        /\ child' = [child EXCEPT !.at = "terminate", !.natural = TRUE]
     \/ /\ child' = [child EXCEPT !.at = "terminate"]
        /\ UNCHANGED processes
  /\ UNCHANGED <<foreign, lines, handle>>

\* retire: the group is killed, the leader reaped, and the group polled until it
\* is empty, each within five seconds.
Killed == [p \in Processes |->
  IF processes[p].member /\ In(p, {"suspended", "running"})
  THEN [processes[p] EXCEPT !.state = "dying"] ELSE processes[p]]

Terminate ==
  /\ child.at = "terminate"
  /\ \/ /\ processes' = Killed
        /\ child' = [child EXCEPT !.at = "reap", !.struck = @ \/ foreign]
     \/ /\ child' = [child EXCEPT !.at = "complete", !.result = "unverified"]
        /\ UNCHANGED processes
  /\ UNCHANGED <<foreign, lines, handle>>

ReapLeader ==
  /\ child.at = "reap"
  /\ \/ /\ In(1, {"zombie", "gone"})
        /\ processes' = [processes EXCEPT ![1].state = "gone"]
        /\ child' = [child EXCEPT !.at = "confirm"]
     \/ /\ In(1, {"dying"})
        /\ child' = [child EXCEPT !.at = "complete", !.result = "unverified"]
        /\ UNCHANGED processes
  /\ UNCHANGED <<foreign, lines, handle>>

Reaped == [p \in Processes |->
  IF processes[p].member /\ In(p, {"zombie"}) /\ Orphan(p)
  THEN [processes[p] EXCEPT !.state = "gone"] ELSE processes[p]]
\* Mutant: only the leader is asked for.
StillThereLeader(after) == after[1].state \in {"running", "dying", "zombie"}

StillThere(after) ==
  foreign \/ \E p \in Processes :
    after[p].member /\ after[p].state \in {"running", "dying", "zombie"}

Confirm ==
  /\ child.at = "confirm"
  /\ processes' = Reaped
  /\ \/ StillThere(Reaped) /\ child' = child
     \/ StillThere(Reaped) /\ child' = [child EXCEPT !.at = "complete", !.result = "unverified"]
     \/ /\ ~StillThere(Reaped)
        /\ child' = [child EXCEPT !.at = IF child.natural THEN "drain" ELSE "complete",
                                  !.result = IF child.natural THEN @ ELSE "ok"]
  /\ UNCHANGED <<foreign, lines, handle>>

\* Mutant: the drain waits for the end of the output.
DrainToTheEnd ==
  /\ child.at = "drain"
  /\ lines.sent = lines.written /\ \A p \in Processes : ~Alive(p)
  /\ child' = [child EXCEPT !.at = "complete", !.result = "ok"]
  /\ UNCHANGED <<processes, foreign, lines, handle>>

\* After a natural exit what the server wrote is passed on until the pipe ends or
\* a second has passed: a process that left the group may hold the pipe.
Drain ==
  /\ child.at = "drain"
  /\ child' = [child EXCEPT !.at = "complete", !.result = "ok"]
  /\ UNCHANGED <<processes, foreign, lines, handle>>

\* The owner is dropped: a group that is not known to be empty is killed again.
DropOwner ==
  /\ child.at = "complete"
  /\ child' = [child EXCEPT !.at = "dropped",
                            !.struck = @ \/ (foreign /\ child.result = "unverified")]
  /\ processes' = IF child.result = "unverified" THEN Killed ELSE processes
  /\ UNCHANGED <<foreign, lines, handle>>

---------------------------------------------------------------------------
OwnerActs ==
  \/ Attach \/ CleanUpSetup \/ Terminate \/ ReapLeader \/ Confirm \/ Drain \/ DropOwner
StdioNext ==
  \/ Fork \/ LeaveGroup \/ Exit \/ Reap \/ Reuse \/ WriteLine \/ Receive \/ Pass \/ Interrupt
  \/ \E how \in {"closed", "deaf", "shutdown"} : Ask(how)
  \/ OwnerActs

StdioAtRest == child.at \in {"running", "dropped"}

\* The owner is scheduled and its timeouts pass; the signal, a closed channel
\* and the leader's exit are noticed.  Nobody need read, and nothing need die.
StdioFairness ==
  /\ WF_stdioVars(OwnerActs)
  /\ WF_stdioVars((handle # "in" \/ In(1, {"zombie"})) /\ Interrupt)

StdioSpec == StdioInit /\ [][StdioNext]_stdioVars /\ StdioFairness

---------------------------------------------------------------------------
(* The upstream as the owner of its generation sees it.                    *)

StdioStage ==
  CASE child.result = "unverified" -> "unverified"
    [] child.result \in {"ok", "failed"} -> "retired"
    [] child.at \in {"attach", "cleanup"} -> "starting"
    [] child.at = "running" -> "running"
    [] OTHER -> "exited"
StdioAlive == {p \in Processes : processes[p].member /\ Alive(p)}
StdioTraffic == 1..lines.sent

---------------------------------------------------------------------------
(***************************************************************************)
(* A retirement reported as verified means that nothing of the server's    *)
(* group runs any more, whatever it forked before, during and after the    *)
(* exit of its leader, and that no process of another group was killed     *)
(* under the group's identifier: the leader keeps it until it is reaped    *)
(* (upstream_process.rs, retire; upstream_process_unix.rs, wait_for_exit). *)
(***************************************************************************)
VerifiedMeansGone ==
  /\ child.result = "ok" => \A p \in Processes : processes[p].member => ~Alive(p)
  /\ child.struck => child.result = "unverified"

(***************************************************************************)
(* Once the user has asked for the end, dropped a channel, or the leader   *)
(* has exited, the owner reports an outcome: no process that ignores the   *)
(* signal, forks on or holds the pipe makes it wait forever.               *)
(***************************************************************************)
RetirementIsReported ==
  (handle # "in" \/ In(1, {"zombie"})) /\ child.at = "running" ~> child.result # "none"
=============================================================================
