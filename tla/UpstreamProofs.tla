---------------------------- MODULE UpstreamProofs ----------------------------
(***************************************************************************)
(* The upstreams.  Stdio: for any number of processes and lines, its type  *)
(* invariant and what a verified retirement means.  HTTP: for every number *)
(* of requests, whatever they are and whatever the server does, nothing is *)
(* sent twice, answers come once, requests carry the session, and a        *)
(* retired upstream is quiet.  Both: every step is one that the owner of   *)
(* their generation counts on.                                             *)
(***************************************************************************)
EXTENDS StdioUpstream, HttpUpstream, TLAPS, SequenceTheorems

-----------------------------------------------------------------------------
(* Stdio: type correctness.                                                *)

(* What a kill, and what a look for orphans, leaves behind.                *)
LEMMA GroupType ==
  ASSUME StdioTypeOK
  PROVE  Killed \in [Processes -> Process] /\ Reaped \in [Processes -> Process]
  BY DEF StdioTypeOK, Process, Killed, Reaped

LEMMA TypeProcesses ==
  ASSUME StdioTypeOK, Fork \/ LeaveGroup \/ Exit \/ Reap \/ Reuse
  PROVE  StdioTypeOK'
<1> USE DEF StdioTypeOK
<1>1. CASE Fork
  <2>1. PICK p, q \in Processes :
          /\ In(p, {"running"})
          /\ processes' = [processes EXCEPT ![q] = [processes[p] EXCEPT !.parent = p]]
    BY <1>1 DEF Fork
  <2>2. [processes[p] EXCEPT !.parent = p] \in Process
    BY DEF Process
  <2>3. QED
    BY <1>1, <2>1, <2>2 DEF Fork
<1>2. CASE LeaveGroup
  <2>1. PICK p \in Processes : processes' = [processes EXCEPT ![p].member = FALSE]
    BY <1>2 DEF LeaveGroup
  <2>2. processes' \in [Processes -> Process]
    BY <2>1 DEF Process
  <2>3. QED
    BY <1>2, <2>2 DEF LeaveGroup
<1>3. CASE Exit
  BY <1>3 DEF Exit, Process
<1>4. CASE Reap
  BY <1>4 DEF Reap, Process
<1>5. CASE Reuse
  BY <1>5 DEF Reuse
<1>6. QED
  BY <1>1, <1>2, <1>3, <1>4, <1>5

LEMMA TypeLines ==
  ASSUME StdioTypeOK, WriteLine \/ Receive \/ Pass \/ \E how \in {"closed", "deaf", "shutdown"} : Ask(how)
  PROVE  StdioTypeOK'
<1> USE StdioAssumption DEF StdioTypeOK
<1>1. CASE WriteLine
  BY <1>1 DEF WriteLine
<1>2. CASE Receive
  BY <1>2 DEF Receive
<1>3. CASE Pass
  BY <1>3 DEF Pass
<1>4. CASE \E how \in {"closed", "deaf", "shutdown"} : Ask(how)
  BY <1>4 DEF Ask
<1>5. QED
  BY <1>1, <1>2, <1>3, <1>4

LEMMA TypeOwner ==
  ASSUME StdioTypeOK, Interrupt \/ OwnerActs
  PROVE  StdioTypeOK'
<1> USE StdioAssumption, GroupType DEF StdioTypeOK
<1>1. processes' \in [Processes -> Process]
  BY DEF Interrupt, OwnerActs, Attach, CleanUpSetup, Terminate, ReapLeader, Confirm, Drain,
         DropOwner, Observe, Process
<1>2. child' \in ChildOwner
  <2>1. CASE Interrupt
    BY <2>1 DEF Interrupt, ChildOwner
  <2>2. CASE Attach \/ CleanUpSetup
    BY <2>2 DEF Attach, CleanUpSetup, ChildOwner
  <2>3. CASE Terminate
    BY <2>3 DEF Terminate, ChildOwner
  <2>4. CASE ReapLeader
    BY <2>4 DEF ReapLeader, ChildOwner
  <2>5. CASE Confirm
    BY <2>5 DEF Confirm, ChildOwner
  <2>6. CASE Drain
    BY <2>6 DEF Drain, ChildOwner
  <2>7. CASE DropOwner
    BY <2>7 DEF DropOwner, ChildOwner
  <2>8. QED
    BY <2>1, <2>2, <2>3, <2>4, <2>5, <2>6, <2>7 DEF OwnerActs
<1>3. UNCHANGED <<foreign, lines, handle>>
  BY DEF Interrupt, OwnerActs, Attach, CleanUpSetup, Terminate, ReapLeader, Confirm, Drain,
         DropOwner
<1>4. QED
  BY <1>1, <1>2, <1>3

LEMMA TypeInit ==
  ASSUME StdioInit PROVE StdioTypeOK
<1>1. processes \in [Processes -> Process]
  BY DEF StdioInit, Unborn, Process
<1>2. child \in ChildOwner
  BY DEF StdioInit, ChildOwner
<1>3. lines \in [written : 0..MaxLines, sent : 0..MaxLines, received : 0..MaxLines]
  BY StdioAssumption DEF StdioInit
<1>4. QED
  BY <1>1, <1>2, <1>3 DEF StdioInit, StdioTypeOK

(* StdioTypeOK: every process, line count, owner and handle has one of the *)
(* values that upstream_process.rs and upstream.rs can give it.            *)
THEOREM TypeCorrect == StdioSpec => []StdioTypeOK
<1>1. StdioTypeOK /\ [StdioNext]_stdioVars => StdioTypeOK'
  <2>1. ASSUME StdioTypeOK, UNCHANGED stdioVars PROVE StdioTypeOK'
    BY <2>1 DEF StdioTypeOK, stdioVars
  <2>2. QED
    BY <2>1, TypeProcesses, TypeLines, TypeOwner DEF StdioNext
<1>2. QED
  BY <1>1, TypeInit, PTL DEF StdioSpec

-----------------------------------------------------------------------------
(* Stdio: verified retirement.                                             *)

(* What the owner knows of the leader at each of its steps: only its own   *)
(* reap takes the leader away.                                             *)
LeaderIsHeld ==
  /\ processes[1].member /\ ~In(1, {"none"})
  /\ child.at = "attach" => In(1, {"suspended"})
  /\ child.at = "cleanup" => In(1, {"dying", "zombie"})
  /\ child.at \in {"running", "terminate", "reap"} => In(1, {"running", "dying", "zombie"})
  /\ child.at \in {"confirm", "drain"} => In(1, {"gone"})

(* Nothing but the leader before its attachment is suspended: the check of *)
(* the group, which does not ask for suspended processes, misses none.     *)
OnlyLeaderSuspended ==
  \A p \in Processes : In(p, {"suspended"}) => p = 1 /\ child.at = "attach"

(* Another group has the identifier only when nobody holds it any more.    *)
IdentifierIsHeld ==
  foreign => In(1, {"gone"}) /\ \A p \in Processes : processes[p].member =>
                                 ~Alive(p) /\ ~In(p, {"zombie"})

(* A group that was found empty stays empty: only its members fork members. *)
GroupStaysEmpty ==
  child.at = "drain" \/ child.result = "ok" =>
    \A p \in Processes : processes[p].member => ~Alive(p)

OutcomeEndsOwner == child.at \notin {"complete", "dropped"} => child.result = "none"

StdioInv ==
  /\ StdioTypeOK
  /\ LeaderIsHeld
  /\ OnlyLeaderSuspended
  /\ IdentifierIsHeld
  /\ GroupStaysEmpty
  /\ OutcomeEndsOwner
  /\ child.struck => child.result = "unverified"

LEMMA InvInit ==
  ASSUME StdioInit PROVE StdioInv
<1>1. StdioTypeOK
  BY TypeInit
<1>2. QED
  BY <1>1, StdioAssumption DEF StdioInit, StdioInv, LeaderIsHeld, OnlyLeaderSuspended,
     IdentifierIsHeld, GroupStaysEmpty, OutcomeEndsOwner, In, Alive, Unborn

(* A step of the server's processes by itself.                             *)
LEMMA InvProcesses ==
  ASSUME StdioInv, StdioTypeOK', Fork \/ LeaveGroup \/ Exit \/ Reap \/ Reuse
  PROVE  StdioInv'
<1> USE StdioAssumption DEF StdioInv, StdioTypeOK, LeaderIsHeld, OnlyLeaderSuspended,
        IdentifierIsHeld, GroupStaysEmpty, OutcomeEndsOwner, In, Alive
<1>1. CASE Fork
  <2>1. PICK p, q \in Processes :
          /\ In(p, {"running"}) /\ In(q, {"none"})
          /\ processes' = [processes EXCEPT ![q] = [processes[p] EXCEPT !.parent = p]]
    BY <1>1 DEF Fork
  <2>2. q # 1
    BY <2>1
  <2>3. processes'[q] = [processes[p] EXCEPT !.parent = p]
    BY <2>1
  <2>4. processes'[q].member = processes[p].member /\ processes'[q].state = "running"
    BY <2>1, <2>3 DEF Process
  <2>5. \A r \in Processes \ {q} : processes'[r] = processes[r]
    BY <2>1
  <2>6. QED
    BY <1>1, <2>1, <2>2, <2>4, <2>5 DEF Fork
<1>2. CASE LeaveGroup
  <2>1. PICK p \in Processes \ {1} : processes' = [processes EXCEPT ![p].member = FALSE]
    BY <1>2 DEF LeaveGroup
  <2>2. /\ ~processes'[p].member
        /\ processes'[p].state = processes[p].state
        /\ \A r \in Processes \ {p} : processes'[r] = processes[r]
    BY <2>1 DEF Process
  <2>3. QED
    BY <1>2, <2>2 DEF LeaveGroup
<1>3. CASE Exit
  <2>1. PICK p \in Processes :
          In(p, {"running", "dying"}) /\ processes' = [processes EXCEPT ![p].state = "zombie"]
    BY <1>3 DEF Exit
  <2>2. /\ processes'[p].member = processes[p].member
        /\ processes'[p].state = "zombie"
        /\ \A r \in Processes \ {p} : processes'[r] = processes[r]
    BY <2>1 DEF Process
  <2>3. QED
    BY <1>3, <2>1, <2>2 DEF Exit
<1>4. CASE Reap
  <2>1. PICK p \in Processes \ {1} :
          In(p, {"zombie"}) /\ processes' = [processes EXCEPT ![p].state = "gone"]
    BY <1>4 DEF Reap
  <2>2. /\ processes'[p].member = processes[p].member
        /\ processes'[p].state = "gone"
        /\ \A r \in Processes \ {p} : processes'[r] = processes[r]
    BY <2>1 DEF Process
  <2>3. QED
    BY <1>4, <2>1, <2>2 DEF Reap
<1>5. CASE Reuse
  BY <1>5 DEF Reuse, Members
<1>6. QED
  BY <1>1, <1>2, <1>3, <1>4, <1>5

(* A kill moves living members of the group to dying and nothing else.     *)
LEMMA KilledOnes ==
  ASSUME StdioTypeOK, NEW p \in Processes
  PROVE  /\ Killed[p].member = processes[p].member
         /\ Killed[p].state = IF processes[p].member /\ In(p, {"suspended", "running"})
                               THEN "dying" ELSE processes[p].state
  BY DEF StdioTypeOK, Process, Killed

(* The look for orphans moves zombies to gone and nothing else.            *)
LEMMA ReapedOnes ==
  ASSUME StdioTypeOK, NEW p \in Processes
  PROVE  /\ Reaped[p].member = processes[p].member
         /\ Reaped[p].state \in {"gone", processes[p].state}
         /\ Reaped[p].state # processes[p].state => In(p, {"zombie"})
  BY DEF StdioTypeOK, Process, Reaped, In

(* A step of the owner: it kills under the identifier only while the       *)
(* leader, dead or alive, still holds it, and reports success only of a    *)
(* group it has found empty.                                               *)
LEMMA InvOwner ==
  ASSUME StdioInv, StdioTypeOK', Interrupt \/ OwnerActs
  PROVE  StdioInv'
<1> USE StdioAssumption DEF StdioInv, StdioTypeOK, LeaderIsHeld, OnlyLeaderSuspended,
        IdentifierIsHeld, GroupStaysEmpty, OutcomeEndsOwner, In, Alive, ChildOwner
<1>0. processes[1] \in Process
  OBVIOUS
<1>1. CASE Interrupt
  <2>1. processes' = processes /\ foreign' = foreign /\ child.at = "running"
    BY <1>1 DEF Interrupt, Observe
  <2>2. child'.at = "terminate" /\ child'.result = child.result /\ child'.struck = child.struck
    BY <1>1 DEF Interrupt
  <2>3. QED
    BY <2>1, <2>2
<1>2. CASE Attach
  <2>1. PICK state \in {"running", "dying"} :
          /\ processes' = [processes EXCEPT ![1].state = state]
          /\ child' = [child EXCEPT !.at = IF state = "running" THEN "running" ELSE "cleanup"]
    BY <1>2 DEF Attach
  <2>2. processes'[1] = [processes[1] EXCEPT !.state = state]
    BY <2>1
  <2>3. processes'[1].member = processes[1].member /\ processes'[1].state = state
    BY <1>0, <2>2 DEF Process
  <2>4. \A r \in Processes \ {1} : processes'[r] = processes[r]
    BY <2>1
  <2>5. QED
    BY <1>2, <2>1, <2>3, <2>4 DEF Attach
<1>3. CASE CleanUpSetup \/ ReapLeader
  <2>1. /\ processes' \in {processes, [processes EXCEPT ![1].state = "gone"]}
        /\ \A r \in Processes \ {1} : processes'[r] = processes[r]
        /\ processes'[1].member
        /\ processes'[1].state \in {"gone", processes[1].state}
    BY <1>3 DEF CleanUpSetup, ReapLeader, Process
  <2>2. CASE CleanUpSetup
    <3>1. child'.at = "complete" /\ child'.result \in {"failed", "unverified"}
      BY <2>2 DEF CleanUpSetup
    <3>2. child'.struck = child.struck /\ child.result = "none" /\ ~foreign /\ ~foreign'
      BY <2>2 DEF CleanUpSetup
    <3>3. \A p \in Processes : ~In(p, {"suspended"})
      BY <2>2 DEF CleanUpSetup
    <3>4. OnlyLeaderSuspended'
      BY <2>1, <3>3
    <3>5. LeaderIsHeld'
      BY <2>1, <3>1
    <3>6. QED
      BY <3>1, <3>2, <3>4, <3>5
  <2>3. CASE ReapLeader
    <3>1. child'.at = "confirm" => processes'[1].state = "gone"
      <4>1. [processes EXCEPT ![1].state = "gone"][1].state = "gone"
        BY <1>0 DEF Process
      <4>2. QED
        BY <2>3, <4>1 DEF ReapLeader
    <3>2. child'.at \in {"confirm", "complete"} /\ child'.result # "ok"
      BY <2>3 DEF ReapLeader
    <3>3. child'.struck = child.struck /\ child.result = "none" /\ ~foreign /\ ~foreign'
      BY <2>3 DEF ReapLeader
    <3>4. \A p \in Processes : ~In(p, {"suspended"})
      BY <2>3 DEF ReapLeader
    <3>5. OnlyLeaderSuspended'
      BY <2>1, <3>4
    <3>6. LeaderIsHeld'
      BY <2>1, <3>1, <3>2
    <3>7. OutcomeEndsOwner'
      BY <2>3 DEF ReapLeader
    <3>8. QED
      BY <3>2, <3>3, <3>5, <3>6, <3>7
  <2>4. QED
    BY <1>3, <2>2, <2>3
<1>4. CASE Terminate
  <2>1. ~foreign
    BY <1>4 DEF Terminate
  <2>7. /\ child.result = "none" /\ processes[1].member
        /\ processes[1].state \in {"running", "dying", "zombie"}
    BY <1>4 DEF Terminate
  <2>8. \/ child'.at = "reap" /\ child'.result = child.result
        \/ child'.at = "complete" /\ child'.result = "unverified"
    BY <1>4 DEF Terminate
  <2>9. processes'[1].member /\ processes'[1].state \in {"running", "dying", "zombie"}
    <3>1. processes' = Killed \/ processes' = processes
      BY <1>4 DEF Terminate
    <3>2. /\ Killed[1].member = processes[1].member
          /\ Killed[1].state \in {"dying", processes[1].state}
      BY KilledOnes
    <3>3. QED
      BY <2>7, <3>1, <3>2
  <2>2. /\ processes'[1].member /\ processes'[1].state # "none"
        /\ child'.at \in {"reap", "complete"} /\ child'.result # "ok"
    BY <2>7, <2>8, <2>9
  <2>3. child'.at = "reap" => child'.result = "none" /\ In(1, {"running", "dying", "zombie"})'
    BY <2>7, <2>8, <2>9
  <2>4. ~child'.struck /\ ~foreign'
    BY <1>4, <2>1 DEF Terminate
  <2>5. OnlyLeaderSuspended'
    <3>1. \A p \in Processes : ~In(p, {"suspended"})
      BY <1>4 DEF Terminate
    <3>2. \A p \in Processes : ~In(p, {"suspended"})'
      BY <1>4, <3>1, KilledOnes DEF Terminate
    <3>3. QED
      BY <3>2
  <2>6. QED
    BY <2>2, <2>3, <2>4, <2>5
<1>5. CASE Confirm
  <2>1. processes' = Reaped
    BY <1>5 DEF Confirm
  <2>2. ASSUME ~StillThere(Reaped), NEW p \in Processes, processes[p].member
        PROVE  ~Alive(p)
    BY <1>5, <2>2, ReapedOnes DEF StillThere, Confirm
  <2>3. /\ child'.at \in {"confirm", "complete", "drain"}
        /\ child'.at = "drain" \/ child'.result = "ok" => ~StillThere(Reaped)
        /\ child'.at # "complete" => child'.result = "none"
        /\ child'.struck = child.struck /\ foreign' = foreign
        /\ child.result = "none"
    <3>1. child.at = "confirm" /\ child.result = "none" /\ foreign' = foreign
      BY <1>5 DEF Confirm
    <3>2. CASE child' = child
      BY <3>1, <3>2
    <3>3. CASE child' = [child EXCEPT !.at = "complete", !.result = "unverified"]
      BY <3>1, <3>3
    <3>4. CASE /\ ~StillThere(Reaped)
               /\ child' = [child EXCEPT !.at = IF child.natural THEN "drain" ELSE "complete",
                                         !.result = IF child.natural THEN @ ELSE "ok"]
      BY <3>1, <3>4
    <3>5. QED
      BY <1>5, <3>2, <3>3, <3>4 DEF Confirm
  <2>4. LeaderIsHeld'
    <3>1. Reaped[1].member /\ Reaped[1].state = "gone"
      <4>1. In(1, {"gone"})
        BY <1>5 DEF Confirm
      <4>2. /\ Reaped[1].member = processes[1].member
            /\ Reaped[1].state \in {"gone", processes[1].state}
        BY ReapedOnes
      <4>3. QED
        BY <4>1, <4>2
    <3>2. QED
      BY <2>1, <2>3, <3>1
  <2>5. OnlyLeaderSuspended'
    BY <1>5, <2>1, ReapedOnes DEF Confirm
  <2>6. IdentifierIsHeld'
    BY <2>1, <2>3, <2>4, ReapedOnes
  <2>7. GroupStaysEmpty'
    BY <2>1, <2>2, <2>3, ReapedOnes
  <2>8. QED
    BY <2>3, <2>4, <2>5, <2>6, <2>7
<1>6. CASE Drain
  BY <1>6 DEF Drain
<1>7. CASE DropOwner
  BY <1>7, KilledOnes DEF DropOwner
<1>8. QED
  BY <1>1, <1>2, <1>3, <1>4, <1>5, <1>6, <1>7 DEF OwnerActs

(* What happens to the lines and at the handle is no matter of processes.  *)
LEMMA InvLines ==
  ASSUME StdioInv, StdioTypeOK', UNCHANGED <<processes, foreign, child>>
  PROVE  StdioInv'
  BY DEF StdioInv, LeaderIsHeld, OnlyLeaderSuspended, IdentifierIsHeld, GroupStaysEmpty,
         OutcomeEndsOwner, In, Alive

LEMMA StdioInvStep ==
  ASSUME StdioInv, [StdioNext]_stdioVars
  PROVE  StdioInv'
<1>1. StdioTypeOK'
  <2>1. CASE UNCHANGED stdioVars
    BY <2>1 DEF StdioInv, StdioTypeOK, stdioVars
  <2>2. QED
    BY <2>1, TypeProcesses, TypeLines, TypeOwner DEF StdioNext, StdioInv
<1>2. CASE UNCHANGED stdioVars \/ WriteLine \/ Receive \/ Pass
           \/ \E how \in {"closed", "deaf", "shutdown"} : Ask(how)
  <2>1. UNCHANGED <<processes, foreign, child>>
    BY <1>2 DEF stdioVars, WriteLine, Receive, Pass, Ask
  <2>2. QED
    BY <1>1, <2>1, InvLines
<1>3. QED
  BY <1>1, <1>2, InvProcesses, InvOwner DEF StdioNext

THEOREM StdioInvariant == StdioSpec => []StdioInv
<1>1. StdioInv /\ [StdioNext]_stdioVars => StdioInv'
  BY StdioInvStep
<1>2. QED
  BY <1>1, InvInit, PTL DEF StdioSpec

(* VerifiedMeansGone: when retire reports success nothing of the server's  *)
(* group runs or will run again, and no group of another program was ever  *)
(* killed, however many processes the server forks and when.               *)
THEOREM VerifiedCorrect == StdioSpec => []VerifiedMeansGone
<1>1. StdioInv => VerifiedMeansGone
  BY DEF StdioInv, GroupStaysEmpty, VerifiedMeansGone
<1>2. QED
  BY <1>1, StdioInvariant, PTL

-----------------------------------------------------------------------------
(* HTTP, whatever its requests are: the inductive invariant.               *)

HttpSpec(workloads) == HttpInit(workloads) /\ [][HttpNext]_httpVars

OwnerLeft == {"aborting", "stopping", "complete"}
Untaken(x) == x.at \in {"new", "queued"}
IsLive(x) == x.at \notin {"new", "queued", "handed", "ended"}

(* A request alone: where it is tells what has become of it.               *)
ExchangeInv(x) ==
  /\ Untaken(x) => /\ x.on = "streamable" /\ ~x.mayFallBack /\ x.saw = FreshSession /\ ~x.answered
                   /\ x.posts["streamable"] = 0 /\ x.answers = 0
  /\ \A e \in Endpoints : x.posts[e] <= 1
  /\ x.at \in {"open", "authorizing"} => x.posts[x.on] = 0
  /\ x.at = "reading" => x.on = "streamable"
  /\ x.on = "streamable" =>
       /\ x.posts["legacy"] = 0 /\ x.done = "none" /\ x.answers <= 1
       /\ x.at # "ended" /\ ~x.answered => x.answers = 0
       /\ x.answered => x.at \in {"reading", "failing"}
  /\ x.on = "legacy" => x.answers <= (IF x.done = "none" THEN 0 ELSE 1) + (IF x.at = "ended" THEN 1 ELSE 0)
  /\ x.kind = "malformed" => x.posts["streamable"] = 0 /\ ~IsLive(x)
  /\ x.mayFallBack => x.kind = "initialize" /\ x.on = "streamable"
  /\ x.at = "handed" => x.mayFallBack
  /\ x.after =>
       /\ x.at = "authorizing" => x.saw.state # "fresh"
       /\ x.at \in {"posted", "reading", "awaiting"} => x.saw.state = "ready"

(* While one request may fall back, or has, the streamable endpoint works  *)
(* on no other and has been sent no other but a discovery that is over.    *)
Solo(r) ==
  \A q \in HttpRequests \ {r} :
    /\ exchanges[q].on = "streamable" => ~IsLive(exchanges[q])
    /\ exchanges[q].posts["streamable"] = 1 => exchanges[q].kind = "discover" /\ exchanges[q].at = "ended"

FallBackInv ==
  \A r \in HttpRequests :
    /\ exchanges[r].mayFallBack /\ exchanges[r].at \in {"open", "authorizing", "posted"} =>
         /\ Solo(r)
         /\ (owners["streamable"].at = "gate" /\ owners["streamable"].for = r)
            \/ owners["streamable"].at \in OwnerLeft
    /\ exchanges[r].at = "handed" =>
         /\ Solo(r) /\ sessions["streamable"].state = "fresh"
         /\ owners["streamable"].at = "connecting" /\ owners["streamable"].for = r
    /\ exchanges[r].on = "legacy" /\ exchanges[r].posts["streamable"] = 1 =>
         Solo(r) /\ exchanges[r].kind = "initialize"
    /\ /\ exchanges[r].mayFallBack /\ exchanges[r].at \in {"authorizing", "posted"}
       /\ exchanges[r].saw = FreshSession /\ owners["streamable"].at = "gate"
       => sessions["streamable"].state = "fresh"

(* The two owners: the second starts when the first hands over to it.      *)
OwnersInv ==
  /\ owners["streamable"].at # "absent" /\ owners["legacy"].at # "connecting"
  /\ owners["legacy"].at = "absent" =>
       /\ sessions["legacy"].state = "fresh"
       /\ \A r \in HttpRequests : exchanges[r].on = "streamable"
  /\ owners["legacy"].at # "absent" =>
       /\ negotiation = "active"
       /\ owners["streamable"].at \in {"forward"} \cup OwnerLeft
       /\ \A r \in HttpRequests : exchanges[r].on = "streamable" => ~IsLive(exchanges[r])
  /\ owners["legacy"].at \notin {"absent", "complete"} => sessions["streamable"].state = "fresh"
  /\ owners["streamable"].at = "complete" => owners["legacy"].at \in {"absent", "complete"}
  /\ owners["streamable"].at = "connecting" =>
       owners["streamable"].for # 0 /\ exchanges[owners["streamable"].for].at = "handed"
  /\ \A e \in Endpoints :
       owners[e].at \in {"gate", "settle", "inline"} =>
       /\ owners[e].for # 0 /\ exchanges[owners[e].for].on = e
       /\ ~Untaken(exchanges[owners[e].for])
  /\ \A r \in HttpRequests : IsLive(exchanges[r]) =>
       owners[exchanges[r].on].at \notin {"absent", "stopping", "complete"}

SessionsInv ==
  /\ established => sessions["streamable"].state # "fresh" \/ sessions["legacy"].state # "fresh"
  /\ \A r \in HttpRequests : exchanges[r].after => established
  /\ \A r \in HttpRequests : exchanges[r].after /\ exchanges[r].at = "open" =>
       sessions[exchanges[r].on].state # "fresh"
  /\ stream.delivering # 0 /\ stream.verdict = "result" => sessions["legacy"].state # "fresh"
  /\ negotiation = "probing" =>
       \A r \in HttpRequests : ~Untaken(exchanges[r]) => exchanges[r].kind \in {"discover", "malformed"}

(* The entries of the event stream: each is told once.                     *)
Entry(r) == exchanges[r].on = "legacy" /\ exchanges[r].done = "none" /\ exchanges[r].at # "open"

StreamInv ==
  /\ \A r \in pending : Entry(r) /\ r \notin stream.owed /\ r # stream.delivering
  /\ \A r \in stream.owed : Entry(r)
  /\ stream.delivering # 0 => Entry(stream.delivering) /\ stream.at = "open"
  /\ stream.at = "open" => stream.owed = {}
  /\ \A r \in HttpRequests : exchanges[r].at = "open" => exchanges[r].done = "none"

(* A request waits in one channel, once.                                   *)
ChannelsInv ==
  /\ \A e \in Endpoints : \A i \in DOMAIN channels[e] : exchanges[channels[e][i]].at = "queued"
  /\ \A e, f \in Endpoints : \A i \in DOMAIN channels[e], j \in DOMAIN channels[f] :
       channels[e][i] = channels[f][j] => e = f /\ i = j

HttpShape ==
  /\ HttpTypeOK /\ channels \in [Endpoints -> Seq(HttpRequests)]

HttpInv ==
  /\ HttpShape /\ \A r \in HttpRequests : ExchangeInv(exchanges[r])
  /\ FallBackInv /\ OwnersInv /\ SessionsInv /\ StreamInv /\ ChannelsInv

-----------------------------------------------------------------------------
(* A request: what each step makes of it.                                  *)

LEMMA SessionValues ==
  /\ FreshSession \in Session /\ ExpiredSession \in Session
  /\ FreshSession.state = "fresh" /\ ExpiredSession.state = "expired"
  /\ \A id, modern \in BOOLEAN :
       ReadySession(id, modern) \in Session /\ ReadySession(id, modern).state = "ready"
BY DEF FreshSession, ExpiredSession, ReadySession, Session

LEMMA OverKeeps ==
  ASSUME NEW x \in Exchange, ExchangeInv(x), ~Untaken(x)
  PROVE  /\ Over(x) \in Exchange /\ ExchangeInv(Over(x))
         /\ Over(x).at = "ended" /\ ~Over(x).mayFallBack
         /\ Over(x).on = x.on /\ Over(x).kind = x.kind /\ Over(x).after = x.after
         /\ Over(x).done = x.done /\ Over(x).posts = x.posts /\ Over(x).answers = x.answers
<1>1. /\ x.kind \in ExchangeKind /\ x.on \in Endpoints /\ x.posts \in [Endpoints -> 0..2]
      /\ x.answers \in 0..3 /\ x.done \in {"none", "ok", "error"} /\ x.after \in BOOLEAN
      /\ x.at \in Steps
  BY DEF Exchange
<1>2. Over(x) \in Exchange
  BY SessionValues DEF Over, Exchange, Steps
<1>3. /\ Over(x).at = "ended" /\ ~Over(x).mayFallBack /\ ~Over(x).answered
      /\ Over(x).on = x.on /\ Over(x).kind = x.kind /\ Over(x).after = x.after
      /\ Over(x).done = x.done /\ Over(x).posts = x.posts /\ Over(x).answers = x.answers
  BY DEF Over, Exchange
<1>4. ExchangeInv(Over(x))
  BY <1>1, <1>3 DEF ExchangeInv, Untaken, IsLive, Steps, Endpoints
<1>5. QED
  BY <1>2, <1>3, <1>4

(* A request that fails has not been answered, or is not told.             *)
LEMMA ToldKeeps ==
  ASSUME NEW x \in Exchange, ExchangeInv(x), ~Untaken(x), x.at # "ended"
  PROVE  /\ Over(Told(x)) \in Exchange /\ ExchangeInv(Over(Told(x)))
         /\ Over(Told(x)).at = "ended" /\ ~Over(Told(x)).mayFallBack
         /\ Over(Told(x)).on = x.on /\ Over(Told(x)).kind = x.kind
         /\ Over(Told(x)).after = x.after /\ Over(Told(x)).done = x.done
         /\ Over(Told(x)).posts = x.posts
<1>1. CASE ~(Identified(x.kind) /\ ~x.answered)
  <2>1. Told(x) = x
    BY <1>1 DEF Told
  <2>2. QED
    BY <2>1, OverKeeps
<1>2. CASE Identified(x.kind) /\ ~x.answered
  <2> DEFINE y == Told(x)
             z == Over(y)
  <2>1. /\ x.kind \in ExchangeKind /\ x.on \in Endpoints /\ x.posts \in [Endpoints -> 0..2]
        /\ x.answers \in 0..3 /\ x.done \in {"none", "ok", "error"} /\ x.after \in BOOLEAN
        /\ x.at \in Steps
    BY DEF Exchange
  <2>2. x.answers <= 1 /\ (x.on = "streamable" => x.answers = 0)
    BY <1>2, <2>1 DEF ExchangeInv, Endpoints
  <2>3. y = [x EXCEPT !.answers = x.answers + 1]
    BY <1>2 DEF Told
  <2>4. /\ y \in Exchange /\ y.answers = x.answers + 1 /\ y.at = x.at /\ y.on = x.on /\ y.kind = x.kind
        /\ y.after = x.after /\ y.done = x.done /\ y.posts = x.posts
    BY <2>1, <2>2, <2>3 DEF Exchange
  <2> HIDE DEF y
  <2>5. z \in Exchange
    BY <2>4, SessionValues DEF Over, Exchange, Steps
  <2>6. /\ z.at = "ended" /\ ~z.mayFallBack /\ ~z.answered
        /\ z.on = x.on /\ z.kind = x.kind /\ z.after = x.after
        /\ z.done = x.done /\ z.posts = x.posts /\ z.answers = x.answers + 1
    BY <2>4 DEF Over, Exchange
  <2> HIDE DEF z
  <2>7. x.on = "legacy" => x.answers <= (IF x.done = "none" THEN 0 ELSE 1)
    BY <2>1 DEF ExchangeInv
  <2>8. ExchangeInv(z)
    BY <2>1, <2>2, <2>6, <2>7 DEF ExchangeInv, Untaken, IsLive, Steps, Endpoints
  <2>9. QED
    BY <2>5, <2>6, <2>8 DEF y, z
<1>3. QED
  BY <1>1, <1>2

LEMMA FailingKeeps ==
  ASSUME NEW x \in Exchange, ExchangeInv(x), IsLive(x), NEW y,
         y = [x EXCEPT !.at = "failing"]
  PROVE  y \in Exchange /\ ExchangeInv(y)
<1>1. /\ y \in Exchange /\ y.at = "failing" /\ y.on = x.on /\ y.kind = x.kind /\ y.after = x.after
      /\ y.done = x.done /\ y.posts = x.posts /\ y.answers = x.answers /\ y.answered = x.answered
      /\ y.mayFallBack = x.mayFallBack /\ y.saw = x.saw
  BY DEF Exchange, Steps
<1>2. x.on \in Endpoints /\ x.at \in Steps /\ x.answered \in BOOLEAN
  BY DEF Exchange
<1>3. ExchangeInv(y)
  BY <1>1, <1>2 DEF ExchangeInv, Untaken, IsLive, Steps, Endpoints
<1>4. QED
  BY <1>1, <1>3

LEMMA OpenKeeps ==
  ASSUME NEW x \in Exchange, ExchangeInv(x), x.at = "open", NEW s \in Session,
         x.after => s.state # "fresh", NEW at \in {"failing", "authorizing"},
         NEW y, y = [x EXCEPT !.saw = s, !.at = at]
  PROVE  y \in Exchange /\ ExchangeInv(y)
<1>1. /\ y \in Exchange /\ y.at = at /\ y.on = x.on /\ y.kind = x.kind /\ y.after = x.after
      /\ y.done = x.done /\ y.posts = x.posts /\ y.answers = x.answers /\ y.answered = x.answered
      /\ y.mayFallBack = x.mayFallBack /\ y.saw = s
  BY DEF Exchange, Steps
<1>2. x.on \in Endpoints /\ x.at \in Steps /\ x.answered \in BOOLEAN
  BY DEF Exchange
<1>3. ExchangeInv(y)
  BY <1>1, <1>2 DEF ExchangeInv, Untaken, IsLive, Steps, Endpoints
<1>4. QED
  BY <1>1, <1>3

LEMMA PostKeeps ==
  ASSUME NEW x \in Exchange, ExchangeInv(x), x.at = "authorizing", ~Refused(x, x.saw),
         NEW y, y = [x EXCEPT !.at = "posted", !.posts[x.on] = @ + 1]
  PROVE  /\ y \in Exchange /\ ExchangeInv(y)
         /\ \A e \in Endpoints \ {x.on} : y.posts[e] = x.posts[e]
<1>1. /\ x.on \in Endpoints /\ x.at \in Steps /\ x.answered \in BOOLEAN /\ x.posts \in [Endpoints -> 0..2]
      /\ x.saw \in Session /\ x.answers \in 0..3
  BY DEF Exchange
<1>2. x.posts[x.on] = 0
  BY DEF ExchangeInv
<1> DEFINE posts == [x.posts EXCEPT ![x.on] = x.posts[x.on] + 1]
<1>3. /\ posts \in [Endpoints -> 0..2] /\ posts[x.on] = 1
      /\ \A e \in Endpoints \ {x.on} : posts[e] = x.posts[e]
  BY <1>1, <1>2
<1>4. y = [x EXCEPT !.at = "posted", !.posts = posts]
  BY DEF Exchange
<1> HIDE DEF posts
<1>5. /\ y \in Exchange /\ y.at = "posted" /\ y.on = x.on /\ y.kind = x.kind /\ y.after = x.after
      /\ y.done = x.done /\ y.posts = posts /\ y.answers = x.answers /\ y.answered = x.answered
      /\ y.mayFallBack = x.mayFallBack /\ y.saw = x.saw
  BY <1>3, <1>4 DEF Exchange, Steps
<1>6. x.after => x.saw.state = "ready"
  BY <1>1 DEF ExchangeInv, Refused, Session
<1>7. \A e \in Endpoints : posts[e] <= 1
  BY <1>3 DEF ExchangeInv
<1>8. x.kind # "malformed" /\ (x.on = "streamable" => posts["legacy"] = 0)
  BY <1>1, <1>3 DEF ExchangeInv, IsLive, Endpoints
<1>9. ExchangeInv(y)
  BY <1>1, <1>5, <1>6, <1>7, <1>8 DEF ExchangeInv, Untaken, IsLive, Steps, Endpoints
<1>10. QED
  BY <1>3, <1>5, <1>9

LEMMA ReadKeeps ==
  ASSUME NEW x \in Exchange, ExchangeInv(x), x.at = "posted",
         NEW y, y = [x EXCEPT !.at = IF x.on = "streamable" THEN "reading" ELSE "awaiting"]
  PROVE  y \in Exchange /\ ExchangeInv(y) /\ y.at \in {"reading", "awaiting"}
<1>1. /\ y \in Exchange /\ y.at \in {"reading", "awaiting"} /\ y.on = x.on /\ y.kind = x.kind /\ y.after = x.after
      /\ y.done = x.done /\ y.posts = x.posts /\ y.answers = x.answers /\ y.answered = x.answered
      /\ y.mayFallBack = x.mayFallBack /\ y.saw = x.saw /\ (y.at = "reading" => y.on = "streamable")
  BY DEF Exchange, Steps
<1>2. x.on \in Endpoints /\ x.at \in Steps /\ x.answered \in BOOLEAN
  BY DEF Exchange
<1>3. ExchangeInv(y)
  BY <1>1, <1>2 DEF ExchangeInv, Untaken, IsLive, Steps, Endpoints
<1>4. QED
  BY <1>1, <1>3

LEMMA HandedKeeps ==
  ASSUME NEW x \in Exchange, ExchangeInv(x), x.at = "posted", x.mayFallBack,
         NEW y, y = [x EXCEPT !.at = "handed"]
  PROVE  y \in Exchange /\ ExchangeInv(y)
<1>1. /\ y \in Exchange /\ y.at = "handed" /\ y.on = x.on /\ y.kind = x.kind /\ y.after = x.after
      /\ y.done = x.done /\ y.posts = x.posts /\ y.answers = x.answers /\ y.answered = x.answered
      /\ y.mayFallBack = x.mayFallBack /\ y.saw = x.saw
  BY DEF Exchange, Steps
<1>2. x.on \in Endpoints /\ x.at \in Steps /\ x.answered \in BOOLEAN
  BY DEF Exchange
<1>3. ExchangeInv(y)
  BY <1>1, <1>2 DEF ExchangeInv, Untaken, IsLive, Steps, Endpoints
<1>4. QED
  BY <1>1, <1>3

LEMMA AnswerType ==
  ASSUME NEW x \in Exchange, NEW n \in 0..3, NEW answered \in BOOLEAN,
         NEW y, y = [x EXCEPT !.answers = n, !.answered = answered]
  PROVE  y \in Exchange
BY DEF Exchange

LEMMA AnswerKeeps ==
  ASSUME NEW x \in Exchange, ExchangeInv(x), x.at = "reading", ~x.answered,
         NEW y, y = [x EXCEPT !.answers = @ + 1, !.answered = TRUE]
  PROVE  y \in Exchange /\ ExchangeInv(y)
<1>1. x.on \in Endpoints /\ x.at \in Steps /\ x.answered \in BOOLEAN /\ x.answers \in 0..3
  BY DEF Exchange
<1>2. x.on = "streamable" /\ x.answers = 0
  BY <1>1 DEF ExchangeInv
<1>6. y = [x EXCEPT !.answers = 1, !.answered = TRUE]
  BY <1>2
<1>8. 1 \in 0..3 /\ TRUE \in BOOLEAN
  OBVIOUS
<1>7. y \in Exchange
  BY <1>6, <1>8, AnswerType, Zenon
<1>3. /\ y \in Exchange /\ y.at = "reading" /\ y.on = x.on /\ y.kind = x.kind /\ y.after = x.after
      /\ y.done = x.done /\ y.posts = x.posts /\ y.answers = 1 /\ y.answered = TRUE
      /\ y.mayFallBack = x.mayFallBack /\ y.saw = x.saw
  BY <1>6, <1>7 DEF Exchange
<1>4. ExchangeInv(y)
  BY <1>1, <1>2, <1>3 DEF ExchangeInv, Untaken, IsLive, Steps, Endpoints
<1>5. QED
  BY <1>3, <1>4

(* What the event stream tells a request, once.                            *)
LEMMA EntryKeeps ==
  ASSUME NEW x \in Exchange, ExchangeInv(x), x.on = "legacy", x.done = "none", ~Untaken(x),
         NEW n \in {x.answers, x.answers + 1}, NEW answered \in BOOLEAN, NEW done \in {"ok", "error"},
         NEW y, y = [x EXCEPT !.answers = n, !.answered = answered, !.done = done]
  PROVE  y \in Exchange /\ ExchangeInv(y)
<1>1. x.on \in Endpoints /\ x.at \in Steps /\ x.answers \in 0..3
  BY DEF Exchange
<1>2. x.answers <= (IF x.at = "ended" THEN 1 ELSE 0)
  BY <1>1 DEF ExchangeInv
<1>3. n \in 0..3 /\ n <= 1 + (IF x.at = "ended" THEN 1 ELSE 0)
  BY <1>1, <1>2
<1>4. /\ y \in Exchange /\ y.at = x.at /\ y.on = x.on /\ y.kind = x.kind /\ y.after = x.after
      /\ y.done = done /\ y.posts = x.posts /\ y.answers = n
      /\ y.mayFallBack = x.mayFallBack /\ y.saw = x.saw
  BY <1>3 DEF Exchange
<1>5. ExchangeInv(y)
  BY <1>1, <1>3, <1>4 DEF ExchangeInv, Untaken, IsLive, Steps, Endpoints
<1>6. QED
  BY <1>4, <1>5

-----------------------------------------------------------------------------
(* A step of a worker, or its end: one live request moves on.              *)

WorkerMove(r, y) ==
  /\ IsLive(exchanges[r])
  /\ exchanges' = [exchanges EXCEPT ![r] = y]
  /\ y \in Exchange /\ ExchangeInv(y)
  /\ y.on = exchanges[r].on /\ y.kind = exchanges[r].kind
  /\ y.after = exchanges[r].after /\ y.done = exchanges[r].done
  /\ y.at \notin {"new", "queued", "open"} /\ (y.mayFallBack => exchanges[r].mayFallBack)
  /\ y.at \in {"authorizing", "posted"} =>
       /\ exchanges[r].at \in {"open", "authorizing"} /\ owners' = owners /\ sessions' = sessions
       /\ \/ exchanges[r].at = "open" /\ y.saw = sessions[exchanges[r].on]
          \/ exchanges[r].at = "authorizing" /\ y.saw = exchanges[r].saw
  /\ \A e \in Endpoints \ {y.on} : y.posts[e] = exchanges[r].posts[e]
  /\ sessions' \in [Endpoints -> Session]
  /\ \A e \in Endpoints : sessions'[e] = sessions[e] \/ (e = y.on /\ sessions'[e].state # "fresh")
  /\ \/ y.at # "handed" /\ (owners' = owners \/ Resume(r))
     \/ /\ y.at = "handed" /\ exchanges[r].at = "posted" /\ exchanges[r].mayFallBack
        /\ exchanges[r].saw = FreshSession /\ owners["streamable"].at = "gate"
        /\ owners' = [owners EXCEPT !["streamable"].at = "connecting"] /\ sessions' = sessions
  /\ established' \in BOOLEAN /\ (established => established')
  /\ established' => established \/ sessions'[y.on].state # "fresh"
  /\ pending' \subseteq pending \cup {r}
  /\ r \in pending' \ pending => y.on = "legacy" /\ exchanges[r].at = "open"
  /\ UNCHANGED <<channels, negotiation, stream, plug>>

LEMMA OwnersMove ==
  ASSUME HttpInv, NEW r \in HttpRequests, NEW y, WorkerMove(r, y)
  PROVE  /\ owners' \in [Endpoints -> Owner]
         /\ \A e \in Endpoints :
              \/ owners'[e] = owners[e]
              \/ owners[e].for = r /\ owners[e].at \in {"gate", "inline"} /\ owners'[e] = Idle
                 /\ y.at \notin {"authorizing", "posted", "handed"}
              \/ e = "streamable" /\ y.at = "handed" /\ owners[e].at = "gate" /\ owners[e].for = r
                 /\ owners'[e].at = "connecting" /\ owners'[e].for = r
                 /\ exchanges[r].at = "posted" /\ exchanges[r].mayFallBack
                 /\ exchanges[r].saw = FreshSession /\ y.on = "streamable"
<1>1. owners \in [Endpoints -> Owner] /\ exchanges \in [HttpRequests -> Exchange]
  BY DEF HttpInv, HttpShape, HttpTypeOK
<1>2. Idle \in Owner /\ "streamable" \in Endpoints
  BY DEF Idle, Owner, Endpoints
<1>3. CASE owners' = owners
  BY <1>1, <1>3
<1>4. CASE y.at # "handed" /\ Resume(r)
  <2>1. y.at \notin {"authorizing", "posted"} \/ owners' = owners
    BY DEF WorkerMove
  <2>2. \A e \in Endpoints : owners'[e] = IF owners[e].for = r /\ owners[e].at \in {"gate", "inline"}
                                        THEN Idle ELSE owners[e]
    BY <1>4 DEF Resume
  <2>3. owners' = [e \in Endpoints |-> IF owners[e].for = r /\ owners[e].at \in {"gate", "inline"}
                                        THEN Idle ELSE owners[e]]
    BY <1>4 DEF Resume
  <2>4. owners' \in [Endpoints -> Owner]
    BY <1>1, <1>2, <2>3
  <2>5. QED
    BY <1>3, <1>4, <2>1, <2>2, <2>4
<1>5. CASE /\ y.at = "handed" /\ exchanges[r].at = "posted" /\ exchanges[r].mayFallBack
           /\ exchanges[r].saw = FreshSession /\ owners["streamable"].at = "gate"
           /\ owners' = [owners EXCEPT !["streamable"].at = "connecting"]
  <2> DEFINE o == owners["streamable"]
             p == [o EXCEPT !.at = "connecting"]
  <2>1. o \in Owner
    BY <1>1, <1>2
  <2>2. p \in Owner /\ p.at = "connecting" /\ p.for = o.for
    BY <2>1 DEF Owner
  <2>3. owners' = [owners EXCEPT !["streamable"] = p]
    BY <1>5
  <2> HIDE DEF p
  <2>4. owners' \in [Endpoints -> Owner] /\ owners'["streamable"] = p
        /\ \A e \in Endpoints \ {"streamable"} : owners'[e] = owners[e]
    BY <1>1, <1>2, <2>2, <2>3
  <2>5. o.for = r
    BY <1>5 DEF HttpInv, FallBackInv, OwnerLeft
  <2>6. exchanges[r].on = "streamable" /\ y.on = "streamable"
    BY <1>5 DEF HttpInv, ExchangeInv, WorkerMove
  <2>7. QED
    BY <1>5, <2>2, <2>4, <2>5, <2>6
<1>6. QED
  BY <1>3, <1>4, <1>5 DEF WorkerMove

(* What a move of r leaves of the other requests.                          *)
LEMMA OthersStay ==
  ASSUME HttpInv, NEW r \in HttpRequests, NEW y, y \in Exchange, exchanges' = [exchanges EXCEPT ![r] = y]
  PROVE  /\ exchanges' \in [HttpRequests -> Exchange] /\ exchanges'[r] = y
         /\ \A q \in HttpRequests \ {r} : exchanges'[q] = exchanges[q]
         /\ ExchangeInv(y) => \A q \in HttpRequests : ExchangeInv(exchanges'[q])
<1>1. exchanges \in [HttpRequests -> Exchange] /\ \A q \in HttpRequests : ExchangeInv(exchanges[q])
  BY DEF HttpInv, HttpShape, HttpTypeOK
<1>2. /\ exchanges' \in [HttpRequests -> Exchange] /\ exchanges'[r] = y
      /\ \A q \in HttpRequests \ {r} : exchanges'[q] = exchanges[q]
  BY <1>1
<1>3. ExchangeInv(y) => \A q \in HttpRequests : ExchangeInv(exchanges'[q])
  BY <1>1, <1>2
<1>4. QED
  BY <1>2, <1>3

LEMMA WorkerShape ==
  ASSUME HttpInv, NEW r \in HttpRequests, NEW y, WorkerMove(r, y)
  PROVE  HttpShape' /\ \A q \in HttpRequests : ExchangeInv(exchanges[q])'
<1>1. exchanges' \in [HttpRequests -> Exchange] /\ \A q \in HttpRequests : ExchangeInv(exchanges'[q])
  BY OthersStay DEF WorkerMove
<1>2. owners' \in [Endpoints -> Owner]
  BY OwnersMove
<1>3. /\ pending' \subseteq HttpRequests /\ sessions' \in [Endpoints -> Session] /\ established' \in BOOLEAN
      /\ UNCHANGED <<channels, negotiation, stream, plug>>
  BY DEF WorkerMove, HttpInv, HttpShape, HttpTypeOK
<1>4. HttpShape'
  BY <1>1, <1>2, <1>3 DEF HttpInv, HttpShape, HttpTypeOK
<1>5. QED
  BY <1>1, <1>4

LEMMA WorkerChannels ==
  ASSUME HttpInv, NEW r \in HttpRequests, NEW y, WorkerMove(r, y)
  PROVE  ChannelsInv'
<1>1. channels' = channels /\ exchanges[r].at # "queued"
  BY DEF WorkerMove, IsLive
<1>2. \A q \in HttpRequests \ {r} : exchanges'[q] = exchanges[q]
  BY OthersStay DEF WorkerMove
<1>3. \A e \in Endpoints : \A i \in DOMAIN channels[e] :
        channels[e][i] \in HttpRequests /\ exchanges[channels[e][i]].at = "queued"
  BY DEF HttpInv, HttpShape, HttpTypeOK, ChannelsInv
<1>4. \A e \in Endpoints : \A i \in DOMAIN channels[e] : exchanges'[channels[e][i]].at = "queued"
  BY <1>1, <1>2, <1>3
<1>5. QED
  BY <1>1, <1>4 DEF HttpInv, ChannelsInv

LEMMA WorkerStream ==
  ASSUME HttpInv, NEW r \in HttpRequests, NEW y, WorkerMove(r, y)
  PROVE  StreamInv'
<1>1. exchanges'[r] = y /\ \A q \in HttpRequests \ {r} : exchanges'[q] = exchanges[q]
  BY OthersStay DEF WorkerMove
<1>2. /\ y.on = exchanges[r].on /\ y.done = exchanges[r].done /\ y.at # "open"
      /\ stream' = stream /\ pending' \subseteq pending \cup {r}
      /\ r \in pending' \ pending => y.on = "legacy" /\ exchanges[r].at = "open"
  BY DEF WorkerMove
<1>3. pending \subseteq HttpRequests /\ stream \in Stream
  BY DEF HttpInv, HttpShape, HttpTypeOK
<1>4. \A q \in HttpRequests : Entry(q) => Entry(q)'
  BY <1>1, <1>2 DEF Entry
<1>5. \A q \in pending' : Entry(q)' /\ q \notin stream.owed /\ q # stream.delivering
  <2>1. TAKE q \in pending'
  <2>2. CASE q \in pending
    BY <1>3, <1>4, <2>2 DEF HttpInv, StreamInv
  <2>3. CASE q \notin pending
    <3>1. q = r /\ y.on = "legacy" /\ exchanges[r].at = "open"
      BY <1>2, <2>1, <2>3
    <3>2. exchanges[r].done = "none" /\ ~Entry(r)
      BY <3>1 DEF HttpInv, StreamInv, Entry
    <3>3. r \notin stream.owed /\ r # stream.delivering
      BY <3>2, HttpAssumption DEF HttpInv, StreamInv
    <3>4. QED
      BY <1>1, <1>2, <3>1, <3>2, <3>3 DEF Entry
  <2>4. QED
    BY <2>2, <2>3
<1>6. stream.owed \subseteq HttpRequests /\ stream.delivering \in HttpRequests \cup {0}
  BY <1>3 DEF Stream
<1>7. /\ \A q \in stream.owed : Entry(q)'
      /\ \A q \in HttpRequests : stream.delivering = q => Entry(q)'
      /\ stream.delivering # 0 => stream.at = "open"
  BY <1>4, <1>6, HttpAssumption DEF HttpInv, StreamInv
<1>10. stream'.delivering # 0 => Entry(stream.delivering)' /\ stream'.at = "open"
  BY <1>2, <1>6, <1>7 DEF Entry
<1>8. \A q \in HttpRequests : exchanges'[q].at = "open" => exchanges'[q].done = "none"
  BY <1>1, <1>2 DEF HttpInv, StreamInv
<1>9. QED
  BY <1>2, <1>5, <1>7, <1>8, <1>10 DEF HttpInv, StreamInv

LEMMA WorkerSessions ==
  ASSUME HttpInv, NEW r \in HttpRequests, NEW y, WorkerMove(r, y)
  PROVE  SessionsInv'
<1>1. exchanges'[r] = y /\ \A q \in HttpRequests \ {r} : exchanges'[q] = exchanges[q]
  BY OthersStay DEF WorkerMove
<1>2. /\ y.on = exchanges[r].on /\ y.kind = exchanges[r].kind /\ y.after = exchanges[r].after /\ y.at # "open"
      /\ IsLive(exchanges[r]) /\ stream' = stream /\ negotiation' = negotiation
      /\ \A e \in Endpoints : sessions'[e] = sessions[e] \/ sessions'[e].state # "fresh"
      /\ established => established'
      /\ established' => established \/ sessions'[y.on].state # "fresh"
  BY DEF WorkerMove
<1>3. y.on \in Endpoints /\ \A q \in HttpRequests : exchanges[q].on \in Endpoints
  BY DEF HttpInv, HttpShape, HttpTypeOK, Exchange, WorkerMove
<1>4. \A e \in Endpoints : sessions[e].state # "fresh" => sessions'[e].state # "fresh"
  BY <1>2
<1>5. established' => sessions'["streamable"].state # "fresh" \/ sessions'["legacy"].state # "fresh"
  BY <1>2, <1>3, <1>4 DEF HttpInv, SessionsInv, Endpoints
<1>6. \A q \in HttpRequests : exchanges'[q].after => established'
  BY <1>1, <1>2 DEF HttpInv, SessionsInv
<1>7. \A q \in HttpRequests : exchanges'[q].after /\ exchanges'[q].at = "open" =>
        sessions'[exchanges'[q].on].state # "fresh"
  BY <1>1, <1>2, <1>3, <1>4 DEF HttpInv, SessionsInv
<1>8. stream'.delivering # 0 /\ stream'.verdict = "result" => sessions'["legacy"].state # "fresh"
  BY <1>2, <1>4 DEF HttpInv, SessionsInv, Endpoints
<1>9. negotiation' = "probing" =>
        \A q \in HttpRequests : ~Untaken(exchanges'[q]) => exchanges'[q].kind \in {"discover", "malformed"}
  BY <1>1, <1>2 DEF HttpInv, SessionsInv, Untaken, IsLive
<1>10. QED
  BY <1>5, <1>6, <1>7, <1>8, <1>9 DEF SessionsInv

LEMMA WorkerOwners ==
  ASSUME HttpInv, NEW r \in HttpRequests, NEW y, WorkerMove(r, y)
  PROVE  OwnersInv'
<1>1. exchanges'[r] = y /\ \A q \in HttpRequests \ {r} : exchanges'[q] = exchanges[q]
  BY OthersStay DEF WorkerMove
<1>2. /\ y.on = exchanges[r].on /\ ~Untaken(y) /\ IsLive(exchanges[r]) /\ negotiation' = negotiation
      /\ \A e \in Endpoints : sessions'[e] = sessions[e] \/ e = y.on
      /\ y.on \in Endpoints
  BY DEF WorkerMove, Untaken, Exchange
<1>3. \A e \in Endpoints :
        \/ owners'[e] = owners[e]
        \/ owners[e].for = r /\ owners[e].at \in {"gate", "inline"} /\ owners'[e].at = "select"
        \/ e = "streamable" /\ y.at = "handed" /\ owners[e].at = "gate" /\ owners[e].for = r
           /\ owners'[e].at = "connecting" /\ owners'[e].for = r /\ y.on = "streamable"
  BY OwnersMove DEF Idle
<1>4. owners[y.on].at \notin {"absent", "stopping", "complete"}
  BY <1>2 DEF HttpInv, OwnersInv
<1>5. y.on = "streamable" => owners["legacy"].at = "absent"
  BY <1>2 DEF HttpInv, OwnersInv
<1>6. \A e \in Endpoints : (owners'[e].at = "absent") <=> (owners[e].at = "absent")
  BY <1>3
<1>7. owners'["streamable"].at # "absent" /\ owners'["legacy"].at # "connecting"
  BY <1>3, <1>6 DEF HttpInv, OwnersInv, Endpoints
<1>8. owners'["legacy"].at = "absent" =>
        /\ sessions'["legacy"].state = "fresh"
        /\ \A q \in HttpRequests : exchanges'[q].on = "streamable"
  BY <1>1, <1>2, <1>4, <1>6 DEF HttpInv, OwnersInv, Endpoints
<1>9. owners'["legacy"].at # "absent" =>
        /\ negotiation' = "active"
        /\ owners'["streamable"].at \in {"forward"} \cup OwnerLeft
        /\ \A q \in HttpRequests : exchanges'[q].on = "streamable" => ~IsLive(exchanges'[q])
  <2>1. SUFFICES ASSUME owners["legacy"].at # "absent"
                 PROVE  /\ negotiation = "active"
                        /\ owners'["streamable"].at \in {"forward"} \cup OwnerLeft
                        /\ \A q \in HttpRequests : exchanges'[q].on = "streamable" => ~IsLive(exchanges'[q])
    BY <1>2, <1>6 DEF Endpoints
  <2>2. owners["streamable"].at \in {"forward"} \cup OwnerLeft /\ negotiation = "active"
    BY <2>1 DEF HttpInv, OwnersInv
  <2>3. owners'["streamable"] = owners["streamable"]
    BY <1>3, <2>2 DEF Endpoints, OwnerLeft
  <2>4. y.on # "streamable"
    BY <1>5, <2>1
  <2>5. QED
    BY <1>1, <2>1, <2>2, <2>3, <2>4 DEF HttpInv, OwnersInv
<1>10. owners'["legacy"].at \notin {"absent", "complete"} => sessions'["streamable"].state = "fresh"
  <2>1. SUFFICES ASSUME owners'["legacy"].at \notin {"absent", "complete"}
                 PROVE  sessions'["streamable"].state = "fresh"
    OBVIOUS
  <2>2. owners["legacy"].at \notin {"absent", "complete"}
    BY <1>3, <2>1 DEF Endpoints
  <2>3. QED
    BY <1>2, <1>5, <2>2 DEF HttpInv, OwnersInv, Endpoints
<1>11. owners'["streamable"].at = "complete" => owners'["legacy"].at \in {"absent", "complete"}
  <2>1. SUFFICES ASSUME owners'["streamable"].at = "complete"
                 PROVE  owners'["legacy"].at \in {"absent", "complete"}
    OBVIOUS
  <2>2. owners["streamable"].at = "complete"
    BY <1>3, <2>1 DEF Endpoints
  <2>3. owners["legacy"].at \in {"absent", "complete"}
    BY <2>2 DEF HttpInv, OwnersInv
  <2>4. QED
    BY <1>3, <2>3 DEF Endpoints
<1>12. owners'["streamable"].at = "connecting" =>
         owners'["streamable"].for # 0 /\ exchanges'[owners'["streamable"].for].at = "handed"
  <2>1. SUFFICES ASSUME owners'["streamable"].at = "connecting"
                 PROVE  owners'["streamable"].for # 0 /\ exchanges'[owners'["streamable"].for].at = "handed"
    OBVIOUS
  <2>2. CASE owners'["streamable"] = owners["streamable"]
    <3>1. owners["streamable"].for # 0 /\ exchanges[owners["streamable"].for].at = "handed"
      BY <2>1, <2>2 DEF HttpInv, OwnersInv
    <3>2. owners["streamable"].for \in HttpRequests \ {r}
      BY <1>2, <3>1 DEF HttpInv, HttpShape, HttpTypeOK, Owner, IsLive, Endpoints
    <3>3. QED
      BY <1>1, <2>2, <3>1, <3>2
  <2>3. CASE owners'["streamable"] # owners["streamable"]
    <3>1. owners'["streamable"].for = r /\ y.at = "handed"
      BY <1>3, <2>1, <2>3 DEF Endpoints
    <3>2. QED
      BY <1>1, <3>1, HttpAssumption
  <2>4. QED
    BY <2>2, <2>3
<1>13. \A e \in Endpoints :
         owners'[e].at \in {"gate", "settle", "inline"} =>
           /\ owners'[e].for # 0 /\ exchanges'[owners'[e].for].on = e
           /\ ~Untaken(exchanges'[owners'[e].for])
  <2>1. SUFFICES ASSUME NEW e \in Endpoints, owners'[e].at \in {"gate", "settle", "inline"}
                 PROVE  /\ owners'[e].for # 0 /\ exchanges'[owners'[e].for].on = e
                        /\ ~Untaken(exchanges'[owners'[e].for])
    OBVIOUS
  <2>2. owners'[e] = owners[e]
    BY <1>3, <2>1
  <2>3. owners[e].for # 0 /\ exchanges[owners[e].for].on = e /\ ~Untaken(exchanges[owners[e].for])
    BY <2>1, <2>2 DEF HttpInv, OwnersInv
  <2>4. owners[e].for \in HttpRequests
    BY <2>3 DEF HttpInv, HttpShape, HttpTypeOK, Owner
  <2>5. QED
    BY <1>1, <1>2, <2>2, <2>3, <2>4
<1>14. \A q \in HttpRequests : IsLive(exchanges'[q]) =>
         owners'[exchanges'[q].on].at \notin {"absent", "stopping", "complete"}
  <2>1. \A e \in Endpoints : owners[e].at \notin {"absent", "stopping", "complete"} =>
          owners'[e].at \notin {"absent", "stopping", "complete"}
    BY <1>3
  <2>2. \A q \in HttpRequests : exchanges[q].on \in Endpoints
    BY DEF HttpInv, HttpShape, HttpTypeOK, Exchange
  <2>3. QED
    BY <1>1, <1>2, <1>4, <2>1, <2>2 DEF HttpInv, OwnersInv
<1>15. QED
  BY <1>7, <1>8, <1>9, <1>10, <1>11, <1>12, <1>13, <1>14 DEF OwnersInv

LEMMA WorkerFallBack ==
  ASSUME HttpInv, NEW r \in HttpRequests, NEW y, WorkerMove(r, y)
  PROVE  FallBackInv'
<1> DEFINE x == exchanges[r]
<1>1. exchanges'[r] = y /\ \A q \in HttpRequests \ {r} : exchanges'[q] = exchanges[q]
  BY OthersStay DEF WorkerMove
<1>2. /\ y.on = x.on /\ y.kind = x.kind /\ IsLive(x) /\ y.on \in Endpoints
      /\ \A e \in Endpoints : sessions'[e] = sessions[e] \/ e = y.on
      /\ \A e \in Endpoints \ {y.on} : y.posts[e] = x.posts[e]
  BY DEF WorkerMove, Exchange
<1>3. \A e \in Endpoints :
        \/ owners'[e] = owners[e]
        \/ owners[e].for = r /\ owners[e].at \in {"gate", "inline"} /\ owners'[e].at = "select"
           /\ y.at \notin {"authorizing", "posted", "handed"}
        \/ e = "streamable" /\ y.at = "handed" /\ owners[e].at = "gate" /\ owners[e].for = r
           /\ owners'[e].at = "connecting" /\ owners'[e].for = r /\ x.at = "posted" /\ x.mayFallBack
           /\ x.saw = FreshSession /\ y.on = "streamable"
  BY OwnersMove DEF Idle
<1>4. ASSUME NEW q \in HttpRequests \ {r}, Solo(q) PROVE Solo(q)' /\ y.on = "legacy"
  <2>1. y.on = "legacy" /\ x.posts["streamable"] # 1
    BY <1>2, <1>4 DEF Solo, IsLive, Endpoints
  <2>2. y.posts["streamable"] # 1
    BY <1>2, <2>1 DEF Endpoints
  <2>3. QED
    BY <1>1, <1>4, <2>1, <2>2 DEF Solo
<1>5. Solo(r) => Solo(r)'
  BY <1>1 DEF Solo
<1>6. ASSUME NEW q \in HttpRequests \ {r}
      PROVE  /\ exchanges'[q].mayFallBack /\ exchanges'[q].at \in {"open", "authorizing", "posted"} =>
                  /\ Solo(q)'
                  /\ (owners'["streamable"].at = "gate" /\ owners'["streamable"].for = q)
                     \/ owners'["streamable"].at \in OwnerLeft
             /\ exchanges'[q].at = "handed" =>
                  /\ Solo(q)' /\ sessions'["streamable"].state = "fresh"
                  /\ owners'["streamable"].at = "connecting" /\ owners'["streamable"].for = q
             /\ exchanges'[q].on = "legacy" /\ exchanges'[q].posts["streamable"] = 1 =>
                  Solo(q)' /\ exchanges'[q].kind = "initialize"
             /\ /\ exchanges'[q].mayFallBack /\ exchanges'[q].at \in {"authorizing", "posted"}
                /\ exchanges'[q].saw = FreshSession /\ owners'["streamable"].at = "gate"
                => sessions'["streamable"].state = "fresh"
  <2>1. exchanges'[q] = exchanges[q] /\ q # r
    BY <1>1, <1>6
  <2>2. CASE Solo(q)
    <3>1. Solo(q)' /\ y.on = "legacy"
      BY <1>4, <1>6, <2>2
    <3>2. sessions'["streamable"] = sessions["streamable"]
      BY <1>2, <3>1 DEF Endpoints
    <3>3. owners'["streamable"] = owners["streamable"] \/ (owners["streamable"].for = r /\ owners["streamable"].at \in {"gate", "inline"} /\ owners'["streamable"].at = "select")
      BY <1>3, <3>1 DEF Endpoints
    <3>4. QED
      BY <2>1, <3>1, <3>2, <3>3, <1>6 DEF HttpInv, FallBackInv, OwnerLeft
  <2>3. CASE ~Solo(q)
    BY <2>1, <2>3, <1>6 DEF HttpInv, FallBackInv
  <2>4. QED
    BY <2>2, <2>3
<1>7. y.mayFallBack /\ y.at \in {"open", "authorizing", "posted"} =>
        /\ Solo(r)'
        /\ (owners'["streamable"].at = "gate" /\ owners'["streamable"].for = r)
           \/ owners'["streamable"].at \in OwnerLeft
  <2>1. SUFFICES ASSUME y.mayFallBack, y.at \in {"open", "authorizing", "posted"}
                 PROVE  /\ Solo(r)'
                        /\ (owners'["streamable"].at = "gate" /\ owners'["streamable"].for = r)
                           \/ owners'["streamable"].at \in OwnerLeft
    OBVIOUS
  <2>2. x.mayFallBack /\ x.at \in {"open", "authorizing", "posted"} /\ owners' = owners
    BY <2>1 DEF WorkerMove
  <2>3. QED
    BY <1>5, <2>2 DEF HttpInv, FallBackInv
<1>8. y.at = "handed" =>
        /\ Solo(r)' /\ sessions'["streamable"].state = "fresh"
        /\ owners'["streamable"].at = "connecting" /\ owners'["streamable"].for = r
  <2>1. SUFFICES ASSUME y.at = "handed"
                 PROVE  /\ Solo(r)' /\ sessions'["streamable"].state = "fresh"
                        /\ owners'["streamable"].at = "connecting" /\ owners'["streamable"].for = r
    OBVIOUS
  <2>2. /\ x.mayFallBack /\ x.at = "posted" /\ x.saw = FreshSession /\ owners["streamable"].at = "gate"
        /\ owners' = [owners EXCEPT !["streamable"].at = "connecting"] /\ sessions' = sessions
    BY <2>1 DEF WorkerMove
  <2>3. Solo(r) /\ sessions["streamable"].state = "fresh" /\ owners["streamable"].for = r
    BY <2>2 DEF HttpInv, FallBackInv, OwnerLeft
  <2>4. owners \in [Endpoints -> Owner] /\ "streamable" \in Endpoints
    BY DEF HttpInv, HttpShape, HttpTypeOK, Endpoints
  <2>5. owners'["streamable"].at = "connecting" /\ owners'["streamable"].for = owners["streamable"].for
    BY <2>2, <2>4 DEF Owner
  <2>6. QED
    BY <1>5, <2>2, <2>3, <2>5
<1>9. y.on = "legacy" /\ y.posts["streamable"] = 1 => Solo(r)' /\ y.kind = "initialize"
  BY <1>2, <1>5 DEF HttpInv, FallBackInv, Endpoints
<1>10. /\ y.mayFallBack /\ y.at \in {"authorizing", "posted"}
       /\ y.saw = FreshSession /\ owners'["streamable"].at = "gate"
       => sessions'["streamable"].state = "fresh"
  <2>1. SUFFICES ASSUME y.mayFallBack, y.at \in {"authorizing", "posted"},
                        y.saw = FreshSession, owners'["streamable"].at = "gate"
                 PROVE  sessions'["streamable"].state = "fresh"
    OBVIOUS
  <2>2. /\ x.mayFallBack /\ owners' = owners /\ sessions' = sessions
        /\ \/ x.at = "open" /\ y.saw = sessions[x.on]
           \/ x.at = "authorizing" /\ y.saw = x.saw
    BY <2>1 DEF WorkerMove
  <2>3. x.on = "streamable"
    BY <2>2 DEF HttpInv, ExchangeInv
  <2>4. QED
    BY <2>1, <2>2, <2>3, SessionValues DEF HttpInv, FallBackInv
<1>11. QED
  BY <1>1, <1>6, <1>7, <1>8, <1>9, <1>10 DEF FallBackInv

LEMMA WorkerKeeps ==
  ASSUME HttpInv, NEW r \in HttpRequests, NEW y, WorkerMove(r, y)
  PROVE  HttpInv'
BY WorkerShape, WorkerFallBack, WorkerOwners, WorkerSessions, WorkerStream, WorkerChannels DEF HttpInv

-----------------------------------------------------------------------------
(* Each step of a worker is such a move.                                   *)

LEMMA OpenMoves ==
  ASSUME HttpInv, NEW r \in HttpRequests, Open(r)
  PROVE  HttpInv'
<1> DEFINE x == exchanges[r]
           s == sessions[x.on]
           z == [x EXCEPT !.saw = s]
           refused == z.on = "legacy" /\ Refused(z, z.saw)
           at == IF refused THEN "failing" ELSE "authorizing"
           y == [z EXCEPT !.at = at]
           w == [x EXCEPT !.saw = s, !.at = at]
<1>1. /\ x \in Exchange /\ ExchangeInv(x) /\ x.at = "open" /\ x.on \in Endpoints
      /\ s \in Session /\ (x.after => s.state # "fresh") /\ sessions \in [Endpoints -> Session]
      /\ established \in BOOLEAN /\ pending \subseteq HttpRequests
  BY DEF Open, HttpInv, HttpShape, HttpTypeOK, SessionsInv, Exchange
<1>2. /\ exchanges' = [exchanges EXCEPT ![r] = y]
      /\ pending' = IF z.on = "legacy" /\ ~refused /\ Identified(z.kind) THEN pending \cup {r} ELSE pending
      /\ UNCHANGED <<channels, owners, sessions, negotiation, stream, plug, established>>
  BY DEF Open, Change
<1>3. at \in {"failing", "authorizing"}
  OBVIOUS
<1>4. z.on = x.on
  BY <1>1 DEF Exchange
<1> HIDE DEF at, refused, s
<1>5. y = w
  BY <1>1 DEF Exchange
<1>6. y \in Exchange /\ ExchangeInv(y)
  BY <1>1, <1>3, <1>5, OpenKeeps
<1>7. /\ y.at = at /\ y.on = x.on /\ y.kind = x.kind /\ y.after = x.after /\ y.done = x.done
      /\ y.posts = x.posts /\ y.mayFallBack = x.mayFallBack /\ y.saw = s
  BY <1>1, <1>5 DEF Exchange
<1>8. pending' \subseteq pending \cup {r} /\ (r \in pending' \ pending => y.on = "legacy")
  BY <1>2, <1>4, <1>7
<1> HIDE DEF y, z, w
<1>9. WorkerMove(r, y)
  BY <1>1, <1>2, <1>3, <1>6, <1>7, <1>8 DEF WorkerMove, IsLive, s
<1>10. QED
  BY <1>9, WorkerKeeps

(* A request fails: it is not over yet.                                    *)
LEMMA FailingMoves ==
  ASSUME HttpInv, NEW r \in HttpRequests, IsLive(exchanges[r]), Step(r, "failing"),
         sessions' \in [Endpoints -> Session],
         \A e \in Endpoints : sessions'[e] = sessions[e] \/ (e = exchanges[r].on /\ sessions'[e].state # "fresh"),
         UNCHANGED <<channels, owners, negotiation, pending, stream, plug, established>>
  PROVE  HttpInv'
<1> DEFINE x == exchanges[r]
           y == [x EXCEPT !.at = "failing"]
<1>1. x \in Exchange /\ ExchangeInv(x) /\ established \in BOOLEAN
  BY DEF HttpInv, HttpShape, HttpTypeOK
<1>2. exchanges' = [exchanges EXCEPT ![r] = y]
  BY DEF Step, Change
<1>3. y \in Exchange /\ ExchangeInv(y)
  BY <1>1, FailingKeeps
<1>4. /\ y.at = "failing" /\ y.on = x.on /\ y.kind = x.kind /\ y.after = x.after /\ y.done = x.done
      /\ y.posts = x.posts /\ y.mayFallBack = x.mayFallBack
  BY <1>1 DEF Exchange
<1> HIDE DEF y
<1>5. WorkerMove(r, y)
  BY <1>1, <1>2, <1>3, <1>4 DEF WorkerMove
<1>6. QED
  BY <1>5, WorkerKeeps

(* It is over, and what waits for it goes on.                              *)
LEMMA EndMoves ==
  ASSUME HttpInv, NEW r \in HttpRequests, IsLive(exchanges[r]),
         NEW z \in {exchanges[r], Told(exchanges[r])}, Change(r, Over(z)),
         owners' = owners \/ Resume(r), pending' \in {pending, pending \ {r}},
         UNCHANGED <<channels, sessions, negotiation, stream, plug, established>>
  PROVE  HttpInv'
<1> DEFINE x == exchanges[r]
           y == Over(z)
<1>1. x \in Exchange /\ ExchangeInv(x) /\ established \in BOOLEAN /\ sessions \in [Endpoints -> Session]
  BY DEF HttpInv, HttpShape, HttpTypeOK
<1>2. exchanges' = [exchanges EXCEPT ![r] = y]
  BY DEF Change
<1>3. /\ y \in Exchange /\ ExchangeInv(y) /\ y.at = "ended" /\ ~y.mayFallBack /\ y.on = x.on
      /\ y.kind = x.kind /\ y.after = x.after /\ y.done = x.done /\ y.posts = x.posts
  BY <1>1, OverKeeps, ToldKeeps DEF IsLive, Untaken
<1> HIDE DEF y
<1>4. WorkerMove(r, y)
  BY <1>1, <1>2, <1>3 DEF WorkerMove
<1>5. QED
  BY <1>4, WorkerKeeps

LEMMA PostMoves ==
  ASSUME HttpInv, NEW r \in HttpRequests, Post(r)
  PROVE  HttpInv'
<1> DEFINE x == exchanges[r]
           y == [x EXCEPT !.at = "posted", !.posts[x.on] = @ + 1]
<1>1. /\ x \in Exchange /\ ExchangeInv(x) /\ x.at = "authorizing" /\ sessions \in [Endpoints -> Session]
      /\ established \in BOOLEAN
  BY DEF Post, HttpInv, HttpShape, HttpTypeOK
<1>2. IsLive(x)
  BY <1>1 DEF IsLive
<1>3. UNCHANGED <<channels, owners, sessions, negotiation, pending, stream, plug, established>>
  BY DEF Post
<1>4. CASE Step(r, "failing")
  BY <1>1, <1>2, <1>3, <1>4, FailingMoves
<1>5. CASE ~Refused(x, x.saw) /\ Change(r, y)
  <2>1. exchanges' = [exchanges EXCEPT ![r] = y]
    BY <1>5 DEF Change
  <2>2. /\ y \in Exchange /\ ExchangeInv(y)
        /\ \A e \in Endpoints \ {x.on} : y.posts[e] = x.posts[e]
    BY <1>1, <1>5, PostKeeps
  <2>3. /\ y.at = "posted" /\ y.on = x.on /\ y.kind = x.kind /\ y.after = x.after /\ y.done = x.done
        /\ y.mayFallBack = x.mayFallBack /\ y.saw = x.saw
    BY <1>1 DEF Exchange
  <2> HIDE DEF y
  <2>4. WorkerMove(r, y)
    BY <1>1, <1>2, <1>3, <2>1, <2>2, <2>3 DEF WorkerMove
  <2>5. QED
    BY <2>4, WorkerKeeps
<1>6. QED
  BY <1>4, <1>5 DEF Post

LEMMA HandOver ==
  ASSUME HttpInv, NEW r \in HttpRequests, exchanges[r].at = "posted",
         exchanges[r].mayFallBack, exchanges[r].saw = FreshSession,
         owners["streamable"].at = "gate", Step(r, "handed"),
         owners' = [owners EXCEPT !["streamable"].at = "connecting"],
         UNCHANGED <<channels, sessions, negotiation, pending, stream, plug, established>>
  PROVE  HttpInv'
<1> DEFINE x == exchanges[r]
           y == [x EXCEPT !.at = "handed"]
<1>1. x \in Exchange /\ ExchangeInv(x) /\ established \in BOOLEAN /\ sessions \in [Endpoints -> Session]
  BY DEF HttpInv, HttpShape, HttpTypeOK
<1>2. exchanges' = [exchanges EXCEPT ![r] = y]
  BY DEF Step, Change
<1>3. y \in Exchange /\ ExchangeInv(y)
  BY <1>1, HandedKeeps
<1>4. /\ y.at = "handed" /\ y.on = x.on /\ y.kind = x.kind /\ y.after = x.after /\ y.done = x.done
      /\ y.posts = x.posts /\ y.mayFallBack = x.mayFallBack
  BY <1>1 DEF Exchange
<1> HIDE DEF y
<1>5. WorkerMove(r, y)
  BY <1>1, <1>2, <1>3, <1>4 DEF WorkerMove, IsLive
<1>6. QED
  BY <1>5, WorkerKeeps

LEMMA ReadMoves ==
  ASSUME HttpInv, NEW r \in HttpRequests, exchanges[r].at = "posted",
         Step(r, IF exchanges[r].on = "streamable" THEN "reading" ELSE "awaiting"),
         UNCHANGED <<channels, owners, sessions, negotiation, pending, stream, plug, established>>
  PROVE  HttpInv'
<1> DEFINE x == exchanges[r]
           y == [x EXCEPT !.at = IF x.on = "streamable" THEN "reading" ELSE "awaiting"]
<1>1. x \in Exchange /\ ExchangeInv(x) /\ established \in BOOLEAN /\ sessions \in [Endpoints -> Session]
  BY DEF HttpInv, HttpShape, HttpTypeOK
<1>2. exchanges' = [exchanges EXCEPT ![r] = y]
  BY DEF Step, Change
<1>3. y \in Exchange /\ ExchangeInv(y) /\ y.at \in {"reading", "awaiting"}
  BY <1>1, ReadKeeps
<1>4. /\ y.on = x.on /\ y.kind = x.kind /\ y.after = x.after /\ y.done = x.done
      /\ y.posts = x.posts /\ y.mayFallBack = x.mayFallBack
  BY <1>1 DEF Exchange
<1> HIDE DEF y
<1>5. WorkerMove(r, y)
  BY <1>1, <1>2, <1>3, <1>4 DEF WorkerMove, IsLive
<1>6. QED
  BY <1>5, WorkerKeeps

LEMMA RespondMoves ==
  ASSUME HttpInv, NEW r \in HttpRequests, Respond(r)
  PROVE  HttpInv'
<1> DEFINE x == exchanges[r]
           rest == UNCHANGED <<channels, negotiation, pending, stream, plug, established>>
<1>1. /\ x \in Exchange /\ x.at = "posted" /\ sessions \in [Endpoints -> Session] /\ rest /\ IsLive(x)
      /\ x.on \in Endpoints
  BY DEF Respond, HttpInv, HttpShape, HttpTypeOK, Exchange, IsLive
<1>2. PICK status \in {"lost", "400", "404", "405", "202", "body"} :
       \/ /\ status \notin {"202", "body"} /\ ~(x.on = "streamable" /\ Mismatch(x, status))
          /\ Step(r, "failing")
          /\ sessions' = IF Ends(x, status) THEN [sessions EXCEPT ![x.on] = ExpiredSession] ELSE sessions
          /\ UNCHANGED owners
       \/ /\ x.on = "streamable" /\ Mismatch(x, status)
          /\ IF owners["streamable"].at = "gate"
             THEN Step(r, "handed") /\ owners' = [owners EXCEPT !["streamable"].at = "connecting"]
             ELSE Change(r, Over(x)) /\ UNCHANGED owners
          /\ UNCHANGED sessions
       \/ /\ status \in {"202", "body"} /\ ~(x.on = "streamable" /\ status = "202" /\ Identified(x.kind))
          /\ IF Identified(x.kind) \/ (x.on = "streamable" /\ status = "body")
             THEN Step(r, IF x.on = "streamable" THEN "reading" ELSE "awaiting") /\ UNCHANGED owners
             ELSE Change(r, Over(x)) /\ Resume(r)
          /\ UNCHANGED sessions
       \/ /\ status = "202" /\ x.on = "streamable" /\ Identified(x.kind)
          /\ Step(r, "failing") /\ UNCHANGED <<owners, sessions>>
  BY DEF Respond
<1>3. CASE /\ Step(r, "failing")
           /\ sessions' = IF Ends(x, status) THEN [sessions EXCEPT ![x.on] = ExpiredSession] ELSE sessions
           /\ UNCHANGED owners
  <2>1. /\ sessions' \in [Endpoints -> Session]
        /\ \A e \in Endpoints : sessions'[e] = sessions[e] \/ (e = x.on /\ sessions'[e].state # "fresh")
    BY <1>1, <1>3, SessionValues
  <2>2. QED
    BY <1>1, <1>3, <2>1, FailingMoves
<1>4. CASE /\ Mismatch(x, status) /\ owners["streamable"].at = "gate" /\ Step(r, "handed")
           /\ owners' = [owners EXCEPT !["streamable"].at = "connecting"] /\ UNCHANGED sessions
  <2>1. x.mayFallBack /\ x.saw = FreshSession
    BY <1>4 DEF Mismatch
  <2>2. QED
    BY <1>1, <1>4, <2>1, HandOver
<1>5. CASE Change(r, Over(x)) /\ (owners' = owners \/ Resume(r)) /\ UNCHANGED sessions
  BY <1>1, <1>5, EndMoves
<1>6. CASE Step(r, IF x.on = "streamable" THEN "reading" ELSE "awaiting") /\ UNCHANGED <<owners, sessions>>
  BY <1>1, <1>6, ReadMoves
<1>7. CASE Step(r, "failing") /\ UNCHANGED <<owners, sessions>>
  BY <1>1, <1>7, FailingMoves
<1>8. QED
  BY <1>2, <1>3, <1>4, <1>5, <1>6, <1>7

LEMMA DeliverMoves ==
  ASSUME HttpInv, NEW r \in HttpRequests, Deliver(r)
  PROVE  HttpInv'
<1> DEFINE x == exchanges[r]
           y == [x EXCEPT !.answers = @ + 1, !.answered = TRUE]
<1>1. /\ x \in Exchange /\ ExchangeInv(x) /\ x.at = "reading" /\ ~x.answered
      /\ established \in BOOLEAN /\ sessions \in [Endpoints -> Session] /\ x.on \in Endpoints
  BY DEF Deliver, HttpInv, HttpShape, HttpTypeOK, Exchange
<1>2. /\ exchanges' = [exchanges EXCEPT ![r] = y] /\ Resume(r)
      /\ UNCHANGED <<channels, negotiation, pending, stream, plug>>
  BY DEF Deliver, Change
<1>3. y \in Exchange /\ ExchangeInv(y)
  BY <1>1, AnswerKeeps
<1>4. /\ y.at = "reading" /\ y.on = x.on /\ y.kind = x.kind /\ y.after = x.after /\ y.done = x.done
      /\ y.posts = x.posts /\ y.mayFallBack = x.mayFallBack
  BY <1>1 DEF Exchange
<1>5. \A session \in Establishes(x) : session \in Session /\ session.state = "ready"
  BY SessionValues DEF Establishes
<1>6. /\ sessions' \in [Endpoints -> Session] /\ established' \in BOOLEAN
      /\ \A e \in Endpoints : sessions'[e] = sessions[e] \/ (e = x.on /\ sessions'[e].state # "fresh")
      /\ established => established'
      /\ established' => established \/ sessions'[x.on].state # "fresh"
  <2>1. CASE UNCHANGED <<sessions, established>>
    BY <1>1, <2>1
  <2>2. CASE \E session \in Establishes(x) :
               sessions' = [sessions EXCEPT ![x.on] = session] /\ established' = TRUE
    BY <1>1, <1>5, <2>2
  <2>3. QED
    BY <2>1, <2>2 DEF Deliver
<1> HIDE DEF y
<1>7. WorkerMove(r, y)
  BY <1>1, <1>2, <1>3, <1>4, <1>6 DEF WorkerMove, IsLive
<1>8. QED
  BY <1>7, WorkerKeeps

LEMMA WorkerInv ==
  ASSUME HttpInv, NEW r \in HttpRequests, WorkerStep(r)
  PROVE  HttpInv'
<1>1. sessions \in [Endpoints -> Session]
  BY DEF HttpInv, HttpShape, HttpTypeOK
<1>2. CASE EndOfBody(r)
  BY <1>1, <1>2, EndMoves, FailingMoves DEF EndOfBody, IsLive
<1>3. CASE Completed(r)
  BY <1>1, <1>3, EndMoves, FailingMoves DEF Completed, IsLive
<1>4. CASE Timeout(r)
  BY <1>1, <1>4, FailingMoves DEF Timeout, IsLive
<1>5. CASE Fail(r)
  BY <1>5, EndMoves DEF Fail, IsLive
<1>6. QED
  BY <1>2, <1>3, <1>4, <1>5, OpenMoves, PostMoves, RespondMoves, DeliverMoves DEF WorkerStep

-----------------------------------------------------------------------------
(* The event stream tells a request of the legacy endpoint, once.          *)

TellMove(r, y) ==
  /\ exchanges[r].on = "legacy" /\ exchanges[r].done = "none" /\ ~Untaken(exchanges[r])
  /\ exchanges[r].at # "open"
  /\ exchanges' = [exchanges EXCEPT ![r] = y]
  /\ y \in Exchange /\ ExchangeInv(y)
  /\ y.on = exchanges[r].on /\ y.kind = exchanges[r].kind /\ y.after = exchanges[r].after
  /\ y.at = exchanges[r].at /\ y.mayFallBack = exchanges[r].mayFallBack
  /\ y.saw = exchanges[r].saw /\ y.posts = exchanges[r].posts
  /\ pending' = pending /\ r \notin pending
  /\ stream' \in Stream /\ stream'.delivering = 0 /\ stream'.owed \subseteq stream.owed \ {r}
  /\ stream'.at = "open" => stream'.owed = {}
  /\ established' \in BOOLEAN /\ (established => established')
  /\ established' => established \/ sessions["legacy"].state # "fresh"
  /\ UNCHANGED <<channels, owners, sessions, negotiation, plug>>

LEMMA TellKeeps ==
  ASSUME HttpInv, NEW r \in HttpRequests, NEW y, TellMove(r, y)
  PROVE  HttpInv'
<1> DEFINE x == exchanges[r]
<1>1. /\ exchanges' \in [HttpRequests -> Exchange] /\ exchanges'[r] = y
      /\ \A q \in HttpRequests \ {r} : exchanges'[q] = exchanges[q]
      /\ \A q \in HttpRequests : ExchangeInv(exchanges'[q])
  BY OthersStay DEF TellMove
<1>2. /\ y.on = x.on /\ y.kind = x.kind /\ y.after = x.after /\ y.at = x.at /\ y.mayFallBack = x.mayFallBack
      /\ y.saw = x.saw /\ y.posts = x.posts
      /\ UNCHANGED <<channels, owners, sessions, negotiation, plug>>
  BY DEF TellMove
<1>3. \A q \in HttpRequests :
        /\ exchanges'[q].on = exchanges[q].on /\ exchanges'[q].kind = exchanges[q].kind
        /\ exchanges'[q].after = exchanges[q].after /\ exchanges'[q].at = exchanges[q].at
        /\ exchanges'[q].mayFallBack = exchanges[q].mayFallBack
        /\ exchanges'[q].saw = exchanges[q].saw /\ exchanges'[q].posts = exchanges[q].posts
  BY <1>1, <1>2
<1>4. HttpShape'
  BY <1>1, <1>2 DEF TellMove, HttpInv, HttpShape, HttpTypeOK
<1>5. FallBackInv'
  <2>1. \A q \in HttpRequests : Solo(q) => Solo(q)'
    BY <1>3 DEF Solo, IsLive
  <2>2. QED
    BY <1>2, <1>3, <2>1 DEF HttpInv, FallBackInv
<1>6. OwnersInv'
  <2>1. \A e \in Endpoints : owners[e].at \in {"gate", "settle", "inline", "connecting"} /\ owners[e].for # 0
          => owners[e].for \in HttpRequests
    BY DEF HttpInv, HttpShape, HttpTypeOK, Owner
  <2>2. "streamable" \in Endpoints
    BY DEF Endpoints
  <2>3. QED
    BY <1>2, <1>3, <2>1, <2>2 DEF HttpInv, OwnersInv, IsLive, Untaken
<1>7. SessionsInv'
  BY <1>2, <1>3 DEF HttpInv, SessionsInv, TellMove, Untaken
<1>8. StreamInv'
  <2>1. \A q \in HttpRequests \ {r} : Entry(q) => Entry(q)'
    BY <1>1 DEF Entry
  <2>2. pending \subseteq HttpRequests /\ stream.owed \subseteq HttpRequests
    BY DEF HttpInv, HttpShape, HttpTypeOK, Stream
  <2>3. \A q \in pending' : Entry(q)' /\ q \notin stream'.owed /\ q # stream'.delivering
    BY <2>1, <2>2, HttpAssumption DEF HttpInv, StreamInv, TellMove
  <2>4. \A q \in stream'.owed : Entry(q)'
    BY <2>1, <2>2 DEF HttpInv, StreamInv, TellMove
  <2>5. \A q \in HttpRequests : exchanges'[q].at = "open" => exchanges'[q].done = "none"
    BY <1>1, <1>2 DEF HttpInv, StreamInv, TellMove
  <2>6. QED
    BY <2>3, <2>4, <2>5 DEF StreamInv, TellMove
<1>9. ChannelsInv'
  <2>1. \A e \in Endpoints : \A i \in DOMAIN channels[e] : channels[e][i] \in HttpRequests
    BY DEF HttpInv, HttpShape, HttpTypeOK
  <2>2. QED
    BY <1>2, <1>3, <2>1 DEF HttpInv, ChannelsInv
<1>10. QED
  BY <1>1, <1>4, <1>5, <1>6, <1>7, <1>8, <1>9 DEF HttpInv

LEMMA StreamSendInv ==
  ASSUME HttpInv, StreamSend
  PROVE  HttpInv'
<1> DEFINE r == stream.delivering
           x == exchanges[r]
           sent == [x EXCEPT !.answers = @ + 1, !.answered = x.at # "ended", !.done = "ok"]
           invalid == [x EXCEPT !.done = "error"]
           y == IF stream.verdict = "invalid" THEN invalid ELSE sent
<1>1. /\ stream.delivering # 0 /\ stream.at = "open" /\ exchanges' = [exchanges EXCEPT ![r] = y]
      /\ established' = (established \/ (stream.verdict = "result" /\ x.answers = 0))
      /\ stream' = ClosedStream /\ UNCHANGED <<channels, owners, sessions, negotiation, pending, plug>>
  BY DEF StreamSend, Streaming, Change
<1>2. /\ stream \in Stream /\ exchanges \in [HttpRequests -> Exchange] /\ established \in BOOLEAN
      /\ \A q \in HttpRequests : ExchangeInv(exchanges[q])
  BY DEF HttpInv, HttpShape, HttpTypeOK
<1>3. r \in HttpRequests
  BY <1>1, <1>2 DEF Stream
<1>4. x \in Exchange /\ ExchangeInv(x) /\ x.on = "legacy" /\ x.done = "none" /\ x.at # "open"
  BY <1>1, <1>2, <1>3 DEF HttpInv, StreamInv, Entry
<1>5. ~Untaken(x)
  BY <1>4 DEF ExchangeInv
<1>6. y \in Exchange /\ ExchangeInv(y)
  <2>1. (x.at # "ended") \in BOOLEAN /\ x.answered \in BOOLEAN
    BY <1>4 DEF Exchange
  <2>2. sent \in Exchange /\ ExchangeInv(sent)
    BY <1>4, <1>5, <2>1, EntryKeeps
  <2>3. invalid = [x EXCEPT !.answers = x.answers, !.answered = x.answered, !.done = "error"]
    BY <1>4 DEF Exchange
  <2> HIDE DEF invalid
  <2>4. invalid \in Exchange /\ ExchangeInv(invalid)
    BY <1>4, <1>5, <2>1, <2>3, EntryKeeps
  <2>5. QED
    BY <2>2, <2>4
<1>7. /\ y.on = x.on /\ y.kind = x.kind /\ y.after = x.after /\ y.at = x.at /\ y.mayFallBack = x.mayFallBack
      /\ y.saw = x.saw /\ y.posts = x.posts
  BY <1>4 DEF Exchange
<1>8. ClosedStream \in Stream /\ ClosedStream.delivering = 0 /\ ClosedStream.owed = {}
  BY DEF ClosedStream, Stream
<1>9. r \notin pending
  BY DEF HttpInv, StreamInv
<1>10. /\ established' \in BOOLEAN /\ (established => established')
       /\ established' => established \/ sessions["legacy"].state # "fresh"
  BY <1>1, <1>2 DEF HttpInv, SessionsInv
<1> HIDE DEF y
<1>11. TellMove(r, y)
  BY <1>1, <1>4, <1>5, <1>6, <1>7, <1>8, <1>9, <1>10 DEF TellMove
<1>12. QED
  BY <1>3, <1>11, TellKeeps

LEMMA StreamLateInv ==
  ASSUME HttpInv, StreamLate
  PROVE  HttpInv'
<1>1. PICK r \in HttpRequests \ pending :
       /\ exchanges[r].at = "ended" /\ exchanges[r].posts["legacy"] > 0
       /\ exchanges[r].done = "none" /\ Identified(exchanges[r].kind)
       /\ Change(r, [exchanges[r] EXCEPT !.answers = @ + 1, !.done = "ok"])
  BY DEF StreamLate
<1> DEFINE x == exchanges[r]
           y == [x EXCEPT !.answers = @ + 1, !.done = "ok"]
<1>2. /\ stream.delivering = 0 /\ stream.at = "open" /\ exchanges' = [exchanges EXCEPT ![r] = y]
      /\ UNCHANGED <<channels, owners, sessions, negotiation, pending, stream, plug, established>>
  BY <1>1 DEF StreamLate, Streaming, Change
<1>3. x \in Exchange /\ ExchangeInv(x) /\ established \in BOOLEAN /\ stream \in Stream
  BY DEF HttpInv, HttpShape, HttpTypeOK
<1>4. x.on = "legacy" /\ ~Untaken(x)
  BY <1>1, <1>3 DEF ExchangeInv, Untaken, Exchange, Endpoints
<1>5. y = [x EXCEPT !.answers = x.answers + 1, !.answered = x.answered, !.done = "ok"] /\ x.answered \in BOOLEAN
  BY <1>3 DEF Exchange
<1> HIDE DEF y
<1>6. y \in Exchange /\ ExchangeInv(y)
  BY <1>1, <1>3, <1>4, <1>5, EntryKeeps
<1>7. /\ y.on = x.on /\ y.kind = x.kind /\ y.after = x.after /\ y.at = x.at /\ y.mayFallBack = x.mayFallBack
      /\ y.saw = x.saw /\ y.posts = x.posts
  BY <1>3, <1>5 DEF Exchange
<1>8. stream.owed = {}
  BY <1>2 DEF HttpInv, StreamInv
<1>9. TellMove(r, y)
  BY <1>1, <1>2, <1>3, <1>4, <1>6, <1>7, <1>8 DEF TellMove
<1>10. QED
  BY <1>1, <1>9, TellKeeps

(* A broken stream tells the entries it drained.                           *)
LEMMA StreamTellsInv ==
  ASSUME HttpInv, NEW r \in stream.owed,
         stream' = [stream EXCEPT !.owed = @ \ {r}],
         Change(r, [exchanges[r] EXCEPT !.answers = @ + 1, !.done = "error",
                                        !.answered = exchanges[r].at # "ended"]),
         UNCHANGED <<owners, pending, channels, sessions, negotiation, plug, established>>
  PROVE  HttpInv'
<1> DEFINE x == exchanges[r]
           y == [x EXCEPT !.answers = @ + 1, !.done = "error", !.answered = x.at # "ended"]
<1>1. exchanges' = [exchanges EXCEPT ![r] = y]
  BY DEF Change
<1>2. stream \in Stream /\ exchanges \in [HttpRequests -> Exchange] /\ established \in BOOLEAN
  BY DEF HttpInv, HttpShape, HttpTypeOK
<1>3. r \in HttpRequests /\ stream.at # "open" /\ stream.delivering = 0 /\ r \notin pending
  BY <1>2 DEF HttpInv, StreamInv, Stream
<1>4. x \in Exchange /\ ExchangeInv(x) /\ x.on = "legacy" /\ x.done = "none" /\ x.at # "open"
  BY <1>2, <1>3 DEF HttpInv, StreamInv, Entry
<1>5. ~Untaken(x)
  BY <1>4 DEF ExchangeInv
<1>6. y = [x EXCEPT !.answers = x.answers + 1, !.answered = (x.at # "ended"), !.done = "error"]
      /\ (x.at # "ended") \in BOOLEAN
  BY <1>4 DEF Exchange
<1> HIDE DEF y
<1>7. y \in Exchange /\ ExchangeInv(y)
  BY <1>4, <1>5, <1>6, EntryKeeps
<1>8. /\ y.on = x.on /\ y.kind = x.kind /\ y.after = x.after /\ y.at = x.at /\ y.mayFallBack = x.mayFallBack
      /\ y.saw = x.saw /\ y.posts = x.posts
  BY <1>4, <1>6 DEF Exchange
<1>9. stream' \in Stream /\ stream'.delivering = 0 /\ stream'.owed = stream.owed \ {r} /\ stream'.at = stream.at
  BY <1>2, <1>3 DEF Stream
<1>10. TellMove(r, y)
  BY <1>1, <1>2, <1>3, <1>4, <1>5, <1>7, <1>8, <1>9 DEF TellMove
<1>11. QED
  BY <1>3, <1>10, TellKeeps

-----------------------------------------------------------------------------
(* Steps that leave the requests as they are.                              *)

LEMMA RequestsStay ==
  ASSUME HttpInv, UNCHANGED <<exchanges, channels, negotiation, established>>,
         owners' \in [Endpoints -> Owner], sessions' \in [Endpoints -> Session],
         pending' \subseteq HttpRequests, stream' \in Stream, plug' \in {"in", "closed", "deaf", "shutdown"},
         \A e \in Endpoints : sessions[e].state # "fresh" => sessions'[e].state # "fresh",
         stream'.delivering # 0 /\ stream'.verdict = "result" => sessions'["legacy"].state # "fresh",
         OwnersInv', FallBackInv', StreamInv'
  PROVE  HttpInv'
<1>1. HttpShape'
  BY DEF HttpInv, HttpShape, HttpTypeOK
<1>2. \A q \in HttpRequests : exchanges[q].on \in Endpoints
  BY DEF HttpInv, HttpShape, HttpTypeOK, Exchange
<1>3. SessionsInv'
  BY <1>2 DEF HttpInv, SessionsInv, Endpoints
<1>4. ChannelsInv'
  BY DEF HttpInv, ChannelsInv
<1>5. QED
  BY <1>1, <1>3, <1>4 DEF HttpInv

LEMMA StreamStays ==
  ASSUME HttpInv, UNCHANGED <<exchanges, pending, stream>>
  PROVE  StreamInv'
BY DEF HttpInv, StreamInv, Entry

LEMMA UnplugInv ==
  ASSUME HttpInv, Unplug
  PROVE  HttpInv'
<1>1. UNCHANGED <<exchanges, channels, owners, sessions, negotiation, pending, stream, established>>
  BY DEF Unplug
<1>2. OwnersInv'
  BY <1>1 DEF HttpInv, OwnersInv
<1>3. FallBackInv'
  BY <1>1 DEF HttpInv, FallBackInv, Solo
<1>4. StreamInv'
  BY <1>1, StreamStays
<1>5. HttpShape' /\ SessionsInv' /\ ChannelsInv' /\ \A r \in HttpRequests : ExchangeInv(exchanges'[r])
  BY <1>1 DEF Unplug, HttpInv, HttpShape, HttpTypeOK, SessionsInv, ChannelsInv
<1>6. QED
  BY <1>2, <1>3, <1>4, <1>5 DEF HttpInv

(* The stream takes an entry; an answered handshake establishes a session. *)
LEMMA StreamTakeInv ==
  ASSUME HttpInv, StreamTake
  PROVE  HttpInv'
<1>1. PICK r \in pending, verdict \in {"result", "error", "invalid"} :
       /\ verdict # "error" => exchanges[r].kind = "initialize"
       /\ pending' = pending \ {r}
       /\ stream' = [stream EXCEPT !.delivering = r, !.verdict = verdict]
       /\ IF verdict = "result"
          THEN \E session \in Establishes(exchanges[r]) :
                 sessions' = [sessions EXCEPT !["legacy"] = session]
          ELSE UNCHANGED sessions
  BY DEF StreamTake
<1>2. /\ stream.delivering = 0 /\ stream.at = "open"
      /\ UNCHANGED <<exchanges, channels, owners, negotiation, plug, established>>
  BY DEF StreamTake, Streaming
<1>3. /\ stream \in Stream /\ sessions \in [Endpoints -> Session] /\ pending \subseteq HttpRequests
      /\ owners \in [Endpoints -> Owner] /\ plug \in {"in", "closed", "deaf", "shutdown"}
  BY DEF HttpInv, HttpShape, HttpTypeOK
<1>4. r \in HttpRequests /\ Entry(r) /\ r \notin stream.owed /\ stream.owed = {}
  BY <1>1, <1>2, <1>3 DEF HttpInv, StreamInv
<1>5. stream' \in Stream /\ stream'.delivering = r /\ stream'.verdict = verdict /\ stream'.at = "open"
      /\ stream'.owed = {}
  BY <1>1, <1>2, <1>3, <1>4 DEF Stream
<1>6. \A session \in Establishes(exchanges[r]) : session \in Session /\ session.state = "ready"
  BY SessionValues DEF Establishes
<1>7. /\ sessions' \in [Endpoints -> Session]
      /\ \A e \in Endpoints : sessions[e].state # "fresh" => sessions'[e].state # "fresh"
      /\ sessions'["streamable"] = sessions["streamable"]
      /\ verdict = "result" => sessions'["legacy"].state # "fresh"
  <2>1. CASE verdict # "result"
    BY <1>1, <1>3, <2>1
  <2>2. CASE verdict = "result"
    <3>1. PICK session \in Establishes(exchanges[r]) : sessions' = [sessions EXCEPT !["legacy"] = session]
      BY <1>1, <2>2
    <3>2. session \in Session /\ session.state = "ready"
      BY <1>6, <3>1
    <3>3. QED
      BY <1>3, <3>1, <3>2 DEF Endpoints
  <2>3. QED
    BY <2>1, <2>2
<1>8. owners["legacy"].at # "absent"
  BY DEF StreamTake, Streaming, Running
<1>9. OwnersInv'
  BY <1>2, <1>7, <1>8 DEF HttpInv, OwnersInv
<1>10. FallBackInv'
  BY <1>2, <1>7 DEF HttpInv, FallBackInv, Solo
<1>11. StreamInv'
  <2>1. \A q \in pending : Entry(q)' /\ q \notin {}
    BY <1>2 DEF HttpInv, StreamInv, Entry
  <2>2. Entry(r)'
    BY <1>2, <1>4 DEF Entry
  <2>3. \A q \in pending' : Entry(q)' /\ q \notin stream'.owed /\ q # stream'.delivering
    BY <1>1, <1>5, <2>1
  <2>4. Entry(stream.delivering)'
    BY <1>5, <2>2 DEF Entry
  <2>5. \A q \in HttpRequests : exchanges'[q].at = "open" => exchanges'[q].done = "none"
    BY <1>2 DEF HttpInv, StreamInv
  <2>6. QED
    BY <1>5, <2>3, <2>4, <2>5 DEF StreamInv
<1>12. QED
  BY <1>1, <1>2, <1>3, <1>5, <1>7, <1>9, <1>10, <1>11, RequestsStay

(* The stream breaks: its entries are drained.                             *)
LEMMA StreamFailsInv ==
  ASSUME HttpInv, stream.at = "open", stream.delivering = 0,
         stream' = [ClosedStream EXCEPT !.at = "failing", !.owed = pending], pending' = {},
         UNCHANGED <<exchanges, owners, channels, sessions, negotiation, plug, established>>
  PROVE  HttpInv'
<1>1. /\ sessions \in [Endpoints -> Session] /\ pending \subseteq HttpRequests
      /\ owners \in [Endpoints -> Owner] /\ plug \in {"in", "closed", "deaf", "shutdown"}
  BY DEF HttpInv, HttpShape, HttpTypeOK
<1>2. stream' \in Stream /\ stream'.delivering = 0 /\ stream'.at = "failing" /\ stream'.owed = pending
  BY <1>1 DEF ClosedStream, Stream
<1>3. OwnersInv'
  BY DEF HttpInv, OwnersInv
<1>4. FallBackInv'
  BY DEF HttpInv, FallBackInv, Solo
<1>5. StreamInv'
  <2>1. \A q \in stream'.owed : Entry(q)'
    BY <1>2 DEF HttpInv, StreamInv, Entry
  <2>2. \A q \in HttpRequests : exchanges'[q].at = "open" => exchanges'[q].done = "none"
    BY DEF HttpInv, StreamInv
  <2>3. QED
    BY <1>2, <2>1, <2>2 DEF StreamInv
<1>6. QED
  BY <1>1, <1>2, <1>3, <1>4, <1>5, RequestsStay

-----------------------------------------------------------------------------
(* An owner leaves its loop, with the request it was itself running.       *)

Released(x, y) ==
  /\ y \in Exchange /\ ExchangeInv(y) /\ y.at = "ended" /\ ~y.mayFallBack
  /\ y.on = x.on /\ y.kind = x.kind /\ y.after = x.after /\ y.done = x.done /\ y.posts = x.posts

LeaveMove(e) ==
  /\ owners[e].at \in Running
  /\ \E deliberate \in BOOLEAN : Leave(e, deliberate)
  /\ exchanges' \in [HttpRequests -> Exchange]
  /\ \A q \in HttpRequests :
       \/ exchanges'[q] = exchanges[q] /\ ~(owners[e].at = "connecting" /\ q = owners[e].for)
       \/ /\ q = owners[e].for /\ owners[e].at \in {"settle", "inline", "connecting"}
          /\ Released(exchanges[q], exchanges'[q])
  /\ UNCHANGED <<channels, sessions, negotiation, pending, stream, plug, established>>

LEMMA LeaveKeeps ==
  ASSUME HttpInv, NEW e \in Endpoints, LeaveMove(e)
  PROVE  HttpInv'
<1>1. /\ owners \in [Endpoints -> Owner] /\ exchanges \in [HttpRequests -> Exchange]
      /\ \A q \in HttpRequests : ExchangeInv(exchanges[q])
  BY DEF HttpInv, HttpShape, HttpTypeOK
<1>2. PICK deliberate \in BOOLEAN :
        owners' = [owners EXCEPT ![e] = [at |-> "aborting", for |-> 0, deliberate |-> deliberate]]
  BY DEF LeaveMove, Leave
<1>3. [at |-> "aborting", for |-> 0, deliberate |-> deliberate] \in Owner
  BY <1>2 DEF Owner
<1>4. /\ owners' \in [Endpoints -> Owner] /\ owners'[e].at = "aborting"
      /\ \A f \in Endpoints \ {e} : owners'[f] = owners[f]
  BY <1>1, <1>2, <1>3
<1>5. \A q \in HttpRequests : exchanges'[q] = exchanges[q] \/ Released(exchanges[q], exchanges'[q])
  BY DEF LeaveMove
<1>6. UNCHANGED <<channels, sessions, negotiation, pending, stream, plug, established>>
      /\ owners[e].at \in Running
  BY DEF LeaveMove
<1>7. \A q \in HttpRequests : Untaken(exchanges[q]) => exchanges'[q] = exchanges[q]
  <2>1. SUFFICES ASSUME NEW q \in HttpRequests, Untaken(exchanges[q]), exchanges'[q] # exchanges[q]
                 PROVE  FALSE
    OBVIOUS
  <2>2. q = owners[e].for /\ owners[e].at \in {"settle", "inline", "connecting"}
    BY <2>1 DEF LeaveMove
  <2>3. CASE owners[e].at = "connecting"
    <3>1. e = "streamable"
      BY <2>3 DEF HttpInv, OwnersInv, Endpoints
    <3>2. QED
      BY <2>1, <2>2, <2>3, <3>1 DEF HttpInv, OwnersInv, Untaken
  <2>4. CASE owners[e].at \in {"settle", "inline"}
    BY <2>1, <2>2, <2>4 DEF HttpInv, OwnersInv
  <2>5. QED
    BY <2>2, <2>3, <2>4
<1>8. \A q \in HttpRequests :
        /\ exchanges'[q].on = exchanges[q].on /\ exchanges'[q].kind = exchanges[q].kind
        /\ exchanges'[q].after = exchanges[q].after /\ exchanges'[q].done = exchanges[q].done
        /\ exchanges'[q].posts = exchanges[q].posts
        /\ exchanges'[q].at \in {exchanges[q].at, "ended"}
        /\ exchanges'[q].mayFallBack \/ exchanges'[q].at \notin {"ended"} => exchanges'[q] = exchanges[q]
        /\ ExchangeInv(exchanges'[q])
  BY <1>1, <1>5 DEF Released, ExchangeInv
<1>9. \A q \in HttpRequests : IsLive(exchanges'[q]) => IsLive(exchanges[q])
  BY <1>8 DEF IsLive
<1>10. \A q \in HttpRequests : Untaken(exchanges'[q]) <=> Untaken(exchanges[q])
  BY <1>7, <1>8 DEF Untaken
<1>11. HttpShape'
  BY <1>4, <1>6 DEF LeaveMove, HttpInv, HttpShape, HttpTypeOK
<1>12. \A f \in Endpoints : owners'[f] = owners[f] \/ owners'[f].at = "aborting"
  BY <1>4
<1>13. \A q \in HttpRequests : Solo(q) => Solo(q)'
  BY <1>8, <1>9 DEF Solo
<1>14. FallBackInv'
  <2>1. owners'["streamable"] = owners["streamable"]
        \/ (owners'["streamable"].at = "aborting" /\ e = "streamable")
    BY <1>4 DEF Endpoints
  <2>2. ASSUME NEW q \in HttpRequests, exchanges'[q].at = "handed" PROVE owners'["streamable"] = owners["streamable"]
    <3>1. exchanges'[q] = exchanges[q]
      BY <1>8, <2>2
    <3>2. owners["streamable"].at = "connecting" /\ owners["streamable"].for = q
      BY <2>2, <3>1 DEF HttpInv, FallBackInv
    <3>3. e # "streamable"
      BY <2>2, <3>1, <3>2 DEF LeaveMove, Released
    <3>4. QED
      BY <2>1, <3>3
  <2>3. ASSUME NEW q \in HttpRequests, exchanges'[q].mayFallBack \/ exchanges'[q].at = "handed"
        PROVE  exchanges'[q] = exchanges[q]
    BY <1>8, <2>3
  <2>4. ASSUME NEW q \in HttpRequests
        PROVE  /\ exchanges'[q].mayFallBack /\ exchanges'[q].at \in {"open", "authorizing", "posted"} =>
                  /\ Solo(q)'
                  /\ (owners'["streamable"].at = "gate" /\ owners'["streamable"].for = q)
                     \/ owners'["streamable"].at \in OwnerLeft
               /\ exchanges'[q].at = "handed" =>
                  /\ Solo(q)' /\ sessions'["streamable"].state = "fresh"
                  /\ owners'["streamable"].at = "connecting" /\ owners'["streamable"].for = q
               /\ exchanges'[q].on = "legacy" /\ exchanges'[q].posts["streamable"] = 1 =>
                  Solo(q)' /\ exchanges'[q].kind = "initialize"
               /\ /\ exchanges'[q].mayFallBack /\ exchanges'[q].at \in {"authorizing", "posted"}
                  /\ exchanges'[q].saw = FreshSession /\ owners'["streamable"].at = "gate"
                  => sessions'["streamable"].state = "fresh"
    <3>1. exchanges'[q].mayFallBack /\ exchanges'[q].at \in {"open", "authorizing", "posted"} =>
            /\ Solo(q)'
            /\ (owners'["streamable"].at = "gate" /\ owners'["streamable"].for = q)
               \/ owners'["streamable"].at \in OwnerLeft
      BY <1>13, <2>1, <2>3 DEF HttpInv, FallBackInv, OwnerLeft
    <3>2. exchanges'[q].at = "handed" =>
            /\ Solo(q)' /\ sessions'["streamable"].state = "fresh"
            /\ owners'["streamable"].at = "connecting" /\ owners'["streamable"].for = q
      BY <1>6, <1>13, <2>2, <2>3 DEF HttpInv, FallBackInv
    <3>3. exchanges'[q].on = "legacy" /\ exchanges'[q].posts["streamable"] = 1 =>
            Solo(q)' /\ exchanges'[q].kind = "initialize"
      BY <1>8, <1>13 DEF HttpInv, FallBackInv
    <3>4. /\ exchanges'[q].mayFallBack /\ exchanges'[q].at \in {"authorizing", "posted"}
          /\ exchanges'[q].saw = FreshSession /\ owners'["streamable"].at = "gate"
          => sessions'["streamable"].state = "fresh"
      BY <1>6, <2>1, <2>3 DEF HttpInv, FallBackInv
    <3>5. QED
      BY <3>1, <3>2, <3>3, <3>4
  <2>5. QED
    BY <2>4 DEF FallBackInv
<1>15. OwnersInv'
  <2>1. \A f \in Endpoints : (owners'[f].at = "absent") <=> (owners[f].at = "absent")
    BY <1>4, <1>6 DEF Running
  <2>2. \A f \in Endpoints : owners'[f].at \in {"complete", "stopping"} \/ owners[f].at \in {"complete", "stopping"}
          => owners'[f] = owners[f]
    BY <1>4, <1>6 DEF Running
  <2>3. owners'["streamable"].at # "absent" /\ owners'["legacy"].at # "connecting"
    BY <1>12, <2>1 DEF HttpInv, OwnersInv, Endpoints
  <2>4. owners'["legacy"].at = "absent" =>
          /\ sessions'["legacy"].state = "fresh"
          /\ \A q \in HttpRequests : exchanges'[q].on = "streamable"
    BY <1>6, <1>8, <2>1 DEF HttpInv, OwnersInv, Endpoints
  <2>5. owners'["legacy"].at # "absent" =>
          /\ negotiation' = "active"
          /\ owners'["streamable"].at \in {"forward"} \cup OwnerLeft
          /\ \A q \in HttpRequests : exchanges'[q].on = "streamable" => ~IsLive(exchanges'[q])
    BY <1>6, <1>8, <1>9, <1>12, <2>1 DEF HttpInv, OwnersInv, Endpoints, OwnerLeft
  <2>6. owners'["legacy"].at \notin {"absent", "complete"} => sessions'["streamable"].state = "fresh"
    BY <1>6, <2>1, <2>2 DEF HttpInv, OwnersInv, Endpoints
  <2>7. owners'["streamable"].at = "complete" => owners'["legacy"].at \in {"absent", "complete"}
    <3>1. SUFFICES ASSUME owners'["streamable"].at = "complete"
                   PROVE  owners'["legacy"].at \in {"absent", "complete"}
      OBVIOUS
    <3>2. owners["legacy"].at \in {"absent", "complete"}
      BY <2>2, <3>1 DEF HttpInv, OwnersInv, Endpoints
    <3>3. QED
      BY <2>1, <2>2, <3>2 DEF Endpoints
  <2>8. owners'["streamable"].at = "connecting" =>
          owners'["streamable"].for # 0 /\ exchanges'[owners'["streamable"].for].at = "handed"
    <3>1. SUFFICES ASSUME owners'["streamable"].at = "connecting"
                   PROVE  owners'["streamable"].for # 0 /\ exchanges'[owners'["streamable"].for].at = "handed"
      OBVIOUS
    <3>2. owners'["streamable"] = owners["streamable"] /\ e = "legacy"
      BY <1>4, <1>12, <3>1 DEF Endpoints
    <3>3. owners["legacy"].at # "absent"
      BY <1>6, <3>2 DEF Running
    <3>4. QED
      BY <3>1, <3>2, <3>3 DEF HttpInv, OwnersInv, OwnerLeft
  <2>9. ASSUME NEW f \in Endpoints, owners'[f].at \in {"gate", "settle", "inline"}
        PROVE  /\ owners'[f].for # 0 /\ exchanges'[owners'[f].for].on = f
               /\ ~Untaken(exchanges'[owners'[f].for])
    <3>1. owners'[f] = owners[f]
      BY <1>12, <2>9
    <3>2. owners[f].for # 0 /\ exchanges[owners[f].for].on = f /\ ~Untaken(exchanges[owners[f].for])
      BY <2>9, <3>1 DEF HttpInv, OwnersInv
    <3>3. owners[f].for \in HttpRequests
      BY <1>1, <3>2 DEF Owner
    <3>4. QED
      BY <1>8, <1>10, <3>1, <3>2, <3>3
  <2>10. \A q \in HttpRequests : IsLive(exchanges'[q]) =>
           owners'[exchanges'[q].on].at \notin {"absent", "stopping", "complete"}
    <3>1. \A q \in HttpRequests : exchanges[q].on \in Endpoints
      BY <1>1 DEF Exchange
    <3>2. QED
      BY <1>8, <1>9, <1>12, <3>1 DEF HttpInv, OwnersInv
  <2>11. QED
    BY <2>3, <2>4, <2>5, <2>6, <2>7, <2>8, <2>9, <2>10 DEF OwnersInv
<1>16. SessionsInv'
  <2>1. \A q \in HttpRequests : exchanges'[q].at = "open" => exchanges[q].at = "open"
    BY <1>8
  <2>2. QED
    BY <1>6, <1>8, <1>10, <2>1 DEF HttpInv, SessionsInv
<1>17. StreamInv'
  <2>1. \A q \in HttpRequests : Entry(q) => Entry(q)'
    BY <1>8 DEF Entry
  <2>2. pending \subseteq HttpRequests /\ stream.owed \subseteq HttpRequests /\ stream.delivering \in HttpRequests \cup {0}
    BY DEF HttpInv, HttpShape, HttpTypeOK, Stream
  <2>3. \A q \in pending' : Entry(q)' /\ q \notin stream'.owed /\ q # stream'.delivering
    BY <1>6, <2>1, <2>2 DEF HttpInv, StreamInv
  <2>4. \A q \in stream'.owed : Entry(q)'
    BY <1>6, <2>1, <2>2 DEF HttpInv, StreamInv
  <2>5. \A q \in HttpRequests : stream.delivering = q => Entry(q)'
    BY <2>1, HttpAssumption DEF HttpInv, StreamInv
  <2>6. stream'.delivering # 0 => Entry(stream.delivering)' /\ stream'.at = "open"
    BY <1>6, <2>2, <2>5 DEF HttpInv, StreamInv, Entry
  <2>7. \A q \in HttpRequests : exchanges'[q].at = "open" => exchanges'[q].done = "none"
    BY <1>8 DEF HttpInv, StreamInv
  <2>8. QED
    BY <1>6, <2>3, <2>4, <2>6, <2>7 DEF HttpInv, StreamInv
<1>18. ChannelsInv'
  <2>1. \A f \in Endpoints : \A i \in DOMAIN channels[f] :
          channels[f][i] \in HttpRequests /\ exchanges[channels[f][i]].at = "queued"
    BY DEF HttpInv, HttpShape, HttpTypeOK, ChannelsInv
  <2>2. \A f \in Endpoints : \A i \in DOMAIN channels[f] : exchanges'[channels[f][i]].at = "queued"
    BY <1>7, <2>1 DEF Untaken
  <2>3. QED
    BY <1>6, <2>2 DEF HttpInv, ChannelsInv
<1>19. QED
  BY <1>8, <1>11, <1>14, <1>15, <1>16, <1>17, <1>18 DEF HttpInv

LEMMA LeaveAlone ==
  ASSUME HttpInv, NEW e \in Endpoints, owners[e].at \in Running \ {"connecting"},
         NEW deliberate \in BOOLEAN, Leave(e, deliberate),
         UNCHANGED <<exchanges, channels, sessions, negotiation, pending, stream, plug, established>>
  PROVE  HttpInv'
<1>1. exchanges' \in [HttpRequests -> Exchange]
  BY DEF HttpInv, HttpShape, HttpTypeOK
<1>2. LeaveMove(e)
  BY <1>1 DEF LeaveMove
<1>3. QED
  BY <1>2, LeaveKeeps

(* A signal or a broken stream drops what the owner itself runs.           *)
LEMMA LeaveDropping ==
  ASSUME HttpInv, NEW e \in Endpoints, owners[e].at \in Running,
         NEW deliberate \in BOOLEAN, Leave(e, deliberate),
         exchanges' = [r \in HttpRequests |->
           IF r = owners[e].for /\ owners[e].at \in {"settle", "inline", "connecting"}
           THEN Over(exchanges[r]) ELSE exchanges[r]],
         UNCHANGED <<channels, sessions, negotiation, pending, stream, plug, established>>
  PROVE  HttpInv'
<1>1. exchanges \in [HttpRequests -> Exchange] /\ \A r \in HttpRequests : ExchangeInv(exchanges[r])
  BY DEF HttpInv, HttpShape, HttpTypeOK
<1>2. ASSUME NEW r \in HttpRequests, r = owners[e].for, owners[e].at \in {"settle", "inline", "connecting"}
      PROVE  Released(exchanges[r], Over(exchanges[r]))
  <2>1. ~Untaken(exchanges[r])
    <3>1. CASE owners[e].at = "connecting"
      BY <1>2, <3>1 DEF HttpInv, OwnersInv, Endpoints, Untaken
    <3>2. CASE owners[e].at \in {"settle", "inline"}
      BY <1>2, <3>2 DEF HttpInv, OwnersInv
    <3>3. QED
      BY <1>2, <3>1, <3>2
  <2>2. exchanges[r] \in Exchange /\ ExchangeInv(exchanges[r])
    BY <1>1, <1>2
  <2>3. QED
    BY <2>1, <2>2, OverKeeps DEF Released
<1>3. \A q \in HttpRequests :
        \/ exchanges'[q] = exchanges[q] /\ ~(owners[e].at = "connecting" /\ q = owners[e].for)
        \/ /\ q = owners[e].for /\ owners[e].at \in {"settle", "inline", "connecting"}
           /\ Released(exchanges[q], exchanges'[q])
  BY <1>2
<1>4. exchanges' \in [HttpRequests -> Exchange]
  BY <1>1, <1>2 DEF Released
<1>5. LeaveMove(e)
  BY <1>3, <1>4 DEF LeaveMove
<1>6. QED
  BY <1>5, LeaveKeeps

LEMMA StreamInvStep ==
  ASSUME HttpInv, StreamStep
  PROVE  HttpInv'
<1>1. CASE StreamBreaks
  <2>1. owners["legacy"].at \in Running /\ UNCHANGED <<channels, sessions, negotiation, plug, established>>
    BY <1>1 DEF StreamBreaks
  <2>2. CASE /\ stream.at = "open" /\ stream.delivering = 0
             /\ stream' = [ClosedStream EXCEPT !.at = "failing", !.owed = pending]
             /\ pending' = {}
             /\ UNCHANGED <<exchanges, owners>>
    BY <2>1, <2>2, StreamFailsInv
  <2>3. CASE /\ \E r \in stream.owed :
                 /\ stream' = [stream EXCEPT !.owed = @ \ {r}]
                 /\ Change(r, [exchanges[r] EXCEPT !.answers = @ + 1, !.done = "error",
                                                   !.answered = exchanges[r].at # "ended"])
             /\ UNCHANGED <<owners, pending>>
    BY <2>1, <2>3, StreamTellsInv
  <2>4. CASE /\ stream.at = "failing" /\ stream.owed = {}
             /\ Leave("legacy", FALSE)
             /\ exchanges' = [r \in HttpRequests |->
                  IF r = owners["legacy"].for /\ owners["legacy"].at \in {"settle", "inline"}
                  THEN Over(exchanges[r]) ELSE exchanges[r]]
             /\ UNCHANGED <<stream, pending>>
    <3>1. owners["legacy"].at # "connecting"
      BY DEF HttpInv, OwnersInv
    <3>2. exchanges' = [r \in HttpRequests |->
            IF r = owners["legacy"].for /\ owners["legacy"].at \in {"settle", "inline", "connecting"}
            THEN Over(exchanges[r]) ELSE exchanges[r]]
      BY <2>4, <3>1
    <3>3. "legacy" \in Endpoints /\ FALSE \in BOOLEAN
      BY DEF Endpoints
    <3>4. QED
      BY <2>1, <2>4, <3>2, <3>3, LeaveDropping
  <2>5. QED
    BY <1>1, <2>2, <2>3, <2>4 DEF StreamBreaks
<1>2. QED
  BY <1>1, StreamTakeInv, StreamSendInv, StreamLateInv DEF StreamStep

-----------------------------------------------------------------------------
(* The owners' own steps.                                                  *)

(* An owner moves on for the same request; the requests stay.              *)
LEMMA OwnerMoves ==
  ASSUME HttpInv, NEW e \in Endpoints, NEW at, [owners[e] EXCEPT !.at = at] \in Owner,
         owners' = [owners EXCEPT ![e].at = at]
  PROVE  /\ owners' \in [Endpoints -> Owner] /\ owners'[e].at = at /\ owners'[e].for = owners[e].for
         /\ \A f \in Endpoints \ {e} : owners'[f] = owners[f]
<1>1. owners \in [Endpoints -> Owner]
  BY DEF HttpInv, HttpShape, HttpTypeOK
<1> DEFINE p == [owners[e] EXCEPT !.at = at]
<1>2. p.at = at /\ p.for = owners[e].for
  BY <1>1 DEF Owner
<1>3. owners' = [owners EXCEPT ![e] = p]
  OBVIOUS
<1> HIDE DEF p
<1>4. QED
  BY <1>1, <1>2, <1>3 DEF p

LEMMA SettleInv ==
  ASSUME HttpInv, Settle
  PROVE  HttpInv'
<1>1. /\ owners["legacy"].at = "settle" /\ owners' = [owners EXCEPT !["legacy"].at = "inline"]
      /\ UNCHANGED <<exchanges, channels, sessions, negotiation, pending, stream, plug, established>>
  BY DEF Settle
<1>2. /\ owners \in [Endpoints -> Owner] /\ "legacy" \in Endpoints /\ sessions \in [Endpoints -> Session]
      /\ pending \subseteq HttpRequests /\ stream \in Stream /\ plug \in {"in", "closed", "deaf", "shutdown"}
  BY DEF HttpInv, HttpShape, HttpTypeOK, Endpoints
<1>3. [owners["legacy"] EXCEPT !.at = "inline"] \in Owner
  BY <1>2 DEF Owner
<1>4. /\ owners' \in [Endpoints -> Owner] /\ owners'["legacy"].at = "inline"
      /\ owners'["legacy"].for = owners["legacy"].for
      /\ owners'["streamable"] = owners["streamable"]
  BY <1>1, <1>2, <1>3, OwnerMoves DEF Endpoints
<1>5. OwnersInv'
  <2>1. \A f \in Endpoints : owners'[f].at \in {"gate", "settle", "inline"} =>
          /\ owners'[f].for # 0 /\ exchanges'[owners'[f].for].on = f
          /\ ~Untaken(exchanges'[owners'[f].for])
    BY <1>1, <1>4 DEF HttpInv, OwnersInv, Endpoints
  <2>2. \A q \in HttpRequests : exchanges[q].on \in Endpoints
    BY DEF HttpInv, HttpShape, HttpTypeOK, Exchange
  <2>3. \A q \in HttpRequests : IsLive(exchanges'[q]) =>
          owners'[exchanges'[q].on].at \notin {"absent", "stopping", "complete"}
    BY <1>1, <1>4, <2>2 DEF HttpInv, OwnersInv, Endpoints
  <2>4. QED
    BY <1>1, <1>4, <2>1, <2>3 DEF HttpInv, OwnersInv
<1>6. FallBackInv'
  BY <1>1, <1>4 DEF HttpInv, FallBackInv, Solo
<1>7. StreamInv'
  BY <1>1, StreamStays
<1>8. stream'.delivering # 0 /\ stream'.verdict = "result" => sessions'["legacy"].state # "fresh"
  BY <1>1 DEF HttpInv, SessionsInv
<1>9. QED
  BY <1>1, <1>2, <1>4, <1>5, <1>6, <1>7, <1>8, RequestsStay

LEMMA DrainInv ==
  ASSUME HttpInv, NEW e \in Endpoints, DrainExchanges(e)
  PROVE  HttpInv'
<1>1. UNCHANGED <<exchanges, channels, sessions, negotiation, pending, stream, plug, established>>
  BY DEF DrainExchanges
<1>2. CASE owners[e].at \in {"drain", "forward"} /\ Leave(e, FALSE)
  <2>1. owners[e].at \in Running \ {"connecting"} /\ FALSE \in BOOLEAN
    BY <1>2 DEF Running
  <2>2. QED
    BY <1>1, <1>2, <2>1, LeaveAlone
<1>3. CASE owners[e].at = "select" /\ owners' = [owners EXCEPT ![e].at = "drain"]
  <2>1. /\ owners \in [Endpoints -> Owner] /\ sessions \in [Endpoints -> Session]
        /\ pending \subseteq HttpRequests /\ stream \in Stream /\ plug \in {"in", "closed", "deaf", "shutdown"}
    BY DEF HttpInv, HttpShape, HttpTypeOK
  <2>2. [owners[e] EXCEPT !.at = "drain"] \in Owner
    BY <2>1 DEF Owner
  <2>3. /\ owners' \in [Endpoints -> Owner] /\ owners'[e].at = "drain"
        /\ \A f \in Endpoints \ {e} : owners'[f] = owners[f]
    BY <1>3, <2>1, <2>2, OwnerMoves
  <2>4. \A f \in Endpoints : owners'[f] = owners[f] \/ (owners[f].at = "select" /\ owners'[f].at = "drain")
    BY <1>3, <2>3
  <2>5. OwnersInv'
    <3>1. \A f \in Endpoints : owners'[f].at \in {"gate", "settle", "inline"} =>
            /\ owners'[f].for # 0 /\ exchanges'[owners'[f].for].on = f
            /\ ~Untaken(exchanges'[owners'[f].for])
      BY <1>1, <2>4 DEF HttpInv, OwnersInv
    <3>2. \A q \in HttpRequests : exchanges[q].on \in Endpoints
      BY DEF HttpInv, HttpShape, HttpTypeOK, Exchange
    <3>3. \A q \in HttpRequests : IsLive(exchanges'[q]) =>
            owners'[exchanges'[q].on].at \notin {"absent", "stopping", "complete"}
      BY <1>1, <2>4, <3>2 DEF HttpInv, OwnersInv
    <3>4. QED
      BY <1>1, <2>4, <3>1, <3>3 DEF HttpInv, OwnersInv, Endpoints, OwnerLeft
  <2>6. FallBackInv'
    BY <1>1, <2>4 DEF HttpInv, FallBackInv, Solo, Endpoints, OwnerLeft
  <2>7. StreamInv'
    BY <1>1, StreamStays
  <2>8. stream'.delivering # 0 /\ stream'.verdict = "result" => sessions'["legacy"].state # "fresh"
    BY <1>1 DEF HttpInv, SessionsInv
  <2>9. QED
    BY <1>1, <2>1, <2>3, <2>5, <2>6, <2>7, <2>8, RequestsStay
<1>4. QED
  BY <1>2, <1>3 DEF DrainExchanges

LEMMA AbortInv ==
  ASSUME HttpInv, NEW e \in Endpoints, Abort(e)
  PROVE  HttpInv'
<1>1. owners[e].at = "aborting" /\ UNCHANGED <<channels, sessions, negotiation, plug, established>>
  BY DEF Abort
<1>2. /\ owners \in [Endpoints -> Owner] /\ sessions \in [Endpoints -> Session]
      /\ pending \subseteq HttpRequests /\ stream \in Stream /\ plug \in {"in", "closed", "deaf", "shutdown"}
      /\ \A q \in HttpRequests : exchanges[q].on \in Endpoints
  BY DEF HttpInv, HttpShape, HttpTypeOK, Exchange
<1>3. CASE (\E r \in Workers(e) : Change(r, Over(exchanges[r]))) /\ UNCHANGED <<owners, pending, stream>>
  <2>1. PICK r \in Workers(e) : Change(r, Over(exchanges[r]))
    BY <1>3
  <2>2. r \in HttpRequests /\ IsLive(exchanges[r])
    BY <2>1 DEF Workers, Live, IsLive
  <2>3. QED
    BY <1>1, <1>3, <2>1, <2>2, EndMoves
<1>4. CASE /\ Workers(e) = {}
           /\ owners' = [owners EXCEPT ![e].at = IF e = "streamable" THEN "stopping" ELSE "complete"]
           /\ pending' = IF e = "legacy" THEN {} ELSE pending
           /\ stream' = IF e = "legacy" THEN ClosedStream ELSE stream
           /\ UNCHANGED exchanges
  <2> DEFINE at == IF e = "streamable" THEN "stopping" ELSE "complete"
  <2>1. [owners[e] EXCEPT !.at = at] \in Owner
    BY <1>2 DEF Owner
  <2>2. owners' = [owners EXCEPT ![e].at = at]
    BY <1>4
  <2>3. (e = "streamable" /\ at = "stopping") \/ (e = "legacy" /\ at = "complete")
    BY DEF Endpoints
  <2> HIDE DEF at
  <2>4. /\ owners' \in [Endpoints -> Owner] /\ owners'[e].at = at
        /\ \A f \in Endpoints \ {e} : owners'[f] = owners[f]
    BY <2>1, <2>2, OwnerMoves
  <2>5. \A q \in HttpRequests : exchanges[q].on = e => ~IsLive(exchanges[q])
    BY <1>1, <1>4 DEF Workers, Live, IsLive
  <2>6. ClosedStream \in Stream /\ ClosedStream.delivering = 0 /\ ClosedStream.owed = {}
    BY DEF ClosedStream, Stream
  <2>7. stream' \in Stream /\ pending' \subseteq HttpRequests
    BY <1>2, <1>4, <2>6
  <2>8. OwnersInv'
    <3>1. \A f \in Endpoints : owners'[f].at \in {"gate", "settle", "inline"} =>
            /\ owners'[f].for # 0 /\ exchanges'[owners'[f].for].on = f
            /\ ~Untaken(exchanges'[owners'[f].for])
      BY <1>4, <2>3, <2>4 DEF HttpInv, OwnersInv
    <3>2. \A q \in HttpRequests : IsLive(exchanges'[q]) =>
            owners'[exchanges'[q].on].at \notin {"absent", "stopping", "complete"}
      BY <1>2, <1>4, <2>4, <2>5 DEF HttpInv, OwnersInv
    <3>3. CASE e = "streamable" /\ at = "stopping"
      <4>1. owners'["legacy"] = owners["legacy"] /\ owners'["streamable"].at = "stopping"
        BY <2>4, <3>3 DEF Endpoints
      <4>2. QED
        BY <1>1, <1>4, <3>1, <3>2, <4>1, <3>3 DEF HttpInv, OwnersInv, OwnerLeft
    <3>4. CASE e = "legacy" /\ at = "complete"
      <4>1. owners'["streamable"] = owners["streamable"] /\ owners'["legacy"].at = "complete"
            /\ owners["legacy"].at = "aborting"
        BY <1>1, <2>4, <3>4 DEF Endpoints
      <4>2. QED
        BY <1>1, <1>4, <3>1, <3>2, <4>1, <3>4 DEF HttpInv, OwnersInv, OwnerLeft
    <3>5. QED
      BY <2>3, <3>3, <3>4
  <2>9. FallBackInv'
    <3>1. owners'["streamable"] = owners["streamable"]
          \/ (owners["streamable"].at = "aborting" /\ owners'["streamable"].at = "stopping")
      BY <1>1, <2>3, <2>4 DEF Endpoints
    <3>2. QED
      BY <1>1, <1>4, <3>1 DEF HttpInv, FallBackInv, Solo, OwnerLeft
  <2>10. StreamInv'
    <3>1. CASE e = "legacy"
      <4>1. stream' = ClosedStream /\ pending' = {}
        BY <1>4, <3>1
      <4>2. QED
        BY <1>4, <2>6, <4>1 DEF HttpInv, StreamInv
    <3>2. CASE e # "legacy"
      BY <1>4, <3>2, StreamStays
    <3>3. QED
      BY <3>1, <3>2
  <2>11. stream'.delivering # 0 /\ stream'.verdict = "result" => sessions'["legacy"].state # "fresh"
    BY <1>1, <1>4, <2>6 DEF HttpInv, SessionsInv
  <2>12. QED
    BY <1>1, <1>2, <1>4, <2>4, <2>7, <2>8, <2>9, <2>10, <2>11, RequestsStay
<1>5. QED
  BY <1>3, <1>4 DEF Abort

LEMMA RetireInv ==
  ASSUME HttpInv, Retire
  PROVE  HttpInv'
<1>1. /\ owners["streamable"].at = "stopping" /\ owners["legacy"].at \in {"absent", "complete"}
      /\ owners' = [owners EXCEPT !["streamable"].at = "complete"]
      /\ sessions' = [sessions EXCEPT !["streamable"] =
                        IF owners["streamable"].deliberate THEN ExpiredSession ELSE @]
      /\ UNCHANGED <<exchanges, channels, negotiation, pending, stream, plug, established>>
  BY DEF Retire
<1>2. /\ owners \in [Endpoints -> Owner] /\ sessions \in [Endpoints -> Session]
      /\ pending \subseteq HttpRequests /\ stream \in Stream /\ plug \in {"in", "closed", "deaf", "shutdown"}
      /\ "streamable" \in Endpoints /\ \A q \in HttpRequests : exchanges[q].on \in Endpoints
  BY DEF HttpInv, HttpShape, HttpTypeOK, Exchange, Endpoints
<1>3. [owners["streamable"] EXCEPT !.at = "complete"] \in Owner
  BY <1>2 DEF Owner
<1>4. /\ owners' \in [Endpoints -> Owner] /\ owners'["streamable"].at = "complete"
      /\ owners'["legacy"] = owners["legacy"]
  BY <1>1, <1>2, <1>3, OwnerMoves DEF Endpoints
<1>5. /\ sessions' \in [Endpoints -> Session] /\ sessions'["legacy"] = sessions["legacy"]
      /\ \A e \in Endpoints : sessions[e].state # "fresh" => sessions'[e].state # "fresh"
  BY <1>1, <1>2, SessionValues DEF Endpoints
<1>6. \A q \in HttpRequests : ~IsLive(exchanges[q])
  <2>1. \A e \in Endpoints : owners[e].at \in {"absent", "stopping", "complete"}
    BY <1>1 DEF Endpoints
  <2>2. QED
    BY <1>2, <2>1 DEF HttpInv, OwnersInv
<1>7. OwnersInv'
  <2>1. \A f \in Endpoints : owners'[f].at \in {"absent", "complete"}
    BY <1>1, <1>4 DEF Endpoints
  <2>2. QED
    BY <1>1, <1>2, <1>4, <1>5, <1>6, <2>1 DEF HttpInv, OwnersInv, OwnerLeft
<1>8. FallBackInv'
  BY <1>1, <1>4 DEF HttpInv, FallBackInv, Solo, OwnerLeft
<1>9. StreamInv'
  BY <1>1, StreamStays
<1>10. stream'.delivering # 0 /\ stream'.verdict = "result" => sessions'["legacy"].state # "fresh"
  BY <1>1, <1>5 DEF HttpInv, SessionsInv
<1>11. QED
  BY <1>1, <1>2, <1>4, <1>5, <1>7, <1>8, <1>9, <1>10, RequestsStay

LEMMA PairOf ==
  ASSUME NEW S, NEW a \in S, NEW b \in S, NEW o, o = [streamable |-> a, legacy |-> b]
  PROVE  o \in [Endpoints -> S] /\ o["streamable"] = a /\ o["legacy"] = b
BY DEF Endpoints

(* The request that is handed over is opened on the legacy endpoint.       *)
OnLegacy(x) ==
  [x EXCEPT !.at = "open", !.on = "legacy", !.mayFallBack = FALSE, !.saw = FreshSession]

LEMMA OpensOnLegacy ==
  ASSUME NEW x \in Exchange
  PROVE  /\ OnLegacy(x) \in Exchange
         /\ OnLegacy(x).at = "open" /\ OnLegacy(x).on = "legacy" /\ ~OnLegacy(x).mayFallBack
         /\ OnLegacy(x).saw = FreshSession
         /\ OnLegacy(x).kind = x.kind /\ OnLegacy(x).after = x.after /\ OnLegacy(x).done = x.done
         /\ OnLegacy(x).posts = x.posts /\ OnLegacy(x).answers = x.answers
         /\ OnLegacy(x).answered = x.answered
<1>1. FreshSession \in Session /\ "open" \in Steps /\ "legacy" \in Endpoints
  BY SessionValues DEF Steps, Endpoints
<1>2. OnLegacy(x) \in Exchange
  BY <1>1 DEF Exchange, OnLegacy
<1>3. QED
  BY <1>2 DEF Exchange, OnLegacy

(* The legacy transport starts with the request that was handed over.      *)
LEMMA ConnectStarts ==
  ASSUME HttpInv, owners["streamable"].at = "connecting",
         NEW r, r = owners["streamable"].for,
         owners' = [streamable |-> [Idle EXCEPT !.at = "forward"],
                    legacy |-> [Idle EXCEPT !.at = "inline", !.for = r]],
         Change(r, [exchanges[r] EXCEPT !.at = "open", !.on = "legacy", !.mayFallBack = FALSE,
                                        !.saw = FreshSession]),
         UNCHANGED <<channels, sessions, negotiation, pending, stream, plug, established>>
  PROVE  HttpInv'
<1> DEFINE x == exchanges[r]
           y == OnLegacy(x)
<1>1. /\ exchanges \in [HttpRequests -> Exchange] /\ \A q \in HttpRequests : ExchangeInv(exchanges[q])
      /\ owners \in [Endpoints -> Owner] /\ "streamable" \in Endpoints /\ "legacy" \in Endpoints
      /\ negotiation \in {"probing", "active"}
  BY DEF HttpInv, HttpShape, HttpTypeOK, Endpoints
<1>2. r \in HttpRequests /\ x.at = "handed" /\ r # 0
  BY <1>1 DEF HttpInv, OwnersInv, Owner
<1>3. /\ Solo(r) /\ sessions["streamable"].state = "fresh"
      /\ x.mayFallBack /\ x.kind = "initialize" /\ x.on = "streamable" /\ x \in Exchange
  BY <1>1, <1>2 DEF HttpInv, FallBackInv, ExchangeInv
<1>4. /\ owners["legacy"].at = "absent" /\ sessions["legacy"].state = "fresh"
      /\ \A q \in HttpRequests : exchanges[q].on = "streamable"
  BY DEF HttpInv, OwnersInv, OwnerLeft
<1>5. x.posts["legacy"] = 0 /\ x.done = "none" /\ x.answers = 0 /\ x.posts["streamable"] <= 1
      /\ x.answers \in 0..3 /\ ~x.answered /\ x.posts \in [Endpoints -> 0..2]
  BY <1>1, <1>2, <1>3 DEF ExchangeInv, Exchange, Endpoints
<1>6. /\ y \in Exchange /\ y.at = "open" /\ y.on = "legacy" /\ ~y.mayFallBack /\ y.saw = FreshSession
      /\ y.kind = x.kind /\ y.after = x.after /\ y.done = x.done /\ y.posts = x.posts
      /\ y.answers = x.answers /\ y.answered = x.answered
  BY <1>3, OpensOnLegacy
<1> HIDE DEF y
<1>7. ExchangeInv(y)
  BY <1>3, <1>5, <1>6 DEF ExchangeInv, Untaken, IsLive, Endpoints
<1>8. exchanges' = [exchanges EXCEPT ![r] = y]
  BY DEF Change, y, OnLegacy
<1>9. /\ exchanges' \in [HttpRequests -> Exchange] /\ exchanges'[r] = y
      /\ \A q \in HttpRequests \ {r} : exchanges'[q] = exchanges[q]
      /\ \A q \in HttpRequests : ExchangeInv(exchanges'[q])
  BY <1>2, <1>6, <1>7, <1>8, OthersStay
<1>10. /\ owners' \in [Endpoints -> Owner]
       /\ owners'["streamable"].at = "forward"
       /\ owners'["legacy"].at = "inline" /\ owners'["legacy"].for = r
  <2> DEFINE a == [Idle EXCEPT !.at = "forward"]
             b == [Idle EXCEPT !.at = "inline", !.for = r]
  <2>1. a \in Owner /\ b \in Owner /\ a.at = "forward" /\ b.at = "inline" /\ b.for = r
    BY <1>2 DEF Idle, Owner
  <2>2. owners' = [streamable |-> a, legacy |-> b]
    OBVIOUS
  <2> HIDE DEF a, b
  <2>3. owners' \in [Endpoints -> Owner]
    BY <2>1, <2>2, PairOf
  <2>4. owners'["streamable"] = a /\ owners'["legacy"] = b
    BY <2>2
  <2>5. QED
    BY <2>1, <2>3, <2>4
<1>11. HttpShape'
  BY <1>9, <1>10 DEF HttpInv, HttpShape, HttpTypeOK
<1>12. negotiation' = "active"
  BY <1>1, <1>2, <1>3 DEF HttpInv, SessionsInv, Untaken
<1>13. Solo(r)'
  BY <1>3, <1>9 DEF Solo
<1>14. \A q \in HttpRequests : exchanges'[q].on = "streamable" => ~IsLive(exchanges'[q])
  BY <1>3, <1>6, <1>9 DEF Solo
<1>15. FallBackInv'
  <2>1. ASSUME NEW q \in HttpRequests \ {r}
        PROVE  /\ ~(exchanges'[q].mayFallBack /\ exchanges'[q].at \in {"open", "authorizing", "posted"})
               /\ exchanges'[q].at # "handed" /\ exchanges'[q].on = "streamable"
    <3>1. exchanges'[q] = exchanges[q] /\ exchanges[q].on = "streamable" /\ ~IsLive(exchanges[q]) /\ q # r
      BY <1>3, <1>4, <1>9, <2>1 DEF Solo
    <3>2. exchanges[q].at # "handed"
      BY <3>1 DEF HttpInv, FallBackInv
    <3>3. QED
      BY <3>1, <3>2 DEF IsLive
  <2>2. QED
    BY <1>3, <1>6, <1>9, <1>13, <2>1 DEF FallBackInv
<1>16. OwnersInv'
  <2>1. \A f \in Endpoints : owners'[f].at \in {"gate", "settle", "inline"} =>
          /\ owners'[f].for # 0 /\ exchanges'[owners'[f].for].on = f
          /\ ~Untaken(exchanges'[owners'[f].for])
    <3>1. exchanges'[r].on = "legacy" /\ ~Untaken(exchanges'[r])
      BY <1>6, <1>9 DEF Untaken
    <3>2. owners'["streamable"].at \notin {"gate", "settle", "inline"}
      BY <1>10
    <3>3. \A f \in Endpoints : f = "streamable" \/ f = "legacy"
      BY DEF Endpoints
    <3>4. QED
      BY <1>2, <1>10, <3>1, <3>2, <3>3
  <2>2. \A q \in HttpRequests : IsLive(exchanges'[q]) =>
          owners'[exchanges'[q].on].at \notin {"absent", "stopping", "complete"}
    <3>1. \A q \in HttpRequests : exchanges'[q].on \in Endpoints
      BY <1>9 DEF Exchange
    <3>2. QED
      BY <1>10, <3>1 DEF Endpoints
  <2>3. QED
    BY <1>3, <1>10, <1>12, <1>14, <2>1, <2>2 DEF OwnersInv
<1>17. SessionsInv'
  <2>1. ~y.after
    BY <1>2, <1>3, <1>4, <1>6 DEF HttpInv, SessionsInv
  <2>2. QED
    BY <1>9, <1>12, <2>1 DEF HttpInv, SessionsInv
<1>18. StreamInv'
  <2>1. \A q \in HttpRequests : ~Entry(q)
    BY <1>4 DEF Entry
  <2>2. pending \subseteq HttpRequests /\ stream.owed \subseteq HttpRequests
        /\ stream.delivering \in HttpRequests \cup {0}
    BY DEF HttpInv, HttpShape, HttpTypeOK, Stream
  <2>3. pending = {} /\ stream.owed = {} /\ stream.delivering = 0
    BY <2>1, <2>2 DEF HttpInv, StreamInv
  <2>4. \A q \in HttpRequests : exchanges'[q].at = "open" => exchanges'[q].done = "none"
    BY <1>5, <1>6, <1>9 DEF HttpInv, StreamInv
  <2>5. QED
    BY <2>3, <2>4 DEF StreamInv
<1>19. ChannelsInv'
  <2>1. \A f \in Endpoints : \A i \in DOMAIN channels[f] :
          channels[f][i] \in HttpRequests \ {r}
    BY <1>2 DEF HttpInv, HttpShape, HttpTypeOK, ChannelsInv
  <2>2. QED
    BY <1>9, <2>1 DEF HttpInv, ChannelsInv
<1>20. QED
  BY <1>9, <1>11, <1>15, <1>16, <1>17, <1>18, <1>19 DEF HttpInv

LEMMA ConnectInv ==
  ASSUME HttpInv, Connect
  PROVE  HttpInv'
<1> DEFINE r == owners["streamable"].for
<1>1. owners["streamable"].at = "connecting"
      /\ UNCHANGED <<channels, sessions, negotiation, pending, stream, plug, established>>
  BY DEF Connect
<1>2. CASE /\ owners' = [streamable |-> [Idle EXCEPT !.at = "forward"],
                         legacy |-> [Idle EXCEPT !.at = "inline", !.for = r]]
           /\ Change(r, [exchanges[r] EXCEPT !.at = "open", !.on = "legacy", !.mayFallBack = FALSE,
                                             !.saw = FreshSession])
  BY <1>1, <1>2, ConnectStarts
<1>3. CASE Change(r, Over(Told(exchanges[r]))) /\ Leave("streamable", FALSE)
  <2> DEFINE y == Over(Told(exchanges[r]))
  <2>1. /\ exchanges \in [HttpRequests -> Exchange] /\ \A q \in HttpRequests : ExchangeInv(exchanges[q])
        /\ owners \in [Endpoints -> Owner] /\ "streamable" \in Endpoints
    BY DEF HttpInv, HttpShape, HttpTypeOK, Endpoints
  <2>2. r \in HttpRequests /\ exchanges[r].at = "handed"
    BY <1>1, <2>1 DEF HttpInv, OwnersInv, Owner
  <2>3. exchanges[r] \in Exchange /\ ExchangeInv(exchanges[r]) /\ ~Untaken(exchanges[r])
    BY <2>1, <2>2 DEF Untaken
  <2>4. Released(exchanges[r], y)
    BY <2>2, <2>3, ToldKeeps DEF Released
  <2> HIDE DEF y
  <2>5. exchanges' = [exchanges EXCEPT ![r] = y]
    BY <1>3 DEF Change, y
  <2>6. exchanges' \in [HttpRequests -> Exchange] /\ exchanges'[r] = y
        /\ \A q \in HttpRequests \ {r} : exchanges'[q] = exchanges[q]
    BY <2>1, <2>2, <2>4, <2>5 DEF Released
  <2>7. LeaveMove("streamable")
    BY <1>1, <1>3, <2>4, <2>6 DEF LeaveMove, Running
  <2>8. QED
    BY <2>1, <2>7, LeaveKeeps
<1>4. QED
  BY <1>2, <1>3 DEF Connect

-----------------------------------------------------------------------------
(* The channels.                                                           *)

LEMMA TailOf ==
  ASSUME NEW s \in Seq(HttpRequests), s # <<>>
  PROVE  /\ Tail(s) \in Seq(HttpRequests) /\ Head(s) = s[1] /\ 1 \in DOMAIN s
         /\ \A i \in DOMAIN Tail(s) : i + 1 \in DOMAIN s /\ i + 1 # 1 /\ Tail(s)[i] = s[i + 1] /\ i \in Nat
<1>1. Len(s) \in Nat \ {0} /\ DOMAIN s = 1..Len(s)
  OBVIOUS
<1>2. Tail(s) \in Seq(HttpRequests) /\ Len(Tail(s)) = Len(s) - 1 /\ DOMAIN Tail(s) = 1..(Len(s) - 1)
  OBVIOUS
<1>3. \A i \in 1..(Len(s) - 1) : Tail(s)[i] = s[i + 1]
  OBVIOUS
<1>4. QED
  BY <1>1, <1>2, <1>3

LEMMA AppendOf ==
  ASSUME NEW s \in Seq(HttpRequests), NEW r \in HttpRequests
  PROVE  /\ Append(s, r) \in Seq(HttpRequests)
         /\ \A i \in DOMAIN Append(s, r) :
              \/ i \in DOMAIN s /\ Append(s, r)[i] = s[i]
              \/ i = Len(s) + 1 /\ Append(s, r)[i] = r
<1>1. DOMAIN s = 1..Len(s) /\ Len(s) \in Nat
  OBVIOUS
<1>2. Append(s, r) \in Seq(HttpRequests) /\ DOMAIN Append(s, r) = 1..(Len(s) + 1)
  OBVIOUS
<1>3. \A i \in 1..(Len(s) + 1) : Append(s, r)[i] = IF i = Len(s) + 1 THEN r ELSE s[i]
  OBVIOUS
<1>4. QED
  BY <1>1, <1>2, <1>3

(* A request leaves the front of its channel.                              *)
LEMMA ChannelTakes ==
  ASSUME HttpInv, NEW e \in Endpoints, channels[e] # <<>>, NEW r, r = Head(channels[e]),
         channels' = [channels EXCEPT ![e] = Tail(@)],
         \A q \in HttpRequests \ {r} : exchanges'[q] = exchanges[q]
  PROVE  /\ r \in HttpRequests /\ exchanges[r].at = "queued"
         /\ channels' \in [Endpoints -> Seq(HttpRequests)] /\ ChannelsInv'
<1>1. channels \in [Endpoints -> Seq(HttpRequests)]
  BY DEF HttpInv, HttpShape
<1> DEFINE s == channels[e]
<1>2. s \in Seq(HttpRequests) /\ s # <<>>
  BY <1>1
<1>3. /\ Tail(s) \in Seq(HttpRequests) /\ r = s[1] /\ 1 \in DOMAIN s
      /\ \A i \in DOMAIN Tail(s) : i + 1 \in DOMAIN s /\ i + 1 # 1 /\ Tail(s)[i] = s[i + 1] /\ i \in Nat
  BY <1>2, TailOf
<1>4. r \in HttpRequests /\ exchanges[r].at = "queued"
  BY <1>2, <1>3 DEF HttpInv, ChannelsInv
<1>5. /\ channels' \in [Endpoints -> Seq(HttpRequests)] /\ channels'[e] = Tail(s)
      /\ \A f \in Endpoints \ {e} : channels'[f] = channels[f]
  BY <1>1, <1>3
<1> DEFINE at(f, i) == IF f = e THEN i + 1 ELSE i
<1>6. ASSUME NEW f \in Endpoints, NEW i \in DOMAIN channels'[f]
      PROVE  /\ at(f, i) \in DOMAIN channels[f] /\ channels'[f][i] = channels[f][at(f, i)]
             /\ channels'[f][i] # r /\ channels'[f][i] \in HttpRequests /\ i \in Nat
  <2>1. at(f, i) \in DOMAIN channels[f] /\ channels'[f][i] = channels[f][at(f, i)] /\ (f = e => at(f, i) # 1)
    BY <1>3, <1>5, <1>6
  <2>2. channels[f][at(f, i)] # r
    BY <1>3, <2>1 DEF HttpInv, ChannelsInv
  <2>3. channels'[f] \in Seq(HttpRequests)
    BY <1>5
  <2>4. channels'[f][i] \in HttpRequests /\ i \in Nat
    BY <2>3, <1>6
  <2>5. QED
    BY <2>1, <2>2, <2>4
<1>7. \A f \in Endpoints : \A i \in DOMAIN channels'[f] : exchanges'[channels'[f][i]].at = "queued"
  BY <1>6 DEF HttpInv, ChannelsInv
<1>8. \A f, g \in Endpoints : \A i \in DOMAIN channels'[f], j \in DOMAIN channels'[g] :
        channels'[f][i] = channels'[g][j] => f = g /\ i = j
  <2>1. SUFFICES ASSUME NEW f \in Endpoints, NEW g \in Endpoints, NEW i \in DOMAIN channels'[f],
                        NEW j \in DOMAIN channels'[g], channels'[f][i] = channels'[g][j]
                 PROVE  f = g /\ i = j
    OBVIOUS
  <2>2. f = g /\ at(f, i) = at(g, j)
    <3>1. /\ at(f, i) \in DOMAIN channels[f] /\ at(g, j) \in DOMAIN channels[g]
          /\ channels[f][at(f, i)] = channels[g][at(g, j)]
      BY <1>6, <2>1
    <3> HIDE DEF at
    <3>2. QED
      BY <2>1, <3>1 DEF HttpInv, ChannelsInv
  <2>3. i \in Nat /\ j \in Nat
    BY <1>6, <2>1
  <2>4. QED
    BY <2>2, <2>3
<1>9. ChannelsInv'
  BY <1>7, <1>8 DEF ChannelsInv
<1>10. QED
  BY <1>4, <1>5, <1>9

(* A request goes from the front of one channel to the end of the other.   *)
LEMMA ChannelPasses ==
  ASSUME HttpInv, channels["streamable"] # <<>>, UNCHANGED exchanges,
         channels' = [streamable |-> Tail(channels["streamable"]),
                      legacy |-> Append(channels["legacy"], Head(channels["streamable"]))]
  PROVE  channels' \in [Endpoints -> Seq(HttpRequests)] /\ ChannelsInv'
<1> DEFINE s == channels["streamable"]
           l == channels["legacy"]
           r == Head(s)
           a == Tail(s)
           b == Append(l, r)
<1>1. channels \in [Endpoints -> Seq(HttpRequests)] /\ s \in Seq(HttpRequests) /\ l \in Seq(HttpRequests)
      /\ "streamable" \in Endpoints /\ "legacy" \in Endpoints
  BY DEF HttpInv, HttpShape, Endpoints
<1>2. /\ a \in Seq(HttpRequests) /\ r = s[1] /\ 1 \in DOMAIN s /\ s[1] \in HttpRequests
      /\ \A i \in DOMAIN a : i + 1 \in DOMAIN s /\ i + 1 # 1 /\ a[i] = s[i + 1] /\ i \in Nat
  BY <1>1, TailOf
<1>3. /\ b \in Seq(HttpRequests)
      /\ \A i \in DOMAIN b : (i \in DOMAIN l /\ b[i] = l[i]) \/ (i = Len(l) + 1 /\ b[i] = r)
  BY <1>1, <1>2, AppendOf
<1> HIDE DEF a, b
<1>4. channels' = [streamable |-> a, legacy |-> b]
  BY DEF a, b
<1>5. channels' \in [Endpoints -> Seq(HttpRequests)]
  BY <1>2, <1>3, <1>4, PairOf
<1>6. channels'["streamable"] = a /\ channels'["legacy"] = b
  BY <1>4
<1>7. \A f \in Endpoints : f = "streamable" \/ f = "legacy"
  BY DEF Endpoints
<1> DEFINE end(f, i) == f = "legacy" /\ i = Len(l) + 1
           from(f, i) == IF end(f, i) THEN "streamable" ELSE f
           at(f, i) == IF end(f, i) THEN 1 ELSE IF f = "streamable" THEN i + 1 ELSE i
<1>8. ASSUME NEW f \in Endpoints, NEW i \in DOMAIN channels'[f]
      PROVE  /\ from(f, i) \in Endpoints /\ at(f, i) \in DOMAIN channels[from(f, i)]
             /\ channels'[f][i] = channels[from(f, i)][at(f, i)] /\ i \in Nat
             /\ f = "streamable" => at(f, i) # 1
  <2>1. CASE f = "streamable"
    BY <1>1, <1>2, <1>6, <1>8, <2>1
  <2>2. CASE f = "legacy"
    <3>1. i \in DOMAIN b /\ channels'[f][i] = b[i] /\ i \in Nat
      BY <1>3, <1>6, <1>8, <2>2
    <3>2. CASE i = Len(l) + 1
      BY <1>1, <1>2, <1>3, <2>2, <3>1, <3>2
    <3>3. CASE i # Len(l) + 1
      BY <1>1, <1>3, <2>2, <3>1, <3>3
    <3>4. QED
      BY <3>2, <3>3
  <2>3. QED
    BY <1>7, <2>1, <2>2
<1>9. ASSUME NEW f \in Endpoints, NEW i \in DOMAIN channels'[f]
      PROVE  exchanges'[channels'[f][i]].at = "queued"
  <2>1. /\ from(f, i) \in Endpoints /\ at(f, i) \in DOMAIN channels[from(f, i)]
        /\ channels'[f][i] = channels[from(f, i)][at(f, i)]
    BY <1>8, <1>9
  <2> HIDE DEF at, from
  <2>2. QED
    BY <2>1 DEF HttpInv, ChannelsInv
<1>10. \A f, g \in Endpoints : \A i \in DOMAIN channels'[f], j \in DOMAIN channels'[g] :
         channels'[f][i] = channels'[g][j] => f = g /\ i = j
  <2>1. SUFFICES ASSUME NEW f \in Endpoints, NEW g \in Endpoints, NEW i \in DOMAIN channels'[f],
                        NEW j \in DOMAIN channels'[g], channels'[f][i] = channels'[g][j]
                 PROVE  f = g /\ i = j
    OBVIOUS
  <2>2. from(f, i) = from(g, j) /\ at(f, i) = at(g, j)
    <3>1. /\ from(f, i) \in Endpoints /\ from(g, j) \in Endpoints
          /\ at(f, i) \in DOMAIN channels[from(f, i)] /\ at(g, j) \in DOMAIN channels[from(g, j)]
          /\ channels[from(f, i)][at(f, i)] = channels[from(g, j)][at(g, j)]
      <4>1. /\ from(f, i) \in Endpoints /\ at(f, i) \in DOMAIN channels[from(f, i)]
            /\ channels'[f][i] = channels[from(f, i)][at(f, i)]
        BY <1>8
      <4>2. /\ from(g, j) \in Endpoints /\ at(g, j) \in DOMAIN channels[from(g, j)]
            /\ channels'[g][j] = channels[from(g, j)][at(g, j)]
        BY <1>8
      <4> HIDE DEF at, from
      <4>3. QED
        BY <2>1, <4>1, <4>2
    <3> HIDE DEF at, from
    <3>2. QED
      BY <3>1 DEF HttpInv, ChannelsInv
  <2>3. i \in Nat /\ j \in Nat /\ (f = "streamable" => at(f, i) # 1) /\ (g = "streamable" => at(g, j) # 1)
    BY <1>8, <2>1
  <2>4. end(f, i) <=> end(g, j)
    BY <1>7, <2>2, <2>3
  <2>5. QED
    BY <2>2, <2>3, <2>4
<1>11. QED
  BY <1>5, <1>9, <1>10 DEF ChannelsInv

LEMMA ForwardInv ==
  ASSUME HttpInv, Forward
  PROVE  HttpInv'
<1>1. owners["streamable"].at = "forward"
      /\ UNCHANGED <<exchanges, sessions, negotiation, pending, stream, plug, established>>
  BY DEF Forward
<1>2. CASE Leave("streamable", FALSE) /\ UNCHANGED channels
  <2>1. /\ "streamable" \in Endpoints /\ FALSE \in BOOLEAN
        /\ owners["streamable"].at \in Running \ {"connecting"}
    BY <1>1 DEF Endpoints, Running
  <2>2. QED
    BY <1>1, <1>2, <2>1, LeaveAlone
<1>3. CASE /\ channels["streamable"] # <<>>
           /\ channels' = [streamable |-> Tail(channels["streamable"]),
                           legacy |-> Append(channels["legacy"], Head(channels["streamable"]))]
           /\ UNCHANGED owners
  <2>1. channels' \in [Endpoints -> Seq(HttpRequests)] /\ ChannelsInv'
    BY <1>1, <1>3, ChannelPasses
  <2>2. HttpShape' /\ \A r \in HttpRequests : ExchangeInv(exchanges'[r])
    BY <1>1, <1>3, <2>1 DEF HttpInv, HttpShape, HttpTypeOK
  <2>3. FallBackInv'
    BY <1>1, <1>3 DEF HttpInv, FallBackInv, Solo
  <2>4. OwnersInv'
    BY <1>1, <1>3 DEF HttpInv, OwnersInv
  <2>5. SessionsInv'
    BY <1>1 DEF HttpInv, SessionsInv
  <2>6. StreamInv'
    BY <1>1, StreamStays
  <2>7. QED
    BY <2>1, <2>2, <2>3, <2>4, <2>5, <2>6 DEF HttpInv
<1>4. QED
  BY <1>2, <1>3 DEF Forward

(* A new request waits in the first owner's channel.                       *)
LEMMA SubmitInv ==
  ASSUME HttpInv, Submit
  PROVE  HttpInv'
<1>1. PICK r \in HttpRequests :
        /\ exchanges[r].at = "new"
        /\ Change(r, [exchanges[r] EXCEPT !.at = "queued", !.after = established])
        /\ channels' = [channels EXCEPT !["streamable"] = Append(@, r)]
  BY DEF Submit
<1> DEFINE x == exchanges[r]
           y == [x EXCEPT !.at = "queued", !.after = established]
           s == channels["streamable"]
           b == Append(s, r)
<1>2. UNCHANGED <<owners, sessions, negotiation, pending, stream, plug, established>>
  BY DEF Submit
<1>3. /\ exchanges \in [HttpRequests -> Exchange] /\ x \in Exchange /\ ExchangeInv(x) /\ established \in BOOLEAN
      /\ channels \in [Endpoints -> Seq(HttpRequests)] /\ "streamable" \in Endpoints /\ s \in Seq(HttpRequests)
  BY DEF HttpInv, HttpShape, HttpTypeOK, Endpoints
<1>4. /\ y \in Exchange /\ y.at = "queued" /\ y.on = x.on /\ y.kind = x.kind /\ y.after = established
      /\ y.done = x.done /\ y.posts = x.posts /\ y.answers = x.answers /\ y.answered = x.answered
      /\ y.mayFallBack = x.mayFallBack /\ y.saw = x.saw
  BY <1>3 DEF Exchange, Steps
<1> HIDE DEF y
<1>5. ExchangeInv(y)
  BY <1>1, <1>3, <1>4 DEF ExchangeInv, Untaken, IsLive
<1>6. exchanges' = [exchanges EXCEPT ![r] = y]
  BY <1>1 DEF Change, y
<1>7. /\ exchanges' \in [HttpRequests -> Exchange] /\ exchanges'[r] = y
      /\ \A q \in HttpRequests \ {r} : exchanges'[q] = exchanges[q]
      /\ \A q \in HttpRequests : ExchangeInv(exchanges'[q])
  BY <1>4, <1>5, <1>6, OthersStay
<1>8. /\ x.on = "streamable" /\ ~x.mayFallBack /\ x.posts["streamable"] = 0 /\ x.done = "none"
  BY <1>1, <1>3 DEF ExchangeInv, Untaken
<1>9. /\ b \in Seq(HttpRequests)
      /\ \A i \in DOMAIN b : (i \in DOMAIN s /\ b[i] = s[i]) \/ (i = Len(s) + 1 /\ b[i] = r)
  BY <1>3, AppendOf
<1>10. channels' = [channels EXCEPT !["streamable"] = b]
  BY <1>1
<1> HIDE DEF b
<1>11. /\ channels' \in [Endpoints -> Seq(HttpRequests)] /\ channels'["streamable"] = b
       /\ channels'["legacy"] = channels["legacy"]
  BY <1>3, <1>9, <1>10 DEF Endpoints
<1>12. HttpShape'
  BY <1>2, <1>7, <1>11 DEF HttpInv, HttpShape, HttpTypeOK
<1>13. \A f \in Endpoints : f = "streamable" \/ f = "legacy"
  BY DEF Endpoints
<1>14. \A f \in Endpoints : \A i \in DOMAIN channels'[f] :
         \/ i \in DOMAIN channels[f] /\ channels'[f][i] = channels[f][i] /\ channels[f][i] # r
            /\ channels[f][i] \in HttpRequests
         \/ f = "streamable" /\ i = Len(s) + 1 /\ channels'[f][i] = r
  <2>1. \A f \in Endpoints : \A i \in DOMAIN channels[f] : channels[f][i] # r /\ channels[f][i] \in HttpRequests
    BY <1>1, <1>3 DEF HttpInv, ChannelsInv
  <2>2. QED
    BY <1>9, <1>11, <1>13, <2>1
<1>15. ChannelsInv'
  <2>1. \A f \in Endpoints : \A i \in DOMAIN channels'[f] : exchanges'[channels'[f][i]].at = "queued"
    BY <1>4, <1>7, <1>14 DEF HttpInv, ChannelsInv
  <2>2. \A f, g \in Endpoints : \A i \in DOMAIN channels'[f], j \in DOMAIN channels'[g] :
          channels'[f][i] = channels'[g][j] => f = g /\ i = j
    BY <1>14 DEF HttpInv, ChannelsInv
  <2>3. QED
    BY <2>1, <2>2 DEF ChannelsInv
<1>16. FallBackInv'
  <2>1. \A q \in HttpRequests : Solo(q) => Solo(q)'
    BY <1>1, <1>4, <1>7, <1>8 DEF Solo, IsLive
  <2>2. ~y.mayFallBack /\ y.at # "handed" /\ y.on = "streamable"
    BY <1>4, <1>8
  <2>3. QED
    BY <1>2, <1>7, <2>1, <2>2 DEF HttpInv, FallBackInv
<1>17. OwnersInv'
  <2>1. \A q \in HttpRequests : exchanges'[q].on = exchanges[q].on
    BY <1>4, <1>7
  <2>2. \A q \in HttpRequests : IsLive(exchanges'[q]) => IsLive(exchanges[q])
    BY <1>4, <1>7 DEF IsLive
  <2>3. \A q \in HttpRequests : ~Untaken(exchanges[q]) => ~Untaken(exchanges'[q])
    BY <1>1, <1>7 DEF Untaken
  <2>4. \A q \in HttpRequests : exchanges[q].at = "handed" => exchanges'[q].at = "handed"
    BY <1>1, <1>7
  <2>5. \A f \in Endpoints : owners[f].for # 0 => owners[f].for \in HttpRequests
    BY DEF HttpInv, HttpShape, HttpTypeOK, Owner
  <2>6. OwnersInv /\ owners' = owners /\ sessions' = sessions /\ negotiation' = negotiation
    BY <1>2 DEF HttpInv
  <2>7. \A e \in Endpoints : owners'[e].at \in {"gate", "settle", "inline"} =>
          /\ owners'[e].for # 0 /\ exchanges'[owners'[e].for].on = e
          /\ ~Untaken(exchanges'[owners'[e].for])
    BY <2>1, <2>3, <2>5, <2>6 DEF OwnersInv
  <2>8. owners'["streamable"].at = "connecting" =>
          owners'["streamable"].for # 0 /\ exchanges'[owners'["streamable"].for].at = "handed"
    BY <1>3, <2>4, <2>5, <2>6 DEF OwnersInv
  <2>9. /\ owners'["legacy"].at = "absent" =>
             /\ sessions'["legacy"].state = "fresh"
             /\ \A q \in HttpRequests : exchanges'[q].on = "streamable"
        /\ owners'["legacy"].at # "absent" =>
             /\ negotiation' = "active"
             /\ owners'["streamable"].at \in {"forward"} \cup OwnerLeft
             /\ \A q \in HttpRequests : exchanges'[q].on = "streamable" => ~IsLive(exchanges'[q])
    BY <2>1, <2>2, <2>6 DEF OwnersInv
  <2>10. /\ owners'["streamable"].at # "absent" /\ owners'["legacy"].at # "connecting"
         /\ owners'["legacy"].at \notin {"absent", "complete"} => sessions'["streamable"].state = "fresh"
         /\ owners'["streamable"].at = "complete" => owners'["legacy"].at \in {"absent", "complete"}
    BY <2>6 DEF OwnersInv
  <2>11. \A q \in HttpRequests : IsLive(exchanges'[q]) =>
           owners'[exchanges'[q].on].at \notin {"absent", "stopping", "complete"}
    BY <2>1, <2>2, <2>6 DEF OwnersInv
  <2>12. QED
    BY <2>7, <2>8, <2>9, <2>10, <2>11 DEF OwnersInv
<1>18. SessionsInv'
  <2>1. Untaken(y)
    BY <1>4 DEF Untaken
  <2>2. QED
    BY <1>2, <1>4, <1>7, <2>1 DEF HttpInv, SessionsInv
<1>19. StreamInv'
  <2>1. \A q \in HttpRequests : Entry(q) => Entry(q)'
    BY <1>7, <1>8 DEF Entry
  <2>2. pending \subseteq HttpRequests /\ stream.owed \subseteq HttpRequests
        /\ stream.delivering \in HttpRequests \cup {0}
    BY DEF HttpInv, HttpShape, HttpTypeOK, Stream
  <2>3. \A q \in pending' : Entry(q)' /\ q \notin stream'.owed /\ q # stream'.delivering
    BY <1>2, <2>1, <2>2 DEF HttpInv, StreamInv
  <2>4. \A q \in stream'.owed : Entry(q)'
    BY <1>2, <2>1, <2>2 DEF HttpInv, StreamInv
  <2>5. \A q \in HttpRequests : stream.delivering = q => Entry(q)'
    BY <2>1, HttpAssumption DEF HttpInv, StreamInv
  <2>6. stream'.delivering # 0 => Entry(stream.delivering)' /\ stream'.at = "open"
    BY <1>2, <2>2, <2>5 DEF HttpInv, StreamInv, Entry
  <2>7. \A q \in HttpRequests : exchanges'[q].at = "open" => exchanges'[q].done = "none"
    BY <1>4, <1>7 DEF HttpInv, StreamInv
  <2>8. QED
    BY <1>2, <2>3, <2>4, <2>6, <2>7 DEF HttpInv, StreamInv
<1>20. QED
  BY <1>7, <1>12, <1>15, <1>16, <1>17, <1>18, <1>19 DEF HttpInv

(* What the loop does with the request it takes.                           *)
LEMMA WaitsValue ==
  ASSUME NEW e \in Endpoints, NEW kind \in ExchangeKind
  PROVE  /\ Waits(e, kind) \in {"select", "settle", "gate", "inline"}
         /\ e = "streamable" /\ kind = "initialize" => Waits(e, kind) = "gate"
BY DEF Waits, Endpoints, IsBarrier, IsHandshake, Refreshes

LEMMA MalformedTold ==
  ASSUME NEW x \in Exchange, x.kind = "malformed", ~x.answered, x.answers = 0
  PROVE  LET y == Over(Told(x)) IN
         /\ y \in Exchange /\ y.at = "ended" /\ ~y.mayFallBack /\ ~y.answered /\ y.on = x.on /\ y.kind = x.kind
         /\ y.after = x.after /\ y.done = x.done /\ y.posts = x.posts /\ y.answers = 1
<1> DEFINE z == [x EXCEPT !.answers = 1]
           y == Over(z)
<1>1. Told(x) = z
  BY DEF Told, Identified
<1>2. 1 \in 0..3
  OBVIOUS
<1>3. /\ z \in Exchange /\ z.on = x.on /\ z.kind = x.kind /\ z.after = x.after
      /\ z.done = x.done /\ z.posts = x.posts /\ z.answers = 1
  BY <1>2 DEF Exchange
<1> HIDE DEF z
<1>4. /\ y \in Exchange /\ y.at = "ended" /\ ~y.mayFallBack /\ ~y.answered /\ y.on = x.on /\ y.kind = x.kind
      /\ y.after = x.after /\ y.done = x.done /\ y.posts = x.posts /\ y.answers = 1
  BY <1>3, SessionValues DEF Over, Exchange, Steps
<1>5. QED
  BY <1>1, <1>4

Opened(r, e) == [exchanges[r] EXCEPT !.on = e, !.at = "open"]
Taken(r, e, m) ==
  IF exchanges[r].kind = "malformed" THEN Over(Told(Opened(r, e)))
  ELSE [Opened(r, e) EXCEPT !.mayFallBack = m]

TakenAs(r, e, m, y) ==
  /\ y \in Exchange /\ ExchangeInv(y) /\ y.on = e /\ y.kind = exchanges[r].kind
  /\ y.after = exchanges[r].after /\ y.done = "none" /\ y.posts = exchanges[r].posts
  /\ y.posts["streamable"] = 0 /\ ~Untaken(y)
  /\ y.at = (IF y.kind = "malformed" THEN "ended" ELSE "open")
  /\ y.mayFallBack => m = TRUE /\ y.kind = "initialize"

LEMMA TakenKeeps ==
  ASSUME HttpInv, NEW r \in HttpRequests, exchanges[r].at = "queued", NEW e \in Endpoints,
         NEW m \in BOOLEAN, m = TRUE => e = "streamable" /\ exchanges[r].kind = "initialize"
  PROVE  TakenAs(r, e, m, Taken(r, e, m))
<1> DEFINE x == Opened(r, e)
           y == Taken(r, e, m)
<1> DEFINE w == exchanges[r]
<1>1. w \in Exchange /\ ExchangeInv(w)
  BY DEF HttpInv, HttpShape, HttpTypeOK
<1>2. /\ w.on = "streamable" /\ ~w.mayFallBack /\ w.saw = FreshSession /\ ~w.answered
      /\ w.posts["streamable"] = 0 /\ w.posts["legacy"] = 0 /\ w.answers = 0 /\ w.done = "none"
      /\ w.posts \in [Endpoints -> 0..2]
  BY <1>1 DEF ExchangeInv, Untaken, Exchange
<1>3. /\ x \in Exchange /\ x.on = e /\ x.at = "open" /\ x.kind = w.kind /\ x.after = w.after /\ x.done = w.done
      /\ x.posts = w.posts /\ x.answers = w.answers /\ x.answered = w.answered
      /\ x.mayFallBack = w.mayFallBack /\ x.saw = w.saw
  BY <1>1 DEF Exchange, Steps, Opened
<1>8. \/ x.kind = "malformed" /\ y = Over(Told(x))
      \/ x.kind # "malformed" /\ y = [x EXCEPT !.mayFallBack = m]
  BY <1>3 DEF Taken
<1> HIDE DEF x, y
<1>4. \A f \in Endpoints : x.posts[f] = 0
  BY <1>2, <1>3 DEF Endpoints
<1>5. CASE x.kind = "malformed" /\ y = Over(Told(x))
  <2>4. /\ y \in Exchange /\ y.at = "ended" /\ ~y.mayFallBack /\ ~y.answered /\ y.on = e /\ y.kind = x.kind
        /\ y.after = x.after /\ y.done = x.done /\ y.posts = x.posts /\ y.answers = 1
    BY <1>2, <1>3, <1>5, MalformedTold
  <2>5. ExchangeInv(y)
    BY <1>2, <1>3, <1>4, <1>5, <2>4 DEF ExchangeInv, Untaken, IsLive, Endpoints
  <2>6. TakenAs(r, e, m, y)
    BY <1>2, <1>3, <1>4, <1>5, <2>4, <2>5 DEF Untaken, Endpoints, TakenAs
  <2>7. QED
    BY <2>6 DEF y
<1>6. CASE x.kind # "malformed" /\ y = [x EXCEPT !.mayFallBack = m]
  <2>1. /\ y \in Exchange /\ y.at = "open" /\ y.mayFallBack = m /\ y.answered = x.answered /\ y.on = e /\ y.kind = x.kind
        /\ y.after = x.after /\ y.done = x.done /\ y.posts = x.posts /\ y.answers = x.answers
    BY <1>3, <1>6 DEF Exchange
  <2>2. ExchangeInv(y)
    BY <1>2, <1>3, <1>4, <1>6, <2>1 DEF ExchangeInv, Untaken, IsLive, Endpoints
  <2>3. TakenAs(r, e, m, y)
    BY <1>2, <1>3, <1>4, <1>6, <2>1, <2>2 DEF Untaken, Endpoints, TakenAs
  <2>4. QED
    BY <2>3 DEF y
<1>7. QED
  BY <1>5, <1>6, <1>8

LEMMA TakeInv ==
  ASSUME HttpInv, NEW e \in Endpoints, Take(e)
  PROVE  HttpInv'
<1>0. PICK r : r = Head(channels[e])
  OBVIOUS
<1> DEFINE x == [exchanges[r] EXCEPT !.on = e, !.at = "open"]
           m == e = "streamable" /\ Admit(x.kind, Workers(e) = {})
           y == Taken(r, e, m)
<1>1. /\ owners[e].at = "select" /\ channels[e] # <<>> /\ channels' = [channels EXCEPT ![e] = Tail(@)]
      /\ exchanges' = [exchanges EXCEPT ![r] =
           IF x.kind = "malformed" THEN Over(Told(x)) ELSE [x EXCEPT !.mayFallBack = m]]
      /\ UNCHANGED <<sessions, pending, stream, plug, established>>
  BY <1>0 DEF Take, Change
<1>2. x.kind = "malformed" => UNCHANGED <<owners, negotiation>>
  BY <1>0 DEF Take
<1>3. x.kind # "malformed" =>
        /\ negotiation' = IF e = "streamable" /\ x.kind # "discover" THEN "active" ELSE negotiation
        /\ owners' = [owners EXCEPT ![e] =
              IF Waits(e, x.kind) = "select" THEN @ ELSE [@ EXCEPT !.at = Waits(e, x.kind), !.for = r]]
  BY <1>0 DEF Take
<1>4. /\ exchanges \in [HttpRequests -> Exchange] /\ channels \in [Endpoints -> Seq(HttpRequests)]
      /\ owners \in [Endpoints -> Owner] /\ negotiation \in {"probing", "active"}
      /\ "streamable" \in Endpoints /\ "legacy" \in Endpoints
  BY DEF HttpInv, HttpShape, HttpTypeOK, Endpoints
<1>5. r \in HttpRequests /\ exchanges[r].at = "queued"
  <2>1. channels[e] \in Seq(HttpRequests)
    BY <1>4
  <2>2. r = channels[e][1] /\ 1 \in DOMAIN channels[e] /\ channels[e][1] \in HttpRequests
    BY <1>0, <1>1, <2>1, TailOf
  <2>3. QED
    BY <2>2 DEF HttpInv, ChannelsInv
<1>6. m \in BOOLEAN /\ (m = TRUE => e = "streamable" /\ x.kind = "initialize")
  BY DEF Admit
<1>7. x = Opened(r, e) /\ x.kind = exchanges[r].kind
  BY <1>4, <1>5 DEF Exchange, Opened
<1>25. y = IF x.kind = "malformed" THEN Over(Told(x)) ELSE [x EXCEPT !.mayFallBack = m]
  BY <1>7 DEF Taken
<1>8. m = TRUE => negotiation = "probing" /\ Workers(e) = {}
  BY DEF Admit
<1> HIDE DEF m, y, x
<1>9. exchanges' = [exchanges EXCEPT ![r] = y]
  BY <1>1, <1>25
<1>10. /\ y \in Exchange /\ ExchangeInv(y) /\ y.on = e /\ y.kind = exchanges[r].kind /\ x.kind = y.kind
       /\ y.after = exchanges[r].after /\ y.done = "none" /\ y.posts = exchanges[r].posts
       /\ y.posts["streamable"] = 0 /\ ~Untaken(y)
       /\ y.at = (IF y.kind = "malformed" THEN "ended" ELSE "open")
       /\ y.mayFallBack => m = TRUE /\ y.kind = "initialize"
  <2>1. TakenAs(r, e, m, y)
    BY <1>5, <1>6, <1>7, TakenKeeps DEF y
  <2>2. QED
    BY <1>7, <2>1 DEF TakenAs
<1>11. /\ exchanges' \in [HttpRequests -> Exchange] /\ exchanges'[r] = y
       /\ \A q \in HttpRequests \ {r} : exchanges'[q] = exchanges[q]
       /\ \A q \in HttpRequests : ExchangeInv(exchanges'[q])
  BY <1>5, <1>9, <1>10, OthersStay
<1>12. channels' \in [Endpoints -> Seq(HttpRequests)] /\ ChannelsInv'
  BY <1>0, <1>1, <1>11, ChannelTakes
<1>13. y.kind \in ExchangeKind
  BY <1>10 DEF Exchange
<1>14. /\ owners' \in [Endpoints -> Owner] /\ \A f \in Endpoints \ {e} : owners'[f] = owners[f]
       /\ \/ owners'[e] = owners[e]
          \/ owners'[e].at \in {"settle", "gate", "inline"} /\ owners'[e].for = r
       /\ e = "streamable" /\ y.kind = "initialize" => owners'[e].at = "gate" /\ owners'[e].for = r
  <2>1. CASE x.kind = "malformed"
    BY <1>2, <1>4, <1>10, <2>1
  <2>2. CASE x.kind # "malformed"
    <3> DEFINE w == Waits(e, x.kind)
               o == owners[e]
               p == IF w = "select" THEN o ELSE [o EXCEPT !.at = w, !.for = r]
    <3>1. w \in {"select", "settle", "gate", "inline"} /\ (e = "streamable" /\ x.kind = "initialize" => w = "gate")
      BY <1>10, <1>13, WaitsValue
    <3>2. owners' = [owners EXCEPT ![e] = p]
      BY <1>3, <2>2
    <3>3. o \in Owner
      BY <1>4
    <3> HIDE DEF w
    <3>4. /\ p \in Owner /\ (w = "select" => p = o)
          /\ w # "select" => p.at = w /\ p.for = r
      BY <1>5, <3>1, <3>3 DEF Owner
    <3> HIDE DEF p
    <3>5. QED
      BY <1>4, <1>10, <3>1, <3>2, <3>4
  <2>3. QED
    BY <2>1, <2>2
<1>15. /\ negotiation' \in {"probing", "active"} /\ (negotiation = "active" => negotiation' = "active")
       /\ e = "streamable" /\ y.kind \notin {"discover", "malformed"} => negotiation' = "active"
  BY <1>2, <1>3, <1>4, <1>10
<1>16. HttpShape'
  BY <1>1, <1>11, <1>12, <1>14, <1>15 DEF HttpInv, HttpShape, HttpTypeOK
<1>17. e = "streamable" => owners["legacy"].at = "absent"
  BY <1>1 DEF HttpInv, OwnersInv, OwnerLeft
<1>18. e = "legacy" => /\ sessions["streamable"].state = "fresh" /\ negotiation = "active"
                       /\ owners["streamable"].at \in {"forward"} \cup OwnerLeft
  BY <1>1 DEF HttpInv, OwnersInv
<1>19. e = "streamable" \/ e = "legacy"
  BY DEF Endpoints
<1>20. FallBackInv'
  <2>1. \A q \in HttpRequests \ {r} : exchanges'[q] = exchanges[q] /\ (exchanges'[q].on = "legacy" => e = "legacy")
    BY <1>11, <1>17, <1>19 DEF HttpInv, OwnersInv
  <2>2. CASE e = "legacy"
    <3>1. \A q \in HttpRequests : Solo(q) => Solo(q)'
      BY <1>10, <1>11, <2>2 DEF Solo
    <3>2. ~y.mayFallBack /\ y.at # "handed" /\ y.posts["streamable"] # 1
      BY <1>6, <1>10, <2>2
    <3>3. owners'["streamable"] = owners["streamable"] /\ sessions' = sessions
      BY <1>1, <1>4, <1>14, <2>2
    <3>4. QED
      BY <1>11, <3>1, <3>2, <3>3 DEF HttpInv, FallBackInv
  <2>3. CASE e = "streamable"
    <3>1. owners["streamable"].at = "select"
      BY <1>1, <2>3
    <3>2. ASSUME NEW q \in HttpRequests \ {r}
          PROVE  /\ ~(exchanges'[q].mayFallBack /\ exchanges'[q].at \in {"open", "authorizing", "posted"})
                 /\ exchanges'[q].at # "handed" /\ exchanges'[q].on = "streamable"
      <4>1. exchanges'[q] = exchanges[q] /\ exchanges[q].on = "streamable"
        BY <1>11, <1>17, <2>3, <3>2 DEF HttpInv, OwnersInv
      <4>2. exchanges[q].at # "handed"
            /\ ~(exchanges[q].mayFallBack /\ exchanges[q].at \in {"open", "authorizing", "posted"})
        BY <3>1, <3>2 DEF HttpInv, FallBackInv, OwnerLeft
      <4>3. QED
        BY <4>1, <4>2
    <3>3. y.at \in {"open", "ended"} /\ y.on = "streamable"
      BY <1>10, <2>3
    <3>4. ASSUME y.mayFallBack
          PROVE  Solo(r)' /\ owners'["streamable"].at = "gate" /\ owners'["streamable"].for = r
      <4>1. negotiation = "probing" /\ Workers("streamable") = {} /\ y.kind = "initialize"
        BY <1>8, <1>10, <2>3, <3>4
      <4>2. \A q \in HttpRequests : exchanges[q].on = "streamable" => ~IsLive(exchanges[q])
        BY <3>1, <4>1 DEF Workers, Live, IsLive
      <4>3. ASSUME NEW q \in HttpRequests \ {r}, exchanges[q].posts["streamable"] = 1
            PROVE  exchanges[q].kind = "discover" /\ exchanges[q].at = "ended"
        <5>1. exchanges[q] \in Exchange /\ ExchangeInv(exchanges[q])
          BY <4>3 DEF HttpInv, HttpShape, HttpTypeOK
        <5>2. ~Untaken(exchanges[q]) /\ exchanges[q].kind # "malformed"
          BY <4>3, <5>1 DEF ExchangeInv
        <5>3. exchanges[q].kind = "discover"
          BY <4>1, <4>3, <5>2 DEF HttpInv, SessionsInv
        <5>4. ~IsLive(exchanges[q]) /\ exchanges[q].at # "handed"
          BY <2>1, <3>2, <4>2, <4>3
        <5>5. QED
          BY <5>2, <5>3, <5>4 DEF IsLive, Untaken
      <4>4. Solo(r)'
        BY <1>11, <4>2, <4>3 DEF Solo
      <4>5. QED
        BY <1>14, <2>3, <4>1, <4>4
    <3>5. QED
      BY <1>11, <3>2, <3>3, <3>4 DEF FallBackInv
  <2>4. QED
    BY <1>19, <2>2, <2>3
<1>21. OwnersInv'
  <2>1. \A f \in Endpoints :
          \/ owners'[f] = owners[f]
          \/ f = e /\ owners[f].at = "select" /\ owners'[f].at \in {"settle", "gate", "inline"} /\ owners'[f].for = r
    BY <1>1, <1>14
  <2>2. \A f \in Endpoints : owners'[f].at \in {"gate", "settle", "inline"} =>
          /\ owners'[f].for # 0 /\ exchanges'[owners'[f].for].on = f
          /\ ~Untaken(exchanges'[owners'[f].for])
    <3>1. SUFFICES ASSUME NEW f \in Endpoints, owners'[f].at \in {"gate", "settle", "inline"}
                   PROVE  /\ owners'[f].for # 0 /\ exchanges'[owners'[f].for].on = f
                          /\ ~Untaken(exchanges'[owners'[f].for])
      OBVIOUS
    <3>2. CASE f = e /\ owners'[f].for = r
      BY <1>5, <1>10, <1>11, <3>2, HttpAssumption
    <3>3. CASE owners'[f] = owners[f]
      <4>1. owners[f].for # 0 /\ exchanges[owners[f].for].on = f /\ ~Untaken(exchanges[owners[f].for])
        BY <3>1, <3>3 DEF HttpInv, OwnersInv
      <4>2. owners[f].for \in HttpRequests \ {r}
        BY <1>4, <1>5, <4>1 DEF Owner, Untaken
      <4>3. QED
        BY <1>11, <3>3, <4>1, <4>2
    <3>4. QED
      BY <2>1, <3>2, <3>3
  <2>3. \A q \in HttpRequests : IsLive(exchanges'[q]) =>
          owners'[exchanges'[q].on].at \notin {"absent", "stopping", "complete"}
    <3>1. \A f \in Endpoints : owners[f].at \notin {"absent", "stopping", "complete"} =>
            owners'[f].at \notin {"absent", "stopping", "complete"}
      BY <2>1
    <3>2. \A q \in HttpRequests : exchanges[q].on \in Endpoints
      BY <1>4 DEF Exchange
    <3>3. owners[e].at \notin {"absent", "stopping", "complete"}
      BY <1>1
    <3>4. QED
      BY <1>10, <1>11, <3>1, <3>2, <3>3 DEF HttpInv, OwnersInv
  <2>4. owners'["streamable"].at # "absent" /\ owners'["legacy"].at # "connecting"
    BY <1>4, <2>1 DEF HttpInv, OwnersInv
  <2>5. owners'["legacy"].at = "absent" =>
          /\ sessions'["legacy"].state = "fresh"
          /\ \A q \in HttpRequests : exchanges'[q].on = "streamable"
    <3>1. SUFFICES ASSUME owners'["legacy"].at = "absent"
                   PROVE  /\ sessions'["legacy"].state = "fresh"
                          /\ \A q \in HttpRequests : exchanges'[q].on = "streamable"
      OBVIOUS
    <3>2. owners["legacy"].at = "absent"
      BY <1>4, <2>1, <3>1
    <3>3. e = "streamable"
      BY <1>1, <1>19, <3>2
    <3>4. QED
      BY <1>1, <1>10, <1>11, <3>2, <3>3 DEF HttpInv, OwnersInv
  <2>6. owners'["legacy"].at # "absent" =>
          /\ negotiation' = "active"
          /\ owners'["streamable"].at \in {"forward"} \cup OwnerLeft
          /\ \A q \in HttpRequests : exchanges'[q].on = "streamable" => ~IsLive(exchanges'[q])
    <3>1. SUFFICES ASSUME owners'["legacy"].at # "absent"
                   PROVE  /\ negotiation' = "active"
                          /\ owners'["streamable"].at \in {"forward"} \cup OwnerLeft
                          /\ \A q \in HttpRequests : exchanges'[q].on = "streamable" => ~IsLive(exchanges'[q])
      OBVIOUS
    <3>2. e = "legacy" /\ owners["legacy"].at # "absent"
      BY <1>1, <1>4, <1>17, <1>19, <2>1, <3>1
    <3>3. owners'["streamable"] = owners["streamable"]
      BY <1>4, <1>14, <3>2
    <3>4. QED
      BY <1>10, <1>11, <1>15, <1>18, <3>2, <3>3 DEF HttpInv, OwnersInv
  <2>7. owners'["legacy"].at \notin {"absent", "complete"} => sessions'["streamable"].state = "fresh"
    BY <1>1, <1>4, <1>18, <2>1 DEF HttpInv, OwnersInv
  <2>8. owners'["streamable"].at = "complete" => owners'["legacy"].at \in {"absent", "complete"}
    <3>1. SUFFICES ASSUME owners'["streamable"].at = "complete"
                   PROVE  owners'["legacy"].at \in {"absent", "complete"}
      OBVIOUS
    <3>2. owners["streamable"].at = "complete"
      BY <1>4, <2>1, <3>1
    <3>3. owners["legacy"].at \in {"absent", "complete"}
      BY <3>2 DEF HttpInv, OwnersInv
    <3>4. QED
      BY <1>4, <2>1, <3>3
  <2>9. owners'["streamable"].at = "connecting" =>
          owners'["streamable"].for # 0 /\ exchanges'[owners'["streamable"].for].at = "handed"
    <3>1. SUFFICES ASSUME owners'["streamable"].at = "connecting"
                   PROVE  owners'["streamable"].for # 0 /\ exchanges'[owners'["streamable"].for].at = "handed"
      OBVIOUS
    <3>2. owners'["streamable"] = owners["streamable"]
      BY <1>4, <2>1, <3>1
    <3>3. owners["streamable"].for # 0 /\ exchanges[owners["streamable"].for].at = "handed"
      BY <3>1, <3>2 DEF HttpInv, OwnersInv
    <3>4. owners["streamable"].for \in HttpRequests \ {r}
      BY <1>4, <1>5, <3>3 DEF Owner
    <3>5. QED
      BY <1>11, <3>2, <3>3, <3>4
  <2>10. QED
    BY <2>2, <2>3, <2>4, <2>5, <2>6, <2>7, <2>8, <2>9 DEF OwnersInv
<1>22. SessionsInv'
  <2>1. y.after => established /\ sessions[e].state # "fresh"
    <3>1. y.after => established
      BY <1>5, <1>10 DEF HttpInv, SessionsInv
    <3>2. e = "streamable" => sessions["legacy"].state = "fresh"
      BY <1>17 DEF HttpInv, OwnersInv
    <3>3. QED
      BY <1>18, <1>19, <3>1, <3>2 DEF HttpInv, SessionsInv
  <2>2. negotiation' = "probing" =>
          \A q \in HttpRequests : ~Untaken(exchanges'[q]) => exchanges'[q].kind \in {"discover", "malformed"}
    <3>1. SUFFICES ASSUME negotiation' = "probing"
                   PROVE  \A q \in HttpRequests : ~Untaken(exchanges'[q]) => exchanges'[q].kind \in {"discover", "malformed"}
      OBVIOUS
    <3>2. negotiation = "probing" /\ e = "streamable" /\ y.kind \in {"discover", "malformed"}
      BY <1>4, <1>15, <1>18, <1>19, <3>1
    <3>3. QED
      BY <1>11, <3>2 DEF HttpInv, SessionsInv
  <2>3. \A q \in HttpRequests : exchanges'[q].after => established
    BY <1>11, <2>1 DEF HttpInv, SessionsInv
  <2>4. \A q \in HttpRequests : exchanges'[q].after /\ exchanges'[q].at = "open" =>
          sessions[exchanges'[q].on].state # "fresh"
    BY <1>10, <1>11, <2>1 DEF HttpInv, SessionsInv
  <2>5. QED
    BY <1>1, <2>2, <2>3, <2>4 DEF HttpInv, SessionsInv
<1>23. StreamInv'
  <2>1. ~Entry(r)
    BY <1>5 DEF HttpInv, ExchangeInv, Untaken, Entry
  <2>2. \A q \in HttpRequests : Entry(q) => Entry(q)' /\ q # r
    BY <1>11, <2>1 DEF Entry
  <2>3. pending \subseteq HttpRequests /\ stream.owed \subseteq HttpRequests
        /\ stream.delivering \in HttpRequests \cup {0}
    BY DEF HttpInv, HttpShape, HttpTypeOK, Stream
  <2>4. \A q \in pending' : Entry(q)' /\ q \notin stream'.owed /\ q # stream'.delivering
    BY <1>1, <2>2, <2>3 DEF HttpInv, StreamInv
  <2>5. \A q \in stream'.owed : Entry(q)'
    BY <1>1, <2>2, <2>3 DEF HttpInv, StreamInv
  <2>6. \A q \in HttpRequests : stream.delivering = q => Entry(q)'
    BY <2>2, HttpAssumption DEF HttpInv, StreamInv
  <2>7. stream'.delivering # 0 => Entry(stream.delivering)' /\ stream'.at = "open"
    BY <1>1, <2>3, <2>6 DEF HttpInv, StreamInv, Entry
  <2>8. \A q \in HttpRequests : exchanges'[q].at = "open" => exchanges'[q].done = "none"
    BY <1>10, <1>11 DEF HttpInv, StreamInv
  <2>9. QED
    BY <1>1, <2>4, <2>5, <2>7, <2>8 DEF HttpInv, StreamInv
<1>24. QED
  BY <1>11, <1>12, <1>16, <1>20, <1>21, <1>22, <1>23 DEF HttpInv

LEMMA OwnerInv ==
  ASSUME HttpInv, NEW e \in Endpoints, OwnerStep(e)
  PROVE  HttpInv'
<1>1. CASE Deaf(e)
  <2>1. owners[e].at \in Running \ {"connecting"} /\ FALSE \in BOOLEAN
    BY <1>1 DEF Deaf, Running
  <2>2. QED
    BY <1>1, <2>1, LeaveAlone DEF Deaf
<1>2. CASE Shutdown(e)
  <2>1. (e = "streamable") \in BOOLEAN
    OBVIOUS
  <2>2. QED
    BY <1>2, <2>1, LeaveDropping DEF Shutdown
<1>3. QED
  BY <1>1, <1>2, TakeInv, DrainInv, AbortInv DEF OwnerStep

-----------------------------------------------------------------------------
(* The invariant holds from the start, whatever the requests are.          *)

LEMMA HttpStarts ==
  ASSUME NEW workloads, \A kinds \in workloads : \A r \in HttpRequests : kinds[r] \in ExchangeKind,
         HttpInit(workloads)
  PROVE  HttpInv
<1>1. PICK kinds \in workloads : exchanges = [r \in HttpRequests |-> [NewExchange EXCEPT !.kind = kinds[r]]]
  BY DEF HttpInit
<1>2. /\ channels = [e \in Endpoints |-> <<>>]
      /\ owners = [streamable |-> Idle, legacy |-> [Idle EXCEPT !.at = "absent"]]
      /\ sessions = [e \in Endpoints |-> FreshSession]
      /\ negotiation = "probing" /\ pending = {} /\ stream = ClosedStream /\ plug = "in" /\ established = FALSE
  BY DEF HttpInit
<1>3. ASSUME NEW kind \in ExchangeKind, NEW x, x = [NewExchange EXCEPT !.kind = kind]
      PROVE  /\ x \in Exchange /\ x.at = "new" /\ x.on = "streamable" /\ ~x.mayFallBack /\ x.saw = FreshSession
             /\ x.posts["streamable"] = 0 /\ x.posts["legacy"] = 0 /\ x.answers = 0
             /\ ~x.answered /\ x.done = "none" /\ ~x.after
  <2> DEFINE posts == [e \in Endpoints |-> 0]
  <2>1. posts \in [Endpoints -> 0..2] /\ posts["streamable"] = 0 /\ posts["legacy"] = 0
    BY DEF Endpoints
  <2> HIDE DEF posts
  <2>2. x = [kind |-> kind, at |-> "new", on |-> "streamable", mayFallBack |-> FALSE,
             saw |-> FreshSession, posts |-> posts, answers |-> 0,
             answered |-> FALSE, done |-> "none", after |-> FALSE]
    BY <1>3 DEF NewExchange, posts
  <2>3. QED
    BY <2>1, <2>2, SessionValues DEF Exchange, Steps, Endpoints
<1>4. \A r \in HttpRequests : LET x == exchanges[r] IN
        /\ x \in Exchange /\ x.at = "new" /\ x.on = "streamable" /\ ~x.mayFallBack /\ x.saw = FreshSession
        /\ x.posts["streamable"] = 0 /\ x.posts["legacy"] = 0 /\ x.answers = 0
        /\ ~x.answered /\ x.done = "none" /\ ~x.after
  <2>1. SUFFICES ASSUME NEW r \in HttpRequests
                 PROVE  LET x == exchanges[r] IN
                        /\ x \in Exchange /\ x.at = "new" /\ x.on = "streamable" /\ ~x.mayFallBack
                        /\ x.saw = FreshSession
                        /\ x.posts["streamable"] = 0 /\ x.posts["legacy"] = 0 /\ x.answers = 0
                        /\ ~x.answered /\ x.done = "none" /\ ~x.after
    OBVIOUS
  <2>2. kinds[r] \in ExchangeKind /\ exchanges[r] = [NewExchange EXCEPT !.kind = kinds[r]]
    BY <1>1
  <2>3. QED
    BY <1>3, <2>2
<1>5. exchanges \in [HttpRequests -> Exchange]
  BY <1>1, <1>4
<1>6. owners \in [Endpoints -> Owner] /\ owners["streamable"].at = "select" /\ owners["legacy"].at = "absent"
  <2> DEFINE a == Idle
             b == [Idle EXCEPT !.at = "absent"]
  <2>1. a \in Owner /\ b \in Owner /\ a.at = "select" /\ b.at = "absent"
    BY DEF Idle, Owner
  <2>2. owners = [streamable |-> a, legacy |-> b]
    BY <1>2
  <2> HIDE DEF a, b
  <2>3. owners \in [Endpoints -> Owner]
    BY <2>1, <2>2, PairOf
  <2>4. QED
    BY <2>1, <2>2, <2>3
<1>7. ClosedStream \in Stream /\ ClosedStream.owed = {} /\ ClosedStream.delivering = 0
  BY DEF ClosedStream, Stream
<1>8. channels \in [Endpoints -> Seq(HttpRequests)] /\ \A e \in Endpoints : DOMAIN channels[e] = {}
  BY <1>2
<1>9. HttpShape
  BY <1>2, <1>5, <1>6, <1>7, <1>8, SessionValues DEF HttpShape, HttpTypeOK
<1>10. \A r \in HttpRequests : ExchangeInv(exchanges[r])
  BY <1>4 DEF ExchangeInv, Untaken, IsLive, Endpoints
<1>11. FallBackInv
  BY <1>4 DEF FallBackInv
<1>12. OwnersInv
  <2>1. \A e \in Endpoints : owners[e].at \in {"select", "absent"}
    BY <1>6 DEF Endpoints
  <2>2. sessions["legacy"].state = "fresh"
    BY <1>2, SessionValues DEF Endpoints
  <2>3. QED
    BY <1>4, <1>6, <2>1, <2>2 DEF OwnersInv, IsLive
<1>13. SessionsInv /\ StreamInv
  BY <1>2, <1>4, <1>7 DEF SessionsInv, StreamInv, Untaken
<1>14. ChannelsInv
  BY <1>8 DEF ChannelsInv
<1>15. QED
  BY <1>9, <1>10, <1>11, <1>12, <1>13, <1>14 DEF HttpInv

LEMMA HttpStep ==
  ASSUME HttpInv, [HttpNext]_httpVars
  PROVE  HttpInv'
<1>1. CASE UNCHANGED httpVars
  BY <1>1 DEF httpVars, HttpInv, HttpShape, HttpTypeOK, FallBackInv, Solo, OwnersInv, SessionsInv, StreamInv,
              Entry, ChannelsInv
<1>2. CASE RuntimeStep
  BY <1>2, OwnerInv, SettleInv, RetireInv, ConnectInv, ForwardInv, WorkerInv DEF RuntimeStep
<1>3. QED
  BY <1>1, <1>2, SubmitInv, UnplugInv, StreamInvStep DEF HttpNext

LEMMA HttpInvariant ==
  ASSUME NEW workloads, \A kinds \in workloads : \A r \in HttpRequests : kinds[r] \in ExchangeKind
  PROVE  HttpSpec(workloads) => []HttpInv
<1>1. HttpInit(workloads) => HttpInv
  BY HttpStarts
<1>2. HttpInv /\ [HttpNext]_httpVars => HttpInv'
  BY HttpStep
<1>3. QED
  BY <1>1, <1>2, PTL DEF HttpSpec

-----------------------------------------------------------------------------

(* Requests, owners, sessions and the stream stay in their types: counts of *)
(* requests sent and answered never leave their range                      *)
(* (upstream_http_runtime.rs).                                             *)
THEOREM HttpTyped ==
  ASSUME NEW workloads, \A kinds \in workloads : \A r \in HttpRequests : kinds[r] \in ExchangeKind
  PROVE  HttpSpec(workloads) => []HttpTypeOK
<1>1. HttpInv => HttpTypeOK
  BY DEF HttpInv, HttpShape
<1>2. QED
  BY <1>1, HttpInvariant, PTL

(* Nothing is sent twice but the initialize that falls back, a request     *)
(* submitted after the handshake carries its session, and the streamable   *)
(* endpoint's requests are answered once, whatever is submitted and however *)
(* many requests there are (upstream_http_exchange.rs).                    *)
THEOREM HttpSafe ==
  ASSUME NEW workloads, \A kinds \in workloads : \A r \in HttpRequests : kinds[r] \in ExchangeKind
  PROVE  HttpSpec(workloads) => []HttpSafety
<1>1. ASSUME HttpInv PROVE HttpSafety
  <2>1. \A r \in HttpRequests : exchanges[r] \in Exchange /\ ExchangeInv(exchanges[r])
    BY <1>1 DEF HttpInv, HttpShape, HttpTypeOK
  <2>2. \A r \in HttpRequests : exchanges[r].on \in Endpoints
    BY <2>1 DEF Exchange
  <2>3. NothingReplayed
    <3>1. \A r \in HttpRequests, e \in Endpoints : exchanges[r].posts[e] <= 1
      BY <2>1 DEF ExchangeInv
    <3>2. ASSUME NEW r \in HttpRequests, NEW q \in HttpRequests \ {r},
                 exchanges[r].posts["legacy"] = 1, exchanges[r].posts["streamable"] = 1
          PROVE  /\ exchanges[r].kind = "initialize"
                 /\ exchanges[q].posts["streamable"] = 1
                    => exchanges[q].kind = "discover" /\ exchanges[q].at = "ended"
      <4>1. exchanges[r].on = "legacy"
        BY <2>1, <2>2, <3>2 DEF ExchangeInv, Endpoints
      <4>2. QED
        BY <1>1, <3>2, <4>1 DEF HttpInv, FallBackInv, Solo
    <3>3. QED
      BY <3>1, <3>2 DEF NothingReplayed
  <2>4. SessionCarried
    BY <2>1 DEF ExchangeInv, SessionCarried
  <2>5. StreamableAnswersOnce
    BY <2>1 DEF ExchangeInv, StreamableAnswersOnce
  <2>6. QED
    BY <2>3, <2>4, <2>5 DEF HttpSafety
<1>2. HttpInv => HttpSafety
  BY <1>1
<1>3. QED
  BY <1>2, HttpInvariant, PTL

-----------------------------------------------------------------------------
(* What the owner of the generation sees of an upstream.                   *)

(* A step of an upstream as its owner may see it: from stage s to s1, with *)
(* traffic t before and t1 after, and a1 alive after it (UpstreamContract).  *)
KeepsContract(s, s1, t, t1, a, a1) ==
  \/ s1 = s /\ t1 = t /\ a1 = a
  \/ s = "starting" /\ s1 = "running" /\ t1 = t
  \/ s \in {"running", "exited"} /\ s1 \in {s, "exited"} /\ t \subseteq t1
  \/ s \in {"starting", "running", "exited"} /\ s1 = "retired" /\ a1 = {} /\ t1 = t
  \/ s \in {"starting", "running", "exited"} /\ s1 = "unverified" /\ t1 = t
  \/ s \in {"starting", "unverified"} /\ s1 = s /\ t1 = t

(* Until the server has been attached it runs nothing, so a setup that     *)
(* failed and was cleaned up has left nothing.                             *)
SetupIsAlone ==
  child.at \in {"attach", "cleanup"} \/ child.result = "failed" =>
    /\ \A p \in Processes \ {1} : In(p, {"none"})
    /\ child.result = "failed" => In(1, {"gone"})

LEMMA SetupAloneInit ==
  ASSUME StdioInit PROVE SetupIsAlone
BY StdioAssumption DEF StdioInit, SetupIsAlone, In, Unborn

LEMMA SetupAloneStep ==
  ASSUME StdioInv, SetupIsAlone, [StdioNext]_stdioVars
  PROVE  SetupIsAlone'
<1> USE StdioAssumption DEF SetupIsAlone, In
<1>1. 1 \in Processes /\ processes \in [Processes -> Process] /\ child \in ChildOwner
  BY DEF StdioInv, StdioTypeOK
<1>2. CASE UNCHANGED stdioVars \/ WriteLine \/ Receive \/ Pass \/ Reuse
           \/ \E how \in {"closed", "deaf", "shutdown"} : Ask(how)
  <2>1. UNCHANGED <<processes, child>>
    BY <1>2 DEF stdioVars, WriteLine, Receive, Pass, Ask, Reuse
  <2>2. QED
    BY <2>1
<1>3. CASE Fork \/ LeaveGroup \/ Exit \/ Reap
  <2>1. child' = child
    BY <1>3 DEF Fork, LeaveGroup, Exit, Reap
  <2>2. SUFFICES ASSUME child.at \in {"attach", "cleanup"} \/ child.result = "failed"
                 PROVE  SetupIsAlone'
    BY <2>1
  <2>3. \A p \in Processes : ~In(p, {"running"})
    BY <1>1, <2>2 DEF StdioInv, LeaderIsHeld
  <2>4. PICK p \in Processes : /\ In(p, {"dying"})
                               /\ processes' = [processes EXCEPT ![p].state = "zombie"]
    <3>1. Exit
      BY <1>3, <2>2, <2>3 DEF Fork, LeaveGroup, Reap
    <3>2. QED
      BY <2>3, <3>1 DEF Exit
  <2>5. p = 1
    BY <2>2, <2>4
  <2>6. ~In(1, {"gone"})
    BY <2>4, <2>5
  <2>7. QED
    BY <1>1, <2>1, <2>2, <2>4, <2>5, <2>6
<1>4. CASE Attach \/ CleanUpSetup
  <2>1. child.result = "none" /\ child.at \in {"attach", "cleanup"}
    BY <1>4 DEF Attach, CleanUpSetup, StdioInv, OutcomeEndsOwner
  <2>2. \A p \in Processes \ {1} : processes'[p] = processes[p]
    BY <1>1, <1>4 DEF Attach, CleanUpSetup
  <2>3. child'.result = "failed" => processes'[1].state = "gone"
    <3>1. CASE Attach
      BY <1>1, <2>1, <3>1 DEF Attach, ChildOwner
    <3>2. CASE CleanUpSetup
      <4>1. [processes EXCEPT ![1].state = "gone"][1].state = "gone"
        BY <1>1 DEF Process
      <4>2. QED
        BY <1>1, <3>2, <4>1 DEF CleanUpSetup, ChildOwner
    <3>3. QED
      BY <1>4, <3>1, <3>2
  <2>4. QED
    BY <2>1, <2>2, <2>3
<1>5. CASE Interrupt \/ Terminate \/ ReapLeader \/ Confirm \/ Drain
  <2>1. child.result = "none"
    BY <1>5 DEF Interrupt, Terminate, ReapLeader, Confirm, Drain, StdioInv, OutcomeEndsOwner
  <2>2. child'.at \notin {"attach", "cleanup"} /\ child'.result # "failed"
    BY <1>1, <1>5, <2>1 DEF Interrupt, Terminate, ReapLeader, Confirm, Drain, ChildOwner
  <2>3. QED
    BY <2>2
<1>6. CASE DropOwner
  <2>1. child'.at = "dropped" /\ child'.result = child.result
    BY <1>1, <1>6 DEF DropOwner, ChildOwner
  <2>2. child.result = "failed" => processes' = processes
    BY <1>6 DEF DropOwner
  <2>3. QED
    BY <2>1, <2>2
<1>7. QED
  BY <1>2, <1>3, <1>4, <1>5, <1>6 DEF StdioNext, OwnerActs

RetiredGone == StdioStage = "retired" => StdioAlive = {}

LEMMA RetiredIsGone == StdioInv /\ SetupIsAlone => RetiredGone
<1> SUFFICES ASSUME StdioInv, SetupIsAlone, StdioStage = "retired" PROVE StdioAlive = {}
  BY DEF RetiredGone
<1>1. child.result \in {"ok", "failed"}
  BY DEF StdioStage, StdioInv, StdioTypeOK, ChildOwner
<1>2. CASE child.result = "ok"
  BY <1>2 DEF StdioInv, GroupStaysEmpty, StdioAlive
<1>3. CASE child.result = "failed"
  BY <1>3 DEF SetupIsAlone, StdioAlive, Alive, In
<1>4. QED
  BY <1>1, <1>2, <1>3

LEMMA StdioKeepsContract ==
  ASSUME StdioInv, SetupIsAlone, StdioInv', SetupIsAlone', [StdioNext]_stdioVars
  PROVE  KeepsContract(StdioStage, StdioStage', StdioTraffic, StdioTraffic', StdioAlive, StdioAlive')
<1>1. /\ StdioStage = "retired" => StdioAlive = {}
      /\ StdioStage' = "retired" => StdioAlive' = {}
  <2>1. RetiredGone /\ RetiredGone'
    BY RetiredIsGone, PTL
  <2>2. QED
    BY <2>1 DEF RetiredGone
<1>2. child \in ChildOwner /\ child' \in ChildOwner
  BY DEF StdioInv, StdioTypeOK
<1>3. StdioStage \in {"starting", "running", "exited", "retired", "unverified"}
  BY DEF StdioStage
<1> HIDE DEF StdioInv
<1>4. ASSUME UNCHANGED <<child, lines>>
      PROVE  StdioStage' = StdioStage /\ StdioTraffic' = StdioTraffic
  BY <1>4 DEF StdioStage, StdioTraffic
<1>5. CASE UNCHANGED stdioVars \/ WriteLine \/ Receive \/ Fork \/ LeaveGroup \/ Exit \/ Reap \/ Reuse
           \/ \E how \in {"closed", "deaf", "shutdown"} : Ask(how)
  <2>1. child' = child /\ lines'.sent = lines.sent
    BY <1>5 DEF stdioVars, WriteLine, Receive, Fork, LeaveGroup, Exit, Reap, Reuse, Ask,
                StdioInv, StdioTypeOK
  <2>2. StdioStage' = StdioStage /\ StdioTraffic' = StdioTraffic
    BY <2>1 DEF StdioStage, StdioTraffic
  <2>3. QED
    BY <1>1, <1>3, <2>2 DEF KeepsContract
<1>6. CASE Pass
  <2>1. child' = child /\ lines'.sent = lines.sent + 1 /\ lines.sent \in Nat
    BY <1>6 DEF Pass, StdioInv, StdioTypeOK
  <2>2. StdioStage' = StdioStage /\ StdioStage \in {"running", "exited"}
    BY <1>2, <1>6, <2>1 DEF Pass, StdioStage, StdioInv, OutcomeEndsOwner, ChildOwner
  <2>3. StdioTraffic \subseteq StdioTraffic'
    BY <2>1 DEF StdioTraffic
  <2>4. QED
    BY <2>2, <2>3 DEF KeepsContract
<1>7. CASE Interrupt \/ OwnerActs
  <2>1. StdioTraffic' = StdioTraffic
    <3>1. lines' = lines
      BY <1>7 DEF OwnerActs, Attach, CleanUpSetup, Interrupt, Terminate, ReapLeader, Confirm, Drain,
                  DropOwner
    <3>2. QED
      BY <3>1 DEF StdioTraffic
  <2>2. CASE Attach \/ CleanUpSetup
    <3>1. StdioStage = "starting" /\ StdioStage' \in {"starting", "running", "retired", "unverified"}
      BY <1>2, <2>2 DEF Attach, CleanUpSetup, StdioStage, StdioInv, OutcomeEndsOwner, ChildOwner
    <3>2. QED
      BY <1>1, <2>1, <3>1 DEF KeepsContract
  <2>3. CASE Interrupt \/ Terminate \/ ReapLeader \/ Confirm \/ Drain
    <3>1. /\ child.result = "none" /\ child.at \notin {"attach", "cleanup"}
          /\ child'.result \in {"none", "ok", "unverified"}
          /\ child'.at \notin {"attach", "cleanup", "running"}
      <4>1. child.result = "none" /\ child.at \notin {"attach", "cleanup"}
        BY <2>3 DEF Interrupt, Terminate, ReapLeader, Confirm, Drain, StdioInv, OutcomeEndsOwner
      <4>2. CASE Interrupt \/ Drain
        BY <1>2, <4>1, <4>2 DEF Interrupt, Drain, ChildOwner
      <4>3. CASE Terminate
        BY <1>2, <4>1, <4>3 DEF Terminate, ChildOwner
      <4>4. CASE ReapLeader
        BY <1>2, <4>1, <4>4 DEF ReapLeader, ChildOwner
      <4>5. CASE Confirm
        BY <1>2, <4>1, <4>5 DEF Confirm, ChildOwner
      <4>6. QED
        BY <2>3, <4>1, <4>2, <4>3, <4>4, <4>5
    <3>2. /\ StdioStage \in {"running", "exited"}
          /\ StdioStage' \in {"exited", "retired", "unverified"}
      BY <3>1 DEF StdioStage
    <3>3. QED
      BY <1>1, <2>1, <3>2 DEF KeepsContract
  <2>4. CASE DropOwner
    <3>1. StdioStage' = StdioStage /\ StdioStage \in {"exited", "retired", "unverified"}
      BY <1>2, <2>4 DEF DropOwner, StdioStage, ChildOwner
    <3>2. QED
      BY <1>1, <2>1, <3>1 DEF KeepsContract
  <2>5. QED
    BY <1>7, <2>2, <2>3, <2>4 DEF OwnerActs
<1>8. QED
  BY <1>5, <1>6, <1>7 DEF StdioNext

-----------------------------------------------------------------------------
(* What was sent and answered of a request is not taken back.              *)
Grown(x, y) == x.answers <= y.answers /\ \A e \in Endpoints : x.posts[e] <= y.posts[e]
NoneForgotten == \A r \in HttpRequests : Grown(exchanges[r], exchanges'[r])

LEMMA GrownKinds ==
  ASSUME NEW x \in Exchange
  PROVE  /\ Grown(x, x) /\ Grown(x, Over(x)) /\ Grown(x, Told(x)) /\ Grown(x, Over(Told(x)))
<1>1. x.answers \in 0..3 /\ x.posts \in [Endpoints -> 0..2]
  BY DEF Exchange
<1>2. Over(x).answers = x.answers /\ Over(x).posts = x.posts
  BY DEF Over, Exchange
<1>3. Told(x).answers \in {x.answers, x.answers + 1} /\ Told(x).posts = x.posts
  BY <1>1 DEF Told, Exchange
<1>4. Over(Told(x)).answers \in {x.answers, x.answers + 1} /\ Over(Told(x)).posts = x.posts
  <2>1. CASE Told(x) = x
    BY <1>2, <2>1
  <2>2. CASE Told(x) = [x EXCEPT !.answers = x.answers + 1]
    BY <1>1, <2>2 DEF Over, Exchange
  <2>3. QED
    BY <2>1, <2>2 DEF Told
<1>5. QED
  BY <1>1, <1>2, <1>3, <1>4 DEF Grown

LEMMA OneGrows ==
  ASSUME HttpShape, NEW r \in HttpRequests, NEW y, Change(r, y), Grown(exchanges[r], y)
  PROVE  NoneForgotten
<1>1. exchanges \in [HttpRequests -> Exchange]
  BY DEF HttpShape, HttpTypeOK
<1>2. \A q \in HttpRequests : exchanges'[q] = IF q = r THEN y ELSE exchanges[q]
  BY <1>1 DEF Change
<1>3. QED
  BY <1>1, <1>2, GrownKinds DEF NoneForgotten

LEMMA SomeOver ==
  ASSUME HttpShape,
         \A r \in HttpRequests : exchanges'[r] \in {exchanges[r], Over(exchanges[r])}
  PROVE  NoneForgotten
BY GrownKinds DEF NoneForgotten, HttpShape, HttpTypeOK

(* A field of bookkeeping says nothing of what was sent or answered.       *)
LEMMA WorkerGrows ==
  ASSUME HttpShape, NEW r \in HttpRequests, WorkerStep(r)
  PROVE  NoneForgotten
<1> DEFINE x == exchanges[r]
<1>1. /\ x \in Exchange /\ x.answers \in 0..3 /\ x.posts \in [Endpoints -> 0..2]
      /\ x.on \in Endpoints
  BY DEF HttpShape, HttpTypeOK, Exchange
<1>2. ASSUME NEW at, Step(r, at) PROVE NoneForgotten
  <2>1. Grown(x, [x EXCEPT !.at = at])
    BY <1>1 DEF Grown, Exchange
  <2>2. QED
    BY <1>2, <2>1, OneGrows DEF Step
<1>3. CASE Open(r)
  <2>1. PICK at : Change(r, [x EXCEPT !.saw = sessions[x.on], !.at = at])
    BY <1>1, <1>3 DEF Open
  <2>2. Grown(x, [x EXCEPT !.saw = sessions[x.on], !.at = at])
    BY <1>1 DEF Grown, Exchange
  <2>3. QED
    BY <2>1, <2>2, OneGrows
<1>4. CASE Post(r)
  <2> DEFINE y == [x EXCEPT !.at = "posted", !.posts[x.on] = @ + 1]
  <2>1. y.answers = x.answers /\ y.posts = [x.posts EXCEPT ![x.on] = @ + 1]
    BY <1>1 DEF Exchange
  <2>2. Grown(x, y)
    BY <1>1, <2>1 DEF Grown
  <2>3. QED
    BY <1>2, <1>4, <2>2, OneGrows DEF Post
<1>5. CASE Respond(r)
  BY <1>1, <1>2, <1>5, OneGrows, GrownKinds DEF Respond
<1>6. CASE Deliver(r)
  <2> DEFINE y == [x EXCEPT !.answers = @ + 1, !.answered = TRUE]
  <2>1. y.answers = x.answers + 1 /\ y.posts = x.posts
    BY <1>1 DEF Exchange
  <2>2. Grown(x, y)
    BY <1>1, <2>1 DEF Grown
  <2>3. QED
    BY <1>6, <2>2, OneGrows DEF Deliver
<1>7. CASE EndOfBody(r)
  BY <1>1, <1>2, <1>7, OneGrows, GrownKinds DEF EndOfBody
<1>8. CASE Completed(r)
  BY <1>1, <1>2, <1>8, OneGrows, GrownKinds DEF Completed
<1>9. CASE Timeout(r)
  BY <1>2, <1>9 DEF Timeout
<1>10. CASE Fail(r)
  BY <1>1, <1>10, OneGrows, GrownKinds DEF Fail
<1>11. QED
  BY <1>3, <1>4, <1>5, <1>6, <1>7, <1>8, <1>9, <1>10 DEF WorkerStep

(* The event stream answers a request.                                     *)
LEMMA StreamGrows ==
  ASSUME HttpShape, StreamStep
  PROVE  NoneForgotten
<1>1. /\ exchanges \in [HttpRequests -> Exchange]
      /\ \A r \in HttpRequests : /\ exchanges[r].answers \in 0..3
                                 /\ exchanges[r].posts \in [Endpoints -> 0..2]
  BY DEF HttpShape, HttpTypeOK, Exchange
<1>2. ASSUME exchanges' = exchanges PROVE NoneForgotten
  BY <1>1, <1>2, GrownKinds DEF NoneForgotten
<1>3. ASSUME NEW r \in HttpRequests, NEW flag, NEW done,
             \/ Change(r, [exchanges[r] EXCEPT !.answers = @ + 1, !.answered = flag, !.done = done])
             \/ Change(r, [exchanges[r] EXCEPT !.answers = @ + 1, !.done = done, !.answered = flag])
             \/ Change(r, [exchanges[r] EXCEPT !.answers = @ + 1, !.done = done])
             \/ Change(r, [exchanges[r] EXCEPT !.done = done])
      PROVE  NoneForgotten
  <2> DEFINE x == exchanges[r]
  <2>0. x \in Exchange /\ x.answers \in 0..3 /\ x.posts \in [Endpoints -> 0..2]
    BY <1>1
  <2>1. Grown(x, [x EXCEPT !.answers = @ + 1, !.answered = flag, !.done = done])
    BY <2>0 DEF Grown, Exchange
  <2>2. Grown(x, [x EXCEPT !.answers = @ + 1, !.done = done, !.answered = flag])
    BY <2>0 DEF Grown, Exchange
  <2>3. Grown(x, [x EXCEPT !.answers = @ + 1, !.done = done])
    BY <2>0 DEF Grown, Exchange
  <2>4. Grown(x, [x EXCEPT !.done = done])
    BY <2>0 DEF Grown, Exchange
  <2>5. QED
    BY <1>3, <2>1, <2>2, <2>3, <2>4, OneGrows
<1>4. CASE StreamTake
  BY <1>2, <1>4 DEF StreamTake
<1>5. CASE StreamSend
  <2>1. stream.delivering \in HttpRequests
    BY <1>5 DEF StreamSend, HttpShape, HttpTypeOK, Stream
  <2>2. QED
    BY <1>3, <1>5, <2>1 DEF StreamSend
<1>6. CASE StreamLate
  BY <1>3, <1>6 DEF StreamLate
<1>7. CASE StreamBreaks
  <2>1. CASE exchanges' = exchanges
    BY <1>2, <2>1
  <2>2. CASE \E r \in stream.owed :
               Change(r, [exchanges[r] EXCEPT !.answers = @ + 1, !.done = "error",
                                              !.answered = exchanges[r].at # "ended"])
    <3>1. stream.owed \subseteq HttpRequests
      BY DEF HttpShape, HttpTypeOK, Stream
    <3>2. QED
      BY <1>3, <2>2, <3>1
  <2>3. CASE \A r \in HttpRequests : exchanges'[r] \in {exchanges[r], Over(exchanges[r])}
    BY <2>3, SomeOver
  <2>4. QED
    BY <1>7, <2>1, <2>2, <2>3 DEF StreamBreaks
<1>8. QED
  BY <1>4, <1>5, <1>6, <1>7 DEF StreamStep

LEMMA TakeGrows ==
  ASSUME HttpInv, NEW e \in Endpoints, Take(e)
  PROVE  NoneForgotten
<1> DEFINE r == Head(channels[e])
           x == [exchanges[r] EXCEPT !.on = e, !.at = "open"]
<1>1. r \in HttpRequests
  BY DEF Take, HttpInv, HttpShape, HttpTypeOK
<1>2. /\ exchanges[r] \in Exchange /\ exchanges[r].answers \in 0..3
      /\ exchanges[r].posts \in [Endpoints -> 0..2]
  BY <1>1 DEF HttpInv, HttpShape, HttpTypeOK, Exchange
<1>3. x \in Exchange /\ x.answers = exchanges[r].answers /\ x.posts = exchanges[r].posts
  BY <1>2 DEF Exchange, Steps
<1>4. Grown(x, Over(Told(x))) /\ Grown(x, Told(x))
  BY <1>3, GrownKinds
<1>5. Grown(exchanges[r], Over(Told(x)))
  BY <1>3, <1>4 DEF Grown
<1>6. ASSUME NEW flag PROVE Grown(exchanges[r], [x EXCEPT !.mayFallBack = flag])
  <2>1. /\ [x EXCEPT !.mayFallBack = flag].answers = x.answers
        /\ [x EXCEPT !.mayFallBack = flag].posts = x.posts
    BY <1>3 DEF Exchange
  <2>2. QED
    BY <1>2, <1>3, <2>1 DEF Grown
<1>7. \/ Change(r, Over(Told(x)))
      \/ Change(r, [x EXCEPT !.mayFallBack = e = "streamable" /\ Admit(x.kind, Workers(e) = {})])
  BY DEF Take
<1> HIDE DEF r, x
<1>8. QED
  BY <1>1, <1>5, <1>6, <1>7, OneGrows DEF HttpInv

LEMMA OwnerGrows ==
  ASSUME HttpInv, HttpNext, ~StreamStep, \A r \in HttpRequests : ~WorkerStep(r)
  PROVE  NoneForgotten
<1>1. HttpShape /\ exchanges \in [HttpRequests -> Exchange]
  BY DEF HttpInv, HttpShape, HttpTypeOK
<1>2. ASSUME exchanges' = exchanges PROVE NoneForgotten
  BY <1>1, <1>2, SomeOver
<1>3. CASE Submit
  <2>1. PICK r \in HttpRequests : Change(r, [exchanges[r] EXCEPT !.at = "queued", !.after = established])
    BY <1>3 DEF Submit
  <2>2. exchanges[r] \in Exchange /\ exchanges[r].answers \in 0..3 /\ exchanges[r].posts \in [Endpoints -> 0..2]
    BY <1>1 DEF Exchange
  <2>3. Grown(exchanges[r], [exchanges[r] EXCEPT !.at = "queued", !.after = established])
    BY <2>2 DEF Grown, Exchange
  <2>4. QED
    BY <1>1, <2>1, <2>3, OneGrows
<1>4. CASE Connect
  <2> DEFINE r == owners["streamable"].for
             y == [exchanges[r] EXCEPT !.at = "open", !.on = "legacy", !.mayFallBack = FALSE,
                                       !.saw = FreshSession]
  <2>1. r \in HttpRequests
    BY <1>1, <1>4 DEF Connect, HttpInv, OwnersInv, HttpShape, HttpTypeOK, Owner, Endpoints
  <2>2. exchanges[r] \in Exchange /\ exchanges[r].answers \in 0..3 /\ exchanges[r].posts \in [Endpoints -> 0..2]
    BY <1>1, <2>1 DEF Exchange
  <2>3. Grown(exchanges[r], y)
    BY <2>2 DEF Grown, Exchange
  <2>4. Change(r, y) \/ Change(r, Over(Told(exchanges[r])))
    BY <1>4 DEF Connect
  <2>5. QED
    BY <1>1, <2>1, <2>2, <2>3, <2>4, OneGrows, GrownKinds
<1>5. ASSUME NEW e \in Endpoints, Shutdown(e) \/ Abort(e) PROVE NoneForgotten
  <2>1. CASE Shutdown(e)
    BY <1>1, <2>1, SomeOver DEF Shutdown
  <2>2. CASE Abort(e)
    BY <1>1, <1>2, <2>2, OneGrows, GrownKinds DEF Abort, Workers
  <2>3. QED
    BY <1>5, <2>1, <2>2
<1>6. CASE Unplug \/ Settle \/ Retire \/ Forward
  BY <1>2, <1>6 DEF Unplug, Settle, Retire, Forward
<1>7. ASSUME NEW e \in Endpoints, DrainExchanges(e) \/ Deaf(e) PROVE NoneForgotten
  BY <1>2, <1>7 DEF DrainExchanges, Deaf
<1>8. QED
  BY <1>3, <1>4, <1>5, <1>6, <1>7, TakeGrows DEF HttpNext, RuntimeStep, OwnerStep

LEMMA HttpGrows ==
  ASSUME HttpInv, HttpNext
  PROVE  NoneForgotten
BY WorkerGrows, StreamGrows, OwnerGrows DEF HttpInv

-----------------------------------------------------------------------------
(* How far the first owner is: once it has left its loop it goes on to its *)
(* end, and it ends by a step of its own that changes no request.          *)
OwnerGoesOn ==
  /\ owners["streamable"].at \in OwnerLeft => owners'["streamable"].at \in OwnerLeft
  /\ owners'["streamable"].at = "complete" =>
       /\ owners["streamable"].at \in {"stopping", "complete"}
       /\ exchanges' = exchanges
  /\ owners["streamable"].at = "complete" => owners'["streamable"].at = "complete"

LEMMA LeftAlone ==
  ASSUME HttpShape, owners' = owners, owners["streamable"].at # "complete"
  PROVE  OwnerGoesOn
BY DEF OwnerGoesOn

LEMMA LeftByResume ==
  ASSUME HttpShape, NEW r \in HttpRequests, owners["streamable"].at # "complete",
         Resume(r) \/ owners' = owners
  PROVE  OwnerGoesOn
<1>1. CASE Resume(r)
  <2>1. owners'["streamable"].at \in {owners["streamable"].at, "select"}
    BY <1>1 DEF Resume, Endpoints, Idle
  <2>2. owners["streamable"].at \in OwnerLeft => owners'["streamable"] = owners["streamable"]
    BY <1>1 DEF Resume, Endpoints, OwnerLeft
  <2>3. QED
    BY <2>1, <2>2 DEF OwnerGoesOn
<1>2. QED
  BY <1>1, LeftAlone

LEMMA LeftByLeaving ==
  ASSUME HttpShape, NEW e \in Endpoints, NEW deliberate, owners["streamable"].at # "complete",
         Leave(e, deliberate)
  PROVE  OwnerGoesOn
<1>1. \/ owners'["streamable"].at = "aborting"
      \/ owners'["streamable"] = owners["streamable"]
  BY DEF Leave, HttpShape, HttpTypeOK, Endpoints
<1>2. QED
  BY <1>1 DEF OwnerGoesOn, OwnerLeft

LEMMA LeftByWorker ==
  ASSUME HttpInv, NEW r \in HttpRequests, owners["streamable"].at # "complete", WorkerStep(r)
  PROVE  OwnerGoesOn
<1>1. HttpShape
  BY DEF HttpInv
<1>2. CASE Respond(r)
  <2>1. CASE Resume(r) \/ owners' = owners
    BY <1>1, <2>1, LeftByResume
  <2>2. CASE /\ owners["streamable"].at = "gate"
             /\ owners' = [owners EXCEPT !["streamable"].at = "connecting"]
    <3>1. owners'["streamable"].at = "connecting"
      BY <1>1, <2>2 DEF HttpShape, HttpTypeOK, Endpoints, Owner
    <3>2. QED
      BY <2>2, <3>1 DEF OwnerGoesOn, OwnerLeft
  <2>3. QED
    BY <1>2, <2>1, <2>2 DEF Respond
<1>3. CASE ~Respond(r)
  <2>1. Resume(r) \/ owners' = owners
    BY <1>3 DEF WorkerStep, Open, Post, Deliver, EndOfBody, Completed, Timeout, Fail
  <2>2. QED
    BY <1>1, <2>1, LeftByResume
<1>4. QED
  BY <1>2, <1>3

LEMMA LeftByStream ==
  ASSUME HttpInv, owners["streamable"].at # "complete", StreamStep
  PROVE  OwnerGoesOn
<1>1. owners' = owners \/ Leave("legacy", FALSE)
  BY DEF StreamStep, StreamTake, StreamSend, StreamLate, StreamBreaks
<1>2. QED
  BY <1>1, LeftAlone, LeftByLeaving DEF HttpInv, Endpoints

LEMMA LeftByOwner ==
  ASSUME HttpInv, NEW e \in Endpoints, owners["streamable"].at # "complete", OwnerStep(e)
  PROVE  OwnerGoesOn
<1>1. HttpShape /\ owners \in [Endpoints -> Owner]
  BY DEF HttpInv, HttpShape, HttpTypeOK
<1>2. CASE Take(e)
  <2>1. \/ owners'["streamable"] = owners["streamable"]
        \/ /\ owners["streamable"].at = "select"
           /\ owners'["streamable"].at \in {"settle", "gate", "inline"}
    <3> DEFINE k == [exchanges[Head(channels[e])] EXCEPT !.on = e, !.at = "open"].kind
    <3>1. k \in ExchangeKind
      <4>1. exchanges[Head(channels[e])] \in Exchange
        BY <1>2 DEF Take, HttpInv, HttpShape, HttpTypeOK
      <4>2. QED
        BY <4>1 DEF Exchange
    <3>2. \/ owners' = owners
          \/ owners' = [owners EXCEPT ![e] =
               IF Waits(e, k) = "select" THEN @
               ELSE [@ EXCEPT !.at = Waits(e, k), !.for = Head(channels[e])]]
      BY <1>2 DEF Take
    <3>3. Waits(e, k) \in {"select", "settle", "gate", "inline"}
      BY <3>1, WaitsValue
    <3> HIDE DEF k
    <3>4. owners["streamable"].at = "select" \/ e # "streamable"
      BY <1>2 DEF Take
    <3>5. [owners[e] EXCEPT !.at = Waits(e, k), !.for = Head(channels[e])].at = Waits(e, k)
      BY <1>1 DEF Owner
    <3>6. QED
      BY <1>1, <3>2, <3>3, <3>4, <3>5 DEF Endpoints
  <2>2. QED
    BY <2>1 DEF OwnerGoesOn, OwnerLeft
<1>3. CASE DrainExchanges(e)
  <2>1. \/ Leave(e, FALSE)
        \/ /\ owners[e].at = "select" /\ owners' = [owners EXCEPT ![e].at = "drain"]
    BY <1>3 DEF DrainExchanges
  <2>2. CASE owners[e].at = "select" /\ owners' = [owners EXCEPT ![e].at = "drain"]
    <3>1. [owners[e] EXCEPT !.at = "drain"].at = "drain"
      BY <1>1 DEF Owner
    <3>2. \/ owners'["streamable"] = owners["streamable"]
          \/ owners["streamable"].at = "select" /\ owners'["streamable"].at = "drain"
      BY <1>1, <2>2, <3>1 DEF Endpoints
    <3>3. QED
      BY <3>2 DEF OwnerGoesOn, OwnerLeft
  <2>3. QED
    BY <1>1, <2>1, <2>2, LeftByLeaving
<1>4. CASE Deaf(e) \/ Shutdown(e)
  BY <1>1, <1>4, LeftByLeaving DEF Deaf, Shutdown
<1>5. CASE Abort(e)
  <2>1. CASE owners' = owners
    BY <1>1, <2>1, LeftAlone
  <2>2. CASE /\ owners[e].at = "aborting"
             /\ owners' = [owners EXCEPT ![e].at = IF e = "streamable" THEN "stopping" ELSE "complete"]
    <3>1. \A at : [owners[e] EXCEPT !.at = at].at = at
      BY <1>1 DEF Owner
    <3>2. \/ owners'["streamable"] = owners["streamable"]
          \/ owners'["streamable"].at = "stopping"
      BY <1>1, <2>2, <3>1 DEF Endpoints
    <3>3. QED
      BY <3>2 DEF OwnerGoesOn, OwnerLeft
  <2>3. QED
    BY <1>5, <2>1, <2>2 DEF Abort
<1>6. QED
  BY <1>2, <1>3, <1>4, <1>5 DEF OwnerStep

LEMMA LeftByItself ==
  ASSUME HttpInv, owners["streamable"].at # "complete",
         Settle \/ Retire \/ Connect \/ Forward \/ Submit \/ Unplug
  PROVE  OwnerGoesOn
<1>1. HttpShape /\ owners \in [Endpoints -> Owner]
  BY DEF HttpInv, HttpShape, HttpTypeOK
<1>2. CASE Submit \/ Unplug
  BY <1>1, <1>2, LeftAlone DEF Submit, Unplug
<1>3. CASE Settle
  <2>1. owners'["streamable"] = owners["streamable"]
    BY <1>1, <1>3 DEF Settle, Endpoints
  <2>2. QED
    BY <2>1 DEF OwnerGoesOn
<1>4. CASE Retire
  <2>1. owners'["streamable"].at = "complete" /\ owners["streamable"].at = "stopping"
    BY <1>1, <1>4 DEF Retire, Endpoints, Owner
  <2>2. QED
    BY <1>4, <2>1 DEF OwnerGoesOn, OwnerLeft, Retire
<1>5. CASE Connect
  <2>1. \/ Leave("streamable", FALSE)
        \/ owners'["streamable"].at = "forward"
    <3>1. ASSUME NEW a, NEW b, owners' = [streamable |-> a, legacy |-> b]
          PROVE  owners'["streamable"] = a
      BY <3>1
    <3>2. [Idle EXCEPT !.at = "forward"].at = "forward"
      BY DEF Idle
    <3>3. QED
      BY <1>5, <3>1, <3>2 DEF Connect
  <2>2. owners["streamable"].at = "connecting"
    BY <1>5 DEF Connect
  <2>3. QED
    BY <1>1, <2>1, <2>2, LeftByLeaving DEF OwnerGoesOn, OwnerLeft, Endpoints
<1>6. CASE Forward
  BY <1>1, <1>6, LeftAlone, LeftByLeaving DEF Forward, Endpoints
<1>7. QED
  BY <1>2, <1>3, <1>4, <1>5, <1>6

(* After the end nothing changes but what the user has done.               *)
NoneIsLeft ==
  owners["streamable"].at = "complete" =>
    \A r \in HttpRequests : exchanges[r].at \in {"new", "queued", "handed", "ended"}

LEMMA NoneLeft == HttpInv => NoneIsLeft
<1> SUFFICES ASSUME HttpInv, owners["streamable"].at = "complete", NEW r \in HttpRequests
             PROVE  exchanges[r].at \in {"new", "queued", "handed", "ended"}
  BY DEF NoneIsLeft
<1>1. owners["legacy"].at \in {"absent", "complete"}
  BY DEF HttpInv, OwnersInv
<1>2. \A e \in Endpoints : owners[e].at \in {"absent", "complete"}
  BY <1>1 DEF Endpoints
<1>3. exchanges[r].on \in Endpoints
  BY DEF HttpInv, HttpShape, HttpTypeOK, Exchange
<1>4. QED
  BY <1>2, <1>3 DEF HttpInv, OwnersInv, IsLive

LEMMA EndIsTheEnd ==
  ASSUME HttpInv, HttpNext, owners["streamable"].at = "complete"
  PROVE  exchanges' = exchanges /\ owners' = owners
<1>1. owners["legacy"].at \in {"absent", "complete"}
  BY DEF HttpInv, OwnersInv
<1>2. \A e \in Endpoints : owners[e].at \in {"absent", "complete"}
  BY <1>1 DEF Endpoints
<1>3. ASSUME NEW e \in Endpoints PROVE ~OwnerStep(e)
  BY <1>2, <1>3 DEF OwnerStep, Take, DrainExchanges, Deaf, Shutdown, Abort, Running
<1>4. ~Settle /\ ~Retire /\ ~Connect /\ ~Forward
  BY <1>1 DEF Settle, Retire, Connect, Forward
<1>5. ASSUME NEW r \in HttpRequests PROVE ~WorkerStep(r)
  BY NoneLeft, <1>5 DEF NoneIsLeft, WorkerStep, Open, Post, Respond, Deliver, EndOfBody, Completed, Timeout, Fail
<1>6. ~StreamStep
  BY <1>1 DEF StreamStep, StreamTake, StreamSend, StreamLate, StreamBreaks, Streaming, Running
<1>7. ~Submit
  BY DEF Submit
<1>8. CASE Unplug
  BY <1>8 DEF Unplug
<1>9. QED
  BY <1>3, <1>4, <1>5, <1>6, <1>7, <1>8 DEF HttpNext, RuntimeStep

(* Every step of the HTTP upstream is one its owner may see.               *)
LEMMA HttpKeepsContract ==
  ASSUME HttpInv, HttpInv', [HttpNext]_httpVars
  PROVE  KeepsContract(HttpStage, HttpStage', HttpTraffic, HttpTraffic', HttpAlive, HttpAlive')
<1>1. ASSUME exchanges' = exchanges, owners' = owners
      PROVE  KeepsContract(HttpStage, HttpStage', HttpTraffic, HttpTraffic', HttpAlive, HttpAlive')
  BY <1>1 DEF KeepsContract, HttpStage, HttpTraffic, HttpAlive, Live
<1>2. CASE UNCHANGED httpVars
  BY <1>1, <1>2 DEF httpVars
<1>3. CASE HttpNext /\ owners["streamable"].at = "complete"
  BY <1>1, <1>3, EndIsTheEnd
<1>4. CASE HttpNext /\ owners["streamable"].at # "complete"
  <2>1. OwnerGoesOn
    BY <1>4, LeftByWorker, LeftByStream, LeftByOwner, LeftByItself DEF HttpNext, RuntimeStep
  <2>2. HttpStage \in {"running", "exited"}
    BY <1>4 DEF HttpStage
  <2>3. CASE owners'["streamable"].at = "complete"
    <3>1. HttpStage' = "retired"
      BY <2>3 DEF HttpStage
    <3>2. HttpTraffic' = HttpTraffic
      BY <2>1, <2>3 DEF OwnerGoesOn, HttpTraffic
    <3>3. HttpAlive' = {}
      <4>1. NoneIsLeft'
        BY NoneLeft, PTL
      <4>2. QED
        BY <2>3, <4>1 DEF NoneIsLeft, HttpAlive, Live
    <3>4. QED
      BY <2>2, <3>1, <3>2, <3>3 DEF KeepsContract
  <2>4. CASE owners'["streamable"].at # "complete"
    <3>1. HttpStage' \in {HttpStage, "exited"}
      BY <1>4, <2>1, <2>4 DEF OwnerGoesOn, HttpStage, OwnerLeft
    <3>2. NoneForgotten
      BY <1>4, HttpGrows
    <3>3. HttpTraffic \subseteq HttpTraffic'
      <4>1. ASSUME NEW r \in HttpRequests, NEW e \in Endpoints \cup {"answer"}, NEW n \in 1..3,
                   n <= IF e = "answer" THEN exchanges[r].answers ELSE exchanges[r].posts[e]
            PROVE  n <= IF e = "answer" THEN exchanges'[r].answers ELSE exchanges'[r].posts[e]
        <5>1. Grown(exchanges[r], exchanges'[r])
          BY <3>2 DEF NoneForgotten
        <5>2. /\ exchanges[r].answers \in 0..3 /\ exchanges[r].posts \in [Endpoints -> 0..2]
              /\ exchanges'[r].answers \in 0..3 /\ exchanges'[r].posts \in [Endpoints -> 0..2]
          <6>1. exchanges[r] \in Exchange /\ exchanges'[r] \in Exchange
            BY DEF HttpInv, HttpShape, HttpTypeOK
          <6>2. QED
            BY <6>1 DEF Exchange
        <5>3. CASE e = "answer"
          BY <4>1, <5>1, <5>2, <5>3 DEF Grown
        <5>4. CASE e \in Endpoints /\ e # "answer"
          BY <4>1, <5>1, <5>2, <5>4 DEF Grown
        <5>5. QED
          BY <5>3, <5>4
      <4>2. ASSUME NEW t \in HttpTraffic PROVE t \in HttpTraffic'
        BY <4>1, <4>2 DEF HttpTraffic
      <4>3. QED
        BY <4>2
    <3>4. QED
      BY <2>2, <3>1, <3>3 DEF KeepsContract
  <2>5. QED
    BY <2>3, <2>4
<1>5. QED
  BY <1>2, <1>3, <1>4

(* Once the upstream has retired, no step changes a request: nothing is    *)
(* sent and nothing is answered any more (upstream_http.rs).               *)
THEOREM RetiredQuiet ==
  ASSUME NEW workloads, \A kinds \in workloads : \A r \in HttpRequests : kinds[r] \in ExchangeKind
  PROVE  HttpSpec(workloads) => RetiredIsQuiet
<1> DEFINE Quiet ==
      owners["streamable"].at = "complete"
      => /\ \A r \in HttpRequests : ~Live(r) \/ exchanges'[r] = exchanges[r]
         /\ \A r \in HttpRequests : exchanges'[r].posts = exchanges[r].posts
                                    /\ exchanges'[r].answers = exchanges[r].answers
<1>1. HttpInv /\ [HttpNext]_httpVars => [Quiet]_httpVars
  BY EndIsTheEnd
<1>2. QED
  BY <1>1, HttpInvariant, PTL DEF HttpSpec, RetiredIsQuiet
=============================================================================
