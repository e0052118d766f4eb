-------------------------- MODULE SocketProxyProofs --------------------------
(***************************************************************************)
(* What holds of SocketProxy for every number of calls, generations and    *)
(* losses and for every set of failures: proofs of its type invariant, of  *)
(* its safety properties, and that it implements UpstreamOwnership and     *)
(* UpstreamContract.                                                       *)
(***************************************************************************)
EXTENDS SocketProxy, TLAPS

-----------------------------------------------------------------------------
(* The inductive invariant.                                                *)

Active(g) == gen[g].owner \notin {"none", "done"}

\* No owner task is left, every upstream is gone, no retirement has failed.
Quiet ==
  \A g \in Generations :
    ~Active(g) /\ gen[g].upstream \in {"none", "retired"} /\ gen[g].retirement # "err"

\* What the place of an owner tells about its upstream and its completion.
OwnerState(r) ==
  CASE r.owner = "none" ->
         r.upstream = "none" /\ r.retirement = "none" /\ r.completion \in {"none", "ok"}
    [] r.owner = "setup" ->
         r.upstream = "starting" /\ r.retirement = "none" /\ r.completion = "none"
    [] r.owner = "closing" ->
         /\ r.completion = "none"
         /\ \/ r.upstream \in {"running", "exited"} /\ r.retirement = "none"
            \/ r.upstream = "retired" /\ r.retirement = "ok"
            \/ r.upstream = "unverified" /\ r.retirement = "err"
    [] r.owner = "joining" ->
         /\ r.completion = "none"
         /\ \/ r.upstream = "retired" /\ r.retirement = "ok"
            \/ r.upstream = "unverified" /\ r.retirement = "err"
    [] r.owner \in {"retired", "done"} ->
         /\ r.completion = IF r.owner = "done" THEN r.retirement ELSE "none"
         /\ \/ r.upstream = "retired" /\ r.retirement \in {"ok", "err"}
            \/ r.upstream = "unverified" /\ r.retirement = "err"
    [] OTHER ->
         r.upstream \in {"running", "exited"} /\ r.retirement = "none" /\ r.completion = "none"

\* Later generations are untouched, and earlier ones left nothing behind.
Succession ==
  \A g \in Generations :
    /\ g > published => gen[g].owner = "none" /\ gen[g].completion = "none"
    /\ g < published => /\ ~Active(g)
                        /\ gen[g].upstream \in {"none", "retired"}
                        /\ gen[g].retirement # "err"

Signalling(t) == task[t].at \in {"mark", "shut", "wake"}

\* At a place, or signalling on the way to it.
Toward(t, place) == At(t, place) \/ (Signalling(t) /\ task[t].then = place)

Locked == {"recover", "stop", "retire", "stopped", "start", "previous", "publish", "bind",
           "recheck", "spawn", "startup"}

Holds(t) == task[t].at \in Locked \/ (Signalling(t) /\ task[t].then # "locking")

\* Between the publication of a generation and the spawn of its owner.
Launching(t) == At(t, "bind") \/ At(t, "recheck") \/ Toward(t, "spawn")

TaskState(t) ==
  /\ Signalling(t) => task[t].saw # 0 /\ task[t].then \in {"locking", "retire", "spawn"}
  /\ Holds(t) => operation = t
  /\ At(t, "retire") => task[t].then \in {"retire", "publish"}
  /\ Toward(t, "retire") => task[t].saw = published /\ published # 0
  /\ At(t, "startup") => task[t].saw # 0
  /\ At(t, "publish") \/ At(t, "stopped") => Quiet
  /\ Launching(t) => /\ Quiet
                     /\ task[t].saw = published /\ published # 0
                     /\ gen[published].owner = "none" /\ gen[published].completion = "none"
  /\ Launching(t) /\ ~At(t, "bind") => socket = published

\* What stop promises, and what a call's operation tells about its place.
Starting == {"recover", "start", "previous", "publish", "bind", "recheck", "spawn", "startup"}

CallState(t) ==
  /\ t \in Generations <=> task[t].op = "recover"
  /\ task[t].op = "recover" => task[t].at \in {"idle", "locking", "done"} \/ Holds(t)
  /\ task[t].op = "none" => At(t, "idle")
  /\ At(t, "idle") => task[t].op \in {"none", "recover"} /\ task[t].result = "none"
  /\ task[t].op \in {"start", "restart"} /\ ~At(t, "done") => t \in since
  /\ task[t].op = "stop" =>
       /\ task[t].at \notin Starting
       /\ Signalling(t) => task[t].then \in {"locking", "retire"}
       /\ At(t, "retire") => task[t].then = "retire"
       /\ ~At(t, "done") => task[t].result = "none"
  /\ Toward(t, "retire") /\ task[t].then = "retire" /\ ~At(t, "mark") =>
       gen[task[t].saw].explicit_stop
  /\ At(t, "stopped") /\ published # 0 => gen[published].explicit_stop

\* After a successful stop: nothing runs and the last generation is marked.
Halted ==
  since = {} =>
    /\ Quiet
    /\ published # 0 => gen[published].explicit_stop
    /\ \A g \in Generations : task[g].at \in {"idle", "locking", "recover", "done"}

FailedState ==
  status = "Failed" =>
    /\ published # 0
    /\ gen[published].owner \in {"retired", "done"}
    /\ gen[published].retirement = "err"

Structure ==
  /\ \A g \in Generations : OwnerState(gen[g])
  /\ Succession
  /\ \A g \in Generations : Active(g) => g = published
  /\ SocketIsOwned
  /\ FailedState
  /\ \A t \in Tasks : TaskState(t)

Calls == Halted /\ \A t \in Tasks : CallState(t)

IInv == TypeOK /\ Structure /\ Calls

-----------------------------------------------------------------------------
(* What a step of an owner changes.                                        *)

Changed(g) ==
  /\ gen' \in [Generations -> Generation]
  /\ \A h \in Generations : h # g => gen'[h] = gen[h]
  /\ Active(g)
  /\ gen'[g].owner # "none"
  /\ gen'[g].explicit_stop = gen[g].explicit_stop
  /\ OwnerState(gen'[g])

(* An owner changes its own generation only, and its upstream, its place   *)
(* and the outcome of its retirement stay in step.                         *)
LEMMA OwnerChanges ==
  ASSUME TypeOK, NEW g \in Generations, OwnerState(gen[g]), OwnerStep(g) \/ OwnerEvent(g)
  PROVE  Changed(g)
<1>0. gen[g] \in Generation
  BY DEF TypeOK
<1> USE DEF TypeOK, Generation, OwnerPlaces, Outcomes, Owner, OwnerGoto, Active, OwnerState
<1>1. CASE SetupReturns(g)
  BY <1>1 DEF SetupReturns, Changed
<1>2. CASE SetupFails(g)
  BY <1>2 DEF SetupFails, Changed
<1>3. CASE OwnerStarts(g)
  <2>1. gen' = [gen EXCEPT ![g] =
         [gen[g] EXCEPT !.owner = IF gen[g].shutdown THEN "loop" ELSE "announce",
                              !.startup = IF gen[g].shutdown THEN "err" ELSE @]]
    BY <1>3 DEF OwnerStarts
  <2> DEFINE r == [gen[g] EXCEPT !.owner = IF gen[g].shutdown THEN "loop" ELSE "announce",
                              !.startup = IF gen[g].shutdown THEN "err" ELSE @]
  <2>2. r \in Generation
    <3> HIDE DEF TypeOK, OwnerState, Active, Owner, OwnerGoto
    <3>1. QED
      BY <1>0
  <2>3. gen'[g] = r
    BY <2>1
  <2>4. gen' \in [Generations -> Generation] /\ \A h \in Generations : h # g => gen'[h] = gen[h]
    BY <2>1, <2>2
  <2>5. /\ OwnerState(gen'[g]) /\ gen'[g].owner # "none"
        /\ gen'[g].explicit_stop = gen[g].explicit_stop
    BY <1>3, <2>3 DEF OwnerStarts
  <2>6. QED
    BY <1>3, <2>4, <2>5 DEF OwnerStarts, Changed
<1>4. CASE OwnerAnnounces(g)
  <2>1. gen' = [gen EXCEPT ![g] =
         [gen[g] EXCEPT !.owner = "loop", !.startup = "ok"]]
    BY <1>4 DEF OwnerAnnounces
  <2> DEFINE r == [gen[g] EXCEPT !.owner = "loop", !.startup = "ok"]
  <2>2. r \in Generation
    <3> HIDE DEF TypeOK, OwnerState, Active, Owner, OwnerGoto
    <3>1. QED
      BY <1>0
  <2>3. gen'[g] = r
    BY <2>1
  <2>4. gen' \in [Generations -> Generation] /\ \A h \in Generations : h # g => gen'[h] = gen[h]
    BY <2>1, <2>2
  <2>5. /\ OwnerState(gen'[g]) /\ gen'[g].owner # "none"
        /\ gen'[g].explicit_stop = gen[g].explicit_stop
    BY <1>4, <2>3 DEF OwnerAnnounces
  <2>6. QED
    BY <1>4, <2>4, <2>5 DEF OwnerAnnounces, Changed
<1>5. CASE OwnerLoops(g)
  BY <1>5 DEF OwnerLoops, Changed
<1>6. CASE OwnerArms(g)
  <2>1. gen' = [gen EXCEPT ![g] =
         [gen[g] EXCEPT !.owner = "armed", !.woken = FALSE]]
    BY <1>6 DEF OwnerArms
  <2> DEFINE r == [gen[g] EXCEPT !.owner = "armed", !.woken = FALSE]
  <2>2. r \in Generation
    <3> HIDE DEF TypeOK, OwnerState, Active, Owner, OwnerGoto
    <3>1. QED
      BY <1>0
  <2>3. gen'[g] = r
    BY <2>1
  <2>4. gen' \in [Generations -> Generation] /\ \A h \in Generations : h # g => gen'[h] = gen[h]
    BY <2>1, <2>2
  <2>5. /\ OwnerState(gen'[g]) /\ gen'[g].owner # "none"
        /\ gen'[g].explicit_stop = gen[g].explicit_stop
    BY <1>6, <2>3 DEF OwnerArms
  <2>6. QED
    BY <1>6, <2>4, <2>5 DEF OwnerArms, Changed
<1>7. CASE OwnerChecks(g)
  BY <1>7 DEF OwnerChecks, Changed
<1>8. CASE OwnerIsWoken(g)
  BY <1>8 DEF OwnerIsWoken, Changed
<1>9. CASE OwnerRecovers(g)
  <2>1. gen' = [gen EXCEPT ![g] =
         [gen[g] EXCEPT !.owner = "closing", !.recover = TRUE]]
    BY <1>9 DEF OwnerRecovers
  <2> DEFINE r == [gen[g] EXCEPT !.owner = "closing", !.recover = TRUE]
  <2>2. r \in Generation
    <3> HIDE DEF TypeOK, OwnerState, Active, Owner, OwnerGoto
    <3>1. QED
      BY <1>0
  <2>3. gen'[g] = r
    BY <2>1
  <2>4. gen' \in [Generations -> Generation] /\ \A h \in Generations : h # g => gen'[h] = gen[h]
    BY <2>1, <2>2
  <2>5. /\ OwnerState(gen'[g]) /\ gen'[g].owner # "none"
        /\ gen'[g].explicit_stop = gen[g].explicit_stop
    BY <1>9, <2>3 DEF OwnerRecovers
  <2>6. QED
    BY <1>9, <2>4, <2>5 DEF OwnerRecovers, Changed
<1>10. CASE OwnerSeesExit(g)
  BY <1>10 DEF OwnerSeesExit, Changed
<1>11. CASE OwnerDrains(g)
  <2>1. PICK lost \in BOOLEAN : gen' = [gen EXCEPT ![g] =
         [gen[g] EXCEPT !.owner = "closing", !.reason = @ \/ lost,
                              !.recover = gen[g].reason \/ lost]]
    BY <1>11 DEF OwnerDrains
  <2> DEFINE r == [gen[g] EXCEPT !.owner = "closing", !.reason = @ \/ lost,
                              !.recover = gen[g].reason \/ lost]
  <2>2. r \in Generation
    <3> HIDE DEF TypeOK, OwnerState, Active, Owner, OwnerGoto
    <3>1. PICK b \in BOOLEAN : b = (gen[g].reason \/ lost)
      OBVIOUS
    <3>2. [gen[g] EXCEPT !.owner = "closing", !.reason = b, !.recover = b] \in Generation
      BY <1>0
    <3>3. QED
      BY <3>1, <3>2
  <2>3. gen'[g] = r
    BY <2>1
  <2>4. gen' \in [Generations -> Generation] /\ \A h \in Generations : h # g => gen'[h] = gen[h]
    BY <2>1, <2>2
  <2>5. /\ OwnerState(gen'[g]) /\ gen'[g].owner # "none"
        /\ gen'[g].explicit_stop = gen[g].explicit_stop
    BY <1>11, <2>3 DEF OwnerDrains
  <2>6. QED
    BY <1>11, <2>4, <2>5 DEF OwnerDrains, Changed
<1>12. CASE OwnerLosesResponses(g)
  BY <1>12 DEF OwnerLosesResponses, Changed
<1>13. CASE OwnerCloses(g)
  BY <1>13 DEF OwnerCloses, Changed
<1>14. CASE UpstreamRetires(g)
  BY <1>14 DEF UpstreamRetires, Changed
<1>15. CASE OwnerJoins(g)
  <2>1. PICK outcome \in {gen[g].retirement, "err"} : gen' = [gen EXCEPT ![g] =
         [gen[g] EXCEPT !.owner = "retired", !.retirement = outcome]]
    BY <1>15 DEF OwnerJoins
  <2> DEFINE r == [gen[g] EXCEPT !.owner = "retired", !.retirement = outcome]
  <2>2. r \in Generation
    <3> HIDE DEF TypeOK, OwnerState, Active, Owner, OwnerGoto
    <3>1. QED
      BY <1>0
  <2>3. gen'[g] = r
    BY <2>1
  <2>4. gen' \in [Generations -> Generation] /\ \A h \in Generations : h # g => gen'[h] = gen[h]
    BY <2>1, <2>2
  <2>5. /\ OwnerState(gen'[g]) /\ gen'[g].owner # "none"
        /\ gen'[g].explicit_stop = gen[g].explicit_stop
    BY <1>15, <2>3 DEF OwnerJoins
  <2>6. QED
    BY <1>15, <2>4, <2>5 DEF OwnerJoins, Changed
<1>16. CASE OwnerCompletes(g)
  BY <1>16 DEF OwnerCompletes, Changed
<1>17. CASE OwnerRoutes(g)
  <2>1. PICK lost \in BOOLEAN : gen' = [gen EXCEPT ![g] =
         [gen[g] EXCEPT !.owner = "loop", !.reason = @ \/ lost]]
    BY <1>17 DEF OwnerRoutes
  <2> DEFINE r == [gen[g] EXCEPT !.owner = "loop", !.reason = @ \/ lost]
  <2>2. r \in Generation
    <3> HIDE DEF TypeOK, OwnerState, Active, Owner, OwnerGoto
    <3>1. QED
      BY <1>0
  <2>3. gen'[g] = r
    BY <2>1
  <2>4. gen' \in [Generations -> Generation] /\ \A h \in Generations : h # g => gen'[h] = gen[h]
    BY <2>1, <2>2
  <2>5. /\ OwnerState(gen'[g]) /\ gen'[g].owner # "none"
        /\ gen'[g].explicit_stop = gen[g].explicit_stop
    BY <1>17, <2>3 DEF OwnerRoutes
  <2>6. QED
    BY <1>17, <2>4, <2>5 DEF OwnerRoutes, Changed
<1>18. CASE UpstreamExits(g)
  BY <1>18 DEF UpstreamExits, Changed
<1>19. CASE OwnerPanics(g)
  <2> DEFINE r == [gen[g] EXCEPT !.owner = "closing", !.retirement = "err", !.recover = FALSE,
                              !.startup = IF @ = "none" THEN "err" ELSE @,
                              !.upstream = "unverified"]
  <2>1. gen' = [gen EXCEPT ![g] = r]
    BY <1>19 DEF OwnerPanics
  <2>2. r \in Generation
    <3> HIDE DEF TypeOK, OwnerState, Active, Owner, OwnerGoto
    <3>1. PICK s \in Outcomes : s = IF gen[g].startup = "none" THEN "err" ELSE gen[g].startup
      BY <1>0
    <3>2. PICK place \in OwnerPlaces, err \in Outcomes : place = "closing" /\ err = "err"
      OBVIOUS
    <3>3. [gen[g] EXCEPT !.owner = place, !.retirement = err, !.recover = FALSE, !.startup = s,
                         !.upstream = "unverified"] \in Generation
      <4> HIDE DEF OwnerPlaces, Outcomes
      <4>1. QED
        BY <1>0
    <3>4. QED
      BY <3>1, <3>2, <3>3
  <2>3. /\ r.owner = "closing" /\ r.retirement = "err" /\ r.upstream = "unverified"
        /\ r.completion = gen[g].completion /\ r.explicit_stop = gen[g].explicit_stop
    BY <1>0
  <2> HIDE DEF r
  <2>4. gen' \in [Generations -> Generation] /\ \A h \in Generations : h # g => gen'[h] = gen[h]
    BY <2>1, <2>2
  <2>5. gen'[g] = r /\ Active(g) /\ gen[g].completion = "none"
    BY <1>19, <2>1 DEF OwnerPanics
  <2>6. OwnerState(r)
    BY <2>3, <2>5
  <2>7. QED
    BY <2>3, <2>4, <2>5, <2>6 DEF Changed
<1>20. QED
  BY <1>1, <1>2, <1>3, <1>4, <1>5, <1>6, <1>7, <1>8, <1>9, <1>10, <1>11, <1>12, <1>13, <1>14,
     <1>15, <1>16, <1>17, <1>18, <1>19 DEF OwnerStep, OwnerEvent

-----------------------------------------------------------------------------
(* What a step of a call changes.                                          *)

Others(t) ==
  /\ task' \in [Tasks -> Task]
  /\ \A s \in Tasks : s # t => task'[s] = task[s]

Moved(t, at, saw, then, result) ==
  /\ Others(t)
  /\ task'[t].at = at
  /\ task'[t].saw = saw
  /\ task'[t].then = then
  /\ task'[t].result = result
  /\ task'[t].op = task[t].op

(* A change of place.                                                      *)
LEMMA Moves ==
  ASSUME TypeOK, NEW t \in Tasks, NEW place \in Places, Goto(t, place)
  PROVE  Moved(t, place, task[t].saw, task[t].then, task[t].result)
<1> DEFINE r == [task[t] EXCEPT !.at = place]
<1>1. task[t] \in Task /\ task' = [task EXCEPT ![t] = r]
  BY DEF TypeOK, Goto
<1>2. /\ r \in Task /\ r.at = place /\ r.saw = task[t].saw /\ r.then = task[t].then
      /\ r.result = task[t].result /\ r.op = task[t].op
  BY <1>1 DEF Task
<1> HIDE DEF r
<1>3. Others(t) /\ task'[t] = r
  BY <1>1, <1>2 DEF TypeOK, Others
<1>4. QED
  BY <1>2, <1>3 DEF Moved

(* The start of signal_shutdown.                                           *)
LEMMA Signals ==
  ASSUME TypeOK, NEW t \in Tasks, NEW g \in Generations, NEW place \in Places, Signal(t, g, place)
  PROVE  Moved(t, "mark", g, place, task[t].result)
<1> DEFINE r == [task[t] EXCEPT !.at = "mark", !.saw = g, !.then = place]
<1>1. task[t] \in Task /\ task' = [task EXCEPT ![t] = r] /\ "mark" \in Places
  BY DEF TypeOK, Signal, Places
<1>2. /\ r \in Task /\ r.at = "mark" /\ r.saw = g /\ r.then = place
      /\ r.result = task[t].result /\ r.op = task[t].op
  BY <1>1 DEF Task
<1> HIDE DEF r
<1>3. Others(t) /\ task'[t] = r
  BY <1>1, <1>2 DEF TypeOK, Others
<1>4. QED
  BY <1>2, <1>3 DEF Moved

(* The return of a call.                                                   *)
LEMMA Returns ==
  ASSUME TypeOK, NEW t \in Tasks, NEW outcome \in Outcomes, Return(t, outcome)
  PROVE  Moved(t, "done", task[t].saw, task[t].then, outcome) /\ operation' = NoTask
<1> DEFINE r == [task[t] EXCEPT !.at = "done", !.result = outcome]
<1>0. task[t] \in Task /\ "done" \in Places
  BY DEF TypeOK, Places
<1>1. r \in Task
  BY <1>0 DEF Task
<1>2. task' = [task EXCEPT ![t] = r] /\ operation' = NoTask
  BY DEF Return
<1>3. Others(t) /\ task'[t] = r
  BY <1>1, <1>2 DEF TypeOK, Others
<1>4. QED
  BY <1>2, <1>3 DEF TypeOK, Task, Moved

(* 0 names no task.                                                        *)
LEMMA NobodyIsNoTask == NoTask \notin Tasks
  BY ProxyAssumption DEF NoTask, Tasks, Generations

\* The owners are where they were, and their upstreams as they were.
Same ==
  /\ gen' \in [Generations -> Generation]
  /\ \A g \in Generations :
       /\ gen'[g].owner = gen[g].owner /\ gen'[g].upstream = gen[g].upstream
       /\ gen'[g].retirement = gen[g].retirement /\ gen'[g].completion = gen[g].completion
       /\ gen[g].explicit_stop => gen'[g].explicit_stop
  /\ published' = published
  /\ socket' = socket

(* A call that neither publishes nor launches leaves the structure intact. *)
LEMMA FrameStructure ==
  ASSUME TypeOK, Structure, NEW t \in Tasks, Same, Others(t), TaskState(t)',
         status' = status \/ status' # "Failed",
         operation' = operation \/ operation = NoTask \/ operation = t
  PROVE  Structure'
<1>1. published \in 0 .. MaxGenerations /\ MaxGenerations \in Nat
  BY ProxyAssumption DEF TypeOK
<1>2. published # 0 => published \in Generations
  BY <1>1 DEF Generations
<1>3. Quiet => Quiet'
  BY DEF Quiet, Same, Active
<1>4. \A g \in Generations : OwnerState(gen[g])'
  BY DEF Structure, Same, OwnerState
<1>5. Succession'
  BY DEF Structure, Same, Succession, Active
<1>6. \A g \in Generations : Active(g)' => g = published'
  BY DEF Structure, Same, Active
<1>7. SocketIsOwned'
  BY DEF Structure, Same, SocketIsOwned
<1>8. FailedState'
  BY <1>2 DEF Structure, Same, FailedState
<1>9. ASSUME NEW s \in Tasks, s # t
      PROVE  TaskState(s)'
  <2>1. task'[s] = task[s] /\ TaskState(s)
    BY <1>9 DEF Structure, Others
  <2>2. Holds(s) => operation' = s
    BY <1>9, <2>1, NobodyIsNoTask DEF TaskState
  <2>3. QED
    BY <1>2, <1>3, <2>1, <2>2
    DEF TaskState, Same, Signalling, Toward, At, Holds, Launching
<1>10. QED
  BY <1>4, <1>5, <1>6, <1>7, <1>8, <1>9 DEF Structure

(* What is known of the other calls does not change either.                *)
LEMMA FrameCalls ==
  ASSUME TypeOK, Structure, Calls, NEW t \in Tasks, Same, Others(t), CallState(t)', Halted',
         \A s \in since : ~At(s, "done") => s \in since'
  PROVE  Calls'
<1>1. published \in 0 .. MaxGenerations /\ MaxGenerations \in Nat
  BY ProxyAssumption DEF TypeOK
<1>2. published # 0 => published \in Generations
  BY <1>1 DEF Generations
<1>3. ASSUME NEW s \in Tasks, s # t
      PROVE  CallState(s)'
  <2>1. task'[s] = task[s] /\ CallState(s) /\ TaskState(s)
    BY <1>3 DEF Calls, Structure, Others
  <2>2. Toward(s, "retire") => task[s].saw \in Generations
    BY <1>2, <2>1 DEF TaskState
  <2>3. QED
    BY <1>2, <2>1, <2>2 DEF CallState, Same, Signalling, Toward, At, Holds
<1>4. QED
  BY <1>3 DEF Calls

(* As long as nobody has asked for a start, only stops have work to do.    *)
LEMMA FrameHalted ==
  ASSUME TypeOK, Halted, NEW t \in Tasks, Same, Others(t), since \subseteq since',
         since = {} /\ t \in Generations => task'[t].at \in {"idle", "locking", "recover", "done"}
  PROVE  Halted'
<1>1. published \in 0 .. MaxGenerations /\ MaxGenerations \in Nat
  BY ProxyAssumption DEF TypeOK
<1>2. published # 0 => published \in Generations
  BY <1>1 DEF Generations
<1>3. Quiet => Quiet'
  BY DEF Quiet, Same, Active
<1>4. Generations \subseteq Tasks
  BY DEF Tasks
<1>5. QED
  BY <1>2, <1>3, <1>4 DEF Halted, Same, Others

(* With nothing asked for, no call is on its way to launch anything.       *)
LEMMA NothingStarts ==
  ASSUME TypeOK, Structure, Calls, since = {}, NEW t \in Tasks
  PROVE  /\ task[t].at \notin Starting \ {"recover"}
         /\ Signalling(t) => task[t].then # "spawn"
         /\ t \in Generations => task[t].at \in {"idle", "locking", "recover", "done"}
<1>1. CallState(t)
  BY DEF Calls
<1>2. task[t].op \in {"none", "start", "stop", "restart", "recover"}
  BY DEF TypeOK, Task
<1>3. t \in Generations => task[t].at \in {"idle", "locking", "recover", "done"}
  BY DEF Calls, Halted
<1>4. QED
  BY <1>1, <1>2, <1>3 DEF CallState, Starting, Signalling, At

(* The lock is one: no other call holds what t holds.                      *)
LEMMA Exclusion ==
  ASSUME Structure, NEW t \in Tasks, Holds(t), NEW s \in Tasks, s # t
  PROVE  ~Holds(s)
  BY DEF Structure, TaskState

(* A call that holds the lock may change generations: the others are not   *)
(* where that could matter.                                                *)
LEMMA FrameOthers ==
  ASSUME TypeOK, Structure, Calls, NEW t \in Tasks, Holds(t), Others(t), since' = since,
         TaskState(t)', CallState(t)'
  PROVE  \A s \in Tasks : TaskState(s)' /\ CallState(s)'
<1> SUFFICES ASSUME NEW s \in Tasks, s # t
             PROVE  TaskState(s)' /\ CallState(s)'
  OBVIOUS
<1>1. task'[s] = task[s] /\ TaskState(s) /\ CallState(s) /\ ~Holds(s)
  BY Exclusion DEF Structure, Calls, Others
<1>2. TaskState(s)'
  BY <1>1 DEF TaskState, Signalling, Toward, At, Holds, Launching, Locked
<1>3. CallState(s)'
  BY <1>1 DEF CallState, Signalling, Toward, At, Holds, Launching, Locked
<1>4. QED
  BY <1>2, <1>3

(* The whole of the invariant, for a call that leaves generations alone.   *)
LEMMA Frame ==
  ASSUME TypeOK, Structure, Calls, NEW t \in Tasks, Same, Others(t), since' = since,
         TaskState(t)', CallState(t)', status' = status, stop_requested' \in BOOLEAN,
         \/ operation' = operation
         \/ operation = NoTask /\ operation' = t
         \/ operation = t /\ operation' = NoTask,
         since = {} /\ t \in Generations => task'[t].at \in {"idle", "locking", "recover", "done"}
  PROVE  IInv'
<1>1. TypeOK'
  BY DEF TypeOK, Same, Others
<1>2. Structure'
  BY FrameStructure
<1>3. Halted'
  BY FrameHalted DEF Calls
<1>4. Calls'
  BY <1>3, FrameCalls
<1>5. QED
  BY <1>1, <1>2, <1>4 DEF IInv

(* Once the last generation has retired nothing is left.                   *)
LEMMA QuietOnceRetired ==
  ASSUME TypeOK, Structure, published = 0 \/ gen[published].completion = "ok"
  PROVE  Quiet
<1>1. published \in 0 .. MaxGenerations /\ MaxGenerations \in Nat
  BY ProxyAssumption DEF TypeOK
<1> SUFFICES ASSUME NEW g \in Generations
             PROVE  /\ ~Active(g) /\ gen[g].upstream \in {"none", "retired"}
                    /\ gen[g].retirement # "err"
  BY DEF Quiet
<1>2. OwnerState(gen[g]) /\ gen[g] \in Generation
  BY DEF Structure, TypeOK
<1>3. CASE g < published
  BY <1>3 DEF Structure, Succession
<1>4. CASE g > published
  BY <1>2, <1>4 DEF Structure, Succession, OwnerState, Active
<1>5. CASE g = published
  <2>1. gen[g].completion = "ok"
    BY <1>5, <1>1 DEF Generations
  <2>2. CASE gen[g].owner \in {"none", "done"}
    BY <1>2, <2>1, <2>2 DEF OwnerState, Active
  <2>3. CASE gen[g].owner \notin {"none", "done"}
    BY <1>2, <2>1, <2>3 DEF OwnerState
  <2>4. QED
    BY <2>2, <2>3
<1>6. QED
  BY <1>1, <1>3, <1>4, <1>5 DEF Generations

-----------------------------------------------------------------------------
(* The steps of owners.                                                    *)

\* What an owner's step leaves alone, and when it frees the socket or fails.
Left(g) ==
  /\ UNCHANGED <<operation, stop_requested, published, since>>
  /\ task' = task \/ task' = [task EXCEPT ![g].at = "locking"]
  /\ socket' = socket \/ (socket' = 0 /\ gen'[g].owner = "retired")
  /\ status' \in {"Stopped", "Starting", "Running", "Stopping", "Failed"}
  /\ \/ /\ status' = status
        /\ gen[g].owner = "retired" =>
             gen'[g].owner = "done" /\ gen'[g].retirement = gen[g].retirement
     \/ /\ gen[g].owner # "retired"
        /\ status' = "Failed" => gen'[g].owner = "retired" /\ gen'[g].retirement = "err"

(* What else the step of an owner changes.                                 *)
LEMMA OwnerLeaves ==
  ASSUME TypeOK, NEW g \in Generations, OwnerStep(g) \/ OwnerEvent(g), Changed(g)
  PROVE  Left(g)
<1> USE DEF Left, Owner, OwnerGoto
<1>0. gen \in [Generations -> Generation]
  BY DEF TypeOK
<1>1. ASSUME UNCHANGED <<operation, stop_requested, status, published, since, task, socket>>,
             gen[g].owner # "retired"
      PROVE  Left(g)
  BY <1>1 DEF TypeOK
<1>2. CASE SetupReturns(g) \/ SetupFails(g) \/ OwnerStarts(g) \/ OwnerLoops(g) \/ OwnerArms(g)
           \/ OwnerChecks(g) \/ OwnerIsWoken(g)
  BY <1>1, <1>2 DEF SetupReturns, SetupFails, OwnerStarts, OwnerLoops, OwnerArms, OwnerChecks,
                    OwnerIsWoken
<1>3. CASE OwnerRecovers(g) \/ OwnerDrains(g) \/ OwnerLosesResponses(g) \/ UpstreamRetires(g)
           \/ OwnerRoutes(g) \/ OwnerPanics(g)
  BY <1>1, <1>3 DEF OwnerRecovers, OwnerDrains, OwnerLosesResponses, UpstreamRetires,
                    OwnerRoutes, OwnerPanics, OwnerPlaces
<1>4. CASE OwnerAnnounces(g)
  BY <1>4 DEF OwnerAnnounces
<1>5. CASE OwnerSeesExit(g)
  BY <1>5 DEF OwnerSeesExit
<1>6. CASE OwnerCloses(g)
  BY <1>6 DEF OwnerCloses, TypeOK
<1>7. CASE UpstreamExits(g)
  <2>1. gen'[g].owner = gen[g].owner /\ gen[g].upstream = "running" /\ gen'[g].upstream = "exited"
    BY <1>0, <1>7 DEF UpstreamExits, Generation
  <2>2. gen[g].owner # "retired"
    BY <2>1 DEF Changed, OwnerState
  <2>3. QED
    BY <1>1, <1>7, <2>2 DEF UpstreamExits
<1>8. CASE OwnerJoins(g)
  <2>1. PICK outcome \in Outcomes : /\ gen'[g].owner = "retired" /\ gen'[g].retirement = outcome
                                    /\ status' = IF outcome = "ok" THEN "Stopped" ELSE "Failed"
                                    /\ outcome \in {gen[g].retirement, "err"}
    BY <1>0, <1>8 DEF OwnerJoins, Generation, Outcomes
  <2>2. outcome \in {"ok", "err"}
    BY <2>1 DEF Changed, OwnerState
  <2>3. socket' = socket \/ (socket' = 0 /\ gen'[g].owner = "retired")
    BY <1>8, <2>1 DEF OwnerJoins
  <2>4. QED
    BY <1>8, <2>1, <2>2, <2>3 DEF OwnerJoins
<1>9. CASE OwnerCompletes(g)
  <2>1. gen'[g].owner = "done" /\ gen'[g].retirement = gen[g].retirement
    BY <1>0, <1>9 DEF OwnerCompletes, Generation
  <2>2. QED
    BY <1>9, <2>1 DEF OwnerCompletes, TypeOK
<1>10. QED
  BY <1>2, <1>3, <1>4, <1>5, <1>6, <1>7, <1>8, <1>9 DEF OwnerStep, OwnerEvent

(* The step of an owner keeps the types.                                   *)
LEMMA OwnerTypes ==
  ASSUME TypeOK, NEW g \in Generations, Changed(g), Left(g)
  PROVE  TypeOK'
<1>1. task' \in [Tasks -> Task]
  BY DEF Left, TypeOK, Task, Places, Tasks
<1>2. QED
  BY <1>1, ProxyAssumption DEF TypeOK, Changed, Left

(* An owner at work is the last generation's, and while it works no call   *)
(* is between publication and launch, and no stop has succeeded.           *)
LEMMA OwnerKeeps ==
  ASSUME TypeOK, Structure, Calls, NEW g \in Generations, Changed(g), Left(g)
  PROVE  Structure' /\ Calls'
<1>1. /\ g = published /\ Active(g) /\ ~Quiet
      /\ published' = published /\ operation' = operation /\ since' = since
  BY DEF Changed, Left, Structure, Quiet
<1>2. ASSUME NEW s \in Tasks
      PROVE  task'[s] = task[s] \/ (s = g /\ task'[s] = [task[s] EXCEPT !.at = "locking"])
  BY DEF Left, TypeOK
<1>3. \A h \in Generations : OwnerState(gen[h])'
  BY DEF Structure, Changed
<1>4. Succession'
  <2>1. ASSUME NEW h \in Generations, h # g
        PROVE  gen'[h] = gen[h]
    BY <2>1 DEF Changed
  <2>2. published \in Int
    BY <1>1 DEF Generations
  <2>3. QED
    BY <1>1, <2>1, <2>2 DEF Structure, Succession, Active, Generations
<1>5. \A h \in Generations : Active(h)' => h = published'
  BY <1>1 DEF Structure, Changed, Active
<1>6. SocketIsOwned'
  BY <1>1, <1>5 DEF Structure, Changed, Left, SocketIsOwned, Active
<1>7. FailedState'
  BY <1>1, ProxyAssumption DEF Structure, Changed, Left, FailedState, Active, Generations
<1>8. ASSUME NEW s \in Tasks
      PROVE  TaskState(s)' /\ CallState(s)'
  <2>1. TaskState(s) /\ CallState(s) /\ task[s] \in Task
    BY DEF Structure, Calls, TypeOK
  <2>2. ~Launching(s) /\ ~At(s, "publish") /\ ~At(s, "stopped")
    BY <1>1, <2>1 DEF TaskState
  <2>3. CASE task'[s] = task[s]
    <3>1. TaskState(s)'
      BY <1>1, <2>1, <2>2, <2>3 DEF TaskState, Signalling, Toward, At, Holds, Launching
    <3>2. published # 0 => published \in Generations
      BY <1>1
    <3>3. \A h \in Generations : gen'[h].explicit_stop = gen[h].explicit_stop
      BY DEF Changed
    <3>4. QED
      BY <1>1, <2>1, <2>2, <2>3, <3>1, <3>2, <3>3
      DEF CallState, TaskState, Signalling, Toward, At, Holds
  <2>4. CASE s = g /\ task'[s] = [task[s] EXCEPT !.at = "locking"]
    <3>1. task'[s].at = "locking" /\ task'[s].op = task[s].op /\ task'[s].op = "recover"
      BY <2>1, <2>4 DEF Task, CallState
    <3>2. QED
      BY <2>1, <2>4, <3>1
      DEF TaskState, CallState, Signalling, Toward, At, Holds, Launching, Locked, Starting
  <2>5. QED
    BY <1>2, <2>3, <2>4
<1>9. Halted'
  BY <1>1 DEF Calls, Halted
<1>10. QED
  BY <1>3, <1>4, <1>5, <1>6, <1>7, <1>8, <1>9 DEF Structure, Calls

-----------------------------------------------------------------------------
(* The steps of calls.                                                     *)

(* A new call is one more in since, or a stop.                             *)
LEMMA CallKeeps ==
  ASSUME IInv, NEW c \in Callers, Call(c)
  PROVE  IInv'
<1> USE DEF IInv
<1>1. PICK op \in Operations :
        /\ task' = [task EXCEPT ![c].op = op,
                                ![c].at = IF op = "stop" THEN "request" ELSE "locking"]
        /\ since' = IF op = "stop" THEN since ELSE since \cup {c}
  BY DEF Call
<1> DEFINE r == [task[c] EXCEPT !.op = op, !.at = IF op = "stop" THEN "request" ELSE "locking"]
<1>2. c \in Tasks /\ c \notin Generations /\ op \in {"start", "stop", "restart"}
  BY ProxyAssumption DEF Tasks, Generations
<1>3. task[c] \in Task /\ r \in Task /\ task'[c] = r
  <2>1. task[c] \in Task
    BY <1>2 DEF TypeOK
  <2>2. PICK place \in Places : place = IF op = "stop" THEN "request" ELSE "locking"
    BY DEF Places
  <2>3. [task[c] EXCEPT !.op = op, !.at = place] \in Task
    <3> HIDE DEF IInv
    <3>1. QED
      BY <1>2, <2>1 DEF Task
  <2>4. QED
    BY <1>1, <1>2, <2>1, <2>2, <2>3 DEF TypeOK
<1>4. Others(c)
  BY <1>1, <1>2, <1>3 DEF TypeOK, Others
<1>5. TaskState(c) /\ CallState(c) /\ At(c, "idle")
  BY <1>2 DEF Structure, Calls, Call
<1>6. UNCHANGED <<operation, stop_requested, status, published, socket, gen>>
  BY DEF Call
<1>7. Same
  BY <1>6 DEF Same, TypeOK
<1>8. TaskState(c)'
  BY <1>2, <1>3 DEF TaskState, Signalling, Toward, At, Holds, Launching, Locked, Task
<1>9. CallState(c)'
  <2>1. /\ task'[c].op = op /\ task'[c].result = "none"
        /\ task'[c].at \in {"request", "locking"}
    BY <1>3, <1>5 DEF CallState, Task, At
  <2>2. op # "stop" => c \in since'
    BY <1>1
  <2>3. QED
    BY <1>2, <2>1, <2>2 DEF CallState, Signalling, Toward, At, Starting
<1>10. TypeOK'
  BY <1>1, <1>4, <1>6 DEF TypeOK, Others
<1>11. Structure'
  BY <1>2, <1>4, <1>6, <1>7, <1>8, FrameStructure
<1>12. Halted'
  BY <1>1, <1>2, <1>4, <1>7, FrameHalted DEF Calls
<1>13. Calls'
  BY <1>1, <1>2, <1>4, <1>7, <1>9, <1>12, FrameCalls
<1>14. QED
  BY <1>10, <1>11, <1>13

(* request_stop runs beside whoever holds the lock.                        *)
LEMMA RequestStopKeeps ==
  ASSUME IInv, NEW c \in Callers, RequestStop(c)
  PROVE  IInv'
<1> USE DEF IInv
<1>1. c \in Tasks /\ c \notin Generations
  BY ProxyAssumption DEF Tasks, Generations
<1>2. TaskState(c) /\ CallState(c) /\ task[c] \in Task
  BY <1>1 DEF Structure, Calls, TypeOK
<1>3. UNCHANGED <<operation, status, published, socket, gen, since>> /\ stop_requested' \in BOOLEAN
  BY DEF RequestStop, Request, Read, TypeOK
<1>4. Same
  BY <1>3 DEF Same, TypeOK
<1> USE DEF TaskState, CallState, Signalling, Toward, At, Holds, Launching, Locked, Starting
<1>5. CASE Request(c)
  <2>1. At(c, "request") /\ Moved(c, "read", task[c].saw, task[c].then, task[c].result)
    BY <1>1, <1>5, Moves DEF Request, Places
  <2>2. TaskState(c)' /\ CallState(c)'
    BY <1>2, <1>3, <2>1 DEF Moved
  <2>3. QED
    BY <1>1, <1>3, <1>4, <2>1, <2>2, Frame DEF Moved
<1>6. CASE Read(c) /\ published = 0
  <2>1. At(c, "read") /\ Moved(c, "locking", task[c].saw, task[c].then, task[c].result)
    BY <1>1, <1>6, Moves DEF Read, Places
  <2>2. TaskState(c)' /\ CallState(c)'
    BY <1>2, <1>3, <2>1 DEF Moved
  <2>3. QED
    BY <1>1, <1>3, <1>4, <2>1, <2>2, Frame DEF Moved
<1>7. CASE Read(c) /\ published # 0
  <2>1. published \in Generations
    BY <1>7, ProxyAssumption DEF TypeOK, Generations
  <2>2. At(c, "read") /\ Moved(c, "mark", published, "locking", task[c].result)
    BY <1>1, <1>7, <2>1, Signals DEF Read, Places
  <2>3. TaskState(c)' /\ CallState(c)'
    BY <1>2, <1>3, <1>7, <2>2 DEF Moved
  <2>4. QED
    BY <1>1, <1>3, <1>4, <2>2, <2>3, Frame DEF Moved
<1>8. QED
  BY <1>5, <1>6, <1>7 DEF RequestStop

(* Steps that hold no lock, or that leave the generations alone.           *)
LEMMA LockedKeeps ==
  ASSUME IInv, NEW t \in Tasks,
         \/ Lock(t) \/ StopLocked(t) \/ AwaitRetirement(t) \/ Start(t) \/ Previous(t)
         \/ Recheck(t) \/ AwaitStartup(t)
  PROVE  IInv'
<1> USE DEF IInv
<1>1. TaskState(t) /\ CallState(t) /\ task[t] \in Task /\ task[t].saw \in Generations \cup {0}
  BY DEF Structure, Calls, TypeOK, Task
<1>2. published # 0 => published \in Generations
  BY ProxyAssumption DEF TypeOK, Generations
<1>3. UNCHANGED <<stop_requested, status, published, socket, gen, since>>
  BY DEF Lock, StopLocked, AwaitRetirement, Start, Previous, Recheck, AwaitStartup
<1>4. Same /\ stop_requested' \in BOOLEAN /\ (Quiet => Quiet')
  BY <1>3 DEF Same, TypeOK, Quiet, Active
<1>5. since = {} => /\ task[t].at \notin Starting \ {"recover"}
                    /\ t \in Generations => task[t].at \in {"idle", "locking", "recover", "done"}
  BY NothingStarts
<1>6. ASSUME NEW at \in Places, NEW saw, NEW then, NEW result, Moved(t, at, saw, then, result),
             TaskState(t)', CallState(t)',
             since = {} /\ t \in Generations => at \in {"idle", "locking", "recover", "done"},
             \/ operation' = operation
             \/ operation = NoTask /\ operation' = t
             \/ operation = t /\ operation' = NoTask
      PROVE  IInv'
  BY <1>3, <1>4, <1>6, Frame DEF Moved
<1> USE DEF TaskState, CallState, Signalling, Toward, At, Holds, Launching, Locked, Starting
<1>7. CASE Lock(t)
  <2> DEFINE place == Entry(task[t].op)
  <2>1. /\ At(t, "locking") /\ operation = NoTask /\ operation' = t
        /\ place \in {"start", "stop", "recover"}
        /\ task[t].op = "stop" => place = "stop"
        /\ task[t].op = "recover" => place = "recover"
    BY <1>7 DEF Lock, Entry
  <2>2. Moved(t, place, task[t].saw, task[t].then, task[t].result)
    BY <1>7, <2>1, Moves DEF Lock, Places
  <2> HIDE DEF place
  <2>3. TaskState(t)'
    BY <1>1, <1>3, <2>1, <2>2 DEF Moved
  <2>4. CallState(t)'
    BY <1>1, <1>3, <2>1, <2>2 DEF Moved
  <2>5. t \in Generations => place = "recover"
    BY <1>1, <2>1
  <2>6. QED
    <3> HIDE DEF IInv, TaskState, CallState
    <3>1. QED
      BY <1>6, <2>1, <2>2, <2>3, <2>4, <2>5 DEF Places
<1>8. CASE StopLocked(t) /\ published = 0
  <2>1. At(t, "stop") /\ Moved(t, "stopped", task[t].saw, task[t].then, task[t].result)
        /\ operation' = operation
    BY <1>8, Moves DEF StopLocked, Places
  <2>2. Quiet'
    BY <1>4, <1>8, QuietOnceRetired
  <2>3. TaskState(t)' /\ CallState(t)'
    BY <1>1, <1>3, <1>8, <2>1, <2>2 DEF Moved
  <2>4. QED
    BY <1>5, <1>6, <2>1, <2>3 DEF Places
<1>9. CASE StopLocked(t) /\ published # 0
  <2>1. At(t, "stop") /\ Moved(t, "mark", published, "retire", task[t].result)
        /\ operation' = operation
    BY <1>2, <1>9, Signals DEF StopLocked, Places
  <2>2. TaskState(t)' /\ CallState(t)'
    BY <1>1, <1>3, <1>9, <2>1 DEF Moved
  <2>3. QED
    BY <1>5, <1>6, <2>1, <2>2 DEF Places
<1>10. CASE AwaitRetirement(t) /\ gen[task[t].saw].completion = "err"
  <2>1. At(t, "retire") /\ Moved(t, "done", task[t].saw, task[t].then, "err") /\ operation' = NoTask
    BY <1>10, Returns DEF AwaitRetirement, Outcomes
  <2>2. TaskState(t)' /\ CallState(t)' /\ operation = t
    BY <1>1, <1>3, <2>1 DEF Moved
  <2>3. QED
    BY <1>6, <2>1, <2>2 DEF Places
<1>11. CASE AwaitRetirement(t) /\ gen[task[t].saw].completion # "err"
  <2> DEFINE place == IF task[t].then = "publish" THEN "publish" ELSE "stopped"
  <2>1. At(t, "retire") /\ operation' = operation /\ Goto(t, place) /\ place \in Places
    BY <1>11 DEF AwaitRetirement, Places
  <2>2. Moved(t, place, task[t].saw, task[t].then, task[t].result)
    BY <2>1, Moves
  <2>3. gen[published].completion = "ok" /\ task[t].saw = published /\ published # 0
    BY <1>1, <1>2, <1>11, <2>1 DEF AwaitRetirement, TypeOK, Generation, Outcomes
  <2>4. Quiet'
    BY <1>4, <2>3, QuietOnceRetired
  <2>5. TaskState(t)'
    BY <1>1, <1>3, <2>1, <2>2, <2>4 DEF Moved
  <2>6. CallState(t)'
    BY <1>1, <1>3, <2>1, <2>2, <2>3 DEF Moved
  <2>7. QED
    BY <1>5, <1>6, <2>1, <2>2, <2>5, <2>6
<1>12. CASE Start(t)
  <2>1. CASE Refused
    <3>1. At(t, "start") /\ Moved(t, "done", task[t].saw, task[t].then, "err")
          /\ operation' = NoTask
      BY <1>12, <2>1, Returns DEF Start, Outcomes
    <3>2. TaskState(t)' /\ CallState(t)' /\ operation = t
      BY <1>1, <1>3, <3>1 DEF Moved
    <3>3. QED
      BY <1>6, <3>1, <3>2 DEF Places
  <2>2. CASE ~Refused
    <3>1. At(t, "start") /\ Moved(t, "previous", task[t].saw, task[t].then, task[t].result)
          /\ operation' = operation
      BY <1>12, <2>2, Moves DEF Start, Places
    <3>2. TaskState(t)' /\ CallState(t)'
      BY <1>1, <1>3, <3>1 DEF Moved
    <3>3. QED
      BY <1>5, <1>6, <3>1, <3>2 DEF Places
  <2>3. QED
    BY <2>1, <2>2
<1>13. CASE Previous(t) /\ published = 0
  <2>1. At(t, "previous") /\ Moved(t, "publish", task[t].saw, task[t].then, task[t].result)
        /\ operation' = operation
    BY <1>13, Moves DEF Previous, Places
  <2>2. Quiet'
    BY <1>4, <1>13, QuietOnceRetired
  <2>3. TaskState(t)' /\ CallState(t)'
    BY <1>1, <1>3, <2>1, <2>2 DEF Moved
  <2>4. QED
    BY <1>5, <1>6, <2>1, <2>3 DEF Places
<1>14. CASE Previous(t) /\ published # 0
  <2>1. PICK place \in {"startup", "retire"} :
           task' = [task EXCEPT ![t].saw = published, ![t].then = "publish", ![t].at = place]
    BY <1>14 DEF Previous
  <2> DEFINE r == [task[t] EXCEPT !.saw = published, !.then = "publish", !.at = place]
  <2>2. r \in Task
    BY <1>1, <1>2, <1>14 DEF Task, Places
  <2>3. Others(t) /\ task'[t] = r
    BY <2>1, <2>2 DEF Others, TypeOK
  <2>4. Moved(t, place, published, "publish", task[t].result)
    BY <1>1, <2>3 DEF Moved, Task
  <2>5. At(t, "previous") /\ operation' = operation
    BY <1>14 DEF Previous
  <2> HIDE DEF r
  <2>6. TaskState(t)' /\ CallState(t)'
    BY <1>1, <1>3, <1>14, <2>4, <2>5 DEF Moved
  <2>7. QED
    BY <1>5, <1>6, <2>4, <2>5, <2>6 DEF Places
<1>15. CASE Recheck(t) /\ stop_requested
  <2>1. At(t, "recheck") /\ task[t].saw \in Generations /\ operation' = operation
    BY <1>1, <1>2, <1>15 DEF Recheck
  <2>2. Moved(t, "mark", task[t].saw, "spawn", task[t].result)
    BY <1>15, <2>1, Signals DEF Recheck, Places
  <2>3. TaskState(t)' /\ CallState(t)'
    BY <1>1, <1>3, <1>4, <2>1, <2>2 DEF Moved
  <2>4. QED
    BY <1>5, <1>6, <2>1, <2>2, <2>3 DEF Places
<1>16. CASE Recheck(t) /\ ~stop_requested
  <2>1. At(t, "recheck") /\ Moved(t, "spawn", task[t].saw, task[t].then, task[t].result)
        /\ operation' = operation
    BY <1>16, Moves DEF Recheck, Places
  <2>2. TaskState(t)' /\ CallState(t)'
    BY <1>1, <1>3, <1>4, <2>1 DEF Moved
  <2>3. QED
    BY <1>5, <1>6, <2>1, <2>2 DEF Places
<1>17. CASE AwaitStartup(t)
  <2> DEFINE outcome == gen[task[t].saw].startup
  <2>1. At(t, "startup") /\ task[t].saw \in Generations /\ outcome \in Outcomes
    BY <1>1, <1>17 DEF AwaitStartup, TypeOK, Generation
  <2>2. Moved(t, "done", task[t].saw, task[t].then, outcome) /\ operation' = NoTask
    BY <1>17, <2>1, Returns DEF AwaitStartup
  <2>3. TaskState(t)' /\ CallState(t)' /\ operation = t
    BY <1>1, <1>3, <2>1, <2>2 DEF Moved
  <2>4. QED
    BY <1>6, <2>2, <2>3 DEF Places
<1>18. QED
  BY <1>7, <1>8, <1>9, <1>10, <1>11, <1>12, <1>13, <1>14, <1>15, <1>16, <1>17

(* signal_shutdown sets flags that no owner's place depends on.            *)
LEMMA SignalKeeps ==
  ASSUME IInv, NEW t \in Tasks, Mark(t) \/ Shut(t) \/ Wake(t)
  PROVE  IInv'
<1> USE DEF IInv
<1> USE DEF TaskState, CallState, Signalling, Toward, At, Holds, Launching, Locked, Starting
<1> DEFINE g == task[t].saw
<1>1. TaskState(t) /\ CallState(t) /\ task[t] \in Task /\ gen \in [Generations -> Generation]
  BY DEF Structure, Calls, TypeOK
<1>2. Signalling(t) /\ g \in Generations /\ task[t].then \in {"locking", "retire", "spawn"}
  BY <1>1 DEF Mark, Shut, Wake, Task
<1>3. /\ UNCHANGED <<operation, stop_requested, status, published, socket, since>>
      /\ stop_requested' \in BOOLEAN
  BY DEF Mark, Shut, Wake, TypeOK
<1>4. published # 0 => published \in Generations
  BY ProxyAssumption DEF TypeOK, Generations
<1>5. Same /\ (Mark(t) => gen'[g].explicit_stop)
  <2>1. CASE Mark(t)
    <3> DEFINE r == [gen[g] EXCEPT !.explicit_stop = TRUE]
    <3>0. r \in Generation
      <4>1. gen[g] \in Generation
        BY <1>1, <1>2
      <4> HIDE DEF IInv, TaskState, CallState, Signalling, g
      <4>2. QED
        BY <4>1 DEF Generation
    <3>1. gen' = [gen EXCEPT ![g] = r] /\ r \in Generation
      BY <2>1, <3>0 DEF Mark
    <3>2. gen' \in [Generations -> Generation]
      BY <1>1, <3>1
    <3>3. gen'[g] = r /\ \A h \in Generations : h # g => gen'[h] = gen[h]
      BY <1>1, <1>2, <3>1
    <3>4. QED
      BY <1>1, <1>2, <1>3, <3>2, <3>3 DEF Same, Generation
  <2>2. CASE Shut(t)
    <3>1. At(t, "shut")
      BY <2>2 DEF Shut
    <3> DEFINE r == [gen[g] EXCEPT !.shutdown = TRUE]
    <3>0. r \in Generation
      <4>1. gen[g] \in Generation
        BY <1>1, <1>2
      <4> HIDE DEF IInv, TaskState, CallState, Signalling, g
      <4>2. QED
        BY <4>1 DEF Generation
    <3>2. gen' = [gen EXCEPT ![g] = r] /\ r \in Generation
      BY <2>2, <3>0 DEF Shut
    <3>3. gen' \in [Generations -> Generation]
      BY <1>1, <3>2
    <3>4. gen'[g] = r /\ \A h \in Generations : h # g => gen'[h] = gen[h]
      BY <1>1, <1>2, <3>2
    <3>5. QED
      BY <1>1, <1>2, <1>3, <3>1, <3>3, <3>4 DEF Same, Generation, Mark
  <2>3. CASE Wake(t)
    <3>1. Registered(g) \in BOOLEAN /\ At(t, "wake")
      BY <2>3 DEF Wake, Registered
    <3>2. Same
      BY <1>1, <1>2, <1>3, <2>3, <3>1 DEF Wake, Same, Generation
    <3>3. QED
      BY <3>1, <3>2 DEF Mark
  <2>4. QED
    BY <2>1, <2>2, <2>3
<1>6. Quiet => Quiet'
  BY <1>5 DEF Quiet, Same, Active
<1>7. since = {} =>
        /\ task[t].then # "spawn"
        /\ t \in Generations => task[t].at \in {"idle", "locking", "recover", "done"}
  BY <1>2, NothingStarts
<1>8. ASSUME NEW at \in Places, Moved(t, at, task[t].saw, task[t].then, task[t].result),
             \/ Signalling(t)' /\ at # "mark"
             \/ at = task[t].then /\ task[t].at = "wake",
             task[t].at = "mark" => gen'[g].explicit_stop
      PROVE  IInv'
  <2>1. TaskState(t)'
    BY <1>1, <1>2, <1>3, <1>4, <1>5, <1>6, <1>8 DEF Moved, Same
  <2>2. CallState(t)'
    BY <1>1, <1>2, <1>3, <1>4, <1>5, <1>8 DEF Moved, Same
  <2>3. QED
    BY <1>2, <1>3, <1>5, <1>7, <1>8, <2>1, <2>2, Frame DEF Moved
<1>9. CASE Mark(t)
  <2>1. At(t, "mark") /\ Moved(t, "shut", task[t].saw, task[t].then, task[t].result)
    BY <1>9, Moves DEF Mark, Places
  <2>2. QED
    BY <1>5, <1>8, <1>9, <2>1 DEF Moved, Places
<1>10. CASE Shut(t)
  <2>1. At(t, "shut") /\ Moved(t, "wake", task[t].saw, task[t].then, task[t].result)
    BY <1>10, Moves DEF Shut, Places
  <2>2. QED
    BY <1>8, <2>1 DEF Moved, Places
<1>11. CASE Wake(t)
  <2>1. At(t, "wake") /\ Goto(t, task[t].then) /\ task[t].then \in Places
    BY <1>2, <1>11 DEF Wake, Places
  <2>2. Moved(t, task[t].then, task[t].saw, task[t].then, task[t].result)
    BY <2>1, Moves
  <2>3. QED
    BY <1>8, <2>1, <2>2
<1>12. QED
  BY <1>9, <1>10, <1>11

(* A stop succeeds only when nothing is left to stop.                      *)
LEMMA StoppedKeeps ==
  ASSUME IInv, NEW t \in Tasks, Stopped(t)
  PROVE  IInv' /\ Quiet
<1> USE DEF IInv
<1>1. TaskState(t) /\ CallState(t) /\ task[t] \in Task /\ At(t, "stopped")
  BY DEF Structure, Calls, TypeOK, Stopped
<1>2. Quiet /\ operation = t /\ (published # 0 => gen[published].explicit_stop)
  BY <1>1 DEF TaskState, CallState, Holds, Locked, At
<1>3. UNCHANGED <<published, socket, gen>> /\ status' = "Stopped" /\ stop_requested' = FALSE
  BY DEF Stopped
<1>4. Same /\ Quiet'
  BY <1>2, <1>3 DEF Same, TypeOK, Quiet, Active
<1>5. PICK at \in {"start", "done"}, result \in Outcomes :
        /\ Moved(t, at, task[t].saw, task[t].then, result)
        /\ operation' = operation \/ operation' = NoTask
        /\ at = "start" => task[t].op = "restart" /\ operation' = operation /\ since' = since
        /\ at = "done" => since' = {c \in since : ~At(c, "done")}
  <2>1. CASE task[t].op = "restart"
    BY <1>1, <2>1, Moves DEF Stopped, Places, Task
  <2>2. CASE task[t].op # "restart"
    BY <2>2, Returns DEF Stopped, Outcomes
  <2>3. QED
    BY <2>1, <2>2
<1>6. since' \subseteq since /\ \A s \in since : ~At(s, "done") => s \in since'
  BY <1>5
<1>7. TaskState(t)'
  BY <1>1, <1>2, <1>3, <1>5
  DEF Moved, TaskState, Signalling, Toward, At, Holds, Launching, Locked
<1>8. CallState(t)'
  BY <1>1, <1>5, <1>6 DEF Moved, CallState, Signalling, Toward, At, Holds, Locked, Starting
<1>9. TypeOK'
  BY <1>3, <1>4, <1>5, <1>6 DEF TypeOK, Same, Moved, Others
<1>10. Structure'
  BY <1>2, <1>3, <1>4, <1>5, <1>7, FrameStructure DEF Moved
<1>11. Halted'
  <2> SUFFICES ASSUME since' = {}, NEW g \in Generations
               PROVE  task'[g].at \in {"idle", "locking", "recover", "done"}
    BY <1>2, <1>3, <1>4 DEF Halted
  <2>1. CASE g = t
    <3>1. task[t].op = "recover"
      BY <1>1, <2>1 DEF CallState
    <3>2. QED
      BY <1>5, <2>1, <3>1 DEF Moved
  <2>2. CASE g # t
    <3>1. g \in Tasks /\ Holds(t)
      BY <1>1 DEF Tasks, Holds, Locked, At
    <3>2. ~Holds(g) /\ CallState(g) /\ task'[g] = task[g]
      BY <1>5, <2>2, <3>1, Exclusion DEF Calls, Moved, Others
    <3>3. QED
      BY <3>2 DEF CallState
  <2>3. QED
    BY <2>1, <2>2
<1>12. Calls'
  BY <1>4, <1>5, <1>6, <1>8, <1>11, FrameCalls DEF Moved
<1>13. QED
  BY <1>2, <1>9, <1>10, <1>12

(* A recovery that has been overtaken gives up.                            *)
LEMMA RecoverKeeps ==
  ASSUME IInv, NEW g \in Generations, Recover(g)
  PROVE  IInv'
<1> USE DEF IInv
<1>1. /\ g \in Tasks /\ At(g, "recover") /\ TaskState(g) /\ CallState(g)
      /\ task[g].op = "recover" /\ operation = g
  BY DEF Tasks, Recover, Structure, Calls, CallState, TaskState, Holds, Locked, At
<1>2. UNCHANGED <<stop_requested, status, published, socket, gen, since>>
  BY DEF Recover
<1>3. Same /\ stop_requested' \in BOOLEAN
  BY <1>2 DEF Same, TypeOK
<1>4. CASE Superseded(g)
  <2>1. Moved(g, "done", task[g].saw, task[g].then, "none") /\ operation' = NoTask
    BY <1>1, <1>4, Returns DEF Recover, Outcomes
  <2>2. TaskState(g)' /\ CallState(g)'
    BY <1>1, <2>1 DEF Moved, TaskState, CallState, Signalling, Toward, At, Holds, Launching,
                      Locked, Starting
  <2>3. QED
    BY <1>1, <1>2, <1>3, <2>1, <2>2, Frame DEF Moved
<1>5. CASE ~Superseded(g)
  <2>1. Moved(g, "start", task[g].saw, task[g].then, task[g].result) /\ operation' = operation
    BY <1>1, <1>5, Moves DEF Recover, Places
  <2>2. since # {}
    BY <1>5, ProxyAssumption DEF Calls, Halted, Superseded, Generations
  <2>3. TaskState(g)' /\ CallState(g)'
    BY <1>1, <2>1 DEF Moved, TaskState, CallState, Signalling, Toward, At, Holds, Launching,
                      Locked, Starting
  <2>4. QED
    BY <1>1, <1>2, <1>3, <2>1, <2>2, <2>3, Frame DEF Moved
<1>6. QED
  BY <1>4, <1>5

(* The steps from publication to launch, which change the last generation  *)
(* while the others are at rest.                                           *)
LEMMA LaunchKeeps ==
  ASSUME IInv, NEW t \in Tasks,
         Publish(t) \/ Bind(t) \/ BindFails(t) \/ SpawnOwner(t)
  PROVE  IInv'
<1> USE DEF IInv
<1>1. TaskState(t) /\ CallState(t) /\ task[t] \in Task /\ gen \in [Generations -> Generation]
  BY DEF Structure, Calls, TypeOK
<1>2. /\ task[t].at \in {"publish", "bind", "spawn"} /\ Holds(t) /\ operation = t /\ Quiet
      /\ stop_requested' = stop_requested /\ since' = since
  BY <1>1 DEF Publish, Bind, BindFails, SpawnOwner, TaskState, Launching, Toward, Holds, Locked, At
<1>3. /\ since # {} /\ task[t].op # "stop"
      /\ task[t].op \in {"start", "restart"} => t \in since
  BY <1>1, <1>2, NothingStarts DEF Starting, CallState, At
<1>4. published \in 0 .. MaxGenerations /\ MaxGenerations \in Nat
  BY ProxyAssumption DEF TypeOK
<1>5. \A g \in Generations :
        ~Active(g) /\ OwnerState(gen[g]) /\ gen[g].retirement # "err"
        /\ gen[g].upstream \in {"none", "retired"}
  BY <1>2 DEF Quiet, Structure
\* What remains to be shown of each step.
<1>6. ASSUME NEW at \in {"bind", "recheck", "startup", "done"}, NEW saw, NEW then, NEW result,
             Moved(t, at, saw, then, result), TaskState(t)', TypeOK',
             \A g \in Generations : OwnerState(gen[g])', Succession',
             \A g \in Generations : Active(g)' => g = published',
             SocketIsOwned', FailedState'
      PROVE  IInv'
  <2>1. CallState(t)'
    BY <1>1, <1>2, <1>3, <1>6
    DEF Moved, CallState, Signalling, Toward, At, Holds, Locked, Starting
  <2>2. \A s \in Tasks : TaskState(s)' /\ CallState(s)'
    BY <1>2, <1>6, <2>1, FrameOthers DEF Moved
  <2>3. Halted'
    BY <1>2, <1>3 DEF Halted
  <2>4. QED
    BY <1>6, <2>2, <2>3 DEF Structure, Calls
<1>7. CASE Publish(t)
  <2> DEFINE r == [task[t] EXCEPT !.at = "bind", !.saw = published + 1]
  <2>1. /\ At(t, "publish") /\ published < MaxGenerations /\ published' = published + 1
        /\ status' = "Starting" /\ UNCHANGED <<operation, stop_requested, socket, gen, since>>
        /\ published + 1 \in Generations
    BY <1>4, <1>7 DEF Publish, Generations
  <2>2. r \in Task /\ task' = [task EXCEPT ![t] = r]
    BY <1>1, <1>7, <2>1 DEF Publish, Task, Places
  <2>3. Others(t) /\ task'[t] = r
    BY <2>2 DEF Others, TypeOK
  <2>4. Moved(t, "bind", published + 1, task[t].then, task[t].result)
    BY <1>1, <2>3 DEF Moved, Task
  <2> HIDE DEF r
  <2>5. gen[published + 1].owner = "none" /\ gen[published + 1].completion = "none"
    BY <1>4, <2>1 DEF Structure, Succession
  <2>6. Quiet'
    BY <1>2, <2>1 DEF Quiet, Active
  <2>7. TaskState(t)'
    BY <1>2, <1>4, <2>1, <2>4, <2>5, <2>6
    DEF Moved, TaskState, Signalling, Toward, At, Holds, Launching, Locked
  <2>8. TypeOK'
    BY <1>4, <2>1, <2>4 DEF TypeOK, Moved, Others
  <2>9. Succession'
    BY <1>4, <1>5, <2>1 DEF Structure, Succession, Active, Generations
  <2>10. /\ \A g \in Generations : OwnerState(gen[g])' /\ ~Active(g)'
         /\ SocketIsOwned' /\ FailedState'
    BY <1>5, <2>1 DEF SocketIsOwned, FailedState, Active
  <2>11. QED
    BY <1>6, <2>4, <2>7, <2>8, <2>9, <2>10
<1>8. CASE Bind(t)
  <2>1. /\ At(t, "bind") /\ socket' = task[t].saw
        /\ UNCHANGED <<operation, stop_requested, status, published, gen, since>>
        /\ Moved(t, "recheck", task[t].saw, task[t].then, task[t].result)
    BY <1>8, Moves DEF Bind, Places
  <2>2. /\ task[t].saw = published /\ published # 0
        /\ gen[published].owner = "none" /\ gen[published].completion = "none"
    BY <1>1, <2>1 DEF TaskState, Launching
  <2>3. Quiet'
    BY <1>2, <2>1 DEF Quiet, Active
  <2>4. TaskState(t)'
    BY <1>2, <2>1, <2>2, <2>3
    DEF Moved, TaskState, Signalling, Toward, At, Holds, Launching, Locked
  <2>5. TypeOK'
    BY <1>4, <2>1, <2>2 DEF TypeOK, Moved, Others
  <2>6. /\ \A g \in Generations : OwnerState(gen[g])' /\ ~Active(g)'
        /\ SocketIsOwned' /\ FailedState' /\ Succession'
    BY <1>5, <2>1 DEF Structure, SocketIsOwned, FailedState, Active, Succession
  <2>7. QED
    BY <1>6, <2>1, <2>4, <2>5, <2>6
<1> DEFINE p == task[t].saw
<1>9. CASE BindFails(t)
  <2>1. /\ At(t, "bind") /\ status' = "Stopped" /\ Return(t, "err")
        /\ UNCHANGED <<stop_requested, published, socket, since>>
    BY <1>9 DEF BindFails
  <2>2. Moved(t, "done", task[t].saw, task[t].then, "err") /\ operation' = NoTask
    BY <2>1, Returns DEF Outcomes
  <2>3. p = published /\ p \in Generations /\ gen[p].owner = "none"
    BY <1>1, <1>4, <2>1 DEF TaskState, Launching, Generations
  <2> DEFINE r == [gen[p] EXCEPT !.startup = "err", !.shutdown = TRUE, !.completion = "ok"]
  <2>4. r \in Generation /\ gen' = [gen EXCEPT ![p] = r]
    <3>1. r \in Generation
      <4>1. gen[p] \in Generation
        BY <1>1, <2>3
      <4>2. [gen[p] EXCEPT !.startup = "err"] \in Generation
        BY <4>1 DEF Generation, Outcomes
      <4>3. [gen[p] EXCEPT !.startup = "err", !.shutdown = TRUE] \in Generation
        BY <4>2 DEF Generation
      <4>4. QED
        BY <4>3 DEF Generation, Outcomes
    <3>2. gen' = [gen EXCEPT ![p] = r]
      BY <1>9 DEF BindFails
    <3>3. QED
      BY <3>1, <3>2
  <2>5. /\ gen' \in [Generations -> Generation] /\ gen'[p] = r
        /\ \A g \in Generations : g # p => gen'[g] = gen[g]
    BY <1>1, <2>3, <2>4
  <2>6. /\ gen'[p].owner = "none" /\ gen'[p].upstream = gen[p].upstream
        /\ gen'[p].retirement = gen[p].retirement /\ gen'[p].completion = "ok"
    BY <1>1, <2>3, <2>5 DEF Generation
  <2> HIDE DEF r
  <2>7. TaskState(t)'
    BY <2>2 DEF Moved, TaskState, Signalling, Toward, At, Holds, Launching, Locked
  <2>8. TypeOK'
    BY <1>4, <2>1, <2>2, <2>5 DEF TypeOK, Moved, Others
  <2>9. ASSUME NEW g \in Generations
        PROVE  OwnerState(gen[g])' /\ ~Active(g)'
    BY <1>5, <2>3, <2>5, <2>6 DEF OwnerState, Active
  <2>10. Succession'
    BY <1>4, <1>5, <2>1, <2>3, <2>5 DEF Structure, Succession, Active, Generations
  <2>11. SocketIsOwned' /\ FailedState'
    BY <1>5, <2>1, <2>9 DEF SocketIsOwned, FailedState, Active
  <2>12. QED
    BY <1>6, <2>2, <2>7, <2>8, <2>9, <2>10, <2>11
<1>10. CASE SpawnOwner(t)
  <2>1. /\ At(t, "spawn")
        /\ UNCHANGED <<operation, stop_requested, status, published, socket, since>>
        /\ Moved(t, "startup", task[t].saw, task[t].then, task[t].result)
    BY <1>10, Moves DEF SpawnOwner, Places
  <2>2. /\ p = published /\ p \in Generations /\ p # 0 /\ socket = p
        /\ gen[p].owner = "none" /\ gen[p].completion = "none"
    BY <1>1, <1>4, <2>1 DEF TaskState, Launching, Toward, At, Generations
  <2> DEFINE r == [gen[p] EXCEPT !.owner = "setup", !.upstream = "starting"]
  <2>3. r \in Generation /\ gen' = [gen EXCEPT ![p] = r]
    <3>1. gen[p] \in Generation
      BY <1>1, <2>2
    <3>2. gen' = [gen EXCEPT ![p] = r]
      BY <1>10 DEF SpawnOwner
    <3> HIDE DEF IInv, p
    <3>3. r \in Generation
      BY <3>1 DEF Generation, OwnerPlaces
    <3>4. QED
      BY <3>2, <3>3
  <2>4. /\ gen' \in [Generations -> Generation] /\ gen'[p] = r
        /\ \A g \in Generations : g # p => gen'[g] = gen[g]
    BY <1>1, <2>2, <2>3
  <2>5. /\ gen'[p].owner = "setup" /\ gen'[p].upstream = "starting"
        /\ gen'[p].retirement = gen[p].retirement /\ gen'[p].completion = "none"
    BY <1>1, <2>2, <2>4 DEF Generation
  <2> HIDE DEF r
  <2>6. TaskState(t)'
    BY <1>2, <2>1, <2>2 DEF Moved, TaskState, Signalling, Toward, At, Holds, Launching, Locked
  <2>7. TypeOK'
    BY <1>4, <2>1, <2>4 DEF TypeOK, Moved, Others
  <2>8. ASSUME NEW g \in Generations
        PROVE  OwnerState(gen[g])' /\ (Active(g)' => g = published')
    BY <1>5, <2>1, <2>2, <2>4, <2>5 DEF OwnerState, Active
  <2>9. Succession'
    BY <1>4, <1>5, <2>1, <2>2, <2>4 DEF Structure, Succession, Active, Generations
  <2>10. SocketIsOwned'
    BY <2>1, <2>2, <2>8 DEF SocketIsOwned, Active
  <2>11. FailedState'
    BY <1>5, <2>1, <2>2 DEF Structure, FailedState
  <2>12. QED
    BY <1>6, <2>1, <2>6, <2>7, <2>8, <2>9, <2>10, <2>11
<1>11. QED
  BY <1>7, <1>8, <1>9, <1>10

-----------------------------------------------------------------------------
(* The invariant and what follows from it.                                 *)

(* An owner's step keeps the invariant.                                    *)
LEMMA OwnerInvariant ==
  ASSUME IInv, NEW g \in Generations, OwnerStep(g) \/ OwnerEvent(g)
  PROVE  IInv' /\ Changed(g) /\ Left(g)
<1>1. Changed(g)
  BY OwnerChanges DEF IInv, Structure
<1>2. Left(g)
  BY <1>1, OwnerLeaves DEF IInv
<1>3. QED
  BY <1>1, <1>2, OwnerTypes, OwnerKeeps DEF IInv

(* A call's step keeps the invariant.                                      *)
LEMMA StepInvariant ==
  ASSUME IInv, NEW t \in Tasks, Step(t)
  PROVE  IInv'
<1>1. CASE Mark(t) \/ Shut(t) \/ Wake(t)
  BY <1>1, SignalKeeps
<1>2. CASE \/ Lock(t) \/ StopLocked(t) \/ AwaitRetirement(t) \/ Start(t) \/ Previous(t)
           \/ Recheck(t) \/ AwaitStartup(t)
  BY <1>2, LockedKeeps
<1>3. CASE Stopped(t)
  BY <1>3, StoppedKeeps
<1>4. CASE Publish(t) \/ Bind(t) \/ BindFails(t) \/ SpawnOwner(t)
  BY <1>4, LaunchKeeps
<1>5. QED
  BY <1>1, <1>2, <1>3, <1>4 DEF Step

(* Every step keeps the invariant.                                         *)
LEMMA NextInvariant ==
  ASSUME IInv, [Next]_vars
  PROVE  IInv'
<1>1. ASSUME UNCHANGED vars
      PROVE  IInv'
  <2>1. TypeOK'
    BY <1>1 DEF vars, IInv, TypeOK
  <2>2. Structure'
    BY <1>1 DEF vars, IInv, Structure, Succession, Active, SocketIsOwned, FailedState, TaskState,
                Quiet, Launching, Toward, Signalling, Holds, At
  <2>3. Calls'
    BY <1>1 DEF vars, IInv, Calls, Halted, CallState, Quiet, Active, Toward, Signalling, Holds, At
  <2>4. QED
    BY <2>1, <2>2, <2>3 DEF IInv
<1>2. QED
  BY <1>1, CallKeeps, RequestStopKeeps, StepInvariant, RecoverKeeps, OwnerInvariant
  DEF Next, AtRest

(* A proxy begins stopped, with nothing published.                         *)
LEMMA InitInvariant == Init => IInv
<1> SUFFICES ASSUME Init
             PROVE  IInv
  OBVIOUS
<1>1. TypeOK
  <2>1. gen \in [Generations -> Generation]
    BY DEF Init, Generation, OwnerPlaces, Outcomes
  <2>2. task \in [Tasks -> Task]
    <3>1. ASSUME NEW t \in Tasks
          PROVE  [op |-> IF t \in Generations THEN "recover" ELSE "none", at |-> "idle",
                  saw |-> 0, then |-> "idle", result |-> "none"] \in Task
      BY DEF Task, Places, Outcomes
    <3>2. QED
      BY <3>1 DEF Init
  <2>3. /\ operation = NoTask /\ stop_requested = FALSE /\ status = "Stopped"
        /\ published = 0 /\ socket = 0 /\ since = {}
    BY DEF Init
  <2>4. 0 \in 0 .. MaxGenerations
    BY ProxyAssumption
  <2>5. QED
    BY <2>1, <2>2, <2>3, <2>4 DEF TypeOK
<1>2. ASSUME NEW g \in Generations
      PROVE  /\ gen[g].owner = "none" /\ gen[g].upstream = "none"
             /\ gen[g].retirement = "none" /\ gen[g].completion = "none" /\ g > published
  BY DEF Init, Generations
<1>3. \A g \in Generations : OwnerState(gen[g]) /\ ~Active(g)
  BY <1>2 DEF OwnerState, Active
<1>4. Succession /\ SocketIsOwned /\ Quiet
  BY <1>2 DEF Succession, SocketIsOwned, Quiet, Active, Generations
<1>5. FailedState
  BY DEF Init, FailedState
<1>6. ASSUME NEW t \in Tasks
      PROVE  /\ task[t].at = "idle" /\ task[t].result = "none"
             /\ task[t].op = IF t \in Generations THEN "recover" ELSE "none"
  BY DEF Init
<1>7. ASSUME NEW t \in Tasks
      PROVE  TaskState(t) /\ CallState(t)
  BY <1>6 DEF TaskState, CallState, Signalling, Toward, At, Holds, Launching, Locked, Starting
<1>8. Halted
  BY <1>4, <1>6 DEF Init, Halted, Tasks
<1>9. QED
  BY <1>1, <1>3, <1>4, <1>5, <1>7, <1>8 DEF IInv, Structure, Calls

(* The invariant holds in every behaviour.                                 *)
THEOREM Invariance == Spec => []IInv
  BY InitInvariant, NextInvariant, PTL DEF Spec

(* The state keeps its types (socket_proxy_generation.rs, Generation): no  *)
(* call, channel or upstream is ever in a state the code could not name.   *)
THEOREM TypeCorrect == Spec => []TypeOK
<1>1. IInv => TypeOK
  BY DEF IInv
<1>2. QED
  BY <1>1, Invariance, PTL

(* No retiring generation removes the path its replacement has bound: the  *)
(* socket belongs to the owner at work (spawn_owner_with, remove_file).    *)
THEOREM SocketCorrect == Spec => []SocketIsOwned
<1>1. IInv => SocketIsOwned
  BY DEF IInv, Structure
<1>2. QED
  BY <1>1, Invariance, PTL

(* After a successful stop nothing runs until somebody asks for it: pending*)
(* recoveries are superseded (recover, request_stop).                      *)
THEOREM StopSticksCorrect == Spec => []StopSticks
<1>1. IInv => StopSticks
  BY DEF IInv, Calls, Halted, Quiet, StopSticks, LiveGenerations, Live
<1>2. QED
  BY <1>1, Invariance, PTL

(* FailureIsFinal, of one step.                                            *)
LEMMA FailedStays ==
  ASSUME IInv, [Next]_vars, status = "Failed"
  PROVE  status' = "Failed"
<1>1. /\ gen[published].owner \in {"retired", "done"} /\ published \in Generations
      /\ gen[published].retirement = "err" /\ ~Quiet
  BY ProxyAssumption DEF IInv, TypeOK, Structure, FailedState, Quiet, Generations
<1>2. ASSUME NEW t \in Tasks
      PROVE  ~At(t, "publish") /\ ~At(t, "bind") /\ ~At(t, "stopped")
  BY <1>1 DEF IInv, Structure, TaskState, Launching
<1>3. ASSUME NEW g \in Generations, OwnerStep(g) \/ OwnerEvent(g)
      PROVE  status' = "Failed"
  <2>1. Changed(g) /\ Left(g)
    BY <1>3, OwnerInvariant
  <2>2. gen[g].owner = "retired"
    BY <1>1, <2>1 DEF Changed, Active, IInv, Structure
  <2>3. QED
    BY <2>1, <2>2 DEF Left
<1>4. ASSUME NEW t \in Tasks, Step(t)
      PROVE  status' = status
  BY <1>2, <1>4 DEF Step, Mark, Shut, Wake, Lock, StopLocked, AwaitRetirement, Stopped, Start,
     Previous, Publish, Bind, BindFails, Recheck, SpawnOwner, AwaitStartup
<1>5. ASSUME NEW c \in Callers, Call(c) \/ RequestStop(c)
      PROVE  status' = status
  BY <1>5 DEF Call, RequestStop, Request, Read
<1>6. ASSUME NEW g \in Generations, Recover(g)
      PROVE  status' = status
  BY <1>6 DEF Recover
<1>7. QED
  BY <1>3, <1>4, <1>5, <1>6 DEF Next, AtRest, vars

(* A failed retirement is permanent, whoever calls next (start_locked).    *)
THEOREM FailureCorrect == Spec => FailureIsFinal
<1>1. IInv /\ [Next]_vars => (status = "Failed" => status' = "Failed")
  BY FailedStays
<1>2. QED
  BY <1>1, Invariance, PTL DEF Spec, FailureIsFinal

(* No other step returns success to a stop.                                *)
LEMMA OnlyStoppedSucceeds ==
  ASSUME IInv, NEW c \in Callers, task[c].op = "stop", ~At(c, "done"), [Next]_vars,
         task'[c].result = "ok"
  PROVE  Stopped(c)
<1>1. c \in Tasks /\ c \notin Generations
  BY ProxyAssumption DEF Tasks, Generations
<1>2. CallState(c) /\ task[c].result = "none" /\ task[c].at \notin Starting
  BY <1>1 DEF IInv, Calls, CallState
<1>3. task \in [Tasks -> Task]
  BY DEF IInv, TypeOK
<1>4. ASSUME NEW g \in Generations, OwnerStep(g) \/ OwnerEvent(g)
      PROVE  FALSE
  <2>1. task'[c] = task[c]
    BY <1>1, <1>3, <1>4, OwnerInvariant DEF Left
  <2>2. QED
    BY <1>2, <2>1
<1>5. ASSUME NEW t \in Tasks, Step(t), ~Stopped(t)
      PROVE  task'[c].result \in {"none", "err"}
  <2> USE <1>1, <1>2, <1>3, <1>5 DEF Task, Goto, Signal, Return
  <2>1. CASE Mark(t) \/ Shut(t) \/ Wake(t)
    BY <2>1 DEF Mark, Shut, Wake
  <2>2. CASE Lock(t)
    BY <2>2 DEF Lock
  <2>3. CASE StopLocked(t)
    BY <2>3 DEF StopLocked
  <2>4. CASE AwaitRetirement(t)
    BY <2>4 DEF AwaitRetirement
  <2>5. CASE Start(t)
    BY <2>5 DEF Start
  <2>6. CASE Previous(t)
    BY <2>6 DEF Previous
  <2>7. CASE Publish(t)
    BY <2>7 DEF Publish
  <2>8. CASE Bind(t) \/ SpawnOwner(t)
    BY <2>8 DEF Bind, SpawnOwner
  <2>9. CASE BindFails(t)
    BY <2>9 DEF BindFails
  <2>10. CASE Recheck(t)
    BY <2>10 DEF Recheck
  <2>11. CASE AwaitStartup(t)
    <3>1. t # c
      BY <2>11 DEF AwaitStartup, Starting, At
    <3>2. QED
      BY <2>11, <3>1 DEF AwaitStartup
  <2>12. QED
    BY <2>1, <2>2, <2>3, <2>4, <2>5, <2>6, <2>7, <2>8, <2>9, <2>10, <2>11 DEF Step
<1>6. ASSUME NEW d \in Callers, Call(d) \/ RequestStop(d)
      PROVE  task'[c].result = "none"
  <2>1. d \in Tasks
    BY DEF Tasks
  <2>2. CASE Call(d)
    BY <1>1, <1>2, <1>3, <2>1, <2>2 DEF Call, Task
  <2>3. CASE RequestStop(d)
    BY <1>1, <1>2, <1>3, <2>1, <2>3 DEF RequestStop, Request, Read, Goto, Signal, Task
  <2>4. QED
    BY <1>6, <2>2, <2>3
<1>7. ASSUME NEW g \in Generations, Recover(g)
      PROVE  task'[c].result = "none"
  BY <1>1, <1>2, <1>3, <1>7 DEF Recover, Goto, Return, Task
<1>8. ASSUME NEW t \in Tasks, Stopped(t), t # c
      PROVE  task'[c].result = "none"
  BY <1>1, <1>2, <1>3, <1>8 DEF Stopped, Goto, Return, Task
<1>9. ASSUME UNCHANGED vars
       PROVE  task'[c].result = "none"
  BY <1>2, <1>9 DEF vars
<1>10. QED
  BY <1>4, <1>5, <1>6, <1>7, <1>8, <1>9 DEF Next, AtRest

(* StopRetires, of one step.                                               *)
LEMMA StopLeavesNothing ==
  ASSUME IInv, [Next]_vars, NEW c \in Callers, task[c].op = "stop", ~At(c, "done"),
         task'[c].result = "ok"
  PROVE  LiveGenerations' = {}
<1>1. Stopped(c) /\ c \in Tasks
  BY OnlyStoppedSucceeds DEF Tasks
<1>2. Quiet /\ gen' = gen
  BY <1>1, StoppedKeeps DEF Stopped
<1>3. QED
  BY <1>2 DEF Quiet, LiveGenerations, Live

(* A stop that succeeds has seen the last upstream retire (stop_locked).   *)
THEOREM StopCorrect == Spec => StopRetires
<1>1. IInv /\ [Next]_vars =>
        \A c \in Callers :
          task[c].op = "stop" /\ ~At(c, "done") /\ task'[c].result = "ok"
            => LiveGenerations' = {}
  BY StopLeavesNothing
<1>2. QED
  BY <1>1, Invariance, PTL DEF Spec, StopRetires

-----------------------------------------------------------------------------
(* The refinement of UpstreamOwnership.                                    *)

\* The generations launched have a last one, which LastLaunched names.
HasLast == Launched = {} \/ \E g \in Launched : \A h \in Launched : h <= g

\* What the abstract state is, given the invariant.
View ==
  /\ Holder = IF published # 0 /\ gen[published].upstream \in Live THEN published ELSE 0
  /\ Blocked <=> \E g \in Generations : gen[g].retirement = "err"
  /\ \A g \in Launched : (\A h \in Launched : h <= g) => LastLaunched = g

(* Only the last generation may have an upstream.                          *)
LEMMA HolderIs ==
  ASSUME TypeOK, Structure
  PROVE  Holder = IF published # 0 /\ gen[published].upstream \in Live THEN published ELSE 0
<1>1. ASSUME NEW g \in LiveGenerations
      PROVE  g = published /\ g \in Generations /\ gen[g].upstream \in Live
  <2>1. g \in Generations /\ gen[g].upstream \in Live
    BY DEF LiveGenerations
  <2>2. OwnerState(gen[g])
    BY <2>1 DEF Structure
  <2>3. ~(g < published)
    BY <2>1 DEF Structure, Succession, Live
  <2>4. ~(g > published)
    BY <2>1, <2>2 DEF Structure, Succession, Live, OwnerState
  <2>5. QED
    BY <2>1, <2>3, <2>4, ProxyAssumption DEF TypeOK, Generations
<1>2. CASE LiveGenerations = {}
  <2>1. published # 0 => published \in Generations
    BY ProxyAssumption DEF TypeOK, Generations
  <2>2. ~(published # 0 /\ gen[published].upstream \in Live)
    BY <1>2, <2>1 DEF LiveGenerations
  <2>3. QED
    BY <1>2, <2>2 DEF Holder
<1>3. CASE LiveGenerations # {}
  <2>1. (CHOOSE g \in LiveGenerations : TRUE) \in LiveGenerations
    BY <1>3
  <2>2. Holder = published /\ published \in Generations /\ gen[published].upstream \in Live
    BY <1>1, <1>3, <2>1 DEF Holder
  <2>3. QED
    BY <2>2 DEF Generations
<1>4. QED
  BY <1>2, <1>3

(* What cannot be verified is recorded as a failed retirement.             *)
LEMMA BlockedIs ==
  ASSUME TypeOK, Structure
  PROVE  Blocked <=> \E g \in Generations : gen[g].retirement = "err"
<1>1. ASSUME NEW g \in Generations, gen[g].upstream = "unverified"
      PROVE  gen[g].retirement = "err"
  BY <1>1 DEF Structure, OwnerState
<1>2. QED
  BY <1>1 DEF Blocked

(* A last generation is the last generation.                               *)
LEMMA LastIs ==
  ASSUME NEW g \in Launched, \A h \in Launched : h <= g
  PROVE  LastLaunched = g
<1> DEFINE last == CHOOSE k \in Launched : \A h \in Launched : h <= k
<1>1. last \in Launched /\ \A h \in Launched : h <= last
  OBVIOUS
<1>2. last \in Int /\ g \in Int
  BY <1>1 DEF Launched, Generations
<1>3. last <= g /\ g <= last
  BY <1>1
<1>4. last = g
  BY <1>2, <1>3
<1>5. Launched # {}
  OBVIOUS
<1>6. QED
  BY <1>4, <1>5 DEF LastLaunched

(* What the abstract state is, in every state of the invariant.            *)
LEMMA ViewIs == IInv => View
  BY HolderIs, BlockedIs, LastIs DEF IInv, View

(* The same of the next state.                                             *)
LEMMA ViewIsNext == IInv' => View'
  BY ViewIs, PTL

(* Only published generations have been launched.                          *)
LEMMA LaunchedArePublished ==
  ASSUME TypeOK, Structure, NEW g \in Launched
  PROVE  g \in Generations /\ g <= published
<1>1. g \in Generations /\ gen[g].upstream # "none" /\ OwnerState(gen[g])
  BY DEF Launched, Structure
<1>2. ~(g > published)
  BY <1>1 DEF Structure, Succession, OwnerState
<1>3. QED
  BY <1>1, <1>2, ProxyAssumption DEF TypeOK, Generations

\* No upstream and no retirement changes.
Stutters ==
  \A g \in Generations : /\ gen'[g].upstream = gen[g].upstream
                         /\ gen'[g].retirement = gen[g].retirement

(* What a stutter leaves alone.                                            *)
LEMMA StutterMaps ==
  ASSUME Stutters
  PROVE  UNCHANGED <<Holder, LastLaunched, Blocked>> /\ Launched' = Launched
<1>1. LiveGenerations' = LiveGenerations
  BY DEF Stutters, LiveGenerations
<1>2. Launched' = Launched
  BY DEF Stutters, Launched
<1>3. Blocked' = Blocked
  BY DEF Stutters, Blocked
<1>4. Holder' = Holder
  BY <1>1 DEF Holder
<1>5. LastLaunched' = LastLaunched
  BY <1>2 DEF LastLaunched
<1>6. QED
  BY <1>2, <1>3, <1>4, <1>5

\* An owner keeps its upstream, retires it, or finds that it cannot tell.
Transition(g) ==
  /\ gen'[g].upstream # "none"
  /\ \/ /\ gen[g].upstream \in Live <=> gen'[g].upstream \in Live
        /\ gen[g].retirement = "err" => gen'[g].retirement = "err"
     \/ /\ gen[g].upstream \in Live
        /\ gen'[g].upstream = "retired"
        /\ gen[g].retirement # "err"
        /\ gen'[g].retirement # "err"

(* The step of an owner, seen from its upstream.                           *)
LEMMA OwnerTransitions ==
  ASSUME IInv, NEW g \in Generations, OwnerStep(g) \/ OwnerEvent(g)
  PROVE  Transition(g)
<1>1. gen \in [Generations -> Generation] /\ gen[g] \in Generation /\ OwnerState(gen[g])
  BY DEF IInv, TypeOK, Structure
<1>2. OwnerState(gen'[g]) /\ Active(g) /\ gen'[g].owner # "none"
  BY OwnerInvariant DEF Changed
<1>3. ASSUME gen'[g].upstream = gen[g].upstream,
             gen'[g].retirement = gen[g].retirement \/ gen'[g].retirement = "err"
      PROVE  Transition(g)
  BY <1>1, <1>2, <1>3 DEF Transition, OwnerState, Active
<1> USE DEF Generation, Owner, OwnerGoto
<1>4. CASE OwnerStarts(g) \/ OwnerAnnounces(g)
  BY <1>1, <1>3, <1>4 DEF OwnerStarts, OwnerAnnounces
<1>5. CASE OwnerLoops(g) \/ OwnerArms(g) \/ OwnerChecks(g) \/ OwnerIsWoken(g)
  BY <1>1, <1>3, <1>5 DEF OwnerLoops, OwnerArms, OwnerChecks, OwnerIsWoken
<1>6. CASE OwnerRecovers(g) \/ OwnerSeesExit(g) \/ OwnerLosesResponses(g)
  BY <1>1, <1>3, <1>6 DEF OwnerRecovers, OwnerSeesExit, OwnerLosesResponses
<1>7. CASE OwnerDrains(g) \/ OwnerRoutes(g)
  <2>1. CASE OwnerDrains(g)
    BY <1>1, <1>3, <2>1 DEF OwnerDrains
  <2>2. CASE OwnerRoutes(g)
    BY <1>1, <1>3, <2>2 DEF OwnerRoutes
  <2>3. QED
    BY <1>7, <2>1, <2>2
<1>8. CASE OwnerCloses(g) \/ OwnerCompletes(g)
  BY <1>1, <1>3, <1>8 DEF OwnerCloses, OwnerCompletes
<1>9. CASE OwnerJoins(g)
  BY <1>1, <1>3, <1>9 DEF OwnerJoins
<1>10. CASE SetupReturns(g)
  BY <1>1, <1>10 DEF SetupReturns, Transition, Live, OwnerState
<1>11. CASE SetupFails(g)
  BY <1>1, <1>11 DEF SetupFails, Transition, Live, OwnerState
<1>12. CASE UpstreamRetires(g)
  BY <1>1, <1>12 DEF UpstreamRetires, Transition, Live, OwnerState
<1>13. CASE UpstreamExits(g)
  BY <1>1, <1>13 DEF UpstreamExits, Transition, Live, OwnerState
<1>14. CASE OwnerPanics(g)
  BY <1>1, <1>2, <1>14 DEF OwnerPanics, Transition, Live, OwnerState, OwnerPlaces
<1>15. QED
  BY <1>4, <1>5, <1>6, <1>7, <1>8, <1>9, <1>10, <1>11, <1>12, <1>13, <1>14
  DEF OwnerStep, OwnerEvent

(* The step of an owner is a retirement, a block or a stutter.             *)
LEMMA OwnerMaps ==
  ASSUME IInv, HasLast, NEW g \in Generations, OwnerStep(g) \/ OwnerEvent(g)
  PROVE  [Ownership!Next]_(Ownership!vars) /\ HasLast'
<1>1. /\ IInv' /\ Changed(g) /\ published' = published /\ g = published
      /\ Transition(g) /\ published # 0
  BY OwnerInvariant, OwnerTransitions DEF Changed, Left, IInv, Structure, Generations
<1>2. gen[g].upstream # "none"
  BY <1>1 DEF IInv, Structure, Changed, Active, OwnerState
<1>3. Launched' = Launched
  BY <1>1, <1>2 DEF Launched, Changed, Transition
<1>4. LastLaunched' = LastLaunched /\ HasLast'
  BY <1>3 DEF LastLaunched, HasLast
<1>5. /\ Holder = IF gen[g].upstream \in Live THEN g ELSE 0
      /\ Holder' = IF gen'[g].upstream \in Live THEN g ELSE 0
  BY <1>1, ViewIs, ViewIsNext DEF View
<1>6. /\ Blocked \in BOOLEAN /\ Blocked' \in BOOLEAN
      /\ Blocked <=> gen[g].retirement = "err"
      /\ Blocked' <=> gen'[g].retirement = "err"
  <2>1. \A h \in Generations : h # g => gen'[h] = gen[h] /\ gen[h].retirement # "err"
    <3>1. ASSUME NEW h \in Generations, h # g
          PROVE  gen'[h] = gen[h] /\ gen[h].retirement # "err"
      BY <1>1, <3>1 DEF Changed, IInv, Structure, Succession, OwnerState, Generations
    <3>2. QED
      BY <3>1
  <2>2. Blocked <=> \E h \in Generations : gen[h].retirement = "err"
    BY ViewIs DEF View
  <2>3. Blocked' <=> \E h \in Generations : gen'[h].retirement = "err"
    BY <1>1, ViewIsNext DEF View
  <2>4. Blocked \in BOOLEAN /\ Blocked' \in BOOLEAN
    BY DEF Blocked
  <2>5. QED
    BY <2>1, <2>2, <2>3, <2>4
<1>7. CASE /\ gen[g].upstream \in Live
           /\ gen'[g].upstream = "retired" /\ gen[g].retirement # "err"
           /\ gen'[g].retirement # "err"
  <2>1. Holder # 0 /\ ~Blocked /\ Holder' = 0 /\ Blocked' = Blocked
    BY <1>1, <1>5, <1>6, <1>7 DEF Live
  <2>2. QED
    BY <1>4, <2>1 DEF Ownership!Next, Ownership!Retire
<1>8. CASE /\ gen[g].upstream \in Live <=> gen'[g].upstream \in Live
           /\ gen[g].retirement = "err" => gen'[g].retirement = "err"
  <2>1. Holder' = Holder
    BY <1>5, <1>8
  <2>2. Blocked' = Blocked \/ (~Blocked /\ Blocked' = TRUE)
    BY <1>6, <1>8
  <2>3. QED
    BY <1>4, <2>1, <2>2 DEF Ownership!Next, Ownership!Block, Ownership!vars
<1>9. QED
  BY <1>1, <1>7, <1>8 DEF Transition

(* The spawn of an owner is a launch, of a generation later than all.      *)
LEMMA SpawnMaps ==
  ASSUME IInv, HasLast, NEW t \in Tasks, SpawnOwner(t)
  PROVE  Ownership!Launch /\ HasLast'
<1> DEFINE p == task[t].saw
<1>1. At(t, "spawn") /\ TaskState(t) /\ published' = published
      /\ gen' = [gen EXCEPT ![p].owner = "setup", ![p].upstream = "starting"]
  BY DEF SpawnOwner, IInv, Structure
<1>2. p = published /\ p \in Generations /\ p # 0 /\ gen[p].owner = "none" /\ Quiet
  BY <1>1, ProxyAssumption DEF TaskState, Launching, Toward, IInv, TypeOK, Generations
<1>3. /\ gen \in [Generations -> Generation] /\ gen[p] \in Generation
      /\ gen[p].upstream = "none" /\ gen[p].retirement = "none"
  BY <1>2 DEF IInv, TypeOK, Structure, OwnerState
<1>4. /\ gen'[p].upstream = "starting" /\ gen'[p].retirement = "none"
      /\ \A g \in Generations : g # p => gen'[g] = gen[g]
  BY <1>1, <1>2, <1>3 DEF Generation
<1>5. IInv'
  BY LaunchKeeps
<1>6. Holder = 0 /\ Holder' = p
  BY <1>1, <1>2, <1>3, <1>4, <1>5, ViewIs, ViewIsNext DEF View, Live
<1>7. ~Blocked /\ ~Blocked' /\ Blocked' = Blocked
  <2>1. ~Blocked
    BY <1>2, ViewIs DEF Quiet, View
  <2>2. \A g \in Generations : gen'[g].retirement # "err"
    BY <1>2, <1>4 DEF Quiet
  <2>3. ~Blocked'
    BY <1>5, <2>2, ViewIsNext DEF View
  <2>4. QED
    BY <2>1, <2>3 DEF Blocked
<1>8. Launched' = Launched \cup {p} /\ p \notin Launched
  BY <1>2, <1>3, <1>4 DEF Launched
<1>9. ASSUME NEW g \in Launched
      PROVE  g < p
  BY <1>2, <1>8, LaunchedArePublished DEF IInv, Generations
<1>10. p \in Launched' /\ \A h \in Launched' : h <= p
  BY <1>2, <1>8, <1>9 DEF Launched, Generations
<1>11. LastLaunched' = p /\ HasLast'
  BY <1>5, <1>10, ViewIsNext DEF View, HasLast
<1>12. p > LastLaunched
  <2>1. CASE Launched = {}
    BY <1>2, <2>1 DEF LastLaunched, Generations
  <2>2. CASE Launched # {}
    <3>1. PICK g \in Launched : \A h \in Launched : h <= g
      BY <2>2 DEF HasLast
    <3>2. LastLaunched = g
      BY <3>1, ViewIs DEF View
    <3>3. QED
      BY <1>2, <1>9, <3>2 DEF Generations, Launched
  <2>3. QED
    BY <2>1, <2>2
<1>13. QED
  BY <1>2, <1>6, <1>7, <1>11, <1>12 DEF Ownership!Launch

(* Every other step leaves the abstract state alone.                       *)
LEMMA TaskMaps ==
  ASSUME IInv, NEW t \in Tasks, Step(t), ~SpawnOwner(t)
  PROVE  Stutters
<1>1. gen \in [Generations -> Generation]
  BY DEF IInv, TypeOK
<1>2. CASE Mark(t) \/ Shut(t)
  BY <1>1, <1>2 DEF Mark, Shut, Stutters, Generation
<1>3. CASE Wake(t)
  BY <1>1, <1>3 DEF Wake, Stutters, Generation, Registered
<1>4. CASE BindFails(t)
  BY <1>1, <1>4 DEF BindFails, Stutters, Generation
<1>5. CASE gen' = gen
  BY <1>5 DEF Stutters
<1>6. QED
  BY <1>2, <1>3, <1>4, <1>5
  DEF Step, Lock, StopLocked, AwaitRetirement, Stopped, Start, Previous, Publish, Bind, Recheck,
      AwaitStartup

(* Every step is one of the contract, or a stutter.                        *)
LEMMA NextMaps ==
  ASSUME IInv, HasLast, [Next]_vars
  PROVE  [Ownership!Next]_(Ownership!vars) /\ HasLast'
<1>1. ASSUME Stutters
      PROVE  [Ownership!Next]_(Ownership!vars) /\ HasLast'
  BY <1>1, StutterMaps DEF Ownership!vars, HasLast
<1>2. ASSUME NEW t \in Tasks, Step(t)
      PROVE  [Ownership!Next]_(Ownership!vars) /\ HasLast'
  BY <1>1, <1>2, TaskMaps, SpawnMaps DEF Ownership!Next
<1>3. ASSUME gen' = gen
      PROVE  Stutters
  BY <1>3 DEF Stutters
<1>4. QED
  BY <1>1, <1>2, <1>3, OwnerMaps
  DEF Next, AtRest, vars, Call, RequestStop, Request, Read, Recover

(* Nothing has been launched in the beginning.                             *)
LEMMA InitMaps == Init => HasLast /\ Ownership!Init
<1> SUFFICES ASSUME Init
             PROVE  HasLast /\ Ownership!Init
  OBVIOUS
<1>1. \A g \in Generations : gen[g].upstream = "none" /\ gen[g].retirement = "none"
  BY DEF Init
<1>2. Launched = {} /\ LiveGenerations = {} /\ Blocked = FALSE
  BY <1>1 DEF Launched, LiveGenerations, Live, Blocked
<1>3. QED
  BY <1>2 DEF HasLast, Holder, LastLaunched, Ownership!Init

-----------------------------------------------------------------------------
(* The refinement of UpstreamContract.                                     *)

\* What an owner may see of its upstream.
UpstreamTransition(g) ==
  \/ gen'[g].upstream = gen[g].upstream
  \/ gen[g].upstream = "starting" /\ gen'[g].upstream = "running"
  \/ gen[g].upstream = "running" /\ gen'[g].upstream = "exited"
  \/ /\ gen[g].upstream \in {"starting", "running", "exited"}
     /\ gen'[g].upstream \in {"retired", "unverified"}

LEMMA OwnerSees ==
  ASSUME IInv, NEW g \in Generations, OwnerStep(g) \/ OwnerEvent(g)
  PROVE  UpstreamTransition(g)
<1>1. gen \in [Generations -> Generation] /\ gen[g] \in Generation /\ OwnerState(gen[g])
  BY DEF IInv, TypeOK, Structure
<1> USE DEF Generation, Owner, OwnerGoto, UpstreamTransition
<1>2. CASE OwnerStarts(g) \/ OwnerAnnounces(g)
  BY <1>1, <1>2 DEF OwnerStarts, OwnerAnnounces
<1>3. CASE OwnerLoops(g) \/ OwnerArms(g) \/ OwnerChecks(g) \/ OwnerIsWoken(g)
  BY <1>1, <1>3 DEF OwnerLoops, OwnerArms, OwnerChecks, OwnerIsWoken
<1>4. CASE OwnerRecovers(g) \/ OwnerSeesExit(g) \/ OwnerLosesResponses(g)
  BY <1>1, <1>4 DEF OwnerRecovers, OwnerSeesExit, OwnerLosesResponses
<1>5. CASE OwnerDrains(g) \/ OwnerRoutes(g)
  <2>1. CASE OwnerDrains(g)
    BY <1>1, <2>1 DEF OwnerDrains
  <2>2. CASE OwnerRoutes(g)
    BY <1>1, <2>2 DEF OwnerRoutes
  <2>3. QED
    BY <1>5, <2>1, <2>2
<1>6. CASE OwnerCloses(g) \/ OwnerCompletes(g)
  BY <1>1, <1>6 DEF OwnerCloses, OwnerCompletes
<1>7. CASE OwnerJoins(g)
  BY <1>1, <1>7 DEF OwnerJoins
<1>8. CASE SetupReturns(g)
  BY <1>1, <1>8 DEF SetupReturns, OwnerState
<1>9. CASE SetupFails(g)
  BY <1>1, <1>9 DEF SetupFails, OwnerState
<1>10. CASE UpstreamRetires(g)
  BY <1>1, <1>10 DEF UpstreamRetires, OwnerState
<1>11. CASE UpstreamExits(g)
  BY <1>1, <1>11 DEF UpstreamExits
<1>12. CASE OwnerPanics(g)
  BY <1>1, <1>12 DEF OwnerPanics, OwnerState, OwnerPlaces
<1>13. QED
  BY <1>2, <1>3, <1>4, <1>5, <1>6, <1>7, <1>8, <1>9, <1>10, <1>11, <1>12 DEF OwnerStep, OwnerEvent

(* The contract's state, and what one generation's step makes of it.       *)
Stage == [g \in Generations |-> gen[g].upstream]
AliveOnes == [g \in Generations |-> IF gen[g].upstream \in Live THEN {g} ELSE {}]
NoTraffic == [g \in Generations |-> {}]

LEMMA ContractMoves ==
  ASSUME NEW g \in Generations, \A h \in Generations \ {g} : gen'[h].upstream = gen[h].upstream,
         UpstreamTransition(g) \/ (gen[g].upstream = "none" /\ gen'[g].upstream = "starting")
  PROVE  [Contract!Next]_(Contract!vars)
<1>1. /\ \A h \in Generations \ {g} : Stage'[h] = Stage[h] /\ AliveOnes'[h] = AliveOnes[h]
      /\ \A h \in Generations : NoTraffic'[h] = NoTraffic[h]
      /\ Stage[g] = gen[g].upstream /\ Stage'[g] = gen'[g].upstream
      /\ gen'[g].upstream \notin Live => AliveOnes'[g] = {}
  BY DEF Stage, AliveOnes, NoTraffic
<1>2. CASE gen'[g].upstream = gen[g].upstream
  <2>1. \A h \in Generations : gen'[h].upstream = gen[h].upstream
    BY <1>2
  <2>2. Stage' = Stage /\ AliveOnes' = AliveOnes /\ NoTraffic' = NoTraffic
    BY <2>1 DEF Stage, AliveOnes, NoTraffic
  <2>3. QED
    BY <2>2 DEF Contract!vars, Stage, AliveOnes, NoTraffic
<1>3. CASE \/ gen[g].upstream = "none" /\ gen'[g].upstream = "starting"
           \/ gen[g].upstream = "starting" /\ gen'[g].upstream = "running"
           \/ gen[g].upstream = "running" /\ gen'[g].upstream = "exited"
           \/ /\ gen[g].upstream \in {"starting", "running", "exited"}
              /\ gen'[g].upstream \in {"retired", "unverified"}
  <2>1. Contract!Spawn(g) \/ Contract!Start(g) \/ Contract!Exit(g) \/ Contract!Retire(g) \/ Contract!GiveUp(g)
    BY <1>1, <1>3 DEF Contract!Spawn, Contract!Start, Contract!Exit, Contract!Retire, Contract!GiveUp,
       Contract!Goes, Contract!Silent, Stage, AliveOnes, NoTraffic, Live
  <2>2. QED
    BY <1>1, <2>1 DEF Contract!Next, Stage, AliveOnes, NoTraffic
<1>4. QED
  BY <1>2, <1>3 DEF UpstreamTransition

LEMMA ContractSteps ==
  ASSUME IInv, [Next]_vars
  PROVE  [Contract!Next]_(Contract!vars)
<1>1. ASSUME Stutters PROVE [Contract!Next]_(Contract!vars)
  <2>1. Stage' = Stage /\ AliveOnes' = AliveOnes
    BY <1>1 DEF Stutters, Stage, AliveOnes
  <2>2. QED
    BY <2>1 DEF Contract!vars, Stage, AliveOnes
<1>2. ASSUME NEW g \in Generations, OwnerStep(g) \/ OwnerEvent(g)
      PROVE  [Contract!Next]_(Contract!vars)
  <2>1. \A h \in Generations : h # g => gen'[h] = gen[h]
    BY <1>2, OwnerInvariant DEF Changed
  <2>2. UpstreamTransition(g)
    BY <1>2, OwnerSees
  <2>3. QED
    BY <2>1, <2>2, ContractMoves
<1>3. ASSUME NEW t \in Tasks, SpawnOwner(t)
      PROVE  [Contract!Next]_(Contract!vars)
  <2>1. At(t, "spawn") /\ TaskState(t)
        /\ gen' = [gen EXCEPT ![task[t].saw].owner = "setup", ![task[t].saw].upstream = "starting"]
    BY <1>3 DEF SpawnOwner, IInv, Structure
  <2>2. PICK p : p = task[t].saw
    OBVIOUS
  <2>3. p \in Generations /\ gen[p].owner = "none"
    BY <2>1, <2>2, ProxyAssumption DEF TaskState, Launching, Toward, IInv, TypeOK, Generations
  <2>4. gen[p].upstream = "none" /\ gen \in [Generations -> Generation] /\ gen[p] \in Generation
    BY <2>3 DEF IInv, TypeOK, Structure, OwnerState
  <2>5. gen'[p].upstream = "starting" /\ \A h \in Generations : h # p => gen'[h] = gen[h]
    BY <2>1, <2>2, <2>3, <2>4 DEF Generation
  <2>6. QED
    BY <2>3, <2>4, <2>5, ContractMoves
<1>4. ASSUME NEW t \in Tasks, Step(t)
      PROVE  [Contract!Next]_(Contract!vars)
  BY <1>1, <1>3, <1>4, TaskMaps
<1>5. ASSUME gen' = gen PROVE Stutters
  BY <1>5 DEF Stutters
<1>6. QED
  BY <1>1, <1>2, <1>4, <1>5 DEF Next, AtRest, vars, Call, RequestStop, Request, Read, Recover

LEMMA ContractInit == Init => Contract!Init
<1> SUFFICES ASSUME Init PROVE Contract!Init
  OBVIOUS
<1>1. \A g \in Generations : gen[g].upstream = "none"
  BY DEF Init
<1>2. \A g \in Generations : Stage[g] = "none" /\ AliveOnes[g] = {}
  BY <1>1 DEF Stage, AliveOnes, Live
<1>3. Stage \in [Generations -> {"none", "starting", "running"}]
  BY <1>1 DEF Stage
<1>4. QED
  BY <1>2, <1>3 DEF Contract!Init, Stage, AliveOnes, NoTraffic

(* The proxy implements UpstreamOwnership, whose launches are exclusive    *)
(* and none of which follows a retirement that could not be verified, and  *)
(* UpstreamContract: of each upstream it sees only the steps that both     *)
(* kinds of upstream take.                                                 *)
THEOREM OwnershipCorrect == Spec => UpstreamsAreOwned
<1>1. Init => HasLast /\ Ownership!Init
  BY InitMaps
<1>2. IInv /\ HasLast /\ [Next]_vars => [Ownership!Next]_(Ownership!vars) /\ HasLast'
  BY NextMaps
<1>3. IInv /\ [Next]_vars => [Contract!Next]_(Contract!vars)
  BY ContractSteps
<1>4. QED
  BY <1>1, <1>2, <1>3, ContractInit, Invariance, PTL
  DEF Spec, UpstreamsAreOwned, Ownership!Spec, Contract!Spec
=============================================================================
