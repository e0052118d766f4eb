----------------------------- MODULE Migration -----------------------------
(***************************************************************************)
(* The retirement of legacy daemons ("daemon migrate"): what is observed,  *)
(* what is journaled before a daemon is asked to stop, and how a later run *)
(* takes up the journal of one that was killed.                            *)
(*                                                                         *)
(* Process <<d, 0>> is the root of legacy daemon d and <<d, n>> a worker   *)
(* it has forked; <<d, -1>> is a process that is given the PID of the root *)
(* later.  An identity (PID, birth, owner) is never given twice.           *)
(***************************************************************************)
EXTENDS Integers, FiniteSets

CONSTANTS
    Legacy,             \* the legacy daemons of the directory
    MaxWorkers,         \* bound: workers a daemon forks
    MaxRuns             \* bound: runs of the command

ASSUME MigrationAssumption == IsFiniteSet(Legacy) /\ MaxWorkers \in Nat /\ MaxRuns \in Nat

VARIABLES
    alive,              \* the legacy processes that are alive
    legacy,             \* what else is known of each daemon
    mode,               \* the permissions of the directory
    journal,            \* legacy-retirement.json
    run,                \* the run of the command
    runs,               \* runs so far
    asked               \* history: the identities behind a stop that was sent

migrationVars == <<alive, legacy, mode, journal, run, runs, asked>>

Processes == Legacy \X (-1..MaxWorkers)
NoJournal == [state |-> "none", ids |-> {}]
Torn == [state |-> "torn", ids |-> {}]
Journal(ids) == [state |-> "saved", ids |-> ids]
NoRun == [at |-> "idle", stop |-> FALSE, todo |-> {}, target |-> {}, ids |-> {}]
Stages == {"idle", "inspect", "journal", "recover", "forget", "collect", "upgrade", "next",
           "observe", "save", "stop", "verify", "discard", "done", "failed"}
Runs == [at : Stages, stop : BOOLEAN, todo : SUBSET Legacy, target : SUBSET Legacy,
         ids : SUBSET Processes]

MigrationTypeOK ==
  /\ alive \subseteq Processes
  /\ legacy \in [Legacy -> [forked : 0..MaxWorkers, metadata : BOOLEAN, reused : BOOLEAN, speaks : BOOLEAN]]
  /\ mode \in {"0700", "0755", "other"}
  /\ journal \in [state : {"none", "torn", "saved"}, ids : SUBSET Processes]
  /\ run \in Runs
  /\ runs \in 0..MaxRuns /\ asked \subseteq Processes

MigrationInit ==
  /\ alive \in {Legacy \X {0}, {}}
  /\ legacy \in [Legacy -> [forked : {0}, metadata : {TRUE}, reused : {FALSE}, speaks : BOOLEAN]]
  /\ mode \in {"0755", "other"}
  /\ journal = NoJournal
  /\ run = NoRun /\ runs = 0 /\ asked = {}

---------------------------------------------------------------------------
\* The legacy daemons go on: they fork, they exit when asked or on their own, and
\* their PIDs are given to others.  A worker may outlive its root.
Fork(d) ==
  /\ <<d, 0>> \in alive /\ legacy[d].forked < MaxWorkers
  /\ alive' = alive \cup {<<d, legacy[d].forked + 1>>}
  /\ legacy' = [legacy EXCEPT ![d].forked = @ + 1]
  /\ UNCHANGED <<mode, journal, run, runs, asked>>

Die(p) ==
  /\ p \in alive
  /\ alive' = alive \ {p}
  /\ \E kept \in BOOLEAN :
       legacy' = IF p[2] = 0 THEN [legacy EXCEPT ![p[1]].metadata = kept] ELSE legacy
  /\ UNCHANGED <<mode, journal, run, runs, asked>>

Reuse(d) ==
  /\ <<d, 0>> \notin alive /\ ~legacy[d].reused
  /\ legacy' = [legacy EXCEPT ![d].reused = TRUE]
  /\ alive' = alive \cup {<<d, -1>>}
  /\ UNCHANGED <<mode, journal, run, runs, asked>>

---------------------------------------------------------------------------
Becomes(r) == run' = r
Turns(at) == Becomes([run EXCEPT !.at = at])
EndsWith(at) == Becomes([NoRun EXCEPT !.at = at, !.stop = run.stop])
Quiet == UNCHANGED <<alive, legacy, mode, journal, runs, asked>>

\* A probe reaches the daemon while its root lives; it may time out.
Answers(d) == <<d, 0>> \in alive /\ legacy[d].speaks
Named(d) == {<<d, 0>>, <<d, -1>>} \cap alive       \* the process with the recorded PID
Tree(d) == IF <<d, 0>> \in alive THEN {p \in alive : p[1] = d /\ p[2] >= 0} ELSE Named(d)

BeginRun ==
  /\ run.at \in {"idle", "done", "failed"} /\ runs < MaxRuns
  /\ runs' = runs + 1
  /\ \E stop \in BOOLEAN : Becomes([NoRun EXCEPT !.at = "inspect", !.stop = stop])
  /\ UNCHANGED <<alive, legacy, mode, journal, asked>>

InspectDirectory ==
  /\ run.at = "inspect"
  /\ IF mode = "other" THEN EndsWith("failed") ELSE Turns("journal")
  /\ Quiet

\* A journal that is there is verified first, and only by a run that may stop.
ReadJournal ==
  /\ run.at = "journal"
  /\ \/ journal = NoJournal /\ Turns("collect")
     \/ journal # NoJournal /\ (~run.stop \/ journal = Torn) /\ EndsWith("failed")
     \/ /\ journal.state = "saved" /\ run.stop
        /\ Becomes([run EXCEPT !.at = "recover", !.ids = journal.ids])
  /\ Quiet

\* verify_retirement: until none of the identities is in a snapshot, or too late.
Verified == run.ids \cap alive = {}
VerifyRetirement ==
  /\ run.at \in {"recover", "verify"}
  /\ \/ Verified /\ Turns(IF run.at = "recover" THEN "forget" ELSE "discard")
     \/ ~Verified /\ EndsWith("failed")
  /\ Quiet

RemoveJournal ==
  /\ run.at \in {"forget", "discard"}
  /\ journal' = NoJournal
  /\ Becomes([run EXCEPT !.at = IF run.at = "forget" THEN "collect" ELSE "next", !.ids = {}])
  /\ UNCHANGED <<alive, legacy, mode, runs, asked>>

\* The daemons whose recorded PID is in use; each has to confirm that it is its own.
Collect ==
  /\ run.at = "collect"
  /\ LET found == {d \in Legacy : legacy[d].metadata /\ Named(d) # {}}
     IN  IF ~run.stop THEN EndsWith("done")
         ELSE \/ \E d \in found : EndsWith("failed")
              \/ /\ \A d \in found : Answers(d)
                 /\ Becomes([run EXCEPT !.at = "upgrade", !.todo = found])
  /\ Quiet

Upgrade ==
  /\ run.at = "upgrade"
  /\ mode' = "0700" /\ Turns("next")
  /\ UNCHANGED <<alive, legacy, journal, runs, asked>>

Cutover ==
  /\ run.at = "next"
  /\ IF run.todo = {} THEN EndsWith("done")
     ELSE \E d \in run.todo :
          \/ EndsWith("failed")
          \/ Answers(d) /\ Becomes([run EXCEPT !.at = "observe", !.todo = @ \ {d}, !.target = {d}])
  /\ Quiet

Observe ==
  /\ run.at = "observe"
  /\ \E d \in run.target :
       IF Named(d) # {} THEN Becomes([run EXCEPT !.at = "save", !.ids = Tree(d)])
       ELSE EndsWith("failed")
  /\ Quiet

SaveNothing ==
  /\ run.at = "save" /\ Turns("stop")
  /\ Quiet

SaveJournal ==
  /\ run.at = "save" /\ Turns("stop")
  /\ journal' = Journal(run.ids)
  /\ UNCHANGED <<alive, legacy, mode, runs, asked>>

\* The stop may be carried out although its acknowledgement does not come.
SendStop ==
  /\ run.at = "stop"
  /\ \E d \in run.target :
       \/ <<d, 0>> \notin alive /\ EndsWith("failed") /\ UNCHANGED asked
       \/ /\ <<d, 0>> \in alive
          /\ asked' = asked \cup run.ids
          /\ EndsWith("failed") \/ (Answers(d) /\ Becomes([run EXCEPT !.at = "verify", !.target = {}]))
  /\ UNCHANGED <<alive, legacy, mode, journal, runs>>

\* The command is killed; a journal that it was writing is torn.
Killed ==
  /\ run.at \notin {"idle", "done", "failed"}
  /\ run' = NoRun
  /\ IF run.at = "save" THEN journal' \in {NoJournal, Torn} ELSE UNCHANGED journal
  /\ UNCHANGED <<alive, legacy, mode, runs, asked>>

---------------------------------------------------------------------------
MigrationStep ==
  \/ BeginRun \/ InspectDirectory \/ ReadJournal \/ VerifyRetirement \/ RemoveJournal \/ Collect
  \/ Upgrade \/ Cutover \/ Observe \/ SaveJournal \/ SendStop \/ Killed
MigrationNext ==
  \/ MigrationStep
  \/ \E d \in Legacy : Fork(d) \/ Reuse(d)
  \/ \E p \in Processes : Die(p)

MigrationSpec == MigrationInit /\ [][MigrationNext]_migrationVars

MigrationAtRest == run.at \in {"idle", "done", "failed"}

---------------------------------------------------------------------------
(***************************************************************************)
(* When a run that may stop ends well, every process that some run has     *)
(* observed behind a stop it sent is gone: also the workers that outlived  *)
(* their root, and also when the run that sent the stop was killed or      *)
(* failed (daemon_migration.rs, run).                                      *)
(***************************************************************************)
MigratedMeansGone == run.at = "done" /\ run.stop => asked \cap alive = {}
=============================================================================
