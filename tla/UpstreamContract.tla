--------------------------- MODULE UpstreamContract ---------------------------
(***************************************************************************)
(* What the owner of a generation relies on, of the upstream it spawns and *)
(* whatever kind it is (upstream.rs: UpstreamHandle, SetupFailure,         *)
(* Completion): setting up ends in service or in a failure that says       *)
(* whether something may be left; an upstream in service may exit by       *)
(* itself; its completion says whether its retirement was verified, and    *)
(* once it was nothing of the upstream is alive or is sent ever again.     *)
(***************************************************************************)
CONSTANT Upstreams

VARIABLES
  stage,        \* how far each upstream is
  alive,        \* what works for it: processes of its group, requests in flight
  traffic       \* what it has passed on so far, to the server or to the client

vars == <<stage, alive, traffic>>

Init ==
  /\ stage \in [Upstreams -> {"none", "starting", "running"}]
  /\ \A u \in Upstreams : stage[u] = "none" => alive[u] = {}
  /\ traffic = [u \in Upstreams |-> {}]

-----------------------------------------------------------------------------
(* The steps of an upstream.                                               *)

Goes(u, stages, next) == stage[u] \in stages /\ stage'[u] = next
Silent(u) == traffic'[u] = traffic[u]

Spawn(u) == Goes(u, {"none"}, "starting") /\ Silent(u)

Start(u) == Goes(u, {"starting"}, "running") /\ Silent(u)

Serve(u) ==
  /\ stage[u] \in {"running", "exited"} /\ stage'[u] = stage[u]
  /\ traffic[u] \subseteq traffic'[u]

Exit(u) == Goes(u, {"running"}, "exited") /\ traffic[u] \subseteq traffic'[u]

\* A setup that failed has cleaned up; a completion is Ok.
Retire(u) ==
  /\ Goes(u, {"starting", "running", "exited"}, "retired")
  /\ alive'[u] = {}
  /\ Silent(u)

\* Something may be left, and nobody knows.
GiveUp(u) == Goes(u, {"starting", "running", "exited"}, "unverified") /\ Silent(u)

\* What is being set up, or was left, goes on by itself.
Linger(u) ==
  /\ stage[u] \in {"starting", "unverified"} /\ stage'[u] = stage[u]
  /\ Silent(u)

Next ==
  \E u \in Upstreams :
    /\ \A v \in Upstreams \ {u} :
         stage'[v] = stage[v] /\ alive'[v] = alive[v] /\ traffic'[v] = traffic[v]
    /\ \/ Spawn(u) \/ Start(u) \/ Serve(u) \/ Exit(u)
       \/ Retire(u) \/ GiveUp(u) \/ Linger(u)

Spec == Init /\ [][Next]_vars
=============================================================================
