-------------------------- MODULE UpstreamOwnership --------------------------
(***************************************************************************)
(* What a SocketProxy promises about the upstream servers it owns          *)
(* (socket_proxy.rs: "Serializes lifecycle changes and replaces            *)
(* generations only after verified retirement"): upstreams are numbered in *)
(* the order in which they are launched, one of them may be running at a   *)
(* time, the next is launched only when the last is known to have retired, *)
(* and a retirement that could not be verified blocks every later launch.  *)
(***************************************************************************)
EXTENDS Naturals

CONSTANT Generations    \* the numbers of the upstreams, some of 1, 2, ...

VARIABLES
  holder,       \* the upstream that may be running, 0 when none is
  launched,     \* the highest number launched
  blocked       \* a retirement failed

vars == <<holder, launched, blocked>>

TypeOK ==
  /\ holder \in Generations \cup {0}
  /\ launched \in Generations \cup {0}
  /\ blocked \in BOOLEAN

Init ==
  /\ holder = 0
  /\ launched = 0
  /\ blocked = FALSE

Launch ==
  /\ holder = 0
  /\ ~blocked
  /\ \E g \in Generations :
       /\ g > launched
       /\ holder' = g
       /\ launched' = g
  /\ UNCHANGED blocked

Retire ==
  /\ holder # 0
  /\ ~blocked
  /\ holder' = 0
  /\ UNCHANGED <<launched, blocked>>

Block ==
  /\ ~blocked
  /\ blocked' = TRUE
  /\ UNCHANGED <<holder, launched>>

Next ==
  \/ Launch
  \/ Retire
  \/ Block

Spec == Init /\ [][Next]_vars
=============================================================================
