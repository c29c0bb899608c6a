------------------------------ MODULE MCPosture ------------------------------
(* Instances of Posture for TLC: after a job that has stored rows of every     *)
(* pillar, one scans a fleet of two hosts, users being of the first and        *)
(* detection and containers of the second, and one scans the first host.       *)
EXTENDS Posture, TLC

CONSTANTS users, detection, containers, past, fleet, host, k1, none

EveryPillar == {users, detection, containers}
FleetAndHost == [j \in {past, fleet} |-> <<users, detection, containers>>]
                  @@ (host :> <<users>>)
PastRows == (users :> {k1}) @@ (detection :> {none}) @@ (containers :> {})
=============================================================================
