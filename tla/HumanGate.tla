------------------------------- MODULE HumanGate -------------------------------
(***************************************************************************)
(* What containment promises (docs/ARCHITECTURE.md, "Containment           *)
(* (human-gated)"): a measure is in force for a subject only by a human's  *)
(* decision, and, where lifting is gated too, leaves force only by one.    *)
(* An agent's recommendation changes nothing that is in force, so it does  *)
(* not appear here: it is a stuttering step.                               *)
(***************************************************************************)
CONSTANTS
  Subjects,   \* what is blocked or whitelisted
  LiftGated   \* does taking a measure out of force need a human as well?

VARIABLES
  decision,   \* the last human decision on each subject
  inForce     \* the subjects the measure is in force for

gateVars == <<decision, inForce>>

\* What was approved before the system starts may be in force.
GateInit ==
  /\ decision \in [Subjects -> {"none", "approved"}]
  /\ inForce = {s \in Subjects : decision[s] = "approved"}

\* One decision may approve several subjects, as a file of addresses does.  It
\* may take effect at once or later.
Approve(S) ==
  /\ decision' = [s \in Subjects |-> IF s \in S THEN "approved" ELSE decision[s]]
  /\ inForce \subseteq inForce'
  /\ inForce' \subseteq inForce \cup S

Revoke(s) ==
  /\ decision' = [decision EXCEPT ![s] = "revoked"]
  /\ inForce' \in {inForce, inForce \ {s}}

Enforce(s) ==
  /\ decision[s] = "approved"
  /\ inForce' = inForce \cup {s}
  /\ UNCHANGED decision

Lift(s) ==
  /\ LiftGated => decision[s] = "revoked"
  /\ inForce' = inForce \ {s}
  /\ UNCHANGED decision

GateNext ==
  \/ \E S \in SUBSET Subjects : Approve(S)
  \/ \E s \in Subjects : Revoke(s) \/ Enforce(s) \/ Lift(s)

GateSpec == GateInit /\ [][GateNext]_gateVars
=============================================================================
