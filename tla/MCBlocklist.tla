----------------------------- MODULE MCBlocklist -----------------------------
(***************************************************************************)
(* Instances of Blocklist and of Onboarding for TLC, explored in one run.  *)
(* All that a confirmation sees of onboarding is that a host becomes       *)
(* active or ceases to be, which is Flap; so a behaviour is one of         *)
(* Blocklist, or one of Onboarding before any address is recommended.      *)
(***************************************************************************)
EXTENDS Blocklist, Onboarding, TLC

CONSTANTS h1, h2, h3

\* Hosts h1 and h2 have seen every address, h3 none.
SeenByTwo == [ip \in IPs |-> {h1, h2}]

Unblocked ==
  /\ active = {} /\ flaps = 0 /\ approved = {}
  /\ \A ip \in IPs : row[ip] = "absent"
  /\ \A c \in Calls : call[c].pc = "idle"

Blocking ==
  /\ Next
  /\ \A c \in Onboardings : onboard[c].pc = "idle"
  /\ UNCHANGED onboardVars

Enrolling ==
  /\ OnboardNext
  /\ Unblocked
  /\ UNCHANGED vars

HostsInit == Init /\ OnboardInit

HostsSpec ==
  /\ HostsInit
  /\ [][Blocking \/ Enrolling]_<<vars, onboardVars>>
  /\ \A c \in Calls : WF_vars(Continue(c))
  /\ WF_onboardVars(ListAgents) /\ WF_onboardVars(SyncHosts)
=============================================================================
