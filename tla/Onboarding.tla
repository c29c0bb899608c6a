------------------------------ MODULE Onboarding ------------------------------
(***************************************************************************)
(* How a machine becomes a host: onboard_host_tool                         *)
(* (lureguard_mcp/onboarding.py) registers an agent at the Wazuh manager,  *)
(* sets it up on the machine over SSH and writes the row; the job          *)
(* hosts_sync of Core copies the manager's list into the same table every  *)
(* minute; confirm_restart_agent restarts an agent.                        *)
(*                                                                         *)
(* The manager refuses a second agent of the same name, so that an agent   *)
(* is known by its name.  Calls run side by side, in one MCP server or in  *)
(* several, and any of them may break off between two steps.               *)
(***************************************************************************)
EXTENDS Naturals, FiniteSets

CONSTANTS
  Machines,     \* addresses that may be onboarded
  Names,        \* agent_name, by default made of the address
  Onboardings,  \* the calls of onboard_host_tool
  Prepared,     \* the machines that have the package wazuh-agent
  Nobody,       \* no agent
  MaxMishaps    \* bound: lost connections and failed synchronisations

ASSUME OnboardingAssumption ==
  /\ Names # {} /\ Machines # {}
  /\ Prepared \subseteq Machines
  /\ Nobody \notin Names
  /\ MaxMishaps \in Nat

VARIABLES
  status,       \* what the manager says of each agent; "none": not registered
  machine,      \* the key file in /tmp, the imported key, the agent that runs
  hosts,        \* the column wazuh_status of the table, by agent
  onboard,      \* the state of each call
  listing,      \* the agents hosts_sync has read and not yet stored
  mishaps,      \* mishaps so far
  connected,    \* history: <<n, m>> when m has connected to the manager as n
  beside        \* history: pairs of calls that ran on one machine at once

onboardVars ==
  <<status, machine, hosts, onboard, listing, mishaps, connected, beside>>

Agents == {n \in Names : status[n] # "none"}

NoOnboarding ==
  [pc |-> "idle", name |-> CHOOSE n \in Names : TRUE,
   on |-> CHOOSE m \in Machines : TRUE, imported |-> Nobody, report |-> "none"]

InFlight(c) == onboard[c].pc \notin {"idle", "ok", "error"}

On(c) == onboard[c].on

OnboardInit ==
  /\ status = [n \in Names |-> "none"]
  /\ machine = [m \in Machines |-> [file |-> Nobody, key |-> Nobody, runs |-> Nobody]]
  /\ hosts = [n \in Names |-> "absent"]
  /\ onboard = [c \in Onboardings |-> NoOnboarding]
  /\ listing = << >>
  /\ mishaps = 0
  /\ connected = {}
  /\ beside = {}

-----------------------------------------------------------------------------
(***************************************************************************)
(* onboard_host.                                                           *)
(***************************************************************************)
BeginOnboarding(c) ==
  /\ onboard[c].pc = "idle"
  /\ \E n \in Names, m \in Machines :
       /\ onboard' = [onboard EXCEPT ![c].pc = "find", ![c].name = n, ![c].on = m]
       /\ beside' = beside \cup
            UNION {{<<c, d>>, <<d, c>>} : d \in {d \in Onboardings : InFlight(d) /\ On(d) = m}}
  /\ UNCHANGED <<status, machine, hosts, listing, mishaps, connected>>

Advance(c, from, to) ==
  /\ onboard[c].pc = from
  /\ onboard' = [onboard EXCEPT ![c].pc = to]

\* find_agent: an agent of that name is taken again, with its key.
Find(c) ==
  /\ Advance(c, "find", IF onboard[c].name \in Agents THEN "connect" ELSE "post")
  /\ UNCHANGED <<status, machine, hosts, listing, mishaps, connected, beside>>

\* POST /agents; when another call has come first the manager refuses the name,
\* and the agent is found on the second look.
Register(c) ==
  /\ Advance(c, "post", "connect")
  /\ status' = [status EXCEPT ![onboard[c].name] =
       IF @ = "none" THEN "never_connected" ELSE @]
  /\ UNCHANGED <<machine, hosts, listing, mishaps, connected, beside>>

\* What `grep -c ... || echo 0` prints: grep prints 0 and fails when it has
\* counted nothing, so that the second command prints another 0.
PackageCount(m) == IF m \in Prepared THEN <<1>> ELSE <<0, 0>>

\* The package is installed when the answer is a single 0.
HasPackage(m) == m \in Prepared \/ PackageCount(m) = <<0>>

\* Fault: the key file of an earlier call is not written again.
ConfigureWithOldKey(c) ==
  /\ HasPackage(On(c))
  /\ Advance(c, "connect", IF machine[On(c)].file = Nobody THEN "write" ELSE "import")
  /\ UNCHANGED <<status, machine, hosts, listing, mishaps, connected, beside>>

\* ossec.conf can be copied only to where the package has been installed.
Configure(c) ==
  /\ HasPackage(On(c))
  /\ Advance(c, "connect", "write")
  /\ UNCHANGED <<status, machine, hosts, listing, mishaps, connected, beside>>

\* The key goes to the machine in a file, whose name is that of every call ...
WriteKey(c) ==
  /\ Advance(c, "write", "import")
  /\ machine' = [machine EXCEPT ![On(c)].file = onboard[c].name]
  /\ UNCHANGED <<status, hosts, listing, mishaps, connected, beside>>

\* ... and manage_agents imports what is in the file by then.
Import(c) ==
  /\ onboard[c].pc = "import"
  /\ machine' = [machine EXCEPT ![On(c)].key = machine[On(c)].file]
  /\ onboard' = [onboard EXCEPT ![c].pc = "depend", ![c].imported = machine[On(c)].file]
  /\ UNCHANGED <<status, hosts, listing, mishaps, connected, beside>>

\* _deploy_docker_listener_deps changes nothing that the rest looks at, but the
\* call goes on only when it succeeds.
DeployDependencies(c) ==
  /\ Advance(c, "depend", "restart")
  /\ UNCHANGED <<status, machine, hosts, listing, mishaps, connected, beside>>

\* systemctl enable and restart.
StartAgent(c) ==
  /\ Advance(c, "restart", "look")
  /\ machine' = [machine EXCEPT ![On(c)].runs = machine[On(c)].key]
  /\ UNCHANGED <<status, hosts, listing, mishaps, connected, beside>>

\* Fault: the service that runs on the machine is taken for the connection.
ReportOfService(s) == {"active"}

\* The line of agent_control for the agent; docker may fail and print nothing.
ReportOf(s) == {"unknown", IF s = "active" THEN "active" ELSE "disconnected"}

Look(c) ==
  /\ onboard[c].pc = "look"
  /\ \E report \in ReportOf(status[onboard[c].name]) :
       onboard' = [onboard EXCEPT ![c].pc = "store", ![c].report = report]
  /\ UNCHANGED <<status, machine, hosts, listing, mishaps, connected, beside>>

Answered(c, pc) == onboard' = [onboard EXCEPT ![c].pc = pc, ![c].report = "none"]

\* upsert_host_db, and the answer.
StoreHost(c) ==
  /\ onboard[c].pc = "store"
  /\ Answered(c, IF onboard[c].report = "active" THEN "ok" ELSE "error")
  /\ hosts' = [hosts EXCEPT ![onboard[c].name] = onboard[c].report]
  /\ UNCHANGED <<status, machine, listing, mishaps, connected, beside>>

\* A request, an SSH command or the database fails, or the MCP server ends:
\* whatever has been done stays as it is.
BreakOff(c) ==
  /\ InFlight(c)
  /\ Answered(c, "error")
  /\ UNCHANGED <<status, machine, hosts, listing, mishaps, connected, beside>>

OnboardStep(c) ==
  \/ BeginOnboarding(c) \/ Find(c) \/ Register(c) \/ Configure(c) \/ WriteKey(c)
  \/ Import(c) \/ DeployDependencies(c) \/ StartAgent(c) \/ Look(c) \/ StoreHost(c)
  \/ BreakOff(c)

-----------------------------------------------------------------------------
(***************************************************************************)
(* The agents and their manager.                                           *)
(***************************************************************************)
\* confirm_restart_agent: an agent that restarts runs with the key imported last.
ConfirmRestart(n) ==
  /\ status[n] = "active"
  /\ \E m \in Machines :
       /\ machine[m].runs = n
       /\ machine' = [machine EXCEPT ![m].runs = machine[m].key]
  /\ UNCHANGED <<status, hosts, onboard, listing, mishaps, connected, beside>>

ConnectAgent(n) ==
  /\ \E m \in Machines :
       /\ machine[m].runs = n
       /\ connected' = connected \cup {<<n, m>>}
  /\ status' = [status EXCEPT ![n] = "active"]
  /\ UNCHANGED <<machine, hosts, onboard, listing, mishaps, beside>>

Mishap == mishaps < MaxMishaps /\ mishaps' = mishaps + 1

\* The machine is down, out of reach, or runs as another agent by now.
Disconnect(n) ==
  /\ Mishap
  /\ status[n] = "active"
  /\ status' = [status EXCEPT ![n] = "disconnected"]
  /\ UNCHANGED <<machine, hosts, onboard, listing, connected, beside>>

-----------------------------------------------------------------------------
(***************************************************************************)
(* hosts_sync of Core: one at a time.                                      *)
(***************************************************************************)
ListAgents ==
  /\ listing = << >>
  /\ Agents # {}
  /\ listing' = [n \in Agents |-> status[n]]
  /\ UNCHANGED <<status, machine, hosts, onboard, mishaps, connected, beside>>

\* An agent that never connected is listed with the address it was registered
\* with, by default "any", which is no value of the column: one such agent and
\* the transaction fails.
Storable == \A n \in DOMAIN listing : listing[n] # "never_connected"

\* Fault: a host that is there is left as it is.
StoredOnce(n) == IF hosts[n] = "absent" THEN listing[n] ELSE hosts[n]

\* crud.upsert_host.
Stored(n) == listing[n]

SyncHosts ==
  /\ listing # << >>
  /\ listing' = << >>
  /\ hosts' = [n \in Names |->
       IF Storable /\ n \in DOMAIN listing THEN Stored(n) ELSE hosts[n]]
  /\ UNCHANGED <<status, machine, onboard, mishaps, connected, beside>>

\* Or Core restarts, or the database fails.
SyncFails ==
  /\ Mishap
  /\ listing # << >>
  /\ listing' = << >>
  /\ UNCHANGED <<status, machine, hosts, onboard, connected, beside>>

OnboardNext ==
  \/ \E c \in Onboardings : OnboardStep(c)
  \/ \E n \in Names : ConfirmRestart(n) \/ ConnectAgent(n) \/ Disconnect(n)
  \/ ListAgents \/ SyncHosts \/ SyncFails

\* The scheduler of Core runs the job every minute.  Nobody has to onboard, no
\* agent has to connect, and a call may hang: its SSH commands have no timeout.
OnboardSpec ==
  /\ OnboardInit /\ [][OnboardNext]_onboardVars
  /\ WF_onboardVars(ListAgents) /\ WF_onboardVars(SyncHosts)

-----------------------------------------------------------------------------
(***************************************************************************)
(* Properties.                                                             *)
(***************************************************************************)

\* A host counts as active, in the table or in the answer of a call, only when
\* its agent has connected, and only from a machine that was to be onboarded
\* under its name: neither a service that runs, an answer that is missing, nor
\* the key of another call stands in for it (onboarding.py:209-229).
ActiveHasConnected ==
  \A n \in Names :
    (\/ hosts[n] = "active"
     \/ \E c \in Onboardings : onboard[c].pc = "ok" /\ onboard[c].name = n)
      => \E c \in Onboardings : onboard[c].name = n /\ <<n, On(c)>> \in connected

\* The key that a call imports is that of its own agent, unless another call
\* ran on the same machine at the same time: all of them use one file in /tmp,
\* and calls that broke off leave theirs behind (onboarding.py:191-200).
ImportsItsOwn ==
  \A c \in Onboardings :
    onboard[c].imported \notin {Nobody, onboard[c].name}
      => \E d \in Onboardings :
           <<c, d>> \in beside /\ onboard[d].name = onboard[c].imported

InventoryAgrees == \A n \in Agents : hosts[n] = status[n]

\* The table follows the manager for good once every agent has connected:
\* a call that writes what it saw long ago, or a synchronisation that stores an
\* old list, is put right (hosts_sync.py:12-45, onboarding.py:225-231).
InventoryConverges ==
  <>[](\A n \in Names : status[n] # "never_connected") => <>[]InventoryAgrees
=============================================================================
