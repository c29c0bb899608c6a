------------------------------- MODULE Blocklist -------------------------------
(***************************************************************************)
(* Blocking an address: recommend_block_ip and confirm_block_ip of         *)
(* lureguard_mcp/blocklist.py, with the rows of lureguard_mcp/repos/       *)
(* blocklist.py and the iptables rules on the hosts.                       *)
(*                                                                         *)
(* Each confirmation is a call of its own; calls run side by side, in one  *)
(* MCP server or in several.  A call reads its row, resolves the hosts in  *)
(* scope, works through them over SSH, and writes the row.  A row is never *)
(* deleted and keeps its block_id, so it is known by its address.          *)
(***************************************************************************)
EXTENDS Naturals, FiniteSets

CONSTANTS
  IPs,        \* addresses that may be blocked
  Hosts,      \* enrolled hosts
  Evidence,   \* the hosts whose events of the last 48 h show the address
  Calls,      \* the calls of confirm_block_ip
  MayLose,    \* may SSH fail, or lose the answer of a command that ran?
  MaxFlaps    \* bound: changes of a host's status

ASSUME BlocklistAssumption ==
  /\ IPs # {}
  /\ Evidence \in [IPs -> SUBSET Hosts]
  /\ MayLose \in BOOLEAN
  /\ MaxFlaps \in Nat

VARIABLES
  row,        \* the row of each address in the table blocklist
  rule,       \* <<h, ip>>: host h drops the packets of ip
  active,     \* the hosts that the table hosts has as active
  call,       \* the state of each call
  approved,   \* history: the addresses a human has confirmed
  flaps       \* status changes so far

vars == <<row, rule, active, call, approved, flaps>>

RowState == {"absent", "pending", "executed"}
Answer == {"none", "already", "needs_scope", "failed", "partial", "executed"}

\* A call that has not begun.
NoCall == [pc |-> "idle", ip |-> CHOOSE ip \in IPs : TRUE, scope |-> {},
           todo |-> {}, ok |-> {}, answer |-> "none"]

Init ==
  /\ row = [ip \in IPs |-> "absent"]
  /\ rule = {}
  /\ active \in SUBSET Hosts
  /\ call = [c \in Calls |-> NoCall]
  /\ approved = {}
  /\ flaps = 0

-----------------------------------------------------------------------------
\* Fault: an agent's recommendation of a known attacker is carried out.
RecommendAndBlock(ip) ==
  /\ row' = [row EXCEPT ![ip] = "pending"]
  /\ \E h \in active : rule' = rule \cup {<<h, ip>>}
  /\ UNCHANGED <<active, call, approved, flaps>>

\* add_blocklist_db: a row that exists keeps its id and is pending again.
Pending(ip) == [row EXCEPT ![ip] = "pending"]

\* recommend_block_ip: rules stay as they are.
Recommend(ip) ==
  /\ row' = Pending(ip)
  /\ UNCHANGED <<rule, active, call, approved, flaps>>

Begun(c, ip, scope, pc, answer) ==
  call' = [call EXCEPT ![c] = [pc |-> pc, ip |-> ip, scope |-> scope,
                               todo |-> scope, ok |-> {}, answer |-> answer]]

\* The row is executed: nothing is done.
ConfirmAgain(c, ip) ==
  /\ call[c].pc = "idle"
  /\ row[ip] = "executed"
  /\ Begun(c, ip, {}, "answered", "already")
  /\ approved' = approved \cup {ip}
  /\ UNCHANGED <<row, rule, active, flaps>>

\* The hosts that get_agent_ids_for_src_ip_db names and that are active.
Witnesses(ip) == Evidence[ip] \cap active

\* _resolve_block_hosts: one active host by its agent_id, the active hosts
\* with evidence, or (fleet_wide) all active hosts.
Scopes(ip) == {{h} : h \in active} \cup {Witnesses(ip), active}

\* The row is pending and its hosts are resolved.  An empty scope ends the
\* call: needs_scope, or a failure on "all" of no hosts.
Confirm(c, ip) ==
  /\ call[c].pc = "idle"
  /\ row[ip] = "pending"
  /\ \E scope \in Scopes(ip) :
       \/ /\ scope # {}
          /\ Begun(c, ip, scope, "ssh", "none")
       \/ /\ scope = {}
          /\ \E answer \in {"needs_scope", "failed"} :
               Begun(c, ip, scope, "answered", answer)
  /\ approved' = approved \cup {ip}
  /\ UNCHANGED <<row, rule, active, flaps>>

\* What may become of a command: no credential, no connection, an exit status, or
\* 30 s without an answer, in which it may all the same have run.
RemoteShell ==
  {o \in [ran : BOOLEAN, ok : BOOLEAN] : (o.ok => o.ran) /\ (~MayLose => o.ok)}

\* _ssh_iptables_drop: the rule is inserted unless it is there.
Ssh(c, h) ==
  /\ call[c].pc = "ssh"
  /\ h \in call[c].todo
  /\ \E o \in RemoteShell :
       /\ rule' = IF o.ran THEN rule \cup {<<h, call[c].ip>>} ELSE rule
       /\ call' = [call EXCEPT ![c].todo = @ \ {h},
                               ![c].ok = IF o.ok THEN @ \cup {h} ELSE @]
  /\ UNCHANGED <<row, active, approved, flaps>>

Worked(c) == call[c].pc = "ssh" /\ call[c].todo = {}

Ended(c, answer) == call' = [call EXCEPT ![c].pc = "answered", ![c].answer = answer]

\* Every host failed: the row stays as it is.
FinishFailed(c) ==
  /\ Worked(c)
  /\ call[c].ok = {}
  /\ Ended(c, "failed")
  /\ UNCHANGED <<row, rule, active, approved, flaps>>

\* Fault: the row is marked whatever the hosts answered.
FinishUnchecked(c) ==
  /\ Worked(c)
  /\ row' = [row EXCEPT ![call[c].ip] = "executed"]
  /\ Ended(c, IF call[c].ok = call[c].scope THEN "executed" ELSE "partial")
  /\ UNCHANGED <<rule, active, approved, flaps>>

\* Fault: a call that reached only some hosts has no way out.
FinishWhenComplete(c) ==
  /\ Worked(c)
  /\ call[c].ok # {} /\ call[c].ok = call[c].scope
  /\ row' = [row EXCEPT ![call[c].ip] = "executed"]
  /\ Ended(c, "executed")
  /\ UNCHANGED <<rule, active, approved, flaps>>

\* confirm_blocklist_db: one host is enough for the row to be executed.
Finish(c) ==
  /\ Worked(c)
  /\ call[c].ok # {}
  /\ row' = [row EXCEPT ![call[c].ip] = "executed"]
  /\ Ended(c, IF call[c].ok = call[c].scope THEN "executed" ELSE "partial")
  /\ UNCHANGED <<rule, active, approved, flaps>>

\* The MCP server ends with its session, in the middle of a call.
Die(c) ==
  /\ call[c].pc = "ssh"
  /\ call' = [call EXCEPT ![c].pc = "dead"]
  /\ UNCHANGED <<row, rule, active, approved, flaps>>

\* hosts_sync reports a host as active, or as disconnected.
Flap(h) ==
  /\ flaps < MaxFlaps
  /\ flaps' = flaps + 1
  /\ active' = IF h \in active THEN active \ {h} ELSE active \cup {h}
  /\ UNCHANGED <<row, rule, call, approved>>

Begin(c) == \E ip \in IPs : ConfirmAgain(c, ip) \/ Confirm(c, ip)

Continue(c) == (\E h \in Hosts : Ssh(c, h)) \/ FinishFailed(c) \/ Finish(c)

Next ==
  \/ \E ip \in IPs : Recommend(ip)
  \/ \E c \in Calls : Begin(c) \/ Continue(c) \/ Die(c)
  \/ \E h \in Hosts : Flap(h)

Spec == Init /\ [][Next]_vars

\* A call goes on by itself: SSH has a timeout of 30 s.
FairSpec == Spec /\ \A c \in Calls : WF_vars(Continue(c))

-----------------------------------------------------------------------------
(***************************************************************************)
(* Properties.                                                             *)
(***************************************************************************)
CallRecord ==
  [pc : {"idle", "ssh", "answered", "dead"}, ip : IPs, scope : SUBSET Hosts,
   todo : SUBSET Hosts, ok : SUBSET Hosts, answer : Answer]

\* The state has its type, and a call's bookkeeping stays within its scope.
TypeOK ==
  /\ row \in [IPs -> RowState]
  /\ rule \subseteq Hosts \X IPs
  /\ active \subseteq Hosts
  /\ call \in [Calls -> CallRecord]
  /\ \A c \in Calls : call[c].todo \cup call[c].ok \subseteq call[c].scope
  /\ approved \subseteq IPs
  /\ flaps \in 0..MaxFlaps

Dropping(ip) == {h \in Hosts : <<h, ip>> \in rule}

\* A row says "executed" only when some host drops the address: containment
\* never reports success while doing nothing (SEC-1, blocklist.py:186-199),
\* however calls, lost answers and new recommendations interleave.
ExecutedHasRule == \A ip \in IPs : row[ip] = "executed" => Dropping(ip) # {}

\* The answer "executed" means that every host in scope drops the address.
ExecutedAnswerIsTrue ==
  \A c \in Calls :
    call[c].answer = "executed" => call[c].scope \subseteq Dropping(call[c].ip)

\* Every confirmation is answered, unless its server ends.
ConfirmAnswers ==
  \A c \in Calls : call[c].pc = "ssh" ~> call[c].pc \in {"answered", "dead"}

Gate == INSTANCE HumanGate WITH
  Subjects <- IPs,
  LiftGated <- TRUE,
  decision <- [ip \in IPs |-> IF ip \in approved THEN "approved" ELSE "none"],
  inForce <- {ip \in IPs : Dropping(ip) # {}}

\* Blocking implements the human gate: no host drops an address that no human
\* confirmed, and no recommendation lifts a block.
ImplementsGate == Gate!GateSpec
=============================================================================
