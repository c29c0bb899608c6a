------------------------------- MODULE Collector -------------------------------
(***************************************************************************)
(* core/modules/collector.py: what normalize_event makes of a Wazuh alert, *)
(* a record of its rule's groups, id and level, the phrases of its log     *)
(* line that are looked for, its two address fields and its agent's name   *)
(* (the agent's id when it has no name) and address.  User name, success flag, profile and file details are carried *)
(* along by the code and left out here.                                    *)
(***************************************************************************)
EXTENDS Integers, Sequences, SequencesExt

CONSTANT NoSource   \* an address field that is absent

\* _CHANNEL_MAP.  The outer group of our own rules, "lureguard_custom", is not
\* in it.
SshGroups == {"sshd", "sudo", "authentication_failed", "authentication_success"}
WebGroups ==
  {"web", "apache", "nginx", "web-accesslog", "web-attack", "attack", "scanner"}
OwnChannel == {"syscheck", "rootcheck", "cowrie", "docker"}

ChannelOfGroup(g) ==
  CASE g \in SshGroups -> "sshd"
    [] g \in WebGroups -> "web"
    [] g \in OwnChannel -> g
    [] OTHER -> "unknown"

\* The first group that has a channel decides.
ChannelOf(alert) ==
  LET i == SelectInSeq(alert.groups, LAMBDA g : ChannelOfGroup(g) # "unknown")
  IN CASE i > 0 -> ChannelOfGroup(alert.groups[i])
       [] i = 0 /\ "sshd" \in alert.log -> "sshd"
       [] OTHER -> "unknown"

\* The event types that groups decide; the first row with one of the alert's
\* groups counts, wherever that group stands.
TypesByGroup == <<
  [groups |-> {"syscheck"}, type |-> "fim_change"],
  [groups |-> {"rootcheck"}, type |-> "rootkit_detected"],
  [groups |-> {"cowrie"}, type |-> "cowrie_session"],
  [groups |-> {"web-attack", "sql_injection", "xss", "attack"},
   type |-> "web_attack"],
  [groups |-> {"scanner"}, type |-> "web_scan"],
  [groups |-> {"web", "apache", "nginx", "web-accesslog"}, type |-> "web_error"],
  [groups |-> {"docker"}, type |-> "docker_event"],
  [groups |-> {"authentication_failed"}, type |-> "auth_failed"],
  [groups |-> {"authentication_success"}, type |-> "auth_success"] >>

SshFailRules == {5710, 5712, 5760}

EventTypeOf(alert) ==
  LET i == SelectInSeq(TypesByGroup,
             LAMBDA row : row.groups \cap ToSet(alert.groups) # {})
  IN CASE i > 0 -> TypesByGroup[i].type
       [] i = 0 /\ (alert.rule \in SshFailRules \/ "failed" \in alert.log) ->
            "auth_failed"
       [] i = 0 /\ alert.rule \notin SshFailRules /\ "failed" \notin alert.log
            /\ "accepted" \in alert.log -> "auth_success"
       [] OTHER -> "generic"

\* src_ip for Cowrie, srcip for the others; then srcip, src_ip, the agent.
SourceOf(alert) ==
  LET fields == IF "cowrie" \in ToSet(alert.groups)
                THEN <<alert.src_ip, alert.srcip, alert.agent_ip>>
                ELSE <<alert.srcip, alert.src_ip, alert.agent_ip>>
      i == SelectInSeq(fields, LAMBDA ip : ip # NoSource)
  IN IF i > 0 THEN fields[i] ELSE NoSource

NormalizeEvent(alert, ts) ==
  [src |-> SourceOf(alert), agent |-> alert.agent, channel |-> ChannelOf(alert),
   type |-> EventTypeOf(alert), level |-> alert.level, ts |-> ts]
=============================================================================
