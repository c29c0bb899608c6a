----------------------------- MODULE MCDetection -----------------------------
(***************************************************************************)
(* An instance of Detection for TLC: a login that auth.log reports, a      *)
(* failed sudo on each of two hosts without an address, of which the       *)
(* second is the brute force rule of Wazuh, a request to a web server that *)
(* the model may score twice, a file change that our own rules put above   *)
(* the floor.  An event is on time or two seconds late.                    *)
(***************************************************************************)
EXTENDS Detection, TLC

CONSTANTS ip1, agent1, agent2

EventSymmetry == Permutations(Events)

Raw(groups, rule, level, srcip, agent) ==
  [groups |-> groups, rule |-> rule, level |-> level, log |-> {},
   srcip |-> srcip, src_ip |-> NoSource, agent |-> agent, agent_ip |-> NoSource]

Login == Raw(<<"syslog", "sshd", "authentication_failed">>, 5716, 5, ip1, agent1)
SudoFailed ==
  Raw(<<"syslog", "sudo", "authentication_failed">>, 5401, 5, NoSource, agent1)
ThreeSudoFailed ==
  Raw(<<"syslog", "sudo", "authentication_failed">>, 5404, 10, NoSource, agent2)
WebError == Raw(<<"web", "accesslog">>, 31101, 5, ip1, agent2)
FileChange == Raw(<<"lureguard_custom", "syscheck">>, 100020, 12, NoSource, agent1)

AlertsExplored == {Login, SudoFailed, ThreeSudoFailed, WebError, FileChange}
=============================================================================
