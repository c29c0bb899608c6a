----------------------------- MODULE Investigation -----------------------------
(***************************************************************************)
(* Investigations: the tools of lureguard_mcp/server.py that open, feed,   *)
(* close and report them, their transactions                               *)
(* (lureguard_mcp/repos/investigations.py) and the audit row that each     *)
(* tool call leaves (@audited, repos/actions.py).                          *)
(*                                                                         *)
(* Every session of the agent has an MCP server of its own, and a server   *)
(* runs one tool at a time.  Sessions may work on the same investigation;  *)
(* the database isolates READ COMMITTED, so a transaction may see in its   *)
(* second query what another committed after its first.  The              *)
(* investigation of a call is named by the agent or kept by its session;   *)
(* here it may be any, also one that does not exist.                       *)
(***************************************************************************)
EXTENDS Reports, Integers

CONSTANTS
  Ids,       \* ids of investigations
  MaxCalls   \* bound: tool calls

ASSUME InvestigationAssumption == MaxCalls \in Nat /\ IsFiniteSet(Ids)

VARIABLES
  investigations, \* the table, by id; basis: history, the findings it was closed on
  findings,       \* the table findings; seen: history, what was there when its id
                  \* was taken
  iocs,           \* the table iocs: the findings with an indicator
  timeline,       \* the table timeline_events
  audit,          \* the table agent_actions: which call, written by whom
  calls,          \* the calls so far, in the order they began
  lost            \* history: calls cut off, or whose audit row was not written

stored == <<investigations, findings, iocs, timeline>>
vars == <<stored, kept, audit, call, calls, lost>>

ReportTools == {"save_report", "convert_report_to_pdf", "send_report_to_telegram"}

Tools == {"open_investigation", "record_finding", "add_timeline_event",
          "close_investigation"}

Opened == DOMAIN investigations

FindingsOf(i) == {f \in findings : f.inv = i}

Init ==
  /\ investigations = [i \in {} |-> Idle]
  /\ findings = {} /\ iocs = {} /\ timeline = {}
  /\ InitReports
  /\ audit = {}
  /\ calls = 0
  /\ lost = {}

-----------------------------------------------------------------------------
(***************************************************************************)
(* A tool call: begun, carried out in one or two steps, logged.            *)
(***************************************************************************)
Begin(s) ==
  /\ call[s] = Idle
  /\ calls < MaxCalls
  /\ calls' = calls + 1
  /\ \/ \E tool \in Tools, i \in Ids : call' = [call EXCEPT ![s] =
          [at |-> "begun", n |-> calls', tool |-> tool, inv |-> i]]
     \/ \E tool \in ReportTools : call' = [call EXCEPT ![s] =
          [at |-> "begun", n |-> calls', tool |-> tool]]
  /\ UNCHANGED <<stored, kept, audit, lost>>

OpenInvestigation(s) ==
  /\ Does(s, "open_investigation", "begun")
  /\ call[s].inv \notin Opened
  /\ investigations' = [i \in Opened \cup {call[s].inv} |->
       IF i = call[s].inv
       THEN [status |-> "open", basis |-> {}, by |-> call[s].n]
       ELSE investigations[i]]
  /\ Ends(s, TRUE)
  /\ UNCHANGED <<findings, iocs, timeline, kept, audit, calls, lost>>

\* Fault: only findings with a citation are counted.
NextEvidenceOfCited(i) == Cardinality({f \in FindingsOf(i) : f.cited}) + 1

NextEvidence(i) == Cardinality(FindingsOf(i)) + 1

\* record_finding takes the next evidence id first ...
CountFindings(s) ==
  /\ Does(s, "record_finding", "begun")
  /\ call' = [call EXCEPT ![s] =
       [at |-> "counted", n |-> @.n, inv |-> @.inv,
        evidence |-> NextEvidence(@.inv), seen |-> {f.by : f \in FindingsOf(@.inv)}]]
  /\ UNCHANGED <<stored, kept, audit, calls, lost>>

\* ... and then inserts the finding, its indicator and an audit row of its own
\* together; the foreign key refuses an investigation that does not exist.  The
\* citation may be empty.
InsertFinding(s) ==
  /\ call[s].at = "counted"
  /\ call[s].inv \in Opened
  /\ \E cited, indicator \in BOOLEAN :
       /\ findings' = findings \cup
            {[by |-> call[s].n, inv |-> call[s].inv, cited |-> cited,
              evidence |-> call[s].evidence, seen |-> call[s].seen]}
       /\ iocs' = IF indicator THEN iocs \cup {call[s].n} ELSE iocs
  /\ audit' = audit \cup {[call |-> call[s].n, by |-> "record_finding"]}
  /\ Ends(s, TRUE)
  /\ UNCHANGED <<investigations, timeline, kept, calls, lost>>

AddTimelineEvent(s) ==
  /\ Does(s, "add_timeline_event", "begun")
  /\ call[s].inv \in Opened
  /\ timeline' = timeline \cup {call[s].n}
  /\ Ends(s, TRUE)
  /\ UNCHANGED <<investigations, findings, iocs, kept, audit, calls, lost>>

\* Fault: uncited findings do not stand in the way of a verdict.
CheckEvidenceAny(s) ==
  /\ Does(s, "close_investigation", "begun")
  /\ call[s].inv \in Opened
  /\ FindingsOf(call[s].inv) # {}
  /\ call' = [call EXCEPT ![s] =
       [at |-> "checked", n |-> @.n, inv |-> @.inv,
        basis |-> {f.by : f \in FindingsOf(@.inv)}]]
  /\ UNCHANGED <<stored, kept, audit, calls, lost>>

\* close_investigation_db looks at the findings ...
CheckEvidence(s) ==
  /\ Does(s, "close_investigation", "begun")
  /\ call[s].inv \in Opened
  /\ FindingsOf(call[s].inv) # {}
  /\ \A f \in FindingsOf(call[s].inv) : f.cited
  /\ call' = [call EXCEPT ![s] =
       [at |-> "checked", n |-> @.n, inv |-> @.inv,
        basis |-> {f.by : f \in FindingsOf(@.inv)}]]
  /\ UNCHANGED <<stored, kept, audit, calls, lost>>

\* ... and closes the investigation, also one that is closed.
CloseInvestigation(s) ==
  /\ call[s].at = "checked"
  /\ investigations' = [investigations EXCEPT ![call[s].inv] =
       [status |-> "closed", basis |-> call[s].basis, by |-> call[s].n]]
  /\ Ends(s, TRUE)
  /\ UNCHANGED <<findings, iocs, timeline, kept, audit, calls, lost>>

\* save_report, convert_report_to_pdf, send_report_to_telegram.
ReportTool(s) == ReportStep(s) /\ UNCHANGED <<stored, audit, calls, lost>>

\* The database does not answer, a key does not exist, the verdict is not one of
\* three or the evidence does not do: an exception, and the transaction is
\* rolled back.
Raises(s) ==
  /\ call[s].at \notin {"idle", "ended"}
  /\ Ends(s, FALSE)
  /\ UNCHANGED <<stored, kept, audit, calls, lost>>

\* log_agent_action, in a transaction of its own.
AuditRow(n) == [call |-> n, by |-> "audited"]

\* Fault: the row is written after the result, not in a finally.
LogIfDone(s) ==
  /\ call[s].at = "ended"
  /\ call' = [call EXCEPT ![s] = Idle]
  /\ audit' = IF call[s].ok
              THEN audit \cup {AuditRow(call[s].n)} ELSE audit
  /\ UNCHANGED <<stored, kept, calls, lost>>

\* _log_tool_call; when the row cannot be written, a warning.
Log(s) ==
  /\ call[s].at = "ended"
  /\ call' = [call EXCEPT ![s] = Idle]
  /\ \/ /\ audit' = audit \cup {AuditRow(call[s].n)}
        /\ UNCHANGED lost
     \/ /\ lost' = lost \cup {call[s].n}
        /\ UNCHANGED audit
  /\ UNCHANGED <<stored, kept, calls>>

\* The session ends, and its server with it.
Crash(s) ==
  /\ call[s] # Idle
  /\ call' = [call EXCEPT ![s] = Idle]
  /\ lost' = lost \cup {call[s].n}
  /\ UNCHANGED <<stored, kept, audit, calls>>

Next == \E s \in Servers :
  \/ Begin(s) \/ OpenInvestigation(s) \/ CountFindings(s) \/ InsertFinding(s)
  \/ AddTimelineEvent(s) \/ CheckEvidence(s) \/ CloseInvestigation(s)
  \/ ReportTool(s) \/ Raises(s) \/ Log(s) \/ Crash(s)

Spec == Init /\ [][Next]_vars

-----------------------------------------------------------------------------
(***************************************************************************)
(* Properties.                                                             *)
(***************************************************************************)

\* "No claim without a citation" (docs/INVARIANTS.md:46), whoever records and
\* closes at the same time: an investigation is closed on findings that are
\* there still, and every one of them has a citation; one without is of a
\* transaction that ended after the findings were looked at.
ClosedOnEvidence ==
  \A i \in Opened : investigations[i].status = "closed" =>
    \E basis \in SUBSET {f \in FindingsOf(i) : f.cited} :
      basis # {} /\ {f.by : f \in basis} = investigations[i].basis

\* Of two findings of an investigation with the same evidence id neither was
\* there when the other was counted (investigations.py:63-70): ids collide only
\* when two sessions record at once.
EvidenceIdsApart ==
  \A f, g \in findings :
    f # g /\ f.inv = g.inv /\ f.evidence = g.evidence =>
      f.by \notin g.seen /\ g.by \notin f.seen

\* The calls that have changed the tables.
ChangedBy ==
  {investigations[i].by : i \in Opened} \cup {f.by : f \in findings}
  \cup timeline \cup {r.by : r \in reports}

\* "Every tool call logged" (docs/ARCHITECTURE.md:71): what has changed the
\* database has an audit row, though its tool raised an exception afterwards,
\* unless it is under way, was cut off, or the database refused the row.
AuditedUnlessLost ==
  \A n \in ChangedBy :
    \/ \E a \in audit : a.call = n
    \/ n \in lost
    \/ \E s \in Servers : call[s] # Idle /\ call[s].n = n
=============================================================================
