------------------------------ MODULE ServerProofs ------------------------------
(***************************************************************************)
(* Proofs about what goes on in the MCP servers: Investigation with        *)
(* Reports, for any number of sessions, calls, investigations and report   *)
(* names, and Watcher, for any number of servers, events and faults.       *)
(***************************************************************************)
EXTENDS Investigation, Watcher, FiniteSetTheorems, TLAPS

(***************************************************************************)
(* Investigations.  InvestigationInv follows a call from its first         *)
(* transaction to its second: what it noted in between is still true of    *)
(* the tables when it writes, because findings are never changed or        *)
(* deleted; and it follows a report from its file to its PDF.              *)
(***************************************************************************)

\* A call that is under way has a number of its own.
CallsAreNumbered ==
  /\ calls \in Nat
  /\ DOMAIN call = Servers
  /\ \A s \in Servers :
       call[s] = Idle \/ (call[s].at # "idle" /\ call[s].n \in 1..calls)
  /\ \A s, t \in Servers :
       s # t /\ call[s] # Idle /\ call[t] # Idle => call[s].n # call[t].n

\* A call records one finding at most, and then ends.
FindingsAreNumbered ==
  /\ IsFiniteSet(findings)
  /\ \A f \in findings : f.by \in 1..calls
  /\ \A f, g \in findings : f.by = g.by => f = g
  /\ \A f \in findings, s \in Servers :
       call[s] # Idle /\ call[s].n = f.by => call[s].at = "ended"

\* An evidence id is one more than the findings that were there, and with a
\* finding it has seen all that this one had seen.
Counted(i, seen, evidence) ==
  /\ IsFiniteSet(seen)
  /\ evidence = Cardinality(seen) + 1
  /\ seen \subseteq {g.by : g \in FindingsOf(i)}
  /\ \A g \in FindingsOf(i) : g.by \in seen => g.seen \subseteq seen

EvidenceIsCounted ==
  /\ \A f \in findings : Counted(f.inv, f.seen, f.evidence) /\ f.by \notin f.seen
  /\ \A s \in Servers :
       call[s].at = "counted" => Counted(call[s].inv, call[s].seen, call[s].evidence)

\* What a verdict, or a call about to give one, rests on.
Cited(F, i, basis) ==
  \E B \in SUBSET {f \in F : f.inv = i /\ f.cited} :
    B # {} /\ {f.by : f \in B} = basis

ChecksAreCited ==
  \A s \in Servers : call[s].at = "checked" =>
    call[s].inv \in Opened /\ Cited(findings, call[s].inv, call[s].basis)

\* While nothing has gone wrong with a file, every call that works on it, and a
\* PDF that is not older, show what the markdown shows.
ShowsFile(s, name) ==
  /\ name \in DOMAIN files
  /\ call[s].at = "written" => call[s].n = files[name]
  /\ call[s].at # "written" => call[s].had = files[name]
  /\ call[s].at = "converting" => call[s].of = files[name]
  /\ call[s].at = "resolved" => name \in DOMAIN pdfs /\ pdfs[name].of = files[name]

FilesAreShown ==
  /\ \A name \in DOMAIN pdfs \ disturbed :
       pdfs[name].fresh => name \in DOMAIN files /\ pdfs[name].of = files[name]
  /\ \A s \in Servers :
       call[s].at \in OnFile /\ call[s].name \notin disturbed => ShowsFile(s, call[s].name)

InvestigationInv ==
  /\ CallsAreNumbered
  /\ FindingsAreNumbered
  /\ EvidenceIsCounted
  /\ ClosedOnEvidence
  /\ ChecksAreCited
  /\ AuditedUnlessLost
  /\ FilesAreShown

LEMMA InitInvestigation == Init => InvestigationInv
  <1> SUFFICES ASSUME Init PROVE InvestigationInv
    OBVIOUS
  <1>1. /\ calls = 0 /\ findings = {} /\ Opened = {} /\ timeline = {} /\ reports = {}
        /\ DOMAIN files = {} /\ DOMAIN pdfs = {} /\ DOMAIN call = Servers
        /\ \A s \in Servers : call[s] = Idle /\ call[s].at = "idle"
    BY DEF Init, InitReports, Opened, Idle
  <1>2. CallsAreNumbered /\ FindingsAreNumbered
    BY <1>1, FS_EmptySet DEF CallsAreNumbered, FindingsAreNumbered
  <1>3. EvidenceIsCounted /\ ClosedOnEvidence /\ ChecksAreCited /\ FilesAreShown
    BY <1>1 DEF EvidenceIsCounted, ClosedOnEvidence, ChecksAreCited, FilesAreShown, OnFile
  <1>4. AuditedUnlessLost
    BY <1>1 DEF AuditedUnlessLost, ChangedBy
  <1> QED BY <1>2, <1>3, <1>4 DEF InvestigationInv

-----------------------------------------------------------------------------
(***************************************************************************)
(* Calls and their numbers.                                                *)
(***************************************************************************)
\* The steps that carry a tool out.
ToolStep(s) ==
  \/ OpenInvestigation(s) \/ CountFindings(s) \/ InsertFinding(s) \/ AddTimelineEvent(s)
  \/ CheckEvidence(s) \/ CloseInvestigation(s) \/ ReportTool(s) \/ Raises(s)

\* The call of s goes on, under its number.
GoesOn(s) ==
  /\ DOMAIN call' = Servers
  /\ \A t \in Servers \ {s} : call'[t] = call[t]
  /\ call[s].at \notin {"idle", "ended"}
  /\ call'[s].at # "idle" /\ call'[s].n = call[s].n
  /\ calls' = calls

\* Whichever step of a report tool it is, the call goes on.
LEMMA ReportGoesOn ==
  ASSUME NEW s \in Servers, DOMAIN call = Servers, ReportStep(s), calls' = calls
  PROVE  GoesOn(s)
  <1>1. CASE WriteReport(s)
    BY <1>1 DEF WriteReport, Does, GoesOn
  <1>2. CASE InsertReport(s)
    BY <1>2 DEF InsertReport, Ends, Resolves, GoesOn
  <1>3. ASSUME NEW tool \in {"convert_report_to_pdf", "send_report_to_telegram"},
               NotResolved(s, tool) \/ GivenMarkdown(s, tool)
        PROVE  GoesOn(s)
    BY <1>3 DEF NotResolved, GivenMarkdown, Does, Ends, Resolves, GoesOn
  <1>4. CASE Reuse(s)
    BY <1>4 DEF Reuse, ToBeGiven, GoesOn
  <1>5. CASE ReadMarkdown(s)
    BY <1>5 DEF ReadMarkdown, GoesOn
  <1>6. CASE WritePdf(s)
    BY <1>6 DEF WritePdf, ToBeGiven, GoesOn
  <1>7. CASE FailPdf(s)
    BY <1>7 DEF FailPdf, Goes, Ends, Resolves, GoesOn
  <1>8. CASE HandOut(s)
    BY <1>8 DEF HandOut, Goes, Ends, Resolves, GoesOn
  <1> QED BY <1>1, <1>2, <1>3, <1>4, <1>5, <1>6, <1>7, <1>8 DEF ReportStep

LEMMA ToolGoesOn ==
  ASSUME NEW s \in Servers, DOMAIN call = Servers, ToolStep(s)
  PROVE  GoesOn(s)
  <1>1. CASE OpenInvestigation(s)
    BY <1>1 DEF OpenInvestigation, Does, Ends, GoesOn
  <1>2. CASE CountFindings(s)
    BY <1>2 DEF CountFindings, Does, GoesOn
  <1>3. CASE InsertFinding(s)
    BY <1>3 DEF InsertFinding, Ends, GoesOn
  <1>4. CASE AddTimelineEvent(s)
    BY <1>4 DEF AddTimelineEvent, Does, Ends, GoesOn
  <1>5. CASE CheckEvidence(s)
    BY <1>5 DEF CheckEvidence, Does, GoesOn
  <1>6. CASE CloseInvestigation(s)
    BY <1>6 DEF CloseInvestigation, Ends, GoesOn
  <1>7. CASE ReportTool(s)
    BY <1>7, ReportGoesOn DEF ReportTool
  <1>8. CASE Raises(s)
    BY <1>8 DEF Raises, Ends, GoesOn
  <1> QED BY <1>1, <1>2, <1>3, <1>4, <1>5, <1>6, <1>7, <1>8 DEF ToolStep

\* Or it is over: logged, or cut off.
EndsCall(s) ==
  /\ DOMAIN call' = Servers
  /\ \A t \in Servers \ {s} : call'[t] = call[t]
  /\ call'[s] = Idle
  /\ calls' = calls

LEMMA OverEndsCall ==
  ASSUME NEW s \in Servers, DOMAIN call = Servers, Log(s) \/ Crash(s)
  PROVE  EndsCall(s)
  BY DEF Log, Crash, EndsCall

\* Or it begins, with the next number.
BeginsCall(s) ==
  /\ DOMAIN call' = Servers
  /\ \A t \in Servers \ {s} : call'[t] = call[t]
  /\ call[s] = Idle
  /\ call'[s].at = "begun" /\ call'[s].n = calls + 1
  /\ calls' = calls + 1

LEMMA BeginBegins ==
  ASSUME NEW s \in Servers, DOMAIN call = Servers, Begin(s)
  PROVE  BeginsCall(s)
  BY DEF Begin, BeginsCall

LEMMA NumbersPreserved ==
  ASSUME NEW s \in Servers, CallsAreNumbered,
         GoesOn(s) \/ EndsCall(s) \/ BeginsCall(s)
  PROVE  CallsAreNumbered'
  <1>1. CASE GoesOn(s)
    BY <1>1 DEF CallsAreNumbered, GoesOn, Idle
  <1>2. CASE EndsCall(s)
    BY <1>2 DEF CallsAreNumbered, EndsCall
  <1>3. CASE BeginsCall(s)
    <2>1. calls \in Nat /\ calls' = calls + 1 /\ call'[s].n = calls + 1
      BY <1>3 DEF CallsAreNumbered, BeginsCall
    <2>2. \A t \in Servers \ {s} : call'[t] = Idle \/ call'[t].n \in 1..calls
      BY <1>3 DEF CallsAreNumbered, BeginsCall
    <2> QED BY <1>3, <2>1, <2>2 DEF CallsAreNumbered, BeginsCall
  <1> QED BY <1>1, <1>2, <1>3

-----------------------------------------------------------------------------
(***************************************************************************)
(* Findings, the evidence ids counted from them, and verdicts.             *)
(***************************************************************************)
\* A call moves and no finding is recorded.
Moves(s) == GoesOn(s) \/ EndsCall(s) \/ BeginsCall(s)

LEMMA FindingsPreserved ==
  ASSUME NEW s \in Servers, CallsAreNumbered, FindingsAreNumbered,
         Moves(s), findings' = findings \/ InsertFinding(s)
  PROVE  FindingsAreNumbered'
  <1>1. CASE findings' = findings
    <2>1. ASSUME NEW f \in findings, call'[s] # Idle, call'[s].n = f.by
          PROVE  call'[s].at = "ended"
      <3>1. f.by \in 1..calls /\ calls \in Nat
        BY DEF FindingsAreNumbered, CallsAreNumbered
      <3>2. CASE GoesOn(s)
        <4>1. call[s] # Idle /\ call[s].n = f.by /\ call[s].at # "ended"
          BY <2>1, <3>2 DEF GoesOn, Idle
        <4> QED BY <4>1 DEF FindingsAreNumbered
      <3>3. CASE BeginsCall(s)
        BY <2>1, <3>1, <3>3 DEF BeginsCall
      <3> QED BY <2>1, <3>2, <3>3 DEF Moves, EndsCall
    <2>2. \A t \in Servers \ {s} : call'[t] = call[t]
      BY DEF Moves, GoesOn, EndsCall, BeginsCall
    <2>3. \A f \in findings : f.by \in 1..calls'
      BY DEF Moves, GoesOn, EndsCall, BeginsCall, FindingsAreNumbered, CallsAreNumbered
    <2> QED BY <1>1, <2>1, <2>2, <2>3 DEF FindingsAreNumbered
  <1>2. CASE InsertFinding(s)
    <2>1. PICK g : /\ findings' = findings \cup {g} /\ g.by = call[s].n
                   /\ call[s].at = "counted" /\ calls' = calls
      BY <1>2 DEF InsertFinding
    <2>2. call[s] # Idle /\ call[s].n \in 1..calls
          /\ call'[s].at = "ended" /\ call'[s].n = call[s].n
      BY <1>2 DEF InsertFinding, Ends, CallsAreNumbered, Idle
    <2>3. \A f \in findings : f.by # g.by
      BY <2>1, <2>2 DEF FindingsAreNumbered
    <2>4. IsFiniteSet(findings')
      BY <2>1, FS_AddElement DEF FindingsAreNumbered
    <2>5. \A t \in Servers \ {s} : call'[t] = call[t]
      BY DEF Moves, GoesOn, EndsCall, BeginsCall
    <2>6. \A t \in Servers : call'[t] # Idle /\ call'[t].n = g.by => t = s
      BY <2>1, <2>2, <2>5 DEF CallsAreNumbered
    <2>7. ASSUME NEW f \in findings', NEW t \in Servers, call'[t] # Idle, call'[t].n = f.by
          PROVE  call'[t].at = "ended"
      <3>1. CASE f = g
        BY <2>2, <2>6, <2>7, <3>1
      <3>2. CASE f \in findings
        BY <2>2, <2>5, <2>7, <3>2 DEF FindingsAreNumbered
      <3> QED BY <2>1, <2>7, <3>1, <3>2
    <2>8. \A f \in findings' : f.by \in 1..calls'
      BY <2>1, <2>2 DEF FindingsAreNumbered
    <2>9. \A f, h \in findings' : f.by = h.by => f = h
      BY <2>1, <2>3 DEF FindingsAreNumbered
    <2> QED BY <2>4, <2>7, <2>8, <2>9 DEF FindingsAreNumbered
  <1> QED BY <1>1, <1>2

\* Of the findings of an investigation there are as many as they have numbers.
LEMMA NumbersCount ==
  ASSUME FindingsAreNumbered, NEW i
  PROVE  LET B == {f.by : f \in FindingsOf(i)}
         IN  IsFiniteSet(B) /\ Cardinality(B) = Cardinality(FindingsOf(i))
  <1> DEFINE B == {f.by : f \in FindingsOf(i)}
             M == [f \in FindingsOf(i) |-> f.by]
  <1>1. IsFiniteSet(FindingsOf(i))
    BY FS_Subset DEF FindingsOf, FindingsAreNumbered
  <1>2. M \in Bijection(FindingsOf(i), B)
    BY DEF Bijection, Injection, IsInjective, Surjection, FindingsOf, FindingsAreNumbered
  <1>3. ExistsBijection(FindingsOf(i), B)
    BY <1>2 DEF ExistsBijection
  <1> QED BY <1>1, <1>3, FS_Bijection

LEMMA EvidencePreserved ==
  ASSUME NEW s \in Servers, CallsAreNumbered, FindingsAreNumbered, EvidenceIsCounted,
         Moves(s),
         \/ InsertFinding(s) \/ CountFindings(s)
         \/ findings' = findings /\ call'[s].at # "counted"
  PROVE  EvidenceIsCounted'
  <1>0. \A t \in Servers \ {s} : call'[t] = call[t]
    BY DEF Moves, GoesOn, EndsCall, BeginsCall
  <1>1. CASE findings' = findings /\ call'[s].at # "counted"
    BY <1>0, <1>1 DEF EvidenceIsCounted, Counted, FindingsOf
  <1>2. CASE CountFindings(s)
    <2> DEFINE i == call[s].inv
               B == {f.by : f \in FindingsOf(i)}
    <2>1. findings' = findings
      BY <1>2 DEF CountFindings, stored
    <2>2. call'[s].inv = i /\ call'[s].seen = B
          /\ call'[s].evidence = Cardinality(FindingsOf(i)) + 1
      BY <1>2 DEF CountFindings, NextEvidence, Does, CallsAreNumbered
    <2>3. IsFiniteSet(B) /\ Cardinality(B) = Cardinality(FindingsOf(i))
      BY NumbersCount
    <2>4. \A g \in FindingsOf(i) : g.seen \subseteq B
      BY DEF EvidenceIsCounted, Counted, FindingsOf
    <2>5. Counted(i, B, Cardinality(FindingsOf(i)) + 1)
      BY <2>3, <2>4 DEF Counted
    <2>6. \A j, seen, e : Counted(j, seen, e)' <=> Counted(j, seen, e)
      BY <2>1 DEF Counted, FindingsOf
    <2>7. \A f \in findings' : Counted(f.inv, f.seen, f.evidence)' /\ f.by \notin f.seen
      BY <2>1, <2>6 DEF EvidenceIsCounted
    <2>8. ASSUME NEW t \in Servers, call'[t].at = "counted"
          PROVE  Counted(call[t].inv, call[t].seen, call[t].evidence)'
      <3>1. CASE t = s
        BY <2>2, <2>5, <2>6, <3>1
      <3>2. CASE t # s
        BY <1>0, <2>6, <2>8, <3>2 DEF EvidenceIsCounted
      <3> QED BY <3>1, <3>2
    <2> QED BY <2>7, <2>8 DEF EvidenceIsCounted, Counted
  <1>3. CASE InsertFinding(s)
    <2>0. PICK cited \in BOOLEAN : findings' = findings \cup
            {[by |-> call[s].n, inv |-> call[s].inv, cited |-> cited,
              evidence |-> call[s].evidence, seen |-> call[s].seen]}
      BY <1>3 DEF InsertFinding
    <2> DEFINE g == [by |-> call[s].n, inv |-> call[s].inv, cited |-> cited,
                     evidence |-> call[s].evidence, seen |-> call[s].seen]
    <2>1. /\ findings' = findings \cup {g}
          /\ g.by = call[s].n /\ g.inv = call[s].inv
          /\ g.evidence = call[s].evidence /\ g.seen = call[s].seen
      BY <2>0
    <2> HIDE DEF g
    <2>2. call[s].at = "counted" /\ call'[s].at # "counted"
      BY <1>3 DEF InsertFinding, Ends, CallsAreNumbered
    <2>3. \A f \in findings : f.by # g.by
      BY <2>1, <2>2 DEF FindingsAreNumbered, Idle
    <2>4. ASSUME NEW j, NEW seen, NEW e, Counted(j, seen, e)
          PROVE  Counted(j, seen, e)' /\ g.by \notin seen
      <3>1. g.by \notin seen
        BY <2>3, <2>4 DEF Counted, FindingsOf
      <3>2. FindingsOf(j) \subseteq FindingsOf(j)' /\ FindingsOf(j)' \subseteq FindingsOf(j) \cup {g}
        BY <2>1 DEF FindingsOf
      <3> QED BY <2>4, <3>1, <3>2 DEF Counted
    <2>5. Counted(g.inv, g.seen, g.evidence)
      BY <2>1, <2>2 DEF EvidenceIsCounted
    <2>6. \A f \in findings' : Counted(f.inv, f.seen, f.evidence)' /\ f.by \notin f.seen
      BY <2>1, <2>4, <2>5 DEF EvidenceIsCounted
    <2>7. \A t \in Servers : call'[t].at = "counted" =>
            t # s /\ call'[t] = call[t] /\ Counted(call[t].inv, call[t].seen, call[t].evidence)
      BY <1>0, <2>2 DEF EvidenceIsCounted
    <2>8. \A t \in Servers : call'[t].at = "counted" =>
            Counted(call[t].inv, call[t].seen, call[t].evidence)'
      BY <2>4, <2>7
    <2> QED BY <2>6, <2>7, <2>8 DEF EvidenceIsCounted, Counted
  <1> QED BY <1>1, <1>2, <1>3

\* A verdict that rests on cited findings goes on doing so.
LEMMA CitedStays ==
  ASSUME findings \subseteq findings', NEW i, NEW basis, Cited(findings, i, basis)
  PROVE  Cited(findings', i, basis)
  BY DEF Cited

LEMMA ClosedIsCited ==
  ClosedOnEvidence <=>
    \A i \in Opened : investigations[i].status = "closed" =>
      Cited(findings, i, investigations[i].basis)
  <1>1. \A i : {f \in FindingsOf(i) : f.cited} = {f \in findings : f.inv = i /\ f.cited}
    BY DEF FindingsOf
  <1> QED BY <1>1 DEF ClosedOnEvidence, Cited

LEMMA VerdictsPreserved ==
  ASSUME NEW s \in Servers, CallsAreNumbered, ClosedOnEvidence, ChecksAreCited,
         Moves(s), findings \subseteq findings',
         \/ OpenInvestigation(s) \/ CheckEvidence(s) \/ CloseInvestigation(s)
         \/ investigations' = investigations /\ call'[s].at # "checked"
  PROVE  ClosedOnEvidence' /\ ChecksAreCited'
  <1>1. \A t \in Servers \ {s} : call'[t] = call[t]
    BY DEF Moves, GoesOn, EndsCall, BeginsCall
  <1>2. \A i, basis : Cited(findings, i, basis) => Cited(findings', i, basis)
    BY CitedStays
  <1>3. \A i \in Opened : investigations[i].status = "closed" =>
          Cited(findings', i, investigations[i].basis)
    BY <1>2, ClosedIsCited
  <1>4. \A t \in Servers \ {s} : call'[t].at = "checked" =>
          call'[t].inv \in Opened /\ Cited(findings', call'[t].inv, call'[t].basis)
    BY <1>1, <1>2 DEF ChecksAreCited
  <1>5. SUFFICES /\ \A i \in Opened' : investigations'[i].status = "closed" =>
                      Cited(findings', i, investigations'[i].basis)
                 /\ Opened \subseteq Opened'
                 /\ call'[s].at = "checked" =>
                      call'[s].inv \in Opened /\ Cited(findings', call'[s].inv, call'[s].basis)
    <2>1. (ClosedOnEvidence <=>
             \A i \in Opened : investigations[i].status = "closed" =>
               Cited(findings, i, investigations[i].basis))'
      BY ClosedIsCited, PTL
    <2> QED BY <1>4, <1>5, <2>1 DEF ChecksAreCited
  <1>6. CASE investigations' = investigations /\ call'[s].at # "checked"
    BY <1>3, <1>6 DEF Opened
  <1>7. CASE OpenInvestigation(s)
    <2>1. /\ Opened' = Opened \cup {call[s].inv}
          /\ \A i \in Opened : investigations'[i] = investigations[i]
          /\ investigations'[call[s].inv].status = "open"
          /\ call'[s].at # "checked"
      BY <1>7 DEF OpenInvestigation, Ends, Opened, CallsAreNumbered
    <2> QED BY <1>3, <2>1
  <1>8. CASE CheckEvidence(s)
    <2> DEFINE B == FindingsOf(call[s].inv)
    <2>1. /\ investigations' = investigations /\ findings' = findings
          /\ call[s].inv \in Opened /\ call'[s].inv = call[s].inv
          /\ B # {} /\ (\A f \in B : f.cited)
          /\ call'[s].basis = {f.by : f \in B}
      BY <1>8 DEF CheckEvidence, Does, stored, CallsAreNumbered
    <2>2. Cited(findings, call[s].inv, {f.by : f \in B})
      BY <2>1 DEF Cited, FindingsOf
    <2> QED BY <1>3, <2>1, <2>2 DEF Opened
  <1>9. CASE CloseInvestigation(s)
    <2>1. /\ Cited(findings, call[s].inv, call[s].basis)
          /\ call[s].inv \in Opened /\ call'[s].at # "checked"
      BY <1>9 DEF CloseInvestigation, Ends, CallsAreNumbered, ChecksAreCited
    <2>2. /\ Opened' = Opened
          /\ investigations'[call[s].inv].basis = call[s].basis
          /\ \A i \in Opened \ {call[s].inv} : investigations'[i] = investigations[i]
      BY <1>9, <2>1 DEF CloseInvestigation, Opened
    <2> QED BY <1>2, <1>3, <2>1, <2>2
  <1> QED BY <1>6, <1>7, <1>8, <1>9

-----------------------------------------------------------------------------
(***************************************************************************)
(* What has changed the tables has an audit row.                           *)
(***************************************************************************)
\* A step of a call changes the tables under its own number, if at all.
ChangesAsItself(s) ==
  /\ audit \subseteq audit' /\ lost \subseteq lost'
  /\ \/ GoesOn(s) /\ ChangedBy' \subseteq ChangedBy \cup {call[s].n}
     \/ /\ EndsCall(s) /\ ChangedBy' \subseteq ChangedBy
        /\ (\E a \in audit' : a.call = call[s].n) \/ call[s].n \in lost'
     \/ BeginsCall(s) /\ ChangedBy' \subseteq ChangedBy

LEMMA AuditPreserved ==
  ASSUME NEW s \in Servers, AuditedUnlessLost, ChangesAsItself(s)
  PROVE  AuditedUnlessLost'
  <1> SUFFICES ASSUME NEW n \in ChangedBy', n \notin lost',
                      ~ \E a \in audit' : a.call = n
               PROVE  \E t \in Servers : call'[t] # Idle /\ call'[t].n = n
    BY DEF AuditedUnlessLost
  <1>1. \A t \in Servers \ {s} : call'[t] = call[t]
    BY DEF ChangesAsItself, GoesOn, EndsCall, BeginsCall
  <1>2. GoesOn(s) => call'[s] # Idle /\ call'[s].n = call[s].n
    BY DEF GoesOn, Idle
  <1>3. CASE GoesOn(s) /\ n = call[s].n
    BY <1>2, <1>3
  <1>4. CASE n \in ChangedBy
    <2>1. PICK t \in Servers : call[t] # Idle /\ call[t].n = n
      BY <1>4 DEF AuditedUnlessLost, ChangesAsItself
    <2>2. t = s => GoesOn(s)
      BY <2>1 DEF ChangesAsItself, BeginsCall
    <2> QED BY <1>1, <1>2, <2>1, <2>2
  <1> QED BY <1>3, <1>4 DEF ChangesAsItself

LEMMA StepChangesAsItself ==
  ASSUME NEW s \in Servers, DOMAIN call = Servers,
         Begin(s) \/ ToolStep(s) \/ Log(s) \/ Crash(s)
  PROVE  ChangesAsItself(s)
  <1>1. CASE Begin(s)
    <2>1. ChangedBy' = ChangedBy /\ audit' = audit /\ lost' = lost
      BY <1>1 DEF Begin, stored, kept, ChangedBy, Opened
    <2> QED BY <1>1, <2>1, BeginBegins DEF ChangesAsItself
  <1>2. CASE Log(s) \/ Crash(s)
    <2>1. ChangedBy' = ChangedBy
      BY <1>2 DEF Log, Crash, stored, kept, ChangedBy, Opened
    <2>2. AuditRow(call[s].n).call = call[s].n
      BY DEF AuditRow
    <2>3. /\ audit \subseteq audit' /\ lost \subseteq lost'
          /\ (\E a \in audit' : a.call = call[s].n) \/ call[s].n \in lost'
      BY <1>2, <2>2 DEF Log, Crash
    <2> QED BY <1>2, <2>1, <2>3, OverEndsCall DEF ChangesAsItself
  <1>3. CASE ToolStep(s)
    <2> DEFINE n == call[s].n
               Opens == \A i \in Opened' :
                 \/ investigations'[i].by = n
                 \/ i \in Opened /\ investigations'[i] = investigations[i]
               Records == \A f \in findings' : f.by = n \/ f \in findings
               Notes == timeline' \subseteq timeline \cup {n}
               Reports == \A r \in reports' : r.by = n \/ r \in reports
               Audits == audit \subseteq audit' /\ lost' = lost
    <2>1. SUFFICES Opens /\ Records /\ Notes /\ Reports /\ Audits
      <3>1. ChangedBy' \subseteq ChangedBy \cup {n}
        BY <2>1 DEF ChangedBy
      <3> QED BY <1>3, <2>1, <3>1, ToolGoesOn DEF ChangesAsItself
    <2>2. CASE OpenInvestigation(s)
      BY <2>2 DEF OpenInvestigation, kept, Opened
    <2>3. CASE InsertFinding(s)
      BY <2>3 DEF InsertFinding, kept, Opened
    <2>4. CASE AddTimelineEvent(s)
      BY <2>4 DEF AddTimelineEvent, kept, Opened
    <2>5. CASE CloseInvestigation(s)
      BY <2>5 DEF CloseInvestigation, kept, Opened
    <2>6. CASE CountFindings(s) \/ CheckEvidence(s) \/ Raises(s)
      BY <2>6 DEF CountFindings, CheckEvidence, Raises, stored, kept, Opened
    <2>7. CASE ReportTool(s)
      <3>1. reports' = reports \/ reports' = reports \cup {[by |-> n, name |-> call[s].name]}
        BY <2>7 DEF ReportTool, ReportStep, WriteReport, InsertReport, NotResolved,
                    GivenMarkdown, Reuse, ReadMarkdown, WritePdf, FailPdf, HandOut, kept
      <3>2. Reports
        BY <3>1
      <3> QED BY <2>7, <3>2 DEF ReportTool, stored, Opened
    <2> QED BY <1>3, <2>2, <2>3, <2>4, <2>5, <2>6, <2>7 DEF ToolStep
  <1> QED BY <1>1, <1>2, <1>3

-----------------------------------------------------------------------------
(***************************************************************************)
(* Reports: from the file to the PDF.                                      *)
(***************************************************************************)
\* What the lemmas on the steps of the report tools start from.
AtWork(s) ==
  /\ FilesAreShown
  /\ DOMAIN call = Servers
  /\ \A t \in Servers \ {s} : call'[t] = call[t]

\* A step that is no step at a file leaves them as they are.
LEMMA FilesUntouched ==
  ASSUME NEW s \in Servers, AtWork(s), UNCHANGED <<files, pdfs, disturbed>>,
         call'[s].at \in OnFile /\ call'[s].name \notin disturbed => ShowsFile(s, call[s].name)'
  PROVE  FilesAreShown'
  <1>1. ASSUME NEW t \in Servers \ {s}, call'[t].at \in OnFile, call'[t].name \notin disturbed'
        PROVE  ShowsFile(t, call[t].name)'
    BY <1>1 DEF AtWork, FilesAreShown, ShowsFile
  <1> QED BY <1>1 DEF AtWork, FilesAreShown, ShowsFile

LEMMA WriteShows ==
  ASSUME NEW s \in Servers, AtWork(s), WriteReport(s)
  PROVE  FilesAreShown'
  <1>1. PICK name \in Names, tied \in BOOLEAN :
          /\ files' = Put(files, name, call[s].n)
          /\ pdfs' = [m \in DOMAIN pdfs |->
               IF m = name THEN [of |-> pdfs[m].of, fresh |-> tied] ELSE pdfs[m]]
          /\ disturbed' = IF Alone(s, name) /\ ~ tied THEN disturbed \ {name}
                          ELSE disturbed \cup {name}
          /\ call'[s] = [at |-> "written", n |-> call[s].n, name |-> name]
    BY DEF WriteReport, AtWork
  <1>2. name \in DOMAIN files' /\ files'[name] = call[s].n
        /\ \A m \in DOMAIN files \ {name} : m \in DOMAIN files' /\ files'[m] = files[m]
    BY <1>1 DEF Put
  <1>3. DOMAIN pdfs' = DOMAIN pdfs
        /\ (\A m \in DOMAIN pdfs \ {name} : pdfs'[m] = pdfs[m])
        /\ (name \in DOMAIN pdfs /\ name \notin disturbed' => pdfs'[name].fresh = FALSE)
    BY <1>1
  <1>4. \A m : m # name /\ m \notin disturbed' => m \notin disturbed
    BY <1>1
  <1>5. \A m \in DOMAIN pdfs' \ disturbed' :
          pdfs'[m].fresh => m \in DOMAIN files' /\ pdfs'[m].of = files'[m]
    BY <1>2, <1>3, <1>4 DEF AtWork, FilesAreShown
  <1>6. ASSUME NEW t \in Servers, call'[t].at \in OnFile, call'[t].name \notin disturbed'
        PROVE  ShowsFile(t, call[t].name)'
    <2>1. CASE t = s
      BY <1>1, <1>2, <2>1 DEF ShowsFile
    <2>2. CASE t # s
      <3>1. call'[t] = call[t] /\ call[t].name # name
        BY <1>1, <1>6, <2>2 DEF AtWork, Alone
      <3>2. ShowsFile(t, call[t].name)
        BY <1>4, <1>6, <3>1 DEF AtWork, FilesAreShown
      <3> QED BY <1>2, <1>3, <3>1, <3>2 DEF ShowsFile
    <2> QED BY <2>1, <2>2
  <1> QED BY <1>5, <1>6 DEF FilesAreShown, ShowsFile

\* After a conversion, done or broken off, its server has what it had.
LEMMA PdfShows ==
  ASSUME NEW s \in Servers, AtWork(s), call[s].at = "converting", files' = files,
         NEW of, pdfs' = Put(pdfs, call[s].name, [of |-> of, fresh |-> TRUE]),
         \/ of = call[s].of /\ disturbed' = disturbed
         \/ disturbed' = disturbed \cup {call[s].name},
         call'[s].at \in OnFile =>
           /\ call'[s].at \in {"resolving", "resolved"}
           /\ call'[s].name = call[s].name /\ call'[s].had = call[s].had
  PROVE  FilesAreShown'
  <1> DEFINE name == call[s].name
  <1>1. /\ name \in DOMAIN pdfs' /\ pdfs'[name].of = of
        /\ \A m \in DOMAIN pdfs : m \in DOMAIN pdfs'
        /\ \A m \in DOMAIN pdfs' \ {name} : m \in DOMAIN pdfs /\ pdfs'[m] = pdfs[m]
    BY DEF Put
  <1>2. name \notin disturbed' =>
          name \in DOMAIN files /\ of = files[name] /\ call[s].had = files[name]
    BY DEF AtWork, FilesAreShown, ShowsFile, OnFile
  <1>3. \A m \in DOMAIN pdfs' \ disturbed' :
          pdfs'[m].fresh => m \in DOMAIN files' /\ pdfs'[m].of = files'[m]
    <2> TAKE m \in DOMAIN pdfs' \ disturbed'
    <2>1. CASE m = name
      BY <1>1, <1>2, <2>1
    <2>2. CASE m # name
      BY <1>1, <2>2 DEF AtWork, FilesAreShown
    <2> QED BY <2>1, <2>2
  <1>4. ASSUME NEW t \in Servers, call'[t].at \in OnFile, call'[t].name \notin disturbed'
        PROVE  ShowsFile(t, call[t].name)'
    <2>1. CASE t = s
      BY <1>1, <1>2, <1>4, <2>1 DEF ShowsFile
    <2>2. CASE t # s
      <3>1. call'[t] = call[t] /\ ShowsFile(t, call[t].name)
        BY <1>4, <2>2 DEF AtWork, FilesAreShown
      <3> QED BY <1>1, <1>2, <1>4, <3>1 DEF ShowsFile
    <2> QED BY <2>1, <2>2
  <1> QED BY <1>3, <1>4 DEF FilesAreShown

\* The call goes on with the report it has.
LEMMA GoesShows ==
  ASSUME NEW s \in Servers, DOMAIN call = Servers, Goes(s)
  PROVE  call'[s].at \in OnFile =>
           call'[s].at = "resolving" /\ call'[s].name = call[s].name /\ call'[s].had = call[s].had
  BY DEF Goes, Resolves, Ends, OnFile

LEMMA FilesPreserved ==
  ASSUME NEW s \in Servers, AtWork(s), ReportStep(s)
  PROVE  FilesAreShown'
  <1>1. CASE WriteReport(s)
    BY <1>1, WriteShows
  <1> DEFINE name == call[s].name
  <1>2. call[s].at \in OnFile /\ name \notin disturbed => ShowsFile(s, name)
    BY DEF AtWork, FilesAreShown
  <1>3. CASE InsertReport(s)
    <2>1. call'[s].at \in OnFile =>
            call'[s].at = "resolving" /\ call'[s].name = name /\ call'[s].had = call[s].n
      BY <1>3 DEF InsertReport, Ends, Resolves, OnFile, AtWork
    <2>2. call[s].at = "written" /\ UNCHANGED <<files, pdfs, disturbed>>
      BY <1>3 DEF InsertReport
    <2>3. call'[s].at \in OnFile /\ call'[s].name \notin disturbed => ShowsFile(s, call[s].name)'
      BY <1>2, <2>1, <2>2 DEF ShowsFile, OnFile
    <2> QED BY <2>2, <2>3, FilesUntouched
  <1>4. ASSUME NEW tool \in {"convert_report_to_pdf", "send_report_to_telegram"},
               NotResolved(s, tool) \/ GivenMarkdown(s, tool)
        PROVE  FilesAreShown'
    <2>1. UNCHANGED <<files, pdfs, disturbed>>
      BY <1>4 DEF NotResolved, GivenMarkdown, kept
    <2>2. call'[s].at \in OnFile =>
            call'[s].at = "resolving" /\ call'[s].name \in DOMAIN files
            /\ call'[s].had = files[call'[s].name]
      BY <1>4 DEF NotResolved, GivenMarkdown, Ends, Resolves, OnFile, AtWork
    <2>3. call'[s].at \in OnFile => ShowsFile(s, call[s].name)'
      BY <2>1, <2>2 DEF ShowsFile
    <2> QED BY <2>1, <2>3, FilesUntouched
  <1>5. CASE Reuse(s)
    <2>1. /\ call[s].at = "resolving" /\ name \in DOMAIN pdfs /\ pdfs[name].fresh
          /\ call'[s].at = "resolved" /\ call'[s].name = name /\ call'[s].had = call[s].had
          /\ UNCHANGED <<files, pdfs, disturbed>>
      BY <1>5 DEF Reuse, ToBeGiven, kept, AtWork
    <2>2. name \notin disturbed => pdfs[name].of = files[name]
      BY <2>1 DEF AtWork, FilesAreShown
    <2>3. call'[s].name \notin disturbed => ShowsFile(s, call[s].name)'
      BY <1>2, <2>1, <2>2 DEF ShowsFile, OnFile
    <2> QED BY <2>1, <2>3, FilesUntouched
  <1>6. CASE ReadMarkdown(s)
    <2>1. /\ call[s].at = "resolving" /\ call'[s].of = files[name]
          /\ call'[s].at = "converting" /\ call'[s].name = name /\ call'[s].had = call[s].had
          /\ UNCHANGED <<files, pdfs, disturbed>>
      BY <1>6 DEF ReadMarkdown, kept, AtWork
    <2>2. call'[s].name \notin disturbed => ShowsFile(s, call[s].name)'
      BY <1>2, <2>1 DEF ShowsFile, OnFile
    <2> QED BY <2>1, <2>2, FilesUntouched
  <1>7. CASE WritePdf(s)
    <2>1. /\ call[s].at = "converting" /\ files' = files /\ disturbed' = disturbed
          /\ pdfs' = Put(pdfs, name, [of |-> call[s].of, fresh |-> TRUE])
          /\ call'[s].at = "resolved" /\ call'[s].name = name /\ call'[s].had = call[s].had
      BY <1>7 DEF WritePdf, ToBeGiven, AtWork
    <2> QED BY <2>1, PdfShows
  <1>8. CASE FailPdf(s)
    <2>1. /\ call'[s].at \in OnFile =>
               call'[s].at = "resolving" /\ call'[s].name = name /\ call'[s].had = call[s].had
          /\ call[s].at = "converting" /\ files' = files
      BY <1>8, GoesShows DEF FailPdf, AtWork
    <2>2. CASE UNCHANGED <<pdfs, disturbed>>
      <3>1. call'[s].at \in OnFile /\ call'[s].name \notin disturbed => ShowsFile(s, call[s].name)'
        BY <1>2, <2>1, <2>2 DEF ShowsFile, OnFile
      <3> QED BY <2>1, <2>2, <3>1, FilesUntouched
    <2>3. CASE /\ pdfs' = Put(pdfs, name, [of |-> Nothing, fresh |-> TRUE])
               /\ disturbed' = disturbed \cup {name}
      BY <2>1, <2>3, PdfShows
    <2> QED BY <1>8, <2>2, <2>3 DEF FailPdf
  <1>9. CASE HandOut(s)
    <2>1. /\ call'[s].at \in OnFile =>
               call'[s].at = "resolving" /\ call'[s].name = name /\ call'[s].had = call[s].had
          /\ call[s].at = "resolved" /\ UNCHANGED <<files, pdfs, disturbed>>
      BY <1>9, GoesShows DEF HandOut, AtWork, kept
    <2>2. call'[s].at \in OnFile /\ call'[s].name \notin disturbed => ShowsFile(s, call[s].name)'
      BY <1>2, <2>1 DEF ShowsFile, OnFile
    <2> QED BY <2>1, <2>2, FilesUntouched
  <1> QED BY <1>1, <1>3, <1>4, <1>5, <1>6, <1>7, <1>8, <1>9 DEF ReportStep

-----------------------------------------------------------------------------
(***************************************************************************)
(* Together.                                                               *)
(***************************************************************************)
LEMMA StepMoves ==
  ASSUME NEW s \in Servers, CallsAreNumbered,
         Begin(s) \/ ToolStep(s) \/ Log(s) \/ Crash(s)
  PROVE  Moves(s)
  BY BeginBegins, ToolGoesOn, OverEndsCall DEF Moves, CallsAreNumbered

\* What a step leaves alone, but for the steps that have lemmas of their own.
LEMMA StepTouches ==
  ASSUME NEW s \in Servers, DOMAIN call = Servers,
         Begin(s) \/ ToolStep(s) \/ Log(s) \/ Crash(s)
  PROVE  /\ InsertFinding(s) \/ findings' = findings
         /\ InsertFinding(s) \/ CountFindings(s) \/ call'[s].at # "counted"
         /\ \/ OpenInvestigation(s) \/ CheckEvidence(s) \/ CloseInvestigation(s)
            \/ investigations' = investigations /\ call'[s].at # "checked"
         /\ ReportStep(s) \/ (UNCHANGED kept /\ call'[s].at \notin OnFile)
  <1>1. CASE Begin(s)
    BY <1>1 DEF Begin, stored, OnFile
  <1>2. CASE Log(s) \/ Crash(s)
    BY <1>2 DEF Log, Crash, stored, Idle, OnFile
  <1>3. CASE ReportTool(s)
    <2>1. call'[s].at \notin {"counted", "checked"}
      BY <1>3 DEF ReportTool, ReportStep, WriteReport, InsertReport, NotResolved,
                  GivenMarkdown, Reuse, ReadMarkdown, WritePdf, FailPdf, HandOut,
                  Goes, ToBeGiven, Resolves, Ends
    <2> QED BY <1>3, <2>1 DEF ReportTool, stored
  <1>4. CASE OpenInvestigation(s)
    BY <1>4 DEF OpenInvestigation, Ends, OnFile
  <1>5. CASE CountFindings(s)
    BY <1>5 DEF CountFindings, stored, OnFile
  <1>6. CASE InsertFinding(s)
    BY <1>6 DEF InsertFinding, Ends, OnFile
  <1>7. CASE AddTimelineEvent(s)
    BY <1>7 DEF AddTimelineEvent, Ends, OnFile
  <1>8. CASE CheckEvidence(s)
    BY <1>8 DEF CheckEvidence, stored, OnFile
  <1>9. CASE CloseInvestigation(s)
    BY <1>9 DEF CloseInvestigation, Ends, OnFile
  <1>10. CASE Raises(s)
    BY <1>10 DEF Raises, stored, Ends, OnFile
  <1> QED BY <1>1, <1>2, <1>3, <1>4, <1>5, <1>6, <1>7, <1>8, <1>9, <1>10 DEF ToolStep

LEMMA StepPreserves ==
  ASSUME NEW s \in Servers, InvestigationInv,
         Begin(s) \/ ToolStep(s) \/ Log(s) \/ Crash(s)
  PROVE  InvestigationInv'
  <1>1. Moves(s) /\ DOMAIN call = Servers
    BY StepMoves DEF InvestigationInv, CallsAreNumbered
  <1>2. CallsAreNumbered'
    BY <1>1, NumbersPreserved DEF InvestigationInv, Moves
  <1>3. FindingsAreNumbered'
    BY <1>1, StepTouches, FindingsPreserved DEF InvestigationInv
  <1>4. EvidenceIsCounted'
    BY <1>1, StepTouches, EvidencePreserved DEF InvestigationInv
  <1>5. findings \subseteq findings'
    BY <1>1, StepTouches DEF InsertFinding
  <1>6. ClosedOnEvidence' /\ ChecksAreCited'
    BY <1>1, <1>5, StepTouches, VerdictsPreserved DEF InvestigationInv
  <1>7. AuditedUnlessLost'
    BY <1>1, StepChangesAsItself, AuditPreserved DEF InvestigationInv
  <1>8. AtWork(s)
    BY <1>1 DEF AtWork, InvestigationInv, Moves, GoesOn, EndsCall, BeginsCall
  <1>9. FilesAreShown'
    <2>1. CASE ReportStep(s)
      BY <1>8, <2>1, FilesPreserved
    <2>2. CASE UNCHANGED kept /\ call'[s].at \notin OnFile
      BY <1>8, <2>2, FilesUntouched DEF kept
    <2> QED BY <1>1, <2>1, <2>2, StepTouches
  <1> QED BY <1>2, <1>3, <1>4, <1>6, <1>7, <1>9 DEF InvestigationInv

\* InvestigationInv holds at all times, whatever sessions do beside each other.
THEOREM InvestigationInvariant == Spec => []InvestigationInv
  <1>1. InvestigationInv /\ [Next]_vars => InvestigationInv'
    <2> SUFFICES ASSUME InvestigationInv, [Next]_vars PROVE InvestigationInv'
      OBVIOUS
    <2>1. CASE Next
      BY <2>1, StepPreserves DEF Next, ToolStep
    <2>2. CASE UNCHANGED vars
      BY <2>2 DEF vars, stored, kept, InvestigationInv, CallsAreNumbered,
                  FindingsAreNumbered, EvidenceIsCounted, Counted, FindingsOf,
                  ClosedOnEvidence, Opened, ChecksAreCited, Cited, AuditedUnlessLost,
                  ChangedBy, FilesAreShown, ShowsFile
    <2> QED BY <2>1, <2>2
  <1> QED BY <1>1, InitInvestigation, PTL DEF Spec

\* Evidence ids collide only between findings that are recorded at once
\* (repos/investigations.py:63-70): a finding that has seen another has seen all
\* that this one had seen, and it as well, so that it counted more.
THEOREM EvidenceIdsAreApart == Spec => []EvidenceIdsApart
  <1>1. InvestigationInv => EvidenceIdsApart
    <2> SUFFICES ASSUME EvidenceIsCounted, NEW f \in findings, NEW g \in findings,
                        f.inv = g.inv, f.evidence = g.evidence, f.by \in g.seen
                 PROVE  FALSE
      BY DEF InvestigationInv, EvidenceIdsApart
    <2>1. /\ IsFiniteSet(f.seen) /\ f.evidence = Cardinality(f.seen) + 1 /\ f.by \notin f.seen
          /\ IsFiniteSet(g.seen) /\ g.evidence = Cardinality(g.seen) + 1
          /\ f.seen \subseteq g.seen
      BY DEF EvidenceIsCounted, Counted, FindingsOf
    <2>2. Cardinality(f.seen) \in Nat /\ Cardinality(g.seen) \in Nat
      BY <2>1, FS_CardinalityType
    <2> DEFINE m == Cardinality(f.seen)
               n == Cardinality(g.seen)
    <2>3. m = n
      <3>1. m \in Nat /\ n \in Nat /\ m + 1 = n + 1
        BY <2>1, <2>2
      <3> HIDE DEF m, n
      <3> QED BY <3>1
    <2>4. f.seen = g.seen
      BY <2>1, <2>3, FS_Subset
    <2> QED BY <2>1, <2>4
  <1> QED BY <1>1, InvestigationInvariant, PTL

\* No verdict without cited findings, for any number of sessions that record and
\* close at the same time (repos/investigations.py:236-272).
THEOREM VerdictsAreCited == Spec => []ClosedOnEvidence
  <1>1. InvestigationInv => ClosedOnEvidence
    BY DEF InvestigationInv
  <1> QED BY <1>1, InvestigationInvariant, PTL

\* What has changed the tables is in the audit trail, but for calls that are under
\* way, were cut off, or whose row the database refused (server.py, @audited).
THEOREM ChangesAreAudited == Spec => []AuditedUnlessLost
  <1>1. InvestigationInv => AuditedUnlessLost
    BY DEF InvestigationInv
  <1> QED BY <1>1, InvestigationInvariant, PTL

\* What is sent or answered as a report's PDF shows that report, unless two calls
\* were at its file at once or a conversion broke off (report_pdf.py:205-230).
THEOREM PdfsShowTheirReport == Spec => []PdfShowsReport
  <1>1. InvestigationInv => PdfShowsReport
    BY DEF InvestigationInv, FilesAreShown, ShowsFile, OnFile, PdfShowsReport
  <1> QED BY <1>1, InvestigationInvariant, PTL

-----------------------------------------------------------------------------
(***************************************************************************)
(* The watcher: why the triage runs of an event are bounded.  Each run was *)
(* started by a server that had read the event before anybody noted it;    *)
(* from the first note on nobody reads it again, and those who still have  *)
(* it, to start a run or to note one, are no more than there are servers.  *)
(***************************************************************************)
Thread == [pc : {"off", "wait", "work", "mark"}, batch : SUBSET Events,
           event : Events \cup {Never}, last : Nat \cup {Never}]

WatchTypeOK ==
  /\ now \in Nat
  /\ watched \subseteq Events /\ committed \subseteq Events
  /\ watcher \in [Watchers -> Thread]
  /\ triages \in [Events -> Nat]
  /\ unmarked \in [Events -> Nat]

\* A run is to be noted in the stage for it, and its event has left the batch.
OneAtATime ==
  \A s \in Watchers :
    /\ watcher[s].pc = "mark" <=> watcher[s].event # Never
    /\ watcher[s].event \notin watcher[s].batch

\* Who has started a run for e and not noted it; who will come to e.
Holders(e) == {s \in Watchers : watcher[s].event = e}
Readers(e) == {s \in Watchers : e \in watcher[s].batch}

\* Until e is noted, its runs are those that were lost and those in hand.
RunsInHand ==
  \A e \in Events \ watched : triages[e] = unmarked[e] + Cardinality(Holders(e))

\* From then on there is one more for each server that has read e.
RunsToCome ==
  \A e \in watched :
    triages[e] + Cardinality(Readers(e)) <= Cardinality(Watchers) + unmarked[e]

WatchInv ==
  /\ WatchTypeOK
  /\ OneAtATime
  /\ RunsInHand
  /\ RunsToCome

LEMMA CountsAreNatural ==
  ASSUME NEW e
  PROVE  /\ IsFiniteSet(Holders(e)) /\ Cardinality(Holders(e)) \in Nat
         /\ IsFiniteSet(Readers(e)) /\ Cardinality(Readers(e)) \in Nat
         /\ Cardinality(Watchers) \in Nat
<1>1. Holders(e) \in SUBSET Watchers /\ Readers(e) \in SUBSET Watchers
  BY DEF Holders, Readers
<1>2. IsFiniteSet(Watchers)
  BY WatcherAssumption
<1>3. IsFiniteSet(Holders(e)) /\ IsFiniteSet(Readers(e))
  BY <1>1, <1>2, FS_Subset
<1> QED
  BY <1>2, <1>3, FS_CardinalityType

\* A server that has started a run for e will not come to e again in this poll.
LEMMA HoldersDoNotRead ==
  ASSUME OneAtATime, NEW e \in Events
  PROVE  Cardinality(Holders(e)) + Cardinality(Readers(e)) <= Cardinality(Watchers)
<1>1. /\ IsFiniteSet(Holders(e)) /\ Cardinality(Holders(e)) \in Nat
      /\ IsFiniteSet(Readers(e)) /\ Cardinality(Readers(e)) \in Nat
  BY CountsAreNatural
<1>2. Holders(e) \cap Readers(e) = {}
  BY DEF OneAtATime, Holders, Readers
<1>3. Cardinality(Holders(e) \cap Readers(e)) = 0
  BY <1>2, FS_EmptySet
<1>4. Cardinality(Holders(e) \cup Readers(e))
        = Cardinality(Holders(e)) + Cardinality(Readers(e))
            - Cardinality(Holders(e) \cap Readers(e))
  BY <1>1, FS_Union
<1>5. Holders(e) \cup Readers(e) \in SUBSET Watchers
  BY DEF Holders, Readers
<1>6. Cardinality(Holders(e) \cup Readers(e)) <= Cardinality(Watchers)
  BY <1>5, WatcherAssumption, FS_Subset
<1> QED
  BY <1>1, <1>3, <1>4, <1>6

One(condition) == IF condition THEN 1 ELSE 0

\* How a step of one thread changes the counts.
LEMMA ThreadMoves ==
  ASSUME WatchTypeOK, NEW s \in Watchers, NEW w \in Thread, Set(s, w), NEW e
  PROVE  /\ Cardinality(Holders(e)') + One(watcher[s].event = e)
              = Cardinality(Holders(e)) + One(w.event = e)
         /\ Cardinality(Readers(e)') + One(e \in watcher[s].batch)
              = Cardinality(Readers(e)) + One(e \in w.batch)
         /\ Cardinality(Holders(e)') \in Nat /\ Cardinality(Readers(e)') \in Nat
<1>1. /\ watcher' = [watcher EXCEPT ![s] = w] /\ watcher'[s] = w
      /\ \A t \in Watchers \ {s} : watcher'[t] = watcher[t]
  BY DEF Set, WatchTypeOK
<1>2. /\ IsFiniteSet(Holders(e)) /\ Cardinality(Holders(e)) \in Nat
      /\ IsFiniteSet(Readers(e)) /\ Cardinality(Readers(e)) \in Nat
  BY CountsAreNatural
<1>3. /\ w.event = e => Holders(e)' = Holders(e) \cup {s}
      /\ w.event # e => Holders(e)' = Holders(e) \ {s}
      /\ s \in Holders(e) <=> watcher[s].event = e
  BY <1>1 DEF Holders
<1>4. /\ e \in w.batch => Readers(e)' = Readers(e) \cup {s}
      /\ e \notin w.batch => Readers(e)' = Readers(e) \ {s}
      /\ s \in Readers(e) <=> e \in watcher[s].batch
  BY <1>1 DEF Readers
<1>5. /\ Cardinality(Holders(e) \cup {s})
           = IF s \in Holders(e) THEN Cardinality(Holders(e)) ELSE Cardinality(Holders(e)) + 1
      /\ Cardinality(Holders(e) \ {s})
           = IF s \in Holders(e) THEN Cardinality(Holders(e)) - 1 ELSE Cardinality(Holders(e))
      /\ Cardinality(Holders(e) \cup {s}) \in Nat /\ Cardinality(Holders(e) \ {s}) \in Nat
  BY <1>2, FS_AddElement, FS_RemoveElement, FS_CardinalityType
<1>6. /\ Cardinality(Readers(e) \cup {s})
           = IF s \in Readers(e) THEN Cardinality(Readers(e)) ELSE Cardinality(Readers(e)) + 1
      /\ Cardinality(Readers(e) \ {s})
           = IF s \in Readers(e) THEN Cardinality(Readers(e)) - 1 ELSE Cardinality(Readers(e))
      /\ Cardinality(Readers(e) \cup {s}) \in Nat /\ Cardinality(Readers(e) \ {s}) \in Nat
  BY <1>2, FS_AddElement, FS_RemoveElement, FS_CardinalityType
<1>7. Cardinality(Holders(e)') + One(watcher[s].event = e)
        = Cardinality(Holders(e)) + One(w.event = e)
  <2>1. CASE w.event = e /\ watcher[s].event = e
    <3>1. Holders(e)' = Holders(e) \cup {s} /\ s \in Holders(e)
      BY <1>3, <2>1
    <3> QED
      BY <1>2, <1>5, <2>1, <3>1 DEF One
  <2>2. CASE w.event = e /\ watcher[s].event # e
    <3>1. Holders(e)' = Holders(e) \cup {s} /\ s \notin Holders(e)
      BY <1>3, <2>2
    <3> QED
      BY <1>2, <1>5, <2>2, <3>1 DEF One
  <2>3. CASE w.event # e /\ watcher[s].event = e
    <3>1. Holders(e)' = Holders(e) \ {s} /\ s \in Holders(e)
      BY <1>3, <2>3
    <3> QED
      BY <1>2, <1>5, <2>3, <3>1 DEF One
  <2>4. CASE w.event # e /\ watcher[s].event # e
    <3>1. Holders(e)' = Holders(e) \ {s} /\ s \notin Holders(e)
      BY <1>3, <2>4
    <3> QED
      BY <1>2, <1>5, <2>4, <3>1 DEF One
  <2> QED
    BY <2>1, <2>2, <2>3, <2>4
<1>8. Cardinality(Readers(e)') + One(e \in watcher[s].batch)
        = Cardinality(Readers(e)) + One(e \in w.batch)
  <2>1. CASE e \in w.batch /\ e \in watcher[s].batch
    <3>1. Readers(e)' = Readers(e) \cup {s} /\ s \in Readers(e)
      BY <1>4, <2>1
    <3> QED
      BY <1>2, <1>6, <2>1, <3>1 DEF One
  <2>2. CASE e \in w.batch /\ e \notin watcher[s].batch
    <3>1. Readers(e)' = Readers(e) \cup {s} /\ s \notin Readers(e)
      BY <1>4, <2>2
    <3> QED
      BY <1>2, <1>6, <2>2, <3>1 DEF One
  <2>3. CASE e \notin w.batch /\ e \in watcher[s].batch
    <3>1. Readers(e)' = Readers(e) \ {s} /\ s \in Readers(e)
      BY <1>4, <2>3
    <3> QED
      BY <1>2, <1>6, <2>3, <3>1 DEF One
  <2>4. CASE e \notin w.batch /\ e \notin watcher[s].batch
    <3>1. Readers(e)' = Readers(e) \ {s} /\ s \notin Readers(e)
      BY <1>4, <2>4
    <3> QED
      BY <1>2, <1>6, <2>4, <3>1 DEF One
  <2> QED
    BY <2>1, <2>2, <2>3, <2>4
<1>9. Cardinality(Holders(e)') \in Nat /\ Cardinality(Readers(e)') \in Nat
  BY <1>3, <1>4, <1>5, <1>6
<1> QED
  BY <1>7, <1>8, <1>9

\* A step of one thread that does what the counts demand keeps the invariant.
LEMMA ThreadKeepsInv ==
  ASSUME WatchInv, NEW s \in Watchers, NEW w \in Thread, Set(s, w),
         w.pc = "mark" <=> w.event # Never, w.event \notin w.batch,
         now' = now, committed' = committed,
         watched \subseteq watched', watched' \subseteq Events,
         triages' \in [Events -> Nat], unmarked' \in [Events -> Nat],
         \A e \in Events \ watched' :
           triages'[e] - triages[e] = (unmarked'[e] - unmarked[e])
             + One(w.event = e) - One(watcher[s].event = e),
         \A e \in watched :
           triages'[e] + One(e \in w.batch) + unmarked[e]
             <= triages[e] + One(e \in watcher[s].batch) + unmarked'[e],
         \A e \in watched' \ watched :
           /\ triages'[e] = triages[e] /\ unmarked'[e] = unmarked[e]
           /\ e \notin w.batch
  PROVE  WatchInv'
<1> USE DEF WatchInv
<1>1. WatchTypeOK'
  BY DEF WatchTypeOK, Set
<1>2. OneAtATime'
  BY DEF OneAtATime, WatchTypeOK, Set
<1>3. ASSUME NEW e \in Events
      PROVE  /\ Cardinality(Holders(e)') + One(watcher[s].event = e)
                  = Cardinality(Holders(e)) + One(w.event = e)
             /\ Cardinality(Readers(e)') + One(e \in watcher[s].batch)
                  = Cardinality(Readers(e)) + One(e \in w.batch)
             /\ Cardinality(Holders(e)') \in Nat /\ Cardinality(Readers(e)') \in Nat
             /\ Cardinality(Holders(e)) \in Nat /\ Cardinality(Readers(e)) \in Nat
             /\ Cardinality(Watchers) \in Nat
             /\ Cardinality(Holders(e)) + Cardinality(Readers(e)) <= Cardinality(Watchers)
  BY ThreadMoves, CountsAreNatural, HoldersDoNotRead
<1>4. \A e \in Events : /\ triages[e] \in Nat /\ triages'[e] \in Nat
                        /\ unmarked[e] \in Nat /\ unmarked'[e] \in Nat
  BY DEF WatchTypeOK
<1>6. ASSUME NEW e \in Events \ watched'
      PROVE  triages'[e] = unmarked'[e] + Cardinality(Holders(e)')
  <2>1. triages[e] = unmarked[e] + Cardinality(Holders(e))
    BY DEF RunsInHand
  <2>2. One(w.event = e) \in {0, 1} /\ One(watcher[s].event = e) \in {0, 1}
    BY DEF One
  <2>3. triages'[e] - triages[e] = (unmarked'[e] - unmarked[e])
          + One(w.event = e) - One(watcher[s].event = e)
    OBVIOUS
  <2>4. /\ Cardinality(Holders(e)') + One(watcher[s].event = e)
             = Cardinality(Holders(e)) + One(w.event = e)
        /\ Cardinality(Holders(e)') \in Nat /\ Cardinality(Holders(e)) \in Nat
    BY <1>3
  <2>5. /\ triages[e] \in Nat /\ triages'[e] \in Nat
        /\ unmarked[e] \in Nat /\ unmarked'[e] \in Nat
    BY <1>4
  <2>6. triages'[e] - unmarked'[e] = Cardinality(Holders(e)')
    <3>1. PICK new \in {0, 1} : new = One(w.event = e)
      BY <2>2
    <3>2. PICK old \in {0, 1} : old = One(watcher[s].event = e)
      BY <2>2
    <3>3. /\ triages'[e] - triages[e] = (unmarked'[e] - unmarked[e]) + new - old
          /\ Cardinality(Holders(e)') + old = Cardinality(Holders(e)) + new
      BY <2>3, <2>4, <3>1, <3>2
    <3> QED
      BY <2>1, <2>4, <2>5, <3>3
  <2> QED
    BY <2>4, <2>5, <2>6
<1>7. ASSUME NEW e \in watched'
      PROVE  triages'[e] + Cardinality(Readers(e)') <= Cardinality(Watchers) + unmarked'[e]
  <2>0. One(e \in w.batch) \in {0, 1} /\ One(e \in watcher[s].batch) \in {0, 1}
    BY DEF One
  <2>1. CASE e \in watched
    <3>1. triages[e] + Cardinality(Readers(e)) <= Cardinality(Watchers) + unmarked[e]
      BY <2>1 DEF RunsToCome
    <3> QED
      BY <1>3, <1>4, <2>0, <2>1, <3>1
  <2>2. CASE e \notin watched
    <3>1. triages[e] = unmarked[e] + Cardinality(Holders(e))
      BY <2>2 DEF RunsInHand
    <3>2. One(e \in w.batch) = 0
      BY <2>2 DEF One
    <3> QED
      BY <1>3, <1>4, <2>0, <2>2, <3>1, <3>2
  <2> QED
    BY <2>1, <2>2
<1>8. RunsInHand' /\ RunsToCome'
  BY <1>6, <1>7 DEF RunsInHand, RunsToCome
<1> QED
  BY <1>1, <1>2, <1>8

LEMMA WatchInitHasInv == WatchInit => WatchInv
<1> SUFFICES ASSUME WatchInit PROVE WatchInv
  OBVIOUS
<1> USE DEF WatchInit
<1>1. WatchTypeOK /\ OneAtATime
  BY DEF WatchTypeOK, OneAtATime, Off, Thread
<1>2. ASSUME NEW e \in Events PROVE Cardinality(Holders(e)) = 0
  <2>1. Holders(e) = {}
    BY WatcherAssumption DEF Holders, Off
  <2> QED
    BY <2>1, FS_EmptySet
<1>3. RunsInHand /\ RunsToCome
  BY <1>2 DEF RunsInHand, RunsToCome
<1> QED
  BY <1>1, <1>3 DEF WatchInv

\* The steps of a thread that start no run, lose none and note none.
LEMMA QuietThreadKeepsInv ==
  ASSUME WatchInv, NEW s \in Watchers, NEW w \in Thread, Set(s, w),
         w.pc # "mark", w.event = Never, watcher[s].event = Never,
         \A e \in w.batch : e \notin watched \/ e \in watcher[s].batch,
         now' = now, committed' = committed, watched' = watched,
         triages' = triages, unmarked' = unmarked
  PROVE  WatchInv'
<1>1. /\ triages' \in [Events -> Nat] /\ unmarked' \in [Events -> Nat]
      /\ watched \subseteq watched' /\ watched' \subseteq Events
  BY DEF WatchInv, WatchTypeOK
<1>2. w.pc = "mark" <=> w.event # Never
  OBVIOUS
<1>3. w.event \notin w.batch
  <2>1. w.batch \subseteq Events
    BY DEF Thread
  <2> QED
    BY <2>1, WatcherAssumption
<1>4. \A e \in Events \ watched' :
        triages'[e] - triages[e] = (unmarked'[e] - unmarked[e])
          + One(w.event = e) - One(watcher[s].event = e)
  BY WatcherAssumption DEF One, WatchInv, WatchTypeOK
<1>5. \A e \in watched :
        triages'[e] + One(e \in w.batch) + unmarked[e]
          <= triages[e] + One(e \in watcher[s].batch) + unmarked'[e]
  BY DEF One, WatchInv, WatchTypeOK
<1>6. watched' \ watched = {}
  OBVIOUS
<1> QED
  BY <1>1, <1>2, <1>3, <1>4, <1>5, <1>6, ThreadKeepsInv

\* A thread that breaks off with a run it has not noted has lost it.
LEMMA LosingThreadKeepsInv ==
  ASSUME WatchInv, NEW s \in Watchers, NEW w \in Thread, Set(s, w),
         w.pc # "mark", w.event = Never, w.batch = {}, LoseMark(s),
         now' = now, committed' = committed, watched' = watched, triages' = triages
  PROVE  WatchInv'
<1> USE DEF WatchInv, WatchTypeOK
<1>1. /\ unmarked' = [e \in Events |->
           IF e = watcher[s].event THEN unmarked[e] + 1 ELSE unmarked[e]]
      /\ unmarked' \in [Events -> Nat]
  BY DEF LoseMark
<1>2. triages' \in [Events -> Nat] /\ watched \subseteq watched' /\ watched' \subseteq Events
  OBVIOUS
<1>3. w.pc = "mark" <=> w.event # Never
  OBVIOUS
<1>4. w.event \notin w.batch
  OBVIOUS
<1>5. \A e \in Events \ watched' :
        triages'[e] - triages[e] = (unmarked'[e] - unmarked[e])
          + One(w.event = e) - One(watcher[s].event = e)
  BY <1>1, WatcherAssumption DEF One
<1>6. \A e \in watched :
        triages'[e] + One(e \in w.batch) + unmarked[e]
          <= triages[e] + One(e \in watcher[s].batch) + unmarked'[e]
  BY <1>1 DEF One
<1>7. watched' \ watched = {}
  OBVIOUS
<1> HIDE DEF WatchInv, WatchTypeOK
<1> QED
  BY <1>1, <1>2, <1>3, <1>4, <1>5, <1>6, <1>7, ThreadKeepsInv

LEMMA PollKeepsInv ==
  ASSUME WatchInv, NEW s \in Watchers, Poll(s)
  PROVE  WatchInv'
<1>1. PICK b \in Batches(s) : Set(s, [watcher[s] EXCEPT !.pc = "work", !.batch = b])
  BY DEF Poll
<1>2. /\ watcher[s].pc = "wait" /\ now' = now /\ committed' = committed
      /\ watched' = watched /\ triages' = triages /\ unmarked' = unmarked
  BY DEF Poll
<1>3. b \subseteq committed \ watched /\ committed \subseteq Events
  BY DEF Batches, Recent, WatchInv, WatchTypeOK
<1> DEFINE w == [watcher[s] EXCEPT !.pc = "work", !.batch = b]
<1>4. watcher[s] \in Thread /\ watcher[s].event = Never
  BY <1>2 DEF WatchInv, WatchTypeOK, OneAtATime
<1>5. w \in Thread /\ w.pc # "mark" /\ w.event = Never /\ w.batch = b
  BY <1>3, <1>4 DEF Thread
<1> HIDE DEF w
<1> QED
  BY <1>1, <1>2, <1>3, <1>4, <1>5, QuietThreadKeepsInv DEF w

LEMMA TriageKeepsInv ==
  ASSUME WatchInv, NEW s \in Watchers, Triage(s)
  PROVE  WatchInv'
<1>1. PICK e \in First(s) :
        /\ Set(s, [watcher[s] EXCEPT !.pc = "mark", !.batch = @ \ {e}, !.event = e])
        /\ triages' = [triages EXCEPT ![e] = @ + 1]
  BY DEF Triage
<1>2. /\ watcher[s].pc = "work" /\ now' = now /\ committed' = committed
      /\ watched' = watched /\ unmarked' = unmarked
  BY DEF Triage
<1> DEFINE w == [watcher[s] EXCEPT !.pc = "mark", !.batch = @ \ {e}, !.event = e]
<1>3. watcher[s] \in Thread /\ watcher[s].event = Never
  BY <1>2 DEF WatchInv, WatchTypeOK, OneAtATime
<1>4. e \in watcher[s].batch /\ e \in Events /\ e # Never
  BY <1>3, WatcherAssumption DEF First, Thread
<1>5. w \in Thread /\ w.pc = "mark" /\ w.event = e /\ w.batch = watcher[s].batch \ {e}
  BY <1>3, <1>4 DEF Thread
<1> HIDE DEF w
<1> USE DEF WatchInv, WatchTypeOK
<1>6. /\ triages' \in [Events -> Nat] /\ unmarked' \in [Events -> Nat]
      /\ watched \subseteq watched' /\ watched' \subseteq Events
  BY <1>1, <1>2, <1>4
<1>7. \A f \in Events \ watched' :
        triages'[f] - triages[f] = (unmarked'[f] - unmarked[f])
          + One(w.event = f) - One(watcher[s].event = f)
  BY <1>1, <1>2, <1>3, <1>4, <1>5, WatcherAssumption DEF One
<1>8. \A f \in watched :
        triages'[f] + One(f \in w.batch) + unmarked[f]
          <= triages[f] + One(f \in watcher[s].batch) + unmarked'[f]
  BY <1>1, <1>2, <1>4, <1>5 DEF One
<1>9. (w.pc = "mark" <=> w.event # Never) /\ w.event \notin w.batch
  BY <1>4, <1>5
<1>10. watched' \ watched = {}
  BY <1>2
<1>11. Set(s, w)
  BY <1>1 DEF w
<1> HIDE DEF WatchInv, WatchTypeOK
<1> QED
  BY <1>2, <1>5, <1>6, <1>7, <1>8, <1>9, <1>10, <1>11, ThreadKeepsInv

\* The first note of an event: those who hold a run and those who will start one
\* are no more than there are servers.
LEMMA MarkKeepsInv ==
  ASSUME WatchInv, NEW s \in Watchers, Mark(s)
  PROVE  WatchInv'
<1> DEFINE e == watcher[s].event
           w == [watcher[s] EXCEPT !.pc = "work", !.event = Never]
<1>1. /\ watcher[s].pc = "mark" /\ Set(s, w) /\ watched' = watched \cup {e}
      /\ now' = now /\ committed' = committed /\ triages' = triages
      /\ unmarked' = unmarked
  BY DEF Mark
<1>2. watcher[s] \in Thread /\ e \in Events /\ e \notin watcher[s].batch
  BY <1>1 DEF WatchInv, WatchTypeOK, OneAtATime, Thread
<1>3. w \in Thread /\ w.pc = "work" /\ w.event = Never /\ w.batch = watcher[s].batch
  BY <1>2 DEF Thread
<1> HIDE DEF w
<1> USE DEF WatchInv, WatchTypeOK
<1>4. /\ triages' \in [Events -> Nat] /\ unmarked' \in [Events -> Nat]
      /\ watched \subseteq watched' /\ watched' \subseteq Events
  BY <1>1, <1>2
<1>5. \A f \in Events \ watched' :
        triages'[f] - triages[f] = (unmarked'[f] - unmarked[f])
          + One(w.event = f) - One(watcher[s].event = f)
  BY <1>1, <1>3, WatcherAssumption DEF One
<1>6. \A f \in watched :
        triages'[f] + One(f \in w.batch) + unmarked[f]
          <= triages[f] + One(f \in watcher[s].batch) + unmarked'[f]
  BY <1>1, <1>3 DEF One
<1>7. \A f \in watched' \ watched :
        triages'[f] = triages[f] /\ unmarked'[f] = unmarked[f] /\ f \notin w.batch
  BY <1>1, <1>2, <1>3
<1>8. w.event \notin w.batch /\ (w.pc = "mark" <=> w.event # Never)
  <2>1. w.batch \subseteq Events
    BY <1>3 DEF Thread
  <2> QED
    BY <1>3, <2>1, WatcherAssumption
<1> HIDE DEF WatchInv, WatchTypeOK
<1> QED
  BY <1>1, <1>3, <1>4, <1>5, <1>6, <1>7, <1>8, ThreadKeepsInv

LEMMA WatchNextKeepsInv ==
  ASSUME WatchInv, [WatchNext]_watchVars
  PROVE  WatchInv'
<1>0. /\ WatchTypeOK /\ OneAtATime /\ RunsInHand /\ RunsToCome
      /\ \A s \in Watchers : watcher[s] \in Thread
  BY DEF WatchInv, WatchTypeOK
<1>1. ASSUME UNCHANGED <<watched, watcher, triages, unmarked>>,
             now' \in Nat, committed' \subseteq Events
      PROVE  WatchInv'
  <2>1. WatchTypeOK' /\ OneAtATime'
    BY <1>0, <1>1 DEF WatchTypeOK, OneAtATime
  <2>2. RunsInHand' /\ RunsToCome'
    BY <1>0, <1>1 DEF RunsInHand, RunsToCome, Holders, Readers
  <2> QED
    BY <2>1, <2>2 DEF WatchInv
<1>2. CASE Tick
  BY <1>0, <1>1, <1>2 DEF Tick, WatchTypeOK
<1>3. ASSUME NEW e \in Events, Store(e) PROVE WatchInv'
  BY <1>0, <1>1, <1>3 DEF Store, WatchTypeOK
<1>4. CASE UNCHANGED watchVars
  BY <1>0, <1>1, <1>4 DEF watchVars, WatchTypeOK
<1>5. ASSUME NEW s \in Watchers, StartServer(s) PROVE WatchInv'
  <2> DEFINE w == [Off EXCEPT !.pc = "wait"]
  <2>1. /\ Set(s, w) /\ watcher[s].pc = "off" /\ now' = now /\ committed' = committed
        /\ watched' = watched /\ triages' = triages /\ unmarked' = unmarked
    BY <1>5 DEF StartServer
  <2>2. watcher[s].event = Never
    BY <1>0, <2>1 DEF OneAtATime
  <2>3. w \in Thread /\ w.pc # "mark" /\ w.event = Never /\ w.batch = {}
    BY DEF Off, Thread
  <2> HIDE DEF w
  <2> QED
    BY <2>1, <2>2, <2>3, QuietThreadKeepsInv
<1>6. ASSUME NEW s \in Watchers, Poll(s) PROVE WatchInv'
  BY <1>6, PollKeepsInv
<1>7. ASSUME NEW s \in Watchers, Triage(s) PROVE WatchInv'
  BY <1>7, TriageKeepsInv
<1>8. ASSUME NEW s \in Watchers, Skip(s) PROVE WatchInv'
  <2>1. PICK e \in First(s) : Set(s, [watcher[s] EXCEPT !.batch = @ \ {e}])
    BY <1>8 DEF Skip
  <2> DEFINE w == [watcher[s] EXCEPT !.batch = @ \ {e}]
  <2>2. /\ watcher[s].pc = "work" /\ now' = now /\ committed' = committed
        /\ watched' = watched /\ triages' = triages /\ unmarked' = unmarked
    BY <1>8 DEF Skip
  <2>3. watcher[s] \in Thread /\ watcher[s].event = Never
    BY <1>0, <2>2 DEF OneAtATime
  <2>4. /\ w \in Thread /\ w.pc # "mark" /\ w.event = Never
        /\ w.batch = watcher[s].batch \ {e}
    BY <2>2, <2>3 DEF Thread
  <2>5. Set(s, w)
    BY <2>1
  <2> HIDE DEF w
  <2> QED
    BY <2>2, <2>3, <2>4, <2>5, QuietThreadKeepsInv
<1>9. ASSUME NEW s \in Watchers, Mark(s) PROVE WatchInv'
  BY <1>9, MarkKeepsInv
<1>10. ASSUME NEW s \in Watchers, EndPoll(s) PROVE WatchInv'
  <2> DEFINE w == [watcher[s] EXCEPT !.pc = "wait", !.last = now]
  <2>1. /\ Set(s, w) /\ watcher[s].pc = "work" /\ now' = now /\ committed' = committed
        /\ watched' = watched /\ triages' = triages /\ unmarked' = unmarked
    BY <1>10 DEF EndPoll
  <2>2. watcher[s] \in Thread /\ watcher[s].event = Never
    BY <1>0, <2>1 DEF OneAtATime
  <2>3. /\ w \in Thread /\ w.pc # "mark" /\ w.event = Never
        /\ w.batch = watcher[s].batch
    BY <1>0, <2>2 DEF Thread, WatchTypeOK
  <2> HIDE DEF w
  <2> QED
    BY <2>1, <2>2, <2>3, QuietThreadKeepsInv
<1>11. ASSUME NEW s \in Watchers, FailPoll(s) PROVE WatchInv'
  <2> DEFINE w == [Off EXCEPT !.pc = "wait", !.last = watcher[s].last]
  <2>1. /\ Set(s, w) /\ LoseMark(s) /\ now' = now /\ committed' = committed
        /\ watched' = watched /\ triages' = triages
    BY <1>11 DEF FailPoll
  <2>2. w \in Thread /\ w.pc # "mark" /\ w.event = Never /\ w.batch = {}
    BY <1>0 DEF Off, Thread
  <2> HIDE DEF w
  <2> QED
    BY <2>1, <2>2, LosingThreadKeepsInv
<1>12. ASSUME NEW s \in Watchers, EndServer(s) PROVE WatchInv'
  <2>1. /\ Set(s, Off) /\ LoseMark(s) /\ now' = now /\ committed' = committed
        /\ watched' = watched /\ triages' = triages
    BY <1>12 DEF EndServer
  <2>2. Off \in Thread /\ Off.pc # "mark" /\ Off.event = Never /\ Off.batch = {}
    BY DEF Off, Thread
  <2> QED
    BY <2>1, <2>2, LosingThreadKeepsInv
<1> QED
  BY <1>2, <1>3, <1>4, <1>5, <1>6, <1>7, <1>8, <1>9, <1>10, <1>11, <1>12
     DEF WatchNext, Work

\* The invariant of the watcher: every triage run is lost, in hand or accounted to
\* a server that had read its event before it was noted.
THEOREM WatchInvariant == WatchSpec => []WatchInv
<1>1. WatchInit => WatchInv
  BY WatchInitHasInv
<1>2. WatchInv /\ [WatchNext]_watchVars => WatchInv'
  BY WatchNextKeepsInv
<1> QED
  BY <1>1, <1>2, PTL DEF WatchSpec

\* An event has a triage run per server at most, and one more for each that could
\* not be noted, for any number of servers, events and faults
\* (alert_watcher.py:77-92).
THEOREM TriageRunsAreBounded == WatchSpec => []TriagesAreBounded
<1>1. WatchInv => TriagesAreBounded
  <2> SUFFICES ASSUME WatchInv, NEW e \in Events
               PROVE  triages[e] <= Cardinality(Watchers) + unmarked[e]
    BY DEF TriagesAreBounded
  <2>1. /\ Cardinality(Holders(e)) \in Nat /\ Cardinality(Readers(e)) \in Nat
        /\ Cardinality(Watchers) \in Nat /\ triages[e] \in Nat /\ unmarked[e] \in Nat
    BY CountsAreNatural DEF WatchInv, WatchTypeOK
  <2>2. CASE e \in watched
    <3>1. triages[e] + Cardinality(Readers(e)) <= Cardinality(Watchers) + unmarked[e]
      BY <2>2 DEF WatchInv, RunsToCome
    <3> QED
      BY <2>1, <3>1
  <2>3. CASE e \notin watched
    <3>1. triages[e] = unmarked[e] + Cardinality(Holders(e))
      BY <2>3 DEF WatchInv, RunsInHand
    <3>2. Cardinality(Holders(e)) + Cardinality(Readers(e)) <= Cardinality(Watchers)
      BY HoldersDoNotRead DEF WatchInv
    <3> QED
      BY <2>1, <3>1, <3>2
  <2> QED
    BY <2>2, <2>3
<1> QED
  BY <1>1, WatchInvariant, PTL
=============================================================================
