-------------------------------- MODULE Reports --------------------------------
(***************************************************************************)
(* Reports: the files under reports/ (report_storage.py), their PDFs       *)
(* (report_pdf.py) and the tools of lureguard_mcp/server.py that write,    *)
(* convert and send them; the part of the tools of Investigation that      *)
(* works on files, which no transaction isolates.                          *)
(*                                                                         *)
(* A file has the name of its day and title, so that a later report, of    *)
(* whatever session, may have the same one.  The content of a file is the  *)
(* call whose report it shows.                                             *)
(***************************************************************************)
EXTENDS Naturals, FiniteSets

CONSTANTS
  Servers,   \* MCP servers, one for each session
  Names      \* names of report files: the day and the title

VARIABLES
  reports,   \* the table reports
  files,     \* the markdown files: the call each shows
  pdfs,      \* the PDFs beside them: the call each shows, and whether its time
             \* is that of the markdown or later
  call,      \* what each server is doing
  disturbed  \* history: names whose markdown was written while another call was
             \* at work on it or in the same tick of the clock as its PDF, or
             \* whose PDF a conversion left broken

kept == <<reports, files, pdfs, disturbed>>

Idle == [at |-> "idle"]

Does(s, tool, at) == call[s].at = at /\ call[s].tool = tool

\* The call ends, with its result or with an exception.
Ends(s, ok) ==
  call' = [call EXCEPT ![s] = [at |-> "ended", n |-> @.n, ok |-> ok]]

\* What a file shows that a conversion has left half written.
Nothing == 0

InitReports ==
  /\ reports = {}
  /\ files = [name \in {} |-> Nothing]
  /\ pdfs = [name \in {} |-> Nothing]
  /\ call = [s \in Servers |-> Idle]
  /\ disturbed = {}

\* The file of that name, whether or not there was one, is f[name] = x now.
Put(f, name, x) == [m \in DOMAIN f \cup {name} |-> IF m = name THEN x ELSE f[m]]

OnFile == {"written", "resolving", "converting", "resolved"}

Alone(s, name) ==
  \A t \in Servers \ {s} : ~ (call[t].at \in OnFile /\ call[t].name = name)

\* write_report_markdown: over the file of that name; its PDF is the older now,
\* unless it was written in the same tick: then their times are equal.
WriteReport(s) ==
  /\ Does(s, "save_report", "begun")
  /\ \E name \in Names, tied \in BOOLEAN :
       /\ tied => name \in DOMAIN pdfs /\ pdfs[name].fresh
       /\ files' = Put(files, name, call[s].n)
       /\ pdfs' = [m \in DOMAIN pdfs |->
            IF m = name THEN [of |-> pdfs[m].of, fresh |-> tied] ELSE pdfs[m]]
       /\ disturbed' = IF Alone(s, name) /\ ~ tied THEN disturbed \ {name}
                       ELSE disturbed \cup {name}
       /\ call' = [call EXCEPT ![s] =
            [at |-> "written", n |-> @.n, name |-> name]]
  /\ UNCHANGED reports

\* The markdown `name', which shows `had', is to be resolved to a PDF, `turns'
\* times.
Resolves(s, name, had, turns) == call' = [call EXCEPT ![s] =
  [at |-> "resolving", n |-> @.n, name |-> name, had |-> had, turns |-> turns]]

\* Then the row, which need not name an investigation, and the PDF for the
\* answer (as_pdf), for Telegram, or for both.
InsertReport(s) ==
  /\ call[s].at = "written"
  /\ reports' = reports \cup {[by |-> call[s].n, name |-> call[s].name]}
  /\ \/ Ends(s, TRUE)
     \/ \E turns \in 1..2 : Resolves(s, call[s].name, call[s].n, turns)
  /\ UNCHANGED <<files, pdfs, disturbed>>

-----------------------------------------------------------------------------
(***************************************************************************)
(* The tools that are given a file, and the PDF of a report.               *)
(***************************************************************************)
\* _resolve_report_path refuses a path that is no file under reports/; a PDF is
\* answered, or sent, as it is.
NotResolved(s, tool) ==
  /\ Does(s, tool, "begun")
  /\ Ends(s, TRUE)
  /\ UNCHANGED kept

GivenMarkdown(s, tool) ==
  /\ Does(s, tool, "begun")
  /\ \E name \in DOMAIN files : Resolves(s, name, files[name], 1)
  /\ UNCHANGED kept

\* There is a PDF for the answer.
ToBeGiven(s) == call' = [call EXCEPT ![s] =
  [at |-> "resolved", n |-> @.n, name |-> @.name, had |-> @.had, turns |-> @.turns]]

\* Fault: any PDF beside the markdown is taken.
ReuseAny(s) ==
  /\ call[s].at = "resolving"
  /\ call[s].name \in DOMAIN pdfs
  /\ ToBeGiven(s)
  /\ UNCHANGED kept

\* resolve_report_pdf_path: a PDF that is not older than its markdown is reused.
Reuse(s) ==
  /\ call[s].at = "resolving"
  /\ call[s].name \in DOMAIN pdfs
  /\ pdfs[call[s].name].fresh
  /\ ToBeGiven(s)
  /\ UNCHANGED kept

\* convert_markdown_to_pdf reads the markdown ...
ReadMarkdown(s) ==
  /\ call[s].at = "resolving"
  /\ call[s].name \in DOMAIN pdfs => ~ pdfs[call[s].name].fresh
  /\ call' = [call EXCEPT ![s] =
       [at |-> "converting", n |-> @.n, name |-> @.name, had |-> @.had,
        turns |-> @.turns, of |-> files[@.name]]]
  /\ UNCHANGED kept

\* ... and writes the PDF, whose time is that of the writing.
WritePdf(s) ==
  /\ call[s].at = "converting"
  /\ pdfs' = Put(pdfs, call[s].name, [of |-> call[s].of, fresh |-> TRUE])
  /\ ToBeGiven(s)
  /\ UNCHANGED <<reports, files, disturbed>>

\* The report has been answered or sent as far as it goes this time.
Goes(s) ==
  IF call[s].turns > 1 THEN Resolves(s, call[s].name, call[s].had, 1) ELSE Ends(s, TRUE)

\* The conversion fails, before it has touched the PDF or after: the markdown is
\* sent, or the error answered.  A server may die at that point as well.
FailPdf(s) ==
  /\ call[s].at = "converting"
  /\ \/ /\ pdfs' = Put(pdfs, call[s].name, [of |-> Nothing, fresh |-> TRUE])
        /\ disturbed' = disturbed \cup {call[s].name}
     \/ UNCHANGED <<pdfs, disturbed>>
  /\ Goes(s)
  /\ UNCHANGED <<reports, files>>

\* The PDF is answered, or uploaded: send_document reads it now, and may fail.
HandOut(s) ==
  /\ call[s].at = "resolved"
  /\ Goes(s)
  /\ UNCHANGED kept

ReportStep(s) ==
  \/ WriteReport(s) \/ InsertReport(s)
  \/ \E tool \in {"convert_report_to_pdf", "send_report_to_telegram"} :
       NotResolved(s, tool) \/ GivenMarkdown(s, tool)
  \/ Reuse(s) \/ ReadMarkdown(s) \/ WritePdf(s) \/ FailPdf(s) \/ HandOut(s)

-----------------------------------------------------------------------------
\* A PDF that is about to be answered or sent shows the report the call is about:
\* the one it has saved, or the one that was in the file it was given.  Unless the
\* file was overwritten while a call was at work on it, or in the same tick of the
\* clock as its PDF, or a conversion broke off, since the file was last written by
\* a call alone: then the PDF is no older than the markdown and is reused whatever
\* it shows (report_pdf.py:220).
PdfShowsReport ==
  \A s \in Servers : call[s].at = "resolved" =>
    \/ pdfs[call[s].name].of = call[s].had
    \/ call[s].name \in disturbed
=============================================================================
