----------------------------- MODULE PostureProofs -----------------------------
(***************************************************************************)
(* Proofs about posture scans, module Posture: for every set of jobs and   *)
(* hosts, whatever is found, fails or breaks off, and however transactions *)
(* on one pillar overlap.  Then about what they store, module Findings:    *)
(* for every software, port, account and advisory, and whatever source     *)
(* does not answer.                                                        *)
(***************************************************************************)
EXTENDS Posture, Findings, FiniteSetTheorems, WellFoundedInduction, TLAPS

(***************************************************************************)
(* The inductive invariant, part by part.                                  *)
(***************************************************************************)
Steps == {"idle", "asked", "begin", "step", "gather", "write", "blocked",
          "replace", "report", "fail", "over"}

\* On a pillar; at work on its rows; in a transaction.
OnPillar == {"gather", "write", "blocked", "replace", "report"}
AtWork == {"write", "blocked", "replace"}
Transacting == {"blocked", "replace"}

Content == Keys \cup {Placeholder}

Scan == [pc : Steps, at : Nat \ {0}, todo : SUBSET (Keys \cup {All}),
         unit : Keys \cup {All}, old : SUBSET Row, new : SUBSET Content]

\* s may be the scan of job j: it is on a pillar of its plan, has one unit of
\* work for a pillar that is replaced as a whole, and has found something to
\* store where a placeholder stands for nothing.
Fits(j, s) ==
  /\ s \in Scan
  /\ s.at <= Len(Plan[j]) + 1
  /\ s.pc \in OnPillar => s.at <= Len(Plan[j])
  /\ s.pc \in AtWork => IF Plan[j][s.at] \in Images THEN s.todo \subseteq Keys ELSE s.todo = {All}
  /\ s.pc \in Transacting => s.unit \in s.todo
  /\ s.pc \in Transacting /\ Plan[j][s.at] \in Sentinel \cup Upserted => s.new # {}

ScansFit == scan \in [Jobs -> Scan] /\ \A j \in Jobs : Fits(j, scan[j])

JobRow ==
  [status : {"none", "queued", "running", "completed", "failed"}, age : 0..Stale + 1]

RowsFit ==
  /\ row \in [Jobs -> JobRow]
  /\ \A j \in Jobs :
       /\ row[j].status = "none" => scan[j].pc \in {"idle", "asked", "over"}
       /\ row[j].status \in {"completed", "failed"} => scan[j].pc = "over"

StoresFit ==
  /\ table \in [Pillars -> SUBSET Row]
  /\ result \in [Jobs -> [Pillars -> [done : {"no", "ok", "error"}, keys : SUBSET Content]]]
  /\ beside \subseteq Pillars \X Jobs \X Jobs

\* The pillars that a scan has still to come to.
Ahead(j, s) ==
  IF s.pc \in {"fail", "over"} THEN {}
  ELSE {Plan[j][i] : i \in {i \in 1..Len(Plan[j]) : i > s.at \/ (i = s.at /\ s.pc # "report")}}

\* Nothing is noted about a pillar before the scan has come to it: a job stores
\* the rows of a pillar once.
AheadIsOpen ==
  \A j \in Jobs : \A p \in Ahead(j, scan[j]) \ Images : result[j][p].done = "no"

\* Rows are there only of scans that have succeeded.
RowsAreOfSuccess ==
  \A p \in Pillars \ Images : \A r \in table[p] : result[r.by][p].done = "ok"

Beside(p, j, k) == <<p, j, k>> \in beside \/ <<p, k, j>> \in beside

\* What the transaction of s will delete: of the rows of a scan that are there
\* all or none, and all but those of scans whose transaction ran beside it.
DeletesWholeScans(j, s) ==
  LET p == Plan[j][s.at] IN
  s.pc \in Transacting /\ p \notin Images =>
    /\ \A r, t \in table[p] : r.by = t.by /\ r \in s.old => t \in s.old
    /\ \A r \in s.old : result[r.by][p].done = "ok"
    /\ \A t \in table[p] \ s.old : Beside(p, j, t.by)

TransactionsDelete == \A j \in Jobs : DeletesWholeScans(j, scan[j])

\* Two transactions on one pillar know of each other.
TransactionsAreBeside ==
  \A j, k \in Jobs :
    /\ j # k /\ scan[j].pc \in Transacting /\ scan[k].pc \in Transacting
    /\ Plan[j][scan[j].at] = Plan[k][scan[k].at]
    => Beside(Plan[j][scan[j].at], j, k)

PostureInv ==
  /\ ScansFit
  /\ RowsFit
  /\ StoresFit
  /\ AheadIsOpen
  /\ RowsAreOfSuccess
  /\ TransactionsDelete
  /\ TransactionsAreBeside
  /\ RowsAreWholeScans
  /\ ScannedIsRemembered

-----------------------------------------------------------------------------
(***************************************************************************)
(* Lemmas.                                                                 *)
(***************************************************************************)
LEMMA PlanProperties ==
  ASSUME NEW j \in Jobs
  PROVE  /\ Len(Plan[j]) \in Nat
         /\ \A i \in 1..Len(Plan[j]) : Plan[j][i] \in Pillars
         /\ \A a, b \in 1..Len(Plan[j]) : Plan[j][a] = Plan[j][b] => a = b
<1>1. Plan[j] \in Seq(Pillars)
  BY PostureAssumption
<1> QED
  BY <1>1, PostureAssumption

\* Where a scan that is on a pillar is.
LEMMA OnPillarProperties ==
  ASSUME NEW j \in Jobs, NEW s, Fits(j, s), s.pc \in OnPillar
  PROVE  /\ s.at \in 1..Len(Plan[j])
         /\ Plan[j][s.at] \in Pillars
         /\ \A i \in 1..Len(Plan[j]) : Plan[j][i] = Plan[j][s.at] => i = s.at
<1>1. s.at \in Nat \ {0} /\ s.at <= Len(Plan[j])
  BY DEF Fits, Scan
<1> QED
  BY <1>1, PlanProperties

LEMMA AheadProperties ==
  ASSUME NEW j \in Jobs, NEW s, Fits(j, s)
  PROVE  /\ Ahead(j, s) \subseteq Pillars
         /\ s.pc \in OnPillar \ {"report"} => Plan[j][s.at] \in Ahead(j, s)
         /\ s.pc = "report" => Plan[j][s.at] \notin Ahead(j, s)
<1> USE DEF Ahead
<1>1. Ahead(j, s) \subseteq Pillars
  BY PlanProperties
<1>2. ASSUME s.pc \in OnPillar \ {"report"}
      PROVE  Plan[j][s.at] \in Ahead(j, s)
  <2>1. s.at \in 1..Len(Plan[j])
    BY <1>2, OnPillarProperties
  <2> QED
    BY <1>2, <2>1 DEF OnPillar
<1>3. ASSUME s.pc = "report"
      PROVE  Plan[j][s.at] \notin Ahead(j, s)
  <2>1. /\ s.at \in 1..Len(Plan[j])
        /\ \A i \in 1..Len(Plan[j]) : Plan[j][i] = Plan[j][s.at] => i = s.at
    BY <1>3, OnPillarProperties DEF OnPillar
  <2> QED
    BY <1>3, <2>1
<1> QED
  BY <1>1, <1>2, <1>3

\* The record of a scan after a step.
LEMMA ScanStep ==
  ASSUME ScansFit, NEW j \in Jobs, NEW s, Fits(j, s), scan' = [scan EXCEPT ![j] = s]
  PROVE  /\ ScansFit'
         /\ scan'[j] = s
         /\ \A k \in Jobs \ {j} : scan'[k] = scan[k]
<1>1. /\ scan' \in [Jobs -> Scan]
      /\ scan'[j] = s
      /\ \A k \in Jobs \ {j} : scan'[k] = scan[k]
  BY DEF ScansFit, Fits
<1>2. \A k \in Jobs : Fits(k, scan'[k])
  BY <1>1 DEF ScansFit
<1>3. ScansFit'
  BY <1>1, <1>2 DEF ScansFit, Fits
<1> QED
  BY <1>1, <1>3

\* A step of job j that leaves the tables alone and notes at most an error
\* keeps the invariant.
LEMMA StepKeepsInv ==
  ASSUME PostureInv, NEW j \in Jobs, NEW s, Fits(j, s), scan' = [scan EXCEPT ![j] = s],
         RowsFit', StoresFit', table' = table, beside \subseteq beside',
         \A k \in Jobs \ {j} : result'[k] = result[k],
         \A p \in Pillars :
           /\ p \notin Images /\ result[j][p].done = "ok" => result'[j][p] = result[j][p]
           /\ result'[j][p].done = "ok" => result[j][p].done = "ok",
         \A p \in Ahead(j, s) \ Images : result'[j][p].done = "no",
         s.pc \in Transacting =>
           \A k \in Jobs \ {j} :
             scan[k].pc \in Transacting /\ Plan[k][scan[k].at] = Plan[j][s.at]
               => Beside(Plan[j][s.at], j, k)',
         DeletesWholeScans(j, s)
  PROVE  PostureInv'
<1> USE DEF PostureInv
<1>1. /\ ScansFit'
      /\ scan'[j] = s
      /\ \A k \in Jobs \ {j} : scan'[k] = scan[k]
  BY ScanStep
<1>2. \A k \in Jobs, p \in Pillars :
        p \notin Images /\ result[k][p].done = "ok" => result'[k][p] = result[k][p]
  OBVIOUS
<1>3. \A p \in Pillars : \A r \in table[p] : r.by \in Jobs
  BY DEF StoresFit, Row
<1>4. AheadIsOpen'
  <2> SUFFICES ASSUME NEW k \in Jobs, NEW p \in Ahead(k, scan'[k]) \ Images
               PROVE  result'[k][p].done = "no"
    BY DEF AheadIsOpen, Ahead
  <2>1. CASE k = j
    BY <1>1, <2>1
  <2>2. CASE k # j
    BY <1>1, <2>2 DEF AheadIsOpen
  <2> QED
    BY <2>1, <2>2
<1>5. RowsAreOfSuccess'
  BY <1>2, <1>3 DEF RowsAreOfSuccess
<1>6. RowsAreWholeScans'
  <2>1. \A p \in Pillars \ Images : \A r \in table[p] : result'[r.by][p] = result[r.by][p]
    BY <1>2, <1>3 DEF RowsAreOfSuccess
  <2> QED
    BY <2>1 DEF RowsAreWholeScans
<1>7. ScannedIsRemembered'
  <2>1. \A k \in Jobs, p \in Pillars : result'[k][p].done = "ok" => result[k][p].done = "ok"
    OBVIOUS
  <2>2. Sentinel \cup Upserted \subseteq Pillars
    BY PostureAssumption
  <2> QED
    BY <2>1, <2>2 DEF ScannedIsRemembered, NeverScanned
<1>8. TransactionsDelete'
  <2> SUFFICES ASSUME NEW k \in Jobs, NEW p, p = Plan[k][scan'[k].at],
                      scan'[k].pc \in Transacting, p \notin Images
               PROVE  /\ \A r, t \in table'[p] :
                           r.by = t.by /\ r \in scan'[k].old => t \in scan'[k].old
                      /\ \A r \in scan'[k].old : result'[r.by][p].done = "ok"
                      /\ \A t \in table'[p] \ scan'[k].old : Beside(p, k, t.by)'
    BY DEF TransactionsDelete, DeletesWholeScans, Beside
  <2>1. DeletesWholeScans(k, scan'[k])
    BY <1>1 DEF TransactionsDelete
  <2>2. p \in Pillars /\ scan'[k].old \subseteq Row
    <3>1. Fits(k, scan'[k])
      BY <1>1 DEF ScansFit
    <3> QED
      BY <3>1, OnPillarProperties DEF Fits, Scan, Transacting, OnPillar
  <2>3. \A r \in scan'[k].old : result'[r.by][p].done = "ok"
    BY <1>2, <2>1, <2>2 DEF DeletesWholeScans, Row
  <2>4. \A t \in table[p] \ scan'[k].old : Beside(p, k, t.by)
    BY <2>1 DEF DeletesWholeScans
  <2>5. \A r, t \in table[p] : r.by = t.by /\ r \in scan'[k].old => t \in scan'[k].old
    BY <2>1 DEF DeletesWholeScans
  <2>6. \A t \in table[p] \ scan'[k].old : Beside(p, k, t.by)'
    BY <2>4 DEF Beside
  <2> QED
    BY <2>3, <2>5, <2>6
<1>9. TransactionsAreBeside'
  <2> SUFFICES ASSUME NEW k \in Jobs, NEW l \in Jobs, k # l, NEW p,
                      scan'[k].pc \in Transacting, scan'[l].pc \in Transacting,
                      p = Plan[k][scan'[k].at], p = Plan[l][scan'[l].at]
               PROVE  Beside(p, k, l)'
    BY DEF TransactionsAreBeside, Beside
  <2>1. CASE k = j \/ l = j
    BY <1>1, <2>1 DEF Beside
  <2>2. CASE k # j /\ l # j
    <3>1. scan'[k] = scan[k] /\ scan'[l] = scan[l]
      BY <1>1, <2>2
    <3>2. Beside(p, k, l)
      BY <3>1 DEF TransactionsAreBeside, Beside
    <3> QED
      BY <3>2 DEF Beside
  <2> QED
    BY <2>1, <2>2
<1> QED
  BY <1>1, <1>4, <1>5, <1>6, <1>7, <1>8, <1>9

\* A step that writes the row of the job at most, and leaves or has not
\* entered a transaction.
LEMMA QuietKeepsInv ==
  ASSUME PostureInv, NEW j \in Jobs, NEW s, Fits(j, s), scan' = [scan EXCEPT ![j] = s],
         UNCHANGED <<table, result, beside>>,
         s.pc \notin Transacting, Ahead(j, s) \subseteq Ahead(j, scan[j]),
         NEW r \in JobRow, row' = [row EXCEPT ![j] = r],
         r.status = "none" => s.pc \in {"idle", "asked", "over"},
         r.status \in {"completed", "failed"} => s.pc = "over"
  PROVE  PostureInv'
<1> USE DEF PostureInv
<1>1. /\ scan'[j] = s
      /\ \A k \in Jobs \ {j} : scan'[k] = scan[k]
  BY ScanStep
<1>2. RowsFit'
  BY <1>1 DEF RowsFit
<1>3. StoresFit'
  BY DEF StoresFit
<1>4. DeletesWholeScans(j, s)
  BY DEF DeletesWholeScans
<1>5. \A p \in Ahead(j, s) \ Images : result[j][p].done = "no"
  BY DEF AheadIsOpen
<1> QED
  BY <1>2, <1>3, <1>4, <1>5, StepKeepsInv

\* The job only goes to another place, before it is on a pillar.
LEMMA GotoKeepsInv ==
  ASSUME PostureInv, NEW j \in Jobs, NEW pc \in Steps \ {"report"}, Goto(j, pc),
         UNCHANGED <<table, result, beside>>,
         scan[j].pc \in {"idle", "asked", "begin", "step"},
         pc \notin AtWork, pc = "gather" => scan[j].at <= Len(Plan[j]),
         NEW r \in JobRow, row' = [row EXCEPT ![j] = r],
         r.status = "none" => pc \in {"idle", "asked", "over"},
         r.status \in {"completed", "failed"} => pc = "over"
  PROVE  PostureInv'
<1> USE DEF PostureInv
<1>1. PICK s : s = [scan[j] EXCEPT !.pc = pc]
  OBVIOUS
<1>2. Fits(j, scan[j]) /\ scan[j] \in Scan
  BY DEF ScansFit
<1>3. s.pc = pc /\ s.at = scan[j].at /\ s \in Scan
  BY <1>1, <1>2 DEF Scan
<1>4. Fits(j, s)
  BY <1>2, <1>3 DEF Fits, OnPillar, AtWork, Transacting
<1>5. scan' = [scan EXCEPT ![j] = s]
  BY <1>1 DEF Goto, ScansFit
<1>6. Ahead(j, s) \subseteq Ahead(j, scan[j])
  BY <1>3 DEF Ahead
<1>7. s.pc \notin Transacting
  BY <1>3 DEF Transacting, AtWork
<1> QED
  BY <1>3, <1>4, <1>5, <1>6, <1>7, QuietKeepsInv

\* The row of a job, as it was or as it is said.
LEMMA RowSaid ==
  ASSUME PostureInv, NEW j \in Jobs
  PROVE  /\ row[j] \in JobRow
         /\ row = [row EXCEPT ![j] = row[j]]
         /\ \A status \in {"queued", "running", "completed", "failed"} :
              /\ [status |-> status, age |-> 0] \in JobRow
              /\ Says(j, status) => row' = [row EXCEPT ![j] = [status |-> status, age |-> 0]]
<1>1. 0 \in 0..Stale + 1
  BY PostureAssumption
<1> QED
  BY <1>1 DEF PostureInv, RowsFit, JobRow, Says

LEMMA AskKeepsInv ==
  ASSUME PostureInv, NEW j \in Jobs, Ask(j) \/ Abandon(j)
  PROVE  PostureInv'
<1>1. PICK pc \in {"idle", "asked"} :
        /\ Goto(j, pc)
        /\ scan[j].pc \in {"idle", "asked"}
        /\ UNCHANGED <<row, table, result, beside>>
  BY DEF Ask, Abandon
<1>2. row[j].status \notin {"completed", "failed"}
  BY <1>1 DEF PostureInv, RowsFit
<1> QED
  BY <1>1, <1>2, RowSaid, GotoKeepsInv DEF Steps, AtWork

LEMMA StartKeepsInv ==
  ASSUME PostureInv, NEW j \in Jobs, Start(j) \/ StartScheduled(j)
  PROVE  PostureInv'
<1>1. /\ Goto(j, "begin") /\ Says(j, "queued")
      /\ scan[j].pc \in {"idle", "asked"}
      /\ UNCHANGED <<table, result, beside>>
  BY DEF Start, StartScheduled, Queue
<1>2. PICK r : r = [status |-> "queued", age |-> 0]
  OBVIOUS
<1>3. r \in JobRow /\ row' = [row EXCEPT ![j] = r] /\ r.status = "queued"
  BY <1>1, <1>2, RowSaid
<1> QED
  BY <1>1, <1>3, GotoKeepsInv DEF Steps, AtWork

LEMMA BeginKeepsInv ==
  ASSUME PostureInv, NEW j \in Jobs, Begin(j)
  PROVE  PostureInv'
<1>1. /\ scan[j].pc = "begin"
      /\ UNCHANGED <<table, result, beside>>
  BY DEF Begin
<1>2. row[j].status \notin {"none", "completed", "failed"} /\ row[j] \in JobRow
  BY <1>1 DEF PostureInv, RowsFit
<1>3. CASE row' = [row EXCEPT ![j].status = "running"] /\ Goto(j, "step")
  <2>1. PICK r : r = [row[j] EXCEPT !.status = "running"]
    OBVIOUS
  <2>2. r \in JobRow /\ r.status = "running"
    BY <1>2, <2>1 DEF JobRow
  <2>3. row' = [row EXCEPT ![j] = r]
    BY <1>3, <2>1 DEF PostureInv, RowsFit
  <2> QED
    BY <1>1, <1>3, <2>2, <2>3, GotoKeepsInv DEF Steps, AtWork
<1>4. CASE UNCHANGED row /\ Goto(j, "over")
  BY <1>1, <1>2, <1>4, RowSaid, GotoKeepsInv DEF Steps, AtWork
<1> QED
  BY <1>3, <1>4 DEF Begin

LEMMA StartStepKeepsInv ==
  ASSUME PostureInv, NEW j \in Jobs, StartStep(j)
  PROVE  PostureInv'
<1>1. /\ scan[j].pc = "step" /\ scan[j].at <= Len(Plan[j])
      /\ UNCHANGED <<table, result, beside>>
  BY DEF StartStep
<1>2. row[j].status \notin {"none", "completed", "failed"} /\ row[j] \in JobRow
  BY <1>1 DEF PostureInv, RowsFit
<1>3. CASE Beat(j) /\ Goto(j, "gather")
  <2>1. PICK r : r = [status |-> "running", age |-> 0]
    OBVIOUS
  <2>2. r \in JobRow /\ row' = [row EXCEPT ![j] = r] /\ r.status = "running"
    BY <1>3, <2>1, RowSaid DEF Beat
  <2> QED
    BY <1>1, <1>3, <2>2, GotoKeepsInv DEF Steps, AtWork
<1>4. CASE UNCHANGED row /\ Goto(j, "fail")
  BY <1>1, <1>2, <1>4, RowSaid, GotoKeepsInv DEF Steps, AtWork
<1> QED
  BY <1>3, <1>4 DEF StartStep

\* A record made of NoScan.
Fresh(pc, at, todo) == [NoScan EXCEPT !.pc = pc, !.at = at, !.todo = todo]

LEMMA FreshProperties ==
  ASSUME NEW pc \in Steps, NEW at \in Nat \ {0}, NEW todo \in SUBSET (Keys \cup {All})
  PROVE  /\ Fresh(pc, at, todo) \in Scan
         /\ Fresh(pc, at, todo).pc = pc
         /\ Fresh(pc, at, todo).at = at
         /\ Fresh(pc, at, todo).todo = todo
BY DEF Fresh, NoScan, Scan

LEMMA AtFirstProperties ==
  ASSUME NEW pc \in Steps
  PROVE  /\ [NoScan EXCEPT !.pc = pc] \in Scan
         /\ [NoScan EXCEPT !.pc = pc].pc = pc
         /\ [NoScan EXCEPT !.pc = pc].at = 1
BY DEF NoScan, Scan

LEMMA PlacedProperties ==
  ASSUME NEW pc \in Steps, NEW at \in Nat \ {0}
  PROVE  /\ [NoScan EXCEPT !.pc = pc, !.at = at] \in Scan
         /\ [NoScan EXCEPT !.pc = pc, !.at = at].pc = pc
         /\ [NoScan EXCEPT !.pc = pc, !.at = at].at = at
BY DEF NoScan, Scan

\* The end of a thread, in whatever way.
LEMMA OverKeepsInv ==
  ASSUME PostureInv, NEW j \in Jobs, scan' = [scan EXCEPT ![j] = [NoScan EXCEPT !.pc = "over"]],
         UNCHANGED <<table, result, beside>>,
         NEW r \in JobRow, row' = [row EXCEPT ![j] = r]
  PROVE  PostureInv'
<1>1. PICK s : s = [NoScan EXCEPT !.pc = "over"]
  OBVIOUS
<1>2. s.pc = "over" /\ s.at = 1 /\ s \in Scan
  BY <1>1 DEF NoScan, Scan, Steps
<1>3. Fits(j, s)
  BY <1>2, PlanProperties DEF Fits, OnPillar, AtWork, Transacting
<1>4. Ahead(j, s) = {} /\ s.pc \notin Transacting
  BY <1>2 DEF Ahead, Transacting
<1> QED
  BY <1>1, <1>2, <1>3, <1>4, QuietKeepsInv

LEMMA FinishKeepsInv ==
  ASSUME PostureInv, NEW j \in Jobs, Finish(j) \/ Crash(j)
  PROVE  PostureInv'
<1>1. /\ scan' = [scan EXCEPT ![j] = [NoScan EXCEPT !.pc = "over"]]
      /\ UNCHANGED <<table, result, beside>>
  BY DEF Finish, Crash
<1>2. UNCHANGED row \/ \E status \in {"completed", "failed"} : Says(j, status)
  BY DEF Finish, Crash
<1>3. PICK r \in JobRow : row' = [row EXCEPT ![j] = r]
  BY <1>2, RowSaid
<1> QED
  BY <1>1, <1>3, OverKeepsInv

LEMMA ReportKeepsInv ==
  ASSUME PostureInv, NEW j \in Jobs, Report(j)
  PROVE  PostureInv'
<1>1. /\ scan[j].pc = "report"
      /\ UNCHANGED <<table, result, beside>>
      /\ Fits(j, scan[j])
  BY DEF Report, PostureInv, ScansFit
<1>2. /\ scan[j].at \in 1..Len(Plan[j])
      /\ scan[j].at \in Nat \ {0} /\ scan[j].at + 1 \in Nat \ {0}
      /\ Len(Plan[j]) \in Nat
  BY <1>1, OnPillarProperties, PlanProperties DEF OnPillar
<1>3. row[j].status \notin {"none", "completed", "failed"} /\ row[j] \in JobRow
  BY <1>1 DEF PostureInv, RowsFit
<1>4. CASE /\ Beat(j)
           /\ scan' = [scan EXCEPT ![j] = [NoScan EXCEPT !.pc = "step", !.at = scan[j].at + 1]]
  <2>1. PICK r : r = [status |-> "running", age |-> 0]
    OBVIOUS
  <2>2. r \in JobRow /\ row' = [row EXCEPT ![j] = r] /\ r.status = "running"
    BY <1>4, <2>1, RowSaid DEF Beat
  <2>3. PICK s : s = [NoScan EXCEPT !.pc = "step", !.at = scan[j].at + 1]
    OBVIOUS
  <2>4. s.pc = "step" /\ s.at = scan[j].at + 1 /\ s \in Scan
    <3>1. PICK at \in Nat \ {0} : at = scan[j].at + 1
      BY <1>2
    <3>2. "step" \in Steps /\ s = [NoScan EXCEPT !.pc = "step", !.at = at]
      BY <2>3, <3>1 DEF Steps
    <3> QED
      BY <3>1, <3>2, PlacedProperties
  <2>5. Fits(j, s) /\ s.pc \notin Transacting
    BY <1>2, <2>4 DEF Fits, OnPillar, AtWork, Transacting
  <2>6. Ahead(j, s) \subseteq Ahead(j, scan[j])
    <3>1. \A i \in 1..Len(Plan[j]) : i > s.at \/ i = s.at => i > scan[j].at
      BY <1>2, <2>4
    <3> QED
      BY <1>1, <2>4, <3>1 DEF Ahead
  <2> QED
    BY <1>1, <1>4, <2>2, <2>3, <2>4, <2>5, <2>6, QuietKeepsInv
<1>5. CASE /\ UNCHANGED row
           /\ scan' = [scan EXCEPT ![j] = [NoScan EXCEPT !.pc = "fail", !.at = scan[j].at]]
  <2>1. PICK s : s = [NoScan EXCEPT !.pc = "fail", !.at = scan[j].at]
    OBVIOUS
  <2>2. s.pc = "fail" /\ s.at = scan[j].at /\ s \in Scan
    BY <1>2, <2>1, PlacedProperties DEF Steps
  <2>3. Fits(j, s) /\ s.pc \notin Transacting /\ Ahead(j, s) = {}
    BY <1>2, <2>2 DEF Fits, OnPillar, AtWork, Transacting, Ahead
  <2>4. PICK r : r = row[j]
    OBVIOUS
  <2>5. r \in JobRow /\ row' = [row EXCEPT ![j] = r] /\ r.status \notin {"none", "completed", "failed"}
    BY <1>3, <1>5, <2>4, RowSaid
  <2> QED
    BY <1>1, <1>5, <2>1, <2>2, <2>3, <2>5, QuietKeepsInv
<1> QED
  BY <1>4, <1>5 DEF Report

\* Where a scan goes on to, with the units of work that are left.
LEMMA WorkOnProperties ==
  ASSUME PostureInv, NEW j \in Jobs, scan[j].pc \in OnPillar \ {"report"},
         NEW todo \in SUBSET (Keys \cup {All}), WorkOn(j, todo),
         todo # {} => IF Pillar(j) \in Images THEN todo \subseteq Keys ELSE todo = {All}
  PROVE  \E s : /\ scan' = [scan EXCEPT ![j] = s]
                /\ Fits(j, s)
                /\ s.pc = (IF todo = {} THEN "report" ELSE "write")
                /\ s.pc \notin Transacting
                /\ s.at = scan[j].at
                /\ Ahead(j, s) \subseteq Ahead(j, scan[j])
<1>1. PICK pc \in Steps : pc = (IF todo = {} THEN "report" ELSE "write")
  BY DEF Steps
<1>2. PICK at : at = scan[j].at
  OBVIOUS
<1>3. Fits(j, scan[j])
  BY DEF PostureInv, ScansFit
<1>4. at \in 1..Len(Plan[j]) /\ at \in Nat \ {0} /\ Len(Plan[j]) \in Nat
  BY <1>2, <1>3, OnPillarProperties, PlanProperties
<1>5. PICK s : s = Fresh(pc, at, todo)
  OBVIOUS
<1>6. s \in Scan /\ s.pc = pc /\ s.at = at /\ s.todo = todo
  BY <1>4, <1>5, FreshProperties
<1>7. scan' = [scan EXCEPT ![j] = s]
  BY <1>1, <1>2, <1>5 DEF WorkOn, Fresh
<1>8. Fits(j, s)
  BY <1>1, <1>2, <1>4, <1>6 DEF Fits, OnPillar, AtWork, Transacting, Pillar
<1>9. Ahead(j, s) \subseteq Ahead(j, scan[j])
  BY <1>1, <1>2, <1>6 DEF Ahead, OnPillar
<1>10. s.pc \notin Transacting
  BY <1>1, <1>6 DEF Transacting
<1> QED
  BY <1>1, <1>2, <1>6, <1>7, <1>8, <1>9, <1>10

\* What is noted is noted about the pillar that the job is on.
LEMMA NoteProperties ==
  ASSUME PostureInv, NEW j \in Jobs, scan[j].pc \in OnPillar,
         NEW done \in {"ok", "error"}, NEW keys \in SUBSET Content, Note(j, done, keys)
  PROVE  /\ Pillar(j) \in Pillars
         /\ result' \in [Jobs -> [Pillars -> [done : {"no", "ok", "error"}, keys : SUBSET Content]]]
         /\ result'[j][Pillar(j)] = [done |-> done, keys |-> keys]
         /\ \A p \in Pillars \ {Pillar(j)} : result'[j][p] = result[j][p]
         /\ \A k \in Jobs \ {j} : result'[k] = result[k]
<1>1. Pillar(j) \in Pillars
  BY OnPillarProperties DEF PostureInv, ScansFit, Pillar
<1> QED
  BY <1>1 DEF Note, PostureInv, StoresFit

\* An error of the scanner or of the transaction.
LEMMA ErrorKeepsInv ==
  ASSUME PostureInv, NEW j \in Jobs, scan[j].pc \in OnPillar \ {"report"},
         Note(j, "error", {}), WorkOn(j, {}), UNCHANGED <<row, table, beside>>
  PROVE  PostureInv'
<1> USE DEF PostureInv
<1>1. PICK p : p = Pillar(j)
  OBVIOUS
<1>2. PICK s : /\ scan' = [scan EXCEPT ![j] = s]
               /\ Fits(j, s)
               /\ s.pc = "report"
               /\ s.pc \notin Transacting
               /\ s.at = scan[j].at
               /\ Ahead(j, s) \subseteq Ahead(j, scan[j])
  BY WorkOnProperties
<1>3. /\ p \in Pillars
      /\ result' \in [Jobs -> [Pillars -> [done : {"no", "ok", "error"}, keys : SUBSET Content]]]
      /\ result'[j][p].done = "error"
      /\ \A q \in Pillars \ {p} : result'[j][q] = result[j][q]
      /\ \A k \in Jobs \ {j} : result'[k] = result[k]
  <2>1. "error" \in {"ok", "error"} /\ {} \in SUBSET Content /\ scan[j].pc \in OnPillar
    OBVIOUS
  <2>2. [done |-> "error", keys |-> {}].done = "error"
    OBVIOUS
  <2> QED
    BY <1>1, <2>1, <2>2, NoteProperties
<1>4. p \in Ahead(j, scan[j]) /\ p \notin Ahead(j, s)
  BY <1>1, <1>2, AheadProperties DEF ScansFit, Pillar
<1>5. p \notin Images => result[j][p].done = "no"
  BY <1>4 DEF AheadIsOpen
<1>6. /\ scan'[j] = s
      /\ \A k \in Jobs \ {j} : scan'[k] = scan[k]
  BY <1>2, ScanStep
<1>7. RowsFit'
  BY <1>2, <1>6 DEF RowsFit, OnPillar
<1>8. StoresFit'
  BY <1>3 DEF StoresFit
<1>9. \A q \in Ahead(j, s) \ Images : result'[j][q].done = "no"
  BY <1>2, <1>3, <1>4, AheadProperties DEF AheadIsOpen
<1>10. \A q \in Pillars :
         /\ q \notin Images /\ result[j][q].done = "ok" => result'[j][q] = result[j][q]
         /\ result'[j][q].done = "ok" => result[j][q].done = "ok"
  BY <1>3, <1>5
<1>11. DeletesWholeScans(j, s)
  BY <1>2 DEF DeletesWholeScans
<1> QED
  BY <1>2, <1>3, <1>7, <1>8, <1>9, <1>10, <1>11, StepKeepsInv

\* The units of work are listed, or one of them is skipped.
LEMMA WorkOnKeepsInv ==
  ASSUME PostureInv, NEW j \in Jobs, scan[j].pc \in OnPillar \ {"report"},
         NEW todo \in SUBSET (Keys \cup {All}), WorkOn(j, todo),
         todo # {} => IF Pillar(j) \in Images THEN todo \subseteq Keys ELSE todo = {All},
         UNCHANGED <<row, table, result, beside>>
  PROVE  PostureInv'
<1>1. PICK s : /\ scan' = [scan EXCEPT ![j] = s]
               /\ Fits(j, s)
               /\ s.pc = (IF todo = {} THEN "report" ELSE "write")
               /\ s.pc \notin Transacting
               /\ Ahead(j, s) \subseteq Ahead(j, scan[j])
  BY WorkOnProperties
<1>2. PICK r : r = row[j]
  OBVIOUS
<1>3. r \in JobRow /\ row' = [row EXCEPT ![j] = r]
  BY <1>2, RowSaid
<1>4. r.status \notin {"none", "completed", "failed"}
  BY <1>2 DEF PostureInv, RowsFit, OnPillar
<1> QED
  BY <1>1, <1>3, <1>4, QuietKeepsInv

LEMMA GatherKeepsInv ==
  ASSUME PostureInv, NEW j \in Jobs, Gather(j)
  PROVE  PostureInv'
<1>1. scan[j].pc \in OnPillar \ {"report"} /\ UNCHANGED <<row, table, beside>>
  BY DEF Gather, OnPillar
<1>2. CASE Note(j, "error", {}) /\ WorkOn(j, {})
  BY <1>1, <1>2, ErrorKeepsInv
<1>3. ASSUME UNCHANGED result,
             NEW todo \in IF Pillar(j) \in Images THEN SUBSET Running ELSE {{All}},
             WorkOn(j, todo)
      PROVE  PostureInv'
  <2>1. /\ todo \in SUBSET (Keys \cup {All})
        /\ IF Pillar(j) \in Images THEN todo \subseteq Keys ELSE todo = {All}
    BY PostureAssumption
  <2> QED
    BY <1>1, <1>3, <2>1, WorkOnKeepsInv
<1> QED
  BY <1>2, <1>3 DEF Gather

LEMMA SkipImageKeepsInv ==
  ASSUME PostureInv, NEW j \in Jobs, SkipImage(j)
  PROVE  PostureInv'
<1>1. PICK u \in scan[j].todo : WorkOn(j, scan[j].todo \ {u})
  BY DEF SkipImage
<1>2. PICK todo : todo = scan[j].todo \ {u}
  OBVIOUS
<1>3. Fits(j, scan[j]) /\ scan[j].pc = "write" /\ Pillar(j) \in Images
  BY DEF SkipImage, PostureInv, ScansFit
<1>4. todo \subseteq Keys /\ WorkOn(j, todo)
  BY <1>1, <1>2, <1>3 DEF Fits, AtWork, Pillar
<1>5. todo \in SUBSET (Keys \cup {All})
  BY <1>4
<1> QED
  BY <1>3, <1>4, <1>5, WorkOnKeepsInv DEF SkipImage, OnPillar

\* What a scan may find is content of its pillar.
LEMMA FoundProperties ==
  ASSUME NEW p \in Pillars, NEW u, p \in Images => u \in Keys, NEW found \in Found(p, u)
  PROVE  /\ found \subseteq Content
         /\ p \in Sentinel \cup Upserted => found # {}
BY PostureAssumption DEF Found, Content

\* The DELETE sees every row that is committed.
LEMMA OpenKeepsInv ==
  ASSUME PostureInv, NEW j \in Jobs, Open(j)
  PROVE  PostureInv'
<1> USE DEF PostureInv
<1>1. PICK p : p = Pillar(j)
  OBVIOUS
<1>2. PICK u \in scan[j].todo : \E found \in Found(Pillar(j), u) :
        /\ scan' = [scan EXCEPT
             ![j].pc = IF Scope(Pillar(j), u) \cap Held(Pillar(j), j) = {} THEN "replace" ELSE "blocked",
             ![j].unit = u, ![j].old = Scope(Pillar(j), u), ![j].new = found]
        /\ beside' = beside \cup {<<Pillar(j), j, k>> : k \in InTransaction(Pillar(j)) \ {j}}
  BY DEF Open
<1>3. PICK found \in Found(Pillar(j), u) :
        /\ scan' = [scan EXCEPT
             ![j].pc = IF Scope(Pillar(j), u) \cap Held(Pillar(j), j) = {} THEN "replace" ELSE "blocked",
             ![j].unit = u, ![j].old = Scope(Pillar(j), u), ![j].new = found]
        /\ beside' = beside \cup {<<Pillar(j), j, k>> : k \in InTransaction(Pillar(j)) \ {j}}
  BY <1>2
<1>4. /\ scan[j].pc = "write" /\ Fits(j, scan[j]) /\ scan[j] \in Scan
      /\ UNCHANGED <<row, table, result>>
  BY DEF Open, ScansFit
<1>5. PICK pc \in Transacting : pc = IF Scope(p, u) \cap Held(p, j) = {} THEN "replace" ELSE "blocked"
  BY DEF Transacting
<1>6. PICK old : old = Scope(p, u)
  OBVIOUS
<1>7. PICK s : s = [scan[j] EXCEPT !.pc = pc, !.unit = u, !.old = old, !.new = found]
  OBVIOUS
<1>8. scan' = [scan EXCEPT ![j] = s]
  <2>1. scan' = [scan EXCEPT ![j].pc = pc, ![j].unit = u, ![j].old = old, ![j].new = found]
    BY ONLY <1>1, <1>3, <1>5, <1>6
  <2> QED
    BY ONLY <1>7, <2>1
<1>9. p \in Pillars /\ p = Plan[j][scan[j].at] /\ p \in Ahead(j, scan[j])
  BY <1>1, <1>4, OnPillarProperties, AheadProperties DEF Pillar, OnPillar
<1>10. u \in Keys \cup {All} /\ (p \in Images => u \in Keys)
  BY <1>4, <1>9 DEF Fits, AtWork, Scan
<1>11. found \subseteq Content /\ (p \in Sentinel \cup Upserted => found # {})
  BY <1>1, <1>3, <1>9, <1>10, FoundProperties
<1>12. old \subseteq Row /\ (p \notin Images => old = table[p])
  BY <1>6, <1>9 DEF Scope, StoresFit
<1>13. /\ s \in Scan /\ s.pc = pc /\ s.at = scan[j].at /\ s.todo = scan[j].todo
       /\ s.unit = u /\ s.old = old /\ s.new = found
  BY <1>4, <1>7, <1>10, <1>11, <1>12 DEF Scan, Transacting, Steps
<1>14. Fits(j, s)
  BY <1>4, <1>9, <1>11, <1>13 DEF Fits, OnPillar, AtWork, Transacting
<1>15. /\ scan'[j] = s
       /\ \A k \in Jobs \ {j} : scan'[k] = scan[k]
  BY <1>8, <1>14, ScanStep
<1>16. RowsFit'
  BY <1>4, <1>13, <1>15 DEF RowsFit, Transacting
<1>17. StoresFit'
  <2>1. \A k \in InTransaction(p) : <<p, j, k>> \in Pillars \X Jobs \X Jobs
    BY <1>9 DEF InTransaction
  <2>2. beside' \subseteq Pillars \X Jobs \X Jobs
    BY <1>1, <1>3, <2>1 DEF StoresFit
  <2> QED
    BY <1>4, <2>2 DEF StoresFit
<1>18. \A q \in Ahead(j, s) \ Images : result[j][q].done = "no"
  <2>1. Ahead(j, s) \subseteq Ahead(j, scan[j])
    BY <1>4, <1>13 DEF Ahead, Transacting
  <2> QED
    BY <2>1 DEF AheadIsOpen
<1>19. ASSUME NEW k \in Jobs \ {j}, scan[k].pc \in Transacting, Plan[k][scan[k].at] = p
       PROVE  Beside(p, j, k)'
  <2>1. k \in InTransaction(p) \ {j}
    BY <1>19 DEF InTransaction, Transacting, Pillar
  <2>2. <<p, j, k>> \in beside'
    BY <1>1, <1>3, <2>1
  <2> QED
    BY <2>2 DEF Beside
<1>20. DeletesWholeScans(j, s)
  BY <1>9, <1>12, <1>13 DEF DeletesWholeScans, RowsAreOfSuccess
<1>21. p = Plan[j][s.at]
  BY <1>9, <1>13
<1> QED
  BY <1>3, <1>4, <1>8, <1>14, <1>16, <1>17, <1>18, <1>19, <1>20, <1>21, StepKeepsInv

\* Rows that are gone are passed over.
LEMMA UnblockKeepsInv ==
  ASSUME PostureInv, NEW j \in Jobs, Unblock(j)
  PROVE  PostureInv'
<1> USE DEF PostureInv
<1>1. PICK p, old : p = Pillar(j) /\ old = scan[j].old \cap table[p]
  OBVIOUS
<1>2. /\ scan' = [scan EXCEPT ![j].pc = "replace", ![j].old = old]
      /\ scan[j].pc = "blocked" /\ Fits(j, scan[j]) /\ scan[j] \in Scan
      /\ UNCHANGED <<row, table, result, beside>>
  BY <1>1 DEF Unblock, ScansFit
<1>3. PICK s : s = [scan[j] EXCEPT !.pc = "replace", !.old = old]
  OBVIOUS
<1>4. scan' = [scan EXCEPT ![j] = s]
  BY <1>2, <1>3 DEF ScansFit
<1>5. p \in Pillars /\ p = Plan[j][scan[j].at]
  BY <1>1, <1>2, OnPillarProperties DEF Pillar, OnPillar
<1>6. /\ s \in Scan /\ s.pc = "replace" /\ s.at = scan[j].at /\ s.todo = scan[j].todo
      /\ s.unit = scan[j].unit /\ s.old = old /\ s.new = scan[j].new
  BY <1>1, <1>2, <1>3 DEF Scan, Steps
<1>7. Fits(j, s)
  BY <1>2, <1>6 DEF Fits, OnPillar, AtWork, Transacting
<1>8. /\ scan'[j] = s
      /\ \A k \in Jobs \ {j} : scan'[k] = scan[k]
  BY <1>4, <1>7, ScanStep
<1>9. RowsFit'
  BY <1>2, <1>6, <1>8 DEF RowsFit
<1>10. StoresFit'
  BY <1>2 DEF StoresFit
<1>11. \A q \in Ahead(j, s) \ Images : result[j][q].done = "no"
  <2>1. Ahead(j, s) \subseteq Ahead(j, scan[j])
    BY <1>2, <1>6 DEF Ahead
  <2> QED
    BY <2>1 DEF AheadIsOpen
<1>12. p = Plan[j][s.at]
  BY <1>5, <1>6
<1>13. ASSUME NEW k \in Jobs \ {j}, scan[k].pc \in Transacting, Plan[k][scan[k].at] = p
       PROVE  Beside(p, j, k)'
  <2>1. Beside(p, j, k)
    BY <1>2, <1>5, <1>13 DEF TransactionsAreBeside, Transacting
  <2> QED
    BY <1>2, <2>1 DEF Beside
<1>14. DeletesWholeScans(j, s)
  <2>1. DeletesWholeScans(j, scan[j])
    BY DEF TransactionsDelete
  <2> QED
    BY <1>1, <1>2, <1>5, <1>6, <2>1 DEF DeletesWholeScans, Transacting
<1> QED
  BY <1>2, <1>4, <1>7, <1>9, <1>10, <1>11, <1>12, <1>13, <1>14, StepKeepsInv

\* What a COMMIT does to the rows of the pillar.
LEMMA CommitRows ==
  ASSUME PostureInv, NEW j \in Jobs, scan[j].pc = "replace", Commit(j)
  PROVE  /\ Pillar(j) \in Pillars /\ Pillar(j) = Plan[j][scan[j].at]
         /\ table' \in [Pillars -> SUBSET Row]
         /\ \A q \in Pillars \ {Pillar(j)} : table'[q] = table[q]
         /\ table'[Pillar(j)] = After(j)
         /\ scan[j].new \subseteq Content
         /\ Pillar(j) \in Sentinel \cup Upserted => scan[j].new # {}
<1> USE DEF PostureInv
<1>1. Fits(j, scan[j]) /\ Pillar(j) \in Pillars /\ Pillar(j) = Plan[j][scan[j].at]
  BY OnPillarProperties DEF ScansFit, Pillar, OnPillar
<1>2. scan[j].new \subseteq Content /\ (Pillar(j) \in Sentinel \cup Upserted => scan[j].new # {})
  BY <1>1 DEF Fits, Scan, Transacting
<1>3. [key : scan[j].new, by : {j}] \subseteq Row
  BY <1>2 DEF Content, Row
<1>4. After(j) \subseteq Row
  BY <1>1, <1>3 DEF After, StoresFit
<1>5. table' = [table EXCEPT ![Pillar(j)] = After(j)]
  BY DEF Commit
<1> QED
  BY <1>1, <1>2, <1>4, <1>5 DEF StoresFit

\* The parts of the invariant that are about all pillars.
LEMMA CommitKeepsForm ==
  ASSUME PostureInv, NEW j \in Jobs, scan[j].pc = "replace", Commit(j), UNCHANGED <<row, beside>>
  PROVE  /\ ScansFit' /\ RowsFit' /\ StoresFit' /\ AheadIsOpen' /\ TransactionsAreBeside'
         /\ ScannedIsRemembered'
         /\ scan'[j].pc \notin Transacting
         /\ \A k \in Jobs \ {j} : scan'[k] = scan[k] /\ result'[k] = result[k]
         /\ \A q \in Pillars \ {Pillar(j)} : result'[j][q] = result[j][q]
         /\ result'[j][Pillar(j)].done = "ok"
         /\ Pillar(j) \notin Images => /\ result'[j][Pillar(j)].keys = scan[j].new
                                      /\ result[j][Pillar(j)].done = "no"
<1> USE DEF PostureInv
<1>1. PICK p : p = Pillar(j)
  OBVIOUS
<1>2. PICK todo : todo = scan[j].todo \ {scan[j].unit}
  OBVIOUS
<1>4. /\ p \in Pillars /\ p = Plan[j][scan[j].at]
      /\ table' \in [Pillars -> SUBSET Row]
      /\ \A q \in Pillars \ {p} : table'[q] = table[q]
      /\ scan[j].new \subseteq Content
      /\ p \in Sentinel \cup Upserted => table'[p] # {}
  <2>1. scan[j].new # {} => After(j) # {}
    <3>1. \A k \in scan[j].new : [key |-> k, by |-> j] \in After(j)
      BY DEF After
    <3> QED
      BY <3>1
  <2> QED
    BY <1>1, <2>1, CommitRows
<1>5. Fits(j, scan[j]) /\ scan[j] \in Scan /\ scan[j].pc \in OnPillar \ {"report"}
  BY DEF ScansFit, OnPillar
<1>6. /\ todo \in SUBSET (Keys \cup {All})
      /\ todo # {} => p \in Images /\ todo \subseteq Keys
  BY <1>2, <1>4, <1>5 DEF Fits, Scan, AtWork, Transacting
<1>7. WorkOn(j, todo)
  BY <1>2 DEF Commit
<1>8. todo # {} => IF Pillar(j) \in Images THEN todo \subseteq Keys ELSE todo = {All}
  BY <1>1, <1>6
<1>9. PICK s : /\ scan' = [scan EXCEPT ![j] = s]
               /\ Fits(j, s)
               /\ s.pc = (IF todo = {} THEN "report" ELSE "write")
               /\ s.pc \notin Transacting
               /\ s.at = scan[j].at
               /\ Ahead(j, s) \subseteq Ahead(j, scan[j])
  BY <1>5, <1>6, <1>7, <1>8, WorkOnProperties
<1>10. /\ ScansFit'
       /\ scan'[j] = s
       /\ \A k \in Jobs \ {j} : scan'[k] = scan[k]
  BY <1>9, ScanStep
<1>11. PICK keys \in SUBSET Content :
         /\ keys = (IF p \in Images THEN {} ELSE scan[j].new)
         /\ Note(j, "ok", keys)
  <2>1. (IF p \in Images THEN {} ELSE scan[j].new) \in SUBSET Content
    BY <1>4
  <2> QED
    BY <1>1, <2>1 DEF Commit
<1>12. /\ result' \in [Jobs -> [Pillars -> [done : {"no", "ok", "error"}, keys : SUBSET Content]]]
       /\ result'[j][p] = [done |-> "ok", keys |-> keys]
       /\ \A q \in Pillars \ {p} : result'[j][q] = result[j][q]
       /\ \A k \in Jobs \ {j} : result'[k] = result[k]
  <2>1. "ok" \in {"ok", "error"} /\ scan[j].pc \in OnPillar
    BY <1>5
  <2> QED
    BY <1>1, <1>11, <2>1, NoteProperties
<1>13. result'[j][p].done = "ok" /\ result'[j][p].keys = keys
  BY <1>12
<1>14. p \in Ahead(j, scan[j]) /\ (p \notin Images => p \notin Ahead(j, s))
  <2>1. p \in Ahead(j, scan[j])
    BY <1>4, <1>5, AheadProperties
  <2>2. p \notin Images => s.pc = "report" /\ p = Plan[j][s.at]
    BY <1>4, <1>6, <1>9
  <2> QED
    BY <1>9, <2>1, <2>2, AheadProperties
<1>15. p \notin Images => result[j][p].done = "no"
  BY <1>14 DEF AheadIsOpen
<1>16. RowsFit'
  BY <1>9, <1>10 DEF RowsFit
<1>17. StoresFit'
  BY <1>4, <1>12 DEF StoresFit
<1>18. AheadIsOpen'
  <2> SUFFICES ASSUME NEW k \in Jobs, NEW q \in Ahead(k, scan'[k]) \ Images
               PROVE  result'[k][q].done = "no"
    BY DEF AheadIsOpen, Ahead
  <2>1. CASE k = j
    <3>1. q \in Ahead(j, scan[j]) /\ q # p
      BY <1>9, <1>10, <1>14, <2>1
    <3>2. q \in Pillars
      BY <1>5, <3>1, AheadProperties
    <3> QED
      BY <1>12, <2>1, <3>1, <3>2 DEF AheadIsOpen
  <2>2. CASE k # j
    BY <1>10, <1>12, <2>2 DEF AheadIsOpen
  <2> QED
    BY <2>1, <2>2
<1>19. TransactionsAreBeside'
  <2> SUFFICES ASSUME NEW k \in Jobs, NEW l \in Jobs, k # l, NEW q,
                      scan'[k].pc \in Transacting, scan'[l].pc \in Transacting,
                      q = Plan[k][scan'[k].at], q = Plan[l][scan'[l].at]
               PROVE  Beside(q, k, l)'
    BY DEF TransactionsAreBeside, Beside
  <2>1. scan'[k] = scan[k] /\ scan'[l] = scan[l]
    BY <1>9, <1>10
  <2>2. Beside(q, k, l)
    BY <2>1 DEF TransactionsAreBeside, Beside
  <2> QED
    BY <2>2 DEF Beside
<1>20. ScannedIsRemembered'
  <2> SUFFICES ASSUME NEW q \in Sentinel \cup Upserted, NEW k \in Jobs, result'[k][q].done = "ok"
               PROVE  table'[q] # {}
    BY DEF ScannedIsRemembered, NeverScanned
  <2>1. q \in Pillars
    BY PostureAssumption
  <2>2. CASE q = p
    BY <1>4, <2>2
  <2>3. CASE q # p
    <3>1. table'[q] = table[q] /\ result'[k][q] = result[k][q]
      BY <1>4, <1>12, <2>1, <2>3
    <3> QED
      BY <3>1 DEF ScannedIsRemembered, NeverScanned
  <2> QED
    BY <2>2, <2>3
<1> QED
  BY <1>1, <1>9, <1>10, <1>11, <1>12, <1>13, <1>15, <1>16, <1>17, <1>18, <1>19, <1>20

\* A COMMIT replaces whole scans by one of its own.
LEMMA CommitKeepsInv ==
  ASSUME PostureInv, NEW j \in Jobs, scan[j].pc = "replace", Commit(j), UNCHANGED <<row, beside>>
  PROVE  PostureInv'
<1> USE DEF PostureInv
<1>1. PICK p, old, New :
        p = Pillar(j) /\ old = scan[j].old /\ New = [key : scan[j].new, by : {j}]
  OBVIOUS
<1>2. /\ p \in Pillars /\ p = Plan[j][scan[j].at]
      /\ table' \in [Pillars -> SUBSET Row]
      /\ \A q \in Pillars \ {p} : table'[q] = table[q]
      /\ table'[p] = (IF p \in Upserted THEN {} ELSE table[p] \ old) \cup New
  BY <1>1, CommitRows DEF After
<1>3. /\ ScansFit' /\ RowsFit' /\ StoresFit' /\ AheadIsOpen' /\ TransactionsAreBeside'
      /\ ScannedIsRemembered'
      /\ scan'[j].pc \notin Transacting
      /\ \A k \in Jobs \ {j} : scan'[k] = scan[k] /\ result'[k] = result[k]
      /\ \A q \in Pillars \ {p} : result'[j][q] = result[j][q]
      /\ result'[j][p].done = "ok"
      /\ p \notin Images => result'[j][p].keys = scan[j].new /\ result[j][p].done = "no"
  BY <1>1, CommitKeepsForm
<1>4. \A r \in New : r.by = j /\ r.key \in scan[j].new
  BY <1>1
<1>5. \A k \in Jobs, q \in Pillars \ Images :
        result[k][q].done = "ok" => result'[k][q] = result[k][q]
  BY <1>3
<1>6. \A q \in Pillars : \A r \in table[q] : r.by \in Jobs
  BY DEF StoresFit, Row
<1>7. p \notin Images => \A r \in table[p] \cup old : r.by # j
  <2>1. DeletesWholeScans(j, scan[j])
    BY DEF TransactionsDelete
  <2> QED
    BY <1>1, <1>2, <1>3, <2>1 DEF DeletesWholeScans, Transacting, RowsAreOfSuccess
<1>8. RowsAreOfSuccess'
  <2> SUFFICES ASSUME NEW q \in Pillars \ Images, NEW r \in table'[q]
               PROVE  result'[r.by][q].done = "ok"
    BY DEF RowsAreOfSuccess
  <2>1. CASE r \in table[q]
    BY <1>5, <1>6, <2>1 DEF RowsAreOfSuccess
  <2>2. CASE r \notin table[q]
    BY <1>2, <1>3, <1>4, <2>2
  <2> QED
    BY <2>1, <2>2
<1>9. TransactionsDelete'
  <2> SUFFICES ASSUME NEW k \in Jobs, NEW q, q = Plan[k][scan'[k].at],
                      scan'[k].pc \in Transacting, q \notin Images
               PROVE  /\ \A r, t \in table'[q] :
                           r.by = t.by /\ r \in scan'[k].old => t \in scan'[k].old
                      /\ \A r \in scan'[k].old : result'[r.by][q].done = "ok"
                      /\ \A t \in table'[q] \ scan'[k].old : Beside(q, k, t.by)'
    BY DEF TransactionsDelete, DeletesWholeScans, Beside
  <2>1. k # j /\ scan'[k] = scan[k]
    BY <1>3
  <2>2. /\ \A r, t \in table[q] : r.by = t.by /\ r \in scan[k].old => t \in scan[k].old
        /\ \A r \in scan[k].old : result[r.by][q].done = "ok"
        /\ \A t \in table[q] \ scan[k].old : Beside(q, k, t.by)
    BY <2>1 DEF TransactionsDelete, DeletesWholeScans
  <2>3. q \in Pillars /\ scan[k].old \subseteq Row
    <3>1. Fits(k, scan[k])
      BY DEF ScansFit
    <3> QED
      BY <2>1, <3>1, OnPillarProperties DEF Fits, Scan, Transacting, OnPillar
  <2>4. \A r \in scan[k].old : result'[r.by][q].done = "ok"
    BY <1>5, <2>2, <2>3 DEF Row
  <2>5. \A t \in table'[q] : t \in table[q] \/ (q = p /\ t \in New)
    BY <1>2, <2>3
  <2>6. q = p => \A r \in scan[k].old : r.by # j
    BY <1>3, <2>2
  <2>7. \A r, t \in table'[q] : r.by = t.by /\ r \in scan[k].old => t \in scan[k].old
    BY <1>4, <2>2, <2>5, <2>6
  <2>8. q = p => Beside(q, k, j)
    BY <1>2, <2>1 DEF TransactionsAreBeside, Transacting
  <2>9. \A t \in table'[q] \ scan[k].old : Beside(q, k, t.by)
    BY <1>4, <2>2, <2>5, <2>8
  <2>10. \A t \in table'[q] \ scan[k].old : Beside(q, k, t.by)'
    BY <2>9 DEF Beside
  <2> QED
    BY <2>1, <2>4, <2>7, <2>10
<1>10. RowsAreWholeScans'
  <2> SUFFICES ASSUME NEW q \in Pillars \ Images, NEW r \in table'[q]
               PROVE  /\ {t.key : t \in {t \in table'[q] : t.by = r.by}} = result'[r.by][q].keys
                      /\ \A t \in table'[q] : t.by # r.by => Beside(q, r.by, t.by)
    BY DEF RowsAreWholeScans, Beside
  <2>1. CASE q # p
    <3>1. table'[q] = table[q] /\ result'[r.by][q] = result[r.by][q]
      BY <1>2, <1>5, <1>6, <2>1 DEF RowsAreOfSuccess
    <3> QED
      BY <3>1 DEF RowsAreWholeScans, Beside
  <2>2. CASE q = p
    <3>1. \A t \in table'[p] : t \in New \/ (t \in table[p] \ old /\ p \notin Upserted)
      BY <1>2
    <3>2. /\ \A t, u \in table[p] : t.by = u.by /\ t \in old => u \in old
          /\ \A t \in table[p] \ old : Beside(p, j, t.by)
      BY <1>1, <1>2, <2>2 DEF TransactionsDelete, DeletesWholeScans, Transacting
    <3>3. CASE r \in New
      <4>1. {t \in table'[p] : t.by = r.by} = New
        BY <1>2, <1>4, <1>7, <2>2, <3>1, <3>3
      <4>2. {t.key : t \in New} = scan[j].new
        <5>1. \A k \in scan[j].new : [key |-> k, by |-> j] \in New
          BY <1>1
        <5>2. \A k \in scan[j].new : \E t \in New : t.key = k
          BY <5>1
        <5> QED
          BY <1>4, <5>2
      <4>3. \A t \in table'[p] : t.by # r.by => Beside(p, r.by, t.by)
        BY <1>4, <3>1, <3>2, <3>3
      <4> QED
        BY <1>3, <1>4, <2>2, <3>3, <4>1, <4>2, <4>3
    <3>4. CASE r \notin New
      <4>1. r \in table[p] \ old /\ p \notin Upserted /\ r.by # j
        BY <1>7, <2>2, <3>1, <3>4
      <4>2. {t \in table'[p] : t.by = r.by} = {t \in table[p] : t.by = r.by}
        BY <1>2, <1>4, <3>2, <4>1
      <4>3. result'[r.by][p] = result[r.by][p]
        BY <1>5, <1>6, <2>2, <4>1 DEF RowsAreOfSuccess
      <4>4. \A t \in table'[p] : t.by # r.by => Beside(p, r.by, t.by)
        BY <1>4, <2>2, <3>1, <3>2, <4>1 DEF RowsAreWholeScans, Beside
      <4>5. {t.key : t \in {t \in table[p] : t.by = r.by}} = result[r.by][p].keys
        BY <2>2, <4>1 DEF RowsAreWholeScans
      <4> QED
        BY <2>2, <4>2, <4>3, <4>4, <4>5
    <3> QED
      BY <3>3, <3>4
  <2> QED
    BY <2>1, <2>2
<1> QED
  BY <1>3, <1>8, <1>9, <1>10

LEMMA ReplaceKeepsInv ==
  ASSUME PostureInv, NEW j \in Jobs, Replace(j)
  PROVE  PostureInv'
BY CommitKeepsInv, ErrorKeepsInv DEF Replace, OnPillar

LEMMA TickKeepsInv ==
  ASSUME PostureInv, Tick \/ UNCHANGED vars
  PROVE  PostureInv'
<1> USE DEF PostureInv
<1>1. UNCHANGED <<scan, table, result, beside>>
  BY DEF Tick, vars
<1>2. RowsFit'
  <2>1. CASE Tick
    <3>1. \A j \in Jobs :
            /\ row'[j] \in JobRow
            /\ row'[j].status = row[j].status
      BY <2>1, PostureAssumption DEF Tick, RowsFit, JobRow
    <3>2. row' \in [Jobs -> JobRow]
      BY <2>1, <3>1 DEF Tick
    <3> QED
      BY <1>1, <3>1, <3>2 DEF RowsFit
  <2>2. CASE UNCHANGED vars
    BY <2>2 DEF vars, RowsFit
  <2> QED
    BY <2>1, <2>2
<1>3. ScansFit' /\ StoresFit'
  BY <1>1 DEF ScansFit, Fits, StoresFit
<1>5. AheadIsOpen' /\ RowsAreOfSuccess' /\ ScannedIsRemembered'
  BY <1>1 DEF AheadIsOpen, Ahead, RowsAreOfSuccess, ScannedIsRemembered, NeverScanned
<1>4. TransactionsDelete' /\ TransactionsAreBeside' /\ RowsAreWholeScans'
  BY <1>1 DEF TransactionsDelete, DeletesWholeScans, TransactionsAreBeside, RowsAreWholeScans, Beside
<1> QED
  BY <1>2, <1>3, <1>4, <1>5

LEMMA PostureInitInv == Init => PostureInv
<1> SUFFICES ASSUME Init
             PROVE  PostureInv
  OBVIOUS
<1> USE PostureAssumption
<1>1. \A j \in Jobs : /\ scan[j] \in Scan
                      /\ scan[j].pc = (IF j \in Past THEN "over" ELSE "idle")
                      /\ scan[j].at = 1
  <2> SUFFICES ASSUME NEW j \in Jobs
               PROVE  /\ scan[j] \in Scan
                      /\ scan[j].pc = (IF j \in Past THEN "over" ELSE "idle")
                      /\ scan[j].at = 1
    OBVIOUS
  <2>1. PICK pc \in Steps : pc = (IF j \in Past THEN "over" ELSE "idle")
    BY DEF Steps
  <2>2. scan[j] = [NoScan EXCEPT !.pc = pc]
    BY <2>1 DEF Init
  <2> QED
    BY <2>1, <2>2, AtFirstProperties
<1>2. ScansFit
  BY <1>1, PlanProperties DEF Init, ScansFit, Fits, OnPillar, AtWork, Transacting
<1>3. RowsFit
  <2>1. 0 \in 0..Stale + 1
    OBVIOUS
  <2> QED
    BY <1>1, <2>1 DEF Init, RowsFit, JobRow
<1>4. \A p \in Pillars : Stored[p] \subseteq Content
  BY DEF Content
<1>5. StoresFit
  BY <1>4 DEF Init, StoresFit, Row, Content
<1>6. AheadIsOpen
  <2>1. \A j \in Jobs : Ahead(j, scan[j]) \subseteq Pillars
    BY <1>2, AheadProperties DEF ScansFit
  <2> QED
    BY <1>1, <2>1 DEF Init, AheadIsOpen, Ahead
<1>7. \A p \in Pillars : \A r \in table[p] :
        /\ r.by \in Past /\ r.key \in Stored[p]
        /\ r.by \in Jobs
        /\ result[r.by][p].done = "ok" /\ result[r.by][p].keys = Stored[p]
  BY DEF Init
<1>8. RowsAreOfSuccess
  BY <1>7 DEF RowsAreOfSuccess
<1>9. TransactionsDelete /\ TransactionsAreBeside
  BY <1>1 DEF TransactionsDelete, DeletesWholeScans, TransactionsAreBeside, Transacting
<1>10. RowsAreWholeScans
  <2> SUFFICES ASSUME NEW p \in Pillars \ Images, NEW r \in table[p]
               PROVE  /\ {t.key : t \in {t \in table[p] : t.by = r.by}} = result[r.by][p].keys
                      /\ \A t \in table[p] : t.by = r.by
    BY DEF RowsAreWholeScans
  <2>1. \A t \in table[p] : t.by = r.by
    BY <1>7
  <2>2. \A k \in Stored[p] : [key |-> k, by |-> r.by] \in table[p]
    BY <1>7 DEF Init
  <2>3. {t.key : t \in table[p]} = Stored[p]
    <3>1. \A k \in Stored[p] : \E t \in table[p] : t.key = k
      BY <2>2
    <3> QED
      BY <1>7, <3>1
  <2>4. {t \in table[p] : t.by = r.by} = table[p]
    BY <2>1
  <2> QED
    BY <1>7, <2>1, <2>3, <2>4
<1>11. ScannedIsRemembered
  <2> SUFFICES ASSUME NEW p \in Sentinel \cup Upserted, NEW j \in Jobs, result[j][p].done = "ok"
               PROVE  table[p] # {}
    BY DEF ScannedIsRemembered, NeverScanned
  <2>1. p \in Pillars /\ j \in Past
    BY DEF Init
  <2>2. PICK k \in Stored[p] : TRUE
    OBVIOUS
  <2>3. table[p] = [key : Stored[p], by : Past]
    BY <2>1 DEF Init
  <2>4. [key |-> k, by |-> j] \in table[p]
    BY <2>1, <2>2, <2>3
  <2> QED
    BY <2>4
<1> QED
  BY <1>2, <1>3, <1>5, <1>6, <1>8, <1>9, <1>10, <1>11 DEF PostureInv

-----------------------------------------------------------------------------
(***************************************************************************)
(* Theorems.                                                               *)
(***************************************************************************)
\* The inductive invariant of posture scans: what a transaction will delete,
\* and which transactions ran beside it.
THEOREM PostureInvariant == Spec => []PostureInv
<1>1. PostureInv /\ [Next]_vars => PostureInv'
  <2> SUFFICES ASSUME PostureInv, [Next]_vars
               PROVE  PostureInv'
    OBVIOUS
  <2>1. ASSUME NEW j \in Jobs, Work(j)
        PROVE  PostureInv'
    BY <2>1, BeginKeepsInv, StartStepKeepsInv, GatherKeepsInv, OpenKeepsInv, UnblockKeepsInv,
       ReplaceKeepsInv, SkipImageKeepsInv, ReportKeepsInv, FinishKeepsInv DEF Work
  <2> QED
    BY <2>1, AskKeepsInv, StartKeepsInv, FinishKeepsInv, TickKeepsInv DEF Next
<1> QED
  BY <1>1, PostureInitInv, PTL DEF Spec

\* The state has its type, a job has a row before its thread begins, and says
\* that it is over only when it is (scan_scheduler.py:196-246).
THEOREM PostureTypeCorrect == Spec => []TypeOK
<1>1. PostureInv => TypeOK
  BY DEF PostureInv, ScansFit, RowsFit, StoresFit, JobRow, Fits, Scan, Steps, Content, TypeOK
<1> QED
  BY <1>1, PostureInvariant, PTL

\* The rows of a pillar are whole scans, and those of two scans only when their
\* transactions overlapped, for any number of jobs of any number of servers
\* (repos/posture.py, the DELETE and INSERTs of each pillar).
THEOREM RowsAreOfWholeScans == Spec => []RowsAreWholeScans
BY PostureInvariant, PTL DEF PostureInv

\* A pillar that was scanned once never counts as never scanned again.
THEOREM ScannedStaysScanned == Spec => []ScannedIsRemembered
BY PostureInvariant, PTL DEF PostureInv

-----------------------------------------------------------------------------
(***************************************************************************)
(* Findings: the inductive invariant, table by table; the rows of a table  *)
(* and, for those of CVEs, what the scan they come from was told.          *)
(***************************************************************************)
\* A table of rows that have been written, for a host of the inventory.
Written(h, rows) ==
  /\ IsFiniteSet(rows)
  /\ rows # {} => h \in hosts
  /\ \A r \in rows : r.at \in 0..now

\* They have been written at once.
AtOnce(rows) == \A r, s \in rows : r.at = s.at

\* Every answer of OSV that leaves a package unpatched has a row of its own, an
\* urgent one for a package that is not background an actionable row.
AnswersAreListed(rows, told) ==
  \A pair \in Answers(told.packages) : \A v \in Unpatched(pair[2], told) :
    \E r \in rows :
      /\ CveKey(r) = <<pair[1].name, v.cve>>
      /\ Severity(v) \in {"critical", "high"} /\ ~pair[1].meta => r.actionable

CveFits(h, rows, told) ==
  /\ Written(h, rows) /\ AtOnce(rows)
  /\ DistinctOn(rows, CveKey)
  /\ \A r \in rows : r.severity \in Severities /\ (r.kev => r.actionable)
  /\ told.packages \in Software \cup {<< >>}
  /\ AnswersAreListed(rows, told)

ExposureFits(h, rows) ==
  /\ Written(h, rows) /\ AtOnce(rows)
  /\ \A r \in rows :
       /\ r.scope \in Scopes
       /\ r.risk \in Risks
       /\ r.risk = ScorePort(r.port, r.scope)

UsersFit(h, rows) ==
  /\ Written(h, rows) /\ AtOnce(rows)
  /\ DistinctOn(rows, LAMBDA r : r.name)
  /\ \A r \in rows : r.risk \in {"critical", "medium", "info"}

\* At most one row.
CoverageFits(h, rows) ==
  /\ Written(h, rows) /\ AtOnce(rows)
  /\ \A r, s \in rows : r = s

\* Images are written one by one.
ContainersFit(h, rows) ==
  /\ Written(h, rows)
  /\ \A r \in rows : r.image \in UNION ImageSets /\ r.severity \in Severities

\* One entry for each host.
IsTable(t) == t = [h \in Hosts |-> t[h]]

ColumnsFit ==
  /\ now \in 0..MaxTime
  /\ hosts \subseteq Hosts
  /\ eol \in [Hosts -> BOOLEAN]
  /\ kev \in {Unread, KevFeed, {}}
  /\ scans \in 0..MaxScans

CvesFit ==
  /\ IsTable(cve) /\ IsTable(source)
  /\ \A h \in Hosts : CveFits(h, cve[h], source[h])

PortsFit == IsTable(exposure) /\ \A h \in Hosts : ExposureFits(h, exposure[h])

AccountsFit == IsTable(users) /\ \A h \in Hosts : UsersFit(h, users[h])

ChecksFit ==
  /\ IsTable(sca)
  /\ \A h \in Hosts : Written(h, sca[h]) /\ AtOnce(sca[h])

ModulesFit ==
  /\ IsTable(coverage)
  /\ \A h \in Hosts : CoverageFits(h, coverage[h])

ImagesFit == IsTable(containers) /\ \A h \in Hosts : ContainersFit(h, containers[h])

FindingsInv ==
  /\ ColumnsFit
  /\ CvesFit
  /\ PortsFit
  /\ AccountsFit
  /\ ChecksFit
  /\ ModulesFit
  /\ ImagesFit

-----------------------------------------------------------------------------
(***************************************************************************)
(* The scores.                                                             *)
(***************************************************************************)
\* What is known to be exploited is actionable, and so is a critical or high
\* CVE of a package that is not background, whatever else could be read.
LEMMA ActionableProperties ==
  ASSUME NEW f, f.severity \in Severities, f.cvss \in Nat
  PROVE  /\ f.kev => Actionable(f)
         /\ f.severity \in {"critical", "high"} /\ ~f.meta => Actionable(f)
<1>1. ASSUME f.kev
      PROVE  Actionable(f)
  BY <1>1 DEF Actionable, Background
<1>2. ASSUME f.severity \in {"critical", "high"}, ~f.meta
      PROVE  Actionable(f)
  <2>1. SeverityPoints(f.severity) >= 20 /\ SeverityPoints(f.severity) \in Nat
    BY <1>2 DEF SeverityPoints
  <2>2. f.cvss \div 10 \in Nat
    OBVIOUS
  <2>3. /\ Points(f.kev, 100) \in Nat /\ Points(f.running, 40) \in Nat
        /\ Points(f.eol /\ f.severity = "critical", 50) \in Nat
    BY DEF Points
  <2>4. ~Background(f) /\ Points(Background(f), 50) = 0
    BY <1>2 DEF Background, Points
  <2>5. Priority(f) >= 15
    BY <2>1, <2>2, <2>3, <2>4 DEF Priority
  <2> QED
    BY <1>2, <2>4, <2>5 DEF Actionable
<1> QED
  BY <1>1, <1>2

LEMMA RiskProperties ==
  ASSUME NEW port, NEW scope \in Scopes
  PROVE  /\ BaseRisk(port) \in Risks
         /\ ScorePort(port, scope) \in Risks
         /\ scope = "localhost" => RiskRank(ScorePort(port, scope)) <= RiskRank(BaseRisk(port))
         /\ scope = "all_interfaces" => RiskRank(ScorePort(port, scope)) >= RiskRank(BaseRisk(port))
         /\ scope = "specific" => ScorePort(port, scope) = BaseRisk(port)
<1>1. \A p \in DOMAIN RiskyPorts : RiskyPorts[p] \in Risks
  BY DEF RiskyPorts, Risks
<1>2. \A p \in DOMAIN K8sPorts : K8sPorts[p] \in Risks
  BY DEF K8sPorts, Risks
<1>3. BaseRisk(port) \in Risks
  <2>1. "info" \in Risks
    BY DEF Risks
  <2> QED
    BY <1>1, <1>2, <2>1 DEF BaseRisk
<1>4. PICK base \in Risks : base = BaseRisk(port)
  BY <1>3
<1>5. Raised(base) \in Risks /\ RiskRank(Raised(base)) >= RiskRank(base)
  BY DEF Raised, RiskRank, Risks
<1>6. Lowered(port) \in Risks /\ RiskRank(Lowered(port)) <= RiskRank(base)
  BY <1>4 DEF Lowered, RiskRank, Risks
<1> QED
  BY <1>3, <1>4, <1>5, <1>6 DEF ScorePort, Scopes

\* What OSV may know of a package of a host.
LEMMA AdvisoryProperties ==
  ASSUME NEW packages \in Software, NEW i \in 1..Len(packages),
         NEW ecosystem \in {"Ubuntu"} \cup {OsOf(h) : h \in Hosts},
         NEW v \in VulnsOf(packages[i], ecosystem)
  PROVE  /\ DOMAIN v = {"id", "cve", "cvss", "scored", "rating", "patched"}
         /\ v.cvss \in Nat /\ v.rating \in Severities
BY FindingsAssumption, Zenon

LEMMA SeverityProperties ==
  ASSUME NEW v, DOMAIN v = {"id", "cve", "cvss", "scored", "rating", "patched"},
         v.cvss \in Nat, v.rating \in Severities, NEW unread
  PROVE  /\ Detail(v, unread).cvss \in Nat
         /\ Severity(Detail(v, unread)) \in Severities
<1>1. Detail(v, unread).cvss \in Nat /\ Detail(v, unread).rating \in Severities
  BY DEF Detail, Severities
<1> QED
  BY <1>1 DEF Severity, SeverityOfCvss, Severities

LEMMA BoundProperties ==
  MaxTime \in Nat /\ MaxScans \in Nat /\ StaleHours \in Nat /\ Waits \subseteq Nat \ {0}
BY FindingsAssumption

\* Whatever answers, answers with finitely many.
LEMMA AnswersAreFinite ==
  \A answer \in Listening \cup Checks \cup Accounts \cup ImageSets \cup ImageCves :
    IsFiniteSet(answer)
BY FindingsAssumption

(***************************************************************************)
(* What the scanners write.                                                *)
(***************************************************************************)
\* They are finitely many, as what they are made from.
LEMMA ImageIsFinite ==
  ASSUME NEW S, IsFiniteSet(S), NEW f, NEW T, T \subseteq {f[x] : x \in S}
  PROVE  IsFiniteSet(T)
<1> DEFINE g == [x \in S |-> f[x]]
           Made == {f[x] : x \in S}
<1>1. g \in Surjection(S, Made)
  BY DEF Surjection
<1>2. IsFiniteSet(Made)
  <2> HIDE DEF g, Made
  <2> QED
    BY <1>1, FS_Surjection
<1> QED
  BY <1>2, FS_Subset

LEMMA OneOrNoneIsFinite ==
  ASSUME NEW rows, IsFiniteSet(rows), NEW other
  PROVE  IsFiniteSet(OrPlaceholder(rows, other))
BY FS_Singleton DEF OrPlaceholder

\* The answers of OSV are about packages that are installed.
LEMMA AnswersProperties ==
  ASSUME NEW packages, NEW pair \in Answers(packages)
  PROVE  \E i, j \in 1..Len(packages) : pair[1] = packages[i] /\ pair[2] = packages[j]
BY DEF Answers

LEMMA AnswersOfOsvAreFinite ==
  ASSUME NEW packages, Len(packages) \in Nat
  PROVE  IsFiniteSet(Answers(packages))
<1> DEFINE places == 1..Len(packages)
<1>1. IsFiniteSet(places \X places)
  <2>1. IsFiniteSet(places)
    BY FS_Interval
  <2> QED
    BY <2>1, FS_Product
<1>2. PICK f : f = [x \in places \X places |-> <<packages[x[1]], packages[x[2]]>>]
  OBVIOUS
<1>3. Answers(packages) \subseteq {f[x] : x \in places \X places}
  <2> SUFFICES ASSUME NEW pair \in Answers(packages)
               PROVE  \E x \in places \X places : pair = f[x]
    OBVIOUS
  <2>1. PICK i, j \in places : pair = <<packages[i], packages[j]>>
    BY DEF Answers
  <2>2. <<i, j>> \in places \X places /\ f[<<i, j>>] = pair
    BY <1>2, <2>1
  <2> QED
    BY <2>2
<1> QED
  BY <1>1, <1>3, ImageIsFinite

LEMMA CveRowsAreFinite ==
  ASSUME NEW packages \in Software, NEW told, told.packages = packages,
         told.ecosystem \in {"Ubuntu"} \cup {OsOf(k) : k \in Hosts},
         NEW running, NEW list, NEW isEol, NEW first, NEW second
  PROVE  IsFiniteSet(CveRows(told, running, list, isEol, first, second))
<1> DEFINE RowOf(pair, v) ==
             CveRow(pair[1], v, Finding(pair[1], v, running, list, isEol), first, second)
           Of(pair) == {RowOf(pair, v) : v \in Unpatched(pair[2], told)}
<1>1. ASSUME NEW pair \in Answers(packages)
      PROVE  IsFiniteSet(Of(pair))
  <2>1. PICK j \in 1..Len(packages) : pair[2] = packages[j]
    BY AnswersProperties
  <2>2. IsFiniteSet(VulnsOf(packages[j], told.ecosystem))
    BY FindingsAssumption
  <2>3. PICK f : f = [w \in VulnsOf(packages[j], told.ecosystem) |->
                        RowOf(pair, Detail(w, told.unread))]
    OBVIOUS
  <2>4. Of(pair) \subseteq {f[w] : w \in VulnsOf(packages[j], told.ecosystem)}
    <3> SUFFICES ASSUME NEW v \in Unpatched(pair[2], told)
                 PROVE  \E w \in VulnsOf(packages[j], told.ecosystem) : RowOf(pair, v) = f[w]
      OBVIOUS
    <3>1. PICK w \in VulnsOf(packages[j], told.ecosystem) : v = Detail(w, told.unread)
      BY <2>1 DEF Unpatched
    <3> QED
      BY <2>3, <3>1
  <2> HIDE DEF Of
  <2> QED
    BY <2>2, <2>4, ImageIsFinite
<1>2. IsFiniteSet({Of(pair) : pair \in Answers(packages)})
  <2>1. PICK f : f = [pair \in Answers(packages) |-> Of(pair)]
    OBVIOUS
  <2>2. {Of(pair) : pair \in Answers(packages)} \subseteq {f[x] : x \in Answers(packages)}
    BY <2>1
  <2>3. IsFiniteSet(Answers(packages))
    BY AnswersOfOsvAreFinite, FindingsAssumption
  <2> HIDE DEF Of
  <2> QED
    BY <2>2, <2>3, ImageIsFinite
<1>3. IsFiniteSet(UNION {Of(pair) : pair \in Answers(packages)})
  <2> HIDE DEF Of
  <2> QED
    BY <1>1, <1>2, FS_UNION
<1> QED
  BY <1>3 DEF CveRows

LEMMA CveRowsFit ==
  ASSUME now \in Nat, NEW h \in Hosts, NEW packages \in Software, NEW osRead \in BOOLEAN,
         NEW running, NEW list, NEW isEol, NEW first, NEW second, NEW told, NEW rows,
         told.packages = packages, told.ecosystem = Ecosystem(h, osRead),
         rows = CveRows(told, running, list, isEol, first, second),
         Accepted(h, rows, CveKey)
  PROVE  CveFits(h, rows, told)
<1>1. \A pair \in Answers(packages) : \A v \in Unpatched(pair[2], told) :
        v.cvss \in Nat /\ Severity(v) \in Severities
  <2> SUFFICES ASSUME NEW pair \in Answers(packages), NEW v \in Unpatched(pair[2], told)
               PROVE  v.cvss \in Nat /\ Severity(v) \in Severities
    OBVIOUS
  <2>1. PICK j \in 1..Len(packages) : pair[2] = packages[j]
    BY AnswersProperties
  <2>2. PICK w \in VulnsOf(packages[j], told.ecosystem) : v = Detail(w, told.unread)
    BY <2>1 DEF Unpatched
  <2>3. told.ecosystem \in {"Ubuntu"} \cup {OsOf(k) : k \in Hosts}
    BY DEF Ecosystem
  <2>4. /\ DOMAIN w = {"id", "cve", "cvss", "scored", "rating", "patched"}
        /\ w.cvss \in Nat /\ w.rating \in Severities
    BY <2>2, <2>3, AdvisoryProperties
  <2> QED
    BY <2>2, <2>4, SeverityProperties
<1>2. \A pair \in Answers(packages) : \A v \in Unpatched(pair[2], told) :
        \E r \in rows :
          r = CveRow(pair[1], v, Finding(pair[1], v, running, list, isEol), first, second)
  BY DEF CveRows
<1>3. \A r \in rows : \E pair \in Answers(packages) : \E v \in Unpatched(pair[2], told) :
        r = CveRow(pair[1], v, Finding(pair[1], v, running, list, isEol), first, second)
  BY DEF CveRows
<1>4. ASSUME NEW pair \in Answers(packages), NEW v \in Unpatched(pair[2], told), NEW r,
             r = CveRow(pair[1], v, Finding(pair[1], v, running, list, isEol), first, second)
      PROVE  /\ r.at = now
             /\ r.severity \in Severities
             /\ r.kev => r.actionable
             /\ CveKey(r) = <<pair[1].name, v.cve>>
             /\ Severity(v) \in {"critical", "high"} /\ ~pair[1].meta => r.actionable
  <2>1. PICK f : f = Finding(pair[1], v, running, list, isEol)
    OBVIOUS
  <2>2. /\ f.severity = Severity(v) /\ f.cvss = v.cvss /\ f.meta = pair[1].meta
        /\ f.severity \in Severities /\ f.cvss \in Nat
    BY <1>1, <2>1 DEF Finding
  <2>3. /\ r.at = now /\ r.severity = f.severity /\ r.kev = f.kev
        /\ r.actionable = Actionable(f) /\ r.package = pair[1].name /\ r.cve = v.cve
    BY <1>4, <2>1 DEF CveRow
  <2> QED
    BY <2>2, <2>3, ActionableProperties DEF CveKey
<1>5. AnswersAreListed(rows, told)
  BY <1>2, <1>4 DEF AnswersAreListed
<1>6. \A r \in rows : r.at = now /\ r.severity \in Severities /\ (r.kev => r.actionable)
  BY <1>3, <1>4
<1>7. IsFiniteSet(rows)
  BY CveRowsAreFinite DEF Ecosystem
<1> QED
  BY <1>5, <1>6, <1>7 DEF CveFits, Written, AtOnce, Accepted

LEMMA ExposureRowsFit ==
  ASSUME now \in Nat, NEW h \in hosts, NEW ports, \A p \in ports : p.scope \in Scopes,
         IsFiniteSet(ports)
  PROVE  ExposureFits(h, ExposureRows(ports))
<1>1. PICK rows : rows = ExposureRows(ports)
  OBVIOUS
<1>2. \A r \in rows : r.at = now /\ r.scope \in Scopes
  BY <1>1 DEF ExposureRows, OrPlaceholder, Scopes
<1>3. \A r \in rows : r.risk = ScorePort(r.port, r.scope)
  <2>1. ScorePort(0, "specific") = "info"
    BY DEF ScorePort, BaseRisk, RiskyPorts, K8sPorts
  <2> QED
    BY <1>1, <2>1 DEF ExposureRows, OrPlaceholder
<1>4. IsFiniteSet(rows)
  <2>1. PICK f : f = [p \in ports |-> [port |-> p.port, scope |-> p.scope, at |-> now,
                                       risk |-> ScorePort(p.port, p.scope)]]
    OBVIOUS
  <2>2. IsFiniteSet({[port |-> p.port, scope |-> p.scope, at |-> now,
                      risk |-> ScorePort(p.port, p.scope)] : p \in ports})
    BY <2>1, ImageIsFinite
  <2> QED
    BY <1>1, <2>2, OneOrNoneIsFinite DEF ExposureRows
<1> QED
  BY <1>1, <1>2, <1>3, <1>4, RiskProperties DEF ExposureFits, Written, AtOnce

LEMMA UserRowsFit ==
  ASSUME now \in Nat, NEW h \in Hosts, NEW accounts, IsFiniteSet(accounts),
         Accepted(h, UserRows(accounts), LAMBDA r : r.name)
  PROVE  UsersFit(h, UserRows(accounts))
<1>1. PICK rows : rows = UserRows(accounts)
  OBVIOUS
<1>2. \A r \in rows : r.at = now /\ r.risk \in {"critical", "medium", "info"}
  BY <1>1 DEF UserRows, OrPlaceholder, ScoreUser
<1>3. IsFiniteSet(Normalized(accounts))
  <2>1. PICK f : f = [u \in accounts |->
          [name |-> u.name, uid |-> u.uid, interactive |-> u.interactive,
           loggedIn |-> IF u.login = "" THEN u.session ELSE u.login # "never"]]
    OBVIOUS
  <2>2. Normalized(accounts) \subseteq {f[u] : u \in accounts}
    BY <2>1 DEF Normalized
  <2> QED
    BY <2>2, ImageIsFinite
<1>4. IsFiniteSet(rows)
  <2>1. PICK f : f = [u \in Normalized(accounts) |->
                        [name |-> u.name, uid |-> u.uid, risk |-> ScoreUser(u), at |-> now]]
    OBVIOUS
  <2>2. PICK made : made = {[name |-> u.name, uid |-> u.uid, risk |-> ScoreUser(u), at |-> now] :
                            u \in Normalized(accounts)}
    OBVIOUS
  <2>3. made \subseteq {f[u] : u \in Normalized(accounts)}
    BY <2>1, <2>2
  <2>4. IsFiniteSet(made)
    BY <1>3, <2>3, ImageIsFinite
  <2> QED
    BY <1>1, <2>2, <2>4, OneOrNoneIsFinite DEF UserRows
<1> QED
  BY <1>1, <1>2, <1>4 DEF UsersFit, Written, AtOnce, Accepted

LEMMA ScaRowsFit ==
  ASSUME now \in Nat, NEW h \in hosts, NEW report, IsFiniteSet(DOMAIN report),
         \A p \in DOMAIN report : IsFiniteSet(report[p])
  PROVE  Written(h, ScaRows(report)) /\ AtOnce(ScaRows(report))
<1>1. PICK rows : rows = ScaRows(report)
  OBVIOUS
<1>2. \A r \in rows : r.at = now
  BY <1>1 DEF ScaRows, OrPlaceholder
<1> DEFINE Of(p) == {[policy |-> p, check |-> c.check, result |-> c.result, at |-> now] :
                      c \in report[p]}
<1>3. ASSUME NEW p \in DOMAIN report
      PROVE  IsFiniteSet(Of(p))
  <2>1. PICK f : f = [c \in report[p] |->
          [policy |-> p, check |-> c.check, result |-> c.result, at |-> now]]
    OBVIOUS
  <2>2. Of(p) \subseteq {f[c] : c \in report[p]}
    BY <2>1
  <2> HIDE DEF Of
  <2> QED
    BY <2>2, ImageIsFinite
<1>4. IsFiniteSet({Of(p) : p \in DOMAIN report})
  <2>1. PICK f : f = [p \in DOMAIN report |-> Of(p)]
    OBVIOUS
  <2>2. {Of(p) : p \in DOMAIN report} \subseteq {f[p] : p \in DOMAIN report}
    BY <2>1
  <2> QED
    BY <2>2, ImageIsFinite
<1>5. IsFiniteSet(UNION {Of(p) : p \in DOMAIN report})
  <2> HIDE DEF Of
  <2> QED
    BY <1>3, <1>4, FS_UNION
<1>6. IsFiniteSet(rows)
  BY <1>1, <1>5, OneOrNoneIsFinite DEF ScaRows
<1> QED
  BY <1>1, <1>2, <1>6 DEF Written, AtOnce

LEMMA CoverageRowFits ==
  ASSUME now \in Nat, NEW h \in hosts, NEW results, NEW events
  PROVE  CoverageFits(h, {CoverageRow(results, events)})
<1>1. PICK written : written = CoverageRow(results, events)
  OBVIOUS
<1>2. written.at = now /\ IsFiniteSet({written})
  BY <1>1, FS_Singleton DEF CoverageRow
<1> QED
  BY <1>1, <1>2 DEF CoverageFits, Written, AtOnce

LEMMA ImageRowsFit ==
  ASSUME now \in Nat, NEW h \in hosts, NEW image \in UNION ImageSets, NEW report \in ImageCves
  PROVE  ContainersFit(h, ImageRows(image, report))
<1>1. PICK rows : rows = ImageRows(image, report)
  OBVIOUS
<1>2. \A c \in Parsed(report) : \E d \in report :
        /\ c.cve = d.cve
        /\ c.severity = (IF d.severity = "" THEN "unknown" ELSE d.severity)
  <2> SUFFICES ASSUME NEW c \in Parsed(report)
               PROVE  \E d \in report :
                        /\ c.cve = d.cve
                        /\ c.severity = (IF d.severity = "" THEN "unknown" ELSE d.severity)
    OBVIOUS
  <2>1. PICK d \in report :
          c = [cve |-> d.cve, severity |-> IF d.severity = "" THEN "unknown" ELSE d.severity]
    BY DEF Parsed
  <2> QED
    BY <2>1
<1>3. \A r \in rows : \E c \in Parsed(report) :
        r = [image |-> image, cve |-> c.cve, severity |-> c.severity, at |-> now]
  BY <1>1 DEF ImageRows
<1>4. \A r \in rows : \E d \in report :
        r = [image |-> image, cve |-> d.cve,
             severity |-> IF d.severity = "" THEN "unknown" ELSE d.severity, at |-> now]
  <2> SUFFICES ASSUME NEW r \in rows
               PROVE  \E d \in report :
                        r = [image |-> image, cve |-> d.cve,
                             severity |-> IF d.severity = "" THEN "unknown" ELSE d.severity,
                             at |-> now]
    OBVIOUS
  <2>1. PICK c \in Parsed(report) :
          r = [image |-> image, cve |-> c.cve, severity |-> c.severity, at |-> now]
    BY <1>3
  <2>2. PICK d \in report :
          c.cve = d.cve /\ c.severity = (IF d.severity = "" THEN "unknown" ELSE d.severity)
    BY <1>2
  <2> QED
    BY <2>1, <2>2
<1>5. \A r \in rows : r.at = now /\ r.image = image /\ r.severity \in Severities
  <2>1. \A d \in report : d.severity \in Severities \cup {""}
    BY FindingsAssumption
  <2>2. "unknown" \in Severities
    BY DEF Severities
  <2> SUFFICES ASSUME NEW r \in rows
               PROVE  r.at = now /\ r.image = image /\ r.severity \in Severities
    OBVIOUS
  <2>3. PICK d \in report :
          r = [image |-> image, cve |-> d.cve,
               severity |-> IF d.severity = "" THEN "unknown" ELSE d.severity, at |-> now]
    BY <1>4
  <2>4. r.severity = (IF d.severity = "" THEN "unknown" ELSE d.severity)
    BY <2>3
  <2>5. r.at = now /\ r.image = image
    BY <2>3
  <2> QED
    BY <2>1, <2>2, <2>4, <2>5
<1>6. IsFiniteSet(rows)
  <2>1. PICK f : f = [d \in report |->
          [image |-> image, cve |-> d.cve,
           severity |-> IF d.severity = "" THEN "unknown" ELSE d.severity, at |-> now]]
    OBVIOUS
  <2>2. rows \subseteq {f[d] : d \in report}
    BY <1>4, <2>1
  <2>3. IsFiniteSet(report)
    BY AnswersAreFinite
  <2> QED
    BY <2>2, <2>3, ImageIsFinite
<1> QED
  BY <1>1, <1>5, <1>6 DEF ContainersFit, Written

-----------------------------------------------------------------------------
(***************************************************************************)
(* Every step keeps the invariant.  Rows that nobody writes keep fitting,  *)
(* as hosts are never removed and time does not go back.                   *)
(***************************************************************************)
Onward == now \in Nat /\ now' \in Nat /\ now <= now' /\ hosts \subseteq hosts'

LEMMA WrittenStaysWritten ==
  ASSUME Onward, NEW h, NEW rows, Written(h, rows)
  PROVE  Written(h, rows)'
BY DEF Onward, Written

LEMMA CvesKept ==
  ASSUME Onward, CvesFit, cve' = cve, source' = source
  PROVE  CvesFit'
<1>1. ASSUME NEW h \in Hosts, NEW rows, NEW told, CveFits(h, rows, told)
      PROVE  CveFits(h, rows, told)'
  BY <1>1, WrittenStaysWritten DEF CveFits
<1>2. \A h \in Hosts : CveFits(h, cve[h], source[h])'
  <2> SUFFICES ASSUME NEW h \in Hosts
               PROVE  CveFits(h, cve[h], source[h])'
    OBVIOUS
  <2>1. PICK rows, told : rows = cve[h] /\ told = source[h]
    OBVIOUS
  <2>2. CveFits(h, rows, told)'
    BY <1>1, <2>1 DEF CvesFit
  <2> QED
    BY <2>1, <2>2 DEF CveFits, Written
<1> QED
  BY <1>2 DEF CvesFit, IsTable

LEMMA PortsKept ==
  ASSUME Onward, PortsFit, exposure' = exposure
  PROVE  PortsFit'
BY DEF Onward, PortsFit, IsTable, ExposureFits, Written

LEMMA AccountsKept ==
  ASSUME Onward, AccountsFit, users' = users
  PROVE  AccountsFit'
BY DEF Onward, AccountsFit, IsTable, UsersFit, Written, DistinctOn

LEMMA ChecksKept ==
  ASSUME Onward, ChecksFit, sca' = sca
  PROVE  ChecksFit'
BY DEF Onward, ChecksFit, IsTable, Written

LEMMA ModulesKept ==
  ASSUME Onward, ModulesFit, coverage' = coverage
  PROVE  ModulesFit'
BY DEF Onward, ModulesFit, IsTable, CoverageFits, Written

LEMMA ImagesKept ==
  ASSUME Onward, ImagesFit, containers' = containers
  PROVE  ImagesFit'
BY DEF Onward, ImagesFit, IsTable, ContainersFit, Written

\* A scan is one step beside which nothing happens.
LEMMA ScanIsOnward ==
  ASSUME ColumnsFit, CountScan, now' = now, hosts' = hosts,
         eol' \in [Hosts -> BOOLEAN], kev' \in {Unread, KevFeed, {}}
  PROVE  Onward /\ ColumnsFit'
BY BoundProperties DEF ColumnsFit, CountScan, Onward

LEMMA NoteEolProperties ==
  ASSUME ColumnsFit, NEW h \in Hosts, NEW osRead \in BOOLEAN, NoteEol(h, IsEol(h, osRead))
  PROVE  eol' \in [Hosts -> BOOLEAN]
BY DEF ColumnsFit, NoteEol, IsEol

LEMMA ScanVulnerabilitiesKeepsInv ==
  ASSUME FindingsInv, NEW h \in Hosts, ScanVulnerabilities(h)
  PROVE  FindingsInv'
<1> USE DEF FindingsInv
<1>1. PICK packages \in Software, running \in SUBSET Services, list \in KevLists,
           unread \in Unreadable, osRead, first, second \in BOOLEAN :
        LET told == [packages |-> packages, ecosystem |-> Ecosystem(h, osRead),
                     unread |-> unread]
            rows == CveRows(told, running, list, IsEol(h, osRead), first, second)
        IN /\ NoteEol(h, IsEol(h, osRead))
           /\ kev' = IF rows = {} THEN kev ELSE list
           /\ IF Accepted(h, rows, CveKey)
              THEN /\ cve' = [cve EXCEPT ![h] = rows]
                   /\ source' = [source EXCEPT ![h] = told]
              ELSE UNCHANGED <<cve, source>>
  BY DEF ScanVulnerabilities
<1>2. PICK told, rows :
        /\ told = [packages |-> packages, ecosystem |-> Ecosystem(h, osRead), unread |-> unread]
        /\ rows = CveRows(told, running, list, IsEol(h, osRead), first, second)
        /\ NoteEol(h, IsEol(h, osRead))
        /\ kev' = IF rows = {} THEN kev ELSE list
        /\ IF Accepted(h, rows, CveKey)
           THEN /\ cve' = [cve EXCEPT ![h] = rows]
                /\ source' = [source EXCEPT ![h] = told]
           ELSE UNCHANGED <<cve, source>>
  BY <1>1
<1>3. /\ CountScan /\ now' = now /\ hosts' = hosts /\ exposure' = exposure /\ sca' = sca
      /\ users' = users /\ coverage' = coverage /\ containers' = containers
  BY DEF ScanVulnerabilities
<1>4. eol' \in [Hosts -> BOOLEAN]
  BY <1>2, NoteEolProperties
<1>5. kev' \in {Unread, KevFeed, {}}
  BY <1>2 DEF KevLists, ColumnsFit
<1>6. Onward /\ ColumnsFit'
  BY <1>3, <1>4, <1>5, ScanIsOnward
<1>7. CvesFit'
  <2>1. CASE ~Accepted(h, rows, CveKey)
    BY <1>2, <1>6, <2>1, CvesKept
  <2>2. CASE Accepted(h, rows, CveKey)
    <3>1. CveFits(h, rows, told)
      BY <1>2, <1>6, <2>2, CveRowsFit DEF Onward
    <3>2. /\ IsTable(cve)' /\ IsTable(source)'
          /\ cve'[h] = rows /\ source'[h] = told
          /\ \A k \in Hosts \ {h} : cve'[k] = cve[k] /\ source'[k] = source[k]
      BY <1>2, <2>2 DEF CvesFit, IsTable
    <3>3. ASSUME NEW k \in Hosts
          PROVE  CveFits(k, cve[k], source[k])'
      <4>1. PICK c, s : c = cve'[k] /\ s = source'[k]
        OBVIOUS
      <4>2. CveFits(k, c, s)
        BY <3>1, <3>2, <4>1 DEF CvesFit
      <4> QED
        BY <1>3, <4>1, <4>2 DEF CveFits, Written
    <3> QED
      BY <3>2, <3>3 DEF CvesFit
  <2> QED
    BY <2>1, <2>2
<1> QED
  BY <1>3, <1>6, <1>7, PortsKept, AccountsKept, ChecksKept, ModulesKept, ImagesKept

LEMMA ScanVulnerabilitiesFailsKeepsInv ==
  ASSUME FindingsInv, NEW h \in Hosts, ScanVulnerabilitiesFails(h)
  PROVE  FindingsInv'
<1> USE DEF FindingsInv
<1>1. eol' \in [Hosts -> BOOLEAN]
  BY NoteEolProperties DEF ScanVulnerabilitiesFails
<1>2. /\ CountScan /\ now' = now /\ hosts' = hosts /\ cve' = cve
      /\ source' = source /\ exposure' = exposure /\ sca' = sca
      /\ users' = users /\ coverage' = coverage /\ containers' = containers
  BY DEF ScanVulnerabilitiesFails, tables
<1>3. kev' \in {Unread, KevFeed, {}}
  BY DEF ScanVulnerabilitiesFails, KevLists, ColumnsFit
<1>4. Onward /\ ColumnsFit'
  BY <1>1, <1>2, <1>3, ScanIsOnward DEF ColumnsFit
<1> QED
  BY <1>2, <1>4, CvesKept, PortsKept, AccountsKept, ChecksKept, ModulesKept, ImagesKept

LEMMA ScanExposureKeepsInv ==
  ASSUME FindingsInv, NEW h \in Hosts, ScanExposure(h)
  PROVE  FindingsInv'
<1> USE DEF FindingsInv
<1>1. PICK ports \in Listening : exposure' = [exposure EXCEPT ![h] = ExposureRows(ports)]
  BY DEF ScanExposure
<1>2. PICK rows : rows = ExposureRows(ports) /\ exposure' = [exposure EXCEPT ![h] = rows]
  BY <1>1
<1>3. /\ CountScan /\ h \in hosts /\ now' = now /\ hosts' = hosts /\ eol' = eol /\ kev' = kev
      /\ cve' = cve /\ source' = source /\ sca' = sca /\ users' = users
      /\ coverage' = coverage /\ containers' = containers
  BY DEF ScanExposure
<1>4. Onward /\ ColumnsFit'
  BY <1>3, ScanIsOnward DEF ColumnsFit
<1>5. ExposureFits(h, rows)
  BY <1>2, <1>3, <1>4, ExposureRowsFit, FindingsAssumption DEF Onward
<1>6. PortsFit'
  <2>1. /\ IsTable(exposure)' /\ exposure'[h] = rows
        /\ \A k \in Hosts \ {h} : exposure'[k] = exposure[k]
    BY <1>2 DEF PortsFit, IsTable
  <2>2. \A k \in Hosts : ExposureFits(k, exposure[k])'
    BY <1>3, <1>5, <2>1 DEF PortsFit, ExposureFits, Written
  <2> QED
    BY <2>1, <2>2 DEF PortsFit
<1> QED
  BY <1>3, <1>4, <1>6, CvesKept, AccountsKept, ChecksKept, ModulesKept, ImagesKept

LEMMA ScanScaKeepsInv ==
  ASSUME FindingsInv, NEW h \in Hosts, ScanSca(h)
  PROVE  FindingsInv'
<1> USE DEF FindingsInv
<1>1. PICK readable \in SUBSET Policies : \E report \in [readable -> Checks] :
        sca' = [sca EXCEPT ![h] = ScaRows(report)]
  BY DEF ScanSca
<1>2. PICK report \in [readable -> Checks] : sca' = [sca EXCEPT ![h] = ScaRows(report)]
  BY <1>1
<1>3. PICK rows : rows = ScaRows(report) /\ sca' = [sca EXCEPT ![h] = rows]
  BY <1>2
<1>4. IsFiniteSet(DOMAIN report) /\ \A p \in DOMAIN report : IsFiniteSet(report[p])
  <2>1. DOMAIN report \subseteq Policies /\ \A p \in DOMAIN report : report[p] \in Checks
    OBVIOUS
  <2>2. IsFiniteSet(Policies)
    BY FindingsAssumption
  <2>3. IsFiniteSet(DOMAIN report)
    BY <2>1, <2>2, FS_Subset
  <2> QED
    BY <2>1, <2>3, AnswersAreFinite
<1>5. /\ CountScan /\ h \in hosts /\ now' = now /\ hosts' = hosts /\ eol' = eol /\ kev' = kev
      /\ cve' = cve /\ source' = source /\ exposure' = exposure /\ users' = users
      /\ coverage' = coverage /\ containers' = containers
  BY DEF ScanSca
<1>6. Onward /\ ColumnsFit'
  BY <1>5, ScanIsOnward DEF ColumnsFit
<1>7. Written(h, rows) /\ AtOnce(rows)
  BY <1>3, <1>5, <1>6, <1>4, ScaRowsFit DEF Onward
<1>8. ChecksFit'
  <2>1. /\ IsTable(sca)' /\ sca'[h] = rows
        /\ \A k \in Hosts \ {h} : sca'[k] = sca[k]
    BY <1>3 DEF ChecksFit, IsTable
  <2>2. \A k \in Hosts : Written(k, sca[k])' /\ AtOnce(sca[k])'
    BY <1>5, <1>7, <2>1 DEF ChecksFit, Written, AtOnce
  <2> QED
    BY <2>1, <2>2 DEF ChecksFit
<1> QED
  BY <1>5, <1>6, <1>8, CvesKept, PortsKept, AccountsKept, ModulesKept, ImagesKept

LEMMA ScanUsersKeepsInv ==
  ASSUME FindingsInv, NEW h \in Hosts, ScanUsers(h)
  PROVE  FindingsInv'
<1> USE DEF FindingsInv
<1>1. PICK accounts \in Accounts :
        /\ Accepted(h, UserRows(accounts), LAMBDA r : r.name)
        /\ users' = [users EXCEPT ![h] = UserRows(accounts)]
  BY DEF ScanUsers
<1>2. /\ CountScan /\ now' = now /\ hosts' = hosts /\ eol' = eol /\ kev' = kev
      /\ cve' = cve /\ source' = source /\ exposure' = exposure /\ sca' = sca
      /\ coverage' = coverage /\ containers' = containers
  BY DEF ScanUsers
<1>3. Onward /\ ColumnsFit'
  BY <1>2, ScanIsOnward DEF ColumnsFit
<1>4. PICK rows : rows = UserRows(accounts)
  OBVIOUS
<1>5. UsersFit(h, rows)
  <2>1. IsFiniteSet(accounts)
    BY AnswersAreFinite
  <2> QED
    BY <1>1, <1>3, <1>4, <2>1, UserRowsFit DEF Onward
<1>6. AccountsFit'
  <2>1. /\ IsTable(users)' /\ users'[h] = rows
        /\ \A k \in Hosts \ {h} : users'[k] = users[k]
    BY <1>1, <1>4 DEF AccountsFit, IsTable
  <2>2. \A k \in Hosts : UsersFit(k, users[k])'
    BY <1>2, <1>5, <2>1 DEF AccountsFit, UsersFit, Written, AtOnce, DistinctOn
  <2> QED
    BY <2>1, <2>2 DEF AccountsFit
<1> QED
  BY <1>2, <1>3, <1>6, CvesKept, PortsKept, ChecksKept, ModulesKept, ImagesKept

LEMMA ScanDetectionKeepsInv ==
  ASSUME FindingsInv, NEW h \in Hosts, ScanDetection(h)
  PROVE  FindingsInv'
<1> USE DEF FindingsInv
<1>1. PICK results, events, rows :
        rows = {CoverageRow(results, events)} /\ coverage' = [coverage EXCEPT ![h] = rows]
  BY DEF ScanDetection
<1>2. /\ CountScan /\ h \in hosts /\ now' = now /\ hosts' = hosts /\ eol' = eol /\ kev' = kev
      /\ cve' = cve /\ source' = source /\ exposure' = exposure /\ sca' = sca
      /\ users' = users /\ containers' = containers
  BY DEF ScanDetection
<1>3. Onward /\ ColumnsFit'
  BY <1>2, ScanIsOnward DEF ColumnsFit
<1>4. CoverageFits(h, rows)
  BY <1>1, <1>2, <1>3, CoverageRowFits DEF Onward
<1>5. ModulesFit'
  <2>1. /\ IsTable(coverage)' /\ coverage'[h] = rows
        /\ \A k \in Hosts \ {h} : coverage'[k] = coverage[k]
    BY <1>1 DEF ModulesFit, IsTable
  <2>2. \A k \in Hosts : CoverageFits(k, coverage[k])'
    BY <1>2, <1>4, <2>1 DEF ModulesFit, CoverageFits, Written, AtOnce
  <2> QED
    BY <2>1, <2>2 DEF ModulesFit
<1> QED
  BY <1>2, <1>3, <1>5, CvesKept, PortsKept, AccountsKept, ChecksKept, ImagesKept

LEMMA ScanContainersKeepsInv ==
  ASSUME FindingsInv, NEW h \in Hosts, ScanContainers(h)
  PROVE  FindingsInv'
<1> USE DEF FindingsInv
<1>1. PICK running \in RunningSets : \E scanned \in SUBSET running :
        \E found \in [scanned -> ImageCves] :
          containers' = [containers EXCEPT ![h] =
            {r \in @ : r.image \notin scanned}
            \cup UNION {ImageRows(i, found[i]) : i \in scanned}]
  BY DEF ScanContainers
<1>2. PICK scanned \in SUBSET running : \E found \in [scanned -> ImageCves] :
        containers' = [containers EXCEPT ![h] =
          {r \in @ : r.image \notin scanned}
          \cup UNION {ImageRows(i, found[i]) : i \in scanned}]
  BY <1>1
<1>3. PICK found \in [scanned -> ImageCves] :
        containers' = [containers EXCEPT ![h] =
          {r \in @ : r.image \notin scanned}
          \cup UNION {ImageRows(i, found[i]) : i \in scanned}]
  BY <1>2
<1>4. PICK rows :
        /\ rows = {r \in containers[h] : r.image \notin scanned}
                  \cup UNION {ImageRows(i, found[i]) : i \in scanned}
        /\ containers' = [containers EXCEPT ![h] = rows]
  BY <1>3
<1>5. /\ CountScan /\ h \in hosts /\ now' = now /\ hosts' = hosts /\ eol' = eol /\ kev' = kev
      /\ cve' = cve /\ source' = source /\ exposure' = exposure /\ sca' = sca
      /\ users' = users /\ coverage' = coverage
  BY DEF ScanContainers
<1>6. Onward /\ ColumnsFit'
  BY <1>5, ScanIsOnward DEF ColumnsFit
<1>7. ContainersFit(h, rows)
  <2> DEFINE Of(i) == ImageRows(i, found[i])
  <2>1. IsFiniteSet(scanned) /\ scanned \subseteq UNION ImageSets
    <3>1. running \in ImageSets \/ running = {}
      BY DEF RunningSets
    <3>2. IsFiniteSet(running)
      BY <3>1, AnswersAreFinite, FS_EmptySet
    <3> QED
      BY <3>1, <3>2, FS_Subset
  <2>2. \A i \in scanned : ContainersFit(h, Of(i))
    BY <1>5, <1>6, <2>1, ImageRowsFit DEF Onward
  <2>3. ContainersFit(h, containers[h])
    BY DEF ImagesFit
  <2>4. IsFiniteSet(UNION {Of(i) : i \in scanned})
    <3>1. PICK f : f = [i \in scanned |-> Of(i)]
      OBVIOUS
    <3>2. {Of(i) : i \in scanned} \subseteq {f[i] : i \in scanned}
      BY <3>1
    <3>3. \A i \in scanned : IsFiniteSet(Of(i))
      BY <2>2 DEF ContainersFit, Written
    <3> HIDE DEF Of
    <3>4. IsFiniteSet({Of(i) : i \in scanned})
      BY <2>1, <3>2, ImageIsFinite
    <3> QED
      BY <3>3, <3>4, FS_UNION
  <2>5. IsFiniteSet({r \in containers[h] : r.image \notin scanned})
    BY <2>3, FS_Subset DEF ContainersFit, Written
  <2>6. IsFiniteSet(rows)
    BY <1>4, <2>4, <2>5, FS_Union
  <2>7. \A r \in rows : r \in containers[h] \/ \E i \in scanned : r \in Of(i)
    BY <1>4
  <2> HIDE DEF Of
  <2>8. \A r \in rows :
          r.at \in 0..now /\ r.image \in UNION ImageSets /\ r.severity \in Severities
    BY <2>2, <2>3, <2>7 DEF ContainersFit, Written
  <2> QED
    BY <1>5, <2>6, <2>8 DEF ContainersFit, Written
<1>8. ImagesFit'
  <2>1. /\ IsTable(containers)' /\ containers'[h] = rows
        /\ \A k \in Hosts \ {h} : containers'[k] = containers[k]
    BY <1>4 DEF ImagesFit, IsTable
  <2>2. \A k \in Hosts : ContainersFit(k, containers[k])'
    BY <1>5, <1>7, <2>1 DEF ImagesFit, ContainersFit, Written
  <2> QED
    BY <2>1, <2>2 DEF ImagesFit
<1> QED
  BY <1>5, <1>6, <1>8, CvesKept, PortsKept, AccountsKept, ChecksKept, ModulesKept

\* The steps that scan nothing.
LEMMA OtherStepsKeepInv ==
  ASSUME FindingsInv, SyncHosts \/ RestartServer \/ TimePasses \/ UNCHANGED findVars
  PROVE  FindingsInv'
<1> USE DEF FindingsInv
<1>1. /\ cve' = cve /\ source' = source /\ exposure' = exposure /\ sca' = sca
      /\ users' = users /\ coverage' = coverage /\ containers' = containers
      /\ eol' = eol /\ scans' = scans
  BY DEF SyncHosts, RestartServer, TimePasses, findVars, tables
<1>2. Onward /\ hosts' \subseteq Hosts /\ now' \in 0..MaxTime
  BY BoundProperties DEF SyncHosts, RestartServer, TimePasses, findVars, ColumnsFit, Onward
<1>3. kev' \in {Unread, KevFeed, {}}
  BY DEF SyncHosts, RestartServer, TimePasses, findVars, ColumnsFit
<1>4. ColumnsFit'
  BY <1>1, <1>2, <1>3 DEF ColumnsFit
<1> QED
  BY <1>1, <1>2, <1>4, CvesKept, PortsKept, AccountsKept, ChecksKept, ModulesKept, ImagesKept

LEMMA FindInitInv == FindInit => FindingsInv
<1> SUFFICES ASSUME FindInit
             PROVE  FindingsInv
  OBVIOUS
<1>1. CASE EmptyTables
  <2>1. ColumnsFit
    BY <1>1, BoundProperties DEF FindInit, EmptyTables, ColumnsFit
  <2>2. CvesFit
    <3>1. \A h \in Hosts : cve[h] = {} /\ source[h].packages = << >>
      BY <1>1 DEF EmptyTables
    <3>2. \A h \in Hosts : Answers(source[h].packages) = {}
      BY <3>1 DEF Answers
    <3>3. IsTable(cve) /\ IsTable(source)
      BY <1>1 DEF EmptyTables, IsTable
    <3> QED
      BY <3>1, <3>2, <3>3, FS_EmptySet
      DEF CvesFit, CveFits, Written, AtOnce, DistinctOn, AnswersAreListed
  <2>3. PortsFit /\ ChecksFit /\ ModulesFit /\ ImagesFit
    BY <1>1, FS_EmptySet
    DEF EmptyTables, PortsFit, ChecksFit, ModulesFit, ImagesFit, IsTable,
        ExposureFits, CoverageFits, ContainersFit, Written, AtOnce
  <2>4. AccountsFit
    BY <1>1, FS_EmptySet DEF EmptyTables, AccountsFit, IsTable, UsersFit, Written, AtOnce, DistinctOn
  <2> QED
    BY <2>1, <2>2, <2>3, <2>4 DEF FindingsInv
<1>2. CASE ScannedTables
  <2>1. ColumnsFit /\ now \in Nat /\ hosts = Hosts
    BY <1>2, BoundProperties DEF FindInit, ScannedTables, ColumnsFit
  <2>2. CvesFit
    <3>1. PICK packages \in FirstScan :
            /\ source = [h \in Hosts |->
                 [packages |-> packages, ecosystem |-> OsOf(h), unread |-> {}]]
            /\ cve = [h \in Hosts |-> CveRows(source[h], {}, {}, FALSE, FALSE, FALSE)]
            /\ \A h \in Hosts : Accepted(h, cve[h], CveKey)
      BY <1>2 DEF ScannedTables
    <3>2. ASSUME NEW h \in Hosts
          PROVE  CveFits(h, cve[h], source[h])
      <4>1. PICK told, rows : told = source[h] /\ rows = cve[h]
        OBVIOUS
      <4>2. /\ told.packages = packages /\ told.ecosystem = Ecosystem(h, TRUE)
            /\ rows = CveRows(told, {}, {}, FALSE, FALSE, FALSE)
            /\ Accepted(h, rows, CveKey)
        BY <3>1, <4>1 DEF Ecosystem
      <4>3. packages \in Software /\ h \in hosts
        BY <2>1, FindingsAssumption
      <4>4. CveFits(h, rows, told)
        BY <2>1, <4>2, <4>3, CveRowsFit
      <4> QED
        BY <4>1, <4>4
    <3>3. IsTable(cve) /\ IsTable(source)
      BY <3>1 DEF IsTable
    <3> QED
      BY <3>2, <3>3 DEF CvesFit
  <2>3. PortsFit
    <3>1. exposure = [h \in Hosts |-> ExposureRows({})]
      BY <1>2 DEF ScannedTables
    <3>2. \A h \in Hosts : ExposureFits(h, ExposureRows({}))
      BY <2>1, ExposureRowsFit, FS_EmptySet
    <3> QED
      BY <3>1, <3>2 DEF PortsFit, IsTable
  <2>4. AccountsFit
    <3>1. users = [h \in Hosts |-> UserRows({})]
      BY <1>2 DEF ScannedTables
    <3>2. UserRows({}) = {[name |-> "_none_", uid |-> 0, risk |-> "info", at |-> now]}
      BY DEF UserRows, OrPlaceholder, Normalized
    <3>3. \A h \in Hosts : Accepted(h, UserRows({}), LAMBDA r : r.name)
      BY <2>1, <3>2 DEF Accepted, DistinctOn
    <3>4. \A h \in Hosts : UsersFit(h, UserRows({}))
      BY <2>1, <3>3, UserRowsFit, FS_EmptySet
    <3> QED
      BY <3>1, <3>4 DEF AccountsFit, IsTable
  <2>5. ChecksFit /\ ModulesFit
    <3>1. /\ sca = [h \in Hosts |-> ScaRows(<< >>)]
          /\ coverage = [h \in Hosts |-> {CoverageRow({}, {})}]
      BY <1>2 DEF ScannedTables
    <3>2. \A h \in Hosts :
            /\ Written(h, ScaRows(<< >>)) /\ AtOnce(ScaRows(<< >>))
            /\ CoverageFits(h, {CoverageRow({}, {})})
      <4>1. DOMAIN << >> = {}
        OBVIOUS
      <4> QED
        BY <2>1, <4>1, ScaRowsFit, CoverageRowFits, FS_EmptySet
    <3> QED
      BY <3>1, <3>2 DEF ChecksFit, ModulesFit, IsTable
  <2>6. ImagesFit
    <3>1. PICK image \in UNION ImageSets, found \in ImageCves :
            containers = [h \in Hosts |-> ImageRows(image, found)]
      BY <1>2 DEF ScannedTables
    <3>2. \A h \in Hosts : ContainersFit(h, ImageRows(image, found))
      BY <2>1, ImageRowsFit
    <3> QED
      BY <3>1, <3>2 DEF ImagesFit, IsTable
  <2> QED
    BY <2>1, <2>2, <2>3, <2>4, <2>5, <2>6 DEF FindingsInv
<1> QED
  BY <1>1, <1>2 DEF FindInit

-----------------------------------------------------------------------------
(***************************************************************************)
(* What follows from the invariant.                                        *)
(***************************************************************************)
\* The last scan of rows written at once is when each of them was written.
LEMMA LastScanOfRows ==
  ASSUME NEW rows, NEW r \in rows, r.at \in Int, AtOnce(rows)
  PROVE  LastScan(rows) = r.at
<1>1. {t.at : t \in rows} = {r.at}
  BY DEF AtOnce
<1>2. Max({r.at}) = r.at
  BY DEF Max
<1> QED
  BY <1>1, <1>2 DEF LastScan

LEMMA FreshFromInv == FindingsInv => FreshIsRecent
<1> SUFFICES ASSUME FindingsInv, NEW h \in Hosts, NEW rows \in TablesOf(h) \ {containers[h]},
                    Status(rows) = "fresh", NEW r \in rows
             PROVE  now - r.at <= StaleHours
  BY DEF FreshIsRecent
<1> USE DEF FindingsInv
<1>1. /\ now \in Nat
      /\ Written(h, cve[h]) /\ AtOnce(cve[h])
      /\ Written(h, exposure[h]) /\ AtOnce(exposure[h])
      /\ Written(h, users[h]) /\ AtOnce(users[h])
      /\ Written(h, sca[h]) /\ AtOnce(sca[h])
      /\ Written(h, coverage[h]) /\ AtOnce(coverage[h])
  <2>1. now \in Nat
    BY BoundProperties DEF ColumnsFit
  <2>2. Written(h, cve[h]) /\ AtOnce(cve[h])
    BY DEF CvesFit, CveFits
  <2>3. Written(h, exposure[h]) /\ AtOnce(exposure[h])
    BY DEF PortsFit, ExposureFits
  <2>4. Written(h, users[h]) /\ AtOnce(users[h])
    BY DEF AccountsFit, UsersFit
  <2>5. Written(h, sca[h]) /\ AtOnce(sca[h])
    BY DEF ChecksFit
  <2>6. Written(h, coverage[h]) /\ AtOnce(coverage[h])
    BY DEF ModulesFit, CoverageFits
  <2> QED
    BY <2>1, <2>2, <2>3, <2>4, <2>5, <2>6
<1>2. Written(h, rows) /\ AtOnce(rows)
  BY <1>1 DEF TablesOf
<1>3. r.at \in Int
  BY <1>2 DEF Written
<1>4. ~(now - LastScan(rows) > StaleHours)
  BY DEF Status
<1> QED
  BY <1>1, <1>3, <1>4, <1>2, LastScanOfRows, BoundProperties

\* A package is answered for by its own answer where all have been asked about.
LEMMA OwnAnswers ==
  ASSUME NEW packages, Len(packages) \in Nat, NEW i \in 1..Len(packages),
         \A k \in 1..Len(packages) : packages[k].named
  PROVE  <<packages[i], packages[i]>> \in Answers(packages)
<1>1. {k \in 1..i : packages[k].named} = 1..i
  OBVIOUS
<1>2. Cardinality(1..i) = i
  BY FS_Interval
<1>3. Asked(packages, i, i)
  BY <1>1, <1>2 DEF Asked
<1> QED
  BY <1>3 DEF Answers

LEMMA UrgentFromInv == FindingsInv => UrgentIsListed
<1> SUFFICES ASSUME FindingsInv, NEW h \in Hosts, NEW told, NEW packages,
                    told = source[h], packages = told.packages,
                    \A k \in 1..Len(packages) : packages[k].named,
                    told.ecosystem = OsOf(h),
                    NEW i \in 1..Len(packages), NEW v \in VulnsOf(packages[i], OsOf(h)),
                    ~v.patched, v.id \notin told.unread,
                    \/ Severity(v) \in {"critical", "high"} /\ ~packages[i].meta
                    \/ \E r \in cve[h] : CveKey(r) = <<packages[i].name, v.cve>> /\ r.kev
             PROVE  \E r \in cve[h] : CveKey(r) = <<packages[i].name, v.cve>> /\ r.actionable
  BY DEF UrgentIsListed
<1>1. CveFits(h, cve[h], told)
  BY DEF FindingsInv, CvesFit
<1>2. CASE \E r \in cve[h] : CveKey(r) = <<packages[i].name, v.cve>> /\ r.kev
  BY <1>1, <1>2 DEF CveFits
<1>3. CASE Severity(v) \in {"critical", "high"} /\ ~packages[i].meta
  <2>1. Len(packages) \in Nat
    BY <1>1, FindingsAssumption DEF CveFits
  <2>2. PICK pair : pair = <<packages[i], packages[i]>> /\ pair \in Answers(packages)
    BY <2>1, OwnAnswers
  <2>3. v \in Unpatched(pair[2], told)
    BY <2>2 DEF Unpatched, Detail
  <2>4. PICK r \in cve[h] :
          /\ CveKey(r) = <<pair[1].name, v.cve>>
          /\ Severity(v) \in {"critical", "high"} /\ ~pair[1].meta => r.actionable
    BY <1>1, <2>2, <2>3 DEF CveFits, AnswersAreListed
  <2> QED
    BY <1>3, <2>2, <2>4
<1> QED
  BY <1>2, <1>3

LEMMA WiderFromInv == FindingsInv => WiderIsRiskier
<1> SUFFICES ASSUME FindingsInv, NEW h \in Hosts, NEW r \in exposure[h], NEW s \in exposure[h],
                    r.port = s.port
             PROVE  /\ r.scope = "localhost" => RiskRank(r.risk) <= RiskRank(s.risk)
                    /\ r.scope = "all_interfaces" => RiskRank(r.risk) >= RiskRank(s.risk)
  BY DEF WiderIsRiskier
<1>1. /\ r.scope \in Scopes /\ r.risk = ScorePort(r.port, r.scope)
      /\ s.scope \in Scopes /\ s.risk = ScorePort(r.port, s.scope)
  BY DEF FindingsInv, PortsFit, ExposureFits
<1>2. \A risk \in Risks : RiskRank(risk) \in 0..4
  BY DEF RiskRank, Risks
<1>3. PICK base, a, b \in Risks :
        base = BaseRisk(r.port) /\ a = r.risk /\ b = s.risk
  BY <1>1, RiskProperties
<1>4. /\ r.scope = "localhost" => RiskRank(a) <= RiskRank(base)
      /\ r.scope = "all_interfaces" => RiskRank(a) >= RiskRank(base)
      /\ r.scope = "specific" => a = base
      /\ s.scope = "localhost" => RiskRank(b) <= RiskRank(base)
      /\ s.scope = "all_interfaces" => RiskRank(b) >= RiskRank(base)
      /\ s.scope = "specific" => b = base
  BY <1>1, <1>3, RiskProperties
<1>5. r.scope = s.scope => a = b
  BY <1>1, <1>3
<1> QED
  BY <1>1, <1>2, <1>3, <1>4, <1>5 DEF Scopes

LEMMA TypeFromInv == FindingsInv => FindingsTypeOK
<1> SUFFICES ASSUME FindingsInv
             PROVE  FindingsTypeOK
  OBVIOUS
<1> USE DEF FindingsInv
<1>1. ASSUME NEW h \in Hosts, NEW rows \in TablesOf(h)
      PROVE  rows # {} => h \in hosts
  <2>1. Written(h, cve[h]) /\ Written(h, exposure[h])
    BY DEF CvesFit, CveFits, PortsFit, ExposureFits
  <2>2. Written(h, users[h]) /\ Written(h, sca[h])
    BY DEF AccountsFit, UsersFit, ChecksFit
  <2>3. Written(h, coverage[h]) /\ Written(h, containers[h])
    BY DEF ModulesFit, CoverageFits, ImagesFit, ContainersFit
  <2>4. Written(h, rows)
    BY <2>1, <2>2, <2>3 DEF TablesOf
  <2> QED
    BY <2>4 DEF Written
<1>2. \A h \in Hosts :
        /\ DistinctOn(cve[h], CveKey)
        /\ \A r \in cve[h] : r.severity \in Severities /\ r.at \in 0..now
        /\ source[h].packages \in Software \cup {<< >>}
  BY DEF CvesFit, CveFits, Written
<1>3. \A h \in Hosts : \A r \in exposure[h] : r.risk \in Risks /\ r.at \in 0..now
  BY DEF PortsFit, ExposureFits, Written
<1>4. \A h \in Hosts :
        /\ DistinctOn(users[h], LAMBDA r : r.name)
        /\ \A r \in users[h] : r.risk \in Risks /\ r.at \in 0..now
  BY DEF AccountsFit, UsersFit, Written, Risks
<1> QED
  BY <1>1, <1>2, <1>3, <1>4 DEF FindingsTypeOK, ColumnsFit

-----------------------------------------------------------------------------
(***************************************************************************)
(* The views.  A host and a value make one group of a view of the fleet,   *)
(* or none; so its entry is the sum over a set of one element or none.     *)
(***************************************************************************)
LEMMA SumOfNone == SumSet({}) = 0
<1> DEFINE Sum(s, sums) ==
             IF s = {} THEN 0 ELSE LET x == CHOOSE x \in s : TRUE IN x + sums[s \ {x}]
<1>1. \E sums : sums = [s \in SUBSET {} |-> Sum(s, sums)]
  <2>1. [s \in SUBSET {} |-> 0] = [s \in SUBSET {} |-> Sum(s, [t \in SUBSET {} |-> 0])]
    OBVIOUS
  <2> QED
    BY <2>1
<1> QED
  BY <1>1 DEF SumSet, FoldSet, MapThenFoldSet

LEMMA SumOfOne ==
  ASSUME NEW n \in Int
  PROVE  SumSet({n}) = n
<1> DEFINE Sum(s, sums) ==
             IF s = {} THEN 0 ELSE LET x == CHOOSE x \in s : TRUE IN x + sums[s \ {x}]
           Known == [s \in SUBSET {n} |-> IF s = {} THEN 0 ELSE n]
           Summed == CHOOSE sums : sums = [s \in SUBSET {n} |-> Sum(s, sums)]
<1>1. \A s \in SUBSET {n} :
        s # {} => s = {n} /\ (CHOOSE x \in s : TRUE) = n /\ s \ {n} = {}
  OBVIOUS
<1>2. Known = [s \in SUBSET {n} |-> Sum(s, Known)]
  BY <1>1
<1>3. Summed = [s \in SUBSET {n} |-> Sum(s, Summed)]
  BY <1>2
<1>4. Summed[{n}] = n
  <2>1. PICK f : f = Summed /\ f = [s \in SUBSET {n} |-> Sum(s, f)]
    BY <1>3
  <2>2. f[{}] = 0
    BY <2>1
  <2>3. f[{n}] = Sum({n}, f)
    BY <2>1
  <2>4. Sum({n}, f) = n + f[{}]
    BY <1>1
  <2> QED
    BY <2>1, <2>2, <2>3, <2>4
<1> QED
  BY <1>4 DEF SumSet, FoldSet, MapThenFoldSet

\* An entry is the count of its one group, or 0.
LEMMA EntryOfGroup ==
  ASSUME NEW groups, NEW h, NEW v, NEW n \in Nat,
         \A g \in groups : g.host = h /\ g.value = v => g.count = n,
         (\A g \in groups : ~(g.host = h /\ g.value = v)) => n = 0
  PROVE  EntryCount(groups, h, v) = n
<1> DEFINE its == {g \in groups : g.host = h /\ g.value = v}
<1>1. CASE its = {}
  <2>1. {g.count : g \in its} = {} /\ n = 0
    BY <1>1
  <2> QED
    BY <2>1, SumOfNone DEF EntryCount
<1>2. CASE its # {}
  <2>1. {g.count : g \in its} = {n}
    BY <1>2
  <2> QED
    BY <2>1, SumOfOne DEF EntryCount
<1> QED
  BY <1>1, <1>2

\* Counting finitely many.
LEMMA CountProperties ==
  ASSUME NEW rows, IsFiniteSet(rows), NEW part, part \subseteq rows
  PROVE  /\ Cardinality(part) \in Nat
         /\ Cardinality(part) <= Cardinality(rows)
         /\ Cardinality(part) = 0 <=> part = {}
         /\ IsFiniteSet(part)
<1>1. IsFiniteSet(part) /\ Cardinality(part) <= Cardinality(rows)
  BY FS_Subset
<1> QED
  BY <1>1, FS_CardinalityType, FS_EmptySet

\* What is counted is finite.
LEMMA FiniteFromInv ==
  ASSUME FindingsInv, NEW h \in Hosts
  PROVE  /\ IsFiniteSet(cve[h]) /\ IsFiniteSet(exposure[h]) /\ IsFiniteSet(sca[h])
         /\ IsFiniteSet(users[h]) /\ IsFiniteSet(containers[h])
<1> USE DEF FindingsInv
<1>1. Written(h, cve[h])
  BY DEF CvesFit, CveFits
<1>2. Written(h, exposure[h])
  BY DEF PortsFit, ExposureFits
<1>3. Written(h, sca[h])
  BY DEF ChecksFit
<1>4. Written(h, users[h])
  BY DEF AccountsFit, UsersFit
<1>5. Written(h, containers[h])
  BY DEF ImagesFit, ContainersFit
<1> QED
  BY <1>1, <1>2, <1>3, <1>4, <1>5 DEF Written

\* The groups of the views of the fleet: of CVEs, ports and checks.
CveGroup(k, v) ==
  [host |-> k, value |-> v,
   count |-> Cardinality({r \in cve[k] : r.severity = v /\ r.actionable}),
   at |-> LastScan({r \in cve[k] : r.severity = v})]

LEMMA FleetCveGroups ==
  /\ \A g \in FleetCve : \E k \in hosts : \E r \in cve[k] : g = CveGroup(k, r.severity)
  /\ \A k \in hosts : \A r \in cve[k] : CveGroup(k, r.severity) \in FleetCve
<1>1. FleetCve = UNION {{CveGroup(k, v) : v \in {r.severity : r \in cve[k]}} : k \in hosts}
  BY DEF FleetCve, Groups, CveGroup
<1> QED
  BY <1>1

OpenPorts == [h \in Hosts |-> {r \in exposure[h] : r.port > 0}]

PortGroup(k, v) ==
  [host |-> k, value |-> v,
   count |-> Cardinality({r \in OpenPorts[k] : r.risk = v /\ TRUE}),
   at |-> LastScan({r \in OpenPorts[k] : r.risk = v})]

LEMMA FleetExposureGroups ==
  /\ \A g \in FleetExposure :
       \E k \in hosts : \E r \in OpenPorts[k] : g = PortGroup(k, r.risk)
  /\ \A k \in hosts : \A r \in OpenPorts[k] : PortGroup(k, r.risk) \in FleetExposure
<1>1. FleetExposure =
        UNION {{PortGroup(k, v) : v \in {r.risk : r \in OpenPorts[k]}} : k \in hosts}
  BY DEF FleetExposure, Groups, PortGroup, OpenPorts
<1> QED
  BY <1>1

RealChecks == [h \in Hosts |-> {r \in sca[h] : r.check # "none"}]

CheckGroup(k, v) ==
  [host |-> k, value |-> v,
   count |-> Cardinality({r \in RealChecks[k] : r.result = v /\ TRUE}),
   at |-> LastScan({r \in RealChecks[k] : r.result = v})]

LEMMA FleetScaGroups ==
  /\ \A g \in FleetSca :
       \E k \in hosts : \E r \in RealChecks[k] : g = CheckGroup(k, r.result)
  /\ \A k \in hosts : \A r \in RealChecks[k] : CheckGroup(k, r.result) \in FleetSca
<1>1. FleetSca =
        UNION {{CheckGroup(k, v) : v \in {r.result : r \in RealChecks[k]}} : k \in hosts}
  BY DEF FleetSca, Groups, CheckGroup, RealChecks
<1> QED
  BY <1>1

LEMMA CountsFromInv ==
  ASSUME FindingsInv, NEW h \in hosts
  PROVE  CountsAgree(h)
<1>1. h \in Hosts
  BY DEF FindingsInv, ColumnsFit
<1>2. ASSUME NEW s \in Severities
      PROVE  EntryCount(FleetCve, h, s) = CveCounts(h)[s]
  <2>1. PICK part, n :
          part = {r \in cve[h] : r.severity = s /\ r.actionable} /\ n = Cardinality(part)
    OBVIOUS
  <2>2. n \in Nat /\ (n = 0 <=> part = {})
    BY <1>1, <2>1, FiniteFromInv, CountProperties
  <2>3. CveCounts(h)[s] = n
    <3>1. {r \in {r \in cve[h] : r.actionable} : r.severity = s} = part
      BY <2>1
    <3> QED
      BY <2>1, <3>1 DEF CveCounts, CountBy
  <2>4. \A k, v : CveGroup(k, v).host = k /\ CveGroup(k, v).value = v
    BY DEF CveGroup
  <2>5. CveGroup(h, s).count = n
    BY <2>1 DEF CveGroup
  <2>6. \A g \in FleetCve : g.host = h /\ g.value = s => g.count = n
    BY <2>4, <2>5, FleetCveGroups
  <2>7. part # {} => \E g \in FleetCve : g.host = h /\ g.value = s
    BY <2>1, <2>4, FleetCveGroups
  <2> QED
    BY <2>2, <2>3, <2>6, <2>7, EntryOfGroup
<1>3. ASSUME NEW s \in Risks
      PROVE  EntryCount(FleetExposure, h, s) = ExposureCounts(h)[s]
  <2>1. PICK part, n :
          part = {r \in {r \in exposure[h] : r.port > 0} : r.risk = s} /\ n = Cardinality(part)
    OBVIOUS
  <2>2. n \in Nat /\ (n = 0 <=> part = {})
    BY <1>1, <2>1, FiniteFromInv, CountProperties
  <2>3. ExposureCounts(h)[s] = n
    BY <2>1 DEF ExposureCounts, CountBy
  <2>4. \A k, v : PortGroup(k, v).host = k /\ PortGroup(k, v).value = v
    BY DEF PortGroup
  <2>5. PortGroup(h, s).count = n
    <3>1. {r \in OpenPorts[h] : r.risk = s /\ TRUE} = part
      BY <1>1, <2>1 DEF OpenPorts
    <3> QED
      BY <2>1, <3>1 DEF PortGroup
  <2>6. \A g \in FleetExposure : g.host = h /\ g.value = s => g.count = n
    BY <2>4, <2>5, FleetExposureGroups
  <2>7. part # {} => \E g \in FleetExposure : g.host = h /\ g.value = s
    <3>1. \A r \in part : r \in OpenPorts[h] /\ r.risk = s
      BY <1>1, <2>1 DEF OpenPorts
    <3> QED
      BY <2>4, <3>1, FleetExposureGroups
  <2> QED
    BY <2>2, <2>3, <2>6, <2>7, EntryOfGroup
<1>4. ASSUME NEW s \in Results
      PROVE  EntryCount(FleetSca, h, s) = ScaCounts(h)[s]
  <2>1. PICK part, n :
          part = {r \in {r \in sca[h] : r.check # "none"} : r.result = s} /\ n = Cardinality(part)
    OBVIOUS
  <2>2. n \in Nat /\ (n = 0 <=> part = {})
    BY <1>1, <2>1, FiniteFromInv, CountProperties
  <2>3. ScaCounts(h)[s] = n
    BY <2>1 DEF ScaCounts, CountBy
  <2>4. \A k, v : CheckGroup(k, v).host = k /\ CheckGroup(k, v).value = v
    BY DEF CheckGroup
  <2>5. CheckGroup(h, s).count = n
    <3>1. {r \in RealChecks[h] : r.result = s /\ TRUE} = part
      BY <1>1, <2>1 DEF RealChecks
    <3> QED
      BY <2>1, <3>1 DEF CheckGroup
  <2>6. \A g \in FleetSca : g.host = h /\ g.value = s => g.count = n
    BY <2>4, <2>5, FleetScaGroups
  <2>7. part # {} => \E g \in FleetSca : g.host = h /\ g.value = s
    <3>1. \A r \in part : r \in RealChecks[h] /\ r.result = s
      BY <1>1, <2>1 DEF RealChecks
    <3> QED
      BY <2>4, <3>1, FleetScaGroups
  <2> QED
    BY <2>2, <2>3, <2>6, <2>7, EntryOfGroup
<1> QED
  BY <1>2, <1>3, <1>4 DEF CountsAgree

LEMMA ScansFromInv ==
  ASSUME FindingsInv, NEW h \in hosts
  PROVE  ScansAgree(h)
<1>1. h \in Hosts
  BY DEF FindingsInv, ColumnsFit
<1>2. \A rows : Status(rows) = "never_scanned" <=> rows = {}
  BY DEF Status
<1>3. NotScanned(FleetCve, h) <=> cve[h] = {}
  <2>1. \A k, v : CveGroup(k, v).host = k
    BY DEF CveGroup
  <2> QED
    BY <2>1, FleetCveGroups DEF NotScanned
<1>4. h \notin NeedRescan => cve[h] # {} /\ coverage[h] # {}
  <2>1. h \notin NeedRescan => "never_scanned" \notin Statuses(h)
    BY DEF NeedRescan, Overall
  <2> QED
    BY <1>2, <2>1 DEF Statuses, TablesOf
<1>5. \A m \in Modules : h \in FleetEnabled(m) <=> m \in DetectionView(h).enabled
  <2>1. \A r, s \in coverage[h] : r = s
    BY <1>1 DEF FindingsInv, ModulesFit, CoverageFits
  <2>2. CASE coverage[h] = {}
    BY <2>2 DEF FleetEnabled, DetectionView
  <2>3. CASE coverage[h] # {}
    <3>1. PICK only \in coverage[h] : only = CHOOSE r \in coverage[h] : TRUE
      BY <2>3
    <3>2. DetectionView(h).enabled = only.enabled
      BY <2>3, <3>1 DEF DetectionView
    <3> QED
      BY <2>1, <3>1, <3>2 DEF FleetEnabled
  <2> QED
    BY <2>2, <2>3
<1> QED
  BY <1>2, <1>3, <1>4, <1>5 DEF ScansAgree

\* A finite set has subsets of every size up to its own.
LEMMA SubsetOfSize ==
  ASSUME NEW S, IsFiniteSet(S), NEW n \in Nat, n <= Cardinality(S)
  PROVE  \E l \in SUBSET S : Cardinality(l) = n
<1>1. Cardinality(S) \in Nat
  BY FS_CardinalityType
<1>2. PICK f : f \in Bijection(1..Cardinality(S), S)
  BY FS_CardinalityType DEF ExistsBijection
<1> DEFINE g == [i \in 1..n |-> f[i]]
           l == {f[i] : i \in 1..n}
<1>3. 1..n \subseteq 1..Cardinality(S)
  BY <1>1
<1>4. /\ \A i \in 1..n : f[i] \in S
      /\ \A i, j \in 1..n : f[i] = f[j] => i = j
  BY <1>2, <1>3 DEF Bijection, Injection, IsInjective, Surjection
<1>5. g \in Bijection(1..n, l)
  BY <1>4 DEF Bijection, Injection, IsInjective, Surjection
<1>6. Cardinality(l) = n
  <2> HIDE DEF g, l
  <2> QED
    BY <1>5, FS_CountingElements DEF ExistsBijection
<1> QED
  BY <1>4, <1>6

LEMMA MinProperties ==
  ASSUME NEW a \in Nat, NEW b \in Nat
  PROVE  /\ Min({a, b}) \in {a, b}
         /\ Min({a, b}) <= a
         /\ Min({a, b}) <= b
<1>1. \E x \in {a, b} : \A y \in {a, b} : x =< y
  BY SMT
<1>2. Min({a, b}) \in {a, b} /\ \A y \in {a, b} : Min({a, b}) =< y
  BY <1>1 DEF Min
<1> QED
  BY <1>2

LEMMA LimitProperties == Limit \in Nat \ {0}
BY FindingsAssumption

\* What can be listed of the images of a host.
LEMMA ContainerListingsProperties ==
  ASSUME NEW h, IsFiniteSet(containers[h]), NEW i
  PROVE  (\E l \in ContainerListings(h, i) : l # {}) <=> \E r \in containers[h] : r.image = i
<1>1. PICK rows : rows = {r \in containers[h] : r.image = i}
  OBVIOUS
<1>2. ContainerListings(h, i) =
        {l \in SUBSET rows : /\ Cardinality(l) = Min({Limit, Cardinality(rows)})
                             /\ \A r \in l, s \in rows \ l : 0 >= 0}
  BY <1>1 DEF ContainerListings, Listings
<1>3. IsFiniteSet(rows) /\ Cardinality(rows) \in Nat /\ (Cardinality(rows) = 0 <=> rows = {})
  BY <1>1, CountProperties
<1>4. ASSUME NEW l \in ContainerListings(h, i), l # {}
      PROVE  \E r \in containers[h] : r.image = i
  BY <1>1, <1>2, <1>4
<1>5. ASSUME NEW r \in containers[h], r.image = i
      PROVE  \E l \in ContainerListings(h, i) : l # {}
  <2>1. PICK n : n = Min({Limit, Cardinality(rows)})
    OBVIOUS
  <2>2. n \in Nat /\ n <= Cardinality(rows) /\ n # 0
    BY <1>1, <1>3, <1>5, <2>1, LimitProperties, MinProperties
  <2>3. PICK l \in SUBSET rows : Cardinality(l) = n
    BY <1>3, <2>2, SubsetOfSize
  <2>4. l # {}
    BY <2>2, <2>3, FS_EmptySet
  <2> QED
    BY <1>2, <2>1, <2>3, <2>4
<1> QED
  BY <1>4, <1>5

\* The listings repeat the conditions of the counts.
LEMMA ListingsFromInv ==
  ASSUME FindingsInv, NEW h \in hosts
  PROVE  ListingsAgree(h)
<1>1. h \in Hosts
  BY DEF FindingsInv, ColumnsFit
<1>2. ASSUME NEW s \in Severities, NEW l \in CveListings(h, s)
      PROVE  Cardinality(l) = Min({Limit, CveCounts(h)[s]})
  <2>1. {r \in {r \in cve[h] : r.actionable} : r.severity = s}
          = {r \in cve[h] : r.actionable /\ r.severity = s}
    OBVIOUS
  <2>2. CveCounts(h)[s] = Cardinality({r \in {r \in cve[h] : r.actionable} : r.severity = s})
    BY DEF CveCounts, CountBy
  <2> QED
    BY <2>1, <2>2 DEF CveListings, Listings
<1>3. ASSUME NEW s \in Risks, NEW l \in ExposureListings(h, s)
      PROVE  Cardinality(l) = Min({Limit, ExposureCounts(h)[s]})
  <2>1. {r \in {r \in exposure[h] : r.port > 0} : r.risk = s}
          = {r \in exposure[h] : r.port > 0 /\ r.risk = s}
    OBVIOUS
  <2>2. ExposureCounts(h)[s] = Cardinality({r \in {r \in exposure[h] : r.port > 0} : r.risk = s})
    BY DEF ExposureCounts, CountBy
  <2> QED
    BY <2>1, <2>2 DEF ExposureListings, Listings
<1>4. ASSUME NEW s \in Risks, NEW l \in UserListings(h, s)
      PROVE  Cardinality(l) = Min({Limit, UserCounts(h)[s]})
  BY DEF UserListings, Listings, UserCounts, CountBy
<1>5. RiskyUsers(h) > 0 <=> TopUsers(h) # {}
  <2> DEFINE Of(risk) == {r \in ListedUsers(h) : r.risk = risk}
  <2>1. \A risk \in Risks : UserCounts(h)[risk] = Cardinality(Of(risk))
    BY DEF UserCounts, CountBy
  <2>2. \A risk : /\ Cardinality(Of(risk)) \in Nat
                  /\ Cardinality(Of(risk)) = 0 <=> Of(risk) = {}
    <3>1. \A risk : Of(risk) \subseteq users[h]
      BY DEF ListedUsers
    <3> HIDE DEF Of
    <3> QED
      BY <1>1, <3>1, FiniteFromInv, CountProperties
  <2>3. Of("high") = {}
    BY <1>1 DEF FindingsInv, AccountsFit, UsersFit, ListedUsers
  <2>4. TopUsers(h) = IF Of("critical") # {} THEN Of("critical") ELSE Of("medium")
    BY DEF TopUsers
  <2>5. {"critical", "high", "medium"} \subseteq Risks
    BY DEF Risks
  <2> HIDE DEF Of
  <2>6. RiskyUsers(h) = Cardinality(Of("critical")) + Cardinality(Of("high"))
                          + Cardinality(Of("medium"))
    BY <2>1, <2>5 DEF RiskyUsers
  <2> QED
    BY <2>2, <2>3, <2>4, <2>6
<1>6. ContainerView(h).total > 0 <=>
        \E i \in UNION ImageSets : \E l \in ContainerListings(h, i) : l # {}
  <2> DEFINE Of(s) == {r \in containers[h] : r.severity = s}
  <2>1. \A s \in Severities : ContainerCounts(h)[s] = Cardinality(Of(s))
    BY DEF ContainerCounts, CountBy
  <2>2. \A s : /\ Cardinality(Of(s)) \in Nat
               /\ Cardinality(Of(s)) = 0 <=> Of(s) = {}
    BY <1>1, FiniteFromInv, CountProperties
  <2>3. \A r \in containers[h] : r.image \in UNION ImageSets /\ r.severity \in Severities
    BY <1>1 DEF FindingsInv, ImagesFit, ContainersFit
  <2>4. (\E i \in UNION ImageSets : \E l \in ContainerListings(h, i) : l # {})
          <=> containers[h] # {}
    BY <1>1, <2>3, FiniteFromInv, ContainerListingsProperties
  <2>5. containers[h] # {} <=> \E s \in Severities : Of(s) # {}
    BY <2>3
  <2>6. Severities = {"critical", "high", "medium", "low", "unknown"}
    BY DEF Severities
  <2> HIDE DEF Of
  <2>7. ContainerView(h).total
          = Cardinality(Of("critical")) + Cardinality(Of("high")) + Cardinality(Of("medium"))
            + Cardinality(Of("low")) + Cardinality(Of("unknown"))
    BY <2>1, <2>6 DEF ContainerView, SeverityTotal
  <2>8. containers[h] # {} <=>
          \/ Cardinality(Of("critical")) # 0 \/ Cardinality(Of("high")) # 0
          \/ Cardinality(Of("medium")) # 0
          \/ Cardinality(Of("low")) # 0 \/ Cardinality(Of("unknown")) # 0
    <3>1. containers[h] # {} <=> \E s \in Severities : Cardinality(Of(s)) # 0
      BY <2>2, <2>5
    <3> QED
      BY <3>1, <2>6
  <2>9. ContainerView(h).total > 0 <=> containers[h] # {}
    <3>1. PICK a, b, c, d, e \in Nat :
            /\ a = Cardinality(Of("critical")) /\ b = Cardinality(Of("high"))
            /\ c = Cardinality(Of("medium")) /\ d = Cardinality(Of("low"))
            /\ e = Cardinality(Of("unknown"))
      BY <2>2
    <3>2. ContainerView(h).total = a + b + c + d + e
      BY <2>7, <3>1
    <3>3. containers[h] # {} <=> a # 0 \/ b # 0 \/ c # 0 \/ d # 0 \/ e # 0
      BY <2>8, <3>1
    <3>4. a + b + c + d + e > 0 <=> a # 0 \/ b # 0 \/ c # 0 \/ d # 0 \/ e # 0
      OBVIOUS
    <3> QED
      BY <3>2, <3>3, <3>4
  <2> QED
    BY <2>4, <2>9
<1> QED
  BY <1>2, <1>3, <1>4, <1>5, <1>6 DEF ListingsAgree

\* Among numbers up to n there is a greatest.
LEMMA GreatestTime ==
  ASSUME NEW n \in Nat, NEW S, S \subseteq 0..n, S # {}
  PROVE  Max(S) \in S
<1> DEFINE T == {i \in Nat : i <= n /\ n - i \in S}
<1>1. T \subseteq Nat /\ T # {}
  <2>1. PICK x \in S : x \in 0..n
    OBVIOUS
  <2>2. n - x \in Nat /\ n - x <= n /\ n - (n - x) = x
    BY <2>1
  <2> QED
    BY <2>1, <2>2
<1>2. PICK i \in T : \A j \in T : <<j, i>> \notin OpToRel(<, Nat)
  <2> HIDE DEF T
  <2> QED
    BY <1>1, WFMin, NatLessThanWellFounded
<1>3. \A j \in T : ~(j < i)
  BY <1>2 DEF OpToRel
<1>4. n - i \in S /\ i \in Nat
  BY <1>2
<1>5. ASSUME NEW y \in S
      PROVE  n - i >= y
  <2>1. y \in Nat /\ y <= n
    OBVIOUS
  <2>2. n - y \in T
    BY <2>1
  <2> QED
    BY <1>3, <1>4, <2>1, <2>2
<1> QED
  BY <1>4, <1>5 DEF Max

\* Rows have the time of the last of them.
LEMMA TimeOfRows ==
  ASSUME ColumnsFit, NEW h, NEW rows, Written(h, rows), rows # {}
  PROVE  LastScan(rows) # NeverAt
<1>1. now \in Nat
  BY BoundProperties DEF ColumnsFit
<1>2. {r.at : r \in rows} \subseteq 0..now /\ {r.at : r \in rows} # {}
  BY DEF Written
<1>3. Max({r.at : r \in rows}) \in 0..now
  BY <1>1, <1>2, GreatestTime
<1> QED
  BY <1>3, <1>1 DEF LastScan, NeverAt

\* No rows, no count.
LEMMA NoRowsNoCount ==
  ASSUME NEW h
  PROVE  /\ cve[h] = {} => ~(CveView(h).total > 0)
         /\ exposure[h] = {} => ~(ExposureView(h).total > 0)
         /\ users[h] = {} => ~(UserView(h).total > 0)
         /\ sca[h] = {} => ~(ScaView(h).total > 0)
         /\ containers[h] = {} => ~(ContainerView(h).total > 0)
<1>1. Cardinality({}) = 0
  BY FS_EmptySet
<1>2. cve[h] = {} => ~(CveView(h).total > 0)
  <2>1. cve[h] = {} => \A s \in Severities : CveCounts(h)[s] = 0
    BY <1>1 DEF CveCounts, CountBy
  <2> QED
    BY <2>1 DEF CveView, SeverityTotal, Severities
<1>3. exposure[h] = {} => ~(ExposureView(h).total > 0)
  <2>1. exposure[h] = {} => \A s \in Risks : ExposureCounts(h)[s] = 0
    BY <1>1 DEF ExposureCounts, CountBy
  <2> QED
    BY <2>1 DEF ExposureView, RiskTotal, Risks
<1>4. users[h] = {} => ~(UserView(h).total > 0)
  <2>1. users[h] = {} => \A s \in Risks : UserCounts(h)[s] = 0
    BY <1>1 DEF UserCounts, ListedUsers, CountBy
  <2> QED
    BY <2>1 DEF UserView, RiskTotal, Risks
<1>5. sca[h] = {} => ~(ScaView(h).total > 0)
  <2>1. sca[h] = {} => \A s \in Results : ScaCounts(h)[s] = 0
    BY <1>1 DEF ScaCounts, CountBy
  <2> QED
    BY <2>1 DEF ScaView, ResultTotal, Results
<1>6. containers[h] = {} => ~(ContainerView(h).total > 0)
  <2>1. containers[h] = {} => \A s \in Severities : ContainerCounts(h)[s] = 0
    BY <1>1 DEF ContainerCounts, CountBy
  <2> QED
    BY <2>1 DEF ContainerView, SeverityTotal, Severities
<1> QED
  BY <1>2, <1>3, <1>4, <1>5, <1>6

LEMMA TotalsFromInv ==
  ASSUME FindingsInv, NEW h \in hosts
  PROVE  TotalsAgree(h)
<1>1. h \in Hosts /\ ColumnsFit
  BY DEF FindingsInv, ColumnsFit
<1>2. CveView(h).total > 0 => CveView(h).at # NeverAt
  <2>1. Written(h, cve[h])
    BY <1>1 DEF FindingsInv, CvesFit, CveFits
  <2> QED
    BY <1>1, <2>1, NoRowsNoCount, TimeOfRows DEF CveView
<1>3. ExposureView(h).total > 0 => ExposureView(h).at # NeverAt
  <2>1. Written(h, exposure[h])
    BY <1>1 DEF FindingsInv, PortsFit, ExposureFits
  <2> QED
    BY <1>1, <2>1, NoRowsNoCount, TimeOfRows DEF ExposureView
<1>4. UserView(h).total > 0 => UserView(h).at # NeverAt
  <2>1. Written(h, users[h])
    BY <1>1 DEF FindingsInv, AccountsFit, UsersFit
  <2> QED
    BY <1>1, <2>1, NoRowsNoCount, TimeOfRows DEF UserView
<1>5. ScaView(h).total > 0 => ScaView(h).at # NeverAt
  <2>1. Written(h, sca[h])
    BY <1>1 DEF FindingsInv, ChecksFit
  <2> QED
    BY <1>1, <2>1, NoRowsNoCount, TimeOfRows DEF ScaView
<1>6. ContainerView(h).total > 0 => ContainerView(h).at # NeverAt
  <2>1. Written(h, containers[h])
    BY <1>1 DEF FindingsInv, ImagesFit, ContainersFit
  <2> QED
    BY <1>1, <2>1, NoRowsNoCount, TimeOfRows DEF ContainerView
<1>7. CveView(h).total <= CveView(h).raw
  <2> DEFINE Of(s) == {r \in cve[h] : r.severity = s}
             Urgent(s) == {r \in {r \in cve[h] : r.actionable} : r.severity = s}
             raw == CountBy(cve[h], LAMBDA r : r.severity, Severities)
  <2>1. \A s \in Severities : CveCounts(h)[s] = Cardinality(Urgent(s))
    BY DEF CveCounts, CountBy
  <2>2. \A s \in Severities : raw[s] = Cardinality(Of(s))
    BY DEF CountBy
  <2>3. \A s : /\ Cardinality(Urgent(s)) \in Nat /\ Cardinality(Of(s)) \in Nat
               /\ Cardinality(Urgent(s)) <= Cardinality(Of(s))
    <3>1. \A s : Of(s) \subseteq cve[h] /\ Urgent(s) \subseteq Of(s)
      OBVIOUS
    <3>2. IsFiniteSet(cve[h])
      BY <1>1, FiniteFromInv
    <3> HIDE DEF Of, Urgent
    <3>3. \A s : IsFiniteSet(Of(s))
      BY <3>1, <3>2, CountProperties
    <3> QED
      BY <3>1, <3>2, <3>3, CountProperties
  <2>4. Severities = {"critical", "high", "medium", "low", "unknown"}
    BY DEF Severities
  <2>5. CveView(h).total = SeverityTotal(CveCounts(h)) /\ CveView(h).raw = SeverityTotal(raw)
    BY DEF CveView
  <2> HIDE DEF Of, Urgent, raw
  <2> QED
    BY <2>1, <2>2, <2>3, <2>4, <2>5 DEF SeverityTotal
<1> QED
  BY <1>2, <1>3, <1>4, <1>5, <1>6, <1>7 DEF TotalsAgree

LEMMA ViewsFromInv == FindingsInv => ViewsAgree
BY CountsFromInv, ScansFromInv, ListingsFromInv, TotalsFromInv DEF ViewsAgree

-----------------------------------------------------------------------------
\* The inductive invariant of findings: what the rows of every table hold.
THEOREM FindingsInvariant == FindSpec => []FindingsInv
<1>1. FindingsInv /\ [FindNext]_findVars => FindingsInv'
  <2> SUFFICES ASSUME FindingsInv, [FindNext]_findVars
               PROVE  FindingsInv'
    OBVIOUS
  <2>1. ASSUME NEW h \in Hosts, ScanPillar(h)
        PROVE  FindingsInv'
    BY <2>1, ScanVulnerabilitiesKeepsInv, ScanVulnerabilitiesFailsKeepsInv,
       ScanExposureKeepsInv, ScanScaKeepsInv, ScanUsersKeepsInv, ScanDetectionKeepsInv,
       ScanContainersKeepsInv DEF ScanPillar
  <2> QED
    BY <2>1, OtherStepsKeepInv DEF FindNext
<1> QED
  BY <1>1, FindInitInv, PTL DEF FindSpec

\* The tables have their keys and rows only of hosts of the inventory
\* (repos/posture.py), with severities and risks that the scanners know.
THEOREM FindingsTypeCorrect == FindSpec => []FindingsTypeOK
BY FindingsInvariant, TypeFromInv, PTL

\* A pillar that counts as fresh was written within the last day, all of it, where
\* a scan is one step; the rows of images, which are replaced image by image, are
\* excepted (posture_snapshot.py:130).
THEOREM FreshScansAreRecent == FindSpec => []FreshIsRecent
BY FindingsInvariant, FreshFromInv, PTL

\* Nothing urgent is triaged away, whether processes, CISA, FIRST.org or the end of
\* life could be read or not; of a host whose operating system was read and whose
\* packages all have a name and a version, an advisory whose details were read, and
\* a package that is no meta package unless the CVE is stored as exploited
\* (cve_triage.py:210-240).
THEOREM UrgentCvesAreListed == FindSpec => []UrgentIsListed
BY FindingsInvariant, UrgentFromInv, PTL

\* A port is never rated lower for a wider binding (exposure_scanner.py:67-85).
THEOREM WiderBindingsAreRiskier == FindSpec => []WiderIsRiskier
BY FindingsInvariant, WiderFromInv, PTL

\* The fleet's views, the host's counts, its listings and totals agree, and for
\* CVEs and detection also on whether there has been a scan.
THEOREM ViewsAreConsistent == FindSpec => []ViewsAgree
BY FindingsInvariant, ViewsFromInv, PTL
=============================================================================
