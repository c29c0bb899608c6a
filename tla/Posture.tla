------------------------------- MODULE Posture -------------------------------
(***************************************************************************)
(* The posture scan: jobs that walk over the pillars of the hosts and      *)
(* replace their rows in PostgreSQL (lureguard_mcp/scan_scheduler.py, the  *)
(* scanners, repos/posture.py).                                            *)
(*                                                                         *)
(* A job is started by the tool trigger_posture_scan, which looks for a    *)
(* running one first, or by the scheduler, which does not.  It runs in a   *)
(* thread that dies with its MCP server; there is one server per session   *)
(* of the assistant, so jobs of several servers meet in the database and   *)
(* nowhere else.  The row of a job carries its status and the time of its  *)
(* last sign of life.                                                      *)
(*                                                                         *)
(* A pillar here is one pillar of one host: Plan[j] is the sequence a job  *)
(* walks over, all pillars of a host after those of the host before.  Most *)
(* pillars are replaced in one READ COMMITTED transaction (DELETE, then    *)
(* INSERTs); containers are replaced image by image, detection_coverage is *)
(* a single row that is upserted.                                          *)
(***************************************************************************)
EXTENDS Naturals, Sequences

CONSTANTS
  Jobs,
  Past,        \* at most one of them, completed before the behaviour begins
  Stored,      \* what it has found, by pillar
  Pillars,
  Plan,        \* the pillars a job scans, in order
  Images,      \* pillars that are replaced image by image
  Upserted,    \* pillars that are one row
  Unique,      \* pillars with a UNIQUE constraint on the key; not images, nor exposure
               \* where the address is NULL
  Sentinel,    \* replaced pillars that get a placeholder row when nothing is found
  Keys,        \* what a scan may find: a package, a port, a check, the CVEs of an image
  Running,     \* the images that may run
  Placeholder, \* the key of the placeholder, and of the single row
  All,         \* the unit of work of a pillar that is replaced as a whole
  Stale        \* stale_cutoff: after so long without a sign of life a job counts as dead

ASSUME PostureAssumption ==
  /\ Past \subseteq Jobs /\ \A j, k \in Past : j = k
  /\ Stored \in [Pillars -> SUBSET (Keys \cup {Placeholder})]
  /\ \A p \in Sentinel \cup Upserted : Stored[p] # {}
  /\ Plan \in [Jobs -> Seq(Pillars)]
  /\ \A j \in Jobs : \A a, b \in 1..Len(Plan[j]) : Plan[j][a] = Plan[j][b] => a = b
  /\ Images \subseteq Pillars
  /\ Upserted \subseteq Pillars \ Images
  /\ Unique \subseteq Pillars \ (Images \cup Upserted)
  /\ Sentinel \subseteq Pillars \ (Images \cup Upserted)
  /\ Running \subseteq Keys
  /\ Placeholder \notin Keys
  /\ All \notin Keys
  /\ Stale \in Nat

VARIABLES
  row,         \* the row of a job: its status, and the age of its last sign of life
  scan,        \* the thread of a job
  table,       \* the rows of a pillar
  result,      \* the results of a job: per pillar the rows it stored, or the error
  beside       \* history: <<p, j, k>> when j opened its transaction on p during that of k

vars == <<row, scan, table, result, beside>>

Row == [key : Keys \cup {Placeholder}, by : Jobs]

NoScan == [pc |-> "idle", at |-> 1, todo |-> {}, unit |-> All, old |-> {}, new |-> {}]

Pillar(j) == Plan[j][scan[j].at]

\* Fault: a job that says running is taken at its word.
RefusedForever == \E j \in Jobs : row[j].status = "running"

\* _get_latest_running_job: a row that is queued does not count.
Refused == \E j \in Jobs : row[j].status = "running" /\ row[j].age <= Stale

\* overall_status of get_posture_snapshot, for one pillar.
NeverScanned(p) == table[p] = {}

\* update_posture_scan_job_db with a status and a progress.
Says(j, status) == row' = [row EXCEPT ![j] = [status |-> status, age |-> 0]]

\* _persist_progress, as a sign of life.
Beat(j) == Says(j, "running")

Goto(j, pc) == scan' = [scan EXCEPT ![j].pc = pc]

\* The units of work that are left; the scanner returns after the last.
WorkOn(j, todo) ==
  scan' = [scan EXCEPT ![j] = [NoScan EXCEPT
    !.pc = IF todo = {} THEN "report" ELSE "write", !.at = scan[j].at, !.todo = todo]]

Note(j, done, keys) ==
  result' = [result EXCEPT ![j][Pillar(j)] = [done |-> done, keys |-> keys]]

\* Fault: nothing found is stored as no rows.
FoundOnly(p, u) == IF p \in Images THEN SUBSET {u} ELSE SUBSET Keys

\* The rows a scan may have for a unit of work.
Found(p, u) ==
  CASE p \in Images   -> SUBSET {u}
    [] p \in Upserted -> {{Placeholder}}
    [] p \in Sentinel -> {IF S = {} THEN {Placeholder} ELSE S : S \in SUBSET Keys}
    [] OTHER          -> SUBSET Keys

\* A past job, if there is one, has scanned the whole fleet.
Init ==
  /\ row = [j \in Jobs |-> [status |-> IF j \in Past THEN "completed" ELSE "none", age |-> 0]]
  /\ scan = [j \in Jobs |-> [NoScan EXCEPT !.pc = IF j \in Past THEN "over" ELSE "idle"]]
  /\ table = [p \in Pillars |-> [key : Stored[p], by : Past]]
  /\ result = [j \in Jobs |-> [p \in Pillars |->
       IF j \in Past THEN [done |-> "ok", keys |-> Stored[p]] ELSE [done |-> "no", keys |-> {}]]]
  /\ beside = {}

-----------------------------------------------------------------------------
(***************************************************************************)
(* Starting a job.                                                         *)
(***************************************************************************)
\* trigger_posture_scan reads the jobs, lists the hosts and filters them ...
Ask(j) ==
  /\ scan[j].pc = "idle"
  /\ ~Refused
  /\ Goto(j, "asked")
  /\ UNCHANGED <<row, table, result, beside>>

\* ... and gives up when there is no host, none that needs a scan, or an error.
Abandon(j) ==
  /\ scan[j].pc = "asked"
  /\ Goto(j, "idle")
  /\ UNCHANGED <<row, table, result, beside>>

\* Fault: the thread is started before the row is there, and its updates find none.
StartWithoutRow(j) ==
  /\ scan[j].pc = "asked"
  /\ Goto(j, "begin")
  /\ UNCHANGED <<row, table, result, beside>>

\* create_posture_scan_job_db, then the thread.
Queue(j) ==
  /\ Says(j, "queued")
  /\ Goto(j, "begin")
  /\ UNCHANGED <<table, result, beside>>

\* _start_job, after the questions.
Start(j) == scan[j].pc = "asked" /\ Queue(j)

\* _scan_all_agents, which asks none.
StartScheduled(j) == scan[j].pc = "idle" /\ Queue(j)

\* The first statement of the thread; when it fails the thread ends, since no
\* handler is around it, and the row stays queued.
Begin(j) ==
  /\ scan[j].pc = "begin"
  /\ \/ /\ row' = [row EXCEPT ![j].status = "running"]
        /\ Goto(j, "step")
     \/ /\ Goto(j, "over")
        /\ UNCHANGED row
  /\ UNCHANGED <<table, result, beside>>

-----------------------------------------------------------------------------
(***************************************************************************)
(* One pillar after the other.                                             *)
(***************************************************************************)
\* on_step_start; when it cannot be written the job fails.
StartStep(j) ==
  /\ scan[j].pc = "step"
  /\ scan[j].at <= Len(Plan[j])
  /\ \/ /\ Beat(j)
        /\ Goto(j, "gather")
     \/ /\ Goto(j, "fail")
        /\ UNCHANGED row
  /\ UNCHANGED <<table, result, beside>>

\* The scanner asks Wazuh, OSV or the host.  An error is a result.  Containers:
\* the images that run, and a host that does not answer counts as one without.
Gather(j) ==
  /\ scan[j].pc = "gather"
  /\ \/ /\ Note(j, "error", {})
        /\ WorkOn(j, {})
     \/ /\ UNCHANGED result
        /\ \E todo \in IF Pillar(j) \in Images THEN SUBSET Running ELSE {{All}} :
             WorkOn(j, todo)
  /\ UNCHANGED <<row, table, beside>>

\* What the DELETE for a unit of work is about.
Scope(p, u) == IF p \in Images THEN {r \in table[p] : r.key = u} ELSE table[p]

InTransaction(p) ==
  {j \in Jobs : scan[j].pc \in {"blocked", "replace"} /\ Pillar(j) = p}

\* Rows that other transactions have deleted or updated and not committed.
Held(p, j) ==
  UNION {scan[k].old : k \in {k \in InTransaction(p) \ {j} : scan[k].pc = "replace"}}

\* The DELETE sees the rows that are committed now, and waits for those that
\* another transaction holds.
Open(j) ==
  /\ scan[j].pc = "write"
  /\ LET p == Pillar(j) IN
     \E u \in scan[j].todo : \E found \in Found(p, u) :
       /\ scan' = [scan EXCEPT
            ![j].pc = IF Scope(p, u) \cap Held(p, j) = {} THEN "replace" ELSE "blocked",
            ![j].unit = u, ![j].old = Scope(p, u), ![j].new = found]
       /\ beside' = beside \cup {<<p, j, k>> : k \in InTransaction(p) \ {j}}
  /\ UNCHANGED <<row, table, result>>

\* The transaction it waited for has ended: rows that are gone are passed over,
\* and rows that have come meanwhile are not seen.
Unblock(j) ==
  /\ scan[j].pc = "blocked"
  /\ LET p == Pillar(j)
         left == scan[j].old \cap table[p] IN
       /\ left \cap Held(p, j) = {}
       /\ scan' = [scan EXCEPT ![j].pc = "replace", ![j].old = left]
  /\ UNCHANGED <<row, table, result, beside>>

\* A row that is there and not deleted stands in the way of one with its key.
Conflict(j) ==
  /\ Pillar(j) \in Unique
  /\ \E r \in table[Pillar(j)] \ scan[j].old : r.key \in scan[j].new

\* Fault: the DELETE is forgotten.
AfterInsertOnly(j) ==
  table[Pillar(j)] \cup [key : scan[j].new, by : {j}]

After(j) ==
  (IF Pillar(j) \in Upserted THEN {} ELSE table[Pillar(j)] \ scan[j].old)
    \cup [key : scan[j].new, by : {j}]

\* The INSERTs and the COMMIT ...
Commit(j) ==
  /\ ~Conflict(j)
  /\ table' = [table EXCEPT ![Pillar(j)] = After(j)]
  /\ Note(j, "ok", IF Pillar(j) \in Images THEN {} ELSE scan[j].new)
  /\ WorkOn(j, scan[j].todo \ {scan[j].unit})

\* Fault: an INSERT that conflicts is tried until it succeeds.
ReplaceInsists(j) ==
  /\ scan[j].pc = "replace"
  /\ Commit(j)
  /\ UNCHANGED <<row, beside>>

\* ... or an error, which rolls back and is the result.
Replace(j) ==
  /\ scan[j].pc = "replace"
  /\ \/ Commit(j)
     \/ /\ Note(j, "error", {})
        /\ WorkOn(j, {})
        /\ UNCHANGED table
  /\ UNCHANGED <<row, beside>>

\* Trivy fails, or is given up after 900 s, for an image: on to the next.
SkipImage(j) ==
  /\ scan[j].pc = "write"
  /\ Pillar(j) \in Images
  /\ \E u \in scan[j].todo : WorkOn(j, scan[j].todo \ {u})
  /\ UNCHANGED <<row, table, result, beside>>

\* on_step_done, in the finally clause; when it cannot be written the job fails.
Report(j) ==
  /\ scan[j].pc = "report"
  /\ \/ /\ Beat(j)
        /\ scan' = [scan EXCEPT ![j] = [NoScan EXCEPT !.pc = "step", !.at = scan[j].at + 1]]
     \/ /\ scan' = [scan EXCEPT ![j] = [NoScan EXCEPT !.pc = "fail", !.at = scan[j].at]]
        /\ UNCHANGED row
  /\ UNCHANGED <<table, result, beside>>

\* The last update, completed or failed; it may fail too, and then the row goes
\* on to say what it says.
Finish(j) ==
  /\ \/ scan[j].pc = "fail"
     \/ scan[j].pc = "step" /\ scan[j].at > Len(Plan[j])
  /\ \/ Says(j, IF scan[j].pc = "fail" THEN "failed" ELSE "completed")
     \/ UNCHANGED row
  /\ scan' = [scan EXCEPT ![j] = [NoScan EXCEPT !.pc = "over"]]
  /\ UNCHANGED <<table, result, beside>>

-----------------------------------------------------------------------------
\* The MCP server ends, and its transactions with it.
Crash(j) ==
  /\ scan[j].pc \notin {"idle", "over"}
  /\ scan' = [scan EXCEPT ![j] = [NoScan EXCEPT !.pc = "over"]]
  /\ UNCHANGED <<row, table, result, beside>>

\* Time passes; an age beyond Stale is as good as any other.
Tick ==
  /\ row' = [j \in Jobs |->
       IF row[j].status \in {"queued", "running"} /\ row[j].age <= Stale
         THEN [row[j] EXCEPT !.age = @ + 1] ELSE row[j]]
  /\ row' # row
  /\ UNCHANGED <<scan, table, result, beside>>

\* What a thread does, once it runs.
Work(j) ==
  \/ Begin(j)
  \/ StartStep(j)
  \/ Gather(j)
  \/ Open(j)
  \/ Unblock(j)
  \/ Replace(j)
  \/ SkipImage(j)
  \/ Report(j)
  \/ Finish(j)

Next ==
  \/ \E j \in Jobs : Ask(j) \/ Abandon(j) \/ Start(j) \/ StartScheduled(j) \/ Work(j)
                      \/ Crash(j)
  \/ Tick

Spec == Init /\ [][Next]_vars

\* A thread that lives goes on, since every call it makes has a time limit, and
\* time passes.  Nobody has to start a job, and no server has to end.
FairSpec ==
  /\ Spec
  /\ \A j \in Jobs : WF_vars(Work(j))
  /\ WF_vars(Tick)

-----------------------------------------------------------------------------
\* Types; and a job has a row from before its thread begins, and says that it is
\* over only when it is.
TypeOK ==
  /\ \A j \in Jobs :
       /\ row[j].status = "none" => scan[j].pc \in {"idle", "asked", "over"}
       /\ row[j].status \in {"completed", "failed"} => scan[j].pc = "over"
  /\ row \in [Jobs -> [status : {"none", "queued", "running", "completed", "failed"},
                       age : 0..Stale + 1]]
  /\ \A j \in Jobs :
       /\ scan[j].pc \in {"idle", "asked", "begin", "step", "gather", "write", "blocked",
                          "replace", "report", "fail", "over"}
       /\ scan[j].at \in 1..Len(Plan[j]) + 1
       /\ scan[j].todo \cup {scan[j].unit} \subseteq Keys \cup {All}
       /\ scan[j].old \subseteq Row
       /\ scan[j].new \subseteq Keys \cup {Placeholder}
  /\ table \in [Pillars -> SUBSET Row]
  /\ result \in [Jobs -> [Pillars -> [done : {"no", "ok", "error"},
                                      keys : SUBSET (Keys \cup {Placeholder})]]]
  /\ beside \subseteq Pillars \X Jobs \X Jobs

\* The rows of a pillar are the complete findings of every scan they come from,
\* never a part of them; and rows of two scans stand side by side only when
\* their transactions ran side by side, neither seeing the other's rows.
RowsAreWholeScans ==
  \A p \in Pillars \ Images : \A r \in table[p] :
    /\ {s.key : s \in {t \in table[p] : t.by = r.by}} = result[r.by][p].keys
    /\ \A s \in table[p] : s.by # r.by => <<p, r.by, s.by>> \in beside
                                       \/ <<p, s.by, r.by>> \in beside

\* Once a scan of a pillar with a placeholder has succeeded, the snapshot never
\* again says never_scanned, whatever other scans of it do, fail or break off.
ScannedIsRemembered ==
  \A p \in Sentinel \cup Upserted :
    (\E j \in Jobs : result[j][p].done = "ok") => ~NeverScanned(p)

\* No job bars new ones for good: what trigger_posture_scan refuses today it
\* takes again, even when a server has died or the last update was lost.
RefusalEnds == Refused ~> ~Refused

\* A thread that has begun ends: no two of them wait for each other.
ScanEnds == \A j \in Jobs : scan[j].pc = "begin" ~> scan[j].pc = "over"

=============================================================================
