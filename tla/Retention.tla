------------------------------- MODULE Retention -------------------------------
(***************************************************************************)
(* The daily retention job (core/retention.py) beside the inserts of the   *)
(* ingest endpoint.  The table events is partitioned by month of ts; a row *)
(* whose month has no partition goes to the partition DEFAULT, and         *)
(* PostgreSQL creates no partition for a month that DEFAULT has rows of.   *)
(*                                                                         *)
(* run_retention works in three sessions: reclaim_default_rows,            *)
(* ensure_future_partitions, drop_expired_partitions.  Each reads first    *)
(* and then changes the table under an exclusive lock that it keeps until  *)
(* it commits, so each is a reading step and an atomic changing step, with *)
(* inserts and the passing of time in between.                             *)
(***************************************************************************)
EXTENDS Naturals, FiniteSets

CONSTANTS
  Events,      \* rows that may be inserted
  MaxTs,       \* bound: the latest timestamp of a row, which may be wrong
  MaxNow,      \* bound: the time that passes, in days
  Months,      \* the months, numbered
  MonthOf,     \* the month of a timestamp or time
  EndOf,       \* the first day after a month
  MonthsAhead, \* months_ahead of ensure_future_partitions
  Days,        \* retention_days
  MayFail      \* may a session fail, or Core restart?

Times == 0..MaxTs

ASSUME RetentionAssumption ==
  /\ MaxTs \in Nat /\ MaxNow \in 0..MaxTs
  /\ Months \subseteq Nat
  /\ MonthOf \in [Times -> Months]
  /\ EndOf \in [Months -> Nat]
  /\ \A t \in Times : t < EndOf[MonthOf[t]]
  /\ \A s, t \in Times : MonthOf[s]..(MonthOf[t] + MonthsAhead + 1) \subseteq Months
  /\ MonthsAhead \in Nat
  /\ Days \in Nat
  /\ MayFail \in BOOLEAN

VARIABLES
  now,         \* today
  place,       \* where the row of an event is
  ts,          \* its timestamp, from the alert
  parts,       \* the months that have a partition
  job,         \* the run of the job
  promised     \* history: the months covered by the last ensure_future_partitions

vars == <<now, place, ts, parts, job, promised>>

\* lo, hi: min(ts) and max(ts) of DEFAULT; at: the time the session began.
NoRun == [pc |-> "idle", lo |-> 0, hi |-> 0, at |-> 0]

InDefault == {e \in Events : place[e] = "default"}

\* months_spanned
Spanned(lo, hi) == MonthOf[lo]..MonthOf[hi]

\* Fault: one month less, as with range(months_ahead).
AheadOffByOne(t) == {m \in Months : MonthOf[t] <= m /\ m < MonthOf[t] + MonthsAhead}

Ahead(t) == MonthOf[t]..MonthOf[t] + MonthsAhead

\* Fault: a month is expired when it began long enough ago.
ExpiredByStart(m, t) == \E s \in Times : MonthOf[s] = m /\ s + Days <= t

\* partitions_to_drop: end <= cutoff.
Expired(m, t) == EndOf[m] + Days <= t

\* The migration has created this month and the next.
Init ==
  /\ now = 0
  /\ place = [e \in Events |-> "none"]
  /\ ts \in [Events -> Times]
  /\ parts = MonthOf[0]..MonthOf[0] + 1
  /\ job = NoRun
  /\ promised = {}

Day ==
  /\ now < MaxNow
  /\ now' = now + 1
  /\ UNCHANGED <<place, ts, parts, job, promised>>

Insert(e) ==
  /\ place[e] = "none"
  /\ place' = [place EXCEPT ![e] = IF MonthOf[ts[e]] \in parts THEN "dated" ELSE "default"]
  /\ UNCHANGED <<now, ts, parts, job, promised>>

-----------------------------------------------------------------------------
(***************************************************************************)
(* reclaim_default_rows.                                                   *)
(***************************************************************************)
ReadDefault ==
  /\ job.pc = "idle"
  /\ \/ /\ InDefault = {}
        /\ job' = [NoRun EXCEPT !.pc = "reclaimed"]
     \/ \E lo, hi \in {ts[e] : e \in InDefault} :
          /\ \A e \in InDefault : lo <= ts[e] /\ ts[e] <= hi
          /\ job' = [NoRun EXCEPT !.pc = "reclaim", !.lo = lo, !.hi = hi]
  /\ UNCHANGED <<now, place, ts, parts, promised>>

\* Every row of DEFAULT has a partition to go to: a row that came after the
\* reading may lie outside lo..hi.
Movable == \A e \in InDefault : MonthOf[ts[e]] \in parts \cup Spanned(job.lo, job.hi)

\* Detach, create, move, attach, commit.
Reclaim ==
  /\ job.pc = "reclaim"
  /\ Movable
  /\ parts' = parts \cup Spanned(job.lo, job.hi)
  /\ place' = [e \in Events |-> IF e \in InDefault THEN "dated" ELSE place[e]]
  /\ job' = [NoRun EXCEPT !.pc = "reclaimed"]
  /\ UNCHANGED <<now, ts, promised>>

-----------------------------------------------------------------------------
(***************************************************************************)
(* ensure_future_partitions.                                               *)
(***************************************************************************)
ReadMonths ==
  /\ job.pc = "reclaimed"
  /\ job' = [NoRun EXCEPT !.pc = "ensure", !.at = now]
  /\ UNCHANGED <<now, place, ts, parts, promised>>

Missing == Ahead(job.at) \ parts

\* DEFAULT has no row of a missing month.
Creatable == \A e \in InDefault : MonthOf[ts[e]] \notin Missing

Create ==
  /\ job.pc = "ensure"
  /\ Creatable
  /\ parts' = parts \cup Missing
  /\ promised' = MonthOf[job.at]..MonthOf[job.at] + MonthsAhead
  /\ job' = [NoRun EXCEPT !.pc = "ensured"]
  /\ UNCHANGED <<now, place, ts>>

-----------------------------------------------------------------------------
(***************************************************************************)
(* drop_expired_partitions.                                                *)
(***************************************************************************)
ReadExpired ==
  /\ job.pc = "ensured"
  /\ job' = [NoRun EXCEPT !.pc = "drop", !.at = now]
  /\ UNCHANGED <<now, place, ts, parts, promised>>

Dropped == {m \in parts : Expired(m, job.at)}

\* Fault: the row is not dropped with its partition.
DropKeepsRows ==
  /\ job.pc = "drop"
  /\ parts' = parts \ Dropped
  /\ job' = NoRun
  /\ UNCHANGED <<now, place, ts, promised>>

Drop ==
  /\ job.pc = "drop"
  /\ parts' = parts \ Dropped
  /\ place' = [e \in Events |-> IF place[e] = "dated" /\ MonthOf[ts[e]] \in Dropped
                                THEN "gone" ELSE place[e]]
  /\ job' = NoRun
  /\ UNCHANGED <<now, ts, promised>>

-----------------------------------------------------------------------------
\* A session that raises rolls back, and the rest of the run does not take
\* place.  Here PostgreSQL refuses to move or to create.
Refused ==
  /\ \/ job.pc = "reclaim" /\ ~Movable
     \/ job.pc = "ensure" /\ ~Creatable
  /\ job' = NoRun
  /\ UNCHANGED <<now, place, ts, parts, promised>>

\* Something else goes wrong, or Core restarts.
Fail ==
  /\ MayFail
  /\ job.pc # "idle"
  /\ job' = NoRun
  /\ UNCHANGED <<now, place, ts, parts, promised>>

Next ==
  \/ Day
  \/ \E e \in Events : Insert(e)
  \/ ReadDefault \/ Reclaim \/ ReadMonths \/ Create \/ ReadExpired \/ Drop
  \/ Refused \/ Fail

Spec == Init /\ [][Next]_vars

\* The scheduler starts the job day after day, and it does not fail for ever.
FairSpec ==
  /\ Spec
  /\ SF_vars(ReadDefault) /\ SF_vars(Reclaim) /\ SF_vars(ReadMonths)
  /\ SF_vars(Create) /\ SF_vars(ReadExpired) /\ SF_vars(Drop)
  /\ WF_vars(Refused)

-----------------------------------------------------------------------------
(***************************************************************************)
(* Properties.                                                             *)
(***************************************************************************)
Stored(e) == place[e] \in {"dated", "default"}

\* The month of the event has been over for retention_days.
Over(e) == EndOf[MonthOf[ts[e]]] + Days <= now

\* The state has its type, and the partitions say where every row is: no row
\* of DEFAULT belongs to a month that has a partition, where PostgreSQL would
\* refuse to attach DEFAULT, and no other row to a month without one.
TypeOK ==
  /\ now \in 0..MaxNow
  /\ place \in [Events -> {"none", "dated", "default", "gone"}]
  /\ ts \in [Events -> Times]
  /\ parts \subseteq Months
  /\ job \in [pc : {"idle", "reclaim", "reclaimed", "ensure", "ensured", "drop"},
              lo : Times, hi : Times, at : 0..MaxNow]
  /\ promised \subseteq Months
  /\ \A e \in Events : Stored(e) => ((place[e] = "dated") <=> (MonthOf[ts[e]] \in parts))

\* Retention removes a row only when its whole month has been over for
\* retention_days, and never a row that is waiting in DEFAULT (STO-8).
RemovedIsExpired ==
  [][\A e \in Events :
       (Stored(e) /\ place'[e] = "gone")
         => (place[e] = "dated" /\ Over(e))]_vars

\* An event of a month that the last ensure_future_partitions promised to
\* cover does not go to DEFAULT, unless it comes after its month has expired.
PromiseHolds ==
  [][\A e \in Events :
       (/\ place[e] = "none" /\ place'[e] = "default"
        /\ MonthOf[ts[e]] \in promised)
         => Over(e)]_vars

\* Every row is removed once it has expired, wherever it was put and whatever
\* came in between the steps of the job: "Nothing grows without bound"
\* (docs/INVARIANTS.md:56, INV-4).
ExpiredIsRemoved ==
  \A e \in Events :
    (Stored(e) /\ Over(e)) ~> place[e] = "gone"
=============================================================================
