---------------------------- MODULE RetentionProofs ----------------------------
(***************************************************************************)
(* Proofs about Retention, for every calendar, retention time and set of   *)
(* rows.  A session acts on the time at which it began, so what it does    *)
(* must still be right later: RetentionInv says that this time has passed, *)
(* and that a promised month has a partition until it expires.             *)
(***************************************************************************)
EXTENDS Retention, TLAPS

PromiseKept == \A m \in promised : m \in parts \/ EndOf[m] + Days <= now

RetentionInv ==
  /\ TypeOK
  /\ job.at <= now
  /\ PromiseKept

\* The calendar's facts, in the form the steps below use.
LEMMA Calendar ==
  ASSUME NEW s \in Times, NEW t \in Times
  PROVE  /\ MonthOf[s] \in Months /\ MonthOf[s] \in Nat
         /\ MonthOf[s]..MonthOf[t] \subseteq Months
         /\ MonthOf[s]..MonthOf[s] + MonthsAhead \subseteq Months
         /\ MonthOf[s]..MonthOf[s] + 1 \subseteq Months
         /\ 0 \in Times
  <1>1. /\ MonthOf[s] \in Months /\ MonthOf[t] \in Months /\ Months \subseteq Nat
        /\ MonthsAhead \in Nat
        /\ MonthOf[s]..(MonthOf[t] + MonthsAhead + 1) \subseteq Months
        /\ MonthOf[s]..(MonthOf[s] + MonthsAhead + 1) \subseteq Months
    BY RetentionAssumption
  <1>2. 0 \in Times
    BY RetentionAssumption DEF Times
  <1>3. MonthOf[s] \in Nat /\ MonthOf[t] \in Nat
    BY <1>1
  <1>4. MonthOf[s]..MonthOf[t] \subseteq Months
    <2>1. MonthOf[s]..MonthOf[t] \subseteq MonthOf[s]..(MonthOf[t] + MonthsAhead + 1)
      BY <1>1, <1>3
    <2> QED BY <1>1, <2>1
  <1>5. /\ MonthOf[s]..MonthOf[s] + MonthsAhead \subseteq Months
        /\ MonthOf[s]..MonthOf[s] + 1 \subseteq Months
    <2>1. /\ MonthOf[s]..MonthOf[s] + MonthsAhead
               \subseteq MonthOf[s]..(MonthOf[s] + MonthsAhead + 1)
          /\ MonthOf[s]..MonthOf[s] + 1
               \subseteq MonthOf[s]..(MonthOf[s] + MonthsAhead + 1)
      BY <1>1, <1>3
    <2> QED BY <1>1, <2>1
  <1> QED BY <1>1, <1>2, <1>3, <1>4, <1>5

LEMMA NowIsATime == ASSUME NEW t \in 0..MaxNow PROVE t \in Times
  BY RetentionAssumption DEF Times

LEMMA InitRetention == Init => RetentionInv
  <1> SUFFICES ASSUME Init PROVE RetentionInv
    OBVIOUS
  <1>1. /\ 0 \in Times /\ 0 \in 0..MaxNow
        /\ MonthOf[0]..MonthOf[0] + 1 \subseteq Months
    <2>1. 0 \in Times /\ 0 \in 0..MaxNow
      BY RetentionAssumption DEF Times
    <2> QED BY <2>1, Calendar
  <1>2. job \in [pc : {"idle", "reclaim", "reclaimed", "ensure", "ensured", "drop"},
                 lo : Times, hi : Times, at : 0..MaxNow]
    BY <1>1 DEF Init, NoRun
  <1>3. TypeOK
    BY <1>1, <1>2 DEF Init, TypeOK, Stored
  <1> QED BY <1>3 DEF Init, RetentionInv, PromiseKept, NoRun

JobType == [pc : {"idle", "reclaim", "reclaimed", "ensure", "ensured", "drop"},
            lo : Times, hi : Times, at : 0..MaxNow]

\* A step that only moves the job on.
LEMMA JobStep ==
  ASSUME RetentionInv, job' \in JobType, job'.at <= now,
         UNCHANGED <<now, place, ts, parts, promised>>
  PROVE  RetentionInv'
  <1>1. TypeOK'
    BY DEF RetentionInv, TypeOK, Stored, JobType
  <1> QED BY <1>1 DEF RetentionInv, PromiseKept

\* The run is over, or at the beginning of a session.
LEMMA FreshJob ==
  ASSUME NEW pc \in {"idle", "reclaimed", "ensured"}, RetentionInv
  PROVE  /\ [NoRun EXCEPT !.pc = pc] \in JobType
         /\ [NoRun EXCEPT !.pc = pc].at = 0
         /\ 0 <= now
  <1>1. 0 \in Times /\ 0 \in 0..MaxNow
    BY RetentionAssumption DEF Times
  <1>2. now \in Nat
    BY RetentionAssumption DEF RetentionInv, TypeOK
  <1> QED BY <1>1, <1>2 DEF NoRun, JobType

LEMMA NoRunFresh == NoRun = [NoRun EXCEPT !.pc = "idle"]
  BY DEF NoRun

LEMMA StepRetention == RetentionInv /\ [Next]_vars => RetentionInv'
  <1> SUFFICES ASSUME RetentionInv, [Next]_vars PROVE RetentionInv'
    OBVIOUS
  <1>0. /\ now \in 0..MaxNow /\ job \in JobType /\ ts \in [Events -> Times]
        /\ parts \subseteq Months /\ promised \subseteq Months
        /\ place \in [Events -> {"none", "dated", "default", "gone"}]
        /\ MaxNow \in Nat /\ Days \in Nat /\ \A m \in Months : EndOf[m] \in Nat
    BY RetentionAssumption DEF RetentionInv, TypeOK, JobType
  <1>1. CASE Day
    <2>1. now' \in 0..MaxNow /\ now' = now + 1
      BY <1>0, <1>1 DEF Day
    <2>2. TypeOK'
      BY <1>1, <2>1 DEF Day, RetentionInv, TypeOK, Stored
    <2>3. job'.at <= now'
      BY <1>0, <1>1, <2>1 DEF Day, RetentionInv, JobType
    <2>4. PromiseKept'
      <3> SUFFICES ASSUME NEW m \in promised PROVE m \in parts \/ EndOf[m] + Days <= now + 1
        BY <1>1, <2>1 DEF Day, PromiseKept
      <3>1. EndOf[m] \in Nat
        BY <1>0
      <3> QED BY <1>0, <3>1 DEF RetentionInv, PromiseKept
    <2> QED BY <2>2, <2>3, <2>4 DEF RetentionInv
  <1>2. ASSUME NEW e \in Events, Insert(e) PROVE RetentionInv'
    <2>1. TypeOK'
      BY <1>0, <1>2 DEF Insert, RetentionInv, TypeOK, Stored
    <2> QED BY <1>2, <2>1 DEF Insert, RetentionInv, PromiseKept
  <1>3. CASE ReadDefault
    <2>1. CASE job' = [NoRun EXCEPT !.pc = "reclaimed"]
      BY <1>3, <2>1, FreshJob, JobStep DEF ReadDefault
    <2>2. ASSUME NEW lo \in Times, NEW hi \in Times,
                 job' = [NoRun EXCEPT !.pc = "reclaim", !.lo = lo, !.hi = hi]
          PROVE  RetentionInv'
      <3>0. 0 \in 0..MaxNow
        BY <1>0
      <3>1. job' \in JobType /\ job'.at = 0
        BY <2>2, <3>0 DEF NoRun, JobType
      <3>2. 0 <= now
        BY <1>0
      <3> QED BY <1>3, <3>1, <3>2, JobStep DEF ReadDefault
    <2>3. {ts[e] : e \in InDefault} \subseteq Times
      BY <1>0 DEF InDefault
    <2>4. \/ job' = [NoRun EXCEPT !.pc = "reclaimed"]
          \/ \E lo, hi \in {ts[e] : e \in InDefault} :
               job' = [NoRun EXCEPT !.pc = "reclaim", !.lo = lo, !.hi = hi]
      BY <1>3 DEF ReadDefault
    <2> QED BY <2>1, <2>2, <2>3, <2>4
  <1>4. CASE Reclaim
    <2>1. job.lo \in Times /\ job.hi \in Times
      BY <1>0 DEF JobType
    <2>2. parts' \subseteq Months /\ parts \subseteq parts'
      BY <1>0, <1>4, <2>1, Calendar DEF Reclaim, Spanned
    <2>3. job' \in JobType /\ job'.at = 0 /\ 0 <= now
      BY <1>4, FreshJob DEF Reclaim
    <2>4. \A e \in Events : Stored(e)' => ((place'[e] = "dated") <=> (MonthOf[ts[e]] \in parts'))
      <3> SUFFICES ASSUME NEW e \in Events, Stored(e)'
                   PROVE  (place'[e] = "dated") <=> (MonthOf[ts[e]] \in parts')
        OBVIOUS
      <3>1. CASE e \in InDefault
        BY <1>4, <3>1 DEF Reclaim, Movable
      <3>2. CASE e \notin InDefault
        BY <1>4, <2>2, <3>2 DEF Reclaim, Stored, InDefault, RetentionInv, TypeOK
      <3> QED BY <3>1, <3>2
    <2>5. place' \in [Events -> {"none", "dated", "default", "gone"}]
      BY <1>0, <1>4 DEF Reclaim
    <2>6. TypeOK'
      BY <1>4, <2>2, <2>3, <2>4, <2>5 DEF Reclaim, RetentionInv, TypeOK, JobType
    <2> QED BY <1>4, <2>2, <2>3, <2>6 DEF Reclaim, RetentionInv, PromiseKept
  <1>5. CASE ReadMonths \/ ReadExpired
    <2>0. 0 \in Times
      BY RetentionAssumption DEF Times
    <2>1. job' \in JobType /\ job'.at = now
      BY <1>0, <1>5, <2>0 DEF ReadMonths, ReadExpired, NoRun, JobType
    <2>2. now <= now
      BY <1>0
    <2> QED BY <1>5, <2>1, <2>2, JobStep DEF ReadMonths, ReadExpired
  <1>6. CASE Create
    <2>1. job.at \in Times
      BY <1>0, NowIsATime DEF JobType
    <2>2. parts' \subseteq Months /\ parts \subseteq parts' /\ promised' \subseteq Months
      BY <1>0, <1>6, <2>1, Calendar DEF Create, Missing, Ahead
    <2>3. promised' \subseteq parts'
      BY <1>6 DEF Create, Missing, Ahead
    <2>4. job' \in JobType /\ job'.at = 0 /\ 0 <= now
      BY <1>6, FreshJob DEF Create
    <2>5. \A e \in Events : Stored(e)' => ((place'[e] = "dated") <=> (MonthOf[ts[e]] \in parts'))
      BY <1>6, <2>2 DEF Create, Creatable, InDefault, Stored, RetentionInv, TypeOK
    <2>6. TypeOK'
      BY <1>6, <2>2, <2>4, <2>5 DEF Create, RetentionInv, TypeOK, JobType
    <2> QED BY <1>6, <2>3, <2>4, <2>6 DEF Create, RetentionInv, PromiseKept
  <1>7. CASE Drop
    <2>1. job' \in JobType /\ job'.at = 0 /\ 0 <= now
      BY <1>7, FreshJob, NoRunFresh DEF Drop
    <2>2. \A e \in Events : Stored(e)' => ((place'[e] = "dated") <=> (MonthOf[ts[e]] \in parts'))
      BY <1>7 DEF Drop, Stored, RetentionInv, TypeOK
    <2>3. place' \in [Events -> {"none", "dated", "default", "gone"}]
      BY <1>0, <1>7 DEF Drop
    <2>4. TypeOK'
      BY <1>7, <2>1, <2>2, <2>3 DEF Drop, RetentionInv, TypeOK, JobType
    <2>5. PromiseKept'
      <3> SUFFICES ASSUME NEW m \in promised, m \in Dropped
                   PROVE  EndOf[m] + Days <= now
        BY <1>7 DEF Drop, RetentionInv, PromiseKept
      <3>1. EndOf[m] + Days <= job.at /\ EndOf[m] \in Nat
        BY <1>0 DEF Dropped, Expired
      <3>2. job.at \in Nat /\ job.at <= now
        BY <1>0 DEF RetentionInv, JobType
      <3> QED BY <1>0, <3>1, <3>2
    <2> QED BY <1>7, <2>1, <2>4, <2>5 DEF Drop, RetentionInv
  <1>8. CASE Refused \/ Fail
    BY <1>8, FreshJob, NoRunFresh, JobStep DEF Refused, Fail
  <1>9. CASE UNCHANGED vars
    BY <1>9 DEF vars, RetentionInv, TypeOK, Stored, PromiseKept
  <1> QED BY <1>1, <1>2, <1>3, <1>4, <1>5, <1>6, <1>7, <1>8, <1>9 DEF Next

-----------------------------------------------------------------------------
\* The inductive invariant: partitions say where the rows are, a session's
\* time has passed, and a promised month is covered until it expires.
THEOREM RetentionInvariant == Spec => []RetentionInv
  BY InitRetention, StepRetention, PTL DEF Spec

\* Type correctness; no row of DEFAULT belongs to a month with a partition.
THEOREM RetentionTypeCorrect == Spec => []TypeOK
  <1>1. RetentionInv => TypeOK
    BY DEF RetentionInv
  <1> QED BY <1>1, RetentionInvariant, PTL

\* A row leaves the table only when its month has been over for
\* retention_days, although the job acts on a time that has passed.
THEOREM OnlyExpiredIsRemoved == Spec => RemovedIsExpired
  <1>1. ASSUME RetentionInv, [Next]_vars, NEW e \in Events, Stored(e), place'[e] = "gone"
        PROVE  place[e] = "dated" /\ Over(e)
    <2>0. place[e] # "gone"
      BY <1>1 DEF Stored
    <2>1. Drop
      BY <1>1, <2>0 DEF Next, vars, Day, Insert, ReadDefault, Reclaim, ReadMonths, Create,
           ReadExpired, Refused, Fail, RetentionInv, TypeOK
    <2>2. place[e] = "dated" /\ MonthOf[ts[e]] \in Dropped
      BY <1>1, <2>0, <2>1 DEF Drop
    <2>3. EndOf[MonthOf[ts[e]]] + Days <= job.at
      BY <2>2 DEF Dropped, Expired
    <2>4. EndOf[MonthOf[ts[e]]] \in Nat /\ Days \in Nat
      BY <1>1, RetentionAssumption DEF RetentionInv, TypeOK
    <2>5. job.at \in 0..MaxNow /\ now \in 0..MaxNow /\ job.at <= now /\ MaxNow \in Nat
      BY <1>1, RetentionAssumption DEF RetentionInv, TypeOK
    <2>6. EndOf[MonthOf[ts[e]]] + Days <= now
      BY <2>3, <2>4, <2>5
    <2> QED BY <2>2, <2>6 DEF Over
  <1>2. RetentionInv /\ [Next]_vars
          => [\A e \in Events : (Stored(e) /\ place'[e] = "gone")
                                => (place[e] = "dated" /\ Over(e))]_vars
    BY <1>1
  <1> QED BY <1>2, RetentionInvariant, PTL DEF Spec, RemovedIsExpired

\* An event of a month that was promised goes to its partition until the
\* month has expired.
THEOREM PromiseIsKept == Spec => PromiseHolds
  <1>1. ASSUME RetentionInv, [Next]_vars, NEW e \in Events,
               place[e] = "none", place'[e] = "default", MonthOf[ts[e]] \in promised
        PROVE  Over(e)
    <2>1. \E d \in Events : Insert(d)
      BY <1>1 DEF Next, vars, Day, ReadDefault, Reclaim, ReadMonths, Create,
           ReadExpired, Drop, Refused, Fail, InDefault, RetentionInv, TypeOK
    <2>2. MonthOf[ts[e]] \notin parts
      BY <1>1, <2>1 DEF Insert, RetentionInv, TypeOK
    <2> QED BY <1>1, <2>2 DEF RetentionInv, PromiseKept, Over
  <1>2. RetentionInv /\ [Next]_vars
          => [\A e \in Events : (/\ place[e] = "none" /\ place'[e] = "default"
                                 /\ MonthOf[ts[e]] \in promised)
                                => Over(e)]_vars
    BY <1>1
  <1> QED BY <1>2, RetentionInvariant, PTL DEF Spec, PromiseHolds
=============================================================================
