------------------------------- MODULE Watcher -------------------------------
(***************************************************************************)
(* The alert watcher (lureguard_mcp/alert_watcher.py): a thread of every   *)
(* MCP server that reads events of a high level from PostgreSQL, starts a  *)
(* triage run of the assistant for each and notes it in watched_events.    *)
(*                                                                         *)
(* A poll asks for events from a watermark on, which is a time: that at    *)
(* which the last poll ended, or some minutes ago in a server that has not *)
(* finished a poll yet.  The time of an event is that of the alert; its    *)
(* row comes later, when Core commits it.  A triage run starts an MCP      *)
(* server of its own, so watchers come and go.                             *)
(***************************************************************************)
EXTENDS Naturals, FiniteSets

CONSTANTS
  Events,     \* events of AUTO_TRIAGE_LEVEL and above
  Watchers,   \* the MCP servers, each of which has the thread
  Never,      \* no event; the watermark of a server that has finished no poll
  Lookback,   \* how far back the first poll looks
  Limit,      \* LIMIT of the query
  MaxTime,    \* bound: the time that passes
  MaxFaults   \* bound: calls that fail, an opencode that is not found, and
              \* servers that end

ASSUME WatcherAssumption ==
  /\ Lookback \in Nat
  /\ Limit \in Nat \ {0}
  /\ MaxTime \in Nat /\ MaxFaults \in Nat
  /\ Never \notin 0..MaxTime \cup Events
  /\ IsFiniteSet(Watchers)

VARIABLES
  now,
  ts,         \* the time of an event whose row is there
  committed,  \* the events whose row is there
  watched,    \* watched_events
  watcher,    \* the thread of a server
  triages,    \* history: triage runs started for an event
  unmarked,   \* history: those of them that were never noted
  skipped,    \* history: the events that were passed over without opencode
  faults

watchVars == <<now, ts, committed, watched, watcher, triages, unmarked, skipped, faults>>

Times == 0..MaxTime

\* batch: what the poll has read and not come to; event: what it has started a
\* triage run for and not noted; last: _last_checked.
Off == [pc |-> "off", batch |-> {}, event |-> Never, last |-> Never]

Set(s, w) == watcher' = [watcher EXCEPT ![s] = w]

Fault == faults < MaxFaults /\ faults' = faults + 1

WatchInit ==
  /\ now = 0
  /\ ts = [e \in Events |-> 0]
  /\ committed = {}
  /\ watched = {}
  /\ watcher = [s \in Watchers |-> Off]
  /\ triages = [e \in Events |-> 0]
  /\ unmarked = [e \in Events |-> 0]
  /\ skipped = {}
  /\ faults = 0

Tick ==
  /\ now < MaxTime
  /\ now' = now + 1
  /\ UNCHANGED <<ts, committed, watched, watcher, triages, unmarked, skipped, faults>>

\* Core commits an event that happened at t.
Store(e) ==
  /\ e \notin committed
  /\ committed' = committed \cup {e}
  /\ \E t \in 0..now : ts' = [ts EXCEPT ![e] = t]
  /\ UNCHANGED <<now, watched, watcher, triages, unmarked, skipped, faults>>

-----------------------------------------------------------------------------
(***************************************************************************)
(* The thread of a server.                                                 *)
(***************************************************************************)
\* start_alert_watcher, in a process that has no watermark.
StartServer(s) ==
  /\ watcher[s].pc = "off"
  /\ Set(s, [Off EXCEPT !.pc = "wait"])
  /\ UNCHANGED <<now, ts, committed, watched, triages, unmarked, skipped, faults>>

Since(s) ==
  IF watcher[s].last # Never THEN watcher[s].last
  ELSE IF now < Lookback THEN 0 ELSE now - Lookback

\* Fault: the query without "w.event_id IS NULL".
AllRecent(s) == {e \in committed : ts[e] >= Since(s)}

Recent(s) == {e \in committed \ watched : ts[e] >= Since(s)}

\* The first Limit events by time.
Batches(s) ==
  {b \in SUBSET Recent(s) :
    /\ Cardinality(b) = IF Cardinality(Recent(s)) < Limit THEN Cardinality(Recent(s)) ELSE Limit
    /\ \A e \in b, f \in Recent(s) \ b : ts[e] <= ts[f]}

Poll(s) ==
  /\ watcher[s].pc = "wait"
  /\ \E b \in Batches(s) : Set(s, [watcher[s] EXCEPT !.pc = "work", !.batch = b])
  /\ UNCHANGED <<now, ts, committed, watched, triages, unmarked, skipped, faults>>

First(s) == {e \in watcher[s].batch : \A f \in watcher[s].batch : ts[e] <= ts[f]}

\* _run_auto_triage: opencode is started and not waited for.
Triage(s) ==
  /\ watcher[s].pc = "work"
  /\ \E e \in First(s) :
       /\ Set(s, [watcher[s] EXCEPT !.pc = "mark", !.batch = @ \ {e}, !.event = e])
       /\ triages' = [triages EXCEPT ![e] = @ + 1]
  /\ UNCHANGED <<now, ts, committed, watched, unmarked, skipped, faults>>

\* mark_event_watched_db; then the Telegram, whose failures are caught.
Mark(s) ==
  /\ watcher[s].pc = "mark"
  /\ watched' = watched \cup {watcher[s].event}
  /\ Set(s, [watcher[s] EXCEPT !.pc = "work", !.event = Never])
  /\ UNCHANGED <<now, ts, committed, triages, unmarked, skipped, faults>>

\* The poll is over: the watermark becomes the time.
EndPoll(s) ==
  /\ watcher[s].pc = "work"
  /\ watcher[s].batch = {}
  /\ Set(s, [watcher[s] EXCEPT !.pc = "wait", !.last = now])
  /\ UNCHANGED <<now, ts, committed, watched, triages, unmarked, skipped, faults>>

-----------------------------------------------------------------------------
(***************************************************************************)
(* Faults.                                                                 *)
(***************************************************************************)
\* A triage run that was started and will not be noted by s.
LoseMark(s) ==
  unmarked' = [e \in Events |->
    IF e = watcher[s].event THEN unmarked[e] + 1 ELSE unmarked[e]]

\* Fault: the watermark is set in a finally clause.
FailPollForward(s) ==
  /\ watcher[s].pc \in {"work", "mark"}
  /\ Fault
  /\ LoseMark(s)
  /\ Set(s, [Off EXCEPT !.pc = "wait", !.last = now])
  /\ UNCHANGED <<now, ts, committed, watched, triages, skipped>>

\* opencode is not found when the event's turn comes: the event is passed over,
\* and the poll goes on to its end.
Skip(s) ==
  /\ watcher[s].pc = "work"
  /\ Fault
  /\ \E e \in First(s) :
       /\ Set(s, [watcher[s] EXCEPT !.batch = @ \ {e}])
       /\ skipped' = skipped \cup {e}
  /\ UNCHANGED <<now, ts, committed, watched, triages, unmarked>>

\* opencode cannot be started, or the database fails: the exception ends the
\* poll, and the watermark stays.
FailPoll(s) ==
  /\ watcher[s].pc \in {"work", "mark"}
  /\ Fault
  /\ LoseMark(s)
  /\ Set(s, [Off EXCEPT !.pc = "wait", !.last = watcher[s].last])
  /\ UNCHANGED <<now, ts, committed, watched, triages, skipped>>

EndServer(s) ==
  /\ watcher[s].pc # "off"
  /\ Fault
  /\ LoseMark(s)
  /\ Set(s, Off)
  /\ UNCHANGED <<now, ts, committed, watched, triages, skipped>>

-----------------------------------------------------------------------------
Work(s) == Poll(s) \/ Triage(s) \/ Mark(s) \/ EndPoll(s)

WatchNext ==
  \/ Tick
  \/ \E e \in Events : Store(e)
  \/ \E s \in Watchers : StartServer(s) \/ Work(s) \/ Skip(s) \/ FailPoll(s) \/ EndServer(s)

WatchSpec == WatchInit /\ [][WatchNext]_watchVars

\* The loop goes on while its process lives: it catches what a poll raises and
\* waits for 30 s.  Faults are bounded, so they do not go on for ever; nothing
\* is assumed of Core, of time or of the start of servers.
FairWatchSpec == WatchSpec /\ \A s \in Watchers : WF_watchVars(Work(s))

-----------------------------------------------------------------------------
\* An event has one triage run per server at most, and one more for each that
\* could not be noted: a server that has read it before another noted it does
\* not look again.
TriagesAreBounded ==
  \A e \in Events : triages[e] <= Cardinality(Watchers) + unmarked[e]

\* What a poll of an established server has read is triaged, by somebody, even
\* when the poll fails after others of its batch (alert_watcher.py:93 is not
\* reached then); unless opencode was not found when its turn came, the server
\* ends, or more than Limit events wait: the next poll may then read others in its
\* place.
ReadIsTriaged ==
  \A s \in Watchers, e \in Events :
    (e \in watcher[s].batch /\ watcher[s].last # Never)
      ~> (triages[e] > 0 \/ e \in skipped \/ watcher[s].pc = "off")

=============================================================================
