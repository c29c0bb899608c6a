------------------------------- MODULE Detection -------------------------------
(***************************************************************************)
(* What Core does with an alert that the ingest filter let through:        *)
(* normalize_event (Collector), then process_event of                      *)
(* core/modules/decision_policy.py, with the rolling windows               *)
(* (core/modules/feature_extractor.py, ml/extractor.py), the decision,     *)
(* should_alert, the background task that tells the operator               *)
(* (core/modules/alerting.py) and its cooldown                             *)
(* (core/modules/alert_dedup.py).                                          *)
(*                                                                         *)
(* Requests interleave at the awaits of process_event: after insert_event  *)
(* (stage "inserting") and, for an SSH login, after insert_decision (stage *)
(* "deciding").  Everything between two awaits is one step.  The model's   *)
(* score is an input: each call returns at or above the threshold, or      *)
(* below it.                                                               *)
(***************************************************************************)
EXTENDS Collector, FiniteSets

CONSTANTS
  Events,          \* the events let through
  RawAlerts,       \* the Wazuh alerts explored
  Lags,            \* how late an event's timestamp may be when it arrives
  WindowSeconds,   \* settings.window_seconds
  MaxWindowEvents, \* LureGuardExtractor.MAX_WINDOW_EVENTS
  MinAttempts,     \* settings.min_attempts_for_alert
  Cooldown,        \* TELEGRAM_DEDUP_SECONDS
  BootAges,        \* time.monotonic() when Core may start: seconds since boot
  MaxChanges,      \* bound: whitelist changes, failures, resets, restarts
  MaxTime          \* bound: the clock stops here

\* The normalised source of every alert explored.
Sources == {SourceOf(a) : a \in RawAlerts}

\* What normalize_event makes of the alerts explored, with its time.
EventRecord ==
  {NormalizeEvent(a, ts) : a \in RawAlerts, ts \in 0..MaxTime}

\* An address is not the key of an agent.
ASSUME DetectionAssumption ==
  /\ \A a, b \in RawAlerts : a.level \in Nat /\ SourceOf(a) # <<"agent", b.agent>>
  /\ Lags \subseteq Nat
  /\ WindowSeconds \in Nat
  /\ MaxWindowEvents \in Nat \ {0}
  /\ MinAttempts \in Nat \ {0}
  /\ Cooldown \in Nat \ {0}
  /\ BootAges \subseteq 0..MaxTime
  /\ MaxChanges \in Nat
  /\ MaxTime \in Nat

VARIABLES
  clock,       \* wall clock and time.monotonic(), which advance together
  event,       \* the events that have arrived, as records
  stage,       \* how far the request of each event is
  decision,    \* the decision computed for it
  history,     \* ip_history: timestamps of the events of each window
  counted,     \* history: the events recorded since the last reset
  full,        \* history: the windows whose deque may have dropped one of them
  whitelist,   \* the cache of runtime/whitelist.py
  task,        \* the background task that tells the operator
  lastSent,    \* _last_sent: source and category -> time
  told,        \* history: the messages this process handed to Telegram
  changes      \* whitelist changes, failures, resets, restarts so far

windowVars == <<history, counted, full>>
policyVars == <<event, stage, decision, windowVars>>
alertVars == <<task, lastSent, told>>
vars == <<clock, policyVars, whitelist, alertVars, changes>>

Stage == {"new", "inserting", "deciding", "done", "failed"}
TaskState == {"none", "pending", "sending", "ended"}
Categories == {"ssh", "cowrie", "web", "fim"}
Decisions == {"none", "allow", "alert", "redirect"}

-----------------------------------------------------------------------------
(***************************************************************************)
(* The rolling window: _window_key, update_from_raw.                       *)
(***************************************************************************)
\* Fault: all the events without an address share a window.
SharedWindowKey(ev) == ev.src

\* Events without an address are counted for their agent.
WindowKey(ev) == IF ev.src # NoSource THEN ev.src ELSE <<"agent", ev.agent>>

Windows == {WindowKey(NormalizeEvent(a, 0)) : a \in RawAlerts}

\* deque(maxlen): the oldest record falls out.
LastOf(h, n) == IF Len(h) <= n THEN h ELSE SubSeq(h, Len(h) - n + 1, Len(h))

Expired(h, i, ts) == ts - h[i] > WindowSeconds

\* _trim_window: records leave from the front while they are too old for ts.
Trimmed(h, ts) ==
  LET n == CHOOSE n \in 0..Len(h) :
             /\ \A i \in 1..n : Expired(h, i, ts)
             /\ n < Len(h) => ~Expired(h, n + 1, ts)
  IN SubSeq(h, n + 1, Len(h))

\* Fault: the window is a list, not a deque(maxlen).
RecordedUncapped(h, ts) == Trimmed(Append(h, ts), ts)

Recorded(h, ts) == Trimmed(LastOf(Append(h, ts), MaxWindowEvents), ts)

\* The window after n calls for the same event.
RecordedTimes(h, ts, n) ==
  CASE n = 0 -> h
    [] n = 1 -> Recorded(h, ts)
    [] n = 2 -> Recorded(Recorded(h, ts), ts)

-----------------------------------------------------------------------------
(***************************************************************************)
(* The policy: _ssh_verdict, decide, should_alert.  Probabilities are in   *)
(* hundredths; t1 and t2 are those of config/core.yaml.                    *)
(***************************************************************************)
WazuhAlertLevel == 10
FimAlertLevel == 7
T1 == 55
T2 == 85

SshVerdict(level, n) ==
  IF level >= WazuhAlertLevel \/ n >= MinAttempts THEN 100 ELSE 0

Decide(p, t1, t2) ==
  CASE p <= t1 -> "allow"
    [] t1 < p /\ p <= t2 -> "alert"
    [] OTHER -> "redirect"

\* Fault: a score below the threshold may take a rule's alert away.
ModelMayVeto(e, d, white, s, t) == ~white /\ (s \/ d \in {"alert", "redirect"})

\* s and t: does the first and the second score reach its threshold?
\* The channel "windows" that the code also names comes from no alert.
ShouldAlert(e, d, white, s, t) ==
  /\ ~white
  /\ \/ e.level >= WazuhAlertLevel
     \/ s
     \/ e.channel \in {"syscheck", "rootcheck"} /\ e.level >= FimAlertLevel
     \/ e.channel = "web" /\ t
     \/ e.channel = "cowrie"
     \/ /\ e.channel \notin {"syscheck", "rootcheck", "web"}
        /\ e.type = "cowrie_session" \/ d \in {"alert", "redirect"}

\* How often should_alert scores the event; each score records it in the
\* window once more.
Scorings(e, white, s) ==
  CASE white \/ e.level >= WazuhAlertLevel -> 0
    [] ~white /\ e.level < WazuhAlertLevel /\ e.channel = "web" /\ ~s -> 2
    [] OTHER -> 1

IsLogin(e) == e.channel = "sshd" /\ e.type \in {"auth_failed", "auth_success"}

-----------------------------------------------------------------------------
Init ==
  /\ clock \in BootAges
  /\ event = [e \in Events |-> << >>]
  /\ stage = [e \in Events |-> "new"]
  /\ decision = [e \in Events |-> "none"]
  /\ history = [k \in Windows |-> << >>]
  /\ counted = {}
  /\ full = {}
  /\ whitelist = {}
  /\ task = [e \in Events |-> "none"]
  /\ lastSent = << >>
  /\ told = {}
  /\ changes = 0

\* normalize_event, then insert_event is under way.
Arrive(e) ==
  /\ stage[e] = "new"
  /\ \E ev \in EventRecord :
       /\ clock - ev.ts \in Lags
       /\ event' = [event EXCEPT ![e] = ev]
  /\ stage' = [stage EXCEPT ![e] = "inserting"]
  /\ UNCHANGED <<clock, decision, windowVars, whitelist, alertVars, changes>>

\* n calls of update_from_raw for the event.
Record(e, n) ==
  LET k == WindowKey(event[e])
  IN /\ history' = [history EXCEPT ![k] = RecordedTimes(@, event[e].ts, n)]
     /\ counted' = IF n = 0 THEN counted ELSE counted \cup {e}
     /\ full' = IF Len(history[k]) + n > MaxWindowEvents THEN full \cup {k} ELSE full

\* should_alert and _dispatch, together with the recordings that scoring makes.
AlertStep(e, d) ==
  LET ev == event[e]
      white == ev.src \in whitelist
  IN \E s, t \in BOOLEAN :
       /\ Record(e, Scorings(ev, white, s))
       /\ task' = [task EXCEPT ![e] =
            IF ShouldAlert(ev, d, white, s, t) THEN "pending" ELSE "none"]
       /\ UNCHANGED <<lastSent, told>>

\* process_event after insert_event, for anything but an SSH login.
HandleNonSsh(e) ==
  /\ stage[e] = "inserting"
  /\ ~IsLogin(event[e])
  /\ stage' = [stage EXCEPT ![e] = "done"]
  /\ AlertStep(e, "none")
  /\ UNCHANGED <<clock, event, decision, whitelist, changes>>

\* process_event after insert_event, for an SSH login, up to insert_decision.
DecideSsh(e) ==
  LET ev == event[e]
      recorded == Recorded(history[WindowKey(ev)], ev.ts)
      p == IF ev.src \in whitelist THEN 0 ELSE SshVerdict(ev.level, Len(recorded))
  IN /\ stage[e] = "inserting"
     /\ IsLogin(ev)
     /\ stage' = [stage EXCEPT ![e] = "deciding"]
     /\ Record(e, 1)
     /\ decision' = [decision EXCEPT ![e] = Decide(p, T1, T2)]
     /\ UNCHANGED <<clock, event, whitelist, alertVars, changes>>

\* process_event after insert_decision.
AlertSsh(e) ==
  /\ stage[e] = "deciding"
  /\ stage' = [stage EXCEPT ![e] = "done"]
  /\ AlertStep(e, decision[e])
  /\ UNCHANGED <<clock, event, decision, whitelist, changes>>

Change == changes < MaxChanges /\ changes' = changes + 1

\* insert_event or insert_decision raises.
ProcessFails(e) ==
  /\ Change
  /\ stage[e] \in {"inserting", "deciding"}
  /\ stage' = [stage EXCEPT ![e] = "failed"]
  /\ UNCHANGED <<clock, event, decision, windowVars, whitelist, alertVars>>

-----------------------------------------------------------------------------
(***************************************************************************)
(* The background task: should_send_telegram, then the call to Telegram in *)
(* a thread.                                                               *)
(***************************************************************************)
Category(e) ==
  CASE IsLogin(e) -> "ssh"
    [] e.type = "cowrie_session" \/ e.channel = "cowrie" -> "cowrie"
    [] ~IsLogin(e) /\ e.type # "cowrie_session" /\ e.channel = "web" -> "web"
    [] OTHER -> "fim"

\* send_alert says "unknown" for a missing source, send_non_ssh_alert the channel.
AlertKey(e) ==
  LET ev == event[e]
  IN <<IF ev.src = NoSource /\ ~IsLogin(ev) THEN ev.channel ELSE ev.src,
       Category(ev)>>

LastSent(k) == IF k \in DOMAIN lastSent THEN lastSent[k] ELSE 0

Cooling(k) == clock - LastSent(k) < Cooldown

Sent(k) == [j \in DOMAIN lastSent \cup {k} |-> IF j = k THEN clock ELSE lastSent[j]]

\* Fault: the time is noted when Telegram has answered.
RunTaskUnnoted(e) ==
  /\ task[e] = "pending"
  /\ ~Cooling(AlertKey(e))
  /\ told' = told \cup {[event |-> e, key |-> AlertKey(e), at |-> clock]}
  /\ task' = [task EXCEPT ![e] = "sending"]
  /\ UNCHANGED <<clock, policyVars, whitelist, lastSent, changes>>

\* A message to the operator is under way from the moment its time is noted.
RunTask(e) ==
  /\ task[e] = "pending"
  /\ ~Cooling(AlertKey(e))
  /\ lastSent' = Sent(AlertKey(e))
  /\ told' = told \cup {[event |-> e, key |-> AlertKey(e), at |-> clock]}
  /\ task' = [task EXCEPT ![e] = "sending"]
  /\ UNCHANGED <<clock, policyVars, whitelist, changes>>

SuppressTask(e) ==
  /\ task[e] = "pending"
  /\ Cooling(AlertKey(e))
  /\ task' = [task EXCEPT ![e] = "ended"]
  /\ UNCHANGED <<clock, policyVars, whitelist, lastSent, told, changes>>

\* Telegram has the message or the send failed: that is only logged.
SendEnds(e) ==
  /\ task[e] = "sending"
  /\ task' = [task EXCEPT ![e] = "ended"]
  /\ UNCHANGED <<clock, policyVars, whitelist, lastSent, told, changes>>

-----------------------------------------------------------------------------
(***************************************************************************)
(* Around it: the whitelist cache, the admin API, restarts, time.          *)
(***************************************************************************)
\* A tick or an admin call replaces the cache; an event without an address is
\* never whitelisted.
RefreshWhitelist ==
  /\ Change
  /\ \E w \in SUBSET (Sources \ {NoSource}) \ {whitelist} : whitelist' = w
  /\ UNCHANGED <<clock, policyVars, alertVars>>

\* POST /config/reset-feature-window.
ResetWindow ==
  /\ Change
  /\ history' = [k \in Windows |-> << >>]
  /\ counted' = {}
  /\ full' = {}
  /\ UNCHANGED <<clock, event, stage, decision, whitelist, alertVars>>

\* Core dies and starts again: windows, cooldowns and tasks are gone.
Restart ==
  /\ Change
  /\ history' = [k \in Windows |-> << >>]
  /\ counted' = {}
  /\ full' = {}
  /\ stage' = [e \in Events |->
       IF stage[e] \in {"inserting", "deciding"} THEN "failed" ELSE stage[e]]
  /\ task' = [e \in Events |->
       IF task[e] \in {"pending", "sending"} THEN "ended" ELSE task[e]]
  /\ lastSent' = << >>
  /\ told' = {}
  /\ UNCHANGED <<clock, event, decision, whitelist>>

Tick ==
  /\ clock < MaxTime
  /\ clock' = clock + 1
  /\ UNCHANGED <<policyVars, whitelist, alertVars, changes>>

ProcessStep(e) ==
  Arrive(e) \/ HandleNonSsh(e) \/ DecideSsh(e) \/ AlertSsh(e) \/ ProcessFails(e)

TaskStep(e) == RunTask(e) \/ SuppressTask(e) \/ SendEnds(e)

Next ==
  \/ \E e \in Events : ProcessStep(e) \/ TaskStep(e)
  \/ RefreshWhitelist \/ ResetWindow \/ Restart \/ Tick

Spec == Init /\ [][Next]_vars

-----------------------------------------------------------------------------
(***************************************************************************)
(* Properties.                                                             *)
(***************************************************************************)
\* The state has its type.
TypeOK ==
  /\ clock \in Nat
  /\ event \in [Events -> EventRecord \cup {<< >>}]
  /\ stage \in [Events -> Stage]
  /\ decision \in [Events -> Decisions]
  /\ history \in [Windows -> Seq(Nat)]
  /\ \A k \in Windows : Len(history[k]) <= MaxWindowEvents
  /\ counted \subseteq Events
  /\ full \subseteq Windows
  /\ whitelist \subseteq Sources
  /\ task \in [Events -> TaskState]
  /\ \A k \in DOMAIN lastSent : k[2] \in Categories /\ lastSent[k] \in Nat
  /\ \A m \in told : m.event \in Events /\ m.at \in Nat
  /\ changes \in 0..MaxChanges

\* One address, or one host without any.
SameOrigin(e, f) ==
  /\ event[f].src = event[e].src
  /\ event[e].src = NoSource => event[f].agent = event[e].agent

\* The events of e's origin that are at most a window older than every other one
\* recorded so far, e included.
InWindow(e) ==
  LET all == {f \in counted \cup {e} : SameOrigin(e, f)}
  IN {f \in all : \A g \in all : event[g].ts - event[f].ts <= WindowSeconds}

\* A burst is always escalated, in whatever order the requests reach the
\* extractor: when a login is decided, every event of its address, or of its
\* agent if it has no address, that is at most a window older than each of the
\* others still counts, unless the deque has been at its cap since the last
\* reset.  An event of another channel counts too once the model has scored it,
\* and its time trims the logins.  And only what its own address or agent did at
\* most a window before escalates a login below the floor, never what other
\* hosts did (decision_policy.py:206-219, feature_extractor.py:69-87,
\* extractor.py:134-137, 203-217).
BurstIsEscalated ==
  [][\A e \in Events :
        DecideSsh(e) /\ event[e].src \notin whitelist =>
          /\ (/\ WindowKey(event[e]) \notin full'
              /\ Cardinality(InWindow(e)) >= MinAttempts)
               => decision'[e] = "redirect"
          /\ (/\ decision'[e] = "redirect"
              /\ event[e].level < WazuhAlertLevel /\ MinAttempts > 1)
               => \E f \in counted : /\ SameOrigin(e, f)
                                     /\ event[e].ts - event[f].ts <= WindowSeconds]_vars

\* "Rules detect, and nothing we compute may overrule them"
\* (decision_policy.py:170): an event at the Wazuh floor from a source that is
\* not whitelisted is always dispatched, whatever the channel, the scores and
\* the recorded decision, and although the whitelist is read again after the
\* await on insert_decision.
FloorIsDispatched ==
  [][\A e \in Events :
        stage[e] # "done" /\ stage'[e] = "done"
          /\ event[e].level >= WazuhAlertLevel /\ event[e].src \notin whitelist
          => task'[e] = "pending"]_vars

\* Two messages about the same source and category are a cooldown apart, though
\* their tasks run side by side and Telegram answers late
\* (alert_dedup.py:18-27).
TelegramsApart ==
  \A m, n \in told :
    (m # n /\ m.key = n.key)
      => m.at + Cooldown <= n.at \/ n.at + Cooldown <= m.at
=============================================================================
