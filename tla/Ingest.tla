-------------------------------- MODULE Ingest --------------------------------
(***************************************************************************)
(* One alert's way from the Wazuh manager into Core's database:            *)
(*                                                                         *)
(*   - the hook wazuh/integrations/custom-lureguard.py, one process per    *)
(*     alert, which POSTs it up to MaxAttempts times;                      *)
(*   - POST /wazuh/event (core/api/wazuh_endpoint.py) behind the duplicate *)
(*     filter of IngestDedup;                                              *)
(*   - the request's transaction (core/db/session.py get_db);              *)
(*   - crashes and restarts of Core, which lose the filter and whatever    *)
(*     has not been committed.                                             *)
(*                                                                         *)
(* A request is one attempt of one hook.  A request that timed out at the  *)
(* hook goes on running in Core, beside the attempt that replaces it.      *)
(* What process_event computes for the event (window, decision, alert) is  *)
(* the subject of Detection; here it either succeeds or raises.            *)
(***************************************************************************)
EXTENDS IngestDedup

CONSTANTS
  Alerts,          \* the alerts integratord hands to the hook, as records
  Refusable,       \* the alerts Core may refuse before its handler runs
  MaxAttempts,     \* max_attempts of _post_alert
  CommitOrders,    \* may the web framework close get_db before it replies?
  MayFail,         \* may processing or the commit raise?
  MaxOutages       \* bound: crashes of Core and resets by the admin API

(***************************************************************************)
(* An alert carries data.srcip, NoSource when that is absent; its rule; the *)
(* first 19 characters of its timestamp, a second; and, unknown to Core,   *)
(* the occurrence it reports: auth.log and journald report the same one.   *)
(***************************************************************************)
KeyOf(a) == <<a.srcip, a.rule, a.second>>

ASSUME IngestAssumption ==
  /\ \A a \in Alerts : KeyOf(a) \in Keys
  /\ Refusable \subseteq Alerts
  /\ MaxAttempts \in Nat \ {0}
  /\ CommitOrders \subseteq BOOLEAN
  /\ MayFail \in BOOLEAN
  /\ MaxOutages \in Nat

VARIABLES
  commitFirst, \* the framework's order: get_db closes before the reply is sent
  hook,      \* state of each alert's hook process
  attempt,   \* attempts it has made
  request,   \* state of each attempt at Core
  stored,    \* the requests whose event row is committed
  up,        \* is Core running?
  outages,   \* crashes and resets so far
  born,      \* history: when, and in which era, the filter let a request in
  era        \* history: how often the filter was made to forget something

hookVars == <<hook, attempt>>
coreVars == <<stored, up, outages, born, era>>
vars == <<dedupVars, commitFirst, hookVars, request, coreVars>>

Requests == Alerts \X (1..MaxAttempts)

\* "err": 5xx, refused or reset; "open": in process_event; "flushed": handler
\* returned, commit to come; "acked": 200 sent, commit to come; "gone": 200 sent, rolled back.
Running == {"open", "flushed", "acked"}
Success == {"ok", "dup", "acked", "gone"}
Failure == {"err"}

Current(a) == <<a, attempt[a]>>
KeyOfRequest(r) == KeyOf(r[1])

\* The installed framework decides once in which order commit and reply come.
Init ==
  /\ DedupInit
  /\ commitFirst \in CommitOrders
  /\ hook = [a \in Alerts |-> "idle"]
  /\ attempt = [a \in Alerts |-> 0]
  /\ request = [r \in Requests |-> "none"]
  /\ stored = {}
  /\ up = TRUE
  /\ outages = 0
  /\ born = << >>
  /\ era = 0

-----------------------------------------------------------------------------
(***************************************************************************)
(* The hook: _post_alert.                                                  *)
(***************************************************************************)

\* An attempt starts; with Core down the connection is refused.
Post(a) ==
  /\ hook[a] \in {"idle", "backoff"}
  /\ hook' = [hook EXCEPT ![a] = "waiting"]
  /\ attempt' = [attempt EXCEPT ![a] = @ + 1]
  /\ request' = [request EXCEPT ![<<a, attempt[a] + 1>>] =
                    IF up THEN "sent" ELSE "err"]
  /\ UNCHANGED <<dedupVars, coreVars>>

AfterFailure(a) == IF attempt[a] < MaxAttempts THEN "backoff" ELSE "lost"

Answered(a, S) == hook[a] = "waiting" /\ request[Current(a)] \in S

\* 2xx: the alert counts as delivered, whatever the body says.
ReadSuccess(a) ==
  /\ Answered(a, Success)
  /\ hook' = [hook EXCEPT ![a] = "delivered"]
  /\ UNCHANGED <<dedupVars, attempt, request, coreVars>>

\* 400, 401, 403, 404, 422: no retry.
ReadRejection(a) ==
  /\ Answered(a, {"rejected"})
  /\ hook' = [hook EXCEPT ![a] = "lost"]
  /\ UNCHANGED <<dedupVars, attempt, request, coreVars>>

\* Any other status, a refused or reset connection.
ReadFailure(a) ==
  /\ Answered(a, Failure)
  /\ hook' = [hook EXCEPT ![a] = AfterFailure(a)]
  /\ UNCHANGED <<dedupVars, attempt, request, coreVars>>

\* Fault: urlopen is called without a timeout.
NeverTimesOut(a) == FALSE

\* timeout_seconds pass; the request is not withdrawn from Core.
Timeout(a) ==
  /\ hook[a] = "waiting"
  /\ hook' = [hook EXCEPT ![a] = AfterFailure(a)]
  /\ UNCHANGED <<dedupVars, attempt, request, coreVars>>

-----------------------------------------------------------------------------
(***************************************************************************)
(* Core: one request.  The handler runs without a break from its first     *)
(* line to the first await in process_event, so the filter's answer and    *)
(* its entry in the dict are one step.                                     *)
(***************************************************************************)
Goes(r, from, to) ==
  /\ up
  /\ request[r] = from
  /\ request' = [request EXCEPT ![r] = to]

\* verify_ingest_token or the schema of the body refuses the request: 401 or
\* 422, or 503 when Core has no token configured.  A later attempt may meet a
\* Core that has one.
Reject(r) ==
  /\ r[1] \in Refusable
  /\ Goes(r, "sent", "rejected") \/ Goes(r, "sent", "err")
  /\ UNCHANGED <<dedupVars, hookVars, coreVars>>

\* 200 {"status": "deduplicated"}.
Deduplicate(r) ==
  /\ Goes(r, "sent", "dup")
  /\ Suppress(KeyOfRequest(r))
  /\ UNCHANGED <<hookVars, coreVars>>

\* Fault: the key is not recorded when the alert is let through.
BeginUnrecorded(r) ==
  /\ Goes(r, "sent", "open")
  /\ born' = Put(born, r, [at |-> now, era |-> era])
  /\ UNCHANGED <<dedupVars, hookVars, stored, up, outages, era>>

\* The filter lets the alert through and has recorded its key.
Begin(r) ==
  /\ Goes(r, "sent", "open")
  /\ Accept(KeyOfRequest(r))
  /\ era' = IF DOMAIN accepted \subseteq DOMAIN accepted' THEN era ELSE era + 1
  /\ born' = Put(born, r, [at |-> now, era |-> era])
  /\ UNCHANGED <<hookVars, stored, up, outages>>

\* normalize_event or process_event raises: 500 and rollback.  The filter
\* keeps the key.
ProcessFails(r) ==
  /\ MayFail
  /\ Goes(r, "open", "err")
  /\ UNCHANGED <<dedupVars, hookVars, coreVars>>

\* Fault: the handler answers 202 and leaves the work for later.
RepliesEarly(r) ==
  /\ Goes(r, "open", "acked")
  /\ UNCHANGED <<dedupVars, hookVars, coreVars>>

\* The handler returns with event and decision flushed, not committed.
Finish(r) ==
  /\ Goes(r, "open", IF commitFirst THEN "flushed" ELSE "acked")
  /\ UNCHANGED <<dedupVars, hookVars, coreVars>>

\* Fault: get_db closes the session without a commit.
ForgetsCommit(r) ==
  /\ Goes(r, "flushed", "ok") \/ Goes(r, "acked", "ok")
  /\ UNCHANGED <<dedupVars, hookVars, coreVars>>

\* get_db after its yield.
Commit(r) ==
  /\ Goes(r, "flushed", "ok") \/ Goes(r, "acked", "ok")
  /\ stored' = stored \cup {r}
  /\ UNCHANGED <<dedupVars, hookVars, up, outages, born, era>>

CommitFails(r) ==
  /\ MayFail
  /\ Goes(r, "flushed", "err") \/ Goes(r, "acked", "gone")
  /\ UNCHANGED <<dedupVars, hookVars, coreVars>>

-----------------------------------------------------------------------------
(***************************************************************************)
(* Core as a whole.                                                        *)
(***************************************************************************)
AfterCrash(s) ==
  CASE s \in {"sent", "open", "flushed"} -> "err"
    [] s = "acked" -> "gone"
    [] OTHER -> s

Crash ==
  /\ up
  /\ outages < MaxOutages
  /\ up' = FALSE
  /\ outages' = outages + 1
  /\ request' = [r \in Requests |-> AfterCrash(request[r])]
  /\ Forget
  /\ era' = era + 1
  /\ UNCHANGED <<hookVars, stored, born>>

Restart ==
  /\ ~up
  /\ up' = TRUE
  /\ UNCHANGED <<dedupVars, hookVars, request, stored, outages, born, era>>

\* POST /config/reset-feature-window.
ResetFilter ==
  /\ up
  /\ outages < MaxOutages
  /\ outages' = outages + 1
  /\ Forget
  /\ era' = era + 1
  /\ UNCHANGED <<hookVars, request, stored, up, born>>

\* The endpoint of the reset is a plain function, so it runs in a thread: it
\* may empty the dict while the filter is at work, which then raises KeyError.
ResetUnder(r) ==
  /\ outages < MaxOutages
  /\ outages' = outages + 1
  /\ Goes(r, "sent", "err")
  /\ Forget
  /\ era' = era + 1
  /\ UNCHANGED <<hookVars, stored, up, born>>

TimePasses == Tick /\ UNCHANGED <<hookVars, request, coreVars>>

HookStep(a) ==
  /\ Post(a) \/ ReadSuccess(a) \/ ReadRejection(a) \/ ReadFailure(a) \/ Timeout(a)
  /\ UNCHANGED commitFirst

CoreStep(r) ==
  /\ \/ Reject(r) \/ Deduplicate(r) \/ Begin(r)
     \/ ProcessFails(r) \/ Finish(r) \/ Commit(r) \/ CommitFails(r)
     \/ ResetUnder(r)
  /\ UNCHANGED commitFirst

Outside ==
  /\ Crash \/ Restart \/ ResetFilter \/ TimePasses
  /\ UNCHANGED commitFirst

Next ==
  \/ \E a \in Alerts : HookStep(a)
  \/ \E r \in Requests : CoreStep(r)
  \/ Outside

Spec == Init /\ [][Next]_vars

(***************************************************************************)
(* Fairness: a hook process keeps running, and every wait in it is bounded *)
(* by its socket timeout.  Nothing is assumed of Core.                     *)
(***************************************************************************)
HookFairness == \A a \in Alerts : WF_vars(HookStep(a))

FairSpec == Spec /\ HookFairness

-----------------------------------------------------------------------------
(***************************************************************************)
(* Properties.                                                             *)
(***************************************************************************)
\* The half of INV-1 that the code keeps when the framework closes get_db
\* before it replies: a hook that was told "processed" has its row committed,
\* through failures, timeouts, retries and crashes.
ProcessedIsCommitted ==
  commitFirst =>
    \A a \in Alerts :
      hook[a] = "delivered" /\ request[Current(a)] # "dup" => Current(a) \in stored

\* Rows of the same key are Window apart as long as the filter is not made to
\* forget: retries that overlap an earlier attempt, and twins posted by other
\* hooks, never store the same alert twice within a window.
RowsApart ==
  \A r, s \in stored :
    (r # s /\ KeyOfRequest(r) = KeyOfRequest(s) /\ born[r].era = born[s].era)
      => born[r].at + Window <= born[s].at \/ born[s].at + Window <= born[r].at

InProgress(k) == \E r \in Requests : KeyOfRequest(r) = k /\ request[r] \in Running

\* INV-1 (docs/INVARIANTS.md:20): "No alert is acknowledged unless it is
\* committed".  Read generously: an acknowledged alert, once nothing with its
\* key is in progress any more, has a committed row under its key.
AcknowledgedIsCommitted ==
  \A a \in Alerts :
    hook[a] = "delivered" /\ ~InProgress(KeyOf(a))
      => \E r \in stored : KeyOfRequest(r) = KeyOf(a)

Undisturbed ==
  /\ outages = 0
  /\ \A r \in Requests : request[r] \notin {"err", "gone"}

\* INV-1 while nothing has failed in Core: timeouts, retries that overlap the
\* first attempt and twins alone never get an alert acknowledged that is not
\* stored.
AcknowledgedUnlessFault == Undisturbed => AcknowledgedIsCommitted

\* Every hook ends, as delivered or as lost: timeouts and the attempt budget
\* bound it even if Core never answers (custom-lureguard.py:146-181), so integratord
\* is never blocked for good.
HookTerminates ==
  \A a \in Alerts : hook[a] = "waiting" ~> hook[a] \in {"delivered", "lost"}
=============================================================================
