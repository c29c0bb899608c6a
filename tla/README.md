# LureGuard in TLA+

LureGuard is a self-hosted security analyst: Wazuh agents and a Cowrie honeypot report to a Wazuh
manager, a hook posts the alerts to **Core** (FastAPI), which stores them in PostgreSQL, decides on
SSH logins, and tells the operator by Telegram.  An **MCP server** gives an AI agent tools to look at
the data, to investigate, to recommend containment and to scan hosts; a human confirms what has
consequences.  This directory holds the formal model of that program: TLA+ modules translated from
the code under `src/`, the configurations TLC checks, and theorems that TLAPS has proved.

Paths below are relative to `src/`.  Which definition stands for which lines is in `PROJECT.json`
(`map`); the list of hazards with their lines and properties is there, too.

- [How to run it](#how-to-run-it)
- [Inventory](#inventory)
- [The modules and the code](#the-modules-and-the-code)
- [The runs](#the-runs)
- [Bounds](#bounds)
- [Fairness](#fairness)
- [What is proved](#what-is-proved)
- [Known disagreements with the documentation](#known-disagreements-with-the-documentation)
- [What is not modelled](#what-is-not-modelled)
- [Plan](#plan)

## How to run it

    tlc -config Ingest.cfg MCIngest              # one run; the module of each run is in PROJECT.json
    tlapm IngestProofs.tla                       # one proof module

A run takes up to three minutes with two workers, a proof module from some seconds to five minutes (`PostureProofs`).

## Inventory

Two processes share one PostgreSQL database.  Core is one asyncio event loop (plus threads for
endpoints that are plain functions and for Telegram); the MCP server is another asyncio loop, started by
the agent's client, possibly several times.  What is concurrent is therefore: requests and background
tasks of Core between their awaits, threads of Core at any point, the MCP server's calls between their
awaits, the two processes against each other through the database, and the hooks, the hosts (SSH) and
the operator against both.

| Component | State | Operations | Hard because | Correct when |
|---|---|---|---|---|
| Wazuh hook `wazuh/integrations/custom-lureguard.py` | attempts, its socket | post, retry with back-off, give up | a timed-out request goes on in Core beside its retry | it ends; "delivered" means Core has it |
| Duplicate filter `core/modules/ingest_dedup.py` | `_recent`, an ordered dict with times | test-and-record, expire from the front, evict at the cap, reset | duplicates re-order the dict without refreshing times; in memory only | suppresses only with a recent twin, forgets nothing within the window, stays within its cap |
| Ingest endpoint and transaction `core/api/wazuh_endpoint.py`, `core/db/session.py` | request, session | token, filter, process, flush, commit, rollback | failure after the filter has recorded the key; crash before the commit | INV-1: acknowledged means committed |
| Decision policy `core/modules/decision_policy.py` | decision per event | score, verdict, decide, should_alert | the whitelist is read twice around an await; scoring has a side effect | the rules' floor is never overruled; a burst is escalated |
| Rolling windows `ml/extractor.py`, `core/modules/feature_extractor.py` | `ip_history`, a bounded deque per address, or per agent for events without one | append, trim, reset | late and out-of-order events, the cap, hosts whose events have no address | the count is that of the newest window, of this address or agent alone |
| Operator alerts `core/modules/alerting.py`, `alert_dedup.py` | `_last_sent`, background tasks | dispatch, cooldown, send | tasks side by side, slow and failing sends | messages a cooldown apart; only a message suppresses one |
| Blocklist `lureguard_mcp/blocklist.py`, `repos/blocklist.py` | rows, iptables rules of the hosts | recommend, confirm (resolve scope, SSH per host, write row) | partial failure, lost answers, parallel calls, a dying server | reported as executed only if it is; only a human blocks |
| Whitelist `lureguard_mcp/whitelist.py`, `core/runtime/whitelist.py`, `core/api/admin_api.py` | rows, Core's cache | recommend, confirm, remove, admin add and delete, tick, seed import | two programs write the rows; the cache is filled from stale and uncommitted reads | exempted only if a human asked; the cache converges |
| Retention `core/retention.py` | partitions of `events` | reclaim DEFAULT, create months, drop months | inserts between the reads and the locks; sessions that fail | removes only what has expired, and all of it |
| Event normalisation `core/modules/collector.py` | none | `normalize_event` | many rule groups with precedence | what Wazuh calls a login is counted as one |
| Posture scan `lureguard_mcp/scan_scheduler.py`, `repos/posture.py`, scanners | scan jobs, findings per host, snapshots | trigger, scan each host, replace findings, finish | check-then-act on "running"; a job row outlives its process; scanners fail one by one | a pillar holds one complete scan and stays scanned; every scan ends; no refusal lasts |
| Alert watcher `lureguard_mcp/alert_watcher.py` | watermark | poll, triage, advance | events that commit late, polls that fail half-way, several servers | a noted event was triaged; what a poll has read is triaged; triage runs are bounded |
| Posture scanners and views `lureguard_mcp/*_scanner.py`, `container_posture.py`, `repos/posture.py`, `posture_snapshot.py` | tables of findings per host and pillar | scan a pillar, list, count, summarise a host or the fleet | every source may fail on its own; keys that come twice; two kinds of views | what is fresh is recent; host and fleet agree |
| CVE triage `lureguard_mcp/cve_triage.py` | the KEV list, per process | rate, prioritise, filter | what could not be read must not hide a finding | an urgent CVE is never filtered out |
| Investigations `lureguard_mcp/repos/investigations.py` | investigations, findings, indicators, timeline | open, record, close | evidence numbers are read and then used; the findings are looked at and then the investigation is closed | closed on cited findings; evidence ids apart |
| Reports `lureguard_mcp/report_*.py` | files, PDFs, rows | save, convert, send | a file is named by day and title, a PDF is reused by file time, no transaction isolates files | the PDF shows the report it is handed out for |
| MCP server and audit `lureguard_mcp/server.py`, `repos/actions.py` | audit rows | 60-odd tools | the effect and its audit row are two transactions | every change has its audit row |
| Onboarding `lureguard_mcp/onboarding.py`, `wazuh_client.py` | the manager's agents, key and service on the machine, row in `hosts` | register, configure, import the key, start, look, store | twenty steps on three systems, any of which may be the last; calls share one file | active means connected; a machine runs as its own agent |
| Inventory `core/modules/hosts_sync.py` | rows in `hosts` | list, store all in one transaction | stored later than read; one bad row stops all | follows the manager |
| System update `update-system.py`, `lureguard_mcp/system_update.py` | git checkout, index, VERSION, lock, backup branches | check, apply, rollback, dismiss | the tool kills the command after 300 s; every git call may fail or meet another | updates work apart; a rollback puts back what was committed |

The rest (training and evaluation, scoring features, address enrichment, text handling, doctor, load tests and
seeds, migrations, configuration) is listed in `PROJECT.json` with the reason it is left out.

How they interact:

    Wazuh manager --hook--> /wazuh/event --filter--> process_event --INSERT--> PostgreSQL
                                                  |-> window, decision --INSERT--> decisions
                                                  `-> background task --cooldown--> Telegram
    agent --MCP--> recommend_* --> rows (pending) --human confirm--> rows (executed) --SSH--> hosts
    tick / admin API --read rows--> Core's whitelist cache --read by--> decision policy
    daily job --DDL--> partitions of events <--INSERT-- ingest
    trigger / schedule --> scan job --> scanners (Wazuh API, SSH, OSV, Trivy) --rows--> views
    onboarding --> manager, machine, hosts <--every minute-- Core <-- the manager's list
    events --watcher polls--> triage run of the agent --MCP--> investigation --> report --> Telegram
    make / MCP tool --> update-system.py --> git

## The modules and the code

| Module | Models | State | Steps |
|---|---|---|---|
| `IngestDedup` | the duplicate filter | `recent` and `order` are the OrderedDict (times, and the order as a relation), `now` the monotonic clock; `accepted` is a history | `Suppress` and `Accept` are the two answers of `is_duplicate_wazuh_event`, each with the expiry loop; `Forget` is `reset()` or a restart |
| `Ingest` (extends `IngestDedup`) | hook, endpoint, transaction, crash | `hook`, `attempt`; `request` per attempt; `stored`, the committed rows; `up`; `born` and `era` are histories | one action per outcome of a hook's attempt, per step of a request (filter, process, reply, commit) and per fault |
| `Collector` | `normalize_event` | none: operators | `NormalizeEvent` from the groups, rule, log and addresses of an alert |
| `Detection` (extends `Collector`) | policy, window, alerts, cooldown | `event`, `stage`, `decision` per event; `history` per address or agent (`WindowKey`); `task`, `lastSent`; `counted`, `full` (windows that have been at their cap) and `told` are histories | one action per stretch of `process_event` between two awaits; one per stretch of the background task |
| `HumanGate` | what containment promises (abstract) | the last human decision and what is in force | approve (one subject or, as an import does, several), revoke, enforce, lift |
| `Blocklist` | blocking, implements `HumanGate` | `row`, `rule` (per host and address), `active` hosts, `call` per confirmation | recommend; begin, one SSH command, finish of a confirmation; death of its server; hosts that come and go |
| `Whitelist` | whitelisting, implements `HumanGate` (with lifting not gated) | `table`, `call`, Core's `cache`, `tick`'s snapshot, the `admin` request | recommend, confirm in two steps, remove; the admin request in four; the tick in two; restart with import |
| `Onboarding` | onboarding, the inventory, restarts of agents | `status` at the manager, `machine` (key file, key, running agent), `hosts`; `onboard` per call, `listing` of the synchronisation; `connected` and `beside` are histories | one action per step of `onboard_host` whose effect others can see; the two steps of `hosts_sync`; agents that connect and drop |
| `Retention` | the daily job beside inserts | `place` and `ts` of each row, `parts` (months with a partition), `job` | the reading and the changing step of each session; inserts, days, failures |
| `Posture` | scan jobs, scanners, the tables of findings | `row` and `scan` are the row and the thread of a job, `table` the rows of each pillar, `result` what the job reports; `beside` is a history of transactions that overlapped | trigger and refusal, the schedule, the stretches of `_run_posture_scan` between statements, a transaction that opens, waits and commits, failing updates, dying servers |
| `Scoring` | the ratings of CVEs, ports and accounts | none: operators | `triage_finding`, `_score_port`, `_score_user` |
| `Findings` (extends `Scoring`) | what the six scanners store and the views read | the tables of each host, `kev` (remembered by the process); `source` is a history | one action per scanner with what it meets and which sources answer (`FindNext`); views are operators |
| `Watcher` | the alert watcher of every server | `committed`, `watched`, `watcher` (watermark, batch, event in hand); `triages`, `unmarked` are histories | an event's commit; poll, triage, mark, end of a poll; an opencode that is not found (`Skip`), a failing poll, a dying server; `skipped` is a history, too |
| `Reports` | report files and their PDFs | `files`, `pdfs`, the table `reports`, `call`; `disturbed` is a history | write, insert; resolve, reuse, read, write the PDF, fail, hand out |
| `Investigation` (extends `Reports`) | the tools of an investigation and their audit rows | the tables, `audit`; `calls`, `lost` are histories | begin, one or two transactions, log, exception, end of the session |
| `Update` | `update-system.py` | `tree` and the commits of `log`: the release each file is of, or `Missing`; `branches`, `fetched`, `lock`, `dismissed`, `process`; `before`, `noted` are histories | one action per git command of apply and rollback; kill, the operator's removal of the lock |

`MC...` modules give the constants of an instance; `...Proofs` modules hold theorems.  A definition whose
comment begins with "Fault:" is not part of any specification: it is a plausible bug of the code, and the list
`mutants` in `PROJECT.json` says which definition it replaces and which property then fails, so that
each property is known to be sensitive to the code.

What the modules abstract from: contents of alerts, rows and messages beyond what the properties tell
apart; the wording of answers; SQL other than its effect and its locks; probabilities other than "reaches
the threshold" (any outcome of a model is allowed).  Time is an integer clock.

Points where the translation needs a word:

- *One step per stretch between awaits.*  The filter's test and its entry are one step, since nothing is
  awaited between them; `should_alert` and the whitelist test before `insert_decision` are two, since
  something is.  The exception is `reset_feature_window`: a plain function, which FastAPI runs in a thread,
  so it may empty the dict in the middle of the filter's work (`Ingest!ResetUnder`).
- *Commit before or after the reply* depends on the version of the framework, which
  `pyproject.toml` does not pin; `commitFirst` is chosen once, at the beginning, from `CommitOrders`.
- *The expiry loop* is not a loop: an entry survives when it, or any entry before it, is not stale.
- *The window* records an event once in `build_features` and again in every scoring of `should_alert`, and events of every channel
  that is scored: a web error takes a place in, and trims, the deque the logins of its source are counted in.  An event without an address goes into
  the deque of its agent (`_window_key`), so that two hosts' `sudo` failures never add up; `SharedWindowKey`, the bucket they once shared, is the mutant.  That no
  address is written like an agent's key is an assumption.
- *Packages.*  A host's packages are one batch of questions to OSV; the pairs of a second batch do not mix with those of the first.
- *Plans.*  A posture job comes to a pillar of a host once (`PostureAssumption`), which is what the lists of hosts and pillars in
  `_run_posture_scan` give; the proof of `RowsAreWholeScans` needs it.
- *Seeds.*  The seed file is a sequence of addresses, each of which gets an id of its own (`Whitelist!SeedFile`).
- *Locks.*  A row written by an admin request stays locked until it commits (`Whitelist!Locked`); the DDL of
  a retention session takes an exclusive lock on the table, so each session is one reading and one atomic
  changing step.  In `Posture` a DELETE that meets rows another transaction is replacing waits for it, and then, under
  READ COMMITTED, deletes what it had seen, not what the other has inserted.
- *A posture job* keeps the age of its last sign of life rather than a time; one tick stands for twenty minutes.  The heartbeats
  between two hosts are part of the next host's first step.  The pillars are those of a host; a server runs one job of the
  model at most.  Exposure rows whose address is NULL are not held apart by the UNIQUE constraint, as in PostgreSQL.
- *Posture and Findings* divide the scanners: `Posture` has the interleavings of their transactions and takes the rows as given,
  `Findings` has the rows and takes a scan as one step.
- *The watcher's watermark* is a time and belongs to the process: a server that starts looks back `Lookback`.  `Off` resets it.
  `watched_events` is written after the triage run has been started, and the Telegram after that cannot fail the poll.
- *Sessions.*  An MCP server serves one session and runs one tool at a time; two sessions share the database and the files.
- *Onboarding.*  Commands whose effect nobody else looks at are part of the step they prepare.  An agent is known by its name,
  since the manager refuses a second one.  Whether a machine has the package is a constant (`Prepared`): the code never
  installs it (see below).
- *git.*  `git checkout <commit> -- <path>` writes the index and the working copy; both are `tree`.  It puts the files of the commit over those that are
  there and deletes none (`Overlay`); for a path of which the commit has nothing it fails, and the code skips that path, as when git fails for another reason, which is
  noted as "failed".  Every failure of `git branch` counts as "already exists" in the code; the model notes as "failed" those that are something else.  A release is
  the set of files it ships under each path (`Ships`).
- *The admin request* finds a row and sets `executed`; SQLAlchemy writes only what has changed, so a row that was active when read and is reset by a
  recommendation before the write stays inactive (`Whitelist!With`).
- *File times.*  The PDF counts as fresh when it is not older than the markdown (`>=`), so a report that is written in the clock tick of its PDF leaves the old PDF
  fresh: `WriteReport` may do that, and the name then counts as disturbed.

## The runs

| Run | What it explores | What it shows |
|---|---|---|
| `IngestDedup` | four keys, a cap of three, times past staleness | the filter remembers every acceptance for its window and keeps its cap |
| `Ingest` | two twin alerts posted by two hooks; a refused request, failing processing and commits, both orders of commit and reply, timeouts, retries, a crash or a reset | a hook told "processed" has its row committed (if the commit comes first); equal keys are stored a window apart; without a fault in Core nothing acknowledged is missing; every hook ends |
| `IngestAck` | *violation* of `AcknowledgedIsCommitted` | processing fails, the key stays in the filter, the retry is answered "deduplicated": acknowledged and never stored, against INV-1 (`docs/INVARIANTS.md:20`) |
| `Detection` | three events, each of them one of five alerts of the manager (a login from an address, a failed sudo on each of two hosts without one, of which the second is Wazuh's brute force rule, a web error, a file change), on time or two seconds late, normalised and processed as interleaving requests; whitelist changes, resets, restarts, failing calls, slow sends | `min_attempts` logins of an address, or of a host without one, within a window are escalated, in whatever order they reach the extractor, unless the window has been at its cap; below Wazuh's floor nothing but own events of the last window escalates a login; the floor is always dispatched; messages of a key are a cooldown apart; the window keeps its cap |
| `Blocklist` | hosts and what is done to them, one component per behaviour. Two confirmations over three hosts, lost SSH answers, dying servers, re-recommendations, a host that comes or goes; *or* two onboarding calls over three machines (one without the package) and two names, beside the synchronisation of the inventory, with restarts, calls that break off and lost connections | rows that say "executed" are true; blocking implements the human gate; every confirmation is answered unless its server dies. A host counts as active only if its agent has connected from a machine that was to be onboarded; a machine imports the key of another agent only when two calls ran on it at once; the inventory follows the manager |
| `Whitelist` | two addresses, one seeded; a confirmation, an admin request, ticks, a restart, failures | only what a human asked for is exempted; whitelisting implements the gate on the way in; the cache converges |
| `Retention` | two rows with any timestamp, inserted between any two steps of a failing job | only expired rows go, promised months are covered, every expired row goes in the end |
| `Posture` | a job for the fleet and one for a host beside the rows of an earlier scan; failing scanners and updates, dying servers | a pillar (containers aside, which go image by image) holds the rows of complete scans only; a scanned pillar does not become "never scanned"; every scan thread ends; a refusal ("already running") does not last |
| `Findings` | scans of six pillars of two hosts, one out of support, one with Debian's packages; sources that fail in one scan and not in the next, keys that come twice, restarts of the server, a day that passes | what is called fresh, rows of images aside, was written within a day; an urgent CVE whose details, ecosystem and package could be read is listed as actionable; a wider binding of a port is never rated lower; the views of the fleet and of a host give the same counts |
| `Watcher` | two servers that may both read an event before either notes it, opencode that is not found at times; two events that commit late or at the watermark; failing polls, dying servers | an event has a run per server and lost note at most; what a poll has read is triaged in the end |
| `Investigation` | two sessions with four calls of seven tools on two investigations and one report file; exceptions, lost audit rows, dying servers | a verdict rests on findings with citations; evidence ids collide only when two sessions record at once; what has changed the tables has its audit row, unless that was lost; a PDF shows the report it is handed out for, unless sessions met on its file, a conversion broke off or the report was written in the clock tick of its PDF |
| `Update` | four commands of two processes over three releases (the second adds a directory with two files, the third drops one of them), killed and failing at any step | updates work apart while the lock is left alone and not raced for; a rollback puts every file back to what was committed before the last apply, and only files of later releases stay beside them, unless commands overlapped, a `git branch` or `git checkout` failed or an update was never committed |

The violation states what the quoted line of a document says; the properties of the passing runs state
what the code does keep of it (`AcknowledgedUnlessFault`).  `MCBlocklist` explores blocking and onboarding apart: all that a
confirmation sees of onboarding is that a host becomes active, which is `Flap`.

## Bounds

Every bound is a CONSTANT named `Max...` or a finite set, used in a guard only.

- `MaxTime`: past `Stale + Window` in `IngestDedup`, so entries live through staleness and leave; past one
  window (cooldown) and one repetition in the others; past `StaleHours` in `Findings`.
- `MaxEntries` below the number of keys, `MaxWindowEvents` below the number of recordings (an event is
  recorded up to three times), so the caps are reached and passed.
- `MaxAttempts = 2` is one retry beside one attempt that is still running; a third attempt repeats the
  second's situation.  The hook's own value is 3 (`max_attempts`).
- `MaxOutages`, `MaxChanges`, `MaxRequests`, `MaxRestarts`, `MaxFlaps`, `MaxMishaps`: one fault between any two steps.
  The properties relate one step or one pair of rows, so a second fault finds nothing the first does not.
- `Calls`, `Onboardings`: two calls are the smallest race; three hosts give the
  partial scopes (two have seen the address, one has not); of the three machines two can be set up, and two names
  let the same name be used for two machines and two names for one.
- `MaxTs = 7`, months of two days, `MaxNow = 5`: rows in the past, in the promised months and beyond;
  `MaxNow` lets a month begin, end and expire.
- `Posture`: two jobs are the smallest race; three pillars, one of each shape (replaced whole, image by image,
  a single row), give every interleaving of their transactions.  A third, completed job has left the rows that are there at first.
  Ages stop at one past the age at which a job counts as dead.
- `Findings`: two scans after an initial one suffice for a pillar that is replaced, kept by a failure, or out of date; the software is chosen so that
  each rule of the triage decides (kernel, running service, KEV, EPSS, patched, an alias twice, a package without a version).
- `Watcher`: `Limit` is the number of events, so a batch is not cut (the code's 50); a cut batch is one more way for
  an event to be passed over, see below.  `MaxTime = 2` puts an event before, at and after a watermark; two faults let
  a poll fail in two servers or twice in one, or an event be passed over in one and noted in vain in the other.  Both servers may triage, so the bound of two runs is met.
- `MaxCalls = 4`: two findings and two calls that close or report; one name makes every two reports meet on one file.
- `MaxCommands = 4`, three releases: an apply that is cut off, one that succeeds, and two rollbacks between or beside them.  One directory of two files beside
  `VERSION` is enough for a half-updated tree, for files that a rollback leaves behind (release 1 has none of them) and for one that an update leaves (release 3 drops it).
- `Detection`: two hosts without address and one address are the least for windows that could be confused; three events are one more than `MinAttempts`; one
  change is a failure, a reset, a restart or another whitelist between any two steps.  `Lags = {0, 2}` with `MaxTime = 2` gives events of three seconds, the first of which reach the extractor
  after younger ones, so with `WindowSeconds = 1` an event may be within a window of two others that are not within one of each other; a web error that the model scores twice fills the deque
  beyond its cap of three.
- `BootAges = {1}` in `Detection`: the host has been up for a cooldown when Core starts; see below for what
  happens otherwise.

Symmetry is used only where a run has no liveness property (`Permutations` of keys, events, servers, processes, whose
identities nothing compares).  Runs whose counters stop have no successor in the end, so they say
`CHECK_DEADLOCK FALSE`; `IngestDedup` and `Watcher` never stop and are checked for deadlock.

## Fairness

- `Ingest!HookFairness`: weak fairness of each hook's steps.  The operating system runs the process, and each
  wait in it is bounded by `timeout_seconds` or the back-off.  Nothing is assumed of Core, which may hang.
- `Blocklist!FairSpec`: weak fairness of each call's next step; `_ssh_iptables_drop` has a timeout of 30 s.
  A server may die at any step.
- `Onboarding!OnboardSpec`: weak fairness of the two steps of `hosts_sync`, which the scheduler of Core starts every minute.  None
  for a call of onboarding, whose SSH commands have no timeout, for agents or for people; `InventoryConverges` holds nevertheless, because the
  synchronisation writes last.  Its premise (no agent is registered that never connected) is real: see below.
- `Whitelist!FairSpec`: weak fairness of the admin request, of a confirmation and of the tick's reading, strong fairness of the tick's
  writing: the loop in `core/scheduler/tick_loop.py` starts every two seconds and catches what fails, and the database does
  not fail every time.
- `Retention!FairSpec`: strong fairness of the job's steps: it is started daily, a failure ends one run, and a
  run does not fail at the same step for ever.  `Refused` (PostgreSQL rejects a session because of rows that
  came in between) needs only weak fairness, and `ExpiredIsRemoved` holds in spite of it.
- `Posture!FairSpec`: weak fairness of each scan thread's next step and of time.  The calls of the scanners have time
  limits, and a blocked DELETE is released when the transaction it waits for ends.
- `Watcher!FairWatchSpec`: weak fairness of each watcher's next step: the loop catches what a poll raises and waits 30 s.

Fairness is not assumed for humans, agents, new requests, faults or the passing of time elsewhere.  `Detection`, `Findings`, `Investigation`
and `Update` have safety properties only: a tool call or a command may stop at any point.

## What is proved

TLAPS has checked these for every value of the constants that satisfies the module's ASSUME.

Every safety property of the passing runs is a theorem here; each rests on an inductive invariant that is a conjunction of named parts,
and each action has a lemma that it keeps the parts it can disturb.

**`IngestProofs`**, the filter.  `DedupInv` is type correctness, `RemembersWindow`, `NearlySorted`, and: a
live entry that was not forgotten carries the time of its own acceptance, and no entry is dated in the future.
`RemembersWindow` is not inductive alone: the expiry loop stops at the first fresh entry, and whether it
can take a young one with it depends on the order of the dict, which duplicates disturb.  `NearlySorted`
says how far: by less than one window.  From it `ExpiryLoop` shows that what leaves is past its window and
what stays is younger than `Stale + Window`.  `Suppress`, `Accept` (with and without eviction), `Forget` and
`Tick` preserve the invariant, one lemma each.  Theorems: `DedupInvariant`, `DedupTypeCorrect`,
`WindowIsRemembered`, `OrderIsNearlySorted`, `SuppressionHasTwin`, `ExpiryIsComplete`, and `CapIsKept`, which needs
the order to be total (an oldest entry exists) and finite.

**`IngestProofs`**, the way of an alert into the database.  `IngestInv` adds to `DedupInv` what a hook knows and what the filter stands for.
A hook asks again with a request of its own (`AttemptsLeft`), has been told what it believes by its last request (`DeliveredWasTold`), and, where
`get_db` closes first, no reply precedes its commit (`NoEarlyReply`): hence `ProcessedAreCommitted`.  The rows are the requests that ended well (`StoredAreOk`),
the filter has let in exactly those that came to run (`BornHaveBegun`) and remembers those of the present era with no earlier a time
(`BornIsRemembered`); so a new one of the same key is a window away from each of them (`BornApart`), which is `RowsApart` for requests that are not
committed yet: `StoredRowsAreApart`.  While nothing has failed, each key of the filter and each answer "deduplicated" rests on a request that has its row or is on
its way to it (`NothingLost`): `AcknowledgedUnlessDisturbed`.

**`HostsProofs`**, blocking.  `BlockInv` adds to type correctness and `ExecutedHasRule`: the hosts a call counts as done do drop
its address (`ok` only grows with `rule`, and rules are never withdrawn); an answer "executed" comes with
`ok = scope`; the address of a call that has begun is approved, and so is that of every rule.  Without the link from `ok` to `rule`,
`Finish` could not be shown to keep `ExecutedHasRule`, because the rule was inserted many steps earlier and the row may have been reset and executed in
between by another call.  Theorems: `BlocklistInvariant`, `BlocklistTypeCorrect`, `ExecutedIsEnforced`,
`AnswerIsTrue`, and `BlockingIsGated`: under the mapping of `Gate`, a confirmation is an `Approve`, an SSH command
an `Enforce` or a stutter, everything else a stutter.

**`HostsProofs`**, onboarding.  A name gets onto a machine only by a call for that machine (`KeysAreMeant`).  What says "active" says it of an agent that has connected
from a machine it was meant for, at each of the places where a status may wait to be stored: the manager, the list of the synchronisation, the report of a call, the table
(`ManagerIsRight`, `ListingIsRight`, `ReportIsRight`, `TableIsRight`).  The file a call is about to import holds its key or that of a call that the history has beside
it (`FileIsExpected`, `BesideIsComplete`), and so does what it has imported (`ImportIsExpected`).  Theorems: `OnboardInvariant`, `ActiveHostsHaveConnected`,
`KeysAreOwnOrFromBeside`.

**`WhitelistProofs`.**  Every snapshot that may become the cache or a row holds only what was asked for: the active rows and the seeds (`AskedInTable`), what the tick and a
request have read, and what a request is about to add (`AskedInCore`).  A confirmation activates a row by its id, steps after a human saw it, and rows are deleted and added
meanwhile; that it cannot activate another address needs that ids are drawn once (`IdsAreDrawn`) and belong to one address for ever (`IdsAreOwned`, by a function from
ids to owners that grows with the ids).  Theorems: `WhitelistInvariant`, `WhitelistTypeCorrect`, `IdsHaveOneOwner`, `CachedWereAsked`, and `WhitelistingIsGated`, the
refinement of `HumanGate`, in which the import at a restart approves several addresses in one step.

**`DetectionProofs`.**  The deque of an address or agent is neither sorted nor within a window, since it is trimmed from its front against each event at hand, and these come in any order.
What the decision rests on is `Covered`: of the events that have been recorded under its key, each that is at most a window older than every other has a place of its own in the
deque, as long as that has not been at its cap; and `OwnEvents`: nothing else is in it, so a login below the floor is escalated by events of its own address or agent only.  A trim takes only what is more than a window older than the event at hand, so it takes no such place.  The rest is that
messages sent or under way are noted in `_last_sent` (`ToldIsNoted`), and that what was recorded has arrived (`CountedHaveArrived`).  Theorems: `DetectionInvariant`,
`DetectionTypeCorrect`, `MessagesAreApart`, `BurstsAreEscalated`, `FloorIsAlwaysDispatched`.  Those speak of logins as `normalize_event` sees them; `LoginsAreRecognised` and
`OnlyLoginsAreDecided` say that these are the alerts with a group of logins and none of another channel, from the order of `TypesByGroup`, for alerts with any groups.

**`RetentionProofs`.**  `RetentionInv` is type correctness (which says where rows are), that the time a session has noted
has passed, and that a promised month has a partition until it has expired.  Theorems: `RetentionInvariant`,
`RetentionTypeCorrect`, `OnlyExpiredIsRemoved`, `PromiseIsKept`.  The calendar is any pair of functions with
days before the end of their month, so months of every length are covered.

**`ServerProofs`**, investigations and reports.  Each tool reads in one transaction and writes in another, so `InvestigationInv`
says what is still true when it writes.  Calls have numbers of their own and a call records one finding at most; hence the numbers a call has
seen are as many as the findings they stand for, and a finding that has seen another has seen all that the other had seen, and the other as well: it counted
more.  Findings are never changed or deleted, so a verdict that rests on cited ones goes on doing so (`CitedStays`).  Every change of the tables
is made under the number of a call that is under way, and a call ends with its audit row or is lost (`ChangesAsItself`).  As long as nothing has disturbed
a report's name, every call that works on it has noted what the file shows, and so does a PDF that is not older (`FilesAreShown`): `PdfShowsReport`
speaks of the last moment only and is not inductive.  Theorems: `InvestigationInvariant`, `EvidenceIdsAreApart`, `VerdictsAreCited`, `ChangesAreAudited`,
`PdfsShowTheirReport`, for any number of sessions, calls, investigations and names.

**`ServerProofs`**, the watcher.  The runs of an event are counted against what accounts for them: until it is noted, they are those whose note was lost and those
in hand (`RunsInHand`); from then on there is room for one more for every server that has read it and not come to it yet (`RunsToCome`), because a server polls
anew only when it has done with its batch, and no poll reads what is noted.  Theorems: `WatchInvariant`, `TriageRunsAreBounded`.

**`PostureProofs`**, the scan jobs.  The difficulty is the DELETE that has waited for another transaction and then deletes what it saw before.  `PostureInv` says what each
open transaction will delete: whole scans (`TransactionsDelete`), and that the rows it has not seen are of a transaction beside it, known as such to
both (`TransactionsAreBeside`).  Rows are of scans that have succeeded (`RowsAreOfSuccess`), and a job has noted nothing of a pillar it has still to come to
(`AheadIsOpen`), so it stores its rows there once.  Theorems: `PostureInvariant`, `PostureTypeCorrect`, `RowsAreOfWholeScans`, `ScannedStaysScanned`.

**`PostureProofs`**, what the scans store.  `FindingsInv` goes table by table (`CvesFit`, `PortsFit`, `AccountsFit`, `ChecksFit`, `ModulesFit`, `ImagesFit`): finitely many rows, of a host
of the inventory, with the times they may have, all at once but for images, and with scores as the scanners compute them.  For CVEs it ties the rows to what the scan was
told: every answer that leaves a package unpatched has its row, actionable if urgent (`AnswersAreListed`).  The views are several queries over the same rows.  That they
agree (`ViewsAgree`) comes down to the groups of a fleet view: a host and a value make one group, or none (`FleetCveGroups`, `FleetExposureGroups`, `FleetScaGroups`), so a sum over them
is one count or 0 (`EntryOfGroup`); to equal sets of rows behind a count and its listing; and to the existence of a listing (`SubsetOfSize`) and of a last time
(`GreatestTime`) for finitely many rows.  Theorems: `FindingsInvariant`, `FindingsTypeCorrect`, `FreshScansAreRecent`, `UrgentCvesAreListed`, `WiderBindingsAreRiskier`,
`ViewsAreConsistent`.

**`UpdateProofs`.**  Whoever applies has the lock until two raced for it or the operator removed it (`ApplierHasLock`).  `OrderlyInv` holds until commands overlap, a `git branch`
or `git checkout` fails or an update is left uncommitted: one process is busy; what is committed has every file its release ships (`CommittedIsComplete`), and so have the
branches, each of the release it is named for (`BranchesAreComplete`).  A checkout deletes nothing, so a commit may also hold files of other releases, and the branch an apply
finds may have been made from another commit of the same release.  What survives is agreement up to a release (`SameUpTo`, by `Kept`, which blinds out later files): the
newest branch agrees with what the last apply found committed (`BackupIsBefore`), and where that branch has no file the working copy has only a later one (`OthersAreLater`).  Each
command is as far as its step says (`CommandsFit`: paths already restored or updated hold the new files, the others are still to do).  Theorems: `UpdateInvariant`, `UpdatesWorkApart`, `RollbackRestoresBackup`.

**Assumptions.**  The named ASSUMEs of the modules, which TLC evaluates in the runs: bounds are natural numbers, windows and caps positive, sets of servers and calls finite where they are
counted, sources answer with finitely many items and with severities and scopes of their enumerations.

**What the proofs have corrected.**  `BurstIsEscalated` was false as first stated: a window that has reached its cap drops events, also because events of other channels take places in it;
the property and `full` say so now.  `RowsAreWholeScans` is false for a plan that visits a pillar of a host twice.  An import that approves several addresses was no single step of
`HumanGate`.

**Only model-checked:** liveness (`HookTerminates`, `ConfirmAnswers`, `InventoryConverges`, `CacheConverges`, `ExpiredIsRemoved`, `RefusalEnds`,
`ScanEnds`, `ReadIsTriaged`), which is out of the prover's reach.

## Known disagreements with the documentation

One has a run, `IngestAck`, the violation above.  The others were met while modelling, in the code that is modelled or beside it.

Ingest, detection, whitelist, retention:

- `core/modules/decision_policy.py:191`: `should_alert` scores an SSH event that `process_event` has recorded already, which records
  it again; the count of the window is not the number of requests `ml/feature_contract.py:53` speaks of.
- `lureguard_mcp/repos/whitelist.py:32`: a new recommendation of an active address resets `executed`, so an agent takes it off
  the whitelist without a human, where `docs/ARCHITECTURE.md:128` calls removal human-gated like confirm.  `Whitelist` implements
  `HumanGate` with `LiftGated = FALSE` for that reason.
- `lureguard_mcp/blocklist.py:186`: one host that took the rule is enough for the row to be executed; the hosts that failed stay
  open, and a repeated confirmation answers `already_executed` (against the scope in `docs/ARCHITECTURE.md:125`).
- `core/modules/ingest_dedup.py:33` calls the front of the dict its oldest entry; a suppressed duplicate
  moves to the end with its old time.  Harmless: see `NearlySorted`.
- With a framework version that replies before `get_db` is closed (`core/db/session.py:84`), the reply precedes the
  commit, and INV-1 fails on a failing commit, too.
- Alerts without `data.srcip` share the part "unknown" of their key, so two hosts' occurrences in one second
  collide (`core/api/wazuh_endpoint.py:40`).
- `core/modules/alert_dedup.py:23` reads a missing entry as time 0: on a host that has been up for less than
  a cooldown the first alert of every source is suppressed without a message.
- `ml/extractor.py:136`: events of other channels that are scored take places in the deque of their source's logins, so with enough of them within a
  window a burst falls out at the cap.
- An event of level 10 is always dispatched, and may then be held back by the cooldown of a lesser one.
- `ml/extractor.py:136`: a late event is appended behind newer ones, and stays until they leave.
- `ml/extractor.py:94` and `_last_sent` keep an entry per source for ever; `decisions` has no retention
  (`core/db/models.py:66`), against INV-4 (`docs/INVARIANTS.md:56`).
- `core/runtime/whitelist.py:61` imports the seed file whenever the table is empty at a start, so an entry that was
  removed last comes back.
- `core/api/admin_api.py:91` fills the cache before the commit; after a rollback the cache is wrong until the next tick.
- `lureguard_mcp/whitelist.py:68` answers "active" although the row may have been removed in between.
- `core/retention.py:22` says that no new rows reach DEFAULT; late and future timestamps do.
- `README.md:212` says that there is no retention.
- A failed send has started the cooldown and is never repeated (`core/modules/alerting.py:72`).
- `core/db/crud.py:26`: two events of one new address both find no geolocation and both insert it; the second request fails and the hook
  repeats it.
- The channel "windows" of `should_alert` is produced by no alert of the collector.

Posture and its views:

- `lureguard_mcp/scan_scheduler.py:284`: "already_running" does not exclude a second scan: two triggers may both find no running job, the
  scheduled scan does not ask, and a row that is still queued does not count.
- `skills/refresh-posture.md:35` says that cached data stay unchanged until the scan is complete; the rows are replaced pillar by pillar.
- The container pillar may work 900 s on each image without a heartbeat, so a live job can look dead to a trigger.
- A host without CVEs or containers has no row and stays "never scanned"; rows of images that are stopped or whose scan fails stay and are counted.
- With the exposure and SCA pillars the fleet's view may say "not scanned" while the host's snapshot is fresh: they look at different rows.
- An advisory that OSV lists twice for one package violates `uq_cve_findings_agent_pkg_cve` and the storage of the whole scan fails; one whose details
  cannot be fetched is stored without severity, alias and fix (`lureguard_mcp/vuln_scanner.py:138-160`).
- `lureguard_mcp/vuln_scanner.py:222-242` pairs packages and answers by position, and a package without name or version shifts the pairs.
- A host whose system cannot be read is taken for Ubuntu, and its "end of life" mark is cleared; a failing SSH for `docker ps` is stored as "no
  containers"; a "never" of lastlog hides an account that is logged in.
- `lureguard_mcp/cve_triage.py:84`: a KEV list that could not be fetched once stays empty for the life of the process.  EPSS raises the priority and
  never `actionable`, and a value that is filled in later does not change the priority.  `version_gte` knows no epoch and no tilde.
- The mean time to detect of the SOC health view joins every earlier event with each investigation (`lureguard_mcp/repos/posture.py`,
  `get_soc_health_db`).

Watcher, investigations, reports:

- `docs/SKILLS-AND-MODES.md:77` says that the watcher "polls Postgres every 30s for new events"; an event whose request commits after a poll with a time
  before that poll's watermark is never read.
- `lureguard_mcp/repos/events.py:310`: a poll reads 50 events at most, and its end moves the watermark past all others; a server
  without opencode (`alert_watcher.py:81`) moves it past those it has passed over, too.
- Two servers that poll at once both triage the same event: the row in `watched_events` is written after the run is started.
- `lureguard_mcp/repos/investigations.py:260` advises to "call record_finding again with a citation" when one is missing; findings are never updated
  or deleted, so the uncited one stays and the investigation cannot be closed.
- Uncited findings may be added after, or while, an investigation is closed, and a closed one may be closed again.
- The audit row of a close names no investigation, and the current investigation of a session is lost between calls with FastMCP.
- Reports of one day and title overwrite each other's file; the PDF of an older report may get a later time than the markdown of the newer one and is
  then reused (`lureguard_mcp/report_pdf.py:220`), and a conversion that breaks off leaves a broken PDF that the next call sends as "reused".
- `confirm_block`, `confirm_whitelist`, `confirm_restart_agent` and the tools of the update have a `caller` that is "human" by default, so the gate is the agent's
  word.
- When both providers of enrichment fail, an address is called "benign".

Onboarding, inventory, update:

- `server.py` says that `onboard_host_tool` "Installs wazuh-agent over SSH".  `dpkg -l wazuh-agent | grep -c '^ii' || echo 0`
  (`lureguard_mcp/onboarding.py:149-151`) prints `0` twice when nothing is installed, which is not "0": the installation is skipped and the copy of the
  configuration fails.  A host can be onboarded only when the package is there (`Prepared`).
- A call that breaks off leaves its agent registered with the address "any", which the column `hosts.ip` does not take: while there is such an agent
  `hosts_sync` stores nothing.  Agents that the manager has removed keep their last row, and stay in the scope of a block.
- Onboarding a second machine under a name that is taken gives it the key of the first; calls on one machine share `/tmp/lureguard-agent-import.in`;
  neither the connection nor a command has a timeout; at most 500 agents are read.
- After a dismissal the commit of the next update is skipped, because `git add` of the deleted, ignored `.update-dismissed` fails; "say 'check for updates' to
  re-enable" is not so: a check answers "dismissed" until an apply.
- "Rolling back..." (`update-system.py:229-232`) restores from the index, which holds the update already.
- The backup branch is named after the version of the working copy and kept when there is one; an apply that changes nothing makes one too, so that a
  rollback changes nothing.  A rollback looks at no lock.
- "Restored N path(s)" (`update-system.py:294`) does not undo an update: `git checkout <branch> -- <path>` deletes nothing, so the files that the update has added stay
  after a rollback (and are committed with it), and files that a release drops stay after an update.  `RollbackReturns` speaks of the files up to the restored release.
- `update-system.py:204` says "already exists" for every failure of `git branch`: the update goes on without a backup, and a rollback then restores an older one or
  none.  A path that cannot be checked out, for whatever reason, is passed over without a word (`:215`, `:284`).

## What is not modelled

Scoring models, features, data sets and training are floating-point batch programs; a score is an input of `Detection`.
Address enrichment asks services and keeps nothing.  Charts, layout and the text of
reports, text handling for the agent, `doctor`, seeds, the load test and the development scripts keep no state that others use.  The
rules of iptables are taken as durable: the code never reads them back, so a host's reboot cannot be told from
an operator's `iptables -D`.  Of the tools of the MCP server those are modelled that change something; `restart_agent` is a step of `Onboarding`.  PostgreSQL, Wazuh,
SSH, OSV, Trivy, git, Telegram and the MCP client are the environment, modelled by what the code relies on.

## Plan

There is room for a dozen runs, and there are a dozen; a new question takes the place of another or joins a run of its module.

1. *Done:* the modules above, and theorems for every safety property of the passing runs.
2. More theorems: the refinement of further abstract specifications (a report and its PDF, the lock of the updater).
3. The composition of `Ingest` with `Watcher`, so that the late commit is that of a request, and with the dispatch of `Detection`, which
   comes before the commit (the one hazard without a property).
4. The features of `ml/alert_features.py` and the verdicts of `lureguard_mcp/enrichment.py` as operators.
