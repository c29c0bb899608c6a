------------------------------- MODULE Findings -------------------------------
(***************************************************************************)
(* What a posture scan of a host stores and what is read back: the six     *)
(* scanners of lureguard_mcp, the tables of repos/posture.py and the       *)
(* views on them, per host (posture_snapshot.py) and for the fleet.        *)
(*                                                                         *)
(* Here a scan of a pillar is one step; how scans run beside each other    *)
(* is the subject of Posture.  What a scan meets is chosen from small      *)
(* sets: the software, ports, checks, accounts and images of a host, and   *)
(* which of its sources answer.                                            *)
(***************************************************************************)
EXTENDS Scoring, Sequences, SequencesExt, FiniteSets, FiniteSetsExt

CONSTANTS
  Hosts,       \* agents of Wazuh
  EolHosts,    \* those whose operating system is out of support
  Software,    \* what a host may have installed: sequences of packages, each of
               \* them one batch of questions to OSV
  Services,    \* names of packages of which a process may run
  OsOf(_),     \* the ecosystem of a host's packages: "Ubuntu", "Debian"
  VulnsOf(_,_), \* what OSV knows of a package of an ecosystem, a set of records
  Unreadable,  \* the sets of advisories whose details may not be readable
  KevFeed,     \* the CVEs of CISA's list
  Epss(_),     \* the EPSS score of a CVE; 0: none
  Listening,   \* the sets of ports a host may have open
  Policies,    \* SCA policies
  Checks,      \* the sets of check results a policy may report
  Accounts,    \* the sets of accounts a host may have
  Modules,     \* modules of the Wazuh agent: FIM and rootcheck
  FirstScan,   \* the software of the first scan, of Software
  ImageSets,   \* the sets of images a host may run
  ImageCves,   \* the sets of CVEs Trivy may find in an image
  Unread,      \* the KEV list before it has been asked for
  Limit,       \* the limit of a listing
  StaleHours,  \* CACHE_STALE_HOURS
  Waits,       \* the times that may pass, in hours
  MaxTime,     \* bound: hours that pass
  MaxScans     \* bound: scans of a pillar

ASSUME FindingsAssumption ==
  /\ EolHosts \subseteq Hosts /\ FirstScan \subseteq Software
  /\ \A packages \in Software : Len(packages) \in Nat
  /\ \A packages \in Software : \A i \in 1..Len(packages) :
       \A ecosystem \in {"Ubuntu"} \cup {OsOf(h) : h \in Hosts} :
         /\ IsFiniteSet(VulnsOf(packages[i], ecosystem))
         /\ \A v \in VulnsOf(packages[i], ecosystem) :
           /\ DOMAIN v = {"id", "cve", "cvss", "scored", "rating", "patched"}
           /\ v.cvss \in Nat /\ v.scored \in BOOLEAN /\ v.rating \in Severities
  /\ \A ports \in Listening : \A p \in ports : p.scope \in Scopes
  /\ \A found \in ImageCves : \A c \in found : c.severity \in Severities \cup {""}
  /\ IsFiniteSet(Policies) /\ Limit \in Nat \ {0}
  /\ \A answer \in Listening \cup Checks \cup Accounts \cup ImageSets \cup ImageCves :
       IsFiniteSet(answer)
  /\ StaleHours \in Nat /\ Waits \subseteq Nat \ {0}
  /\ MaxTime \in Nat /\ MaxScans \in Nat

VARIABLES
  now,        \* hours
  hosts,      \* the table hosts
  eol,        \* its column eol_os
  kev,        \* what _kev_cve_ids remembers in this process
  cve,        \* cve_findings of each host, and so on
  exposure,
  sca,
  users,
  coverage,   \* detection_coverage
  containers, \* container_cve_findings
  runtime,    \* container_runtime: the images that ran at the last scan
  source,     \* history: what the scan that cve comes from was told
  scans

tables == <<cve, exposure, sca, users, coverage, containers, runtime>>
findVars == <<now, hosts, eol, kev, tables, source, scans>>

CountScan == scans < MaxScans /\ scans' = scans + 1

-----------------------------------------------------------------------------
(***************************************************************************)
(* Replacing the rows of a host: DELETE and INSERT in one transaction,     *)
(* which fails as a whole on a key that comes twice and, for the tables    *)
(* that reference hosts, on a host that is not in the inventory.           *)
(***************************************************************************)
DistinctOn(rows, Key(_)) == \A r, s \in rows : Key(r) = Key(s) => r = s

Accepted(h, rows, Key(_)) == DistinctOn(rows, Key) /\ (rows = {} \/ h \in hosts)

\* A pillar without findings keeps a placeholder, so that it counts as scanned.
OrPlaceholder(rows, row) == IF rows = {} THEN {row} ELSE rows

-----------------------------------------------------------------------------
(***************************************************************************)
(* scan_agent_vulnerabilities.                                             *)
(***************************************************************************)

\* A package without name or version is not asked about, yet the answers are
\* matched with the packages by position: package i gets the answer for the
\* i-th of those that have been asked about, package j.
Asked(packages, i, j) ==
  packages[j].named /\ Cardinality({k \in 1..j : packages[k].named}) = i

Answers(packages) ==
  LET places == 1..Len(packages)
  IN UNION {{<<packages[i], packages[j]>> : j \in {x \in places : Asked(packages, i, x)}}
             : i \in places}

\* _osv_ecosystem; Ubuntu when the operating system could not be read.
Ecosystem(h, osRead) == IF osRead THEN OsOf(h) ELSE "Ubuntu"

\* _ensure_vuln_detail: without its details an advisory is known by its own id
\* and has no severity, no alias and no fixed version.
Detail(v, unread) ==
  IF v.id \notin unread THEN v
  ELSE [v EXCEPT !.cve = v.id, !.cvss = 0, !.scored = FALSE,
                         !.rating = "unknown", !.patched = FALSE]

\* Whoever gives a score, 0.0 too, is believed rather than Ubuntu's rating.
Severity(v) == IF v.scored THEN SeverityOfCvss(v.cvss) ELSE v.rating

\* told: the ecosystem asked about, and the advisories without details.
Unpatched(p, told) ==
  {v \in {Detail(w, told.unread) : w \in VulnsOf(p, told.ecosystem)} : ~v.patched}

Runs(p, running) == p.name \in running

Finding(p, v, running, list, isEol) ==
  [meta |-> p.meta, running |-> Runs(p, running), kev |-> v.cve \in list,
   severity |-> Severity(v), cvss |-> v.cvss, eol |-> isEol]

\* fetch_epss_batch; 0 when FIRST.org does not answer.
FetchedEpss(c, answers) == IF answers THEN Epss(c) ELSE 0

\* first, second: does FIRST.org answer the scan, and the back-fill after it?
\* Only the former raises the score, and neither what is actionable.
CveRow(p, v, f, first, second) ==
  [package |-> p.name, cve |-> v.cve, id |-> v.id, severity |-> f.severity,
   kev |-> f.kev, actionable |-> Actionable(f),
   priority |-> Priority(f) + EpssBoost(FetchedEpss(v.cve, first)),
   epss |-> FetchedEpss(v.cve, first \/ second), at |-> now]

CveRows(told, running, list, isEol, first, second) ==
  UNION {{CveRow(pair[1], v, Finding(pair[1], v, running, list, isEol), first, second) :
           v \in Unpatched(pair[2], told)} : pair \in Answers(told.packages)}

\* The list of CISA is asked for once in a process; when that fails, it stays
\* empty.
KevLists == IF kev = Unread THEN {KevFeed, {}} ELSE {kev}

CveKey(row) == <<row.package, row.cve>>

\* is_eol_os; not when the operating system could not be read.
IsEol(h, osRead) == osRead /\ h \in EolHosts

\* set_host_eol_os_db, an update of a row that may not exist.
NoteEol(h, isEol) == eol' = [eol EXCEPT ![h] = IF h \in hosts THEN isEol ELSE @]

\* The operating system may not be readable, nor the processes.
ScanVulnerabilities(h) ==
  /\ CountScan
  /\ \E packages \in Software, running \in SUBSET Services, list \in KevLists,
        unread \in Unreadable, osRead, first, second \in BOOLEAN :
       LET told == [packages |-> packages, ecosystem |-> Ecosystem(h, osRead),
                    unread |-> unread]
           rows == CveRows(told, running, list, IsEol(h, osRead), first, second)
       IN /\ NoteEol(h, IsEol(h, osRead))
          /\ kev' = IF rows = {} THEN kev ELSE list
          /\ IF Accepted(h, rows, CveKey)
             THEN /\ cve' = [cve EXCEPT ![h] = rows]
                  /\ source' = [source EXCEPT ![h] = told]
             ELSE UNCHANGED <<cve, source>>
  /\ UNCHANGED <<now, hosts, exposure, sca, users, coverage, containers, runtime>>

\* The packages cannot be read or OSV does not answer: nothing is stored but
\* whether the operating system is out of support.  What OSV answered to earlier
\* batches may have made the process ask for the list of CISA.
ScanVulnerabilitiesFails(h) ==
  /\ CountScan
  /\ \E osRead \in BOOLEAN : NoteEol(h, IsEol(h, osRead))
  /\ kev' \in {kev} \cup KevLists
  /\ UNCHANGED <<now, hosts, tables, source>>

-----------------------------------------------------------------------------
(***************************************************************************)
(* The other scanners.  When Wazuh does not answer they store nothing.     *)
(***************************************************************************)

ExposureRows(ports) ==
  OrPlaceholder(
    {[port |-> p.port, scope |-> p.scope, at |-> now,
      risk |-> ScorePort(p.port, p.scope)] : p \in ports},
    [port |-> 0, scope |-> "specific", at |-> now, risk |-> "info"])

\* Fault: what was there stays beside what was found.
ScanExposureKeeping(h) ==
  /\ CountScan
  /\ h \in hosts
  /\ \E ports \in Listening :
       exposure' = [exposure EXCEPT ![h] = @ \cup ExposureRows(ports)]
  /\ UNCHANGED <<now, hosts, eol, kev, cve, sca, users, coverage, containers, runtime,
                 source>>

\* scan_agent_exposure; the scanner drops a port that comes twice.
ScanExposure(h) ==
  /\ CountScan
  /\ h \in hosts
  /\ \E ports \in Listening : exposure' = [exposure EXCEPT ![h] = ExposureRows(ports)]
  /\ UNCHANGED <<now, hosts, eol, kev, cve, sca, users, coverage, containers, runtime,
                 source>>

ScaRows(report) ==
  OrPlaceholder(
    UNION {{[policy |-> p, check |-> c.check, result |-> c.result, at |-> now] :
             c \in report[p]} : p \in DOMAIN report},
    [policy |-> "none", check |-> "none", result |-> "notapplicable", at |-> now])

\* scan_agent_sca; a policy whose checks cannot be read is left out.
ScanSca(h) ==
  /\ CountScan
  /\ h \in hosts
  /\ \E readable \in SUBSET Policies : \E report \in [readable -> Checks] :
       sca' = [sca EXCEPT ![h] = ScaRows(report)]
  /\ UNCHANGED <<now, hosts, eol, kev, cve, exposure, users, coverage, containers,
                 runtime, source>>

\* _normalize_wazuh_user: an account without a name is left out; whether somebody
\* is logged in counts only when nothing is said of the last login.
Normalized(accounts) ==
  {[name |-> u.name, uid |-> u.uid, interactive |-> u.interactive,
    loggedIn |-> IF u.login = "" THEN u.session ELSE u.login # "never"] :
    u \in {w \in accounts : w.name # ""}}

UserRows(accounts) ==
  OrPlaceholder(
    {[name |-> u.name, uid |-> u.uid, risk |-> ScoreUser(u), at |-> now] :
      u \in Normalized(accounts)},
    [name |-> "_none_", uid |-> 0, risk |-> "info", at |-> now])

\* Fault: the table has no key on the name.
ScanUsersUnchecked(h) ==
  /\ CountScan
  /\ h \in hosts
  /\ \E accounts \in Accounts : users' = [users EXCEPT ![h] = UserRows(accounts)]
  /\ UNCHANGED <<now, hosts, eol, kev, cve, exposure, sca, coverage, containers,
                 runtime, source>>

\* scan_agent_users; an account that is reported twice fails the transaction.
ScanUsers(h) ==
  /\ CountScan
  /\ \E accounts \in Accounts :
       /\ Accepted(h, UserRows(accounts), LAMBDA r : r.name)
       /\ users' = [users EXCEPT ![h] = UserRows(accounts)]
  /\ UNCHANGED <<now, hosts, eol, kev, cve, exposure, sca, coverage, containers,
                 runtime, source>>

\* A module counts as enabled when it has results or the host's events of the
\* last day come from it; one that is enabled without such events is silent.
CoverageRow(results, events) ==
  [enabled |-> results \cup events, silent |-> Cardinality(results \ events),
   at |-> now]

\* scan_agent_detection_coverage, an upsert.
ScanDetection(h) ==
  /\ CountScan
  /\ h \in hosts
  /\ \E results, events \in SUBSET Modules :
       coverage' = [coverage EXCEPT ![h] = {CoverageRow(results, events)}]
  /\ UNCHANGED <<now, hosts, eol, kev, cve, exposure, sca, users, containers,
                 runtime, source>>

\* _parse_trivy_json.
Parsed(report) ==
  {[cve |-> c.cve, severity |-> IF c.severity = "" THEN "unknown" ELSE c.severity] :
    c \in report}

\* replace_container_cve_findings_db, for one image.
ImageRows(image, report) ==
  {[image |-> image, cve |-> c.cve, severity |-> c.severity, at |-> now] :
    c \in Parsed(report)}

\* What _list_running_containers may return: the images that run, or none when
\* the command fails.
RunningSets == ImageSets \cup {{}}

\* upsert_container_runtime_db: an empty answer, too, replaces what was known.
NoteRuntime(h, running) == runtime' = [runtime EXCEPT ![h] = running]

\* scan_agent_containers, on a host whose address is known: what runs is noted,
\* then image by image is scanned, in transactions of their own; what Trivy
\* cannot scan keeps its rows, and so does an image that runs no more.
ScanContainers(h) ==
  /\ CountScan
  /\ h \in hosts
  /\ \E running \in RunningSets :
       /\ NoteRuntime(h, running)
       /\ \E scanned \in SUBSET running : \E found \in [scanned -> ImageCves] :
            containers' = [containers EXCEPT ![h] =
              {r \in @ : r.image \notin scanned}
              \cup UNION {ImageRows(i, found[i]) : i \in scanned}]
  /\ UNCHANGED <<now, hosts, eol, kev, cve, exposure, sca, users, coverage,
                 source>>

-----------------------------------------------------------------------------
\* The tables are empty, or hold what one scan of everything, without CISA and
\* FIRST.org, has found everywhere.
EmptyTables ==
  /\ hosts = {}
  /\ kev = Unread
  /\ source = [h \in Hosts |->
       [packages |-> << >>, ecosystem |-> "Ubuntu", unread |-> {}]]
  /\ cve = [h \in Hosts |-> {}]
  /\ exposure = [h \in Hosts |-> {}]
  /\ sca = [h \in Hosts |-> {}]
  /\ users = [h \in Hosts |-> {}]
  /\ coverage = [h \in Hosts |-> {}]
  /\ containers = [h \in Hosts |-> {}]
  /\ runtime = [h \in Hosts |-> {}]

ScannedTables ==
  /\ hosts = Hosts
  /\ kev = {}
  /\ \E packages \in FirstScan :
       /\ source = [h \in Hosts |->
            [packages |-> packages, ecosystem |-> OsOf(h), unread |-> {}]]
       /\ cve = [h \in Hosts |-> CveRows(source[h], {}, {}, FALSE, FALSE, FALSE)]
       /\ \A h \in Hosts : Accepted(h, cve[h], CveKey)
  /\ exposure = [h \in Hosts |-> ExposureRows({})]
  /\ sca = [h \in Hosts |-> ScaRows(<< >>)]
  /\ users = [h \in Hosts |-> UserRows({})]
  /\ coverage = [h \in Hosts |-> {CoverageRow({}, {})}]
  /\ \E image \in UNION ImageSets, found \in ImageCves :
       /\ runtime = [h \in Hosts |-> {image}]
       /\ containers = [h \in Hosts |-> ImageRows(image, found)]

FindInit ==
  /\ now = 0
  /\ scans = 0
  /\ eol = [h \in Hosts |-> FALSE]
  /\ EmptyTables \/ ScannedTables

\* sync_hosts_from_wazuh, every minute; hosts are never removed.
SyncHosts ==
  /\ \E seen \in SUBSET Hosts : hosts' = hosts \cup seen
  /\ UNCHANGED <<now, eol, kev, tables, source, scans>>

\* The MCP server starts anew.
RestartServer ==
  /\ kev' = Unread
  /\ UNCHANGED <<now, hosts, eol, tables, source, scans>>

TimePasses ==
  /\ \E d \in Waits : now + d <= MaxTime /\ now' = now + d
  /\ UNCHANGED <<hosts, eol, kev, tables, source, scans>>

ScanPillar(h) ==
  \/ ScanVulnerabilities(h) \/ ScanVulnerabilitiesFails(h) \/ ScanExposure(h)
  \/ ScanSca(h) \/ ScanUsers(h) \/ ScanDetection(h) \/ ScanContainers(h)

FindNext ==
  \/ \E h \in Hosts : ScanPillar(h)
  \/ SyncHosts \/ RestartServer \/ TimePasses

FindSpec == FindInit /\ [][FindNext]_findVars

-----------------------------------------------------------------------------
(***************************************************************************)
(* The snapshot of a host (get_posture_snapshot).                          *)
(***************************************************************************)
NeverAt == -1

\* max(scanned_at), over all rows of the host, placeholders too.
LastScan(rows) == IF rows = {} THEN NeverAt ELSE Max({r.at : r \in rows})

Status(rows) ==
  CASE rows = {} -> "never_scanned"
    [] rows # {} /\ now - LastScan(rows) > StaleHours -> "stale"
    [] OTHER -> "fresh"

TablesOf(h) == {cve[h], exposure[h], sca[h], users[h], coverage[h], containers[h]}

Statuses(h) == {Status(rows) : rows \in TablesOf(h)}

Overall(h) ==
  CASE "never_scanned" \in Statuses(h) -> "never_scanned"
    [] "never_scanned" \notin Statuses(h) /\ "stale" \in Statuses(h) -> "stale"
    [] OTHER -> "fresh"

CountBy(rows, Value(_), values) ==
  [v \in values |-> Cardinality({r \in rows : Value(r) = v})]

\* Fault: the query without "AND actionable = true".
CveCountsOfAll(h) == CountBy(cve[h], LAMBDA r : r.severity, Severities)

\* get_agent_cve_counts_db, get_agent_exposure_counts_db,
\* get_agent_sca_summary_db.
CveCounts(h) ==
  CountBy({r \in cve[h] : r.actionable}, LAMBDA r : r.severity, Severities)

ExposureCounts(h) ==
  CountBy({r \in exposure[h] : r.port > 0}, LAMBDA r : r.risk, Risks)

Results == {"passed", "failed"}

ScaCounts(h) ==
  CountBy({r \in sca[h] : r.check # "none"}, LAMBDA r : r.result, Results)

ListedUsers(h) == {r \in users[h] : r.name # "_none_"}

UserCounts(h) == CountBy(ListedUsers(h), LAMBDA r : r.risk, Risks)

ContainerCounts(h) == CountBy(containers[h], LAMBDA r : r.severity, Severities)

RiskyUsers(h) ==
  UserCounts(h)["critical"] + UserCounts(h)["high"] + UserCounts(h)["medium"]

\* The users the snapshot shows: the critical ones or else those of medium risk.
TopUsers(h) ==
  LET critical == {r \in ListedUsers(h) : r.risk = "critical"}
  IN IF critical # {} THEN critical ELSE {r \in ListedUsers(h) : r.risk = "medium"}

(***************************************************************************)
(* The listings of a host: the rows a filter lets through, the highest     *)
(* first, up to a limit.  They repeat the conditions of the counts.        *)
(***************************************************************************)
Listings(rows, Rank(_)) ==
  {l \in SUBSET rows :
    /\ Cardinality(l) = Min({Limit, Cardinality(rows)})
    /\ \A r \in l, s \in rows \ l : Rank(r) >= Rank(s)}

CveListings(h, severity) ==
  Listings({r \in cve[h] : r.actionable /\ r.severity = severity},
           LAMBDA r : r.priority)

ExposureListings(h, risk) ==
  Listings({r \in exposure[h] : r.port > 0 /\ r.risk = risk},
           LAMBDA r : RiskRank(r.risk))

UserListings(h, risk) ==
  Listings({r \in ListedUsers(h) : r.risk = risk}, LAMBDA r : RiskRank(r.risk))

\* Of one image; by cvss, which is not modelled.
ContainerListings(h, image) ==
  Listings({r \in containers[h] : r.image = image}, LAMBDA r : 0)

\* sum(counts.values()), of counts by severity, by risk and by result.
SeverityTotal(counts) ==
  counts["critical"] + counts["high"] + counts["medium"] + counts["low"] + counts["unknown"]

RiskTotal(counts) ==
  counts["critical"] + counts["high"] + counts["medium"] + counts["low"] + counts["info"]

ResultTotal(counts) == counts["passed"] + counts["failed"]

\* get_agent_vulnerabilities, get_agent_exposure, get_agent_users,
\* get_agent_sca_summary, get_agent_container_posture.
CveView(h) ==
  [total |-> SeverityTotal(CveCounts(h)), at |-> LastScan(cve[h]),
   raw |-> SeverityTotal(CountBy(cve[h], LAMBDA r : r.severity, Severities))]

ExposureView(h) == [total |-> RiskTotal(ExposureCounts(h)), at |-> LastScan(exposure[h])]

UserView(h) ==
  [total |-> RiskTotal(UserCounts(h)), risky |-> RiskyUsers(h), at |-> LastScan(users[h])]

ScaView(h) == [total |-> ResultTotal(ScaCounts(h)), at |-> LastScan(sca[h])]

ContainerView(h) ==
  [total |-> SeverityTotal(ContainerCounts(h)), at |-> LastScan(containers[h]),
   running |-> runtime[h]]

\* get_agent_detection_coverage: the row, or "not scanned".
DetectionView(h) ==
  IF coverage[h] = {} THEN [at |-> NeverAt, enabled |-> {}]
  ELSE LET row == CHOOSE r \in coverage[h] : TRUE
       IN [at |-> row.at, enabled |-> row.enabled]

(***************************************************************************)
(* The views on the fleet: hosts LEFT JOIN findings, one group for each    *)
(* host and value, added up in Python.                                     *)
(***************************************************************************)
Groups(table, Value(_), Counted(_)) ==
  UNION {{[host |-> h, value |-> v,
           count |-> Cardinality({r \in table[h] : Value(r) = v /\ Counted(r)}),
           at |-> LastScan({r \in table[h] : Value(r) = v})] :
         v \in {Value(r) : r \in table[h]}} : h \in hosts}

FleetCve == Groups(cve, LAMBDA r : r.severity, LAMBDA r : r.actionable)

FleetExposure ==
  Groups([h \in Hosts |-> {r \in exposure[h] : r.port > 0}],
         LAMBDA r : r.risk, LAMBDA r : TRUE)

FleetSca ==
  Groups([h \in Hosts |-> {r \in sca[h] : r.check # "none"}],
         LAMBDA r : r.result, LAMBDA r : TRUE)

EntryCount(groups, h, v) ==
  SumSet({g.count : g \in {x \in groups : x.host = h /\ x.value = v}})

\* "not scanned" in the summary.
NotScanned(groups, h) == {g \in groups : g.host = h} = {}

FleetEnabled(m) == {h \in hosts : \E r \in coverage[h] : m \in r.enabled}

\* get_fleet_posture_summary.
NeedRescan == {h \in hosts : Overall(h) # "fresh"}

-----------------------------------------------------------------------------
(***************************************************************************)
(* Properties.                                                             *)
(***************************************************************************)
\* The state has its type; the tables have their keys, and rows only of hosts of
\* the inventory.
FindingsTypeOK ==
  /\ now \in 0..MaxTime
  /\ hosts \subseteq Hosts
  /\ eol \in [Hosts -> BOOLEAN]
  /\ kev \in {Unread, KevFeed, {}}
  /\ \A h \in Hosts :
       /\ \A rows \in TablesOf(h) : rows # {} => h \in hosts
       /\ DistinctOn(cve[h], CveKey)
       /\ DistinctOn(users[h], LAMBDA r : r.name)
       /\ \A r \in cve[h] : r.severity \in Severities /\ r.at \in 0..now
       /\ \A r \in exposure[h] : r.risk \in Risks /\ r.at \in 0..now
       /\ \A r \in users[h] : r.risk \in Risks /\ r.at \in 0..now
       /\ source[h].packages \in Software \cup {<< >>}
  /\ scans \in 0..MaxScans

\* "Cache is fresh — no scan required" (posture_snapshot.py:130): then every row
\* of the pillar, but of images that Trivy did not scan again, was written within
\* the last day, whatever scans failed since.
FreshIsRecent ==
  \A h \in Hosts : \A rows \in TablesOf(h) \ {containers[h]} :
    Status(rows) = "fresh" => \A r \in rows : now - r.at <= StaleHours

\* A critical or high CVE of a package that is not background, and one that the
\* process knows to be exploited, is listed as actionable under its package,
\* though processes, EPSS or the end of life could not be read
\* (cve_triage.py:210-240); unless a package without name or version shifts the
\* answers of OSV, its details could not be read, or the packages of a host whose
\* operating system could not be read were taken for Ubuntu's.
UrgentIsListed ==
  \A h \in Hosts :
    LET packages == source[h].packages
    IN (\A i \in 1..Len(packages) : packages[i].named) /\ source[h].ecosystem = OsOf(h) =>
         \A i \in 1..Len(packages) : \A v \in VulnsOf(packages[i], OsOf(h)) :
           LET Its(r) == CveKey(r) = <<packages[i].name, v.cve>>
           IN /\ ~v.patched /\ v.id \notin source[h].unread
              /\ \/ Severity(v) \in {"critical", "high"} /\ ~packages[i].meta
                 \/ \E r \in cve[h] : Its(r) /\ r.kev
              => \E r \in cve[h] : Its(r) /\ r.actionable

\* The same port is never rated lower for a wider binding
\* (exposure_scanner.py:67-85).
WiderIsRiskier ==
  \A h \in Hosts : \A r, s \in exposure[h] :
    r.port = s.port =>
      /\ r.scope = "localhost" => RiskRank(r.risk) <= RiskRank(s.risk)
      /\ r.scope = "all_interfaces" => RiskRank(r.risk) >= RiskRank(s.risk)

\* What the fleet's views and the host's count.
CountsAgree(h) ==
  /\ \A s \in Severities : EntryCount(FleetCve, h, s) = CveCounts(h)[s]
  /\ \A s \in Risks : EntryCount(FleetExposure, h, s) = ExposureCounts(h)[s]
  /\ \A s \in Results : EntryCount(FleetSca, h, s) = ScaCounts(h)[s]

\* Whether there has been a scan.
ScansAgree(h) ==
  /\ NotScanned(FleetCve, h) <=> Status(cve[h]) = "never_scanned"
  /\ h \notin NeedRescan => ~NotScanned(FleetCve, h) /\ coverage[h] # {}
  /\ \A m \in Modules : h \in FleetEnabled(m) <=> m \in DetectionView(h).enabled

\* What is counted is listed, up to the limit; a host said to have risky users
\* shows some, one with CVEs of images has an image with a listing.
ListingsAgree(h) ==
  /\ \A s \in Severities : \A l \in CveListings(h, s) :
       Cardinality(l) = Min({Limit, CveCounts(h)[s]})
  /\ \A s \in Risks : \A l \in ExposureListings(h, s) :
       Cardinality(l) = Min({Limit, ExposureCounts(h)[s]})
  /\ \A s \in Risks : \A l \in UserListings(h, s) :
       Cardinality(l) = Min({Limit, UserCounts(h)[s]})
  /\ RiskyUsers(h) > 0 <=> TopUsers(h) # {}
  /\ ContainerView(h).total > 0 <=>
       \E i \in UNION ImageSets : \E l \in ContainerListings(h, i) : l # {}

\* A count that is not zero has a time.
TotalsAgree(h) ==
  /\ \A view \in {CveView(h), ExposureView(h), UserView(h), ScaView(h), ContainerView(h)} :
       view.total > 0 => view.at # NeverAt
  /\ CveView(h).total <= CveView(h).raw

\* The fleet's views and the host's are queries of their own; they agree on the
\* counts and, for CVEs and detection, on whether there has been a scan, and the
\* listings and totals of a host with its counts.
ViewsAgree ==
  \A h \in hosts :
    CountsAgree(h) /\ ScansAgree(h) /\ ListingsAgree(h) /\ TotalsAgree(h)
=============================================================================
