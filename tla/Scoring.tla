-------------------------------- MODULE Scoring --------------------------------
(***************************************************************************)
(* How the scanners judge what they find: a CVE of an installed package    *)
(* (lureguard_mcp/cve_triage.py, vuln_scanner.py), a listening port        *)
(* (exposure_scanner.py), a local account (user_scanner.py).               *)
(***************************************************************************)
EXTENDS Integers

\* CVSS scores in tenths, EPSS scores in hundredths; 0 stands for None, which
\* the code treats alike.
Severities == {"critical", "high", "medium", "low", "unknown"}

\* _cvss_to_severity.
SeverityOfCvss(cvss) ==
  CASE cvss >= 90 -> "critical"
    [] cvss \in 70..89 -> "high"
    [] cvss \in 40..69 -> "medium"
    [] cvss \in 1..39 -> "low"
    [] OTHER -> "unknown"

EpssBoost(epss) ==
  CASE epss > 50 -> 25
    [] epss \in 11..50 -> 10
    [] OTHER -> 0

Points(condition, n) == IF condition THEN n ELSE 0

SeverityPoints(severity) ==
  CASE severity = "critical" -> 30
    [] severity = "high" -> 20
    [] severity = "medium" -> 10
    [] OTHER -> 0

\* The score triage_finding gives a CVE f of a package; the scanner knows no
\* EPSS score yet.  meta: a package for which OSV lists many CVEs that do not
\* concern the host (firmware, headers).
Background(f) == f.meta /\ ~f.running /\ ~f.kev

Priority(f) ==
  Points(f.kev, 100) + Points(f.running, 40) + SeverityPoints(f.severity)
  + f.cvss \div 10
  + Points(f.eol /\ f.severity = "critical", 50)
  - Points(Background(f), 50)

\* Fault: a CVE without a severity is dropped last, whatever is known of it.
ActionableIfRated(f) ==
  f.severity # "unknown" /\ ~Background(f) /\ (Priority(f) >= 15 \/ f.kev)

Actionable(f) ==
  /\ Priority(f) >= 15 \/ f.kev \/ (f.running /\ f.severity \in {"critical", "high"})
  /\ ~Background(f)
  /\ f.severity = "unknown" => f.kev \/ f.running

-----------------------------------------------------------------------------
Risks == {"critical", "high", "medium", "low", "info"}

RiskRank(risk) ==
  CASE risk = "critical" -> 4 [] risk = "high" -> 3 [] risk = "medium" -> 2
    [] risk = "low" -> 1 [] risk = "info" -> 0

Scopes == {"all_interfaces", "specific", "localhost"}

RiskyPorts ==
  [p \in {23, 21, 445, 3389, 5900, 6379, 27017, 11211, 9200, 9300, 5432, 3306,
          1433, 8080, 8443, 22, 80, 443} |->
    CASE p = 23 -> "critical"
      [] p \in {21, 445, 3389, 5900, 6379, 27017, 11211} -> "high"
      [] p \in {9200, 9300, 5432, 3306, 1433} -> "medium"
      [] p \in {8080, 8443} -> "low"
      [] p \in {22, 80, 443} -> "info"]

K8sPorts ==
  [p \in {6443, 10250, 10255, 2379, 2380, 8443, 30000} |->
    CASE p \in {6443, 10250} -> "medium"
      [] p \in {10255, 8443} -> "low"
      [] p \in {2379, 2380} -> "high"
      [] p = 30000 -> "info"]

BaseRisk(port) ==
  CASE port \in DOMAIN RiskyPorts -> RiskyPorts[port]
    [] port \in DOMAIN K8sPorts \ DOMAIN RiskyPorts -> K8sPorts[port]
    [] OTHER -> "info"

Raised(risk) ==
  CASE risk = "info" -> "low"
    [] risk = "low" -> "medium"
    [] risk \in {"medium", "high"} -> "high"
    [] risk = "critical" -> "critical"

\* Fault: on localhost every port that is not lowered further counts as low.
LoweredToLow(port) ==
  CASE BaseRisk(port) \in {"critical", "high"} -> "medium"
    [] BaseRisk(port) \in {"medium", "low"} /\ port \in DOMAIN K8sPorts -> "info"
    [] OTHER -> "low"

Lowered(port) ==
  LET base == BaseRisk(port)
  IN CASE base \in {"critical", "high"} -> "medium"
       [] base = "medium" /\ port \notin DOMAIN K8sPorts -> "low"
       [] OTHER -> "info"

\* _score_port.
ScorePort(port, scope) ==
  CASE scope = "all_interfaces" -> Raised(BaseRisk(port))
    [] scope = "localhost" -> Lowered(port)
    [] scope = "specific" -> BaseRisk(port)

\* _score_user.
ScoreUser(user) ==
  CASE user.uid = 0 /\ user.name # "root" -> "critical"
    [] (user.uid # 0 \/ user.name = "root") /\ user.interactive /\ ~user.loggedIn ->
         "medium"
    [] OTHER -> "info"
=============================================================================
