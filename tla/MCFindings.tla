------------------------------ MODULE MCFindings ------------------------------
\* Hosts with a kernel, whose many CVEs concern them seldom, a database server, a
\* package of which dpkg gives no version, and one of which OSV knows a CVE twice;
\* the hosts in support are Debian's.
EXTENDS Findings

Pkg(name, named, meta) == [name |-> name, named |-> named, meta |-> meta]

Vuln(c, cvss, rating) ==
  [id |-> c, cve |-> c, cvss |-> cvss, scored |-> cvss > 0, rating |-> rating,
   patched |-> FALSE]

Os(h) == IF h \in EolHosts THEN "Ubuntu" ELSE "Debian"

\* A score of 0.0, which counts for more than the rating.
Zero == [Vuln("c2", 0, "high") EXCEPT !.scored = TRUE]

Twice == [Vuln("c5", 98, "high") EXCEPT !.id = "dsa"]

Ubuntu(name) ==
  CASE name = "ssl" -> {Vuln("c5", 98, "high"), Twice}
    [] name = "kernel" -> {Vuln("c1", 75, "unknown"), Zero}
    [] name = "redis" -> {Vuln("c1", 75, "unknown"), Vuln("c3", 0, "unknown"),
                          [Vuln("c4", 98, "high") EXCEPT !.patched = TRUE]}
    [] OTHER -> {}

Debian(name) ==
  IF name = "redis" THEN {Vuln("c3", 0, "unknown"), Vuln("c4", 98, "high")} ELSE {}

Known(p, ecosystem) == IF ecosystem = "Debian" THEN Debian(p.name) ELSE Ubuntu(p.name)

Silent == {{}, {"c4"}}

Installed ==
  {<<Pkg("ssl", TRUE, FALSE)>>,
   <<Pkg("gone", FALSE, FALSE), Pkg("kernel", TRUE, TRUE)>>,
   <<Pkg("kernel", TRUE, TRUE), Pkg("redis", TRUE, FALSE)>>}

Serving == {<<Pkg("kernel", TRUE, TRUE), Pkg("redis", TRUE, FALSE)>>}

Scored(c) == IF c = "c3" THEN 60 ELSE 0

OpenPorts ==
  {{}, {[port |-> 2379, scope |-> "all_interfaces"]},
   {[port |-> 8443, scope |-> "all_interfaces"], [port |-> 8443, scope |-> "localhost"],
    [port |-> 23, scope |-> "specific"], [port |-> 23, scope |-> "localhost"],
    [port |-> 22, scope |-> "specific"], [port |-> 22, scope |-> "localhost"]}}

Reports ==
  {{}, {[check |-> "k1", result |-> "passed"], [check |-> "k2", result |-> "failed"]}}

User(name, uid, login) ==
  [name |-> name, uid |-> uid, interactive |-> TRUE, login |-> login, session |-> FALSE]

AccountSets ==
  {{}, {User("root", 0, "today"), User("toor", 0, ""), User("", 7, "")},
   {User("toor", 0, "never"), User("toor", 1000, "")}}

ImageCveSets == {{}, {[cve |-> "c9", severity |-> "high"]}}
=============================================================================
