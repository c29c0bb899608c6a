CONSTANTS
  Servers = {s1, s2}
  Ids = {i1, i2}
  Names = {n1}
  MaxCalls = 4
SPECIFICATION Spec
SYMMETRY Symmetries
CHECK_DEADLOCK FALSE
INVARIANTS ClosedOnEvidence EvidenceIdsApart AuditedUnlessLost PdfShowsReport
