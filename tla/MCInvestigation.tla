---------------------------- MODULE MCInvestigation ----------------------------
EXTENDS Investigation, TLC

Symmetries == Permutations(Servers) \cup Permutations(Ids)
=============================================================================
