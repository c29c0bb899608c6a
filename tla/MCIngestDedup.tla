----------------------------- MODULE MCIngestDedup -----------------------------
(* Instance of the duplicate filter for TLC. *)
EXTENDS IngestDedup, TLC

Symmetry == Permutations(Keys)
=============================================================================
