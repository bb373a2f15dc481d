-------------------------- MODULE MCEvidenceStore ---------------------------
(* Small instances of EvidenceStore for TLC.                               *)
EXTENDS EvidenceStore, TLC

Interchangeable == Permutations(Writers)
=============================================================================
