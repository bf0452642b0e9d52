-------------------------- MODULE MCAuditEvidence --------------------------
(* Instances of AuditChain and AuditEvidence for TLC.                       *)
EXTENDS AuditEvidence, TLC

Symmetry == Permutations(Writers)
=============================================================================
