-------------------------- MODULE MemoryEvidenceMC --------------------------
(* MemoryEvidence with a few candidates and one context. *)
EXTENDS MemoryEvidence
=============================================================================
