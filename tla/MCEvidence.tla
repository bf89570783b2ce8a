------------------------------- MODULE MCEvidence ------------------------------
(***************************************************************************)
(* Instances of EvidenceStore: v1, v2, v3 are vend or verify runs against  *)
(* one account, d1 a reclaim or assess run.                                *)
(***************************************************************************)
EXTENDS EvidenceStore

CONSTANTS v1, v2, v3, d1

================================================================================
