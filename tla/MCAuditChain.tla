----------------------------- MODULE MCAuditChain -----------------------------
(***************************************************************************)
(* Small instances of AuditChain: one event (create, deny, cancel) or two  *)
(* (approve) per transaction.                                              *)
(***************************************************************************)
EXTENDS AuditChain, TLC

MCBatches == { <<"APPROVAL_REQUEST">>, <<"GRANT_ISSUED", "APPROVAL_DECISION">> }

Symmetry == Permutations(Writers)
===============================================================================
