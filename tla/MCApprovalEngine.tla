--------------------------- MODULE MCApprovalEngine ---------------------------
(***************************************************************************)
(* Small instances of ApprovalEngine.                                      *)
(***************************************************************************)
EXTENDS ApprovalEngine, TLC

CONSTANTS r1, r2, d1, d2

Response(r, d, decision, key, cnt) ==
  [req |-> r, dev |-> d, decision |-> decision, key |-> key, cnt |-> cnt]

\* One device answers two requests with the same counter, the other answers
\* both too: one with a denial and a larger counter, one with the wrong key.
MCResponses ==
  { Response(r1, d1, "APPROVE", "approval_auth", 1),
    Response(r2, d1, "APPROVE", "approval_auth", 1),
    Response(r2, d2, "DENY", "device_auth", 2),
    Response(r1, d2, "APPROVE", "device_auth", 1) }

\* Two devices, each approving a request of its own.
MCTwoDevices ==
  { Response(r1, d1, "APPROVE", "approval_auth", 1),
    Response(r2, d2, "APPROVE", "approval_auth", 1) }
===============================================================================
