---------------------------- MODULE ControlPlane ----------------------------
(***************************************************************************)
(* The parts of the Approval Service around the approval engine: the       *)
(* policy engine, the signing keys and enrollment.                         *)
(*                                                                         *)
(* No two of them share state: each has tables or maps of its own, and the *)
(* one call between them, the signer PublishPolicy is given, changes       *)
(* nothing in either (KeyManager takes it as SignAtOnce).  A behaviour of  *)
(* all three is therefore any interleaving of a behaviour of each, and a   *)
(* property that speaks of one of them holds of all behaviours when it     *)
(* holds of those in which only that one moves.  `part' is the one that    *)
(* moves: exploring the parts one after the other adds their state spaces  *)
(* up instead of multiplying them.                                         *)
(***************************************************************************)
EXTENDS PolicyEngine, KeyManager, Enrollment

VARIABLE part

vars == <<part, policyVars, keyVars, enrollVars>>

Init ==
  /\ part \in {"policy", "keys", "enrollment"}
  /\ PolicyInit
  /\ KeyInit
  /\ EnrollInit

Next ==
  \/ part = "policy" /\ PolicyNext /\ UNCHANGED <<part, keyVars, enrollVars>>
  \/ part = "keys" /\ KeyNext /\ UNCHANGED <<part, policyVars, enrollVars>>
  \/ part = "enrollment" /\ EnrollNext /\ UNCHANGED <<part, policyVars, keyVars>>

Spec == Init /\ [][Next]_vars

\* The types of the three parts' state.
TypeOK == PolicyTypeOK /\ KeyTypeOK /\ EnrollTypeOK

===============================================================================
