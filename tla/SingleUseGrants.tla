---------------------------- MODULE SingleUseGrants ----------------------------
(***************************************************************************)
(* What the grant cache promises (DR-GRANT-6), with no files, maps, calls  *)
(* or crashes: a grant is used once, when its consumption is on record     *)
(* where nothing can lose it.                                              *)
(***************************************************************************)
EXTENDS Naturals

CONSTANT Grants

VARIABLES
  recorded,   \* the grants whose consumption is on record
  uses        \* how often each was used

vars == <<recorded, uses>>

Init ==
  /\ recorded = {}
  /\ uses = [g \in Grants |-> 0]

\* Consumptions are put on record.  None is ever struck off.
Record ==
  /\ recorded \subseteq recorded' /\ recorded' \subseteq Grants
  /\ UNCHANGED uses

Use(g) ==
  /\ g \in recorded /\ uses[g] = 0
  /\ uses' = [uses EXCEPT ![g] = 1]
  /\ UNCHANGED recorded

Next == Record \/ \E g \in Grants : Use(g)

Spec == Init /\ [][Next]_vars
===============================================================================
