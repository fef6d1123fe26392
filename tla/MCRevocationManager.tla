------------------------- MODULE MCRevocationManager -------------------------
(***************************************************************************)
(* Small instances of RevocationManager: two grants of one device and one  *)
(* user, on different nodes.                                               *)
(***************************************************************************)
EXTENDS RevocationManager, TLC

CONSTANTS d1, d2, g1, g2

MCAttr ==
  [g \in Grants |-> [device |-> d1,
                     user |-> "u1",
                     source |-> IF g = g1 THEN "s1" ELSE "s2",
                     node |-> IF g = g1 THEN "n1" ELSE "n2"]]

\* One order of each shape: sessions and grants, sessions only, grants only.
MCOrders ==
  { [kind |-> "device", target |-> d1],
    [kind |-> "protected_node", target |-> "n1"],
    [kind |-> "policy", target |-> "all"] }

\* A revocation that concerns nobody, and one that concerns every consumer.
MCAudiences == {{}, Consumers}
===============================================================================
