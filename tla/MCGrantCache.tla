----------------------------- MODULE MCGrantCache -----------------------------
(***************************************************************************)
(* Small instances of GrantCache: two DURATION grants under one key, one   *)
(* CONNECTION or SESSION grant under another.                              *)
(***************************************************************************)
EXTENDS GrantCache

CONSTANTS g1, g2, g3, k1, k2

MCKey == [g \in Grants |-> IF g = g3 THEN k2 ELSE k1]
MCScope == [g \in Grants |-> IF g = g3 THEN "SESSION" ELSE "DURATION"]
MCNoSession == [g \in Grants |-> IF g = g3 THEN "CONNECTION" ELSE "DURATION"]
MCFilters == {{g1}, {g1, g3}}
===============================================================================
