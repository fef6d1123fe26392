------------------------------- MODULE MCOutbox -------------------------------
(***************************************************************************)
(* Small instances of Outbox.                                              *)
(***************************************************************************)
EXTENDS Outbox, TLC

CONSTANTS w1, c1, c2

\* One writer in a process of its own, the others share a process and its mutex.
MCTwoProcesses == [w \in Writers |-> IF w = w1 THEN "p1" ELSE "p2"]

Engine(c) == [kind |-> "engine", to |-> <<c>>]
Revocation(cs) == [kind |-> "revocation", to |-> cs]

\* The engine writes to one consumer, a revocation to both, always in this order.
MCTwoConsumers == {Engine(c1), Revocation(<<c1, c2>>)}
===============================================================================
