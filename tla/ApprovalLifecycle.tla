--------------------------- MODULE ApprovalLifecycle ---------------------------
(***************************************************************************)
(* What the approval engine promises its clients (DR-SVC-2, DR-SVC-3 and   *)
(* DR-SIG-6), with no transactions, locks, connections or retries: each    *)
(* request is decided once, in one step; approving it puts exactly one     *)
(* grant token in the outbox in that same step; every accepted response    *)
(* uses up a larger counter of its device.                                 *)
(***************************************************************************)
EXTENDS Naturals

CONSTANTS
  Requests,
  Devices,
  Counters    \* counter values devices may send

VARIABLES
  state,    \* of each request
  tokens,   \* grant tokens sent for each request
  last      \* largest counter accepted from each device

vars == <<state, tokens, last>>

Init ==
  /\ state = [r \in Requests |-> "NONE"]
  /\ tokens = [r \in Requests |-> 0]
  /\ last = [d \in Devices |-> 0]

Create(r) ==
  /\ state[r] = "NONE"
  /\ state' = [state EXCEPT ![r] = "PENDING"]
  /\ UNCHANGED <<tokens, last>>

\* The device uses up counter value c.
UseCounter(d, c) ==
  /\ c > last[d]
  /\ last' = [last EXCEPT ![d] = c]

Approve(r, d, c) ==
  /\ state[r] = "PENDING"
  /\ UseCounter(d, c)
  /\ state' = [state EXCEPT ![r] = "GRANTED"]
  /\ tokens' = [tokens EXCEPT ![r] = 1]

Deny(r, d, c) ==
  /\ state[r] = "PENDING"
  /\ UseCounter(d, c)
  /\ state' = [state EXCEPT ![r] = "DENIED"]
  /\ UNCHANGED tokens

Cancel(r) ==
  /\ state[r] = "PENDING"
  /\ state' = [state EXCEPT ![r] = "CANCELLED"]
  /\ UNCHANGED <<tokens, last>>

Next ==
  \E r \in Requests :
    \/ Create(r)
    \/ Cancel(r)
    \/ \E d \in Devices : \E c \in Counters : Approve(r, d, c) \/ Deny(r, d, c)

Spec == Init /\ [][Next]_vars
===============================================================================
