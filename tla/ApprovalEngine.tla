---------------------------- MODULE ApprovalEngine ----------------------------
(***************************************************************************)
(* The Approval Service's engine (service/internal/enforcement/engine.go)  *)
(* over its Postgres tables: create, approve or deny, cancel and consume,  *)
(* with device revocation running beside them.                             *)
(*                                                                         *)
(* A worker is one call in flight.  Its transaction is a few steps: each   *)
(* SELECT ... FOR UPDATE that may wait is a step of its own, and all the   *)
(* writes take effect in the step that commits, because no other           *)
(* transaction sees them earlier.  A row is locked while some worker is    *)
(* between the step that read it FOR UPDATE and its commit or rollback.    *)
(* Every transaction holds one connection of the pool.                     *)
(***************************************************************************)
EXTENDS Naturals, FiniteSets

CONSTANTS
  Workers,      \* concurrent calls
  Requests,     \* approval_requests ids
  Devices,      \* devices ids
  Responses,    \* the signed responses that may be submitted, each any number of times
  MaxConns      \* db.SetMaxOpenConns

Keys == {"approval_auth", "device_auth"}

ResponseShape ==
  [req: Requests, dev: Devices, decision: {"APPROVE", "DENY"}, key: Keys, cnt: Nat]

ASSUME ResponsesAssumption == Responses \subseteq ResponseShape

VARIABLES
  reqState,   \* approval_requests.state, "NONE" while there is no row
  version,    \* approval_requests.state_version
  accepted,   \* the responses recorded in the row of a request
  counter,    \* devices.counter
  devState,   \* devices.state
  grant,      \* the row of grants with this request_id, by its consumed_at
  agts,       \* number of AGTs of the request put in the outbox
  lapsed,     \* requests whose grant's expires_at has passed
  pc,         \* where the call of each worker is
  call,       \* its argument
  seen        \* the state_version it read

rows  == <<reqState, version, accepted, counter, devState, grant, agts>>
local == <<pc, call, seen>>
vars  == <<rows, lapsed, local>>

NoCall      == [decision |-> "NONE"]
CancelCalls == [decision: {"CANCEL"}, req: Requests]
RevokeCalls == [decision: {"REVOKE"}, dev: Devices]

-------------------------------------------------------------------------------
(***************************************************************************)
(* Connections and row locks.                                              *)
(***************************************************************************)

\* A connection is free: database/sql gives out at most MaxConns of them.
FreeConn == Cardinality({w \in Workers : pc[w] # "idle"}) < MaxConns

\* Mutant: SELECT without FOR UPDATE.
DeviceNotLocked(d) == TRUE

\* The row of request r is locked by no transaction.
RequestUnlocked(r) ==
  \A w \in Workers : pc[w] \in {"device", "mint", "decide", "cancel"} => call[w].req # r

\* The row of device d is locked by no transaction.
DeviceUnlocked(d) ==
  \A w \in Workers : pc[w] \in {"mint", "decide"} => call[w].dev # d

\* Commit or rollback gives the connection back and ends the call.
Finish(w) ==
  /\ pc' = [pc EXCEPT ![w] = "idle"]
  /\ call' = [call EXCEPT ![w] = NoCall]
  /\ seen' = [seen EXCEPT ![w] = 0]

Goto(w, step) ==
  /\ pc' = [pc EXCEPT ![w] = step]
  /\ UNCHANGED <<call, seen>>

Begin(w, c, step) ==
  /\ pc[w] = "idle"
  /\ FreeConn
  /\ pc' = [pc EXCEPT ![w] = step]
  /\ call' = [call EXCEPT ![w] = c]
  /\ UNCHANGED <<rows, lapsed, seen>>

-------------------------------------------------------------------------------
TypeOK ==
  /\ reqState \in [Requests -> {"NONE", "PENDING", "APPROVED", "GRANTED",
                                "DENIED", "EXPIRED", "CANCELLED"}]
  /\ version \in [Requests -> Nat]
  /\ accepted \in [Requests -> SUBSET Responses]
  /\ counter \in [Devices -> Nat]
  /\ devState \in [Devices -> {"ENROLLED", "REVOKED"}]
  /\ grant \in [Requests -> {"NONE", "ISSUED", "CONSUMED"}]
  /\ agts \in [Requests -> Nat]
  /\ lapsed \subseteq Requests
  /\ pc \in [Workers -> {"idle", "fetch", "device", "mint", "decide",
                         "cancel_fetch", "cancel", "revoke"}]
  /\ call \in [Workers -> Responses \cup CancelCalls \cup RevokeCalls \cup {NoCall}]
  /\ seen \in [Workers -> Nat]

Init ==
  /\ reqState = [r \in Requests |-> "NONE"]
  /\ version = [r \in Requests |-> 0]
  /\ accepted = [r \in Requests |-> {}]
  /\ counter = [d \in Devices |-> 0]
  /\ devState = [d \in Devices |-> "ENROLLED"]
  /\ grant = [r \in Requests |-> "NONE"]
  /\ agts = [r \in Requests |-> 0]
  /\ lapsed = {}
  /\ pc = [w \in Workers |-> "idle"]
  /\ call = [w \in Workers |-> NoCall]
  /\ seen = [w \in Workers |-> 0]

-------------------------------------------------------------------------------
(***************************************************************************)
(* CreateApprovalRequest: one transaction that inserts the request (state  *)
(* PENDING, version 0), its audit event and its notification.  An ignored  *)
(* error of the audit or the outbox write leaves the Postgres transaction  *)
(* aborted, so Commit fails and nothing is written.                        *)
(***************************************************************************)
CreateApprovalRequest(r) ==
  /\ reqState[r] = "NONE"
  /\ FreeConn
  /\ reqState' = [reqState EXCEPT ![r] = "PENDING"]
  /\ UNCHANGED <<version, accepted, counter, devState, grant, agts, lapsed, local>>

(***************************************************************************)
(* transition_approval_request: the version read must still be current and *)
(* the transition legal, or the function raises and the transaction ends.  *)
(***************************************************************************)
TransitionAllowed(r, new, expected) ==
  /\ version[r] = expected
  /\ \/ reqState[r] = "PENDING" /\ new \in {"APPROVED", "DENIED", "EXPIRED", "CANCELLED"}
     \/ reqState[r] = "APPROVED" /\ new = "GRANTED"

(***************************************************************************)
(* ProcessApproval.  fetch: SELECT ... FOR UPDATE OF the request.  device: *)
(* SELECT ... FOR UPDATE of the device.  mint: resolveUserIdentity, which  *)
(* asks the pool for a second connection while the transaction holds its   *)
(* own.  decide: the writes and the commit.                                *)
(***************************************************************************)
BeginApproval(w, m) == Begin(w, m, "fetch")

\* Mutant: an early return that never rolls its transaction back.
FetchRequestLeaksTx(w) ==
  /\ pc[w] = "fetch"
  /\ RequestUnlocked(call[w].req)
  /\ reqState[call[w].req] = "PENDING"
  /\ pc' = [pc EXCEPT ![w] = "device"]
  /\ seen' = [seen EXCEPT ![w] = version[call[w].req]]
  /\ UNCHANGED <<call, rows, lapsed>>

FetchRequest(w) ==
  /\ pc[w] = "fetch"
  /\ RequestUnlocked(call[w].req)
  /\ IF reqState[call[w].req] = "PENDING"
     THEN /\ pc' = [pc EXCEPT ![w] = "device"]
          /\ seen' = [seen EXCEPT ![w] = version[call[w].req]]
          /\ UNCHANGED call
     ELSE Finish(w)
  /\ UNCHANGED <<rows, lapsed>>

\* The key a decision must be signed with.
VerificationKey(decision) == IF decision = "APPROVE" THEN "approval_auth" ELSE "device_auth"

\* The signature verifies and the counter is larger than the stored one.
ResponseValid(m) ==
  /\ m.key = VerificationKey(m.decision)
  /\ m.cnt > counter[m.dev]

VerifyDevice(w) ==
  /\ pc[w] = "device"
  /\ DeviceUnlocked(call[w].dev)
  /\ IF ResponseValid(call[w])
     THEN Goto(w, IF call[w].decision = "APPROVE" THEN "mint" ELSE "decide")
     ELSE Finish(w)
  /\ UNCHANGED <<rows, lapsed>>

ResolveUserIdentity(w) ==
  /\ pc[w] = "mint"
  /\ FreeConn
  /\ Goto(w, "decide")
  /\ UNCHANGED <<rows, lapsed>>

\* Mutant: the accepted counter is not stored.
CounterNotAdvanced(d, received) == UNCHANGED counter

\* advance_device_counter: UPDATE ... WHERE counter < received.
AdvanceDeviceCounter(d, received) ==
  counter' = [counter EXCEPT ![d] = IF @ < received THEN received ELSE @]

RecordResponse(m) == accepted' = [accepted EXCEPT ![m.req] = @ \cup {m}]

\* Mutant: the transition to GRANTED is forgotten.
MintWithoutTransition(r) ==
  /\ reqState' = [reqState EXCEPT ![r] = "APPROVED"]
  /\ version' = [version EXCEPT ![r] = @ + 1]
  /\ grant' = [grant EXCEPT ![r] = IF @ = "NONE" THEN "ISSUED" ELSE @]
  /\ agts' = [agts EXCEPT ![r] = @ + 1]

\* mintGrant: insert the grant unless the request has one, APPROVED -> GRANTED
\* with a second version step, and the AGT to the node's outbox.
MintGrant(r) ==
  /\ reqState' = [reqState EXCEPT ![r] = "GRANTED"]
  /\ version' = [version EXCEPT ![r] = @ + 2]
  /\ grant' = [grant EXCEPT ![r] = IF @ = "NONE" THEN "ISSUED" ELSE @]
  /\ agts' = [agts EXCEPT ![r] = @ + 1]

CommitApprove(w) ==
  /\ pc[w] = "decide"
  /\ call[w].decision = "APPROVE"
  /\ TransitionAllowed(call[w].req, "APPROVED", seen[w])
  /\ RecordResponse(call[w])
  /\ AdvanceDeviceCounter(call[w].dev, call[w].cnt)
  /\ MintGrant(call[w].req)
  /\ Finish(w)
  /\ UNCHANGED <<devState, lapsed>>

CommitDeny(w) ==
  /\ pc[w] = "decide"
  /\ call[w].decision = "DENY"
  /\ TransitionAllowed(call[w].req, "DENIED", seen[w])
  /\ RecordResponse(call[w])
  /\ AdvanceDeviceCounter(call[w].dev, call[w].cnt)
  /\ reqState' = [reqState EXCEPT ![call[w].req] = "DENIED"]
  /\ version' = [version EXCEPT ![call[w].req] = @ + 1]
  /\ Finish(w)
  /\ UNCHANGED <<devState, grant, agts, lapsed>>

\* The signer, the TTL trigger or a lookup of mintGrant returns an error:
\* ProcessApproval returns it and the whole transaction is rolled back.
MintFails(w) ==
  /\ pc[w] = "decide"
  /\ call[w].decision = "APPROVE"
  /\ Finish(w)
  /\ UNCHANGED <<rows, lapsed>>

(***************************************************************************)
(* CancelApprovalRequest.                                                  *)
(***************************************************************************)
BeginCancel(w, r) == Begin(w, [decision |-> "CANCEL", req |-> r], "cancel_fetch")

FetchForCancel(w) ==
  /\ pc[w] = "cancel_fetch"
  /\ RequestUnlocked(call[w].req)
  /\ IF reqState[call[w].req] = "PENDING"
     THEN /\ pc' = [pc EXCEPT ![w] = "cancel"]
          /\ seen' = [seen EXCEPT ![w] = version[call[w].req]]
          /\ UNCHANGED call
     ELSE Finish(w)
  /\ UNCHANGED <<rows, lapsed>>

CommitCancel(w) ==
  /\ pc[w] = "cancel"
  /\ TransitionAllowed(call[w].req, "CANCELLED", seen[w])
  /\ reqState' = [reqState EXCEPT ![call[w].req] = "CANCELLED"]
  /\ version' = [version EXCEPT ![call[w].req] = @ + 1]
  /\ Finish(w)
  /\ UNCHANGED <<accepted, counter, devState, grant, agts, lapsed>>

(***************************************************************************)
(* RevokeDevice, as far as the devices table goes: its UPDATE waits for    *)
(* the row lock.  ProcessApproval never reads devices.state.               *)
(***************************************************************************)
BeginRevokeDevice(w, d) == Begin(w, [decision |-> "REVOKE", dev |-> d], "revoke")

\* Mutant: a state the devices table does not know.
RevokeDeviceAsLost(w) ==
  /\ pc[w] = "revoke"
  /\ DeviceUnlocked(call[w].dev)
  /\ devState' = [devState EXCEPT ![call[w].dev] = "LOST"]
  /\ Finish(w)
  /\ UNCHANGED <<reqState, version, accepted, counter, grant, agts, lapsed>>

RevokeDevice(w) ==
  /\ pc[w] = "revoke"
  /\ DeviceUnlocked(call[w].dev)
  /\ devState' = [devState EXCEPT ![call[w].dev] = "REVOKED"]
  /\ Finish(w)
  /\ UNCHANGED <<reqState, version, accepted, counter, grant, agts, lapsed>>

(***************************************************************************)
(* Any transaction may be rolled back where it stands: its context is      *)
(* cancelled, a statement or transition_approval_request raises, the       *)
(* connection is lost or the process stops.                                *)
(***************************************************************************)
Rollback(w) ==
  /\ pc[w] # "idle"
  /\ Finish(w)
  /\ UNCHANGED <<rows, lapsed>>

(***************************************************************************)
(* ConsumeGrant: consume_grant commits by itself.  When it consumed the    *)
(* grant, the audit write that follows is given a nil transaction, which   *)
(* panics before "return consumed, nil"; the grant stays consumed.         *)
(***************************************************************************)
ConsumeGrant(r) ==
  /\ FreeConn
  /\ grant[r] = "ISSUED"
  /\ r \notin lapsed
  /\ grant' = [grant EXCEPT ![r] = "CONSUMED"]
  /\ UNCHANGED <<reqState, version, accepted, counter, devState, agts, lapsed, local>>

(***************************************************************************)
(* Time: expires_at of an unused grant passes.  approval_requests also has *)
(* an expires_at; no code reads it, so a pending request never expires.    *)
(***************************************************************************)
GrantTTLPasses(r) ==
  /\ grant[r] = "ISSUED"
  /\ r \notin lapsed
  /\ lapsed' = lapsed \cup {r}
  /\ UNCHANGED <<rows, local>>

-------------------------------------------------------------------------------
ProcessApproval(w) ==
  \/ FetchRequest(w)
  \/ VerifyDevice(w)
  \/ ResolveUserIdentity(w)
  \/ CommitApprove(w)
  \/ CommitDeny(w)

CancelApprovalRequest(w) == FetchForCancel(w) \/ CommitCancel(w)

Next ==
  \/ \E r \in Requests : CreateApprovalRequest(r)
  \/ \E w \in Workers, m \in Responses : BeginApproval(w, m)
  \/ \E w \in Workers, r \in Requests : BeginCancel(w, r)
  \/ \E w \in Workers, d \in Devices : BeginRevokeDevice(w, d)
  \/ \E w \in Workers : ProcessApproval(w)
  \/ \E w \in Workers : CancelApprovalRequest(w)
  \/ \E w \in Workers : RevokeDevice(w)
  \/ \E w \in Workers : MintFails(w)
  \/ \E w \in Workers : Rollback(w)
  \/ \E r \in Requests : ConsumeGrant(r)
  \/ \E r \in Requests : GrantTTLPasses(r)

Spec == Init /\ [][Next]_vars

(***************************************************************************)
(* A call that can go on does.  Row locks and pool connections are given   *)
(* to waiters in the order they asked, so a waiter whose turn comes again  *)
(* and again is served: strong fairness.  A call that is not served stays  *)
(* at one step, so one condition per call is enough.  Nothing makes a      *)
(* rollback happen.                                                        *)
(***************************************************************************)
Fairness ==
  \A w \in Workers :
    SF_vars(\/ FetchRequest(w) \/ VerifyDevice(w) \/ ResolveUserIdentity(w)
            \/ CommitApprove(w) \/ CommitDeny(w)
            \/ FetchForCancel(w) \/ CommitCancel(w)
            \/ RevokeDevice(w))

FairSpec == Spec /\ Fairness

-------------------------------------------------------------------------------
(***************************************************************************)
(* Properties.                                                             *)
(***************************************************************************)

\* A request is GRANTED exactly when one response approved it, its grant row
\* exists and exactly one AGT went to the outbox; in every other state,
\* CANCELLED and DENIED included, there is neither grant nor AGT, however
\* ProcessApproval, CancelApprovalRequest and retries interleave (DR-SVC-2, DR-SVC-3).
GrantMatchesDecision ==
  \A r \in Requests :
    IF reqState[r] = "GRANTED"
    THEN /\ agts[r] = 1
         /\ grant[r] # "NONE"
         /\ \E m \in accepted[r] : accepted[r] = {m} /\ m.decision = "APPROVE"
    ELSE /\ agts[r] = 0
         /\ grant[r] = "NONE"
         /\ \A m \in accepted[r] : m.decision = "DENY" /\ reqState[r] = "DENIED"

\* A device counter value is accepted for one response only, whatever the
\* requests and the order of the concurrent ProcessApproval calls, and no
\* accepted value is above the stored one (DR-SIG-6: "non-increasing values are rejected").
CounterAcceptedOnce ==
  \A r1, r2 \in Requests : \A m1 \in accepted[r1], m2 \in accepted[r2] :
    /\ m1.cnt <= counter[m1.dev]
    /\ (m1.dev = m2.dev /\ m1.cnt = m2.cnt) => (r1 = r2 /\ m1 = m2)

\* A decided request stays as it was decided: no later approval, denial or
\* cancel changes its state or version (DR-SVC-3), and a grant row is never
\* taken back to unused.
DecisionKept ==
  \A r \in Requests :
    /\ reqState[r] \notin {"NONE", "PENDING"} =>
         reqState'[r] = reqState[r] /\ version'[r] = version[r] /\ accepted'[r] = accepted[r]
    /\ grant[r] = "CONSUMED" => grant'[r] = "CONSUMED"

\* Every step of every call keeps the decisions made before it.
DecisionIsFinal == [][DecisionKept]_vars

\* At most one transaction holds the row of a request, and of a device, between
\* its SELECT ... FOR UPDATE and its end, and the version it read stays current.
RowLocksExclusive ==
  \A w, v \in Workers :
    /\ pc[w] \in {"device", "mint", "decide", "cancel"} =>
         /\ reqState[call[w].req] = "PENDING" /\ version[call[w].req] = seen[w]
         /\ pc[v] \in {"device", "mint", "decide", "cancel"} /\ call[v].req = call[w].req => v = w
    /\ pc[w] \in {"mint", "decide"} =>
         /\ call[w].cnt > counter[call[w].dev]
         /\ pc[v] \in {"mint", "decide"} /\ call[v].dev = call[w].dev => v = w

\* The engine implements the abstract lifecycle: every step of every call is one
\* atomic step of ApprovalLifecycle, or none (DR-SVC-2, DR-SVC-3: "Cancel races
\* approval atomically"; engine.go:227 "Races with Cancel are atomically resolved").
Lifecycle ==
  INSTANCE ApprovalLifecycle
    WITH Counters <- {m.cnt : m \in Responses}, state <- reqState, tokens <- agts, last <- counter

\* The specification of the abstract lifecycle under that mapping: what
\* ProcessApproval, CancelApprovalRequest and their retries do to a request
\* looks to every client like one atomic decision.
ImplementsLifecycle == Lifecycle!Spec

\* Every call that got a connection ends: no cycle of row locks, and no
\* transaction waits for ever for the second connection of resolveUserIdentity.
CallsFinish == \A w \in Workers : (pc[w] # "idle") ~> (pc[w] = "idle")
===============================================================================
