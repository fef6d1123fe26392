------------------------- MODULE ApprovalEngineProofs -------------------------
(***************************************************************************)
(* Proofs about ApprovalEngine, for every set of workers, requests,        *)
(* devices and responses and every size of the pool.                       *)
(***************************************************************************)
EXTENDS ApprovalEngine, TLAPS

\* The steps between which a transaction holds the row of its request.
HoldsRequest == {"device", "mint", "decide", "cancel"}

\* What a worker is doing fits the call it is in.
CallMatchesStep ==
  \A w \in Workers :
    /\ pc[w] \in {"fetch", "device", "mint", "decide"} => call[w] \in Responses
    /\ pc[w] = "mint" => call[w].decision = "APPROVE"
    /\ pc[w] \in {"cancel_fetch", "cancel"} => call[w] \in CancelCalls
    /\ pc[w] = "revoke" => call[w] \in RevokeCalls

\* A response is recorded in the row of the request it answers.
RecordedWhereAnswered == \A r \in Requests : \A m \in accepted[r] : m.req = r

IndInv ==
  /\ TypeOK
  /\ CallMatchesStep
  /\ RecordedWhereAnswered
  /\ GrantMatchesDecision
  /\ CounterAcceptedOnce
  /\ RowLocksExclusive
-------------------------------------------------------------------------------
\* The invariant holds when the tables are empty and no call is in flight.
LEMMA InitInv == Init => IndInv
  BY DEF Init, IndInv, TypeOK, CallMatchesStep, RecordedWhereAnswered,
         GrantMatchesDecision, CounterAcceptedOnce, RowLocksExclusive, NoCall

\* A step that only takes or gives back a connection, waits less, or reads,
\* leaves what the tables say as it was.
LEMMA RowsKept ==
  ASSUME RecordedWhereAnswered, GrantMatchesDecision, CounterAcceptedOnce, UNCHANGED rows
  PROVE  RecordedWhereAnswered' /\ GrantMatchesDecision' /\ CounterAcceptedOnce'
  BY DEF rows, RecordedWhereAnswered, GrantMatchesDecision, CounterAcceptedOnce

\* Ending a call without writing (early return, error, rollback) keeps the invariant.
LEMMA FinishKeeps ==
  ASSUME IndInv, NEW w \in Workers, Finish(w), UNCHANGED <<rows, lapsed>>
  PROVE  IndInv'
<1>1. TypeOK'
  BY DEF IndInv, TypeOK, Finish, rows, NoCall
<1>2. CallMatchesStep'
  BY DEF IndInv, TypeOK, Finish, CallMatchesStep
<1>3. RowLocksExclusive'
  BY DEF IndInv, TypeOK, Finish, RowLocksExclusive, rows
<1>4. QED
  BY <1>1, <1>2, <1>3, RowsKept DEF IndInv

\* Starting a call keeps the invariant.
LEMMA BeginKeeps ==
  ASSUME IndInv, NEW w \in Workers, NEW c, NEW step \in {"fetch", "cancel_fetch", "revoke"},
         step = "fetch" => c \in Responses,
         step = "cancel_fetch" => c \in CancelCalls,
         step = "revoke" => c \in RevokeCalls,
         Begin(w, c, step)
  PROVE  IndInv'
<1>1. TypeOK'
  BY DEF IndInv, TypeOK, Begin, rows
<1>2. CallMatchesStep'
  BY DEF IndInv, TypeOK, Begin, CallMatchesStep
<1>3. RowLocksExclusive'
  BY DEF IndInv, TypeOK, Begin, RowLocksExclusive, rows
<1>4. QED
  BY <1>1, <1>2, <1>3, RowsKept DEF IndInv, Begin

\* Taking the lock of a request: no one else holds it, so its version is current.
LEMMA LockRequestKeeps ==
  ASSUME IndInv, NEW w \in Workers, NEW step \in {"device", "cancel"},
         step = "device" => call[w] \in Responses,
         step = "cancel" => call[w] \in CancelCalls,
         RequestUnlocked(call[w].req),
         reqState[call[w].req] = "PENDING",
         pc' = [pc EXCEPT ![w] = step],
         seen' = [seen EXCEPT ![w] = version[call[w].req]],
         UNCHANGED <<call, rows, lapsed>>
  PROVE  IndInv'
<1>0. call[w].req \in Requests
  BY ResponsesAssumption DEF ResponseShape, CancelCalls
<1>1. TypeOK'
  BY <1>0 DEF IndInv, TypeOK, rows
<1>2. CallMatchesStep'
  BY DEF IndInv, TypeOK, CallMatchesStep
<1>3. RowLocksExclusive'
  BY <1>0 DEF IndInv, TypeOK, RowLocksExclusive, RequestUnlocked, rows
<1>4. QED
  BY <1>1, <1>2, <1>3, RowsKept DEF IndInv

\* ProcessApproval's first SELECT ... FOR UPDATE keeps the invariant.
LEMMA FetchRequestKeeps ==
  ASSUME IndInv, NEW w \in Workers, FetchRequest(w)
  PROVE  IndInv'
<1>1. CASE reqState[call[w].req] = "PENDING"
  BY <1>1, LockRequestKeeps DEF FetchRequest, IndInv, CallMatchesStep
<1>2. CASE reqState[call[w].req] # "PENDING"
  BY <1>2, FinishKeeps DEF FetchRequest
<1>3. QED
  BY <1>1, <1>2

\* CancelApprovalRequest's SELECT ... FOR UPDATE keeps the invariant.
LEMMA FetchForCancelKeeps ==
  ASSUME IndInv, NEW w \in Workers, FetchForCancel(w)
  PROVE  IndInv'
<1>1. CASE reqState[call[w].req] = "PENDING"
  BY <1>1, LockRequestKeeps DEF FetchForCancel, IndInv, CallMatchesStep
<1>2. CASE reqState[call[w].req] # "PENDING"
  BY <1>2, FinishKeeps DEF FetchForCancel
<1>3. QED
  BY <1>1, <1>2

\* Reading and locking the device: its counter is below the response's until the commit.
LEMMA VerifyDeviceKeeps ==
  ASSUME IndInv, NEW w \in Workers, VerifyDevice(w)
  PROVE  IndInv'
<1>1. CASE ~ ResponseValid(call[w])
  BY <1>1, FinishKeeps DEF VerifyDevice
<1>2. CASE ResponseValid(call[w])
  <2> DEFINE step == IF call[w].decision = "APPROVE" THEN "mint" ELSE "decide"
  <2>1. /\ pc[w] = "device" /\ DeviceUnlocked(call[w].dev)
        /\ pc' = [pc EXCEPT ![w] = step]
        /\ UNCHANGED <<call, seen, rows, lapsed>>
    BY <1>2 DEF VerifyDevice, Goto
  <2>2. call[w] \in Responses /\ call[w].cnt > counter[call[w].dev]
    BY <1>2, <2>1 DEF IndInv, CallMatchesStep, ResponseValid
  <2>3. TypeOK'
    BY <2>1 DEF IndInv, TypeOK, rows
  <2>4. CallMatchesStep'
    BY <2>1, <2>2 DEF IndInv, TypeOK, CallMatchesStep
  <2>5. RowLocksExclusive'
    BY <2>1, <2>2 DEF IndInv, TypeOK, RowLocksExclusive, DeviceUnlocked, rows
  <2>6. QED
    BY <2>1, <2>3, <2>4, <2>5, RowsKept DEF IndInv
<1>3. QED
  BY <1>1, <1>2

\* The lookup on the second connection keeps the invariant.
LEMMA ResolveUserIdentityKeeps ==
  ASSUME IndInv, NEW w \in Workers, ResolveUserIdentity(w)
  PROVE  IndInv'
<1>1. TypeOK'
  BY DEF IndInv, TypeOK, ResolveUserIdentity, Goto, rows
<1>2. CallMatchesStep'
  BY DEF IndInv, TypeOK, ResolveUserIdentity, Goto, CallMatchesStep
<1>3. RowLocksExclusive'
  BY DEF IndInv, TypeOK, ResolveUserIdentity, Goto, RowLocksExclusive, rows
<1>4. QED
  BY <1>1, <1>2, <1>3, RowsKept DEF IndInv, ResolveUserIdentity

\* Deciding a request whose row and device row this transaction holds: the new
\* counter value is above every value accepted from the device before.
LEMMA CounterStep ==
  ASSUME IndInv, NEW w \in Workers, pc[w] = "decide",
         RecordResponse(call[w]),
         AdvanceDeviceCounter(call[w].dev, call[w].cnt)
  PROVE  /\ CounterAcceptedOnce'
         /\ RecordedWhereAnswered'
         /\ counter' \in [Devices -> Nat]
         /\ accepted' \in [Requests -> SUBSET Responses]
         /\ counter'[call[w].dev] = call[w].cnt
<1> DEFINE m == call[w]
<1>1. /\ m \in Responses /\ m.req \in Requests /\ m.dev \in Devices /\ m.cnt \in Nat
      /\ m.cnt > counter[m.dev] /\ accepted[m.req] = {}
  <2>1. m \in Responses /\ m.cnt > counter[m.dev] /\ reqState[m.req] = "PENDING"
    BY DEF IndInv, CallMatchesStep, RowLocksExclusive
  <2>2. m.req \in Requests /\ m.dev \in Devices /\ m.cnt \in Nat
    BY <2>1, ResponsesAssumption DEF ResponseShape
  <2>3. accepted[m.req] = {}
    BY <2>1, <2>2 DEF IndInv, TypeOK, GrantMatchesDecision
  <2>4. QED
    BY <2>1, <2>2, <2>3
<1>2. /\ accepted' = [accepted EXCEPT ![m.req] = {m}]
      /\ counter' = [counter EXCEPT ![m.dev] = m.cnt]
  BY <1>1 DEF IndInv, TypeOK, RecordResponse, AdvanceDeviceCounter
<1>3. counter' \in [Devices -> Nat] /\ accepted' \in [Requests -> SUBSET Responses]
  BY <1>1, <1>2 DEF IndInv, TypeOK
<1>4. RecordedWhereAnswered'
  BY <1>1, <1>2 DEF IndInv, TypeOK, RecordedWhereAnswered
<1>5. ASSUME NEW r \in Requests, NEW a \in accepted'[r]
      PROVE  /\ a \in Responses /\ a.cnt \in Nat /\ a.dev \in Devices
             /\ a.cnt <= counter'[a.dev]
             /\ \/ a = m /\ r = m.req
                \/ a \in accepted[r] /\ (a.dev = m.dev => a.cnt < m.cnt)
  <2>1. (a = m /\ r = m.req) \/ a \in accepted[r]
    BY <1>1, <1>2 DEF IndInv, TypeOK
  <2>2. a \in Responses /\ a.cnt \in Nat /\ a.dev \in Devices
    BY <1>3, ResponsesAssumption DEF ResponseShape
  <2>3. a \in accepted[r] => a.cnt <= counter[a.dev]
    BY DEF IndInv, CounterAcceptedOnce
  <2>4. QED
    BY <1>1, <1>2, <2>1, <2>2, <2>3 DEF IndInv, TypeOK
<1>6. CounterAcceptedOnce'
  <2> SUFFICES ASSUME NEW s1 \in Requests, NEW s2 \in Requests,
                      NEW m1 \in accepted'[s1], NEW m2 \in accepted'[s2]
               PROVE  /\ m1.cnt <= counter'[m1.dev]
                      /\ (m1.dev = m2.dev /\ m1.cnt = m2.cnt) => (s1 = s2 /\ m1 = m2)
    BY DEF CounterAcceptedOnce
  <2>1. m1.cnt <= counter'[m1.dev]
    BY <1>5
  <2>2. CASE m1 \in accepted[s1] /\ m2 \in accepted[s2]
    BY <2>1, <2>2 DEF IndInv, CounterAcceptedOnce
  <2>3. CASE ~ (m1 \in accepted[s1] /\ m2 \in accepted[s2])
    BY <1>1, <1>5, <2>1, <2>3
  <2>4. QED
    BY <2>2, <2>3
<1>7. QED
  BY <1>1, <1>2, <1>3, <1>4, <1>6 DEF IndInv, TypeOK

\* A transaction that commits lets go of rows no other transaction holds: the
\* others keep what they locked and read.
LEMMA OthersKeepLocks ==
  ASSUME IndInv, NEW w \in Workers, NEW r \in Requests, Finish(w),
         call[w].req = r, pc[w] \in {"decide", "cancel"},
         \A s \in Requests : s # r => reqState'[s] = reqState[s] /\ version'[s] = version[s],
         \/ UNCHANGED counter
         \/ /\ pc[w] = "decide"
            /\ \A d \in Devices : d # call[w].dev => counter'[d] = counter[d]
  PROVE  RowLocksExclusive'
<1> SUFFICES ASSUME NEW u \in Workers, NEW v \in Workers
             PROVE  /\ pc'[u] \in HoldsRequest =>
                         /\ reqState'[call'[u].req] = "PENDING"
                         /\ version'[call'[u].req] = seen'[u]
                         /\ pc'[v] \in HoldsRequest /\ call'[v].req = call'[u].req => v = u
                    /\ pc'[u] \in {"mint", "decide"} =>
                         /\ call'[u].cnt > counter'[call'[u].dev]
                         /\ pc'[v] \in {"mint", "decide"} /\ call'[v].dev = call'[u].dev => v = u
  BY DEF RowLocksExclusive, HoldsRequest
<1>1. CASE u = w \/ pc[u] \notin HoldsRequest
  BY <1>1 DEF IndInv, TypeOK, Finish, HoldsRequest
<1>2. CASE u # w /\ pc[u] \in HoldsRequest
  <2>1. /\ pc'[u] = pc[u] /\ call'[u] = call[u] /\ seen'[u] = seen[u]
        /\ (pc'[v] = pc[v] /\ call'[v] = call[v]) \/ pc'[v] = "idle"
    BY <1>2 DEF IndInv, TypeOK, Finish
  <2>2. call[u].req \in Requests /\ call[u].req # r
    BY <1>2, ResponsesAssumption
       DEF IndInv, CallMatchesStep, RowLocksExclusive, HoldsRequest, ResponseShape, CancelCalls
  <2>3. pc[u] \in {"mint", "decide"} => call[u].dev \in Devices
    BY ResponsesAssumption DEF IndInv, CallMatchesStep, ResponseShape
  <2>4. pc[u] \in {"mint", "decide"} => counter'[call[u].dev] = counter[call[u].dev]
    BY <1>2, <2>3 DEF IndInv, RowLocksExclusive
  <2>5. QED
    BY <1>2, <2>1, <2>2, <2>4 DEF IndInv, RowLocksExclusive, HoldsRequest
<1>3. QED
  BY <1>1, <1>2

\* Committing an approval: the request goes from PENDING, with no grant and no
\* AGT, to GRANTED with one of each.
LEMMA CommitApproveKeeps ==
  ASSUME IndInv, NEW w \in Workers, CommitApprove(w)
  PROVE  IndInv'
<1> DEFINE m == call[w]
<1>1. m \in Responses /\ m.req \in Requests /\ m.dev \in Devices /\ pc[w] = "decide"
  BY ResponsesAssumption DEF IndInv, CallMatchesStep, CommitApprove, ResponseShape
<1>2. reqState[m.req] = "PENDING"
  BY <1>1 DEF IndInv, RowLocksExclusive
<1>3. agts[m.req] = 0 /\ grant[m.req] = "NONE" /\ accepted[m.req] = {}
  BY <1>1, <1>2 DEF IndInv, TypeOK, GrantMatchesDecision
<1>4. /\ CounterAcceptedOnce' /\ RecordedWhereAnswered'
      /\ counter' \in [Devices -> Nat] /\ accepted' \in [Requests -> SUBSET Responses]
  BY <1>1, CounterStep DEF CommitApprove
<1>5. TypeOK'
  <2>1. /\ reqState' = [reqState EXCEPT ![m.req] = "GRANTED"]
        /\ version' = [version EXCEPT ![m.req] = version[m.req] + 2]
        /\ grant' = [grant EXCEPT ![m.req] = "ISSUED"]
        /\ agts' = [agts EXCEPT ![m.req] = 1]
    BY <1>1, <1>3 DEF IndInv, TypeOK, CommitApprove, MintGrant
  <2>2. version[m.req] + 2 \in Nat
    BY <1>1 DEF IndInv, TypeOK
  <2>3. UNCHANGED <<devState, lapsed>> /\ Finish(w)
    BY DEF CommitApprove
  <2>4. QED
    BY <1>1, <1>4, <2>1, <2>2, <2>3 DEF IndInv, TypeOK, Finish, NoCall
<1>6. CallMatchesStep'
  BY DEF IndInv, TypeOK, CallMatchesStep, CommitApprove, Finish
<1>7. GrantMatchesDecision'
  <2>1. ASSUME NEW r \in Requests, r # m.req
        PROVE  /\ reqState'[r] = reqState[r] /\ agts'[r] = agts[r]
               /\ grant'[r] = grant[r] /\ accepted'[r] = accepted[r]
    BY <2>1 DEF IndInv, TypeOK, CommitApprove, MintGrant, RecordResponse
  <2>2. /\ reqState'[m.req] = "GRANTED" /\ agts'[m.req] = 1
        /\ grant'[m.req] = "ISSUED" /\ accepted'[m.req] = {m} /\ m.decision = "APPROVE"
    BY <1>1, <1>3 DEF IndInv, TypeOK, CommitApprove, MintGrant, RecordResponse
  <2>3. QED
    BY <2>1, <2>2 DEF IndInv, GrantMatchesDecision
<1>8. RowLocksExclusive'
  <2>1. \A s \in Requests : s # m.req => reqState'[s] = reqState[s] /\ version'[s] = version[s]
    BY DEF IndInv, TypeOK, CommitApprove, MintGrant
  <2>2. \A d \in Devices : d # m.dev => counter'[d] = counter[d]
    BY DEF IndInv, TypeOK, CommitApprove, AdvanceDeviceCounter
  <2>3. QED
    BY <1>1, <2>1, <2>2, OthersKeepLocks DEF CommitApprove
<1>9. QED
  BY <1>4, <1>5, <1>6, <1>7, <1>8 DEF IndInv

\* Committing a denial: the request goes from PENDING to DENIED with no grant.
LEMMA CommitDenyKeeps ==
  ASSUME IndInv, NEW w \in Workers, CommitDeny(w)
  PROVE  IndInv'
<1> DEFINE m == call[w]
<1>1. m \in Responses /\ m.req \in Requests /\ m.dev \in Devices /\ pc[w] = "decide"
  BY ResponsesAssumption DEF IndInv, CallMatchesStep, CommitDeny, ResponseShape
<1>2. reqState[m.req] = "PENDING"
  BY <1>1 DEF IndInv, RowLocksExclusive
<1>3. agts[m.req] = 0 /\ grant[m.req] = "NONE" /\ accepted[m.req] = {}
  BY <1>1, <1>2 DEF IndInv, TypeOK, GrantMatchesDecision
<1>4. /\ CounterAcceptedOnce' /\ RecordedWhereAnswered'
      /\ counter' \in [Devices -> Nat] /\ accepted' \in [Requests -> SUBSET Responses]
  BY <1>1, CounterStep DEF CommitDeny
<1>5. TypeOK'
  <2>1. /\ reqState' = [reqState EXCEPT ![m.req] = "DENIED"]
        /\ version' = [version EXCEPT ![m.req] = version[m.req] + 1]
        /\ UNCHANGED <<grant, agts, devState, lapsed>> /\ Finish(w)
    BY <1>1 DEF CommitDeny
  <2>2. version[m.req] + 1 \in Nat
    BY <1>1 DEF IndInv, TypeOK
  <2>3. QED
    BY <1>1, <1>4, <2>1, <2>2 DEF IndInv, TypeOK, Finish, NoCall
<1>6. CallMatchesStep'
  BY DEF IndInv, TypeOK, CallMatchesStep, CommitDeny, Finish
<1>7. GrantMatchesDecision'
  <2>1. ASSUME NEW r \in Requests, r # m.req
        PROVE  reqState'[r] = reqState[r] /\ accepted'[r] = accepted[r]
    BY <2>1 DEF IndInv, TypeOK, CommitDeny, RecordResponse
  <2>2. reqState'[m.req] = "DENIED" /\ accepted'[m.req] = {m} /\ m.decision = "DENY"
    BY <1>1, <1>3 DEF IndInv, TypeOK, CommitDeny, RecordResponse
  <2>3. UNCHANGED <<agts, grant>>
    BY DEF CommitDeny
  <2>4. QED
    BY <1>3, <2>1, <2>2, <2>3 DEF IndInv, GrantMatchesDecision
<1>8. RowLocksExclusive'
  <2>1. \A s \in Requests : s # m.req => reqState'[s] = reqState[s] /\ version'[s] = version[s]
    BY DEF IndInv, TypeOK, CommitDeny
  <2>2. \A d \in Devices : d # m.dev => counter'[d] = counter[d]
    BY DEF IndInv, TypeOK, CommitDeny, AdvanceDeviceCounter
  <2>3. QED
    BY <1>1, <2>1, <2>2, OthersKeepLocks DEF CommitDeny
<1>9. QED
  BY <1>4, <1>5, <1>6, <1>7, <1>8 DEF IndInv

\* Committing a cancel: the request goes from PENDING to CANCELLED with no grant.
LEMMA CommitCancelKeeps ==
  ASSUME IndInv, NEW w \in Workers, CommitCancel(w)
  PROVE  IndInv'
<1> DEFINE r == call[w].req
<1>1. r \in Requests /\ pc[w] = "cancel"
  BY DEF IndInv, CallMatchesStep, CommitCancel, CancelCalls
<1>2. reqState[r] = "PENDING"
  BY <1>1 DEF IndInv, RowLocksExclusive
<1>3. /\ reqState' = [reqState EXCEPT ![r] = "CANCELLED"]
      /\ version' = [version EXCEPT ![r] = version[r] + 1]
      /\ UNCHANGED <<accepted, counter, devState, grant, agts, lapsed>>
      /\ Finish(w)
  BY <1>1 DEF CommitCancel
<1>4. TypeOK'
  <2>1. version[r] + 1 \in Nat
    BY <1>1 DEF IndInv, TypeOK
  <2>2. QED
    BY <1>1, <1>3, <2>1 DEF IndInv, TypeOK, Finish, NoCall
<1>5. CallMatchesStep'
  BY <1>3 DEF IndInv, TypeOK, CallMatchesStep, Finish
<1>6. RecordedWhereAnswered' /\ CounterAcceptedOnce'
  BY <1>3 DEF IndInv, RecordedWhereAnswered, CounterAcceptedOnce
<1>7. GrantMatchesDecision'
  BY <1>1, <1>2, <1>3 DEF IndInv, TypeOK, GrantMatchesDecision
<1>8. RowLocksExclusive'
  <2>1. \A s \in Requests : s # r => reqState'[s] = reqState[s] /\ version'[s] = version[s]
    BY <1>3 DEF IndInv, TypeOK
  <2>2. QED
    BY <1>1, <1>3, <2>1, OthersKeepLocks
<1>9. QED
  BY <1>4, <1>5, <1>6, <1>7, <1>8 DEF IndInv

\* Revoking a device touches only devices.state.
LEMMA RevokeDeviceKeeps ==
  ASSUME IndInv, NEW w \in Workers, RevokeDevice(w)
  PROVE  IndInv'
<1>1. TypeOK'
  BY Zenon DEF IndInv, TypeOK, RevokeDevice, Finish, NoCall
<1>2. CallMatchesStep'
  BY DEF IndInv, TypeOK, RevokeDevice, Finish, CallMatchesStep
<1>3. RecordedWhereAnswered' /\ GrantMatchesDecision' /\ CounterAcceptedOnce'
  BY DEF IndInv, RevokeDevice, RecordedWhereAnswered, GrantMatchesDecision, CounterAcceptedOnce
<1>4. RowLocksExclusive'
  BY DEF IndInv, TypeOK, RevokeDevice, Finish, RowLocksExclusive
<1>5. QED
  BY <1>1, <1>2, <1>3, <1>4 DEF IndInv

\* Creating a request that no transaction can have locked yet keeps the invariant.
LEMMA CreateKeeps ==
  ASSUME IndInv, NEW r \in Requests, CreateApprovalRequest(r)
  PROVE  IndInv'
<1>1. TypeOK'
  BY DEF IndInv, TypeOK, CreateApprovalRequest, local
<1>2. CallMatchesStep' /\ RecordedWhereAnswered' /\ CounterAcceptedOnce'
  BY DEF IndInv, CreateApprovalRequest, local, CallMatchesStep, RecordedWhereAnswered,
         CounterAcceptedOnce
<1>3. GrantMatchesDecision'
  BY DEF IndInv, TypeOK, CreateApprovalRequest, GrantMatchesDecision
<1>4. RowLocksExclusive'
  BY DEF IndInv, TypeOK, CreateApprovalRequest, local, RowLocksExclusive
<1>5. QED
  BY <1>1, <1>2, <1>3, <1>4 DEF IndInv

\* Consuming a grant, and time passing, keep the invariant.
LEMMA ConsumeAndTimeKeep ==
  ASSUME IndInv, NEW r \in Requests,
         ConsumeGrant(r) \/ GrantTTLPasses(r)
  PROVE  IndInv'
<1>1. TypeOK'
  BY DEF IndInv, TypeOK, ConsumeGrant, GrantTTLPasses, rows, local
<1>2. UNCHANGED <<reqState, version, accepted, counter, agts, pc, call, seen>>
  BY DEF ConsumeGrant, GrantTTLPasses, rows, local
<1>3. \A s \in Requests : (grant'[s] = "NONE") <=> (grant[s] = "NONE")
  BY DEF IndInv, TypeOK, ConsumeGrant, GrantTTLPasses, rows
<1>4. CallMatchesStep' /\ RecordedWhereAnswered' /\ CounterAcceptedOnce' /\ RowLocksExclusive'
  BY <1>2 DEF IndInv, CallMatchesStep, RecordedWhereAnswered, CounterAcceptedOnce,
              RowLocksExclusive
<1>5. GrantMatchesDecision'
  BY <1>2, <1>3 DEF IndInv, GrantMatchesDecision
<1>6. QED
  BY <1>1, <1>4, <1>5 DEF IndInv

\* Every step of the engine keeps the invariant.
LEMMA NextKeeps == IndInv /\ [Next]_vars => IndInv'
<1> SUFFICES ASSUME IndInv, [Next]_vars PROVE IndInv'
  OBVIOUS
<1>1. ASSUME NEW r \in Requests, CreateApprovalRequest(r) PROVE IndInv'
  BY <1>1, CreateKeeps
<1>2. ASSUME NEW w \in Workers, NEW m \in Responses, BeginApproval(w, m) PROVE IndInv'
  BY <1>2, BeginKeeps DEF BeginApproval
<1>3. ASSUME NEW w \in Workers, NEW r \in Requests, BeginCancel(w, r) PROVE IndInv'
  BY <1>3, BeginKeeps DEF BeginCancel, CancelCalls
<1>4. ASSUME NEW w \in Workers, NEW d \in Devices, BeginRevokeDevice(w, d) PROVE IndInv'
  BY <1>4, BeginKeeps DEF BeginRevokeDevice, RevokeCalls
<1>5. ASSUME NEW w \in Workers, ProcessApproval(w) PROVE IndInv'
  BY <1>5, FetchRequestKeeps, VerifyDeviceKeeps, ResolveUserIdentityKeeps,
     CommitApproveKeeps, CommitDenyKeeps DEF ProcessApproval
<1>6. ASSUME NEW w \in Workers, CancelApprovalRequest(w) PROVE IndInv'
  BY <1>6, FetchForCancelKeeps, CommitCancelKeeps DEF CancelApprovalRequest
<1>7. ASSUME NEW w \in Workers, RevokeDevice(w) PROVE IndInv'
  BY <1>7, RevokeDeviceKeeps
<1>8. ASSUME NEW w \in Workers, MintFails(w) \/ Rollback(w) PROVE IndInv'
  BY <1>8, FinishKeeps DEF MintFails, Rollback
<1>9. ASSUME NEW r \in Requests,
             ConsumeGrant(r) \/ GrantTTLPasses(r)
      PROVE  IndInv'
  BY <1>9, ConsumeAndTimeKeep
<1>10. CASE UNCHANGED vars
  BY <1>10 DEF vars, rows, local, IndInv, TypeOK, CallMatchesStep,
               RecordedWhereAnswered, GrantMatchesDecision, CounterAcceptedOnce, RowLocksExclusive
<1>11. QED
  BY <1>1, <1>2, <1>3, <1>4, <1>5, <1>6, <1>7, <1>8, <1>9, <1>10 DEF Next

\* The inductive invariant holds in every reachable state.
THEOREM Invariance == Spec => []IndInv
<1>1. QED
  BY InitInv, NextKeeps, PTL DEF Spec

\* Every variable keeps its type, in the engine with any number of calls in flight.
THEOREM TypeCorrect == Spec => []TypeOK
<1>1. IndInv => TypeOK
  BY DEF IndInv
<1>2. QED
  BY <1>1, Invariance, PTL

\* A request is GRANTED exactly when one approving response was recorded, and
\* then there is one grant row and one AGT; otherwise there is none.
THEOREM GrantSafety == Spec => []GrantMatchesDecision
<1>1. IndInv => GrantMatchesDecision
  BY DEF IndInv
<1>2. QED
  BY <1>1, Invariance, PTL

\* ProcessApproval accepts each counter value of a device at most once.
THEOREM CounterSafety == Spec => []CounterAcceptedOnce
<1>1. IndInv => CounterAcceptedOnce
  BY DEF IndInv
<1>2. QED
  BY <1>1, Invariance, PTL

\* SELECT ... FOR UPDATE gives each transaction its rows alone, and the version
\* it read stays current until it commits.
THEOREM LockSafety == Spec => []RowLocksExclusive
<1>1. IndInv => RowLocksExclusive
  BY DEF IndInv
<1>2. QED
  BY <1>1, Invariance, PTL

-------------------------------------------------------------------------------
(***************************************************************************)
(* What a step may not do, and the refinement.  Both rest on one fact      *)
(* about what a step does to a request: nothing, or one of the four moves  *)
(* of the lifecycle.                                                       *)
(***************************************************************************)

\* Nothing of what ApprovalLifecycle speaks of changes.
Silent == UNCHANGED <<reqState, version, accepted, counter, agts>>

\* A step is silent, creates one request, or decides one pending request.
Moves(r) ==
  /\ reqState[r] \in {"NONE", "PENDING"}
  /\ \A s \in Requests \ {r} :
       /\ reqState'[s] = reqState[s] /\ version'[s] = version[s]
       /\ accepted'[s] = accepted[s] /\ agts'[s] = agts[s]

\* Every step of the engine is silent, or creates or decides one request, and
\* no step undoes the consumption of a grant.
LEMMA StepMoves ==
  ASSUME IndInv, [Next]_vars
  PROVE  /\ Silent \/ \E r \in Requests : Moves(r)
         /\ \A r \in Requests : grant[r] = "CONSUMED" => grant'[r] = "CONSUMED"
<1> DEFINE Goal ==
      /\ Silent \/ \E r \in Requests : Moves(r)
      /\ \A r \in Requests : grant[r] = "CONSUMED" => grant'[r] = "CONSUMED"
<1>1. ASSUME NEW r \in Requests, CreateApprovalRequest(r) PROVE Goal
  <2>1. Moves(r)
    BY <1>1 DEF CreateApprovalRequest, Moves, IndInv, TypeOK
  <2>2. UNCHANGED grant
    BY <1>1 DEF CreateApprovalRequest
  <2>3. QED
    BY <2>1, <2>2
<1>2. ASSUME UNCHANGED rows PROVE Goal
  BY <1>2 DEF rows, Silent
<1>3. ASSUME NEW w \in Workers, CommitApprove(w) PROVE Goal
  <2>1. call[w] \in Responses /\ call[w].req \in Requests /\ reqState[call[w].req] = "PENDING"
    BY <1>3, ResponsesAssumption
       DEF CommitApprove, IndInv, CallMatchesStep, RowLocksExclusive, ResponseShape
  <2>2. Moves(call[w].req)
    BY <1>3, <2>1 DEF CommitApprove, MintGrant, RecordResponse, Moves, IndInv, TypeOK
  <2>3. \A r \in Requests : grant[r] = "CONSUMED" => grant'[r] = "CONSUMED"
    BY <1>3, <2>1 DEF CommitApprove, MintGrant, IndInv, TypeOK
  <2>4. QED
    BY <2>1, <2>2, <2>3
<1>4. ASSUME NEW w \in Workers, CommitDeny(w) PROVE Goal
  <2>1. call[w] \in Responses /\ call[w].req \in Requests /\ reqState[call[w].req] = "PENDING"
    BY <1>4, ResponsesAssumption
       DEF CommitDeny, IndInv, CallMatchesStep, RowLocksExclusive, ResponseShape
  <2>2. Moves(call[w].req) /\ UNCHANGED grant
    BY <1>4, <2>1 DEF CommitDeny, RecordResponse, Moves, IndInv, TypeOK
  <2>3. QED
    BY <2>1, <2>2
<1>5. ASSUME NEW w \in Workers, CommitCancel(w) PROVE Goal
  <2>1. call[w].req \in Requests /\ reqState[call[w].req] = "PENDING"
    BY <1>5 DEF CommitCancel, IndInv, CallMatchesStep, RowLocksExclusive, CancelCalls
  <2>2. Moves(call[w].req) /\ UNCHANGED grant
    BY <1>5, <2>1 DEF CommitCancel, Moves, IndInv, TypeOK
  <2>3. QED
    BY <2>1, <2>2
<1>6. ASSUME NEW w \in Workers, RevokeDevice(w) PROVE Goal
  BY <1>6 DEF RevokeDevice, Silent
<1>7. ASSUME NEW r \in Requests, ConsumeGrant(r) PROVE Goal
  BY <1>7 DEF ConsumeGrant, Silent, IndInv, TypeOK
<1>8. QED
  BY <1>1, <1>2, <1>3, <1>4, <1>5, <1>6, <1>7
     DEF Next, vars, rows, BeginApproval, BeginCancel, BeginRevokeDevice, Begin, ProcessApproval,
         CancelApprovalRequest, FetchRequest, VerifyDevice, ResolveUserIdentity, FetchForCancel,
         MintFails, Rollback, GrantTTLPasses

\* A decided request, and a consumed grant, never change again.
THEOREM DecisionsFinal == Spec => DecisionIsFinal
<1>1. IndInv /\ [Next]_vars => [DecisionKept]_vars
  <2> SUFFICES ASSUME IndInv, [Next]_vars PROVE DecisionKept
    OBVIOUS
  <2>1. QED
    BY StepMoves DEF Moves, Silent, DecisionKept
<1>2. QED
  BY <1>1, Invariance, PTL DEF Spec, DecisionIsFinal

\* Each step of the engine is a step of the abstract lifecycle or changes
\* nothing it speaks of: the decision takes effect when the transaction commits.
LEMMA StepImplements ==
  ASSUME IndInv, [Next]_vars
  PROVE  [Lifecycle!Next]_(Lifecycle!vars)
<1> DEFINE Goal == [Lifecycle!Next]_(Lifecycle!vars)
<1>1. ASSUME NEW r \in Requests, CreateApprovalRequest(r) PROVE Goal
  BY <1>1, Zenon DEF CreateApprovalRequest, Lifecycle!Next, Lifecycle!Create
<1>2. ASSUME UNCHANGED <<reqState, agts, counter>> PROVE Goal
  BY <1>2 DEF Lifecycle!vars
<1>3. ASSUME NEW w \in Workers, CommitApprove(w) PROVE Goal
  <2> DEFINE m == call[w]
  <2>1. /\ m \in Responses /\ m.req \in Requests /\ m.dev \in Devices /\ m.cnt \in Nat
        /\ reqState[m.req] = "PENDING" /\ m.cnt > counter[m.dev]
    BY <1>3, ResponsesAssumption
       DEF CommitApprove, IndInv, CallMatchesStep, RowLocksExclusive, ResponseShape
  <2>2. agts[m.req] = 0
    BY <2>1 DEF IndInv, GrantMatchesDecision
  <2>3. /\ reqState' = [reqState EXCEPT ![m.req] = "GRANTED"]
        /\ agts' = [agts EXCEPT ![m.req] = 1]
        /\ counter' = [counter EXCEPT ![m.dev] = m.cnt]
    BY <1>3, <2>1, <2>2
       DEF CommitApprove, MintGrant, AdvanceDeviceCounter, IndInv, TypeOK
  <2>4. Lifecycle!Approve(m.req, m.dev, m.cnt)
    BY <2>1, <2>3 DEF Lifecycle!Approve, Lifecycle!UseCounter
  <2>5. QED
    BY <2>1, <2>4 DEF Lifecycle!Next
<1>4. ASSUME NEW w \in Workers, CommitDeny(w) PROVE Goal
  <2> DEFINE m == call[w]
  <2>1. /\ m \in Responses /\ m.req \in Requests /\ m.dev \in Devices /\ m.cnt \in Nat
        /\ reqState[m.req] = "PENDING" /\ m.cnt > counter[m.dev]
    BY <1>4, ResponsesAssumption
       DEF CommitDeny, IndInv, CallMatchesStep, RowLocksExclusive, ResponseShape
  <2>2. /\ reqState' = [reqState EXCEPT ![m.req] = "DENIED"]
        /\ UNCHANGED agts
        /\ counter' = [counter EXCEPT ![m.dev] = m.cnt]
    BY <1>4, <2>1 DEF CommitDeny, AdvanceDeviceCounter, IndInv, TypeOK
  <2>3. Lifecycle!Deny(m.req, m.dev, m.cnt)
    BY <2>1, <2>2 DEF Lifecycle!Deny, Lifecycle!UseCounter
  <2>4. QED
    BY <2>1, <2>3 DEF Lifecycle!Next
<1>5. ASSUME NEW w \in Workers, CommitCancel(w) PROVE Goal
  <2>1. call[w].req \in Requests /\ reqState[call[w].req] = "PENDING"
    BY <1>5 DEF CommitCancel, IndInv, CallMatchesStep, RowLocksExclusive, CancelCalls
  <2>2. Lifecycle!Cancel(call[w].req)
    BY <1>5, <2>1 DEF CommitCancel, Lifecycle!Cancel
  <2>3. QED
    BY <2>1, <2>2 DEF Lifecycle!Next
<1>6. QED
  BY <1>1, <1>2, <1>3, <1>4, <1>5
     DEF Next, vars, rows, BeginApproval, BeginCancel, BeginRevokeDevice, Begin, ProcessApproval,
         CancelApprovalRequest, FetchRequest, VerifyDevice, ResolveUserIdentity, FetchForCancel,
         MintFails, Rollback, RevokeDevice, ConsumeGrant, GrantTTLPasses

\* The engine implements the abstract lifecycle: concurrent approvals, denials,
\* cancels, retries and rollbacks look like one atomic decision per request.
THEOREM Refinement == Spec => ImplementsLifecycle
<1>1. Init => Lifecycle!Init
  BY DEF Init, Lifecycle!Init
<1>2. IndInv /\ [Next]_vars => [Lifecycle!Next]_(Lifecycle!vars)
  BY StepImplements
<1>3. QED
  BY <1>1, <1>2, Invariance, PTL DEF Spec, ImplementsLifecycle, Lifecycle!Spec

===============================================================================
