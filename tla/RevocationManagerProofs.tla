------------------------ MODULE RevocationManagerProofs ------------------------
(***************************************************************************)
(* Proofs about RevocationManager, for any finite number of concurrent     *)
(* calls, any devices, grants, orders and consumers and any bound, whether *)
(* or not Postgres accepts the sequence query.                             *)
(***************************************************************************)
EXTENDS RevocationManager, SequenceTheorems, FiniteSetTheorems, TLAPS

Shape ==
  /\ maxConns \in PoolSizes
  /\ seqMu \in Workers \cup {None}
  /\ devState \in [Devices -> {"ENROLLED", "REVOKED"}]
  /\ grant \in [Grants -> {"UNUSED", "CONSUMED", "DELETED"}]
  /\ session \in [Grants -> {"NONE", "OPEN", "CLOSED"}]
  /\ outbox \in [Consumers -> Seq(Nat)]
  /\ pc \in [Workers -> {"idle", "begin", "lock", "seq", "insert", "notify", "revoke_begin",
                         "revoke", "revoke_lock", "revoke_seq", "revoke_insert"} \cup Inserted]
  /\ call \in [Workers -> Calls \cup {NoCall}]
  /\ alloc \in [Workers -> Nat]
  /\ closing \in [Workers -> SUBSET Grants]
  /\ deleting \in [Workers -> SUBSET Grants]
  /\ aged \in BOOLEAN

\* The committed stream has no holes.
Stream ==
  /\ MaxSeq \in Nat
  /\ DOMAIN revs = 1..MaxSeq
  /\ \A s \in DOMAIN revs : revs[s].kind \in Kinds

\* What call w knows.  The number it read may be taken by now, but is not beyond the
\* end; once its row is in, the number is the next one.  A session it is to close
\* stays one, and what it is to delete it holds no longer than its transaction.
Knows(w) ==
  /\ pc[w] \in {"idle", "notify"} => alloc[w] = 0
  /\ pc[w] # "idle" => call[w] \in Calls
  /\ pc[w] \in {"insert", "revoke_insert"} => alloc[w] \in 1..MaxSeq + 1
  /\ pc[w] \in Inserted => alloc[w] = MaxSeq + 1
  /\ alloc[w] <= MaxSeq + 1
  /\ \A g \in closing[w] : session[g] # "NONE"
  /\ deleting[w] # {} => pc[w] = "commit"

\* The key of the stream admits one uncommitted row at a time.
Sole == \A v, w \in Workers : pc[v] \in Inserted /\ pc[w] \in Inserted => v = w

\* The daemon was sent the stream up to its cursor.
Served ==
  /\ cursor \in 0..MaxSeq /\ latest \in 0..MaxSeq
  /\ received \subseteq 1..MaxSeq
  /\ 1..cursor \subseteq received

\* The second half of NothingMissed.
Queued ==
  \A c \in Consumers : \A i \in 1..Len(outbox[c]) :
    /\ outbox[c][i] \in 1..MaxSeq
    /\ i > 1 => outbox[c][i - 1] < outbox[c][i]

Budget == MaxSeq + Cardinality(UnderWay) <= MaxRevocations

IndInv ==
  /\ Shape
  /\ Stream
  /\ \A w \in Workers : Knows(w)
  /\ Sole
  /\ SessionsKeepGrants
  /\ Served
  /\ Queued
  /\ Budget

-------------------------------------------------------------------------------
\* The largest number of a stream without holes.
LEMMA MaxOfInterval ==
  ASSUME NEW n \in Nat
  PROVE  MaxOf(1..n) = n
  BY DEF MaxOf

\* A sequence is one over any set that has its elements.
LEMMA RetypeSeq ==
  ASSUME NEW q \in Seq(Nat), NEW T, \A i \in 1..Len(q) : q[i] \in T
  PROVE  q \in Seq(T)
<1>1. Range(q) \subseteq T
  BY RangeEquality
<1>2. q \in Seq(Range(q))
  BY SeqOfRange
<1> DEFINE R == Range(q)
<1> HIDE DEF R
<1>3. R \subseteq T /\ q \in Seq(R)
  BY <1>1, <1>2 DEF R
<1>4. QED
  BY <1>3, SeqMonotonic

\* How the number of calls under way changes when one begins or ends.
LEMMA UnderWayCount ==
  /\ Cardinality(UnderWay) \in Nat
  /\ \A w \in Workers \ UnderWay : Cardinality(UnderWay \cup {w}) = Cardinality(UnderWay) + 1
  /\ \A w \in UnderWay : /\ Cardinality(UnderWay \ {w}) = Cardinality(UnderWay) - 1
                         /\ Cardinality(UnderWay) >= 1
<1>1. IsFiniteSet(UnderWay)
  BY RevocationAssumption, FS_Subset DEF UnderWay
<1>2. Cardinality(UnderWay) \in Nat
  BY <1>1, FS_CardinalityType
<1>3. \A w \in Workers \ UnderWay : Cardinality(UnderWay \cup {w}) = Cardinality(UnderWay) + 1
  BY <1>1, FS_AddElement
<1>4. \A w \in UnderWay : Cardinality(UnderWay \ {w}) = Cardinality(UnderWay) - 1
  BY <1>1, FS_RemoveElement
<1>5. \A w \in UnderWay : Cardinality(UnderWay) # 0
  BY <1>1, FS_EmptySet
<1>6. QED
  BY <1>2, <1>3, <1>4, <1>5

\* An empty stream, no call, a daemon that has seen nothing.
LEMMA InitInv == Init => IndInv
<1> SUFFICES ASSUME Init PROVE IndInv
  OBVIOUS
<1>1. Shape
  <2>1. outbox \in [Consumers -> Seq(Nat)]
    BY EmptySeq DEF Init
  <2>2. QED
    BY <2>1, RevocationAssumption, Zenon DEF Init, Shape
<1>2. MaxSeq = 0 /\ DOMAIN revs = {}
  BY DEF Init, MaxSeq, MaxOf
<1>3. Stream /\ Served
  BY <1>2 DEF Stream, Served, Init
<1>4. \A w \in Workers : Knows(w)
  BY <1>2 DEF Knows, Init, Inserted
<1>5. Sole /\ SessionsKeepGrants
  BY DEF Sole, SessionsKeepGrants, Init, Inserted
<1>6. Queued
  <2>1. \A c \in Consumers : Len(outbox[c]) = 0
    BY DEF Init
  <2>2. QED
    BY <2>1 DEF Queued
<1>7. Budget
  <2>1. UnderWay = {}
    BY DEF UnderWay, Init
  <2>2. QED
    BY <1>2, <2>1, FS_EmptySet, RevocationAssumption DEF Budget
<1>8. QED
  BY <1>1, <1>3, <1>4, <1>5, <1>6, <1>7 DEF IndInv

-------------------------------------------------------------------------------
(***************************************************************************)
(* A step within a transaction: the tables and the daemon stay, and so     *)
(* does all that depends on them alone.  What is left to show of the step  *)
(* concerns the call that takes it.                                        *)
(***************************************************************************)
LEMMA WithinTransaction ==
  ASSUME IndInv, NEW w \in Workers, UNCHANGED <<tables, daemon, maxConns>>,
         pc[w] # "idle", pc[w] # "notify",
         NEW step, pc' = [pc EXCEPT ![w] = step], step # "idle", step # "notify",
         Shape', Knows(w)',
         \A v \in Workers \ {w} : /\ call'[v] = call[v] /\ alloc'[v] = alloc[v]
                                  /\ closing'[v] = closing[v] /\ deleting'[v] = deleting[v],
         step \in Inserted => pc[w] \in Inserted \/ (KeyFree(w) /\ alloc[w] = MaxSeq + 1),
         \A g \in deleting'[w] : grant[g] = "UNUSED" /\ session[g] = "NONE"
  PROVE  IndInv'
<1>1. MaxSeq' = MaxSeq
  BY DEF tables, MaxSeq
<1>2. Stream' /\ Served' /\ Queued'
  BY <1>1 DEF IndInv, Stream, Served, Queued, tables, daemon
<1>3. \A v \in Workers : Knows(v)'
  <2> SUFFICES ASSUME NEW v \in Workers, v # w PROVE Knows(v)'
    OBVIOUS
  <2>1. pc'[v] = pc[v] /\ session' = session
    BY DEF IndInv, Shape, tables
  <2>2. QED
    BY <1>1, <2>1 DEF IndInv, Knows
<1>4. Sole'
  <2> SUFFICES ASSUME NEW v \in Workers, v # w, pc'[v] \in Inserted, pc'[w] \in Inserted
               PROVE  FALSE
    BY DEF Sole, IndInv, Shape
  <2>1. pc[v] \in Inserted /\ step \in Inserted
    BY DEF IndInv, Shape
  <2>2. pc[w] \notin Inserted
    BY <2>1 DEF IndInv, Sole
  <2>3. alloc[v] # alloc[w] /\ alloc[w] = MaxSeq + 1
    BY <2>1, <2>2 DEF KeyFree
  <2>4. QED
    BY <2>1, <2>3 DEF IndInv, Knows
<1>5. SessionsKeepGrants'
  BY DEF IndInv, SessionsKeepGrants, tables
<1>6. Budget'
  <2>1. UnderWay' = UnderWay
    BY DEF UnderWay, IndInv, Shape
  <2>2. QED
    BY <1>1, <2>1 DEF IndInv, Budget
<1>7. QED
  BY <1>2, <1>3, <1>4, <1>5, <1>6 DEF IndInv

\* A call is asked for something: there is room for its number.
LEMMA BeginKeeps ==
  ASSUME IndInv, NEW w \in Workers, NEW c \in Calls, NEW step \in {"begin", "revoke_begin"},
         Begin(w, c, step)
  PROVE  IndInv'
<1>1. MaxSeq' = MaxSeq /\ pc[w] = "idle"
  BY DEF Begin, tables, MaxSeq
<1>2. Shape'
  BY DEF IndInv, Shape, Begin, Goto, tables, daemon
<1>3. Stream' /\ Served' /\ Queued' /\ SessionsKeepGrants'
  BY <1>1 DEF IndInv, Stream, Served, Queued, SessionsKeepGrants, Begin, tables, daemon
<1>4. \A v \in Workers : Knows(v)'
  BY <1>1 DEF IndInv, Shape, Knows, Begin, Goto, tables, Inserted
<1>5. Sole'
  BY DEF IndInv, Shape, Sole, Begin, Goto, Inserted
<1>6. Budget'
  <2>1. UnderWay' = UnderWay \cup {w} /\ w \in Workers \ UnderWay
    BY DEF UnderWay, Begin, Goto, IndInv, Shape
  <2>2. MaxSeq + Cardinality(UnderWay) < MaxRevocations
    BY DEF Begin, Room, UnderWay
  <2>3. Cardinality(UnderWay') = Cardinality(UnderWay) + 1 /\ Cardinality(UnderWay) \in Nat
    BY <2>1, UnderWayCount
  <2>4. QED
    BY <1>1, <2>2, <2>3, RevocationAssumption DEF Budget, IndInv, Stream
<1>7. QED
  BY <1>2, <1>3, <1>4, <1>5, <1>6 DEF IndInv

\* Rollback, or an error path: nothing of the transaction remains.
LEMMA FinishKeeps ==
  ASSUME IndInv, NEW w \in Workers, pc[w] # "idle", Finish(w), UNCHANGED <<tables, daemon, maxConns>>
  PROVE  IndInv'
<1>1. MaxSeq' = MaxSeq
  BY DEF tables, MaxSeq
<1>2. Shape'
  BY DEF IndInv, Shape, Finish, EndTx, Goto, tables, daemon
<1>3. Stream' /\ Served' /\ Queued'
  BY <1>1 DEF IndInv, Stream, Served, Queued, tables, daemon
<1>4. SessionsKeepGrants'
  BY DEF IndInv, Shape, SessionsKeepGrants, Finish, EndTx, tables
<1>5. \A v \in Workers : Knows(v)'
  BY <1>1 DEF IndInv, Shape, Stream, Knows, Finish, EndTx, Goto, tables, Inserted
<1>6. Sole'
  BY DEF IndInv, Shape, Sole, Finish, EndTx, Goto, Inserted
<1>7. Budget'
  <2>1. UnderWay' = UnderWay \ {w}
    BY DEF UnderWay, Finish, EndTx, Goto, IndInv, Shape
  <2>2. Cardinality(UnderWay') <= Cardinality(UnderWay) /\ Cardinality(UnderWay') \in Nat
    <3>1. CASE w \in UnderWay
      BY <2>1, <3>1, UnderWayCount
    <3>2. CASE w \notin UnderWay
      <4>1. UnderWay' = UnderWay
        BY <2>1, <3>2, Zenon
      <4>2. QED
        BY <4>1, UnderWayCount
    <3>3. QED
      BY <3>1, <3>2
  <2>3. QED
    BY <1>1, <2>2, UnderWayCount, RevocationAssumption DEF Budget, IndInv, Stream
<1>8. QED
  BY <1>2, <1>3, <1>4, <1>5, <1>6, <1>7 DEF IndInv

\* seqMu is taken; the number plays no part yet.
LEMMA LockKeeps ==
  ASSUME IndInv, NEW w \in Workers,
         NEW from \in {"lock", "revoke_lock"}, NEW to \in {"seq", "revoke_seq"}, Lock(w, from, to)
  PROVE  IndInv'
<1>1. Shape'
  BY DEF IndInv, Shape, Lock, Goto, tables, daemon
<1>2. Knows(w)'
  BY Zenon DEF IndInv, Shape, Knows, Lock, Goto, tables, Inserted, MaxSeq
<1>3. QED
  BY <1>1, <1>2, WithinTransaction, Zenon DEF IndInv, SessionsKeepGrants, Lock, Goto, Inserted

\* A transaction begins, once there is a connection.
LEMMA BeginTxKeeps ==
  ASSUME IndInv, NEW w \in Workers,
         NEW from \in {"begin", "revoke_begin"}, NEW to \in {"lock", "revoke"}, BeginTx(w, from, to)
  PROVE  IndInv'
<1>1. Shape'
  BY DEF IndInv, Shape, BeginTx, Goto, tables, daemon
<1>2. Knows(w)'
  BY Zenon DEF IndInv, Shape, Knows, BeginTx, Goto, tables, Inserted, MaxSeq
<1>3. QED
  BY <1>1, <1>2, WithinTransaction, Zenon DEF IndInv, SessionsKeepGrants, BeginTx, Goto, Inserted

\* After its commit a call of IssueRevocation only notifies, and then returns.
LEMMA NotifyKeeps ==
  ASSUME IndInv, NEW w \in Workers, NotifyConsumer(w)
  PROVE  IndInv'
<1>1. PICK c \in call[w].to :
        \/ Finish(w)
        \/ /\ call' = [call EXCEPT ![w].to = @ \ {c}]
           /\ UNCHANGED <<seqMu, pc, alloc, closing, deleting>>
  BY DEF NotifyConsumer
<1>2. pc[w] = "notify" /\ UNCHANGED <<tables, daemon, maxConns>>
  BY DEF NotifyConsumer
<1>3. CASE Finish(w)
  BY <1>2, <1>3, FinishKeeps
<1>4. CASE /\ call' = [call EXCEPT ![w].to = @ \ {c}]
           /\ UNCHANGED <<seqMu, pc, alloc, closing, deleting>>
  <2>1. MaxSeq' = MaxSeq /\ UnderWay' = UnderWay
    BY <1>2, <1>4 DEF MaxSeq, UnderWay, tables
  <2>2. call[w] \in Calls
    BY <1>2 DEF IndInv, Knows
  <2>3. [call[w] EXCEPT !.to = @ \ {c}] \in Calls
    BY <2>2 DEF Calls
  <2>4. \A v \in Workers : call'[v] = IF v = w THEN [call[w] EXCEPT !.to = @ \ {c}] ELSE call[v]
    BY <1>4 DEF IndInv, Shape
  <2>5. call' \in [Workers -> Calls \cup {NoCall}]
    BY <1>4, <2>3 DEF IndInv, Shape
  <2>6. Shape'
    BY <1>2, <1>4, <2>5, Zenon DEF IndInv, Shape, tables, daemon
  <2>7. \A v \in Workers : Knows(v)'
    BY <1>2, <1>4, <2>1, <2>3, <2>4 DEF IndInv, Knows, tables
  <2>8. Stream' /\ Sole' /\ SessionsKeepGrants' /\ Served' /\ Queued' /\ Budget'
    BY <1>2, <1>4, <2>1 DEF IndInv, Stream, Sole, SessionsKeepGrants, Served, Queued, Budget,
       tables, daemon
  <2>9. QED
    BY <2>6, <2>7, <2>8 DEF IndInv
<1>5. QED
  BY <1>1, <1>3, <1>4

\* RevokeDevice has the row of the device.
LEMMA RevokeUpdateKeeps ==
  ASSUME IndInv, NEW w \in Workers, RevokeUpdate(w)
  PROVE  IndInv'
<1>1. Shape'
  BY DEF IndInv, Shape, RevokeUpdate, Goto, tables, daemon
<1>2. Knows(w)'
  BY DEF IndInv, Shape, Knows, RevokeUpdate, Goto, tables, Inserted, MaxSeq
<1>3. QED
  BY <1>1, <1>2, WithinTransaction, Zenon DEF IndInv, SessionsKeepGrants, RevokeUpdate, Goto, Inserted

\* The number is one past the committed stream, or the query is refused.
LEMMA AllocateSeqKeeps ==
  ASSUME IndInv, NEW w \in Workers, NEW from \in {"seq", "revoke_seq"},
         NEW to \in {"insert", "revoke_insert"}, AllocateSeq(w, from, to)
  PROVE  IndInv'
<1>1. CASE ~ SeqQueryAccepted
  BY <1>1, FinishKeeps DEF AllocateSeq
<1>2. CASE SeqQueryAccepted
  <2>1. /\ pc[w] = from /\ alloc' = [alloc EXCEPT ![w] = MaxSeq + 1]
        /\ pc' = [pc EXCEPT ![w] = to]
        /\ UNCHANGED <<seqMu, call, closing, deleting, tables, daemon, maxConns>>
    BY <1>2 DEF AllocateSeq, Goto
  <2>2. MaxSeq \in Nat /\ MaxSeq' = MaxSeq
    BY <2>1 DEF IndInv, Stream, MaxSeq, tables
  <2>3. Shape'
    BY <2>1, <2>2 DEF IndInv, Shape, tables, daemon
  <2>4. Knows(w)'
    <3>1. alloc'[w] = MaxSeq + 1 /\ pc'[w] = to /\ pc[w] # "idle" /\ pc[w] # "commit"
      BY <2>1 DEF IndInv, Shape
    <3>2. call'[w] \in Calls /\ deleting'[w] = {}
      BY <2>1, <3>1 DEF IndInv, Knows
    <3>3. \A g \in closing'[w] : session'[g] # "NONE"
      BY <2>1 DEF IndInv, Knows, tables
    <3>4. QED
      BY <2>2, <3>1, <3>2, <3>3 DEF Knows, Inserted
  <2>5. \A v \in Workers \ {w} : /\ call'[v] = call[v] /\ alloc'[v] = alloc[v]
                                 /\ closing'[v] = closing[v] /\ deleting'[v] = deleting[v]
    BY <2>1 DEF IndInv, Shape
  <2>6. \A g \in deleting'[w] : grant[g] = "UNUSED" /\ session[g] = "NONE"
    BY <2>1 DEF IndInv, SessionsKeepGrants
  <2>7. /\ pc[w] # "idle" /\ pc[w] # "notify"
        /\ to # "idle" /\ to # "notify" /\ to \notin Inserted
    BY <2>1 DEF Inserted
  <2>8. QED
    BY <2>1, <2>3, <2>4, <2>5, <2>6, <2>7, WithinTransaction, Zenon
<1>3. QED
  BY <1>1, <1>2

\* The row goes in when no committed row and no row in flight has its key: it is
\* then the next row of the stream, and the only one in flight.
LEMMA InsertKeeps ==
  ASSUME IndInv, NEW w \in Workers, NEW from \in {"insert", "revoke_insert"},
         NEW to \in {"terminate", "revoke_commit"}, NEW mu \in {seqMu, None},
         InsertRevocation(w, from, to, mu)
  PROVE  IndInv'
<1>1. CASE alloc[w] \in DOMAIN revs
  BY <1>1, FinishKeeps DEF InsertRevocation
<1>2. CASE alloc[w] \notin DOMAIN revs
  <2>1. /\ pc[w] = from /\ KeyFree(w) /\ seqMu' = mu
        /\ pc' = [pc EXCEPT ![w] = to]
        /\ UNCHANGED <<call, alloc, closing, deleting, tables, daemon, maxConns>>
    BY <1>2 DEF InsertRevocation, Goto
  <2>2. MaxSeq \in Nat /\ MaxSeq' = MaxSeq
    BY <2>1 DEF IndInv, Stream, MaxSeq, tables
  <2>3. alloc[w] = MaxSeq + 1
    BY <1>2, <2>1, <2>2 DEF IndInv, Knows, Stream
  <2>4. Shape'
    BY <2>1 DEF IndInv, Shape, tables, daemon, Inserted
  <2>5. Knows(w)'
    BY <2>1, <2>2, <2>3, Zenon DEF IndInv, Shape, Knows, tables, Inserted
  <2>6. \A g \in deleting'[w] : grant[g] = "UNUSED" /\ session[g] = "NONE"
    BY <2>1 DEF IndInv, SessionsKeepGrants
  <2>7. QED
    BY <2>1, <2>3, <2>4, <2>5, <2>6, WithinTransaction, Zenon DEF Inserted
<1>3. QED
  BY <1>1, <1>2

\* The sessions to close exist.
LEMMA TerminateKeeps ==
  ASSUME IndInv, NEW w \in Workers, TerminateActiveSessions(w)
  PROVE  IndInv'
<1>1. Shape'
  BY DEF IndInv, Shape, TerminateActiveSessions, SessionsOf, Goto, tables, daemon, Inserted
<1>2. Knows(w)'
  BY DEF IndInv, Shape, Knows, TerminateActiveSessions, SessionsOf, Goto, tables, Inserted, MaxSeq
<1>3. \A v \in Workers \ {w} : /\ call'[v] = call[v] /\ alloc'[v] = alloc[v]
                               /\ closing'[v] = closing[v] /\ deleting'[v] = deleting[v]
  BY DEF IndInv, Shape, TerminateActiveSessions
<1>4. \A g \in deleting'[w] : grant[g] = "UNUSED" /\ session[g] = "NONE"
  BY DEF IndInv, SessionsKeepGrants, TerminateActiveSessions
<1>5. /\ pc[w] = "terminate" /\ pc' = [pc EXCEPT ![w] = "invalidate"]
      /\ UNCHANGED <<tables, daemon, maxConns>>
  BY DEF TerminateActiveSessions, Goto
<1>6. PICK step : /\ pc' = [pc EXCEPT ![w] = step] /\ step # "idle" /\ step # "notify"
                  /\ pc[w] # "idle" /\ pc[w] # "notify"
                  /\ step \in Inserted => pc[w] \in Inserted \/ (KeyFree(w) /\ alloc[w] = MaxSeq + 1)
  BY <1>5, Zenon DEF Inserted
<1>7. QED
  BY <1>1, <1>2, <1>3, <1>4, <1>5, <1>6, WithinTransaction, Zenon

\* The foreign key lets a grant go only if it has no session.
LEMMA InvalidateKeeps ==
  ASSUME IndInv, NEW w \in Workers, InvalidateGrants(w)
  PROVE  IndInv'
<1>1. CASE \E g \in GrantsOf(call[w]) : session[g] # "NONE"
  BY <1>1, FinishKeeps DEF InvalidateGrants
<1>2. CASE \A g \in GrantsOf(call[w]) : session[g] = "NONE"
  <2>1. /\ pc[w] = "invalidate"
        /\ deleting' = [deleting EXCEPT ![w] = GrantsOf(call[w])]
        /\ pc' = [pc EXCEPT ![w] = "commit"]
        /\ UNCHANGED <<seqMu, call, alloc, closing, tables, daemon, maxConns>>
    BY <1>2 DEF InvalidateGrants, Goto
  <2>2. \A g \in GrantsOf(call[w]) : g \in Grants /\ grant[g] = "UNUSED"
    BY DEF GrantsOf
  <2>3. Shape'
    BY <2>1, <2>2 DEF IndInv, Shape, tables, daemon, Inserted
  <2>4. Knows(w)'
    BY <2>1 DEF IndInv, Shape, Knows, tables, Inserted, MaxSeq
  <2>5. \A v \in Workers \ {w} : /\ call'[v] = call[v] /\ alloc'[v] = alloc[v]
                                 /\ closing'[v] = closing[v] /\ deleting'[v] = deleting[v]
    BY <2>1 DEF IndInv, Shape
  <2>6. \A g \in deleting'[w] : grant[g] = "UNUSED" /\ session[g] = "NONE"
    BY <1>2, <2>1, <2>2 DEF IndInv, Shape
  <2>7. PICK step : /\ pc' = [pc EXCEPT ![w] = step] /\ step # "idle" /\ step # "notify"
                    /\ pc[w] # "idle" /\ pc[w] # "notify"
                    /\ step \in Inserted => pc[w] \in Inserted \/ (KeyFree(w) /\ alloc[w] = MaxSeq + 1)
    BY <2>1, Zenon DEF Inserted
  <2>8. QED
    BY <2>1, <2>3, <2>4, <2>5, <2>6, <2>7, WithinTransaction, Zenon
<1>3. QED
  BY <1>1, <1>2

-------------------------------------------------------------------------------
(***************************************************************************)
(* A commit appends to the stream; it is the only call with a row in.      *)
(***************************************************************************)
LEMMA CommitAppends ==
  ASSUME IndInv, NEW w \in Workers, pc[w] \in Inserted, AddRevocation(w)
  PROVE  MaxSeq' = MaxSeq + 1 /\ MaxSeq \in Nat /\ alloc[w] = MaxSeq + 1 /\ Stream'
<1>1. MaxSeq \in Nat /\ DOMAIN revs = 1..MaxSeq /\ alloc[w] = MaxSeq + 1
  BY DEF IndInv, Stream, Knows
<1>2. DOMAIN revs' = 1..MaxSeq + 1
  BY <1>1 DEF AddRevocation
<1>3. MaxSeq' = MaxSeq + 1
  BY <1>1, <1>2, MaxOfInterval DEF MaxSeq
<1>4. call[w].kind \in Kinds
  BY DEF IndInv, Knows, Inserted, Calls
<1>5. \A s \in DOMAIN revs' : revs'[s].kind \in Kinds
  BY <1>4 DEF AddRevocation, IndInv, Stream
<1>6. QED
  BY <1>1, <1>2, <1>3, <1>5 DEF Stream

\* What a commit leaves of the other calls and of the daemon.
LEMMA CommitKeeps ==
  ASSUME IndInv, NEW w \in Workers, pc[w] \in Inserted, AddRevocation(w),
         NEW step \in {"idle", "notify"}, EndTx(w, step),
         step = "idle" => call' = [call EXCEPT ![w] = NoCall],
         step = "notify" => call' = call,
         UNCHANGED daemon, \A g \in Grants : session[g] # "NONE" => session'[g] # "NONE"
  PROVE  Stream' /\ (\A v \in Workers : Knows(v)') /\ Sole' /\ Served' /\ Budget'
<1>1. MaxSeq' = MaxSeq + 1 /\ MaxSeq \in Nat /\ Stream'
  BY CommitAppends
<1>2. /\ pc' = [pc EXCEPT ![w] = step]
      /\ call' = [call EXCEPT ![w] = NoCall] \/ call' = call
      /\ alloc' = [alloc EXCEPT ![w] = 0] /\ closing' = [closing EXCEPT ![w] = {}]
      /\ deleting' = [deleting EXCEPT ![w] = {}]
  BY DEF EndTx, Goto
<1>3. \A v \in Workers : Knows(v)'
  <2> SUFFICES ASSUME NEW v \in Workers PROVE Knows(v)'
    OBVIOUS
  <2>1. CASE v = w
    <3>1. pc'[w] = step /\ alloc'[w] = 0 /\ closing'[w] = {} /\ deleting'[w] = {}
      BY <1>2 DEF IndInv, Shape
    <3>2. step # "idle" => call'[w] \in Calls
      BY DEF IndInv, Knows, Inserted
    <3>3. QED
      BY <1>1, <2>1, <3>1, <3>2 DEF Knows, Inserted
  <2>2. CASE v # w
    <3>1. /\ pc'[v] = pc[v] /\ call'[v] = call[v] /\ alloc'[v] = alloc[v] /\ alloc[v] \in Nat
          /\ closing'[v] = closing[v] /\ deleting'[v] = deleting[v] /\ closing[v] \subseteq Grants
      BY <1>2, <2>2 DEF IndInv, Shape
    <3>2. pc[v] \notin Inserted
      BY <2>2 DEF IndInv, Sole
    <3>3. QED
      BY <1>1, <3>1, <3>2, SMTT(30) DEF IndInv, Knows
  <2>3. QED
    BY <2>1, <2>2
<1>4. Sole'
  BY <1>2 DEF IndInv, Shape, Sole, Inserted
<1>5. Served'
  BY <1>1 DEF IndInv, Served, daemon
<1>6. Budget'
  <2>1. UnderWay' = UnderWay \ {w} /\ w \in UnderWay
    BY <1>2 DEF UnderWay, IndInv, Shape, Inserted
  <2>2. Cardinality(UnderWay') = Cardinality(UnderWay) - 1 /\ Cardinality(UnderWay) \in Nat
    BY <2>1, UnderWayCount
  <2>3. QED
    BY <1>1, <2>2, RevocationAssumption DEF Budget, IndInv
<1>7. QED
  BY <1>1, <1>3, <1>4, <1>5, <1>6

\* The message of a commit goes to the end of a queue.
LEMMA AppendQueued ==
  ASSUME NEW q \in Seq(Nat), NEW n \in Nat,
         \A i \in 1..Len(q) : q[i] \in 1..n /\ (i > 1 => q[i - 1] < q[i])
  PROVE  /\ Append(q, n + 1) \in Seq(Nat)
         /\ \A i \in 1..Len(Append(q, n + 1)) :
              /\ Append(q, n + 1)[i] \in 1..n + 1
              /\ i > 1 => Append(q, n + 1)[i - 1] < Append(q, n + 1)[i]
<1>1. /\ Append(q, n + 1) \in Seq(Nat) /\ Len(Append(q, n + 1)) = Len(q) + 1 /\ Len(q) \in Nat
      /\ \A i \in 1..Len(q) : Append(q, n + 1)[i] = q[i]
      /\ Append(q, n + 1)[Len(q) + 1] = n + 1
  BY AppendProperties, LenProperties
<1> DEFINE r == Append(q, n + 1)
<1>2. ASSUME NEW i \in 1..Len(q) + 1
      PROVE  r[i] \in 1..n + 1 /\ (i > 1 => r[i - 1] < r[i])
  <2>1. CASE i \in 1..Len(q)
    <3>1. r[i] = q[i] /\ (i > 1 => i - 1 \in 1..Len(q) /\ r[i - 1] = q[i - 1])
      BY <1>1, <2>1
    <3>2. q[i] \in 1..n /\ (i > 1 => q[i - 1] < q[i])
      BY <2>1
    <3> HIDE DEF r
    <3>3. QED
      BY <3>1, <3>2
  <2>2. CASE i = Len(q) + 1
    <3>1. r[i] = n + 1 /\ (i > 1 => i - 1 \in 1..Len(q) /\ r[i - 1] = q[i - 1])
      BY <1>1, <2>2
    <3>2. i > 1 => q[i - 1] \in 1..n
      BY <3>1
    <3> HIDE DEF r
    <3>3. QED
      BY <3>1, <3>2
  <2>3. QED
    BY <1>1, <2>1, <2>2
<1>3. QED
  BY <1>1, <1>2

\* IssueRevocation commits: it closes sessions that exist, and deletes grants that
\* nothing else has touched since its DELETE.
LEMMA CommitIssueKeeps ==
  ASSUME IndInv, NEW w \in Workers, CommitIssue(w)
  PROVE  IndInv'
<1>1. /\ pc[w] \in Inserted /\ pc[w] = "commit" /\ AddRevocation(w)
      /\ session' = [g \in Grants |-> IF g \in closing[w] THEN "CLOSED" ELSE session[g]]
      /\ grant' = [g \in Grants |-> IF g \in deleting[w] THEN "DELETED" ELSE grant[g]]
      /\ outbox' = [c \in Consumers |-> IF c \in call[w].to THEN Append(outbox[c], alloc[w])
                                                             ELSE outbox[c]]
      /\ UNCHANGED <<devState, daemon, maxConns>>
  BY DEF CommitIssue, Inserted
<1>9. PICK step \in {"idle", "notify"} :
        /\ EndTx(w, step) /\ seqMu' \in {seqMu, None}
        /\ step = "idle" => call' = [call EXCEPT ![w] = NoCall]
        /\ step = "notify" => call' = call
  BY Zenon DEF CommitIssue, Finish
<1>2. MaxSeq' = MaxSeq + 1 /\ MaxSeq \in Nat /\ alloc[w] = MaxSeq + 1
  BY <1>1, CommitAppends
<1>3. Stream' /\ (\A v \in Workers : Knows(v)') /\ Sole' /\ Served' /\ Budget'
  <2>1. \A g \in Grants : session[g] # "NONE" => session'[g] # "NONE"
    BY <1>1
  <2>2. QED
    BY <1>1, <1>9, <2>1, CommitKeeps
<1>4. \A c \in Consumers :
        /\ outbox'[c] \in Seq(Nat)
        /\ \A i \in 1..Len(outbox'[c]) : /\ outbox'[c][i] \in 1..MaxSeq + 1
                                         /\ i > 1 => outbox'[c][i - 1] < outbox'[c][i]
  <2> SUFFICES ASSUME NEW c \in Consumers, NEW q, q = outbox'[c]
               PROVE  /\ q \in Seq(Nat)
                      /\ \A i \in 1..Len(q) : q[i] \in 1..MaxSeq + 1 /\ (i > 1 => q[i - 1] < q[i])
    OBVIOUS
  <2>1. /\ outbox[c] \in Seq(Nat)
        /\ \A i \in 1..Len(outbox[c]) :
             outbox[c][i] \in 1..MaxSeq /\ (i > 1 => outbox[c][i - 1] < outbox[c][i])
    BY DEF IndInv, Shape, Queued
  <2>2. CASE q = outbox[c]
    BY <1>2, <2>1, <2>2
  <2>3. CASE q = Append(outbox[c], MaxSeq + 1)
    BY <1>2, <2>1, <2>3, AppendQueued, Zenon
  <2>4. QED
    BY <1>1, <1>2, <2>2, <2>3
<1>5. Queued'
  BY <1>2, <1>4 DEF Queued
<1>6. Shape'
  <2>1. outbox' \in [Consumers -> Seq(Nat)]
    BY <1>1, <1>4, Zenon
  <2>2. /\ session' \in [Grants -> {"NONE", "OPEN", "CLOSED"}]
        /\ grant' \in [Grants -> {"UNUSED", "CONSUMED", "DELETED"}]
    BY <1>1 DEF IndInv, Shape
  <2>3. QED
    BY <1>1, <1>9, <2>1, <2>2, Zenon DEF IndInv, Shape, EndTx, Goto, daemon
<1>7. SessionsKeepGrants'
  <2>1. \A g \in Grants : session'[g] # "NONE" => session[g] # "NONE"
    BY <1>1 DEF IndInv, Knows
  <2>2. \A g \in Grants : session'[g] # "NONE" => grant'[g] # "DELETED"
    BY <1>1, <2>1 DEF IndInv, SessionsKeepGrants
  <2>3. \A v \in Workers : deleting'[v] = {}
    BY <1>1, <1>9 DEF EndTx, IndInv, Shape, Sole, Knows, Inserted
  <2>4. QED
    BY <2>2, <2>3 DEF SessionsKeepGrants
<1>8. QED
  BY <1>3, <1>5, <1>6, <1>7 DEF IndInv

\* RevokeDevice commits: the stream and the device.
LEMMA CommitRevokeKeeps ==
  ASSUME IndInv, NEW w \in Workers, CommitRevoke(w)
  PROVE  IndInv'
<1>1. /\ pc[w] \in Inserted /\ AddRevocation(w) /\ Finish(w)
      /\ devState' = [devState EXCEPT ![call[w].target] = "REVOKED"]
      /\ UNCHANGED <<grant, session, outbox, daemon, maxConns>>
  BY DEF CommitRevoke, Inserted
<1>2. MaxSeq' = MaxSeq + 1 /\ MaxSeq \in Nat
  BY <1>1, CommitAppends
<1>3. Stream' /\ (\A v \in Workers : Knows(v)') /\ Sole' /\ Served' /\ Budget'
  BY <1>1, CommitKeeps, Zenon DEF Finish
<1>4. Queued'
  BY <1>1, <1>2 DEF IndInv, Queued
<1>5. Shape'
  BY <1>1, Zenon DEF IndInv, Shape, Finish, EndTx, Goto, daemon
<1>6. SessionsKeepGrants'
  BY <1>1 DEF IndInv, Shape, SessionsKeepGrants, Finish, EndTx
<1>7. QED
  BY <1>3, <1>4, <1>5, <1>6 DEF IndInv

\* consume_grant and the daemon's sessions keep away from rows being deleted.
LEMMA GrantRowsKeep ==
  ASSUME IndInv, NEW g \in Grants, ConsumeGrant(g) \/ OpenSession(g)
  PROVE  IndInv'
<1>1. /\ UNCHANGED <<seqMu, revs, devState, outbox, local, daemon, maxConns>> /\ RowFree(g)
      /\ \/ UNCHANGED session /\ grant' = [grant EXCEPT ![g] = "CONSUMED"]
         \/ UNCHANGED grant /\ session' = [session EXCEPT ![g] = "OPEN"] /\ grant[g] # "DELETED"
  BY DEF ConsumeGrant, OpenSession
<1>2. MaxSeq' = MaxSeq /\ UnderWay' = UnderWay
  BY <1>1 DEF MaxSeq, UnderWay, local
<1>3. Shape'
  BY <1>1, Zenon DEF IndInv, Shape, local, daemon
<1>4. Stream' /\ Sole' /\ Served' /\ Queued' /\ Budget'
  BY <1>1, <1>2 DEF IndInv, Stream, Sole, Served, Queued, Budget, local, daemon
<1>5. \A w \in Workers : Knows(w)'
  BY <1>1, <1>2 DEF IndInv, Shape, Knows, local
<1>6. SessionsKeepGrants'
  BY <1>1 DEF IndInv, Shape, SessionsKeepGrants, RowFree, local
<1>7. QED
  BY <1>3, <1>4, <1>5, <1>6 DEF IndInv

\* The daemon reads the stream from its cursor to the end.
LEMMA DaemonKeeps ==
  ASSUME IndInv, GetRevocationsSince \/ CheckFreshness \/ TimePasses
  PROVE  IndInv'
<1>1. UNCHANGED <<seqMu, tables, local, maxConns>>
  BY DEF GetRevocationsSince, CheckFreshness, TimePasses
<1>2. MaxSeq' = MaxSeq /\ UnderWay' = UnderWay /\ MaxSeq \in Nat /\ DOMAIN revs = 1..MaxSeq
  BY <1>1 DEF MaxSeq, UnderWay, local, tables, IndInv, Stream
<1>3. Shape'
  BY <1>1, Zenon DEF IndInv, Shape, local, tables, GetRevocationsSince, CheckFreshness, TimePasses
<1>4. Stream' /\ Sole' /\ Queued' /\ Budget' /\ SessionsKeepGrants'
  BY <1>1, <1>2 DEF IndInv, Stream, Sole, Queued, Budget, SessionsKeepGrants, local, tables
<1>5. \A w \in Workers : Knows(w)'
  BY <1>1, <1>2 DEF IndInv, Knows, local, tables
<1>6. Served'
  <2>1. CASE GetRevocationsSince
    <3>1. /\ received' = received \cup {s \in 1..MaxSeq : s > cursor}
          /\ cursor' = IF MaxSeq > cursor THEN MaxSeq ELSE cursor
          /\ latest' = latest
      BY <1>2, <2>1 DEF GetRevocationsSince
    <3>2. /\ cursor \in 0..MaxSeq /\ latest \in 0..MaxSeq
          /\ received \subseteq 1..MaxSeq /\ 1..cursor \subseteq received
      BY DEF IndInv, Served
    <3>3. cursor' = MaxSeq
      BY <1>2, <3>1, <3>2
    <3>4. received' \subseteq 1..MaxSeq /\ 1..MaxSeq \subseteq received'
      <4>1. ASSUME NEW s \in 1..MaxSeq PROVE s \in received'
        <5>1. s \in 1..cursor \/ s > cursor
          BY <3>2
        <5>2. QED
          BY <3>1, <3>2, <5>1
      <4>2. QED
        BY <3>1, <3>2, <4>1, Zenon
    <3>5. MaxSeq \in 0..MaxSeq
      BY <1>2
    <3>6. QED
      BY <1>2, <3>1, <3>2, <3>3, <3>4, <3>5 DEF Served
  <2>2. CASE CheckFreshness \/ TimePasses
    <3>1. MaxSeq \in 0..MaxSeq
      BY <1>2
    <3>2. /\ cursor' = cursor /\ received' = received
          /\ latest' = latest \/ latest' = MaxSeq
      BY <2>2 DEF CheckFreshness, TimePasses
    <3>3. QED
      BY <1>2, <3>1, <3>2 DEF IndInv, Served
  <2>3. QED
    BY <2>1, <2>2
<1>7. QED
  BY <1>3, <1>4, <1>5, <1>6 DEF IndInv

-------------------------------------------------------------------------------
\* The invariant holds over every interleaving of IssueRevocation, RevokeDevice,
\* rollbacks, consumptions, sessions and the daemon (manager.go).
THEOREM Invariance == Spec => []IndInv
<1>1. ASSUME IndInv, [Next]_vars
      PROVE  IndInv'
  <2>1. CASE UNCHANGED vars
    <3>1. UNCHANGED <<seqMu, tables, local, daemon, maxConns>>
      BY <2>1 DEF vars
    <3>2. MaxSeq' = MaxSeq /\ UnderWay' = UnderWay
      BY <3>1 DEF MaxSeq, UnderWay, local, tables
    <3>3. QED
      BY <1>1, <3>1, <3>2 DEF tables, local, daemon, IndInv, Shape, Stream, Knows, Sole,
         SessionsKeepGrants, Served, Queued, Budget
  <2>2. ASSUME NEW w \in Workers, NEW o \in Orders, NEW C \in Audiences, BeginIssue(w, o, C)
        PROVE  IndInv'
    <3>1. [kind |-> o.kind, target |-> o.target, to |-> C] \in Calls
      BY RevocationAssumption DEF Calls
    <3>2. QED
      BY <1>1, <2>2, <3>1, BeginKeeps DEF BeginIssue
  <2>3. ASSUME NEW w \in Workers, NEW d \in Devices, BeginRevokeDevice(w, d)
        PROVE  IndInv'
    <3>1. [kind |-> "device", target |-> d, to |-> {}] \in Calls
      BY DEF Calls, Kinds
    <3>2. QED
      BY <1>1, <2>3, <3>1, BeginKeeps DEF BeginRevokeDevice
  <2>9. ASSUME NEW w \in Workers, IssueBegin(w) \/ RevokeBegin(w) PROVE IndInv'
    BY <1>1, <2>9, BeginTxKeeps DEF IssueBegin, RevokeBegin
  <2>4. ASSUME NEW w \in Workers, IssueLock(w) \/ IssueSeq(w) \/ RevokeLock(w) \/ RevokeSeq(w)
        PROVE  IndInv'
    BY <1>1, <2>4, LockKeeps, AllocateSeqKeeps DEF IssueLock, IssueSeq, RevokeLock, RevokeSeq
  <2>5. ASSUME NEW w \in Workers, IssueInsert(w) \/ RevokeInsert(w)
        PROVE  IndInv'
    BY <1>1, <2>5, InsertKeeps DEF IssueInsert, RevokeInsert
  <2>6. ASSUME NEW w \in Workers, IssueRevocation(w) \/ RevokeDevice(w)
        PROVE  IndInv'
    BY <1>1, <2>9, <2>4, <2>5, <2>6, NotifyKeeps, TerminateKeeps, InvalidateKeeps, CommitIssueKeeps,
       RevokeUpdateKeeps, CommitRevokeKeeps DEF IssueRevocation, RevokeDevice
  <2>7. ASSUME NEW w \in Workers, Rollback(w)
        PROVE  IndInv'
    BY <1>1, <2>7, FinishKeeps DEF Rollback
  <2>8. QED
    BY <1>1, <2>1, <2>2, <2>3, <2>6, <2>7, GrantRowsKeep, DaemonKeeps, Zenon DEF Next
<1>2. QED
  BY <1>1, InitInv, PTL DEF Spec

\* Type correctness; no number goes beyond the bound that Room leaves.
THEOREM TypeCorrect == Spec => []TypeOK
<1>1. ASSUME IndInv PROVE TypeOK
  <2>1. /\ MaxSeq \in Nat /\ Cardinality(UnderWay) \in Nat
        /\ MaxSeq + Cardinality(UnderWay) <= MaxRevocations
    BY <1>1, UnderWayCount DEF IndInv, Stream, Budget
  <2>2. 1..MaxSeq \subseteq 1..MaxRevocations /\ 0..MaxSeq \subseteq 0..MaxRevocations
    BY <2>1, RevocationAssumption
  <2>3. ASSUME NEW w \in Workers PROVE alloc[w] \in 0..MaxRevocations
    <3>1. CASE pc[w] \in {"idle", "notify"}
      BY <1>1, <3>1, RevocationAssumption DEF IndInv, Knows
    <3>2. CASE pc[w] \notin {"idle", "notify"}
      <4>1. Cardinality(UnderWay) >= 1
        BY <3>2, UnderWayCount, Zenon DEF UnderWay
      <4>2. alloc[w] \in Nat /\ alloc[w] <= MaxSeq + 1
        BY <1>1 DEF IndInv, Shape, Knows
      <4>3. QED
        BY <2>1, <4>1, <4>2, RevocationAssumption
    <3>3. QED
      BY <3>1, <3>2
  <2>4. alloc \in [Workers -> 0..MaxRevocations]
    BY <1>1, <2>3 DEF IndInv, Shape
  <2>5. ASSUME NEW c \in Consumers PROVE outbox[c] \in Seq(1..MaxRevocations)
    <3>1. PICK q \in Seq(Nat) : q = outbox[c]
      BY <1>1 DEF IndInv, Shape
    <3>2. \A i \in 1..Len(q) : q[i] \in 1..MaxSeq
      BY <1>1, <3>1, Zenon DEF IndInv, Queued
    <3>3. \A i \in 1..Len(q) : q[i] \in 1..MaxRevocations
      BY <2>2, <3>2
    <3>4. q \in Seq(1..MaxRevocations)
      BY <3>3, RetypeSeq, Zenon
    <3>5. QED
      BY <3>1, <3>4, Zenon
  <2>6. outbox \in [Consumers -> Seq(1..MaxRevocations)]
    BY <1>1, <2>5 DEF IndInv, Shape
  <2>7. /\ \A s \in DOMAIN revs : s \in 1..MaxRevocations /\ revs[s].kind \in Kinds
        /\ cursor \in 0..MaxRevocations /\ latest \in 0..MaxRevocations
        /\ received \subseteq 1..MaxRevocations
    <3>1. DOMAIN revs = 1..MaxSeq /\ \A s \in DOMAIN revs : revs[s].kind \in Kinds
      BY <1>1 DEF IndInv, Stream
    <3>2. cursor \in 0..MaxSeq /\ latest \in 0..MaxSeq /\ received \subseteq 1..MaxSeq
      BY <1>1 DEF IndInv, Served
    <3>3. QED
      BY <2>2, <3>1, <3>2, Zenon
  <2>8. QED
    BY <1>1, <2>4, <2>6, <2>7 DEF IndInv, Shape, TypeOK
<1>2. QED
  BY <1>1, Invariance, PTL

\* No revocation commits at or below a daemon's cursor after the daemon has passed it,
\* and the messages of the outbox are committed revocations in stream order, though
\* RevokeDevice gives seqMu back before it commits (manager.go:330-336, 341-342).
THEOREM StreamSafety == Spec => []NothingMissed
<1>1. ASSUME IndInv PROVE NothingMissed
  <2>1. \A s \in DOMAIN revs : s <= cursor => s \in received
    BY <1>1 DEF IndInv, Stream, Served
  <2>2. \A c \in Consumers : \A i \in 1..Len(outbox[c]) :
          outbox[c][i] \in DOMAIN revs /\ (i > 1 => outbox[c][i - 1] < outbox[c][i])
    BY <1>1 DEF IndInv, Stream, Queued
  <2>3. QED
    BY <2>1, <2>2 DEF NothingMissed
<1>2. QED
  BY <1>1, Invariance, PTL

\* CheckDaemonFreshness lets go on only a daemon that has all that was committed at
\* its last CheckFreshness.
THEOREM FreshnessSafety == Spec => []CurrentDaemonIsComplete
<1>1. IndInv => CurrentDaemonIsComplete
  BY DEF IndInv, Stream, Served, CurrentDaemonIsComplete, MustFailClosed
<1>2. QED
  BY <1>1, Invariance, PTL

\* invalidateGrants never takes the grant of a session, whatever it races.
THEOREM GrantSafety == Spec => []SessionsKeepGrants
<1>1. IndInv => SessionsKeepGrants
  BY DEF IndInv
<1>2. QED
  BY <1>1, Invariance, PTL

-------------------------------------------------------------------------------
\* A commit writes its row behind the stream, over none that is there.
LEMMA CommitOverwritesNothing ==
  ASSUME IndInv, NEW w \in Workers, pc[w] \in Inserted, AddRevocation(w)
  PROVE  \A s \in DOMAIN revs : s \in DOMAIN revs' /\ revs'[s] = revs[s]
<1>1. MaxSeq \in Nat /\ DOMAIN revs = 1..MaxSeq /\ alloc[w] = MaxSeq + 1
  BY CommitAppends, Zenon DEF IndInv, Stream
<1>2. alloc[w] \notin DOMAIN revs
  BY <1>1
<1>3. QED
  BY <1>2, Zenon DEF AddRevocation

\* The daemon only learns.
LEMMA DaemonLearns ==
  ASSUME IndInv, UNCHANGED daemon \/ GetRevocationsSince \/ CheckFreshness \/ TimePasses
  PROVE  cursor <= cursor' /\ received \subseteq received'
<1>1. cursor \in Nat /\ MaxSeq \in Nat
  BY DEF IndInv, Stream, Served
<1>2. CASE GetRevocationsSince
  BY <1>1, <1>2 DEF GetRevocationsSince
<1>3. CASE UNCHANGED <<cursor, received>>
  BY <1>1, <1>3
<1>4. QED
  BY <1>2, <1>3 DEF daemon, CheckFreshness, TimePasses

\* No step takes back what is committed: not a commit that read MAX(seq) before
\* another one, nor an invalidation that found its grants unused before they were
\* consumed (manager.go:69-135, 212-262, 310-345).
THEOREM Finality == Spec => RevocationIsFinal
<1>1. ASSUME IndInv, [Next]_vars PROVE CommittedStays
  <2>1. CASE UNCHANGED <<tables, daemon, maxConns>>
    <3>1. UNCHANGED <<revs, devState, grant, session>>
      BY <2>1 DEF tables
    <3>2. cursor <= cursor' /\ received \subseteq received'
      BY <1>1, <2>1, DaemonLearns
    <3>3. QED
      BY <3>1, <3>2 DEF CommittedStays
  <2>2. ASSUME NEW w \in Workers, CommitIssue(w) PROVE CommittedStays
    <3>1. /\ pc[w] \in Inserted /\ AddRevocation(w) /\ UNCHANGED devState /\ UNCHANGED daemon
          /\ session' = [g \in Grants |-> IF g \in closing[w] THEN "CLOSED" ELSE session[g]]
          /\ grant' = [g \in Grants |-> IF g \in deleting[w] THEN "DELETED" ELSE grant[g]]
      BY <2>2 DEF CommitIssue, Inserted
    <3>2. \A g \in deleting[w] : grant[g] = "UNUSED"
      BY <1>1 DEF IndInv, SessionsKeepGrants
    <3>3. \A g \in Grants : /\ grant[g] # "UNUSED" => grant'[g] = grant[g]
                            /\ session[g] = "CLOSED" => session'[g] = "CLOSED"
                            /\ session[g] # "NONE" => session'[g] # "NONE"
      BY <3>1, <3>2
    <3>4. QED
      BY <1>1, <3>1, <3>3, CommitOverwritesNothing, DaemonLearns, Zenon DEF CommittedStays
  <2>3. ASSUME NEW w \in Workers, CommitRevoke(w) PROVE CommittedStays
    <3>1. /\ pc[w] \in Inserted /\ AddRevocation(w) /\ UNCHANGED <<grant, session, daemon>>
          /\ devState' = [devState EXCEPT ![call[w].target] = "REVOKED"]
      BY <2>3 DEF CommitRevoke, Inserted
    <3>2. \A d \in Devices : devState[d] = "REVOKED" => devState'[d] = "REVOKED"
      BY <1>1, <3>1 DEF IndInv, Shape
    <3>3. QED
      BY <1>1, <3>1, <3>2, CommitOverwritesNothing, DaemonLearns, Zenon DEF CommittedStays
  <2>4. ASSUME NEW g \in Grants, ConsumeGrant(g) \/ OpenSession(g) PROVE CommittedStays
    <3>1. UNCHANGED revs /\ UNCHANGED devState /\ UNCHANGED daemon
      BY <2>4 DEF ConsumeGrant, OpenSession
    <3>2. \A x \in Grants : /\ grant[x] # "UNUSED" => grant'[x] = grant[x]
                            /\ session[x] = "CLOSED" => session'[x] = "CLOSED"
                            /\ session[x] # "NONE" => session'[x] # "NONE"
      BY <1>1, <2>4 DEF ConsumeGrant, OpenSession, IndInv, Shape
    <3>3. QED
      BY <1>1, <3>1, <3>2, DaemonLearns, Zenon DEF CommittedStays
  <2>5. CASE GetRevocationsSince \/ CheckFreshness \/ TimePasses
    <3>1. UNCHANGED <<revs, devState, grant, session>>
      BY <2>5, Zenon DEF GetRevocationsSince, CheckFreshness, TimePasses, tables
    <3>2. QED
      BY <1>1, <2>5, <3>1, DaemonLearns, Zenon DEF CommittedStays
  <2>6. CASE \E w \in Workers : IssueRevocation(w) \/ RevokeDevice(w) \/ Rollback(w)
    BY <2>1, <2>2, <2>3, <2>6, Zenon
       DEF IssueRevocation, RevokeDevice, Rollback, IssueLock, IssueSeq, IssueInsert, RevokeLock,
           RevokeSeq, RevokeInsert, RevokeUpdate, Lock, AllocateSeq, InsertRevocation,
           TerminateActiveSessions, InvalidateGrants, IssueBegin, RevokeBegin, BeginTx,
           NotifyConsumer
  <2>7. CASE \E w \in Workers : \/ \E o \in Orders, C \in Audiences : BeginIssue(w, o, C)
                                \/ \E d \in Devices : BeginRevokeDevice(w, d)
    BY <2>1, <2>7, Zenon DEF BeginIssue, BeginRevokeDevice, Begin
  <2>8. QED
    BY <1>1, <2>1, <2>4, <2>5, <2>6, <2>7, Zenon DEF Next, vars
<1>2. QED
  BY <1>1, Invariance, PTL DEF Spec, RevocationIsFinal
===============================================================================
