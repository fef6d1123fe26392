--------------------------- MODULE AuditChainProofs ---------------------------
(***************************************************************************)
(* Proofs about AuditChain, for any number of transactions, any batches    *)
(* and any length of the chain.                                            *)
(***************************************************************************)
EXTENDS AuditChain, SequenceTheorems, FiniteSetTheorems, TLAPS

\* Rows hold hashes of any depth, so their sequences have no set of their own.
IsSeq(s) == s \in Seq({s[i] : i \in 1..Len(s)})

\* The first h.seq rows of s are events, linked one to the next, and h is the
\* head insert_audit_event computed from the last of them.
Linked(s, h) ==
  /\ \A n \in 1..h.seq :
       /\ s[n].type # "AUDIT_CHECKPOINT"
       /\ s[n].hash = ComputeRowHash(n, s[n].type, "compact")
       /\ s[n].prev = IF n = 1 THEN Zero ELSE SqlHash(s[n - 1].prev, n - 1, s[n - 1].type)
  /\ h.hash = IF h.seq = 0 THEN Zero ELSE SqlHash(s[h.seq].prev, h.seq, s[h.seq].type)

\* The transaction holds the advisory lock.
Locked(w) == pc[w] \in {"insert", "commit"}

Shape ==
  /\ IsSeq(events)
  /\ pc \in [Writers -> {"idle", "lock", "insert", "commit"}]
  /\ todo \in [Writers -> Seq(STRING \ {"AUDIT_CHECKPOINT"})]
  /\ rows = [w \in Writers |-> rows[w]] /\ \A w \in Writers : IsSeq(rows[w])
  /\ at = [w \in Writers |-> at[w]]

\* The head stands at the last event; behind it there are only checkpoints.
Committed ==
  /\ head.seq \in 0..Len(events)
  /\ Linked(events, head)
  /\ \A n \in head.seq + 1..Len(events) : events[n].type = "AUDIT_CHECKPOINT"

\* What the transaction sees is the committed head, until its first row blocks
\* the checkpoint loop: from then on its rows continue the committed chain.
InFlight(w) ==
  /\ pc[w] \in {"lock", "insert"} => todo[w] # <<>>
  /\ pc[w] = "commit" => rows[w] # <<>>
  /\ ~ Locked(w) => rows[w] = <<>>
  /\ Locked(w) /\ rows[w] = <<>> => at[w] = head
  /\ rows[w] # <<>> =>
       /\ head.seq = Len(events)
       /\ at[w].seq = Len(events) + Len(rows[w])
       /\ Linked(events \o rows[w], at[w])

IndInv ==
  /\ Shape
  /\ Committed
  /\ \A w \in Writers : InFlight(w)
  /\ \A v, w \in Writers : Locked(v) /\ Locked(w) => v = w

-------------------------------------------------------------------------------
\* A sequence over some set is a sequence over its own elements.
LEMMA SeqIsSeq ==
  ASSUME NEW S, NEW s \in Seq(S)
  PROVE  IsSeq(s) /\ Len(s) \in Nat
  BY SeqOfRange, RangeEquality, LenProperties DEF IsSeq

\* A row added to a sequence of rows is its last, and the others stay.
LEMMA AppendRow ==
  ASSUME NEW s, NEW r, IsSeq(s)
  PROVE  /\ IsSeq(Append(s, r)) /\ Len(s) \in Nat /\ Len(Append(s, r)) = Len(s) + 1
         /\ Append(s, r) # <<>>
         /\ \A n \in 1..Len(s) : Append(s, r)[n] = s[n]
         /\ Append(s, r)[Len(s) + 1] = r
<1> DEFINE S == {s[i] : i \in 1..Len(s)} \cup {r}
<1>1. s \in Seq(S)
  BY SeqMonotonic DEF IsSeq
<1> HIDE DEF S
<1>2. r \in S
  BY DEF S
<1>3. Append(s, r) \in Seq(S) /\ Len(s) \in Nat
  BY <1>1, <1>2, AppendProperties, LenProperties
<1>4. IsSeq(Append(s, r))
  BY <1>3, SeqIsSeq, Zenon
<1>5. QED
  BY <1>1, <1>2, <1>3, <1>4, AppendProperties

\* The rows of a transaction behind the committed ones.
LEMMA ConcatRows ==
  ASSUME NEW s, NEW t, IsSeq(s), IsSeq(t)
  PROVE  /\ IsSeq(s \o t) /\ Len(s) \in Nat /\ Len(t) \in Nat
         /\ Len(s \o t) = Len(s) + Len(t)
         /\ \A n \in 1..Len(s) : (s \o t)[n] = s[n]
         /\ \A n \in 1..Len(t) : (s \o t)[Len(s) + n] = t[n]
         /\ \A r : s \o Append(t, r) = Append(s \o t, r)
<1>1. SUFFICES ASSUME NEW r
               PROVE  /\ IsSeq(s \o t) /\ Len(s) \in Nat /\ Len(t) \in Nat
                      /\ Len(s \o t) = Len(s) + Len(t)
                      /\ \A n \in 1..Len(s) : (s \o t)[n] = s[n]
                      /\ \A n \in 1..Len(t) : (s \o t)[Len(s) + n] = t[n]
                      /\ s \o Append(t, r) = Append(s \o t, r)
  OBVIOUS
<1> DEFINE S == {s[i] : i \in 1..Len(s)} \cup {t[i] : i \in 1..Len(t)} \cup {r}
<1>2. s \in Seq(S) /\ t \in Seq(S) /\ r \in S
  BY SeqMonotonic DEF IsSeq
<1> HIDE DEF S
<1>3. /\ s \o t \in Seq(S) /\ Len(s) \in Nat /\ Len(t) \in Nat
      /\ Len(s \o t) = Len(s) + Len(t)
      /\ \A n \in 1..Len(s) : (s \o t)[n] = s[n]
      /\ \A n \in 1..Len(t) : (s \o t)[Len(s) + n] = t[n]
  <2>1. /\ s \o t \in Seq(S) /\ Len(s) \in Nat /\ Len(t) \in Nat
        /\ Len(s \o t) = Len(s) + Len(t)
        /\ \A n \in 1..Len(s) + Len(t) : (s \o t)[n] = IF n <= Len(s) THEN s[n] ELSE t[n - Len(s)]
    BY <1>2, ConcatProperties, LenProperties
  <2>2. ASSUME NEW n \in 1..Len(t) PROVE (s \o t)[Len(s) + n] = t[n]
    <3>1. /\ Len(s) + n \in 1..Len(s) + Len(t) /\ ~ Len(s) + n <= Len(s)
          /\ (Len(s) + n) - Len(s) = n
      BY <2>1
    <3>2. QED
      BY <2>1, <3>1, Zenon
  <2>3. \A n \in 1..Len(s) : n \in 1..Len(s) + Len(t) /\ n <= Len(s)
    BY <2>1
  <2>4. QED
    BY <2>1, <2>2, <2>3, Zenon
<1>4. s \o Append(t, r) = Append(s \o t, r)
  <2>1. <<r>> \in Seq(S)
    BY <1>2
  <2>2. Append(t, r) = t \o <<r>> /\ Append(s \o t, r) = (s \o t) \o <<r>>
    BY <1>2, <1>3, AppendIsConcat
  <2>3. QED
    BY <1>2, <2>1, <2>2, ConcatAssociative
<1>5. QED
  BY <1>3, <1>4, SeqIsSeq, Zenon

\* Links only look at the rows up to the head.
LEMMA LinkedPrefix ==
  ASSUME NEW s, NEW t, NEW h, h.seq \in Nat, Linked(s, h), \A n \in 1..h.seq : t[n] = s[n]
  PROVE  Linked(t, h)
  BY DEF Linked

\* insert_audit_event and the UPDATE behind it add a row that is linked.
LEMMA LinkedAppend ==
  ASSUME NEW s, NEW h, IsSeq(s), h.seq = Len(s), Linked(s, h),
         NEW type \in STRING \ {"AUDIT_CHECKPOINT"}, NEW payload
  PROVE  Linked(Append(s, [type |-> type, payload |-> payload, prev |-> h.hash,
                           hash |-> ComputeRowHash(h.seq + 1, type, "compact")]),
                NextHead(h, type))
<1> DEFINE r == [type |-> type, payload |-> payload, prev |-> h.hash,
                 hash |-> ComputeRowHash(h.seq + 1, type, "compact")]
           t == Append(s, r)
<1>1. /\ Len(s) \in Nat /\ \A n \in 1..Len(s) : t[n] = s[n]
      /\ t[Len(s) + 1] = r
  BY AppendRow
<1>2. /\ NextHead(h, type).seq = Len(s) + 1
      /\ NextHead(h, type).hash = SqlHash(h.hash, Len(s) + 1, type)
  BY DEF NextHead
<1>3. r.type = type /\ r.prev = h.hash /\ r.hash = ComputeRowHash(Len(s) + 1, type, "compact")
  OBVIOUS
<1> HIDE DEF r, t
<1>4. ASSUME NEW n \in 1..Len(s) + 1
      PROVE  /\ t[n].type # "AUDIT_CHECKPOINT"
             /\ t[n].hash = ComputeRowHash(n, t[n].type, "compact")
             /\ t[n].prev = IF n = 1 THEN Zero ELSE SqlHash(t[n - 1].prev, n - 1, t[n - 1].type)
  <2>1. CASE n \in 1..Len(s)
    <3>1. t[n] = s[n] /\ (n # 1 => t[n - 1] = s[n - 1])
      BY <1>1, <2>1
    <3>2. QED
      BY <2>1, <3>1 DEF Linked
  <2>2. CASE n = Len(s) + 1
    <3>1. h.hash = IF Len(s) = 0 THEN Zero ELSE SqlHash(s[Len(s)].prev, Len(s), s[Len(s)].type)
      BY DEF Linked
    <3>2. n - 1 = Len(s) /\ (n # 1 => t[n - 1] = s[Len(s)]) /\ (n = 1 <=> Len(s) = 0)
      BY <1>1, <2>2
    <3>3. QED
      BY <1>1, <1>3, <2>2, <3>1, <3>2
  <2>3. QED
    BY <1>1, <2>1, <2>2
<1>5. QED
  BY <1>1, <1>2, <1>3, <1>4 DEF Linked, r, t

-------------------------------------------------------------------------------
\* The empty chain.
LEMMA InitInv == Init => IndInv
<1> SUFFICES ASSUME Init PROVE IndInv
  OBVIOUS
<1>1. IsSeq(<<>>) /\ Len(<<>>) = 0
  BY EmptySeq, SeqIsSeq, Zenon
<1>2. Shape
  BY <1>1 DEF Init, Shape
<1>3. head.seq = 0 /\ head.hash = Zero
  BY DEF Init, NoHead
<1>4. Committed
  BY <1>1, <1>3 DEF Init, Committed, Linked
<1>5. QED
  BY <1>2, <1>4 DEF Init, IndInv, InFlight, Locked

\* A transaction whose own state and the committed chain do not change.
LEMMA OthersKeep ==
  ASSUME NEW v \in Writers, InFlight(v), UNCHANGED <<events, head>>,
         pc'[v] = pc[v], todo'[v] = todo[v], rows'[v] = rows[v], at'[v] = at[v]
  PROVE  InFlight(v)'
  BY DEF InFlight, Locked

\* The committed chain does not change.
LEMMA CommittedKeeps ==
  ASSUME Committed, UNCHANGED <<events, head>>
  PROVE  Committed'
  BY DEF Committed

\* A transaction that begins waits for the lock and sees nothing yet.
LEMMA BeginKeeps ==
  ASSUME IndInv, NEW w \in Writers, NEW b \in Batches, Begin(w, b)
  PROVE  IndInv'
<1>1. b \in Seq(STRING \ {"AUDIT_CHECKPOINT"}) /\ b # <<>>
  BY AuditAssumption
<1>2. Shape'
  BY <1>1 DEF IndInv, Shape, Begin
<1>3. ASSUME NEW v \in Writers PROVE InFlight(v)'
  <2>1. CASE v = w
    BY <1>1, <2>1 DEF IndInv, Shape, InFlight, Locked, Begin
  <2>2. CASE v # w
    BY <2>2, OthersKeep DEF IndInv, Shape, Begin
  <2>3. QED
    BY <2>1, <2>2
<1>4. QED
  BY <1>2, <1>3, CommittedKeeps DEF IndInv, Shape, Locked, Begin

\* The advisory lock is free when it is taken, and the head read under it is the
\* committed one.
LEMMA TakeLockKeeps ==
  ASSUME IndInv, NEW w \in Writers, TakeLock(w)
  PROVE  IndInv'
<1>1. Shape'
  BY Zenon DEF IndInv, Shape, TakeLock
<1>2. ASSUME NEW v \in Writers PROVE InFlight(v)'
  <2>1. CASE v = w
    BY <2>1 DEF IndInv, Shape, InFlight, Locked, TakeLock
  <2>2. CASE v # w
    BY <2>2, OthersKeep, SMTT(30) DEF IndInv, Shape, TakeLock
  <2>3. QED
    BY <2>1, <2>2
<1>3. \A u, v \in Writers : Locked(u)' /\ Locked(v)' => u = v
  BY DEF IndInv, Shape, Locked, TakeLock, LockFree
<1>4. QED
  BY <1>1, <1>2, <1>3, CommittedKeeps DEF IndInv, TakeLock

\* A transaction that fails or rolls back leaves no row and frees the lock.
LEMMA FinishKeeps ==
  ASSUME IndInv, NEW w \in Writers, Finish(w), UNCHANGED <<events, head>>
  PROVE  IndInv'
<1>1. <<>> \in Seq(STRING \ {"AUDIT_CHECKPOINT"}) /\ IsSeq(<<>>)
  BY EmptySeq, SeqIsSeq, Zenon
<1>2. Shape'
  BY <1>1, Zenon DEF IndInv, Shape, Finish
<1>3. ASSUME NEW v \in Writers PROVE InFlight(v)'
  <2>1. CASE v = w
    BY <2>1 DEF IndInv, Shape, InFlight, Locked, Finish
  <2>2. CASE v # w
    BY <2>2, OthersKeep DEF IndInv, Shape, Finish
  <2>3. QED
    BY <2>1, <2>2
<1>4. QED
  BY <1>2, <1>3, CommittedKeeps DEF IndInv, Shape, Locked, Finish

\* What a transaction inserts continues the committed chain: the seq it took from
\* the head is the next one, or the insert fails.
LEMMA InsertTxKeeps ==
  ASSUME IndInv, NEW w \in Writers, InsertTx(w)
  PROVE  IndInv'
<1> DEFINE type == Head(todo[w])
           seq  == at[w].seq + 1
           row  == [type |-> type, payload |-> Stored("compact"), prev |-> at[w].hash,
                    hash |-> ComputeRowHash(seq, type, "compact")]
<1>1. CASE seq <= Len(events)
  BY <1>1, FinishKeeps DEF InsertTx
<1>2. CASE ~ seq <= Len(events)
  <2>1. /\ pc[w] = "insert"
        /\ rows' = [rows EXCEPT ![w] = Append(rows[w], row)]
        /\ at' = [at EXCEPT ![w] = NextHead(at[w], type)]
        /\ todo' = [todo EXCEPT ![w] = Tail(todo[w])]
        /\ pc' = [pc EXCEPT ![w] = IF Len(todo[w]) = 1 THEN "commit" ELSE "insert"]
        /\ UNCHANGED <<events, head>>
    BY <1>2 DEF InsertTx
  <2>2. /\ IsSeq(events) /\ Len(events) \in Nat
        /\ IsSeq(rows[w]) /\ Len(rows[w]) \in Nat
        /\ IsSeq(events \o rows[w])
        /\ Len(events \o rows[w]) = Len(events) + Len(rows[w])
        /\ events \o Append(rows[w], row) = Append(events \o rows[w], row)
    BY ConcatRows DEF IndInv, Shape
  <2>3. /\ todo[w] \in Seq(STRING \ {"AUDIT_CHECKPOINT"}) /\ todo[w] # <<>>
        /\ type \in STRING \ {"AUDIT_CHECKPOINT"}
        /\ Tail(todo[w]) \in Seq(STRING \ {"AUDIT_CHECKPOINT"})
        /\ Len(todo[w]) # 1 => Tail(todo[w]) # <<>>
    <3>1. todo[w] \in Seq(STRING \ {"AUDIT_CHECKPOINT"}) /\ todo[w] # <<>>
      BY <2>1 DEF IndInv, Shape, InFlight
    <3>2. /\ type \in STRING \ {"AUDIT_CHECKPOINT"}
          /\ Tail(todo[w]) \in Seq(STRING \ {"AUDIT_CHECKPOINT"})
          /\ Len(Tail(todo[w])) = Len(todo[w]) - 1
      BY <3>1, HeadTailProperties
    <3>3. Len(todo[w]) \in Nat
      BY <3>1, LenProperties
    <3>4. \A t : t = <<>> => Len(t) = 0
      OBVIOUS
    <3>5. Tail(todo[w]) = <<>> => Len(Tail(todo[w])) = 0
      BY <3>4, Zenon
    <3>6. QED
      BY <3>1, <3>2, <3>3, <3>5
  <2>4. /\ head.seq = Len(events)
        /\ at[w].seq = Len(events) + Len(rows[w])
        /\ Linked(events \o rows[w], at[w])
    <3>1. CASE rows[w] = <<>>
      <4>1. at[w] = head /\ head.seq \in 0..Len(events) /\ Linked(events, head)
        BY <2>1, <3>1 DEF IndInv, Committed, InFlight, Locked
      <4>2. events \o <<>> = events /\ Len(<<>>) = 0
        BY <2>2, ConcatEmptySeq, EmptySeq DEF IsSeq
      <4>3. QED
        BY <1>2, <2>2, <3>1, <4>1, <4>2
    <3>2. CASE rows[w] # <<>>
      BY <3>2 DEF IndInv, InFlight
    <3>3. QED
      BY <3>1, <3>2
  <2>5. Linked(events \o Append(rows[w], row), NextHead(at[w], type))
    BY <2>2, <2>3, <2>4, LinkedAppend, Zenon
  <2>6. /\ IsSeq(Append(rows[w], row)) /\ Append(rows[w], row) # <<>>
        /\ Len(Append(rows[w], row)) = Len(rows[w]) + 1
    BY <2>2, AppendRow
  <2>7. NextHead(at[w], type).seq = Len(events) + Len(rows[w]) + 1
    BY <2>2, <2>4 DEF NextHead
  <2> HIDE DEF type, seq, row
  <2>8. Shape'
    BY <2>1, <2>3, <2>6, Zenon DEF IndInv, Shape
  <2>9. ASSUME NEW v \in Writers PROVE InFlight(v)'
    <3>1. CASE v = w
      <4>1. /\ rows'[w] = Append(rows[w], row) /\ at'[w] = NextHead(at[w], type)
            /\ todo'[w] = Tail(todo[w])
            /\ pc'[w] = IF Len(todo[w]) = 1 THEN "commit" ELSE "insert"
        BY <2>1 DEF IndInv, Shape
      <4>2. Linked(events' \o rows'[w], at'[w])
        BY <2>1, <2>5, <4>1
      <4>3. /\ at'[w].seq = Len(events') + Len(rows'[w]) /\ rows'[w] # <<>>
            /\ head'.seq = Len(events')
        BY <2>1, <2>2, <2>4, <2>6, <2>7, <4>1
      <4>4. QED
        BY <2>3, <3>1, <4>1, <4>2, <4>3 DEF InFlight, Locked
    <3>2. CASE v # w
      BY <2>1, <3>2, OthersKeep, Zenon DEF IndInv, Shape
    <3>3. QED
      BY <3>1, <3>2
  <2>10. \A u, v \in Writers : Locked(u)' /\ Locked(v)' => u = v
    BY <2>1 DEF IndInv, Shape, Locked
  <2>11. QED
    BY <2>1, <2>8, <2>9, <2>10, CommittedKeeps DEF IndInv
<1>3. QED
  BY <1>1, <1>2

\* A commit moves chain and head together; nobody else holds the lock.
LEMMA CommitTxKeeps ==
  ASSUME IndInv, NEW w \in Writers, CommitTx(w)
  PROVE  IndInv'
<1>1. /\ rows[w] # <<>> /\ Locked(w)
      /\ head'.seq = Len(events) + Len(rows[w])
      /\ Linked(events \o rows[w], at[w])
  BY DEF IndInv, InFlight, CommitTx, Locked
<1>2. IsSeq(events') /\ Len(events') = head'.seq /\ head'.seq \in Nat
  BY <1>1, ConcatRows DEF IndInv, Shape, CommitTx
<1>3. <<>> \in Seq(STRING \ {"AUDIT_CHECKPOINT"}) /\ IsSeq(<<>>)
  BY EmptySeq, SeqIsSeq, Zenon
<1>4. Shape'
  BY <1>2, <1>3, Zenon DEF IndInv, Shape, CommitTx, Finish
<1>5. Committed'
  BY <1>1, <1>2 DEF Committed, CommitTx
<1>6. ASSUME NEW v \in Writers
      PROVE  InFlight(v)' /\ ~ Locked(v)'
  <2>1. pc' = [pc EXCEPT ![w] = "idle"] /\ rows' = [rows EXCEPT ![w] = <<>>]
        /\ todo' = [todo EXCEPT ![w] = <<>>]
    BY DEF CommitTx, Finish
  <2>2. v = w \/ ~ Locked(v)
    BY <1>1 DEF IndInv
  <2>3. QED
    BY <2>1, <2>2 DEF IndInv, Shape, InFlight, Locked
<1>7. QED
  BY <1>4, <1>5, <1>6 DEF IndInv

\* A checkpoint goes behind the events; no transaction has rows it could displace.
LEMMA ExportCheckpointKeeps ==
  ASSUME IndInv, ExportCheckpoint
  PROVE  IndInv'
<1>1. UNCHANGED <<head, pc, todo, rows, at>>
  BY DEF ExportCheckpoint
<1>2. CASE UNCHANGED events
  <2>1. Shape'
    BY <1>1, <1>2 DEF IndInv, Shape
  <2>2. QED
    BY <1>1, <1>2, <2>1, OthersKeep, CommittedKeeps DEF IndInv, Locked
<1>3. CASE (\A w \in Writers : rows[w] = <<>>) /\ events' = Append(events, CheckpointRow)
  <2>1. /\ IsSeq(events') /\ Len(events) \in Nat /\ Len(events') = Len(events) + 1
        /\ \A n \in 1..Len(events) : events'[n] = events[n]
        /\ events'[Len(events) + 1] = CheckpointRow
    BY <1>3, AppendRow DEF IndInv, Shape
  <2>2. CheckpointRow.type = "AUDIT_CHECKPOINT"
    BY DEF CheckpointRow
  <2>3. Linked(events', head)
    BY <2>1, LinkedPrefix DEF IndInv, Committed
  <2>4. Committed'
    <3>1. head.seq \in 0..Len(events')
      BY <2>1 DEF IndInv, Committed
    <3>2. \A n \in head.seq + 1..Len(events') : events'[n].type = "AUDIT_CHECKPOINT"
      BY <2>1, <2>2 DEF IndInv, Committed
    <3>3. QED
      BY <1>1, <2>3, <3>1, <3>2 DEF Committed
  <2>5. \A v \in Writers : InFlight(v)'
    BY <1>1, <1>3, Zenon DEF IndInv, InFlight, Locked
  <2>6. QED
    BY <1>1, <2>1, <2>4, <2>5 DEF IndInv, Shape, Locked
<1>4. QED
  BY <1>2, <1>3 DEF ExportCheckpoint

-------------------------------------------------------------------------------
\* The invariant holds over every interleaving of transactions, rollbacks and the
\* checkpoint loop around the advisory lock (chain.go, insert_audit_event).
THEOREM Invariance == Spec => []IndInv
<1>1. ASSUME IndInv, [Next]_vars
      PROVE  IndInv'
  <2>1. CASE UNCHANGED <<events, head, pc, todo, rows, at>>
    <3>1. Shape'
      BY <1>1, <2>1 DEF IndInv, Shape
    <3>2. QED
      BY <1>1, <2>1, <3>1, OthersKeep, CommittedKeeps DEF IndInv, Locked
  <2>2. CASE \E w \in Writers : \/ \E b \in Batches : Begin(w, b)
                                \/ TakeLock(w) \/ InsertTx(w) \/ CommitTx(w)
    BY <1>1, <2>2, BeginKeeps, TakeLockKeeps, InsertTxKeeps, CommitTxKeeps
  <2>3. CASE \E w \in Writers : Rollback(w)
    BY <1>1, <2>3, FinishKeeps DEF Rollback
  <2>4. CASE ExportCheckpoint
    BY <1>1, <2>4, ExportCheckpointKeeps
  <2>5. QED
    BY <1>1, <2>1, <2>2, <2>3, <2>4 DEF Next, vars, CreateCheckpoints
<1>2. QED
  BY <1>1, InitInv, PTL DEF Spec

\* The hash of insert_audit_event depends on the seq and is never the zero hash.
LEMMA HashesDiffer ==
  ASSUME NEW p, NEW s, NEW t
  PROVE  /\ SqlHash(p, s, t) # Zero
         /\ \A q, r, u : s # r => SqlHash(p, s, t) # SqlHash(q, r, u)
<1>1. SqlHash(p, s, t)[1] = "sql" /\ Zero[1] = "zero"
  BY DEF SqlHash, Zero
<1>2. \A q, r, u : SqlHash(q, r, u)[3] = r
  BY DEF SqlHash
<1>3. QED
  BY <1>1, <1>2

\* The chain never forks: events carry prev_hashes of their own and each is hashed
\* under its seq (InsertTx and insert_audit_event), for any number of transactions.
THEOREM ForkSafety == Spec => []ChainUnforked
<1>1. ASSUME IndInv PROVE ChainUnforked
  <2>1. Len(events) \in Nat /\ head.seq \in 0..Len(events)
    BY <1>1, SeqIsSeq DEF IndInv, Shape, IsSeq, Committed
  <2>2. ASSUME NEW n \in 1..Len(events), events[n].type # "AUDIT_CHECKPOINT"
        PROVE  n \in 1..head.seq
    BY <1>1, <2>1, <2>2 DEF IndInv, Committed
  <2>3. \A n \in 1..head.seq :
          /\ events[n].hash = ComputeRowHash(n, events[n].type, "compact")
          /\ events[n].prev = IF n = 1 THEN Zero
                              ELSE SqlHash(events[n - 1].prev, n - 1, events[n - 1].type)
    BY <1>1 DEF IndInv, Committed, Linked
  <2>4. ASSUME NEW m \in 1..head.seq, NEW n \in 1..head.seq, m < n
        PROVE  events[m].prev # events[n].prev
    <3>1. n \in Nat /\ m \in Nat /\ n # 1
      BY <2>1, <2>4
    <3>2. events[n].prev = SqlHash(events[n - 1].prev, n - 1, events[n - 1].type)
      BY <2>3, <3>1
    <3>3. CASE m = 1
      <4>1. events[m].prev = Zero
        BY <2>3, <3>3
      <4>2. QED
        BY <3>2, <4>1, HashesDiffer
    <3>4. CASE m # 1
      <4>1. events[m].prev = SqlHash(events[m - 1].prev, m - 1, events[m - 1].type)
        BY <2>3, <3>4
      <4>2. m - 1 # n - 1
        BY <2>4, <3>1
      <4>3. QED
        BY <3>2, <4>1, <4>2, HashesDiffer
    <3>5. QED
      BY <3>3, <3>4
  <2>5. ASSUME NEW n \in 1..Len(events), NEW m \in 1..n - 1
        PROVE  m \in 1..Len(events) /\ m < n
    BY <2>1
  <2>6. QED
    BY <2>2, <2>3, <2>4, <2>5, Zenon DEF ChainUnforked
<1>2. QED
  BY <1>1, Invariance, PTL

\* Before the first checkpoint row, the seq that insert_audit_event allocates under
\* the advisory lock is free for every transaction; after it no transaction with an
\* audit event commits (exportCheckpoint, chain.go:308).
THEOREM SeqSafety == Spec => []SeqFreeUntilCheckpoint
<1>1. ASSUME IndInv PROVE SeqFreeUntilCheckpoint
  <2> DEFINE Clear == \A n \in 1..Len(events) : events[n].type # "AUDIT_CHECKPOINT"
  <2>1. Len(events) \in Nat /\ Len(<<>>) = 0
    BY <1>1, SeqIsSeq, EmptySeq DEF IndInv, Shape, IsSeq
  <2>2. ASSUME Clear, NEW w \in Writers, pc[w] = "insert"
        PROVE  at[w].seq = Len(events) + Len(rows[w])
    <3>1. head.seq = Len(events)
      BY <1>1, <2>1, <2>2 DEF IndInv, Committed
    <3>2. QED
      BY <1>1, <2>1, <2>2, <3>1 DEF IndInv, InFlight, Locked
  <2>3. ASSUME NEW w \in Writers, pc[w] = "commit" PROVE Clear
    <3>1. head.seq = Len(events)
      BY <1>1, <2>3 DEF IndInv, InFlight
    <3>2. QED
      BY <1>1, <3>1, Zenon DEF IndInv, Committed, Linked
  <2>4. QED
    BY <2>2, <2>3, Zenon DEF SeqFreeUntilCheckpoint, SeqFree
<1>2. QED
  BY <1>1, Invariance, PTL

-------------------------------------------------------------------------------
(***************************************************************************)
(* The bound.  Room leaves two rows for every transaction under way; a     *)
(* checkpoint may use one up, but then no transaction commits any more.    *)
(***************************************************************************)
Active == {w \in Writers : pc[w] # "idle"}

Budget ==
  /\ Len(events) <= MaxSeq
  /\ head.seq = Len(events) => Len(events) + 2 * Cardinality(Active) <= MaxSeq
  /\ \A w \in Writers : Len(rows[w]) + Len(todo[w]) <= 2
  /\ \A w \in Writers : ~ Locked(w) => at[w].seq = 0
  /\ pending.seq \in 0..MaxSeq
  /\ \A n \in 1..Len(events) : events[n].payload = "spaced"
  /\ \A w \in Writers : \A n \in 1..Len(rows[w]) : rows[w][n].payload = "spaced"

\* The transactions under way are counted.
LEMMA ActiveCount ==
  /\ IsFiniteSet(Active) /\ Cardinality(Active) \in Nat
  /\ \A w \in Writers \ Active : Cardinality(Active \cup {w}) = Cardinality(Active) + 1
  /\ \A w \in Active : Cardinality(Active \ {w}) = Cardinality(Active) - 1
<1>1. IsFiniteSet(Active)
  BY AuditAssumption, FS_Subset DEF Active
<1>2. QED
  BY <1>1, FS_CardinalityType, FS_AddElement, FS_RemoveElement

\* The lengths are numbers.
LEMMA Lengths ==
  ASSUME IndInv
  PROVE  /\ Len(events) \in Nat /\ head.seq \in 0..Len(events) /\ Len(<<>>) = 0
         /\ \A w \in Writers : Len(rows[w]) \in Nat /\ Len(todo[w]) \in Nat
<1>1. Len(events) \in Nat /\ Len(<<>>) = 0 /\ \A w \in Writers : Len(rows[w]) \in Nat
  BY SeqIsSeq, EmptySeq DEF IndInv, Shape, IsSeq
<1>2. \A w \in Writers : Len(todo[w]) \in Nat
  BY LenProperties DEF IndInv, Shape
<1>3. QED
  BY <1>1, <1>2 DEF IndInv, Committed

\* A transaction that begins takes its share of the room.
LEMMA BeginBudget ==
  ASSUME IndInv, Budget, NEW w \in Writers, NEW b \in Batches, Begin(w, b)
  PROVE  Budget'
<1>1. /\ pc[w] = "idle" /\ Room(b) /\ pc' = [pc EXCEPT ![w] = "lock"]
      /\ todo' = [todo EXCEPT ![w] = b]
      /\ UNCHANGED <<events, head, rows, at, pending>>
  BY DEF Begin
<1>2. rows[w] = <<>> /\ Len(b) \in Nat /\ Len(b) >= 1 /\ Len(b) <= 2
  <2>1. b \in Seq(STRING \ {"AUDIT_CHECKPOINT"}) /\ b # <<>> /\ Len(b) <= 2
    BY AuditAssumption
  <2>2. rows[w] = <<>>
    BY <1>1 DEF IndInv, InFlight, Locked
  <2>3. QED
    BY <2>1, <2>2, EmptySeq
<1>3. Active' = Active \cup {w} /\ w \notin Active
  BY <1>1 DEF Active, IndInv, Shape
<1>4. Len(events) + 2 * Cardinality(Active') <= MaxSeq
  <2>1. Len(events) + Len(b) + 2 * Cardinality(Active) < MaxSeq
    BY <1>1 DEF Room, Active
  <2>2. Cardinality(Active') = Cardinality(Active) + 1 /\ Cardinality(Active) \in Nat
    BY <1>3, ActiveCount
  <2>3. QED
    BY <1>2, <2>1, <2>2, Lengths, AuditAssumption
<1>5. \A v \in Writers : Len(rows'[v]) + Len(todo'[v]) <= 2
  BY <1>1, <1>2, Lengths DEF Budget, IndInv, Shape
<1>6. \A v \in Writers : ~ Locked(v)' => at'[v].seq = 0
  BY <1>1 DEF Budget, IndInv, Shape, Locked
<1>7. QED
  BY <1>1, <1>4, <1>5, <1>6, Zenon DEF Budget

\* Taking the lock changes nobody's share.
LEMMA TakeLockBudget ==
  ASSUME IndInv, Budget, NEW w \in Writers, TakeLock(w)
  PROVE  Budget'
<1>1. Active' = Active
  BY DEF TakeLock, Active, IndInv, Shape
<1>2. \A v \in Writers : ~ Locked(v)' => at'[v].seq = 0
  BY DEF Budget, IndInv, Shape, Locked, TakeLock
<1>3. QED
  BY <1>1, <1>2, Zenon DEF Budget, TakeLock

\* A transaction that ends gives its share back.
LEMMA FinishBudget ==
  ASSUME IndInv, Budget, NEW w \in Writers, pc[w] # "idle", Finish(w),
         UNCHANGED <<events, head, pending>>
  PROVE  Budget'
<1>1. Active' = Active \ {w} /\ w \in Active
  BY DEF Finish, Active, IndInv, Shape
<1>2. head.seq = Len(events) => Len(events) + 2 * Cardinality(Active') <= MaxSeq
  BY <1>1, ActiveCount, Lengths, AuditAssumption DEF Budget
<1>3. \A v \in Writers : /\ Len(rows'[v]) + Len(todo'[v]) <= 2
                         /\ \A n \in 1..Len(rows'[v]) : rows'[v][n].payload = "spaced"
  <2> SUFFICES ASSUME NEW v \in Writers
               PROVE  /\ Len(rows'[v]) + Len(todo'[v]) <= 2
                      /\ \A n \in 1..Len(rows'[v]) : rows'[v][n].payload = "spaced"
    BY Zenon
  <2>1. CASE v = w
    <3>1. rows'[v] = <<>> /\ todo'[v] = <<>>
      BY <2>1 DEF IndInv, Shape, Finish
    <3>2. QED
      BY <3>1
  <2>2. CASE v # w
    BY <2>2, Zenon DEF Budget, IndInv, Shape, Finish
  <2>3. QED
    BY <2>1, <2>2, Zenon
<1>4. \A v \in Writers : ~ Locked(v)' => at'[v].seq = 0
  BY DEF Budget, IndInv, Shape, Locked, Finish, NoHead
<1>5. QED
  BY <1>2, <1>3, <1>4, Zenon DEF Budget

\* An event moves from what a transaction has to insert to what it has inserted.
LEMMA InsertTxBudget ==
  ASSUME IndInv, Budget, NEW w \in Writers, InsertTx(w)
  PROVE  Budget'
<1>1. CASE at[w].seq + 1 <= Len(events)
  BY <1>1, FinishBudget DEF InsertTx
<1>2. CASE ~ at[w].seq + 1 <= Len(events)
  <2>1. PICK row : /\ row.payload = "spaced"
                   /\ rows' = [rows EXCEPT ![w] = Append(rows[w], row)]
    BY <1>2 DEF InsertTx, Stored
  <2>2. /\ pc[w] = "insert"
        /\ todo' = [todo EXCEPT ![w] = Tail(todo[w])]
        /\ pc' = [pc EXCEPT ![w] = IF Len(todo[w]) = 1 THEN "commit" ELSE "insert"]
        /\ at' = [at EXCEPT ![w] = NextHead(at[w], Head(todo[w]))]
        /\ UNCHANGED <<events, head, pending>>
    BY <1>2 DEF InsertTx
  <2>3. Active' = Active
    BY <2>2 DEF Active, IndInv, Shape
  <2>4. /\ Len(Append(rows[w], row)) = Len(rows[w]) + 1 /\ Len(rows[w]) \in Nat
        /\ \A n \in 1..Len(rows[w]) : Append(rows[w], row)[n] = rows[w][n]
        /\ Append(rows[w], row)[Len(rows[w]) + 1] = row
    BY AppendRow DEF IndInv, Shape
  <2>5. Len(Tail(todo[w])) = Len(todo[w]) - 1 /\ Len(todo[w]) \in Nat
    BY <2>2, HeadTailProperties, LenProperties DEF IndInv, Shape, InFlight
  <2>6. ASSUME NEW v \in Writers
        PROVE  /\ Len(rows'[v]) + Len(todo'[v]) <= 2
               /\ \A n \in 1..Len(rows'[v]) : rows'[v][n].payload = "spaced"
    <3>1. CASE v = w
      <4>1. rows'[v] = Append(rows[w], row) /\ todo'[v] = Tail(todo[w])
        BY <2>1, <2>2, <3>1 DEF IndInv, Shape
      <4>2. Len(rows[w]) + Len(todo[w]) <= 2
        BY Zenon DEF Budget
      <4>3. \A n \in 1..Len(rows[w]) : rows[w][n].payload = "spaced"
        BY DEF Budget
      <4>4. Len(rows'[v]) = Len(rows[w]) + 1 /\ Len(todo'[v]) = Len(todo[w]) - 1
        BY <2>4, <2>5, <4>1, Zenon
      <4>5. \A n \in 1..Len(rows[w]) + 1 : Append(rows[w], row)[n].payload = "spaced"
        BY <2>1, <2>4, <4>3
      <4>6. \A n \in 1..Len(rows'[v]) : rows'[v][n].payload = "spaced"
        BY <4>1, <4>4, <4>5, Zenon
      <4>7. \A x, y \in Nat : x + y <= 2 => (x + 1) + (y - 1) <= 2
        OBVIOUS
      <4>8. QED
        BY <2>4, <2>5, <4>2, <4>4, <4>6, <4>7, Zenon
    <3>2. CASE v # w
      BY <2>1, <2>2, <3>2, Zenon DEF Budget, IndInv, Shape
    <3>3. QED
      BY <3>1, <3>2, Zenon
  <2>7. \A v \in Writers : ~ Locked(v)' => at'[v].seq = 0
    BY <2>2 DEF Budget, IndInv, Shape, Locked
  <2>8. QED
    BY <2>2, <2>3, <2>6, <2>7, Zenon DEF Budget
<1>3. QED
  BY <1>1, <1>2

\* A transaction inserts two rows at most.
LEMMA Shares ==
  ASSUME IndInv, Budget, NEW w \in Writers
  PROVE  Len(rows[w]) \in 0..2
<1>1. Len(rows[w]) \in Nat /\ Len(todo[w]) \in Nat
  BY Lengths
<1>2. Len(rows[w]) + Len(todo[w]) <= 2
  BY Zenon DEF Budget
<1>3. \A x, y \in Nat : x + y <= 2 => x \in 0..2
  OBVIOUS
<1>4. QED
  BY <1>1, <1>2, <1>3, Zenon

\* A commit uses at most the two rows its transaction had a share for.
LEMMA CommitTxBudget ==
  ASSUME IndInv, Budget, NEW w \in Writers, CommitTx(w)
  PROVE  Budget'
<1>1. /\ pc[w] = "commit" /\ events' = events \o rows[w] /\ head' = at[w]
      /\ Finish(w) /\ UNCHANGED pending
  BY DEF CommitTx
<1>2. head.seq = Len(events)
  BY <1>1 DEF IndInv, InFlight
<1>3. Active' = Active \ {w} /\ w \in Active
  BY <1>1 DEF Finish, Active, IndInv, Shape
<1> DEFINE new == events \o rows[w]
<1>4. /\ Len(new) = Len(events) + Len(rows[w])
      /\ \A n \in 1..Len(events) : new[n] = events[n]
      /\ \A n \in 1..Len(rows[w]) : new[Len(events) + n] = rows[w][n]
  BY ConcatRows DEF IndInv, Shape
<1> HIDE DEF new
<1>5. Len(rows[w]) \in 0..2
  BY Shares
<1>6. Len(new) + 2 * Cardinality(Active') <= MaxSeq /\ Len(new) <= MaxSeq
  <2>1. Len(events) + 2 * Cardinality(Active) <= MaxSeq
    BY <1>2 DEF Budget
  <2>2. Cardinality(Active') = Cardinality(Active) - 1 /\ Cardinality(Active) \in Nat
    BY <1>3, ActiveCount
  <2>3. Cardinality(Active) # 0
    BY <1>3, ActiveCount, FS_EmptySet
  <2>4. \A e, c, m \in Nat : \A r \in 0..2 :
          e + 2 * c <= m /\ c # 0 => (e + r) + 2 * (c - 1) <= m /\ e + r <= m
    OBVIOUS
  <2>5. Len(events) \in Nat /\ MaxSeq \in Nat
    BY Lengths, AuditAssumption
  <2>6. QED
    BY <1>4, <1>5, <2>1, <2>2, <2>3, <2>4, <2>5, Zenon
<1>7. ASSUME NEW n \in 1..Len(new) PROVE new[n].payload = "spaced"
  <2>1. CASE n <= Len(events)
    BY <1>4, <2>1, Lengths DEF Budget
  <2>2. CASE ~ n <= Len(events)
    <3>1. n - Len(events) \in 1..Len(rows[w]) /\ n = Len(events) + (n - Len(events))
      BY <1>4, <1>5, <2>2, Lengths
    <3>2. QED
      BY <1>4, <3>1, ZenonT(40) DEF Budget
  <2>3. QED
    BY <2>1, <2>2
<1>8. \A v \in Writers : /\ Len(rows'[v]) + Len(todo'[v]) <= 2
                         /\ \A n \in 1..Len(rows'[v]) : rows'[v][n].payload = "spaced"
                         /\ ~ Locked(v)' => at'[v].seq = 0
  <2> SUFFICES ASSUME NEW v \in Writers
               PROVE  /\ Len(rows'[v]) + Len(todo'[v]) <= 2
                      /\ \A n \in 1..Len(rows'[v]) : rows'[v][n].payload = "spaced"
                      /\ ~ Locked(v)' => at'[v].seq = 0
    BY Zenon
  <2>1. CASE v = w
    <3>1. rows'[v] = <<>> /\ todo'[v] = <<>> /\ at'[v] = NoHead
      BY <1>1, <2>1 DEF IndInv, Shape, Finish
    <3>2. QED
      BY <3>1 DEF NoHead
  <2>2. CASE v # w
    BY <1>1, <2>2, Zenon DEF Budget, IndInv, Shape, Finish, Locked
  <2>3. QED
    BY <2>1, <2>2, Zenon
<1>9. events' = new /\ pending' = pending
  BY <1>1 DEF new
<1>10. /\ Len(events') <= MaxSeq /\ Len(events') + 2 * Cardinality(Active') <= MaxSeq
       /\ \A n \in 1..Len(events') : events'[n].payload = "spaced"
  BY <1>6, <1>7, <1>9, Zenon
<1>11. pending'.seq \in 0..MaxSeq
  BY <1>9 DEF Budget
<1>12. QED
  BY <1>8, <1>10, <1>11, Zenon DEF Budget

\* A checkpoint row leaves the head behind for good.
LEMMA CheckpointBudget ==
  ASSUME IndInv, Budget, CreateCheckpoints \/ ExportCheckpoint
  PROVE  Budget'
<1>1. Active' = Active /\ UNCHANGED <<head, pc, todo, rows, at>>
  BY DEF Active, CreateCheckpoints, ExportCheckpoint
<1>2. pending'.seq \in 0..MaxSeq
  BY Lengths, AuditAssumption DEF Budget, CreateCheckpoints, ExportCheckpoint, NoHead
<1>3. CASE UNCHANGED events
  BY <1>1, <1>2, <1>3, Zenon DEF Budget, Locked
<1>4. CASE Len(events) < MaxSeq /\ events' = Append(events, CheckpointRow)
  <2>1. /\ Len(events') = Len(events) + 1
        /\ \A n \in 1..Len(events) : events'[n] = events[n]
        /\ events'[Len(events) + 1].payload = "spaced"
    BY <1>4, AppendRow DEF IndInv, Shape, CheckpointRow, Stored
  <2>2. head'.seq # Len(events') /\ Len(events') <= MaxSeq
    BY <1>1, <1>4, <2>1, Lengths, AuditAssumption
  <2>3. \A n \in 1..Len(events') : events'[n].payload = "spaced"
    BY <2>1, Lengths DEF Budget
  <2>4. QED
    BY <1>1, <1>2, <2>2, <2>3, Zenon DEF Budget, Locked
<1>5. QED
  BY <1>3, <1>4 DEF CreateCheckpoints, ExportCheckpoint

\* Type correctness: the chain, the heads that transactions and the checkpoint loop
\* have read, and what a jsonb column gives back.  No behaviour outgrows the bound.
THEOREM TypeCorrect == Spec => []TypeOK
<1>1. Init => Budget
  <2> SUFFICES ASSUME Init PROVE Budget
    OBVIOUS
  <2>1. /\ Len(events) = 0 /\ head.seq = 0 /\ pending.seq = 0
        /\ \A w \in Writers : Len(rows[w]) = 0 /\ Len(todo[w]) = 0 /\ at[w].seq = 0
    BY DEF Init, NoHead
  <2>2. Active = {}
    BY DEF Init, Active
  <2>3. /\ Len(events) <= MaxSeq /\ Len(events) + 2 * Cardinality(Active) <= MaxSeq
        /\ \A n \in 1..Len(events) : events[n].payload = "spaced"
        /\ pending.seq \in 0..MaxSeq
    BY <2>1, <2>2, FS_EmptySet, AuditAssumption
  <2>4. \A k, m : k = 0 /\ m = 0 => k + m <= 2 /\ 1..k = {}
    OBVIOUS
  <2>5. \A w \in Writers : /\ Len(rows[w]) + Len(todo[w]) <= 2
                           /\ \A n \in 1..Len(rows[w]) : rows[w][n].payload = "spaced"
    BY <2>1, <2>4, Zenon
  <2>6. QED
    BY <2>1, <2>3, <2>5, Zenon DEF Budget
<1>2. ASSUME IndInv, Budget, [Next]_vars
      PROVE  Budget'
  <2>1. CASE UNCHANGED vars
    BY <1>2, <2>1, Zenon DEF vars, Budget, Locked, Active
  <2>2. CASE \E w \in Writers : \/ \E b \in Batches : Begin(w, b)
                                \/ TakeLock(w) \/ InsertTx(w) \/ CommitTx(w)
    BY <1>2, <2>2, BeginBudget, TakeLockBudget, InsertTxBudget, CommitTxBudget
  <2>3. CASE \E w \in Writers : Rollback(w)
    BY <1>2, <2>3, FinishBudget DEF Rollback
  <2>4. CASE CreateCheckpoints \/ ExportCheckpoint
    BY <1>2, <2>4, CheckpointBudget
  <2>5. QED
    BY <1>2, <2>1, <2>2, <2>3, <2>4 DEF Next
<1>3. ASSUME IndInv, Budget PROVE TypeOK
  <2>1. ASSUME NEW w \in Writers PROVE at[w].seq \in 0..MaxSeq /\ Len(rows[w]) <= MaxSeq
    <3>1. CASE ~ Locked(w)
      BY <1>3, <3>1, Lengths, AuditAssumption DEF IndInv, InFlight, Budget
    <3>2. CASE Locked(w) /\ rows[w] = <<>>
      BY <1>3, <3>2, Lengths, AuditAssumption DEF IndInv, InFlight, Budget
    <3>3. CASE Locked(w) /\ rows[w] # <<>>
      <4>1. w \in Active /\ Cardinality(Active) >= 1 /\ Cardinality(Active) \in Nat
        BY <3>3, ActiveCount, FS_EmptySet DEF Active, Locked
      <4>2. Len(rows[w]) \in 0..2
        BY <1>3, Shares
      <4>3. /\ at[w].seq = Len(events) + Len(rows[w]) /\ Len(events) \in Nat /\ MaxSeq \in Nat
            /\ Len(events) + 2 * Cardinality(Active) <= MaxSeq
        BY <1>3, <3>3, Lengths, AuditAssumption DEF IndInv, InFlight, Budget
      <4>4. \A e, c, m \in Nat : \A r \in 0..2 :
              e + 2 * c <= m /\ c >= 1 => e + r \in 0..m /\ r <= m
        OBVIOUS
      <4>5. Len(events) + Len(rows[w]) \in 0..MaxSeq /\ Len(rows[w]) <= MaxSeq
        BY <4>1, <4>2, <4>3, <4>4, Zenon
      <4>6. QED
        BY <4>3, <4>5, Zenon
    <3>4. QED
      BY <3>1, <3>2, <3>3
  <2>2. QED
    BY <1>3, <2>1, Lengths, AuditAssumption DEF TypeOK, IndInv, Shape, Budget
<1>4. QED
  BY <1>1, <1>2, <1>3, Invariance, PTL DEF Spec
===============================================================================
