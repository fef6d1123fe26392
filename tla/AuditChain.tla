------------------------------ MODULE AuditChain ------------------------------
(***************************************************************************)
(* The tenant's audit chain (service/internal/audit/chain.go and the SQL   *)
(* function insert_audit_event): transactions that append events under the *)
(* tenant's advisory lock, and the checkpoint loop that writes beside      *)
(* them.                                                                   *)
(*                                                                         *)
(* A hash is a tuple of what went into it, so two hashes are equal exactly *)
(* when their inputs are.  A transaction sees its own rows; what it wrote  *)
(* takes effect for others when it commits.                                *)
(***************************************************************************)
EXTENDS Naturals, Sequences, FiniteSets

CONSTANTS
  Writers,         \* transactions that audit
  Batches,         \* the sequences of event types one transaction inserts
  MaxSeq           \* bound on the length of the chain

\* A transaction of the engine audits one event or two; only the checkpoint loop
\* writes an AUDIT_CHECKPOINT.
ASSUME AuditAssumption ==
  /\ MaxSeq \in Nat
  /\ IsFiniteSet(Writers)
  /\ Batches \subseteq Seq(STRING \ {"AUDIT_CHECKPOINT"}) \ {<<>>}
  /\ \A b \in Batches : Len(b) <= 2

VARIABLES
  events,    \* audit_events: a sequence in seq order, each [type, payload, prev, hash]
  head,      \* audit_heads: [seq, hash]
  pc,        \* where each transaction is
  todo,      \* the events it has still to insert
  rows,      \* the rows it has inserted and not committed
  at,        \* the head as it sees it
  pending    \* head read by the checkpoint loop and not exported, or NoHead

vars == <<events, head, pc, todo, rows, at, pending>>

Zero   == <<"zero">>
NoHead == [seq |-> 0, hash |-> Zero]

\* digest(prev_hash || seq || event_type || now()) of insert_audit_event.
SqlHash(prev, seq, type) == <<"sql", prev, seq, type>>

\* computeRowHash: seq, event type, producer and payload bytes, not prev_hash.
ComputeRowHash(seq, type, payload) == <<"go", seq, type, payload>>

\* A jsonb column does not give back the bytes json.Marshal wrote: it puts a
\* space after every colon and comma.
Stored(payload) == IF payload = "compact" THEN "spaced" ELSE payload

Init ==
  /\ events = <<>>
  /\ head = NoHead
  /\ pc = [w \in Writers |-> "idle"]
  /\ todo = [w \in Writers |-> <<>>]
  /\ rows = [w \in Writers |-> <<>>]
  /\ at = [w \in Writers |-> NoHead]
  /\ pending = NoHead

TypeOK ==
  /\ Len(events) <= MaxSeq
  /\ \A n \in 1..Len(events) : events[n].payload \in {"compact", "spaced"}
  /\ head.seq \in 0..Len(events) /\ pending.seq \in 0..MaxSeq
  /\ pc \in [Writers -> {"idle", "lock", "insert", "commit"}]
  /\ \A w \in Writers : at[w].seq \in 0..MaxSeq /\ Len(rows[w]) <= MaxSeq

-------------------------------------------------------------------------------
Finish(w) ==
  /\ pc' = [pc EXCEPT ![w] = "idle"]
  /\ todo' = [todo EXCEPT ![w] = <<>>]
  /\ rows' = [rows EXCEPT ![w] = <<>>]
  /\ at' = [at EXCEPT ![w] = NoHead]

\* Bound: this batch, the ones under way (two events at most) and a checkpoint fit.
Room(b) == Len(events) + Len(b) + 2 * Cardinality({w \in Writers : pc[w] # "idle"}) < MaxSeq

Begin(w, b) ==
  /\ pc[w] = "idle" /\ Room(b)
  /\ pc' = [pc EXCEPT ![w] = "lock"]
  /\ todo' = [todo EXCEPT ![w] = b]
  /\ UNCHANGED <<events, head, rows, at, pending>>

\* Mutant: no advisory lock.
NoLock(w) == TRUE

\* pg_advisory_xact_lock is held from the first event to the end.
LockFree(w) == \A v \in Writers \ {w} : pc[v] \notin {"insert", "commit"}

\* insert_audit_event takes the lock and reads the head.
TakeLock(w) ==
  /\ pc[w] = "lock"
  /\ LockFree(w)
  /\ at' = [at EXCEPT ![w] = head]
  /\ pc' = [pc EXCEPT ![w] = "insert"]
  /\ UNCHANGED <<events, head, todo, rows, pending>>

\* Mutant: the head is not advanced with the event.
NextHeadStuck(h, type) == [seq |-> h.seq + 1, hash |-> h.hash]

\* The head after an event of this type.
NextHead(h, type) == [seq |-> h.seq + 1, hash |-> SqlHash(h.hash, h.seq + 1, type)]

\* InsertTx: insert_audit_event inserts the row and advances the head, then an
\* UPDATE overwrites row_hash.  The key may be taken by a committed checkpoint;
\* the error is ignored and Commit fails.
InsertTx(w) ==
  /\ pc[w] = "insert"
  /\ LET type == Head(todo[w])
         seq  == at[w].seq + 1
     IN IF seq <= Len(events)
        THEN Finish(w)
        ELSE /\ rows' = [rows EXCEPT ![w] = Append(@,
                            [type |-> type, payload |-> Stored("compact"), prev |-> at[w].hash,
                             hash |-> ComputeRowHash(seq, type, "compact")])]
             /\ at' = [at EXCEPT ![w] = NextHead(@, type)]
             /\ todo' = [todo EXCEPT ![w] = Tail(@)]
             /\ pc' = [pc EXCEPT ![w] = IF Len(todo[w]) = 1 THEN "commit" ELSE "insert"]
  /\ UNCHANGED <<events, head, pending>>

CommitTx(w) ==
  /\ pc[w] = "commit"
  /\ events' = events \o rows[w]
  /\ head' = at[w]
  /\ Finish(w)
  /\ UNCHANGED pending

\* Mutant: the head was moved outside the transaction and stays.
RollbackKeepsHead(w) ==
  /\ pc[w] # "idle"
  /\ head' = IF rows[w] = <<>> THEN head ELSE at[w]
  /\ Finish(w)
  /\ UNCHANGED <<events, pending>>

Rollback(w) ==
  /\ pc[w] # "idle"
  /\ Finish(w)
  /\ UNCHANGED <<events, head, pending>>

-------------------------------------------------------------------------------
(***************************************************************************)
(* The checkpoint loop: createCheckpoints reads the committed head, signs, *)
(* and exportCheckpoint inserts at MAX(seq) + 1 without the lock and       *)
(* without moving the head.  A key that a transaction in flight has taken  *)
(* makes the insert wait for it; if that one commits, the insert fails and *)
(* the loop goes on.                                                       *)
(***************************************************************************)
CreateCheckpoints ==
  /\ pending = NoHead
  /\ head.seq > 0
  /\ pending' = head
  /\ UNCHANGED <<events, head, pc, todo, rows, at>>

CheckpointRow ==
  [type |-> "AUDIT_CHECKPOINT", payload |-> Stored("compact"),
   prev |-> pending.hash, hash |-> pending.hash]

ExportCheckpoint ==
  /\ pending # NoHead
  /\ \/ /\ Len(events) < MaxSeq
        /\ \A w \in Writers : rows[w] = <<>>
        /\ events' = Append(events, CheckpointRow)
     \/ UNCHANGED events
  /\ pending' = NoHead
  /\ UNCHANGED <<head, pc, todo, rows, at>>

-------------------------------------------------------------------------------
Next ==
  \/ \E w \in Writers, b \in Batches : Begin(w, b)
  \/ \E w \in Writers : TakeLock(w)
  \/ \E w \in Writers : InsertTx(w)
  \/ \E w \in Writers : CommitTx(w)
  \/ \E w \in Writers : Rollback(w)
  \/ CreateCheckpoints
  \/ ExportCheckpoint

Spec == Init /\ [][Next]_vars

-------------------------------------------------------------------------------
\* The chain does not fork: no two events carry the same prev_hash, as they would
\* if two transactions had read one head in insert_audit_event, and each was hashed
\* under the seq it ended up with, also when checkpoints and rolled back
\* transactions come between (DR-AUD-1).
ChainUnforked ==
  \A n \in 1..Len(events) : events[n].type # "AUDIT_CHECKPOINT" =>
    /\ events[n].hash = ComputeRowHash(n, events[n].type, "compact")
    /\ \A m \in 1..n - 1 :
         events[m].type # "AUDIT_CHECKPOINT" => events[m].prev # events[n].prev

\* The seq insert_audit_event allocates under the lock is free, so no audited
\* transaction of the engine fails for it (DR-AUD-1; chain.go:299 "H7 fix: use
\* proper prev_hash and row_hash instead of breaking the chain").
SeqFree ==
  \A w \in Writers : pc[w] = "insert" => at[w].seq = Len(events) + Len(rows[w])

\* Until exportCheckpoint has written its first row, that seq is free for every
\* transaction, however calls and rollbacks interleave around the advisory lock.
\* From then on it is free for none: no audited transaction gets to its commit,
\* as insert_audit_event goes on to number from a head that has fallen behind.
SeqFreeUntilCheckpoint ==
  IF \A n \in 1..Len(events) : events[n].type # "AUDIT_CHECKPOINT"
  THEN SeqFree
  ELSE \A w \in Writers : pc[w] # "commit"

\* 001_initial_schema.up.sql:304 "previous event's row_hash": what VerifyChain
\* compares.  insert_audit_event puts the head's hash there, which InsertTx has
\* overwritten in the row.
PrevIsRowHash ==
  \A n \in 2..Len(events) : events[n].type # "AUDIT_CHECKPOINT" =>
    events[n].prev = events[n - 1].hash
===============================================================================
