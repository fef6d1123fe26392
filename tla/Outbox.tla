-------------------------------- MODULE Outbox --------------------------------
(***************************************************************************)
(* Durable messaging (service/internal/messaging/outbox.go): transactions  *)
(* that write to the outbox, and service instances that deliver it under   *)
(* fenced leases.                                                          *)
(*                                                                         *)
(* A writer is a transaction of the approval engine, which writes to one   *)
(* consumer after it has taken the tenant's audit lock, or a revocation,   *)
(* which writes to several while it holds Manager.seqMu.  Both locks are   *)
(* kept to the end of the transaction.  OutboxWriter.seqMu is not: WriteTx *)
(* holds it around one INSERT, whose MAX(seq) sees committed rows only, so *)
(* two transactions may choose the same seq.  The primary key then makes   *)
(* the second wait, with seqMu held, for the end of the first.             *)
(***************************************************************************)
EXTENDS Naturals, Sequences, FiniteSets

CONSTANTS
  Writers,     \* transactions in flight
  Process,     \* the service process each of them runs in
  Consumers,   \* daemons and devices
  Attached,    \* the consumers that connect; the stream of another only grows
  Jobs,        \* what a transaction writes: [kind, to], to a sequence of consumers
  Instances,   \* service instances that deliver
  MaxSeq,      \* transactions begin while every consumer's stream is below it
  MaxFence,    \* bound on how often a lease changes hands
  None

ASSUME OutboxAssumption ==
  /\ Jobs \subseteq [kind: {"engine", "revocation"}, to: Seq(Consumers) \ {<<>>}]
  /\ Attached \subseteq Consumers
  /\ MaxSeq \in Nat /\ MaxFence \in Nat
  /\ None \notin Writers

Processes == {Process[w] : w \in Writers}

VARIABLES
  seqMu,     \* the writer that holds OutboxWriter.seqMu of a process
  rows,      \* the committed sequence numbers of a consumer
  pc,        \* where each transaction is
  job,       \* what it still has to write
  alloc,     \* the seq its INSERT has computed
  mine,      \* the <<consumer, seq>> it has inserted and not committed
  fence,     \* consumer_cursors.lease_fence
  term,      \* age of the lease: "FRESH", "OLD" or "NONE" (expired or released)
  cursor,    \* consumer_cursors.last_acked_seq
  acked,     \* seqs with acked_at set, which are those in the inbox
  held,      \* the fence an instance got when it last acquired the lease, 0 for none
  pos,       \* the seq up to which it has delivered since
  got        \* what each consumer has received and processed

writers  == <<seqMu, pc, job, alloc, mine>>
delivery == <<fence, term, cursor, acked, held, pos, got>>
vars     == <<rows, writers, delivery>>

NoJob == [kind |-> "none", to |-> <<>>]

Seqs == Nat \ {0}

\* What is acknowledged was received, what was received is in the stream, and
\* the cursor stands at an acknowledged message.
TypeOK ==
  /\ seqMu \in [Processes -> Writers \cup {None}]
  /\ rows \in [Consumers -> SUBSET Seqs]
  /\ pc \in [Writers -> {"idle", "enter", "lock", "insert", "commit"}]
  /\ job \in [Writers -> [kind: {"engine", "revocation", "none"}, to: Seq(Consumers)]]
  /\ alloc \in [Writers -> Nat]
  /\ mine \in [Writers -> SUBSET (Consumers \X Seqs)]
  /\ fence \in [Consumers -> 0..MaxFence]
  /\ term \in [Consumers -> {"FRESH", "OLD", "NONE"}]
  /\ cursor \in [Consumers -> Nat]
  /\ acked \in [Consumers -> SUBSET Seqs]
  /\ held \in [Instances -> [Consumers -> 0..MaxFence]]
  /\ pos \in [Instances -> [Consumers -> Nat]]
  /\ got \in [Consumers -> SUBSET Seqs]
  /\ \A c \in Consumers :
       /\ acked[c] \subseteq got[c] /\ got[c] \subseteq rows[c]
       /\ cursor[c] \in acked[c] \cup {0}

Init ==
  /\ seqMu = [p \in Processes |-> None]
  /\ rows = [c \in Consumers |-> {}]
  /\ pc = [w \in Writers |-> "idle"]
  /\ job = [w \in Writers |-> NoJob]
  /\ alloc = [w \in Writers |-> 0]
  /\ mine = [w \in Writers |-> {}]
  /\ fence = [c \in Consumers |-> 0]
  /\ term = [c \in Consumers |-> "NONE"]
  /\ cursor = [c \in Consumers |-> 0]
  /\ acked = [c \in Consumers |-> {}]
  /\ held = [i \in Instances |-> [c \in Consumers |-> 0]]
  /\ pos = [i \in Instances |-> [c \in Consumers |-> 0]]
  /\ got = [c \in Consumers |-> {}]

-------------------------------------------------------------------------------
(***************************************************************************)
(* Transactions that write.                                                *)
(***************************************************************************)
\* Largest element of a set of sequence numbers, COALESCE(MAX(seq), 0).
MaxOf(S) == IF S = {} THEN 0 ELSE CHOOSE s \in S : \A t \in S : t <= s

\* Room for one more message to every consumer besides those under way.
Room ==
  \A c \in Consumers :
    MaxOf(rows[c]) + Cardinality({w \in Writers : pc[w] # "idle"}) < MaxSeq

Begin(w, j) ==
  /\ pc[w] = "idle"
  /\ Room
  /\ pc' = [pc EXCEPT ![w] = "enter"]
  /\ job' = [job EXCEPT ![w] = j]
  /\ UNCHANGED <<rows, seqMu, alloc, mine, delivery>>

\* The lock a transaction keeps to its end: the tenant's advisory lock of
\* insert_audit_event, or Manager.seqMu of its process.
SameLock(v, w) ==
  /\ job[v].kind = job[w].kind
  /\ job[w].kind = "revocation" => Process[v] = Process[w]

Enter(w) ==
  /\ pc[w] = "enter"
  /\ \A v \in Writers : pc[v] \in {"lock", "insert", "commit"} => ~ SameLock(v, w)
  /\ pc' = [pc EXCEPT ![w] = "lock"]
  /\ UNCHANGED <<rows, seqMu, job, alloc, mine, delivery>>

Finish(w) ==
  /\ pc' = [pc EXCEPT ![w] = "idle"]
  /\ job' = [job EXCEPT ![w] = NoJob]
  /\ alloc' = [alloc EXCEPT ![w] = 0]
  /\ mine' = [mine EXCEPT ![w] = {}]

Unlock(w) == [seqMu EXCEPT ![Process[w]] = IF @ = w THEN None ELSE @]

Target(w) == Head(job[w].to)

\* Sequence numbers of consumer c that transaction w has inserted.
Written(w, c) == {m[2] : m \in {x \in mine[w] : x[1] = c}}

\* MAX(seq) + 1 as the statement of w sees it: committed rows and its own.
NextSeq(w) == 1 + MaxOf(rows[Target(w)] \cup Written(w, Target(w)))

\* WriteTx: seqMu.Lock(), then the INSERT computes its seq.
WriteLock(w) ==
  /\ pc[w] = "lock"
  /\ seqMu[Process[w]] = None
  /\ seqMu' = [seqMu EXCEPT ![Process[w]] = w]
  /\ alloc' = [alloc EXCEPT ![w] = NextSeq(w)]
  /\ pc' = [pc EXCEPT ![w] = "insert"]
  /\ UNCHANGED <<rows, job, mine, delivery>>

\* No other transaction in flight has inserted the same key.
KeyFree(w) == \A v \in Writers \ {w} : <<Target(w), alloc[w]>> \notin mine[v]

\* Mutant: seqMu is not released when the INSERT fails.
WriteInsertLeaksMutex(w) ==
  /\ pc[w] = "insert"
  /\ KeyFree(w)
  /\ IF alloc[w] \in rows[Target(w)]
     THEN Finish(w) /\ UNCHANGED seqMu
     ELSE /\ seqMu' = Unlock(w)
          /\ mine' = [mine EXCEPT ![w] = @ \cup {<<Target(w), alloc[w]>>}]
          /\ job' = [job EXCEPT ![w].to = Tail(@)]
          /\ pc' = [pc EXCEPT ![w] = IF Len(job[w].to) = 1 THEN "commit" ELSE "lock"]
          /\ UNCHANGED alloc
  /\ UNCHANGED <<rows, delivery>>

\* The INSERT goes in once the key is free, and seqMu is released.  A duplicate
\* key fails the transaction: IssueRevocation returns the error, the engine
\* ignores it and its Commit fails.
WriteInsert(w) ==
  /\ pc[w] = "insert"
  /\ KeyFree(w)
  /\ seqMu' = Unlock(w)
  /\ IF alloc[w] \in rows[Target(w)]
     THEN Finish(w)
     ELSE /\ mine' = [mine EXCEPT ![w] = @ \cup {<<Target(w), alloc[w]>>}]
          /\ job' = [job EXCEPT ![w].to = Tail(@)]
          /\ pc' = [pc EXCEPT ![w] = IF Len(job[w].to) = 1 THEN "commit" ELSE "lock"]
          /\ UNCHANGED alloc
  /\ UNCHANGED <<rows, delivery>>

CommitTx(w) ==
  /\ pc[w] = "commit"
  /\ rows' = [c \in Consumers |-> rows[c] \cup Written(w, c)]
  /\ Finish(w)
  /\ UNCHANGED <<seqMu, delivery>>

\* Context cancelled, statement failed, connection lost.
Rollback(w) ==
  /\ pc[w] # "idle"
  /\ seqMu' = Unlock(w)
  /\ Finish(w)
  /\ UNCHANGED <<rows, delivery>>

-------------------------------------------------------------------------------
(***************************************************************************)
(* Delivery.                                                               *)
(***************************************************************************)

\* AcquireLease takes the lease over whether or not it has expired.
AcquireLease(i, c) ==
  /\ fence[c] < MaxFence
  /\ fence' = [fence EXCEPT ![c] = @ + 1]
  /\ term' = [term EXCEPT ![c] = "FRESH"]
  /\ held' = [held EXCEPT ![i][c] = fence[c] + 1]
  /\ pos' = [pos EXCEPT ![i][c] = cursor[c]]
  /\ UNCHANGED <<rows, writers, cursor, acked, got>>

RenewLease(i, c) ==
  /\ held[i][c] = fence[c] /\ term[c] # "NONE"
  /\ term' = [term EXCEPT ![c] = "FRESH"]
  /\ UNCHANGED <<rows, writers, fence, cursor, acked, held, pos, got>>

ReleaseLease(i, c) ==
  /\ held[i][c] = fence[c] /\ held[i][c] # 0
  /\ term' = [term EXCEPT ![c] = "NONE"]
  /\ held' = [held EXCEPT ![i][c] = 0]
  /\ UNCHANGED <<rows, writers, fence, cursor, acked, pos, got>>

LeaseAges(c) ==
  /\ term[c] # "NONE"
  /\ term' = [term EXCEPT ![c] = IF @ = "FRESH" THEN "OLD" ELSE "NONE"]
  /\ UNCHANGED <<rows, writers, fence, cursor, acked, held, pos, got>>

\* What FetchPending(from) returns: seq > from AND acked_at IS NULL.
Pending(c, from) == {s \in rows[c] : s > from /\ s \notin acked[c]}

\* Mutant: ORDER BY seq DESC.
DeliverNewest(i, c) ==
  /\ held[i][c] # 0
  /\ Pending(c, pos[i][c]) # {}
  /\ got' = [got EXCEPT ![c] = @ \cup {MaxOf(Pending(c, pos[i][c]))}]
  /\ pos' = [pos EXCEPT ![i][c] = MaxOf(Pending(c, pos[i][c]))]
  /\ UNCHANGED <<rows, writers, fence, term, cursor, acked, held>>

\* An instance that acquired the lease once fetches and sends the next message;
\* nothing makes a stale one stop.  One stream delivers in order.
Deliver(i, c) ==
  /\ held[i][c] # 0
  /\ Pending(c, pos[i][c]) # {}
  /\ LET s == CHOOSE x \in Pending(c, pos[i][c]) : \A y \in Pending(c, pos[i][c]) : x <= y
     IN /\ got' = [got EXCEPT ![c] = @ \cup {s}]
        /\ pos' = [pos EXCEPT ![i][c] = s]
  /\ UNCHANGED <<rows, writers, fence, term, cursor, acked, held>>

\* Mutant: the cursor holds the next seq instead of the last one.
AckNextSeq(i, c, s) ==
  /\ held[i][c] = fence[c] /\ held[i][c] # 0
  /\ s \in got[c] \ acked[c]
  /\ acked' = [acked EXCEPT ![c] = @ \cup {s}]
  /\ cursor' = [cursor EXCEPT ![c] = s + 1]
  /\ UNCHANGED <<rows, writers, fence, term, held, pos, got>>

\* Mutant: the fence of the lease is not compared.
AckUnfenced(i, c, s) ==
  /\ held[i][c] # 0
  /\ s \in got[c] \ acked[c]
  /\ acked' = [acked EXCEPT ![c] = @ \cup {s}]
  /\ cursor' = [cursor EXCEPT ![c] = IF s > @ THEN s ELSE @]
  /\ UNCHANGED <<rows, writers, fence, term, held, pos, got>>

\* AckMessage of a message the consumer has received, over the stream of any
\* instance, in any order.  A stale fence is refused; the inbox drops repeats.
AckMessage(i, c, s) ==
  /\ held[i][c] = fence[c] /\ held[i][c] # 0
  /\ s \in got[c] \ acked[c]
  /\ acked' = [acked EXCEPT ![c] = @ \cup {s}]
  /\ cursor' = [cursor EXCEPT ![c] = IF s > @ THEN s ELSE @]
  /\ UNCHANGED <<rows, writers, fence, term, held, pos, got>>

-------------------------------------------------------------------------------
WriteTx(w) == WriteLock(w) \/ WriteInsert(w)

Next ==
  \/ \E w \in Writers, j \in Jobs : Begin(w, j)
  \/ \E w \in Writers : Enter(w)
  \/ \E w \in Writers : WriteTx(w)
  \/ \E w \in Writers : CommitTx(w)
  \/ \E w \in Writers : Rollback(w)
  \/ \E i \in Instances, c \in Attached : AcquireLease(i, c)
  \/ \E i \in Instances, c \in Attached : RenewLease(i, c)
  \/ \E i \in Instances, c \in Attached : ReleaseLease(i, c)
  \/ \E c \in Attached : LeaseAges(c)
  \/ \E i \in Instances, c \in Attached : Deliver(i, c)
  \/ \E i \in Instances, c \in Attached : \E s \in got[c] : AckMessage(i, c, s)

Spec == Init /\ [][Next]_vars

(***************************************************************************)
(* A transaction that can go on does: the mutex and Postgres serve their   *)
(* waiters in turn.  Delivery is driven by clients and has no fairness.    *)
(***************************************************************************)
Fairness ==
  \A w \in Writers :
    SF_vars(Enter(w) \/ WriteLock(w) \/ WriteInsert(w) \/ CommitTx(w))

FairSpec == Spec /\ Fairness

-------------------------------------------------------------------------------
\* A consumer's stream only grows at its end and has no holes: whatever the
\* concurrent MAX(seq) + 1 of WriteTx, no message commits below one that is
\* already there (DR-SVC-5 "ordered sequence numbers").
AppendsAtEnd ==
  \A c \in Consumers : rows'[c] = rows[c] \cup (MaxOf(rows[c]) + 1)..MaxOf(rows'[c])

\* Every step of every writer appends at the end of the streams it changes.
StreamAppendOnly == [][AppendsAtEnd]_vars

\* The instances whose acknowledgements of a consumer's messages are accepted.
Owners(c) == {i \in Instances : held[i][c] = fence[c] /\ fence[c] # 0}

\* The outbox implements ordered delivery: whatever transactions, takeovers of the
\* lease, stale instances and repeated messages there are, every step is one step of
\* OrderedDelivery, or none (DR-SVC-1, DR-SVC-5).
Delivery ==
  INSTANCE OrderedDelivery
    WITH stream <- rows, received <- got, resume <- cursor,
         owner <- [c \in Consumers |-> Owners(c)]

\* The specification of ordered delivery under that mapping: WriteTx appends without
\* a hole, Deliver goes in order, and AckMessage moves the cursor for the owner alone.
ImplementsDelivery == Delivery!Spec

\* Nothing at or below the cursor AckMessage keeps was withheld from the
\* consumer: replay from last_acked_seq + 1 after any takeover of the lease
\* skips no message it has not received (DR-SVC-1).
NoMessageSkipped == \A c \in Consumers : \A s \in rows[c] : s <= cursor[c] => s \in got[c]

\* At most one instance holds the current fence of a consumer, so after
\* AcquireLease the acknowledgements of the old owner are refused (DR-SVC-1).
OneOwner ==
  \A c \in Consumers : \A i, j \in Instances :
    held[i][c] = fence[c] /\ held[j][c] = fence[c] /\ fence[c] # 0 => i = j

\* A transaction waits for seqMu to write its next message while the holder of
\* seqMu waits, in its INSERT, for the end of that transaction.
MutexCircle ==
  \E v, w \in Writers :
    /\ pc[v] = "lock" /\ seqMu[Process[v]] = w
    /\ pc[w] = "insert" /\ <<Target(w), alloc[w]>> \in mine[v]

\* Every transaction that writes to the outbox ends, or the one circle closes that
\* the code leaves open: WriteTx (outbox.go:42) gives seqMu back between the messages
\* of a revocation (manager.go:118) whose first key another WriteTx then waits for.
\* The audit lock, the two mutexes named seqMu and the keys of the streams are never
\* waited for in any other circle.
OnlyMutexCircleBlocks ==
  \A w \in Writers : (pc[w] # "idle") ~> (pc[w] = "idle" \/ MutexCircle)
===============================================================================
