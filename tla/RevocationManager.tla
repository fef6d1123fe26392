--------------------------- MODULE RevocationManager ---------------------------
(***************************************************************************)
(* The revocation manager (service/internal/revocation/manager.go): the    *)
(* ordered stream of a tenant's revocations, the sessions and grants a     *)
(* revocation takes with it, the messages it queues, and the daemons that  *)
(* read the stream.                                                        *)
(*                                                                         *)
(* IssueRevocation holds seqMu until it returns: past its commit, while    *)
(* each NotifyConsumer takes a connection of the pool.  RevokeDevice holds *)
(* it only while it allocates and inserts, so another call may read        *)
(* MAX(seq) before that insert is visible.  The primary key                *)
(* (tenant_id, seq) then makes the second insert wait for the first        *)
(* transaction and fail when that one commits.  A transaction holds one    *)
(* connection from BeginTx, before it waits for seqMu, to its end.         *)
(***************************************************************************)
EXTENDS Naturals, Sequences, FiniteSets

CONSTANTS
  Workers,           \* concurrent calls
  Devices,
  Grants,            \* JTIs of the grants table
  Attr,              \* what a grant is bound to: [device, user, source, node]
  Orders,            \* the [kind, target] pairs IssueRevocation may be asked for
  Consumers,         \* outbox consumers
  Audiences,         \* the sets of consumers a revocation may be addressed to
  SeqQueryAccepted,  \* FALSE: Postgres refuses FOR UPDATE on an aggregate
  PoolSizes,         \* the values max_conns may be configured to
  MaxRevocations,    \* bound on the length of the stream
  None

Kinds == {"user", "source_node", "protected_node", "device", "key", "cert", "grant", "policy"}

ASSUME RevocationAssumption ==
  /\ \A o \in Orders : o.kind \in Kinds
  /\ Audiences \subseteq SUBSET Consumers
  /\ SeqQueryAccepted \in BOOLEAN
  /\ MaxRevocations \in Nat
  /\ None \notin Workers
  /\ IsFiniteSet(Workers)

VARIABLES
  maxConns,   \* SetMaxOpenConns, fixed when the service starts
  seqMu,      \* the worker that holds Manager.seqMu
  revs,       \* the revocations table: seq -> [kind, target]
  devState,   \* devices.state
  grant,      \* the row of a grant: "UNUSED", "CONSUMED" or "DELETED"
  session,    \* the active_sessions row of a grant: "NONE", "OPEN" or "CLOSED"
  outbox,     \* the revocations queued for each consumer, in outbox order
  pc,         \* where the call of each worker is
  call,       \* its [kind, target] and its affectedConsumers
  alloc,      \* the sequence number it allocated
  closing,    \* sessions its UPDATE has closed
  deleting,   \* grants its DELETE has removed
  cursor,     \* the daemon's last acknowledged seq
  received,   \* the revocations it was sent
  latest,     \* latestSeq of its last CheckFreshness
  aged        \* its last acknowledgement is more than R seconds old

tables == <<revs, devState, grant, session, outbox>>
local  == <<pc, call, alloc, closing, deleting>>
daemon == <<cursor, received, latest, aged>>
vars   == <<maxConns, seqMu, tables, local, daemon>>

NoCall == [kind |-> "NONE"]

\* SELECT COALESCE(MAX(seq), 0): committed rows only.
MaxOf(S) == IF S = {} THEN 0 ELSE CHOOSE s \in S : \A t \in S : t <= s
MaxSeq   == MaxOf(DOMAIN revs)

\* What a call is asked for: the target of an order, or a device.
Calls ==
  [kind : Kinds, target : {o.target : o \in Orders} \cup Devices, to : SUBSET Consumers]

\* Steps at which a transaction has inserted its row and not yet ended.
Inserted == {"terminate", "invalidate", "commit", "revoke_commit"}

TypeOK ==
  /\ maxConns \in PoolSizes
  /\ seqMu \in Workers \cup {None}
  /\ \A s \in DOMAIN revs : s \in 1..MaxRevocations /\ revs[s].kind \in Kinds
  /\ devState \in [Devices -> {"ENROLLED", "REVOKED"}]
  /\ grant \in [Grants -> {"UNUSED", "CONSUMED", "DELETED"}]
  /\ session \in [Grants -> {"NONE", "OPEN", "CLOSED"}]
  /\ outbox \in [Consumers -> Seq(1..MaxRevocations)]
  /\ pc \in [Workers -> {"idle", "begin", "lock", "seq", "insert", "notify", "revoke_begin",
                         "revoke", "revoke_lock", "revoke_seq", "revoke_insert"} \cup Inserted]
  /\ call \in [Workers -> Calls \cup {NoCall}]
  /\ alloc \in [Workers -> 0..MaxRevocations]
  /\ closing \in [Workers -> SUBSET Grants]
  /\ deleting \in [Workers -> SUBSET Grants]
  /\ cursor \in 0..MaxRevocations
  /\ received \subseteq 1..MaxRevocations
  /\ latest \in 0..MaxRevocations
  /\ aged \in BOOLEAN

Init ==
  /\ maxConns \in PoolSizes
  /\ seqMu = None
  /\ revs = <<>>
  /\ devState = [d \in Devices |-> "ENROLLED"]
  /\ grant = [g \in Grants |-> "UNUSED"]
  /\ session = [g \in Grants |-> "NONE"]
  /\ outbox = [c \in Consumers |-> <<>>]
  /\ pc = [w \in Workers |-> "idle"]
  /\ call = [w \in Workers |-> NoCall]
  /\ alloc = [w \in Workers |-> 0]
  /\ closing = [w \in Workers |-> {}] /\ deleting = [w \in Workers |-> {}]
  /\ cursor = 0 /\ received = {} /\ latest = 0 /\ aged = FALSE

-------------------------------------------------------------------------------
Goto(w, step) == pc' = [pc EXCEPT ![w] = step]

\* Commit or rollback: the row locks and the connection are given back.
EndTx(w, step) ==
  /\ Goto(w, step)
  /\ alloc' = [alloc EXCEPT ![w] = 0]
  /\ closing' = [closing EXCEPT ![w] = {}]
  /\ deleting' = [deleting EXCEPT ![w] = {}]

\* The call returns; a deferred Unlock gives the mutex back.
Finish(w) ==
  /\ EndTx(w, "idle")
  /\ call' = [call EXCEPT ![w] = NoCall]
  /\ seqMu' = IF seqMu = w THEN None ELSE seqMu

\* Calls whose transaction is not over, and those of them that have begun it.
UnderWay == {w \in Workers : pc[w] \notin {"idle", "notify"}}
Connected == {w \in UnderWay : pc[w] \notin {"begin", "revoke_begin"}}

ConnFree == Cardinality(Connected) < maxConns

\* Room for one more revocation besides those under way.
Room == MaxSeq + Cardinality(UnderWay) < MaxRevocations

Begin(w, c, step) ==
  /\ pc[w] = "idle"
  /\ Room
  /\ call' = [call EXCEPT ![w] = c]
  /\ Goto(w, step)
  /\ UNCHANGED <<seqMu, tables, alloc, closing, deleting, daemon, maxConns>>

\* BeginTx, once the pool has a connection.
BeginTx(w, from, to) ==
  /\ pc[w] = from
  /\ ConnFree
  /\ Goto(w, to)
  /\ UNCHANGED <<seqMu, tables, call, alloc, closing, deleting, daemon, maxConns>>

\* seqMu.Lock()
Lock(w, from, to) ==
  /\ pc[w] = from
  /\ seqMu = None
  /\ seqMu' = w
  /\ Goto(w, to)
  /\ UNCHANGED <<tables, call, alloc, closing, deleting, daemon, maxConns>>

\* Mutant: numbers from a generator that counts the uncommitted ones too.
AllocateFromSequence(w, from, to) ==
  /\ pc[w] = from
  /\ alloc' = [alloc EXCEPT ![w] = 1 + MaxSeq + Cardinality({v \in Workers : pc[v] \in Inserted})]
  /\ Goto(w, to)
  /\ UNCHANGED <<seqMu, tables, call, closing, deleting, daemon, maxConns>>

\* SELECT COALESCE(MAX(seq), 0) + 1 ... FOR UPDATE; where the query is refused
\* the call returns the error.
AllocateSeq(w, from, to) ==
  /\ pc[w] = from
  /\ IF SeqQueryAccepted
     THEN /\ alloc' = [alloc EXCEPT ![w] = MaxSeq + 1]
          /\ Goto(w, to)
          /\ UNCHANGED <<seqMu, call, closing, deleting>>
     ELSE Finish(w)
  /\ UNCHANGED <<tables, daemon, maxConns>>

\* Mutant: a stream without a primary key.
NoKey(w) == TRUE

\* No other transaction in flight has inserted the same key.
KeyFree(w) == \A v \in Workers \ {w} : pc[v] \in Inserted => alloc[v] # alloc[w]

\* Mutant: the error path does not unlock seqMu.
InsertLeaksMutex(w, from, to, mu) ==
  /\ pc[w] = from
  /\ KeyFree(w)
  /\ IF alloc[w] \in DOMAIN revs
     THEN Goto(w, "idle") /\ UNCHANGED <<seqMu, call, alloc, closing, deleting>>
     ELSE Goto(w, to) /\ seqMu' = mu /\ UNCHANGED <<call, alloc, closing, deleting>>
  /\ UNCHANGED <<tables, daemon, maxConns>>

\* INSERT INTO revocations, once the key is free; a duplicate key ends the call.
InsertRevocation(w, from, to, mu) ==
  /\ pc[w] = from
  /\ KeyFree(w)
  /\ IF alloc[w] \in DOMAIN revs
     THEN Finish(w)
     ELSE Goto(w, to) /\ seqMu' = mu /\ UNCHANGED <<call, alloc, closing, deleting>>
  /\ UNCHANGED <<tables, daemon, maxConns>>

-------------------------------------------------------------------------------
(***************************************************************************)
(* IssueRevocation: begin, lock, allocate, insert, terminateActiveSessions,*)
(* invalidateGrants, one outbox message per affected consumer, commit, and *)
(* with seqMu still held one notification per affected consumer.           *)
(***************************************************************************)
BeginIssue(w, o, C) ==
  Begin(w, [kind |-> o.kind, target |-> o.target, to |-> C], "begin")

IssueBegin(w) == BeginTx(w, "begin", "lock")

IssueLock(w) == Lock(w, "lock", "seq")

IssueSeq(w) == AllocateSeq(w, "seq", "insert")

IssueInsert(w) == InsertRevocation(w, "insert", "terminate", seqMu)

\* The grants whose open sessions a revocation closes.
SessionsOf(o) ==
  {g \in Grants : /\ session[g] = "OPEN"
                  /\ \/ o.kind = "device" /\ Attr[g].device = o.target
                     \/ o.kind = "user" /\ Attr[g].user = o.target
                     \/ o.kind = "source_node" /\ Attr[g].source = o.target
                     \/ o.kind = "protected_node" /\ Attr[g].node = o.target
                     \/ o.kind = "grant" /\ g = o.target}

\* The unconsumed grants it deletes.
GrantsOf(o) ==
  {g \in Grants : /\ grant[g] = "UNUSED"
                  /\ \/ o.kind = "device" /\ Attr[g].device = o.target
                     \/ o.kind = "user" /\ Attr[g].user = o.target
                     \/ o.kind = "source_node" /\ Attr[g].source = o.target
                     \/ o.kind = "grant" /\ g = o.target
                     \/ o.kind = "policy"}

TerminateActiveSessions(w) ==
  /\ pc[w] = "terminate"
  /\ closing' = [closing EXCEPT ![w] = SessionsOf(call[w])]
  /\ Goto(w, "invalidate")
  /\ UNCHANGED <<seqMu, tables, call, alloc, deleting, daemon, maxConns>>

\* Mutant: no foreign key from active_sessions to grants.
InvalidateUnchecked(w) ==
  /\ pc[w] = "invalidate"
  /\ deleting' = [deleting EXCEPT ![w] = GrantsOf(call[w])]
  /\ Goto(w, "commit")
  /\ UNCHANGED <<seqMu, call, alloc, closing, tables, daemon, maxConns>>

\* The foreign key of active_sessions refuses to delete a grant with a session
\* row, open or closed.
InvalidateGrants(w) ==
  /\ pc[w] = "invalidate"
  /\ IF \E g \in GrantsOf(call[w]) : session[g] # "NONE"
     THEN Finish(w)
     ELSE /\ deleting' = [deleting EXCEPT ![w] = GrantsOf(call[w])]
          /\ Goto(w, "commit")
          /\ UNCHANGED <<seqMu, call, alloc, closing>>
  /\ UNCHANGED <<tables, daemon, maxConns>>

AddRevocation(w) ==
  revs' = [s \in DOMAIN revs \cup {alloc[w]} |->
             IF s = alloc[w] THEN [kind |-> call[w].kind, target |-> call[w].target]
                             ELSE revs[s]]

CommitIssue(w) ==
  /\ pc[w] = "commit"
  /\ AddRevocation(w)
  /\ session' = [g \in Grants |-> IF g \in closing[w] THEN "CLOSED" ELSE session[g]]
  /\ grant' = [g \in Grants |-> IF g \in deleting[w] THEN "DELETED" ELSE grant[g]]
  /\ outbox' = [c \in Consumers |-> IF c \in call[w].to THEN Append(outbox[c], alloc[w])
                                                        ELSE outbox[c]]
  /\ IF call[w].to = {} THEN Finish(w) ELSE EndTx(w, "notify") /\ UNCHANGED <<call, seqMu>>
  /\ UNCHANGED <<devState, daemon, maxConns>>

\* pg_notify outside the transaction, over a connection of the pool; an error is
\* ignored.  After the last one the call returns.
NotifyConsumer(w) ==
  /\ pc[w] = "notify"
  /\ ConnFree
  /\ \E c \in call[w].to :
       IF call[w].to = {c}
       THEN Finish(w)
       ELSE /\ call' = [call EXCEPT ![w].to = @ \ {c}]
            /\ UNCHANGED <<seqMu, pc, alloc, closing, deleting>>
  /\ UNCHANGED <<tables, daemon, maxConns>>

(***************************************************************************)
(* RevokeDevice: UPDATE devices, which waits for the row, then the         *)
(* sequence under seqMu, then the commit without it.  It closes no session,*)
(* deletes no grant and queues no message.                                 *)
(***************************************************************************)
BeginRevokeDevice(w, d) == Begin(w, [kind |-> "device", target |-> d, to |-> {}], "revoke_begin")

RevokeBegin(w) == BeginTx(w, "revoke_begin", "revoke")

\* An UPDATE locks the row only while the device is still ENROLLED.
DeviceRowFree(w) ==
  devState[call[w].target] = "ENROLLED" =>
    \A v \in Workers \ {w} :
      pc[v] \in {"revoke_lock", "revoke_seq", "revoke_insert", "revoke_commit"} =>
        call[v].target # call[w].target

RevokeUpdate(w) ==
  /\ pc[w] = "revoke"
  /\ DeviceRowFree(w)
  /\ Goto(w, "revoke_lock")
  /\ UNCHANGED <<seqMu, tables, call, alloc, closing, deleting, daemon, maxConns>>

RevokeLock(w) == Lock(w, "revoke_lock", "revoke_seq")

RevokeSeq(w) == AllocateSeq(w, "revoke_seq", "revoke_insert")

RevokeInsert(w) == InsertRevocation(w, "revoke_insert", "revoke_commit", None)

\* Mutant: a state the devices table does not know.
CommitRevokeAsLost(w) ==
  /\ pc[w] = "revoke_commit"
  /\ AddRevocation(w)
  /\ devState' = [devState EXCEPT ![call[w].target] = "LOST"]
  /\ Finish(w)
  /\ UNCHANGED <<grant, session, outbox, daemon, maxConns>>

CommitRevoke(w) ==
  /\ pc[w] = "revoke_commit"
  /\ AddRevocation(w)
  /\ devState' = [devState EXCEPT ![call[w].target] = "REVOKED"]
  /\ Finish(w)
  /\ UNCHANGED <<grant, session, outbox, daemon, maxConns>>

\* Context cancelled, statement failed, connection lost or process stopped.  After
\* the commit only the notifications are given up.
Rollback(w) ==
  /\ pc[w] # "idle"
  /\ Finish(w)
  /\ UNCHANGED <<tables, daemon, maxConns>>

-------------------------------------------------------------------------------
(***************************************************************************)
(* Outside the manager: consume_grant, and the daemon's rows of            *)
(* active_sessions.  A grant row that a transaction has deleted is locked; *)
(* closing a session locks the session's row and not the grant's.          *)
(***************************************************************************)
RowFree(g) == \A w \in Workers : g \notin deleting[w]

ConsumeGrant(g) ==
  /\ grant[g] = "UNUSED" /\ RowFree(g)
  /\ grant' = [grant EXCEPT ![g] = "CONSUMED"]
  /\ UNCHANGED <<seqMu, revs, devState, session, outbox, local, daemon, maxConns>>

OpenSession(g) ==
  /\ grant[g] # "DELETED" /\ session[g] = "NONE" /\ RowFree(g)
  /\ session' = [session EXCEPT ![g] = "OPEN"]
  /\ UNCHANGED <<seqMu, revs, devState, grant, outbox, local, daemon, maxConns>>

(***************************************************************************)
(* A daemon: GetRevocationsSince its cursor, CheckFreshness, and time.     *)
(***************************************************************************)
GetRevocationsSince ==
  /\ ConnFree
  /\ received' = received \cup {s \in DOMAIN revs : s > cursor}
  /\ cursor' = IF MaxSeq > cursor THEN MaxSeq ELSE cursor
  /\ aged' = FALSE
  /\ UNCHANGED <<seqMu, tables, local, latest, maxConns>>

CheckFreshness ==
  /\ ConnFree
  /\ latest' = MaxSeq
  /\ UNCHANGED <<seqMu, tables, local, cursor, received, aged, maxConns>>

TimePasses ==
  /\ ~ aged
  /\ aged' = TRUE
  /\ UNCHANGED <<seqMu, tables, local, cursor, received, latest, maxConns>>

\* Mutant: only the age of the acknowledgement counts.
FailClosedOnAge == aged

\* CheckDaemonFreshness.
MustFailClosed == aged \/ cursor < latest

-------------------------------------------------------------------------------
IssueRevocation(w) ==
  \/ IssueBegin(w)
  \/ IssueLock(w)
  \/ IssueSeq(w)
  \/ IssueInsert(w)
  \/ TerminateActiveSessions(w)
  \/ InvalidateGrants(w)
  \/ CommitIssue(w)
  \/ NotifyConsumer(w)

RevokeDevice(w) ==
  \/ RevokeBegin(w)
  \/ RevokeUpdate(w)
  \/ RevokeLock(w)
  \/ RevokeSeq(w)
  \/ RevokeInsert(w)
  \/ CommitRevoke(w)

Next ==
  \/ \E w \in Workers, o \in Orders, C \in Audiences : BeginIssue(w, o, C)
  \/ \E w \in Workers, d \in Devices : BeginRevokeDevice(w, d)
  \/ \E w \in Workers : IssueRevocation(w)
  \/ \E w \in Workers : RevokeDevice(w)
  \/ \E w \in Workers : Rollback(w)
  \/ \E g \in Grants : ConsumeGrant(g)
  \/ \E g \in Grants : OpenSession(g)
  \/ GetRevocationsSince
  \/ CheckFreshness
  \/ TimePasses

Spec == Init /\ [][Next]_vars

(***************************************************************************)
(* A call that can go on does.  sync.Mutex hands over to a waiter that has *)
(* waited long enough, the pool serves its requests in turn, and Postgres  *)
(* wakes the waiters of a transaction when it ends: strong fairness for    *)
(* the steps that wait.                                                    *)
(***************************************************************************)
Fairness ==
  \A w \in Workers :
    SF_vars(IssueRevocation(w) \/ RevokeDevice(w))

FairSpec == Spec /\ Fairness

-------------------------------------------------------------------------------
\* Neither way to a daemon leaves a hole.  GetRevocationsSince: a daemon whose
\* cursor is at n was sent every committed revocation up to n, however the calls
\* that allocated MAX(seq) + 1 interleaved; none commits below a cursor later
\* (DR-REV-2).  The outbox: committed revocations only, in the stream's order.
NothingMissed ==
  /\ \A s \in DOMAIN revs : s <= cursor => s \in received
  /\ \A c \in Consumers : \A i \in 1..Len(outbox[c]) :
       /\ outbox[c][i] \in DOMAIN revs
       /\ i > 1 => outbox[c][i - 1] < outbox[c][i]

\* A daemon that CheckDaemonFreshness lets go on has every revocation that was
\* committed when it last asked CheckFreshness (DR-REV-2, manager.go:380-381).
CurrentDaemonIsComplete == ~ MustFailClosed => 1..latest \subseteq received

\* A session row always has its grant row: what InvalidateGrants deletes races
\* neither a session being opened nor a consumption (foreign key at schema line 219).
SessionsKeepGrants ==
  /\ \A g \in Grants : session[g] # "NONE" => grant[g] # "DELETED"
  /\ \A w \in Workers : \A g \in deleting[w] : grant[g] = "UNUSED" /\ session[g] = "NONE"

\* What a step may never take back: a committed revocation keeps its number and its
\* content, a revoked device, a used or deleted grant and a closed session stay so,
\* and a daemon forgets nothing, whatever IssueRevocation, invalidateGrants or
\* RevokeDevice under way had read before it changed.
CommittedStays ==
  /\ \A s \in DOMAIN revs : s \in DOMAIN revs' /\ revs'[s] = revs[s]
  /\ \A d \in Devices : devState[d] = "REVOKED" => devState'[d] = "REVOKED"
  /\ \A g \in Grants : /\ grant[g] # "UNUSED" => grant'[g] = grant[g]
                       /\ session[g] = "CLOSED" => session'[g] = "CLOSED"
                       /\ session[g] # "NONE" => session'[g] # "NONE"
  /\ cursor <= cursor' /\ received \subseteq received'

\* Every step of every call, of consume_grant, of the sessions and of the daemon keeps
\* what is committed.
RevocationIsFinal == [][CommittedStays]_vars

\* IssueRevocation, which keeps seqMu, waits for a connection to notify with, and
\* those who hold the connections wait for seqMu or for the row of one who does.
PoolCircle ==
  /\ \E w \in Workers : pc[w] = "notify" /\ seqMu = w
  /\ ~ ConnFree
  /\ \A v \in Connected : \/ pc[v] \in {"lock", "revoke_lock"}
                          \/ pc[v] = "revoke" /\ ~ DeviceRowFree(v)

\* Every call of IssueRevocation and RevokeDevice ends, or the one circle closes that
\* the code leaves open: the deferred Unlock (manager.go:76) comes after
\* NotifyConsumer, and as many other calls as the pool has connections have begun.
\* Rows, keys, seqMu and connections are never waited for in any other circle.
OnlyPoolCircleBlocks ==
  \A w \in Workers : (pc[w] # "idle") ~> (pc[w] = "idle" \/ PoolCircle)
===============================================================================
