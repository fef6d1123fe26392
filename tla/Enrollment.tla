----------------------------- MODULE Enrollment -----------------------------
(***************************************************************************)
(* One-time credentials of one tenant (service/internal/enrollment/        *)
(* oidc.go): enrollment tickets, with which a device enrolls, and          *)
(* bootstrap tokens, with which a protected node registers.                *)
(*                                                                         *)
(* ValidateEnrollmentTicket and RegisterNode are transactions that hold    *)
(* the credential's row (FOR UPDATE) until they end.  A commit may land    *)
(* and its answer be lost: the caller then sees an error.  EnrollDevice is *)
(* a statement of its own after the ticket was consumed.                   *)
(*                                                                         *)
(* A node's cert_serial is made of the first 12 characters of a UUIDv7,    *)
(* the upper 44 of its 48 bits of milliseconds; the clock counts these     *)
(* intervals of 16 ms.  The tables enrollment_tickets and bootstrap_tokens *)
(* are not in the migrations and are modelled as the queries use them.     *)
(***************************************************************************)
EXTENDS Naturals, FiniteSets

CONSTANTS
  Clients,       \* calls in flight
  Tickets,       \* enrollment tickets
  Levels,        \* security levels of the devices that enroll
  BootTokens,    \* bootstrap token -> the node identity it is issued for
  Nobody,        \* no holder of a row lock
  MaxSlot        \* bound on the clock

Credentials == Tickets \cup DOMAIN BootTokens

Identities == {BootTokens[k] : k \in DOMAIN BootTokens}

\* Tickets and tokens are rows of two tables.
ASSUME EnrollAssumption ==
  /\ Tickets \cap DOMAIN BootTokens = {}
  /\ Nobody \notin Clients
  /\ MaxSlot \in Nat

VARIABLES
  slot,          \* the clock, in intervals of 16 ms
  credential,    \* ticket or token -> none, issued, used
  expired,       \* the credentials whose expires_at has passed
  rowLock,       \* ticket or token -> the transaction that holds the row
  devices,       \* rows of devices: [ticket, by]
  nodes,         \* rows of nodes: [identity, serial, token]
  client         \* client -> the call in progress

enrollVars == <<slot, credential, expired, rowLock, devices, nodes, client>>

Away == [pc |-> "away"]

NodeRows == [identity : Identities, serial : 0..MaxSlot, token : DOMAIN BootTokens]

\* Where a call may be: at its ticket, or at its token with the row it makes.
ClientStates ==
  {Away}
    \cup
  [pc : {"marked", "ticket"}, x : Tickets]
    \cup
  [pc : {"token"}, x : DOMAIN BootTokens, identity : Identities]
    \cup
  [pc : {"row", "inserted"}, x : DOMAIN BootTokens, row : NodeRows]

EnrollInit ==
  /\ slot = 0
  /\ credential = [x \in Credentials |-> "none"]
  /\ expired = {}
  /\ rowLock = [x \in Credentials |-> Nobody]
  /\ devices = {}
  /\ nodes = {}
  /\ client = [w \in Clients |-> Away]

SlotEnds ==
  /\ slot < MaxSlot
  /\ slot' = slot + 1
  /\ UNCHANGED <<credential, expired, rowLock, devices, nodes, client>>

\* IssueEnrollmentTicket and IssueNodeBootstrap: the INSERT of a fresh credential.
IssueCredential(x) ==
  /\ credential[x] = "none"
  /\ credential' = [credential EXCEPT ![x] = "issued"]
  /\ UNCHANGED <<slot, expired, rowLock, devices, nodes, client>>

CredentialExpires(x) ==
  /\ credential[x] = "issued" /\ x \notin expired
  /\ expired' = expired \cup {x}
  /\ UNCHANGED <<slot, credential, rowLock, devices, nodes, client>>

-------------------------------------------------------------------------------
(***************************************************************************)
(* The transactions.                                                       *)
(***************************************************************************)

\* Mutant: the SELECT does not lock the row.
RowReadable(x) == TRUE

\* FOR UPDATE waits for the transaction that holds the row.
RowFree(x) == rowLock[x] = Nobody

\* used and expires_at as the locked row has them.
Valid(x) == credential[x] = "issued" /\ x \notin expired

\* ValidateEnrollmentTicket up to its UPDATE; a ticket that is not valid is
\* refused and nothing changes.
LockTicket(w, t) ==
  /\ client[w] = Away
  /\ RowFree(t) /\ Valid(t)
  /\ rowLock' = [rowLock EXCEPT ![t] = w]
  /\ client' = [client EXCEPT ![w] = [pc |-> "marked", x |-> t]]
  /\ UNCHANGED <<slot, credential, expired, devices, nodes>>

\* The commit: the caller gets the ticket, or an error if the answer is lost.
CommitTicket(w, heard) ==
  /\ client[w].pc = "marked"
  /\ LET t == client[w].x
     IN  /\ credential' = [credential EXCEPT ![t] = "used"]
         /\ rowLock' = [rowLock EXCEPT ![t] = Nobody]
         /\ client' = [client EXCEPT ![w] = IF heard THEN [pc |-> "ticket", x |-> t] ELSE Away]
  /\ UNCHANGED <<slot, expired, devices, nodes>>

\* verifyAttestation and the check of the level it repeats.
SecurityLevelOK(level) == level \in {"STRONGBOX", "TEE"}

\* EnrollDevice with the ticket that was validated.
EnrollDevice(w, level) ==
  /\ client[w].pc = "ticket"
  /\ devices' = IF SecurityLevelOK(level) THEN devices \cup {[ticket |-> client[w].x, by |-> w]} ELSE devices
  /\ client' = [client EXCEPT ![w] = Away]
  /\ UNCHANGED <<slot, credential, expired, rowLock, nodes>>

\* The INSERT fails: the ticket is spent and there is no device.
EnrollDeviceFails(w) ==
  /\ client[w].pc = "ticket"
  /\ client' = [client EXCEPT ![w] = Away]
  /\ UNCHANGED <<slot, credential, expired, rowLock, devices, nodes>>

\* RegisterNode up to its first UPDATE.  The identity is that of the node that
\* calls; with another node's token it is refused.
LockToken(w, k, identity) ==
  /\ client[w] = Away
  /\ RowFree(k) /\ Valid(k)
  /\ BootTokens[k] = identity
  /\ rowLock' = [rowLock EXCEPT ![k] = w]
  /\ client' = [client EXCEPT ![w] = [pc |-> "token", x |-> k, identity |-> identity]]
  /\ UNCHANGED <<slot, credential, expired, devices, nodes>>

\* The UPDATE of the token and the row of the node, whose id is made now.
MarkToken(w) ==
  /\ client[w].pc = "token"
  /\ client' = [client EXCEPT ![w] =
                  [pc |-> "row", x |-> client[w].x,
                   row |-> [identity |-> client[w].identity, serial |-> slot, token |-> client[w].x]]]
  /\ UNCHANGED <<slot, credential, expired, rowLock, devices, nodes>>

\* UNIQUE (tenant_id, ts_stable_node_id) and UNIQUE (tenant_id, cert_serial).
Clash(r, s) == r.identity = s.identity \/ r.serial = s.serial

\* The INSERT waits for a transaction that has inserted a row it clashes with;
\* a clash with a committed row is an error (see Abort).
InsertNode(w) ==
  /\ client[w].pc = "row"
  /\ \A v \in Clients : client[v].pc = "inserted" => ~ Clash(client[v].row, client[w].row)
  /\ \A n \in nodes : ~ Clash(n, client[w].row)
  /\ client' = [client EXCEPT ![w].pc = "inserted"]
  /\ UNCHANGED <<slot, credential, expired, rowLock, devices, nodes>>

\* The commit, whether or not the caller hears of it.
CommitNode(w) ==
  /\ client[w].pc = "inserted"
  /\ credential' = [credential EXCEPT ![client[w].x] = "used"]
  /\ nodes' = nodes \cup {client[w].row}
  /\ rowLock' = [rowLock EXCEPT ![client[w].x] = Nobody]
  /\ client' = [client EXCEPT ![w] = Away]
  /\ UNCHANGED <<slot, expired, devices>>

\* A statement or the commit fails, a clash included: everything is rolled back.
Abort(w) ==
  /\ client[w].pc \in {"marked", "token", "row", "inserted"}
  /\ rowLock' = [rowLock EXCEPT ![client[w].x] = Nobody]
  /\ client' = [client EXCEPT ![w] = Away]
  /\ UNCHANGED <<slot, credential, expired, devices, nodes>>

EnrollNext ==
  \/ SlotEnds
  \/ \E x \in Credentials : IssueCredential(x)
  \/ \E x \in Credentials : CredentialExpires(x)
  \/ \E w \in Clients, t \in Tickets : LockTicket(w, t)
  \/ \E w \in Clients, heard \in BOOLEAN : CommitTicket(w, heard)
  \/ \E w \in Clients, level \in Levels : EnrollDevice(w, level)
  \/ \E w \in Clients : EnrollDeviceFails(w)
  \/ \E w \in Clients, k \in DOMAIN BootTokens, id \in Identities : LockToken(w, k, id)
  \/ \E w \in Clients : MarkToken(w)
  \/ \E w \in Clients : InsertNode(w)
  \/ \E w \in Clients : CommitNode(w)
  \/ \E w \in Clients : Abort(w)

-------------------------------------------------------------------------------
EnrollTypeOK ==
  /\ slot \in 0..MaxSlot
  /\ credential \in [Credentials -> {"none", "issued", "used"}]
  /\ expired \subseteq Credentials
  /\ rowLock \in [Credentials -> Clients \cup {Nobody}]
  /\ devices \subseteq [ticket : Tickets, by : Clients]
  /\ nodes \subseteq NodeRows
  /\ client \in [Clients -> ClientStates]

\* Credentials are good once, however many clients present one at a time and
\* whatever commits go unheard.  A ticket enrolls at most one device, and is
\* spent for good before the device exists (DR-AUTH-2).  A bootstrap token is
\* used exactly when one node was registered with it, of the identity it was
\* issued for: a RegisterNode that aborts or clashes never burns it (DR-AUTH-4).
CredentialsUsedOnce ==
  /\ \A d \in devices : credential[d.ticket] = "used"
  /\ \A d, e \in devices : d.ticket = e.ticket => d = e
  /\ \A k \in DOMAIN BootTokens :
       LET registered == {n \in nodes : n.token = k}
       IN  /\ credential[k] = "used" <=> registered # {}
           /\ Cardinality(registered) <= 1
           /\ \A n \in registered : n.identity = BootTokens[k]

===============================================================================
