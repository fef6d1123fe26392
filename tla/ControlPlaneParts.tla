-------------------------- MODULE ControlPlaneParts ---------------------------
(***************************************************************************)
(* Proofs about two parts of ControlPlane one by one: what the steps of    *)
(* enrollment and keys keep, for any calls, keys and credentials.          *)
(* Policies, and the theorems about behaviours of the three parts, are in  *)
(* ControlPlaneProofs.                                                     *)
(***************************************************************************)
EXTENDS KeyManager, Enrollment, TLAPS

\* KeyManager: the signer holds the latest key of every kid, and nothing leaves the
\* allowlist.
KeyInv ==
  /\ KeyTypeOK
  /\ DOMAIN keys = {kids[n] : n \in DOMAIN kids} /\ allowedKids = DOMAIN keys
  /\ \A k \in DOMAIN keys : kids[keys[k]] = k /\ \A n \in keys[k] + 1 .. Len(kids) : kids[n] # k
  /\ activeKeys = NoSig => /\ kids = <<>> /\ retiredAt = <<>> /\ tokens = {} /\ ceremony = NoSig /\ rootSig = NoSig
                           /\ overlapKids = {} /\ \A s \in Signers : signing[s] = Idle

\* Enrollment: a transaction that goes on holds its row, which is still unused, and
\* a validated ticket is in one hand.
InTransaction(w) == client[w].pc \in {"marked", "token", "row", "inserted"}

HoldsTicket(w, t) == client[w].pc = "ticket" /\ client[w].x = t

EnrollInv ==
  /\ EnrollTypeOK
  /\ \A d \in devices : credential[d.ticket] = "used"
  /\ \A d, e \in devices : d.ticket = e.ticket => d = e
  /\ \A k \in DOMAIN BootTokens : (credential[k] = "used") <=> (\E n \in nodes : n.token = k)
  /\ \A m, n \in nodes : m.token = n.token => m = n
  /\ \A n \in nodes : n.identity = BootTokens[n.token]
  /\ \A w \in Clients :
       /\ InTransaction(w) => rowLock[client[w].x] = w /\ credential[client[w].x] = "issued"
       /\ client[w].pc = "token" => client[w].identity = BootTokens[client[w].x]
       /\ client[w].pc \in {"row", "inserted"} =>
            client[w].row.token = client[w].x /\ client[w].row.identity = BootTokens[client[w].x]
  /\ \A w \in Clients, t \in Tickets :
       HoldsTicket(w, t) => /\ credential[t] = "used"
                            /\ \A d \in devices : d.ticket # t
                            /\ \A v \in Clients : HoldsTicket(v, t) => v = w

-------------------------------------------------------------------------------
(***************************************************************************)
(* Enrollment.                                                             *)
(***************************************************************************)

\* The tables and the calls begin empty.
LEMMA EnrollBegins == EnrollInit => EnrollInv
<1> SUFFICES ASSUME EnrollInit PROVE EnrollInv
  OBVIOUS
<1>1. \A w \in Clients : client[w] = Away /\ client[w].pc = "away"
  BY DEF EnrollInit, Away
<1>2. EnrollTypeOK
  BY EnrollAssumption DEF EnrollInit, EnrollTypeOK, ClientStates
<1>3. QED
  BY <1>1, <1>2 DEF EnrollInit, EnrollInv, InTransaction, HoldsTicket, Credentials

\* What the state of a call holds.
LEMMA ClientFields ==
  ASSUME NEW s \in ClientStates
  PROVE  /\ s.pc \in {"marked", "ticket"} => s.x \in Tickets
         /\ s.pc = "token" => s.x \in DOMAIN BootTokens /\ s.identity \in Identities
         /\ s.pc \in {"row", "inserted"} => s.x \in DOMAIN BootTokens /\ s.row \in NodeRows
BY DEF ClientStates, Away

\* A step of call w at the credential x0, whose row is free or its own and which is
\* still unused, disturbs no other transaction.
LEMMA AtOneRow ==
  ASSUME EnrollInv, NEW w \in Clients, NEW x0 \in Credentials,
         NEW y \in ClientStates, NEW l \in Clients \cup {Nobody}, NEW c \in {"issued", "used"},
         rowLock[x0] \in {w, Nobody}, credential[x0] = "issued",
         client' = [client EXCEPT ![w] = y],
         rowLock' = [rowLock EXCEPT ![x0] = l],
         credential' = [credential EXCEPT ![x0] = c],
         y.pc \in {"marked", "token", "row", "inserted"} => y.x = x0 /\ l = w /\ c = "issued",
         y.pc = "token" => y.identity = BootTokens[y.x],
         y.pc \in {"row", "inserted"} => y.row.token = y.x /\ y.row.identity = BootTokens[y.x],
         y.pc = "ticket" => y.x = x0 /\ c = "used",
         \/ nodes' = nodes /\ (c = "used" => x0 \in Tickets)
         \/ /\ c = "used"
            /\ \E r \in NodeRows : /\ nodes' = nodes \cup {r}
                                   /\ r.token = x0 /\ r.identity = BootTokens[x0],
         UNCHANGED <<slot, expired, devices>>
  PROVE  EnrollInv'
<1>1. EnrollTypeOK'
  BY DEF EnrollInv, EnrollTypeOK
<1>2. \A x \in Credentials : credential'[x] = IF x = x0 THEN c ELSE credential[x]
  BY DEF EnrollInv, EnrollTypeOK
<1>3. \A x \in Credentials : rowLock'[x] = IF x = x0 THEN l ELSE rowLock[x]
  BY DEF EnrollInv, EnrollTypeOK
<1>4. client'[w] = y /\ \A v \in Clients \ {w} : client'[v] = client[v]
  BY DEF EnrollInv, EnrollTypeOK
<1>5. /\ \A d \in devices' : credential'[d.ticket] = "used"
      /\ \A d, e \in devices' : d.ticket = e.ticket => d = e
  BY <1>2 DEF EnrollInv, EnrollTypeOK, Credentials
<1>6. \A n \in nodes : n.token # x0
  <2>1. \A n \in nodes : n.token \in DOMAIN BootTokens
    BY DEF EnrollInv, EnrollTypeOK, NodeRows
  <2>2. QED
    BY <2>1 DEF EnrollInv
<1>7. /\ \A k \in DOMAIN BootTokens : (credential'[k] = "used") <=> (\E n \in nodes' : n.token = k)
      /\ \A m, n \in nodes' : m.token = n.token => m = n
      /\ \A n \in nodes' : n.identity = BootTokens[n.token]
  <2>1. CASE nodes' = nodes /\ (c = "used" => x0 \in Tickets)
    BY <1>2, <1>6, <2>1, EnrollAssumption DEF EnrollInv, Credentials
  <2>2. CASE /\ c = "used"
             /\ \E r \in NodeRows : /\ nodes' = nodes \cup {r}
                                    /\ r.token = x0 /\ r.identity = BootTokens[x0]
    BY <1>2, <1>6, <2>2 DEF EnrollInv, Credentials
  <2>3. QED
    BY <2>1, <2>2
<1>8. ASSUME NEW v \in Clients
      PROVE  /\ InTransaction(v)' => rowLock'[client'[v].x] = v /\ credential'[client'[v].x] = "issued"
             /\ client'[v].pc = "token" => client'[v].identity = BootTokens[client'[v].x]
             /\ client'[v].pc \in {"row", "inserted"} =>
                  /\ client'[v].row.token = client'[v].x
                  /\ client'[v].row.identity = BootTokens[client'[v].x]
  <2>1. CASE v = w
    BY <1>2, <1>3, <1>4, <2>1 DEF InTransaction
  <2>2. CASE v # w
    <3>1. InTransaction(v) => client[v].x \in Credentials /\ client[v].x # x0
      <4>1. InTransaction(v) => client[v].x \in Credentials
        BY ClientFields DEF EnrollInv, EnrollTypeOK, InTransaction, Credentials
      <4>2. InTransaction(v) => rowLock[client[v].x] = v
        BY DEF EnrollInv
      <4>3. QED
        BY <2>2, <4>1, <4>2, EnrollAssumption
    <3>2. QED
      BY <1>2, <1>3, <1>4, <2>2, <3>1 DEF EnrollInv, InTransaction
  <2>3. QED
    BY <2>1, <2>2
<1>9. ASSUME NEW v \in Clients, NEW t \in Tickets, HoldsTicket(v, t)'
      PROVE  /\ credential'[t] = "used"
             /\ \A d \in devices' : d.ticket # t
             /\ \A u \in Clients : HoldsTicket(u, t)' => u = v
  <2>1. t \in Credentials
    BY DEF Credentials
  <2>2. \A u \in Clients : HoldsTicket(u, x0) => FALSE
    <3>1. \A u \in Clients : HoldsTicket(u, x0) => x0 \in Tickets
      BY ClientFields DEF HoldsTicket, EnrollInv, EnrollTypeOK
    <3>2. QED
      BY <3>1 DEF EnrollInv
  <2>3. QED
    BY <1>2, <1>4, <1>9, <2>1, <2>2 DEF EnrollInv, HoldsTicket
<1>10. QED
  BY <1>1, <1>5, <1>7, <1>8, <1>9 DEF EnrollInv

\* ValidateEnrollmentTicket and RegisterNode take the row they lock.
LEMMA LockKeeps ==
  ASSUME EnrollInv, NEW w \in Clients,
         \/ \E t \in Tickets : LockTicket(w, t)
         \/ \E k \in DOMAIN BootTokens, id \in Identities : LockToken(w, k, id)
  PROVE  EnrollInv'
<1>1. ASSUME NEW t \in Tickets, LockTicket(w, t) PROVE EnrollInv'
  <2>1. PICK y : y = [pc |-> "marked", x |-> t]
    BY Zenon
  <2>2. y \in ClientStates /\ y.pc = "marked" /\ y.x = t
    BY <2>1 DEF ClientStates
  <2>3. /\ t \in Credentials /\ rowLock[t] \in {w, Nobody} /\ credential[t] = "issued"
        /\ client' = [client EXCEPT ![w] = y] /\ rowLock' = [rowLock EXCEPT ![t] = w]
        /\ credential' = [credential EXCEPT ![t] = "issued"] /\ nodes' = nodes
        /\ UNCHANGED <<slot, expired, devices>>
    BY <1>1, <2>1 DEF LockTicket, RowFree, Valid, Credentials, EnrollInv, EnrollTypeOK
  <2>4. QED
    BY <2>2, <2>3, AtOneRow, Zenon
<1>2. ASSUME NEW k \in DOMAIN BootTokens, NEW id \in Identities, LockToken(w, k, id)
      PROVE  EnrollInv'
  <2>1. PICK y : y = [pc |-> "token", x |-> k, identity |-> id]
    BY Zenon
  <2>2. y \in ClientStates /\ y.pc = "token" /\ y.x = k /\ y.identity = BootTokens[k]
    BY <1>2, <2>1 DEF ClientStates, LockToken
  <2>3. /\ k \in Credentials /\ rowLock[k] \in {w, Nobody} /\ credential[k] = "issued"
        /\ client' = [client EXCEPT ![w] = y] /\ rowLock' = [rowLock EXCEPT ![k] = w]
        /\ credential' = [credential EXCEPT ![k] = "issued"] /\ nodes' = nodes
        /\ UNCHANGED <<slot, expired, devices>>
    BY <1>2, <2>1 DEF LockToken, RowFree, Valid, Credentials, EnrollInv, EnrollTypeOK
  <2>4. QED
    BY <2>2, <2>3, AtOneRow, Zenon
<1>3. QED
  BY <1>1, <1>2

\* The credential of a transaction that goes on is its own and unused.
LEMMA OwnRow ==
  ASSUME EnrollInv, NEW w \in Clients, InTransaction(w)
  PROVE  /\ client[w].x \in Credentials
         /\ rowLock[client[w].x] = w /\ credential[client[w].x] = "issued"
         /\ credential = [credential EXCEPT ![client[w].x] = "issued"]
         /\ rowLock = [rowLock EXCEPT ![client[w].x] = w]
<1>1. client[w].x \in Credentials
  BY ClientFields DEF EnrollInv, EnrollTypeOK, InTransaction, Credentials
<1>2. rowLock[client[w].x] = w /\ credential[client[w].x] = "issued"
  BY DEF EnrollInv
<1>3. QED
  BY <1>1, <1>2 DEF EnrollInv, EnrollTypeOK

\* The steps of RegisterNode between its lock and its commit.
LEMMA RegisterKeeps ==
  ASSUME EnrollInv, NEW w \in Clients, MarkToken(w) \/ InsertNode(w)
  PROVE  EnrollInv'
<1>1. InTransaction(w)
  BY DEF MarkToken, InsertNode, InTransaction
<1>2. PICK x0 \in Credentials : x0 = client[w].x
  BY <1>1, OwnRow
<1>3. /\ rowLock[x0] \in {w, Nobody} /\ credential[x0] = "issued"
      /\ rowLock' = [rowLock EXCEPT ![x0] = w] /\ credential' = [credential EXCEPT ![x0] = "issued"]
      /\ nodes' = nodes /\ UNCHANGED <<slot, expired, devices>>
  BY <1>1, <1>2, OwnRow DEF MarkToken, InsertNode
<1>4. CASE MarkToken(w)
  <2>1. PICK r : r = [identity |-> client[w].identity, serial |-> slot, token |-> x0]
    BY Zenon
  <2>2. x0 \in DOMAIN BootTokens /\ client[w].identity \in Identities /\ client[w].identity = BootTokens[x0]
    BY <1>2, <1>4, ClientFields DEF MarkToken, EnrollInv, EnrollTypeOK
  <2>3. r \in NodeRows /\ r.token = x0 /\ r.identity = BootTokens[x0]
    BY <2>1, <2>2 DEF NodeRows, EnrollInv, EnrollTypeOK
  <2>4. PICK y : y = [pc |-> "row", x |-> x0, row |-> r]
    BY Zenon
  <2>5. y \in ClientStates /\ y.pc = "row" /\ y.x = x0 /\ y.row = r
    BY <2>2, <2>3, <2>4 DEF ClientStates
  <2>6. client' = [client EXCEPT ![w] = y]
    BY <1>2, <1>4, <2>1, <2>4 DEF MarkToken
  <2>7. QED
    BY <1>3, <2>3, <2>5, <2>6, AtOneRow, Zenon
<1>5. CASE InsertNode(w)
  <2>1. PICK r \in NodeRows : r = client[w].row
    BY <1>5, ClientFields DEF InsertNode, EnrollInv, EnrollTypeOK
  <2>2. /\ x0 \in DOMAIN BootTokens /\ r.token = x0 /\ r.identity = BootTokens[x0]
        /\ client[w] \in [pc : {"row", "inserted"}, x : DOMAIN BootTokens, row : NodeRows]
    BY <1>2, <1>5, <2>1, ClientFields DEF InsertNode, EnrollInv, EnrollTypeOK, ClientStates, Away
  <2>3. PICK y : y = [client[w] EXCEPT !.pc = "inserted"]
    BY Zenon
  <2>4. /\ y \in [pc : {"row", "inserted"}, x : DOMAIN BootTokens, row : NodeRows]
        /\ y.pc = "inserted" /\ y.x = x0 /\ y.row = r
    BY <1>2, <2>1, <2>2, <2>3
  <2>5. client' = [client EXCEPT ![w] = y]
    BY <1>5, <2>3, Zenon DEF InsertNode
  <2>6. y \in ClientStates
    BY <2>4 DEF ClientStates
  <2>7. QED
    BY <1>3, <2>2, <2>4, <2>5, <2>6, AtOneRow, Zenon
<1>6. QED
  BY <1>4, <1>5

\* A transaction ends: with the credential spent, or as if it had never been.
LEMMA TransactionEnds ==
  ASSUME EnrollInv, NEW w \in Clients,
         (\E heard \in BOOLEAN : CommitTicket(w, heard)) \/ CommitNode(w) \/ Abort(w)
  PROVE  EnrollInv'
<1>1. InTransaction(w)
  BY DEF CommitTicket, CommitNode, Abort, InTransaction
<1>2. PICK x0 \in Credentials : x0 = client[w].x
  BY <1>1, OwnRow
<1>3. /\ rowLock[x0] \in {w, Nobody} /\ credential[x0] = "issued"
      /\ credential = [credential EXCEPT ![x0] = "issued"]
      /\ rowLock' = [rowLock EXCEPT ![x0] = Nobody] /\ UNCHANGED <<slot, expired, devices>>
  BY <1>1, <1>2, OwnRow DEF CommitTicket, CommitNode, Abort
<1>4. Away \in ClientStates /\ Away.pc = "away"
  BY DEF ClientStates, Away
<1>5. ASSUME NEW heard \in BOOLEAN, CommitTicket(w, heard) PROVE EnrollInv'
  <2>1. x0 \in Tickets
    BY <1>2, <1>5, ClientFields DEF CommitTicket, EnrollInv, EnrollTypeOK
  <2>2. PICK y : y = IF heard THEN [pc |-> "ticket", x |-> x0] ELSE Away
    BY Zenon
  <2>3. y \in ClientStates /\ y.pc \in {"ticket", "away"} /\ (y.pc = "ticket" => y.x = x0)
    BY <2>1, <2>2 DEF ClientStates, Away
  <2>4. /\ client' = [client EXCEPT ![w] = y] /\ credential' = [credential EXCEPT ![x0] = "used"]
        /\ nodes' = nodes
    BY <1>2, <1>5, <2>2 DEF CommitTicket
  <2>5. QED
    BY <1>3, <2>1, <2>3, <2>4, AtOneRow, Zenon
<1>6. CASE CommitNode(w)
  <2>1. PICK r \in NodeRows : r = client[w].row
    BY <1>6, ClientFields, Zenon DEF CommitNode, EnrollInv, EnrollTypeOK
  <2>2. r.token = x0 /\ r.identity = BootTokens[x0]
    BY <1>2, <1>6, <2>1 DEF CommitNode, EnrollInv
  <2>3. /\ client' = [client EXCEPT ![w] = Away] /\ credential' = [credential EXCEPT ![x0] = "used"]
        /\ nodes' = nodes \cup {r}
    BY <1>2, <1>6, <2>1 DEF CommitNode
  <2>4. QED
    BY <1>3, <1>4, <2>2, <2>3, AtOneRow, Zenon
<1>7. CASE Abort(w)
  <2>1. /\ client' = [client EXCEPT ![w] = Away] /\ credential' = [credential EXCEPT ![x0] = "issued"]
        /\ nodes' = nodes
    BY <1>3, <1>7 DEF Abort
  <2>2. QED
    BY <1>3, <1>4, <2>1, AtOneRow, Zenon
<1>8. QED
  BY <1>5, <1>6, <1>7

\* EnrollDevice uses up the ticket in its hand, whether or not a device comes of it.
LEMMA EnrollDeviceKeeps ==
  ASSUME EnrollInv, NEW w \in Clients,
         (\E lv \in Levels : EnrollDevice(w, lv)) \/ EnrollDeviceFails(w)
  PROVE  EnrollInv'
<1>1. PICK t \in Tickets : t = client[w].x /\ HoldsTicket(w, t)
  BY ClientFields DEF EnrollDevice, EnrollDeviceFails, HoldsTicket, EnrollInv, EnrollTypeOK
<1>2. /\ client' = [client EXCEPT ![w] = Away] /\ Away \in ClientStates /\ Away.pc = "away"
      /\ UNCHANGED <<slot, credential, expired, rowLock, nodes>>
  BY DEF EnrollDevice, EnrollDeviceFails, ClientStates, Away
<1>3. PICK d : d = [ticket |-> t, by |-> w]
  BY Zenon
<1>4. d \in [ticket : Tickets, by : Clients] /\ d.ticket = t
  BY <1>3
<1>5. devices' = devices \/ devices' = devices \cup {d}
  BY <1>1, <1>3 DEF EnrollDevice, EnrollDeviceFails
<1>6. credential[t] = "used" /\ \A e \in devices : e.ticket # t
  BY <1>1, Zenon DEF EnrollInv
<1>7. EnrollTypeOK'
  BY <1>2, <1>4, <1>5, ZenonT(40) DEF EnrollInv, EnrollTypeOK
<1>8. /\ \A e \in devices' : credential'[e.ticket] = "used"
      /\ \A e, f \in devices' : e.ticket = f.ticket => e = f
  BY <1>2, <1>4, <1>5, <1>6 DEF EnrollInv
<1>9. client'[w] = Away /\ \A v \in Clients \ {w} : client'[v] = client[v]
  BY <1>2, SMTT(30) DEF EnrollInv, EnrollTypeOK
<1>10. ASSUME NEW v \in Clients, NEW u \in Tickets, HoldsTicket(v, u)'
       PROVE  /\ credential'[u] = "used"
              /\ \A e \in devices' : e.ticket # u
              /\ \A z \in Clients : HoldsTicket(z, u)' => z = v
  <2>1. v # w /\ HoldsTicket(v, u)
    BY <1>2, <1>9, <1>10 DEF HoldsTicket
  <2>2. u # t
    BY <1>1, <2>1, ZenonT(40) DEF EnrollInv
  <2>3. \A z \in Clients : HoldsTicket(z, u)' => HoldsTicket(z, u)
    BY <1>2, <1>9 DEF HoldsTicket
  <2>4. QED
    BY <1>2, <1>4, <1>5, <2>1, <2>2, <2>3 DEF EnrollInv
<1>11. ASSUME NEW v \in Clients
       PROVE  /\ InTransaction(v)' => rowLock'[client'[v].x] = v /\ credential'[client'[v].x] = "issued"
              /\ client'[v].pc = "token" => client'[v].identity = BootTokens[client'[v].x]
              /\ client'[v].pc \in {"row", "inserted"} =>
                   /\ client'[v].row.token = client'[v].x
                   /\ client'[v].row.identity = BootTokens[client'[v].x]
  BY <1>2, <1>9 DEF EnrollInv, InTransaction
<1>12. QED
  BY <1>2, <1>7, <1>8, <1>10, <1>11, ZenonT(40) DEF EnrollInv

\* A fresh credential is nobody's yet.
LEMMA IssueKeeps ==
  ASSUME EnrollInv, NEW x \in Credentials, IssueCredential(x)
  PROVE  EnrollInv'
<1>1. /\ credential[x] = "none" /\ credential' = [credential EXCEPT ![x] = "issued"]
      /\ UNCHANGED <<slot, expired, rowLock, devices, nodes, client>>
  BY DEF IssueCredential
<1>2. \A z \in Credentials : credential'[z] = IF z = x THEN "issued" ELSE credential[z]
  BY <1>1, Zenon DEF EnrollInv, EnrollTypeOK
<1>3. EnrollTypeOK'
  BY <1>1, Zenon DEF EnrollInv, EnrollTypeOK
<1>4. \A d \in devices : d.ticket \in Credentials
  BY DEF EnrollInv, EnrollTypeOK, Credentials
<1>5. \A w \in Clients : InTransaction(w) => client[w].x \in Credentials
  BY OwnRow
<1>6. QED
  BY <1>1, <1>2, <1>3, <1>4, <1>5 DEF EnrollInv, InTransaction, HoldsTicket, Credentials

\* Whatever the clients and the clock do next.
LEMMA EnrollKeeps == EnrollInv /\ [EnrollNext]_enrollVars => EnrollInv'
<1> SUFFICES ASSUME EnrollInv, [EnrollNext]_enrollVars PROVE EnrollInv'
  OBVIOUS
<1>1. ASSUME slot' \in 0..MaxSlot, expired' \subseteq Credentials,
             UNCHANGED <<credential, rowLock, devices, nodes, client>>
      PROVE  EnrollInv'
  BY <1>1, SMTT(30) DEF EnrollInv, EnrollTypeOK, InTransaction, HoldsTicket
<1>2. CASE UNCHANGED enrollVars
  BY <1>1, <1>2 DEF enrollVars, EnrollInv, EnrollTypeOK
<1>3. CASE SlotEnds
  <2>1. slot \in 0..MaxSlot /\ expired \subseteq Credentials
    BY DEF EnrollInv, EnrollTypeOK
  <2>2. slot' \in 0..MaxSlot
    BY <1>3, <2>1, EnrollAssumption, SMTT(30) DEF SlotEnds
  <2>3. QED
    BY <1>1, <1>3, <2>1, <2>2, Zenon DEF SlotEnds
<1>4. ASSUME NEW x \in Credentials, CredentialExpires(x) PROVE EnrollInv'
  BY <1>1, <1>4 DEF CredentialExpires, EnrollInv, EnrollTypeOK
<1>5. QED
  BY <1>2, <1>3, <1>4, IssueKeeps, LockKeeps, RegisterKeeps, TransactionEnds, EnrollDeviceKeeps
  DEF EnrollNext

-------------------------------------------------------------------------------
(***************************************************************************)
(* KeyManager.                                                             *)
(***************************************************************************)

\* The signer has one key under a kid, the latest: a signature that was made with that
\* one verifies.
LEMMA LatestVerifies == KeyInv => RotationStrandsNothing
<1> SUFFICES ASSUME KeyInv PROVE RotationStrandsNothing
  OBVIOUS
<1>1. ASSUME NEW t \in tokens
      PROVE  t.kid = kids[t.key] /\ (\A n \in t.key + 1 .. Len(kids) : kids[n] # t.kid)
               => VerifySignature(t.kid, t.key)
  <2>1. Len(kids) \in Nat /\ DOMAIN kids = 1..Len(kids)
    BY DEF KeyInv, KeyTypeOK
  <2>2. PICK k \in DOMAIN keys, x \in 1..Len(kids) : k = t.kid /\ x = t.key
    BY <2>1, Zenon DEF KeyInv, KeyTypeOK
  <2>3. PICK z \in 1..Len(kids) : z = keys[k]
    BY <2>1, Zenon DEF KeyInv, KeyTypeOK
  <2>4. /\ kids[z] = k /\ \A n \in z + 1 .. Len(kids) : kids[n] # k
        /\ VerifySignature(k, x) <=> (z = x)
    BY <2>3 DEF VerifySignature, KeyInv
  <2>5. ASSUME k = kids[x], \A n \in x + 1 .. Len(kids) : kids[n] # k PROVE z = x
    <3>1. z > x => z \in x + 1 .. Len(kids)
      BY <2>1
    <3>2. x > z => x \in z + 1 .. Len(kids)
      BY <2>1
    <3>3. ~ (z > x) /\ ~ (x > z)
      BY <2>4, <2>5, <3>1, <3>2
    <3>4. QED
      BY <3>3
  <2>6. QED
    BY <2>2, <2>4, <2>5
<1>2. QED
  BY <1>1, Zenon DEF RotationStrandsNothing

\* Before initCrypto there are no keys.
LEMMA KeyBegins == KeyInit => KeyInv
<1> SUFFICES ASSUME KeyInit PROVE KeyInv
  OBVIOUS
<1>1. /\ kids \in Seq(Purposes \X (0..MaxInterval)) /\ Len(kids) = 0 /\ DOMAIN kids = {}
      /\ DOMAIN keys = {} /\ keys \in [DOMAIN keys -> DOMAIN kids]
  BY DEF KeyInit
<1>2. KeyTypeOK
  BY <1>1, KeyAssumption DEF KeyInit, KeyTypeOK
<1>3. QED
  BY <1>1, <1>2 DEF KeyInit, KeyInv

\* The purposes differ, so that each has one place.
LEMMA PositionIs ==
  /\ DOMAIN AllPurposes = 1..Len(AllPurposes) /\ Len(AllPurposes) \in Nat
  /\ \A p \in Purposes : Position(p) \in DOMAIN AllPurposes /\ AllPurposes[Position(p)] = p
  /\ \A i \in DOMAIN AllPurposes : AllPurposes[i] \in Purposes /\ Position(AllPurposes[i]) = i
<1>1. DOMAIN AllPurposes = 1..Len(AllPurposes) /\ Len(AllPurposes) \in Nat
  BY KeyAssumption
<1>2. \A p \in Purposes : Position(p) \in DOMAIN AllPurposes /\ AllPurposes[Position(p)] = p
  BY DEF Position, Purposes
<1>3. \A i \in DOMAIN AllPurposes : AllPurposes[i] \in Purposes
  BY DEF Purposes
<1>4. QED
  BY <1>1, <1>2, <1>3, KeyAssumption

\* Initialize makes the first key of every purpose.
LEMMA InitializeKeeps ==
  ASSUME KeyInv, NEW cfg \in Configs, InitCrypto(cfg)
  PROVE  KeyInv'
<1>1. /\ kids' = [i \in DOMAIN AllPurposes |-> Kid(AllPurposes[i])]
      /\ keys' = [k \in {Kid(p) : p \in Purposes} |-> Position(k[1])]
      /\ activeKeys' = [p \in Purposes |-> Position(p)]
      /\ allowedKids' = {Kid(p) : p \in Purposes}
      /\ UNCHANGED <<interval, overlapKids, retiredAt, ceremony, rootSig, signing, tokens>>
      /\ kids = <<>> /\ retiredAt = <<>> /\ tokens = {} /\ ceremony = NoSig /\ rootSig = NoSig
      /\ overlapKids = {} /\ \A s \in Signers : signing[s] = Idle
  BY Zenon DEF InitCrypto, Initialize, KeyInv
<1>2. \A p \in Purposes : Kid(p) \in Purposes \X (0..MaxInterval) /\ Kid(p)[1] = p
  BY DEF Kid, KeyInv, KeyTypeOK
<1>3. /\ kids' \in Seq(Purposes \X (0..MaxInterval))
      /\ DOMAIN kids' = DOMAIN AllPurposes /\ Len(kids') = Len(AllPurposes)
      /\ \A i \in DOMAIN AllPurposes : kids'[i] = Kid(AllPurposes[i])
  <2>1. \A i \in DOMAIN AllPurposes : Kid(AllPurposes[i]) \in Purposes \X (0..MaxInterval)
    BY <1>2, PositionIs, Zenon
  <2>2. PICK n \in Nat : n = Len(AllPurposes) /\ DOMAIN AllPurposes = 1..n
    BY PositionIs, Zenon
  <2>3. kids' = [i \in 1..n |-> Kid(AllPurposes[i])]
    BY <1>1, <2>2, Zenon
  <2>4. kids' \in Seq(Purposes \X (0..MaxInterval)) /\ Len(kids') = n /\ DOMAIN kids' = 1..n
    BY <2>1, <2>2, <2>3
  <2>5. QED
    BY <1>1, <2>2, <2>4, Zenon
<1>4. /\ DOMAIN keys' = {Kid(p) : p \in Purposes}
      /\ \A p \in Purposes : keys'[Kid(p)] = Position(p)
      /\ keys' \in [DOMAIN keys' -> DOMAIN kids']
  BY <1>1, <1>2, <1>3, PositionIs
<1>5. activeKeys' \in [Purposes -> DOMAIN kids'] /\ activeKeys' # NoSig
  <2>1. activeKeys' \in [Purposes -> DOMAIN kids']
    BY <1>1, <1>3, PositionIs, Zenon
  <2>2. activeKeys' \in [Purposes -> Nat]
    BY <1>1, PositionIs
  <2>3. QED
    BY <2>1, <2>2, KeyAssumption, Zenon
<1>6. KeyTypeOK'
  <2>1. interval' \in 0..MaxInterval /\ Len(kids') <= MaxKeys
    BY <1>1, <1>3, KeyAssumption, Zenon DEF KeyInv, KeyTypeOK
  <2>2. signing' \in [Signers -> {Idle} \cup [pc : {"header"}, purpose : Purposes, kid : DOMAIN keys']]
    BY <1>1, Zenon DEF KeyInv, KeyTypeOK
  <2>3. DOMAIN <<>> = {} /\ <<>> \in [DOMAIN <<>> -> 0..MaxInterval]
    OBVIOUS
  <2>4. retiredAt' = <<>>
    BY <1>1, Zenon
  <2>5. DOMAIN retiredAt' \subseteq DOMAIN kids' /\ retiredAt' \in [DOMAIN retiredAt' -> 0..MaxInterval]
    BY <2>3, <2>4, Zenon
  <2>6. QED
    BY <1>1, <1>3, <1>4, <1>5, <2>1, <2>2, <2>5, Zenon DEF KeyTypeOK
<1>7. DOMAIN keys' = {kids'[n] : n \in DOMAIN kids'}
  BY <1>3, <1>4, PositionIs
<1>8. ASSUME NEW k \in DOMAIN keys'
      PROVE  kids'[keys'[k]] = k /\ \A n \in keys'[k] + 1 .. Len(kids') : kids'[n] # k
  <2>1. PICK p \in Purposes : k = Kid(p) /\ keys'[k] = Position(p)
    BY <1>4
  <2>2. ASSUME NEW n \in keys'[k] + 1 .. Len(kids') PROVE kids'[n] # k
    <3>1. n \in DOMAIN AllPurposes /\ n # Position(p)
      BY <1>3, <2>1, PositionIs, SMTT(30)
    <3>2. AllPurposes[n] \in Purposes /\ AllPurposes[n] # p
      BY <3>1, PositionIs
    <3>3. QED
      BY <1>2, <1>3, <2>1, <3>1, <3>2, SMTT(30)
  <2>3. QED
    BY <1>3, <2>1, <2>2, PositionIs
<1>9. QED
  BY <1>1, <1>4, <1>5, <1>6, <1>7, <1>8, Zenon DEF KeyInv

\* What a key set that is there looks like, and where ActiveKid leads.
LEMMA ActiveIs ==
  ASSUME KeyInv, activeKeys # NoSig, NEW p \in Purposes
  PROVE  /\ activeKeys \in [Purposes -> DOMAIN kids] /\ ActiveKid(p) = kids[activeKeys[p]]
         /\ ActiveKid(p) \in DOMAIN keys /\ keys[ActiveKid(p)] \in DOMAIN kids
<1>1. activeKeys \in [Purposes -> DOMAIN kids]
  BY DEF KeyInv, KeyTypeOK
<1>2. activeKeys[p] \in DOMAIN kids
  BY <1>1, Zenon
<1>3. ActiveKid(p) \in DOMAIN keys
  BY <1>2, Zenon DEF KeyInv, ActiveKid
<1>4. QED
  BY <1>1, <1>3 DEF KeyInv, KeyTypeOK, ActiveKid

\* RotateKey leaves every earlier key in place, under its kid or, if the new one has
\* the same kid, behind it.
LEMMA RotateKeeps ==
  ASSUME KeyInv, NEW p \in Purposes, RotateKey(p)
  PROVE  KeyInv'
<1>1. PICK N \in Nat : N = Len(kids) /\ N < MaxKeys /\ DOMAIN kids = 1..N
  <2>1. Len(kids) \in Nat /\ DOMAIN kids = 1..Len(kids)
    BY DEF KeyInv, KeyTypeOK
  <2>2. Len(kids) < MaxKeys
    BY DEF RotateKey, GenerateKey
  <2>3. QED
    BY <2>1, <2>2, Zenon
<1>2. PICK k \in Purposes \X (0..MaxInterval) : k = Kid(p)
  BY Zenon DEF Kid, KeyInv, KeyTypeOK
<1>3. /\ kids' = Append(kids, k)
      /\ keys' = [z \in DOMAIN keys \cup {k} |-> IF z = k THEN N + 1 ELSE keys[z]]
      /\ overlapKids' = overlapKids \cup {ActiveKid(p)}
      /\ Retire(activeKeys[p])
      /\ activeKeys' = [activeKeys EXCEPT ![p] = Len(kids')]
      /\ allowedKids' = allowedKids \cup {k} /\ activeKeys # NoSig
      /\ UNCHANGED <<interval, ceremony, rootSig, signing, tokens>>
  BY <1>1, <1>2, Zenon DEF RotateKey, GenerateKey
<1>4. /\ kids' \in Seq(Purposes \X (0..MaxInterval)) /\ Len(kids') = N + 1
      /\ DOMAIN kids' = 1..N + 1 /\ kids'[N + 1] = k /\ \A n \in 1..N : kids'[n] = kids[n]
  BY <1>1, <1>3 DEF KeyInv, KeyTypeOK
<1>5. /\ DOMAIN keys' = DOMAIN keys \cup {k} /\ keys'[k] = N + 1
      /\ \A z \in DOMAIN keys \ {k} : keys'[z] = keys[z]
      /\ keys' \in [DOMAIN keys' -> DOMAIN kids']
  <2>1. \A z \in DOMAIN keys : keys[z] \in 1..N
    BY <1>1, Zenon DEF KeyInv, KeyTypeOK
  <2>2. N + 1 \in 1..N + 1 /\ \A n \in 1..N : n \in 1..N + 1
    BY <1>1
  <2>3. QED
    BY <1>3, <1>4, <2>1, <2>2
<1>6. \A f \in [Purposes -> DOMAIN kids] : f \in [Purposes -> DOMAIN kids']
  BY <1>1, <1>4
<1>7. activeKeys' \in [Purposes -> DOMAIN kids'] /\ activeKeys' # NoSig
  <2>1. activeKeys \in [Purposes -> DOMAIN kids']
    BY <1>3, <1>6, ActiveIs, ZenonT(30)
  <2>2. activeKeys' \in [Purposes -> DOMAIN kids']
    <3>1. Len(kids') \in DOMAIN kids'
      BY <1>1, <1>4
    <3>2. \A S, T : \A f \in [S -> T], x \in S, y \in T : [f EXCEPT ![x] = y] \in [S -> T]
      BY Zenon
    <3>3. QED
      BY <1>3, <2>1, <3>1, <3>2, Zenon
  <2>3. activeKeys' \in [Purposes -> Nat]
    BY <1>1, <1>4, <2>2
  <2>4. QED
    BY <2>2, <2>3, KeyAssumption, Zenon
<1>8. KeyTypeOK'
  <2>1. interval' \in 0..MaxInterval /\ Len(kids') <= MaxKeys
    BY <1>1, <1>3, <1>4, KeyAssumption, SMTT(30) DEF KeyInv, KeyTypeOK
  <2>2. {activeKeys', ceremony', rootSig'} \subseteq {NoSig} \cup [Purposes -> DOMAIN kids']
    <3>1. {ceremony, rootSig} \subseteq {NoSig} \cup [Purposes -> DOMAIN kids]
      BY Zenon DEF KeyInv, KeyTypeOK
    <3>2. {ceremony, rootSig} \subseteq {NoSig} \cup [Purposes -> DOMAIN kids']
      BY <1>6, <3>1, Zenon
    <3>3. QED
      BY <1>3, <1>7, <3>2
  <2>3. overlapKids' \subseteq allowedKids' /\ allowedKids' \subseteq DOMAIN keys'
    <3>1. overlapKids \subseteq allowedKids /\ allowedKids = DOMAIN keys
      BY Zenon DEF KeyInv, KeyTypeOK
    <3>2. ActiveKid(p) \in DOMAIN keys
      BY <1>3, ActiveIs, Zenon
    <3>3. QED
      BY <1>3, <1>5, <3>1, <3>2
  <2>4. signing' \in [Signers -> {Idle} \cup [pc : {"header"}, purpose : Purposes, kid : DOMAIN keys']]
    BY <1>3, <1>5, Zenon DEF KeyInv, KeyTypeOK
  <2>5. tokens' \subseteq [purpose : Purposes, kid : DOMAIN keys', key : DOMAIN kids']
    BY <1>1, <1>3, <1>4, <1>5, SMTT(30) DEF KeyInv, KeyTypeOK
  <2>6. /\ DOMAIN retiredAt' \subseteq DOMAIN kids'
        /\ retiredAt' \in [DOMAIN retiredAt' -> 0..MaxInterval]
    <3>1. DOMAIN retiredAt \subseteq 1..N /\ retiredAt \in [DOMAIN retiredAt -> 0..MaxInterval]
      BY <1>1, Zenon DEF KeyInv, KeyTypeOK
    <3>2. PICK a \in 1..N : a = activeKeys[p]
      BY <1>1, <1>3, ActiveIs, Zenon
    <3>3. retiredAt' = [m \in DOMAIN retiredAt \cup {a} |-> IF m = a THEN interval ELSE retiredAt[m]]
      BY <1>3, <3>2, Zenon DEF Retire
    <3>4. interval \in 0..MaxInterval
      BY Zenon DEF KeyInv, KeyTypeOK
    <3>5. \A n \in 1..N : n \in 1..N + 1
      BY <1>1
    <3>6. QED
      BY <1>4, <3>1, <3>2, <3>3, <3>4, <3>5
  <2>7. QED
    BY <1>4, <1>5, <2>1, <2>2, <2>3, <2>4, <2>5, <2>6, Zenon DEF KeyTypeOK
<1>9. DOMAIN keys' = {kids'[n] : n \in DOMAIN kids'} /\ allowedKids' = DOMAIN keys'
  <2>1. \A z \in DOMAIN keys' : \E n \in 1..N + 1 : kids'[n] = z
    <3>1. N + 1 \in 1..N + 1 /\ \A n \in 1..N : n \in 1..N + 1
      BY <1>1
    <3>2. \A z \in DOMAIN keys : \E n \in 1..N : kids[n] = z
      BY <1>1 DEF KeyInv
    <3>3. QED
      BY <1>4, <1>5, <3>1, <3>2
  <2>2. \A n \in 1..N + 1 : kids'[n] \in DOMAIN keys'
    <3>1. \A n \in 1..N : kids[n] \in DOMAIN keys
      BY <1>1 DEF KeyInv
    <3>2. \A n \in 1..N + 1 : n \in 1..N \/ n = N + 1
      BY <1>1
    <3>3. QED
      BY <1>4, <1>5, <3>1, <3>2
  <2>3. allowedKids' = DOMAIN keys'
    BY <1>3, <1>5, Zenon DEF KeyInv
  <2>4. QED
    BY <1>4, <2>1, <2>2, <2>3, Zenon
<1>10. ASSUME NEW z \in DOMAIN keys'
       PROVE  kids'[keys'[z]] = z /\ \A n \in keys'[z] + 1 .. Len(kids') : kids'[n] # z
  <2>1. CASE z = k
    <3>1. \A n \in N + 1 + 1 .. N + 1 : FALSE
      BY <1>1
    <3>2. QED
      BY <1>4, <1>5, <2>1, <3>1
  <2>2. CASE z # k
    <3>1. z \in DOMAIN keys /\ keys'[z] = keys[z] /\ keys[z] \in 1..N
      BY <1>1, <1>5, <2>2, Zenon DEF KeyInv, KeyTypeOK
    <3>2. kids[keys[z]] = z /\ \A n \in keys[z] + 1 .. N : kids[n] # z
      BY <1>1, <3>1 DEF KeyInv
    <3>3. \A n \in keys[z] + 1 .. N + 1 : n = N + 1 \/ (n \in keys[z] + 1 .. N /\ n \in 1..N)
      BY <1>1, <3>1
    <3>4. QED
      BY <1>4, <2>2, <3>1, <3>2, <3>3, Zenon
  <2>3. QED
    BY <2>1, <2>2
<1>11. QED
  BY <1>7, <1>8, <1>9, <1>10, Zenon DEF KeyInv

\* The adapters sign with a key the signer holds, under a kid it knows.
LEMMA SignKeeps ==
  ASSUME KeyInv,
         \/ \E s \in Signers, p \in Purposes : SignHeader(s, p)
         \/ \E s \in Signers : SignBody(s)
         \/ \E p \in Purposes : SignAtOnce(p)
  PROVE  KeyInv'
<1> DEFINE Headers == {Idle} \cup [pc : {"header"}, purpose : Purposes, kid : DOMAIN keys]
           Tokens == [purpose : Purposes, kid : DOMAIN keys, key : DOMAIN kids]
<1>1. ASSUME signing' \in [Signers -> Headers], tokens' \subseteq Tokens, activeKeys # NoSig,
             UNCHANGED <<interval, kids, keys, activeKeys, allowedKids, overlapKids, retiredAt, ceremony, rootSig>>
      PROVE  KeyInv'
  BY <1>1, SMTT(30) DEF KeyInv, KeyTypeOK
<1>2. signing \in [Signers -> Headers] /\ tokens \subseteq Tokens
  BY Zenon DEF KeyInv, KeyTypeOK
<1>3. ASSUME activeKeys # NoSig, NEW p \in Purposes, NEW k \in DOMAIN keys, SignWithPurpose(p, k)
      PROVE  tokens' \subseteq Tokens
  <2>1. keys[ActiveKid(p)] \in DOMAIN kids
    BY <1>3, ActiveIs, Zenon
  <2>2. [purpose |-> p, kid |-> k, key |-> keys[ActiveKid(p)]] \in Tokens
    BY <2>1, Zenon
  <2>3. QED
    BY <1>2, <1>3, <2>2, Zenon DEF SignWithPurpose
<1>4. ASSUME NEW s \in Signers, NEW p \in Purposes, SignHeader(s, p) PROVE KeyInv'
  <2>1. activeKeys # NoSig /\ ActiveKid(p) \in DOMAIN keys
    BY <1>4, ActiveIs, Zenon DEF SignHeader
  <2>2. [pc |-> "header", purpose |-> p, kid |-> ActiveKid(p)] \in Headers
    BY <2>1, Zenon
  <2>3. signing' \in [Signers -> Headers]
    BY <1>2, <1>4, <2>2, Zenon DEF SignHeader
  <2>4. QED
    BY <1>1, <1>2, <1>4, <2>1, <2>3, Zenon DEF SignHeader
<1>5. ASSUME NEW s \in Signers, SignBody(s) PROVE KeyInv'
  <2>1. signing[s].purpose \in Purposes /\ signing[s].kid \in DOMAIN keys /\ activeKeys # NoSig
    BY <1>2, <1>5, Zenon DEF SignBody, SignWithPurpose
  <2>2. tokens' \subseteq Tokens
    BY <1>3, <1>5, <2>1, Zenon DEF SignBody
  <2>3. signing' \in [Signers -> Headers]
    BY <1>2, <1>5 DEF SignBody
  <2>4. QED
    BY <1>1, <1>5, <2>1, <2>2, <2>3, Zenon DEF SignBody
<1>6. ASSUME NEW p \in Purposes, SignAtOnce(p) PROVE KeyInv'
  <2>1. activeKeys # NoSig /\ ActiveKid(p) \in DOMAIN keys
    BY <1>6, ActiveIs, Zenon DEF SignAtOnce
  <2>2. tokens' \subseteq Tokens
    BY <1>3, <1>6, <2>1 DEF SignAtOnce
  <2>3. QED
    BY <1>1, <1>2, <1>6, <2>1, <2>2, Zenon DEF SignAtOnce
<1>7. QED
  BY <1>4, <1>5, <1>6, Zenon

\* Whatever the service, the root ceremony and the clock do next.
LEMMA KeyKeeps == KeyInv /\ [KeyNext]_keyVars => KeyInv'
<1> SUFFICES ASSUME KeyInv, [KeyNext]_keyVars PROVE KeyInv'
  OBVIOUS
<1>1. ASSUME interval' \in 0..MaxInterval,
             UNCHANGED <<kids, keys, activeKeys, allowedKids, overlapKids, retiredAt, ceremony, rootSig,
                         signing, tokens>>
      PROVE  KeyInv'
  <2>1. KeyTypeOK'
    BY <1>1, Zenon DEF KeyInv, KeyTypeOK
  <2>2. QED
    BY <1>1, <2>1 DEF KeyInv
<1>2. CASE UNCHANGED keyVars
  BY <1>1, <1>2 DEF keyVars, KeyInv, KeyTypeOK
<1>3. CASE IntervalEnds
  <2>1. interval \in 0..MaxInterval
    BY DEF KeyInv, KeyTypeOK
  <2>2. interval' \in 0..MaxInterval
    BY <1>3, <2>1, KeyAssumption DEF IntervalEnds
  <2>3. QED
    BY <1>1, <1>3, <2>2 DEF IntervalEnds
<1>4. CASE SignKeySet
  <2>1. /\ interval' = interval /\ kids' = kids /\ keys' = keys /\ activeKeys' = activeKeys
        /\ allowedKids' = allowedKids /\ overlapKids' = overlapKids /\ retiredAt' = retiredAt
        /\ signing' = signing /\ tokens' = tokens /\ activeKeys # NoSig
        /\ ceremony' = activeKeys /\ rootSig' = rootSig
    BY <1>4 DEF SignKeySet
  <2>2. KeyTypeOK
    BY Zenon DEF KeyInv
  <2>3. {activeKeys', ceremony', rootSig'} \subseteq {NoSig} \cup [Purposes -> DOMAIN kids]
    BY <2>1, <2>2, Zenon DEF KeyTypeOK
  <2>4. KeyTypeOK'
    BY <2>1, <2>2, <2>3 DEF KeyTypeOK
  <2>5. QED
    BY <2>1, <2>4 DEF KeyInv
<1>5. CASE SetRootSignature
  <2>1. /\ interval' = interval /\ kids' = kids /\ keys' = keys /\ activeKeys' = activeKeys
        /\ allowedKids' = allowedKids /\ overlapKids' = overlapKids /\ retiredAt' = retiredAt
        /\ signing' = signing /\ tokens' = tokens /\ activeKeys # NoSig
        /\ rootSig' = activeKeys /\ ceremony' = ceremony
    BY <1>5 DEF SetRootSignature
  <2>2. KeyTypeOK
    BY Zenon DEF KeyInv
  <2>3. {activeKeys', ceremony', rootSig'} \subseteq {NoSig} \cup [Purposes -> DOMAIN kids]
    BY <2>1, <2>2, Zenon DEF KeyTypeOK
  <2>4. KeyTypeOK'
    BY <2>1, <2>2, <2>3 DEF KeyTypeOK
  <2>5. QED
    BY <2>1, <2>4 DEF KeyInv
<1>6. CASE RetireOverlapKeys
  <2>1. overlapKids' = overlapKids /\ allowedKids' = allowedKids
    BY <1>6 DEF RetireOverlapKeys, WindowOver
  <2>2. QED
    BY <1>1, <1>6, <2>1, Zenon DEF RetireOverlapKeys, KeyInv, KeyTypeOK
<1>7. QED
  BY <1>2, <1>3, <1>4, <1>5, <1>6, InitializeKeeps, RotateKeeps, SignKeeps, Zenon DEF KeyNext

===============================================================================
