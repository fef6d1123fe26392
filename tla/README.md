# Verification of tsauth

TLA+ models of tsauth, the step-up authorisation service, its daemon and its client
library: the parts in which concurrent calls, crashes, lost answers and
redeliveries meet. TLC checks them on small instances; TLAPS proves the safety
properties of every part for every instance.

    tlc -config MCApprovalEngine.cfg MCApprovalEngine
    tlapm ApprovalEngineProofs.tla

`PROJECT.json` maps every definition to the source lines it models, and lists the
components, the runs, the mutants each property must catch, the findings, the
hazards and the theorems.

## Inventory

| part | modules | operations | what makes it hard |
|---|---|---|---|
| Approval engine (`service/internal/enforcement`) | ApprovalEngine, ApprovalLifecycle, ApprovalEngineProofs | create, approve or deny, cancel, mint, consume | concurrent decisions on one request, retries, row locks, a second connection taken inside a transaction |
| Grant cache (`daemon/internal/grants`) | GrantCache, SingleUseGrants | store, check, consume, purge, load | crash between any two writes, redelivery, lost answer of the service |
| Revocation manager (`service/internal/revocation`) | RevocationManager | issue, notify, revoke device, read the stream, freshness | sequence allocation and commit order, foreign keys, a mutex held past the commit and a pool both kinds of callers wait for |
| Outbox and delivery (`service/internal/messaging`) | Outbox, OrderedDelivery | write in a transaction, lease, fetch, acknowledge | two processes writing, takeover of a lease, order of acknowledgements |
| Audit chain (`service/internal/audit`, `insert_audit_event`) | AuditChain | insert, checkpoint | two writers of the sequence, one of them without the lock |
| Policy engine (`service/internal/policy`) | PolicyEngine | publish, evaluate, check coverage | two publications and an evaluation in no transaction; precedence and ties |
| Key manager (`service/internal/crypto`) | KeyManager | initialise, sign, rotate, retire, root ceremony | rotation between the two steps of a signature, key ids made from the clock |
| Enrollment (`service/internal/enrollment`) | Enrollment | issue, redeem, enroll, register | one-time credentials, two redemptions at once, a commit whose answer is lost |
| Roles (`service/internal/auth`) | Rbac | check, assign, remove, separation of duties | a cache refilled with what was read before a removal |
| TCP proxy and session registry (`daemon/internal/tcpproxy`) | TcpProxy, SessionRegistry | accept, hold, approve, splice, stop; register, terminate | bound tested and counted in two steps, Stop racing handlers, a copy that a closed connection does not end, two maps of one set of sessions |
| SSH enforcer (`daemon/internal/ssh`) | SshAuthorizer | PAM, AuthorizedKeysCommand, tailssh, terminate | two processes and a socket, either of which may go at any time |
| Interstitial handler and SDK (`daemon/internal/interstitial`, `sdk/go`) | Interstitial | challenge, poll, mark, redeem, retry | expiry racing approval and redemption, status read after the unlock |
| Firewall (`daemon/internal/firewall`) | FirewallManager | install, remove | partial installation, exits without deferred calls, filters that outlive the process and are not the rules they were made from |

Not modelled: the rate limiter, COSE and envelopes, the Android approver, entry points,
metrics, protocol definitions (see the end). The proofs about module M are in MProofs, those
of the parts of a sum in the sum's: ControlPlaneProofs (which takes the
lemmas about keys and enrollment from ControlPlaneParts) and AccessPathsProofs.

How they interact: the engine and the revocation manager write audit events and
outbox messages in their own transactions (Outbox and AuditChain have these writers
as their own); the delivery stream takes the messages to the daemons; the daemon's
cache stores the grants, consumes them with the engine's `ConsumeGrant`
(`ConsumeRemote` of GrantCache) and reads the revocation stream (the daemon of
RevocationManager). The SDK client and the interstitial handler are one module,
because each answers the other; so are the SSH helpers with the authorizer, and
the firewall with the `main` that calls it.

The others do not call each other and share no table, map or lock. They are composed
as a sum: **ControlPlane** (policy, keys, enrollment) and
**AccessPaths** (roles, proxy, registry, SSH, HTTP, firewall) have a variable
`part`, chosen in `Init`, and only that part moves. A safety property that reads one
part's variables holds of every interleaving of the parts if it holds of that part
alone, so the sum loses nothing and saves the product of the state spaces.

## Modules

- **ApprovalEngine**: a worker is one call in flight. `fetch`, `device`, `mint`,
  `decide` are the points of `ProcessApproval` at which it may wait (the request
  row, the device row, a second connection). The writes take effect in the step
  that commits, since READ COMMITTED shows them to nobody earlier. `Rollback` is
  any error, cancelled context or stop. **ApprovalLifecycle** is what clients are
  promised: one atomic decision per request, one token per approval, device
  counters that only grow. `ImplementsLifecycle` is the refinement.
- **GrantCache**: `Consume` split at every write to disk and at the call to the
  Approval Service. `ProcessStops` loses memory; `HostStops` may also lose or tear
  what was not synced. `remote` says whether a remote consume function was set; it
  is chosen in `Init`, so one run covers both set-ups. `released` counts to 2,
  which stands for "more than once". **SingleUseGrants** is the promise: a grant is used
  once, when its consumption is on record for good. In the mapping that is the synced
  part of the log, and the service where there is one.
- **RevocationManager**: a transaction holds a connection of the pool from `BeginTx`
  to its end. `IssueRevocation` holds `seqMu` until it returns, past its commit and
  the `NotifyConsumer` calls, each of which takes a connection (`ConnFree`);
  `RevokeDevice` holds it only while it inserts. A unique key makes an insert wait for
  the transaction that holds the same key. A daemon reads the stream and applies
  `MustFailClosed`.
- **Outbox**: `WriteTx` inside transactions of the engine (serialised by the audit
  chain's advisory lock) or of the revocation manager (serialised by its mutex);
  a revocation writes to several consumers and gives `OutboxWriter.seqMu` back between
  them. Leases with fences; fetch and acknowledge. **OrderedDelivery** is what a consumer is
  promised: a stream that grows at its end, received in order, with one owner at a time
  who alone moves the point delivery resumes from, never past what was received. In the
  mapping the owner is the instance that holds the current fence, if one does.
- **AuditChain**: transactions that insert one or two events under the advisory
  lock, beside the checkpoint loop. A hash is the tuple of its inputs.
- **PolicyEngine**: a step is one database statement with the code up to the next.
  Matching, `Evaluate`'s loop over the sorted rules and `CheckCoverage` are
  operators; `ReferenceDecision` says without a sort what the loop should decide. A
  document is named, and its digest is its name.
- **KeyManager**: a key is the number of its generation, a kid the purpose and the
  interval of 2^16 ms in which it was made, and `retiredAt` the interval in which it was
  rotated out. `SignHeader` and `SignBody` are the two calls the request and grant
  adapters make.
- **Enrollment**: redemption and registration hold the credential's row lock;
  `CommitTicket(w, FALSE)` is a commit whose answer is lost.
- **Rbac**: look into the cache, query, refill, write and invalidation are steps.
  `FillCachePartly` is a result set that breaks off, which the code does not test.
  `lingers` is a history: the roles an account has lost while a cache entry or a lookup
  under way still has them.
- **TcpProxy**: `handler` is where each `handleConnection` is; `Stop` has three
  steps. `late` are the connections accepted but not registered when it sweeps,
  `writing` those whose copy is in a write to the backend: closing the client's end does
  not end such a copy, and the handler does not close the backend before.
  **SessionRegistry**: `sessions` and `grantMap`, each method one step.
- **SshAuthorizer**: `login` is the end in sshd's process, `request` the goroutine in
  the daemon, `wire` what was written between them, `socketFile` the path that a
  crash leaves behind.
- **Interstitial**: `entry` is the handler's record of a request, `client` where `Do`
  is, `saw` what `ServeStatus` found under the lock. Time is what has passed: entries
  age, a client becomes overdue. `RetryBare` is the retry of a challenge that gave no
  redeem path or no redeem cookie.
- **FirewallManager**: `kernel` is what the packet filter was told: `NftLine` and
  `NetshRule` convert a rule as the commands do, which drop its target and, on Windows,
  its port. `rules` is what the manager remembers, `main` how far the daemon is.

`MC*` modules and `.cfg` files hold the instances.

## Runs

| run | shows | bounds |
|---|---|---|
| `engine` | a request is granted exactly when one approval was accepted, with one grant and one token; no counter value is accepted twice; the engine implements the lifecycle; every call ends when the pool has a connection to spare | 3 calls, 2 requests, 2 devices, 4 responses resubmitted at will, 4 connections: approve/approve, approve/deny and approve/cancel races, a reused counter, a wrong key |
| `engine_pool` (violation) | with every connection held by an approval, none gets its second one | 2 calls, 2 connections; the same happens with n and n |
| `cache_safety` | a grant is released at most once and never offered again, over crashes and redelivery; the cache implements single use: released only with a record that nothing takes back | 3 grants, two of them under one key, two purge filters |
| `cache_stop` (violation) | after two consumptions the log does not load | as above |
| `revocation` | a daemon never misses a revocation below its cursor and messages are queued in order; one that takes itself for current has everything committed up to its freshness check; sessions keep their grants; no step takes back a committed revocation, a consumption, a deletion or a closed session; every call ends or the circle of `seqMu` and the pool is closed, and no other circle exists | 2 calls, 2 devices, 2 grants, 2 consumers, 2 revocations, a pool of 1 or 2 connections |
| `outbox` | the outbox implements ordered delivery; no cursor passes a message the consumer did not get; every transaction ends or the circle of `seqMu` and a key is closed, and no other circle exists | 3 writers in 2 processes, engine writers and revocations to 2 consumers, one of which connects, 2 instances, 3 messages, 2 takeovers |
| `audit_chain` | events are hashed under their own seq and no two follow the same event; the seq is free until the first checkpoint, and from then on for no transaction | 3 writers, 8 events |
| `audit_checkpoint` (violation) | after a checkpoint the next seq is taken | 5 events |
| `audit_link` (violation) | the second event does not carry the first one's `row_hash` | 5 events |
| `control_plane` | decisions are those of the reference and `CheckCoverage` agrees with them; versions form one chain that is never gone back on; a signature verifies until max grant TTL after its key was rotated out; a credential is used once | 2 publications and an evaluation over 3 documents, 2 versions; 2 purposes, 2 signers, 4 keys, 3 intervals, a grant TTL of one; 2 clients, a ticket and 3 tokens, 2 of them for one node |
| `key_rotation` (violation) | a rotation within 65 s of the key's generation loses the old key | as above |
| `access_paths` | a check passes only on a role held in the tenant or lost while a cache entry or a lookup had it; a removed role goes; the pending count is that of the handlers; what is in the session registry is found by device and by grant; an admitted SSH login was approved, and is in `activeSessions` if it came over the socket; a grant is redeemed at most once, after an approval; `Do` ends and reports the decision; a handler that `Stop` has swept ends or is held by a backend that does not read; the proxy listens only with the filters its platform gets, which on macOS are none | 2 calls of 6 kinds over 3 accounts in 2 tenants; 3 connections with bound 2; 4 sessions of 2 grants and 2 devices; one login of each kind; 2 exchanges; 3 platforms |

Two actors are enough for each race: every guard is about one other holder of a
lock, a key, a lease or a row. Where a third matters there is one: an engine call
that waits while two hold different rows, an outbox writer that shares a process
with one and not with the other, a connection over the bound of two. The third
bootstrap token is for a node that does not clash, and one account is the
namesake of another in a second tenant. The policy documents are a tie, a tie under
one rule id, and one that leaves a resource uncovered. Each clock is long enough for
what depends on it: a bundle that has expired, a kid made in the next interval, a
window of max grant TTL that begins with a rotation and is over before the clock is.
Revocations name their consumers in one order: two orders would add circles of keys
alone, which Postgres detects and ends by failing a statement. The circle the run does
reach goes through a Go mutex, which Postgres does not see.

Writers, publishers and clients are interchangeable, hence the symmetry of the
audit chain and the control plane; the runs with liveness use none.
`CHECK_DEADLOCK FALSE` is in the cache (a daemon whose files do not load stays
down), in the outbox, the audit chain and the control plane (the bound on a
sequence or a clock is used up) and in the access paths (a stopped proxy, calls and
logins that have been served).

**Fairness.** A call that can go on does. Row locks, connections and mutexes are
handed to waiters in turn, hence strong fairness of each worker's steps in the
engine, the revocation manager and the outbox. For roles, weak fairness of each
call's steps, as nothing there waits, and of `EntryExpires`: 30 s pass. For the proxy,
weak fairness of each handler's steps: the callbacks and `net.Dial` return and a
copy from a closed connection ends unless it is in a write; a peer need never end an
open one and a backend need never take what it is sent. For the HTTP
path, weak fairness of each call's steps (the ticker ticks, an exchange ends within
the client's 30 s) and of `DeadlinePasses`. Rollbacks, crashes, cancellation,
decisions of the approver, delivery, Stop and `MarkExpired` have none: nothing in
the code makes them happen. Registry, SSH, firewall and the control plane have no
liveness property and no fairness.

## Proofs

Every invariant and action property that a passing run checks and the three
refinements are theorems: they hold for any number of calls, rows, documents, keys,
connections, crashes and so on. Each module proves `Invariance`, that is
`Spec => []IndInv` for an inductive `IndInv` (TLC has checked each on the instances
of its run), and derives the properties from it. There is one lemma per kind of step,
and for state that is a function of a call, "a step of one call that ..." once for all.

| module | theorems (property) | what has to be added to make it inductive |
|---|---|---|
| ApprovalEngineProofs | TypeCorrect, GrantSafety (`GrantMatchesDecision`), CounterSafety (`CounterAcceptedOnce`), LockSafety, DecisionsFinal, Refinement (`ImplementsLifecycle`) | a call about to commit still sees a PENDING request: row locks are exclusive and what a worker does fits its argument; the device row is locked from the comparison of the counter to its update |
| GrantCacheProofs | TypeCorrect, SingleUseSafety, PersistenceSafety, Refinement (`ImplementsSingleUse`) | what each point of `Consume` has marked so far, at the service, in memory, on the medium; a grant handed out is marked wherever a later call looks, restarts included |
| RevocationManagerProofs | TypeCorrect, StreamSafety (`NothingMissed`), FreshnessSafety (`CurrentDaemonIsComplete`), GrantSafety (`SessionsKeepGrants`), Finality (`RevocationIsFinal`) | the committed stream has no hole; a number that was read may be taken by now but is not beyond the end; the unique key admits one uncommitted row |
| OutboxProofs | TypeCorrect, CursorSafety (`NoMessageSkipped`), LeaseSafety, AppendOnly, Refinement (`ImplementsDelivery`) | streams have no holes, neither committed nor as a transaction sees them; a consumer has received a prefix; no fence is beyond the current one |
| AuditChainProofs | TypeCorrect, ForkSafety (`ChainUnforked`), SeqSafety (`SeqFreeUntilCheckpoint`) | only checkpoints lie behind the head; the rows of the one transaction that holds the advisory lock continue the committed chain; a hash tells its seq, so no earlier event has it as its predecessor |
| ControlPlaneProofs | TypeCorrect, DecisionSafety (`DecisionIsReference`), ChainSafety (`VersionsLinked`), CoverageSafety (`CoverageAgrees`), PublicationStays (`PublishedStays`), RotationSafety (`RotationStrandsNothing`), EnrollmentSafety (`CredentialsUsedOnce`) | see below |
| AccessPathsProofs | TypeCorrect, RoleSafety (`PermittedByHeldRole`), PendingSafety (`PendingIsHeld`), RegistrySafety (`RevocationFindsSession`), LoginSafety (`AdmittedIsRegistered`), RedeemSafety (`RedeemedOnce`), VerdictSafety (`VerdictIsTheApprovers`), FirewallSafety (`ServedBehindFilters`) | what is cached or being cached is held or lingers; an ALLOW is on the wire only after approval and registration; how an entry of the interstitial stands to decision, client and redemptions; what the loops over the rules have done so far |

Three arguments of the control plane are worth a sentence.

- *Decisions.* The first match has a maximal priority among all matches, since the
  copy is sorted. If a match of that priority has another effect, distinct ids make
  the tie visible from whichever of the two comes first; if none has, there is one
  effect (`FirstMatch`, `DecisionAgrees` of ControlPlaneProofs). Nothing is assumed
  of the order of ties.
- *Publications.* A bundle is fixed before it is inserted, and the table goes on
  growing. `Follows` says what still holds of it then: its predecessor's digest, that
  no row with its version or a later one is its own publisher's, and that it expires no
  earlier than the rows before it. The last gives `ExpiryGrows`, so an older bundle
  never outlives the one that `loadActiveBundle` served.
- *Keys.* The signer has the latest key of every kid and nothing leaves the allowlist;
  the key set that the root signed has each purpose's key active or in the overlap.

What the proofs assume of the constants is in the modules, named, and evaluated by TLC:
calls, orders, responses and documents have their shape; a name for "none" is not
also the name of something; workers or connections are finitely many where they are counted
(RevocationManager, AuditChain, TcpProxy); bounds are numbers. Beyond that: a transaction writes at most two audit events, as those of
the engine do; `AllPurposes` names a purpose once; tickets and bootstrap tokens are
different hashes; the effect of a rule is one of the three that `PolicyRule` lists.
None assumes `SeqQueryAccepted`: it may be either.

Only model-checked: liveness (`CallsFinish`, `OnlyPoolCircleBlocks`,
`OnlyMutexCircleBlocks`, `RemovalTakesEffect`, `OnlyBackendHoldsSwept`, `DoReturns`), since the
provers do not reason about fairness; and the five violations, which TLC shows by a
behaviour. `LockSafety`, `DecisionsFinal`, `LeaseSafety`, `AppendOnly` and `PersistenceSafety` are
only proved, no run repeats them; the refinements of outbox and cache contain the last three.

## Assumptions and abstractions

- The schema is installed and accepts the statements. As written it does not in
  several places: `uuid_generate_v7` is not defined, `binding jsonb` is given bytes
  that are not JSON, the cancel path queues a nil payload into a NOT NULL column,
  and `user_roles`, `enrollment_tickets` and `bootstrap_tokens` are not in the
  migration. The models describe what the code does when these are put right.
- The same holds for `SELECT MAX(seq) ... FOR UPDATE` in both revocation paths:
  Postgres does not allow FOR UPDATE with an aggregate, and no revocation gets a number.
  `SeqQueryAccepted` is TRUE in the run, to study what follows the query. A refusal is
  then one of the outcomes of `Rollback`, so the safety results hold either way.
- A signature verifies or not; a file decrypts or not; the key file is whole. The
  error of sealing a log record, which the code ignores, and the sync of directory
  entries are left out.
- Nothing under `src/` inserts `active_sessions`: `OpenSession` is external. The
  leases, fetch and acknowledge have no caller, so any order of calls is allowed,
  `ReleaseLease` being a graceful stop. The checkpoint loop, the session registry,
  the role calls and the interstitial's `Mark*` and `RedeemGrant` have no caller
  either. The daemon's remote consume function is a stub, so the set-up without the
  service matters.
- All revocation calls of a tenant are in one process.
- The ACL check, the approval callback, the approver and sshd answer as they like.
  An approval is decided once and may be reported late or again.
- `loadDaemonConfig` does not parse its file yet, so that `main` ends before it
  installs a rule; FirewallManager takes it from line 66 on with a configuration.
  Whether `nft` and `netsh` accept their commands is left open (the nft script has
  shell redirections, `daddr` under `tcp` and an empty address): each does or fails.

## Where documents and code disagree

Five are runs, quoted in `PROJECT.json`: the pool, the log of consumed grants, the
checkpoint, the link between audit events and the key ids. Others were met while modelling.
They are read off the source and no run checks them.

Approval, grants, revocation, audit:

- `ConsumeGrant` passes a nil transaction to the audit write after it has consumed
  the grant (engine.go:577; :563 "Returns true if the grant was successfully
  consumed").
- No code reads `approval_requests.expires_at` (schema:163 "request TTL (default
  60s)").
- A failing signer rolls the approval back with the mint (engine.go:355;
  ENGINEERING.md:357 "The verified approval is persisted first").
- The log is created before its first record, and an empty one does not load
  (cache.go:404; ENGINEERING.md:329 "in-progress states are recovered on restart").
- The grants file is renamed without fsync (cache.go:388; :386 "write to temp file,
  fsync, rename"), holds one grant (:392) and keeps purged ones (:288).
- `SELECT COALESCE(MAX(seq), 0) + 1 ... FOR UPDATE` is refused by Postgres
  (manager.go:81; :66 "The revocation is committed to the ordered stream immediately").
- `RevokeDevice` closes no session and queues no message (manager.go:330; :309
  "terminates all its active sessions").
- The payload is hashed before jsonb changes its spacing, so `VerifyChain` would not
  accept an untouched chain either if the links were right (chain.go:348).
- `AckMessage` takes the greatest seq, so an acknowledgement out of order hides an
  earlier message (outbox.go:229).
- Four more need a revocation that gets past its sequence query. Two revocations
  allocate one seq when `RevokeDevice` has not committed (manager.go:342). `WriteTx`
  allocates a seq twice, and a revocation to two consumers can wait in a circle with an
  approval or another revocation: it needs `OutboxWriter.seqMu` for its second message,
  and the holder waits for the key of its first (outbox.go:42, `MutexCircle`).
  `IssueRevocation` needs a connection to notify with while the pool is held by calls
  that wait for its `seqMu` (manager.go:137, `PoolCircle`). A grant with a session row stops the whole revocation
  (manager.go:229). With engine writers alone the outbox has no such race.

Control plane:

- Two rules with one id hide their tie, a selector of tags or sensitivity alone
  matches every resource, and coverage takes services or ports where `Evaluate`
  looks at the first kind only (policy/engine.go). `CoverageAgrees` and
  `DecisionIsReference` are stated for documents without these.
- `PublishPolicy` reports a publication that ON CONFLICT dropped.
- `RotateKey` activates the new key with the root signature of the old key set in place,
  and `RetireOverlapKeys` compares now with an earlier now and never retires
  (ENGINEERING.md:235, DR-KEY-9: "distribute pubkey set signed by the offline root",
  "retire old `kid` after max grant TTL"). `RotationStrandsNothing` asks that a
  signature verifies during the window, and nothing after it. A root signature on disk
  cannot match keys generated at the start, so `initCrypto` refuses it.
- `SignRequest` and `SignGrant` read the kid before they sign: a rotation in between
  gives a message that names another key.
- A ticket is spent before the device row exists, so a failing `EnrollDevice` costs
  it; `cert_serial` repeats within 16 ms.
- Burst equals rate in the rate limiter, so a level lets up to just under twice its rate
  through in a minute (ENGINEERING.md:674, DR-CAP-1 "hard ceilings"), and tokens of the
  levels above a refusal are not put back; `InMemoryStore` has no mutex.
- A refill that began before a removal brings the removed role back for up to 30 s,
  and a broken-off result set is cached as the whole (rbac.go:306).
- `CheckObjectOwnership` asks `policies` for an `id` column that it does not have.

Access paths:

- The bound on held connections is tested before it is counted (proxy.go:166;
  ENGINEERING.md:678, DR-CAP-2), spliced connections count as pending, and a handler
  that has accepted and not registered survives `Stop`.
- `handleRequest` sets no DeviceID, so `TerminateByDevice` finds no SSH session
  (enforcer.go:286; ENGINEERING.md:406, DR-REV-3 "active-session registry", "terminates
  live TCP/SSH sessions"). `TerminateSession` takes the entry out and closes nothing.
  tailssh logins and proxied connections are never registered, and no login is removed
  at logout. `AdmittedIsRegistered` is no more than its words: it does not say that a
  revocation ends a session.
- `handleRequest` reads "ACCT,user,host" with one `%s`, which takes all of it. After a crash the socket file
  makes `Start` fail with a warning. The keys helper takes any answer but "DENY".
- `Stop` closes the client's end of each connection and not the backend's: a copy in a
  write to a backend that does not read goes on, and its handler with it (proxy.go:117).
- `MarkApproved` overwrites EXPIRED, and `RedeemGrant` ignores `ExpiresAt`. A challenge
  without a redeem path or cookie is polled to its approval, and the retry then goes
  without the capability and is refused (client.go:156).
- The proxy and the HTTPS server of `main` listen on one port, so the second fails
  and `log.Fatalf` leaves the rules behind.
- An orderly stop removes the filters, so the backend is open while the daemon is down
  (manager.go:320; ENGINEERING.md:179, DR-ENF-5 "the resource MUST be unreachable", and
  DR-ENF-3). `verify` passes over a rule that is absent (manager.go:299).
- The filters are not the rules: nft gets a drop for the ACCEPT rule of the proxy's own
  port, with an empty address, the same line for IPv4 and IPv6, and UDP port 0 only
  (manager.go:215); netsh blocks what comes from the backend's address, on any port;
  macOS gets none. `ServedBehindFilters` is about when they are there, not what they keep
  out.

## Not modelled

- Rate limiter: nothing under `src/` makes a Limiter. Its production store is a Valkey
  script that is not in the repository; `InMemoryStore` is "NOT for production"
  (limiter.go:146) and has no mutex, so a model would invent the atomicity it checks.
- COSE and envelopes: encoding and cryptography without state.
- The envelope encrypter of the key manager: one key per tenant, apart from the
  signer. Its component is "partly" for that.
- Calls that change no state: `VerifyChain`, `CheckTenantScoping`,
  `CheckObjectOwnership`, the firewall's verification and probe, `ServeInterstitial`. The
  notification `NotifyConsumer` sends is a hint that nothing waits for; the connection it
  takes is in RevocationManager.
- Android approver: not a program yet. It does not compile (DnivioApplication passes
  a KeyManager where `RequestVerifier` takes a resolver nothing implements,
  ApprovalClient.kt:168 uses a name that is not in scope, DevicePoPService.kt:81 calls
  a suspend function from a thread), and nothing writes the `device_id` it needs to
  poll. What would be worth modelling once it does: the replay check and its mark are
  two steps for two threads, an entry is forgotten at `expires_at` while 5 s of skew
  are accepted, and the counter is read again at submission. Its answers are the
  environment of ApprovalEngine: any response, repeated and late.
- Entry points, configuration, metrics, protocol definitions, screens: wiring,
  counters and declarations that keep no state the protocol reads.

## Plan

1. Engine, outbox and cache composed through the three abstract specifications they
   are shown to implement here, and single use proved end to end.
2. An abstract specification of the policy table (a chain with one owner per version),
   which the theorems here already contain in pieces.
3. The Android approver, composed with the engine, when it compiles.
