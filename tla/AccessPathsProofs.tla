-------------------------- MODULE AccessPathsProofs --------------------------
(***************************************************************************)
(* Proofs about the six parts of AccessPaths, for any number of calls,     *)
(* accounts, connections, sessions, logins and HTTP exchanges.             *)
(***************************************************************************)
EXTENDS AccessPaths, FiniteSetTheorems, TLAPS

\* Rbac: what is queried or cached the account has, or lost while it was in use,
\* and only role management writes.
InUse(a) == userRoles[a] \cup lingers[a]

RbacInv ==
  /\ RbacTypeOK
  /\ \A a \in Accounts : cache[a] # NoEntry => cache[a] \subseteq InUse(a)
  /\ \A w \in Callers :
       /\ call[w].pc = "fill" => call[w].roles \subseteq InUse(call[w].c.caller)
       /\ call[w].pc \in {"write", "invalidate"} => call[w].c.kind \in {"assign", "remove"}

\* TcpProxy: a socket is open only while its handler runs.
ProxyInv ==
  /\ ProxyTypeOK
  /\ PendingIsHeld
  /\ \A c \in open : handler[c] # "none"

RegistryInv == RegistryTypeOK /\ RevocationFindsSession

\* SshAuthorizer: an ALLOW is written after the approval and the registration.
Known == activeSessions \cup terminated \cup lost

SshInv ==
  /\ SshTypeOK
  /\ AdmittedIsRegistered
  /\ \A l \in Logins : /\ request[l] \in {"register", "allow"} => l \in approved
                       /\ request[l] = "allow" => l \in Known
                       /\ wire[l] = "ALLOW" => l \in Known

\* Interstitial: how an entry stands to the decision, to the client and to the
\* redemptions.
Stands(c) ==
  /\ client[c] = "start" => entry[c] = NoRequest /\ redeemed[c] = 0 /\ c \notin pendingReqs
  /\ c \in pendingReqs => entry[c].status # "NONE"
  /\ entry[c].redeemCap => redeemed[c] = 0
  /\ entry[c].status \in {"APPROVED", "GRANTED"} => entry[c].grant /\ decision[c] = "approve"
  /\ entry[c].status = "DENIED" => decision[c] = "deny"
  /\ entry[c].status = "GRANTED" => ~ entry[c].redeemCap
  /\ ~ entry[c].redeemCap => entry[c].status = "NONE" \/ redeemed[c] = 1
  /\ client[c] \in {"retry", "refused"} => entry[c].status \in {"APPROVED", "GRANTED"}

HttpInv ==
  /\ HttpTypeOK
  /\ RedeemedOnce
  /\ VerdictIsTheApprovers
  /\ \A c \in Exchanges : Stands(c)

\* FirewallManager: what the loops over the rules have done so far.
Progress ==
  /\ main \in {"install", "applied", "serving", "remove"} => rules = RulesOf[os]
  /\ main \in {"install", "remove"} => next <= Len(RulesOf[os])
  /\ main = "install" /\ os = "windows" => \A i \in 1..next - 1 : NetshRule(rules[i]) \in kernel
  /\ main = "applied" => kernel = Filters(os)

FirewallInv == FirewallTypeOK /\ ServedBehindFilters /\ Progress

IndInv == RbacInv /\ ProxyInv /\ RegistryInv /\ SshInv /\ HttpInv /\ FirewallInv

-------------------------------------------------------------------------------
(***************************************************************************)
(* SessionRegistry.                                                        *)
(***************************************************************************)

\* NewSessionRegistry starts empty.
LEMMA RegistryBegins == RegistryInit => RegistryInv
  BY DEF RegistryInit, RegistryInv, RegistryTypeOK, RevocationFindsSession

\* Register, Unregister and the two terminations keep the maps in step with what
\* is live.
LEMMA RegistryKeeps == RegistryInv /\ [RegistryNext]_registryVars => RegistryInv'
<1> SUFFICES ASSUME RegistryInv, [RegistryNext]_registryVars PROVE RegistryInv'
  OBVIOUS
<1> USE DEF RegistryInv, RegistryTypeOK, RevocationFindsSession
<1>1. CASE UNCHANGED registryVars
  BY <1>1 DEF registryVars
<1>2. ASSUME NEW s \in Sessions, RegisterSession(s) PROVE RegistryInv'
  <2>1. GrantOf[s] \in Grants
    BY RegistryAssumption
  <2>2. QED
    BY <1>2, <2>1 DEF RegisterSession
<1>3. ASSUME NEW s \in Sessions, Unregister(s) PROVE RegistryInv'
  BY <1>3 DEF Unregister
<1>4. ASSUME NEW d, TerminateByDevice(d) PROVE RegistryInv'
  BY <1>4 DEF TerminateByDevice, Terminate
<1>5. ASSUME NEW g \in Grants, TerminateByGrant(g) PROVE RegistryInv'
  BY <1>5, RegistryAssumption DEF TerminateByGrant, Terminate
<1>6. QED
  BY <1>1, <1>2, <1>3, <1>4, <1>5 DEF RegistryNext

-------------------------------------------------------------------------------
(***************************************************************************)
(* TcpProxy.  Counted changes only when a handler registers or leaves.     *)
(***************************************************************************)

\* How the number of handlers between registration and removal changes.
LEMMA CountedChanges ==
  ASSUME ProxyInv
  PROVE  /\ Cardinality(Counted) \in 0..Cardinality(Conns)
         /\ \A c \in Conns \ Counted : /\ Cardinality(Counted \cup {c}) = Cardinality(Counted) + 1
                                       /\ Cardinality(Counted \cup {c}) \in 0..Cardinality(Conns)
         /\ \A c \in Counted : /\ Cardinality(Counted \ {c}) = Cardinality(Counted) - 1
                               /\ Cardinality(Counted \ {c}) \in 0..Cardinality(Conns)
<1>1. ASSUME NEW S \in SUBSET Conns
      PROVE  IsFiniteSet(S) /\ Cardinality(S) \in 0..Cardinality(Conns)
  <2>1. IsFiniteSet(S) /\ Cardinality(S) <= Cardinality(Conns)
    BY ProxyAssumption, FS_Subset
  <2>2. Cardinality(S) \in Nat /\ Cardinality(Conns) \in Nat
    BY <2>1, ProxyAssumption, FS_CardinalityType
  <2>3. QED
    BY <2>1, <2>2
<1>2. Counted \in SUBSET Conns
  BY DEF Counted
<1>3. \A c \in Conns \ Counted : Cardinality(Counted \cup {c}) = Cardinality(Counted) + 1
  BY <1>1, <1>2, FS_AddElement
<1>4. \A c \in Counted : Cardinality(Counted \ {c}) = Cardinality(Counted) - 1
  BY <1>1, <1>2, FS_RemoveElement
<1>5. QED
  BY <1>1, <1>2, <1>3, <1>4, Zenon

\* A proxy that has just started holds nothing.
LEMMA ProxyBegins == ProxyInit => ProxyInv
<1> SUFFICES ASSUME ProxyInit PROVE ProxyInv
  OBVIOUS
<1>1. Counted = {}
  BY DEF ProxyInit, Counted
<1>2. Cardinality(Conns) \in Nat
  BY ProxyAssumption, FS_CardinalityType
<1>3. QED
  BY <1>1, <1>2, FS_EmptySet DEF ProxyInit, ProxyInv, ProxyTypeOK, PendingIsHeld

\* A handler that was counted leaves, after Stop as well as before.
LEMMA LeaveKeeps ==
  ASSUME ProxyInv, NEW c \in Counted, Leave(c)
  PROVE  ProxyInv'
<1>1. Counted' = Counted \ {c} /\ c \in Conns
  BY DEF Counted, Leave, Goto, ProxyInv, ProxyTypeOK
<1>2. pendingCount' = Cardinality(Counted') /\ pendingCount' \in 0..Cardinality(Conns)
  BY <1>1, CountedChanges, Zenon DEF Leave, ProxyInv, PendingIsHeld
<1>3. ProxyTypeOK'
  BY <1>1, <1>2 DEF Leave, Goto, ProxyInv, ProxyTypeOK
<1>4. QED
  BY <1>1, <1>2, <1>3 DEF Leave, Goto, ProxyInv, ProxyTypeOK, PendingIsHeld

\* A handler moves on without being counted or ceasing to be.
LEMMA HandlerKeeps ==
  ASSUME ProxyInv, NEW c \in Conns,
         \/ Accept(c) \/ PreAuthorized(c) \/ CheckBounds(c) \/ Shed(c)
         \/ RequestApproval(c) \/ Dial(c) \/ CopyReads(c) \/ BackendTakes(c)
  PROVE  ProxyInv'
<1>1. Counted' = Counted
  BY DEF Counted, ProxyInv, ProxyTypeOK, Accept, PreAuthorized, CheckBounds, Shed,
         RequestApproval, Dial, CopyReads, BackendTakes, Goto
<1>2. /\ UNCHANGED <<activeConns, pendingCount, swept, late, stop>>
      /\ open' \subseteq Conns /\ writing' \subseteq Conns
      /\ \A d \in open' : handler'[d] # "none"
      /\ handler' \in [Conns -> {"none", "preauth", "bounds", "register", "approval", "dial", "splice"}]
  BY DEF ProxyInv, ProxyTypeOK, Accept, PreAuthorized, CheckBounds, Shed, RequestApproval, Dial,
         CopyReads, BackendTakes, Goto
<1>3. stop = "done" => open' \subseteq open
  BY DEF Accept, PreAuthorized, CheckBounds, Shed, RequestApproval, Dial, CopyReads, BackendTakes
<1>4. QED
  BY <1>1, <1>2, <1>3 DEF ProxyInv, ProxyTypeOK, PendingIsHeld

\* Registration counts a handler once.
LEMMA RegisterHeldKeeps ==
  ASSUME ProxyInv, NEW c \in Conns, RegisterHeld(c)
  PROVE  ProxyInv'
<1>1. Counted' = Counted \cup {c} /\ c \in Conns \ Counted
  BY DEF Counted, ProxyInv, ProxyTypeOK, RegisterHeld, Goto
<1>2. pendingCount' = Cardinality(Counted') /\ pendingCount' \in 0..Cardinality(Conns)
  BY <1>1, CountedChanges, Zenon DEF RegisterHeld, ProxyInv, PendingIsHeld
<1>3. ProxyTypeOK'
  BY <1>1, <1>2 DEF RegisterHeld, Goto, ProxyInv, ProxyTypeOK
<1>4. QED
  BY <1>1, <1>2, <1>3 DEF RegisterHeld, Goto, ProxyInv, ProxyTypeOK, PendingIsHeld

\* Stop: what is open when it has swept was accepted and not registered.
LEMMA StopKeeps ==
  ASSUME ProxyInv, CloseStopCh \/ CloseListener \/ Sweep
  PROVE  ProxyInv'
<1>1. Counted' = Counted
  BY DEF Counted, CloseStopCh, CloseListener, Sweep
<1>2. QED
  BY <1>1 DEF ProxyInv, ProxyTypeOK, PendingIsHeld, CloseStopCh, CloseListener, Sweep

\* acceptLoop, handleConnection and Stop keep the count and the map.
LEMMA ProxyKeeps == ProxyInv /\ [ProxyNext]_proxyVars => ProxyInv'
<1> SUFFICES ASSUME ProxyInv, [ProxyNext]_proxyVars PROVE ProxyInv'
  OBVIOUS
<1>1. CASE UNCHANGED proxyVars
  BY <1>1 DEF proxyVars, ProxyInv, ProxyTypeOK, PendingIsHeld, Counted
<1>2. ASSUME NEW c \in Conns, GiveUp(c) \/ PeerCloses(c) \/ SpliceEnds(c) PROVE ProxyInv'
  BY <1>2, LeaveKeeps DEF GiveUp, PeerCloses, SpliceEnds, Counted
<1>3. QED
  BY <1>1, <1>2, HandlerKeeps, RegisterHeldKeeps, StopKeeps DEF ProxyNext

-------------------------------------------------------------------------------
(***************************************************************************)
(* SshAuthorizer.                                                          *)
(***************************************************************************)

\* A daemon that listens and no login.
LEMMA SshBegins == SshInit => SshInv
  BY DEF SshInit, SshInv, SshTypeOK, AdmittedIsRegistered

\* sshd's end of a login, and tailssh: only an ALLOW, or the callback, admits.
LEMMA LoginKeeps ==
  ASSUME SshInv, NEW l \in Logins,
         \/ Connect(l) \/ ConnectFails(l) \/ ReadAnswer(l) \/ GiveUpLogin(l)
         \/ ResolvePrincipal(l) \/ SessionAuthorized(l)
  PROVE  SshInv'
<1>1. CASE Connect(l) \/ ConnectFails(l) \/ GiveUpLogin(l)
  BY <1>1 DEF SshInv, SshTypeOK, AdmittedIsRegistered, Known, Connect, ConnectFails, GiveUpLogin
<1>2. CASE ResolvePrincipal(l) \/ SessionAuthorized(l)
  BY <1>2 DEF SshInv, SshTypeOK, AdmittedIsRegistered, Known, ResolvePrincipal, SessionAuthorized
<1>3. CASE ReadAnswer(l)
  <2>1. Admits(l, wire[l]) => l \in Known /\ l \in approved
    BY DEF SshInv, SshTypeOK, Known, Admits
  <2>2. QED
    BY <1>3, <2>1 DEF SshInv, SshTypeOK, AdmittedIsRegistered, Known, ReadAnswer
<1>4. QED
  BY <1>1, <1>2, <1>3

\* handleRequest approves, registers and answers, in that order.
LEMMA HandleRequestKeeps ==
  ASSUME SshInv, NEW l \in Logins,
         AcceptLogin(l) \/ Deny(l) \/ Approve(l) \/ RegisterLogin(l) \/ WriteAllow(l)
  PROVE  SshInv'
<1>1. CASE AcceptLogin(l) \/ Deny(l)
  BY <1>1 DEF SshInv, SshTypeOK, AdmittedIsRegistered, Known, AcceptLogin, Deny
<1>2. CASE Approve(l)
  BY <1>2 DEF SshInv, SshTypeOK, AdmittedIsRegistered, Known, Approve
<1>3. CASE RegisterLogin(l)
  BY <1>3 DEF SshInv, SshTypeOK, AdmittedIsRegistered, Known, RegisterLogin
<1>4. CASE WriteAllow(l)
  BY <1>4 DEF SshInv, SshTypeOK, AdmittedIsRegistered, Known, WriteAllow
<1>5. QED
  BY <1>1, <1>2, <1>3, <1>4, Zenon

\* A session that is taken out, or lost with the process, was known.
LEMMA DaemonLifeKeeps ==
  ASSUME SshInv,
         \/ \E ls \in SUBSET activeSessions : TakeOut(ls)
         \/ StopAuthorizer \/ DaemonEnds \/ DaemonStarts
  PROVE  SshInv'
<1>1. ASSUME NEW ls \in SUBSET activeSessions, TakeOut(ls) PROVE SshInv'
  BY <1>1 DEF SshInv, SshTypeOK, AdmittedIsRegistered, Known, TakeOut
<1>2. CASE StopAuthorizer
  BY <1>2, Zenon DEF SshInv, SshTypeOK, AdmittedIsRegistered, Known, StopAuthorizer
<1>3. CASE DaemonEnds
  BY <1>3, Zenon DEF SshInv, SshTypeOK, AdmittedIsRegistered, Known, DaemonEnds
<1>4. CASE DaemonStarts
  BY <1>4 DEF SshInv, SshTypeOK, AdmittedIsRegistered, Known, DaemonStarts
<1>5. QED
  BY <1>1, <1>2, <1>3, <1>4, Zenon

\* Whatever sshd, the Authorizer and the daemon's process do next.
LEMMA SshKeeps == SshInv /\ [SshNext]_sshVars => SshInv'
<1> SUFFICES ASSUME SshInv, [SshNext]_sshVars PROVE SshInv'
  OBVIOUS
<1>1. CASE UNCHANGED sshVars
  BY <1>1 DEF sshVars, SshInv, SshTypeOK, AdmittedIsRegistered, Known
<1>2. ASSUME NEW l \in Logins, TerminateSession(l) PROVE SshInv'
  BY <1>2, DaemonLifeKeeps DEF TerminateSession
<1>3. ASSUME NEW d \in DeviceIDs, SshTerminateByDevice(d) PROVE SshInv'
  BY <1>3, DaemonLifeKeeps DEF SshTerminateByDevice
<1>4. QED
  BY <1>1, <1>2, <1>3, LoginKeeps, HandleRequestKeeps, DaemonLifeKeeps, Zenon DEF SshNext

-------------------------------------------------------------------------------
(***************************************************************************)
(* FirewallManager.                                                        *)
(***************************************************************************)

\* The rule sets of the three platforms.
LEMMA RuleSets ==
  /\ DOMAIN RulesOf = {"linux", "windows", "macos"}
  /\ \A o \in DOMAIN RulesOf : /\ Len(RulesOf[o]) \in Nat /\ 1 <= Len(RulesOf[o])
                               /\ DOMAIN RulesOf[o] = 1..Len(RulesOf[o])
<1>1. DOMAIN RulesOf = {"linux", "windows", "macos"}
  BY DEF RulesOf
<1>2. Len(RulesOf["linux"]) = 4 /\ DOMAIN RulesOf["linux"] = 1..4
  BY DEF RulesOf
<1>3. Len(RulesOf["windows"]) = 2 /\ DOMAIN RulesOf["windows"] = 1..2
  BY DEF RulesOf
<1>4. Len(RulesOf["macos"]) = 2 /\ DOMAIN RulesOf["macos"] = 1..2
  BY DEF RulesOf
<1>5. QED
  BY <1>1, <1>2, <1>3, <1>4

\* main before it first runs.
LEMMA FirewallBegins == FirewallInit => FirewallInv
<1> SUFFICES ASSUME FirewallInit PROVE FirewallInv
  OBVIOUS
<1>1. next \in 1..Len(RulesOf[os]) + 1
  BY RuleSets DEF FirewallInit
<1>2. QED
  BY <1>1 DEF FirewallInit, FirewallInv, FirewallTypeOK, ServedBehindFilters, Progress

\* The proxy is served only after the last filter went in.
LEMMA InstallKeeps ==
  ASSUME FirewallInv, InstallNftables \/ InstallWFP \/ InstallPF \/ InstallFails
  PROVE  FirewallInv'
<1>1. CASE InstallNftables
  <2>1. rules = RulesOf[os] /\ os = "linux"
    BY <1>1 DEF InstallNftables, FirewallInv, Progress
  <2>2. kernel' = Filters(os)
    BY <1>1, <2>1 DEF InstallNftables, Filters
  <2>3. QED
    BY <1>1, <2>2 DEF InstallNftables, FirewallInv, FirewallTypeOK, ServedBehindFilters, Progress
<1>2. CASE InstallPF
  <2>1. Filters(os) = {}
    BY <1>2 DEF InstallPF, Filters
  <2>2. QED
    BY <1>2, <2>1 DEF InstallPF, FirewallInv, FirewallTypeOK, ServedBehindFilters, Progress
<1>3. CASE InstallFails
  BY <1>3 DEF InstallFails, FirewallInv, FirewallTypeOK, ServedBehindFilters, Progress
<1>4. CASE InstallWFP
  <2>1. /\ main = "install" /\ os = "windows" /\ os' = os /\ rules = RulesOf[os] /\ rules' = rules
        /\ next \in 1..Len(rules) /\ Len(rules) \in Nat /\ next' = next + 1
        /\ main' = IF next = Len(rules) THEN "applied" ELSE "install"
        /\ kernel' = kernel \cup {NetshRule(rules[next])}
        /\ \A i \in 1..next - 1 : NetshRule(rules[i]) \in kernel
    BY <1>4, RuleSets DEF InstallWFP, FirewallInv, FirewallTypeOK, Progress
  <2>2. Filters(os) = {NetshRule(rules[i]) : i \in 1..Len(rules)}
    BY <2>1, RuleSets, SMTT(30) DEF Filters
  <2>3. \A i \in 1..next : NetshRule(rules[i]) \in kernel'
    BY <2>1
  <2>4. kernel \subseteq Filters(os)
    BY DEF FirewallInv, FirewallTypeOK
  <2>5. kernel' \subseteq Filters(os)
    BY <2>1, <2>2, <2>4, Zenon
  <2>6. next = Len(rules) => kernel' = Filters(os)
    BY <2>2, <2>3, <2>5, Zenon
  <2>7. /\ next' \in 1..Len(rules) + 1 /\ next' - 1 = next
        /\ next # Len(rules) => next' <= Len(rules)
    BY <2>1
  <2>8. FirewallTypeOK'
    BY <2>1, <2>5, <2>7, Zenon DEF FirewallInv, FirewallTypeOK
  <2>9. QED
    BY <2>1, <2>3, <2>6, <2>7, <2>8 DEF FirewallInv, ServedBehindFilters, Progress
<1>5. QED
  BY <1>1, <1>2, <1>3, <1>4, Zenon

\* Start, stop and end of the process leave the packet filter alone.
LEMMA MainKeeps ==
  ASSUME FirewallInv, ApplyBackendIsolation \/ StartProxy \/ ProcessEnds \/ StopProxy
  PROVE  FirewallInv'
<1>1. Len(RulesOf[os]) \in Nat /\ 1 <= Len(RulesOf[os])
  BY RuleSets, Zenon DEF FirewallInv, FirewallTypeOK
<1>2. 1 \in 1..Len(RulesOf[os]) + 1 /\ 1..1 - 1 = {}
  BY <1>1
<1>3. CASE ApplyBackendIsolation
  BY <1>1, <1>2, <1>3 DEF ApplyBackendIsolation, FirewallInv, FirewallTypeOK, ServedBehindFilters, Progress
<1>4. CASE StartProxy
  BY <1>4 DEF StartProxy, FirewallInv, FirewallTypeOK, ServedBehindFilters, Progress
<1>5. CASE ProcessEnds
  BY <1>5 DEF ProcessEnds, FirewallInv, FirewallTypeOK, ServedBehindFilters, Progress
<1>6. CASE StopProxy
  BY <1>1, <1>2, <1>6 DEF StopProxy, FirewallInv, FirewallTypeOK, ServedBehindFilters, Progress
<1>7. QED
  BY <1>3, <1>4, <1>5, <1>6, Zenon

\* RemoveAll only takes filters away, and the proxy has stopped.
LEMMA RemoveAllKeeps ==
  ASSUME FirewallInv, NEW ok \in BOOLEAN, RemoveAll(ok)
  PROVE  FirewallInv'
<1>1. /\ main = "remove" /\ rules = RulesOf[os] /\ os' = os /\ os \in DOMAIN RulesOf
      /\ kernel' \subseteq kernel
  BY DEF RemoveAll, FirewallInv, FirewallTypeOK, Progress
<1>2. kernel' \subseteq Filters(os')
  BY <1>1, Zenon DEF FirewallInv, FirewallTypeOK
<1>3. Len(RulesOf[os]) \in Nat /\ next \in 1..Len(RulesOf[os]) + 1
  BY <1>1, RuleSets, Zenon DEF FirewallInv, FirewallTypeOK
<1>4. \/ next < Len(rules) /\ next' = next + 1 /\ main' = "remove" /\ rules' = rules
      \/ main' = "stopped" /\ rules' = <<>> /\ next' = next
  BY <1>1 DEF RemoveAll
<1>5. QED
  BY <1>1, <1>2, <1>3, <1>4 DEF FirewallInv, FirewallTypeOK, ServedBehindFilters, Progress

\* Whatever main and the packet filter do next.
LEMMA FirewallKeeps == FirewallInv /\ [FirewallNext]_firewallVars => FirewallInv'
<1> SUFFICES ASSUME FirewallInv, [FirewallNext]_firewallVars PROVE FirewallInv'
  OBVIOUS
<1>1. CASE UNCHANGED firewallVars
  BY <1>1 DEF firewallVars, FirewallInv, FirewallTypeOK, ServedBehindFilters, Progress
<1>2. QED
  BY <1>1, InstallKeeps, MainKeeps, RemoveAllKeeps, Zenon DEF FirewallNext

-------------------------------------------------------------------------------
(***************************************************************************)
(* Interstitial.  A step concerns one exchange, except for MarkExpired.    *)
(***************************************************************************)

\* All that HttpInv says of one exchange.
Exchange(c) ==
  /\ Stands(c)
  /\ redeemed[c] <= 1
  /\ redeemed[c] # 0 => decision[c] = "approve"
  /\ client[c] \in {"retry", "refused"} => decision[c] = "approve"
  /\ client[c] = "denied" => decision[c] = "deny"

\* HttpInv, one exchange at a time.
LEMMA EachExchange == HttpInv <=> HttpTypeOK /\ \A c \in Exchanges : Exchange(c)
  BY DEF HttpInv, RedeemedOnce, VerdictIsTheApprovers, Exchange

\* No request yet.
LEMMA HttpBegins == HttpInit => HttpInv
<1> SUFFICES ASSUME HttpInit PROVE HttpInv
  OBVIOUS
<1>1. HttpTypeOK
  BY DEF HttpInit, HttpTypeOK, NoRequest, Statuses
<1>2. \A c \in Exchanges : Exchange(c)
  BY DEF HttpInit, Exchange, Stands, NoRequest
<1>3. QED
  BY <1>1, <1>2, EachExchange

\* A step that leaves the other exchanges as they are.
LEMMA OneExchange ==
  ASSUME HttpInv, NEW c \in Exchanges, HttpTypeOK', Exchange(c)',
         \A d \in Exchanges \ {c} :
           /\ entry'[d] = entry[d] /\ decision'[d] = decision[d] /\ client'[d] = client[d]
           /\ redeemed'[d] = redeemed[d] /\ (d \in pendingReqs' <=> d \in pendingReqs)
  PROVE  HttpInv'
<1>1. \A d \in Exchanges \ {c} : Exchange(d)'
  <2> SUFFICES ASSUME NEW d \in Exchanges \ {c} PROVE Exchange(d)'
    OBVIOUS
  <2>1. Exchange(d)
    BY EachExchange
  <2>2. /\ entry'[d] = entry[d] /\ decision'[d] = decision[d] /\ client'[d] = client[d]
        /\ redeemed'[d] = redeemed[d] /\ (d \in pendingReqs' <=> d \in pendingReqs)
    OBVIOUS
  <2>3. Stands(d)'
    BY <2>1, <2>2 DEF Exchange, Stands
  <2>4. QED
    BY <2>1, <2>2, <2>3 DEF Exchange
<1>2. HttpTypeOK' /\ \A d \in Exchanges : Exchange(d)'
  BY <1>1, Zenon
<1>3. QED
  BY <1>2 DEF HttpInv, RedeemedOnce, VerdictIsTheApprovers, Exchange

\* The challenge registers the request; before it there was none.
LEMMA ChallengeKeeps ==
  ASSUME HttpInv, NEW c \in Exchanges, Challenge(c)
  PROVE  HttpInv'
<1>1. /\ client[c] = "start" /\ client' = [client EXCEPT ![c] = "poll"]
      /\ pendingReqs' = pendingReqs \cup {c}
      /\ entry' = [entry EXCEPT ![c] = [status |-> "PENDING", redeemCap |-> TRUE,
                                      grant |-> FALSE, age |-> "fresh"]]
      /\ UNCHANGED <<decision, saw, overdue, redeemed>>
  BY DEF Challenge, RegisterPending, Step
<1>2. HttpTypeOK'
  BY <1>1 DEF HttpInv, HttpTypeOK, Statuses
<1>3. Exchange(c)'
  BY <1>1 DEF HttpInv, HttpTypeOK, Exchange, Stands, RedeemedOnce
<1>4. QED
  BY <1>1, <1>2, <1>3, OneExchange DEF HttpInv, HttpTypeOK

\* Steps of Do that change neither the table nor the decision: the client moves to a
\* place that the status it read allows.
LEMMA ClientMoves ==
  ASSUME HttpInv, NEW c \in Exchanges, NEW to, client' = [client EXCEPT ![c] = to],
         to \in {"poll", "status", "retry", "returned", "failed", "refused", "denied", "expired"},
         UNCHANGED <<pendingReqs, entry, decision, overdue, redeemed>>,
         saw' \in [Exchanges -> Statuses],
         to \in {"retry", "refused"} => entry[c].status \in {"APPROVED", "GRANTED"},
         to = "denied" => entry[c].status = "DENIED"
  PROVE  HttpInv'
<1>1. HttpTypeOK'
  BY Zenon DEF HttpInv, HttpTypeOK
<1>2. Exchange(c)'
  <2>1. Exchange(c) /\ client'[c] = to
    BY EachExchange DEF HttpInv, HttpTypeOK
  <2>2. QED
    BY <2>1 DEF Exchange, Stands
<1>3. QED
  BY <1>1, <1>2, OneExchange DEF HttpInv, HttpTypeOK

\* Do returns, is cancelled, times out, ticks, or loses an answer.
LEMMA PollKeeps ==
  ASSUME HttpInv, NEW c \in Exchanges,
         \/ NotChallenged(c) \/ Cancelled(c) \/ PollEnds(c) \/ ServeLookup(c) \/ StatusLost(c)
  PROVE  HttpInv'
<1>1. CASE NotChallenged(c) \/ Cancelled(c) \/ PollEnds(c)
  BY <1>1, ClientMoves, Zenon DEF NotChallenged, Cancelled, PollEnds, Step, HttpInv, HttpTypeOK
<1>2. CASE ServeLookup(c) /\ c \in pendingReqs
  <2>1. saw' \in [Exchanges -> Statuses]
    BY <1>2, Zenon DEF ServeLookup, HttpInv, HttpTypeOK
  <2>2. QED
    BY <1>2, <2>1, ClientMoves DEF ServeLookup, Step
<1>3. CASE ServeLookup(c) /\ c \notin pendingReqs
  <2>1. UNCHANGED httpVars
    BY <1>3, Zenon DEF ServeLookup, httpVars
  <2>2. QED
    BY <2>1, Zenon DEF httpVars, HttpInv, HttpTypeOK, RedeemedOnce, VerdictIsTheApprovers, Stands
<1>4. CASE StatusLost(c)
  <2>1. saw' \in [Exchanges -> Statuses]
    BY <1>4 DEF StatusLost, HttpInv, HttpTypeOK, Statuses
  <2>2. QED
    BY <1>4, <2>1, ClientMoves, Zenon DEF StatusLost, Step
<1>5. QED
  BY <1>1, <1>2, <1>3, <1>4, Zenon

\* What Do makes of a status it may have read while it was being written.
LEMMA StatusArrivesKeeps ==
  ASSUME HttpInv, NEW c \in Exchanges, StatusArrives(c)
  PROVE  HttpInv'
<1>1. PICK s \in StatusRead(c) :
        client' = [client EXCEPT ![c] = CASE ParseStatusResponse(s) = "APPROVED" -> "retry"
                                          [] ParseStatusResponse(s) = "DENIED" -> "denied"
                                          [] ParseStatusResponse(s) = "EXPIRED" -> "expired"
                                          [] OTHER -> "poll"]
  BY Zenon DEF StatusArrives, Step
<1>2. saw' \in [Exchanges -> Statuses]
  BY DEF StatusArrives, HttpInv, HttpTypeOK, Statuses
<1>3. s = entry[c].status \/ ParseStatusResponse(s) = "PENDING"
  BY DEF StatusRead, ParseStatusResponse
<1>4. PICK to \in {"retry", "denied", "expired", "poll"} :
        /\ client' = [client EXCEPT ![c] = to]
        /\ to = "retry" => entry[c].status = "APPROVED"
        /\ to = "denied" => entry[c].status = "DENIED"
  BY <1>1, <1>3, Zenon DEF ParseStatusResponse
<1>5. QED
  BY <1>2, <1>4, ClientMoves, Zenon DEF StatusArrives

\* RedeemGrant spends the capability; a client that is refused saw APPROVED.
LEMMA RetryKeeps ==
  ASSUME HttpInv, NEW c \in Exchanges, RetryRedeems(c) \/ RetryBare(c) \/ RetryRefused(c)
  PROVE  HttpInv'
<1>1. Exchange(c) /\ client[c] = "retry"
  BY EachExchange DEF RetryRedeems, RetryBare, RetryRefused
<1>2. CASE RetryBare(c) \/ RetryRefused(c)
  <2>1. entry[c].status \in {"APPROVED", "GRANTED"}
    BY <1>1 DEF Exchange, Stands
  <2>2. QED
    BY <1>2, <2>1, ClientMoves, Zenon DEF RetryBare, RetryRefused, Step, HttpInv, HttpTypeOK
<1>3. CASE RetryRedeems(c)
  <2>1. PICK to \in {"returned", "failed", "retry"} : client' = [client EXCEPT ![c] = to]
    BY <1>3, Zenon DEF RetryRedeems, Step
  <2>2. /\ entry[c].redeemCap /\ entry[c].status = "APPROVED"
        /\ entry' = [entry EXCEPT ![c] = [entry[c] EXCEPT !.status = "GRANTED", !.redeemCap = FALSE]]
        /\ redeemed' = [redeemed EXCEPT ![c] = redeemed[c] + 1]
        /\ UNCHANGED <<pendingReqs, decision, saw, overdue>>
    BY <1>3 DEF RetryRedeems, RedeemGrant, Redeemable, Consume
  <2>3. HttpTypeOK'
    <3> DEFINE E == [status : Statuses, redeemCap : BOOLEAN, grant : BOOLEAN,
                     age : {"fresh", "expired", "old"}]
    <3>1. \A e \in E : [e EXCEPT !.status = "GRANTED", !.redeemCap = FALSE] \in E
      BY Zenon DEF Statuses
    <3>2. entry \in [Exchanges -> E]
      BY DEF HttpInv, HttpTypeOK
    <3> HIDE DEF E
    <3>3. entry' \in [Exchanges -> E]
      BY <2>2, <3>1, <3>2, Zenon
    <3>4. QED
      BY <2>1, <2>2, <3>3 DEF HttpInv, HttpTypeOK, E
  <2>4. /\ entry'[c].status = "GRANTED" /\ entry'[c].redeemCap = FALSE
        /\ entry'[c].grant = entry[c].grant /\ redeemed'[c] = 1 /\ client'[c] = to
        /\ decision'[c] = decision[c]
    BY <1>1, <2>1, <2>2 DEF HttpInv, HttpTypeOK, Exchange, Stands
  <2>5. Exchange(c)'
    <3>1. entry[c].grant /\ decision[c] = "approve"
      BY <1>1, <2>2 DEF Exchange, Stands
    <3>2. to \notin {"start", "refused", "denied"}
      BY <2>1
    <3>3. Stands(c)'
      BY <2>4, <3>1, <3>2 DEF Stands
    <3>4. QED
      BY <2>4, <3>1, <3>2, <3>3 DEF Exchange
  <2>6. QED
    BY <2>1, <2>2, <2>3, <2>5, OneExchange, Zenon DEF HttpInv, HttpTypeOK
<1>4. QED
  BY <1>2, <1>3

\* The decision, its report to the handler, which may come late and again, and time.
LEMMA DecisionKeeps ==
  ASSUME HttpInv, NEW c \in Exchanges,
         MarkApproved(c) \/ MarkDenied(c) \/ Decided(c) \/ EntryAges(c) \/ DeadlinePasses(c)
  PROVE  HttpInv'
<1>1. Exchange(c)
  BY EachExchange
<1>2. CASE MarkApproved(c)
  <2>1. HttpTypeOK'
    BY <1>2, ZenonT(40) DEF MarkApproved, HttpInv, HttpTypeOK, Statuses
  <2>2. /\ entry'[c].status = "APPROVED" /\ entry'[c].redeemCap = entry[c].redeemCap
        /\ entry'[c].grant = TRUE
    BY <1>2 DEF MarkApproved, HttpInv, HttpTypeOK
  <2>3. Exchange(c)'
    BY <1>1, <1>2, <2>2 DEF MarkApproved, Exchange, Stands
  <2>4. QED
    BY <1>2, <2>1, <2>3, OneExchange, Zenon DEF MarkApproved, HttpInv, HttpTypeOK
<1>3. CASE MarkDenied(c)
  <2>1. HttpTypeOK'
    BY <1>3 DEF MarkDenied, HttpInv, HttpTypeOK, Statuses
  <2>2. /\ entry'[c].status = "DENIED" /\ entry'[c].redeemCap = entry[c].redeemCap
        /\ entry'[c].grant = entry[c].grant
    BY <1>3 DEF MarkDenied, HttpInv, HttpTypeOK
  <2>3. Exchange(c)'
    BY <1>1, <1>3, <2>2, Zenon DEF MarkDenied, Exchange, Stands
  <2>4. QED
    BY <1>3, <2>1, <2>3, OneExchange DEF MarkDenied, HttpInv, HttpTypeOK
<1>4. CASE Decided(c)
  <2>1. PICK d \in {"approve", "deny"} : decision' = [decision EXCEPT ![c] = d]
    BY <1>4, Zenon DEF Decided
  <2>2. HttpTypeOK'
    BY <1>4, <2>1, Zenon DEF Decided, HttpInv, HttpTypeOK
  <2>3. Exchange(c)'
    BY <1>1, <1>4, <2>1, Zenon DEF Decided, Exchange, Stands
  <2>4. QED
    BY <1>4, <2>1, <2>2, <2>3, OneExchange, Zenon DEF Decided, HttpInv, HttpTypeOK
<1>5. CASE EntryAges(c)
  <2>1. PICK a \in {"expired", "old"} : entry' = [entry EXCEPT ![c].age = a]
    BY <1>5 DEF EntryAges
  <2>2. HttpTypeOK'
    BY <1>5, <2>1 DEF EntryAges, HttpInv, HttpTypeOK
  <2>3. /\ entry'[c].status = entry[c].status /\ entry'[c].redeemCap = entry[c].redeemCap
        /\ entry'[c].grant = entry[c].grant
    BY <2>1 DEF HttpInv, HttpTypeOK
  <2>4. c \in pendingReqs /\ UNCHANGED <<pendingReqs, decision, client, redeemed>>
    BY <1>5, Zenon DEF EntryAges
  <2>5. Exchange(c)'
    BY <1>1, <2>3, <2>4, Zenon DEF Exchange, Stands
  <2>6. QED
    BY <2>1, <2>2, <2>4, <2>5, OneExchange, Zenon DEF HttpInv, HttpTypeOK
<1>6. CASE DeadlinePasses(c)
  <2>1. HttpTypeOK'
    BY <1>6, Zenon DEF DeadlinePasses, HttpInv, HttpTypeOK
  <2>2. Exchange(c)'
    BY <1>1, <1>6, Zenon DEF DeadlinePasses, Exchange, Stands
  <2>3. QED
    BY <1>6, <2>1, <2>2, OneExchange, Zenon DEF DeadlinePasses
<1>7. QED
  BY <1>2, <1>3, <1>4, <1>5, <1>6

\* Only what is still PENDING expires.
LEMMA MarkExpiredKeeps ==
  ASSUME HttpInv, MarkExpired
  PROVE  HttpInv'
<1>1. HttpTypeOK'
  BY Zenon DEF MarkExpired, HttpInv, HttpTypeOK, Statuses
<1>2. ASSUME NEW c \in Exchanges PROVE Exchange(c)'
  <2>1. /\ entry'[c].redeemCap = entry[c].redeemCap /\ entry'[c].grant = entry[c].grant
        /\ \/ entry'[c] = entry[c]
           \/ /\ entry[c].status = "PENDING" /\ entry'[c].status = "EXPIRED"
              /\ c \in pendingReqs
    BY DEF MarkExpired, Expires, HttpInv, HttpTypeOK
  <2>2. /\ c \in pendingReqs' => c \in pendingReqs
        /\ UNCHANGED <<decision, client, redeemed>>
    BY DEF MarkExpired
  <2>3. Exchange(c)
    BY EachExchange
  <2>4. QED
    BY <2>1, <2>2, <2>3 DEF Exchange, Stands
<1>3. QED
  BY <1>1, <1>2 DEF HttpInv, RedeemedOnce, VerdictIsTheApprovers, Exchange

\* Whatever the handler, the client, the approver and the clock do next.
LEMMA HttpKeeps == HttpInv /\ [HttpNext]_httpVars => HttpInv'
<1> SUFFICES ASSUME HttpInv, [HttpNext]_httpVars PROVE HttpInv'
  OBVIOUS
<1>1. CASE UNCHANGED httpVars
  BY <1>1 DEF httpVars, HttpInv, HttpTypeOK, RedeemedOnce, VerdictIsTheApprovers, Stands
<1>2. QED
  BY Zenon, <1>1, ChallengeKeeps, PollKeeps, StatusArrivesKeeps, RetryKeeps, DecisionKeeps,
     MarkExpiredKeeps DEF HttpNext

-------------------------------------------------------------------------------
(***************************************************************************)
(* Rbac.                                                                   *)
(***************************************************************************)

\* What a call carries.
LEMMA CallFields ==
  ASSUME NEW c \in CallTypes
  PROVE  /\ c.caller \in Accounts
         /\ c.kind \in {"check", "assign", "remove", "duties", "active"}
         /\ c.kind \in {"assign", "remove"} => c.target \in Accounts /\ c.role \in Roles
         /\ c.kind = "duties" => [kind |-> "active", caller |-> c.approver] \in CallTypes
  BY Zenon DEF CallTypes

\* What the state of a call carries.
LEMMA StateFields ==
  ASSUME NEW x \in CallStates
  PROVE  /\ x.pc \in {"free", "query", "look", "write", "invalidate", "allowed", "fill"}
         /\ x.pc # "free" => x.c \in CallTypes
         /\ x.pc = "fill" => x.roles \subseteq Roles
  BY DEF CallStates, Free

\* A call at one of its steps that carry no roles.
LEMMA StateOf ==
  ASSUME NEW c \in CallTypes,
         NEW at \in {"query", "look", "write", "invalidate", "allowed"}
  PROVE  [pc |-> at, c |-> c] \in CallStates
  BY DEF CallStates

\* More roles permit more.
LEMMA PermittedGrows ==
  ASSUME NEW c, NEW R, NEW S, R \subseteq S, Permitted(c, R)
  PROVE  Permitted(c, S)
  BY DEF Permitted

\* A check lets a call go on only when the roles permit it.
LEMMA CheckedIs ==
  ASSUME NEW c \in CallTypes, NEW R
  PROVE  /\ Checked(c, R) \in CallStates
         /\ Checked(c, R).pc \in {"free", "allowed", "look", "write"}
         /\ Checked(c, R).pc \in {"allowed", "write"} => Checked(c, R).c = c /\ Permitted(c, R)
         /\ Checked(c, R).pc = "write" => c.kind \in {"assign", "remove"}
<1> SUFFICES ASSUME NEW x, x = Checked(c, R)
             PROVE  /\ x \in CallStates
                    /\ x.pc \in {"free", "allowed", "look", "write"}
                    /\ x.pc \in {"allowed", "write"} => x.c = c /\ Permitted(c, R)
                    /\ x.pc = "write" => c.kind \in {"assign", "remove"}
  OBVIOUS
<1>1. CASE ~ Permitted(c, R)
  <2>1. x = Free
    BY <1>1 DEF Checked
  <2>2. x \in CallStates /\ x.pc = "free"
    BY <2>1 DEF CallStates, Free
  <2>3. QED
    BY <2>2
<1>2. CASE Permitted(c, R) /\ c.kind \in {"check", "active"}
  <2>1. x = [pc |-> "allowed", c |-> c]
    BY <1>2, Zenon DEF Checked
  <2>2. x \in CallStates /\ x.pc = "allowed" /\ x.c = c
    BY <2>1 DEF CallStates
  <2>3. QED
    BY <1>2, <2>2
<1>3. CASE Permitted(c, R) /\ c.kind = "duties"
  <2>1. x = [pc |-> "look", c |-> [kind |-> "active", caller |-> c.approver]]
    BY <1>3 DEF Checked
  <2>2. x \in CallStates /\ x.pc = "look"
    BY <1>3, <2>1, CallFields DEF CallStates
  <2>3. QED
    BY <2>2
<1>4. CASE Permitted(c, R) /\ c.kind \in {"assign", "remove"}
  <2>1. x = [pc |-> "write", c |-> c]
    BY <1>4, Zenon DEF Checked
  <2>2. x \in CallStates /\ x.pc = "write" /\ x.c = c
    BY <2>1 DEF CallStates
  <2>3. QED
    BY <1>4, <2>2
<1>5. QED
  BY <1>1, <1>2, <1>3, <1>4, CallFields, Zenon

\* A call that returned.
LEMMA FreeState == Free \in CallStates /\ Free.pc = "free"
  BY DEF CallStates, Free

\* An empty cache, no call, and the roles the accounts have.
LEMMA RbacBegins == RbacInit => RbacInv
<1> SUFFICES ASSUME RbacInit PROVE RbacInv
  OBVIOUS
<1>1. RbacTypeOK
  BY RbacAssumption DEF RbacInit, RbacTypeOK, CallStates
<1>2. \A w \in Callers : call[w].pc = "free"
  BY Zenon DEF RbacInit, Free
<1>3. QED
  BY <1>1, <1>2, Zenon DEF RbacInit, RbacInv

\* A step of one call that writes no role; the cache may take over roles that are in
\* use.
LEMMA CallMoves ==
  ASSUME RbacInv, NEW w \in Callers, NEW x \in CallStates, call' = [call EXCEPT ![w] = x],
         UNCHANGED <<userRoles, lingers>>,
         cache' \in [Accounts -> {NoEntry} \cup SUBSET Roles],
         \A a \in Accounts : cache'[a] # NoEntry => cache'[a] \subseteq InUse(a),
         x.pc = "fill" => x.roles \subseteq InUse(x.c.caller),
         x.pc \in {"write", "invalidate"} => x.c.kind \in {"assign", "remove"}
  PROVE  RbacInv'
<1>1. RbacTypeOK'
  BY Zenon DEF RbacInv, RbacTypeOK
<1>2. \A v \in Callers : call'[v] = IF v = w THEN x ELSE call[v]
  BY Zenon DEF RbacInv, RbacTypeOK
<1>3. \A a : InUse(a)' = InUse(a)
  BY DEF InUse
<1>4. QED
  BY <1>1, <1>2, <1>3, Zenon DEF RbacInv

\* The look into the cache, of the caller or of the approver.
LEMMA LookKeeps ==
  ASSUME RbacInv, NEW w \in Callers, NEW c \in CallTypes, Look(w, c)
  PROVE  RbacInv'
<1>1. c.caller \in Accounts /\ UNCHANGED <<userRoles, cache, lingers>>
  BY CallFields, Zenon DEF Look
<1>2. CASE cache[c.caller] = NoEntry
  <2>1. call' = [call EXCEPT ![w] = [pc |-> "query", c |-> c]]
    BY <1>2, Zenon DEF Look, CacheKey
  <2>2. QED
    BY <1>1, <2>1, StateOf, CallMoves, ZenonT(30) DEF RbacInv, RbacTypeOK
<1>3. CASE cache[c.caller] # NoEntry
  <2>1. PICK x \in CallStates : x = Checked(c, cache[c.caller])
    BY CheckedIs, Zenon
  <2>2. call' = [call EXCEPT ![w] = x]
    BY <1>3, <2>1, Zenon DEF Look, CacheKey
  <2>3. /\ x.pc \in {"free", "allowed", "look", "write"}
        /\ x.pc \in {"allowed", "write"} => x.c = c
        /\ x.pc = "write" => c.kind \in {"assign", "remove"}
    BY <2>1, CheckedIs, Zenon
  <2>4. QED
    BY <1>1, <2>2, <2>3, CallMoves, Zenon DEF RbacInv, RbacTypeOK
<1>4. QED
  BY <1>2, <1>3

\* The query reads roles the caller has; a statement that fails ends the call.
LEMMA QueryKeeps ==
  ASSUME RbacInv, NEW w \in Callers, QueryRoles(w) \/ StatementFails(w)
  PROVE  RbacInv'
<1>1. PICK c \in CallTypes : c = call[w].c
  BY StateFields DEF RbacInv, RbacTypeOK, QueryRoles, StatementFails
<1>2. c.caller \in Accounts /\ UNCHANGED <<userRoles, cache, lingers>>
  BY CallFields, Zenon DEF QueryRoles, StatementFails
<1>3. CASE QueryRoles(w)
  <2>1. PICK x : x = [pc |-> "fill", c |-> c, roles |-> userRoles[c.caller]]
    BY Zenon
  <2>2. userRoles[c.caller] \subseteq Roles /\ userRoles[c.caller] \subseteq InUse(c.caller)
    BY <1>2, Zenon DEF RbacInv, RbacTypeOK, InUse
  <2>3. x \in CallStates /\ x.pc = "fill" /\ x.c = c /\ x.roles = userRoles[c.caller]
    BY <2>1, <2>2 DEF CallStates
  <2>4. call' = [call EXCEPT ![w] = x]
    BY <1>1, <1>3, <2>1, Zenon DEF QueryRoles
  <2>5. QED
    BY <1>2, <2>2, <2>3, <2>4, CallMoves, Zenon DEF RbacInv, RbacTypeOK
<1>4. CASE StatementFails(w)
  BY <1>2, <1>4, FreeState, CallMoves, Zenon DEF StatementFails, RbacInv, RbacTypeOK
<1>5. QED
  BY <1>3, <1>4, Zenon

\* The refill, whole or broken off, caches no more than what was queried.
LEMMA FillKeeps ==
  ASSUME RbacInv, NEW w \in Callers, FillCache(w) \/ FillCachePartly(w)
  PROVE  RbacInv'
<1>1. PICK c \in CallTypes, R \in SUBSET Roles : c = call[w].c /\ R = call[w].roles
  BY StateFields DEF RbacInv, RbacTypeOK, FillCache, FillCachePartly
<1>2. /\ c.caller \in Accounts /\ R \subseteq InUse(c.caller)
      /\ UNCHANGED <<userRoles, lingers>>
  BY <1>1, CallFields, Zenon DEF RbacInv, FillCache, FillCachePartly
<1>3. PICK some \in SUBSET R : cache' = [cache EXCEPT ![c.caller] = some]
  BY <1>1, Zenon DEF FillCache, FillCachePartly, CacheKey
<1>4. /\ cache' \in [Accounts -> {NoEntry} \cup SUBSET Roles]
      /\ \A a \in Accounts : cache'[a] # NoEntry => cache'[a] \subseteq InUse(a)
  BY <1>2, <1>3 DEF RbacInv, RbacTypeOK
<1>5. CASE FillCache(w)
  <2>1. PICK x \in CallStates : x = Checked(c, R)
    BY CheckedIs, Zenon
  <2>2. call' = [call EXCEPT ![w] = x]
    BY <1>1, <1>5, <2>1, Zenon DEF FillCache
  <2>3. /\ x.pc \in {"free", "allowed", "look", "write"}
        /\ x.pc \in {"allowed", "write"} => x.c = c
        /\ x.pc = "write" => c.kind \in {"assign", "remove"}
    BY <2>1, CheckedIs, Zenon
  <2>4. QED
    BY <1>2, <1>4, <2>2, <2>3, CallMoves, ZenonT(30)
<1>6. CASE FillCachePartly(w)
  BY <1>2, <1>4, <1>6, FreeState, CallMoves, Zenon DEF FillCachePartly
<1>7. QED
  BY <1>5, <1>6, Zenon

\* A role that AssignRole gives or RemoveRole takes away is in use if it was, or is
\* held now.
LEMMA WriteRoleKeeps ==
  ASSUME RbacInv, NEW w \in Callers, NEW heard \in BOOLEAN, WriteRole(w, heard)
  PROVE  RbacInv'
<1>1. PICK c \in CallTypes : c = call[w].c
  BY StateFields DEF RbacInv, RbacTypeOK, WriteRole
<1>2. c.kind \in {"assign", "remove"} /\ c.target \in Accounts /\ c.role \in Roles
  BY <1>1, CallFields, Zenon DEF RbacInv, WriteRole
<1>3. PICK held \in SUBSET Roles :
        /\ userRoles' = [userRoles EXCEPT ![c.target] = held]
        /\ lingers' = [lingers EXCEPT ![c.target] = (lingers[c.target] \cup userRoles[c.target]) \ held]
  <2>1. userRoles[c.target] \subseteq Roles
    BY <1>2, Zenon DEF RbacInv, RbacTypeOK
  <2>2. userRoles[c.target] \cup {c.role} \in SUBSET Roles /\ userRoles[c.target] \ {c.role} \in SUBSET Roles
    BY <1>2, <2>1, Zenon
  <2>3. QED
    BY <1>1, <2>2, Zenon DEF WriteRole
<1>4. \A a \in Accounts : InUse(a) \subseteq InUse(a)'
  BY <1>3 DEF RbacInv, RbacTypeOK, InUse
<1>5. PICK x \in CallStates : /\ x.pc \in {"invalidate", "free"}
                              /\ x.pc = "invalidate" => x.c = c
                              /\ call' = [call EXCEPT ![w] = x]
  <2>1. PICK x : x = IF heard THEN [pc |-> "invalidate", c |-> c] ELSE Free
    BY Zenon
  <2>2. x \in CallStates /\ x.pc \in {"invalidate", "free"} /\ (x.pc = "invalidate" => x.c = c)
    BY <2>1, FreeState DEF CallStates
  <2>3. call' = [call EXCEPT ![w] = x]
    BY <1>1, <2>1, Zenon DEF WriteRole
  <2>4. QED
    BY <2>2, <2>3, Zenon
<1>6. RbacTypeOK'
  <2>1. (lingers[c.target] \cup userRoles[c.target]) \ held \in SUBSET Roles
    BY <1>2, Zenon DEF RbacInv, RbacTypeOK
  <2>2. userRoles' \in [Accounts -> SUBSET Roles] /\ lingers' \in [Accounts -> SUBSET Roles]
    BY <1>3, <2>1, Zenon DEF RbacInv, RbacTypeOK
  <2>3. cache' = cache /\ call' \in [Callers -> CallStates]
    BY <1>5, Zenon DEF RbacInv, RbacTypeOK, WriteRole
  <2>4. QED
    BY <2>2, <2>3, Zenon DEF RbacInv, RbacTypeOK
<1>7. ASSUME NEW v \in Callers
      PROVE  /\ (call[v].pc = "fill" => call[v].roles \subseteq InUse(call[v].c.caller))'
             /\ call'[v].pc \in {"write", "invalidate"} => call'[v].c.kind \in {"assign", "remove"}
  <2>1. CASE v = w
    <3>1. call'[v] = x
      BY <1>5, <2>1, Zenon DEF RbacInv, RbacTypeOK
    <3>2. x.pc # "fill" /\ x.pc # "write"
      BY <1>5
    <3>3. QED
      BY <1>2, <1>5, <3>1, <3>2, Zenon
  <2>2. CASE v # w
    <3>1. call'[v] = call[v]
      BY <1>5, <2>2 DEF RbacInv, RbacTypeOK
    <3>2. call[v].pc # "free" => call[v].c.caller \in Accounts
      BY StateFields, CallFields, Zenon DEF RbacInv, RbacTypeOK
    <3>3. PICK y : y = call[v]
      BY Zenon
    <3>4. y.pc = "fill" => y.roles \subseteq InUse(y.c.caller) /\ y.c.caller \in Accounts
      BY <3>2, <3>3, Zenon DEF RbacInv
    <3>5. y.pc = "fill" => y.roles \subseteq InUse(y.c.caller)'
      BY <1>4, <3>4, Zenon
    <3>6. call'[v] = y /\ (y.pc \in {"write", "invalidate"} => y.c.kind \in {"assign", "remove"})
      BY <3>1, <3>3, Zenon DEF RbacInv
    <3>7. QED
      BY <3>5, <3>6, Zenon
  <2>3. QED
    BY <2>1, <2>2, Zenon
<1>8. \A a \in Accounts : cache'[a] # NoEntry => cache'[a] \subseteq InUse(a)'
  BY <1>4 DEF WriteRole, RbacInv
<1>9. QED
  BY <1>6, <1>7, <1>8, Zenon DEF RbacInv

\* Without its entry, an account is still given what a lookup has read.
LEMMA SettleKeeps ==
  ASSUME RbacInv, NEW a \in Accounts, Settle(a), cache' = [cache EXCEPT ![a] = NoEntry],
         userRoles' = userRoles, call' \in [Callers -> CallStates],
         \A v \in Callers : call'[v] = call[v] \/ call'[v].pc = "free"
  PROVE  RbacInv'
<1>1. PICK left \in SUBSET lingers[a] :
        /\ lingers' = [lingers EXCEPT ![a] = left]
        /\ \A r \in lingers[a], v \in Callers :
             call[v].pc = "fill" /\ call[v].c.caller = a /\ r \in call[v].roles => r \in left
  <2>1. PICK left : left = {r \in lingers[a] : \E v \in Callers :
                              call[v].pc = "fill" /\ call[v].c.caller = a /\ r \in call[v].roles}
    BY Zenon
  <2>2. lingers' = [lingers EXCEPT ![a] = left]
    BY <2>1, Zenon DEF Settle
  <2>3. left \in SUBSET lingers[a]
    BY <2>1, Zenon
  <2>4. QED
    BY <2>1, <2>2, <2>3, Zenon
<1>2. left \subseteq Roles
  BY <1>1, Zenon DEF RbacInv, RbacTypeOK
<1>3. RbacTypeOK'
  BY <1>1, <1>2, Zenon DEF RbacInv, RbacTypeOK
<1>4. /\ InUse(a)' = userRoles[a] \cup left
      /\ \A b \in Accounts \ {a} : InUse(b)' = InUse(b)
  BY <1>1 DEF RbacInv, RbacTypeOK, InUse
<1>5. \A b \in Accounts : cache'[b] # NoEntry => cache'[b] \subseteq InUse(b)'
  BY <1>4 DEF RbacInv, RbacTypeOK
<1>6. ASSUME NEW v \in Callers, NEW y, y = call[v], y.pc = "fill"
      PROVE  y.roles \subseteq InUse(y.c.caller)'
  <2>1. PICK b \in Accounts : b = y.c.caller
    BY <1>6, StateFields, CallFields, Zenon DEF RbacInv, RbacTypeOK
  <2>2. y.roles \subseteq userRoles[b] \cup lingers[b]
    BY <1>6, <2>1, Zenon DEF RbacInv, InUse
  <2>3. CASE b = a
    <3>1. y.roles \subseteq userRoles[a] \cup left
      BY <1>1, <1>6, <2>1, <2>2, <2>3, Zenon
    <3>2. QED
      BY <1>4, <2>1, <2>3, <3>1
  <2>4. CASE b # a
    <3>1. InUse(b)' = userRoles[b] \cup lingers[b]
      BY <1>4, <2>4 DEF InUse
    <3>2. QED
      BY <2>1, <2>2, <3>1
  <2>5. QED
    BY <2>3, <2>4
<1>7. ASSUME NEW v \in Callers
      PROVE  /\ (call[v].pc = "fill" => call[v].roles \subseteq InUse(call[v].c.caller))'
             /\ call'[v].pc \in {"write", "invalidate"} => call'[v].c.kind \in {"assign", "remove"}
  <2>1. CASE call'[v].pc = "free"
    BY <2>1
  <2>2. CASE call'[v] = call[v]
    <3>1. PICK y : y = call[v]
      BY Zenon
    <3>2. y.pc = "fill" => y.roles \subseteq InUse(y.c.caller)'
      BY <1>6, <3>1, Zenon
    <3>3. call'[v] = y /\ (y.pc \in {"write", "invalidate"} => y.c.kind \in {"assign", "remove"})
      BY <2>2, <3>1, Zenon DEF RbacInv
    <3>4. QED
      BY <3>2, <3>3, Zenon
  <2>3. QED
    BY <2>1, <2>2
<1>8. QED
  BY <1>3, <1>5, <1>7, Zenon DEF RbacInv

\* An entry goes, deleted or expired.
LEMMA EntryGoesKeeps ==
  ASSUME RbacInv,
         (\E w \in Callers : InvalidateEntry(w)) \/ (\E a \in Accounts : EntryExpires(a))
  PROVE  RbacInv'
<1>1. ASSUME NEW w \in Callers, InvalidateEntry(w) PROVE RbacInv'
  <2>1. PICK a \in Accounts : a = call[w].c.target
    BY <1>1, StateFields, CallFields, Zenon DEF InvalidateEntry, RbacInv, RbacTypeOK
  <2>2. /\ Settle(a) /\ cache' = [cache EXCEPT ![a] = NoEntry] /\ userRoles' = userRoles
        /\ call' = [call EXCEPT ![w] = Free]
    BY <1>1, <2>1, Zenon DEF InvalidateEntry, CacheKey
  <2>3. /\ call' \in [Callers -> CallStates]
        /\ \A v \in Callers : call'[v] = call[v] \/ call'[v].pc = "free"
    BY <2>2, FreeState, Zenon DEF RbacInv, RbacTypeOK
  <2>4. QED
    BY <2>2, <2>3, SettleKeeps, Zenon
<1>2. ASSUME NEW a \in Accounts, EntryExpires(a) PROVE RbacInv'
  BY <1>2, SettleKeeps, Zenon DEF EntryExpires, RbacInv, RbacTypeOK
<1>3. QED
  BY <1>1, <1>2

\* Whatever the calls and the clock do next.
LEMMA RbacKeeps == RbacInv /\ [RbacNext]_rbacVars => RbacInv'
<1> SUFFICES ASSUME RbacInv, [RbacNext]_rbacVars PROVE RbacInv'
  OBVIOUS
<1>1. CASE UNCHANGED rbacVars
  BY <1>1 DEF rbacVars, RbacInv, RbacTypeOK, InUse
<1>2. ASSUME NEW w \in Callers, NEW c \in Calls, BeginCall(w, c) PROVE RbacInv'
  BY <1>2, LookKeeps, RbacAssumption, Zenon DEF BeginCall
<1>3. ASSUME NEW w \in Callers, LookAtApprover(w) PROVE RbacInv'
  <2>1. call[w].c \in CallTypes
    BY <1>3, StateFields DEF LookAtApprover, RbacInv, RbacTypeOK
  <2>2. QED
    BY <1>3, <2>1, LookKeeps, Zenon DEF LookAtApprover
<1>4. QED
  BY <1>1, <1>2, <1>3, QueryKeeps, FillKeeps, WriteRoleKeeps, EntryGoesKeeps, Zenon DEF RbacNext

\* A step lets at most one call through, and by roles that are in use.
LEMMA StepIsBacked ==
  ASSUME RbacInv, [RbacNext]_rbacVars, NEW v \in Callers
  PROVE  Backed(v)
<1> DEFINE Lets(w, c, R) == call' = [call EXCEPT ![w] = Checked(c, R)] /\ R \subseteq InUse(c.caller)
<1>1. ASSUME NEW w \in Callers, NEW c \in CallTypes, NEW R, Lets(w, c, R) PROVE Backed(v)
  <2>1. v # w => call'[v] = call[v]
    BY <1>1, Zenon DEF RbacInv, RbacTypeOK
  <2>2. v = w => call'[v] = Checked(c, R)
    BY <1>1, Zenon DEF RbacInv, RbacTypeOK
  <2>3. Permitted(c, R) => Permitted(c, userRoles[c.caller] \cup lingers[c.caller])
    BY <1>1, PermittedGrows DEF InUse
  <2>4. CASE v # w
    BY <2>1, <2>4 DEF Backed
  <2>5. CASE v = w
    <3>1. PICK y : /\ y = Checked(c, R)
                   /\ y.pc \in {"allowed", "write"} => y.c = c /\ Permitted(c, R)
      BY CheckedIs, Zenon
    <3>2. call'[v] = y
      BY <2>2, <2>5, <3>1
    <3>3. QED
      BY <2>3, <3>1, <3>2 DEF Backed
  <2>6. QED
    BY <2>4, <2>5
<1>2. ASSUME NEW w \in Callers, NEW x, call' = [call EXCEPT ![w] = x],
             x.pc # "allowed", x.pc # "write"
      PROVE  Backed(v)
  BY <1>2, Zenon DEF Backed, RbacInv, RbacTypeOK
<1>3. CASE call' = call
  BY <1>3 DEF Backed
<1>4. ASSUME NEW w \in Callers, NEW c \in CallTypes, Look(w, c) PROVE Backed(v)
  <2>1. CASE cache[c.caller] = NoEntry
    <3>1. PICK x : x = [pc |-> "query", c |-> c]
      BY Zenon
    <3>2. x.pc # "allowed" /\ x.pc # "write" /\ call' = [call EXCEPT ![w] = x]
      BY <1>4, <2>1, <3>1 DEF Look, CacheKey
    <3>3. QED
      BY <1>2, <3>2, Zenon
  <2>2. CASE cache[c.caller] # NoEntry
    <3>1. Lets(w, c, cache[c.caller])
      BY <1>4, <2>2, CallFields, Zenon DEF Look, CacheKey, RbacInv
    <3>2. QED
      BY <1>1, <3>1, Zenon
  <2>3. QED
    BY <2>1, <2>2
<1>5. ASSUME NEW w \in Callers, call[w].pc # "free" PROVE call[w].c \in CallTypes
  BY <1>5, StateFields DEF RbacInv, RbacTypeOK
<1>6. ASSUME NEW w \in Callers, FillCache(w) PROVE Backed(v)
  <2>1. PICK c, R : c = call[w].c /\ R = call[w].roles
    BY Zenon
  <2>2. call[w].pc = "fill" /\ call' = [call EXCEPT ![w] = Checked(c, R)]
    BY <1>6, <2>1, Zenon DEF FillCache
  <2>3. c \in CallTypes /\ R \subseteq InUse(c.caller)
    BY <1>5, <2>1, <2>2, Zenon DEF RbacInv
  <2>4. Lets(w, c, R)
    BY <2>2, <2>3, Zenon
  <2>5. QED
    BY <1>1, <2>3, <2>4, Zenon
<1>7. ASSUME NEW w \in Callers, QueryRoles(w) PROVE Backed(v)
  <2>1. PICK x : x = [pc |-> "fill", c |-> call[w].c, roles |-> userRoles[call[w].c.caller]]
    BY Zenon
  <2>2. x.pc # "allowed" /\ x.pc # "write" /\ call' = [call EXCEPT ![w] = x]
    BY <1>7, <2>1 DEF QueryRoles
  <2>3. QED
    BY <1>2, <2>2, Zenon
<1>8. ASSUME NEW w \in Callers, NEW heard \in BOOLEAN, WriteRole(w, heard) PROVE Backed(v)
  <2>1. PICK x : x = IF heard THEN [pc |-> "invalidate", c |-> call[w].c] ELSE Free
    BY Zenon
  <2>2. x.pc # "allowed" /\ x.pc # "write"
    BY <2>1 DEF Free
  <2>3. call' = [call EXCEPT ![w] = x]
    BY <1>8, <2>1, Zenon DEF WriteRole
  <2>4. QED
    BY <1>2, <2>2, <2>3, Zenon
<1>9. ASSUME NEW w \in Callers, FillCachePartly(w) \/ InvalidateEntry(w) \/ StatementFails(w)
      PROVE  Backed(v)
  <2>1. call' = [call EXCEPT ![w] = Free]
    BY <1>9, Zenon DEF FillCachePartly, InvalidateEntry, StatementFails
  <2>2. Free.pc # "allowed" /\ Free.pc # "write"
    BY FreeState
  <2>3. QED
    BY <1>2, <2>1, <2>2, Zenon
<1>10. ASSUME NEW w \in Callers, LookAtApprover(w) PROVE Backed(v)
  <2>1. call[w].c \in CallTypes /\ Look(w, call[w].c)
    BY <1>5, <1>10 DEF LookAtApprover
  <2>2. QED
    BY <1>4, <2>1, Zenon
<1>11. ASSUME NEW w \in Callers, NEW c \in Calls, BeginCall(w, c) PROVE Backed(v)
  BY <1>4, <1>11, RbacAssumption, Zenon DEF BeginCall
<1>12. ASSUME UNCHANGED rbacVars \/ (\E a \in Accounts : EntryExpires(a)) PROVE Backed(v)
  BY <1>3, <1>12, Zenon DEF rbacVars, EntryExpires
<1>13. QED
  BY <1>6, <1>7, <1>8, <1>9, <1>10, <1>11, <1>12, Zenon DEF RbacNext

-------------------------------------------------------------------------------
\* In every behaviour of the six access paths, for any accounts, roles, connections,
\* sessions, logins, exchanges and limits, IndInv holds: it is what each of them
\* leaves behind at every step, and none touches the state of another.
THEOREM Invariance == Spec => []IndInv
<1>1. Init => IndInv
  BY RbacBegins, ProxyBegins, RegistryBegins, SshBegins, HttpBegins, FirewallBegins, Zenon
  DEF Init, IndInv
<1>2. IndInv /\ [Next]_vars => IndInv'
  <2> SUFFICES ASSUME IndInv, [Next]_vars PROVE IndInv'
    OBVIOUS
  <2>1. /\ [RbacNext]_rbacVars /\ [ProxyNext]_proxyVars /\ [RegistryNext]_registryVars
        /\ [SshNext]_sshVars /\ [HttpNext]_httpVars /\ [FirewallNext]_firewallVars
    BY DEF Next, vars
  <2>2. QED
    BY <2>1, RbacKeeps, ProxyKeeps, RegistryKeeps, SshKeeps, HttpKeeps, FirewallKeeps, Zenon
    DEF IndInv
<1>3. QED
  BY <1>1, <1>2, PTL DEF Spec

\* The state of all six access paths stays within the types the code declares.
THEOREM TypeCorrect == Spec => []TypeOK
<1>1. IndInv => TypeOK
  BY DEF IndInv, RbacInv, ProxyInv, RegistryInv, SshInv, HttpInv, FirewallInv, TypeOK
<1>2. QED
  BY <1>1, Invariance, PTL

\* Check, the second half of CheckSeparationOfDuties, AssignRole and RemoveRole let
\* nobody through on a role the caller does not have in the tenant, except one that
\* it lost while the cache entry or a lookup under way already held it (rbac.go:273-313
\* and 340-385, DR-AUTH-7 and fix H4).
THEOREM RoleSafety == Spec => PermittedByHeldRole
<1>1. IndInv /\ [Next]_vars => [\A w \in Callers : Backed(w)]_rbacVars
  <2> SUFFICES ASSUME IndInv, [Next]_vars PROVE \A w \in Callers : Backed(w)
    OBVIOUS
  <2>1. [RbacNext]_rbacVars
    BY DEF Next, vars
  <2>2. QED
    BY <2>1, StepIsBacked DEF IndInv
<1>2. QED
  BY <1>1, Invariance, PTL DEF Spec, PermittedByHeldRole

\* The pending counter of the TCP proxy is the number of handlers between registration
\* and removal, Stop running or not, and what is open after Stop was registered too
\* late for it (proxy.go:108-124, 185-195).
THEOREM PendingSafety == Spec => []PendingIsHeld
<1>1. IndInv => PendingIsHeld
  BY DEF IndInv, ProxyInv
<1>2. QED
  BY <1>1, Invariance, PTL

\* A live session is found by a revocation of its device and of its grant, whichever
\* sessions of the same grant come and go (proxy.go:278-325).
THEOREM RegistrySafety == Spec => []RevocationFindsSession
<1>1. IndInv => RevocationFindsSession
  BY DEF IndInv, RegistryInv
<1>2. QED
  BY <1>1, Invariance, PTL

\* A login that sshd admits was approved, and the session of one admitted over the
\* socket was registered before the answer and is found by its session ID until it is
\* terminated or the process ends (enforcer.go:133-141, 177-186, 283-295).
THEOREM LoginSafety == Spec => []AdmittedIsRegistered
<1>1. IndInv => AdmittedIsRegistered
  BY DEF IndInv, SshInv
<1>2. QED
  BY <1>1, Invariance, PTL

\* A grant of the HTTP path is redeemed at most once, and only after an approval
\* (handler.go:98-118, 241-272).
THEOREM RedeemSafety == Spec => []RedeemedOnce
<1>1. IndInv => RedeemedOnce
  BY DEF IndInv, HttpInv
<1>2. QED
  BY <1>1, Invariance, PTL

\* What the client library reports of an exchange is what the approver decided
\* (handler.go:223-236, client.go:208-222).
THEOREM VerdictSafety == Spec => []VerdictIsTheApprovers
<1>1. IndInv => VerdictIsTheApprovers
  BY DEF IndInv, HttpInv
<1>2. QED
  BY <1>1, Invariance, PTL

\* The proxy listens only while every filter that the platform's install function makes
\* of its rules is in place, over failed commands, crashes and restarts; on macOS it
\* makes none (main.go:67-70, manager.go:205-256).
THEOREM FirewallSafety == Spec => []ServedBehindFilters
<1>1. IndInv => ServedBehindFilters
  BY DEF IndInv, FirewallInv
<1>2. QED
  BY <1>1, Invariance, PTL

===============================================================================
