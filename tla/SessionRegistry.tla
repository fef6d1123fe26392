--------------------------- MODULE SessionRegistry ---------------------------
(***************************************************************************)
(* The registry of live sessions that a revocation goes through            *)
(* (SessionRegistry of daemon/internal/tcpproxy/proxy.go).  Its methods    *)
(* run under one lock.  A session is registered once under its connection  *)
(* ID, which is random.                                                    *)
(***************************************************************************)
EXTENDS Naturals, FiniteSets

CONSTANTS
  Sessions,     \* ActiveSession values, by ConnectionID
  GrantOf,      \* session -> GrantJTI
  DeviceOf,     \* session -> DeviceID
  Grants

ASSUME RegistryAssumption == GrantOf \in [Sessions -> Grants]

VARIABLES
  live,         \* sessions whose connection is up and not closed by the registry
  begun,        \* sessions that were ever registered
  sessions,     \* SessionRegistry.sessions
  grantMap      \* SessionRegistry.grantMap

registryVars == <<live, begun, sessions, grantMap>>

RegistryInit ==
  /\ live = {}
  /\ begun = {}
  /\ sessions = {}
  /\ grantMap = [g \in Grants |-> {}]

RegisterSession(s) ==
  /\ s \notin begun
  /\ begun' = begun \cup {s}
  /\ live' = live \cup {s}
  /\ sessions' = sessions \cup {s}
  /\ grantMap' = [grantMap EXCEPT ![GrantOf[s]] = @ \cup {s}]

\* Mutant: the entry of the grant goes with the session.
UnregisterWithGrant(s) ==
  /\ s \in live
  /\ live' = live \ {s}
  /\ sessions' = sessions \ {s}
  /\ grantMap' = [grantMap EXCEPT ![GrantOf[s]] = {}]
  /\ UNCHANGED begun

\* The session is over.  Its ID stays in grantMap.
Unregister(s) ==
  /\ s \in live
  /\ live' = live \ {s}
  /\ sessions' = sessions \ {s}
  /\ UNCHANGED <<begun, grantMap>>

\* Closes connections and drops their entries; what follows is one critical
\* section of the lock.
Terminate(closed) ==
  /\ live' = live \ closed
  /\ sessions' = sessions \ closed

TerminateByDevice(d) ==
  /\ Terminate({s \in sessions : DeviceOf[s] = d})
  /\ UNCHANGED <<begun, grantMap>>

TerminateByGrant(g) ==
  /\ Terminate(grantMap[g] \cap sessions)
  /\ grantMap' = [grantMap EXCEPT ![g] = {}]
  /\ UNCHANGED begun

RegistryNext ==
  \/ \E s \in Sessions : RegisterSession(s) \/ Unregister(s)
  \/ \E s \in Sessions : TerminateByDevice(DeviceOf[s])
  \/ \E g \in Grants : TerminateByGrant(g)

-------------------------------------------------------------------------------
RegistryTypeOK ==
  /\ sessions \subseteq begun /\ begun \subseteq Sessions /\ live \subseteq begun
  /\ grantMap \in [Grants -> SUBSET Sessions]

\* Every live session is found by both ways a revocation looks for it, by its
\* device and by its grant, whatever sessions of the grant ended or were cut
\* before: TerminateByGrant follows grantMap, which Unregister and
\* TerminateByDevice leave alone (proxy.go:278-325).
RevocationFindsSession == \A s \in live : s \in sessions /\ s \in grantMap[GrantOf[s]]

===============================================================================
