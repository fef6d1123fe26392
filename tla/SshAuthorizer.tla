---------------------------- MODULE SshAuthorizer ----------------------------
(***************************************************************************)
(* SSH logins (daemon/internal/ssh/enforcer.go): the PAM module and the    *)
(* AuthorizedKeysCommand helper that sshd runs, the Authorizer of the      *)
(* daemon that answers them over a local socket, and AuthorizeSession,     *)
(* which tailssh calls.                                                    *)
(*                                                                         *)
(* A login over the socket has a client end in sshd's process and a        *)
(* goroutine, handleRequest, in the daemon.  The daemon may end at any     *)
(* moment, which cuts the connection, and start again; sshd may give a     *)
(* login up.  What the request says of account and host is left out.       *)
(***************************************************************************)
EXTENDS Naturals, FiniteSets

CONSTANTS
  Logins,        \* login attempts; a login is also its session ID
  Via,           \* login -> "pam", "authkeys" or "tailssh"
  DeviceIDs,     \* devices that may be revoked
  NoDevice       \* uuid.Nil

VARIABLES
  listening,        \* Authorizer.listener is open
  running,          \* the daemon's process
  socketFile,       \* the path of the socket exists
  login,            \* login -> where the client end is
  request,          \* login -> where handleRequest is
  wire,             \* login -> what the daemon has written
  approved,         \* logins for which the approval callback said yes
  activeSessions,   \* Authorizer.activeSessions
  terminated,       \* sessions that were taken out of activeSessions
  lost              \* sessions that were in activeSessions when the process ended

sshVars == <<listening, running, socketFile, login, request, wire, approved,
             activeSessions, terminated, lost>>

SshInit ==
  /\ listening = TRUE
  /\ running = TRUE
  /\ socketFile = TRUE
  /\ login = [l \in Logins |-> "start"]
  /\ request = [l \in Logins |-> "none"]
  /\ wire = [l \in Logins |-> "nothing"]
  /\ approved = {}
  /\ activeSessions = {}
  /\ terminated = {}
  /\ lost = {}

-------------------------------------------------------------------------------
(***************************************************************************)
(* sshd: PAMAccountCheck and AuthorizedKeysHelper.Execute.                 *)
(***************************************************************************)

\* Dial and Write; the connection waits in the backlog.
Connect(l) ==
  /\ login[l] = "start" /\ Via[l] # "tailssh"
  /\ listening
  /\ login' = [login EXCEPT ![l] = "wait"]
  /\ request' = [request EXCEPT ![l] = "backlog"]
  /\ UNCHANGED <<listening, running, socketFile, wire, approved, activeSessions, terminated, lost>>

ConnectFails(l) ==
  /\ login[l] = "start" /\ Via[l] # "tailssh"
  /\ ~ listening
  /\ login' = [login EXCEPT ![l] = "refused"]
  /\ UNCHANGED <<listening, running, socketFile, request, wire, approved, activeSessions, terminated, lost>>

\* PAM wants ALLOW; the helper takes any answer but DENY for a yes.
Admits(l, answer) ==
  /\ answer # "nothing"
  /\ IF Via[l] = "pam" THEN answer = "ALLOW" ELSE answer # "DENY"

\* Read returns an answer, or an error once the connection is closed without one.
ReadAnswer(l) ==
  /\ login[l] = "wait" /\ Via[l] # "tailssh"
  /\ wire[l] # "nothing" \/ request[l] = "none"
  /\ login' = [login EXCEPT ![l] = IF Admits(l, wire[l]) THEN "admitted" ELSE "refused"]
  /\ UNCHANGED <<listening, running, socketFile, request, wire, approved, activeSessions, terminated, lost>>

\* sshd's grace time is over.
GiveUpLogin(l) ==
  /\ login[l] = "wait"
  /\ login' = [login EXCEPT ![l] = "refused"]
  /\ UNCHANGED <<listening, running, socketFile, request, wire, approved, activeSessions, terminated, lost>>

-------------------------------------------------------------------------------
(***************************************************************************)
(* tailssh: AuthorizeSession.                                              *)
(***************************************************************************)

ResolvePrincipal(l) ==
  /\ login[l] = "start" /\ Via[l] = "tailssh" /\ running
  /\ login' \in {[login EXCEPT ![l] = r] : r \in {"wait", "refused"}}
  /\ UNCHANGED <<listening, running, socketFile, request, wire, approved, activeSessions, terminated, lost>>

\* No session is registered: it lives as long as the caller lets it.
SessionAuthorized(l) ==
  /\ login[l] = "wait" /\ Via[l] = "tailssh" /\ running
  /\ login' = [login EXCEPT ![l] = "admitted"]
  /\ approved' = approved \cup {l}
  /\ UNCHANGED <<listening, running, socketFile, request, wire, activeSessions, terminated, lost>>

-------------------------------------------------------------------------------
(***************************************************************************)
(* The Authorizer.                                                         *)
(***************************************************************************)

AcceptLogin(l) ==
  /\ request[l] = "backlog" /\ listening
  /\ request' = [request EXCEPT ![l] = "approval"]
  /\ UNCHANGED <<listening, running, socketFile, login, wire, approved, activeSessions, terminated, lost>>

\* An error or no approval.  The deferred Close follows.
Deny(l) ==
  /\ request[l] = "approval"
  /\ wire' = [wire EXCEPT ![l] = "DENY"]
  /\ request' = [request EXCEPT ![l] = "none"]
  /\ UNCHANGED <<listening, running, socketFile, login, approved, activeSessions, terminated, lost>>

Approve(l) ==
  /\ request[l] = "approval"
  /\ approved' = approved \cup {l}
  /\ request' = [request EXCEPT ![l] = "register"]
  /\ UNCHANGED <<listening, running, socketFile, login, wire, activeSessions, terminated, lost>>

\* Mutant: the answer goes out before the session is registered.
RegisterAfterAllow(l) ==
  /\ request[l] = "register"
  /\ wire' = [wire EXCEPT ![l] = "ALLOW"]
  /\ request' = [request EXCEPT ![l] = "allow"]
  /\ UNCHANGED <<listening, running, socketFile, login, approved, activeSessions, terminated, lost>>

RegisterLogin(l) ==
  /\ request[l] = "register"
  /\ activeSessions' = activeSessions \cup {l}
  /\ request' = [request EXCEPT ![l] = "allow"]
  /\ UNCHANGED <<listening, running, socketFile, login, wire, approved, terminated, lost>>

\* An error of Write, when the login is given up, is ignored.
WriteAllow(l) ==
  /\ request[l] = "allow"
  /\ wire' = [wire EXCEPT ![l] = "ALLOW"]
  /\ request' = [request EXCEPT ![l] = "none"]
  /\ UNCHANGED <<listening, running, socketFile, login, approved, activeSessions, terminated, lost>>

TakeOut(ls) ==
  /\ activeSessions' = activeSessions \ ls
  /\ terminated' = terminated \cup ls
  /\ UNCHANGED <<listening, running, socketFile, login, request, wire, approved, lost>>

TerminateSession(l) == l \in activeSessions /\ TakeOut({l})

\* handleRequest sets no DeviceID.
DeviceID(l) == NoDevice

SshTerminateByDevice(d) == running /\ TakeOut({l \in activeSessions : DeviceID(l) = d})

-------------------------------------------------------------------------------
(***************************************************************************)
(* The daemon's process.                                                   *)
(***************************************************************************)

\* Stop closes the listener, which resets what waits in the backlog and removes
\* the path of the socket.  The handlers go on.
StopAuthorizer ==
  /\ listening
  /\ listening' = FALSE
  /\ socketFile' = FALSE
  /\ request' = [l \in Logins |-> IF request[l] = "backlog" THEN "none" ELSE request[l]]
  /\ UNCHANGED <<running, login, wire, approved, activeSessions, terminated, lost>>

\* The process ends, after Stop or without it.
DaemonEnds ==
  /\ running
  /\ running' = FALSE
  /\ listening' = FALSE
  /\ request' = [l \in Logins |-> "none"]
  /\ lost' = lost \cup activeSessions
  /\ activeSessions' = {}
  /\ UNCHANGED <<socketFile, login, wire, approved, terminated>>

\* Listen fails when the path is still there: the daemon goes on without the
\* Authorizer.
DaemonStarts ==
  /\ ~ running
  /\ running' = TRUE
  /\ listening' = ~ socketFile
  /\ socketFile' = TRUE
  /\ UNCHANGED <<login, request, wire, approved, activeSessions, terminated, lost>>

SshNext ==
  \/ \E l \in Logins : Connect(l) \/ ConnectFails(l) \/ ReadAnswer(l) \/ GiveUpLogin(l)
  \/ \E l \in Logins : ResolvePrincipal(l) \/ SessionAuthorized(l)
  \/ \E l \in Logins : AcceptLogin(l) \/ Deny(l) \/ Approve(l) \/ RegisterLogin(l) \/ WriteAllow(l)
  \/ \E l \in Logins : TerminateSession(l)
  \/ \E d \in DeviceIDs : SshTerminateByDevice(d)
  \/ StopAuthorizer
  \/ DaemonEnds
  \/ DaemonStarts

-------------------------------------------------------------------------------
SshTypeOK ==
  /\ {listening, running, socketFile} \subseteq BOOLEAN
  /\ listening => running /\ socketFile
  /\ login \in [Logins -> {"start", "wait", "admitted", "refused"}]
  /\ request \in [Logins -> {"none", "backlog", "approval", "register", "allow"}]
  /\ wire \in [Logins -> {"nothing", "ALLOW", "DENY"}]
  /\ approved \subseteq Logins
  /\ activeSessions \cup terminated \cup lost \subseteq approved

\* sshd admits a login only after an approval of that login, also when the daemon
\* ends between the approval and the answer, or the answer never comes.  A login
\* it admitted over the socket was registered before the answer went out, so that
\* TerminateSession with its session ID finds it from then on, until it has been
\* terminated or the process that knew of it has ended.  A revocation of a device
\* finds none of them, as no session has a DeviceID, and a tailssh session is not
\* registered at all (enforcer.go:133-141, 177-186, 283-295 and 316-329).
AdmittedIsRegistered ==
  \A l \in Logins :
    login[l] = "admitted" =>
      /\ l \in approved
      /\ Via[l] # "tailssh" /\ l \notin terminated \cup lost => l \in activeSessions

===============================================================================
