----------------------------- MODULE AccessPaths -----------------------------
(***************************************************************************)
(* The places where somebody is let in: the role checks of the service,    *)
(* and of the daemon the TCP proxy, the registry of live sessions, the SSH *)
(* authorizer, the HTTP path with its client library, and the rules that   *)
(* leave no other way to the backend.                                      *)
(*                                                                         *)
(* They share no state and do not call each other.  As in ControlPlane one *)
(* of them moves in a behaviour, `part', and a property of it holds of     *)
(* every interleaving with the others.                                     *)
(***************************************************************************)
EXTENDS Rbac, TcpProxy, SessionRegistry, SshAuthorizer, Interstitial,
        FirewallManager

VARIABLE part

vars == <<part, rbacVars, proxyVars, registryVars, sshVars, httpVars, firewallVars>>

\* The platform matters to no other part.
Init ==
  /\ part \in {"rbac", "tcp", "registry", "ssh", "http", "firewall"}
  /\ RbacInit
  /\ ProxyInit
  /\ RegistryInit
  /\ SshInit
  /\ HttpInit
  /\ FirewallInit
  /\ part # "firewall" => os = "linux"

Next ==
  \/ /\ part = "rbac" /\ RbacNext
     /\ UNCHANGED <<part, proxyVars, registryVars, sshVars, httpVars, firewallVars>>
  \/ /\ part = "tcp" /\ ProxyNext
     /\ UNCHANGED <<part, rbacVars, registryVars, sshVars, httpVars, firewallVars>>
  \/ /\ part = "registry" /\ RegistryNext
     /\ UNCHANGED <<part, rbacVars, proxyVars, sshVars, httpVars, firewallVars>>
  \/ /\ part = "ssh" /\ SshNext
     /\ UNCHANGED <<part, rbacVars, proxyVars, registryVars, httpVars, firewallVars>>
  \/ /\ part = "http" /\ HttpNext
     /\ UNCHANGED <<part, rbacVars, proxyVars, registryVars, sshVars, firewallVars>>
  \/ /\ part = "firewall" /\ FirewallNext
     /\ UNCHANGED <<part, rbacVars, proxyVars, registryVars, sshVars, httpVars>>

\* In a behaviour in which another part moves, the steps a part is obliged to
\* take are not enabled: all of them go on with something that was begun.
Fairness == RbacFairness /\ ProxyFairness /\ HttpFairness

Spec == Init /\ [][Next]_vars /\ Fairness

\* The types of the six parts' state.
TypeOK == RbacTypeOK /\ ProxyTypeOK /\ RegistryTypeOK /\ SshTypeOK /\ HttpTypeOK
          /\ FirewallTypeOK

===============================================================================
