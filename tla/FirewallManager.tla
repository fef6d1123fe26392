--------------------------- MODULE FirewallManager ---------------------------
(***************************************************************************)
(* Backend isolation (daemon/internal/firewall/manager.go) over the life   *)
(* of the daemon (main in daemon/cmd/dnv-daemon/main.go): rules are        *)
(* installed before the proxy listens and removed after it has stopped.    *)
(*                                                                         *)
(* log.Fatalf and crashes end the process without its deferred calls.  The *)
(* packet filter keeps its rules over the end of the process; nobody else  *)
(* changes it.  The verification loop discards what it finds and is left   *)
(* out.  A filter is what the command says that installs it, not the rule  *)
(* it was made from.  Whether nft and netsh accept what they are told is   *)
(* left open: each command does it or fails, nft as a whole.  main is      *)
(* taken from its line 66 on, with a configuration and a grant cache.      *)
(***************************************************************************)
EXTENDS Naturals, Sequences

VARIABLES
  os,          \* Manager.os
  kernel,      \* the filters the packet filter has
  rules,       \* Manager.rules
  main,        \* where main is
  next         \* the rule the loop of installWFP or RemoveAll is at

firewallVars == <<os, kernel, rules, main, next>>

\* The fields of FirewallRule that differ.  Addresses and ports are those of the
\* backend and of the proxy; none is the empty string, and port 0.
Rule(name, protocol, dstAddr, dstPort, target) ==
  [ name |-> name, protocol |-> protocol, dstAddr |-> dstAddr, dstPort |-> dstPort,
    target |-> target ]

\* linuxNftablesRules, windowsWFPRules and macOSPFCRules.
RulesOf ==
  [ linux |-> << Rule("deny-backend-v4", "tcp", "backend", "backend", "DROP"),
                 Rule("deny-backend-v6", "tcp", "backend", "backend", "DROP"),
                 Rule("deny-backend-udp", "udp", "backend", "none", "DROP"),
                 Rule("allow-proxy-port", "tcp", "none", "proxy", "ACCEPT") >>,
    windows |-> << Rule("deny-backend", "tcp", "backend", "backend", "BLOCK"),
                   Rule("deny-backend-udp", "udp", "backend", "none", "BLOCK") >>,
    macos |-> << Rule("deny-backend", "tcp", "backend", "backend", "DROP"),
                 Rule("deny-backend-udp", "udp", "backend", "none", "DROP") >> ]

\* The line of the nft script for a rule: its name and its Target are not used.
NftLine(r) ==
  [protocol |-> r.protocol, daddr |-> r.dstAddr, dport |-> r.dstPort, verdict |-> "drop"]

\* The netsh command for a rule: its port and its Target are not used.
NetshRule(r) ==
  [name |-> r.name, protocol |-> r.protocol, remoteip |-> r.dstAddr, action |-> "block"]

FirewallInit ==
  /\ os \in DOMAIN RulesOf
  /\ kernel = {}
  /\ rules = <<>>
  /\ main = "down"
  /\ next = 1

-------------------------------------------------------------------------------
(***************************************************************************)
(* main up to the listening proxy.                                         *)
(***************************************************************************)

\* ApplyBackendIsolation notes the rules before it installs them.
ApplyBackendIsolation ==
  /\ main = "down"
  /\ main' = "install"
  /\ rules' = RulesOf[os]
  /\ next' = 1
  /\ UNCHANGED <<os, kernel>>

\* One script that replaces the whole table.
InstallNftables ==
  /\ main = "install" /\ os = "linux"
  /\ kernel' = {NftLine(rules[i]) : i \in DOMAIN rules}
  /\ main' = "applied"
  /\ UNCHANGED <<os, rules, next>>

\* One netsh command; a rule that is there already is added beside it.
InstallWFP ==
  /\ main = "install" /\ os = "windows"
  /\ kernel' = kernel \cup {NetshRule(rules[next])}
  /\ next' = next + 1
  /\ main' = IF next = Len(rules) THEN "applied" ELSE "install"
  /\ UNCHANGED <<os, rules>>

\* pfctl -e, and nothing else.
InstallPF ==
  /\ main = "install" /\ os = "macos"
  /\ main' = "applied"
  /\ UNCHANGED <<os, kernel, rules, next>>

\* Mutant: main logs the error and goes on.
LogAndGoOn ==
  /\ main = "install" /\ os # "macos"
  /\ main' = "applied"
  /\ UNCHANGED <<os, kernel, rules, next>>

\* A command fails: log.Fatalf.
InstallFails ==
  /\ main = "install" /\ os # "macos"
  /\ main' = "down"
  /\ rules' = <<>>
  /\ UNCHANGED <<os, kernel, next>>

StartProxy ==
  /\ main = "applied"
  /\ main' = "serving"
  /\ UNCHANGED <<os, kernel, rules, next>>

\* log.Fatalf, of the proxy, the TLS configuration or the HTTPS server, a crash,
\* or the return of main: the packet filter keeps what it has.
ProcessEnds ==
  /\ main # "down"
  /\ main' = "down"
  /\ rules' = <<>>
  /\ UNCHANGED <<os, kernel, next>>

-------------------------------------------------------------------------------
(***************************************************************************)
(* The deferred calls, last one first.                                     *)
(***************************************************************************)

\* A signal: the proxy and the authorizer are stopped, then the firewall.
StopProxy ==
  /\ main = "serving"
  /\ main' = "remove"
  /\ next' = 1
  /\ UNCHANGED <<os, kernel, rules>>

\* What one command of RemoveAll deletes: the table, or the filters of a name.
Deleted == CASE os = "linux" -> kernel
             [] os = "windows" -> {f \in kernel : f.name = rules[next].name}
             [] os = "macos" -> {}

\* Errors are ignored.
RemoveAll(ok) ==
  /\ main = "remove"
  /\ kernel' = IF ok THEN kernel \ Deleted ELSE kernel
  /\ IF os = "windows" /\ next < Len(rules)
       THEN next' = next + 1 /\ UNCHANGED <<main, rules>>
       ELSE main' = "stopped" /\ rules' = <<>> /\ UNCHANGED next
  /\ UNCHANGED os

FirewallNext ==
  \/ ApplyBackendIsolation
  \/ InstallNftables
  \/ InstallWFP
  \/ InstallPF
  \/ InstallFails
  \/ StartProxy
  \/ ProcessEnds
  \/ StopProxy
  \/ \E ok \in BOOLEAN : RemoveAll(ok)

-------------------------------------------------------------------------------
\* What ApplyBackendIsolation gives the packet filter when it succeeds.
Filters(o) ==
  CASE o = "linux" -> {NftLine(RulesOf[o][i]) : i \in DOMAIN RulesOf[o]}
    [] o = "windows" -> {NetshRule(RulesOf[o][i]) : i \in DOMAIN RulesOf[o]}
    [] o = "macos" -> {}

FirewallTypeOK ==
  /\ os \in DOMAIN RulesOf
  /\ kernel \subseteq Filters(os)
  /\ rules \in {<<>>, RulesOf[os]}
  /\ main \in {"down", "install", "applied", "serving", "remove", "stopped"}
  /\ next \in 1..Len(RulesOf[os]) + 1

\* The proxy listens only while every filter of the platform is in place, over
\* failed commands, crashes in the middle of the loop of netsh and restarts: no
\* way leads from a rule that did not go in to a listening proxy, and none is
\* taken away while it listens (main.go:67-70 and 123).  On Linux the filters drop
\* TCP to the backend's port and, from the ACCEPT rule, to the proxy's own; on
\* Windows they block what comes from the backend's address; on macOS there are
\* none (manager.go:205-256).
ServedBehindFilters == main = "serving" => kernel = Filters(os)

===============================================================================
