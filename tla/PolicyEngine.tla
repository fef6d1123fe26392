---------------------------- MODULE PolicyEngine ----------------------------
(***************************************************************************)
(* The policy engine (service/internal/policy/engine.go) of one tenant:    *)
(* rule matching, Evaluate, CheckCoverage and PublishPolicy.               *)
(*                                                                         *)
(* Publications and evaluations run concurrently, one database statement   *)
(* after the other and in no transaction.  A step of a call is one         *)
(* statement with the code up to the next one.  The signer PublishPolicy   *)
(* is given either signs the bundle with one key and its kid or fails.     *)
(*                                                                         *)
(* A document is the name of a sequence of rules, and its digest is that   *)
(* name.  Strings, ports and ids are members of small sets.  The tables    *)
(* only grow: nothing under src/ updates or deletes a policy.              *)
(***************************************************************************)
EXTENDS Integers, Sequences, FiniteSets, FiniteSetsExt, Functions

CONSTANTS
  Publishers,    \* calls of PublishPolicy, also the users that issue them
  Evaluators,    \* calls of Evaluate
  Documents,     \* document name -> sequence of rules
  Resources,     \* records [node, service, port, mode]
  Registered,    \* the resources that are registered from the start
  Requests,      \* what Evaluate is asked: [principal, resource, protocol, scope]
  NoUser,        \* a principal's User that is nil
  NoHash,        \* the zero prev_hash of the first bundle
  BundleTTL,     \* the five minutes of a bundle, in ticks of the clock
  MaxVersion,    \* bound on the publications stored
  MaxTime        \* bound on the clock

Effects == {"DENY", "REQUIRE_STEP_UP", "ALLOW_WITHOUT_STEP_UP"}

Names == DOMAIN Documents

Rules == UNION {Range(Documents[d]) : d \in Names}

\* A priority is any int, and ids and selectors are whatever they are.
ASSUME PolicyAssumption ==
  /\ BundleTTL \in Nat \ {0} /\ MaxVersion \in Nat /\ MaxTime \in Nat
  /\ Registered \subseteq Resources
  /\ \A d \in Names : Documents[d] \in Seq(Rules)
  /\ \A rule \in Rules : rule.priority \in Int /\ rule.effect \in Effects

VARIABLES
  now,           \* the clock, the database's and the service's
  resources,     \* the table resources
  policies,      \* the table policies: the row of version n at n
  served,        \* the version loadActiveBundle returned last, 0 before the first
  pub,           \* publisher -> the state of its call
  ev             \* evaluator -> the state of its call

policyVars == <<now, resources, policies, served, pub, ev>>

-------------------------------------------------------------------------------
(***************************************************************************)
(* Matching.  An empty dimension of a rule matches everything.             *)
(***************************************************************************)

\* A selector of groups or device tags alone matches nobody: they are not
\* resolved.  A user list is skipped for a principal without a user.
SubjectMatches(sel, principal) ==
  /\ sel.kinds # {} => principal.kind \in sel.kinds
  /\ IF sel.users # {} /\ principal.user # NoUser
     THEN principal.user \in sel.users
     ELSE sel.kinds # {} \/ sel.users \cup sel.groups \cup sel.tags = {}

\* The first kind of selector that is not empty decides alone.
ResourceMatches(sel, r) ==
  IF sel.ids # {} THEN {r.service, r.node} \cap sel.ids # {}
  ELSE IF sel.ports # {} THEN r.port \in sel.ports
  ELSE IF sel.services # {} THEN r.service \in sel.services
  ELSE sel.modes # {} => r.mode \in sel.modes

\* The dimensions of a rule that say what is accessed.
AccessMatches(rule, r, protocol) ==
  /\ rule.resources # {} => \E sel \in rule.resources : ResourceMatches(sel, r)
  /\ rule.protocols # {} => protocol \in rule.protocols

RuleMatches(rule, q) ==
  /\ rule.subjects # {} => \E sel \in rule.subjects : SubjectMatches(sel, q.principal)
  /\ AccessMatches(rule, q.resource, q.protocol)
  /\ rule.scopes # {} => q.scope \in rule.scopes

\* Mutant: ties are settled by whichever rule the sort put first.
TieUnnoticed(rules, matched, q) == FALSE

\* A rule with the matched rule's id is passed over, whatever its effect.
HasConflictingTie(rules, matched, q) ==
  \E r \in Range(rules) :
    /\ r.id # matched.id
    /\ r.priority = matched.priority
    /\ r.effect # matched.effect
    /\ RuleMatches(r, q)

\* sort.Slice is not stable: rules of one priority come in any order.
SortedRules(doc) ==
  { [i \in DOMAIN doc |-> doc[f[i]]] :
      f \in { g \in Bijection(DOMAIN doc, DOMAIN doc) :
                \A i, j \in DOMAIN doc :
                  i < j => doc[g[i]].priority >= doc[g[j]].priority } }

\* The loop over the sorted rules.
Decide(rules, q) ==
  LET matching == {i \in DOMAIN rules : RuleMatches(rules[i], q)}
      matched == rules[Min(matching)]
  IN  IF matching = {} \/ HasConflictingTie(rules, matched, q) THEN "DENY" ELSE matched.effect

-------------------------------------------------------------------------------
(***************************************************************************)
(* Coverage.  Services and ports of a selector are alternatives here, and  *)
(* ids, modes, subjects and scopes are not looked at.                      *)
(***************************************************************************)

ProtocolsOf(r) ==
  CASE r.mode = "HTTP_PROXY" -> {"TCP", "HTTP", "HTTPS"}
    [] r.mode \in {"TS_SSH", "OPENSSH"} -> {"TCP", "SSH"}
    [] OTHER -> {"TCP"}

\* Mutant: the protocols of a rule are forgotten.
CoverageByResource(rule, r, protocol) ==
  rule.resources # {} =>
    \E sel \in rule.resources : r.service \in sel.services \/ r.port \in sel.ports

CoverageRuleMatches(rule, r, protocol) ==
  /\ rule.protocols # {} => protocol \in rule.protocols
  /\ rule.resources # {} =>
       \E sel \in rule.resources : r.service \in sel.services \/ r.port \in sel.ports

Covered(doc, r, protocol) == \E rule \in Range(doc) : CoverageRuleMatches(rule, r, protocol)

CheckCoverage(doc) == \A r \in resources : \A p \in ProtocolsOf(r) : Covered(doc, r, p)

-------------------------------------------------------------------------------
(***************************************************************************)
(* The state machine.                                                      *)
(***************************************************************************)

Bundles ==
  [version : 1..MaxVersion, epoch : 1..MaxVersion, document : Names,
   prevHash : Names \cup {NoHash}, expires : Nat, by : Publishers]

IdlePublisher == [pc |-> "idle"]

IdleEvaluator == [pc |-> "idle"]

\* Where a call of PublishPolicy and one of Evaluate may be.
Publications ==
  {IdlePublisher}
    \cup
  [pc : {"read"}, document : Names]
    \cup
  [pc : {"sign"}, document : Names, version : 1..MaxVersion]
    \cup
  [pc : {"insert"}, bundle : Bundles]

Evaluations ==
  {IdleEvaluator}
    \cup
  [pc : {"load"}, req : Requests]
    \cup
  [pc : {"rules", "decided"}, req : Requests, version : 0..MaxVersion,
   decision : Effects \cup {"NOT_PROTECTED"}]

PolicyInit ==
  /\ now = 0
  /\ resources = Registered
  /\ policies = <<>>
  /\ served = 0
  /\ pub = [p \in Publishers |-> IdlePublisher]
  /\ ev = [e \in Evaluators |-> IdleEvaluator]

\* One tick of the clock.
Tick ==
  /\ now < MaxTime
  /\ now' = now + 1
  /\ UNCHANGED <<resources, policies, served, pub, ev>>

\* A resource is registered, outside the policy engine.
RegisterResource(r) ==
  /\ r \notin resources
  /\ resources' = resources \cup {r}
  /\ UNCHANGED <<now, policies, served, pub, ev>>

\* PublishPolicy up to the coverage check.  A document with gaps is refused and
\* a dry run ends here too: neither leaves anything behind.
PublishCheck(p, d) ==
  /\ pub[p].pc = "idle"
  /\ CheckCoverage(Documents[d])
  /\ pub' = [pub EXCEPT ![p] = [pc |-> "read", document |-> d]]
  /\ UNCHANGED <<now, resources, policies, served, ev>>

\* Mutant: the new version is the one that was read.
PublishReadSame(p) ==
  /\ pub[p].pc = "read"
  /\ Len(policies) < MaxVersion
  /\ pub' = [pub EXCEPT ![p] = [pc |-> "sign", document |-> pub[p].document,
                                version |-> Max({1, Len(policies)})]]
  /\ UNCHANGED <<now, resources, policies, served, ev>>

\* MAX(version) and MAX(epoch), which grow together, and their successors.
PublishRead(p) ==
  /\ pub[p].pc = "read"
  /\ Len(policies) < MaxVersion
  /\ pub' = [pub EXCEPT ![p] = [pc |-> "sign", document |-> pub[p].document,
                                version |-> Len(policies) + 1]]
  /\ UNCHANGED <<now, resources, policies, served, ev>>

\* The bundle PublishPolicy builds on the version it read.
NewBundle(p) ==
  [version |-> pub[p].version,
   epoch |-> pub[p].version,
   document |-> pub[p].document,
   prevHash |-> IF pub[p].version = 1 THEN NoHash ELSE policies[pub[p].version - 1].document,
   expires |-> now + BundleTTL,
   by |-> p]

\* The digest of the row that was read, the bundle and its signature.
PublishSign(p) ==
  /\ pub[p].pc = "sign"
  /\ pub' = [pub EXCEPT ![p] = [pc |-> "insert", bundle |-> NewBundle(p)]]
  /\ UNCHANGED <<now, resources, policies, served, ev>>

\* Mutant: ON CONFLICT DO UPDATE.
InsertOrUpdate(b) ==
  IF b.version \in DOMAIN policies THEN [policies EXCEPT ![b.version] = b] ELSE Append(policies, b)

\* ON CONFLICT (tenant_id, version) DO NOTHING.
Insert(b) == IF b.version \in DOMAIN policies THEN policies ELSE Append(policies, b)

\* The result says Published whether or not the row was inserted.
PublishInsert(p) ==
  /\ pub[p].pc = "insert"
  /\ policies' = Insert(pub[p].bundle)
  /\ pub' = [pub EXCEPT ![p] = IdlePublisher]
  /\ UNCHANGED <<now, resources, served, ev>>

\* A statement or the signer fails, the digest included: without it prev_hash
\* is NULL, which the table refuses.
PublishFails(p) ==
  /\ pub[p].pc \in {"read", "sign", "insert"}
  /\ pub' = [pub EXCEPT ![p] = IdlePublisher]
  /\ UNCHANGED <<now, resources, policies, served, ev>>

\* The registry is keyed by node, service and port, not by the mode.
IsResourceProtected(r) ==
  \E x \in resources : x.node = r.node /\ x.service = r.service /\ x.port = r.port

\* Evaluate up to its first statement.
EvaluateProtected(e, q) ==
  /\ ev[e].pc \in {"idle", "decided"}
  /\ ev' = [ev EXCEPT ![e] = IF IsResourceProtected(q.resource)
                             THEN [pc |-> "load", req |-> q]
                             ELSE [pc |-> "decided", req |-> q, version |-> 0,
                                   decision |-> "NOT_PROTECTED"]]
  /\ UNCHANGED <<now, resources, policies, served, pub>>

Unexpired == {n \in DOMAIN policies : policies[n].expires > now}

\* ORDER BY version DESC LIMIT 1; 0 when there is no row.
LoadActiveBundle == IF Unexpired = {} THEN 0 ELSE Max(Unexpired)

\* Without a valid bundle the decision is DENY.
EvaluateLoad(e) ==
  /\ ev[e].pc = "load"
  /\ LET n == LoadActiveBundle
     IN  /\ ev' = [ev EXCEPT ![e] =
                     [pc |-> IF n = 0 THEN "decided" ELSE "rules", req |-> ev[e].req,
                      version |-> n, decision |-> "DENY"]]
         /\ served' = IF n = 0 THEN served ELSE n
  /\ UNCHANGED <<now, resources, policies, pub>>

Fresh(b) == now <= b.expires

\* The freshness check and the rules of the bundle that was loaded.
EvaluateRules(e) ==
  /\ ev[e].pc = "rules"
  /\ LET b == policies[ev[e].version]
     IN  \/ /\ Fresh(b)
            /\ \E rules \in SortedRules(Documents[b.document]) :
                 ev' = [ev EXCEPT ![e].pc = "decided", ![e].decision = Decide(rules, ev[e].req)]
         \/ /\ ~ Fresh(b)
            /\ ev' = [ev EXCEPT ![e].pc = "decided", ![e].version = 0]
  /\ UNCHANGED <<now, resources, policies, served, pub>>

PolicyNext ==
  \/ Tick
  \/ \E r \in Resources : RegisterResource(r)
  \/ \E p \in Publishers, d \in Names : PublishCheck(p, d)
  \/ \E p \in Publishers : PublishRead(p)
  \/ \E p \in Publishers : PublishSign(p)
  \/ \E p \in Publishers : PublishInsert(p)
  \/ \E p \in Publishers : PublishFails(p)
  \/ \E e \in Evaluators, q \in Requests : EvaluateProtected(e, q)
  \/ \E e \in Evaluators : EvaluateLoad(e)
  \/ \E e \in Evaluators : EvaluateRules(e)

-------------------------------------------------------------------------------
(***************************************************************************)
(* Properties.                                                             *)
(***************************************************************************)

PolicyTypeOK ==
  /\ now \in 0..MaxTime
  /\ resources \subseteq Resources
  /\ policies \in Seq(Bundles)
  /\ served \in 0..Len(policies)
  /\ pub \in [Publishers -> Publications]
  /\ ev \in [Evaluators -> Evaluations]
  /\ \A e \in Evaluators :
       ev[e].pc \in {"rules", "decided"} => ev[e].version \in 0..Len(policies)

UniqueIds(doc) == \A i, j \in DOMAIN doc : doc[i].id = doc[j].id => i = j

\* What the matching rules of the highest priority agree on, else DENY.
ReferenceDecision(doc, q) ==
  LET matching == {r \in Range(doc) : RuleMatches(r, q)}
      top == {r \in matching : \A s \in matching : s.priority <= r.priority}
      effects == {r.effect : r \in top}
  IN  IF Cardinality(effects) = 1 THEN CHOOSE x \in effects : TRUE ELSE "DENY"

\* Evaluate's loop over an unstably sorted copy decides what the matching rules
\* of the highest priority agree on and DENY when they do not, whatever the
\* order the sort left ties in, provided no two rules share an id (DR-POL-4
\* "equal-priority conflicting rules", DR-POL-5).
DecisionIsReference ==
  \A e \in Evaluators :
    ev[e].pc = "decided" /\ ev[e].version > 0 =>
      LET doc == Documents[policies[ev[e].version].document]
      IN  UniqueIds(doc) => ev[e].decision = ReferenceDecision(doc, ev[e].req)

\* Concurrent publications that read the same MAX(version) leave one chain: the
\* bundle of each version follows the one before it, in version, in epoch and
\* by the digest of its document, also after the loser's INSERT (DR-POL-7, 8).
VersionsLinked ==
  \A n \in DOMAIN policies :
    /\ policies[n].version = n
    /\ policies[n].epoch = n
    /\ policies[n].prevHash = IF n = 1 THEN NoHash ELSE policies[n - 1].document

\* What was published stays: loadActiveBundle never goes back to an older bundle,
\* although expires_at is fixed before the signer and the INSERT take their time
\* (DR-POL-8), and a publication PublishPolicy reports is in the table, unless a
\* concurrent one of somebody else took its version (ON CONFLICT DO NOTHING).
PublishedStays ==
  [][/\ served' >= served
     /\ \A p \in Publishers :
          PublishInsert(p) =>
            LET b == pub[p].bundle
            IN  policies'[b.version] = b \/ policies[b.version].by # p]_policyVars

\* A selector of one kind, services or ports.
SingleKind(sel) ==
  /\ sel.ids = {} /\ sel.modes = {}
  /\ (sel.services = {}) # (sel.ports = {})

\* What CheckCoverage counts as covered, Evaluate matches with some rule if no
\* subject or scope stands in the way and no selector mixes services with ports,
\* ids or modes: the two implementations of matching agree there (DR-POL-6).
CoverageAgrees ==
  \A n \in DOMAIN policies :
    LET doc == Documents[policies[n].document]
    IN  (\A rule \in Range(doc) : \A sel \in rule.resources : SingleKind(sel)) =>
          \A r \in Resources : \A p \in ProtocolsOf(r) :
            Covered(doc, r, p) => \E rule \in Range(doc) : AccessMatches(rule, r, p)

===============================================================================
