-------------------------- MODULE ControlPlaneProofs --------------------------
(***************************************************************************)
(* Proofs about PolicyEngine, its publications, evaluations and decisions, *)
(* and about the three parts of ControlPlane together, for any documents,  *)
(* calls, keys and credentials.  What the steps of the other two parts     *)
(* keep is proved in ControlPlaneParts.                                    *)
(***************************************************************************)
EXTENDS ControlPlane, ControlPlaneParts, FiniteSetTheorems, WellFoundedInduction, TLAPS

\* What a bundle that PublishPolicy has built, or is about to build, has to do with
\* the rows that are there.  The table goes on growing under it.
Builds(p, v) ==
  /\ v <= Len(policies) + 1
  /\ \A n \in DOMAIN policies : n >= v => policies[n].by # p

Follows(p, b) ==
  /\ b.version <= Len(policies) + 1 /\ b.epoch = b.version /\ b.by = p
  /\ b.prevHash = IF b.version = 1 THEN NoHash ELSE policies[b.version - 1].document
  /\ b.expires <= now + BundleTTL
  /\ \A n \in DOMAIN policies : /\ n < b.version => policies[n].expires <= b.expires
                                /\ n >= b.version => policies[n].by # p

\* A later bundle expires no earlier.
ExpiryGrows ==
  /\ \A n \in DOMAIN policies : policies[n].expires <= now + BundleTTL
  /\ \A m, n \in DOMAIN policies : m <= n => policies[m].expires <= policies[n].expires

PolicyInv ==
  /\ PolicyTypeOK
  /\ VersionsLinked
  /\ DecisionIsReference
  /\ ExpiryGrows
  /\ \A p \in Publishers : /\ pub[p].pc = "sign" => Builds(p, pub[p].version)
                           /\ pub[p].pc = "insert" => Follows(p, pub[p].bundle)
  /\ \A e \in Evaluators : ev[e].pc = "rules" => ev[e].version > 0

IndInv == PolicyInv /\ KeyInv /\ EnrollInv

-------------------------------------------------------------------------------
(***************************************************************************)
(* Matching and decisions.                                                 *)
(***************************************************************************)

\* A set of numbers that is not empty has a least one: the first rule that matches.
LEMMA MinIs ==
  ASSUME NEW S \in SUBSET Nat, S # {}
  PROVE  Min(S) \in S /\ \A x \in S : Min(S) <= x
<1>1. PICK R : R = {ss \in Nat \X Nat : ss[1] < ss[2]}
  BY Zenon
<1>2. IsWellFoundedOn(R, Nat)
  BY <1>1, NatLessThanWellFounded DEF OpToRel
<1>3. PICK x \in S : \A y \in S : ~ (<<y, x>> \in R)
  BY <1>2, WFMin, Zenon
<1>4. \A y \in Nat : y < x => <<y, x>> \in R
  BY <1>1
<1>5. \A y \in S : y \in Nat /\ ~ (y < x)
  BY <1>3, <1>4, Zenon
<1>6. \A y \in S : x <= y
  BY <1>5
<1>7. QED
  BY <1>6, Zenon DEF Min

\* With a bound it has a greatest one: the version ORDER BY version DESC finds.
LEMMA MaxIs ==
  ASSUME NEW n \in Nat, NEW S \in SUBSET (0..n), S # {}
  PROVE  Max(S) \in S /\ \A x \in S : x <= Max(S)
<1>1. PICK T : T = {n - x : x \in S}
  BY Zenon
<1>2. \A x \in S : x \in Nat /\ x <= n /\ n - x \in Nat
  OBVIOUS
<1>3. T \in SUBSET Nat /\ T # {}
  BY <1>1, <1>2, Zenon
<1>4. PICK z \in T : \A y \in T : z <= y
  BY <1>3, MinIs, Zenon
<1>5. PICK x \in S : z = n - x
  BY <1>1, <1>4
<1>6. \A y \in S : n - x <= n - y
  BY <1>1, <1>4, <1>5
<1>7. \A y \in S : y <= x
  BY <1>6
<1>8. QED
  BY <1>7, Zenon DEF Max

\* The sorted copy has the rules of the document, the higher priorities first.
LEMMA SortedIs ==
  ASSUME NEW d \in Names, NEW rules \in SortedRules(Documents[d])
  PROVE  /\ DOMAIN rules = 1..Len(Documents[d]) /\ Len(Documents[d]) \in Nat
         /\ Range(rules) = Range(Documents[d])
         /\ \A i \in DOMAIN rules : rules[i] \in Range(Documents[d])
         /\ \A i, j \in DOMAIN rules : i < j => rules[i].priority >= rules[j].priority
<1>1. PICK doc \in Seq(Rules) : doc = Documents[d]
  BY PolicyAssumption
<1>2. PICK f \in Bijection(DOMAIN doc, DOMAIN doc) :
        /\ \A i, j \in DOMAIN doc : i < j => doc[f[i]].priority >= doc[f[j]].priority
        /\ rules = [i \in DOMAIN doc |-> doc[f[i]]]
  BY <1>1 DEF SortedRules
<1>3. /\ f \in [DOMAIN doc -> DOMAIN doc]
      /\ \A j \in DOMAIN doc : \E i \in DOMAIN doc : f[i] = j
  BY DEF Bijection, Injection, Surjection
<1>4. DOMAIN rules = DOMAIN doc /\ \A i \in DOMAIN doc : rules[i] = doc[f[i]]
  BY <1>2
<1>5. Range(rules) = Range(doc)
  BY <1>3, <1>4 DEF Range
<1>6. DOMAIN doc = 1..Len(doc) /\ Len(doc) \in Nat
  BY <1>1
<1>7. \A i \in DOMAIN rules : rules[i] \in Range(doc)
  BY <1>3, <1>4 DEF Range
<1>8. \A i, j \in DOMAIN rules : i < j => rules[i].priority >= rules[j].priority
  BY <1>2, <1>4
<1>9. QED
  BY <1>1, <1>4, <1>5, <1>6, <1>7, <1>8

\* Any rule of a document has a priority that can be compared and an effect.
LEMMA RuleOf ==
  ASSUME NEW d \in Names, NEW rule \in Range(Documents[d])
  PROVE  rule.priority \in Int /\ rule.effect \in Effects
<1>1. rule \in Rules
  BY DEF Rules
<1>2. QED
  BY <1>1, PolicyAssumption, Zenon

\* The loop decides DENY, or the effect of a rule of the highest priority that
\* matches.
LEMMA FirstMatch ==
  ASSUME NEW d \in Names, NEW rules \in SortedRules(Documents[d]), NEW q,
         NEW i \in DOMAIN rules, RuleMatches(rules[i], q)
  PROVE  \E r \in Range(Documents[d]) :
           /\ RuleMatches(r, q)
           /\ \A s \in Range(Documents[d]) : RuleMatches(s, q) => s.priority <= r.priority
           /\ Decide(rules, q) = IF HasConflictingTie(rules, r, q) THEN "DENY" ELSE r.effect
<1>1. PICK S : S = {j \in DOMAIN rules : RuleMatches(rules[j], q)}
  BY Zenon
<1>2. S \in SUBSET Nat /\ S # {}
  BY <1>1, SortedIs
<1>3. PICK m \in S : m = Min(S) /\ \A j \in S : m <= j
  BY <1>2, MinIs, Zenon
<1>4. m \in DOMAIN rules /\ RuleMatches(rules[m], q) /\ rules[m] \in Range(Documents[d])
  BY <1>1, <1>3, SortedIs
<1>5. ASSUME NEW s \in Range(Documents[d]), RuleMatches(s, q)
      PROVE  s.priority <= rules[m].priority
  <2>1. s \in Range(rules)
    BY <1>5, SortedIs
  <2>2. PICK j \in DOMAIN rules : s = rules[j]
    BY <2>1 DEF Range
  <2>3. m <= j /\ m \in Nat /\ j \in Nat
    BY <1>1, <1>2, <1>3, <1>5, <2>2
  <2>4. CASE m = j
    BY <1>5, <2>2, <2>4, RuleOf
  <2>5. CASE m < j
    <3>1. rules[m].priority >= s.priority
      BY <1>4, <2>2, <2>5, SortedIs
    <3>2. QED
      BY <3>1, <1>4, <1>5, RuleOf
  <2>6. QED
    BY <2>3, <2>4, <2>5
<1>6. Decide(rules, q) = IF HasConflictingTie(rules, rules[m], q) THEN "DENY"
                         ELSE rules[m].effect
  BY <1>1, <1>2, <1>3 DEF Decide
<1>7. QED
  BY <1>4, <1>5, <1>6

\* Without a rule that matches the loop falls through to DENY.
LEMMA NoMatch ==
  ASSUME NEW rules, NEW q, \A i \in DOMAIN rules : ~ RuleMatches(rules[i], q)
  PROVE  Decide(rules, q) = "DENY"
BY DEF Decide

\* What the loop decides is one of the three effects.
LEMMA DecisionType ==
  ASSUME NEW d \in Names, NEW rules \in SortedRules(Documents[d]), NEW q
  PROVE  Decide(rules, q) \in Effects
<1>1. CASE \A i \in DOMAIN rules : ~ RuleMatches(rules[i], q)
  BY <1>1, NoMatch DEF Effects
<1>2. CASE \E i \in DOMAIN rules : RuleMatches(rules[i], q)
  <2>1. PICK r \in Range(Documents[d]) :
          Decide(rules, q) = IF HasConflictingTie(rules, r, q) THEN "DENY" ELSE r.effect
    BY <1>2, FirstMatch
  <2>2. QED
    BY <2>1, RuleOf DEF Effects
<1>3. QED
  BY <1>1, <1>2

\* The decision of Evaluate's loop is the one the rules of the highest priority
\* agree on, in whatever order the sort left the ties: with distinct ids a tie of
\* two effects is noticed from either of its rules (DR-POL-4, 5).
LEMMA DecisionAgrees ==
  ASSUME NEW d \in Names, NEW rules \in SortedRules(Documents[d]), NEW q,
         UniqueIds(Documents[d])
  PROVE  Decide(rules, q) = ReferenceDecision(Documents[d], q)
<1>1. PICK M : M = {r \in Range(Documents[d]) : RuleMatches(r, q)}
  BY Zenon
<1>2. PICK T : T = {r \in M : \A s \in M : s.priority <= r.priority}
  BY Zenon
<1>3. PICK E : E = {r.effect : r \in T}
  BY Zenon
<1>4. ReferenceDecision(Documents[d], q) =
        IF Cardinality(E) = 1 THEN CHOOSE x \in E : TRUE ELSE "DENY"
  BY <1>1, <1>2, <1>3 DEF ReferenceDecision
<1>5. IsFiniteSet(E)
  <2>1. IsFiniteSet(Effects)
    <3>1. PICK A : A = {"DENY"} /\ IsFiniteSet(A)
      BY FS_Singleton, Zenon
    <3>2. PICK B : B = A \cup {"REQUIRE_STEP_UP"} /\ IsFiniteSet(B)
      BY <3>1, FS_AddElement, Zenon
    <3>3. IsFiniteSet(B \cup {"ALLOW_WITHOUT_STEP_UP"})
      BY <3>2, FS_AddElement
    <3>4. Effects = B \cup {"ALLOW_WITHOUT_STEP_UP"}
      BY <3>1, <3>2 DEF Effects
    <3>5. QED
      BY <3>3, <3>4, Zenon
  <2>2. E \subseteq Effects
    BY <1>1, <1>2, <1>3, RuleOf
  <2>3. QED
    BY <2>1, <2>2, FS_Subset
<1>6. CASE \A i \in DOMAIN rules : ~ RuleMatches(rules[i], q)
  <2>1. \A r \in Range(Documents[d]) : ~ RuleMatches(r, q)
    <3>1. Range(rules) = Range(Documents[d])
      BY SortedIs
    <3>2. \A r \in Range(rules) : ~ RuleMatches(r, q)
      BY <1>6 DEF Range
    <3>3. QED
      BY <3>1, <3>2, Zenon
  <2>2. E = {}
    BY <2>1, <1>1, <1>2, <1>3
  <2>3. Cardinality(E) # 1
    BY <2>2, FS_EmptySet
  <2>4. QED
    BY <2>3, <1>4, <1>6, NoMatch
<1>7. CASE \E i \in DOMAIN rules : RuleMatches(rules[i], q)
  <2>1. PICK r \in Range(Documents[d]) :
          /\ RuleMatches(r, q)
          /\ \A s \in Range(Documents[d]) : RuleMatches(s, q) => s.priority <= r.priority
          /\ Decide(rules, q) = IF HasConflictingTie(rules, r, q) THEN "DENY" ELSE r.effect
    BY <1>7, FirstMatch
  <2>2. r \in T /\ r.effect \in E
    BY <1>1, <1>2, <1>3, <2>1
  <2>3. CASE HasConflictingTie(rules, r, q)
    <3>1. PICK s \in Range(Documents[d]) :
            s.priority = r.priority /\ s.effect # r.effect /\ RuleMatches(s, q)
      BY <2>3, SortedIs DEF HasConflictingTie
    <3>2. s \in T /\ s.effect \in E
      BY <1>1, <1>2, <1>3, <2>1, <3>1
    <3>3. Cardinality(E) # 1
      BY <2>2, <3>1, <3>2, <1>5, FS_Singleton
    <3>4. QED
      BY <3>3, <1>4, <2>1, <2>3
  <2>4. CASE ~ HasConflictingTie(rules, r, q)
    <3>1. ASSUME NEW s \in T
          PROVE  s.effect = r.effect
      <4>1. s \in Range(Documents[d]) /\ RuleMatches(s, q)
        BY <1>1, <1>2, <3>1
      <4>2. s.priority = r.priority
        <5>1. s.priority <= r.priority /\ r.priority <= s.priority
          BY <1>1, <1>2, <2>1, <2>2, <4>1
        <5>2. QED
          BY <5>1, <4>1, <2>1, RuleOf
      <4>3. CASE s.id = r.id
        BY <4>3, <4>1, <2>1 DEF UniqueIds, Range
      <4>4. CASE s.id # r.id
        BY <4>1, <4>2, <4>4, <2>4, SortedIs DEF HasConflictingTie
      <4>5. QED
        BY <4>3, <4>4
    <3>2. E = {r.effect}
      BY <1>3, <2>2, <3>1
    <3>3. Cardinality(E) = 1
      BY <3>2, FS_Singleton, Zenon
    <3>4. QED
      BY <3>2, <3>3, <1>4, <2>1, <2>4
  <2>5. QED
    BY <2>3, <2>4
<1>8. QED
  BY <1>6, <1>7

-------------------------------------------------------------------------------
(***************************************************************************)
(* Coverage.                                                               *)
(***************************************************************************)

\* A rule CheckCoverage counts matches in Evaluate what it is counted for, where
\* each of its selectors is of one kind.
LEMMA CoverageRuleAgrees ==
  ASSUME NEW rule, NEW r, NEW protocol, CoverageRuleMatches(rule, r, protocol),
         \A sel \in rule.resources : SingleKind(sel)
  PROVE  AccessMatches(rule, r, protocol)
<1>1. ASSUME NEW sel \in rule.resources, r.service \in sel.services \/ r.port \in sel.ports
      PROVE  ResourceMatches(sel, r)
  BY <1>1 DEF SingleKind, ResourceMatches
<1>2. QED
  BY <1>1 DEF CoverageRuleMatches, AccessMatches

\* So what CheckCoverage finds covered is matched, in any document at all
\* (DR-POL-6).
LEMMA CoverageHolds == CoverageAgrees
BY CoverageRuleAgrees DEF CoverageAgrees, Covered

-------------------------------------------------------------------------------
(***************************************************************************)
(* Publications and evaluations.                                           *)
(***************************************************************************)

\* Where a call is tells which fields its state has.
LEMMA PublicationFields ==
  ASSUME NEW x \in Publications
  PROVE  /\ x.pc \in {"idle", "read", "sign", "insert"}
         /\ x.pc \in {"read", "sign"} => x.document \in Names
         /\ x.pc = "sign" => x.version \in 1..MaxVersion
         /\ x.pc = "insert" => x.bundle \in Bundles
BY DEF Publications, IdlePublisher

LEMMA EvaluationFields ==
  ASSUME NEW x \in Evaluations
  PROVE  /\ x.pc \in {"idle", "load", "rules", "decided"}
         /\ x.pc # "idle" => x.req \in Requests
         /\ x.pc \in {"rules", "decided"} =>
              /\ x = [pc |-> x.pc, req |-> x.req, version |-> x.version, decision |-> x.decision]
              /\ x.version \in 0..MaxVersion /\ x.decision \in Effects \cup {"NOT_PROTECTED"}
BY DEF Evaluations, IdleEvaluator

\* A row of the table is a bundle.
LEMMA BundleOf ==
  ASSUME PolicyInv, NEW n \in DOMAIN policies
  PROVE  /\ policies[n] \in Bundles /\ n \in Nat
         /\ policies[n].document \in Names /\ policies[n].expires \in Nat
         /\ n \in 1..MaxVersion
<1>1. policies \in Seq(Bundles)
  BY Zenon DEF PolicyInv, PolicyTypeOK
<1>2. policies[n] \in Bundles /\ n \in Nat
  BY <1>1
<1>3. policies[n].version = n
  BY DEF PolicyInv, VersionsLinked
<1>4. QED
  BY <1>2, <1>3 DEF Bundles

\* The tables begin empty.
LEMMA PolicyBegins == PolicyInit => PolicyInv
<1> SUFFICES ASSUME PolicyInit PROVE PolicyInv
  OBVIOUS
<1>1. /\ \A p \in Publishers : pub[p] = IdlePublisher /\ pub[p].pc = "idle"
      /\ \A e \in Evaluators : ev[e] = IdleEvaluator /\ ev[e].pc = "idle"
  BY DEF PolicyInit, IdlePublisher, IdleEvaluator
<1>2. policies = <<>> /\ policies \in Seq(Bundles) /\ Len(policies) = 0 /\ DOMAIN policies = {}
  BY DEF PolicyInit
<1>3. PolicyTypeOK
  BY <1>1, <1>2, PolicyAssumption DEF PolicyInit, PolicyTypeOK, Publications, Evaluations
<1>4. VersionsLinked /\ DecisionIsReference /\ ExpiryGrows
  BY <1>1, <1>2 DEF VersionsLinked, DecisionIsReference, ExpiryGrows
<1>5. QED
  BY <1>1, <1>3, <1>4 DEF PolicyInv

\* A step of one publication that leaves the table alone.
LEMMA OnePublisher ==
  ASSUME PolicyInv, NEW p \in Publishers, NEW x \in Publications,
         pub' = [pub EXCEPT ![p] = x],
         UNCHANGED <<now, resources, policies, served, ev>>,
         x.pc = "sign" => Builds(p, x.version),
         x.pc = "insert" => Follows(p, x.bundle)
  PROVE  PolicyInv'
<1>1. pub' \in [Publishers -> Publications]
  BY Zenon DEF PolicyInv, PolicyTypeOK
<1>2. PolicyTypeOK'
  BY <1>1, Zenon DEF PolicyInv, PolicyTypeOK
<1>3. VersionsLinked' /\ DecisionIsReference' /\ ExpiryGrows'
  BY DEF PolicyInv, VersionsLinked, DecisionIsReference, ExpiryGrows
<1>4. ASSUME NEW o \in Publishers
      PROVE  /\ pub'[o].pc = "sign" => Builds(o, pub'[o].version)
             /\ pub'[o].pc = "insert" => Follows(o, pub'[o].bundle)
  <2>1. pub'[o] = IF o = p THEN x ELSE pub[o]
    BY Zenon DEF PolicyInv, PolicyTypeOK
  <2>2. QED
    BY <2>1 DEF PolicyInv
<1>5. \A o \in Publishers : /\ pub'[o].pc = "sign" => Builds(o, pub[o].version)'
                            /\ pub'[o].pc = "insert" => Follows(o, pub[o].bundle)'
  BY <1>4 DEF Builds, Follows
<1>6. QED
  BY <1>2, <1>3, <1>5 DEF PolicyInv

\* What expires within the lifetime of a bundle from now does so from later on.
LEMMA LaterStill == \A x, m, n, t \in Nat : x <= m + t /\ m <= n => x <= n + t
OBVIOUS

\* The clock goes on, or a resource is registered: the table stays.
LEMMA AroundKeeps ==
  ASSUME PolicyInv, Tick \/ \E r \in Resources : RegisterResource(r)
  PROVE  PolicyInv'
<1>1. /\ UNCHANGED <<policies, served, pub, ev>>
      /\ now \in Nat /\ now' \in 0..MaxTime /\ now' \in Nat /\ now <= now'
      /\ resources' \subseteq Resources
  BY PolicyAssumption DEF PolicyInv, PolicyTypeOK, Tick, RegisterResource
<1>2. PolicyTypeOK'
  BY <1>1, Zenon DEF PolicyInv, PolicyTypeOK
<1>3. VersionsLinked' /\ DecisionIsReference'
  BY <1>1 DEF PolicyInv, VersionsLinked, DecisionIsReference
<1>4. ASSUME NEW x \in Nat, x <= now + BundleTTL
      PROVE  x <= now' + BundleTTL
  <2>1. now \in Nat /\ now' \in Nat /\ now <= now' /\ BundleTTL \in Nat
    BY <1>1, PolicyAssumption, Zenon
  <2>2. QED
    BY <1>4, <2>1, LaterStill, Zenon
<1>5. \A n \in DOMAIN policies : policies[n].expires \in Nat
  BY BundleOf
<1>6. ExpiryGrows'
  BY <1>1, <1>4, <1>5, Zenon DEF PolicyInv, ExpiryGrows
<1>7. \A p \in Publishers :
        pub[p].pc = "insert" => pub[p].bundle.expires \in Nat
  BY PublicationFields DEF PolicyInv, PolicyTypeOK, Bundles
<1>8. \A p \in Publishers : /\ pub'[p].pc = "sign" => Builds(p, pub[p].version)'
                            /\ pub'[p].pc = "insert" => Follows(p, pub[p].bundle)'
  BY <1>1, <1>4, <1>7 DEF PolicyInv, Builds, Follows
<1>9. QED
  BY <1>1, <1>2, <1>3, <1>6, <1>8 DEF PolicyInv

\* PublishPolicy up to its INSERT: the version it is to have is read, and the
\* bundle that is built follows the row that was read.
LEMMA PrepareKeeps ==
  ASSUME PolicyInv, NEW p \in Publishers,
         \/ \E d \in Names : PublishCheck(p, d)
         \/ PublishRead(p) \/ PublishSign(p) \/ PublishFails(p)
  PROVE  PolicyInv'
<1>1. /\ pub[p] \in Publications
      /\ policies \in Seq(Bundles) /\ Len(policies) \in Nat
      /\ DOMAIN policies = 1..Len(policies) /\ now \in Nat
  BY DEF PolicyInv, PolicyTypeOK
<1>2. ASSUME NEW d \in Names, PublishCheck(p, d)
      PROVE  PolicyInv'
  <2>1. PICK x : x = [pc |-> "read", document |-> d]
    BY Zenon
  <2>2. x \in Publications /\ x.pc = "read"
    BY <2>1 DEF Publications
  <2>3. QED
    BY <1>2, <2>1, <2>2, OnePublisher, Zenon DEF PublishCheck
<1>3. CASE PublishRead(p)
  <2>1. PICK x : x = [pc |-> "sign", document |-> pub[p].document, version |-> Len(policies) + 1]
    BY Zenon
  <2>2. pub[p].document \in Names /\ Len(policies) + 1 \in 1..MaxVersion
    BY <1>1, <1>3, PublicationFields, PolicyAssumption DEF PublishRead
  <2>3. x \in Publications /\ x.pc = "sign" /\ x.version = Len(policies) + 1
    BY <2>1, <2>2 DEF Publications
  <2>4. Builds(p, x.version)
    BY <1>1, <2>3 DEF Builds
  <2>5. QED
    BY <1>3, <2>1, <2>3, <2>4, OnePublisher, Zenon DEF PublishRead
<1>4. CASE PublishSign(p)
  <2>1. PICK b : b = NewBundle(p)
    OBVIOUS
  <2>2. PICK x : x = [pc |-> "insert", bundle |-> b]
    BY Zenon
  <2>3. /\ pub[p].version \in 1..MaxVersion /\ pub[p].document \in Names
        /\ Builds(p, pub[p].version)
    BY <1>1, <1>4, PublicationFields, Zenon DEF PublishSign, PolicyInv
  <2>4. /\ b.version = pub[p].version /\ b.epoch = pub[p].version
        /\ b.expires = now + BundleTTL /\ b.by = p
        /\ b.prevHash = IF b.version = 1 THEN NoHash ELSE policies[b.version - 1].document
    BY <2>1 DEF NewBundle
  <2>5. b.prevHash \in Names \cup {NoHash}
    <3>1. CASE b.version = 1
      BY <2>4, <3>1
    <3>2. CASE b.version # 1
      <4>1. b.version - 1 \in DOMAIN policies
        BY <1>1, <2>3, <2>4, <3>2 DEF Builds
      <4>2. policies[b.version - 1] \in Bundles
        BY <1>1, <4>1
      <4>3. QED
        BY <2>4, <3>2, <4>2 DEF Bundles
    <3>3. QED
      BY <3>1, <3>2, Zenon
  <2>6. b \in Bundles
    <3>1. b = [version |-> b.version, epoch |-> b.epoch, document |-> pub[p].document,
               prevHash |-> b.prevHash, expires |-> b.expires, by |-> b.by]
      BY <2>1 DEF NewBundle
    <3>2. now + BundleTTL \in Nat
      BY <1>1, PolicyAssumption
    <3>3. QED
      BY <2>3, <2>4, <2>5, <3>1, <3>2 DEF Bundles
  <2>7. Follows(p, b)
    BY <1>1, <2>3, <2>4, PolicyAssumption DEF Builds, Follows, PolicyInv, ExpiryGrows
  <2>8. x \in Publications /\ x.pc = "insert" /\ x.bundle = b
    BY <2>2, <2>6 DEF Publications
  <2>9. QED
    BY <1>4, <2>1, <2>2, <2>7, <2>8, OnePublisher, Zenon DEF PublishSign
<1>5. CASE PublishFails(p)
  <2>1. IdlePublisher \in Publications /\ IdlePublisher.pc = "idle"
    BY DEF Publications, IdlePublisher
  <2>2. QED
    BY <1>5, <2>1, OnePublisher, Zenon DEF PublishFails
<1>6. QED
  BY <1>2, <1>3, <1>4, <1>5

\* The INSERT appends the bundle, or does nothing when its version is taken.
LEMMA InsertKeeps ==
  ASSUME PolicyInv, NEW p \in Publishers, PublishInsert(p)
  PROVE  PolicyInv'
<1>1. /\ pub[p] \in Publications
      /\ policies \in Seq(Bundles) /\ Len(policies) \in Nat
      /\ DOMAIN policies = 1..Len(policies) /\ now \in Nat
  BY DEF PolicyInv, PolicyTypeOK
<1>2. PICK b \in Bundles : b = pub[p].bundle /\ Follows(p, b)
  BY <1>1, PublicationFields DEF PublishInsert, PolicyInv
<1>3. IdlePublisher \in Publications /\ IdlePublisher.pc = "idle"
  BY DEF Publications, IdlePublisher
<1>4. CASE b.version \in DOMAIN policies
  BY <1>2, <1>3, <1>4, OnePublisher, Zenon DEF PublishInsert, Insert
<1>5. CASE b.version \notin DOMAIN policies
  <2>1. b.version = Len(policies) + 1
    BY <1>1, <1>2, <1>5 DEF Follows, Bundles
  <2>2. /\ policies' = Append(policies, b)
        /\ UNCHANGED <<now, resources, served, ev>>
        /\ pub' = [pub EXCEPT ![p] = IdlePublisher]
    BY <1>2, <1>5 DEF PublishInsert, Insert
  <2>3. /\ policies' \in Seq(Bundles) /\ Len(policies') = Len(policies) + 1
        /\ DOMAIN policies' = 1..Len(policies) + 1
        /\ \A n \in DOMAIN policies : policies'[n] = policies[n]
        /\ policies'[Len(policies) + 1] = b
    BY <1>1, <2>2
  <2>4. PolicyTypeOK'
    <3>1. pub' \in [Publishers -> Publications]
      BY <1>3, <2>2 DEF PolicyInv, PolicyTypeOK
    <3>2. QED
      BY <1>1, <2>2, <2>3, <3>1 DEF PolicyInv, PolicyTypeOK
  <2>5. ASSUME NEW n \in DOMAIN policies'
        PROVE  n \in DOMAIN policies \/ n = Len(policies) + 1
    BY <1>1, <2>3
  <2>6. VersionsLinked'
    <3>1. ASSUME NEW n \in DOMAIN policies', n # 1
          PROVE  n - 1 \in DOMAIN policies
      BY <1>1, <2>3, <3>1
    <3>2. ASSUME NEW n \in DOMAIN policies
          PROVE  /\ policies'[n].version = n /\ policies'[n].epoch = n
                 /\ policies'[n].prevHash = IF n = 1 THEN NoHash ELSE policies'[n - 1].document
      <4>1. n \in DOMAIN policies'
        BY <1>1, <2>3
      <4>2. QED
        BY <2>3, <3>1, <4>1 DEF PolicyInv, VersionsLinked
    <3>3. PICK m : m = Len(policies) + 1 /\ m \in DOMAIN policies' /\ policies'[m] = b
      BY <1>1, <2>3
    <3>4. /\ b.version = m /\ b.epoch = m
          /\ b.prevHash = IF m = 1 THEN NoHash ELSE policies'[m - 1].document
      BY <1>2, <2>1, <2>3, <3>1, <3>3, Zenon DEF Follows
    <3>5. QED
      BY <2>5, <3>2, <3>3, <3>4 DEF VersionsLinked
  <2>7. DecisionIsReference'
    <3>1. \A e \in Evaluators : ev[e].pc = "decided" /\ ev[e].version > 0 =>
            ev[e].version \in DOMAIN policies
      BY <1>1 DEF PolicyInv, PolicyTypeOK
    <3>2. QED
      BY <2>2, <2>3, <3>1 DEF PolicyInv, DecisionIsReference
  <2>8. ExpiryGrows'
    <3>1. b.expires <= now + BundleTTL /\ b.expires <= b.expires
      BY <1>2 DEF Follows, Bundles
    <3>2. \A n \in DOMAIN policies : policies[n].expires <= b.expires /\ n <= Len(policies)
      BY <1>1, <1>2, <2>1 DEF Follows
    <3>3. \A n \in DOMAIN policies' : policies'[n].expires <= now' + BundleTTL
      BY <2>2, <2>3, <2>5, <3>1 DEF PolicyInv, ExpiryGrows
    <3>4. ASSUME NEW m \in DOMAIN policies', NEW n \in DOMAIN policies', m <= n
          PROVE  policies'[m].expires <= policies'[n].expires
      <4>1. CASE n \in DOMAIN policies
        <5>1. m \in DOMAIN policies
          BY <1>1, <2>3, <3>4, <4>1
        <5>2. QED
          BY <2>3, <3>4, <4>1, <5>1 DEF PolicyInv, ExpiryGrows
      <4>2. CASE n = Len(policies) + 1
        BY <2>3, <2>5, <3>1, <3>2, <4>2, Zenon
      <4>3. QED
        BY <2>5, <4>1, <4>2
    <3>5. QED
      BY <3>3, <3>4, Zenon DEF ExpiryGrows
  <2>9. ASSUME NEW o \in Publishers
        PROVE  /\ pub'[o].pc = "sign" => Builds(o, pub[o].version)'
               /\ pub'[o].pc = "insert" => Follows(o, pub[o].bundle)'
    <3>1. CASE o = p
      <4>1. pub'[o].pc = "idle"
        BY <1>3, <2>2, <3>1, Zenon DEF PolicyInv, PolicyTypeOK
      <4>2. QED
        BY <4>1
    <3>2. CASE o # p
      <4>1. pub'[o] = pub[o] /\ b.by = p /\ b.by # o /\ pub[o] \in Publications
        BY <1>2, <2>2, <3>2, Zenon DEF PolicyInv, PolicyTypeOK, Follows
      <4>2. CASE pub[o].pc = "sign"
        <5>1. PICK v \in Nat : v = pub[o].version /\ Builds(o, v)
          BY <4>1, <4>2, PublicationFields DEF PolicyInv
        <5>2. v <= Len(policies') + 1
          BY <1>1, <2>3, <5>1 DEF Builds
        <5>3. \A n \in DOMAIN policies' : n >= v => policies'[n].by # o
          BY <2>3, <2>5, <4>1, <5>1 DEF Builds
        <5>4. QED
          BY <4>1, <4>2, <5>1, <5>2, <5>3, Zenon DEF Builds
      <4>3. CASE pub[o].pc = "insert"
        <5>1. PICK c \in Bundles : c = pub[o].bundle /\ Follows(o, c)
          BY <4>1, <4>3, PublicationFields, Zenon DEF PolicyInv
        <5>2. c.version \in Nat /\ c.version >= 1 /\ c.version <= Len(policies) + 1
          BY <5>1 DEF Bundles, Follows
        <5>3. c.version <= Len(policies') + 1
          BY <1>1, <2>3, <5>2
        <5>4. c.prevHash = IF c.version = 1 THEN NoHash ELSE policies'[c.version - 1].document
          <6>1. c.version # 1 => c.version - 1 \in DOMAIN policies
            BY <1>1, <5>2
          <6>2. QED
            BY <2>3, <5>1, <6>1 DEF Follows
        <5>5. \A n \in DOMAIN policies' : /\ n < c.version => policies'[n].expires <= c.expires
                                          /\ n >= c.version => policies'[n].by # o
          <6>1. \A n \in DOMAIN policies : /\ n < c.version => policies'[n].expires <= c.expires
                                           /\ n >= c.version => policies'[n].by # o
            BY <2>3, <5>1 DEF Follows
          <6>2. ~ (Len(policies) + 1 < c.version)
            BY <1>1, <5>2
          <6>3. QED
            BY <2>3, <2>5, <4>1, <6>1, <6>2, Zenon
        <5>6. QED
          BY <2>2, <4>1, <4>3, <5>1, <5>3, <5>4, <5>5, Zenon DEF Follows
      <4>4. QED
        BY <4>1, <4>2, <4>3, Zenon
    <3>3. QED
      BY <3>1, <3>2, Zenon
  <2>10. QED
    BY <2>2, <2>4, <2>6, <2>7, <2>8, <2>9, Zenon DEF PolicyInv
<1>6. QED
  BY <1>4, <1>5

\* A step of one evaluation, which writes nothing: what it decides on a bundle is
\* the reference decision of that bundle's document.
LEMMA OneEvaluator ==
  ASSUME PolicyInv, NEW e \in Evaluators, NEW x \in Evaluations,
         ev' = [ev EXCEPT ![e] = x], served' \in 0..Len(policies),
         UNCHANGED <<now, resources, policies, pub>>,
         x.pc \in {"rules", "decided"} => x.version \in 0..Len(policies),
         x.pc = "rules" => x.version > 0,
         x.pc = "decided" /\ x.version > 0 =>
           LET doc == Documents[policies[x.version].document]
           IN  UniqueIds(doc) => x.decision = ReferenceDecision(doc, x.req)
  PROVE  PolicyInv'
<1>1. \A o \in Evaluators : ev'[o] = IF o = e THEN x ELSE ev[o]
  BY Zenon DEF PolicyInv, PolicyTypeOK
<1>2. PolicyTypeOK'
  <2>1. ev' \in [Evaluators -> Evaluations]
    BY Zenon DEF PolicyInv, PolicyTypeOK
  <2>2. \A o \in Evaluators :
          ev'[o].pc \in {"rules", "decided"} => ev'[o].version \in 0..Len(policies)
    BY <1>1, Zenon DEF PolicyInv, PolicyTypeOK
  <2>3. QED
    BY <2>1, <2>2, Zenon DEF PolicyInv, PolicyTypeOK
<1>3. VersionsLinked' /\ ExpiryGrows'
  BY Zenon DEF PolicyInv, VersionsLinked, ExpiryGrows
<1>4. DecisionIsReference'
  <2>1. ASSUME NEW o \in Evaluators, ev'[o].pc = "decided" /\ ev'[o].version > 0,
               NEW doc, doc = Documents[policies[ev'[o].version].document], UniqueIds(doc)
        PROVE  ev'[o].decision = ReferenceDecision(doc, ev'[o].req)
    <3>1. CASE o = e
      BY <1>1, <2>1, <3>1, Zenon
    <3>2. CASE o # e
      BY <1>1, <2>1, <3>2, Zenon DEF PolicyInv, DecisionIsReference
    <3>3. QED
      BY <3>1, <3>2, Zenon
  <2>2. QED
    BY <2>1, Zenon DEF DecisionIsReference
<1>5. \A o \in Evaluators : ev'[o].pc = "rules" => ev'[o].version > 0
  BY <1>1, Zenon DEF PolicyInv
<1>6. \A p \in Publishers : /\ pub'[p].pc = "sign" => Builds(p, pub[p].version)'
                            /\ pub'[p].pc = "insert" => Follows(p, pub[p].bundle)'
  BY DEF PolicyInv, Builds, Follows
<1>7. QED
  BY <1>2, <1>3, <1>4, <1>5, <1>6, Zenon DEF PolicyInv

\* The state of an evaluation that has its decision.
LEMMA Decided ==
  ASSUME NEW q \in Requests, NEW v \in 0..MaxVersion, NEW c \in Effects \cup {"NOT_PROTECTED"}
  PROVE  [pc |-> "decided", req |-> q, version |-> v, decision |-> c] \in Evaluations
BY DEF Evaluations

\* loadActiveBundle returns a row that has not expired, of the highest version.
LEMMA LoadIs ==
  ASSUME PolicyInv
  PROVE  /\ LoadActiveBundle \in 0..Len(policies) /\ LoadActiveBundle \in 0..MaxVersion
         /\ LoadActiveBundle # 0 => LoadActiveBundle \in Unexpired
         /\ \A n \in Unexpired : n <= LoadActiveBundle
<1>1. /\ Len(policies) \in Nat /\ DOMAIN policies = 1..Len(policies)
      /\ Unexpired \subseteq DOMAIN policies
  BY DEF PolicyInv, PolicyTypeOK, Unexpired
<1>2. CASE Unexpired = {}
  BY <1>1, <1>2, PolicyAssumption DEF LoadActiveBundle
<1>3. CASE Unexpired # {}
  <2>1. Unexpired \in SUBSET (0..Len(policies))
    BY <1>1
  <2>2. /\ LoadActiveBundle \in Unexpired
        /\ \A n \in Unexpired : n <= LoadActiveBundle
    BY <1>1, <1>3, <2>1, MaxIs, Zenon DEF LoadActiveBundle
  <2>3. LoadActiveBundle \in 1..MaxVersion /\ LoadActiveBundle \in 0..Len(policies)
    BY <1>1, <2>2, BundleOf
  <2>4. QED
    BY <2>2, <2>3, PolicyAssumption
<1>4. QED
  BY <1>2, <1>3

\* Evaluate: the registry, the bundle and its rules.
LEMMA EvaluateKeeps ==
  ASSUME PolicyInv, NEW e \in Evaluators,
         \/ \E q \in Requests : EvaluateProtected(e, q)
         \/ EvaluateLoad(e) \/ EvaluateRules(e)
  PROVE  PolicyInv'
<1>1. /\ ev[e] \in Evaluations /\ served \in 0..Len(policies) /\ Len(policies) \in Nat
      /\ DOMAIN policies = 1..Len(policies)
  BY DEF PolicyInv, PolicyTypeOK
<1>2. ASSUME NEW q \in Requests, EvaluateProtected(e, q)
      PROVE  PolicyInv'
  <2>1. PICK x : x = [pc |-> "load", req |-> q]
    BY Zenon
  <2>2. x \in Evaluations /\ x.pc = "load"
    BY <2>1 DEF Evaluations
  <2>3. PICK y : y = [pc |-> "decided", req |-> q, version |-> 0, decision |-> "NOT_PROTECTED"]
    BY Zenon
  <2>4. y \in Evaluations /\ y.pc = "decided" /\ y.version = 0
    BY <2>3, PolicyAssumption DEF Evaluations
  <2>5. CASE IsResourceProtected(q.resource)
    <3>1. ev' = [ev EXCEPT ![e] = x] /\ UNCHANGED <<now, resources, policies, served, pub>>
      BY <1>2, <2>1, <2>5 DEF EvaluateProtected
    <3>2. QED
      BY <1>1, <2>2, <3>1, OneEvaluator, Zenon
  <2>6. CASE ~ IsResourceProtected(q.resource)
    <3>1. ev' = [ev EXCEPT ![e] = y] /\ UNCHANGED <<now, resources, policies, served, pub>>
      BY <1>2, <2>3, <2>6, Zenon DEF EvaluateProtected
    <3>2. ~ (y.version > 0) /\ 0 \in 0..Len(policies)
      BY <1>1, <2>4
    <3>3. QED
      BY <1>1, <2>4, <3>1, <3>2, OneEvaluator, Zenon
  <2>7. QED
    BY <2>5, <2>6
<1>3. CASE EvaluateLoad(e)
  <2>1. PICK n : n = LoadActiveBundle /\ n \in 0..Len(policies) /\ n \in 0..MaxVersion
    BY LoadIs
  <2>2. PICK x : x = [pc |-> IF n = 0 THEN "decided" ELSE "rules", req |-> ev[e].req,
                      version |-> n, decision |-> "DENY"]
    BY Zenon
  <2>3. ev[e].req \in Requests
    BY <1>1, <1>3, EvaluationFields, Zenon DEF EvaluateLoad
  <2>4. x \in Evaluations
    BY <2>1, <2>2, <2>3 DEF Evaluations, Effects
  <2>5. /\ x.version = n /\ (x.pc = "rules" => x.version > 0)
        /\ ~ (x.pc = "decided" /\ x.version > 0)
    BY <2>1, <2>2
  <2>6. /\ ev' = [ev EXCEPT ![e] = x] /\ served' \in 0..Len(policies)
        /\ UNCHANGED <<now, resources, policies, pub>>
    BY <1>1, <1>3, <2>1, <2>2, Zenon DEF EvaluateLoad
  <2>7. QED
    BY <2>1, <2>4, <2>5, <2>6, OneEvaluator, Zenon
<1>4. CASE EvaluateRules(e)
  <2>1. PICK v : v = ev[e].version /\ v \in DOMAIN policies /\ v \in 1..MaxVersion
    <3>1. ev[e].version \in 0..Len(policies) /\ ev[e].version > 0
      BY <1>4, Zenon DEF EvaluateRules, PolicyInv, PolicyTypeOK
    <3>2. ev[e].version \in DOMAIN policies
      BY <1>1, <3>1
    <3>3. QED
      BY <3>2, BundleOf
  <2>2. PICK d \in Names : d = policies[v].document
    BY <2>1, BundleOf, Zenon
  <2>3. /\ ev[e] = [pc |-> "rules", req |-> ev[e].req, version |-> v, decision |-> ev[e].decision]
        /\ ev[e].req \in Requests /\ ev[e].decision \in Effects \cup {"NOT_PROTECTED"}
    BY <1>1, <1>4, <2>1, EvaluationFields DEF EvaluateRules
  <2>4. ASSUME NEW rules \in SortedRules(Documents[d]),
               ev' = [ev EXCEPT ![e].pc = "decided", ![e].decision = Decide(rules, ev[e].req)]
        PROVE  PolicyInv'
    <3>1. PICK c \in Effects : c = Decide(rules, ev[e].req)
      BY DecisionType
    <3>2. PICK x : x = [pc |-> "decided", req |-> ev[e].req, version |-> v, decision |-> c]
      BY Zenon
    <3>3. /\ x \in Evaluations /\ x.pc = "decided" /\ x.version = v /\ x.decision = c
          /\ x.req = ev[e].req
      BY <2>1, <2>3, <3>1, <3>2 DEF Evaluations
    <3>4. ev' = [ev EXCEPT ![e] = x]
      <4>1. ev' = [ev EXCEPT ![e].pc = "decided", ![e].decision = c]
        BY <2>4, <3>1
      <4>2. PICK y : y = ev[e] /\ ev \in [Evaluators -> Evaluations]
        BY Zenon DEF PolicyInv, PolicyTypeOK
      <4>3. [y EXCEPT !.pc = "decided", !.decision = c] = x
        <5>1. PICK q, a : /\ y = [pc |-> "rules", req |-> q, version |-> v, decision |-> a]
                          /\ x = [pc |-> "decided", req |-> q, version |-> v, decision |-> c]
          BY <2>3, <3>2, <4>2
        <5>2. PICK z : z = [pc |-> "decided", req |-> q, version |-> v, decision |-> a]
          BY Zenon
        <5>3. [y EXCEPT !.pc = "decided"] = z
          BY <5>1, <5>2
        <5>4. [z EXCEPT !.decision = c] = x
          BY <5>1, <5>2
        <5>5. QED
          BY <5>3, <5>4, Zenon
      <4>4. ev' = [ev EXCEPT ![e] = [y EXCEPT !.pc = "decided", !.decision = c]]
        BY <4>1, <4>2, Zenon
      <4>5. QED
        BY <4>3, <4>4, Zenon
    <3>5. UniqueIds(Documents[d]) => c = ReferenceDecision(Documents[d], x.req)
      BY <2>3, <3>1, <3>3, DecisionAgrees, Zenon
    <3>6. UNCHANGED <<now, resources, policies, served, pub>> /\ v \in 0..Len(policies)
      BY <1>1, <1>4, <2>1, SMTT(30) DEF EvaluateRules
    <3>7. QED
      BY <1>1, <2>2, <3>3, <3>4, <3>5, <3>6, OneEvaluator, Zenon
  <2>5. ASSUME ev' = [ev EXCEPT ![e].pc = "decided", ![e].version = 0]
        PROVE  PolicyInv'
    <3>1. PICK x : x = [pc |-> "decided", req |-> ev[e].req, version |-> 0,
                        decision |-> ev[e].decision]
      BY Zenon
    <3>2. x \in Evaluations /\ x.pc = "decided" /\ x.version = 0 /\ ~ (x.version > 0)
      <4>1. 0 \in 0..MaxVersion /\ ~ (0 > 0)
        BY PolicyAssumption
      <4>2. x.pc = "decided" /\ x.version = 0
        BY <3>1, Zenon
      <4>3. x \in Evaluations
        BY <2>3, <3>1, <4>1, Decided, Zenon
      <4>4. QED
        BY <4>1, <4>2, <4>3, Zenon
    <3>3. ev' = [ev EXCEPT ![e] = x]
      BY <2>3, <2>5, <3>1 DEF PolicyInv, PolicyTypeOK
    <3>4. UNCHANGED <<now, resources, policies, served, pub>> /\ 0 \in 0..Len(policies)
      BY <1>1, <1>4, SMTT(30) DEF EvaluateRules
    <3>5. QED
      BY <1>1, <3>2, <3>3, <3>4, OneEvaluator, Zenon
  <2>6. QED
    BY <1>4, <2>1, <2>2, <2>4, <2>5, Zenon DEF EvaluateRules
<1>5. QED
  BY <1>2, <1>3, <1>4

\* One step of a publication, an evaluation, the clock or the registry.
LEMMA PolicyKeeps == PolicyInv /\ [PolicyNext]_policyVars => PolicyInv'
<1> SUFFICES ASSUME PolicyInv, [PolicyNext]_policyVars PROVE PolicyInv'
  BY Zenon
<1>1. CASE UNCHANGED policyVars
  <2>1. PolicyTypeOK'
    BY <1>1, Zenon DEF policyVars, PolicyInv, PolicyTypeOK
  <2>2. VersionsLinked' /\ DecisionIsReference' /\ ExpiryGrows'
    BY <1>1, Zenon DEF policyVars, PolicyInv, VersionsLinked, DecisionIsReference, ExpiryGrows
  <2>3. \A p \in Publishers : /\ pub'[p].pc = "sign" => Builds(p, pub[p].version)'
                              /\ pub'[p].pc = "insert" => Follows(p, pub[p].bundle)'
    BY <1>1 DEF policyVars, PolicyInv, Builds, Follows
  <2>4. QED
    BY <1>1, <2>1, <2>2, <2>3, Zenon DEF policyVars, PolicyInv
<1>2. CASE PolicyNext
  BY <1>2, AroundKeeps, PrepareKeeps, InsertKeeps, EvaluateKeeps, Zenon DEF PolicyNext
<1>3. QED
  BY <1>1, <1>2

\* A bundle that expires no earlier than those before it is not given up for one of
\* them, and a version somebody else took is the only one an INSERT can lose.
LEMMA StaysPublished ==
  ASSUME PolicyInv, [PolicyNext]_policyVars
  PROVE  \/ /\ served' >= served
            /\ \A p \in Publishers :
                 PublishInsert(p) =>
                   LET b == pub[p].bundle
                   IN  policies'[b.version] = b \/ policies[b.version].by # p
         \/ UNCHANGED policyVars
<1>1. /\ served \in 0..Len(policies) /\ Len(policies) \in Nat /\ served \in Nat
      /\ DOMAIN policies = 1..Len(policies) /\ policies \in Seq(Bundles) /\ now \in Nat
  BY DEF PolicyInv, PolicyTypeOK
<1>2. CASE UNCHANGED policyVars
  BY <1>2
<1>3. CASE PolicyNext
  <2>1. ASSUME NEW e \in Evaluators, EvaluateLoad(e)
        PROVE  served' >= served
    <3>1. PICK n : n = LoadActiveBundle /\ n \in 0..Len(policies)
      BY LoadIs
    <3>2. CASE n = 0
      BY <1>1, <2>1, <3>1, <3>2 DEF EvaluateLoad
    <3>3. CASE n # 0
      <4>1. n \in DOMAIN policies /\ policies[n].expires > now /\ served' = n
        BY <2>1, <3>1, <3>3, LoadIs DEF EvaluateLoad, Unexpired
      <4>2. ASSUME served > n PROVE FALSE
        <5>1. served \in DOMAIN policies
          BY <1>1, <3>1, <4>2
        <5>2. policies[n].expires <= policies[served].expires
          BY <1>1, <4>1, <4>2, <5>1 DEF PolicyInv, ExpiryGrows
        <5>3. policies[n].expires \in Nat /\ policies[served].expires \in Nat
          BY <4>1, <5>1, BundleOf, Zenon
        <5>4. served \in Unexpired
          BY <1>1, <4>1, <5>1, <5>2, <5>3, SMTT(30) DEF Unexpired
        <5>5. QED
          BY <1>1, <3>1, <4>2, <5>4, LoadIs
      <4>3. QED
        BY <1>1, <3>1, <4>1, <4>2
    <3>4. QED
      BY <3>2, <3>3
  <2>2. served' >= served
    <3>1. UNCHANGED served => served' >= served
      BY <1>1
    <3>2. QED
      BY <1>3, <2>1, <3>1, Zenon
         DEF PolicyNext, Tick, RegisterResource, PublishCheck, PublishRead, PublishSign,
             PublishInsert, PublishFails, EvaluateProtected, EvaluateRules
  <2>3. ASSUME NEW p \in Publishers, PublishInsert(p), NEW b, b = pub[p].bundle
        PROVE  policies'[b.version] = b \/ policies[b.version].by # p
    <3>1. b \in Bundles /\ Follows(p, b)
      BY <2>3, PublicationFields, Zenon DEF PublishInsert, PolicyInv, PolicyTypeOK
    <3>2. b.version \in Nat /\ b.version >= 1 /\ b.version <= Len(policies) + 1
      BY <3>1 DEF Bundles, Follows
    <3>3. CASE b.version \in DOMAIN policies
      BY <3>1, <3>2, <3>3 DEF Follows
    <3>4. CASE b.version \notin DOMAIN policies
      <4>1. b.version = Len(policies) + 1
        BY <1>1, <3>2, <3>4
      <4>2. policies' = Append(policies, b)
        BY <2>3, <3>4, Zenon DEF PublishInsert, Insert
      <4>3. QED
        BY <1>1, <3>1, <4>1, <4>2
    <3>5. QED
      BY <3>3, <3>4, Zenon
  <2>4. QED
    BY <2>2, <2>3
<1>4. QED
  BY <1>2, <1>3

-------------------------------------------------------------------------------
(***************************************************************************)
(* The four parts together.                                                *)
(***************************************************************************)

\* At most one node of a token is one node at most.
LEMMA UsedOnce == EnrollInv => CredentialsUsedOnce
<1> SUFFICES ASSUME EnrollInv PROVE CredentialsUsedOnce
  OBVIOUS
<1>1. ASSUME NEW k \in DOMAIN BootTokens, NEW R, R = {n \in nodes : n.token = k}
      PROVE  /\ (credential[k] = "used") <=> (R # {})
             /\ Cardinality(R) <= 1
             /\ \A n \in R : n.identity = BootTokens[k]
  <2>1. (credential[k] = "used") <=> (\E n \in nodes : n.token = k)
    BY DEF EnrollInv
  <2>2. (credential[k] = "used") <=> (R # {})
    BY <1>1, <2>1, Zenon
  <2>3. \A n \in R : n.identity = BootTokens[k]
    BY <1>1 DEF EnrollInv
  <2>4. CASE R = {}
    <3>1. Cardinality(R) = 0
      BY <2>4, FS_EmptySet
    <3>2. QED
      BY <2>2, <2>3, <3>1
  <2>5. CASE R # {}
    <3>1. PICK n : n \in R
      BY <2>5, Zenon
    <3>2. R = {n}
      BY <1>1, <3>1 DEF EnrollInv
    <3>3. Cardinality(R) = 1
      BY <3>2, FS_Singleton, Zenon
    <3>4. QED
      BY <2>2, <2>3, <3>3
  <2>6. QED
    BY <2>4, <2>5, Zenon
<1>2. QED
  BY <1>1 DEF EnrollInv, CredentialsUsedOnce

\* A step of the whole is a step of one part and leaves the others alone.
LEMMA StepOfParts ==
  ASSUME [Next]_vars
  PROVE  /\ [PolicyNext]_policyVars /\ [KeyNext]_keyVars
         /\ [EnrollNext]_enrollVars
BY DEF Next, vars

\* The inductive invariant: what each part keeps of its tables and of the calls that
\* are under way, from any start and over any interleaving of them.
THEOREM Invariance == Spec => []IndInv
<1>1. Init => IndInv
  BY PolicyBegins, KeyBegins, EnrollBegins, Zenon DEF Init, IndInv
<1>2. IndInv /\ [Next]_vars => IndInv'
  BY StepOfParts, PolicyKeeps, KeyKeeps, EnrollKeeps DEF IndInv
<1>3. QED
  BY <1>1, <1>2, PTL DEF Spec

\* The tables, maps and calls of the three parts have their types.
THEOREM TypeCorrect == Spec => []TypeOK
<1>1. IndInv => TypeOK
  BY Zenon DEF IndInv, PolicyInv, KeyInv, EnrollInv, TypeOK
<1>2. QED
  BY <1>1, Invariance, PTL

\* Evaluate's first match in an unstably sorted copy, with its check for a conflicting
\* tie, decides what the matching rules of the highest priority agree on and DENY when
\* they do not, for any document with distinct rule ids (engine.go:137-173, 309-324).
THEOREM DecisionSafety == Spec => []DecisionIsReference
<1>1. IndInv => DecisionIsReference
  BY Zenon DEF IndInv, PolicyInv
<1>2. QED
  BY <1>1, Invariance, PTL

\* However publications that read the same MAX(version) interleave, the table is one
\* chain of versions, epochs and digests (engine.go:533-596).
THEOREM ChainSafety == Spec => []VersionsLinked
<1>1. IndInv => VersionsLinked
  BY Zenon DEF IndInv, PolicyInv
<1>2. QED
  BY <1>1, Invariance, PTL

\* CheckCoverage and Evaluate, two implementations of matching, agree on what a
\* published document covers, where no selector mixes kinds (engine.go:271-306, 459-489).
THEOREM CoverageSafety == Spec => []CoverageAgrees
BY CoverageHolds, PTL

\* loadActiveBundle never goes back to an older bundle, and the publication that
\* PublishPolicy reports is in the table unless somebody else took its version
\* (engine.go:359-370, 568-608).
THEOREM PublicationStays == Spec => PublishedStays
<1>1. IndInv /\ [Next]_vars =>
        [/\ served' >= served
         /\ \A p \in Publishers :
              PublishInsert(p) =>
                LET b == pub[p].bundle
                IN  policies'[b.version] = b \/ policies[b.version].by # p]_policyVars
  BY StepOfParts, StaysPublished DEF IndInv
<1>2. QED
  BY <1>1, Invariance, PTL DEF Spec, PublishedStays

\* What was signed verifies until max grant TTL after the rotation of its key, for any
\* number of rotations, any max grant TTL and signers between their two steps
\* (keymanager.go:258-308, main.go:275-323).
THEOREM RotationSafety == Spec => []RotationStrandsNothing
<1>1. IndInv => RotationStrandsNothing
  BY LatestVerifies DEF IndInv
<1>2. QED
  BY <1>1, Invariance, PTL

\* No ticket enrolls two devices and no bootstrap token registers two nodes or burns
\* without one, however many clients present it at a time (oidc.go:109-200, 266-318).
THEOREM EnrollmentSafety == Spec => []CredentialsUsedOnce
<1>1. IndInv => CredentialsUsedOnce
  BY UsedOnce DEF IndInv
<1>2. QED
  BY <1>1, Invariance, PTL

===============================================================================
