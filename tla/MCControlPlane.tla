--------------------------- MODULE MCControlPlane ---------------------------
EXTENDS ControlPlane, TLC

CONSTANT alice

Web == [node |-> "n1", service |-> "web", port |-> 443, mode |-> "HTTP_PROXY"]
Db == [node |-> "n1", service |-> "db", port |-> 5432, mode |-> "TCP_PROXY"]

MCResources == {Web, Db}
MCRegistered == {Web}

Rule(id, priority, effect, subjects, selectors, protocols) ==
  [id |-> id, priority |-> priority, effect |-> effect, subjects |-> subjects,
   resources |-> selectors, protocols |-> protocols, scopes |-> {}]

Selector(ports, services) == [ids |-> {}, ports |-> ports, services |-> services, modes |-> {}]

Users(us) == [users |-> us, groups |-> {}, tags |-> {}, kinds |-> {}]

\* A tie of two rules, a tie of two rules with one id, and a document that
\* leaves the second resource uncovered.
MCDocuments ==
  [ tie  |-> << Rule("a", 2, "ALLOW_WITHOUT_STEP_UP", {}, {Selector({443}, {})}, {"HTTP", "HTTPS"}),
                Rule("b", 2, "REQUIRE_STEP_UP", {Users({alice})}, {}, {"HTTPS"}),
                Rule("c", 1, "DENY", {}, {}, {"TCP"}) >>,
    twin |-> << Rule("a", 1, "ALLOW_WITHOUT_STEP_UP", {}, {Selector({}, {"web"})}, {}),
                Rule("a", 1, "DENY", {Users({alice})}, {}, {"HTTPS"}) >>,
    http |-> << Rule("a", 1, "ALLOW_WITHOUT_STEP_UP", {}, {Selector({}, {"web"})}, {"HTTPS"}) >> ]

Request(user, r, protocol) ==
  [principal |-> [kind |-> "USER", user |-> user], resource |-> r, protocol |-> protocol,
   scope |-> "CONNECTION"]

MCRequests == {Request(alice, Web, "HTTPS"), Request(NoUser, Web, "HTTPS"), Request(alice, Db, "TCP")}

MCPurposes == <<"grant_sig", "policy_sig">>

\* Two tokens for one node: the second registration clashes.
MCBootTokens == "k1" :> "n1" @@ "k2" :> "n1" @@ "k3" :> "n2"

Symmetry == Permutations(Publishers) \cup Permutations(Clients)

===============================================================================
