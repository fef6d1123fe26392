\* The versions, keys and slots run out: the system may stop.
CHECK_DEADLOCK FALSE
SPECIFICATION Spec
CONSTANTS
  alice = alice
  NoUser = NoUser
  NoHash = NoHash
  Publishers = {p1, p2}
  Evaluators = {e1}
  Documents <- MCDocuments
  Resources <- MCResources
  Registered <- MCRegistered
  Requests <- MCRequests
  BundleTTL = 1
  MaxVersion = 2
  MaxTime = 2
  NoSig = NoSig
  AllPurposes <- MCPurposes
  Signers = {s1, s2}
  MaxKeys = 4
  GrantTTL = 1
  MaxInterval = 2
  Clients = {c1, c2}
  Tickets = {"t1"}
  Levels = {"TEE", "SOFTWARE"}
  BootTokens <- MCBootTokens
  Nobody = Nobody
  MaxSlot = 1
SYMMETRY Symmetry
INVARIANT OldKeyRemains
