SPECIFICATION FairSpec
CONSTANTS
  d1 = d1
  d2 = d2
  g1 = g1
  g2 = g2
  None = None
  Workers = {w1, w2}
  Devices = {d1, d2}
  Grants = {g1, g2}
  Attr <- MCAttr
  Orders <- MCOrders
  Consumers = {c1, c2}
  Audiences <- MCAudiences
  SeqQueryAccepted = TRUE
  PoolSizes = {1, 2}
  MaxRevocations = 2
INVARIANTS
  TypeOK
  NothingMissed
  CurrentDaemonIsComplete
  SessionsKeepGrants
PROPERTIES
  RevocationIsFinal
  OnlyPoolCircleBlocks
