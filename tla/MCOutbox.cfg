\* When the bounds are used up nothing is left to do.
CHECK_DEADLOCK FALSE
SPECIFICATION FairSpec
CONSTANTS
  w1 = w1
  c1 = c1
  c2 = c2
  None = None
  Writers = {w1, w2, w3}
  Process <- MCTwoProcesses
  Consumers = {c1, c2}
  Attached = {c1}
  Jobs <- MCTwoConsumers
  Instances = {i1, i2}
  MaxSeq = 3
  MaxFence = 2
INVARIANTS
  TypeOK
  NoMessageSkipped
PROPERTIES
  ImplementsDelivery
  OnlyMutexCircleBlocks
