\* When the bound is used up nothing is left to do.
CHECK_DEADLOCK FALSE
SPECIFICATION Spec
CONSTANTS
  Writers = {w1, w2, w3}
  Batches <- MCBatches
  MaxSeq = 5
SYMMETRY Symmetry
INVARIANT PrevIsRowHash
