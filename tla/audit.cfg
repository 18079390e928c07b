SPECIFICATION FairSpec
CONSTANTS
  w1 = w1
  w2 = w2
  c1 = c1
  Writers = {w1, w2}
  Couriers = {c1}
  MaxEntries = 2
  MaxAnchors = 1
  Batch = 2
INVARIANTS TypeOK LogVerifies LossNoticed
PROPERTIES EvidenceSpec Delivered
CHECK_DEADLOCK FALSE
