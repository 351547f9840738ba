\* The smallest chain the code accepts (4 slots).  More leases than N - 2: an output
\* that switches frames while one of its frames waits for a deferred commit, so the
\* writer can be refused.  Fairness, hence no symmetry.
SPECIFICATION MCSpec
CONSTANTS
  N = 4
  Leases = {l1, l2, l3}
  MaxSerial = 5
  Width = 1
  Height = 1
  Capacity = 2
  FrameDamages <- OneFullRect
INVARIANTS
  LeaseSafety
  RefCountExact
  CompletedFrameSurvives
PROPERTIES
  UnfinishedFenceKept
  RefusedOnlyWhenLeased
  ImplementsFrameExchange
  StartWriteReturns
