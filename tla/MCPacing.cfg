\* Two outputs of different refresh rates, one frame in Flutter's pipeline; two
\* intervals, tolerances of one and two time units.
SPECIFICATION MCSpec
CONSTANTS
  Outputs <- TwoOutputs
  Refresh <- DifferentRates
  MaxDrawing = 1
  Intervals = {4, 9}
  MaxJitter = 2
  JitterShare = 4
  MaxTime = 26
INVARIANTS
  NoDrift
  BatonHasWakeup
PROPERTIES
  NoBurst
  BatonComesBack
