SPECIFICATION KeySpec
CONSTANTS
  Keys = {a}
  Repeats = {TRUE}
  MaxPresses = 1
  MaxQueue = 2
INVARIANT RepeatsExtendPresses
CHECK_DEADLOCK FALSE
