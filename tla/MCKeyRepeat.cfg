SPECIFICATION FairKeySpec
CONSTANTS
  Keys = {a, b}
  Repeats = {TRUE}
  MaxPresses = 2
  MaxQueue = 3
INVARIANTS OneTimer TimerFollowsLastKey NoTimerOutlivesEngine
PROPERTY PressStartsRepeat
CHECK_DEADLOCK FALSE
