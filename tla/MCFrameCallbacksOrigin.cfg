\* The left output may be off: windows are then drawn two to the right of their boxes.
SPECIFICATION FairCallbackSpec
CONSTANTS
  Toplevels = {w}
  Outputs = {"left", "right"}
  Layout <- MCLayout
  Places <- MCPlaces
  Unknown = Unknown
  MaxCommitted = 2
  MaxCalls = 3
PROPERTY ShownClientsProgress
CHECK_DEADLOCK FALSE
