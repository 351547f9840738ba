SPECIFICATION Spec
CONSTANTS
  a = a
  b = b
  Outputs = {a, b}
  Modes <- MCModes
  Positions <- MCPositions
  MaxDimension = 3
  PickedRate = 75
  MaxRight = 2
SYMMETRY MCSymmetry
PROPERTIES
  WakeKeepsConfiguration
