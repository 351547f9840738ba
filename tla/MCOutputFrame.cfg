\* One output, partial damage, a journal that soon forgets, two generations.
\* TLC may stop: every output off, and no chain left to create (MaxGenerations).
SPECIFICATION FairSpec
CONSTANTS
  Outputs = {o1}
  Boxes <- LeftAndRight
  Reports <- PartialReports
  MaxFrames = 3
  MaxGenerations = 2
  Width = 3
  Height = 1
  Capacity = 1
INVARIANTS
  ScreenShowsAcceptedFrame
  SelectionNeverRegresses
PROPERTIES
  LastFrameIsShown
CHECK_DEADLOCK FALSE
