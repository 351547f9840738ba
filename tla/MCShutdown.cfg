\* Two chains, so that one is replaced while it is used, and a texture frame that is erased
\* or cleared while Flutter holds it.
\* TLC may stop: the compositor has exited.
SPECIFICATION FairSpec
CONSTANTS
  MaxChains = 2
  MaxImages = 1
  MaxEvents = 1
  MaxQueued = 1
INVARIANTS
  NothingOutlivesRenderer
  FreedOnceUnused
  CallsFindTheirOwners
  FinalTaskIsLast
PROPERTIES
  ShutdownEnds
CHECK_DEADLOCK FALSE
