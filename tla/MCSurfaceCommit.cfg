\* Commits: two surfaces, so that tasks and images of different views mix; two commits
\* of each, so that one can overtake the other, which waits for its fence.  Callbacks:
\* clients share nothing but outputs and the shell's frames, which answer each by itself.
SPECIFICATION MCSpec
CONSTANTS
  Views = {v1, v2}
  Serialized = FALSE
  MaxCommits = 2
  Toplevels = {w}
  Outputs = {"left", "right"}
  Layout <- MCLayout
  Places <- MCPlaces
  Unknown = Unknown
  MaxCommitted = 2
  MaxCalls = 3
INVARIANTS
  ChangedImageIsMarked
  ClosingImageKept
  OwedAnswerIsComing
PROPERTY CallbacksAnswered
CHECK_DEADLOCK FALSE
