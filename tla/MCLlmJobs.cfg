SPECIFICATION JobFairSpec
CONSTANTS
  Kind = "chat"
  Requests = {r1}
  MaxEntries = 2
  MaxCrashes = 1
INVARIANTS
  StatusIsOutcome
  CompletedIsAnswered
PROPERTY JobEnds
\* A job that has ended stays as it is.
CHECK_DEADLOCK FALSE
