CONSTANTS
  r1 = r1
  r2 = r2
  r3 = r3
  Request <- MCRequest
  Workers = 1
  Waiting = 1
SPECIFICATION FairSpec
INVARIANTS
  RefusedNeverRuns
  NoLostCompletion
  HandlersAccounted
PROPERTIES
  EveryCallerAnswered
