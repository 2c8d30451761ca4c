SPECIFICATION FairSpec
CONSTANTS
  Stream = {s1, s2}
  Workers = 1
  Waiting = 1
  MaxTickets = 3
INVARIANTS
  TransitionsExclusive
  WakeupKept
  TimedOutNeverRuns
PROPERTIES
  TransitionSettles
