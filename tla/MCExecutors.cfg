SPECIFICATION MCSpec
CONSTANTS
  w1 = w1
  w2 = w2
  s1 = s1
  s2 = s2
  Worker <- MCWorker
  Waiting = 1
  MaxTickets = 4
INVARIANTS
  CapacityExact
  QueueSound
  LeasedForLifetime
PROPERTIES
  ImplementsAdmission
  EveryJobSettles
  ShutdownReturns
  OperationCompletes
  DropReturns
