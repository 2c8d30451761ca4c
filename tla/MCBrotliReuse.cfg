SPECIFICATION Spec
CONSTANTS
  Stream = {s1, s2}
  Lanes = 2
  Worker = {w1, w2}
  MaxOps = 2
INVARIANT LeasedForLifetime
