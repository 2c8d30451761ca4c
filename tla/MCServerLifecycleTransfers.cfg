SPECIFICATION Spec
CONSTANTS
  Conn = {c1, c2}
  Request = {r1, r2}
  Http2 = {c2}
  MaxConnections = 1
  Workers = 1
  Waiting = 1
  MaxTickets = 2
INVARIANT TransfersDrained
