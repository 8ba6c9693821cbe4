SPECIFICATION Spec
SYMMETRY Symmetry
CONSTANTS
  Handlers = {h1, h2, h3}
  Clients = {c1, c2, c3}
  Requests = {q1, q2}
  Bodies = {b1, b2}
  WINDOW = 2
  PER_CLIENT = 1
  GLOBAL = 2
  LEASE = 2
  TTL = 5
  MaxTime = 6
  MaxDuration = 3
  MaxLost = 1
INVARIANTS
  WritesBounded
  ReceiptsHonest
  RowsSound
PROPERTIES
  ReceiptStable
CHECK_DEADLOCK FALSE
