SPECIFICATION Spec
CONSTANTS
  r1 = r1
  r2 = r2
  q1 = q1
  w1 = w1
  w2 = w2
  ReaderOrder <- TwoReaders
  OneShot = {r1}
  Processors = {}
  Writers = {w1}
  Accepts <- AllToAll
  RoutesNameAll = FALSE
  QueueCapacity = 1
  AllowForce = FALSE
  MaxBatches = 1
INVARIANTS AutoCloseKeepsAPromise
