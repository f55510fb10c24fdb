\* Blocking Write, a channel of one, a sink that never fails: producers that
\* passed Write's checks race Close and the consumer's exit (spec.md 4.1).
CONSTANTS
  p1 = p1
  p2 = p2
  Nil = Nil
  Producers <- MCProducers
  Writes = 2
  MaxInflights = 1
  Modes = {"writev"}
  BlockWrite = TRUE
  FlushDelay = TRUE
  SinkMayFail = FALSE

SPECIFICATION Spec

PROPERTY CallsReturn

CHECK_DEADLOCK FALSE
