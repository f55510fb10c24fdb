\* Close of a closable, healthy sink right after Write: the sink is closed before DoWrite's flush on nil.
CONSTANTS
  p1 = p1
  p2 = p2
  Nil = Nil
  Producers <- MCProducers
  Writes = 1
  Batch = 2
  BlockWrite = {TRUE}
  FlushDelay = {TRUE}
  SinkMayFail = {FALSE}
  SinkClosable = {TRUE}

SPECIFICATION Spec

INVARIANT CloseFlushesAccepted

\* The program stops: every Write done, the writer closed, DoWrite returned.
CHECK_DEADLOCK FALSE
