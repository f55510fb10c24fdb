\* Both consumer loops (the writer is built in FlushWriteMode or in
\* BatchWriteMode), a flush timer, a non-blocking Write and a sink that may
\* fail part-way: two producers, two writes each, a channel of 2.
CONSTANTS
  p1 = p1
  p2 = p2
  Nil = Nil
  Producers <- MCProducers
  Writes = 2
  MaxInflights = 2
  Modes = {"flush", "writev"}
  BlockWrite = FALSE
  FlushDelay = TRUE
  SinkMayFail = TRUE

SPECIFICATION Spec

INVARIANT TypeOK
INVARIANT SinkIsPrefix
INVARIANT PendingAccounting

PROPERTY FifoSinkSpec
PROPERTY ConsumerExitsAfterClose

\* The program stops: every Write done, the writer closed, the consumer gone.
CHECK_DEADLOCK FALSE
