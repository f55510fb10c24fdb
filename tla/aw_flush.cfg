\* AsyncWriter built with every combination of blockwrite, a flush timer or
\* flushInterval 0, and a sink that may fail and may be an io.WriteCloser:
\* two producers, two writes each, a channel of 2.
CONSTANTS
  p1 = p1
  p2 = p2
  Nil = Nil
  Producers <- MCProducers
  Writes = 2
  Batch = 2
  BlockWrite = {FALSE, TRUE}
  FlushDelay = {FALSE, TRUE}
  SinkMayFail = {FALSE, TRUE}
  SinkClosable = {FALSE, TRUE}

SPECIFICATION Spec

INVARIANT TypeOK
INVARIANT SinkIsPrefix
INVARIANT PendingAccounting
INVARIANT CloseFlushesToPlainSink

PROPERTY FifoSinkSpec
PROPERTY ConsumerExitsAfterClose

\* The program stops: every Write done, the writer closed, DoWrite returned.
CHECK_DEADLOCK FALSE
