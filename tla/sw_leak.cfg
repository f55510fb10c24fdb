\* One goroutine building a writer stack from one or two of four DSNs (an
\* async size-rolling file, an rsyslog server, a test writer and a bad
\* rotation mode), then closing it.
CONSTANTS
  dAsyncFile = dAsyncFile
  dSyslog = dSyslog
  dTest = dTest
  dBadMode = dBadMode
  DSNs <- MCDSNs
  Kind <- MCKind
  Async <- MCAsync
  MaxList = 2

SPECIFICATION Spec

INVARIANT ReleasedWhenDone

\* The program stops: the stack is built and closed, or its construction
\* failed.
CHECK_DEADLOCK FALSE
