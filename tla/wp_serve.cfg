\* Three Serve calls, at most two workers (three worker identities so that
\* identities are reused), the cleanup goroutine and one Stop.
CONSTANTS
  j1 = j1
  j2 = j2
  j3 = j3
  w1 = w1
  w2 = w2
  w3 = w3
  Nil = Nil
  Jobs <- MCJobs
  Workers <- MCWorkers
  MaxWorkers = 2

SPECIFICATION Spec

INVARIANT TypeOK
INVARIANT WorkersAccounted

PROPERTY ServedJobRuns
PROPERTY StopEndsWorkers

\* The program stops: after Stop every worker ends and, once the start
\* goroutine has returned, nothing is left to run.
CHECK_DEADLOCK FALSE
