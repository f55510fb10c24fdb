\* Two goroutines writing through TimeRollingWriter over a monotone clock,
\* with every file system call succeeding: each reads Now() before it takes
\* the lock.
CONSTANTS
  g1 = g1
  g2 = g2
  Writers <- MCWriters2
  NumPeriods = 3
  MaxWrites = 4
  MaxCloses = 0
  RotateMayFail = FALSE

SPECIFICATION Spec

INVARIANT WritesKept

\* The program stops: every Write made, the clock at its last period.
CHECK_DEADLOCK FALSE
