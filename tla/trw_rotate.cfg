\* One goroutine writing through TimeRollingWriter over four periods of a
\* monotone clock, with Rotate failing at any of its calls and Close called
\* once at any point.
CONSTANTS
  g1 = g1
  g2 = g2
  Writers <- MCWriters1
  NumPeriods = 4
  MaxWrites = 5
  MaxCloses = 1
  RotateMayFail = TRUE

SPECIFICATION Spec

INVARIANT TypeOK
INVARIANT WritesKept

\* The program stops: every Write made, the clock at its last period.
CHECK_DEADLOCK FALSE
