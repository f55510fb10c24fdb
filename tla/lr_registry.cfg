\* Two goroutines allocating two names from four DSNs, POSTing levels and
\* logging at Info, Warn and Error on the registry's loggers and on
\* StdoutLogger.
CONSTANTS
  n1 = n1
  n2 = n2
  stdout = stdout
  c1 = c1
  c2 = c2
  dAsync = dAsync
  dSyslog = dSyslog
  dBad = dBad
  dTest = dTest
  Names <- MCNames
  Std = stdout
  Callers <- MCCallers
  DSNs <- MCDSNs
  Kind <- MCKind
  Async <- MCAsync
  DSNLevel <- MCDSNLevel
  DSNFacility <- MCDSNFacility
  DSNSeverity <- MCDSNSeverity
  DSNPath <- MCDSNPath
  DSNTrace <- MCDSNTrace
  PostLevels <- MCPostLevels
  LogLevels <- MCLogLevels
  MaxLogs = 3

SPECIFICATION Spec
SYMMETRY MCSymmetry

INVARIANT TypeOK
INVARIANT WritersOwned
