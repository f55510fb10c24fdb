------------------------- MODULE MCLoggerRegistry -------------------------
(* LoggerRegistry instantiated for TLC.  Three DSNs, as model values:      *)
(*   dAsync:  "file://a.log?async=true&level=error"                        *)
(*   dSyslog: "syslog://host:514?rsyslog_facility=local7&                  *)
(*             rsyslog_severity=debug&level=debug"                         *)
(*   dBad:    "file://b.log?rotate_mode=weekly"                            *)
(*   dTest:   "test://t?trace=true&level=warn"                             *)
EXTENDS LoggerRegistry, TLC

CONSTANTS n1, n2, stdout, c1, c2, dAsync, dSyslog, dBad, dTest

MCNames == {n1, n2}
MCCallers == {c1, c2}
MCDSNs == {dAsync, dSyslog, dBad, dTest}
MCKind == (dAsync :> "size") @@ (dSyslog :> "syslog") @@ (dBad :> "badMode")
            @@ (dTest :> "test")
MCAsync == [d \in MCDSNs |-> d = dAsync]
MCDSNLevel == (dAsync :> "ERROR") @@ (dSyslog :> "DEBUG") @@ (dBad :> "")
                 @@ (dTest :> "WARN")
MCDSNFacility == (dAsync :> "") @@ (dSyslog :> "LOCAL7") @@ (dBad :> "")
                  @@ (dTest :> "")
MCDSNSeverity == (dAsync :> "") @@ (dSyslog :> "DEBUG") @@ (dBad :> "")
                  @@ (dTest :> "")
MCDSNPath == [d \in MCDSNs |-> IF d = dTest THEN "t" ELSE "a"]
MCDSNTrace == [d \in MCDSNs |-> d = dTest]
MCPostLevels == {"WARN", "NOSUCH"}
MCLogLevels == {InfoLevel, WarnLevel, ErrorLevel}

\* Goroutines and logger names are interchangeable.
MCSymmetry == Permutations(MCCallers) \cup Permutations(MCNames)

=============================================================================
