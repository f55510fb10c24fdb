--------------------------- MODULE MCSofaWriter ---------------------------
(* SofaWriter instantiated for TLC: four DSNs, as model values, standing   *)
(* for "file://a.log?async=true", "syslog://host:514", "test://t" and      *)
(* "file://b.log?rotate_mode=weekly" .                                      *)
EXTENDS SofaWriter, TLC

CONSTANTS dAsyncFile, dSyslog, dTest, dBadMode

MCDSNs == {dAsyncFile, dSyslog, dTest, dBadMode}

MCKind == (dAsyncFile :> "size") @@ (dSyslog :> "syslog")
            @@ (dTest :> "test") @@ (dBadMode :> "badMode")

MCAsync == [d \in MCDSNs |-> d = dAsyncFile]

=============================================================================
