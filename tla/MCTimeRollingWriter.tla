------------------------ MODULE MCTimeRollingWriter ------------------------
(* TimeRollingWriter instantiated for TLC: writer goroutines as model      *)
(* values.                                                                 *)
EXTENDS TimeRollingWriter

CONSTANTS g1, g2

MCWriters1 == {g1}
MCWriters2 == {g1, g2}

=============================================================================
