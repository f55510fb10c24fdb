--------------------------- MODULE MCBatchWriter ---------------------------
(* Model-checking instance of BatchWriter: two producer goroutines.        *)
EXTENDS BatchWriter

CONSTANTS p1, p2

MCProducers == {p1, p2}

=============================================================================
