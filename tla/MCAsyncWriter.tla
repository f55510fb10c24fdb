--------------------------- MODULE MCAsyncWriter ---------------------------
(* AsyncWriter instantiated for TLC: two producers as model values.        *)
EXTENDS AsyncWriter

CONSTANTS p1, p2

MCProducers == {p1, p2}

=============================================================================
