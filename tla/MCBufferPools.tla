--------------------------- MODULE MCBufferPools ---------------------------
(***************************************************************************)
(* BufferPools instantiated for TLC.  Bytes are small integers: 0 is the   *)
(* zero byte make and append leave, 1 a written payload, 2 a WriteByte,    *)
(* 3 a Set, 4 and 5 the reader's bytes.                                    *)
(***************************************************************************)
EXTENDS BufferPools, TLC

CONSTANTS c1, c2

MCCallers == {c1, c2}

\* Three bytes fill a nil Buffer to the 8-byte size class; Reset keeps
\* that capacity.
MCPayloads == {<<1, 1, 1>>, <<3>>}

\* Expand(9, 9) on a Buffer of capacity 8 and length below 8, Expand(2, 4)
\* within its capacity.
MCExpandArgs == {<<9, 9>>, <<2, 4>>}

\* 66 bytes: more than the 64 ReadFrom allocates for a nil Buffer and the 8
\* a three-byte Write leaves, so ReadFrom's loop doubles p from either.
MCReaderData == [i \in 1..66 |-> IF i % 2 = 0 THEN 4 ELSE 5]

MCSymmetry == Permutations(MCCallers)
\* Twelve stream bytes: enough for three calls of up to 8 bytes to meet
\* both the bytes a value needs and the end of the stream.  1 and 18 are
\* the hex digits 0 1 and 1 2.
MCStream == [i \in 1..12 |-> IF i % 2 = 0 THEN 18 ELSE 1]

MCPrograms == {"fastbuffer", "buffer", "readhelper"}
\* Readers of the file of "@file": the bytes themselves.
MCEasyInput == [c \in MCCallers |-> "@file"]

\* One goroutine reading stdin through EasyRead(NewOption(), "-"), which
\* wraps it in a HexReader, running the read helpers only.
MCHexCallers == {c1}
MCHexInput == [c \in MCHexCallers |-> "-"]
MCHexPrograms == {"readhelper"}
====
