\* Two goroutines allocating slices of 2 and 9 bytes from one FastBuffer
\* and releasing them, and one goroutine making up to three calls on a
\* Buffer, ReadFrom reading 66 bytes in Reads of 1 or 64.
CONSTANTS
  c1 = c1
  c2 = c2
  Callers <- MCCallers
  Sizes = {2, 9}
  MaxHeld = 2
  MaxArrays = 4
  Payloads <- MCPayloads
  Bytes = {2}
  ExpandArgs <- MCExpandArgs
  ReaderData <- MCReaderData
  ReadSizes = {1, 64}
  MaxBufOps = 3
  Programs <- MCPrograms
  Stream <- MCStream
  EasyInput <- MCEasyInput
  DefaultFormat = "hex"
  Widths = {1, 2, 4, 8}
  Lengths = {0, 3, 9}
  BufCap = 8
  MaxU64 = 2
  MaxRHOps = 3

SPECIFICATION Spec
SYMMETRY MCSymmetry

INVARIANT TypeOK
INVARIANT NoSharedArray
INVARIANT BufferHoldsWrites
INVARIANT ReadsDecode

\* Every call is bounded: the program stops.
CHECK_DEADLOCK FALSE
