\* One goroutine reading stdin through EasyRead(NewOption(), "-"), a
\* HexReader over the hex digits of twelve bytes whose Reads return every
\* digit asked for (as a file does), calling ReadBigEndianUint16/32/64 and
\* ReadToBytes(4): the even-length reads of io.ReadFull and io.ReadAtLeast.
CONSTANTS
  c1 = c1
  c2 = c2
  Callers <- MCHexCallers
  Sizes = {2}
  MaxHeld = 1
  MaxArrays = 1
  Payloads <- MCPayloads
  Bytes = {2}
  ExpandArgs <- MCExpandArgs
  ReaderData <- MCReaderData
  ReadSizes = {64}
  MaxBufOps = 0
  Programs <- MCHexPrograms
  Stream <- MCStream
  EasyInput <- MCHexInput
  DefaultFormat = "hex"
  Widths = {2, 4, 8}
  Lengths = {4}
  BufCap = 8
  MaxU64 = 2
  MaxRHOps = 3

SPECIFICATION Spec

INVARIANT ReadsDecode

CHECK_DEADLOCK FALSE
