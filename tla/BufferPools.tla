---------------------------- MODULE BufferPools ----------------------------
(***************************************************************************)
(* The byte-buffer pools of src/syncpool:                                  *)
(*                                                                         *)
(*   - fastbuffer.FastBuffer, a stack of []byte under a mutex shared by    *)
(*     goroutines.  Allocate pops a slice under the lock and, after        *)
(*     Unlock, resizes it (make, allocAtLeast, reslice): two steps.        *)
(*     Release, BatchRelease and Reset are one critical section each.      *)
(*   - bufferpool.Buffer, a growable []byte owned by one goroutine: the    *)
(*     appending writes, Set, Reset, Expand and ReadFrom, whose loop reads *)
(*     from an io.Reader into a slice it doubles when full.                *)
(*   - readhelper's integer reads, sharing u64Pool's [8]byte arrays        *)
(*     between goroutines, over the reader easyreader.EasyRead returns:    *)
(*     the bytes, or a hexreader.HexReader over their hex digits.          *)
(*                                                                         *)
(* A slice is its backing array, its len and its cap (every slice here     *)
(* starts at offset 0).  FastBuffer's arrays are identities; Buffer's      *)
(* array is its contents, a sequence of cap bytes, so that what append,    *)
(* make and copy leave beyond len is visible.  append is Go's: in place    *)
(* when the new length fits the capacity, else growslice (Go 1.20 and      *)
(* later) copies the old len bytes into a fresh, zeroed array whose        *)
(* capacity is the grown one rounded up to the allocator's size class.     *)
(* A slice expression s[:l] with l > cap(s) panics.                        *)
(*                                                                         *)
(* The FastBuffer, the Buffer and the read helpers share no state, so a    *)
(* behaviour of all three is an interleaving of a behaviour of each, and   *)
(* every property below is about one of them.  The model checks them as   *)
(* three programs, the one Init picks in `prog`, rather than their product.*)
(***************************************************************************)
EXTENDS Integers, Sequences, SequencesExt, FiniteSets, FiniteSetsExt

CONSTANTS
  Callers,     \* goroutines sharing the FastBuffer
  Sizes,       \* sizes passed to Allocate
  MaxHeld,     \* slices a goroutine holds at once (bounds the model)
  MaxArrays,   \* arrays Allocate may make (bounds the model)
  Payloads,    \* byte sequences passed to Write, WriteString and Set
  Bytes,       \* bytes passed to WriteByte
  ExpandArgs,  \* the <<l, c>> pairs passed to Expand
  ReaderData,  \* the bytes the io.Reader passed to ReadFrom yields
  ReadSizes,   \* how many bytes (or hex digits) one Read returns when it can
  MaxBufOps,   \* Buffer calls in a behaviour (bounds the model)
  Programs,    \* the programs Init may pick (see prog)
  Stream,      \* the bytes each read-helper goroutine's reader yields
  EasyInput,   \* [Callers -> the input EasyRead made its reader from]
  DefaultFormat, \* the Option's default format: "hex" or "bin"
  Widths,      \* integer widths read: 1, 2, 4, 8 (ReadUint8 .. Uint64)
  Lengths,     \* lengths passed to ReadToBytes
  BufCap,      \* cap of the buf a goroutine passes to ReadToBytes
  MaxU64,      \* arrays u64Pool's New may make (bounds the model)
  MaxRHOps     \* read-helper calls in a behaviour (bounds the model)

ASSUME
  /\ Callers # {}
  /\ Sizes \subseteq Nat \ {0}
  /\ MaxHeld \in Nat \ {0}
  /\ MaxArrays \in Nat
  /\ ExpandArgs \subseteq Nat \X Nat
  /\ ReadSizes \subseteq Nat \ {0}
  /\ MaxBufOps \in Nat
  /\ Programs \subseteq {"fastbuffer", "buffer", "readhelper"}
  /\ EasyInput \in [Callers -> {"-", "#file", "@file", "inline"}]
  /\ DefaultFormat \in {"hex", "bin"}
  /\ Widths \subseteq {1, 2, 4, 8}
  /\ MaxU64 \in Nat /\ MaxRHOps \in Nat

-----------------------------------------------------------------------------
(* Go's slice growth.                                                      *)

\* The allocator's size classes up to 1024 bytes (runtime/sizeclasses.go).
SizeClasses == {8, 16, 24, 32, 48, 64, 80, 96, 112, 128, 144, 160, 176, 192,
                208, 224, 240, 256, 288, 320, 352, 384, 416, 448, 480, 512,
                576, 640, 704, 768, 896, 1024}

RoundUpSize(n) == Min({s \in SizeClasses : s >= n})

\* nextslicecap: double a small slice, grow a large one by about 1.25x.
RECURSIVE GrowLarge(_, _)
GrowLarge(c, newLen) ==
  IF c >= newLen THEN c ELSE GrowLarge(c + (c + 3 * 256) \div 4, newLen)

GrowCap(oldCap, newLen) ==
  RoundUpSize(IF newLen > 2 * oldCap THEN newLen
              ELSE IF oldCap < 256 THEN 2 * oldCap
              ELSE GrowLarge(oldCap, newLen))

Zeros(n) == [i \in 1..n |-> 0]

\* append(s, p...) on the array arr holding a slice of length len: the new
\* array and length.
AppendBytes(arr, len, p) ==
  LET newLen == len + Len(p)
      cap == Len(arr)
      put(i) == p[i - len]
  IN IF newLen <= cap
     THEN [arr |-> [i \in 1..cap |-> IF i > len /\ i <= newLen THEN put(i)
                                     ELSE arr[i]],
           len |-> newLen]
     ELSE LET nc == GrowCap(cap, newLen)
          IN [arr |-> [i \in 1..nc |-> IF i <= len THEN arr[i]
                                       ELSE IF i <= newLen THEN put(i)
                                       ELSE 0],
              len |-> newLen]

-----------------------------------------------------------------------------

NoSlice == [arr |-> 0, len |-> 0, cap |-> 0]   \* the nil []byte

VARIABLES
  fbuf,     \* fb.buffers: the pooled slices, a sequence of [arr, len, cap]
  held,     \* [Callers -> the slices the goroutine got from Allocate]
  apc,      \* [Callers -> "idle" or "resize" (Allocate after Unlock)]
  got,      \* [Callers -> Allocate's d, popped under the lock]
  asize,    \* [Callers -> Allocate's size]
  narrays,  \* arrays Allocate has made
  barr,     \* b.Buf's backing array: its cap bytes
  blen,     \* len(b.Buf)
  bpc,      \* the Buffer's goroutine: "idle", "reading" or "panicked"
  rp,       \* ReadFrom's p: its backing array (of nMax bytes)
  rn,       \* ReadFrom's n
  rstart,   \* ReadFrom's nStart
  rpos,     \* bytes of ReaderData read so far
  rret,     \* what the last ReadFrom returned as its count
  rerr,     \* and as its error: "nil" or "fail"
  want,     \* history: what b.Buf holds by the calls made on it
  wantRet,  \* history: the bytes the last ReadFrom took from the reader
  bops,     \* Buffer calls made
  u64pool,  \* readhelper's u64Pool: the ids of the pooled [8]byte arrays
  u64mem,   \* [1..MaxU64 -> the 8 bytes of each array New made]
  nu64,     \* arrays New has made
  call,     \* [Callers -> the read-helper call the goroutine is in]
  rhpos,    \* [Callers -> bytes (hex digits) its reader has yielded]
  rhbuf,    \* [Callers -> the buf it passes to ReadToBytes: BufCap bytes]
  rhlast,   \* [Callers -> what its last read-helper call returned]
  rhops,    \* read-helper calls made
  prog      \* "fastbuffer", "buffer" or "readhelper": the program run

fbVars == <<fbuf, held, apc, got, asize, narrays>>
rdVars == <<rp, rn, rstart, rpos, rret, rerr, wantRet>>
bufVars == <<barr, blen, bpc, want, bops, rdVars>>
rhVars == <<u64pool, u64mem, nu64, call, rhpos, rhbuf, rhlast, rhops>>
vars == <<fbVars, bufVars, rhVars, prog>>

\* A goroutine between read-helper calls, and before its first return.
NoCall == [pc |-> "idle", tw |-> 0, len |-> 0, id |-> 0, n |-> 0, start |-> 0]
NoResult == [kind |-> "none", tw |-> 0, start |-> 0, end |-> 0,
             err |-> "nil", val |-> <<>>]

Init ==
  /\ fbuf = <<>>
  /\ held = [c \in Callers |-> <<>>]
  /\ apc = [c \in Callers |-> "idle"]
  /\ got = [c \in Callers |-> NoSlice]
  /\ asize = [c \in Callers |-> CHOOSE s \in Sizes : TRUE]
  /\ narrays = 0
  /\ barr = <<>>
  /\ blen = 0
  /\ bpc = "idle"
  /\ rp = <<>>
  /\ rn = 0
  /\ rstart = 0
  /\ rpos = 0
  /\ rret = 0
  /\ rerr = "nil"
  /\ want = <<>>
  /\ wantRet = 0
  /\ bops = 0
  /\ u64pool = {}
  /\ u64mem = [i \in 1..MaxU64 |-> Zeros(8)]
  /\ nu64 = 0
  /\ call = [c \in Callers |-> NoCall]
  /\ rhpos = [c \in Callers |-> 0]
  /\ rhbuf = [c \in Callers |-> Zeros(BufCap)]
  /\ rhlast = [c \in Callers |-> NoResult]
  /\ rhops = 0
  /\ prog \in Programs

-----------------------------------------------------------------------------
(* FastBuffer.                                                             *)

\* Mutant: the popped slice is left in fb.buffers (fb.buffers[:n-1] lost).
AllocateLockNoPop(c, size) ==
  /\ apc[c] = "idle"
  /\ Len(held[c]) < MaxHeld
  /\ got' = [got EXCEPT ![c] = IF fbuf # <<>> THEN Last(fbuf) ELSE NoSlice]
  /\ apc' = [apc EXCEPT ![c] = "resize"]
  /\ asize' = [asize EXCEPT ![c] = size]
  /\ UNCHANGED <<fbuf, held, narrays, bufVars>>

\* Allocate, up to Unlock: pop the last pooled slice, if any.
AllocateLock(c, size) ==
  /\ apc[c] = "idle"
  /\ Len(held[c]) < MaxHeld
  /\ IF fbuf # <<>>
     THEN /\ got' = [got EXCEPT ![c] = Last(fbuf)]
          /\ fbuf' = Front(fbuf)
     ELSE /\ got' = [got EXCEPT ![c] = NoSlice]
          /\ UNCHANGED fbuf
  /\ apc' = [apc EXCEPT ![c] = "resize"]
  /\ asize' = [asize EXCEPT ![c] = size]
  /\ UNCHANGED <<held, narrays, bufVars>>

\* allocAtLeast(dst, length) for cap(dst) < length: dst[:dc] grows by
\* append to len(dst) + length bytes in a new array.
AllocAtLeast(d, length) ==
  [arr |-> narrays + 1, len |-> d.len + length,
   cap |-> GrowCap(d.cap, d.len + length)]

\* Mutant: the cap(d) < size check dropped; d[0:size] then reaches past
\* the capacity.
AllocateResizeNoGrow(c) ==
  LET d == got[c]
      r == IF d = NoSlice
           THEN [arr |-> narrays + 1, len |-> asize[c], cap |-> asize[c]]
           ELSE [d EXCEPT !.len = asize[c]]
  IN /\ apc[c] = "resize"
     /\ d = NoSlice => narrays < MaxArrays
     /\ narrays' = IF d = NoSlice THEN narrays + 1 ELSE narrays
     /\ held' = [held EXCEPT ![c] = Append(@, r)]
     /\ apc' = [apc EXCEPT ![c] = "idle"]
     /\ got' = [got EXCEPT ![c] = NoSlice]
     /\ UNCHANGED <<fbuf, asize, bufVars>>

\* Allocate, after Unlock: make a slice, or grow and reslice the popped one.
AllocateResize(c) ==
  LET d == got[c]
      size == asize[c]
      fresh == d = NoSlice \/ d.cap < size
      r == IF d = NoSlice THEN [arr |-> narrays + 1, len |-> size, cap |-> size]
           ELSE IF d.cap < size THEN [AllocAtLeast(d, size) EXCEPT !.len = size]
           ELSE [d EXCEPT !.len = size]
  IN /\ apc[c] = "resize"
     /\ fresh => narrays < MaxArrays
     /\ narrays' = IF fresh THEN narrays + 1 ELSE narrays
     /\ held' = [held EXCEPT ![c] = Append(@, r)]
     /\ apc' = [apc EXCEPT ![c] = "idle"]
     /\ got' = [got EXCEPT ![c] = NoSlice]
     /\ UNCHANGED <<fbuf, asize, bufVars>>

\* Release(d) of the last slice the goroutine got.
Release(c) ==
  /\ held[c] # <<>>
  /\ fbuf' = Append(fbuf, Last(held[c]))
  /\ held' = [held EXCEPT ![c] = Front(@)]
  /\ UNCHANGED <<apc, got, asize, narrays, bufVars>>

\* BatchRelease(d) of every slice the goroutine holds.
BatchRelease(c) ==
  /\ held[c] # <<>>
  /\ fbuf' = fbuf \o held[c]
  /\ held' = [held EXCEPT ![c] = <<>>]
  /\ UNCHANGED <<apc, got, asize, narrays, bufVars>>

Reset ==
  /\ fbuf # <<>>
  /\ fbuf' = <<>>
  /\ UNCHANGED <<held, apc, got, asize, narrays, bufVars>>

-----------------------------------------------------------------------------
(* Buffer.                                                                 *)

BufIdle == bpc = "idle" /\ bops < MaxBufOps

\* Write(p): b.Buf = append(b.Buf, p...).
Write(p) ==
  LET r == AppendBytes(barr, blen, p)
  IN /\ BufIdle
     /\ barr' = r.arr
     /\ blen' = r.len
     /\ want' = want \o p
     /\ bops' = bops + 1
     /\ UNCHANGED <<bpc, rdVars, fbVars>>

\* WriteString(s): the same append, of the string's bytes.
WriteString(p) == Write(p)

\* WriteByte(x): b.Buf = append(b.Buf, x).
WriteByte(x) ==
  LET r == AppendBytes(barr, blen, <<x>>)
  IN /\ BufIdle
     /\ barr' = r.arr
     /\ blen' = r.len
     /\ want' = Append(want, x)
     /\ bops' = bops + 1
     /\ UNCHANGED <<bpc, rdVars, fbVars>>

\* Set(p): b.Buf = append(b.Buf[:0], p...).
Set(p) ==
  LET r == AppendBytes(barr, 0, p)
  IN /\ BufIdle
     /\ barr' = r.arr
     /\ blen' = r.len
     /\ want' = p
     /\ bops' = bops + 1
     /\ UNCHANGED <<bpc, rdVars, fbVars>>

\* SetString(s): the same append, of the string's bytes.
SetString(p) == Set(p)

BufReset ==
  /\ BufIdle
  /\ blen' = 0
  /\ want' = <<>>
  /\ bops' = bops + 1
  /\ UNCHANGED <<barr, bpc, rdVars, fbVars>>

\* Expand(l, c): when cap(b.Buf) < c, append c - cap(b.Buf) zero bytes;
\* then b.Buf = b.Buf[:l], which panics when l exceeds the capacity the
\* append left.  The bytes between the old len and l are whatever the
\* array holds there.
Expand(l, c) ==
  LET r == IF Len(barr) < c THEN AppendBytes(barr, blen, Zeros(c - Len(barr)))
           ELSE [arr |-> barr, len |-> blen]
  IN /\ BufIdle
     /\ bops' = bops + 1
     /\ IF l <= Len(r.arr)
        THEN /\ barr' = r.arr
             /\ blen' = l
             /\ want' = IF l <= blen THEN SubSeq(want, 1, l)
                        ELSE want \o SubSeq(r.arr, blen + 1, l)
             /\ UNCHANGED bpc
        ELSE /\ bpc' = "panicked"
             /\ UNCHANGED <<barr, blen, want>>
     /\ UNCHANGED <<rdVars, fbVars>>

\* ReadFrom, up to its loop: p is b.Buf resliced to its capacity, or a
\* fresh 64-byte slice when that capacity is 0.
ReadFromStart ==
  /\ BufIdle
  /\ bpc' = "reading"
  /\ rp' = IF barr = <<>> THEN Zeros(64) ELSE barr
  /\ rn' = blen
  /\ rstart' = blen
  /\ wantRet' = 0
  /\ bops' = bops + 1
  /\ UNCHANGED <<barr, blen, want, rpos, rret, rerr, fbVars>>

\* r.Read(p[n:]) put nn bytes of the reader's data into p at n.
Filled(p, nn) ==
  [i \in 1..Len(p) |-> IF i > rn /\ i <= rn + nn
                       THEN ReaderData[rpos + i - rn] ELSE p[i]]

\* ReadFrom's return after a Read of nn bytes with error e: b.Buf = p[:n],
\* and the count is n - nStart.
ReadFromReturn(p, nn, e) ==
  /\ barr' = Filled(p, nn)
  /\ blen' = rn + nn
  /\ rret' = rn + nn - rstart
  /\ rerr' = e
  /\ want' = want \o SubSeq(ReaderData, rpos - wantRet + 1, rpos + nn)
  /\ bpc' = "idle"
  /\ UNCHANGED <<rp, rn>>

\* Mutant: the doubled p is a fresh slice without copy(bNew, p).
ReadFromLoopNoCopy ==
  LET p == IF rn = Len(rp) THEN Zeros(2 * Len(rp)) ELSE rp
      left == Len(ReaderData) - rpos
      space == Len(p) - rn
  IN /\ bpc = "reading"
     /\ \E nn \in {Min({k, space, left}) : k \in ReadSizes} \cup {0} :
          /\ rpos' = rpos + nn
          /\ wantRet' = wantRet + nn
          /\ \/ /\ nn > 0
                /\ rp' = Filled(p, nn)
                /\ rn' = rn + nn
                /\ UNCHANGED <<barr, blen, rret, rerr, want, bpc>>
             \/ nn = left /\ ReadFromReturn(p, nn, "nil")
             \/ ReadFromReturn(p, nn, "fail")
     /\ UNCHANGED <<rstart, bops, fbVars>>

\* One turn of ReadFrom's loop: double p when n reached nMax (copying all
\* of p into the new slice), then r.Read(p[n:]).  The reader returns nn
\* bytes and nil, or EOF once it has none left (ReadFrom returns nil), or
\* fails after nn bytes.
ReadFromLoop ==
  LET p == IF rn = Len(rp)
           THEN [i \in 1..2 * Len(rp) |-> IF i <= Len(rp) THEN rp[i] ELSE 0]
           ELSE rp
      left == Len(ReaderData) - rpos
      space == Len(p) - rn
  IN /\ bpc = "reading"
     /\ \E nn \in {Min({k, space, left}) : k \in ReadSizes} \cup {0} :
          /\ rpos' = rpos + nn
          /\ wantRet' = wantRet + nn
          /\ \/ /\ nn > 0
                /\ rp' = Filled(p, nn)
                /\ rn' = rn + nn
                /\ UNCHANGED <<barr, blen, rret, rerr, want, bpc>>
             \/ nn = left /\ ReadFromReturn(p, nn, "nil")
             \/ ReadFromReturn(p, nn, "fail")
     /\ UNCHANGED <<rstart, bops, fbVars>>

-----------------------------------------------------------------------------
(* readhelper.  Each goroutine reads from its own io.Reader over Stream,   *)
(* the one easyreader.EasyRead returned for its input: the bytes           *)
(* themselves, or, for a HexReader, their hex digits (a digit is its value *)
(* 0..15).  One Read of len(b) = L returns k units and nil for a k the     *)
(* reader picks, EOF when none are left, or an I/O failure.                *)

\* EasyRead(o, input) wraps a HexReader around stdin ("-") under HexFormat,
\* the zero Option's format, and around the file of "#file"; "@file",
\* stdin under BinFormat and an inline string (hex-decoded up front) are
\* read as they are.  os.Open and DecodeString failures return before any
\* read and are left out.
EasyReadsHex(c) == \/ EasyInput[c] = "-" /\ DefaultFormat = "hex"
                   \/ EasyInput[c] = "#file"
HexReaders == {c \in Callers : EasyReadsHex(c)}

\* encoding/hex: two digits per byte, high nibble first.
HexOf(s) == [i \in 1..2 * Len(s) |-> IF i % 2 = 1 THEN s[(i + 1) \div 2] \div 16
                                     ELSE s[i \div 2] % 16]
HexDecode(h) == [i \in 1..Len(h) \div 2 |-> 16 * h[2 * i - 1] + h[2 * i]]

\* binary.BigEndian.UintN(p) of the first N bytes of p, as the high and low
\* 32-bit words of a uint64 (TLC's integers are 32-bit).
Word(s) == FoldLeft(LAMBDA a, b : 256 * a + b, 0, s)
BigEndian(p) == IF Len(p) <= 4 THEN <<0, Word(p)>>
                ELSE <<Word(SubSeq(p, 1, Len(p) - 4)),
                       Word(SubSeq(p, Len(p) - 3, Len(p)))>>

Units(c) == IF c \in HexReaders THEN HexOf(Stream) ELSE Stream
UnitOf(c) == IF c \in HexReaders THEN 2 ELSE 1
Chunk(c, k) == SubSeq(Units(c), rhpos[c] + 1, rhpos[c] + k)

\* The underlying reader's r.Read(b) with len(b) = L.
UnderlyingRead(c, L) ==
  LET left == Len(Units(c)) - rhpos[c]
  IN {[k |-> 0, err |-> "fail"]}
     \cup IF left = 0 THEN {[k |-> 0, err |-> "EOF"]}
          ELSE {[k |-> Min({s, L, left}), err |-> "nil"] : s \in ReadSizes}

\* The goroutine's reader.Read(p) with len(p) = L: n bytes put in p, the
\* error, and the units taken from the stream.  HexReader.Read reads L hex
\* digits into b and returns hex.Decode(p, b[:n]): n/2 bytes, and
\* ErrLength when n is odd (the odd digit is consumed and dropped).
ReaderRead(c, L) ==
  {IF c \notin HexReaders \/ u.err # "nil"
   THEN [n |-> u.k, err |-> u.err, bytes |-> Chunk(c, u.k), used |-> u.k]
   ELSE [n |-> u.k \div 2, err |-> IF u.k % 2 = 1 THEN "ErrLength" ELSE "nil",
         bytes |-> HexDecode(Chunk(c, u.k)), used |-> u.k]
   : u \in UnderlyingRead(c, L)}

\* s with the bytes b put at positions off+1 .. off+Len(b).
PutAt(s, off, b) ==
  [i \in 1..Len(s) |-> IF i > off /\ i <= off + Len(b) THEN b[i - off] ELSE s[i]]

RHIdle(c) == call[c].pc = "idle" /\ rhops < MaxRHOps

\* Mutant: ReadBigEndianUint16 slices (*p)[5:], three bytes.
U64OffsetWide(w) == IF w = 2 THEN 5 ELSE 8 - w

\* (*p)[U64Offset(w):]: the part of the pooled [8]byte a read of a w-byte
\* integer passes on.
U64Offset(w) == 8 - w

\* ReadUint8, ReadBigEndianUint16/32/64, up to the read: AcquireU64Bits()
\* (u64Pool.Get: a pooled array, or a zeroed one from New).
ReadInt(c, w) ==
  /\ RHIdle(c)
  /\ \E id \in u64pool \cup (IF nu64 < MaxU64 THEN {nu64 + 1} ELSE {}) :
       /\ u64pool' = u64pool \ {id}
       /\ nu64' = IF id > nu64 THEN id ELSE nu64
       /\ call' = [call EXCEPT ![c] =
                    [pc |-> IF w = 1 THEN "u8" ELSE "full", tw |-> w,
                     len |-> 8 - U64Offset(w), id |-> id, n |-> 0,
                     start |-> rhpos[c]]]
  /\ rhops' = rhops + 1
  /\ UNCHANGED <<u64mem, rhpos, rhbuf, rhlast>>

\* ReadToBytes(reader, length, buf): nil for length 0; buf[:length] panics
\* when length exceeds cap(buf); else io.ReadAtLeast into buf[:length].
ReadToBytes(c, length) ==
  /\ RHIdle(c)
  /\ rhops' = rhops + 1
  /\ \/ /\ length = 0
        /\ rhlast' = [rhlast EXCEPT ![c] = [NoResult EXCEPT !.kind = "bytes",
                        !.start = rhpos[c], !.end = rhpos[c]]]
        /\ UNCHANGED call
     \/ /\ length > BufCap
        /\ call' = [call EXCEPT ![c].pc = "panicked"]
        /\ UNCHANGED rhlast
     \/ /\ length \in 1..BufCap
        /\ call' = [call EXCEPT ![c] = [pc |-> "bytes", tw |-> length,
                     len |-> length, id |-> 0, n |-> 0, start |-> rhpos[c]]]
        /\ UNCHANGED rhlast
  /\ UNCHANGED <<u64pool, u64mem, nu64, rhpos, rhbuf>>

\* One reader.Read(p[n:]) of a call.  ReadUint8WithBytes makes one Read and
\* returns b[0] unless it failed; io.ReadFull and io.ReadAtLeast loop until
\* len(p) bytes are in or a Read fails, then drop the error when they are
\* all in and turn EOF after some bytes into ErrUnexpectedEOF.  The call
\* then decodes p (binary.BigEndian), or leaves it in buf, and releases the
\* pooled array (ReleaseU64Bits).
RHRead(c) ==
  LET cl == call[c]
      isBuf == cl.pc = "bytes"
      arr == IF isBuf THEN rhbuf[c] ELSE u64mem[cl.id]
      off == IF isBuf THEN 0 ELSE 8 - cl.len
  IN /\ cl.pc \in {"u8", "full", "bytes"}
     /\ \E o \in ReaderRead(c, cl.len - cl.n) :
          LET n == cl.n + o.n
              arr2 == PutAt(arr, off + cl.n, o.bytes)
              p == SubSeq(arr2, off + 1, off + cl.len)
              err == IF cl.pc = "u8" THEN o.err
                     ELSE IF n >= cl.len THEN "nil"
                     ELSE IF n > 0 /\ o.err = "EOF" THEN "UnexpectedEOF"
                     ELSE o.err
              val == IF isBuf THEN SubSeq(p, 1, cl.tw) ELSE BigEndian(SubSeq(p, 1, cl.tw))
          IN /\ rhpos' = [rhpos EXCEPT ![c] = @ + o.used]
             /\ IF isBuf THEN /\ rhbuf' = [rhbuf EXCEPT ![c] = arr2]
                              /\ UNCHANGED u64mem
                         ELSE /\ u64mem' = [u64mem EXCEPT ![cl.id] = arr2]
                              /\ UNCHANGED rhbuf
             /\ IF cl.pc = "u8" \/ n >= cl.len \/ o.err # "nil"
                THEN /\ call' = [call EXCEPT ![c] = NoCall]
                     /\ u64pool' = IF isBuf THEN u64pool ELSE u64pool \cup {cl.id}
                     /\ rhlast' = [rhlast EXCEPT ![c] =
                          [kind |-> IF isBuf THEN "bytes" ELSE "int", tw |-> cl.tw,
                           start |-> cl.start, end |-> rhpos'[c], err |-> err,
                           val |-> IF err = "nil" THEN val ELSE <<>>]]
                ELSE /\ call' = [call EXCEPT ![c].n = n]
                     /\ UNCHANGED <<u64pool, rhlast>>
     /\ UNCHANGED <<nu64, rhops>>

ReadHelperNext ==
  \E c \in Callers :
    \/ \E w \in Widths : ReadInt(c, w)
    \/ \E l \in Lengths : ReadToBytes(c, l)
    \/ RHRead(c)

FastBufferNext ==
  \/ \E c \in Callers, size \in Sizes : AllocateLock(c, size)
  \/ \E c \in Callers : AllocateResize(c) \/ Release(c) \/ BatchRelease(c)
  \/ Reset

BufferNext ==
  \/ \E p \in Payloads : Write(p) \/ WriteString(p) \/ Set(p) \/ SetString(p)
  \/ \E x \in Bytes : WriteByte(x)
  \/ BufReset
  \/ \E a \in ExpandArgs : Expand(a[1], a[2])
  \/ ReadFromStart
  \/ ReadFromLoop

Next ==
  /\ \/ prog = "fastbuffer" /\ FastBufferNext /\ UNCHANGED rhVars
     \/ prog = "buffer" /\ BufferNext /\ UNCHANGED rhVars
     \/ prog = "readhelper" /\ ReadHelperNext /\ UNCHANGED <<fbVars, bufVars>>
  /\ UNCHANGED prog

Spec == Init /\ [][Next]_vars

-----------------------------------------------------------------------------

Slice == [arr : 1..MaxArrays, len : Nat, cap : Nat]
Fits(s) == s.len <= s.cap

TypeOK ==
  /\ fbuf \in Seq(Slice)
  /\ held \in [Callers -> Seq(Slice)]
  /\ apc \in [Callers -> {"idle", "resize"}]
  /\ got \in [Callers -> Slice \cup {NoSlice}]
  /\ asize \in [Callers -> Sizes]
  /\ narrays \in 0..MaxArrays
  /\ \A i \in 1..Len(fbuf) : Fits(fbuf[i])
  /\ \A c \in Callers : \A i \in 1..Len(held[c]) : Fits(held[c][i])
  /\ blen \in 0..Len(barr)
  /\ bpc \in {"idle", "reading", "panicked"}
  /\ rn \in rstart..Len(rp)
  /\ rpos \in 0..Len(ReaderData)
  /\ rerr \in {"nil", "fail"}
  /\ bops \in 0..MaxBufOps
  /\ nu64 \in 0..MaxU64
  /\ u64pool \subseteq 1..nu64
  /\ call \in [Callers -> [pc : {"idle", "u8", "full", "bytes", "panicked"},
                           tw : Nat, len : Nat, id : 0..MaxU64, n : Nat,
                           start : Nat]]
  /\ \A c \in Callers : call[c].n <= call[c].len
                       /\ rhpos[c] <= Len(Units(c))
  /\ rhops \in 0..MaxRHOps

\* Where a FastBuffer slice is: pooled at fb.buffers[i], held by goroutine
\* c as its i-th, or popped by c's Allocate (index 0) and not yet resized.
Slots == {<<"pool", i>> : i \in 1..Len(fbuf)}
         \cup UNION {{<<c, i>> : i \in 1..Len(held[c])} : c \in Callers}
         \cup {<<c, 0>> : c \in {x \in Callers : got[x] # NoSlice}}
ArrayAt(s) == IF s[1] = "pool" THEN fbuf[s[2]].arr
              ELSE IF s[2] = 0 THEN got[s[1]].arr
              ELSE held[s[1]][s[2]].arr

\* FastBuffer hands out each backing array to one goroutine at a time:
\* however Allocate, Release, BatchRelease and Reset of several goroutines
\* interleave, no array is held by two of them, or held and pooled at once.
NoSharedArray ==
  \A s, t \in Slots : s # t => ArrayAt(s) # ArrayAt(t)

\* b.Buf holds what the calls made on the Buffer put there: append's
\* growth, Expand, and ReadFrom's doubling copy keep every byte written,
\* and ReadFrom appends exactly the bytes it took from the reader.
BufferHoldsWrites == SubSeq(barr, 1, blen) = want

\* A read-helper call returns what the reader yields: when the reader held
\* the call's bytes and did not fail, ReadUint8 .. ReadBigEndianUint64
\* return nil and the big-endian value of the next 1, 2, 4 or 8 bytes,
\* ReadToBytes returns nil with those bytes in buf, and the call has taken
\* exactly them from the reader, so the next call starts at the next value.
\* It is about the slice each wrapper cuts from the pooled [8]byte, the
\* Read loop of io.ReadFull, and the reader the helpers are given.
ReadsDecode ==
  \A c \in Callers :
    LET r == rhlast[c]
        d == r.start \div UnitOf(c)
        next == SubSeq(Stream, d + 1, d + r.tw)
    IN (/\ r.kind # "none"
        /\ r.err # "fail"
        /\ r.start % UnitOf(c) = 0
        /\ d + r.tw <= Len(Stream))
       => /\ r.err = "nil"
          /\ r.val = IF r.kind = "bytes" THEN next ELSE BigEndian(next)
          /\ r.end = r.start + UnitOf(c) * r.tw

====
