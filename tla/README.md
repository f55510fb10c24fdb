# TLA+ models of sofa-common-go

This directory holds TLA+ specifications of the concurrent parts of
sofa-common-go, the TLC configurations that check them, and `PROJECT.json`.
`PROJECT.json` maps every definition to the Go lines it models and lists the
runs, mutants, findings and hazards. The modules are plain TLA+ with no
PlusCal. They use only the standard modules and the community modules
(`SequencesExt`, ...).

## 1. The system

sofa-common-go is a toolbox around logging and I/O. Its hard part is the
**batching, asynchronous write engine** (spec.md §1). Many goroutines emit
byte payloads, and one consumer writes them to a serial sink in batches.

| Part | Source | State | Operations | Interacts with |
|---|---|---|---|---|
| Batch writer | `src/writer/batchwriter/batchwriter.go`, `buffer.go`, `syncpool.go` | bounded channel `inflights`; `closed` (atomic, CAS); latched `werr`; metrics `pendingrequests`, `numrequests`, `numwrite`; the consumer's context (`ctx.buffer` or `ctx.buffers`), flush channel and timer | `Write`, `Close`, consumer loops `DoWrite` (FlushWriteMode) and `DoWritev` (BatchWriteMode), `ManualWriteMode` (no consumer) | the sink (`io.Writer`, maybe a `net.Conn`); optionally a worker pool that runs `DoWritev` |
| Async writer | `src/writer/asyncwriter/*.go` | the same channel, flag, error and metrics, plus a closable sink | `Write`, `Close` (which also closes the sink), consumer `DoWrite` with a flushing close path and a reset of the pending metric | a sink writer, and a `context` type that is not under `src/` |
| Worker pool | `src/syncpool/fast-workerpool/workerpool.go` | a stack of ready workers, a worker count, `mustStop`, `stopCh`, and per-worker channels | `Serve`, `getWorker`, the worker loop, `release`, `clean`, `Stop` | runs `BatchWrite` for the batch writer |
| Time rolling writer | `src/writer/rollingwriter/timerollingwriter.go`, `rotatewriter.go` | open file, `lasttime`, a mutex | `Write` (which calls `tryRotate`), `Rotate` (`Close` then `openNew`: rename, chown, open), `Close` | the file system and the clock |
| Logger | `src/logger/*.go` | zap logger with an atomic level; per-level counters in a hook; a registry of named loggers | log calls, the level HTTP handler, `AllocateLogger` | the writers above as sinks, built by `sofawriter.NewFromDSN` |
| Helpers | `src/helper/*`, `src/syncpool/{bytespool,bufferpool,fastbuffer}` | pools, byte buffers, the key-striped mutex, FNV hash | sequential utilities | everyone |

The **hard behaviours** are these:

- `Write` interleaves with other `Write`s, with `Close`, and with the consumer's exit.
- The consumer loop's non-blocking and blocking selects race the flush timer.
- A sink write can fail part-way (`// TODO: check partial writev`).
- The exit path latches the error and closes the writer, then drains the channel with nobody left to receive.
- Close sends its sentinel through the same bounded channel.

**What makes each part correct:**

| Part | What must hold |
|---|---|
| Batch and async writer | The sink receives payloads in acceptance order, each once, and never one that was not accepted. After a sink error nothing more is written. The pending metric counts exactly the accepted, unwritten payloads. Close delivers everything accepted before it. Every Write and Close returns. The consumer exits after Close. |
| Worker pool | A served function runs exactly once. The worker count never exceeds the maximum. Stop ends every worker. |
| Rolling writer | Writes go to the file of their period. A rename never overwrites an earlier rotation. A failed rotation is not silent. |

## 2. Modules

| Module | Models |
|---|---|
| `FifoSink` | The abstract promise of a batching writer. Writes are accepted into a queue; while the writer is open, a prefix of that queue is delivered to the sink; one stop step may deliver a further prefix and lose the rest; after it nothing reaches the sink. |
| `BatchWriter` | `Write`, `Close`, `DoWrite`, `DoWritev` and the exit drain of `batchwriter.go`; refines `FifoSink`. |
| `AsyncWriter` | `Write`, `Close` (with the sink's own `Close`), `DoWrite` with its flush on nil, the exit drain and the reset of the pending metric, of `asyncwriter.go`; refines `FifoSink`. |
| `WorkerPool` | `Serve`/`getWorker`, the worker loop `do` with `release`, the idle cleanup `start`, and `Stop` of `fast-workerpool/workerpool.go`. |
| `TimeRollingWriter` | `NewTimeRollingWriter`, `Write`/`tryRotate`, `Close` of `timerollingwriter.go` over `FileRotateWriter`'s `Write`, `Close`, `Rotate` and `openNew` (`rotatewriter.go`). |
| `SofaWriter` | `NewFromDSN`, `NewFromDSNList`, `newWriter` and `Writer.Close` of `sofawriter.go`: which sub-writers a stack builds, which of them hold a goroutine or a socket, and what `Close` releases. |
| `LoggerRegistry` | The logger registry (`registry.go`: `AllocateLogger`, `ServeHTTP`/`DoPOST`, `GetLogger`), the loggers (`logger.go`: `New`, `SetLevel`, the log methods as zap's Check, ioCore write and hook; `GeminiLogger`'s routing), the level counters' `hook` (`metrics.go`), `rsyslogwriter.New`'s PRI with `dsn.ParseFacility`/`ParseSeverity`, and `testwriter`'s map of traced writers (`New`, `Del`, `DelAll`). It composes `SofaWriter`'s `newWriter` outcomes through `INSTANCE`. |
| `BufferPools` | `fastbuffer.FastBuffer` (`Allocate`, `allocAtLeast`, `Release`, `BatchRelease`, `Reset`) shared by goroutines, `bufferpool.Buffer` (`Write`, `WriteString`, `WriteByte`, `Set`, `SetString`, `Reset`, `Expand`, `ReadFrom`) with Go's `append` growth, and the read helpers (`ReadUint8`, `ReadBigEndianUint16/32/64`, `ReadToBytes` over `u64Pool`) reading from the reader `easyreader.EasyRead` returns, a `HexReader` or the bytes themselves. |
| `MCBatchWriter`, `MCAsyncWriter`, `MCWorkerPool`, `MCTimeRollingWriter`, `MCSofaWriter`, `MCLoggerRegistry`, `MCBufferPools` | Instantiate the modules for TLC. Producers, jobs, workers and writer goroutines are model values. |

### BatchWriter: state and actions against the code

Variables:

| Variable | Code |
|---|---|
| `inflights` | the channel `bw.inflights`, as a sequence of payloads or `Nil` |
| `closed` | `bw.closed` |
| `werr` | `bw.werr`: `"none"`, `"activelyClose"` or `"sink"` |
| `pendingrequests` | `*bw.o.pendingrequests` |
| `wpc[p]`, `written[p]` | where producer `p` is inside `Write`, and how many payloads its `Write`s have accepted |
| `closer` | where the closing goroutine is inside `Close` |
| `pc` | the consumer's place: `fast` / `slow` (the two selects of `DoWrite`), `recv` / `collect` / `write` (the three steps of `DoWritev`), `drain`, `exited` |
| `ctx` | `ctx.buffer` or `ctx.buffers`, as the sequence of payloads they hold |
| `loopPending` | `DoWrite`'s local `pendingrequests` |
| `flushCh` | `DoWrite`'s `flushCh`: `nil`, the timer's channel, or the closed `flushAlwaysCh` |
| `timerFired` | the timer's channel holds a tick |
| `i` | `DoWritev`'s inner loop index |
| `sink`, `enqueued` | history variables: what the sink received, and what was sent on the channel |

Each action is one atomic step of one goroutine:

| Code | Action |
|---|---|
| `Write` lines 203-219 | `WriteCheck` |
| line 221-222 | `WriteCount` |
| line 227 | `WriteSend` |
| `Close`: CAS | `CloseCAS` |
| `Close`: send of nil | `CloseSend` |
| `DoWrite`: non-blocking receive | `Recv` from `fast` |
| `DoWrite`: falling into the slow select | `FastEmpty` |
| `DoWrite`: blocking receive | `Recv` from `slow` |
| `DoWrite`: the nil check, append and timer arming (lines 292-308) | `Collect` and `ArmFlush` |
| `DoWrite`: the flush branch | `FlushOk` or `FlushFail` |
| `DoWritev`: the blocking receive | `RecvFirst` |
| `DoWritev`: the inner loop | `CollectMore` and `NextIteration` |
| `DoWritev`: the deadline and (vectored) write | `WritevOk` or `WritevFail` |
| Both loops: error latch, `closed` store and context release | `Break` |
| Both loops: the drain loop | `DrainOne` and `DrainDone` |
| The runtime timer | `TimerFires` |

Choices of abstraction:

- A payload is `<<producer, index>>`. Bytes, lengths and `numwrite` are left out, and so is a sink write as a count of bytes. A partial write is a proper prefix of the batch, from `FailedWrites`. That includes the empty prefix of a failed `SetWriteDeadline`.
- A rejected `Write` (latched error, closed, too many pending) changes no state and is not a step. The check itself is `WriteCheck`, so the race between check and count is kept.
- The empty-payload early return and `numrequests` (written, never read) are left out.
- `Break` merges the `werr.Store` and the `closed` store into one step. The only effect this hides is which error a racing `Write` returns; it is listed as a hazard.
- In `DoWrite` a flush of an empty `ctx.buffer` cannot happen: `flushCh` is armed only after an append and reset to nil after each flush.
- `ManualWriteMode` has no consumer; with no consumer, `Write` simply blocks once the channel is full. Dispatch through a worker pool is left for the `BatchWriterPool` module (see the plan).

- The constant `Modes` is the set of loops the writer may be built with; `Init` picks one (`pc` starts in `fast` for `DoWrite`, in `recv` for `DoWritev`), so one run covers both loops.

### AsyncWriter

The same producer/consumer shape as `BatchWriter`'s `DoWrite`, with the same variables, plus these:

| Variable | Code |
|---|---|
| `opt` | the option and sink `New` was given: `blockwrite`, `flushInterval > 0`, whether the sink's `Write` may fail, whether the sink is an `io.WriteCloser`; chosen in `Init`, never changed |
| `sinkOpen` | the sink has not been closed by `Close` |
| `seen` | the value `GetPendingCommands()` returned at line 224, before the add |

| Code | Action |
|---|---|
| `Write` lines 111-128 (the `werr`, `IsClosed` and `len(buffers) == cap(buffers)` early returns) | `WriteCheck` |
| lines 130-131 (`AddCommands`, `AddPendingCommands(1)`) | `WriteCount` |
| lines 133-138 (copy to a pooled buffer, send) | `WriteSend` |
| `Close`: CAS, send of nil, `cw.Close()` | `CloseCAS`, `CloseSend`, `CloseSink` |
| `DoWrite`: non-blocking / blocking receive | `Recv`, `FastEmpty` |
| the nil branch (flush `ctx`, error ignored, uncount, break) and the append branch | `Collect` |
| the flush branch (`ctx.Flush`, decrement by the local count whatever the outcome) | `Flush` |
| exit: `werr.Store`, `closed`, timer and `ctx` released | `Exit` |
| drain loop; `AddPendingCommands(-GetPendingCommands())` as a load and an add | `DrainOne`, `DrainDone`, `ResetLoad`, `ResetAdd` |

`ctx.Flush` belongs to a `context` type that is not under `src/`; `FlushOutcomes` models it from spec.md §4.2 (write the buffer, truncate it; a failing sink writes a proper prefix; a closed sink writes nothing) and is marked spec-modelled.

### WorkerPool

| Variable | Code |
|---|---|
| `workers`, `workersCount`, `mustStop` | `wp.workers` (a stack, top = last), `wp.workersCount`, `wp.mustStop` |
| `stopCh` | the field `wp.stopCh`: `open`, `closed`, or `nil` after `Stop`'s assignment |
| `ch[w]`, `wst[w]`, `job[w]` | worker `w`'s channel (capacity `workerChanCap` = 1), where its goroutine is, the job it runs |
| `caller[j]`, `target[j]` | where the `Serve(j)` call is, and the worker it got |
| `startPc`, `idleWorkers` | where the `start` goroutine is, and the expired workers it took off the stack |
| `stopper` | where `Stop` is |
| `ran[j]` | history: how often job `j` ran |

| Code | Action |
|---|---|
| `getWorker` (pop, create under the limit, or reject) | `GetWorker` |
| `Serve`'s send on `w.ch` | `ServeSend` |
| `do`: receive, run and `release` (or exit when `mustStop`); nil ends the goroutine and decrements the count | `WorkerRecv`, `Release`, `WorkerExit` |
| `start`: the select on `stopCh`, `clean`'s expired prefix, the nils it sends | `StartSelect`, `StartScan`, `StartNotify` |
| `Stop`: `close(wp.stopCh)`, `wp.stopCh = nil`, nil to every idle worker under the lock | `StopClose`, `StopClear`, `StopWorkers` |

Time is abstracted: which idle workers have expired is a nondeterministic prefix of the stack.

### TimeRollingWriter

| Variable | Code |
|---|---|
| `clock` | the period (of the time format) the wall clock is in |
| `lasttimeb`, `lasttime` | `timing.lasttimeb` and `timing.lasttime`, as periods |
| `wpc[w]`, `wnow[w]`, `wid[w]` | goroutine `w` has read `Now()` and waits for the lock; the period it read; its call number |
| `open` | `FileRotateWriter.file != nil` |
| `exists`, `disk` | the files on disk (`filename` and one per rotated period name) and the payloads in each |
| `acked` | history: payloads whose `Write` returned `(len(p), nil)` |

| Code | Action |
|---|---|
| line 106, `now := trw.c.Now()` before `trw.Lock()` | `Now` |
| lines 108-134 under the lock: `tryRotate`, `Rotate` = `Close` + `openNew` (Stat, rename over the rotated name, chown, open), the write | `Write` |
| `Close` (no lock) | `Close` |
| time passing | `Tick` |

Time is abstracted to the periods the time format tells apart, so `bytes.Equal(nowtimeb, lasttimeb)` is an equality of periods and `Name(filename, lasttime)` is a period. `Rotate` may stop before its rename (`Close`, `MkdirAll` or `Rename` failed) or after it (`chown` or `OpenFile` failed); `chown` is defined in a platform file that is not under `src/`, so it appears only as a call that may fail.

### LoggerRegistry

| Variable | Code |
|---|---|
| `reg` | `r.m`: the DSN each registered name was allocated with |
| `level` | each logger's `AtomicLevel`, shared by its `SofaLoggerStatus` and its zap core; `StdoutLogger` starts at Debug |
| `writers` | the writers `NewFromDSN` built: DSN, owner name, whether it holds a goroutine or socket, its rsyslog PRI |
| `cpc`, `clog`, `clvl` | where each logging goroutine is (`writing` after Check passed, `hooking` after the ioCore wrote), on which logger, at which level |
| `counter` | the package's `<level>LoggerCounter` variables |
| `traced` | `testwriter`'s package `sync.Map`: the name of the logger whose traced test writer is stored under each path |

| Code | Action |
|---|---|
| `AllocateLogger` under `r.Lock` (duplicate check, `NewFromDSN`, the level from the DSN, the status) | `AllocateLogger` |
| `ServeHTTP` POST/PUT → `DoPOST` | `DoPOST` |
| `SofaLogger.SetLevel` | `SetLevel` |
| a log method (or a `GeminiLogger` call routed to `infol` or `errl`): zap's `Check` | `Check` |
| the ioCore's write of the entry | `WriteEntry` |
| the hooked core's `hook` | `Hook` |
| `testwriter.Del`, `DelAll` | `Del`, `DelAll` |

`ParseLevel` is called in `registry.go` but not defined anywhere in the repository; the model takes its behaviour from `TestParseLevel` (`helper_test.go`): the level names, case-insensitive, and Info for anything else. Query strings are taken as already upper-cased. `testwriter.New`'s `ParseBool` calls are taken to succeed, so a test DSN fails only on a duplicate path. `Fatal` calls `os.Exit` and is not logged.

### BufferPools

A slice is its backing array, `len` and `cap`; every slice these types make starts at offset 0. A `FastBuffer` array is an identity (a number). The `Buffer`'s array is its contents, `cap` bytes, so the bytes `append`, `make` and `copy` leave beyond `len` are visible. `append` follows the Go runtime (1.20 and later), which is not in this repository: it writes in place when the new length fits the capacity. Otherwise `growslice` doubles a capacity below 256 (or takes the new length when that is larger), grows a larger one by `(c + 768) / 4` per turn, and rounds up to the allocator's size class (`GrowCap`, `RoundUpSize`). It then copies the old `len` bytes into a zeroed array. `s[:l]` with `l > cap(s)` panics.

The three programs (the `FastBuffer`, the `Buffer`, the read helpers) share no state. `Init` picks which one a behaviour runs (`prog`, from the constant `Programs`), and the model checks their sum, not their interleaving product. Every property is about one of them, so this checks the same.

| Variable | Code |
|---|---|
| `fbuf` | `fb.buffers`, a sequence of slices (top = last) |
| `held[c]`, `apc[c]`, `got[c]`, `asize[c]` | the slices goroutine `c` got from `Allocate`; whether it is between `Unlock` and the resize; the popped `d`; the `size` asked for |
| `narrays` | arrays `make` and `allocAtLeast` have made |
| `barr`, `blen`, `bpc` | `b.Buf`'s array and `len`; the Buffer's goroutine (`panicked` after `Expand` reaches past the capacity) |
| `rp`, `rn`, `rstart`, `rpos`, `rret`, `rerr` | `ReadFrom`'s `p`, `n`, `nStart`; the reader's position; the last count and error returned |
| `want`, `wantRet` | history: what `b.Buf` holds by the calls made, and the bytes the last `ReadFrom` took from the reader |
| `u64pool`, `u64mem`, `nu64` | `u64Pool`'s pooled `[8]byte` arrays (ids), the bytes of every array, and how many `New` has made |
| `call[c]`, `rhpos[c]`, `rhbuf[c]` | goroutine `c`'s read-helper call (which one, the slice length, the array, `n` so far, where it started); how far its reader has got; the `buf` it passes to `ReadToBytes` |
| `rhlast[c]`, `rhops` | what `c`'s last call returned (value or bytes, error, where it started and ended); calls made |

| Code | Action |
|---|---|
| `Allocate` up to `Unlock` (pop) | `AllocateLock` |
| `Allocate` after `Unlock`: `make`, `allocAtLeast` and `d[0:size]` | `AllocateResize` (`AllocAtLeast`) |
| `Release`, `BatchRelease`, `Reset` | `Release`, `BatchRelease`, `Reset` |
| `Buffer.Write`, `WriteString`, `WriteByte`, `Set`, `SetString`, `Reset`, `Expand` | the actions of the same names (`BufReset` for `Reset`) |
| `ReadFrom` up to its loop | `ReadFromStart` |
| one turn of `ReadFrom`'s loop: the doubling, `r.Read`, the return on an error | `ReadFromLoop` (`Filled`, `ReadFromReturn`) |

The reader returns bytes and nil, or EOF once it has none left, or an error after some bytes. A `Read` of 0 bytes with a nil error only repeats the turn and is left out. `WriteTo`, `Bytes`, `String` and `Len` change no state of the Buffer.

The read helpers:

| Code | Action |
|---|---|
| `ReadUint8`, `ReadBigEndianUint16/32/64` up to the read: `AcquireU64Bits` (`u64Pool.Get` or `New`) and the slice `(*p)[8-w:]` | `ReadInt` (`U64Offset`) |
| `ReadToBytes`: the `length == 0` return, `buf[:length]` (panics past `cap`) | `ReadToBytes` |
| one `reader.Read(p[n:])` of `ReadUint8WithBytes` or of `io.ReadFull`/`io.ReadAtLeast`'s loop; at the end the error rules of `ReadAtLeast`, `binary.BigEndian`, and `ReleaseU64Bits` | `RHRead` |
| `HexReader.Read`: `len(p)` digits from the underlying reader, `hex.Decode` | `ReaderRead` |
| `EasyRead`'s choice of reader | `EasyReadsHex` |

A reader unit is a byte, or for a `HexReader` a hex digit (its value 0..15). Each goroutine has its own reader over the same constant `Stream`; `u64Pool` is shared. `binary.BigEndian.Uint64` is kept as its high and low 32-bit words, because TLC's integers are 32-bit (`BigEndian`). The readers never return 0 bytes with a nil error: `io.Reader` asks them not to, and the repository passes none that do. `AllocToAtLeast` and `AllocAtLeast` are slice helpers nothing in the repository calls.

## 3. Runs

| Run | Module | Configuration | Checks | Result |
|---|---|---|---|---|
| `bw_loops` | `MCBatchWriter` | either loop, flush timer, non-blocking Write, sink failing part-way; 2 producers × 2 writes, cap 2 | `TypeOK`, `SinkIsPrefix`, `PendingAccounting`, `FifoSinkSpec` (refinement), `ConsumerExitsAfterClose` | pass (10,979 states) |
| `bw_write_hang` | `MCBatchWriter` | blocking Write, cap 1, 2 writes each, healthy sink | `CallsReturn` | violation |
| `aw_flush` | `MCAsyncWriter` | every combination of blockwrite, timer or `flushInterval` 0, failing sink, closable sink; 2 producers × 2 writes, batch 2 | `TypeOK`, `SinkIsPrefix`, `PendingAccounting`, `CloseFlushesToPlainSink`, `FifoSinkSpec`, `ConsumerExitsAfterClose` | pass (259,264 states, ~45 s) |
| `aw_close_loses` | `MCAsyncWriter` | closable healthy sink, 1 write each | `CloseFlushesAccepted` | violation |
| `wp_serve` | `MCWorkerPool` | 3 `Serve` calls, 3 worker identities, at most 2 workers, cleanup and one `Stop` | `TypeOK`, `WorkersAccounted`, `ServedJobRuns`, `StopEndsWorkers` | pass (61,197 states) |
| `wp_start_leak` | `MCWorkerPool` | the same | `StartReturnsAfterStop` | violation |
| `trw_rotate` | `MCTimeRollingWriter` | 1 writer goroutine, 4 periods, 5 writes, every `Rotate` call may fail, one `Close` | `TypeOK`, `WritesKept` | pass (6,397 states) |
| `trw_stale_now` | `MCTimeRollingWriter` | 2 writer goroutines, 3 periods, 4 writes, no failures | `WritesKept` | violation |
| `sw_leak` | `MCSofaWriter` | lists of 1 or 2 of four DSNs (async size file, syslog, test, bad rotation mode), then Close | `ReleasedWhenDone` | violation |
| `bp_pools` | `MCBufferPools` | two goroutines allocating 2- and 9-byte slices (at most two held each, four arrays) and releasing them; one goroutine making three `Buffer` calls of 1 or 3 bytes, `Expand(9, 9)` and `Expand(2, 4)`, and `ReadFrom` of a 66-byte reader in reads of 1 or 64; two goroutines making three read-helper calls (every width, `ReadToBytes` of 0, 3 and 9 into an 8-byte `buf`) over readers of 12 bytes in reads of 1 or 64 that may fail, sharing two pooled arrays | `TypeOK`, `NoSharedArray`, `BufferHoldsWrites`, `ReadsDecode` | pass (646,507 states, ~35 s) |
| `bp_hex` | `MCBufferPools` | one goroutine reading stdin through `EasyRead(NewOption(), "-")` (a `HexReader`) whose reads return every digit asked for; `ReadBigEndianUint16/32/64` and `ReadToBytes(4)` | `ReadsDecode` | violation |
| `lr_registry` | `MCLoggerRegistry` | 2 names, 2 logging goroutines, 4 DSNs (async size file at Error, rsyslog LOCAL7/DEBUG, traced test writer at Warn, bad rotation mode), POSTs of WARN and an unknown name, 3 log calls at Info, Warn, Error; symmetric in names and goroutines | `TypeOK`, `WritersOwned` | pass (367,074 states, ~20 s) |

What the properties say:

- **`SinkIsPrefix`** (both writers): the sink holds a prefix of the non-nil payloads in the order they were sent on the channel. So there is no reordering, no loss in the middle, no duplication and no invention, across partial writes, batches and the drain.
- **`PendingAccounting`**: while the consumer runs, the pending metric equals the producers between the increment and the send, plus the payloads in the channel, plus those in the context. The loop's local count equals the context length.
- **`FifoSinkSpec`**: the writer implements `FifoSink` under the mapping `accepted <- ctx \o Data(channel)` while running, and `open <- Running`. The abstract fairness makes this a liveness claim too: an accepted payload is eventually written while the writer is open.
- **`ConsumerExitsAfterClose`**: once `Close` has won its CAS, the consumer goroutine eventually returns.
- **`CloseFlushesToPlainSink`**: when the consumer stopped on `Close`'s nil, every payload sent before the nil reached the sink. This is checked for a sink that has no `Close` of its own and never fails.
- **`WorkersAccounted`**: `workersCount` is the number of live worker goroutines. The idle stack holds distinct workers, each waiting on an empty channel.
- **`ServedJobRuns`**: a job whose `Serve` returned true eventually runs, exactly once.
- **`StopEndsWorkers`**: after `Stop` every worker goroutine ends.
- **`WritersOwned`**: every writer `NewFromDSN` built is the one the registry holds for its name, so no `DoWrite` goroutine or socket is orphaned; and the traced test writer `testwriter.Get` finds for a path belongs to a registered logger allocated with that path.
- **`NoSharedArray`**: no backing array is held by two goroutines, or held and pooled at once, however `Allocate`, `Release`, `BatchRelease` and `Reset` interleave. `Allocate` pops and truncates `fb.buffers` inside one critical section.
- **`BufferHoldsWrites`**: `b.Buf` holds exactly what the calls made on the Buffer put there. `append`'s growth, `Expand` and `ReadFrom`'s doubling copy keep every byte, and `ReadFrom` appends exactly the bytes it took from the reader, for a nil Buffer (64 fresh bytes) as for one with room.
- **`ReadsDecode`**: when the reader held a call's bytes and did not fail, `ReadUint8` .. `ReadBigEndianUint64` return nil and the big-endian value of the next 1, 2, 4 or 8 bytes, `ReadToBytes` returns nil with them in `buf`, and the call took exactly those bytes from the reader. Goroutines share `u64Pool`'s arrays, which keep what the last call left in them; the property checks that each wrapper cuts the right slice of the array and that `io.ReadFull`'s loop fills all of it, whatever chunks the reader delivers.
- **`WritesKept`**: every payload whose `Write` returned `(len(p), nil)` is still in some file on disk. This holds across rotations, failed rotations and `Close`.

Each violation is a **finding** in `PROJECT.json`:

1. **`bw_write_hang`**: a `Write` that passed its checks before `Close` blocks forever on the channel once the consumer has exited and drained it (line 227). A `Close` after a sink error blocks the same way (line 196).
2. **`aw_close_loses`**: `Close` closes a closable sink right after sending nil (asyncwriter.go:105). `DoWrite`'s flush on nil then fails, and its error is ignored.
3. **`wp_start_leak`**: `Stop` sets `wp.stopCh = nil` right after closing it (workerpool.go:90). A `start` goroutine that reads the field afterwards selects on a nil channel and loops forever.
4. **`trw_stale_now`**: `Write` reads the clock before the lock (timerollingwriter.go:106). Rotations then run out of period order, and a rename replaces an earlier rotated file, destroying acknowledged writes.
5. **`sw_leak`**: `NewFromDSNList` returns a `newWriter` error without closing the writers built before it (sofawriter.go:95), so an `AsyncWriter`'s `DoWrite` goroutine outlives the failed call. `Writer.Close` of a multi-DSN stack closes nothing, because `io.MultiWriter` is not an `io.Closer` (line 56).

6. **`bp_hex`**: `HexReader.Read(p)` reads `len(p)` hex digits and decodes them into `len(p)/2` bytes (hexreader.go:22-28). `io.ReadFull` then asks for the rest, half as much each time, and always ends on a one-byte `Read`, which reads a single digit; `hex.Decode` returns `ErrLength`. So `ReadBigEndianUint16/32/64` and `ReadToBytes` fail on every `HexReader` even when the stream holds the bytes, and `ReadUint8` fails at its only `Read`. The odd digit is consumed, so later reads are out of step. `EasyRead` returns such a reader for `#file` and, with the zero `Option`, for `-`. The repository's own test reads a `HexReader` with `ioutil.ReadAll`, whose reads into the rest of a 512-byte buffer also halve down to one byte on Go 1.16 and later.

`BatchWriter` also states `CloseFlushesAccepted` (spec.md §4.3 and §8: Close flushes everything accepted), and TLC finds it violated with one payload and an eager flush in either loop. `DoWrite` receives `Close`'s nil before its flush channel is served and breaks without flushing `ctx.buffer` (batchwriter.go:292); `DoWritev` does the same inside its collect loop (line 358). The `break` can be read off the code, so its run was retired for `bp_hex`; it is listed as a hazard. `AsyncWriter`'s loss on Close, a race between two goroutines, keeps its run.

`ReadUint8WithBytes` ignores `Read`'s count (readhelper.go:57). A reader that returns 0 bytes with a nil error, which `io.Reader` discourages but allows, makes it return whatever byte the pooled array last held; one that returns its last byte with `EOF` makes it drop that byte. The model's readers do neither, so this is a hazard without a run.

`BatchWriter` and `AsyncWriter` also state `PendingZeroAtRest`, and TLC finds both violated. No exit path of `BatchWriter`'s loops touches `pendingrequests`, against spec.md §4.2. `AsyncWriter` resets its metric with a load and a separate add (asyncwriter.go:224), and a late `Write` counts itself in between, so the metric never returns to 0. Both can be read off the code, so no run is spent on them; they are listed as hazards.

`BatchWriter` states `BackpressureBound` (spec.md §8: without `blockwrite`, no more than `maxinflights` payloads are pending), and TLC finds it violated with two non-blocking producers and capacity 1. `Write` loads `pendingrequests` and adds to it in two separate atomic steps (batchwriter.go:216-221), so concurrent `Write`s all pass the limit. This can be read off the code, so its run was retired for `bp_pools`; it is listed as a hazard.

`Buffer.Expand(l, c)` panics on a Buffer whose length is below its capacity (bufferpool.go:74). It appends `c - cap` zero bytes, and that `append` stays in place whenever `len + c - cap` fits the old capacity, so `b.Buf[:l]` reaches past it. A Buffer of capacity 8 after `Reset` panics on `Expand(9, 9)`. The model's `Expand` has the panic as an outcome, and TLC reaches it in `bp_pools`. Nothing in the repository calls `Expand`; it is listed as a hazard.

`FastBuffer.Allocate` returns a recycled slice with the bytes its previous holder left in it, unlike `make`. spec.md §4.4 asks a pool never to leak prior content. `FastBuffer` is not the pool spec.md describes (the batch writer's `bpool` truncates on release), and the model does not track `FastBuffer`'s contents.

One more slip needs no model: `GetErrorLoggerCounter` returns `infoLoggerCounter` (metrics.go:43).

Every property of a passing run has a **mutant**. A mutant is an operator defined beside the definition it replaces, for example `CollectNoFinalFlush`, `ReleaseIgnoresMustStop` or `SetLastTimebOnly`, and it models a plausible slip in that code. TLC finds the property violated under the run's own configuration once the mutant is in place.

### Bounds

- **Writers.** Two producers are the least that shows producers interleaving. A capacity of 2 lets the channel hold a payload and the sentinel at once, and lets `DoWritev` collect a batch of more than one buffer. Two writes each give four payloads: enough for a batch, a partial write of it, and payloads left in the channel at exit.
- **Worker pool.** Three jobs against at most two workers make `getWorker` reject a call. The third worker identity lets a fresh goroutine take the place of one that exited.
- **Logger registry.** Two names let a second `AllocateLogger` hit a duplicate name and let two loggers share a test path after `Del`. Four DSNs give each writer kind: one holding a goroutine, one holding a socket with the largest PRI, a traced test writer, and one that always fails. Three log calls by two goroutines let one goroutine's write and hook straddle another's call.
- **Buffer pools.** Two goroutines and two slices each let one goroutine's `Allocate` run between another's pop and resize. Sizes 2 and 9 make a pooled 2-byte slice too small for a 9-byte `Allocate`, so `allocAtLeast` grows it. Three bytes written to a nil Buffer give it the 8-byte size class; after `Reset`, `Expand(9, 9)` panics. The 66-byte reader is more than the 64 bytes `ReadFrom` allocates for a nil Buffer, so its loop doubles `p` both from 64 and from a Buffer with room.
- **Rolling writer.** Four periods and five writes give two successful rotations after a failed one. Periods are what the time format tells apart, so more instants within a period add nothing.
- **Read helpers.** Two goroutines share two pooled arrays, so one reuses an array the other filled. Twelve bytes let three calls of up to 8 bytes both succeed and run out of stream part-way. Reads of 1 byte split every value across several `Read`s; reads of 64 deliver all that is asked. `ReadToBytes` of 9 into an 8-byte `buf` panics.
- **Violation runs** use the smallest bounds that show each trace.

`CHECK_DEADLOCK FALSE` is set because each program really stops. Once every call has returned and the consumer (or worker, or start goroutine) has exited, no goroutine has a step left.

### Fairness

- The consumer goroutines, workers, `start` and `Stop` are weakly fair. A runnable goroutine is eventually scheduled.
- The timer is weakly fair: an armed `time.Timer` fires.
- A goroutine between two atomics (for example `WriteCount`) keeps running.
- Blocked channel sends (`WriteSend`, `CloseSend`, `ServeSend`) are strongly fair. The runtime queues blocked senders in FIFO order, so a sender that is enabled infinitely often gets through.
- `TimeRollingWriter`, `LoggerRegistry` and `BufferPools` state only safety, so they need no fairness.

## 4. Plan

Done in this order: `BatchWriter` and `FifoSink`; `AsyncWriter`; `WorkerPool`; `TimeRollingWriter`; `SofaWriter` (construction and Close); `LoggerRegistry` (registry, logger levels and counters, rsyslog PRI, the test writer map); `BufferPools` (`FastBuffer`, `bufferpool.Buffer`, then the read helpers over `EasyRead`'s readers). Still to do:

1. **`SofaWriter`, further**: `Writer.Write` through `io.MultiWriter`, where a failing sub-writer stops the payload reaching the ones after it. The concurrent duplicate check of `testwriter.New` (a `Load`, then a later `Store`) by callers outside the registry lock.
2. **`BatchWriterPool`**: `BatchWriter` in BatchWriteMode composed with `WorkerPool`. When `Serve` returns false (ignored at batchwriter.go:145), the writer has no consumer.
3. **Run budget.** The project is at the 12-run limit. A new component needs a run, so a new one must replace a violation run whose problem can be read off the code.

## 5. Not modelled

- **Formatting and I/O.** DSN parsing (`SofaWriter` abstracts a DSN to the writer it builds), the rsyslog framing, the field constructors of `field.go` and `MarshalJSON`/`DoGet` are formatting with no concurrent state (out of scope per spec.md §1).
- **`bytespool`.** It only wraps `sync.Pool`'s `Get` and `Put` of `[]byte` (`Release` truncates first).
- **`readhelper.AllocToAtLeast` and `AllocAtLeast`.** Slice helpers that nothing in the repository calls; `FastBuffer`'s own `allocAtLeast` is modelled.
- **Size rolling writer.** `lumberjack` does the work, and its code is not in this repository.
- **FNV and `keymutex`.** FNV is 64-bit arithmetic, beyond TLC's integers.
- **The level counters and the rsyslog PRI are modelled but not checked.** `hook` adds to its counter with one `atomic.AddInt64`, so every entry that reaches it is counted exactly once; and zap runs the hooked core whether or not the ioCore's write failed, so the counter counts attempts, not successful writes. The model's ioCore write carries no bytes and no error, so a property relating counters to entries would hold by the shape of `WriteEntry` and `Hook`. The PRI is computed once from constants; `facility*8` stays within `uint8` (23*8 = 184).
- **A wall clock set back.** It makes `TimeRollingWriter` overwrite a rotated file the same way the stale `now` does; the model's clock only advances (see the hazards).
