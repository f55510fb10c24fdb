---------------------------- MODULE BatchWriter ----------------------------
(***************************************************************************)
(* BatchWriter of src/writer/batchwriter/batchwriter.go.                   *)
(*                                                                         *)
(* Many goroutines call Write: after three early returns (latched error,   *)
(* closed flag, pending limit) it bumps the pending counter and sends a    *)
(* pooled copy of the payload on the bounded channel `inflights`.  One     *)
(* consumer goroutine drains the channel and writes batches to the sink:   *)
(* DoWrite (FlushWriteMode) coalesces into ctx.buffer and flushes when the *)
(* flush channel (timer or always-ready channel) fires; DoWritev           *)
(* (BatchWriteMode) collects up to cap(inflights) more buffers and writes  *)
(* them with one (vectored) write.  Close flips `closed` with a CAS and    *)
(* sends a nil sentinel.  On a nil or a sink error the consumer latches    *)
(* the error, sets `closed` and drains what is left in the channel.        *)
(*                                                                         *)
(* A payload is the pair <<producer, index>>; its bytes are abstracted.    *)
(* A rejected Write changes no state and is not a step of the model.       *)
(***************************************************************************)
EXTENDS Naturals, Sequences, SequencesExt, FiniteSets

CONSTANTS
  Producers,     \* goroutines calling Write
  Writes,        \* payloads each producer writes (bounds the model)
  MaxInflights,  \* o.maxinflights: cap(inflights) and the pending limit
  Modes,         \* o.mode the writer may be built with: "flush" (FlushWriteMode,
                 \* DoWrite) and/or "writev" (BatchWriteMode, DoWritev)
  BlockWrite,    \* o.blockwrite
  FlushDelay,    \* o.maxFlushDelay > 0 (timer) rather than 0 (always-ready channel)
  SinkMayFail,   \* the sink's Write (or SetWriteDeadline) may return an error
  Nil            \* the nil *[]byte that Close sends

ASSUME
  /\ Producers # {}
  /\ Writes \in Nat \ {0}
  /\ MaxInflights \in Nat \ {0}
  /\ Modes # {} /\ Modes \subseteq {"flush", "writev"}
  /\ BlockWrite \in BOOLEAN
  /\ FlushDelay \in BOOLEAN
  /\ SinkMayFail \in BOOLEAN

Payloads == Producers \X (1..Writes)

ASSUME Nil \notin Payloads

VARIABLES
  inflights,        \* the channel bw.inflights
  closed,           \* bw.closed
  werr,             \* bw.werr: "none", "activelyClose" or "sink"
  pendingrequests,  \* *o.pendingrequests
  wpc,              \* [Producers -> where the Write in progress is]
  written,          \* [Producers -> payloads whose Write returned (n, nil)]
  closer,           \* where the (first) Close call is
  pc,               \* where the consumer goroutine is
  ctx,              \* ctx.buffer (DoWrite) or ctx.buffers (DoWritev)
  loopPending,      \* DoWrite's local pendingrequests
  flushCh,          \* DoWrite's flushCh: "nil", "timer" or "always"
  timerFired,       \* the flush timer has fired and its value is in flushTimer.C
  i,                \* DoWritev's inner loop index
  sink,             \* history: everything the sink has received
  enqueued          \* history: everything sent on inflights, in order

producerVars == <<wpc, written>>
loopVars == <<ctx, loopPending, flushCh, timerFired, i>>
vars == <<inflights, closed, werr, pendingrequests, closer, pc, sink,
          enqueued, producerVars, loopVars>>

\* The payloads of a sequence of channel values, without the sentinel.
Data(s) == SelectSeq(s, LAMBDA d : d # Nil)

\* What a failing sink call may have written: a strict prefix of the batch
\* (none of it when SetWriteDeadline fails).
FailedWrites(batch) == {SubSeq(batch, 1, k) : k \in 0..(Len(batch) - 1)}

Init ==
  /\ inflights = <<>>
  /\ closed = FALSE
  /\ werr = "none"
  /\ pendingrequests = 0
  /\ wpc = [p \in Producers |-> "idle"]
  /\ written = [p \in Producers |-> 0]
  /\ closer = "idle"
  /\ pc \in {IF m = "flush" THEN "fast" ELSE "recv" : m \in Modes}
  /\ ctx = <<>>
  /\ loopPending = 0
  /\ flushCh = "nil"
  /\ timerFired = FALSE
  /\ i = 0
  /\ sink = <<>>
  /\ enqueued = <<>>

-----------------------------------------------------------------------------
(* Producers: Write.                                                       *)

\* The early returns of Write: werr, IsClosed, and the pending limit when
\* the writer does not block.
WriteCheck(p) ==
  /\ wpc[p] = "idle"
  /\ written[p] < Writes
  /\ werr = "none"
  /\ ~closed
  /\ BlockWrite \/ pendingrequests < MaxInflights
  /\ wpc' = [wpc EXCEPT ![p] = "checked"]
  /\ UNCHANGED <<inflights, closed, werr, pendingrequests, closer, pc, sink,
                 enqueued, written, loopVars>>

WriteCount(p) ==
  /\ wpc[p] = "checked"
  /\ pendingrequests' = pendingrequests + 1
  /\ wpc' = [wpc EXCEPT ![p] = "sending"]
  /\ UNCHANGED <<inflights, closed, werr, closer, pc, sink, enqueued,
                 written, loopVars>>

\* The copy into a pooled buffer and the (blocking) channel send.
WriteSend(p) ==
  LET d == <<p, written[p] + 1>> IN
  /\ wpc[p] = "sending"
  /\ Len(inflights) < MaxInflights
  /\ inflights' = Append(inflights, d)
  /\ enqueued' = Append(enqueued, d)
  /\ written' = [written EXCEPT ![p] = @ + 1]
  /\ wpc' = [wpc EXCEPT ![p] = "idle"]
  /\ UNCHANGED <<closed, werr, pendingrequests, closer, pc, sink, loopVars>>

-----------------------------------------------------------------------------
(* Close.  A Close whose CAS fails returns ErrBatchWriterClosed and        *)
(* changes nothing.                                                        *)

CloseCAS ==
  /\ closer = "idle"
  /\ ~closed
  /\ closed' = TRUE
  /\ closer' = "sending"
  /\ UNCHANGED <<inflights, werr, pendingrequests, pc, sink, enqueued,
                 producerVars, loopVars>>

CloseSend ==
  /\ closer = "sending"
  /\ Len(inflights) < MaxInflights
  /\ inflights' = Append(inflights, Nil)
  /\ enqueued' = Append(enqueued, Nil)
  /\ closer' = "done"
  /\ UNCHANGED <<closed, werr, pendingrequests, pc, sink, producerVars,
                 loopVars>>

-----------------------------------------------------------------------------
(* The consumer's exit path, shared by DoWrite and DoWritev: release the   *)
(* timer and the context (the batch in ctx is dropped), latch the error,   *)
(* set closed, then drain the channel one receive at a time.               *)

Break(err) ==
  /\ werr' = err
  /\ closed' = TRUE
  /\ ctx' = <<>>
  /\ flushCh' = "nil"
  /\ timerFired' = FALSE
  /\ pc' = "drain"
  /\ UNCHANGED <<loopPending, i>>

DrainOne ==
  /\ pc = "drain"
  /\ inflights # <<>>
  /\ inflights' = Tail(inflights)
  /\ UNCHANGED <<closed, werr, pendingrequests, closer, pc, sink, enqueued,
                 producerVars, loopVars>>

DrainDone ==
  /\ pc = "drain"
  /\ inflights = <<>>
  /\ pc' = "exited"
  /\ UNCHANGED <<inflights, closed, werr, pendingrequests, closer, sink,
                 enqueued, producerVars, loopVars>>

-----------------------------------------------------------------------------
(* DoWrite (FlushWriteMode).  "fast" is the non-blocking receive at the    *)
(* top of the loop, "slow" the blocking select on flushCh and inflights.   *)

FlushReady == flushCh = "always" \/ (flushCh = "timer" /\ timerFired)

\* The first buffer of a cycle arms flushCh: the flush timer, reset (which
\* drains a stale fire), or the closed flushAlwaysCh.
\* Mutant: the first buffer of a cycle does not arm flushCh.
ArmFlushNever ==
  UNCHANGED <<flushCh, timerFired>>

ArmFlush ==
  IF flushCh = "nil"
  THEN /\ flushCh' = IF FlushDelay THEN "timer" ELSE "always"
       /\ timerFired' = FALSE
  ELSE UNCHANGED <<flushCh, timerFired>>

\* Handling one received value: nil ends the loop without flushing ctx.
\* Mutant: the local pendingrequests is not incremented.
CollectUncounted(d) ==
  \/ /\ d = Nil
     /\ Break("activelyClose")
  \/ /\ d # Nil
     /\ ctx' = Append(ctx, d)
     /\ ArmFlush
     /\ pc' = "fast"
     /\ UNCHANGED <<closed, werr, i, loopPending>>

Collect(d) ==
  \/ /\ d = Nil
     /\ Break("activelyClose")
  \/ /\ d # Nil
     /\ ctx' = Append(ctx, d)
     /\ loopPending' = loopPending + 1
     /\ ArmFlush
     /\ pc' = "fast"
     /\ UNCHANGED <<closed, werr, i>>

Recv ==
  /\ pc \in {"fast", "slow"}
  /\ inflights # <<>>
  /\ inflights' = Tail(inflights)
  /\ Collect(Head(inflights))
  /\ UNCHANGED <<pendingrequests, closer, sink, enqueued, producerVars>>

FastEmpty ==
  /\ pc = "fast"
  /\ inflights = <<>>
  /\ pc' = "slow"
  /\ UNCHANGED <<inflights, closed, werr, pendingrequests, closer, sink,
                 enqueued, producerVars, loopVars>>

TimerFires ==
  /\ flushCh = "timer"
  /\ ~timerFired
  /\ timerFired' = TRUE
  /\ UNCHANGED <<inflights, closed, werr, pendingrequests, closer, pc, sink,
                 enqueued, producerVars, ctx, loopPending, flushCh, i>>

\* flushCh fired and the sink accepted ctx.buffer.
FlushOk ==
  /\ pc = "slow"
  /\ FlushReady
  /\ sink' = sink \o ctx
  /\ ctx' = <<>>
  /\ pendingrequests' = pendingrequests - loopPending
  /\ loopPending' = 0
  /\ flushCh' = "nil"
  /\ timerFired' = FALSE
  /\ pc' = "fast"
  /\ UNCHANGED <<inflights, closed, werr, closer, enqueued, producerVars, i>>

\* flushCh fired and SetWriteDeadline or the sink's Write failed.
FlushFail ==
  /\ pc = "slow"
  /\ FlushReady
  /\ SinkMayFail
  /\ \E w \in FailedWrites(ctx) : sink' = sink \o w
  /\ Break("sink")
  /\ UNCHANGED <<inflights, pendingrequests, closer, enqueued, producerVars>>

-----------------------------------------------------------------------------
(* DoWritev (BatchWriteMode).  "recv" is the blocking receive of the first *)
(* buffer, "collect" the loop of MaxInflights non-blocking receives,       *)
(* "write" the (vectored) write of the batch.                              *)

\* Mutant: a nil first buffer is skipped instead of ending the loop.
RecvFirstSkipsNil ==
  /\ pc = "recv"
  /\ inflights # <<>>
  /\ inflights' = Tail(inflights)
  /\ \/ /\ Head(inflights) = Nil
        /\ UNCHANGED <<closed, werr, ctx, loopPending, flushCh, timerFired,
                       i, pc>>
     \/ /\ Head(inflights) # Nil
        /\ ctx' = <<Head(inflights)>>
        /\ i' = 0
        /\ pc' = "collect"
        /\ UNCHANGED <<closed, werr, loopPending, flushCh, timerFired>>
  /\ UNCHANGED <<pendingrequests, closer, sink, enqueued, producerVars>>

RecvFirst ==
  /\ pc = "recv"
  /\ inflights # <<>>
  /\ inflights' = Tail(inflights)
  /\ \/ /\ Head(inflights) = Nil
        /\ Break("activelyClose")
     \/ /\ Head(inflights) # Nil
        /\ ctx' = <<Head(inflights)>>
        /\ i' = 0
        /\ pc' = "collect"
        /\ UNCHANGED <<closed, werr, loopPending, flushCh, timerFired>>
  /\ UNCHANGED <<pendingrequests, closer, sink, enqueued, producerVars>>

\* One iteration of the inner for loop; its last one moves on to the write.
\* Mutant: the inner loop runs once too often (i <= ilen).
NextIterationOffByOne ==
  /\ i' = i + 1
  /\ pc' = IF i + 1 = MaxInflights + 1 THEN "write" ELSE "collect"

NextIteration ==
  /\ i' = i + 1
  /\ pc' = IF i + 1 = MaxInflights THEN "write" ELSE "collect"

CollectMore ==
  /\ pc = "collect"
  /\ \/ /\ inflights # <<>>
        /\ Head(inflights) = Nil
        /\ inflights' = Tail(inflights)
        /\ Break("activelyClose")
     \/ /\ inflights # <<>>
        /\ Head(inflights) # Nil
        /\ inflights' = Tail(inflights)
        /\ ctx' = Append(ctx, Head(inflights))
        /\ NextIteration
        /\ UNCHANGED <<closed, werr, loopPending, flushCh, timerFired>>
     \/ /\ inflights = <<>>
        /\ NextIteration
        /\ UNCHANGED <<inflights, closed, werr, ctx, loopPending, flushCh,
                       timerFired>>
  /\ UNCHANGED <<pendingrequests, closer, sink, enqueued, producerVars>>

WritevOk ==
  /\ pc = "write"
  /\ sink' = sink \o ctx
  /\ pendingrequests' = pendingrequests - Len(ctx)
  /\ ctx' = <<>>
  /\ pc' = "recv"
  /\ UNCHANGED <<inflights, closed, werr, closer, enqueued, producerVars,
                 loopPending, flushCh, timerFired, i>>

\* Mutant: the error of a partial write is ignored and the loop goes on.
WritevFailIgnored ==
  /\ pc = "write"
  /\ SinkMayFail
  /\ \E w \in FailedWrites(ctx) : sink' = sink \o w
  /\ pendingrequests' = pendingrequests - Len(ctx)
  /\ ctx' = <<>>
  /\ pc' = "recv"
  /\ UNCHANGED <<inflights, closed, werr, closer, enqueued, producerVars,
                 loopPending, flushCh, timerFired, i>>

WritevFail ==
  /\ pc = "write"
  /\ SinkMayFail
  /\ \E w \in FailedWrites(ctx) : sink' = sink \o w
  /\ Break("sink")
  /\ UNCHANGED <<inflights, pendingrequests, closer, enqueued, producerVars>>

-----------------------------------------------------------------------------

Consumer ==
  \/ Recv \/ FastEmpty \/ FlushOk \/ FlushFail
  \/ RecvFirst \/ CollectMore \/ WritevOk \/ WritevFail
  \/ DrainOne \/ DrainDone

Next ==
  \/ \E p \in Producers : WriteCheck(p) \/ WriteCount(p) \/ WriteSend(p)
  \/ CloseCAS \/ CloseSend
  \/ Consumer
  \/ TimerFires

(* The consumer is a dedicated goroutine and the timer fires after         *)
(* maxFlushDelay: both are weakly fair.  A goroutine inside Write or Close *)
(* runs on; a blocked channel send is served when room appears (the Go     *)
(* runtime queues blocked senders), so sends are strongly fair.  Nobody    *)
(* has to call Write or Close.                                             *)
Fairness ==
  /\ WF_vars(Consumer)
  /\ WF_vars(TimerFires)
  /\ \A p \in Producers : WF_vars(WriteCount(p)) /\ SF_vars(WriteSend(p))
  /\ SF_vars(CloseSend)

Spec == Init /\ [][Next]_vars /\ Fairness

-----------------------------------------------------------------------------
(* Properties.                                                             *)

\* Running: the consumer has not left its loop.
Running == pc \notin {"drain", "exited"}

TypeOK ==
  /\ inflights \in Seq(Payloads \cup {Nil})
  /\ Len(inflights) <= MaxInflights
  /\ closed \in BOOLEAN
  /\ werr \in {"none", "activelyClose", "sink"}
  /\ pendingrequests \in 0..Cardinality(Payloads)
  /\ wpc \in [Producers -> {"idle", "checked", "sending"}]
  /\ written \in [Producers -> 0..Writes]
  /\ closer \in {"idle", "sending", "done"}
  /\ pc \in {"fast", "slow", "recv", "collect", "write", "drain", "exited"}
  /\ ctx \in Seq(Payloads)
  /\ loopPending \in 0..Cardinality(Payloads)
  /\ flushCh \in {"nil", "timer", "always"}
  /\ timerFired \in BOOLEAN
  /\ i \in 0..MaxInflights

\* FIFO: whatever batches the consumer forms, and however a sink write
\* fails part-way, the sink has received a prefix of the payloads in the
\* order their sends on inflights completed: none reordered, none twice,
\* none skipped.  (Write, DoWrite's flush, DoWritev's batch write.)
SinkIsPrefix == IsPrefix(sink, Data(enqueued))

\* While the consumer runs, the shared pending counter equals the payloads
\* counted by Write and not yet written: the producers between the counter
\* bump and the send, the payloads in the channel, and the batch in ctx
\* (DoWrite also counts that batch in its local pendingrequests).  This is
\* what the non-blocking pending limit of Write relies on.
PendingAccounting ==
  Running =>
    /\ pendingrequests = Cardinality({p \in Producers : wpc[p] = "sending"})
                           + Len(Data(inflights)) + Len(ctx)
    /\ pc \in {"fast", "slow"} => loopPending = Len(ctx)

\* The writer implements the abstract FIFO sink: accepted payloads are the
\* batch in ctx followed by the payloads in the channel; the writer is open
\* while the consumer runs.
Abs == INSTANCE FifoSink WITH
         accepted <- IF Running THEN ctx \o Data(inflights) ELSE Data(inflights),
         open <- Running

FifoSinkSpec == Abs!Spec

\* Once a Close has won the CAS, the consumer goroutine eventually leaves
\* its loop and finishes draining (Close's nil sentinel reaches it in FIFO
\* order, or a sink error stops it first).
ConsumerExitsAfterClose == (closer # "idle") ~> (pc = "exited")

\* The index of Close's sentinel in the history of sends, 0 if none.
SentinelAt == IF \E k \in 1..Len(enqueued) : enqueued[k] = Nil
              THEN CHOOSE k \in 1..Len(enqueued) : enqueued[k] = Nil
              ELSE 0

\* spec.md 8 "Close drains pending data": when the consumer stopped because
\* it received Close's sentinel, every payload sent before the sentinel has
\* reached the sink.  (DoWrite's and DoWritev's handling of nil.)
CloseFlushesAccepted ==
  (~Running /\ werr = "activelyClose")
    => sink = Data(SubSeq(enqueued, 1, SentinelAt - 1))

\* spec.md 4.1 and 8 "Backpressure correctness": without blockwrite, no
\* more than maxinflights payloads are ever pending (Write's check of
\* pendingrequests against maxinflights).
BackpressureBound == ~BlockWrite => pendingrequests <= MaxInflights

\* spec.md 4.2 and 8: once the consumer has exited and no Write is in
\* progress, the pending metric is zero, "forced to zero" after a sink
\* failure (the exit path of DoWrite and DoWritev).
PendingZeroAtRest ==
  (pc = "exited" /\ \A p \in Producers : wpc[p] = "idle")
    => pendingrequests = 0

\* spec.md 4.1 and 4.3: every Write that got past its checks and every
\* Close that won the CAS returns: their sends on inflights complete (an
\* enqueue "blocks until space is available or the writer closes").
\* (Write line 227, Close line 196.)
CallsReturn ==
  /\ \A p \in Producers : (wpc[p] # "idle") ~> (wpc[p] = "idle")
  /\ (closer = "sending") ~> (closer = "done")

=============================================================================
