---------------------------- MODULE AsyncWriter ----------------------------
(***************************************************************************)
(* AsyncWriter of src/writer/asyncwriter/asyncwriter.go.                   *)
(*                                                                         *)
(* The same producer/consumer shape as BatchWriter's FlushWriteMode, with  *)
(* four differences the model keeps:                                      *)
(*   - Write's backpressure check compares len(buffers) with cap(buffers); *)
(*   - the consumer writes through ctx.Flush, and decrements the pending   *)
(*     metric by its local count whether or not the flush failed;          *)
(*   - on Close's nil the consumer flushes ctx (ignoring the error) before *)
(*     it leaves the loop;                                                 *)
(*   - Close closes the sink right after sending nil, and the consumer     *)
(*     zeroes the pending metric (load, then add) after its drain.         *)
(* ctx.Flush belongs to a context type that is not under src/; it is       *)
(* modelled from spec.md 4.2: it writes ctx.buffer and truncates it.  A    *)
(* write to a closed sink fails and writes nothing.                        *)
(***************************************************************************)
EXTENDS Naturals, Sequences, SequencesExt, FiniteSets

CONSTANTS
  Producers,     \* goroutines calling Write
  Writes,        \* payloads each producer writes (bounds the model)
  Batch,         \* option.batch: cap(buffers)
  BlockWrite,    \* values of option.blockwrite (AllowBlockForever)
  FlushDelay,    \* values of option.flushInterval > 0 (timer) rather than 0
  SinkMayFail,   \* whether the sink's Write may return an error
  SinkClosable,  \* whether the sink is an io.WriteCloser
  Nil            \* the nil *[]byte that Close sends

ASSUME
  /\ Producers # {}
  /\ Writes \in Nat \ {0}
  /\ Batch \in Nat \ {0}
  /\ BlockWrite \subseteq BOOLEAN /\ BlockWrite # {}
  /\ FlushDelay \subseteq BOOLEAN /\ FlushDelay # {}
  /\ SinkMayFail \subseteq BOOLEAN /\ SinkMayFail # {}
  /\ SinkClosable \subseteq BOOLEAN /\ SinkClosable # {}

Payloads == Producers \X (1..Writes)
ASSUME Nil \notin Payloads

VARIABLES
  buffers,          \* the channel bw.buffers
  closed,           \* bw.closed
  werr,             \* bw.werr: "none", "closed" (ErrAsyncWriterClosed) or "sink"
  pendingCommands,  \* *metrics.pendingCommands
  wpc,              \* [Producers -> where the Write in progress is]
  written,          \* [Producers -> payloads whose Write returned (n, nil)]
  closer,           \* where the (first) Close call is
  sinkOpen,         \* the sink has not been closed by Close
  pc,               \* where the consumer goroutine is
  ctx,              \* ctx.buffer, as the payloads it holds
  pendingrequests,  \* DoWrite's local pendingrequests
  flushCh,          \* DoWrite's flushCh: "nil", "timer" or "always"
  timerFired,       \* the flush timer's value is in flushTimer.C
  seen,             \* the value GetPendingCommands returned at line 224
  sink,             \* history: everything the sink has received
  enqueued,         \* history: everything sent on buffers, in order
  opt               \* the options and sink NewAsyncWriter was given

producerVars == <<wpc, written>>
closeVars == <<closer, sinkOpen>>
loopVars == <<ctx, pendingrequests, flushCh, timerFired, seen>>
vars == <<opt, buffers, closed, werr, pendingCommands, sink, enqueued, pc,
          producerVars, closeVars, loopVars>>

Data(s) == SelectSeq(s, LAMBDA d : d # Nil)

\* The outcomes of ctx.Flush on a batch: <<what reached the sink, ok>>.
\* A closed sink rejects the write; an open one may fail part-way.
FlushOutcomes(batch) ==
  IF ~sinkOpen THEN {<<<<>>, FALSE>>}
  ELSE {<<batch, TRUE>>}
       \cup {<<SubSeq(batch, 1, k), FALSE>> :
               k \in IF opt.mayFail THEN 0..(Len(batch) - 1) ELSE {}}

Init ==
  /\ opt \in [blockwrite : BlockWrite, delay : FlushDelay,
              mayFail : SinkMayFail, closable : SinkClosable]
  /\ buffers = <<>>
  /\ closed = FALSE
  /\ werr = "none"
  /\ pendingCommands = 0
  /\ wpc = [p \in Producers |-> "idle"]
  /\ written = [p \in Producers |-> 0]
  /\ closer = "idle"
  /\ sinkOpen = TRUE
  /\ pc = "fast"
  /\ ctx = <<>>
  /\ pendingrequests = 0
  /\ flushCh = "nil"
  /\ timerFired = FALSE
  /\ seen = 0
  /\ sink = <<>>
  /\ enqueued = <<>>

-----------------------------------------------------------------------------
(* Write.                                                                  *)

\* The early returns: werr, IsClosed, and a full channel without blockwrite.
WriteCheck(p) ==
  /\ wpc[p] = "idle"
  /\ written[p] < Writes
  /\ werr = "none"
  /\ ~closed
  /\ opt.blockwrite \/ Len(buffers) < Batch
  /\ wpc' = [wpc EXCEPT ![p] = "checked"]
  /\ UNCHANGED <<opt, buffers, closed, werr, pendingCommands, sink, enqueued, pc,
                 written, closeVars, loopVars>>

\* AddCommands and AddPendingCommands(1).
WriteCount(p) ==
  /\ wpc[p] = "checked"
  /\ pendingCommands' = pendingCommands + 1
  /\ wpc' = [wpc EXCEPT ![p] = "sending"]
  /\ UNCHANGED <<opt, buffers, closed, werr, sink, enqueued, pc, written,
                 closeVars, loopVars>>

\* The copy into a pooled buffer and the (blocking) send on buffers.
WriteSend(p) ==
  LET d == <<p, written[p] + 1>> IN
  /\ wpc[p] = "sending"
  /\ Len(buffers) < Batch
  /\ buffers' = Append(buffers, d)
  /\ enqueued' = Append(enqueued, d)
  /\ written' = [written EXCEPT ![p] = @ + 1]
  /\ wpc' = [wpc EXCEPT ![p] = "idle"]
  /\ UNCHANGED <<opt, closed, werr, pendingCommands, sink, pc, closeVars,
                 loopVars>>

-----------------------------------------------------------------------------
(* Close: the CAS, the send of nil, and the sink's Close if it has one.    *)

CloseCAS ==
  /\ closer = "idle"
  /\ ~closed
  /\ closed' = TRUE
  /\ closer' = "sending"
  /\ UNCHANGED <<opt, buffers, werr, pendingCommands, sink, enqueued, pc,
                 sinkOpen, producerVars, loopVars>>

CloseSend ==
  /\ closer = "sending"
  /\ Len(buffers) < Batch
  /\ buffers' = Append(buffers, Nil)
  /\ enqueued' = Append(enqueued, Nil)
  /\ closer' = IF opt.closable THEN "closing" ELSE "done"
  /\ UNCHANGED <<opt, closed, werr, pendingCommands, sink, pc, sinkOpen,
                 producerVars, loopVars>>

CloseSink ==
  /\ closer = "closing"
  /\ sinkOpen' = FALSE
  /\ closer' = "done"
  /\ UNCHANGED <<opt, buffers, closed, werr, pendingCommands, sink, enqueued, pc,
                 producerVars, loopVars>>

-----------------------------------------------------------------------------
(* DoWrite.  "fast" is the non-blocking receive at the top of the loop,    *)
(* "slow" the blocking select on flushCh and buffers; "drain" the cleanup  *)
(* loop, "reset" and "resetAdd" the two halves of line 224.                *)

\* Leaving SENDLOOP: put the timer, release ctx, store werr, set closed.
Exit(err) ==
  /\ werr' = err
  /\ closed' = TRUE
  /\ ctx' = <<>>
  /\ flushCh' = "nil"
  /\ timerFired' = FALSE
  /\ pc' = "drain"

FlushReady == flushCh = "always" \/ (flushCh = "timer" /\ timerFired)

\* Mutant: the first buffer of a cycle does not arm flushCh.
ArmFlushNever ==
  UNCHANGED <<opt, flushCh, timerFired>>

ArmFlush ==
  IF flushCh = "nil"
  THEN /\ flushCh' = IF opt.delay THEN "timer" ELSE "always"
       /\ timerFired' = FALSE
  ELSE UNCHANGED <<opt, flushCh, timerFired>>

\* Mutant: nil is skipped instead of ending the loop.
CollectSkipsNil(d) ==
  \/ /\ d = Nil
     /\ pc' = "fast"
     /\ UNCHANGED <<opt, closed, werr, pendingCommands, sink, ctx, pendingrequests,
                    flushCh, timerFired, seen>>
  \/ /\ d # Nil
     /\ ctx' = Append(ctx, d)
     /\ pendingrequests' = pendingrequests + 1
     /\ ArmFlush
     /\ pc' = "fast"
     /\ UNCHANGED <<opt, closed, werr, pendingCommands, sink, seen>>

\* Mutant: the local pendingrequests is not incremented.
CollectUncounted(d) ==
  \/ /\ d = Nil
     /\ \E r \in FlushOutcomes(ctx) : sink' = sink \o r[1]
     /\ pendingCommands' = pendingCommands - pendingrequests
     /\ Exit("closed")
     /\ UNCHANGED <<opt, pendingrequests, seen>>
  \/ /\ d # Nil
     /\ ctx' = Append(ctx, d)
     /\ ArmFlush
     /\ pc' = "fast"
     /\ UNCHANGED <<opt, closed, werr, pendingCommands, sink, seen, pendingrequests>>

\* Mutant: nil ends the loop without the final ctx.Flush.
CollectNoFinalFlush(d) ==
  \/ /\ d = Nil
     /\ pendingCommands' = pendingCommands - pendingrequests
     /\ Exit("closed")
     /\ UNCHANGED <<opt, pendingrequests, seen, sink>>
  \/ /\ d # Nil
     /\ ctx' = Append(ctx, d)
     /\ pendingrequests' = pendingrequests + 1
     /\ ArmFlush
     /\ pc' = "fast"
     /\ UNCHANGED <<opt, closed, werr, pendingCommands, sink, seen>>

\* One received value.  Nil: flush ctx (error ignored), uncount it, exit
\* with ErrAsyncWriterClosed.  Otherwise append, count, arm flushCh.
Collect(d) ==
  \/ /\ d = Nil
     /\ \E r \in FlushOutcomes(ctx) : sink' = sink \o r[1]
     /\ pendingCommands' = pendingCommands - pendingrequests
     /\ Exit("closed")
     /\ UNCHANGED <<opt, pendingrequests, seen>>
  \/ /\ d # Nil
     /\ ctx' = Append(ctx, d)
     /\ pendingrequests' = pendingrequests + 1
     /\ ArmFlush
     /\ pc' = "fast"
     /\ UNCHANGED <<opt, closed, werr, pendingCommands, sink, seen>>

Recv ==
  /\ pc \in {"fast", "slow"}
  /\ buffers # <<>>
  /\ buffers' = Tail(buffers)
  /\ Collect(Head(buffers))
  /\ UNCHANGED <<opt, enqueued, producerVars, closeVars>>

FastEmpty ==
  /\ pc = "fast"
  /\ buffers = <<>>
  /\ pc' = "slow"
  /\ UNCHANGED <<opt, buffers, closed, werr, pendingCommands, sink, enqueued,
                 producerVars, closeVars, loopVars>>

TimerFires ==
  /\ flushCh = "timer"
  /\ ~timerFired
  /\ timerFired' = TRUE
  /\ UNCHANGED <<opt, buffers, closed, werr, pendingCommands, sink, enqueued, pc,
                 producerVars, closeVars, ctx, pendingrequests, flushCh, seen>>

\* Mutant: ctx.buffer is not truncated after a successful flush.
FlushKeepsBuffer ==
  /\ pc = "slow"
  /\ FlushReady
  /\ pendingCommands' = pendingCommands - pendingrequests
  /\ pendingrequests' = 0
  /\ \E r \in FlushOutcomes(ctx) :
       /\ sink' = sink \o r[1]
       /\ \/ /\ r[2]
             /\ flushCh' = "nil"
             /\ timerFired' = FALSE
             /\ pc' = "fast"
             /\ UNCHANGED <<opt, closed, werr, ctx>>
          \/ /\ ~r[2]
             /\ Exit("sink")
  /\ UNCHANGED <<opt, buffers, enqueued, seen, producerVars, closeVars>>

\* Mutant: the local pendingrequests is not reset after the flush.
FlushKeepsCount ==
  /\ pc = "slow"
  /\ FlushReady
  /\ pendingCommands' = pendingCommands - pendingrequests
  /\ \E r \in FlushOutcomes(ctx) :
       /\ sink' = sink \o r[1]
       /\ \/ /\ r[2]
             /\ ctx' = <<>>
             /\ flushCh' = "nil"
             /\ timerFired' = FALSE
             /\ pc' = "fast"
             /\ UNCHANGED <<opt, closed, werr>>
          \/ /\ ~r[2]
             /\ Exit("sink")
  /\ UNCHANGED <<opt, buffers, enqueued, seen, producerVars, closeVars,
                 pendingrequests>>

\* flushCh fired: ctx.Flush, then the pending metric is decremented by the
\* local count whatever the outcome; an error ends the loop.
Flush ==
  /\ pc = "slow"
  /\ FlushReady
  /\ pendingCommands' = pendingCommands - pendingrequests
  /\ pendingrequests' = 0
  /\ \E r \in FlushOutcomes(ctx) :
       /\ sink' = sink \o r[1]
       /\ \/ /\ r[2]
             /\ ctx' = <<>>
             /\ flushCh' = "nil"
             /\ timerFired' = FALSE
             /\ pc' = "fast"
             /\ UNCHANGED <<opt, closed, werr>>
          \/ /\ ~r[2]
             /\ Exit("sink")
  /\ UNCHANGED <<opt, buffers, enqueued, seen, producerVars, closeVars>>

DrainOne ==
  /\ pc = "drain"
  /\ buffers # <<>>
  /\ buffers' = Tail(buffers)
  /\ UNCHANGED <<opt, closed, werr, pendingCommands, sink, enqueued, pc,
                 producerVars, closeVars, loopVars>>

DrainDone ==
  /\ pc = "drain"
  /\ buffers = <<>>
  /\ pc' = "reset"
  /\ UNCHANGED <<opt, buffers, closed, werr, pendingCommands, sink, enqueued,
                 producerVars, closeVars, loopVars>>

\* AddPendingCommands(-GetPendingCommands()): a load, then an add.
ResetLoad ==
  /\ pc = "reset"
  /\ seen' = pendingCommands
  /\ pc' = "resetAdd"
  /\ UNCHANGED <<opt, buffers, closed, werr, pendingCommands, sink, enqueued,
                 producerVars, closeVars, ctx, pendingrequests, flushCh,
                 timerFired>>

ResetAdd ==
  /\ pc = "resetAdd"
  /\ pendingCommands' = pendingCommands - seen
  /\ pc' = "exited"
  /\ UNCHANGED <<opt, buffers, closed, werr, sink, enqueued, producerVars,
                 closeVars, loopVars>>

-----------------------------------------------------------------------------

Consumer ==
  \/ Recv \/ FastEmpty \/ Flush
  \/ DrainOne \/ DrainDone \/ ResetLoad \/ ResetAdd

Next ==
  \/ \E p \in Producers : WriteCheck(p) \/ WriteCount(p) \/ WriteSend(p)
  \/ CloseCAS \/ CloseSend \/ CloseSink
  \/ Consumer
  \/ TimerFires

(* As for BatchWriter: the consumer goroutine and the timer are weakly     *)
(* fair, a goroutine between two statements runs on, and blocked channel   *)
(* sends are strongly fair.                                                *)
Fairness ==
  /\ WF_vars(Consumer)
  /\ WF_vars(TimerFires)
  /\ \A p \in Producers : WF_vars(WriteCount(p)) /\ SF_vars(WriteSend(p))
  /\ SF_vars(CloseSend)
  /\ WF_vars(CloseSink)

Spec == Init /\ [][Next]_vars /\ Fairness

-----------------------------------------------------------------------------
(* Properties.                                                             *)

Running == pc \in {"fast", "slow"}

TypeOK ==
  /\ buffers \in Seq(Payloads \cup {Nil})
  /\ Len(buffers) <= Batch
  /\ closed \in BOOLEAN
  /\ werr \in {"none", "closed", "sink"}
  /\ pendingCommands \in 0..Cardinality(Payloads)
  /\ wpc \in [Producers -> {"idle", "checked", "sending"}]
  /\ written \in [Producers -> 0..Writes]
  /\ opt \in [blockwrite : BOOLEAN, delay : BOOLEAN, mayFail : BOOLEAN,
             closable : BOOLEAN]
  /\ closer \in {"idle", "sending", "closing", "done"}
  /\ sinkOpen \in BOOLEAN
  /\ pc \in {"fast", "slow", "drain", "reset", "resetAdd", "exited"}
  /\ ctx \in Seq(Payloads)
  /\ pendingrequests \in 0..Cardinality(Payloads)
  /\ flushCh \in {"nil", "timer", "always"}
  /\ timerFired \in BOOLEAN
  /\ seen \in 0..Cardinality(Payloads)

\* FIFO: across flushes, the close-time flush and failures part-way, the
\* sink has received a prefix of the payloads in the order they were sent
\* on buffers (Write, DoWrite's flush and its flush on nil).
SinkIsPrefix == IsPrefix(sink, Data(enqueued))

\* While the consumer runs, the pending metric counts exactly the producers
\* between AddPendingCommands and the send, the payloads in the channel and
\* those in ctx, and the local pendingrequests counts ctx.
PendingAccounting ==
  Running =>
    /\ pendingCommands = Cardinality({p \in Producers : wpc[p] = "sending"})
                           + Len(Data(buffers)) + Len(ctx)
    /\ pendingrequests = Len(ctx)

\* The writer implements the abstract FIFO sink.
Abs == INSTANCE FifoSink WITH
         accepted <- IF Running THEN ctx \o Data(buffers) ELSE Data(buffers),
         open <- Running

FifoSinkSpec == Abs!Spec

\* Once a Close has won the CAS, DoWrite eventually returns.
ConsumerExitsAfterClose == (closer # "idle") ~> (pc = "exited")

\* The index of Close's sentinel in the history of sends, 0 if none.
SentinelAt == IF \E k \in 1..Len(enqueued) : enqueued[k] = Nil
              THEN CHOOSE k \in 1..Len(enqueued) : enqueued[k] = Nil
              ELSE 0

\* spec.md 4.3 and 8: when DoWrite stopped on Close's nil, every payload
\* sent before the nil reached the sink (the flush on nil at line 183,
\* racing Close's cw.Close() at line 105).
CloseFlushesAccepted ==
  (~Running /\ werr = "closed")
    => sink = Data(SubSeq(enqueued, 1, SentinelAt - 1))

\* The same promise for a sink that has no Close of its own and never fails,
\* the case in which nothing but the final flush stands between the
\* payloads and the sink.
CloseFlushesToPlainSink ==
  (~opt.closable /\ ~opt.mayFail) => CloseFlushesAccepted

\* spec.md 8 and TestAsyncWriterPendingMetrics: once DoWrite has returned
\* and no Write is in progress, the pending metric is zero (line 224).
PendingZeroAtRest ==
  (pc = "exited" /\ \A p \in Producers : wpc[p] = "idle")
    => pendingCommands = 0

=============================================================================
