---------------------------- MODULE WorkerPool ----------------------------
(***************************************************************************)
(* WorkerPool of src/syncpool/fast-workerpool/workerpool.go.               *)
(*                                                                         *)
(* Serve takes an idle worker from the top of the stack wp.workers, or     *)
(* creates one while workersCount < maxWorkersCount, and sends the job on  *)
(* the worker's channel (capacity workerChanCap = 1).  A worker goroutine  *)
(* (do) receives jobs, runs the handler, and releases itself back onto the *)
(* stack unless mustStop is set; a nil job ends it.  The start goroutine   *)
(* periodically takes the expired prefix of the stack and sends each of    *)
(* those workers nil, until it sees stopCh closed.  Stop closes stopCh,    *)
(* sets the field to nil, then under the lock sends nil to every idle      *)
(* worker, empties the stack and sets mustStop.                            *)
(*                                                                         *)
(* Time is abstracted: which idle workers have expired is a                *)
(* nondeterministic prefix of the stack, and the sleep is a no-op.  A job  *)
(* is a model value; each is passed to Serve by its own goroutine.         *)
(***************************************************************************)
EXTENDS Naturals, Sequences, SequencesExt, FiniteSets

CONSTANTS
  Jobs,        \* values passed to Serve, one caller goroutine each
  Workers,     \* identities of worker goroutines
  MaxWorkers,  \* wp.maxWorkersCount
  Nil          \* the nil sent to stop a worker

ASSUME
  /\ MaxWorkers \in Nat \ {0}
  /\ Cardinality(Workers) >= MaxWorkers
  /\ Nil \notin Jobs

\* workerChanCap when GOMAXPROCS > 1.
ChanCap == 1

VARIABLES
  workers,       \* wp.workers: the stack of idle workers (top = last)
  workersCount,  \* wp.workersCount
  mustStop,      \* wp.mustStop
  stopCh,        \* the field wp.stopCh: "open", "closed" or "nil"
  ch,            \* [Workers -> the contents of worker.ch]
  wst,           \* [Workers -> "dead", "recv", "serving" or "exiting"]
  job,           \* [Workers -> the job a serving worker runs]
  caller,        \* [Jobs -> where its Serve call is]
  target,        \* [Jobs -> the worker getWorker returned]
  startPc,       \* where the start goroutine is
  idleWorkers,   \* start's local idleWorkers still to be sent nil
  stopper,       \* where the Stop call is
  ran            \* history: [Jobs -> times the handler ran the job]

workerVars == <<ch, wst, job>>
vars == <<workers, workersCount, mustStop, stopCh, caller, target, startPc,
          idleWorkers, stopper, ran, workerVars>>

Init ==
  /\ workers = <<>>
  /\ workersCount = 0
  /\ mustStop = FALSE
  /\ stopCh = "open"
  /\ ch = [w \in Workers |-> <<>>]
  /\ wst = [w \in Workers |-> "dead"]
  /\ job = [w \in Workers |-> Nil]
  /\ caller = [j \in Jobs |-> "idle"]
  /\ target = [j \in Jobs |-> Nil]
  /\ startPc = "select"
  /\ idleWorkers = <<>>
  /\ stopper = "idle"
  /\ ran = [j \in Jobs |-> 0]

-----------------------------------------------------------------------------
(* Serve and getWorker.                                                    *)

\* Mutant: a worker is created without checking maxWorkersCount.
GetWorkerNoLimit(j) ==
  /\ caller[j] = "idle"
  /\ \/ /\ workers # <<>>
        /\ target' = [target EXCEPT ![j] = Last(workers)]
        /\ workers' = Front(workers)
        /\ caller' = [caller EXCEPT ![j] = "send"]
        /\ UNCHANGED <<workersCount, workerVars>>
     \/ /\ workers = <<>>
        /\ \E w \in Workers :
             /\ wst[w] = "dead"
             /\ wst' = [wst EXCEPT ![w] = "recv"]
             /\ ch' = [ch EXCEPT ![w] = <<>>]
             /\ target' = [target EXCEPT ![j] = w]
        /\ workersCount' = workersCount + 1
        /\ caller' = [caller EXCEPT ![j] = "send"]
        /\ UNCHANGED <<workers, job>>
  /\ UNCHANGED <<mustStop, stopCh, startPc, idleWorkers, stopper, ran>>

\* getWorker's locked section and its decision: pop the top idle worker,
\* or count and create a new worker goroutine, or return false.
GetWorker(j) ==
  /\ caller[j] = "idle"
  /\ \/ /\ workers # <<>>
        /\ target' = [target EXCEPT ![j] = Last(workers)]
        /\ workers' = Front(workers)
        /\ caller' = [caller EXCEPT ![j] = "send"]
        /\ UNCHANGED <<workersCount, workerVars>>
     \/ /\ workers = <<>>
        /\ workersCount < MaxWorkers
        /\ \E w \in Workers :
             /\ wst[w] = "dead"
             /\ wst' = [wst EXCEPT ![w] = "recv"]
             /\ ch' = [ch EXCEPT ![w] = <<>>]
             /\ target' = [target EXCEPT ![j] = w]
        /\ workersCount' = workersCount + 1
        /\ caller' = [caller EXCEPT ![j] = "send"]
        /\ UNCHANGED <<workers, job>>
     \/ /\ workers = <<>>
        /\ workersCount >= MaxWorkers
        /\ caller' = [caller EXCEPT ![j] = "rejected"]
        /\ UNCHANGED <<workers, workersCount, target, workerVars>>
  /\ UNCHANGED <<mustStop, stopCh, startPc, idleWorkers, stopper, ran>>

\* ch.ch <- v
ServeSend(j) ==
  LET w == target[j] IN
  /\ caller[j] = "send"
  /\ Len(ch[w]) < ChanCap
  /\ ch' = [ch EXCEPT ![w] = Append(@, j)]
  /\ caller' = [caller EXCEPT ![j] = "done"]
  /\ UNCHANGED <<workers, workersCount, mustStop, stopCh, target, startPc,
                 idleWorkers, stopper, ran, wst, job>>

-----------------------------------------------------------------------------
(* The worker goroutine: do and release.                                   *)

\* c := <-worker.ch; nil breaks the loop, anything else is served.
WorkerRecv(w) ==
  /\ wst[w] = "recv"
  /\ ch[w] # <<>>
  /\ ch' = [ch EXCEPT ![w] = Tail(@)]
  /\ IF Head(ch[w]) = Nil
     THEN /\ wst' = [wst EXCEPT ![w] = "exiting"]
          /\ UNCHANGED <<job, ran>>
     ELSE /\ wst' = [wst EXCEPT ![w] = "serving"]
          /\ job' = [job EXCEPT ![w] = Head(ch[w])]
          /\ ran' = [ran EXCEPT ![Head(ch[w])] = @ + 1]
  /\ UNCHANGED <<workers, workersCount, mustStop, stopCh, caller, target,
                 startPc, idleWorkers, stopper>>

\* Mutant: release ignores mustStop.
ReleaseIgnoresMustStop(w) ==
  /\ wst[w] = "serving"
  /\ workers' = Append(workers, w)
  /\ wst' = [wst EXCEPT ![w] = "recv"]
  /\ job' = [job EXCEPT ![w] = Nil]
  /\ UNCHANGED <<workersCount, mustStop, stopCh, caller, target, startPc,
                 idleWorkers, stopper, ran, ch>>

\* After ServeJob: release pushes the worker back unless mustStop.
Release(w) ==
  /\ wst[w] = "serving"
  /\ IF mustStop
     THEN /\ wst' = [wst EXCEPT ![w] = "exiting"]
          /\ UNCHANGED workers
     ELSE /\ workers' = Append(workers, w)
          /\ wst' = [wst EXCEPT ![w] = "recv"]
  /\ job' = [job EXCEPT ![w] = Nil]
  /\ UNCHANGED <<workersCount, mustStop, stopCh, caller, target, startPc,
                 idleWorkers, stopper, ran, ch>>

\* Mutant: workersCount is not decremented when a worker ends.
WorkerExitUncounted(w) ==
  /\ wst[w] = "exiting"
  /\ wst' = [wst EXCEPT ![w] = "dead"]
  /\ UNCHANGED <<workers, mustStop, stopCh, caller, target, startPc,
                 idleWorkers, stopper, ran, ch, job, workersCount>>

\* The end of do: workersCount-- under the lock.
WorkerExit(w) ==
  /\ wst[w] = "exiting"
  /\ workersCount' = workersCount - 1
  /\ wst' = [wst EXCEPT ![w] = "dead"]
  /\ UNCHANGED <<workers, mustStop, stopCh, caller, target, startPc,
                 idleWorkers, stopper, ran, ch, job>>

-----------------------------------------------------------------------------
(* The start goroutine.                                                    *)

\* select on wp.stopCh, a field Stop writes without synchronisation: the
\* read sees the channel open, closed, or nil (a nil channel is never ready,
\* so the default branch runs).
StartSelect ==
  /\ startPc = "select"
  /\ startPc' = IF stopCh = "closed" THEN "returned" ELSE "scan"
  /\ UNCHANGED <<workers, workersCount, mustStop, stopCh, caller, target,
                 idleWorkers, stopper, ran, workerVars>>

\* Mutant: the expired workers are notified but left on the stack.
StartScanKeeps ==
  /\ startPc = "scan"
  /\ \E i \in 0..Len(workers) : idleWorkers' = SubSeq(workers, 1, i)
  /\ startPc' = "notify"
  /\ UNCHANGED <<workersCount, mustStop, stopCh, caller, target, stopper,
                 ran, workerVars, workers>>

\* The locked section: the expired prefix of the stack is moved to
\* idleWorkers (the workers after it are shifted down).
StartScan ==
  /\ startPc = "scan"
  /\ \E i \in 0..Len(workers) :
       /\ idleWorkers' = SubSeq(workers, 1, i)
       /\ workers' = SubSeq(workers, i + 1, Len(workers))
  /\ startPc' = "notify"
  /\ UNCHANGED <<workersCount, mustStop, stopCh, caller, target, stopper,
                 ran, workerVars>>

\* worker.ch <- nil for each expired worker, outside the lock; then sleep
\* and loop.
StartNotify ==
  /\ startPc = "notify"
  /\ IF idleWorkers = <<>>
     THEN /\ startPc' = "select"
          /\ UNCHANGED <<idleWorkers, ch>>
     ELSE LET w == Head(idleWorkers) IN
          /\ Len(ch[w]) < ChanCap
          /\ ch' = [ch EXCEPT ![w] = Append(@, Nil)]
          /\ idleWorkers' = Tail(idleWorkers)
          /\ UNCHANGED startPc
  /\ UNCHANGED <<workers, workersCount, mustStop, stopCh, caller, target,
                 stopper, ran, wst, job>>

-----------------------------------------------------------------------------
(* Stop.                                                                   *)

StopClose ==
  /\ stopper = "idle"
  /\ stopCh' = "closed"
  /\ stopper' = "clear"
  /\ UNCHANGED <<workers, workersCount, mustStop, caller, target, startPc,
                 idleWorkers, ran, workerVars>>

StopClear ==
  /\ stopper = "clear"
  /\ stopCh' = "nil"
  /\ stopper' = "locked"
  /\ UNCHANGED <<workers, workersCount, mustStop, caller, target, startPc,
                 idleWorkers, ran, workerVars>>

\* Under the lock: nil to every idle worker, empty the stack, mustStop.
StopWorkers ==
  /\ stopper = "locked"
  /\ \A k \in 1..Len(workers) : Len(ch[workers[k]]) < ChanCap
  /\ ch' = [w \in Workers |->
              IF w \in ToSet(workers) THEN Append(ch[w], Nil) ELSE ch[w]]
  /\ workers' = <<>>
  /\ mustStop' = TRUE
  /\ stopper' = "done"
  /\ UNCHANGED <<workersCount, stopCh, caller, target, startPc, idleWorkers,
                 ran, wst, job>>

-----------------------------------------------------------------------------

Next ==
  \/ \E j \in Jobs : GetWorker(j) \/ ServeSend(j)
  \/ \E w \in Workers : WorkerRecv(w) \/ Release(w) \/ WorkerExit(w)
  \/ StartSelect \/ StartScan \/ StartNotify
  \/ StopClose \/ StopClear \/ StopWorkers

(* Every goroutine keeps running while it has a step: the Serve callers,   *)
(* the workers, the start goroutine and the Stop call are weakly fair.     *)
(* Nobody has to call Serve or Stop.                                        *)
Fairness ==
  /\ \A j \in Jobs : WF_vars(ServeSend(j))
  /\ \A w \in Workers : WF_vars(WorkerRecv(w) \/ Release(w) \/ WorkerExit(w))
  /\ WF_vars(StartSelect \/ StartScan \/ StartNotify)
  /\ WF_vars(StopClear \/ StopWorkers)

Spec == Init /\ [][Next]_vars /\ Fairness

-----------------------------------------------------------------------------
(* Properties.                                                             *)

TypeOK ==
  /\ workers \in Seq(Workers)
  /\ workersCount \in 0..MaxWorkers
  /\ mustStop \in BOOLEAN
  /\ stopCh \in {"open", "closed", "nil"}
  /\ ch \in [Workers -> Seq(Jobs \cup {Nil})]
  /\ wst \in [Workers -> {"dead", "recv", "serving", "exiting"}]
  /\ job \in [Workers -> Jobs \cup {Nil}]
  /\ caller \in [Jobs -> {"idle", "send", "done", "rejected"}]
  /\ target \in [Jobs -> Workers \cup {Nil}]
  /\ startPc \in {"select", "scan", "notify", "returned"}
  /\ idleWorkers \in Seq(Workers)
  /\ stopper \in {"idle", "clear", "locked", "done"}
  /\ ran \in [Jobs -> Nat]

Live == {w \in Workers : wst[w] # "dead"}

\* workersCount counts exactly the worker goroutines that have not finished
\* do (getWorker's increment, the decrement at the end of do, whichever of
\* nil or mustStop ended the loop), and the idle stack holds each worker at
\* most once, each waiting in its receive with nothing queued for it, so
\* Serve's and Stop's sends to it cannot block.
WorkersAccounted ==
  /\ workersCount = Cardinality(Live)
  /\ IsInjective(workers)
  /\ \A k \in 1..Len(workers) :
       wst[workers[k]] = "recv" /\ ch[workers[k]] = <<>>

\* A job whose Serve returned true is eventually run by the handler,
\* exactly once, whatever the cleanup and Stop do to idle workers
\* (Serve, getWorker, do, start's cleanup, Stop).
ServedJobRuns ==
  \A j \in Jobs : (caller[j] = "done") ~> (ran[j] = 1)

\* After Stop, every worker goroutine eventually ends: idle ones receive
\* nil, busy ones see mustStop in release (Stop, release, do).
StopEndsWorkers == (stopper = "done") ~> (Live = {})

\* After Stop, the start goroutine eventually returns (its select on
\* wp.stopCh, which Stop closes and then sets to nil).
StartReturnsAfterStop == (stopper = "done") ~> (startPc = "returned")

=============================================================================
