------------------------------ MODULE FifoSink ------------------------------
(***************************************************************************)
(* What a batching writer (batchwriter, asyncwriter) promises its callers, *)
(* with the batching, the channel and the consumer goroutine abstracted    *)
(* away:                                                                   *)
(*   - a payload is accepted (its Write returned (n, nil)) and joins the   *)
(*     queue of accepted payloads;                                         *)
(*   - while the writer is open, a prefix of that queue is delivered to    *)
(*     the sink, so the sink sees payloads in acceptance order, each once; *)
(*   - the writer stops once (close or sink error); in that step a prefix  *)
(*     of the queue may still reach the sink and some further payloads are *)
(*     lost; after it nothing reaches the sink and whatever is still       *)
(*     queued is discarded.                                                *)
(* Fairness: an open writer that keeps accepted payloads eventually       *)
(* delivers some of them (unless it stops first).                          *)
(***************************************************************************)
EXTENDS Naturals, Sequences

CONSTANT Payloads

VARIABLES
  accepted,  \* payloads accepted and neither written nor discarded yet
  sink,      \* everything the sink has received, in order
  open       \* the writer has not stopped

vars == <<accepted, sink, open>>

Init ==
  /\ accepted = <<>>
  /\ sink = <<>>
  /\ open = TRUE

\* The first k accepted payloads, and the ones after the first j.
Front(k) == SubSeq(accepted, 1, k)
After(j) == SubSeq(accepted, j + 1, Len(accepted))

Accept(x) ==
  /\ accepted' = Append(accepted, x)
  /\ UNCHANGED <<sink, open>>

Deliver ==
  /\ open
  /\ \E k \in 1..Len(accepted) :
       /\ sink' = sink \o Front(k)
       /\ accepted' = After(k)
  /\ UNCHANGED open

Stop ==
  /\ open
  /\ \E j \in 0..Len(accepted) : \E k \in 0..j :
       /\ sink' = sink \o Front(k)
       /\ accepted' = After(j)
  /\ open' = FALSE

Discard ==
  /\ ~open
  /\ accepted # <<>>
  /\ accepted' = Tail(accepted)
  /\ UNCHANGED <<sink, open>>

Next ==
  \/ \E x \in Payloads : Accept(x)
  \/ Deliver
  \/ Stop
  \/ Discard

Spec == Init /\ [][Next]_vars /\ WF_vars(Deliver)

=============================================================================
