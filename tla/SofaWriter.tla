----------------------------- MODULE SofaWriter -----------------------------
(***************************************************************************)
(* The DSN writer stack of src/writer/sofawriter/sofawriter.go: building  *)
(* a Writer from one DSN (NewFromDSN) or a DSN list (NewFromDSNList), and  *)
(* closing it.                                                             *)
(*                                                                         *)
(* newWriter builds the writer of one DSN by its scheme, then wraps it in  *)
(* an AsyncWriter when the DSN has the async key.  What a sub-writer holds *)
(* once built is what the model tracks:                                    *)
(*   - an AsyncWriter has started its DoWrite goroutine (asyncwriter.New);  *)
(*   - an rsyslog writer holds the UDP socket DialUDP opened;              *)
(*   - a size (lumberjack) or time (rotatelogs) rolling writer, and a test *)
(*     writer, open nothing until their first Write.                       *)
(* AsyncWriter.Close sends nil to DoWrite, which then returns, and Close   *)
(* itself closes the wrapped writer if it is an io.Closer                  *)
(* (asyncwriter.go:104-105); closing an rsyslog writer closes its socket.  *)
(* The DSN strings and their parsing are                                   *)
(* abstracted to a kind and an async flag per DSN.                         *)
(***************************************************************************)
EXTENDS Naturals, Sequences

CONSTANTS
  DSNs,      \* the DSNs a caller may pass
  Kind,      \* [DSNs -> the writer newWriter builds for the DSN]
  Async,     \* [DSNs -> the DSN carries the async key]
  MaxList    \* the longest DSN list

Kinds == {"size", "time", "syslog", "test", "badMode", "badScheme"}

ASSUME
  /\ Kind \in [DSNs -> Kinds]
  /\ Async \in [DSNs -> BOOLEAN]
  /\ MaxList \in Nat \ {0}

VARIABLES
  pc,     \* "idle", "building", "built", "failed" (error returned), "closed"
  list,   \* the DSNs being built, in order
  subs    \* the sub-writers built so far: [dsn, holds]

vars == <<pc, list, subs>>

\* A sub-writer of DSN d right after newWriter returned it.
Built(d) == [dsn |-> d, holds |-> Async[d] \/ Kind[d] = "syslog"]

\* newWriter's failures: an unknown scheme or rotation mode always fails;
\* newTimeRotationWriter (rotateTime, MkdirAll, rotatelogs.New),
\* rsyslogwriter.New (ResolveUDPAddr, DialUDP) and testwriter.New (ParseBool,
\* a duplicate traced path) may fail; a size writer never fails;
\* asyncwriter.New never fails.
MayFail(d) == Kind[d] \in {"time", "syslog", "test", "badMode", "badScheme"}
MustFail(d) == Kind[d] \in {"badMode", "badScheme"}

Init ==
  /\ pc = "idle"
  /\ list = <<>>
  /\ subs = <<>>

\* NewFromDSN(d), or NewFromDSNList with a non-empty list.
Start ==
  /\ pc = "idle"
  /\ \E n \in 1..MaxList : \E l \in [1..n -> DSNs] : list' = l
  /\ pc' = "building"
  /\ UNCHANGED subs

\* One newWriter call of NewFromDSNList's loop (or NewFromDSN's only call):
\* an error is returned at once, the writers built before it stay as they
\* are.
NewWriter ==
  LET d == list[Len(subs) + 1] IN
  /\ pc = "building"
  /\ Len(subs) < Len(list)
  /\ \/ /\ ~MustFail(d)
        /\ subs' = Append(subs, Built(d))
        /\ pc' = IF Len(subs) + 1 = Len(list) THEN "built" ELSE "building"
     \/ /\ MayFail(d)
        /\ pc' = "failed"
        /\ UNCHANGED subs
  /\ UNCHANGED list

\* Writer.Close: only a single writer is an io.Closer (every kind here but
\* an un-wrapped test writer, which holds nothing); the io.MultiWriter of a
\* longer list is not, and Close returns nil.
Close ==
  /\ pc = "built"
  /\ subs' = IF Len(subs) = 1
             THEN [k \in 1..1 |-> [subs[k] EXCEPT !.holds = FALSE]]
             ELSE subs
  /\ pc' = "closed"
  /\ UNCHANGED list

Next == Start \/ NewWriter \/ Close

Spec == Init /\ [][Next]_vars

-----------------------------------------------------------------------------

TypeOK ==
  /\ pc \in {"idle", "building", "built", "failed", "closed"}
  /\ list \in Seq(DSNs) /\ Len(list) <= MaxList
  /\ subs \in Seq([dsn : DSNs, holds : BOOLEAN])
  /\ Len(subs) <= Len(list)

\* Once the caller is done with the stack (construction returned an error,
\* so it has no Writer to close, or Writer.Close returned), no sub-writer
\* still runs a DoWrite goroutine or holds a socket.
ReleasedWhenDone ==
  pc \in {"failed", "closed"} => \A k \in 1..Len(subs) : ~subs[k].holds

=============================================================================
