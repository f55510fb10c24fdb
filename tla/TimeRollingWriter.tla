------------------------- MODULE TimeRollingWriter -------------------------
(***************************************************************************)
(* TimeRollingWriter of src/writer/rollingwriter/timerollingwriter.go over *)
(* the FileRotateWriter of rotatewriter.go.                               *)
(*                                                                         *)
(* Time is abstracted to the periods the time format tells apart (hours    *)
(* for the default format): two instants format equal iff they fall in the *)
(* same period, so bytes.Equal(nowtimeb, lasttimeb) is an equality of     *)
(* periods and the rotated file's name Name(filename, lasttime) is the     *)
(* period of lasttime.  The disk is the file "filename" (Cur) and one     *)
(* file per period name; a file holds the payloads written to it, in      *)
(* order.                                                                  *)
(*                                                                         *)
(* Write reads the clock before it takes trw's lock (line 106); the rest   *)
(* of Write, tryRotate, Rotate and FileRotateWriter.Write runs under the   *)
(* lock and is one step.  Close takes no lock; it is a step between two    *)
(* critical sections (a Close inside one only makes that Write fail).      *)
(* Every system call of Rotate may fail; chown is defined outside src/ and *)
(* is only a call that may fail between the rename and the reopen.         *)
(***************************************************************************)
EXTENDS Naturals, Sequences, SequencesExt, FiniteSets

CONSTANTS
  Writers,         \* goroutines calling Write
  NumPeriods,      \* the clock ranges over periods 1..NumPeriods
  MaxWrites,       \* Write calls in a behaviour (bounds the model)
  MaxCloses,       \* Close calls in a behaviour (bounds the model)
  RotateMayFail    \* the file system calls of Rotate may fail

ASSUME
  /\ Writers # {}
  /\ NumPeriods \in Nat \ {0}
  /\ MaxWrites \in Nat \ {0}
  /\ MaxCloses \in Nat
  /\ RotateMayFail \in BOOLEAN

Periods == 1..NumPeriods
Cur == 0   \* the name filename itself; a rotated file is named by a period
Names == {Cur} \cup Periods
\* A payload is the number of its Write call and the period it read.
Payloads == (1..MaxWrites) \X Periods

VARIABLES
  clock,     \* the period the wall clock is in
  lasttimeb, \* timing.lasttimeb, as the period it formats
  lasttime,  \* timing.lasttime, as its period
  wpc,       \* [Writers -> "idle" or "locking": Now() read, lock not held]
  wnow,      \* [Writers -> the period Now() returned]
  wid,       \* [Writers -> the number of the Write in progress]
  calls,     \* Write calls made so far
  open,      \* FileRotateWriter.file # nil
  exists,    \* the names of the files on disk
  disk,      \* [Names -> the payloads in that file]
  closes,    \* Close calls made so far
  acked      \* history: the payloads whose Write returned (len(p), nil)

vars == <<clock, lasttimeb, lasttime, wpc, wnow, wid, calls, open, exists,
          disk, closes, acked>>

\* NewTimeRollingWriter: NewFileRotateWriter creates (or opens) filename,
\* so the Stat at line 95 succeeds and lasttime is its modification time,
\* a period no later than the clock (the file may be an old one).
Init ==
  /\ clock \in Periods
  /\ lasttime \in 1..clock
  /\ lasttimeb = lasttime
  /\ wpc = [w \in Writers |-> "idle"]
  /\ wnow = [w \in Writers |-> clock]
  /\ wid = [w \in Writers |-> 0]
  /\ calls = 0
  /\ open = TRUE
  /\ exists = {Cur}
  /\ disk = [n \in Names |-> <<>>]
  /\ closes = 0
  /\ acked = {}

-----------------------------------------------------------------------------
(* The clock.                                                              *)

Tick ==
  /\ clock < NumPeriods
  /\ clock' = clock + 1
  /\ UNCHANGED <<lasttimeb, lasttime, wpc, wnow, wid, calls, open, exists,
                 disk, closes, acked>>

-----------------------------------------------------------------------------
(* Write.                                                                  *)

\* Line 106, before trw.Lock().
Now(w) ==
  /\ wpc[w] = "idle"
  /\ calls < MaxWrites
  /\ calls' = calls + 1
  /\ wnow' = [wnow EXCEPT ![w] = clock]
  /\ wid' = [wid EXCEPT ![w] = calls + 1]
  /\ wpc' = [wpc EXCEPT ![w] = "locking"]
  /\ UNCHANGED <<clock, lasttimeb, lasttime, open, exists, disk, closes, acked>>

\* Where Rotate(filename, rotatename) stops: "ok"; "beforeRename" (Close,
\* MkdirAll or Rename failed); "afterRename" (chown or OpenFile failed).
RotateOutcomes == IF RotateMayFail THEN {"ok", "beforeRename", "afterRename"}
                  ELSE {"ok"}

\* openNew's Stat found filename and its Rename over rotatename was done.
Renamed(outcome) == outcome # "beforeRename" /\ Cur \in exists

\* The names on disk and their contents after Rotate(filename, rotatename):
\* the rename replaces any file called rotatename; a successful OpenFile
\* (O_CREATE, no O_TRUNC) creates filename empty when it is absent.
RotatedExists(rotatename, outcome) ==
  LET afterRename == IF Renamed(outcome)
                     THEN (exists \ {Cur}) \cup {rotatename} ELSE exists
  IN IF outcome = "ok" THEN afterRename \cup {Cur} ELSE afterRename

RotatedDisk(rotatename, outcome) ==
  IF Renamed(outcome)
  THEN [disk EXCEPT ![rotatename] = disk[Cur], ![Cur] = <<>>]
  ELSE disk

\* Mutant: lasttimeb is advanced but lasttime is not.
SetLastTimebOnly(now) ==
  /\ lasttimeb' = now
  /\ UNCHANGED lasttime

\* tryRotate's lines 129-130, after rotatename has been taken from lasttime.
SetLast(now) ==
  /\ lasttimeb' = now
  /\ lasttime' = now

\* Mutant: file is set even when OpenFile failed.
ReopenedIgnoresOpenError(outcome) == outcome # "beforeRename"

\* openNew's OpenFile succeeded and set w.file.
Reopened(outcome) == outcome = "ok"

\* Lines 108-122 under the lock.  The same period: FileRotateWriter.Write,
\* which fails with "no available file" while file is nil.  Another period:
\* tryRotate sets lasttime to now, then Rotate(filename, Name(lasttime of
\* before)); Rotate closes file (nil afterwards, error or not) and reopens
\* it only when every call succeeded; Write returns Rotate's error, or
\* writes p to the new file.
Write(w) ==
  LET now == wnow[w]
      d == <<wid[w], now>>
  IN
  /\ wpc[w] = "locking"
  /\ \/ /\ now = lasttimeb
        /\ IF open
           THEN /\ disk' = [disk EXCEPT ![Cur] = Append(@, d)]
                /\ acked' = acked \cup {d}
           ELSE UNCHANGED <<disk, acked>>
        /\ UNCHANGED <<lasttimeb, lasttime, open, exists>>
     \/ /\ now # lasttimeb
        /\ SetLast(now)
        /\ \E outcome \in RotateOutcomes :
             LET disk1 == RotatedDisk(lasttime, outcome) IN
             /\ open' = Reopened(outcome)
             /\ exists' = RotatedExists(lasttime, outcome)
             /\ IF outcome = "ok"
                THEN /\ disk' = [disk1 EXCEPT ![Cur] = Append(@, d)]
                     /\ acked' = acked \cup {d}
                ELSE /\ disk' = disk1
                     /\ UNCHANGED acked
  /\ wpc' = [wpc EXCEPT ![w] = "idle"]
  /\ UNCHANGED <<clock, wnow, wid, calls, closes>>

\* FileRotateWriter.Close, without trw's lock: file is nil afterwards.
Close ==
  /\ closes < MaxCloses
  /\ closes' = closes + 1
  /\ open' = FALSE
  /\ UNCHANGED <<clock, lasttimeb, lasttime, wpc, wnow, wid, calls, exists,
                 disk, acked>>

Next ==
  \/ Tick \/ Close
  \/ \E w \in Writers : Now(w) \/ Write(w)

Spec == Init /\ [][Next]_vars

-----------------------------------------------------------------------------
(* Properties.                                                             *)

TypeOK ==
  /\ clock \in Periods
  /\ lasttimeb \in Periods
  /\ lasttime \in Periods
  /\ wpc \in [Writers -> {"idle", "locking"}]
  /\ wnow \in [Writers -> Periods]
  /\ wid \in [Writers -> 0..MaxWrites]
  /\ calls \in 0..MaxWrites
  /\ open \in BOOLEAN
  /\ exists \subseteq Names
  /\ disk \in [Names -> Seq(Payloads)]
  /\ \A n \in Names \ exists : disk[n] = <<>>
  /\ open => Cur \in exists
  /\ closes \in 0..MaxCloses
  /\ acked \subseteq Payloads

\* No acknowledged write is lost: every payload whose Write returned
\* (len(p), nil) is still in some file on disk, across rotations, failed
\* rotations and Close.  Rotate renames filename over Name(lasttime), which
\* replaces any earlier file of that name.
WritesKept == \A d \in acked : \E n \in exists : d \in ToSet(disk[n])

=============================================================================
