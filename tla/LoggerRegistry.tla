--------------------------- MODULE LoggerRegistry ---------------------------
(***************************************************************************)
(* The logger registry of src/logger/registry.go and the loggers it hands *)
(* out (logger.go, metrics.go), over the writer stack SofaWriter models.  *)
(*                                                                         *)
(*   - AllocateLogger, DoPOST and GetLogger run under the registry's lock *)
(*     and are one step each.                                              *)
(*   - A log call is zap's Check (the core's AtomicLevel is read), then    *)
(*     CheckedEntry.Write: the ioCore writes the entry to the logger's     *)
(*     Writer, then the hooked core runs hook, which adds one to the       *)
(*     counter of the entry's level.  The three are separate steps: other  *)
(*     goroutines run between them.  The entry's bytes and the Writer's    *)
(*     result are not modelled: hook runs whether the write failed or not. *)
(*   - StdoutLogger (logger.go init) is a logger outside the registry; it  *)
(*     shares the package's level counters.                                *)
(*   - An rsyslog sub-writer computes its PRI once, in rsyslogwriter.New,  *)
(*     from the facility and severity the DSN names (dsn.ParseFacility,    *)
(*     dsn.ParseSeverity, with USER and INFO as defaults).                 *)
(*   - A test sub-writer is looked up in, and when traced stored in,       *)
(*     testwriter's package map by its path (testwriter.New), which tests  *)
(*     read with Get and clear with Del and DelAll.                        *)
(* Query strings are taken as already upper-cased (ParseSeverity and       *)
(* ParseFacility apply strings.ToUpper; ParseLevel is case-insensitive).   *)
(* Fatal (os.Exit) is not logged; Panic and DPanic write and count like    *)
(* the other levels before the caller's goroutine panics.                  *)
(***************************************************************************)
EXTENDS Integers, Sequences, SequencesExt, FiniteSets, FiniteSetsExt

CONSTANTS
  Names,        \* logger names passed to AllocateLogger
  Std,          \* StdoutLogger
  DSNs,         \* the DSNs passed to AllocateLogger
  Kind,         \* [DSNs -> the writer newWriter builds]
  Async,        \* [DSNs -> the DSN carries the async key]
  DSNLevel,     \* [DSNs -> the DSN's "level" query]
  DSNFacility,  \* [DSNs -> the DSN's rsyslog_facility query]
  DSNSeverity,  \* [DSNs -> the DSN's rsyslog_severity query]
  DSNPath,      \* [DSNs -> the DSN's path]
  DSNTrace,     \* [DSNs -> the DSN's trace query is true]
  PostLevels,   \* "level" parameters a POST may carry
  LogLevels,    \* the levels callers log at
  Callers,      \* goroutines logging
  MaxLogs       \* log calls in a behaviour (bounds the model)

Loggers == Names \cup {Std}
Paths == {DSNPath[d] : d \in DSNs}
None == "none"

ASSUME
  /\ Std \notin Names
  /\ MaxLogs \in Nat

\* newWriter's outcomes for one DSN (NewFromDSN makes exactly one call).
SW == INSTANCE SofaWriter WITH pc <- "idle", list <- <<>>, subs <- <<>>,
                               MaxList <- 1

-----------------------------------------------------------------------------
(* zap levels and ParseLevel.                                              *)

DebugLevel == -1
InfoLevel == 0
WarnLevel == 1
ErrorLevel == 2
DPanicLevel == 3
PanicLevel == 4
FatalLevel == 5
Levels == DebugLevel..FatalLevel

\* ParseLevel: the names zap's levels print as; anything else is Info.
LevelNames == [DEBUG |-> DebugLevel, INFO |-> InfoLevel, WARN |-> WarnLevel,
               ERROR |-> ErrorLevel, DPANIC |-> DPanicLevel,
               PANIC |-> PanicLevel, FATAL |-> FatalLevel]
ParseLevel(s) == IF s \in DOMAIN LevelNames THEN LevelNames[s] ELSE InfoLevel

-----------------------------------------------------------------------------
(* rsyslog PRI.                                                            *)

\* rsyslogwriter's Severity and Facility constants, as ParseSeverity and
\* ParseFacility name them.
SeverityNames == [EMERG |-> 0, ALERT |-> 1, CRIT |-> 2, ERR |-> 3,
                  WARNING |-> 4, NOTICE |-> 5, INFO |-> 6, DEBUG |-> 7]
FacilityNames == [KERN |-> 0, USER |-> 1, MAIL |-> 2, DAEMON |-> 3,
                  AUTH |-> 4, SYSLOG |-> 5, LPR |-> 6, NEWS |-> 7, UUCP |-> 8,
                  CRON |-> 9, AUTHPRIV |-> 10, FTP |-> 11, LOCAL0 |-> 16,
                  LOCAL1 |-> 17, LOCAL2 |-> 18, LOCAL3 |-> 19, LOCAL4 |-> 20,
                  LOCAL5 |-> 21, LOCAL6 |-> 22, LOCAL7 |-> 23]

\* dsn.ParseSeverity / dsn.ParseFacility: the value rsyslogwriter.Parse*
\* finds for the name, or the default when it returns an error.
ParseSeverity(s, def) ==
  IF s \in DOMAIN SeverityNames THEN SeverityNames[s] ELSE def
ParseFacility(s, def) ==
  IF s \in DOMAIN FacilityNames THEN FacilityNames[s] ELSE def

\* rsyslogwriter.New: int(o.facility*8) + int(o.severity); the product is
\* computed in uint8 (Facility) before the conversion.
Pri(d) ==
  LET f == ParseFacility(DSNFacility[d], FacilityNames.USER)
      s == ParseSeverity(DSNSeverity[d], SeverityNames.INFO)
  IN ((f * 8) % 256) + s

-----------------------------------------------------------------------------

VARIABLES
  reg,      \* r.m: [Names -> the DSN of the registered logger, or None]
  level,    \* [Loggers -> the logger's AtomicLevel]
  writers,  \* the writers NewFromDSN built: [dsn, owner, holds, pri]
  cpc,      \* [Callers -> "idle", "writing" (Check passed), "hooking"]
  clog,     \* [Callers -> the logger of the call in progress]
  clvl,     \* [Callers -> the level of the call in progress]
  logs,     \* log calls made so far
  counter,  \* [Levels -> the package's <level>LoggerCounter]
  traced    \* testwriter's writers map: [Paths -> the owner's name, or None]

vars == <<reg, level, writers, cpc, clog, clvl, logs, counter, traced>>

Registered == {n \in Names : reg[n] # None}

\* GetRegistry's zero Registry (its map is made on first use), and the
\* package init that builds StdoutLogger at DebugLevel.
Init ==
  /\ reg = [n \in Names |-> None]
  /\ level = [l \in Loggers |-> IF l = Std THEN DebugLevel ELSE InfoLevel]
  /\ writers = {}
  /\ cpc = [c \in Callers |-> "idle"]
  /\ clog = [c \in Callers |-> Std]
  /\ clvl = [c \in Callers |-> InfoLevel]
  /\ logs = 0
  /\ counter = [l \in Levels |-> 0]
  /\ traced = [p \in Paths |-> None]

\* The writer NewFromDSN(d) returns for logger name.
Writer(d, name) ==
  [dsn |-> d, owner |-> name, holds |-> SW!Built(d).holds,
   pri |-> IF Kind[d] = "syslog" THEN Pri(d) ELSE 0]

\* testwriter.New finds a writer stored under the path (Load) and fails;
\* the DSNs' discard and trace queries are taken to parse.
TestDuplicate(d) == Kind[d] = "test" /\ traced[DSNPath[d]] # None

\* NewFromDSN(d) returns a writer, or may return an error.
BuildOk(d) == ~SW!MustFail(d) /\ ~TestDuplicate(d)
BuildFails(d) == IF Kind[d] = "test" THEN TestDuplicate(d) ELSE SW!MayFail(d)

\* testwriter.New stores a traced writer under its path.
Stored(d, name) ==
  IF Kind[d] = "test" /\ DSNTrace[d]
  THEN [traced EXCEPT ![DSNPath[d]] = name] ELSE traced

\* Mutant: the writer is built before the duplicate-name check.
AllocateLoggerBuildFirst(name, d) ==
  /\ \/ /\ BuildOk(d)
        /\ writers' = writers \cup {Writer(d, name)}
        /\ traced' = Stored(d, name)
        /\ IF reg[name] = None
           THEN /\ reg' = [reg EXCEPT ![name] = d]
                /\ level' = [level EXCEPT ![name] = ParseLevel(DSNLevel[d])]
           ELSE UNCHANGED <<reg, level>>
     \/ /\ BuildFails(d)
        /\ UNCHANGED <<reg, level, writers, traced>>
  /\ UNCHANGED <<cpc, clog, clvl, logs, counter>>

\* AllocateLogger(name, d) under r.Lock: a duplicate name fails before any
\* writer is built; NewFromDSN may fail; logger.New never fails, so the
\* writer.Close at line 162 is not reached.  The logger's level is
\* ParseLevel of the DSN's "level" query, shared by the status and the core.
AllocateLogger(name, d) ==
  /\ reg[name] = None
  /\ \/ /\ BuildOk(d)
        /\ traced' = Stored(d, name)
        /\ reg' = [reg EXCEPT ![name] = d]
        /\ level' = [level EXCEPT ![name] = ParseLevel(DSNLevel[d])]
        /\ writers' = writers \cup {Writer(d, name)}
     \/ /\ BuildFails(d)
        /\ UNCHANGED <<reg, level, writers, traced>>
  /\ UNCHANGED <<cpc, clog, clvl, logs, counter>>

\* DoPOST: an unknown name answers 500; otherwise the status's level is set.
DoPOST(name, s) ==
  /\ name \in Registered
  /\ level' = [level EXCEPT ![name] = ParseLevel(s)]
  /\ UNCHANGED <<reg, writers, cpc, clog, clvl, logs, counter, traced>>

\* SofaLogger.SetLevel on StdoutLogger or a logger GetLogger found.
SetLevel(lg, x) ==
  /\ lg \in Registered \cup {Std}
  /\ level' = [level EXCEPT ![lg] = x]
  /\ UNCHANGED <<reg, writers, cpc, clog, clvl, logs, counter, traced>>

\* A call of Debug, Info, Warn, Error, DPanic or Panic (or their f forms,
\* or XPrint) on StdoutLogger or on a logger GetLogger found: zap's Check
\* reads the AtomicLevel; a disabled entry ends the call.
Check(c, lg, x) ==
  /\ cpc[c] = "idle"
  /\ lg \in Registered \cup {Std}
  /\ logs < MaxLogs
  /\ logs' = logs + 1
  /\ cpc' = [cpc EXCEPT ![c] = IF x >= level[lg] THEN "writing" ELSE "idle"]
  /\ clog' = [clog EXCEPT ![c] = lg]
  /\ clvl' = [clvl EXCEPT ![c] = x]
  /\ UNCHANGED <<reg, level, writers, counter, traced>>

\* GeminiLogger: Infof and Debugf go to infol, Errorf to errl.
GeminiRoute(infol, errl, x) == IF x = ErrorLevel THEN errl ELSE infol

\* The ioCore writes the entry to the logger's Writer.
WriteEntry(c) ==
  /\ cpc[c] = "writing"
  /\ cpc' = [cpc EXCEPT ![c] = "hooking"]
  /\ UNCHANGED <<reg, level, writers, clog, clvl, logs, counter, traced>>

\* Mutant: hook registered twice (zap.Hooks(hook) again among cf.options).
HookTwice(c) ==
  /\ cpc[c] = "hooking"
  /\ counter' = [counter EXCEPT ![clvl[c]] = @ + 2]
  /\ cpc' = [cpc EXCEPT ![c] = "idle"]
  /\ UNCHANGED <<reg, level, writers, clog, clvl, logs, traced>>

\* hook: the counter of the entry's level.
Hook(c) ==
  /\ cpc[c] = "hooking"
  /\ counter' = [counter EXCEPT ![clvl[c]] = @ + 1]
  /\ cpc' = [cpc EXCEPT ![c] = "idle"]
  /\ UNCHANGED <<reg, level, writers, clog, clvl, logs, traced>>

\* testwriter.Del, as a test calls it between cases.
Del(p) ==
  /\ traced[p] # None
  /\ traced' = [traced EXCEPT ![p] = None]
  /\ UNCHANGED <<reg, level, writers, cpc, clog, clvl, logs, counter>>

\* testwriter.DelAll.
DelAll ==
  /\ traced # [p \in Paths |-> None]
  /\ traced' = [p \in Paths |-> None]
  /\ UNCHANGED <<reg, level, writers, cpc, clog, clvl, logs, counter>>

Next ==
  \/ \E n \in Names, d \in DSNs : AllocateLogger(n, d)
  \/ \E n \in Names, s \in PostLevels : DoPOST(n, s)
  \/ \E lg \in Loggers, s \in PostLevels : SetLevel(lg, ParseLevel(s))
  \/ \E p \in Paths : Del(p)
  \/ DelAll
  \/ \E c \in Callers :
       \/ \E lg \in Loggers, x \in LogLevels : Check(c, lg, x)
       \/ \E il, el \in Loggers,
            x \in LogLevels \cap {DebugLevel, InfoLevel, ErrorLevel} :
            Check(c, GeminiRoute(il, el, x), x)
       \/ WriteEntry(c)
       \/ Hook(c)

Spec == Init /\ [][Next]_vars

-----------------------------------------------------------------------------

TypeOK ==
  /\ reg \in [Names -> DSNs \cup {None}]
  /\ level \in [Loggers -> Levels]
  /\ cpc \in [Callers -> {"idle", "writing", "hooking"}]
  /\ clog \in [Callers -> Loggers]
  /\ clvl \in [Callers -> Levels]
  /\ logs \in 0..MaxLogs
  /\ counter \in [Levels -> 0..MaxLogs]
  /\ traced \in [Paths -> Names \cup {None}]

\* No writer is left unowned: every writer NewFromDSN built for
\* AllocateLogger is the one the registry holds for that name, so a DoWrite
\* goroutine or rsyslog socket it holds stays reachable, and the test writer
\* testwriter.Get returns for a path is the writer of a registered logger
\* allocated with that path.  It is about the
\* order in AllocateLogger: the duplicate-name check comes before
\* sofawriter.NewFromDSN, and nothing after NewFromDSN fails.
WritersOwned ==
  /\ \A w \in writers : reg[w.owner] = w.dsn
  /\ \A p \in Paths :
       traced[p] # None => /\ reg[traced[p]] # None
                          /\ DSNPath[reg[traced[p]]] = p

=============================================================================
