-------------------------------- MODULE Logger --------------------------------
(***************************************************************************)
(* The logger of a process (common/utility/logger.cpp).  Logger::Instance  *)
(* makes one at the first use; its sinks are added to the log core of the  *)
(* library, write what they get in threads of their own, and are flushed   *)
(* and removed by Shutdown, which a static flag lets work once in the life *)
(* of the process.                                                         *)
(*                                                                         *)
(* What a record says is left out: a sink is behind, or it is not.         *)
(***************************************************************************)
EXTENDS Naturals, FiniteSets

CONSTANTS LogDir,     \* what configured log directories are like
          LogLevel    \* configured levels

VARIABLES
  default_dir,       \* what ./logs is like
  log_config,        \* LogConfig: [dir, level]
  instance,          \* is there a Logger::instance_?
  sinks,             \* its sinks_
  attached,          \* the sinks of the log core
  behind,            \* those that have records to write
  already_shutdown,  \* Logger::Shutdown's static flag
  lost               \* history: did a sink end with records to write?

loggerVars == <<default_dir, log_config, instance, sinks, attached, behind, already_shutdown, lost>>

Severity == [debug |-> 0, info |-> 1, warning |-> 2, error |-> 3]

\* A directory that is there or can be made, and takes the test file.
IsLogDirValid(dir) ==
  /\ dir.named
  /\ dir.exists \/ dir.creatable
  /\ dir.exists => dir.is_directory
  /\ dir.writable

MainLevel(level) ==
  CASE level = "warn" -> Severity.warning
    [] level = "error" -> Severity.error
    [] OTHER -> Severity.info

\* The sinks of a new logger: a file in the configured directory or in ./logs,
\* a second file for "debug"; or the console.
SinksOf(config) ==
  LET main == MainLevel(config.level) IN
  IF IsLogDirValid(config.dir) \/ IsLogDirValid(default_dir)
  THEN {[to |-> "file", least |-> main]}
         \cup (IF config.level = "debug" THEN {[to |-> "debug file", least |-> Severity.debug]} ELSE {})
  ELSE {[to |-> "console", least |-> main]}

LoggerInit ==
  /\ default_dir \in LogDir
  /\ log_config \in [dir: LogDir, level: LogLevel]
  /\ instance = FALSE
  /\ sinks = {}
  /\ attached = {}
  /\ behind = {}
  /\ already_shutdown = FALSE
  /\ lost = FALSE

\* A state of the logger as a record, to say what becomes of it step by step.
LoggerNow == [instance |-> instance, sinks |-> sinks, attached |-> attached,
              behind |-> behind, already_shutdown |-> already_shutdown, lost |-> lost]

LoggerBecomes(l) ==
  /\ instance' = l.instance /\ sinks' = l.sinks /\ attached' = l.attached
  /\ behind' = l.behind /\ already_shutdown' = l.already_shutdown /\ lost' = l.lost
  /\ UNCHANGED <<default_dir, log_config>>

Made(l, config) ==
  IF l.instance THEN l
  ELSE [l EXCEPT !.instance = TRUE, !.sinks = SinksOf(config), !.attached = @ \cup SinksOf(config)]

InitializeLogger(l) == Made(l, log_config)

\* Instance() in LOG_INFO and its like: the default configuration if nobody
\* initialized it.
Logged(l, severities) ==
  LET made == IF severities = {} THEN l ELSE Made(l, [dir |-> default_dir, level |-> "info"]) IN
  [made EXCEPT !.behind =
     @ \cup {s \in made.attached : \E severity \in severities : Severity[severity] >= s.least}]

\* flush() waits for every sink of the core; only this logger's sinks go.
Shutdown(l) ==
  IF l.already_shutdown THEN [l EXCEPT !.sinks = {}]
  ELSE [l EXCEPT !.behind = {}, !.attached = @ \ l.sinks, !.sinks = {}, !.already_shutdown = TRUE]

ResetLogger(l) == IF l.instance THEN [Shutdown(l) EXCEPT !.instance = FALSE] ELSE l

\* The end of the process destroys what main made, the log core with it, before
\* instance_, which was there before main.  Without an instance, sinks that are
\* still attached end and do not write what they have; an instance that is left
\* is shut down over a core that is gone, and nothing is known of its records.
Destroyed(l) ==
  LET gone(lost_records) ==
        [l EXCEPT !.instance = FALSE, !.sinks = {}, !.attached = {}, !.lost = @ \/ lost_records]
      left == l.behind # {}
  IN IF l.instance THEN {gone(FALSE), gone(left)} ELSE {gone(left)}

\* The thread of a sink catches up.
SinkWrites(sink) ==
  /\ sink \in behind
  /\ behind' = behind \ {sink}
  /\ UNCHANGED <<default_dir, log_config, instance, sinks, attached, already_shutdown, lost>>

=============================================================================
