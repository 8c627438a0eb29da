------------------------------- MODULE Programs -------------------------------
(***************************************************************************)
(* The two programs as processes (ServerMain, ClientMain), and what they   *)
(* start with and are fed by: the settings (Settings) and the terminal     *)
(* (TerminalInput).  A behaviour is about one of them.                     *)
(***************************************************************************)
EXTENDS Settings, ServerMain, ClientMain, TerminalInput

CONSTANT Calls  \* sequences of the sources that initialize is called with

Sources == UNION {Range(calls) : calls \in Calls}

ASSUME CallsAssumption == Calls \subseteq Seq(Sources) /\ \A from \in Sources : from.doc \in Document

programVars == <<lifeVars, loggerVars, loopVars, guardVars, signalled>>
vars == <<programVars, settingsVars, inputVars>>

NoProgram(name) ==
  LifetimesInit(name) /\ timer = "idle" /\ stopped = FALSE /\ errors = 0
    /\ terminal = [is_tty |-> FALSE, raw |-> FALSE] /\ active = FALSE /\ signalled = FALSE

\* A logger that is not used.
NoLogger ==
  /\ default_dir = CHOOSE d \in LogDir : TRUE
  /\ log_config = [dir |-> default_dir, level |-> CHOOSE l \in LogLevel : TRUE]
  /\ instance = FALSE /\ sinks = {} /\ attached = {} /\ behind = {}
  /\ already_shutdown = FALSE /\ lost = FALSE

NoKeyboard ==
  /\ edge_triggered = FALSE /\ key_code_map = {} /\ prev_state = {} /\ running = FALSE
  /\ polling = FALSE /\ down = {} /\ presses = <<>> /\ polls = <<>>

Init ==
  \/ ServerInit /\ LoggerInit /\ SettingsInit(<<>>) /\ StdinInit(<<>>) /\ NoKeyboard
     /\ terminal = [is_tty |-> FALSE, raw |-> FALSE] /\ active = FALSE /\ signalled = FALSE
  \/ ClientInit /\ LoggerInit /\ SettingsInit(<<>>) /\ StdinInit(<<>>) /\ NoKeyboard
     /\ timer = "idle" /\ stopped = FALSE /\ errors = 0
  \/ NoProgram("settings") /\ NoLogger /\ StdinInit(<<>>) /\ NoKeyboard
     /\ \E calls \in Calls : SettingsInit(calls)
  \/ NoProgram("stdin") /\ NoLogger /\ SettingsInit(<<>>) /\ NoKeyboard
     /\ \E text \in Typed : StdinInit(text)
  \/ NoProgram("keyboard") /\ NoLogger /\ SettingsInit(<<>>) /\ StdinInit(<<>>) /\ KeyboardInit

Next ==
  \/ /\ \/ ServerStep /\ UNCHANGED <<guardVars, signalled>>
        \/ ClientStep /\ UNCHANGED loopVars
     /\ UNCHANGED <<settingsVars, inputVars>>
  \/ process = "settings" /\ InitializeSettings /\ UNCHANGED <<programVars, inputVars>>
  \/ process = "stdin" /\ StdinNext /\ UNCHANGED <<programVars, settingsVars>>
  \/ process = "keyboard" /\ KeyboardNext /\ UNCHANGED <<programVars, settingsVars>>

Spec == Init /\ [][Next]_vars /\ ServerFairness

=============================================================================
