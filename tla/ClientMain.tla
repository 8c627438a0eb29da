----------------------------- MODULE ClientMain -----------------------------
(***************************************************************************)
(* The client's main (client/main.cpp) with the guard of the terminal      *)
(* (common/utility/terminal_guard.h) and who holds whom in it.  One thread *)
(* makes everything and runs the handlers, under one try.                  *)
(***************************************************************************)
EXTENDS Lifetimes

VARIABLES
  terminal,  \* [is_tty, raw]: the mode of the terminal, which outlives the process
  active,    \* TerminalGuard::active_
  signalled  \* a signal has come that the signal set keeps

guardVars == <<terminal, active>>
clientVars == <<lifeVars, loggerVars, guardVars, signalled>>

ClientLog(severities) == LoggerBecomes(Logged(LoggerNow, severities))

ClientOrder ==
  <<"settings", "logger", "io_context", "signals", "client", "client_controller",
    "terminal_guard", "stdin_reader", "keyboard_reader",
    "waiting", "receiving", "reading", "polling", "connecting">>

ClientInit ==
  /\ LifetimesInit("client")
  /\ terminal \in [is_tty: BOOLEAN, raw: {FALSE}]
  /\ active = FALSE
  /\ signalled = FALSE

-----------------------------------------------------------------------------
\* TerminalGuard.  Input that is no terminal is left alone.
ChangeMode == active' = terminal.is_tty /\ terminal' = [terminal EXCEPT !.raw = terminal.is_tty]
Restore == active' = FALSE /\ terminal' = [terminal EXCEPT !.raw = IF active THEN FALSE ELSE @]

\* What goes with an object: the guard restores the mode.
Goes(gone) == IF "terminal_guard" \in gone THEN Restore ELSE UNCHANGED guardVars

-----------------------------------------------------------------------------
\* main, step by step.

LoadClientSettings ==
  /\ Step(ClientOrder, "settings") /\ HoldNothing
  /\ UNCHANGED <<io, loggerVars, guardVars, signalled>>

InitializeClientLogger ==
  /\ Step(ClientOrder, "logger") /\ HoldNothing
  /\ LoggerBecomes(InitializeLogger(LoggerNow))
  /\ UNCHANGED <<io, guardVars, signalled>>

MakeClientIo ==
  /\ Step(ClientOrder, "io_context") /\ HoldNothing
  /\ io' = "made"
  /\ UNCHANGED <<loggerVars, guardVars, signalled>>

RegisterSignals ==
  /\ Step(ClientOrder, "signals") /\ HoldNothing
  /\ UNCHANGED <<io, loggerVars, guardVars, signalled>>

\* The controller is made with the client; the others are on their own.
ClientHolds == [client |-> {}, client_controller |-> {"client"}, stdin_reader |-> {}, keyboard_reader |-> {}]

MakeClientObject ==
  /\ \E object \in DOMAIN ClientHolds :
       /\ Step(ClientOrder, object)
       /\ Gain(object, ClientHolds[object], {"main"})
  /\ UNCHANGED <<io, loggerVars, guardVars, signalled>>

MakeTerminalGuard ==
  /\ Step(ClientOrder, "terminal_guard")
  /\ Gain("terminal_guard", {}, {"main"})
  /\ ChangeMode
  /\ UNCHANGED <<io, loggerVars, signalled>>

\* What main connects: the handler of the signals and the callbacks of the
\* client and the readers, with what they capture.
Captures ==
  [waiting |-> {<<"on_signal", "terminal_guard">>, <<"on_signal", "stdin_reader">>,
                <<"on_signal", "keyboard_reader">>},
   receiving |-> {<<"client", "client_controller">>},
   reading |-> {<<"stdin_reader", "client_controller">>, <<"on_line", "stdin_reader">>},
   polling |-> {<<"keyboard_reader", "client_controller">>, <<"on_poll", "keyboard_reader">>},
   connecting |-> {<<"on_network", "client">>}]

Connect ==
  /\ \E step \in DOMAIN Captures :
       /\ Step(ClientOrder, step)
       /\ Hold(Captures[step])
       /\ ClientLog(IF step = "connecting" THEN {"info"} ELSE {})
  /\ UNCHANGED <<io, guardVars, signalled>>

ClientThrows ==
  /\ Throw(ClientOrder)
  /\ UNCHANGED <<loggerVars, guardVars, signalled>>

Run ==
  /\ at = "starting" /\ built = ClientOrder
  /\ at' = "running"
  /\ UNCHANGED <<process, built, threw, refs, alive, io, late, loggerVars, guardVars, signalled>>

RunReturns ==
  /\ process = "client" /\ at = "running" /\ io = "stopped"
  /\ at' = "leaving"
  /\ UNCHANGED <<process, built, threw, refs, alive, io, late, loggerVars, guardVars, signalled>>

ClientLeaves ==
  /\ process = "client"
  /\ DropHandlers \/ Unbuild
  /\ Goes(alive \ alive')
  /\ UNCHANGED <<loggerVars, signalled>>

\* The logger is reset as soon as run() returns.
LastWordsSlip(l) == IF threw THEN Logged(l, {"error"}) ELSE Logged(ResetLogger(l), {"info"})

\* What main writes last, and what it does with the logger.
LastWords(l) == IF threw THEN Logged(l, {"error"}) ELSE ResetLogger(Logged(l, {"info"}))

ClientReturns ==
  /\ process = "client"
  /\ at = "leaving" /\ built = <<>>
  /\ at' = "returned"
  /\ LoggerBecomes(LastWords(LoggerNow))
  /\ UNCHANGED <<process, built, threw, refs, alive, io, late, guardVars, signalled>>

-----------------------------------------------------------------------------
\* A signal waits in the signal set until its handler can run.
SignalComes ==
  /\ process = "client" /\ Done("signals") /\ at \in {"starting", "running"} /\ ~signalled
  /\ signalled' = TRUE
  /\ UNCHANGED <<lifeVars, loggerVars, guardVars>>

Running == process = "client" /\ at = "running" /\ io = "made"

Interrupt ==
  /\ Running /\ signalled
  /\ io' = "stopped"
  /\ Restore
  /\ Release({e \in refs : e[1] = "on_signal"})
  /\ ClientLog({"info"})
  /\ UNCHANGED <<process, at, built, threw, signalled>>

\* A handler that is not armed again: the end of the input, a lost connection.
HandlerEnds ==
  /\ Running
  /\ \E handler \in {"on_line", "on_network"} :
       /\ \E e \in refs : e[1] = handler
       /\ Release({e \in refs : e[1] = handler})
       /\ ClientLog(IF handler = "on_network" THEN {"error"} ELSE {})
  /\ UNCHANGED <<process, at, built, threw, io, guardVars, signalled>>

HandlerThrows ==
  /\ Running
  /\ \E handler \in {"on_line", "on_poll", "on_network"} :
       /\ \E e \in refs : e[1] = handler
       /\ Release({e \in refs : e[1] = handler})
  /\ at' = "leaving" /\ threw' = TRUE
  /\ UNCHANGED <<process, built, io, loggerVars, guardVars, signalled>>

ClientNext ==
  \/ process = "client" /\ (\/ LoadClientSettings \/ InitializeClientLogger \/ MakeClientIo \/ RegisterSignals
                            \/ MakeClientObject \/ MakeTerminalGuard \/ Connect \/ ClientThrows \/ Run)
  \/ RunReturns \/ ClientLeaves \/ ClientReturns
  \/ SignalComes \/ Interrupt \/ HandlerEnds \/ HandlerThrows

ClientStep == ClientNext \/ (process = "client" /\ Beneath /\ UNCHANGED <<guardVars, signalled>>)

\* The client as a specification of its own.
ClientSpec == ClientInit /\ LoggerInit /\ [][ClientStep]_clientVars

(***************************************************************************)
(* However main is left, by a signal or because any step or handler threw, *)
(* the terminal echoes again: the guard is held by main and by a handler.  *)
(* And when nothing threw, the process gets through its end and no record  *)
(* is lost: main logs, then resets, and the logger's static flag lets it   *)
(* be flushed only once (client/main.cpp:16-88, logger.cpp:149-180).       *)
(* After an exception nothing is said of the records: see Destroyed.       *)
(***************************************************************************)
LeavesInOrder ==
  process = "client" /\ at \in {"exited", "terminated"} =>
    /\ ~terminal.raw
    /\ ~threw => at = "exited" /\ ~lost

=============================================================================
