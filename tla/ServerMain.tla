----------------------------- MODULE ServerMain -----------------------------
(***************************************************************************)
(* The server's main (server/main.cpp), its game loop (core/game_loop.h)   *)
(* and who holds whom in it.  What the managers do is in other modules;    *)
(* here a handler is what it holds and what it logs.  Of the sessions      *)
(* there is one at a time.                                                 *)
(***************************************************************************)
EXTENDS Lifetimes

CONSTANT MaxErrors  \* bound: errors of the timer

VARIABLES
  timer,    \* GameLoop::timer_: "idle", "waiting", or a queued handler, "due", "failed"
  stopped,  \* GameLoop::stopped_
  errors    \* errors of the timer so far

loopVars == <<timer, stopped, errors>>
serverVars == <<lifeVars, loggerVars, loopVars>>

Log(severities) == LoggerBecomes(Logged(LoggerNow, severities))

ServerOrder ==
  <<"settings", "logger", "event_bus", "session_registry", "lobby_registry", "dungeon_registry",
    "io_context", "connection_manager", "game_manager", "lobby_manager", "message_router",
    "response_sender", "server", "game_loop", "listening", "ticking", "signals", "thread_1", "thread_2">>

ServerInit ==
  /\ LifetimesInit("server")
  /\ timer = "idle" /\ stopped = FALSE /\ errors = 0

-----------------------------------------------------------------------------
\* main, step by step.

LoadServerSettings ==
  /\ Step(ServerOrder, "settings") /\ HoldNothing /\ UNCHANGED <<io, loggerVars, loopVars>>

InitializeServerLogger ==
  /\ Step(ServerOrder, "logger") /\ HoldNothing
  /\ LoggerBecomes(Logged(InitializeLogger(LoggerNow), {"info"}))
  /\ UNCHANGED <<io, loopVars>>

\* What each object that main makes holds.
Holds ==
  [event_bus |-> {}, session_registry |-> {}, lobby_registry |-> {}, dungeon_registry |-> {},
   connection_manager |-> {"event_bus", "session_registry"},
   game_manager |-> {"event_bus", "lobby_registry"},
   lobby_manager |-> {"event_bus", "lobby_registry"},
   message_router |-> {"event_bus", "session_registry"},
   response_sender |-> {"event_bus", "session_registry"},
   server |-> {"event_bus"},
   game_loop |-> {"event_bus"}]

SubscriberSlip(object) == {}
\* Everybody subscribes with a weak pointer but the router: the bus holds it.
Subscriber(object) == IF object = "message_router" THEN {"event_bus"} ELSE {}

MakeObject ==
  /\ \E object \in DOMAIN Holds :
       /\ Step(ServerOrder, object)
       /\ Gain(object, Holds[object], {"main"} \cup Subscriber(object))
  /\ UNCHANGED <<io, loggerVars, loopVars>>

MakeServerIo ==
  /\ Step(ServerOrder, "io_context") /\ HoldNothing
  /\ io' = "made"
  /\ UNCHANGED <<loggerVars, loopVars>>

\* server->start(): the accept handler holds the server weakly.
Listen ==
  /\ Step(ServerOrder, "listening") /\ HoldNothing
  /\ Log({"info"})
  /\ UNCHANGED <<io, loopVars>>

StartGameLoop ==
  /\ Step(ServerOrder, "ticking")
  /\ Hold({<<"on_tick", "game_loop">>})
  /\ stopped' = FALSE /\ timer' = "waiting"
  /\ Log({"info"})
  /\ UNCHANGED <<io, errors>>

\* The handler has references to main's locals and holds nothing.
WaitForSignals ==
  /\ Step(ServerOrder, "signals") /\ HoldNothing
  /\ Log({"info"})
  /\ UNCHANGED <<io, loopVars>>

StartThread ==
  /\ \E thread \in {"thread_1", "thread_2"} : Step(ServerOrder, thread)
  /\ HoldNothing
  /\ UNCHANGED <<io, loggerVars, loopVars>>

\* The vector of threads is destroyed with a thread in it: std::terminate.
ThreadThrows ==
  /\ at = "starting" /\ Done("thread_1") /\ ~Done("thread_2")
  /\ at' = "terminated"
  /\ UNCHANGED <<process, built, threw, refs, alive, io, late, loggerVars, loopVars>>

ServerThrows ==
  /\ ~Done("thread_1")
  /\ Throw(ServerOrder)
  /\ UNCHANGED <<loggerVars, loopVars>>

Join ==
  /\ at = "starting" /\ built = ServerOrder
  /\ at' = "joining"
  /\ UNCHANGED <<process, built, threw, refs, alive, io, late, loggerVars, loopVars>>

Joined ==
  /\ at = "joining" /\ io = "stopped"
  /\ at' = "leaving"
  /\ Log({"info"})
  /\ UNCHANGED <<process, built, threw, refs, alive, io, late, loopVars>>

\* Main's locals go; ~GameLoop stops the loop, and it and ~Session log.
ServerLeaves ==
  /\ process = "server"
  /\ DropHandlers \/ Unbuild
  /\ LET gone == alive \ alive' IN
     /\ Log(IF gone \cap {"game_loop", "session"} # {} THEN {"info"} ELSE {})
     /\ stopped' = (stopped \/ "game_loop" \in gone)
     /\ timer' = IF "game_loop" \in gone THEN "idle" ELSE timer
  /\ UNCHANGED errors

ServerReturns ==
  /\ process = "server"
  /\ at = "leaving" /\ built = <<>>
  /\ at' = "returned"
  /\ Log(IF threw THEN {"error"} ELSE {})
  /\ UNCHANGED <<process, built, threw, refs, alive, io, late, loopVars>>

-----------------------------------------------------------------------------
\* The handlers, in the worker threads.

Serving == process = "server" /\ at \in {"starting", "joining"} /\ Done("thread_1") /\ io = "made"

Handling == Serving /\ UNCHANGED <<process, at, built, threw>>

ScheduleTickSlip ==
  IF stopped \/ timer = "failed"
  THEN timer' = "idle" /\ Release({<<"on_tick", "game_loop">>})
  ELSE timer' = "waiting" /\ HoldNothing

\* scheduleTick, which a handler after stop() does not come to.
ScheduleTick ==
  IF stopped
  THEN timer' = "idle" /\ Release({<<"on_tick", "game_loop">>})
  ELSE timer' = "waiting" /\ HoldNothing

\* The time comes whether a thread runs the io_context or not.
TimerExpires ==
  /\ process = "server" /\ io \in {"made", "stopped"} /\ timer = "waiting"
  /\ timer' = "due"
  /\ UNCHANGED <<lifeVars, loggerVars, stopped, errors>>

TimerFails ==
  /\ process = "server" /\ io \in {"made", "stopped"} /\ timer = "waiting" /\ errors < MaxErrors
  /\ timer' = "failed" /\ errors' = errors + 1
  /\ UNCHANGED <<lifeVars, loggerVars, stopped>>

PublishTick ==
  /\ Handling /\ timer = "due"
  /\ ScheduleTick
  /\ Log(IF stopped THEN {} ELSE {"info"})
  /\ UNCHANGED <<io, stopped, errors>>

RescheduleAnyway ==
  /\ Handling /\ timer = "failed"
  /\ ScheduleTick
  /\ Log(IF stopped THEN {} ELSE {"error"})
  /\ UNCHANGED <<io, stopped, errors>>

\* The session's handlers hold it, and the registry does as long as it is open.
AcceptClient ==
  /\ Handling /\ Done("listening") /\ "session" \notin alive
  /\ Gain("session", {}, {"session_registry", "on_session"})
  /\ Log({"info"})
  /\ UNCHANGED <<io, loopVars>>

AcceptFails ==
  /\ Handling /\ HoldNothing
  /\ Log({"error"})
  /\ UNCHANGED <<io, loopVars>>

CloseSession ==
  /\ Handling /\ <<"session_registry", "session">> \in refs
  /\ Release({<<"session_registry", "session">>})
  /\ Log({"info"})
  /\ UNCHANGED <<io, loopVars>>

LastSessionHandler ==
  /\ Handling /\ "session" \in alive /\ <<"session_registry", "session">> \notin refs
  /\ Release({<<"on_session", "session">>})
  /\ Log({"info"})
  /\ UNCHANGED <<io, loopVars>>

\* GameManager::postEvent gives the bus to a handler.
PostEvent ==
  /\ Handling
  /\ Hold({<<"on_posted", "event_bus">>})
  /\ UNCHANGED <<io, loggerVars, loopVars>>

RunPosted ==
  /\ Handling /\ <<"on_posted", "event_bus">> \in refs
  /\ Release({<<"on_posted", "event_bus">>})
  /\ UNCHANGED <<io, loggerVars, loopVars>>

StopServer ==
  /\ Handling /\ Done("signals") /\ HoldNothing
  /\ io' = "stopped"
  /\ Log({"info"})
  /\ UNCHANGED loopVars

ServerNext ==
  \/ process = "server" /\ (\/ LoadServerSettings \/ InitializeServerLogger \/ MakeObject \/ MakeServerIo
                            \/ Listen \/ StartGameLoop \/ WaitForSignals \/ StartThread
                            \/ ServerThrows \/ ThreadThrows \/ Join \/ Joined)
  \/ ServerLeaves \/ ServerReturns
  \/ TimerExpires \/ TimerFails \/ PublishTick \/ RescheduleAnyway
  \/ AcceptClient \/ AcceptFails \/ CloseSession \/ LastSessionHandler
  \/ PostEvent \/ RunPosted \/ StopServer

ServerStep == ServerNext \/ (process = "server" /\ Beneath /\ UNCHANGED loopVars)

\* The server as a specification of its own.
ServerSpec == ServerInit /\ LoggerInit /\ [][ServerStep]_serverVars

\* Time passes, and the threads run what is queued.
ServerFairness ==
  /\ WF_serverVars(TimerExpires)
  /\ WF_serverVars(PublishTick \/ RescheduleAnyway)

(***************************************************************************)
(* As long as the server serves, ticks keep coming: an error of the timer  *)
(* costs a tick and not the game (game_loop.h:55-83).                      *)
(***************************************************************************)
TicksKeepComing == <>[]Serving => []<><<PublishTick>>_serverVars

=============================================================================
