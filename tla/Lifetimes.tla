------------------------------ MODULE Lifetimes ------------------------------
(***************************************************************************)
(* A program of this repository from the first line of its main to the end *)
(* of its process: main makes its objects one after the other, any of      *)
(* these steps may throw, and the objects go in the reverse order.  Most   *)
(* are counted by shared_ptr: they go when the last holder does, main, a   *)
(* handler that the io_context has, or another object.                     *)
(*                                                                         *)
(* The io_context goes in two steps (Boost.Asio): it drops its handlers    *)
(* with what they hold, then it is gone, and whatever uses its services    *)
(* must be gone too.                                                       *)
(***************************************************************************)
EXTENDS Logger, Sequences

VARIABLES
  process,  \* which program, or which part on its own
  at,       \* where main is
  built,    \* the steps main has done and not undone, as in the code
  threw,    \* is main leaving because a step or a handler threw?
  refs,     \* who holds what: <<holder, object>>
  alive,    \* the counted objects
  io,       \* "none", "made", "stopped", "dropped" (its handlers), "gone"
  late      \* history: objects destroyed after the io_context

lifeVars == <<process, at, built, threw, refs, alive, io, late>>

\* The handlers that the io_context has, by what they wait for.
Handler == {"on_tick", "on_session", "on_posted", "on_signal", "on_line", "on_poll", "on_network"}

Root == {"main"} \cup Handler

LifetimesInit(program) ==
  /\ process = program
  /\ at = "starting"
  /\ built = <<>>
  /\ threw = FALSE
  /\ refs = {}
  /\ alive = {}
  /\ io = "none"
  /\ late = {}

\* The objects that still have a holder: those that a root holds, and those
\* that hold each other or are held by the first; a cycle keeps itself.
Held(objects, edges) ==
  LET rooted == {o \in objects : \E e \in edges : e[2] = o /\ e[1] \in Root} IN
  {o \in objects : \E kept \in SUBSET (objects \ rooted) :
     /\ o \in rooted \cup kept
     /\ \A k \in kept : \E e \in edges : e[2] = k /\ e[1] \in rooted \cup kept}

\* The edges in "dropped" go, and so does all that nobody holds then.
Release(dropped) ==
  /\ alive' = Held(alive, refs \ dropped)
  /\ refs' = {e \in refs \ dropped : e[1] \in alive' \cup Root}
  /\ late' = IF io = "gone" THEN late \cup (alive \ alive') ELSE late

\* An object is made by main, with what it holds and who else holds it.
Gain(object, holds, holders) ==
  /\ alive' = alive \cup {object}
  /\ refs' = refs \cup {<<object, h>> : h \in holds} \cup {<<h, object>> : h \in holders}
  /\ UNCHANGED late

\* Handlers, or objects that are there already, come to hold something.
Hold(edges) ==
  /\ refs' = refs \cup edges
  /\ UNCHANGED <<alive, late>>

HoldNothing == UNCHANGED <<refs, alive, late>>

Done(step) == \E i \in DOMAIN built : built[i] = step

\* The next step of main, in its order.
Step(order, step) ==
  /\ at = "starting" /\ ~threw
  /\ Len(built) < Len(order)
  /\ step = order[Len(built) + 1]
  /\ built' = Append(built, step)
  /\ UNCHANGED <<process, at, threw>>

\* The next step throws and leaves nothing behind.
Throw(order) ==
  /\ at = "starting" /\ Len(built) < Len(order)
  /\ at' = "leaving" /\ threw' = TRUE
  /\ UNCHANGED <<process, built, refs, alive, io, late>>

\* The last thing that is built goes; of the io_context, first the handlers.
DropHandlers ==
  /\ at = "leaving" /\ built # <<>> /\ built[Len(built)] = "io_context" /\ io # "dropped"
  /\ io' = "dropped"
  /\ Release({e \in refs : e[1] \in Handler})
  /\ UNCHANGED <<process, at, built, threw>>

Unbuild ==
  /\ at = "leaving" /\ built # <<>>
  /\ LET last == built[Len(built)] IN
     /\ last = "io_context" => io = "dropped"
     /\ io' = IF last = "io_context" THEN "gone" ELSE io
     /\ Release({<<"main", last>>})
  /\ built' = SubSeq(built, 1, Len(built) - 1)
  /\ UNCHANGED <<process, at, threw>>

\* What a logger that is left does is undefined: the process may not get through.
Exit ==
  /\ at = "returned"
  /\ at' \in {"exited"} \cup (IF instance THEN {"terminated"} ELSE {})
  /\ \E l \in Destroyed(LoggerNow) : LoggerBecomes(l)
  /\ UNCHANGED <<process, built, threw, refs, alive, io, late>>

\* What goes on without main: the threads of the sinks, and the process's end.
Beneath ==
  \/ Exit
  \/ \E sink \in behind : SinkWrites(sink) /\ UNCHANGED lifeVars

-----------------------------------------------------------------------------
(***************************************************************************)
(* Nothing that uses the services of an io_context is destroyed after it:  *)
(* sockets, timers, strands and descriptors reach into those services when *)
(* they go (server/main.cpp:26-97, client/main.cpp:16-88).  In the server  *)
(* the session registry is declared before the io_context and holds the    *)
(* sessions; it outlives it only because the router's subscription holds   *)
(* the router, which holds the registry and the bus.                       *)
(***************************************************************************)
IoUser == {"game_manager", "lobby_manager", "server", "game_loop", "session",
           "client", "stdin_reader", "keyboard_reader"}

IoOutlivesItsUsers == late \cap IoUser = {}

=============================================================================
