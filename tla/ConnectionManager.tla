-------------------------- MODULE ConnectionManager --------------------------
(***************************************************************************)
(* ConnectionManager (server/app/connection_manager.cpp), called by the    *)
(* event bus on the strand of the session an event is about.               *)
(*                                                                         *)
(* One handler is one step.  The disconnect and reconnect handlers hold    *)
(* mtx_, which alone guards disconnected_players_; of what the handlers    *)
(* read in the registry before their one write, session_to_player_ of      *)
(* their own session, nobody else writes it.  So each behaves as if it     *)
(* happened at its call of removeSessionBySessionId or bindPlayerToSession.*)
(* The response is looked up and sent afterwards, in a step of its own.    *)
(***************************************************************************)
EXTENDS SessionRegistry

VARIABLE disconnected  \* disconnected_players_: none, or whether the entry's age
                       \* has passed client_disconnect_timeout

ConnectionManagerTypeOK == disconnected \in [Player -> {"none", "waiting", "expired"}]

ConnectionManagerInit == disconnected = [p \in Player |-> "none"]

HandleClientConnected(s) == AddSession(s) /\ UNCHANGED disconnected

HandleClientDisconnected(s) ==
  /\ disconnected' = [p \in Player |-> IF p = sessionToPlayer[s] THEN "waiting" ELSE disconnected[p]]
  /\ RemoveSession(s)

HandlePlayerAuthRequested(p, s) ==
  /\ IF CanBind(s) THEN BindPlayerToSession(p, s) ELSE UNCHANGED sessionRegistry
  /\ UNCHANGED disconnected

CanReconnect(p, s) == disconnected[p] = "waiting" /\ CanBind(s)

\* Slip: the entry is kept after a successful reconnection.
ReconnectKeepingEntry(p, s) ==
  /\ IF CanReconnect(p, s) THEN BindPlayerToSession(p, s) ELSE UNCHANGED sessionRegistry
  /\ UNCHANGED disconnected

\* The entry goes in every case, a failed attempt included.
HandlePlayerReconnectRequested(p, s) ==
  /\ IF CanReconnect(p, s) THEN BindPlayerToSession(p, s) ELSE UNCHANGED sessionRegistry
  /\ disconnected' = [disconnected EXCEPT ![p] = "none"]

\* Time passes: the next comparison of the entry's age will find it too old.
DisconnectTimeout(p) ==
  /\ disconnected[p] = "waiting"
  /\ disconnected' = [disconnected EXCEPT ![p] = "expired"]
  /\ UNCHANGED sessionRegistry

=============================================================================
