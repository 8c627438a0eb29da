--------------------------- MODULE SessionRegistry ---------------------------
(***************************************************************************)
(* SessionRegistry (server/app/session_registry.cpp): which sessions the   *)
(* server knows and which player each of them speaks for.  Every method    *)
(* holds mutex_, so every operator here is one atomic call.                *)
(***************************************************************************)
EXTENDS Naturals

CONSTANTS
  Player,       \* the player ids clients may claim
  NoPlayer,
  MaxSessions   \* bound: how many connections a behaviour may accept

ASSUME PlayersAssumption == NoPlayer \notin Player
ASSUME SessionsBoundAssumption == MaxSessions \in Nat

\* TcpServer numbers sessions from a counter: an id is never used again.
SessionId == 1..MaxSessions
NoSession == 0

VARIABLES
  sessions,         \* keys of sessions_
  playerToSession,  \* player_to_session_, NoSession where it has no entry
  sessionToPlayer   \* session_to_player_, NoPlayer where it has no entry

sessionRegistry == <<sessions, playerToSession, sessionToPlayer>>

SessionRegistryTypeOK ==
  /\ sessions \subseteq SessionId
  /\ playerToSession \in [Player -> SessionId \cup {NoSession}]
  /\ sessionToPlayer \in [SessionId -> Player \cup {NoPlayer}]

SessionRegistryInit ==
  /\ sessions = {}
  /\ playerToSession = [p \in Player |-> NoSession]
  /\ sessionToPlayer = [s \in SessionId |-> NoPlayer]

AddSession(s) ==
  /\ sessions' = sessions \cup {s}
  /\ UNCHANGED <<playerToSession, sessionToPlayer>>

\* Slip: the player's entry outlives its session.
RemoveSessionOnly(s) ==
  /\ sessions' = sessions \ {s}
  /\ sessionToPlayer' = [sessionToPlayer EXCEPT ![s] = NoPlayer]
  /\ UNCHANGED playerToSession

\* The entry of the session's player goes too, whichever session it names.
RemoveSession(s) ==
  /\ sessions' = sessions \ {s}
  /\ IF s \in sessions
       THEN /\ playerToSession' = [p \in Player |-> IF p = sessionToPlayer[s] THEN NoSession
                                                    ELSE playerToSession[p]]
            /\ sessionToPlayer' = [sessionToPlayer EXCEPT ![s] = NoPlayer]
       ELSE UNCHANGED <<playerToSession, sessionToPlayer>>

\* Slip: any session will do.
CanBindAny(s) == TRUE

CanBind(s) == s \in sessions

\* Slip: the entries are assigned, not emplaced.
OverwriteBinding(p, s) ==
  /\ playerToSession' = [playerToSession EXCEPT ![p] = s]
  /\ sessionToPlayer' = [sessionToPlayer EXCEPT ![s] = p]
  /\ UNCHANGED sessions

\* Both entries are emplaced: one that is there already stays as it is, and the
\* call returns true all the same.
BindPlayerToSession(p, s) ==
  /\ playerToSession' = [playerToSession EXCEPT ![p] = IF @ = NoSession THEN s ELSE @]
  /\ sessionToPlayer' = [sessionToPlayer EXCEPT ![s] = IF @ = NoPlayer THEN p ELSE @]
  /\ UNCHANGED sessions

\* findSessionByPlayerId
SessionOfPlayer(p) ==
  IF playerToSession[p] \in sessions THEN playerToSession[p] ELSE NoSession

=============================================================================
