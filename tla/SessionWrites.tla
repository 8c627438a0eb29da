----------------------------- MODULE SessionWrites -----------------------------
(***************************************************************************)
(* What a Session (server/network/session.cpp) writes, and the broadcast   *)
(* of game states (ResponseSender::onGameStateUpdate) that writes to all.  *)
(*                                                                         *)
(* Everything a session does it does on its strand: tasks is the strand's  *)
(* queue, of work posted by other strands and of completions of its reads  *)
(* and writes.  async_write is external: it hands a frame to the network   *)
(* part by part, and when a second one is begun before the first is        *)
(* complete nothing says whose part goes next.                             *)
(***************************************************************************)
EXTENDS Integers, Sequences, FiniteSets

CONSTANTS
  Session,
  Parts,           \* how many pieces the network may cut a frame into
  MaxSends,        \* bound: messages handed to one session
  MaxUpdates       \* bound: game states broadcast

ASSUME WritesAssumption == IsFiniteSet(Session) /\ Parts \in Nat \ {0} /\ MaxSends \in Nat /\ MaxUpdates \in Nat

\* The body of a message: a response, a game state, or what is left of a
\* buffer that has been moved from.
Body == {"response", "state", "movedFrom"}
Outgoing == [nr : Nat \ {0}, body : Body]
NoMessage == [nr |-> 0, body |-> "response"]

TaskKind == {"send", "disconnect", "readDone", "readFailed", "writeDone", "writeFailed"}
Task == [do : TaskKind, msg : Outgoing \cup {NoMessage}]
Write == [msg : Outgoing, next : 1..Parts]

VARIABLES
  state,       \* state_, and with it whether the socket is open
  writeQueue,  \* write_queue_
  tasks,       \* what waits on strand_
  reading,     \* an async_read_some is under way
  writes,      \* the async_writes under way, with the part each writes next
  updated,     \* the sessions a running broadcast has still to send to
  gameState,   \* the buffer of the latest broadcast
  (* history variables *)
  handed,      \* how many messages send was called with
  accepted,    \* the numbers of those a connected session took
  wire,        \* number and part of all the peer was sent
  announced,   \* how often ClientDisconnectedEvent was published
  updates      \* how many broadcasts have begun

session == <<state, writeQueue, tasks, reading, writes, handed, accepted, wire, announced>>
broadcast == <<updated, gameState, updates>>
vars == <<session, broadcast>>

TypeOK ==
  /\ state \in [Session -> {"Connected", "Disconnected"}]
  /\ writeQueue \in [Session -> Seq(Outgoing)]
  /\ tasks \in [Session -> Seq(Task)]
  /\ reading \in [Session -> BOOLEAN]
  /\ writes \in [Session -> SUBSET Write]
  /\ updated \subseteq Session
  /\ gameState \in {"state", "movedFrom"}
  /\ handed \in [Session -> Nat]
  /\ accepted \in [Session -> SUBSET (Nat \ {0})]
  /\ wire \in [Session -> Seq((Nat \ {0}) \X (1..Parts))]
  /\ announced \in [Session -> {0, 1}]
  /\ updates \in Nat

\* Session::start has posted the first read.
Init ==
  /\ state = [s \in Session |-> "Connected"]
  /\ writeQueue = [s \in Session |-> <<>>]
  /\ tasks = [s \in Session |-> <<>>]
  /\ reading = [s \in Session |-> TRUE]
  /\ writes = [s \in Session |-> {}]
  /\ updated = {} /\ gameState = "state" /\ updates = 0
  /\ handed = [s \in Session |-> 0]
  /\ accepted = [s \in Session |-> {}]
  /\ wire = [s \in Session |-> <<>>]
  /\ announced = [s \in Session |-> 0]

--------------------------------------------------------------------------------
(* Pieces of the handlers *)

Job(kind) == [do |-> kind, msg |-> NoMessage]
NextMessage(s, body) == [nr |-> handed[s] + 1, body |-> body]

\* Somebody on another strand calls send: dispatch queues it.
PostSend(s, body) ==
  /\ handed[s] < MaxSends     \* bound
  /\ handed' = [handed EXCEPT ![s] = @ + 1]
  /\ tasks' = [tasks EXCEPT ![s] = Append(@, [do |-> "send", msg |-> NextMessage(s, body)])]
  /\ UNCHANGED <<state, writeQueue, reading, writes, accepted, wire, announced>>

StartWrite(s, m) == writes' = [writes EXCEPT ![s] = @ \cup {[msg |-> m, next |-> 1]}]

\* Slip: the queue is asked after the message is in it.
SendQueued(s, m) ==
  IF state[s] # "Connected" THEN UNCHANGED <<writeQueue, writes, accepted>> ELSE
  /\ accepted' = [accepted EXCEPT ![s] = @ \cup {m.nr}]
  /\ writeQueue' = [writeQueue EXCEPT ![s] = Append(@, m)]
  /\ UNCHANGED writes

\* Slip: nobody asks whether the session is connected.
SendToAnyone(s, m) ==
  /\ accepted' = [accepted EXCEPT ![s] = @ \cup {m.nr}]
  /\ StartWrite(s, m)
  /\ UNCHANGED writeQueue

\* The body of send, on the strand.  doWrite takes the message out of the queue
\* when its write begins, so the queue is empty while it is written.
Send(s, m) ==
  IF state[s] # "Connected" THEN UNCHANGED <<writeQueue, writes, accepted>> ELSE
  /\ accepted' = [accepted EXCEPT ![s] = @ \cup {m.nr}]
  /\ IF writeQueue[s] = <<>>
       THEN StartWrite(s, m) /\ UNCHANGED writeQueue
       ELSE writeQueue' = [writeQueue EXCEPT ![s] = Append(@, m)] /\ UNCHANGED writes

\* doDisconnect.  Closing the socket ends what is under way: the handlers are
\* called with an error, after the tasks that wait already.
DoDisconnect(s, rest) ==
  IF state[s] = "Disconnected"
    THEN tasks' = [tasks EXCEPT ![s] = rest] /\ UNCHANGED <<state, writeQueue, reading, writes, announced>>
    ELSE /\ state' = [state EXCEPT ![s] = "Disconnected"]
         /\ writeQueue' = [writeQueue EXCEPT ![s] = <<>>]
         /\ tasks' = [tasks EXCEPT ![s] =
                        rest \o (IF reading[s] THEN <<Job("readFailed")>> ELSE <<>>)
                             \o [i \in 1..Cardinality(writes[s]) |-> Job("writeFailed")]]
         /\ reading' = [reading EXCEPT ![s] = FALSE]
         /\ writes' = [writes EXCEPT ![s] = {}]
         /\ announced' = [announced EXCEPT ![s] = @ + 1]

--------------------------------------------------------------------------------
(* What the strand runs *)

Turn(s, kind) == tasks[s] # <<>> /\ Head(tasks[s]).do = kind
Rest(s) == Tail(tasks[s])
TurnOver(s) == tasks' = [tasks EXCEPT ![s] = Rest(s)]

RunSend(s) ==
  /\ Turn(s, "send") /\ TurnOver(s)
  /\ Send(s, Head(tasks[s]).msg)
  /\ UNCHANGED <<state, reading, handed, wire, announced, broadcast>>

RunDisconnect(s) ==
  /\ \E kind \in {"disconnect", "readFailed", "writeFailed"} : Turn(s, kind)
  /\ DoDisconnect(s, Rest(s))
  /\ UNCHANGED <<handed, accepted, wire, broadcast>>

\* A read brought a message; its response, if this strand sends it (JOIN and
\* RECONNECT are answered here), is sent before the next read.
RunRead(s) ==
  /\ Turn(s, "readDone") /\ TurnOver(s)
  /\ \/ /\ handed[s] < MaxSends     \* bound
        /\ handed' = [handed EXCEPT ![s] = @ + 1]
        /\ Send(s, NextMessage(s, "response"))
     \/ UNCHANGED <<handed, writeQueue, writes, accepted>>
  /\ reading' = [reading EXCEPT ![s] = state[s] = "Connected"]
  /\ UNCHANGED <<state, wire, announced, broadcast>>

RunWritten(s) ==
  /\ Turn(s, "writeDone") /\ TurnOver(s)
  /\ IF writeQueue[s] # <<>>
       THEN StartWrite(s, Head(writeQueue[s])) /\ writeQueue' = [writeQueue EXCEPT ![s] = Tail(@)]
       ELSE UNCHANGED <<writes, writeQueue>>
  /\ UNCHANGED <<state, reading, handed, accepted, wire, announced, broadcast>>

--------------------------------------------------------------------------------
(* The network, and the callers *)

\* Slip: async_write_some in the place of async_write.
TransferSome(s, w) ==
  /\ w \in writes[s]
  /\ wire' = [wire EXCEPT ![s] = Append(@, <<w.msg.nr, w.next>>)]
  /\ writes' = [writes EXCEPT ![s] = @ \ {w}]
  /\ tasks' = [tasks EXCEPT ![s] = Append(@, Job("writeDone"))]
  /\ UNCHANGED <<state, writeQueue, reading, handed, accepted, announced, broadcast>>

\* async_write calls its handler when the whole frame is written.
Transfer(s, w) ==
  /\ w \in writes[s]
  /\ wire' = [wire EXCEPT ![s] = Append(@, <<w.msg.nr, w.next>>)]
  /\ IF w.next = Parts
       THEN /\ writes' = [writes EXCEPT ![s] = @ \ {w}]
            /\ tasks' = [tasks EXCEPT ![s] = Append(@, Job("writeDone"))]
       ELSE /\ writes' = [writes EXCEPT ![s] = (@ \ {w}) \cup {[w EXCEPT !.next = @ + 1]}]
            /\ UNCHANGED tasks
  /\ UNCHANGED <<state, writeQueue, reading, handed, accepted, announced, broadcast>>

WriteBreaks(s, w) ==
  /\ w \in writes[s]
  /\ writes' = [writes EXCEPT ![s] = @ \ {w}]
  /\ tasks' = [tasks EXCEPT ![s] = Append(@, Job("writeFailed"))]
  /\ UNCHANGED <<state, writeQueue, reading, handed, accepted, wire, announced, broadcast>>

ReadEnds(s) ==
  /\ reading[s]
  /\ reading' = [reading EXCEPT ![s] = FALSE]
  /\ \E kind \in {"readDone", "readFailed"} : tasks' = [tasks EXCEPT ![s] = Append(@, Job(kind))]
  /\ UNCHANGED <<state, writeQueue, writes, handed, accepted, wire, announced, broadcast>>

\* ResponseSender answers on LobbyManager's strand.
Respond(s) == PostSend(s, "response") /\ UNCHANGED broadcast

\* disconnect() posts; one call waiting is as good as many.
CallDisconnect(s) ==
  /\ \A i \in DOMAIN tasks[s] : tasks[s][i].do # "disconnect"     \* bound
  /\ tasks' = [tasks EXCEPT ![s] = Append(@, Job("disconnect"))]
  /\ UNCHANGED <<state, writeQueue, reading, writes, handed, accepted, wire, announced, broadcast>>

\* onGameStateUpdate, for a snapshot with players in it, copies the list of
\* sessions, those of other games and of no game included.
BeginUpdate ==
  /\ updated = {}
  /\ updates < MaxUpdates     \* bound
  /\ updates' = updates + 1
  /\ updated' = Session /\ gameState' = "state"
  /\ UNCHANGED session

\* It moves the buffer into the message of each.
UpdateSession(s) ==
  /\ s \in updated
  /\ PostSend(s, gameState)
  /\ updated' = updated \ {s} /\ gameState' = "movedFrom"
  /\ UNCHANGED updates

--------------------------------------------------------------------------------
RunTask(s) == RunSend(s) \/ RunDisconnect(s) \/ RunRead(s) \/ RunWritten(s)

Next ==
  \/ BeginUpdate
  \/ \E s \in Session :
       \/ RunTask(s)
       \/ \E w \in writes[s] : Transfer(s, w) \/ WriteBreaks(s, w)
       \/ ReadEnds(s) \/ Respond(s) \/ CallDisconnect(s) \/ UpdateSession(s)

Spec == Init /\ [][Next]_vars

\* The strand runs what is queued, and a write that is begun goes on or breaks.
Fairness ==
  \A s \in Session :
    WF_vars(RunTask(s)) /\ WF_vars(\E w \in writes[s] : Transfer(s, w) \/ WriteBreaks(s, w))

FairSpec == Spec /\ Fairness

--------------------------------------------------------------------------------
OnWire(s, nr) == \E i \in DOMAIN wire[s] : wire[s][i] = <<nr, Parts>>

\* A disconnected session is announced as lost, once, and has nothing under way:
\* no read, no write, nothing queued; whichever of disconnect, read and write
\* came first and whatever was posted to it before and after.
ClosedIsClean ==
  \A s \in Session : state[s] = "Disconnected" =>
    announced[s] = 1 /\ ~reading[s] /\ writes[s] = {} /\ writeQueue[s] = <<>>

\* A message taken by a session that is still connected is in the queue, being
\* written, written to its last part, or about to be reported as failed.
NothingForgotten ==
  \A s \in Session : state[s] = "Connected" =>
    \A nr \in accepted[s] :
      \/ \E i \in DOMAIN writeQueue[s] : writeQueue[s][i].nr = nr
      \/ \E w \in writes[s] : w.msg.nr = nr
      \/ OnWire(s, nr)
      \/ \E i \in DOMAIN tasks[s] : tasks[s][i].do = "writeFailed"

\* What every step preserves.
Inductive ==
  /\ TypeOK
  /\ ClosedIsClean
  /\ NothingForgotten
  /\ \A s \in Session : IsFiniteSet(writes[s])
  /\ \A s \in Session : state[s] = "Connected" => announced[s] = 0
  /\ \A s \in Session : \A i \in DOMAIN tasks[s] : tasks[s][i].do = "send" => tasks[s][i].msg \in Outgoing

\* A message that is taken reaches the network whole, or the session ends.
AcceptedIsWritten ==
  \A s \in Session : \A nr \in 1..MaxSends :
    nr \in accepted[s] ~> OnWire(s, nr) \/ state[s] = "Disconnected"

\* The frames follow each other whole: the receiver can tell where one ends and
\* the next begins (frame_codec.h).
FramesUnbroken ==
  \A s \in Session : \A i \in 1..Len(wire[s]) - 1 :
    wire[s][i][2] # Parts => wire[s][i + 1] = <<wire[s][i][1], wire[s][i][2] + 1>>

\* Every state update carries the game's field (message_protocol.md).
UpdatesCarryTheField ==
  \A s \in Session : \A i \in DOMAIN tasks[s] : tasks[s][i].msg.body # "movedFrom"

================================================================================
