# Dungeon-Crawler: a verification development in TLA+

The repository is a multiplayer game: a TCP server on boost::asio, with lobbies
and dungeons, and a terminal client. This directory holds TLA+ modules
translated from its C++ sources, TLC configurations that check them on small
instances, and theorems about them that TLAPS checks for every value of their
constants. Paths below are relative to `src/src/` unless they begin with
`src/`; every definition that translates code is listed with its lines in
`PROJECT.json`, under `map`.

## 1. The system

`server/main.cpp` builds everything and runs one `io_context` with at least two
threads. Handlers of one *strand* never overlap; handlers of different strands
do. There are the strands of `LobbyManager`, of `GameManager` and of every
`Session`. `EventBus::publish` calls the subscribers in the publisher's own
thread and strand; the two managers' subscribers only `post` the event to their
own strand. So a JOIN is handled on the strand of its session, a CREATE_LOBBY
on LobbyManager's, and the response to either is sent from where it was
published.

| component | state | operations | talks to | what makes it correct |
|---|---|---|---|---|
| `LobbyRegistry`, `Lobby` (server/domain/lobby) | lobbies by id, player -> lobby, lobby -> players; inside a Lobby its players, their ready flags and the leader | add/remove lobby, add/remove player, set ready | called by both managers **without a lock** | the three copies of who is where agree; the leader is a player of the lobby; the limit holds |
| `LobbyManager` | its place in the handler | create, join, leave, ready, list | registry; publishes responses | a response is true when it is published, although the registry changes under a handler |
| `GameManager`, `DungeonRegistry` | its place in the handler; dungeons, player -> dungeon, dungeon -> players | start game, tick, move, attack | lobby registry, dungeons | a player is in one game at most; a start empties its lobby and no other |
| `SessionRegistry` | sessions by id, player -> session, session -> player | add, remove, bind, look up, each under a mutex | everybody on the network side | the two maps are inverse; a bound session is registered and open |
| `ConnectionManager` | players whose connection was lost, and when | connected, disconnected, auth, reconnect | session registry, EventBus | one lost connection allows one reconnection, within the window |
| `TcpServer`, `Session` | session counter; connection state, read buffer, write queue | accept, start, read, send, disconnect | EventBus | events of one session are in order; writes do not overlap |
| `MessageRouter` | none | raw message -> event | session registry, dispatcher | an event carries the player its session speaks for |
| `ResponseSender` | none | event -> message -> session | session registry, sessions | the response reaches who asked |
| `Dungeon` and its parts | entities with position and health, command queue | queue a move or attack, tick | called by GameManager only | one entity per cell, inside the map; the dead do nothing; the game ends when the players are dead |
| `EventBus` | signals by type, connections | subscribe, disconnect, publish by type or by base reference | called by everybody, in his thread | a type has one signal; whoever is found subscribed is called; the bus outlives its publications |
| map, positions, frame codec, name hashing, wire formats, pictures | none | pure functions | | saturation, framing independent of chunking, what is read is what was meant |
| `GameLoop` | timer, stop flag | start, tick, stop | EventBus | ticks go on, through errors of the timer |
| `StdinReader`, `KeyboardReader`, `TerminalGuard` | buffer, last poll, saved mode | read a line, poll, restore | client UI | nothing typed is lost or handed over twice; the terminal is restored |
| `server/main.cpp`, `client/main.cpp` | what they have built, who holds whom | build, run, unwind | everything | nothing outlives the `io_context` it uses, however main is left |
| client network | connection state, write queue | connect, disconnect, send, read | server | stale handlers do nothing; writes do not overlap |
| client UI, controller | screen, current player | keys and lines to messages, messages to text | client network | |
| `Settings` | typed fields, free keys | load file, then environment | everybody | each setting from the layer it should come from |
| `Logger` | instance, sinks, a static flag | initialize, log, shut down | everybody | what was logged is written |

### Hard behaviours

* *Two strands on one unlocked registry.* A handler that starts a game reads
  the lobby's players, creates a dungeon, reads the players again and removes
  them one by one, while players leave, join and create on the other strand.
* *Events of a session against the server's view of it.* The first read is
  posted before the session is announced; a connection may be lost before it
  is registered; an old connection may be lost after its player came back.
* *Claims.* JOIN and RECONNECT bind a player to a session with no check that
  somebody else speaks for him; what the client is told was decided before.
* *Late answers.* A response looks its session up when it is sent.
* *Time.* The reconnect window is tested when RECONNECT arrives.
* *Queues.* A session's write queue, a dungeon's command queue.
* *Callbacks.* A subscriber subscribes, publishes and drops the bus from
  within a publication.
* *Ends.* Handlers, cycles of `shared_ptr` and locals decide together what goes
  before what, and every step of `main` may throw.
* *Two ends of a wire.* Numbers lose their sign, names become numbers, an
  answer's type is told from its text: the reader must undo what the writer did.

The full list, each with its line, is `hazards` in `PROJECT.json`.

## 2. The modules

```
LobbyRegistry          Lobby objects and LobbyRegistry: variables and one operator per method
  LobbyManager         its five handlers, one step per call on the registry
    GameManager        START_GAME call by call, DungeonRegistry, the end of games
      LobbyStrands     both strands together: Init, Next, properties
        LobbyStrandsProofs   of the safety properties, then of the refinement
        MCLobby        instance for TLC
LobbyService           abstract specification, implemented by LobbyStrands
SessionRegistry        the three maps, one operator per method
  ConnectionManager    its four handlers
    Connections        TcpServer, Session, MessageRouter, ResponseSender's look-up
      ConnectionsProofs
      MCConnections    instance for TLC
Positions              coordinates and distances that saturate, of any width
Dungeon                one dungeon: entities, command queue, ticks (extends Positions)
  DungeonProofs
  MCDungeon            instance for TLC
Skirmish               abstract specification, implemented by Dungeon
SessionWrites          a session's strand, its reads and writes, the broadcast
  MCSessionWrites      instances for TLC
ClientNetwork          the client's connection: attempts, reads, writes, stale handlers
  ClientNetworkProofs
  MCClientNetwork      instance for TLC
Messages               types of messages, their packing, the events and their fields
  Conversation         commands, LobbyService, answers, what is shown, for whole sessions
    ConversationProofs
    MCConversation     instance for TLC
  Exchange             one line, message, event or answer with its arguments (with Cbor)
Cbor                   the items messages and snapshots are written as
  Snapshots            a dungeon's state on the wire, and its picture
NameCodec              names as numbers
FrameCodec             encoding, and both scanners on a stream cut anywhere
Codecs                 composes FrameCodec, NameCodec, Exchange and Snapshots
  WireProofs           of Codecs and SessionWrites
  MCCodecs             instance for TLC
EventBus               subscriptions, publications, callbacks, the end of the bus
  EventBusProofs
  MCEventBus           instance for TLC
Logger                 sinks, records that wait, Shutdown
  Lifetimes            a process: steps of main, holders, the io_context's end
    ServerMain         the server's objects, threads and GameLoop
    ClientMain         the client's objects and the terminal's mode
Settings               the document, the environment, conversions
TerminalInput          StdinReader and KeyboardReader
Programs               composes ServerMain, ClientMain, Settings and TerminalInput
  ProgramsProofs
  MCPrograms           instance for TLC
```

**Lobbies and games.** The variables of `LobbyRegistry` are the containers of
the class and the fields of `Lobby`, indexed by lobby id because ids are never
reused and a handler may hold a Lobby that is registered no more. Where the
source has a map without an entry the module has `NoLobby`, `{}` and so on.
`lm` and `gm` are the two handlers: where each stands (`at`) and the locals it
carries to its next call. A step is one whole call on the registry or on a
Lobby, so that any two calls of the two strands may come in either order. Two
calls that really overlap are a data race on the registry's hash maps; the
language gives that no meaning and the modules none either. What is shown here
is therefore what remains to be feared, or not, once the registry has a lock.
`response` is the event the last step published, and `owed` a history variable:
the players of the game that is starting who have been in its lobby ever since
they were put in the game.

**LobbyService** knows only who is in which lobby and in which game. Every
operation is one step; each refusal is allowed only when it is true at that
moment (`Justified`). `ImplementsService` maps `lobbyOf` to the registry's
mapping, `gameOf` to the dungeon registry's, and `founded` to the ids given
out, except for the one whose creator is not in yet.

**Connections.** `starting` is a session between its posted first read and
`ClientConnectedEvent`; `strand` is a response that was decided and not yet
sent; `asked` are requests that sit on a manager's strand; `sent` is what the
last step handed to `Session::send`. Three history variables count lost
connections and reconnections and remember which players were claimed by two
connections (`contested`). Managers answer any time, for any request.
`ClaimsAreToldTruly` is about the time between the decision on a claim and the
sending of its answer, in which the session may get registered or lost, and
others claim the same player. It counts the session that gets nothing, because
`SendReply` finds it unregistered: it must then speak for nobody.

**Dungeon.** One dungeon from its constructor to the tick that finds no player
alive. Everything in it runs on GameManager's strand, so its hazards are not
interleavings but orders: `tick` says where processTick stands, `pending` are
the commands popAll handed over, `moves` and `attacks` the turns left to the
monsters. Each command and each turn is a step, with the generators' choices as
nondeterminism: which monster, which direction, which cell, how many turns.
`given` and `obeyed` number the commands.

**Positions** keeps the width of the coordinates a constant, `MaxDimension`:
`Add` and `SubDimension` are the two comparisons and the sum of the source,
`Delta` counts modulo the size of the unsigned type as its casts do. The
operators that only tests call (`euclideanDistance`, `mul`, the unary minus)
are left out.

**Skirmish** has no ticks and no queue: fighters enter, walk one cell, strike
the nearest living opponent in reach, and the game is over when no player
stands. `ImplementsSkirmish` maps `over` to `tick = "over"` and everything else
to itself. Its distances are those of the integers, so that the refinement also
says that no saturated coordinate or distance shows in a game.

**SessionWrites.** What `Connections` leaves out of a session: `tasks` is its
strand's queue, with what other strands dispatched or posted to it and with the
completions of its own operations; `reading` and `writes` are the operations
under way. The network is external: an `async_write` puts its frame on `wire`
in up to `Parts` parts, which is what `async_write` is (a sequence of
`async_write_some`), and two of them take turns in any order. Closing the
socket turns every operation under way into a handler called with an error. A
read brings one message at most, and the response to it is sent from within;
everybody else's `send` waits on the strand. `handed`, `accepted`, `wire` and
`announced` are history variables.

**ClientNetwork.** `tasks` is the client's strand; the resolver works its
requests off one after the other and a cancelled one ends with an error unless
it was ended already; `socket` says which attempt opened it and how far that
got, since `async_connect` closes and opens the one socket for whoever calls
it. Handlers carry the number of their attempt only for the reader: the code
does not tell them apart. `main` connects once; the tests, and the class's
interface, call `startConnect` again while a connection is there, and so does
the module. `crossed` remembers that an attempt began while an earlier one's
endpoints waited to be used: then both go on, the second may end the first
behind its back, and the safety properties ask nothing any more. `AttemptsEnd`
and `QueueDrains` ask for the same as before.

**FrameCodec.** The scanners are functions of the buffer's content, with one
arm per outcome of a position: stop and wait, take a frame, go on. Two
receivers read the same stream in the same pieces, one as `Session` and
`Client` do, one with the zero-copy codec that nothing includes yet. Noise
stands for what the codec promises to skip; noise in which a header with a
possible length hides is excluded (`NoiseAssumption`, of whole streams), since
no receiver could tell it from a frame (it would wait for that length). A
scanner is its loop with the positions where it stops (`Scanning`); the codecs
differ in these (`ExtractStops`, `DecodeStops`).

**Conversation** follows a command through the whole system: `RouteCommand`
makes a message of it, `MakeEvent` an event of the message and of the player
its session speaks for, or nothing; a manager takes the event from its strand's
queue, `Subscriptions` decides whether its response is sent, and `RouteMessage`
what the client says. The managers act as `LobbyService` allows, which
`LobbyStrands` is proved to implement, so that a request takes one step; a
start keeps the calls between which `LobbyService` lets others come. Each
client has one connection and one name: who hears what when connections come
and go is the matter of `Connections`, and how frames travel that of
`SessionWrites` and `FrameCodec`. JOIN_LOBBY of a lobby that is full or does
not exist is never answered, although message_protocol.md:111 and 115 have
answers for it and the client words; START_GAME is answered by nobody either,
well or not. So the module asks what a client can know that goes on without waiting:
`wanted` are the lobbies it asked for, `belief` those it may be in by what it
has been shown; `asked` (how many lobby requests a client has given) and `evicted`
(players a game took out of their lobby, which nobody tells them) are history
variables, and so are the marks a message bears that are in no message of the
program: `nr`, the number its client had reached when it gave the command, kept
by the request and by its answer, and `to`, the command that is answered.
`AnswersInOrder` is about them; no guard reads them. An empty list of lobbies is shown as malformed behind the words for
a list. That TLC visits what is on its way in two queues and behind two strands
is the reason for the small number of commands.

**Messages** is the vocabulary: the three levels of types and the number each
is packed into, the events with the fields their constructors take, and the
factory of each message. `Conversation` and `Exchange` both stand on it.

**Cbor** has an item for what libcbor has one for. Its functions refuse what the
source refuses (another kind, another size, an entry that is no number), and
`CborMapGet` takes the first pair of a key. Bytes are the library's.

**Exchange** is the whole way of one sentence: a line or a key to a command, a
command to a CBOR array, that array to an event at the server under the
speaker's name; an event to an answer, and the answer to words. Each step is
the operator of one function, with every early return as an empty set. What
`TakesArgs` of `Messages` refuses is another number of arguments, and a
direction that does not fit into a byte; one of 4 to 255 is taken, and gives a
step of no length (position.h:150-163).

**Snapshots** is the way of a state: the copy, in which signed coordinates
(`HalfRange` of them on each side of zero) become unsigned ones; the arrays and
the map, and their reading, which cuts types and states to a byte and health
points to their `HpValues`; and `renderGameState`, whose checks come in the order of
the source because they stop each other. It is a set of outcomes. There is one,
except for a map whose lowest row is the least coordinate: the loop over the
rows ends when its counter is below the lowest row, so it decrements a least
int64 and would read a row outside the grid (render_game_state.cpp:113-115).
Both are undefined; `UndefinedRender` has the picture, a picture with a row that
is not the map's, a crash, and a loop without an end.

**NameCodec** packs characters under a length: `Place` is what a position
counts, a character takes one of `CharValues` and a length one of `LengthValues`,
of which the code has 2^6 and 2^4. An empty, too short or too long name, a
character out of the set and a number with a length that cannot be are refused.

**Codecs** lets a subject (a name, a number, a line, a message of any type and
numbers from another client, an event, a state) go
through these functions one hand after the other, or a stream through
`FrameCodec`. What should come out is written down beside it without the
formats in between: `Meant`, `InWords`, `PictureOf`. `InWords` is read from
message_protocol.md and the client's words, also where the program has no
answer. Where it has none, or another (`FallsShort`, listed in section 3),
`UnderstoodAsMeant` still asks that the client shows what is promised, or
nothing, or owns that it did not understand, and never what stands for
something else.

**EventBus.** A publication is a frame on its thread's `stack`: found under the
lock, then called without it, slot by slot, with callbacks that subscribe,
publish again or let the bus go. A type gets its number at its first use
anywhere (`UseType`), in this bus or another (`CountElsewhere`), which is why
`signals_` has holes and an event published by base reference needs
`event_type_ids_`. `due` are the subscribers a publication found that have not
left since. boost's signals are external: a call goes over the slots there were
when it began and leaves out those disconnected meanwhile.

**Settings.** A document is a tree, flattened leaf by leaf and stored by text;
then the environment, for every key known or met. Converting follows
`boost::lexical_cast`, which takes a negative number for an unsigned field and
wraps it. A call after a success does nothing; after a document that does not
parse it starts anew. A text that does not convert leaves the field as it is,
which after the document is the document's value; `SettingsAreLayered` allows
that and the default of which the comments speak, and nothing else.

**Logger** and **Lifetimes.** A sink has records to write (`behind`) until its
thread or `flush` writes them; an end of the process before that loses them.
`Reset` flushes; only the client calls it, on its normal way out. What is not
reset is left to the end of the process, where statics go in the reverse order
of their making: `instance_` was there before main (logger.cpp:64), Boost.Log's
core is made in the logger's constructor (logger.cpp:202), so the core goes
first and `~Logger` calls what is gone. That is undefined, and `Destroyed` is the
set of its outcomes: the records may be written or lost, and the process may end
by itself or not (`Exit`). Of Boost.Log only this order is taken, which is the
one its core, a static of a function, must have.
`refs` are the `shared_ptr`s: from main, from handlers that the io_context has,
and from object to object. An object dies when nobody holds it any more;
`Held` are those that a root holds and those that they or each other hold, so
that a cycle keeps itself alive. The io_context drops its handlers first and is gone
then; `late` remembers what died afterwards.

**ServerMain** takes the server's main step by step, each of which may throw
until threads run; then an exception in a worker or a thread that cannot be
made is `std::terminate`, and nothing is asked of what follows. The game loop's timer, the
accept, one session at a time and a posted event are the handlers. **ClientMain**
is the same for the client, with the mode of the terminal, which outlives the
process. **TerminalInput** has the buffer of `async_read_until`, which reads on
only when it holds no whole line, and the keyboard's polls in both modes;
`presses` remembers what the callback got at every poll.

**Programs** puts them in one specification of which a behaviour runs one: the
server, the client, or a part alone. `ServerSpec` and `ClientSpec` are the two
programs by themselves, with the same steps (`ServerStep`, `ClientStep`), and
`InputSpec` the two readers; the proofs are about these first, and then about
`Spec` (`ProgramsInv`).

Bounds, all in guards or constants: `MaxLobbies`, `MaxGames`, `MaxSessions` cap
the three counters, `MaxCommands` the commands a behaviour of a dungeon queues (or, in
`Conversation`, that all clients give), `MaxSends` and `MaxUpdates` the
messages and broadcasts given to a session, of whose `disconnect` calls (as of
the client's) one at a time waits, and `MaxConnects` the attempts. `MaxConnections` and `MaxDepth` bound an event bus's
subscriptions and nested publications, `MaxErrors` the timer's errors and
`MaxPolls` the polls of a keyboard.

Each module also holds a few operators whose comment begins with *Slip*: a
plausible mistake in the operator that follows them. No specification uses
them; `PROJECT.json` pairs each property with a slip that breaks it, which
shows that the property can fail.

## 3. The runs

| run | what it checks | instance |
|---|---|---|
| `lobby` | consistency of the registries, sound lobbies (leader, limit, ready flags), who leaves when a game starts, `LobbyService` | 3 players, 2 lobbies of 2, 2 games, players symmetric: 968,483 states |
| `connections` | bindings, maps, reconnections, answers, what claims are told | 2 players, 3 connections: about a million states |
| `connections_lost` | finds `LostSessionsLeave` violated | the same |
| `dungeon` | order of commands, `Skirmish`, `CommandsAreObeyed` under fairness | 2 players, 2 monsters, 5 free cells of a map as wide as the coordinates, 2 commands: 206,006 states |
| `session` | a clean and single end, no message forgotten, `AcceptedIsWritten` under fairness | 1 session, 3 messages of 2 parts, 1 broadcast: 376,517 states |
| `session_overlap` | finds `FramesUnbroken` violated | 1 session, 2 messages |
| `session_updates` | finds `UpdatesCarryTheField` violated | 2 sessions, 1 broadcast |
| `client` | types and limit; unless attempts crossed, one write at a time, order of what is written, state against socket; `AttemptsEnd` and `QueueDrains` under fairness | 2 attempts, 3 messages, a queue of 1: 120,011 states |
| `codecs` | frames: delivery, agreement of the two codecs, what waits; names there and back; lines, foreign messages and answers understood; states drawn | streams of up to 4 items; all names of up to 3 characters and all numbers; lines of up to 3 words; messages of every type with numbers up to and beyond a byte; maps of 2 by 2 or 3 in an 8 by 8 plane: 126,820 states |
| `conversation` | types, who is heard after WELCOME, order and wording of answers, what a client knows of its lobby | 2 players, 2 lobbies of 2, 5 commands, players symmetric: 1,094,320 states |
| `bus` | one signal per type, everybody found is called | 2 types, 2 threads, 3 subscriptions, publications two deep, types and threads symmetric: 3.1 million states |
| `programs` | settings by layer, nothing later than its io_context, terminal restored and the log of a client that nothing made throw written, input handed over once, `TicksKeepComing` under fairness | 1 error of the timer, 1 session at a time, documents of up to 2 members, texts of up to 4 characters, 3 keys and 3 polls: 205,027 states |

*Why these bounds.* A lobby of two among three players can be full, be refused
to a third, be left by its leader and emptied; two lobbies allow a move from
one to the other while a start is under way; two games allow a start that is
refused because a player is in the other one. Three connections for two
players give a lost one, one that takes its place, and one that interferes.
Four entities on five free cells are in each other's way, and unlucky draws
leave any of them without a place; a monster survives a first blow and not a
second, a player none, so that a tick can find nothing but dead and hemmed-in
ones. The map of `dungeon` reaches from one end of the coordinates to the other
(the settings allow any corners), here of three bits; its barriers leave a cell
at one end and four at the other, so that a sum that wrapped would make them
neighbours. Two attempts are enough for one to cross the other (the proof is for
any number), and three messages
are one more than a queue of one and the write under way can hold. In
`session`, three messages give one that is written, one that
would be queued behind it and one that comes while the first completes, with
`disconnect` and a failed read or write anywhere among them. Five commands in `conversation` are a name for each of two clients, a lobby,
the second player in it and its game, or a lobby asked for too early, one that
is full, and a list meanwhile. With 4 items, noise
comes before, between and behind frames in every combination; a byte has four
values and the length two digits, so that a length can be split and can look
like a magic, as 0xDEADBEEF can. Names of one character more than fit,
with a character that is in no set, meet every refusal of the packing, and every number
is decoded. A plane of three bits has maps at either end of the coordinates and
across zero, where unsigned corners are in the wrong order. Two types suffice
for a number that is beyond the vector and one that is over a hole in it; a
third subscription comes while a publication calls the first two. Two members
of a document can name one setting, differ in case, and share an environment
variable; widths of 16, 24 and 30 bits keep the order of the source's 16, 32
and 64. Four characters are two lines with carriage returns, or a line in
halves. One session at a time meets all that may hold a session: its handler, the
registry, nobody. The proofs remove the bounds for everything
but the liveness properties.

*Deadlock* is not checked: clients are not obliged to send anything, and with
the bounds used up every model stops.

*Fairness*, `Dungeon!FairSpec`: a tick that has begun goes on, because its loops wait for
nothing, and ticks keep coming, because the server's `GameLoop` is stopped only
with the server.

`SessionWrites!Fairness`: a strand runs what is queued on it (the threads run
until SIGINT), and a write that has begun makes progress or breaks, which is
the network's part. Reads need not end and nobody need send.

`ClientNetwork!Fairness`: the client's one thread runs the strand (client
main.cpp 74), and the resolver, a connect and a write end, well or not.

`ServerMain!ServerFairness`: time passes, and the server's threads run the
handler that the timer has queued, as long as they serve.

### Where code and documents disagree

Found by a run:

* `LostSessionsLeave`: a session lost before `ClientConnectedEvent` is added to
  the registry after it was removed, and stays.
* `FramesUnbroken`: `doWrite` takes the message out of the queue before it is
  written, so the next `send` finds an empty queue and writes at once, into
  the frame before it. In `session` the queue is empty at the end of every
  step for the same reason; its `NothingForgotten` is about a message that is
  being written, or failed.
* `UpdatesCarryTheField`: the broadcast moves its one buffer into the first
  session's message and sends the others what is left.

Met while modelling, and modelled as the code has it:

* `removePlayerFromLobby(pid)` takes a player out of whatever lobby he is in
  when his turn comes (game_manager.cpp:43-44): one who moved to another lobby
  meanwhile leaves that one, although tests_game_manager.cpp:206 says that the
  players of the other lobby stay. `LobbyService`'s `Evict` allows it.
* `writing_` is to prevent overlapping writes (client/network/client.h:51). With
  three attempts of which the second and third begin before the endpoints of
  the first are used, a connection is written to while a `written` handler of
  the one before it waits; that handler resets the flag, and two writes are
  under way. Two attempts do not suffice, so the module's instance does not
  show it.
* The sequence diagram of connecting refuses a JOIN for a player who is there;
  the code binds him to the second connection too (`contested`).
* A variable of the environment that does not convert leaves the document's
  value, although config.h:181, config.cpp:154-155 and the warning
  (config.cpp:166) speak of the default. A document with `"port": 9000` and
  `SERVER_PORT=high` gives 9000. The property leaves open which of the two is
  right. A negative number in an unsigned setting wraps instead of failing.
* logger.cpp:258 calls the main log "always INFO and above"; at "warn" and
  "error" it is not.
* Answers that message_protocol.md promises and that do not come (`FallsShort`):
  - JOIN_LOBBY, lines 108-116: kLobbyDoesNotExist and kLobbyFull.
    lobby_manager.cpp:76 and 80 publish the events, the client has words for
    them, and `ResponseSender` has no subscription (response_sender.cpp:32-54).
  - LEAVE_LOBBY, lines 118-134: the client has no words for what
    `ResponseSender` sends, so success and failure are both "Unknown message";
    nor has it for RECONNECTED and NOT_RECONNECTED.
  - START_GAME, lines 136-158: `onStartGameResponse` would send kStartGame, a
    request, instead of kGameStarted (response_sender.cpp:98), which the client
    does not know, and nobody publishes its event; kLobbyNotReady and
    kNotTheLeader are neither published nor sent.
  - LIST_LOBBY: a list of no lobbies (lobby_manager.cpp:133-140) is shown as
    malformed (client/ui/message_router.cpp:38-39).
* `eventTypeToString` has no case for the end of a game.
* The logger's destructor is to write what is left (logger.cpp:157-159). In the
  server, and in a client that an exception ends, it runs after Boost.Log's
  core is gone (see `Destroyed`); nothing is claimed of the records there.
* A map whose corners are on different sides of zero has no picture:
  `renderGameState` compares corners as unsigned. Of a map whose lowest row is
  the least coordinate it counts below it, which is undefined;
  `CountsDownTooFar` names these dungeons, and `DrawnAsItIs` claims nothing of
  them.
* The keys that the client's greeting offers (client/main.cpp:64-68) are not all
  in `commandFromKey`; letters typed for a line act as keys as well.
* The comments of serder_game_state.cpp:74 and its like say that an array owns
  what is pushed into it; libcbor takes a reference of its own, and the
  caller's is never given up.
* The router holds the bus that holds its subscription, and the client's
  controller the client that holds its callback: both cycles outlive main. The
  first is what keeps sessions from being destroyed after the io_context
  (`IoOutlivesItsUsers` fails without it).
* A logger made after `Logger::Reset` would never be flushed, because the flag
  in `Shutdown` is static. Neither program logs after it.

## 4. The proofs

`LobbyStrandsProofs`, `ConnectionsProofs`, `DungeonProofs`,
`WireProofs`, `EventBusProofs`, `ClientNetworkProofs`,
`ConversationProofs` and `ProgramsProofs` prove, for any
finite set of players, sessions, messages and event types, any commands, any stream in any pieces,
any names, lines, states and documents, any limit and any bounds, that `Inductive` (or
what takes its place) is an invariant; every
safety property and action property that a run finds to hold follows. So do the type
invariants, and that no two entities share a cell (`EntitiesStayApart`); being proved,
they are in no run but the client's, whose type invariant holds the queue to its limit,
and the conversation's, whose type invariant says for whom requests are made. Assumptions:
`PlayersAssumption`, `LobbyBoundsAssumption`, `GamesBoundAssumption`,
`SessionsBoundAssumption`, `SidesAssumption`,
`DimensionAssumption`, `MapAssumption`, `RulesAssumption`, `RadiusAssumption`,
`WritesAssumption`, `BusAssumption`, `ClientAssumption`, `ConversationAssumption`,
`InputAssumption`, `FrameAssumption`, `NoiseAssumption`, `NameAssumption`,
`SnapshotAssumption`, `CodecsAssumption`, `CallsAssumption` (the players' set does not hold the null value,
the bounds are natural numbers; players and monsters are finite and disjoint,
the map's corners are coordinates, strengths and healths natural numbers, the
radius, a uint32, is smaller than the greatest distance, what is typed is a sequence of characters, a magic is not empty, a length fits
into two bytes, and no noise looks like a header with a possible length; the
character set and a greatest length fit into their fields; there are
coordinates and healths; names and lines are sequences, a list of
lobbies is one of numbers, a state has its corners in order, since it is sent
only while somebody stands between them; a document is absent, broken, or has
leaves).

*Lobbies.* No safety property is inductive alone. `AddPlayerToLobby` keeps the
three copies together only if they agreed before (`RegistryConsistent`); the
leader of a new lobby is a member only because his lobby is as he left it when
he is put in (`CreationUndisturbed`), and that holds because nobody has a
mapping to a lobby nobody is in; a new id is fresh by `IdsAreFresh`. The limit
needs that a lobby at its limit accepts nobody, `isFull` being an equality:
this is enough because players come one at a time. The proofs go by lemma
per registry call, then per handler step. `GamePlayersLeave` follows from
`OwedAreHere`: whoever is owed a removal is in the lobby when its players are
read again, hence on the list, and stays on it until he is out.

*The lobby service.* `ServiceIsImplemented` needs more than `Inductive`: what a
handler has looked up in earlier steps, `HandlerKnows`. GameManager only ever
removes players, so a lobby that was not full still is not, and a player who
was found in a lobby is in that one or in none. With it every answer is true
when it is published (`RequestRefines` to `ReadyRefines`), and the steps of a
start are the service's `Start`, `Evict` or nothing (`GamesRefine`).

*Connections.* `MapsInverseUnlessContested` needs that a claim without clash
finds both entries free or both set to each other, which needs that bound
sessions are registered (`BoundAreRegistered`), that a session being announced
is unknown to every entry (`StartingIsUnknown`). `AnswerReachesAsker` follows
with `AskedUnderOwnName`; `ClaimsAreToldTruly` with what a strand's decision
knows of the registry until it is sent (`DecidedTruly`), whatever comes between. `OneReconnectPerDrop` follows from `EntryIsCredit`:
an entry in the map of the disconnected stands for a loss not yet used.

*Dungeons.* `Inductive` adds to the checked properties that an entity still to
be spawned has no place (`TriedOnce`), without which spawning could move
somebody, and that a tick leaves `commands` only when it has run them all
(`TickRunsAll`), without which the next `popAll` would forget some. `PlaysTheGame`
proves the refinement of `Skirmish` for every map, every number of players and
monsters, every strength and reach: a move to `Neighbour` is a walk of distance
one (`MoveIsWalk`), a blow on one of `ClosestTargets` a strike (`DamageIsStrike`).

*Positions.* `DungeonProofs` begins with what is shown, for every width, of the arithmetic: that `add` and `sub` are the
integers' sum and difference cut off at the ends and compute nothing outside
their type on the way, that `delta` is exact although it counts modulo 2^64,
and hence what `manhattanDistance` and a step in a direction are. The dungeon's
refinement rests on it: a step that saturates leads to the mover's own cell,
which is not available (`MoveIsWalk`), and a distance is exact wherever it is within
the radius (`SameDistance`).

*Sessions.* `ClosedIsClean` says of a closed session what it needs itself,
except that it was announced never before (`announced = 0` while connected).
`NothingForgotten` is inductive with types and with the finiteness of `writes`,
which gives a failed handler for each write that is closed. The proof is by
session: `Fine` is the invariant of one, `OthersStayFine` that a step of one
leaves the others alone.

*Frames.* A scanner's loop is a recursive function, of which one must show first
that it exists and is what it says: it does because the loop goes forward, and
then a property of all positions follows from the end of the buffer
(`ScanIsLoop`, `FromTheEnd`). Sequences joined to a stream are the same from the
start. The codecs do not leave the same buffer behind, so `CodecsAgree` is not
inductive: the zero-copy codec stops where no header fits, although no magic can be
there. `FramesInv` says that its buffer has some bytes more in front, none of
which begins a magic, and `ScannersAgree` that it then finds the same, and
stops where the other does or at such bytes before; what the bytes are plays no
part in that. For
`DeliveredWhenWhole`, `DeliveryInv` says where in the stream the buffer begins: in
no frame, and behind every frame that has ended. `ScanDelivers` shows of any
part of the stream that begins outside the frames that a scan finds those the
part holds, by what `NoiseAssumption` says of a header there. What was delivered is
compared by counting, frame by frame (`DeliversBoth`).

*The bus.* `Inductive` adds to the two properties that no two types share a
number (`IdsDiffer`), that what stands in `signals_` is the holder of the type
with that number (`HoldersInPlace`), without which a resize could give a type a
holder of another, and that every publication under way is at its type's
holder with each due subscriber called or still to call (`OnTheWay`). There is
a lemma for each action; `Connect` is split off because it is what changes a
holder and what a publication sees of it.

*The client.* `OneWriteAtATime` holds because a connection has one write, or the
handler of one, exactly while `writing_` is set (`OneOfEach`), which a handler
left over from an earlier connection would spoil. `OneChain` says that there
is none: requests before the last are cancelled, so at most one attempt has
still to use its endpoints, and its handler stands behind all of the
connections before it (`EarlierFirst`); `SocketFits`, that the socket is closed
until then, and that attempt's from then on. That is what crossing attempts
break, so the three are claimed until one does; that what is connecting has
somebody to end it (`AttemptGoesOn`) is claimed always. `InOrder` puts what is
on the wire, being written, queued and still to be sent in one order. The
proof has a lemma per action, over two about the strand's queue: what a task
taken, and what a task posted, does to the handlers that wait.

*The conversation.* `TypesSurvivePacking` shows that every type of message comes back
from its number; `EventOfCommand` what the router makes of each command, by the
fields of the event and the arguments it puts in front: an event, except for
those who are not bound. Hence `WelcomeMeansHeard`: WELCOME is on its way only
to the bound (`AnswersAreApt`), who stay bound, and everything in `up` is a
command of its sender (`CommandsAreMeant`). `AnswersInOrder` is not inductive:
what keeps the answers in `down` in order is that the numbers rise from there
over the strand's queue to the messages not yet read (`Ordered`), which each
step of a message from one to the next preserves (`RequestPassed`,
`RequestAnswered`); a request that is not answered leaves a gap, never two
answers for one. Nor is `KnowsItsLobby`, which speaks only of a client that has heard
everything: `Informed` says of every queue of messages that the last one that
tells of a lobby tells the truth, or what the client believes does if there is none, and that a
truth of the second kind is a lobby it asked for (`RequestsAreMeant`). That a start
always finds a game is counting (`SomeGameIsFree`): there are as many as
players, and one of them is in none. The proofs go by message first (what an
answer added or heard does to `Informed` and `Ordered`), then by action; what
a manager does is taken from `LobbyService`, whose steps `LobbyStrands` is
proved to refine.

*The programs.* `ServerInvariant` and `ClientInvariant` take the place of
`Inductive`; they hold for any directories, levels of the log and
errors of the timer, without assumptions. What main has made is a beginning of its order
(`Begun`), and where the io_context is in its life says how far main is
(`Stage`); so an object that main holds is one that is in `built`
(`MainHolds`), and once the io_context is gone no handler holds anything
(`HandlersHold`). `Linked` is what `Release` keeps up: everything that is
there has a holder. That it does, and that objects which hold each other stay
(`SelfHeldStay`), follows from two lemmas about `Held`: those it keeps have
holders, and it is the largest such set. `IoOutlivesItsUsers` is then a matter of who may hold whom: in the
server whatever uses the io_context is held by main or by handlers alone,
which are done with it before, except the session; that one is held by
the registry, which is held by the router, which the bus holds that the router
holds, so it is not destroyed at all. In the client nothing is left that main
could give up. For `LeavesInOrder` a raw terminal has a guard that is there
and active (`ClientTerminal`), and nobody but main and the signal's handler
holds it; and as long as nothing threw the log loses nothing, because main's last
step resets the logger, after its last record and when `Shutdown` was not used
up before (`LogIsKept`, `ClientLogKept`). Of the server's log, and of that of a
client that threw, nothing is proved.

*The terminal.* `InputIsHanded` says which line each end of a line stands for,
by how many ends there are up to it, so that no definition by recursion is
needed. `LinesAreHanded` adds what makes it inductive: what was received is what
was handed over and then the buffer, and the first part ends with an end of a
line. A read moves nothing of what is there already (`LinesStand`,
`ReceiveKeeps`); the line that a handler takes out of the buffer is the one after the last
that was handed over, as there is no end of a line before its own
(`FirstLineEnds`, `HandleLineKeeps`). That a set of numbers has a least one, which the definitions of
`SelectInSeq` and `Max` rely on, comes from the well-founded order of the
numbers (`LeastIsThere`, `GreatestIsThere`). Of the keys, `KeysAreHanded` says what is
remembered: what was down a poll ago and has a code.

*Settings.* `SettingsStayLayered` is about three layers and two orders: that of
the document, which decides among leaves with one key, and that of the
environment's keys, which a hash map gives and which must not matter.
`StoreAll` goes over texts by a recursive function; `TextsStored` shows
what a key holds after it: the last text under that key that converts, or what it held before;
that this is among what `Layered` allows is a case for each layer.
`EnvironmentOverrides` then needs only that each key comes once, and that the
known keys are finitely many; `SettingsLoad` puts the layers on
each other. A call that throws leaves all of it alone (`LayersStay`).

*Subjects.* A behaviour of `Codecs` about one subject is a journey of few
stations. `Trip` says what can be at each of them, as the composition
of the functions so far; `UnderWay`, that the journey is at one of its own, is
inductive (`SetsOut`, `Arrives`, `GoesOn`), and each property is then one about
functions (`WhatIsShown`).

A stream is not disturbed by subjects: `CodecsReadStreams` shows that `Codecs`
implements the specification of a stream alone, so that what is proved of frames
holds there too (`FramesOfCodecs`).

*Names.* `Place` is a recursive function and need not be what it says, to a
prover, until it is shown to be (`RecursionEnds`, `PlacesAre`). `PackedOneByOne`
says of the packing that each character adds its own place, so that it is less than
the next place (`PackedIsBelow`) and quotient and remainder give the characters
and the length back (`FieldsOfPacked`, `OneQuotient`). `EncodedDecodes` follows;
`DecodedEncodes` is the other way, and with it no two numbers show one name.

*Pictures.* `PictureIsDrawn` is about unsigned coordinates: on one side of zero
differences and comparisons are those of the signed ones (`UnsignedLine`), and
any two coordinates differ unsigned exactly if they differ (`UnsignedDiffers`), so that everybody is
in the cell he stands on. `SizeByQuotient` is the guard against a map that is
too large, which divides where the product could overflow. `StateComesBack`
takes a snapshot through its arrays and its map, entry by entry; that its map
is taken for a state, and for one only, is in `DungeonIsShown`. Nothing is
proved of a picture that counts down too far.

*Lines and answers.* `MessageComesBack`: the number of a type is its
level and its place there (`NumberIs`, as no type has two: `KindIsOne`), below the
sixteen bits it is cut to, and what is read of the items are the arguments they were made of. `LinesAreHeard` goes
through the commands by the words a line begins with (`RoutedAre`, `MeantIs`),
for lines of any length in any words, and `CommandsAreHeard` gives the event of
each. `ForeignIsHeard` is about a message of any type and arguments: it is cut to
sixteen bits (`ItemComesBack`), and whatever event it becomes names its session
or player and has its own numbers in it (`BehindFirst`). `EventIsTold` does the
same for answers (`AnswerIsShown`), of which some have
nothing but their type, and says of those that fall short what is shown instead.

Only model-checked: `CommandsAreObeyed`, `AcceptedIsWritten`, `AttemptsEnd`,
`QueueDrains` and `TicksKeepComing`. They are liveness under fairness, which
is out of the prover's reach; of every other property that a run finds to hold
there is a theorem.

## 5. The plan

1. *(done)* Lobbies and games, with the refinement of `LobbyService` proved;
   connections; dungeons; what a session writes; frames; the client's connection; the way of a
   command and of its answer through the whole system.
2. *(done)* The event bus, with its proofs; everything that is written to be
   read; the two programs from their first line to the end of the process; the
   client's connection proved.
3. *(done)* Proofs for `Conversation`, for the two programs, for what the
   terminal reads, for the settings, for the frames and for what is in them: names,
   sentences and pictures.
4. The composition of connections with lobbies and dungeons (a player whose
   connection is lost, or for whom no place was found, stays in his lobby and
   game); that no worker thread runs a handler over what main has destroyed.

## 6. Not modelled

* The bytes of CBOR and its reference counts, which are libcbor's.
* `Settings::get` (called by nobody), its search of default paths, the dump,
  and the hooks the tests set; the format of a log record.
* The readers' Windows branches; a second start of a reader or of the game
  loop, which nobody makes.
* `addBarrier` and `removeBarrier`, which only tests call, and the arithmetic of
  positions that only they use.
* `client/manager`, which the build leaves out and which names types that the
  rest of the repository no longer has.
* The tests themselves, and the terminal's colours.

Data races proper, memory exhaustion and the wrap-around of 64-bit counters are
outside the models.
