----------------------------- MODULE ClientNetwork -----------------------------
(***************************************************************************)
(* The client's connection (client/network/client.cpp).  startConnect,     *)
(* disconnect and send only post to the strand; tasks is the strand's      *)
(* queue, with the handlers of completed operations among them.  The       *)
(* operations are external: a resolver that works its requests off one by  *)
(* one, and a socket that a connect closes and opens afresh.  Closing the  *)
(* socket completes whatever was under way on it with an error.            *)
(***************************************************************************)
EXTENDS Integers, Sequences, FiniteSets, Functions

CONSTANTS
  MaxQueueSize,  \* kMaxQueueSize
  MaxConnects,   \* bound: calls of startConnect
  MaxSends       \* bound: calls of send

ASSUME ClientAssumption == MaxQueueSize \in Nat \ {0} /\ MaxConnects \in Nat /\ MaxSends \in Nat

Attempt == 1..MaxConnects
Sent == 1..MaxSends

TaskKind ==
  {"start", "send", "disconnect", "resolved", "connected", "readDone", "written",
   "resolveFailed", "connectFailed", "readFailed", "writeFailed"}
\* nr is the attempt or the message.
Task == [do : TaskKind, nr : Nat]
Job(kind, nr) == [do |-> kind, nr |-> nr]

VARIABLES
  state,       \* state_
  writeQueue,  \* write_queue_
  writing,     \* writing_
  tasks,       \* what waits on strand_
  resolving,   \* the resolver's requests: attempt, and whether it was cancelled
  socket,      \* closed, or which attempt opened it and how far that got
  reads,       \* how many async_read_some are under way
  writes,      \* the messages of the async_writes under way
  (* history variables *)
  connects,    \* how often startConnect was called
  sends,       \* how often send was called
  crossed,     \* an attempt began with an earlier one's endpoints still to be used
  wire         \* the messages written, with the attempt whose connection took them

client == <<state, writeQueue, writing>>
network == <<resolving, socket, reads, writes>>
history == <<connects, sends, crossed, wire>>
vars == <<client, tasks, network, history>>

Closed == [is |-> "closed", by |-> 0]

TypeOK ==
  /\ state \in {"Disconnected", "Connecting", "Connected"}
  /\ writeQueue \in Seq(Sent) /\ Len(writeQueue) <= MaxQueueSize
  /\ writing \in BOOLEAN
  /\ tasks \in Seq(Task)
  /\ resolving \in Seq([attempt : Attempt, cancelled : BOOLEAN])
  /\ socket \in [is : {"connecting", "connected", "refused"}, by : Attempt] \cup {Closed}
  /\ reads \in Nat
  /\ writes \subseteq Sent
  /\ connects \in 0..MaxConnects /\ sends \in 0..MaxSends
  /\ crossed \in BOOLEAN
  /\ wire \in Seq(Attempt \X Sent)

Init ==
  /\ state = "Disconnected" /\ writeQueue = <<>> /\ writing = FALSE
  /\ tasks = <<>>
  /\ resolving = <<>> /\ socket = Closed /\ reads = 0 /\ writes = {}
  /\ connects = 0 /\ sends = 0 /\ crossed = FALSE /\ wire = <<>>

--------------------------------------------------------------------------------
(* Pieces of the handlers *)

Turn(kind) == tasks # <<>> /\ Head(tasks).do = kind
Nr == Head(tasks).nr

\* The handlers of what is under way on the socket, called because it closes.
Aborted ==
  (IF socket.is = "connecting" THEN <<Job("connectFailed", socket.by)>> ELSE <<>>)
    \o [i \in 1..reads |-> Job("readFailed", 0)]
    \o [i \in 1..Cardinality(writes) |-> Job("writeFailed", 0)]

\* closeSocket, with the task that runs taken from the queue.
CloseSocket ==
  /\ tasks' = Tail(tasks) \o Aborted
  /\ socket' = Closed /\ reads' = 0 /\ writes' = {}

ResetState == writeQueue' = <<>> /\ writing' = FALSE

\* Slip: the state is reset and the socket left open.
DisconnectKeepingSocket ==
  IF state = "Disconnected"
    THEN tasks' = Tail(tasks) /\ UNCHANGED <<client, socket, reads, writes>>
    ELSE state' = "Disconnected" /\ ResetState /\ tasks' = Tail(tasks) /\ UNCHANGED <<socket, reads, writes>>

\* Slip: only an established connection can end.
DisconnectWhenConnected ==
  IF state # "Connected"
    THEN tasks' = Tail(tasks) /\ UNCHANGED <<client, socket, reads, writes>>
    ELSE state' = "Disconnected" /\ ResetState /\ CloseSocket

HandleDisconnect ==
  IF state = "Disconnected"
    THEN tasks' = Tail(tasks) /\ UNCHANGED <<client, socket, reads, writes>>
    ELSE state' = "Disconnected" /\ ResetState /\ CloseSocket

\* Slip: the message is begun although another is being written.
DoWriteAtOnce(queue, busy) ==
  IF queue = <<>> \/ state # "Connected"
    THEN writeQueue' = queue /\ writing' = busy /\ UNCHANGED writes
    ELSE writeQueue' = Tail(queue) /\ writing' = TRUE /\ writes' = writes \cup {Head(queue)}

\* doWrite, with the queue and the flag as the handler leaves them.
DoWrite(queue, busy) ==
  IF queue = <<>> \/ busy \/ state # "Connected"
    THEN writeQueue' = queue /\ writing' = busy /\ UNCHANGED writes
    ELSE writeQueue' = Tail(queue) /\ writing' = TRUE /\ writes' = writes \cup {Head(queue)}

\* doRead.  Reading from a socket that another attempt has opened meanwhile
\* fails or waits until that one is connected.
DoRead(isConnected) ==
  IF ~isConnected THEN reads' = reads /\ tasks' = Tail(tasks) ELSE
  \/ reads' = reads + 1 /\ tasks' = Tail(tasks)
  \/ socket.is # "connected" /\ reads' = reads /\ tasks' = Append(Tail(tasks), Job("readFailed", 0))

--------------------------------------------------------------------------------
(* What the strand runs *)

Start ==
  /\ Turn("start")
  /\ ResetState /\ CloseSocket
  /\ state' = "Connecting"
  /\ resolving' = Append([i \in DOMAIN resolving |-> [attempt |-> resolving[i].attempt, cancelled |-> TRUE]],
                         [attempt |-> Nr, cancelled |-> FALSE])
  /\ crossed' = (crossed \/ \E i \in DOMAIN tasks : tasks[i].do = "resolved")
  /\ UNCHANGED <<connects, sends, wire>>

\* async_connect closes the socket and opens it again, whoever had it.
Resolved ==
  /\ Turn("resolved")
  /\ tasks' = Tail(tasks) \o Aborted
  /\ socket' = [is |-> "connecting", by |-> Nr] /\ reads' = 0 /\ writes' = {}
  /\ UNCHANGED <<client, resolving, history>>

\* A connect that succeeded counts as failed when its socket has been closed.
Connected ==
  /\ Turn("connected")
  /\ IF socket = Closed
       THEN HandleDisconnect
       ELSE state' = "Connected" /\ DoRead(TRUE) /\ UNCHANGED <<writeQueue, writing, socket, writes>>
  /\ UNCHANGED <<resolving, history>>

ReadDone ==
  /\ Turn("readDone")
  /\ DoRead(state = "Connected")
  /\ UNCHANGED <<client, resolving, socket, writes, history>>

\* Slip: a full queue takes one more.
SendOneTooMany ==
  /\ Turn("send") /\ tasks' = Tail(tasks)
  /\ IF state = "Connected" /\ socket # Closed /\ Len(writeQueue) <= MaxQueueSize
       THEN DoWrite(Append(writeQueue, Nr), writing)
       ELSE UNCHANGED <<writeQueue, writing, writes>>
  /\ UNCHANGED <<state, resolving, socket, reads, history>>

Send ==
  /\ Turn("send") /\ tasks' = Tail(tasks)
  /\ IF state = "Connected" /\ socket # Closed /\ Len(writeQueue) < MaxQueueSize
       THEN DoWrite(Append(writeQueue, Nr), writing)
       ELSE UNCHANGED <<writeQueue, writing, writes>>
  /\ UNCHANGED <<state, resolving, socket, reads, history>>

\* Slip: writing_ is not reset.
WrittenStillWriting ==
  /\ Turn("written") /\ tasks' = Tail(tasks)
  /\ DoWrite(writeQueue, writing)
  /\ UNCHANGED <<state, resolving, socket, reads, history>>

Written ==
  /\ Turn("written") /\ tasks' = Tail(tasks)
  /\ DoWrite(writeQueue, FALSE)
  /\ UNCHANGED <<state, resolving, socket, reads, history>>

Disconnect ==
  /\ \E kind \in {"disconnect", "resolveFailed", "connectFailed", "readFailed"} : Turn(kind)
  /\ HandleDisconnect
  /\ UNCHANGED <<resolving, history>>

WriteFailed ==
  /\ Turn("writeFailed")
  /\ IF state = "Disconnected"
       THEN writing' = FALSE /\ tasks' = Tail(tasks) /\ UNCHANGED <<state, writeQueue, socket, reads, writes>>
       ELSE HandleDisconnect
  /\ UNCHANGED <<resolving, history>>

--------------------------------------------------------------------------------
(* The callers, the resolver and the network *)

Post(kind, nr) == tasks' = Append(tasks, Job(kind, nr))

CallStartConnect ==
  /\ connects < MaxConnects     \* bound
  /\ connects' = connects + 1 /\ Post("start", connects')
  /\ UNCHANGED <<client, network, sends, crossed, wire>>

CallSend ==
  /\ sends < MaxSends     \* bound
  /\ sends' = sends + 1 /\ Post("send", sends')
  /\ UNCHANGED <<client, network, connects, crossed, wire>>

\* One call waiting is as good as many.
CallDisconnect ==
  /\ \A i \in DOMAIN tasks : tasks[i].do # "disconnect"     \* bound
  /\ Post("disconnect", 0)
  /\ UNCHANGED <<client, network, history>>

ResolveEnds ==
  /\ resolving # <<>> /\ resolving' = Tail(resolving)
  /\ LET request == Head(resolving) IN
       \/ Post("resolveFailed", request.attempt)
       \/ ~request.cancelled /\ Post("resolved", request.attempt)
  /\ UNCHANGED <<client, socket, reads, writes, history>>

\* A connect that fails leaves the socket open until its handler is run.
ConnectEnds ==
  /\ socket.is = "connecting"
  /\ \/ socket' = [socket EXCEPT !.is = "connected"] /\ Post("connected", socket.by)
     \/ socket' = [socket EXCEPT !.is = "refused"] /\ Post("connectFailed", socket.by)
  /\ UNCHANGED <<client, resolving, reads, writes, history>>

ReadEnds ==
  /\ reads > 0 /\ socket.is = "connected"
  /\ reads' = reads - 1
  /\ \E kind \in {"readDone", "readFailed"} : Post(kind, 0)
  /\ UNCHANGED <<client, resolving, socket, writes, history>>

WriteEnds(m) ==
  /\ m \in writes /\ socket.is = "connected"
  /\ writes' = writes \ {m}
  /\ \/ Post("written", 0) /\ wire' = Append(wire, <<socket.by, m>>)
     \/ Post("writeFailed", 0) /\ UNCHANGED wire
  /\ UNCHANGED <<client, resolving, socket, reads, connects, sends, crossed>>

--------------------------------------------------------------------------------
RunTask == Start \/ Resolved \/ Connected \/ ReadDone \/ Send \/ Written \/ Disconnect \/ WriteFailed

Next ==
  \/ RunTask
  \/ CallStartConnect \/ CallSend \/ CallDisconnect
  \/ ResolveEnds \/ ConnectEnds \/ ReadEnds
  \/ \E m \in Sent : WriteEnds(m)

Spec == Init /\ [][Next]_vars

\* The thread runs what is posted, and the resolver, a connect and a write end,
\* well or not.
Fairness ==
  WF_vars(RunTask) /\ WF_vars(ResolveEnds) /\ WF_vars(ConnectEnds) /\ WF_vars(\E m \in Sent : WriteEnds(m))

FairSpec == Spec /\ Fairness

--------------------------------------------------------------------------------
\* writing_ "prevents overlapping writes" (client.h:51), although it is reset with
\* the handlers of earlier connections still to run: unless attempts crossed.  Of
\* three that cross, one may be written to with a handler of another behind it,
\* which ends a write that is not its own and begins the next.
OneWriteAtATime == ~crossed => Cardinality(writes) <= 1

\* With the same exception a connection carries the messages in the order in which
\* send was called, and each at most once.
WrittenInOrder ==
  ~crossed => \A i, j \in DOMAIN wire : i < j /\ wire[i][1] = wire[j][1] => wire[i][2] < wire[j][2]

\* Unless attempts crossed, a client with nothing left to run is what it believes
\* to be: connected, with one read under way; at work on an attempt; or without a
\* connection, but for one that disconnect, which does not cancel the resolver,
\* came too early for.
BeliefIsTrue ==
  tasks = <<>> /\ ~crossed =>
    /\ state = "Connected" => socket.is = "connected" /\ reads = 1
    /\ state = "Connecting" => resolving # <<>> \/ socket.is = "connecting"
    /\ state = "Disconnected" => socket.is # "connected" /\ reads = 0 /\ writes = {}

(* What makes the three inductive *)

None(kinds) == \A i \in DOMAIN tasks : tasks[i].do \notin kinds
One(kinds) == \E i \in DOMAIN tasks : \A j \in DOMAIN tasks : tasks[j].do \in kinds <=> j = i

\* The handlers of a connection, once it is there.
OfReads == {"readDone", "readFailed"}
OfWrites == {"written", "writeFailed"}
OfConnection == {"connected"} \cup OfReads \cup OfWrites

Asked == \E i \in DOMAIN resolving : ~resolving[i].cancelled
Pending == Asked \/ ~None({"resolved"})

\* What is left of earlier connections is handled before an attempt uses its endpoints.
EarlierFirst ==
  \A i, j \in DOMAIN tasks : tasks[i].do = "resolved" /\ tasks[j].do \in OfConnection => j < i

\* At most one attempt has still to use them.
OneChain ==
  /\ Asked => None({"resolved"})
  /\ \A i \in DOMAIN resolving : ~resolving[i].cancelled => i = Len(resolving)
  /\ None({"resolved"}) \/ One({"resolved"})
  /\ EarlierFirst

\* The socket is that attempt's, from its resolution on.
SocketFits ==
  /\ Pending => socket = Closed
  /\ state = "Connected" => socket.is = "connected" /\ None({"connected"})
  /\ socket.is \in {"connecting", "refused"} => None(OfConnection)
  /\ socket.is = "connected" /\ state # "Connected" =>
       One({"connected"}) /\ None(OfReads) /\ None(OfWrites)

\* One read, or its handler; one write, or its handler, while writing_ is set.
OneOfEach ==
  IF state = "Connected"
  THEN /\ \/ reads = 1 /\ None(OfReads)
          \/ reads = 0 /\ One(OfReads)
       /\ \/ ~writing /\ writes = {} /\ None(OfWrites)
          \/ writing /\ None(OfWrites) /\ \E m \in Sent : writes = {m}
          \/ writing /\ writes = {} /\ One(OfWrites)
  ELSE reads = 0 /\ writes = {} /\ ~writing /\ writeQueue = <<>>

\* What is connecting has somebody to end it.
AttemptGoesOn ==
  state = "Connecting" =>
    Pending \/ socket.is = "connecting" \/ ~None({"connected", "connectFailed", "resolveFailed"})

\* Messages written, being written, queued and to be sent are in this order.
Ordered(written, underWay, queue, waiting) ==
  /\ \A i, j \in DOMAIN written : i < j => written[i][2] < written[j][2]
  /\ \A i, j \in DOMAIN queue : i < j => queue[i] < queue[j]
  /\ \A i, j \in DOMAIN waiting :
       i < j /\ waiting[i].do = "send" /\ waiting[j].do = "send" => waiting[i].nr < waiting[j].nr
  /\ \A i \in DOMAIN written :
       /\ \A m \in underWay : written[i][2] < m
       /\ \A j \in DOMAIN queue : written[i][2] < queue[j]
       /\ \A j \in DOMAIN waiting : waiting[j].do = "send" => written[i][2] < waiting[j].nr
  /\ \A m \in underWay :
       /\ \A j \in DOMAIN queue : m < queue[j]
       /\ \A j \in DOMAIN waiting : waiting[j].do = "send" => m < waiting[j].nr
  /\ \A i \in DOMAIN queue, j \in DOMAIN waiting :
       waiting[j].do = "send" => queue[i] < waiting[j].nr

InOrder == Ordered(wire, writes, writeQueue, tasks)

\* Numbers are of calls that were made.
Numbered ==
  /\ \A i \in DOMAIN tasks :
       /\ tasks[i].do \in {"start", "resolved"} => tasks[i].nr \in Attempt
       /\ tasks[i].do = "send" => tasks[i].nr \in 1..sends
  /\ \A i \in DOMAIN writeQueue : writeQueue[i] <= sends
  /\ \A m \in writes : m <= sends
  /\ \A i \in DOMAIN wire : wire[i][2] <= sends

Inductive ==
  /\ Numbered /\ AttemptGoesOn
  /\ ~crossed => OneChain /\ SocketFits /\ OneOfEach /\ InOrder

\* No attempt is left hanging, whatever is called meanwhile.
AttemptsEnd == state = "Connecting" ~> state # "Connecting"

\* A message that entered the queue is written or given up with the connection:
\* no handler leaves the queue without a write that will take the next one.
QueueDrains ==
  \A m \in Sent : m \in Range(writeQueue) ~> m \notin Range(writeQueue)

================================================================================
