-------------------------- MODULE ClientNetworkProofs --------------------------
(***************************************************************************)
(* What holds of the client's connection for any number of attempts, of    *)
(* messages and any limit of the queue: as long as no two attempts cross,  *)
(* one message is written at a time and in order, and the client is what   *)
(* it believes to be.                                                      *)
(***************************************************************************)
EXTENDS ClientNetwork, FiniteSetTheorems, TLAPS

USE DEF client, network, history, vars

Good == TypeOK /\ Inductive

--------------------------------------------------------------------------------
(* The strand's queue: a task leaves it at the front, others come behind.  *)

\* The front task is taken, and the handlers added are of the kinds given.
Continues(added) ==
  /\ tasks # <<>>
  /\ \E extra \in Seq(Task) :
       /\ tasks' = Tail(tasks) \o extra
       /\ \A i \in DOMAIN extra : extra[i].do \in added

LEMMA PopContinues ==
  ASSUME tasks \in Seq(Task), tasks # <<>>, tasks' = Tail(tasks), NEW added
  PROVE  Continues(added)
<1>1. <<>> \in Seq(Task) /\ tasks' = Tail(tasks) \o <<>> /\ DOMAIN <<>> = {}
  OBVIOUS
<1> QED
  BY <1>1 DEF Continues

LEMMA Joined ==
  ASSUME NEW s \in Seq(Task), NEW t \in Seq(Task)
  PROVE  /\ s \o t \in Seq(Task)
         /\ \A i \in DOMAIN s : i \in DOMAIN (s \o t) /\ (s \o t)[i] = s[i]
         /\ \A i \in DOMAIN (s \o t) :
              i \in DOMAIN s \/ (i - Len(s) \in DOMAIN t /\ (s \o t)[i] = t[i - Len(s)])
         /\ DOMAIN (s \o t) \subseteq Int
OBVIOUS

LEMMA Continued ==
  ASSUME tasks \in Seq(Task), NEW added, Continues(added)
  PROVE  /\ tasks' \in Seq(Task)
         /\ \A i \in DOMAIN tasks' :
              (i + 1 \in DOMAIN tasks /\ tasks'[i] = tasks[i + 1]) \/ tasks'[i].do \in added
         /\ \A i \in DOMAIN tasks : i # 1 => i - 1 \in DOMAIN tasks' /\ tasks'[i - 1] = tasks[i]
         /\ 1 \in DOMAIN tasks /\ Head(tasks) = tasks[1]
         /\ DOMAIN tasks \subseteq Int /\ DOMAIN tasks' \subseteq Int
<1>1. PICK extra \in Seq(Task) :
        tasks' = Tail(tasks) \o extra /\ \A i \in DOMAIN extra : extra[i].do \in added
  BY DEF Continues
<1>2. tasks # <<>>
  BY DEF Continues
<1> DEFINE rest == Tail(tasks)
<1>3. /\ rest \in Seq(Task) /\ Len(rest) = Len(tasks) - 1 /\ Len(tasks) \in Nat
      /\ DOMAIN rest = 1 .. (Len(tasks) - 1) /\ DOMAIN tasks = 1 .. Len(tasks)
      /\ \A i \in DOMAIN rest : rest[i] = tasks[i + 1]
      /\ Head(tasks) = tasks[1] /\ 1 \in DOMAIN tasks
  BY <1>2
<1> HIDE DEF rest
<1>4. /\ tasks' \in Seq(Task)
      /\ \A i \in DOMAIN rest : i \in DOMAIN tasks' /\ tasks'[i] = rest[i]
      /\ \A i \in DOMAIN tasks' :
           i \in DOMAIN rest \/ (i - Len(rest) \in DOMAIN extra /\ tasks'[i] = extra[i - Len(rest)])
      /\ DOMAIN tasks' \subseteq Int
  <2>1. tasks' = rest \o extra
    BY <1>1 DEF rest
  <2> QED
    BY <2>1, <1>3, Joined
<1>5. \A i \in DOMAIN tasks' :
        (i + 1 \in DOMAIN tasks /\ tasks'[i] = tasks[i + 1]) \/ tasks'[i].do \in added
  BY <1>1, <1>3, <1>4
<1>6. \A i \in DOMAIN tasks : i # 1 => i - 1 \in DOMAIN tasks' /\ tasks'[i - 1] = tasks[i]
  <2> SUFFICES ASSUME NEW i \in DOMAIN tasks, i # 1
               PROVE  i - 1 \in DOMAIN tasks' /\ tasks'[i - 1] = tasks[i]
    OBVIOUS
  <2>1. i - 1 \in DOMAIN rest /\ (i - 1) + 1 = i
    BY <1>3
  <2> QED
    BY <2>1, <1>3, <1>4
<1> QED
  BY <1>3, <1>4, <1>5, <1>6

LEMMA KindsContinue ==
  ASSUME tasks \in Seq(Task), NEW added, Continues(added), NEW kinds, kinds \cap added = {}
  PROVE  /\ None(kinds) => None(kinds)'
         /\ One(kinds) /\ Head(tasks).do \in kinds => None(kinds)'
         /\ One(kinds) /\ Head(tasks).do \notin kinds => One(kinds)'
         /\ ~None(kinds) /\ Head(tasks).do \notin kinds => ~None(kinds)'
         /\ Head(tasks).do \in kinds => ~None(kinds)
<1>1. /\ \A i \in DOMAIN tasks' :
           (i + 1 \in DOMAIN tasks /\ tasks'[i] = tasks[i + 1]) \/ tasks'[i].do \notin kinds
      /\ \A i \in DOMAIN tasks : i # 1 => i - 1 \in DOMAIN tasks' /\ tasks'[i - 1] = tasks[i]
      /\ 1 \in DOMAIN tasks /\ Head(tasks) = tasks[1]
      /\ DOMAIN tasks \subseteq Int /\ DOMAIN tasks' \subseteq Int
  BY Continued
<1>2. None(kinds) => None(kinds)'
  BY <1>1 DEF None
<1>3. ASSUME One(kinds), Head(tasks).do \in kinds
      PROVE  None(kinds)'
  <2>1. \A j \in DOMAIN tasks : tasks[j].do \in kinds => j = 1
    BY <1>1, <1>3 DEF One
  <2>2. \A j \in DOMAIN tasks' : j + 1 \in DOMAIN tasks => j # 0
    BY <1>1, Continued
  <2> QED
    BY <1>1, <2>1, <2>2, Continued DEF None
<1>4. ASSUME One(kinds), Head(tasks).do \notin kinds
      PROVE  One(kinds)'
  <2>1. PICK k \in DOMAIN tasks : \A j \in DOMAIN tasks : tasks[j].do \in kinds <=> j = k
    BY <1>4 DEF One
  <2>2. k # 1 /\ k - 1 \in DOMAIN tasks' /\ tasks'[k - 1] = tasks[k] /\ k \in Int
    BY <1>1, <1>4, <2>1
  <2>3. ASSUME NEW j \in DOMAIN tasks', tasks'[j].do \in kinds
        PROVE  j = k - 1
    <3>1. j + 1 \in DOMAIN tasks /\ tasks[j + 1].do \in kinds
      BY <1>1, <2>3
    <3>2. j + 1 = k /\ j \in Int
      BY <1>1, <2>1, <3>1
    <3> QED
      BY <3>2, <2>2
  <2>4. tasks'[k - 1].do \in kinds
    BY <2>1, <2>2
  <2> QED
    BY <2>2, <2>3, <2>4 DEF One
<1>5. ~None(kinds) /\ Head(tasks).do \notin kinds => ~None(kinds)'
  BY <1>1 DEF None
<1>6. Head(tasks).do \in kinds => ~None(kinds)
  BY <1>1 DEF None
<1> QED
  BY <1>2, <1>3, <1>4, <1>5, <1>6

LEMMA Posted ==
  ASSUME tasks \in Seq(Task), NEW job \in Task, tasks' = Append(tasks, job)
  PROVE  /\ tasks' \in Seq(Task)
         /\ Len(tasks') = Len(tasks) + 1
         /\ \A i \in DOMAIN tasks : i \in DOMAIN tasks' /\ tasks'[i] = tasks[i]
         /\ \A i \in DOMAIN tasks' : i \in DOMAIN tasks \/ i = Len(tasks) + 1
         /\ Len(tasks) + 1 \in DOMAIN tasks' /\ tasks'[Len(tasks) + 1] = job
         /\ \A i \in DOMAIN tasks : i < Len(tasks) + 1
OBVIOUS

LEMMA PostedKinds ==
  ASSUME tasks \in Seq(Task), NEW job \in Task, tasks' = Append(tasks, job), NEW kinds
  PROVE  /\ None(kinds) /\ job.do \notin kinds => None(kinds)'
         /\ One(kinds) /\ job.do \notin kinds => One(kinds)'
         /\ None(kinds) /\ job.do \in kinds => One(kinds)'
         /\ ~None(kinds) \/ job.do \in kinds => ~None(kinds)'
<1>1. /\ \A i \in DOMAIN tasks : i \in DOMAIN tasks' /\ tasks'[i] = tasks[i]
      /\ \A i \in DOMAIN tasks' : i \in DOMAIN tasks \/ i = Len(tasks) + 1
      /\ Len(tasks) + 1 \in DOMAIN tasks' /\ tasks'[Len(tasks) + 1] = job
      /\ \A i \in DOMAIN tasks : i # Len(tasks) + 1
  BY Posted
<1>2. None(kinds) /\ job.do \notin kinds => None(kinds)'
  BY <1>1 DEF None
<1>3. ASSUME One(kinds), job.do \notin kinds
      PROVE  One(kinds)'
  <2>1. PICK k \in DOMAIN tasks : \A j \in DOMAIN tasks : tasks[j].do \in kinds <=> j = k
    BY <1>3 DEF One
  <2>2. k \in DOMAIN tasks' /\ \A j \in DOMAIN tasks' : tasks'[j].do \in kinds <=> j = k
    BY <1>1, <1>3, <2>1
  <2> QED
    BY <2>2 DEF One
<1>4. None(kinds) /\ job.do \in kinds => One(kinds)'
  BY <1>1 DEF None, One
<1>5. ~None(kinds) \/ job.do \in kinds => ~None(kinds)'
  BY <1>1 DEF None
<1> QED
  BY <1>2, <1>3, <1>4, <1>5

LEMMA JobsAreTasks ==
  ASSUME NEW kind \in TaskKind, NEW nr \in Nat
  PROVE  Job(kind, nr) \in Task /\ Job(kind, nr).do = kind /\ Job(kind, nr).nr = nr
BY DEF Job, Task

\* One handler many times, as closing makes them.
LEMMA SameTaskManyTimes ==
  ASSUME NEW n \in Nat, NEW task \in Task
  PROVE  /\ [i \in 1 .. n |-> task] \in Seq(Task)
         /\ Len([i \in 1 .. n |-> task]) = n
         /\ \A i \in DOMAIN [j \in 1 .. n |-> task] : [j \in 1 .. n |-> task][i] = task
OBVIOUS

LEMMA WritesAreFinite ==
  ASSUME TypeOK
  PROVE  IsFiniteSet(writes) /\ Cardinality(writes) \in Nat /\ (writes = {} => Cardinality(writes) = 0)
<1>1. IsFiniteSet(Sent)
  BY FS_Interval, ClientAssumption DEF Sent
<1> QED
  BY <1>1, FS_Subset, FS_CardinalityType, FS_EmptySet DEF TypeOK

\* Closing a socket calls handlers of a connection or of its connect.
LEMMA AbortedTasks ==
  ASSUME TypeOK
  PROVE  /\ Aborted \in Seq(Task)
         /\ \A i \in DOMAIN Aborted : Aborted[i].do \in {"connectFailed", "readFailed", "writeFailed"}
         /\ socket.is # "connecting" /\ reads = 0 /\ writes = {} => Aborted = <<>>
         /\ reads = 0 /\ writes = {} => \A i \in DOMAIN Aborted : Aborted[i].do = "connectFailed"
<1> DEFINE connect == IF socket.is = "connecting" THEN <<Job("connectFailed", socket.by)>> ELSE <<>>
           read == [i \in 1 .. reads |-> Job("readFailed", 0)]
           write == [i \in 1 .. Cardinality(writes) |-> Job("writeFailed", 0)]
<1>1. /\ connect \in Seq(Task) /\ \A i \in DOMAIN connect : connect[i].do = "connectFailed"
      /\ socket.is # "connecting" => connect = <<>>
  <2>1. socket.is = "connecting" => socket.by \in Nat
    BY ClientAssumption DEF TypeOK, Attempt, Closed
  <2> QED
    BY <2>1, JobsAreTasks DEF TaskKind
<1>2. /\ read \in Seq(Task) /\ \A i \in DOMAIN read : read[i].do = "readFailed"
      /\ Len(read) = reads
  <2>1. reads \in Nat /\ Job("readFailed", 0) \in Task /\ Job("readFailed", 0).do = "readFailed"
    BY JobsAreTasks DEF TypeOK, TaskKind
  <2> QED
    BY <2>1, SameTaskManyTimes
<1>3. /\ write \in Seq(Task) /\ \A i \in DOMAIN write : write[i].do = "writeFailed"
      /\ Len(write) = Cardinality(writes)
  <2>1. Job("writeFailed", 0) \in Task /\ Job("writeFailed", 0).do = "writeFailed"
    BY JobsAreTasks DEF TaskKind
  <2> QED
    BY <2>1, SameTaskManyTimes, WritesAreFinite
<1>4. writes = {} => Cardinality(writes) = 0
  BY WritesAreFinite
<1>5. Aborted = (connect \o read) \o write
  BY DEF Aborted
<1> HIDE DEF connect, read, write
<1>6. Aborted \in Seq(Task)
  BY <1>1, <1>2, <1>3, <1>5
<1>7. \A i \in DOMAIN Aborted :
        \/ \E j \in DOMAIN connect : Aborted[i] = connect[j]
        \/ \E j \in DOMAIN read : Aborted[i] = read[j]
        \/ \E j \in DOMAIN write : Aborted[i] = write[j]
  <2>1. connect \o read \in Seq(Task)
    BY <1>1, <1>2
  <2>2. \A i \in DOMAIN (connect \o read) :
          \/ \E j \in DOMAIN connect : (connect \o read)[i] = connect[j]
          \/ \E j \in DOMAIN read : (connect \o read)[i] = read[j]
    BY <1>1, <1>2
  <2>3. \A i \in DOMAIN Aborted :
          \/ \E j \in DOMAIN (connect \o read) : Aborted[i] = (connect \o read)[j]
          \/ \E j \in DOMAIN write : Aborted[i] = write[j]
    BY <2>1, <1>3, <1>5
  <2> QED
    BY <2>2, <2>3
<1>8. \A i \in DOMAIN Aborted : Aborted[i].do \in {"connectFailed", "readFailed", "writeFailed"}
  BY <1>1, <1>2, <1>3, <1>7
<1>9. reads = 0 /\ writes = {} => read = <<>> /\ write = <<>>
  BY <1>2, <1>3, <1>4
<1>10. reads = 0 /\ writes = {} => Aborted = connect
  BY <1>1, <1>5, <1>9
<1> QED
  BY <1>1, <1>6, <1>8, <1>10

Closing == {"connectFailed", "readFailed", "writeFailed"}

LEMMA CloseContinues ==
  ASSUME TypeOK, tasks # <<>>, tasks' = Tail(tasks) \o Aborted
  PROVE  /\ Continues(Closing)
         /\ reads = 0 /\ writes = {} => Continues({"connectFailed"})
BY AbortedTasks DEF Continues, Closing

LEMMA ReadContinues ==
  ASSUME TypeOK, tasks # <<>>, NEW b \in BOOLEAN, DoRead(b)
  PROVE  Continues(Closing) /\ reads' \in Nat
<1>1. tasks \in Seq(Task) /\ reads \in Nat
  BY DEF TypeOK
<1>2. CASE tasks' = Tail(tasks)
  BY <1>1, <1>2, PopContinues DEF DoRead
<1>3. CASE tasks' = Append(Tail(tasks), Job("readFailed", 0))
  <2>1. Job("readFailed", 0) \in Task /\ Job("readFailed", 0).do = "readFailed"
    BY JobsAreTasks DEF TaskKind
  <2> DEFINE extra == <<Job("readFailed", 0)>>
  <2>2. tasks' = Tail(tasks) \o extra
    BY <1>1, <1>3, <2>1
  <2>3. extra \in Seq(Task) /\ \A i \in DOMAIN extra : extra[i].do = "readFailed"
    BY <2>1
  <2> HIDE DEF extra
  <2>4. Continues(Closing)
    BY <2>2, <2>3 DEF Continues, Closing
  <2> QED
    BY <1>1, <2>4 DEF DoRead
<1> QED
  BY <1>2, <1>3 DEF DoRead

LEMMA DisconnectContinues ==
  ASSUME TypeOK, tasks # <<>>, HandleDisconnect
  PROVE  Continues(Closing)
<1>1. CASE tasks' = Tail(tasks)
  BY <1>1, PopContinues DEF TypeOK
<1>2. CASE tasks' = Tail(tasks) \o Aborted
  BY <1>2, CloseContinues
<1> QED
  BY <1>1, <1>2 DEF HandleDisconnect, CloseSocket

\* Whatever the strand runs takes one task and may close the socket.
LEMMA RunContinues ==
  ASSUME TypeOK, RunTask
  PROVE  tasks # <<>> /\ Continues(Closing)
<1>1. tasks # <<>> /\ tasks \in Seq(Task)
  BY DEF TypeOK, RunTask, Turn, Start, Resolved, Connected, ReadDone, Send, Written, Disconnect, WriteFailed
<1>2. CASE tasks' = Tail(tasks)
  BY <1>1, <1>2, PopContinues
<1>3. CASE tasks' = Tail(tasks) \o Aborted
  BY <1>1, <1>3, CloseContinues
<1>4. CASE HandleDisconnect
  BY <1>1, <1>4, DisconnectContinues
<1>5. CASE \E b \in BOOLEAN : DoRead(b)
  BY <1>1, <1>5, ReadContinues
<1>6. \/ tasks' = Tail(tasks) \/ tasks' = Tail(tasks) \o Aborted
      \/ HandleDisconnect \/ \E b \in BOOLEAN : DoRead(b)
  BY DEF RunTask, Start, Resolved, Connected, ReadDone, Send, Written, Disconnect, WriteFailed, CloseSocket
<1> QED
  BY <1>1, <1>2, <1>3, <1>4, <1>5, <1>6

--------------------------------------------------------------------------------
(* Types, and numbers that are of calls made *)

LEMMA NumbersContinue ==
  ASSUME TypeOK, Numbered, Continues(Closing), sends' = sends
  PROVE  /\ tasks' \in Seq(Task)
         /\ \A i \in DOMAIN tasks' :
              /\ tasks'[i].do \in {"start", "resolved"} => tasks'[i].nr \in Attempt
              /\ tasks'[i].do = "send" => tasks'[i].nr \in 1 .. sends'
<1>1. /\ tasks' \in Seq(Task)
      /\ \A i \in DOMAIN tasks' :
           (i + 1 \in DOMAIN tasks /\ tasks'[i] = tasks[i + 1]) \/ tasks'[i].do \in Closing
  BY Continued DEF TypeOK
<1>2. \A i \in DOMAIN tasks :
        /\ tasks[i].do \in {"start", "resolved"} => tasks[i].nr \in Attempt
        /\ tasks[i].do = "send" => tasks[i].nr \in 1 .. sends
  BY DEF Numbered
<1> QED
  BY <1>1, <1>2 DEF Closing

LEMMA HeadNumber ==
  ASSUME TypeOK, Numbered, tasks # <<>>
  PROVE  /\ Head(tasks).do \in {"start", "resolved"} => Nr \in Attempt
         /\ Head(tasks).do = "send" => Nr \in 1 .. sends /\ Nr \in Sent
<1>1. 1 \in DOMAIN tasks /\ Head(tasks) = tasks[1]
  BY DEF TypeOK
<1> QED
  BY <1>1, ClientAssumption DEF TypeOK, Numbered, Nr, Sent

LEMMA WriteTypes ==
  ASSUME TypeOK, Numbered, NEW queue \in Seq(Sent), NEW busy \in BOOLEAN,
         Len(queue) <= MaxQueueSize, \A i \in DOMAIN queue : queue[i] <= sends,
         DoWrite(queue, busy)
  PROVE  /\ writeQueue' \in Seq(Sent) /\ Len(writeQueue') <= MaxQueueSize
         /\ writing' \in BOOLEAN /\ writes' \subseteq Sent
         /\ \A i \in DOMAIN writeQueue' : writeQueue'[i] <= sends
         /\ \A m \in writes' : m <= sends
<1>1. CASE writeQueue' = queue /\ writing' = busy /\ writes' = writes
  BY <1>1 DEF TypeOK, Numbered
<1>2. CASE /\ queue # <<>> /\ writeQueue' = Tail(queue) /\ writing' = TRUE
           /\ writes' = writes \cup {Head(queue)}
  <2>1. /\ Tail(queue) \in Seq(Sent) /\ Len(Tail(queue)) <= MaxQueueSize
        /\ Head(queue) \in Sent /\ Head(queue) <= sends
        /\ \A i \in DOMAIN Tail(queue) : Tail(queue)[i] <= sends
    BY <1>2, ClientAssumption
  <2> QED
    BY <1>2, <2>1 DEF TypeOK, Numbered
<1> QED
  BY <1>1, <1>2 DEF DoWrite

\* What closing the socket and resetting the state leaves behind.
LEMMA ClosedTypes ==
  ASSUME TypeOK, ResetState, socket' = Closed, reads' = 0, writes' = {}
  PROVE  /\ writeQueue' \in Seq(Sent) /\ Len(writeQueue') <= MaxQueueSize /\ writing' \in BOOLEAN
         /\ socket' \in [is : {"connecting", "connected", "refused"}, by : Attempt] \cup {Closed}
         /\ reads' \in Nat /\ writes' \subseteq Sent
         /\ \A i \in DOMAIN writeQueue' : writeQueue'[i] <= sends
         /\ \A m \in writes' : m <= sends
<1>1. <<>> \in Seq(Sent) /\ Len(<<>>) = 0 /\ DOMAIN <<>> = {}
  OBVIOUS
<1>2. 0 <= MaxQueueSize
  BY ClientAssumption
<1> QED
  BY <1>1, <1>2 DEF ResetState

LEMMA DisconnectTypes ==
  ASSUME TypeOK, Numbered, tasks # <<>>, HandleDisconnect, UNCHANGED <<resolving, history>>
  PROVE  TypeOK' /\ Numbered'
<1>1. Continues(Closing)
  BY DisconnectContinues
<1>2. CASE UNCHANGED <<client, socket, reads, writes>>
  BY <1>1, <1>2, NumbersContinue DEF TypeOK, Numbered
<1>3. CASE state' = "Disconnected" /\ ResetState /\ CloseSocket
  <2>1. /\ writeQueue' \in Seq(Sent) /\ Len(writeQueue') <= MaxQueueSize /\ writing' \in BOOLEAN
        /\ socket' \in [is : {"connecting", "connected", "refused"}, by : Attempt] \cup {Closed}
        /\ reads' \in Nat /\ writes' \subseteq Sent
        /\ \A i \in DOMAIN writeQueue' : writeQueue'[i] <= sends
        /\ \A m \in writes' : m <= sends
    BY <1>3, ClosedTypes DEF CloseSocket
  <2> QED
    BY <1>1, <1>3, <2>1, NumbersContinue DEF TypeOK, Numbered
<1> QED
  BY <1>2, <1>3 DEF HandleDisconnect

LEMMA RunTypes ==
  ASSUME TypeOK, Numbered, RunTask
  PROVE  TypeOK' /\ Numbered'
<1>1. tasks # <<>> /\ Continues(Closing)
  BY RunContinues
<1>2. CASE Start
  <2>1. Nr \in Attempt /\ sends' = sends
    BY <1>1, <1>2, HeadNumber DEF Start, Turn
  <2>2. resolving' \in Seq([attempt : Attempt, cancelled : BOOLEAN])
    <3> DEFINE Request == [attempt : Attempt, cancelled : BOOLEAN]
               old == [i \in DOMAIN resolving |-> [attempt |-> resolving[i].attempt, cancelled |-> TRUE]]
    <3>1. resolving \in Seq(Request)
      BY DEF TypeOK
    <3>2. old \in Seq(Request)
      <4> HIDE DEF Request
      <4>1. \A i \in DOMAIN resolving : resolving[i] \in Request
        BY <3>1
      <4>2. \A i \in DOMAIN resolving : resolving[i].attempt \in Attempt
        BY <4>1 DEF Request
      <4>3. \A i \in DOMAIN resolving : [attempt |-> resolving[i].attempt, cancelled |-> TRUE] \in Request
        BY <4>2 DEF Request
      <4>4. DOMAIN resolving = 1 .. Len(resolving) /\ Len(resolving) \in Nat
        BY <3>1
      <4>5. old \in [1 .. Len(resolving) -> Request]
        BY <4>3, <4>4
      <4> HIDE DEF old
      <4> QED
        BY <4>4, <4>5
    <3>3. [attempt |-> Nr, cancelled |-> FALSE] \in Request
      BY <2>1
    <3> HIDE DEF Request
    <3>4. Append(old, [attempt |-> Nr, cancelled |-> FALSE]) \in Seq(Request)
      BY <3>2, <3>3
    <3> QED
      BY <1>2, <3>4 DEF Start, Request
  <2>3. /\ writeQueue' \in Seq(Sent) /\ Len(writeQueue') <= MaxQueueSize /\ writing' \in BOOLEAN
        /\ socket' \in [is : {"connecting", "connected", "refused"}, by : Attempt] \cup {Closed}
        /\ reads' \in Nat /\ writes' \subseteq Sent
        /\ \A i \in DOMAIN writeQueue' : writeQueue'[i] <= sends
        /\ \A m \in writes' : m <= sends
    BY <1>2, ClosedTypes DEF Start, CloseSocket
  <2>4. /\ state' \in {"Disconnected", "Connecting", "Connected"} /\ crossed' \in BOOLEAN
        /\ UNCHANGED <<connects, sends, wire>>
    BY <1>2 DEF TypeOK, Start
  <2> QED
    BY <1>1, <1>2, <2>1, <2>2, <2>3, <2>4, NumbersContinue DEF TypeOK, Numbered
<1>3. CASE Resolved
  <2>1. Nr \in Attempt /\ sends' = sends
    BY <1>1, <1>3, HeadNumber DEF Resolved, Turn
  <2>2. socket' \in [is : {"connecting", "connected", "refused"}, by : Attempt]
    BY <1>3, <2>1 DEF Resolved
  <2> QED
    BY <1>1, <1>3, <2>1, <2>2, NumbersContinue DEF TypeOK, Numbered, Resolved
<1>4. CASE Connected
  <2>1. CASE HandleDisconnect
    BY <1>1, <1>4, <2>1, DisconnectTypes DEF Connected
  <2>2. CASE state' = "Connected" /\ DoRead(TRUE) /\ UNCHANGED <<writeQueue, writing, socket, writes>>
    BY <1>1, <1>4, <2>2, NumbersContinue, ReadContinues DEF TypeOK, Numbered, Connected
  <2> QED
    BY <1>4, <2>1, <2>2 DEF Connected
<1>5. CASE ReadDone
  <2>1. DoRead(state = "Connected") /\ (state = "Connected") \in BOOLEAN
    BY <1>5 DEF ReadDone
  <2>2. reads' \in Nat
    BY <1>1, <2>1, ReadContinues
  <2> QED
    BY <1>1, <1>5, <2>2, NumbersContinue DEF TypeOK, Numbered, ReadDone
<1>6. CASE Send
  <2>1. CASE UNCHANGED <<writeQueue, writing, writes>>
    BY <1>1, <1>6, <2>1, NumbersContinue DEF TypeOK, Numbered, Send
  <2>2. CASE Len(writeQueue) < MaxQueueSize /\ DoWrite(Append(writeQueue, Nr), writing)
    <3>1. Nr \in Sent /\ Nr <= sends
      BY <1>1, <1>6, HeadNumber DEF Send, Turn, Sent
    <3>2. /\ writeQueue \in Seq(Sent) /\ writing \in BOOLEAN
          /\ \A i \in DOMAIN writeQueue : writeQueue[i] <= sends
      BY DEF TypeOK, Numbered
    <3>3. /\ Append(writeQueue, Nr) \in Seq(Sent)
          /\ Len(Append(writeQueue, Nr)) <= MaxQueueSize
          /\ \A i \in DOMAIN Append(writeQueue, Nr) : Append(writeQueue, Nr)[i] <= sends
      BY <2>2, <3>1, <3>2, ClientAssumption
    <3>4. /\ writeQueue' \in Seq(Sent) /\ Len(writeQueue') <= MaxQueueSize
          /\ writing' \in BOOLEAN /\ writes' \subseteq Sent
          /\ \A i \in DOMAIN writeQueue' : writeQueue'[i] <= sends
          /\ \A m \in writes' : m <= sends
      BY <2>2, <3>2, <3>3, WriteTypes
    <3> QED
      BY <1>1, <1>6, <3>4, NumbersContinue DEF TypeOK, Numbered, Send
  <2> QED
    BY <1>6, <2>1, <2>2 DEF Send
<1>7. CASE Written
  <2>1. /\ writeQueue' \in Seq(Sent) /\ Len(writeQueue') <= MaxQueueSize
        /\ writing' \in BOOLEAN /\ writes' \subseteq Sent
        /\ \A i \in DOMAIN writeQueue' : writeQueue'[i] <= sends
        /\ \A m \in writes' : m <= sends
    BY <1>7, WriteTypes DEF TypeOK, Numbered, Written
  <2> QED
    BY <1>1, <1>7, <2>1, NumbersContinue DEF TypeOK, Numbered, Written
<1>8. CASE Disconnect
  BY <1>1, <1>8, DisconnectTypes DEF Disconnect
<1>9. CASE WriteFailed
  <2>1. CASE HandleDisconnect
    BY <1>1, <1>9, <2>1, DisconnectTypes DEF WriteFailed
  <2>2. CASE writing' = FALSE /\ UNCHANGED <<state, writeQueue, socket, reads, writes>>
    BY <1>1, <1>9, <2>2, NumbersContinue DEF TypeOK, Numbered, WriteFailed
  <2> QED
    BY <1>9, <2>1, <2>2 DEF WriteFailed
<1> QED
  BY <1>2, <1>3, <1>4, <1>5, <1>6, <1>7, <1>8, <1>9 DEF RunTask

LEMMA NumbersPosted ==
  ASSUME TypeOK, Numbered, NEW job \in Task, tasks' = Append(tasks, job),
         sends' \in Nat, sends <= sends',
         job.do \in {"start", "resolved"} => job.nr \in Attempt,
         job.do = "send" => job.nr \in 1 .. sends'
  PROVE  /\ tasks' \in Seq(Task)
         /\ \A i \in DOMAIN tasks' :
              /\ tasks'[i].do \in {"start", "resolved"} => tasks'[i].nr \in Attempt
              /\ tasks'[i].do = "send" => tasks'[i].nr \in 1 .. sends'
<1>1. /\ tasks' \in Seq(Task)
      /\ \A i \in DOMAIN tasks' : (i \in DOMAIN tasks /\ tasks'[i] = tasks[i]) \/ tasks'[i] = job
  BY Posted DEF TypeOK
<1>2. \A i \in DOMAIN tasks :
        /\ tasks[i].do \in {"start", "resolved"} => tasks[i].nr \in Attempt
        /\ tasks[i].do = "send" => tasks[i].nr \in 1 .. sends'
  BY DEF TypeOK, Numbered
<1> QED
  BY <1>1, <1>2

\* The kinds and numbers of what callers, resolver and network post.
LEMMA PostedJob ==
  ASSUME TypeOK, NEW kind \in TaskKind, NEW nr \in Nat, Post(kind, nr)
  PROVE  \E job \in Task : job.do = kind /\ job.nr = nr /\ tasks' = Append(tasks, job)
BY JobsAreTasks DEF Post

LEMMA PostTypes ==
  ASSUME TypeOK, Numbered, NEW kind \in TaskKind, NEW nr \in Nat, Post(kind, nr),
         sends' \in 0 .. MaxSends, sends <= sends',
         kind \in {"start", "resolved"} => nr \in Attempt,
         kind = "send" => nr \in 1 .. sends'
  PROVE  /\ tasks' \in Seq(Task)
         /\ \A i \in DOMAIN tasks' :
              /\ tasks'[i].do \in {"start", "resolved"} => tasks'[i].nr \in Attempt
              /\ tasks'[i].do = "send" => tasks'[i].nr \in 1 .. sends'
BY PostedJob, NumbersPosted, ClientAssumption

LEMMA CallTypes ==
  ASSUME TypeOK, Numbered, CallStartConnect \/ CallSend \/ CallDisconnect
  PROVE  TypeOK' /\ Numbered'
<1>1. CASE CallStartConnect
  <2>1. connects' \in Attempt /\ connects' \in 0 .. MaxConnects
    BY <1>1, ClientAssumption DEF CallStartConnect, TypeOK, Attempt
  <2>2. "start" \in TaskKind /\ connects' \in Nat /\ sends \in 0 .. MaxSends /\ sends <= sends
    BY <2>1, ClientAssumption DEF TypeOK, TaskKind, Attempt
  <2> QED
    BY <1>1, <2>1, <2>2, PostTypes DEF CallStartConnect, TypeOK, Numbered
<1>2. CASE CallSend
  <2>1. /\ sends' \in 0 .. MaxSends /\ sends <= sends' /\ sends' \in 1 .. sends' /\ sends' \in Nat
        /\ sends \in Nat /\ sends' = sends + 1
    BY <1>2, ClientAssumption DEF CallSend, TypeOK
  <2>2. "send" \in TaskKind
    BY DEF TaskKind
  <2>3. /\ \A i \in DOMAIN writeQueue : writeQueue[i] <= sends'
        /\ \A m \in writes : m <= sends'
        /\ \A i \in DOMAIN wire : wire[i][2] <= sends'
    <3>1. \A m \in Sent : m \in Int
      BY DEF Sent
    <3>2. \A i \in DOMAIN writeQueue : writeQueue[i] \in Sent
      BY DEF TypeOK
    <3>3. \A i \in DOMAIN wire : wire[i][2] \in Sent
      BY DEF TypeOK
    <3> QED
      BY <2>1, <3>1, <3>2, <3>3 DEF TypeOK, Numbered
  <2> QED
    BY <1>2, <2>1, <2>2, <2>3, PostTypes DEF CallSend, TypeOK, Numbered
<1>3. CASE CallDisconnect
  <2>1. "disconnect" \in TaskKind /\ 0 \in Nat /\ sends \in 0 .. MaxSends /\ sends <= sends
    BY ClientAssumption DEF TypeOK, TaskKind
  <2> QED
    BY <1>3, <2>1, PostTypes DEF CallDisconnect, TypeOK, Numbered
<1> QED
  BY <1>1, <1>2, <1>3

LEMMA NetworkTypes ==
  ASSUME TypeOK, Numbered, ResolveEnds \/ ConnectEnds \/ ReadEnds \/ \E m \in Sent : WriteEnds(m)
  PROVE  TypeOK' /\ Numbered'
<1> USE DEF TaskKind
<1>1. sends \in 0 .. MaxSends /\ sends <= sends /\ Attempt \subseteq Nat
  BY ClientAssumption DEF TypeOK, Attempt
<1>2. CASE ResolveEnds
  <2>1. /\ Tail(resolving) \in Seq([attempt : Attempt, cancelled : BOOLEAN])
        /\ Head(resolving).attempt \in Attempt
    <3> DEFINE Request == [attempt : Attempt, cancelled : BOOLEAN]
    <3>1. \A request \in Request : request.attempt \in Attempt
      OBVIOUS
    <3>2. resolving \in Seq(Request) /\ resolving # <<>>
      BY <1>2 DEF TypeOK, ResolveEnds
    <3> HIDE DEF Request
    <3>3. Tail(resolving) \in Seq(Request) /\ Head(resolving) \in Request
      BY <3>2
    <3> QED
      BY <3>1, <3>3 DEF Request
  <2>2. \E kind \in {"resolveFailed", "resolved"} : Post(kind, Head(resolving).attempt)
    BY <1>2 DEF ResolveEnds
  <2> QED
    BY <1>1, <1>2, <2>1, <2>2, PostTypes DEF ResolveEnds, TypeOK, Numbered
<1>3. CASE ConnectEnds
  <2>1. socket.by \in Attempt
    BY <1>3 DEF TypeOK, ConnectEnds, Closed
  <2>2. socket' \in [is : {"connecting", "connected", "refused"}, by : Attempt]
    BY <1>3, <2>1 DEF TypeOK, ConnectEnds, Closed
  <2>3. \E kind \in {"connected", "connectFailed"} : Post(kind, socket.by)
    BY <1>3 DEF ConnectEnds
  <2> QED
    BY <1>1, <1>3, <2>1, <2>2, <2>3, PostTypes DEF ConnectEnds, TypeOK, Numbered
<1>4. CASE ReadEnds
  <2>1. reads' \in Nat
    BY <1>4 DEF TypeOK, ReadEnds
  <2> QED
    BY <1>1, <1>4, <2>1, PostTypes DEF ReadEnds, TypeOK, Numbered
<1>5. ASSUME NEW m \in Sent, WriteEnds(m)
      PROVE  TypeOK' /\ Numbered'
  <2>1. \E kind \in {"written", "writeFailed"} : Post(kind, 0)
    BY <1>5 DEF WriteEnds
  <2>2. wire' \in Seq(Attempt \X Sent) /\ \A i \in DOMAIN wire' : wire'[i][2] <= sends
    <3>1. CASE wire' = wire
      BY <3>1 DEF TypeOK, Numbered
    <3>2. CASE wire' = Append(wire, <<socket.by, m>>)
      <4>1. socket.by \in Attempt /\ m <= sends
        BY <1>5 DEF TypeOK, Numbered, WriteEnds, Closed
      <4>2. <<socket.by, m>> \in Attempt \X Sent /\ <<socket.by, m>>[2] = m
        BY <1>5, <4>1
      <4>3. /\ wire \in Seq(Attempt \X Sent)
            /\ \A i \in DOMAIN wire : wire[i][2] <= sends
        BY DEF TypeOK, Numbered
      <4>4. \A i \in DOMAIN wire' : (i \in DOMAIN wire /\ wire'[i] = wire[i]) \/ wire'[i] = <<socket.by, m>>
        BY <3>2, <4>2, <4>3
      <4> QED
        BY <3>2, <4>1, <4>2, <4>3, <4>4
    <3> QED
      BY <1>5, <3>1, <3>2 DEF WriteEnds
  <2> QED
    BY <1>1, <1>5, <2>1, <2>2, PostTypes DEF WriteEnds, TypeOK, Numbered
<1> QED
  BY <1>2, <1>3, <1>4, <1>5

--------------------------------------------------------------------------------
(* An attempt goes on *)

LEMMA RunGoesOn ==
  ASSUME TypeOK, AttemptGoesOn, RunTask
  PROVE  AttemptGoesOn'
<1>1. tasks # <<>> /\ tasks \in Seq(Task) /\ Continues(Closing)
  BY RunContinues DEF TypeOK
<1>2. CASE Start
  <2>1. Len(resolving) + 1 \in DOMAIN resolving' /\ ~resolving'[Len(resolving) + 1].cancelled
    <3> DEFINE old == [i \in DOMAIN resolving |-> [attempt |-> resolving[i].attempt, cancelled |-> TRUE]]
               new == [attempt |-> Nr, cancelled |-> FALSE]
    <3>1. Len(resolving) \in Nat /\ DOMAIN resolving = 1 .. Len(resolving)
      BY DEF TypeOK
    <3>2. DOMAIN old = 1 .. Len(resolving) /\ Len(old) = Len(resolving)
      BY <3>1
    <3>3. resolving' = Append(old, new) /\ new.cancelled = FALSE
      BY <1>2 DEF Start
    <3> HIDE DEF old, new
    <3>4. DOMAIN Append(old, new) = 1 .. (Len(resolving) + 1) /\ Append(old, new)[Len(resolving) + 1] = new
      BY <3>1, <3>2
    <3> QED
      BY <3>1, <3>3, <3>4
  <2> QED
    BY <2>1 DEF AttemptGoesOn, Pending, Asked
<1>3. CASE Resolved
  BY <1>3 DEF Resolved, AttemptGoesOn
<1>4. CASE Connected
  BY <1>4 DEF Connected, HandleDisconnect, AttemptGoesOn
<1>5. CASE Disconnect \/ WriteFailed
  BY <1>5 DEF Disconnect, WriteFailed, HandleDisconnect, AttemptGoesOn
<1>6. ASSUME ReadDone \/ Send \/ Written
      PROVE  AttemptGoesOn'
  <2> SUFFICES ASSUME state' = "Connecting"
               PROVE  (Pending \/ socket.is = "connecting" \/ ~None({"connected", "connectFailed", "resolveFailed"}))'
    BY DEF AttemptGoesOn
  <2>1. state = "Connecting" /\ UNCHANGED <<resolving, socket>> /\ tasks' = Tail(tasks)
    BY <1>6 DEF ReadDone, Send, Written, DoRead
  <2>2. Head(tasks).do \in {"readDone", "send", "written"}
    BY <1>6 DEF ReadDone, Send, Written, Turn
  <2>3. /\ ~None({"resolved"}) => ~None({"resolved"})'
        /\ ~None({"connected", "connectFailed", "resolveFailed"})
             => ~None({"connected", "connectFailed", "resolveFailed"})'
    BY <1>1, <2>1, <2>2, PopContinues, KindsContinue
  <2> QED
    BY <2>1, <2>3 DEF AttemptGoesOn, Pending, Asked
<1> QED
  BY <1>2, <1>3, <1>4, <1>5, <1>6 DEF RunTask

LEMMA PostKinds ==
  ASSUME TypeOK, NEW kind \in TaskKind, NEW nr \in Nat, Post(kind, nr), NEW kinds
  PROVE  /\ None(kinds) /\ kind \notin kinds => None(kinds)'
         /\ One(kinds) /\ kind \notin kinds => One(kinds)'
         /\ None(kinds) /\ kind \in kinds => One(kinds)'
         /\ ~None(kinds) \/ kind \in kinds => ~None(kinds)'
BY PostedJob, PostedKinds DEF TypeOK

\* Everything else puts one task behind the others.
LEMMA OutsidePosts ==
  ASSUME TypeOK,
         \/ CallStartConnect \/ CallSend \/ CallDisconnect
         \/ ResolveEnds \/ ConnectEnds \/ ReadEnds \/ \E m \in Sent : WriteEnds(m)
  PROVE  state' = state /\ \E kind \in TaskKind, nr \in Nat : Post(kind, nr)
<1> USE DEF TaskKind
<1>1. state' = state
  BY DEF CallStartConnect, CallSend, CallDisconnect, ResolveEnds, ConnectEnds, ReadEnds, WriteEnds
<1>2. CASE CallStartConnect
  BY <1>2 DEF CallStartConnect, TypeOK
<1>3. CASE CallSend
  BY <1>3 DEF CallSend, TypeOK
<1>4. CASE CallDisconnect
  BY <1>4 DEF CallDisconnect
<1>5. CASE ResolveEnds
  <2> DEFINE Request == [attempt : Attempt, cancelled : BOOLEAN]
  <2>1. \A request \in Request : request.attempt \in Nat
    BY ClientAssumption DEF Attempt
  <2>2. resolving \in Seq(Request) /\ resolving # <<>>
    BY <1>5 DEF TypeOK, ResolveEnds
  <2> HIDE DEF Request
  <2>3. Head(resolving).attempt \in Nat
    BY <2>1, <2>2
  <2> QED
    BY <1>5, <2>3 DEF ResolveEnds
<1>6. CASE ConnectEnds
  <2>1. socket.by \in Nat
    BY <1>6, ClientAssumption DEF TypeOK, ConnectEnds, Closed, Attempt
  <2> QED
    BY <1>6, <2>1 DEF ConnectEnds
<1>7. CASE ReadEnds
  BY <1>7 DEF ReadEnds
<1>8. CASE \E m \in Sent : WriteEnds(m)
  BY <1>8 DEF WriteEnds
<1> QED
  BY <1>1, <1>2, <1>3, <1>4, <1>5, <1>6, <1>7, <1>8

LEMMA OutsideGoesOn ==
  ASSUME TypeOK, AttemptGoesOn,
         \/ CallStartConnect \/ CallSend \/ CallDisconnect
         \/ ResolveEnds \/ ConnectEnds \/ ReadEnds \/ \E m \in Sent : WriteEnds(m)
  PROVE  AttemptGoesOn'
<1> DEFINE Goals == {"connected", "connectFailed", "resolveFailed"}
<1> USE DEF TaskKind
<1>1. PICK kind \in TaskKind, nr \in Nat : Post(kind, nr)
  BY OutsidePosts
<1>2. /\ ~None({"resolved"}) => ~None({"resolved"})'
      /\ ~None(Goals) => ~None(Goals)'
  BY <1>1, PostKinds
<1>3. ASSUME NEW end \in TaskKind, NEW attempt \in Nat, Post(end, attempt), end \in Goals
      PROVE  ~None(Goals)'
  BY <1>3, PostKinds
<1>4. ASSUME NEW attempt \in Nat, Post("resolved", attempt)
      PROVE  ~None({"resolved"})'
  BY <1>4, PostKinds
<1>5. CASE ConnectEnds
  <2>1. socket.by \in Nat
    BY <1>5, ClientAssumption DEF TypeOK, ConnectEnds, Closed, Attempt
  <2>2. ~None(Goals)'
    BY <1>3, <1>5, <2>1 DEF ConnectEnds
  <2> QED
    BY <2>2 DEF AttemptGoesOn
<1>6. CASE ResolveEnds
  <2> DEFINE Request == [attempt : Attempt, cancelled : BOOLEAN]
  <2>1. \A request \in Request : request.attempt \in Nat
    BY ClientAssumption DEF Attempt
  <2>2. resolving \in Seq(Request) /\ resolving # <<>>
    BY <1>6 DEF TypeOK, ResolveEnds
  <2> HIDE DEF Request
  <2>3. Head(resolving).attempt \in Nat
    BY <2>1, <2>2
  <2>4. Post("resolveFailed", Head(resolving).attempt) => ~None(Goals)'
    BY <1>3, <2>3
  <2>5. Post("resolved", Head(resolving).attempt) => ~None({"resolved"})'
    BY <1>4, <2>3
  <2> HIDE DEF Goals
  <2> QED
    BY <1>6, <2>4, <2>5 DEF ResolveEnds, AttemptGoesOn, Pending, Goals
<1>7. CASE UNCHANGED <<resolving, socket>>
  <2>1. state' = state /\ (Asked' <=> Asked)
    BY <1>7, OutsidePosts DEF Asked
  <2> QED
    BY <1>2, <1>7, <2>1 DEF AttemptGoesOn, Pending
<1> QED
  BY <1>5, <1>6, <1>7 DEF CallStartConnect, CallSend, CallDisconnect, ReadEnds, WriteEnds

--------------------------------------------------------------------------------
(* One chain of handlers: at most one attempt with its endpoints to use, its *)
(* socket, one read and one write.                                           *)

OneConnection == OneChain /\ SocketFits /\ OneOfEach

LEMMA EarlierContinues ==
  ASSUME tasks \in Seq(Task), NEW added, Continues(added), "resolved" \notin added,
         added \cap OfConnection = {} \/ None({"resolved"}), EarlierFirst
  PROVE  EarlierFirst'
<1>1. /\ \A i \in DOMAIN tasks' :
           (i + 1 \in DOMAIN tasks /\ tasks'[i] = tasks[i + 1]) \/ tasks'[i].do \in added
      /\ DOMAIN tasks' \subseteq Int
  BY Continued
<1> SUFFICES ASSUME NEW i \in DOMAIN tasks', NEW j \in DOMAIN tasks',
                    tasks'[i].do = "resolved", tasks'[j].do \in OfConnection
             PROVE  j < i
  BY DEF EarlierFirst
<1>2. i + 1 \in DOMAIN tasks /\ tasks[i + 1].do = "resolved"
  BY <1>1
<1>3. ~None({"resolved"})
  BY <1>2 DEF None
<1>4. j + 1 \in DOMAIN tasks /\ tasks[j + 1].do \in OfConnection
  BY <1>1, <1>3
<1>5. j + 1 < i + 1
  BY <1>2, <1>4 DEF EarlierFirst
<1> QED
  BY <1>1, <1>5

LEMMA EarlierPosted ==
  ASSUME TypeOK, NEW kind \in TaskKind, NEW nr \in Nat, Post(kind, nr),
         kind \notin OfConnection \/ None({"resolved"}), EarlierFirst
  PROVE  EarlierFirst'
<1>1. PICK job \in Task : job.do = kind /\ job.nr = nr /\ tasks' = Append(tasks, job)
  BY PostedJob
<1>2. /\ \A i \in DOMAIN tasks : i \in DOMAIN tasks' /\ tasks'[i] = tasks[i] /\ i < Len(tasks) + 1
      /\ \A i \in DOMAIN tasks' : i \in DOMAIN tasks \/ i = Len(tasks) + 1
      /\ tasks'[Len(tasks) + 1] = job
  BY <1>1, Posted DEF TypeOK
<1> SUFFICES ASSUME NEW i \in DOMAIN tasks', NEW j \in DOMAIN tasks',
                    tasks'[i].do = "resolved", tasks'[j].do \in OfConnection
             PROVE  j < i
  BY DEF EarlierFirst
<1>3. CASE j \in DOMAIN tasks /\ i \in DOMAIN tasks
  BY <1>2, <1>3 DEF EarlierFirst
<1>4. CASE j \in DOMAIN tasks /\ i = Len(tasks) + 1
  BY <1>2, <1>4
<1>5. CASE j = Len(tasks) + 1
  <2>1. kind \in OfConnection /\ kind # "resolved"
    BY <1>1, <1>2, <1>5 DEF OfConnection, OfReads, OfWrites
  <2>2. i \in DOMAIN tasks /\ tasks[i].do = "resolved"
    BY <1>1, <1>2, <2>1
  <2> QED
    BY <2>1, <2>2 DEF None
<1> QED
  BY <1>2, <1>3, <1>4, <1>5

\* The handlers of a connection are those of its connect, its reads and its writes.
LEMMA Kinds ==
  /\ None(OfConnection) <=> None({"connected"}) /\ None(OfReads) /\ None(OfWrites)
  /\ OfReads \cap {"connected", "resolved"} = {} /\ OfWrites \cap {"connected", "resolved"} = {}
  /\ OfReads \cap OfWrites = {}
BY DEF None, OfConnection, OfReads, OfWrites

LEMMA DisconnectFits ==
  ASSUME TypeOK, OneConnection, tasks # <<>>, HandleDisconnect, UNCHANGED resolving,
         Head(tasks).do # "resolved", Head(tasks).do = "connected" => socket = Closed
  PROVE  OneConnection'
<1>1. CASE state = "Disconnected"
  <2>1. tasks' = Tail(tasks) /\ UNCHANGED <<client, socket, reads, writes, resolving>>
    BY <1>1 DEF HandleDisconnect
  <2>2. Continues({})
    BY <2>1, PopContinues DEF TypeOK
  <2>3. ASSUME NEW kinds
        PROVE  /\ None(kinds) => None(kinds)'
               /\ One(kinds) /\ Head(tasks).do \notin kinds => One(kinds)'
    BY <2>2, KindsContinue DEF TypeOK
  <2>4. EarlierFirst'
    BY <2>2, EarlierContinues DEF TypeOK, OneConnection, OneChain
  <2>5. (Asked' <=> Asked) /\ (Pending' => Pending)
    BY <2>1, <2>3 DEF Asked, Pending
  <2>6. OneChain'
    BY <2>1, <2>3, <2>4, <2>5 DEF OneConnection, OneChain
  <2>7. SocketFits'
    <3>1. socket.is = "connected" => One({"connected"}) /\ Head(tasks).do # "connected"
      BY <1>1 DEF OneConnection, SocketFits, Closed
    <3> QED
      BY <1>1, <2>1, <2>3, <2>5, <3>1 DEF OneConnection, SocketFits
  <2>8. OneOfEach'
    BY <1>1, <2>1 DEF OneConnection, OneOfEach
  <2> QED
    BY <2>6, <2>7, <2>8 DEF OneConnection
<1>2. CASE state # "Disconnected"
  <2>1. state' = "Disconnected" /\ ResetState /\ CloseSocket
    BY <1>2 DEF HandleDisconnect
  <2>2. Continues(Closing)
    BY <2>1, CloseContinues DEF CloseSocket
  <2>3. /\ None({"resolved"}) => None({"resolved"})'
        /\ One({"resolved"}) => One({"resolved"})'
    BY <2>2, KindsContinue DEF TypeOK, Closing
  <2>4. EarlierFirst'
    <3>1. CASE state = "Connected"
      <4>1. None({"resolved"})
        BY <3>1 DEF OneConnection, SocketFits, Pending, Closed
      <4> QED
        BY <2>2, <4>1, EarlierContinues DEF TypeOK, Closing, OneConnection, OneChain
    <3>2. CASE state # "Connected"
      <4>1. Continues({"connectFailed"})
        BY <3>2, <2>1, CloseContinues DEF CloseSocket, OneConnection, OneOfEach
      <4>2. {"connectFailed"} \cap OfConnection = {}
        BY DEF OfConnection, OfReads, OfWrites
      <4> QED
        BY <4>1, <4>2, EarlierContinues DEF TypeOK, OneConnection, OneChain
    <3> QED
      BY <3>1, <3>2
  <2>5. Asked' <=> Asked
    BY DEF Asked
  <2>6. OneChain'
    BY <2>3, <2>4, <2>5 DEF OneConnection, OneChain
  <2>7. SocketFits' /\ OneOfEach'
    BY <2>1 DEF SocketFits, OneOfEach, CloseSocket, ResetState, Closed
  <2> QED
    BY <2>6, <2>7 DEF OneConnection
<1> QED
  BY <1>1, <1>2

LEMMA StartFits ==
  ASSUME TypeOK, Start, ~crossed'
  PROVE  OneConnection'
<1>1. tasks # <<>> /\ Continues(Closing)
  BY RunContinues DEF RunTask
<1>2. None({"resolved"})
  BY DEF Start, None
<1>3. None({"resolved"})'
  BY <1>1, <1>2, KindsContinue DEF TypeOK, Closing
<1>4. EarlierFirst'
  BY <1>3 DEF EarlierFirst, None
<1>5. \A i \in DOMAIN resolving' : ~resolving'[i].cancelled => i = Len(resolving')
  <2> DEFINE old == [i \in DOMAIN resolving |-> [attempt |-> resolving[i].attempt, cancelled |-> TRUE]]
             new == [attempt |-> Nr, cancelled |-> FALSE]
  <2>1. Len(resolving) \in Nat /\ DOMAIN resolving = 1 .. Len(resolving)
    BY DEF TypeOK
  <2>2. /\ DOMAIN old = 1 .. Len(resolving) /\ Len(old) = Len(resolving)
        /\ \A i \in DOMAIN old : old[i].cancelled
    BY <2>1
  <2>3. resolving' = Append(old, new)
    BY DEF Start
  <2> HIDE DEF old, new
  <2>4. /\ DOMAIN Append(old, new) = 1 .. (Len(resolving) + 1) /\ Len(Append(old, new)) = Len(resolving) + 1
        /\ \A i \in DOMAIN old : Append(old, new)[i] = old[i]
    BY <2>1, <2>2
  <2> QED
    BY <2>1, <2>2, <2>3, <2>4
<1>6. SocketFits' /\ OneOfEach'
  BY DEF Start, SocketFits, OneOfEach, CloseSocket, ResetState, Closed
<1> QED
  BY <1>3, <1>4, <1>5, <1>6 DEF OneConnection, OneChain

LEMMA ResolvedFits ==
  ASSUME TypeOK, OneConnection, Resolved
  PROVE  OneConnection'
<1>1. tasks # <<>> /\ tasks \in Seq(Task) /\ Head(tasks).do = "resolved" /\ 1 \in DOMAIN tasks /\ Head(tasks) = tasks[1]
  BY DEF TypeOK, Resolved, Turn
<1>2. ~None({"resolved"})
  BY <1>1 DEF None
<1>3. /\ Pending /\ ~Asked /\ One({"resolved"}) /\ EarlierFirst /\ socket = Closed /\ state # "Connected"
      /\ reads = 0 /\ writes = {} /\ ~writing /\ writeQueue = <<>>
  BY <1>2 DEF OneConnection, OneChain, SocketFits, OneOfEach, Pending, Closed
<1>4. Continues({})
  <2>1. Aborted = <<>>
    BY <1>3, AbortedTasks DEF Closed
  <2>2. tasks' = Tail(tasks)
    BY <1>1, <2>1 DEF Resolved
  <2> QED
    BY <1>1, <2>2, PopContinues
<1>5. None({"resolved"})'
  BY <1>1, <1>3, <1>4, KindsContinue
<1>6. None(OfConnection)'
  <2>1. None(OfConnection)
    <3> SUFFICES ASSUME NEW j \in DOMAIN tasks, tasks[j].do \in OfConnection
                 PROVE  FALSE
      BY DEF None
    <3>1. j < 1 /\ j \in 1 .. Len(tasks)
      BY <1>1, <1>3 DEF EarlierFirst
    <3> QED
      BY <3>1
  <2> QED
    BY <1>1, <1>4, <2>1, KindsContinue
<1>7. ~Asked' /\ ~Pending'
  BY <1>3, <1>5 DEF Resolved, Asked, Pending
<1>8. OneChain'
  <2>1. \A i \in DOMAIN resolving' : resolving'[i].cancelled
    BY <1>7 DEF Asked
  <2>2. EarlierFirst'
    BY <1>5 DEF EarlierFirst, None
  <2> QED
    BY <1>5, <1>7, <2>1, <2>2 DEF OneChain
<1>9. SocketFits'
  BY <1>3, <1>6, <1>7 DEF SocketFits, Resolved
<1>10. OneOfEach'
  BY <1>3 DEF OneOfEach, Resolved
<1> QED
  BY <1>8, <1>9, <1>10 DEF OneConnection

\* A handler that leaves the state and the socket alone.
LEMMA PopFits ==
  ASSUME TypeOK, OneConnection, tasks # <<>>, tasks' = Tail(tasks),
         Head(tasks).do \notin {"resolved", "connected"}, UNCHANGED <<state, resolving, socket>>
  PROVE  /\ OneChain' /\ SocketFits'
         /\ None(OfReads) => None(OfReads)'
         /\ None(OfWrites) => None(OfWrites)'
         /\ One(OfReads) /\ Head(tasks).do \in OfReads => None(OfReads)'
         /\ One(OfReads) /\ Head(tasks).do \notin OfReads => One(OfReads)'
         /\ One(OfWrites) /\ Head(tasks).do \in OfWrites => None(OfWrites)'
         /\ One(OfWrites) /\ Head(tasks).do \notin OfWrites => One(OfWrites)'
<1>1. Continues({})
  BY PopContinues DEF TypeOK
<1>2. ASSUME NEW kinds
      PROVE  /\ None(kinds) => None(kinds)'
             /\ One(kinds) /\ Head(tasks).do \in kinds => None(kinds)'
             /\ One(kinds) /\ Head(tasks).do \notin kinds => One(kinds)'
  BY <1>1, KindsContinue DEF TypeOK
<1>3. EarlierFirst'
  BY <1>1, EarlierContinues DEF TypeOK, OneConnection, OneChain
<1>4. (Asked' <=> Asked) /\ (Pending' => Pending)
  BY <1>2 DEF Asked, Pending
<1>5. OneChain'
  BY <1>2, <1>3, <1>4 DEF OneConnection, OneChain
<1>6. SocketFits'
  BY <1>2, <1>4 DEF OneConnection, SocketFits
<1> QED
  BY <1>2, <1>5, <1>6

LEMMA ConnectedFits ==
  ASSUME TypeOK, OneConnection, Connected
  PROVE  OneConnection'
<1>1. tasks # <<>> /\ tasks \in Seq(Task) /\ Head(tasks).do = "connected" /\ UNCHANGED resolving
  BY DEF TypeOK, Connected, Turn
<1>2. CASE socket = Closed
  BY <1>1, <1>2, DisconnectFits DEF Connected
<1>3. CASE socket # Closed
  <2>1. /\ state' = "Connected" /\ UNCHANGED <<writeQueue, writing, socket, writes, resolving>>
        /\ DoRead(TRUE)
    BY <1>1, <1>3 DEF Connected
  <2>2. ~None({"connected"}) /\ ~None(OfConnection)
    BY <1>1 DEF None, OfConnection
  <2>3. ~Pending /\ state # "Connected" /\ socket.is = "connected"
    <3>1. socket.is \in {"connecting", "connected", "refused"}
      BY <1>3 DEF TypeOK
    <3> QED
      BY <1>3, <2>2, <3>1 DEF OneConnection, SocketFits
  <2>4. /\ One({"connected"}) /\ None(OfReads) /\ None(OfWrites) /\ None({"resolved"}) /\ ~Asked
        /\ reads = 0 /\ writes = {} /\ ~writing
    BY <2>3 DEF OneConnection, SocketFits, OneOfEach, Pending
  <2>5. tasks' = Tail(tasks) /\ reads' = 1
    BY <2>1, <2>3, <2>4 DEF DoRead
  <2>6. Continues({})
    BY <1>1, <2>5, PopContinues
  <2>7. None({"connected"})' /\ None(OfReads)' /\ None(OfWrites)' /\ None({"resolved"})'
    BY <1>1, <2>4, <2>6, KindsContinue
  <2>8. ~Asked' /\ ~Pending'
    BY <2>1, <2>4, <2>7 DEF Asked, Pending
  <2>9. OneChain'
    BY <2>7, <2>8 DEF OneChain, Asked, EarlierFirst, None
  <2>10. SocketFits'
    BY <2>1, <2>3, <2>7, <2>8 DEF SocketFits
  <2>11. OneOfEach'
    BY <2>1, <2>4, <2>5, <2>7 DEF OneOfEach
  <2> QED
    BY <2>9, <2>10, <2>11 DEF OneConnection
<1> QED
  BY <1>2, <1>3

LEMMA ReadDoneFits ==
  ASSUME TypeOK, OneConnection, ReadDone
  PROVE  OneConnection'
<1>1. /\ tasks # <<>> /\ Head(tasks).do = "readDone" /\ DoRead(state = "Connected")
      /\ UNCHANGED <<client, resolving, socket, writes>>
  BY DEF ReadDone, Turn
<1>2. Head(tasks).do \in OfReads /\ Head(tasks).do \notin OfWrites
  BY <1>1 DEF OfReads, OfWrites
<1>3. state = "Connected" => One(OfReads) /\ reads = 0 /\ socket.is = "connected"
  <2>1. ~None(OfReads)
    BY <1>1, <1>2 DEF TypeOK, None
  <2> QED
    BY <2>1 DEF OneConnection, OneOfEach, SocketFits
<1>4. tasks' = Tail(tasks) /\ reads' = IF state = "Connected" THEN 1 ELSE reads
  BY <1>1, <1>3 DEF DoRead
<1>5. OneChain' /\ SocketFits'
  BY <1>1, <1>4, PopFits
<1>6. /\ state = "Connected" => None(OfReads)'
      /\ None(OfWrites) => None(OfWrites)'
      /\ One(OfWrites) => One(OfWrites)'
  BY <1>1, <1>2, <1>3, <1>4, PopFits
<1>7. OneOfEach'
  BY <1>1, <1>4, <1>6 DEF OneConnection, OneOfEach
<1> QED
  BY <1>5, <1>7 DEF OneConnection

LEMMA SendFits ==
  ASSUME TypeOK, Numbered, OneConnection, Send
  PROVE  OneConnection'
<1>1. /\ tasks # <<>> /\ Head(tasks).do = "send" /\ tasks' = Tail(tasks)
      /\ UNCHANGED <<state, resolving, socket, reads>>
  BY DEF Send, Turn
<1>2. Head(tasks).do \notin OfReads /\ Head(tasks).do \notin OfWrites
  BY <1>1 DEF OfReads, OfWrites
<1>3. OneChain' /\ SocketFits'
  BY <1>1, PopFits
<1>4. /\ None(OfReads) => None(OfReads)'
      /\ One(OfReads) => One(OfReads)'
      /\ None(OfWrites) => None(OfWrites)'
      /\ One(OfWrites) => One(OfWrites)'
  BY <1>1, <1>2, PopFits
<1>5. CASE UNCHANGED <<writeQueue, writing, writes>>
  BY <1>1, <1>3, <1>4, <1>5 DEF OneConnection, OneOfEach
<1>6. CASE state = "Connected" /\ DoWrite(Append(writeQueue, Nr), writing)
  <2>1. Append(writeQueue, Nr) # <<>> /\ Head(Append(writeQueue, Nr)) \in Sent
    <3> DEFINE queue == Append(writeQueue, Nr)
    <3>1. Nr \in Sent /\ writeQueue \in Seq(Sent)
      BY <1>1, HeadNumber DEF TypeOK
    <3>2. queue \in Seq(Sent) /\ Len(queue) = Len(writeQueue) + 1 /\ Len(writeQueue) \in Nat
      BY <3>1
    <3> HIDE DEF queue
    <3>3. queue # <<>> /\ Head(queue) \in Sent
      BY <3>2
    <3> QED
      BY <3>3 DEF queue
  <2>2. CASE writing
    BY <1>1, <1>3, <1>4, <1>6, <2>2 DEF OneConnection, OneOfEach, DoWrite
  <2>3. CASE ~writing
    <3>1. writes' = writes \cup {Head(Append(writeQueue, Nr))} /\ writing' = TRUE
      BY <1>6, <2>1, <2>3 DEF DoWrite
    <3>2. writes = {} /\ None(OfWrites)
      BY <1>6, <2>3 DEF OneConnection, OneOfEach
    <3>3. \E m \in Sent : writes' = {m}
      BY <2>1, <3>1, <3>2
    <3> QED
      BY <1>1, <1>3, <1>4, <1>6, <3>1, <3>2, <3>3 DEF OneConnection, OneOfEach
  <2> QED
    BY <2>2, <2>3
<1> QED
  BY <1>5, <1>6 DEF Send

LEMMA WrittenFits ==
  ASSUME TypeOK, OneConnection, Written
  PROVE  OneConnection'
<1>1. /\ tasks # <<>> /\ Head(tasks).do = "written" /\ tasks' = Tail(tasks)
      /\ DoWrite(writeQueue, FALSE) /\ UNCHANGED <<state, resolving, socket, reads>>
  BY DEF Written, Turn
<1>2. Head(tasks).do \notin OfReads /\ Head(tasks).do \in OfWrites
  BY <1>1 DEF OfReads, OfWrites
<1>3. OneChain' /\ SocketFits'
  BY <1>1, PopFits
<1>4. /\ None(OfReads) => None(OfReads)'
      /\ One(OfReads) => One(OfReads)'
      /\ One(OfWrites) => None(OfWrites)'
  BY <1>1, <1>2, PopFits
<1>5. CASE state # "Connected"
  BY <1>1, <1>3, <1>5 DEF OneConnection, OneOfEach, DoWrite
<1>6. CASE state = "Connected"
  <2>1. ~None(OfWrites)
    BY <1>1, <1>2 DEF TypeOK, None
  <2>2. One(OfWrites) /\ writes = {}
    BY <1>6, <2>1 DEF OneConnection, OneOfEach
  <2>3. \/ writing' = FALSE /\ writes' = {}
        \/ writing' = TRUE /\ \E m \in Sent : writes' = {m}
    <3>1. writeQueue # <<>> => Head(writeQueue) \in Sent
      BY DEF TypeOK
    <3> QED
      BY <1>1, <1>6, <2>2, <3>1 DEF DoWrite
  <2> QED
    BY <1>1, <1>3, <1>4, <1>6, <2>2, <2>3 DEF OneConnection, OneOfEach
<1> QED
  BY <1>5, <1>6

LEMMA WriteFailedFits ==
  ASSUME TypeOK, OneConnection, WriteFailed
  PROVE  OneConnection'
<1>1. tasks # <<>> /\ Head(tasks).do = "writeFailed" /\ UNCHANGED resolving
  BY DEF WriteFailed, Turn
<1>2. HandleDisconnect
  <2>1. CASE state = "Disconnected"
    <3>1. writing = FALSE
      BY <2>1 DEF TypeOK, OneConnection, OneOfEach
    <3> QED
      BY <2>1, <3>1 DEF WriteFailed, HandleDisconnect
  <2> QED
    BY <2>1 DEF WriteFailed
<1> QED
  BY <1>1, <1>2, DisconnectFits

LEMMA RunFits ==
  ASSUME TypeOK, Numbered, ~crossed => OneConnection, RunTask, ~crossed'
  PROVE  OneConnection'
<1>1. CASE Start
  BY <1>1, StartFits
<1>2. ASSUME ~Start
      PROVE  OneConnection
  BY <1>2 DEF RunTask, Resolved, Connected, ReadDone, Send, Written, Disconnect, WriteFailed
<1>3. CASE Disconnect
  <2>1. /\ tasks # <<>> /\ Head(tasks).do \notin {"start", "resolved", "connected"}
        /\ HandleDisconnect /\ UNCHANGED resolving
    BY <1>3 DEF Disconnect, Turn
  <2>2. ~Start
    BY <2>1 DEF Start, Turn
  <2> QED
    BY <1>2, <2>1, <2>2, DisconnectFits
<1>4. CASE ~Start
  BY <1>2, <1>3, <1>4, ResolvedFits, ConnectedFits, ReadDoneFits, SendFits, WrittenFits, WriteFailedFits DEF RunTask
<1> QED
  BY <1>1, <1>4

--------------------------------------------------------------------------------

LEMMA CallFits ==
  ASSUME TypeOK, OneConnection, CallStartConnect \/ CallSend \/ CallDisconnect
  PROVE  OneConnection'
<1>1. UNCHANGED <<client, network>>
  BY DEF CallStartConnect, CallSend, CallDisconnect
<1>2. \E kind \in {"start", "send", "disconnect"}, nr \in Nat : Post(kind, nr)
  <2>1. connects + 1 \in Nat /\ sends + 1 \in Nat
    BY DEF TypeOK
  <2> QED
    BY <2>1 DEF CallStartConnect, CallSend, CallDisconnect
<1>3. PICK kind \in {"start", "send", "disconnect"}, nr \in Nat : Post(kind, nr)
  BY <1>2
<1>4. kind \in TaskKind /\ kind \notin OfConnection /\ kind \notin OfReads /\ kind \notin OfWrites
      /\ kind \notin {"resolved"} /\ kind \notin {"connected"}
  BY DEF TaskKind, OfConnection, OfReads, OfWrites
<1>5. ASSUME NEW kinds, kind \notin kinds
      PROVE  (None(kinds) => None(kinds)') /\ (One(kinds) => One(kinds)')
  BY <1>3, <1>4, <1>5, PostKinds
<1>6. EarlierFirst'
  BY <1>3, <1>4, EarlierPosted DEF OneConnection, OneChain
<1>7. ~None({"resolved"})' => ~None({"resolved"})
  BY <1>4, <1>5
<1>8. (Asked' <=> Asked) /\ (Pending' => Pending)
  BY <1>1, <1>7 DEF Asked, Pending
<1>9. OneChain'
  BY <1>1, <1>4, <1>5, <1>6, <1>8 DEF OneConnection, OneChain
<1>10. SocketFits'
  BY <1>1, <1>4, <1>5, <1>8 DEF OneConnection, SocketFits
<1>11. OneOfEach'
  BY <1>1, <1>4, <1>5 DEF OneConnection, OneOfEach
<1> QED
  BY <1>9, <1>10, <1>11 DEF OneConnection

LEMMA ResolveFits ==
  ASSUME TypeOK, OneConnection, ResolveEnds
  PROVE  OneConnection'
<1> DEFINE Request == [attempt : Attempt, cancelled : BOOLEAN]
<1>1. /\ UNCHANGED <<client, socket, reads, writes>>
      /\ resolving # <<>> /\ resolving' = Tail(resolving) /\ resolving \in Seq(Request)
  BY DEF ResolveEnds, TypeOK
<1>2. Head(resolving).attempt \in Nat
  <2>1. \A request \in Request : request.attempt \in Nat
    BY ClientAssumption DEF Attempt
  <2> HIDE DEF Request
  <2> QED
    BY <1>1, <2>1
<1> HIDE DEF Request
<1>3. /\ Len(resolving) \in Nat /\ Len(resolving') = Len(resolving) - 1
      /\ DOMAIN resolving = 1 .. Len(resolving) /\ DOMAIN resolving' = 1 .. (Len(resolving) - 1)
      /\ \A i \in DOMAIN resolving' : i + 1 \in DOMAIN resolving /\ resolving'[i] = resolving[i + 1]
      /\ 1 \in DOMAIN resolving /\ Head(resolving) = resolving[1]
  BY <1>1
<1>4. Asked' => Asked
  BY <1>3 DEF Asked
<1>5. \A i \in DOMAIN resolving : ~resolving[i].cancelled => i = Len(resolving)
  BY DEF OneConnection, OneChain
<1>6. \A i \in DOMAIN resolving' : ~resolving'[i].cancelled => i = Len(resolving')
  <2> SUFFICES ASSUME NEW i \in DOMAIN resolving', ~resolving'[i].cancelled
               PROVE  i = Len(resolving')
    OBVIOUS
  <2>1. i + 1 = Len(resolving) /\ i \in Int
    BY <1>3, <1>5
  <2> QED
    BY <1>3, <2>1
<1>7. CASE Post("resolveFailed", Head(resolving).attempt)
  <2>1. "resolveFailed" \in TaskKind /\ "resolveFailed" \notin OfConnection \cup OfReads \cup OfWrites
    BY DEF TaskKind, OfConnection, OfReads, OfWrites
  <2>2. ASSUME NEW kinds, "resolveFailed" \notin kinds
        PROVE  (None(kinds) => None(kinds)') /\ (One(kinds) => One(kinds)')
    BY <1>2, <1>7, <2>1, <2>2, PostKinds
  <2>3. EarlierFirst'
    BY <1>2, <1>7, <2>1, EarlierPosted DEF OneConnection, OneChain
  <2>4. /\ (None({"resolved"}) => None({"resolved"})') /\ (One({"resolved"}) => One({"resolved"})')
        /\ (None({"connected"}) => None({"connected"})') /\ (One({"connected"}) => One({"connected"})')
    BY <2>2
  <2>5. Pending' => Pending
    BY <1>4, <2>4 DEF Pending
  <2>6. OneChain'
    BY <1>4, <1>6, <2>3, <2>4 DEF OneConnection, OneChain
  <2>7. SocketFits'
    BY <1>1, <2>1, <2>2, <2>4, <2>5 DEF OneConnection, SocketFits
  <2>8. OneOfEach'
    BY <1>1, <2>1, <2>2 DEF OneConnection, OneOfEach
  <2> QED
    BY <2>6, <2>7, <2>8 DEF OneConnection
<1>8. CASE ~Head(resolving).cancelled /\ Post("resolved", Head(resolving).attempt)
  <2>1. "resolved" \in TaskKind /\ "resolved" \notin OfConnection \cup OfReads \cup OfWrites
    BY DEF TaskKind, OfConnection, OfReads, OfWrites
  <2>2. ASSUME NEW kinds, "resolved" \notin kinds
        PROVE  (None(kinds) => None(kinds)') /\ (One(kinds) => One(kinds)')
    BY <1>2, <1>8, <2>1, <2>2, PostKinds
  <2>3. EarlierFirst'
    BY <1>2, <1>8, <2>1, EarlierPosted DEF OneConnection, OneChain
  <2>4. Asked /\ None({"resolved"}) /\ socket = Closed /\ state # "Connected"
    BY <1>3, <1>8 DEF Asked, Pending, OneConnection, OneChain, SocketFits, Closed
  <2>5. One({"resolved"})'
    BY <1>2, <1>8, <2>1, <2>4, PostKinds
  <2>6. ~Asked'
    <3>1. Len(resolving) = 1
      BY <1>3, <1>5, <1>8
    <3> QED
      BY <1>3, <3>1 DEF Asked
  <2>7. OneChain'
    BY <1>6, <2>3, <2>5, <2>6 DEF OneChain
  <2>8. SocketFits'
    BY <1>1, <2>4 DEF SocketFits, Closed
  <2>9. OneOfEach'
    BY <1>1, <2>4 DEF OneConnection, OneOfEach
  <2> QED
    BY <2>7, <2>8, <2>9 DEF OneConnection
<1> QED
  BY <1>7, <1>8 DEF ResolveEnds

LEMMA ConnectFits ==
  ASSUME TypeOK, OneConnection, ConnectEnds
  PROVE  OneConnection'
<1>1. UNCHANGED <<client, resolving, reads, writes>> /\ socket.is = "connecting"
  BY DEF ConnectEnds
<1>2. /\ state # "Connected" /\ ~Pending /\ ~Asked /\ None({"resolved"}) /\ None(OfConnection)
      /\ None({"connected"}) /\ None(OfReads) /\ None(OfWrites)
      /\ reads = 0 /\ writes = {} /\ ~writing /\ writeQueue = <<>>
  BY <1>1, Kinds DEF OneConnection, SocketFits, OneOfEach, Pending, Closed
<1>3. socket.by \in Nat
  BY <1>1, ClientAssumption DEF TypeOK, Closed, Attempt
<1>4. \E kind \in {"connected", "connectFailed"} :
         Post(kind, socket.by) /\ socket' = [socket EXCEPT !.is = IF kind = "connected" THEN "connected" ELSE "refused"]
  BY DEF ConnectEnds
<1>5. PICK kind \in {"connected", "connectFailed"} :
         Post(kind, socket.by) /\ socket' = [socket EXCEPT !.is = IF kind = "connected" THEN "connected" ELSE "refused"]
  BY <1>4
<1>6. kind \in TaskKind /\ kind \notin OfReads /\ kind \notin OfWrites /\ kind \notin {"resolved"}
  BY DEF TaskKind, OfReads, OfWrites
<1>7. None({"resolved"})' /\ None(OfReads)' /\ None(OfWrites)'
  BY <1>2, <1>3, <1>5, <1>6, PostKinds
<1>8. ~Asked' /\ ~Pending'
  BY <1>1, <1>2, <1>7 DEF Asked, Pending
<1>9. OneChain'
  BY <1>7, <1>8 DEF OneChain, Asked, EarlierFirst, None
<1>10. socket'.is = IF kind = "connected" THEN "connected" ELSE "refused"
  BY <1>1, <1>5 DEF TypeOK, Closed
<1>11. IF kind = "connected" THEN One({"connected"})' ELSE None({"connected"})'
  BY <1>2, <1>3, <1>5, <1>6, PostKinds
<1>12. SocketFits'
  <2>1. None({"connected"})' => None(OfConnection)'
    BY <1>7 DEF None, OfConnection
  <2> QED
    BY <1>1, <1>2, <1>7, <1>8, <1>10, <1>11, <2>1 DEF SocketFits
<1>13. OneOfEach'
  BY <1>1, <1>2 DEF OneOfEach
<1> QED
  BY <1>9, <1>12, <1>13 DEF OneConnection

\* What ends on an established connection is posted while no attempt is pending.
LEMMA EndFits ==
  ASSUME TypeOK, OneConnection, state = "Connected", NEW kind \in OfReads \cup OfWrites, Post(kind, 0),
         UNCHANGED <<state, resolving, socket>>
  PROVE  OneChain' /\ SocketFits'
<1>1. ~Pending /\ ~Asked /\ None({"resolved"}) /\ None({"connected"}) /\ socket.is = "connected"
  BY DEF OneConnection, SocketFits, Pending, Closed
<1>2. kind \in TaskKind /\ kind \notin {"resolved"} /\ kind \notin {"connected"} /\ 0 \in Nat
  BY DEF TaskKind, OfReads, OfWrites
<1>3. None({"resolved"})' /\ None({"connected"})'
  BY <1>1, <1>2, PostKinds
<1>4. ~Asked' /\ ~Pending'
  BY <1>1, <1>3 DEF Asked, Pending
<1>5. OneChain'
  BY <1>3, <1>4 DEF OneChain, Asked, EarlierFirst, None
<1>6. SocketFits'
  BY <1>1, <1>3, <1>4 DEF SocketFits
<1> QED
  BY <1>5, <1>6

LEMMA ReadFits ==
  ASSUME TypeOK, OneConnection, ReadEnds
  PROVE  OneConnection'
<1>1. UNCHANGED <<client, resolving, socket, writes>> /\ reads > 0 /\ reads' = reads - 1
  BY DEF ReadEnds
<1>2. PICK kind \in OfReads : Post(kind, 0)
  BY DEF ReadEnds, OfReads
<1>3. state = "Connected" /\ reads = 1 /\ None(OfReads)
  BY <1>1 DEF OneConnection, OneOfEach
<1>4. kind \in TaskKind /\ kind \notin OfWrites /\ 0 \in Nat
  BY DEF TaskKind, OfReads, OfWrites
<1>5. OneChain' /\ SocketFits'
  BY <1>1, <1>2, <1>3, EndFits
<1>6. One(OfReads)' /\ (None(OfWrites) => None(OfWrites)') /\ (One(OfWrites) => One(OfWrites)')
  BY <1>2, <1>3, <1>4, PostKinds
<1>7. OneOfEach'
  BY <1>1, <1>3, <1>6 DEF OneConnection, OneOfEach
<1> QED
  BY <1>5, <1>7 DEF OneConnection

LEMMA WriteFits ==
  ASSUME TypeOK, OneConnection, NEW m \in Sent, WriteEnds(m)
  PROVE  OneConnection'
<1>1. UNCHANGED <<client, resolving, socket, reads>> /\ m \in writes /\ writes' = writes \ {m}
  BY DEF WriteEnds
<1>2. PICK kind \in OfWrites : Post(kind, 0)
  BY DEF WriteEnds, OfWrites
<1>3. state = "Connected" /\ writing /\ None(OfWrites) /\ writes' = {}
  BY <1>1 DEF OneConnection, OneOfEach
<1>4. kind \in TaskKind /\ kind \notin OfReads /\ 0 \in Nat
  BY DEF TaskKind, OfReads, OfWrites
<1>5. OneChain' /\ SocketFits'
  BY <1>1, <1>2, <1>3, EndFits
<1>6. One(OfWrites)' /\ (None(OfReads) => None(OfReads)') /\ (One(OfReads) => One(OfReads)')
  BY <1>2, <1>3, <1>4, PostKinds
<1>7. OneOfEach'
  BY <1>1, <1>3, <1>6 DEF OneConnection, OneOfEach
<1> QED
  BY <1>5, <1>7 DEF OneConnection

LEMMA OneConnectionStays ==
  ASSUME TypeOK, Numbered, ~crossed => OneConnection, Next, ~crossed'
  PROVE  OneConnection'
<1>1. CASE RunTask
  BY <1>1, RunFits
<1>2. ASSUME ~RunTask
      PROVE  OneConnection
  BY <1>2 DEF Next, CallStartConnect, CallSend, CallDisconnect, ResolveEnds, ConnectEnds, ReadEnds, WriteEnds
<1> QED
  BY <1>1, <1>2, CallFits, ResolveFits, ConnectFits, ReadFits, WriteFits DEF Next

--------------------------------------------------------------------------------
(* Messages stay in order on their way from the callers to the wire. *)

\* A task taken from the front, and others added that are no sends.
LEMMA OrderedPop ==
  ASSUME NEW w, NEW u, NEW v \in SUBSET u, NEW q, NEW t, NEW rest,
         DOMAIN rest \subseteq Int, Ordered(w, u, q, t),
         \A i \in DOMAIN rest : rest[i].do = "send" => i + 1 \in DOMAIN t /\ rest[i] = t[i + 1]
  PROVE  Ordered(w, v, q, rest)
<1>1. ASSUME NEW i \in DOMAIN rest, NEW j \in DOMAIN rest, i < j, rest[i].do = "send", rest[j].do = "send"
      PROVE  rest[i].nr < rest[j].nr
  <2>1. i + 1 \in DOMAIN t /\ j + 1 \in DOMAIN t /\ i + 1 < j + 1 /\ rest[i] = t[i + 1] /\ rest[j] = t[j + 1]
    BY <1>1
  <2> QED
    BY <1>1, <2>1 DEF Ordered
<1> QED
  BY <1>1 DEF Ordered

LEMMA OrderedEmptied ==
  ASSUME NEW w, NEW u, NEW q, NEW t, Ordered(w, u, q, t)
  PROVE  Ordered(w, u, <<>>, t)
<1>1. DOMAIN <<>> = {}
  OBVIOUS
<1> QED
  BY <1>1 DEF Ordered

\* The first send is queued.
LEMMA OrderedQueued ==
  ASSUME NEW w, NEW u, NEW q \in Seq(Sent), NEW t, NEW rest,
         DOMAIN rest \subseteq Nat \ {0}, Ordered(w, u, q, t), 1 \in DOMAIN t, t[1].do = "send", t[1].nr \in Sent,
         \A i \in DOMAIN rest : rest[i].do = "send" => i + 1 \in DOMAIN t /\ rest[i] = t[i + 1]
  PROVE  Ordered(w, u, Append(q, t[1].nr), rest)
<1> DEFINE new == Append(q, t[1].nr)
<1>1. Ordered(w, u, q, rest)
  BY OrderedPop
<1>2. \A i \in DOMAIN rest : rest[i].do = "send" => t[1].nr < rest[i].nr
  <2> SUFFICES ASSUME NEW i \in DOMAIN rest, rest[i].do = "send"
               PROVE  t[1].nr < rest[i].nr
    OBVIOUS
  <2>1. 1 < i + 1 /\ i + 1 \in DOMAIN t /\ t[i + 1] = rest[i]
    OBVIOUS
  <2> QED
    BY <2>1 DEF Ordered
<1>3. \A i \in DOMAIN q : q[i] < t[1].nr
  BY DEF Ordered
<1>4. \A i \in DOMAIN w : w[i][2] < t[1].nr
  BY DEF Ordered
<1>5. \A m \in u : m < t[1].nr
  BY DEF Ordered
<1>6. /\ \A i \in DOMAIN new : (i \in DOMAIN q /\ new[i] = q[i]) \/ (i = Len(q) + 1 /\ new[i] = t[1].nr)
      /\ DOMAIN q = 1 .. Len(q) /\ Len(q) \in Nat
  OBVIOUS
<1> HIDE DEF new
<1>7. \A i, j \in DOMAIN new : i < j => new[i] < new[j]
  <2> SUFFICES ASSUME NEW i \in DOMAIN new, NEW j \in DOMAIN new, i < j
               PROVE  new[i] < new[j]
    OBVIOUS
  <2>1. CASE j \in DOMAIN q
    BY <1>1, <1>6, <2>1 DEF Ordered
  <2>2. CASE j \notin DOMAIN q
    BY <1>3, <1>6, <2>2
  <2> QED
    BY <2>1, <2>2
<1>8. \A i \in DOMAIN w, j \in DOMAIN new : w[i][2] < new[j]
  BY <1>1, <1>4, <1>6 DEF Ordered
<1>9. \A m \in u, j \in DOMAIN new : m < new[j]
  BY <1>1, <1>5, <1>6 DEF Ordered
<1>10. \A i \in DOMAIN new, j \in DOMAIN rest : rest[j].do = "send" => new[i] < rest[j].nr
  BY <1>1, <1>2, <1>6 DEF Ordered
<1>11. Ordered(w, u, new, rest)
  BY <1>1, <1>7, <1>8, <1>9, <1>10 DEF Ordered
<1> QED
  BY <1>11 DEF new

\* The first message of the queue is begun.
LEMMA OrderedBegun ==
  ASSUME NEW w, NEW q \in Seq(Sent), q # <<>>, NEW t, Ordered(w, {}, q, t)
  PROVE  Ordered(w, {Head(q)}, Tail(q), t)
<1> DEFINE first == Head(q)
           rest == Tail(q)
<1>1. /\ 1 \in DOMAIN q /\ first = q[1] /\ DOMAIN rest \subseteq Nat \ {0}
      /\ \A i \in DOMAIN rest : i + 1 \in DOMAIN q /\ rest[i] = q[i + 1]
  OBVIOUS
<1> HIDE DEF first, rest
<1>2. \A i, j \in DOMAIN rest : i < j => rest[i] < rest[j]
  BY <1>1 DEF Ordered
<1>3. \A j \in DOMAIN rest : first < rest[j]
  BY <1>1 DEF Ordered
<1>4. Ordered(w, {first}, rest, t)
  BY <1>1, <1>2, <1>3 DEF Ordered
<1> QED
  BY <1>4 DEF first, rest

\* What is being written comes on the wire.
LEMMA OrderedWritten ==
  ASSUME NEW w \in Seq(Attempt \X Sent), NEW a \in Attempt, NEW m \in Sent, NEW q, NEW t, Ordered(w, {m}, q, t)
  PROVE  Ordered(Append(w, <<a, m>>), {}, q, t)
<1> DEFINE new == Append(w, <<a, m>>)
           entry == <<a, m>>
<1>1. entry \in Attempt \X Sent /\ entry[2] = m
  OBVIOUS
<1> HIDE DEF entry
<1>2. /\ \A i \in DOMAIN new : (i \in DOMAIN w /\ new[i] = w[i]) \/ (i = Len(w) + 1 /\ new[i] = entry)
      /\ DOMAIN w = 1 .. Len(w) /\ Len(w) \in Nat
  BY <1>1 DEF entry
<1> HIDE DEF new
<1>3. \A i \in DOMAIN w : w[i][2] < m
  BY DEF Ordered
<1>4. \A i, j \in DOMAIN new : i < j => new[i][2] < new[j][2]
  <2> SUFFICES ASSUME NEW i \in DOMAIN new, NEW j \in DOMAIN new, i < j
               PROVE  new[i][2] < new[j][2]
    OBVIOUS
  <2>1. CASE j \in DOMAIN w
    BY <1>2, <2>1 DEF Ordered
  <2>2. CASE j \notin DOMAIN w
    BY <1>1, <1>2, <1>3, <2>2
  <2> QED
    BY <2>1, <2>2
<1>5. \A i \in DOMAIN new, j \in DOMAIN q : new[i][2] < q[j]
  BY <1>1, <1>2 DEF Ordered
<1>6. \A i \in DOMAIN new, j \in DOMAIN t : t[j].do = "send" => new[i][2] < t[j].nr
  BY <1>1, <1>2 DEF Ordered
<1>7. Ordered(new, {}, q, t)
  BY <1>4, <1>5, <1>6 DEF Ordered
<1> QED
  BY <1>7 DEF new

\* A task comes behind the others: no send, or one that is later than all.
LEMMA OrderedPosted ==
  ASSUME NEW w, NEW u, NEW q, NEW t \in Seq(Task), NEW job \in Task, Ordered(w, u, q, t),
         job.do = "send" =>
           /\ \A i \in DOMAIN w : w[i][2] < job.nr
           /\ \A m \in u : m < job.nr
           /\ \A i \in DOMAIN q : q[i] < job.nr
           /\ \A i \in DOMAIN t : t[i].do = "send" => t[i].nr < job.nr
  PROVE  Ordered(w, u, q, Append(t, job))
<1> DEFINE new == Append(t, job)
<1>1. /\ \A i \in DOMAIN new : (i \in DOMAIN t /\ new[i] = t[i]) \/ (i = Len(t) + 1 /\ new[i] = job)
      /\ DOMAIN t = 1 .. Len(t) /\ Len(t) \in Nat
  OBVIOUS
<1> HIDE DEF new
<1>2. \A i, j \in DOMAIN new : i < j /\ new[i].do = "send" /\ new[j].do = "send" => new[i].nr < new[j].nr
  <2> SUFFICES ASSUME NEW i \in DOMAIN new, NEW j \in DOMAIN new, i < j, new[i].do = "send", new[j].do = "send"
               PROVE  new[i].nr < new[j].nr
    OBVIOUS
  <2>1. CASE j \in DOMAIN t
    BY <1>1, <2>1 DEF Ordered
  <2>2. CASE j \notin DOMAIN t
    BY <1>1, <2>2
  <2> QED
    BY <2>1, <2>2
<1>3. \A j \in DOMAIN new : new[j].do = "send" =>
        /\ \A i \in DOMAIN w : w[i][2] < new[j].nr
        /\ \A m \in u : m < new[j].nr
        /\ \A i \in DOMAIN q : q[i] < new[j].nr
  BY <1>1 DEF Ordered
<1>4. Ordered(w, u, q, new)
  BY <1>2, <1>3 DEF Ordered
<1> QED
  BY <1>4 DEF new

LEMMA RunKeepsOrder ==
  ASSUME TypeOK, Numbered, OneConnection, InOrder, RunTask
  PROVE  InOrder'
<1>1. tasks # <<>> /\ Continues(Closing) /\ wire' = wire
  BY RunContinues DEF RunTask, Start, Resolved, Connected, ReadDone, Send, Written, Disconnect, WriteFailed
<1>2. /\ DOMAIN tasks' \subseteq Nat \ {0} /\ DOMAIN tasks' \subseteq Int
      /\ \A i \in DOMAIN tasks' : tasks'[i].do = "send" => i + 1 \in DOMAIN tasks /\ tasks'[i] = tasks[i + 1]
  <2>1. tasks' \in Seq(Task)
    BY <1>1, Continued DEF TypeOK
  <2>2. \A i \in DOMAIN tasks' :
          (i + 1 \in DOMAIN tasks /\ tasks'[i] = tasks[i + 1]) \/ tasks'[i].do \in Closing
    BY <1>1, Continued DEF TypeOK
  <2> QED
    BY <2>1, <2>2 DEF Closing
<1>3. ASSUME NEW v \in SUBSET writes
      PROVE  Ordered(wire, v, writeQueue, tasks')
  BY <1>2, OrderedPop DEF InOrder
<1>4. CASE writes' \subseteq writes /\ writeQueue' = writeQueue
  BY <1>1, <1>3, <1>4 DEF InOrder
<1>5. CASE writes' \subseteq writes /\ writeQueue' = <<>>
  BY <1>1, <1>3, <1>5, OrderedEmptied DEF InOrder
<1>6. ASSUME NEW queue \in Seq(Sent), queue # <<>>, writes = {}, Ordered(wire, writes, queue, tasks'),
             writeQueue' = Tail(queue), writes' = writes \cup {Head(queue)}
      PROVE  InOrder'
  <2>1. Ordered(wire, {Head(queue)}, Tail(queue), tasks')
    BY <1>6, OrderedBegun
  <2>2. writes' = {Head(queue)}
    BY <1>6
  <2> QED
    BY <1>1, <1>6, <2>1, <2>2 DEF InOrder
<1>7. CASE Send
  <2>1. CASE UNCHANGED <<writeQueue, writes>>
    BY <1>4, <2>1
  <2>2. CASE state = "Connected" /\ DoWrite(Append(writeQueue, Nr), writing)
    <3> DEFINE queue == Append(writeQueue, Nr)
    <3>1. /\ 1 \in DOMAIN tasks /\ tasks[1].do = "send" /\ Nr = tasks[1].nr /\ Nr \in Sent
          /\ writeQueue \in Seq(Sent)
      BY <1>7, HeadNumber DEF TypeOK, Send, Turn, Nr
    <3>2. Ordered(wire, writes, Append(writeQueue, tasks[1].nr), tasks')
      BY <1>2, <3>1, OrderedQueued DEF InOrder
    <3>3. Ordered(wire, writes, queue, tasks') /\ queue \in Seq(Sent)
      BY <3>1, <3>2
    <3>4. DoWrite(queue, writing)
      BY <2>2
    <3> HIDE DEF queue
    <3>5. CASE writeQueue' = queue /\ writes' = writes
      BY <1>1, <3>3, <3>5 DEF InOrder
    <3>6. CASE ~(writeQueue' = queue /\ writes' = writes)
      <4>1. queue # <<>> /\ ~writing /\ writeQueue' = Tail(queue) /\ writes' = writes \cup {Head(queue)}
        BY <3>4, <3>6 DEF DoWrite
      <4>2. writes = {}
        BY <2>2, <4>1 DEF OneConnection, OneOfEach
      <4> QED
        BY <1>6, <3>3, <4>1, <4>2
    <3> QED
      BY <3>5, <3>6
  <2> QED
    BY <1>7, <2>1, <2>2 DEF Send
<1>8. CASE Written
  <2>1. CASE writeQueue' = writeQueue /\ writes' = writes
    BY <1>4, <2>1
  <2>2. CASE ~(writeQueue' = writeQueue /\ writes' = writes)
    <3>1. /\ state = "Connected" /\ writeQueue # <<>>
          /\ writeQueue' = Tail(writeQueue) /\ writes' = writes \cup {Head(writeQueue)}
      BY <1>8, <2>2 DEF Written, DoWrite
    <3>2. ~None(OfWrites)
      BY <1>1, <1>8 DEF TypeOK, Written, Turn, None, OfWrites
    <3>3. writes = {}
      BY <3>1, <3>2 DEF OneConnection, OneOfEach
    <3>4. writeQueue \in Seq(Sent) /\ Ordered(wire, writes, writeQueue, tasks')
      BY <1>3 DEF TypeOK
    <3> QED
      BY <1>6, <3>1, <3>3, <3>4
  <2> QED
    BY <2>1, <2>2
<1>9. ASSUME ~Send, ~Written
      PROVE  /\ writes' \subseteq writes
             /\ writeQueue' = writeQueue \/ writeQueue' = <<>>
  <2>1. HandleDisconnect => writes' \subseteq writes /\ (writeQueue' = writeQueue \/ writeQueue' = <<>>)
    BY DEF HandleDisconnect, CloseSocket, ResetState
  <2> QED
    BY <1>9, <2>1
       DEF RunTask, Start, Resolved, Connected, ReadDone, Disconnect, WriteFailed, CloseSocket, ResetState
<1> QED
  BY <1>4, <1>5, <1>7, <1>8, <1>9

LEMMA OutsideKeepsOrder ==
  ASSUME TypeOK, Numbered, OneConnection, InOrder, Next, ~RunTask
  PROVE  InOrder'
<1> USE DEF TaskKind
<1>1. writeQueue' = writeQueue
  BY DEF Next, CallStartConnect, CallSend, CallDisconnect, ResolveEnds, ConnectEnds, ReadEnds, WriteEnds
<1>2. CASE CallSend
  <2>1. PICK job \in Task : job.do = "send" /\ job.nr = sends + 1 /\ tasks' = Append(tasks, job)
    BY <1>2, PostedJob DEF CallSend, TypeOK
  <2>2. /\ \A i \in DOMAIN wire : wire[i][2] < job.nr
        /\ \A m \in writes : m < job.nr
        /\ \A i \in DOMAIN writeQueue : writeQueue[i] < job.nr
        /\ \A i \in DOMAIN tasks : tasks[i].do = "send" => tasks[i].nr < job.nr
    <3>1. \A m \in Sent : m \in Int
      BY DEF Sent
    <3>2. \A i \in DOMAIN writeQueue : writeQueue[i] \in Sent
      BY DEF TypeOK
    <3>3. \A i \in DOMAIN wire : wire[i][2] \in Sent
      BY DEF TypeOK
    <3>4. sends \in Int /\ writes \subseteq Sent
      BY DEF TypeOK
    <3> QED
      BY <2>1, <3>1, <3>2, <3>3, <3>4 DEF Numbered
  <2>3. Ordered(wire, writes, writeQueue, Append(tasks, job))
    BY <2>2, OrderedPosted DEF InOrder, TypeOK
  <2> QED
    BY <1>1, <1>2, <2>1, <2>3 DEF InOrder, CallSend
<1>3. CASE \E m \in Sent : WriteEnds(m)
  <2>1. PICK m \in Sent : WriteEnds(m)
    BY <1>3
  <2>2. writes = {m} /\ writes' = {}
    BY <2>1 DEF WriteEnds, OneConnection, OneOfEach
  <2>3. PICK kind \in {"written", "writeFailed"} : Post(kind, 0)
    BY <2>1 DEF WriteEnds
  <2>4. PICK job \in Task : job.do = kind /\ tasks' = Append(tasks, job)
    BY <2>3, PostedJob
  <2>5. \A v \in SUBSET writes : Ordered(wire, v, writeQueue, tasks)
    BY DEF InOrder, Ordered
  <2>6. Ordered(wire', {}, writeQueue, tasks)
    <3>1. CASE wire' = wire
      BY <2>5, <3>1
    <3>2. CASE wire' = Append(wire, <<socket.by, m>>)
      <4>1. socket.by \in Attempt /\ wire \in Seq(Attempt \X Sent) /\ Ordered(wire, {m}, writeQueue, tasks)
        BY <2>1, <2>2 DEF TypeOK, WriteEnds, Closed, InOrder
      <4> QED
        BY <3>2, <4>1, OrderedWritten
    <3> QED
      BY <2>1, <3>1, <3>2 DEF WriteEnds
  <2>7. Ordered(wire', {}, writeQueue, Append(tasks, job))
    BY <2>4, <2>6, OrderedPosted DEF TypeOK
  <2> QED
    BY <1>1, <2>2, <2>4, <2>7 DEF InOrder
<1>4. CASE ~CallSend /\ ~\E m \in Sent : WriteEnds(m)
  <2>1. UNCHANGED <<writes, wire>>
    BY <1>4 DEF Next, CallStartConnect, CallDisconnect, ResolveEnds, ConnectEnds, ReadEnds
  <2>2. \E job \in Task : job.do # "send" /\ tasks' = Append(tasks, job)
    <3>1. CASE CallStartConnect
      BY <3>1, PostedJob DEF CallStartConnect, TypeOK
    <3>2. CASE CallDisconnect
      BY <3>2, PostedJob DEF CallDisconnect
    <3>3. CASE ResolveEnds
      <4> DEFINE Request == [attempt : Attempt, cancelled : BOOLEAN]
      <4>1. \A request \in Request : request.attempt \in Nat
        BY ClientAssumption DEF Attempt
      <4>2. resolving \in Seq(Request) /\ resolving # <<>>
        BY <3>3 DEF TypeOK, ResolveEnds
      <4> HIDE DEF Request
      <4>3. Head(resolving).attempt \in Nat
        BY <4>1, <4>2
      <4> QED
        BY <3>3, <4>3, PostedJob DEF ResolveEnds
    <3>4. CASE ConnectEnds
      <4>1. socket.by \in Nat
        BY <3>4, ClientAssumption DEF TypeOK, ConnectEnds, Closed, Attempt
      <4> QED
        BY <3>4, <4>1, PostedJob DEF ConnectEnds
    <3>5. CASE ReadEnds
      BY <3>5, PostedJob DEF ReadEnds
    <3> QED
      BY <1>4, <3>1, <3>2, <3>3, <3>4, <3>5 DEF Next
  <2>3. PICK job \in Task : job.do # "send" /\ tasks' = Append(tasks, job)
    BY <2>2
  <2>4. Ordered(wire, writes, writeQueue, Append(tasks, job))
    BY <2>3, OrderedPosted DEF InOrder, TypeOK
  <2> QED
    BY <1>1, <2>1, <2>3, <2>4 DEF InOrder
<1> QED
  BY <1>2, <1>3, <1>4

--------------------------------------------------------------------------------
(* The theorems *)

LEMMA GoodAtFirst == Init => Good
<1> SUFFICES ASSUME Init
             PROVE  Good
  OBVIOUS
<1>1. DOMAIN <<>> = {} /\ Len(<<>>) = 0
  OBVIOUS
<1>2. TypeOK
  <2>1. /\ <<>> \in Seq(Sent) /\ <<>> \in Seq(Task) /\ <<>> \in Seq(Attempt \X Sent)
        /\ <<>> \in Seq([attempt : Attempt, cancelled : BOOLEAN])
    OBVIOUS
  <2>2. 0 \in 0 .. MaxConnects /\ 0 \in 0 .. MaxSends /\ Len(writeQueue) <= MaxQueueSize
    BY <1>1, ClientAssumption DEF Init
  <2> QED
    BY <2>1, <2>2 DEF Init, TypeOK
<1>3. Numbered /\ AttemptGoesOn
  BY <1>1 DEF Init, Numbered, AttemptGoesOn
<1>4. OneChain /\ OneOfEach
  BY <1>1 DEF Init, OneChain, EarlierFirst, OneOfEach, None
<1>5. SocketFits
  BY <1>1 DEF Init, SocketFits, Closed
<1>6. InOrder
  BY <1>1 DEF Init, InOrder, Ordered
<1> QED
  BY <1>2, <1>3, <1>4, <1>5, <1>6 DEF Good, Inductive

LEMMA GoodStays == Good /\ [Next]_vars => Good'
<1> SUFFICES ASSUME Good, [Next]_vars
             PROVE  Good'
  OBVIOUS
<1>1. TypeOK /\ Numbered /\ AttemptGoesOn /\ (~crossed => OneConnection /\ InOrder)
  BY DEF Good, Inductive, OneConnection
<1>2. CASE Next
  <2>1. TypeOK' /\ Numbered'
    BY <1>1, <1>2, RunTypes, CallTypes, NetworkTypes DEF Next
  <2>2. AttemptGoesOn'
    BY <1>1, <1>2, RunGoesOn, OutsideGoesOn DEF Next
  <2>3. ~crossed' => ~crossed
    BY <1>2
       DEF Next, RunTask, Start, Resolved, Connected, ReadDone, Send, Written, Disconnect, WriteFailed,
           CallStartConnect, CallSend, CallDisconnect, ResolveEnds, ConnectEnds, ReadEnds, WriteEnds
  <2>4. ~crossed' => OneConnection'
    BY <1>1, <1>2, OneConnectionStays
  <2>5. ~crossed' => InOrder'
    BY <1>1, <1>2, <2>3, RunKeepsOrder, OutsideKeepsOrder
  <2> QED
    BY <2>1, <2>2, <2>4, <2>5 DEF Good, Inductive, OneConnection
<1>3. CASE UNCHANGED vars
  <2>1. TypeOK'
    BY <1>1, <1>3 DEF TypeOK
  <2>2. Numbered' /\ AttemptGoesOn' /\ (~crossed' => InOrder')
    BY <1>1, <1>3 DEF Numbered, AttemptGoesOn, InOrder, Ordered, Pending, Asked, None
  <2>3. ~crossed' => OneConnection'
    BY <1>1, <1>3 DEF OneConnection, OneChain, EarlierFirst, SocketFits, OneOfEach, Pending, Asked, None, One
  <2> QED
    BY <2>1, <2>2, <2>3 DEF Good, Inductive, OneConnection
<1> QED
  BY <1>2, <1>3

LEMMA GoodHolds == Spec => []Good
<1>1. Good /\ [Next]_vars => Good'
  BY GoodStays
<1> QED
  BY <1>1, GoodAtFirst, PTL DEF Spec

\* The variables of the client and of what it is connected to keep their types.
THEOREM TypesHold == Spec => []TypeOK
<1>1. Good => TypeOK
  BY DEF Good
<1> QED
  BY <1>1, GoodHolds, PTL

\* While no attempts cross, one message at most is being written, however often
\* and in whatever order connecting, sending and disconnecting are asked for.
THEOREM OneWrite == Spec => []OneWriteAtATime
<1>1. Good => OneWriteAtATime
  <2> SUFFICES ASSUME Good, ~crossed
               PROVE  Cardinality(writes) <= 1
    BY DEF OneWriteAtATime
  <2>1. writes = {} \/ \E m : writes = {m}
    BY DEF Good, Inductive, OneOfEach
  <2>2. Cardinality({}) = 0 /\ \A m : Cardinality({m}) = 1
    BY FS_EmptySet, FS_Singleton
  <2>3. Cardinality(writes) = 0 \/ Cardinality(writes) = 1
    BY <2>1, <2>2, Zenon
  <2> QED
    BY <2>3
<1> QED
  BY <1>1, GoodHolds, PTL

\* While no attempts cross, each connection carries the messages in the order of
\* the calls and none twice.
THEOREM Order == Spec => []WrittenInOrder
<1>1. Good => WrittenInOrder
  BY DEF Good, Inductive, InOrder, Ordered, WrittenInOrder
<1> QED
  BY <1>1, GoodHolds, PTL

\* While no attempts cross, a client with nothing left to run is what state_ says.
THEOREM Belief == Spec => []BeliefIsTrue
<1>1. Good => BeliefIsTrue
  <2> SUFFICES ASSUME Good, tasks = <<>>, ~crossed
               PROVE  /\ state = "Connected" => socket.is = "connected" /\ reads = 1
                      /\ state = "Connecting" => resolving # <<>> \/ socket.is = "connecting"
                      /\ state = "Disconnected" => socket.is # "connected" /\ reads = 0 /\ writes = {}
    BY DEF BeliefIsTrue
  <2>1. DOMAIN tasks = {} /\ DOMAIN <<>> = {}
    OBVIOUS
  <2>2. \A kinds : None(kinds) /\ ~One(kinds)
    BY <2>1 DEF None, One
  <2>3. Asked => resolving # <<>>
    BY <2>1 DEF Asked
  <2> QED
    BY <2>2, <2>3 DEF Good, Inductive, AttemptGoesOn, Pending, SocketFits, OneOfEach
<1> QED
  BY <1>1, GoodHolds, PTL

================================================================================
