------------------------------- MODULE WireProofs --------------------------------
(***************************************************************************)
(* What holds of every session, for any number of sessions, of messages    *)
(* and of parts: it ends once and clean, and while it lives it forgets no  *)
(* message it took.  And of the frames in the stream it reads, for any     *)
(* number of items and any pieces: each message is delivered once and      *)
(* whole, and the two codecs do the same.  And of what is in the frames: a *)
(* name is shown as it was typed, a dungeon is drawn as it is, and a line  *)
(* and an answer are understood as they are meant.                         *)
(***************************************************************************)
EXTENDS Codecs, SessionWrites, FiniteSetTheorems, SequenceTheorems,
        WellFoundedInduction, TLAPS

USE DEF session, broadcast, vars

\* The invariant, of one session.
MessageTasks(s) == \A i \in DOMAIN tasks[s] : tasks[s][i].do = "send" => tasks[s][i].msg \in Outgoing

Closed(s) == announced[s] = 1 /\ ~reading[s] /\ writes[s] = {} /\ writeQueue[s] = <<>>

Failing(s) == \E i \in DOMAIN tasks[s] : tasks[s][i].do = "writeFailed"

Remembered(s, nr) ==
  \/ \E i \in DOMAIN writeQueue[s] : writeQueue[s][i].nr = nr
  \/ \E w \in writes[s] : w.msg.nr = nr
  \/ OnWire(s, nr)
  \/ Failing(s)

Fine(s) ==
  /\ MessageTasks(s)
  /\ IsFiniteSet(writes[s])
  /\ state[s] = "Disconnected" => Closed(s)
  /\ state[s] = "Connected" => announced[s] = 0 /\ \A nr \in accepted[s] : Remembered(s, nr)

LEMMA InductiveIsFine == Inductive <=> TypeOK /\ \A s \in Session : Fine(s)
BY DEF Inductive, Fine, MessageTasks, Closed, Remembered, Failing, ClosedIsClean, NothingForgotten, TypeOK

LEMMA FineStaysInductive ==
  ASSUME TypeOK', \A s \in Session : Fine(s)'
  PROVE  Inductive'
BY DEF Inductive, Fine, MessageTasks, Closed, Remembered, Failing, ClosedIsClean, NothingForgotten, TypeOK

LEMMA FineIsInductive ==
  ASSUME NEW s \in Session, TypeOK', Fine(s)', \A t \in Session \ {s} : Fine(t)'
  PROVE  Inductive'
BY FineStaysInductive

\* Whoever is not concerned by a step stays as he was.
LEMMA OthersStayFine ==
  ASSUME NEW t \in Session, Fine(t),
         state'[t] = state[t], writeQueue'[t] = writeQueue[t], tasks'[t] = tasks[t],
         reading'[t] = reading[t], writes'[t] = writes[t], accepted'[t] = accepted[t],
         wire'[t] = wire[t], announced'[t] = announced[t]
  PROVE  Fine(t)'
BY DEF Fine, MessageTasks, Closed, Remembered, Failing, OnWire

--------------------------------------------------------------------------------
(* Tasks come at the end of the strand's queue and leave from its front    *)

LEMMA JobsAreTasks ==
  ASSUME NEW kind \in TaskKind
  PROVE  Job(kind) \in Task /\ Job(kind).do = kind
BY DEF Job, Task

\* One handler many times, as closing makes them.
LEMMA SameTaskManyTimes ==
  ASSUME NEW n \in Nat, NEW task \in Task
  PROVE  /\ [i \in 1 .. n |-> task] \in Seq(Task)
         /\ \A i \in DOMAIN [j \in 1 .. n |-> task] : [j \in 1 .. n |-> task][i] = task
OBVIOUS

LEMMA AppendTask ==
  ASSUME TypeOK, NEW s \in Session, MessageTasks(s),
         NEW task \in Task, task.do = "send" => task.msg \in Outgoing,
         tasks' = [tasks EXCEPT ![s] = Append(@, task)]
  PROVE  /\ tasks' \in [Session -> Seq(Task)]
         /\ \A t \in Session \ {s} : tasks'[t] = tasks[t]
         /\ MessageTasks(s)'
         /\ Failing(s) => Failing(s)'
         /\ task.do = "writeFailed" => Failing(s)'
<1>1. tasks[s] \in Seq(Task)
  BY DEF TypeOK
<1>2. /\ tasks'[s] = Append(tasks[s], task) /\ tasks' \in [Session -> Seq(Task)]
      /\ \A t \in Session \ {s} : tasks'[t] = tasks[t]
  BY <1>1 DEF TypeOK
<1> DEFINE n == Len(tasks[s])
<1>3. /\ DOMAIN tasks[s] = 1..n /\ DOMAIN tasks'[s] = 1..n + 1 /\ n \in Nat
      /\ tasks'[s][n + 1] = task /\ \A i \in 1..n : tasks'[s][i] = tasks[s][i]
  BY <1>1, <1>2
<1> HIDE DEF n
<1>4. MessageTasks(s)'
  <2> SUFFICES ASSUME NEW i \in 1..n + 1, tasks'[s][i].do = "send" PROVE tasks'[s][i].msg \in Outgoing
    BY <1>3 DEF MessageTasks
  <2>1. CASE i \in 1..n
    BY <1>3, <2>1 DEF MessageTasks
  <2>2. CASE i = n + 1
    BY <1>3, <2>2
  <2> QED
    BY <1>3, <2>1, <2>2
<1>5. Failing(s) => Failing(s)'
  BY <1>3 DEF Failing
<1>6. task.do = "writeFailed" => Failing(s)'
  BY <1>3 DEF Failing
<1> QED
  BY <1>2, <1>4, <1>5, <1>6

\* The front of the queue is taken, and was not a report of a failed write.
LEMMA TakeTask ==
  ASSUME TypeOK, NEW s \in Session, tasks[s] # <<>>, MessageTasks(s),
         tasks' = [tasks EXCEPT ![s] = Tail(tasks[s])]
  PROVE  /\ tasks' \in [Session -> Seq(Task)]
         /\ MessageTasks(s)'
         /\ Head(tasks[s]).do # "writeFailed" /\ Failing(s) => Failing(s)'
         /\ Head(tasks[s]) \in Task
<1>1. tasks[s] \in Seq(Task) /\ tasks'[s] = Tail(tasks[s])
  BY DEF TypeOK
<1>2. /\ Head(tasks[s]) = tasks[s][1] /\ Head(tasks[s]) \in Task /\ Tail(tasks[s]) \in Seq(Task)
      /\ Len(Tail(tasks[s])) = Len(tasks[s]) - 1
      /\ \A i \in 1..Len(tasks[s]) - 1 : Tail(tasks[s])[i] = tasks[s][i + 1]
  BY <1>1
<1>3. MessageTasks(s)'
  BY <1>1, <1>2 DEF MessageTasks
<1>4. ASSUME Head(tasks[s]).do # "writeFailed", NEW i \in DOMAIN tasks[s], tasks[s][i].do = "writeFailed"
      PROVE  Failing(s)'
  <2>1. i \in 1..Len(tasks[s]) /\ i # 1 /\ Len(tasks[s]) \in Nat
    BY <1>1, <1>2, <1>4
  <2> DEFINE j == i - 1
  <2>2. j \in 1..Len(tasks[s]) - 1 /\ i = j + 1
    BY <2>1
  <2> HIDE DEF j
  <2>3. tasks'[s][j] = tasks[s][i]
    BY <1>1, <1>2, <2>2
  <2>4. j \in DOMAIN tasks'[s]
    BY <1>1, <1>2, <2>2
  <2> QED
    BY <1>4, <2>3, <2>4 DEF Failing
<1> QED
  BY <1>1, <1>2, <1>3, <1>4 DEF TypeOK, Failing

--------------------------------------------------------------------------------
(* send, on the strand *)

LEMMA StartedIsWrite ==
  ASSUME NEW m \in Outgoing
  PROVE  [msg |-> m, next |-> 1] \in Write
BY WritesAssumption DEF Write

\* A connected session that takes a message remembers it, and what it
\* remembered before; one that is not connected does nothing.
LEMMA SendKeeps ==
  ASSUME TypeOK, NEW s \in Session, NEW m \in Outgoing, Fine(s), Send(s, m),
         state' = state, wire' = wire, announced' = announced,
         Failing(s) => Failing(s)'
  PROVE  /\ writeQueue' \in [Session -> Seq(Outgoing)]
         /\ writes' \in [Session -> SUBSET Write]
         /\ accepted' \in [Session -> SUBSET (Nat \ {0})]
         /\ \A t \in Session \ {s} : writeQueue'[t] = writeQueue[t] /\ writes'[t] = writes[t] /\ accepted'[t] = accepted[t]
         /\ IsFiniteSet(writes'[s])
         /\ state[s] = "Disconnected" => writeQueue'[s] = writeQueue[s] /\ writes'[s] = writes[s]
         /\ state[s] = "Connected" => \A nr \in accepted'[s] : Remembered(s, nr)'
<1>1. CASE state[s] # "Connected"
  BY <1>1 DEF TypeOK, Send, Fine
<1>2. CASE state[s] = "Connected"
  <2> DEFINE w == [msg |-> m, next |-> 1]
  <2>1. m.nr \in Nat \ {0} /\ w \in Write /\ w.msg = m
    BY StartedIsWrite DEF Outgoing
  <2>2. accepted' = [accepted EXCEPT ![s] = @ \cup {m.nr}]
    BY <1>2 DEF Send
  <2>3. \A nr \in accepted[s] : Remembered(s, nr)
    BY <1>2 DEF Fine
  <2>4. CASE writeQueue[s] = <<>>
    <3>1. writeQueue' = writeQueue /\ writes' = [writes EXCEPT ![s] = @ \cup {w}]
      BY <1>2, <2>4 DEF Send, StartWrite
    <3>2. Remembered(s, m.nr)' /\ \A nr \in accepted[s] : Remembered(s, nr)'
      BY <2>1, <2>3, <3>1 DEF TypeOK, Remembered, OnWire
    <3>3. writes'[s] = writes[s] \cup {w} /\ IsFiniteSet(writes[s])
      BY <3>1 DEF TypeOK, Fine
    <3>4. IsFiniteSet(writes'[s])
      BY <3>3, FS_AddElement
    <3>5. writes' \in [Session -> SUBSET Write] /\ accepted' \in [Session -> SUBSET (Nat \ {0})]
      BY <2>1, <2>2, <3>1 DEF TypeOK
    <3>6. accepted'[s] = accepted[s] \cup {m.nr}
      BY <2>2 DEF TypeOK
    <3>7. \A t \in Session \ {s} : writes'[t] = writes[t] /\ accepted'[t] = accepted[t]
      BY <2>2, <3>1 DEF TypeOK
    <3> HIDE DEF w
    <3>8. \A nr \in accepted'[s] : Remembered(s, nr)'
      BY <3>2, <3>6
    <3>9. writeQueue' \in [Session -> Seq(Outgoing)]
      BY <3>1 DEF TypeOK
    <3> QED
      BY <1>2, <3>1, <3>4, <3>5, <3>7, <3>8, <3>9
  <2>5. CASE writeQueue[s] # <<>>
    <3>1. writes' = writes /\ writeQueue' = [writeQueue EXCEPT ![s] = Append(@, m)]
      BY <1>2, <2>5 DEF Send
    <3>2. /\ writeQueue[s] \in Seq(Outgoing) /\ writeQueue'[s] = Append(writeQueue[s], m)
          /\ Len(writeQueue'[s]) = Len(writeQueue[s]) + 1
          /\ writeQueue'[s][Len(writeQueue[s]) + 1] = m
          /\ \A i \in 1..Len(writeQueue[s]) : writeQueue'[s][i] = writeQueue[s][i]
          /\ DOMAIN writeQueue'[s] = 1..Len(writeQueue[s]) + 1
          /\ DOMAIN writeQueue[s] = 1..Len(writeQueue[s])
      BY <3>1 DEF TypeOK
    <3>3. Remembered(s, m.nr)'
      BY <3>2 DEF Remembered
    <3>4. ASSUME NEW nr \in accepted[s] PROVE Remembered(s, nr)'
      <4>1. ASSUME NEW i \in DOMAIN writeQueue[s], writeQueue[s][i].nr = nr
            PROVE  Remembered(s, nr)'
        <5>1. i \in DOMAIN writeQueue'[s] /\ writeQueue'[s][i].nr = nr
          BY <3>2, <4>1
        <5> QED
          BY <5>1 DEF Remembered
      <4>2. CASE (\E w1 \in writes[s] : w1.msg.nr = nr) \/ OnWire(s, nr) \/ Failing(s)
        BY <3>1, <4>2 DEF Remembered, OnWire
      <4> QED
        BY <2>3, <4>1, <4>2 DEF Remembered
    <3> QED
      BY <1>2, <2>1, <2>2, <3>1, <3>2, <3>3, <3>4 DEF TypeOK, Fine
  <2> QED
    BY <2>4, <2>5
<1> QED
  BY <1>1, <1>2

--------------------------------------------------------------------------------
(* doDisconnect *)

\* A queue followed by jobs that carry no message.
LEMMA JobsFollow ==
  ASSUME NEW q \in Seq(Task), NEW r \in Seq(Task),
         \A i \in DOMAIN q : q[i].do = "send" => q[i].msg \in Outgoing,
         \A i \in DOMAIN r : r[i].do # "send"
  PROVE  /\ q \o r \in Seq(Task)
         /\ \A i \in DOMAIN (q \o r) : (q \o r)[i].do = "send" => (q \o r)[i].msg \in Outgoing
<1> DEFINE m == Len(q)
           n == Len(r)
<1>1. /\ q \o r \in Seq(Task) /\ DOMAIN (q \o r) = 1..m + n /\ m \in Nat /\ n \in Nat
      /\ DOMAIN q = 1..m /\ DOMAIN r = 1..n
      /\ \A i \in 1..m + n : (q \o r)[i] = IF i <= m THEN q[i] ELSE r[i - m]
  OBVIOUS
<1> HIDE DEF m, n
<1>2. ASSUME NEW i \in 1..m + n, (q \o r)[i].do = "send"
      PROVE  (q \o r)[i].msg \in Outgoing
  <2>1. CASE i <= m
    BY <1>1, <1>2, <2>1
  <2>2. CASE i > m
    <3>1. i - m \in 1..n /\ (q \o r)[i] = r[i - m]
      BY <1>1, <2>2
    <3> QED
      BY <1>1, <1>2, <3>1
  <2> QED
    BY <1>1, <2>1, <2>2
<1> QED
  BY <1>1, <1>2

\* Whatever was under way, it ends and is announced once.
LEMMA DisconnectKeeps ==
  ASSUME TypeOK, NEW s \in Session, Fine(s),
         NEW rest \in Seq(Task), \A i \in DOMAIN rest : rest[i].do = "send" => rest[i].msg \in Outgoing,
         DoDisconnect(s, rest), UNCHANGED <<handed, accepted, wire, broadcast>>
  PROVE  TypeOK' /\ Fine(s)' /\ \A t \in Session \ {s} : Fine(t) => Fine(t)'
<1>1. CASE state[s] = "Disconnected"
  <2>1. tasks' = [tasks EXCEPT ![s] = rest] /\ UNCHANGED <<state, writeQueue, reading, writes, announced>>
    BY <1>1 DEF DoDisconnect
  <2>2. TypeOK'
    BY <2>1 DEF TypeOK
  <2>3. Fine(s)'
    BY <1>1, <2>1 DEF TypeOK, Fine, MessageTasks, Closed
  <2> QED
    BY <2>1, <2>2, <2>3, OthersStayFine DEF TypeOK
<1>2. CASE state[s] # "Disconnected"
  <2> DEFINE read == IF reading[s] THEN <<Job("readFailed")>> ELSE <<>>
             write == [i \in 1..Cardinality(writes[s]) |-> Job("writeFailed")]
             q == rest \o read \o write
  <2>1. /\ state' = [state EXCEPT ![s] = "Disconnected"]
        /\ writeQueue' = [writeQueue EXCEPT ![s] = <<>>]
        /\ tasks' = [tasks EXCEPT ![s] = q]
        /\ reading' = [reading EXCEPT ![s] = FALSE]
        /\ writes' = [writes EXCEPT ![s] = {}]
        /\ announced' = [announced EXCEPT ![s] = @ + 1]
    BY <1>2 DEF DoDisconnect
  <2>2. announced[s] = 0 /\ state[s] = "Connected"
    BY <1>2 DEF TypeOK, Fine
  <2>3. q \in Seq(Task) /\ \A i \in DOMAIN q : q[i].do = "send" => q[i].msg \in Outgoing
    <3>1. read \in Seq(Task) /\ \A i \in DOMAIN read : read[i].do # "send"
      BY JobsAreTasks DEF Job, TaskKind
    <3>2. write \in Seq(Task) /\ \A i \in DOMAIN write : write[i].do # "send"
      <4>1. Cardinality(writes[s]) \in Nat
        BY FS_CardinalityType DEF Fine
      <4>2. Job("writeFailed") \in Task /\ Job("writeFailed").do # "send"
        BY JobsAreTasks DEF TaskKind
      <4> QED
        BY <4>1, <4>2, SameTaskManyTimes
    <3> HIDE DEF read, write
    <3> QED
      BY <3>1, <3>2, JobsFollow
  <2> HIDE DEF q
  <2>4. TypeOK'
    BY <2>1, <2>2, <2>3 DEF TypeOK
  <2>5. Fine(s)'
    BY <2>1, <2>2, <2>3, FS_EmptySet DEF TypeOK, Fine, MessageTasks, Closed
  <2> QED
    BY <2>1, <2>4, <2>5, OthersStayFine DEF TypeOK
<1> QED
  BY <1>1, <1>2

--------------------------------------------------------------------------------
(* The steps *)

LEMMA InitFine == Init => Inductive
<1> SUFFICES ASSUME Init PROVE Inductive
  OBVIOUS
<1>1. TypeOK
  BY DEF Init, TypeOK
<1>2. ASSUME NEW s \in Session PROVE Fine(s)
  BY FS_EmptySet DEF Init, Fine, MessageTasks
<1> QED
  BY <1>1, <1>2, InductiveIsFine

LEMMA RunSendFine ==
  ASSUME Inductive, NEW s \in Session, RunSend(s)
  PROVE  Inductive'
<1> DEFINE m == Head(tasks[s]).msg
<1>1. TypeOK /\ \A t \in Session : Fine(t)
  BY InductiveIsFine
<1>2. tasks[s] # <<>> /\ tasks[s] \in Seq(Task) /\ Head(tasks[s]) = tasks[s][1] /\ 1 \in DOMAIN tasks[s]
  BY <1>1 DEF RunSend, Turn, TypeOK
<1>3. m \in Outgoing /\ Head(tasks[s]).do = "send"
  BY <1>1, <1>2 DEF RunSend, Turn, Fine, MessageTasks
<1>4. /\ tasks' \in [Session -> Seq(Task)] /\ MessageTasks(s)' /\ (Failing(s) => Failing(s)')
      /\ tasks' = [tasks EXCEPT ![s] = Tail(tasks[s])]
  BY <1>1, <1>2, <1>3, TakeTask DEF RunSend, TurnOver, Rest, Fine
<1>5. /\ Send(s, m) /\ state' = state /\ wire' = wire /\ announced' = announced /\ reading' = reading
      /\ handed' = handed /\ UNCHANGED broadcast
  BY DEF RunSend
<1> HIDE DEF m
<1>6. /\ writeQueue' \in [Session -> Seq(Outgoing)]
      /\ writes' \in [Session -> SUBSET Write]
      /\ accepted' \in [Session -> SUBSET (Nat \ {0})]
      /\ \A t \in Session \ {s} : writeQueue'[t] = writeQueue[t] /\ writes'[t] = writes[t] /\ accepted'[t] = accepted[t]
      /\ IsFiniteSet(writes'[s])
      /\ state[s] = "Disconnected" => writeQueue'[s] = writeQueue[s] /\ writes'[s] = writes[s]
      /\ state[s] = "Connected" => \A nr \in accepted'[s] : Remembered(s, nr)'
  BY <1>1, <1>3, <1>4, <1>5, SendKeeps
<1>7. TypeOK'
  BY <1>1, <1>4, <1>5, <1>6 DEF TypeOK
<1>8. Fine(s)'
  <2>1. state[s] = "Disconnected" => Closed(s)'
    BY <1>1, <1>5, <1>6 DEF Fine, Closed
  <2>2. state[s] = "Connected" => announced'[s] = 0
    BY <1>1, <1>5 DEF Fine
  <2> QED
    BY <1>4, <1>5, <1>6, <2>1, <2>2 DEF Fine
<1>9. ASSUME NEW t \in Session \ {s} PROVE Fine(t)'
  <2>1. tasks'[t] = tasks[t]
    BY <1>1, <1>4 DEF TypeOK
  <2> QED
    BY <1>1, <1>5, <1>6, <2>1, OthersStayFine
<1> QED
  BY <1>7, <1>8, <1>9, FineIsInductive

LEMMA RunDisconnectFine ==
  ASSUME Inductive, NEW s \in Session, RunDisconnect(s)
  PROVE  Inductive'
<1>1. TypeOK /\ \A t \in Session : Fine(t)
  BY InductiveIsFine
<1>2. tasks[s] # <<>> /\ tasks[s] \in Seq(Task)
  BY <1>1 DEF RunDisconnect, Turn, TypeOK
<1>3. Rest(s) \in Seq(Task) /\ \A i \in DOMAIN Rest(s) : Rest(s)[i].do = "send" => Rest(s)[i].msg \in Outgoing
  BY <1>1, <1>2 DEF Fine, MessageTasks, Rest
<1>4. TypeOK' /\ Fine(s)' /\ \A t \in Session \ {s} : Fine(t)'
  BY <1>1, <1>3, DisconnectKeeps DEF RunDisconnect
<1> QED
  BY <1>4, FineIsInductive

LEMMA RunReadFine ==
  ASSUME Inductive, NEW s \in Session, RunRead(s)
  PROVE  Inductive'
<1> DEFINE m == NextMessage(s, "response")
<1>1. TypeOK /\ \A t \in Session : Fine(t)
  BY InductiveIsFine
<1>2. tasks[s] # <<>> /\ Head(tasks[s]).do = "readDone"
  BY DEF RunRead, Turn
<1>3. m \in Outgoing
  BY <1>1 DEF TypeOK, NextMessage, Outgoing, Body
<1>4. /\ tasks' \in [Session -> Seq(Task)] /\ MessageTasks(s)' /\ (Failing(s) => Failing(s)')
      /\ tasks' = [tasks EXCEPT ![s] = Tail(tasks[s])]
  BY <1>1, <1>2, TakeTask DEF RunRead, TurnOver, Rest, Fine
<1>5. /\ state' = state /\ wire' = wire /\ announced' = announced /\ UNCHANGED broadcast
      /\ reading' = [reading EXCEPT ![s] = state[s] = "Connected"]
  BY DEF RunRead
<1> HIDE DEF m
<1>6. /\ writeQueue' \in [Session -> Seq(Outgoing)]
      /\ writes' \in [Session -> SUBSET Write]
      /\ accepted' \in [Session -> SUBSET (Nat \ {0})]
      /\ handed' \in [Session -> Nat]
      /\ \A t \in Session \ {s} : writeQueue'[t] = writeQueue[t] /\ writes'[t] = writes[t] /\ accepted'[t] = accepted[t]
      /\ IsFiniteSet(writes'[s])
      /\ state[s] = "Disconnected" => writeQueue'[s] = writeQueue[s] /\ writes'[s] = writes[s]
      /\ state[s] = "Connected" => \A nr \in accepted'[s] : Remembered(s, nr)'
  <2>1. CASE Send(s, m) /\ handed' = [handed EXCEPT ![s] = @ + 1]
    <3>1. handed' \in [Session -> Nat]
      BY <1>1, <2>1 DEF TypeOK
    <3> QED
      BY <1>1, <1>3, <1>4, <1>5, <2>1, <3>1, SendKeeps
  <2>2. CASE UNCHANGED <<handed, writeQueue, writes, accepted>>
    BY <1>1, <1>4, <1>5, <2>2 DEF TypeOK, Fine, Remembered, OnWire
  <2> QED
    BY <2>1, <2>2 DEF RunRead, m
<1>7. TypeOK'
  <2>1. reading' \in [Session -> BOOLEAN]
    BY <1>1, <1>5 DEF TypeOK
  <2> QED
    BY <1>1, <1>4, <1>5, <1>6, <2>1 DEF TypeOK
<1>8. Fine(s)'
  <2>1. state[s] = "Disconnected" => ~reading'[s]
    BY <1>1, <1>5 DEF TypeOK
  <2> QED
    BY <1>1, <1>4, <1>5, <1>6, <2>1 DEF Fine, Closed
<1>9. ASSUME NEW t \in Session \ {s} PROVE Fine(t)'
  BY <1>1, <1>4, <1>5, <1>6, OthersStayFine DEF TypeOK
<1> QED
  BY <1>7, <1>8, <1>9, FineIsInductive

LEMMA RunWrittenFine ==
  ASSUME Inductive, NEW s \in Session, RunWritten(s)
  PROVE  Inductive'
<1>1. TypeOK /\ \A t \in Session : Fine(t)
  BY InductiveIsFine
<1>2. tasks[s] # <<>> /\ Head(tasks[s]).do = "writeDone"
  BY DEF RunWritten, Turn
<1>3. /\ tasks' \in [Session -> Seq(Task)] /\ MessageTasks(s)' /\ (Failing(s) => Failing(s)')
      /\ tasks' = [tasks EXCEPT ![s] = Tail(tasks[s])]
  BY <1>1, <1>2, TakeTask DEF RunWritten, TurnOver, Rest, Fine
<1>4. UNCHANGED <<state, reading, handed, accepted, wire, announced, broadcast>>
  BY DEF RunWritten
<1>5. CASE writeQueue[s] = <<>>
  <2>1. UNCHANGED <<writes, writeQueue>>
    BY <1>5 DEF RunWritten
  <2>2. TypeOK' /\ Fine(s)'
    BY <1>1, <1>3, <1>4, <2>1 DEF TypeOK, Fine, Closed, Remembered, OnWire
  <2>3. ASSUME NEW t \in Session \ {s} PROVE Fine(t)'
    BY <1>1, <1>3, <1>4, <2>1, OthersStayFine DEF TypeOK
  <2> QED
    BY <2>2, <2>3, FineIsInductive
<1>6. CASE writeQueue[s] # <<>>
  <2> DEFINE m == Head(writeQueue[s])
             w == [msg |-> m, next |-> 1]
             q == writeQueue[s]
  <2>1. writes' = [writes EXCEPT ![s] = @ \cup {w}] /\ writeQueue' = [writeQueue EXCEPT ![s] = Tail(@)]
    BY <1>6 DEF RunWritten, StartWrite
  <2>2. /\ q \in Seq(Outgoing) /\ m = q[1] /\ m \in Outgoing /\ Tail(q) \in Seq(Outgoing) /\ DOMAIN q = 1..Len(q)
        /\ Len(Tail(q)) = Len(q) - 1 /\ Len(q) \in Nat /\ DOMAIN Tail(q) = 1..Len(q) - 1
        /\ \A i \in 1..Len(q) - 1 : Tail(q)[i] = q[i + 1]
    BY <1>1, <1>6 DEF TypeOK
  <2>3. w \in Write /\ w.msg = m
    BY <2>2, StartedIsWrite
  <2> HIDE DEF m, w, q
  <2>4. TypeOK'
    BY <1>1, <1>3, <1>4, <2>1, <2>2, <2>3 DEF TypeOK, q
  <2>5. writes'[s] = writes[s] \cup {w} /\ writeQueue'[s] = Tail(q) /\ wire'[s] = wire[s] /\ writeQueue[s] = q
    BY <1>1, <1>4, <2>1 DEF TypeOK, q
  <2>6. state[s] = "Connected"
    BY <1>1, <1>6 DEF TypeOK, Fine, Closed
  <2>7. ASSUME NEW nr \in accepted[s] PROVE Remembered(s, nr)'
    <3>1. ASSUME NEW i \in DOMAIN q, q[i].nr = nr
          PROVE  Remembered(s, nr)'
      <4>1. CASE i = 1
        BY <2>2, <2>3, <2>5, <3>1, <4>1 DEF Remembered
      <4>2. CASE i # 1
        <5> DEFINE j == i - 1
        <5>1. j \in 1..Len(q) - 1 /\ i = j + 1
          BY <2>2, <4>2
        <5> HIDE DEF j
        <5>2. j \in DOMAIN Tail(q) /\ Tail(q)[j].nr = nr
          BY <2>2, <3>1, <5>1
        <5> QED
          BY <2>5, <5>2 DEF Remembered
      <4> QED
        BY <4>1, <4>2
    <3>2. CASE (\E w1 \in writes[s] : w1.msg.nr = nr) \/ OnWire(s, nr) \/ Failing(s)
      BY <1>3, <2>5, <3>2 DEF Remembered, OnWire
    <3> QED
      BY <1>1, <2>5, <2>6, <3>1, <3>2 DEF Fine, Remembered
  <2>8. Fine(s)'
    <3>1. MessageTasks(s)'
      BY <1>1, <1>3, <1>4 DEF Fine
    <3>2. IsFiniteSet(writes'[s])
      BY <1>1, <2>5, FS_AddElement DEF Fine
    <3>3. state'[s] = "Connected" /\ announced'[s] = 0
      BY <1>1, <1>3, <1>4, <2>6 DEF Fine
    <3> QED
      BY <1>1, <1>3, <1>4, <2>7, <3>1, <3>2, <3>3 DEF Fine
  <2>9. ASSUME NEW t \in Session \ {s} PROVE Fine(t)'
    BY <1>1, <1>3, <1>4, <2>1, OthersStayFine DEF TypeOK
  <2> QED
    BY <2>4, <2>8, <2>9, FineIsInductive
<1> QED
  BY <1>5, <1>6

--------------------------------------------------------------------------------
\* What only adds to the strand's queue.
LEMMA WaitingFine ==
  ASSUME Inductive, NEW s \in Session,
         NEW task \in Task, task.do = "send" => task.msg \in Outgoing,
         tasks' = [tasks EXCEPT ![s] = Append(@, task)],
         UNCHANGED <<state, writeQueue, writes, accepted, wire, announced>>,
         reading' = reading \/ reading' = [reading EXCEPT ![s] = FALSE],
         TypeOK'
  PROVE  Inductive'
<1>1. TypeOK /\ \A t \in Session : Fine(t)
  BY InductiveIsFine
<1>2. /\ \A t \in Session \ {s} : tasks'[t] = tasks[t]
      /\ MessageTasks(s)' /\ (Failing(s) => Failing(s)')
  BY <1>1, AppendTask DEF Fine
<1>3. Fine(s)'
  <2>1. state[s] = "Disconnected" => Closed(s)'
    BY <1>1 DEF TypeOK, Fine, Closed
  <2>2. state[s] = "Connected" => announced'[s] = 0 /\ \A nr \in accepted[s] : Remembered(s, nr)'
    BY <1>1, <1>2 DEF Fine, Remembered, OnWire
  <2> QED
    BY <1>1, <1>2, <2>1, <2>2 DEF Fine
<1>4. ASSUME NEW t \in Session \ {s} PROVE Fine(t)'
  <2>1. reading'[t] = reading[t]
    BY <1>1 DEF TypeOK
  <2> QED
    BY <1>1, <1>2, <2>1, OthersStayFine
<1> QED
  BY <1>3, <1>4, FineIsInductive

LEMMA ReadEndsFine ==
  ASSUME Inductive, NEW s \in Session, ReadEnds(s)
  PROVE  Inductive'
<1>1. TypeOK
  BY DEF Inductive
<1>2. PICK kind \in {"readDone", "readFailed"} : tasks' = [tasks EXCEPT ![s] = Append(@, Job(kind))]
  BY DEF ReadEnds
<1>3. Job(kind) \in Task /\ Job(kind).do # "send"
  BY <1>2, JobsAreTasks DEF TaskKind
<1>4. TypeOK'
  BY <1>1, <1>2, <1>3 DEF TypeOK, ReadEnds
<1> QED
  BY <1>2, <1>3, <1>4, WaitingFine DEF ReadEnds

LEMMA CallDisconnectFine ==
  ASSUME Inductive, NEW s \in Session, CallDisconnect(s)
  PROVE  Inductive'
<1>1. TypeOK
  BY DEF Inductive
<1>2. Job("disconnect") \in Task /\ Job("disconnect").do # "send"
  BY JobsAreTasks DEF TaskKind
<1>3. TypeOK'
  BY <1>1, <1>2 DEF TypeOK, CallDisconnect
<1> QED
  BY <1>2, <1>3, WaitingFine DEF CallDisconnect

LEMMA PostSendFine ==
  ASSUME Inductive, NEW s \in Session, NEW body \in Body, PostSend(s, body),
         updated' \subseteq Session, gameState' \in {"state", "movedFrom"}, updates' \in Nat
  PROVE  Inductive'
<1> DEFINE task == [do |-> "send", msg |-> NextMessage(s, body)]
<1>1. TypeOK
  BY DEF Inductive
<1>2. NextMessage(s, body) \in Outgoing
  BY <1>1 DEF TypeOK, NextMessage, Outgoing
<1>3. task \in Task /\ task.msg \in Outgoing
  BY <1>2 DEF Task, TaskKind
<1>4. /\ tasks' = [tasks EXCEPT ![s] = Append(@, task)] /\ handed' = [handed EXCEPT ![s] = @ + 1]
      /\ UNCHANGED <<state, writeQueue, reading, writes, accepted, wire, announced>>
  BY DEF PostSend
<1> HIDE DEF task
<1>5. TypeOK'
  BY <1>1, <1>3, <1>4 DEF TypeOK
<1> QED
  BY <1>3, <1>4, <1>5, WaitingFine

--------------------------------------------------------------------------------
(* The network *)

\* A write is under way only while the session is connected.
LEMMA WritingIsConnected ==
  ASSUME TypeOK, NEW s \in Session, Fine(s), NEW w \in writes[s]
  PROVE  state[s] = "Connected" /\ announced[s] = 0 /\ w \in Write
BY DEF TypeOK, Fine, Closed

LEMMA WriteBreaksFine ==
  ASSUME Inductive, NEW s \in Session, NEW w \in writes[s], WriteBreaks(s, w)
  PROVE  Inductive'
<1>1. TypeOK /\ \A t \in Session : Fine(t)
  BY InductiveIsFine
<1>2. Job("writeFailed") \in Task /\ Job("writeFailed").do = "writeFailed"
  BY JobsAreTasks DEF TaskKind
<1>3. /\ tasks' = [tasks EXCEPT ![s] = Append(@, Job("writeFailed"))]
      /\ writes' = [writes EXCEPT ![s] = @ \ {w}]
      /\ UNCHANGED <<state, writeQueue, reading, handed, accepted, wire, announced, broadcast>>
  BY DEF WriteBreaks
<1>4. /\ tasks' \in [Session -> Seq(Task)] /\ \A t \in Session \ {s} : tasks'[t] = tasks[t]
      /\ MessageTasks(s)' /\ Failing(s)'
  BY <1>1, <1>2, <1>3, AppendTask DEF Fine
<1>5. TypeOK'
  BY <1>1, <1>3, <1>4 DEF TypeOK
<1>6. Fine(s)'
  <2>1. state[s] = "Connected" /\ announced[s] = 0
    BY <1>1, WritingIsConnected
  <2>2. IsFiniteSet(writes'[s])
    BY <1>1, <1>3, FS_RemoveElement DEF TypeOK, Fine
  <2> QED
    BY <1>3, <1>4, <2>1, <2>2 DEF Fine, Remembered
<1>7. ASSUME NEW t \in Session \ {s} PROVE Fine(t)'
  <2>1. writes'[t] = writes[t]
    BY <1>1, <1>3 DEF TypeOK
  <2> QED
    BY <1>1, <1>3, <1>4, <2>1, OthersStayFine
<1> QED
  BY <1>5, <1>6, <1>7, FineIsInductive

\* Whatever write goes on, its message is not lost.
LEMMA TransferFine ==
  ASSUME Inductive, NEW s \in Session, NEW w \in writes[s], Transfer(s, w)
  PROVE  Inductive'
<1> DEFINE more == [w EXCEPT !.next = @ + 1]
<1>1. TypeOK /\ \A t \in Session : Fine(t)
  BY InductiveIsFine
<1>2. /\ state[s] = "Connected" /\ announced[s] = 0
      /\ w \in Write /\ w.msg \in Outgoing /\ w.msg.nr \in Nat \ {0} /\ w.next \in 1..Parts
  BY <1>1, WritingIsConnected DEF Write, Outgoing
<1>3. /\ wire' = [wire EXCEPT ![s] = Append(@, <<w.msg.nr, w.next>>)]
      /\ UNCHANGED <<state, writeQueue, reading, handed, accepted, announced, broadcast>>
  BY DEF Transfer
<1>4. /\ wire' \in [Session -> Seq((Nat \ {0}) \X (1..Parts))]
      /\ \A t \in Session \ {s} : wire'[t] = wire[t]
      /\ \A nr \in accepted[s] : OnWire(s, nr) => OnWire(s, nr)'
      /\ w.next = Parts => OnWire(s, w.msg.nr)'
  <2>1. wire[s] \in Seq((Nat \ {0}) \X (1..Parts)) /\ wire'[s] = Append(wire[s], <<w.msg.nr, w.next>>)
    BY <1>1, <1>3 DEF TypeOK
  <2>2. /\ DOMAIN wire'[s] = 1..Len(wire[s]) + 1 /\ DOMAIN wire[s] = 1..Len(wire[s]) /\ Len(wire[s]) \in Nat
        /\ wire'[s][Len(wire[s]) + 1] = <<w.msg.nr, w.next>>
        /\ \A i \in 1..Len(wire[s]) : wire'[s][i] = wire[s][i]
    BY <2>1
  <2>3. \A nr \in accepted[s] : OnWire(s, nr) => OnWire(s, nr)'
    BY <2>2 DEF OnWire
  <2>4. w.next = Parts => OnWire(s, w.msg.nr)'
    BY <2>2 DEF OnWire
  <2>5. wire' \in [Session -> Seq((Nat \ {0}) \X (1..Parts))]
    BY <1>1, <1>2, <1>3 DEF TypeOK
  <2> QED
    BY <1>1, <1>3, <2>3, <2>4, <2>5 DEF TypeOK
<1>5. /\ tasks' \in [Session -> Seq(Task)] /\ \A t \in Session \ {s} : tasks'[t] = tasks[t]
      /\ MessageTasks(s)' /\ (Failing(s) => Failing(s)')
  <2>1. CASE w.next = Parts
    <3>1. Job("writeDone") \in Task /\ Job("writeDone").do # "send"
      BY JobsAreTasks DEF TaskKind
    <3>2. tasks' = [tasks EXCEPT ![s] = Append(@, Job("writeDone"))]
      BY <2>1 DEF Transfer
    <3> QED
      BY <1>1, <3>1, <3>2, AppendTask DEF Fine
  <2>2. CASE w.next # Parts
    BY <1>1, <2>2 DEF Transfer, TypeOK, Fine, MessageTasks, Failing
  <2> QED
    BY <2>1, <2>2
<1>6. /\ writes' \in [Session -> SUBSET Write] /\ \A t \in Session \ {s} : writes'[t] = writes[t]
      /\ IsFiniteSet(writes'[s])
      /\ \A w1 \in writes[s] \ {w} : w1 \in writes'[s]
      /\ w.next # Parts => \E w1 \in writes'[s] : w1.msg = w.msg
  <2>1. IsFiniteSet(writes[s] \ {w})
    BY <1>1, FS_RemoveElement DEF Fine
  <2>2. CASE w.next = Parts
    <3>1. writes' = [writes EXCEPT ![s] = @ \ {w}]
      BY <2>2 DEF Transfer
    <3> QED
      BY <1>1, <2>1, <2>2, <3>1 DEF TypeOK
  <2>3. CASE w.next # Parts
    <3>1. writes' = [writes EXCEPT ![s] = (@ \ {w}) \cup {more}]
      BY <2>3 DEF Transfer
    <3>2. more \in Write /\ more.msg = w.msg
      BY <1>2, <2>3, WritesAssumption DEF Write
    <3> HIDE DEF more
    <3>3. writes'[s] = (writes[s] \ {w}) \cup {more}
      BY <1>1, <3>1 DEF TypeOK
    <3>4. IsFiniteSet(writes'[s])
      BY <2>1, <3>3, FS_AddElement
    <3> QED
      BY <1>1, <3>1, <3>2, <3>3, <3>4 DEF TypeOK
  <2> QED
    BY <2>2, <2>3
<1>7. TypeOK'
  BY <1>1, <1>3, <1>4, <1>5, <1>6 DEF TypeOK
<1>8. ASSUME NEW nr \in accepted[s] PROVE Remembered(s, nr)'
  <2>1. CASE \E i \in DOMAIN writeQueue[s] : writeQueue[s][i].nr = nr
    BY <1>3, <2>1 DEF Remembered
  <2>2. ASSUME NEW w1 \in writes[s], w1.msg.nr = nr PROVE Remembered(s, nr)'
    <3>1. CASE w1 # w
      BY <1>6, <2>2, <3>1 DEF Remembered
    <3>2. CASE w1 = w
      BY <1>4, <1>6, <2>2, <3>2 DEF Remembered
    <3> QED
      BY <3>1, <3>2
  <2>3. CASE OnWire(s, nr) \/ Failing(s)
    BY <1>4, <1>5, <2>3 DEF Remembered
  <2> QED
    BY <1>1, <1>2, <2>1, <2>2, <2>3 DEF Fine, Remembered
<1>9. Fine(s)'
  BY <1>2, <1>3, <1>5, <1>6, <1>8 DEF Fine
<1>10. ASSUME NEW t \in Session \ {s} PROVE Fine(t)'
  BY <1>1, <1>3, <1>4, <1>5, <1>6, OthersStayFine
<1> QED
  BY <1>7, <1>9, <1>10, FineIsInductive

--------------------------------------------------------------------------------
LEMMA NextFine == Inductive /\ [Next]_vars => Inductive'
<1> SUFFICES ASSUME Inductive, [Next]_vars PROVE Inductive'
  OBVIOUS
<1>1. TypeOK
  BY DEF Inductive
<1>2. CASE BeginUpdate \/ UNCHANGED vars
  <2>1. TypeOK' /\ UNCHANGED session
    BY <1>1, <1>2 DEF BeginUpdate, TypeOK
  <2>2. \A s \in Session : Fine(s)'
    BY <2>1, InductiveIsFine, OthersStayFine
  <2> QED
    BY <2>1, <2>2, FineStaysInductive
<1>3. ASSUME NEW s \in Session, RunTask(s) PROVE Inductive'
  BY <1>3, RunSendFine, RunDisconnectFine, RunReadFine, RunWrittenFine DEF RunTask
<1>4. ASSUME NEW s \in Session, NEW w \in writes[s], Transfer(s, w) \/ WriteBreaks(s, w) PROVE Inductive'
  BY <1>4, TransferFine, WriteBreaksFine
<1>5. ASSUME NEW s \in Session, Respond(s) PROVE Inductive'
  BY <1>1, <1>5, PostSendFine DEF Respond, Body, TypeOK
<1>6. ASSUME NEW s \in Session, UpdateSession(s) PROVE Inductive'
  <2>1. s \in updated /\ PostSend(s, gameState) /\ updated' = updated \ {s} /\ gameState' = "movedFrom" /\ UNCHANGED updates
    BY <1>6 DEF UpdateSession
  <2>2. gameState \in Body
    BY <1>1, <2>1 DEF TypeOK, Body
  <2> QED
    BY <1>1, <2>1, <2>2, PostSendFine DEF TypeOK
<1> QED
  BY <1>2, <1>3, <1>4, <1>5, <1>6, ReadEndsFine, CallDisconnectFine DEF Next

\* All that the next three theorems rest on.
THEOREM InductiveHolds == Spec => []Inductive
<1>1. Init => Inductive
  BY InitFine
<1>2. Inductive /\ [Next]_vars => Inductive'
  BY NextFine
<1> QED
  BY <1>1, <1>2, PTL DEF Spec

\* Every variable of every session keeps its type.
THEOREM TypesHold == Spec => []TypeOK
<1>1. Inductive => TypeOK
  BY DEF Inductive
<1> QED
  BY <1>1, InductiveHolds, PTL

\* However disconnect, failed reads and failed writes race, a session ends once
\* and leaves nothing under way.
THEOREM ClosedStaysClean == Spec => []ClosedIsClean
<1>1. Inductive => ClosedIsClean
  BY DEF Inductive
<1> QED
  BY <1>1, InductiveHolds, PTL

\* A connected session has queued, is writing or has written what it took, or
\* will learn that a write failed.
THEOREM MessagesAreKept == Spec => []NothingForgotten
<1>1. Inductive => NothingForgotten
  BY DEF Inductive
<1> QED
  BY <1>1, InductiveHolds, PTL

--------------------------------------------------------------------------------
(* Frames.  First numbers and sequences. *)

LEMMA LessIsWellFounded == IsWellFoundedOn({p \in Nat \X Nat : p[1] < p[2]}, Nat)
  BY NatLessThanWellFounded DEF OpToRel

LEMMA LeastIsThere ==
  ASSUME NEW S, S \subseteq Nat, S # {}
  PROVE  Min(S) \in S /\ \A n \in S : Min(S) <= n
  <1> DEFINE Less == {p \in Nat \X Nat : p[1] < p[2]}
  <1>1. IsWellFoundedOn(Less, Nat)
    BY LessIsWellFounded
  <1> HIDE DEF Less
  <1>2. PICK m \in S : \A n \in S : <<n, m>> \notin Less
    BY <1>1, WFMin
  <1>3. ASSUME NEW n \in S
        PROVE  m <= n
    <2>1. <<n, m>> \in Nat \X Nat /\ <<n, m>>[1] = n /\ <<n, m>>[2] = m
      OBVIOUS
    <2>2. ~ (n < m)
      BY <1>2, <2>1 DEF Less
    <2> QED
      BY <2>2
  <1> QED
    BY <1>3 DEF Min

LEMMA PieceIsSeq ==
  ASSUME NEW S, NEW s \in Seq(S), NEW n \in 1 .. Len(s)
  PROVE  SubSeq(s, 1, n) \in Seq(S) /\ SubSeq(s, n + 1, Len(s)) \in Seq(S)
  <1>1. Len(s) \in Nat /\ \A i \in 1 .. Len(s) : s[i] \in S
    OBVIOUS
  <1> DEFINE k == Len(s)
             m == n + 1
  <1>2. /\ n \in Int /\ m \in Int /\ k \in Int /\ \A i \in 1 .. n : s[i] \in S
        /\ \A i \in m .. k : s[i] \in S
    BY <1>1
  <1> HIDE DEF k, m
  <1>3. SubSeq(s, 1, n) \in Seq(S) /\ SubSeq(s, m, k) \in Seq(S)
    BY <1>2, SubSeqProperties
  <1> QED
    BY <1>3 DEF k, m

LEMMA SamePiece ==
  ASSUME NEW S, NEW s, NEW t, NEW m \in Int, NEW n \in Int, NEW d \in Int,
         \A i \in m .. n : s[i] \in S /\ t[i + d] = s[i]
  PROVE  SubSeq(s, m, n) = SubSeq(t, m + d, n + d)
  <1> DEFINE p == m + d
             q == n + d
             a == SubSeq(s, m, n)
             b == SubSeq(t, p, q)
  <1>1. p \in Int /\ q \in Int /\ q - p = n - m /\ (p <= q <=> m <= n)
    OBVIOUS
  <1>2. \A i \in p .. q : t[i] \in S
    <2>1. ASSUME NEW i \in p .. q
          PROVE  i - d \in m .. n /\ (i - d) + d = i
      OBVIOUS
    <2> HIDE DEF p, q
    <2> QED
      BY <2>1
  <1>3. \A i \in 1 .. n - m + 1 : m + i - 1 \in m .. n /\ p + i - 1 = (m + i - 1) + d
    OBVIOUS
  <1> HIDE DEF p, q
  <1>4. /\ a \in Seq(S) /\ Len(a) = IF m <= n THEN n - m + 1 ELSE 0
        /\ \A i \in 1 .. n - m + 1 : a[i] = s[m + i - 1]
    BY SubSeqProperties
  <1>5. /\ b \in Seq(S) /\ Len(b) = IF p <= q THEN q - p + 1 ELSE 0
        /\ \A i \in 1 .. q - p + 1 : b[i] = t[p + i - 1]
    BY <1>1, <1>2, SubSeqProperties
  <1> HIDE DEF a, b
  <1>6. Len(a) = Len(b) /\ \A i \in 1 .. Len(a) : i \in 1 .. n - m + 1 /\ i \in 1 .. q - p + 1
    <2>1. CASE m <= n
      <3>1. Len(a) = n - m + 1 /\ Len(b) = q - p + 1 /\ n - m = q - p
        BY <1>1, <1>4, <1>5, <2>1
      <3> QED
        BY <3>1
    <2>2. CASE ~ (m <= n)
      <3>1. Len(a) = 0 /\ Len(b) = 0
        BY <1>1, <1>4, <1>5, <2>2
      <3> QED
        BY <3>1
    <2> QED
      BY <2>1, <2>2
  <1>7. \A i \in 1 .. Len(a) : a[i] = b[i]
    BY <1>3, <1>4, <1>5, <1>6
  <1>8. a = b
    BY <1>4, <1>5, <1>6, <1>7, SeqEqual
  <1> QED
    BY <1>8 DEF a, b, p, q

-----------------------------------------------------------------------------
\* What holds at a place if it holds at all behind it, holds at all.
LEMMA FromTheEnd ==
  ASSUME NEW S, NEW last \in Nat,
         \A p \in 1 .. last : (\A q \in 1 .. last : p < q => q \in S) => p \in S
  PROVE  \A p \in 1 .. last : p \in S
  <1> SUFFICES ASSUME NEW p \in 1 .. last, p \notin S PROVE FALSE
    OBVIOUS
  <1> DEFINE B == {k \in Nat : k < last /\ last - k \notin S}
             m == Min(B)
             q == last - m
  <1>1. B \subseteq Nat /\ last - p \in B
    BY DEF B
  <1>2. m \in B /\ \A k \in B : m <= k
    <2> HIDE DEF B
    <2> QED BY <1>1, LeastIsThere
  <1> HIDE DEF m
  <1>3. q \in 1 .. last /\ q \notin S
    BY <1>2
  <1>4. ASSUME NEW r \in 1 .. last, q < r, r \notin S
        PROVE  FALSE
    <2>1. last - r \in Nat /\ last - r < last /\ last - (last - r) = r /\ ~ (m <= last - r)
      BY <1>2, <1>4
    <2>2. last - r \in B
      BY <1>4, <2>1
    <2> QED
      BY <1>2, <2>1, <2>2
  <1> QED
    BY <1>3, <1>4

LEMMA LengthsAreNumbers ==
  /\ MagicLength \in Nat \ {0} /\ HeaderLength = MagicLength + 2
  /\ MaxMessageSize \in Nat /\ Base \in Nat \ {0} /\ Byte \subseteq Nat
  BY FrameAssumption DEF MagicLength, HeaderLength, Byte

\* A header that is there.
LEMMA HeaderIsNumbers ==
  ASSUME NEW data \in Seq(Byte), NEW p \in Nat \ {0}, HeaderFits(data, p)
  PROVE  /\ p + HeaderLength - 1 <= Len(data)
         /\ LengthAt(data, p) \in Nat
         /\ EndAt(data, p) = p + HeaderLength + LengthAt(data, p)
         /\ EndAt(data, p) \in Nat /\ EndAt(data, p) > p
  <1> DEFINE a == data[p + MagicLength]
             b == data[p + MagicLength + 1]
             n == Len(data)
  <1>1. p + MagicLength + 1 <= n /\ n \in Nat
    BY LengthsAreNumbers DEF HeaderFits
  <1>2. p + MagicLength \in 1 .. n /\ p + MagicLength + 1 \in 1 .. n
    BY <1>1, LengthsAreNumbers
  <1>3. a \in Nat /\ b \in Nat
    <2> DEFINE i == p + MagicLength
               j == p + MagicLength + 1
    <2>1. i \in 1 .. Len(data) /\ j \in 1 .. Len(data)
      BY <1>2
    <2> HIDE DEF i, j
    <2>2. data[i] \in Byte /\ data[j] \in Byte
      BY <2>1
    <2> QED
      BY <2>2, LengthsAreNumbers DEF i, j
  <1> HIDE DEF a, b
  <1>4. a * Base + b \in Nat
    BY <1>3, LengthsAreNumbers
  <1>5. LengthAt(data, p) \in Nat
    BY <1>4 DEF LengthAt, a, b
  <1> QED
    BY <1>1, <1>5, LengthsAreNumbers DEF EndAt, HeaderFits

\* One turn of the scanners' loop.
LoopTurn(data, stops, scan, p) ==
  IF p \in stops THEN StopAt(p)
  ELSE IF Whole(data, p) THEN After(PayloadAt(data, p), scan[EndAt(data, p)])
  ELSE scan[p + 1]

Places(data) == 1 .. Len(data) + 1

LEMMA TurnGoesOn ==
  ASSUME NEW data \in Seq(Byte), NEW stops, Len(data) + 1 \in stops, NEW p \in Places(data), p \notin stops
  PROVE  /\ p + 1 \in Places(data)
         /\ Whole(data, p) => EndAt(data, p) \in Places(data) /\ EndAt(data, p) > p
  <1>1. p # Len(data) + 1
    OBVIOUS
  <1>2. Len(data) \in Nat
    OBVIOUS
  <1>3. Whole(data, p) => EndAt(data, p) \in Nat /\ EndAt(data, p) > p /\ EndAt(data, p) <= Len(data) + 1
    BY HeaderIsNumbers DEF Whole, HeaderAt, Places
  <1> QED
    BY <1>1, <1>2, <1>3 DEF Places

\* A scan is what its loop says: it ends, because it goes forward.
LEMMA ScanIsLoop ==
  ASSUME NEW data \in Seq(Byte), NEW stops, Len(data) + 1 \in stops
  PROVE  \A p \in Places(data) : Scanning(data, stops)[p] = LoopTurn(data, stops, Scanning(data, stops), p)
  <1> DEFINE last == Len(data) + 1
             From(m) == {p \in Places(data) : m <= p}
             Loop(f, m) == \A p \in From(m) : f[p] = LoopTurn(data, stops, f, p)
             S == {m \in Places(data) : \E f : DOMAIN f = From(m) /\ f = [p \in From(m) |-> f[p]] /\ Loop(f, m)}
  <1>1. last \in Nat /\ Places(data) = 1 .. last
    BY DEF Places
  <1>2. ASSUME NEW p \in Places(data), NEW f, NEW g,
               \A q \in Places(data) : p < q => f[q] = g[q]
        PROVE  LoopTurn(data, stops, f, p) = LoopTurn(data, stops, g, p)
    <2>1. CASE p \in stops
      BY <2>1 DEF LoopTurn
    <2>2. CASE p \notin stops
      <3>1. p + 1 \in Places(data) /\ p < p + 1
        BY <2>2, TurnGoesOn, <1>1
      <3>2. Whole(data, p) => EndAt(data, p) \in Places(data) /\ EndAt(data, p) > p
        BY <2>2, TurnGoesOn
      <3> QED
        BY <1>2, <2>2, <3>1, <3>2 DEF LoopTurn
    <2> QED
      BY <2>1, <2>2
  <1>3. ASSUME NEW m \in 1 .. last, \A q \in 1 .. last : m < q => q \in S
        PROVE  m \in S
    <2>1. PICK f : \A p \in Places(data) : m < p => f[p] = LoopTurn(data, stops, f, p)
      <3>1. CASE m = last
        BY <1>1, <3>1
      <3>2. CASE m # last
        <4>1. m + 1 \in S
          <5>1. m + 1 \in 1 .. last /\ m < m + 1
            BY <1>1, <3>2
          <5> HIDE DEF S, last
          <5> QED
            BY <1>3, <5>1
        <4>2. PICK f : Loop(f, m + 1)
          BY <4>1
        <4>3. \A p \in Places(data) : m < p => p \in From(m + 1)
          BY <1>1
        <4> QED
          BY <4>2, <4>3
      <3> QED
        BY <3>1, <3>2
    <2> DEFINE g == [p \in From(m) |-> IF p = m THEN LoopTurn(data, stops, f, m) ELSE f[p]]
    <2>2. DOMAIN g = From(m) /\ g = [p \in From(m) |-> g[p]]
      OBVIOUS
    <2>3. m \in From(m) /\ \A q \in Places(data) : m < q => q \in From(m) /\ q # m
      BY <1>1
    <2>4. g[m] = LoopTurn(data, stops, f, m) /\ \A q \in Places(data) : m < q => f[q] = g[q]
      BY <2>3
    <2> HIDE DEF g
    <2>5. ASSUME NEW p \in From(m)
          PROVE  g[p] = LoopTurn(data, stops, g, p)
      <3>1. p \in Places(data) /\ (p = m \/ m < p)
        BY <1>1
      <3>2. \A q \in Places(data) : p < q => f[q] = g[q]
        <4>1. \A q \in Places(data) : p < q => m < q
          BY <1>1, <3>1
        <4> QED
          BY <2>4, <4>1
      <3>3. LoopTurn(data, stops, f, p) = LoopTurn(data, stops, g, p)
        BY <1>2, <3>1, <3>2
      <3>4. g[p] = LoopTurn(data, stops, f, p)
        BY <2>1, <2>4, <3>1
      <3> QED
        BY <3>3, <3>4
    <2> QED
      BY <1>1, <2>2, <2>5
  <1>4. 1 \in S
    <2> HIDE DEF S
    <2>1. 1 \in 1 .. last
      BY <1>1
    <2> QED
      BY <1>1, <1>3, <2>1, FromTheEnd
  <1> DEFINE P(f) == f = [p \in 1 .. Len(data) + 1 |-> LoopTurn(data, stops, f, p)]
  <1>5. \E f : P(f)
    <2>1. PICK f : f = [p \in From(1) |-> f[p]] /\ Loop(f, 1)
      BY <1>4
    <2>2. From(1) = 1 .. Len(data) + 1
      BY <1>1
    <2> QED
      BY <2>1, <2>2
  <1>6. Scanning(data, stops) = CHOOSE f : P(f)
    BY DEF Scanning, LoopTurn
  <1> HIDE DEF P
  <1>7. P(Scanning(data, stops))
    BY <1>5, <1>6
  <1> QED
    BY <1>7 DEF P, Places

\* A scan stops where it should, at or behind where it begins.
LEMMA ScanStops ==
  ASSUME NEW data \in Seq(Byte), NEW stops \in SUBSET Places(data), Len(data) + 1 \in stops
  PROVE  \A p \in Places(data) :
           /\ Scanning(data, stops)[p] \in [found : Seq(Seq(Byte)), at : stops]
           /\ p <= Scanning(data, stops)[p].at
  <1> DEFINE scan == Scanning(data, stops)
             last == Len(data) + 1
             Result == [found : Seq(Seq(Byte)), at : stops]
             S == {p \in Places(data) : scan[p] \in Result /\ p <= scan[p].at}
  <1>1. last \in Nat /\ Places(data) = 1 .. last
    BY DEF Places
  <1>2. \A p \in Places(data) : scan[p] = LoopTurn(data, stops, scan, p)
    BY ScanIsLoop
  <1> HIDE DEF scan, last
  <1>3. ASSUME NEW p \in 1 .. last, \A q \in 1 .. last : p < q => q \in S
        PROVE  p \in S
    <2>1. CASE p \in stops
      <3>1. scan[p] = [found |-> <<>>, at |-> p]
        BY <1>1, <1>2, <2>1 DEF LoopTurn, StopAt
      <3>2. <<>> \in Seq(Seq(Byte)) /\ p \in Places(data) /\ p <= p
        BY <1>1
      <3>3. scan[p] \in Result /\ scan[p].at = p
        BY <2>1, <3>1, <3>2
      <3> QED
        BY <3>2, <3>3
    <2>2. CASE p \notin stops /\ Whole(data, p)
      <3> DEFINE q == EndAt(data, p)
                 payload == PayloadAt(data, p)
      <3>1. q \in 1 .. last /\ p < q
        BY <1>1, <2>2, TurnGoesOn
      <3>2. payload \in Seq(Byte)
        <4> DEFINE first == p + HeaderLength
                   end == q - 1
        <4>1. first \in 1 .. last /\ end \in Int /\ end <= Len(data) /\ Len(data) \in Nat
          BY <1>1, <2>2, <3>1, LengthsAreNumbers, HeaderIsNumbers DEF Whole, HeaderAt, last
        <4> HIDE DEF q, first, end
        <4>2. \A i \in first .. end : i \in 1 .. Len(data)
          BY <1>1, <4>1
        <4>3. \A i \in first .. end : data[i] \in Byte
          BY <4>2
        <4>4. SubSeq(data, first, end) \in Seq(Byte)
          BY <1>1, <4>1, <4>3, SubSeqProperties
        <4> QED
          BY <4>4 DEF PayloadAt, q, first, end
      <3>3. scan[p] = [scan[q] EXCEPT !.found = <<payload>> \o @]
        BY <1>1, <1>2, <2>2 DEF LoopTurn, After
      <3> HIDE DEF q, payload
      <3>4. scan[q] \in Result /\ q <= scan[q].at
        BY <1>3, <3>1
      <3>5. <<payload>> \o scan[q].found \in Seq(Seq(Byte))
        <4>1. scan[q].found \in Seq(Seq(Byte)) /\ <<payload>> \in Seq(Seq(Byte))
          BY <3>2, <3>4
        <4> QED
          BY <4>1, ConcatProperties
      <3>6. scan[p] \in Result /\ scan[p].at = scan[q].at
        <4> DEFINE all == <<payload>> \o scan[q].found
        <4> HIDE DEF all
        <4>1. scan[p] = [scan[q] EXCEPT !.found = all]
          BY <3>3 DEF all
        <4>2. all \in Seq(Seq(Byte))
          BY <3>5 DEF all
        <4> QED
          BY <3>4, <4>1, <4>2
      <3>7. scan[q].at \in 1 .. last
        BY <1>1, <3>4
      <3> QED
        BY <1>1, <3>1, <3>4, <3>6, <3>7
    <2>3. CASE p \notin stops /\ ~Whole(data, p)
      <3> DEFINE q == p + 1
      <3>1. q \in 1 .. last /\ p < q
        BY <1>1, <2>3, TurnGoesOn
      <3>2. scan[p] = scan[q]
        BY <1>1, <1>2, <2>3 DEF LoopTurn
      <3> HIDE DEF q
      <3>3. scan[q] \in Result /\ q <= scan[q].at
        BY <1>3, <3>1
      <3>4. scan[q].at \in 1 .. last
        BY <1>1, <3>3
      <3> QED
        BY <1>1, <3>1, <3>2, <3>3, <3>4
    <2> QED
      BY <2>1, <2>2, <2>3
  <1>4. \A p \in 1 .. last : p \in S
    <2> HIDE DEF S
    <2> QED
      BY <1>1, <1>3, FromTheEnd
  <1> QED
    BY <1>1, <1>4 DEF scan

-----------------------------------------------------------------------------
\* Bytes that are found again behind d others, and perhaps before more.
Part(flat, data, d) ==
  /\ flat \in Seq(Byte) /\ data \in Seq(Byte) /\ d \in Nat
  /\ Len(data) + d <= Len(flat)
  /\ \A i \in 1 .. Len(data) : flat[i + d] = data[i]

\* A buffer that has the same behind d bytes more.
Behind(flat, data, d) == Part(flat, data, d) /\ Len(flat) = Len(data) + d

LEMMA SamePieceOfPart ==
  ASSUME NEW flat, NEW data, NEW d \in Nat, Part(flat, data, d)
  PROVE  \A m, n \in Int : 1 <= m /\ n <= Len(data) => SubSeq(flat, m + d, n + d) = SubSeq(data, m, n)
  <1> SUFFICES ASSUME NEW m \in Int, NEW n \in Int, 1 <= m, n <= Len(data)
               PROVE  SubSeq(flat, m + d, n + d) = SubSeq(data, m, n)
    OBVIOUS
  <1>1. Len(data) \in Nat
    BY DEF Part
  <1>2. \A k \in m .. n : data[k] \in Byte /\ flat[k + d] = data[k]
    <2> SUFFICES ASSUME NEW k \in m .. n PROVE data[k] \in Byte /\ flat[k + d] = data[k]
      OBVIOUS
    <2>1. k \in 1 .. Len(data)
      BY <1>1
    <2> QED
      BY <2>1 DEF Part
  <1> QED
    BY <1>1, <1>2, SamePiece

\* What is at a place does not depend on what is before, nor on what comes after
\* the header and the payload.
LEMMA SameInPart ==
  ASSUME NEW flat, NEW data, NEW d, Part(flat, data, d), NEW p \in Nat \ {0}
  PROVE  /\ p + MagicLength - 1 <= Len(data) => (MagicAt(flat, p + d) <=> MagicAt(data, p))
         /\ HeaderFits(data, p) =>
              /\ HeaderFits(flat, p + d)
              /\ LengthAt(flat, p + d) = LengthAt(data, p)
              /\ EndAt(flat, p + d) = EndAt(data, p) + d
              /\ HeaderAt(flat, p + d) <=> HeaderAt(data, p)
         /\ Whole(data, p) => PayloadAt(flat, p + d) = PayloadAt(data, p)
  <1>1. Len(data) \in Nat /\ Len(flat) \in Nat /\ Len(data) + d <= Len(flat) /\ d \in Nat /\ data \in Seq(Byte) /\ flat \in Seq(Byte)
    BY DEF Part
  <1>2. HeaderFits(data, p) => HeaderFits(flat, p + d)
    BY <1>1, LengthsAreNumbers DEF HeaderFits
  <1>3. p + MagicLength - 1 <= Len(data) => (MagicAt(flat, p + d) <=> MagicAt(data, p))
    <2> SUFFICES ASSUME p + MagicLength - 1 <= Len(data)
                 PROVE  MagicAt(flat, p + d) <=> MagicAt(data, p)
      OBVIOUS
    <2> DEFINE end == p + MagicLength - 1
               j == p + d + MagicLength - 1
    <2>1. end \in Int /\ end <= Len(data) /\ j \in Int /\ j - end = d /\ p + d \in Int /\ p + d - p = d
      BY <1>1, LengthsAreNumbers
    <2> HIDE DEF end, j
    <2>2. SubSeq(flat, p + d, j) = SubSeq(data, p, end)
      BY <1>1, <2>1, SamePieceOfPart, SMTT(30)
    <2> QED
      BY <2>1, <2>2 DEF MagicAt, end, j
  <1>4. HeaderFits(data, p) => LengthAt(flat, p + d) = LengthAt(data, p)
    <2> SUFFICES ASSUME HeaderFits(data, p) PROVE LengthAt(flat, p + d) = LengthAt(data, p)
      OBVIOUS
    <2> DEFINE i == p + MagicLength
               j == p + MagicLength + 1
    <2>1. /\ i \in 1 .. Len(data) /\ j \in 1 .. Len(data)
          /\ p + d + MagicLength = i + d /\ p + d + MagicLength + 1 = j + d
      BY <1>1, LengthsAreNumbers DEF HeaderFits
    <2> HIDE DEF i, j
    <2>2. flat[i + d] = data[i] /\ flat[j + d] = data[j]
      BY <2>1 DEF Part
    <2> QED
      BY <2>1, <2>2 DEF LengthAt, i, j
  <1>5. HeaderFits(data, p) => EndAt(flat, p + d) = EndAt(data, p) + d /\ EndAt(data, p) \in Nat
    <2>1. HeaderFits(data, p) => EndAt(data, p) \in Nat /\ LengthAt(data, p) \in Nat
      BY <1>1, HeaderIsNumbers
    <2> QED
      BY <1>1, <1>4, <2>1, LengthsAreNumbers DEF EndAt
  <1>6. HeaderFits(data, p) => (HeaderAt(flat, p + d) <=> HeaderAt(data, p))
    <2>1. HeaderFits(data, p) => p + MagicLength - 1 <= Len(data)
      BY <1>1, LengthsAreNumbers DEF HeaderFits
    <2> QED
      BY <1>2, <1>3, <1>4, <2>1 DEF HeaderAt
  <1>7. Whole(data, p) => PayloadAt(flat, p + d) = PayloadAt(data, p)
    <2> SUFFICES ASSUME Whole(data, p) PROVE PayloadAt(flat, p + d) = PayloadAt(data, p)
      OBVIOUS
    <2> DEFINE first == p + HeaderLength
               past == EndAt(data, p)
               pastFlat == EndAt(flat, p + d)
               i == p + d + HeaderLength
    <2>1. past \in Nat /\ pastFlat = past + d /\ past <= Len(data) + 1
      BY <1>5 DEF Whole, HeaderAt
    <2>2. first \in Int /\ 1 <= first /\ i \in Int /\ i - first = d
      BY <1>1, LengthsAreNumbers
    <2> HIDE DEF first, past, pastFlat, i
    <2> DEFINE end == past - 1
               endFlat == pastFlat - 1
    <2>3. end \in Int /\ endFlat \in Int /\ end <= Len(data) /\ endFlat - end = d
      BY <1>1, <2>1
    <2> HIDE DEF end, endFlat
    <2>4. SubSeq(flat, i, endFlat) = SubSeq(data, first, end)
      <3>1. first \in Int /\ end \in Int /\ 1 <= first /\ end <= Len(data)
        BY <2>2, <2>3
      <3>2. \A m, k \in Int : 1 <= m /\ k <= Len(data) => SubSeq(flat, m + d, k + d) = SubSeq(data, m, k)
        <4>1. d \in Nat /\ Part(flat, data, d)
          BY <1>1
        <4> QED
          BY <4>1, SamePieceOfPart
      <3>3. SubSeq(flat, first + d, end + d) = SubSeq(data, first, end)
        BY <3>1, <3>2, Zenon
      <3>4. i = first + d /\ endFlat = end + d
        BY <2>2, <2>3
      <3> QED
        BY <3>3, <3>4
    <2> QED
      BY <2>4 DEF PayloadAt, first, past, pastFlat, i, end, endFlat
  <1> QED
    BY <1>2, <1>3, <1>4, <1>5, <1>6, <1>7

\* Nor does what is there when nothing comes after it.
LEMMA SamePlace ==
  ASSUME NEW flat, NEW data, NEW d, Behind(flat, data, d), NEW p \in Nat \ {0}
  PROVE  /\ HeaderFits(flat, p + d) <=> HeaderFits(data, p)
         /\ p + MagicLength - 1 <= Len(data) => (MagicAt(flat, p + d) <=> MagicAt(data, p))
         /\ HeaderFits(data, p) =>
              /\ EndAt(flat, p + d) = EndAt(data, p) + d
              /\ Incomplete(flat, p + d) <=> Incomplete(data, p)
         /\ Whole(flat, p + d) <=> Whole(data, p)
         /\ Whole(data, p) => PayloadAt(flat, p + d) = PayloadAt(data, p)
  <1>1. /\ Len(data) \in Nat /\ Len(flat) = Len(data) + d /\ d \in Nat
        /\ data \in Seq(Byte) /\ Part(flat, data, d)
    BY DEF Behind, Part
  <1>2. HeaderFits(flat, p + d) <=> HeaderFits(data, p)
    BY <1>1, LengthsAreNumbers DEF HeaderFits
  <1>3. /\ p + MagicLength - 1 <= Len(data) => (MagicAt(flat, p + d) <=> MagicAt(data, p))
        /\ HeaderFits(data, p) =>
              /\ LengthAt(flat, p + d) = LengthAt(data, p)
              /\ EndAt(flat, p + d) = EndAt(data, p) + d
              /\ HeaderAt(flat, p + d) <=> HeaderAt(data, p)
        /\ Whole(data, p) => PayloadAt(flat, p + d) = PayloadAt(data, p)
    BY <1>1, SameInPart
  <1>4. HeaderFits(data, p) => /\ EndAt(flat, p + d) > Len(flat) + 1 <=> EndAt(data, p) > Len(data) + 1
                               /\ EndAt(flat, p + d) <= Len(flat) + 1 <=> EndAt(data, p) <= Len(data) + 1
    <2>1. HeaderFits(data, p) => EndAt(data, p) \in Nat
      BY <1>1, HeaderIsNumbers
    <2> QED
      BY <1>1, <1>3, <2>1
  <1>5. HeaderFits(data, p) => p + MagicLength - 1 <= Len(data)
    BY <1>1, LengthsAreNumbers DEF HeaderFits
  <1>6. HeaderFits(data, p) => (Incomplete(flat, p + d) <=> Incomplete(data, p))
    BY <1>2, <1>3, <1>4, <1>5 DEF Incomplete
  <1>7. Whole(flat, p + d) <=> Whole(data, p)
    BY <1>2, <1>3, <1>4 DEF Whole, HeaderAt
  <1> QED
    BY <1>2, <1>3, <1>6, <1>7

\* A place that is looked at in vain: no magic is there.
Idle(flat, p) == p + MagicLength - 1 <= Len(flat) /\ ~MagicAt(flat, p)

LEMMA StopsArePlaces ==
  ASSUME NEW data \in Seq(Byte)
  PROVE  /\ ExtractStops(data) \in SUBSET Places(data) /\ Len(data) + 1 \in ExtractStops(data)
         /\ DecodeStops(data) \in SUBSET Places(data) /\ Len(data) + 1 \in DecodeStops(data)
  <1>1. Len(data) \in Nat
    OBVIOUS
  <1> QED
    BY <1>1, LengthsAreNumbers DEF ExtractStops, DecodeStops, Places, HeaderFits

\* Behind bytes that are looked at in vain, the scanner that looks no further
\* than a header fits finds what the other finds, and stops where that one
\* does or looks in vain until there.
LEMMA ScannersAgree ==
  ASSUME NEW flat, NEW data, NEW d, Behind(flat, data, d), \A i \in 1 .. d : Idle(flat, i)
  PROVE  /\ Decode(flat).found = ExtractFrames(data).found
         /\ Decode(flat).at <= ExtractFrames(data).at + d
         /\ \A i \in Places(flat) :
              Decode(flat).at <= i /\ i < ExtractFrames(data).at + d => Idle(flat, i)
  <1> DEFINE E == Scanning(data, ExtractStops(data))
             D == Scanning(flat, DecodeStops(flat))
             n == Len(data)
             last == Len(flat) + 1
             Its(i) == IF i <= d THEN 1 ELSE i - d
             Agree(i) == /\ D[i].found = E[Its(i)].found
                         /\ D[i].at <= E[Its(i)].at + d
                         /\ \A j \in 1 .. last : D[i].at <= j /\ j < E[Its(i)].at + d => Idle(flat, j)
             S == {i \in 1 .. last : Agree(i)}
  <1>1. /\ n \in Nat /\ d \in Nat /\ last = n + d + 1 /\ last \in Nat /\ Len(flat) = n + d
        /\ Places(data) = 1 .. n + 1 /\ Places(flat) = 1 .. last
        /\ data \in Seq(Byte) /\ flat \in Seq(Byte)
    BY DEF Behind, Part, Places
  <1>2. \A p \in 1 .. n + 1 : E[p] = LoopTurn(data, ExtractStops(data), E, p)
    BY <1>1, StopsArePlaces, ScanIsLoop
  <1>3. \A i \in 1 .. last : D[i] = LoopTurn(flat, DecodeStops(flat), D, i)
    BY <1>1, StopsArePlaces, ScanIsLoop
  <1>4. \A p \in 1 .. n + 1 : /\ E[p] \in [found : Seq(Seq(Byte)), at : ExtractStops(data)]
                              /\ E[p].at \in 1 .. n + 1 /\ p <= E[p].at
    <2>1. ExtractStops(data) \in SUBSET Places(data) /\ n + 1 \in ExtractStops(data)
      BY <1>1, StopsArePlaces
    <2>2. \A p \in Places(data) : /\ E[p] \in [found : Seq(Seq(Byte)), at : ExtractStops(data)]
                                  /\ p <= E[p].at
      BY <1>1, <2>1, ScanStops
    <2> QED
      BY <1>1, <2>1, <2>2
  <1>5. \A i \in 1 .. last : /\ D[i] \in [found : Seq(Seq(Byte)), at : DecodeStops(flat)]
                             /\ D[i].at \in 1 .. last /\ i <= D[i].at
    <2>1. DecodeStops(flat) \in SUBSET Places(flat) /\ last \in DecodeStops(flat)
      BY <1>1, StopsArePlaces
    <2>2. \A p \in Places(flat) : /\ D[p] \in [found : Seq(Seq(Byte)), at : DecodeStops(flat)]
                                  /\ p <= D[p].at
      BY <1>1, <2>1, ScanStops
    <2> QED
      BY <1>1, <2>1, <2>2
  <1> HIDE DEF E, D, n, last
  <1>6. ASSUME NEW i \in 1 .. last, ~HeaderFits(flat, i)
        PROVE  D[i] = StopAt(i)
    <2>1. i \in DecodeStops(flat)
      BY <1>1, <1>6 DEF DecodeStops, Places
    <2> QED
      BY <1>3, <2>1 DEF LoopTurn
  <1>7. \A i \in 1 .. last : Its(i) \in 1 .. n + 1
    BY <1>1
  <1>8. ASSUME NEW i \in 1 .. last, \A j \in 1 .. last : i < j => j \in S
        PROVE  i \in S
    <2> DEFINE p == Its(i)
               next == Its(i + 1)
    <2>1. p \in 1 .. n + 1 /\ i \in Nat /\ (i > d => i = p + d)
      BY <1>1, <1>7
    <2>2. i # last => i + 1 \in S /\ i + 1 \in 1 .. last /\ next \in 1 .. n + 1
      BY <1>1, <1>7, <1>8
    <2> HIDE DEF p
    <2>3. ASSUME i # last, Idle(flat, i), E[p] = E[next]
          PROVE  i \in S
      \* Nothing is here, and both go on.
      <3> HIDE DEF next
      <3>1. /\ D[i + 1].found = E[p].found /\ D[i + 1].at <= E[p].at + d
            /\ \A j \in 1 .. last : D[i + 1].at <= j /\ j < E[p].at + d => Idle(flat, j)
        BY <2>2, <2>3 DEF next
      <3>2. CASE HeaderFits(flat, i)
        <4>1. ~Whole(flat, i) /\ i \notin DecodeStops(flat)
          BY <2>3, <3>2 DEF Idle, Whole, HeaderAt, DecodeStops, Incomplete
        <4>2. D[i] = D[i + 1]
          BY <1>3, <4>1 DEF LoopTurn
        <4> QED
          BY <3>1, <4>2 DEF p
      <3>3. CASE ~HeaderFits(flat, i)
        <4>1. ~HeaderFits(flat, i + 1)
          BY <1>1, <2>1, <3>3, LengthsAreNumbers DEF HeaderFits
        <4>2. D[i] = StopAt(i) /\ D[i + 1] = StopAt(i + 1)
          BY <1>6, <2>2, <2>3, <3>3, <4>1
        <4>3. D[i].found = <<>> /\ D[i].at = i /\ D[i + 1].found = <<>> /\ D[i + 1].at = i + 1
          BY <4>2 DEF StopAt
        <4>4. E[p].at \in Nat
          BY <1>1, <1>4, <2>1
        <4>5. D[i].at <= E[p].at + d
          BY <1>1, <2>1, <3>1, <4>3, <4>4
        <4>6. ASSUME NEW j \in 1 .. last, D[i].at <= j, j < E[p].at + d
              PROVE  Idle(flat, j)
          <5>1. j = i \/ i + 1 <= j
            BY <1>1, <2>1, <4>3, <4>6
          <5> QED
            BY <2>3, <3>1, <4>3, <4>6, <5>1
        <4> QED
          BY <3>1, <4>3, <4>5, <4>6 DEF p
      <3> QED
        BY <3>2, <3>3
    <2>4. CASE i <= d
      <3>1. i # last /\ next = p
        BY <1>1, <2>4 DEF p
      <3> QED
        BY <2>1, <2>3, <2>4, <3>1, <1>1
    <2>5. CASE i > d
      <3>1. i = p + d /\ p \in Nat \ {0} /\ next = IF i # last THEN p + 1 ELSE next
        BY <1>1, <2>1, <2>5
      <3>2. /\ HeaderFits(flat, i) <=> HeaderFits(data, p)
            /\ p + MagicLength - 1 <= n => (MagicAt(flat, i) <=> MagicAt(data, p))
            /\ HeaderFits(data, p) => /\ EndAt(flat, i) = EndAt(data, p) + d
                                      /\ Incomplete(flat, i) <=> Incomplete(data, p)
            /\ Whole(flat, i) <=> Whole(data, p)
            /\ Whole(data, p) => PayloadAt(flat, i) = PayloadAt(data, p)
        BY <3>1, SamePlace DEF n
      <3>3. D[i] = LoopTurn(flat, DecodeStops(flat), D, i) /\ E[p] = LoopTurn(data, ExtractStops(data), E, p)
        BY <1>2, <1>3, <2>1
      <3>4. CASE p \in ExtractStops(data)
        <4>1. i \in DecodeStops(flat)
          <5>1. ~HeaderFits(data, p) \/ Incomplete(data, p)
            BY <1>1, <2>1, <3>4, LengthsAreNumbers DEF ExtractStops, HeaderFits, n
          <5> QED
            BY <1>1, <3>2, <5>1 DEF DecodeStops, Places
        <4>2. D[i] = StopAt(i) /\ E[p] = StopAt(p)
          BY <3>3, <3>4, <4>1 DEF LoopTurn
        <4>3. D[i].found = <<>> /\ D[i].at = i /\ E[p].found = <<>> /\ E[p].at = p
          BY <4>2 DEF StopAt
        <4>4. \A j \in 1 .. last : ~ (i <= j /\ j < p + d)
          BY <1>1, <3>1
        <4> QED
          BY <1>1, <3>1, <4>3, <4>4, SMTT(30) DEF p
      <3>5. CASE p \notin ExtractStops(data)
        <4>1. p + MagicLength - 1 <= n /\ ~Incomplete(data, p)
          BY <1>1, <2>1, <3>5, LengthsAreNumbers DEF ExtractStops, Places, n
        <4>2. n + 1 \in ExtractStops(data)
          BY <1>1, StopsArePlaces DEF n
        <4>3. p # n + 1 /\ i # last /\ next = p + 1 /\ p + 1 \in 1 .. n + 1
          BY <1>1, <2>1, <3>1, <3>5, <4>2
        <4>4. CASE Whole(data, p)
          <5> DEFINE q == EndAt(data, p)
                     j == EndAt(flat, i)
          <5>1. q \in 1 .. n + 1 /\ q > p
            BY <1>1, <2>1, <3>5, <4>2, <4>4, TurnGoesOn DEF n
          <5>2. j = q + d /\ j \in 1 .. last /\ i < j /\ Its(j) = q
            <6>1. j = q + d
              BY <3>2, <4>4 DEF Whole, HeaderAt
            <6> HIDE DEF q, j
            <6> QED
              BY <1>1, <3>1, <5>1, <6>1
          <5>3. i \notin DecodeStops(flat)
            BY <3>2, <4>1, <4>4 DEF DecodeStops, Whole, HeaderAt
          <5>4. E[p] = After(PayloadAt(data, p), E[q])
            BY <3>3, <3>5, <4>4 DEF LoopTurn
          <5>5. D[i] = After(PayloadAt(data, p), D[j])
            BY <3>2, <3>3, <4>4, <5>3 DEF LoopTurn
          <5> HIDE DEF q, j
          <5>6. Agree(j)
            BY <1>8, <5>2
          <5>7. /\ E[q] \in [found : Seq(Seq(Byte)), at : ExtractStops(data)]
                /\ D[j] \in [found : Seq(Seq(Byte)), at : DecodeStops(flat)]
            BY <1>4, <1>5, <5>1, <5>2
          <5>8. /\ E[p].found = <<PayloadAt(data, p)>> \o E[q].found /\ E[p].at = E[q].at
                /\ D[i].found = <<PayloadAt(data, p)>> \o D[j].found /\ D[i].at = D[j].at
            BY <5>4, <5>5, <5>7 DEF After
          <5>9. Agree(i)
            BY <5>2, <5>6, <5>8 DEF p
          <5> QED
            BY <5>9
        <4>5. CASE ~Whole(data, p)
          <5>1. E[p] = E[next]
            BY <3>3, <3>5, <4>3, <4>5 DEF LoopTurn
          <5>2. CASE MagicAt(data, p)
            <6>1. HeaderFits(data, p) /\ i \notin DecodeStops(flat)
              BY <3>2, <4>1, <5>2 DEF DecodeStops, Incomplete
            <6>2. D[i] = D[i + 1]
              BY <3>2, <3>3, <4>5, <6>1 DEF LoopTurn
            <6>3. Agree(i + 1)
              BY <2>2, <4>3
            <6> QED
              BY <5>1, <6>2, <6>3 DEF p
          <5>3. CASE ~MagicAt(data, p)
            <6>1. Idle(flat, i)
              BY <1>1, <3>1, <3>2, <4>1, <5>3, LengthsAreNumbers DEF Idle
            <6> QED
              BY <2>3, <4>3, <5>1, <6>1
          <5> QED
            BY <5>2, <5>3
        <4> QED
          BY <4>4, <4>5
      <3> QED
        BY <3>4, <3>5
    <2>6. i <= d \/ i > d
      BY <1>1, <2>1
    <2> QED
      BY <2>4, <2>5, <2>6
  <1>9. 1 \in S
    <2> HIDE DEF S
    <2>1. 1 \in 1 .. last
      BY <1>1
    <2> QED
      BY <1>1, <1>8, <2>1, FromTheEnd
  <1>10. Its(1) = 1
    BY <1>1
  <1> QED
    BY <1>1, <1>9, <1>10 DEF ExtractFrames, Decode, E, D

-----------------------------------------------------------------------------
\* Two bytes hold a length.
LEMMA LengthInTwoBytes ==
  ASSUME NEW length \in 0 .. MaxMessageSize
  PROVE  /\ length \div Base \in Byte /\ length % Base \in Byte
         /\ (length \div Base) * Base + (length % Base) = length
  <1> DEFINE q == length \div Base
             r == length % Base
  <1>1. Base \in Nat \ {0} /\ length \in Nat /\ length < Base * Base
    BY FrameAssumption
  <1>2. q \in Int /\ r \in 0 .. Base - 1 /\ length = Base * q + r
    BY <1>1
  <1> HIDE DEF q, r
  <1>3. q >= 0
    <2> SUFFICES ASSUME q <= -1 PROVE FALSE
      BY <1>2
    <2>1. Base * q <= Base * (-1)
      BY <1>1, <1>2
    <2> QED
      BY <1>1, <1>2, <2>1
  <1>4. q < Base
    <2> SUFFICES ASSUME q >= Base PROVE FALSE
      BY <1>1, <1>2
    <2>1. Base * q >= Base * Base
      BY <1>1, <1>2
    <2> QED
      BY <1>1, <1>2, <2>1
  <1>5. q * Base = Base * q
    BY <1>1, <1>2
  <1> QED
    BY <1>1, <1>2, <1>3, <1>4, <1>5 DEF Byte, q, r

\* A frame is a header and the payload.
LEMMA FrameIs ==
  ASSUME NEW payload \in Payload
  PROVE  LET frame == EncodeFrame(payload) IN
         /\ payload \in Seq(Byte) /\ Len(payload) \in 0 .. MaxMessageSize
         /\ frame \in Seq(Byte) /\ Len(frame) = HeaderLength + Len(payload)
         /\ \A i \in 1 .. MagicLength : frame[i] = Magic[i]
         /\ frame[MagicLength + 1] * Base + frame[MagicLength + 2] = Len(payload)
         /\ \A i \in 1 .. Len(payload) : frame[HeaderLength + i] = payload[i]
  <1> DEFINE length == Len(payload)
             size == <<length \div Base, length % Base>>
             header == Magic \o size
             frame == header \o payload
             m == MagicLength
  <1>1. payload \in Seq(Byte) /\ length \in 0 .. MaxMessageSize /\ length \in Nat
    BY FrameAssumption
  <1>2. Magic \in Seq(Byte) /\ Len(Magic) = m /\ m \in Nat
    BY FrameAssumption, LengthsAreNumbers DEF MagicLength
  <1>3. /\ length \div Base \in Byte /\ length % Base \in Byte
        /\ (length \div Base) * Base + (length % Base) = length
    BY <1>1, LengthInTwoBytes
  <1>4. /\ size \in Seq(Byte) /\ Len(size) = 2 /\ size[1] * Base + size[2] = length
    <2> DEFINE a == length \div Base
               b == length % Base
    <2>1. a \in Byte /\ b \in Byte /\ a * Base + b = length
      BY <1>3
    <2> HIDE DEF a, b
    <2>2. <<a, b>> \in Seq(Byte) /\ Len(<<a, b>>) = 2 /\ <<a, b>>[1] = a /\ <<a, b>>[2] = b
      BY <2>1
    <2> QED
      BY <2>1, <2>2 DEF a, b
  <1> HIDE DEF length, size, m
  <1>5. /\ header \in Seq(Byte) /\ Len(header) = m + 2
        /\ \A i \in 1 .. m + 2 : header[i] = IF i <= m THEN Magic[i] ELSE size[i - m]
    <2>1. /\ header \in Seq(Byte) /\ Len(header) = Len(Magic) + Len(size)
          /\ \A i \in 1 .. Len(Magic) + Len(size) :
               header[i] = IF i <= Len(Magic) THEN Magic[i] ELSE size[i - Len(Magic)]
      BY <1>2, <1>4, ConcatProperties
    <2> QED
      BY <1>2, <1>4, <2>1
  <1> HIDE DEF header
  <1>6. /\ frame \in Seq(Byte) /\ Len(frame) = m + 2 + length
        /\ \A i \in 1 .. m + 2 + length : frame[i] = IF i <= m + 2 THEN header[i] ELSE payload[i - (m + 2)]
    <2>1. /\ frame \in Seq(Byte) /\ Len(frame) = Len(header) + Len(payload)
          /\ \A i \in 1 .. Len(header) + Len(payload) :
               frame[i] = IF i <= Len(header) THEN header[i] ELSE payload[i - Len(header)]
      BY <1>1, <1>5, ConcatProperties
    <2>2. Len(header) = m + 2 /\ Len(payload) = length
      BY <1>5 DEF length
    <2> QED
      BY <2>1, <2>2
  <1> HIDE DEF frame
  <1>7. \A i \in 1 .. m : frame[i] = Magic[i]
    BY <1>1, <1>2, <1>5, <1>6
  <1>8. frame[m + 1] = size[1] /\ frame[m + 2] = size[2]
    <2> DEFINE i == m + 1
               j == m + 2
    <2>2. /\ i \in 1 .. m + 2 /\ j \in 1 .. m + 2 /\ i - m = 1 /\ j - m = 2
          /\ i \in 1 .. m + 2 + length /\ j \in 1 .. m + 2 + length
          /\ ~ (i <= m) /\ ~ (j <= m) /\ i <= m + 2 /\ j <= m + 2
      BY <1>1, <1>2
    <2> HIDE DEF i, j
    <2>3. header[i] = size[i - m] /\ header[j] = size[j - m] /\ frame[i] = header[i] /\ frame[j] = header[j]
      BY <1>5, <1>6, <2>2
    <2> QED
      BY <2>2, <2>3 DEF i, j
  <1>9. ASSUME NEW i \in 1 .. length
        PROVE  frame[m + 2 + i] = payload[i]
    <2> DEFINE j == m + 2 + i
    <2>1. j \in 1 .. m + 2 + length /\ ~ (j <= m + 2) /\ j - (m + 2) = i
      BY <1>1, <1>2
    <2> HIDE DEF j
    <2> QED
      BY <1>6, <2>1 DEF j
  <1>10. EncodeFrame(payload) = frame /\ HeaderLength = m + 2
    BY LengthsAreNumbers DEF EncodeFrame, frame, header, size, length, m
  <1> QED
    BY <1>1, <1>4, <1>6, <1>7, <1>8, <1>9, <1>10 DEF length, m

LEMMA BytesAreSeq ==
  ASSUME NEW item \in Item
  PROVE  Bytes(item) \in Seq(Byte)
  BY FrameIs, FrameAssumption DEF Item, Bytes

-----------------------------------------------------------------------------
\* What holds at a place if it holds before it, holds at all.
LEMMA FromTheStart ==
  ASSUME NEW S, NEW last \in Nat,
         \A p \in 1 .. last : (\A q \in 1 .. last : q < p => q \in S) => p \in S
  PROVE  \A p \in 1 .. last : p \in S
  <1> SUFFICES ASSUME NEW p \in 1 .. last, p \notin S PROVE FALSE
    OBVIOUS
  <1> DEFINE B == {k \in 1 .. last : k \notin S}
             m == Min(B)
  <1>1. B \subseteq Nat /\ p \in B
    BY DEF B
  <1>2. m \in B /\ \A k \in B : m <= k
    <2> HIDE DEF B
    <2> QED BY <1>1, LeastIsThere
  <1> HIDE DEF m
  <1>3. \A q \in 1 .. last : q < m => q \in S
    BY <1>2
  <1> QED
    BY <1>2, <1>3

\* The sequences joined up to each of them.
Joined(seqs) ==
  LET flatten[i \in 1 .. Len(seqs)] == IF i = 1 THEN seqs[i] ELSE flatten[i - 1] \o seqs[i]
  IN flatten

LEMMA JoinedOneByOne ==
  ASSUME NEW S, NEW seqs \in Seq(S)
  PROVE  \A i \in 1 .. Len(seqs) :
           Joined(seqs)[i] = IF i = 1 THEN seqs[i] ELSE Joined(seqs)[i - 1] \o seqs[i]
  <1> DEFINE n == Len(seqs)
             Step(f, i) == IF i = 1 THEN seqs[i] ELSE f[i - 1] \o seqs[i]
             T == {m \in 1 .. n : \E f : \A i \in 1 .. m : f[i] = Step(f, i)}
             P(f) == f = [i \in 1 .. Len(seqs) |-> Step(f, i)]
  <1>1. n \in Nat
    OBVIOUS
  <1> HIDE DEF n
  <1>2. ASSUME NEW m \in 1 .. n, \A q \in 1 .. n : q < m => q \in T
        PROVE  m \in T
    <2>1. PICK f : \A i \in 1 .. m - 1 : f[i] = Step(f, i)
      <3>1. CASE m = 1
        BY <3>1
      <3>2. CASE m # 1
        <4>1. m - 1 \in 1 .. n /\ m - 1 < m
          BY <1>1, <3>2
        <4>2. m - 1 \in T
          <5> HIDE DEF T
          <5> QED BY <1>2, <4>1
        <4> QED
          BY <4>2
      <3> QED
        BY <3>1, <3>2
    <2> DEFINE g == [i \in 1 .. m |-> IF i = m THEN Step(f, m) ELSE f[i]]
    <2>2. \A i \in 1 .. m : g[i] = IF i = m THEN Step(f, m) ELSE f[i]
      OBVIOUS
    <2> HIDE DEF g
    <2>3. ASSUME NEW i \in 1 .. m
          PROVE  g[i] = Step(g, i)
      <3>1. i # 1 => i - 1 \in 1 .. m /\ i - 1 # m
        OBVIOUS
      <3>2. Step(g, i) = Step(f, i)
        BY <2>2, <3>1
      <3>3. i = m \/ i \in 1 .. m - 1
        OBVIOUS
      <3> HIDE DEF Step
      <3> QED
        BY <2>1, <2>2, <3>2, <3>3
    <2> QED
      BY <2>3
  <1>3. \E f : P(f)
    <2>1. CASE n = 0
      <3> DEFINE f == [i \in 1 .. Len(seqs) |-> seqs[i]]
      <3>1. \A g : f = [i \in 1 .. Len(seqs) |-> Step(g, i)]
        BY <2>1 DEF n
      <3> HIDE DEF f, Step
      <3> QED
        BY <3>1
    <2>2. CASE n # 0
      <3>1. n \in T
        <4>1. n \in 1 .. n
          BY <1>1, <2>2
        <4> HIDE DEF T
        <4> QED BY <1>1, <1>2, <4>1, FromTheStart
      <3>2. PICK f : \A i \in 1 .. n : f[i] = Step(f, i)
        BY <3>1
      <3> DEFINE g == [i \in 1 .. n |-> f[i]]
      <3>3. \A i \in 1 .. n : Step(g, i) = Step(f, i)
        <4>1. \A i \in 1 .. n : i # 1 => i - 1 \in 1 .. n
          BY <1>1
        <4> QED
          BY <4>1
      <3>4. g = [i \in 1 .. n |-> Step(g, i)]
        <4> HIDE DEF Step
        <4> QED
          BY <3>2, <3>3
      <3> HIDE DEF g
      <3> QED
        BY <3>4 DEF n
    <2> QED
      BY <2>1, <2>2
  <1>4. Joined(seqs) = CHOOSE f : P(f)
    BY DEF Joined
  <1> HIDE DEF P
  <1>5. P(Joined(seqs))
    BY <1>3, <1>4
  <1> QED
    BY <1>5 DEF P

LEMMA JoinedIsSeq ==
  ASSUME NEW S, NEW seqs \in Seq(Seq(S))
  PROVE  FlattenSeq(seqs) \in Seq(S)
  <1> DEFINE n == Len(seqs)
             T == {i \in 1 .. n : Joined(seqs)[i] \in Seq(S)}
  <1>1. n \in Nat /\ \A i \in 1 .. n : seqs[i] \in Seq(S)
    OBVIOUS
  <1>2. CASE n = 0
    <2>1. seqs = <<>>
      BY <1>2
    <2>2. FlattenSeq(seqs) = seqs
      BY <1>2 DEF FlattenSeq
    <2>3. <<>> \in Seq(S)
      OBVIOUS
    <2> QED
      BY <2>1, <2>2, <2>3
  <1>3. CASE n # 0
    <2>1. \A i \in 1 .. n : Joined(seqs)[i] = IF i = 1 THEN seqs[i] ELSE Joined(seqs)[i - 1] \o seqs[i]
      BY JoinedOneByOne
    <2>2. FlattenSeq(seqs) = Joined(seqs)[n]
      BY <1>3 DEF FlattenSeq, Joined
    <2> HIDE DEF n
    <2>3. ASSUME NEW i \in 1 .. n, \A q \in 1 .. n : q < i => q \in T
          PROVE  i \in T
      <3>1. CASE i = 1
        BY <1>1, <2>1, <3>1
      <3>2. CASE i # 1
        <4>1. i - 1 \in 1 .. n /\ i - 1 < i
          BY <1>1, <3>2
        <4>2. Joined(seqs)[i - 1] \in Seq(S)
          BY <2>3, <4>1
        <4>3. Joined(seqs)[i - 1] \o seqs[i] \in Seq(S)
          BY <1>1, <4>2, ConcatProperties
        <4> QED
          BY <2>1, <3>2, <4>3
      <3> QED
        BY <3>1, <3>2
    <2>4. n \in 1 .. n
      BY <1>1, <1>3
    <2>5. n \in T
      <3> HIDE DEF T
      <3> QED
        BY <1>1, <2>3, <2>4, FromTheStart
    <2> QED
      BY <2>2, <2>5
  <1> QED
    BY <1>2, <1>3

-----------------------------------------------------------------------------
(* Where the items of a stream are in it *)

Pieces(sent) == [i \in DOMAIN sent |-> Bytes(sent[i])]

LEMMA PiecesAre ==
  ASSUME NEW sent \in Seq(Item)
  PROVE  /\ Pieces(sent) \in Seq(Seq(Byte)) /\ Len(Pieces(sent)) = Len(sent) /\ Len(sent) \in Nat
         /\ \A i \in 1 .. Len(sent) : /\ Pieces(sent)[i] = Bytes(sent[i]) /\ sent[i] \in Item
                                      /\ Bytes(sent[i]) \in Seq(Byte) /\ Len(Bytes(sent[i])) \in Nat
  <1>1. DOMAIN sent = 1 .. Len(sent) /\ Len(sent) \in Nat /\ \A i \in 1 .. Len(sent) : sent[i] \in Item
    OBVIOUS
  <1>2. \A i \in 1 .. Len(sent) : Bytes(sent[i]) \in Seq(Byte)
    BY <1>1, BytesAreSeq
  <1>3. \A i \in 1 .. Len(sent) : Len(Bytes(sent[i])) \in Nat
    BY <1>2
  <1> DEFINE n == Len(sent)
             pieces == Pieces(sent)
  <1>4. /\ pieces \in [1 .. n -> Seq(Byte)] /\ \A i \in 1 .. n : pieces[i] = Bytes(sent[i])
    BY <1>1, <1>2 DEF Pieces
  <1> HIDE DEF pieces
  <1>5. pieces \in Seq(Seq(Byte)) /\ Len(pieces) = n
    BY <1>1, <1>4
  <1> QED
    BY <1>1, <1>2, <1>3, <1>4, <1>5 DEF pieces

LEMMA SameJoined ==
  ASSUME NEW S, NEW s \in Seq(S), NEW t \in Seq(S), NEW n \in Nat, n <= Len(s), n <= Len(t),
         \A i \in 1 .. n : s[i] = t[i]
  PROVE  \A i \in 1 .. n : Joined(s)[i] = Joined(t)[i]
  <1> DEFINE T == {i \in 1 .. n : Joined(s)[i] = Joined(t)[i]}
  <1>1. \A i \in 1 .. n : /\ Joined(s)[i] = IF i = 1 THEN s[i] ELSE Joined(s)[i - 1] \o s[i]
                          /\ Joined(t)[i] = IF i = 1 THEN t[i] ELSE Joined(t)[i - 1] \o t[i]
    <2>1. Len(s) \in Nat /\ Len(t) \in Nat
      OBVIOUS
    <2>2. \A i \in 1 .. n : i \in 1 .. Len(s) /\ i \in 1 .. Len(t)
      BY <2>1
    <2> QED
      BY <2>2, JoinedOneByOne
  <1>2. ASSUME NEW i \in 1 .. n, \A q \in 1 .. n : q < i => q \in T
        PROVE  i \in T
    <2>1. i # 1 => i - 1 \in 1 .. n /\ i - 1 < i
      OBVIOUS
    <2>2. i # 1 => Joined(s)[i - 1] = Joined(t)[i - 1]
      BY <1>2, <2>1
    <2> QED
      BY <1>1, <2>2
  <1> HIDE DEF T
  <1>3. \A i \in 1 .. n : i \in T
    BY <1>2, FromTheStart
  <1> QED
    BY <1>3 DEF T

LEMMA FirstItems ==
  ASSUME NEW sent \in Seq(Item)
  PROVE  /\ Stream(<<>>) = <<>> /\ LengthOf(sent, 0) = 0
         /\ \A i \in 1 .. Len(sent) : Stream(SubSeq(sent, 1, i)) = Joined(Pieces(sent))[i]
         /\ LengthOf(sent, Len(sent)) = Len(Stream(sent))
         /\ Len(sent) # 0 => Stream(sent) = Joined(Pieces(sent))[Len(sent)]
  <1>1. Stream(<<>>) = <<>>
    <2>1. Pieces(<<>>) = <<>>
      BY DEF Pieces
    <2> QED
      BY <2>1 DEF Stream, Pieces, FlattenSeq
  <1>2. Len(sent) \in Nat /\ \A i \in 1 .. Len(sent) : sent[i] \in Item
    BY PiecesAre
  <1>3. SubSeq(sent, 1, 0) = <<>>
    OBVIOUS
  <1>4. LengthOf(sent, 0) = 0
    <2>1. LengthOf(sent, 0) = Len(Stream(SubSeq(sent, 1, 0)))
      BY DEF LengthOf
    <2>2. Len(<<>>) = 0
      OBVIOUS
    <2>3. Stream(SubSeq(sent, 1, 0)) = <<>>
      BY <1>1, <1>3, Zenon
    <2> QED
      BY <2>1, <2>2, <2>3, Zenon
  <1>5. ASSUME NEW i \in 1 .. Len(sent)
        PROVE  Stream(SubSeq(sent, 1, i)) = Joined(Pieces(sent))[i]
    <2> DEFINE first == SubSeq(sent, 1, i)
    <2>1. first \in Seq(Item) /\ Len(first) = i /\ \A k \in 1 .. i : first[k] = sent[k]
      <3>1. i \in Int /\ 1 <= i /\ \A k \in 1 .. i : sent[k] \in Item /\ 1 + k - 1 = k
        BY <1>2
      <3>2. i - 1 + 1 = i
        BY <3>1
      <3> QED
        BY <3>1, <3>2, SubSeqProperties
    <2> HIDE DEF first
    <2>2. /\ Pieces(first) \in Seq(Seq(Byte)) /\ Len(Pieces(first)) = i
          /\ \A k \in 1 .. i : Pieces(first)[k] = Bytes(first[k])
      BY <2>1, PiecesAre
    <2>3. /\ Pieces(sent) \in Seq(Seq(Byte)) /\ Len(Pieces(sent)) = Len(sent)
          /\ \A k \in 1 .. Len(sent) : Pieces(sent)[k] = Bytes(sent[k])
      BY PiecesAre
    <2>4. \A k \in 1 .. i : Pieces(first)[k] = Pieces(sent)[k]
      <3>1. \A k \in 1 .. i : k \in 1 .. Len(sent)
        BY <1>2
      <3>2. ASSUME NEW k \in 1 .. i
            PROVE  Pieces(first)[k] = Pieces(sent)[k]
        <4>1. Pieces(first)[k] = Bytes(first[k]) /\ first[k] = sent[k]
          BY <2>1, <2>2, <3>2, Zenon
        <4>2. Pieces(sent)[k] = Bytes(sent[k])
          BY <2>3, <3>1, <3>2, Zenon
        <4> QED
          BY <4>1, <4>2, Zenon
      <3> QED
        BY <3>2
    <2>5. i \in 1 .. i /\ i \in Nat /\ i <= Len(sent) /\ i # 0
      BY <1>2
    <2>6. Joined(Pieces(first))[i] = Joined(Pieces(sent))[i]
      <3>1. i <= Len(Pieces(first)) /\ i <= Len(Pieces(sent))
        BY <2>2, <2>3, <2>5
      <3>2. \A k \in 1 .. i : Joined(Pieces(first))[k] = Joined(Pieces(sent))[k]
        <4>1. \A T : \A x, y \in Seq(T) : i <= Len(x) /\ i <= Len(y) /\ (\A k \in 1 .. i : x[k] = y[k])
                 => \A k \in 1 .. i : Joined(x)[k] = Joined(y)[k]
          BY <2>5, SameJoined
        <4> QED
          BY <2>2, <2>3, <2>4, <3>1, <4>1, Zenon
      <3> QED
        BY <2>5, <3>2
    <2>7. Stream(first) = Joined(Pieces(first))[i]
      BY <2>2, <2>5 DEF Stream, Pieces, FlattenSeq, Joined
    <2> QED
      BY <2>6, <2>7 DEF first
  <1>6. SubSeq(sent, 1, Len(sent)) = sent
    OBVIOUS
  <1>7. LengthOf(sent, Len(sent)) = Len(Stream(sent))
    <2>1. LengthOf(sent, Len(sent)) = Len(Stream(SubSeq(sent, 1, Len(sent))))
      BY DEF LengthOf
    <2> QED
      BY <1>6, <2>1, Zenon
  <1>8. ASSUME Len(sent) # 0
        PROVE  Stream(sent) = Joined(Pieces(sent))[Len(sent)]
    <2>1. Len(sent) \in 1 .. Len(sent)
      BY <1>2, <1>8
    <2>2. Stream(SubSeq(sent, 1, Len(sent))) = Joined(Pieces(sent))[Len(sent)]
      BY <1>5, <2>1
    <2> QED
      BY <1>6, <2>2, Zenon
  <1> QED
    BY <1>1, <1>4, <1>5, <1>7, <1>8

\* The items stand one after the other.
LEMMA ItemsInTheStream ==
  ASSUME NEW sent \in Seq(Item)
  PROVE  /\ \A i \in 0 .. Len(sent) : LengthOf(sent, i) \in Nat
         /\ \A i \in 1 .. Len(sent) : LengthOf(sent, i) = LengthOf(sent, i - 1) + Len(Bytes(sent[i]))
         /\ \A i, j \in 0 .. Len(sent) : i <= j => LengthOf(sent, i) <= LengthOf(sent, j)
         /\ LengthOf(sent, Len(sent)) = Len(Stream(sent)) /\ Stream(sent) \in Seq(Byte)
         /\ \A i \in 1 .. Len(sent) : \A k \in 1 .. Len(Bytes(sent[i])) :
              Stream(sent)[LengthOf(sent, i - 1) + k] = Bytes(sent[i])[k]
  <1> DEFINE n == Len(sent)
             pieces == Pieces(sent)
             J == Joined(pieces)
             o(i) == LengthOf(sent, i)
  <1>1. /\ n \in Nat /\ pieces \in Seq(Seq(Byte)) /\ Len(pieces) = n
        /\ \A i \in 1 .. n : /\ pieces[i] = Bytes(sent[i]) /\ pieces[i] \in Seq(Byte)
                             /\ Len(pieces[i]) \in Nat
    BY PiecesAre
  <1>2. \A i \in 1 .. n : J[i] = IF i = 1 THEN pieces[i] ELSE J[i - 1] \o pieces[i]
    BY <1>1, JoinedOneByOne
  <1>3. /\ o(0) = 0 /\ \A i \in 1 .. n : o(i) = Len(J[i])
        /\ o(n) = Len(Stream(sent)) /\ (n # 0 => Stream(sent) = J[n]) /\ (n = 0 => Stream(sent) = <<>>)
    <2>1. n = 0 => sent = <<>>
      OBVIOUS
    <2> QED
      BY <2>1, FirstItems DEF LengthOf
  <1> HIDE DEF n, pieces, J, o
  <1> DEFINE T == {i \in 1 .. n :
                    /\ J[i] \in Seq(Byte) /\ o(i) \in Nat /\ o(i - 1) \in Nat
                    /\ o(i) = o(i - 1) + Len(pieces[i])
                    /\ \A k \in 1 .. Len(pieces[i]) : J[i][o(i - 1) + k] = pieces[i][k]
                    /\ \A j \in 1 .. i : o(j) \in Nat /\ o(j) <= o(i) /\ \A k \in 1 .. o(j) : J[i][k] = J[j][k]}
  <1>4. ASSUME NEW i \in 1 .. n, \A q \in 1 .. n : q < i => q \in T
        PROVE  i \in T
    <2> DEFINE piece == pieces[i]
               m == Len(piece)
    <2>1. piece \in Seq(Byte) /\ m \in Nat
      BY <1>1
    <2>2. CASE i = 1
      <3>1. J[i] = piece /\ o(i) = m /\ o(i - 1) = 0
        BY <1>2, <1>3, <2>2
      <3>2. \A k \in 1 .. m : 0 + k = k
        OBVIOUS
      <3>3. \A j \in 1 .. i : j = i
        BY <2>2
      <3> HIDE DEF piece, m
      <3>4. \A j \in 1 .. i : o(j) \in Nat /\ o(j) <= o(i) /\ \A k \in 1 .. o(j) : J[i][k] = J[j][k]
        BY <2>1, <3>1, <3>3
      <3> QED
        BY <2>1, <3>1, <3>2, <3>4 DEF piece, m
    <2>3. CASE i # 1
      <3> DEFINE h == i - 1
                 before == J[h]
                 b == o(h)
      <3>1. h \in 1 .. n /\ h < i /\ h \in 1 .. h /\ \A j \in 1 .. i : j = i \/ j \in 1 .. h
        BY <1>1, <2>3
      <3>2. h \in T
        <4> HIDE DEF T, h
        <4> QED BY <1>4, <3>1
      <3>3. /\ before \in Seq(Byte) /\ b \in Nat /\ Len(before) = b
            /\ \A j \in 1 .. h : o(j) \in Nat /\ o(j) <= b /\ \A k \in 1 .. o(j) : before[k] = J[j][k]
        BY <1>3, <3>1, <3>2
      <3>4. J[i] = before \o piece /\ o(i) = Len(J[i])
        BY <1>2, <1>3, <2>3
      <3>5. o(i - 1) = b
        OBVIOUS
      <3> HIDE DEF piece, before, h, b
      <3>6. /\ J[i] \in Seq(Byte) /\ Len(J[i]) = Len(before) + Len(piece)
            /\ \A k \in 1 .. Len(before) + Len(piece) :
                 J[i][k] = IF k <= Len(before) THEN before[k] ELSE piece[k - Len(before)]
        <4> DEFINE both == before \o piece
        <4>1. /\ both \in Seq(Byte) /\ Len(both) = Len(before) + Len(piece)
              /\ \A k \in 1 .. Len(before) + Len(piece) :
                   both[k] = IF k <= Len(before) THEN before[k] ELSE piece[k - Len(before)]
          <5>1. before \in Seq(Byte)
            BY <3>3
          <5>2. piece \in Seq(Byte)
            BY <2>1
          <5> QED
            BY <5>1, <5>2, ConcatProperties
        <4>2. J[i] = both
          BY <3>4
        <4> HIDE DEF both
        <4> QED
          BY <4>1, <4>2
      <3>7. o(i) = b + m /\ o(i) \in Nat /\ b <= o(i)
        BY <2>1, <3>3, <3>4, <3>6
      <3> HIDE DEF m
      <3>8. ASSUME NEW k \in 1 .. m
            PROVE  J[i][b + k] = piece[k]
        <4> DEFINE j == b + k
        <4>1. j \in 1 .. Len(before) + m /\ ~ (j <= Len(before)) /\ j - Len(before) = k
          BY <2>1, <3>3
        <4> HIDE DEF j
        <4> QED
          BY <3>6, <4>1 DEF j, m
      <3>9. ASSUME NEW j \in 1 .. i
            PROVE  o(j) \in Nat /\ o(j) <= o(i) /\ \A k \in 1 .. o(j) : J[i][k] = J[j][k]
        <4>1. CASE j = i
          BY <3>7, <4>1
        <4>2. CASE j # i
          <5>1. j \in 1 .. h
            BY <3>1, <4>2
          <5>2. o(j) \in Nat /\ o(j) <= b /\ \A k \in 1 .. o(j) : before[k] = J[j][k]
            BY <3>3, <5>1
          <5>3. \A k \in 1 .. o(j) : k <= Len(before) /\ k \in 1 .. Len(before) + m
            BY <2>1, <3>3, <5>2
          <5>4. \A k \in 1 .. o(j) : J[i][k] = before[k]
            BY <3>6, <5>3 DEF m
          <5> QED
            BY <3>3, <3>7, <5>2, <5>4
        <4> QED
          BY <4>1, <4>2
      <3> QED
        BY <3>3, <3>5, <3>6, <3>7, <3>8, <3>9 DEF piece, m
    <2> QED
      BY <2>2, <2>3
  <1>5. \A i \in 1 .. n : i \in T
    <2> HIDE DEF T
    <2> QED
      BY <1>1, <1>4, FromTheStart
  <1>6. \A i \in 0 .. n : o(i) \in Nat
    <2>1. \A i \in 0 .. n : i = 0 \/ i \in 1 .. n
      BY <1>1
    <2> QED
      BY <1>3, <1>5, <2>1
  <1>7. ASSUME NEW i \in 0 .. n, NEW j \in 0 .. n, i <= j
        PROVE  o(i) <= o(j)
    <2>1. i = 0 \/ (i \in 1 .. j /\ j \in 1 .. n)
      BY <1>1, <1>7
    <2> QED
      BY <1>3, <1>5, <1>6, <2>1
  <1>8. Stream(sent) \in Seq(Byte)
    <2>1. n # 0 => n \in 1 .. n
      BY <1>1
    <2>2. <<>> \in Seq(Byte)
      OBVIOUS
    <2> QED
      BY <1>3, <1>5, <2>1, <2>2
  <1>9. ASSUME NEW i \in 1 .. n, NEW k \in 1 .. Len(pieces[i])
        PROVE  Stream(sent)[o(i - 1) + k] = pieces[i][k]
    <2> DEFINE j == o(i - 1) + k
    <2>1. n \in 1 .. n /\ i \in 1 .. n /\ n # 0
      BY <1>1
    <2>2. /\ o(i - 1) \in Nat /\ o(i) = o(i - 1) + Len(pieces[i]) /\ J[i][j] = pieces[i][k]
          /\ \A x \in 1 .. o(i) : J[n][x] = J[i][x]
      BY <1>5, <2>1
    <2>3. j \in 1 .. o(i)
      BY <1>1, <2>2
    <2> HIDE DEF j
    <2> QED
      BY <1>3, <2>1, <2>2, <2>3 DEF j
  <1>10. \A i \in 1 .. n : o(i) = o(i - 1) + Len(pieces[i]) /\ pieces[i] = Bytes(sent[i])
    BY <1>1, <1>5
  <1>11. /\ \A i \in 1 .. n : \A k \in 1 .. Len(Bytes(sent[i])) : Stream(sent)[o(i - 1) + k] = Bytes(sent[i])[k]
         /\ \A i \in 1 .. n : o(i) = o(i - 1) + Len(Bytes(sent[i]))
    <2> HIDE DEF n, o
    <2>1. ASSUME NEW i \in 1 .. n
          PROVE  o(i) = o(i - 1) + Len(Bytes(sent[i]))
      BY <1>10, Zenon
    <2>2. ASSUME NEW i \in 1 .. n, NEW k \in 1 .. Len(Bytes(sent[i]))
          PROVE  Stream(sent)[o(i - 1) + k] = Bytes(sent[i])[k]
      BY <1>9, <1>10, Zenon
    <2> QED
      BY <2>1, <2>2
  <1>12. \A i, j \in 0 .. n : i <= j => o(i) <= o(j)
    BY <1>7
  <1>13. o(n) = Len(Stream(sent))
    BY <1>3
  <1> QED
    BY <1>6, <1>8, <1>11, <1>12, <1>13, Zenon DEF n, o

-----------------------------------------------------------------------------
(* The frames of a stream, and what a scan of a part of it finds *)

Frames(sent) == {i \in DOMAIN sent : sent[i].kind = "frame"}
Start(sent, i) == LengthOf(sent, i - 1) + 1

\* Not inside a frame, though perhaps where one begins.
Outside(sent, x) == \A i \in Frames(sent) : x <= Start(sent, i) \/ LengthOf(sent, i) < x

\* The frames from x on that end by r.
Complete(sent, x, r) == {i \in Frames(sent) : x <= Start(sent, i) /\ LengthOf(sent, i) <= r}

\* What was found are the payloads of these frames, in order.
Delivers(sent, found, which) ==
  /\ Len(found) = Cardinality(which)
  /\ \A i \in which : found[Cardinality({j \in which : j <= i})] = sent[i].is

LEMMA FrameAlone ==
  ASSUME NEW payload \in Payload
  PROVE  LET frame == EncodeFrame(payload) IN
         /\ frame \in Seq(Byte) /\ Len(frame) = HeaderLength + Len(payload) /\ Len(payload) \in Nat
         /\ Whole(frame, 1) /\ EndAt(frame, 1) = Len(frame) + 1 /\ PayloadAt(frame, 1) = payload
  <1> DEFINE frame == EncodeFrame(payload)
             m == MagicLength
             length == Len(payload)
  <1>1. /\ payload \in Seq(Byte) /\ length \in 0 .. MaxMessageSize /\ length \in Nat
        /\ frame \in Seq(Byte) /\ Len(frame) = HeaderLength + length
        /\ \A i \in 1 .. m : frame[i] = Magic[i]
        /\ frame[m + 1] * Base + frame[m + 2] = length
        /\ \A i \in 1 .. length : frame[HeaderLength + i] = payload[i]
    BY FrameIs
  <1>2. Magic \in Seq(Byte) /\ Len(Magic) = m /\ m \in Nat \ {0} /\ HeaderLength = m + 2
    BY FrameAssumption, LengthsAreNumbers DEF MagicLength
  <1> HIDE DEF frame, length
  <1>3. MagicAt(frame, 1)
    <2>1. 1 + m - 1 = m
      BY <1>2
    <2>2. \A i \in 1 .. m : Magic[i] \in Byte /\ frame[i + 0] = Magic[i]
      <3>1. \A i \in 1 .. m : i + 0 = i /\ Magic[i] \in Byte
        BY <1>2
      <3> QED
        BY <1>1, <3>1
    <2>3. 1 + 0 = 1 /\ m + 0 = m /\ 1 \in Int /\ 0 \in Int /\ m \in Int
      BY <1>2
    <2>4. SubSeq(Magic, 1, m) = SubSeq(frame, 1 + 0, m + 0)
      BY <2>2, <2>3, SamePiece
    <2>5. SubSeq(Magic, 1, m) = Magic
      BY <1>2
    <2> QED
      BY <2>1, <2>3, <2>4, <2>5 DEF MagicAt
  <1>4. HeaderFits(frame, 1)
    BY <1>1, <1>2 DEF HeaderFits
  <1>5. LengthAt(frame, 1) = length
    <2>1. 1 + m = m + 1 /\ 1 + m + 1 = m + 2
      BY <1>2
    <2> QED
      BY <1>1, <2>1 DEF LengthAt
  <1>6. EndAt(frame, 1) = Len(frame) + 1 /\ EndAt(frame, 1) - 1 = HeaderLength + length
    BY <1>1, <1>2, <1>5 DEF EndAt
  <1>7. PayloadAt(frame, 1) = payload
    <2> DEFINE h == HeaderLength
    <2>1. /\ \A i \in 1 .. length : payload[i] \in Byte /\ frame[i + h] = payload[i]
      <3>1. \A i \in 1 .. length : payload[i] \in Byte /\ i + h = h + i
        BY <1>1, <1>2 DEF length
      <3> QED
        BY <1>1, <3>1
    <2>2. 1 \in Int /\ length \in Int /\ h \in Int /\ length + h = h + length
      BY <1>1, <1>2
    <2> HIDE DEF h
    <2>3. SubSeq(payload, 1, length) = SubSeq(frame, 1 + h, length + h)
      BY <2>1, <2>2, SamePiece
    <2>4. SubSeq(payload, 1, length) = payload
      BY <1>1 DEF length
    <2> QED
      BY <1>6, <2>2, <2>3, <2>4 DEF PayloadAt, h
  <1>8. Whole(frame, 1)
    <2>1. Len(frame) + 1 <= Len(frame) + 1
      BY <1>1
    <2> QED
      BY <1>1, <1>3, <1>4, <1>5, <1>6, <2>1 DEF Whole, HeaderAt
  <1> QED
    BY <1>1, <1>6, <1>7, <1>8 DEF frame, length

\* In the stream a frame is found where it begins.
LEMMA FrameInTheStream ==
  ASSUME NEW sent \in Seq(Item), NEW i \in Frames(sent)
  PROVE  /\ i \in 1 .. Len(sent) /\ sent[i].is \in Payload
         /\ Start(sent, i) \in Nat \ {0} /\ LengthOf(sent, i) \in Nat
         /\ Start(sent, i) + HeaderLength - 1 <= LengthOf(sent, i)
         /\ HeaderAt(Stream(sent), Start(sent, i))
         /\ EndAt(Stream(sent), Start(sent, i)) = LengthOf(sent, i) + 1
         /\ PayloadAt(Stream(sent), Start(sent, i)) = sent[i].is
  <1> DEFINE payload == sent[i].is
             frame == EncodeFrame(payload)
             d == LengthOf(sent, i - 1)
  <1>1. i \in 1 .. Len(sent) /\ sent[i] \in Item /\ sent[i].kind = "frame"
    BY PiecesAre DEF Frames
  <1>2. payload \in Payload /\ Bytes(sent[i]) = frame
    BY <1>1 DEF Item, Bytes
  <1>3. i - 1 \in 0 .. Len(sent) /\ i \in 0 .. Len(sent) /\ Len(sent) \in 0 .. Len(sent) /\ i <= Len(sent)
    BY <1>1, PiecesAre
  <1>4. /\ LengthOf(sent, i - 1) \in Nat /\ LengthOf(sent, i) \in Nat
        /\ LengthOf(sent, i) = LengthOf(sent, i - 1) + Len(frame)
        /\ LengthOf(sent, i) <= Len(Stream(sent))
        /\ Stream(sent) \in Seq(Byte)
        /\ \A k \in 1 .. Len(frame) : Stream(sent)[d + k] = frame[k]
    BY <1>1, <1>2, <1>3, ItemsInTheStream
  <1>5. /\ frame \in Seq(Byte) /\ Len(frame) = HeaderLength + Len(payload) /\ Len(payload) \in Nat
        /\ Whole(frame, 1) /\ EndAt(frame, 1) = Len(frame) + 1 /\ PayloadAt(frame, 1) = payload
    BY <1>2, FrameAlone
  <1> HIDE DEF payload, frame, d
  <1>6. d \in Nat /\ Start(sent, i) = 1 + d /\ Start(sent, i) \in Nat \ {0} /\ LengthOf(sent, i) = d + Len(frame)
    BY <1>4, <1>5 DEF Start, d
  <1>7. Part(Stream(sent), frame, d)
    <2>1. Len(frame) \in Nat /\ Len(frame) + d <= Len(Stream(sent))
      BY <1>4, <1>5, <1>6, LengthsAreNumbers
    <2>2. \A k \in 1 .. Len(frame) : Stream(sent)[k + d] = frame[k]
      <3>1. \A k \in 1 .. Len(frame) : k + d = d + k
        BY <1>6
      <3> QED
        BY <1>4, <3>1
    <2> QED
      BY <1>4, <1>5, <1>6, <2>1, <2>2 DEF Part
  <1>8. HeaderFits(frame, 1) /\ HeaderAt(frame, 1)
    BY <1>5 DEF Whole, HeaderAt
  <1>9. /\ EndAt(Stream(sent), 1 + d) = EndAt(frame, 1) + d
        /\ HeaderAt(Stream(sent), 1 + d) <=> HeaderAt(frame, 1)
        /\ PayloadAt(Stream(sent), 1 + d) = PayloadAt(frame, 1)
    BY <1>5, <1>7, <1>8, SameInPart
  <1>10. EndAt(frame, 1) + d = LengthOf(sent, i) + 1
    BY <1>5, <1>6, LengthsAreNumbers
  <1>11. Start(sent, i) + HeaderLength - 1 <= LengthOf(sent, i)
    BY <1>5, <1>6, LengthsAreNumbers
  <1>12. sent[i].is = payload
    BY DEF payload
  <1> QED
    BY <1>1, <1>2, <1>4, <1>5, <1>6, <1>8, <1>9, <1>10, <1>11, <1>12

\* A frame ends before the next begins.
LEMMA FramesInOrder ==
  ASSUME NEW sent \in Seq(Item), NEW i \in Frames(sent), NEW j \in Frames(sent)
  PROVE  /\ i < j => LengthOf(sent, i) < Start(sent, j)
         /\ LengthOf(sent, i) < Start(sent, j) => i < j
         /\ Outside(sent, LengthOf(sent, i) + 1)
  <1>1. ASSUME NEW k \in Frames(sent), NEW l \in Frames(sent), k < l
        PROVE  LengthOf(sent, k) < Start(sent, l)
    <2>1. k \in 0 .. Len(sent) /\ l - 1 \in 0 .. Len(sent) /\ k <= l - 1
      <3>1. k \in 1 .. Len(sent) /\ l \in 1 .. Len(sent) /\ Len(sent) \in Nat
        BY FrameInTheStream, PiecesAre
      <3> QED
        BY <1>1, <3>1
    <2>2. LengthOf(sent, k) <= LengthOf(sent, l - 1) /\ LengthOf(sent, k) \in Nat /\ LengthOf(sent, l - 1) \in Nat
      BY <2>1, ItemsInTheStream
    <2> QED
      BY <2>2 DEF Start
  <1>2. \A k \in Frames(sent) : /\ k \in 1 .. Len(sent)
                                /\ Start(sent, k) \in Nat \ {0} /\ LengthOf(sent, k) \in Nat
                                /\ Start(sent, k) < LengthOf(sent, k)
    <2> TAKE k \in Frames(sent)
    <2>1. /\ k \in 1 .. Len(sent) /\ Start(sent, k) \in Nat \ {0} /\ LengthOf(sent, k) \in Nat
          /\ Start(sent, k) + HeaderLength - 1 <= LengthOf(sent, k)
      BY FrameInTheStream
    <2> QED
      BY <2>1, LengthsAreNumbers
  <1>3. Len(sent) \in Nat
    BY PiecesAre
  <1>4. \A k, l \in Frames(sent) : k < l \/ k = l \/ l < k
    BY <1>2, <1>3
  <1>5. ASSUME LengthOf(sent, i) < Start(sent, j)
        PROVE  i < j
    <2>1. j < i => LengthOf(sent, j) < Start(sent, i)
      BY <1>1
    <2> QED
      BY <1>2, <1>4, <1>5, <2>1
  <1>6. Outside(sent, LengthOf(sent, i) + 1)
    <2> SUFFICES ASSUME NEW k \in Frames(sent)
                 PROVE  LengthOf(sent, i) + 1 <= Start(sent, k) \/ LengthOf(sent, k) < LengthOf(sent, i) + 1
      BY DEF Outside
    <2>1. i < k => LengthOf(sent, i) < Start(sent, k)
      BY <1>1
    <2>2. k < i => LengthOf(sent, k) < Start(sent, i)
      BY <1>1
    <2> QED
      BY <1>2, <1>4, <2>1, <2>2
  <1> QED
    BY <1>1, <1>5, <1>6

\* Outside the frames a header is where a frame begins.
LEMMA HeaderIsOfFrame ==
  ASSUME NEW sent \in SeqOf(Item, MaxItems), sent \in Seq(Item),
         NEW x \in 1 .. Len(Stream(sent)), Outside(sent, x), HeaderAt(Stream(sent), x)
  PROVE  \E i \in Frames(sent) : x = Start(sent, i)
  <1>1. PICK i \in DOMAIN sent : sent[i].kind = "frame" /\ x \in LengthOf(sent, i - 1) + 1 .. LengthOf(sent, i)
    BY NoiseAssumption
  <1>2. i \in Frames(sent) /\ x \in Start(sent, i) .. LengthOf(sent, i)
    BY <1>1 DEF Frames, Start
  <1>3. Start(sent, i) \in Nat /\ LengthOf(sent, i) \in Nat
    BY <1>2, FrameInTheStream
  <1>4. x <= Start(sent, i) \/ LengthOf(sent, i) < x
    BY <1>2 DEF Outside
  <1> QED
    BY <1>2, <1>3, <1>4

LEMMA DeliversBoth ==
  ASSUME NEW sent, NEW S, NEW f \in Seq(S), NEW g \in Seq(S), NEW n \in Nat,
         NEW V \in SUBSET (1 .. n), NEW W \in SUBSET (1 .. n),
         \A v \in V : \A w \in W : v < w,
         Delivers(sent, f, V), Delivers(sent, g, W)
  PROVE  Delivers(sent, f \o g, V \cup W)
  <1> DEFINE upTo(X, i) == {j \in X : j <= i}
             whole == V \cup W
             both == f \o g
  <1>1. /\ IsFiniteSet(1 .. n) /\ IsFiniteSet(V) /\ IsFiniteSet(W)
        /\ Cardinality(V) \in Nat /\ Cardinality(W) \in Nat
    <2>1. 1 \in Int /\ n \in Int
      OBVIOUS
    <2>2. IsFiniteSet(1 .. n)
      BY <2>1, FS_Interval
    <2> DEFINE all == 1 .. n
    <2>3. IsFiniteSet(all) /\ V \subseteq all /\ W \subseteq all
      BY <2>2
    <2> HIDE DEF all
    <2>4. IsFiniteSet(V) /\ IsFiniteSet(W)
      BY <2>3, FS_Subset
    <2> QED
      BY <2>2, <2>4, FS_CardinalityType
  <1>2. V \cap W = {}
    BY <1>1
  <1>3. Cardinality(whole) = Cardinality(V) + Cardinality(W)
    <2>1. Cardinality(whole) = Cardinality(V) + Cardinality(W) - Cardinality(V \cap W)
      BY <1>1, FS_Union
    <2>2. Cardinality(V \cap W) = 0
      BY <1>2, FS_EmptySet
    <2> QED
      BY <1>1, <2>1, <2>2
  <1>4. ASSUME NEW X \in SUBSET (1 .. n), NEW i \in X
        PROVE  /\ IsFiniteSet(upTo(X, i)) /\ Cardinality(upTo(X, i)) \in Nat \ {0}
               /\ Cardinality(upTo(X, i)) <= Cardinality(X)
    <2>1. i \in upTo(X, i) /\ upTo(X, i) \subseteq X
      OBVIOUS
    <2> HIDE DEF upTo
    <2>2. IsFiniteSet(X)
      BY <1>1, FS_Subset
    <2>3. /\ IsFiniteSet(upTo(X, i)) /\ Cardinality(upTo(X, i)) <= Cardinality(X)
          /\ Cardinality(upTo(X, i)) \in Nat
      BY <2>1, <2>2, FS_Subset, FS_CardinalityType
    <2>4. Cardinality(upTo(X, i)) # 0
      BY <2>1, <2>3, FS_EmptySet
    <2> QED
      BY <2>3, <2>4
  <1>5. /\ Len(f) = Cardinality(V) /\ \A i \in V : f[Cardinality(upTo(V, i))] = sent[i].is
        /\ Len(g) = Cardinality(W) /\ \A i \in W : g[Cardinality(upTo(W, i))] = sent[i].is
    BY DEF Delivers
  <1>6. /\ Len(both) = Len(f) + Len(g)
        /\ \A k \in 1 .. Len(f) + Len(g) : both[k] = IF k <= Len(f) THEN f[k] ELSE g[k - Len(f)]
    BY ConcatProperties
  <1> HIDE DEF both
  <1>7. ASSUME NEW i \in V
        PROVE  both[Cardinality(upTo(whole, i))] = sent[i].is
    <2>1. upTo(whole, i) = upTo(V, i)
      <3>1. \A w \in W : ~ (w <= i)
        BY <1>1
      <3> QED
        BY <3>1
    <2> DEFINE c == Cardinality(upTo(V, i))
    <2>2. c \in Nat \ {0} /\ c <= Cardinality(V) /\ f[c] = sent[i].is
      BY <1>4, <1>5
    <2> HIDE DEF c
    <2>3. c \in 1 .. Len(f) + Len(g) /\ c <= Len(f)
      BY <1>1, <1>5, <2>2
    <2>4. both[c] = f[c]
      BY <1>6, <2>3
    <2> HIDE DEF upTo, whole
    <2> QED
      BY <2>1, <2>2, <2>4 DEF c
  <1>8. ASSUME NEW i \in W
        PROVE  both[Cardinality(upTo(whole, i))] = sent[i].is
    <2> DEFINE mine == upTo(W, i)
               c == Cardinality(mine)
               e == Cardinality(upTo(whole, i))
    <2>1. upTo(whole, i) = V \cup mine /\ V \cap mine = {}
      <3>1. \A v \in V : v <= i
        BY <1>1
      <3> QED
        BY <1>2, <3>1
    <2>2. IsFiniteSet(mine) /\ c \in Nat \ {0} /\ c <= Cardinality(W) /\ g[c] = sent[i].is
      BY <1>4, <1>5
    <2> HIDE DEF mine, upTo, whole
    <2>3. Cardinality(V \cup mine) = Cardinality(V) + c - Cardinality(V \cap mine)
      BY <1>1, <2>2, FS_Union
    <2>4. e = Cardinality(V) + c
      <3>1. Cardinality(V \cap mine) = 0
        BY <2>1, FS_EmptySet
      <3>2. e = Cardinality(V \cup mine)
        BY <2>1
      <3> QED
        BY <1>1, <2>2, <2>3, <3>1, <3>2
    <2> HIDE DEF c, e
    <2>5. e \in 1 .. Len(f) + Len(g) /\ ~ (e <= Len(f)) /\ e - Len(f) = c
      BY <1>1, <1>5, <2>2, <2>4
    <2>6. both[e] = g[c]
      BY <1>6, <2>5
    <2> QED
      BY <2>2, <2>6 DEF e
  <1> QED
    BY <1>3, <1>5, <1>6, <1>7, <1>8 DEF Delivers, both

\* A scan of a part of the stream finds the frames that the part holds, and
\* stops behind them, in no other.
LEMMA ScanDelivers ==
  ASSUME NEW sent \in SeqOf(Item, MaxItems), sent \in Seq(Item),
         NEW data, NEW d, Part(Stream(sent), data, d)
  PROVE  \A p \in Places(data) :
           LET result == Scanning(data, ExtractStops(data))[p] IN
           Outside(sent, p + d) =>
             /\ Delivers(sent, result.found, Complete(sent, p + d, Len(data) + d))
             /\ result.found \in Seq(Payload)
             /\ Outside(sent, result.at + d)
             /\ \A i \in Frames(sent) : LengthOf(sent, i) <= Len(data) + d => LengthOf(sent, i) < result.at + d
  <1> DEFINE whole == Stream(sent)
             n == Len(data)
             last == n + 1
             r == n + d
             stops == ExtractStops(data)
             scan == Scanning(data, stops)
             Good(p, result) == /\ Delivers(sent, result.found, Complete(sent, p + d, r))
                                /\ result.found \in Seq(Payload)
                                /\ Outside(sent, result.at + d)
                                /\ \A i \in Frames(sent) : LengthOf(sent, i) <= r => LengthOf(sent, i) < result.at + d
             S == {p \in 1 .. last : Outside(sent, p + d) => Good(p, scan[p])}
  <1>1. /\ n \in Nat /\ d \in Nat /\ data \in Seq(Byte) /\ Places(data) = 1 .. last
        /\ last \in Nat /\ last \in stops /\ stops \in SUBSET Places(data) /\ Len(whole) \in Nat /\ r <= Len(whole)
    BY StopsArePlaces DEF Part, Places
  <1>2. \A p \in 1 .. last : scan[p] = LoopTurn(data, stops, scan, p)
    BY <1>1, ScanIsLoop
  <1>3. \A p \in 1 .. last : scan[p] \in [found : Seq(Seq(Byte)), at : stops]
    BY <1>1, ScanStops
  <1>4. \A i \in Frames(sent) :
          /\ i \in 1 .. Len(sent) /\ sent[i].is \in Payload
          /\ Start(sent, i) \in Nat \ {0} /\ LengthOf(sent, i) \in Nat
          /\ Start(sent, i) + HeaderLength - 1 <= LengthOf(sent, i)
          /\ HeaderAt(whole, Start(sent, i))
          /\ EndAt(whole, Start(sent, i)) = LengthOf(sent, i) + 1
          /\ PayloadAt(whole, Start(sent, i)) = sent[i].is
    BY FrameInTheStream
  <1>5. ASSUME NEW p \in 1 .. last, Outside(sent, p + d), HeaderFits(data, p), HeaderAt(data, p)
        PROVE  \E i \in Frames(sent) : p + d = Start(sent, i) /\ EndAt(data, p) + d = LengthOf(sent, i) + 1
    <2> DEFINE x == p + d
    <2>1. HeaderAt(whole, x) /\ EndAt(whole, x) = EndAt(data, p) + d
      BY <1>5, SameInPart
    <2>2. x \in 1 .. Len(whole)
      BY <1>1, <1>5, LengthsAreNumbers DEF HeaderFits
    <2> HIDE DEF x
    <2>3. PICK i \in Frames(sent) : x = Start(sent, i)
      BY <1>5, <2>1, <2>2, HeaderIsOfFrame DEF x
    <2> QED
      BY <1>4, <2>1, <2>3 DEF x
  <1>6. ASSUME NEW p \in 1 .. last, NEW i \in Frames(sent), p + d = Start(sent, i), HeaderFits(data, p)
        PROVE  HeaderAt(data, p) /\ EndAt(data, p) + d = LengthOf(sent, i) + 1
    BY <1>4, <1>6, SameInPart
  <1> HIDE DEF scan, stops, n, last, r
  <1>7. ASSUME NEW p \in 1 .. last, \A q \in 1 .. last : p < q => q \in S, Outside(sent, p + d)
        PROVE  Good(p, scan[p])
    <2>1. CASE p \in stops
      <3>1. scan[p] = [found |-> <<>>, at |-> p]
        BY <1>2, <2>1 DEF LoopTurn, StopAt
      <3>2. ASSUME NEW i \in Frames(sent), p + d <= Start(sent, i)
            PROVE  ~ (LengthOf(sent, i) <= r)
        <4>1. CASE ~HeaderFits(data, p)
          BY <1>1, <1>4, <3>2, <4>1, LengthsAreNumbers DEF HeaderFits, n, r
        <4>2. CASE HeaderFits(data, p)
          <5>1. p + MagicLength - 1 <= n
            BY <1>1, <4>2, LengthsAreNumbers DEF HeaderFits, n
          <5>2. Incomplete(data, p)
            BY <1>1, <2>1, <5>1, LengthsAreNumbers DEF stops, ExtractStops, n
          <5>3. HeaderAt(data, p) /\ EndAt(data, p) > n + 1
            BY <4>2, <5>2 DEF HeaderAt, Incomplete, n
          <5>4. PICK j \in Frames(sent) : p + d = Start(sent, j) /\ EndAt(data, p) + d = LengthOf(sent, j) + 1
            BY <1>5, <1>7, <4>2, <5>3
          <5>5. EndAt(data, p) \in Nat
            BY <1>1, <4>2, HeaderIsNumbers
          <5>6. LengthOf(sent, j) > r
            <6> DEFINE e == EndAt(data, p)
                       l == LengthOf(sent, j)
            <6>1. e \in Nat /\ e > n + 1 /\ e + d = l + 1 /\ l \in Nat
              BY <1>4, <5>3, <5>4, <5>5
            <6> HIDE DEF e, l
            <6>2. l > n + d
              BY <1>1, <6>1
            <6> QED
              BY <6>2 DEF l, r
          <5>7. i = j \/ LengthOf(sent, j) < Start(sent, i) \/ LengthOf(sent, i) < Start(sent, j)
            <6>1. i < j \/ i = j \/ j < i
              <7>1. i \in Nat /\ j \in Nat
                <8>1. i \in 1 .. Len(sent) /\ j \in 1 .. Len(sent) /\ Len(sent) \in Nat
                  BY <1>4, PiecesAre
                <8> QED
                  BY <8>1
              <7> QED
                BY <7>1
            <6> QED
              BY <6>1, FramesInOrder
          <5>8. CASE i = j
            <6> DEFINE l == LengthOf(sent, j)
            <6>1. l \in Nat /\ r \in Nat /\ l > r
              BY <1>1, <1>4, <5>6 DEF r
            <6> HIDE DEF l
            <6>2. ~ (l <= r)
              BY <6>1
            <6> QED
              BY <5>8, <6>2 DEF l
          <5>9. CASE LengthOf(sent, j) < Start(sent, i)
            <6> DEFINE l == LengthOf(sent, j)
                       x == Start(sent, i)
                       e == LengthOf(sent, i)
            <6>1. /\ l \in Nat /\ r \in Nat /\ l > r /\ l < x /\ x \in Nat /\ e \in Nat
                  /\ x + HeaderLength - 1 <= e
              BY <1>1, <1>4, <5>6, <5>9 DEF r
            <6> HIDE DEF l, x, e
            <6>2. ~ (e <= r)
              BY <6>1, LengthsAreNumbers
            <6> QED
              BY <6>2 DEF e
          <5>10. CASE LengthOf(sent, i) < Start(sent, j)
            <6> DEFINE x == Start(sent, i)
                       y == Start(sent, j)
                       e == LengthOf(sent, i)
            <6>1. /\ x \in Nat /\ y \in Nat /\ e \in Nat /\ x + HeaderLength - 1 <= e
                  /\ p + d <= x /\ p + d = y /\ e < y
              BY <1>4, <3>2, <5>4, <5>10
            <6> HIDE DEF x, y, e
            <6> QED
              BY <6>1, LengthsAreNumbers
          <5> QED
            BY <5>7, <5>8, <5>9, <5>10
        <4> QED
          BY <4>1, <4>2
      <3>3. Complete(sent, p + d, r) = {}
        BY <3>2 DEF Complete
      <3>4. Delivers(sent, <<>>, Complete(sent, p + d, r))
        <4>1. Cardinality({}) = 0 /\ Len(<<>>) = 0
          BY FS_EmptySet
        <4> QED
          BY <3>3, <4>1 DEF Delivers
      <3>5. <<>> \in Seq(Payload)
        OBVIOUS
      <3>6. ASSUME NEW i \in Frames(sent), LengthOf(sent, i) <= r
            PROVE  LengthOf(sent, i) < p + d
        BY <1>7, <3>2, <3>6 DEF Outside
      <3>7. scan[p].found = <<>> /\ scan[p].at = p
        BY <3>1
      <3> QED
        BY <1>7, <3>4, <3>5, <3>6, <3>7
    <2>2. CASE p \notin stops /\ Whole(data, p)
      <3> DEFINE q == EndAt(data, p)
                 payload == PayloadAt(data, p)
      <3>1. q \in 1 .. last /\ p < q /\ q <= n + 1
        BY <1>1, <2>2, TurnGoesOn DEF last, n
      <3>2. HeaderFits(data, p) /\ HeaderAt(data, p)
        BY <2>2 DEF Whole, HeaderAt
      <3>3. PICK i \in Frames(sent) : p + d = Start(sent, i) /\ q + d = LengthOf(sent, i) + 1
        BY <1>5, <1>7, <3>2
      <3>4. payload = sent[i].is /\ payload \in Payload
        <4>1. PayloadAt(whole, p + d) = PayloadAt(data, p)
          BY <2>2, SameInPart
        <4> QED
          BY <1>4, <3>3, <4>1
      <3>5. scan[p] = [scan[q] EXCEPT !.found = <<payload>> \o @]
        BY <1>2, <2>2 DEF LoopTurn, After
      <3> HIDE DEF q, payload
      <3>6. Outside(sent, q + d)
        BY <3>3, FramesInOrder
      <3>7. Good(q, scan[q])
        BY <1>7, <3>1, <3>6
      <3>8. scan[p].found = <<payload>> \o scan[q].found /\ scan[p].at = scan[q].at
        <4>1. scan[q] \in [found : Seq(Seq(Byte)), at : stops]
          BY <1>3, <3>1
        <4> QED
          BY <3>5, <4>1
      <3> DEFINE V == {i}
                 W == Complete(sent, q + d, r)
                 f == <<payload>>
                 g == scan[q].found
      <3>9. Complete(sent, p + d, r) = V \cup W
        <4>1. ASSUME NEW k \in Frames(sent), LengthOf(sent, k) <= r
              PROVE  p + d <= Start(sent, k) <=> k = i \/ q + d <= Start(sent, k)
          <5>1. k < i \/ k = i \/ i < k
            <6>1. i \in 1 .. Len(sent) /\ k \in 1 .. Len(sent) /\ Len(sent) \in Nat
              BY <1>4, PiecesAre
            <6> QED
              BY <6>1
          <5>2. /\ k < i => LengthOf(sent, k) < Start(sent, i)
                /\ i < k => LengthOf(sent, i) < Start(sent, k)
            BY FramesInOrder
          <5>3. p \in Nat /\ q \in Nat
            BY <1>1, <3>1
          <5>4. /\ Start(sent, k) \in Nat /\ LengthOf(sent, k) \in Nat /\ Start(sent, k) < LengthOf(sent, k)
                /\ Start(sent, i) \in Nat /\ LengthOf(sent, i) \in Nat /\ Start(sent, i) < LengthOf(sent, i)
            BY <1>4, LengthsAreNumbers
          <5> QED
            BY <1>1, <3>3, <5>1, <5>2, <5>3, <5>4
        <4>2. LengthOf(sent, i) <= r /\ p + d <= Start(sent, i)
          BY <1>1, <1>4, <3>1, <3>3 DEF r
        <4> QED
          BY <4>1, <4>2 DEF Complete
      <3>10. V \in SUBSET (1 .. Len(sent)) /\ W \in SUBSET (1 .. Len(sent)) /\ Len(sent) \in Nat
        BY <1>4, PiecesAre DEF Complete
      <3>11. ASSUME NEW w \in W
             PROVE  i < w
        <4>1. w \in Frames(sent) /\ q + d <= Start(sent, w)
          BY DEF Complete
        <4>2. LengthOf(sent, i) < Start(sent, w)
          BY <1>4, <3>3, <4>1
        <4> QED
          BY <4>1, <4>2, FramesInOrder
      <3>12. Delivers(sent, f, V)
        <4>1. Cardinality(V) = 1 /\ {j \in V : j <= i} = V
          <5>1. i <= i
            BY <3>10
          <5> QED
            BY <5>1, FS_Singleton
        <4>2. Len(f) = 1 /\ f[1] = payload
          OBVIOUS
        <4> QED
          BY <3>4, <4>1, <4>2 DEF Delivers
      <3>13. f \in Seq(Payload) /\ g \in Seq(Payload)
        BY <3>4, <3>7
      <3>14. Delivers(sent, g, W)
        BY <3>7
      <3> HIDE DEF f, g, W
      <3>15. \A v \in V : \A w \in W : v < w
        BY <3>11
      <3> HIDE DEF V
      <3>16. Delivers(sent, f \o g, V \cup W)
        BY <3>10, <3>12, <3>13, <3>14, <3>15, DeliversBoth
      <3>17. f \o g \in Seq(Payload)
        BY <3>13, ConcatProperties
      <3>18. scan[p].found = f \o g
        BY <3>8 DEF f, g
      <3> QED
        BY <3>7, <3>8, <3>9, <3>16, <3>17, <3>18
    <2>3. CASE p \notin stops /\ ~Whole(data, p)
      <3> DEFINE q == p + 1
      <3>1. q \in 1 .. last /\ p < q /\ p <= n
        BY <1>1, <2>3, TurnGoesOn DEF last, n
      <3>2. scan[p] = scan[q]
        BY <1>2, <2>3 DEF LoopTurn
      <3>3. ASSUME NEW i \in Frames(sent)
            PROVE  p + d # Start(sent, i)
        <4> SUFFICES ASSUME p + d = Start(sent, i) PROVE FALSE
          OBVIOUS
        <4>1. p + MagicLength - 1 <= Len(data) /\ ~Incomplete(data, p)
          BY <1>1, <2>3, <3>1, LengthsAreNumbers DEF stops, ExtractStops, n
        <4>2. MagicAt(whole, p + d)
          <5>1. HeaderAt(whole, p + d)
            BY <1>4
          <5> QED
            BY <5>1 DEF HeaderAt
        <4>3. MagicAt(data, p)
          BY <4>1, <4>2, SameInPart
        <4>4. HeaderFits(data, p)
          BY <4>1, <4>3 DEF Incomplete
        <4>5. HeaderAt(data, p) /\ EndAt(data, p) \in Nat
          BY <1>1, <1>6, <4>4, HeaderIsNumbers
        <4>6. EndAt(data, p) > Len(data) + 1
          BY <1>1, <2>3, <4>5 DEF Whole, n
        <4> QED
          BY <4>1, <4>5, <4>6 DEF Incomplete, HeaderAt
      <3>4. p \in Nat /\ q + d = p + d + 1
        BY <1>1
      <3>5. ASSUME NEW i \in Frames(sent)
            PROVE  p + d <= Start(sent, i) <=> q + d <= Start(sent, i)
        <4>1. p + d # Start(sent, i)
          BY <3>3
        <4>2. Start(sent, i) \in Nat /\ p + d \in Nat
          BY <1>1, <1>4, <3>4
        <4> QED
          BY <3>4, <4>1, <4>2
      <3>6. Outside(sent, q + d)
        <4> SUFFICES ASSUME NEW i \in Frames(sent)
                     PROVE  q + d <= Start(sent, i) \/ LengthOf(sent, i) < q + d
          BY DEF Outside
        <4>1. p + d <= Start(sent, i) \/ LengthOf(sent, i) < p + d
          BY <1>7 DEF Outside
        <4> QED
          BY <1>1, <1>4, <3>4, <3>5, <4>1
      <3>7. Complete(sent, p + d, r) = Complete(sent, q + d, r)
        BY <3>5 DEF Complete
      <3> HIDE DEF q
      <3>8. Good(q, scan[q])
        BY <1>7, <3>1, <3>6
      <3> QED
        BY <3>2, <3>7, <3>8
    <2> QED
      BY <2>1, <2>2, <2>3
  <1>8. \A p \in 1 .. last : p \in S
    <2>1. ASSUME NEW p \in 1 .. last, \A q \in 1 .. last : p < q => q \in S
          PROVE  p \in S
      BY <1>7, <2>1
    <2> HIDE DEF S
    <2> QED
      BY <1>1, <2>1, FromTheEnd
  <1> QED
    BY <1>1, <1>8 DEF scan, stops, r, n

-----------------------------------------------------------------------------
(* What is kept of a buffer, and what is added to it *)

LEMMA RestIs ==
  ASSUME NEW data \in Seq(Byte), NEW p \in Places(data)
  PROVE  LET rest == SubSeq(data, p, Len(data)) IN
         /\ rest \in Seq(Byte) /\ Len(rest) = Len(data) + 1 - p
         /\ Behind(data, rest, p - 1)
  <1> DEFINE n == Len(data)
             rest == SubSeq(data, p, n)
  <1>1. n \in Nat /\ p \in 1 .. n + 1 /\ \A i \in 1 .. n : data[i] \in Byte
    BY DEF Places
  <1> HIDE DEF n
  <1>2. /\ rest \in Seq(Byte) /\ Len(rest) = (IF p <= n THEN n - p + 1 ELSE 0)
        /\ \A i \in 1 .. n - p + 1 : rest[i] = data[p + i - 1]
    <2>1. \A i \in p .. n : data[i] \in Byte
      BY <1>1
    <2>2. p \in Int /\ n \in Int
      BY <1>1
    <2> QED
      BY <2>1, <2>2, SubSeqProperties
  <1> HIDE DEF rest
  <1>3. Len(rest) = n + 1 - p
    BY <1>1, <1>2
  <1>4. ASSUME NEW i \in 1 .. Len(rest)
        PROVE  data[i + (p - 1)] = rest[i]
    <2>1. i \in 1 .. n - p + 1 /\ i + (p - 1) = p + i - 1
      BY <1>1, <1>3
    <2> QED
      BY <1>2, <2>1
  <1>5. p - 1 \in Nat /\ Len(data) = Len(rest) + (p - 1)
    BY <1>1, <1>3 DEF n
  <1>6. Len(rest) + (p - 1) <= Len(data)
    BY <1>1, <1>3 DEF n
  <1>7. Behind(data, rest, p - 1)
    BY <1>2, <1>4, <1>5, <1>6 DEF Behind, Part
  <1> QED
    BY <1>2, <1>3, <1>7 DEF n, rest

LEMMA MoreIsBehind ==
  ASSUME NEW flat, NEW data, NEW d, Behind(flat, data, d), NEW piece \in Seq(Byte),
         \A i \in 1 .. d : Idle(flat, i)
  PROVE  /\ Behind(flat \o piece, data \o piece, d)
         /\ \A i \in 1 .. d : Idle(flat \o piece, i)
  <1> DEFINE m == Len(flat)
             n == Len(data)
             k == Len(piece)
             f == flat \o piece
             g == data \o piece
  <1>1. /\ n \in Nat /\ d \in Nat /\ m = n + d /\ m \in Nat /\ k \in Nat
        /\ data \in Seq(Byte) /\ flat \in Seq(Byte) /\ \A i \in 1 .. n : flat[i + d] = data[i]
        /\ \A i \in 1 .. m : flat[i] \in Byte
    BY DEF Behind, Part
  <1>2. /\ f \in Seq(Byte) /\ Len(f) = m + k
        /\ \A i \in 1 .. m + k : f[i] = IF i <= m THEN flat[i] ELSE piece[i - m]
    BY <1>1, ConcatProperties
  <1>3. /\ g \in Seq(Byte) /\ Len(g) = n + k
        /\ \A i \in 1 .. n + k : g[i] = IF i <= n THEN data[i] ELSE piece[i - n]
    BY <1>1, ConcatProperties
  <1> HIDE DEF m, n, k, f, g
  <1>4. ASSUME NEW i \in 1 .. n + k
        PROVE  f[i + d] = g[i]
    <2> DEFINE j == i + d
    <2>1. j \in 1 .. m + k /\ (j <= m <=> i <= n) /\ j - m = i - n /\ (i <= n => i \in 1 .. n)
      BY <1>1
    <2>2. i <= n => flat[j] = data[i]
      BY <1>1, <2>1
    <2> HIDE DEF j
    <2> QED
      BY <1>2, <1>3, <2>1, <2>2 DEF j
  <1>5. ASSUME NEW i \in 1 .. d
        PROVE  Idle(f, i)
    <2> DEFINE end == i + MagicLength - 1
    <2>1. end \in Int /\ end <= m /\ SubSeq(flat, i, end) # Magic
      <3>1. Idle(flat, i)
        OBVIOUS
      <3>2. end \in Int
        BY <1>1, LengthsAreNumbers
      <3> QED
        BY <3>1, <3>2 DEF Idle, MagicAt, m
    <2> HIDE DEF end
    <2>2. i \in Int /\ 0 \in Int /\ i + 0 = i /\ end + 0 = end
      BY <1>1, <2>1
    <2>3. \A j \in i .. end : flat[j] \in Byte /\ f[j + 0] = flat[j]
      <3>1. \A j \in i .. end : j \in 1 .. m /\ j \in 1 .. m + k /\ j + 0 = j /\ j <= m
        BY <1>1, <2>1, SMTT(30)
      <3> QED
        BY <1>1, <1>2, <3>1
    <2>4. SubSeq(flat, i, end) = SubSeq(f, i, end)
      BY <2>1, <2>2, <2>3, SamePiece
    <2>5. end <= Len(f)
      BY <1>1, <1>2, <2>1
    <2> QED
      BY <2>1, <2>4, <2>5 DEF Idle, MagicAt, end
  <1>6. Len(f) = Len(g) + d /\ Len(g) + d <= Len(f)
    BY <1>1, <1>2, <1>3
  <1>7. Behind(f, g, d)
    BY <1>1, <1>2, <1>3, <1>4, <1>6 DEF Behind, Part
  <1> QED
    BY <1>5, <1>7 DEF f, g

LEMMA RestIsBehind ==
  ASSUME NEW flat, NEW data, NEW d, Behind(flat, data, d),
         NEW p \in Places(data), NEW q \in Places(flat), q <= p + d,
         \A i \in Places(flat) : q <= i /\ i < p + d => Idle(flat, i)
  PROVE  LET kept == SubSeq(flat, q, Len(flat))
             rest == SubSeq(data, p, Len(data))
         IN  /\ Behind(kept, rest, p + d - q)
             /\ \A i \in 1 .. p + d - q : Idle(kept, i)
  <1> DEFINE m == Len(flat)
             n == Len(data)
             kept == SubSeq(flat, q, m)
             rest == SubSeq(data, p, n)
             more == p + d - q
  <1>1. /\ n \in Nat /\ d \in Nat /\ m = n + d /\ m \in Nat
        /\ data \in Seq(Byte) /\ flat \in Seq(Byte) /\ \A i \in 1 .. n : flat[i + d] = data[i]
        /\ p \in 1 .. n + 1 /\ q \in 1 .. m + 1 /\ more \in Nat
    BY DEF Behind, Part, Places
  <1>2. kept \in Seq(Byte) /\ Len(kept) = m + 1 - q /\ Behind(flat, kept, q - 1)
    BY <1>1, RestIs
  <1>3. rest \in Seq(Byte) /\ Len(rest) = n + 1 - p /\ Behind(data, rest, p - 1)
    BY <1>1, RestIs
  <1> HIDE DEF kept, rest, m, n
  <1>4. ASSUME NEW i \in 1 .. Len(rest)
        PROVE  kept[i + more] = rest[i]
    <2> DEFINE j == i + (p - 1)
               k == i + more
    <2>1. j \in 1 .. n /\ k \in 1 .. Len(kept) /\ k + (q - 1) = j + d
      BY <1>1, <1>2, <1>3
    <2>2. data[j] = rest[i]
      BY <1>3 DEF Behind, Part
    <2> HIDE DEF j, k
    <2>3. flat[k + (q - 1)] = kept[k] /\ flat[j + d] = data[j]
      BY <1>1, <1>2, <2>1 DEF Behind, Part
    <2> QED
      BY <2>1, <2>2, <2>3 DEF k
  <1>5. ASSUME NEW i \in 1 .. more
        PROVE  Idle(kept, i)
    <2> DEFINE j == i + (q - 1)
    <2>1. j \in Places(flat) /\ q <= j /\ j < p + d /\ i \in Nat \ {0} /\ i <= more
      <3>1. i \in Nat \ {0} /\ i <= more
        BY <1>1
      <3>2. /\ p \in Nat /\ q \in Nat /\ 1 <= q /\ p <= n + 1 /\ more + q = p + d /\ more \in Nat
            /\ n \in Nat /\ d \in Nat /\ m = n + d
        BY <1>1
      <3> HIDE DEF more
      <3>3. j \in 1 .. m + 1 /\ q <= j /\ j < p + d
        BY <3>1, <3>2
      <3> QED
        BY <3>1, <3>3 DEF Places, m
    <2>2. Idle(flat, j)
      BY <2>1
    <2>3. i + MagicLength - 1 <= Len(kept) /\ ~MagicAt(flat, j)
      BY <1>1, <1>2, <2>1, <2>2, LengthsAreNumbers DEF Idle, m
    <2>4. MagicAt(flat, j) <=> MagicAt(kept, i)
      BY <1>2, <2>1, <2>3, SamePlace
    <2> QED
      BY <2>3, <2>4 DEF Idle
  <1>6. Len(kept) = Len(rest) + more
    BY <1>1, <1>2, <1>3
  <1>7. Behind(kept, rest, more)
    <2>1. \A i \in 1 .. Len(rest) : kept[i + more] = rest[i]
      BY <1>4
    <2>2. more \in Nat
      BY <1>1
    <2> HIDE DEF more
    <2>3. Len(rest) + more = Len(kept) /\ Len(rest) + more <= Len(kept)
      <3>1. Len(kept) \in Nat /\ Len(kept) = Len(rest) + more
        BY <1>2, <1>6
      <3> QED
        BY <3>1
    <2>4. kept \in Seq(Byte) /\ rest \in Seq(Byte)
      BY <1>2, <1>3
    <2> QED
      BY <2>1, <2>2, <2>3, <2>4 DEF Behind, Part
  <1> QED
    BY <1>2, <1>3, <1>5, <1>7 DEF kept, rest, m, n

\* What a scanner keeps is less than a frame.
LEMMA LittleIsKept ==
  ASSUME NEW data \in Seq(Byte), NEW p \in ExtractStops(data) \cup DecodeStops(data)
  PROVE  /\ SubSeq(data, p, Len(data)) \in Seq(Byte)
         /\ Len(SubSeq(data, p, Len(data))) < HeaderLength + MaxMessageSize
  <1>1. p \in Places(data) /\ Len(data) \in Nat /\ p \in Nat
    BY StopsArePlaces DEF Places
  <1>2. SubSeq(data, p, Len(data)) \in Seq(Byte) /\ Len(SubSeq(data, p, Len(data))) = Len(data) + 1 - p
    BY <1>1, RestIs
  <1>3. CASE ~HeaderFits(data, p)
    BY <1>1, <1>2, <1>3, LengthsAreNumbers DEF HeaderFits
  <1>4. CASE HeaderFits(data, p)
    <2>1. LengthAt(data, p) \in Nat /\ EndAt(data, p) = p + HeaderLength + LengthAt(data, p)
      BY <1>1, <1>4, HeaderIsNumbers DEF Places
    <2>2. p + MagicLength - 1 <= Len(data)
      BY <1>1, <1>4, LengthsAreNumbers DEF HeaderFits
    <2>3. LengthAt(data, p) <= MaxMessageSize /\ EndAt(data, p) > Len(data) + 1
      BY <1>1, <1>4, <2>2, LengthsAreNumbers DEF ExtractStops, DecodeStops, Incomplete
    <2> QED
      BY <1>1, <1>2, <2>1, <2>3, LengthsAreNumbers
  <1> QED
    BY <1>3, <1>4

-----------------------------------------------------------------------------
\* The one buffer has what the other has, and before it only what is looked at
\* in vain: what the zero-copy codec keeps although no magic is there.
FramesInv ==
  /\ arriving \in Seq(Byte)
  /\ messages \in Seq(Seq(Byte)) /\ dispatched = messages
  /\ Behind(flatBuffer, readBuffer, Len(flatBuffer) - Len(readBuffer))
  /\ \A i \in 1 .. Len(flatBuffer) - Len(readBuffer) : Idle(flatBuffer, i)
  /\ LittleWaits

LEMMA ItemsAreSeq ==
  ASSUME NEW sent \in SeqOf(Item, MaxItems)
  PROVE  sent \in Seq(Item)
  <1>1. PICK m \in 0 .. MaxItems : sent \in [1 .. m -> Item]
    BY DEF SeqOf
  <1>2. m \in Nat
    BY FrameAssumption
  <1> QED
    BY <1>1, <1>2

LEMMA FramesStart == StreamInit => FramesInv
  <1> SUFFICES ASSUME StreamInit PROVE FramesInv
    OBVIOUS
  <1>1. arriving \in Seq(Byte)
    BY ItemsAreSeq, ItemsInTheStream DEF StreamInit
  <1>2. /\ readBuffer = <<>> /\ messages = <<>> /\ flatBuffer = <<>> /\ dispatched = <<>>
        /\ <<>> \in Seq(Byte) /\ Len(<<>>) = 0 /\ <<>> \in Seq(Seq(Byte))
    BY DEF StreamInit
  <1>3. Len(flatBuffer) - Len(readBuffer) = 0 /\ 1 .. 0 = {} /\ 0 \in Nat
    BY <1>2
  <1>4. Behind(flatBuffer, readBuffer, 0)
    BY <1>2 DEF Behind, Part
  <1>5. LittleWaits
    BY <1>2, LengthsAreNumbers DEF LittleWaits
  <1> QED
    BY <1>1, <1>2, <1>3, <1>4, <1>5 DEF FramesInv

LEMMA FramesStep == FramesInv /\ [StreamNext]_streamVars => FramesInv'
  <1> SUFFICES ASSUME FramesInv, [StreamNext]_streamVars PROVE FramesInv'
    OBVIOUS
  <1>1. CASE UNCHANGED streamVars
    BY <1>1 DEF streamVars, FramesInv, LittleWaits
  <1>2. ASSUME NEW n \in 1 .. MaxRead, Read(n)
        PROVE  FramesInv'
    <2> DEFINE d == Len(flatBuffer) - Len(readBuffer)
               piece == SubSeq(arriving, 1, n)
               data == readBuffer \o piece
               flat == flatBuffer \o piece
               p == ExtractFrames(data).at
               q == Decode(flat).at
               rest == SubSeq(data, p, Len(data))
               kept == SubSeq(flat, q, Len(flat))
    <2>1. /\ n \in 1 .. Len(arriving) /\ arriving \in Seq(Byte)
          /\ Behind(flatBuffer, readBuffer, d) /\ \A i \in 1 .. d : Idle(flatBuffer, i)
      BY <1>2 DEF Read, FramesInv
    <2>2. piece \in Seq(Byte) /\ arriving' \in Seq(Byte)
      BY <1>2, <2>1, PieceIsSeq DEF Read
    <2>3. /\ readBuffer' = rest /\ flatBuffer' = kept
          /\ messages' = messages \o ExtractFrames(data).found
          /\ dispatched' = dispatched \o Decode(flat).found
      BY <1>2 DEF Read, Receive, ReceiveZeroCopy
    <2> HIDE DEF d, piece
    <2>4. Behind(flat, data, d) /\ \A i \in 1 .. d : Idle(flat, i)
      BY <2>1, <2>2, MoreIsBehind
    <2> HIDE DEF data, flat
    <2>5. data \in Seq(Byte) /\ flat \in Seq(Byte) /\ d \in Nat /\ Len(flat) = Len(data) + d
      BY <2>4 DEF Behind, Part
    <2>6. /\ 1 \in Places(data) /\ 1 \in Places(flat)
          /\ ExtractStops(data) \in SUBSET Places(data) /\ Len(data) + 1 \in ExtractStops(data)
          /\ DecodeStops(flat) \in SUBSET Places(flat) /\ Len(flat) + 1 \in DecodeStops(flat)
      BY <2>5, StopsArePlaces DEF Places
    <2>7. ExtractFrames(data) \in [found : Seq(Seq(Byte)), at : ExtractStops(data)]
      BY <2>5, <2>6, ScanStops DEF ExtractFrames
    <2>8. Decode(flat) \in [found : Seq(Seq(Byte)), at : DecodeStops(flat)]
      BY <2>5, <2>6, ScanStops DEF Decode
    <2>9. /\ Decode(flat).found = ExtractFrames(data).found /\ q <= p + d
          /\ \A i \in Places(flat) : q <= i /\ i < p + d => Idle(flat, i)
      BY <2>4, ScannersAgree
    <2>10. messages' \in Seq(Seq(Byte)) /\ dispatched' = messages'
      <3>1. messages \in Seq(Seq(Byte)) /\ dispatched = messages /\ ExtractFrames(data).found \in Seq(Seq(Byte))
        BY <2>7 DEF FramesInv
      <3> QED
        BY <2>3, <2>9, <3>1, ConcatProperties
    <2>11. p \in ExtractStops(data) /\ q \in DecodeStops(flat) /\ p \in Places(data) /\ q \in Places(flat)
      BY <2>6, <2>7, <2>8
    <2> HIDE DEF p, q
    <2>12. Behind(kept, rest, p + d - q) /\ \A i \in 1 .. p + d - q : Idle(kept, i)
      BY <2>4, <2>9, <2>11, RestIsBehind
    <2>13. /\ Len(rest) < HeaderLength + MaxMessageSize /\ Len(kept) < HeaderLength + MaxMessageSize
           /\ rest \in Seq(Byte) /\ kept \in Seq(Byte)
      BY <2>5, <2>11, LittleIsKept
    <2> HIDE DEF rest, kept
    <2>14. Len(kept) - Len(rest) = p + d - q
      <3>1. Len(kept) = Len(rest) + (p + d - q) /\ p + d - q \in Nat /\ Len(rest) \in Nat
        BY <2>12, <2>13 DEF Behind, Part
      <3> HIDE DEF d
      <3> QED
        BY <3>1
    <2>15. LittleWaits'
      BY <2>3, <2>13 DEF LittleWaits
    <2> QED
      BY <2>2, <2>3, <2>10, <2>12, <2>14, <2>15 DEF FramesInv
  <1> QED
    BY <1>1, <1>2 DEF StreamNext

\* Whatever is sent, and however the stream is cut, the zero-copy codec delivers
\* what the codec in use delivers, in the same reads.
THEOREM CodecsAgreeAlways == StreamSpec => []CodecsAgree
  <1>1. FramesInv => CodecsAgree
    BY DEF FramesInv, CodecsAgree
  <1> QED
    BY <1>1, FramesStart, FramesStep, PTL DEF StreamSpec

\* No buffer grows to a frame's length between two reads, however much noise comes.
THEOREM LittleWaitsAlways == StreamSpec => []LittleWaits
  <1>1. FramesInv => LittleWaits
    BY DEF FramesInv
  <1> QED
    BY <1>1, FramesStart, FramesStep, PTL DEF StreamSpec

\* The read buffer is where the stream stands, behind every frame that has ended
\* and in no other, and the payloads of those have been delivered.
DeliveryInv ==
  LET read == Len(Stream(items)) - Len(arriving)
      before == read - Len(readBuffer)
  IN  /\ items \in SeqOf(Item, MaxItems)
      /\ Behind(Stream(items), arriving, read)
      /\ Part(Stream(items), readBuffer, before)
      /\ Outside(items, before + 1)
      /\ \A i \in Frames(items) : LengthOf(items, i) <= read => LengthOf(items, i) <= before
      /\ messages \in Seq(Payload)
      /\ Delivers(items, messages, WhollyRead)

\* A frame whose last byte has been read.
LEMMA WhollyReadIs ==
  ASSUME NEW sent \in Seq(Item), NEW left \in Nat
  PROVE  {i \in DOMAIN sent : sent[i].kind = "frame" /\ LengthOf(sent, i) + left <= Len(Stream(sent))}
           = {i \in Frames(sent) : LengthOf(sent, i) <= Len(Stream(sent)) - left}
  <1>1. Len(Stream(sent)) \in Nat /\ \A i \in DOMAIN sent : LengthOf(sent, i) \in Nat
    <2>1. \A i \in DOMAIN sent : i \in 0 .. Len(sent)
      OBVIOUS
    <2>2. Stream(sent) \in Seq(Byte)
      BY ItemsInTheStream
    <2> QED
      BY <2>1, <2>2, ItemsInTheStream
  <1> QED
    BY <1>1 DEF Frames

LEMMA DeliveryStart == StreamInit => DeliveryInv
  <1> SUFFICES ASSUME StreamInit PROVE DeliveryInv
    OBVIOUS
  <1> DEFINE whole == Stream(items)
  <1>1. items \in SeqOf(Item, MaxItems) /\ items \in Seq(Item)
    BY ItemsAreSeq DEF StreamInit
  <1>2. whole \in Seq(Byte) /\ Len(whole) \in Nat
    BY <1>1, ItemsInTheStream
  <1>3. arriving = whole /\ readBuffer = <<>> /\ messages = <<>> /\ Len(<<>>) = 0
    BY DEF StreamInit
  <1>4. Len(whole) - Len(arriving) = 0 /\ 0 - Len(readBuffer) = 0 /\ 0 + 1 = 1
    <2>1. Len(readBuffer) = 0
      BY <1>3
    <2> HIDE DEF whole
    <2>2. Len(arriving) = Len(whole)
      BY <1>3
    <2> QED
      BY <1>2, <2>1, <2>2
  <1>5. Behind(whole, arriving, 0)
    <2>1. Len(whole) + 0 = Len(whole) /\ Len(whole) <= Len(whole) /\ \A i \in 1 .. Len(whole) : i + 0 = i
      BY <1>2
    <2> QED
      BY <1>2, <1>3, <2>1 DEF Behind, Part
  <1>6. Part(whole, readBuffer, 0)
    <2>1. <<>> \in Seq(Byte) /\ 0 + 0 <= Len(whole) /\ 1 .. 0 = {}
      BY <1>2
    <2> QED
      BY <1>2, <1>3, <2>1 DEF Part
  <1>7. \A i \in Frames(items) : Start(items, i) \in Nat \ {0} /\ ~ (LengthOf(items, i) <= 0)
    <2> TAKE i \in Frames(items)
    <2>1. /\ Start(items, i) \in Nat \ {0} /\ LengthOf(items, i) \in Nat
          /\ Start(items, i) + HeaderLength - 1 <= LengthOf(items, i)
      BY <1>1, FrameInTheStream
    <2> QED
      BY <2>1, LengthsAreNumbers
  <1>8. Outside(items, 1)
    BY <1>7 DEF Outside
  <1>9. WhollyRead = {}
    <2>1. WhollyRead = {i \in Frames(items) : LengthOf(items, i) <= 0}
      BY <1>1, <1>2, <1>3, <1>4, WhollyReadIs DEF WhollyRead
    <2> QED
      BY <1>7, <2>1
  <1>10. Delivers(items, messages, WhollyRead) /\ messages \in Seq(Payload)
    <2>1. Cardinality({}) = 0 /\ <<>> \in Seq(Payload)
      BY FS_EmptySet
    <2> QED
      BY <1>3, <1>9, <2>1 DEF Delivers
  <1> HIDE DEF whole
  <1>11. Len(Stream(items)) - Len(arriving) = 0
    BY <1>4 DEF whole
  <1> QED
    BY <1>1, <1>4, <1>5, <1>6, <1>7, <1>8, <1>10, <1>11 DEF DeliveryInv, whole

LEMMA DeliveryStep == DeliveryInv /\ [StreamNext]_streamVars => DeliveryInv'
  <1> SUFFICES ASSUME DeliveryInv, [StreamNext]_streamVars PROVE DeliveryInv'
    OBVIOUS
  <1>1. CASE UNCHANGED streamVars
    BY <1>1 DEF streamVars, DeliveryInv, WhollyRead
  <1>2. ASSUME NEW n \in 1 .. MaxRead, Read(n)
        PROVE  DeliveryInv'
    <2> DEFINE whole == Stream(items)
               left == Len(arriving)
               had == Len(readBuffer)
               r == Len(whole) - left
               d == r - had
               piece == SubSeq(arriving, 1, n)
               data == readBuffer \o piece
               p == ExtractFrames(data).at
               found == ExtractFrames(data).found
               rest == SubSeq(data, p, Len(data))
               all == r + n
    <2>1. /\ n \in 1 .. left /\ items' = items /\ arriving' = SubSeq(arriving, n + 1, left)
          /\ readBuffer' = rest /\ messages' = messages \o found
      BY <1>2 DEF Read, Receive, DeliveryInv, Behind, Part
    <2>2. /\ items \in SeqOf(Item, MaxItems) /\ items \in Seq(Item)
          /\ Behind(whole, arriving, r) /\ Part(whole, readBuffer, d) /\ Outside(items, d + 1)
          /\ \A i \in Frames(items) : LengthOf(items, i) <= r => LengthOf(items, i) <= d
          /\ messages \in Seq(Payload) /\ Delivers(items, messages, WhollyRead)
      BY ItemsAreSeq DEF DeliveryInv
    <2>3. /\ arriving \in Seq(Byte) /\ left \in Nat /\ r \in Nat /\ Len(whole) = left + r
          /\ whole \in Seq(Byte) /\ Len(whole) \in Nat
          /\ \A k \in 1 .. left : whole[k + r] = arriving[k]
          /\ readBuffer \in Seq(Byte) /\ had \in Nat /\ d \in Nat /\ r = had + d
          /\ \A k \in 1 .. had : whole[k + d] = readBuffer[k]
      BY <2>2 DEF Behind, Part
    <2> HIDE DEF whole, left, had, r, d
    <2>4. /\ piece \in Seq(Byte) /\ Len(piece) = n /\ \A k \in 1 .. n : piece[k] = arriving[k]
      <3>1. piece \in Seq(Byte)
        BY <2>1, <2>3, PieceIsSeq DEF left
      <3>2. n \in Int /\ 1 <= n /\ n - 1 + 1 = n /\ \A k \in 1 .. n : 1 + k - 1 = k /\ k \in 1 .. left
        BY <2>1, <2>3
      <3>3. \A k \in 1 .. n : arriving[k] \in Byte
        BY <2>3, <3>2 DEF left
      <3> QED
        BY <3>1, <3>2, <3>3, SubSeqProperties
    <2> HIDE DEF piece
    <2>5. /\ data \in Seq(Byte) /\ Len(data) = had + n
          /\ \A k \in 1 .. had + n : data[k] = IF k <= had THEN readBuffer[k] ELSE piece[k - had]
      <3>1. /\ data \in Seq(Byte) /\ Len(data) = Len(readBuffer) + Len(piece)
            /\ \A k \in 1 .. Len(readBuffer) + Len(piece) :
                 data[k] = IF k <= Len(readBuffer) THEN readBuffer[k] ELSE piece[k - Len(readBuffer)]
        BY <2>3, <2>4, ConcatProperties
      <3> QED
        BY <2>4, <3>1 DEF had
    <2> HIDE DEF data
    <2>6. Part(whole, data, d) /\ Len(data) + d = all
      <3>1. Len(data) + d = all /\ Len(data) + d <= Len(whole)
        BY <2>1, <2>3, <2>5, SMTT(30)
      <3>2. ASSUME NEW k \in 1 .. Len(data)
            PROVE  whole[k + d] = data[k]
        <4>1. k \in 1 .. had + n /\ k \in Nat
          BY <2>3, <2>5
        <4>2. CASE k <= had
          BY <2>3, <2>5, <4>1, <4>2
        <4>3. CASE ~ (k <= had)
          <5> DEFINE j == k - had
          <5>1. j \in 1 .. n /\ j \in 1 .. left /\ k + d = j + r
            BY <2>1, <2>3, <4>1, <4>3
          <5> HIDE DEF j
          <5>2. whole[j + r] = arriving[j] /\ piece[j] = arriving[j]
            BY <2>3, <2>4, <5>1
          <5>3. data[k] = piece[j]
            BY <2>5, <4>1, <4>3 DEF j
          <5> QED
            BY <5>1, <5>2, <5>3
        <4> QED
          BY <4>2, <4>3
      <3> QED
        BY <2>3, <2>5, <3>1, <3>2 DEF Part
    <2>7. /\ 1 \in Places(data) /\ 1 + d = d + 1
          /\ ExtractStops(data) \in SUBSET Places(data) /\ Len(data) + 1 \in ExtractStops(data)
      <3>1. 1 \in Places(data) /\ 1 + d = d + 1
        <4>1. d \in Nat /\ Len(data) \in Nat
          BY <2>3, <2>5
        <4> QED
          BY <4>1 DEF Places
      <3> QED
        BY <2>5, <3>1, StopsArePlaces
    <2>8. ExtractFrames(data) \in [found : Seq(Seq(Byte)), at : ExtractStops(data)]
      BY <2>5, <2>7, ScanStops DEF ExtractFrames
    <2>9. /\ Delivers(items, found, Complete(items, d + 1, all))
          /\ found \in Seq(Payload) /\ Outside(items, p + d)
          /\ \A i \in Frames(items) : LengthOf(items, i) <= all => LengthOf(items, i) < p + d
      <3>1. \A k \in Places(data) :
              LET result == Scanning(data, ExtractStops(data))[k] IN
              Outside(items, k + d) =>
                /\ Delivers(items, result.found, Complete(items, k + d, Len(data) + d))
                /\ result.found \in Seq(Payload)
                /\ Outside(items, result.at + d)
                /\ \A i \in Frames(items) : LengthOf(items, i) <= Len(data) + d => LengthOf(items, i) < result.at + d
        BY <2>2, <2>6, ScanDelivers DEF whole
      <3> QED
        BY <2>2, <2>6, <2>7, <3>1 DEF ExtractFrames
    <2>10. p \in Places(data)
      BY <2>7, <2>8
    <2> HIDE DEF p, found
    <2>11. /\ rest \in Seq(Byte) /\ Len(rest) = Len(data) + 1 - p /\ Behind(data, rest, p - 1)
      BY <2>5, <2>10, RestIs
    <2>12. p \in 1 .. had + n + 1
      BY <2>5, <2>10 DEF Places
    <2> DEFINE b == d + p - 1
               left2 == Len(arriving')
               had2 == Len(rest)
    <2> HIDE DEF rest
    <2>13. arriving' \in Seq(Byte) /\ left2 = left - n /\ Behind(whole, arriving', all)
      <3>1. n + 1 \in Places(arriving)
        BY <2>1, <2>3 DEF Places, left
      <3>2. arriving' \in Seq(Byte) /\ left2 = left + 1 - (n + 1) /\ Behind(arriving, arriving', n + 1 - 1)
        <4> DEFINE k == n + 1
        <4>1. k \in Places(arriving)
          BY <3>1
        <4>2. arriving' = SubSeq(arriving, k, Len(arriving)) /\ left = Len(arriving)
          BY <2>1 DEF left
        <4> HIDE DEF k
        <4>3. LET tail == SubSeq(arriving, k, Len(arriving)) IN
              tail \in Seq(Byte) /\ Len(tail) = Len(arriving) + 1 - k /\ Behind(arriving, tail, k - 1)
          BY <2>3, <4>1, RestIs
        <4>4. arriving' \in Seq(Byte) /\ left2 = left + 1 - k /\ Behind(arriving, arriving', k - 1)
          BY <4>2, <4>3
        <4> QED
          BY <4>4 DEF k
      <3>3. left2 = left - n /\ n + 1 - 1 = n /\ n \in Nat
        <4>1. n \in Nat /\ left \in Nat /\ left2 = left + 1 - (n + 1)
          BY <2>1, <2>3, <3>2
        <4> HIDE DEF left2
        <4> QED
          BY <4>1
      <3>4. ASSUME NEW k \in 1 .. left2
            PROVE  whole[k + all] = arriving'[k]
        <4>1. k + n \in 1 .. left /\ k + all = (k + n) + r
          BY <2>1, <2>3, <3>3
        <4> DEFINE j == k + n
        <4> HIDE DEF j
        <4>2. whole[j + r] = arriving[j]
          BY <2>3, <4>1 DEF j
        <4>3. arriving[k + n] = arriving'[k]
          BY <3>2, <3>3 DEF Behind, Part
        <4> QED
          BY <4>1, <4>2, <4>3 DEF j
      <3>5. Len(whole) = left2 + all /\ left2 + all <= Len(whole) /\ all \in Nat
        BY <2>1, <2>3, <3>3
      <3> QED
        BY <2>3, <3>2, <3>3, <3>4, <3>5 DEF Behind, Part
    <2>14. /\ Len(whole) - left2 = all /\ all - had2 = b /\ b \in Nat /\ b + 1 = p + d
           /\ had2 = had + n + 1 - p /\ had2 \in Nat
      <3>1. left2 = left - n /\ had2 = had + n + 1 - p
        BY <2>5, <2>11, <2>13
      <3>2. n \in Nat /\ p \in Nat /\ 1 <= p /\ p <= had + n + 1
        BY <2>1, <2>3, <2>12
      <3> HIDE DEF left2, had2
      <3>3. Len(whole) - left2 = all /\ had2 \in Nat
        BY <2>3, <3>1, <3>2
      <3>4. all - had2 = b /\ b \in Nat /\ b + 1 = p + d
        BY <2>3, <3>1, <3>2
      <3> QED
        BY <3>1, <3>3, <3>4
    <2>15. Part(whole, rest, b)
      <3>1. ASSUME NEW k \in 1 .. had2
            PROVE  whole[k + b] = rest[k]
        <4> DEFINE j == k + (p - 1)
        <4>1. j \in 1 .. Len(data) /\ k + b = j + d
          <5>1. n \in Nat /\ p \in Nat /\ 1 <= p /\ k \in Nat /\ 1 <= k /\ k <= had + n + 1 - p
            BY <2>1, <2>3, <2>12, <2>14
          <5> QED
            BY <2>3, <2>5, <5>1
        <4>2. data[j] = rest[k]
          BY <2>11 DEF Behind, Part
        <4> HIDE DEF j
        <4>3. whole[j + d] = data[j]
          BY <2>6, <4>1 DEF Part
        <4> QED
          BY <4>1, <4>2, <4>3
      <3>2. had2 + b <= Len(whole)
        <4>1. /\ n \in Nat /\ n <= left /\ Len(whole) = left + r /\ r = had + d /\ left \in Nat
              /\ had \in Nat /\ d \in Nat /\ p \in Nat
          BY <2>1, <2>3, <2>12, SMTT(30)
        <4>2. had2 = had + n + 1 - p /\ b + 1 = p + d /\ b \in Nat
          BY <2>14
        <4> HIDE DEF had2, b, left, r, had, d, whole
        <4>3. had2 + b = had + n + d
          BY <4>1, <4>2
        <4> QED
          BY <4>1, <4>3
      <3> QED
        BY <2>3, <2>11, <2>14, <3>1, <3>2 DEF Part
    <2>16. \A i \in Frames(items) : LengthOf(items, i) \in Nat /\ Start(items, i) \in Nat
      BY <2>2, FrameInTheStream
    <2>17. \A i \in Frames(items) : LengthOf(items, i) <= all => LengthOf(items, i) <= b
      BY <2>9, <2>14, <2>16
    <2>18. WhollyRead = {i \in Frames(items) : LengthOf(items, i) <= r}
      BY <2>2, <2>3, WhollyReadIs DEF WhollyRead, left, r, whole
    <2>19. WhollyRead' = {i \in Frames(items) : LengthOf(items, i) <= all}
      <3>1. {i \in DOMAIN items : items[i].kind = "frame" /\ LengthOf(items, i) + left2 <= Len(whole)}
              = {i \in Frames(items) : LengthOf(items, i) <= Len(whole) - left2}
        <4>1. left2 \in Nat /\ items \in Seq(Item)
          BY <2>2, <2>13
        <4> HIDE DEF left2
        <4> QED
          BY <4>1, WhollyReadIs DEF whole
      <3>2. WhollyRead' = {i \in DOMAIN items : items[i].kind = "frame" /\ LengthOf(items, i) + left2 <= Len(whole)}
        BY <2>1 DEF WhollyRead, whole
      <3> QED
        BY <2>14, <3>1, <3>2
    <2> DEFINE V == WhollyRead
               W == Complete(items, d + 1, all)
    <2>20. V \cup W = WhollyRead'
      <3>1. ASSUME NEW i \in Frames(items), LengthOf(items, i) <= all
            PROVE  LengthOf(items, i) <= r \/ d + 1 <= Start(items, i)
        BY <2>2, <2>3, <2>16 DEF Outside
      <3>2. ASSUME NEW i \in Frames(items), LengthOf(items, i) <= r
            PROVE  LengthOf(items, i) <= all
        <4> DEFINE e == LengthOf(items, i)
        <4>1. e \in Nat /\ e <= r /\ r \in Nat /\ n \in Nat
          BY <2>1, <2>3, <2>16, <3>2
        <4> HIDE DEF e
        <4>2. e <= r + n
          BY <4>1
        <4> QED
          BY <4>2 DEF e
      <3> QED
        BY <2>18, <2>19, <3>1, <3>2 DEF Complete
    <2>21. \A v \in V : \A w \in W : v < w
      <3> SUFFICES ASSUME NEW v \in V, NEW w \in W PROVE v < w
        OBVIOUS
      <3>1. v \in Frames(items) /\ w \in Frames(items) /\ LengthOf(items, v) <= d /\ d + 1 <= Start(items, w)
        BY <2>2, <2>18 DEF Complete
      <3>2. LengthOf(items, v) < Start(items, w)
        BY <2>3, <2>16, <3>1
      <3> QED
        BY <2>2, <3>1, <3>2, FramesInOrder
    <2>22. V \in SUBSET (1 .. Len(items)) /\ W \in SUBSET (1 .. Len(items)) /\ Len(items) \in Nat
      <3>1. \A i \in Frames(items) : i \in 1 .. Len(items)
        BY <2>2, FrameInTheStream
      <3> QED
        BY <2>2, <2>18, <3>1 DEF Complete
    <2> HIDE DEF V, W
    <2>23. Delivers(items, messages \o found, V \cup W)
      BY <2>2, <2>9, <2>21, <2>22, DeliversBoth DEF V, W
    <2>24. messages' \in Seq(Payload)
      BY <2>1, <2>2, <2>9, ConcatProperties
    <2>25. Delivers(items, messages', WhollyRead')
      BY <2>1, <2>20, <2>23
    <2> HIDE DEF b, all
    <2>26. Len(Stream(items')) - Len(arriving') = all /\ all - Len(readBuffer') = b
      BY <2>1, <2>14 DEF whole
    <2>27. Behind(Stream(items'), arriving', all) /\ Part(Stream(items'), readBuffer', b)
      BY <2>1, <2>13, <2>15 DEF whole
    <2>28. Outside(items', b + 1) /\ \A i \in Frames(items') : LengthOf(items', i) <= all => LengthOf(items', i) <= b
      BY <2>1, <2>9, <2>14, <2>17
    <2>29. items' \in SeqOf(Item, MaxItems) /\ Delivers(items', messages', WhollyRead')
      BY <2>1, <2>2, <2>25
    <2> QED
      BY <2>24, <2>26, <2>27, <2>28, <2>29 DEF DeliveryInv
  <1> QED
    BY <1>1, <1>2 DEF StreamNext

\* However the stream is cut, each message is delivered with the piece that
\* completes its frame, unchanged, in the order sent, and nothing else is.
THEOREM DeliveredWhenWholeAlways == StreamSpec => []DeliveredWhenWhole
  <1>1. DeliveryInv => DeliveredWhenWhole
    BY DEF DeliveryInv, DeliveredWhenWhole, Delivers
  <1> QED
    BY <1>1, DeliveryStart, DeliveryStep, PTL DEF StreamSpec

\* What waits is bytes, and what is delivered is payloads that may be sent.
THEOREM StreamTypesOK == StreamSpec => []StreamTypeOK
  <1>1. FramesInv /\ DeliveryInv => StreamTypeOK
    BY ItemsAreSeq DEF FramesInv, DeliveryInv, StreamTypeOK, Behind, Part
  <1> QED
    BY <1>1, FramesStart, FramesStep, DeliveryStart, DeliveryStep, PTL DEF StreamSpec

--------------------------------------------------------------------------------
(* Names and their numbers *)

LEMMA ProductGrows ==
  ASSUME NEW a \in Nat, NEW b \in Nat, NEW c \in Nat, a <= b
  PROVE  c * a <= c * b /\ c * a \in Nat /\ c * b \in Nat
  <1>1. PICK d \in Nat : b = a + d
    <2>1. b - a \in Nat /\ b = a + (b - a)
      OBVIOUS
    <2> QED
      BY <2>1
  <1>2. c * b = c * a + c * d /\ c * d \in Nat /\ c * a \in Nat /\ c * b \in Nat
    BY <1>1
  <1> DEFINE x == c * a
             y == c * d
             z == c * b
  <1> HIDE DEF x, y, z
  <1>3. z = x + y /\ y \in Nat /\ x \in Nat /\ z \in Nat
    BY <1>2 DEF x, y, z
  <1> QED
    BY <1>3 DEF x, z

\* A quotient and a remainder are the only ones.
LEMMA OneQuotient ==
  ASSUME NEW b \in Nat \ {0}, NEW q \in Nat, NEW r \in 0 .. b - 1, NEW a, a = b * q + r
  PROVE  a \in Nat /\ a \div b = q /\ a % b = r
  <1> DEFINE p == a \div b
             s == a % b
  <1>1. a \in Nat /\ p \in Nat /\ s \in 0 .. b - 1 /\ a = b * p + s
    <2>1. b * q \in Nat
      OBVIOUS
    <2>2. a \in Nat
      BY <2>1
    <2> QED
      BY <2>2
  <1> HIDE DEF p, s
  <1>2. ~ p < q
    <2> SUFFICES ASSUME p < q PROVE FALSE
      OBVIOUS
    <2>1. p + 1 \in Nat /\ p + 1 <= q
      BY <1>1
    <2>2. b * (p + 1) <= b * q
      BY <2>1, ProductGrows
    <2>3. b * (p + 1) = b * p + b
      BY <1>1
    <2> DEFINE x == b * p
               y == b * q
               z == b * (p + 1)
    <2>4. x \in Int /\ y \in Int /\ z \in Int /\ z <= y /\ z = x + b /\ a = x + s /\ a = y + r
      BY <1>1, <2>2, <2>3
    <2> HIDE DEF x, y, z
    <2> QED
      BY <1>1, <2>4
  <1>3. ~ q < p
    <2> SUFFICES ASSUME q < p PROVE FALSE
      OBVIOUS
    <2>1. q + 1 \in Nat /\ q + 1 <= p
      BY <1>1
    <2>2. b * (q + 1) <= b * p
      BY <1>1, <2>1, ProductGrows
    <2>3. b * (q + 1) = b * q + b
      OBVIOUS
    <2> DEFINE x == b * p
               y == b * q
               z == b * (q + 1)
    <2>4. x \in Int /\ y \in Int /\ z \in Int /\ z <= x /\ z = y + b /\ a = x + s /\ a = y + r
      BY <1>1, <2>2, <2>3
    <2> HIDE DEF x, y, z
    <2> QED
      BY <1>1, <2>4
  <1>4. p = q
    BY <1>1, <1>2, <1>3
  <1>5. s = r
    <2> DEFINE y == b * q
    <2>1. y \in Int /\ a = y + s /\ a = y + r
      BY <1>1, <1>4
    <2> HIDE DEF y
    <2> QED
      BY <1>1, <2>1
  <1> QED
    BY <1>1, <1>4, <1>5 DEF p, s

LEMMA QuotientIs ==
  ASSUME NEW a \in Nat, NEW b \in Nat \ {0}
  PROVE  a \div b \in Nat /\ a % b \in 0 .. b - 1 /\ a = b * (a \div b) + (a % b)
  OBVIOUS

\* A function by recursion over the first numbers.
LEMMA RecursionEnds ==
  ASSUME NEW last \in Nat, NEW first \in Nat, NEW step \in [1 .. last -> [Nat -> Nat]]
  PROVE  \E f \in [0 .. last -> Nat] : f[0] = first /\ \A n \in 1 .. last : f[n] = step[n][f[n - 1]]
  <1> DEFINE ValueAt(f, n) == IF n = 0 THEN first ELSE step[n][f[n - 1]]
             T == {m \in 1 .. last : \E f \in [0 .. m -> Nat] : \A n \in 0 .. m : f[n] = ValueAt(f, n)}
  <1>1. ASSUME NEW m \in 1 .. last, \A q \in 1 .. last : q < m => q \in T
        PROVE  m \in T
    <2>1. PICK f \in [0 .. m - 1 -> Nat] : \A n \in 0 .. m - 1 : f[n] = ValueAt(f, n)
      <3>1. CASE m = 1
        <4> DEFINE f == [n \in 0 .. m - 1 |-> first]
        <4>1. f \in [0 .. m - 1 -> Nat] /\ \A n \in 0 .. m - 1 : f[n] = ValueAt(f, n)
          BY <3>1
        <4> QED
          BY <4>1
      <3>2. CASE m # 1
        <4>1. m - 1 \in 1 .. last /\ m - 1 < m
          BY <3>2
        <4>2. m - 1 \in T
          <5> HIDE DEF T
          <5> QED BY <1>1, <4>1
        <4> QED
          BY <4>2
      <3> QED
        BY <3>1, <3>2
    <2> DEFINE g == [n \in 0 .. m |-> IF n = m THEN ValueAt(f, m) ELSE f[n]]
    <2>2. ValueAt(f, m) \in Nat
      <3>1. m - 1 \in 0 .. m - 1 /\ m # 0
        OBVIOUS
      <3>2. f[m - 1] \in Nat
        BY <3>1
      <3> QED
        BY <3>1, <3>2
    <2>3. g \in [0 .. m -> Nat]
      <3> HIDE DEF ValueAt
      <3>1. \A n \in 0 .. m : n = m \/ n \in 0 .. m - 1
        OBVIOUS
      <3> QED
        BY <2>2, <3>1
    <2>4. \A n \in 0 .. m : g[n] = IF n = m THEN ValueAt(f, m) ELSE f[n]
      OBVIOUS
    <2> HIDE DEF g
    <2>5. ASSUME NEW n \in 0 .. m
          PROVE  g[n] = ValueAt(g, n)
      <3>1. n # 0 => n - 1 \in 0 .. m /\ n - 1 # m
        OBVIOUS
      <3>2. ValueAt(g, n) = ValueAt(f, n)
        BY <2>4, <3>1
      <3>3. n = m \/ n \in 0 .. m - 1
        OBVIOUS
      <3> HIDE DEF ValueAt
      <3> QED
        BY <2>1, <2>4, <3>2, <3>3
    <2> QED
      BY <2>3, <2>5
  <1>2. \E f \in [0 .. last -> Nat] : \A n \in 0 .. last : f[n] = ValueAt(f, n)
    <2>1. CASE last = 0
      <3> DEFINE f == [n \in 0 .. last |-> first]
      <3>1. f \in [0 .. last -> Nat] /\ \A n \in 0 .. last : f[n] = ValueAt(f, n)
        BY <2>1
      <3> QED
        BY <3>1
    <2>2. CASE last # 0
      <3>1. last \in 1 .. last
        BY <2>2
      <3>2. last \in T
        <4> HIDE DEF T
        <4> QED BY <1>1, <3>1, FromTheStart
      <3> QED
        BY <3>2
    <2> QED
      BY <2>1, <2>2
  <1>3. PICK f \in [0 .. last -> Nat] : \A n \in 0 .. last : f[n] = ValueAt(f, n)
    BY <1>2
  <1>4. 0 \in 0 .. last /\ \A n \in 1 .. last : n \in 0 .. last /\ n # 0
    OBVIOUS
  <1> QED
    BY <1>3, <1>4

LEMMA PlacesAre ==
  /\ Place \in [0 .. MaxPackedLen -> Nat]
  /\ Place[0] = 1
  /\ \A n \in 1 .. MaxPackedLen : Place[n] = CharValues * Place[n - 1]
  <1> DEFINE last == MaxPackedLen
             step == [n \in 1 .. last |-> [m \in Nat |-> CharValues * m]]
             P(f) == f = [n \in 0 .. MaxPackedLen |-> IF n = 0 THEN 1 ELSE CharValues * f[n - 1]]
  <1>1. last \in Nat /\ CharValues \in Nat
    BY NameAssumption
  <1>2. step \in [1 .. last -> [Nat -> Nat]] /\ \A n \in 1 .. last, m \in Nat : step[n][m] = CharValues * m
    BY <1>1
  <1> HIDE DEF step
  <1>3. PICK f \in [0 .. last -> Nat] : f[0] = 1 /\ \A n \in 1 .. last : f[n] = step[n][f[n - 1]]
    <2> HIDE DEF last
    <2>1. 1 \in Nat /\ last \in Nat /\ step \in [1 .. last -> [Nat -> Nat]]
      BY <1>1, <1>2
    <2> QED
      BY <2>1, RecursionEnds, Zenon
  <1>4. P(f)
    <2>1. \A n \in 0 .. last : n # 0 => n \in 1 .. last /\ n - 1 \in 0 .. last
      BY <1>1
    <2>2. ASSUME NEW n \in 1 .. last
          PROVE  f[n] = CharValues * f[n - 1]
      <3>1. f[n - 1] \in Nat
        BY <1>1
      <3> HIDE DEF last
      <3> QED
        BY <1>2, <1>3, <3>1
    <2>3. \A n \in 0 .. last : f[n] = IF n = 0 THEN 1 ELSE CharValues * f[n - 1]
      BY <1>3, <2>1, <2>2
    <2> QED
      BY <2>3
  <1>5. Place = CHOOSE g : P(g)
    BY DEF Place
  <1>6. P(Place)
    <2> HIDE DEF P
    <2> QED BY <1>4, <1>5
  <1> DEFINE g == Place
  <1>7. g = [n \in 0 .. last |-> IF n = 0 THEN 1 ELSE CharValues * g[n - 1]]
    BY <1>6
  <1> HIDE DEF g, last
  <1>8. \A n \in 1 .. last : n \in 0 .. last /\ n # 0 /\ n - 1 \in 0 .. last
    BY <1>1
  <1>9. g[0] = 1 /\ \A n \in 1 .. last : g[n] = CharValues * g[n - 1]
    <2>1. 0 \in 0 .. last
      BY <1>1
    <2> QED
      BY <1>7, <1>8, <2>1
  <1>10. \A n \in 1 .. last : g[n] \in Nat
    <2> DEFINE T == {n \in 1 .. last : g[n] \in Nat}
    <2>1. ASSUME NEW n \in 1 .. last, \A q \in 1 .. last : q < n => q \in T
          PROVE  n \in T
      <3>1. n = 1 \/ (n - 1 \in 1 .. last /\ n - 1 < n)
        BY <1>1
      <3>2. g[n - 1] \in Nat
        BY <1>9, <2>1, <3>1
      <3> QED
        BY <1>1, <1>9, <3>2
    <2>2. \A n \in 1 .. last : n \in T
      <3> HIDE DEF T
      <3> QED BY <1>1, <2>1, FromTheStart
    <2> QED
      BY <2>2
  <1>11. g \in [0 .. last -> Nat]
    <2>1. \A n \in 0 .. last : n = 0 \/ n \in 1 .. last
      BY <1>1
    <2>2. \A n \in 0 .. last : g[n] \in Nat
      BY <1>9, <1>10, <2>1
    <2>3. g = [n \in 0 .. last |-> g[n]]
      BY <1>7
    <2> QED
      BY <2>2, <2>3
  <1> QED
    BY <1>9, <1>11 DEF g, last

LEMMA ProductIsPlace ==
  ASSUME NEW n \in 0 .. MaxPackedLen
  PROVE  Place[n] \in Nat /\ Place[n] > 0
  <1> DEFINE last == MaxPackedLen
             T == {m \in 1 .. last : Place[m] > 0}
  <1>1. last \in Nat /\ CharValues \in Nat \ {0}
    BY NameAssumption
  <1>2. /\ \A m \in 0 .. last : Place[m] \in Nat
        /\ Place[0] = 1 /\ \A m \in 1 .. last : Place[m] = CharValues * Place[m - 1]
    BY PlacesAre
  <1> HIDE DEF last
  <1>3. ASSUME NEW m \in 1 .. last, \A q \in 1 .. last : q < m => q \in T
        PROVE  m \in T
    <2>1. m = 1 \/ (m - 1 \in 1 .. last /\ m - 1 < m)
      BY <1>1
    <2>2. Place[m - 1] \in Nat /\ Place[m - 1] > 0
      <3>1. m - 1 \in 0 .. last
        BY <1>1
      <3> QED
        BY <1>2, <1>3, <2>1, <3>1
    <2> DEFINE p == Place[m - 1]
    <2>3. Place[m] = CharValues * p /\ p \in Nat /\ p > 0
      BY <1>2, <2>2
    <2> HIDE DEF p
    <2>4. CharValues * p > 0
      BY <1>1, <2>3
    <2> QED
      BY <2>3, <2>4
  <1>4. \A m \in 1 .. last : m \in T
    <2> HIDE DEF T
    <2> QED BY <1>1, <1>3, FromTheStart
  <1>5. n = 0 \/ n \in 1 .. last
    BY <1>1 DEF last
  <1> QED
    BY <1>2, <1>4, <1>5 DEF last

\* What the first characters of a name make.
PackedUpTo(str) ==
  LET upTo[n \in 0 .. Len(str)] == IF n = 0 THEN 0 ELSE upTo[n - 1] + str[n] * Place[n - 1]
  IN upTo

LEMMA PackedOneByOne ==
  ASSUME NEW str \in Seq(Nat), Len(str) <= MaxPackedLen
  PROVE  /\ Packed(str) = PackedUpTo(str)[Len(str)]
         /\ PackedUpTo(str)[0] = 0
         /\ \A n \in 1 .. Len(str) :
              /\ PackedUpTo(str)[n] = PackedUpTo(str)[n - 1] + str[n] * Place[n - 1]
              /\ PackedUpTo(str)[n] \in Nat /\ PackedUpTo(str)[n - 1] \in Nat
  <1> DEFINE last == Len(str)
             step == [n \in 1 .. last |-> [m \in Nat |-> m + str[n] * Place[n - 1]]]
             P(f) == f = [n \in 0 .. Len(str) |-> IF n = 0 THEN 0 ELSE f[n - 1] + str[n] * Place[n - 1]]
  <1>1. last \in Nat /\ \A n \in 1 .. last : str[n] * Place[n - 1] \in Nat
    <2>1. last \in Nat /\ \A n \in 1 .. last : str[n] \in Nat /\ n - 1 \in 0 .. MaxPackedLen
      BY NameAssumption
    <2>2. ASSUME NEW n \in 1 .. last
          PROVE  str[n] * Place[n - 1] \in Nat
      <3>1. str[n] \in Nat /\ Place[n - 1] \in Nat
        BY <2>1, ProductIsPlace
      <3> QED
        BY <3>1
    <2> QED
      BY <2>1, <2>2
  <1> HIDE DEF last
  <1>2. step \in [1 .. last -> [Nat -> Nat]] /\ \A n \in 1 .. last, m \in Nat : step[n][m] = m + str[n] * Place[n - 1]
    <2> DEFINE c == [n \in 1 .. last |-> str[n] * Place[n - 1]]
    <2>1. c \in [1 .. last -> Nat] /\ \A n \in 1 .. last : c[n] = str[n] * Place[n - 1]
      BY <1>1
    <2>2. step = [n \in 1 .. last |-> [m \in Nat |-> m + c[n]]]
      BY <2>1
    <2> HIDE DEF step, c
    <2> QED
      BY <2>1, <2>2, SMTT(30)
  <1> HIDE DEF step
  <1>3. PICK f \in [0 .. last -> Nat] : f[0] = 0 /\ \A n \in 1 .. last : f[n] = step[n][f[n - 1]]
    <2>1. 0 \in Nat
      OBVIOUS
    <2> QED
      BY <1>1, <1>2, <2>1, RecursionEnds, ZenonT(40)
  <1>4. P(f)
    <2>1. ASSUME NEW n \in 1 .. last
          PROVE  f[n] = f[n - 1] + str[n] * Place[n - 1]
      <3>1. f[n - 1] \in Nat
        BY <1>1
      <3> QED
        BY <1>2, <1>3, <3>1
    <2>2. f = [n \in 0 .. last |-> f[n]]
      OBVIOUS
    <2>3. \A n \in 0 .. last : n = 0 \/ n \in 1 .. last
      BY <1>1
    <2>4. \A n \in 0 .. last : f[n] = IF n = 0 THEN 0 ELSE f[n - 1] + str[n] * Place[n - 1]
      BY <1>3, <2>1, <2>3
    <2> QED
      BY <2>2, <2>4 DEF last
  <1>5. PackedUpTo(str) = CHOOSE g : P(g)
    BY DEF PackedUpTo
  <1>6. P(PackedUpTo(str))
    <2> HIDE DEF P
    <2> QED BY <1>4, <1>5
  <1> DEFINE g == PackedUpTo(str)
             T == {n \in 1 .. last : g[n] \in Nat}
  <1>7. g = [n \in 0 .. last |-> IF n = 0 THEN 0 ELSE g[n - 1] + str[n] * Place[n - 1]]
    BY <1>6 DEF last
  <1>8. Packed(str) = g[last]
    BY DEF Packed, PackedUpTo, last
  <1> HIDE DEF g
  <1>9. g[0] = 0 /\ \A n \in 1 .. last : g[n] = g[n - 1] + str[n] * Place[n - 1]
    <2>1. 0 \in 0 .. last /\ \A n \in 1 .. last : n \in 0 .. last /\ n # 0
      BY <1>1
    <2> QED
      BY <1>7, <2>1
  <1>10. ASSUME NEW n \in 1 .. last, \A q \in 1 .. last : q < n => q \in T
         PROVE  n \in T
    <2>1. n = 1 \/ (n - 1 \in 1 .. last /\ n - 1 < n)
      BY <1>1
    <2>2. g[n - 1] \in Nat
      BY <1>9, <1>10, <2>1
    <2> QED
      BY <1>1, <1>9, <2>2
  <1>11. \A n \in 1 .. last : n \in T
    <2> HIDE DEF T
    <2> QED BY <1>1, <1>10, FromTheStart
  <1>12. \A n \in 1 .. last : n = 1 \/ n - 1 \in 1 .. last
    BY <1>1
  <1>13. \A n \in 1 .. last : g[n - 1] \in Nat
    BY <1>9, <1>11, <1>12
  <1> QED
    BY <1>8, <1>9, <1>11, <1>13 DEF g, last

LEMMA PackedIsBelow ==
  ASSUME NEW str \in Seq(Nat), Len(str) <= MaxPackedLen, \A i \in 1 .. Len(str) : str[i] < CharValues
  PROVE  \A n \in 0 .. Len(str) : PackedUpTo(str)[n] \in 0 .. Place[n] - 1
  <1> DEFINE last == Len(str)
             u == PackedUpTo(str)
             T == {n \in 1 .. last : u[n] < Place[n]}
  <1>1. last \in Nat /\ MaxPackedLen \in Nat /\ last <= MaxPackedLen /\ CharValues \in Nat
    BY NameAssumption
  <1>2. /\ u[0] = 0
        /\ \A n \in 1 .. last : u[n] = u[n - 1] + str[n] * Place[n - 1] /\ u[n] \in Nat /\ u[n - 1] \in Nat
    BY PackedOneByOne
  <1>3. \A n \in 1 .. last : str[n] \in Nat /\ str[n] < CharValues
    OBVIOUS
  <1> HIDE DEF last, u
  <1>4. /\ \A n \in 0 .. last : Place[n] \in Nat /\ Place[n] > 0
        /\ Place[0] = 1 /\ \A n \in 1 .. last : Place[n] = CharValues * Place[n - 1]
    <2>1. /\ \A n \in 0 .. last : n \in 0 .. MaxPackedLen
          /\ \A n \in 1 .. last : n \in 1 .. MaxPackedLen
      BY <1>1
    <2>2. \A n \in 0 .. last : Place[n] \in Nat /\ Place[n] > 0
      BY <2>1, ProductIsPlace
    <2> QED
      BY <2>1, <2>2, PlacesAre
  <1>5. ASSUME NEW n \in 1 .. last, \A q \in 1 .. last : q < n => q \in T
        PROVE  n \in T
    <2>1. n = 1 \/ (n - 1 \in 1 .. last /\ n - 1 < n)
      BY <1>1
    <2>2. u[n - 1] < Place[n - 1] /\ n - 1 \in 0 .. last
      BY <1>1, <1>2, <1>4, <1>5, <2>1
    <2> DEFINE p == Place[n - 1]
               v == u[n - 1]
               d == str[n]
    <2>3. p \in Nat /\ v \in Nat /\ v < p /\ d \in Nat /\ d + 1 \in Nat /\ d + 1 <= CharValues
      BY <1>1, <1>2, <1>3, <1>4, <2>2, SMTT(30)
    <2>4. u[n] = v + d * p /\ Place[n] = CharValues * p
      BY <1>2, <1>4
    <2> HIDE DEF p, v, d
    <2>5. p * (d + 1) <= p * CharValues
      BY <1>1, <2>3, ProductGrows
    <2>6. p * (d + 1) = d * p + p /\ p * CharValues = CharValues * p /\ d * p \in Nat /\ CharValues * p \in Nat
      BY <1>1, <2>3
    <2> DEFINE x == d * p
               y == CharValues * p
    <2>7. x \in Nat /\ y \in Nat /\ x + p <= y
      BY <2>5, <2>6
    <2> HIDE DEF x, y
    <2>8. v + x < y
      BY <2>3, <2>7
    <2> QED
      BY <2>4, <2>8 DEF x, y
  <1>6. \A n \in 1 .. last : n \in T
    <2> HIDE DEF T
    <2> QED BY <1>1, <1>5, FromTheStart
  <1>7. \A n \in 0 .. last : n = 0 \/ n \in 1 .. last
    BY <1>1
  <1>8. \A n \in 0 .. last : u[n] \in Nat /\ Place[n] \in Nat /\ u[n] < Place[n]
    BY <1>2, <1>4, <1>6, <1>7
  <1> QED
    BY <1>8 DEF last, u

LEMMA PlaceDivides ==
  ASSUME NEW n \in 0 .. MaxPackedLen
  PROVE  \E q \in Nat : LengthPlace = Place[n] * q
  <1> DEFINE last == MaxPackedLen
             T == {m \in 1 .. last : \E q \in Nat : LengthPlace = Place[m] * q}
  <1>1. last \in Nat /\ CharValues \in Nat /\ LengthPlace = Place[last]
    BY NameAssumption DEF LengthPlace
  <1>2. /\ \A m \in 0 .. last : Place[m] \in Nat
        /\ Place[0] = 1 /\ \A m \in 1 .. last : Place[m] = CharValues * Place[m - 1]
    BY PlacesAre
  <1> HIDE DEF last
  <1>3. ASSUME NEW m \in 1 .. last, \A q \in 1 .. last : m < q => q \in T
        PROVE  m \in T
    <2>1. CASE m = last
      <3>1. LengthPlace = Place[m] * 1
        <4>1. Place[last] \in Nat
          BY <1>1, <1>2
        <4> QED
          BY <1>1, <2>1, <4>1
      <3> QED
        BY <3>1
    <2>2. CASE m # last
      <3>1. m + 1 \in 1 .. last /\ m < m + 1 /\ (m + 1) - 1 = m /\ m \in 0 .. last
        BY <1>1, <2>2
      <3>2. m + 1 \in T
        <4> HIDE DEF T
        <4> QED BY <1>3, <3>1
      <3>3. PICK q \in Nat : LengthPlace = Place[m + 1] * q
        BY <3>2
      <3>4. Place[m + 1] = CharValues * Place[m] /\ Place[m] \in Nat
        BY <1>2, <3>1
      <3>5. CharValues * q \in Nat /\ LengthPlace = Place[m] * (CharValues * q)
        BY <1>1, <3>3, <3>4
      <3> QED
        BY <3>5
    <2> QED
      BY <2>1, <2>2
  <1>4. \A m \in 1 .. last : m \in T
    <2> HIDE DEF T
    <2> QED BY <1>1, <1>3, FromTheEnd
  <1>5. CASE n = 0
    <2>1. Place[last] \in Nat
      BY <1>1, <1>2
    <2> QED
      BY <1>1, <1>2, <1>5, <2>1
  <1>6. CASE n # 0
    BY <1>1, <1>4, <1>6 DEF last
  <1> QED
    BY <1>5, <1>6

\* What a name's number is made of: its characters up to one, and the rest above.
LEMMA FieldsOfPacked ==
  ASSUME NEW str \in Seq(Nat), Len(str) <= MaxPackedLen, \A i \in 1 .. Len(str) : str[i] < CharValues,
         NEW code, code = Len(str) * LengthPlace + Packed(str)
  PROVE  \A i \in 1 .. Len(str) : Field(code, i) = str[i]
  <1> DEFINE last == Len(str)
             u == PackedUpTo(str)
             Rests(n) == \E t \in Nat : code = u[n] + Place[n] * t
             T == {n \in 1 .. last : Rests(n)}
  <1>1. last \in Nat /\ MaxPackedLen \in Nat /\ last <= MaxPackedLen /\ CharValues \in Nat \ {0}
    BY NameAssumption
  <1>2. /\ Packed(str) = u[last]
        /\ \A n \in 1 .. last : u[n] = u[n - 1] + str[n] * Place[n - 1] /\ u[n] \in Nat /\ u[n - 1] \in Nat
    BY PackedOneByOne
  <1>3. \A n \in 0 .. last : u[n] \in 0 .. Place[n] - 1
    BY PackedIsBelow
  <1>4. \A n \in 1 .. last : str[n] \in 0 .. CharValues - 1
    BY <1>1
  <1>5. code = last * LengthPlace + u[last]
    BY <1>2
  <1> HIDE DEF last, u
  <1>6. /\ \A n \in 0 .. last : Place[n] \in Nat /\ Place[n] > 0
        /\ \A n \in 1 .. last : Place[n] = CharValues * Place[n - 1]
    <2>1. /\ \A n \in 0 .. last : n \in 0 .. MaxPackedLen
          /\ \A n \in 1 .. last : n \in 1 .. MaxPackedLen
      BY <1>1
    <2>2. \A n \in 0 .. last : Place[n] \in Nat /\ Place[n] > 0
      BY <2>1, ProductIsPlace
    <2> QED
      BY <2>1, <2>2, PlacesAre
  <1>7. ASSUME last \in 1 .. last
        PROVE  Rests(last)
    <2>1. PICK q \in Nat : LengthPlace = Place[last] * q
      BY <1>1, PlaceDivides
    <2>2. Place[last] \in Nat /\ u[last] \in Nat
      BY <1>2, <1>6, <1>7, <1>1
    <2>3. last * q \in Nat /\ code = u[last] + Place[last] * (last * q)
      <3> DEFINE p == Place[last]
                 v == u[last]
      <3>1. p \in Nat /\ v \in Nat /\ code = last * (p * q) + v
        BY <1>5, <2>1, <2>2
      <3> HIDE DEF p, v
      <3>2. last * q \in Nat /\ p * (last * q) = last * (p * q) /\ p * (last * q) \in Nat
        BY <1>1, <3>1
      <3>3. code = v + p * (last * q)
        BY <3>1, <3>2
      <3> QED
        BY <3>2, <3>3 DEF p, v
    <2> QED
      BY <2>3
  <1>8. ASSUME NEW n \in 1 .. last, NEW t \in Nat, code = u[n] + Place[n] * t
        PROVE  /\ code = u[n - 1] + Place[n - 1] * (str[n] + CharValues * t)
               /\ str[n] + CharValues * t \in Nat
    <2> DEFINE p == Place[n - 1]
               v == u[n - 1]
               d == str[n]
    <2>1. n - 1 \in 0 .. last
      BY <1>1
    <2>2. p \in Nat /\ v \in Nat /\ d \in Nat /\ code = (v + d * p) + (CharValues * p) * t
      BY <1>2, <1>4, <1>6, <1>8, <2>1
    <2> HIDE DEF p, v, d
    <2>3. CharValues * t \in Nat /\ p * (d + CharValues * t) = d * p + (CharValues * p) * t
      BY <1>1, <2>2
    <2>4. d * p \in Nat /\ (CharValues * p) * t \in Nat
      BY <1>1, <2>2
    <2> DEFINE x == d * p
               y == (CharValues * p) * t
               z == p * (d + CharValues * t)
    <2>5. v \in Nat /\ x \in Nat /\ y \in Nat /\ z = x + y /\ code = (v + x) + y
      BY <2>2, <2>3, <2>4
    <2> HIDE DEF x, y, z
    <2>6. code = v + z
      BY <2>5
    <2>7. d + CharValues * t \in Nat
      BY <2>2, <2>3
    <2> QED
      BY <2>6, <2>7 DEF p, v, d, z
  <1>9. ASSUME NEW n \in 1 .. last, \A q \in 1 .. last : n < q => q \in T
        PROVE  n \in T
    <2>1. CASE n = last
      BY <1>7, <2>1
    <2>2. CASE n # last
      <3>1. n + 1 \in 1 .. last /\ n < n + 1 /\ (n + 1) - 1 = n
        BY <1>1, <2>2
      <3>2. n + 1 \in T
        <4> HIDE DEF T
        <4> QED BY <1>9, <3>1
      <3>3. PICK t \in Nat : code = u[n + 1] + Place[n + 1] * t
        BY <3>2
      <3>4. /\ code = u[n] + Place[n] * (str[n + 1] + CharValues * t)
            /\ str[n + 1] + CharValues * t \in Nat
        BY <1>8, <3>1, <3>3
      <3> QED
        BY <3>4
    <2> QED
      BY <2>1, <2>2
  <1>10. \A n \in 1 .. last : n \in T
    <2> HIDE DEF T
    <2> QED BY <1>1, <1>9, FromTheEnd
  <1>11. ASSUME NEW i \in 1 .. last
         PROVE  Field(code, i) = str[i]
    <2>1. PICK t \in Nat : code = u[i] + Place[i] * t
      BY <1>10
    <2> DEFINE r == str[i] + CharValues * t
    <2>2. code = u[i - 1] + Place[i - 1] * r /\ r \in Nat
      BY <1>8, <2>1
    <2>3. i - 1 \in 0 .. last
      BY <1>1
    <2>4. Place[i - 1] \in Nat \ {0} /\ u[i - 1] \in 0 .. Place[i - 1] - 1
      BY <1>3, <1>6, <2>3
    <2>5. code \div Place[i - 1] = r
      <3> DEFINE p == Place[i - 1]
                 v == u[i - 1]
      <3>1. p \in Nat \ {0} /\ v \in 0 .. p - 1 /\ code = v + p * r /\ r \in Nat
        BY <2>2, <2>4
      <3> HIDE DEF p, v, r
      <3>2. p * r \in Nat
        BY <3>1
      <3>3. code = p * r + v
        BY <3>1, <3>2
      <3>4. code \div p = r
        BY <3>1, <3>3, OneQuotient
      <3> QED
        BY <3>4 DEF p
    <2>6. str[i] \in 0 .. CharValues - 1
      BY <1>4
    <2>7. r % CharValues = str[i]
      <3>1. CharValues * t \in Nat /\ r = CharValues * t + str[i]
        BY <1>1, <2>6
      <3> HIDE DEF r
      <3> QED
        BY <1>1, <2>6, <3>1, OneQuotient
    <2> HIDE DEF r
    <2> QED
      BY <2>5, <2>7 DEF Field
  <1> QED
    BY <1>11 DEF last

\* A number below its length's place is below the place of its length.
LEMMA RestIsBelow ==
  ASSUME NEW rest \in Nat, NEW n \in 0 .. MaxPackedLen, rest \div Place[n] = 0
  PROVE  rest < Place[n]
  <1> DEFINE p == Place[n]
  <1>1. p \in Nat \ {0}
    BY ProductIsPlace
  <1>2. rest \div p = 0
    OBVIOUS
  <1> HIDE DEF p
  <1>3. rest % p \in 0 .. p - 1 /\ rest = p * (rest \div p) + (rest % p)
    BY <1>1, QuotientIs
  <1>4. p * 0 = 0
    BY <1>1
  <1>5. rest = rest % p
    BY <1>1, <1>2, <1>3, <1>4
  <1>6. rest < p
    BY <1>1, <1>3, <1>5
  <1> QED
    BY <1>6 DEF p

LEMMA PlacesGrow ==
  ASSUME NEW n \in 0 .. MaxPackedLen
  PROVE  Place[n] <= LengthPlace
  <1>1. PICK q \in Nat : LengthPlace = Place[n] * q
    BY PlaceDivides
  <1>2. Place[n] \in Nat \ {0} /\ LengthPlace \in Nat \ {0}
    <2>1. MaxPackedLen \in 0 .. MaxPackedLen
      BY NameAssumption
    <2> QED
      BY <2>1, ProductIsPlace DEF LengthPlace
  <1> DEFINE p == Place[n]
             l == LengthPlace
  <1>3. p \in Nat \ {0} /\ l \in Nat \ {0} /\ l = p * q
    BY <1>1, <1>2
  <1> HIDE DEF p, l
  <1>4. q # 0
    BY <1>3
  <1>5. 1 \in Nat /\ 1 <= q
    BY <1>4
  <1>6. p * 1 <= p * q
    BY <1>3, <1>5, ProductGrows
  <1>7. p <= l
    BY <1>3, <1>6
  <1> QED
    BY <1>7 DEF p, l

\* A name that has a number is what its number decodes to.
LEMMA EncodedDecodes ==
  ASSUME NEW str \in Seq(Nat), NEW code \in EncodeString(str)
  PROVE  DecodeString(code) = {str}
  <1> DEFINE n == Len(str)
  <1>1. n <= MaxPackedLen /\ (\A i \in 1 .. n : str[i] < CharsetSize) /\ code = n * LengthPlace + Packed(str)
    BY DEF EncodeString
  <1>2. \A i \in 1 .. n : str[i] < CharValues
    BY <1>1, NameAssumption
  <1>3. \A i \in 1 .. n : Field(code, i) = str[i]
    BY <1>1, <1>2, FieldsOfPacked
  <1>4. n \in 0 .. MaxPackedLen /\ MaxPackedLen \in 0 .. MaxPackedLen
    BY <1>1, NameAssumption
  <1>5. Packed(str) \in 0 .. Place[n] - 1
    <2>1. Packed(str) = PackedUpTo(str)[n]
      BY <1>1, PackedOneByOne
    <2>2. n \in 0 .. n
      OBVIOUS
    <2> QED
      BY <1>1, <1>2, <2>1, <2>2, PackedIsBelow
  <1>6. Place[n] \in Nat \ {0} /\ LengthPlace \in Nat \ {0} /\ Place[n] <= LengthPlace
    BY <1>4, ProductIsPlace, PlacesGrow DEF LengthPlace
  <1> DEFINE r == Packed(str)
             l == LengthPlace
             p == Place[n]
  <1>7. code \div l = n /\ code % l = r
    <2>1. r \in 0 .. l - 1 /\ l \in Nat \ {0} /\ n \in Nat /\ code = n * l + r
      BY <1>1, <1>5, <1>6
    <2> HIDE DEF n, r, l
    <2>2. code = l * n + r
      BY <2>1
    <2> QED
      BY <2>1, <2>2, OneQuotient
  <1>8. r \div p = 0
    <2>1. r \in 0 .. p - 1 /\ p \in Nat \ {0}
      BY <1>5, <1>6
    <2> HIDE DEF r, p
    <2>2. r = p * 0 + r /\ 0 \in Nat
      BY <2>1
    <2> QED
      BY <2>1, <2>2, OneQuotient
  <1>9. str = [i \in 1 .. n |-> Field(code, i)]
    BY <1>3
  <1> HIDE DEF n
  <1>10. \A i \in 1 .. n : Field(code, i) < CharsetSize
    BY <1>1, <1>3
  <1> QED
    BY <1>1, <1>7, <1>8, <1>9, <1>10 DEF DecodeString

LEMMA RemainderOfProduct ==
  ASSUME NEW a \in Nat, NEW b \in Nat \ {0}, NEW c \in Nat \ {0}
  PROVE  a % (b * c) = (a % b) + ((a \div b) % c) * b
  <1> DEFINE q == a \div b
             r == a % b
             p == q \div c
             s == q % c
  <1>1. q \in Nat /\ r \in 0 .. b - 1 /\ a = b * q + r
    BY QuotientIs
  <1>2. p \in Nat /\ s \in 0 .. c - 1 /\ q = c * p + s
    <2> HIDE DEF q
    <2> QED BY <1>1, QuotientIs
  <1> HIDE DEF q, r, p, s
  <1>3. b * c \in Nat \ {0}
    OBVIOUS
  <1>4. a = (b * c) * p + (r + s * b)
    <2>1. b * q = (b * c) * p + s * b
      BY <1>1, <1>2
    <2> DEFINE x == b * q
               y == (b * c) * p
               z == s * b
    <2>2. x \in Nat /\ y \in Nat /\ z \in Nat /\ r \in Nat /\ x = y + z /\ a = x + r
      BY <1>1, <1>2, <1>3, <2>1
    <2> HIDE DEF x, y, z
    <2>3. a = y + (r + z)
      BY <2>2
    <2> QED
      BY <2>3 DEF y, z
  <1>5. r + s * b \in 0 .. b * c - 1
    <2>1. s + 1 \in Nat /\ s + 1 <= c /\ s \in Nat
      BY <1>2
    <2>2. b * (s + 1) <= b * c
      BY <2>1, ProductGrows
    <2>3. b * (s + 1) = s * b + b /\ s * b \in Nat
      BY <2>1
    <2> DEFINE x == s * b
               y == b * c
    <2>4. x \in Nat /\ y \in Nat /\ x + b <= y /\ r \in 0 .. b - 1
      BY <1>1, <1>3, <2>2, <2>3
    <2> HIDE DEF x, y
    <2>5. r + x \in 0 .. y - 1
      BY <2>4
    <2> QED
      BY <2>5 DEF x, y
  <1> DEFINE m == b * c
             t == r + s * b
  <1>6. a % m = t
    <2>1. m \in Nat \ {0} /\ t \in 0 .. m - 1 /\ a = m * p + t
      BY <1>3, <1>4, <1>5
    <2> HIDE DEF m, t
    <2> QED
      BY <1>2, <2>1, OneQuotient
  <1> QED
    BY <1>6 DEF r, s, q

\* A number that a name is made of is the name's.
LEMMA DecodedEncodes ==
  ASSUME NEW code \in Nat, NEW str \in DecodeString(code)
  PROVE  EncodeString(str) = {code}
  <1> DEFINE l == LengthPlace
             n == code \div l
             rest == code % l
             u == PackedUpTo(str)
             T == {i \in 1 .. n : u[i] = code % Place[i]}
  <1>1. /\ n <= MaxPackedLen /\ \A i \in 1 .. n : Field(code, i) < CharsetSize
        /\ rest \div Place[n] = 0
        /\ str = [i \in 1 .. n |-> Field(code, i)]
    BY DEF DecodeString
  <1>2. MaxPackedLen \in Nat /\ CharsetSize \in Nat /\ CharsetSize <= CharValues /\ CharValues \in Nat \ {0}
        /\ MaxPackedLen \in 0 .. MaxPackedLen
    BY NameAssumption
  <1>3. l \in Nat \ {0}
    BY <1>2, ProductIsPlace DEF LengthPlace
  <1>4. n \in Nat /\ rest \in 0 .. l - 1 /\ code = l * n + rest
    <2> HIDE DEF l
    <2> QED BY <1>3, QuotientIs
  <1> HIDE DEF n, rest, l
  <1>5. \A i \in 0 .. n : i \in 0 .. MaxPackedLen /\ Place[i] \in Nat \ {0}
    <2>1. \A i \in 0 .. n : i \in 0 .. MaxPackedLen
      BY <1>1, <1>2, <1>4
    <2> QED
      BY <2>1, ProductIsPlace
  <1>6. \A i \in 1 .. n : Field(code, i) \in 0 .. CharValues - 1
    <2> SUFFICES ASSUME NEW i \in 1 .. n PROVE Field(code, i) \in 0 .. CharValues - 1
      OBVIOUS
    <2>1. i - 1 \in 0 .. n
      BY <1>4
    <2>2. code \div Place[i - 1] \in Nat
      BY <1>5, <2>1, QuotientIs
    <2> QED
      BY <1>2, <2>2, QuotientIs DEF Field
  <1>7. str \in Seq(Nat) /\ Len(str) = n /\ \A i \in 1 .. n : str[i] = Field(code, i) /\ str[i] < CharsetSize
    <2>1. \A i \in 1 .. n : Field(code, i) \in Nat
      BY <1>2, <1>6
    <2> QED
      BY <1>1, <1>4, <2>1
  <1>8. /\ Packed(str) = u[n] /\ u[0] = 0
        /\ \A i \in 1 .. n : u[i] = u[i - 1] + str[i] * Place[i - 1]
    BY <1>1, <1>7, PackedOneByOne
  <1> HIDE DEF u
  <1>9. ASSUME NEW i \in 1 .. n, \A q \in 1 .. n : q < i => q \in T
        PROVE  i \in T
    <2>1. i = 1 \/ (i - 1 \in 1 .. n /\ i - 1 < i)
      BY <1>4
    <2>2. u[i - 1] = code % Place[i - 1]
      <3>1. CASE i = 1
        <4>1. Place[i - 1] = 1 /\ u[i - 1] = 0
          BY <1>8, <3>1, PlacesAre
        <4> QED
          BY <4>1
      <3>2. CASE i # 1
        <4>1. i - 1 \in T
          <5> HIDE DEF T
          <5> QED BY <1>9, <2>1, <3>2
        <4> QED
          BY <4>1
      <3> QED
        BY <3>1, <3>2
    <2>3. i - 1 \in 0 .. n /\ i \in 1 .. MaxPackedLen
      BY <1>1, <1>2, <1>4
    <2> DEFINE b == Place[i - 1]
    <2>4. b \in Nat \ {0} /\ Place[i] = CharValues * b
      BY <1>5, <2>3, PlacesAre
    <2>5. u[i] = (code % b) + ((code \div b) % CharValues) * b
      BY <1>7, <1>8, <2>2 DEF Field
    <2> HIDE DEF b
    <2>6. CharValues * b = b * CharValues
      BY <1>2, <2>4
    <2>7. code % (b * CharValues) = (code % b) + ((code \div b) % CharValues) * b
      BY <1>2, <2>4, RemainderOfProduct
    <2> QED
      BY <2>4, <2>5, <2>6, <2>7
  <1>10. \A i \in 1 .. n : i \in T
    <2> HIDE DEF T
    <2> QED BY <1>4, <1>9, FromTheStart
  <1>11. u[n] = code % Place[n]
    <2>1. CASE n = 0
      <3>1. Place[n] = 1 /\ u[n] = 0
        BY <1>8, <2>1, PlacesAre
      <3> QED
        BY <3>1
    <2>2. CASE n # 0
      <3>1. n \in 1 .. n
        BY <1>4, <2>2
      <3> QED
        BY <1>10, <3>1
    <2> QED
      BY <2>1, <2>2
  <1> DEFINE p == Place[n]
  <1>12. p \in Nat \ {0} /\ n \in 0 .. MaxPackedLen
    BY <1>4, <1>5
  <1>13. rest \in 0 .. p - 1
    <2>1. rest \in Nat
      BY <1>4
    <2>2. rest < Place[n]
      BY <1>1, <1>12, <2>1, RestIsBelow
    <2> QED
      BY <1>12, <2>1, <2>2
  <1>14. PICK q \in Nat : l = p * q
    BY <1>12, PlaceDivides DEF l
  <1> HIDE DEF p
  <1>15. code % p = rest
    <2>1. q * n \in Nat /\ (p * q) * n = p * (q * n) /\ p * (q * n) \in Nat
      BY <1>4, <1>12
    <2>2. code = p * (q * n) + rest
      BY <1>4, <1>14, <2>1
    <2> QED
      BY <1>12, <1>13, <2>1, <2>2, OneQuotient
  <1>16. Packed(str) = rest
    BY <1>8, <1>11, <1>15 DEF p
  <1>17. n * l + rest = code
    <2>1. n * l = l * n
      BY <1>3, <1>4
    <2> QED
      BY <1>4, <2>1
  <1>18. DOMAIN str = 1 .. n
    BY <1>7
  <1> QED
    BY <1>1, <1>7, <1>16, <1>17, <1>18 DEF EncodeString, l

--------------------------------------------------------------------------------
(* What becomes of a subject on its way *)

CommandItems(line) == {SerializeMessage(m) : m \in RouteCommand(line)}
EventsOf(item) == UNION {OnRawMessage(m) : m \in DeserializeMessage(item)}
AnswerItems(event) == {SerializeMessage(m) : m \in SendResponse(event)}
LinesOf(item) == {RouteMessage(r.value) : r \in {q \in RouteRead(item) : q.is = "message"}}
ItemOf(s) == SerializeGameState(CreateGameStateDTO(s))
Drawn(r) == IF r.is = "state" THEN RenderGameState(r.value) ELSE {}

Trip(kind, of) ==
  CASE kind = "name" ->
         {<<"made", {of}>>, <<"sent", HandleJoin(of)>>, <<"shown", UNION {DecodeString(c) : c \in HandleJoin(of)}>>}
    [] kind = "code" -> {<<"made", {of}>>, <<"shown", DecodeString(of)>>}
    [] kind = "line" ->
         {<<"made", {of}>>, <<"sent", CommandItems(of)>>, <<"shown", UNION {EventsOf(i) : i \in CommandItems(of)}>>}
    [] kind = "message" ->
         {<<"made", {of}>>, <<"sent", {SerializeMessage(of)}>>, <<"shown", EventsOf(SerializeMessage(of))>>}
    [] kind = "event" ->
         {<<"made", {of}>>, <<"sent", AnswerItems(of)>>, <<"shown", UNION {LinesOf(i) : i \in AnswerItems(of)}>>}
    [] kind = "state" ->
         {<<"made", {of}>>, <<"taken", {CreateGameStateDTO(of)}>>, <<"sent", {ItemOf(of)}>>,
          <<"read", RouteRead(ItemOf(of))>>, <<"shown", UNION {Drawn(r) : r \in RouteRead(ItemOf(of))}>>}
    [] OTHER -> {<<"nowhere", {}>>}

Subject(kind, of) ==
  /\ kind = "name" => of \in Name
  /\ kind = "code" => of \in Code
  /\ kind = "line" => of \in Line \cup {CommandFromKey[key] : key \in DOMAIN CommandFromKey}
  /\ kind = "message" => of \in Foreign
  /\ kind = "event" => of \in Said
  /\ kind = "state" => of \in Dungeon

OnItsWay ==
  \E kind, of, at, now :
    /\ journey = [subject |-> [kind |-> kind, of |-> of], at |-> at, now |-> now]
    /\ Subject(kind, of)
    /\ <<at, now>> \in Trip(kind, of)

\* In the run, a subject that is nowhere has no "of".
NotUnderWay == journey = [subject |-> Nowhere, at |-> "nowhere", now |-> {}]

UnderWay == NotUnderWay \/ OnItsWay

LEMMA SetsOut ==
  ASSUME CodecsInit
  PROVE  UnderWay
  <1>1. ASSUME NEW kind, NEW of, Subject(kind, of), journey = Setting(kind, of),
               <<"made", {of}>> \in Trip(kind, of)
        PROVE  OnItsWay
    BY <1>1 DEF OnItsWay, Setting
  <1>2. /\ \A name \in Name : Subject("name", name) /\ <<"made", {name}>> \in Trip("name", name)
        /\ \A code \in Code : Subject("code", code) /\ <<"made", {code}>> \in Trip("code", code)
        /\ \A message \in Foreign : Subject("message", message) /\ <<"made", {message}>> \in Trip("message", message)
        /\ \A event \in Said : Subject("event", event) /\ <<"made", {event}>> \in Trip("event", event)
        /\ \A d \in Dungeon : Subject("state", d) /\ <<"made", {d}>> \in Trip("state", d)
    BY DEF Subject, Trip
  <1>3. \A line : <<"made", {line}>> \in Trip("line", line)
    BY DEF Trip
  <1>4. /\ \A line \in Line : Subject("line", line)
        /\ \A key \in DOMAIN CommandFromKey : Subject("line", CommandFromKey[key])
    <2> DEFINE K == CommandFromKey
    <2> HIDE DEF K
    <2>1. \A key \in DOMAIN K : K[key] \in {K[k] : k \in DOMAIN K}
      OBVIOUS
    <2>2. \A line : line \in Line \cup {K[k] : k \in DOMAIN K} => Subject("line", line)
      BY Zenon DEF Subject, K
    <2> QED
      BY <2>1, <2>2 DEF K
  <1>5. CASE journey = [subject |-> Nowhere, at |-> "nowhere", now |-> {}]
    BY <1>5 DEF UnderWay, NotUnderWay
  <1>6. CASE \E name \in Name : journey = Setting("name", name)
    BY <1>1, <1>2, <1>6 DEF UnderWay
  <1>7. CASE \E code \in Code : journey = Setting("code", code)
    BY <1>1, <1>2, <1>7 DEF UnderWay
  <1>8. CASE \E line \in Line : journey = Setting("line", line)
    BY <1>1, <1>3, <1>4, <1>8 DEF UnderWay
  <1>9. CASE \E key \in DOMAIN CommandFromKey : journey = Setting("line", CommandFromKey[key])
    BY <1>1, <1>3, <1>4, <1>9 DEF UnderWay
  <1>10. CASE \E event \in Said : journey = Setting("event", event)
    BY <1>1, <1>2, <1>10 DEF UnderWay
  <1>11. CASE \E d \in Dungeon : journey = Setting("state", d)
    BY <1>1, <1>2, <1>11 DEF UnderWay
  <1>12. CASE \E message \in Foreign : journey = Setting("message", message)
    BY <1>1, <1>2, <1>12 DEF UnderWay
  <1> QED
    BY <1>5, <1>6, <1>7, <1>8, <1>9, <1>10, <1>11, <1>12, Zenon DEF CodecsInit

LEMMA Arrives ==
  ASSUME NEW kind, NEW of, NEW at, NEW now, Subject(kind, of), <<at, now>> \in Trip(kind, of),
         journey' = [subject |-> [kind |-> kind, of |-> of], at |-> at, now |-> now]
  PROVE  UnderWay'
  BY DEF UnderWay, OnItsWay, Subject, Trip, CommandItems, EventsOf, AnswerItems, LinesOf, ItemOf, Drawn

LEMMA GoesOn == UnderWay /\ [CodecsNext]_<<streamVars, journey>> => UnderWay'
  <1> SUFFICES ASSUME UnderWay, [CodecsNext]_<<streamVars, journey>> PROVE UnderWay'
    OBVIOUS
  <1> DEFINE Steps == \/ TypeName \/ ShowName \/ ShowCode
                      \/ SendCommand \/ HearCommand \/ SendForeign \/ HearForeign
                      \/ SendAnswer \/ ShowAnswer
                      \/ TakeSnapshot \/ SendState \/ ReadState \/ DrawState
  <1>1. CASE UNCHANGED journey
    BY <1>1 DEF UnderWay, NotUnderWay, OnItsWay
  <1>2. CASE Steps
    <2>1. \E kind \in {"name", "code", "line", "message", "event", "state"} : journey.subject.kind = kind
      BY <1>2 DEF Go, TypeName, ShowName, ShowCode, SendCommand, HearCommand,
                  SendForeign, HearForeign, SendAnswer, ShowAnswer,
                  TakeSnapshot, SendState, ReadState, DrawState
    <2>2. ~ NotUnderWay
      BY <2>1 DEF NotUnderWay, Nowhere
    <2>3. PICK kind, of, at, now :
            /\ journey = [subject |-> [kind |-> kind, of |-> of], at |-> at, now |-> now]
            /\ Subject(kind, of)
            /\ <<at, now>> \in Trip(kind, of)
      BY <2>2 DEF UnderWay, OnItsWay
    <2>4. CASE TypeName
      <3>1. /\ kind = "name" /\ at = "made"
            /\ journey' = [subject |-> [kind |-> kind, of |-> of], at |-> "sent",
                           now |-> UNION {HandleJoin(v) : v \in now}]
        BY <2>3, <2>4 DEF TypeName, Go
      <3>2. now = {of}
        BY <2>3, <3>1 DEF Trip
      <3>3. UNION {HandleJoin(v) : v \in now} = HandleJoin(of)
        BY <3>2
      <3>4. <<"sent", HandleJoin(of)>> \in Trip(kind, of)
        BY <3>1 DEF Trip
      <3> QED
        BY <2>3, <3>1, <3>3, <3>4, Arrives
    <2>5. CASE ShowName
      <3>1. /\ kind = "name" /\ at = "sent"
            /\ journey' = [subject |-> [kind |-> kind, of |-> of], at |-> "shown",
                           now |-> UNION {DecodeString(v) : v \in now}]
        BY <2>3, <2>5 DEF ShowName, Go
      <3>2. now = HandleJoin(of)
        BY <2>3, <3>1 DEF Trip
      <3>3. UNION {DecodeString(v) : v \in now} = UNION {DecodeString(c) : c \in HandleJoin(of)}
        BY <3>2
      <3>4. <<"shown", UNION {DecodeString(c) : c \in HandleJoin(of)}>> \in Trip(kind, of)
        BY <3>1 DEF Trip
      <3> QED
        BY <2>3, <3>1, <3>3, <3>4, Arrives
    <2>6. CASE ShowCode
      <3>1. /\ kind = "code" /\ at = "made"
            /\ journey' = [subject |-> [kind |-> kind, of |-> of], at |-> "shown",
                           now |-> UNION {DecodeString(v) : v \in now}]
        BY <2>3, <2>6 DEF ShowCode, Go
      <3>2. now = {of}
        BY <2>3, <3>1 DEF Trip
      <3>3. UNION {DecodeString(v) : v \in now} = DecodeString(of)
        BY <3>2
      <3>4. <<"shown", DecodeString(of)>> \in Trip(kind, of)
        BY <3>1 DEF Trip
      <3> QED
        BY <2>3, <3>1, <3>3, <3>4, Arrives
    <2>7. CASE SendCommand
      <3>1. /\ kind = "line" /\ at = "made"
            /\ journey' = [subject |-> [kind |-> kind, of |-> of], at |-> "sent",
                           now |-> UNION {CommandItems(v) : v \in now}]
        BY <2>3, <2>7 DEF SendCommand, Go, CommandItems
      <3>2. now = {of}
        BY <2>3, <3>1 DEF Trip
      <3>3. UNION {CommandItems(v) : v \in now} = CommandItems(of)
        BY <3>2
      <3>4. <<"sent", CommandItems(of)>> \in Trip(kind, of)
        BY <3>1 DEF Trip
      <3> QED
        BY <2>3, <3>1, <3>3, <3>4, Arrives
    <2>8. CASE HearCommand
      <3>1. /\ kind = "line" /\ at = "sent"
            /\ journey' = [subject |-> [kind |-> kind, of |-> of], at |-> "shown",
                           now |-> UNION {EventsOf(v) : v \in now}]
        BY <2>3, <2>8 DEF HearCommand, Go, EventsOf
      <3>2. now = CommandItems(of)
        BY <2>3, <3>1 DEF Trip
      <3>3. UNION {EventsOf(v) : v \in now} = UNION {EventsOf(i) : i \in CommandItems(of)}
        BY <3>2
      <3>4. <<"shown", UNION {EventsOf(i) : i \in CommandItems(of)}>> \in Trip(kind, of)
        BY <3>1 DEF Trip
      <3> QED
        BY <2>3, <3>1, <3>3, <3>4, Arrives
    <2>9. CASE SendAnswer
      <3>1. /\ kind = "event" /\ at = "made"
            /\ journey' = [subject |-> [kind |-> kind, of |-> of], at |-> "sent",
                           now |-> UNION {AnswerItems(v) : v \in now}]
        BY <2>3, <2>9 DEF SendAnswer, Go, AnswerItems
      <3>2. now = {of}
        BY <2>3, <3>1 DEF Trip
      <3>3. UNION {AnswerItems(v) : v \in now} = AnswerItems(of)
        BY <3>2
      <3>4. <<"sent", AnswerItems(of)>> \in Trip(kind, of)
        BY <3>1 DEF Trip
      <3> QED
        BY <2>3, <3>1, <3>3, <3>4, Arrives
    <2>10. CASE ShowAnswer
      <3>1. /\ kind = "event" /\ at = "sent"
            /\ journey' = [subject |-> [kind |-> kind, of |-> of], at |-> "shown",
                           now |-> UNION {LinesOf(v) : v \in now}]
        BY <2>3, <2>10 DEF ShowAnswer, Go, LinesOf
      <3>2. now = AnswerItems(of)
        BY <2>3, <3>1 DEF Trip
      <3>3. UNION {LinesOf(v) : v \in now} = UNION {LinesOf(i) : i \in AnswerItems(of)}
        BY <3>2
      <3>4. <<"shown", UNION {LinesOf(i) : i \in AnswerItems(of)}>> \in Trip(kind, of)
        BY <3>1 DEF Trip
      <3> QED
        BY <2>3, <3>1, <3>3, <3>4, Arrives
    <2>11. CASE TakeSnapshot
      <3>1. /\ kind = "state" /\ at = "made"
            /\ journey' = [subject |-> [kind |-> kind, of |-> of], at |-> "taken",
                           now |-> UNION {{CreateGameStateDTO(v)} : v \in now}]
        BY <2>3, <2>11 DEF TakeSnapshot, Go
      <3>2. now = {of}
        BY <2>3, <3>1 DEF Trip
      <3>3. UNION {{CreateGameStateDTO(v)} : v \in now} = {CreateGameStateDTO(of)}
        BY <3>2
      <3>4. <<"taken", {CreateGameStateDTO(of)}>> \in Trip(kind, of)
        BY <3>1 DEF Trip
      <3> QED
        BY <2>3, <3>1, <3>3, <3>4, Arrives
    <2>12. CASE SendState
      <3>1. /\ kind = "state" /\ at = "taken"
            /\ journey' = [subject |-> [kind |-> kind, of |-> of], at |-> "sent",
                           now |-> UNION {{SerializeGameState(v)} : v \in now}]
        BY <2>3, <2>12 DEF SendState, Go
      <3>2. now = {CreateGameStateDTO(of)}
        BY <2>3, <3>1 DEF Trip
      <3>3. UNION {{SerializeGameState(v)} : v \in now} = {ItemOf(of)}
        BY <3>2 DEF ItemOf
      <3>4. <<"sent", {ItemOf(of)}>> \in Trip(kind, of)
        BY <3>1 DEF Trip
      <3> QED
        BY <2>3, <3>1, <3>3, <3>4, Arrives
    <2>13. CASE ReadState
      <3>1. /\ kind = "state" /\ at = "sent"
            /\ journey' = [subject |-> [kind |-> kind, of |-> of], at |-> "read",
                           now |-> UNION {RouteRead(v) : v \in now}]
        BY <2>3, <2>13 DEF ReadState, Go
      <3>2. now = {ItemOf(of)}
        BY <2>3, <3>1 DEF Trip
      <3>3. UNION {RouteRead(v) : v \in now} = RouteRead(ItemOf(of))
        BY <3>2 DEF ItemOf
      <3>4. <<"read", RouteRead(ItemOf(of))>> \in Trip(kind, of)
        BY <3>1 DEF Trip
      <3> QED
        BY <2>3, <3>1, <3>3, <3>4, Arrives
    <2>14. CASE DrawState
      <3>1. /\ kind = "state" /\ at = "read"
            /\ journey' = [subject |-> [kind |-> kind, of |-> of], at |-> "shown",
                           now |-> UNION {Drawn(v) : v \in now}]
        BY <2>3, <2>14 DEF DrawState, Go, Drawn
      <3>2. now = RouteRead(ItemOf(of))
        BY <2>3, <3>1 DEF Trip
      <3>3. UNION {Drawn(v) : v \in now} = UNION {Drawn(r) : r \in RouteRead(ItemOf(of))}
        BY <3>2 DEF ItemOf
      <3>4. <<"shown", UNION {Drawn(r) : r \in RouteRead(ItemOf(of))}>> \in Trip(kind, of)
        BY <3>1 DEF Trip
      <3> QED
        BY <2>3, <3>1, <3>3, <3>4, Arrives
    <2>15. CASE SendForeign
      <3>1. /\ kind = "message" /\ at = "made"
            /\ journey' = [subject |-> [kind |-> kind, of |-> of], at |-> "sent",
                           now |-> UNION {{SerializeMessage(v)} : v \in now}]
        BY <2>3, <2>15 DEF SendForeign, Go
      <3>2. now = {of}
        BY <2>3, <3>1 DEF Trip
      <3>3. UNION {{SerializeMessage(v)} : v \in now} = {SerializeMessage(of)}
        BY <3>2
      <3>4. <<"sent", {SerializeMessage(of)}>> \in Trip(kind, of)
        BY <3>1 DEF Trip
      <3> QED
        BY <2>3, <3>1, <3>3, <3>4, Arrives
    <2>16. CASE HearForeign
      <3>1. /\ kind = "message" /\ at = "sent"
            /\ journey' = [subject |-> [kind |-> kind, of |-> of], at |-> "shown",
                           now |-> UNION {EventsOf(v) : v \in now}]
        BY <2>3, <2>16 DEF HearForeign, Go, EventsOf
      <3>2. now = {SerializeMessage(of)}
        BY <2>3, <3>1 DEF Trip
      <3>3. UNION {EventsOf(v) : v \in now} = EventsOf(SerializeMessage(of))
        BY <3>2
      <3>4. <<"shown", EventsOf(SerializeMessage(of))>> \in Trip(kind, of)
        BY <3>1 DEF Trip
      <3> QED
        BY <2>3, <3>1, <3>3, <3>4, Arrives
    <2> QED
      BY <1>2, <2>4, <2>5, <2>6, <2>7, <2>8, <2>9, <2>10, <2>11, <2>12, <2>13, <2>14, <2>15, <2>16
  <1> QED
    BY <1>1, <1>2 DEF CodecsNext

LEMMA AllUnderWay == CodecsSpec => []UnderWay
  <1> QED
    BY SetsOut, GoesOn, PTL DEF CodecsSpec

LEMMA WhatIsShown ==
  ASSUME UnderWay, NEW kind \in {"name", "code", "line", "message", "event", "state"}, Shown(kind)
  PROVE  /\ Subject(kind, journey.subject.of)
         /\ <<"shown", journey.now>> \in Trip(kind, journey.subject.of)
  <1>1. ~ NotUnderWay
    BY DEF NotUnderWay, Nowhere, Shown
  <1>2. PICK k, of, at, now :
          /\ journey = [subject |-> [kind |-> k, of |-> of], at |-> at, now |-> now]
          /\ Subject(k, of)
          /\ <<at, now>> \in Trip(k, of)
    BY <1>1 DEF UnderWay, OnItsWay
  <1>3. k = kind /\ at = "shown"
    BY <1>2 DEF Shown
  <1> QED
    BY <1>2, <1>3

(***************************************************************************)
(* JOIN sends a name exactly if it has the right length and letters, and   *)
(* the name comes back as it was typed; and no two numbers show the same   *)
(* name (hash.h:24-77, NameCodec).                                         *)
(***************************************************************************)
THEOREM NamesSurviveAlways == CodecsSpec => []NamesSurvive
  <1>1. UnderWay => NamesSurvive
    <2> SUFFICES ASSUME UnderWay PROVE NamesSurvive
      OBVIOUS
    <2> DEFINE of == journey.subject.of
    <2>1. ASSUME Shown("name")
          PROVE  /\ of \in Name
                 /\ journey.now = UNION {DecodeString(c) : c \in HandleJoin(of)}
      BY <2>1, WhatIsShown DEF Subject, Trip
    <2>2. ASSUME Shown("code")
          PROVE  of \in Code /\ journey.now = DecodeString(of)
      BY <2>2, WhatIsShown DEF Subject, Trip
    <2> HIDE DEF of
    <2>3. ASSUME Shown("name")
          PROVE  journey.now = IF /\ Len(of) \in MinNameLen .. MaxPackedLen
                                  /\ \A i \in DOMAIN of : of[i] < CharsetSize
                               THEN {of} ELSE {}
      <3>1. of \in Seq(Character) /\ of \in Seq(Nat)
        BY <2>1, <2>3, CodecsAssumption, NameAssumption DEF Character
      <3>2. CASE /\ Len(of) \in MinNameLen .. MaxPackedLen
                 /\ \A i \in DOMAIN of : of[i] < CharsetSize
        <4> DEFINE code == Len(of) * LengthPlace + Packed(of)
        <4>1. HandleJoin(of) = EncodeString(of) /\ EncodeString(of) = {code}
          BY <3>1, <3>2, NameAssumption DEF HandleJoin, EncodeString
        <4> HIDE DEF code
        <4>2. DecodeString(code) = {of}
          BY <3>1, <4>1, EncodedDecodes
        <4>3. UNION {DecodeString(c) : c \in HandleJoin(of)} = {of}
          BY <4>1, <4>2
        <4> QED
          BY <2>1, <2>3, <3>2, <4>3
      <3>3. CASE ~ (/\ Len(of) \in MinNameLen .. MaxPackedLen
                    /\ \A i \in DOMAIN of : of[i] < CharsetSize)
        <4>1. HandleJoin(of) = {}
          BY <3>3 DEF HandleJoin, EncodeString
        <4>2. UNION {DecodeString(c) : c \in HandleJoin(of)} = {}
          BY <4>1
        <4> QED
          BY <2>1, <2>3, <3>3, <4>2
      <3> QED
        BY <3>2, <3>3
    <2>4. ASSUME Shown("code"), NEW name \in journey.now
          PROVE  EncodeString(name) = {of}
      <3>1. of \in Nat
        BY <2>2, <2>4 DEF Code
      <3>2. name \in DecodeString(of)
        BY <2>2, <2>4
      <3> QED
        BY <3>1, <3>2, DecodedEncodes
    <2> QED
      BY <2>3, <2>4 DEF NamesSurvive, of
  <1> QED
    BY <1>1, AllUnderWay, PTL

--------------------------------------------------------------------------------
(* States and their pictures *)

LEMMA UnsignedIs ==
  ASSUME NEW x \in Coordinate
  PROVE  /\ ToUnsigned(x) = IF x < 0 THEN x + 2 * HalfRange ELSE x
         /\ ToUnsigned(x) \in 0 .. 2 * HalfRange - 1
         /\ ToSigned(ToUnsigned(x)) = x
  <1> DEFINE w == 2 * HalfRange
  <1>1. HalfRange \in Nat /\ HalfRange > 0 /\ x \in Int /\ -HalfRange <= x /\ x < HalfRange /\ w \in Nat
    BY SnapshotAssumption DEF Coordinate
  <1>2. x % w = IF x < 0 THEN x + w ELSE x
    BY <1>1
  <1> QED
    BY <1>1, <1>2 DEF ToUnsigned, ToSigned

LEMMA UnsignedDiffers ==
  ASSUME NEW x \in Coordinate, NEW y \in Coordinate
  PROVE  ToUnsigned(x) = ToUnsigned(y) <=> x = y
  BY UnsignedIs

\* A line of coordinates on one side of zero stays a line.
LEMMA UnsignedLine ==
  ASSUME NEW a \in Coordinate, NEW b \in Coordinate, a <= b
  PROVE  /\ OneSide(a, b) => /\ ToUnsigned(b) - ToUnsigned(a) = b - a
                             /\ b - a \in 0 .. HalfRange - 1
                             /\ \A j \in 1 .. b - a + 1 : /\ a + j - 1 \in Coordinate
                                                          /\ ToUnsigned(a) + j - 1 = ToUnsigned(a + j - 1)
         /\ ~ OneSide(a, b) => ToUnsigned(b) - ToUnsigned(a) < 0
  <1>1. HalfRange \in Nat /\ HalfRange > 0
    BY SnapshotAssumption
  <1>2. a \in Int /\ b \in Int /\ -HalfRange <= a /\ b < HalfRange
    BY <1>1 DEF Coordinate
  <1>3. /\ ToUnsigned(a) = IF a < 0 THEN a + 2 * HalfRange ELSE a
        /\ ToUnsigned(b) = IF b < 0 THEN b + 2 * HalfRange ELSE b
    BY UnsignedIs
  <1>4. OneSide(a, b) <=> (a < 0 <=> b < 0)
    BY DEF OneSide
  <1>5. ASSUME OneSide(a, b), NEW j \in 1 .. b - a + 1
        PROVE  /\ a + j - 1 \in Coordinate
               /\ ToUnsigned(a) + j - 1 = ToUnsigned(a + j - 1)
    <2>1. a + j - 1 \in Coordinate
      BY <1>1, <1>2 DEF Coordinate
    <2>2. ToUnsigned(a + j - 1) = IF a + j - 1 < 0 THEN a + j - 1 + 2 * HalfRange ELSE a + j - 1
      BY <2>1, UnsignedIs
    <2>3. a + j - 1 < 0 <=> a < 0
      BY <1>2, <1>4, <1>5
    <2> QED
      BY <1>1, <1>2, <1>3, <2>1, <2>2, <2>3
  <1>6. OneSide(a, b) => ToUnsigned(b) - ToUnsigned(a) = b - a /\ b - a \in 0 .. HalfRange - 1
    BY <1>1, <1>2, <1>3, <1>4
  <1>7. ~ OneSide(a, b) => ToUnsigned(b) - ToUnsigned(a) < 0
    BY <1>1, <1>2, <1>3, <1>4
  <1> QED
    BY <1>5, <1>6, <1>7

\* The client divides where the picture's size is a product.
LEMMA SizeByQuotient ==
  ASSUME NEW a \in Nat \ {0}, NEW b \in Nat \ {0}, NEW m \in Nat
  PROVE  a > m \div b <=> a * b > m
  <1> DEFINE q == m \div b
             r == m % b
  <1>1. q \in Nat /\ r \in 0 .. b - 1 /\ m = b * q + r /\ b * q \in Nat
    <2>1. q \in Nat /\ r \in 0 .. b - 1 /\ m = b * q + r
      BY QuotientIs
    <2> HIDE DEF q, r
    <2> QED
      BY <2>1
  <1>2. a * b = b * a /\ b * a \in Nat
    OBVIOUS
  <1> HIDE DEF q, r
  <1>3. CASE a <= q
    <2>1. b * a <= b * q
      BY <1>1, <1>3, ProductGrows
    <2> DEFINE ba == b * a
               bq == b * q
    <2>2. ba \in Nat /\ bq \in Nat /\ ba <= bq /\ m = bq + r /\ a * b = ba
      BY <1>1, <1>2, <2>1
    <2> HIDE DEF ba, bq
    <2> QED
      BY <1>1, <1>3, <2>2 DEF q
  <1>4. CASE q + 1 <= a
    <2>1. b * (q + 1) <= b * a
      BY <1>1, <1>4, ProductGrows
    <2>2. b * (q + 1) = b * q + b
      BY <1>1
    <2> DEFINE ba == b * a
               bq == b * q
    <2>3. ba \in Nat /\ bq \in Nat /\ bq + b <= ba /\ m = bq + r /\ a * b = ba
      BY <1>1, <1>2, <2>1, <2>2
    <2> HIDE DEF ba, bq
    <2> QED
      BY <1>1, <1>4, <2>3 DEF q
  <1> QED
    BY <1>1, <1>3, <1>4

WellFormed(d) ==
  /\ d.blc \in Point /\ d.trc \in Point
  /\ d.barriers \in Seq(Point) /\ d.players \in Seq(Being) /\ d.monsters \in Seq(Being)
  /\ d.blc.x <= d.trc.x /\ d.blc.y <= d.trc.y

LEMMA DungeonIs ==
  ASSUME NEW d \in Dungeon
  PROVE  WellFormed(d)
  BY CodecsAssumption DEF WellFormed

LEMMA SnapshotIs ==
  ASSUME NEW d
  PROVE  LET s == CreateGameStateDTO(d) IN
         /\ s.blc_x = ToUnsigned(d.blc.x) /\ s.blc_y = ToUnsigned(d.blc.y)
         /\ s.trc_x = ToUnsigned(d.trc.x) /\ s.trc_y = ToUnsigned(d.trc.y)
         /\ s.barriers = [i \in DOMAIN d.barriers |->
                            [pos_x |-> ToUnsigned(d.barriers[i].x), pos_y |-> ToUnsigned(d.barriers[i].y)]]
         /\ s.players = [i \in DOMAIN d.players |-> EntitySnapshot(d.players[i], 0)]
         /\ s.mobs = [i \in DOMAIN d.monsters |-> EntitySnapshot(d.monsters[i], 1)]
         /\ s = [blc_x |-> s.blc_x, blc_y |-> s.blc_y, trc_x |-> s.trc_x, trc_y |-> s.trc_y,
                 barriers |-> s.barriers, players |-> s.players, mobs |-> s.mobs]
  BY DEF CreateGameStateDTO, EntityType

IsShownAt(shots, x, y) ==
  \E i \in DOMAIN shots : shots[i].pos_x = ToUnsigned(x) /\ shots[i].pos_y = ToUnsigned(y)

\* Who stands in a cell stands there in the snapshot.
LEMMA StandsInSnapshot ==
  ASSUME NEW entities \in Seq(Being), NEW type, NEW x \in Coordinate, NEW y \in Coordinate,
         NEW shots, shots = [i \in DOMAIN entities |-> EntitySnapshot(entities[i], type)]
  PROVE  IsShownAt(shots, x, y) <=> StandsAt(entities, x, y)
  <1>1. ASSUME NEW i \in DOMAIN entities
        PROVE  (shots[i].pos_x = ToUnsigned(x) /\ shots[i].pos_y = ToUnsigned(y))
                 <=> entities[i].at = [x |-> x, y |-> y]
    <2> DEFINE p == entities[i].at
    <2>1. entities[i] \in Being
      OBVIOUS
    <2>10. p \in Point
      BY <2>1 DEF Being
    <2>2. shots[i].pos_x = ToUnsigned(p.x) /\ shots[i].pos_y = ToUnsigned(p.y)
      BY DEF EntitySnapshot
    <2> HIDE DEF p
    <2>3. p.x \in Coordinate /\ p.y \in Coordinate /\ p = [x |-> p.x, y |-> p.y]
      BY <2>10 DEF Point
    <2>4. (ToUnsigned(p.x) = ToUnsigned(x) <=> p.x = x) /\ (ToUnsigned(p.y) = ToUnsigned(y) <=> p.y = y)
      BY <2>3, UnsignedDiffers
    <2>5. p = [x |-> x, y |-> y] <=> p.x = x /\ p.y = y
      BY <2>3
    <2> QED
      BY <2>2, <2>4, <2>5 DEF p
  <1>2. DOMAIN shots = DOMAIN entities
    OBVIOUS
  <1> QED
    BY <1>1, <1>2 DEF StandsAt, IsShownAt

LEMMA BarrierInSnapshot ==
  ASSUME NEW barriers \in Seq(Point), NEW x \in Coordinate, NEW y \in Coordinate,
         NEW shots, shots = [i \in DOMAIN barriers |->
                              [pos_x |-> ToUnsigned(barriers[i].x), pos_y |-> ToUnsigned(barriers[i].y)]]
  PROVE  IsShownAt(shots, x, y) <=> [x |-> x, y |-> y] \in Range(barriers)
  <1>1. ASSUME NEW i \in DOMAIN barriers
        PROVE  (shots[i].pos_x = ToUnsigned(x) /\ shots[i].pos_y = ToUnsigned(y))
                 <=> barriers[i] = [x |-> x, y |-> y]
    <2> DEFINE p == barriers[i]
    <2>1. p \in Point
      OBVIOUS
    <2>2. shots[i].pos_x = ToUnsigned(p.x) /\ shots[i].pos_y = ToUnsigned(p.y)
      OBVIOUS
    <2> HIDE DEF p
    <2>3. p.x \in Coordinate /\ p.y \in Coordinate /\ p = [x |-> p.x, y |-> p.y]
      BY <2>1 DEF Point
    <2>4. (ToUnsigned(p.x) = ToUnsigned(x) <=> p.x = x) /\ (ToUnsigned(p.y) = ToUnsigned(y) <=> p.y = y)
      BY <2>3, UnsignedDiffers
    <2>5. p = [x |-> x, y |-> y] <=> p.x = x /\ p.y = y
      BY <2>3
    <2> QED
      BY <2>2, <2>4, <2>5 DEF p
  <1>2. DOMAIN shots = DOMAIN barriers
    OBVIOUS
  <1> QED
    BY <1>1, <1>2 DEF Range, IsShownAt

\* What the client draws in a cell is what is there.
LEMMA SymbolIsCell ==
  ASSUME NEW d, WellFormed(d), NEW x \in Coordinate, NEW y \in Coordinate
  PROVE  SymbolAt(CreateGameStateDTO(d), ToUnsigned(x), ToUnsigned(y)) = CellOf(d, x, y)
  <1> DEFINE s == CreateGameStateDTO(d)
             ux == ToUnsigned(x)
             uy == ToUnsigned(y)
             Here(entries) == IsShownAt(entries, x, y)
  <1>0. /\ d.players \in Seq(Being) /\ d.monsters \in Seq(Being) /\ d.barriers \in Seq(Point)
        /\ s.barriers = [i \in DOMAIN d.barriers |->
                           [pos_x |-> ToUnsigned(d.barriers[i].x), pos_y |-> ToUnsigned(d.barriers[i].y)]]
        /\ s.players = [i \in DOMAIN d.players |-> EntitySnapshot(d.players[i], 0)]
        /\ s.mobs = [i \in DOMAIN d.monsters |-> EntitySnapshot(d.monsters[i], 1)]
    BY SnapshotIs DEF WellFormed
  <1> HIDE DEF s
  <1>1. Here(s.mobs) <=> StandsAt(d.monsters, x, y)
    BY <1>0, StandsInSnapshot
  <1>2. Here(s.players) <=> StandsAt(d.players, x, y)
    BY <1>0, StandsInSnapshot
  <1>3. Here(s.barriers) <=> [x |-> x, y |-> y] \in Range(d.barriers)
    BY <1>0, BarrierInSnapshot
  <1>4. SymbolAt(s, ux, uy) = CASE Here(s.mobs) -> "M"
                                [] ~Here(s.mobs) /\ Here(s.players) -> "@"
                                [] ~Here(s.mobs) /\ ~Here(s.players) /\ Here(s.barriers) -> "b"
                                [] OTHER -> "."
    BY Zenon DEF SymbolAt, IsShownAt
  <1> DEFINE m == Here(s.mobs)
             p == Here(s.players)
             b == Here(s.barriers)
  <1>5. /\ m => SymbolAt(s, ux, uy) = "M"
        /\ ~m /\ p => SymbolAt(s, ux, uy) = "@"
        /\ ~m /\ ~p /\ b => SymbolAt(s, ux, uy) = "b"
        /\ ~m /\ ~p /\ ~b => SymbolAt(s, ux, uy) = "."
    <2> HIDE DEF m, p, b
    <2>1. SymbolAt(s, ux, uy) = CASE m -> "M" [] ~m /\ p -> "@" [] ~m /\ ~p /\ b -> "b" [] OTHER -> "."
      BY <1>4, Zenon DEF m, p, b
    <2> HIDE DEF s, ux, uy
    <2> QED
      BY <2>1
  <1> HIDE DEF s, ux, uy
  <1> QED
    BY <1>1, <1>2, <1>3, <1>5 DEF CellOf, s, ux, uy

LEMMA CornersAre ==
  ASSUME NEW d, WellFormed(d)
  PROVE  /\ d.blc.x \in Coordinate /\ d.blc.y \in Coordinate
         /\ d.trc.x \in Coordinate /\ d.trc.y \in Coordinate
         /\ d.blc.x <= d.trc.x /\ d.blc.y <= d.trc.y
  BY DEF WellFormed, Point

\* The rows, from the top; both sides of each are on one side of zero.
LEMMA RowsAre ==
  ASSUME NEW d, WellFormed(d), OneSide(d.blc.x, d.trc.x)
  PROVE  Rows(CreateGameStateDTO(d)) = PictureOf(d).rows
  <1> DEFINE s == CreateGameStateDTO(d)
             ax == d.blc.x
             ay == d.blc.y
             bx == d.trc.x
             by == d.trc.y
             Drawing == [i \in 1 .. by - ay + 1 |->
                          [j \in 1 .. bx - ax + 1 |-> CellOf(d, ax + j - 1, by - i + 1)]]
  <1>1. /\ ax \in Coordinate /\ ay \in Coordinate /\ bx \in Coordinate /\ by \in Coordinate
        /\ ax <= bx /\ ay <= by
    BY CornersAre
  <1>2. /\ s.blc_x = ToUnsigned(ax) /\ s.blc_y = ToUnsigned(ay)
        /\ s.trc_x = ToUnsigned(bx) /\ s.trc_y = ToUnsigned(by)
    BY SnapshotIs
  <1>3. /\ ToUnsigned(bx) - ToUnsigned(ax) = bx - ax
        /\ \A j \in 1 .. bx - ax + 1 : /\ ax + j - 1 \in Coordinate
                                       /\ ToUnsigned(ax) + j - 1 = ToUnsigned(ax + j - 1)
    BY <1>1, UnsignedLine
  <1>4. PictureOf(d).rows = Drawing
    BY DEF PictureOf
  <1>5. ToSigned(ToUnsigned(by)) = by /\ ToSigned(ToUnsigned(ay)) = ay
    BY <1>1, UnsignedIs
  <1>6. ASSUME NEW y \in Coordinate, NEW j \in 1 .. bx - ax + 1
        PROVE  SymbolAt(s, ToUnsigned(ax) + j - 1, ToUnsigned(y)) = CellOf(d, ax + j - 1, y)
    <2> DEFINE x == ax + j - 1
    <2>1. x \in Coordinate /\ ToUnsigned(ax) + j - 1 = ToUnsigned(x)
      BY <1>3
    <2> HIDE DEF x
    <2>2. SymbolAt(s, ToUnsigned(x), ToUnsigned(y)) = CellOf(d, x, y)
      BY <2>1, SymbolIsCell
    <2> QED
      BY <2>1, <2>2 DEF x
  <1> HIDE DEF s, ax, ay, bx, by
  <1>7. ASSUME NEW y \in Coordinate
        PROVE  Row(s, ToUnsigned(y)) = [j \in 1 .. bx - ax + 1 |-> CellOf(d, ax + j - 1, y)]
    <2>1. Row(s, ToUnsigned(y)) = [j \in 1 .. bx - ax + 1 |-> SymbolAt(s, ToUnsigned(ax) + j - 1, ToUnsigned(y))]
      BY <1>2, <1>3 DEF Row
    <2> QED
      BY <1>6, <2>1
  <1>8. \A i \in 1 .. by - ay + 1 : by - i + 1 \in Coordinate
    BY <1>1, SnapshotAssumption DEF Coordinate
  <1>9. Rows(s) = [i \in 1 .. by - ay + 1 |-> Row(s, ToUnsigned(by - i + 1))]
    BY <1>2, <1>5 DEF Rows
  <1>10. Rows(s) = Drawing
    BY <1>7, <1>8, <1>9
  <1> QED
    BY <1>4, <1>10 DEF s

LEMMA EntitiesAre ==
  ASSUME NEW d, WellFormed(d)
  PROVE  LET s == CreateGameStateDTO(d) IN
         [i \in 1 .. Len(s.players \o s.mobs) |-> EntityLine((s.players \o s.mobs)[i])] = PictureOf(d).entities
  <1> DEFINE s == CreateGameStateDTO(d)
             p == d.players
             m == d.monsters
             sp == s.players
             sm == s.mobs
             Told(e) == [id |-> e.id, hp |-> e.hp]
  <1>1. p \in Seq(Being) /\ m \in Seq(Being)
    BY DEF WellFormed
  <1>2. /\ sp = [i \in DOMAIN p |-> EntitySnapshot(p[i], 0)]
        /\ sm = [i \in DOMAIN m |-> EntitySnapshot(m[i], 1)]
    BY SnapshotIs
  <1>3. PictureOf(d).entities = [i \in 1 .. Len(p) + Len(m) |-> Told((p \o m)[i])]
    BY DEF PictureOf
  <1> HIDE DEF s, p, m, sp, sm
  <1> DEFINE Shot == {EntitySnapshot(e, t) : e \in Being, t \in {0, 1}}
  <1>4. sp \in Seq(Shot) /\ sm \in Seq(Shot) /\ Len(sp) = Len(p) /\ Len(sm) = Len(m)
    <2>1. \A i \in 1 .. Len(p) : EntitySnapshot(p[i], 0) \in Shot
      BY <1>1
    <2>2. \A i \in 1 .. Len(m) : EntitySnapshot(m[i], 1) \in Shot
      BY <1>1
    <2>3. /\ DOMAIN p = 1 .. Len(p) /\ Len(p) \in Nat
          /\ DOMAIN m = 1 .. Len(m) /\ Len(m) \in Nat
      BY <1>1
    <2> HIDE DEF Shot
    <2>4. /\ sp = [i \in 1 .. Len(p) |-> EntitySnapshot(p[i], 0)]
          /\ sm = [i \in 1 .. Len(m) |-> EntitySnapshot(m[i], 1)]
      BY <1>2, <2>3
    <2>5. sp \in Seq(Shot) /\ Len(sp) = Len(p)
      BY <2>1, <2>3, <2>4
    <2>6. sm \in Seq(Shot) /\ Len(sm) = Len(m)
      BY <2>2, <2>3, <2>4
    <2> QED
      BY <2>5, <2>6
  <1>5. \A e, t : EntityLine(EntitySnapshot(e, t)) = Told(e)
    BY DEF EntityLine, EntitySnapshot
  <1> HIDE DEF Shot
  <1>6. Len(sp \o sm) = Len(p) + Len(m) /\ Len(p) \in Nat /\ Len(m) \in Nat
    <2>1. Len(sp \o sm) = Len(sp) + Len(sm)
      BY <1>4, ConcatProperties, Zenon
    <2>2. Len(p) \in Nat /\ Len(m) \in Nat
      BY <1>1
    <2> QED
      BY <1>4, <2>1, <2>2, Zenon
  <1>7. ASSUME NEW i \in 1 .. Len(p) + Len(m)
        PROVE  EntityLine((sp \o sm)[i]) = Told((p \o m)[i])
    <2>1. CASE i <= Len(p)
      <3>1. (sp \o sm)[i] = sp[i] /\ (p \o m)[i] = p[i] /\ i \in DOMAIN p
        BY <1>1, <1>4, <2>1
      <3>2. sp[i] = EntitySnapshot(p[i], 0)
        BY <1>2, <3>1
      <3> QED
        BY <1>5, <3>1, <3>2
    <2>2. CASE i > Len(p)
      <3> DEFINE j == i - Len(p)
      <3>1. (sp \o sm)[i] = sm[j] /\ (p \o m)[i] = m[j] /\ j \in DOMAIN m
        BY <1>1, <1>4, <2>2
      <3>2. sm[j] = EntitySnapshot(m[j], 1)
        BY <1>2, <3>1
      <3> QED
        BY <1>5, <3>1, <3>2
    <2> QED
      BY <1>6, <2>1, <2>2
  <1>8. [i \in 1 .. Len(sp \o sm) |-> EntityLine((sp \o sm)[i])]
          = [i \in 1 .. Len(p) + Len(m) |-> Told((p \o m)[i])]
    BY <1>6, <1>7
  <1> QED
    BY <1>3, <1>8 DEF s, sp, sm

\* The client's conditions, one after the other, are those for a picture.
LEMMA PictureIsDrawn ==
  ASSUME NEW d, WellFormed(d)
  PROVE  /\ HasPicture(d) /\ ~CountsDownTooFar(d) =>
              RenderGameState(CreateGameStateDTO(d)) = {PictureOf(d)}
         /\ ~HasPicture(d) =>
              \E why : why # "none" /\ RenderGameState(CreateGameStateDTO(d)) = {NoPicture(why)}
  <1> DEFINE s == CreateGameStateDTO(d)
             ax == d.blc.x
             ay == d.blc.y
             bx == d.trc.x
             by == d.trc.y
             diffX == s.trc_x - s.blc_x
             diffY == s.trc_y - s.blc_y
             Negative == diffX < 0 \/ diffY < 0
             Over == diffX = 2 * HalfRange - 1 \/ diffY = 2 * HalfRange - 1
             Large == diffX + 1 > MaxMapCells \div (diffY + 1)
             Least == ToSigned(s.blc_y) = -HalfRange
  <1>1. /\ ax \in Coordinate /\ ay \in Coordinate /\ bx \in Coordinate /\ by \in Coordinate
        /\ ax <= bx /\ ay <= by
    BY CornersAre
  <1>2. /\ s.blc_x = ToUnsigned(ax) /\ s.blc_y = ToUnsigned(ay)
        /\ s.trc_x = ToUnsigned(bx) /\ s.trc_y = ToUnsigned(by)
    BY SnapshotIs
  <1>3. /\ OneSide(ax, bx) => diffX = bx - ax /\ bx - ax \in 0 .. HalfRange - 1
        /\ ~ OneSide(ax, bx) => diffX < 0
    BY <1>1, <1>2, UnsignedLine
  <1>4. /\ OneSide(ay, by) => diffY = by - ay /\ by - ay \in 0 .. HalfRange - 1
        /\ ~ OneSide(ay, by) => diffY < 0
    BY <1>1, <1>2, UnsignedLine
  <1>5. Least <=> ay = -HalfRange
    BY <1>1, <1>2, UnsignedIs
  <1>6. HasPicture(d) <=> /\ OneSide(ax, bx) /\ OneSide(ay, by)
                          /\ (bx - ax + 1) * (by - ay + 1) <= MaxMapCells
    BY DEF HasPicture
  <1>7. RenderGameState(s) =
          IF Negative THEN {NoPicture("invalid coordinates")}
          ELSE IF Over THEN {NoPicture("coordinate overflow")}
          ELSE IF Large THEN {NoPicture("too large")}
          ELSE IF Least THEN UndefinedRender(s)
          ELSE {Picture(s, Rows(s))}
    BY Zenon DEF RenderGameState
  <1>8. PictureOf(d) = [rows |-> PictureOf(d).rows, entities |-> PictureOf(d).entities, instead |-> "none"]
    BY DEF PictureOf
  <1>9. [i \in 1 .. Len(s.players \o s.mobs) |-> EntityLine((s.players \o s.mobs)[i])] = PictureOf(d).entities
    BY EntitiesAre
  <1>10. OneSide(ax, bx) => Rows(s) = PictureOf(d).rows
    BY RowsAre
  <1>a. Picture(s, PictureOf(d).rows) = PictureOf(d)
    BY <1>8, <1>9, Zenon DEF Picture
  <1>b. CountsDownTooFar(d) <=> HasPicture(d) /\ ay - 1 \notin Coordinate
    BY Zenon DEF CountsDownTooFar
  <1> HIDE DEF s, ax, ay, bx, by
  <1>11. ASSUME OneSide(ax, bx), OneSide(ay, by)
         PROVE  /\ ~Negative /\ ~Over
                /\ Large <=> ~ (bx - ax + 1) * (by - ay + 1) <= MaxMapCells
    <2> DEFINE w == bx - ax + 1
               h == by - ay + 1
    <2>1. diffX = bx - ax /\ diffY = by - ay /\ bx - ax \in 0 .. HalfRange - 1 /\ by - ay \in 0 .. HalfRange - 1
      BY <1>3, <1>4, <1>11
    <2>2. ~Negative /\ ~Over
      BY <2>1, SnapshotAssumption
    <2>3. w \in Nat \ {0} /\ h \in Nat \ {0} /\ diffX + 1 = w /\ diffY + 1 = h /\ MaxMapCells \in Nat
      BY <2>1, SnapshotAssumption
    <2> HIDE DEF w, h
    <2>4. w > MaxMapCells \div h <=> w * h > MaxMapCells
      BY <2>3, SizeByQuotient
    <2> DEFINE wh == w * h
    <2>5. wh \in Nat
      BY <2>3
    <2> HIDE DEF wh
    <2>6. wh > MaxMapCells <=> ~ wh <= MaxMapCells
      BY <2>3, <2>5
    <2>7. Large <=> ~ w * h <= MaxMapCells
      BY <2>3, <2>4, <2>6 DEF wh
    <2> QED
      BY <2>2, <2>7 DEF w, h
  <1>12. Least <=> ay - 1 \notin Coordinate
    BY <1>1, <1>5, SnapshotAssumption DEF Coordinate
  <1>13. Negative => ~ (OneSide(ax, bx) /\ OneSide(ay, by))
    BY <1>11
  <1>14. ~Negative => OneSide(ax, bx) /\ OneSide(ay, by)
    BY <1>3, <1>4
  <1> HIDE DEF Negative, Over, Large, Least
  <1>15. HasPicture(d) <=> ~Negative /\ ~Over /\ ~Large
    BY <1>6, <1>11, <1>13, <1>14
  <1>16. CASE HasPicture(d) /\ ~CountsDownTooFar(d)
    <2>1. ~Negative /\ ~Over /\ ~Large /\ ~Least
      BY <1>12, <1>15, <1>16, <1>b
    <2>2. RenderGameState(s) = {Picture(s, Rows(s))}
      BY <1>7, <2>1, Zenon
    <2>3. Rows(s) = PictureOf(d).rows
      BY <1>10, <1>14, <2>1
    <2> QED
      BY <1>16, <1>a, <2>2, <2>3, Zenon DEF s
  <1>17. CASE ~HasPicture(d)
    <2>1. \E why \in {"invalid coordinates", "coordinate overflow", "too large"} :
            RenderGameState(s) = {NoPicture(why)}
      BY <1>7, <1>15, <1>17, Zenon
    <2>2. "none" \notin {"invalid coordinates", "coordinate overflow", "too large"}
      BY Zenon
    <2> QED
      BY <1>17, <2>1, <2>2, Zenon DEF s
  <1>18. CASE CountsDownTooFar(d)
    BY <1>18, <1>b, Zenon
  <1> QED
    BY <1>16, <1>17, <1>18, Zenon

--------------------------------------------------------------------------------
(* A snapshot comes back from its items *)

LEMMA TwoUints ==
  ASSUME NEW n1, NEW n2, NEW array,
         array = BuildArray(<<BuildUint(n1), BuildUint(n2)>>)
  PROVE  ReadUints(array, 2) = {<<n1, n2>>}
  <1> DEFINE entries == array.items
             values == [i \in 1 .. 2 |-> entries[i].value]
  <1>1. array.kind = "array" /\ Len(entries) = 2
    BY DEF BuildArray
  <1>2. \A i \in 1 .. 2 : entries[i].kind = "uint"
    BY DEF BuildArray, BuildUint
  <1>3. values = <<n1, n2>>
    BY DEF BuildArray, BuildUint
  <1> HIDE DEF entries
  <1>4. \A i \in 1 .. 2 : ReadCborUint(entries[i]) # {}
    BY <1>2 DEF ReadCborUint
  <1>5. ReadUints(array, 2) = {values}
    BY <1>1, <1>4, Zenon DEF ReadUints, entries
  <1> QED
    BY <1>3, <1>5

LEMMA FourUints ==
  ASSUME NEW n1, NEW n2, NEW n3, NEW n4, NEW array,
         array = BuildArray(<<BuildUint(n1), BuildUint(n2), BuildUint(n3), BuildUint(n4)>>)
  PROVE  ReadUints(array, 4) = {<<n1, n2, n3, n4>>}
  <1> DEFINE entries == array.items
             values == [i \in 1 .. 4 |-> entries[i].value]
  <1>1. array.kind = "array" /\ Len(entries) = 4
    BY DEF BuildArray
  <1>2. \A i \in 1 .. 4 : entries[i].kind = "uint"
    BY DEF BuildArray, BuildUint
  <1>3. values = <<n1, n2, n3, n4>>
    BY DEF BuildArray, BuildUint
  <1> HIDE DEF entries
  <1>4. \A i \in 1 .. 4 : ReadCborUint(entries[i]) # {}
    BY <1>2 DEF ReadCborUint
  <1>5. ReadUints(array, 4) = {values}
    BY <1>1, <1>4, Zenon DEF ReadUints, entries
  <1> QED
    BY <1>3, <1>5

LEMMA EntityUints ==
  ASSUME NEW shot
  PROVE  ReadUints(SerializeEntity(shot), 6)
           = {<<shot.type, shot.state, shot.id, shot.pos_x, shot.pos_y, shot.hp>>}
  <1> DEFINE array == SerializeEntity(shot)
             entries == array.items
             values == [i \in 1 .. 6 |-> entries[i].value]
  <1>1. array.kind = "array" /\ Len(entries) = 6
    BY DEF SerializeEntity, BuildArray
  <1>2. \A i \in 1 .. 6 : entries[i].kind = "uint"
    BY DEF SerializeEntity, BuildArray, BuildUint
  <1>3. values = <<shot.type, shot.state, shot.id, shot.pos_x, shot.pos_y, shot.hp>>
    BY DEF SerializeEntity, BuildArray, BuildUint
  <1> HIDE DEF entries
  <1>4. \A i \in 1 .. 6 : ReadCborUint(entries[i]) # {}
    BY <1>2 DEF ReadCborUint
  <1>5. ReadUints(array, 6) = {values}
    BY <1>1, <1>4, Zenon DEF ReadUints, entries
  <1> QED
    BY <1>3, <1>5

LEMMA BarrierComesBack ==
  ASSUME NEW x, NEW y
  PROVE  LET b == [pos_x |-> x, pos_y |-> y] IN DeserializeBarrier(SerializeBarrier(b)) = {b}
  <1> DEFINE b == [pos_x |-> x, pos_y |-> y]
             n == <<x, y>>
  <1>1. ReadUints(SerializeBarrier(b), 2) = {n}
    BY TwoUints DEF SerializeBarrier
  <1>2. DeserializeBarrier(SerializeBarrier(b)) = {[pos_x |-> m[1], pos_y |-> m[2]] : m \in {n}}
    BY <1>1 DEF DeserializeBarrier, kBarrierArraySize
  <1> QED
    BY <1>2

LEMMA EntityComesBack ==
  ASSUME NEW entity \in Being, NEW type \in {0, 1}
  PROVE  LET e == EntitySnapshot(entity, type) IN DeserializeEntity(SerializeEntity(e)) = {e}
  <1> DEFINE e == EntitySnapshot(entity, type)
             n == <<e.type, e.state, e.id, e.pos_x, e.pos_y, e.hp>>
  <1>1. ReadUints(SerializeEntity(e), 6) = {n}
    BY EntityUints, Zenon
  <1>2. DeserializeEntity(SerializeEntity(e)) =
          {[type |-> m[1] % 256, state |-> m[2] % 256, id |-> m[3], pos_x |-> m[4], pos_y |-> m[5],
            hp |-> m[6] % HpValues] : m \in {n}}
    BY <1>1 DEF DeserializeEntity, kEntityArraySize
  <1>3. e.type \in {0, 1} /\ e.state \in {0, 1} /\ e.hp \in 0 .. HpValues - 1
    BY DEF EntitySnapshot, EntityState, Being
  <1>4. e.type % 256 = e.type /\ e.state % 256 = e.state /\ e.hp % HpValues = e.hp
    BY <1>3, SnapshotAssumption
  <1>5. e = [type |-> e.type, state |-> e.state, id |-> e.id, pos_x |-> e.pos_x, pos_y |-> e.pos_y, hp |-> e.hp]
    BY DEF EntitySnapshot
  <1> HIDE DEF e
  <1> DEFINE again == [type |-> e.type % 256, state |-> e.state % 256, id |-> e.id,
                       pos_x |-> e.pos_x, pos_y |-> e.pos_y, hp |-> e.hp % HpValues]
  <1>6. DeserializeEntity(SerializeEntity(e)) = {again}
    BY <1>2
  <1>7. again = e
    BY <1>4, <1>5
  <1> QED
    BY <1>6, <1>7 DEF e

LEMMA VectorComesBack ==
  ASSUME NEW v, v = [i \in DOMAIN v |-> v[i]], NEW item, item.kind = "array",
         NEW read, read = [i \in DOMAIN v |-> {v[i]}]
  PROVE  DeserializeVector(item, read) = {v}
  <1>1. \A i \in DOMAIN read : read[i] # {} /\ (CHOOSE x \in read[i] : TRUE) = v[i]
    OBVIOUS
  <1>2. DOMAIN read = DOMAIN v
    OBVIOUS
  <1>3. [i \in DOMAIN read |-> CHOOSE x \in read[i] : TRUE] = v
    BY <1>1, <1>2
  <1> QED
    BY <1>1, <1>3 DEF DeserializeVector

LEMMA EntitiesComeBack ==
  ASSUME NEW beings \in Seq(Being), NEW type \in {0, 1},
         NEW entities, entities = [i \in DOMAIN beings |-> EntitySnapshot(beings[i], type)]
  PROVE  DeserializeEntities(SerializeEntities(entities)) = {entities}
  <1> DEFINE w == [i \in DOMAIN entities |-> SerializeEntity(entities[i])]
             item == SerializeEntities(entities)
             read == [i \in DOMAIN item.items |-> DeserializeEntity(item.items[i])]
  <1>1. item.kind = "array" /\ item.items = w
    BY DEF SerializeEntities, SerializeVector, BuildArray
  <1>2. DOMAIN entities = DOMAIN beings /\ DOMAIN w = DOMAIN entities
    OBVIOUS
  <1>3. ASSUME NEW i \in DOMAIN entities
        PROVE  DeserializeEntity(w[i]) = {entities[i]}
    <2>1. entities[i] = EntitySnapshot(beings[i], type) /\ beings[i] \in Being
      OBVIOUS
    <2> QED
      BY <2>1, EntityComesBack
  <1> HIDE DEF w, item
  <1>4. read = [i \in DOMAIN entities |-> {entities[i]}]
    BY <1>1, <1>2, <1>3
  <1>5. entities = [i \in DOMAIN entities |-> entities[i]]
    OBVIOUS
  <1> HIDE DEF read
  <1>6. DeserializeVector(item, read) = {entities}
    BY <1>1, <1>4, <1>5, VectorComesBack
  <1> QED
    BY <1>6 DEF DeserializeEntities, read, item

LEMMA FirstFour ==
  ASSUME NEW k, NEW l, NEW m, NEW n, NEW o
  PROVE  SubSeq(<<k, l, m, n, o>>, 1, 4) = <<k, l, m, n>>
  <1> DEFINE q == <<k, l, m, n, o>>
             r == <<k, l, m, n>>
             S == {k, l, m, n, o}
             a == SubSeq(q, 1, 4)
  <1>1. /\ \A i \in 1 .. 4 : q[i] \in S /\ q[i] = r[i]
        /\ r \in Seq(S) /\ Len(r) = 4
    OBVIOUS
  <1>2. 1 \in Int /\ 4 \in Int /\ 4 - 1 + 1 = 4 /\ 1 <= 4
    OBVIOUS
  <1> HIDE DEF q, r, S
  <1>3. /\ a \in Seq(S)
        /\ Len(a) = IF 1 <= 4 THEN 4 - 1 + 1 ELSE 0
        /\ \A i \in 1 .. 4 - 1 + 1 : a[i] = q[1 + i - 1]
    BY <1>1, <1>2, SubSeqProperties
  <1>4. Len(a) = 4 /\ \A i \in 1 .. 4 : a[i] = q[i]
    BY <1>2, <1>3
  <1> HIDE DEF a
  <1>5. a = r
    BY <1>1, <1>3, <1>4, SeqEqual
  <1> QED
    BY <1>5 DEF a, q, r

LEMMA MapComesBack ==
  ASSUME NEW s, NEW points,
         s.barriers = [i \in DOMAIN points |-> [pos_x |-> ToUnsigned(points[i].x), pos_y |-> ToUnsigned(points[i].y)]]
  PROVE  DeserializeGameMap(SerializeGameMap(s))
           = {[corners |-> <<s.blc_x, s.blc_y, s.trc_x, s.trc_y>>, barriers |-> s.barriers]}
  <1> DEFINE b == s.barriers
             w == [i \in DOMAIN b |-> SerializeBarrier(b[i])]
             list == SerializeVector(w)
             read == [i \in DOMAIN list.items |-> DeserializeBarrier(list.items[i])]
             entries == <<BuildUint(s.blc_x), BuildUint(s.blc_y), BuildUint(s.trc_x), BuildUint(s.trc_y), list>>
             item == SerializeGameMap(s)
             corners == <<s.blc_x, s.blc_y, s.trc_x, s.trc_y>>
  <1>1. list.kind = "array" /\ list.items = w
    BY DEF SerializeVector, BuildArray
  <1>2. item = BuildArray(entries) /\ item.kind = "array" /\ item.items = entries
    BY DEF SerializeGameMap, BuildArray
  <1>3. b = [i \in DOMAIN b |-> b[i]] /\ DOMAIN w = DOMAIN b
    OBVIOUS
  <1>4. \A i \in DOMAIN b : DeserializeBarrier(w[i]) = {b[i]}
    <2> TAKE i \in DOMAIN b
    <2>1. b[i] = [pos_x |-> ToUnsigned(points[i].x), pos_y |-> ToUnsigned(points[i].y)]
      OBVIOUS
    <2> QED
      BY <2>1, BarrierComesBack
  <1> HIDE DEF b, w, list
  <1>5. read = [i \in DOMAIN b |-> {b[i]}]
    BY <1>1, <1>3, <1>4
  <1> HIDE DEF read
  <1>6. DeserializeVector(list, read) = {b}
    BY <1>1, <1>3, <1>5, VectorComesBack
  <1>7. Len(entries) = 5 /\ entries[5] = list
    OBVIOUS
  <1>8. SubSeq(entries, 1, 4) = <<BuildUint(s.blc_x), BuildUint(s.blc_y), BuildUint(s.trc_x), BuildUint(s.trc_y)>>
    <2> DEFINE k == BuildUint(s.blc_x)
               l == BuildUint(s.blc_y)
               m == BuildUint(s.trc_x)
               n == BuildUint(s.trc_y)
    <2> HIDE DEF k, l, m, n
    <2>1. SubSeq(<<k, l, m, n, list>>, 1, 4) = <<k, l, m, n>>
      BY FirstFour
    <2> QED
      BY <2>1 DEF k, l, m, n
  <1>9. ReadUints(BuildArray(SubSeq(entries, 1, 4)), 4) = {corners}
    <2> DEFINE k == s.blc_x
               l == s.blc_y
               m == s.trc_x
               n == s.trc_y
    <2>1. BuildArray(SubSeq(entries, 1, 4)) = BuildArray(<<BuildUint(k), BuildUint(l), BuildUint(m), BuildUint(n)>>)
      BY <1>8
    <2> HIDE DEF k, l, m, n
    <2>2. ReadUints(BuildArray(SubSeq(entries, 1, 4)), 4) = {<<k, l, m, n>>}
      BY <2>1, FourUints
    <2> QED
      BY <2>2 DEF k, l, m, n
  <1> HIDE DEF entries, item, corners
  <1>10. DeserializeGameMap(item) = {[corners |-> n, barriers |-> v] : n \in {corners}, v \in {b}}
    <2>1. DeserializeVector(list, [i \in DOMAIN list.items |-> DeserializeBarrier(list.items[i])]) = {b}
      BY <1>6 DEF read
    <2> DEFINE R == ReadUints(BuildArray(SubSeq(item.items, 1, 4)), 4)
               V == DeserializeVector(item.items[5],
                      [i \in DOMAIN item.items[5].items |-> DeserializeBarrier(item.items[5].items[i])])
    <2>2. DeserializeGameMap(item) = {[corners |-> n, barriers |-> v] : n \in R, v \in V}
      BY <1>2, <1>7 DEF DeserializeGameMap, kGameMapArraySize
    <2>3. R = {corners}
      BY <1>2, <1>9, Zenon
    <2>4. V = {b}
      BY <1>2, <1>7, <2>1, Zenon
    <2> HIDE DEF R, V
    <2> QED
      BY <2>2, <2>3, <2>4
  <1>11. {[corners |-> n, barriers |-> v] : n \in {corners}, v \in {b}} = {[corners |-> corners, barriers |-> b]}
    OBVIOUS
  <1> QED
    BY <1>10, <1>11 DEF item, corners, b

LEMMA MapGets ==
  ASSUME NEW a, NEW b, NEW c, NEW map,
         map = BuildMap(<<[key |-> "map", value |-> a], [key |-> "players", value |-> b], [key |-> "mobs", value |-> c]>>)
  PROVE  /\ CborMapGet(map, "map") = {a} /\ CborMapGet(map, "players") = {b} /\ CborMapGet(map, "mobs") = {c}
         /\ map.kind = "map"
  <1> DEFINE pairs == map.pairs
  <1>1. /\ DOMAIN pairs = 1 .. 3 /\ map.kind = "map"
        /\ pairs[1].key = "map" /\ pairs[1].value = a
        /\ pairs[2].key = "players" /\ pairs[2].value = b
        /\ pairs[3].key = "mobs" /\ pairs[3].value = c
    BY DEF BuildMap
  <1> HIDE DEF pairs
  <1>2. /\ {i \in DOMAIN pairs : pairs[i].key = "map"} = {1}
        /\ {i \in DOMAIN pairs : pairs[i].key = "players"} = {2}
        /\ {i \in DOMAIN pairs : pairs[i].key = "mobs"} = {3}
    BY <1>1
  <1>3. /\ {n \in {1} : \A m \in {1} : n <= m} = {1} /\ {n \in {2} : \A m \in {2} : n <= m} = {2}
        /\ {n \in {3} : \A m \in {3} : n <= m} = {3}
    OBVIOUS
  <1>4. CborMapGet(map, "map") = {pairs[i].value : i \in {1}}
    BY <1>2, <1>3 DEF CborMapGet, pairs
  <1>5. CborMapGet(map, "players") = {pairs[i].value : i \in {2}}
    BY <1>2, <1>3 DEF CborMapGet, pairs
  <1>6. CborMapGet(map, "mobs") = {pairs[i].value : i \in {3}}
    BY <1>2, <1>3 DEF CborMapGet, pairs
  <1> QED
    BY <1>1, <1>4, <1>5, <1>6

\* The client reads what the server has written.
LEMMA StateComesBack ==
  ASSUME NEW d, WellFormed(d)
  PROVE  DeserializeGameState(SerializeGameState(CreateGameStateDTO(d))) = {CreateGameStateDTO(d)}
  <1> DEFINE s == CreateGameStateDTO(d)
             item == SerializeGameState(s)
             a == SerializeGameMap(s)
             b == SerializeEntities(s.players)
             c == SerializeEntities(s.mobs)
             m == [corners |-> <<s.blc_x, s.blc_y, s.trc_x, s.trc_y>>, barriers |-> s.barriers]
  <1>1. d.players \in Seq(Being) /\ d.monsters \in Seq(Being) /\ 0 \in {0, 1} /\ 1 \in {0, 1}
    BY DEF WellFormed
  <1>2. /\ s.barriers = [i \in DOMAIN d.barriers |->
                           [pos_x |-> ToUnsigned(d.barriers[i].x), pos_y |-> ToUnsigned(d.barriers[i].y)]]
        /\ s.players = [i \in DOMAIN d.players |-> EntitySnapshot(d.players[i], 0)]
        /\ s.mobs = [i \in DOMAIN d.monsters |-> EntitySnapshot(d.monsters[i], 1)]
        /\ s = [blc_x |-> s.blc_x, blc_y |-> s.blc_y, trc_x |-> s.trc_x, trc_y |-> s.trc_y,
                barriers |-> s.barriers, players |-> s.players, mobs |-> s.mobs]
    BY SnapshotIs
  <1> HIDE DEF s
  <1>3. DeserializeEntities(b) = {s.players} /\ DeserializeEntities(c) = {s.mobs}
    BY <1>1, <1>2, EntitiesComeBack
  <1>4. DeserializeGameMap(a) = {m}
    BY <1>2, MapComesBack, Zenon
  <1>5. item = BuildMap(<<[key |-> "map", value |-> a], [key |-> "players", value |-> b], [key |-> "mobs", value |-> c]>>)
    BY DEF SerializeGameState
  <1> HIDE DEF item, a, b, c
  <1>6. /\ item.kind = "map" /\ CborMapGet(item, "map") = {a}
        /\ CborMapGet(item, "players") = {b} /\ CborMapGet(item, "mobs") = {c}
    BY <1>5, MapGets
  <1> DEFINE A == UNION {DeserializeGameMap(v) : v \in CborMapGet(item, "map")}
             B == UNION {DeserializeEntities(v) : v \in CborMapGet(item, "players")}
             C == UNION {DeserializeEntities(v) : v \in CborMapGet(item, "mobs")}
  <1>7. A = {m} /\ B = {s.players} /\ C = {s.mobs}
    <2> HIDE DEF m
    <2>1. UNION {DeserializeGameMap(v) : v \in {a}} = {m}
      BY <1>4
    <2>2. UNION {DeserializeEntities(v) : v \in {b}} = {s.players}
      BY <1>3
    <2>3. UNION {DeserializeEntities(v) : v \in {c}} = {s.mobs}
      BY <1>3
    <2> QED
      BY <1>6, <2>1, <2>2, <2>3
  <1>8. DeserializeGameState(item) =
          {[blc_x |-> n.corners[1], blc_y |-> n.corners[2], trc_x |-> n.corners[3], trc_y |-> n.corners[4],
            barriers |-> n.barriers, players |-> p, mobs |-> q] : n \in A, p \in B, q \in C}
    BY <1>6 DEF DeserializeGameState
  <1> HIDE DEF A, B, C
  <1> DEFINE again == [blc_x |-> m.corners[1], blc_y |-> m.corners[2], trc_x |-> m.corners[3], trc_y |-> m.corners[4],
                       barriers |-> m.barriers, players |-> s.players, mobs |-> s.mobs]
  <1>9. again = s
    <2>1. /\ m.corners[1] = s.blc_x /\ m.corners[2] = s.blc_y /\ m.corners[3] = s.trc_x /\ m.corners[4] = s.trc_y
          /\ m.barriers = s.barriers
      OBVIOUS
    <2> HIDE DEF m
    <2> QED
      BY <1>2, <2>1, Zenon
  <1> HIDE DEF m
  <1>10. DeserializeGameState(item) = {again}
    BY <1>7, <1>8
  <1> QED
    BY <1>9, <1>10 DEF item, s

LEMMA DungeonIsShown ==
  ASSUME NEW d \in Dungeon
  PROVE  UNION {Drawn(r) : r \in RouteRead(ItemOf(d))} = RenderGameState(CreateGameStateDTO(d))
  <1> DEFINE s == CreateGameStateDTO(d)
             item == ItemOf(d)
             found == DeserializeGameState(item)
             r == [is |-> "state", value |-> s]
  <1>1. found = {s}
    BY DungeonIs, StateComesBack DEF ItemOf
  <1> HIDE DEF s, item, found
  <1>2. RouteRead(item) = {[is |-> "state", value |-> v] : v \in found}
    BY <1>1 DEF RouteRead, found
  <1>3. RouteRead(item) = {r}
    BY <1>1, <1>2
  <1>4. Drawn(r) = RenderGameState(s)
    BY DEF Drawn
  <1> HIDE DEF r
  <1>5. UNION {Drawn(q) : q \in RouteRead(item)} = RenderGameState(s)
    BY <1>3, <1>4
  <1> QED
    BY <1>5 DEF s, item

(***************************************************************************)
(* Whatever the state of a dungeon, the client draws exactly its picture,  *)
(* or none if it has none: through unsigned coordinates, CBOR and back     *)
(* nothing is lost, moved, or taken for a message                          *)
(* (create_game_state.cpp, serder_game_state.cpp, render_game_state.cpp).  *)
(* Except for a picture that counts down below the least coordinate, which *)
(* is not defined.                                                         *)
(***************************************************************************)
THEOREM DrawnAsItIsAlways == CodecsSpec => []DrawnAsItIs
  <1>1. UnderWay => DrawnAsItIs
    <2> SUFFICES ASSUME UnderWay, Shown("state"), ~CountsDownTooFar(journey.subject.of)
                 PROVE  DrawnAsItIs
      BY DEF DrawnAsItIs
    <2> DEFINE d == journey.subject.of
               drawn == RenderGameState(CreateGameStateDTO(d))
    <2>1. d \in Dungeon /\ journey.now = UNION {Drawn(r) : r \in RouteRead(ItemOf(d))}
      BY WhatIsShown DEF Subject, Trip
    <2>2. ~CountsDownTooFar(d)
      OBVIOUS
    <2> HIDE DEF d
    <2>3. journey.now = drawn
      BY <2>1, DungeonIsShown
    <2>4. /\ HasPicture(d) => drawn = {PictureOf(d)}
          /\ ~HasPicture(d) =>
               \E why : why # "none" /\ drawn = {NoPicture(why)}
      BY <2>1, <2>2, DungeonIs, PictureIsDrawn
    <2> HIDE DEF drawn
    <2>5. CASE HasPicture(d)
      <3>1. PictureOf(d) \in journey.now /\ journey.now = {PictureOf(d)}
        BY <2>3, <2>4, <2>5
      <3> QED
        BY <2>5, <3>1, Zenon DEF DrawnAsItIs, d
    <2>6. CASE ~HasPicture(d)
      <3>1. PICK why : why # "none" /\ drawn = {NoPicture(why)}
        BY <2>4, <2>6
      <3>2. NoPicture(why).rows = <<>> /\ NoPicture(why).instead = why /\ why # "none"
        BY <3>1 DEF NoPicture
      <3>3. NoPicture(why) \in journey.now /\ journey.now = {NoPicture(why)}
        BY <2>3, <3>1
      <3> QED
        BY <2>6, <3>2, <3>3, Zenon DEF DrawnAsItIs, d
    <2> QED
      BY <2>5, <2>6
  <1> QED
    BY <1>1, AllUnderWay, PTL

--------------------------------------------------------------------------------
(* Messages come back from their items *)

LEMMA KindsAreListed ==
  /\ Kinds[1] = NetworkKinds /\ Kinds[2] = AppKinds /\ Kinds[3] = DomainKinds
  /\ Len(Kinds[1]) = 8 /\ Len(Kinds[2]) = 17 /\ Len(Kinds[3]) = 9
BY DEF Kinds, NetworkKinds, AppKinds, DomainKinds

LEMMA KindNamesDiffer ==
  /\ \A a, b \in 1..8 : NetworkKinds[a] = NetworkKinds[b] => a = b
  /\ \A a, b \in 1..17 : AppKinds[a] = AppKinds[b] => a = b
  /\ \A a, b \in 1..9 : DomainKinds[a] = DomainKinds[b] => a = b
  /\ \A a \in 1..8, b \in 1..9 : DomainKinds[b] # NetworkKinds[a]
  /\ \A a \in 1..8, b \in 1..17 : AppKinds[b] # NetworkKinds[a]
  /\ \A a \in 1..9, b \in 1..17 : AppKinds[b] # DomainKinds[a]
<1>1. \A a, b \in 1..8 : NetworkKinds[a] = NetworkKinds[b] => a = b
  BY SMTT(30) DEF NetworkKinds
<1>2. \A a, b \in 1..17 : AppKinds[a] = AppKinds[b] => a = b
  BY SMTT(30) DEF AppKinds
<1>3. \A a, b \in 1..9 : DomainKinds[a] = DomainKinds[b] => a = b
  BY SMTT(30) DEF DomainKinds
<1>4. \A a \in 1..8, b \in 1..9 : DomainKinds[b] # NetworkKinds[a]
  BY SMTT(30) DEF DomainKinds, NetworkKinds
<1>5. \A a \in 1..8, b \in 1..17 : AppKinds[b] # NetworkKinds[a]
  BY SMTT(30) DEF AppKinds, NetworkKinds
<1>6. \A a \in 1..9, b \in 1..17 : AppKinds[b] # DomainKinds[a]
  BY SMTT(30) DEF AppKinds, DomainKinds
<1> QED
  BY <1>1, <1>2, <1>3, <1>4, <1>5, <1>6

LEMMA KindIsOne ==
  ASSUME NEW v \in 1..3, NEW k \in 1..Len(Kinds[v]),
         NEW w \in 1..3, NEW i \in 1..Len(Kinds[w]), Kinds[w][i] = Kinds[v][k]
  PROVE  w = v /\ i = k
<1>1. CASE v = 1
  <2>1. CASE w = 1  BY <1>1, <2>1, KindNamesDiffer, KindsAreListed
  <2>2. CASE w = 2  BY <1>1, <2>2, KindNamesDiffer, KindsAreListed
  <2>3. CASE w = 3  BY <1>1, <2>3, KindNamesDiffer, KindsAreListed
  <2> QED           BY <2>1, <2>2, <2>3
<1>2. CASE v = 2
  <2>1. CASE w = 1  BY <1>2, <2>1, KindNamesDiffer, KindsAreListed
  <2>2. CASE w = 2  BY <1>2, <2>2, KindNamesDiffer, KindsAreListed
  <2>3. CASE w = 3  BY <1>2, <2>3, KindNamesDiffer, KindsAreListed
  <2> QED           BY <2>1, <2>2, <2>3
<1>3. CASE v = 3
  <2>1. CASE w = 1  BY <1>3, <2>1, KindNamesDiffer, KindsAreListed
  <2>2. CASE w = 2  BY <1>3, <2>2, KindNamesDiffer, KindsAreListed
  <2>3. CASE w = 3  BY <1>3, <2>3, KindNamesDiffer, KindsAreListed
  <2> QED           BY <2>1, <2>2, <2>3
<1> QED
  BY <1>1, <1>2, <1>3

\* A type's number leads back to the type, and has ten bits.
HasNumber(kind) ==
  /\ PackMessageType(kind) \in 0..1023
  /\ UnpackMessageType(PackMessageType(kind)) = kind

LEMMA NumberIs ==
  ASSUME NEW v \in 1..3, NEW k \in 1..Len(Kinds[v])
  PROVE  HasNumber(Kinds[v][k])
<1> DEFINE kind == Kinds[v][k]
           code == (v - 1) * 256 + (k - 1)
           level == CHOOSE w \in 1..3 : \E i \in 1..Len(Kinds[w]) : Kinds[w][i] = kind
           id == CHOOSE i \in 1..Len(Kinds[level]) : Kinds[level][i] = kind
<1>1. \A w \in 1..3 : \A i \in 1..Len(Kinds[w]) : Kinds[w][i] = kind => w = v /\ i = k
  BY KindIsOne
<1>2. PackMessageType(kind) = (level - 1) * 256 + (id - 1)
  BY Zenon DEF PackMessageType
<1>3. kind = Kinds[v][k]
  OBVIOUS
<1> HIDE DEF kind
<1>4. level = v
  BY <1>1, <1>3
<1> HIDE DEF level
<1>5. id = k
  BY <1>1, <1>3, <1>4
<1> HIDE DEF id
<1>6. PackMessageType(kind) = code
  BY <1>2, <1>4, <1>5
<1>7. v = 1 \/ v = 2 \/ v = 3
  OBVIOUS
<1>8. k \in 1..17
  <2>1. CASE v = 1  BY <2>1, KindsAreListed
  <2>2. CASE v = 2  BY <2>2, KindsAreListed
  <2>3. CASE v = 3  BY <2>3, KindsAreListed
  <2> QED           BY <1>7, <2>1, <2>2, <2>3
<1>9. code \div 256 = v - 1 /\ code % 256 = k - 1 /\ code \in 0..1023
  <2>1. CASE v = 1
    <3>1. code = k - 1 /\ k - 1 \in 0..16
      BY <1>8, <2>1
    <3> QED
      BY <2>1, <3>1
  <2>2. CASE v = 2
    <3>1. code = 256 + (k - 1) /\ k - 1 \in 0..16
      BY <1>8, <2>2
    <3>2. code \div 256 = 1 /\ code % 256 = k - 1
      BY <3>1
    <3> QED
      BY <2>2, <3>1, <3>2
  <2>3. CASE v = 3
    <3>1. code = 512 + (k - 1) /\ k - 1 \in 0..16
      BY <1>8, <2>3
    <3>2. code \div 256 = 2 /\ code % 256 = k - 1
      BY <3>1
    <3> QED
      BY <2>3, <3>1, <3>2
  <2> QED
    BY <1>7, <2>1, <2>2, <2>3
<1> HIDE DEF code
<1>10. v - 1 < 3 /\ k - 1 < Len(Kinds[v]) /\ (v - 1) + 1 = v /\ (k - 1) + 1 = k
  BY <1>7, <1>8, KindsAreListed
<1> DEFINE l == code \div 256
           n == code % 256
<1>11. UnpackMessageType(code) = IF l < 3 /\ n < Len(Kinds[l + 1]) THEN Kinds[l + 1][n + 1] ELSE "unknown"
  BY Zenon DEF UnpackMessageType
<1>12. l = v - 1 /\ n = k - 1
  BY <1>9
<1> HIDE DEF l, n
<1>13. l + 1 = v /\ n + 1 = k /\ l < 3
  BY <1>10, <1>12, Zenon
<1>14. n < Len(Kinds[l + 1])
  BY <1>10, <1>12, <1>13, Zenon
<1>15. UnpackMessageType(code) = kind
  BY <1>3, <1>11, <1>13, <1>14, Zenon
<1> QED
  BY <1>6, <1>9, <1>15 DEF HasNumber, kind

\* The types of the messages that are sent.
CommandKinds == {"Join", "CreateParty", "ListParties", "JoinParty", "StartGame", "Move", "Attack"}
AnswerKinds ==
  {"Welcome", "Reconnected", "NotReconnected", "AuthFailed", "PartyCreated", "PartyNotCreated",
   "ListPartiesCreated", "ListPartiesNotCreated", "PlayerJoinedParty", "PlayerNotJoinedParty",
   "PlayerLeavedParty", "PlayerNotLeavedParty", "StartGame"}

LEMMA SentHaveNumbers ==
  ASSUME NEW kind \in CommandKinds \cup AnswerKinds
  PROVE  HasNumber(kind)
<1>1. /\ \A k \in 1..8 : HasNumber(NetworkKinds[k])
      /\ \A k \in 1..17 : HasNumber(AppKinds[k])
      /\ \A k \in 1..9 : HasNumber(DomainKinds[k])
  <2>1. 1 \in 1..3 /\ 2 \in 1..3 /\ 3 \in 1..3
    OBVIOUS
  <2>2. /\ \A k \in 1..Len(Kinds[1]) : HasNumber(Kinds[1][k])
        /\ \A k \in 1..Len(Kinds[2]) : HasNumber(Kinds[2][k])
        /\ \A k \in 1..Len(Kinds[3]) : HasNumber(Kinds[3][k])
    BY <2>1, NumberIs, Zenon
  <2> QED
    BY <2>2, KindsAreListed, Zenon
<1>2. CASE kind \in {"Join", "Welcome", "AuthFailed", "Reconnected", "NotReconnected"}
  <2>1. \E k \in 1..8 : NetworkKinds[k] = kind
    BY <1>2 DEF NetworkKinds
  <2> QED
    BY <1>1, <2>1
<1>3. CASE kind \in {"CreateParty", "ListParties", "JoinParty", "StartGame", "PartyCreated",
                     "PartyNotCreated", "ListPartiesCreated", "ListPartiesNotCreated",
                     "PlayerJoinedParty", "PlayerNotJoinedParty", "PlayerLeavedParty",
                     "PlayerNotLeavedParty"}
  <2>1. \E k \in 1..17 : AppKinds[k] = kind
    BY <1>3 DEF AppKinds
  <2> QED
    BY <1>1, <2>1
<1>4. CASE kind \in {"Move", "Attack"}
  <2>1. \E k \in 1..9 : DomainKinds[k] = kind
    BY <1>4 DEF DomainKinds
  <2> QED
    BY <1>1, <2>1
<1> QED
  BY <1>2, <1>3, <1>4 DEF CommandKinds, AnswerKinds

\* What is written as a type and numbers is read as these numbers.
LEMMA ItemIsRead ==
  ASSUME NEW code \in Nat, NEW S, NEW args \in Seq(S),
         NEW message, message = [type |-> code, args |-> args],
         NEW item, item = SerializeMessage(message)
  PROVE  /\ item.kind = "array" /\ item.items # <<>>
         /\ ReadUints(item, Len(item.items)) =
              {[i \in 1 .. Len(args) + 1 |-> IF i = 1 THEN code ELSE args[i - 1]]}
<1> DEFINE built == [i \in DOMAIN args |-> BuildUint(args[i])]
           entries == <<BuildUint(code)>> \o built
           n == Len(args)
           values == [i \in 1 .. n + 1 |-> entries[i].value]
<1>3. message.type = code /\ message.args = args
  OBVIOUS
<1>4. item = BuildArray(entries)
  BY <1>3 DEF SerializeMessage
<1>5. n \in Nat /\ DOMAIN args = 1 .. n
  OBVIOUS
<1>6. built \in Seq({BuildUint(a) : a \in S}) /\ Len(built) = n /\ \A i \in 1 .. n : built[i] = BuildUint(args[i])
  <2>1. \A i \in 1 .. n : args[i] \in S
    BY <1>5
  <2> QED
    BY <1>5, <2>1
<1> HIDE DEF built
<1> DEFINE B == {BuildUint(a) : a \in S \cup {code}}
<1>7. built \in Seq(B) /\ <<BuildUint(code)>> \in Seq(B)
  <2>1. {BuildUint(a) : a \in S} \subseteq B
    OBVIOUS
  <2>2. BuildUint(code) \in B
    OBVIOUS
  <2> HIDE DEF B
  <2> QED
    BY <1>6, <2>1, <2>2
<1> HIDE DEF B
<1>8. /\ Len(entries) = n + 1
      /\ entries[1] = BuildUint(code)
      /\ \A i \in 2 .. n + 1 : entries[i] = BuildUint(args[i - 1])
  <2> DEFINE one == <<BuildUint(code)>>
  <2>1. one \in Seq(B) /\ Len(one) = 1 /\ one[1] = BuildUint(code)
    BY <1>7
  <2> HIDE DEF one
  <2>2. /\ Len(one \o built) = Len(one) + Len(built)
        /\ \A i \in 1 .. Len(one) + Len(built) :
             (one \o built)[i] = IF i <= Len(one) THEN one[i] ELSE built[i - Len(one)]
    BY <1>7, <2>1, ConcatProperties
  <2> DEFINE all == one \o built
  <2> HIDE DEF all, n
  <2>3. Len(all) = n + 1 /\ \A i \in 1 .. n + 1 : all[i] = IF i <= 1 THEN one[i] ELSE built[i - 1]
    <3>1. Len(one) + Len(built) = n + 1
      BY <1>5, <1>6, <2>1
    <3> QED
      BY <2>1, <2>2, <3>1 DEF all
  <2>4. all[1] = one[1]
    BY <1>5, <2>3
  <2>5. \A i \in 2 .. n + 1 : all[i] = built[i - 1] /\ i - 1 \in 1 .. n
    BY <1>5, <2>3
  <2> QED
    BY <1>6, <2>1, <2>3, <2>4, <2>5 DEF one, all
<1> HIDE DEF entries
<1>9. \A i \in 1 .. n + 1 : entries[i].kind = "uint"
  <2>1. \A a : BuildUint(a).kind = "uint"
    BY DEF BuildUint
  <2>2. \A i \in 1 .. n + 1 : i = 1 \/ i \in 2 .. n + 1
    BY <1>5
  <2> QED
    BY <1>8, <2>1, <2>2
<1>10. values \in Seq(S \cup {code}) /\ Len(values) = n + 1
       /\ values[1] = code /\ \A i \in 2 .. n + 1 : values[i] = args[i - 1]
  <2>1. \A a : BuildUint(a).value = a
    BY DEF BuildUint
  <2>2. 1 \in 1 .. n + 1 /\ \A i \in 2 .. n + 1 : i \in 1 .. n + 1 /\ i - 1 \in 1 .. n
    BY <1>5
  <2>3. values[1] = code /\ \A i \in 2 .. n + 1 : values[i] = args[i - 1]
    BY <1>8, <2>1, <2>2
  <2>4. \A i \in 1 .. n + 1 : i = 1 \/ i \in 2 .. n + 1
    BY <1>5
  <2>5. \A i \in 1 .. n : args[i] \in S
    BY <1>5
  <2>6. values = [i \in 1 .. n + 1 |-> values[i]]
    OBVIOUS
  <2> HIDE DEF values, n
  <2>7. \A i \in 1 .. n + 1 : values[i] \in S \cup {code}
    BY <2>2, <2>3, <2>4, <2>5
  <2>8. n + 1 \in Nat
    BY <1>5
  <2>9. values \in Seq(S \cup {code}) /\ Len(values) = n + 1
    BY <2>6, <2>7, <2>8
  <2> QED
    BY <2>3, <2>9
<1>11. ReadUints(item, Len(item.items)) = {values}
  <2>1. item.kind = "array" /\ item.items = entries
    BY <1>4 DEF BuildArray
  <2>2. \A i \in 1 .. n + 1 : ReadCborUint(item.items[i]) # {}
    BY <1>9, <2>1 DEF ReadCborUint
  <2>3. Len(item.items) = n + 1
    BY <1>8, <2>1
  <2>4. values = [i \in 1 .. n + 1 |-> item.items[i].value]
    BY <2>1
  <2> HIDE DEF values, n
  <2>5. ReadUints(item, n + 1) = {[i \in 1 .. n + 1 |-> item.items[i].value]}
    BY <2>1, <2>2, <2>3, Zenon DEF ReadUints
  <2> QED
    BY <2>3, <2>4, <2>5
<1>12. item.kind = "array" /\ item.items # <<>>
  BY <1>4, <1>5, <1>8 DEF BuildArray
<1> DEFINE inside == [i \in 1 .. n + 1 |-> IF i = 1 THEN code ELSE args[i - 1]]
<1>13. values = inside
  <2>1. values = [i \in 1 .. n + 1 |-> values[i]]
    OBVIOUS
  <2>2. \A i \in 1 .. n + 1 : i = 1 \/ i \in 2 .. n + 1
    BY <1>5
  <2> HIDE DEF values, n
  <2>3. ASSUME NEW i \in 1 .. n + 1
        PROVE  values[i] = IF i = 1 THEN code ELSE args[i - 1]
    <3>1. CASE i = 1
      BY <1>10, <3>1
    <3>2. CASE i \in 2 .. n + 1
      BY <1>5, <1>10, <3>2
    <3> QED
      BY <2>2, <3>1, <3>2
  <2> QED
    BY <2>1, <2>3
<1> HIDE DEF values
<1> QED
  BY <1>11, <1>12, <1>13

\* The type is cut to sixteen bits, and what is then no type is not read.
LEMMA ItemComesBack ==
  ASSUME NEW code \in Nat, NEW S, NEW args \in Seq(S),
         NEW message, message = [type |-> code, args |-> args]
  PROVE  /\ SerializeMessage(message).kind = "array"
         /\ \A cut : cut = code % 65536 =>
              /\ UnpackMessageType(cut) # "unknown" =>
                   DeserializeMessage(SerializeMessage(message)) = {[type |-> cut, args |-> args]}
              /\ UnpackMessageType(cut) = "unknown" =>
                   DeserializeMessage(SerializeMessage(message)) = {}
<1> DEFINE item == SerializeMessage(message)
<1>1. item = SerializeMessage(message)
  BY DEF item
<1> HIDE DEF item
<1>2. item.kind = "array" /\ item.items # <<>>
  BY <1>1, ItemIsRead
<1> DEFINE values == [i \in 1 .. Len(args) + 1 |-> IF i = 1 THEN code ELSE args[i - 1]]
<1>3. ReadUints(item, Len(item.items)) = {values} /\ values[1] = code /\ Tail(values) = args
  <2>1. ReadUints(item, Len(item.items)) = {values}
    BY <1>1, ItemIsRead
  <2>2. Len(args) \in Nat
    OBVIOUS
  <2>3. values \in Seq(S \cup {code}) /\ Len(values) = Len(args) + 1
    BY <2>2
  <2>4. values[1] = code /\ \A i \in 1 .. Len(args) : values[i + 1] = args[i]
    BY <2>2
  <2> QED
    BY <2>1, <2>2, <2>3, <2>4
<1> HIDE DEF values
<1> DEFINE first == values[1] % 65536
           rest == Tail(values)
           read == [type |-> first, args |-> rest]
           known == {m \in {values} : UnpackMessageType(m[1] % 65536) # "unknown"}
<1>4. ASSUME NEW cut, cut = code % 65536
      PROVE  first = cut /\ rest = args
  BY <1>3, <1>4
<1>5. ASSUME NEW cut, cut = code % 65536, UnpackMessageType(cut) # "unknown"
      PROVE  DeserializeMessage(item) = {[type |-> cut, args |-> args]}
  <2>1. known = {values}
    <3>1. UnpackMessageType(first) # "unknown"
      BY <1>4, <1>5
    <3> QED
      BY <3>1
  <2>2. DeserializeMessage(item) = {[type |-> m[1] % 65536, args |-> Tail(m)] : m \in {values}}
    BY <1>2, <1>3, <2>1 DEF DeserializeMessage
  <2>3. DeserializeMessage(item) = {read}
    BY <2>2
  <2>4. first = cut /\ rest = args
    BY <1>4, <1>5
  <2> HIDE DEF first, rest
  <2> QED
    BY <2>3, <2>4
<1>6. ASSUME NEW cut, cut = code % 65536, UnpackMessageType(cut) = "unknown"
      PROVE  DeserializeMessage(item) = {}
  <2>1. known = {}
    <3>1. UnpackMessageType(first) = "unknown"
      BY <1>4, <1>6
    <3> QED
      BY <3>1
  <2>2. DeserializeMessage(item) = {[type |-> m[1] % 65536, args |-> Tail(m)] : m \in {}}
    BY <1>2, <1>3, <2>1 DEF DeserializeMessage
  <2> QED
    BY <2>2
<1> QED
  BY <1>1, <1>2, <1>5, <1>6

LEMMA MessageComesBack ==
  ASSUME NEW kind \in CommandKinds \cup AnswerKinds, NEW S, NEW args \in Seq(S)
  PROVE  /\ UnpackMessageType(Message(kind, args).type) = kind
         /\ Message(kind, args).args = args
         /\ SerializeMessage(Message(kind, args)).kind = "array"
         /\ DeserializeMessage(SerializeMessage(Message(kind, args))) = {Message(kind, args)}
<1> DEFINE code == PackMessageType(kind)
           message == Message(kind, args)
           item == SerializeMessage(message)
<1>1. code \in 0..1023 /\ UnpackMessageType(code) = kind
  BY SentHaveNumbers DEF HasNumber
<1>2. kind # "unknown"
  BY DEF CommandKinds, AnswerKinds
<1>3. message = [type |-> code, args |-> args]
  BY DEF Message
<1>4. message.type = code /\ message.args = args
  BY <1>3
<1> HIDE DEF code, message
<1>5. code \in Nat /\ code % 65536 = code
  BY <1>1
<1>6. /\ item.kind = "array"
      /\ UnpackMessageType(code) # "unknown" => DeserializeMessage(item) = {[type |-> code, args |-> args]}
  <2>1. item.kind = "array"
    BY <1>3, <1>5, ItemComesBack
  <2>2. \A cut : cut = code % 65536 =>
          (UnpackMessageType(cut) # "unknown" => DeserializeMessage(item) = {[type |-> cut, args |-> args]})
    BY <1>3, <1>5, ItemComesBack
  <2> QED
    BY <1>5, <2>1, <2>2
<1>7. UnpackMessageType(code) # "unknown"
  BY <1>1, <1>2
<1>8. DeserializeMessage(item) = {[type |-> code, args |-> args]}
  BY <1>6, <1>7
<1>9. DeserializeMessage(item) = {message}
  BY <1>3, <1>8, Zenon
<1>10. UnpackMessageType(code) = kind
  BY <1>1
<1> QED
  BY <1>4, <1>6, <1>9, <1>10, Zenon DEF item, message

--------------------------------------------------------------------------------
(* What becomes of a line *)

\* A line is a sequence of words, whatever words are.
IsLine(line) == \E S : line \in Seq(S)

LEMMA KeysGiveLines ==
  ASSUME NEW key \in DOMAIN CommandFromKey
  PROVE  IsLine(CommandFromKey[key])
<1> DEFINE Words == {"MOVE", "UP", "DOWN", "LEFT", "RIGHT", "ATTACK", "JOIN", "12345",
                     "CREATE_LOBBY", "START_GAME", "EXIT"}
<1>1. /\ "MOVE" \in Words /\ "UP" \in Words /\ "DOWN" \in Words /\ "LEFT" \in Words
      /\ "RIGHT" \in Words /\ "ATTACK" \in Words /\ "JOIN" \in Words /\ "12345" \in Words
      /\ "CREATE_LOBBY" \in Words /\ "START_GAME" \in Words /\ "EXIT" \in Words
  OBVIOUS
<1> HIDE DEF Words
<1>2. /\ \A a \in Words : <<a>> \in Seq(Words)
      /\ \A a, b \in Words : <<a, b>> \in Seq(Words)
      /\ <<>> \in Seq(Words)
  OBVIOUS
<1>3. /\ <<"ATTACK">> \in Seq(Words) /\ <<"CREATE_LOBBY">> \in Seq(Words)
      /\ <<"START_GAME">> \in Seq(Words) /\ <<"EXIT">> \in Seq(Words)
      /\ <<"MOVE", "UP">> \in Seq(Words) /\ <<"MOVE", "DOWN">> \in Seq(Words)
      /\ <<"MOVE", "LEFT">> \in Seq(Words) /\ <<"MOVE", "RIGHT">> \in Seq(Words)
      /\ <<"JOIN", "12345">> \in Seq(Words)
  BY <1>1, <1>2
<1>4. CommandFromKey[key] \in
        {<<"ATTACK">>, <<"CREATE_LOBBY">>, <<"START_GAME">>, <<"EXIT">>, <<"MOVE", "UP">>,
         <<"MOVE", "DOWN">>, <<"MOVE", "LEFT">>, <<"MOVE", "RIGHT">>, <<"JOIN", "12345">>, <<>>}
  BY DEF CommandFromKey
<1>5. CommandFromKey[key] \in Seq(Words)
  BY <1>2, <1>3, <1>4
<1> QED
  BY <1>5 DEF IsLine

LEMMA OneAndOne ==
  ASSUME NEW a, NEW b
  PROVE  <<a>> \o <<b>> = <<a, b>>
<1> DEFINE both == <<a>> \o <<b>>
<1>1. <<a>> \in Seq({a, b}) /\ <<b>> \in Seq({a, b})
  OBVIOUS
<1>2. /\ both \in Seq({a, b}) /\ Len(both) = Len(<<a>>) + Len(<<b>>)
      /\ \A i \in 1 .. Len(<<a>>) + Len(<<b>>) :
           both[i] = IF i <= Len(<<a>>) THEN <<a>>[i] ELSE <<b>>[i - Len(<<a>>)]
  BY <1>1, ConcatProperties
<1> HIDE DEF both
<1>3. Len(<<a>>) = 1 /\ Len(<<b>>) = 1 /\ <<a>>[1] = a /\ <<b>>[1] = b
  OBVIOUS
<1>4. Len(both) = 2 /\ both[1] = a /\ both[2] = b
  BY <1>2, <1>3
<1>5. both = <<a, b>>
  BY <1>2, <1>4
<1> QED
  BY <1>5 DEF both

LEMMA CommandFields ==
  /\ Fields["AuthRequested"] = <<"session_id", "player_id">>
  /\ Fields["CreateLobbyRequest"] = <<"player_id">>
  /\ Fields["ListLobbiesRequest"] = <<"player_id">>
  /\ Fields["JoinLobbyRequest"] = <<"player_id", "lobby_id">>
  /\ Fields["StartGameRequest"] = <<"player_id">>
  /\ Fields["MoveRequest"] = <<"player_id", "direction">>
  /\ Fields["AttackRequest"] = <<"player_id">>
  /\ Fields["ReconnectRequested"] = <<"session_id", "player_id">>
  /\ Fields["LeaveLobbyRequest"] = <<"player_id">>
<1> DEFINE D1 == DOMAIN NetworkEvents    D2 == DOMAIN AccountEvents
           D3 == DOMAIN CreateAndListEvents  D4 == DOMAIN JoinAndLeaveEvents
           D5 == DOMAIN ReadyEvents      D6 == DOMAIN GameEvents
<1>1. D1 = {"ClientConnected", "ClientDisconnected", "Ping", "Pong", "RawMessageReceived"}
  BY DEF NetworkEvents
<1>2. D2 = {"AuthRequested", "PlayerAuthenticated", "PlayerAuthenticationFailed",
            "ReconnectRequested", "PlayerReconnected", "PlayerReconnectionFailed"}
  BY DEF AccountEvents
<1>3. D3 = {"CreateLobbyRequest", "LobbyCreatedResponse", "LobbyCreationFailedResponse",
            "ListLobbiesRequest", "ListLobbiesResponse", "ListLobbiesFailedResponse"}
  BY DEF CreateAndListEvents
<1>4. D4 = {"JoinLobbyRequest", "JoinLobbyResponse", "JoinLobbyFailedResponse",
            "JoinLobbyNotExistsResponse", "JoinLobbyFullResponse", "LeaveLobbyRequest",
            "LeaveLobbyResponse", "LeaveLobbyFailedResponse", "LeaveLobbyNotConsistsInLobbyResponse"}
  BY DEF JoinAndLeaveEvents
<1>5. D5 = {"PlayerReadyRequest", "PlayerReadyResponse", "PlayerReadyFailedResponse"}
  BY DEF ReadyEvents
<1>6. D6 = {"StartGameRequest", "StartGameResponse", "StartGameLobbyNotReadyResponse",
            "StartGameNotTheLeaderResponse", "MoveRequest", "AttackRequest",
            "GameStateUpdate", "GameOver"}
  BY DEF GameEvents
<1>7. EventType = UNION {D1, D2, D3, D4, D5, D6}
  BY DEF EventType
<1>8. \A type : FieldsOf(type) =
        CASE type \in D1 -> NetworkEvents[type]
          [] type \in D2 -> AccountEvents[type]
          [] type \in D3 -> CreateAndListEvents[type]
          [] type \in D4 -> JoinAndLeaveEvents[type]
          [] type \in D5 -> ReadyEvents[type]
          [] type \in D6 -> GameEvents[type]
  BY Zenon DEF FieldsOf
<1> HIDE DEF D1, D2, D3, D4, D5, D6
<1>9. \A type \in EventType : Fields[type] = FieldsOf(type)
  BY DEF Fields
<1>10. \A type \in {"AuthRequested", "ReconnectRequested"} : FieldsOf(type) = AccountEvents[type]
  <2> TAKE type \in {"AuthRequested", "ReconnectRequested"}
  <2>1. type \in D2 /\ type \notin D1 /\ type \notin D3 /\ type \notin D4 /\ type \notin D5 /\ type \notin D6
    BY <1>1, <1>2, <1>3, <1>4, <1>5, <1>6
  <2> QED
    BY <1>8, <2>1, Zenon
<1>11. \A type \in {"CreateLobbyRequest", "ListLobbiesRequest"} : FieldsOf(type) = CreateAndListEvents[type]
  <2> TAKE type \in {"CreateLobbyRequest", "ListLobbiesRequest"}
  <2>1. type \in D3 /\ type \notin D1 /\ type \notin D2 /\ type \notin D4 /\ type \notin D5 /\ type \notin D6
    BY <1>1, <1>2, <1>3, <1>4, <1>5, <1>6
  <2> QED
    BY <1>8, <2>1, Zenon
<1>12. \A type \in {"JoinLobbyRequest", "LeaveLobbyRequest"} : FieldsOf(type) = JoinAndLeaveEvents[type]
  <2> TAKE type \in {"JoinLobbyRequest", "LeaveLobbyRequest"}
  <2>1. type \in D4 /\ type \notin D1 /\ type \notin D2 /\ type \notin D3 /\ type \notin D5 /\ type \notin D6
    BY <1>1, <1>2, <1>3, <1>4, <1>5, <1>6
  <2> QED
    BY <1>8, <2>1, Zenon
<1>13. \A type \in {"StartGameRequest", "MoveRequest", "AttackRequest"} : FieldsOf(type) = GameEvents[type]
  <2> TAKE type \in {"StartGameRequest", "MoveRequest", "AttackRequest"}
  <2>1. type \in D6 /\ type \notin D1 /\ type \notin D2 /\ type \notin D3 /\ type \notin D4 /\ type \notin D5
    BY <1>1, <1>2, <1>3, <1>4, <1>5, <1>6
  <2> QED
    BY <1>8, <2>1, Zenon
<1>14. {"AuthRequested", "CreateLobbyRequest", "ListLobbiesRequest", "JoinLobbyRequest",
        "StartGameRequest", "MoveRequest", "AttackRequest", "ReconnectRequested",
        "LeaveLobbyRequest"} \subseteq EventType
  BY <1>2, <1>3, <1>4, <1>6, <1>7
<1>15. /\ AccountEvents["AuthRequested"] = <<"session_id", "player_id">>
       /\ AccountEvents["ReconnectRequested"] = <<"session_id", "player_id">>
  <2>1. /\ AccountEvents["AuthRequested"] = OfSession \o OfPlayer
        /\ AccountEvents["ReconnectRequested"] = OfSession \o OfPlayer
    BY DEF AccountEvents
  <2> QED
    BY <2>1, OneAndOne, Zenon DEF OfSession, OfPlayer
<1>16. /\ CreateAndListEvents["CreateLobbyRequest"] = <<"player_id">>
       /\ CreateAndListEvents["ListLobbiesRequest"] = <<"player_id">>
  BY DEF CreateAndListEvents, OfPlayer
<1>17. /\ JoinAndLeaveEvents["JoinLobbyRequest"] = <<"player_id", "lobby_id">>
       /\ JoinAndLeaveEvents["LeaveLobbyRequest"] = <<"player_id">>
  <2>1. /\ JoinAndLeaveEvents["JoinLobbyRequest"] = OfPlayer \o OfLobby
        /\ JoinAndLeaveEvents["LeaveLobbyRequest"] = OfPlayer
    BY DEF JoinAndLeaveEvents
  <2> QED
    BY <2>1, OneAndOne, Zenon DEF OfPlayer, OfLobby
<1>18. /\ GameEvents["StartGameRequest"] = <<"player_id">>
       /\ GameEvents["MoveRequest"] = <<"player_id", "direction">>
       /\ GameEvents["AttackRequest"] = <<"player_id">>
  <2>1. /\ GameEvents["StartGameRequest"] = OfPlayer
        /\ GameEvents["MoveRequest"] = OfPlayer \o <<"direction">>
        /\ GameEvents["AttackRequest"] = OfPlayer
    BY DEF GameEvents
  <2> QED
    BY <2>1, OneAndOne, Zenon DEF OfPlayer
<1> QED
  BY <1>9, <1>10, <1>11, <1>12, <1>13, <1>14, <1>15, <1>16, <1>17, <1>18

LEMMA EventOfOne ==
  ASSUME NEW type, Fields[type] = <<"player_id">>, NEW a
  PROVE  Event(type, <<a>>) = [type |-> type, player_id |-> a]
<1> DEFINE F == Fields[type]
           at(field) == CHOOSE i \in DOMAIN F : F[i] = field
           e == [field \in {"type", "player_id"} |-> IF field = "type" THEN type ELSE <<a>>[at(field)]]
           r == [type |-> type, player_id |-> a]
<1>1. DOMAIN F = {1} /\ F[1] = "player_id"
  OBVIOUS
<1> HIDE DEF F
<1>2. Range(F) = {"player_id"}
  BY <1>1 DEF Range
<1>3. at("player_id") = 1
  BY <1>1
<1> HIDE DEF at
<1>4. Event(type, <<a>>) = e
  BY <1>2 DEF Event, F, at
<1>5. /\ DOMAIN e = {"type", "player_id"} /\ e["type"] = type /\ e["player_id"] = a
      /\ e = [x \in DOMAIN e |-> e[x]]
  BY <1>3
<1>6. /\ DOMAIN r = {"type", "player_id"} /\ r["type"] = type /\ r["player_id"] = a
      /\ r = [x \in DOMAIN r |-> r[x]]
  OBVIOUS
<1> HIDE DEF e, r
<1>7. e = r
  BY <1>5, <1>6
<1> QED
  BY <1>4, <1>7 DEF r

LEMMA EventOfTwo ==
  ASSUME NEW type, NEW f \in {"session_id", "player_id"}, NEW g \in {"player_id", "lobby_id", "direction"},
         f # g, Fields[type] = <<f, g>>, NEW a, NEW b, NEW r,
         r = [x \in DOMAIN r |-> r[x]], DOMAIN r = {"type", f, g},
         r["type"] = type, r[f] = a, r[g] = b
  PROVE  Event(type, <<a, b>>) = r
<1> DEFINE F == Fields[type]
           at(field) == CHOOSE i \in DOMAIN F : F[i] = field
           e == [field \in {"type", f, g} |-> IF field = "type" THEN type ELSE <<a, b>>[at(field)]]
<1>1. DOMAIN F = {1, 2} /\ F[1] = f /\ F[2] = g
  OBVIOUS
<1> HIDE DEF F
<1>2. Range(F) = {f, g}
  BY <1>1 DEF Range
<1>3. at(f) = 1 /\ at(g) = 2
  BY <1>1
<1> HIDE DEF at
<1>4. Event(type, <<a, b>>) = e
  BY <1>2 DEF Event, F, at
<1>5. f # "type" /\ g # "type"
  OBVIOUS
<1>6. /\ DOMAIN e = {"type", f, g} /\ e["type"] = type /\ e[f] = a /\ e[g] = b
      /\ e = [x \in DOMAIN e |-> e[x]]
  BY <1>3, <1>5
<1> HIDE DEF e
<1> QED
  BY <1>4, <1>6

LEMMA HeardOf ==
  ASSUME NEW kind \in CommandKinds, NEW S, NEW args \in Seq(S), NEW first, NEW all,
         kind = "Join" => first = SessionId, kind # "Join" => first = Speaker, all = <<first>> \o args
  PROVE  OnRawMessage(Message(kind, args)) =
           IF TakesArgs(kind, all) THEN {Event(EventFactory[kind], all)} ELSE {}
<1>1. /\ UnpackMessageType(Message(kind, args).type) = kind
      /\ Message(kind, args).args = args
  BY MessageComesBack
<1>2. kind \in DOMAIN EventFactory /\ kind # "Reconnect"
  BY DEF CommandKinds, EventFactory
<1>3. (IF kind \in {"Join", "Reconnect"} THEN <<SessionId>> ELSE <<Speaker>>) = <<first>>
  BY <1>2
<1>4. (IF kind \in {"Join", "Reconnect"} THEN <<SessionId>> ELSE <<Speaker>>) \o Message(kind, args).args = all
  BY <1>1, <1>3, Zenon
<1> QED
  BY <1>1, <1>2, <1>4, Zenon DEF OnRawMessage

\* What the server makes of each command.
LEMMA CommandsAreHeard ==
  /\ \A n : OnRawMessage(Message("Join", <<n>>)) =
       {[type |-> "AuthRequested", session_id |-> SessionId, player_id |-> n]}
  /\ \A n : OnRawMessage(Message("JoinParty", <<n>>)) =
       {[type |-> "JoinLobbyRequest", player_id |-> Speaker, lobby_id |-> n]}
  /\ \A n \in 0 .. 255 : OnRawMessage(Message("Move", <<n>>)) =
       {[type |-> "MoveRequest", player_id |-> Speaker, direction |-> n]}
  /\ OnRawMessage(Message("CreateParty", <<>>)) = {[type |-> "CreateLobbyRequest", player_id |-> Speaker]}
  /\ OnRawMessage(Message("ListParties", <<>>)) = {[type |-> "ListLobbiesRequest", player_id |-> Speaker]}
  /\ OnRawMessage(Message("StartGame", <<>>)) = {[type |-> "StartGameRequest", player_id |-> Speaker]}
  /\ OnRawMessage(Message("Attack", <<>>)) = {[type |-> "AttackRequest", player_id |-> Speaker]}
<1>1. \A n : <<n>> \in Seq({n})
  OBVIOUS
<1>2. <<>> \in Seq({})
  OBVIOUS
<1>3. /\ "Join" \in CommandKinds /\ "JoinParty" \in CommandKinds /\ "Move" \in CommandKinds
      /\ "CreateParty" \in CommandKinds /\ "ListParties" \in CommandKinds
      /\ "StartGame" \in CommandKinds /\ "Attack" \in CommandKinds
  BY DEF CommandKinds
<1>4. /\ EventFactory["Join"] = "AuthRequested" /\ EventFactory["JoinParty"] = "JoinLobbyRequest"
      /\ EventFactory["Move"] = "MoveRequest" /\ EventFactory["CreateParty"] = "CreateLobbyRequest"
      /\ EventFactory["ListParties"] = "ListLobbiesRequest"
      /\ EventFactory["StartGame"] = "StartGameRequest" /\ EventFactory["Attack"] = "AttackRequest"
  BY DEF EventFactory
<1>5. ASSUME NEW n
      PROVE  /\ Event("AuthRequested", <<SessionId, n>>) =
                  [type |-> "AuthRequested", session_id |-> SessionId, player_id |-> n]
             /\ Event("JoinLobbyRequest", <<Speaker, n>>) =
                  [type |-> "JoinLobbyRequest", player_id |-> Speaker, lobby_id |-> n]
             /\ Event("MoveRequest", <<Speaker, n>>) =
                  [type |-> "MoveRequest", player_id |-> Speaker, direction |-> n]
  <2> DEFINE r1 == [type |-> "AuthRequested", session_id |-> SessionId, player_id |-> n]
             r2 == [type |-> "JoinLobbyRequest", player_id |-> Speaker, lobby_id |-> n]
             r3 == [type |-> "MoveRequest", player_id |-> Speaker, direction |-> n]
  <2>1. /\ r1 = [x \in DOMAIN r1 |-> r1[x]] /\ DOMAIN r1 = {"type", "session_id", "player_id"}
        /\ r1["type"] = "AuthRequested" /\ r1["session_id"] = SessionId /\ r1["player_id"] = n
    OBVIOUS
  <2>2. /\ r2 = [x \in DOMAIN r2 |-> r2[x]] /\ DOMAIN r2 = {"type", "player_id", "lobby_id"}
        /\ r2["type"] = "JoinLobbyRequest" /\ r2["player_id"] = Speaker /\ r2["lobby_id"] = n
    OBVIOUS
  <2>3. /\ r3 = [x \in DOMAIN r3 |-> r3[x]] /\ DOMAIN r3 = {"type", "player_id", "direction"}
        /\ r3["type"] = "MoveRequest" /\ r3["player_id"] = Speaker /\ r3["direction"] = n
    OBVIOUS
  <2> HIDE DEF r1, r2, r3
  <2>4. Event("AuthRequested", <<SessionId, n>>) = r1
    BY <2>1, CommandFields, EventOfTwo
  <2>5. Event("JoinLobbyRequest", <<Speaker, n>>) = r2
    BY <2>2, CommandFields, EventOfTwo
  <2>6. Event("MoveRequest", <<Speaker, n>>) = r3
    BY <2>3, CommandFields, EventOfTwo
  <2> QED
    BY <2>4, <2>5, <2>6, Zenon DEF r1, r2, r3
<1>6. ASSUME NEW n, NEW kind \in {"Join", "JoinParty", "Move"}, NEW type, EventFactory[kind] = type,
             Len(Fields[type]) = 2, NEW first, kind = "Move" => n \in 0 .. 255,
             kind = "Join" => first = SessionId, kind # "Join" => first = Speaker
      PROVE  OnRawMessage(Message(kind, <<n>>)) = {Event(type, <<first, n>>)}
  <2>1. kind \in CommandKinds
    BY DEF CommandKinds
  <2>2. <<first, n>> = <<first>> \o <<n>>
    BY OneAndOne
  <2>3. TakesArgs(kind, <<first, n>>)
    <3>1. Len(<<first, n>>) = Len(Fields[type]) /\ <<first, n>>[2] = n
      BY <1>6
    <3> QED
      BY <1>6, <3>1, Zenon DEF TakesArgs
  <2> DEFINE all == <<first, n>>
             args == <<n>>
  <2>4. args \in Seq({n}) /\ all = <<first>> \o args
    BY <1>1, <2>2
  <2> HIDE DEF all, args
  <2>5. OnRawMessage(Message(kind, args)) =
          IF TakesArgs(kind, all) THEN {Event(type, all)} ELSE {}
    BY <1>6, <2>1, <2>4, HeardOf
  <2> QED
    BY <2>3, <2>5, Zenon DEF all, args
<1>7. ASSUME NEW kind \in {"CreateParty", "ListParties", "StartGame", "Attack"},
             NEW type, EventFactory[kind] = type, Fields[type] = <<"player_id">>
      PROVE  OnRawMessage(Message(kind, <<>>)) = {[type |-> type, player_id |-> Speaker]}
  <2>1. kind \in CommandKinds /\ kind # "Join"
    BY DEF CommandKinds
  <2>2. <<Speaker>> = <<Speaker>> \o <<>>
    OBVIOUS
  <2>3. TakesArgs(kind, <<Speaker>>)
    <3>1. Len(<<Speaker>>) = Len(Fields[type]) /\ kind # "Move"
      BY <1>7
    <3> QED
      BY <1>7, <3>1, Zenon DEF TakesArgs
  <2>4. OnRawMessage(Message(kind, <<>>)) =
          IF TakesArgs(kind, <<Speaker>>) THEN {Event(type, <<Speaker>>)} ELSE {}
    BY <1>2, <1>7, <2>1, <2>2, HeardOf, Zenon
  <2>5. Event(type, <<Speaker>>) = [type |-> type, player_id |-> Speaker]
    BY <1>7, EventOfOne, Zenon
  <2> QED
    BY <2>3, <2>4, <2>5, Zenon
<1>8. /\ "CreateParty" \in {"CreateParty", "ListParties", "StartGame", "Attack"}
      /\ "ListParties" \in {"CreateParty", "ListParties", "StartGame", "Attack"}
      /\ "StartGame" \in {"CreateParty", "ListParties", "StartGame", "Attack"}
      /\ "Attack" \in {"CreateParty", "ListParties", "StartGame", "Attack"}
  OBVIOUS
<1>9. /\ OnRawMessage(Message("CreateParty", <<>>)) = {[type |-> "CreateLobbyRequest", player_id |-> Speaker]}
      /\ OnRawMessage(Message("ListParties", <<>>)) = {[type |-> "ListLobbiesRequest", player_id |-> Speaker]}
      /\ OnRawMessage(Message("StartGame", <<>>)) = {[type |-> "StartGameRequest", player_id |-> Speaker]}
      /\ OnRawMessage(Message("Attack", <<>>)) = {[type |-> "AttackRequest", player_id |-> Speaker]}
  BY <1>4, <1>7, <1>8, CommandFields, Zenon
<1>10. ASSUME NEW n
       PROVE  /\ OnRawMessage(Message("Join", <<n>>)) =
                   {[type |-> "AuthRequested", session_id |-> SessionId, player_id |-> n]}
              /\ OnRawMessage(Message("JoinParty", <<n>>)) =
                   {[type |-> "JoinLobbyRequest", player_id |-> Speaker, lobby_id |-> n]}
              /\ n \in 0 .. 255 => OnRawMessage(Message("Move", <<n>>)) =
                   {[type |-> "MoveRequest", player_id |-> Speaker, direction |-> n]}
  <2>1. /\ Len(Fields["AuthRequested"]) = 2 /\ Len(Fields["JoinLobbyRequest"]) = 2
        /\ Len(Fields["MoveRequest"]) = 2
    BY CommandFields
  <2>2. /\ "Join" \in {"Join", "JoinParty", "Move"} /\ "JoinParty" \in {"Join", "JoinParty", "Move"}
        /\ "Move" \in {"Join", "JoinParty", "Move"} /\ "JoinParty" # "Join" /\ "Move" # "Join"
        /\ "Move" # "JoinParty"
    OBVIOUS
  <2>3. /\ OnRawMessage(Message("Join", <<n>>)) = {Event("AuthRequested", <<SessionId, n>>)}
        /\ OnRawMessage(Message("JoinParty", <<n>>)) = {Event("JoinLobbyRequest", <<Speaker, n>>)}
        /\ n \in 0 .. 255 => OnRawMessage(Message("Move", <<n>>)) = {Event("MoveRequest", <<Speaker, n>>)}
    BY <1>4, <1>6, <2>1, <2>2, Zenon
  <2> QED
    BY <1>5, <2>3, Zenon
<1> QED
  BY <1>9, <1>10, Zenon

\* Of the words a line begins with, the code asks the first two.
BeginsWith(line, words) == Len(line) >= Len(words) /\ SubSeq(line, 1, Len(words)) = words

\* The word behind the command's word.
Second(line) == {line[i] : i \in {2} \cap DOMAIN line}

LEMMA BeginsWithOne ==
  ASSUME NEW S, NEW line \in Seq(S), NEW a
  PROVE  BeginsWith(line, <<a>>) <=> line # <<>> /\ line[1] = a
<1> DEFINE start == SubSeq(line, 1, 1)
<1>1. Len(<<a>>) = 1
  OBVIOUS
<1>2. Len(line) >= 1 <=> line # <<>>
  OBVIOUS
<1>3. ASSUME Len(line) >= 1
      PROVE  start = <<a>> <=> line[1] = a
  <2>1. start \in Seq(S) /\ Len(start) = 1 /\ start[1] = line[1]
    BY <1>3
  <2> HIDE DEF start
  <2> QED
    BY <2>1
<1> QED
  BY <1>1, <1>2, <1>3 DEF BeginsWith

LEMMA BeginsWithTwo ==
  ASSUME NEW S, NEW line \in Seq(S), NEW a, NEW b
  PROVE  BeginsWith(line, <<a, b>>) <=> line # <<>> /\ line[1] = a /\ b \in Second(line)
<1> DEFINE start == SubSeq(line, 1, 2)
<1>1. Len(<<a, b>>) = 2
  OBVIOUS
<1>2. Len(line) >= 2 <=> 2 \in DOMAIN line
  OBVIOUS
<1>3. ASSUME Len(line) >= 2
      PROVE  start = <<a, b>> <=> line[1] = a /\ line[2] = b
  <2>1. start \in Seq(S) /\ Len(start) = 2 /\ start[1] = line[1] /\ start[2] = line[2]
    BY <1>3
  <2> HIDE DEF start
  <2> QED
    BY <2>1
<1>4. b \in Second(line) <=> Len(line) >= 2 /\ line[2] = b
  BY <1>2 DEF Second
<1>5. Len(line) >= 2 => line # <<>>
  OBVIOUS
<1> QED
  BY <1>1, <1>3, <1>4, <1>5 DEF BeginsWith

LEMMA MeantIs ==
  ASSUME NEW line, NEW x
  PROVE  x \in Meant(line) <=>
           \/ \E w \in DOMAIN PlayerIdOf :
                /\ BeginsWith(line, <<"JOIN", w>>)
                /\ x = [type |-> "AuthRequested", session_id |-> SessionId, player_id |-> PlayerIdOf[w]]
           \/ \E w \in DOMAIN Uint64Of :
                /\ BeginsWith(line, <<"JOIN_LOBBY", w>>)
                /\ x = [type |-> "JoinLobbyRequest", player_id |-> Speaker, lobby_id |-> Uint64Of[w]]
           \/ \E i \in 0 .. 3 :
                /\ BeginsWith(line, <<"MOVE", Direction[i + 1]>>)
                /\ x = [type |-> "MoveRequest", player_id |-> Speaker, direction |-> i]
           \/ BeginsWith(line, <<"CREATE_LOBBY">>) /\ x = [type |-> "CreateLobbyRequest", player_id |-> Speaker]
           \/ BeginsWith(line, <<"LIST_LOBBY">>) /\ x = [type |-> "ListLobbiesRequest", player_id |-> Speaker]
           \/ BeginsWith(line, <<"START_GAME">>) /\ x = [type |-> "StartGameRequest", player_id |-> Speaker]
           \/ BeginsWith(line, <<"ATTACK">>) /\ x = [type |-> "AttackRequest", player_id |-> Speaker]
<1> DEFINE M1 == {[type |-> "AuthRequested", session_id |-> SessionId, player_id |-> PlayerIdOf[w]] :
                    w \in {v \in DOMAIN PlayerIdOf : BeginsWith(line, <<"JOIN", v>>)}}
           M2 == {[type |-> "JoinLobbyRequest", player_id |-> Speaker, lobby_id |-> Uint64Of[w]] :
                    w \in {v \in DOMAIN Uint64Of : BeginsWith(line, <<"JOIN_LOBBY", v>>)}}
           M3 == {[type |-> "MoveRequest", player_id |-> Speaker, direction |-> i] :
                    i \in {j \in 0 .. 3 : BeginsWith(line, <<"MOVE", Direction[j + 1]>>)}}
           M4 == {[type |-> "CreateLobbyRequest", player_id |-> Speaker] :
                    w \in {v \in {"CREATE_LOBBY"} : BeginsWith(line, <<v>>)}}
           M5 == {[type |-> "ListLobbiesRequest", player_id |-> Speaker] :
                    w \in {v \in {"LIST_LOBBY"} : BeginsWith(line, <<v>>)}}
           M6 == {[type |-> "StartGameRequest", player_id |-> Speaker] :
                    w \in {v \in {"START_GAME"} : BeginsWith(line, <<v>>)}}
           M7 == {[type |-> "AttackRequest", player_id |-> Speaker] :
                    w \in {v \in {"ATTACK"} : BeginsWith(line, <<v>>)}}
<1>1. Meant(line) = UNION {M1, M2, M3, M4, M5, M6, M7}
  BY Zenon DEF Meant, BeginsWith, Direction
<1>2. /\ x \in M1 <=> \E w \in DOMAIN PlayerIdOf :
           /\ BeginsWith(line, <<"JOIN", w>>)
           /\ x = [type |-> "AuthRequested", session_id |-> SessionId, player_id |-> PlayerIdOf[w]]
      /\ x \in M2 <=> \E w \in DOMAIN Uint64Of :
           /\ BeginsWith(line, <<"JOIN_LOBBY", w>>)
           /\ x = [type |-> "JoinLobbyRequest", player_id |-> Speaker, lobby_id |-> Uint64Of[w]]
      /\ x \in M3 <=> \E i \in 0 .. 3 :
           /\ BeginsWith(line, <<"MOVE", Direction[i + 1]>>)
           /\ x = [type |-> "MoveRequest", player_id |-> Speaker, direction |-> i]
  BY Zenon
<1>3. /\ x \in M4 <=> BeginsWith(line, <<"CREATE_LOBBY">>) /\ x = [type |-> "CreateLobbyRequest", player_id |-> Speaker]
      /\ x \in M5 <=> BeginsWith(line, <<"LIST_LOBBY">>) /\ x = [type |-> "ListLobbiesRequest", player_id |-> Speaker]
      /\ x \in M6 <=> BeginsWith(line, <<"START_GAME">>) /\ x = [type |-> "StartGameRequest", player_id |-> Speaker]
      /\ x \in M7 <=> BeginsWith(line, <<"ATTACK">>) /\ x = [type |-> "AttackRequest", player_id |-> Speaker]
  BY Zenon
<1> HIDE DEF M1, M2, M3, M4, M5, M6, M7
<1>4. x \in Meant(line) <=>
        x \in M1 \/ x \in M2 \/ x \in M3 \/ x \in M4 \/ x \in M5 \/ x \in M6 \/ x \in M7
  BY <1>1
<1> QED
  BY <1>2, <1>3, <1>4, Zenon

LEMMA CommandWords ==
  /\ DOMAIN CommandOf = {"JOIN", "CREATE_LOBBY", "LIST_LOBBY", "JOIN_LOBBY", "START_GAME", "MOVE", "ATTACK"}
  /\ CommandOf["JOIN"] = "Join" /\ CommandOf["CREATE_LOBBY"] = "CreateParty"
  /\ CommandOf["LIST_LOBBY"] = "ListParties" /\ CommandOf["JOIN_LOBBY"] = "JoinParty"
  /\ CommandOf["START_GAME"] = "StartGame" /\ CommandOf["MOVE"] = "Move" /\ CommandOf["ATTACK"] = "Attack"
BY DEF CommandOf

LEMMA DirectionBytes ==
  /\ Range(Direction) = {Direction[i] : i \in 1 .. 4}
  /\ \A i \in 0 .. 3 : DirectionToByte(Direction[i + 1]) = i
<1>1. DOMAIN Direction = 1 .. 4 /\ \A i, j \in 1 .. 4 : Direction[i] = Direction[j] => i = j
  BY DEF Direction
<1>2. Range(Direction) = {Direction[i] : i \in 1 .. 4}
  BY <1>1 DEF Range
<1>3. ASSUME NEW i \in 0 .. 3
      PROVE  DirectionToByte(Direction[i + 1]) = i
  <2> DEFINE at == CHOOSE n \in DOMAIN Direction : Direction[n] = Direction[i + 1]
  <2>1. i + 1 \in 1 .. 4 /\ (i + 1) - 1 = i
    OBVIOUS
  <2>2. at = i + 1
    BY <1>1, <2>1
  <2>3. DirectionToByte(Direction[i + 1]) = at - 1
    BY Zenon DEF DirectionToByte
  <2> HIDE DEF at
  <2> QED
    BY <2>1, <2>2, <2>3
<1> QED
  BY <1>2, <1>3

LEMMA CommandArgsAre ==
  ASSUME NEW line
  PROVE  /\ CommandArgs("Join", line) = {<<PlayerIdOf[w]>> : w \in Second(line) \cap DOMAIN PlayerIdOf}
         /\ CommandArgs("JoinParty", line) = {<<Uint64Of[w]>> : w \in Second(line) \cap DOMAIN Uint64Of}
         /\ CommandArgs("Move", line) = {<<DirectionToByte(w)>> : w \in Second(line) \cap Range(Direction)}
         /\ \A kind \in {"CreateParty", "ListParties", "StartGame", "Attack"} : CommandArgs(kind, line) = {<<>>}
<1>1. CommandArgs("Join", line) = {<<PlayerIdOf[w]>> : w \in Second(line) \cap DOMAIN PlayerIdOf}
  BY Zenon DEF CommandArgs, Second
<1>2. CommandArgs("JoinParty", line) = {<<Uint64Of[w]>> : w \in Second(line) \cap DOMAIN Uint64Of}
  BY Zenon DEF CommandArgs, Second
<1>3. CommandArgs("Move", line) = {<<DirectionToByte(w)>> : w \in Second(line) \cap Range(Direction)}
  BY Zenon DEF CommandArgs, Second
<1>4. ASSUME NEW kind \in {"CreateParty", "ListParties", "StartGame", "Attack"}
      PROVE  CommandArgs(kind, line) = {<<>>}
  <2>1. kind # "Join" /\ kind # "JoinParty" /\ kind # "Move"
    OBVIOUS
  <2> QED
    BY <2>1, Zenon DEF CommandArgs
<1> QED
  BY <1>1, <1>2, <1>3, <1>4

LEMMA RoutedAre ==
  ASSUME NEW S, NEW line \in Seq(S), NEW kind, NEW word, line # <<>>, line[1] = word,
         word \in DOMAIN CommandOf, CommandOf[word] = kind
  PROVE  RouteCommand(line) = {Message(kind, args) : args \in CommandArgs(kind, line)}
<1>1. Head(line) = word
  OBVIOUS
<1> QED
  BY <1>1, Zenon DEF RouteCommand

LEMMA LinesAreHeard ==
  ASSUME NEW S, NEW line \in Seq(S), NEW x
  PROVE  (\E m \in RouteCommand(line) : x \in OnRawMessage(m)) <=> x \in Meant(line)
<1> DEFINE Heard == \E m \in RouteCommand(line) : x \in OnRawMessage(m)
           J(w) == [type |-> "AuthRequested", session_id |-> SessionId, player_id |-> PlayerIdOf[w]]
           L(w) == [type |-> "JoinLobbyRequest", player_id |-> Speaker, lobby_id |-> Uint64Of[w]]
           M(i) == [type |-> "MoveRequest", player_id |-> Speaker, direction |-> i]
           P(type) == [type |-> type, player_id |-> Speaker]
           one(a) == line # <<>> /\ line[1] = a
           two(a, b) == line # <<>> /\ line[1] = a /\ b \in Second(line)
<1>1. x \in Meant(line) <=>
        \/ \E w \in DOMAIN PlayerIdOf : two("JOIN", w) /\ x = J(w)
        \/ \E w \in DOMAIN Uint64Of : two("JOIN_LOBBY", w) /\ x = L(w)
        \/ \E i \in 0 .. 3 : two("MOVE", Direction[i + 1]) /\ x = M(i)
        \/ one("CREATE_LOBBY") /\ x = P("CreateLobbyRequest")
        \/ one("LIST_LOBBY") /\ x = P("ListLobbiesRequest")
        \/ one("START_GAME") /\ x = P("StartGameRequest")
        \/ one("ATTACK") /\ x = P("AttackRequest")
  <2>1. /\ \A a, b : BeginsWith(line, <<a, b>>) <=> two(a, b)
        /\ \A a : BeginsWith(line, <<a>>) <=> one(a)
    BY BeginsWithOne, BeginsWithTwo, Zenon
  <2> HIDE DEF one, two, J, L, M, P
  <2> QED
    BY <2>1, MeantIs, Zenon DEF J, L, M, P
<1>2. /\ \A n : OnRawMessage(Message("Join", <<n>>)) =
           {[type |-> "AuthRequested", session_id |-> SessionId, player_id |-> n]}
      /\ \A n : OnRawMessage(Message("JoinParty", <<n>>)) =
           {[type |-> "JoinLobbyRequest", player_id |-> Speaker, lobby_id |-> n]}
      /\ \A n \in 0 .. 255 : OnRawMessage(Message("Move", <<n>>)) = {M(n)}
      /\ OnRawMessage(Message("CreateParty", <<>>)) = {P("CreateLobbyRequest")}
      /\ OnRawMessage(Message("ListParties", <<>>)) = {P("ListLobbiesRequest")}
      /\ OnRawMessage(Message("StartGame", <<>>)) = {P("StartGameRequest")}
      /\ OnRawMessage(Message("Attack", <<>>)) = {P("AttackRequest")}
  BY CommandsAreHeard, Zenon
<1>3. CASE line = <<>>
  <2>1. ~ Heard
    BY <1>3 DEF RouteCommand
  <2> QED
    BY <1>1, <1>3, <2>1, Zenon
<1>4. CASE line # <<>> /\ line[1] \notin DOMAIN CommandOf
  <2>1. ~ Heard
    BY <1>4 DEF RouteCommand
  <2>2. /\ ~ one("CREATE_LOBBY") /\ ~ one("LIST_LOBBY") /\ ~ one("START_GAME") /\ ~ one("ATTACK")
        /\ \A b : ~ two("JOIN", b) /\ ~ two("JOIN_LOBBY", b) /\ ~ two("MOVE", b)
    BY <1>4, CommandWords
  <2> QED
    BY <1>1, <2>1, <2>2, Zenon
<1>5. ASSUME line # <<>>, NEW word \in DOMAIN CommandOf, line[1] = word
      PROVE  /\ Heard <=> \E args \in CommandArgs(CommandOf[word], line) :
                            x \in OnRawMessage(Message(CommandOf[word], args))
             /\ \A a : one(a) <=> a = word
             /\ \A a, b : two(a, b) <=> a = word /\ b \in Second(line)
  <2>1. RouteCommand(line) = {Message(CommandOf[word], args) : args \in CommandArgs(CommandOf[word], line)}
    BY <1>5, RoutedAre, SMTT(30)
  <2> QED
    BY <1>5, <2>1, Zenon
<1> HIDE DEF Heard, one, two
<1>6. CASE line # <<>> /\ line[1] = "JOIN"
  <2>1. /\ Heard <=> \E args \in CommandArgs("Join", line) : x \in OnRawMessage(Message("Join", args))
        /\ \A a : one(a) <=> a = "JOIN"
        /\ \A a, b : two(a, b) <=> a = "JOIN" /\ b \in Second(line)
    BY <1>5, <1>6, CommandWords
  <2>2. Heard <=> \E w \in Second(line) \cap DOMAIN PlayerIdOf : x = J(w)
    <3>1. \A w : OnRawMessage(Message("Join", <<PlayerIdOf[w]>>)) = {J(w)}
      BY <1>2, Zenon
    <3>2. \A args : args \in CommandArgs("Join", line) <=>
                       \E w \in Second(line) \cap DOMAIN PlayerIdOf : args = <<PlayerIdOf[w]>>
      <4> DEFINE found == CommandArgs("Join", line)
      <4>1. found = {<<PlayerIdOf[w]>> : w \in Second(line) \cap DOMAIN PlayerIdOf}
        BY CommandArgsAre, Zenon
      <4> HIDE DEF found
      <4>2. \A args : args \in found <=> \E w \in Second(line) \cap DOMAIN PlayerIdOf : args = <<PlayerIdOf[w]>>
        BY <4>1
      <4> QED
        BY <4>2, Zenon DEF found
    <3> HIDE DEF J
    <3>3. \A w : x \in OnRawMessage(Message("Join", <<PlayerIdOf[w]>>)) <=> x = J(w)
      BY <3>1, Zenon
    <3> QED
      BY <2>1, <3>2, <3>3, Zenon
  <2>3. x \in Meant(line) <=> \E w \in DOMAIN PlayerIdOf : w \in Second(line) /\ x = J(w)
    <3> HIDE DEF J, L, M, P
    <3> QED
      BY <1>1, <2>1
  <2> QED
    BY <2>2, <2>3, Zenon DEF Heard
<1>7. CASE line # <<>> /\ line[1] = "JOIN_LOBBY"
  <2>1. /\ Heard <=> \E args \in CommandArgs("JoinParty", line) : x \in OnRawMessage(Message("JoinParty", args))
        /\ \A a : one(a) <=> a = "JOIN_LOBBY"
        /\ \A a, b : two(a, b) <=> a = "JOIN_LOBBY" /\ b \in Second(line)
    BY <1>5, <1>7, CommandWords
  <2>2. Heard <=> \E w \in Second(line) \cap DOMAIN Uint64Of : x = L(w)
    <3>1. \A w : OnRawMessage(Message("JoinParty", <<Uint64Of[w]>>)) = {L(w)}
      BY <1>2, Zenon
    <3>2. \A args : args \in CommandArgs("JoinParty", line) <=>
                       \E w \in Second(line) \cap DOMAIN Uint64Of : args = <<Uint64Of[w]>>
      <4> DEFINE found == CommandArgs("JoinParty", line)
      <4>1. found = {<<Uint64Of[w]>> : w \in Second(line) \cap DOMAIN Uint64Of}
        BY CommandArgsAre, Zenon
      <4> HIDE DEF found
      <4>2. \A args : args \in found <=> \E w \in Second(line) \cap DOMAIN Uint64Of : args = <<Uint64Of[w]>>
        BY <4>1
      <4> QED
        BY <4>2, Zenon DEF found
    <3> HIDE DEF L
    <3>3. \A w : x \in OnRawMessage(Message("JoinParty", <<Uint64Of[w]>>)) <=> x = L(w)
      BY <3>1, Zenon
    <3> QED
      BY <2>1, <3>2, <3>3, Zenon
  <2>3. x \in Meant(line) <=> \E w \in DOMAIN Uint64Of : w \in Second(line) /\ x = L(w)
    <3> HIDE DEF J, L, M, P
    <3> QED
      BY <1>1, <2>1
  <2> QED
    BY <2>2, <2>3, Zenon DEF Heard
<1>8. CASE line # <<>> /\ line[1] = "MOVE"
  <2>1. /\ Heard <=> \E args \in CommandArgs("Move", line) : x \in OnRawMessage(Message("Move", args))
        /\ \A a : one(a) <=> a = "MOVE"
        /\ \A a, b : two(a, b) <=> a = "MOVE" /\ b \in Second(line)
    BY <1>5, <1>8, CommandWords
  <2>2. Heard <=> \E w \in Second(line) \cap Range(Direction) : x = M(DirectionToByte(w))
    <3>1. \A w \in Range(Direction) : OnRawMessage(Message("Move", <<DirectionToByte(w)>>)) = {M(DirectionToByte(w))}
      <4>1. ASSUME NEW w \in Range(Direction)
            PROVE  DirectionToByte(w) \in 0 .. 255
        <5>1. PICK i \in 1 .. 4 : w = Direction[i]
          BY DirectionBytes, Zenon
        <5>2. PICK k \in 0 .. 3 : k + 1 = i
          <6>1. i - 1 \in 0 .. 3 /\ (i - 1) + 1 = i
            OBVIOUS
          <6> QED
            BY <6>1, Zenon
        <5>3. DirectionToByte(w) = k
          BY <5>1, <5>2, DirectionBytes, Zenon
        <5>4. k \in 0 .. 255
          OBVIOUS
        <5> QED
          BY <5>3, <5>4, Zenon
      <4> QED
        BY <1>2, <4>1, Zenon
    <3>2. \A args : args \in CommandArgs("Move", line) <=>
                       \E w \in Second(line) \cap Range(Direction) : args = <<DirectionToByte(w)>>
      <4> DEFINE found == CommandArgs("Move", line)
      <4>1. found = {<<DirectionToByte(w)>> : w \in Second(line) \cap Range(Direction)}
        BY CommandArgsAre, Zenon
      <4> HIDE DEF found
      <4>2. \A args : args \in found <=> \E w \in Second(line) \cap Range(Direction) : args = <<DirectionToByte(w)>>
        BY <4>1
      <4> QED
        BY <4>2, Zenon DEF found
    <3> HIDE DEF M
    <3>3. \A w \in Range(Direction) :
            x \in OnRawMessage(Message("Move", <<DirectionToByte(w)>>)) <=> x = M(DirectionToByte(w))
      BY <3>1, Zenon
    <3> QED
      BY <2>1, <3>2, <3>3, Zenon
  <2>3. x \in Meant(line) <=> \E i \in 0 .. 3 : Direction[i + 1] \in Second(line) /\ x = M(i)
    <3> HIDE DEF J, L, M, P
    <3> QED
      BY <1>1, <2>1
  <2>4. \A w : w \in Range(Direction) <=> \E i \in 0 .. 3 : w = Direction[i + 1]
    <3>1. \A i \in 0 .. 3 : i + 1 \in 1 .. 4
      OBVIOUS
    <3>2. \A i \in 1 .. 4 : i - 1 \in 0 .. 3 /\ (i - 1) + 1 = i
      OBVIOUS
    <3> QED
      BY <3>1, <3>2, DirectionBytes
  <2> HIDE DEF M
  <2>5. Heard <=> \E i \in 0 .. 3 : Direction[i + 1] \in Second(line) /\ x = M(i)
    BY <2>2, <2>4, DirectionBytes, Zenon
  <2> QED
    BY <2>3, <2>5, Zenon DEF Heard
<1>9. ASSUME NEW word \in {"CREATE_LOBBY", "LIST_LOBBY", "START_GAME", "ATTACK"},
             line # <<>>, line[1] = word, NEW type,
             OnRawMessage(Message(CommandOf[word], <<>>)) = {P(type)}
      PROVE  /\ Heard <=> x = P(type)
             /\ \A a : one(a) <=> a = word
             /\ \A a, b : two(a, b) <=> a = word /\ b \in Second(line)
  <2>1. CommandOf[word] \in {"CreateParty", "ListParties", "StartGame", "Attack"} /\ word \in DOMAIN CommandOf
    BY CommandWords
  <2>2. Heard <=> \E args \in CommandArgs(CommandOf[word], line) :
                    x \in OnRawMessage(Message(CommandOf[word], args))
    BY <1>5, <1>9, <2>1
  <2>3. CommandArgs(CommandOf[word], line) = {<<>>}
    BY <2>1, CommandArgsAre
  <2>4. Heard <=> x \in OnRawMessage(Message(CommandOf[word], <<>>))
    BY <2>2, <2>3, Zenon
  <2>5. Heard <=> x = P(type)
    BY <1>9, <2>4, Zenon
  <2> QED
    BY <1>5, <1>9, <2>1, <2>5
<1>10. CASE line # <<>> /\ line[1] = "CREATE_LOBBY"
  <2>1. /\ Heard <=> x = P("CreateLobbyRequest")
        /\ \A a : one(a) <=> a = "CREATE_LOBBY"
        /\ \A a, b : two(a, b) <=> a = "CREATE_LOBBY" /\ b \in Second(line)
    BY <1>2, <1>9, <1>10, CommandWords
  <2> HIDE DEF J, L, M, P
  <2> QED
    BY <1>1, <2>1 DEF Heard
<1>11. CASE line # <<>> /\ line[1] = "LIST_LOBBY"
  <2>1. /\ Heard <=> x = P("ListLobbiesRequest")
        /\ \A a : one(a) <=> a = "LIST_LOBBY"
        /\ \A a, b : two(a, b) <=> a = "LIST_LOBBY" /\ b \in Second(line)
    BY <1>2, <1>9, <1>11, CommandWords
  <2> HIDE DEF J, L, M, P
  <2> QED
    BY <1>1, <2>1 DEF Heard
<1>12. CASE line # <<>> /\ line[1] = "START_GAME"
  <2>1. /\ Heard <=> x = P("StartGameRequest")
        /\ \A a : one(a) <=> a = "START_GAME"
        /\ \A a, b : two(a, b) <=> a = "START_GAME" /\ b \in Second(line)
    BY <1>2, <1>9, <1>12, CommandWords
  <2> HIDE DEF J, L, M, P
  <2> QED
    BY <1>1, <2>1 DEF Heard
<1>13. CASE line # <<>> /\ line[1] = "ATTACK"
  <2>1. /\ Heard <=> x = P("AttackRequest")
        /\ \A a : one(a) <=> a = "ATTACK"
        /\ \A a, b : two(a, b) <=> a = "ATTACK" /\ b \in Second(line)
    BY <1>2, <1>9, <1>13, CommandWords
  <2> HIDE DEF J, L, M, P
  <2> QED
    BY <1>1, <2>1 DEF Heard
<1>14. line[1] \in DOMAIN CommandOf =>
         \/ line[1] = "JOIN" \/ line[1] = "JOIN_LOBBY" \/ line[1] = "MOVE" \/ line[1] = "CREATE_LOBBY"
         \/ line[1] = "LIST_LOBBY" \/ line[1] = "START_GAME" \/ line[1] = "ATTACK"
  BY CommandWords
<1> QED
  BY <1>3, <1>4, <1>6, <1>7, <1>8, <1>10, <1>11, <1>12, <1>13, <1>14, Zenon

LEMMA SentAreMessages ==
  ASSUME NEW S, NEW line \in Seq(S), NEW m \in RouteCommand(line)
  PROVE  \E kind \in CommandKinds : \E T : \E args \in Seq(T) : m = Message(kind, args)
<1>1. line # <<>> /\ line[1] \in DOMAIN CommandOf
  BY DEF RouteCommand
<1>2. PICK args \in CommandArgs(CommandOf[line[1]], line) : m = Message(CommandOf[line[1]], args)
  BY <1>1, RoutedAre
<1>3. CommandOf[line[1]] \in CommandKinds
  BY <1>1, CommandWords DEF CommandKinds
<1>4. args = <<>> \/ \E n : args = <<n>>
  <2>1. \A kind \in CommandKinds : kind \in {"Join", "JoinParty", "Move"}
                                  \/ kind \in {"CreateParty", "ListParties", "StartGame", "Attack"}
    BY DEF CommandKinds
  <2>2. CASE CommandOf[line[1]] = "Join"
    <3>1. args \in {<<PlayerIdOf[w]>> : w \in Second(line) \cap DOMAIN PlayerIdOf}
      BY <1>2, <2>2, CommandArgsAre
    <3> QED
      BY <3>1
  <2>3. CASE CommandOf[line[1]] = "JoinParty"
    <3>1. args \in {<<Uint64Of[w]>> : w \in Second(line) \cap DOMAIN Uint64Of}
      BY <1>2, <2>3, CommandArgsAre
    <3> QED
      BY <3>1
  <2>4. CASE CommandOf[line[1]] = "Move"
    <3>1. args \in {<<DirectionToByte(w)>> : w \in Second(line) \cap Range(Direction)}
      BY <1>2, <2>4, CommandArgsAre
    <3> QED
      BY <3>1
  <2>5. CASE CommandOf[line[1]] \in {"CreateParty", "ListParties", "StartGame", "Attack"}
    BY <1>2, <2>5, CommandArgsAre
  <2> QED
    BY <1>3, <2>1, <2>2, <2>3, <2>4, <2>5
<1>5. \E T : args \in Seq(T)
  <2>1. CASE args = <<>>
    <3>1. args \in Seq({})
      BY <2>1
    <3> QED
      BY <3>1
  <2>2. CASE \E n : args = <<n>>
    <3>1. PICK n : args = <<n>>
      BY <2>2
    <3>2. args \in Seq({n})
      BY <3>1
    <3> QED
      BY <3>2
  <2> QED
    BY <1>4, <2>1, <2>2
<1> QED
  BY <1>2, <1>3, <1>5

LEMMA LineIsUnderstood ==
  ASSUME NEW S, NEW line \in Seq(S)
  PROVE  UNION {EventsOf(item) : item \in CommandItems(line)} = Meant(line)
<1>1. ASSUME NEW m \in RouteCommand(line)
      PROVE  EventsOf(SerializeMessage(m)) = OnRawMessage(m)
  <2>1. PICK kind \in CommandKinds : \E T : \E args \in Seq(T) : m = Message(kind, args)
    BY SentAreMessages
  <2>2. PICK T : \E args \in Seq(T) : m = Message(kind, args)
    BY <2>1
  <2>3. PICK args \in Seq(T) : m = Message(kind, args)
    BY <2>2
  <2>4. DeserializeMessage(SerializeMessage(m)) = {m}
    BY <2>3, MessageComesBack
  <2> QED
    BY <2>4 DEF EventsOf
<1>2. ASSUME NEW x
      PROVE  x \in UNION {EventsOf(item) : item \in CommandItems(line)} <=>
                \E m \in RouteCommand(line) : x \in OnRawMessage(m)
  BY <1>1 DEF CommandItems
<1>3. \A x : x \in UNION {EventsOf(item) : item \in CommandItems(line)} <=> x \in Meant(line)
  BY <1>2, LinesAreHeard
<1> QED
  BY <1>3

--------------------------------------------------------------------------------
(* What becomes of a message of another client *)

LEMMA BehindFirst ==
  ASSUME NEW first, NEW args \in Seq(Nat), NEW all, all = <<first>> \o args
  PROVE  /\ Len(all) = 1 => args = <<>> /\ all = <<first>>
         /\ Len(all) = 2 => \E n \in Nat : args = <<n>> /\ all = <<first, n>> /\ all[2] = n
<1> DEFINE S == {first} \cup Nat
<1>1. Len(all) = Len(args) + 1 /\ Len(args) \in Nat
  <2>1. <<first>> \in Seq(S) /\ Len(<<first>>) = 1
    OBVIOUS
  <2>2. args \in Seq(S) /\ Len(args) \in Nat
    OBVIOUS
  <2> HIDE DEF S
  <2> DEFINE one == <<first>>
  <2> HIDE DEF one
  <2>3. one \in Seq(S) /\ Len(one) = 1
    BY <2>1 DEF one
  <2>4. Len(one \o args) = Len(one) + Len(args)
    BY <2>2, <2>3, ConcatProperties
  <2> QED
    BY <2>2, <2>3, <2>4 DEF one
<1>2. CASE Len(all) = 1
  <2>1. args = <<>>
    BY <1>1, <1>2
  <2>2. <<first>> \o <<>> = <<first>>
    OBVIOUS
  <2> QED
    BY <1>2, <2>1, <2>2
<1>3. CASE Len(all) = 2
  <2>1. Len(args) = 1
    BY <1>1, <1>3
  <2>2. args[1] \in Nat /\ args = <<args[1]>>
    BY <2>1
  <2>3. PICK n \in Nat : args = <<n>>
    BY <2>2, Zenon
  <2>4. <<first>> \o <<n>> = <<first, n>>
    BY OneAndOne, Zenon
  <2>5. all = <<first, n>>
    BY <2>3, <2>4
  <2>6. all[2] = n
    BY <2>5
  <2>7. Len(all) # 1
    BY <1>3
  <2> QED
    BY <2>3, <2>5, <2>6, <2>7, Zenon
<1>4. CASE Len(all) # 1 /\ Len(all) # 2
  BY <1>4
<1> QED
  BY <1>2, <1>3, <1>4, Zenon

LEMMA FactoryIs ==
  /\ DOMAIN EventFactory = {"Join", "Reconnect", "CreateParty", "ListParties", "JoinParty",
                            "LeaveParty", "StartGame", "Move", "Attack"}
  /\ EventFactory["Join"] = "AuthRequested" /\ EventFactory["Reconnect"] = "ReconnectRequested"
  /\ EventFactory["CreateParty"] = "CreateLobbyRequest" /\ EventFactory["ListParties"] = "ListLobbiesRequest"
  /\ EventFactory["JoinParty"] = "JoinLobbyRequest" /\ EventFactory["LeaveParty"] = "LeaveLobbyRequest"
  /\ EventFactory["StartGame"] = "StartGameRequest" /\ EventFactory["Move"] = "MoveRequest"
  /\ EventFactory["Attack"] = "AttackRequest"
BY DEF EventFactory

\* What a message's kind is made into, and with which fields.
LEMMA FactoryFields ==
  ASSUME NEW kind, NEW type, type = EventFactory[kind]
  PROVE  /\ kind \in {"Join", "Reconnect"} =>
              /\ type \in {"AuthRequested", "ReconnectRequested"}
              /\ Fields[type] = <<"session_id", "player_id">>
         /\ kind = "JoinParty" => type = "JoinLobbyRequest" /\ Fields[type] = <<"player_id", "lobby_id">>
         /\ kind = "Move" => type = "MoveRequest" /\ Fields[type] = <<"player_id", "direction">>
         /\ kind \in {"CreateParty", "ListParties", "LeaveParty", "StartGame", "Attack"} =>
              /\ type \in {"CreateLobbyRequest", "ListLobbiesRequest", "LeaveLobbyRequest",
                            "StartGameRequest", "AttackRequest"}
              /\ Fields[type] = <<"player_id">>
<1>1. kind = "Join" => type = "AuthRequested" /\ Fields[type] = <<"session_id", "player_id">>
  BY FactoryIs, CommandFields, Zenon
<1>2. kind = "Reconnect" => type = "ReconnectRequested" /\ Fields[type] = <<"session_id", "player_id">>
  BY FactoryIs, CommandFields, Zenon
<1>3. kind = "JoinParty" => type = "JoinLobbyRequest" /\ Fields[type] = <<"player_id", "lobby_id">>
  BY FactoryIs, CommandFields, Zenon
<1>4. kind = "Move" => type = "MoveRequest" /\ Fields[type] = <<"player_id", "direction">>
  BY FactoryIs, CommandFields, Zenon
<1>5. kind = "CreateParty" => type = "CreateLobbyRequest" /\ Fields[type] = <<"player_id">>
  BY FactoryIs, CommandFields, Zenon
<1>6. kind = "ListParties" => type = "ListLobbiesRequest" /\ Fields[type] = <<"player_id">>
  BY FactoryIs, CommandFields, Zenon
<1>7. kind = "LeaveParty" => type = "LeaveLobbyRequest" /\ Fields[type] = <<"player_id">>
  BY FactoryIs, CommandFields, Zenon
<1>8. kind = "StartGame" => type = "StartGameRequest" /\ Fields[type] = <<"player_id">>
  BY FactoryIs, CommandFields, Zenon
<1>9. kind = "Attack" => type = "AttackRequest" /\ Fields[type] = <<"player_id">>
  BY FactoryIs, CommandFields, Zenon
<1> QED
  BY <1>1, <1>2, <1>3, <1>4, <1>5, <1>6, <1>7, <1>8, <1>9, Zenon

LEMMA ForeignIsHeard ==
  ASSUME NEW m \in [type : Nat, args : Seq(Nat)], NEW event \in EventsOf(SerializeMessage(m))
  PROVE  SpeaksForItself(event, m.args)
<1> DEFINE number == m.type
           code == number % 65536
           kind == UnpackMessageType(code)
           args == m.args
           item == SerializeMessage(m)
           read == [type |-> code, args |-> args]
           first == IF kind \in {"Join", "Reconnect"} THEN SessionId ELSE Speaker
           all == <<first>> \o args
           type == EventFactory[kind]
<1>1. number \in Nat /\ args \in Seq(Nat) /\ m = [type |-> number, args |-> args]
  OBVIOUS
<1> HIDE DEF number, args
<1>2. /\ kind # "unknown" => DeserializeMessage(item) = {read}
      /\ kind = "unknown" => DeserializeMessage(item) = {}
  <2>1. \A cut : cut = number % 65536 =>
          /\ UnpackMessageType(cut) # "unknown" => DeserializeMessage(item) = {[type |-> cut, args |-> args]}
          /\ UnpackMessageType(cut) = "unknown" => DeserializeMessage(item) = {}
    BY <1>1, ItemComesBack
  <2> QED
    BY <2>1
<1> HIDE DEF code, item, read
<1>3. event \in OnRawMessage(read)
  <2>1. PICK q \in DeserializeMessage(item) : event \in OnRawMessage(q)
    BY DEF EventsOf, item
  <2>2. q = read
    BY <1>2, <2>1
  <2> QED
    BY <2>1, <2>2
<1>4. read.type = code /\ read.args = args
  BY DEF read
<1>5. (IF kind \in {"Join", "Reconnect"} THEN <<SessionId>> ELSE <<Speaker>>) = <<first>>
  <2>1. CASE kind \in {"Join", "Reconnect"}
    BY <2>1, Zenon
  <2>2. CASE kind \notin {"Join", "Reconnect"}
    BY <2>2, Zenon
  <2> QED
    BY <2>1, <2>2
<1>6. OnRawMessage(read) = IF kind \in DOMAIN EventFactory /\ TakesArgs(kind, all) THEN {Event(type, all)} ELSE {}
  BY <1>4, <1>5, Zenon DEF OnRawMessage
<1> HIDE DEF kind, first
<1>7. kind \in DOMAIN EventFactory /\ TakesArgs(kind, all) /\ event = Event(type, all)
  BY <1>3, <1>6, Zenon
<1>8. Len(all) = Len(Fields[type]) /\ (kind = "Move" => all[2] \in 0 .. 255)
  BY <1>7, Zenon DEF TakesArgs
<1>9. /\ Len(all) = 1 => args = <<>> /\ all = <<first>>
      /\ Len(all) = 2 => \E n \in Nat : args = <<n>> /\ all = <<first, n>> /\ all[2] = n
  <2> HIDE DEF all
  <2>1. all = <<first>> \o args
    BY DEF all
  <2>2. args \in Seq(Nat)
    BY <1>1
  <2>3. \A t : t = <<first>> \o args =>
          /\ Len(t) = 1 => args = <<>> /\ t = <<first>>
          /\ Len(t) = 2 => \E n \in Nat : args = <<n>> /\ t = <<first, n>> /\ t[2] = n
    BY <2>2, BehindFirst, Zenon
  <2> QED
    BY <2>1, <2>3
<1> HIDE DEF all, type
<1> DEFINE told == Fields[type]
<1>10.
      /\ kind \in {"Join", "Reconnect"} =>
           type \in {"AuthRequested", "ReconnectRequested"} /\ told = <<"session_id", "player_id">>
      /\ kind = "JoinParty" => type = "JoinLobbyRequest" /\ told = <<"player_id", "lobby_id">>
      /\ kind = "Move" => type = "MoveRequest" /\ told = <<"player_id", "direction">>
      /\ kind \in {"CreateParty", "ListParties", "LeaveParty", "StartGame", "Attack"} =>
           /\ type \in {"CreateLobbyRequest", "ListLobbiesRequest", "LeaveLobbyRequest",
                         "StartGameRequest", "AttackRequest"}
           /\ told = <<"player_id">>
  BY FactoryFields, Zenon DEF type
<1>11.
      /\ kind \in {"Join", "Reconnect"} => first = SessionId
      /\ kind \notin {"Join", "Reconnect"} => first = Speaker
  BY Zenon DEF first
<1> HIDE DEF told
<1>12. Len(all) = Len(told)
  BY <1>8 DEF told
<1>13.
      /\ \A a, b : told = <<a, b>> => Len(told) = 2
      /\ \A a : told = <<a>> => Len(told) = 1
  OBVIOUS
<1>14. CASE kind \in {"Join", "Reconnect"}
  <2>1. type \in {"AuthRequested", "ReconnectRequested"} /\ Fields[type] = <<"session_id", "player_id">>
        /\ first = SessionId
    BY <1>14, <1>10, <1>11, Zenon DEF told
  <2>2. PICK n \in Nat : args = <<n>> /\ all = <<first, n>>
    <3>1. Len(all) = 2
      BY <1>12, <1>13, <2>1, Zenon DEF told
    <3> QED
      BY <1>9, <3>1, Zenon
  <2> DEFINE r == [type |-> type, session_id |-> SessionId, player_id |-> n]
  <2>3. /\ r = [x \in DOMAIN r |-> r[x]] /\ DOMAIN r = {"type", "session_id", "player_id"}
        /\ r["type"] = type /\ r["session_id"] = SessionId /\ r["player_id"] = n
    OBVIOUS
  <2>4. r.type = type /\ r.session_id = SessionId /\ r.player_id = n
    OBVIOUS
  <2> HIDE DEF r
  <2>5. Event(type, <<SessionId, n>>) = r
    BY <2>1, <2>3, EventOfTwo
  <2>6. event = r
    BY <1>7, <2>1, <2>2, <2>5
  <2>7. type # "JoinLobbyRequest" /\ type # "MoveRequest"
    BY <2>1
  <2> QED
    BY <2>1, <2>2, <2>4, <2>6, <2>7, Zenon DEF SpeaksForItself, args
<1>15. CASE kind = "JoinParty" \/ kind = "Move"
  <2> DEFINE g == IF kind = "Move" THEN "direction" ELSE "lobby_id"
  <2>1. /\ kind = "JoinParty" => type = "JoinLobbyRequest"
        /\ kind = "Move" => type = "MoveRequest"
        /\ Fields[type] = <<"player_id", g>> /\ first = Speaker
    <3>1. CASE kind = "JoinParty"
      BY <1>10, <1>11, <3>1, Zenon DEF told
    <3>2. CASE kind = "Move"
      BY <1>10, <1>11, <3>2, Zenon DEF told
    <3> QED
      BY <1>15, <3>1, <3>2, Zenon
  <2>2. PICK n \in Nat : args = <<n>> /\ all = <<first, n>> /\ all[2] = n
    <3>1. Len(all) = 2
      BY <1>12, <1>13, <2>1, Zenon DEF told
    <3> QED
      BY <1>9, <3>1, Zenon
  <2>3. CASE kind = "Move"
    <3> DEFINE r == [type |-> type, player_id |-> Speaker, direction |-> n]
    <3>1. /\ r = [x \in DOMAIN r |-> r[x]] /\ DOMAIN r = {"type", "player_id", "direction"}
          /\ r["type"] = type /\ r["player_id"] = Speaker /\ r["direction"] = n
      OBVIOUS
    <3>2. r.type = type /\ r.player_id = Speaker /\ r.direction = n
      OBVIOUS
    <3> HIDE DEF r
    <3>3. Fields[type] = <<"player_id", "direction">> /\ type = "MoveRequest"
      BY <2>1, <2>3
    <3>4. Event(type, <<Speaker, n>>) = r
      BY <3>1, <3>3, EventOfTwo
    <3>5. event = r /\ n \in 0 .. 255
      BY <1>7, <1>8, <2>1, <2>2, <2>3, <3>4
    <3>6. type # "JoinLobbyRequest" /\ type \notin {"AuthRequested", "ReconnectRequested"}
      BY <3>3
    <3> QED
      BY <2>2, <3>2, <3>5, <3>6, Zenon DEF SpeaksForItself, args
  <2>4. CASE kind = "JoinParty"
    <3> DEFINE r == [type |-> type, player_id |-> Speaker, lobby_id |-> n]
    <3>1. /\ r = [x \in DOMAIN r |-> r[x]] /\ DOMAIN r = {"type", "player_id", "lobby_id"}
          /\ r["type"] = type /\ r["player_id"] = Speaker /\ r["lobby_id"] = n
      OBVIOUS
    <3>2. r.type = type /\ r.player_id = Speaker /\ r.lobby_id = n
      OBVIOUS
    <3> HIDE DEF r
    <3>3. Fields[type] = <<"player_id", "lobby_id">> /\ type = "JoinLobbyRequest"
      BY <2>1, <2>4
    <3>4. Event(type, <<Speaker, n>>) = r
      BY <3>1, <3>3, EventOfTwo
    <3>5. event = r
      BY <1>7, <2>1, <2>2, <3>4
    <3>6. type # "MoveRequest" /\ type \notin {"AuthRequested", "ReconnectRequested"}
      BY <3>3
    <3> QED
      BY <2>2, <3>2, <3>5, <3>6, Zenon DEF SpeaksForItself, args
  <2> QED
    BY <1>15, <2>3, <2>4
<1>16. CASE kind \in {"CreateParty", "ListParties", "LeaveParty", "StartGame", "Attack"}
  <2>1. /\ type \in {"CreateLobbyRequest", "ListLobbiesRequest", "LeaveLobbyRequest", "StartGameRequest", "AttackRequest"}
        /\ Fields[type] = <<"player_id">> /\ first = Speaker
    BY <1>16, <1>10, <1>11, Zenon DEF told
  <2>2. args = <<>> /\ all = <<Speaker>>
    <3>1. Len(all) = 1
      BY <1>12, <1>13, <2>1, Zenon DEF told
    <3> QED
      BY <1>9, <2>1, <3>1, Zenon
  <2>3. event = [type |-> type, player_id |-> Speaker]
    BY <1>7, <2>1, <2>2, EventOfOne
  <2>4. event.type = type /\ event.player_id = Speaker
    BY <2>3
  <2>5. /\ type \notin {"AuthRequested", "ReconnectRequested"}
        /\ type # "JoinLobbyRequest" /\ type # "MoveRequest"
    BY <2>1
  <2> QED
    BY <2>4, <2>5, Zenon DEF SpeaksForItself
<1> QED
  BY <1>7, <1>14, <1>15, <1>16, FactoryIs

--------------------------------------------------------------------------------
(* What becomes of an event *)

LEMMA AnswerTypes ==
  /\ DOMAIN Subscriptions =
       {"PlayerAuthenticated", "PlayerReconnected", "PlayerReconnectionFailed",
        "PlayerAuthenticationFailed", "LobbyCreatedResponse", "LobbyCreationFailedResponse",
        "ListLobbiesResponse", "ListLobbiesFailedResponse", "JoinLobbyResponse",
        "JoinLobbyFailedResponse", "LeaveLobbyResponse", "LeaveLobbyFailedResponse", "StartGameResponse"}
  /\ \A type \in DOMAIN Subscriptions : Subscriptions[type] \in AnswerKinds
  /\ Subscriptions["PlayerAuthenticationFailed"] = "AuthFailed"
  /\ Subscriptions["LobbyCreatedResponse"] = "PartyCreated"
  /\ Subscriptions["ListLobbiesResponse"] = "ListPartiesCreated"
BY DEF Subscriptions, AnswerKinds

LEMMA AnswerWords ==
  /\ DOMAIN Lines =
       {"Welcome", "PartyNotCreated", "ListPartiesNotCreated", "PlayerJoinedParty",
        "PlayerNotJoinedParty", "PlayerNotJoinedFullParty", "PlayerNotJoinedNotExistParty",
        "GameStarted", "GameNotStarted"}
  /\ DOMAIN LinesWithArgs = {"AuthFailed", "PartyCreated", "ListPartiesCreated"}
  /\ DOMAIN PlainlyTold =
       {"PlayerAuthenticated", "LobbyCreationFailedResponse", "ListLobbiesFailedResponse",
        "JoinLobbyResponse", "JoinLobbyFailedResponse"} \cup NotDelivered
  /\ \A type \in DOMAIN PlainlyTold \ NotDelivered :
       Subscriptions[type] \in DOMAIN Lines /\ Lines[Subscriptions[type]] = PlainlyTold[type]
  /\ \A type \in NotWorded \cup {"StartGameResponse"} :
       Subscriptions[type] \notin DOMAIN Lines /\ Subscriptions[type] \notin DOMAIN LinesWithArgs
  /\ LinesWithArgs["AuthFailed"] = "AUTHENTICATION FAILED"
  /\ LinesWithArgs["PartyCreated"] = "LOBBY CREATED"
  /\ LinesWithArgs["ListPartiesCreated"] = "LOBBY LIST CREATED"
<1>1. DOMAIN Lines =
       {"Welcome", "PartyNotCreated", "ListPartiesNotCreated", "PlayerJoinedParty",
        "PlayerNotJoinedParty", "PlayerNotJoinedFullParty", "PlayerNotJoinedNotExistParty",
        "GameStarted", "GameNotStarted"}
  BY DEF Lines
<1>2. DOMAIN LinesWithArgs = {"AuthFailed", "PartyCreated", "ListPartiesCreated"}
  BY DEF LinesWithArgs
<1>3. DOMAIN PlainlyTold =
       {"PlayerAuthenticated", "LobbyCreationFailedResponse", "ListLobbiesFailedResponse",
        "JoinLobbyResponse", "JoinLobbyFailedResponse"} \cup NotDelivered
  <2>1. DOMAIN PlainlyTold =
          {"PlayerAuthenticated", "LobbyCreationFailedResponse", "ListLobbiesFailedResponse",
           "JoinLobbyResponse", "JoinLobbyFailedResponse", "JoinLobbyFullResponse",
           "JoinLobbyNotExistsResponse", "StartGameResponse", "StartGameLobbyNotReadyResponse",
           "StartGameNotTheLeaderResponse"}
    BY Zenon DEF PlainlyTold
  <2> QED
    BY <2>1 DEF NotDelivered
<1>4. /\ Lines["Welcome"] = PlainlyTold["PlayerAuthenticated"]
      /\ Lines["PartyNotCreated"] = PlainlyTold["LobbyCreationFailedResponse"]
      /\ Lines["ListPartiesNotCreated"] = PlainlyTold["ListLobbiesFailedResponse"]
      /\ Lines["PlayerJoinedParty"] = PlainlyTold["JoinLobbyResponse"]
      /\ Lines["PlayerNotJoinedParty"] = PlainlyTold["JoinLobbyFailedResponse"]
  BY Zenon DEF Lines, PlainlyTold
<1>5. /\ Subscriptions["PlayerAuthenticated"] = "Welcome"
      /\ Subscriptions["LobbyCreationFailedResponse"] = "PartyNotCreated"
      /\ Subscriptions["ListLobbiesFailedResponse"] = "ListPartiesNotCreated"
      /\ Subscriptions["JoinLobbyResponse"] = "PlayerJoinedParty"
      /\ Subscriptions["JoinLobbyFailedResponse"] = "PlayerNotJoinedParty"
  BY DEF Subscriptions
<1>6. \A type \in DOMAIN PlainlyTold \ NotDelivered :
        Subscriptions[type] \in DOMAIN Lines /\ Lines[Subscriptions[type]] = PlainlyTold[type]
  BY <1>1, <1>3, <1>4, <1>5
<1>7. \A type \in NotWorded \cup {"StartGameResponse"} :
        Subscriptions[type] \in {"Reconnected", "NotReconnected", "PlayerLeavedParty",
                                 "PlayerNotLeavedParty", "StartGame"}
  BY DEF NotWorded, Subscriptions
<1>8. \A type \in NotWorded \cup {"StartGameResponse"} :
        Subscriptions[type] \notin DOMAIN Lines /\ Subscriptions[type] \notin DOMAIN LinesWithArgs
  BY <1>1, <1>2, <1>7
<1>9. /\ LinesWithArgs["AuthFailed"] = "AUTHENTICATION FAILED"
      /\ LinesWithArgs["PartyCreated"] = "LOBBY CREATED"
      /\ LinesWithArgs["ListPartiesCreated"] = "LOBBY LIST CREATED"
  BY Zenon DEF LinesWithArgs
<1> QED
  BY <1>1, <1>2, <1>3, <1>6, <1>8, <1>9, Zenon

LEMMA AnswerIsShown ==
  ASSUME NEW kind \in AnswerKinds, NEW S, NEW args \in Seq(S)
  PROVE  /\ LinesOf(SerializeMessage(Message(kind, args))) = {RouteMessage(Message(kind, args))}
         /\ RouteMessage(Message(kind, args)) =
              CASE kind \in DOMAIN Lines -> [says |-> <<Lines[kind]>>, of |-> <<>>]
                [] kind \in DOMAIN LinesWithArgs -> FormatOutput(kind, args)
                [] OTHER -> [says |-> <<"Unknown message">>, of |-> <<>>]
<1> DEFINE m == Message(kind, args)
           item == SerializeMessage(m)
           read == [is |-> "message", value |-> m]
<1>1. /\ UnpackMessageType(m.type) = kind /\ m.args = args
      /\ item.kind = "array" /\ DeserializeMessage(item) = {m}
  BY MessageComesBack
<1>2. RouteMessage(m) =
        CASE kind \in DOMAIN Lines -> [says |-> <<Lines[kind]>>, of |-> <<>>]
          [] kind \in DOMAIN LinesWithArgs -> FormatOutput(kind, args)
          [] OTHER -> [says |-> <<"Unknown message">>, of |-> <<>>]
  <2> HIDE DEF m
  <2> QED
    BY <1>1, Zenon DEF RouteMessage
<1> HIDE DEF m, item
<1>3. DeserializeGameState(item) = {}
  BY <1>1 DEF DeserializeGameState
<1>4. RouteRead(item) = {[is |-> "message", value |-> v] : v \in DeserializeMessage(item)}
  BY <1>3 DEF RouteRead
<1>5. RouteRead(item) = {read} /\ read.is = "message" /\ read.value = m
  BY <1>1, <1>4
<1> HIDE DEF read
<1>6. LinesOf(item) = {RouteMessage(m)}
  BY <1>5 DEF LinesOf
<1> QED
  BY <1>2, <1>6, Zenon DEF item, m

\* What the client says when it has no words, or no numbers.
LEMMA Owned ==
  /\ NotUnderstood([says |-> <<"Unknown message">>, of |-> <<>>])
  /\ \A words : NotUnderstood([says |-> <<words, "malformed">>, of |-> <<>>])
<1>1. /\ \A x : 1 \in DOMAIN <<x>> /\ <<x>>[1] = x
      /\ \A x, y : 2 \in DOMAIN <<x, y>> /\ <<x, y>>[2] = y
  OBVIOUS
<1>2. NotUnderstood([says |-> <<"Unknown message">>, of |-> <<>>])
  BY <1>1, Zenon DEF NotUnderstood
<1>3. ASSUME NEW words
      PROVE  NotUnderstood([says |-> <<words, "malformed">>, of |-> <<>>])
  BY <1>1, Zenon DEF NotUnderstood
<1> QED
  BY <1>2, <1>3, Zenon

LEMMA EventIsTold ==
  ASSUME NEW event, event.type = "ListLobbiesResponse" => event.lobby_ids \in Seq(Nat)
  PROVE  LET told == UNION {LinesOf(item) : item \in AnswerItems(event)} IN
         /\ FallsShort(event) => \A line \in told : line \in InWords(event) \/ NotUnderstood(line)
         /\ ~FallsShort(event) => told = InWords(event)
<1> DEFINE type == event.type
           kind == Subscriptions[type]
           args == AnswerArgs(event)
           told == UNION {LinesOf(item) : item \in AnswerItems(event)}
<1> SUFFICES /\ FallsShort(event) => \A line \in told : NotUnderstood(line)
             /\ ~FallsShort(event) => told = InWords(event)
  BY Zenon
<1>1. /\ InWords(event) =
           CASE type \in DOMAIN PlainlyTold -> {[says |-> <<PlainlyTold[type]>>, of |-> <<>>]}
             [] type = "PlayerAuthenticationFailed" ->
                  {[says |-> <<"AUTHENTICATION FAILED">>, of |-> <<event.player_id>>]}
             [] type = "LobbyCreatedResponse" -> {[says |-> <<"LOBBY CREATED">>, of |-> <<event.lobby_id>>]}
             [] type = "ListLobbiesResponse" -> {[says |-> <<"LOBBY LIST CREATED">>, of |-> event.lobby_ids]}
             [] OTHER -> {}
      /\ args =
           CASE type = "PlayerAuthenticationFailed" -> <<event.player_id>>
             [] type = "LobbyCreatedResponse" -> <<event.lobby_id>>
             [] type = "ListLobbiesResponse" -> event.lobby_ids
             [] OTHER -> <<>>
  BY Zenon DEF InWords, AnswerArgs
<1>2. FallsShort(event) <=> \/ type \in NotDelivered \cup NotWorded
                            \/ type = "ListLobbiesResponse" /\ event.lobby_ids = <<>>
  BY DEF FallsShort
<1>3. ASSUME type \in DOMAIN Subscriptions, NEW S, args \in Seq(S)
      PROVE  /\ told = {RouteMessage(Message(kind, args))}
             /\ RouteMessage(Message(kind, args)) =
                  CASE kind \in DOMAIN Lines -> [says |-> <<Lines[kind]>>, of |-> <<>>]
                    [] kind \in DOMAIN LinesWithArgs -> FormatOutput(kind, args)
                    [] OTHER -> [says |-> <<"Unknown message">>, of |-> <<>>]
  <2>1. kind \in AnswerKinds
    BY <1>3, AnswerTypes
  <2>2. SendResponse(event) = {Message(kind, args)}
    BY <1>3 DEF SendResponse
  <2> HIDE DEF kind, args
  <2>3. AnswerItems(event) = {SerializeMessage(Message(kind, args))}
    BY <2>2 DEF AnswerItems
  <2>4. told = LinesOf(SerializeMessage(Message(kind, args)))
    BY <2>3
  <2> HIDE DEF told
  <2>5. LinesOf(SerializeMessage(Message(kind, args))) = {RouteMessage(Message(kind, args))}
    BY <1>3, <2>1, AnswerIsShown
  <2> QED
    BY <1>3, <2>1, <2>4, <2>5, AnswerIsShown, Zenon
<1>4. <<>> \in Seq({}) /\ \A n : <<n>> \in Seq({n}) /\ <<n>> # <<>> /\ Head(<<n>>) = n
  OBVIOUS
<1>5. CASE type \notin DOMAIN Subscriptions
  <2>1. told = {}
    BY <1>5 DEF AnswerItems, SendResponse
  <2>2. ASSUME type \notin NotDelivered
        PROVE  /\ type \notin DOMAIN PlainlyTold
               /\ type # "PlayerAuthenticationFailed" /\ type # "LobbyCreatedResponse" /\ type # "ListLobbiesResponse"
    BY <1>5, <2>2, AnswerTypes, AnswerWords
  <2> HIDE DEF type, args, told
  <2>3. ~FallsShort(event) => InWords(event) = {}
    BY <1>1, <1>2, <2>2, Zenon
  <2> QED
    BY <2>1, <2>3, Zenon DEF told
<1>6. CASE type \in DOMAIN PlainlyTold \ NotDelivered
  <2>1. /\ type # "PlayerAuthenticationFailed" /\ type # "LobbyCreatedResponse"
        /\ type # "ListLobbiesResponse" /\ type \notin NotDelivered \cup NotWorded
        /\ type \in DOMAIN Subscriptions
    BY <1>6, AnswerTypes, AnswerWords DEF NotWorded
  <2>2. kind \in DOMAIN Lines /\ Lines[kind] = PlainlyTold[type] /\ kind \notin DOMAIN LinesWithArgs
    BY <1>6, AnswerWords
  <2> HIDE DEF type, kind, args, told
  <2>3. args = <<>> /\ InWords(event) = {[says |-> <<PlainlyTold[type]>>, of |-> <<>>]}
    BY <1>1, <1>6, <2>1, Zenon
  <2>4. told = {[says |-> <<Lines[kind]>>, of |-> <<>>]}
    BY <1>3, <1>4, <2>1, <2>2, <2>3, Zenon
  <2> QED
    BY <1>2, <2>1, <2>2, <2>3, <2>4, Zenon DEF told
<1>7. CASE type \in NotWorded \cup {"StartGameResponse"}
  <2>1. /\ type # "PlayerAuthenticationFailed" /\ type # "LobbyCreatedResponse"
        /\ type # "ListLobbiesResponse" /\ type \in NotDelivered \cup NotWorded
        /\ type \in DOMAIN Subscriptions
    BY <1>7, AnswerTypes DEF NotWorded, NotDelivered
  <2>2. kind \notin DOMAIN Lines /\ kind \notin DOMAIN LinesWithArgs
    BY <1>7, AnswerWords
  <2> HIDE DEF type, kind, args, told
  <2>3. args = <<>>
    BY <1>1, <2>1, Zenon
  <2>4. told = {[says |-> <<"Unknown message">>, of |-> <<>>]}
    BY <1>3, <1>4, <2>1, <2>2, <2>3, Zenon
  <2>5. \A line \in told : NotUnderstood(line)
    BY <2>4, Owned, Zenon
  <2> QED
    BY <1>2, <2>1, <2>5, Zenon DEF told
<1>8. ASSUME NEW S, args \in Seq(S), type \in DOMAIN Subscriptions,
             kind \in {"AuthFailed", "PartyCreated", "ListPartiesCreated"}
      PROVE  told = {FormatOutput(kind, args)}
  <2>1. kind \notin DOMAIN Lines /\ kind \in DOMAIN LinesWithArgs
    BY <1>8, AnswerWords
  <2> HIDE DEF type, kind, args, told
  <2> QED
    BY <1>3, <1>8, <2>1, Zenon
<1>9. \/ type = "PlayerAuthenticationFailed" \/ type = "LobbyCreatedResponse" \/ type = "ListLobbiesResponse" =>
        type \in DOMAIN Subscriptions /\ type \notin DOMAIN PlainlyTold /\ type \notin NotDelivered \cup NotWorded
  BY AnswerTypes, AnswerWords DEF NotWorded, NotDelivered
<1>10. CASE type = "PlayerAuthenticationFailed"
  <2>1. kind = "AuthFailed" /\ kind # "ListPartiesCreated" /\ type # "ListLobbiesResponse"
        /\ kind \in {"AuthFailed", "PartyCreated", "ListPartiesCreated"}
    BY <1>10, AnswerTypes
  <2> HIDE DEF type, kind, args, told
  <2>2. /\ args = <<event.player_id>>
        /\ InWords(event) = {[says |-> <<"AUTHENTICATION FAILED">>, of |-> <<event.player_id>>]}
    BY <1>1, <1>9, <1>10, Zenon
  <2>3. told = {FormatOutput(kind, args)}
    BY <1>4, <1>8, <1>9, <1>10, <2>1, <2>2
  <2>4. FormatOutput(kind, args) = [says |-> <<LinesWithArgs[kind]>>, of |-> <<event.player_id>>]
    BY <1>4, <2>1, <2>2, Zenon DEF FormatOutput
  <2>5. ~FallsShort(event)
    BY <1>2, <1>9, <1>10, <2>1, Zenon
  <2> QED
    BY <2>1, <2>2, <2>3, <2>4, <2>5, AnswerWords, Zenon DEF told
<1>11. CASE type = "LobbyCreatedResponse"
  <2>1. kind = "PartyCreated" /\ kind # "ListPartiesCreated" /\ type # "PlayerAuthenticationFailed"
        /\ kind \in {"AuthFailed", "PartyCreated", "ListPartiesCreated"} /\ type # "ListLobbiesResponse"
    BY <1>11, AnswerTypes
  <2> HIDE DEF type, kind, args, told
  <2>2. /\ args = <<event.lobby_id>>
        /\ InWords(event) = {[says |-> <<"LOBBY CREATED">>, of |-> <<event.lobby_id>>]}
    BY <1>1, <1>9, <1>11, <2>1, Zenon
  <2>3. told = {FormatOutput(kind, args)}
    BY <1>4, <1>8, <1>9, <1>11, <2>1, <2>2
  <2>4. FormatOutput(kind, args) = [says |-> <<LinesWithArgs[kind]>>, of |-> <<event.lobby_id>>]
    BY <1>4, <2>1, <2>2, Zenon DEF FormatOutput
  <2>5. ~FallsShort(event)
    BY <1>2, <1>9, <1>11, <2>1, Zenon
  <2> QED
    BY <2>1, <2>2, <2>3, <2>4, <2>5, AnswerWords, Zenon DEF told
<1>12. CASE type = "ListLobbiesResponse"
  <2>1. /\ kind = "ListPartiesCreated" /\ kind \in {"AuthFailed", "PartyCreated", "ListPartiesCreated"}
        /\ type # "PlayerAuthenticationFailed" /\ type # "LobbyCreatedResponse"
        /\ event.lobby_ids \in Seq(Nat)
    BY <1>12, AnswerTypes
  <2> HIDE DEF type, kind, args, told
  <2>2. args = event.lobby_ids
    BY <1>1, <1>12, <2>1, Zenon
  <2>3. told = {FormatOutput(kind, args)}
    BY <1>8, <1>9, <1>12, <2>1, <2>2
  <2>4. CASE event.lobby_ids = <<>>
    <3>1. FormatOutput(kind, args) = [says |-> <<LinesWithArgs[kind], "malformed">>, of |-> <<>>]
      BY <2>2, <2>4, Zenon DEF FormatOutput
    <3>2. NotUnderstood(FormatOutput(kind, args))
      BY <3>1, Owned, Zenon
    <3>3. FallsShort(event)
      BY <1>2, <1>12, <2>4, Zenon
    <3>4. \A line \in told : NotUnderstood(line)
      BY <2>3, <3>2, Zenon
    <3> QED
      BY <3>3, <3>4, Zenon DEF told
  <2>5. CASE event.lobby_ids # <<>>
    <3>1. InWords(event) = {[says |-> <<"LOBBY LIST CREATED">>, of |-> event.lobby_ids]}
      BY <1>1, <1>9, <1>12, <2>1, Zenon
    <3>2. FormatOutput(kind, args) = [says |-> <<LinesWithArgs[kind]>>, of |-> event.lobby_ids]
      BY <2>1, <2>2, <2>5, Zenon DEF FormatOutput
    <3>3. ~FallsShort(event)
      BY <1>2, <1>9, <1>12, <2>5, Zenon
    <3> QED
      BY <2>1, <2>3, <3>1, <3>2, <3>3, AnswerWords, Zenon DEF told
  <2> QED
    BY <2>4, <2>5
<1>13. type \in DOMAIN Subscriptions =>
         \/ type \in DOMAIN PlainlyTold \ NotDelivered \/ type \in NotWorded \cup {"StartGameResponse"}
         \/ type = "PlayerAuthenticationFailed" \/ type = "LobbyCreatedResponse" \/ type = "ListLobbiesResponse"
  BY AnswerTypes, AnswerWords DEF NotWorded, NotDelivered
<1> QED
  BY <1>5, <1>6, <1>7, <1>10, <1>11, <1>12, <1>13

(***************************************************************************)
(* Whatever is typed, the event that a line becomes is the one its words   *)
(* mean, or there is none if they mean none; whatever another client sends *)
(* speaks for nobody else; and whatever is published, the client says of   *)
(* an answer what it is, in its words, or, where the program falls short   *)
(* of the protocol, nothing that is not so                                 *)
(* (command_router.cpp:37-109, msg_dispatcher.cpp:29-68,                   *)
(* msg_dispatcher_dtl.h:19-63, response_sender.cpp:30-98,                  *)
(* client/ui/message_router.cpp:35-142).                                   *)
(***************************************************************************)
THEOREM UnderstoodAsMeantAlways == CodecsSpec => []UnderstoodAsMeant
<1>1. UnderWay => UnderstoodAsMeant
  <2> SUFFICES ASSUME UnderWay PROVE UnderstoodAsMeant
    OBVIOUS
  <2> DEFINE of == journey.subject.of
  <2>1. ASSUME Shown("line")
        PROVE  /\ of \in Line \cup {CommandFromKey[key] : key \in DOMAIN CommandFromKey}
               /\ journey.now = UNION {EventsOf(item) : item \in CommandItems(of)}
    <3> DEFINE K == {CommandFromKey[key] : key \in DOMAIN CommandFromKey}
    <3> HIDE DEF K
    <3>1. Subject("line", of) /\ <<"shown", journey.now>> \in Trip("line", of)
      BY <2>1, WhatIsShown
    <3> HIDE DEF of
    <3>2. of \in Line \cup K
      BY <3>1, Zenon DEF Subject, K
    <3>3. journey.now = UNION {EventsOf(item) : item \in CommandItems(of)}
      BY <3>1 DEF Trip
    <3> QED
      BY <3>2, <3>3, Zenon DEF K
  <2>2. ASSUME Shown("event")
        PROVE  of \in Said /\ journey.now = UNION {LinesOf(item) : item \in AnswerItems(of)}
    BY <2>2, WhatIsShown DEF Subject, Trip
  <2>3. ASSUME Shown("message")
        PROVE  of \in Foreign /\ journey.now = EventsOf(SerializeMessage(of))
    BY <2>3, WhatIsShown DEF Subject, Trip
  <2> HIDE DEF of
  <2>4. ASSUME Shown("line")
        PROVE  journey.now = Meant(of)
    <3>1. CASE of \in Line
      <4>1. of \in Seq(STRING)
        BY <3>1, CodecsAssumption
      <4> QED
        BY <2>1, <2>4, <4>1, LineIsUnderstood
    <3>2. CASE \E key \in DOMAIN CommandFromKey : of = CommandFromKey[key]
      <4>1. PICK S : of \in Seq(S)
        BY <3>2, KeysGiveLines, Zenon DEF IsLine
      <4> QED
        BY <2>1, <2>4, <4>1, LineIsUnderstood
    <3> DEFINE K == {CommandFromKey[key] : key \in DOMAIN CommandFromKey}
    <3>3. of \in K <=> \E key \in DOMAIN CommandFromKey : of = CommandFromKey[key]
      BY Zenon
    <3> HIDE DEF K
    <3>4. of \in Line \cup K
      BY <2>1, <2>4, Zenon DEF K
    <3> QED
      BY <3>1, <3>2, <3>3, <3>4
  <2>5. ASSUME Shown("event")
        PROVE  /\ FallsShort(of) => \A line \in journey.now : line \in InWords(of) \/ NotUnderstood(line)
               /\ ~FallsShort(of) => journey.now = InWords(of)
    <3>1. of.type = "ListLobbiesResponse" => of.lobby_ids \in Seq(Nat)
      BY <2>2, <2>5, CodecsAssumption
    <3> QED
      BY <2>2, <2>5, <3>1, EventIsTold, Zenon
  <2>6. ASSUME Shown("message")
        PROVE  \A event \in journey.now : SpeaksForItself(event, of.args)
    <3>1. of \in [type : Nat, args : Seq(Nat)]
      BY <2>6, <2>3, CodecsAssumption
    <3> QED
      BY <2>6, <2>3, <3>1, ForeignIsHeard
  <2> QED
    BY <2>4, <2>5, <2>6, Zenon DEF UnderstoodAsMeant, of
<1> QED
  BY <1>1, AllUnderWay, PTL

--------------------------------------------------------------------------------
(* Streams, as Codecs has them: a behaviour about a subject is of no items *)

LEMMA NothingSent == <<>> \in SeqOf(Item, MaxItems) /\ Stream(<<>>) = <<>>
  <1>1. <<>> \in [1 .. 0 -> Item]
    OBVIOUS
  <1>2. 0 \in 0 .. MaxItems
    BY FrameAssumption
  <1>3. <<>> \in Seq(Item)
    OBVIOUS
  <1> QED
    BY <1>1, <1>2, <1>3, FirstItems DEF SeqOf

LEMMA CodecsReadStreams == CodecsSpec => StreamSpec
  <1>1. ASSUME CodecsInit
        PROVE  StreamInit
    <2>1. CASE items = <<>> /\ arriving = <<>> /\ readBuffer = <<>> /\ messages = <<>>
               /\ flatBuffer = <<>> /\ dispatched = <<>>
      <3>1. items \in SeqOf(Item, MaxItems) /\ Stream(items) = <<>>
        BY <2>1, NothingSent
      <3> QED
        BY <2>1, <3>1 DEF StreamInit
    <2> QED
      BY <1>1, <2>1 DEF CodecsInit
  <1>2. ASSUME [CodecsNext]_<<streamVars, journey>>
        PROVE  [StreamNext]_streamVars
    BY <1>2 DEF CodecsNext, TypeName, ShowName, ShowCode, SendCommand, HearCommand,
                SendForeign, HearForeign, SendAnswer, ShowAnswer,
                TakeSnapshot, SendState, ReadState, DrawState, Go, streamVars
  <1> QED
    BY <1>1, <1>2, PTL DEF CodecsSpec, StreamSpec

\* Whatever is sent, frames or a subject of another kind, messages come whole,
\* once and in order, from both codecs, and no buffer grows to a frame's length
\* (frame_codec.h:103-182, frame_codec_zc.h:105-139).
THEOREM FramesOfCodecs == CodecsSpec => [](DeliveredWhenWhole /\ CodecsAgree /\ LittleWaits)
  <1> QED
    BY CodecsReadStreams, DeliveredWhenWholeAlways, CodecsAgreeAlways, LittleWaitsAlways, PTL

================================================================================
