---------------------------- MODULE TerminalInput ----------------------------
(***************************************************************************)
(* The two readers of the client: lines of the standard input              *)
(* (common/utility/stdin_reader.h) and the state of the keys of the        *)
(* keyboard (common/utility/keyboard_reader.cpp), polled by a timer.       *)
(***************************************************************************)
EXTENDS Naturals, Sequences, FiniteSets, SequencesExt

CONSTANTS kKeys,     \* the monitored keys, in the order they are looked at
          Typed,     \* what is typed, as sequences of characters
          MaxPolls   \* bound: polls of the keyboard

ASSUME InputAssumption == Typed \subseteq Seq(STRING)

VARIABLES
  typed,           \* not read yet
  buffer,          \* StdinReader::buffer_
  reading,         \* is a line awaited?
  lines,           \* history: the lines handed to the callback
  received,        \* history: the characters read
  edge_triggered,  \* KeyboardReader::edge_triggered_
  key_code_map,    \* the keys that have a code; none without a display
  prev_state,      \* the keys that were down at the last poll
  running,         \* KeyboardReader::running_
  polling,         \* is the timer's handler waiting?
  down,            \* the keys that are held
  presses,         \* history: the keys handed to the callback, poll by poll
  polls            \* history: the keys that were down at each poll

stdinVars == <<typed, buffer, reading, lines, received>>
keyboardVars == <<edge_triggered, key_code_map, prev_state, running, polling, down, presses, polls>>
inputVars == <<stdinVars, keyboardVars>>

NewLine == "\n"
Return == "\r"

-----------------------------------------------------------------------------
\* StdinReader::start, and a buffer that is empty.
StdinInit(text) ==
  /\ typed = text
  /\ buffer = <<>> /\ reading = TRUE
  /\ lines = <<>> /\ received = <<>>

\* async_read_until reads what there is while the buffer has no end of line.
Receive ==
  /\ reading /\ ~Contains(buffer, NewLine)
  /\ \E n \in 1 .. Len(typed) :
       /\ typed' = SubSeq(typed, n + 1, Len(typed))
       /\ buffer' = buffer \o SubSeq(typed, 1, n)
       /\ received' = received \o SubSeq(typed, 1, n)
  /\ UNCHANGED <<reading, lines, keyboardVars>>

\* Without the end of the line, and without one carriage return before it.
Trimmed(line) ==
  LET text == Front(line) IN
  IF text # <<>> /\ Last(text) = Return THEN Front(text) ELSE text

RestSlip(text, length) == <<>>
\* What stays in the buffer when a line of that length is taken out.
Rest(text, length) == SubSeq(text, length + 1, Len(text))

HandleLine ==
  /\ reading /\ Contains(buffer, NewLine)
  /\ LET length == SelectInSeq(buffer, LAMBDA c : c = NewLine) IN
     /\ lines' = Append(lines, Trimmed(SubSeq(buffer, 1, length)))
     /\ buffer' = Rest(buffer, length)
  /\ UNCHANGED <<typed, reading, received, keyboardVars>>

\* The end of the input, or stop() while a line is awaited: nothing is read any
\* more.  A line that is complete is handed all the same.
StopReading ==
  /\ reading /\ ~Contains(buffer, NewLine)
  /\ reading' = FALSE
  /\ UNCHANGED <<typed, buffer, lines, received, keyboardVars>>

-----------------------------------------------------------------------------
\* The state of the keyboard when poll() fetches it.
IsKeyDown(key) == key \in key_code_map \cap down

InOrder(keys) == SelectSeq(kKeys, LAMBDA k : k \in keys)

\* poll: the callbacks in the order of the keys, and what is remembered.
Poll ==
  LET pressed == {k \in Range(kKeys) : IsKeyDown(k)}
      new == IF edge_triggered THEN pressed \ prev_state ELSE pressed
  IN /\ presses' = Append(presses, InOrder(new))
     /\ prev_state' = IF edge_triggered THEN pressed ELSE prev_state
     /\ polls' = Append(polls, down)
     /\ polling' = TRUE

KeyboardInit ==
  /\ edge_triggered \in BOOLEAN
  /\ key_code_map \in {{}, Range(kKeys)}
  /\ prev_state = {} /\ running = FALSE /\ polling = FALSE
  /\ down = {} /\ presses = <<>> /\ polls = <<>>

\* start() polls at once; a second call does nothing.
StartKeyboard ==
  /\ ~running /\ polls = <<>>
  /\ running' = TRUE
  /\ Poll
  /\ UNCHANGED <<edge_triggered, key_code_map, down, stdinVars>>

KeyMoves ==
  /\ \E key \in Range(kKeys) : down' = IF key \in down THEN down \ {key} ELSE down \cup {key}
  /\ UNCHANGED <<edge_triggered, key_code_map, prev_state, running, polling, presses, polls, stdinVars>>

\* The timer's handler, which stop() may have overtaken.
OnTimer ==
  /\ polling /\ Len(polls) < MaxPolls
  /\ IF running THEN Poll ELSE polling' = FALSE /\ UNCHANGED <<prev_state, presses, polls>>
  /\ UNCHANGED <<edge_triggered, key_code_map, running, down, stdinVars>>

StopKeyboard ==
  /\ running
  /\ running' = FALSE
  /\ UNCHANGED <<edge_triggered, key_code_map, prev_state, polling, down, presses, polls, stdinVars>>

StdinNext == Receive \/ HandleLine \/ StopReading
KeyboardNext == StartKeyboard \/ KeyMoves \/ OnTimer \/ StopKeyboard

\* Both readers, as a specification of their own.
InputSpec ==
  /\ \E text \in Typed : StdinInit(text)
  /\ KeyboardInit
  /\ [][StdinNext \/ KeyboardNext]_inputVars

-----------------------------------------------------------------------------
Ends(text) == {i \in DOMAIN text : text[i] = NewLine}

\* The ends of lines that a text has up to a place.
EndsUpTo(text, place) == {e \in Ends(text) : e <= place}

\* The line that ends there, without one carriage return.
LineOf(text, end) ==
  LET first == Max({0} \cup EndsUpTo(text, end - 1)) + 1 IN
  SubSeq(text, first, IF end > first /\ text[end - 1] = Return THEN end - 2 ELSE end - 1)

(***************************************************************************)
(* The lines handed over are the lines of what was read, in order, none    *)
(* twice and none left out, wherever the reads cut the text; a line stays  *)
(* in the buffer only until the next step (stdin_reader.h:73-103).  Of the *)
(* keys, every poll hands over those that are held, or those that were not *)
(* held a poll ago (keyboard_reader.cpp:113-151).                          *)
(***************************************************************************)
InputIsHanded ==
  /\ Len(lines) <= Cardinality(Ends(received))
  /\ \A end \in Ends(received) :
       LET n == Cardinality(EndsUpTo(received, end)) IN
       n <= Len(lines) => lines[n] = LineOf(received, end)
  /\ ~Contains(buffer, NewLine) => Len(lines) = Cardinality(Ends(received))
  /\ presses = [i \in DOMAIN polls |->
       InOrder({k \in polls[i] \cap key_code_map : edge_triggered /\ i > 1 => k \notin polls[i - 1]})]

=============================================================================
