------------------------------ MODULE FrameCodec ------------------------------
(***************************************************************************)
(* How messages become frames in a byte stream and are found in it again   *)
(* (common/network/frame_codec.h, frame_codec_zc.h), by a receiver that    *)
(* reads the stream in pieces of any size, as Session::doRead and          *)
(* Client::doRead do.  Two receivers get the same pieces, one with the     *)
(* codec in use and one with the zero-copy codec meant to replace it.      *)
(*                                                                         *)
(* A byte has Base values here and the length two bytes, most significant  *)
(* first.  What surrounds the frames is noise in which no header with a    *)
(* possible length hides.                                                  *)
(***************************************************************************)
EXTENDS Naturals, Sequences, FiniteSets, SequencesExt

CONSTANTS
  Base,            \* how many values a byte has
  Magic,           \* kMagic, byte by byte
  MaxMessageSize,  \* kMaxMessageSize
  Payload,         \* the payloads that are sent
  Noise,           \* the byte sequences that may stand between frames
  MaxItems,        \* bound: frames and pieces of noise in a stream
  MaxRead          \* bound: bytes of one read (kBufferChunkSize)

Byte == 0..Base - 1

ASSUME FrameAssumption ==
  /\ Base \in Nat \ {0} /\ MaxMessageSize \in Nat /\ MaxItems \in Nat /\ MaxRead \in Nat
  /\ Magic \in Seq(Byte) \ {<<>>} /\ Noise \subseteq Seq(Byte) /\ Payload \subseteq Seq(Byte)
  /\ MaxMessageSize < Base * Base /\ \A p \in Payload : Len(p) <= MaxMessageSize

MagicLength == Len(Magic)
HeaderLength == MagicLength + 2

\* encodeFrame; of the zero-copy codec encode, whose two buffers are written
\* one after the other.
EncodeFrame(payload) == Magic \o <<Len(payload) \div Base, Len(payload) % Base>> \o payload

Item == [kind : {"frame"}, is : Payload] \cup [kind : {"noise"}, is : Noise]
Bytes(item) == IF item.kind = "frame" THEN EncodeFrame(item.is) ELSE item.is
Stream(sent) == FlattenSeq([i \in DOMAIN sent |-> Bytes(sent[i])])

\* How much of a stream its first items are.
LengthOf(sent, count) == Len(Stream(SubSeq(sent, 1, count)))

VARIABLES
  items,       \* what is sent
  arriving,    \* the bytes of it that have not been read
  readBuffer,  \* read_buffer_
  messages,    \* what extractFrames has returned
  flatBuffer,  \* the buffer of the receiver with the zero-copy codec
  dispatched   \* what decode has called back with

streamVars == <<items, arriving, readBuffer, messages, flatBuffer, dispatched>>

StreamTypeOK ==
  /\ items \in Seq(Item)
  /\ \A bytes \in {arriving, readBuffer, flatBuffer} : bytes \in Seq(Byte)
  /\ \A payloads \in {messages, dispatched} : payloads \in Seq(Payload)

StreamInit ==
  /\ items \in SeqOf(Item, MaxItems)
  /\ arriving = Stream(items)
  /\ readBuffer = <<>> /\ messages = <<>>
  /\ flatBuffer = <<>> /\ dispatched = <<>>

--------------------------------------------------------------------------------
(* Looking for a frame at position p of data *)

MagicAt(data, p) == SubSeq(data, p, p + MagicLength - 1) = Magic
HeaderFits(data, p) == p + HeaderLength - 1 <= Len(data)
LengthAt(data, p) == data[p + MagicLength] * Base + data[p + MagicLength + 1]
EndAt(data, p) == p + HeaderLength + LengthAt(data, p)
PayloadAt(data, p) == SubSeq(data, p + HeaderLength, EndAt(data, p) - 1)

HeaderAt(data, p) == HeaderFits(data, p) /\ MagicAt(data, p) /\ LengthAt(data, p) <= MaxMessageSize

\* A frame begins here, or nothing rules it out yet, and the rest is to come.
Incomplete(data, p) ==
  MagicAt(data, p) /\
    \/ ~HeaderFits(data, p)
    \/ LengthAt(data, p) <= MaxMessageSize /\ EndAt(data, p) > Len(data) + 1

Whole(data, p) == HeaderAt(data, p) /\ EndAt(data, p) <= Len(data) + 1

\* Noise does not look like a frame, whatever it is sent with: a header with a
\* possible length is a frame's, or stands in a payload.
ASSUME NoiseAssumption ==
  \A sent \in SeqOf(Item, MaxItems) : \A p \in 1..Len(Stream(sent)) :
    HeaderAt(Stream(sent), p) =>
      \E i \in DOMAIN sent : sent[i].kind = "frame" /\ p \in LengthOf(sent, i - 1) + 1..LengthOf(sent, i)

\* The outcome of a scan: the payloads found, and where the scan stopped: what
\* comes before is consumed.
StopAt(p) == [found |-> <<>>, at |-> p]
After(payload, rest) == [rest EXCEPT !.found = <<payload>> \o @]

\* The scanners' loop over data, from every position; the positions where it stops.
Scanning(data, stops) ==
  LET scan[p \in 1..Len(data) + 1] ==
        IF p \in stops THEN StopAt(p)
        ELSE IF Whole(data, p) THEN After(PayloadAt(data, p), scan[EndAt(data, p)])
        ELSE scan[p + 1]
  IN scan

\* Where extractFrames stops: what cannot hold a whole magic is kept.
ExtractStops(data) == {p \in 1..Len(data) + 1 : p + MagicLength - 1 > Len(data) \/ Incomplete(data, p)}

\* Slip: what cannot hold a whole magic is thrown away.
ExtractAllOrNothing(data) ==
  LET result == Scanning(data, ExtractStops(data))[1] IN
  IF result.at + MagicLength - 1 > Len(data) THEN [result EXCEPT !.at = Len(data) + 1] ELSE result

\* Slip: only whole frames are consumed, not the noise before them.
ExtractKeepingNoise(data) ==
  LET scan[p \in 1..Len(data) + 1] ==
        IF p \in ExtractStops(data) THEN StopAt(1)
        ELSE IF Whole(data, p) THEN After(PayloadAt(data, p), [scan[EndAt(data, p)] EXCEPT !.at = EndAt(data, p)])
        ELSE scan[p + 1]
  IN scan[1]

\* extractFrames.
ExtractFrames(data) == Scanning(data, ExtractStops(data))[1]

\* decode looks no further than a whole header fits.
DecodeStops(data) == {p \in 1..Len(data) + 1 : ~HeaderFits(data, p) \/ Incomplete(data, p)}

\* Slip: a header with an impossible length is skipped as a whole.
DecodeSkippingHeaders(data) ==
  LET scan[p \in 1..Len(data) + 1] ==
        IF p \in DecodeStops(data) THEN StopAt(p)
        ELSE IF ~MagicAt(data, p) THEN scan[p + 1]
        ELSE IF Whole(data, p) THEN After(PayloadAt(data, p), scan[EndAt(data, p)])
        ELSE scan[p + HeaderLength]
  IN scan[1]

\* decode.
Decode(data) == Scanning(data, DecodeStops(data))[1]

--------------------------------------------------------------------------------
(* A read of n bytes, by the one receiver and by the other *)

Receive(data) ==
  LET result == ExtractFrames(data) IN
  /\ messages' = messages \o result.found
  /\ readBuffer' = SubSeq(data, result.at, Len(data))

ReceiveZeroCopy(data) ==
  LET result == Decode(data) IN
  /\ dispatched' = dispatched \o result.found
  /\ flatBuffer' = SubSeq(data, result.at, Len(data))

Read(n) ==
  /\ n <= Len(arriving)
  /\ arriving' = SubSeq(arriving, n + 1, Len(arriving))
  /\ Receive(readBuffer \o SubSeq(arriving, 1, n))
  /\ ReceiveZeroCopy(flatBuffer \o SubSeq(arriving, 1, n))
  /\ UNCHANGED items

StreamNext == \E n \in 1..MaxRead : Read(n)

StreamSpec == StreamInit /\ [][StreamNext]_streamVars

--------------------------------------------------------------------------------
\* The frames of which every byte has been read, by their places.
WhollyRead ==
  {i \in DOMAIN items : items[i].kind = "frame" /\ LengthOf(items, i) + Len(arriving) <= Len(Stream(items))}

\* However the stream is cut, a message is delivered with the piece that
\* completes its frame, unchanged, in order, once; and noise delivers nothing
\* and hides nothing (frame_codec.h: "valid data after corruption is not lost").
DeliveredWhenWhole ==
  /\ Len(messages) = Cardinality(WhollyRead)
  /\ \A i \in WhollyRead : messages[Cardinality({j \in WhollyRead : j <= i})] = items[i].is

\* The zero-copy codec finds what the other finds, in the same reads, although
\* it stops looking where no whole header fits.
CodecsAgree == dispatched = messages

\* What waits in a buffer for more data is less than one frame, however much
\* noise has come.
LittleWaits ==
  \A bytes \in {readBuffer, flatBuffer} : Len(bytes) < HeaderLength + MaxMessageSize

================================================================================
