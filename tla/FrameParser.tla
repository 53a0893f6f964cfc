------------------------------ MODULE FrameParser ------------------------------
(***************************************************************************)
(* The byte-by-byte parser of ota_frame.c: it keeps the bytes of one        *)
(* candidate, and on a false start goes back over them, because a real      *)
(* frame can stand inside a false one.                                      *)
(*                                                                          *)
(* The layout keeps its shape with smaller numbers: a start byte, a header  *)
(* that ends with LEN (one byte here, two on the wire), LEN payload bytes   *)
(* and a checksum of what follows the start byte.  One step is one turn of  *)
(* the loop in process().                                                   *)
(***************************************************************************)
EXTENDS Integers, Sequences, FiniteSetsExt

CONSTANTS
  Bytes,           \* what a byte on the wire can be: numbers
  Start,           \* OTA_FRAME_START
  HeaderLen,       \* OFS_PAYLOAD: the start byte, TYPE, SEQ and LEN
  MaxPayload,      \* OTA_FRAME_MAX_PAYLOAD
  Checksum(_),     \* crc16_compute() of a sequence of bytes
  MaxReceived      \* bound: how many bytes arrive

Overhead == HeaderLen + 1
MaxSize == Overhead + MaxPayload

ASSUME LayoutAssumption ==
  /\ Bytes \subseteq Nat /\ Start \in Bytes
  /\ HeaderLen \in Nat \ {0, 1} /\ MaxPayload \in Nat /\ MaxReceived \in Nat

VARIABLES
  raw,          \* the bytes of the candidate, raw[0 .. count - 1] in C
  scanning,     \* inside process()
  received,     \* history: every byte that arrived
  delivered     \* history: what the sink was given, [first, bytes, good]

vars == <<raw, scanning, received, delivered>>

\* What is left after dropping everything before the first start byte at or
\* after position from + 1: seek_start() and drop_front().
SeekStart(bytes, from) ==
  LET starts == {i \in from + 1 .. Len(bytes) : bytes[i] = Start}
  IN IF starts = {} THEN <<>> ELSE SubSeq(bytes, Min(starts), Len(bytes))

AFTER_FALSE_START == 1
FROM_FIRST_BYTE == 0

LenOf(bytes) == bytes[HeaderLen]
Total(bytes) == Overhead + LenOf(bytes)
\* deliver(): the checksum sent against the one computed.
Good(bytes) == bytes[Len(bytes)] = Checksum(SubSeq(bytes, 2, Len(bytes) - 1))

\* ota_frame_encode(): a frame of these header fields and this payload; a payload
\* that is too long has none.
Encoded(fields, payload) ==
  LET body == fields \o <<Len(payload)>> \o payload
  IN <<Start>> \o body \o <<Checksum(body)>>

\* Slips of the kind a change to this code could make stand before the
\* definition they are a slip of; none is used in the model.
RestRescanned(frame) == SeekStart(raw, AFTER_FALSE_START)
RestSkipped(frame) ==
  SeekStart(SubSeq(raw, Len(frame) + 1, Len(raw)), FROM_FIRST_BYTE)

\* Where the search goes on: after a good frame, or at the byte after the start
\* of a bad one.
Rest(frame) ==
  IF Good(frame)
  THEN SeekStart(SubSeq(raw, Len(frame) + 1, Len(raw)), FROM_FIRST_BYTE)
  ELSE SeekStart(raw, AFTER_FALSE_START)

-----------------------------------------------------------------------------
\* ota_frame_parser_feed(): outside a candidate only a start byte counts.
Feed(byte) ==
  /\ ~scanning /\ Len(received) < MaxReceived
  /\ received' = Append(received, byte) /\ UNCHANGED delivered
  /\ IF raw = <<>> /\ byte # Start THEN UNCHANGED <<raw, scanning>>
     ELSE raw' = Append(raw, byte) /\ scanning' = TRUE

\* LEN or the body is still to come.
Wait ==
  /\ scanning
  /\ Len(raw) >= HeaderLen => LenOf(raw) <= MaxPayload /\ Len(raw) < Total(raw)
  /\ scanning' = FALSE /\ UNCHANGED <<raw, received, delivered>>

FalseStart ==
  /\ scanning /\ Len(raw) >= HeaderLen /\ LenOf(raw) > MaxPayload
  /\ raw' = SeekStart(raw, AFTER_FALSE_START)
  /\ UNCHANGED <<scanning, received, delivered>>

DeliverThenStop ==
  /\ scanning /\ Len(raw) >= HeaderLen /\ LenOf(raw) <= MaxPayload
  /\ Len(raw) >= Total(raw)
  /\ LET frame == SubSeq(raw, 1, Total(raw))
     IN /\ delivered' = delivered \union
             {[first |-> Len(received) - Len(raw) + 1, bytes |-> frame,
               good |-> Good(frame)]}
        /\ raw' = Rest(frame)
  /\ scanning' = FALSE /\ UNCHANGED received

Deliver ==
  /\ scanning /\ Len(raw) >= HeaderLen /\ LenOf(raw) <= MaxPayload
  /\ Len(raw) >= Total(raw)
  /\ LET frame == SubSeq(raw, 1, Total(raw))
     IN /\ delivered' = delivered \union
             {[first |-> Len(received) - Len(raw) + 1, bytes |-> frame,
               good |-> Good(frame)]}
        /\ raw' = Rest(frame)
  /\ UNCHANGED <<scanning, received>>

\* ota_frame_parser_init().
Init == raw = <<>> /\ scanning = FALSE /\ received = <<>> /\ delivered = {}

Next == (\E byte \in Bytes : Feed(byte)) \/ Wait \/ FalseStart \/ Deliver

Spec == Init /\ [][Next]_vars
-----------------------------------------------------------------------------
\* The end, among all that was received, of what the sink was given.
LastOf(d) == d.first + Len(d.bytes) - 1

\* "Unreachable by construction: after process() the candidate is always
\* shorter than a complete frame" (ota_frame.c:122-124): between two bytes a
\* candidate begins with a start byte, leaves room in the buffer, and is not
\* one that could already have been judged.
CandidateIsOpen ==
  ~scanning => /\ Len(raw) < MaxSize
               /\ raw # <<>> => raw[1] = Start
               /\ Len(raw) >= HeaderLen =>
                    LenOf(raw) <= MaxPayload /\ Len(raw) < Total(raw)

\* However often the candidate was shifted, what the sink is given stood on
\* the wire, in one piece, where the parser believes, and the candidate is the
\* end of what arrived.
DeliveredAsSent ==
  /\ raw = SubSeq(received, Len(received) - Len(raw) + 1, Len(received))
  /\ \A d \in delivered : d.bytes = SubSeq(received, d.first, LastOf(d))

\* No byte is part of two good frames.
GoodFramesDisjoint ==
  \A d, e \in delivered :
    d.good /\ e.good /\ d # e => LastOf(d) < e.first \/ LastOf(e) < d.first

\* What the sink is given are frames of the wire, each byte in one good one at most.
DeliveriesAreTrue == DeliveredAsSent /\ GoodFramesDisjoint

\* A frame the encoder wrote is never lost to garbage before it, around it or
\* inside a false frame that holds it: it is delivered, or a good frame that
\* overlaps it was, or a candidate that began no later is still open and can wait
\* for at most MaxSize bytes.
NoFrameLost ==
  ~scanning =>
    \A p \in 1 .. Len(received), n \in 0 .. MaxPayload :
      LET last == p + Overhead + n - 1
          sent == SubSeq(received, p, last)
      IN last <= Len(received)
         /\ sent = Encoded(SubSeq(sent, 2, HeaderLen - 1),
                           SubSeq(sent, HeaderLen + 1, HeaderLen + n))
         => \/ \E d \in delivered : d.good /\ d.first <= last /\ LastOf(d) >= p
            \/ raw # <<>> /\ Len(received) - Len(raw) + 1 <= p
=============================================================================
