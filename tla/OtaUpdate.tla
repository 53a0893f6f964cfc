------------------------------- MODULE OtaUpdate -------------------------------
(***************************************************************************)
(* The update session of src/Src/ota_update.c: what the board does with    *)
(* each frame the parser delivers, and with the passing of time.           *)
(*                                                                         *)
(* One step is one call of the module from the main loop, which nothing    *)
(* preempts that touches this state.  The port (flash, option bytes) is    *)
(* an argument: io is what its functions would answer in this step, and    *)
(* calls says which of them the step called.  A payload is kept as the     *)
(* fields the handlers read; "shaped" is whether frame->len was the one    *)
(* the type demands.                                                       *)
(***************************************************************************)
EXTENDS Integers

CONSTANTS
  Capacity,      \* port->image_capacity, in bytes
  WordSize,      \* 2^32 on the board: the range of offsets and sizes
  ClockSize,     \* 2^32 on the board: the range of the millisecond clock
  Silence,       \* OTA_UPDATE_SILENCE_MS
  MaxPass,       \* the longest one pass of the main loop takes, in clock units
  Seqs, Crcs, Sizes, Offsets, Counts   \* what the fields of a frame can hold

\* le_bytes.h and ota_update.h: DATA carries whole flash double words.
OTA_DATA_ALIGN == 8

ASSUME CapacityAssumption ==
  /\ Capacity \in Nat /\ Capacity % OTA_DATA_ALIGN = 0
  /\ WordSize \in Nat /\ Capacity + OTA_DATA_ALIGN < WordSize
ASSUME ClockAssumption ==
  /\ ClockSize \in Nat /\ Silence \in Nat \ {0} /\ MaxPass \in Nat \ {0}
  /\ Silence + MaxPass < ClockSize
ASSUME FieldAssumption ==
  /\ Sizes \subseteq 0 .. WordSize - 1
  /\ Offsets \subseteq 0 .. WordSize - 1
  /\ Counts \subseteq 0 .. WordSize - 1
  /\ 0 \in Crcs

VARIABLES
  session,         \* update->session
  image_size, image_crc32, next_offset,
  last_answer_ms,
  last,            \* have_last, last_type, last_seq and last_answer together
  now,             \* what port->now_ms answers
  wire,            \* the answer this step sent, or NoAnswer
  calls,           \* the port functions with an effect that this step called
  silent,          \* history: time since the last answer, never wrapping
  unpolled         \* history: time since the last ota_update_tick

transfer == <<session, image_size, image_crc32, next_offset>>
clock == <<now, silent, unpolled>>
vars == <<transfer, last_answer_ms, last, wire, calls, clock>>

NoAnswer == [type |-> "none"]
NoLast == [type |-> "none"]

BareTypes == {"INFO_REQ", "COMMIT", "CONFIRM", "ABORT", "UNKNOWN"}
BareFrames == [type : BareTypes, seq : Seqs, shaped : BOOLEAN]
BeginFrames ==
  [type : {"BEGIN"}, seq : Seqs, shaped : BOOLEAN, size : Sizes, crc : Crcs]
DataFrames == [type : {"DATA"}, seq : Seqs, offset : Offsets, count : Counts]
Frames == BareFrames \union BeginFrames \union DataFrames

Codes == {"BAD_CRC", "BAD_STATE", "BAD_OFFSET", "TOO_LARGE", "FLASH_ERROR",
          "VERIFY_FAILED", "BAD_MESSAGE"}
ImageStates == {"TRIAL", "CONFIRMED"}
KeptAnswers == [type : {"ACK"}, seq : Seqs]
                 \union [type : {"INFO"}, seq : Seqs, state : ImageStates]
Answers == KeptAnswers \union [type : {"NAK"}, seq : Seqs, code : Codes]
KeptTypes == {"INFO_REQ", "BEGIN", "DATA", "COMMIT", "CONFIRM", "ABORT"}
Memories == {NoLast} \union [type : KeptTypes, seq : Seqs, answer : KeptAnswers]

\* What the port answers in one step.  No handler calls more than one function
\* that can fail, so one result is enough.
Ios == [result : {"OK", "FAILED"}, crc : Crcs, state : ImageStates]

-----------------------------------------------------------------------------
\* Slips of the kind a change to this code could make stand before the
\* definition they are a slip of; none is used in the model.

\* uint32_t arithmetic on values below the modulus.
Minus(a, b, modulus) == IF a >= b THEN a - b ELSE a - b + modulus
Plus(a, b, modulus) == IF a + b < modulus THEN a + b ELSE a + b - modulus

Padded(size) ==
  IF size % OTA_DATA_ALIGN = 0 THEN size
  ELSE Plus(size, OTA_DATA_ALIGN - (size % OTA_DATA_ALIGN), WordSize)

InSession == session = "RECEIVING"

SendKeepingTime(answer) ==
  wire' = answer /\ silent' = 0 /\ UNCHANGED last_answer_ms
Send(answer) == wire' = answer /\ last_answer_ms' = now /\ silent' = 0

KeepUnlessConfirm(f, answer) ==
  /\ Send(answer)
  /\ last' = IF f.type = "CONFIRM" THEN last
             ELSE [type |-> f.type, seq |-> f.seq, answer |-> answer]
Keep(f, answer) ==
  /\ Send(answer)
  /\ last' = [type |-> f.type, seq |-> f.seq, answer |-> answer]

Ack(f) == Keep(f, [type |-> "ACK", seq |-> f.seq])
Nak(seq, code) == Send([type |-> "NAK", seq |-> seq, code |-> code])

Refuse(f, code) == Nak(f.seq, code) /\ calls' = {} /\ UNCHANGED <<transfer, last>>

EndSessionRemembering ==
  /\ session' = "IDLE" /\ next_offset' = 0
  /\ UNCHANGED <<image_size, image_crc32, last>>

\* have_last goes too: a late repeat is judged again, not answered from memory.
EndSession ==
  /\ session' = "IDLE" /\ next_offset' = 0 /\ last' = NoLast
  /\ UNCHANGED <<image_size, image_crc32>>

FailWithRemembering(f, code) ==
  /\ session' = "IDLE" /\ next_offset' = 0 /\ UNCHANGED <<image_size, image_crc32>>
  /\ Keep(f, [type |-> "NAK", seq |-> f.seq, code |-> code])
FailWith(f, code) == EndSession /\ Nak(f.seq, code)

-----------------------------------------------------------------------------
OnInfoReq(f, io) ==
  \/ ~f.shaped /\ Refuse(f, "BAD_MESSAGE")
  \/ /\ f.shaped
     /\ Keep(f, [type |-> "INFO", seq |-> f.seq, state |-> io.state])
     /\ calls' = {} /\ UNCHANGED transfer

BeginProblem(f) ==
  IF ~f.shaped \/ f.size = 0 THEN "BAD_MESSAGE"
  ELSE IF session = "COMMITTED" THEN "BAD_STATE"
  ELSE IF f.size > Capacity THEN "TOO_LARGE" ELSE "none"

OnBegin(f, io) ==
  \/ BeginProblem(f) # "none" /\ Refuse(f, BeginProblem(f))
  \/ /\ BeginProblem(f) = "none" /\ calls' = {"erase"}
     /\ \/ io.result = "FAILED" /\ FailWith(f, "FLASH_ERROR")
        \/ /\ io.result = "OK" /\ Ack(f)
           /\ session' = "RECEIVING" /\ next_offset' = 0
           /\ image_size' = f.size /\ image_crc32' = f.crc

DataProblemWithoutRoom(f) ==
  IF f.count = 0 \/ f.count % OTA_DATA_ALIGN # 0 THEN "BAD_MESSAGE"
  ELSE IF session # "RECEIVING" THEN "BAD_STATE"
  ELSE IF f.offset # next_offset THEN "BAD_OFFSET" ELSE "none"

\* check_data().  A payload with no room for image bytes has count 0.
DataProblem(f) ==
  IF f.count = 0 \/ f.count % OTA_DATA_ALIGN # 0 THEN "BAD_MESSAGE"
  ELSE IF session # "RECEIVING" THEN "BAD_STATE"
  ELSE IF \/ f.offset # next_offset
          \/ f.count > Minus(Padded(image_size), f.offset, WordSize)
       THEN "BAD_OFFSET" ELSE "none"

OnData(f, io) ==
  \/ DataProblem(f) # "none" /\ Refuse(f, DataProblem(f))
  \/ /\ DataProblem(f) = "none" /\ calls' = {"program"}
     /\ \/ io.result = "FAILED" /\ FailWith(f, "FLASH_ERROR")
        \/ /\ io.result = "OK" /\ Ack(f)
           /\ next_offset' = Plus(next_offset, f.count, WordSize)
           /\ UNCHANGED <<session, image_size, image_crc32>>

CommitProblemWithoutSize(f) ==
  IF ~f.shaped THEN "BAD_MESSAGE"
  ELSE IF session # "RECEIVING" THEN "BAD_STATE" ELSE "none"

CommitProblem(f) ==
  IF ~f.shaped THEN "BAD_MESSAGE"
  ELSE IF session # "RECEIVING" \/ next_offset < image_size THEN "BAD_STATE"
  ELSE "none"

OnCommit(f, io) ==
  \/ CommitProblem(f) # "none" /\ Refuse(f, CommitProblem(f))
  \/ /\ CommitProblem(f) = "none" /\ io.crc # image_crc32
     /\ FailWith(f, "VERIFY_FAILED") /\ calls' = {}
  \/ /\ CommitProblem(f) = "none" /\ io.crc = image_crc32
     /\ \/ /\ io.result = "FAILED" /\ calls' = {"select"}
           /\ FailWith(f, "FLASH_ERROR")
        \/ /\ io.result = "OK" /\ calls' = {"select", "reset"}
           /\ session' = "COMMITTED" /\ Ack(f)
           /\ UNCHANGED <<image_size, image_crc32, next_offset>>

ConfirmProblem(f) ==
  IF ~f.shaped THEN "BAD_MESSAGE"
  ELSE IF session # "IDLE" THEN "BAD_STATE" ELSE "none"

OnConfirm(f, io) ==
  \/ ConfirmProblem(f) # "none" /\ Refuse(f, ConfirmProblem(f))
  \/ /\ ConfirmProblem(f) = "none"
     /\ calls' = IF io.state = "TRIAL" THEN {"confirm"} ELSE {}
     /\ UNCHANGED transfer
     /\ IF io.state = "TRIAL" /\ io.result = "FAILED"
        THEN Nak(f.seq, "FLASH_ERROR") /\ UNCHANGED last
        ELSE Ack(f)

AbortProblem(f) ==
  IF ~f.shaped THEN "BAD_MESSAGE"
  ELSE IF session = "COMMITTED" THEN "BAD_STATE" ELSE "none"

\* end_session() forgets the last answer, and the ACK after it is kept.
OnAbort(f) ==
  \/ AbortProblem(f) # "none" /\ Refuse(f, AbortProblem(f))
  \/ /\ AbortProblem(f) = "none" /\ calls' = {} /\ Ack(f)
     /\ session' = "IDLE" /\ next_offset' = 0
     /\ UNCHANGED <<image_size, image_crc32>>

Dispatch(f, io) ==
  \/ f.type = "INFO_REQ" /\ OnInfoReq(f, io)
  \/ f.type = "BEGIN" /\ OnBegin(f, io)
  \/ f.type = "DATA" /\ OnData(f, io)
  \/ f.type = "COMMIT" /\ OnCommit(f, io)
  \/ f.type = "CONFIRM" /\ OnConfirm(f, io)
  \/ f.type = "ABORT" /\ OnAbort(f)
  \/ f.type = "UNKNOWN" /\ Refuse(f, "BAD_MESSAGE")

IsRepeat(f) == last # NoLast /\ f.type = last.type /\ f.seq = last.seq

\* ota_update_on_frame() for a frame whose CRC holds.
OnFrame(f, io) ==
  /\ UNCHANGED <<now, unpolled>>
  /\ \/ /\ IsRepeat(f)
        /\ Send(last.answer) /\ calls' = {} /\ UNCHANGED <<transfer, last>>
     \/ ~IsRepeat(f) /\ Dispatch(f, io)

\* ota_update_on_frame() for a damaged one: answered only inside a session.
OnDamagedFrame(seq) ==
  /\ UNCHANGED <<transfer, last, now, unpolled>> /\ calls' = {}
  /\ \/ session # "IDLE" /\ Nak(seq, "BAD_CRC")
     \/ session = "IDLE" /\ wire' = NoAnswer /\ UNCHANGED <<last_answer_ms, silent>>

TickAsAnswer ==
  /\ wire' = NoAnswer /\ calls' = {} /\ unpolled' = 0
  /\ last_answer_ms' = now /\ silent' = 0 /\ UNCHANGED now
  /\ IF InSession /\ Minus(now, last_answer_ms, ClockSize) >= Silence
     THEN EndSession ELSE UNCHANGED <<transfer, last>>

\* ota_update_tick(), once in every pass of the main loop.
Tick ==
  /\ wire' = NoAnswer /\ calls' = {} /\ unpolled' = 0
  /\ UNCHANGED <<last_answer_ms, now, silent>>
  /\ IF InSession /\ Minus(now, last_answer_ms, ClockSize) >= Silence
     THEN EndSession ELSE UNCHANGED <<transfer, last>>

\* The clock moves, at most MaxPass between two ticks.  Outside a session the
\* history of the silence is capped: nothing reads it there.
Elapse ==
  /\ unpolled < MaxPass
  /\ now' = Plus(now, 1, ClockSize) /\ unpolled' = unpolled + 1
  /\ silent' = IF InSession \/ silent < Silence THEN silent + 1 ELSE silent
  /\ wire' = NoAnswer /\ calls' = {}
  /\ UNCHANGED <<transfer, last_answer_ms, last>>

-----------------------------------------------------------------------------
\* ota_update_init().
InitSession ==
  /\ session = "IDLE" /\ image_size = 0 /\ image_crc32 = 0 /\ next_offset = 0
  /\ last_answer_ms = 0 /\ last = NoLast /\ wire = NoAnswer /\ calls = {}

Init ==
  /\ InitSession
  /\ now \in 0 .. ClockSize - 1 /\ silent = 0 /\ unpolled = 0

Hear == \/ \E f \in Frames, io \in Ios : OnFrame(f, io)
        \/ \E seq \in Seqs : OnDamagedFrame(seq)

Next == Hear \/ Tick \/ Elapse

\* The loop never stops (the watchdog sees to it) and neither does the clock.
\* Nothing is assumed of the host.
Spec == Init /\ [][Next]_vars /\ WF_vars(Tick) /\ WF_vars(Elapse)
-----------------------------------------------------------------------------
\* Every variable stays in the range its C type and its use give it.  The
\* answer kept for a repeat is never a NAK: a failed frame is judged again.
TypeOK ==
  /\ session \in {"IDLE", "RECEIVING", "COMMITTED"}
  /\ image_size \in 0 .. WordSize - 1 /\ image_crc32 \in Crcs
  /\ next_offset \in 0 .. WordSize - 1
  /\ now \in 0 .. ClockSize - 1 /\ last_answer_ms \in 0 .. ClockSize - 1
  /\ last \in Memories /\ wire \in Answers \union {NoAnswer}
  /\ calls \subseteq {"erase", "program", "select", "confirm", "reset"}
  /\ silent \in Nat /\ unpolled \in 0 .. MaxPass

\* However BEGINs, retries and failures are mixed, the write position stays on
\* a double word and within the announced image, so that "limit - offset" in
\* check_data() never wraps, and within the bank, so that flash_program_spare()
\* is never asked for a byte past it.  Outside a session nothing is counted.
OffsetInBounds ==
  /\ next_offset % OTA_DATA_ALIGN = 0
  /\ session = "IDLE" => next_offset = 0
  /\ session # "IDLE" => /\ image_size \in 1 .. Capacity
                         /\ next_offset <= Padded(image_size)
                         /\ Padded(image_size) <= Capacity

\* An image is selected only when every byte of it was programmed, its padding
\* included.  on_commit() itself compares only with the unpadded size.
CommittedIsWhole ==
  session = "COMMITTED" => next_offset = Padded(image_size)

\* What is kept for a repeat is still true when it is sent again: an
\* acknowledgement answered from memory never vouches for a transfer that has
\* ended, for a BEGIN whose data is already flowing or for a session that a
\* failure closed.  on_frame() answers a repeat before any handler looks.
RememberedAnswerHolds ==
  /\ last.type = "BEGIN" => session = "RECEIVING" /\ next_offset = 0
  /\ last.type = "DATA" => session = "RECEIVING" /\ next_offset > 0
  /\ last.type = "COMMIT" => session = "COMMITTED"
  /\ last.type \in {"CONFIRM", "ABORT"} => session = "IDLE"

\* The wrapping subtraction in ota_update_tick() measures the true silence in
\* every session, wherever the clock wraps, and a session is never silent for
\* longer than the limit and one pass of the loop.
SilenceMeasured ==
  InSession => /\ Minus(now, last_answer_ms, ClockSize) = silent
               /\ silent < Silence + unpolled

\* The board gives up on a session without a word only when it has itself been
\* silent for the whole limit: the 10 s count from its last answer.
SilentEndNeedsSilence ==
  [][session = "RECEIVING" /\ session' = "IDLE" /\ wire' = NoAnswer
       => silent >= Silence]_vars

\* Once the bank is selected nothing erases, programs or selects again and no
\* message and no timeout leads out, whatever the host sends: the next BEGIN
\* would erase the image the board is about to boot.
CommittedIsFinal ==
  [][session = "COMMITTED" => session' = "COMMITTED" /\ calls' = {}]_vars

\* A host that goes away for good gives the wire back to telemetry, whatever
\* it left behind: from some moment on no session is open.
SilentHostFreesWire ==
  <>[][Tick \/ Elapse]_vars => <>[](~InSession)

\* The comment at src/Src/ota_update.c:263 on answering from memory: "Same
\* frame again: the same answer, and nothing done twice."  An ACK to a BEGIN
\* then always comes with the session that BEGIN describes.
BeginAckIsForThisImage ==
  [][\A f \in BeginFrames :
       (\E io \in Ios : OnFrame(f, io)) /\ wire' = [type |-> "ACK", seq |-> f.seq]
         => image_size' = f.size /\ image_crc32' = f.crc]_vars
=============================================================================
