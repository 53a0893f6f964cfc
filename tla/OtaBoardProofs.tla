----------------------------- MODULE OtaBoardProofs -----------------------------
(***************************************************************************)
(* What OtaUpdate.tla promises of a session by itself, for every capacity,  *)
(* clock, silence limit and set of frames: TypeOK comes first, each        *)
(* invariant then uses it.                                                 *)
(*                                                                         *)
(* Then what OtaBoard.tla promises, for every bank size, set of images,    *)
(* payload and number of power cuts: first what each operation of the      *)
(* flash leaves alone, then what a frame can do to the board, then the     *)
(* invariants, each with the help of those before it, and last the step to *)
(* SafeUpdate.                                                             *)
(***************************************************************************)
EXTENDS OtaBoard, TLAPS

\* A frame of a given type has that type's fields.
LEMMA FrameFields ==
  ASSUME NEW f \in Frames
  PROVE  /\ f.seq \in Seqs
         /\ f.type = "BEGIN" => f.size \in Sizes /\ f.crc \in Crcs
         /\ f.type = "DATA" => f.offset \in Offsets /\ f.count \in Counts
         /\ f.type # "UNKNOWN" => f.type \in KeptTypes
BY DEF Frames, BareFrames, BareTypes, BeginFrames, DataFrames, KeptTypes

\* uint32_t arithmetic stays in range.
LEMMA WrapTyped ==
  ASSUME NEW m \in Nat, NEW a \in 0 .. m - 1, NEW b \in 0 .. m - 1
  PROVE  Plus(a, b, m) \in 0 .. m - 1 /\ Minus(a, b, m) \in 0 .. m - 1
BY DEF Plus, Minus

\* padded_size() of an image that fits the bank: the next multiple of a double
\* word, without wrapping and still within the bank.
LEMMA PaddedFits ==
  ASSUME NEW size \in 1 .. Capacity
  PROVE  /\ Padded(size) \in size .. size + OTA_DATA_ALIGN - 1
         /\ Padded(size) % OTA_DATA_ALIGN = 0
         /\ Padded(size) <= Capacity
BY CapacityAssumption DEF Padded, Plus, OTA_DATA_ALIGN

\* An acknowledgement and what is kept of it are well typed (reply(), ack()).
LEMMA AckTyped ==
  ASSUME NEW f \in Frames, f.type # "UNKNOWN", TypeOK, Ack(f)
  PROVE  /\ wire' \in Answers /\ last' \in Memories
         /\ last_answer_ms' = now /\ silent' = 0
BY FrameFields DEF Ack, Keep, Send, Answers, KeptAnswers, Memories

\* A refusal is well typed (nak()).
LEMMA NakTyped ==
  ASSUME NEW seq \in Seqs, NEW code \in Codes, Nak(seq, code)
  PROVE  wire' \in Answers /\ last_answer_ms' = now /\ silent' = 0
BY DEF Nak, Send, Answers

\* So is a handler that only refuses.
LEMMA RefuseTyped ==
  ASSUME NEW f \in Frames, NEW code \in Codes, TypeOK, Refuse(f, code),
         UNCHANGED <<now, unpolled>>
  PROVE  TypeOK'
BY NakTyped, FrameFields DEF Refuse, transfer, TypeOK

\* So is a handler that refuses and ends the session (end_session()).
LEMMA FailTyped ==
  ASSUME NEW f \in Frames, NEW code \in Codes, TypeOK, FailWith(f, code),
         UNCHANGED <<now, unpolled>>,
         calls' \subseteq {"erase", "program", "select", "confirm", "reset"}
  PROVE  TypeOK'
<1>1. /\ wire' \in Answers /\ last_answer_ms' = now /\ silent' = 0
  BY NakTyped, FrameFields DEF FailWith
<1>2. /\ session' = "IDLE" /\ next_offset' = 0 /\ last' = NoLast
      /\ UNCHANGED <<image_size, image_crc32>>
  BY DEF FailWith, EndSession
<1>3. NoLast \in Memories /\ 0 \in 0 .. WordSize - 1
  BY CapacityAssumption DEF Memories, OTA_DATA_ALIGN
<1> QED BY <1>1, <1>2, <1>3 DEF TypeOK

-----------------------------------------------------------------------------
\* Every handler, the tick and the clock keep the types.
LEMMA TypeStep == TypeOK /\ [Next]_vars => TypeOK'
<1> SUFFICES ASSUME TypeOK, [Next]_vars PROVE TypeOK'
  OBVIOUS
<1>1. ASSUME NEW f \in Frames, NEW io \in Ios, OnFrame(f, io)
      PROVE  TypeOK'
  <2>0. UNCHANGED <<now, unpolled>> BY <1>1 DEF OnFrame
  <2>1. CASE IsRepeat(f)
    <3>1. last.answer \in KeptAnswers BY <2>1 DEF IsRepeat, TypeOK, Memories
    <3>2. Send(last.answer) /\ calls' = {} /\ UNCHANGED <<transfer, last>>
      BY <1>1, <2>1 DEF OnFrame
    <3> QED BY <2>0, <3>1, <3>2 DEF Send, TypeOK, transfer, Answers
  <2>2. ASSUME f.type = "INFO_REQ", OnInfoReq(f, io) PROVE TypeOK'
    <3>1. CASE Refuse(f, "BAD_MESSAGE")
      BY <3>1, <2>0, RefuseTyped DEF Codes
    <3>2. CASE /\ Keep(f, [type |-> "INFO", seq |-> f.seq, state |-> io.state])
               /\ calls' = {} /\ UNCHANGED transfer
      <4>1. [type |-> "INFO", seq |-> f.seq, state |-> io.state] \in KeptAnswers
        BY FrameFields DEF KeptAnswers, Ios
      <4> QED
        BY <2>0, <2>2, <3>2, <4>1, FrameFields
        DEF Keep, Send, TypeOK, transfer, Answers, Memories
    <3> QED BY <2>2, <3>1, <3>2 DEF OnInfoReq
  <2>3. ASSUME f.type = "BEGIN", OnBegin(f, io) PROVE TypeOK'
    <3>1. CASE BeginProblem(f) # "none" /\ Refuse(f, BeginProblem(f))
      <4>1. BeginProblem(f) \in Codes BY <3>1 DEF BeginProblem, Codes
      <4> QED BY <3>1, <4>1, <2>0, RefuseTyped
    <3>2. CASE calls' = {"erase"} /\ FailWith(f, "FLASH_ERROR")
      BY <3>2, <2>0, FailTyped DEF Codes
    <3>3. CASE /\ calls' = {"erase"} /\ Ack(f)
               /\ session' = "RECEIVING" /\ next_offset' = 0
               /\ image_size' = f.size /\ image_crc32' = f.crc
      <4>1. 0 \in 0 .. WordSize - 1 BY CapacityAssumption DEF OTA_DATA_ALIGN
      <4>2. f.size \in 0 .. WordSize - 1 /\ f.crc \in Crcs
        BY <2>3, FrameFields, FieldAssumption
      <4> QED BY <2>0, <2>3, <3>3, <4>1, <4>2, AckTyped DEF TypeOK
    <3> QED BY <2>3, <3>1, <3>2, <3>3 DEF OnBegin
  <2>4. ASSUME f.type = "DATA", OnData(f, io) PROVE TypeOK'
    <3>1. CASE DataProblem(f) # "none" /\ Refuse(f, DataProblem(f))
      <4>1. DataProblem(f) \in Codes BY <3>1 DEF DataProblem, Codes
      <4> QED BY <3>1, <4>1, <2>0, RefuseTyped
    <3>2. CASE calls' = {"program"} /\ FailWith(f, "FLASH_ERROR")
      BY <3>2, <2>0, FailTyped DEF Codes
    <3>3. CASE /\ calls' = {"program"} /\ Ack(f)
               /\ next_offset' = Plus(next_offset, f.count, WordSize)
               /\ UNCHANGED <<session, image_size, image_crc32>>
      <4>1. next_offset' \in 0 .. WordSize - 1
        BY <3>3, <2>4, FrameFields, FieldAssumption, CapacityAssumption, WrapTyped
        DEF TypeOK
      <4> QED BY <2>0, <2>4, <3>3, <4>1, AckTyped DEF TypeOK
    <3> QED BY <2>4, <3>1, <3>2, <3>3 DEF OnData
  <2>5. ASSUME f.type = "COMMIT", OnCommit(f, io) PROVE TypeOK'
    <3>1. CASE CommitProblem(f) # "none" /\ Refuse(f, CommitProblem(f))
      <4>1. CommitProblem(f) \in Codes BY <3>1 DEF CommitProblem, Codes
      <4> QED BY <3>1, <4>1, <2>0, RefuseTyped
    <3>2. CASE calls' = {} /\ FailWith(f, "VERIFY_FAILED")
      BY <3>2, <2>0, FailTyped DEF Codes
    <3>3. CASE calls' = {"select"} /\ FailWith(f, "FLASH_ERROR")
      BY <3>3, <2>0, FailTyped DEF Codes
    <3>4. CASE /\ calls' = {"select", "reset"}
               /\ session' = "COMMITTED" /\ Ack(f)
               /\ UNCHANGED <<image_size, image_crc32, next_offset>>
      BY <2>0, <2>5, <3>4, AckTyped DEF TypeOK
    <3> QED BY <2>5, <3>1, <3>2, <3>3, <3>4 DEF OnCommit
  <2>6. ASSUME f.type = "CONFIRM", OnConfirm(f, io) PROVE TypeOK'
    <3>1. CASE ConfirmProblem(f) # "none" /\ Refuse(f, ConfirmProblem(f))
      <4>1. ConfirmProblem(f) \in Codes BY <3>1 DEF ConfirmProblem, Codes
      <4> QED BY <3>1, <4>1, <2>0, RefuseTyped
    <3>2. CASE /\ calls' \in {{"confirm"}, {}} /\ UNCHANGED transfer
               /\ Nak(f.seq, "FLASH_ERROR") /\ UNCHANGED last
      <4>1. wire' \in Answers /\ last_answer_ms' = now /\ silent' = 0
        BY <3>2, NakTyped, FrameFields DEF Codes
      <4> QED BY <2>0, <3>2, <4>1 DEF TypeOK, transfer
    <3>3. CASE calls' \in {{"confirm"}, {}} /\ UNCHANGED transfer /\ Ack(f)
      BY <2>0, <2>6, <3>3, AckTyped DEF TypeOK, transfer
    <3> QED BY <2>6, <3>1, <3>2, <3>3 DEF OnConfirm
  <2>7. ASSUME f.type = "ABORT", OnAbort(f) PROVE TypeOK'
    <3>1. CASE AbortProblem(f) # "none" /\ Refuse(f, AbortProblem(f))
      <4>1. AbortProblem(f) \in Codes BY <3>1 DEF AbortProblem, Codes
      <4> QED BY <3>1, <4>1, <2>0, RefuseTyped
    <3>2. CASE /\ calls' = {} /\ Ack(f)
               /\ session' = "IDLE" /\ next_offset' = 0
               /\ UNCHANGED <<image_size, image_crc32>>
      <4>1. 0 \in 0 .. WordSize - 1 BY CapacityAssumption DEF OTA_DATA_ALIGN
      <4> QED BY <2>0, <2>7, <3>2, <4>1, AckTyped DEF TypeOK
    <3> QED BY <2>7, <3>1, <3>2 DEF OnAbort
  <2>8. ASSUME Refuse(f, "BAD_MESSAGE") PROVE TypeOK'
    BY <2>0, <2>8, RefuseTyped DEF Codes
  <2> QED
    BY <1>1, <2>1, <2>2, <2>3, <2>4, <2>5, <2>6, <2>7, <2>8
    DEF OnFrame, Dispatch
<1>2. ASSUME NEW seq \in Seqs, OnDamagedFrame(seq) PROVE TypeOK'
  <2>1. wire' \in Answers \union {NoAnswer} /\ last_answer_ms' \in 0 .. ClockSize - 1
        /\ silent' \in Nat
    BY <1>2, NakTyped DEF OnDamagedFrame, TypeOK, Codes
  <2> QED BY <1>2, <2>1 DEF OnDamagedFrame, TypeOK, transfer
<1>3. CASE Tick
  <2>1. 0 \in 0 .. WordSize - 1 /\ 0 \in 0 .. MaxPass /\ NoLast \in Memories
    BY CapacityAssumption, ClockAssumption DEF OTA_DATA_ALIGN, Memories
  <2> QED BY <1>3, <2>1 DEF Tick, EndSession, TypeOK, transfer
<1>4. CASE Elapse
  <2>1. now' \in 0 .. ClockSize - 1
    BY <1>4, ClockAssumption DEF Elapse, TypeOK, Plus
  <2>2. unpolled' \in 0 .. MaxPass /\ silent' \in Nat
    BY <1>4, ClockAssumption DEF Elapse, TypeOK
  <2> QED BY <1>4, <2>1, <2>2 DEF Elapse, TypeOK, transfer
<1>5. CASE UNCHANGED vars
  BY <1>5 DEF vars, transfer, clock, TypeOK
<1> QED BY <1>1, <1>2, <1>3, <1>4, <1>5 DEF Next, Hear

\* The session's state, its memory and its clock keep their types through every
\* frame, failure and timeout of src/Src/ota_update.c.
THEOREM Typing == Spec => []TypeOK
<1>1. Init => TypeOK
  BY CapacityAssumption, ClockAssumption, FieldAssumption
  DEF Init, InitSession, TypeOK, OTA_DATA_ALIGN, Memories
<1> QED BY <1>1, TypeStep, PTL DEF Spec

-----------------------------------------------------------------------------
(***************************************************************************)
(* What one frame can do to the session and to what it remembers: nothing, *)
(* end it, or one of five steps forward.                                   *)
(***************************************************************************)
Begun(f) ==
  /\ f.type = "BEGIN" /\ BeginProblem(f) = "none" /\ last'.type = "BEGIN"
  /\ session' = "RECEIVING" /\ next_offset' = 0 /\ image_size' = f.size

Extended(f) ==
  /\ f.type = "DATA" /\ DataProblem(f) = "none" /\ last'.type = "DATA"
  /\ next_offset' = Plus(next_offset, f.count, WordSize)
  /\ UNCHANGED <<session, image_size>>

Committed(f) ==
  /\ f.type = "COMMIT" /\ CommitProblem(f) = "none" /\ last'.type = "COMMIT"
  /\ session' = "COMMITTED" /\ UNCHANGED <<next_offset, image_size>>

Told(f) ==
  /\ f.type = "INFO_REQ" /\ last'.type = "INFO_REQ" /\ UNCHANGED transfer

Confirmed(f) ==
  /\ f.type = "CONFIRM" /\ ConfirmProblem(f) = "none" /\ last'.type = "CONFIRM"
  /\ UNCHANGED transfer

Aborted(f) ==
  /\ f.type = "ABORT" /\ AbortProblem(f) = "none" /\ last'.type = "ABORT"
  /\ session' = "IDLE" /\ next_offset' = 0 /\ UNCHANGED image_size

\* A frame was refused or repeated, or it ended the session, or it did the one
\* thing its type asks for.
LEMMA FrameEffect ==
  ASSUME NEW f \in Frames, NEW io \in Ios, OnFrame(f, io)
  PROVE  \/ UNCHANGED <<transfer, last>>
         \/ EndSession /\ session # "COMMITTED"
         \/ Begun(f) \/ Extended(f) \/ Committed(f)
         \/ Told(f) \/ Confirmed(f) \/ Aborted(f)
<1>1. CASE IsRepeat(f) BY <1>1 DEF OnFrame
<1>2. ASSUME f.type = "INFO_REQ", OnInfoReq(f, io)
      PROVE  UNCHANGED <<transfer, last>> \/ Told(f)
  BY <1>2 DEF OnInfoReq, Refuse, Keep, Told
<1>3. ASSUME f.type = "BEGIN", OnBegin(f, io)
      PROVE  \/ UNCHANGED <<transfer, last>> \/ Begun(f)
             \/ EndSession /\ session # "COMMITTED"
  BY <1>3 DEF OnBegin, Refuse, FailWith, Ack, Keep, Begun, BeginProblem
<1>4. ASSUME f.type = "DATA", OnData(f, io)
      PROVE  \/ UNCHANGED <<transfer, last>> \/ Extended(f)
             \/ EndSession /\ session # "COMMITTED"
  BY <1>4 DEF OnData, Refuse, FailWith, Ack, Keep, Extended, DataProblem
<1>5. ASSUME f.type = "COMMIT", OnCommit(f, io)
      PROVE  \/ UNCHANGED <<transfer, last>> \/ Committed(f)
             \/ EndSession /\ session # "COMMITTED"
  BY <1>5 DEF OnCommit, Refuse, FailWith, Ack, Keep, Committed, CommitProblem
<1>6. ASSUME f.type = "CONFIRM", OnConfirm(f, io)
      PROVE  UNCHANGED <<transfer, last>> \/ Confirmed(f)
  BY <1>6 DEF OnConfirm, Refuse, Ack, Keep, Confirmed
<1>7. ASSUME f.type = "ABORT", OnAbort(f)
      PROVE  UNCHANGED <<transfer, last>> \/ Aborted(f)
  BY <1>7 DEF OnAbort, Refuse, Ack, Keep, Aborted
<1>8. ASSUME Refuse(f, "BAD_MESSAGE") PROVE UNCHANGED <<transfer, last>>
  BY <1>8 DEF Refuse
<1> QED
  BY <1>1, <1>2, <1>3, <1>4, <1>5, <1>6, <1>7, <1>8 DEF OnFrame, Dispatch

\* Every step of the board, seen from the session: the same outcomes, a damaged
\* frame and the passing of time included.
LEMMA StepEffect ==
  ASSUME [Next]_vars
  PROVE  \/ UNCHANGED <<transfer, last>>
         \/ EndSession /\ session # "COMMITTED"
         \/ \E f \in Frames : \/ Begun(f) \/ Extended(f) \/ Committed(f)
                               \/ Told(f) \/ Confirmed(f) \/ Aborted(f)
<1>1. ASSUME NEW f \in Frames, NEW io \in Ios, OnFrame(f, io)
      PROVE  \/ UNCHANGED <<transfer, last>>
             \/ EndSession /\ session # "COMMITTED"
             \/ Begun(f) \/ Extended(f) \/ Committed(f)
             \/ Told(f) \/ Confirmed(f) \/ Aborted(f)
  BY <1>1, FrameEffect
<1>2. ASSUME NEW seq \in Seqs, OnDamagedFrame(seq)
      PROVE  UNCHANGED <<transfer, last>>
  BY <1>2 DEF OnDamagedFrame
<1>3. CASE Tick BY <1>3 DEF Tick, InSession
<1>4. CASE Elapse BY <1>4 DEF Elapse
<1>5. CASE UNCHANGED vars BY <1>5 DEF vars
<1> QED BY <1>1, <1>2, <1>3, <1>4, <1>5 DEF Next, Hear

-----------------------------------------------------------------------------
\* Every step keeps the write position within the announced image.
LEMMA OffsetStep == TypeOK /\ OffsetInBounds /\ [Next]_vars => OffsetInBounds'
<1> SUFFICES ASSUME TypeOK, OffsetInBounds, [Next]_vars PROVE OffsetInBounds'
  OBVIOUS
<1>1. CASE UNCHANGED <<transfer, last>>
  BY <1>1 DEF OffsetInBounds, transfer, Padded
<1>2. CASE EndSession
  BY <1>2 DEF OffsetInBounds, EndSession, OTA_DATA_ALIGN
<1>3. ASSUME NEW f \in Frames, Begun(f) PROVE OffsetInBounds'
  <2>1. f.size \in 0 .. WordSize - 1
    BY <1>3, FrameFields, FieldAssumption DEF Begun
  <2>2. f.size # 0 /\ ~(f.size > Capacity)
    BY <1>3 DEF Begun, BeginProblem
  <2>3. f.size \in 1 .. Capacity
    BY <2>1, <2>2, CapacityAssumption
  <2>4. 0 <= Padded(f.size) /\ Padded(f.size) <= Capacity
    BY <2>3, PaddedFits, CapacityAssumption DEF OTA_DATA_ALIGN
  <2>5. Padded(image_size)' = Padded(f.size)
    BY <1>3 DEF Begun, Padded
  <2>6. next_offset' = 0 /\ image_size' = f.size /\ session' = "RECEIVING"
    BY <1>3 DEF Begun
  <2> QED BY <2>3, <2>4, <2>5, <2>6 DEF OffsetInBounds, OTA_DATA_ALIGN
<1>4. ASSUME NEW f \in Frames, Extended(f) PROVE OffsetInBounds'
  <2> DEFINE P == Padded(image_size)
  <2>1. /\ session = "RECEIVING" /\ f.count % OTA_DATA_ALIGN = 0 /\ f.offset = next_offset
        /\ ~(f.count > Minus(P, f.offset, WordSize))
    BY <1>4 DEF Extended, DataProblem
  <2>2. f.count \in 0 .. WordSize - 1 /\ next_offset \in Nat
    <3>1. f.type = "DATA" BY <1>4 DEF Extended
    <3>2. f.count \in Counts BY <1>4, <3>1, FrameFields
    <3>3. f.count \in 0 .. WordSize - 1 BY <3>2, FieldAssumption
    <3>4. next_offset \in 0 .. WordSize - 1 BY DEF TypeOK
    <3>5. WordSize \in Nat BY CapacityAssumption
    <3> QED BY <3>3, <3>4, <3>5
  <2>3. image_size \in 1 .. Capacity /\ next_offset <= P /\ P <= Capacity
        /\ next_offset % OTA_DATA_ALIGN = 0
    BY <2>1 DEF OffsetInBounds
  <2>4. P \in Nat BY <2>3, PaddedFits, CapacityAssumption DEF OTA_DATA_ALIGN
  <2> HIDE DEF P
  <2>5. Minus(P, f.offset, WordSize) = P - next_offset
    BY <2>1, <2>2, <2>3, <2>4 DEF Minus
  <2>6. next_offset + f.count <= P
    BY <2>1, <2>2, <2>4, <2>5
  <2>7. next_offset' = next_offset + f.count
    BY <1>4, <2>2, <2>3, <2>4, <2>6, CapacityAssumption
    DEF Extended, Plus, OTA_DATA_ALIGN
  <2>8. next_offset' % OTA_DATA_ALIGN = 0
    BY <2>1, <2>2, <2>3, <2>7 DEF OTA_DATA_ALIGN
  <2>9. P' = P BY <1>4 DEF P, Extended, Padded
  <2> QED BY <1>4, <2>1, <2>3, <2>6, <2>7, <2>8, <2>9
          DEF OffsetInBounds, Extended, P
<1>5. ASSUME NEW f \in Frames, Committed(f) PROVE OffsetInBounds'
  <2>1. session # "IDLE" BY <1>5 DEF Committed, CommitProblem
  <2> QED BY <1>5, <2>1 DEF Committed, OffsetInBounds, Padded
<1>6. ASSUME NEW f \in Frames, Told(f) \/ Confirmed(f) PROVE OffsetInBounds'
  BY <1>6 DEF Told, Confirmed, OffsetInBounds, transfer, Padded
<1>7. ASSUME NEW f \in Frames, Aborted(f) PROVE OffsetInBounds'
  BY <1>7 DEF Aborted, OffsetInBounds, OTA_DATA_ALIGN
<1> QED BY <1>1, <1>2, <1>3, <1>4, <1>5, <1>6, <1>7, StepEffect

\* The write position stays aligned and inside the announced image and the bank
\* whatever the host sends, so no subtraction of src/Src/ota_update.c:141 wraps.
THEOREM OffsetSafe == Spec => []OffsetInBounds
<1>1. Init => OffsetInBounds
  BY DEF Init, InitSession, OffsetInBounds, OTA_DATA_ALIGN
<1> QED BY <1>1, OffsetStep, Typing, PTL DEF Spec

-----------------------------------------------------------------------------
\* COMMIT finds every byte written, and nothing moves the position after it.
LEMMA WholeStep ==
  TypeOK /\ OffsetInBounds /\ CommittedIsWhole /\ [Next]_vars => CommittedIsWhole'
<1> SUFFICES ASSUME TypeOK, OffsetInBounds, CommittedIsWhole, [Next]_vars
             PROVE  CommittedIsWhole'
  OBVIOUS
<1>1. CASE UNCHANGED <<transfer, last>>
  BY <1>1 DEF CommittedIsWhole, transfer, Padded
<1>2. CASE EndSession
  BY <1>2 DEF CommittedIsWhole, EndSession
<1>3. ASSUME NEW f \in Frames, Begun(f) \/ Aborted(f) PROVE CommittedIsWhole'
  BY <1>3 DEF Begun, Aborted, CommittedIsWhole
<1>4. ASSUME NEW f \in Frames, Extended(f) PROVE CommittedIsWhole'
  BY <1>4 DEF Extended, DataProblem, CommittedIsWhole
<1>5. ASSUME NEW f \in Frames, Committed(f) PROVE CommittedIsWhole'
  <2>1. session = "RECEIVING" /\ image_size <= next_offset
    <3>1. session = "RECEIVING" /\ ~(next_offset < image_size)
      BY <1>5 DEF Committed, CommitProblem
    <3> QED BY <3>1, CapacityAssumption DEF TypeOK, OTA_DATA_ALIGN
  <2>2. /\ image_size \in 1 .. Capacity /\ next_offset <= Padded(image_size)
        /\ next_offset % OTA_DATA_ALIGN = 0 /\ next_offset \in Nat
    BY <2>1, CapacityAssumption DEF OffsetInBounds, TypeOK, OTA_DATA_ALIGN
  <2>3. /\ Padded(image_size) \in image_size .. image_size + 7
        /\ Padded(image_size) % 8 = 0
    BY <2>2, PaddedFits DEF OTA_DATA_ALIGN
  <2>4. next_offset = Padded(image_size)
    BY <2>1, <2>2, <2>3, CapacityAssumption DEF OTA_DATA_ALIGN
  <2> QED BY <1>5, <2>4 DEF Committed, CommittedIsWhole, Padded
<1>6. ASSUME NEW f \in Frames, Told(f) \/ Confirmed(f) PROVE CommittedIsWhole'
  BY <1>6 DEF Told, Confirmed, CommittedIsWhole, transfer, Padded
<1> QED BY <1>1, <1>2, <1>3, <1>4, <1>5, <1>6, StepEffect

\* The bank is selected only behind an image that was programmed to its last
\* padded byte: on_commit() compares with the unpadded size, and the alignment
\* of next_offset does the rest.
THEOREM CommitIsWhole == Spec => []CommittedIsWhole
<1>1. Init => CommittedIsWhole
  BY DEF Init, InitSession, CommittedIsWhole
<1> QED BY <1>1, WholeStep, OffsetSafe, Typing, PTL DEF Spec

-----------------------------------------------------------------------------
\* Every step that ends what an answer spoke of forgets the answer.
LEMMA RememberedStep ==
  /\ TypeOK /\ OffsetInBounds /\ RememberedAnswerHolds /\ [Next]_vars
  => RememberedAnswerHolds'
<1> SUFFICES ASSUME TypeOK, OffsetInBounds, RememberedAnswerHolds, [Next]_vars
             PROVE  RememberedAnswerHolds'
  OBVIOUS
<1>1. CASE UNCHANGED <<transfer, last>>
  BY <1>1 DEF RememberedAnswerHolds, transfer
<1>2. CASE EndSession
  BY <1>2 DEF EndSession, RememberedAnswerHolds, NoLast
<1>3. ASSUME NEW f \in Frames, Begun(f) PROVE RememberedAnswerHolds'
  BY <1>3 DEF Begun, RememberedAnswerHolds
<1>4. ASSUME NEW f \in Frames, Extended(f) PROVE RememberedAnswerHolds'
  <2>1. session = "RECEIVING" /\ f.count # 0 /\ f.offset = next_offset
        /\ ~(f.count > Minus(Padded(image_size), next_offset, WordSize))
    BY <1>4 DEF Extended, DataProblem
  <2>2. f.count \in 0 .. WordSize - 1 /\ next_offset \in Nat /\ WordSize \in Nat
    <3>1. f.type = "DATA" BY <1>4 DEF Extended
    <3>2. f.count \in Counts BY <1>4, <3>1, FrameFields
    <3>3. f.count \in 0 .. WordSize - 1 BY <3>2, FieldAssumption
    <3>4. next_offset \in 0 .. WordSize - 1 BY DEF TypeOK
    <3>5. WordSize \in Nat BY CapacityAssumption
    <3> QED BY <3>3, <3>4, <3>5
  <2>3. /\ image_size \in 1 .. Capacity /\ next_offset <= Padded(image_size)
        /\ Padded(image_size) <= Capacity
    BY <2>1 DEF OffsetInBounds
  <2>4. Padded(image_size) \in Nat
    BY <2>3, PaddedFits, CapacityAssumption DEF OTA_DATA_ALIGN
  <2>5. Minus(Padded(image_size), next_offset, WordSize) = Padded(image_size) - next_offset
    BY <2>2, <2>3, <2>4 DEF Minus
  <2>6. next_offset + f.count <= Padded(image_size)
    BY <2>1, <2>2, <2>4, <2>5
  <2>7. next_offset' = next_offset + f.count
    BY <1>4, <2>2, <2>3, <2>4, <2>6, CapacityAssumption
    DEF Extended, Plus, OTA_DATA_ALIGN
  <2>8. next_offset' > 0 BY <2>1, <2>2, <2>7
  <2> QED BY <1>4, <2>1, <2>8 DEF Extended, RememberedAnswerHolds
<1>5. ASSUME NEW f \in Frames, Committed(f) PROVE RememberedAnswerHolds'
  BY <1>5 DEF Committed, RememberedAnswerHolds
<1>6. ASSUME NEW f \in Frames, Told(f) PROVE RememberedAnswerHolds'
  BY <1>6 DEF Told, RememberedAnswerHolds
<1>7. ASSUME NEW f \in Frames, Confirmed(f) PROVE RememberedAnswerHolds'
  BY <1>7 DEF Confirmed, ConfirmProblem, RememberedAnswerHolds, transfer
<1>8. ASSUME NEW f \in Frames, Aborted(f) PROVE RememberedAnswerHolds'
  BY <1>8 DEF Aborted, RememberedAnswerHolds
<1> QED BY <1>1, <1>2, <1>3, <1>4, <1>5, <1>6, <1>7, <1>8, StepEffect

\* An answer repeated from memory is still true: end_session() forgets, and
\* every handler that moves the session on replaces what is kept.
THEOREM RememberedAnswersHold == Spec => []RememberedAnswerHolds
<1>1. Init => RememberedAnswerHolds
  BY DEF Init, InitSession, RememberedAnswerHolds, NoLast
<1> QED BY <1>1, RememberedStep, OffsetSafe, Typing, PTL DEF Spec

-----------------------------------------------------------------------------
\* A step that keeps a session open, or opens one, has answered, or it is the
\* loop or the clock.
LEMMA AnswerResets ==
  ASSUME NEW f \in Frames, NEW io \in Ios, OnFrame(f, io), session' = "RECEIVING"
  PROVE  last_answer_ms' = now /\ silent' = 0
BY DEF OnFrame, Dispatch, OnInfoReq, OnBegin, OnData, OnCommit, OnConfirm, OnAbort,
       Refuse, FailWith, Ack, Nak, Keep, Send

\* The wrapping clock and the true silence advance together.
LEMMA SilenceStep == TypeOK /\ SilenceMeasured /\ [Next]_vars => SilenceMeasured'
<1> SUFFICES ASSUME TypeOK, SilenceMeasured, [Next]_vars, InSession'
             PROVE  /\ Minus(now, last_answer_ms, ClockSize)' = silent'
                    /\ silent' < Silence + unpolled'
  BY DEF SilenceMeasured
<1> USE ClockAssumption
<1>a. /\ now \in 0 .. ClockSize - 1 /\ last_answer_ms \in 0 .. ClockSize - 1
      /\ silent \in Nat /\ unpolled \in 0 .. MaxPass
  BY DEF TypeOK
<1>1. ASSUME NEW f \in Frames, NEW io \in Ios, OnFrame(f, io)
      PROVE  /\ Minus(now, last_answer_ms, ClockSize)' = silent'
             /\ silent' < Silence + unpolled'
  <2>1. last_answer_ms' = now /\ silent' = 0
    BY <1>1, AnswerResets DEF InSession
  <2>2. now' = now /\ unpolled' = unpolled BY <1>1 DEF OnFrame
  <2> QED BY <1>a, <2>1, <2>2 DEF Minus
<1>2. ASSUME NEW seq \in Seqs, OnDamagedFrame(seq)
      PROVE  /\ Minus(now, last_answer_ms, ClockSize)' = silent'
             /\ silent' < Silence + unpolled'
  <2>1. last_answer_ms' = now /\ silent' = 0 /\ now' = now /\ unpolled' = unpolled
    BY <1>2 DEF OnDamagedFrame, Nak, Send, InSession, transfer
  <2> QED BY <1>a, <2>1 DEF Minus
<1>3. CASE Tick
  <2>1. /\ now' = now /\ last_answer_ms' = last_answer_ms /\ silent' = silent
        /\ unpolled' = 0
    BY <1>3 DEF Tick
  <2>2. InSession /\ ~(Minus(now, last_answer_ms, ClockSize) >= Silence)
    BY <1>3 DEF Tick, EndSession, InSession, transfer
  <2>3. Minus(now, last_answer_ms, ClockSize) = silent
    BY <2>2 DEF SilenceMeasured
  <2> QED BY <1>a, <2>1, <2>2, <2>3 DEF Minus
<1>4. CASE Elapse
  <2>1. InSession BY <1>4 DEF Elapse, InSession, transfer
  <2>2. /\ silent' = silent + 1 /\ unpolled' = unpolled + 1 /\ unpolled < MaxPass
        /\ now' = Plus(now, 1, ClockSize) /\ last_answer_ms' = last_answer_ms
    BY <1>4, <2>1 DEF Elapse
  <2>3. Minus(now, last_answer_ms, ClockSize) = silent /\ silent < Silence + unpolled
    BY <2>1 DEF SilenceMeasured
  <2> QED BY <1>a, <2>2, <2>3 DEF Minus, Plus
<1>5. CASE UNCHANGED vars
  BY <1>5 DEF vars, transfer, clock, SilenceMeasured, InSession, Minus
<1> QED BY <1>1, <1>2, <1>3, <1>4, <1>5 DEF Next, Hear

\* ota_update_tick() measures the true silence for every clock width, and no
\* session outlives it by more than one pass of the loop.
THEOREM SilenceIsMeasured == Spec => []SilenceMeasured
<1>1. Init => SilenceMeasured
  BY DEF Init, InitSession, SilenceMeasured, InSession
<1> QED BY <1>1, SilenceStep, Typing, PTL DEF Spec

\* The timeout never comes early: a session that ends without an answer had
\* waited the whole limit.
THEOREM TimeoutNotEarly == Spec => SilentEndNeedsSilence
<1> DEFINE A == session = "RECEIVING" /\ session' = "IDLE" /\ wire' = NoAnswer
                  => silent >= Silence
<1>1. SilenceMeasured /\ TypeOK /\ [Next]_vars => [A]_vars
  <2> SUFFICES ASSUME SilenceMeasured, TypeOK, Next, session = "RECEIVING",
                      session' = "IDLE", wire' = NoAnswer
               PROVE  silent >= Silence
    BY DEF vars
  <2>1. ASSUME NEW f \in Frames, NEW io \in Ios, OnFrame(f, io) PROVE FALSE
    <3>1. wire'.type # "none"
      BY <2>1 DEF OnFrame, Dispatch, OnInfoReq, OnBegin, OnData, OnCommit, OnConfirm,
         OnAbort, Refuse, FailWith, Ack, Nak, Keep, Send, IsRepeat, TypeOK, Memories,
         KeptAnswers
    <3> QED BY <3>1 DEF NoAnswer
  <2>2. ASSUME NEW seq \in Seqs, OnDamagedFrame(seq) PROVE FALSE
    BY <2>2 DEF OnDamagedFrame, transfer
  <2>3. CASE Tick
    BY <2>3 DEF Tick, SilenceMeasured, InSession, transfer
  <2>4. CASE Elapse BY <2>4 DEF Elapse, transfer
  <2> QED BY <2>1, <2>2, <2>3, <2>4 DEF Next, Hear
<1> QED BY <1>1, SilenceIsMeasured, Typing, PTL DEF Spec, SilentEndNeedsSilence

-----------------------------------------------------------------------------
\* After the bank is selected nothing erases, programs or selects again and no
\* step leaves COMMITTED, whatever the host sends and however long it waits.
THEOREM CommitIsFinal == Spec => CommittedIsFinal
<1> DEFINE A == session = "COMMITTED" => session' = "COMMITTED" /\ calls' = {}
<1>1. [Next]_vars => [A]_vars
  <2> SUFFICES ASSUME Next, session = "COMMITTED"
               PROVE  session' = "COMMITTED" /\ calls' = {}
    BY DEF vars
  <2>1. ASSUME NEW f \in Frames, NEW io \in Ios, OnFrame(f, io)
        PROVE  session' = "COMMITTED" /\ calls' = {}
    BY <2>1 DEF OnFrame, Dispatch, OnInfoReq, OnBegin, OnData, OnCommit, OnConfirm,
       OnAbort, BeginProblem, DataProblem, CommitProblem, ConfirmProblem, AbortProblem,
       Refuse, transfer
  <2>2. ASSUME NEW seq \in Seqs, OnDamagedFrame(seq)
        PROVE  session' = "COMMITTED" /\ calls' = {}
    BY <2>2 DEF OnDamagedFrame, transfer
  <2>3. CASE Tick BY <2>3 DEF Tick, InSession, transfer
  <2>4. CASE Elapse BY <2>4 DEF Elapse, transfer
  <2> QED BY <2>1, <2>2, <2>3, <2>4 DEF Next, Hear
<1> QED BY <1>1, PTL DEF Spec, CommittedIsFinal

-----------------------------------------------------------------------------
\* The contents of a bank, by themselves: an image and its record, and an image
\* of which an interrupted erase has taken a part.
Carries(cells, i) == \A k \in 1 .. Len(i.words) : Reads(cells[k - 1], k, i)
Worn(cells, i) ==
  \A k \in 1 .. Len(i.words) : Reads(cells[k - 1], k, i) \/ cells[k - 1] = Erased
Stamped(cells) ==
  \E i \in Images :
    Carries(cells, i) /\ cells[RecordCell] = RecordOf(CrcOf(i.words))

-----------------------------------------------------------------------------
(***************************************************************************)
(* The invariants, in the order in which they are proved.                  *)
(***************************************************************************)
Modes == {"booting", "loop", "launching", "hung", "dead"}

BoardTypeOK ==
  /\ TypeOK /\ OffsetInBounds
  /\ bank \in [Banks -> [Cells -> Words]] /\ asked \in [Banks -> BOOLEAN]
  /\ boot_bank \in Banks /\ running \in Banks /\ mode \in Modes
  /\ wdg_flag \in BOOLEAN /\ watched \in BOOLEAN

\* What the processor may be doing says where the option bytes point, what the
\* session is at, and whose fault a hang is.
Control ==
  /\ mode \in {"booting", "loop"} => boot_bank = running /\ Whole(running)
  /\ mode = "booting" => session = "IDLE" /\ ~watched
  /\ mode \in {"loop", "launching"} => ~wdg_flag
  /\ session = "COMMITTED" => mode \in {"launching", "hung"}
  /\ boot_bank # running => session = "COMMITTED" \/ ~watched
  /\ boot_bank # running => mode \in {"launching", "hung"}
  /\ mode = "hung" => blame = boot_bank
  /\ mode = "booting" /\ wdg_flag => blame = boot_bank

\* A record page that is neither empty nor torn stands beside what is left of one
\* image, and is that image's own only if it was asked for.
RecordsTell ==
  \A b \in Banks :
    bank[b][RecordCell] \notin {Erased, Torn} =>
      \E i \in Images :
        /\ Worn(bank[b], i)
        /\ bank[b][RecordCell] = RecordOf(CrcOf(i.words)) => asked[b]

\* An open session has the size and the checksum of a released image.
Announced ==
  session # "IDLE" =>
    \E i \in Images : i.size = image_size /\ CrcOf(i.words) = image_crc32

-----------------------------------------------------------------------------
\* The record page comes after the cells of every image.
LEMMA RecordIsLast ==
  /\ RecordCell \in Nat /\ RecordCell * OTA_DATA_ALIGN = Capacity
  /\ \A i \in Images : /\ Len(i.words) \in 1 .. RecordCell
                       /\ Len(i.words) = Padded(i.size) \div OTA_DATA_ALIGN
                       /\ i.words \in [1 .. Len(i.words) -> Words]
<1>1. RecordCell \in Nat /\ RecordCell * OTA_DATA_ALIGN = Capacity
  BY CapacityAssumption DEF RecordCell, OTA_DATA_ALIGN
<1>2. ASSUME NEW i \in Images
      PROVE  /\ Len(i.words) \in 1 .. RecordCell
             /\ Len(i.words) = Padded(i.size) \div OTA_DATA_ALIGN
             /\ i.words \in [1 .. Len(i.words) -> Words]
  <2>1. /\ i.size \in 1 .. Capacity /\ i.words \in Seq(Words)
        /\ OTA_DATA_ALIGN * Len(i.words) = Padded(i.size)
    BY ImageAssumption
  <2>2. Padded(i.size) \in i.size .. i.size + 7 /\ Padded(i.size) <= Capacity
    BY <2>1, PaddedFits DEF OTA_DATA_ALIGN
  <2>3. Len(i.words) \in Nat /\ i.words \in [1 .. Len(i.words) -> Words]
    BY <2>1
  <2> QED BY <1>1, <2>1, <2>2, <2>3, CapacityAssumption DEF OTA_DATA_ALIGN
<1> QED BY <1>1, <1>2

\* A double word the image fills is one of its words.
LEMMA WholeWords ==
  ASSUME NEW i \in Images, NEW n \in Nat, NEW k \in 1 .. n, OTA_DATA_ALIGN * k <= i.size
  PROVE  k \in 1 .. Len(i.words)
<1>1. /\ i.size \in 1 .. Capacity /\ OTA_DATA_ALIGN * Len(i.words) = Padded(i.size)
      /\ Len(i.words) \in Nat
  BY ImageAssumption
<1>2. Padded(i.size) \in i.size .. i.size + 7 BY <1>1, PaddedFits DEF OTA_DATA_ALIGN
<1> QED BY <1>1, <1>2 DEF OTA_DATA_ALIGN

\* What is left of one image is no other image.
LEMMA WornIsNoOther ==
  ASSUME NEW cells, NEW i \in Images, NEW j \in Images, Worn(cells, i), Carries(cells, j)
  PROVE  i = j
<1> SUFFICES ASSUME i # j PROVE FALSE OBVIOUS
<1>1. i.size \in Nat /\ j.size \in Nat
  BY ImageAssumption, CapacityAssumption
<1>2. CASE i.size <= j.size
  <2>1. PICK k \in 1 .. Len(i.words) :
          /\ OTA_DATA_ALIGN * k <= j.size /\ j.words[k] # Erased
          /\ ~Reads(j.words[k], k, i) /\ ~Reads(Erased, k, i)
    BY <1>2, ApartAssumption
  <2>2. k \in 1 .. Len(j.words) BY <1>2, <2>1, WholeWords
  <2>3. cells[k - 1] = j.words[k] BY <2>1, <2>2 DEF Carries, Reads
  <2> QED BY <2>1, <2>3 DEF Worn
<1>3. CASE j.size <= i.size
  <2>1. PICK k \in 1 .. Len(j.words) :
          /\ OTA_DATA_ALIGN * k <= i.size /\ i.words[k] # Erased
          /\ ~Reads(i.words[k], k, j) /\ ~Reads(Erased, k, j)
    BY <1>3, ApartAssumption
  <2>2. k \in 1 .. Len(i.words) BY <1>3, <2>1, WholeWords
  <2>3. cells[k - 1] = i.words[k] \/ cells[k - 1] = Erased
    BY <2>1, <2>2 DEF Worn, Reads
  <2> QED BY <2>1, <2>3 DEF Carries
<1> QED BY <1>1, <1>2, <1>3

\* A bank holds one image at most.
LEMMA OneImage ==
  ASSUME NEW cells, NEW i \in Images, NEW j \in Images,
         Carries(cells, i), Carries(cells, j)
  PROVE  i = j
BY WornIsNoOther DEF Carries, Worn

\* running_identity() finds the image that is there.
LEMMA ImageFound ==
  ASSUME NEW b \in Banks, NEW i \in Images, Carries(bank[b], i)
  PROVE  ImageIn(b) = i
<1>1. \E j \in Images : Holds(b, j) BY DEF Holds, Carries
<1>2. ImageIn(b) \in Images /\ Holds(b, ImageIn(b)) BY <1>1 DEF ImageIn
<1> QED BY <1>2, OneImage DEF Holds, Carries

LEMMA WholeMeans ==
  \A b \in Banks : Whole(b) <=> \E i \in Images : Carries(bank[b], i)
BY DEF Whole, Holds, Carries

LEMMA ConfirmsMeans == \A b \in Banks : Confirms(b) <=> Stamped(bank[b])
<1> TAKE b \in Banks
<1>1. ASSUME Confirms(b) PROVE Stamped(bank[b])
  <2>1. PICK i \in Images : Carries(bank[b], i)
    BY <1>1, WholeMeans DEF Confirms
  <2> QED BY <1>1, <2>1, ImageFound DEF Confirms, Stamped, Identity
<1>2. ASSUME Stamped(bank[b]) PROVE Confirms(b)
  <2>1. PICK i \in Images :
          Carries(bank[b], i) /\ bank[b][RecordCell] = RecordOf(CrcOf(i.words))
    BY <1>2 DEF Stamped
  <2> QED BY <2>1, ImageFound, WholeMeans DEF Confirms, Identity
<1> QED BY <1>1, <1>2

\* The same of the state a step leads to.
LEMMA MeansNext ==
  \A b \in Banks : /\ Whole(b)' <=> \E i \in Images : Carries(bank'[b], i)
                   /\ Confirms(b)' <=> Stamped(bank'[b])
<1>1. (\A b \in Banks : Whole(b) <=> \E i \in Images : Carries(bank[b], i))'
  BY WholeMeans, PTL
<1>2. (\A b \in Banks : Confirms(b) <=> Stamped(bank[b]))'
  BY ConfirmsMeans, PTL
<1> QED BY <1>1, <1>2 DEF Carries, Stamped

\* Nothing but its record page says whether a bank still carries an image.
LEMMA SameImages ==
  ASSUME NEW cells, NEW others,
         \A c \in Cells \ {RecordCell} : others[c] = cells[c]
  PROVE  \A i \in Images : Carries(others, i) <=> Carries(cells, i)
<1> TAKE i \in Images
<1>1. \A k \in 1 .. Len(i.words) : k - 1 \in Cells \ {RecordCell}
  BY RecordIsLast DEF Cells
<1> QED BY <1>1 DEF Carries

-----------------------------------------------------------------------------
(***************************************************************************)
(* What the operations of flash.c leave alone.                             *)
(***************************************************************************)
SameBank(b) == bank'[b] = bank[b] /\ asked'[b] = asked[b]

FlashTyped ==
  bank \in [Banks -> [Cells -> Words]] /\ asked \in [Banks -> BOOLEAN]

\* Work on the spare bank: the running bank is what it was, and the spare record
\* page is what it was or empty.
SpareWorked ==
  /\ FlashTyped' /\ SameBank(running)
  /\ \/ /\ bank'[Spare][RecordCell] = bank[Spare][RecordCell]
        /\ asked'[Spare] = asked[Spare]
     \/ bank'[Spare][RecordCell] = Erased

\* Nothing new stands in the spare bank, or a session wrote there, which leaves the
\* record page alone.
SpareCleared == \A c \in Cells : bank'[Spare][c] \in {bank[Spare][c], Erased}
SpareWritten == InSession /\ bank'[Spare][RecordCell] = bank[Spare][RecordCell]

LEMMA TwoBanks ==
  ASSUME running \in Banks
  PROVE  /\ Spare \in Banks /\ Spare # running /\ 3 - Spare = running
         /\ Banks = {running, Spare}
BY DEF Banks, Spare

\* An erase that succeeds leaves nothing, and one that fails may leave anything
\* that was there.
LEMMA EraseWorks ==
  ASSUME FlashTyped, running \in Banks, NEW result, EraseSpare(result)
  PROVE  /\ SpareWorked /\ SpareCleared
         /\ result = "OK" => \A c \in Cells : bank'[Spare][c] = Erased
<1>1. PICK gone \in SUBSET Cells :
        /\ result = "OK" => gone = Cells
        /\ bank' = [bank EXCEPT ![Spare] =
                      [c \in Cells |-> IF c \in gone THEN Erased ELSE @[c]]]
        /\ asked' = IF gone = Cells THEN [asked EXCEPT ![Spare] = FALSE] ELSE asked
  BY DEF EraseSpare
<1>2. /\ bank'[running] = bank[running]
      /\ \A c \in Cells :
           bank'[Spare][c] = IF c \in gone THEN Erased ELSE bank[Spare][c]
      /\ bank'[Spare] \in [Cells -> Words]
      /\ bank' \in [Banks -> [Cells -> Words]]
  BY <1>1, TwoBanks, ImageAssumption DEF FlashTyped
<1>3. /\ asked' \in [Banks -> BOOLEAN] /\ asked'[running] = asked[running]
      /\ gone # Cells => asked' = asked
  BY <1>1, TwoBanks DEF FlashTyped
<1>4. RecordCell \in Cells BY RecordIsLast DEF Cells
<1> QED BY <1>1, <1>2, <1>3, <1>4 DEF SpareWorked, SpareCleared, SameBank, FlashTyped

\* Programming writes the double words it was given, or some of them: never the
\* record page, and nothing behind them.
LEMMA ProgramWorks ==
  ASSUME FlashTyped, running \in Banks, NEW data \in Payloads, NEW result \in Results,
         NEW offset \in Nat, ProgramSpare(offset, data, result)
  PROVE  /\ SpareWorked /\ asked' = asked
         /\ bank'[Spare][RecordCell] = bank[Spare][RecordCell]
         /\ result = "OK" =>
              \A c \in Cells : OTA_DATA_ALIGN * c >= offset + OTA_DATA_ALIGN * Len(data)
                               => bank'[Spare][c] = bank[Spare][c]
<1> DEFINE first == offset \div OTA_DATA_ALIGN
           Written(done) == [c \in Cells |->
             IF c \in first .. first + done - 1 THEN data[c - first + 1]
             ELSE bank[Spare][c]]
<1>a. data \in Seq(Words) /\ Len(data) \in Nat BY HostAssumption
<1>b. RecordCell \in Cells /\ RecordCell \in Nat BY RecordIsLast DEF Cells
<1>1. CASE UNCHANGED <<bank, asked>>
  BY <1>1 DEF SpareWorked, SameBank, FlashTyped
<1>2. ASSUME NEW done \in 0 .. Len(data),
             offset % OTA_DATA_ALIGN = 0,
             offset + OTA_DATA_ALIGN * Len(data) <= Capacity,
             UNCHANGED asked,
             result = "OK" <=> done = Len(data),
             \/ bank' = [bank EXCEPT ![Spare] = Written(done)]
             \/ /\ result = "FAILED"
                /\ bank' = [bank EXCEPT ![Spare] =
                              [Written(done) EXCEPT ![first + done] = Torn]]
      PROVE  /\ SpareWorked /\ asked' = asked
             /\ bank'[Spare][RecordCell] = bank[Spare][RecordCell]
             /\ result = "OK" =>
                  \A c \in Cells :
                    OTA_DATA_ALIGN * c >= offset + OTA_DATA_ALIGN * Len(data)
                      => bank'[Spare][c] = bank[Spare][c]
  <2>1. first \in Nat /\ offset = OTA_DATA_ALIGN * first
    BY <1>2 DEF OTA_DATA_ALIGN
  <2>2. first + Len(data) <= RecordCell
    BY <1>2, <1>a, <1>b, <2>1, RecordIsLast, CapacityAssumption DEF OTA_DATA_ALIGN
  <2> HIDE DEF first
  <2>3. Written(done) \in [Cells -> Words]
    <3>1. ASSUME NEW c \in Cells, c \in first .. first + done - 1
          PROVE  data[c - first + 1] \in Words
      <4>1. c - first + 1 \in 1 .. Len(data) BY <3>1, <2>1, <1>2, <1>a DEF Cells
      <4> QED BY <4>1, <1>a
    <3>2. bank[Spare] \in [Cells -> Words] BY TwoBanks DEF FlashTyped
    <3> QED BY <3>1, <3>2
  <2>4. Written(done)[RecordCell] = bank[Spare][RecordCell]
    BY <1>b, <1>2, <1>a, <2>1, <2>2
  <2>5. CASE bank' = [bank EXCEPT ![Spare] = Written(done)]
    <3>1. bank'[Spare] = Written(done) /\ bank'[running] = bank[running]
      BY <2>5, TwoBanks DEF FlashTyped
    <3>2. bank' \in [Banks -> [Cells -> Words]]
      BY <2>5, <2>3, TwoBanks DEF FlashTyped
    <3>3. ASSUME result = "OK", NEW c \in Cells,
                 OTA_DATA_ALIGN * c >= offset + OTA_DATA_ALIGN * Len(data)
          PROVE  bank'[Spare][c] = bank[Spare][c]
      <4>1. c >= first + Len(data) /\ c \in Nat
        BY <3>3, <2>1, <1>a, <1>b DEF OTA_DATA_ALIGN, Cells
      <4>2. ~(c \in first .. first + done - 1) BY <4>1, <1>2, <3>3, <2>1, <1>a
      <4> QED BY <4>2, <3>1
    <3> QED BY <1>2, <2>4, <3>1, <3>2, <3>3 DEF SpareWorked, SameBank, FlashTyped
  <2>6. CASE /\ result = "FAILED"
             /\ bank' = [bank EXCEPT ![Spare] =
                           [Written(done) EXCEPT ![first + done] = Torn]]
    <3>1. /\ bank'[Spare] = [Written(done) EXCEPT ![first + done] = Torn]
          /\ bank'[running] = bank[running]
      BY <2>6, TwoBanks DEF FlashTyped
    <3>2. [Written(done) EXCEPT ![first + done] = Torn] \in [Cells -> Words]
      BY <2>3, ImageAssumption
    <3>3. bank' \in [Banks -> [Cells -> Words]]
      BY <2>6, <3>2, TwoBanks DEF FlashTyped
    <3>4. first + done # RecordCell BY <1>2, <1>a, <1>b, <2>1, <2>2, <2>6
    <3>5. bank'[Spare][RecordCell] = bank[Spare][RecordCell]
      BY <3>1, <3>4, <2>4, <2>3, <1>b
    <3> QED BY <1>2, <2>6, <3>1, <3>3, <3>5 DEF SpareWorked, SameBank, FlashTyped
  <2> QED BY <1>2, <2>5, <2>6
<1>3. CASE ~UNCHANGED <<bank, asked>>
  <2>1. /\ UNCHANGED asked /\ offset % OTA_DATA_ALIGN = 0
        /\ ~(offset + OTA_DATA_ALIGN * Len(data) > Capacity)
    BY <1>3 DEF ProgramSpare
  <2>2. offset + OTA_DATA_ALIGN * Len(data) <= Capacity
    BY <2>1, <1>a, CapacityAssumption DEF OTA_DATA_ALIGN
  <2>3. PICK done \in 0 .. Len(data) :
          /\ result = "OK" <=> done = Len(data)
          /\ \/ bank' = [bank EXCEPT ![Spare] = Written(done)]
             \/ /\ result = "FAILED"
                /\ bank' = [bank EXCEPT ![Spare] =
                              [Written(done) EXCEPT ![first + done] = Torn]]
    BY <1>3 DEF ProgramSpare
  <2> QED BY <2>1, <2>2, <2>3, <1>2
<1> QED BY <1>1, <1>3

\* Writing the record touches the record page of the running bank and nothing
\* else.  It confirms when it succeeds, and a failure changes nothing that counts.
RecordWorked(result) ==
  /\ FlashTyped' /\ SameBank(Spare) /\ asked'[running] = TRUE
  /\ \A c \in Cells \ {RecordCell} : bank'[running][c] = bank[running][c]
  /\ result = "OK" => Stamped(bank'[running])
  /\ result # "OK" => (Stamped(bank'[running]) <=> Stamped(bank[running]))

LEMMA RecordWorks ==
  ASSUME FlashTyped, running \in Banks, Whole(running), NEW result \in Results,
         WriteRecord(result)
  PROVE  RecordWorked(result)
<1> DEFINE wanted == RecordOf(Identity(running))
           found == bank[running][RecordCell]
<1>1. PICK i \in Images : Carries(bank[running], i) BY WholeMeans
<1>2. wanted = RecordOf(CrcOf(i.words)) /\ wanted \in Words \ {Erased, Torn}
  BY <1>1, ImageFound, ImageAssumption DEF Identity
<1>a. RecordCell \in Cells BY RecordIsLast DEF Cells
<1> HIDE DEF wanted
<1>3. /\ asked' \in [Banks -> BOOLEAN] /\ asked'[Spare] = asked[Spare]
      /\ asked'[running] = TRUE
  BY TwoBanks DEF WriteRecord, FlashTyped
<1>4. \/ found = wanted /\ result = "OK" /\ UNCHANGED bank
      \/ found \notin {wanted, Erased} /\ result = "FAILED" /\ UNCHANGED bank
      \/ /\ found = Erased
         /\ \E w \in IF result = "OK" THEN {wanted} ELSE {Torn, Erased} :
              bank' = [bank EXCEPT ![running][RecordCell] = w]
  BY DEF WriteRecord, wanted
<1>5. CASE UNCHANGED bank
  <2>1. result = "OK" => found = wanted
    BY <1>2, <1>4, <1>5, <1>a, TwoBanks, ImageAssumption DEF FlashTyped
  <2>2. result = "OK" => Stamped(bank'[running])
    BY <2>1, <1>1, <1>2, <1>5 DEF Stamped
  <2> QED BY <1>3, <1>5, <2>2 DEF RecordWorked, SameBank, FlashTyped
<1>6. ASSUME found = Erased,
             NEW w \in IF result = "OK" THEN {wanted} ELSE {Torn, Erased},
             bank' = [bank EXCEPT ![running][RecordCell] = w]
      PROVE  RecordWorked(result)
  <2>1. w \in Words BY <1>2, ImageAssumption
  <2>2. /\ bank' \in [Banks -> [Cells -> Words]] /\ bank'[Spare] = bank[Spare]
        /\ bank'[running][RecordCell] = w
        /\ \A c \in Cells \ {RecordCell} : bank'[running][c] = bank[running][c]
    BY <1>6, <2>1, <1>a, TwoBanks DEF FlashTyped
  <2>3. Carries(bank'[running], i) BY <1>1, <2>2, SameImages
  <2>4. result = "OK" => Stamped(bank'[running])
    BY <1>2, <1>6, <2>2, <2>3 DEF Stamped
  <2>5. result # "OK" => ~Stamped(bank'[running])
    BY <1>6, <2>2, ImageAssumption DEF Stamped
  <2>6. ~Stamped(bank[running]) BY <1>6, ImageAssumption DEF Stamped
  <2> QED BY <1>3, <2>2, <2>4, <2>5, <2>6 DEF RecordWorked, SameBank, FlashTyped
<1> QED BY <1>4, <1>5, <1>6

-----------------------------------------------------------------------------
(***************************************************************************)
(* What one frame can do to the board: nothing to its flash, or one of the *)
(* steps below.                                                            *)
(***************************************************************************)
Quietly ==
  /\ UNCHANGED <<flash, mode>>
  /\ \/ UNCHANGED <<transfer, last>>
     \/ session # "COMMITTED" /\ session' = "IDLE" /\ last'.type \in {"none", "ABORT"}
     \/ /\ last'.type = "INFO_REQ" /\ last'.answer.state = ImageState
        /\ UNCHANGED transfer
     \/ last'.type = "CONFIRM" /\ UNCHANGED transfer

OpensSession(i) ==
  /\ EraseSpare("OK") /\ UNCHANGED <<boot_bank, mode>>
  /\ session # "COMMITTED" /\ session' = "RECEIVING" /\ last'.type = "BEGIN"
  /\ next_offset' = 0 /\ image_size' = i.size /\ image_crc32' = CrcOf(i.words)

FailsToErase ==
  /\ EraseSpare("FAILED") /\ UNCHANGED <<boot_bank, mode>>
  /\ session # "COMMITTED" /\ session' = "IDLE" /\ last'.type = "none"

Programs(data) ==
  /\ ProgramSpare(next_offset, data, "OK") /\ UNCHANGED <<boot_bank, mode>>
  /\ session = "RECEIVING" /\ last'.type = "DATA"
  /\ next_offset' = Plus(next_offset, OTA_DATA_ALIGN * Len(data), WordSize)
  /\ OTA_DATA_ALIGN * Len(data) <= Minus(Padded(image_size), next_offset, WordSize)
  /\ UNCHANGED <<session, image_size, image_crc32>>

FailsToProgram(data) ==
  /\ ProgramSpare(next_offset, data, "FAILED") /\ UNCHANGED <<boot_bank, mode>>
  /\ session = "RECEIVING" /\ session' = "IDLE" /\ last'.type = "none"

Commits ==
  /\ boot_bank = running /\ boot_bank' = Spare
  /\ mode' = "launching" /\ UNCHANGED <<bank, asked>>
  /\ session = "RECEIVING" /\ session' = "COMMITTED" /\ last'.type = "COMMIT"
  /\ CrcOfBank(Spare, image_size) = image_crc32
  /\ UNCHANGED <<image_size, image_crc32, next_offset>>

Records(result) ==
  /\ WriteRecord(result) /\ UNCHANGED <<boot_bank, mode>>
  /\ session = "IDLE" /\ ImageState = "TRIAL" /\ UNCHANGED transfer
  /\ \/ last'.type = "CONFIRM"
     \/ result # "OK" /\ UNCHANGED last

FrameKinds ==
  \/ Quietly
  \/ \E i \in Images : OpensSession(i)
  \/ FailsToErase
  \/ \E data \in Payloads : Programs(data) \/ FailsToProgram(data)
  \/ Commits
  \/ \E result \in Results : Records(result)

FrameStep ==
  /\ mode = "loop" /\ FrameKinds
  /\ UNCHANGED <<running, wdg_flag, watched, blame, cuts>>

\* An answer repeated, a message refused: the port is not called.
LEMMA NoCalls ==
  ASSUME NEW data, NEW result, calls' = {}, PortEffect(data, result),
         mode' = IF "reset" \in calls' THEN "launching" ELSE mode
  PROVE  UNCHANGED <<flash, mode>>
BY DEF PortEffect, flash

LEMMA CommandKinds ==
  ASSUME NEW type \in {"INFO_REQ", "COMMIT", "CONFIRM", "ABORT"}, NEW seq \in Seqs,
         BoardTypeOK, Control, Handle(Command(type, seq), <<>>)
  PROVE  FrameStep
<1> DEFINE f == Command(type, seq)
<1>1. PICK result \in Results : OnFrame(f, Io(result)) /\ PortEffect(<<>>, result)
  BY DEF Handle
<1>2. /\ mode = "loop" /\ UNCHANGED <<running, wdg_flag, watched, blame, cuts>>
      /\ mode' = IF "reset" \in calls' THEN "launching" ELSE mode
  BY DEF Handle
<1>3. f.type = type /\ f.shaped /\ f.seq = seq BY DEF Command
<1> HIDE DEF f
<1>4. CASE calls' = {} /\ UNCHANGED <<transfer, last>>
  BY <1>1, <1>2, <1>4, NoCalls DEF FrameStep, FrameKinds, Quietly
<1>5. ASSUME ~IsRepeat(f), type = "INFO_REQ" PROVE FrameStep
  <2>1. \/ calls' = {} /\ UNCHANGED <<transfer, last>>
        \/ /\ last'.type = "INFO_REQ" /\ last'.answer.state = ImageState
           /\ calls' = {} /\ UNCHANGED transfer
    BY <1>1, <1>3, <1>5 DEF OnFrame, Dispatch, OnInfoReq, Refuse, Keep, Io
  <2> QED BY <1>1, <1>2, <1>4, <2>1, NoCalls DEF FrameStep, FrameKinds, Quietly
<1>6. ASSUME ~IsRepeat(f), type = "COMMIT" PROVE FrameStep
  <2>1. OnCommit(f, Io(result)) BY <1>1, <1>3, <1>6 DEF OnFrame, Dispatch
  <2>2. CASE CommitProblem(f) # "none"
    BY <2>1, <2>2, <1>4 DEF OnCommit, Refuse
  <2>3. CASE /\ CommitProblem(f) = "none" /\ calls' \in {{}, {"select"}}
             /\ EndSession /\ (calls' = {"select"} => result = "FAILED")
    <3>1. UNCHANGED <<flash, mode>>
      BY <1>1, <1>2, <2>3 DEF PortEffect, flash, BootFrom
    <3>2. session # "COMMITTED" BY <2>3 DEF CommitProblem
    <3> QED BY <1>2, <2>3, <3>1, <3>2
        DEF FrameStep, FrameKinds, Quietly, EndSession, NoLast
  <2>4. CASE /\ CommitProblem(f) = "none" /\ Io(result).crc = image_crc32
             /\ result = "OK" /\ calls' = {"select", "reset"}
             /\ session' = "COMMITTED" /\ Ack(f)
             /\ UNCHANGED <<image_size, image_crc32, next_offset>>
    <3>1. session = "RECEIVING" BY <2>4 DEF CommitProblem
    <3>2. CrcOfBank(Spare, image_size) = image_crc32
      BY <2>4, <3>1 DEF Io, InSession
    <3>3. boot_bank' = Spare /\ UNCHANGED <<bank, asked>>
      BY <1>1, <2>4 DEF PortEffect, BootFrom
    <3>4. last'.type = "COMMIT" BY <1>3, <1>6, <2>4 DEF Ack, Keep
    <3>5. boot_bank = running BY <1>2 DEF Control
    <3> QED BY <1>2, <2>4, <3>1, <3>2, <3>3, <3>4, <3>5
        DEF FrameStep, FrameKinds, Commits
  <2> QED BY <2>1, <2>2, <2>3, <2>4 DEF OnCommit, FailWith, Io
<1>7. ASSUME ~IsRepeat(f), type = "CONFIRM" PROVE FrameStep
  <2>1. OnConfirm(f, Io(result)) BY <1>1, <1>3, <1>7 DEF OnFrame, Dispatch
  <2>2. CASE ConfirmProblem(f) # "none"
    BY <2>1, <2>2, <1>4 DEF OnConfirm, Refuse
  <2>3. CASE /\ ConfirmProblem(f) = "none" /\ ImageState # "TRIAL"
    <3>1. calls' = {} /\ UNCHANGED transfer /\ last'.type = "CONFIRM"
      BY <2>1, <2>3, <1>3, <1>7 DEF OnConfirm, Io, Ack, Keep, Refuse
    <3> QED BY <1>1, <1>2, <3>1, NoCalls DEF FrameStep, FrameKinds, Quietly
  <2>4. CASE /\ ConfirmProblem(f) = "none" /\ ImageState = "TRIAL"
    <3>1. /\ calls' = {"confirm"} /\ UNCHANGED transfer
          /\ last'.type = "CONFIRM" \/ (result # "OK" /\ UNCHANGED last)
      BY <2>1, <2>4, <1>3, <1>7 DEF OnConfirm, Io, Ack, Keep, Refuse
    <3>2. WriteRecord(result) /\ UNCHANGED <<boot_bank, mode>>
      BY <1>1, <1>2, <3>1 DEF PortEffect
    <3>3. session = "IDLE" BY <2>4 DEF ConfirmProblem
    <3> QED BY <1>2, <2>4, <3>1, <3>2, <3>3 DEF FrameStep, FrameKinds, Records
  <2> QED BY <2>2, <2>3, <2>4
<1>8. ASSUME ~IsRepeat(f), type = "ABORT" PROVE FrameStep
  <2>1. \/ calls' = {} /\ UNCHANGED <<transfer, last>>
        \/ /\ calls' = {} /\ session # "COMMITTED" /\ session' = "IDLE"
           /\ last'.type = "ABORT"
    BY <1>1, <1>3, <1>8 DEF OnFrame, Dispatch, OnAbort, Refuse, AbortProblem, Ack, Keep
  <2> QED BY <1>1, <1>2, <1>4, <2>1, NoCalls DEF FrameStep, FrameKinds, Quietly
<1>9. CASE IsRepeat(f)
  BY <1>1, <1>4, <1>9 DEF OnFrame
<1> QED BY <1>5, <1>6, <1>7, <1>8, <1>9

LEMMA BeginKinds ==
  ASSUME NEW i \in Images, NEW seq \in Seqs, Handle(Announce(i, seq), <<>>)
  PROVE  FrameStep
<1> DEFINE f == Announce(i, seq)
<1>1. PICK result \in Results : OnFrame(f, Io(result)) /\ PortEffect(<<>>, result)
  BY DEF Handle
<1>2. /\ mode = "loop" /\ UNCHANGED <<running, wdg_flag, watched, blame, cuts>>
      /\ mode' = IF "reset" \in calls' THEN "launching" ELSE mode
  BY DEF Handle
<1>3. /\ f.type = "BEGIN" /\ f.shaped /\ f.seq = seq
      /\ f.size = i.size /\ f.crc = CrcOf(i.words)
  BY DEF Announce
<1> HIDE DEF f
<1>5. CASE calls' = {} /\ UNCHANGED <<transfer, last>>
  BY <1>1, <1>2, <1>5, NoCalls DEF FrameStep, FrameKinds, Quietly
<1>6. CASE IsRepeat(f) BY <1>1, <1>5, <1>6 DEF OnFrame
<1>7. CASE ~IsRepeat(f)
  <2>1. OnBegin(f, Io(result)) BY <1>1, <1>3, <1>7 DEF OnFrame, Dispatch
  <2>2. CASE BeginProblem(f) # "none" BY <2>1, <2>2, <1>5 DEF OnBegin, Refuse
  <2>3. CASE BeginProblem(f) = "none"
    <3>1. /\ calls' = {"erase"} /\ session # "COMMITTED"
          /\ EraseSpare(result) /\ UNCHANGED <<boot_bank, mode>>
      BY <1>1, <1>2, <2>1, <2>3 DEF OnBegin, PortEffect, BeginProblem
    <3>2. CASE result = "FAILED"
      <4>1. session' = "IDLE" /\ last'.type = "none"
        BY <2>1, <2>3, <3>2 DEF OnBegin, Io, FailWith, EndSession, NoLast
      <4> QED BY <1>2, <3>1, <3>2, <4>1 DEF FrameStep, FrameKinds, FailsToErase
    <3>3. CASE result = "OK"
      <4>1. /\ session' = "RECEIVING" /\ next_offset' = 0 /\ last'.type = "BEGIN"
            /\ image_size' = i.size /\ image_crc32' = CrcOf(i.words)
        BY <1>3, <2>1, <2>3, <3>3 DEF OnBegin, Io, Ack, Keep
      <4> QED BY <1>2, <3>1, <3>3, <4>1 DEF FrameStep, FrameKinds, OpensSession
    <3> QED BY <3>2, <3>3 DEF Results
  <2> QED BY <2>2, <2>3
<1> QED BY <1>6, <1>7

LEMMA DataKinds ==
  ASSUME NEW data \in Payloads, NEW offset \in Offsets, NEW seq \in Seqs, BoardTypeOK,
         Handle(Data(data, offset, seq), data)
  PROVE  FrameStep
<1> DEFINE f == Data(data, offset, seq)
<1>1. PICK result \in Results : OnFrame(f, Io(result)) /\ PortEffect(data, result)
  BY DEF Handle
<1>2. /\ mode = "loop" /\ UNCHANGED <<running, wdg_flag, watched, blame, cuts>>
      /\ mode' = IF "reset" \in calls' THEN "launching" ELSE mode
  BY DEF Handle
<1>3. /\ f.type = "DATA" /\ f.seq = seq /\ f.offset = offset
      /\ f.count = OTA_DATA_ALIGN * Len(data)
  BY DEF Data
<1> HIDE DEF f
<1>4. CASE calls' = {} /\ UNCHANGED <<transfer, last>>
  BY <1>1, <1>2, <1>4, NoCalls DEF FrameStep, FrameKinds, Quietly
<1>5. CASE IsRepeat(f) BY <1>1, <1>4, <1>5 DEF OnFrame
<1>6. CASE ~IsRepeat(f)
  <2>1. OnData(f, Io(result)) BY <1>1, <1>3, <1>6 DEF OnFrame, Dispatch
  <2>2. CASE DataProblem(f) # "none" BY <2>1, <2>2, <1>4 DEF OnData, Refuse
  <2>3. CASE DataProblem(f) = "none"
    <3>1. /\ calls' = {"program"} /\ session = "RECEIVING" /\ offset = next_offset
          /\ ~(f.count > Minus(Padded(image_size), next_offset, WordSize))
          /\ ProgramSpare(next_offset, data, result) /\ UNCHANGED <<boot_bank, mode>>
      BY <1>1, <1>2, <1>3, <2>1, <2>3 DEF OnData, PortEffect, DataProblem
    <3>2. CASE result = "FAILED"
      <4>1. session' = "IDLE" /\ last'.type = "none"
        BY <2>1, <2>3, <3>2 DEF OnData, Io, FailWith, EndSession, NoLast
      <4> QED BY <1>2, <3>1, <3>2, <4>1 DEF FrameStep, FrameKinds, FailsToProgram
    <3>3. CASE result = "OK"
      <4>1. /\ next_offset' = Plus(next_offset, f.count, WordSize)
            /\ last'.type = "DATA" /\ UNCHANGED <<session, image_size, image_crc32>>
        BY <1>3, <2>1, <2>3, <3>3 DEF OnData, Io, Ack, Keep
      <4>2. f.count <= Minus(Padded(image_size), next_offset, WordSize)
        <5>1. f.count \in Nat
          BY <1>3, HostAssumption DEF OTA_DATA_ALIGN
        <5>2. /\ image_size \in 1 .. Capacity /\ next_offset \in Nat
              /\ next_offset <= Padded(image_size) /\ Padded(image_size) <= Capacity
          BY <3>1, CapacityAssumption
          DEF BoardTypeOK, TypeOK, OffsetInBounds, OTA_DATA_ALIGN
        <5>3. Padded(image_size) \in Nat
          BY <5>2, PaddedFits, CapacityAssumption DEF OTA_DATA_ALIGN
        <5> QED BY <3>1, <5>1, <5>2, <5>3 DEF Minus
      <4> QED BY <1>2, <1>3, <3>1, <3>3, <4>1, <4>2 DEF FrameStep, FrameKinds, Programs
    <3> QED BY <3>2, <3>3 DEF Results
  <2> QED BY <2>2, <2>3
<1> QED BY <1>5, <1>6

\* Whatever the host sends, the board takes one of these steps.
LEMMA HandleKinds ==
  ASSUME BoardTypeOK, Control, HandleCommand \/ HandleBegin \/ HandleData
  PROVE  FrameStep
BY CommandKinds, BeginKinds, DataKinds DEF HandleCommand, HandleBegin, HandleData

-----------------------------------------------------------------------------
(***************************************************************************)
(* What one step of the board can do to the flash.                         *)
(***************************************************************************)
FlashStep ==
  \/ UNCHANGED <<bank, asked>>
  \/ mode = "loop" /\ SpareWorked /\ (SpareCleared \/ SpareWritten)
  \/ /\ mode = "loop" /\ session = "IDLE" /\ ImageState = "TRIAL"
     /\ \E result \in Results : RecordWorked(result)

LEMMA FrameFlash ==
  ASSUME BoardTypeOK, Control, FrameStep
  PROVE  FlashStep
<1>a. FlashTyped /\ running \in Banks /\ next_offset \in Nat
  BY CapacityAssumption DEF BoardTypeOK, FlashTyped, TypeOK, OTA_DATA_ALIGN
<1>b. mode = "loop" /\ Whole(running) BY DEF FrameStep, Control
<1>1. CASE Quietly BY <1>1 DEF Quietly, flash, FlashStep
<1>2. ASSUME NEW result, EraseSpare(result) PROVE FlashStep
  BY <1>a, <1>b, <1>2, EraseWorks DEF FlashStep
<1>3. ASSUME NEW i \in Images, OpensSession(i) PROVE FlashStep
  BY <1>2, <1>3 DEF OpensSession
<1>4. CASE FailsToErase BY <1>2, <1>4 DEF FailsToErase
<1>5. ASSUME NEW data \in Payloads, Programs(data) \/ FailsToProgram(data)
      PROVE  FlashStep
  BY <1>a, <1>b, <1>5, ProgramWorks
  DEF Programs, FailsToProgram, FlashStep, Results, InSession, SpareWritten
<1>6. CASE Commits BY <1>6 DEF Commits, FlashStep
<1>7. ASSUME NEW result \in Results, Records(result) PROVE FlashStep
  BY <1>a, <1>b, <1>7, RecordWorks DEF Records, FlashStep
<1> QED BY <1>1, <1>3, <1>4, <1>5, <1>6, <1>7 DEF FrameStep, FrameKinds

\* A cut in the middle of an operation leaves what the operation could leave.
LEMMA CutFlash ==
  ASSUME BoardTypeOK, Control, Interrupted
  PROVE  FlashStep
<1>a. FlashTyped /\ running \in Banks /\ next_offset \in Nat
  BY CapacityAssumption DEF BoardTypeOK, FlashTyped, TypeOK, OTA_DATA_ALIGN
<1>b. mode = "loop" => Whole(running) BY DEF Control
<1>1. CASE UNCHANGED <<bank, asked>> BY <1>1 DEF FlashStep
<1>2. ASSUME mode = "loop", NEW result \in Results, EraseSpare(result)
      PROVE  FlashStep
  BY <1>a, <1>2, EraseWorks DEF FlashStep
<1>3. ASSUME mode = "loop", InSession, NEW data \in Payloads, NEW result \in Results,
             ProgramSpare(next_offset, data, result)
      PROVE  FlashStep
  BY <1>a, <1>3, ProgramWorks DEF FlashStep, SpareWritten
<1>4. ASSUME mode = "loop", session = "IDLE", ImageState = "TRIAL",
             NEW result \in Results, WriteRecord(result)
      PROVE  FlashStep
  BY <1>a, <1>b, <1>4, RecordWorks DEF FlashStep
<1> QED BY <1>1, <1>2, <1>3, <1>4 DEF Interrupted

LEMMA StepFlash ==
  ASSUME BoardTypeOK, Control, [BoardNext]_boardVars
  PROVE  FlashStep
<1>1. CASE HandleCommand \/ HandleBegin \/ HandleData
  BY <1>1, HandleKinds, FrameFlash
<1>2. CASE PowerCut BY <1>2, CutFlash DEF PowerCut
<1>3. CASE \/ Timeout \/ Launch \/ LaunchLost \/ StartUp \/ RollBack \/ Hang
           \/ WatchdogBite \/ UNCHANGED boardVars
  BY <1>3
  DEF Timeout, Launch, LaunchLost, StartUp, RollBack, Hang, WatchdogBite, boardVars,
      board, flash, FlashStep
<1> QED BY <1>1, <1>2, <1>3 DEF BoardNext

\* No step turns a bank with a whole image into one without, unless it is the
\* spare bank while the loop runs.
LEMMA StaysWhole ==
  ASSUME BoardTypeOK, FlashStep, NEW b \in Banks, Whole(b), mode = "loop" => b = running
  PROVE  Whole(b)'
<1>1. CASE bank'[b] = bank[b] BY <1>1, WholeMeans, MeansNext
<1>2. CASE \E result \in Results : RecordWorked(result) /\ b = running
  BY <1>2, WholeMeans, MeansNext, SameImages DEF RecordWorked
<1> QED BY <1>1, <1>2 DEF FlashStep, SpareWorked, SameBank

-----------------------------------------------------------------------------
\* A double word of a bank, the last one as far as the image goes.
CutCell(cells, k, size) ==
  IF OTA_DATA_ALIGN * k <= size THEN cells[k - 1]
  ELSE First(size % OTA_DATA_ALIGN, cells[k - 1])

LEMMA CutTyped ==
  ASSUME NEW cells, NEW size \in 1 .. Capacity,
         NEW k \in 1 .. Padded(size) \div OTA_DATA_ALIGN, cells[k - 1] \in Words
  PROVE  CutCell(cells, k, size) \in Words
<1>1. size \in Nat /\ Padded(size) \in size .. size + 7 /\ Padded(size) % 8 = 0
  BY PaddedFits, CapacityAssumption DEF OTA_DATA_ALIGN
<1>2. k \in Nat /\ 8 * k <= Padded(size) BY <1>1 DEF OTA_DATA_ALIGN
<1>3. CASE size % 8 = 0
  <2>1. Padded(size) = size BY <1>3 DEF Padded, OTA_DATA_ALIGN
  <2> QED BY <1>2, <2>1 DEF CutCell, OTA_DATA_ALIGN
<1>4. CASE size % 8 # 0
  <2>1. size % OTA_DATA_ALIGN \in 1 .. OTA_DATA_ALIGN BY <1>1, <1>4 DEF OTA_DATA_ALIGN
  <2> QED BY <2>1, ImageAssumption DEF CutCell
<1> QED BY <1>3, <1>4

\* What the host sends and what the port answers are in range.
LEMMA FramesTyped ==
  ASSUME BoardTypeOK, HandleCommand \/ HandleBegin \/ HandleData
  PROVE  Next
<1>1. \A result \in Results : Io(result) \in Ios
  <2> TAKE result \in Results
  <2>1. ImageState \in ImageStates BY DEF ImageState, StateIn, ImageStates
  <2>2. ASSUME InSession PROVE CrcOfBank(Spare, image_size) \in Crcs
    <3> DEFINE n == Padded(image_size) \div OTA_DATA_ALIGN
    <3>1. image_size \in 1 .. Capacity
      BY <2>2 DEF InSession, BoardTypeOK, OffsetInBounds
    <3>2. /\ Padded(image_size) \in image_size .. image_size + 7
          /\ Padded(image_size) <= Capacity
      BY <3>1, PaddedFits DEF OTA_DATA_ALIGN
    <3>3. n \in Cells
      BY <3>1, <3>2, RecordIsLast, CapacityAssumption DEF Cells, OTA_DATA_ALIGN
    <3>4. \A k \in 1 .. n : k - 1 \in Cells
      BY <3>3, RecordIsLast DEF Cells
    <3>5. \A k \in 1 .. n : CutCell(bank[Spare], k, image_size) \in Words
      BY <3>1, <3>4, TwoBanks, CutTyped DEF BoardTypeOK
    <3>6. [k \in 1 .. n |-> CutCell(bank[Spare], k, image_size)] \in [1 .. n -> Words]
      BY <3>5
    <3> QED BY <3>3, <3>6, CrcAssumption DEF CrcOfBank, CutCell
  <2> QED BY <2>1, <2>2, FieldAssumption DEF Io, Ios, Results
<1>2. ASSUME NEW f \in Frames, NEW data, Handle(f, data) PROVE Next
  BY <1>1, <1>2 DEF Handle, Next, Hear
<1>3. CASE HandleCommand
  BY <1>2, <1>3 DEF HandleCommand, Command, Frames, BareFrames, BareTypes
<1>4. CASE HandleBegin
  <2>1. PICK i \in Images, seq \in Seqs : Handle(Announce(i, seq), <<>>)
    BY <1>4 DEF HandleBegin
  <2>2. i.size \in Sizes /\ CrcOf(i.words) \in Crcs
    BY RecordIsLast, CrcAssumption, HostAssumption DEF Cells
  <2>3. Announce(i, seq) \in Frames BY <2>2 DEF Announce, Frames, BeginFrames
  <2> QED BY <1>2, <2>1, <2>3
<1>5. CASE HandleData
  BY <1>2, <1>5, HostAssumption DEF HandleData, Data, Frames, DataFrames
<1> QED BY <1>3, <1>4, <1>5

LEMMA BoardTypeStep ==
  BoardTypeOK /\ Control /\ [BoardNext]_boardVars => BoardTypeOK'
<1> SUFFICES ASSUME BoardTypeOK, Control, [BoardNext]_boardVars PROVE BoardTypeOK'
  OBVIOUS
<1>1. FlashTyped'
  BY StepFlash DEF FlashStep, SpareWorked, RecordWorked, FlashTyped, BoardTypeOK
<1>2. (TypeOK /\ OffsetInBounds)'
  <2>1. CASE HandleCommand \/ HandleBegin \/ HandleData
    BY <2>1, FramesTyped, TypeStep, OffsetStep DEF BoardTypeOK
  <2>2. CASE Timeout
    <3>1. NoLast \in Memories /\ 0 \in 0 .. WordSize - 1
      BY CapacityAssumption DEF Memories, OTA_DATA_ALIGN
    <3> QED BY <2>2, <3>1
        DEF Timeout, EndSession, BoardTypeOK, TypeOK, OffsetInBounds, clock, OTA_DATA_ALIGN
  <2>3. ASSUME NEW flag, Reset(flag) PROVE (TypeOK /\ OffsetInBounds)'
    <3>1. NoLast \in Memories /\ 0 \in 0 .. WordSize - 1 /\ 0 \in Crcs
      BY CapacityAssumption, FieldAssumption DEF Memories, OTA_DATA_ALIGN
    <3> QED BY <2>3, <3>1
        DEF Reset, BoardTypeOK, TypeOK, OffsetInBounds, clock, OTA_DATA_ALIGN
  <2>4. CASE LaunchLost \/ StartUp \/ RollBack \/ Hang \/ UNCHANGED boardVars
    <3>1. UNCHANGED vars
      BY <2>4 DEF LaunchLost, StartUp, RollBack, Hang, boardVars
    <3> QED BY <3>1
        DEF vars, transfer, clock, BoardTypeOK, TypeOK, OffsetInBounds, Padded
  <2> QED BY <2>1, <2>2, <2>3, <2>4 DEF BoardNext, Launch, WatchdogBite, PowerCut
<1>3. /\ boot_bank' \in Banks /\ running' \in Banks /\ mode' \in Modes
      /\ wdg_flag' \in BOOLEAN /\ watched' \in BOOLEAN
  <2>a. /\ boot_bank \in Banks /\ running \in Banks /\ mode \in Modes /\ Spare \in Banks
        /\ wdg_flag \in BOOLEAN /\ watched \in BOOLEAN
    BY TwoBanks DEF BoardTypeOK
  <2>1. CASE HandleCommand \/ HandleBegin \/ HandleData
    <3>1. FrameStep BY <2>1, HandleKinds
    <3>2. boot_bank' \in {boot_bank, Spare} /\ mode' \in {mode, "launching"}
      BY <3>1 DEF FrameStep, FrameKinds, Quietly, OpensSession, FailsToErase, Programs,
         FailsToProgram, Commits, Records, flash
    <3> QED BY <2>a, <3>1, <3>2 DEF FrameStep, Modes
  <2>2. CASE Timeout BY <2>a, <2>2 DEF Timeout, board, flash, processor
  <2>3. ASSUME NEW flag \in BOOLEAN, Reset(flag), UNCHANGED boot_bank
        PROVE  /\ boot_bank' \in Banks /\ running' \in Banks /\ mode' \in Modes
               /\ wdg_flag' \in BOOLEAN /\ watched' \in BOOLEAN
    BY <2>a, <2>3 DEF Reset, Modes
  <2>4. CASE Launch \/ WatchdogBite \/ PowerCut
    BY <2>a, <2>3, <2>4 DEF Launch, WatchdogBite, PowerCut, flash
  <2>5. CASE LaunchLost \/ StartUp \/ Hang \/ UNCHANGED boardVars
    BY <2>a, <2>5 DEF LaunchLost, StartUp, Hang, boardVars, board, flash, processor, Modes
  <2>6. CASE RollBack
    BY <2>a, <2>6 DEF RollBack, BootFrom, Modes
  <2> QED BY <2>1, <2>2, <2>4, <2>5, <2>6 DEF BoardNext
<1> QED BY <1>1, <1>2, <1>3 DEF BoardTypeOK, FlashTyped

-----------------------------------------------------------------------------
\* A reset, seen from the invariants of the processor.
LEMMA ResetControl ==
  ASSUME BoardTypeOK, NEW flag, Reset(flag), FlashStep, UNCHANGED boot_bank,
         flag => blame' = boot_bank
  PROVE  Control'
<1>1. /\ session' = "IDLE" /\ running' = boot_bank' /\ watched' = FALSE
      /\ wdg_flag' = flag /\ mode' = IF Whole(boot_bank)' THEN "booting" ELSE "dead"
  BY DEF Reset
<1>2. mode' = "booting" => Whole(running)' BY <1>1 DEF Whole, Holds
<1> QED BY <1>1, <1>2 DEF Control

LEMMA ControlStep ==
  BoardTypeOK /\ Control /\ [BoardNext]_boardVars => Control'
<1> SUFFICES ASSUME BoardTypeOK, Control, [BoardNext]_boardVars PROVE Control'
  OBVIOUS
<1>a. FlashStep BY StepFlash
<1>b. /\ running \in Banks /\ boot_bank \in Banks /\ Spare \in Banks /\ Spare # running
  BY TwoBanks DEF BoardTypeOK
<1>1. CASE HandleCommand \/ HandleBegin \/ HandleData
  <2>1. /\ FrameStep /\ mode = "loop" /\ boot_bank = running
        /\ UNCHANGED <<running, wdg_flag, watched, blame>>
    BY <1>1, HandleKinds DEF FrameStep, Control
  <2>2. CASE Commits BY <2>1, <2>2, <1>b DEF Commits, Control
  <2>3. CASE ~Commits
    <3>1. UNCHANGED <<mode, boot_bank>> /\ session' # "COMMITTED"
      BY <2>1, <2>3 DEF FrameStep, FrameKinds, Quietly, OpensSession, FailsToErase,
         Programs, FailsToProgram, Records, flash, transfer, Control
    <3>2. Whole(running)' BY <1>a, <1>b, <2>1, <3>1, StaysWhole DEF Control, Whole, Holds
    <3> QED BY <2>1, <3>1, <3>2 DEF Control
  <2> QED BY <2>2, <2>3
<1>2. CASE Timeout
  BY <1>2 DEF Timeout, EndSession, board, flash, processor, Control, Whole, Holds
<1>3. CASE Launch
  <2>1. ~wdg_flag /\ Reset(wdg_flag) /\ UNCHANGED boot_bank
    BY <1>3 DEF Launch, Control, flash
  <2> QED BY <1>a, <2>1, ResetControl
<1>4. CASE WatchdogBite
  <2>1. Reset(TRUE) /\ UNCHANGED <<boot_bank, blame>> /\ blame = boot_bank
    BY <1>4 DEF WatchdogBite, Control, flash
  <2> QED BY <1>a, <2>1, ResetControl
<1>5. CASE PowerCut
  <2>1. Reset(FALSE) /\ UNCHANGED boot_bank BY <1>5 DEF PowerCut
  <2> QED BY <1>a, <2>1, ResetControl
<1>6. CASE LaunchLost
  BY <1>6 DEF LaunchLost, Control, flash, vars, transfer
<1>7. CASE StartUp
  BY <1>7 DEF StartUp, Control, flash, vars, transfer, Whole, Holds
<1>8. CASE RollBack
  BY <1>8, <1>b DEF RollBack, BootFrom, Control, vars, transfer, Whole, Holds
<1>9. CASE Hang
  BY <1>9 DEF Hang, Control, flash, vars, transfer
<1>10. CASE UNCHANGED boardVars
  BY <1>10
  DEF boardVars, board, flash, processor, vars, transfer, Control, Whole, Holds
<1> QED
  BY <1>1, <1>2, <1>3, <1>4, <1>5, <1>6, <1>7, <1>8, <1>9, <1>10 DEF BoardNext

\* The board as ST-Link leaves it.
LEMMA Delivered ==
  ASSUME BoardInit
  PROVE  /\ BoardTypeOK /\ Control /\ RecordsTell
         /\ Whole(1) /\ session = "IDLE" /\ last = NoLast
<1>1. /\ bank \in [Banks -> [Cells -> Words]]
      /\ \A b \in Banks :
           /\ \/ \A c \in Cells : bank[b][c] = Erased /\ b = 2
              \/ \E i \in Images : Carries(bank[b], i)
           /\ bank[b][RecordCell] \in
                {Erased} \union {RecordOf(CrcOf(i.words)) : i \in Images}
  BY DeliveryAssumption DEF BoardInit, Carries
<1>2. RecordCell \in Cells BY RecordIsLast DEF Cells
<1>3. FlashTyped BY <1>1 DEF FlashTyped, BoardInit, Confirms
<1>4. Whole(1)
  <2>1. 1 \in Banks /\ 1 # 2 BY DEF Banks
  <2>2. \E i \in Images : Carries(bank[1], i) BY <1>1, <1>2, <2>1
  <2> QED BY <2>1, <2>2, WholeMeans
<1>5. RecordsTell
  <2> SUFFICES ASSUME NEW b \in Banks, bank[b][RecordCell] \notin {Erased, Torn}
               PROVE  \E i \in Images :
                        /\ Worn(bank[b], i)
                        /\ bank[b][RecordCell] = RecordOf(CrcOf(i.words)) => asked[b]
    BY DEF RecordsTell
  <2>1. PICK i \in Images : Carries(bank[b], i) BY <1>1, <1>2
  <2>2. bank[b][RecordCell] = RecordOf(CrcOf(i.words)) => Confirms(b)
    BY <2>1, ConfirmsMeans DEF Stamped
  <2>3. asked[b] = Confirms(b) BY DEF BoardInit
  <2> QED BY <2>1, <2>2, <2>3 DEF Carries, Worn
<1>6. TypeOK /\ OffsetInBounds
  BY CapacityAssumption, ClockAssumption, FieldAssumption
  DEF BoardInit, InitSession, TypeOK, OffsetInBounds, OTA_DATA_ALIGN, Memories
<1>7. BoardTypeOK
  BY <1>3, <1>6 DEF BoardTypeOK, FlashTyped, BoardInit, Banks, Modes
<1>8. Control BY <1>4 DEF BoardInit, InitSession, Control
<1> QED BY <1>4, <1>5, <1>7, <1>8 DEF BoardInit, InitSession

\* The session's fields, the two banks and the processor keep their types, the
\* write position keeps its bounds also between resets and power cuts, and what
\* the processor does says where the option bytes point.
THEOREM BoardTyping == BoardSpec => [](BoardTypeOK /\ Control)
<1>1. BoardInit => BoardTypeOK /\ Control BY Delivered
<1> QED BY <1>1, BoardTypeStep, ControlStep, PTL DEF BoardSpec

\* The option bytes leave the running bank only in COMMIT and in the rollback,
\* and no frame is handled from then on: the bank the next BEGIN erases is never
\* the one the board is told to boot (src/Src/ota_update.c:285-291).
THEOREM OptionsLeaveOnlyToCommit == BoardSpec => []OptionsFollowCommit
<1>1. Control => OptionsFollowCommit BY DEF Control, OptionsFollowCommit
<1> QED BY <1>1, BoardTyping, PTL

\* An image is sent back only for a hang of its own or of its launch: the flag of
\* an older reset never reaches it (src/Src/main.c:93-95).
THEOREM RollbackDeserved == BoardSpec => RollBackIsDeserved
<1>1. Control /\ [BoardNext]_boardVars
      => [RollBack /\ boot_bank' # boot_bank => blame = running]_boardVars
  BY DEF Control, RollBack
<1> QED BY <1>1, BoardTyping, PTL DEF BoardSpec, RollBackIsDeserved

-----------------------------------------------------------------------------
\* Every step but a frame ends the session or leaves it, the flash and the option
\* bytes alone, a rollback's excepted.
LEMMA OtherSteps ==
  ASSUME [BoardNext]_boardVars
  PROVE  \/ HandleCommand \/ HandleBegin \/ HandleData
         \/ session' = "IDLE" /\ last' = NoLast /\ UNCHANGED boot_bank
         \/ UNCHANGED <<vars, bank, asked, running, boot_bank>>
         \/ RollBack /\ UNCHANGED <<vars, bank, asked, running>>
<1>1. CASE Timeout BY <1>1 DEF Timeout, EndSession, board, flash
<1>2. CASE Launch \/ WatchdogBite \/ PowerCut
  BY <1>2 DEF Launch, WatchdogBite, PowerCut, Reset, flash
<1>3. CASE LaunchLost \/ StartUp \/ Hang BY <1>3 DEF LaunchLost, StartUp, Hang, flash
<1>4. CASE RollBack BY <1>4 DEF RollBack
<1>5. CASE UNCHANGED boardVars BY <1>5 DEF boardVars, board, flash, processor
<1> QED BY <1>1, <1>2, <1>3, <1>4, <1>5 DEF BoardNext

\* A data frame moves the write position by the bytes it programs.
LEMMA PositionMoves ==
  ASSUME BoardTypeOK, NEW data \in Payloads, Programs(data)
  PROVE  next_offset \in Nat /\ next_offset' = next_offset + OTA_DATA_ALIGN * Len(data)
<1> DEFINE P == Padded(image_size)
           n == OTA_DATA_ALIGN * Len(data)
<1>1. n \in Nat BY HostAssumption DEF OTA_DATA_ALIGN
<1>2. /\ image_size \in 1 .. Capacity /\ next_offset \in Nat
      /\ next_offset <= P /\ P <= Capacity
  BY CapacityAssumption
  DEF BoardTypeOK, TypeOK, OffsetInBounds, Programs, OTA_DATA_ALIGN
<1>3. P \in Nat BY <1>2, PaddedFits, CapacityAssumption DEF OTA_DATA_ALIGN
<1>4. /\ n <= Minus(P, next_offset, WordSize)
      /\ next_offset' = Plus(next_offset, n, WordSize)
  BY DEF Programs
<1> HIDE DEF P, n
<1>5. next_offset + n <= P BY <1>1, <1>2, <1>3, <1>4 DEF Minus
<1>6. next_offset' = next_offset + n
  BY <1>1, <1>2, <1>3, <1>4, <1>5, CapacityAssumption DEF Plus, OTA_DATA_ALIGN
<1> QED BY <1>2, <1>6 DEF n

LEMMA ErasedStep ==
  /\ BoardTypeOK /\ Control /\ DataMeetsErasedCells /\ [BoardNext]_boardVars
  => DataMeetsErasedCells'
<1> SUFFICES ASSUME BoardTypeOK, Control, DataMeetsErasedCells, [BoardNext]_boardVars,
                    InSession', NEW c \in Cells, c * OTA_DATA_ALIGN >= next_offset'
             PROVE  bank'[Spare'][c] = Erased
  BY DEF DataMeetsErasedCells
<1>a. FlashTyped /\ running \in Banks BY DEF BoardTypeOK, FlashTyped
<1>1. CASE HandleCommand \/ HandleBegin \/ HandleData
  <2>1. FrameStep /\ UNCHANGED running BY <1>1, HandleKinds DEF FrameStep
  <2>2. Spare' = Spare BY <2>1 DEF Spare
  <2>3. CASE Quietly \/ Commits
    <3>1. UNCHANGED <<bank, session, next_offset>>
      BY <2>3 DEF Quietly, Commits, flash, transfer, InSession
    <3> QED BY <2>2, <3>1 DEF DataMeetsErasedCells, InSession
  <2>4. ASSUME NEW i \in Images, OpensSession(i) PROVE bank'[Spare'][c] = Erased
    BY <1>a, <2>2, <2>4, EraseWorks DEF OpensSession
  <2>5. ASSUME NEW data \in Payloads, Programs(data) PROVE bank'[Spare'][c] = Erased
    <3>1. next_offset \in Nat /\ next_offset' = next_offset + OTA_DATA_ALIGN * Len(data)
      BY <2>5, PositionMoves
    <3>2. OTA_DATA_ALIGN * Len(data) \in Nat /\ c \in Nat
      BY HostAssumption, RecordIsLast DEF OTA_DATA_ALIGN, Cells
    <3>3. OTA_DATA_ALIGN * c >= next_offset + OTA_DATA_ALIGN * Len(data)
      BY <3>1, <3>2 DEF OTA_DATA_ALIGN
    <3>4. bank'[Spare][c] = bank[Spare][c]
      BY <1>a, <2>5, <3>1, <3>3, ProgramWorks DEF Programs, Results
    <3>5. c * OTA_DATA_ALIGN >= next_offset
      BY <3>1, <3>2, <3>3 DEF OTA_DATA_ALIGN
    <3>6. InSession BY <2>5 DEF Programs, InSession
    <3> QED BY <2>2, <3>4, <3>5, <3>6 DEF DataMeetsErasedCells
  <2>6. ~FailsToErase BY DEF FailsToErase, InSession
  <2>7. \A data \in Payloads : ~FailsToProgram(data) BY DEF FailsToProgram, InSession
  <2>8. \A result \in Results : ~Records(result) BY DEF Records, InSession, transfer
  <2> QED
    BY <2>1, <2>3, <2>4, <2>5, <2>6, <2>7, <2>8 DEF FrameStep, FrameKinds
<1>2. CASE session' = "IDLE" BY <1>2 DEF InSession
<1>3. CASE UNCHANGED <<vars, bank, running>>
  BY <1>3 DEF vars, transfer, DataMeetsErasedCells, InSession, Spare
<1> QED BY <1>1, <1>2, <1>3, OtherSteps

\* Whatever failures, repeats and restarted transfers came before, an open session
\* finds every cell from the write position on erased, the record page included:
\* the controller refuses to write a double word twice (flash.c).
THEOREM CellsErased == BoardSpec => []DataMeetsErasedCells
<1>1. BoardInit => DataMeetsErasedCells
  BY DEF BoardInit, InitSession, DataMeetsErasedCells, InSession
<1> QED BY <1>1, ErasedStep, BoardTyping, PTL DEF BoardSpec

-----------------------------------------------------------------------------
\* An open session has found the record page empty and leaves it so.
LEMMA SessionRecordEmpty ==
  ASSUME BoardTypeOK, DataMeetsErasedCells, InSession
  PROVE  bank[Spare][RecordCell] = Erased
<1>1. next_offset <= RecordCell * OTA_DATA_ALIGN /\ next_offset \in Nat
  <2>1. /\ image_size \in 1 .. Capacity /\ next_offset \in Nat
        /\ next_offset <= Padded(image_size) /\ Padded(image_size) <= Capacity
    BY CapacityAssumption DEF BoardTypeOK, TypeOK, OffsetInBounds, InSession, OTA_DATA_ALIGN
  <2>2. Padded(image_size) \in Nat
    BY <2>1, PaddedFits, CapacityAssumption DEF OTA_DATA_ALIGN
  <2> QED BY <2>1, <2>2, RecordIsLast, CapacityAssumption
<1>2. RecordCell * OTA_DATA_ALIGN >= next_offset /\ RecordCell \in Cells
  BY <1>1, RecordIsLast DEF Cells, OTA_DATA_ALIGN
<1> QED BY <1>2 DEF DataMeetsErasedCells

\* Every step keeps to what the records tell.
LEMMA RecordsTellStep ==
  /\ BoardTypeOK /\ Control /\ DataMeetsErasedCells /\ RecordsTell
  /\ [BoardNext]_boardVars
  => RecordsTell'
<1> SUFFICES ASSUME BoardTypeOK, Control, DataMeetsErasedCells, RecordsTell,
                    [BoardNext]_boardVars,
                    NEW b \in Banks, bank'[b][RecordCell] \notin {Erased, Torn}
             PROVE  \E i \in Images :
                      /\ Worn(bank'[b], i)
                      /\ bank'[b][RecordCell] = RecordOf(CrcOf(i.words)) => asked'[b]
  BY DEF RecordsTell, Worn
<1>1. FlashStep BY StepFlash
<1>2. Banks = {running, Spare} BY TwoBanks DEF BoardTypeOK
<1>3. CASE SameBank(b) BY <1>3 DEF SameBank, RecordsTell, Worn
<1>4. CASE SpareWorked /\ SpareCleared /\ b = Spare
  <2>1. bank'[b][RecordCell] = bank[b][RecordCell] /\ asked'[b] = asked[b]
    BY <1>4 DEF SpareWorked
  <2>2. PICK i \in Images :
          /\ Worn(bank[b], i)
          /\ bank[b][RecordCell] = RecordOf(CrcOf(i.words)) => asked[b]
    BY <2>1 DEF RecordsTell
  <2>3. \A k \in 1 .. Len(i.words) : bank'[b][k - 1] \in {bank[b][k - 1], Erased}
    BY <1>4, RecordIsLast DEF SpareCleared, Cells
  <2>4. Worn(bank'[b], i) BY <2>2, <2>3 DEF Worn
  <2> QED BY <2>1, <2>2, <2>4
<1>5. CASE SpareWritten /\ b = Spare
  BY <1>5, SessionRecordEmpty DEF SpareWritten
<1>6. ASSUME mode = "loop", NEW result \in Results, RecordWorked(result), b = running
      PROVE  \E i \in Images :
               /\ Worn(bank'[b], i)
               /\ bank'[b][RecordCell] = RecordOf(CrcOf(i.words)) => asked'[b]
  <2>1. PICK i \in Images : Carries(bank[running], i)
    BY <1>6, WholeMeans DEF Control, BoardTypeOK
  <2>2. Carries(bank'[running], i) BY <1>6, <2>1, SameImages DEF RecordWorked
  <2> QED BY <1>6, <2>2 DEF Carries, Worn, RecordWorked
<1> QED
  BY <1>1, <1>2, <1>3, <1>4, <1>5, <1>6
  DEF FlashStep, SpareWorked, SameBank, RecordWorked

\* Whatever bytes a transfer carries, whatever record ST-Link left standing and
\* wherever the power fails, an image is CONFIRMED only after a CONFIRM carried out
\* while it ran.
THEOREM ConfirmationsAsked == BoardSpec => []NoUnaskedConfirmation
<1>1. BoardInit => RecordsTell /\ DataMeetsErasedCells
  BY Delivered DEF DataMeetsErasedCells, InSession
<1>2. RecordsTell => NoUnaskedConfirmation
  <2> SUFFICES ASSUME RecordsTell, NEW b \in Banks, Confirms(b) PROVE asked[b]
    BY DEF NoUnaskedConfirmation
  <2>1. PICK j \in Images :
          Carries(bank[b], j) /\ bank[b][RecordCell] = RecordOf(CrcOf(j.words))
    BY ConfirmsMeans DEF Stamped
  <2>2. bank[b][RecordCell] \notin {Erased, Torn} BY <2>1, ImageAssumption
  <2> QED BY <2>1, <2>2, WornIsNoOther DEF RecordsTell
<1> QED
  BY <1>1, <1>2, RecordsTellStep, ErasedStep, BoardTyping, PTL DEF BoardSpec

-----------------------------------------------------------------------------
LEMMA AnnouncedStep ==
  BoardTypeOK /\ Control /\ Announced /\ [BoardNext]_boardVars => Announced'
<1> SUFFICES ASSUME BoardTypeOK, Control, Announced, [BoardNext]_boardVars
             PROVE  Announced'
  OBVIOUS
<1>1. CASE HandleCommand \/ HandleBegin \/ HandleData
  <2>1. FrameKinds BY <1>1, HandleKinds DEF FrameStep
  <2>2. ASSUME NEW i \in Images, OpensSession(i) PROVE Announced'
    BY <2>2 DEF OpensSession, Announced
  <2>3. CASE ~(\E i \in Images : OpensSession(i))
    <3>1. \/ session' = "IDLE"
          \/ session # "IDLE" /\ UNCHANGED <<image_size, image_crc32>>
      BY <2>1, <2>3 DEF FrameKinds, Quietly, FailsToErase, Programs, FailsToProgram,
         Commits, Records, transfer
    <3> QED BY <3>1 DEF Announced
  <2> QED BY <2>2, <2>3
<1>2. CASE session' = "IDLE" BY <1>2 DEF Announced
<1>3. CASE UNCHANGED vars BY <1>3 DEF vars, transfer, Announced
<1> QED BY <1>1, <1>2, <1>3, OtherSteps

\* The checksum that COMMIT compares is that of the words of the bank, so the bank
\* holds the image that was announced.
LEMMA CommitFindsImage ==
  ASSUME BoardTypeOK, NEW i \in Images, session # "IDLE", i.size = image_size,
         CrcOf(i.words) = image_crc32, CrcOfBank(Spare, image_size) = image_crc32
  PROVE  Carries(bank[Spare], i)
<1> DEFINE n == Padded(image_size) \div OTA_DATA_ALIGN
           found == [k \in 1 .. n |-> CutCell(bank[Spare], k, i.size)]
<1>1. /\ Len(i.words) = n /\ n \in 1 .. RecordCell /\ RecordCell \in Nat
      /\ i.words \in [1 .. n -> Words]
  BY RecordIsLast
<1>2. \A k \in 1 .. n : k - 1 \in Cells BY <1>1 DEF Cells
<1>3. found \in [1 .. n -> Words]
  <2>1. i.size \in 1 .. Capacity BY ImageAssumption
  <2>2. \A k \in 1 .. n : CutCell(bank[Spare], k, i.size) \in Words
    BY <1>2, <2>1, TwoBanks, CutTyped DEF BoardTypeOK
  <2> QED BY <2>2
<1>4. CrcOf(found) = CrcOf(i.words) BY DEF CrcOfBank, CutCell
<1> HIDE DEF n
<1>5. i.words = found BY <1>1, <1>3, <1>4, CrcAssumption
<1>6. \A k \in 1 .. n : i.words[k] = CutCell(bank[Spare], k, i.size) BY <1>5
<1> QED BY <1>1, <1>6 DEF Carries, Reads, CutCell

LEMMA CommittedStep ==
  /\ BoardTypeOK /\ Control /\ Announced /\ CommittedIsAnnounced
  /\ [BoardNext]_boardVars
  => CommittedIsAnnounced'
<1> SUFFICES ASSUME BoardTypeOK, Control, Announced, CommittedIsAnnounced,
                    [BoardNext]_boardVars, session' = "COMMITTED"
             PROVE  \E i \in Images :
                      /\ i.size = image_size' /\ CrcOf(i.words) = image_crc32'
                      /\ Holds(boot_bank, i)'
  BY DEF CommittedIsAnnounced
<1>1. CASE HandleCommand \/ HandleBegin \/ HandleData
  <2>1. FrameKinds /\ mode = "loop" BY <1>1, HandleKinds DEF FrameStep
  <2>2. session # "COMMITTED" BY <2>1 DEF Control
  <2>3. Commits
    BY <2>1, <2>2 DEF FrameKinds, Quietly, OpensSession, FailsToErase, Programs,
       FailsToProgram, Records, transfer
  <2>4. PICK i \in Images : i.size = image_size /\ CrcOf(i.words) = image_crc32
    BY <2>3 DEF Announced, Commits
  <2>5. Carries(bank[Spare], i)
    BY <2>3, <2>4, CommitFindsImage DEF Commits
  <2>6. bank' = bank /\ boot_bank' = Spare BY <2>3 DEF Commits
  <2>7. Holds(boot_bank, i)' BY <2>5, <2>6 DEF Holds, Carries
  <2> QED BY <2>3, <2>4, <2>7 DEF Commits
<1>2. CASE session' = "IDLE" BY <1>2
<1>3. CASE UNCHANGED <<vars, bank, boot_bank>>
  BY <1>3 DEF vars, transfer, CommittedIsAnnounced, Holds
<1>4. CASE RollBack BY <1>4 DEF RollBack, Control, vars, transfer
<1> QED BY <1>1, <1>2, <1>3, <1>4, OtherSteps

\* What is installed is what was announced, whatever bytes arrived: COMMIT compares
\* the checksum of the bank with that of the BEGIN that opened the session, and
\* nothing is written between the comparison and the switch.
THEOREM InstalledIsAnnounced == BoardSpec => []CommittedIsAnnounced
<1>1. BoardInit => Announced /\ CommittedIsAnnounced
  BY DEF BoardInit, InitSession, Announced, CommittedIsAnnounced
<1> QED BY <1>1, AnnouncedStep, CommittedStep, BoardTyping, PTL DEF BoardSpec

-----------------------------------------------------------------------------
LEMMA InfoStep ==
  BoardTypeOK /\ Control /\ InfoStillTrue /\ [BoardNext]_boardVars => InfoStillTrue'
<1> SUFFICES ASSUME BoardTypeOK, Control, InfoStillTrue, [BoardNext]_boardVars,
                    last'.type = "INFO_REQ"
             PROVE  last'.answer.state = ImageState'
  BY DEF InfoStillTrue
<1>a. running \in Banks BY DEF BoardTypeOK
<1>1. ASSUME running' = running, Stamped(bank'[running]) <=> Stamped(bank[running])
      PROVE  ImageState' = ImageState
  <2>1. Confirms(running)' <=> Stamped(bank'[running])
    <3>1. \A b \in Banks : Confirms(b)' <=> Stamped(bank'[b]) BY MeansNext
    <3> QED BY <1>a, <1>1, <3>1
            DEF Confirms, Whole, Holds, Identity, ImageIn
  <2>2. Confirms(running) <=> Stamped(bank[running]) BY <1>a, ConfirmsMeans
  <2> QED BY <1>1, <2>1, <2>2 DEF ImageState, StateIn
<1>2. CASE HandleCommand \/ HandleBegin \/ HandleData
  <2>1. FrameKinds /\ running' = running /\ mode = "loop"
    BY <1>2, HandleKinds DEF FrameStep
  <2>2. CASE Quietly
    <3>1. ImageState' = ImageState BY <1>1, <2>1, <2>2 DEF Quietly, flash
    <3> QED BY <2>2, <3>1 DEF Quietly, InfoStillTrue
  <2>3. ASSUME NEW result \in Results, Records(result) PROVE last'.answer.state = ImageState'
    <3>1. result # "OK" /\ UNCHANGED last BY <2>3 DEF Records
    <3>2. RecordWorked(result)
      BY <2>1, <2>3, RecordWorks, <1>a DEF Records, Control, BoardTypeOK, FlashTyped
    <3>3. ImageState' = ImageState BY <1>1, <2>1, <3>1, <3>2 DEF RecordWorked
    <3> QED BY <3>1, <3>3 DEF InfoStillTrue
  <2>4. ~Commits /\ ~FailsToErase /\ \A i \in Images : ~OpensSession(i)
    BY DEF Commits, FailsToErase, OpensSession
  <2>5. \A data \in Payloads : ~Programs(data) /\ ~FailsToProgram(data)
    BY DEF Programs, FailsToProgram
  <2> QED BY <2>1, <2>2, <2>3, <2>4, <2>5 DEF FrameKinds
<1>3. CASE last' = NoLast BY <1>3 DEF NoLast
<1>4. CASE UNCHANGED <<vars, bank, running>>
  BY <1>1, <1>4 DEF vars, InfoStillTrue
<1> QED BY <1>2, <1>3, <1>4, OtherSteps

\* An INFO answered again from memory still says what the record in flash says,
\* also behind a CONFIRM that failed (src/Src/ota_update.c:263).
THEOREM RepeatedInfoTrue == BoardSpec => []InfoStillTrue
<1>1. BoardInit => InfoStillTrue
  BY DEF BoardInit, InitSession, InfoStillTrue, NoLast
<1> QED BY <1>1, InfoStep, BoardTyping, PTL DEF BoardSpec

-----------------------------------------------------------------------------
(***************************************************************************)
(* What somebody sees who only looks at the bank that would be booted and  *)
(* at the other one.                                                       *)
(***************************************************************************)
\* Everything the board keeps that this needs, in one invariant.
Safe ==
  /\ BoardTypeOK /\ Control /\ Announced /\ DataMeetsErasedCells /\ RecordsTell

LEMMA SafeStep == Safe /\ [BoardNext]_boardVars => Safe'
BY BoardTypeStep, ControlStep, AnnouncedStep, ErasedStep, RecordsTellStep DEF Safe

LEMMA SafeInit == BoardInit => Safe
<1> SUFFICES ASSUME BoardInit PROVE Safe OBVIOUS
<1>1. BoardTypeOK /\ Control /\ RecordsTell /\ session = "IDLE" BY Delivered
<1> QED BY <1>1 DEF Safe, Announced, DataMeetsErasedCells, InSession

\* The option bytes leave a bank in COMMIT, for a whole image on trial, or in the
\* rollback of one.
LEMMA BootBankMoves ==
  ASSUME Safe, [BoardNext]_boardVars, boot_bank' # boot_bank
  PROVE  /\ boot_bank = running /\ boot_bank' = Spare /\ bank' = bank
         /\ \E i \in Images : Carries(bank[running], i)
         /\ \/ /\ \E i \in Images : Carries(bank[Spare], i)
               /\ ~Stamped(bank[Spare])
            \/ RollBack /\ ~Stamped(bank[running])
<1>a. running \in Banks /\ Spare \in Banks BY TwoBanks DEF Safe, BoardTypeOK
<1>1. CASE HandleCommand \/ HandleBegin \/ HandleData
  <2>1. FrameKinds /\ mode = "loop" BY <1>1, HandleKinds DEF Safe, FrameStep
  <2>2. Commits
    BY <2>1 DEF FrameKinds, Quietly, OpensSession, FailsToErase, Programs,
       FailsToProgram, Records, flash
  <2>3. /\ boot_bank = running /\ boot_bank' = Spare /\ bank' = bank
        /\ session = "RECEIVING" /\ CrcOfBank(Spare, image_size) = image_crc32
    BY <2>2 DEF Commits
  <2>4. \E i \in Images : Carries(bank[running], i)
    BY <1>a, <2>1, WholeMeans DEF Safe, Control
  <2>5. \E i \in Images : Carries(bank[Spare], i)
    <3>1. PICK i \in Images : i.size = image_size /\ CrcOf(i.words) = image_crc32
      BY <2>3 DEF Safe, Announced
    <3> QED BY <2>3, <3>1, CommitFindsImage DEF Safe
  <2>6. ~Stamped(bank[Spare])
    <3>1. bank[Spare][RecordCell] = Erased
      BY <2>3, SessionRecordEmpty DEF Safe, InSession
    <3> QED BY <3>1, ImageAssumption DEF Stamped
  <2> QED BY <2>3, <2>4, <2>5, <2>6
<1>2. CASE RollBack
  <2>1. /\ boot_bank' = Spare /\ bank' = bank /\ ~Confirms(running) /\ mode = "booting"
    BY <1>2 DEF RollBack, BootFrom, ImageState, StateIn
  <2>2. boot_bank = running /\ Whole(running) BY <2>1 DEF Safe, Control
  <2> QED BY <1>2, <1>a, <2>1, <2>2, WholeMeans, ConfirmsMeans
<1> QED BY <1>1, <1>2, OtherSteps

\* Wherever the power fails and whatever the host sends, only the rollback of an
\* image on trial can take from a board its last image to boot.
THEOREM BootBankIsKept == BoardSpec => BootBankKept
<1>1. Safe /\ Safe' /\ [BoardNext]_boardVars
      => [Whole(boot_bank) /\ ~Whole(boot_bank)' => RollBack]_boardVars
  <2> SUFFICES ASSUME Safe, [BoardNext]_boardVars, Whole(boot_bank), ~RollBack
               PROVE  Whole(boot_bank)'
    OBVIOUS
  <2>1. CASE boot_bank' = boot_bank
    <3>1. mode = "loop" => boot_bank = running BY DEF Safe, Control
    <3>2. FlashStep /\ boot_bank \in Banks BY StepFlash DEF Safe, BoardTypeOK
    <3>3. \A b \in Banks : Whole(b) /\ (mode = "loop" => b = running) => Whole(b)'
      BY <3>2, StaysWhole DEF Safe
    <3>4. \A b \in Banks : Whole(b)' <=> \E i \in Images : Carries(bank'[b], i)
      BY MeansNext
    <3>5. \E i \in Images : Carries(bank'[boot_bank], i) BY <3>1, <3>2, <3>3, <3>4
    <3> QED BY <2>1, <3>5 DEF Whole, Holds, Carries
  <2>2. CASE boot_bank' # boot_bank
    <3>1. boot_bank' = Spare /\ bank' = bank /\ \E i \in Images : Carries(bank[Spare], i)
      BY <2>2, BootBankMoves
    <3> QED BY <3>1 DEF Whole, Holds, Carries
  <2> QED BY <2>1, <2>2
<1>2. Safe /\ [BoardNext]_boardVars => Safe' BY SafeStep
<1> QED BY <1>1, <1>2, SafeInit, PTL DEF BoardSpec, BootBankKept

-----------------------------------------------------------------------------
(***************************************************************************)
(* The step to SafeUpdate.                                                 *)
(***************************************************************************)
ImageOf(cells) == CHOOSE i \in Images : Carries(cells, i)
StateOf(cells) == IF Stamped(cells) THEN "CONFIRMED" ELSE "TRIAL"
ContentOf(cells) ==
  IF \E i \in Images : Carries(cells, i)
  THEN {[image |-> ImageOf(cells), state |-> StateOf(cells)]} ELSE {}
TrialOf(content) == \E i \in Images : content = {[image |-> i, state |-> "TRIAL"]}

LEMMA ContentIs ==
  ASSUME NEW cells, NEW i \in Images, Carries(cells, i)
  PROVE  ContentOf(cells) = {[image |-> i, state |-> StateOf(cells)]}
<1>1. ImageOf(cells) \in Images /\ Carries(cells, ImageOf(cells)) BY DEF ImageOf
<1>2. ImageOf(cells) = i BY <1>1, OneImage
<1> QED BY <1>2 DEF ContentOf

\* The contents of a bank are what its cells say.
LEMMA ContentMeans == \A b \in Banks : Content(b) = ContentOf(bank[b])
<1> TAKE b \in Banks
<1>1. Whole(b) <=> \E i \in Images : Carries(bank[b], i) BY WholeMeans
<1>2. ImageIn(b) = ImageOf(bank[b]) BY DEF ImageIn, ImageOf, Holds, Carries
<1>3. Confirms(b) <=> Stamped(bank[b]) BY ConfirmsMeans
<1>4. StateIn(b) = StateOf(bank[b]) BY <1>3 DEF StateIn, StateOf
<1> QED BY <1>1, <1>2, <1>4 DEF Content, ContentOf

LEMMA BootBankTyped == BoardTypeOK => boot_bank \in Banks BY DEF BoardTypeOK

\* The same of the bank that the option bytes name next, and of the other one.
LEMMA ContentNext ==
  ASSUME BoardTypeOK'
  PROVE  /\ Content(boot_bank)' = ContentOf(bank'[boot_bank'])
         /\ Content(3 - boot_bank)' = ContentOf(bank'[3 - boot_bank'])
<1>1. boot_bank' \in Banks /\ 3 - boot_bank' \in Banks
  <2>1. (BoardTypeOK => boot_bank \in Banks)' BY BootBankTyped, PTL
  <2> QED BY <2>1 DEF Banks
<1>2. (\A b \in Banks : Content(b) = ContentOf(bank[b]))' BY ContentMeans, PTL
<1>3. \A b : ContentOf(bank[b])' = ContentOf(bank'[b])
  BY DEF ContentOf, ImageOf, StateOf, Stamped, Carries
<1> QED
  BY <1>1, <1>2, <1>3
  DEF Content, StateIn, Confirms, Whole, Holds, Identity, ImageIn

\* Work on the spare bank takes away what stood there, or brings an image on trial.
LEMMA SpareSeen ==
  ASSUME Safe, SpareWorked, SpareCleared \/ SpareWritten
  PROVE  \/ ContentOf(bank'[Spare]) \in {ContentOf(bank[Spare]), {}}
         \/ TrialOf(ContentOf(bank'[Spare]))
<1>1. CASE ~\E i \in Images : Carries(bank'[Spare], i)
  BY <1>1 DEF ContentOf
<1>2. ASSUME NEW i \in Images, Carries(bank'[Spare], i), ~Stamped(bank'[Spare])
      PROVE  TrialOf(ContentOf(bank'[Spare]))
  BY <1>2, ContentIs DEF StateOf, TrialOf
<1>3. ASSUME Stamped(bank'[Spare])
      PROVE  ContentOf(bank'[Spare]) = ContentOf(bank[Spare])
  <2>1. PICK i \in Images :
          Carries(bank'[Spare], i) /\ bank'[Spare][RecordCell] = RecordOf(CrcOf(i.words))
    BY <1>3 DEF Stamped
  <2>2. bank'[Spare][RecordCell] \notin {Erased, Torn} BY <2>1, ImageAssumption
  <2>3. bank'[Spare][RecordCell] = bank[Spare][RecordCell] /\ Spare \in Banks
    BY <2>2, TwoBanks DEF SpareWorked, Safe, BoardTypeOK
  <2>4. SpareCleared
    BY <2>2, <2>3, SessionRecordEmpty DEF SpareWritten, Safe
  <2>5. PICK j \in Images : Worn(bank[Spare], j)
    BY <2>2, <2>3 DEF Safe, RecordsTell
  <2>6. \A k : k \in 1 .. Len(i.words) \/ k \in 1 .. Len(j.words)
               => bank'[Spare][k - 1] \in {bank[Spare][k - 1], Erased}
    BY <2>4, RecordIsLast DEF SpareCleared, Cells
  <2>7. Worn(bank'[Spare], j) BY <2>5, <2>6 DEF Worn
  <2>8. i = j BY <2>1, <2>7, WornIsNoOther
  <2>9. Carries(bank[Spare], i)
    <3> SUFFICES ASSUME NEW k \in 1 .. Len(i.words) PROVE Reads(bank[Spare][k - 1], k, i)
      BY DEF Carries
    <3>1. Reads(bank'[Spare][k - 1], k, i) BY <2>1 DEF Carries
    <3>2. Reads(bank[Spare][k - 1], k, i) \/ bank[Spare][k - 1] = Erased
      BY <2>5, <2>8 DEF Worn
    <3>3. bank'[Spare][k - 1] \in {bank[Spare][k - 1], Erased} BY <2>6
    <3> QED BY <3>1, <3>2, <3>3
  <2>10. Stamped(bank[Spare]) BY <2>1, <2>3, <2>9 DEF Stamped
  <2> QED BY <1>3, <2>1, <2>9, <2>10, ContentIs DEF StateOf
<1> QED BY <1>1, <1>2, <1>3

\* What a step does to what is seen: nothing, or one step of SafeUpdate.
LEMMA SeenStep ==
  ASSUME Safe, [BoardNext]_boardVars,
         NEW current, NEW other, NEW nextCurrent, NEW nextOther,
         current = ContentOf(bank[boot_bank]),
         other = ContentOf(bank[3 - boot_bank]),
         nextCurrent = ContentOf(bank'[boot_bank']),
         nextOther = ContentOf(bank'[3 - boot_bank'])
  PROVE  \/ nextCurrent = current /\ nextOther = other
         \/ /\ current # {} /\ nextCurrent = current
            /\ nextOther = {} \/ TrialOf(nextOther)
         \/ current # {} /\ TrialOf(other) /\ nextCurrent = other /\ nextOther = current
         \/ \E i \in Images :
              /\ current = {[image |-> i, state |-> "TRIAL"]}
              /\ nextCurrent = {[image |-> i, state |-> "CONFIRMED"]}
              /\ nextOther = other
         \/ TrialOf(current) /\ nextCurrent = other /\ nextOther = current
<1>a. /\ boot_bank \in Banks /\ running \in Banks /\ Spare \in Banks
      /\ Banks = {running, Spare} /\ 3 - Spare = running /\ 3 - running = Spare
  BY TwoBanks DEF Safe, BoardTypeOK, Spare
<1>b. mode = "loop" => boot_bank = running /\ \E i \in Images : Carries(bank[running], i)
  BY <1>a, WholeMeans DEF Safe, Control
<1>1. CASE boot_bank' = boot_bank
  <2>1. CASE UNCHANGED bank BY <1>1, <2>1
  <2>2. CASE mode = "loop" /\ SpareWorked /\ (SpareCleared \/ SpareWritten)
    <3>1. PICK i \in Images : Carries(bank[running], i) BY <1>b, <2>2
    <3>2. current # {} BY <1>b, <2>2, <3>1, ContentIs
    <3>3. nextCurrent = current BY <1>1, <1>b, <2>2 DEF SpareWorked, SameBank
    <3>4. nextOther \in {other, {}} \/ TrialOf(nextOther)
      BY <1>1, <1>a, <1>b, <2>2, SpareSeen
    <3> QED BY <3>2, <3>3, <3>4
  <2>3. ASSUME mode = "loop", ImageState = "TRIAL",
               NEW result \in Results, RecordWorked(result)
        PROVE  \/ nextCurrent = current /\ nextOther = other
               \/ \E i \in Images :
                    /\ current = {[image |-> i, state |-> "TRIAL"]}
                    /\ nextCurrent = {[image |-> i, state |-> "CONFIRMED"]}
                    /\ nextOther = other
    <3>1. ~Stamped(bank[running])
      BY <1>a, <2>3, ConfirmsMeans DEF ImageState, StateIn
    <3>2. PICK i \in Images : Carries(bank[running], i) BY <1>b, <2>3
    <3>3. Carries(bank'[running], i) BY <2>3, <3>2, SameImages DEF RecordWorked
    <3>4. current = {[image |-> i, state |-> "TRIAL"]}
      BY <1>b, <2>3, <3>1, <3>2, ContentIs DEF StateOf
    <3>5. nextCurrent = {[image |-> i, state |-> StateOf(bank'[running])]}
      BY <1>1, <1>b, <2>3, <3>3, ContentIs
    <3>6. nextOther = other
      BY <1>1, <1>a, <1>b, <2>3 DEF RecordWorked, SameBank
    <3> QED BY <3>4, <3>5, <3>6 DEF StateOf
  <2> QED BY <2>1, <2>2, <2>3, StepFlash DEF FlashStep, Safe
<1>2. CASE boot_bank' # boot_bank
  <2>1. /\ boot_bank = running /\ boot_bank' = Spare /\ bank' = bank
        /\ \E i \in Images : Carries(bank[running], i)
        /\ \/ /\ \E i \in Images : Carries(bank[Spare], i)
              /\ ~Stamped(bank[Spare])
           \/ ~Stamped(bank[running])
    BY <1>2, BootBankMoves
  <2>2. nextCurrent = other /\ nextOther = current BY <1>a, <2>1
  <2>3. PICK i \in Images : Carries(bank[running], i) BY <2>1
  <2>4. current = {[image |-> i, state |-> StateOf(bank[running])]}
    BY <2>1, <2>3, ContentIs
  <2>5. ASSUME NEW j \in Images, Carries(bank[Spare], j), ~Stamped(bank[Spare])
        PROVE  TrialOf(other)
    BY <1>a, <2>1, <2>5, ContentIs DEF StateOf, TrialOf
  <2>6. ~Stamped(bank[running]) => TrialOf(current) BY <2>4 DEF StateOf, TrialOf
  <2>7. current # {} BY <2>4
  <2> QED BY <2>1, <2>2, <2>5, <2>6, <2>7
<1> QED BY <1>1, <1>2

\* The board keeps its promise: an installation, a confirmation and a rollback are
\* single steps, and no erase, write, failure, reset or power cut in between shows.
THEOREM BoardKeepsPromise == BoardSpec => SafeUpdateSpec
<1>1. Safe /\ [BoardNext]_boardVars => Safe' BY SafeStep
<1>2. BoardInit => Promise!Init
  <2> SUFFICES ASSUME BoardInit PROVE Promise!Init OBVIOUS
  <2>1. Whole(boot_bank) /\ boot_bank = 1 BY Delivered DEF BoardInit
  <2>2. ASSUME NEW b \in Banks, Whole(b) PROVE Content(b) \in Promise!Contents
    <3>1. ImageIn(b) \in Images BY <2>2 DEF Whole, ImageIn
    <3>2. StateIn(b) \in {"TRIAL", "CONFIRMED"} BY DEF StateIn
    <3> QED BY <2>2, <3>1, <3>2 DEF Content, Promise!Contents
  <2>3. \A b \in Banks : ~Whole(b) => Content(b) = {} BY DEF Content
  <2>4. boot_bank \in Banks /\ 3 - boot_bank \in Banks BY <2>1 DEF Banks
  <2>5. Content(boot_bank) \in Promise!Contents BY <2>1, <2>2, <2>4
  <2>6. Content(3 - boot_bank) \in Promise!Contents \union {{}} BY <2>2, <2>3, <2>4
  <2> QED BY <2>5, <2>6 DEF Promise!Init
<1>3. Safe /\ Safe' /\ [BoardNext]_boardVars
      => [Promise!Next]_<<Content(boot_bank), Content(3 - boot_bank)>>
  <2> SUFFICES ASSUME Safe, Safe', [BoardNext]_boardVars
               PROVE  [Promise!Next]_<<Content(boot_bank), Content(3 - boot_bank)>>
    OBVIOUS
  <2>1. boot_bank \in Banks /\ 3 - boot_bank \in Banks BY DEF Safe, BoardTypeOK, Banks
  <2>2. /\ Content(boot_bank) = ContentOf(bank[boot_bank])
        /\ Content(3 - boot_bank) = ContentOf(bank[3 - boot_bank])
    BY <2>1, ContentMeans
  <2>3. BoardTypeOK' BY DEF Safe
  <2> DEFINE c == Content(boot_bank)
             o == Content(3 - boot_bank)
             nc == Content(boot_bank)'
             no == Content(3 - boot_bank)'
  <2>4. nc = ContentOf(bank'[boot_bank']) /\ no = ContentOf(bank'[3 - boot_bank'])
    BY <2>3, ContentNext
  <2> HIDE DEF c, o, nc, no
  <2>5. c = ContentOf(bank[boot_bank]) /\ o = ContentOf(bank[3 - boot_bank])
    BY <2>2 DEF c, o
  <2>6. \/ nc = c /\ no = o
        \/ c # {} /\ nc = c /\ (no = {} \/ TrialOf(no))
        \/ c # {} /\ TrialOf(o) /\ nc = o /\ no = c
        \/ \E i \in Images : /\ c = {[image |-> i, state |-> "TRIAL"]}
                             /\ nc = {[image |-> i, state |-> "CONFIRMED"]}
                             /\ no = o
        \/ TrialOf(c) /\ nc = o /\ no = c
    BY <2>4, <2>5, SeenStep
  <2>7. CASE nc = c /\ no = o BY <2>7 DEF c, o, nc, no
  <2>8. CASE c # {} /\ nc = c /\ (no = {} \/ TrialOf(no))
    BY <2>8 DEF c, o, nc, no, TrialOf, Promise!Next, Promise!Receive, Promise!OnTrial
  <2>9. CASE c # {} /\ TrialOf(o) /\ nc = o /\ no = c
    BY <2>9
    DEF c, o, nc, no, TrialOf, Promise!Next, Promise!Install, Promise!Swap, Promise!OnTrial
  <2>10. CASE \E i \in Images : /\ c = {[image |-> i, state |-> "TRIAL"]}
                                /\ nc = {[image |-> i, state |-> "CONFIRMED"]}
                                /\ no = o
    BY <2>10 DEF c, o, nc, no, Promise!Next, Promise!Confirm
  <2>11. CASE TrialOf(c) /\ nc = o /\ no = c
    BY <2>11
    DEF c, o, nc, no, TrialOf, Promise!Next, Promise!GoBack, Promise!Swap, Promise!OnTrial
  <2> QED BY <2>6, <2>7, <2>8, <2>9, <2>10, <2>11
<1> QED BY <1>1, <1>2, <1>3, SafeInit, PTL DEF BoardSpec, SafeUpdateSpec, Promise!Spec
=============================================================================
