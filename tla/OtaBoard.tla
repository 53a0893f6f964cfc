------------------------------- MODULE OtaBoard -------------------------------
(***************************************************************************)
(* The board around the session of OtaUpdate.tla: the two flash banks and  *)
(* the record page of each (flash.c, confirm_record.c), the option bit     *)
(* that chooses the boot bank (option_bytes.c), the port that joins them   *)
(* to the session (ota_port.c), and the start-up that rolls back an image  *)
(* that hung (main.c, watchdog.c).  Power may fail between any two steps   *)
(* and in the middle of every flash operation, and the launch that is to   *)
(* reset the chip may do nothing.                                          *)
(*                                                                         *)
(* A bank is its double words, the last cell being the record page.  The   *)
(* CRC is collision-free, and the clock of OtaUpdate stands still: its     *)
(* timeout may come at any moment instead.                                 *)
(***************************************************************************)
EXTENDS OtaUpdate, Sequences

CONSTANTS
  Images,           \* released images: [size, words, hangs, armed]
  Words,            \* what one double word can hold
  Erased, Torn,     \* all ones, and what an interrupted write leaves
  First(_, _),      \* so many first bytes of a double word
  CrcOf(_),         \* crc32 of a sequence of double words
  RecordOf(_),      \* confirm_record_build() of an identity
  Payloads,         \* the image bytes of DATA frames: sequences of Words
  Deliveries,       \* what the two banks may hold when the board is first started
  OptionFaults,     \* whether a write of the option bytes can fail
  LaunchFaults,     \* whether OBL_LAUNCH can do nothing
  MaxCuts           \* bound: how often the power fails

RecordCell == Capacity \div OTA_DATA_ALIGN
Cells == 0 .. RecordCell
Banks == {1, 2}

\* Whether a double word is the k-th one of an image: the last one only as far
\* as the image goes.
Reads(word, k, i) ==
  i.words[k] = IF OTA_DATA_ALIGN * k <= i.size THEN word
               ELSE First(i.size % OTA_DATA_ALIGN, word)

ASSUME ImageAssumption ==
  /\ {Erased, Torn} \subseteq Words /\ MaxCuts \in Nat
  /\ \A n \in 1 .. OTA_DATA_ALIGN, word \in Words : First(n, word) \in Words
  /\ OptionFaults \in BOOLEAN /\ LaunchFaults \in BOOLEAN
  /\ \A i \in Images :
       /\ i.size \in 1 .. Capacity /\ i.words \in Seq(Words)
       /\ i.hangs \in BOOLEAN /\ i.armed \in BOOLEAN
       /\ OTA_DATA_ALIGN * Len(i.words) = Padded(i.size)
       /\ RecordOf(CrcOf(i.words)) \in Words \ {Erased, Torn}

\* Two released images differ in a double word that neither leaves empty and the
\* longer one fills.
ASSUME ApartAssumption ==
  \A i, j \in Images :
    i # j /\ i.size <= j.size =>
      \E k \in 1 .. Len(i.words) :
        /\ OTA_DATA_ALIGN * k <= j.size /\ j.words[k] # Erased
        /\ ~Reads(j.words[k], k, i) /\ ~Reads(Erased, k, i)

\* ST-Link writes whole images and leaves the record page as it finds it: empty,
\* or with the record of any image (README.md:919-923, 949-954).
ASSUME DeliveryAssumption ==
  \A flashed \in Deliveries :
    /\ flashed \in [Banks -> [Cells -> Words]]
    /\ \A b \in Banks :
         /\ \/ \A c \in Cells : flashed[b][c] = Erased /\ b = 2
            \/ \E i \in Images : \A k \in 1 .. Len(i.words) :
                                   Reads(flashed[b][k - 1], k, i)
         /\ flashed[b][RecordCell] \in
              {Erased} \union {RecordOf(CrcOf(i.words)) : i \in Images}

\* What the host sends is in the range of the session's fields, and a checksum
\* tells a released image from everything else of its length.
ASSUME HostAssumption ==
  /\ \A i \in Images : i.size \in Sizes
  /\ Payloads \subseteq Seq(Words)
  /\ \A data \in Payloads : OTA_DATA_ALIGN * Len(data) \in Counts
ASSUME CrcAssumption ==
  /\ \A n \in Cells : \A words \in [1 .. n -> Words] : CrcOf(words) \in Crcs
  /\ \A i \in Images : \A words \in [1 .. Len(i.words) -> Words] :
       CrcOf(words) = CrcOf(i.words) => words = i.words

VARIABLES
  bank,        \* what the flash holds
  boot_bank,   \* BFB2 in FLASH_OPTR
  running,     \* FB_MODE: the bank mapped at the start of the flash
  wdg_flag,    \* IWDGRSTF in RCC_CSR
  watched,     \* the independent watchdog was started since the last reset
  mode,        \* booting, in the main loop, hung, launching options, or dead
  blame,       \* history: the bank whose image, or whose launch, hung last, or 0
  asked,       \* history: the bank was confirmed, or delivered so, since it was written
  cuts         \* how often the power has failed

flash == <<bank, boot_bank, asked>>
processor == <<running, wdg_flag, watched, mode, blame>>
board == <<flash, processor, cuts>>
boardVars == <<vars, board>>

Spare == 3 - running
Results == {"OK", "FAILED"}

\* crc_unit_compute_words() or crc32_compute() over the first size bytes.
CrcOfBank(b, size) ==
  CrcOf([k \in 1 .. Padded(size) \div OTA_DATA_ALIGN |->
           IF OTA_DATA_ALIGN * k <= size THEN bank[b][k - 1]
           ELSE First(size % OTA_DATA_ALIGN, bank[b][k - 1])])

Holds(b, i) == \A k \in 1 .. Len(i.words) : Reads(bank[b][k - 1], k, i)
Whole(b) == \E i \in Images : Holds(b, i)
ImageIn(b) == CHOOSE i \in Images : Holds(b, i)

\* running_identity(): the checksum of the image in the bank.
Identity(b) == CrcOf(ImageIn(b).words)
Confirms(b) == Whole(b) /\ bank[b][RecordCell] = RecordOf(Identity(b))
StateIn(b) == IF Confirms(b) THEN "CONFIRMED" ELSE "TRIAL"
ImageState == StateIn(running)

-----------------------------------------------------------------------------
\* As in OtaUpdate.tla, slips stand before what they are a slip of.
EraseSpareKeepingRecord(result) ==
  /\ bank' = [bank EXCEPT ![Spare] =
                [c \in Cells |-> IF c # RecordCell THEN Erased ELSE @[c]]]
  /\ asked' = [asked EXCEPT ![Spare] = FALSE]

\* flash_erase_spare(): every cell, the record page included, or some of them.
EraseSpare(result) ==
  \E gone \in SUBSET Cells :
    /\ result = "OK" => gone = Cells
    /\ bank' = [bank EXCEPT ![Spare] =
                  [c \in Cells |-> IF c \in gone THEN Erased ELSE @[c]]]
    /\ asked' = IF gone = Cells THEN [asked EXCEPT ![Spare] = FALSE] ELSE asked

\* flash_program_spare(): refused outside the image area.  A double word that
\* is not erased cannot be written; the first failure ends the loop.
ProgramSpare(offset, data, result) ==
  LET first == offset \div OTA_DATA_ALIGN
      Refused == \/ offset % OTA_DATA_ALIGN # 0
                 \/ offset + OTA_DATA_ALIGN * Len(data) > Capacity
      Written(done) == [c \in Cells |->
        IF c \in first .. first + done - 1 THEN data[c - first + 1]
        ELSE bank[Spare][c]]
  IN /\ UNCHANGED asked
     /\ \/ Refused /\ result = "FAILED" /\ UNCHANGED bank
        \/ /\ ~Refused
           /\ \E done \in 0 .. Len(data) :
                /\ \A c \in first .. first + done - 1 : bank[Spare][c] = Erased
                /\ result = "OK" <=> done = Len(data)
                /\ \/ bank' = [bank EXCEPT ![Spare] = Written(done)]
                   \/ /\ result = "FAILED"
                      /\ bank' = [bank EXCEPT ![Spare] =
                                    [Written(done) EXCEPT ![first + done] = Torn]]

\* flash_write_confirm_record() in the running bank.
WriteRecord(result) ==
  LET wanted == RecordOf(Identity(running))
      found == bank[running][RecordCell]
  IN /\ asked' = [asked EXCEPT ![running] = TRUE]
     /\ \/ found = wanted /\ result = "OK" /\ UNCHANGED bank
        \/ found \notin {wanted, Erased} /\ result = "FAILED" /\ UNCHANGED bank
        \/ /\ found = Erased
           /\ \E w \in IF result = "OK" THEN {wanted} ELSE {Torn, Erased} :
                bank' = [bank EXCEPT ![running][RecordCell] = w]

BootFromUnchecked(b, result) == boot_bank' = b

\* Whether the image that runs may write option bytes: it was built armed. A
\* chip with read protection refuses every image, as if none were.
Armed == ImageIn(running).armed

\* option_bytes_boot_from(): a bank already chosen counts as a failure.
BootFrom(b, result) ==
  /\ result = "OK" => Armed /\ boot_bank # b
  /\ result = "FAILED" => OptionFaults \/ ~Armed \/ boot_bank = b
  /\ boot_bank' = IF result = "OK" THEN b ELSE boot_bank

\* What the port does for the calls of this step (ota_port.c).
PortEffect(data, result) ==
  /\ IF "select" \in calls' THEN BootFrom(Spare, result) ELSE UNCHANGED boot_bank
  /\ IF "erase" \in calls' THEN EraseSpare(result)
     ELSE IF "program" \in calls' THEN ProgramSpare(next_offset, data, result)
     ELSE IF "confirm" \in calls' THEN WriteRecord(result)
     ELSE UNCHANGED <<bank, asked>>

-----------------------------------------------------------------------------
\* A frame of the host.  DATA carries the image bytes; the host announces
\* released images only, but what arrives as their bytes is arbitrary.
Command(type, seq) == [type |-> type, seq |-> seq, shaped |-> TRUE]
Announce(i, seq) ==
  [type |-> "BEGIN", seq |-> seq, shaped |-> TRUE,
   size |-> i.size, crc |-> CrcOf(i.words)]
Data(data, offset, seq) ==
  [type |-> "DATA", seq |-> seq, offset |-> offset,
   count |-> OTA_DATA_ALIGN * Len(data)]

IoOfRunningBank(result) ==
  [result |-> result, state |-> ImageState,
   crc |-> IF InSession THEN CrcOfBank(running, image_size) ELSE 0]

Io(result) ==
  [result |-> result, state |-> ImageState,
   crc |-> IF InSession THEN CrcOfBank(Spare, image_size) ELSE 0]

\* The loop hands one frame to the session.  After the ACK to COMMIT the port's
\* request_reset() does not return: the board waits for the launch.
Handle(f, data) ==
  /\ mode = "loop"
  /\ \E result \in Results :
       OnFrame(f, Io(result)) /\ PortEffect(data, result)
  /\ mode' = IF "reset" \in calls' THEN "launching" ELSE mode
  /\ UNCHANGED <<running, wdg_flag, watched, blame, cuts>>

HandleCommand ==
  \E type \in {"INFO_REQ", "COMMIT", "CONFIRM", "ABORT"}, seq \in Seqs :
    Handle(Command(type, seq), <<>>)
HandleBegin ==
  \E i \in Images, seq \in Seqs : Handle(Announce(i, seq), <<>>)
HandleData ==
  \E data \in Payloads, offset \in Offsets, seq \in Seqs :
    Handle(Data(data, offset, seq), data)

\* The session timed out.
Timeout ==
  /\ mode = "loop" /\ InSession
  /\ EndSession /\ wire' = NoAnswer /\ calls' = {}
  /\ UNCHANGED <<last_answer_ms, clock, board>>

\* Every reset: RAM is lost, the watchdog stops, the option bytes choose the bank.
Reset(flag) ==
  /\ session' = "IDLE" /\ image_size' = 0 /\ image_crc32' = 0 /\ next_offset' = 0
  /\ last' = NoLast /\ wire' = NoAnswer /\ calls' = {}
  /\ running' = boot_bank' /\ wdg_flag' = flag /\ watched' = FALSE
  /\ mode' = IF Whole(boot_bank)' THEN "booting" ELSE "dead"
  /\ UNCHANGED <<last_answer_ms, clock>>

\* option_bytes_launch().
Launch == mode = "launching" /\ UNCHANGED <<flash, blame, cuts>> /\ Reset(wdg_flag)

\* The write to FLASH_CR does nothing: the endless loop after it is reached.
LaunchLost ==
  /\ mode = "launching" /\ LaunchFaults
  /\ mode' = "hung" /\ blame' = boot_bank
  /\ UNCHANGED <<vars, flash, running, wdg_flag, watched, cuts>>

StartUpKeepingFlag ==
  /\ mode = "booting" /\ ~(wdg_flag /\ ImageState = "TRIAL")
  /\ mode' = "loop" /\ watched' = TRUE /\ blame' = 0
  /\ UNCHANGED <<vars, flash, running, wdg_flag, cuts>>
StartUpUnwatched ==
  /\ mode = "booting" /\ ~(wdg_flag /\ ImageState = "TRIAL")
  /\ mode' = "loop" /\ wdg_flag' = FALSE /\ blame' = 0
  /\ UNCHANGED <<vars, flash, running, watched, cuts>>

\* main() up to the loop: the reset cause is read and cleared, and the watchdog
\* is started last.
StartUp ==
  /\ mode = "booting" /\ ~(wdg_flag /\ ImageState = "TRIAL")
  /\ mode' = "loop" /\ wdg_flag' = FALSE /\ watched' = TRUE /\ blame' = 0
  /\ UNCHANGED <<vars, flash, running, cuts>>

\* The same, when a trial image is found that the watchdog had to stop: it is
\* sent back to the other bank, by a launch before the watchdog is started.
RollBack ==
  /\ mode = "booting" /\ wdg_flag /\ ImageState = "TRIAL"
  /\ wdg_flag' = FALSE /\ blame' = 0
  /\ \/ BootFrom(Spare, "OK") /\ mode' = "launching" /\ UNCHANGED watched
     \/ BootFrom(Spare, "FAILED") /\ mode' = "loop" /\ watched' = TRUE
  /\ UNCHANGED <<vars, bank, asked, running, cuts>>

\* A faulty image stops: in its start-up, in its loop, or blinking in a fault
\* handler. Nobody feeds the watchdog, if there is one yet.
Hang ==
  /\ mode \in {"booting", "loop"} /\ ImageIn(running).hangs
  /\ mode' = "hung" /\ blame' = running
  /\ UNCHANGED <<vars, flash, running, wdg_flag, watched, cuts>>

\* The cause of the reset is cleared before main() reads it.
WatchdogBiteUnseen ==
  mode = "hung" /\ watched /\ UNCHANGED <<flash, blame, cuts>> /\ Reset(FALSE)

WatchdogBite ==
  mode = "hung" /\ watched /\ UNCHANGED <<flash, blame, cuts>> /\ Reset(TRUE)

\* Power fails: between two steps, or inside the one flash operation the next
\* frame would have started, which then did all or a part of its work.
Interrupted ==
  \/ UNCHANGED <<bank, asked>>
  \/ /\ mode = "loop" /\ session # "COMMITTED"
     /\ \E result \in Results : EraseSpare(result)
  \/ /\ mode = "loop" /\ InSession
     /\ \E data \in Payloads, result \in Results :
          /\ OTA_DATA_ALIGN * Len(data) <= Padded(image_size) - next_offset
          /\ ProgramSpare(next_offset, data, result)
  \/ /\ mode = "loop" /\ session = "IDLE" /\ ImageState = "TRIAL"
     /\ \E result \in Results : WriteRecord(result)

PowerCut ==
  /\ mode # "dead" /\ cuts < MaxCuts /\ cuts' = cuts + 1
  /\ Interrupted /\ blame' = 0 /\ UNCHANGED boot_bank /\ Reset(FALSE)

-----------------------------------------------------------------------------
\* A board as ST-Link leaves it: an image in bank 1, and in bank 2 nothing or what
\* an earlier update or an earlier flashing put there.
BoardInit ==
  /\ InitSession /\ now = 0 /\ silent = 0 /\ unpolled = 0
  /\ bank \in Deliveries /\ asked = [b \in Banks |-> Confirms(b)]
  /\ boot_bank = 1 /\ running = 1 /\ mode = "booting"
  /\ wdg_flag = FALSE /\ watched = FALSE /\ blame = 0 /\ cuts = 0

BoardNext ==
  \/ HandleCommand \/ HandleBegin \/ HandleData \/ Timeout
  \/ Launch \/ LaunchLost \/ StartUp \/ RollBack \/ Hang \/ WatchdogBite \/ PowerCut

\* Start-up, the launch and the watchdog are the processor's own doing; nothing
\* is assumed of the host, of the power, of a faulty image or a lost launch.
BoardSpec ==
  /\ BoardInit /\ [][BoardNext]_boardVars
  /\ WF_boardVars(StartUp) /\ WF_boardVars(RollBack)
  /\ WF_boardVars(Launch) /\ WF_boardVars(WatchdogBite)
-----------------------------------------------------------------------------
\* A board that can start goes on being one, whenever the power may fail in the
\* middle of an erase, of a write or of a COMMIT and whatever the host sends. One
\* thing alone can leave it without a whole image to boot: the rollback of an image
\* on trial, to a bank that was delivered empty or that an update has erased since.
BootBankKept == [][Whole(boot_bank) /\ ~Whole(boot_bank)' => RollBack]_boardVars

\* The option bytes leave the running bank only inside COMMIT and the rollback,
\* and no frame is handled from then until the reset: the bank that the next
\* BEGIN erases is never the one the board is told to boot
\* (src/Src/ota_update.c:285-291).
OptionsFollowCommit ==
  boot_bank # running => /\ mode \in {"launching", "hung"}
                         /\ session = "COMMITTED" \/ ~watched

\* No image is ever CONFIRMED without a CONFIRM carried out while it ran, unless it
\* was delivered so: not by a power cut, not by image bytes that look like a record (flash.c:194-199),
\* not by the record of the image that was in the bank before.
NoUnaskedConfirmation == \A b \in Banks : Confirms(b) => asked[b]

\* An INFO kept for a repeat still says what the record in flash says, although
\* the record may have been written since it was first sent.
InfoStillTrue ==
  last.type = "INFO_REQ" => last.answer.state = ImageState

\* The controller refuses to write a double word twice.  Whatever failures,
\* repeats and restarted transfers came before, an open session finds every
\* cell from the write position on erased, the record page included.
DataMeetsErasedCells ==
  InSession => \A c \in Cells :
    c * OTA_DATA_ALIGN >= next_offset => bank[Spare][c] = Erased

\* What is installed is what was announced: the board switches banks only to
\* the image whose BEGIN opened this session, whole, whatever bytes arrived.
CommittedIsAnnounced ==
  session = "COMMITTED" =>
    \E i \in Images : /\ i.size = image_size /\ CrcOf(i.words) = image_crc32
                      /\ Holds(boot_bank, i)

\* "The next boot is sent back to the bank that was working before"
\* (src/Src/main.c:93-95): a rollback ends in a whole image that was confirmed.
RollbackReturnsToWorkingImage ==
  [][RollBack /\ boot_bank' # boot_bank => Confirms(boot_bank')]_boardVars

\* "An image that has not been confirmed AND was just reset by the watchdog is an
\* image that cannot look after itself" (src/Src/main.c:93-95): an image is sent
\* back only for a hang of its own, or because the launch that was to start it
\* was lost, never for what an image before it did.
RollBackIsDeserved ==
  [][RollBack /\ boot_bank' # boot_bank => blame = running]_boardVars

\* An image on trial that goes on being stopped by the watchdog does not keep the
\* board, however often the power was cut, a launch was lost or the option bytes
\* could not be written before: if they can in the end, the other bank is booted.
RollBackFails == RollBack /\ boot_bank' = boot_bank
HungTrialReplaced ==
  <>[][~RollBackFails /\ ~LaunchLost]_boardVars =>
    \A b \in Banks :
      []<>(mode = "hung" /\ watched /\ ImageState = "TRIAL" /\ running = b)
        => []<>(running # b)

\* A COMMIT that was acknowledged ends in a reset, by the launch or by the
\* watchdog when the launch did nothing.
CommitEndsInReset == session = "COMMITTED" ~> mode = "booting"

\* "If the reset somehow does not happen, the watchdog ends it within about 32 s"
\* (src/Src/option_bytes.c:92-95), said of every launch.
LaunchEndsInReset == mode = "launching" ~> mode = "booting"

\* The board implements SafeUpdate: seen from outside, an installation, a
\* confirmation and a rollback are single steps, and nothing else happens.
Content(b) ==
  IF Whole(b) THEN {[image |-> ImageIn(b), state |-> StateIn(b)]} ELSE {}
Promise ==
  INSTANCE SafeUpdate WITH
    current <- Content(boot_bank), other <- Content(3 - boot_bank)
SafeUpdateSpec == Promise!Spec
=============================================================================
