# Verification of the HMI edge node firmware

TLA+ specifications of the firmware in `src/`, the TLC runs that check them on
small instances, and TLAPS proofs of what matters most for every instance.
The firmware drives an STM32 board with two flash banks: it prints telemetry
lines on a serial wire, and over the same wire it accepts a new image of itself,
installs it in the spare bank, runs it on trial, and falls back when it hangs.

    tlc -config MCOtaUpdate.cfg MCOtaUpdate     # any run, see "Runs"
    tlapm OtaBoardProofs.tla                    # the proofs, see "Proofs"

## 1. The system

There is one main loop and one interrupt that matters (UART receive), so most of
the difficulty is not in threads but in long sequences of calls, in failures half
way through one, in resets, and in two clocks that wrap.

    host ==wire==> uart.c (interrupt) -> byte_ring.c -> ota_frame.c -> ota_update.c
                                                                        | port
         main.c loop: feed watchdog, poll updates, and                   v
         outside a session telemetry, adxl_report,      ota_port.c -> flash.c,
         vib_telemetry -> i2c.c -> sensor               option_bytes.c -> reset
                                                                        v
                            next boot: main.c, watchdog.c (rollback)

| Component | State | Operations | What makes it hard | What makes it correct |
|---|---|---|---|---|
| update session (`ota_update.c`) | session, size, checksum, write position, the last answer kept for repeats, time of the last answer | one handler per frame type, tick | repeats answered from memory; any order of frames; failures inside handlers; a clock that wraps | nothing is written outside the bank, COMMIT only with the whole image, remembered answers are true, a silent session ends and no other does |
| flash banks, record (`flash.c`, `confirm_record.c`) | two banks of double words, a record page each | erase spare, program spare, write record | power fails inside any of them; a double word is written once | the bank to boot stays whole; nobody is confirmed unasked |
| option bytes (`option_bytes.c`, `option_plan.c`) | boot bank bit | boot from a bank, launch | a write that fails after verification, a launch that does nothing | they move only with a COMMIT or a rollback, and a reset follows |
| update port (`ota_port.c`) | identity of the running image | joins session and flash | the state it reports changes under a kept answer | INFO says what the flash says |
| start-up, watchdog (`main.c`, `watchdog.c`) | reset cause flag, whether the watchdog runs | roll back, start the watchdog, loop | hang, reset, rollback, power cut in any order, before and after the watchdog counts | a trial image that keeps hanging gives way to the other bank, and no other image does |
| frame parser (`ota_frame.c`) | the bytes of one candidate | feed a byte | false starts that contain real frames | no good frame lost or split |
| receive queue (`byte_ring.c`, `uart.c`) | storage, two free-running indices | push in the interrupt, pop in the loop | every interleaving; wrap of the indices | a bounded queue |
| UART (`uart.c`) | receive flags, transmitter | interrupt, read, send a line, send an answer | flags raised after they were read; a transmitter that stops; a reset after the last byte | the interrupt ends, a call ends, an answer leaves whole and in order |
| accelerometer status (`adxl_report.c`) | last presence, time of the last line | update, probe | the sensor comes, half comes, fails | "ready" is true; a sensor wired later is found |
| vibration stream (`vib_telemetry.c`, `vibration.c`) | window, time of the last poll | poll, drain | queue overflow, bus failing in a drain, sessions | no window with a hole in it; the line keeps coming |
| accelerometer driver (`adxl345.c`, `adxl_port.c`) | the part's registers and queue | bring up, level, sample | half-done configuration | as above |
| button telemetry (`telemetry.c`) | level last seen, time of the last press | update | bouncing between passes, edges hidden by a session, the wrap of the clock | one toggle per press, none without one |
| millisecond clock (`core.c`) | total ticks, last counter | read | a pause longer than the counter's range | never runs back, loses no time under the range |
| I2C (`i2c.c`) | peripheral flags | write, write then read | flags that come late or never, a stop left over | each transfer ends and answers for itself |
| bring-up report (`bringup.c`, `wire_probe.c`) and pins (`board.c`) | pin functions, modes, pulls | sweep, scan, identify, sample | pins borrowed while they have a job; order of writes | pins as found, no device named that is not there |
| checksums (`crc16.c`, `crc32.c`, `crc_unit.c`) | the table, whether the peripheral is trusted | self-test, checksum | two paths and a peripheral that may not be as described | the remainder of the polynomial |
| temperature (`temperature.c`, `adc.c`) | calibration, converter | start up, convert | widths, refusals, waits without a bound | no false temperature; each wait ends |
| root mean square (`vibration.c`) | sums of a window | push | difference of large numbers, integer root | equal to its definition |
| fault signal (`fault.c`), C library stubs | none to speak of | | | |
| host scripts (`ota-*.ps1`) | sequence number | send, confirm, try | | the environment of everything above |

How they interact: the session calls the port synchronously, the port the flash;
a COMMIT that is acknowledged ends in a reset that never returns, so everything
in RAM is lost between one image and the next, and only flash and option bytes
connect them. The session gates the loop: while it is open no telemetry,
status or vibration is produced, which is how an update and the sensor's queue
come to interact.

`PROJECT.json` has the full list of components with what is modelled of each, the
hazards with the source line each bites at, and for every definition of a module
the lines it models.

## 2. The modules

### OtaUpdate - the update session
State: the fields of `ota_update_t` (`last` is `have_last`, `last_type`,
`last_seq` and `last_answer` together), the clock `now`, and for each step the
answer it put on the `wire` and the port `calls` it made. `silent` and `unpolled`
are history. Actions: `OnFrame` (the memory for repeats, then `Dispatch` to
`OnInfoReq`, `OnBegin`, `OnData`, `OnCommit`, `OnConfirm`, `OnAbort`),
`OnDamagedFrame`, `Tick`, and `Elapse` for time. Each handler is its check
(`BeginProblem`, `DataProblem`, ... return the NAK code, in the order of the
code's early returns), the refusal, and the outcomes of the port. A frame is
its fields; whether its length was the one its type demands is one Boolean.
What the port answers is the argument `io`, so the session alone meets every
flash. Arithmetic is modulo `WordSize` and `ClockSize` (`Plus`, `Minus`).

### OtaBoard - flash, option bytes, port, resets
EXTENDS OtaUpdate with the banks as arrays of double words (the last cell is the
record page), the boot bank bit, the running bank, the watchdog's reset flag,
whether the watchdog is running (`watched`) and a `mode`. `Handle` joins one
`OnFrame` with `PortEffect`, what flash and option bytes do for the calls of that
frame: `EraseSpare` and `ProgramSpare` may fail after any part of their work,
`WriteRecord` may leave a torn word, `BootFrom` may fail, and always does for an
image built disarmed. `StartUp`, `RollBack`, `Hang`, `WatchdogBite`, `Launch`,
`LaunchLost` and `PowerCut` are the life of the processor. COMMIT and the rollback
write the option bytes first and launch them after, and the launch may do nothing;
only the COMMIT's launch happens under a running watchdog. `Hang` is any way an
image stops: in its start-up, in its loop, or blinking in a fault handler. A power
cut may interrupt the flash operation that the next frame would have started,
leaving any part of it done. The clock stands still here and `Timeout` may come at
any moment, which is more than the real one does. A damaged frame changes nothing
on this side of the session, and is left to OtaUpdate. `blame` is history: whose
hang, or whose lost launch, the watchdog last put an end to.

`BoardInit` is the board as ST-Link leaves it, one of `Deliveries`: an image in bank 1,
and in bank 2 nothing or an image, each with a record page that is empty or holds the
record of any image, since ST-Link does not clear it (`README.md:919-923`, `949-954`).
So a board may start on trial with nothing to fall back to, or with a bank that its
record, by luck, confirms; `asked` begins with what was delivered so. `CrcOfBank` cuts
the last double word to the bytes that belong to the image, as `image_crc32()` does;
`Reads` is the same for one double word against an image.

### SafeUpdate - the promise
An abstract specification with two variables: the image the board boots with its
state, and what the other bank holds, which may be nothing. `Receive`, `Install`,
`Confirm` and `GoBack` are single steps. An image on trial is left for whatever stands
beside it, a confirmed one only for a new image on trial, and nothing is ever confirmed
but the image that runs. OtaBoard implements it under the mapping at the end of
OtaBoard.tla, with any host and from every delivery; a transfer with its failures
shows only as what it leaves in the other bank. The promise says nothing of what
`GoBack` finds there: that is finding 2.

### VibStream - the accelerometer in the main loop
`ReportTurn` and `StreamTurn` are the two halves of `service_accelerometer()`,
`SessionPass` the loop's `continue` inside a session. `Report` is
`adxl_report_update()` with `adxl345_begin()` inside, `Poll` is
`vib_telemetry_poll()` with its ways to end: `ThrowAway` (no level, or a full
queue), `Drain`, `DrainBroken`. `Sample` is the sensor's queue and the clock,
`Session` the host, `Rewire` somebody with a wire; `rewired` is history. The values of samples are left
out; whether a sample follows the one before is kept.

### MilliClock and Telemetry - the clock and the button
MilliClock is `core_tick_init()` and `core_millis()` over a hardware counter that
runs down and round; `ticks` is the true time. Telemetry EXTENDS it with a person,
a contact that may read as anything for a while after it was moved, and
`telemetry_update()` in `Pass`; inside a session `SessionPass` only reads the
clock. `uncounted` and `owed` are history: whether the press under way was acted
on, and whether the board has to.

### ByteRing, BoundedFifo and Uart - the serial driver
Every access of `byte_ring_push()` and `byte_ring_pop()` to shared memory is a
step (`PushCheck`, `PushStore`, `PushPublish`; `PopCheck`, `PopLoad`, `PopFree`),
interleaved freely. BoundedFifo is the queue it implements. The header claims
safety without masking interrupts and for any pair of one writer and one reader,
so no assumption is made on which side preempts which. The compiler
keeps the order of the accesses because storage and indices are volatile, and one
processor sees its own accesses in order, so no weaker memory order is modelled.

Uart EXTENDS the ring with its two users: the handler (`Enter` reads the flags
once, `ReadByte` and `Store` push, `Leave` clears what it saw) and the loop, which
reads or sends, never both. `HandOver`, `LastBitGone`, `Spin` and `GiveUp` are the
turns of `wait_for_flag()` in the two send calls; the transmitter has a data and a
shift register (`Shift`, `ShiftOut`) and may `Die` at any moment.

### FrameParser - the parser and the encoder
`Feed` appends a byte; `Wait`, `FalseStart` and `Deliver` are the turns of the
loop in `process()`. `Encoded` is `ota_frame_encode()`. Frames keep their shape with
smaller numbers: start byte, header ending in LEN, payload, checksum. `raw` stands
for `buf` and `count`, `received` and `delivered` are history.

### I2cBus and BringUp - the bus, the report, the accelerometer calls
I2cBus is `i2c.c` against the peripheral. A call is a record of what is still to be
sent and taken and of the flag it waits for; `Outcome` is one turn of `wait_for()`,
`SendByte`, `Turn`, `TakeByte`, `SeeStop`, `GiveUp` and `ForceStop` what follows it.

The peripheral is external, and modelled by what the processor sees of it: the status
register (`isr`), the transfer on the wires (`cr2`, `wire`), a start it had to put off
(`queued`), two bytes to send, one of them shifting (`txdr`), and the byte received last
(`rxdr`). A start clears what `i2c.c:163` clears and TC, nothing else: TXIS, RXNE and
what is in the data registers stand, whatever becomes of their transfer, until they are
written or read. A call that gives up may leave its transfer on the wires, and the next
call begins all the same: its start waits for the wires (`StartQueued`), or is lost with
everything after it (`wire = "lost"`), because what the peripheral makes of it is not
known. `BusError`, `Jam` and `Elapse` are what else happens to the wires; `Jam` is
somebody who holds the clock line, as soon as there is something to hold up.

A bus is `AtRest` when no transfer is on the wires or waiting and no byte, or flag that
asks for one, is left. `unrest` is history: whether this call (`"now"`), or one before it
(`"before"`), found the bus otherwise. Of a call that found it at rest, OK means what
`i2c.h:38` says; of any other it does not: finding 6, and the byte left behind at the end of section 4.

BringUp EXTENDS it with what calls it, from reset: `BoardInit` and
`I2cInit` write the pins one field at a time, `Drive`, `Look` and `Judge` are the
sweep, then the scan, the identification, `adxl345_begin()` and the samples of the
report, and the accelerometer's calls of the main loop.

### Vibration, Checksums, Temperature - the arithmetic
Vibration is `vibration_push()` with each turn of the integer root as a step.
Checksums has frames and images fed byte by byte to the code's sums and, as the
set of their bits, to the polynomial's remainder; `unit` is the CRC peripheral, as
described or with bits of CRC_CR that do nothing or another start value. The
operators that write to it and read it take the unit for an argument, so the self-test
(`Trusted`) can be asked of any.
Temperature is the converter's driver, its commands and waits, and the conversion
at the widths of the code. MCData has one instance of each of these three, of the parser and of the button with
its clock, and one of the five runs in each behaviour.

Some of the properties the runs check are conjunctions of properties about one
matter: `PinsKeepTheirJobs`, `ReportIsTrue`, `SensorSetUpSafely` and
`NobodyWaitsForEver` of BringUp, `StatusStaysTrue` of VibStream, `LoopRuns` of Uart,
`DeliveriesAreTrue` of FrameParser and `SumsProtect` of Checksums. Each conjunct has
its own name and comment.

Definitions named `...WithoutRoom`, `...KeepingRecord` and the like, that stand
just before the definition they resemble, are plausible slips: putting one in
the other's place must make a property fail. No specification uses them.

## 3. Runs

| Run | Configuration | Instance | What it shows |
|---|---|---|---|
| session | MCOtaUpdate.cfg | a bank of 2 double words; images of 5, 16 and 17 bytes; counts 0, 4, 8, 16; 2 checksums, 2 sequence numbers; clock of 5 units, limit 2, pass 2 (28,467 states) | the session's safety in every order of frames; a silent host leaves no session open |
| repeat_answer | MCOtaUpdateRepeat.cfg | two checksums, one number | finding 1 |
| board | MCOtaBoard.cfg | banks of 2 double words and a record; 2 images, one shorter than its double word and one that can hang; 5 deliveries: confirmed, on trial, beside nothing or beside an image, with records of their own and of others; frames of one and two words, 1 power cut, all failures, lost launches (63,850 states) | board safety with any host: an image to boot is kept, but for the rollback of a trial; SafeUpdate is implemented; nothing is confirmed unasked; no image is sent back for what another did; a COMMIT ends in a reset; a trial image the watchdog keeps stopping is replaced |
| rollback_target | MCOtaBoardRollback.cfg | no cut, no faults, a host that updates during a trial | finding 2 |
| launch_lost | MCOtaBoardLaunch.cfg | lost launches, no cut | finding 5 |
| stream | MCVibStream.cfg | queue of 4, window of 6, clock of 8, sessions, bus failures, rewiring (84,392 states) | no window has a hole, "ready" is true, the status keeps coming, a sensor wired later is found |
| stream_resume | MCVibStreamResume.cfg | sessions | finding 3 |
| button_release | MCTelemetryRelease.cfg | no session; the contact bounces as it opens, too | finding 4 |
| uart | MCUart.cfg | ring of 2, indices wrap at 4, 2 byte values, answers and lines of 2 bytes, a byte time of 1 turn, limit 3 (736,488 states) | the ring is a queue; neither the interrupt nor a call to send keeps the main loop (`LoopRuns`); an answer has left whole and in order when its call returns |
| bus | MCBringUp.cfg | 3 wirings (nothing; the sensor; the sensor at its other address with a foreign part at its own), 2 addresses, timeout 1 ms, held lines, bus errors, refused bytes; 7 pins, one of each kind and two in the hole next door (252,156 states) | OK means moved, of a call that found the bus at rest; scan, sweep and pins are true; only an ADXL345 is configured, and before it measures; every call and the report end |
| late_stop | MCBringUpLateStop.cfg | nothing or the sensor, held lines, no bus errors | finding 6 |
| data | MCData.cfg | parser: all inputs of 8 bytes over 4 values, where the start byte is also a length, a payload byte and a checksum. Root: windows of 4 samples of 6, words of 12 bits. Checksums: images of up to 7 bytes of 2 values, frames of up to 4, bursts of up to 16 bits, the peripheral as described and otherwise. Temperature: real widths, 2 genuine calibrations and 5 bad ones, 10 dies, 8 supplies. Button: counter of 8, 2 ticks to a millisecond, clock of 8 milliseconds, passes up to 4 ticks apart, debounce 4, bouncing 2 ticks (727,999 states in all) | no frame lost or split; variance, root and figure true; sums are remainders, a wrong peripheral is not trusted, a burst shows; no false temperature, every reading ends; the clock is true, every press counts, once |

Why the bounds are enough. The handlers compare sizes, offsets and counts only by
order and divisibility by 8: two double words give a first, a middle and a last
position, a short last word, an exact fit and a size too large. A clock of five
units wraps inside and between silences. Two sequence numbers tell a repeat from
a new frame. Two images are what two banks can hold; a third, the second built without the right to
write option bytes, is left to the runs of findings 2 and 5, since all that becomes of
it is a write of the option bytes that fails, and `OptionFaults` lets any write fail.
The deliveries have each kind of bank 1 (confirmed, no record, the
record of another) and of bank 2 (nothing, confirmed, another's record). One cut anywhere is followed by everything
else that can happen; `MaxCuts`, `MaxReceived`, `MaxFrame` and `MaxImage` are the
bounds that stop a counter, and they are guards of `PowerCut`, `Feed`, `FeedFrame`
and `FeedImage`. A ring of two slots with indices that wrap at twice that puts the
wrap at every filling. Two bytes are a
byte in each register of the transmitter, and three turns leave it one more than it
needs. A timeout of one millisecond is shorter and longer than a hold of the lines.
A read has a second byte, so that one can be left behind by the first.
Two addresses are one that answers and one that does not, in either order, or a part
at each; with a third and a fourth wiring the safety of the run was checked besides
(404,470 states). Eight bytes
hold a false start around a whole frame, and two frames side by side. Seven bytes of
image end on each remainder of a word; a burst of 16 bits is the longest that a 16
bit sum promises to show. The temperature has the constants of the code, so that
nothing is scaled: the points are the ends of every comparison.

Two runs leave out of a state, by a VIEW, what nothing that follows depends on, nor any
property of the run: `board` the answer and the port calls of the step before, `bus` the
byte received last when it was taken, what was moved in a call that met a bus not at
rest, and what was written to the parts once one did. No run uses symmetry.

Deadlock is not checked in `data`, whose inputs end, and in `board` and the two violations of OtaBoard, where a board hung
before the watchdog was started really stops; every other run checks it.

### Environment
- board: nothing is assumed of the order of what the host sends. The scripts keep none
  either: `ota-send-image.ps1:154-160` and `ota-try-update.ps1:158-165` send BEGIN
  without asking whether the running image was confirmed.
- board: ST-Link leaves a whole released image in bank 1 (`DeliveryAssumption`); a bank
  half written by ST-Link would not start at all.
- The host announces the size and checksum of released images only; the bytes
  that follow are arbitrary. The image checksum is taken as collision-free.
- A flash operation that reports success did its work. A write of the option
  bytes that reports failure changed nothing. Any reset stops the watchdog.
- stream: `NeverMixed` and `ReadyMeansMeasuring` are promised while the wiring is that
  of the last probe. A sensor once ready is never probed again
  (`adxl_report.c:62`), so one unplugged later stays "ready".
- button: a person is slower than the loop and than the bouncing; bouncing and one
  pass together are shorter than the debounce (`BounceAssumption`); a session opens
  with the button at rest (`Openings = "calm"`). Each is needed: with a slower pass,
  or a session that opens while the contact bounces, the loop's last look may have
  found the contact open, and the button still held counts a second time. A press
  more than one turn of the clock (49 days) after the last is not promised an
  answer: for 30 ms in each turn it is taken for bouncing (`have_edge` stays set).
- bus: between two calls the processor is slower than a stop on free lines (`Settled`):
  after a NACK the stop is on its way when the call returns, and the cure at
  `i2c.c:163`, clearing the flag before the start, rests on its having arrived
  (`i2c.c:152-157`; on the board it has). When the lines are held it need not have, nor
  when the call timed out, and then the next call begins behind it.
- bus: a start given while a transfer is on the wires waits for it or is lost; an
  abandoned transfer leaves its bytes and data flags behind; a part that is no ADXL345
  may take a byte or refuse it, in any register. Polls of the status are far quicker
  than a millisecond, and so are free wires.
- uart: a working transmitter needs at most `ByteTurns` turns of the wait for a byte,
  and the limit is more than two of those (`SendAssumption`): a byte is 347 cycles at
  4 MHz and 115,200 baud, the limit 100,000 turns. An overrun keeps the older byte.
- data: a converter in order carries out what it is told in the order the data sheet
  asks for and nothing else; a reading is a whole count of what its channel shows. A
  CRC peripheral that is not as described has bits of CRC_CR that do nothing or starts
  from another value; otherwise it divides.

### Fairness
- OtaUpdate: `WF(Tick)` and `WF(Elapse)`. The loop ticks in every pass and the
  watchdog resets a loop that stops; the clock is hardware. Nothing of the host.
- OtaBoard: `WF` of `StartUp`, `RollBack`, `Launch`, `WatchdogBite`, all of which
  the processor does alone. Nothing of the host, the power, a faulty image or a launch
  that is lost.
- VibStream: `WF(Pass)`, and `SF(Sample)` because a pass is one step here and
  disables `Sample` while it is half done, which real time does not notice.
- Uart: `WF` of the handler, of a call under way and of a transmitter that works.
- BringUp: `WF` of the pins' program, of the driver's waits and of the peripheral;
  `SF` of the program's steps on the bus and of `Elapse`, because somebody who keeps grabbing the lines and
  letting them go disables both again and again while processor and clock go on.
- Temperature: `WF` of the driver and of a converter in order.

## 4. Findings

1. `ota_update.c:262`: a repeat is recognised by type and sequence number alone. A
   host restarted right after its BEGIN that announces another image with the same
   number gets the ACK kept for the first; the session holds the first image's size
   and checksum, and the transfer fails at the end. The comment says "same frame".
2. `main.c:110`: the rollback goes to the other bank without asking what is in it.
   When an update was begun during the trial, that bank was erased.
3. `vib_telemetry.c:96`: a full queue is left full. After a session longer than the
   queue lasts, every poll finds it full, starts over and returns: no vibration
   line is sent again until the board is reset.
4. `telemetry.c:93`: nothing measures from the moment the button opens. A button held
   longer than the debounce whose contact bounces as it is let go toggles the
   equipment again.
5. `main.c:111`: the rollback launches before the watchdog is started. The comment at
   `option_bytes.c:93-95` counts on the watchdog to end a launch that does nothing;
   after a COMMIT it does, in a rollback the board stays in the loop until the power
   is cycled.
6. `i2c.c:215`: the last wait of a call forces no stop when it ends badly. With the
   lines held as the scan's address is refused, the stop comes only after the next call
   has cleared STOPF and asked for its start; that call takes it for its own and returns
   OK with nothing moved. `i2c.h:38` says every byte moved, `i2c.h:36` that a call that
   failed leaves the bus idle.

Noted on the way, without a run of its own: a COMMIT whose launch is lost is ended by
the watchdog, and the new image then finds the watchdog's flag and is rolled back
before it ever ran (`blame` in OtaBoard counts the lost launch as its own). An image
that hangs before `watchdog_start()` is never noticed, on trial or not. An image flashed
over ST-Link starts on trial, and its first watchdog reset goes to the other bank,
empty or not (`README.md:919-923` tells of one that was not; `BootBankKept` allows for
both). Nothing empties RXDR when a read is given up (`i2c.c:196`): the number of a sensor
at the other address, come too late for its own read, is taken for that of a foreign
part at 0x53, and the part is configured, though `bringup.c:215` and `adxl345.c:93` say
that such a part is never written to. To see it, put `OnlyAdxlConfigured` in the place of
`SensorSetUpSafely` in MCBringUp.cfg. `main.c:204-206` says the scan of the bring-up report lasts longer than the
watchdog would wait; 112 addresses of 5 ms are 0.56 s against 32.8 s.

## 5. Proofs

TLAPS proves what follows for every value of the constants that satisfies the named
assumptions of the modules. Each module with an ASSUME is extended by the module of
a run, so the instances that TLC checks satisfy them too.

| Assumption | What it asks, and why the code justifies it |
|---|---|
| `CapacityAssumption`, `ClockAssumption`, `FieldAssumption` (OtaUpdate) | a bank is whole double words and smaller than a word counts; the silence limit and one pass fit the clock; the fields of a frame are in their ranges |
| `ImageAssumption` (OtaBoard) | released images have the length they say, and their records are neither erased nor torn words |
| `ApartAssumption` (OtaBoard) | two released images differ in a double word that neither leaves empty and the longer one fills: no update half written is whole as the other |
| `DeliveryAssumption` (OtaBoard) | ST-Link leaves an image in bank 1, in bank 2 nothing or an image, and in a record page nothing or the record of an image (`README.md:919-923`, `949-954`) |
| `HostAssumption` (OtaBoard) | what the host sends is in the range of the session's fields |
| `CrcAssumption` (OtaBoard) | a checksum tells a released image from everything else of its length. Of 32 bits this is an idealisation; a collision would install the bytes that collide |
| `RingAssumption`, `SendAssumption` (ByteRing, Uart) | the range of the indices is a multiple of the capacity; the limit of a wait is more than two byte times |
| `ClockAssumption` (MilliClock), `BounceAssumption` (Telemetry) | readings come before the counter has gone round; the debounce outlasts the bouncing and one pass |
| `StreamAssumption` (VibStream) | a period and a pass fit the clock |
| `LayoutAssumption` (FrameParser) | a header is at least a start byte and LEN; nothing of the checksum |
| `BusAssumption`, `BringUpAssumption`, `PinAssumption` (I2cBus, BringUp) | addresses are in the range of the scan; a pin has one job |
| `VibrationAssumption`, `CalibrationAssumption` | widths of the samples, the window and the calibration |
| `GenuineAssumption` (Temperature) | a calibration that `temperature_cal_usable()` lets through is one the factory wrote, its two points in order; and the sensor's voltage reaches the reference's, past which the converter cannot tell them apart, only on a die hotter than the plausible range. For the constants of the code and typical points that is about 210 degrees |
| `ChecksumAssumption` (Checksums) | bytes and damages have eight bits, a burst at most sixteen |
| `SelfTestTells` (Checksums) | a unit that is not as described gets "123456789" wrong, by bytes or by words. It is about fifteen units and one string: TLC evaluates all of it, and the constants only say how far a table reaches that it uses up to power 63 |

Some theorems have a hypothesis besides, in the property itself. `BootBankKept` leaves
out the rollback, which is finding 2. `OkMeansMoved` is about a call that found the bus
at rest, the scan's half of `ReportIsTrue` and `SensorSetUpSafely` about a program all of
whose calls did (`unrest`): without it they are false (finding 6, and the byte left
behind in RXDR).
`OnlyPressesCount` holds for a contact that does not bounce as
it opens and for sessions that do not open while it bounces; the first is finding 4,
the second is under "Environment".

**OtaBoardProofs**, of a session by itself: `Typing`, `OffsetSafe`, `CommitIsWhole`,
`RememberedAnswersHold`, `SilenceIsMeasured`, `TimeoutNotEarly`, `CommitIsFinal`.
`TypeOK` is inductive alone. Each of the other invariants is proved inductive
together with those before it: `OffsetInBounds` needs the types; `CommittedIsWhole`
needs `OffsetInBounds`, because COMMIT only compares with the unpadded size, and
the missing argument is that an aligned position that is at least the size and at
most the padded size is the padded size. `SilenceMeasured` is where the wrap
matters: the true silence stays under the limit plus one pass, `ClockAssumption`
puts that under the range of the clock, so the wrapped difference equals it.
Without the second conjunct, `silent < Silence + unpolled`, the first would not
be inductive. The handlers are many and what they may do is little, so the lemma
`FrameEffect` first sorts every frame's step into a few kinds, and each
invariant is then proved for the kinds.

**OtaBoardProofs**, of the board: `BoardTyping`, `OptionsLeaveOnlyToCommit`, `RollbackDeserved`,
`ConfirmationsAsked`, `CellsErased`, `InstalledIsAnnounced`, `RepeatedInfoTrue`,
`BootBankIsKept` and `BoardKeepsPromise`, for any host and every delivery.
The same plan one level up. `HandleKinds` sorts what a frame with
its effects on flash and options can do (`FrameKinds`: nothing to the flash, open a
session, fail to, program, fail to, commit, write the record), and `StepFlash` says of
every step of the board, power cuts included, that it leaves the flash alone or changes
cells of the spare bank or the running bank's record. The invariants then come in
layers, each with those before it: the types; `Control`, which ties what the
processor is doing to the option bytes, the session and the history `blame`;
`RecordsTell`, which follows from the delivery through every erase and every
half-written image what a record says of the bank it is in; `DataMeetsErasedCells`;
`Announced`, that an open session has size and
checksum of a released image, from which, with `CrcAssumption`, `CommittedIsAnnounced`.
`Safe` is all of them together, and carries `BootBankKept`, as the option bytes move only
to a bank that COMMIT has compared or by the rollback (`BootBankMoves`), and the
refinement: `ContentOf` turns SafeUpdate's variables into functions of the two banks, and
each kind of step changes them as one of SafeUpdate's does, or not at all. Where an image
could be taken for another, half way through a transfer, `ApartAssumption` is what
excludes it (`WornIsNoOther`, `OneImage`).

**UartProofs**: of the ring, `RingTyping`, `SidesStayApart` and `RingIsQueue`. What a
side read may be old when it acts on it: `SidesApart` states what remains true of it,
that a push under way still has its slot and a pop under way still its byte.
`WaitingMoves` is the arithmetic of the wrapping difference. For the refinement,
`PublishPuts` and `FreeTakes` show the two steps in which the queue changes, and
`StoreUnseen` that the byte stored but not yet published is outside of it. Of the driver,
`DriverUsesRing`, that its every step is a step of the ring or leaves it alone, and so
`DriverSidesApart` and `DriverHasQueue`; and `AnswersLeaveWhole` and `BytesStayInOrder`,
whose invariant says where each byte of the call is: sent, in the shift register, in
the data register, or still to come, and how many turns of the wait a working
transmitter has used, so that with `SendAssumption` the wait is given up only when it
stopped.

**FrameParserProofs**: `CandidateStaysOpen`, `FramesStoodOnTheWire`, `NoFrameIsLost`, for
inputs of any length. `NoFrameLost` is about every frame on the wire, and what makes it
inductive is a claim about every byte the parser let go of, `Judged`: a start byte
before the candidate lies inside a good frame that was delivered, or no frame
begins at it, because its LEN is too large or the whole of it arrived and its checksum
is wrong. The encoder's frames are neither (`EncodedIsAFrame`), whatever the checksum
computes, since the parser computes the same.

**BringUpProofs**: `PinsStayInTheirJobs`, `ReportStaysTrue`, `SensorIsSetUpSafely`,
`OkMeansAllMoved`. The invariant has four parts. `BusInv` is in three layers, each
promised under less than the one before: the types, whatever the bus goes through;
`Going`, of a call that found the bus at rest, which relates it to the peripheral (which
flags may stand at which phase of the wires, with how many bytes moved and how many
given); and `Clean`, of a program all of whose calls did, that what is on the wires,
of a call given up even, may be written where it goes. A call that finds the bus
otherwise has nothing to prove but its types, and one after it that finds it at rest
again starts `Going` afresh: no flag or byte of another's stands at that moment, but for
the stop and the errors, which `BeginTransfer` clears. `ProgramInv` says which call is
under way at each stage and how far
`adxl345_begin()` is. `PinsInv` gives the value of every pin at every stage, with one
of them borrowed at most. `Lines` follows the report. Each step of the driver, of the
peripheral, of the program and of the pins is a lemma of its own. Timeouts, bus
errors and forced stops are all in it.

**VibStreamProofs**: `StreamTyping`, `WindowsAreWhole`, `ReadyIsTrue`. The strengthening is
`GapMeansFull`: samples missing behind a window that was begun mean that the queue
is full, which is what the next poll starts over for; and `FoundFirst`, that the stream
runs only for a sensor that was found. The length of a pass plays no part in it.

**TelemetryProofs**: `ClockStaysTrue`, for the clock alone. The inductive invariant adds
`UnreadIsSeen` to `ClockIsTrue`: the difference of the counter and its last reading,
modulo its size, is the time between them, which is where the bound on the gap between
readings is used. The rest is arithmetic with remainders of variable divisors, from
the uniqueness of the remainder (`Remainder`) to `WholeTurns` and `Scaled`.
`LoopClockStaysTrue` is the same for the main loop, whose every step is a step of the
clock or leaves it alone. `HeldPressesCount` and `PressesCountOnce` are the debounce on
that clock: `EdgeRemembered` relates the milliseconds kept of the last press to the
true time since, `ReadingTells` turns the wrapping difference into that time to within
a millisecond, and `StillOwed` says what is true while a press waits for its answer:
it was never read as down, and the clock will not go right round first.
`CountedIsYoung` is the converse, for a press that was answered and is read as up.
The attempt to prove the first showed `owed` to be wrong by a pass: a press that comes
just before the clock has gone right round since the last one is excused only if the
bouncing, the gap to the next pass and a millisecond still fit before that.
TLC's instance was too small to meet it, and the model was corrected.

**ArithmeticProofs**: `VarianceNeverWraps`, that no window makes the difference of the
two sums negative or too large for its type: each sample adds at most its share, and
the square of a sum is at most the number of samples times the sum of squares, which
is carried along sample by sample. `RootIsExact`, that the root found is the floor of
the true one: the invariant relates what remains of the value to the digits found so
far and the power in hand. `ReadingIsExact` joins them: the difference of the running
sums is the variance summed pair by pair over the whole window, so the figure is the
floor of its root. The sum over pairs is a fold, taken in whatever order; `FoldAnyOrder`
and `FoldOfPart` say that the order does not matter and that a part is folded
alike, and a sample more adds one pair with each sample before it. `ArithmeticFits`, that the conversion's products fit their
types for every calibration and reading it accepts, and `LinesReadBack`, that the line's
sign, whole part and tenth give the number back. `LinesAreTrue`, that a line sent is the
temperature of the die: its invariant follows the two readings from the channel to the
conversion, and the error of the line is that of two divisions.

**ChecksumProofs**: `SumsStayRemainders`, `SumsAreProtected`, `VerifiesTruly`, for
messages of every length and content. A register is the set of its ones, a
polynomial the set of its powers. One turn of each loop is a `Shift`: a place up, and
the divisor off when the highest power comes out. `ShiftAdds` and `RemainderAdds` say
that shifting and dividing keep sums, `RemainderOfUp` that what has been divided may be
moved up in place of what it was. So each way of taking a byte, the sixteen bit loop
(`Crc16UpdateGrows`), the table (`SoftDivides`), the peripheral by bytes and by
words (`ByteWritten`, `WordGrows`), leaves the remainder of the message so far, which
grows by `PolynomialGrows`. Damage is a sum with the message, so the two sums of a frame
differ by the remainder of the damage alone; within sixteen places it is a register
moved up, and a shift never makes nothing of something (`ShiftKeeps`, `RemainderShows`).
That a trusted unit is as described is `SelfTestTells`.

Loops, folds and recursive functions run over data, and the library's induction
theorems cannot be used. `Climb` stands for induction: the claim is the set of numbers
it holds of, and a least number outside it would have a predecessor inside. `Gather` is the
same for sets of powers. Recursive functions are shown to exist first (`FoldExists`,
`LeavesExist`), since CHOOSE of an equation says nothing until it has a solution.

**Proved and not in a passing run**: `SilenceMeasured`, `CommittedIsFinal`, `SidesApart`,
`LineReadsBack`, `Control`, `ChecksumInv`, and the types of ring, board and stream.

**Only model-checked**:
- liveness (`SilentHostFreesWire`, `HungTrialReplaced`, `CommitEndsInReset`,
  `StatusStaysTrue`, `LoopRuns`, `NobodyWaitsForEver`, `ReadingEnds`), which is beyond
  the prover. Every other property of a passing run is stated by a theorem.

## 6. Plan

Done, in the order of what would cost a user most: OtaUpdate with its proofs;
OtaBoard implementing SafeUpdate, with the start-up, the watchdog and the launch in
their steps; VibStream; ByteRing implementing BoundedFifo, and Uart on top of it;
FrameParser with the encoder; MilliClock and Telemetry; I2cBus and BringUp; the
arithmetic; then the proofs of all safety properties.

To come:

1. The main loop composed: one pass over session, button, status and stream, for the
   length of a pass against `MaxGap` and `MaxPass`.
2. The step of `ota_update_poll()` that joins ring, parser and session.

### Not modelled
- The host scripts and a link that loses bytes. The scripts send each frame once and
  stop at an answer they do not expect, and take an answer for theirs by its type
  alone, so there is no retry for a model of the link to check; the session and the
  parser are checked against every host and every input instead.
- Register addresses, clock and baud rate set-up, the controller's lock and cache
  bits, the sample bytes and the wording of lines: data without control.
- How often the fault signal blinks. The vendor's stubs for files and heap
  (`syscalls.c`, `sysmem.c`), which nothing calls.
- `i2c1_read()`, which nothing calls.
