--------------------------------- MODULE BringUp ---------------------------------
(***************************************************************************)
(* The pins and the sensor's bus from reset to the main loop: board_init(), *)
(* i2c1_init(), the one shot diagnostic (bringup.c, wire_probe.c) with its  *)
(* sweep of the pins and its scan of the bus, and after it the accelerometer*)
(* calls of the main loop (adxl345.c through adxl_port.c).                  *)
(*                                                                         *)
(* A pin is its mode, pull and alternate function; a report line is what it *)
(* says.  said holds the lines of the stage under way.                      *)
(***************************************************************************)
EXTENDS I2cBus, SequencesExt

CONSTANTS
  UartPins, LedPin, ButtonPin,   \* the pins that keep their job
  I2cPins,                \* SCL and SDA, in the order they are set up and reported
  FreePins,
  HeldPins,               \* the pins something outside holds up
  SCAN_LAST_ADDRESS,      \* addresses are 1 .. SCAN_LAST_ADDRESS
  AltLow,                 \* ADXL345_ADDRESS_ALT_LOW, also the first DEVID read
  AltHigh,
  SAMPLES_TO_SHOW, SampleBytes

Keep == UartPins \cup {LedPin, ButtonPin}
Pins == Keep \cup Range(I2cPins) \cup FreePins
SweepOrder == SetToSeq(Pins)

ASSUME BringUpAssumption ==
  /\ HeldPins \subseteq Pins /\ {AltLow, AltHigh} \subseteq 1 .. SCAN_LAST_ADDRESS
  /\ \A wiring \in Wirings : DOMAIN wiring \subseteq 1 .. SCAN_LAST_ADDRESS
  /\ SCAN_LAST_ADDRESS \in Nat /\ {SAMPLES_TO_SHOW, SampleBytes} \subseteq Nat \ {0}

\* The pins are the package's, and each has one job (registers.h).
ASSUME PinAssumption ==
  /\ IsFiniteSet(UartPins) /\ IsFiniteSet(FreePins)
  /\ I2cPins \in Seq(Range(I2cPins)) /\ I2cPins # <<>> /\ IsInjective(I2cPins)
  /\ LedPin \notin UartPins /\ ButtonPin \notin UartPins \cup {LedPin}
  /\ Range(I2cPins) \cap Keep = {}

VARIABLES
  pins,
  stage,       \* where the program is
  item,        \* the pin, address, register or sample it is at
  look,        \* the reading of a pin under way: the pull, what the pin was, the levels
  said,
  brought_up   \* adxl345_begin() answered ADXL345_OK

program == <<pins, stage, item, look, said, brought_up>>
vars == <<bus, program>>

Go(where) == stage' = where /\ item' = 1
Stay == UNCHANGED stage /\ item' = item + 1
NoLook == [pull |-> "none", was |-> <<>>, levels |-> <<>>]
Say(lines) == said' = said \cup lines

-----------------------------------------------------------------------------
\* AFRL and AFRH first, MODER last (board.c:14-24, i2c.c:81-90).
PinOrder == <<"af", "mode">>

Function(pin) == IF pin \in UartPins THEN "AF7" ELSE "AF4"

\* One write of a function or mode register for some pins.
SetUp(some, field) ==
  [pin \in Pins |->
     IF pin \notin some THEN pins[pin]
     ELSE IF field = "af" THEN [pins[pin] EXCEPT !.af = Function(pin)]
     ELSE [pins[pin] EXCEPT !.mode = "alternate"]]

\* board_init(): the UART pair, then the LED and the button.
BoardInit ==
  /\ stage = "board_init"
  /\ \/ item <= 2 /\ pins' = SetUp(UartPins, PinOrder[item]) /\ Stay
     \/ /\ item = 3 /\ Go("i2c1_init")
        /\ pins' = [pins EXCEPT ![LedPin].mode = "output",
                                ![ButtonPin].mode = "input", ![ButtonPin].pull = "up"]
  /\ UNCHANGED <<look, said, brought_up>>

\* i2c1_init(), pin after pin: at start-up and again after the sweep.
I2cInit ==
  /\ stage \in {"i2c1_init", "i2c1_init_again"}
  /\ LET pin == I2cPins[(item + 1) \div 2]
         set == SetUp({pin}, PinOrder[2 - (item % 2)])
     IN  pins' = [set EXCEPT ![pin].pull = "up"]
  /\ IF item < 2 * Len(I2cPins) THEN Stay /\ UNCHANGED said
     ELSE Go(IF stage = "i2c1_init" THEN "wires" ELSE "scan") /\ said' = {}
  /\ UNCHANGED <<look, brought_up>>

-----------------------------------------------------------------------------
\* The report reads one pin at a time: the two lines of the bus, then every pin.
Order == IF stage = "wires" THEN I2cPins ELSE SweepOrder
Probed == Order[item]
Reading == stage \in {"wires", "sweep"} /\ item <= Len(Order)

\* read_pin(): mode and pull are kept, the pin becomes a plain input ...
Drive ==
  /\ Reading /\ look.was = <<>> /\ Len(look.levels) < 2
  /\ stage = "sweep" => Probed \notin Keep
  /\ LET pull == IF look.levels = <<>> THEN "none" ELSE "down"
     IN  /\ look' = [look EXCEPT !.pull = pull, !.was = <<pins[Probed].mode, pins[Probed].pull>>]
         /\ pins' = [pins EXCEPT ![Probed].mode = "input", ![Probed].pull = pull]
  /\ UNCHANGED <<stage, item, said, brought_up>>

Levels == IF Probed \in HeldPins THEN {1} ELSE IF look.pull = "down" THEN {0} ELSE {0, 1}

\* Slips of the kind a change to this code could make stand before the
\* definition they are a slip of; none is used in the model.
RestoredMode == [pins[Probed] EXCEPT !.mode = look.was[1]]

Restored == [pins[Probed] EXCEPT !.pull = look.was[2], !.mode = look.was[1]]

\* ... its level is read, and the pin is put back.
Look ==
  /\ look.was # <<>>
  /\ \E level \in Levels : look' = [look EXCEPT !.was = <<>>, !.levels = Append(@, level)]
  /\ pins' = [pins EXCEPT ![Probed] = Restored]
  /\ UNCHANGED <<stage, item, said, brought_up>>

HeldByAnyReading == look.levels[1] = 1 \/ look.levels[2] = 1

\* wire_probe_pin(): only the reading against the pull-down is the verdict.
Held == look.levels[2] = 1

\* wire_probe_report() sends both digits, wire_probe_sweep() names a held pin.
Judge ==
  /\ Len(look.levels) = 2 /\ look' = NoLook /\ Stay
  /\ Say(IF stage = "wires" THEN {<<"wire", Probed, look.levels>>}
         ELSE IF Held THEN {<<"held", Probed>>} ELSE {})
  /\ UNCHANGED <<pins, brought_up>>

Skip ==
  /\ Reading /\ stage = "sweep" /\ Probed \in Keep
  /\ Stay /\ UNCHANGED <<pins, look, said, brought_up>>

OrderDone ==
  /\ stage \in {"wires", "sweep"} /\ item > Len(Order)
  /\ IF stage = "wires" THEN Go("sweep") /\ said' = {}
     ELSE Go("i2c1_init_again") /\ Say({<<"held_end">>})
  /\ UNCHANGED <<pins, look, brought_up>>

OnPins == BoardInit \/ I2cInit \/ Drive \/ Look \/ Judge \/ Skip \/ OrderDone

-----------------------------------------------------------------------------
\* The calls on the bus.  Each stage asks for a transfer and reads its outcome.
\* adxl345_begin(): identify, configure in standby, measure last.
BeginOrder == <<"DEVID", "BW_RATE", "DATA_FORMAT", "FIFO_CTL", "POWER_CTL">>

Reads(register, count) == Call(AltLow, <<register>>, count)

Ask ==
  /\ \/ stage = "scan" /\ item <= SCAN_LAST_ADDRESS /\ Call(item, <<>>, 0)
     \/ stage = "devid" /\ Call(IF item = 1 THEN AltLow ELSE AltHigh, <<"DEVID">>, 1)
     \/ /\ stage \in {"begin", "probe"}
        /\ IF item = 1 THEN Reads("DEVID", 1) ELSE Call(AltLow, <<BeginOrder[item], "value">>, 0)
     \/ stage \in {"samples", "sample"} /\ Reads("DATAX0", SampleBytes)
     \/ stage = "level" /\ Reads("FIFO_STATUS", 1)
  /\ UNCHANGED program

Ok == call.status = "I2C_OK"

\* The call has returned and the program goes on.
Answered ==
  /\ call.step = "returned" /\ Settled /\ call' = Idle
  /\ UNCHANGED <<parts, waited, peripheral, jammed, chip, history, pins, look>>

\* address_answers(), scan_the_bus().
Scanned ==
  /\ stage = "scan" /\ Answered /\ Stay
  /\ Say(IF Ok THEN {<<"scan", item>>} ELSE {}) /\ UNCHANGED brought_up

ScanDone ==
  /\ stage = "scan" /\ item > SCAN_LAST_ADDRESS /\ call.step = "none"
  /\ IF said = {} THEN Go("over") ELSE Go("devid")
  /\ said' = {} /\ UNCHANGED <<bus, pins, look, brought_up>>

\* report_devid()
DevidRead ==
  /\ stage = "devid" /\ Answered
  /\ IF item = 1 THEN Stay ELSE Go("begin")
  /\ Say(IF Ok THEN {<<"devid", call.got[1]>>} ELSE {}) /\ UNCHANGED brought_up

IsAdxlOrForeign == call.got # <<>>

IsAdxl == call.got = <<"adxl345">>

\* adxl345_begin(), one transfer further: for the report or for the main loop.
Begun ==
  /\ stage \in {"begin", "probe"} /\ Answered
  /\ \/ ~Ok /\ Go("over") /\ said' = {<<"begin_buserr">>} /\ UNCHANGED brought_up
     \/ /\ Ok /\ item = 1 /\ ~IsAdxl
        /\ Go("over") /\ said' = {<<"begin_wrong">>} /\ UNCHANGED brought_up
     \/ /\ Ok /\ item < Len(BeginOrder) /\ (item = 1 => IsAdxl)
        /\ Stay /\ UNCHANGED <<said, brought_up>>
     \/ /\ Ok /\ item = Len(BeginOrder) /\ said' = {<<"begin_ok">>}
        /\ Go(IF stage = "begin" THEN "samples" ELSE "over")
        /\ brought_up' = (brought_up \/ stage = "probe")

\* report_samples(), until one fails.
Sampled ==
  /\ stage = "samples" /\ Answered
  /\ IF Ok /\ item < SAMPLES_TO_SHOW THEN Stay ELSE Go("over")
  /\ said' = {} /\ UNCHANGED brought_up

\* The stream's level and, when that was read, a sample in the main loop.
Drained ==
  /\ stage \in {"level", "sample"} /\ Answered
  /\ Go(IF stage = "level" /\ Ok THEN "sample" ELSE "over")
  /\ said' = {} /\ UNCHANGED brought_up

\* The main loop calls adxl345_begin() until it answers once, and the stream
\* once it has.
Loop ==
  /\ stage = "over" /\ call.step = "none"
  /\ Go(IF brought_up THEN "level" ELSE "probe")
  /\ said' = {} /\ UNCHANGED <<bus, pins, look, brought_up>>

OnBus == Ask \/ Scanned \/ ScanDone \/ DevidRead \/ Begun \/ Sampled \/ Drained \/ Loop

-----------------------------------------------------------------------------
Init ==
  /\ InitBus /\ stage = "board_init" /\ item = 1
  /\ pins = [pin \in Pins |-> [mode |-> "analog", pull |-> "none", af |-> "AF0"]]
  /\ look = NoLook /\ said = {} /\ brought_up = FALSE

Next == (OnPins /\ UNCHANGED bus) \/ OnBus \/ (BusStep /\ UNCHANGED program)

\* The processor runs and the milliseconds pass whatever the wires do, hence the
\* strong fairness: somebody who keeps grabbing the lines and letting them go
\* stops neither.  The peripheral works when nobody holds them.
Spec ==
  /\ Init /\ [][Next]_vars
  /\ WF_vars(OnPins /\ UNCHANGED bus) /\ SF_vars(OnBus)
  /\ WF_vars(Driver /\ UNCHANGED program) /\ WF_vars(Peripheral /\ UNCHANGED program)
  /\ SF_vars(Elapse /\ UNCHANGED program)

-----------------------------------------------------------------------------
\* A pin switched over before its function is selected drives the wire with
\* whatever the old function was: "46 resets out of 46" (board.c:18).
PinDrivesItsFunction ==
  \A pin \in Pins : pins[pin].mode = "alternate" => pins[pin].af = Function(pin)

\* How the drivers set the pins up.
AsSetUp(pin) ==
  IF pin \in UartPins THEN [mode |-> "alternate", pull |-> "none", af |-> "AF7"]
  ELSE IF pin \in Range(I2cPins) THEN [mode |-> "alternate", pull |-> "up", af |-> "AF4"]
  ELSE IF pin = LedPin THEN [mode |-> "output", pull |-> "none", af |-> "AF0"]
  ELSE IF pin = ButtonPin THEN [mode |-> "input", pull |-> "up", af |-> "AF0"]
  ELSE [mode |-> "analog", pull |-> "none", af |-> "AF0"]

\* "Put the pin back the way it was found" (bringup.c:159): at any moment of the
\* report only the pin being read differs, and a pin with a job never does.
PinsLeftAsFound ==
  stage \notin {"board_init", "i2c1_init"} =>
    \A pin \in Pins : pins[pin] # AsSetUp(pin) =>
      /\ stage \in {"wires", "sweep"} /\ look.was # <<>>
      /\ pin = Probed /\ pin \notin Keep

\* Whatever the drivers and the report do with the pins, in whatever order, no pin
\* drives the wrong function and none is left otherwise than it was set up.
PinsKeepTheirJobs == PinDrivesItsFunction /\ PinsLeftAsFound

\* The sweep names the pins something outside holds up, all of them and no
\* other, whatever a floating pin happened to read (wire_probe.h:18-26).
SweepIsTrue ==
  <<"held_end">> \in said =>
    {pin \in Pins : <<"held", pin>> \in said} = HeldPins \ Keep

\* "A device that is there acknowledges its address" (bringup.c:191): the scan
\* names no address where nothing is, as it did at every third one when a stop
\* flag was left for the next transfer to find (i2c.c:158-162).
ScanIsTrue == \A address \in 1 .. SCAN_LAST_ADDRESS :
  <<"scan", address>> \in said => address \in DOMAIN parts

\* The report is what somebody without a board to measure on goes by: no wire is
\* named that is not there, and no part, as long as every call met a bus at rest.
ReportIsTrue == SweepIsTrue /\ (unrest = "none" => ScanIsTrue)

\* "A part that is not an ADXL345 is never written to" (bringup.c:215), by the
\* report or by the main loop, after any failed attempt.
OnlyAdxlConfigured ==
  \A address \in DOMAIN parts :
    parts[address] # "adxl345" => chip[address].written = {}

\* "Measurement last" (adxl345.c:108): a part that measures has every setting in
\* place, and one the driver takes for ready measures.
MeasuresConfigured ==
  /\ \A address \in DOMAIN parts :
       "POWER_CTL" \in chip[address].written =>
         {"BW_RATE", "DATA_FORMAT", "FIFO_CTL"} \subseteq chip[address].written
  /\ brought_up => AltLow \in DOMAIN parts /\ "POWER_CTL" \in chip[AltLow].written

\* However often bring-up fails half way and is tried again, on whatever part: what
\* is written, and in what order, is what adxl345_begin() promises, as long as
\* every call met a bus at rest.
SensorSetUpSafely == unrest = "none" => OnlyAdxlConfigured /\ MeasuresConfigured

\* The report ends, and the main loop gets its turn, on a bus that never answers.
ReportEnds == <>(stage = "over")

\* Nobody on the wires can stop the program: each of its calls ends, those of the
\* report and those of the main loop after it, and so does the report.
NobodyWaitsForEver == CallsReturn /\ ReportEnds
=============================================================================
