------------------------------ MODULE Temperature ------------------------------
(***************************************************************************)
(* The die temperature, from the start of the converter (adc.c) over its    *)
(* two channels and the conversion to tenths of a degree (temperature.c) to *)
(* the line on the wire (telemetry.c).  The driver waits for the converter  *)
(* without a bound; numbers are those of the board.                         *)
(*                                                                         *)
(* The world: the die is as warm as `die' counts would be at 3.0 V, and the *)
(* reference reads `supply' counts at the voltage the board has.            *)
(***************************************************************************)
EXTENDS Integers, Sequences

CONSTANTS
  Calibrations,    \* what system memory may hold: records of three counts
  Genuine,         \* those that were burned at the factory
  Dies, Supplies   \* counts

uint16_t == 0 .. 65535

\* temperature_cal_t.
ASSUME CalibrationAssumption ==
  /\ Calibrations \subseteq [ts_cal1 : uint16_t, ts_cal2 : uint16_t, vrefint_cal : uint16_t]
  /\ Genuine \subseteq Calibrations /\ Dies \subseteq Nat /\ Supplies \subseteq Nat

VARIABLES
  g_cal,
  die, supply,
  pc,              \* where the driver is
  todo,            \* the commands adc_temp_init() has still to give
  command,         \* the command bit standing in ADC1_CR, none when there is none
  regulated, ready, eoc, sqr1, dr,   \* the converter
  counts,          \* what was read of the channels asked, in that order
  deci, line       \* the answer and what was sent of it

adc == <<command, regulated, ready, eoc, sqr1, dr>>
world == <<g_cal, die, supply>>
temperature == <<world, pc, todo, adc, counts, deci, line>>

CAL_BLANK == 65535
CAL_LOW_DECI == 300
CAL_SPAN_DECI == 1000
ADC_FULL_SCALE == 4095
CORRECTED_MAX == 3 * ADC_FULL_SCALE
DECI_PLAUSIBLE_MIN == -500
DECI_PLAUSIBLE_MAX == 1500
TEMPERATURE_INVALID == -2147483647 - 1
TEMP_CHANNEL == 17
VREF_CHANNEL == 0
NoLine == [sent |-> FALSE]

Magnitude(n) == IF n < 0 THEN -n ELSE n

\* Division as C does it, toward zero.
Quotient(a, b) ==
  LET q == Magnitude(a) \div Magnitude(b) IN IF (a < 0) = (b < 0) THEN q ELSE -q

-----------------------------------------------------------------------------
\* temperature_cal_usable().
Usable(cal) ==
  /\ CAL_BLANK \notin {cal.ts_cal1, cal.ts_cal2, cal.vrefint_cal}
  /\ cal.vrefint_cal # 0 /\ cal.ts_cal2 # cal.ts_cal1

\* Slips of the kind a change to this code could make stand before the
\* definition they are a slip of; none is used in the model.
Uncorrected(cal, ts, vref) == ts

Corrected(cal, ts, vref) == (ts * cal.vrefint_cal) \div vref

\* The readings for which temperature_deci_celsius() goes on to the line.
Accepted(cal, ts, vref) ==
  /\ Usable(cal) /\ vref # 0
  /\ ts <= ADC_FULL_SCALE /\ vref <= ADC_FULL_SCALE
  /\ Corrected(cal, ts, vref) <= CORRECTED_MAX

Span(cal) == cal.ts_cal2 - cal.ts_cal1
Offset(cal, ts, vref) == Corrected(cal, ts, vref) - cal.ts_cal1

OnLine(cal, ts, vref) ==
  CAL_LOW_DECI + Quotient(CAL_SPAN_DECI * Offset(cal, ts, vref), Span(cal))

\* temperature_deci_celsius().
DeciCelsius(cal, ts, vref) ==
  IF /\ Accepted(cal, ts, vref)
     /\ OnLine(cal, ts, vref) \in DECI_PLAUSIBLE_MIN .. DECI_PLAUSIBLE_MAX
  THEN OnLine(cal, ts, vref) ELSE TEMPERATURE_INVALID

\* build_temp_line().
Line(d) ==
  [sent |-> TRUE, minus |-> d < 0, whole |-> Magnitude(d) \div 10,
   tenths |-> Magnitude(d) % 10]

\* A part is blank or was burned, with its two points in order; and where the
\* sensor's voltage reaches the reference's, past which the converter cannot tell
\* it, the die is hotter than DECI_PLAUSIBLE_MAX by a tenth at least.
ASSUME GenuineAssumption ==
  /\ \A cal \in Calibrations : Usable(cal) => cal \in Genuine
  /\ \A cal \in Genuine :
       /\ cal.vrefint_cal > 0 /\ Span(cal) > 0
       /\ CAL_SPAN_DECI * (cal.vrefint_cal - cal.ts_cal1)
            >= (DECI_PLAUSIBLE_MAX + 1 - CAL_LOW_DECI) * Span(cal)

-----------------------------------------------------------------------------
InitOrderUnregulated == <<"ADCAL", "ADVREGEN", "ADEN">>

\* adc_temp_init(): regulator, calibration, enable, each waited for.
InitOrder == <<"ADVREGEN", "ADCAL", "ADEN">>

Command ==
  /\ pc = "init" /\ todo # << >> /\ command' = Head(todo) /\ pc' = "settle"
  /\ UNCHANGED <<world, todo, regulated, ready, eoc, sqr1, dr, counts, deci, line>>

\* The busy loop outlasts the regulator's start, ADCAL goes when it is done, ADRDY
\* comes.
Settled(done) ==
  \/ done = "ADVREGEN" /\ regulated
  \/ done = "ADCAL" /\ command = "none"
  \/ done = "ADEN" /\ ready

Settle ==
  /\ pc = "settle" /\ Settled(Head(todo))
  /\ todo' = Tail(todo) /\ pc' = (IF todo' = << >> THEN "idle" ELSE "init")
  /\ UNCHANGED <<world, adc, counts, deci, line>>

\* A press asks for the temperature: read_die_temperature().
Ask ==
  /\ pc = "idle" /\ pc' = "select" /\ counts' = << >> /\ line' = NoLine
  /\ \E d \in Dies, s \in Supplies : die' = d /\ supply' = s
  /\ UNCHANGED <<g_cal, todo, adc, deci>>

Channels == <<TEMP_CHANNEL, VREF_CHANNEL>>

\* adc_convert(): the channel is the whole sequence, the conversion is started, ...
Select ==
  /\ pc = "select" /\ sqr1' = Channels[Len(counts) + 1] /\ command' = "ADSTART"
  /\ pc' = "await"
  /\ UNCHANGED <<world, todo, regulated, ready, eoc, dr, counts, deci, line>>

EndOfConversion == eoc

\* ... waited for and read, which clears the flag.
Collect ==
  /\ pc = "await" /\ EndOfConversion
  /\ counts' = Append(counts, dr) /\ eoc' = FALSE
  /\ pc' = (IF Len(counts') = 2 THEN "tell" ELSE "select")
  /\ UNCHANGED <<world, todo, command, regulated, ready, sqr1, dr, deci, line>>

\* The conversion, and a line when there is a temperature.
Tell ==
  /\ pc = "tell" /\ deci' = DeciCelsius(g_cal, counts[1], counts[2])
  /\ line' = (IF deci' # TEMPERATURE_INVALID THEN Line(deci') ELSE NoLine)
  /\ pc' = "idle" /\ UNCHANGED <<world, todo, adc, counts>>

Driver == Command \/ Settle \/ Select \/ Collect \/ Tell

\* What a channel shows; the converter cannot count past its scale.
AtMost(bound, n) == IF n <= bound THEN n ELSE bound

Reading(channel) ==
  IF channel = VREF_CHANNEL THEN supply
  ELSE IF g_cal \in Genuine
       THEN AtMost(ADC_FULL_SCALE, (die * supply) \div g_cal.vrefint_cal)
       ELSE AtMost(ADC_FULL_SCALE, die)

\* The converter carries out a command it is in a state to, and nothing else.
Converter ==
  /\ \/ command = "ADVREGEN" /\ regulated' = TRUE /\ UNCHANGED <<ready, eoc, dr>>
     \/ command = "ADCAL" /\ regulated /\ UNCHANGED <<regulated, ready, eoc, dr>>
     \/ command = "ADEN" /\ regulated /\ ready' = TRUE /\ UNCHANGED <<regulated, eoc, dr>>
     \/ command = "ADSTART" /\ ready /\ dr' = Reading(sqr1) /\ eoc' = TRUE
        /\ UNCHANGED <<regulated, ready>>
  /\ command' = "none" /\ UNCHANGED <<world, pc, todo, sqr1, counts, deci, line>>

\* Out of reset, with the calibration read before the first press.
PowerOn ==
  /\ g_cal \in Calibrations /\ die = 0 /\ supply = 0
  /\ pc = "init" /\ todo = InitOrder /\ command = "none"
  /\ regulated = FALSE /\ ready = FALSE /\ eoc = FALSE /\ sqr1 = VREF_CHANNEL /\ dr = 0
  /\ counts = << >> /\ deci = TEMPERATURE_INVALID /\ line = NoLine

TemperatureNext == Driver \/ Ask \/ Converter

\* The loop runs, and a converter in order carries out what it is told.
TemperatureFairness == WF_temperature(Driver) /\ WF_temperature(Converter)

TemperatureSpec == PowerOn /\ [][TemperatureNext]_temperature /\ TemperatureFairness
-----------------------------------------------------------------------------
\* What a reader of the line takes it for.
ReadBack(l) == (IF l.minus THEN -1 ELSE 1) * (10 * l.whole + l.tenths)

\* "-0.4 must keep its sign" (telemetry.c:55): the line reads back as the answer.
LineReadsBack == line.sent => ReadBack(line) = deci

\* "A plausible-looking number that is simply false" (temperature.h:19) is never
\* sent: a line means a genuine calibration, and is the temperature of the die at
\* whatever voltage, give or take what two readings in whole counts lose.
LineIsTrue ==
  line.sent =>
    /\ ReadBack(line) = deci
    /\ g_cal \in Genuine /\ supply \in 1 .. ADC_FULL_SCALE
    /\ ReadBack(line) \in -500 .. 1500
    /\ LET wrong == Span(g_cal) * (ReadBack(line) - CAL_LOW_DECI)
                      - CAL_SPAN_DECI * (die - g_cal.ts_cal1)
       IN Magnitude(wrong)
            <= CAL_SPAN_DECI * (2 + g_cal.vrefint_cal \div supply) + Magnitude(Span(g_cal))

\* Every wait of the driver ends: the converter is told things in an order it can
\* follow, and no conversion is waited for that was not started.
ReadingEnds == pc # "idle" ~> pc = "idle"
=============================================================================
