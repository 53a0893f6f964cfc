------------------------------- MODULE VibStream -------------------------------
(***************************************************************************)
(* The accelerometer's part of the main loop: the status line that also    *)
(* brings the sensor up (adxl_report.c, adxl345_begin), the stream that    *)
(* drains its queue into a window (vib_telemetry.c, vibration_push), and   *)
(* the update session that suspends both (main.c).                         *)
(*                                                                         *)
(* A unit of time is the sensor's sample period.  A sample is what the     *)
(* window knows of it, that it follows the one before; the line a full     *)
(* window sends is "vib".  The queue is the ADXL345's in stream mode: it   *)
(* keeps the latest Depth samples and overwrites the oldest.               *)
(***************************************************************************)
EXTENDS Integers

CONSTANTS
  Depth,          \* ADXL345_FIFO_DEPTH_ASSUMED
  Window,         \* VIBRATION_WINDOW_SAMPLES
  PollPeriod,     \* VIB_POLL_PERIOD_MS, in samples
  ReportPeriod,   \* ADXL_REPORT_PERIOD_MS, in samples
  ClockSize,      \* 2^32 on the board
  MaxPass,        \* the longest pass of the main loop, in samples
  Sessions,       \* whether the host opens update sessions
  BusFaults,      \* whether a transfer with the sensor can fail
  Rewiring        \* whether the sensor is unplugged and replaced

ASSUME StreamAssumption ==
  /\ Depth \in Nat \ {0} /\ Window \in Nat \ {0}
  /\ PollPeriod \in Nat \ {0} /\ ReportPeriod \in Nat \ {0} /\ MaxPass \in Nat \ {0}
  /\ ClockSize \in Nat /\ PollPeriod + MaxPass < ClockSize
  /\ ReportPeriod + MaxPass < ClockSize
  /\ {Sessions, BusFaults, Rewiring} \subseteq BOOLEAN

VARIABLES
  now, in_session,
  device,         \* what is wired to the bus
  measuring,      \* the sensor has been configured since it was powered
  level,          \* how many samples its queue holds
  lost,           \* history: samples are missing between the window and the queue
  rewired,        \* history: the wiring changed since the last probe
  presence, brought_up, have_sent, last_sent_ms,   \* adxl_report_state_t
  samples, have_polled, last_poll_ms,              \* vib_telemetry_t
  mixed,          \* history: a window was put together across a gap
  lines,          \* what this step put on the wire
  turn,           \* which half of service_accelerometer() the loop does next
  late            \* history: samples since the last pass of the loop

sensor == <<device, measuring, level, lost, rewired>>
report == <<presence, brought_up, have_sent, last_sent_ms>>
stream == <<samples, have_polled, last_poll_ms, mixed>>
vars == <<now, in_session, sensor, report, stream, lines, turn, late>>

Devices == {"adxl345", "other", "nothing"}
Presences == {"ready", "wrong", "absent"}
MinOf(a, b) == IF a < b THEN a ELSE b

\* Slips of the kind a change to this code could make stand before the
\* definition they are a slip of; none is used in the model.
PassedBySum(have, since, period) == have => now >= since + period

\* Whether a period has passed, by wrapping subtraction.
Passed(have, since, period) ==
  have => (now - since + ClockSize) % ClockSize >= period

-----------------------------------------------------------------------------
ProbeIgnoringWrites(answer, configured) ==
  \/ device = "adxl345" /\ answer = "ready" /\ (BusFaults \/ configured)
  \/ device = "other" /\ answer = "wrong" /\ configured = FALSE
  \/ device = "nothing" /\ answer = "absent" /\ configured = FALSE

\* adxl345_begin() through probe_accelerometer(): what it answers, and whether
\* the part is measuring afterwards.  Configuring it restarts its queue.  A
\* transfer that fails leaves the part with or without the last register.
Probe(answer, configured) ==
  \/ device = "adxl345" /\ answer = "ready" /\ configured = TRUE
  \/ device = "other" /\ answer = "wrong" /\ configured = FALSE
  \/ device = "nothing" /\ answer = "absent" /\ configured = FALSE
  \/ BusFaults /\ device = "adxl345" /\ answer = "absent"

ReportDue == Passed(have_sent, last_sent_ms, ReportPeriod)
ReportIdle == UNCHANGED <<sensor, report>> /\ lines' = {}

\* The probe is called until it answers READY once, and never again.
MustProbe == ~brought_up

\* adxl_report_update()
Report ==
  \/ ~ReportDue /\ ReportIdle
  \/ /\ ReportDue /\ have_sent' = TRUE /\ last_sent_ms' = now
     /\ \/ ~MustProbe /\ UNCHANGED <<presence, brought_up, measuring, level, lost, rewired>>
        \/ /\ MustProbe
           /\ \E answer \in Presences, configured \in BOOLEAN :
                /\ Probe(answer, configured)
                /\ presence' = answer /\ brought_up' = (brought_up \/ answer = "ready")
                /\ measuring' = (measuring \/ configured)
                /\ level' = IF configured THEN 0 ELSE level
                /\ lost' = IF configured THEN samples > 0 ELSE lost
           /\ rewired' = FALSE
     /\ lines' = {presence'} /\ UNCHANGED device

-----------------------------------------------------------------------------
KeepGoing == UNCHANGED <<samples, mixed>>
StartOver == samples' = 0 /\ mixed' = FALSE

\* Pushing n consecutive samples that follow a gap or not.
Push(n) ==
  /\ samples' = (samples + n) % Window
  /\ mixed' = (mixed \/ (n > 0 /\ lost /\ samples > 0))

PollDue == Passed(have_polled, last_poll_ms, PollPeriod)
BusAnswers == device # "nothing"

\* What adxl345_fifo_level() reads; a part that is no ADXL345 answers anything.
Waiting == IF device = "adxl345" THEN {level} ELSE 0 .. Depth

\* The queue's level cannot be read, or the queue is found full: nothing is
\* taken from it.
ThrowAway ==
  /\ ~BusAnswers \/ BusFaults \/ Depth \in Waiting
  /\ StartOver /\ UNCHANGED sensor /\ lines' = {}

\* Every waiting sample is taken.
Drain ==
  /\ BusAnswers
  /\ \E n \in Waiting \ {Depth} :
       /\ Push(n) /\ level' = 0 /\ lost' = (lost /\ n = 0)
       /\ lines' = IF samples + n >= Window THEN {"vib"} ELSE {}
  /\ UNCHANGED <<device, measuring, rewired>>

\* A read fails after n samples; whether the sensor gave its sample up is open.
DrainBroken ==
  /\ BusFaults /\ device = "adxl345" /\ level < Depth
  /\ \E n \in 0 .. level - 1, gone \in {0, 1} :
       /\ StartOver /\ level' = level - n - gone
       /\ lines' = IF samples + n >= Window THEN {"vib"} ELSE {}
       /\ lost' = (gone = 1 \/ (lost /\ n = 0))
  /\ UNCHANGED <<device, measuring, rewired>>

\* vib_telemetry_poll(), called only once the sensor has answered.
Poll ==
  \/ /\ ~(brought_up /\ PollDue)
     /\ UNCHANGED <<sensor, stream>> /\ lines' = {}
  \/ /\ brought_up /\ PollDue
     /\ have_polled' = TRUE /\ last_poll_ms' = now
     /\ ThrowAway \/ Drain \/ DrainBroken

-----------------------------------------------------------------------------
\* One pass of the main loop: outside a session service_accelerometer() calls
\* its two halves in this order, inside one it calls neither.
ReportTurn ==
  /\ turn = "report" /\ ~in_session /\ Report /\ turn' = "stream"
  /\ UNCHANGED <<now, in_session, stream, late>>

StreamTurn ==
  /\ turn = "stream" /\ Poll /\ turn' = "report" /\ late' = 0
  /\ UNCHANGED <<now, in_session, report>>

SessionPass ==
  /\ turn = "report" /\ in_session /\ late' = 0 /\ lines' = {}
  /\ UNCHANGED <<now, in_session, sensor, report, stream, turn>>

\* The host opens a session, or the session ends.
Session ==
  /\ Sessions /\ turn = "report" /\ in_session' = ~in_session /\ lines' = {}
  /\ UNCHANGED <<now, sensor, report, stream, turn, late>>

\* A sample period passes.  A measuring sensor queues a sample; when its queue
\* is full that sample replaces the oldest.
Sample ==
  /\ turn = "report" /\ late < MaxPass /\ late' = late + 1
  /\ now' = (now + 1) % ClockSize /\ lines' = {}
  /\ level' = IF measuring THEN MinOf(level + 1, Depth) ELSE level
  /\ lost' = (lost \/ (measuring /\ level = Depth))
  /\ UNCHANGED <<in_session, device, measuring, rewired, report, stream, turn>>

\* Somebody rewires the bus.  A part that was without power starts in standby.
Rewire ==
  /\ Rewiring /\ turn = "report"
  /\ device' \in Devices \ {device}
  /\ measuring' = FALSE /\ level' = 0 /\ lost' = TRUE /\ rewired' = TRUE /\ lines' = {}
  /\ UNCHANGED <<now, in_session, report, stream, turn, late>>

\* adxl_report_init() and vib_telemetry_init(), whatever is wired.
Init ==
  /\ now \in 0 .. ClockSize - 1 /\ in_session = FALSE
  /\ device \in Devices /\ measuring = FALSE /\ level = 0 /\ lost = FALSE
  /\ rewired = FALSE
  /\ presence = "absent" /\ brought_up = FALSE
  /\ have_sent = FALSE /\ last_sent_ms = 0
  /\ samples = 0 /\ have_polled = FALSE /\ last_poll_ms = 0 /\ mixed = FALSE
  /\ lines = {} /\ turn = "report" /\ late = 0

Pass == ReportTurn \/ StreamTurn \/ SessionPass
Next == Pass \/ Session \/ Sample \/ Rewire

\* The loop never stalls (main.c:228-230), and time passes whatever the loop does:
\* a pass, one step of the board, must not hold up the samples for ever, hence
\* strong fairness.  Nothing is assumed of the host or of who rewires the bus.
Spec == Init /\ [][Next]_vars /\ WF_vars(Pass) /\ SF_vars(Sample)

-----------------------------------------------------------------------------
\* "A root mean square over 200 ms with a hole in it is not a root mean square
\* over 200 ms" (README.md:55-56): whatever overflows, failed transfers and
\* sessions came between, a window holds consecutive samples.  A part swapped for
\* another after it was found is the one gap the code cannot see.
NeverMixed == mixed => rewired

\* "adxl,ready": an ADXL345 answered and was configured (README.md:31), so one
\* is on the bus and measuring, after however many half-done attempts and however
\* often the bus was rewired before.  A sensor once ready is never probed again,
\* so the line says nothing of what was wired since (adxl_report.c:62).
ReadyMeansMeasuring ==
  "ready" \in lines /\ ~rewired => device = "adxl345" /\ measuring

\* The status is repeated for as long as no session silences it, across the
\* wrap of the millisecond clock.
StatusKeepsComing ==
  <>[]~in_session => []<>(lines \cap Presences # {})

\* A probe made with an ADXL345 on the bus finds none: a transfer failed.
ProbeFails ==
  /\ device = "adxl345" /\ ~brought_up /\ have_sent' /\ last_sent_ms' = now
  /\ lines' = {"absent"} /\ ~rewired'

\* "Wiring it correctly on a running board recovers without a reset"
\* (README.md:38-39): an ADXL345 that stays on a bus that works is found.
WiredSensorIsFound ==
  /\ <>[](device = "adxl345" /\ ~in_session)
  /\ <>[][~ProbeFails]_vars
  => <>brought_up

\* What the status line says is heard for as long as no session silences it, and
\* becomes true of an accelerometer wired on a running board.
StatusStaysTrue == StatusKeepsComing /\ WiredSensorIsFound

\* "Once an accelerometer has answered, about five times a second it also sends
\* the vibration it measures" (README.md:41-42), the line after a session too.
VibKeepsComing ==
  <>[](device = "adxl345" /\ ~in_session) => []<>("vib" \in lines)
=============================================================================
