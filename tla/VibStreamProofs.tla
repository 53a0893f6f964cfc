---------------------------- MODULE VibStreamProofs ----------------------------
(***************************************************************************)
(* No window is put together across a gap, and a status line never says    *)
(* "ready" of a part that does not measure, for every depth of the queue,  *)
(* every window, all periods and a pass of any length, whatever transfers  *)
(* fail and however often the bus is rewired.                              *)
(***************************************************************************)
EXTENDS VibStream, TLAPS

Kinds ==
  /\ device \in Devices /\ presence \in Presences /\ turn \in {"report", "stream"}
  /\ lines \subseteq Presences \cup {"vib"}
  /\ {in_session, measuring, lost, rewired, brought_up, have_sent, have_polled, mixed}
       \subseteq BOOLEAN

Ranges ==
  /\ now \in 0 .. ClockSize - 1
  /\ last_sent_ms \in 0 .. ClockSize - 1 /\ last_poll_ms \in 0 .. ClockSize - 1
  /\ level \in 0 .. Depth /\ samples \in 0 .. Window - 1 /\ late \in 0 .. MaxPass

TypeOK == Kinds /\ Ranges

\* The stream runs only for a sensor that was found, and one that was found and
\* not rewired since is there and measures.
FoundFirst ==
  /\ presence = "ready" => brought_up
  /\ ~brought_up => samples = 0 /\ ~mixed
  /\ brought_up /\ ~rewired => device = "adxl345" /\ measuring

\* Samples missing behind a window begun mean that the queue is full, and a full
\* queue is what the next poll starts over for.
GapMeansFull ==
  lost /\ samples > 0 /\ ~rewired => level = Depth

StreamInv == TypeOK /\ FoundFirst /\ GapMeansFull /\ NeverMixed /\ ReadyMeansMeasuring

LEMMA Sizes ==
  /\ Depth \in Nat \ {0} /\ Window \in Nat \ {0} /\ MaxPass \in Nat \ {0}
  /\ ClockSize \in Nat \ {0}
BY StreamAssumption

LEMMA StreamStarts == Init => StreamInv
<1> SUFFICES ASSUME Init PROVE StreamInv
  OBVIOUS
<1>1. TypeOK
  <2>1. Ranges
    BY Sizes DEF Init, Ranges
  <2>2. Kinds
    BY DEF Init, Kinds, Devices, Presences
  <2> QED
    BY <2>1, <2>2 DEF TypeOK
<1>2. FoundFirst /\ GapMeansFull /\ NeverMixed /\ ReadyMeansMeasuring
  BY DEF Init, FoundFirst, GapMeansFull, NeverMixed, ReadyMeansMeasuring
<1> QED
  BY <1>1, <1>2 DEF StreamInv

\* adxl_report_update(): the report is due and the sensor has to be found first.
LEMMA ProbeStep ==
  ASSUME StreamInv, turn = "report", ~in_session, ~brought_up,
         have_sent' = TRUE, last_sent_ms' = now,
         NEW answer \in Presences, NEW configured \in BOOLEAN,
         Probe(answer, configured),
         presence' = answer, brought_up' = (answer = "ready"),
         measuring' = (measuring \/ configured),
         level' = IF configured THEN 0 ELSE level,
         lost' = IF configured THEN samples > 0 ELSE lost,
         rewired' = FALSE, lines' = {answer}, device' = device, turn' = "stream",
         UNCHANGED <<now, in_session, stream, late>>
  PROVE  StreamInv'
<1> USE Sizes DEF StreamInv, TypeOK, Kinds, Ranges, Presences, Devices, stream
<1>1. TypeOK'
  <2>1. level' \in 0 .. Depth
    OBVIOUS
  <2>2. samples' \in 0 .. Window - 1 /\ mixed' \in BOOLEAN /\ have_polled' \in BOOLEAN
        /\ last_poll_ms' \in 0 .. ClockSize - 1 /\ late' \in 0 .. MaxPass
        /\ now' \in 0 .. ClockSize - 1 /\ in_session' \in BOOLEAN
    OBVIOUS
  <2>3. lost' \in BOOLEAN /\ measuring' \in BOOLEAN /\ brought_up' \in BOOLEAN
    OBVIOUS
  <2> QED
    BY <2>1, <2>2, <2>3
<1>2. samples = 0 /\ mixed = FALSE /\ samples' = 0 /\ mixed' = FALSE
  BY DEF FoundFirst
<1>3. answer = "ready" => device = "adxl345" /\ configured
  BY DEF Probe
<1>4. FoundFirst' /\ GapMeansFull' /\ NeverMixed'
  BY <1>2, <1>3 DEF FoundFirst, GapMeansFull, NeverMixed
<1>5. ReadyMeansMeasuring'
  BY <1>3 DEF ReadyMeansMeasuring
<1> QED
  BY <1>1, <1>4, <1>5

LEMMA ReportStep == StreamInv /\ ReportTurn => StreamInv'
<1> SUFFICES ASSUME StreamInv, ReportTurn PROVE StreamInv'
  OBVIOUS
<1> USE DEF StreamInv, TypeOK, Kinds, Ranges, FoundFirst, GapMeansFull, NeverMixed,
            ReadyMeansMeasuring
<1>1. CASE ReportIdle
  BY <1>1 DEF ReportIdle, ReportTurn, sensor, report, stream, Presences
<1>2. CASE ~MustProbe /\ lines' = {presence'} /\ have_sent' = TRUE /\ last_sent_ms' = now
           /\ UNCHANGED <<presence, brought_up, measuring, level, lost, rewired, device>>
  BY <1>2 DEF MustProbe, ReportTurn, stream
<1>3. CASE /\ MustProbe /\ have_sent' = TRUE /\ last_sent_ms' = now
           /\ \E answer \in Presences, configured \in BOOLEAN :
                /\ Probe(answer, configured)
                /\ presence' = answer /\ brought_up' = (brought_up \/ answer = "ready")
                /\ measuring' = (measuring \/ configured)
                /\ level' = IF configured THEN 0 ELSE level
                /\ lost' = IF configured THEN samples > 0 ELSE lost
           /\ rewired' = FALSE /\ lines' = {presence'} /\ UNCHANGED device
  <2>1. ~brought_up
    BY <1>3 DEF MustProbe
  <2>2. PICK answer \in Presences, configured \in BOOLEAN :
          /\ Probe(answer, configured)
          /\ presence' = answer /\ brought_up' = (brought_up \/ answer = "ready")
          /\ measuring' = (measuring \/ configured)
          /\ level' = IF configured THEN 0 ELSE level
          /\ lost' = IF configured THEN samples > 0 ELSE lost
    BY <1>3
  <2>3. brought_up' = (answer = "ready") /\ lines' = {answer}
    BY <1>3, <2>1, <2>2
  <2>4. turn = "report" /\ ~in_session /\ turn' = "stream"
        /\ UNCHANGED <<now, in_session, stream, late>>
    BY DEF ReportTurn
  <2> QED
    BY <1>3, <2>1, <2>2, <2>3, <2>4, ProbeStep
<1> QED
  BY <1>1, <1>2, <1>3 DEF ReportTurn, Report

\* vib_telemetry_poll(): only one that found no gap goes on with its window.
LEMMA StreamStep == StreamInv /\ StreamTurn => StreamInv'
<1> SUFFICES ASSUME StreamInv, StreamTurn PROVE StreamInv'
  OBVIOUS
<1> USE Sizes DEF StreamInv, TypeOK, Kinds, Ranges, StreamTurn, report
<1>1. CASE UNCHANGED <<sensor, stream>> /\ lines' = {}
  BY <1>1 DEF sensor, stream, FoundFirst, GapMeansFull, NeverMixed, ReadyMeansMeasuring
<1>2. CASE brought_up /\ have_polled' = TRUE /\ last_poll_ms' = now /\ ThrowAway
  <2>1. samples' = 0 /\ mixed' = FALSE /\ UNCHANGED sensor /\ lines' = {}
    BY <1>2 DEF ThrowAway, StartOver
  <2>2. Kinds'
    BY <1>2, <2>1 DEF sensor
  <2>3. Ranges'
    BY <1>2, <2>1 DEF sensor
  <2> QED
    BY <1>2, <2>1, <2>2, <2>3
       DEF sensor, FoundFirst, GapMeansFull, NeverMixed, ReadyMeansMeasuring
<1>3. CASE brought_up /\ have_polled' = TRUE /\ last_poll_ms' = now /\ Drain
  <2>1. PICK n \in Waiting \ {Depth} :
          /\ Push(n) /\ level' = 0 /\ lost' = (lost /\ n = 0)
          /\ lines' = IF samples + n >= Window THEN {"vib"} ELSE {}
    BY <1>3 DEF Drain
  <2>2. n \in 0 .. Depth /\ (device = "adxl345" => n = level /\ level # Depth)
    BY <2>1 DEF Waiting
  <2>3. UNCHANGED <<device, measuring, rewired>>
    BY <1>3 DEF Drain
  <2>4. samples' \in 0 .. Window - 1
    <3>1. samples + n \in Int
      BY <2>2
    <3> QED
      BY <2>1, <3>1 DEF Push
  <2>5. TypeOK'
    BY <1>3, <2>1, <2>3, <2>4 DEF Push, Presences
  <2>6. FoundFirst'
    BY <1>3, <2>3 DEF FoundFirst
  <2>7. rewired \/ ~(lost /\ samples > 0)
    BY <1>3, <2>2 DEF FoundFirst, GapMeansFull
  <2>8. GapMeansFull' /\ NeverMixed'
    <3>1. CASE rewired
      BY <2>3, <3>1 DEF GapMeansFull, NeverMixed
    <3>2. CASE ~rewired
      <4>1. mixed' = FALSE
        BY <2>1, <2>7, <3>2 DEF Push, NeverMixed
      <4>2. CASE n = 0
        <5>1. samples' = samples
          BY <2>1, <4>2 DEF Push
        <5> QED
          BY <2>1, <2>7, <3>2, <4>1, <4>2, <5>1 DEF GapMeansFull, NeverMixed
      <4>3. CASE n # 0
        BY <2>1, <4>1, <4>3 DEF GapMeansFull, NeverMixed
      <4> QED
        BY <4>2, <4>3
    <3> QED
      BY <3>1, <3>2
  <2>9. ReadyMeansMeasuring'
    BY <2>1 DEF ReadyMeansMeasuring
  <2> QED
    BY <2>5, <2>6, <2>8, <2>9
<1>4. CASE brought_up /\ have_polled' = TRUE /\ last_poll_ms' = now /\ DrainBroken
  <2>1. PICK n \in 0 .. level - 1, gone \in {0, 1} :
          /\ StartOver /\ level' = level - n - gone
          /\ lines' = IF samples + n >= Window THEN {"vib"} ELSE {}
          /\ lost' = (gone = 1 \/ (lost /\ n = 0))
    BY <1>4 DEF DrainBroken
  <2>2. UNCHANGED <<device, measuring, rewired>>
    BY <1>4 DEF DrainBroken
  <2>3. samples' = 0 /\ mixed' = FALSE /\ level' \in 0 .. Depth /\ lost' \in BOOLEAN
        /\ lines' \subseteq {"vib"}
    BY <2>1 DEF StartOver
  <2>4. Kinds'
    BY <1>4, <2>2, <2>3
  <2>5. Ranges'
    BY <1>4, <2>3
  <2> QED
    BY <1>4, <2>2, <2>3, <2>4, <2>5
       DEF FoundFirst, GapMeansFull, NeverMixed, ReadyMeansMeasuring
<1> QED
  BY <1>1, <1>2, <1>3, <1>4 DEF Poll

LEMMA OtherSteps ==
  StreamInv /\ (SessionPass \/ Session \/ Sample \/ Rewire \/ UNCHANGED vars)
    => StreamInv'
<1> SUFFICES ASSUME StreamInv,
                    SessionPass \/ Session \/ Sample \/ Rewire \/ UNCHANGED vars
             PROVE  StreamInv'
  OBVIOUS
<1> USE Sizes
        DEF StreamInv, TypeOK, Kinds, Ranges, FoundFirst, GapMeansFull, NeverMixed,
            ReadyMeansMeasuring
<1>1. CASE SessionPass \/ Session
  <2>1. UNCHANGED <<now, sensor, report, stream, turn>> /\ lines' = {}
    BY <1>1 DEF SessionPass, Session
  <2>2. late' \in 0 .. MaxPass
    <3>1. late' = 0 \/ late' = late
      BY <1>1 DEF SessionPass, Session
    <3> QED
      BY <3>1
  <2>3. in_session' \in BOOLEAN
    <3>1. in_session \in BOOLEAN
      OBVIOUS
    <3> QED
      BY <1>1, <3>1 DEF SessionPass, Session
  <2>4. Kinds'
    BY <2>1, <2>3 DEF sensor, report, stream
  <2>5. Ranges'
    BY <2>1, <2>2 DEF sensor, report, stream
  <2> QED
    BY <2>1, <2>4, <2>5 DEF sensor, report, stream
<1>2. CASE Sample
  <2>1. now' \in 0 .. ClockSize - 1
    <3>1. now + 1 \in Int /\ ClockSize \in Nat \ {0}
      OBVIOUS
    <3>2. (now + 1) % ClockSize \in 0 .. ClockSize - 1
      BY <3>1
    <3> QED
      BY <1>2, <3>2 DEF Sample
  <2>2. /\ level' \in 0 .. Depth /\ (level = Depth /\ measuring => level' = Depth)
        /\ lost' = (lost \/ (measuring /\ level = Depth)) /\ late' \in 0 .. MaxPass
        /\ lines' = {} /\ UNCHANGED <<in_session, device, measuring, rewired, turn>>
        /\ UNCHANGED <<presence, brought_up, have_sent, last_sent_ms>>
        /\ UNCHANGED <<samples, have_polled, last_poll_ms, mixed>>
    BY <1>2 DEF Sample, MinOf, report, stream
  <2>3. GapMeansFull'
    BY <2>2
  <2>4. Kinds'
    BY <2>2
  <2>5. Ranges'
    BY <2>1, <2>2
  <2> QED
    BY <2>2, <2>3, <2>4, <2>5
<1>3. CASE Rewire
  <2>1. /\ device' \in Devices /\ measuring' = FALSE /\ level' = 0 /\ lost' = TRUE
        /\ rewired' = TRUE /\ lines' = {}
        /\ UNCHANGED <<now, in_session, report, stream, turn, late>>
    BY <1>3 DEF Rewire
  <2>2. Kinds'
    BY <2>1 DEF report, stream
  <2>3. Ranges'
    BY <2>1 DEF report, stream
  <2> QED
    BY <2>1, <2>2, <2>3 DEF report, stream
<1>4. CASE UNCHANGED vars
  BY <1>4 DEF vars, sensor, report, stream
<1> QED
  BY <1>1, <1>2, <1>3, <1>4

LEMMA StreamKept == StreamInv /\ [Next]_vars => StreamInv'
BY ReportStep, StreamStep, OtherSteps DEF Next, Pass

\* Every variable keeps the type and the range its C declaration gives it, the
\* window's count below the window and the queue's level within its depth.
THEOREM StreamTyping == Spec => []TypeOK
<1>1. StreamInv => TypeOK
  BY DEF StreamInv
<1> QED
  BY <1>1, StreamStarts, StreamKept, PTL DEF Spec

\* A window holds consecutive samples, whatever overflowed, failed or was
\* suspended, unless the part itself was exchanged after it was found.
THEOREM WindowsAreWhole == Spec => []NeverMixed
<1>1. StreamInv => NeverMixed
  BY DEF StreamInv
<1> QED
  BY <1>1, StreamStarts, StreamKept, PTL DEF Spec

\* "adxl,ready" on the wire means an ADXL345 that is there, configured and
\* measuring, after however many attempts at it failed half way.
THEOREM ReadyIsTrue == Spec => []ReadyMeansMeasuring
<1>1. StreamInv => ReadyMeansMeasuring
  BY DEF StreamInv
<1> QED
  BY <1>1, StreamStarts, StreamKept, PTL DEF Spec
=============================================================================
