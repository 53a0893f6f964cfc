--------------------------------- MODULE MCData ---------------------------------
(***************************************************************************)
(* What the firmware does with what it is given, one part of it in each       *)
(* behaviour: its arithmetic, the parser of frames, the button and the clock. *)
(***************************************************************************)
EXTENDS Vibration, Checksums, Temperature, FrameParser, Telemetry

VARIABLE machine

computed == <<vibration, checksums, temperature, vars, button, machine>>

\* Rest, tilt, an offset on one axis, and the ends of the scale.
MCSamples ==
  {<<0, 0, 0>>, <<1, 0, 0>>, <<-1, 2, 7>>, <<0, 1, 8>>, <<-8, 8, -8>>, <<8, -8, 8>>}

\* A line at rest and "1"; bits turned over at the ends and inside of a byte.
MCOctets == {{}, {0, 4, 5}}
MCDamages == {{}, {7}, {0}, {0, 3, 7}, {1, 6}, 0 .. 7}

\* The constants of the tests and another part's, and every way they are refused.
Typical == [ts_cal1 |-> 1043, ts_cal2 |-> 1352, vrefint_cal |-> 1655]
MCGenuine == {Typical, [ts_cal1 |-> 1030, ts_cal2 |-> 1370, vrefint_cal |-> 1640]}
MCCalibrations ==
  MCGenuine \cup {[Typical EXCEPT !.ts_cal1 = 65535], [Typical EXCEPT !.ts_cal2 = 65535],
                  [Typical EXCEPT !.vrefint_cal = 65535],
                  [Typical EXCEPT !.vrefint_cal = 0], [Typical EXCEPT !.ts_cal2 = 1043]}

\* A die at -0.4 degrees, at the calibration points, at the ends of the plausible
\* and past them; a dead reference, 3.0 V, 3.3 V, the ends of the scale and past.
MCDies == {0, 700, 795, 796, 949, 1043, 1100, 1352, 1415, 4000}
MCSupplies == {0, 1, 700, 1380, 1505, 1655, 4095, 4096}

\* Frames of a start byte and LEN, up to two payload bytes, and a sum for a
\* checksum.  The start byte 1 is a LEN, a payload byte and a checksum too, and 3
\* is a LEN that no frame can have.
MCChecksum(bytes) == MapThenSumSet(LAMBDA i : bytes[i], 1 .. Len(bytes)) % 4

\* The converter is at rest while something else computes.
Resting ==
  /\ g_cal = Typical /\ die = 0 /\ supply = 0 /\ pc = "idle" /\ todo = << >>
  /\ command = "none" /\ regulated = TRUE /\ ready = TRUE /\ eoc = FALSE
  /\ sqr1 = VREF_CHANNEL /\ dr = 0 /\ counts = << >>
  /\ deci = TEMPERATURE_INVALID /\ line = NoLine

MCInit ==
  /\ VibrationInit /\ ChecksumStart /\ Init /\ ButtonInit
  /\ machine \in {"vibration", "checksums", "temperature", "parser", "button"}
  /\ machine # "checksums" => subject = "frame"
  /\ IF machine = "temperature" THEN PowerOn ELSE Resting

Vibrates ==
  /\ machine = "vibration" /\ VibrationNext
  /\ UNCHANGED <<checksums, temperature, vars, button, machine>>
Sums ==
  /\ machine = "checksums" /\ ChecksumNext
  /\ UNCHANGED <<vibration, temperature, vars, button, machine>>
Warms(step) ==
  /\ machine = "temperature" /\ step
  /\ UNCHANGED <<vibration, checksums, vars, button, machine>>
Parses ==
  /\ machine = "parser" /\ Next
  /\ UNCHANGED <<vibration, checksums, temperature, button, machine>>
Presses ==
  /\ machine = "button" /\ ButtonNext
  /\ UNCHANGED <<vibration, checksums, temperature, vars, machine>>

MCNext == Vibrates \/ Sums \/ Warms(TemperatureNext) \/ Parses \/ Presses

MCSpec ==
  /\ MCInit /\ [][MCNext]_computed
  /\ WF_computed(Warms(Driver)) /\ WF_computed(Warms(Converter))
=============================================================================
