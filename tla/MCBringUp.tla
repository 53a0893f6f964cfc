------------------------------- MODULE MCBringUp -------------------------------
\* The data line is in the hole next door, as it was on 2026-11-05
\* (wire_probe.h:14-16): C9 is held up and B9 is not.
EXTENDS BringUp, TLC

MCI2cPins == <<"B8", "B9">>
\* Nothing, the sensor, and one strapped to the other address with a foreign part at
\* its own.
MCWirings ==
  {<<>>, 2 :> "adxl345", (1 :> "adxl345") @@ (2 :> "other")}
MCMaybeSensor == {<<>>, 2 :> "adxl345"}

\* What a state leads to, and the properties of it, depend on nothing else: not on a
\* byte that was taken, and once a call met a bus not at rest, which the properties
\* say less of, neither on what was moved in it nor on what was written to a part.
MCView ==
  <<parts, driver, isr, cr2, queued, wire, txdr, jammed, program, unrest,
    IF "RXNE" \in isr THEN rxdr ELSE "data",
    IF unrest = "now" THEN 0 ELSE moved,
    IF unrest = "none" THEN chip
    ELSE [address \in DOMAIN parts |-> chip[address].pointer]>>
=============================================================================
