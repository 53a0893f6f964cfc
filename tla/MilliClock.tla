------------------------------ MODULE MilliClock ------------------------------
(***************************************************************************)
(* The millisecond clock of core.c: a hardware counter that runs down and  *)
(* round, and a reading of it that adds what has gone by since the reading *)
(* before.  Nothing counts between two readings.                           *)
(***************************************************************************)
EXTENDS Integers

CONSTANTS
  CounterSize,     \* SYST_COUNTER_MAX + 1
  TicksPerMs,      \* SYST_TICKS_PER_MS
  MillisSize,      \* 2^32 on the board: the range of g_millis
  MaxGap           \* the longest time between two readings, in ticks

\* "Call it at least once every 4.19 seconds, or a whole counter wrap passes
\* unseen and that time is lost" (core.h:72-73).
ASSUME ClockAssumption ==
  /\ CounterSize \in Nat /\ TicksPerMs \in Nat \ {0} /\ MillisSize \in Nat \ {0}
  /\ MaxGap \in Nat \ {0} /\ MaxGap < CounterSize

VARIABLES
  cvr,           \* SYST_CVR
  g_millis, g_last_cvr, g_leftover,
  ticks,         \* history: the ticks since the start, modulo a turn of the clock
  unread         \* history: the ticks since the last reading

clock == <<cvr, g_millis, g_last_cvr, g_leftover, ticks, unread>>

Turn == MillisSize * TicksPerMs

\* core_tick_init().
InitClock ==
  /\ cvr = 0 /\ g_millis = 0 /\ g_last_cvr = 0 /\ g_leftover = 0
  /\ ticks = 0 /\ unread = 0

Tick ==
  /\ unread < MaxGap
  /\ cvr' = IF cvr = 0 THEN CounterSize - 1 ELSE cvr - 1
  /\ ticks' = (ticks + 1) % Turn /\ unread' = unread + 1
  /\ UNCHANGED <<g_millis, g_last_cvr, g_leftover>>

\* Slips of the kind a change to this code could make stand before the
\* definition they are a slip of; none is used in the model.
ReadForgetful ==
  LET elapsed == (g_last_cvr - cvr) % CounterSize
  IN /\ g_last_cvr' = cvr /\ unread' = 0 /\ g_leftover' = 0
     /\ g_millis' = (g_millis + (g_leftover + elapsed) \div TicksPerMs) % MillisSize
     /\ UNCHANGED <<cvr, ticks>>

\* core_millis(), which answers g_millis'.
Read ==
  LET elapsed == (g_last_cvr - cvr) % CounterSize
      total == g_leftover + elapsed
  IN /\ g_last_cvr' = cvr /\ unread' = 0
     /\ g_millis' = (g_millis + total \div TicksPerMs) % MillisSize
     /\ g_leftover' = total % TicksPerMs
     /\ UNCHANGED <<cvr, ticks>>

ClockTypeOK ==
  /\ cvr \in 0 .. CounterSize - 1 /\ g_last_cvr \in 0 .. CounterSize - 1
  /\ g_millis \in 0 .. MillisSize - 1 /\ g_leftover \in 0 .. TicksPerMs - 1
  /\ ticks \in 0 .. Turn - 1 /\ unread \in 0 .. MaxGap

\* However irregular the readings, and across the wrap of the counter and of
\* the milliseconds, no tick is lost and none is counted twice: "a long gap
\* adds the right number of milliseconds" (core.c:27-28).
ClockIsTrue ==
  (g_millis * TicksPerMs + g_leftover + unread) % Turn = ticks
=============================================================================
