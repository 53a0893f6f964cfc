---------------------------- MODULE TelemetryProofs ----------------------------
(***************************************************************************)
(* The clock of MilliClock.tla loses no tick, for every width of the       *)
(* counter, every tick rate and every spacing of the readings that the     *)
(* counter can bridge; the main loop of Telemetry.tla uses it as that      *)
(* supposes, and so gets the result.                                       *)
(***************************************************************************)
EXTENDS Telemetry, TLAPS

\* The clock by itself; Telemetry.tla takes its actions one by one.
ClockSpec == InitClock /\ [][Tick \/ Read]_clock

\* What \div and % are.
LEMMA Division ==
  ASSUME NEW n \in Nat \ {0}, NEW a \in Int
  PROVE  /\ a \div n \in Int /\ a % n \in 0 .. n - 1
         /\ a = n * (a \div n) + (a % n)
OBVIOUS

\* No multiple of n but 0 lies strictly between -n and n.
LEMMA Multiple ==
  ASSUME NEW n \in Nat \ {0}, NEW d \in Int, NEW e \in Int,
         e = d * n, -n < e, e < n
  PROVE  d = 0
<1>1. CASE d >= 1
  <2>1. (d - 1) * n >= 0
    BY <1>1
  <2> QED BY <2>1
<1>2. CASE d <= -1
  <2>1. (-1 - d) * n >= 0
    BY <1>2
  <2> QED BY <2>1
<1> QED BY <1>1, <1>2

\* A remainder is unique.
LEMMA Remainder ==
  ASSUME NEW n \in Nat \ {0}, NEW a \in Int, NEW q \in Int, NEW r \in 0 .. n - 1,
         a = q * n + r
  PROVE  a % n = r
<1> DEFINE p == a \div n
           s == a % n
<1>1. p \in Int /\ s \in 0 .. n - 1 /\ a = n * p + s
  BY Division
<1>2. s - r = (q - p) * n
  BY <1>1
<1>3. -n < s - r /\ s - r < n /\ s - r \in Int /\ q - p \in Int
  BY <1>1
<1>4. q - p = 0
  BY <1>2, <1>3, Multiple
<1> QED BY <1>1, <1>2, <1>4

\* Whole turns do not change a remainder.
LEMMA WholeTurns ==
  ASSUME NEW n \in Nat \ {0}, NEW a \in Int, NEW k \in Int
  PROVE  (a + k * n) % n = a % n
<1> DEFINE p == a \div n
           s == a % n
<1>1. p \in Int /\ s \in 0 .. n - 1 /\ a = n * p + s
  BY Division
<1> HIDE DEF p, s
<1>2. a + k * n = (p + k) * n + s /\ p + k \in Int /\ a + k * n \in Int
  BY <1>1
<1>3. (a + k * n) % n = s
  BY <1>1, <1>2, Remainder
<1> QED BY <1>3 DEF s

\* A remainder scaled by t is a remainder of the scaled number.
LEMMA Scaled ==
  ASSUME NEW m \in Nat \ {0}, NEW t \in Nat \ {0}, NEW x \in Int, NEW b \in Int
  PROVE  ((x % m) * t + b) % (m * t) = (x * t + b) % (m * t)
<1> DEFINE k == x \div m
           s == x % m
           n == m * t
<1>1. k \in Int /\ s \in Int /\ x = m * k + s
  BY Division
<1>2. n \in Nat \ {0}
  OBVIOUS
<1> HIDE DEF k, s
<1>3. x * t + b = (s * t + b) + k * n
  BY <1>1
<1>4. s * t + b \in Int
  BY <1>1
<1> HIDE DEF n
<1>5. ((s * t + b) + k * n) % n = (s * t + b) % n
  BY <1>1, <1>2, <1>4, WholeTurns
<1> QED BY <1>3, <1>5 DEF n, s

\* What is needed of the counter: the difference of two readings, modulo its
\* size, is the time between them.
UnreadIsSeen == (g_last_cvr - cvr) % CounterSize = unread

ClockInv == ClockTypeOK /\ UnreadIsSeen /\ ClockIsTrue

LEMMA TurnPositive == Turn \in Nat \ {0}
BY ClockAssumption DEF Turn

\* The clock starts true.
LEMMA ClockInit == InitClock => ClockInv
<1> SUFFICES ASSUME InitClock PROVE ClockInv
  OBVIOUS
<1> USE ClockAssumption DEF InitClock
<1>1. ClockTypeOK
  BY TurnPositive DEF ClockTypeOK
<1>2. 0 % CounterSize = 0 /\ 0 % Turn = 0
  BY TurnPositive, Remainder
<1>3. UnreadIsSeen /\ ClockIsTrue
  BY <1>2 DEF UnreadIsSeen, ClockIsTrue
<1> QED BY <1>1, <1>3 DEF ClockInv

\* A tick of the counter is a tick not yet read.
LEMMA TickStep == ClockInv /\ Tick => ClockInv'
<1> SUFFICES ASSUME ClockInv, Tick PROVE ClockInv'
  OBVIOUS
<1> USE ClockAssumption, TurnPositive DEF ClockInv, Tick
<1>1. ClockTypeOK'
  <2>1. ticks + 1 \in Int
    BY DEF ClockTypeOK
  <2>2. (ticks + 1) % Turn \in 0 .. Turn - 1
    BY <2>1, Division
  <2> QED BY <2>2 DEF ClockTypeOK
<1>2. UnreadIsSeen'
  <2> DEFINE q == (g_last_cvr - cvr) \div CounterSize
  <2>1. q \in Int /\ g_last_cvr - cvr = CounterSize * q + unread
    BY Division DEF ClockTypeOK, UnreadIsSeen
  <2> HIDE DEF q
  <2> DEFINE z == IF cvr = 0 THEN q - 1 ELSE q
             d == g_last_cvr - cvr'
             e == unread + 1
  <2>2. d = z * CounterSize + e
    <3>1. CASE cvr = 0
      BY <2>1, <3>1 DEF ClockTypeOK
    <3>2. CASE cvr # 0
      BY <2>1, <3>2 DEF ClockTypeOK
    <3> QED BY <3>1, <3>2
  <2>3. z \in Int /\ d \in Int /\ e \in 0 .. CounterSize - 1
    BY <1>1, <2>1 DEF ClockTypeOK
  <2>4. CounterSize \in Nat \ {0}
    OBVIOUS
  <2> HIDE DEF z, d, e
  <2>5. d % CounterSize = e
    BY <2>2, <2>3, <2>4, Remainder
  <2> QED BY <2>5 DEF d, e, UnreadIsSeen
<1>3. ClockIsTrue'
  <2> DEFINE a == g_millis * TicksPerMs + g_leftover + unread
             k == a \div Turn
  <2>1. a \in Int
    BY DEF ClockTypeOK
  <2>2. k \in Int /\ a = Turn * k + ticks
    BY <2>1, Division DEF ClockIsTrue
  <2> DEFINE b == ticks + 1
  <2>3. a + 1 = b + k * Turn /\ b \in Int
    BY <2>2 DEF ClockTypeOK
  <2>4. (b + k * Turn) % Turn = b % Turn
    BY <2>2, <2>3, WholeTurns
  <2>5. g_millis * TicksPerMs + g_leftover + (unread + 1) = a + 1
    BY DEF ClockTypeOK
  <2> QED BY <2>3, <2>4, <2>5 DEF ClockIsTrue
<1> QED BY <1>1, <1>2, <1>3

\* A reading moves what was not yet read into the milliseconds.
LEMMA ReadStep == ClockInv /\ Read => ClockInv'
<1> SUFFICES ASSUME ClockInv, Read PROVE ClockInv'
  OBVIOUS
<1> USE ClockAssumption, TurnPositive DEF ClockInv
<1> DEFINE total == g_leftover + unread
           q == total \div TicksPerMs
           r == total % TicksPerMs
<1>1. total \in Nat
  BY DEF ClockTypeOK
<1>2. /\ g_millis' = (g_millis + q) % MillisSize /\ g_leftover' = r
      /\ g_last_cvr' = cvr /\ unread' = 0 /\ cvr' = cvr /\ ticks' = ticks
  BY DEF Read, UnreadIsSeen
<1>3. q \in Int /\ r \in 0 .. TicksPerMs - 1 /\ total = TicksPerMs * q + r
  <2>1. TicksPerMs \in Nat \ {0} /\ total \in Int
    BY <1>1
  <2> HIDE DEF total
  <2> QED BY <2>1, Division DEF q, r
<1> HIDE DEF q, r
<1>4. g_millis + q \in Int
  BY <1>3 DEF ClockTypeOK
<1>5. ClockTypeOK'
  <2>1. (g_millis + q) % MillisSize \in 0 .. MillisSize - 1
    BY <1>4, Division
  <2> QED BY <1>2, <1>3, <2>1 DEF ClockTypeOK
<1>6. UnreadIsSeen'
  <2>1. 0 % CounterSize = 0
    BY Remainder
  <2> QED BY <1>2, <2>1 DEF UnreadIsSeen, ClockTypeOK
<1>7. ClockIsTrue'
  <2>1. (((g_millis + q) % MillisSize) * TicksPerMs + r) % (MillisSize * TicksPerMs)
          = ((g_millis + q) * TicksPerMs + r) % (MillisSize * TicksPerMs)
    BY <1>3, <1>4, Scaled
  <2>2. (g_millis + q) * TicksPerMs + r
          = g_millis * TicksPerMs + g_leftover + unread
    BY <1>3 DEF ClockTypeOK
  <2>3. (g_millis' * TicksPerMs + g_leftover' + unread') % Turn
          = (g_millis * TicksPerMs + g_leftover + unread) % Turn
    <3>1. g_millis' * TicksPerMs + g_leftover' + unread'
            = ((g_millis + q) % MillisSize) * TicksPerMs + r
      BY <1>2, <1>3, <1>5 DEF ClockTypeOK
    <3> QED BY <2>1, <2>2, <3>1 DEF Turn
  <2> QED BY <1>2, <2>3 DEF ClockIsTrue
<1> QED BY <1>5, <1>6, <1>7

\* However irregular the readings of core_millis(), no tick is lost and none is
\* counted twice, for every counter, tick rate and range of the milliseconds, as
\* long as two readings are less than a turn of the counter apart.
THEOREM ClockStaysTrue == ClockSpec => []ClockIsTrue
<1>1. InitClock => ClockInv
  BY ClockInit
<1>2. ClockInv /\ [Tick \/ Read]_clock => ClockInv'
  <2> SUFFICES ASSUME ClockInv, [Tick \/ Read]_clock PROVE ClockInv'
    OBVIOUS
  <2>1. CASE Tick
    BY <2>1, TickStep
  <2>2. CASE Read
    BY <2>2, ReadStep
  <2>3. CASE UNCHANGED clock
    BY <2>3 DEF clock, ClockInv, ClockTypeOK, UnreadIsSeen, ClockIsTrue
  <2> QED BY <2>1, <2>2, <2>3
<1>3. ClockInv => ClockIsTrue
  BY DEF ClockInv
<1> QED BY <1>1, <1>2, <1>3, PTL DEF ClockSpec

-----------------------------------------------------------------------------
\* Every step of the loop, of the person and of time is a step of the clock or
\* leaves it alone.
LEMMA ClockOfLoop == ButtonSpec => ClockSpec
<1>1. ButtonInit => InitClock
  BY DEF ButtonInit
<1>2. [ButtonNext]_button => [Tick \/ Read]_clock
  BY DEF ButtonNext, button, Pass, SessionPass, Session, Press, Release, Elapse
<1> QED BY <1>1, <1>2, PTL DEF ButtonSpec, ClockSpec

\* The debounce measures with a clock that has lost and gained nothing, whatever
\* passes, sessions and presses came between its readings.
THEOREM LoopClockStaysTrue == ButtonSpec => []ClockIsTrue
BY ClockOfLoop, ClockStaysTrue, PTL

-----------------------------------------------------------------------------
(***************************************************************************)
(* The debounce.                                                           *)
(***************************************************************************)
LEMMA Smaller ==
  ASSUME NEW t \in Nat \ {0}, NEW m \in Int, NEW n \in Int, m * t < n * t
  PROVE  m < n
<1> SUFFICES ASSUME m >= n PROVE FALSE
  OBVIOUS
<1>1. (m - n) * t >= 0
  OBVIOUS
<1> QED
  BY <1>1

LEMMA Distributed ==
  ASSUME NEW t \in Nat \ {0}, NEW a \in Int, NEW b \in Int, NEW c \in Int
  PROVE  (a - b - c) * t = a * t - b * t - c * t
OBVIOUS

\* One more of both sides of a remainder.
LEMMA OneOn ==
  ASSUME NEW n \in Nat \ {0}, NEW a \in Int
  PROVE  (a + 1) % n = ((a % n) + 1) % n
<1> DEFINE k == a \div n
           b == (a % n) + 1
<1>1. k \in Int /\ b \in Int /\ a + 1 = b + k * n
  BY Division
<1> HIDE DEF k, b
<1>2. (b + k * n) % n = b % n
  BY <1>1, WholeTurns
<1> QED
  BY <1>1, <1>2 DEF b

\* Numbers with the same remainder differ by whole turns.
LEMMA SameRemainder ==
  ASSUME NEW n \in Nat \ {0}, NEW a \in Int, NEW b \in Int, a % n = b % n
  PROVE  \E k \in Int : a = b + k * n
<1> DEFINE p == a \div n
           q == b \div n
           r == a % n
<1>1. p \in Int /\ q \in Int /\ r \in Int /\ a = n * p + r /\ b = n * q + r
  BY Division
<1> HIDE DEF p, q, r
<1>2. a = b + (p - q) * n /\ p - q \in Int
  BY <1>1
<1> QED
  BY <1>2

\* The clock in ticks when the last press was acted on, counted from there.
EdgeRemembered ==
  have_edge /\ age < Turn =>
    \E l \in 0 .. TicksPerMs - 1 :
      (last_edge_ms * TicksPerMs + l + age) % Turn = ticks

Switches ==
  /\ pressed \in BOOLEAN /\ in_session \in BOOLEAN /\ button_was_down \in BOOLEAN
  /\ have_edge \in BOOLEAN /\ uncounted \in BOOLEAN /\ owed \in BOOLEAN /\ seen \in BOOLEAN

Spans ==
  settling \in 0 .. Bounce /\ age \in 0 .. Turn /\ last_edge_ms \in 0 .. MillisSize - 1

ButtonTypeOK == Switches /\ Spans

\* The loop has seen the contact as it is.
SeenAtRest == seen => settling = 0 /\ button_was_down = pressed

\* A press that is owed an answer is still under way and was never read as down,
\* and the clock does not go right round before it will be.
StillOwed ==
  owed =>
    /\ pressed /\ uncounted /\ ~in_session /\ ~button_was_down /\ ~seen
    /\ have_edge =>
         /\ age >= Debounce * TicksPerMs
         /\ settling > 0 => age + settling + MaxGap + TicksPerMs <= Turn
         /\ settling = 0 => age + MaxGap + TicksPerMs <= Turn + unread

DebounceInv ==
  ClockInv /\ ButtonTypeOK /\ EdgeRemembered /\ SeenAtRest /\ StillOwed

\* What a reading says has passed since the last press acted on is the ticks that
\* have, give or take less than a millisecond, as long as the clock has not gone
\* right round meanwhile.
LEMMA ReadingTells ==
  ASSUME ClockInv, Read, EdgeRemembered, have_edge,
         last_edge_ms \in 0 .. MillisSize - 1, age \in Nat, age + TicksPerMs <= Turn
  PROVE  LET passed == (g_millis' - last_edge_ms) % MillisSize
         IN /\ passed \in 0 .. MillisSize - 1
            /\ passed * TicksPerMs < age + TicksPerMs
            /\ age < passed * TicksPerMs + TicksPerMs
<1> USE ClockAssumption, TurnPositive
<1>1. /\ g_millis' \in 0 .. MillisSize - 1 /\ g_leftover' \in 0 .. TicksPerMs - 1
      /\ (g_millis' * TicksPerMs + g_leftover') % Turn = ticks
  <2>1. ClockInv'
    BY ReadStep
  <2>2. unread' = 0 /\ ticks' = ticks
    BY DEF Read
  <2>3. g_millis' \in 0 .. MillisSize - 1 /\ g_leftover' \in 0 .. TicksPerMs - 1
    BY <2>1 DEF ClockInv, ClockTypeOK
  <2>4. (g_millis' * TicksPerMs + g_leftover' + 0) % Turn = ticks
    BY <2>1, <2>2 DEF ClockInv, ClockIsTrue
  <2>5. g_millis' * TicksPerMs + g_leftover' + 0 = g_millis' * TicksPerMs + g_leftover'
    BY <2>3
  <2> QED
    BY <2>3, <2>4, <2>5
<1>2. PICK l \in 0 .. TicksPerMs - 1 :
        (last_edge_ms * TicksPerMs + l + age) % Turn = ticks
  <2>1. age < Turn
    OBVIOUS
  <2> QED
    BY <2>1 DEF EdgeRemembered
<1> DEFINE a == g_millis' * TicksPerMs + g_leftover'
           b == last_edge_ms * TicksPerMs + l + age
<1>3. PICK k \in Int : a = b + k * Turn
  <2>1. a \in Int /\ b \in Int /\ a % Turn = b % Turn
    BY <1>1, <1>2
  <2> HIDE DEF a, b
  <2> QED
    BY <2>1, SameRemainder
<1> DEFINE m == g_millis' - last_edge_ms - k * MillisSize
<1>4. m \in Int /\ g_millis' - last_edge_ms = k * MillisSize + m
  BY <1>1
<1>5. m * TicksPerMs = age + l - g_leftover'
  <2>1. m * TicksPerMs = g_millis' * TicksPerMs - last_edge_ms * TicksPerMs - k * Turn
    <3>1. (k * MillisSize) * TicksPerMs = k * Turn
      BY DEF Turn
    <3>2. g_millis' \in Int /\ last_edge_ms \in Int /\ k * MillisSize \in Int
      BY <1>1
    <3>3. m * TicksPerMs
            = g_millis' * TicksPerMs - last_edge_ms * TicksPerMs - (k * MillisSize) * TicksPerMs
      BY <3>2, Distributed
    <3> QED
      BY <3>1, <3>3
  <2>2. g_millis' * TicksPerMs + g_leftover' = last_edge_ms * TicksPerMs + l + age + k * Turn
    BY <1>3
  <2>3. /\ g_millis' * TicksPerMs \in Int /\ last_edge_ms * TicksPerMs \in Int
        /\ k * Turn \in Int /\ g_leftover' \in Int
    BY <1>1
  <2> QED
    BY <2>1, <2>2, <2>3
<1> HIDE DEF a, b, m
<1>6. m * TicksPerMs < age + TicksPerMs /\ age < m * TicksPerMs + TicksPerMs
  BY <1>1, <1>5
<1>7. m \in 0 .. MillisSize - 1
  <2>1. -1 < m
    <3>1. (-1) * TicksPerMs < m * TicksPerMs
      BY <1>4, <1>6
    <3> QED
      BY <1>4, <3>1, Smaller
  <2>2. m < MillisSize
    <3>1. m * TicksPerMs < MillisSize * TicksPerMs
      BY <1>4, <1>6 DEF Turn
    <3> QED
      BY <1>4, <3>1, Smaller
  <2> QED
    BY <1>4, <2>1, <2>2
<1>8. (g_millis' - last_edge_ms) % MillisSize = m
  <2>1. g_millis' - last_edge_ms \in Int
    BY <1>1
  <2> QED
    BY <1>4, <1>7, <2>1, Remainder
<1> QED
  BY <1>6, <1>7, <1>8

\* When the debounce is over by the ticks that passed, telemetry_update() finds
\* it over, ...
LEMMA OverIsFound ==
  ASSUME ClockInv, ButtonTypeOK, EdgeRemembered, Read,
         have_edge => age >= Debounce * TicksPerMs /\ age + TicksPerMs <= Turn
  PROVE  PressIsSettled(g_millis')
<1> SUFFICES ASSUME have_edge
             PROVE  (g_millis' - last_edge_ms) % MillisSize >= Debounce
  BY DEF PressIsSettled
<1> DEFINE passed == (g_millis' - last_edge_ms) % MillisSize
<1>1. passed \in 0 .. MillisSize - 1 /\ age < passed * TicksPerMs + TicksPerMs
  BY ReadingTells DEF ButtonTypeOK, Switches, Spans
<1> HIDE DEF passed
<1>2. Debounce * TicksPerMs < (passed + 1) * TicksPerMs
  BY <1>1, ClockAssumption, BounceAssumption DEF ButtonTypeOK, Switches, Spans
<1>3. Debounce < passed + 1
  BY <1>1, <1>2, ClockAssumption, BounceAssumption, Smaller
<1> QED
  BY <1>1, <1>3, BounceAssumption DEF passed

\* ... and while they are not more than the bouncing and a pass it does not.
LEMMA BounceIsIgnored ==
  ASSUME ClockInv, ButtonTypeOK, EdgeRemembered, Read, have_edge, age <= Bounce + MaxGap
  PROVE  ~PressIsSettled(g_millis')
<1> DEFINE passed == (g_millis' - last_edge_ms) % MillisSize
<1>1. age + TicksPerMs <= Debounce * TicksPerMs
  <2>1. age <= (Debounce - 1) * TicksPerMs
    BY BounceAssumption, ClockAssumption DEF ButtonTypeOK, Switches, Spans
  <2> QED
    BY <2>1, BounceAssumption, ClockAssumption DEF ButtonTypeOK, Switches, Spans
<1>2. Debounce * TicksPerMs <= Turn
  <2>1. (MillisSize - Debounce) * TicksPerMs >= 0
    BY BounceAssumption, ClockAssumption
  <2> QED
    BY <2>1, BounceAssumption, ClockAssumption DEF Turn
<1>3. passed \in 0 .. MillisSize - 1 /\ passed * TicksPerMs < age + TicksPerMs
  <2>1. age + TicksPerMs <= Turn
    BY <1>1, <1>2, TurnPositive, ClockAssumption, BounceAssumption DEF ButtonTypeOK, Switches, Spans
  <2> QED
    BY <2>1, ReadingTells DEF ButtonTypeOK, Switches, Spans
<1> HIDE DEF passed
<1>4. passed * TicksPerMs < Debounce * TicksPerMs
  BY <1>1, <1>3, ClockAssumption, BounceAssumption DEF ButtonTypeOK, Switches, Spans
<1>5. passed < Debounce
  BY <1>3, <1>4, ClockAssumption, BounceAssumption, Smaller
<1> QED
  BY <1>3, <1>5, BounceAssumption DEF passed, PressIsSettled

LEMMA TurnHoldsDebounce ==
  Debounce * TicksPerMs + TicksPerMs <= Turn /\ Bounce + MaxGap + TicksPerMs <= Turn
<1>1. (MillisSize - Debounce - 1) * TicksPerMs >= 0
  BY BounceAssumption, ClockAssumption
<1>2. Debounce * TicksPerMs + TicksPerMs <= Turn
  BY <1>1, BounceAssumption, ClockAssumption DEF Turn
<1>3. Bounce + MaxGap + TicksPerMs <= Debounce * TicksPerMs
  BY BounceAssumption, ClockAssumption
<1> QED
  BY <1>2, <1>3, BounceAssumption, ClockAssumption, TurnPositive

\* A pass that finds no press to act on.
LEMMA IgnoreStep ==
  ASSUME DebounceInv, Pass, Ignore, NEW down \in Contact, button_was_down' = down,
         ~(down /\ ~button_was_down /\ PressIsSettled(g_millis'))
  PROVE  DebounceInv'
<1> USE ClockAssumption, BounceAssumption, TurnPositive DEF DebounceInv, person
<1>1. ClockInv' /\ ticks' = ticks /\ unread' = 0
  BY ReadStep DEF Pass, Read
<1>2. /\ UNCHANGED <<pressed, settling, in_session, last_edge_ms, have_edge>>
      /\ UNCHANGED <<uncounted, owed, age>> /\ seen' = (settling = 0)
  BY DEF Pass, Ignore
<1>3. down \in BOOLEAN /\ (settling = 0 => down = pressed)
  BY BounceAssumption DEF Contact, ButtonTypeOK, Switches, Spans
<1>4. ButtonTypeOK'
  BY <1>2, <1>3 DEF ButtonTypeOK, Switches, Spans
<1>5. EdgeRemembered'
  BY <1>1, <1>2 DEF EdgeRemembered
<1>6. SeenAtRest'
  BY <1>2, <1>3 DEF SeenAtRest
<1>7. StillOwed'
  <2> SUFFICES ASSUME owed PROVE StillOwed'
    BY <1>2 DEF StillOwed
  <2>1. /\ pressed /\ uncounted /\ ~in_session /\ ~button_was_down
        /\ have_edge =>
             /\ age >= Debounce * TicksPerMs
             /\ settling > 0 => age + settling + MaxGap + TicksPerMs <= Turn
             /\ settling = 0 => age + MaxGap + TicksPerMs <= Turn + unread
    BY DEF StillOwed
  <2>2. have_edge => age + TicksPerMs <= Turn
    BY <2>1 DEF ButtonTypeOK, Switches, Spans, ClockInv, ClockTypeOK
  <2>3. PressIsSettled(g_millis')
    BY <2>1, <2>2, OverIsFound DEF Pass
  <2>4. ~down
    BY <2>1, <2>3
  <2>5. settling # 0
    BY <1>3, <2>1, <2>4
  <2>6. settling > 0 /\ button_was_down' = FALSE /\ seen' = FALSE
    BY <1>2, <1>3, <2>4, <2>5 DEF ButtonTypeOK, Switches, Spans
  <2> QED
    BY <1>2, <2>1, <2>6 DEF StillOwed
<1> QED
  BY <1>1, <1>4, <1>5, <1>6, <1>7

\* A pass that acts on a press.
LEMMA ActStep ==
  ASSUME DebounceInv, Pass, Act(g_millis'), NEW down \in Contact, button_was_down' = down
  PROVE  DebounceInv'
<1> USE ClockAssumption, BounceAssumption, TurnPositive DEF DebounceInv, person
<1>1. ClockInv' /\ ticks' = ticks /\ unread' = 0
  BY ReadStep DEF Pass, Read
<1>2. /\ UNCHANGED <<pressed, settling, in_session>> /\ seen' = (settling = 0)
      /\ last_edge_ms' = g_millis' /\ have_edge' = TRUE
      /\ uncounted' = FALSE /\ owed' = FALSE /\ age' = 0
  BY DEF Pass, Act
<1>3. down \in BOOLEAN /\ (settling = 0 => down = pressed)
  BY DEF Contact, ButtonTypeOK, Switches, Spans
<1>4. ButtonTypeOK'
  <2>1. last_edge_ms' \in 0 .. MillisSize - 1
    BY <1>1, <1>2 DEF ClockInv, ClockTypeOK
  <2>2. Spans'
    BY <1>2, <2>1 DEF ButtonTypeOK, Spans
  <2>3. Switches'
    BY <1>2, <1>3 DEF ButtonTypeOK, Switches
  <2> QED
    BY <2>2, <2>3 DEF ButtonTypeOK
<1>5. EdgeRemembered'
  <2>1. g_leftover' \in 0 .. TicksPerMs - 1
    BY <1>1 DEF ClockInv, ClockTypeOK
  <2>2. (last_edge_ms' * TicksPerMs + g_leftover' + age') % Turn = ticks'
    BY <1>1, <1>2 DEF ClockInv, ClockIsTrue
  <2> QED
    BY <2>1, <2>2 DEF EdgeRemembered
<1>6. SeenAtRest' /\ StillOwed'
  BY <1>2, <1>3 DEF SeenAtRest, StillOwed
<1> QED
  BY <1>1, <1>4, <1>5, <1>6

LEMMA PassStep == DebounceInv /\ Pass => DebounceInv'
<1> SUFFICES ASSUME DebounceInv, Pass PROVE DebounceInv'
  OBVIOUS
<1>1. PICK down \in Contact :
        /\ \/ down /\ ~button_was_down /\ PressIsSettled(g_millis') /\ Act(g_millis')
           \/ ~(down /\ ~button_was_down /\ PressIsSettled(g_millis')) /\ Ignore
        /\ button_was_down' = down
  BY DEF Pass
<1> QED
  BY <1>1, ActStep, IgnoreStep

\* A tick brings the person's contact nearer to rest and the press nearer to the
\* pass that will see it.
LEMMA ElapseStep == DebounceInv /\ Elapse => DebounceInv'
<1> SUFFICES ASSUME DebounceInv, Elapse PROVE DebounceInv'
  OBVIOUS
<1> USE ClockAssumption, BounceAssumption, TurnPositive DEF DebounceInv, state
<1>1. ClockInv' /\ ticks' = (ticks + 1) % Turn /\ unread' = unread + 1 /\ unread \in Nat
  BY TickStep DEF Elapse, Tick, ClockInv, ClockTypeOK
<1>2. /\ UNCHANGED <<pressed, in_session, button_was_down, last_edge_ms, have_edge>>
      /\ UNCHANGED <<uncounted, owed, seen>>
      /\ settling' = (IF settling > 0 THEN settling - 1 ELSE 0)
      /\ age' = (IF age + 1 < Turn THEN age + 1 ELSE Turn)
  BY DEF Elapse, MinOf, ButtonTypeOK, Switches, Spans
<1>3. ButtonTypeOK'
  BY <1>2 DEF ButtonTypeOK, Switches, Spans
<1>4. EdgeRemembered'
  <2> SUFFICES ASSUME have_edge, age + 1 < Turn
               PROVE  \E l \in 0 .. TicksPerMs - 1 :
                        (last_edge_ms * TicksPerMs + l + (age + 1)) % Turn = ticks'
    BY <1>2 DEF EdgeRemembered, ButtonTypeOK, Switches, Spans
  <2>1. PICK l \in 0 .. TicksPerMs - 1 :
          (last_edge_ms * TicksPerMs + l + age) % Turn = ticks
    BY DEF EdgeRemembered, ButtonTypeOK, Switches, Spans
  <2> DEFINE a == last_edge_ms * TicksPerMs + l + age
  <2>2. a \in Int /\ a + 1 = last_edge_ms * TicksPerMs + l + (age + 1)
    BY DEF ButtonTypeOK, Switches, Spans
  <2>3. a % Turn = ticks
    BY <2>1
  <2> HIDE DEF a
  <2>4. (a + 1) % Turn = ticks'
    BY <1>1, <2>2, <2>3, OneOn
  <2> QED
    BY <2>2, <2>4
<1>5. SeenAtRest'
  BY <1>2 DEF SeenAtRest, ButtonTypeOK, Switches, Spans
<1>6. StillOwed'
  <2> SUFFICES ASSUME owed PROVE StillOwed'
    BY <1>2 DEF StillOwed
  <2>1. /\ pressed /\ uncounted /\ ~in_session /\ ~button_was_down /\ ~seen
        /\ have_edge =>
             /\ age >= Debounce * TicksPerMs
             /\ settling > 0 => age + settling + MaxGap + TicksPerMs <= Turn
             /\ settling = 0 => age + MaxGap + TicksPerMs <= Turn + unread
    BY DEF StillOwed
  <2>2. have_edge =>
          /\ age' >= Debounce * TicksPerMs
          /\ settling' > 0 => age' + settling' + MaxGap + TicksPerMs <= Turn
          /\ settling' = 0 => age' + MaxGap + TicksPerMs <= Turn + unread'
    <3> SUFFICES ASSUME have_edge
                 PROVE  /\ age' >= Debounce * TicksPerMs
                        /\ settling' > 0 => age' + settling' + MaxGap + TicksPerMs <= Turn
                        /\ settling' = 0 => age' + MaxGap + TicksPerMs <= Turn + unread'
      OBVIOUS
    <3> DEFINE over == Debounce * TicksPerMs
    <3>1. over \in Int /\ age >= over /\ age <= Turn /\ age' <= age + 1 /\ age' >= age
      BY <1>2, <2>1 DEF ButtonTypeOK, Switches, Spans
    <3> HIDE DEF over
    <3>2. age' >= over
      BY <1>2, <3>1 DEF ButtonTypeOK, Switches, Spans
    <3>3. CASE settling > 0
      BY <1>1, <1>2, <2>1, <3>1, <3>2, <3>3 DEF ButtonTypeOK, Switches, Spans, over
    <3>4. CASE settling = 0
      BY <1>1, <1>2, <2>1, <3>1, <3>2, <3>4 DEF ButtonTypeOK, Switches, Spans, over
    <3> QED
      BY <3>3, <3>4 DEF ButtonTypeOK, Switches, Spans
  <2> QED
    BY <1>2, <2>1, <2>2 DEF StillOwed
<1> QED
  BY <1>1, <1>3, <1>4, <1>5, <1>6

LEMMA PersonStep ==
  DebounceInv /\ (SessionPass \/ Session \/ Press \/ Release \/ UNCHANGED button)
    => DebounceInv'
<1> SUFFICES ASSUME DebounceInv,
                    SessionPass \/ Session \/ Press \/ Release \/ UNCHANGED button
             PROVE  DebounceInv'
  OBVIOUS
<1> USE ClockAssumption, BounceAssumption, TurnPositive
        DEF DebounceInv, state, person, history, clock
<1>1. CASE SessionPass
  <2>1. ClockInv' /\ ticks' = ticks
    BY <1>1, ReadStep DEF SessionPass, Read
  <2>2. ~owed /\ in_session /\ UNCHANGED <<person, in_session, state, history>>
    BY <1>1 DEF SessionPass, StillOwed
  <2>3. ButtonTypeOK' /\ SeenAtRest' /\ StillOwed'
    BY <2>2 DEF ButtonTypeOK, Switches, Spans, SeenAtRest, StillOwed
  <2>4. EdgeRemembered'
    BY <2>1, <2>2 DEF EdgeRemembered
  <2> QED
    BY <2>1, <2>3, <2>4
<1>2. CASE Session \/ Press \/ Release \/ UNCHANGED button
  <2>1. UNCHANGED clock /\ UNCHANGED state /\ age' = age
    BY <1>2 DEF Session, Press, Release, button
  <2>2. ClockInv'
    BY <2>1 DEF ClockInv, ClockTypeOK, UnreadIsSeen, ClockIsTrue
  <2>3. EdgeRemembered'
    BY <2>1 DEF EdgeRemembered
  <2>4. ButtonTypeOK'
    <3>1. Spans'
      <4>1. settling' = settling \/ settling' = Bounce
        BY <1>2 DEF Session, Press, Release, button
      <4> QED
        BY <2>1, <4>1 DEF ButtonTypeOK, Spans
    <3>2. Switches'
      BY <1>2, <2>1 DEF Session, Press, Release, button, ButtonTypeOK, Switches
    <3> QED
      BY <3>1, <3>2 DEF ButtonTypeOK
  <2>5. SeenAtRest'
    BY <1>2, <2>1 DEF Session, Press, Release, button, SeenAtRest
  <2>6. CASE Press
    <3>1. ~in_session /\ owed' => ~button_was_down
      BY <2>6 DEF Press, SeenAtRest, ButtonTypeOK, Switches, Spans
    <3>2. owed' /\ have_edge =>
            age >= Debounce * TicksPerMs /\ age + Bounce + MaxGap + TicksPerMs <= Turn
      BY <2>6 DEF Press
    <3>3. /\ pressed' = TRUE /\ settling' = Bounce /\ seen' = FALSE /\ uncounted' = TRUE
          /\ in_session' = in_session /\ unread' = unread
      BY <2>6 DEF Press
    <3>4. owed' => ~in_session
      BY <2>6 DEF Press
    <3>5. unread \in Nat
      BY DEF ClockInv, ClockTypeOK
    <3>6. StillOwed'
      <4> SUFFICES ASSUME owed' PROVE StillOwed'
        BY DEF StillOwed
      <4>1. /\ pressed' /\ uncounted' /\ ~in_session' /\ ~button_was_down' /\ ~seen'
        BY <2>1, <3>1, <3>3, <3>4
      <4>2. have_edge' =>
              /\ age' >= Debounce * TicksPerMs
              /\ settling' > 0 => age' + settling' + MaxGap + TicksPerMs <= Turn
              /\ settling' = 0 => age' + MaxGap + TicksPerMs <= Turn + unread'
        BY <2>1, <3>2, <3>3, <3>5 DEF ButtonTypeOK, Spans
      <4> QED
        BY <4>1, <4>2 DEF StillOwed
    <3> QED
      BY <2>2, <2>3, <2>4, <2>5, <3>6
  <2>7. CASE Session \/ Release
    <3>1. owed' = FALSE
      BY <2>7 DEF Session, Release
    <3> QED
      BY <2>2, <2>3, <2>4, <2>5, <3>1 DEF StillOwed
  <2>8. CASE UNCHANGED button
    <3>1. StillOwed'
      BY <2>8 DEF button, StillOwed
    <3> QED
      BY <2>2, <2>3, <2>4, <2>5, <3>1
  <2> QED
    BY <1>2, <2>6, <2>7, <2>8
<1> QED
  BY <1>1, <1>2

LEMMA DebounceStarts == ButtonInit => DebounceInv
<1> SUFFICES ASSUME ButtonInit PROVE DebounceInv
  OBVIOUS
<1>1. ClockInv
  BY ClockInit DEF ButtonInit
<1>2. ButtonTypeOK
  <2>1. Switches
    BY DEF ButtonInit, Switches
  <2>2. Spans
    BY BounceAssumption, ClockAssumption, TurnPositive DEF ButtonInit, Spans
  <2> QED
    BY <2>1, <2>2 DEF ButtonTypeOK
<1>3. EdgeRemembered /\ SeenAtRest /\ StillOwed
  BY DEF ButtonInit, EdgeRemembered, SeenAtRest, StillOwed
<1> QED
  BY <1>1, <1>2, <1>3 DEF DebounceInv

LEMMA DebounceStep == DebounceInv /\ [ButtonNext]_button => DebounceInv'
BY PassStep, ElapseStep, PersonStep DEF ButtonNext

\* "On each press of the USER button (B1)" (README.md:17): a press that lasts until
\* the loop has seen the contact at rest is acted on, for every bouncing and pass
\* that the debounce outlasts and wherever the clock wraps, unless an update
\* session came between or the press before was too short a time ago.
THEOREM HeldPressesCount == ButtonSpec => []HeldPressIsCounted
<1>1. DebounceInv => HeldPressIsCounted
  BY DEF DebounceInv, StillOwed, HeldPressIsCounted
<1> QED
  BY <1>1, DebounceStarts, DebounceStep, PTL DEF ButtonSpec

-----------------------------------------------------------------------------
(***************************************************************************)
(* One press is acted on once, on a contact that does not bounce when it   *)
(* opens and with sessions that do not open while it bounces.              *)
(***************************************************************************)
\* A press already acted on that was read as up meanwhile is so young that the
\* debounce still runs.
CountedIsYoung ==
  pressed /\ ~uncounted =>
    /\ have_edge
    /\ settling > 0 => age + settling <= Bounce
    /\ ~button_was_down =>
         ~in_session /\ ~seen /\ (settling = 0 => age <= Bounce + unread)

CountInv == DebounceInv /\ CountedIsYoung

\* A contact that reads as closed with the press acted on is within the debounce.
LEMMA CountedIsIgnored ==
  ASSUME CountInv, Pass, ReleaseBounces = FALSE, ~uncounted, ~button_was_down,
         NEW down \in Contact, down
  PROVE  ~PressIsSettled(g_millis')
<1>1. pressed
  BY DEF Contact, CountInv, DebounceInv, ButtonTypeOK, Switches
<1>2. have_edge /\ (settling > 0 => age + settling <= Bounce)
      /\ (settling = 0 => age <= Bounce + unread)
  BY <1>1 DEF CountInv, CountedIsYoung
<1>3. age <= Bounce + MaxGap
  <2>1. unread \in 0 .. MaxGap /\ age \in Nat /\ settling \in Nat /\ Bounce \in Nat
        /\ MaxGap \in Nat
    BY ClockAssumption, BounceAssumption, TurnPositive
       DEF CountInv, DebounceInv, ClockInv, ClockTypeOK, ButtonTypeOK, Spans
  <2> QED
    BY <1>2, <2>1
<1> QED
  BY <1>2, <1>3, BounceIsIgnored DEF CountInv, DebounceInv, Pass

LEMMA CountPass ==
  ASSUME CountInv, Pass, ReleaseBounces = FALSE
  PROVE  CountedIsYoung' /\ (lines' # {} => uncounted)
<1> USE BounceAssumption DEF person
<1>1. PICK down \in Contact :
        /\ \/ down /\ ~button_was_down /\ PressIsSettled(g_millis') /\ Act(g_millis')
           \/ ~(down /\ ~button_was_down /\ PressIsSettled(g_millis')) /\ Ignore
        /\ button_was_down' = down
  BY DEF Pass
<1>2. /\ UNCHANGED <<pressed, settling, in_session>> /\ seen' = (settling = 0)
      /\ ~in_session /\ unread' = 0
  BY DEF Pass, Read
<1>3. settling \in 0 .. Bounce /\ age \in Int /\ unread \in Int
  BY TurnPositive
     DEF CountInv, DebounceInv, ButtonTypeOK, Spans, ClockInv, ClockTypeOK
<1>4. CASE down /\ ~button_was_down /\ PressIsSettled(g_millis') /\ Act(g_millis')
  <2>1. uncounted
    BY <1>4, CountedIsIgnored
  <2>2. have_edge' = TRUE /\ age' = 0 /\ button_was_down'
    BY <1>1, <1>4 DEF Act
  <2>3. CountedIsYoung'
    BY <1>2, <1>3, <2>2 DEF CountedIsYoung
  <2> QED
    BY <2>1, <2>3
<1>5. CASE Ignore
  <2>1. UNCHANGED <<have_edge, uncounted, age>> /\ lines' = {}
    BY <1>5 DEF Ignore
  <2>2. settling = 0 /\ pressed => button_was_down'
    BY <1>1 DEF Contact, CountInv, DebounceInv, ButtonTypeOK, Switches
  <2>3. CountedIsYoung'
    <3> SUFFICES ASSUME pressed, ~uncounted PROVE CountedIsYoung'
      BY <1>2, <2>1 DEF CountedIsYoung
    <3>1. have_edge /\ (settling > 0 => age + settling <= Bounce)
      BY DEF CountInv, CountedIsYoung
    <3>2. CASE settling = 0
      BY <1>2, <2>1, <2>2, <3>1, <3>2 DEF CountedIsYoung
    <3>3. CASE settling # 0
      <4>1. seen' = FALSE
        BY <1>2, <3>3
      <4> QED
        BY <1>2, <1>3, <2>1, <3>1, <3>3, <4>1 DEF CountedIsYoung
    <3> QED
      BY <3>2, <3>3
  <2> QED
    BY <2>1, <2>3
<1> QED
  BY <1>1, <1>4, <1>5

LEMMA CountElapse ==
  ASSUME CountInv, Elapse
  PROVE  CountedIsYoung'
<1>1. /\ UNCHANGED <<pressed, in_session, button_was_down, have_edge, uncounted, seen>>
      /\ settling' = (IF settling > 0 THEN settling - 1 ELSE 0)
      /\ age' = (IF age + 1 < Turn THEN age + 1 ELSE Turn) /\ unread' = unread + 1
  BY DEF Elapse, Tick, MinOf, state
<1>2. /\ settling \in Nat /\ age \in 0 .. Turn /\ unread \in Nat /\ Bounce \in Nat
      /\ Turn \in Nat
  BY TurnPositive, BounceAssumption
     DEF CountInv, DebounceInv, ButtonTypeOK, Spans, ClockInv, ClockTypeOK
<1> SUFFICES ASSUME pressed, ~uncounted PROVE CountedIsYoung'
  BY <1>1 DEF CountedIsYoung
<1>3. /\ have_edge /\ (settling > 0 => age + settling <= Bounce)
      /\ (~button_was_down =>
            ~in_session /\ ~seen /\ (settling = 0 => age <= Bounce + unread))
  BY DEF CountInv, CountedIsYoung
<1>4. age' <= age + 1
  BY <1>1, <1>2
<1>5. settling' > 0 => age' + settling' <= Bounce
  BY <1>1, <1>2, <1>3, <1>4
<1>6. ~button_was_down /\ settling' = 0 => age' <= Bounce + unread'
  BY <1>1, <1>2, <1>3, <1>4
<1> QED
  BY <1>1, <1>3, <1>5, <1>6 DEF CountedIsYoung

LEMMA CountOthers ==
  ASSUME CountInv, Openings # "any",
         SessionPass \/ Session \/ Press \/ Release \/ UNCHANGED button
  PROVE  CountedIsYoung'
<1> USE DEF CountInv, state, person, history, clock
<1>1. CASE SessionPass
  <2>1. in_session /\ unread' = 0 /\ UNCHANGED <<person, in_session, state, history>>
    BY <1>1 DEF SessionPass, Read
  <2> QED
    BY <2>1 DEF CountedIsYoung
<1>2. CASE Session
  <2>1. UNCHANGED <<clock, person, state, uncounted, seen, age>>
        /\ (in_session \/ seen)
    BY <1>2, BounceAssumption DEF Session
  <2>2. seen /\ pressed => button_was_down
    BY DEF DebounceInv, SeenAtRest, ButtonTypeOK, Switches
  <2> QED
    BY <2>1, <2>2 DEF CountedIsYoung
<1>3. CASE Press
  BY <1>3 DEF Press, CountedIsYoung
<1>4. CASE Release
  BY <1>4 DEF Release, CountedIsYoung
<1>5. CASE UNCHANGED button
  BY <1>5 DEF button, CountedIsYoung
<1> QED
  BY <1>1, <1>2, <1>3, <1>4, <1>5

\* The equipment is toggled once for a press of the button, never for the bouncing
\* of its contact, as long as the debounce outlasts that and a pass of the loop.
\* Both hypotheses are needed: run button_release shows what a contact does that
\* bounces when it opens.
THEOREM PressesCountOnce ==
  ASSUME ReleaseBounces = FALSE, Openings # "any"
  PROVE  ButtonSpec => OnlyPressesCount
<1>1. ButtonInit => CountInv
  BY DebounceStarts DEF ButtonInit, CountInv, CountedIsYoung
<1>2. CountInv /\ [ButtonNext]_button => CountInv'
  <2> SUFFICES ASSUME CountInv, [ButtonNext]_button PROVE CountedIsYoung'
    BY DebounceStep DEF CountInv
  <2> QED
    BY CountPass, CountElapse, CountOthers DEF ButtonNext
<1>3. CountInv /\ [ButtonNext]_button => [lines' # {} => uncounted]_button
  <2> SUFFICES ASSUME CountInv, ButtonNext, lines' # {} PROVE uncounted
    OBVIOUS
  <2>1. CASE Pass
    BY <2>1, CountPass
  <2>2. CASE SessionPass \/ Session \/ Press \/ Release \/ Elapse
    BY <2>2 DEF SessionPass, Session, Press, Release, Elapse
  <2> QED
    BY <2>1, <2>2 DEF ButtonNext
<1> QED
  BY <1>1, <1>2, <1>3, PTL DEF ButtonSpec, OnlyPressesCount
=============================================================================
