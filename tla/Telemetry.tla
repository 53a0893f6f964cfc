------------------------------- MODULE Telemetry -------------------------------
(***************************************************************************)
(* The USER button: the contact, the debounce of telemetry.c on the clock  *)
(* of core.c, and the update session that keeps the main loop from looking *)
(* at it.                                                                  *)
(*                                                                         *)
(* A person presses and releases; for Bounce ticks after it the contact    *)
(* may read as anything.                                                   *)
(***************************************************************************)
EXTENDS MilliClock

CONSTANTS
  Debounce,          \* TELEMETRY_DEBOUNCE_MS
  Bounce,            \* how long a contact bounces, in ticks
  ReleaseBounces,    \* whether it does so when it opens, too
  Openings           \* when sessions open: "never", "calm" or "any"

\* "Thirty milliseconds comfortably outlasts the bounce" (telemetry.h:29-30): one
\* is lost to reading whole milliseconds, and the rest must also outlast one pass
\* of the loop, because a pass may find the contact open in the last moment of
\* the bouncing and the next one find it closed.
ASSUME BounceAssumption ==
  /\ Debounce \in Nat \ {0} /\ Debounce < MillisSize /\ Bounce \in Nat
  /\ Bounce + MaxGap <= (Debounce - 1) * TicksPerMs
  /\ ReleaseBounces \in BOOLEAN /\ Openings \in {"never", "calm", "any"}

VARIABLES
  pressed,       \* the person's finger
  settling,      \* how long the contact may still bounce, in ticks
  in_session,
  equipment_on, button_was_down, last_edge_ms, have_edge,   \* telemetry_state_t
  led,
  lines,         \* what this step put on the wire
  uncounted,     \* history: the button is pressed and was not yet acted on
  owed,          \* history: and nothing excuses the board from doing so
  seen,          \* history: the loop has seen the contact as it is now
  age            \* history: ticks since the last press acted on, up to a turn

state == <<equipment_on, button_was_down, last_edge_ms, have_edge, led>>
person == <<pressed, settling>>
history == <<uncounted, owed, seen, age>>
button == <<clock, person, in_session, state, lines, history>>

MinOf(a, b) == IF a < b THEN a ELSE b

Contact ==
  IF settling > 0 /\ (pressed \/ ReleaseBounces) THEN BOOLEAN ELSE {pressed}

\* Slips, as in MilliClock.tla.
PressIsSettledAlways(now_ms) == TRUE
PressIsSettledBySum(now_ms) ==
  have_edge => now_ms >= (last_edge_ms + Debounce) % MillisSize

PressIsSettled(now_ms) ==
  have_edge => (now_ms - last_edge_ms) % MillisSize >= Debounce

-----------------------------------------------------------------------------
\* A press is acted on: the state, and the temperature when there is one.
Act(now_ms) ==
  /\ last_edge_ms' = now_ms /\ have_edge' = TRUE
  /\ equipment_on' = ~equipment_on /\ led' = equipment_on'
  /\ lines' \in {{"state"}, {"state", "temp"}}
  /\ uncounted' = FALSE /\ owed' = FALSE /\ age' = 0

Ignore ==
  /\ UNCHANGED <<last_edge_ms, have_edge, equipment_on, led, uncounted, owed, age>>
  /\ lines' = {}

\* One pass of the loop outside a session: core_millis(),
\* board_button_pressed() and telemetry_update().
Pass ==
  /\ ~in_session /\ Read
  /\ \E down \in Contact :
       /\ \/ down /\ ~button_was_down /\ PressIsSettled(g_millis') /\ Act(g_millis')
          \/ ~(down /\ ~button_was_down /\ PressIsSettled(g_millis')) /\ Ignore
       /\ button_was_down' = down
  /\ seen' = (settling = 0)
  /\ UNCHANGED <<person, in_session>>

\* One pass inside a session: only ota_update_tick() reads the clock.
SessionPass ==
  /\ in_session /\ Read /\ lines' = {}
  /\ UNCHANGED <<person, in_session, state, history>>

\* A session opens or ends.  A press under way when it opens may go unheard.  A
\* calm one does not open before the loop has seen the contact at rest.
Session ==
  /\ Openings # "never" /\ (Openings = "calm" => in_session \/ seen)
  /\ in_session' = ~in_session /\ owed' = FALSE /\ lines' = {}
  /\ UNCHANGED <<clock, person, state, uncounted, seen, age>>

\* Outside a session a person is slower than the loop and than the bouncing.
\* A press is owed an answer when the debounce is over and the clock, read in
\* whole milliseconds, does not go right round between the last one and the
\* moment this one is seen.
Press ==
  /\ ~pressed /\ settling = 0 /\ (in_session \/ seen)
  /\ pressed' = TRUE /\ settling' = Bounce /\ seen' = FALSE /\ uncounted' = TRUE
  /\ owed' = (~in_session
               /\ (have_edge => /\ age >= Debounce * TicksPerMs
                                /\ age + Bounce + MaxGap + TicksPerMs <= Turn))
  /\ lines' = {} /\ UNCHANGED <<clock, in_session, state, age>>

Release ==
  /\ pressed /\ settling = 0 /\ (in_session \/ seen)
  /\ pressed' = FALSE /\ settling' = Bounce /\ seen' = FALSE
  /\ uncounted' = FALSE /\ owed' = FALSE
  /\ lines' = {} /\ UNCHANGED <<clock, in_session, state, age>>

Elapse ==
  /\ Tick /\ lines' = {}
  /\ settling' = IF settling > 0 THEN settling - 1 ELSE 0
  /\ age' = MinOf(age + 1, Turn)
  /\ UNCHANGED <<pressed, in_session, state, uncounted, owed, seen>>

\* telemetry_init(); nobody has touched the button yet.
ButtonInit ==
  /\ InitClock /\ pressed = FALSE /\ settling = 0 /\ in_session = FALSE
  /\ equipment_on = FALSE /\ button_was_down = FALSE /\ last_edge_ms = 0
  /\ have_edge = FALSE /\ led = FALSE /\ lines = {}
  /\ uncounted = FALSE /\ owed = FALSE /\ seen = FALSE /\ age = 0

ButtonNext == Pass \/ SessionPass \/ Session \/ Press \/ Release \/ Elapse

ButtonSpec == ButtonInit /\ [][ButtonNext]_button
-----------------------------------------------------------------------------
\* "On each press of the USER button (B1) it sends two lines" (README.md:17):
\* the equipment is toggled once for a press, never for its bouncing and never
\* when the button was let go.
OnlyPressesCount == [][lines' # {} => uncounted]_button

\* And for every press: once the contact has settled and the loop has looked,
\* a press that nothing excuses has been acted on, wherever the clock wraps.
HeldPressIsCounted == owed /\ seen => ~pressed
=============================================================================
