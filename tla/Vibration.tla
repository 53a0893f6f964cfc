------------------------------- MODULE Vibration -------------------------------
(***************************************************************************)
(* The arithmetic of vibration.c: the sums of a window, the variance as a   *)
(* difference of two large unsigned numbers, and the digit by digit root,   *)
(* turn by turn of its two loops.  Numbers keep their width: Word is 2^64.  *)
(*                                                                         *)
(* `bit' is the square of a power of two throughout; `half' is its root,    *)
(* kept beside it for the statements below.                                 *)
(***************************************************************************)
EXTENDS Integers, Sequences, FiniteSetsExt

CONSTANTS
  WindowSamples,        \* VIBRATION_WINDOW_SAMPLES
  Samples,              \* what the sensor may read, a triple of counts
  Reach,                \* 32768: no count lies further from zero
  MilliGPerCount,
  PowersOfTwo,          \* 2^0 .. 2^31
  TopPower,             \* 2^31, the root of the first bit tried
  Word

\* The last conjunct is what keeps every number below inside its type.
ASSUME VibrationAssumption ==
  /\ WindowSamples \in Nat \ {0} /\ Reach \in Nat /\ MilliGPerCount \in Nat
  /\ Samples \subseteq (-Reach .. Reach) \X (-Reach .. Reach) \X (-Reach .. Reach)
  /\ PowersOfTwo \subseteq Nat \ {0} /\ TopPower \in PowersOfTwo
  /\ \A p \in PowersOfTwo : p = 1 \/ \E q \in PowersOfTwo : p = 2 * q
  /\ Word = 4 * TopPower * TopPower
  /\ 3 * WindowSamples * WindowSamples * Reach * Reach < Word

VARIABLES
  samples, sum_x, sum_y, sum_z, sum_of_squares,   \* vibration_t
  loop,                            \* where the root is: none, align, digit, done
  value, remainder, root, bit, half,
  out_milli_g,
  taken,                           \* history: the samples of the window
  digits                           \* history: the root found so far

window == <<samples, sum_x, sum_y, sum_z, sum_of_squares>>
search == <<value, remainder, root, bit, half, digits>>
vibration == <<window, loop, search, out_milli_g, taken>>

EmptyWindow ==
  samples' = 0 /\ sum_x' = 0 /\ sum_y' = 0 /\ sum_z' = 0 /\ sum_of_squares' = 0

SquaresOfSums == sum_x * sum_x + sum_y * sum_y + sum_z * sum_z

\* Slips of the kind a change to this code could make stand before the
\* definition they are a slip of; none is used in the model.
RoundedMeanVariance ==
  (WindowSamples * sum_of_squares
     - WindowSamples * WindowSamples * ((sum_x \div WindowSamples) * (sum_x \div WindowSamples)
         + (sum_y \div WindowSamples) * (sum_y \div WindowSamples)
         + (sum_z \div WindowSamples) * (sum_z \div WindowSamples))) % Word

\* scaled_variance().
ScaledVariance == (WindowSamples * sum_of_squares - SquaresOfSums) % Word

-----------------------------------------------------------------------------
\* vibration_push() of a sample that does not complete the window, ...
Add(x, y, z) ==
  /\ samples' = samples + 1
  /\ sum_x' = sum_x + x /\ sum_y' = sum_y + y /\ sum_z' = sum_z + z
  /\ sum_of_squares' = sum_of_squares + (x * x + y * y + z * z)

Push ==
  /\ loop = "none" /\ samples < WindowSamples
  /\ \E s \in Samples : Add(s[1], s[2], s[3]) /\ taken' = Append(taken, s)
  /\ UNCHANGED <<loop, search, out_milli_g>>

\* ... and the root it asks for when it does.
BeginRoot ==
  /\ loop = "none" /\ samples = WindowSamples
  /\ value' = ScaledVariance /\ remainder' = ScaledVariance
  /\ root' = 0 /\ bit' = TopPower * TopPower /\ half' = TopPower /\ digits' = 0
  /\ loop' = "align"
  /\ UNCHANGED <<window, out_milli_g, taken>>

\* bit >>= 2.
ShiftBit == bit' = bit \div 4 /\ half' = half \div 2

\* "while (bit > remainder)".
Align ==
  /\ loop = "align"
  /\ IF bit > remainder THEN ShiftBit /\ loop' = "align"
                        ELSE loop' = "digit" /\ UNCHANGED <<bit, half>>
  /\ UNCHANGED <<window, value, remainder, root, digits, out_milli_g, taken>>

FitsStrictly == remainder > root + bit
Fits == remainder >= root + bit

\* "while (bit != 0U)".
Digit ==
  /\ loop = "digit" /\ bit # 0
  /\ IF Fits
     THEN /\ remainder' = remainder - (root + bit) /\ root' = root \div 2 + bit
          /\ digits' = digits + half
     ELSE root' = root \div 2 /\ UNCHANGED <<remainder, digits>>
  /\ ShiftBit
  /\ UNCHANGED <<window, loop, value, out_milli_g, taken>>

MilliG(rms) == (rms * MilliGPerCount) \div WindowSamples

\* The result, and vibration_init() for the next window.
Result ==
  /\ loop = "digit" /\ bit = 0
  /\ out_milli_g' = MilliG(root) /\ loop' = "done" /\ EmptyWindow
  /\ UNCHANGED <<search, taken>>

NextWindow ==
  /\ loop = "done" /\ loop' = "none" /\ taken' = << >>
  /\ value' = 0 /\ remainder' = 0 /\ root' = 0 /\ bit' = 0 /\ half' = 0 /\ digits' = 0
  /\ UNCHANGED <<window, out_milli_g>>

\* vibration_init().
VibrationInit ==
  /\ samples = 0 /\ sum_x = 0 /\ sum_y = 0 /\ sum_z = 0 /\ sum_of_squares = 0
  /\ loop = "none" /\ out_milli_g = 0 /\ taken = << >>
  /\ value = 0 /\ remainder = 0 /\ root = 0 /\ bit = 0 /\ half = 0 /\ digits = 0

VibrationNext == Push \/ BeginRoot \/ Align \/ Digit \/ Result \/ NextWindow

VibrationSpec == VibrationInit /\ [][VibrationNext]_vibration
-----------------------------------------------------------------------------
\* The squared distance of two samples.
Apart(s, t) ==
  LET d(a) == s[a] - t[a] IN d(1) * d(1) + d(2) * d(2) + d(3) * d(3)

\* The variance without a mean: the sum over all pairs, whatever steady part
\* gravity adds to every sample.
TrueVariance ==
  MapThenSumSet(LAMBDA pair : Apart(taken[pair[1]], taken[pair[2]]),
                {pair \in (1 .. WindowSamples) \X (1 .. WindowSamples) : pair[1] < pair[2]})

\* "The result is the floor of the true root" (vibration.c:20), "exact for perfect
\* squares" (vibration.c:16).
RootIsFloor ==
  loop = "done" => root * root <= value /\ value < (root + 1) * (root + 1)

\* The figure sent is short of the true one by less than a count over the samples
\* of a window and one milli-g, and never above it (vibration.c:100-103).
ReadingIsTrue ==
  loop = "done" =>
    LET Scaled(mg) == WindowSamples * mg
        Square(n) == n * n
        truth == Square(MilliGPerCount) * TrueVariance
    IN /\ Square(Scaled(out_milli_g)) <= truth
       /\ truth < Square(Scaled(out_milli_g + 1) + MilliGPerCount)
=============================================================================
