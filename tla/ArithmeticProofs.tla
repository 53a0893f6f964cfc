---------------------------- MODULE ArithmeticProofs ----------------------------
(***************************************************************************)
(* What the board computes of its two sensors.  The difference of the two   *)
(* sums of a window is its true variance, and the root is exact, for every  *)
(* window, scale, reach and width.  The line that tells a temperature is    *)
(* that of the die, reads back as the answer, and no number on the way to   *)
(* it leaves its C type.                                                    *)
(*                                                                         *)
(* What a loop or a fold computes is proved by its least counterexample:    *)
(* Climb is induction over the numbers with the claim given as a set.       *)
(***************************************************************************)
EXTENDS Vibration, Temperature, FiniteSetTheorems, SequenceTheorems,
        WellFoundedInduction, TLAPS

\* A set of numbers that is not empty has a least one.
LEMMA LeastOf ==
  ASSUME NEW T \in SUBSET Nat, T # {}
  PROVE  \E x \in T : \A y \in T : x <= y
<1>1. PICK x \in T : \A y \in T : ~ (<<y, x>> \in OpToRel(<, Nat))
  BY NatLessThanWellFounded, WFMin
<1>2. ASSUME NEW y \in T, y < x PROVE FALSE
  <2>1. <<y, x>> \in Nat \X Nat /\ <<y, x>>[1] < <<y, x>>[2]
    BY <1>2
  <2>2. <<y, x>> \in {ss \in Nat \X Nat : ss[1] < ss[2]}
    BY <2>1
  <2>3. <<y, x>> \in OpToRel(<, Nat)
    BY <2>2 DEF OpToRel
  <2> QED
    BY <1>1, <2>3
<1> QED
  BY <1>2

\* Induction, the claim being a set of numbers.
LEMMA Climb ==
  ASSUME NEW T, 0 \in T, \A n \in Nat : n \in T => n + 1 \in T
  PROVE  \A n \in Nat : n \in T
<1> DEFINE missed == {n \in Nat : n \notin T}
<1> SUFFICES ASSUME missed # {} PROVE FALSE
  OBVIOUS
<1>1. PICK n \in missed : \A m \in missed : n <= m
  BY LeastOf
<1>2. n # 0 /\ n - 1 \in Nat
  BY <1>1
<1>3. n - 1 \in T
  BY <1>1, <1>2
<1> QED
  BY <1>1, <1>2, <1>3

\* What is folded: the elements of S, each turning a value of V into another.
Foldable(S, V, base, take, op) ==
  /\ IsFiniteSet(S) /\ base \in V
  /\ \A s \in SUBSET S : s # {} => take[s] \in s
  /\ op \in [S -> [V -> V]]

\* `it' folds every subset of S, each time with the element `take' says.
FoldsTo(it, S, V, base, take, op) ==
  /\ it = [s \in SUBSET S |-> it[s]] /\ it[{}] = base
  /\ \A s \in SUBSET S : s # {} /\ it[s \ {take[s]}] \in V =>
                          it[s] = op[take[s]][it[s \ {take[s]}]]

\* Finite sets, one element less.
LEMMA OneLess ==
  ASSUME NEW S, IsFiniteSet(S)
  PROVE  /\ \A s \in SUBSET S : Cardinality(s) \in Nat /\ (Cardinality(s) = 0 <=> s = {})
         /\ \A s \in SUBSET S : \A x \in s :
              s \ {x} \in SUBSET S /\ Cardinality(s \ {x}) = Cardinality(s) - 1
<1>1. \A s \in SUBSET S : IsFiniteSet(s) /\ Cardinality(s) \in Nat
  BY FS_Subset, FS_CardinalityType
<1>2. \A s \in SUBSET S : Cardinality(s) = 0 <=> s = {}
  BY <1>1, FS_EmptySet
<1>3. \A s \in SUBSET S : \A x \in s :
        s \ {x} \in SUBSET S /\ Cardinality(s \ {x}) = Cardinality(s) - 1
  BY <1>1, FS_RemoveElement
<1> QED
  BY <1>1, <1>2, <1>3

\* A finite set can be folded, whatever the order.
LEMMA FoldExists ==
  ASSUME NEW S, NEW V, NEW base, NEW take, NEW op, Foldable(S, V, base, take, op)
  PROVE  \E it \in [SUBSET S -> V] : FoldsTo(it, S, V, base, take, op)
<1>a. /\ IsFiniteSet(S) /\ base \in V /\ op \in [S -> [V -> V]]
      /\ \A s \in SUBSET S : s # {} => take[s] \in s
  BY DEF Foldable
<1> USE <1>a
<1> DEFINE D(n) == {s \in SUBSET S : Cardinality(s) <= n}
           Good(g, n) == \A s \in D(n) :
                           g[s] = IF s = {} THEN base ELSE op[take[s]][g[s \ {take[s]}]]
           T == {n \in Nat : \E g \in [D(n) -> V] : Good(g, n)}
<1>1. 0 \in T
  <2> DEFINE g == [s \in D(0) |-> base]
  <2>1. \A s \in D(0) : s = {}
    BY OneLess
  <2>2. g \in [D(0) -> V] /\ Good(g, 0)
    BY <2>1
  <2> QED
    BY <2>2
<1>2. ASSUME NEW n \in Nat, n \in T PROVE n + 1 \in T
  <2>1. PICK g \in [D(n) -> V] : Good(g, n)
    BY <1>2
  <2> DEFINE h == [s \in D(n + 1) |->
                     IF s = {} THEN base ELSE op[take[s]][g[s \ {take[s]}]]]
  <2>2. \A s \in D(n + 1) : s # {} => s \ {take[s]} \in D(n) /\ take[s] \in S
    BY OneLess
  <2>3. h \in [D(n + 1) -> V]
    BY <2>2
  <2>4. ASSUME NEW s \in D(n) PROVE s \in D(n + 1) /\ h[s] = g[s]
    <3>1. Cardinality(s) \in Nat /\ Cardinality(s) <= n
      BY OneLess
    <3>2. s \in D(n + 1)
      BY <3>1
    <3>3. g[s] = IF s = {} THEN base ELSE op[take[s]][g[s \ {take[s]}]]
      BY <2>1
    <3> QED
      BY <3>2, <3>3
  <2>5. Good(h, n + 1)
    <3> SUFFICES ASSUME NEW s \in D(n + 1), s # {}
                 PROVE  h[s] = op[take[s]][h[s \ {take[s]}]]
      OBVIOUS
    <3>1. h[s \ {take[s]}] = g[s \ {take[s]}]
      BY <2>2, <2>4
    <3> QED
      BY <3>1
  <2>6. \E q \in [D(n + 1) -> V] : Good(q, n + 1)
    <3> HIDE DEF h, D, Good
    <3> QED
      BY <2>3, <2>5
  <2>7. n + 1 \in Nat
    OBVIOUS
  <2> HIDE DEF D, Good
  <2> QED
    BY <2>6, <2>7
<1>3. Cardinality(S) \in T
  <2>1. \A n \in Nat : n \in T
    <3> HIDE DEF T
    <3> QED
      BY <1>1, <1>2, Climb
  <2> QED
    BY <2>1, OneLess
<1>4. PICK g \in [D(Cardinality(S)) -> V] : Good(g, Cardinality(S))
  BY <1>3
<1>5. D(Cardinality(S)) = SUBSET S
  BY FS_Subset
<1>6. g \in [SUBSET S -> V]
  BY <1>5
<1>7. g = [s \in SUBSET S |-> g[s]]
  BY <1>6
<1>8. \A s \in SUBSET S : g[s] = IF s = {} THEN base ELSE op[take[s]][g[s \ {take[s]}]]
  BY <1>4, <1>5
<1>9. FoldsTo(g, S, V, base, take, op)
  BY <1>7, <1>8 DEF FoldsTo
<1> QED
  BY <1>6, <1>9

\* A fold that takes the elements as `take' says, and one that takes any first.
InOrder(it, S, V, base, take, op) ==
  /\ it \in [SUBSET S -> V] /\ it[{}] = base
  /\ \A s \in SUBSET S : s # {} => it[s] = op[take[s]][it[s \ {take[s]}]]

InAnyOrder(it, S, V, base, op) ==
  /\ it \in [SUBSET S -> V] /\ it[{}] = base
  /\ \A s \in SUBSET S : \A x \in s : it[s] = op[x][it[s \ {x}]]

\* The equation of a fold has a function for its solution.
LEMMA FoldTyped ==
  ASSUME NEW S, NEW V, NEW base, NEW take, NEW op, Foldable(S, V, base, take, op)
  PROVE  \A it : FoldsTo(it, S, V, base, take, op) => InOrder(it, S, V, base, take, op)
<1> SUFFICES ASSUME NEW it, FoldsTo(it, S, V, base, take, op)
             PROVE  InOrder(it, S, V, base, take, op)
  OBVIOUS
<1>a. /\ IsFiniteSet(S) /\ base \in V /\ op \in [S -> [V -> V]]
      /\ \A s \in SUBSET S : s # {} => take[s] \in s
  BY DEF Foldable
<1> USE <1>a
<1>1. \A s \in SUBSET S : s # {} /\ it[s \ {take[s]}] \in V =>
                         it[s] = op[take[s]][it[s \ {take[s]}]]
  BY DEF FoldsTo
<1>2. it[{}] = base
  BY DEF FoldsTo
<1> DEFINE T == {n \in Nat : \A s \in SUBSET S : Cardinality(s) = n => it[s] \in V}
<1>3. 0 \in T
  BY OneLess, <1>2
<1>4. ASSUME NEW n \in Nat, n \in T PROVE n + 1 \in T
  <2> SUFFICES ASSUME NEW s \in SUBSET S, Cardinality(s) = n + 1 PROVE it[s] \in V
    OBVIOUS
  <2>1. s # {}
    BY OneLess
  <2> DEFINE t == take[s]
             rest == s \ {t}
  <2>2. t \in S /\ rest \in SUBSET S
    BY <2>1
  <2>3. Cardinality(rest) = (n + 1) - 1
    BY <2>1, OneLess
  <2>4. it[rest] \in V
    <3>1. Cardinality(rest) = n
      BY <2>3
    <3> HIDE DEF rest
    <3> QED
      BY <1>4, <2>2, <3>1
  <2>5. it[s] = op[t][it[rest]]
    BY <1>1, <2>1, <2>4
  <2> HIDE DEF t, rest
  <2> QED
    BY <2>2, <2>4, <2>5
<1>5. \A n \in Nat : n \in T
  <2> HIDE DEF T
  <2> QED
    BY <1>3, <1>4, Climb
<1>6. \A s \in SUBSET S : it[s] \in V
  BY <1>5, OneLess
<1>7. it \in [SUBSET S -> V]
  BY <1>6 DEF FoldsTo
<1>8. \A s \in SUBSET S : s # {} => it[s] = op[take[s]][it[s \ {take[s]}]]
  BY <1>1, <1>6
<1> QED
  BY <1>2, <1>7, <1>8 DEF InOrder

\* Two elements can be taken in either order.
Commutes(S, V, op) == \A x, y \in S : \A v \in V : op[x][op[y][v]] = op[y][op[x][v]]

\* When two elements can be taken in either order, any element can be taken first.
LEMMA FoldAnyOrder ==
  ASSUME NEW S, NEW V, NEW base, NEW take, NEW op, Foldable(S, V, base, take, op),
         Commutes(S, V, op),
         NEW it, FoldsTo(it, S, V, base, take, op)
  PROVE  InAnyOrder(it, S, V, base, op)
<1>1. /\ it \in [SUBSET S -> V] /\ it[{}] = base
      /\ \A s \in SUBSET S : s # {} => it[s] = op[take[s]][it[s \ {take[s]}]]
  <2>1. InOrder(it, S, V, base, take, op)
    BY FoldTyped
  <2> QED
    BY <2>1 DEF InOrder
<1>a. /\ IsFiniteSet(S) /\ base \in V /\ op \in [S -> [V -> V]]
      /\ \A s \in SUBSET S : s # {} => take[s] \in s
  BY DEF Foldable
<1> DEFINE T == {n \in Nat : \A s \in SUBSET S : Cardinality(s) = n =>
                    \A x \in s : it[s] = op[x][it[s \ {x}]]}
<1>2. 0 \in T
  BY OneLess, <1>a
<1>3. ASSUME NEW n \in Nat, n \in T PROVE n + 1 \in T
  <2> SUFFICES ASSUME NEW s \in SUBSET S, Cardinality(s) = n + 1, NEW x \in s
               PROVE  it[s] = op[x][it[s \ {x}]]
    OBVIOUS
  <2> DEFINE t == take[s]
             rest == (s \ {t}) \ {x}
  <2>1. it[s] = op[t][it[s \ {t}]] /\ t \in s
    BY <1>1, <1>a
  <2>2. CASE x = t
    BY <2>1, <2>2
  <2>3. CASE x # t
    <3>1. s \ {t} \in SUBSET S /\ s \ {x} \in SUBSET S
      OBVIOUS
    <3> HIDE DEF t
    <3>2. Cardinality(s \ {t}) = n /\ Cardinality(s \ {x}) = n
      <4>1. \A y \in s : Cardinality(s \ {y}) = (n + 1) - 1
        BY OneLess, <1>a
      <4> QED
        BY <2>1, <4>1
    <3>4. x \in s \ {t} /\ t \in s \ {x}
      BY <2>1, <2>3
    <3>5. rest = (s \ {x}) \ {t}
      BY DEF rest
    <3> HIDE DEF rest
    <3>3. rest = (s \ {t}) \ {x}
      BY DEF rest
    <3>6. it[s \ {t}] = op[x][it[rest]]
      BY <1>3, <3>1, <3>2, <3>3, <3>4
    <3>7. it[s \ {x}] = op[t][it[rest]]
      BY <1>3, <3>1, <3>2, <3>3, <3>4, <3>5
    <3>8. it[rest] \in V /\ t \in S /\ x \in S
      <4>1. rest \in SUBSET S
        BY DEF rest
      <4> QED
        BY <1>1, <2>1, <4>1
    <3>9. op[t][op[x][it[rest]]] = op[x][op[t][it[rest]]]
      BY <3>8 DEF Commutes
    <3> QED
      BY <2>1, <3>6, <3>7, <3>9
  <2> QED
    BY <2>2, <2>3
<1>4. \A n \in Nat : n \in T
  <2> HIDE DEF T
  <2> QED
    BY <1>2, <1>3, Climb
<1>5. \A s \in SUBSET S : \A x \in s : it[s] = op[x][it[s \ {x}]]
  BY <1>4, OneLess, <1>a
<1> QED
  BY <1>1, <1>5 DEF InAnyOrder

\* A fold of a whole, and one of a part of it.
FoldsWhole(it, S, V, base, op) ==
  /\ IsFiniteSet(S) /\ base \in V /\ op \in [S -> [V -> V]]
  /\ InAnyOrder(it, S, V, base, op)

FoldsPart(part, R, S, V, base, take, op) ==
  /\ R \in SUBSET S /\ \A s \in SUBSET R : s # {} => take[s] \in s
  /\ FoldsTo(part, R, V, base, take, op)

\* A fold of a part is the fold of the whole, at that part.
LEMMA FoldOfPart ==
  ASSUME NEW S, NEW V, NEW base, NEW op, NEW it, FoldsWhole(it, S, V, base, op),
         NEW R, NEW take, NEW part, FoldsPart(part, R, S, V, base, take, op)
  PROVE  part[R] = it[R]
<1>a. /\ it \in [SUBSET S -> V] /\ it[{}] = base
      /\ \A s \in SUBSET S : \A x \in s : it[s] = op[x][it[s \ {x}]]
      /\ \A s \in SUBSET R : s # {} => take[s] \in s
      /\ base \in V /\ op \in [S -> [V -> V]] /\ R \in SUBSET S /\ IsFiniteSet(S)
      /\ FoldsTo(part, R, V, base, take, op)
  BY DEF InAnyOrder, FoldsWhole, FoldsPart
<1> USE <1>a
<1>1. /\ part[{}] = base
      /\ \A s \in SUBSET R : s # {} /\ part[s \ {take[s]}] \in V =>
                              part[s] = op[take[s]][part[s \ {take[s]}]]
  BY DEF FoldsTo
<1> DEFINE T == {n \in Nat : \A s \in SUBSET R : Cardinality(s) = n => part[s] = it[s]}
<1>2. 0 \in T
  BY <1>1, OneLess
<1>3. ASSUME NEW n \in Nat, n \in T PROVE n + 1 \in T
  <2> SUFFICES ASSUME NEW s \in SUBSET R, Cardinality(s) = n + 1 PROVE part[s] = it[s]
    OBVIOUS
  <2> DEFINE t == take[s]
  <2>1. s # {}
    BY OneLess
  <2>2. t \in s /\ s \in SUBSET S
    BY <2>1
  <2>3. Cardinality(s \ {t}) = (n + 1) - 1
    BY <2>2, OneLess
  <2>4. part[s \ {t}] = it[s \ {t}]
    <3>1. Cardinality(s \ {t}) = n
      BY <2>3
    <3> HIDE DEF t
    <3> QED
      BY <1>3, <3>1
  <2>5. part[s] = op[t][part[s \ {t}]]
    BY <1>1, <2>1, <2>2, <2>4
  <2> HIDE DEF t
  <2> QED
    BY <2>2, <2>4, <2>5
<1>4. \A n \in Nat : n \in T
  <2> HIDE DEF T
  <2> QED
    BY <1>2, <1>3, Climb
<1> QED
  BY <1>4, OneLess

-----------------------------------------------------------------------------
\* The types, and how far the sums are from the limits of theirs.
SumsInv ==
  /\ samples \in 0 .. WindowSamples
  /\ sum_x \in Int /\ sum_y \in Int /\ sum_z \in Int /\ sum_of_squares \in Nat
  /\ SquaresOfSums <= samples * sum_of_squares
  /\ sum_of_squares <= 3 * Reach * Reach * samples

\* A number within r of 0 has a square of at most r * r.
LEMMA SquareBound ==
  ASSUME NEW r \in Nat, NEW n \in -r .. r
  PROVE  n * n \in Nat /\ n * n <= r * r
<1>1. CASE n >= 0
  BY <1>1
<1>2. CASE n < 0
  <2>1. PICK m \in 0 .. r : n = -m
    BY <1>2
  <2>2. m * m <= r * r
    OBVIOUS
  <2> QED
    BY <2>1, <2>2
<1> QED
  BY <1>1, <1>2

\* Cauchy's inequality, one sample at a time: k |S + v|^2 grows by the square of
\* S - k v at most.
LEMMA OneMore ==
  ASSUME NEW k \in Nat \ {0}, NEW S \in Int, NEW v \in Int
  PROVE  k * (2 * (S * v)) <= S * S + k * (k * (v * v))
<1>1. (S - k * v) * (S - k * v) >= 0
  <2>1. S - k * v \in Int
    OBVIOUS
  <2>2. \A i \in Int : i * i >= 0
    OBVIOUS
  <2> QED
    BY <2>1, <2>2
<1>2. (S - k * v) * (S - k * v) = S * S - k * (2 * (S * v)) + k * (k * (v * v))
  OBVIOUS
<1> QED
  BY <1>1, <1>2

\* A positive factor of both sides can go.
LEMMA Cancel ==
  ASSUME NEW k \in Nat \ {0}, NEW a \in Int, NEW b \in Int, k * a <= k * b
  PROVE  a <= b
OBVIOUS

\* The same for the three axes together.
LEMMA OneMoreSample ==
  ASSUME NEW k \in Nat, NEW Q \in Nat,
         NEW X \in Int, NEW Y \in Int, NEW Z \in Int,
         NEW x \in Int, NEW y \in Int, NEW z \in Int,
         X * X + Y * Y + Z * Z <= k * Q
  PROVE  2 * (X * x) + 2 * (Y * y) + 2 * (Z * z) <= Q + k * (x * x + y * y + z * z)
<1> DEFINE a == 2 * (X * x) + 2 * (Y * y) + 2 * (Z * z)
           q == x * x + y * y + z * z
<1>1. CASE k = 0
  <2>1. \A i \in Int : i * i >= 0 /\ (i * i = 0 => i = 0)
    OBVIOUS
  <2>2. X = 0 /\ Y = 0 /\ Z = 0
    BY <1>1, <2>1
  <2> QED
    BY <1>1, <2>2
<1>2. CASE k # 0
  <2>1. k * (2 * (X * x)) <= X * X + k * (k * (x * x))
    BY <1>2, OneMore
  <2>2. k * (2 * (Y * y)) <= Y * Y + k * (k * (y * y))
    BY <1>2, OneMore
  <2>3. k * (2 * (Z * z)) <= Z * Z + k * (k * (z * z))
    BY <1>2, OneMore
  <2>4. k * a <= k * (Q + k * q)
    BY <2>1, <2>2, <2>3
  <2>5. a \in Int /\ Q + k * q \in Int
    OBVIOUS
  <2> HIDE DEF a, q
  <2>6. a <= Q + k * q
    BY <1>2, <2>4, <2>5, Cancel
  <2> QED
    BY <2>6 DEF a, q
<1> QED
  BY <1>1, <1>2

\* A step keeps the sums within what their samples allow.
LEMMA SumsStep == SumsInv /\ [VibrationNext]_vibration => SumsInv'
<1> SUFFICES ASSUME SumsInv, [VibrationNext]_vibration PROVE SumsInv'
  OBVIOUS
<1> USE VibrationAssumption DEF SumsInv, SquaresOfSums
<1>1. CASE Push
  <2>1. PICK s \in Samples : Add(s[1], s[2], s[3])
    BY <1>1 DEF Push
  <2> DEFINE x == s[1]
             y == s[2]
             z == s[3]
  <2>2. x \in -Reach .. Reach /\ y \in -Reach .. Reach /\ z \in -Reach .. Reach
    OBVIOUS
  <2> HIDE DEF x, y, z
  <2>3. /\ samples < WindowSamples /\ samples' = samples + 1
        /\ sum_x' = sum_x + x /\ sum_y' = sum_y + y /\ sum_z' = sum_z + z
        /\ sum_of_squares' = sum_of_squares + (x * x + y * y + z * z)
    BY <1>1, <2>1 DEF Push, Add, x, y, z
  <2>4. x * x \in Nat /\ y * y \in Nat /\ z * z \in Nat
        /\ x * x <= Reach * Reach /\ y * y <= Reach * Reach /\ z * z <= Reach * Reach
    BY <2>2, SquareBound
  <2>5. 2 * (sum_x * x) + 2 * (sum_y * y) + 2 * (sum_z * z)
          <= sum_of_squares + samples * (x * x + y * y + z * z)
    BY <2>2, OneMoreSample
  <2>6. SquaresOfSums' <= samples' * sum_of_squares'
    BY <2>2, <2>3, <2>4, <2>5
  <2>7. sum_of_squares' <= 3 * Reach * Reach * samples'
    BY <2>3, <2>4
  <2>8. sum_x' \in Int /\ sum_y' \in Int /\ sum_z' \in Int /\ sum_of_squares' \in Nat
        /\ samples' \in 0 .. WindowSamples
    BY <2>2, <2>3, <2>4
  <2> QED
    BY <2>6, <2>7, <2>8
<1>2. CASE Result
  BY <1>2 DEF Result, EmptyWindow
<1>3. CASE BeginRoot \/ Align \/ Digit \/ NextWindow \/ UNCHANGED vibration
  BY <1>3 DEF BeginRoot, Align, Digit, NextWindow, vibration, window
<1> QED
  BY <1>1, <1>2, <1>3 DEF VibrationNext

\* Nothing is summed at first.
LEMMA SumsStart == VibrationInit => SumsInv
BY VibrationAssumption DEF VibrationInit, SumsInv, SquaresOfSums

\* "It is never negative: that is Cauchy's inequality" (vibration.c:75): the
\* unsigned subtraction of scaled_variance() neither wraps nor is cut.
DifferenceIsExact ==
  samples = WindowSamples =>
    /\ ScaledVariance = WindowSamples * sum_of_squares - SquaresOfSums
    /\ SquaresOfSums <= WindowSamples * sum_of_squares
    /\ WindowSamples * sum_of_squares < Word

\* Of a whole window neither product wraps, nor does their difference.
LEMMA WholeWindow ==
  ASSUME SumsInv, samples = WindowSamples
  PROVE  /\ ScaledVariance = WindowSamples * sum_of_squares - SquaresOfSums
         /\ SquaresOfSums <= WindowSamples * sum_of_squares
         /\ WindowSamples * sum_of_squares < Word
         /\ ScaledVariance \in 0 .. Word - 1
<1> DEFINE V == WindowSamples * sum_of_squares - SquaresOfSums
<1>1. SquaresOfSums \in Nat
  <2>1. \A i \in Int : i * i \in Nat
    OBVIOUS
  <2> QED
    BY <2>1 DEF SumsInv, SquaresOfSums
<1>2. SquaresOfSums <= WindowSamples * sum_of_squares
  BY DEF SumsInv
<1>3. WindowSamples * sum_of_squares < Word
  <2>1. sum_of_squares <= 3 * Reach * Reach * WindowSamples
    BY DEF SumsInv
  <2>2. WindowSamples * sum_of_squares
          <= WindowSamples * (3 * Reach * Reach * WindowSamples)
    BY <2>1, VibrationAssumption DEF SumsInv
  <2>3. WindowSamples * (3 * Reach * Reach * WindowSamples)
          = 3 * WindowSamples * WindowSamples * Reach * Reach
    BY VibrationAssumption
  <2>4. Word \in Nat
    BY VibrationAssumption
  <2> QED
    BY <2>2, <2>3, <2>4, VibrationAssumption DEF SumsInv
<1>4. V \in 0 .. Word - 1 /\ Word \in Nat \ {0}
  BY <1>1, <1>2, <1>3, VibrationAssumption DEF SumsInv
<1>5. V % Word = V
  BY <1>4
<1> QED
  BY <1>2, <1>3, <1>4, <1>5 DEF ScaledVariance

\* The sums of a window hold their types and their difference is the variance,
\* for any number of samples that leaves it room in 64 bits.
THEOREM VarianceNeverWraps == VibrationSpec => []DifferenceIsExact
<1>1. SumsInv => DifferenceIsExact
  BY WholeWindow DEF DifferenceIsExact
<1> QED
  BY <1>1, SumsStart, SumsStep, PTL DEF VibrationSpec

-----------------------------------------------------------------------------
\* Where the two loops are: the digits found leave a remainder, the root is held
\* doubled and shifted by the place of the next digit, and one unit of the last
\* place more would be too much.
RootInv ==
  /\ loop \in {"none", "align", "digit", "done"}
  /\ value \in 0 .. Word - 1 /\ remainder \in Nat /\ root \in Nat /\ digits \in Nat
  /\ half \in PowersOfTwo \cup {0} /\ bit = half * half
  /\ loop = "align" =>
       /\ digits = 0 /\ root = 0 /\ remainder = value
       /\ half # 0 => value < (2 * half) * (2 * half)
       /\ half = 0 => value = 0
  /\ loop = "digit" =>
       /\ value = digits * digits + remainder
       /\ half # 0 => /\ root = 2 * (digits * half)
                      /\ value < (digits + 2 * half) * (digits + 2 * half)
       /\ half = 0 => root = digits /\ value < (digits + 1) * (digits + 1)
  /\ RootIsFloor

\* bit >>= 2 halves the place.
LEMMA Halving ==
  ASSUME NEW h \in PowersOfTwo
  PROVE  \/ h = 1 /\ h \div 2 = 0 /\ (h * h) \div 4 = 0
         \/ \E q \in PowersOfTwo :
              h = 2 * q /\ h \div 2 = q /\ (h * h) \div 4 = q * q /\ q \in Nat \ {0}
<1>1. CASE h = 1
  BY <1>1
<1>2. CASE h # 1
  <2>1. PICK q \in PowersOfTwo : h = 2 * q
    BY <1>2, VibrationAssumption
  <2>2. q \in Nat \ {0}
    BY VibrationAssumption
  <2>3. h \div 2 = q
    BY <2>1, <2>2
  <2>4. h * h = 4 * (q * q) /\ q * q \in Nat
    BY <2>1, <2>2
  <2>5. (h * h) \div 4 = q * q
    BY <2>4
  <2> QED
    BY <2>1, <2>2, <2>3, <2>5
<1> QED
  BY <1>1, <1>2

\* A turn of the root's loop keeps it between the squares.
LEMMA RootStep == SumsInv /\ RootInv /\ [VibrationNext]_vibration => RootInv'
<1> SUFFICES ASSUME SumsInv, RootInv, [VibrationNext]_vibration PROVE RootInv'
  OBVIOUS
<1> USE DEF RootInv, RootIsFloor
<1>1. CASE Push \/ UNCHANGED vibration
  BY <1>1 DEF Push, vibration, search
<1>2. CASE BeginRoot
  <2>1. ScaledVariance \in 0 .. Word - 1
    BY <1>2, WholeWindow DEF BeginRoot
  <2>2. Word = (2 * TopPower) * (2 * TopPower) /\ TopPower \in PowersOfTwo
        /\ TopPower \in Nat \ {0}
    BY VibrationAssumption
  <2> QED
    BY <1>2, <2>1, <2>2 DEF BeginRoot
<1>3. CASE Align
  <2>1. CASE bit > remainder
    <3>1. half \in PowersOfTwo
      BY <2>1
    <3>2. half' = half \div 2 /\ bit' = (half * half) \div 4 /\ loop' = "align"
          /\ UNCHANGED <<value, remainder, root, digits>>
      BY <1>3, <2>1 DEF Align, ShiftBit
    <3>3. CASE half = 1
      BY <1>3, <2>1, <3>1, <3>2, <3>3, Halving DEF Align
    <3>4. CASE half # 1
      <4>1. PICK q \in PowersOfTwo :
              half = 2 * q /\ half \div 2 = q /\ (half * half) \div 4 = q * q
              /\ q \in Nat \ {0}
        BY <3>1, <3>4, Halving
      <4>2. value < (2 * q) * (2 * q)
        BY <1>3, <2>1, <4>1 DEF Align
      <4> QED
        BY <1>3, <3>2, <4>1, <4>2 DEF Align
    <3> QED
      BY <3>3, <3>4
  <2>2. CASE ~(bit > remainder)
    <3>1. loop' = "digit" /\ UNCHANGED <<value, remainder, root, digits, bit, half>>
          /\ digits = 0 /\ root = 0 /\ remainder = value
      BY <1>3, <2>2 DEF Align
    <3>2. half \in Nat
      BY VibrationAssumption
    <3>3. half # 0 => root = 2 * (digits * half)
                      /\ value < (digits + 2 * half) * (digits + 2 * half)
      BY <1>3, <3>1, <3>2 DEF Align
    <3>4. half = 0 => value < (digits + 1) * (digits + 1)
      BY <1>3, <3>1 DEF Align
    <3> QED
      BY <3>1, <3>3, <3>4
  <2> QED
    BY <2>1, <2>2
<1>4. CASE Digit
  <2> DEFINE d == digits
             h == half
  <2>1. half \in PowersOfTwo /\ half \in Nat \ {0} /\ digits \in Nat
    BY <1>4, VibrationAssumption DEF Digit
  <2>2. half' = half \div 2 /\ bit' = (half * half) \div 4 /\ loop' = "digit"
        /\ value' = value
    BY <1>4 DEF Digit, ShiftBit
  <2>3. root = 2 * (digits * half) /\ value = digits * digits + remainder
        /\ value < (digits + 2 * half) * (digits + 2 * half) /\ loop = "digit"
    BY <1>4, <2>1 DEF Digit
  <2>4. (digits + half) * (digits + half)
          = digits * digits + 2 * (digits * half) + half * half
    BY <2>1
  <2>5. root \div 2 = digits * half /\ digits * half \in Nat /\ half * half \in Nat
    BY <2>1, <2>3
  <2>6. /\ digits' \in Nat /\ remainder' \in Nat
        /\ value = digits' * digits' + remainder'
        /\ root' = digits' * half
        /\ value < (digits' + half) * (digits' + half)
    <3>1. CASE Fits
      <4>1. remainder' = remainder - (root + bit) /\ root' = root \div 2 + bit
            /\ digits' = digits + half
        BY <1>4, <3>1 DEF Digit
      <4>2. remainder' \in Nat
        BY <3>1, <4>1, <2>1 DEF Fits
      <4>3. value = digits' * digits' + remainder'
        BY <4>1, <2>1, <2>3, <2>4
      <4>4. root' = digits' * half
        BY <4>1, <2>1, <2>5
      <4>5. digits' + half = digits + 2 * half
        BY <4>1, <2>1
      <4> QED
        BY <4>1, <4>2, <4>3, <4>4, <4>5, <2>1, <2>3
    <3>2. CASE ~Fits
      <4>1. root' = root \div 2 /\ remainder' = remainder /\ digits' = digits
        BY <1>4, <3>2 DEF Digit
      <4>2. remainder < root + half * half
        BY <3>2, <2>1, <2>5 DEF Fits
      <4> QED
        BY <4>1, <4>2, <2>1, <2>3, <2>4, <2>5
    <3> QED
      BY <3>1, <3>2
  <2>7. CASE half = 1
    <3>1. half' = 0 /\ bit' = 0
      BY <2>2, <2>7
    <3>2. root' = digits' /\ value < (digits' + 1) * (digits' + 1)
      <4>1. \A n \in Nat : n * 1 = n
        OBVIOUS
      <4> QED
        BY <2>6, <2>7, <4>1
    <3>3. value' = digits' * digits' + remainder' /\ value' < (digits' + 1) * (digits' + 1)
      BY <2>2, <2>6, <3>2
    <3>4. root' \in Nat /\ bit' = half' * half' /\ half' \in PowersOfTwo \cup {0}
      BY <2>6, <3>1, <3>2
    <3>5. value' \in 0 .. Word - 1 /\ loop' = "digit"
      BY <2>2
    <3> QED
      BY <2>6, <3>1, <3>2, <3>3, <3>4, <3>5
  <2>8. CASE half # 1
    <3>1. PICK q \in PowersOfTwo :
            half = 2 * q /\ half \div 2 = q /\ (half * half) \div 4 = q * q
            /\ q \in Nat \ {0}
      BY <2>1, <2>8, Halving
    <3>2. root' = 2 * (digits' * q)
      BY <2>6, <3>1
    <3>3. value < (digits' + 2 * q) * (digits' + 2 * q)
      BY <2>6, <3>1
    <3>4. half' = q /\ bit' = q * q
      BY <2>2, <3>1
    <3>5. /\ value' = digits' * digits' + remainder'
          /\ value' < (digits' + 2 * half') * (digits' + 2 * half')
          /\ root' = 2 * (digits' * half') /\ half' # 0 /\ root' \in Nat
      <4>1. \A m, n \in Nat : 2 * (m * n) \in Nat
        OBVIOUS
      <4>2. root' \in Nat
        BY <2>6, <3>1, <3>2, <4>1
      <4> QED
        BY <2>2, <2>6, <3>1, <3>2, <3>3, <3>4, <4>2
    <3> QED
      BY <2>2, <2>6, <3>1, <3>4, <3>5
  <2> QED
    BY <2>7, <2>8
<1>5. CASE Result
  <2>1. half = 0
    <3>1. \A n \in PowersOfTwo : n * n # 0
      <4>1. \A n \in Nat \ {0} : n * n # 0
        OBVIOUS
      <4> QED
        BY <4>1, VibrationAssumption
    <3> QED
      BY <1>5, <3>1 DEF Result
  <2>2. root * root <= value /\ value < (root + 1) * (root + 1)
    BY <1>5, <2>1 DEF Result
  <2> QED
    BY <1>5, <2>2 DEF Result, search
<1>6. CASE NextWindow
  BY <1>6, VibrationAssumption DEF NextWindow
<1> QED
  BY <1>1, <1>2, <1>3, <1>4, <1>5, <1>6 DEF VibrationNext

\* "The result is the floor of the true root" (vibration.c:20), for every value
\* of the type, without a bound on the turns of its loops.
THEOREM RootIsExact == VibrationSpec => []RootIsFloor
<1>1. VibrationInit => RootInv
  BY VibrationAssumption DEF VibrationInit, RootInv, RootIsFloor
<1>2. RootInv => RootIsFloor
  BY DEF RootInv
<1> QED
  BY <1>1, <1>2, SumsStart, SumsStep, RootStep, PTL DEF VibrationSpec

-----------------------------------------------------------------------------
Axes == Int \X Int \X Int
PairsOf(n) == {pair \in (1 .. n) \X (1 .. n) : pair[1] < pair[2]}

\* Each pair adds the distance of its two samples.
AddsApart(t, pairs) == [pair \in pairs |-> [v \in Int |-> Apart(t[pair[1]], t[pair[2]]) + v]]

SomeOf(S) == [s \in SUBSET S |-> CHOOSE x \in s : TRUE]

\* The pairs of a window are finitely many.
LEMMA PairsFinite == ASSUME NEW n \in Nat PROVE IsFiniteSet(PairsOf(n))
<1>1. IsFiniteSet((1 .. n) \X (1 .. n))
  <2>1. IsFiniteSet(1 .. n)
    BY FS_Interval
  <2> QED
    BY <2>1, FS_Product
<1> QED
  BY <1>1, FS_Subset DEF PairsOf

\* Two samples are a number apart.
LEMMA ApartIsNumber ==
  ASSUME NEW s \in Axes, NEW t \in Axes
  PROVE  Apart(s, t) \in Int
BY DEF Axes, Apart

\* What is added for a pair is fit for a fold, in any order.
LEMMA PairsFold ==
  ASSUME NEW n \in Nat, NEW t \in [1 .. n -> Axes]
  PROVE  /\ Foldable(PairsOf(n), Int, 0, SomeOf(PairsOf(n)), AddsApart(t, PairsOf(n)))
         /\ Commutes(PairsOf(n), Int, AddsApart(t, PairsOf(n)))
<1> DEFINE d == [pair \in PairsOf(n) |-> Apart(t[pair[1]], t[pair[2]])]
<1>1. \A pair \in PairsOf(n) : t[pair[1]] \in Axes /\ t[pair[2]] \in Axes
  BY DEF PairsOf
<1>2. d \in [PairsOf(n) -> Int]
  BY <1>1, ApartIsNumber
<1>3. AddsApart(t, PairsOf(n)) = [pair \in PairsOf(n) |-> [v \in Int |-> d[pair] + v]]
  BY DEF AddsApart
<1> HIDE DEF d
<1>4. AddsApart(t, PairsOf(n)) \in [PairsOf(n) -> [Int -> Int]]
  BY <1>2, <1>3
<1>5. \A x, y \in PairsOf(n) : \A v \in Int :
        AddsApart(t, PairsOf(n))[x][AddsApart(t, PairsOf(n))[y][v]] = d[x] + (d[y] + v)
  BY <1>2, <1>3
<1>6. Commutes(PairsOf(n), Int, AddsApart(t, PairsOf(n)))
  <2> SUFFICES ASSUME NEW x \in PairsOf(n), NEW y \in PairsOf(n), NEW v \in Int
               PROVE  AddsApart(t, PairsOf(n))[x][AddsApart(t, PairsOf(n))[y][v]]
                        = AddsApart(t, PairsOf(n))[y][AddsApart(t, PairsOf(n))[x][v]]
    BY DEF Commutes
  <2>1. d[x] \in Int /\ d[y] \in Int
    BY <1>2
  <2>2. d[x] + (d[y] + v) = d[y] + (d[x] + v)
    BY <2>1
  <2> QED
    BY <1>5, <2>2
<1>7. \A s \in SUBSET PairsOf(n) : s # {} => SomeOf(PairsOf(n))[s] \in s
  BY Zenon DEF SomeOf
<1> QED
  BY <1>4, <1>6, <1>7, PairsFinite DEF Foldable

\* The true variance is such a fold over the pairs of the window.
LEMMA VarianceFolds ==
  ASSUME WindowSamples \in Nat, taken \in [1 .. WindowSamples -> Axes]
  PROVE  \E it : /\ InAnyOrder(it, PairsOf(WindowSamples), Int, 0,
                               AddsApart(taken, PairsOf(WindowSamples)))
                 /\ TrueVariance = it[PairsOf(WindowSamples)]
<1> DEFINE P == PairsOf(WindowSamples)
           Equation(f) == f = [s \in SUBSET P |->
             IF s = {} THEN 0
             ELSE Apart(taken[(CHOOSE x \in s : TRUE)[1]], taken[(CHOOSE x \in s : TRUE)[2]])
                    + f[s \ {CHOOSE x \in s : TRUE}]]
           it == CHOOSE f : Equation(f)
<1>1. TrueVariance = it[P]
  BY DEF TrueVariance, MapThenSumSet, MapThenFoldSet, PairsOf
<1>2. \E f : Equation(f)
  <2>1. PICK f : FoldsTo(f, P, Int, 0, SomeOf(P), AddsApart(taken, P)) /\ f \in [SUBSET P -> Int]
    BY PairsFold, FoldExists
  <2>2. \A s \in SUBSET P : s # {} =>
          /\ SomeOf(P)[s] = (CHOOSE x \in s : TRUE)
          /\ SomeOf(P)[s] \in P
          /\ f[s \ {SomeOf(P)[s]}] \in Int
    <3>1. \A s \in SUBSET P : SomeOf(P)[s] = CHOOSE x \in s : TRUE
      BY DEF SomeOf
    <3>2. \A s \in SUBSET P : s # {} => SomeOf(P)[s] \in s
      BY PairsFold DEF Foldable
    <3> QED
      BY <2>1, <3>1, <3>2
  <2>3. \A s \in SUBSET P : s # {} =>
          f[s] = AddsApart(taken, P)[SomeOf(P)[s]][f[s \ {SomeOf(P)[s]}]]
    BY <2>1, <2>2 DEF FoldsTo
  <2>4. \A p \in P : \A v \in Int :
          AddsApart(taken, P)[p][v] = Apart(taken[p[1]], taken[p[2]]) + v
    BY DEF AddsApart
  <2>5. ASSUME NEW s \in SUBSET P
        PROVE  f[s] = IF s = {} THEN 0
             ELSE Apart(taken[(CHOOSE x \in s : TRUE)[1]], taken[(CHOOSE x \in s : TRUE)[2]])
                    + f[s \ {CHOOSE x \in s : TRUE}]
    <3>1. CASE s = {}
      BY <2>1, <3>1 DEF FoldsTo
    <3>2. CASE s # {}
      <4> DEFINE x == SomeOf(P)[s]
      <4>1. x = CHOOSE y \in s : TRUE
        BY <2>2, <3>2
      <4>2. x \in P /\ f[s \ {x}] \in Int
        BY <2>2, <3>2
      <4>3. f[s] = AddsApart(taken, P)[x][f[s \ {x}]]
        BY <2>3, <3>2
      <4>4. f[s] = Apart(taken[x[1]], taken[x[2]]) + f[s \ {x}]
        <5> HIDE DEF x
        <5> QED
          BY <2>4, <4>2, <4>3
      <4> QED
        BY <3>2, <4>1, <4>4
    <3> QED
      BY <3>1, <3>2
  <2>6. f = [s \in SUBSET P |-> f[s]]
    BY <2>1
  <2>7. Equation(f)
    BY <2>5, <2>6
  <2> HIDE DEF Equation
  <2> QED
    BY <2>7
<1>3. Equation(it)
  <2> HIDE DEF Equation
  <2> QED
    BY <1>2
<1>4. FoldsTo(it, P, Int, 0, SomeOf(P), AddsApart(taken, P))
  <2>1. ASSUME NEW s \in SUBSET P, s # {}, it[s \ {SomeOf(P)[s]}] \in Int
        PROVE  it[s] = AddsApart(taken, P)[SomeOf(P)[s]][it[s \ {SomeOf(P)[s]}]]
    <3> DEFINE x == SomeOf(P)[s]
    <3>1. x = CHOOSE y \in s : TRUE
      BY DEF SomeOf
    <3>2. x \in P
      <4>1. x \in s
        BY <2>1, PairsFold DEF Foldable
      <4> QED
        BY <4>1
    <3>3. it[s] = Apart(taken[x[1]], taken[x[2]]) + it[s \ {x}]
      <4> HIDE DEF it
      <4> QED
        BY <1>3, <2>1, <3>1
    <3>4. it[s \ {x}] \in Int
      BY <2>1
    <3> HIDE DEF x, it
    <3>5. AddsApart(taken, P)[x][it[s \ {x}]] = Apart(taken[x[1]], taken[x[2]]) + it[s \ {x}]
      BY <3>2, <3>4 DEF AddsApart
    <3> QED
      BY <3>3, <3>5 DEF x
  <2>2. it = [s \in SUBSET P |-> it[s]] /\ it[{}] = 0
    <3> HIDE DEF it
    <3> QED
      BY <1>3
  <2> HIDE DEF it
  <2> QED
    BY <2>1, <2>2 DEF FoldsTo
<1>5. InAnyOrder(it, P, Int, 0, AddsApart(taken, P))
  <2> HIDE DEF it, P
  <2>1. /\ Foldable(P, Int, 0, SomeOf(P), AddsApart(taken, P))
        /\ Commutes(P, Int, AddsApart(taken, P))
    BY PairsFold DEF P
  <2> QED
    BY <1>4, <2>1, FoldAnyOrder
<1> QED
  BY <1>1, <1>5

\* The sums of the squares of a sample.
SquareOf(s) == s[1] * s[1] + s[2] * s[2] + s[3] * s[3]

\* The running sums of the first n samples of t, from none to all.
Running(t, n, X, Y, Z, Q) ==
  /\ X \in [0 .. n -> Int] /\ Y \in [0 .. n -> Int] /\ Z \in [0 .. n -> Int]
  /\ Q \in [0 .. n -> Int]
  /\ X[0] = 0 /\ Y[0] = 0 /\ Z[0] = 0 /\ Q[0] = 0
  /\ \A i \in 1 .. n :
       /\ X[i] = X[i - 1] + t[i][1] /\ Y[i] = Y[i - 1] + t[i][2]
       /\ Z[i] = Z[i - 1] + t[i][3] /\ Q[i] = Q[i - 1] + SquareOf(t[i])

\* How far two samples are apart, by their squares and products.
LEMMA ApartSquares ==
  ASSUME NEW s \in Axes, NEW v \in Axes
  PROVE  Apart(s, v) = SquareOf(s) + SquareOf(v) - 2 * (s[1] * v[1] + s[2] * v[2] + s[3] * v[3])
<1>1. \A a, b \in Int : (a - b) * (a - b) = a * a + b * b - 2 * (a * b)
  OBVIOUS
<1>2. /\ s[1] \in Int /\ s[2] \in Int /\ s[3] \in Int
      /\ v[1] \in Int /\ v[2] \in Int /\ v[3] \in Int
  BY DEF Axes
<1> DEFINE d(i) == (s[i] - v[i]) * (s[i] - v[i])
<1>3. /\ d(1) = s[1] * s[1] + v[1] * v[1] - 2 * (s[1] * v[1])
      /\ d(2) = s[2] * s[2] + v[2] * v[2] - 2 * (s[2] * v[2])
      /\ d(3) = s[3] * s[3] + v[3] * v[3] - 2 * (s[3] * v[3])
  BY <1>1, <1>2
<1>4. Apart(s, v) = d(1) + d(2) + d(3)
  BY DEF Apart
<1>5. \A a, b \in Int : a * b \in Int
  OBVIOUS
<1>6. /\ s[1] * s[1] \in Int /\ s[2] * s[2] \in Int /\ s[3] * s[3] \in Int
      /\ v[1] * v[1] \in Int /\ v[2] * v[2] \in Int /\ v[3] * v[3] \in Int
      /\ s[1] * v[1] \in Int /\ s[2] * v[2] \in Int /\ s[3] * v[3] \in Int
  BY <1>2, <1>5
<1> HIDE DEF d
<1> QED
  BY <1>3, <1>4, <1>6 DEF SquareOf

\* The pairs of the first n, and those of the next sample with the first m.
PairsUpTo(n, m) == PairsOf(n) \cup {<<i, n + 1>> : i \in 1 .. m}

\* A sample more brings one pair with each sample before it.
LEMMA PairsGrow ==
  ASSUME NEW n \in Nat
  PROVE  /\ PairsOf(0) = {} /\ PairsUpTo(n, 0) = PairsOf(n)
         /\ PairsUpTo(n, n) = PairsOf(n + 1)
         /\ \A m \in 0 .. n - 1 :
              /\ <<m + 1, n + 1>> \in PairsUpTo(n, m + 1)
              /\ PairsUpTo(n, m + 1) \ {<<m + 1, n + 1>>} = PairsUpTo(n, m)
<1>1. PairsOf(0) = {} /\ PairsUpTo(n, 0) = PairsOf(n)
  BY DEF PairsOf, PairsUpTo
<1>2. PairsUpTo(n, n) = PairsOf(n + 1)
  <2>1. ASSUME NEW p \in PairsUpTo(n, n) PROVE p \in PairsOf(n + 1)
    BY <2>1 DEF PairsOf, PairsUpTo
  <2>2. ASSUME NEW p \in PairsOf(n + 1) PROVE p \in PairsUpTo(n, n)
    <3>1. p = <<p[1], p[2]>> /\ p[1] \in 1 .. n + 1 /\ p[2] \in 1 .. n + 1 /\ p[1] < p[2]
      BY DEF PairsOf
    <3>2. p[1] \in 1 .. n
      BY <3>1
    <3>3. CASE p[2] = n + 1
      BY <3>1, <3>2, <3>3 DEF PairsUpTo
    <3>4. CASE p[2] # n + 1
      BY <3>1, <3>2, <3>4 DEF PairsUpTo, PairsOf
    <3> QED
      BY <3>3, <3>4
  <2> QED
    BY <2>1, <2>2
<1>3. ASSUME NEW m \in 0 .. n - 1
      PROVE  /\ <<m + 1, n + 1>> \in PairsUpTo(n, m + 1)
             /\ PairsUpTo(n, m + 1) \ {<<m + 1, n + 1>>} = PairsUpTo(n, m)
  <2>1. <<m + 1, n + 1>> \in PairsUpTo(n, m + 1)
    BY DEF PairsUpTo
  <2>2. ASSUME NEW p \in PairsUpTo(n, m) PROVE p \in PairsUpTo(n, m + 1) /\ p # <<m + 1, n + 1>>
    BY DEF PairsUpTo, PairsOf
  <2>3. ASSUME NEW p \in PairsUpTo(n, m + 1), p # <<m + 1, n + 1>> PROVE p \in PairsUpTo(n, m)
    <3>1. CASE p \in PairsOf(n)
      BY <3>1 DEF PairsUpTo
    <3>2. CASE p \notin PairsOf(n)
      <4>1. PICK i \in 1 .. m + 1 : p = <<i, n + 1>>
        BY <3>2 DEF PairsUpTo
      <4>2. i \in 1 .. m
        BY <2>3, <4>1
      <4> QED
        BY <4>1, <4>2 DEF PairsUpTo
    <3> QED
      BY <3>1, <3>2
  <2> QED
    BY <2>1, <2>2, <2>3
<1> QED
  BY <1>1, <1>2, <1>3

\* Pairs of the first samples are pairs of the window.
LEMMA PairsWithin ==
  ASSUME NEW N \in Nat, NEW n \in 0 .. N - 1, NEW m \in 0 .. n
  PROVE  PairsUpTo(n, m) \in SUBSET PairsOf(N)
<1> SUFFICES ASSUME NEW p \in PairsUpTo(n, m) PROVE p \in PairsOf(N)
  OBVIOUS
<1>1. CASE p \in PairsOf(n)
  BY <1>1 DEF PairsOf
<1>2. CASE p \notin PairsOf(n)
  <2>1. PICK i \in 1 .. m : p = <<i, n + 1>>
    BY <1>2 DEF PairsUpTo
  <2> QED
    BY <2>1 DEF PairsOf
<1> QED
  BY <1>1, <1>2

\* Products over sums.
LEMMA Spread ==
  \A i, j, k \in Int : /\ (i + j) * k = i * k + j * k /\ i * k \in Int
                       /\ (i + j) * (i + j) = i * i + 2 * (i * j) + j * j
OBVIOUS

\* The square of a sample is a number.
LEMMA SquareIsNumber == ASSUME NEW s \in Axes PROVE SquareOf(s) \in Int
<1>1. s[1] \in Int /\ s[2] \in Int /\ s[3] \in Int
  BY DEF Axes
<1>2. s[1] * s[1] \in Int /\ s[2] * s[2] \in Int /\ s[3] * s[3] \in Int
  BY <1>1
<1> QED
  BY <1>2 DEF SquareOf

\* So is the sum over all pairs, as the sums give it.
LEMMA ClosedIsNumber ==
  ASSUME NEW n \in Nat, NEW Q \in Int, NEW X \in Int, NEW Y \in Int, NEW Z \in Int
  PROVE  n * Q - (X * X + Y * Y + Z * Z) \in Int
OBVIOUS

\* The sum over all pairs, without the pairs.
LEMMA SumOfPairs ==
  ASSUME NEW N \in Nat, NEW t \in [1 .. N -> Axes], NEW X, NEW Y, NEW Z, NEW Q,
         Running(t, N, X, Y, Z, Q),
         NEW it, InAnyOrder(it, PairsOf(N), Int, 0, AddsApart(t, PairsOf(N)))
  PROVE  it[PairsOf(N)] = N * Q[N] - (X[N] * X[N] + Y[N] * Y[N] + Z[N] * Z[N])
<1> DEFINE Closed(n) == n * Q[n] - (X[n] * X[n] + Y[n] * Y[n] + Z[n] * Z[n])
           Inner(n, m) ==
             Closed(n) + m * SquareOf(t[n + 1]) + Q[m]
               - 2 * (X[m] * t[n + 1][1] + Y[m] * t[n + 1][2] + Z[m] * t[n + 1][3])
           T == {n \in Nat : n <= N => it[PairsOf(n)] = Closed(n)}
<1>1. \A n \in 0 .. N : X[n] \in Int /\ Y[n] \in Int /\ Z[n] \in Int /\ Q[n] \in Int
  BY DEF Running
<1>2. \A n \in 1 .. N : /\ t[n] \in Axes /\ SquareOf(t[n]) \in Int
                        /\ t[n][1] \in Int /\ t[n][2] \in Int /\ t[n][3] \in Int
                        /\ SquareOf(t[n]) = t[n][1] * t[n][1] + t[n][2] * t[n][2] + t[n][3] * t[n][3]
  <2> SUFFICES ASSUME NEW n \in 1 .. N
               PROVE  /\ t[n] \in Axes /\ SquareOf(t[n]) \in Int
                        /\ t[n][1] \in Int /\ t[n][2] \in Int /\ t[n][3] \in Int
                        /\ SquareOf(t[n]) = t[n][1] * t[n][1] + t[n][2] * t[n][2] + t[n][3] * t[n][3]
    OBVIOUS
  <2>1. t[n] \in Axes
    OBVIOUS
  <2>2. t[n][1] \in Int /\ t[n][2] \in Int /\ t[n][3] \in Int
    BY <2>1 DEF Axes
  <2>3. SquareOf(t[n]) = t[n][1] * t[n][1] + t[n][2] * t[n][2] + t[n][3] * t[n][3]
    BY DEF SquareOf
  <2>4. SquareOf(t[n]) \in Int
    BY <2>1, SquareIsNumber
  <2> QED
    BY <2>1, <2>2, <2>3, <2>4
<1>3. 0 \in T
  <2>1. it[PairsOf(0)] = 0
    BY PairsGrow DEF InAnyOrder
  <2>2. Closed(0) = 0
    BY DEF Running
  <2> QED
    BY <2>1, <2>2
<1>4. ASSUME NEW n \in Nat, n \in T PROVE n + 1 \in T
  <2> SUFFICES ASSUME n + 1 <= N PROVE it[PairsOf(n + 1)] = Closed(n + 1)
    OBVIOUS
  <2> DEFINE U == {m \in Nat : m <= n => it[PairsUpTo(n, m)] = Inner(n, m)}
  <2>1. n \in 0 .. N /\ n + 1 \in 1 .. N /\ n + 1 \in 0 .. N /\ n \in 0 .. N - 1
    OBVIOUS
  <2>2. Closed(n) \in Int
    <3>1. X[n] \in Int /\ Y[n] \in Int /\ Z[n] \in Int /\ Q[n] \in Int
      BY <1>1, <2>1
    <3> QED
      BY <3>1, ClosedIsNumber
  <2>3. 0 \in U
    <3>1. it[PairsUpTo(n, 0)] = Closed(n)
      <4>1. PairsUpTo(n, 0) = PairsOf(n)
        BY PairsGrow
      <4> QED
        BY <1>4, <2>1, <4>1
    <3>2. X[0] = 0 /\ Y[0] = 0 /\ Z[0] = 0 /\ Q[0] = 0
      BY DEF Running
    <3> HIDE DEF Closed
    <3>3. Inner(n, 0) = Closed(n)
      <4> DEFINE v == t[n + 1]
      <4>1. v[1] \in Int /\ v[2] \in Int /\ v[3] \in Int /\ SquareOf(v) \in Int
        BY <1>2, <2>1
      <4>2. Inner(n, 0) = Closed(n) + 0 * SquareOf(v) + 0 - 2 * (0 * v[1] + 0 * v[2] + 0 * v[3])
        BY <3>2
      <4> HIDE DEF v, Inner
      <4>3. \A i \in Int : 0 * i = 0
        OBVIOUS
      <4> QED
        BY <2>2, <4>1, <4>2, <4>3
    <3> QED
      BY <3>1, <3>3
  <2>4. ASSUME NEW m \in Nat, m \in U PROVE m + 1 \in U
    <3> SUFFICES ASSUME m + 1 <= n PROVE it[PairsUpTo(n, m + 1)] = Inner(n, m + 1)
      OBVIOUS
    <3> DEFINE p == <<m + 1, n + 1>>
               s == t[m + 1]
               v == t[n + 1]
    <3>1. m \in 0 .. n - 1 /\ m + 1 \in 0 .. n /\ m + 1 \in 1 .. N /\ m \in 0 .. N
          /\ m + 1 \in 0 .. N
      BY <2>1
    <3>2. /\ p \in PairsUpTo(n, m + 1) /\ PairsUpTo(n, m + 1) \ {p} = PairsUpTo(n, m)
          /\ PairsUpTo(n, m + 1) \in SUBSET PairsOf(N)
      BY <2>1, <3>1, PairsGrow, PairsWithin
    <3>3. it[PairsUpTo(n, m)] = Inner(n, m)
      BY <2>4, <3>1
    <3>4. it[PairsUpTo(n, m + 1)] = AddsApart(t, PairsOf(N))[p][it[PairsUpTo(n, m)]]
      <4> HIDE DEF p
      <4> QED
        BY <3>2 DEF InAnyOrder
    <3>5. it[PairsUpTo(n, m)] \in Int
      <4>1. PairsUpTo(n, m) \in SUBSET PairsOf(N)
        BY <3>2
      <4> QED
        BY <4>1 DEF InAnyOrder
    <3>6. it[PairsUpTo(n, m + 1)] = Apart(s, v) + it[PairsUpTo(n, m)]
      <4>1. p \in PairsOf(N) /\ p[1] = m + 1 /\ p[2] = n + 1
        BY <3>2
      <4> HIDE DEF p
      <4> QED
        BY <3>4, <3>5, <4>1 DEF AddsApart
    <3>7. s \in Axes /\ v \in Axes
      BY <1>2, <2>1, <3>1
    <3>8. Apart(s, v) = SquareOf(s) + SquareOf(v) - 2 * (s[1] * v[1] + s[2] * v[2] + s[3] * v[3])
      BY <3>7, ApartSquares
    <3>9. /\ X[m + 1] = X[m] + s[1] /\ Y[m + 1] = Y[m] + s[2]
          /\ Z[m + 1] = Z[m] + s[3] /\ Q[m + 1] = Q[m] + SquareOf(s)
      <4>1. (m + 1) - 1 = m
        OBVIOUS
      <4> QED
        BY <3>1, <4>1 DEF Running
    <3>10. /\ X[m] \in Int /\ Y[m] \in Int /\ Z[m] \in Int /\ Q[m] \in Int
           /\ SquareOf(s) \in Int /\ s[1] \in Int /\ s[2] \in Int /\ s[3] \in Int
           /\ SquareOf(v) \in Int /\ v[1] \in Int /\ v[2] \in Int /\ v[3] \in Int
      BY <1>1, <1>2, <2>1, <3>1
    <3> HIDE DEF s, v, Closed, p
    <3>12. Inner(n, m) = Closed(n) + m * SquareOf(v) + Q[m]
                           - 2 * (X[m] * v[1] + Y[m] * v[2] + Z[m] * v[3])
      BY DEF v
    <3>13. Inner(n, m + 1) = Closed(n) + (m + 1) * SquareOf(v) + Q[m + 1]
                           - 2 * (X[m + 1] * v[1] + Y[m + 1] * v[2] + Z[m + 1] * v[3])
      BY DEF v
    <3>14. PICK x \in Int, y \in Int, z \in Int, q \in Int, a \in Int, b \in Int, c \in Int,
                r \in Int :
             /\ x = v[1] /\ y = v[2] /\ z = v[3] /\ q = SquareOf(v)
             /\ a = s[1] /\ b = s[2] /\ c = s[3] /\ r = SquareOf(s)
      BY <3>10
    <3>15. PICK xm \in Int, ym \in Int, zm \in Int, qm \in Int, d \in Int :
             xm = X[m] /\ ym = Y[m] /\ zm = Z[m] /\ qm = Q[m] /\ d = Closed(n)
      BY <2>2, <3>10
    <3> HIDE DEF Inner
    <3>16. Inner(n, m) = d + m * q + qm - 2 * (xm * x + ym * y + zm * z)
      BY <3>12, <3>14, <3>15
    <3>17. Inner(n, m + 1) = d + (m + 1) * q + (qm + r)
                               - 2 * ((xm + a) * x + (ym + b) * y + (zm + c) * z)
      BY <3>9, <3>13, <3>14, <3>15
    <3>18. Apart(s, v) = r + q - 2 * (a * x + b * y + c * z)
      BY <3>8, <3>14
    <3>19. it[PairsUpTo(n, m + 1)]
             = (r + q - 2 * (a * x + b * y + c * z))
                 + (d + m * q + qm - 2 * (xm * x + ym * y + zm * z))
      BY <3>3, <3>6, <3>16, <3>18
    <3>20. (r + q - 2 * (a * x + b * y + c * z))
             + (d + m * q + qm - 2 * (xm * x + ym * y + zm * z))
           = d + (m + 1) * q + (qm + r) - 2 * ((xm + a) * x + (ym + b) * y + (zm + c) * z)
      BY SMT
    <3> QED
      BY <3>17, <3>19, <3>20
  <2>5. n \in U
    <3>1. \A m \in Nat : m \in U
      <4> HIDE DEF U
      <4> QED
        BY <2>3, <2>4, Climb
    <3> QED
      BY <3>1
  <2>6. it[PairsOf(n + 1)] = Inner(n, n)
    <3>1. PairsUpTo(n, n) = PairsOf(n + 1)
      BY PairsGrow
    <3> QED
      BY <2>5, <3>1
  <2> DEFINE v == t[n + 1]
  <2>7. /\ X[n + 1] = X[n] + v[1] /\ Y[n + 1] = Y[n] + v[2]
        /\ Z[n + 1] = Z[n] + v[3] /\ Q[n + 1] = Q[n] + SquareOf(v)
    <3>1. (n + 1) - 1 = n
      OBVIOUS
    <3> QED
      BY <2>1, <3>1 DEF Running
  <2>8. /\ X[n] \in Int /\ Y[n] \in Int /\ Z[n] \in Int /\ Q[n] \in Int
        /\ SquareOf(v) \in Int /\ v[1] \in Int /\ v[2] \in Int /\ v[3] \in Int
        /\ SquareOf(v) = v[1] * v[1] + v[2] * v[2] + v[3] * v[3]
    BY <1>1, <1>2, <2>1
  <2>9. Inner(n, n) = (n * Q[n] - (X[n] * X[n] + Y[n] * Y[n] + Z[n] * Z[n]))
          + n * SquareOf(v) + Q[n] - 2 * (X[n] * v[1] + Y[n] * v[2] + Z[n] * v[3])
    OBVIOUS
  <2>10. Closed(n + 1) = (n + 1) * Q[n + 1]
           - (X[n + 1] * X[n + 1] + Y[n + 1] * Y[n + 1] + Z[n + 1] * Z[n + 1])
    OBVIOUS
  <2> HIDE DEF v, Inner, Closed
  <2>11. PICK x \in Int, y \in Int, z \in Int, q \in Int :
           x = v[1] /\ y = v[2] /\ z = v[3] /\ q = SquareOf(v)
    BY <2>8
  <2>12. PICK a \in Int, b \in Int, c \in Int, r \in Int :
           a = X[n] /\ b = Y[n] /\ c = Z[n] /\ r = Q[n]
    BY <2>8
  <2>13. Inner(n, n) = (n * r - (a * a + b * b + c * c)) + n * q + r - 2 * (a * x + b * y + c * z)
    BY <2>9, <2>11, <2>12
  <2>14. Closed(n + 1) = (n + 1) * (r + q)
           - ((a + x) * (a + x) + (b + y) * (b + y) + (c + z) * (c + z))
    BY <2>7, <2>10, <2>11, <2>12
  <2>15. q = x * x + y * y + z * z
    BY <2>8, <2>11
  <2>16. Closed(n + 1) = Inner(n, n)
    BY <2>13, <2>14, <2>15, SMT
  <2> QED
    BY <2>6, <2>16
<1>5. \A n \in Nat : n \in T
  <2> HIDE DEF T
  <2> QED
    BY <1>3, <1>4, Climb
<1> QED
  BY <1>5

\* The sums are those of the samples taken; the number the root is taken of is
\* their true variance; the answer is the root's.
WindowInv ==
  /\ taken \in Seq(Samples)
  /\ loop = "none" =>
       /\ Len(taken) = samples
       /\ \E X, Y, Z, Q :
            /\ Running(taken, samples, X, Y, Z, Q)
            /\ X[samples] = sum_x /\ Y[samples] = sum_y /\ Z[samples] = sum_z
            /\ Q[samples] = sum_of_squares
  /\ loop # "none" => value = TrueVariance
  /\ loop = "done" =>
       /\ out_milli_g = MilliG(root)
       /\ samples = 0 /\ sum_x = 0 /\ sum_y = 0 /\ sum_z = 0 /\ sum_of_squares = 0

\* The variance of any samples.
VarianceOf(t) ==
  MapThenSumSet(LAMBDA pair : Apart(t[pair[1]], t[pair[2]]), PairsOf(WindowSamples))

\* The true variance is that of the samples taken.
LEMMA VarianceStays == taken' = taken => TrueVariance' = TrueVariance
<1>1. TrueVariance = VarianceOf(taken)
  BY DEF TrueVariance, VarianceOf, PairsOf
<1>2. TrueVariance' = VarianceOf(taken')
  BY DEF TrueVariance, VarianceOf, PairsOf, MapThenSumSet, MapThenFoldSet
<1> QED
  BY <1>1, <1>2

\* A sample has three axes.
LEMMA SamplesAreAxes == Samples \subseteq Axes
BY VibrationAssumption DEF Axes

\* What vibration.c:78-84 computes of a whole window is the true variance.
LEMMA VarianceOfWindow ==
  ASSUME SumsInv, WindowInv, loop = "none", samples = WindowSamples
  PROVE  ScaledVariance = TrueVariance
<1> DEFINE W == WindowSamples
<1>1. W \in Nat /\ taken \in [1 .. W -> Axes]
  <2>1. Len(taken) = W /\ taken \in Seq(Samples)
    BY DEF WindowInv
  <2>2. taken \in [1 .. W -> Samples]
    BY <2>1
  <2> QED
    BY <2>2, SamplesAreAxes, VibrationAssumption
<1>2. PICK X, Y, Z, Q :
        /\ Running(taken, samples, X, Y, Z, Q)
        /\ X[samples] = sum_x /\ Y[samples] = sum_y /\ Z[samples] = sum_z
        /\ Q[samples] = sum_of_squares
  BY DEF WindowInv
<1>3. PICK it : /\ InAnyOrder(it, PairsOf(W), Int, 0, AddsApart(taken, PairsOf(W)))
                /\ TrueVariance = it[PairsOf(W)]
  BY <1>1, VarianceFolds
<1>4. Running(taken, W, X, Y, Z, Q)
  BY <1>2
<1>5. it[PairsOf(W)] = W * Q[W] - (X[W] * X[W] + Y[W] * Y[W] + Z[W] * Z[W])
  BY <1>1, <1>3, <1>4, SumOfPairs
<1>6. it[PairsOf(W)] = W * sum_of_squares - SquaresOfSums
  BY <1>2, <1>5 DEF SquaresOfSums
<1>7. ScaledVariance = W * sum_of_squares - SquaresOfSums
  BY WholeWindow
<1> QED
  BY <1>3, <1>6, <1>7

\* The running sums go on with a sample more.
LEMMA RunningGrows ==
  ASSUME NEW n \in Nat, NEW t, NEW u, NEW X, NEW Y, NEW Z, NEW Q, Running(t, n, X, Y, Z, Q),
         NEW s \in Axes, \A i \in 1 .. n : u[i] = t[i], u[n + 1] = s
  PROVE  \E A, B, C, D :
           /\ Running(u, n + 1, A, B, C, D)
           /\ A[n + 1] = X[n] + s[1] /\ B[n + 1] = Y[n] + s[2] /\ C[n + 1] = Z[n] + s[3]
           /\ D[n + 1] = Q[n] + SquareOf(s)
<1> DEFINE More(f, v) == [i \in 0 .. n + 1 |-> IF i = n + 1 THEN f[n] + v ELSE f[i]]
<1>1. s[1] \in Int /\ s[2] \in Int /\ s[3] \in Int /\ SquareOf(s) \in Int
  BY SquareIsNumber DEF Axes
<1>2. ASSUME NEW f \in [0 .. n -> Int], NEW v \in Int
      PROVE  /\ More(f, v) \in [0 .. n + 1 -> Int] /\ More(f, v)[0] = f[0]
             /\ More(f, v)[n + 1] = f[n] + v
             /\ \A i \in 0 .. n : More(f, v)[i] = f[i]
  OBVIOUS
<1>3. \A i \in 1 .. n + 1 : i = n + 1 \/ (i \in 1 .. n /\ i - 1 \in 0 .. n /\ i \in 0 .. n)
  OBVIOUS
<1>4. (n + 1) - 1 = n /\ n \in 0 .. n
  OBVIOUS
<1>5. /\ X \in [0 .. n -> Int] /\ Y \in [0 .. n -> Int] /\ Z \in [0 .. n -> Int]
      /\ Q \in [0 .. n -> Int] /\ X[0] = 0 /\ Y[0] = 0 /\ Z[0] = 0 /\ Q[0] = 0
  BY DEF Running
<1> DEFINE A == More(X, s[1])
           B == More(Y, s[2])
           C == More(Z, s[3])
           D == More(Q, SquareOf(s))
<1>6. /\ A \in [0 .. n + 1 -> Int] /\ A[0] = 0 /\ A[n + 1] = X[n] + s[1]
      /\ \A i \in 0 .. n : A[i] = X[i]
  BY <1>1, <1>2, <1>5
<1>7. /\ B \in [0 .. n + 1 -> Int] /\ B[0] = 0 /\ B[n + 1] = Y[n] + s[2]
      /\ \A i \in 0 .. n : B[i] = Y[i]
  BY <1>1, <1>2, <1>5
<1>8. /\ C \in [0 .. n + 1 -> Int] /\ C[0] = 0 /\ C[n + 1] = Z[n] + s[3]
      /\ \A i \in 0 .. n : C[i] = Z[i]
  BY <1>1, <1>2, <1>5
<1>9. /\ D \in [0 .. n + 1 -> Int] /\ D[0] = 0 /\ D[n + 1] = Q[n] + SquareOf(s)
      /\ \A i \in 0 .. n : D[i] = Q[i]
  BY <1>1, <1>2, <1>5
<1> HIDE DEF A, B, C, D
<1>10. ASSUME NEW i \in 1 .. n + 1
       PROVE  /\ A[i] = A[i - 1] + u[i][1] /\ B[i] = B[i - 1] + u[i][2]
              /\ C[i] = C[i - 1] + u[i][3] /\ D[i] = D[i - 1] + SquareOf(u[i])
  <2>1. CASE i = n + 1
    BY <1>4, <1>6, <1>7, <1>8, <1>9, <2>1
  <2>2. CASE i \in 1 .. n /\ i - 1 \in 0 .. n /\ i \in 0 .. n
    <3>1. /\ X[i] = X[i - 1] + t[i][1] /\ Y[i] = Y[i - 1] + t[i][2]
          /\ Z[i] = Z[i - 1] + t[i][3] /\ Q[i] = Q[i - 1] + SquareOf(t[i]) /\ u[i] = t[i]
      BY <2>2 DEF Running
    <3> QED
      BY <1>6, <1>7, <1>8, <1>9, <2>2, <3>1
  <2> QED
    BY <1>3, <2>1, <2>2
<1>11. Running(u, n + 1, A, B, C, D)
  BY <1>6, <1>7, <1>8, <1>9, <1>10 DEF Running
<1>12. /\ Running(u, n + 1, A, B, C, D)
       /\ A[n + 1] = X[n] + s[1] /\ B[n + 1] = Y[n] + s[2] /\ C[n + 1] = Z[n] + s[3]
       /\ D[n + 1] = Q[n] + SquareOf(s)
  BY <1>6, <1>7, <1>8, <1>9, <1>11
<1> QED
  BY <1>12, Zenon

\* The running sums of no samples.
LEMMA NothingTaken ==
  ASSUME NEW t
  PROVE  \E X, Y, Z, Q : /\ Running(t, 0, X, Y, Z, Q)
                         /\ X[0] = 0 /\ Y[0] = 0 /\ Z[0] = 0 /\ Q[0] = 0
<1> DEFINE O == [i \in 0 .. 0 |-> 0]
<1>1. Running(t, 0, O, O, O, O)
  BY DEF Running
<1>2. O[0] = 0
  OBVIOUS
<1>3. Running(t, 0, O, O, O, O) /\ O[0] = 0 /\ O[0] = 0 /\ O[0] = 0 /\ O[0] = 0
  BY <1>1, <1>2
<1> HIDE DEF O
<1> QED
  BY <1>3, Zenon

\* The window starts with no samples and no sums.
LEMMA WindowStart == VibrationInit => WindowInv
<1> SUFFICES ASSUME VibrationInit PROVE WindowInv
  OBVIOUS
<1>1. samples = 0 /\ sum_x = 0 /\ sum_y = 0 /\ sum_z = 0 /\ sum_of_squares = 0
      /\ loop = "none" /\ taken = << >>
  BY DEF VibrationInit
<1>2. \E X, Y, Z, Q :
            /\ Running(taken, samples, X, Y, Z, Q)
            /\ X[samples] = sum_x /\ Y[samples] = sum_y /\ Z[samples] = sum_z
            /\ Q[samples] = sum_of_squares
  BY <1>1, NothingTaken
<1> QED
  BY <1>1, <1>2 DEF WindowInv

\* A step keeps the sums those of the samples taken.
LEMMA WindowStep == SumsInv /\ RootInv /\ WindowInv /\ [VibrationNext]_vibration => WindowInv'
<1> SUFFICES ASSUME SumsInv, RootInv, WindowInv, [VibrationNext]_vibration PROVE WindowInv'
  OBVIOUS
<1> DEFINE Summed(t, n, x, y, z, q) ==
             \E X, Y, Z, Q : /\ Running(t, n, X, Y, Z, Q)
                             /\ X[n] = x /\ Y[n] = y /\ Z[n] = z /\ Q[n] = q
<1>1. CASE Push
  <2>1. PICK s \in Samples : Add(s[1], s[2], s[3]) /\ taken' = Append(taken, s)
    BY <1>1 DEF Push
  <2>2. /\ samples' = samples + 1 /\ samples \in Nat /\ loop = "none" /\ loop' = "none"
        /\ sum_x' = sum_x + s[1] /\ sum_y' = sum_y + s[2] /\ sum_z' = sum_z + s[3]
        /\ sum_of_squares' = sum_of_squares + SquareOf(s)
    <3>1. samples \in Nat
      BY VibrationAssumption DEF SumsInv
    <3>2. sum_of_squares' = sum_of_squares + SquareOf(s)
      BY <2>1 DEF Add, SquareOf
    <3> QED
      BY <1>1, <2>1, <3>1, <3>2 DEF Push, Add
  <2>3. /\ taken' \in Seq(Samples) /\ Len(taken') = samples + 1
        /\ taken'[samples + 1] = s /\ \A i \in 1 .. samples : taken'[i] = taken[i]
    BY <2>1, <2>2 DEF WindowInv
  <2>4. PICK X, Y, Z, Q :
            /\ Running(taken, samples, X, Y, Z, Q)
            /\ X[samples] = sum_x /\ Y[samples] = sum_y /\ Z[samples] = sum_z
            /\ Q[samples] = sum_of_squares
    BY <2>2 DEF WindowInv
  <2>5. s \in Axes
    BY SamplesAreAxes
  <2>6. PICK A, B, C, D :
           /\ Running(taken', samples + 1, A, B, C, D)
           /\ A[samples + 1] = X[samples] + s[1] /\ B[samples + 1] = Y[samples] + s[2]
           /\ C[samples + 1] = Z[samples] + s[3]
           /\ D[samples + 1] = Q[samples] + SquareOf(s)
    BY <2>2, <2>3, <2>4, <2>5, RunningGrows
  <2>7. /\ Running(taken', samples', A, B, C, D)
        /\ A[samples'] = sum_x' /\ B[samples'] = sum_y' /\ C[samples'] = sum_z'
        /\ D[samples'] = sum_of_squares'
    BY <2>2, <2>4, <2>6
  <2>8. Summed(taken', samples', sum_x', sum_y', sum_z', sum_of_squares')
    BY <2>7, Zenon
  <2> QED
    BY <2>2, <2>3, <2>8 DEF WindowInv
<1>2. CASE BeginRoot
  <2>1. /\ value' = ScaledVariance /\ loop' = "align" /\ taken' = taken
        /\ loop = "none" /\ samples = WindowSamples
    BY <1>2 DEF BeginRoot
  <2>2. ScaledVariance = TrueVariance
    BY <2>1, VarianceOfWindow
  <2>3. TrueVariance' = TrueVariance
    BY <2>1, VarianceStays
  <2> QED
    BY <2>1, <2>2, <2>3 DEF WindowInv
<1>3. CASE Align \/ Digit
  <2>1. /\ loop # "none" /\ loop' \in {"align", "digit"} /\ value' = value /\ taken' = taken
    BY <1>3 DEF Align, Digit
  <2>2. TrueVariance' = TrueVariance
    BY <2>1, VarianceStays
  <2> QED
    BY <2>1, <2>2 DEF WindowInv
<1>4. CASE Result
  <2>1. /\ loop # "none" /\ loop' = "done" /\ value' = value /\ taken' = taken
        /\ out_milli_g' = MilliG(root) /\ root' = root
        /\ samples' = 0 /\ sum_x' = 0 /\ sum_y' = 0 /\ sum_z' = 0 /\ sum_of_squares' = 0
    BY <1>4 DEF Result, search, EmptyWindow
  <2>2. TrueVariance' = TrueVariance
    BY <2>1, VarianceStays
  <2> QED
    BY <2>1, <2>2 DEF WindowInv, MilliG
<1>5. CASE NextWindow
  <2>1. /\ loop' = "none" /\ taken' = << >> /\ samples' = 0 /\ sum_x' = 0
        /\ sum_y' = 0 /\ sum_z' = 0 /\ sum_of_squares' = 0
    BY <1>5 DEF NextWindow, window, WindowInv
  <2>2. Summed(taken', 0, 0, 0, 0, 0)
    BY NothingTaken
  <2>3. Summed(taken', samples', sum_x', sum_y', sum_z', sum_of_squares')
    <3> HIDE DEF Summed
    <3> QED
      BY <2>1, <2>2
  <2> QED
    BY <2>1, <2>3 DEF WindowInv
<1>6. CASE UNCHANGED vibration
  <2>1. UNCHANGED <<samples, sum_x, sum_y, sum_z, sum_of_squares, loop, value, root,
                    out_milli_g, taken>>
    BY <1>6 DEF vibration, window, search
  <2>2. TrueVariance' = TrueVariance
    BY <2>1, VarianceStays
  <2> QED
    BY <2>1, <2>2 DEF WindowInv, MilliG
<1> QED
  BY <1>1, <1>2, <1>3, <1>4, <1>5, <1>6 DEF VibrationNext

\* What a division and the step from a root to a reading lose.
LEMMA LostInReading ==
  ASSUME NEW W \in Nat \ {0}, NEW mg \in Nat, NEW r \in Nat, NEW V \in Nat,
         r * r <= V, V < (r + 1) * (r + 1), NEW out, out = (r * mg) \div W
  PROVE  /\ (W * out) * (W * out) <= (mg * mg) * V
         /\ (mg * mg) * V < (W * (out + 1) + mg) * (W * (out + 1) + mg)
<1>1. r * mg \in Nat
  OBVIOUS
<1>2. out \in Nat /\ W * out <= r * mg /\ r * mg < W * (out + 1)
  <2>1. \A a \in Nat : a \div W \in Nat /\ W * (a \div W) <= a /\ a < W * (a \div W + 1)
    OBVIOUS
  <2> QED
    BY <1>1, <2>1
<1>3. \A a, b \in Nat : a <= b => a * a <= b * b
  <2>1. \A a, b, c \in Nat : a <= b => c * a <= c * b
    OBVIOUS
  <2> SUFFICES ASSUME NEW a \in Nat, NEW b \in Nat, a <= b PROVE a * a <= b * b
    OBVIOUS
  <2>2. a * a <= a * b
    BY <2>1
  <2>3. a * b <= b * b
    BY <2>1
  <2> QED
    BY <2>2, <2>3
<1>4. (W * out) * (W * out) <= (mg * mg) * V
  <2>1. W * out \in Nat
    BY <1>2
  <2>2. (W * out) * (W * out) <= (r * mg) * (r * mg)
    BY <1>1, <1>2, <1>3, <2>1
  <2>3. (r * mg) * (r * mg) = (mg * mg) * (r * r)
    OBVIOUS
  <2>4. (mg * mg) * (r * r) <= (mg * mg) * V
    <3>1. \A a, b, c \in Nat : a <= b => c * a <= c * b
      OBVIOUS
    <3>2. mg * mg \in Nat /\ r * r \in Nat
      OBVIOUS
    <3> QED
      BY <3>1, <3>2
  <2>5. /\ (W * out) * (W * out) \in Int /\ (r * mg) * (r * mg) \in Int
        /\ (mg * mg) * V \in Int
    BY <1>2
  <2> QED
    BY <2>2, <2>3, <2>4, <2>5
<1>5. (mg * mg) * V < (W * (out + 1) + mg) * (W * (out + 1) + mg)
  <2> DEFINE B == W * (out + 1)
  <2>1. B \in Nat \ {0}
    BY <1>1, <1>2
  <2>2. CASE mg = 0
    <3>1. (mg * mg) * V = 0
      BY <2>2
    <3>2. \A a \in Nat \ {0} : (a + 0) * (a + 0) > 0
      OBVIOUS
    <3> HIDE DEF B
    <3>3. (B + mg) * (B + mg) > 0
      BY <2>1, <2>2, <3>2
    <3> QED
      BY <3>1, <3>3 DEF B
  <2>3. CASE mg # 0
    <3> DEFINE A == r * mg + mg
    <3>1. A \in Nat /\ B + mg \in Nat /\ A <= B + mg
      BY <1>1, <1>2, <2>1
    <3>2. A * A <= (B + mg) * (B + mg)
      <4> HIDE DEF A, B
      <4> QED
        BY <1>3, <3>1
    <3>3. A * A = (mg * mg) * ((r + 1) * (r + 1))
      OBVIOUS
    <3>4. (mg * mg) * V < (mg * mg) * ((r + 1) * (r + 1))
      <4>1. \A a, b \in Nat, c \in Nat \ {0} : a < b => c * a < c * b
        OBVIOUS
      <4>2. mg * mg \in Nat \ {0} /\ (r + 1) * (r + 1) \in Nat
        BY <2>3
      <4> QED
        BY <4>1, <4>2
    <3>5. (mg * mg) * V \in Int /\ A * A \in Int /\ (B + mg) * (B + mg) \in Int
      <4>1. \A a \in Nat : a * a \in Int
        OBVIOUS
      <4>2. A * A \in Int /\ (B + mg) * (B + mg) \in Int
        <5> HIDE DEF A, B
        <5> QED
          BY <3>1, <4>1
      <4> QED
        BY <4>2
    <3> HIDE DEF A, B
    <3>6. (mg * mg) * V < (B + mg) * (B + mg)
      BY <3>2, <3>3, <3>4, <3>5
    <3> QED
      BY <3>6 DEF B
  <2> QED
    BY <2>2, <2>3
<1> QED
  BY <1>4, <1>5

\* What vibration_publish() tells is the true deviation of its window in the
\* unit of the line, rounded down, less at most what the root drops.
THEOREM ReadingIsExact == VibrationSpec => []ReadingIsTrue
<1>1. SumsInv /\ RootInv /\ WindowInv => ReadingIsTrue
  <2> SUFFICES ASSUME SumsInv, RootInv, WindowInv, loop = "done" PROVE ReadingIsTrue
    BY DEF ReadingIsTrue
  <2> DEFINE W == WindowSamples
             mg == MilliGPerCount
  <2>1. W \in Nat \ {0} /\ mg \in Nat /\ Word \in Nat
    <3>1. \A a \in Nat : 4 * a * a \in Nat
      OBVIOUS
    <3> QED
      BY <3>1, VibrationAssumption
  <2>2. root \in Nat /\ value \in Nat /\ root * root <= value /\ value < (root + 1) * (root + 1)
    BY <2>1 DEF RootInv, RootIsFloor
  <2>3. out_milli_g = (root * mg) \div W /\ value = TrueVariance
    BY DEF WindowInv, MilliG
  <2>4. /\ (W * out_milli_g) * (W * out_milli_g) <= (mg * mg) * value
        /\ (mg * mg) * value < (W * (out_milli_g + 1) + mg) * (W * (out_milli_g + 1) + mg)
    BY <2>1, <2>2, <2>3, LostInReading
  <2>5. /\ (W * out_milli_g) * (W * out_milli_g) <= (mg * mg) * TrueVariance
        /\ (mg * mg) * TrueVariance < (W * (out_milli_g + 1) + mg) * (W * (out_milli_g + 1) + mg)
    BY <2>3, <2>4
  <2> QED
    BY <2>5, Zenon DEF ReadingIsTrue
<1>2. VibrationInit => RootInv
  BY VibrationAssumption DEF VibrationInit, RootInv, RootIsFloor
<1> QED
  BY <1>1, <1>2, SumsStart, SumsStep, RootStep, WindowStart, WindowStep, PTL DEF VibrationSpec

-----------------------------------------------------------------------------
\* Three counts of sixteen bits.
CountMax == 65535

Cal == {c \in [ts_cal1 : Nat, ts_cal2 : Nat, vrefint_cal : Nat] :
          c.ts_cal1 <= CountMax /\ c.ts_cal2 <= CountMax /\ c.vrefint_cal <= CountMax}

Fits32(n) == -2147483648 <= n /\ n <= 2147483647
FitsU32(n) == 0 <= n /\ n <= 4294967295

\* A quotient is no larger than what is divided.
LEMMA QuotientBound ==
  ASSUME NEW a \in Int, NEW b \in Int, b # 0
  PROVE  /\ Quotient(a, b) \in Int
         /\ Magnitude(Quotient(a, b)) <= Magnitude(a)
<1> DEFINE m == Magnitude(a)
           n == Magnitude(b)
           q == m \div n
<1>1. m \in Nat /\ n \in Nat \ {0}
  BY DEF Magnitude
<1>2. q \in Nat /\ n * q <= m
  BY <1>1
<1>3. q <= m
  <2>1. \A i \in Nat \ {0}, j \in Nat : j <= i * j
    OBVIOUS
  <2> QED
    BY <1>1, <1>2, <2>1
<1>4. Quotient(a, b) = q \/ Quotient(a, b) = -q
  BY DEF Quotient
<1> HIDE DEF m, n, q
<1> QED
  BY <1>2, <1>3, <1>4 DEF Magnitude, m

\* The product of the correction to the reference's voltage fits 32 bits.
LEMMA CorrectedFits ==
  ASSUME NEW ts \in Nat, ts <= ADC_FULL_SCALE, NEW v \in Nat, v <= CountMax,
         NEW vref \in Nat \ {0}
  PROVE  /\ FitsU32(ts * v)
         /\ (ts * v) \div vref \in Nat
<1>1. ts <= 4095 /\ v <= 65535
  BY SMT DEF ADC_FULL_SCALE, CountMax
<1>2. \A i, j, k \in Nat : i <= j => i * k \in Nat /\ i * k <= j * k
  BY SMT
<1>3. ts * v \in Nat /\ ts * v <= 4095 * v
  BY <1>1, <1>2, SMT
<1>4. ts * v <= 4095 * 65535
  BY <1>1, <1>3, SMT
<1> QED
  BY <1>3, <1>4, SMT DEF FitsU32

\* "The multiply below cannot overflow" (temperature.c:83-85), nor can anything
\* else: where the readings are accepted, the product fits in a uint32_t, and the
\* scaled offset and the answer fit in an int32_t.
THEOREM ArithmeticFits ==
  ASSUME NEW cal \in Cal, NEW ts \in Nat, NEW vref \in Nat, Accepted(cal, ts, vref)
  PROVE  /\ FitsU32(ts * cal.vrefint_cal)
         /\ Fits32(CAL_SPAN_DECI * Offset(cal, ts, vref))
         /\ Span(cal) # 0
         /\ Fits32(OnLine(cal, ts, vref))
<1> DEFINE corrected == Corrected(cal, ts, vref)
           scaled == CAL_SPAN_DECI * Offset(cal, ts, vref)
           q == Quotient(scaled, Span(cal))
<1>1. /\ cal.vrefint_cal \in Nat /\ cal.vrefint_cal <= CountMax
      /\ cal.ts_cal1 \in Nat /\ cal.ts_cal1 <= CountMax
      /\ cal.ts_cal2 \in Nat /\ cal.ts_cal2 <= CountMax
  BY SMT DEF Cal
<1>2. ts <= ADC_FULL_SCALE /\ vref # 0 /\ corrected <= CORRECTED_MAX /\ cal.ts_cal2 # cal.ts_cal1
  BY SMT DEF Accepted, Usable
<1>3. FitsU32(ts * cal.vrefint_cal) /\ corrected \in Nat
  <2>1. \A t, v \in Nat, r \in Nat \ {0} : t <= ADC_FULL_SCALE /\ v <= CountMax =>
          FitsU32(t * v) /\ (t * v) \div r \in Nat
    BY CorrectedFits, Zenon
  <2>2. vref \in Nat \ {0}
    BY <1>2, SMT
  <2> QED
    BY <1>1, <1>2, <2>1, <2>2, Zenon DEF Corrected
<1>4. Span(cal) \in Int /\ Span(cal) # 0
  BY <1>1, <1>2, SMT DEF Span
<1>5. scaled \in Int /\ -65535000 <= scaled /\ scaled <= 12285000
  BY <1>1, <1>2, <1>3, SMT DEF Offset, CAL_SPAN_DECI, CountMax,
                                CORRECTED_MAX, ADC_FULL_SCALE
<1> HIDE DEF scaled
<1>6. q \in Int /\ Magnitude(q) <= Magnitude(scaled)
  BY <1>4, <1>5, QuotientBound, SMT
<1>7. -65535000 <= q /\ q <= 65535000
  BY <1>5, <1>6, SMT DEF Magnitude
<1>8. OnLine(cal, ts, vref) = CAL_LOW_DECI + q
  BY SMT DEF OnLine, scaled
<1>9. Fits32(OnLine(cal, ts, vref))
  BY <1>6, <1>7, <1>8, SMT DEF CAL_LOW_DECI, Fits32
<1>10. Fits32(scaled)
  BY <1>5, SMT DEF Fits32
<1> QED
  BY <1>3, <1>4, <1>9, <1>10 DEF scaled

\* Sign, whole degrees and tenths are the answer again, -0.4 included.
LEMMA LineOfAnswer ==
  ASSUME NEW d \in Int
  PROVE  ReadBack(Line(d)) = d
<1>1. PICK m \in Nat : m = Magnitude(d)
  BY DEF Magnitude
<1>2. m = 10 * (m \div 10) + (m % 10)
  BY SMT
<1>3. ReadBack(Line(d)) = (IF d < 0 THEN -1 ELSE 1) * (10 * (m \div 10) + (m % 10))
  BY <1>1 DEF ReadBack, Line
<1>4. ReadBack(Line(d)) = (IF d < 0 THEN -1 ELSE 1) * m
  BY <1>2, <1>3
<1> QED
  BY <1>1, <1>4 DEF Magnitude

\* For every calibration and reading, what the line says is what was computed.
THEOREM LinesReadBack == TemperatureSpec => []LineReadsBack
<1>1. PowerOn => LineReadsBack
  BY DEF PowerOn, LineReadsBack, NoLine
<1>2. LineReadsBack /\ [TemperatureNext]_temperature => LineReadsBack'
  <2> SUFFICES ASSUME LineReadsBack, [TemperatureNext]_temperature
               PROVE  LineReadsBack'
    OBVIOUS
  <2>1. CASE Tell
    <3>1. CASE deci' = TEMPERATURE_INVALID
      BY <2>1, <3>1 DEF Tell, LineReadsBack, NoLine
    <3>2. CASE deci' # TEMPERATURE_INVALID
      <4>1. deci' \in Int
        BY <2>1, <3>2 DEF Tell, DeciCelsius
      <4> QED
        BY <2>1, <3>2, <4>1, LineOfAnswer DEF Tell, LineReadsBack
    <3> QED
      BY <3>1, <3>2
  <2>2. CASE Ask
    BY <2>2 DEF Ask, LineReadsBack, NoLine
  <2>3. CASE Command \/ Settle \/ Select \/ Collect \/ Converter \/ UNCHANGED temperature
    BY <2>3 DEF Command, Settle, Select, Collect, Converter, temperature,
                LineReadsBack, ReadBack
  <2> QED
    BY <2>1, <2>2, <2>3 DEF TemperatureNext, Driver
<1> QED
  BY <1>1, <1>2, PTL DEF TemperatureSpec

-----------------------------------------------------------------------------
\* Division toward zero loses less than the divisor.
LEMMA QuotientNear ==
  ASSUME NEW a \in Int, NEW b \in Nat \ {0}
  PROVE  /\ Quotient(a, b) \in Int
         /\ b * Quotient(a, b) - a < b /\ a - b * Quotient(a, b) < b
         /\ \A k \in Nat : a >= b * k => Quotient(a, b) >= k
<1>1. \A m \in Nat : m \div b \in Nat /\ b * (m \div b) <= m /\ m < b * (m \div b) + b
  OBVIOUS
<1>2. Magnitude(b) = b /\ ~(b < 0)
  BY DEF Magnitude
<1>3. CASE a >= 0
  <2> DEFINE q == a \div b
  <2>1. Quotient(a, b) = q
    BY <1>2, <1>3 DEF Quotient, Magnitude
  <2>2. q \in Nat /\ b * q <= a /\ a < b * q + b
    BY <1>1, <1>3
  <2> HIDE DEF q
  <2>3. ASSUME NEW k \in Nat, a >= b * k PROVE q >= k
    <3>1. SUFFICES ASSUME q + 1 <= k PROVE FALSE
      BY <2>2
    <3>2. \A i, j \in Nat : i <= j => b * i <= b * j
      OBVIOUS
    <3>3. b * (q + 1) <= b * k
      BY <2>2, <3>1, <3>2
    <3>4. b * (q + 1) = b * q + b
      BY <2>2
    <3> QED
      BY <2>2, <2>3, <3>3, <3>4
  <2> QED
    BY <2>1, <2>2, <2>3
<1>4. CASE a < 0
  <2> DEFINE q == (-a) \div b
  <2>1. Quotient(a, b) = -q
    BY <1>2, <1>4 DEF Quotient, Magnitude
  <2>2. q \in Nat /\ b * q <= -a /\ -a < b * q + b
    BY <1>1, <1>4
  <2> HIDE DEF q
  <2>3. b * (-q) = -(b * q)
    BY <2>2
  <2>4. \A k \in Nat : b * k >= 0
    OBVIOUS
  <2> QED
    BY <1>4, <2>1, <2>2, <2>3, <2>4
<1> QED
  BY <1>3, <1>4

\* What the two divisions on the way to the die's counts lose, where the converter
\* is not at its end.
LEMMA CorrectedNear ==
  ASSUME NEW e \in Nat, NEW s \in Nat \ {0}, NEW v \in Nat \ {0},
         NEW ts, ts = (e * s) \div v, NEW c, c = (ts * v) \div s
  PROVE  c \in Nat /\ c <= e /\ e - c <= 1 + v \div s
<1>1. \A m \in Nat, b \in Nat \ {0} :
        m \div b \in Nat /\ b * (m \div b) <= m /\ m < b * (m \div b) + b
  OBVIOUS
<1>2. e * s \in Nat
  OBVIOUS
<1>3. ts \in Nat /\ v * ts <= e * s /\ e * s < v * ts + v
  BY <1>1, <1>2
<1>4. c = (v * ts) \div s /\ v * ts \in Nat
  BY <1>3
<1>5. c \in Nat /\ s * c <= v * ts /\ v * ts < s * c + s
  BY <1>1, <1>4
<1>6. s * c <= s * e /\ s * e < s * c + s + v
  BY <1>2, <1>3, <1>5
<1>7. c <= e
  BY <1>5, <1>6
<1> DEFINE d == e - c
           r == v \div s
<1>8. d \in Nat /\ s * d < s + v
  BY <1>5, <1>6, <1>7
<1>9. r \in Nat /\ v < s * r + s
  BY <1>1
<1> HIDE DEF d, r
<1>10. s * d < s * (r + 2)
  BY <1>8, <1>9
<1>11. d < r + 2
  BY <1>8, <1>9, <1>10
<1> QED
  BY <1>5, <1>7, <1>8, <1>9, <1>11 DEF d, r

\* A count is a number.
LEMMA CountsAreNumbers == uint16_t \subseteq Nat
BY DEF uint16_t

\* The answer to a genuine part's two readings.
LEMMA AnswerIsTrue ==
  ASSUME NEW cal \in Genuine, NEW e \in Nat, NEW s \in 1 .. ADC_FULL_SCALE,
         NEW ts, ts = AtMost(ADC_FULL_SCALE, (e * s) \div cal.vrefint_cal),
         OnLine(cal, ts, s) <= DECI_PLAUSIBLE_MAX
  PROVE  LET wrong == Span(cal) * (OnLine(cal, ts, s) - CAL_LOW_DECI)
                        - CAL_SPAN_DECI * (e - cal.ts_cal1)
         IN Magnitude(wrong) <= CAL_SPAN_DECI * (2 + cal.vrefint_cal \div s) + Magnitude(Span(cal))
<1> DEFINE v == cal.vrefint_cal
           t == cal.ts_cal1
           b == Span(cal)
           c == Corrected(cal, ts, s)
           q == Quotient(1000 * (c - t), b)
<1>1. /\ v \in Nat \ {0} /\ t \in Nat /\ b \in Nat \ {0}
      /\ 1000 * (v - t) >= 1201 * b
  <2>1. cal \in [ts_cal1 : uint16_t, ts_cal2 : uint16_t, vrefint_cal : uint16_t]
    BY CalibrationAssumption
  <2>2. cal.ts_cal1 \in Nat /\ cal.ts_cal2 \in Nat /\ cal.vrefint_cal \in Nat
    BY <2>1, CountsAreNumbers
  <2>3. v \in Nat /\ t \in Nat /\ b \in Int
    BY <2>2 DEF Span
  <2>4. v > 0 /\ b > 0 /\ 1000 * (v - t) >= (1500 + 1 - 300) * b
    BY GenuineAssumption DEF CAL_SPAN_DECI, DECI_PLAUSIBLE_MAX, CAL_LOW_DECI
  <2> HIDE DEF v, t, b
  <2> QED
    BY <2>3, <2>4
<1>2. OnLine(cal, ts, s) = 300 + q
  BY DEF OnLine, Offset, CAL_LOW_DECI, CAL_SPAN_DECI
<1>3. c = (ts * v) \div s /\ s \in Nat \ {0} /\ s <= 4095
  BY DEF Corrected, ADC_FULL_SCALE
<1>4. Magnitude(b) = b
  BY <1>1 DEF Magnitude
<1> DEFINE r == v \div s
<1>5. r \in Nat
  BY <1>1, <1>3
<1> HIDE DEF v, t, b, c, q, r
<1>6. (ts = (e * s) \div v /\ (e * s) \div v \in Nat) \/ ts = 4095
  <2>1. e * s \in Nat
    BY <1>3
  <2>2. (e * s) \div v \in Nat
    BY <1>1, <2>1
  <2>3. ts = (IF (e * s) \div v <= 4095 THEN (e * s) \div v ELSE 4095)
    BY DEF AtMost, ADC_FULL_SCALE, v
  <2> QED
    BY <2>2, <2>3
<1>7. CASE ts = (e * s) \div v /\ (e * s) \div v \in Nat
  <2>1. c = (((e * s) \div v) * v) \div s
    BY <1>3, <1>7
  <2>2. c \in Nat /\ c <= e /\ e - c <= 1 + r
    <3>1. ts = (e * s) \div v
      BY <1>7
    <3>2. c = (ts * v) \div s
      BY <1>3
    <3>3. c \in Nat /\ c <= e /\ e - c <= 1 + v \div s
      <4>1. s \in Nat \ {0} /\ v \in Nat \ {0}
        BY <1>1, <1>3
      <4> QED
        BY <3>1, <3>2, <4>1, CorrectedNear, Zenon
    <3> QED
      BY <3>3 DEF r
  <2> DEFINE a == 1000 * (c - t)
  <2>3. a \in Int
    BY <1>1, <2>2
  <2>4. q \in Int /\ b * q - a < b /\ a - b * q < b
    <3>1. q = Quotient(a, b)
      BY DEF q
    <3> HIDE DEF a
    <3> QED
      BY <1>1, <2>3, <3>1, QuotientNear
  <2>5. b * q \in Int
    BY <1>1, <2>4
  <2> DEFINE w == b * q - 1000 * (e - t)
  <2>6. w \in Int /\ w <= 1000 * (2 + r) + b /\ -w <= 1000 * (2 + r) + b
    BY <1>1, <1>5, <2>2, <2>4, <2>5
  <2>7. b * ((300 + q) - 300) = b * q
    BY <2>4
  <2> QED
    BY <1>2, <1>4, <2>6, <2>7 DEF Magnitude, CAL_SPAN_DECI, CAL_LOW_DECI, v, t, b, r
<1>8. CASE ts = 4095
  <2>1. c \in Nat /\ c >= v
    <3>1. 4095 * v >= s * v /\ 4095 * v \in Nat
      BY <1>1, <1>3
    <3>2. \A m \in Nat : m \div s \in Nat /\ m < s * (m \div s) + s
      BY <1>3
    <3>3. c \in Nat /\ 4095 * v < s * c + s
      BY <1>3, <1>8, <3>1, <3>2
    <3>4. s * v < s * (c + 1)
      BY <1>1, <1>3, <3>1, <3>3
    <3>5. v < c + 1
      BY <1>1, <1>3, <3>3, <3>4
    <3> QED
      BY <1>1, <3>3, <3>5
  <2> DEFINE a == 1000 * (c - t)
  <2>2. a \in Int /\ a >= b * 1201
    BY <1>1, <2>1
  <2>3. q = Quotient(a, b)
    BY DEF q
  <2> HIDE DEF a
  <2>4. q \in Int /\ q >= 1201
    BY <1>1, <2>2, <2>3, QuotientNear
  <2> QED
    BY <1>2, <2>4 DEF DECI_PLAUSIBLE_MAX
<1> QED
  BY <1>6, <1>7, <1>8

\* What is still to be told the converter before the first reading.
Remaining == {<<"ADVREGEN", "ADCAL", "ADEN">>, <<"ADCAL", "ADEN">>, <<"ADEN">>, << >>}

Busy == {"select", "await", "tell"}

\* A conversion was asked for only while it is waited for, and its result is that of
\* the channel selected.
ConverterInOrder ==
  IF pc = "await"
  THEN \/ command = "ADSTART" /\ eoc = FALSE
       \/ command = "none" /\ eoc = TRUE /\ dr = Reading(sqr1)
  ELSE command # "ADSTART" /\ eoc = FALSE

CountsAreReadings ==
  /\ pc = "await" => sqr1 = Channels[Len(counts) + 1]
  /\ pc \in {"select", "await"} => counts = << >> \/ counts = <<Reading(TEMP_CHANNEL)>>
  /\ pc = "tell" => counts = <<Reading(TEMP_CHANNEL), Reading(VREF_CHANNEL)>>

\* What was read is of the world as it is, and nothing stands on the line while a
\* reading is under way.
ReadingInv ==
  /\ pc \in {"init", "settle", "idle"} \cup Busy /\ todo \in Remaining
  /\ pc \in {"init", "settle"} => todo # << >>
  /\ g_cal \in Calibrations /\ die \in Nat /\ supply \in Nat
  /\ ConverterInOrder /\ CountsAreReadings
  /\ pc \in Busy => line = NoLine
  /\ LineIsTrue

\* Two counts read one after the other.
LEMMA AppendToOne ==
  \A a, b : Append(<<a>>, b) = <<a, b>> /\ Len(<<a, b>>) = 2
<1> SUFFICES ASSUME NEW a, NEW b
             PROVE  Append(<<a>>, b) = <<a, b>> /\ Len(<<a, b>>) = 2
  OBVIOUS
<1> DEFINE s == <<a>>
           t == Append(s, b)
<1>1. s \in Seq({a, b}) /\ Len(s) = 1 /\ s[1] = a
  OBVIOUS
<1>2. t \in Seq({a, b}) /\ Len(t) = 2 /\ t[1] = a /\ t[2] = b
  <2> DEFINE V == {a, b}
  <2>1. a \in V /\ b \in V /\ s \in Seq(V)
    BY <1>1
  <2> HIDE DEF s, V
  <2>2. /\ t \in Seq(V) /\ Len(t) = Len(s) + 1 /\ t[Len(s) + 1] = b
        /\ \A i \in 1 .. Len(s) : t[i] = s[i]
    BY <2>1, AppendProperties
  <2> HIDE DEF t
  <2> QED
    BY <1>1, <2>2 DEF V
<1> HIDE DEF t
<1>3. t = <<a, b>>
  BY <1>2
<1> QED
  BY <1>3 DEF t

\* A channel reads the same while the world does not change.
LEMMA ReadingStays ==
  ASSUME UNCHANGED world
  PROVE  \A channel : Reading(channel)' = Reading(channel)
BY DEF world, Reading

\* LineIsTrue, of any line, answer, calibration and world.
Plausible(n) == n \in -500 .. 1500

Near(n, cal, s, e) ==
  LET wrong == Span(cal) * (n - CAL_LOW_DECI) - CAL_SPAN_DECI * (e - cal.ts_cal1)
  IN Magnitude(wrong) <= CAL_SPAN_DECI * (2 + cal.vrefint_cal \div s) + Magnitude(Span(cal))

TrueOf(l, d, cal, s, e) ==
  l.sent => /\ ReadBack(l) = d
            /\ cal \in Genuine /\ s \in 1 .. ADC_FULL_SCALE
            /\ Plausible(ReadBack(l)) /\ Near(ReadBack(l), cal, s, e)

\* LineIsTrue is a statement of five variables, before a step and after it.
LEMMA LineOfWorld ==
  /\ LineIsTrue <=> TrueOf(line, deci, g_cal, supply, die)
  /\ LineIsTrue' <=> TrueOf(line', deci', g_cal', supply', die')
<1>1. LineIsTrue <=> TrueOf(line, deci, g_cal, supply, die)
  BY DEF LineIsTrue, TrueOf, Plausible, Near
<1>2. LineIsTrue' <=> TrueOf(line', deci', g_cal', supply', die')
  BY DEF LineIsTrue, TrueOf, Plausible, Near
<1> QED
  BY <1>1, <1>2

\* So it holds on while these stay.
LEMMA LineStays ==
  ASSUME LineIsTrue, UNCHANGED <<world, deci, line>>
  PROVE  LineIsTrue'
<1>1. UNCHANGED <<g_cal, die, supply, deci, line>>
  BY DEF world
<1> QED
  BY <1>1, LineOfWorld

\* The line told of two readings of one world is true of it.
LEMMA TellIsTrue ==
  ASSUME ReadingInv, Tell
  PROVE  LineIsTrue'
<1> DEFINE ts == Reading(TEMP_CHANNEL)
           d == DeciCelsius(g_cal, ts, supply)
<1>1. /\ pc = "tell" /\ counts = <<Reading(TEMP_CHANNEL), Reading(VREF_CHANNEL)>>
      /\ UNCHANGED world
  BY DEF Tell, ReadingInv, CountsAreReadings
<1>2. counts[1] = ts /\ counts[2] = supply
  BY <1>1 DEF Reading
<1>3. /\ deci' = d
      /\ line' = (IF d # TEMPERATURE_INVALID THEN Line(d) ELSE NoLine)
  BY <1>2 DEF Tell
<1> HIDE DEF ts, d
<1>4. CASE d = TEMPERATURE_INVALID
  BY <1>3, <1>4 DEF LineIsTrue, NoLine
<1>5. CASE d # TEMPERATURE_INVALID
  <2>1. /\ Accepted(g_cal, ts, supply) /\ d = OnLine(g_cal, ts, supply)
        /\ d \in DECI_PLAUSIBLE_MIN .. DECI_PLAUSIBLE_MAX
    BY <1>5 DEF DeciCelsius, d
  <2>2. Usable(g_cal) /\ supply # 0 /\ supply <= ADC_FULL_SCALE
    BY <2>1 DEF Accepted
  <2>3. g_cal \in Genuine /\ supply \in 1 .. ADC_FULL_SCALE
    <3>1. g_cal \in Genuine
      BY <2>2, GenuineAssumption DEF ReadingInv
    <3>2. supply \in Nat
      BY DEF ReadingInv
    <3> QED
      BY <2>2, <3>1, <3>2 DEF ADC_FULL_SCALE
  <2>4. Plausible(d) /\ d <= DECI_PLAUSIBLE_MAX /\ d \in Int
    BY <2>1 DEF DECI_PLAUSIBLE_MIN, DECI_PLAUSIBLE_MAX, Plausible
  <2>5. ts = AtMost(ADC_FULL_SCALE, (die * supply) \div g_cal.vrefint_cal)
    BY <2>3 DEF ts, Reading, TEMP_CHANNEL, VREF_CHANNEL
  <2>6. Near(d, g_cal, supply, die)
    <3>1. die \in Nat
      BY DEF ReadingInv
    <3>2. OnLine(g_cal, ts, supply) <= DECI_PLAUSIBLE_MAX
      BY <2>1, <2>4
    <3> QED
      BY <2>1, <2>3, <2>5, <3>1, <3>2, AnswerIsTrue DEF Near
  <2>7. ReadBack(Line(d)) = d /\ Line(d).sent
    <3>1. Line(d).sent
      BY DEF Line
    <3> QED
      BY <2>4, <3>1, LineOfAnswer
  <2>8. line' = Line(d) /\ deci' = d
    BY <1>3, <1>5
  <2>9. ReadBack(line') = d
    BY <2>7, <2>8
  <2>10. TrueOf(line', deci', g_cal, supply, die)
    BY <2>3, <2>4, <2>6, <2>8, <2>9, Zenon DEF TrueOf
  <2>11. UNCHANGED <<g_cal, supply, die>>
    BY <1>1 DEF world
  <2> QED
    BY <2>10, <2>11, LineOfWorld
<1> QED
  BY <1>4, <1>5

\* Nothing is read and nothing told at power-on.
LEMMA ReadingStart == PowerOn => ReadingInv
BY DEF PowerOn, ReadingInv, Remaining, Busy, InitOrder, ConverterInOrder, CountsAreReadings,
       LineIsTrue, NoLine

\* A step keeps the converter in order and the counts those of the world.
LEMMA ReadingStep == ReadingInv /\ [TemperatureNext]_temperature => ReadingInv'
<1> SUFFICES ASSUME ReadingInv, [TemperatureNext]_temperature PROVE ReadingInv'
  OBVIOUS
<1>1. CASE Command
  <2>1. /\ pc = "init" /\ pc' = "settle" /\ todo # << >> /\ command' = Head(todo)
        /\ UNCHANGED <<world, todo, eoc, deci, line>>
    BY <1>1 DEF Command
  <2>2. command' # "ADSTART"
    BY <2>1 DEF ReadingInv, Remaining
  <2>3. LineIsTrue'
    BY <2>1, LineStays DEF ReadingInv
  <2> QED
    BY <2>1, <2>2, <2>3 DEF ReadingInv, Busy, world, ConverterInOrder, CountsAreReadings
<1>2. CASE Settle
  <2>1. /\ pc = "settle" /\ todo' = Tail(todo)
        /\ pc' = (IF todo' = << >> THEN "idle" ELSE "init")
        /\ UNCHANGED <<world, command, eoc, deci, line>>
    BY <1>2 DEF Settle, adc
  <2>2. todo # << >> /\ todo \in Remaining
    BY <2>1 DEF ReadingInv
  <2>3. LineIsTrue'
    BY <2>1, LineStays DEF ReadingInv
  <2>4. todo' \in Remaining /\ (pc' = "init" => todo' # << >>)
    <3>1. CASE todo = <<"ADVREGEN", "ADCAL", "ADEN">>
      BY <2>1, <3>1 DEF Remaining
    <3>2. CASE todo = <<"ADCAL", "ADEN">>
      BY <2>1, <3>2 DEF Remaining
    <3>3. CASE todo = <<"ADEN">>
      BY <2>1, <3>3 DEF Remaining
    <3> QED
      BY <2>2, <3>1, <3>2, <3>3 DEF Remaining
  <2> QED
    BY <2>1, <2>3, <2>4 DEF ReadingInv, Busy, world, ConverterInOrder, CountsAreReadings
<1>3. CASE Ask
  <2>1. /\ pc = "idle" /\ pc' = "select" /\ counts' = << >> /\ line' = NoLine
        /\ UNCHANGED <<g_cal, todo, command, eoc>> /\ die' \in Nat /\ supply' \in Nat
    BY <1>3, CalibrationAssumption DEF Ask, adc
  <2>2. LineIsTrue'
    BY <2>1 DEF LineIsTrue, NoLine
  <2> QED
    BY <2>1, <2>2 DEF ReadingInv, Busy, ConverterInOrder, CountsAreReadings
<1>4. CASE Select
  <2>1. /\ pc = "select" /\ pc' = "await" /\ command' = "ADSTART"
        /\ sqr1' = Channels[Len(counts) + 1]
        /\ UNCHANGED <<world, todo, eoc, counts, deci, line>>
    BY <1>4 DEF Select
  <2>2. LineIsTrue'
    BY <2>1, LineStays DEF ReadingInv
  <2>3. Reading(TEMP_CHANNEL)' = Reading(TEMP_CHANNEL)
    BY <2>1, ReadingStays
  <2>4. CountsAreReadings'
    BY <2>1, <2>3 DEF ReadingInv, CountsAreReadings, Channels
  <2> QED
    BY <2>1, <2>2, <2>4 DEF ReadingInv, Busy, world, ConverterInOrder
<1>5. CASE Collect
  <2>1. /\ pc = "await" /\ eoc /\ counts' = Append(counts, dr) /\ eoc' = FALSE
        /\ pc' = (IF Len(counts') = 2 THEN "tell" ELSE "select")
        /\ UNCHANGED <<world, todo, command, deci, line>>
    BY <1>5 DEF Collect, EndOfConversion
  <2>2. LineIsTrue'
    BY <2>1, LineStays DEF ReadingInv
  <2>3. /\ command = "none" /\ dr = Reading(sqr1) /\ sqr1 = Channels[Len(counts) + 1]
        /\ counts = << >> \/ counts = <<Reading(TEMP_CHANNEL)>>
    BY <2>1 DEF ReadingInv, ConverterInOrder, CountsAreReadings
  <2>4. /\ Reading(TEMP_CHANNEL)' = Reading(TEMP_CHANNEL)
        /\ Reading(VREF_CHANNEL)' = Reading(VREF_CHANNEL)
    BY <2>1, ReadingStays
  <2>5. CountsAreReadings' /\ pc' \in Busy
    <3>1. CASE counts = << >>
      <4>1. counts' = <<Reading(TEMP_CHANNEL)>> /\ Len(counts') = 1
        BY <2>1, <2>3, <3>1 DEF Channels
      <4> QED
        BY <2>1, <2>4, <4>1 DEF CountsAreReadings, Busy
    <3>2. CASE counts = <<Reading(TEMP_CHANNEL)>>
      <4>1. dr = Reading(VREF_CHANNEL)
        BY <2>3, <3>2 DEF Channels
      <4>2. counts' = <<Reading(TEMP_CHANNEL), Reading(VREF_CHANNEL)>> /\ Len(counts') = 2
        <5> DEFINE a == Reading(TEMP_CHANNEL)
                   b == Reading(VREF_CHANNEL)
        <5>1. counts = <<a>> /\ dr = b /\ counts' = Append(counts, dr)
          BY <2>1, <3>2, <4>1
        <5> HIDE DEF a, b
        <5>2. counts' = <<a, b>> /\ Len(counts') = 2
          BY <5>1, AppendToOne
        <5> QED
          BY <5>2 DEF a, b
      <4> QED
        BY <2>1, <2>4, <4>2 DEF CountsAreReadings, Busy
    <3> QED
      BY <2>3, <3>1, <3>2
  <2> QED
    BY <2>1, <2>2, <2>3, <2>5 DEF ReadingInv, Busy, world, ConverterInOrder
<1>6. CASE Tell
  <2>1. pc = "tell" /\ pc' = "idle" /\ UNCHANGED <<world, todo, command, eoc>>
    BY <1>6 DEF Tell, adc
  <2>2. LineIsTrue'
    BY <1>6, TellIsTrue
  <2> QED
    BY <2>1, <2>2 DEF ReadingInv, Busy, world, ConverterInOrder, CountsAreReadings
<1>7. CASE Converter
  <2>1. /\ command' = "none" /\ UNCHANGED <<world, pc, todo, sqr1, counts, deci, line>>
        /\ \/ command = "ADSTART" /\ dr' = Reading(sqr1) /\ eoc' = TRUE
           \/ command \in {"ADVREGEN", "ADCAL", "ADEN"} /\ UNCHANGED <<eoc, dr>>
    BY <1>7 DEF Converter
  <2>2. LineIsTrue'
    BY <2>1, LineStays DEF ReadingInv
  <2>3. /\ Reading(TEMP_CHANNEL)' = Reading(TEMP_CHANNEL)
        /\ Reading(VREF_CHANNEL)' = Reading(VREF_CHANNEL)
        /\ Reading(sqr1)' = Reading(sqr1)
    BY <2>1, ReadingStays DEF Reading
  <2>4. ConverterInOrder'
    BY <2>1, <2>3 DEF ReadingInv, ConverterInOrder
  <2>5. CountsAreReadings'
    BY <2>1, <2>3 DEF ReadingInv, CountsAreReadings
  <2> QED
    BY <2>1, <2>2, <2>4, <2>5 DEF ReadingInv, Busy, world
<1>8. CASE UNCHANGED temperature
  <2>1. UNCHANGED <<world, pc, todo, command, eoc, dr, sqr1, counts, deci, line>>
    BY <1>8 DEF temperature, adc
  <2>2. LineIsTrue'
    BY <2>1, LineStays DEF ReadingInv
  <2>3. /\ Reading(TEMP_CHANNEL)' = Reading(TEMP_CHANNEL)
        /\ Reading(VREF_CHANNEL)' = Reading(VREF_CHANNEL)
        /\ Reading(sqr1)' = Reading(sqr1)
    BY <2>1, ReadingStays DEF Reading
  <2>4. ConverterInOrder' /\ CountsAreReadings'
    BY <2>1, <2>3 DEF ReadingInv, ConverterInOrder, CountsAreReadings
  <2> QED
    BY <2>1, <2>2, <2>4 DEF ReadingInv, Busy, world
<1> QED
  BY <1>1, <1>2, <1>3, <1>4, <1>5, <1>6, <1>7, <1>8 DEF TemperatureNext, Driver

\* A temperature that is told is the die's, within the rounding of its two
\* readings and of the division, and only a genuine part's.
THEOREM LinesAreTrue == TemperatureSpec => []LineIsTrue
<1>1. ReadingInv => LineIsTrue
  BY DEF ReadingInv
<1> QED
  BY <1>1, ReadingStart, ReadingStep, PTL DEF TemperatureSpec
=============================================================================
