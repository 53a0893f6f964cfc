----------------------------- MODULE ChecksumProofs -----------------------------
(***************************************************************************)
(* What Checksums.tla promises, for every message up to its bounds: the     *)
(* sums the code computes are the remainders the protocol names, damage    *)
(* within one burst changes that of a frame, and what COMMIT compares with  *)
(* is the checksum of the image.                                           *)
(*                                                                         *)
(* A turn of each loop is a shift: one place up, and the divisor off when   *)
(* the highest power comes out.  Shifting and taking the remainder both     *)
(* keep sums, so a register moved up by a byte with the byte added is the   *)
(* remainder of the message so far, and what damage does to the register   *)
(* is the remainder of the damage alone.  The table, the bytes and the      *)
(* words are three ways of moving up.                                      *)
(*                                                                         *)
(* The lemmas about folds and Climb, the induction over the numbers, are    *)
(* those of ArithmeticProofs; none of its assumptions is used.             *)
(***************************************************************************)
EXTENDS Checksums, ArithmeticProofs

-----------------------------------------------------------------------------
\* A register of so many bits.
Registers(width) == SUBSET Ones(width)

\* One place up, and the divisor taken off when the highest power comes out.
Shift(c, D, w) == IF w - 1 \in c THEN SymDiff(Up(c, 1) \ {w}, D) ELSE Up(c, 1)

\* What is divided by: x^w and the powers D below it, the lowest among them.
Divisor(D, w) == w \in Nat \ {0} /\ D \in Registers(w) /\ 0 \in D

\* L[p] is what the power p leaves, for every power up to h.
Leaving(L, h, D, w) ==
  /\ Divisor(D, w) /\ h \in Nat
  /\ L \in [0 .. h -> Registers(w)]
  /\ \A p \in 0 .. h : L[p] = IF p < w THEN {p} ELSE Shift(L[p - 1], D, w)

\* A sum of two has the powers that stand in one of them.
LEMMA SumHas == \A A, B, x : x \in SymDiff(A, B) <=> (x \in A) # (x \in B)
BY DEF SymDiff

\* What stands a number of places up.
LEMMA UpHas ==
  ASSUME NEW A \in SUBSET Int, NEW n \in Int
  PROVE  /\ Up(A, n) \subseteq Int
         /\ \A x \in Int : x \in Up(A, n) <=> x - n \in A
<1>1. Up(A, n) \subseteq Int
  BY DEF Up
<1>2. ASSUME NEW x \in Int, x - n \in A PROVE x \in Up(A, n)
  <2>1. x = (x - n) + n
    OBVIOUS
  <2> QED
    BY <1>2, <2>1 DEF Up
<1>3. ASSUME NEW x \in Int, x \in Up(A, n) PROVE x - n \in A
  <2>1. PICK p \in A : x = p + n
    BY <1>3 DEF Up
  <2>2. p = x - n
    BY <2>1
  <2> QED
    BY <2>2
<1> QED
  BY <1>1, <1>2, <1>3

\* A register shifted, place by place.
LEMMA ShiftHas ==
  ASSUME NEW w, NEW D, Divisor(D, w), NEW c \in Registers(w)
  PROVE  /\ Shift(c, D, w) \in Registers(w)
         /\ \A x \in Ones(w) :
              x \in Shift(c, D, w) <=> ((x - 1 \in c) # (w - 1 \in c /\ x \in D))
<1>1. w \in Nat \ {0} /\ D \subseteq 0 .. w - 1 /\ c \subseteq 0 .. w - 1
  BY DEF Divisor, Registers, Ones
<1>2. c \in SUBSET Int
  BY <1>1
<1>3. Up(c, 1) \subseteq Int /\ \A x \in Int : x \in Up(c, 1) <=> x - 1 \in c
  BY <1>2, UpHas
<1>4. \A x \in Up(c, 1) : x \in 0 .. w /\ (x = w => w - 1 \in c)
  BY <1>1, <1>3
<1>5. CASE w - 1 \in c
  <2>1. \A x : x \in Shift(c, D, w) <=> ((x \in Up(c, 1) /\ x # w) # (x \in D))
    BY <1>5, SumHas DEF Shift
  <2>2. ASSUME NEW x \in Shift(c, D, w) PROVE x \in 0 .. w - 1
    <3>1. (x \in Up(c, 1) /\ x # w) \/ x \in D
      BY <2>1
    <3>2. CASE x \in Up(c, 1) /\ x # w
      BY <1>1, <1>4, <3>2
    <3>3. CASE x \in D
      BY <1>1, <3>3
    <3> QED
      BY <3>1, <3>2, <3>3
  <2>3. ASSUME NEW x \in 0 .. w - 1
        PROVE  x \in Shift(c, D, w) <=> ((x - 1 \in c) # (w - 1 \in c /\ x \in D))
    <3>1. x # w /\ x \in Int
      BY <1>1
    <3>2. x \in Up(c, 1) <=> x - 1 \in c
      BY <1>3, <3>1
    <3>3. x \in Shift(c, D, w) <=> ((x \in Up(c, 1) /\ x # w) # (x \in D))
      BY <2>1
    <3> QED
      BY <1>5, <3>1, <3>2, <3>3
  <2> QED
    BY <2>2, <2>3 DEF Registers, Ones
<1>6. CASE w - 1 \notin c
  <2>1. Shift(c, D, w) = Up(c, 1)
    BY <1>6 DEF Shift
  <2>2. ASSUME NEW x \in Up(c, 1) PROVE x \in 0 .. w - 1
    BY <1>1, <1>4, <1>6
  <2> QED
    BY <1>1, <1>3, <1>6, <2>1, <2>2 DEF Registers, Ones
<1> QED
  BY <1>5, <1>6

\* A sum shifted is the sum of its parts shifted.
LEMMA ShiftAdds ==
  ASSUME NEW w, NEW D, Divisor(D, w), NEW a \in Registers(w), NEW b \in Registers(w)
  PROVE  /\ SymDiff(a, b) \in Registers(w)
         /\ Shift(SymDiff(a, b), D, w) = SymDiff(Shift(a, D, w), Shift(b, D, w))
<1> DEFINE s == SymDiff(a, b)
           sa == Shift(a, D, w)
           sb == Shift(b, D, w)
           ss == Shift(s, D, w)
<1>1. s \in Registers(w)
  BY DEF SymDiff, Registers
<1>2. sa \in Registers(w) /\ sb \in Registers(w) /\ ss \in Registers(w)
  BY <1>1, ShiftHas
<1>3. SymDiff(sa, sb) \in Registers(w)
  BY <1>2 DEF SymDiff, Registers
<1>4. ASSUME NEW x \in Ones(w) PROVE x \in ss <=> x \in SymDiff(sa, sb)
  <2>1. x \in sa <=> ((x - 1 \in a) # (w - 1 \in a /\ x \in D))
    BY ShiftHas
  <2>2. x \in sb <=> ((x - 1 \in b) # (w - 1 \in b /\ x \in D))
    BY ShiftHas
  <2>3. x \in ss <=> ((x - 1 \in s) # (w - 1 \in s /\ x \in D))
    BY <1>1, ShiftHas
  <2>4. /\ x - 1 \in s <=> (x - 1 \in a) # (x - 1 \in b)
        /\ w - 1 \in s <=> (w - 1 \in a) # (w - 1 \in b)
        /\ x \in SymDiff(sa, sb) <=> (x \in sa) # (x \in sb)
    BY SumHas
  <2> HIDE DEF s, sa, sb, ss
  <2> QED
    BY <2>1, <2>2, <2>3, <2>4
<1> HIDE DEF s, sa, sb, ss
<1>5. ss = SymDiff(sa, sb)
  BY <1>2, <1>3, <1>4 DEF Registers
<1> QED
  BY <1>1, <1>5 DEF s, sa, sb, ss

\* Only nothing leaves nothing when it is shifted.
LEMMA ShiftKeeps ==
  ASSUME NEW w, NEW D, Divisor(D, w), NEW c \in Registers(w), c # {}
  PROVE  Shift(c, D, w) # {}
<1>1. w \in Nat \ {0} /\ 0 \in D /\ c \subseteq 0 .. w - 1
  BY DEF Divisor, Registers, Ones
<1>2. \A x \in 0 .. w - 1 : x \in Shift(c, D, w) <=> ((x - 1 \in c) # (w - 1 \in c /\ x \in D))
  BY ShiftHas DEF Ones
<1>3. CASE w - 1 \in c
  <2>1. 0 \in 0 .. w - 1 /\ 0 - 1 \notin c
    BY <1>1
  <2>2. 0 \in Shift(c, D, w)
    BY <1>1, <1>2, <1>3, <2>1
  <2> QED
    BY <2>2
<1>4. CASE w - 1 \notin c
  <2>1. PICK p \in c : TRUE
    OBVIOUS
  <2>2. p + 1 \in 0 .. w - 1 /\ (p + 1) - 1 = p
    BY <1>1, <1>4, <2>1
  <2>3. p + 1 \in Shift(c, D, w)
    BY <1>2, <1>4, <2>2
  <2> QED
    BY <2>3
<1> QED
  BY <1>3, <1>4

\* What a power leaves, shifted, is what the next power leaves.
LEMMA LeavingShifts ==
  ASSUME NEW L, NEW h, NEW D, NEW w, Leaving(L, h, D, w), NEW p \in 0 .. h - 1
  PROVE  L[p + 1] = Shift(L[p], D, w)
<1>1. w \in Nat \ {0} /\ h \in Nat
  BY DEF Leaving, Divisor
<1>2. p \in 0 .. h /\ p + 1 \in 0 .. h /\ (p + 1) - 1 = p
  BY <1>1
<1>3. L[p] = (IF p < w THEN {p} ELSE Shift(L[p - 1], D, w))
      /\ L[p + 1] = IF p + 1 < w THEN {p + 1} ELSE Shift(L[p], D, w)
  BY <1>2 DEF Leaving
<1>4. CASE p + 1 < w
  <2>1. L[p] = {p} /\ L[p + 1] = {p + 1}
    BY <1>1, <1>2, <1>3, <1>4
  <2>2. w - 1 \notin {p}
    BY <1>1, <1>2, <1>4
  <2>3. Up({p}, 1) = {p + 1}
    BY DEF Up
  <2> QED
    BY <2>1, <2>2, <2>3 DEF Shift
<1>5. CASE ~ (p + 1 < w)
  BY <1>3, <1>5
<1> QED
  BY <1>4, <1>5

-----------------------------------------------------------------------------
\* Remainders.

\* Sums of registers: in any order, and twice the same is nothing.
LEMMA SumsOfRegisters ==
  ASSUME NEW w
  PROVE  /\ {} \in Registers(w)
         /\ \A a, b \in Registers(w) : SymDiff(a, b) \in Registers(w)
         /\ \A a, b, c : SymDiff(a, SymDiff(b, c)) = SymDiff(b, SymDiff(a, c))
         /\ \A a, b, c : SymDiff(SymDiff(a, b), c) = SymDiff(a, SymDiff(b, c))
         /\ \A a, b : SymDiff(a, b) = SymDiff(b, a)
         /\ \A a : SymDiff(a, {}) = a /\ SymDiff({}, a) = a /\ SymDiff(a, a) = {}
BY DEF SymDiff, Registers

\* Each power adds what it leaves.
AddsLeft(L, S, w) == [p \in S |-> [v \in Registers(w) |-> SymDiff(L[p], v)]]

\* What is added for a power is fit for a fold, in any order.
LEMMA LeavingFold ==
  ASSUME NEW w, NEW L, NEW S, IsFiniteSet(S), \A p \in S : L[p] \in Registers(w)
  PROVE  /\ Foldable(S, Registers(w), {}, SomeOf(S), AddsLeft(L, S, w))
         /\ Commutes(S, Registers(w), AddsLeft(L, S, w))
<1> DEFINE V == Registers(w)
           op == AddsLeft(L, S, w)
<1>1. \A a, b \in V : SymDiff(a, b) \in V
  BY SumsOfRegisters
<1>2. op \in [S -> [V -> V]]
  BY <1>1 DEF AddsLeft
<1>3. \A x, y \in S : \A v \in V : op[x][op[y][v]] = SymDiff(L[x], SymDiff(L[y], v))
  BY <1>1 DEF AddsLeft
<1>4. Commutes(S, V, op)
  BY <1>3, SumsOfRegisters DEF Commutes
<1>5. \A s \in SUBSET S : s # {} => SomeOf(S)[s] \in s
  BY Zenon DEF SomeOf
<1> QED
  BY <1>2, <1>4, <1>5, SumsOfRegisters DEF Foldable

\* What a sum of powers leaves is such a fold.
LEMMA RemainderFolds ==
  ASSUME NEW w, NEW L, NEW S, IsFiniteSet(S), \A p \in S : L[p] \in Registers(w)
  PROVE  \E it : /\ FoldsTo(it, S, Registers(w), {}, SomeOf(S), AddsLeft(L, S, w))
                 /\ Remainder(S, L) = it[S]
<1> DEFINE V == Registers(w)
           op == AddsLeft(L, S, w)
           Equation(f) == f = [s \in SUBSET S |->
             IF s = {} THEN {}
             ELSE SymDiff(L[CHOOSE x \in s : TRUE], f[s \ {CHOOSE x \in s : TRUE}])]
           it == CHOOSE f : Equation(f)
<1>1. Remainder(S, L) = it[S]
  BY DEF Remainder, FoldSet, MapThenFoldSet
<1>2. Foldable(S, V, {}, SomeOf(S), op)
  BY LeavingFold
<1>3. \A s \in SUBSET S : s # {} =>
        SomeOf(S)[s] = (CHOOSE x \in s : TRUE) /\ SomeOf(S)[s] \in S
  <2>1. \A s \in SUBSET S : SomeOf(S)[s] = CHOOSE x \in s : TRUE
    BY DEF SomeOf
  <2>2. \A s \in SUBSET S : s # {} => SomeOf(S)[s] \in s
    BY <1>2 DEF Foldable
  <2> QED
    BY <2>1, <2>2
<1>4. \A p \in S : \A v \in V : op[p][v] = SymDiff(L[p], v)
  BY DEF AddsLeft
<1>5. \E f : Equation(f)
  <2>1. PICK f : f \in [SUBSET S -> V] /\ FoldsTo(f, S, V, {}, SomeOf(S), op)
    <3> HIDE DEF V, op
    <3> QED
      BY <1>2, FoldExists
  <2>2. ASSUME NEW s \in SUBSET S
        PROVE  f[s] = IF s = {} THEN {}
             ELSE SymDiff(L[CHOOSE x \in s : TRUE], f[s \ {CHOOSE x \in s : TRUE}])
    <3>1. CASE s = {}
      BY <2>1, <3>1 DEF FoldsTo
    <3>2. CASE s # {}
      <4> DEFINE x == SomeOf(S)[s]
      <4>1. x = (CHOOSE y \in s : TRUE) /\ x \in S
        BY <1>3, <3>2
      <4>2. f[s \ {x}] \in V
        BY <2>1
      <4>3. f[s] = op[x][f[s \ {x}]]
        BY <2>1, <3>2, <4>2 DEF FoldsTo
      <4>4. f[s] = SymDiff(L[x], f[s \ {x}])
        <5> HIDE DEF x, op, V
        <5> QED
          BY <1>4, <4>1, <4>2, <4>3
      <4> QED
        BY <3>2, <4>1, <4>4
    <3> QED
      BY <3>1, <3>2
  <2>3. f = [s \in SUBSET S |-> f[s]]
    BY <2>1
  <2>4. Equation(f)
    BY <2>2, <2>3
  <2> HIDE DEF Equation
  <2> QED
    BY <2>4
<1>6. Equation(it)
  <2> HIDE DEF Equation
  <2> QED
    BY <1>5
<1>7. ASSUME NEW s \in SUBSET S, s # {}, it[s \ {SomeOf(S)[s]}] \in V
      PROVE  it[s] = op[SomeOf(S)[s]][it[s \ {SomeOf(S)[s]}]]
  <2> DEFINE x == SomeOf(S)[s]
  <2>1. x = (CHOOSE y \in s : TRUE) /\ x \in S
    BY <1>3, <1>7
  <2>2. it[s] = SymDiff(L[x], it[s \ {x}])
    <3> HIDE DEF it
    <3> QED
      BY <1>6, <1>7, <2>1
  <2>3. it[s \ {x}] \in V
    BY <1>7
  <2> HIDE DEF x, it, V, op
  <2> QED
    BY <1>4, <2>1, <2>2, <2>3 DEF x
<1>8. it = [s \in SUBSET S |-> it[s]] /\ it[{}] = {}
  <2> HIDE DEF it
  <2> QED
    BY <1>6
<1>9. FoldsTo(it, S, V, {}, SomeOf(S), op)
  <2> HIDE DEF it, V, op
  <2> QED
    BY <1>7, <1>8 DEF FoldsTo
<1> HIDE DEF it
<1> QED
  BY <1>1, <1>9

\* Induction over sums of powers, the claim being a set of them.
LEMMA Gather ==
  ASSUME NEW h \in Nat, NEW T, {} \in T,
         \A A \in SUBSET (0 .. h) : \A p \in 0 .. h : A \in T /\ p \notin A => A \cup {p} \in T
  PROVE  \A A \in SUBSET (0 .. h) : A \in T
<1> DEFINE N == {n \in Nat : \A A \in SUBSET (0 .. h) : (\A q \in A : q < n) => A \in T}
<1>1. 0 \in N
  <2>1. ASSUME NEW A \in SUBSET (0 .. h), \A q \in A : q < 0 PROVE A \in T
    <3>1. A = {}
      BY <2>1
    <3> QED
      BY <3>1
  <2> QED
    BY <2>1
<1>2. ASSUME NEW n \in Nat, n \in N PROVE n + 1 \in N
  <2> SUFFICES ASSUME NEW A \in SUBSET (0 .. h), \A q \in A : q < n + 1 PROVE A \in T
    OBVIOUS
  <2>1. CASE n \in A
    <3> DEFINE B == A \ {n}
    <3>1. \A q \in B : q < n
      OBVIOUS
    <3>2. B \in T
      BY <1>2, <3>1
    <3>3. A = B \cup {n} /\ n \notin B /\ n \in 0 .. h /\ B \in SUBSET (0 .. h)
      BY <2>1
    <3> HIDE DEF B
    <3> QED
      BY <3>2, <3>3
  <2>2. CASE n \notin A
    <3>1. \A q \in A : q < n
      BY <2>2
    <3> QED
      BY <1>2, <3>1
  <2> QED
    BY <2>1, <2>2
<1>3. \A n \in Nat : n \in N
  <2> HIDE DEF N
  <2> QED
    BY <1>1, <1>2, Climb
<1> QED
  <2> SUFFICES ASSUME NEW A \in SUBSET (0 .. h) PROVE A \in T
    OBVIOUS
  <2>1. h + 1 \in N
    <3>1. h + 1 \in Nat
      OBVIOUS
    <3> HIDE DEF N
    <3> QED
      BY <1>3, <3>1
  <2>2. \A q \in A : q < h + 1
    OBVIOUS
  <2> QED
    BY <2>1, <2>2

\* A power more in a sum adds what it leaves.
LEMMA RemainderTakes ==
  ASSUME NEW L, NEW h, NEW D, NEW w, Leaving(L, h, D, w), NEW A \in SUBSET (0 .. h)
  PROVE  /\ Remainder({}, L) = {} /\ Remainder(A, L) \in Registers(w)
         /\ \A p \in A : Remainder(A, L) = SymDiff(L[p], Remainder(A \ {p}, L))
<1> DEFINE V == Registers(w)
           op == AddsLeft(L, A, w)
<1>0. h \in Nat /\ \A p \in 0 .. h : L[p] \in V
  BY DEF Leaving
<1>1. /\ \A S \in SUBSET A : IsFiniteSet(S)
      /\ \A p \in A : L[p] \in V
  <2>1. IsFiniteSet(0 .. h)
    BY <1>0, FS_Interval
  <2>2. \A S \in SUBSET A : IsFiniteSet(S)
    BY <2>1, FS_Subset
  <2> QED
    BY <1>0, <2>2
<1>2. ASSUME NEW S \in SUBSET A
      PROVE  \E f : /\ FoldsTo(f, S, V, {}, SomeOf(S), op)
                    /\ Remainder(S, L) = f[S]
  <2>1. PICK f : /\ FoldsTo(f, S, V, {}, SomeOf(S), AddsLeft(L, S, w))
                 /\ Remainder(S, L) = f[S]
    <3>1. IsFiniteSet(S) /\ \A p \in S : L[p] \in Registers(w)
      BY <1>1
    <3> QED
      BY <3>1, RemainderFolds
  <2>2. \A s \in SUBSET S : s # {} => SomeOf(S)[s] \in s
    BY Zenon DEF SomeOf
  <2>3. \A p \in S : AddsLeft(L, S, w)[p] = op[p]
    BY DEF AddsLeft
  <2>4. FoldsTo(f, S, V, {}, SomeOf(S), op)
    <3>1. \A s \in SUBSET S : s # {} => AddsLeft(L, S, w)[SomeOf(S)[s]] = op[SomeOf(S)[s]]
      BY <2>2, <2>3
    <3> HIDE DEF op, V
    <3> QED
      BY <2>1, <3>1 DEF FoldsTo, V
  <2> QED
    BY <2>1, <2>4
<1>3. Foldable(A, V, {}, SomeOf(A), op) /\ Commutes(A, V, op)
  BY <1>1, LeavingFold
<1>4. PICK it : FoldsTo(it, A, V, {}, SomeOf(A), op) /\ Remainder(A, L) = it[A]
  <2>1. A \in SUBSET A
    OBVIOUS
  <2> HIDE DEF V, op
  <2> QED
    BY <1>2, <2>1
<1>5. InAnyOrder(it, A, V, {}, op)
  <2> HIDE DEF V, op
  <2> QED
    BY <1>3, <1>4, FoldAnyOrder
<1>6. ASSUME NEW S \in SUBSET A PROVE Remainder(S, L) = it[S]
  <2>1. PICK f : FoldsTo(f, S, V, {}, SomeOf(S), op) /\ Remainder(S, L) = f[S]
    BY <1>2
  <2>2. /\ IsFiniteSet(A) /\ {} \in V /\ op \in [A -> [V -> V]]
    BY <1>3 DEF Foldable
  <2>3. \A s \in SUBSET S : s # {} => SomeOf(S)[s] \in s
    BY Zenon DEF SomeOf
  <2>4. f[S] = it[S]
    <3> DEFINE W == V
               o == op
               t == SomeOf(S)
    <3>1. FoldsWhole(it, A, W, {}, o)
      BY <1>5, <2>2 DEF FoldsWhole
    <3>2. FoldsPart(f, S, A, W, {}, t, o)
      BY <2>1, <2>3 DEF FoldsPart
    <3> HIDE DEF W, o, t
    <3> QED
      BY <3>1, <3>2, FoldOfPart
  <2> QED
    BY <2>1, <2>4
<1>7. /\ it \in [SUBSET A -> V] /\ it[{}] = {}
      /\ \A p \in A : it[A] = op[p][it[A \ {p}]]
  BY <1>5 DEF InAnyOrder
<1>8. \A p \in A : \A v \in V : op[p][v] = SymDiff(L[p], v)
  BY DEF AddsLeft
<1>9. \A p \in A : A \ {p} \in SUBSET A /\ it[A \ {p}] \in V
  BY <1>7
<1> HIDE DEF V, op
<1> QED
  BY <1>6, <1>7, <1>8, <1>9 DEF V

\* Turning a power over in a sum turns what it leaves over.
LEMMA RemainderTurns ==
  ASSUME NEW L, NEW h, NEW D, NEW w, Leaving(L, h, D, w), NEW A \in SUBSET (0 .. h),
         NEW p \in 0 .. h
  PROVE  Remainder(SymDiff({p}, A), L) = SymDiff(L[p], Remainder(A, L))
<1>1. CASE p \in A
  <2>1. SymDiff({p}, A) = A \ {p}
    BY <1>1 DEF SymDiff
  <2>2. Remainder(A, L) = SymDiff(L[p], Remainder(A \ {p}, L))
    BY <1>1, RemainderTakes
  <2>3. \A a, b : SymDiff(a, SymDiff(a, b)) = b
    BY DEF SymDiff
  <2> QED
    BY <2>1, <2>2, <2>3
<1>2. CASE p \notin A
  <2> DEFINE B == SymDiff({p}, A)
  <2>1. B \in SUBSET (0 .. h) /\ p \in B /\ B \ {p} = A
    BY <1>2 DEF SymDiff
  <2> HIDE DEF B
  <2>2. Remainder(B, L) = SymDiff(L[p], Remainder(B \ {p}, L))
    BY <2>1, RemainderTakes
  <2> QED
    BY <2>1, <2>2 DEF B
<1> QED
  BY <1>1, <1>2

\* What a sum leaves is the sum of what its parts leave.
LEMMA RemainderAdds ==
  ASSUME NEW L, NEW h, NEW D, NEW w, Leaving(L, h, D, w),
         NEW A \in SUBSET (0 .. h), NEW B \in SUBSET (0 .. h)
  PROVE  Remainder(SymDiff(A, B), L) = SymDiff(Remainder(A, L), Remainder(B, L))
<1> DEFINE T == {C \in SUBSET (0 .. h) :
                   Remainder(SymDiff(C, B), L) = SymDiff(Remainder(C, L), Remainder(B, L))}
<1>0. h \in Nat
  BY DEF Leaving
<1>1. {} \in T
  <2>1. Remainder({}, L) = {} /\ SymDiff({}, B) = B
    BY RemainderTakes, SumsOfRegisters
  <2>2. SymDiff({}, Remainder(B, L)) = Remainder(B, L)
    BY SumsOfRegisters
  <2> QED
    BY <2>1, <2>2
<1>2. ASSUME NEW C \in SUBSET (0 .. h), NEW p \in 0 .. h, C \in T, p \notin C
      PROVE  C \cup {p} \in T
  <2>1. C \cup {p} = SymDiff({p}, C)
    BY <1>2 DEF SymDiff
  <2>2. SymDiff(SymDiff({p}, C), B) = SymDiff({p}, SymDiff(C, B))
    BY SumsOfRegisters
  <2>3. SymDiff(C, B) \in SUBSET (0 .. h)
    BY DEF SymDiff
  <2>4. Remainder(SymDiff({p}, SymDiff(C, B)), L) = SymDiff(L[p], Remainder(SymDiff(C, B), L))
    BY <2>3, RemainderTurns
  <2>5. Remainder(SymDiff({p}, C), L) = SymDiff(L[p], Remainder(C, L))
    BY RemainderTurns
  <2>6. Remainder(SymDiff(C, B), L) = SymDiff(Remainder(C, L), Remainder(B, L))
    BY <1>2
  <2>7. Remainder(SymDiff(SymDiff({p}, C), B), L)
          = SymDiff(Remainder(SymDiff({p}, C), L), Remainder(B, L))
    BY <2>2, <2>4, <2>5, <2>6, SumsOfRegisters
  <2> QED
    BY <2>1, <2>7
<1>3. A \in T
  <2> HIDE DEF T
  <2> QED
    BY <1>0, <1>1, <1>2, Gather
<1> QED
  BY <1>3

\* A sum of low powers leaves itself.
LEMMA RemainderOfLow ==
  ASSUME NEW L, NEW h, NEW D, NEW w, Leaving(L, h, D, w),
         NEW A \in SUBSET (0 .. h), A \in Registers(w)
  PROVE  Remainder(A, L) = A
<1> DEFINE T == {C \in SUBSET (0 .. h) : C \in Registers(w) => Remainder(C, L) = C}
<1>0. h \in Nat
  BY DEF Leaving
<1>1. {} \in T
  BY RemainderTakes
<1>2. ASSUME NEW C \in SUBSET (0 .. h), NEW p \in 0 .. h, C \in T, p \notin C
      PROVE  C \cup {p} \in T
  <2> SUFFICES ASSUME C \cup {p} \in Registers(w) PROVE Remainder(C \cup {p}, L) = C \cup {p}
    OBVIOUS
  <2>1. C \cup {p} = SymDiff({p}, C)
    BY <1>2 DEF SymDiff
  <2>2. C \in Registers(w) /\ p < w
    BY DEF Registers, Ones, Leaving, Divisor
  <2>3. Remainder(C, L) = C /\ L[p] = {p}
    BY <1>2, <2>2 DEF Leaving
  <2>4. Remainder(SymDiff({p}, C), L) = SymDiff(L[p], Remainder(C, L))
    BY RemainderTurns
  <2> QED
    BY <2>1, <2>3, <2>4
<1>3. A \in T
  <2> HIDE DEF T
  <2> QED
    BY <1>0, <1>1, <1>2, Gather
<1> QED
  BY <1>3

\* Every place up by some.
LEMMA UpWithin ==
  ASSUME NEW h \in Nat, NEW k \in Nat, NEW A \in SUBSET (0 .. h)
  PROVE  /\ Up(A, k) \in SUBSET (0 .. h + k)
         /\ \A x : x \in Up(A, k) <=> x \in Int /\ x - k \in A
         /\ Up(A, 0) = A
<1>1. \A x : x \in Up(A, k) <=> x \in Int /\ x - k \in A
  <2>1. A \in SUBSET Int /\ k \in Int
    OBVIOUS
  <2>2. Up(A, k) \subseteq Int /\ \A x \in Int : x \in Up(A, k) <=> x - k \in A
    BY <2>1, UpHas
  <2> QED
    BY <2>2
<1>2. Up(A, k) \in SUBSET (0 .. h + k)
  <2>1. ASSUME NEW x \in Up(A, k) PROVE x \in 0 .. h + k
    <3>1. x \in Int /\ x - k \in 0 .. h
      BY <1>1
    <3> QED
      BY <3>1
  <2> QED
    BY <2>1
<1>3. Up(A, 0) = A
  <2>1. \A p \in A : p + 0 = p
    OBVIOUS
  <2> QED
    BY <2>1 DEF Up
<1> QED
  BY <1>1, <1>2, <1>3

\* And once more by one.
LEMMA UpTwice ==
  ASSUME NEW A \in SUBSET Int, NEW k \in Int
  PROVE  Up(Up(A, k), 1) = Up(A, k + 1)
<1>1. \A p \in A : (p + k) + 1 = p + (k + 1)
  OBVIOUS
<1>2. \A x : x \in Up(Up(A, k), 1) <=> \E p \in A : x = (p + k) + 1
  BY DEF Up
<1>3. \A x : x \in Up(A, k + 1) <=> \E p \in A : x = p + (k + 1)
  BY DEF Up
<1>4. \A x : x \in Up(Up(A, k), 1) <=> x \in Up(A, k + 1)
  BY <1>1, <1>2, <1>3
<1> QED
  BY <1>4

\* Sums move as their parts do.
LEMMA UpAdds ==
  ASSUME NEW h \in Nat, NEW k \in Nat, NEW A \in SUBSET (0 .. h), NEW B \in SUBSET (0 .. h)
  PROVE  Up(SymDiff(A, B), k) = SymDiff(Up(A, k), Up(B, k))
<1>1. SymDiff(A, B) \in SUBSET (0 .. h)
  BY DEF SymDiff
<1>2. \A x : x \in Up(SymDiff(A, B), k) <=> x \in Int /\ x - k \in SymDiff(A, B)
  BY <1>1, UpWithin
<1>3. \A x : (x \in Up(A, k) <=> x \in Int /\ x - k \in A)
             /\ (x \in Up(B, k) <=> x \in Int /\ x - k \in B)
  BY UpWithin
<1>4. \A x : x \in Up(SymDiff(A, B), k) <=> x \in SymDiff(Up(A, k), Up(B, k))
  <2> TAKE x
  <2>1. /\ x - k \in SymDiff(A, B) <=> (x - k \in A) # (x - k \in B)
        /\ x \in SymDiff(Up(A, k), Up(B, k)) <=> (x \in Up(A, k)) # (x \in Up(B, k))
    BY SumHas
  <2>2. /\ x \in Up(SymDiff(A, B), k) <=> x \in Int /\ x - k \in SymDiff(A, B)
        /\ x \in Up(A, k) <=> x \in Int /\ x - k \in A
        /\ x \in Up(B, k) <=> x \in Int /\ x - k \in B
    BY <1>2, <1>3
  <2> QED
    BY <2>1, <2>2
<1> QED
  BY <1>4

\* What a sum moved by one leaves is what it left, shifted.
LEMMA RemainderShifts ==
  ASSUME NEW L, NEW top, NEW D, NEW w, Leaving(L, top, D, w), NEW h \in Nat, top = h + 1,
         NEW A \in SUBSET (0 .. h)
  PROVE  Remainder(Up(A, 1), L) = Shift(Remainder(A, L), D, w)
<1> DEFINE T == {C \in SUBSET (0 .. h) : Remainder(Up(C, 1), L) = Shift(Remainder(C, L), D, w)}
<1>0. /\ Divisor(D, w) /\ SUBSET (0 .. h) \subseteq SUBSET (0 .. top)
      /\ \A C \in SUBSET (0 .. h) : Up(C, 1) \in SUBSET (0 .. top)
  <2>1. Divisor(D, w) /\ SUBSET (0 .. h) \subseteq SUBSET (0 .. top)
    BY DEF Leaving
  <2>2. 1 \in Nat
    OBVIOUS
  <2>3. \A C \in SUBSET (0 .. h) : Up(C, 1) \in SUBSET (0 .. h + 1)
    BY <2>2, UpWithin, Zenon
  <2> QED
    BY <2>1, <2>3
<1>1. {} \in T
  <2>1. Up({}, 1) = {} /\ Remainder({}, L) = {}
    BY RemainderTakes DEF Up
  <2>2. Shift({}, D, w) = {}
    BY DEF Shift, Up
  <2> QED
    BY <2>1, <2>2
<1>2. ASSUME NEW C \in SUBSET (0 .. h), NEW p \in 0 .. h, C \in T, p \notin C
      PROVE  C \cup {p} \in T
  <2>1. C \cup {p} = SymDiff({p}, C) /\ {p} \in SUBSET (0 .. h)
    BY <1>2 DEF SymDiff
  <2>2. Up({p}, 1) = {p + 1}
    BY DEF Up
  <2>3. Up(SymDiff({p}, C), 1) = SymDiff({p + 1}, Up(C, 1))
    <3>1. 1 \in Nat
      OBVIOUS
    <3>2. Up(SymDiff({p}, C), 1) = SymDiff(Up({p}, 1), Up(C, 1))
      BY <2>1, <3>1, UpAdds, Zenon
    <3> QED
      BY <2>2, <3>2
  <2>4. p + 1 \in 0 .. top /\ p \in 0 .. top /\ p \in 0 .. top - 1
    OBVIOUS
  <2>5. Remainder(SymDiff({p + 1}, Up(C, 1)), L) = SymDiff(L[p + 1], Remainder(Up(C, 1), L))
    BY <1>0, <2>4, RemainderTurns
  <2>6. L[p + 1] = Shift(L[p], D, w)
    BY <2>4, LeavingShifts
  <2>7. Remainder(Up(C, 1), L) = Shift(Remainder(C, L), D, w)
    BY <1>2
  <2>8. L[p] \in Registers(w) /\ Remainder(C, L) \in Registers(w)
    BY <1>0, <2>4, RemainderTakes DEF Leaving
  <2>9. Shift(SymDiff(L[p], Remainder(C, L)), D, w)
          = SymDiff(Shift(L[p], D, w), Shift(Remainder(C, L), D, w))
    BY <1>0, <2>8, ShiftAdds
  <2>10. Remainder(SymDiff({p}, C), L) = SymDiff(L[p], Remainder(C, L))
    BY <1>0, <2>4, RemainderTurns
  <2>11. Remainder(Up(SymDiff({p}, C), 1), L) = Shift(Remainder(SymDiff({p}, C), L), D, w)
    BY <2>3, <2>5, <2>6, <2>7, <2>9, <2>10
  <2> QED
    BY <2>1, <2>11
<1>3. A \in T
  <2> HIDE DEF T
  <2> QED
    BY <1>1, <1>2, Gather
<1> QED
  BY <1>3

\* What that says of sums that leave room for it.
LEMMA RemainderMoves ==
  ASSUME NEW L, NEW h, NEW D, NEW w, Leaving(L, h, D, w), 0 < h,
         NEW A \in SUBSET (0 .. h - 1)
  PROVE  Remainder(Up(A, 1), L) = Shift(Remainder(A, L), D, w)
<1>1. h \in Nat \ {0}
  BY DEF Leaving
<1>2. PICK m \in Nat : h = m + 1
  <2>1. h - 1 \in Nat /\ h = (h - 1) + 1
    BY <1>1
  <2> QED
    BY <2>1
<1>3. A \in SUBSET (0 .. m)
  BY <1>2
<1> QED
  BY <1>2, <1>3, RemainderShifts

\* To know what a sum moved leaves, it is enough to know what it left.
LEMMA RemainderOfUp ==
  ASSUME NEW L, NEW h, NEW D, NEW w, Leaving(L, h, D, w),
         NEW n \in Nat, NEW k \in Nat, n + k <= h, w - 1 <= n,
         NEW A \in SUBSET (0 .. n)
  PROVE  Remainder(Up(Remainder(A, L), k), L) = Remainder(Up(A, k), L)
<1> DEFINE R == Remainder(A, L)
           T == {i \in Nat : i <= k => Remainder(Up(R, i), L) = Remainder(Up(A, i), L)}
<1>0. w \in Nat \ {0} /\ h \in Nat
  BY DEF Leaving, Divisor
<1>1. A \in SUBSET (0 .. h)
  BY <1>0
<1>2. R \in Registers(w)
  BY <1>1, RemainderTakes
<1>3. R \in SUBSET (0 .. n) /\ R \in SUBSET (0 .. h)
  <2>1. \A x \in 0 .. w - 1 : x \in 0 .. n /\ x \in 0 .. h
    BY <1>0
  <2> HIDE DEF R
  <2> QED
    BY <1>2, <2>1 DEF Registers, Ones
<1>4. Remainder(R, L) = R
  <2> HIDE DEF R
  <2> QED
    BY <1>2, <1>3, RemainderOfLow
<1>5. 0 \in T
  <2>1. Up(R, 0) = R /\ Up(A, 0) = A
    <3> HIDE DEF R
    <3> QED
      BY <1>3, UpWithin
  <2> QED
    BY <1>4, <2>1
<1>6. ASSUME NEW i \in Nat, i \in T PROVE i + 1 \in T
  <2> SUFFICES ASSUME i + 1 <= k PROVE Remainder(Up(R, i + 1), L) = Remainder(Up(A, i + 1), L)
    OBVIOUS
  <2>1. Remainder(Up(R, i), L) = Remainder(Up(A, i), L)
    BY <1>6
  <2> DEFINE m == h - 1
  <2>2. m \in Nat /\ m + 1 = h /\ n + i <= m
    BY <1>0
  <2>3. ASSUME NEW B \in SUBSET (0 .. n)
        PROVE  Remainder(Up(B, i + 1), L) = Shift(Remainder(Up(B, i), L), D, w)
    <3>1. Up(B, i) \in SUBSET (0 .. n + i)
      BY UpWithin, Zenon
    <3>0. Up(Up(B, i), 1) = Up(B, i + 1)
      BY UpTwice
    <3>2. Up(B, i) \in SUBSET (0 .. m)
      <4> HIDE DEF m
      <4> QED
        BY <2>2, <3>1
    <3> HIDE DEF m
    <3>3. Remainder(Up(Up(B, i), 1), L) = Shift(Remainder(Up(B, i), L), D, w)
      BY <2>2, <3>2, RemainderShifts
    <3> QED
      BY <3>0, <3>3
  <2> HIDE DEF R
  <2> QED
    BY <1>3, <2>1, <2>3
<1>7. k \in T
  <2> HIDE DEF T
  <2> QED
    BY <1>5, <1>6, Climb
<1> QED
  BY <1>7

\* What is not nothing, and lies within a register, leaves something wherever it
\* is moved to.
LEMMA RemainderShows ==
  ASSUME NEW L, NEW h, NEW D, NEW w, Leaving(L, h, D, w), NEW k \in Nat, w - 1 + k <= h,
         NEW B \in Registers(w), B # {}
  PROVE  Remainder(Up(B, k), L) # {}
<1> DEFINE T == {i \in Nat : i <= k => Remainder(Up(B, i), L) # {}}
<1>0. w \in Nat \ {0} /\ h \in Nat /\ Divisor(D, w)
  BY DEF Leaving, Divisor
<1> DEFINE n == w - 1
<1>1. n \in Nat /\ B \in SUBSET (0 .. n)
  BY <1>0 DEF Registers, Ones
<1>2. 0 \in T
  <2>1. Up(B, 0) = B
    <3> HIDE DEF n
    <3> QED
      BY <1>1, UpWithin
  <2>2. B \in SUBSET (0 .. h)
    BY <1>0, <1>1
  <2>3. Remainder(B, L) = B
    BY <2>2, RemainderOfLow
  <2> QED
    BY <2>1, <2>3
<1>3. ASSUME NEW i \in Nat, i \in T PROVE i + 1 \in T
  <2> SUFFICES ASSUME i + 1 <= k PROVE Remainder(Up(B, i + 1), L) # {}
    OBVIOUS
  <2> DEFINE m == h - 1
             C == Up(B, i)
  <2>1. Remainder(C, L) # {}
    BY <1>3
  <2>2. m \in Nat /\ m + 1 = h /\ n + i <= m
    BY <1>0
  <2>3. C \in SUBSET (0 .. n + i) /\ Up(C, 1) = Up(B, i + 1)
    <3> HIDE DEF n
    <3>1. C \in SUBSET (0 .. n + i)
      BY <1>1, UpWithin, Zenon
    <3>2. Up(C, 1) = Up(B, i + 1)
      BY <1>1, UpTwice DEF C
    <3> QED
      BY <3>1, <3>2
  <2>4. C \in SUBSET (0 .. m) /\ C \in SUBSET (0 .. h)
    <3>1. \A x \in 0 .. n + i : x \in 0 .. m /\ x \in 0 .. h
      <4> HIDE DEF m, n
      <4> QED
        BY <1>0, <1>1, <2>2
    <3> HIDE DEF m, n, C
    <3> QED
      BY <2>3, <3>1
  <2> HIDE DEF m, C
  <2>5. Remainder(Up(C, 1), L) = Shift(Remainder(C, L), D, w)
    BY <2>2, <2>4, RemainderShifts
  <2>6. Remainder(C, L) \in Registers(w)
    BY <2>4, RemainderTakes
  <2> QED
    BY <1>0, <2>1, <2>3, <2>5, <2>6, ShiftKeeps
<1>4. k \in T
  <2> HIDE DEF T
  <2> QED
    BY <1>2, <1>3, Climb
<1> QED
  BY <1>4

-----------------------------------------------------------------------------
\* The recursion of PowerLeaves, and the two divisors.

\* Every power a message of this length can have is among those divided.
LEMMA PowersSuffice ==
  /\ HighestPower \in Nat
  /\ 63 <= HighestPower
  /\ 8 * MaxFrame + 31 <= HighestPower /\ 8 * MaxImage + 31 <= HighestPower
<1> DEFINE S == {4, MaxFrame, MaxImage}
           m == Max(S)
<1>1. MaxFrame \in Nat /\ MaxImage \in Nat
  BY ChecksumAssumption
<1>2. \E x \in S : \A y \in S : x >= y
  <2>1. CASE 4 >= MaxFrame /\ 4 >= MaxImage
    BY <1>1, <2>1
  <2>2. CASE MaxFrame >= 4 /\ MaxFrame >= MaxImage
    BY <1>1, <2>2
  <2>3. CASE MaxImage >= 4 /\ MaxImage >= MaxFrame
    BY <1>1, <2>3
  <2> QED
    BY <1>1, <2>1, <2>2, <2>3
<1>3. m \in S /\ \A y \in S : m >= y
  <2> HIDE DEF S
  <2> QED
    BY <1>2, Zenon DEF Max
<1>4. m \in Nat /\ m >= 4 /\ m >= MaxFrame /\ m >= MaxImage
  <2> HIDE DEF m
  <2> QED
    BY <1>1, <1>3
<1>5. HighestPower = 8 * m + 31
  BY DEF HighestPower
<1> HIDE DEF m
<1> QED
  BY <1>1, <1>4, <1>5

\* The recursion of PowerLeaves, up to n.
LeavesEquation(f, n, D, w) ==
  f = [p \in 0 .. n |->
         IF p < w THEN {p}
         ELSE LET up == Up(f[p - 1], 1)
              IN IF w \in up THEN SymDiff(up, D \cup {w}) ELSE up]

\* Taking the divisor with its highest power off takes that power off too.
LEMMA DividesOff ==
  ASSUME NEW w, NEW D, Divisor(D, w), NEW c \in Registers(w)
  PROVE  Shift(c, D, w) = IF w \in Up(c, 1) THEN SymDiff(Up(c, 1), D \cup {w}) ELSE Up(c, 1)
<1>1. w \in Nat \ {0} /\ D \subseteq 0 .. w - 1 /\ c \in SUBSET Int
  BY DEF Divisor, Registers, Ones
<1>2. w \in Up(c, 1) <=> w - 1 \in c
  BY <1>1, UpHas
<1>3. CASE w - 1 \in c
  <2>1. w \notin D
    BY <1>1
  <2>2. SymDiff(Up(c, 1), D \cup {w}) = SymDiff(Up(c, 1) \ {w}, D)
    BY <1>2, <1>3, <2>1 DEF SymDiff
  <2> QED
    BY <1>2, <1>3, <2>2 DEF Shift
<1>4. CASE w - 1 \notin c
  BY <1>2, <1>4 DEF Shift
<1> QED
  BY <1>3, <1>4

\* Its solution divides.
LEMMA LeavesDivide ==
  ASSUME NEW n \in Nat, NEW w, NEW D, Divisor(D, w), NEW f, LeavesEquation(f, n, D, w)
  PROVE  Leaving(f, n, D, w)
<1> DEFINE T == {i \in Nat : i <= n =>
                   /\ f[i] \in Registers(w)
                   /\ f[i] = IF i < w THEN {i} ELSE Shift(f[i - 1], D, w)}
<1>1. w \in Nat \ {0}
  BY DEF Divisor
<1>2. \A p \in 0 .. n : p < w => f[p] = {p} /\ {p} \in Registers(w)
  <2>1. \A p \in 0 .. n : p < w => f[p] = {p}
    BY DEF LeavesEquation
  <2>2. \A p \in 0 .. n : p < w => {p} \in Registers(w)
    BY <1>1 DEF Registers, Ones
  <2> QED
    BY <2>1, <2>2
<1>3. \A p \in 0 .. n : ~ (p < w) =>
        f[p] = IF w \in Up(f[p - 1], 1) THEN SymDiff(Up(f[p - 1], 1), D \cup {w})
               ELSE Up(f[p - 1], 1)
  BY DEF LeavesEquation
<1>4. 0 \in T
  <2>1. 0 \in 0 .. n /\ 0 < w
    BY <1>1
  <2> QED
    BY <1>2, <2>1
<1>5. ASSUME NEW i \in Nat, i \in T PROVE i + 1 \in T
  <2> SUFFICES ASSUME i + 1 <= n
               PROVE  /\ f[i + 1] \in Registers(w)
                      /\ f[i + 1] = IF i + 1 < w THEN {i + 1} ELSE Shift(f[(i + 1) - 1], D, w)
    OBVIOUS
  <2>1. i + 1 \in 0 .. n /\ (i + 1) - 1 = i
    OBVIOUS
  <2>2. CASE i + 1 < w
    BY <1>2, <2>1, <2>2
  <2>3. CASE ~ (i + 1 < w)
    <3>1. f[i] \in Registers(w)
      BY <1>5
    <3>2. f[i + 1] = Shift(f[i], D, w)
      <4>1. f[i + 1] = IF w \in Up(f[i], 1) THEN SymDiff(Up(f[i], 1), D \cup {w})
                       ELSE Up(f[i], 1)
        BY <1>3, <2>1, <2>3
      <4> QED
        BY <3>1, <4>1, DividesOff
    <3>3. Shift(f[i], D, w) \in Registers(w)
      BY <3>1, ShiftHas
    <3> QED
      BY <2>1, <2>3, <3>2, <3>3
  <2> QED
    BY <2>2, <2>3
<1>6. \A i \in Nat : i \in T
  <2> HIDE DEF T
  <2> QED
    BY <1>4, <1>5, Climb
<1>7. \A i \in 0 .. n : /\ f[i] \in Registers(w)
                        /\ f[i] = IF i < w THEN {i} ELSE Shift(f[i - 1], D, w)
  BY <1>6
<1>8. f \in [0 .. n -> Registers(w)]
  BY <1>7 DEF LeavesEquation
<1> QED
  BY <1>7, <1>8 DEF Leaving

\* It has one.
LEMMA LeavesExist ==
  ASSUME NEW w, NEW D, Divisor(D, w), NEW n \in Nat
  PROVE  \E f : LeavesEquation(f, n, D, w)
<1> DEFINE Rec(f, p) == IF p < w THEN {p}
                        ELSE LET up == Up(f[p - 1], 1)
                             IN IF w \in up THEN SymDiff(up, D \cup {w}) ELSE up
           T == {i \in Nat : \E f : f = [p \in 0 .. i |-> Rec(f, p)]}
<1>1. w \in Nat \ {0}
  BY DEF Divisor
<1>2. 0 \in T
  <2> DEFINE f == [p \in 0 .. 0 |-> {p}]
  <2>1. f = [p \in 0 .. 0 |-> Rec(f, p)]
    BY <1>1
  <2> HIDE DEF f, Rec
  <2> QED
    BY <2>1
<1>3. ASSUME NEW i \in Nat, i \in T PROVE i + 1 \in T
  <2>1. PICK f : f = [p \in 0 .. i |-> Rec(f, p)]
    BY <1>3
  <2> DEFINE g == [p \in 0 .. i + 1 |-> IF p = i + 1 THEN Rec(f, p) ELSE f[p]]
  <2>2. ASSUME NEW p \in 0 .. i + 1 PROVE g[p] = Rec(g, p)
    <3>1. Rec(g, p) = Rec(f, p)
      <4>1. CASE p < w
        BY <4>1
      <4>2. CASE ~ (p < w)
        <5>1. p - 1 \in 0 .. i
          BY <1>1, <4>2
        <5>2. g[p - 1] = f[p - 1]
          BY <5>1
        <5> HIDE DEF g
        <5> QED
          BY <5>2
      <4> QED
        BY <4>1, <4>2
    <3>2. CASE p = i + 1
      <4>1. g[p] = Rec(f, p)
        <5> HIDE DEF Rec
        <5> QED
          BY <3>2
      <4> QED
        BY <3>1, <4>1
    <3>3. CASE p # i + 1
      <4>1. p \in 0 .. i
        BY <3>3
      <4>2. f[p] = Rec(f, p)
        <5> HIDE DEF Rec
        <5> QED
          BY <2>1, <4>1
      <4>3. g[p] = f[p]
        <5> HIDE DEF Rec
        <5> QED
          BY <3>3
      <4> QED
        BY <3>1, <4>2, <4>3
    <3> QED
      BY <3>2, <3>3
  <2>3. g = [p \in 0 .. i + 1 |-> g[p]]
    OBVIOUS
  <2>4. g = [p \in 0 .. i + 1 |-> Rec(g, p)]
    <3> HIDE DEF g, Rec
    <3> QED
      BY <2>2, <2>3
  <2>5. \E q : q = [p \in 0 .. i + 1 |-> Rec(q, p)]
    <3> HIDE DEF g, Rec
    <3> QED
      BY <2>4
  <2>6. i + 1 \in Nat
    OBVIOUS
  <2> HIDE DEF Rec
  <2> QED
    BY <2>5, <2>6
<1>4. n \in T
  <2> HIDE DEF T
  <2> QED
    BY <1>2, <1>3, Climb
<1>5. PICK f : f = [p \in 0 .. n |-> Rec(f, p)]
  BY <1>4
<1>6. LeavesEquation(f, n, D, w)
  BY <1>5 DEF LeavesEquation
<1> QED
  BY <1>6

\* The table of the module divides, for every divisor.
LEMMA PowerLeavesDivides ==
  ASSUME NEW w, NEW D, Divisor(D, w)
  PROVE  Leaving(PowerLeaves(D, w), HighestPower, D, w)
<1>1. PowerLeaves(D, w) = CHOOSE f : LeavesEquation(f, HighestPower, D, w)
  BY DEF PowerLeaves, LeavesEquation
<1>2. \E f : LeavesEquation(f, HighestPower, D, w)
  BY PowersSuffice, LeavesExist
<1>3. LeavesEquation(PowerLeaves(D, w), HighestPower, D, w)
  BY <1>1, <1>2, Zenon
<1> QED
  BY <1>3, PowersSuffice, LeavesDivide

\* A register of 32 bits turned round, place by place.
LEMMA TurnedHas ==
  ASSUME NEW c \in Registers(32)
  PROVE  /\ Reverse32(c) \in Registers(32) /\ Reverse32(Reverse32(c)) = c
         /\ \A x \in Ones(32) : x \in Reverse32(c) <=> 31 - x \in c
<1>1. c \subseteq 0 .. 31
  BY DEF Registers, Ones
<1>2. Reverse32(c) \subseteq 0 .. 31
  BY <1>1 DEF Reverse32
<1>3. ASSUME NEW x \in 0 .. 31 PROVE x \in Reverse32(c) <=> 31 - x \in c
  <2>1. \A p \in c : x = 31 - p <=> p = 31 - x
    BY <1>1
  <2> QED
    BY <2>1 DEF Reverse32
<1>4. ASSUME NEW x \in 0 .. 31 PROVE x \in Reverse32(Reverse32(c)) <=> x \in c
  <2>1. \A p \in Reverse32(c) : x = 31 - p <=> p = 31 - x
    BY <1>2
  <2>2. x \in Reverse32(Reverse32(c)) <=> 31 - x \in Reverse32(c)
    <3> DEFINE d == Reverse32(c)
    <3>1. Reverse32(d) = {31 - p : p \in d}
      BY DEF Reverse32
    <3> HIDE DEF d
    <3> QED
      BY <2>1, <3>1 DEF d
  <2>3. 31 - x \in 0 .. 31 /\ 31 - (31 - x) = x
    OBVIOUS
  <2>4. 31 - x \in Reverse32(c) <=> x \in c
    BY <1>3, <2>3
  <2> QED
    BY <2>2, <2>4
<1>5. Reverse32(Reverse32(c)) \subseteq 0 .. 31
  <2> DEFINE d == Reverse32(c)
  <2>1. Reverse32(d) = {31 - p : p \in d}
    BY DEF Reverse32
  <2> HIDE DEF d
  <2> QED
    BY <1>2, <2>1 DEF d
<1>6. Ones(32) = 0 .. 31
  BY DEF Ones
<1>7. Reverse32(Reverse32(c)) = c
  BY <1>1, <1>4, <1>5
<1> QED
  BY <1>2, <1>3, <1>6, <1>7 DEF Registers

\* The two divisors.
LEMMA DivisorsOfBoth ==
  /\ Divisor(CRC16_POLY, 16) /\ Divisor(Reverse32(CRC32_POLYNOMIAL), 32)
  /\ Leaving(Leaves16, HighestPower, CRC16_POLY, 16)
  /\ Leaving(Leaves32, HighestPower, Reverse32(CRC32_POLYNOMIAL), 32)
  /\ CRC32_POLYNOMIAL \in Registers(32)
<1>1. Divisor(CRC16_POLY, 16)
  BY DEF Divisor, CRC16_POLY, Registers, Ones
<1> DEFINE P == {26, 23, 22, 16, 12, 11, 10, 8, 7, 5, 4, 2, 1, 0}
<1>2. P \in Registers(32)
  BY DEF Registers, Ones
<1>3. CRC32_POLYNOMIAL = Reverse32(P)
  BY DEF CRC32_POLYNOMIAL
<1>4. 0 \in P
  OBVIOUS
<1> HIDE DEF P
<1>5. CRC32_POLYNOMIAL \in Registers(32) /\ Reverse32(CRC32_POLYNOMIAL) = P
  BY <1>2, <1>3, TurnedHas
<1>6. Divisor(Reverse32(CRC32_POLYNOMIAL), 32)
  BY <1>2, <1>4, <1>5 DEF Divisor
<1> QED
  BY <1>1, <1>5, <1>6, PowerLeavesDivides DEF Leaves16, Leaves32

-----------------------------------------------------------------------------
\* crc16_update() divides.

\* Two loops that start alike and turn alike end alike.
LEMMA TurnsTo ==
  ASSUME NEW n \in Nat, NEW V, NEW turn, NEW g \in [0 .. n -> V], NEW f, f[0] = g[0],
         \A i \in 1 .. n : g[i] = turn[g[i - 1]],
         \A i \in 1 .. n : f[i - 1] \in V => f[i] = turn[f[i - 1]]
  PROVE  f[n] = g[n]
<1> DEFINE T == {i \in Nat : i <= n => f[i] = g[i]}
<1>1. 0 \in T
  OBVIOUS
<1>2. ASSUME NEW i \in Nat, i \in T PROVE i + 1 \in T
  <2> SUFFICES ASSUME i + 1 <= n PROVE f[i + 1] = g[i + 1]
    OBVIOUS
  <2>1. i + 1 \in 1 .. n /\ (i + 1) - 1 = i /\ i \in 0 .. n
    OBVIOUS
  <2>2. f[i] = g[i] /\ g[i] \in V
    BY <1>2, <2>1
  <2> QED
    BY <2>1, <2>2
<1>3. n \in T
  <2> HIDE DEF T
  <2> QED
    BY <1>1, <1>2, Climb
<1> QED
  BY <1>3

\* What a register leaves, moved up place by place.
LEMMA EightPlaces ==
  ASSUME NEW L, NEW h, NEW D, NEW w, Leaving(L, h, D, w), w + 7 <= h, NEW r \in Registers(w)
  PROVE  /\ Remainder(Up(r, 0), L) = r
         /\ \A i \in 0 .. 8 : Remainder(Up(r, i), L) \in Registers(w)
         /\ \A i \in 1 .. 8 : Remainder(Up(r, i), L) = Shift(Remainder(Up(r, i - 1), L), D, w)
<1> DEFINE n == w - 1
           m == h - 1
<1>1. w \in Nat \ {0} /\ h \in Nat
  BY DEF Leaving, Divisor
<1>2. n \in Nat /\ m \in Nat /\ m + 1 = h /\ n + 8 <= h /\ r \in SUBSET (0 .. n)
  BY <1>1 DEF Registers, Ones
<1> HIDE DEF n, m
<1>3. ASSUME NEW i \in 0 .. 8 PROVE Up(r, i) \in SUBSET (0 .. h)
  <2>1. Up(r, i) \in SUBSET (0 .. n + i)
    <3>1. i \in Nat
      OBVIOUS
    <3> QED
      BY <1>2, <3>1, UpWithin, Zenon
  <2>2. \A x \in 0 .. n + i : x \in 0 .. h
    BY <1>1, <1>2
  <2> QED
    BY <2>1, <2>2
<1>4. ASSUME NEW i \in 0 .. 8 PROVE Remainder(Up(r, i), L) \in Registers(w)
  BY <1>3, RemainderTakes
<1>5. Remainder(Up(r, 0), L) = r
  <2>1. Up(r, 0) = r
    BY <1>2, UpWithin
  <2>2. r \in SUBSET (0 .. h)
    BY <1>3, <2>1
  <2> QED
    BY <2>1, <2>2, RemainderOfLow
<1>6. ASSUME NEW i \in 1 .. 8
      PROVE  Remainder(Up(r, i), L) = Shift(Remainder(Up(r, i - 1), L), D, w)
  <2> DEFINE j == i - 1
             C == Up(r, j)
  <2>1. j \in 0 .. 7 /\ j \in Nat /\ j + 1 = i
    OBVIOUS
  <2>2. C \in SUBSET (0 .. m)
    <3>1. C \in SUBSET (0 .. n + j)
      <4> HIDE DEF j
      <4> QED
        BY <1>2, <2>1, UpWithin, Zenon
    <3>2. \A x \in 0 .. n + j : x \in 0 .. m
      BY <1>1, <1>2
    <3> HIDE DEF C, j
    <3> QED
      BY <3>1, <3>2
  <2>3. Up(C, 1) = Up(r, i)
    <3>1. Up(Up(r, j), 1) = Up(r, j + 1)
      <4> HIDE DEF j
      <4> QED
        BY <1>2, <2>1, UpTwice
    <3> QED
      BY <2>1, <3>1
  <2> HIDE DEF C
  <2>4. Remainder(Up(C, 1), L) = Shift(Remainder(C, L), D, w)
    <3>1. C \in SUBSET (0 .. h - 1) /\ 0 < h
      BY <1>1, <1>2, <2>2
    <3> QED
      BY <3>1, RemainderMoves
  <2> QED
    BY <2>3, <2>4 DEF C
<1> QED
  BY <1>4, <1>5, <1>6

\* A turn of crc16_update() divides by one power.
LEMMA Crc16TurnShifts ==
  ASSUME NEW c \in Registers(16)
  PROVE  Crc16Turn(c) = Shift(c, CRC16_POLY, 16)
<1>1. c \in SUBSET Int /\ 16 - 1 = 15
  BY DEF Registers, Ones
<1>2. 16 \in Up(c, 1) <=> 15 \in c
  BY <1>1, UpHas
<1>3. CASE 15 \in c
  BY <1>1, <1>3 DEF Shift, Crc16Turn
<1>4. CASE 15 \notin c
  <2>1. Up(c, 1) \ {16} = Up(c, 1)
    BY <1>2, <1>4
  <2> QED
    BY <1>1, <1>4, <2>1 DEF Shift, Crc16Turn
<1> QED
  BY <1>3, <1>4

\* crc16_update() takes a byte into the remainder.
LEMMA Crc16UpdateDivides ==
  ASSUME NEW crc \in Registers(16), NEW octet \in SUBSET (0 .. 7)
  PROVE  LET r == SymDiff(crc, Up(octet, 8))
         IN /\ r \in Registers(16)
            /\ Crc16Update(crc, octet) = Remainder(Up(r, 8), Leaves16)
<1> DEFINE r == SymDiff(crc, Up(octet, 8))
           Equation(f) == f = [i \in 0 .. 8 |-> IF i = 0 THEN r ELSE Crc16Turn(f[i - 1])]
           after == CHOOSE f : Equation(f)
           g == [i \in 0 .. 8 |-> Remainder(Up(r, i), Leaves16)]
           V == Registers(16)
           turn == [c \in V |-> Crc16Turn(c)]
<1>1. r \in V
  <2>1. 7 \in Nat /\ 8 \in Nat
    OBVIOUS
  <2>2. Up(octet, 8) \in SUBSET (0 .. 7 + 8)
    BY <2>1, UpWithin, Zenon
  <2>3. Up(octet, 8) \in V
    BY <2>2 DEF Registers, Ones
  <2> HIDE DEF V
  <2> QED
    BY <2>3, SumsOfRegisters DEF V
<1>2. Crc16Update(crc, octet) = after[8]
  BY DEF Crc16Update, Turns
<1> HIDE DEF r, V
<1>3. /\ g[0] = r /\ g \in [0 .. 8 -> V]
      /\ \A i \in 1 .. 8 : g[i] = Shift(g[i - 1], CRC16_POLY, 16)
  <2>1. 16 + 7 <= HighestPower
    BY PowersSuffice
  <2>2. Leaving(Leaves16, HighestPower, CRC16_POLY, 16)
    BY DivisorsOfBoth
  <2>3. r \in Registers(16)
    BY <1>1 DEF V
  <2>4. /\ Remainder(Up(r, 0), Leaves16) = r
        /\ \A i \in 0 .. 8 : Remainder(Up(r, i), Leaves16) \in Registers(16)
        /\ \A i \in 1 .. 8 : Remainder(Up(r, i), Leaves16)
                                = Shift(Remainder(Up(r, i - 1), Leaves16), CRC16_POLY, 16)
    BY <2>1, <2>2, <2>3, EightPlaces
  <2> QED
    BY <2>4 DEF V
<1>4. \A i \in 1 .. 8 : g[i] = Crc16Turn(g[i - 1])
  <2>1. \A i \in 1 .. 8 : g[i - 1] \in V
    BY <1>3
  <2> HIDE DEF g
  <2> QED
    BY <1>3, <2>1, Crc16TurnShifts DEF V
<1>5. Equation(g)
  <2>1. \A i \in 0 .. 8 : g[i] = IF i = 0 THEN r ELSE Crc16Turn(g[i - 1])
    <3> HIDE DEF g
    <3> QED
      BY <1>3, <1>4
  <2>2. g = [i \in 0 .. 8 |-> g[i]]
    OBVIOUS
  <2> HIDE DEF g
  <2> QED
    BY <2>1, <2>2
<1>6. Equation(after)
  <2> HIDE DEF Equation, g
  <2> QED
    BY <1>5
<1>7. after[8] = g[8]
  <2>1. after[0] = g[0] /\ \A i \in 1 .. 8 : after[i] = Crc16Turn(after[i - 1])
    <3> HIDE DEF after, g
    <3> QED
      BY <1>3, <1>6
  <2> HIDE DEF after, g
  <2>2. \A i \in 1 .. 8 : after[i - 1] \in V => after[i] = turn[after[i - 1]]
    BY <2>1
  <2>3. \A i \in 1 .. 8 : g[i] = turn[g[i - 1]]
    <3>1. \A i \in 1 .. 8 : g[i - 1] \in V
      BY <1>3
    <3> QED
      BY <1>4, <3>1
  <2>4. 8 \in Nat /\ g \in [0 .. 8 -> V]
    BY <1>3
  <2> HIDE DEF turn
  <2> QED
    BY <2>1, <2>2, <2>3, <2>4, TurnsTo
<1>8. g[8] = Remainder(Up(r, 8), Leaves16)
  OBVIOUS
<1> QED
  BY <1>1, <1>2, <1>7, <1>8 DEF r, V

-----------------------------------------------------------------------------
\* Messages.

\* Whether, with the bits of a byte sent in this order, the i-th bit of the bytes f is a one.
BitOf(f, order, i) == order[i % 8] \in f[i \div 8 + 1]

\* Message(), of the first n bytes of f: which of its bits are ones once its first
\* bits have been turned over.
OnesSent(f, n, order, w) == SymDiff({i \in 0 .. 8 * n - 1 : BitOf(f, order, i)}, Ones(w))

\* And the powers they stand for.
Polynomial(f, n, order, w) == {8 * n + w - 1 - i : i \in OnesSent(f, n, order, w)}

\* Whether the power x is in it.
Stands(f, n, order, w, x) ==
  LET i == 8 * n + w - 1 - x
  IN (i \in 0 .. 8 * n - 1 /\ BitOf(f, order, i)) # (i \in 0 .. w - 1)

\* What one more byte adds.
ByteOf(octet, order, w) == {w + 7 - j : j \in {i \in 0 .. 7 : order[i] \in octet}}

\* A message, power by power.
LEMMA PolynomialHas ==
  ASSUME NEW f, NEW n \in Nat, NEW order, NEW w \in {16, 32}
  PROVE  /\ Polynomial(f, n, order, w) \in SUBSET (0 .. 8 * n + w - 1)
         /\ \A x \in Int : x \in Polynomial(f, n, order, w) <=> Stands(f, n, order, w, x)
<1>3. \A x : x \in Polynomial(f, n, order, w) <=>
               \E i \in OnesSent(f, n, order, w) : x = 8 * n + w - 1 - i
  BY DEF Polynomial
<1> DEFINE ones == {i \in 0 .. 8 * n - 1 : BitOf(f, order, i)}
           sent == OnesSent(f, n, order, w)
           top == 8 * n + w - 1
<1>1. \A i : i \in sent <=> ((i \in 0 .. 8 * n - 1 /\ BitOf(f, order, i)) # (i \in 0 .. w - 1))
  <2>1. \A i : i \in sent <=> (i \in ones) # (i \in Ones(w))
    BY SumHas DEF OnesSent
  <2>2. \A i : i \in ones <=> i \in 0 .. 8 * n - 1 /\ BitOf(f, order, i)
    OBVIOUS
  <2> HIDE DEF ones, sent
  <2> QED
    BY <2>1, <2>2 DEF Ones
<1> HIDE DEF sent
<1>2. \A i \in sent : i \in Int /\ top - i \in 0 .. top
  <2> SUFFICES ASSUME NEW i \in sent PROVE i \in Int /\ top - i \in 0 .. top
    OBVIOUS
  <2>1. i \in 0 .. 8 * n - 1 \/ i \in 0 .. w - 1
    BY <1>1
  <2> QED
    BY <2>1
<1>4. top \in Int
  OBVIOUS
<1>8. \A x : x \in Polynomial(f, n, order, w) <=> \E i \in sent : x = top - i
  <2>1. \A i \in sent : 8 * n + w - 1 - i = top - i
    BY <1>2
  <2>2. \A x : x \in Polynomial(f, n, order, w) <=> \E i \in sent : x = 8 * n + w - 1 - i
    BY <1>3 DEF sent
  <2> HIDE DEF top
  <2> QED
    BY <2>1, <2>2
<1>5. ASSUME NEW x \in Int
      PROVE  x \in Polynomial(f, n, order, w) <=> top - x \in sent
  <2> HIDE DEF top
  <2>1. \A i \in sent : x = top - i <=> i = top - x
    BY <1>2, <1>4
  <2>2. x \in Polynomial(f, n, order, w) <=> \E i \in sent : x = top - i
    BY <1>8
  <2> QED
    BY <2>1, <2>2
<1>6. Polynomial(f, n, order, w) \in SUBSET (0 .. top)
  <2>1. ASSUME NEW x \in Polynomial(f, n, order, w) PROVE x \in 0 .. top
    <3>1. PICK i \in sent : x = top - i
      BY <1>8
    <3> HIDE DEF top
    <3> QED
      BY <1>2, <3>1
  <2> HIDE DEF top
  <2> QED
    BY <2>1
<1>7. ASSUME NEW x \in Int
      PROVE  x \in Polynomial(f, n, order, w) <=>
               ((top - x \in 0 .. 8 * n - 1 /\ BitOf(f, order, top - x))
                  # (top - x \in 0 .. w - 1))
  <2> HIDE DEF top
  <2> QED
    BY <1>1, <1>5
<1> QED
  BY <1>6, <1>7 DEF Stands

\* A byte more: the message moves up by eight and the byte comes in.
LEMMA PolynomialGrows ==
  ASSUME NEW f, NEW n \in Nat, NEW order, NEW w \in {16, 32}
  PROVE  Polynomial(f, n + 1, order, w)
           = SymDiff(Up(Polynomial(f, n, order, w), 8), ByteOf(f[n + 1], order, w))
<1> DEFINE P == Polynomial(f, n, order, w)
           Q == Polynomial(f, n + 1, order, w)
           B == ByteOf(f[n + 1], order, w)
           U == Up(P, 8)
<1>1. P \in SUBSET (0 .. 8 * n + w - 1) /\ Q \in SUBSET (0 .. 8 * (n + 1) + w - 1)
  <2> DEFINE m == n + 1
  <2>1. m \in Nat
    OBVIOUS
  <2>2. P \in SUBSET (0 .. 8 * n + w - 1)
    BY PolynomialHas
  <2> HIDE DEF m
  <2>3. Polynomial(f, m, order, w) \in SUBSET (0 .. 8 * m + w - 1)
    BY <2>1, PolynomialHas
  <2> QED
    BY <2>2, <2>3 DEF m
<1>2. U \subseteq Int /\ \A x \in Int : x \in U <=> x - 8 \in P
  <2>1. P \in SUBSET Int
    BY <1>1
  <2> HIDE DEF P
  <2> QED
    BY <2>1, UpHas
<1>3. /\ B \subseteq Int
      /\ \A x \in Int : x \in B <=> w + 7 - x \in 0 .. 7 /\ order[w + 7 - x] \in f[n + 1]
  <2> DEFINE J == {i \in 0 .. 7 : order[i] \in f[n + 1]}
  <2>1. B = {w + 7 - j : j \in J}
    BY DEF ByteOf
  <2>2. \A j \in J : j \in Int
    OBVIOUS
  <2>3. \A x : x \in J <=> x \in 0 .. 7 /\ order[x] \in f[n + 1]
    OBVIOUS
  <2> HIDE DEF J, B
  <2>4. B \subseteq Int
    BY <2>1, <2>2
  <2>5. \A x \in Int : x \in B <=> w + 7 - x \in J
    <3> TAKE x \in Int
    <3>1. \A j \in J : x = w + 7 - j <=> j = w + 7 - x
      BY <2>2
    <3> QED
      BY <2>1, <3>1
  <2> QED
    BY <2>3, <2>4, <2>5
<1>4. ASSUME NEW x \in Int PROVE x \in Q <=> x \in SymDiff(U, B)
  <2> DEFINE i == 8 * n + 8 + w - 1 - x
  <2>1. /\ 8 * (n + 1) + w - 1 - x = i /\ 8 * n + w - 1 - (x - 8) = i
        /\ w + 7 - x = i - 8 * n /\ i \in Int /\ x - 8 \in Int /\ 8 * (n + 1) - 1 = 8 * n + 7
    OBVIOUS
  <2> HIDE DEF i
  <2>2. x \in Q <=> ((i \in 0 .. 8 * n + 7 /\ BitOf(f, order, i)) # (i \in 0 .. w - 1))
    <3>1. x \in Q <=>
              ((8 * (n + 1) + w - 1 - x \in 0 .. 8 * (n + 1) - 1
                  /\ BitOf(f, order, 8 * (n + 1) + w - 1 - x))
                 # (8 * (n + 1) + w - 1 - x \in 0 .. w - 1))
      <4> DEFINE m == n + 1
      <4>1. m \in Nat
        OBVIOUS
      <4> HIDE DEF m
      <4>2. x \in Polynomial(f, m, order, w) <=>
              ((8 * m + w - 1 - x \in 0 .. 8 * m - 1 /\ BitOf(f, order, 8 * m + w - 1 - x))
                 # (8 * m + w - 1 - x \in 0 .. w - 1))
        BY <4>1, PolynomialHas DEF Stands
      <4> QED
        BY <4>2 DEF m
    <3> HIDE DEF Q
    <3> QED
      BY <2>1, <3>1
  <2>3. x - 8 \in P <=> ((i \in 0 .. 8 * n - 1 /\ BitOf(f, order, i)) # (i \in 0 .. w - 1))
    <3>1. x - 8 \in P <=>
              ((8 * n + w - 1 - (x - 8) \in 0 .. 8 * n - 1
                  /\ BitOf(f, order, 8 * n + w - 1 - (x - 8)))
                 # (8 * n + w - 1 - (x - 8) \in 0 .. w - 1))
      <4>1. PICK y \in Int : y = x - 8
        BY <2>1
      <4>2. y \in Polynomial(f, n, order, w) <=>
              ((8 * n + w - 1 - y \in 0 .. 8 * n - 1 /\ BitOf(f, order, 8 * n + w - 1 - y))
                 # (8 * n + w - 1 - y \in 0 .. w - 1))
        <5>1. y \in Polynomial(f, n, order, w) <=> Stands(f, n, order, w, y)
          BY PolynomialHas
        <5> QED
          BY <5>1, Zenon DEF Stands
      <4> QED
        BY <4>1, <4>2
    <3> HIDE DEF P
    <3> QED
      BY <2>1, <3>1
  <2>4. x \in B <=> i - 8 * n \in 0 .. 7 /\ order[i - 8 * n] \in f[n + 1]
    <3> HIDE DEF B
    <3> QED
      BY <1>3, <2>1
  <2>5. i - 8 * n \in 0 .. 7 => (BitOf(f, order, i) <=> order[i - 8 * n] \in f[n + 1])
    <3> SUFFICES ASSUME i - 8 * n \in 0 .. 7
                 PROVE  i % 8 = i - 8 * n /\ i \div 8 = n
      BY DEF BitOf
    <3> QED
      BY <2>1
  <2>6. i - 8 * n \in 0 .. 7 <=> i \in 0 .. 8 * n + 7 /\ ~ (i \in 0 .. 8 * n - 1)
    BY <2>1
  <2>7. i \in 0 .. 8 * n - 1 => i \in 0 .. 8 * n + 7
    BY <2>1
  <2>8. x \in SymDiff(U, B) <=> (x \in U) # (x \in B)
    BY SumHas
  <2>9. x \in U <=> x - 8 \in P
    BY <1>2
  <2> HIDE DEF P, Q, U, B
  <2> QED
    BY <2>2, <2>3, <2>4, <2>5, <2>6, <2>7, <2>8, <2>9
<1>5. Q \subseteq Int /\ SymDiff(U, B) \subseteq Int
  <2>1. Q \subseteq Int
    BY <1>1
  <2> HIDE DEF Q, U, B
  <2> QED
    BY <1>2, <1>3, <2>1 DEF SymDiff
<1> HIDE DEF P, Q, U, B
<1>6. Q = SymDiff(U, B)
  BY <1>4, <1>5
<1> QED
  BY <1>6 DEF P, Q, U, B

\* Room for a sum P to move up by k and for a sum B to be added.
Room(L, h, D, w, m, k, P, B) ==
  /\ Leaving(L, h, D, w) /\ m \in Nat /\ k \in Nat /\ m + k <= h /\ w - 1 <= m
  /\ P \in SUBSET (0 .. m) /\ B \in SUBSET (0 .. h)

\* In a sum, what has been divided once and moved up stands for what it was.
LEMMA RemainderOfSum ==
  ASSUME NEW L, NEW h, NEW D, NEW w, NEW m, NEW k, NEW P, NEW B, Room(L, h, D, w, m, k, P, B)
  PROVE  /\ Remainder(P, L) \in Registers(w)
         /\ Remainder(SymDiff(Up(Remainder(P, L), k), B), L) = Remainder(SymDiff(Up(P, k), B), L)
<1> DEFINE R == Remainder(P, L)
<1>0. /\ Leaving(L, h, D, w) /\ m \in Nat /\ k \in Nat /\ m + k <= h /\ w - 1 <= m
      /\ P \in SUBSET (0 .. m) /\ B \in SUBSET (0 .. h)
  BY DEF Room
<1>1. h \in Nat /\ w \in Nat \ {0} /\ \A x \in 0 .. m + k : x \in 0 .. h
  BY <1>0 DEF Leaving, Divisor
<1>2. P \in SUBSET (0 .. h)
  BY <1>0, <1>1
<1>3. R \in Registers(w)
  BY <1>0, <1>2, RemainderTakes
<1>4. R \in SUBSET (0 .. m)
  BY <1>0, <1>1, <1>3 DEF Registers, Ones
<1> HIDE DEF R
<1>5. Up(P, k) \in SUBSET (0 .. m + k) /\ Up(R, k) \in SUBSET (0 .. m + k)
  BY <1>0, <1>4, UpWithin, Zenon
<1>6. Up(P, k) \in SUBSET (0 .. h) /\ Up(R, k) \in SUBSET (0 .. h)
  BY <1>1, <1>5
<1>7. Remainder(Up(R, k), L) = Remainder(Up(P, k), L)
  BY <1>0, RemainderOfUp DEF R
<1>8. Remainder(SymDiff(Up(R, k), B), L) = SymDiff(Remainder(Up(R, k), L), Remainder(B, L))
  BY <1>0, <1>6, RemainderAdds
<1>9. Remainder(SymDiff(Up(P, k), B), L) = SymDiff(Remainder(Up(P, k), L), Remainder(B, L))
  BY <1>0, <1>6, RemainderAdds
<1> QED
  BY <1>3, <1>7, <1>8, <1>9 DEF R

\* So the remainder grows: it moves up, the byte comes in, and it is divided.
LEMMA RemainderGrows ==
  ASSUME NEW L, NEW h, NEW D, NEW w, w \in {16, 32}, Leaving(L, h, D, w),
         NEW f, NEW order, NEW n \in Nat, 8 * n + w + 7 <= h
  PROVE  /\ Remainder(Polynomial(f, n, order, w), L) \in Registers(w)
         /\ Remainder(Polynomial(f, n + 1, order, w), L)
              = Remainder(SymDiff(Up(Remainder(Polynomial(f, n, order, w), L), 8),
                                  ByteOf(f[n + 1], order, w)), L)
<1> DEFINE P == Polynomial(f, n, order, w)
           B == ByteOf(f[n + 1], order, w)
           m == 8 * n + w - 1
           k == 8
<1>1. h \in Nat /\ m \in Nat /\ m + k <= h /\ w - 1 <= m /\ k \in Nat
  BY DEF Leaving
<1>2. P \in SUBSET (0 .. m)
  BY PolynomialHas
<1>3. B \in SUBSET (0 .. h)
  <2>1. \A j \in 0 .. 7 : w + 7 - j \in 0 .. h
    BY <1>1
  <2> QED
    BY <2>1 DEF ByteOf
<1> HIDE DEF m, P, B, k
<1>4. /\ Remainder(P, L) \in Registers(w)
      /\ Remainder(SymDiff(Up(Remainder(P, L), k), B), L) = Remainder(SymDiff(Up(P, k), B), L)
  <2>1. Room(L, h, D, w, m, k, P, B)
    BY <1>1, <1>2, <1>3 DEF Room
  <2> QED
    BY <2>1, RemainderOfSum
<1>5. Polynomial(f, n + 1, order, w) = SymDiff(Up(P, 8), B)
  BY PolynomialGrows DEF P, B
<1> QED
  BY <1>4, <1>5 DEF P, B, k

-----------------------------------------------------------------------------
\* A frame, and what came of it.

\* A message depends on no byte behind its end.
LEMMA PolynomialOfPart ==
  ASSUME NEW f, NEW g, NEW n \in Nat, \A k \in 1 .. n : f[k] = g[k], NEW order, NEW w
  PROVE  Polynomial(f, n, order, w) = Polynomial(g, n, order, w)
<1>1. \A i \in 0 .. 8 * n - 1 : i \div 8 + 1 \in 1 .. n
  OBVIOUS
<1>2. \A i \in 0 .. 8 * n - 1 : BitOf(f, order, i) <=> BitOf(g, order, i)
  <2>1. \A i \in 0 .. 8 * n - 1 : f[i \div 8 + 1] = g[i \div 8 + 1]
    BY <1>1
  <2> QED
    BY <2>1 DEF BitOf
<1>3. {i \in 0 .. 8 * n - 1 : BitOf(f, order, i)} = {i \in 0 .. 8 * n - 1 : BitOf(g, order, i)}
  BY <1>2
<1>4. OnesSent(f, n, order, w) = OnesSent(g, n, order, w)
  BY <1>3 DEF OnesSent
<1> QED
  BY <1>4 DEF Polynomial

\* Of no bytes only the first value is left.
LEMMA EmptyMessage ==
  ASSUME NEW f, NEW order, NEW w \in {16, 32}
  PROVE  Polynomial(f, 0, order, w) = Ones(w)
<1>1. {i \in 0 .. 8 * 0 - 1 : BitOf(f, order, i)} = {}
  OBVIOUS
<1>2. OnesSent(f, 0, order, w) = Ones(w)
  BY <1>1, SumsOfRegisters DEF OnesSent
<1>3. Polynomial(f, 0, order, w) = {8 * 0 + w - 1 - i : i \in Ones(w)}
  BY <1>2 DEF Polynomial
<1>4. \A i \in 0 .. w - 1 : 8 * 0 + w - 1 - i = w - 1 - i /\ w - 1 - i \in 0 .. w - 1
                            /\ w - 1 - (w - 1 - i) = i
  OBVIOUS
<1>5. \A x : x \in {8 * 0 + w - 1 - i : i \in 0 .. w - 1} <=> x \in 0 .. w - 1
  <2>1. ASSUME NEW x \in 0 .. w - 1 PROVE \E i \in 0 .. w - 1 : x = 8 * 0 + w - 1 - i
    <3>1. w - 1 - x \in 0 .. w - 1 /\ x = 8 * 0 + w - 1 - (w - 1 - x)
      BY <1>4
    <3> QED
      BY <3>1
  <2>2. ASSUME NEW i \in 0 .. w - 1 PROVE 8 * 0 + w - 1 - i \in 0 .. w - 1
    BY <1>4
  <2> QED
    BY <2>1, <2>2
<1> QED
  BY <1>3, <1>5 DEF Ones

\* The order of a frame's bits.
MostFirst == [j \in 0 .. 7 |-> 7 - j]

\* Sixteen places are eight and eight.
LEMMA UpByBytes ==
  ASSUME NEW octet \in SUBSET (0 .. 7)
  PROVE  /\ Up(octet, 8) \in Registers(16) /\ Up(octet, 16) \in SUBSET (0 .. 23)
         /\ Up(Up(octet, 8), 8) = Up(octet, 16)
         /\ ByteOf(octet, MostFirst, 16) = Up(octet, 16)
<1>1. Up(octet, 8) \in Registers(16) /\ Up(octet, 16) \in SUBSET (0 .. 23)
  BY DEF Up, Registers, Ones
<1>2. Up(Up(octet, 8), 8) = Up(octet, 16)
  <2>1. \A p \in octet : (p + 8) + 8 = p + 16
    OBVIOUS
  <2>2. \A x : x \in Up(Up(octet, 8), 8) <=> \E p \in octet : x = (p + 8) + 8
    BY DEF Up
  <2>3. \A x : x \in Up(octet, 16) <=> \E p \in octet : x = p + 16
    BY DEF Up
  <2>4. \A x : x \in Up(Up(octet, 8), 8) <=> x \in Up(octet, 16)
    BY <2>1, <2>2, <2>3
  <2> QED
    BY <2>4
<1>3. ByteOf(octet, MostFirst, 16) = Up(octet, 16)
  <2>1. \A i \in 0 .. 7 : MostFirst[i] = 7 - i
    BY DEF MostFirst
  <2>2. \A x : x \in ByteOf(octet, MostFirst, 16)
                 <=> \E j \in 0 .. 7 : 7 - j \in octet /\ x = 16 + 7 - j
    BY <2>1 DEF ByteOf
  <2>3. \A x : x \in Up(octet, 16) <=> \E p \in octet : x = p + 16
    BY DEF Up
  <2>4. ASSUME NEW x \in ByteOf(octet, MostFirst, 16) PROVE x \in Up(octet, 16)
    <3>1. PICK j \in 0 .. 7 : 7 - j \in octet /\ x = 16 + 7 - j
      BY <2>2
    <3>2. x = (7 - j) + 16
      BY <3>1
    <3> QED
      BY <2>3, <3>1, <3>2
  <2>5. ASSUME NEW x \in Up(octet, 16) PROVE x \in ByteOf(octet, MostFirst, 16)
    <3>1. PICK p \in octet : x = p + 16
      BY <2>3
    <3>2. 7 - p \in 0 .. 7 /\ 7 - (7 - p) = p /\ x = 16 + 7 - (7 - p)
      BY <3>1
    <3> QED
      BY <2>2, <3>2
  <2> QED
    BY <2>4, <2>5
<1> QED
  BY <1>1, <1>2, <1>3

\* crc16_update() moves the remainder up by a byte and divides.
LEMMA Crc16UpdateGrows ==
  ASSUME NEW crc \in Registers(16), NEW octet \in SUBSET (0 .. 7)
  PROVE  /\ SymDiff(Up(crc, 8), Up(octet, 16)) \in SUBSET (0 .. HighestPower)
         /\ Crc16Update(crc, octet) \in Registers(16)
         /\ Crc16Update(crc, octet)
              = Remainder(SymDiff(Up(crc, 8), Up(octet, 16)), Leaves16)
<1> DEFINE r == SymDiff(crc, Up(octet, 8))
           t == SymDiff(Up(crc, 8), Up(octet, 16))
<1>1. r \in Registers(16) /\ Crc16Update(crc, octet) = Remainder(Up(r, 8), Leaves16)
  BY Crc16UpdateDivides
<1>2. Up(r, 8) = t
  <2>1. 15 \in Nat /\ 8 \in Nat
    OBVIOUS
  <2>2. crc \in SUBSET (0 .. 15) /\ Up(octet, 8) \in SUBSET (0 .. 15)
    BY UpByBytes DEF Registers, Ones
  <2>3. Up(r, 8) = SymDiff(Up(crc, 8), Up(Up(octet, 8), 8))
    BY <2>1, <2>2, UpAdds, Zenon
  <2> QED
    BY <2>3, UpByBytes
<1>3. t \in SUBSET (0 .. 23)
  <2>1. 15 \in Nat /\ 8 \in Nat /\ crc \in SUBSET (0 .. 15)
    BY DEF Registers, Ones
  <2>2. Up(crc, 8) \in SUBSET (0 .. 15 + 8)
    BY <2>1, UpWithin, Zenon
  <2>3. Up(crc, 8) \in SUBSET (0 .. 23)
    BY <2>2
  <2> QED
    BY <2>3, UpByBytes DEF SymDiff
<1>4. t \in SUBSET (0 .. HighestPower)
  <2>1. \A x \in 0 .. 23 : x \in 0 .. HighestPower
    BY PowersSuffice
  <2> HIDE DEF t
  <2> QED
    BY <1>3, <2>1
<1> HIDE DEF r, t
<1>5. Remainder(t, Leaves16) \in Registers(16)
  BY <1>4, DivisorsOfBoth, RemainderTakes
<1> QED
  BY <1>1, <1>2, <1>4, <1>5 DEF t

\* Where the damage stands in the message.
Damage(b, n) == {8 * n + (16 - q) : q \in b}

\* The sums of a frame and of what came of it.
FrameSums(s, f, c, r, b) ==
  /\ c \in Registers(16) /\ r \in Registers(16)
  /\ s # "frame" => b = {}
  /\ s = "frame" =>
       /\ Len(f) <= MaxFrame
       /\ b \in SUBSET (1 .. 8 * Len(f)) /\ \A p, q \in b : p - q < MaxBurst
       /\ c = Remainder(Polynomial(f, Len(f), MostFirst, 16), Leaves16)
       /\ SymDiff(c, r) = Remainder(Damage(b, Len(f)), Leaves16)

\* Damage, moved up by a byte.
LEMMA DamageGrows ==
  ASSUME NEW n \in Nat, NEW b \in SUBSET (1 .. 8 * n), NEW d \in SUBSET (0 .. 7),
         NEW more, more = {8 * (n + 1) - place : place \in d}
  PROVE  /\ Damage(b, n) \in SUBSET (0 .. 8 * n + 15)
         /\ Damage(b \cup more, n + 1) = SymDiff(Up(Damage(b, n), 8), Up(d, 16))
         /\ b \cup more \in SUBSET (1 .. 8 * (n + 1))
<1> DEFINE E == Damage(b, n)
           U == Up(E, 8)
           V == Up(d, 16)
           F == Damage(b \cup more, n + 1)
<1>1. \A x : x \in E <=> \E q \in b : x = 8 * n + (16 - q)
  BY DEF Damage
<1>2. \A x : x \in U <=> \E q \in b : x = 8 * n + (24 - q)
  <2>1. \A x : x \in U <=> \E y \in E : x = y + 8
    BY DEF Up
  <2>2. \A q \in b : (8 * n + (16 - q)) + 8 = 8 * n + (24 - q)
    OBVIOUS
  <2> HIDE DEF E, U
  <2> QED
    BY <1>1, <2>1, <2>2
<1>3. \A x : x \in V <=> \E p \in d : x = p + 16
  BY DEF Up
<1>4. \A x : x \in more <=> \E p \in d : x = 8 * (n + 1) - p
  OBVIOUS
<1>5. more \in SUBSET (8 * n + 1 .. 8 * n + 8)
  OBVIOUS
<1>6. \A x : x \in F <=> \E q \in b \cup more : x = 8 * (n + 1) + (16 - q)
  BY DEF Damage
<1>7. \A x : x \in F <=> x \in U \/ x \in V
  <2>1. \A q \in b : 8 * (n + 1) + (16 - q) = 8 * n + (24 - q)
    OBVIOUS
  <2>2. \A p \in d : 8 * (n + 1) + (16 - (8 * (n + 1) - p)) = p + 16
    OBVIOUS
  <2> HIDE DEF E, U, V, F
  <2>3. \A x : x \in F <=> \/ \E q \in b : x = 8 * n + (24 - q)
                          \/ \E q \in more : x = 8 * (n + 1) + (16 - q)
    BY <1>6, <2>1
  <2>4. \A x : (\E q \in more : x = 8 * (n + 1) + (16 - q)) <=> \E p \in d : x = p + 16
    <3>1. ASSUME NEW x, NEW q \in more, x = 8 * (n + 1) + (16 - q)
          PROVE  \E p \in d : x = p + 16
      <4>1. PICK p \in d : q = 8 * (n + 1) - p
        OBVIOUS
      <4>2. 8 * (n + 1) + (16 - q) = p + 16
        BY <2>2, <4>1
      <4> QED
        BY <3>1, <4>2
    <3>2. ASSUME NEW x, NEW p \in d, x = p + 16
          PROVE  \E q \in more : x = 8 * (n + 1) + (16 - q)
      <4>1. 8 * (n + 1) - p \in more
        OBVIOUS
      <4>2. x = 8 * (n + 1) + (16 - (8 * (n + 1) - p))
        BY <2>2, <3>2
      <4> QED
        BY <4>1, <4>2, Zenon
    <3> QED
      BY <3>1, <3>2, Zenon
  <2> QED
    BY <1>2, <1>3, <2>3, <2>4
<1>8. \A x : ~ (x \in U /\ x \in V)
  <2> SUFFICES ASSUME NEW x, x \in U, x \in V PROVE FALSE
    OBVIOUS
  <2>1. PICK q \in b : x = 8 * n + (24 - q)
    BY <1>2
  <2>2. PICK p \in d : x = p + 16
    BY <1>3
  <2> QED
    BY <2>1, <2>2
<1>9. F = SymDiff(U, V)
  <2>1. \A x : x \in SymDiff(U, V) <=> (x \in U) # (x \in V)
    BY SumHas
  <2> HIDE DEF E, U, V, F
  <2>2. \A x : x \in F <=> x \in SymDiff(U, V)
    BY <1>7, <1>8, <2>1
  <2> QED
    BY <2>2
<1>10. E \in SUBSET (0 .. 8 * n + 15)
  <2>1. \A q \in b : 8 * n + (16 - q) \in 0 .. 8 * n + 15
    OBVIOUS
  <2> HIDE DEF E
  <2> QED
    BY <1>1, <2>1
<1>11. b \cup more \in SUBSET (1 .. 8 * (n + 1))
  <2>1. \A x \in 8 * n + 1 .. 8 * n + 8 : x \in 1 .. 8 * (n + 1)
    OBVIOUS
  <2>2. \A x \in 1 .. 8 * n : x \in 1 .. 8 * (n + 1)
    OBVIOUS
  <2>3. \A x \in more : x \in 1 .. 8 * (n + 1)
    BY <1>5, <2>1
  <2> QED
    BY <2>2, <2>3
<1> QED
  BY <1>9, <1>10, <1>11

\* Within the longest burst damage leaves something.
LEMMA DamageShows ==
  ASSUME NEW n \in Nat, n <= MaxFrame, NEW b \in SUBSET (1 .. 8 * n), b # {},
         \A p, q \in b : p - q < MaxBurst
  PROVE  Remainder(Damage(b, n), Leaves16) # {}
<1> DEFINE E == Damage(b, n)
<1>1. \A x : x \in E <=> \E q \in b : x = 8 * n + (16 - q)
  BY DEF Damage
<1>2. E \in SUBSET (0 .. 8 * n + 15) /\ E # {}
  <2>1. \A q \in b : 8 * n + (16 - q) \in 0 .. 8 * n + 15
    OBVIOUS
  <2> HIDE DEF E
  <2>2. E \in SUBSET (0 .. 8 * n + 15)
    BY <1>1, <2>1
  <2>3. PICK q \in b : TRUE
    OBVIOUS
  <2>4. 8 * n + (16 - q) \in E
    BY <1>1, <2>3, Zenon
  <2> QED
    BY <2>2, <2>4
<1> HIDE DEF E
<1>3. PICK m \in E : \A x \in E : m <= x
  <2>1. E \in SUBSET Nat
    BY <1>2
  <2> QED
    BY <1>2, <2>1, LeastOf
<1>4. \A x \in E : x - m < 16 /\ x - m >= 0 /\ x \in Int
  <2> SUFFICES ASSUME NEW x \in E PROVE x - m < 16 /\ x - m >= 0 /\ x \in Int
    OBVIOUS
  <2>1. PICK q \in b : x = 8 * n + (16 - q)
    BY <1>1
  <2>2. PICK p \in b : m = 8 * n + (16 - p)
    BY <1>1, <1>3
  <2>3. p - q < MaxBurst /\ MaxBurst \in 0 .. 16
    BY ChecksumAssumption
  <2>4. x - m = p - q /\ m <= x
    BY <1>3, <2>1, <2>2
  <2>5. p \in Int /\ q \in Int /\ x \in Int
    BY <2>1
  <2> QED
    BY <1>3, <2>1, <2>2, <2>3, <2>4, <2>5
<1>5. m \in Nat /\ m <= 8 * n + 15
  BY <1>2, <1>3
<1> DEFINE B == {x - m : x \in E}
<1>6. B \in Registers(16) /\ B # {}
  <2>1. \A x \in E : x - m \in 0 .. 15
    BY <1>4, <1>5
  <2> QED
    BY <1>2, <2>1 DEF Registers, Ones
<1>7. Up(B, m) = E
  <2>1. \A x \in E : (x - m) + m = x
    BY <1>4, <1>5
  <2>2. \A y : y \in Up(B, m) <=> \E x \in E : y = (x - m) + m
    BY DEF Up
  <2> HIDE DEF B
  <2>3. \A y : y \in Up(B, m) <=> y \in E
    BY <2>1, <2>2
  <2> QED
    BY <2>3
<1>8. 16 - 1 + m <= HighestPower
  <2>1. MaxFrame \in Nat
    BY ChecksumAssumption
  <2> QED
    BY <1>5, <2>1, PowersSuffice
<1>9. Leaving(Leaves16, HighestPower, CRC16_POLY, 16)
  BY DivisorsOfBoth
<1> HIDE DEF B
<1>10. Remainder(Up(B, m), Leaves16) # {}
  BY <1>5, <1>6, <1>8, <1>9, RemainderShows
<1> QED
  BY <1>7, <1>10 DEF E

\* A byte more of a frame.
LEMMA FrameGrows ==
  ASSUME NEW f \in Seq(Octets), NEW c, NEW r, NEW b, FrameSums("frame", f, c, r, b),
         NEW octet \in Octets, NEW d \in Damages, Len(f) < MaxFrame,
         NEW more, more = {8 * (Len(f) + 1) - place : place \in d},
         \A p, q \in b \cup more : p - q < MaxBurst
  PROVE  FrameSums("frame", Append(f, octet), Crc16Update(c, octet),
                   Crc16Update(r, SymDiff(octet, d)), b \cup more)
<1> DEFINE n == Len(f)
           g == Append(f, octet)
           cc == Crc16Update(c, octet)
           rr == Crc16Update(r, SymDiff(octet, d))
           bb == b \cup more
           L == Leaves16
           H == HighestPower
<1>1. n \in Nat /\ n + 1 <= MaxFrame /\ MaxFrame \in Nat
  BY ChecksumAssumption
<1>2. octet \in SUBSET (0 .. 7) /\ d \in SUBSET (0 .. 7)
  BY ChecksumAssumption
<1>3. SymDiff(octet, d) \in SUBSET (0 .. 7)
  BY <1>2 DEF SymDiff
<1>4. Len(g) = n + 1 /\ g[n + 1] = octet /\ \A k \in 1 .. n : f[k] = g[k]
  BY AppendProperties
<1>5. /\ c \in Registers(16) /\ r \in Registers(16) /\ b \in SUBSET (1 .. 8 * n)
      /\ c = Remainder(Polynomial(f, n, MostFirst, 16), L)
      /\ SymDiff(c, r) = Remainder(Damage(b, n), L)
  BY DEF FrameSums
<1>6. /\ cc \in Registers(16) /\ rr \in Registers(16)
      /\ cc = Remainder(SymDiff(Up(c, 8), Up(octet, 16)), L)
      /\ rr = Remainder(SymDiff(Up(r, 8), Up(SymDiff(octet, d), 16)), L)
      /\ SymDiff(Up(c, 8), Up(octet, 16)) \in SUBSET (0 .. H)
      /\ SymDiff(Up(r, 8), Up(SymDiff(octet, d), 16)) \in SUBSET (0 .. H)
  BY <1>2, <1>3, <1>5, Crc16UpdateGrows
<1>7. Leaving(L, H, CRC16_POLY, 16) /\ 8 * n + 16 + 7 <= H /\ 16 \in {16, 32} /\ H \in Nat
  <2>1. 8 * n + 23 <= 8 * MaxFrame + 31
    BY <1>1
  <2> QED
    BY <1>1, <2>1, DivisorsOfBoth, PowersSuffice
<1> HIDE DEF n, g, cc, rr, L, H
<1>8. cc = Remainder(Polynomial(g, n + 1, MostFirst, 16), L)
  <2>1. Polynomial(f, n, MostFirst, 16) = Polynomial(g, n, MostFirst, 16)
    BY <1>1, <1>4, PolynomialOfPart
  <2>2. ByteOf(g[n + 1], MostFirst, 16) = Up(octet, 16)
    BY <1>2, <1>4, UpByBytes
  <2>3. Remainder(Polynomial(g, n + 1, MostFirst, 16), L)
          = Remainder(SymDiff(Up(Remainder(Polynomial(g, n, MostFirst, 16), L), 8),
                              ByteOf(g[n + 1], MostFirst, 16)), L)
    BY <1>1, <1>7, RemainderGrows
  <2> QED
    BY <1>5, <1>6, <2>1, <2>2, <2>3
<1>9. SymDiff(cc, rr) = Remainder(Damage(bb, n + 1), L) /\ bb \in SUBSET (1 .. 8 * (n + 1))
  <2> DEFINE e == SymDiff(c, r)
             E == Damage(b, n)
             x == SymDiff(Up(c, 8), Up(octet, 16))
             y == SymDiff(Up(r, 8), Up(SymDiff(octet, d), 16))
             m == 8 * n + 15
  <2>1. more = {8 * (n + 1) - place : place \in d}
    BY DEF n
  <2>2. /\ E \in SUBSET (0 .. m)
        /\ Damage(bb, n + 1) = SymDiff(Up(E, 8), Up(d, 16))
        /\ bb \in SUBSET (1 .. 8 * (n + 1))
    BY <1>1, <1>2, <1>5, <2>1, DamageGrows
  <2>3. SymDiff(cc, rr) = Remainder(SymDiff(x, y), L)
    <3> HIDE DEF x, y
    <3>1. SymDiff(cc, rr) = SymDiff(Remainder(x, L), Remainder(y, L))
      BY <1>6 DEF x, y
    <3>2. x \in SUBSET (0 .. H) /\ y \in SUBSET (0 .. H)
      BY <1>6 DEF x, y
    <3> QED
      BY <1>7, <3>1, <3>2, RemainderAdds
  <2>4. 15 \in Nat /\ 7 \in Nat /\ 8 \in Nat /\ 16 \in Nat /\ m \in Nat
    BY <1>1
  <2>5. c \in SUBSET (0 .. 15) /\ r \in SUBSET (0 .. 15)
    <3>1. c \in Registers(16) /\ r \in Registers(16)
      BY <1>5
    <3>2. Registers(16) = SUBSET (0 .. 15)
      BY DEF Registers, Ones
    <3> QED
      BY <3>1, <3>2
  <2>6. Up(e, 8) = SymDiff(Up(c, 8), Up(r, 8))
    BY <2>4, <2>5, UpAdds, Zenon
  <2>7. Up(SymDiff(octet, d), 16) = SymDiff(Up(octet, 16), Up(d, 16))
    BY <1>2, <2>4, UpAdds, Zenon
  <2>8. SymDiff(x, y) = SymDiff(Up(e, 8), Up(d, 16))
    <3>1. \A o, p, q, s : SymDiff(SymDiff(p, o), SymDiff(q, SymDiff(o, s)))
                            = SymDiff(SymDiff(p, q), s)
      BY DEF SymDiff
    <3>2. SymDiff(SymDiff(Up(c, 8), Up(octet, 16)),
                  SymDiff(Up(r, 8), SymDiff(Up(octet, 16), Up(d, 16))))
            = SymDiff(SymDiff(Up(c, 8), Up(r, 8)), Up(d, 16))
      BY <3>1
    <3> QED
      BY <2>6, <2>7, <3>2
  <2> DEFINE w == 16
             k == 8
             D == CRC16_POLY
             B == Up(d, 16)
  <2>9. m + k <= H /\ w - 1 <= m /\ Leaving(L, H, D, w) /\ k \in Nat
    BY <1>1, <1>7
  <2>10. B \in SUBSET (0 .. H)
    <3>1. \A z \in 0 .. 23 : z \in 0 .. H
      BY <1>1, <1>7
    <3> QED
      BY <1>2, <3>1, UpByBytes
  <2>11. e = Remainder(E, L)
    BY <1>5
  <2> HIDE DEF e, E, x, y, m, w, k, D, B
  <2>12. Room(L, H, D, w, m, k, E, B)
    BY <2>2, <2>4, <2>9, <2>10 DEF Room
  <2>13. Remainder(SymDiff(Up(Remainder(E, L), k), B), L) = Remainder(SymDiff(Up(E, k), B), L)
    BY <2>12, RemainderOfSum
  <2> QED
    BY <2>2, <2>3, <2>8, <2>11, <2>13 DEF k, B
<1> HIDE DEF bb
<1>10. \A p, q \in bb : p - q < MaxBurst
  BY DEF bb
<1>11. FrameSums("frame", g, cc, rr, bb)
  BY <1>1, <1>4, <1>6, <1>8, <1>9, <1>10 DEF FrameSums, L
<1> QED
  BY <1>11 DEF g, cc, rr, bb

\* The module's message of a frame.
LEMMA FrameMessage ==
  ASSUME fed \in Seq(Octets)
  PROVE  Reference16 = Remainder(Polynomial(fed, Len(fed), MostFirst, 16), Leaves16)
<1> DEFINE n == Len(fed)
           ones == {i \in 0 .. 8 * n - 1 : 7 - (i % 8) \in fed[i \div 8 + 1]}
<1>1. n \in Nat
  OBVIOUS
<1>2. \A i \in 0 .. 8 * n - 1 : i % 8 \in 0 .. 7
  BY <1>1
<1>3. \A i \in 0 .. 8 * n - 1 : MostFirst[i % 8] = 7 - (i % 8)
  BY <1>2 DEF MostFirst
<1>4. ones = {i \in 0 .. 8 * n - 1 : BitOf(fed, MostFirst, i)}
  BY <1>3 DEF BitOf
<1>5. SymDiff(ones, Ones(16)) = OnesSent(fed, n, MostFirst, 16)
  BY <1>4 DEF OnesSent
<1>6. Reference16 = Remainder({8 * n + 16 - 1 - i : i \in SymDiff(ones, Ones(16))}, Leaves16)
  BY Zenon DEF Reference16, Message
<1>7. {8 * n + 16 - 1 - i : i \in SymDiff(ones, Ones(16))} = Polynomial(fed, n, MostFirst, 16)
  BY <1>5 DEF Polynomial
<1> QED
  BY <1>6, <1>7

\* A frame with damage has a checksum of its own.
LEMMA FrameTells ==
  ASSUME fed \in Seq(Octets), FrameSums(subject, fed, crc16, crc16_received, burst)
  PROVE  /\ subject = "frame" => crc16 = Reference16
         /\ BurstsShow
<1>1. subject = "frame" => crc16 = Reference16
  BY FrameMessage DEF FrameSums
<1>2. ASSUME burst # {} PROVE crc16_received # crc16
  <2> DEFINE n == Len(fed)
  <2>1. /\ n \in Nat /\ n <= MaxFrame /\ burst \in SUBSET (1 .. 8 * n)
        /\ \A p, q \in burst : p - q < MaxBurst
        /\ SymDiff(crc16, crc16_received) = Remainder(Damage(burst, n), Leaves16)
    BY <1>2 DEF FrameSums
  <2> HIDE DEF n
  <2>2. Remainder(Damage(burst, n), Leaves16) # {}
    BY <1>2, <2>1, DamageShows
  <2>3. SymDiff(crc16, crc16) = {}
    BY SumsOfRegisters
  <2> QED
    BY <2>1, <2>2, <2>3
<1> QED
  BY <1>1, <1>2 DEF BurstsShow

\* The sums of a frame hold at the start.
LEMMA FrameStart == ChecksumStart => FrameSums(subject, fed, crc16, crc16_received, burst)
<1> SUFFICES ASSUME ChecksumStart PROVE FrameSums(subject, fed, crc16, crc16_received, burst)
  OBVIOUS
<1>1. /\ fed = << >> /\ burst = {} /\ crc16 = Ones(16) /\ crc16_received = Ones(16)
  BY DEF ChecksumStart
<1>2. Len(fed) = 0 /\ 0 <= MaxFrame
  BY <1>1, ChecksumAssumption
<1>3. Polynomial(fed, 0, MostFirst, 16) = Ones(16)
  BY EmptyMessage
<1>4. Leaving(Leaves16, HighestPower, CRC16_POLY, 16)
  BY DivisorsOfBoth
<1>5. Ones(16) \in Registers(16) /\ Ones(16) \in SUBSET (0 .. HighestPower)
  BY PowersSuffice DEF Registers, Ones
<1>6. Remainder(Ones(16), Leaves16) = Ones(16)
  BY <1>4, <1>5, RemainderOfLow
<1>7. Remainder({}, Leaves16) = {}
  BY <1>4, <1>5, RemainderTakes
<1>8. Damage({}, 0) = {} /\ SymDiff(Ones(16), Ones(16)) = {}
  BY SumsOfRegisters DEF Damage
<1> QED
  BY <1>1, <1>2, <1>3, <1>5, <1>6, <1>7, <1>8 DEF FrameSums

\* And every byte sent keeps them.
LEMMA FrameStep ==
  ASSUME fed \in Seq(Octets), FrameSums(subject, fed, crc16, crc16_received, burst),
         [ChecksumNext]_checksums
  PROVE  FrameSums(subject', fed', crc16', crc16_received', burst')
<1>1. ASSUME NEW octet \in Octets, NEW damage \in Damages, FeedFrame(octet, damage)
      PROVE  FrameSums(subject', fed', crc16', crc16_received', burst')
  <2>1. /\ subject = "frame" /\ subject' = "frame" /\ Len(fed) < MaxFrame
        /\ burst' = burst \cup Places(damage) /\ \A p, q \in burst' : p - q < MaxBurst
        /\ crc16' = Crc16Update(crc16, octet)
        /\ crc16_received' = Crc16Update(crc16_received, SymDiff(octet, damage))
        /\ fed' = Append(fed, octet)
    BY <1>1 DEF FeedFrame
  <2>2. Places(damage) = {8 * (Len(fed) + 1) - place : place \in damage}
    BY DEF Places
  <2>3. FrameSums("frame", fed, crc16, crc16_received, burst)
    BY <2>1
  <2>4. FrameSums("frame", Append(fed, octet), Crc16Update(crc16, octet),
                  Crc16Update(crc16_received, SymDiff(octet, damage)),
                  burst \cup Places(damage))
    BY <2>1, <2>2, <2>3, FrameGrows
  <2> QED
    BY <2>1, <2>4
<1>2. ASSUME NEW octet \in Octets, FeedImage(octet)
      PROVE  FrameSums(subject', fed', crc16', crc16_received', burst')
  BY <1>2 DEF FeedImage, frame, FrameSums
<1>3. CASE UNCHANGED checksums
  BY <1>3 DEF checksums, frame
<1> QED
  BY <1>1, <1>2, <1>3 DEF ChecksumNext

-----------------------------------------------------------------------------
\* crc32_compute() divides.

\* Turned round, a sum is the sum of its parts turned round.
LEMMA TurnedAdds ==
  ASSUME NEW a \in Registers(32), NEW b \in Registers(32)
  PROVE  Reverse32(SymDiff(a, b)) = SymDiff(Reverse32(a), Reverse32(b))
<1> DEFINE s == SymDiff(a, b)
           l == Reverse32(s)
           r == SymDiff(Reverse32(a), Reverse32(b))
<1>1. s \in Registers(32)
  BY SumsOfRegisters
<1>2. l \in Registers(32) /\ Reverse32(a) \in Registers(32) /\ Reverse32(b) \in Registers(32)
  BY <1>1, TurnedHas
<1>3. r \in Registers(32)
  BY <1>2, SumsOfRegisters
<1>4. ASSUME NEW x \in Ones(32) PROVE x \in l <=> x \in r
  <2>1. x \in l <=> 31 - x \in s
    BY <1>1, TurnedHas
  <2>2. (x \in Reverse32(a) <=> 31 - x \in a) /\ (x \in Reverse32(b) <=> 31 - x \in b)
    BY TurnedHas
  <2>3. 31 - x \in s <=> (31 - x \in a) # (31 - x \in b)
    BY SumHas
  <2>4. x \in r <=> (x \in Reverse32(a)) # (x \in Reverse32(b))
    BY SumHas
  <2> HIDE DEF s, l, r
  <2> QED
    BY <2>1, <2>2, <2>3, <2>4
<1> HIDE DEF s, l, r
<1>5. l = r
  BY <1>2, <1>3, <1>4 DEF Registers
<1> QED
  BY <1>5 DEF s, l, r

\* What stands a number of places down.
LEMMA DownHas ==
  ASSUME NEW c \in Registers(32), NEW n \in 0 .. 31
  PROVE  /\ Down(c, n) \in Registers(32)
         /\ \A x \in Ones(32) : x \in Down(c, n) <=> x + n \in c
<1>1. c \subseteq 0 .. 31 /\ Ones(32) = 0 .. 31
  BY DEF Registers, Ones
<1>2. \A x : x \in Down(c, n) <=> \E p \in c : p >= n /\ x = p - n
  BY DEF Down
<1>3. ASSUME NEW x \in Down(c, n) PROVE x \in 0 .. 31
  <2>1. PICK p \in c : p >= n /\ x = p - n
    BY <1>2
  <2> QED
    BY <1>1, <2>1
<1>4. ASSUME NEW x \in 0 .. 31 PROVE x \in Down(c, n) <=> x + n \in c
  <2>1. ASSUME x \in Down(c, n) PROVE x + n \in c
    <3>1. PICK p \in c : p >= n /\ x = p - n
      BY <1>2, <2>1
    <3>2. p = x + n
      BY <1>1, <3>1
    <3> QED
      BY <3>2
  <2>2. ASSUME x + n \in c PROVE x \in Down(c, n)
    <3>1. x + n >= n /\ x = (x + n) - n
      OBVIOUS
    <3> QED
      BY <1>2, <2>2, <3>1
  <2> QED
    BY <2>1, <2>2
<1> QED
  BY <1>1, <1>3, <1>4 DEF Registers

\* A turn of the table's loop is a turn of the division, turned round.
LEMMA EntryTurnShifts ==
  ASSUME NEW c \in Registers(32)
  PROVE  /\ EntryTurn(c) \in Registers(32)
         /\ Reverse32(EntryTurn(c)) = Shift(Reverse32(c), Reverse32(CRC32_POLYNOMIAL), 32)
<1> DEFINE Q == CRC32_POLYNOMIAL
           P == Reverse32(Q)
           e == EntryTurn(c)
           r == Reverse32(c)
           l == Reverse32(e)
           s == Shift(r, P, 32)
           low == Down(c, 1)
<1>0. Ones(32) = 0 .. 31 /\ c \subseteq 0 .. 31
  BY DEF Registers, Ones
<1>1. Q \in Registers(32) /\ Divisor(P, 32)
  BY DivisorsOfBoth
<1>2. low \in Registers(32) /\ \A x \in 0 .. 31 : x \in low <=> x + 1 \in c
  BY <1>0, DownHas
<1>3. e \in Registers(32)
      /\ \A x \in 0 .. 31 : x \in e <=> ((x + 1 \in c) # (0 \in c /\ x \in Q))
  <2>1. CASE 0 \in c
    <3>1. e = SymDiff(low, Q)
      BY <2>1 DEF EntryTurn
    <3>2. \A x : x \in e <=> (x \in low) # (x \in Q)
      BY <3>1, SumHas
    <3>3. e \in Registers(32)
      BY <1>1, <1>2, <3>1, SumsOfRegisters
    <3> HIDE DEF e, low, Q
    <3> QED
      BY <1>2, <2>1, <3>2, <3>3
  <2>2. CASE 0 \notin c
    <3>1. e = low
      BY <2>2 DEF EntryTurn
    <3> HIDE DEF e, low, Q
    <3> QED
      BY <1>2, <2>2, <3>1
  <2> QED
    BY <2>1, <2>2
<1>4. r \in Registers(32) /\ \A x \in 0 .. 31 : x \in r <=> 31 - x \in c
  BY <1>0, TurnedHas
<1>5. l \in Registers(32) /\ \A x \in 0 .. 31 : x \in l <=> 31 - x \in e
  <2> HIDE DEF e
  <2> QED
    BY <1>0, <1>3, TurnedHas
<1>6. P \in Registers(32) /\ \A x \in 0 .. 31 : x \in P <=> 31 - x \in Q
  <2> HIDE DEF Q
  <2> QED
    BY <1>0, <1>1, TurnedHas
<1>7. s \in Registers(32)
      /\ \A x \in 0 .. 31 : x \in s <=> ((x - 1 \in r) # (31 \in r /\ x \in P))
  <2> HIDE DEF r, P
  <2>1. s \in Registers(32)
        /\ \A x \in Ones(32) : x \in s <=> ((x - 1 \in r) # (32 - 1 \in r /\ x \in P))
    BY <1>1, <1>4, ShiftHas
  <2>2. 32 - 1 = 31
    OBVIOUS
  <2> HIDE DEF s
  <2> QED
    BY <1>0, <2>1, <2>2
<1> HIDE DEF Q, P, e, r, l, s, low
<1>8. ASSUME NEW x \in 0 .. 31 PROVE x \in l <=> x \in s
  <2>1. x \in l <=> ((31 - x + 1 \in c) # (0 \in c /\ 31 - x \in Q))
    <3>1. PICK y \in 0 .. 31 : y = 31 - x
      OBVIOUS
    <3>2. y + 1 = 31 - x + 1
      BY <3>1
    <3>3. x \in l <=> y \in e
      BY <1>5, <3>1
    <3>4. y \in e <=> ((y + 1 \in c) # (0 \in c /\ y \in Q))
      BY <1>3
    <3> QED
      BY <3>1, <3>2, <3>3, <3>4
  <2>2. x - 1 \in r <=> 31 - x + 1 \in c
    <3>1. CASE x = 0
      <4>1. x - 1 \notin 0 .. 31 /\ 31 - x + 1 \notin 0 .. 31
        BY <3>1
      <4>2. r \subseteq 0 .. 31
        BY <1>0, <1>4 DEF Registers
      <4> QED
        BY <1>0, <4>1, <4>2
    <3>2. CASE x # 0
      <4>1. PICK y \in 0 .. 31 : y = x - 1
        BY <3>2
      <4>2. 31 - y = 31 - x + 1
        BY <4>1
      <4> QED
        BY <1>4, <4>1, <4>2
    <3> QED
      BY <3>1, <3>2
  <2>3. 31 \in r <=> 0 \in c
    <3>1. 31 \in 0 .. 31 /\ 31 - 31 = 0
      OBVIOUS
    <3> QED
      BY <1>4, <3>1
  <2>4. x \in P <=> 31 - x \in Q
    BY <1>6
  <2>5. x \in s <=> ((x - 1 \in r) # (31 \in r /\ x \in P))
    BY <1>7
  <2> QED
    BY <2>1, <2>2, <2>3, <2>4, <2>5
<1>9. l = s
  BY <1>0, <1>5, <1>7, <1>8 DEF Registers
<1> QED
  BY <1>3, <1>9 DEF l, s, e, r, P, Q

\* An entry of the table is what its byte leaves, turned round.
LEMMA TableDivides ==
  ASSUME NEW octet \in SUBSET (0 .. 7)
  PROVE  /\ g_table[octet] \in Registers(32)
         /\ Reverse32(g_table[octet]) = Remainder(Up(Reverse32(octet), 8), Leaves32)
<1> DEFINE Equation(f) == f = [i \in 0 .. 8 |-> IF i = 0 THEN octet ELSE EntryTurn(f[i - 1])]
           after == CHOOSE f : Equation(f)
           r == Reverse32(octet)
           V == Registers(32)
           g == [i \in 0 .. 8 |-> Reverse32(Remainder(Up(r, i), Leaves32))]
           turn == [c \in V |-> EntryTurn(c)]
           P == Reverse32(CRC32_POLYNOMIAL)
<1>1. octet \in V
  BY DEF Registers, Ones
<1>2. r \in V /\ Reverse32(r) = octet
  BY <1>1, TurnedHas
<1>3. g_table[octet] = after[8]
  BY DEF g_table, Turns
<1> HIDE DEF r
<1>4. /\ Remainder(Up(r, 0), Leaves32) = r
      /\ \A i \in 0 .. 8 : Remainder(Up(r, i), Leaves32) \in V
      /\ \A i \in 1 .. 8 : Remainder(Up(r, i), Leaves32)
                              = Shift(Remainder(Up(r, i - 1), Leaves32), P, 32)
  <2>1. 32 + 7 <= HighestPower
    BY PowersSuffice
  <2>2. Leaving(Leaves32, HighestPower, P, 32)
    BY DivisorsOfBoth
  <2> HIDE DEF P
  <2> QED
    BY <1>2, <2>1, <2>2, EightPlaces
<1>5. /\ g[0] = octet /\ g \in [0 .. 8 -> V]
      /\ \A i \in 1 .. 8 : g[i] = EntryTurn(g[i - 1])
  <2>1. g[0] = octet
    BY <1>2, <1>4
  <2>2. \A i \in 0 .. 8 : g[i] \in V /\ Reverse32(g[i]) = Remainder(Up(r, i), Leaves32)
    BY <1>4, TurnedHas
  <2>3. g \in [0 .. 8 -> V]
    BY <2>2
  <2>4. ASSUME NEW i \in 1 .. 8 PROVE g[i] = EntryTurn(g[i - 1])
    <3>1. i - 1 \in 0 .. 8 /\ i \in 0 .. 8
      OBVIOUS
    <3>2. g[i - 1] \in V /\ Reverse32(g[i - 1]) = Remainder(Up(r, i - 1), Leaves32)
      BY <2>2, <3>1
    <3>3. g[i] = Reverse32(Remainder(Up(r, i), Leaves32))
      BY <3>1
    <3>4. Remainder(Up(r, i), Leaves32) = Shift(Remainder(Up(r, i - 1), Leaves32), P, 32)
      BY <1>4
    <3> HIDE DEF g
    <3>5. EntryTurn(g[i - 1]) \in V
          /\ Reverse32(EntryTurn(g[i - 1])) = Shift(Reverse32(g[i - 1]), P, 32)
      BY <3>2, EntryTurnShifts
    <3>6. Reverse32(Reverse32(EntryTurn(g[i - 1]))) = EntryTurn(g[i - 1])
      BY <3>5, TurnedHas
    <3> QED
      BY <3>2, <3>3, <3>4, <3>5, <3>6
  <2> HIDE DEF g
  <2> QED
    BY <2>1, <2>3, <2>4
<1>6. Equation(g)
  <2>1. \A i \in 0 .. 8 : g[i] = IF i = 0 THEN octet ELSE EntryTurn(g[i - 1])
    <3> HIDE DEF g
    <3> QED
      BY <1>5
  <2>2. g = [i \in 0 .. 8 |-> g[i]]
    OBVIOUS
  <2> HIDE DEF g
  <2> QED
    BY <2>1, <2>2
<1>7. Equation(after)
  <2> HIDE DEF Equation, g
  <2> QED
    BY <1>6
<1>8. after[8] = g[8]
  <2>1. after[0] = g[0] /\ \A i \in 1 .. 8 : after[i] = EntryTurn(after[i - 1])
    <3> HIDE DEF after, g
    <3> QED
      BY <1>5, <1>7
  <2> HIDE DEF after, g, V
  <2>2. \A i \in 1 .. 8 : after[i - 1] \in V => after[i] = turn[after[i - 1]]
    BY <2>1
  <2>3. \A i \in 1 .. 8 : g[i] = turn[g[i - 1]]
    <3>1. \A i \in 1 .. 8 : g[i - 1] \in V
      BY <1>5
    <3> QED
      BY <1>5, <3>1
  <2>4. 8 \in Nat /\ g \in [0 .. 8 -> V]
    BY <1>5
  <2> HIDE DEF turn
  <2> QED
    BY <2>1, <2>2, <2>3, <2>4, TurnsTo
<1>9. g[8] = Reverse32(Remainder(Up(r, 8), Leaves32)) /\ Remainder(Up(r, 8), Leaves32) \in V
  BY <1>4
<1> HIDE DEF g, after
<1> QED
  BY <1>3, <1>8, <1>9, TurnedHas DEF r

\* The order of a message whose bytes are sent the least significant bit first.
LeastFirst == [j \in 0 .. 7 |-> j]

\* A byte taken least first is the byte turned round in its register, eight places up.
LEMMA ByteTurned ==
  ASSUME NEW octet \in SUBSET (0 .. 7)
  PROVE  /\ octet \in Registers(32) /\ Reverse32(octet) \in Registers(32)
         /\ Up(Reverse32(octet), 8) = {39 - place : place \in octet}
         /\ ByteOf(octet, LeastFirst, 32) = Up(Reverse32(octet), 8)
         /\ ByteOf(octet, LeastFirst, 32) \in SUBSET (0 .. 39)
<1>1. octet \in Registers(32)
  BY DEF Registers, Ones
<1>2. Up(Reverse32(octet), 8) = {39 - place : place \in octet}
  <2>1. \A place \in octet : (31 - place) + 8 = 39 - place
    OBVIOUS
  <2> QED
    BY <2>1 DEF Up, Reverse32
<1>3. ByteOf(octet, LeastFirst, 32) = {39 - place : place \in octet}
  <2>1. \A i \in 0 .. 7 : LeastFirst[i] = i
    BY DEF LeastFirst
  <2>2. {i \in 0 .. 7 : LeastFirst[i] \in octet} = octet
    BY <2>1
  <2>3. \A j \in octet : 32 + 7 - j = 39 - j
    OBVIOUS
  <2> QED
    BY <2>2, <2>3 DEF ByteOf
<1>4. {39 - place : place \in octet} \in SUBSET (0 .. 39)
  OBVIOUS
<1> QED
  BY <1>1, <1>2, <1>3, <1>4, TurnedHas

\* What one more byte of an image makes of a register, moved up and divided.
Taken(c, octet) == SymDiff(Up(c, 8), ByteOf(octet, LeastFirst, 32))

\* Its powers all leave something.
LEMMA TakenWithin ==
  ASSUME NEW c \in Registers(32), NEW octet \in SUBSET (0 .. 7)
  PROVE  /\ Up(c, 8) \in SUBSET (0 .. 39)
         /\ Taken(c, octet) \in SUBSET (0 .. 39)
         /\ Taken(c, octet) \in SUBSET (0 .. HighestPower)
         /\ \A x \in Int : x \in Taken(c, octet) <=> (x - 8 \in c) # (39 - x \in octet)
         /\ Remainder(Taken(c, octet), Leaves32) \in Registers(32)
<1>1. 31 \in Nat /\ 8 \in Nat /\ c \in SUBSET (0 .. 31)
  BY DEF Registers, Ones
<1>2. Up(c, 8) \in SUBSET (0 .. 31 + 8) /\ \A x : x \in Up(c, 8) <=> x \in Int /\ x - 8 \in c
  BY <1>1, UpWithin, Zenon
<1>3. Up(c, 8) \in SUBSET (0 .. 39)
  BY <1>2
<1>4. Taken(c, octet) \in SUBSET (0 .. 39)
  BY <1>3, ByteTurned DEF Taken, SymDiff
<1>5. \A x \in 0 .. 39 : x \in 0 .. HighestPower
  BY PowersSuffice
<1>6. Taken(c, octet) \in SUBSET (0 .. HighestPower)
  BY <1>4, <1>5
<1>7. ASSUME NEW x \in Int PROVE x \in Taken(c, octet) <=> (x - 8 \in c) # (39 - x \in octet)
  <2>1. x \in ByteOf(octet, LeastFirst, 32) <=> 39 - x \in octet
    <3>1. x \in ByteOf(octet, LeastFirst, 32) <=> \E place \in octet : x = 39 - place
      BY ByteTurned
    <3>2. \A place \in octet : x = 39 - place <=> place = 39 - x
      OBVIOUS
    <3> QED
      BY <3>1, <3>2
  <2>2. x \in Taken(c, octet) <=> (x \in Up(c, 8)) # (x \in ByteOf(octet, LeastFirst, 32))
    BY SumHas DEF Taken
  <2> QED
    BY <1>2, <2>1, <2>2
<1>8. Remainder(Taken(c, octet), Leaves32) \in Registers(32)
  BY <1>6, DivisorsOfBoth, RemainderTakes
<1> QED
  BY <1>3, <1>4, <1>6, <1>7, <1>8

\* Soft() divides: what it leaves is the remainder of the register moved up with
\* the byte added.
LEMMA SoftDivides ==
  ASSUME NEW crc \in Registers(32), NEW octet \in SUBSET (0 .. 7)
  PROVE  /\ Soft(crc, octet) \in Registers(32)
         /\ Reverse32(Soft(crc, octet)) = Remainder(Taken(Reverse32(crc), octet), Leaves32)
<1> DEFINE low == SymDiff(crc, octet) \cap (0 .. 7)
           down == Down(crc, 8)
           T == Taken(Reverse32(crc), octet)
           A == Up(Reverse32(low), 8)
           K == Reverse32(down)
<1>1. low \in SUBSET (0 .. 7) /\ 8 \in 0 .. 31
  OBVIOUS
<1>2. /\ low \in Registers(32) /\ octet \in Registers(32)
      /\ A = {39 - place : place \in low} /\ A \in SUBSET (0 .. 39)
  <2> HIDE DEF low
  <2> QED
    BY <1>1, ByteTurned
<1>3. down \in Registers(32) /\ \A x \in Ones(32) : x \in down <=> x + 8 \in crc
  BY <1>1, DownHas
<1>4. /\ K \in Registers(32) /\ Reverse32(crc) \in Registers(32)
      /\ \A x \in Ones(32) : x \in K <=> 31 - x \in down
      /\ \A x \in Ones(32) : x \in Reverse32(crc) <=> 31 - x \in crc
  <2> HIDE DEF down
  <2> QED
    BY <1>3, TurnedHas
<1>5. T \in SUBSET (0 .. 39) /\ Remainder(T, Leaves32) \in Registers(32)
      /\ \A x \in Int : x \in T <=> (x - 8 \in Reverse32(crc)) # (39 - x \in octet)
  BY <1>4, TakenWithin
<1>6. K \in SUBSET (0 .. 39)
  BY <1>4 DEF Registers, Ones
<1>7. ASSUME NEW x \in 0 .. 39 PROVE x \in T <=> x \in SymDiff(A, K)
  <2>1. x \in SymDiff(A, K) <=> (x \in A) # (x \in K)
    BY SumHas
  <2>2. x \in A <=> 39 - x \in low
    <3>1. x \in A <=> \E place \in low : x = 39 - place
      BY <1>2
    <3>2. \A place \in low : x = 39 - place <=> place = 39 - x
      BY <1>1
    <3> HIDE DEF low, A
    <3> QED
      BY <3>1, <3>2
  <2>3. 39 - x \in low <=> ((39 - x \in crc) # (39 - x \in octet)) /\ 39 - x \in 0 .. 7
    <3>1. 39 - x \in SymDiff(crc, octet) <=> (39 - x \in crc) # (39 - x \in octet)
      BY SumHas
    <3> QED
      BY <3>1
  <2>4. /\ crc \subseteq 0 .. 31 /\ Reverse32(crc) \subseteq 0 .. 31
        /\ K \subseteq 0 .. 31 /\ Ones(32) = 0 .. 31
    BY <1>4 DEF Registers, Ones
  <2>5. x \in T <=> (x - 8 \in Reverse32(crc)) # (39 - x \in octet)
    BY <1>5
  <2> HIDE DEF T, A, K, low, down
  <2>6. CASE x >= 32
    <3>1. x \notin K
      BY <2>4, <2>6
    <3>2. x - 8 \in 0 .. 31 /\ 31 - (x - 8) = 39 - x /\ 39 - x \in 0 .. 7
      BY <2>6
    <3>3. x - 8 \in Reverse32(crc) <=> 39 - x \in crc
      BY <1>4, <2>4, <3>2
    <3> QED
      BY <2>1, <2>2, <2>3, <2>5, <3>1, <3>2, <3>3
  <2>7. CASE x < 32
    <3>1. 39 - x \notin octet /\ x \notin A
      BY <2>2, <2>3, <2>7
    <3>2. x \in 0 .. 31 /\ 31 - x \in 0 .. 31 /\ (31 - x) + 8 = 39 - x
      BY <2>7
    <3>3. x \in K <=> 39 - x \in crc
      BY <1>3, <1>4, <2>4, <3>2
    <3>4. x - 8 \in Reverse32(crc) <=> 39 - x \in crc
      <4>1. CASE x >= 8
        <5>1. x - 8 \in 0 .. 31 /\ 31 - (x - 8) = 39 - x
          BY <2>7, <4>1
        <5> QED
          BY <1>4, <2>4, <5>1
      <4>2. CASE x < 8
        <5>1. x - 8 \notin 0 .. 31 /\ 39 - x \notin 0 .. 31
          BY <4>2
        <5> QED
          BY <2>4, <5>1
      <4> QED
        BY <4>1, <4>2
    <3> QED
      BY <2>1, <2>5, <3>1, <3>3, <3>4
  <2> QED
    BY <2>6, <2>7
<1>8. T = SymDiff(A, K)
  <2>1. SymDiff(A, K) \in SUBSET (0 .. 39)
    BY <1>2, <1>6 DEF SymDiff
  <2> HIDE DEF T, A, K
  <2> QED
    BY <1>5, <1>7, <2>1
<1>9. \A B \in SUBSET (0 .. 39) : B \in SUBSET (0 .. HighestPower)
  BY PowersSuffice
<1>10. Remainder(T, Leaves32) = SymDiff(Remainder(A, Leaves32), K)
  <2> HIDE DEF T, A, K
  <2>1. A \in SUBSET (0 .. HighestPower) /\ K \in SUBSET (0 .. HighestPower)
    BY <1>2, <1>6, <1>9
  <2>2. Remainder(SymDiff(A, K), Leaves32) = SymDiff(Remainder(A, Leaves32), Remainder(K, Leaves32))
    BY <2>1, DivisorsOfBoth, RemainderAdds
  <2>3. Remainder(K, Leaves32) = K
    BY <2>1, <1>4, DivisorsOfBoth, RemainderOfLow
  <2> QED
    BY <1>8, <2>2, <2>3
<1>11. g_table[low] \in Registers(32) /\ Reverse32(g_table[low]) = Remainder(A, Leaves32)
  <2> HIDE DEF low
  <2> QED
    BY <1>1, TableDivides
<1>12. Soft(crc, octet) = SymDiff(g_table[low], down)
  BY DEF Soft
<1> HIDE DEF T, A, K, low, down
<1>13. SymDiff(g_table[low], down) \in Registers(32)
  BY <1>3, <1>11, SumsOfRegisters
<1>14. Reverse32(SymDiff(g_table[low], down)) = SymDiff(Reverse32(g_table[low]), Reverse32(down))
  BY <1>3, <1>11, TurnedAdds
<1> QED
  BY <1>10, <1>11, <1>12, <1>13, <1>14 DEF K, T

-----------------------------------------------------------------------------
\* So does the peripheral, by bytes and by words.

\* A unit as described takes a byte as the table does, turned round.
LEMMA ByteWritten ==
  ASSUME NEW c \in Registers(32), NEW octet \in SUBSET (0 .. 7)
  PROVE  WriteBits(AsDescribed, c, octet, 8, CRC_CR_REV_IN_BYTE)
           = Remainder(Taken(c, octet), Leaves32)
<1> DEFINE group == Group(CRC_CR_REV_IN_BYTE \cap AsDescribed.cr)
           read == {group * (place \div group) + (group - 1) - (place % group) : place \in octet}
<1>1. group = 8
  <2>1. AsDescribed.cr = {5, 6, 7}
    BY DEF AsDescribed
  <2>2. {5} \cap {5, 6, 7} = {5} /\ {5} # {}
    OBVIOUS
  <2> QED
    BY <2>1, <2>2 DEF Group, CRC_CR_REV_IN_BYTE
<1> HIDE DEF group
<1>2. read = {7 - place : place \in octet}
  <2>1. \A place \in octet : 8 * (place \div 8) + (8 - 1) - (place % 8) = 7 - place
    <3> TAKE place \in octet
    <3>1. place \in 0 .. 7
      OBVIOUS
    <3>2. place \div 8 = 0 /\ place % 8 = place
      BY <3>1
    <3> QED
      BY <3>1, <3>2
  <2> QED
    BY <1>1, <2>1
<1>3. Up(read, 32) = {39 - place : place \in octet}
  <2>1. \A place \in octet : (7 - place) + 32 = 39 - place
    OBVIOUS
  <2>2. \A x : x \in Up({7 - place : place \in octet}, 32) <=>
                \E place \in octet : x = (7 - place) + 32
    BY DEF Up
  <2> HIDE DEF read
  <2>3. \A x : x \in Up(read, 32) <=> \E place \in octet : x = 39 - place
    BY <1>2, <2>1, <2>2
  <2> QED
    BY <2>3
<1>4. SymDiff(Up(c, 8), Up(read, 32)) = Taken(c, octet)
  BY <1>3, ByteTurned DEF Taken
<1>5. WriteBits(AsDescribed, c, octet, 8, CRC_CR_REV_IN_BYTE)
        = Remainder(SymDiff(Up(c, 8), Up(read, 32)), Leaves32)
  BY DEF WriteBits, group
<1> QED
  BY <1>4, <1>5

\* And a word turned round as a whole.
LEMMA WordWritten ==
  ASSUME NEW c, NEW word \in Registers(32)
  PROVE  WriteWord(AsDescribed, c, word)
           = Remainder(SymDiff(Up(c, 32), Up(Reverse32(word), 32)), Leaves32)
<1> DEFINE group == Group(CRC_CR_REV_IN_WORD \cap AsDescribed.cr)
           read == {group * (place \div group) + (group - 1) - (place % group) : place \in word}
<1>1. group = 32
  <2>1. AsDescribed.cr = {5, 6, 7}
    BY DEF AsDescribed
  <2>2. {5, 6} \cap {5, 6, 7} = {5, 6} /\ {5, 6} # {} /\ {5, 6} # {5} /\ {5, 6} # {6}
    <3>1. 5 \in {5, 6} /\ 6 \in {5, 6} /\ 5 \notin {6} /\ 6 \notin {5}
      OBVIOUS
    <3> QED
      BY <3>1
  <2> QED
    BY <2>1, <2>2 DEF Group, CRC_CR_REV_IN_WORD
<1> HIDE DEF group
<1>2. read = Reverse32(word)
  <2>1. \A place \in word : 32 * (place \div 32) + (32 - 1) - (place % 32) = 31 - place
    <3> TAKE place \in word
    <3>1. place \in 0 .. 31
      BY DEF Registers, Ones
    <3>2. place \div 32 = 0 /\ place % 32 = place
      BY <3>1
    <3> QED
      BY <3>1, <3>2
  <2> QED
    BY <1>1, <2>1 DEF Reverse32
<1>3. WriteWord(AsDescribed, c, word) = Remainder(SymDiff(Up(c, 32), Up(read, 32)), Leaves32)
  BY DEF WriteWord, WriteBits, group
<1> QED
  BY <1>2, <1>3

\* Four bytes as a word, place by place.
LEMMA LittleEndianHas ==
  ASSUME NEW s, \A i \in 1 .. 4 : s[i] \in SUBSET (0 .. 7)
  PROVE  /\ LittleEndian(s) \in Registers(32)
         /\ \A y \in Ones(32) : y \in LittleEndian(s) <=> y % 8 \in s[y \div 8 + 1]
<1>1. \A y : y \in LittleEndian(s) <=> \E i \in 1 .. 4 : \E p \in s[i] : y = p + 8 * (i - 1)
  BY DEF LittleEndian, Up
<1>2. ASSUME NEW i \in 1 .. 4, NEW p \in s[i]
      PROVE  /\ p + 8 * (i - 1) \in 0 .. 31
             /\ (p + 8 * (i - 1)) % 8 = p /\ (p + 8 * (i - 1)) \div 8 = i - 1
  <2>1. p \in 0 .. 7
    OBVIOUS
  <2> QED
    BY <2>1
<1>3. LittleEndian(s) \in Registers(32)
  BY <1>1, <1>2 DEF Registers, Ones
<1>4. ASSUME NEW y \in 0 .. 31 PROVE y \in LittleEndian(s) <=> y % 8 \in s[y \div 8 + 1]
  <2>1. ASSUME y \in LittleEndian(s) PROVE y % 8 \in s[y \div 8 + 1]
    <3>1. PICK i \in 1 .. 4 : \E p \in s[i] : y = p + 8 * (i - 1)
      BY <1>1, <2>1
    <3>0. PICK p \in s[i] : y = p + 8 * (i - 1)
      BY <3>1
    <3>2. y % 8 = p /\ y \div 8 = i - 1
      BY <1>2, <3>0
    <3>3. y \div 8 + 1 = i
      BY <3>2
    <3> QED
      BY <3>2, <3>3
  <2>2. ASSUME y % 8 \in s[y \div 8 + 1] PROVE y \in LittleEndian(s)
    <3> DEFINE i == y \div 8 + 1
               p == y % 8
    <3>1. i \in 1 .. 4 /\ y = p + 8 * (i - 1)
      OBVIOUS
    <3>2. p \in s[i]
      BY <2>2
    <3> HIDE DEF i, p
    <3> QED
      BY <1>1, <3>1, <3>2
  <2> QED
    BY <2>1, <2>2
<1> QED
  BY <1>3, <1>4 DEF Ones

\* A register, 32 places up.
LEMMA UpByWord ==
  ASSUME NEW c \in Registers(32)
  PROVE  Up(c, 32) \in SUBSET (0 .. 63) /\ \A x \in Int : x \in Up(c, 32) <=> x - 32 \in c
<1>1. c \subseteq 0 .. 31
  BY DEF Registers, Ones
<1>2. \A x : x \in Up(c, 32) <=> \E p \in c : x = p + 32
  BY DEF Up
<1>3. ASSUME NEW x \in Int PROVE x \in Up(c, 32) <=> x - 32 \in c
  <2>1. \A p \in c : x = p + 32 <=> p = x - 32
    BY <1>1
  <2> QED
    BY <1>2, <2>1
<1> QED
  BY <1>1, <1>2, <1>3

\* What one more word adds to a message: its four bytes, turned round as one.
LEMMA PolynomialTakesWord ==
  ASSUME NEW f, NEW n \in Nat, NEW s,
         \A k \in 1 .. 4 : s[k] \in SUBSET (0 .. 7), \A k \in 1 .. 4 : s[k] = f[n + k]
  PROVE  /\ Up(Reverse32(LittleEndian(s)), 32) \in SUBSET (0 .. 63)
         /\ Polynomial(f, n + 4, LeastFirst, 32)
              = SymDiff(Up(Polynomial(f, n, LeastFirst, 32), 32),
                        Up(Reverse32(LittleEndian(s)), 32))
<1> DEFINE P == Polynomial(f, n, LeastFirst, 32)
           Q == Polynomial(f, n + 4, LeastFirst, 32)
           word == LittleEndian(s)
           turned == Reverse32(word)
           B == Up(turned, 32)
           U == Up(P, 32)
<1>1. 32 \in {16, 32} /\ n + 4 \in Nat
  OBVIOUS
<1>2. /\ P \in SUBSET (0 .. 8 * n + 32 - 1)
      /\ \A x \in Int : x \in P <=> Stands(f, n, LeastFirst, 32, x)
  BY <1>1, PolynomialHas, Zenon
<1>3. /\ Q \in SUBSET (0 .. 8 * (n + 4) + 32 - 1)
      /\ \A x \in Int : x \in Q <=> Stands(f, n + 4, LeastFirst, 32, x)
  BY <1>1, PolynomialHas, Zenon
<1>4. U \subseteq Int /\ \A x \in Int : x \in U <=> x - 32 \in P
  <2>1. P \in SUBSET Int
    BY <1>2
  <2>2. 32 \in Int
    OBVIOUS
  <2> HIDE DEF P
  <2> QED
    BY <2>1, <2>2, UpHas, Zenon
<1>5. word \in Registers(32) /\ \A y \in Ones(32) : y \in word <=> y % 8 \in s[y \div 8 + 1]
  BY LittleEndianHas
<1>6. turned \in Registers(32) /\ \A y \in Ones(32) : y \in turned <=> 31 - y \in word
  <2> HIDE DEF word
  <2> QED
    BY <1>5, TurnedHas
<1>7. B \in SUBSET (0 .. 63) /\ \A x \in Int : x \in B <=> x - 32 \in turned
  <2> HIDE DEF turned
  <2> QED
    BY <1>6, UpByWord
<1>8. ASSUME NEW x \in Int PROVE x \in Q <=> x \in SymDiff(U, B)
  <2> DEFINE i == 8 * n + 63 - x
             y == 63 - x
  <2>1. /\ 8 * (n + 4) + 32 - 1 - x = i /\ 8 * n + 32 - 1 - (x - 32) = i
        /\ i \in Int /\ y \in Int /\ i = 8 * n + y /\ x - 32 \in Int
        /\ 8 * (n + 4) - 1 = 8 * n + 31 /\ 32 - 1 = 31 /\ 31 - (x - 32) = y
    OBVIOUS
  <2>2. x \in Q <=> ((i \in 0 .. 8 * n + 31 /\ BitOf(f, LeastFirst, i)) # (i \in 0 .. 31))
    <3>1. x \in Q <=> Stands(f, n + 4, LeastFirst, 32, x)
      BY <1>3
    <3> HIDE DEF Q, i
    <3> QED
      BY <2>1, <3>1 DEF Stands
  <2>3. x - 32 \in P <=> ((i \in 0 .. 8 * n - 1 /\ BitOf(f, LeastFirst, i)) # (i \in 0 .. 31))
    <3>1. x - 32 \in P <=> Stands(f, n, LeastFirst, 32, x - 32)
      BY <1>2, <2>1
    <3> HIDE DEF P, i
    <3> QED
      BY <2>1, <3>1 DEF Stands
  <2>4. x \in B <=> y \in 0 .. 31 /\ y \in word
    <3>1. x - 32 \in 0 .. 31 <=> y \in 0 .. 31
      BY <2>1
    <3>2. turned \subseteq 0 .. 31 /\ Ones(32) = 0 .. 31
      BY <1>6 DEF Registers, Ones
    <3>3. x - 32 \in 0 .. 31 => (x - 32 \in turned <=> 31 - (x - 32) \in word)
      BY <1>6, <3>2
    <3> HIDE DEF turned, B, y, word
    <3> QED
      BY <1>7, <2>1, <3>1, <3>2, <3>3
  <2>5. y \in 0 .. 31 => (y \in word <=> BitOf(f, LeastFirst, i))
    <3> SUFFICES ASSUME y \in 0 .. 31 PROVE y \in word <=> BitOf(f, LeastFirst, i)
      OBVIOUS
    <3> HIDE DEF i, y
    <3>1. /\ i % 8 = y % 8 /\ i \div 8 + 1 = n + (y \div 8 + 1)
          /\ y \div 8 + 1 \in 1 .. 4 /\ y % 8 \in 0 .. 7
      BY <2>1
    <3>2. y \in word <=> y % 8 \in s[y \div 8 + 1]
      BY <1>5 DEF Ones
    <3>3. s[y \div 8 + 1] = f[n + (y \div 8 + 1)]
      BY <3>1
    <3>4. LeastFirst[y % 8] = y % 8
      BY <3>1 DEF LeastFirst
    <3> HIDE DEF word
    <3> QED
      BY <3>1, <3>2, <3>3, <3>4 DEF BitOf
  <2>6. y \in 0 .. 31 <=> i \in 0 .. 8 * n + 31 /\ ~ (i \in 0 .. 8 * n - 1)
    BY <2>1
  <2>7. i \in 0 .. 8 * n - 1 => i \in 0 .. 8 * n + 31
    BY <2>1
  <2>8. x \in SymDiff(U, B) <=> (x \in U) # (x \in B)
    BY SumHas
  <2>9. x \in U <=> x - 32 \in P
    BY <1>4
  <2> HIDE DEF P, Q, U, B, i, y, word
  <2> QED
    BY <2>2, <2>3, <2>4, <2>5, <2>6, <2>7, <2>8, <2>9
<1>9. Q \subseteq Int /\ SymDiff(U, B) \subseteq Int
  <2>1. Q \subseteq Int /\ B \subseteq Int
    BY <1>3, <1>7
  <2> HIDE DEF Q, U, B
  <2> QED
    BY <1>4, <2>1 DEF SymDiff
<1> HIDE DEF P, Q, U, B
<1>10. Q = SymDiff(U, B)
  BY <1>8, <1>9
<1> QED
  BY <1>7, <1>10 DEF P, Q, U, B

\* So the remainder grows by a word as by its four bytes.
LEMMA WordGrows ==
  ASSUME NEW f, NEW n \in Nat, 8 * n + 63 <= HighestPower, NEW s,
         \A k \in 1 .. 4 : s[k] \in SUBSET (0 .. 7), \A k \in 1 .. 4 : s[k] = f[n + k]
  PROVE  WriteWord(AsDescribed, Remainder(Polynomial(f, n, LeastFirst, 32), Leaves32),
                   LittleEndian(s))
           = Remainder(Polynomial(f, n + 4, LeastFirst, 32), Leaves32)
<1> DEFINE P == Polynomial(f, n, LeastFirst, 32)
           word == LittleEndian(s)
           B == Up(Reverse32(word), 32)
           L == Leaves32
           D == Reverse32(CRC32_POLYNOMIAL)
           m == 8 * n + 31
           w == 32
<1>1. /\ HighestPower \in Nat /\ m \in Nat /\ w \in Nat /\ m + w <= HighestPower /\ w - 1 <= m
      /\ \A x \in 0 .. 63 : x \in 0 .. HighestPower
  BY PowersSuffice
<1>2. P \in SUBSET (0 .. m)
  <2>1. 32 \in {16, 32} /\ 8 * n + 32 - 1 = m
    OBVIOUS
  <2> HIDE DEF P, m
  <2>2. P \in SUBSET (0 .. 8 * n + 32 - 1)
    BY <2>1, PolynomialHas, Zenon DEF P
  <2> QED
    BY <2>1, <2>2
<1>3. B \in SUBSET (0 .. 63) /\ Polynomial(f, n + 4, LeastFirst, 32) = SymDiff(Up(P, 32), B)
  BY PolynomialTakesWord
<1>4. word \in Registers(32)
  BY LittleEndianHas
<1> HIDE DEF m, P, word
<1>5. WriteWord(AsDescribed, Remainder(P, L), word)
        = Remainder(SymDiff(Up(Remainder(P, L), 32), B), L)
  BY <1>4, WordWritten
<1> HIDE DEF B
<1>6. B \in SUBSET (0 .. HighestPower)
  BY <1>1, <1>3
<1>7. Leaving(L, HighestPower, D, w)
  BY DivisorsOfBoth
<1> HIDE DEF L, D, w
<1>8. Remainder(SymDiff(Up(Remainder(P, L), w), B), L) = Remainder(SymDiff(Up(P, w), B), L)
  <2>1. Room(L, HighestPower, D, w, m, w, P, B)
    BY <1>1, <1>2, <1>6, <1>7 DEF Room
  <2> QED
    BY <2>1, RemainderOfSum
<1> QED
  BY <1>3, <1>5, <1>8 DEF P, L, B, word, w

\* Some of the first k numbers have a greatest, and the first j of them have j.
LEMMA GreatestOf ==
  ASSUME NEW k \in Nat
  PROVE  /\ \A S \in SUBSET (1 .. k) : S # {} => Max(S) \in S
         /\ \A j \in 1 .. k : Max(1 .. j) = j /\ (1 .. j) \ {j} = 1 .. j - 1
<1>1. ASSUME NEW S \in SUBSET (1 .. k), S # {} PROVE \E x \in S : \A y \in S : x >= y
  <2> DEFINE T == {k - x : x \in S}
  <2>0. \A x \in S : k - x \in Nat
    OBVIOUS
  <2>1. T \in SUBSET Nat /\ T # {} /\ \A x \in S : k - x \in T
    BY <1>1, <2>0
  <2>2. PICK t \in T : \A u \in T : t <= u
    <3> HIDE DEF T
    <3> QED
      BY <2>1, LeastOf
  <2>3. PICK x \in S : t = k - x
    OBVIOUS
  <2>4. ASSUME NEW y \in S PROVE x >= y
    <3>1. k - x <= k - y
      BY <2>1, <2>2, <2>3
    <3> QED
      BY <3>1
  <2> QED
    BY <2>4
<1>2. ASSUME NEW S \in SUBSET (1 .. k), S # {} PROVE Max(S) \in S /\ \A y \in S : Max(S) >= y
  <2>1. \E x \in S : \A y \in S : x >= y
    BY <1>1, <1>2
  <2> QED
    BY <2>1, Zenon DEF Max
<1>3. ASSUME NEW j \in 1 .. k PROVE Max(1 .. j) = j /\ (1 .. j) \ {j} = 1 .. j - 1
  <2> DEFINE S == 1 .. j
  <2>1. S \in SUBSET (1 .. k) /\ j \in S /\ \A x \in S : x <= j /\ x \in Int
    OBVIOUS
  <2> HIDE DEF S
  <2> DEFINE m == Max(S)
  <2>2. m \in S /\ m >= j
    BY <1>2, <2>1
  <2> HIDE DEF m
  <2>3. m = j
    BY <2>1, <2>2
  <2> QED
    BY <2>3 DEF S, m
<1> QED
  BY <1>2, <1>3

\* What one byte of s does to a register.
ByteTakes(s) ==
  [i \in 1 .. Len(s) |-> [d \in Registers(32) |-> Remainder(Taken(d, s[i]), Leaves32)]]

\* The order of a fold over a sequence.
LastOf(k) == [S \in SUBSET (1 .. k) |-> Max(S)]

\* Writing bytes is a fold over them, the last one taken last.
LEMMA WriteBytesFolds ==
  ASSUME NEW c \in Registers(32), NEW s \in Seq(SUBSET (0 .. 7))
  PROVE  \E it : /\ InOrder(it, 1 .. Len(s), Registers(32), c, LastOf(Len(s)), ByteTakes(s))
                 /\ WriteBytes(AsDescribed, c, s) = it[1 .. Len(s)]
<1> DEFINE k == Len(s)
           N == 1 .. k
           V == Registers(32)
           op == ByteTakes(s)
           take == LastOf(k)
           Step(d, i) == WriteBits(AsDescribed, d, s[i], 8, CRC_CR_REV_IN_BYTE)
           Equation(f) == f = [S \in SUBSET DOMAIN s |->
             IF S = {} THEN c
             ELSE WriteBits(AsDescribed, f[S \ {Max(S)}], s[Max(S)], 8, CRC_CR_REV_IN_BYTE)]
           it == CHOOSE f : Equation(f)
<1>1. WriteBytes(AsDescribed, c, s) = it[DOMAIN s]
  BY DEF WriteBytes, FoldLeft, MapThenFoldSet
<1>2. k \in Nat /\ DOMAIN s = N /\ \A i \in N : s[i] \in SUBSET (0 .. 7)
  OBVIOUS
<1>3. \A i \in N : \A d \in V : op[i][d] = Step(d, i) /\ op[i][d] \in V
  <2> TAKE i \in N
  <2> TAKE d \in V
  <2>1. op[i][d] = Remainder(Taken(d, s[i]), Leaves32)
    BY DEF ByteTakes
  <2>2. s[i] \in SUBSET (0 .. 7)
    BY <1>2
  <2>3. Step(d, i) = Remainder(Taken(d, s[i]), Leaves32)
    BY <2>2, ByteWritten
  <2>4. Remainder(Taken(d, s[i]), Leaves32) \in V
    BY <2>2, TakenWithin
  <2> QED
    BY <2>1, <2>3, <2>4
<1>4. \A S \in SUBSET N : S # {} => take[S] = Max(S) /\ take[S] \in S
  <2> HIDE DEF k
  <2>1. \A S \in SUBSET N : take[S] = Max(S)
    BY DEF LastOf
  <2> QED
    BY <1>2, <2>1, GreatestOf
<1>5. op \in [N -> [V -> V]]
  <2>1. \A i \in N : op[i] = [d \in V |-> op[i][d]]
    BY DEF ByteTakes
  <2>2. op = [i \in N |-> op[i]]
    BY DEF ByteTakes
  <2> HIDE DEF op, V, N
  <2>3. \A i \in N : op[i] \in [V -> V]
    BY <1>3, <2>1
  <2> QED
    BY <2>2, <2>3
<1>6. IsFiniteSet(N)
  BY <1>2, FS_Interval
<1>7. Foldable(N, V, c, take, op)
  <2> HIDE DEF N, V, op, take
  <2> QED
    BY <1>4, <1>5, <1>6 DEF Foldable, V
<1> HIDE DEF k, N, V, op, take
<1>8. \E f : Equation(f)
  <2>1. PICK f \in [SUBSET N -> V] : FoldsTo(f, N, V, c, take, op)
    BY <1>7, FoldExists
  <2>2. ASSUME NEW S \in SUBSET N
        PROVE  f[S] = IF S = {} THEN c
             ELSE WriteBits(AsDescribed, f[S \ {Max(S)}], s[Max(S)], 8, CRC_CR_REV_IN_BYTE)
    <3>1. CASE S = {}
      BY <2>1, <3>1 DEF FoldsTo
    <3>2. CASE S # {}
      <4> DEFINE x == take[S]
      <4>1. x = Max(S) /\ x \in N
        BY <1>4, <3>2
      <4>2. f[S \ {x}] \in V
        BY <2>1
      <4>3. f[S] = op[x][f[S \ {x}]]
        BY <2>1, <3>2, <4>2 DEF FoldsTo
      <4>4. f[S] = Step(f[S \ {x}], x)
        <5> HIDE DEF x, Step
        <5> QED
          BY <1>3, <4>1, <4>2, <4>3
      <4> QED
        BY <3>2, <4>1, <4>4
    <3> QED
      BY <3>1, <3>2
  <2>3. f = [S \in SUBSET N |-> f[S]]
    BY <2>1
  <2>4. Equation(f)
    BY <1>2, <2>2, <2>3
  <2> HIDE DEF Equation
  <2> QED
    BY <2>4
<1>9. Equation(it)
  <2> HIDE DEF Equation
  <2> QED
    BY <1>8
<1>10. FoldsTo(it, N, V, c, take, op)
  <2> HIDE DEF it
  <2>1. it = [S \in SUBSET N |-> it[S]] /\ it[{}] = c
    BY <1>2, <1>9
  <2>2. ASSUME NEW S \in SUBSET N, S # {}, it[S \ {take[S]}] \in V
        PROVE  it[S] = op[take[S]][it[S \ {take[S]}]]
    <3> DEFINE x == take[S]
    <3>1. x = Max(S) /\ x \in N
      BY <1>4, <2>2
    <3>2. it[S] = Step(it[S \ {x}], x)
      BY <1>2, <1>9, <2>2, <3>1
    <3> HIDE DEF x, Step
    <3> QED
      BY <1>3, <2>2, <3>1, <3>2 DEF x
  <2> QED
    BY <2>1, <2>2 DEF FoldsTo
<1> HIDE DEF it
<1>11. InOrder(it, N, V, c, take, op)
  BY <1>7, <1>10, FoldTyped
<1> QED
  BY <1>1, <1>2, <1>11 DEF N, V, op, take, k

\* Each byte is written on what the ones before it left.
LEMMA WriteBytesFollow ==
  ASSUME NEW c \in Registers(32), NEW s \in Seq(SUBSET (0 .. 7))
  PROVE  \E g : /\ g[0] = c
                /\ \A j \in 1 .. Len(s) :
                     g[j - 1] \in Registers(32) => g[j] = Remainder(Taken(g[j - 1], s[j]), Leaves32)
                /\ WriteBytes(AsDescribed, c, s) = g[Len(s)]
<1> DEFINE k == Len(s)
           N == 1 .. k
           V == Registers(32)
           op == ByteTakes(s)
           take == LastOf(k)
<1>1. PICK it : InOrder(it, N, V, c, take, op) /\ WriteBytes(AsDescribed, c, s) = it[N]
  BY WriteBytesFolds
<1>2. /\ k \in Nat /\ it \in [SUBSET N -> V] /\ it[{}] = c
      /\ \A S \in SUBSET N : S # {} => it[S] = op[take[S]][it[S \ {take[S]}]]
  <2>1. k \in Nat
    OBVIOUS
  <2>2. InOrder(it, N, V, c, take, op)
    BY <1>1
  <2> HIDE DEF k, N, V, take, op
  <2> QED
    BY <2>1, <2>2 DEF InOrder
<1> DEFINE g == [j \in 0 .. k |-> it[1 .. j]]
<1>3. g[0] = c
  <2>1. 1 .. 0 = {} /\ 0 \in 0 .. k
    BY <1>2
  <2> HIDE DEF k
  <2> QED
    BY <1>2, <2>1
<1>4. ASSUME NEW j \in N, g[j - 1] \in V PROVE g[j] = Remainder(Taken(g[j - 1], s[j]), Leaves32)
  <2> DEFINE S == 1 .. j
             before == 1 .. j - 1
  <2>0. S \in SUBSET N /\ S # {} /\ j \in 0 .. k /\ j - 1 \in 0 .. k
    <3>1. k \in Nat /\ j \in Int /\ 1 <= j /\ j <= k
      BY <1>2
    <3> HIDE DEF k
    <3>2. j \in S /\ \A x \in S : x \in 1 .. k
      BY <3>1
    <3>3. j \in 0 .. k /\ j - 1 \in 0 .. k
      BY <3>1
    <3> HIDE DEF S
    <3> QED
      BY <3>2, <3>3
  <2>1. /\ S \in SUBSET N /\ S # {} /\ j \in 0 .. k /\ j - 1 \in 0 .. k
        /\ g[j] = it[S] /\ g[j - 1] = it[before]
    <3> HIDE DEF k, N
    <3> QED
      BY <2>0
  <2>2. take[S] = j /\ S \ {j} = before
    <3>1. Max(S) = j /\ S \ {j} = before
      <4> HIDE DEF k
      <4> QED
        BY <1>2, GreatestOf
    <3>2. take[S] = Max(S)
      <4> HIDE DEF S, k
      <4> QED
        BY <2>1 DEF LastOf
    <3> QED
      BY <3>1, <3>2
  <2>3. it[S] = op[j][it[before]]
    <3> HIDE DEF S, before, N, op, take
    <3> QED
      BY <1>2, <2>1, <2>2
  <2>4. op[j][g[j - 1]] = Remainder(Taken(g[j - 1], s[j]), Leaves32)
    <3> HIDE DEF g
    <3> QED
      BY <1>4 DEF ByteTakes
  <2> HIDE DEF g, op, S, before
  <2> QED
    BY <2>1, <2>3, <2>4
<1>5. WriteBytes(AsDescribed, c, s) = g[k]
  <2>1. k \in 0 .. k
    BY <1>2
  <2>2. g[k] = it[N]
    BY <2>1
  <2> QED
    BY <1>1, <2>2
<1> HIDE DEF g
<1> QED
  BY <1>3, <1>4, <1>5

\* An image's remainder, a byte more.
LEMMA LeastGrows ==
  ASSUME NEW f, NEW m \in Nat, 8 * m + 39 <= HighestPower
  PROVE  Remainder(Polynomial(f, m + 1, LeastFirst, 32), Leaves32)
           = Remainder(Taken(Remainder(Polynomial(f, m, LeastFirst, 32), Leaves32), f[m + 1]),
                       Leaves32)
<1> DEFINE h == HighestPower
           L == Leaves32
           w == 32
           D == Reverse32(CRC32_POLYNOMIAL)
<1>1. w \in {16, 32} /\ 8 * m + w + 7 <= h /\ Leaving(L, h, D, w)
  BY DivisorsOfBoth, PowersSuffice
<1> HIDE DEF h, L, w, D
<1>2. Remainder(Polynomial(f, m + 1, LeastFirst, w), L)
        = Remainder(SymDiff(Up(Remainder(Polynomial(f, m, LeastFirst, w), L), 8),
                            ByteOf(f[m + 1], LeastFirst, w)), L)
  BY <1>1, RemainderGrows
<1> QED
  BY <1>2 DEF Taken, L, w

\* So the bytes that fill no word leave the remainder of the whole image.
LEMMA TailWritten ==
  ASSUME NEW f, NEW n \in Nat, NEW b \in 0 .. n, 8 * n + 31 <= HighestPower,
         NEW s \in Seq(SUBSET (0 .. 7)), Len(s) = n - b, \A j \in 1 .. n - b : s[j] = f[b + j]
  PROVE  WriteBytes(AsDescribed, Remainder(Polynomial(f, b, LeastFirst, 32), Leaves32), s)
           = Remainder(Polynomial(f, n, LeastFirst, 32), Leaves32)
<1> DEFINE R(m) == Remainder(Polynomial(f, m, LeastFirst, 32), Leaves32)
<1>1. ASSUME NEW m \in Nat, m <= n PROVE R(m) \in Registers(32)
  <2> DEFINE P == Polynomial(f, m, LeastFirst, 32)
  <2>1. 32 \in {16, 32}
    OBVIOUS
  <2>2. P \in SUBSET (0 .. 8 * m + 32 - 1)
    BY <2>1, PolynomialHas, Zenon
  <2>3. \A x \in 0 .. 8 * m + 32 - 1 : x \in 0 .. HighestPower
    BY <1>1, PowersSuffice
  <2> HIDE DEF P
  <2>4. P \in SUBSET (0 .. HighestPower)
    BY <2>2, <2>3
  <2>5. Remainder(P, Leaves32) \in Registers(32)
    BY <2>4, DivisorsOfBoth, RemainderTakes
  <2> QED
    BY <2>5 DEF P
<1>2. ASSUME NEW m \in Nat, m < n
      PROVE  R(m + 1) = Remainder(Taken(R(m), f[m + 1]), Leaves32)
  <2>1. 8 * m + 39 <= HighestPower
    BY <1>2, PowersSuffice
  <2> QED
    BY <2>1, LeastGrows
<1> HIDE DEF R
<1>3. PICK g : /\ g[0] = R(b)
               /\ \A j \in 1 .. Len(s) :
                     g[j - 1] \in Registers(32) => g[j] = Remainder(Taken(g[j - 1], s[j]), Leaves32)
               /\ WriteBytes(AsDescribed, R(b), s) = g[Len(s)]
  <2>1. R(b) \in Registers(32)
    BY <1>1
  <2> QED
    BY <2>1, WriteBytesFollow
<1> DEFINE T == {j \in Nat : j <= n - b => g[j] = R(b + j)}
<1>4. 0 \in T
  BY <1>3
<1>5. ASSUME NEW j \in Nat, j \in T PROVE j + 1 \in T
  <2> SUFFICES ASSUME j + 1 <= n - b PROVE g[j + 1] = R(b + (j + 1))
    OBVIOUS
  <2> DEFINE m == b + j
  <2>1. /\ m \in Nat /\ m < n /\ m <= n /\ b + (j + 1) = m + 1
        /\ j + 1 \in 1 .. n - b /\ (j + 1) - 1 = j
    OBVIOUS
  <2>2. g[j] = R(m) /\ s[j + 1] = f[m + 1]
    BY <1>5, <2>1
  <2> HIDE DEF m
  <2>3. R(m) \in Registers(32) /\ R(m + 1) = Remainder(Taken(R(m), f[m + 1]), Leaves32)
    BY <1>1, <1>2, <2>1
  <2>4. g[j + 1] = Remainder(Taken(g[j], s[j + 1]), Leaves32)
    BY <1>3, <2>1, <2>2, <2>3
  <2> QED
    BY <2>1, <2>2, <2>3, <2>4
<1>6. n - b \in T
  <2>1. n - b \in Nat
    OBVIOUS
  <2> HIDE DEF T
  <2>2. \A j \in Nat : j \in T
    BY <1>4, <1>5, Climb
  <2> QED
    BY <2>1, <2>2
<1>7. g[n - b] = R(b + (n - b)) /\ b + (n - b) = n
  BY <1>6
<1>8. WriteBytes(AsDescribed, R(b), s) = R(n)
  BY <1>3, <1>7
<1> QED
  BY <1>8 DEF R

-----------------------------------------------------------------------------
\* An image, and what holds all the way.

\* The sums of an image: what the table makes of its bytes, and what the words of
\* it leave in a unit as described, which every trusted one is.
ImageSums(s, f, so, u, bw, g) ==
  /\ so \in Registers(32)
  /\ g => u = AsDescribed
  /\ s = "image" =>
       /\ Len(f) <= MaxImage
       /\ Reverse32(so) = Remainder(Polynomial(f, Len(f), LeastFirst, 32), Leaves32)
       /\ u = AsDescribed =>
            bw = Remainder(Polynomial(f, 4 * (Len(f) \div 4), LeastFirst, 32), Leaves32)

\* The module's message of an image.
LEMMA ImageMessage ==
  ASSUME fed \in Seq(Octets)
  PROVE  Reference32
           = FINAL_XOR(Reverse32(Remainder(Polynomial(fed, Len(fed), LeastFirst, 32), Leaves32)))
<1> DEFINE n == Len(fed)
           ones == {i \in 0 .. 8 * n - 1 : i % 8 \in fed[i \div 8 + 1]}
           sent == {8 * n + 32 - 1 - i : i \in SymDiff(ones, Ones(32))}
<1>1. n \in Nat
  OBVIOUS
<1>2. \A i \in 0 .. 8 * n - 1 : i % 8 \in 0 .. 7
  BY <1>1
<1>3. \A i \in 0 .. 8 * n - 1 : LeastFirst[i % 8] = i % 8
  BY <1>2 DEF LeastFirst
<1>4. ones = {i \in 0 .. 8 * n - 1 : BitOf(fed, LeastFirst, i)}
  BY <1>3 DEF BitOf
<1>5. SymDiff(ones, Ones(32)) = OnesSent(fed, n, LeastFirst, 32)
  BY <1>4 DEF OnesSent
<1>6. Reference32 = FINAL_XOR(Reverse32(Remainder(sent, Leaves32)))
  BY Zenon DEF Reference32, Message
<1>7. sent = Polynomial(fed, n, LeastFirst, 32)
  BY <1>5 DEF Polynomial
<1> QED
  BY <1>6, <1>7

\* The last bytes of an image, which fill no word.
LEMMA TailHas ==
  ASSUME NEW f \in Seq(SUBSET (0 .. 7))
  PROVE  LET n == Len(f)
             b == 4 * (n \div 4)
         IN /\ n \in Nat /\ b \in 0 .. n /\ TailOf(f) \in Seq(SUBSET (0 .. 7))
            /\ Len(TailOf(f)) = n - b /\ \A j \in 1 .. n - b : TailOf(f)[j] = f[b + j]
<1> DEFINE n == Len(f)
           b == 4 * (n \div 4)
<1>1. n \in Nat /\ b \in 0 .. n
  BY LenProperties
<1>2. TailOf(f) = SubSeq(f, b + 1, n)
  BY DEF TailOf
<1> HIDE DEF n, b
<1> DEFINE m == b + 1
<1>3. /\ m \in Int /\ n \in Int /\ \A i \in m .. n : f[i] \in SUBSET (0 .. 7)
      /\ (IF m <= n THEN n - m + 1 ELSE 0) = n - b /\ n - m + 1 = n - b
      /\ \A i \in 1 .. n - b : m + i - 1 = b + i
  <2>1. n \in Int /\ b \in Int /\ 0 <= b /\ b <= n /\ m = b + 1
    BY <1>1
  <2>2. \A i \in 1 .. n : f[i] \in SUBSET (0 .. 7)
    BY DEF n
  <2> HIDE DEF m
  <2>3. \A i \in m .. n : i \in 1 .. n
    BY <2>1
  <2>4. n - m + 1 = n - b
    BY <2>1
  <2>6. (IF m <= n THEN n - m + 1 ELSE 0) = n - b
    <3>1. CASE m <= n
      BY <2>4, <3>1
    <3>2. CASE ~ (m <= n)
      <4>1. n - b = 0
        BY <2>1, <3>2
      <4> QED
        BY <3>2, <4>1
    <3> QED
      BY <3>1, <3>2
  <2>5. \A i \in 1 .. n - b : m + i - 1 = b + i
    BY <2>1
  <2>7. \A i \in m .. n : f[i] \in SUBSET (0 .. 7)
    BY <2>2, <2>3
  <2>8. m \in Int /\ n \in Int
    BY <2>1
  <2> QED
    BY <2>4, <2>5, <2>6, <2>7, <2>8, Zenon
<1> HIDE DEF m
<1>4. /\ SubSeq(f, m, n) \in Seq(SUBSET (0 .. 7))
      /\ Len(SubSeq(f, m, n)) = IF m <= n THEN n - m + 1 ELSE 0
      /\ \A i \in 1 .. n - m + 1 : SubSeq(f, m, n)[i] = f[m + i - 1]
  BY <1>3, SubSeqProperties
<1>5. TailOf(f) = SubSeq(f, m, n)
  BY <1>2 DEF m
<1>6. \A i \in 1 .. n - b : SubSeq(f, m, n)[i] = f[b + i]
  BY <1>3, <1>4
<1> QED
  BY <1>1, <1>3, <1>4, <1>5, <1>6 DEF n, b

\* Both sums of an image are the one the protocol names.
LEMMA ImageTells ==
  ASSUME fed \in Seq(Octets), ImageSums(subject, fed, soft, unit, by_words, g_trustworthy)
  PROVE  /\ subject = "image" => FINAL_XOR(soft) = Reference32
         /\ VerifyIsTrue
<1> SUFFICES ASSUME subject = "image" PROVE FINAL_XOR(soft) = Reference32 /\ Used = Reference32
  BY DEF VerifyIsTrue
<1> DEFINE n == Len(fed)
           b == 4 * (n \div 4)
           R(m) == Remainder(Polynomial(fed, m, LeastFirst, 32), Leaves32)
<1>1. /\ soft \in Registers(32) /\ n <= MaxImage /\ Reverse32(soft) = R(n)
      /\ g_trustworthy => unit = AsDescribed
      /\ unit = AsDescribed => by_words = R(b)
  BY DEF ImageSums
<1>2. Reference32 = FINAL_XOR(Reverse32(R(n)))
  BY ImageMessage
<1>3. fed \in Seq(SUBSET (0 .. 7)) /\ 8 * n + 31 <= HighestPower
  <2>1. n \in Nat /\ Seq(Octets) \subseteq Seq(SUBSET (0 .. 7))
    <3>1. Octets \subseteq SUBSET (0 .. 7) /\ n \in Nat
      BY ChecksumAssumption
    <3> QED
      BY <3>1, SeqMonotonic, Zenon
  <2>2. MaxImage \in Nat
    BY ChecksumAssumption
  <2> HIDE DEF n
  <2>3. 8 * n + 31 <= 8 * MaxImage + 31
    BY <1>1, <2>1, <2>2
  <2> QED
    BY <2>1, <2>2, <2>3, PowersSuffice
<1> HIDE DEF R
<1>4. soft = Reverse32(R(n))
  BY <1>1, TurnedHas
<1>5. ASSUME unit = AsDescribed
      PROVE  CrcResult(unit, WriteBytes(unit, by_words, TailOf(fed))) = FINAL_XOR(Reverse32(R(n)))
  <2>1. /\ n \in Nat /\ b \in 0 .. n /\ TailOf(fed) \in Seq(SUBSET (0 .. 7))
        /\ Len(TailOf(fed)) = n - b /\ \A j \in 1 .. n - b : TailOf(fed)[j] = fed[b + j]
    BY <1>3, TailHas, Zenon
  <2> DEFINE tail == TailOf(fed)
  <2> HIDE DEF n, b, tail
  <2>2. WriteBytes(AsDescribed, R(b), tail) = R(n)
    BY <1>3, <2>1, TailWritten DEF R, tail
  <2>3. 7 \in AsDescribed.cr
    BY DEF AsDescribed
  <2> QED
    BY <1>1, <1>5, <2>2, <2>3 DEF CrcResult, tail
<1> QED
  BY <1>1, <1>2, <1>4, <1>5 DEF Used

\* A message of a byte more, up to where it was.
LEMMA OneByteMore ==
  ASSUME NEW f \in Seq(Octets), NEW octet \in Octets
  PROVE  LET n == Len(f)
             g == Append(f, octet)
         IN /\ n \in Nat /\ Len(g) = n + 1 /\ g[n + 1] = octet
            /\ \A k \in 1 .. n + 1 : g[k] \in SUBSET (0 .. 7)
            /\ \A m \in 0 .. n : Polynomial(f, m, LeastFirst, 32) = Polynomial(g, m, LeastFirst, 32)
<1> DEFINE n == Len(f)
           g == Append(f, octet)
<1>1. /\ n \in Nat /\ Len(g) = n + 1 /\ g[n + 1] = octet /\ \A k \in 1 .. n : f[k] = g[k]
      /\ \A k \in 1 .. n : f[k] \in Octets
  BY AppendProperties
<1>2. Octets \subseteq SUBSET (0 .. 7)
  BY ChecksumAssumption
<1> HIDE DEF n, g
<1>3. ASSUME NEW k \in 1 .. n + 1 PROVE g[k] \in SUBSET (0 .. 7)
  <2>1. CASE k = n + 1
    BY <1>1, <1>2, <2>1
  <2>2. CASE k # n + 1
    <3>1. k \in 1 .. n
      BY <1>1, <2>2
    <3> QED
      BY <1>1, <1>2, <3>1
  <2> QED
    BY <2>1, <2>2
<1>4. ASSUME NEW m \in 0 .. n
      PROVE  Polynomial(f, m, LeastFirst, 32) = Polynomial(g, m, LeastFirst, 32)
  <2>1. m \in Nat /\ \A k \in 1 .. m : f[k] = g[k]
    BY <1>1
  <2> QED
    BY <2>1, PolynomialOfPart
<1> QED
  BY <1>1, <1>3, <1>4 DEF n, g

\* The word a byte fills is written; until then the words are those there were.
LEMMA WordsGrow ==
  ASSUME NEW n \in Nat, n + 1 <= MaxImage, NEW g, Len(g) = n + 1,
         \A k \in 1 .. n + 1 : g[k] \in SUBSET (0 .. 7), NEW bw,
         bw = Remainder(Polynomial(g, 4 * (n \div 4), LeastFirst, 32), Leaves32)
  PROVE  (IF Len(g) % 4 = 0
          THEN WriteWord(AsDescribed, bw, LittleEndian(SubSeq(g, Len(g) - 3, Len(g))))
          ELSE bw)
           = Remainder(Polynomial(g, 4 * (Len(g) \div 4), LeastFirst, 32), Leaves32)
<1> DEFINE b == 4 * (n \div 4)
           L == Leaves32
<1>1. MaxImage \in Nat
  BY ChecksumAssumption
<1>6. bw = Remainder(Polynomial(g, b, LeastFirst, 32), L)
  OBVIOUS
<1>7. CASE (n + 1) % 4 = 0
  <2>1. b = n - 3 /\ n - 3 \in Nat /\ 4 * ((n + 1) \div 4) = b + 4 /\ b + 4 = n + 1
    BY <1>7
  <2> DEFINE m == n - 2
             top == n + 1
             s == SubSeq(g, m, top)
  <2>2. m \in Int /\ top \in Int /\ top - m + 1 = 4 /\ \A i \in 1 .. 4 : m + i - 1 = b + i
    BY <2>1
  <2>10. \A i \in m .. top : g[i] \in SUBSET (0 .. 7)
    <3>1. \A i \in m .. top : i \in 1 .. n + 1
      BY <2>1
    <3> QED
      BY <3>1
  <2> HIDE DEF m, top
  <2>3. \A i \in 1 .. top - m + 1 : s[i] = g[m + i - 1]
    BY <2>2, <2>10, SubSeqProperties
  <2> HIDE DEF s, b
  <2>4. \A i \in 1 .. 4 : s[i] = g[b + i]
    BY <2>2, <2>3
  <2>5. \A i \in 1 .. 4 : b + i \in 1 .. n + 1
    BY <2>1
  <2>6. \A i \in 1 .. 4 : s[i] \in SUBSET (0 .. 7)
    BY <2>4, <2>5
  <2>7. b \in Nat /\ 8 * b + 63 <= HighestPower
    <3>1. 8 * b + 63 <= 8 * MaxImage + 31
      BY <1>1, <2>1
    <3> QED
      BY <1>1, <2>1, <3>1, PowersSuffice
  <2>8. WriteWord(AsDescribed, Remainder(Polynomial(g, b, LeastFirst, 32), Leaves32),
                  LittleEndian(s))
          = Remainder(Polynomial(g, b + 4, LeastFirst, 32), Leaves32)
    BY <2>4, <2>6, <2>7, WordGrows
  <2>9. SubSeq(g, Len(g) - 3, Len(g)) = s /\ Len(g) % 4 = 0 /\ 4 * (Len(g) \div 4) = b + 4
    <3>1. Len(g) - 3 = m /\ Len(g) = top
      BY <2>1 DEF m, top
    <3>2. Len(g) % 4 = 0 /\ 4 * (Len(g) \div 4) = b + 4
      BY <1>7, <2>1
    <3> QED
      BY <3>1, <3>2 DEF s
  <2> QED
    BY <1>6, <2>8, <2>9
<1>8. CASE (n + 1) % 4 # 0
  <2>1. 4 * ((n + 1) \div 4) = b
    BY <1>8
  <2> HIDE DEF b
  <2> QED
    BY <1>6, <1>8, <2>1
<1> QED
  BY <1>7, <1>8

\* A byte more of an image.
LEMMA ImageGrows ==
  ASSUME NEW f \in Seq(Octets), NEW so, NEW u, NEW bw, NEW t, ImageSums("image", f, so, u, bw, t),
         NEW octet \in Octets, Len(f) < MaxImage, NEW g, g = Append(f, octet)
  PROVE  ImageSums("image", g, Soft(so, octet), u,
                   IF Len(g) % 4 = 0
                   THEN WriteWord(u, bw, LittleEndian(SubSeq(g, Len(g) - 3, Len(g))))
                   ELSE bw, t)
<1> DEFINE n == Len(f)
<1>1. n \in Nat /\ n + 1 <= MaxImage /\ MaxImage \in Nat
  BY ChecksumAssumption
<1>2. /\ Len(g) = n + 1 /\ g[n + 1] = octet
      /\ \A k \in 1 .. n + 1 : g[k] \in SUBSET (0 .. 7)
      /\ \A m \in 0 .. n : Polynomial(f, m, LeastFirst, 32) = Polynomial(g, m, LeastFirst, 32)
  BY OneByteMore
<1>3. octet \in SUBSET (0 .. 7)
  BY ChecksumAssumption
<1>4. /\ so \in Registers(32) /\ (t => u = AsDescribed)
      /\ Reverse32(so) = Remainder(Polynomial(f, n, LeastFirst, 32), Leaves32)
      /\ u = AsDescribed =>
           bw = Remainder(Polynomial(f, 4 * (n \div 4), LeastFirst, 32), Leaves32)
  BY DEF ImageSums
<1>5. /\ Soft(so, octet) \in Registers(32)
      /\ Reverse32(Soft(so, octet)) = Remainder(Taken(Reverse32(so), octet), Leaves32)
  BY <1>3, <1>4, SoftDivides
<1>6. Remainder(Polynomial(g, n + 1, LeastFirst, 32), Leaves32)
        = Remainder(Taken(Reverse32(so), octet), Leaves32)
  <2>1. 8 * n + 39 <= HighestPower
    <3>1. 8 * n + 39 <= 8 * MaxImage + 31
      BY <1>1
    <3> QED
      BY <1>1, <3>1, PowersSuffice
  <2>2. Polynomial(f, n, LeastFirst, 32) = Polynomial(g, n, LeastFirst, 32)
    BY <1>1, <1>2
  <2> HIDE DEF n
  <2>3. Remainder(Polynomial(g, n + 1, LeastFirst, 32), Leaves32)
          = Remainder(Taken(Remainder(Polynomial(g, n, LeastFirst, 32), Leaves32), g[n + 1]),
                      Leaves32)
    BY <1>1, <2>1, LeastGrows
  <2> QED
    BY <1>2, <1>4, <2>2, <2>3
<1> HIDE DEF n
<1>7. u = AsDescribed =>
        (IF Len(g) % 4 = 0
         THEN WriteWord(u, bw, LittleEndian(SubSeq(g, Len(g) - 3, Len(g))))
         ELSE bw)
          = Remainder(Polynomial(g, 4 * (Len(g) \div 4), LeastFirst, 32), Leaves32)
  <2> SUFFICES ASSUME u = AsDescribed
               PROVE  (IF Len(g) % 4 = 0
                       THEN WriteWord(AsDescribed, bw, LittleEndian(SubSeq(g, Len(g) - 3, Len(g))))
                       ELSE bw)
                        = Remainder(Polynomial(g, 4 * (Len(g) \div 4), LeastFirst, 32), Leaves32)
    OBVIOUS
  <2>1. 4 * (n \div 4) \in 0 .. n
    BY <1>1
  <2>2. bw = Remainder(Polynomial(g, 4 * (n \div 4), LeastFirst, 32), Leaves32)
    BY <1>2, <1>4, <2>1
  <2> QED
    BY <1>1, <1>2, <2>2, WordsGrow
<1> QED
  BY <1>1, <1>2, <1>4, <1>5, <1>6, <1>7 DEF ImageSums

\* The sums of an image hold at the start, where a unit that passes the self-test
\* is as described.
LEMMA ImageStart ==
  ChecksumStart => ImageSums(subject, fed, soft, unit, by_words, g_trustworthy)
<1> SUFFICES ASSUME ChecksumStart
             PROVE  ImageSums(subject, fed, soft, unit, by_words, g_trustworthy)
  OBVIOUS
<1>1. /\ fed = << >> /\ soft = Ones(32) /\ unit \in Units /\ by_words = unit.starts_from
      /\ g_trustworthy = Trusted(unit)
  BY DEF ChecksumStart
<1>2. Len(fed) = 0 /\ 0 <= MaxImage /\ 4 * (0 \div 4) = 0
  BY <1>1, ChecksumAssumption
<1>3. g_trustworthy => unit = AsDescribed
  BY <1>1, SelfTestTells, Zenon DEF Trusted
<1>4. Polynomial(fed, 0, LeastFirst, 32) = Ones(32)
  BY EmptyMessage
<1>5. Ones(32) \in Registers(32) /\ Ones(32) \in SUBSET (0 .. HighestPower)
  BY PowersSuffice DEF Registers, Ones
<1>6. Remainder(Ones(32), Leaves32) = Ones(32)
  BY <1>5, DivisorsOfBoth, RemainderOfLow
<1>7. Reverse32(Ones(32)) = Ones(32)
  <2>1. \A x \in 0 .. 31 : 31 - x \in 0 .. 31 /\ 31 - (31 - x) = x
    OBVIOUS
  <2> QED
    BY <2>1 DEF Reverse32, Ones
<1>8. unit = AsDescribed => by_words = Ones(32)
  BY <1>1 DEF AsDescribed
<1> QED
  BY <1>1, <1>2, <1>3, <1>4, <1>5, <1>6, <1>7, <1>8 DEF ImageSums

\* And every byte keeps them.
LEMMA ImageStep ==
  ASSUME fed \in Seq(Octets), ImageSums(subject, fed, soft, unit, by_words, g_trustworthy),
         [ChecksumNext]_checksums
  PROVE  ImageSums(subject', fed', soft', unit', by_words', g_trustworthy')
<1>1. ASSUME NEW octet \in Octets, NEW damage \in Damages, FeedFrame(octet, damage)
      PROVE  ImageSums(subject', fed', soft', unit', by_words', g_trustworthy')
  BY <1>1 DEF FeedFrame, image, ImageSums
<1>2. ASSUME NEW octet \in Octets, FeedImage(octet)
      PROVE  ImageSums(subject', fed', soft', unit', by_words', g_trustworthy')
  <2>1. /\ subject = "image" /\ subject' = "image" /\ Len(fed) < MaxImage
        /\ fed' = Append(fed, octet) /\ soft' = Soft(soft, octet)
        /\ by_words' = IF Len(fed') % 4 = 0
                       THEN WriteWord(unit, by_words,
                                      LittleEndian(SubSeq(fed', Len(fed') - 3, Len(fed'))))
                       ELSE by_words
        /\ unit' = unit /\ g_trustworthy' = g_trustworthy
    BY <1>2 DEF FeedImage
  <2>2. ImageSums("image", fed, soft, unit, by_words, g_trustworthy)
    BY <2>1
  <2>3. ImageSums("image", fed', Soft(soft, octet), unit, by_words', g_trustworthy)
    BY <2>1, <2>2, ImageGrows
  <2> QED
    BY <2>1, <2>3
<1>3. CASE UNCHANGED checksums
  BY <1>3 DEF checksums, image
<1> QED
  BY <1>1, <1>2, <1>3 DEF ChecksumNext

\* What holds of the sums all the way: they are remainders of what was fed.
ChecksumInv ==
  /\ fed \in Seq(Octets)
  /\ FrameSums(subject, fed, crc16, crc16_received, burst)
  /\ ImageSums(subject, fed, soft, unit, by_words, g_trustworthy)

\* The sums are remainders after every step, whatever is fed and however the
\* peripheral came up.
THEOREM SumsStayRemainders == ChecksumSpec => []ChecksumInv
<1>1. ChecksumStart => ChecksumInv
  <2>1. ChecksumStart => fed \in Seq(Octets)
    BY DEF ChecksumStart
  <2> QED
    BY <2>1, FrameStart, ImageStart DEF ChecksumInv
<1>2. ChecksumInv /\ [ChecksumNext]_checksums => ChecksumInv'
  <2> SUFFICES ASSUME ChecksumInv, [ChecksumNext]_checksums PROVE ChecksumInv'
    OBVIOUS
  <2>1. /\ fed \in Seq(Octets)
        /\ FrameSums(subject, fed, crc16, crc16_received, burst)
        /\ ImageSums(subject, fed, soft, unit, by_words, g_trustworthy)
    BY DEF ChecksumInv
  <2>2. fed' \in Seq(Octets)
    <3>1. ASSUME NEW octet \in Octets, fed' = Append(fed, octet) PROVE fed' \in Seq(Octets)
      BY <2>1, <3>1
    <3>2. (\E octet \in Octets : fed' = Append(fed, octet)) \/ fed' = fed
      BY DEF ChecksumNext, FeedFrame, FeedImage, checksums
    <3> QED
      BY <2>1, <3>1, <3>2
  <2>3. FrameSums(subject', fed', crc16', crc16_received', burst')
    BY <2>1, FrameStep
  <2>4. ImageSums(subject', fed', soft', unit', by_words', g_trustworthy')
    BY <2>1, ImageStep
  <2> QED
    BY <2>2, <2>3, <2>4 DEF ChecksumInv
<1> QED
  BY <1>1, <1>2, PTL DEF ChecksumSpec

\* SumsProtect: the sums of a frame and of an image are the remainders the protocol
\* names, and damage within one burst changes a frame's, for every message.
THEOREM SumsAreProtected == ChecksumSpec => []SumsProtect
<1>1. ChecksumInv => SumsProtect
  BY FrameTells, ImageTells DEF ChecksumInv, SumsProtect, SumsAreRemainders
<1> QED
  BY <1>1, SumsStayRemainders, PTL

\* VerifyIsTrue: what COMMIT compares with is the checksum of the image, by the
\* table or by the peripheral, wherever its last word ends.
THEOREM VerifiesTruly == ChecksumSpec => []VerifyIsTrue
<1>1. ChecksumInv => VerifyIsTrue
  BY ImageTells DEF ChecksumInv
<1> QED
  BY <1>1, SumsStayRemainders, PTL
=============================================================================
