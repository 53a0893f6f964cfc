--------------------------- MODULE FrameParserProofs ---------------------------
(***************************************************************************)
(* The parser of frames, for every layout, every set of bytes, every        *)
(* checksum and every number of bytes received: between two bytes its       *)
(* candidate could not have been judged yet, what it delivers stood on the  *)
(* wire, and a frame the encoder wrote is not lost to garbage.              *)
(***************************************************************************)
EXTENDS FrameParser, SequenceTheorems, WellFoundedInduction, TLAPS

-----------------------------------------------------------------------------
(***************************************************************************)
(* Parts of sequences.                                                     *)
(***************************************************************************)
LEMMA Slice ==
  ASSUME NEW S, NEW s \in Seq(S), NEW m \in Nat \ {0}, NEW n \in Nat,
         n <= Len(s), m <= n + 1
  PROVE  /\ SubSeq(s, m, n) \in Seq(S)
         /\ Len(SubSeq(s, m, n)) = n - m + 1
         /\ \A i \in 1 .. n - m + 1 : SubSeq(s, m, n)[i] = s[m + i - 1]
<1>1. Len(s) \in Nat
  BY LenProperties
<1>2. \A i \in m .. n : s[i] \in S
  <2> SUFFICES ASSUME NEW i \in m .. n PROVE s[i] \in S
    OBVIOUS
  <2>1. i \in 1 .. Len(s)
    BY <1>1
  <2> QED
    BY <2>1, ElementOfSeq
<1>3. /\ SubSeq(s, m, n) \in Seq(S)
      /\ Len(SubSeq(s, m, n)) = IF m <= n THEN n - m + 1 ELSE 0
      /\ \A i \in 1 .. n - m + 1 : SubSeq(s, m, n)[i] = s[m + i - 1]
  BY <1>2, SubSeqProperties
<1> QED
  BY <1>3

LEMMA SliceOfSlice ==
  ASSUME NEW S, NEW s \in Seq(S), NEW m \in Nat \ {0}, NEW n \in Nat,
         n <= Len(s), m <= n + 1,
         NEW a \in Nat \ {0}, NEW b \in Nat, b <= n - m + 1, a <= b + 1
  PROVE  SubSeq(SubSeq(s, m, n), a, b) = SubSeq(s, m + a - 1, m + b - 1)
<1> DEFINE t == SubSeq(s, m, n)
           u == SubSeq(t, a, b)
           v == SubSeq(s, m + a - 1, m + b - 1)
<1>1. Len(s) \in Nat
  BY LenProperties
<1>2. t \in Seq(S) /\ Len(t) = n - m + 1 /\ \A i \in 1 .. n - m + 1 : t[i] = s[m + i - 1]
  BY Slice
<1>3. m + a - 1 \in Nat \ {0} /\ m + b - 1 \in Nat /\ m + b - 1 <= Len(s)
      /\ m + a - 1 <= (m + b - 1) + 1 /\ (m + b - 1) - (m + a - 1) + 1 = b - a + 1
  BY <1>1
<1>4. v \in Seq(S) /\ Len(v) = b - a + 1
      /\ \A i \in 1 .. b - a + 1 : v[i] = s[(m + a - 1) + i - 1]
  BY <1>3, Slice
<1> HIDE DEF t
<1>5. u \in Seq(S) /\ Len(u) = b - a + 1 /\ \A i \in 1 .. b - a + 1 : u[i] = t[a + i - 1]
  BY <1>2, Slice
<1> HIDE DEF u, v
<1>6. ASSUME NEW i \in 1 .. b - a + 1 PROVE u[i] = v[i]
  <2>1. a + i - 1 \in 1 .. n - m + 1 /\ m + (a + i - 1) - 1 = (m + a - 1) + i - 1
    OBVIOUS
  <2> QED
    BY <1>2, <1>4, <1>5, <2>1
<1>7. u = v
  BY <1>4, <1>5, <1>6, SeqEqual
<1> QED
  BY <1>7 DEF t, u, v

LEMMA SliceOfLonger ==
  ASSUME NEW S, NEW s \in Seq(S), NEW e \in S, NEW m \in Nat \ {0}, NEW n \in Nat,
         n <= Len(s), m <= n + 1
  PROVE  /\ SubSeq(Append(s, e), m, n) = SubSeq(s, m, n)
         /\ SubSeq(Append(s, e), m, Len(s) + 1) = Append(SubSeq(s, m, Len(s)), e)
<1> DEFINE t == Append(s, e)
           k == Len(s)
<1>1. k \in Nat
  BY LenProperties
<1>2. t \in Seq(S) /\ Len(t) = k + 1 /\ (\A i \in 1 .. k : t[i] = s[i]) /\ t[k + 1] = e
  BY AppendProperties
<1> HIDE DEF t
<1>3. SubSeq(t, m, n) = SubSeq(s, m, n)
  <2> DEFINE u == SubSeq(t, m, n)
             v == SubSeq(s, m, n)
  <2>1. u \in Seq(S) /\ Len(u) = n - m + 1 /\ \A i \in 1 .. n - m + 1 : u[i] = t[m + i - 1]
    BY <1>1, <1>2, Slice
  <2>2. v \in Seq(S) /\ Len(v) = n - m + 1 /\ \A i \in 1 .. n - m + 1 : v[i] = s[m + i - 1]
    BY Slice
  <2> HIDE DEF u, v
  <2>3. ASSUME NEW i \in 1 .. n - m + 1 PROVE u[i] = v[i]
    <3>1. m + i - 1 \in 1 .. k
      BY <1>1
    <3> QED
      BY <1>2, <2>1, <2>2, <3>1
  <2>4. u = v
    BY <2>1, <2>2, <2>3, SeqEqual
  <2> QED
    BY <2>4 DEF u, v
<1>4. SubSeq(t, m, k + 1) = Append(SubSeq(s, m, k), e)
  <2> DEFINE u == SubSeq(t, m, k + 1)
             w == SubSeq(s, m, k)
             v == Append(w, e)
  <2>1. m <= (k + 1) + 1 /\ m <= k + 1 /\ k + 1 \in Nat
    BY <1>1
  <2>2. u \in Seq(S) /\ Len(u) = (k + 1) - m + 1
        /\ \A i \in 1 .. (k + 1) - m + 1 : u[i] = t[m + i - 1]
    BY <1>2, <2>1, Slice
  <2>3. w \in Seq(S) /\ Len(w) = k - m + 1 /\ \A i \in 1 .. k - m + 1 : w[i] = s[m + i - 1]
    BY <1>1, <2>1, Slice
  <2> HIDE DEF w
  <2>4. v \in Seq(S) /\ Len(v) = k - m + 2
        /\ (\A i \in 1 .. k - m + 1 : v[i] = w[i]) /\ v[k - m + 2] = e
    <3>1. v \in Seq(S) /\ Len(v) = Len(w) + 1 /\ (\A i \in 1 .. Len(w) : v[i] = w[i])
          /\ v[Len(w) + 1] = e
      BY <2>3, AppendProperties
    <3>2. Len(w) + 1 = k - m + 2
      BY <1>1, <2>3
    <3> QED
      BY <2>3, <3>1, <3>2
  <2> HIDE DEF u, v
  <2>5. ASSUME NEW i \in 1 .. (k + 1) - m + 1 PROVE u[i] = v[i]
    <3>1. CASE i = k - m + 2
      <4>1. m + i - 1 = k + 1
        BY <1>1, <3>1
      <4> QED
        BY <1>2, <2>2, <2>4, <3>1, <4>1
    <3>2. CASE i # k - m + 2
      <4>1. i \in 1 .. k - m + 1 /\ m + i - 1 \in 1 .. k
        BY <1>1, <3>2
      <4> QED
        BY <1>2, <2>2, <2>3, <2>4, <4>1
    <3> QED
      BY <3>1, <3>2
  <2>6. Len(u) = Len(v)
    BY <1>1, <2>2, <2>4
  <2>7. u = v
    BY <2>2, <2>4, <2>5, <2>6, SeqEqual
  <2> QED
    BY <2>7 DEF u, v, w
<1> QED
  BY <1>3, <1>4 DEF t

\* A set of numbers that is not empty has a least one.
LEMMA LeastExists ==
  ASSUME NEW T \in SUBSET Nat, T # {}
  PROVE  Min(T) \in T /\ \A y \in T : Min(T) <= y
<1>1. PICK x \in T : \A y \in T : ~ (<<y, x>> \in OpToRel(<, Nat))
  BY NatLessThanWellFounded, WFMin
<1>2. ASSUME NEW y \in T, y < x PROVE FALSE
  <2>1. <<y, x>> \in Nat \X Nat /\ <<y, x>>[1] < <<y, x>>[2]
    BY <1>2
  <2>2. <<y, x>> \in {ss \in Nat \X Nat : ss[1] < ss[2]}
    BY <2>1
  <2>3. <<y, x>> \in OpToRel(<, Nat)
    BY <2>2 DEF OpToRel
  <2> QED
    BY <1>1, <2>3
<1>3. \A y \in T : x <= y
  BY <1>2
<1> QED
  BY <1>3 DEF Min
-----------------------------------------------------------------------------
(***************************************************************************)
(* The inductive invariant: what the parser has dropped, it has judged.    *)
(***************************************************************************)
Records == [first : Nat \ {0}, bytes : Seq(Bytes), good : BOOLEAN]

ParserTypeOK ==
  /\ raw \in Seq(Bytes) /\ received \in Seq(Bytes)
  /\ scanning \in BOOLEAN /\ delivered \subseteq Records

\* How much of what arrived lies before the candidate.
Dropped == Len(received) - Len(raw)

InPlace ==
  /\ Len(raw) <= Len(received) /\ DeliveredAsSent
  /\ \A d \in delivered : LastOf(d) <= Len(received)
  /\ \A d \in delivered : d.good => LastOf(d) <= Dropped
  /\ GoodFramesDisjoint

BeginsWell == raw # <<>> => raw[1] = Start

\* The bytes received from p on begin no frame, whatever comes after them.
NoFrameAt(p) ==
  LET n == received[p + HeaderLen - 1]
      last == p + Overhead + n - 1
  IN /\ p + HeaderLen - 1 <= Len(received)
     /\ \/ n > MaxPayload
        \/ last <= Len(received) /\ ~ Good(SubSeq(received, p, last))

InGoodFrame(p) == \E d \in delivered : d.good /\ d.first <= p /\ p <= LastOf(d)

Judged ==
  \A p \in 1 .. Dropped :
    received[p] = Start => InGoodFrame(p) \/ NoFrameAt(p)

ParserInv ==
  ParserTypeOK /\ InPlace /\ BeginsWell /\ CandidateIsOpen /\ Judged

-----------------------------------------------------------------------------
(***************************************************************************)
(* The operators of the parser.                                            *)
(***************************************************************************)
\* seek_start() and drop_front(): what is left is the end of the bytes, it
\* begins with a start byte, and no start byte was dropped.
LEMMA Sought ==
  ASSUME NEW s \in Seq(Bytes), NEW from \in Nat, from <= Len(s)
  PROVE  \E k \in from .. Len(s) :
           /\ SeekStart(s, from) = SubSeq(s, k + 1, Len(s))
           /\ SeekStart(s, from) \in Seq(Bytes)
           /\ Len(SeekStart(s, from)) = Len(s) - k
           /\ \A i \in from + 1 .. k : s[i] # Start
           /\ SeekStart(s, from) # <<>> => SeekStart(s, from)[1] = Start
<1> DEFINE starts == {i \in from + 1 .. Len(s) : s[i] = Start}
           r == SeekStart(s, from)
<1>1. Len(s) \in Nat
  BY LenProperties
<1>2. CASE starts = {}
  <2>1. r = <<>>
    BY <1>2 DEF SeekStart
  <2>2. SubSeq(s, Len(s) + 1, Len(s)) \in Seq(Bytes)
        /\ Len(SubSeq(s, Len(s) + 1, Len(s))) = 0
    BY <1>1, Slice
  <2>3. SubSeq(s, Len(s) + 1, Len(s)) = <<>>
    BY <2>2, EmptySeq
  <2>4. \A i \in from + 1 .. Len(s) : s[i] # Start
    BY <1>2
  <2>5. Len(s) \in from .. Len(s) /\ Len(r) = Len(s) - Len(s) /\ r \in Seq(Bytes)
    BY <1>1, <2>1, <2>2, <2>3
  <2> QED
    BY <2>1, <2>3, <2>4, <2>5
<1>3. CASE starts # {}
  <2> DEFINE m == Min(starts)
  <2>1. starts \in SUBSET Nat
    BY <1>1
  <2>2. m \in starts /\ \A y \in starts : m <= y
    BY <1>3, <2>1, LeastExists
  <2>3. r = SubSeq(s, m, Len(s))
    BY <1>3 DEF SeekStart
  <2> HIDE DEF m
  <2>4. m \in Nat \ {0} /\ m <= Len(s) /\ from + 1 <= m /\ s[m] = Start
    BY <1>1, <2>2
  <2>5. r \in Seq(Bytes) /\ Len(r) = Len(s) - m + 1 /\ r[1] = s[m]
    <3>1. /\ SubSeq(s, m, Len(s)) \in Seq(Bytes)
          /\ Len(SubSeq(s, m, Len(s))) = Len(s) - m + 1
          /\ \A i \in 1 .. Len(s) - m + 1 : SubSeq(s, m, Len(s))[i] = s[m + i - 1]
      <4>1. m <= Len(s) + 1 /\ Len(s) <= Len(s)
        BY <1>1, <2>4
      <4> QED
        BY <1>1, <2>4, <4>1, Slice
    <3>2. 1 \in 1 .. Len(s) - m + 1 /\ m + 1 - 1 = m
      BY <1>1, <2>4
    <3> QED
      BY <2>3, <3>1, <3>2
  <2>6. \A i \in from + 1 .. m - 1 : s[i] # Start
    <3> SUFFICES ASSUME NEW i \in from + 1 .. m - 1, s[i] = Start PROVE FALSE
      OBVIOUS
    <3>1. i \in from + 1 .. Len(s) /\ i < m
      BY <1>1, <2>4
    <3>2. m <= i
      BY <2>2, <3>1
    <3> QED
      BY <2>4, <3>1, <3>2
  <2>7. m - 1 \in from .. Len(s) /\ (m - 1) + 1 = m /\ Len(r) = Len(s) - (m - 1)
    BY <1>1, <2>4, <2>5
  <2> HIDE DEF r
  <2> QED
    BY <2>3, <2>4, <2>5, <2>6, <2>7 DEF r
<1> QED
  BY <1>2, <1>3

\* ota_frame_encode(): a start byte, LEN at the end of the header, and a
\* checksum of what lies between.
LEMMA EncodedParts ==
  ASSUME NEW S, NEW fields \in Seq(S), NEW payload \in Seq(S),
         S \subseteq Nat, Len(fields) = HeaderLen - 2
  PROVE  LET e == Encoded(fields, payload)
         IN /\ Len(e) = Overhead + Len(payload)
            /\ e[1] = Start /\ LenOf(e) = Len(payload) /\ Good(e)
<1> DEFINE body == fields \o <<Len(payload)>> \o payload
           sum == Checksum(body)
           B == Nat \cup {sum}
           e == Encoded(fields, payload)
           n == Len(payload)
           h == fields \o <<n>>
<1>1. n \in Nat /\ HeaderLen \in Nat /\ HeaderLen >= 2
  BY LenProperties, LayoutAssumption
<1>2. fields \in Seq(Nat) /\ payload \in Seq(Nat) /\ <<n>> \in Seq(Nat) /\ Len(<<n>>) = 1
      /\ <<n>>[1] = n
  <2>1. Seq(S) \subseteq Seq(Nat)
    BY SeqMonotonic
  <2> HIDE DEF n
  <2>2. <<n>> \in Seq(Nat) /\ Len(<<n>>) = 1 /\ <<n>>[1] = n
    BY <1>1
  <2> QED
    BY <2>1, <2>2
<1>3. h \in Seq(Nat) /\ Len(h) = HeaderLen - 1 /\ h[HeaderLen - 1] = n
  <2>1. h \in Seq(Nat) /\ Len(h) = Len(fields) + Len(<<n>>)
        /\ \A i \in 1 .. Len(fields) + Len(<<n>>) :
             h[i] = IF i <= Len(fields) THEN fields[i] ELSE <<n>>[i - Len(fields)]
    <3> HIDE DEF n
    <3> QED
      BY <1>2, ConcatProperties
  <2>2. HeaderLen - 1 \in 1 .. Len(fields) + Len(<<n>>)
        /\ ~ (HeaderLen - 1 <= Len(fields)) /\ (HeaderLen - 1) - Len(fields) = 1
        /\ Len(fields) + Len(<<n>>) = HeaderLen - 1
    BY <1>1, <1>2
  <2> HIDE DEF h
  <2> QED
    BY <1>2, <2>1, <2>2
<1>4. body \in Seq(Nat) /\ Len(body) = HeaderLen - 1 + n /\ body[HeaderLen - 1] = n
  <2>1. body = h \o payload
    OBVIOUS
  <2> HIDE DEF h
  <2>2. h \o payload \in Seq(Nat) /\ Len(h \o payload) = Len(h) + Len(payload)
        /\ \A i \in 1 .. Len(h) + Len(payload) :
             (h \o payload)[i] = IF i <= Len(h) THEN h[i] ELSE payload[i - Len(h)]
    BY <1>2, <1>3, ConcatProperties
  <2>3. HeaderLen - 1 \in 1 .. Len(h) + Len(payload) /\ HeaderLen - 1 <= Len(h)
    BY <1>1, <1>3
  <2> HIDE DEF body
  <2> QED
    BY <1>1, <1>3, <2>1, <2>2, <2>3
<1> HIDE DEF h
<1> DEFINE q == <<Start>> \o body
<1>5. Start \in Nat /\ <<Start>> \in Seq(Nat) /\ Len(<<Start>>) = 1 /\ <<Start>>[1] = Start
  BY LayoutAssumption
<1>6. e = q \o <<sum>>
  BY DEF Encoded
<1> HIDE DEF body
<1>7. q \in Seq(Nat) /\ Len(q) = HeaderLen + n /\ q[1] = Start
      /\ \A i \in 1 .. HeaderLen - 1 + n : q[i + 1] = body[i]
  <2>1. q \in Seq(Nat) /\ Len(q) = 1 + Len(body)
        /\ \A i \in 1 .. 1 + Len(body) :
             q[i] = IF i <= 1 THEN <<Start>>[i] ELSE body[i - 1]
    BY <1>4, <1>5, ConcatProperties
  <2>2. Len(q) = HeaderLen + n /\ 1 \in 1 .. 1 + Len(body)
    BY <1>1, <1>4, <2>1
  <2>3. ASSUME NEW i \in 1 .. HeaderLen - 1 + n PROVE q[i + 1] = body[i]
    <3>1. i + 1 \in 1 .. 1 + Len(body) /\ ~ (i + 1 <= 1) /\ (i + 1) - 1 = i
      BY <1>1, <1>4
    <3> HIDE DEF q
    <3> QED
      BY <2>1, <3>1
  <2> HIDE DEF q
  <2> QED
    BY <1>5, <2>1, <2>2, <2>3
<1> HIDE DEF q
<1>8. /\ e \in Seq(B) /\ Len(e) = HeaderLen + n + 1
      /\ \A i \in 1 .. HeaderLen + n : e[i] = q[i]
      /\ e[HeaderLen + n + 1] = sum
  <2>1. q \in Seq(B) /\ <<sum>> \in Seq(B) /\ Len(<<sum>>) = 1 /\ <<sum>>[1] = sum
    <3>1. Nat \subseteq B /\ sum \in B
      OBVIOUS
    <3> HIDE DEF B
    <3> QED
      BY <1>7, <3>1, SeqMonotonic
  <2> HIDE DEF B, sum
  <2>2. q \o <<sum>> \in Seq(B) /\ Len(q \o <<sum>>) = Len(q) + 1
        /\ \A i \in 1 .. Len(q) + 1 :
             (q \o <<sum>>)[i] = IF i <= Len(q) THEN q[i] ELSE <<sum>>[i - Len(q)]
    BY <2>1, ConcatProperties
  <2> HIDE DEF e
  <2>3. e \in Seq(B) /\ Len(e) = HeaderLen + n + 1
    BY <1>1, <1>6, <1>7, <2>2
  <2>4. ASSUME NEW i \in 1 .. HeaderLen + n PROVE e[i] = q[i]
    BY <1>1, <1>6, <1>7, <2>2
  <2>5. e[HeaderLen + n + 1] = sum
    <3>1. HeaderLen + n + 1 \in 1 .. Len(q) + 1 /\ ~ (HeaderLen + n + 1 <= Len(q))
          /\ (HeaderLen + n + 1) - Len(q) = 1
      BY <1>1, <1>7
    <3> QED
      BY <1>6, <2>1, <2>2, <3>1
  <2> QED
    BY <2>3, <2>4, <2>5
<1> HIDE DEF e, B
<1>9. e[1] = Start
  <2>1. 1 \in 1 .. HeaderLen + n
    BY <1>1
  <2> QED
    BY <1>7, <1>8, <2>1
<1>10. e[HeaderLen] = n
  <2>1. HeaderLen \in 1 .. HeaderLen + n /\ HeaderLen - 1 \in 1 .. HeaderLen - 1 + n
        /\ (HeaderLen - 1) + 1 = HeaderLen
    BY <1>1
  <2> QED
    BY <1>4, <1>7, <1>8, <2>1
<1>11. SubSeq(e, 2, Len(e) - 1) = body
  <2> DEFINE t == SubSeq(e, 2, HeaderLen + n)
  <2>1. 2 \in Nat \ {0} /\ HeaderLen + n \in Nat /\ HeaderLen + n <= Len(e)
        /\ 2 <= (HeaderLen + n) + 1 /\ (HeaderLen + n) - 2 + 1 = HeaderLen - 1 + n
        /\ Len(e) - 1 = HeaderLen + n
    BY <1>1, <1>8
  <2>2. t \in Seq(B) /\ Len(t) = HeaderLen - 1 + n
        /\ \A i \in 1 .. HeaderLen - 1 + n : t[i] = e[2 + i - 1]
    BY <1>8, <2>1, Slice
  <2> HIDE DEF t
  <2>3. ASSUME NEW i \in 1 .. HeaderLen - 1 + n PROVE t[i] = body[i]
    <3>1. 2 + i - 1 \in 1 .. HeaderLen + n /\ 2 + i - 1 = i + 1
      BY <1>1
    <3> QED
      BY <1>7, <1>8, <2>2, <3>1
  <2>4. body \in Seq(B)
    <3>1. Nat \subseteq B
      BY DEF B
    <3> QED
      BY <1>4, <3>1, SeqMonotonic
  <2>5. t = body
    BY <1>4, <2>2, <2>3, <2>4, SeqEqual
  <2> QED
    BY <2>1, <2>5 DEF t
<1>12. e[Len(e)] = Checksum(SubSeq(e, 2, Len(e) - 1))
  BY <1>8, <1>11 DEF sum
<1>13. Len(e) = Overhead + Len(payload)
  BY <1>1, <1>8 DEF Overhead
<1> QED
  BY <1>9, <1>10, <1>12, <1>13 DEF LenOf, Good, e

-----------------------------------------------------------------------------
(***************************************************************************)
(* Each step keeps the invariant.                                          *)
(***************************************************************************)
LEMMA Layout ==
  /\ HeaderLen \in Nat /\ HeaderLen >= 2 /\ MaxPayload \in Nat
  /\ Overhead = HeaderLen + 1 /\ MaxSize = HeaderLen + 1 + MaxPayload
  /\ Bytes \subseteq Nat /\ Start \in Bytes
BY LayoutAssumption DEF Overhead, MaxSize

\* The search goes on in the end of what arrived: it ends further on in it.
LEMMA Search ==
  ASSUME NEW t \in Seq(Bytes), NEW a \in Nat, NEW from \in {0, 1}, a + from <= Len(t)
  PROVE  LET r == SeekStart(SubSeq(t, a + 1, Len(t)), from)
         IN \E b \in a + from .. Len(t) :
              /\ r = SubSeq(t, b + 1, Len(t)) /\ r \in Seq(Bytes)
              /\ Len(r) = Len(t) - b
              /\ \A p \in a + from + 1 .. b : t[p] # Start
              /\ r # <<>> => r[1] = Start
<1> DEFINE s == SubSeq(t, a + 1, Len(t))
           r == SeekStart(s, from)
<1>1. Len(t) \in Nat /\ a <= Len(t)
  BY LenProperties
<1>2. s \in Seq(Bytes) /\ Len(s) = Len(t) - a
      /\ \A i \in 1 .. Len(t) - a : s[i] = t[a + i]
  <2> DEFINE m == a + 1
  <2>1. m \in Nat \ {0} /\ Len(t) <= Len(t) /\ m <= Len(t) + 1
        /\ Len(t) - m + 1 = Len(t) - a
    BY <1>1
  <2>2. s = SubSeq(t, m, Len(t))
    OBVIOUS
  <2> HIDE DEF m, s
  <2>3. s \in Seq(Bytes) /\ Len(s) = Len(t) - m + 1
        /\ \A i \in 1 .. Len(t) - m + 1 : s[i] = t[m + i - 1]
    BY <1>1, <2>1, <2>2, Slice
  <2>4. \A i \in 1 .. Len(t) - a : m + i - 1 = a + i
    BY <1>1 DEF m
  <2> QED
    BY <2>1, <2>3, <2>4
<1> HIDE DEF s
<1>3. PICK k \in from .. Len(s) :
        /\ r = SubSeq(s, k + 1, Len(s)) /\ r \in Seq(Bytes) /\ Len(r) = Len(s) - k
        /\ \A i \in from + 1 .. k : s[i] # Start
        /\ r # <<>> => r[1] = Start
  <2>1. from \in Nat /\ from <= Len(s)
    BY <1>1, <1>2
  <2> QED
    BY <1>2, <2>1, Sought DEF s
<1>4. k \in Nat /\ k <= Len(t) - a /\ from <= k
  BY <1>1, <1>2
<1>5. r = SubSeq(t, (a + k) + 1, Len(t))
  <2>1. a + 1 \in Nat \ {0} /\ Len(t) <= Len(t) /\ a + 1 <= Len(t) + 1
        /\ k + 1 \in Nat \ {0} /\ Len(t) - a \in Nat
        /\ Len(t) - a <= Len(t) - (a + 1) + 1 /\ k + 1 <= (Len(t) - a) + 1
        /\ (a + 1) + (k + 1) - 1 = (a + k) + 1
        /\ (a + 1) + (Len(t) - a) - 1 = Len(t)
    BY <1>1, <1>4
  <2>2. SubSeq(s, k + 1, Len(t) - a)
        = SubSeq(t, (a + 1) + (k + 1) - 1, (a + 1) + (Len(t) - a) - 1)
    BY <1>1, <2>1, SliceOfSlice DEF s
  <2> QED
    BY <1>2, <1>3, <2>1, <2>2
<1>6. Len(r) = Len(t) - (a + k) /\ a + k \in a + from .. Len(t)
  <2>1. Len(r) = (Len(t) - a) - k
    BY <1>2, <1>3
  <2> HIDE DEF s
  <2>2. (Len(t) - a) - k = Len(t) - (a + k)
    BY <1>1, <1>4
  <2>3. a + k \in a + from .. Len(t)
    BY <1>1, <1>4
  <2> QED
    BY <2>1, <2>2, <2>3
<1>7. \A p \in a + from + 1 .. a + k : t[p] # Start
  <2> SUFFICES ASSUME NEW p \in a + from + 1 .. a + k PROVE t[p] # Start
    OBVIOUS
  <2>1. p - a \in from + 1 .. k /\ p - a \in 1 .. Len(t) - a /\ a + (p - a) = p
    BY <1>1, <1>4
  <2> QED
    BY <1>2, <1>3, <2>1
<1> HIDE DEF r
<1> QED
  BY <1>3, <1>5, <1>6, <1>7 DEF r, s

\* The candidate was dropped up to the byte b of what arrived.
ShiftedTo(b) ==
  /\ b \in Dropped + 1 .. Len(received)
  /\ raw' = SubSeq(received, b + 1, Len(received))
  /\ raw' \in Seq(Bytes) /\ Len(raw') = Len(received) - b /\ BeginsWell'
  /\ received' = received /\ delivered \subseteq delivered'
  /\ \A p \in Dropped + 1 .. b :
       received[p] = Start => InGoodFrame(p)' \/ NoFrameAt(p)

LEMMA ShiftKeeps ==
  ASSUME ParserInv, NEW b, ShiftedTo(b)
  PROVE  /\ Dropped' = b /\ Len(raw') <= Len(received') /\ Judged'
         /\ raw' = SubSeq(received', Len(received') - Len(raw') + 1, Len(received'))
<1>1. /\ Len(raw) \in Nat /\ Len(received) \in Nat /\ Len(raw) <= Len(received)
      /\ Dropped = Len(received) - Len(raw) /\ Judged
  BY LenProperties DEF ParserInv, ParserTypeOK, InPlace, Dropped
<1>2. /\ b \in Dropped + 1 .. Len(received) /\ received' = received
      /\ raw' = SubSeq(received, b + 1, Len(received)) /\ Len(raw') = Len(received) - b
      /\ delivered \subseteq delivered'
      /\ \A p \in Dropped + 1 .. b :
           received[p] = Start => InGoodFrame(p)' \/ NoFrameAt(p)
  BY DEF ShiftedTo
<1>3. Dropped' = b
  BY <1>1, <1>2 DEF Dropped
<1>4. Len(received') - Len(raw') = b /\ Len(raw') <= Len(received')
  BY <1>1, <1>2
<1>5. raw' = SubSeq(received', Len(received') - Len(raw') + 1, Len(received'))
  BY <1>2, <1>4
<1>6. \A p : NoFrameAt(p) => NoFrameAt(p)'
  BY <1>2 DEF NoFrameAt
<1>7. \A p : InGoodFrame(p) => InGoodFrame(p)'
  BY <1>2 DEF InGoodFrame, LastOf
<1>8. Judged'
  <2> SUFFICES ASSUME NEW p \in 1 .. Dropped', received'[p] = Start
               PROVE  InGoodFrame(p)' \/ NoFrameAt(p)'
    BY DEF Judged
  <2>1. CASE p \in 1 .. Dropped
    BY <1>1, <1>2, <1>6, <1>7, <2>1 DEF Judged
  <2>2. CASE p \notin 1 .. Dropped
    <3>1. p \in Dropped + 1 .. b
      BY <1>1, <1>2, <1>3, <2>2
    <3> QED
      BY <1>2, <1>6, <3>1
  <2> QED
    BY <2>1, <2>2
<1> QED
  BY <1>3, <1>4, <1>5, <1>8

\* The candidate in what arrived.
LEMMA CandidateInPlace ==
  ASSUME ParserInv, Len(raw) >= HeaderLen
  PROVE  /\ Dropped \in Nat /\ Dropped + Len(raw) = Len(received)
         /\ Len(raw) \in Nat /\ Len(received) \in Nat
         /\ raw = SubSeq(received, Dropped + 1, Len(received))
         /\ LenOf(raw) \in Nat /\ received[Dropped + 1 + HeaderLen - 1] = LenOf(raw)
         /\ \A i \in 1 .. Len(raw) : raw[i] = received[Dropped + i]
<1>1. /\ Len(raw) \in Nat /\ Len(received) \in Nat /\ Len(raw) <= Len(received)
      /\ Dropped = Len(received) - Len(raw)
      /\ raw = SubSeq(received, Len(received) - Len(raw) + 1, Len(received))
      /\ raw \in Seq(Bytes) /\ received \in Seq(Bytes)
  BY LenProperties DEF ParserInv, ParserTypeOK, InPlace, DeliveredAsSent, Dropped
<1>2. Dropped \in Nat /\ Dropped + Len(raw) = Len(received)
  BY <1>1
<1>3. raw = SubSeq(received, Dropped + 1, Len(received))
  BY <1>1
<1>4. \A i \in 1 .. Len(raw) : raw[i] = received[Dropped + i]
  <2>1. Dropped + 1 \in Nat \ {0} /\ Len(received) <= Len(received)
        /\ Dropped + 1 <= Len(received) + 1
        /\ Len(received) - (Dropped + 1) + 1 = Len(raw)
    BY <1>1, <1>2
  <2>2. \A i \in 1 .. Len(received) - (Dropped + 1) + 1 :
          SubSeq(received, Dropped + 1, Len(received))[i] = received[(Dropped + 1) + i - 1]
    BY <1>1, <2>1, Slice
  <2>3. \A i \in 1 .. Len(raw) : (Dropped + 1) + i - 1 = Dropped + i
    BY <1>2
  <2> QED
    BY <1>3, <2>1, <2>2, <2>3
<1>5. HeaderLen \in 1 .. Len(raw) /\ Dropped + 1 + HeaderLen - 1 = Dropped + HeaderLen
  BY <1>1, <1>2, Layout
<1>6. raw[HeaderLen] \in Bytes
  BY <1>1, <1>5, ElementOfSeq
<1> QED
  BY <1>1, <1>2, <1>3, <1>4, <1>5, <1>6, Layout DEF LenOf

\* A candidate that is dropped as a false start is judged, and so is what is
\* dropped with it.
LEMMA BadIsPassed ==
  ASSUME ParserInv, Len(raw) >= HeaderLen, NoFrameAt(Dropped + 1),
         raw' = SeekStart(raw, AFTER_FALSE_START),
         received' = received, delivered \subseteq delivered'
  PROVE  \E b : ShiftedTo(b)
<1>1. /\ Dropped \in Nat /\ Dropped + Len(raw) = Len(received)
      /\ Len(raw) \in Nat /\ Len(received) \in Nat
      /\ raw = SubSeq(received, Dropped + 1, Len(received))
  BY CandidateInPlace
<1>2. 1 \in {0, 1} /\ Dropped + 1 <= Len(received)
  BY <1>1, Layout
<1>3. received \in Seq(Bytes)
  BY DEF ParserInv, ParserTypeOK
<1>4. raw' = SeekStart(SubSeq(received, Dropped + 1, Len(received)), 1)
  BY <1>1 DEF AFTER_FALSE_START
<1>5. PICK b \in Dropped + 1 .. Len(received) :
        /\ raw' = SubSeq(received, b + 1, Len(received))
        /\ raw' \in Seq(Bytes) /\ Len(raw') = Len(received) - b
        /\ \A p \in Dropped + 1 + 1 .. b : received[p] # Start
        /\ raw' # <<>> => raw'[1] = Start
  <2> DEFINE r == SeekStart(SubSeq(received, Dropped + 1, Len(received)), 1)
  <2>1. \E b \in Dropped + 1 .. Len(received) :
          /\ r = SubSeq(received, b + 1, Len(received))
          /\ r \in Seq(Bytes) /\ Len(r) = Len(received) - b
          /\ \A p \in Dropped + 1 + 1 .. b : received[p] # Start
          /\ r # <<>> => r[1] = Start
    BY <1>1, <1>2, <1>3, Search
  <2> HIDE DEF r
  <2>2. raw' = r
    BY <1>4 DEF r
  <2> QED
    BY <2>1, <2>2
<1>6. ASSUME NEW p \in Dropped + 1 .. b, received[p] = Start PROVE NoFrameAt(p)
  <2>1. p = Dropped + 1
    BY <1>1, <1>5, <1>6
  <2> QED
    BY <2>1
<1>7. ShiftedTo(b)
  BY <1>5, <1>6 DEF ShiftedTo, BeginsWell
<1> QED
  BY <1>7
\* A good frame is passed over as a whole.
LEMMA GoodIsPassed ==
  ASSUME ParserInv, Len(raw) >= HeaderLen, NEW size \in Nat \ {0}, size <= Len(raw),
         raw' = SeekStart(SubSeq(raw, size + 1, Len(raw)), FROM_FIRST_BYTE),
         received' = received, delivered \subseteq delivered',
         \A p \in Dropped + 1 .. Dropped + size : InGoodFrame(p)'
  PROVE  \E b : ShiftedTo(b) /\ Dropped + size <= b
<1> DEFINE a == Dropped + size
<1>1. /\ Dropped \in Nat /\ Dropped + Len(raw) = Len(received)
      /\ Len(raw) \in Nat /\ Len(received) \in Nat
  BY CandidateInPlace
<1>2. received \in Seq(Bytes)
  BY DEF ParserInv, ParserTypeOK
<1>3. a \in Nat /\ a + 0 <= Len(received) /\ 0 \in {0, 1}
  BY <1>1
<1>4. SubSeq(raw, size + 1, Len(raw)) = SubSeq(received, a + 1, Len(received))
  <2> DEFINE m == Dropped + 1
  <2>1. m \in Nat \ {0} /\ Len(received) <= Len(received) /\ m <= Len(received) + 1
        /\ size + 1 \in Nat \ {0} /\ Len(raw) <= Len(received) - m + 1
        /\ size + 1 <= Len(raw) + 1
    BY <1>1
  <2>2. m + (size + 1) - 1 = a + 1 /\ m + Len(raw) - 1 = Len(received)
    BY <1>1
  <2>3. raw = SubSeq(received, m, Len(received))
    BY CandidateInPlace
  <2> HIDE DEF m, a
  <2>4. SubSeq(SubSeq(received, m, Len(received)), size + 1, Len(raw))
        = SubSeq(received, m + (size + 1) - 1, m + Len(raw) - 1)
    BY <1>1, <1>2, <2>1, SliceOfSlice
  <2> QED
    BY <2>2, <2>3, <2>4
<1> DEFINE r == SeekStart(SubSeq(received, a + 1, Len(received)), 0)
<1>5. raw' = r
  BY <1>4 DEF FROM_FIRST_BYTE
<1> HIDE DEF a
<1>6. \E b \in a + 0 .. Len(received) :
        /\ r = SubSeq(received, b + 1, Len(received))
        /\ r \in Seq(Bytes) /\ Len(r) = Len(received) - b
        /\ \A p \in a + 0 + 1 .. b : received[p] # Start
        /\ r # <<>> => r[1] = Start
  BY <1>2, <1>3, Search
<1> HIDE DEF r
<1>7. PICK b \in a + 0 .. Len(received) :
        /\ r = SubSeq(received, b + 1, Len(received))
        /\ r \in Seq(Bytes) /\ Len(r) = Len(received) - b
        /\ \A p \in a + 0 + 1 .. b : received[p] # Start
        /\ r # <<>> => r[1] = Start
  BY <1>6
<1>8. b \in Dropped + 1 .. Len(received) /\ Dropped + size <= b
  BY <1>1, <1>3, <1>7 DEF a
<1>9. ASSUME NEW p \in Dropped + 1 .. b, received[p] = Start PROVE InGoodFrame(p)'
  <2>1. CASE p \in Dropped + 1 .. Dropped + size
    BY <2>1
  <2>2. CASE p \notin Dropped + 1 .. Dropped + size
    <3>1. p \in a + 0 + 1 .. b
      BY <1>1, <1>3, <1>8, <2>2 DEF a
    <3> QED
      BY <1>7, <1>9, <3>1
  <2> QED
    BY <2>1, <2>2
<1>10. ShiftedTo(b)
  BY <1>5, <1>7, <1>8, <1>9 DEF ShiftedTo, BeginsWell
<1> QED
  BY <1>8, <1>10

LEMMA InvStart == Init => ParserInv
<1> SUFFICES ASSUME Init PROVE ParserInv
  OBVIOUS
<1>1. raw = <<>> /\ received = <<>> /\ scanning = FALSE /\ delivered = {}
  BY DEF Init
<1>2. Len(raw) = 0 /\ Len(received) = 0
  BY <1>1
<1>3. ParserTypeOK
  <2>1. raw \in Seq(Bytes) /\ received \in Seq(Bytes)
    BY <1>1, EmptySeq
  <2>2. scanning \in BOOLEAN /\ delivered \subseteq Records
    BY <1>1
  <2> QED
    BY <2>1, <2>2 DEF ParserTypeOK
<1>4. DeliveredAsSent
  <2>1. SubSeq(received, Len(received) - Len(raw) + 1, Len(received)) = <<>>
    BY <1>1, <1>2
  <2> QED
    BY <1>1, <2>1 DEF DeliveredAsSent
<1>5. InPlace
  BY <1>1, <1>2, <1>4 DEF InPlace, GoodFramesDisjoint
<1>6. BeginsWell /\ CandidateIsOpen /\ Judged
  BY <1>1, <1>2, Layout DEF BeginsWell, CandidateIsOpen, Judged, Dropped
<1> QED
  BY <1>3, <1>5, <1>6 DEF ParserInv

LEMMA FeedKeepsInv ==
  ASSUME ParserInv, NEW byte \in Bytes, Feed(byte) PROVE ParserInv'
<1> DEFINE k == Len(received)
<1>1. /\ ~ scanning /\ received' = Append(received, byte) /\ delivered' = delivered
      /\ \/ raw = <<>> /\ byte # Start /\ raw' = raw /\ scanning' = scanning
         \/ (raw # <<>> \/ byte = Start) /\ raw' = Append(raw, byte) /\ scanning' = TRUE
  BY DEF Feed
<1>2. /\ raw \in Seq(Bytes) /\ received \in Seq(Bytes) /\ scanning \in BOOLEAN
      /\ delivered \subseteq Records
      /\ Len(raw) \in Nat /\ k \in Nat /\ Len(raw) <= k
      /\ raw = SubSeq(received, k - Len(raw) + 1, k) /\ Dropped = k - Len(raw)
  BY LenProperties DEF ParserInv, ParserTypeOK, InPlace, DeliveredAsSent, Dropped
<1>3. /\ received' \in Seq(Bytes) /\ Len(received') = k + 1
      /\ (\A p \in 1 .. k : received'[p] = received[p]) /\ received'[k + 1] = byte
  BY <1>1, <1>2, AppendProperties
<1>4. \A d \in delivered : d.first \in Nat \ {0} /\ Len(d.bytes) \in Nat
                           /\ LastOf(d) = d.first + Len(d.bytes) - 1 /\ LastOf(d) <= k
                           /\ d.bytes = SubSeq(received, d.first, LastOf(d))
  <2> SUFFICES ASSUME NEW d \in delivered
               PROVE  d.first \in Nat \ {0} /\ Len(d.bytes) \in Nat
                      /\ LastOf(d) = d.first + Len(d.bytes) - 1 /\ LastOf(d) <= k
                      /\ d.bytes = SubSeq(received, d.first, LastOf(d))
    OBVIOUS
  <2>1. d \in Records
    BY <1>2
  <2>2. d.first \in Nat \ {0} /\ d.bytes \in Seq(Bytes)
    BY <2>1 DEF Records
  <2>3. Len(d.bytes) \in Nat
    BY <2>2, LenProperties
  <2>4. LastOf(d) <= k /\ d.bytes = SubSeq(received, d.first, LastOf(d))
    BY DEF ParserInv, InPlace, DeliveredAsSent
  <2> QED
    BY <2>2, <2>3, <2>4 DEF LastOf
<1>5. \A d \in delivered : d.bytes = SubSeq(received', d.first, LastOf(d))
  <2> SUFFICES ASSUME NEW d \in delivered
               PROVE  d.bytes = SubSeq(received', d.first, LastOf(d))
    OBVIOUS
  <2> DEFINE m == d.first
             n == LastOf(d)
  <2>1. m \in Nat \ {0} /\ n \in Nat /\ n <= k /\ m <= n + 1
        /\ d.bytes = SubSeq(received, m, n)
    BY <1>2, <1>4
  <2> HIDE DEF m, n
  <2>2. SubSeq(Append(received, byte), m, n) = SubSeq(received, m, n)
    BY <1>2, <2>1, SliceOfLonger
  <2> QED
    BY <1>1, <2>1, <2>2 DEF m, n
<1>6. ASSUME NEW p \in 1 .. k, NoFrameAt(p) PROVE NoFrameAt(p)'
  <2> DEFINE n == received[p + HeaderLen - 1]
             last == p + Overhead + n - 1
  <2>1. /\ p + HeaderLen - 1 <= k
        /\ \/ n > MaxPayload
           \/ last <= k /\ ~ Good(SubSeq(received, p, last))
    BY <1>6 DEF NoFrameAt
  <2>2. p + HeaderLen - 1 \in 1 .. k
    BY <1>2, <2>1, Layout
  <2>3. received'[p + HeaderLen - 1] = n /\ p + HeaderLen - 1 <= Len(received')
    BY <1>2, <1>3, <2>1, <2>2
  <2>4. n \in Nat
    BY <1>2, <2>2, ElementOfSeq, Layout
  <2>5. last <= k => last <= Len(received')
                     /\ SubSeq(received', p, last) = SubSeq(received, p, last)
    <3> SUFFICES ASSUME last <= k
                 PROVE  last <= Len(received')
                        /\ SubSeq(received', p, last) = SubSeq(received, p, last)
      OBVIOUS
    <3>1. p \in Nat \ {0} /\ last \in Nat /\ p <= last + 1
      BY <1>2, <2>4, Layout
    <3>2. last <= Len(received')
      BY <1>2, <1>3, <3>1
    <3> HIDE DEF last
    <3>3. SubSeq(Append(received, byte), p, last) = SubSeq(received, p, last)
      BY <1>2, <3>1, SliceOfLonger
    <3> QED
      BY <1>1, <3>2, <3>3
  <2> QED
    BY <2>1, <2>3, <2>5 DEF NoFrameAt
<1>7. \A p : InGoodFrame(p)' = InGoodFrame(p)
  BY <1>1 DEF InGoodFrame
<1>8. GoodFramesDisjoint'
  BY <1>1 DEF ParserInv, InPlace, GoodFramesDisjoint
<1>9. BeginsWell /\ Judged /\ \A d \in delivered : d.good => LastOf(d) <= Dropped
  BY DEF ParserInv, InPlace
<1>10. CASE raw = <<>> /\ byte # Start /\ raw' = raw /\ scanning' = scanning
  <2>1. Len(raw) = 0 /\ Len(raw') = 0 /\ Dropped = k /\ Dropped' = k + 1
    BY <1>2, <1>3, <1>10 DEF Dropped
  <2>2. raw' = SubSeq(received', Len(received') - Len(raw') + 1, Len(received'))
    <3>1. Len(received') - Len(raw') + 1 = k + 2
      BY <1>2, <1>3, <2>1
    <3>2. SubSeq(received', k + 2, k + 1) = <<>>
      <4>1. k + 2 \in Nat \ {0} /\ k + 1 \in Nat /\ k + 1 <= Len(received')
            /\ k + 2 <= (k + 1) + 1 /\ (k + 1) - (k + 2) + 1 = 0
        BY <1>2, <1>3
      <4>2. SubSeq(received', k + 2, k + 1) \in Seq(Bytes)
            /\ Len(SubSeq(received', k + 2, k + 1)) = (k + 1) - (k + 2) + 1
        BY <1>3, <4>1, Slice
      <4> QED
        BY <4>1, <4>2, EmptySeq
    <3> QED
      BY <1>3, <1>10, <3>1, <3>2
  <2>3. ParserTypeOK'
    BY <1>1, <1>2, <1>3, <1>10 DEF ParserTypeOK
  <2>4. InPlace'
    <3>1. DeliveredAsSent'
      BY <1>1, <1>5, <2>2 DEF DeliveredAsSent
    <3>2. Len(raw') <= Len(received')
      BY <1>2, <1>3, <2>1
    <3>3. \A d \in delivered : LastOf(d) <= Len(received')
      BY <1>2, <1>3, <1>4
    <3>4. \A d \in delivered : d.good => LastOf(d) <= Dropped'
      BY <1>2, <1>4, <1>9, <2>1
    <3> QED
      BY <1>1, <1>8, <3>1, <3>2, <3>3, <3>4 DEF InPlace
  <2>5. Judged'
    <3> SUFFICES ASSUME NEW p \in 1 .. Dropped', received'[p] = Start
                 PROVE  InGoodFrame(p)' \/ NoFrameAt(p)'
      BY DEF Judged
    <3>1. p \in 1 .. k /\ p \in 1 .. Dropped
      BY <1>2, <1>3, <1>10, <2>1
    <3> QED
      BY <1>3, <1>6, <1>7, <1>9, <3>1 DEF Judged
  <2>6. BeginsWell' /\ CandidateIsOpen'
    BY <1>10, <2>1, Layout DEF BeginsWell, CandidateIsOpen
  <2> QED
    BY <2>3, <2>4, <2>5, <2>6 DEF ParserInv
<1>11. CASE (raw # <<>> \/ byte = Start) /\ raw' = Append(raw, byte) /\ scanning' = TRUE
  <2>1. /\ raw' \in Seq(Bytes) /\ Len(raw') = Len(raw) + 1
        /\ (\A i \in 1 .. Len(raw) : raw'[i] = raw[i]) /\ raw'[Len(raw) + 1] = byte
    BY <1>2, <1>11, AppendProperties
  <2>2. Dropped' = Dropped /\ Dropped <= k
    BY <1>2, <1>3, <2>1 DEF Dropped
  <2>3. raw' = SubSeq(received', Len(received') - Len(raw') + 1, Len(received'))
    <3> DEFINE m == k - Len(raw) + 1
    <3>1. m \in Nat \ {0} /\ k <= k /\ m <= k + 1
          /\ Len(received') - Len(raw') + 1 = m /\ Len(received') = k + 1
      BY <1>2, <1>3, <2>1
    <3>2. raw = SubSeq(received, m, k)
      BY <1>2
    <3> HIDE DEF m
    <3>3. SubSeq(Append(received, byte), m, k + 1) = Append(SubSeq(received, m, k), byte)
      BY <1>2, <3>1, SliceOfLonger
    <3> QED
      BY <1>1, <1>11, <3>1, <3>2, <3>3
  <2>4. ParserTypeOK'
    BY <1>1, <1>2, <1>3, <1>11, <2>1 DEF ParserTypeOK
  <2>5. InPlace'
    <3>1. DeliveredAsSent'
      BY <1>1, <1>5, <2>3 DEF DeliveredAsSent
    <3>2. Len(raw') <= Len(received')
      BY <1>2, <1>3, <2>1
    <3>3. \A d \in delivered : LastOf(d) <= Len(received')
      BY <1>2, <1>3, <1>4
    <3>4. \A d \in delivered : d.good => LastOf(d) <= Dropped'
      BY <1>2, <1>4, <1>9, <2>2
    <3> QED
      BY <1>1, <1>8, <3>1, <3>2, <3>3, <3>4 DEF InPlace
  <2>6. Judged'
    <3> SUFFICES ASSUME NEW p \in 1 .. Dropped', received'[p] = Start
                 PROVE  InGoodFrame(p)' \/ NoFrameAt(p)'
      BY DEF Judged
    <3>1. p \in 1 .. k /\ p \in 1 .. Dropped
      BY <1>2, <2>2
    <3> QED
      BY <1>3, <1>6, <1>7, <1>9, <3>1 DEF Judged
  <2>7. BeginsWell'
    <3>1. CASE raw # <<>>
      <4>1. 1 \in 1 .. Len(raw)
        BY <1>2, <3>1, EmptySeq
      <4> QED
        BY <1>9, <2>1, <3>1, <4>1 DEF BeginsWell
    <3>2. CASE raw = <<>>
      BY <1>11, <2>1, <3>2 DEF BeginsWell
    <3> QED
      BY <3>1, <3>2
  <2>8. CandidateIsOpen'
    BY <1>11 DEF CandidateIsOpen
  <2> QED
    BY <2>4, <2>5, <2>6, <2>7, <2>8 DEF ParserInv
<1> QED
  BY <1>1, <1>10, <1>11
LEMMA WaitKeepsInv ==
  ASSUME ParserInv, Wait PROVE ParserInv'
<1>1. /\ raw' = raw /\ received' = received /\ delivered' = delivered /\ scanning' = FALSE
      /\ Len(raw) >= HeaderLen => LenOf(raw) <= MaxPayload /\ Len(raw) < Total(raw)
  BY DEF Wait
<1>2. /\ ParserTypeOK' /\ InPlace' /\ BeginsWell' /\ Judged'
  BY <1>1
  DEF ParserInv, ParserTypeOK, InPlace, DeliveredAsSent, GoodFramesDisjoint, LastOf,
      BeginsWell, Judged, Dropped, InGoodFrame, NoFrameAt
<1>3. Len(raw) < MaxSize
  <2>1. Len(raw) \in Nat
    BY LenProperties DEF ParserInv, ParserTypeOK
  <2>2. CASE Len(raw) >= HeaderLen
    BY <1>1, <2>1, <2>2, CandidateInPlace, Layout DEF Total
  <2>3. CASE ~ (Len(raw) >= HeaderLen)
    BY <2>1, <2>3, Layout
  <2> QED
    BY <2>2, <2>3
<1>4. CandidateIsOpen'
  BY <1>1, <1>3 DEF CandidateIsOpen, ParserInv, BeginsWell
<1> QED
  BY <1>2, <1>4 DEF ParserInv

\* What stays true of the rest when the candidate is shifted.
LEMMA ShiftKeepsInv ==
  ASSUME ParserInv, NEW b, ShiftedTo(b), scanning' = TRUE,
         delivered' \subseteq Records,
         \A d \in delivered' : d.bytes = SubSeq(received, d.first, LastOf(d))
                               /\ LastOf(d) <= Len(received)
                               /\ (d.good => LastOf(d) <= b),
         GoodFramesDisjoint'
  PROVE  ParserInv'
<1>1. received' = received /\ raw' \in Seq(Bytes) /\ BeginsWell'
  BY DEF ShiftedTo
<1>2. /\ Dropped' = b /\ Len(raw') <= Len(received') /\ Judged'
      /\ raw' = SubSeq(received', Len(received') - Len(raw') + 1, Len(received'))
  BY ShiftKeeps
<1>3. ParserTypeOK'
  BY <1>1 DEF ParserInv, ParserTypeOK
<1>4. DeliveredAsSent'
  BY <1>1, <1>2 DEF DeliveredAsSent
<1>5. InPlace'
  BY <1>1, <1>2, <1>4 DEF InPlace
<1>6. CandidateIsOpen'
  BY DEF CandidateIsOpen
<1> QED
  BY <1>1, <1>2, <1>3, <1>5, <1>6 DEF ParserInv

LEMMA FalseStartKeepsInv ==
  ASSUME ParserInv, FalseStart PROVE ParserInv'
<1>1. /\ scanning /\ Len(raw) >= HeaderLen /\ LenOf(raw) > MaxPayload
      /\ raw' = SeekStart(raw, AFTER_FALSE_START)
      /\ scanning' = scanning /\ received' = received /\ delivered' = delivered
  BY DEF FalseStart
<1>2. NoFrameAt(Dropped + 1)
  <2>1. /\ Dropped \in Nat /\ Dropped + Len(raw) = Len(received) /\ Len(raw) \in Nat
        /\ received[Dropped + 1 + HeaderLen - 1] = LenOf(raw)
    BY <1>1, CandidateInPlace
  <2>2. Dropped + 1 + HeaderLen - 1 <= Len(received)
    BY <1>1, <2>1, Layout
  <2> QED
    BY <1>1, <2>1, <2>2 DEF NoFrameAt
<1>3. PICK b : ShiftedTo(b)
  BY <1>1, <1>2, BadIsPassed
<1>4. /\ Dropped <= b /\ \A d \in delivered : d.good => LastOf(d) <= b
  <2>1. \A d \in delivered : d.good => LastOf(d) <= Dropped
    BY DEF ParserInv, InPlace
  <2>2. b \in Dropped + 1 .. Len(received) /\ Dropped \in Nat
    BY <1>1, <1>3, CandidateInPlace DEF ShiftedTo
  <2>3. \A d \in delivered : LastOf(d) \in Int
    <3> SUFFICES ASSUME NEW d \in delivered PROVE LastOf(d) \in Int
      OBVIOUS
    <3>1. d \in Records
      BY DEF ParserInv, ParserTypeOK
    <3>2. d.first \in Nat /\ Len(d.bytes) \in Nat
      BY <3>1, LenProperties DEF Records
    <3> QED
      BY <3>2 DEF LastOf
  <2> QED
    BY <2>1, <2>2, <2>3
<1>5. scanning' = TRUE /\ delivered' \subseteq Records /\ GoodFramesDisjoint'
  BY <1>1 DEF ParserInv, ParserTypeOK, InPlace, GoodFramesDisjoint
<1>6. \A d \in delivered' : d.bytes = SubSeq(received, d.first, LastOf(d))
                            /\ LastOf(d) <= Len(received)
                            /\ (d.good => LastOf(d) <= b)
  BY <1>1, <1>4 DEF ParserInv, InPlace, DeliveredAsSent
<1> QED
  BY <1>3, <1>5, <1>6, ShiftKeepsInv

LEMMA DeliverKeepsInv ==
  ASSUME ParserInv, Deliver PROVE ParserInv'
<1> DEFINE size == Total(raw)
           frame == SubSeq(raw, 1, size)
           new == [first |-> Len(received) - Len(raw) + 1, bytes |-> frame,
                   good |-> Good(frame)]
<1>1. /\ scanning /\ Len(raw) >= HeaderLen /\ LenOf(raw) <= MaxPayload
      /\ Len(raw) >= size
      /\ delivered' = delivered \cup {new} /\ raw' = Rest(frame)
      /\ scanning' = scanning /\ received' = received
  BY DEF Deliver
<1>2. /\ Dropped \in Nat /\ Dropped + Len(raw) = Len(received)
      /\ Len(raw) \in Nat /\ Len(received) \in Nat
      /\ LenOf(raw) \in Nat /\ received[Dropped + 1 + HeaderLen - 1] = LenOf(raw)
  BY <1>1, CandidateInPlace
<1>3. size = Overhead + LenOf(raw) /\ size \in Nat \ {0} /\ size <= Len(raw)
      /\ size >= HeaderLen
  BY <1>1, <1>2, Layout DEF Total
<1>4. raw \in Seq(Bytes) /\ received \in Seq(Bytes) /\ delivered \subseteq Records
  BY DEF ParserInv, ParserTypeOK
<1> HIDE DEF size
<1>5. frame \in Seq(Bytes) /\ Len(frame) = size
  <2>1. 1 \in Nat \ {0} /\ 1 <= size + 1 /\ size - 1 + 1 = size
    BY <1>3
  <2> QED
    BY <1>2, <1>3, <1>4, <2>1, Slice
<1>6. frame = SubSeq(received, Dropped + 1, Dropped + size)
  <2> DEFINE m == Dropped + 1
  <2>1. m \in Nat \ {0} /\ Len(received) <= Len(received) /\ m <= Len(received) + 1
        /\ size <= Len(received) - m + 1 /\ 1 <= size + 1 /\ 1 \in Nat \ {0}
        /\ size \in Nat
    BY <1>2, <1>3
  <2>2. m + 1 - 1 = Dropped + 1 /\ m + size - 1 = Dropped + size
    BY <1>2, <1>3
  <2>3. raw = SubSeq(received, m, Len(received))
    BY <1>1, CandidateInPlace
  <2> HIDE DEF m
  <2>4. SubSeq(SubSeq(received, m, Len(received)), 1, size)
        = SubSeq(received, m + 1 - 1, m + size - 1)
    BY <1>2, <1>4, <2>1, SliceOfSlice
  <2> QED
    BY <2>2, <2>3, <2>4
<1> HIDE DEF frame
<1>7. /\ new \in Records /\ new.first = Dropped + 1 /\ LastOf(new) = Dropped + size
      /\ new.bytes = frame /\ new.good = Good(frame)
  <2>1. Len(received) - Len(raw) + 1 = Dropped + 1 /\ Dropped + 1 \in Nat \ {0}
    BY <1>2
  <2>2. Good(frame) \in BOOLEAN
    BY DEF Good
  <2>3. new \in Records
    BY <1>5, <2>1, <2>2 DEF Records
  <2>4. new.first = Dropped + 1 /\ new.bytes = frame /\ new.good = Good(frame)
    BY <2>1
  <2>5. LastOf(new) = Dropped + size
    <3> HIDE DEF new
    <3> QED
      BY <1>2, <1>3, <1>5, <2>4 DEF LastOf
  <2> QED
    BY <2>3, <2>4, <2>5
<1> HIDE DEF new
<1>8. \A d \in delivered : /\ LastOf(d) \in Int /\ LastOf(d) <= Len(received)
                           /\ d.bytes = SubSeq(received, d.first, LastOf(d))
                           /\ d.good => LastOf(d) <= Dropped
  <2> SUFFICES ASSUME NEW d \in delivered
               PROVE  /\ LastOf(d) \in Int /\ LastOf(d) <= Len(received)
                      /\ d.bytes = SubSeq(received, d.first, LastOf(d))
                      /\ d.good => LastOf(d) <= Dropped
    OBVIOUS
  <2>1. d \in Records
    BY <1>4
  <2>2. d.first \in Nat /\ Len(d.bytes) \in Nat
    BY <2>1, LenProperties DEF Records
  <2>3. LastOf(d) \in Int
    BY <2>2 DEF LastOf
  <2> QED
    BY <2>3 DEF ParserInv, InPlace, DeliveredAsSent
<1>9. PICK b : ShiftedTo(b) /\ (Good(frame) => Dropped + size <= b)
  <2>1. CASE Good(frame)
    <3>1. raw' = SeekStart(SubSeq(raw, size + 1, Len(raw)), FROM_FIRST_BYTE)
      BY <1>1, <1>5, <2>1 DEF Rest
    <3>2. ASSUME NEW p \in Dropped + 1 .. Dropped + size PROVE InGoodFrame(p)'
      <4>1. new \in delivered' /\ new.good /\ new.first <= p /\ p <= LastOf(new)
        BY <1>1, <1>2, <1>3, <1>7, <2>1
      <4> QED
        BY <4>1 DEF InGoodFrame
    <3>3. \E b : ShiftedTo(b) /\ Dropped + size <= b
      BY <1>1, <1>3, <3>1, <3>2, GoodIsPassed
    <3> QED
      BY <3>3
  <2>2. CASE ~ Good(frame)
    <3>1. raw' = SeekStart(raw, AFTER_FALSE_START)
      BY <1>1, <2>2 DEF Rest
    <3>2. NoFrameAt(Dropped + 1)
      <4>1. Dropped + 1 + Overhead + LenOf(raw) - 1 = Dropped + size
        BY <1>2, <1>3, Layout
      <4>2. Dropped + 1 + HeaderLen - 1 <= Len(received) /\ Dropped + size <= Len(received)
        BY <1>1, <1>2, <1>3, Layout
      <4> QED
        BY <1>2, <1>6, <2>2, <4>1, <4>2 DEF NoFrameAt
    <3>3. \E b : ShiftedTo(b)
      BY <1>1, <3>1, <3>2, BadIsPassed
    <3> QED
      BY <2>2, <3>3
  <2> QED
    BY <2>1, <2>2
<1>10. b \in Int /\ Dropped <= b /\ Dropped + size <= Len(received)
  BY <1>2, <1>3, <1>9 DEF ShiftedTo
<1>11. \A d \in delivered' : d.bytes = SubSeq(received, d.first, LastOf(d))
                             /\ LastOf(d) <= Len(received)
                             /\ (d.good => LastOf(d) <= b)
  <2> SUFFICES ASSUME NEW d \in delivered'
               PROVE  d.bytes = SubSeq(received, d.first, LastOf(d))
                      /\ LastOf(d) <= Len(received) /\ (d.good => LastOf(d) <= b)
    OBVIOUS
  <2>1. CASE d \in delivered
    BY <1>2, <1>8, <1>10, <2>1
  <2>2. CASE d = new
    BY <1>6, <1>7, <1>9, <1>10, <2>2
  <2> QED
    BY <1>1, <2>1, <2>2
<1>12. GoodFramesDisjoint'
  <2> SUFFICES ASSUME NEW d \in delivered', NEW e \in delivered', d.good, e.good, d # e
               PROVE  LastOf(d) < e.first \/ LastOf(e) < d.first
    BY DEF GoodFramesDisjoint
  <2>1. CASE d \in delivered /\ e \in delivered
    BY <2>1 DEF ParserInv, InPlace, GoodFramesDisjoint
  <2>2. CASE d \in delivered /\ e = new
    BY <1>2, <1>7, <1>8, <2>2
  <2>3. CASE e \in delivered /\ d = new
    BY <1>2, <1>7, <1>8, <2>3
  <2> QED
    BY <1>1, <2>1, <2>2, <2>3
<1>13. delivered' \subseteq Records /\ scanning' = TRUE
  BY <1>1, <1>4, <1>7 DEF ParserInv, ParserTypeOK
<1> QED
  BY <1>9, <1>11, <1>12, <1>13, ShiftKeepsInv

LEMMA StepKeepsInv == ParserInv /\ [Next]_vars => ParserInv'
<1> SUFFICES ASSUME ParserInv, [Next]_vars PROVE ParserInv'
  OBVIOUS
<1>1. CASE \E byte \in Bytes : Feed(byte)
  BY <1>1, FeedKeepsInv
<1>2. CASE Wait
  BY <1>2, WaitKeepsInv
<1>3. CASE FalseStart
  BY <1>3, FalseStartKeepsInv
<1>4. CASE Deliver
  BY <1>4, DeliverKeepsInv
<1>5. CASE UNCHANGED vars
  BY <1>5
  DEF vars, ParserInv, ParserTypeOK, InPlace, DeliveredAsSent, GoodFramesDisjoint, LastOf,
      BeginsWell, CandidateIsOpen, Judged, Dropped, InGoodFrame, NoFrameAt
<1> QED
  BY <1>1, <1>2, <1>3, <1>4, <1>5 DEF Next

LEMMA InvAlways == Spec => []ParserInv
BY InvStart, StepKeepsInv, PTL DEF Spec

-----------------------------------------------------------------------------
(***************************************************************************)
(* What it gives.                                                          *)
(***************************************************************************)
\* process() never leaves a candidate that it could have judged, and never one
\* that fills the buffer: the branch ota_frame.c calls unreachable is.
THEOREM CandidateStaysOpen == Spec => []CandidateIsOpen
<1>1. ParserInv => CandidateIsOpen
  BY DEF ParserInv
<1> QED
  BY <1>1, InvAlways, PTL

\* What the sink is given stood on the wire where the parser believes, and no byte
\* is part of two good frames.
THEOREM FramesStoodOnTheWire == Spec => []DeliveriesAreTrue
<1>1. ParserInv => DeliveriesAreTrue
  BY DEF ParserInv, InPlace, DeliveriesAreTrue
<1> QED
  BY <1>1, InvAlways, PTL

\* Where an encoded frame stands, the parser cannot judge that none does.
LEMMA EncodedIsAFrame ==
  ASSUME received \in Seq(Bytes), NEW p \in Nat \ {0}, NEW n \in 0 .. MaxPayload,
         p + Overhead + n - 1 <= Len(received),
         NEW sent, sent = SubSeq(received, p, p + Overhead + n - 1),
         sent = Encoded(SubSeq(sent, 2, HeaderLen - 1),
                        SubSeq(sent, HeaderLen + 1, HeaderLen + n))
  PROVE  received[p] = Start /\ ~ NoFrameAt(p)
<1> DEFINE last == p + Overhead + n - 1
           fields == SubSeq(sent, 2, HeaderLen - 1)
           payload == SubSeq(sent, HeaderLen + 1, HeaderLen + n)
<1>1. /\ n \in Nat /\ n <= MaxPayload /\ Len(received) \in Nat
      /\ last \in Nat /\ last <= Len(received) /\ p <= last + 1
      /\ last - p + 1 = HeaderLen + 1 + n
  BY LenProperties, Layout
<1>2. sent \in Seq(Bytes) /\ Len(sent) = HeaderLen + 1 + n
      /\ \A i \in 1 .. HeaderLen + 1 + n : sent[i] = received[p + i - 1]
  <2> HIDE DEF last
  <2>1. SubSeq(received, p, last) \in Seq(Bytes)
        /\ Len(SubSeq(received, p, last)) = last - p + 1
        /\ \A i \in 1 .. last - p + 1 : SubSeq(received, p, last)[i] = received[p + i - 1]
    BY <1>1, Slice
  <2>2. sent = SubSeq(received, p, last)
    BY DEF last
  <2> QED
    BY <1>1, <2>1, <2>2
<1>3. fields \in Seq(Bytes) /\ Len(fields) = HeaderLen - 2
  <2>1. 2 \in Nat \ {0} /\ HeaderLen - 1 \in Nat /\ HeaderLen - 1 <= Len(sent)
        /\ 2 <= (HeaderLen - 1) + 1 /\ (HeaderLen - 1) - 2 + 1 = HeaderLen - 2
    BY <1>1, <1>2, Layout
  <2> QED
    BY <1>2, <2>1, Slice
<1>4. payload \in Seq(Bytes) /\ Len(payload) = n
  <2>1. HeaderLen + 1 \in Nat \ {0} /\ HeaderLen + n \in Nat
        /\ HeaderLen + n <= Len(sent) /\ HeaderLen + 1 <= (HeaderLen + n) + 1
        /\ (HeaderLen + n) - (HeaderLen + 1) + 1 = n
    BY <1>1, <1>2, Layout
  <2> QED
    BY <1>2, <2>1, Slice
<1> HIDE DEF fields, payload
<1>5. sent = Encoded(fields, payload)
  BY DEF fields, payload
<1>6. sent[1] = Start /\ LenOf(sent) = n /\ Good(sent)
  <2> DEFINE e == Encoded(fields, payload)
  <2>1. Bytes \subseteq Nat
    BY Layout
  <2>2. e[1] = Start /\ LenOf(e) = Len(payload) /\ Good(e)
    BY <1>3, <1>4, <2>1, EncodedParts
  <2> HIDE DEF e
  <2>3. sent = e
    BY <1>5 DEF e
  <2> QED
    BY <1>4, <2>2, <2>3
<1>7. received[p] = Start /\ received[p + HeaderLen - 1] = n
  <2>1. 1 \in 1 .. HeaderLen + 1 + n /\ HeaderLen \in 1 .. HeaderLen + 1 + n
        /\ p + 1 - 1 = p
    BY <1>1, Layout
  <2>2. sent[1] = received[p + 1 - 1] /\ sent[HeaderLen] = received[p + HeaderLen - 1]
    BY <1>2, <2>1
  <2> QED
    BY <1>6, <2>1, <2>2 DEF LenOf
<1>8. ~ NoFrameAt(p)
  <2>1. ~ (n > MaxPayload)
    BY <1>1, Layout
  <2> QED
    BY <1>6, <1>7, <2>1 DEF NoFrameAt
<1> QED
  BY <1>7, <1>8

\* A frame the encoder wrote is never lost to garbage before it, around it or
\* inside a false frame that holds it.
THEOREM NoFrameIsLost == Spec => []NoFrameLost
<1>1. ASSUME ParserInv PROVE NoFrameLost
  <2> SUFFICES
        ASSUME NEW p \in 1 .. Len(received), NEW n \in 0 .. MaxPayload,
               p + Overhead + n - 1 <= Len(received),
               NEW sent, sent = SubSeq(received, p, p + Overhead + n - 1),
               sent = Encoded(SubSeq(sent, 2, HeaderLen - 1),
                              SubSeq(sent, HeaderLen + 1, HeaderLen + n))
        PROVE  \/ \E d \in delivered :
                    d.good /\ d.first <= p + Overhead + n - 1 /\ LastOf(d) >= p
               \/ raw # <<>> /\ Len(received) - Len(raw) + 1 <= p
    BY DEF NoFrameLost
  <2>1. /\ raw \in Seq(Bytes) /\ received \in Seq(Bytes)
        /\ Len(raw) \in Nat /\ Len(received) \in Nat /\ Len(raw) <= Len(received)
        /\ Dropped = Len(received) - Len(raw) /\ delivered \subseteq Records
    BY <1>1, LenProperties DEF ParserInv, ParserTypeOK, InPlace, Dropped
  <2>2. p \in Nat \ {0} /\ p <= p + Overhead + n - 1
    BY <2>1, Layout
  <2>3. received[p] = Start /\ ~ NoFrameAt(p)
    BY <2>1, <2>2, EncodedIsAFrame
  <2>4. CASE p <= Dropped
    <3>1. p \in 1 .. Dropped
      BY <2>1, <2>4
    <3>2. PICK d \in delivered : d.good /\ d.first <= p /\ p <= LastOf(d)
      BY <1>1, <2>3, <3>1 DEF ParserInv, Judged, InGoodFrame
    <3>3. d.first \in Nat /\ LastOf(d) \in Int
      <4>1. d.first \in Nat /\ Len(d.bytes) \in Nat
        BY <2>1, LenProperties DEF Records
      <4> QED
        BY <4>1 DEF LastOf
    <3>4. d.first <= p + Overhead + n - 1 /\ LastOf(d) >= p
      BY <2>2, <3>2, <3>3, Layout
    <3> QED
      BY <3>2, <3>4
  <2>5. CASE ~ (p <= Dropped)
    <3>1. Len(received) - Len(raw) + 1 <= p /\ Len(raw) # 0
      BY <2>1, <2>2, <2>5
    <3> QED
      BY <3>1
  <2> QED
    BY <2>4, <2>5
<1> QED
  BY <1>1, InvAlways, PTL
=============================================================================
