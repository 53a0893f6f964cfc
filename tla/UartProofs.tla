------------------------------- MODULE UartProofs -------------------------------
(***************************************************************************)
(* The ring is a queue and its two sides never meet, for every capacity    *)
(* and every range of the indices.  The UART driver keeps the promises of  *)
(* the queue it fills, and an answer is on the wire whole when the call    *)
(* that sends it returns, for every length, byte time and limit of turns   *)
(* that leaves room for two bytes.                                         *)
(***************************************************************************)
EXTENDS Uart, SequenceTheorems, TLAPS

\* Every access keeps the types.
LEMMA TypeStep == TypeOK /\ [Next]_vars => TypeOK'
<1> SUFFICES ASSUME TypeOK, [Next]_vars PROVE TypeOK'
  OBVIOUS
<1> USE RingAssumption DEF TypeOK, writer, reader
<1>1. \A i \in 0 .. IndexSize - 1 : Succ(i) \in 0 .. IndexSize - 1
  BY DEF Succ
<1>2. \A i \in 0 .. IndexSize - 1 : Slot(i) \in 0 .. Capacity - 1
  BY DEF Slot
<1>3. CASE PushCheck
  BY <1>3 DEF PushCheck
<1>4. CASE PushStore
  BY <1>4, <1>2 DEF PushStore
<1>5. CASE PushPublish
  BY <1>5, <1>1 DEF PushPublish
<1>6. CASE PopCheck
  BY <1>6 DEF PopCheck
<1>7. CASE PopLoad
  BY <1>7, <1>2 DEF PopLoad
<1>8. CASE PopFree
  BY <1>8, <1>1 DEF PopFree
<1>9. CASE UNCHANGED vars
  BY <1>9 DEF vars
<1> QED
  BY <1>3, <1>4, <1>5, <1>6, <1>7, <1>8, <1>9 DEF Next

\* Every variable keeps the type its C declaration gives it.
THEOREM RingTyping == Spec => []TypeOK
<1>1. Init => TypeOK
  BY RingAssumption DEF Init, TypeOK
<1> QED
  BY <1>1, TypeStep, PTL DEF Spec

\* Publishing a byte adds one to what waits, and freeing a slot takes one away,
\* on both sides of the wrap.
LEMMA WaitingMoves ==
  ASSUME TypeOK
  PROVE  /\ Waiting \in 0 .. IndexSize - 1
         /\ head' = Succ(head) /\ tail' = tail /\ Waiting < Capacity
              => Waiting' = Waiting + 1
         /\ tail' = Succ(tail) /\ head' = head /\ Waiting > 0
              => Waiting' = Waiting - 1
         /\ head' = head /\ tail' = tail => Waiting' = Waiting
         /\ head # tail => Waiting > 0
BY RingAssumption DEF TypeOK, Waiting, Succ

\* What a side has read stays good for it while the other side moves: the
\* writer only ever adds and the reader only ever takes away.
LEMMA ApartStep == TypeOK /\ SidesApart /\ [Next]_vars => SidesApart'
<1> SUFFICES ASSUME TypeOK, SidesApart, [Next]_vars PROVE SidesApart'
  OBVIOUS
<1> USE RingAssumption, WaitingMoves DEF SidesApart, writer, reader
<1>1. CASE PushCheck
  BY <1>1 DEF PushCheck, Full
<1>2. CASE PushStore
  BY <1>2 DEF PushStore
<1>3. CASE PushPublish
  BY <1>3 DEF PushPublish
<1>4. CASE PopCheck
  BY <1>4 DEF PopCheck
<1>5. CASE PopLoad
  BY <1>5 DEF PopLoad
<1>6. CASE PopFree
  BY <1>6 DEF PopFree
<1>7. CASE UNCHANGED vars
  BY <1>7 DEF vars
<1> QED
  BY <1>1, <1>2, <1>3, <1>4, <1>5, <1>6, <1>7 DEF Next

\* "Safe without disabling interrupts" (byte_ring.h:46): however late a side
\* acts on what it read, it stays on its own ground.
THEOREM SidesStayApart == Spec => []SidesApart
<1>1. Init => SidesApart
  BY RingAssumption DEF Init, SidesApart, Waiting
<1> QED
  BY <1>1, ApartStep, RingTyping, PTL DEF Spec

-----------------------------------------------------------------------------
(***************************************************************************)
(* The ring implements the queue of BoundedFifo.                           *)
(***************************************************************************)
LEMMA Sizes == Capacity \in Nat \ {0} /\ IndexSize \in Nat \ {0} /\ Capacity < IndexSize
BY RingAssumption

\* What \div and % are.
LEMMA Division ==
  ASSUME NEW n \in Nat \ {0}, NEW a \in Int
  PROVE  /\ a \div n \in Int /\ a % n \in 0 .. n - 1
         /\ a = n * (a \div n) + (a % n)
OBVIOUS

\* No multiple of n but 0 lies strictly between -n and n.
LEMMA Multiple ==
  ASSUME NEW n \in Nat \ {0}, NEW d \in Int, NEW e \in Int,
         e = d * n, -n < e, e < n
  PROVE  d = 0
<1>1. CASE d >= 1
  <2>1. (d - 1) * n >= 0
    BY <1>1
  <2> QED BY <2>1
<1>2. CASE d <= -1
  <2>1. (-1 - d) * n >= 0
    BY <1>2
  <2> QED BY <2>1
<1> QED BY <1>1, <1>2

\* A remainder is unique.
LEMMA Remainder ==
  ASSUME NEW n \in Nat \ {0}, NEW a \in Int, NEW q \in Int, NEW r \in 0 .. n - 1,
         a = q * n + r
  PROVE  a % n = r
<1> DEFINE p == a \div n
           s == a % n
<1>1. p \in Int /\ s \in 0 .. n - 1 /\ a = n * p + s
  BY Division
<1>2. s - r = (q - p) * n
  BY <1>1
<1>3. -n < s - r /\ s - r < n /\ s - r \in Int /\ q - p \in Int
  BY <1>1
<1>4. q - p = 0
  BY <1>2, <1>3, Multiple
<1> QED BY <1>1, <1>2, <1>4

\* Whole turns do not change a remainder.
LEMMA WholeTurns ==
  ASSUME NEW n \in Nat \ {0}, NEW a \in Int, NEW k \in Int
  PROVE  (a + k * n) % n = a % n
<1> DEFINE p == a \div n
           s == a % n
<1>1. p \in Int /\ s \in 0 .. n - 1 /\ a = n * p + s
  BY Division
<1> HIDE DEF p, s
<1>2. a + k * n = (p + k) * n + s /\ p + k \in Int /\ a + k * n \in Int
  BY <1>1
<1>3. (a + k * n) % n = s
  BY <1>1, <1>2, Remainder
<1> QED BY <1>3 DEF s

\* Numbers closer than n have different remainders.
LEMMA Apart ==
  ASSUME NEW n \in Nat \ {0}, NEW a \in Int, NEW b \in Int, a < b, b - a < n
  PROVE  a % n # b % n
<1> SUFFICES ASSUME a % n = b % n PROVE FALSE OBVIOUS
<1> DEFINE p == a \div n
           q == b \div n
           r == a % n
<1>1. /\ p \in Int /\ q \in Int /\ r \in 0 .. n - 1
      /\ a = n * p + r /\ b = n * q + r
  BY Division
<1> HIDE DEF p, q, r
<1>2. b - a = (q - p) * n /\ q - p \in Int BY <1>1
<1>3. -n < b - a /\ b - a < n /\ b - a \in Int OBVIOUS
<1>4. q - p = 0 BY <1>2, <1>3, Multiple
<1> QED BY <1>2, <1>4

\* Because the capacity divides the range of the indices, an index that wrapped
\* still names the slot it would have named.
LEMMA SlotOfIndex ==
  ASSUME NEW x \in 0 .. 2 * IndexSize - 1
  PROVE  Slot(x % IndexSize) = x % Capacity
<1> USE RingAssumption
<1>1. PICK q \in Int : IndexSize = Capacity * q
  <2>1. IndexSize \div Capacity \in Int
        /\ IndexSize = Capacity * (IndexSize \div Capacity)
    BY Division
  <2> QED BY <2>1
<1>2. CASE x < IndexSize
  <2>1. x % IndexSize = x
    <3>1. x \in 0 .. IndexSize - 1 /\ x = 0 * IndexSize + x BY <1>2
    <3> QED BY <3>1, Remainder
  <2> QED BY <2>1 DEF Slot
<1>3. CASE x >= IndexSize
  <2>1. x % IndexSize = x - IndexSize
    <3>1. x - IndexSize \in 0 .. IndexSize - 1 /\ x = 1 * IndexSize + (x - IndexSize)
      BY <1>3
    <3> QED BY <3>1, Remainder
  <2> DEFINE k == -q
  <2>2. x - IndexSize = x + k * Capacity /\ k \in Int BY <1>1
  <2> HIDE DEF k
  <2>3. x \in Int /\ Capacity \in Nat \ {0}
    OBVIOUS
  <2>4. (x + k * Capacity) % Capacity = x % Capacity
    BY <2>2, <2>3, WholeTurns
  <2> QED BY <2>1, <2>2, <2>4 DEF Slot
<1> QED BY <1>2, <1>3

\* A function on 1 .. n is a sequence of n elements.
LEMMA ListedIsSeq ==
  ASSUME NEW S, NEW n \in Nat, NEW s \in [1 .. n -> S]
  PROVE  s \in Seq(S) /\ Len(s) = n
<1>1. s \in Seq(S)
  BY SeqDef
<1>2. Len(s) \in Nat /\ DOMAIN s = 1 .. Len(s) /\ DOMAIN s = 1 .. n
  BY <1>1, LenProperties
<1> QED
  BY <1>1, <1>2

\* Where the two sides stand, counted from the tail.
Counted ==
  /\ Waiting \in 0 .. Capacity /\ tail \in 0 .. IndexSize - 1
  /\ Slot(head) = (tail + Waiting) % Capacity /\ Slot(tail) = tail % Capacity
  /\ Contents = [k \in 1 .. Waiting |-> data[(tail + k - 1) % Capacity]]
  /\ Contents \in [1 .. Waiting -> Bytes]

LEMMA SlotsCounted == TypeOK /\ SidesApart => Counted
<1> SUFFICES ASSUME TypeOK, SidesApart PROVE Counted
  OBVIOUS
<1> USE RingAssumption
<1>1. Waiting \in 0 .. Capacity /\ tail \in 0 .. IndexSize - 1
  BY WaitingMoves DEF SidesApart, TypeOK
<1>2. Slot(head) = (tail + Waiting) % Capacity
  <2>1. (tail + Waiting) % IndexSize = head
    <3>1. CASE head >= tail
      <4>1. tail + Waiting = 0 * IndexSize + head /\ head \in 0 .. IndexSize - 1
        BY <3>1 DEF Waiting, TypeOK
      <4> QED
        BY <1>1, <4>1, Remainder
    <3>2. CASE ~(head >= tail)
      <4>1. tail + Waiting = 1 * IndexSize + head /\ head \in 0 .. IndexSize - 1
        BY <3>2 DEF Waiting, TypeOK
      <4> QED
        BY <1>1, <4>1, Remainder
    <3> QED
      BY <3>1, <3>2
  <2>2. tail + Waiting \in 0 .. 2 * IndexSize - 1
    BY <1>1
  <2> QED
    BY <2>1, <2>2, SlotOfIndex
<1>3. Contents = [k \in 1 .. Waiting |-> data[(tail + k - 1) % Capacity]]
  <2>1. ASSUME NEW k \in 1 .. Waiting
        PROVE  Slot((tail + k - 1) % IndexSize) = (tail + k - 1) % Capacity
    <3>1. tail + k - 1 \in 0 .. 2 * IndexSize - 1
      BY <1>1
    <3> QED
      BY <3>1, SlotOfIndex
  <2> QED
    BY <2>1 DEF Contents
<1>4. ASSUME NEW k \in 1 .. Waiting PROVE data[(tail + k - 1) % Capacity] \in Bytes
  <2>1. tail + k - 1 \in Int /\ Capacity \in Nat \ {0}
    BY <1>1
  <2>2. (tail + k - 1) % Capacity \in 0 .. Capacity - 1
    BY <2>1, Division
  <2> QED
    BY <2>2 DEF TypeOK
<1>5. Contents \in [1 .. Waiting -> Bytes]
  BY <1>3, <1>4
<1>6. Slot(tail) = tail % Capacity
  BY DEF Slot
<1> QED
  BY <1>1, <1>2, <1>3, <1>5, <1>6 DEF Counted

\* What a side carries is what the slot holds: the byte stored and not yet
\* published, and the byte loaded whose slot is not yet free.
Carried ==
  /\ push = "publish" => data[Slot(head)] = incoming
  /\ pop = "free" => out = data[Slot(tail)]

RingInv == TypeOK /\ SidesApart /\ Carried

\* While there is room, the slot about to be written is none of those in use.
LEMMA StoreBesideOthers ==
  ASSUME TypeOK, SidesApart, push = "store", NEW k \in 0 .. Waiting - 1
  PROVE  (tail + k) % Capacity # Slot(head)
<1>1. /\ Waiting \in 0 .. Capacity - 1 /\ tail \in Int /\ Capacity \in Nat \ {0}
      /\ Slot(head) = (tail + Waiting) % Capacity
  BY SlotsCounted, RingAssumption DEF Counted, SidesApart
<1>2. tail + k \in Int /\ tail + Waiting \in Int /\ tail + k < tail + Waiting
      /\ (tail + Waiting) - (tail + k) < Capacity
  BY <1>1
<1> QED
  BY <1>1, <1>2, Apart

LEMMA CarriedStep == RingInv /\ [Next]_vars => Carried'
<1> SUFFICES ASSUME TypeOK, SidesApart, Carried, [Next]_vars PROVE Carried'
  BY DEF RingInv
<1> USE DEF Carried, writer, reader
<1>1. CASE PushStore
  <2>1. Slot(head) \in 0 .. Capacity - 1 /\ Slot(tail) \in 0 .. Capacity - 1
    BY RingAssumption, Division DEF TypeOK, Slot
  <2>2. data'[Slot(head)] = incoming
    BY <1>1, <2>1 DEF PushStore, TypeOK
  <2>3. ASSUME pop = "free" PROVE data'[Slot(tail)] = data[Slot(tail)]
    <3>1. 0 \in 0 .. Waiting - 1 /\ tail + 0 = tail /\ Slot(tail) = tail % Capacity
      BY <2>3, SlotsCounted DEF SidesApart, Counted
    <3>2. Slot(tail) # Slot(head)
      BY <1>1, <3>1, StoreBesideOthers DEF PushStore
    <3> QED
      BY <1>1, <2>1, <3>2 DEF PushStore, TypeOK
  <2>4. Slot(head)' = Slot(head) /\ Slot(tail)' = Slot(tail)
    BY <1>1 DEF PushStore, Slot
  <2> QED
    BY <1>1, <2>2, <2>3, <2>4 DEF PushStore
<1>2. CASE PushCheck \/ PushPublish \/ PopCheck \/ PopLoad \/ PopFree \/ UNCHANGED vars
  BY <1>2 DEF PushCheck, PushPublish, PopCheck, PopLoad, PopFree, vars, Slot
<1> QED
  BY <1>1, <1>2 DEF Next

LEMMA RingStep == RingInv /\ [Next]_vars => RingInv'
BY TypeStep, ApartStep, CarriedStep DEF RingInv

\* A byte that is published stands behind those that wait.
LEMMA PublishPuts == RingInv /\ PushPublish => Queue!Put
<1> SUFFICES ASSUME TypeOK, SidesApart, Carried, PushPublish PROVE Queue!Put
  BY DEF RingInv
<1>1. Counted
  BY SlotsCounted
<1>2. /\ Waiting \in 0 .. Capacity - 1 /\ Waiting' = Waiting + 1
      /\ data' = data /\ tail' = tail /\ delivered' = delivered
      /\ accepted' = incoming /\ incoming \in Bytes
      /\ data[(tail + Waiting) % Capacity] = incoming
  <2>1. data' = data /\ tail' = tail /\ delivered' = delivered /\ accepted' = incoming
        /\ head' = Succ(head) /\ push = "publish"
    BY DEF PushPublish, reader
  <2>2. Waiting \in 0 .. Capacity - 1
    BY <1>1, <2>1, RingAssumption DEF SidesApart, Counted
  <2>3. Waiting' = Waiting + 1
    <3>1. Waiting < Capacity
      BY <2>2, Sizes
    <3> QED
      BY <2>1, <3>1, WaitingMoves
  <2> QED
    BY <1>1, <2>1, <2>2, <2>3 DEF Counted, Carried, TypeOK
<1>3. Contents \in Seq(Bytes) /\ Len(Contents) = Waiting
  <2>1. Waiting \in Nat /\ Contents \in [1 .. Waiting -> Bytes]
    <3>1. Waiting \in 0 .. Capacity /\ Contents \in [1 .. Waiting -> Bytes]
      BY <1>1 DEF Counted
    <3> QED
      BY <3>1, Sizes
  <2> QED
    BY <2>1, ListedIsSeq
<1>4. Contents' = [k \in 1 .. Waiting + 1 |-> data[Slot((tail + k - 1) % IndexSize)]]
  BY <1>2 DEF Contents, Slot
<1>5. \A k \in 1 .. Waiting + 1 :
        data[Slot((tail + k - 1) % IndexSize)] = Append(Contents, incoming)[k]
  <2> SUFFICES ASSUME NEW k \in 1 .. Waiting + 1
               PROVE  data[Slot((tail + k - 1) % IndexSize)]
                        = Append(Contents, incoming)[k]
    OBVIOUS
  <2>1. CASE k = Waiting + 1
    <3>1. tail + k - 1 = tail + Waiting /\ tail + Waiting \in 0 .. 2 * IndexSize - 1
      BY <1>1, <1>2, <2>1, RingAssumption DEF Counted
    <3>2. Slot((tail + k - 1) % IndexSize) = (tail + Waiting) % Capacity
      BY <3>1, SlotOfIndex
    <3>3. Append(Contents, incoming)[Waiting + 1] = incoming
      BY <1>2, <1>3, AppendProperties
    <3> QED
      BY <1>2, <2>1, <3>2, <3>3
  <2>2. CASE k \in 1 .. Waiting
    <3>1. Append(Contents, incoming)[k] = Contents[k]
      BY <1>2, <1>3, <2>2, AppendProperties
    <3>2. Contents[k] = data[Slot((tail + k - 1) % IndexSize)]
      BY <2>2 DEF Contents
    <3> QED
      BY <3>1, <3>2
  <2>3. k = Waiting + 1 \/ k \in 1 .. Waiting
    <3>1. Waiting \in Int
      BY <1>2, Sizes
    <3> QED
      BY <3>1
  <2> QED
    BY <2>1, <2>2, <2>3
<1> DEFINE longer == Append(Contents, incoming)
<1>6. longer = [k \in 1 .. Waiting + 1 |-> longer[k]]
  <2>1. longer \in Seq(Bytes) /\ Len(longer) = Waiting + 1
    BY <1>2, <1>3, AppendProperties
  <2>2. longer \in [1 .. Waiting + 1 -> Bytes]
    BY <2>1, LenProperties
  <2> QED
    BY <2>2
<1>7. Contents' = Append(Contents, incoming)
  BY <1>4, <1>5, <1>6
<1>8. Len(Contents) < Capacity
  BY <1>2, <1>3, Sizes
<1> QED
  BY <1>2, <1>7, <1>8 DEF Queue!Put

\* A slot that is freed gives up the byte at the front.
LEMMA FreeTakes == RingInv /\ PopFree => Queue!Take
<1> SUFFICES ASSUME TypeOK, SidesApart, Carried, PopFree PROVE Queue!Take
  BY DEF RingInv
<1>1. Counted
  BY SlotsCounted
<1>2. /\ Waiting \in 1 .. Capacity /\ Waiting' = Waiting - 1
      /\ data' = data /\ tail' = Succ(tail) /\ accepted' = accepted
      /\ delivered' = data[tail % Capacity]
  BY <1>1, WaitingMoves DEF PopFree, SidesApart, Counted, Carried, TypeOK, writer
<1>3. Contents \in Seq(Bytes) /\ Len(Contents) = Waiting
  <2>1. Waiting \in Nat /\ Contents \in [1 .. Waiting -> Bytes]
    <3>1. Waiting \in 0 .. Capacity /\ Contents \in [1 .. Waiting -> Bytes]
      BY <1>1 DEF Counted
    <3> QED
      BY <3>1, Sizes
  <2> QED
    BY <2>1, ListedIsSeq
<1>4. Head(Contents) = data[tail % Capacity] /\ Contents # <<>>
  <2>1. 1 \in 1 .. Waiting /\ tail + 1 - 1 = tail
    BY <1>1, <1>2 DEF Counted
  <2>2. Contents[1] = data[tail % Capacity]
    BY <1>1, <2>1 DEF Counted
  <2> QED
    BY <1>2, <1>3, <2>2
<1>5. Contents' = [k \in 1 .. Waiting - 1 |-> data[Slot((tail' + k - 1) % IndexSize)]]
  BY <1>2 DEF Contents, Slot
<1>6. ASSUME NEW k \in 1 .. Waiting - 1
      PROVE  (tail' + k - 1) % IndexSize = (tail + (k + 1) - 1) % IndexSize
  <2>1. CASE tail + 1 # IndexSize
    BY <1>1, <1>2, <2>1, RingAssumption DEF Succ, Counted
  <2>2. CASE tail + 1 = IndexSize
    <3>1. /\ tail' + k - 1 = k - 1 /\ k - 1 \in Int /\ 1 \in Int
          /\ IndexSize \in Nat \ {0} /\ tail + (k + 1) - 1 = (k - 1) + 1 * IndexSize
      BY <1>1, <1>2, <2>2, RingAssumption DEF Succ, Counted
    <3>2. ((k - 1) + 1 * IndexSize) % IndexSize = (k - 1) % IndexSize
      BY <3>1, WholeTurns
    <3> QED
      BY <3>1, <3>2
  <2> QED
    BY <2>1, <2>2
<1>7. Tail(Contents) = [k \in 1 .. Waiting - 1 |-> Contents[k + 1]]
  <2>1. /\ Tail(Contents) \in Seq(Bytes) /\ Len(Tail(Contents)) = Waiting - 1
        /\ \A k \in 1 .. Len(Tail(Contents)) : Tail(Contents)[k] = Contents[k + 1]
    BY <1>3, <1>4, HeadTailProperties
  <2>2. Tail(Contents) \in [1 .. Waiting - 1 -> Bytes]
    BY <2>1, LenProperties
  <2> HIDE DEF Contents
  <2> QED
    BY <2>1, <2>2
<1>8. ASSUME NEW k \in 1 .. Waiting - 1
      PROVE  data[Slot((tail' + k - 1) % IndexSize)] = Contents[k + 1]
  <2>1. k + 1 \in 1 .. Waiting
    BY <1>2
  <2>2. Contents[k + 1] = data[Slot((tail + (k + 1) - 1) % IndexSize)]
    BY <2>1 DEF Contents
  <2> QED
    BY <2>2, <1>6
<1>9. Contents' = Tail(Contents)
  BY <1>5, <1>7, <1>8
<1> QED
  BY <1>2, <1>4, <1>9 DEF Queue!Take

\* A byte that is stored and not published is nothing the reader can see.
LEMMA StoreUnseen == RingInv /\ PushStore => UNCHANGED <<Contents, accepted, delivered>>
<1> SUFFICES ASSUME TypeOK, SidesApart, PushStore
             PROVE  UNCHANGED <<Contents, accepted, delivered>>
  BY DEF RingInv
<1>1. Counted
  BY SlotsCounted
<1>2. /\ tail' = tail /\ head' = head /\ accepted' = accepted /\ delivered' = delivered
      /\ data' = [data EXCEPT ![Slot(head)] = incoming] /\ push = "store"
  BY DEF PushStore, reader
<1>3. Waiting' = Waiting
  BY <1>2 DEF Waiting
<1>4. ASSUME NEW k \in 1 .. Waiting
      PROVE  data'[Slot((tail + k - 1) % IndexSize)]
               = data[Slot((tail + k - 1) % IndexSize)]
  <2>1. k - 1 \in 0 .. Waiting - 1 /\ tail + k - 1 = tail + (k - 1)
        /\ tail + k - 1 \in 0 .. 2 * IndexSize - 1
    BY <1>1, RingAssumption DEF Counted
  <2>2. Slot((tail + k - 1) % IndexSize) = (tail + (k - 1)) % Capacity
    BY <2>1, SlotOfIndex
  <2>3. (tail + (k - 1)) % Capacity # Slot(head)
    BY <1>2, <2>1, StoreBesideOthers
  <2>4. (tail + (k - 1)) % Capacity \in 0 .. Capacity - 1
    <3>1. tail + (k - 1) \in Int /\ Capacity \in Nat \ {0}
      BY <2>1, RingAssumption
    <3> QED
      BY <3>1, Division
  <2> QED
    BY <1>2, <2>2, <2>3, <2>4 DEF TypeOK
<1>5. Contents' = [k \in 1 .. Waiting |-> data'[Slot((tail + k - 1) % IndexSize)]]
  BY <1>2, <1>3 DEF Contents, Slot
<1>6. Contents' = Contents
  BY <1>4, <1>5 DEF Contents
<1> QED
  BY <1>2, <1>6

LEMMA QueueStep ==
  RingInv /\ [Next]_vars => [Queue!Next]_<<Contents, accepted, delivered>>
<1> SUFFICES ASSUME RingInv, [Next]_vars
             PROVE  [Queue!Next]_<<Contents, accepted, delivered>>
  OBVIOUS
<1>1. CASE PushPublish
  BY <1>1, PublishPuts DEF Queue!Next
<1>2. CASE PopFree
  BY <1>2, FreeTakes DEF Queue!Next
<1>3. CASE PushStore
  BY <1>3, StoreUnseen
<1>4. CASE PushCheck \/ PopCheck \/ PopLoad \/ UNCHANGED vars
  BY <1>4 DEF PushCheck, PopCheck, PopLoad, vars, writer, reader, Contents, Waiting, Slot
<1> QED
  BY <1>1, <1>2, <1>3, <1>4 DEF Next

\* The interrupt and the loop see a queue of Capacity bytes, whatever the order
\* of their accesses and wherever the indices stand: a byte that was accepted
\* comes out once, in its turn and unchanged, and one that finds no room harms
\* none that waits.
THEOREM RingIsQueue == Spec => FifoSpec
<1>1. Init => RingInv
  <2> SUFFICES ASSUME Init PROVE RingInv
    OBVIOUS
  <2>1. TypeOK
    BY RingAssumption DEF Init, TypeOK
  <2>2. SidesApart /\ Carried
    BY RingAssumption DEF Init, SidesApart, Waiting, Carried
  <2> QED
    BY <2>1, <2>2 DEF RingInv
<1>2. Init => Queue!Init
  <2> SUFFICES ASSUME Init PROVE Queue!Init
    OBVIOUS
  <2>1. Waiting = 0
    BY DEF Init, Waiting
  <2>2. Contents = <<>>
    BY <2>1 DEF Contents
  <2> QED
    BY <2>2 DEF Init, Queue!Init
<1> QED
  BY <1>1, <1>2, RingStep, QueueStep, PTL DEF Spec, FifoSpec, Queue!Spec

-----------------------------------------------------------------------------
InTdr == IF tdr > 0 THEN 1 ELSE 0

\* Where the bytes of the call under way are: the ones handed over are in the
\* data register, in the shift register or gone, in that order.
CallOK ==
  sending \in [what : {"string", "bytes"}, length : Nat \ {0}, next : Nat \ {0},
               step : {"none", "TXE", "TC", "returned"}]

RegistersOK ==
  /\ spins \in Nat /\ works \in BOOLEAN /\ left \in Nat
  /\ tdr \in Nat \cup {Old} /\ shift \in Nat \cup {Old}

Placed ==
  /\ tdr > 0 => tdr = sending.next - 1
  /\ tdr = Old => sending.next = 1
  /\ shift > 0 => left = shift - 1 /\ shift = sending.next - 1 - InTdr
  /\ shift = Old => left = 0 /\ sending.next = 1 + InTdr
  /\ shift = Empty => left = sending.next - 1 - InTdr

\* A working transmitter never uses the turns up, so a call goes on to its end.
InTime ==
  /\ works => spins <= 2 * ByteTurns
  /\ sending.next <= sending.length + 1
  /\ sending.step = "TXE" => sending.next <= sending.length
  /\ sending.step = "TC" => sending.next = sending.length + 1

SendInv == CallOK /\ RegistersOK /\ Placed /\ InTime /\ AnswerLeavesWhole

LEMMA SendStep == SendInv /\ [UartNext]_uart => SendInv'
<1> SUFFICES ASSUME SendInv, [UartNext]_uart PROVE SendInv'
  OBVIOUS
<1> USE SendAssumption DEF SendInv, RegistersOK, Placed, InTime, InTdr, Old, Empty,
                           AnswerLeavesWhole, receiver, sender
<1>0. sending.next \in Nat \ {0} /\ sending.length \in Nat \ {0}
  BY DEF CallOK
<1>1. CASE UNCHANGED sender
  BY <1>1 DEF CallOK
<1>2. CASE SendBegins
  <2>1. PICK what \in {"string", "bytes"}, length \in Lengths :
          sending' = [what |-> what, length |-> length, next |-> 1, step |-> "TXE"]
    BY <1>2 DEF SendBegins
  <2>2. CallOK' /\ RegistersOK' /\ InTime'
    BY <1>2, <2>1 DEF SendBegins, CallOK
  <2>3. Placed'
    BY <1>2, <2>1 DEF SendBegins
  <2>4. AnswerLeavesWhole'
    BY <2>1
  <2> QED
    BY <2>2, <2>3, <2>4
<1>3. CASE HandOver
  <2>1. sending'.next = sending.next + 1 /\ sending'.what = sending.what
        /\ sending'.length = sending.length
        /\ sending'.step = IF sending.next = sending.length
                           THEN AfterLast(sending.what) ELSE "TXE"
    BY <1>3 DEF HandOver, CallOK
  <2>2. CallOK'
    <3>1. AfterLast(sending.what) \in {"none", "TXE", "TC", "returned"}
      BY DEF AfterLast
    <3>2. \A step \in {"none", "TXE", "TC", "returned"} :
            [sending EXCEPT !.next = sending.next + 1, !.step = step]
              \in [what : {"string", "bytes"}, length : Nat \ {0}, next : Nat \ {0},
                   step : {"none", "TXE", "TC", "returned"}]
      <4>1. sending.next + 1 \in Nat \ {0}
        BY <1>0
      <4> QED
        BY <4>1 DEF CallOK
    <3>3. CASE sending.next = sending.length
      <4>1. sending' = [sending EXCEPT !.next = sending.next + 1,
                                       !.step = AfterLast(sending.what)]
        BY <1>3, <3>3 DEF HandOver
      <4> QED
        BY <3>1, <3>2, <4>1 DEF CallOK
    <3>4. CASE sending.next # sending.length
      <4>1. sending' = [sending EXCEPT !.next = sending.next + 1, !.step = "TXE"]
        BY <1>3, <3>4 DEF HandOver
      <4> QED
        BY <3>2, <4>1 DEF CallOK
    <3> QED
      BY <3>3, <3>4
  <2>3. RegistersOK'
    BY <1>3, <1>0 DEF HandOver
  <2>4. Placed'
    BY <1>3, <1>0, <2>1 DEF HandOver, Txe
  <2>5. InTime'
    BY <1>3, <1>0, <2>1 DEF HandOver, AfterLast
  <2>6. AnswerLeavesWhole'
    BY <1>3, <2>1 DEF HandOver, AfterLast
  <2> QED
    BY <2>2, <2>3, <2>4, <2>5, <2>6
<1>4. CASE LastBitGone
  <2>1. CallOK' /\ sending' = [sending EXCEPT !.step = "returned"]
    BY <1>4 DEF LastBitGone, CallOK
  <2>2. sending'.next = sending.next /\ sending'.what = sending.what
        /\ sending'.length = sending.length /\ sending'.step = "returned"
    BY <2>1 DEF CallOK
  <2> QED
    BY <1>4, <1>0, <2>1, <2>2 DEF LastBitGone, Tc
<1>5. CASE Spin
  <2>1. CallOK' /\ UNCHANGED <<sending, tdr, shift, left, works>>
    BY <1>5 DEF Spin, CallOK
  <2>2. RegistersOK' /\ (works' => spins' <= 2 * ByteTurns)
    BY <1>5 DEF Spin
  <2> QED
    BY <2>1, <2>2
<1>6. CASE GiveUp
  <2>1. CallOK' /\ ~works /\ UNCHANGED <<spins, tdr, shift, left, works>>
    BY <1>6 DEF GiveUp, OutOfTurns, CallOK
  <2>2. sending'.next = sending.next /\ sending'.step = "returned"
        /\ sending'.length = sending.length
    BY <1>6 DEF GiveUp, CallOK
  <2> QED
    BY <2>1, <2>2
<1>7. CASE SendReturns
  <2>1. CallOK' /\ UNCHANGED <<spins, tdr, shift, left, works>>
    BY <1>7 DEF SendReturns, CallOK
  <2>2. sending'.next = sending.next /\ sending'.step = "none"
        /\ sending'.length = sending.length
    BY <1>7 DEF SendReturns, CallOK
  <2> QED
    BY <2>1, <2>2
<1>8. CASE Shift
  <2>1. CallOK' /\ UNCHANGED <<sending, spins, left, works>>
    BY <1>8 DEF Shift, CallOK
  <2> QED
    BY <1>8, <1>0, <2>1 DEF Shift
<1>9. CASE ShiftOut
  <2>1. CallOK' /\ UNCHANGED <<sending, spins, tdr, works>>
    BY <1>9 DEF ShiftOut, CallOK
  <2>2. RegistersOK'
    BY <1>9, <2>1 DEF ShiftOut
  <2>3. Placed'
    <3>1. CASE shift = Old
      BY <1>9, <1>0, <2>1, <3>1 DEF ShiftOut
    <3>2. CASE shift > 0
      BY <1>9, <1>0, <2>1, <3>2 DEF ShiftOut
    <3> QED
      BY <1>9, <3>1, <3>2 DEF ShiftOut
  <2>4. InTime'
    BY <2>1
  <2>5. AnswerLeavesWhole'
    <3>1. sending.step = "returned" /\ sending.what = "bytes" => shift = Old
      BY <1>9, <1>0 DEF ShiftOut
    <3> QED
      BY <1>9, <1>0, <2>1, <3>1 DEF ShiftOut
  <2> QED
    BY <2>1, <2>2, <2>3, <2>4, <2>5
<1>10. CASE Die
  <2>1. CallOK' /\ works' = FALSE /\ UNCHANGED <<sending, spins, tdr, shift, left>>
    BY <1>10 DEF Die, CallOK
  <2>2. RegistersOK' /\ Placed'
    BY <2>1
  <2>3. InTime' /\ AnswerLeavesWhole'
    BY <2>1
  <2> QED
    BY <2>1, <2>2, <2>3
<1>11. CASE Arrive \/ Handler \/ Read \/ UNCHANGED uart
  BY <1>1, <1>11 DEF Arrive, Handler, Enter, ReadByte, Store, Leave, Read, uart
<1> QED
  BY <1>2, <1>3, <1>4, <1>5, <1>6, <1>7, <1>8, <1>9, <1>10, <1>11
  DEF UartNext, Sender, Transmitter

LEMMA SendStart == UartInit => SendInv
<1> SUFFICES ASSUME UartInit PROVE SendInv
  OBVIOUS
<1>1. sending = [what |-> "string", length |-> 1, next |-> 1, step |-> "none"]
  BY DEF UartInit
<1>2. CallOK /\ AnswerLeavesWhole
  BY <1>1 DEF CallOK, AnswerLeavesWhole
<1>3. RegistersOK
  BY DEF UartInit, RegistersOK, Empty
<1>4. Placed
  BY <1>1 DEF UartInit, Placed, InTdr, Old, Empty
<1>5. InTime
  BY <1>1, SendAssumption DEF UartInit, InTime
<1> QED
  BY <1>2, <1>3, <1>4, <1>5 DEF SendInv

\* A binary answer has left the pin when the call that sends it returns, as the
\* reset right after the ACK to COMMIT needs (uart.c:115-127).
THEOREM AnswersLeaveWhole == UartSpec => []AnswerLeavesWhole
<1>1. SendInv => AnswerLeavesWhole
  BY DEF SendInv
<1> QED
  BY <1>1, SendStart, SendStep, PTL DEF UartSpec

\* The bytes of a call leave in order and none is written over by the next.
THEOREM BytesStayInOrder == UartSpec => []BytesInOrder
<1>1. SendInv => BytesInOrder
  BY DEF SendInv, CallOK, RegistersOK, Placed, InTdr, BytesInOrder, Old, Empty
<1> QED
  BY <1>1, SendStart, SendStep, PTL DEF UartSpec

\* Handler and loop use the queue as ByteRing supposes: every step of the driver
\* is a step of the queue or leaves it alone.
THEOREM DriverUsesRing == UartSpec => Init /\ [][Next]_vars
<1>1. UartInit => Init
  BY DEF UartInit
<1>2. [UartNext]_uart => [Next]_vars
  <2> SUFFICES ASSUME [UartNext]_uart PROVE [Next]_vars
    OBVIOUS
  <2>1. CASE ReadByte \/ Store \/ Read
    BY <2>1 DEF ReadByte, Store, Read, Next
  <2>2. CASE Arrive \/ Enter \/ Leave \/ SendBegins \/ Sender \/ Transmitter \/ Die
    BY <2>2 DEF Arrive, Enter, Leave, SendBegins, Sender, HandOver, LastBitGone, Spin,
                GiveUp, SendReturns, Transmitter, Shift, ShiftOut, Die
  <2> QED
    BY <2>1, <2>2 DEF UartNext, Handler, uart
<1> QED
  BY <1>1, <1>2, PTL DEF UartSpec

\* So the two sides of the queue stay apart in the driver, too.
THEOREM DriverSidesApart == UartSpec => []SidesApart
<1>1. UartSpec => Spec
  BY DriverUsesRing DEF Spec
<1> QED
  BY <1>1, SidesStayApart, PTL

\* And the loop reads what the interrupt received, byte for byte, as from a queue.
THEOREM DriverHasQueue == UartSpec => FifoSpec
<1>1. UartSpec => Spec
  BY DriverUsesRing DEF Spec
<1> QED
  BY <1>1, RingIsQueue, PTL
=============================================================================
