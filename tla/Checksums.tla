------------------------------- MODULE Checksums -------------------------------
(***************************************************************************)
(* The checksums: CRC-16 of a frame, bit by bit (crc16.c), and CRC-32 of an *)
(* image three ways, by table (crc32.c) and through the peripheral by bytes *)
(* and by words (crc_unit.c), byte after byte.                              *)
(*                                                                         *)
(* A register or a byte is the set of the places of its ones, so that xor   *)
(* is the symmetric difference and a shift moves every place.               *)
(***************************************************************************)
EXTENDS Integers, SequencesExt

CONSTANTS
  Octets,          \* what a byte fed can be
  Damages,         \* what the line can do to a byte: the places it turns over
  MaxBurst,        \* from the first to the last place turned over
  MaxFrame, MaxImage   \* bounds: how many bytes are fed

ASSUME ChecksumAssumption ==
  /\ Octets \subseteq SUBSET (0 .. 7) /\ Damages \subseteq SUBSET (0 .. 7)
  /\ MaxFrame \in Nat /\ MaxImage \in Nat /\ MaxBurst \in 0 .. 16

VARIABLES
  subject,         \* what is summed: a frame or an image
  fed,             \* history: its bytes
  crc16, crc16_received,   \* of the bytes sent, and of what came of them
  burst,           \* history: the places turned over, in the order they were sent
  soft,            \* crc in crc32_compute(), before the final XOR
  unit,            \* how the peripheral came up
  by_words,        \* its register after the whole words
  g_trustworthy

frame == <<crc16, crc16_received, burst>>
image == <<soft, unit, by_words, g_trustworthy>>
checksums == <<subject, fed, frame, image>>

HighestPower == 8 * Max({4, MaxFrame, MaxImage}) + 31

Ones(width) == 0 .. width - 1
Up(register, n) == {place + n : place \in register}
Down(register, n) == {place - n : place \in {p \in register : p >= n}}
Reverse32(register) == {31 - place : place \in register}

CRC16_POLY == {12, 5, 0}
CRC32_POLYNOMIAL == Reverse32({26, 23, 22, 16, 12, 11, 10, 8, 7, 5, 4, 2, 1, 0})

\* n turns of a loop over a register.
Turns(turn(_), n, register) ==
  LET after[i \in 0 .. n] == IF i = 0 THEN register ELSE turn(after[i - 1])
  IN after[n]

-----------------------------------------------------------------------------
\* Slips of the kind a change to this code could make stand before the
\* definition they are a slip of; none is used in the model.
Crc16TurnShiftFirst(c) ==
  LET shifted == Up(c, 1) \ {16}
  IN IF 15 \in shifted THEN SymDiff(shifted, CRC16_POLY) ELSE shifted

\* crc16_update(): most significant bit first.
Crc16Turn(c) ==
  LET shifted == Up(c, 1) \ {16}
  IN IF 15 \in c THEN SymDiff(shifted, CRC16_POLY) ELSE shifted

Crc16Update(crc, octet) == Turns(Crc16Turn, 8, SymDiff(crc, Up(octet, 8)))

\* crc32_init(): least significant bit first.
EntryTurn(c) ==
  IF 0 \in c THEN SymDiff(Down(c, 1), CRC32_POLYNOMIAL) ELSE Down(c, 1)

g_table == [octet \in SUBSET (0 .. 7) |-> Turns(EntryTurn, 8, octet)]

\* crc32_compute().
Soft(crc, octet) == SymDiff(g_table[SymDiff(crc, octet) \cap (0 .. 7)], Down(crc, 8))

FINAL_XOR(register) == SymDiff(register, Ones(32))

-----------------------------------------------------------------------------
\* Arithmetic modulo x^width + divisor, a polynomial being the set of its powers:
\* what a power leaves, and what a sum of powers leaves.
PowerLeaves(divisor, width) ==
  LET leaves[power \in 0 .. HighestPower] ==
        IF power < width THEN {power}
        ELSE LET up == Up(leaves[power - 1], 1)
             IN IF width \in up THEN SymDiff(up, divisor \cup {width}) ELSE up
  IN leaves

Leaves16 == PowerLeaves(CRC16_POLY, 16)
Leaves32 == PowerLeaves(Reverse32(CRC32_POLYNOMIAL), 32)

Remainder(powers, leaves) ==
  FoldSet(LAMBDA power, sum : SymDiff(leaves[power], sum), {}, powers)

\* The two bits of CRC_CR that say how wide the groups of bits are that the
\* peripheral reverses on their way in.
CRC_CR_REV_IN_BYTE == {5}
CRC_CR_REV_IN_WORD == {5, 6}
Group(bits) == IF bits = {} THEN 1 ELSE IF bits = {5} THEN 8 ELSE IF bits = {6} THEN 16 ELSE 32

\* The peripheral divides what is written to it, the most significant bit first.
\* A unit is known by which bits of CRC_CR work and which value it starts from.
Units == [cr : SUBSET {5, 6, 7}, starts_from : {Ones(32), {}}]
AsDescribed == [cr |-> {5, 6, 7}, starts_from |-> Ones(32)]

WriteBits(u, c, data, width, bits) ==
  LET group == Group(bits \cap u.cr)
      read == {group * (place \div group) + (group - 1) - (place % group) : place \in data}
  IN Remainder(SymDiff(Up(c, width), Up(read, 32)), Leaves32)

WriteWord(u, c, word) == WriteBits(u, c, word, 32, CRC_CR_REV_IN_WORD)

WriteBytes(u, c, octets) ==
  FoldLeft(LAMBDA d, octet : WriteBits(u, d, octet, 8, CRC_CR_REV_IN_BYTE), c, octets)

\* CRC_DR ^ CRC_UNIT_FINAL_XOR.
CrcResult(u, c) == FINAL_XOR(IF 7 \in u.cr THEN Reverse32(c) ELSE c)

\* Four bytes as they stand in a little-endian word.
LittleEndian(octets) == UNION {Up(octets[i], 8 * (i - 1)) : i \in 1 .. 4}

TailOf(octets) == SubSeq(octets, 4 * (Len(octets) \div 4) + 1, Len(octets))

WordsOf(octets) ==
  [i \in 1 .. Len(octets) \div 4 |-> LittleEndian(SubSeq(octets, 4 * i - 3, 4 * i))]

\* crc_unit_compute() and crc_unit_compute_words().
ComputeBytes(u, octets) == CrcResult(u, WriteBytes(u, u.starts_from, octets))

ComputeWords(u, octets) ==
  LET Written(c, word) == WriteWord(u, c, word)
  IN CrcResult(u, WriteBytes(u, FoldLeft(Written, u.starts_from, WordsOf(octets)), TailOf(octets)))

\* "123456789" and its checksum, 0xCBF43926.
CheckString ==
  [i \in 1 .. 9 |-> {5, 4} \cup {place \in 0 .. 3 : (i \div 2^place) % 2 = 1}]
CheckValue ==
  {31, 30, 27, 25, 24, 23, 22, 21, 20, 18, 13, 12, 11, 8, 5, 2, 1}

TrustedByBytes(u) == ComputeBytes(u, CheckString) = CheckValue

\* crc_unit_init().
Trusted(u) ==
  ComputeBytes(u, CheckString) = CheckValue /\ ComputeWords(u, CheckString) = CheckValue

\* A unit that is not as described gets one of the two wrong.  The constants say no
\* more in this than how far the powers are tabulated, and what is written here has
\* none above 63: what TLC evaluates for one instance it would for any.
ASSUME SelfTestTells ==
  \A u \in Units \ {AsDescribed} :
    ComputeBytes(u, CheckString) # CheckValue \/ ComputeWords(u, CheckString) # CheckValue

-----------------------------------------------------------------------------
\* A byte of a frame is sent and comes out damaged or not; all the damage lies
\* within one burst.  The most significant bit counts first.
Places(octet) == {8 * (Len(fed) + 1) - place : place \in octet}

FeedFrame(octet, damage) ==
  /\ subject = "frame" /\ Len(fed) < MaxFrame
  /\ burst' = burst \cup Places(damage)
  /\ \A p, q \in burst' : p - q < MaxBurst
  /\ crc16' = Crc16Update(crc16, octet)
  /\ crc16_received' = Crc16Update(crc16_received, SymDiff(octet, damage))
  /\ fed' = Append(fed, octet) /\ UNCHANGED <<subject, image>>

\* A byte of an image: on the path by words it counts with the word it fills.
FeedImage(octet) ==
  /\ subject = "image" /\ Len(fed) < MaxImage
  /\ fed' = Append(fed, octet)
  /\ soft' = Soft(soft, octet)
  /\ by_words' = IF Len(fed') % 4 = 0
                 THEN WriteWord(unit, by_words, LittleEndian(SubSeq(fed', Len(fed') - 3, Len(fed'))))
                 ELSE by_words
  /\ UNCHANGED <<subject, frame, unit, g_trustworthy>>

\* The peripheral comes up as the data sheet says, or does not.
ChecksumStart ==
  /\ subject \in {"frame", "image"}
  /\ fed = << >> /\ burst = {} /\ crc16 = Ones(16) /\ crc16_received = Ones(16)
  /\ soft = Ones(32)
  /\ unit \in Units
  /\ subject = "frame" => unit = AsDescribed
  /\ by_words = unit.starts_from
  /\ g_trustworthy = Trusted(unit)

ChecksumNext ==
  \/ \E octet \in Octets, damage \in Damages : FeedFrame(octet, damage)
  \/ \E octet \in Octets : FeedImage(octet)

ChecksumSpec == ChecksumStart /\ [][ChecksumNext]_checksums
-----------------------------------------------------------------------------
\* The polynomial of a message whose bits are sent in the order Place gives them,
\* with its first bits turned over and room for the remainder.
Message(Place(_), width) ==
  LET count == 8 * Len(fed)
      ones == {i \in 0 .. count - 1 : Place(i % 8) \in fed[i \div 8 + 1]}
      turned == SymDiff(ones, Ones(width))
  IN {count + width - 1 - i : i \in turned}

Reference16 ==
  Remainder(Message(LAMBDA i : 7 - i, 16), Leaves16)

Reference32 ==
  FINAL_XOR(Reverse32(Remainder(Message(LAMBDA i : i, 32), Leaves32)))

\* "The only proof that both sides compute the same CRC and not merely a CRC"
\* (crc32.h:12): bit by bit and by table, the sums are the remainders of the two
\* variants the protocol pins.
SumsAreRemainders ==
  /\ subject = "frame" => crc16 = Reference16
  /\ subject = "image" => FINAL_XOR(soft) = Reference32

\* "Because a wrong CRC would fail every COMMIT on a good image"
\* (ota_port.c:111-112): what COMMIT compares with is the checksum of the image
\* however the peripheral came up and wherever its last word ends.
Used ==
  IF g_trustworthy
  THEN CrcResult(unit, WriteBytes(unit, by_words, TailOf(fed)))
  ELSE FINAL_XOR(soft)

VerifyIsTrue == subject = "image" => Used = Reference32

\* A burst of damage in a frame changes its checksum, so the parser refuses it.
BurstsShow == burst # {} => crc16_received # crc16

\* The sums are those the protocol names, and a frame's tells damage.
SumsProtect == SumsAreRemainders /\ BurstsShow
=============================================================================
