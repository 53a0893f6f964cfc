------------------------------ MODULE BringUpProofs ------------------------------
(***************************************************************************)
(* The pins, the bus and the report from reset to the main loop, for every  *)
(* board, every wiring, every timeout and every length of the scan: a call  *)
(* that found nothing on the wires and succeeds moved every byte, no pin is *)
(* left otherwise than it was set up, and as long as no call was cut short  *)
(* what the report names is there and no part is configured that is no      *)
(* ADXL345.                                                                *)
(***************************************************************************)
EXTENDS BringUp, FiniteSetTheorems, SequenceTheorems, TLAPS

-----------------------------------------------------------------------------
(***************************************************************************)
(* The bus.  One call is under way at a time.  As long as it goes well and  *)
(* began on a bus at rest, the flags standing and the count of what moved   *)
(* say how far it is; as long as all of them did, no byte is on the wires   *)
(* that may not be written where it is going.                               *)
(***************************************************************************)
AllFlags == {"TXIS", "RXNE", "TC", "NACKF", "STOPF", "ERROR"}
Wires == {"idle", "address", "data", "shipping", "held", "stopping", "lost"}
Steps == {"none", "send", "tc", "take", "stop", "force", "returned"}
Statuses == {"I2C_OK", "I2C_NACK", "I2C_BUS_ERROR", "I2C_TIMEOUT"}
Readings == {"data"} \cup Range(parts)
Bytes == Registers \cup {"value"}
Transfers == [to : Nat, left : Int, read : BOOLEAN, auto_end : BOOLEAN,
              stop : BOOLEAN, named : BOOLEAN]

Calls == [to : Nat, tx : Seq(Bytes), rx : Nat, sent : Nat, got : Seq(Readings),
          step : Steps, status : Statuses]

CallTypeOK ==
  /\ call \in Calls
  /\ moved \in Nat /\ unrest \in {"none", "before", "now"}

WiresTypeOK ==
  /\ isr \subseteq AllFlags /\ wire \in Wires
  /\ cr2 \in Transfers /\ queued \in Seq(Transfers)
  /\ txdr \in Seq(Bytes) /\ rxdr \in Readings
  /\ chip \in [DOMAIN parts -> [pointer : Bytes, written : SUBSET Bytes]]
  /\ wire \in {"data", "shipping"} => cr2.to \in DOMAIN parts
  /\ wire = "shipping" => txdr # <<>>

\* A call asks for an address only, reads a register, or writes a setting.
CallShape ==
  call.step # "none" =>
    /\ Len(call.tx) <= 2 /\ (call.rx > 0 <=> Len(call.tx) = 1)
    /\ Len(call.tx) = 1 => call.tx[1] \in Registers
    /\ Len(call.tx) = 2 => call.tx[1] \in Settings /\ call.tx[2] = "value"

\* How far the driver is.
Position ==
  /\ call.step = "none" => call = Idle
  /\ call.step = "send" => call.sent < Len(call.tx) /\ call.got = <<>>
  /\ call.step = "tc" => call.sent = Len(call.tx) /\ call.got = <<>> /\ call.rx > 0
  /\ call.step = "take" => call.sent = Len(call.tx) /\ Len(call.got) < call.rx
  /\ call.step = "stop" => call.sent = Len(call.tx) /\ Len(call.got) = call.rx
  /\ call.step \in {"send", "tc", "take", "stop"} => call.status = "I2C_OK"
  /\ call.step = "force" => call.status # "I2C_OK"

BusTypeOK == CallTypeOK /\ WiresTypeOK /\ CallShape /\ Position

(***************************************************************************)
(* A call that began on a bus at rest, and meets no error.                 *)
(***************************************************************************)
NoError == "NACKF" \notin isr /\ "ERROR" \notin isr
WriteHalf == call.step \in {"send", "tc"} \/ (call.step = "stop" /\ call.rx = 0)
ReadHalf == call.step = "take" \/ (call.step = "stop" /\ call.rx > 0)

\* The bytes given and not acknowledged are the last of those sent.
LastSent ==
  \A k \in 1 .. Len(txdr) : txdr[k] = call.tx[call.sent - Len(txdr) + k]
AllSent == call.sent = Len(call.tx) /\ moved = 1 + Len(call.tx) /\ txdr = <<>>

Sending ==
  /\ wire # "idle" =>
       cr2.to = call.to /\ ~cr2.stop /\ ~cr2.read /\ (cr2.auto_end <=> call.rx = 0)
  /\ "RXNE" \notin isr
  /\ "TXIS" \in isr => /\ wire \in {"data", "shipping"} /\ call.sent < Len(call.tx)
                       /\ Len(txdr) = Shifting
  /\ "TC" \in isr => wire = "held"
  /\ "STOPF" \in isr => wire = "idle"
  /\ wire = "address" => /\ moved = 0 /\ call.sent = 0 /\ txdr = <<>>
                         /\ cr2.left = Len(call.tx) /\ ~cr2.named
  /\ wire \in {"data", "shipping"} =>
       /\ Len(txdr) <= call.sent /\ moved = 1 + call.sent - Len(txdr)
       /\ cr2.left = Len(call.tx) - call.sent + Len(txdr)
       /\ cr2.named <=> call.sent > Len(txdr)
       /\ LastSent
  /\ wire = "held" => call.rx > 0 /\ AllSent
  /\ wire \in {"stopping", "idle"} => call.rx = 0 /\ AllSent

\* What was read, with the byte in the data register and the bytes to come.
Received(left) ==
  /\ left >= 0 /\ moved = 2 + Len(call.tx) + call.rx - left
  /\ Len(call.got) = call.rx - left - (IF "RXNE" \in isr THEN 1 ELSE 0)
  /\ "RXNE" \in isr => rxdr = Holds(parts[call.to], call.tx[1])

Taking ==
  /\ wire # "idle" => cr2.to = call.to /\ ~cr2.stop /\ cr2.read /\ cr2.auto_end
  /\ wire \in {"address", "data", "stopping", "idle"} /\ txdr = <<>>
  /\ "TXIS" \notin isr /\ "TC" \notin isr /\ ("STOPF" \in isr => wire = "idle")
  /\ wire = "address" => /\ "RXNE" \notin isr /\ moved = 1 + Len(call.tx)
                         /\ call.got = <<>> /\ cr2.left = call.rx
  /\ wire = "data" => Received(cr2.left)
  /\ wire = "stopping" => cr2.left = 0
  /\ wire \in {"stopping", "idle"} => Received(0)

\* What the part knows of the call: it is there, its pointer is where the first
\* byte put it, and what it gave is what that register holds.
Arrived ==
  /\ moved >= 1 => call.to \in DOMAIN parts
  /\ moved >= 2 => chip[call.to].pointer = call.tx[1]
  /\ ReadHalf => moved >= 2
  /\ \A k \in DOMAIN call.got : call.got[k] = Holds(parts[call.to], call.tx[1])

Done == Moved /\ (call.step = "returned" /\ call.status = "I2C_OK" => Len(call.got) = call.rx)

Going ==
  /\ queued = <<>> /\ wire # "lost" /\ Done
  /\ WriteHalf /\ NoError => Sending /\ Arrived
  /\ ReadHalf /\ NoError => Taking /\ Arrived

(***************************************************************************)
(* When every call so far began on a bus at rest.                          *)
(***************************************************************************)
\* A part that may be told to measure.
SetUpBut(address) == {"BW_RATE", "DATA_FORMAT", "FIFO_CTL"} \subseteq chip[address].written

\* What may be written to a register of a part.
MayWrite(address, register) ==
  /\ address = AltLow /\ AltLow \in DOMAIN parts /\ parts[AltLow] = "adxl345"
  /\ register \in Settings /\ (register = "POWER_CTL" => SetUpBut(AltLow))

Asking == call.step # "none" /\ Len(call.tx) = 2 => MayWrite(call.to, call.tx[1])

\* A byte on its way, of this call or of one given up, goes where it may.
Moving == wire \in {"address", "data", "shipping"}
Given ==
  Moving =>
    /\ Len(txdr) <= 2
    /\ cr2.named /\ txdr # <<>> =>
         Len(txdr) = 1 /\ MayWrite(cr2.to, chip[cr2.to].pointer)
    /\ ~cr2.named /\ Len(txdr) = 2 => MayWrite(cr2.to, txdr[1])

\* A setting that was acknowledged is written.
Stored ==
  /\ call.step \in {"send", "stop"} /\ NoError /\ Len(call.tx) = 2 /\ moved >= 3 =>
       call.tx[1] \in chip[call.to].written
  /\ call.step = "returned" /\ call.status = "I2C_OK" /\ Len(call.tx) = 2 =>
       call.tx[1] \in chip[call.to].written

SetUpInOrder ==
  \A address \in DOMAIN parts :
    /\ parts[address] # "adxl345" => chip[address].written = {}
    /\ "POWER_CTL" \in chip[address].written => SetUpBut(address)

Clean == Asking /\ Given /\ Stored /\ SetUpInOrder

BusInv == BusTypeOK /\ (unrest # "now" => Going) /\ (unrest = "none" => Clean)

-----------------------------------------------------------------------------
(***************************************************************************)
(* The types: what holds whatever is left on the wires.                    *)
(***************************************************************************)
\* A turn of wait_for() that ends well saw its flag and no error.
LEMMA OutcomeTells ==
  /\ Outcome \in Statuses \cup {"waiting"}
  /\ Outcome = "I2C_OK" => NoError /\ Awaited[call.step] \in isr
<1>1. CASE "NACKF" \in isr
  BY <1>1 DEF Outcome, Statuses
<1>2. CASE "NACKF" \notin isr /\ "ERROR" \in isr
  BY <1>2 DEF Outcome, Statuses
<1>3. CASE "NACKF" \notin isr /\ "ERROR" \notin isr
  BY <1>3 DEF Outcome, Statuses, NoError
<1> QED
  BY <1>1, <1>2, <1>3

LEMMA AwaitedFlags ==
  /\ Awaited["send"] = "TXIS" /\ Awaited["tc"] = "TC" /\ Awaited["take"] = "RXNE"
  /\ Awaited["stop"] = "STOPF" /\ Awaited["force"] = "STOPF"
BY DEF Awaited

LEMMA BusTypes ==
  ASSUME BusTypeOK
  PROVE  /\ call \in Calls /\ call.to \in Nat /\ call.rx \in Nat /\ call.sent \in Nat
         /\ call.tx \in Seq(Bytes) /\ call.got \in Seq(Readings)
         /\ Len(call.tx) \in Nat /\ Len(call.got) \in Nat /\ call.step \in Steps
         /\ moved \in Nat /\ isr \subseteq AllFlags /\ wire \in Wires
         /\ cr2 \in Transfers /\ cr2.left \in Int /\ cr2.to \in Nat
         /\ txdr \in Seq(Bytes) /\ Len(txdr) \in Nat /\ rxdr \in Readings
         /\ chip \in [DOMAIN parts -> [pointer : Bytes, written : SUBSET Bytes]]
BY LenProperties DEF BusTypeOK, CallTypeOK, WiresTypeOK, Calls, Transfers

\* What the driver does to its call.
LEMMA DriverMoves ==
  ASSUME BusTypeOK, Driver
  PROVE  /\ call.step \notin {"none", "returned"} /\ call'.step # "none"
         /\ call'.to = call.to /\ call'.tx = call.tx /\ call'.rx = call.rx
         /\ call'.step # "returned" /\ call'.status # "I2C_OK" => call'.step = "force"
         /\ UNCHANGED <<parts, rxdr, jammed, chip, history>>
<1>1. call \in Calls
  BY BusTypes
<1> QED
  BY <1>1
  DEF Driver, SendByte, Turn, TakeByte, SeeStop, GiveUp, ForceStop, After, Calls,
      BusTypeOK, Position

LEMMA SendByteTypes ==
  ASSUME BusTypeOK, SendByte
  PROVE  /\ BusTypeOK'
         /\ \/ call'.step = "send" /\ call.sent + 1 < Len(call.tx)
            \/ call'.step = "tc" /\ call.sent + 1 = Len(call.tx) /\ call.rx > 0
            \/ call'.step = "stop" /\ call.sent + 1 = Len(call.tx) /\ call.rx = 0
<1>1. /\ call.step = "send"
      /\ call' = [call EXCEPT !.sent = @ + 1,
                              !.step = After(call.tx, call.rx, call.sent + 1)]
      /\ isr' = isr \ {"TXIS"} /\ txdr' = Append(txdr, call.tx[call.sent + 1])
      /\ UNCHANGED <<parts, cr2, queued, wire, rxdr, chip, moved, unrest>>
  BY DEF SendByte, history
<1>2. /\ call \in Calls /\ call.sent < Len(call.tx) /\ call.got = <<>>
      /\ call.status = "I2C_OK"
  BY <1>1, BusTypes DEF BusTypeOK, Position
<1>3. /\ call'.to = call.to /\ call'.tx = call.tx /\ call'.rx = call.rx
      /\ call'.got = call.got /\ call'.status = call.status
      /\ call'.sent = call.sent + 1
      /\ call'.step = After(call.tx, call.rx, call.sent + 1)
  BY <1>1, <1>2 DEF Calls
<1>4. \/ call'.step = "send" /\ call.sent + 1 < Len(call.tx)
      \/ call'.step = "tc" /\ call.sent + 1 = Len(call.tx) /\ call.rx > 0
      \/ call'.step = "stop" /\ call.sent + 1 = Len(call.tx) /\ call.rx = 0
  BY <1>2, <1>3, BusTypes DEF After
<1>5. call' \in Calls
  <2>1. call'.step \in Steps /\ call.sent + 1 \in Nat
    BY <1>4, BusTypes DEF Steps
  <2> QED
    BY <1>1, <1>2, <1>3, <2>1 DEF Calls
<1>6. CallTypeOK'
  BY <1>1, <1>5 DEF BusTypeOK, CallTypeOK, Calls, Readings
<1>7. txdr' \in Seq(Bytes) /\ txdr' # <<>>
  <2>1. call.tx[call.sent + 1] \in Bytes
    BY <1>2, BusTypes, ElementOfSeq
  <2> QED
    BY <1>1, <2>1, BusTypes, AppendProperties
<1>8. WiresTypeOK'
  BY <1>1, <1>7 DEF BusTypeOK, WiresTypeOK, Readings
<1>9. CallShape' /\ Position'
  BY <1>1, <1>2, <1>3, <1>4, BusTypes DEF BusTypeOK, CallShape, Position
<1> QED
  BY <1>4, <1>6, <1>8, <1>9 DEF BusTypeOK

LEMMA OneIsASequence ==
  ASSUME NEW S, NEW x \in S PROVE <<x>> \in Seq(S)
OBVIOUS

\* What begin_transfer() leaves, whatever was on the wires.
LEMMA BeginTransferTypes ==
  ASSUME BusTypeOK, NEW to \in Nat, NEW count \in Nat, NEW read \in BOOLEAN,
         NEW auto_end \in BOOLEAN, BeginTransfer(to, count, read, auto_end),
         UNCHANGED <<parts, txdr, rxdr, chip>>
  PROVE  WiresTypeOK'
<1>1. Transfer(to, count, read, auto_end) \in Transfers
  BY DEF Transfer, Transfers
<1>2. isr' \subseteq AllFlags /\ wire' \in {"address", wire} /\ cr2' \in Transfers
  BY <1>1, BusTypes DEF BeginTransfer, Start
<1>3. queued' \in Seq(Transfers)
  <2>1. queued' = queued \/ queued' = <<Transfer(to, count, read, auto_end)>>
    BY DEF BeginTransfer
  <2>2. queued \in Seq(Transfers)
    BY DEF BusTypeOK, WiresTypeOK
  <2>3. <<Transfer(to, count, read, auto_end)>> \in Seq(Transfers)
    BY <1>1, OneIsASequence
  <2> QED
    BY <2>1, <2>2, <2>3
<1>4. wire' # "address" => wire' = wire /\ cr2' = cr2
  BY DEF BeginTransfer, Start
<1> QED
  BY <1>2, <1>3, <1>4 DEF BusTypeOK, WiresTypeOK, Wires, Readings

LEMMA TurnTypes ==
  ASSUME BusTypeOK, Turn PROVE BusTypeOK'
<1>1. /\ call.step = "tc" /\ call' = [call EXCEPT !.step = "take"]
      /\ BeginTransfer(call.to, call.rx, TRUE, TRUE)
      /\ UNCHANGED <<parts, txdr, rxdr, chip, moved, unrest>>
  BY DEF Turn, history
<1>2. WiresTypeOK'
  BY <1>1, BusTypes, BeginTransferTypes
<1>3. call' \in Calls /\ CallTypeOK'
  BY <1>1, BusTypes DEF Calls, Steps, BusTypeOK, CallTypeOK, Readings
<1>4. /\ call'.to = call.to /\ call'.tx = call.tx /\ call'.rx = call.rx
      /\ call'.got = call.got /\ call'.status = call.status
      /\ call'.sent = call.sent /\ call'.step = "take"
  BY <1>1, BusTypes DEF Calls
<1>5. CallShape' /\ Position'
  BY <1>1, <1>4, BusTypes DEF BusTypeOK, CallShape, Position
<1> QED
  BY <1>2, <1>3, <1>5 DEF BusTypeOK

LEMMA TakeByteTypes ==
  ASSUME BusTypeOK, TakeByte
  PROVE  /\ BusTypeOK' /\ call'.got = Append(call.got, rxdr)
         /\ Len(call'.got) = Len(call.got) + 1
<1> DEFINE next == IF Len(call.got) + 1 = call.rx THEN "stop" ELSE "take"
<1>1. /\ call.step = "take"
      /\ call' = [call EXCEPT !.got = Append(@, rxdr), !.step = next]
      /\ isr' = isr \ {"RXNE"}
      /\ UNCHANGED <<parts, cr2, queued, wire, txdr, rxdr, chip, moved, unrest>>
  BY DEF TakeByte, history
<1>2. /\ Append(call.got, rxdr) \in Seq(Readings)
      /\ Len(Append(call.got, rxdr)) = Len(call.got) + 1
  BY BusTypes, AppendProperties
<1>3. /\ call'.to = call.to /\ call'.tx = call.tx /\ call'.rx = call.rx
      /\ call'.got = Append(call.got, rxdr) /\ call'.status = call.status
      /\ call'.sent = call.sent /\ call'.step = next
  BY <1>1, BusTypes DEF Calls
<1>4. call' \in Calls
  BY <1>1, <1>2, BusTypes DEF Calls, Steps
<1>5. CallTypeOK'
  BY <1>1, <1>4 DEF BusTypeOK, CallTypeOK, Calls, Readings
<1>6. WiresTypeOK'
  BY <1>1 DEF BusTypeOK, WiresTypeOK, Readings
<1>7. \/ next = "stop" /\ Len(call.got) + 1 = call.rx
      \/ next = "take" /\ Len(call.got) + 1 < call.rx
  BY <1>1, BusTypes DEF BusTypeOK, Position
<1> HIDE DEF next
<1>8. CallShape' /\ Position'
  BY <1>1, <1>2, <1>3, <1>7, BusTypes DEF BusTypeOK, CallShape, Position
<1> QED
  BY <1>2, <1>3, <1>5, <1>6, <1>8 DEF BusTypeOK

LEMMA EndingTypes ==
  ASSUME BusTypeOK, SeeStop \/ GiveUp \/ ForceStop PROVE BusTypeOK'
<1>1. /\ UNCHANGED <<parts, queued, wire, txdr, rxdr, chip, moved, unrest>>
      /\ isr' \subseteq isr
      /\ cr2' \in {cr2, [cr2 EXCEPT !.stop = TRUE]}
  BY DEF SeeStop, GiveUp, ForceStop, history
<1>2. cr2' \in Transfers /\ cr2'.to = cr2.to
  BY <1>1, BusTypes DEF Transfers
<1>3. WiresTypeOK'
  BY <1>1, <1>2 DEF BusTypeOK, WiresTypeOK, Readings
<1>4. /\ call.step # "none" /\ call' \in Calls
      /\ call'.to = call.to /\ call'.tx = call.tx /\ call'.rx = call.rx
      /\ call'.step \in {"force", "returned"}
      /\ call'.step = "force" => call'.status # "I2C_OK"
  BY BusTypes, OutcomeTells DEF SeeStop, GiveUp, ForceStop, Calls, Steps
<1>5. CallTypeOK' /\ CallShape' /\ Position'
  BY <1>1, <1>4 DEF BusTypeOK, CallTypeOK, CallShape, Position, Calls, Readings
<1> QED
  BY <1>3, <1>5 DEF BusTypeOK

\* What is given and not acknowledged, and what is left of it.
LEMMA GivenTypes ==
  ASSUME NEW S, NEW s \in Seq(S), s # <<>>
  PROVE  /\ Tail(s) \in Seq(S) /\ Len(Tail(s)) = Len(s) - 1
         /\ Head(s) = s[1] /\ Head(s) \in S /\ Len(s) > 0
         /\ \A k \in 1 .. Len(s) - 1 : Tail(s)[k] = s[k + 1]
BY HeadTailProperties, EmptySeq, LenProperties, ElementOfSeq

LEMMA UnsentTypes ==
  ASSUME BusTypeOK
  PROVE  Unsent \in Seq(Bytes) /\ (wire # "shipping" => Unsent = txdr)
BY GivenTypes DEF BusTypeOK, WiresTypeOK, Unsent

\* The part takes a byte: the name of a register, or what goes where its pointer is.
LEMMA Shipped ==
  ASSUME BusTypeOK, ShipByte
  PROVE  /\ cr2.to \in DOMAIN parts
         /\ chip' \in [DOMAIN parts -> [pointer : Bytes, written : SUBSET Bytes]]
         /\ \A b \in DOMAIN parts : b # cr2.to => chip'[b] = chip[b]
         /\ ~cr2.named => /\ chip'[cr2.to].pointer = Head(txdr)
                          /\ chip'[cr2.to].written = chip[cr2.to].written
         /\ cr2.named =>
              /\ chip'[cr2.to].pointer = chip[cr2.to].pointer
              /\ chip'[cr2.to].written =
                   chip[cr2.to].written
                     \cup ({chip[cr2.to].pointer} \cap Writable(parts[cr2.to]))
<1> DEFINE a == cr2.to
           Chip == [pointer : Bytes, written : SUBSET Bytes]
           new == IF ~cr2.named THEN [chip[a] EXCEPT !.pointer = Head(txdr)]
                  ELSE [chip[a] EXCEPT !.written = chip[a].written
                          \cup ({chip[a].pointer} \cap Writable(parts[a]))]
<1>1. wire = "shipping" /\ chip' = [chip EXCEPT ![a] = new]
  <2>1. CASE cr2.named
    BY <2>1 DEF ShipByte
  <2>2. CASE ~cr2.named
    BY <2>2 DEF ShipByte
  <2> QED
    BY <2>1, <2>2
<1>2. a \in DOMAIN parts /\ chip \in [DOMAIN parts -> Chip] /\ chip[a] \in Chip
  BY <1>1 DEF BusTypeOK, WiresTypeOK
<1>3. Head(txdr) \in Bytes
  BY <1>1, BusTypes, GivenTypes DEF BusTypeOK, WiresTypeOK
<1>4. Writable(parts[a]) \subseteq Bytes
  BY DEF Writable, Bytes, Registers, Settings
<1>5. /\ new \in Chip
      /\ ~cr2.named => new.pointer = Head(txdr) /\ new.written = chip[a].written
      /\ cr2.named => /\ new.pointer = chip[a].pointer
                      /\ new.written =
                           chip[a].written \cup ({chip[a].pointer} \cap Writable(parts[a]))
  BY <1>2, <1>3, <1>4
<1> HIDE DEF new
<1>6. chip'[a] = new /\ \A b \in DOMAIN parts : b # a => chip'[b] = chip[b]
  BY <1>1, <1>2
<1>7. chip' \in [DOMAIN parts -> Chip]
  BY <1>1, <1>2, <1>5
<1> QED
  BY <1>2, <1>5, <1>6, <1>7

LEMMA PeripheralTypes ==
  ASSUME BusTypeOK, Peripheral \/ BusError
  PROVE  BusTypeOK' /\ UNCHANGED <<parts, call, unrest>>
<1>1. UNCHANGED <<parts, call, unrest>>
  BY DEF Peripheral, StartQueued, Address, AskByte, Shift, ShipByte, RefuseByte,
         ReceiveByte, Finish, StopAsked, Stop, BusError, driver, history
<1>2. CallShape' /\ Position' /\ Readings' = Readings
  BY <1>1 DEF BusTypeOK, CallShape, Position, Readings
<1>3. moved' \in Nat
  BY BusTypes
  DEF Peripheral, StartQueued, Address, AskByte, Shift, ShipByte, RefuseByte,
      ReceiveByte, Finish, StopAsked, Stop, BusError, history
<1>4. CallTypeOK'
  BY <1>1, <1>2, <1>3 DEF BusTypeOK, CallTypeOK, Calls
<1>5. isr' \subseteq AllFlags /\ wire' \in Wires
  BY BusTypes
  DEF Peripheral, StartQueued, Start, Address, AskByte, Shift, ShipByte, RefuseByte,
      ReceiveByte, Finish, StopAsked, Stop, BusError, Over, Raise, AllFlags, Wires
<1>6. cr2' \in Transfers /\ queued' \in Seq(Transfers)
  <2>1. NoTransfer \in Transfers
    BY DEF NoTransfer, Transfer, Transfers
  <2>2. queued # <<>> => Head(queued) \in Transfers
    BY GivenTypes DEF BusTypeOK, WiresTypeOK
  <2>3. CASE StartQueued
    BY <2>1, <2>2, <2>3 DEF StartQueued, Start
  <2>4. CASE ShipByte \/ ReceiveByte
    <3>1. cr2 \in Transfers /\ cr2.left - 1 \in Int /\ queued' \in Seq(Transfers)
      BY <2>4, BusTypes DEF ShipByte, ReceiveByte, BusTypeOK, WiresTypeOK
    <3>2. \/ cr2' = [cr2 EXCEPT !.left = @ - 1, !.named = TRUE]
          \/ cr2' = [cr2 EXCEPT !.left = @ - 1]
      BY <2>4 DEF ShipByte, ReceiveByte
    <3> QED
      BY <3>1, <3>2 DEF Transfers
  <2>5. CASE Stop \/ BusError
    BY <2>1, <2>5 DEF Stop, BusError, Over, BusTypeOK, WiresTypeOK
  <2>6. CASE Address \/ AskByte \/ Shift \/ RefuseByte \/ Finish \/ StopAsked
    BY <2>6, BusTypes
    DEF Address, AskByte, Shift, RefuseByte, Finish, StopAsked, BusTypeOK, WiresTypeOK
  <2> QED
    BY <2>3, <2>4, <2>5, <2>6 DEF Peripheral
<1>7. txdr' \in Seq(Bytes)
  <2>1. CASE ShipByte
    BY <2>1, GivenTypes DEF ShipByte, BusTypeOK, WiresTypeOK
  <2>2. CASE ~ShipByte
    BY <2>2, BusTypes, UnsentTypes
    DEF Peripheral, StartQueued, Address, AskByte, Shift, RefuseByte,
        ReceiveByte, Finish, StopAsked, Stop, BusError
  <2> QED
    BY <2>1, <2>2
<1>8. rxdr' \in Readings
  <2>1. CASE ReceiveByte
    <3>1. cr2.to \in DOMAIN parts
      BY <2>1 DEF ReceiveByte, BusTypeOK, WiresTypeOK
    <3> QED
      BY <2>1, <3>1 DEF ReceiveByte, Holds, Readings, Range
  <2>2. CASE ~ReceiveByte
    BY <2>2, BusTypes
    DEF Peripheral, StartQueued, Address, AskByte, Shift, ShipByte, RefuseByte,
        Finish, StopAsked, Stop, BusError
  <2> QED
    BY <2>1, <2>2
<1>9. chip' \in [DOMAIN parts -> [pointer : Bytes, written : SUBSET Bytes]]
  <2>1. CASE ShipByte
    BY <2>1, Shipped
  <2>2. CASE ~ShipByte
    BY <2>2, BusTypes
    DEF Peripheral, StartQueued, Address, AskByte, Shift, RefuseByte,
        ReceiveByte, Finish, StopAsked, Stop, BusError
  <2> QED
    BY <2>1, <2>2
<1>10. wire' \in {"data", "shipping"} => cr2'.to \in DOMAIN parts'
  <2>1. CASE ShipByte \/ ReceiveByte
    <3>1. cr2.to \in DOMAIN parts /\ cr2'.to = cr2.to
      BY <2>1, BusTypes DEF ShipByte, ReceiveByte, BusTypeOK, WiresTypeOK, Transfers
    <3> QED
      BY <1>1, <3>1
  <2>2. CASE ~ShipByte /\ ~ReceiveByte
    BY <1>1, <2>2
    DEF Peripheral, StartQueued, Start, Address, AskByte, Shift, RefuseByte, Finish,
        StopAsked, Stop, BusError, Over, Listening, BusTypeOK, WiresTypeOK
  <2> QED
    BY <2>1, <2>2
<1>11. wire' = "shipping" => txdr' # <<>>
  BY DEF Peripheral, StartQueued, Start, Address, AskByte, Shift, ShipByte, RefuseByte,
         ReceiveByte, Finish, StopAsked, Stop, BusError, Over, BusTypeOK, WiresTypeOK
<1>12. WiresTypeOK'
  BY <1>1, <1>2, <1>5, <1>6, <1>7, <1>8, <1>9, <1>10, <1>11 DEF WiresTypeOK
<1> QED
  BY <1>1, <1>2, <1>4, <1>12 DEF BusTypeOK

-----------------------------------------------------------------------------
(***************************************************************************)
(* A call that began on a bus at rest: the driver's side.                  *)
(***************************************************************************)
\* A call that is over, or that met an error, says nothing of its transfer.
LEMMA NothingSaid ==
  ASSUME queued' = <<>>, wire' # "lost", Done',
         ~NoError' \/ ~(WriteHalf' \/ ReadHalf')
  PROVE  Going'
BY DEF Going

\* While the driver waits for it, a flag is as far as its transfer is.
LEMMA HalfWay ==
  ASSUME Going, NoError
  PROVE  /\ queued = <<>> /\ wire # "lost"
         /\ WriteHalf => Sending /\ Arrived
         /\ ReadHalf => Taking /\ Arrived
BY DEF Going

LEMMA SendByteKeeps ==
  ASSUME BusTypeOK, Going, SendByte PROVE Going'
<1> DEFINE n == Len(txdr)
<1>1. /\ call.step = "send"
      /\ call' = [call EXCEPT !.sent = @ + 1,
                              !.step = After(call.tx, call.rx, call.sent + 1)]
      /\ isr' = isr \ {"TXIS"} /\ txdr' = Append(txdr, call.tx[call.sent + 1])
      /\ UNCHANGED <<parts, cr2, queued, wire, rxdr, chip, moved>>
  BY DEF SendByte, history
<1>2. NoError /\ "TXIS" \in isr
  BY <1>1, OutcomeTells, AwaitedFlags DEF SendByte
<1>3. WriteHalf /\ Sending /\ Arrived /\ queued = <<>> /\ wire # "lost"
  BY <1>1, <1>2, HalfWay DEF WriteHalf
<1>4. /\ wire \in {"data", "shipping"} /\ call.sent < Len(call.tx) /\ n = Shifting
      /\ cr2.to = call.to /\ ~cr2.stop /\ ~cr2.read /\ (cr2.auto_end <=> call.rx = 0)
      /\ "RXNE" \notin isr /\ "TC" \notin isr /\ "STOPF" \notin isr
      /\ n <= call.sent /\ moved = 1 + call.sent - n
      /\ cr2.left = Len(call.tx) - call.sent + n
      /\ cr2.named <=> call.sent > n
      /\ LastSent
  BY <1>2, <1>3 DEF Sending
<1>5. /\ call'.to = call.to /\ call'.tx = call.tx /\ call'.rx = call.rx
      /\ call'.got = call.got /\ call'.sent = call.sent + 1
  BY <1>1, BusTypes DEF Calls
<1>6. /\ call'.step \in {"send", "tc", "stop"} /\ ~ReadHalf'
      /\ call'.step = "stop" => call.rx = 0
  BY <1>5, SendByteTypes, BusTypes DEF ReadHalf
<1>7. /\ Len(txdr') = n + 1 /\ txdr'[n + 1] = call.tx[call.sent + 1]
      /\ \A k \in 1 .. n : txdr'[k] = txdr[k]
  <2>1. call.tx[call.sent + 1] \in Bytes
    BY <1>4, BusTypes, ElementOfSeq
  <2> QED
    BY <1>1, <2>1, BusTypes, AppendProperties
<1>8. LastSent'
  <2> SUFFICES ASSUME NEW k \in 1 .. Len(txdr')
               PROVE  txdr'[k] = call'.tx[call'.sent - Len(txdr') + k]
    BY DEF LastSent
  <2> k \in 1 .. n + 1
    BY <1>7
  <2>1. call'.tx = call.tx /\ call'.sent - Len(txdr') + k = call.sent - n + k
    <3>1. /\ n \in Nat /\ call.sent \in Nat /\ Len(txdr') = n + 1
          /\ call'.sent = call.sent + 1 /\ call'.tx = call.tx
      BY <1>5, <1>7, BusTypes
    <3> HIDE DEF n
    <3> QED
      BY <3>1
  <2>2. CASE k \in 1 .. n
    BY <1>4, <1>7, <2>1, <2>2 DEF LastSent
  <2>3. CASE k = n + 1
    <3>1. call.sent - n + k = call.sent + 1
      BY <2>3, BusTypes
    <3> QED
      BY <1>7, <2>1, <2>3, <3>1
  <2> QED
    BY <2>2, <2>3, BusTypes
<1>9. Sending'
  <2>1. /\ n + 1 <= call.sent + 1 /\ moved = 1 + (call.sent + 1) - (n + 1)
        /\ cr2.left = Len(call.tx) - (call.sent + 1) + (n + 1)
        /\ cr2.named <=> call.sent + 1 > n + 1
    <3>1. n \in Nat /\ call.sent \in Nat /\ Len(call.tx) \in Nat /\ cr2.left \in Int
      BY BusTypes
    <3> HIDE DEF n
    <3> QED
      BY <1>4, <3>1
  <2> HIDE DEF n
  <2> QED
    BY <1>1, <1>4, <1>5, <1>7, <1>8, <2>1 DEF Sending
<1>10. Arrived'
  BY <1>1, <1>3, <1>5, <1>6 DEF Arrived
<1>11. Done'
  BY <1>6 DEF Done, Moved
<1> QED
  BY <1>1, <1>3, <1>6, <1>9, <1>10, <1>11 DEF Going

LEMMA TurnKeeps ==
  ASSUME BusTypeOK, Going, Turn PROVE Going'
<1>1. /\ call.step = "tc" /\ call' = [call EXCEPT !.step = "take"]
      /\ BeginTransfer(call.to, call.rx, TRUE, TRUE)
      /\ UNCHANGED <<parts, txdr, rxdr, chip, moved>>
  BY DEF Turn, history
<1>2. NoError /\ "TC" \in isr
  BY <1>1, OutcomeTells, AwaitedFlags DEF Turn
<1>3. WriteHalf /\ Sending /\ Arrived /\ queued = <<>>
  BY <1>1, <1>2, HalfWay DEF WriteHalf
<1>4. /\ wire = "held" /\ ~cr2.stop /\ call.rx > 0 /\ AllSent
      /\ "TXIS" \notin isr /\ "RXNE" \notin isr
  BY <1>2, <1>3 DEF Sending
<1>5. /\ wire' = "address" /\ cr2' = Transfer(call.to, call.rx, TRUE, TRUE)
      /\ queued' = <<>> /\ isr' = isr \ {"NACKF", "STOPF", "ERROR", "TC"}
  BY <1>1, <1>3, <1>4 DEF BeginTransfer, Free, Start
<1>6. /\ call'.to = call.to /\ call'.tx = call.tx /\ call'.rx = call.rx
      /\ call'.got = call.got /\ call'.step = "take"
  BY <1>1, BusTypes DEF Calls
<1>7. call.got = <<>> /\ Len(call.tx) = 1 /\ moved = 2
  <2>1. call.got = <<>> /\ Len(call.tx) = 1
    BY <1>1, <1>4 DEF BusTypeOK, Position, CallShape
  <2> QED
    BY <1>4, <2>1 DEF AllSent
<1>8. Taking'
  BY <1>1, <1>4, <1>5, <1>6, <1>7 DEF Taking, AllSent, Transfer
<1>9. Arrived'
  BY <1>1, <1>3, <1>6, <1>7 DEF Arrived
<1>10. ~WriteHalf' /\ Done'
  BY <1>6 DEF WriteHalf, Done, Moved
<1> QED
  BY <1>5, <1>8, <1>9, <1>10 DEF Going

LEMMA TakeByteKeeps ==
  ASSUME BusTypeOK, Going, TakeByte PROVE Going'
<1>1. /\ call.step = "take"
      /\ call' = [call EXCEPT !.got = Append(@, rxdr),
                    !.step = IF Len(call.got) + 1 = call.rx THEN "stop" ELSE "take"]
      /\ isr' = isr \ {"RXNE"}
      /\ UNCHANGED <<parts, cr2, queued, wire, txdr, rxdr, chip, moved>>
  BY DEF TakeByte, history
<1>2. NoError /\ "RXNE" \in isr
  BY <1>1, OutcomeTells, AwaitedFlags DEF TakeByte
<1>3. ReadHalf /\ Taking /\ Arrived /\ queued = <<>>
  BY <1>1, <1>2, HalfWay DEF ReadHalf
<1>4. /\ call'.to = call.to /\ call'.tx = call.tx /\ call'.rx = call.rx
      /\ call'.got = Append(call.got, rxdr) /\ call'.step \in {"take", "stop"}
  BY <1>1, BusTypes DEF Calls
<1>5. Len(call'.got) = Len(call.got) + 1 /\ call.rx > 0
  BY <1>1, TakeByteTypes, BusTypes DEF BusTypeOK, Position
<1>6. /\ \A k \in 1 .. Len(call.got) : call'.got[k] = call.got[k]
      /\ call'.got[Len(call.got) + 1] = rxdr
      /\ DOMAIN call.got = 1 .. Len(call.got)
      /\ DOMAIN call'.got = 1 .. Len(call.got) + 1
  <2>1. call'.got \in Seq(Readings)
    BY <1>4, BusTypes, AppendProperties
  <2> QED
    BY <1>4, <1>5, <2>1, BusTypes, AppendProperties, LenProperties
<1>7. ASSUME NEW left \in Int, Received(left)
      PROVE  /\ left >= 0 /\ moved' = 2 + Len(call'.tx) + call'.rx - left
             /\ Len(call'.got) = call'.rx - left
             /\ rxdr = Holds(parts[call.to], call.tx[1])
  BY <1>1, <1>2, <1>4, <1>5, <1>7, BusTypes DEF Received
<1>8. "RXNE" \notin isr'
  BY <1>1
<1>9. /\ wire \in {"data", "stopping", "idle"}
      /\ wire = "data" => Received(cr2.left)
      /\ wire \in {"stopping", "idle"} => Received(0)
  BY <1>2, <1>3 DEF Taking
<1>10. /\ wire = "data" => Received(cr2.left)'
       /\ wire \in {"stopping", "idle"} => Received(0)'
  <2>1. ASSUME wire = "data" PROVE Received(cr2.left)'
    <3>1. /\ cr2.left >= 0 /\ moved' = 2 + Len(call'.tx) + call'.rx - cr2.left
          /\ Len(call'.got) = call'.rx - cr2.left
      BY <1>7, <1>9, <2>1, BusTypes
    <3> QED
      BY <1>1, <1>4, <1>8, <3>1, BusTypes DEF Received
  <2>2. ASSUME wire \in {"stopping", "idle"} PROVE Received(0)'
    <3>1. /\ moved' = 2 + Len(call'.tx) + call'.rx - 0
          /\ Len(call'.got) = call'.rx - 0
      BY <1>7, <1>9, <2>2
    <3> QED
      BY <1>4, <1>8, <3>1, BusTypes DEF Received
  <2> QED
    BY <2>1, <2>2
<1>11. Taking'
  BY <1>1, <1>3, <1>4, <1>9, <1>10 DEF Taking
<1>12. rxdr = Holds(parts[call.to], call.tx[1])
  BY <1>7, <1>9, BusTypes
<1>13. Arrived'
  <2>1. \A k \in DOMAIN call'.got : call'.got[k] = Holds(parts[call.to], call.tx[1])
    <3> SUFFICES ASSUME NEW k \in 1 .. Len(call.got) + 1
                 PROVE  call'.got[k] = Holds(parts[call.to], call.tx[1])
      BY <1>6
    <3>1. CASE k \in 1 .. Len(call.got)
      BY <1>3, <1>6, <3>1 DEF Arrived
    <3>2. CASE k = Len(call.got) + 1
      BY <1>6, <1>12, <3>2
    <3> QED
      BY <3>1, <3>2, BusTypes
  <2> QED
    BY <1>1, <1>3, <1>4, <2>1 DEF Arrived
<1>14. ~WriteHalf' /\ Done'
  BY <1>4, <1>5, BusTypes DEF WriteHalf, Done, Moved
<1> QED
  BY <1>1, <1>3, <1>9, <1>11, <1>13, <1>14 DEF Going

\* The last wait of a call: what it returns with I2C_OK is all there.
LEMMA SeeStopKeeps ==
  ASSUME BusTypeOK, Going, SeeStop PROVE Going'
<1>1. /\ call.step = "stop" /\ Outcome # "waiting"
      /\ call' = [call EXCEPT !.status = Outcome, !.step = "returned"]
      /\ isr' = isr \ (Seen \cup {"STOPF"})
      /\ UNCHANGED <<parts, cr2, queued, wire, txdr, rxdr, chip, moved>>
  BY DEF SeeStop, history
<1>2. /\ call'.to = call.to /\ call'.tx = call.tx /\ call'.rx = call.rx
      /\ call'.got = call.got /\ call'.status = Outcome /\ call'.step = "returned"
  BY <1>1, BusTypes DEF Calls
<1>3. Len(call.got) = call.rx
  BY <1>1 DEF BusTypeOK, Position
<1>4. ASSUME Outcome = "I2C_OK"
      PROVE  /\ call.to \in DOMAIN parts
             /\ wire = "idle" /\ txdr = <<>> /\ "TXIS" \notin isr /\ "RXNE" \notin isr
             /\ moved = 1 + Len(call.tx) + (IF call.rx > 0 THEN 1 + call.rx ELSE 0)
             /\ \A k \in DOMAIN call.got :
                  call.got[k] = Holds(parts[call.to], call.tx[1])
  <2>1. NoError /\ "STOPF" \in isr
    BY <1>1, <1>4, OutcomeTells, AwaitedFlags
  <2>2. CASE call.rx = 0
    <3>1. WriteHalf /\ Sending /\ Arrived
      BY <1>1, <2>1, <2>2, HalfWay DEF WriteHalf
    <3>2. /\ wire = "idle" /\ AllSent /\ "RXNE" \notin isr /\ "TXIS" \notin isr
          /\ txdr = <<>> /\ moved = 1 + Len(call.tx) /\ moved >= 1
      BY <2>1, <3>1, BusTypes DEF Sending, AllSent
    <3> QED
      BY <2>2, <3>1, <3>2, BusTypes DEF Arrived
  <2>3. CASE call.rx > 0
    <3>1. ReadHalf /\ Taking /\ Arrived
      BY <1>1, <2>1, <2>3, HalfWay DEF ReadHalf
    <3>2. wire = "idle" /\ Received(0) /\ txdr = <<>> /\ "TXIS" \notin isr
      BY <2>1, <3>1 DEF Taking
    <3>3. "RXNE" \notin isr /\ moved = 1 + Len(call.tx) + (1 + call.rx)
      BY <1>3, <3>2, BusTypes DEF Received
    <3>4. moved >= 1
      BY <3>3, BusTypes
    <3> QED
      BY <2>3, <3>1, <3>2, <3>3, <3>4 DEF Arrived
  <2> QED
    BY <2>2, <2>3, BusTypes
<1>5. Moved'
  BY <1>1, <1>2, <1>4 DEF Moved, AtRest, Going
<1>6. Done'
  BY <1>2, <1>3, <1>5 DEF Done
<1> QED
  BY <1>1, <1>2, <1>6, NothingSaid DEF Going, WriteHalf, ReadHalf

\* A call that goes wrong no longer says anything about its transfer.
LEMMA FailingKeeps ==
  ASSUME BusTypeOK, Going, GiveUp \/ ForceStop PROVE Going'
<1>1. /\ UNCHANGED <<queued, wire>> /\ call'.step \in {"force", "returned"}
      /\ call'.status # "I2C_OK"
  BY BusTypes DEF GiveUp, ForceStop, Calls, BusTypeOK, Position
<1>2. Done'
  BY <1>1 DEF Done, Moved
<1> QED
  BY <1>1, <1>2, NothingSaid DEF Going, WriteHalf, ReadHalf

-----------------------------------------------------------------------------
(***************************************************************************)
(* A call that began on a bus at rest: the peripheral's side.              *)
(***************************************************************************)
\* What a step of the peripheral has to show.  A call that returned I2C_OK is out
\* of its reach: nothing moves on an idle bus.
LEMMA PeripheralKeeps ==
  ASSUME BusTypeOK, Going, UNCHANGED <<parts, driver, queued>>,
         wire # "idle", wire' # "lost", NoError' => NoError,
         WriteHalf /\ NoError' /\ Sending /\ Arrived => Sending' /\ Arrived',
         ReadHalf /\ NoError' /\ Taking /\ Arrived => Taking' /\ Arrived'
  PROVE  Going'
<1>1. call' = call /\ parts' = parts /\ queued' = queued
  BY DEF driver
<1>2. WriteHalf' = WriteHalf /\ ReadHalf' = ReadHalf
  BY <1>1 DEF WriteHalf, ReadHalf
<1>3. ~(call.step = "returned" /\ call.status = "I2C_OK")
  BY DEF Going, Done, Moved, AtRest
<1>4. Done'
  BY <1>1, <1>3 DEF Done, Moved
<1> QED
  BY <1>1, <1>2, <1>4 DEF Going

LEMMA AddressKeeps ==
  ASSUME BusTypeOK, Going, Address PROVE Going'
<1>1. /\ wire = "address" /\ UNCHANGED <<parts, driver, cr2, queued, txdr, rxdr, chip>>
      /\ \/ Listening /\ wire' = "data" /\ moved' = moved + 1 /\ isr' = isr
         \/ wire' = "stopping" /\ isr' = isr \cup {"NACKF"} /\ moved' = moved
  BY DEF Address, Raise
<1>2. call' = call /\ parts' = parts
  BY <1>1 DEF driver
<1>3. /\ NoError' => /\ NoError /\ Listening /\ wire' = "data"
                     /\ moved' = moved + 1 /\ isr' = isr
  BY <1>1 DEF NoError
<1>4. ASSUME WriteHalf, NoError', Sending, Arrived PROVE Sending' /\ Arrived'
  <2>1. /\ cr2.to = call.to /\ ~cr2.stop /\ ~cr2.read /\ (cr2.auto_end <=> call.rx = 0)
        /\ "RXNE" \notin isr /\ "TXIS" \notin isr /\ "TC" \notin isr /\ "STOPF" \notin isr
        /\ moved = 0 /\ call.sent = 0 /\ txdr = <<>> /\ cr2.left = Len(call.tx)
        /\ ~cr2.named
    BY <1>1, <1>4 DEF Sending
  <2>2. moved' = 1 /\ call.to \in DOMAIN parts
    BY <1>3, <1>4, <2>1 DEF Listening
  <2>3. ~ReadHalf'
    BY <1>2, <1>4, BusTypes DEF WriteHalf, ReadHalf
  <2>4. LastSent' /\ Len(txdr') = 0
    BY <1>1, <2>1 DEF LastSent
  <2>5. Sending'
    BY <1>1, <1>2, <1>3, <1>4, <2>1, <2>2, <2>4, BusTypes DEF Sending
  <2>6. Arrived'
    BY <1>1, <1>2, <1>4, <2>2, <2>3 DEF Arrived
  <2> QED
    BY <2>5, <2>6
<1>5. ASSUME ReadHalf, NoError', Taking, Arrived PROVE Taking' /\ Arrived'
  <2>1. "RXNE" \notin isr /\ moved = 1 + Len(call.tx) /\ call.got = <<>>
        /\ cr2.left = call.rx /\ moved >= 2
    BY <1>1, <1>5 DEF Taking, Arrived
  <2>2. moved' = 2 + Len(call.tx) + call.rx - cr2.left /\ moved' >= 2
    BY <1>3, <1>5, <2>1, BusTypes
  <2>3. Received(cr2.left)'
    BY <1>1, <1>2, <1>3, <1>5, <2>1, <2>2, BusTypes DEF Received
  <2>4. Taking'
    BY <1>1, <1>2, <1>3, <1>5, <2>3 DEF Taking
  <2>5. Arrived'
    BY <1>1, <1>2, <1>5, <2>1, <2>2, BusTypes DEF Arrived
  <2> QED
    BY <2>4, <2>5
<1> QED
  BY <1>1, <1>3, <1>4, <1>5, PeripheralKeeps

LEMMA AskingKeeps ==
  ASSUME BusTypeOK, Going, AskByte \/ Shift PROVE Going'
<1>1. /\ wire \in {"data", "shipping"} /\ wire' \in {"data", "shipping"} /\ ~cr2.read
      /\ UNCHANGED <<parts, driver, cr2, queued, txdr, rxdr, chip, moved>>
      /\ \/ /\ isr' = isr \cup {"TXIS"} /\ wire' = wire
            /\ Len(txdr) = Shifting /\ Len(txdr) < cr2.left
         \/ isr' = isr /\ wire = "data" /\ wire' = "shipping" /\ txdr # <<>>
  BY DEF AskByte, Shift, Raise, history
<1>2. call' = call /\ parts' = parts /\ (NoError' <=> NoError)
  BY <1>1 DEF driver, NoError
<1>3. ASSUME WriteHalf, NoError', Sending, Arrived PROVE Sending' /\ Arrived'
  <2>1. Arrived' /\ LastSent'
    BY <1>1, <1>2, <1>3 DEF Arrived, ReadHalf, LastSent, Sending
  <2>2. CASE isr' = isr \cup {"TXIS"} /\ wire' = wire
             /\ Len(txdr) = Shifting /\ Len(txdr) < cr2.left
    <3>1. call.sent < Len(call.tx) /\ Shifting' = Shifting
      BY <1>1, <1>3, <2>2, BusTypes DEF Sending, Shifting
    <3> QED
      BY <1>1, <1>2, <1>3, <2>1, <2>2, <3>1 DEF Sending
  <2>3. CASE isr' = isr /\ wire = "data" /\ wire' = "shipping" /\ txdr # <<>>
    <3>1. "TXIS" \notin isr
      BY <1>3, <2>3, BusTypes, EmptySeq DEF Sending, Shifting
    <3> QED
      BY <1>1, <1>2, <1>3, <2>1, <2>3, <3>1 DEF Sending
  <2> QED
    BY <1>1, <2>1, <2>2, <2>3
<1>4. ~(ReadHalf /\ Taking)
  BY <1>1 DEF Taking
<1> QED
  BY <1>1, <1>2, <1>3, <1>4, PeripheralKeeps

LEMMA ShipByteKeeps ==
  ASSUME BusTypeOK, Going, ShipByte PROVE Going'
<1> DEFINE n == Len(txdr)
           m == Len(call.tx)
<1>1. /\ wire = "shipping" /\ wire' = "data" /\ txdr' = Tail(txdr)
      /\ cr2' = [cr2 EXCEPT !.left = @ - 1, !.named = TRUE] /\ moved' = moved + 1
      /\ UNCHANGED <<parts, driver, isr, queued, rxdr>>
  BY DEF ShipByte
<1>2. call' = call /\ parts' = parts /\ (NoError' <=> NoError)
  BY <1>1 DEF driver, NoError
<1>3. /\ cr2'.to = cr2.to /\ cr2'.left = cr2.left - 1 /\ cr2'.read = cr2.read
      /\ cr2'.auto_end = cr2.auto_end /\ cr2'.stop = cr2.stop /\ cr2'.named
  BY <1>1, BusTypes DEF Transfers
<1>4. /\ n \in Nat /\ n > 0 /\ Len(txdr') = n - 1 /\ Head(txdr) = txdr[1]
      /\ \A k \in 1 .. n - 1 : txdr'[k] = txdr[k + 1]
  BY <1>1, BusTypes, GivenTypes DEF BusTypeOK, WiresTypeOK
<1>5. ASSUME WriteHalf, NoError', Sending, Arrived PROVE Sending' /\ Arrived'
  <2>1. /\ cr2.to = call.to /\ ~cr2.stop /\ ~cr2.read /\ (cr2.auto_end <=> call.rx = 0)
        /\ "RXNE" \notin isr /\ "TC" \notin isr /\ "STOPF" \notin isr
        /\ "TXIS" \in isr => call.sent < m /\ n = 1
        /\ n <= call.sent /\ moved = 1 + call.sent - n /\ cr2.left = m - call.sent + n
        /\ cr2.named <=> call.sent > n
        /\ LastSent
    BY <1>1, <1>5 DEF Sending, Shifting
  <2>2. /\ n - 1 <= call.sent /\ moved' = 1 + call.sent - (n - 1)
        /\ cr2'.left = m - call.sent + (n - 1) /\ call.sent > n - 1
        /\ moved' >= 2 /\ moved >= 1
        /\ cr2.named => moved >= 2
        /\ ~cr2.named => call.sent - n + 1 = 1
    <3>1. /\ call.sent \in Nat /\ m \in Nat /\ moved \in Nat /\ n \in Nat /\ n > 0
          /\ n <= call.sent /\ moved = 1 + call.sent - n
          /\ cr2'.left = (m - call.sent + n) - 1 /\ moved' = moved + 1
      BY <1>1, <1>3, <1>4, <2>1, BusTypes
    <3> HIDE DEF n, m
    <3>2. /\ n - 1 <= call.sent /\ moved' = 1 + call.sent - (n - 1)
          /\ cr2'.left = m - call.sent + (n - 1) /\ call.sent > n - 1
          /\ moved' >= 2 /\ moved >= 1
          /\ call.sent > n => moved >= 2
          /\ ~(call.sent > n) => call.sent - n + 1 = 1
      BY <3>1
    <3> QED
      BY <2>1, <3>2
  <2>3. LastSent'
    <3> SUFFICES ASSUME NEW k \in 1 .. Len(txdr')
                 PROVE  txdr'[k] = call'.tx[call'.sent - Len(txdr') + k]
      BY DEF LastSent
    <3>1. k \in 1 .. n - 1 /\ k + 1 \in 1 .. n
      BY <1>4
    <3>2. txdr'[k] = call.tx[call.sent - n + (k + 1)]
      BY <1>4, <2>1, <3>1 DEF LastSent
    <3>3. call.sent - n + (k + 1) = call.sent - (n - 1) + k
      <4>1. call.sent \in Nat /\ n \in Nat /\ k \in Int
        BY <1>4, <3>1, BusTypes
      <4> HIDE DEF n
      <4> QED
        BY <4>1
    <3> QED
      BY <1>2, <1>4, <3>2, <3>3
  <2>4. Sending'
    <3>1. "TXIS" \in isr => Len(txdr') = 0
      <4> HIDE DEF n, m
      <4> QED
        BY <1>4, <2>1
    <3>2. /\ Len(txdr') <= call.sent /\ moved' = 1 + call.sent - Len(txdr')
          /\ cr2'.left = m - call.sent + Len(txdr')
          /\ call.sent > Len(txdr')
      BY <1>4, <2>2
    <3> QED
      BY <1>1, <1>2, <1>3, <2>1, <2>3, <3>1, <3>2 DEF Sending, Shifting
  <2>5. call.to \in DOMAIN parts /\ (moved >= 2 => chip[call.to].pointer = call.tx[1])
    BY <1>5, <2>2 DEF Arrived
  <2>6. chip'[call.to].pointer = call.tx[1]
    <3>1. CASE cr2.named
      BY <2>1, <2>2, <2>5, <3>1, Shipped
    <3>2. CASE ~cr2.named
      <4>1. txdr[1] = call.tx[call.sent - n + 1]
        BY <1>4, <2>1 DEF LastSent
      <4> QED
        BY <1>4, <2>1, <2>2, <3>2, <4>1, Shipped
    <3> QED
      BY <3>1, <3>2
  <2>7. Arrived'
    BY <1>2, <1>5, <2>2, <2>5, <2>6 DEF Arrived
  <2> QED
    BY <2>4, <2>7
<1>6. ~(ReadHalf /\ Taking)
  BY <1>1 DEF Taking
<1> QED
  BY <1>1, <1>2, <1>5, <1>6, PeripheralKeeps

LEMMA ReceiveByteKeeps ==
  ASSUME BusTypeOK, Going, ReceiveByte PROVE Going'
<1>1. /\ wire = "data" /\ cr2.read /\ cr2.left > 0 /\ "RXNE" \notin isr
      /\ rxdr' = Holds(parts[cr2.to], chip[cr2.to].pointer) /\ isr' = isr \cup {"RXNE"}
      /\ cr2' = [cr2 EXCEPT !.left = @ - 1] /\ moved' = moved + 1
      /\ UNCHANGED <<parts, driver, queued, wire, txdr, chip>>
  BY DEF ReceiveByte, Raise
<1>2. call' = call /\ parts' = parts /\ (NoError' <=> NoError)
  BY <1>1 DEF driver, NoError
<1>3. /\ cr2'.to = cr2.to /\ cr2'.left = cr2.left - 1 /\ cr2'.read = cr2.read
      /\ cr2'.auto_end = cr2.auto_end /\ cr2'.stop = cr2.stop
  BY <1>1, BusTypes DEF Transfers
<1>4. ASSUME ReadHalf, NoError', Taking, Arrived PROVE Taking' /\ Arrived'
  <2>1. /\ cr2.to = call.to /\ Received(cr2.left) /\ moved >= 2
        /\ chip[call.to].pointer = call.tx[1]
    BY <1>1, <1>4, BusTypes DEF Taking, Arrived
  <2>2. rxdr' = Holds(parts[call.to], call.tx[1])
    BY <1>1, <2>1
  <2>3. /\ cr2'.left >= 0 /\ moved' = 2 + Len(call.tx) + call.rx - cr2'.left
        /\ Len(call.got) = call.rx - cr2'.left - 1
    <3>1. /\ cr2.left >= 0 /\ moved = 2 + Len(call.tx) + call.rx - cr2.left
          /\ Len(call.got) = call.rx - cr2.left
      BY <1>1, <2>1, BusTypes DEF Received
    <3> DEFINE n == Len(call.tx)
               g == Len(call.got)
    <3>2. /\ n \in Nat /\ g \in Nat /\ call.rx \in Nat /\ cr2.left \in Int /\ moved \in Nat
          /\ cr2'.left = cr2.left - 1 /\ cr2.left > 0 /\ moved' = moved + 1
          /\ moved = 2 + n + call.rx - cr2.left /\ g = call.rx - cr2.left
      BY <1>1, <1>3, <3>1, BusTypes
    <3> HIDE DEF n, g
    <3>3. /\ cr2'.left >= 0 /\ moved' = 2 + n + call.rx - cr2'.left
          /\ g = call.rx - cr2'.left - 1
      BY <3>2
    <3> QED
      BY <3>3 DEF n, g
  <2>4. Received(cr2.left)'
    BY <1>1, <1>2, <2>2, <2>3 DEF Received
  <2>5. Taking'
    BY <1>1, <1>2, <1>3, <1>4, <2>4 DEF Taking
  <2>6. Arrived'
    BY <1>1, <1>2, <1>4, <2>1, BusTypes DEF Arrived
  <2> QED
    BY <2>5, <2>6
<1>5. ~(WriteHalf /\ Sending)
  BY <1>1 DEF Sending
<1> QED
  BY <1>1, <1>2, <1>4, <1>5, PeripheralKeeps

LEMMA FinishKeeps ==
  ASSUME BusTypeOK, Going, Finish PROVE Going'
<1>1. /\ wire = "data" /\ cr2.left = 0
      /\ \/ cr2.auto_end /\ wire' = "stopping" /\ isr' = isr
         \/ ~cr2.auto_end /\ wire' = "held" /\ isr' = isr \cup {"TC"}
      /\ UNCHANGED <<parts, driver, cr2, queued, txdr, rxdr, chip, moved>>
  BY DEF Finish, Raise, history
<1>2. call' = call /\ parts' = parts /\ (NoError' <=> NoError)
  BY <1>1 DEF driver, NoError
<1>3. ASSUME WriteHalf, NoError', Sending, Arrived PROVE Sending' /\ Arrived'
  <2>1. call.sent <= Len(call.tx)
    BY <1>3, BusTypes DEF WriteHalf, BusTypeOK, Position
  <2>2. /\ Len(txdr) <= call.sent /\ moved = 1 + call.sent - Len(txdr)
        /\ 0 = Len(call.tx) - call.sent + Len(txdr)
        /\ "TXIS" \in isr => call.sent < Len(call.tx)
    BY <1>1, <1>3 DEF Sending
  <2>3. call.sent = Len(call.tx) /\ Len(txdr) = 0 /\ moved = 1 + Len(call.tx)
    <3> DEFINE m == Len(call.tx)
               n == Len(txdr)
    <3>1. /\ m \in Nat /\ n \in Nat /\ call.sent \in Nat /\ moved \in Nat
          /\ call.sent <= m /\ n <= call.sent /\ moved = 1 + call.sent - n
          /\ 0 = m - call.sent + n
      BY <2>1, <2>2, BusTypes
    <3> HIDE DEF m, n
    <3>2. call.sent = m /\ n = 0 /\ moved = 1 + m
      BY <3>1
    <3> QED
      BY <3>2 DEF m, n
  <2>4. AllSent' /\ "TXIS" \notin isr
    BY <1>1, <1>2, <2>2, <2>3, BusTypes, EmptySeq DEF AllSent
  <2>5. Sending'
    <3>1. ~cr2.auto_end => call.rx > 0
      BY <1>1, <1>3, BusTypes DEF Sending
    <3> QED
      BY <1>1, <1>2, <1>3, <2>4, <3>1 DEF Sending
  <2>6. Arrived'
    BY <1>1, <1>2, <1>3 DEF Arrived, ReadHalf
  <2> QED
    BY <2>5, <2>6
<1>4. ASSUME ReadHalf, NoError', Taking, Arrived PROVE Taking' /\ Arrived'
  <2>1. cr2.auto_end /\ wire' = "stopping" /\ isr' = isr /\ Received(0)
    BY <1>1, <1>4 DEF Taking
  <2>2. Received(0)'
    BY <1>1, <1>2, <2>1 DEF Received
  <2>3. Taking'
    BY <1>1, <1>2, <1>4, <2>1, <2>2 DEF Taking
  <2>4. Arrived'
    BY <1>1, <1>2, <1>4 DEF Arrived, ReadHalf
  <2> QED
    BY <2>3, <2>4
<1> QED
  BY <1>1, <1>2, <1>3, <1>4, PeripheralKeeps

LEMMA StopKeeps ==
  ASSUME BusTypeOK, Going, Stop PROVE Going'
<1>1. /\ wire = "stopping" /\ wire' = "idle" /\ isr' = (isr \ {"TC"}) \cup {"STOPF"}
      /\ UNCHANGED <<parts, driver, queued, txdr, rxdr, chip, moved>>
  BY DEF Stop, Over, history
<1>2. call' = call /\ parts' = parts /\ (NoError' <=> NoError)
  BY <1>1 DEF driver, NoError
<1>3. ASSUME WriteHalf, NoError', Sending, Arrived PROVE Sending' /\ Arrived'
  <2>1. AllSent' /\ call.rx = 0
    BY <1>1, <1>2, <1>3 DEF Sending, AllSent
  <2>2. Sending'
    BY <1>1, <1>2, <1>3, <2>1 DEF Sending
  <2>3. Arrived'
    BY <1>1, <1>2, <1>3 DEF Arrived, ReadHalf
  <2> QED
    BY <2>2, <2>3
<1>4. ASSUME ReadHalf, NoError', Taking, Arrived PROVE Taking' /\ Arrived'
  <2>1. Received(0)'
    BY <1>1, <1>2, <1>4 DEF Taking, Received
  <2>2. Taking'
    BY <1>1, <1>2, <1>4, <2>1 DEF Taking
  <2>3. Arrived'
    BY <1>1, <1>2, <1>4 DEF Arrived, ReadHalf
  <2> QED
    BY <2>2, <2>3
<1> QED
  BY <1>1, <1>2, <1>3, <1>4, PeripheralKeeps

\* A byte refused and a bus error are seen by the driver, and a stop is asked for
\* only by a call that gave up.
LEMMA CutShortKeeps ==
  ASSUME BusTypeOK, Going, RefuseByte \/ StopAsked \/ BusError PROVE Going'
<1>1. UNCHANGED <<parts, driver, queued>> /\ wire # "idle" /\ wire' # "lost"
  BY DEF RefuseByte, StopAsked, BusError, Over
<1>2. NoError' => NoError
  BY DEF RefuseByte, StopAsked, BusError, Over, Raise, NoError
<1>3. ~NoError' \/ cr2.stop
  BY DEF RefuseByte, StopAsked, BusError, Over, Raise, NoError
<1>4. cr2.stop => ~(WriteHalf /\ Sending) /\ ~(ReadHalf /\ Taking)
  BY <1>1 DEF Sending, Taking
<1> QED
  BY <1>1, <1>2, <1>3, <1>4, PeripheralKeeps

LEMMA GoingKeeps ==
  ASSUME BusTypeOK, Going, Driver \/ Peripheral \/ BusError PROVE Going'
<1>1. ~StartQueued
  BY DEF Going, StartQueued
<1> QED
  BY <1>1, SendByteKeeps, TurnKeeps, TakeByteKeeps, SeeStopKeeps, FailingKeeps, AddressKeeps,
     AskingKeeps, ShipByteKeeps, ReceiveByteKeeps, FinishKeeps, StopKeeps, CutShortKeeps
  DEF Driver, Peripheral

-----------------------------------------------------------------------------
(***************************************************************************)
(* Every call so far began on a bus at rest: no byte on the wires goes      *)
(* where it may not.                                                        *)
(***************************************************************************)
\* What may be written may be written when more is in place.
LEMMA MayWriteStands ==
  ASSUME parts' = parts, NEW address, NEW register, MayWrite(address, register),
         \A b \in DOMAIN parts : chip[b].written \subseteq chip'[b].written
  PROVE  MayWrite(address, register)'
BY DEF MayWrite, SetUpBut

LEMMA SendByteClean ==
  ASSUME BusTypeOK, Going, Clean, SendByte PROVE Clean'
<1> DEFINE n == Len(txdr)
<1>1. /\ call.step = "send" /\ isr' = isr \ {"TXIS"}
      /\ UNCHANGED <<parts, cr2, queued, wire, rxdr, chip, moved>>
  BY DEF SendByte, history
<1>2. NoError /\ "TXIS" \in isr
  BY <1>1, OutcomeTells, AwaitedFlags DEF SendByte
<1>3. WriteHalf /\ Sending /\ Arrived
  BY <1>1, <1>2, HalfWay DEF WriteHalf
<1>4. call'.to = call.to /\ call'.tx = call.tx /\ call'.rx = call.rx /\ call'.step # "none"
      /\ call'.step # "returned" /\ call'.sent = call.sent + 1
  BY <1>1, BusTypes, SendByteTypes DEF SendByte, Calls
<1>5. /\ wire \in {"data", "shipping"} /\ call.sent < Len(call.tx) /\ n = Shifting
      /\ cr2.to = call.to /\ moved = 1 + call.sent - n
      /\ cr2.named <=> call.sent > n
  BY <1>2, <1>3 DEF Sending
<1>6. Len(call.tx) \in {1, 2}
  <2>1. Len(call.tx) <= 2
    BY <1>1 DEF BusTypeOK, CallShape
  <2> DEFINE m == Len(call.tx)
  <2>2. m \in Nat /\ call.sent \in Nat /\ call.sent < m /\ m <= 2
    BY <1>5, <2>1, BusTypes
  <2> HIDE DEF m
  <2>3. m \in {1, 2}
    BY <2>2
  <2> QED
    BY <2>3 DEF m
<1>7. Len(txdr') = n + 1 /\ call.tx[call.sent + 1] \in Bytes
  BY <1>5, BusTypes, ElementOfSeq, AppendProperties DEF SendByte
<1>8. Len(call.tx) = 2 => MayWrite(call.to, call.tx[1])
  BY <1>1 DEF Clean, Asking
<1>9. LastSent'
  <2>1. WriteHalf' /\ NoError'
    BY <1>1, <1>2, <1>4, SendByteTypes DEF WriteHalf, NoError
  <2> QED
    BY <1>1, <1>5, <2>1, SendByteKeeps DEF Going, Sending
<1>10. Given'
  <2>1. n \in {0, 1} /\ (wire = "data" => n = 0)
    BY <1>5 DEF Shifting
  <2>2. CASE cr2.named
    <3>1. n = 0 /\ call.sent = 1 /\ Len(call.tx) = 2 /\ moved = 2
      <4> DEFINE m == Len(call.tx)
      <4>1. call.sent \in Nat /\ call.sent > n /\ call.sent < m /\ m \in {1, 2}
            /\ moved = 1 + call.sent - n
        BY <1>5, <1>6, <2>2, BusTypes
      <4> HIDE DEF n, m
      <4>2. n = 0 /\ call.sent = 1 /\ m = 2 /\ moved = 2
        BY <2>1, <4>1
      <4> QED
        BY <4>2 DEF m
    <3>2. chip[cr2.to].pointer = call.tx[1]
      BY <1>3, <1>5, <3>1 DEF Arrived
    <3> QED
      BY <1>1, <1>5, <1>7, <1>8, <2>2, <3>1, <3>2 DEF Given, MayWrite, SetUpBut
  <2>3. CASE ~cr2.named
    <3>1. ASSUME n + 1 = 2 PROVE MayWrite(cr2.to, txdr'[1])
      <4>1. call.sent = 1 /\ Len(call.tx) = 2
        <5> DEFINE m == Len(call.tx)
        <5>1. call.sent \in Nat /\ ~(call.sent > n) /\ call.sent < m /\ m \in {1, 2}
              /\ n <= call.sent /\ n = 1
          BY <1>3, <1>5, <1>6, <2>1, <2>3, <3>1, BusTypes DEF Sending
        <5> HIDE DEF n, m
        <5>2. call.sent = 1 /\ m = 2
          BY <5>1
        <5> QED
          BY <5>2 DEF m
      <4>2. txdr'[1] = call.tx[(1 + 1) - (n + 1) + 1]
        BY <1>4, <1>7, <1>9, <3>1, <4>1 DEF LastSent
      <4> QED
        BY <1>5, <1>8, <3>1, <4>1, <4>2
    <3> QED
      <4>1. Len(txdr') <= 2 /\ (Len(txdr') = 2 => n + 1 = 2)
        <5> HIDE DEF n
        <5> QED
          BY <1>7, <2>1
      <4>2. MayWrite(cr2.to, txdr'[1]) => MayWrite(cr2.to, txdr[1])'
        BY <1>1 DEF MayWrite, SetUpBut
      <4> QED
        BY <1>1, <2>3, <3>1, <4>1, <4>2 DEF Given
  <2> QED
    BY <2>2, <2>3
<1>11. Asking' /\ Stored' /\ SetUpInOrder'
  BY <1>1, <1>2, <1>4
  DEF Clean, Asking, Stored, SetUpInOrder, MayWrite, SetUpBut, NoError
<1> QED
  BY <1>10, <1>11 DEF Clean

LEMMA DriverClean ==
  ASSUME BusTypeOK, Going, Clean, Driver, ~SendByte PROVE Clean'
<1>1. /\ call.step \notin {"none", "returned"}
      /\ call'.to = call.to /\ call'.tx = call.tx /\ call'.rx = call.rx
      /\ UNCHANGED <<parts, chip, moved>>
  BY DriverMoves DEF history
<1>2. Asking' /\ SetUpInOrder'
  BY <1>1 DEF Clean, Asking, SetUpInOrder, MayWrite, SetUpBut
<1>3. Given'
  <2>1. CASE Turn
    <3>1. NoError /\ "TC" \in isr /\ WriteHalf
      BY <2>1, OutcomeTells, AwaitedFlags DEF Turn, WriteHalf
    <3>2. txdr' = <<>>
      BY <2>1, <3>1, HalfWay DEF Turn, Sending, AllSent
    <3> QED
      BY <3>2 DEF Given
  <2>2. CASE ~Turn
    <3>1. UNCHANGED <<wire, txdr>> /\ cr2'.to = cr2.to /\ cr2'.named = cr2.named
      BY <2>2, BusTypes DEF Driver, TakeByte, SeeStop, GiveUp, ForceStop, Transfers
    <3>2. Moving' = Moving
      BY <3>1 DEF Moving
    <3> QED
      BY <1>1, <3>1, <3>2 DEF Clean, Given, MayWrite, SetUpBut
  <2> QED
    BY <2>1, <2>2
<1>4. Stored'
  <2> SUFFICES ASSUME Len(call.tx) = 2, call'.step \in {"send", "stop", "returned"},
                      call'.step = "returned" => call'.status = "I2C_OK"
               PROVE  call.tx[1] \in chip[call.to].written
    BY <1>1 DEF Stored
  <2>1. call.rx = 0
    BY <1>1, BusTypes DEF BusTypeOK, CallShape
  <2>2. SeeStop
    <3>1. ~Turn
      BY BusTypes DEF Turn, Calls
    <3>2. ~TakeByte
      BY <2>1, BusTypes DEF TakeByte, BusTypeOK, Position
    <3>3. ~GiveUp /\ ~ForceStop
      BY BusTypes DEF GiveUp, ForceStop, Calls, BusTypeOK, Position
    <3> QED
      BY <3>1, <3>2, <3>3 DEF Driver
  <2>3. call.step = "stop" /\ call'.step = "returned" /\ Outcome = "I2C_OK"
    BY <2>2, BusTypes DEF SeeStop, Calls
  <2>4. NoError
    BY <2>3, OutcomeTells
  <2>5. moved = 3
    <3>1. Moved'
      BY <2>2, SeeStopKeeps DEF Going, Done
    <3>2. call'.status = "I2C_OK" /\ moved' = 1 + 2 + 0
      <4>1. call'.status = "I2C_OK" /\ call'.step = "returned"
        BY <2>2, <2>3, BusTypes DEF SeeStop, Calls
      <4>2. moved' = 1 + Len(call.tx) + (IF call.rx > 0 THEN 1 + call.rx ELSE 0)
        BY <1>1, <3>1, <4>1 DEF Moved
      <4>3. ~(call.rx > 0) /\ Len(call.tx) = 2
        BY <2>1
      <4> QED
        BY <4>1, <4>2, <4>3
    <3> QED
      BY <1>1, <3>2
  <2> QED
    BY <2>3, <2>4, <2>5 DEF Clean, Stored
<1> QED
  BY <1>2, <1>3, <1>4 DEF Clean

LEMMA ShipByteClean ==
  ASSUME BusTypeOK, Going, Clean, ShipByte PROVE Clean'
<1> DEFINE a == cr2.to
           n == Len(txdr)
<1>1. /\ wire = "shipping" /\ txdr' = Tail(txdr) /\ moved' = moved + 1
      /\ UNCHANGED <<parts, call, isr>> /\ cr2'.to = a /\ cr2'.named
  BY BusTypes DEF ShipByte, driver, Transfers
<1>2. /\ n \in Nat /\ n > 0 /\ Len(txdr') = n - 1 /\ Head(txdr) = txdr[1]
      /\ txdr' \in Seq(Bytes) /\ a \in DOMAIN parts
  BY <1>1, BusTypes, GivenTypes DEF BusTypeOK, WiresTypeOK
<1>3. /\ n <= 2 /\ (cr2.named => n = 1 /\ MayWrite(a, chip[a].pointer))
      /\ ~cr2.named /\ n = 2 => MayWrite(a, txdr[1])
  BY <1>1 DEF Clean, Given, Moving, BusTypeOK, WiresTypeOK
<1>4. \A b \in DOMAIN parts : chip[b].written \subseteq chip'[b].written
  BY Shipped
<1>5. cr2.named => /\ a = AltLow /\ parts[a] = "adxl345"
                   /\ chip'[a].written = chip[a].written \cup {chip[a].pointer}
  BY <1>3, Shipped DEF MayWrite, Writable
<1>6. Asking'
  BY <1>1, <1>4, MayWriteStands DEF Clean, Asking
<1>7. SetUpInOrder'
  <2> SUFFICES ASSUME NEW b \in DOMAIN parts
               PROVE  /\ parts[b] # "adxl345" => chip'[b].written = {}
                      /\ "POWER_CTL" \in chip'[b].written => SetUpBut(b)'
    BY <1>1 DEF SetUpInOrder
  <2>1. /\ parts[b] # "adxl345" => chip[b].written = {}
        /\ "POWER_CTL" \in chip[b].written => SetUpBut(b)
    BY DEF Clean, SetUpInOrder
  <2>2. CASE chip'[b].written = chip[b].written
    BY <2>1, <2>2 DEF SetUpBut
  <2>3. CASE chip'[b].written # chip[b].written
    <3>1. b = a /\ cr2.named
      BY <2>3, Shipped
    <3>2. "POWER_CTL" \in chip'[b].written => SetUpBut(b)
      BY <1>3, <1>5, <2>1, <3>1 DEF MayWrite
    <3> QED
      BY <1>4, <1>5, <3>1, <3>2 DEF SetUpBut
  <2> QED
    BY <2>2, <2>3
<1>8. Given'
  <2>1. n - 1 <= 2
    BY <1>2, <1>3
  <2>2. ASSUME txdr' # <<>>
        PROVE  Len(txdr') = 1 /\ MayWrite(cr2.to, chip[cr2.to].pointer)'
    <3>1. Len(txdr') # 0
      BY <1>2, <2>2, EmptySeq
    <3>2. n = 2
      <4> HIDE DEF n
      <4> QED
        BY <1>2, <1>3, <3>1
    <3>3. ~cr2.named /\ MayWrite(a, txdr[1])
      BY <1>3, <3>2
    <3>4. chip'[a].pointer = txdr[1]
      BY <1>2, <3>3, Shipped
    <3> QED
      <4>1. Len(txdr') = 1
        BY <1>2, <3>2
      <4>2. MayWrite(a, txdr[1]) => MayWrite(cr2.to, chip[cr2.to].pointer)'
        BY <1>1, <1>4, <3>4 DEF MayWrite, SetUpBut
      <4> QED
        BY <3>3, <4>1, <4>2
  <2> QED
    BY <1>1, <1>2, <2>1, <2>2 DEF Given
<1>9. Stored'
  <2>1. ~(call.step = "returned" /\ call.status = "I2C_OK")
    BY <1>1 DEF Going, Done, Moved, AtRest
  <2>2. ASSUME call.step \in {"send", "stop"}, NoError, Len(call.tx) = 2, moved + 1 >= 3
        PROVE  call.tx[1] \in chip'[call.to].written
    <3>1. call.rx = 0
      BY <2>2, BusTypes DEF BusTypeOK, CallShape
    <3>2. Sending /\ Arrived
      BY <2>2, <3>1, HalfWay DEF WriteHalf
    <3>3. a = call.to /\ moved >= 2 /\ cr2.named
      <4>1. moved = 1 + call.sent - n /\ (cr2.named <=> call.sent > n) /\ a = call.to
        BY <1>1, <3>2 DEF Sending
      <4>2. n \in Nat /\ call.sent \in Nat /\ moved \in Nat
        BY BusTypes
      <4>3. moved >= 2 /\ call.sent > n
        <5> HIDE DEF n
        <5> QED
          BY <2>2, <4>1, <4>2
      <4> QED
        BY <4>1, <4>3
    <3>4. chip[a].pointer = call.tx[1]
      BY <3>2, <3>3 DEF Arrived
    <3> QED
      BY <1>5, <3>3, <3>4
  <2> QED
    BY <1>1, <2>1, <2>2 DEF Stored, NoError
<1> QED
  BY <1>6, <1>7, <1>8, <1>9 DEF Clean

LEMMA PeripheralClean ==
  ASSUME BusTypeOK, Going, Clean, Peripheral \/ BusError, ~ShipByte PROVE Clean'
<1>1. UNCHANGED <<parts, call, chip>> /\ ~StartQueued
  BY DEF Peripheral, StartQueued, Address, AskByte, Shift, RefuseByte,
         ReceiveByte, Finish, StopAsked, Stop, BusError, driver, Going
<1>2. Asking' /\ SetUpInOrder'
  BY <1>1 DEF Clean, Asking, SetUpInOrder, MayWrite, SetUpBut
<1>3. Given'
  <2>1. Moving' => /\ Moving /\ txdr' = txdr
                   /\ cr2'.to = cr2.to /\ cr2'.named = cr2.named
    BY <1>1, BusTypes
    DEF Peripheral, Address, AskByte, Shift, RefuseByte, ReceiveByte, Finish, StopAsked,
        Stop, BusError, Over, Moving, Transfers
  <2> QED
    BY <1>1, <2>1 DEF Clean, Given, MayWrite, SetUpBut
<1>4. Stored'
  <2>1. NoError' => NoError
    BY <1>1
    DEF NoError, Peripheral, Address, AskByte, Shift, RefuseByte, ReceiveByte, Finish,
        StopAsked, Stop, BusError, Over, Raise
  <2>2. CASE moved' = moved
    BY <1>1, <2>1, <2>2 DEF Clean, Stored
  <2>3. CASE moved' # moved
    <3>1. /\ wire = "address" \/ (cr2.read /\ wire = "data")
          /\ moved' = moved + 1
      <4>1. Address \/ ReceiveByte
        BY <1>1, <2>3
        DEF Peripheral, AskByte, Shift, RefuseByte, Finish, StopAsked, Stop, BusError,
            history
      <4>2. CASE Address
        <5>1. wire = "address" /\ moved' \in {moved, moved + 1}
          BY <4>2 DEF Address
        <5> QED
          BY <2>3, <5>1
      <4>3. CASE ReceiveByte
        BY <4>3 DEF ReceiveByte
      <4> QED
        BY <4>1, <4>2, <4>3
    <3>2. ~(call.step = "returned" /\ call.status = "I2C_OK")
      BY <3>1 DEF Going, Done, Moved, AtRest
    <3>3. ASSUME call.step \in {"send", "stop"}, NoError', Len(call.tx) = 2, moved' >= 3
          PROVE  FALSE
      <4>1. call.rx = 0
        BY <3>3, BusTypes DEF BusTypeOK, CallShape
      <4>2. Sending
        BY <2>1, <3>3, <4>1, HalfWay DEF WriteHalf
      <4>3. moved = 0
        BY <3>1, <4>2 DEF Sending
      <4> QED
        BY <3>1, <3>3, <4>3
    <3> QED
      BY <1>1, <3>2, <3>3 DEF Stored
  <2> QED
    BY <2>2, <2>3
<1> QED
  BY <1>2, <1>3, <1>4 DEF Clean

LEMMA BusTypesKeep ==
  ASSUME BusTypeOK, Driver \/ Peripheral \/ BusError PROVE BusTypeOK'
BY SendByteTypes, TurnTypes, TakeByteTypes, EndingTypes, PeripheralTypes DEF Driver

\* Time, and who holds the lines, are not part of it; nor are the program's pins.
LEMMA BusUndisturbed ==
  ASSUME BusInv, UNCHANGED <<parts, call, peripheral, chip, history>>
  PROVE  BusInv'
<1>1. UNCHANGED <<parts, call, isr, cr2, queued, wire, txdr, rxdr, chip, moved, unrest>>
  BY DEF peripheral, history
<1>2. BusTypeOK'
  BY <1>1
  DEF BusInv, BusTypeOK, CallTypeOK, WiresTypeOK, CallShape, Position, Readings, Calls
<1>3. Going = Going'
  <2>1. /\ WriteHalf' = WriteHalf /\ ReadHalf' = ReadHalf /\ NoError' = NoError
        /\ Shifting' = Shifting /\ LastSent' = LastSent /\ AllSent' = AllSent
    BY <1>1 DEF WriteHalf, ReadHalf, NoError, Shifting, LastSent, AllSent
  <2>2. \A left : Received(left)' = Received(left)
    BY <1>1 DEF Received
  <2>3. Sending' = Sending /\ Taking' = Taking /\ Arrived' = Arrived
    BY <1>1, <2>1, <2>2 DEF Sending, Taking, Received, Arrived
  <2>4. Done' = Done
    BY <1>1 DEF Done, Moved, AtRest
  <2> QED
    BY <1>1, <2>1, <2>3, <2>4 DEF Going
<1>4. Clean' = Clean
  <2>1. \A address, register : MayWrite(address, register)' = MayWrite(address, register)
    BY <1>1 DEF MayWrite, SetUpBut
  <2> QED
    BY <1>1, <2>1
    DEF Clean, Asking, Given, Moving, Stored, NoError, SetUpInOrder, SetUpBut, MayWrite
<1> QED
  BY <1>1, <1>2, <1>3, <1>4 DEF BusInv

LEMMA BusStepKeeps ==
  ASSUME BusInv, BusStep PROVE BusInv'
<1>1. CASE Driver \/ Peripheral \/ BusError
  <2>1. unrest' = unrest
    BY <1>1, DriverMoves, PeripheralTypes DEF BusInv, history
  <2>2. BusTypeOK'
    BY <1>1, BusTypesKeep DEF BusInv
  <2>3. unrest # "now" => Going'
    BY <1>1, GoingKeeps DEF BusInv
  <2>4. unrest = "none" => Clean'
    BY <1>1, SendByteClean, DriverClean, ShipByteClean, PeripheralClean
    DEF BusInv, Driver, Peripheral
  <2> QED
    BY <2>1, <2>2, <2>3, <2>4 DEF BusInv
<1>2. CASE Jam \/ Elapse
  BY <1>2, BusUndisturbed DEF Jam, Elapse, driver
<1> QED
  BY <1>1, <1>2 DEF BusStep
-----------------------------------------------------------------------------
(***************************************************************************)
(* The program.  What it asks for, and how far it is with the sensor when   *)
(* every call so far began on a bus at rest.                               *)
(***************************************************************************)
PinStages == {"board_init", "i2c1_init", "wires", "sweep", "i2c1_init_again"}
BusStages == {"scan", "devid", "begin", "probe", "samples", "sample", "level", "over"}
Beginning == stage \in {"begin", "probe"}

StageTypeOK ==
  /\ stage \in PinStages \cup BusStages /\ item \in Nat \ {0} /\ brought_up \in BOOLEAN
  /\ Beginning => item <= Len(BeginOrder)

\* The call under way is the one of this stage and this item.
Asked ==
  call.step # "none" =>
    /\ stage \notin PinStages
    /\ stage = "scan" => call.to = item
    /\ Beginning => call.to = AltLow
    /\ Beginning /\ item = 1 => call.tx = <<"DEVID">>
    /\ Beginning /\ item > 1 => call.tx = <<BeginOrder[item], "value">>

\* adxl345_begin() has seen the right device, and what it did is done.
BegunSoFar ==
  /\ Beginning /\ item > 1 =>
       /\ AltLow \in DOMAIN parts /\ parts[AltLow] = "adxl345"
       /\ \A k \in 2 .. item - 1 : BeginOrder[k] \in chip[AltLow].written
  /\ brought_up => AltLow \in DOMAIN parts /\ "POWER_CTL" \in chip[AltLow].written

ProgramInv == StageTypeOK /\ Asked /\ (unrest = "none" => BegunSoFar)

(***************************************************************************)
(* The pins, stage by stage.                                               *)
(***************************************************************************)
Fresh == [mode |-> "analog", pull |-> "none", af |-> "AF0"]
PinStates == [mode : {"analog", "alternate", "input", "output"},
              pull : {"none", "up", "down"}, af : {"AF0", "AF4", "AF7"}]

Words == {"analog", "alternate", "input", "output", "none", "up", "down"}

AtBoard ==
  stage = "board_init" =>
    /\ item <= 3
    /\ \A pin \in Pins :
         pins[pin] = IF pin \notin UartPins \/ item = 1 THEN Fresh
                     ELSE IF item = 2 THEN [Fresh EXCEPT !.af = "AF7"] ELSE AsSetUp(pin)

AtI2c ==
  stage = "i2c1_init" =>
    /\ \A pin \in Pins \ Range(I2cPins) : pins[pin] = AsSetUp(pin)
    /\ \A k \in 1 .. Len(I2cPins) :
         pins[I2cPins[k]] =
           IF 2 * k < item THEN AsSetUp(I2cPins[k])
           ELSE IF 2 * k = item THEN [Fresh EXCEPT !.af = "AF4", !.pull = "up"] ELSE Fresh

\* A pin is being read: it is a plain input, and how it was is kept.
Borrowed == look.was # <<>>
PinsAtRest ==
  stage \notin {"board_init", "i2c1_init"} =>
    \A pin \in Pins : ~ (Borrowed /\ pin = Probed) => pins[pin] = AsSetUp(pin)

\* What is known of the reading under way.
LookTypeOK ==
  look \in [pull : {"none", "down"}, was : Seq(Words), levels : Seq({0, 1})]

Probing ==
  /\ stage \in {"i2c1_init", "i2c1_init_again"} => item <= 2 * Len(I2cPins)
  /\ stage \in {"wires", "sweep"} => item <= Len(Order) + 1
  /\ look # NoLook => /\ stage \in {"wires", "sweep"} /\ item <= Len(Order)
                      /\ Probed \notin Keep
  /\ Borrowed =>
       /\ pins[Probed] = [AsSetUp(Probed) EXCEPT !.mode = "input", !.pull = look.pull]
       /\ look.was = <<AsSetUp(Probed).mode, AsSetUp(Probed).pull>>
       /\ Len(look.levels) < 2 /\ (look.levels # <<>> => look.pull = "down")
  /\ Len(look.levels) <= 2
  /\ Len(look.levels) = 2 => (look.levels[2] = 1 <=> Probed \in HeldPins)

PinsInv ==
  /\ pins \in [Pins -> PinStates] /\ LookTypeOK
  /\ AtBoard /\ AtI2c /\ PinsAtRest /\ Probing

(***************************************************************************)
(* The report, line by line.                                               *)
(***************************************************************************)
HeldSoFar(n) ==
  {<<"held", SweepOrder[k]>> :
     k \in {j \in 1 .. n : SweepOrder[j] \in HeldPins \ Keep}}

Lines ==
  /\ stage = "sweep" => said = HeldSoFar(item - 1)
  /\ stage = "i2c1_init_again" => said = HeldSoFar(Len(SweepOrder)) \cup {<<"held_end">>}
  /\ stage # "i2c1_init_again" => \A line \in said : line[1] # "held_end"
  /\ unrest = "none" => \A line \in said : line[1] = "scan" => line[2] \in DOMAIN parts

Inv == BusInv /\ ProgramInv /\ PinsInv /\ Lines

(***************************************************************************)
(* What the program does with the bus, and the bus with the program.       *)
(***************************************************************************)
\* A call that begins on a bus at rest finds no flag of another's, and no byte.
LEMMA CallKeeps ==
  ASSUME BusInv, NEW to \in Nat, NEW tx \in Seq(Bytes), NEW rx \in Nat,
         Call(to, tx, rx), Len(tx) <= 2, rx > 0 <=> Len(tx) = 1,
         Len(tx) = 1 => tx[1] \in Registers,
         Len(tx) = 2 => tx[1] \in Settings /\ tx[2] = "value",
         unrest = "none" /\ Len(tx) = 2 => MayWrite(to, tx[1])
  PROVE  /\ BusInv' /\ UNCHANGED <<parts, chip>>
         /\ call'.step # "none" /\ call'.to = to /\ call'.tx = tx
         /\ unrest' = "none" => unrest = "none"
<1> DEFINE first == After(tx, rx, 0)
<1>1. /\ call' = [Idle EXCEPT !.to = to, !.tx = tx, !.rx = rx, !.step = first]
      /\ BeginTransfer(to, Len(tx), FALSE, rx = 0)
      /\ moved' = 0 /\ UNCHANGED <<parts, txdr, rxdr, chip>>
      /\ unrest' = IF ~AtRest THEN "now" ELSE IF unrest = "none" THEN "none" ELSE "before"
  BY DEF Call
<1>2. Len(tx) \in Nat
  BY LenProperties
<1>3. first = IF Len(tx) > 0 THEN "send" ELSE "stop"
  BY <1>2 DEF After
<1>4. /\ call'.to = to /\ call'.tx = tx /\ call'.rx = rx /\ call'.sent = 0
      /\ call'.got = <<>> /\ call'.status = "I2C_OK" /\ call'.step = first
  BY <1>1 DEF Idle
<1>5. Readings' = Readings /\ (unrest' = "none" => unrest = "none")
  BY <1>1 DEF Readings
<1>6. CallTypeOK'
  <2>1. first \in Steps /\ "I2C_OK" \in Statuses /\ <<>> \in Seq(Readings)
    BY <1>3 DEF Steps, Statuses
  <2>2. call' = [to |-> to, tx |-> tx, rx |-> rx, sent |-> 0, got |-> <<>>,
                 step |-> first, status |-> "I2C_OK"]
    BY <1>1 DEF Idle
  <2> HIDE DEF first
  <2>3. call' \in Calls
    BY <2>1, <2>2 DEF Calls
  <2> QED
    BY <1>1, <1>5, <2>3 DEF CallTypeOK, Calls
<1>7. WiresTypeOK'
  BY <1>1, <1>2, BeginTransferTypes DEF BusInv
<1> HIDE DEF first
<1>8. CallShape' /\ Position'
  BY <1>2, <1>3, <1>4 DEF CallShape, Position
<1>9. BusTypeOK'
  BY <1>6, <1>7, <1>8 DEF BusTypeOK
<1>10. ASSUME AtRest
       PROVE  /\ wire' = "address" /\ queued' = <<>> /\ txdr' = <<>>
              /\ cr2' = Transfer(to, Len(tx), FALSE, rx = 0)
              /\ isr' \cap {"TXIS", "RXNE", "TC", "STOPF"} = {}
  BY <1>1, <1>10 DEF BeginTransfer, AtRest, Free, Start
<1>11. ASSUME AtRest PROVE Going'
  <2>1. ~ReadHalf' /\ call'.step # "returned"
    BY <1>2, <1>3, <1>4 DEF ReadHalf
  <2>2. Sending'
    <3>1. /\ cr2'.to = to /\ cr2'.left = Len(tx) /\ cr2'.read = FALSE
          /\ cr2'.auto_end = (rx = 0) /\ cr2'.stop = FALSE /\ cr2'.named = FALSE
      BY <1>10, <1>11 DEF Transfer
    <3>2. /\ "TXIS" \notin isr' /\ "RXNE" \notin isr' /\ "TC" \notin isr' /\ "STOPF" \notin isr'
          /\ wire' = "address" /\ txdr' = <<>>
      BY <1>10, <1>11
    <3> QED
      BY <1>1, <1>4, <3>1, <3>2 DEF Sending
  <2>3. Arrived'
    BY <1>1, <1>4, <2>1 DEF Arrived
  <2>4. Done'
    BY <2>1 DEF Done, Moved
  <2> QED
    BY <1>10, <1>11, <2>1, <2>2, <2>3, <2>4 DEF Going
<1>12. ASSUME AtRest, unrest = "none" PROVE Clean'
  <2>1. Asking'
    BY <1>1, <1>4, <1>12 DEF Asking, MayWrite, SetUpBut
  <2>2. Given'
    <3>1. txdr' = <<>> /\ Len(txdr') = 0
      BY <1>10, <1>12
    <3> QED
      BY <3>1 DEF Given
  <2>3. Stored'
    BY <1>1, <1>3, <1>4 DEF Stored
  <2>4. SetUpInOrder'
    BY <1>1, <1>12 DEF BusInv, Clean, SetUpInOrder, SetUpBut
  <2> QED
    BY <2>1, <2>2, <2>3, <2>4 DEF Clean
<1>13. BusInv'
  BY <1>1, <1>9, <1>11, <1>12 DEF BusInv
<1> QED
  BY <1>1, <1>3, <1>4, <1>5, <1>13

\* The program has its answer: the call is over.
LEMMA AnsweredKeeps ==
  ASSUME BusInv, Answered PROVE BusInv' /\ UNCHANGED <<parts, chip, unrest, pins, look>>
<1>1. /\ call.step = "returned" /\ call' = Idle
      /\ UNCHANGED <<parts, isr, cr2, queued, wire, txdr, rxdr, chip, moved, unrest>>
  BY DEF Answered, peripheral, history
<1>2. call'.step = "none" /\ Readings' = Readings
  BY <1>1 DEF Idle, Readings
<1>3. CallTypeOK' /\ WiresTypeOK'
  <2>1. <<>> \in Seq(Readings) /\ <<>> \in Seq(Bytes)
    OBVIOUS
  <2>2. Idle \in Calls
    BY <2>1 DEF Idle, Calls, Steps, Statuses
  <2> QED
    BY <1>1, <1>2, <2>2 DEF BusInv, BusTypeOK, CallTypeOK, WiresTypeOK, Calls
<1>4. BusTypeOK'
  BY <1>1, <1>2, <1>3 DEF BusTypeOK, CallShape, Position
<1>5. unrest # "now" => Going'
  <2>1. Done' /\ ~WriteHalf' /\ ~ReadHalf'
    BY <1>2 DEF Done, Moved, WriteHalf, ReadHalf
  <2> QED
    BY <1>1, <2>1, NothingSaid DEF BusInv, Going
<1>6. unrest = "none" => Clean'
  <2>1. Asking' /\ Stored'
    BY <1>2 DEF Asking, Stored
  <2> QED
    BY <1>1, <2>1
    DEF BusInv, Clean, Given, Moving, MayWrite, SetUpInOrder, SetUpBut
<1> QED
  BY <1>1, <1>4, <1>5, <1>6 DEF BusInv, Answered

\* A step of the bus neither begins nor ends a call, and forgets nothing written.
LEMMA BusStepFrame ==
  ASSUME BusTypeOK, BusStep
  PROVE  /\ parts' = parts /\ (call'.step = "none" <=> call.step = "none")
         /\ call'.to = call.to /\ call'.tx = call.tx /\ unrest' = unrest
         /\ \A address \in DOMAIN parts : chip[address].written \subseteq chip'[address].written
<1>1. CASE Driver
  BY <1>1, DriverMoves DEF history
<1>2. CASE Peripheral \/ BusError
  <2>1. UNCHANGED <<parts, call, unrest>>
    BY <1>2, PeripheralTypes
  <2>2. CASE ShipByte
    BY <2>1, <2>2, Shipped
  <2>3. CASE ~ShipByte
    <3>1. chip' = chip
      BY <1>2, <2>3
      DEF Peripheral, StartQueued, Address, AskByte, Shift, RefuseByte, ReceiveByte, Finish,
          StopAsked, Stop, BusError
    <3> QED
      BY <2>1, <3>1
  <2> QED
    BY <2>2, <2>3
<1>3. CASE Jam \/ Elapse
  BY <1>3 DEF Jam, Elapse, driver, history
<1> QED
  BY <1>1, <1>2, <1>3 DEF BusStep

(***************************************************************************)
(* The program on the bus.                                                 *)
(***************************************************************************)
LEMMA Orders ==
  /\ Len(BeginOrder) = 5 /\ BeginOrder[1] = "DEVID" /\ BeginOrder[2] = "BW_RATE"
  /\ BeginOrder[3] = "DATA_FORMAT" /\ BeginOrder[4] = "FIFO_CTL"
  /\ BeginOrder[5] = "POWER_CTL"
BY DEF BeginOrder

LEMMA Addresses == AltLow \in Nat /\ AltHigh \in Nat
BY BringUpAssumption

LEMMA Sizes == SampleBytes \in Nat /\ SampleBytes > 0
BY BringUpAssumption

\* A call is the one of its stage, and asks for nothing it may not.
LEMMA CallAsked ==
  ASSUME BusInv, ProgramInv, UNCHANGED program,
         NEW to \in Nat, NEW tx \in Seq(Bytes), NEW rx \in Nat,
         Call(to, tx, rx), Len(tx) <= 2, rx > 0 <=> Len(tx) = 1,
         Len(tx) = 1 => tx[1] \in Registers,
         Len(tx) = 2 => tx[1] \in Settings /\ tx[2] = "value",
         unrest = "none" /\ Len(tx) = 2 => MayWrite(to, tx[1]),
         stage \notin PinStages, stage = "scan" => to = item,
         Beginning => to = AltLow, Beginning /\ item = 1 => tx = <<"DEVID">>,
         Beginning /\ item > 1 => tx = <<BeginOrder[item], "value">>
  PROVE  /\ BusInv' /\ ProgramInv' /\ UNCHANGED parts
         /\ unrest' = "none" => unrest = "none"
<1>1. /\ BusInv' /\ UNCHANGED <<parts, chip>>
      /\ call'.step # "none" /\ call'.to = to /\ call'.tx = tx
      /\ unrest' = "none" => unrest = "none"
  BY CallKeeps
<1>2. UNCHANGED <<stage, item, brought_up>>
  BY DEF program
<1>3. Asked'
  BY <1>1, <1>2 DEF Asked, Beginning
<1>4. StageTypeOK' /\ (unrest' = "none" => BegunSoFar')
  BY <1>1, <1>2 DEF ProgramInv, StageTypeOK, BegunSoFar, Beginning
<1> QED
  BY <1>1, <1>3, <1>4 DEF ProgramInv

\* One register is read.
LEMMA ReadAsked ==
  ASSUME BusInv, ProgramInv, UNCHANGED program, NEW address \in Nat,
         NEW register \in Registers, NEW count \in Nat \ {0},
         Call(address, <<register>>, count),
         stage \notin PinStages \cup {"scan"},
         Beginning => address = AltLow /\ item = 1 /\ register = "DEVID"
  PROVE  /\ BusInv' /\ ProgramInv' /\ UNCHANGED parts
         /\ unrest' = "none" => unrest = "none"
<1>1. /\ <<register>> \in Seq(Bytes) /\ Len(<<register>>) = 1
      /\ <<register>>[1] = register /\ count \in Nat /\ count > 0
  BY DEF Bytes
<1>2. /\ Len(<<register>>) <= 2 /\ Len(<<register>>) # 2 
      /\ (count > 0 <=> Len(<<register>>) = 1)
  BY <1>1
<1>3. ~ (Beginning /\ item > 1) /\ (Beginning /\ item = 1 => <<register>> = <<"DEVID">>)
  OBVIOUS
<1> QED
  BY <1>1, <1>2, <1>3, CallAsked

\* One setting is written.
LEMMA WriteAsked ==
  ASSUME BusInv, ProgramInv, UNCHANGED program, NEW register \in Settings,
         Call(AltLow, <<register, "value">>, 0),
         unrest = "none" => MayWrite(AltLow, register),
         stage \notin PinStages \cup {"scan"}, item > 1, register = BeginOrder[item]
  PROVE  /\ BusInv' /\ ProgramInv' /\ UNCHANGED parts
         /\ unrest' = "none" => unrest = "none"
<1> DEFINE tx == <<register, "value">>
<1>1. /\ tx \in Seq(Bytes) /\ Len(tx) = 2
      /\ tx[1] = register /\ tx[2] = "value"
  BY DEF Settings, Bytes, Registers
<1>2. /\ Call(AltLow, tx, 0) /\ AltLow \in Nat /\ 0 \in Nat
      /\ tx = <<BeginOrder[item], "value">>
  BY Addresses
<1> HIDE DEF tx
<1>3. Len(tx) <= 2 /\ Len(tx) # 1 /\ ~ (0 > 0) /\ item # 1
  BY <1>1 DEF ProgramInv, StageTypeOK
<1> QED
  BY <1>1, <1>2, <1>3, CallAsked

\* A setting is asked for only of a part that was seen to be the right one, and
\* measuring only when everything before it is in place.
LEMMA AskKeeps ==
  ASSUME BusInv, ProgramInv, Ask
  PROVE  /\ BusInv' /\ ProgramInv' /\ UNCHANGED parts
         /\ unrest' = "none" => unrest = "none"
<1>1. UNCHANGED program
  BY DEF Ask
<1>2. CASE stage = "scan" /\ Call(item, <<>>, 0)
  <2>1. /\ item \in Nat /\ <<>> \in Seq(Bytes) /\ Len(<<>>) = 0
        /\ stage \notin PinStages /\ ~ Beginning
    BY <1>2 DEF ProgramInv, StageTypeOK, PinStages, Beginning
  <2>2. Len(<<>>) <= 2 /\ Len(<<>>) # 1 /\ Len(<<>>) # 2 /\ ~ (0 > 0)
    BY <2>1
  <2> QED
    BY <1>1, <1>2, <2>1, <2>2, CallAsked
<1>3. CASE stage = "devid" /\ Call(IF item = 1 THEN AltLow ELSE AltHigh, <<"DEVID">>, 1)
  <2> DEFINE address == IF item = 1 THEN AltLow ELSE AltHigh
  <2>1. address \in Nat /\ Call(address, <<"DEVID">>, 1)
    BY <1>3, Addresses
  <2> HIDE DEF address
  <2> QED
    BY <1>1, <1>3, <2>1, ReadAsked DEF Registers, PinStages, Beginning
<1>4. CASE Beginning /\ item = 1 /\ Reads("DEVID", 1)
  <2>1. Call(AltLow, <<"DEVID">>, 1) /\ stage \notin PinStages \cup {"scan"}
    BY <1>4 DEF Reads, PinStages, Beginning
  <2>2. "DEVID" \in Registers /\ 1 \in Nat \ {0} /\ AltLow \in Nat
    BY Addresses DEF Registers
  <2>3. Beginning => AltLow = AltLow /\ item = 1 /\ "DEVID" = "DEVID"
    BY <1>4
  <2> QED
    BY <1>1, <2>1, <2>2, <2>3, ReadAsked
<1>5. CASE Beginning /\ item # 1 /\ Call(AltLow, <<BeginOrder[item], "value">>, 0)
  <2>1. item \in 2 .. 5
    BY <1>5, Orders DEF ProgramInv, StageTypeOK
  <2>2. unrest = "none" =>
          /\ AltLow \in DOMAIN parts /\ parts[AltLow] = "adxl345"
          /\ \A k \in 2 .. item - 1 : BeginOrder[k] \in chip[AltLow].written
    BY <1>5, <2>1 DEF ProgramInv, BegunSoFar
  <2>3. BeginOrder[item] \in Settings
    BY <2>1, Orders DEF Settings
  <2>4. unrest = "none" /\ BeginOrder[item] = "POWER_CTL" => SetUpBut(AltLow)
    BY <2>1, <2>2, Orders DEF SetUpBut
  <2>5. unrest = "none" => MayWrite(AltLow, BeginOrder[item])
    BY <2>2, <2>3, <2>4 DEF MayWrite
  <2>6. stage \notin PinStages \cup {"scan"}
    BY <1>5 DEF PinStages, Beginning
  <2>7. PICK register \in Settings : register = BeginOrder[item]
    BY <2>3
  <2>8. /\ Call(AltLow, <<register, "value">>, 0)
        /\ unrest = "none" => MayWrite(AltLow, register)
    BY <1>5, <2>5, <2>7
  <2>9. item > 1
    BY <2>1
  <2> QED
    BY <1>1, <2>6, <2>7, <2>8, <2>9, WriteAsked
<1>6. CASE stage \in {"samples", "sample"} /\ Reads("DATAX0", SampleBytes)
  <2>1. Call(AltLow, <<"DATAX0">>, SampleBytes) /\ stage \notin PinStages \cup {"scan"}
    BY <1>6 DEF Reads, PinStages
  <2>2. "DATAX0" \in Registers /\ SampleBytes \in Nat \ {0} /\ AltLow \in Nat
    BY Addresses, Sizes DEF Registers
  <2>3. ~ Beginning
    BY <1>6 DEF Beginning
  <2> QED
    BY <1>1, <2>1, <2>2, <2>3, ReadAsked
<1>7. CASE stage = "level" /\ Reads("FIFO_STATUS", 1)
  BY <1>1, <1>7, Addresses, ReadAsked DEF Reads, Registers, PinStages, Beginning
<1>8. \/ stage = "scan" /\ Call(item, <<>>, 0)
      \/ stage = "devid" /\ Call(IF item = 1 THEN AltLow ELSE AltHigh, <<"DEVID">>, 1)
      \/ Beginning /\ item = 1 /\ Reads("DEVID", 1)
      \/ Beginning /\ item # 1 /\ Call(AltLow, <<BeginOrder[item], "value">>, 0)
      \/ stage \in {"samples", "sample"} /\ Reads("DATAX0", SampleBytes)
      \/ stage = "level" /\ Reads("FIFO_STATUS", 1)
  BY DEF Ask, Beginning
<1> QED
  BY <1>2, <1>3, <1>4, <1>5, <1>6, <1>7, <1>8

\* adxl345_begin() goes on only after an answer that moved every byte.
LEMMA BegunKeeps ==
  ASSUME BusInv, ProgramInv, Begun PROVE ProgramInv' /\ stage' \in BusStages
<1>1. /\ UNCHANGED <<parts, chip, unrest>> /\ call.step = "returned" /\ call'.step = "none"
      /\ Beginning
  BY AnsweredKeeps DEF Begun, Answered, Idle, Beginning
<1>2. item \in 1 .. 5 /\ Len(BeginOrder) = 5
  BY <1>1, Orders DEF ProgramInv, StageTypeOK
<1>3. Asked' /\ call.to = AltLow
  BY <1>1 DEF Asked, ProgramInv
<1>4. CASE ~ Ok \/ (Ok /\ item = 1 /\ ~ IsAdxl)
  <2>1. stage' = "over" /\ item' = 1 /\ brought_up' = brought_up
    <3>1. ~ (Ok /\ (item = 1 => IsAdxl)) /\ (Ok => item # Len(BeginOrder))
      BY <1>2, <1>4
    <3>2. stage' = "over" /\ item' = 1
      BY <3>1 DEF Begun, Go
    <3>3. brought_up' = brought_up
      BY <3>1 DEF Begun
    <3> QED
      BY <3>2, <3>3
  <2>2. StageTypeOK'
    BY <2>1 DEF ProgramInv, StageTypeOK, Beginning, BusStages
  <2>3. unrest = "none" => BegunSoFar'
    BY <1>1, <2>1 DEF ProgramInv, BegunSoFar, Beginning
  <2> QED
    BY <1>1, <1>3, <2>1, <2>2, <2>3 DEF ProgramInv, BusStages
<1>5. CASE Ok /\ item = 1 /\ IsAdxl
  <2>1. stage' = stage /\ item' = 2 /\ brought_up' = brought_up
    BY <1>5, <1>2 DEF Begun, Stay
  <2>2. ASSUME unrest = "none" PROVE AltLow \in DOMAIN parts /\ parts[AltLow] = "adxl345"
    <3>1. call.tx = <<"DEVID">> /\ 1 \in DOMAIN call.got /\ call.got[1] = "adxl345"
      BY <1>1, <1>5 DEF ProgramInv, Asked, IsAdxl
    <3>2. Moved
      BY <2>2 DEF BusInv, Going, Done
    <3>3. AltLow \in DOMAIN parts /\ call.got[1] = Holds(parts[AltLow], call.tx[1])
      BY <1>1, <1>3, <1>5, <3>1, <3>2 DEF Moved, Ok
    <3> QED
      BY <3>1, <3>3 DEF Holds
  <2>3. StageTypeOK'
    BY <1>1, <1>2, <2>1 DEF ProgramInv, StageTypeOK, Beginning
  <2>4. unrest = "none" => BegunSoFar'
    BY <1>1, <2>1, <2>2 DEF ProgramInv, BegunSoFar, Beginning
  <2> QED
    BY <1>1, <1>3, <2>1, <2>3, <2>4 DEF ProgramInv, Beginning, BusStages
<1>6. CASE Ok /\ item > 1
  <2>1. ASSUME unrest = "none"
        PROVE  /\ AltLow \in DOMAIN parts /\ parts[AltLow] = "adxl345"
               /\ \A k \in 2 .. item - 1 : BeginOrder[k] \in chip[AltLow].written
               /\ BeginOrder[item] \in chip[AltLow].written
    <3>1. /\ AltLow \in DOMAIN parts /\ parts[AltLow] = "adxl345"
          /\ \A k \in 2 .. item - 1 : BeginOrder[k] \in chip[AltLow].written
      BY <1>1, <1>6, <2>1 DEF ProgramInv, BegunSoFar
    <3>2. call.tx = <<BeginOrder[item], "value">>
      BY <1>1, <1>6 DEF ProgramInv, Asked
    <3>3. Len(call.tx) = 2 /\ call.tx[1] = BeginOrder[item]
      BY <3>2
    <3> QED
      BY <1>1, <1>3, <1>6, <2>1, <3>1, <3>3 DEF BusInv, Clean, Stored, Ok
  <2>2. CASE item < 5
    <3>1. stage' = stage /\ item' = item + 1 /\ brought_up' = brought_up
      <4>1. Ok /\ item # Len(BeginOrder) /\ item # 1
        BY <1>2, <1>6, <2>2
      <4>2. stage' = stage /\ item' = item + 1
        BY <4>1 DEF Begun, Stay
      <4>3. brought_up' = brought_up
        BY <4>1 DEF Begun
      <4> QED
        BY <4>2, <4>3
    <3>2. unrest = "none" => BegunSoFar'
      <4> SUFFICES ASSUME unrest = "none" PROVE BegunSoFar'
        OBVIOUS
      <4>1. \A k \in 2 .. item' - 1 : BeginOrder[k] \in chip'[AltLow].written
        BY <1>1, <1>2, <2>1, <3>1
      <4> QED
        BY <1>1, <1>2, <2>1, <3>1, <4>1 DEF ProgramInv, BegunSoFar, Beginning
    <3>3. StageTypeOK'
      BY <1>1, <1>2, <2>2, <3>1 DEF ProgramInv, StageTypeOK, Beginning
    <3> QED
      BY <1>1, <1>3, <3>1, <3>2, <3>3 DEF ProgramInv, Beginning, BusStages
  <2>3. CASE item = 5
    <3>1. /\ stage' \in {"samples", "over"} /\ item' = 1
          /\ brought_up' = (brought_up \/ stage = "probe")
      <4>1. Ok /\ ~ (item < Len(BeginOrder)) /\ item # 1
        BY <1>2, <1>6, <2>3
      <4>2. stage' \in {"samples", "over"} /\ item' = 1
        BY <4>1 DEF Begun, Go
      <4>3. brought_up' = (brought_up \/ stage = "probe")
        BY <4>1, Zenon DEF Begun
      <4> QED
        BY <4>2, <4>3
    <3>2. unrest = "none" => "POWER_CTL" \in chip'[AltLow].written
      BY <1>1, <2>1, <2>3, Orders
    <3>3. unrest = "none" => BegunSoFar'
      BY <1>1, <2>1, <3>1, <3>2 DEF BegunSoFar, Beginning
    <3>4. StageTypeOK'
      BY <3>1 DEF ProgramInv, StageTypeOK, Beginning, BusStages
    <3> QED
      BY <1>1, <1>3, <3>1, <3>3, <3>4 DEF ProgramInv, BusStages
  <2> QED
    BY <1>2, <2>2, <2>3
<1> QED
  BY <1>2, <1>4, <1>5, <1>6

\* The steps that follow an answer, or need none, begin nothing they may not.
LEMMA OnBusKeeps ==
  ASSUME BusInv, ProgramInv, OnBus
  PROVE  /\ BusInv' /\ ProgramInv' /\ UNCHANGED <<parts, pins, look>>
         /\ unrest' = "none" => unrest = "none"
<1>1. CASE Ask
  BY <1>1, AskKeeps DEF Ask, program
<1>2. CASE Scanned \/ DevidRead \/ Begun \/ Sampled \/ Drained
  <2>1. Answered
    BY <1>2 DEF Scanned, DevidRead, Begun, Sampled, Drained
  <2>2. /\ BusInv' /\ UNCHANGED <<parts, chip, unrest, pins, look>> /\ call'.step = "none"
    BY <2>1, AnsweredKeeps DEF Answered, Idle
  <2>3. CASE Begun
    BY <2>2, <2>3, BegunKeeps
  <2>4. CASE ~ Begun
    <3>1. /\ brought_up' = brought_up /\ stage' \in PinStages \cup BusStages
          /\ item' \in Nat \ {0} /\ (stage' \in {"begin", "probe"} => item' = 1)
      BY <1>2, <2>4
      DEF Scanned, DevidRead, Sampled, Drained, Go, Stay, ProgramInv, StageTypeOK, BusStages
    <3>2. Beginning' => item' = 1 /\ item' <= Len(BeginOrder) /\ ~ (item' > 1)
      BY <3>1, Orders DEF Beginning
    <3>3. StageTypeOK' /\ Asked'
      BY <2>2, <3>1, <3>2 DEF ProgramInv, StageTypeOK, Asked
    <3>4. unrest = "none" => BegunSoFar'
      BY <2>2, <3>1, <3>2 DEF ProgramInv, BegunSoFar
    <3> QED
      BY <2>2, <3>3, <3>4 DEF ProgramInv
  <2> QED
    BY <2>2, <2>3, <2>4
<1>3. CASE ScanDone \/ Loop
  <2>1. /\ brought_up' = brought_up /\ stage' \in {"over", "devid", "level", "probe"}
        /\ item' = 1 /\ UNCHANGED <<bus, pins, look>> /\ call.step = "none"
    BY <1>3 DEF ScanDone, Loop, Go
  <2>2. UNCHANGED <<parts, call, peripheral, chip, history>> /\ unrest' = unrest
    BY <2>1 DEF bus, driver, history
  <2>3. BusInv'
    BY <2>2, BusUndisturbed
  <2>4. StageTypeOK' /\ Asked'
    BY <2>1, <2>2, Orders DEF ProgramInv, StageTypeOK, BusStages, Asked, Beginning
  <2>5. unrest = "none" => BegunSoFar'
    BY <2>1, <2>2 DEF ProgramInv, BegunSoFar, Beginning
  <2> QED
    BY <2>1, <2>2, <2>3, <2>4, <2>5 DEF ProgramInv
<1> QED
  BY <1>1, <1>2, <1>3 DEF OnBus

LEMMA OnBusStages ==
  ASSUME ProgramInv, OnBus PROVE stage \in BusStages /\ stage' \in BusStages
<1>1. CASE Ask
  BY <1>1 DEF Ask, program, BusStages
<1>2. CASE Begun
  BY <1>2 DEF Begun, Go, Stay, BusStages
<1>3. CASE Scanned \/ ScanDone \/ DevidRead \/ Sampled \/ Drained \/ Loop
  BY <1>3 DEF Scanned, ScanDone, DevidRead, Sampled, Drained, Loop, Go, Stay, BusStages
<1> QED
  BY <1>1, <1>2, <1>3 DEF OnBus

\* What the program knows of the bus stays true while the bus goes on.
LEMMA BusStepProgram ==
  ASSUME BusInv, ProgramInv, BusStep, UNCHANGED program PROVE ProgramInv'
<1>1. /\ UNCHANGED <<stage, item, brought_up, parts, unrest>>
      /\ (call'.step = "none" <=> call.step = "none")
      /\ call'.to = call.to /\ call'.tx = call.tx
      /\ \A address \in DOMAIN parts : chip[address].written \subseteq chip'[address].written
  BY BusStepFrame DEF program, BusInv
<1>2. StageTypeOK' /\ Asked'
  BY <1>1 DEF ProgramInv, StageTypeOK, Asked, Beginning
<1>3. unrest = "none" => BegunSoFar'
  <2>1. CASE AltLow \in DOMAIN parts
    <3>1. chip[AltLow].written \subseteq chip'[AltLow].written
      BY <1>1, <2>1
    <3> QED
      BY <1>1, <3>1 DEF ProgramInv, BegunSoFar, Beginning
  <2>2. CASE AltLow \notin DOMAIN parts
    BY <1>1, <2>2 DEF ProgramInv, BegunSoFar, Beginning
  <2> QED
    BY <2>1, <2>2
<1> QED
  BY <1>1, <1>2, <1>3 DEF ProgramInv
-----------------------------------------------------------------------------
(***************************************************************************)
(* The pins.  First that the sweep comes to every one of them, once.       *)
(***************************************************************************)
LEMMA WiresInOrder ==
  /\ Len(I2cPins) \in Nat \ {0} /\ DOMAIN I2cPins = 1 .. Len(I2cPins)
  /\ \A k \in 1 .. Len(I2cPins) : I2cPins[k] \in Range(I2cPins)
  /\ \A j, k \in 1 .. Len(I2cPins) : I2cPins[j] = I2cPins[k] => j = k
  /\ \A pin \in Range(I2cPins) : \E k \in 1 .. Len(I2cPins) : pin = I2cPins[k]
<1>1. /\ I2cPins \in Seq(Range(I2cPins)) /\ I2cPins # <<>> /\ IsInjective(I2cPins)
  BY PinAssumption
<1>2. /\ Len(I2cPins) \in Nat \ {0} /\ DOMAIN I2cPins = 1 .. Len(I2cPins)
  BY <1>1, LenProperties, EmptySeq
<1>3. \A j, k \in 1 .. Len(I2cPins) : I2cPins[j] = I2cPins[k] => j = k
  BY <1>1, <1>2 DEF IsInjective
<1> QED
  BY <1>2, <1>3 DEF Range

LEMMA PinsFinite == IsFiniteSet(Pins)
<1>1. IsFiniteSet(1 .. Len(I2cPins))
  BY WiresInOrder, FS_Interval
<1>2. IsFiniteSet(Range(I2cPins))
  <2>1. I2cPins \in [1 .. Len(I2cPins) -> Range(I2cPins)]
    BY PinAssumption, LenProperties
  <2>2. I2cPins \in Surjection(1 .. Len(I2cPins), Range(I2cPins))
    BY <2>1, WiresInOrder DEF Surjection
  <2> QED
    BY <1>1, <2>2, FS_Surjection
<1>3. IsFiniteSet({LedPin}) /\ IsFiniteSet({ButtonPin})
  BY FS_Singleton
<1>4. IsFiniteSet({LedPin} \cup {ButtonPin}) /\ {LedPin, ButtonPin} = {LedPin} \cup {ButtonPin}
  BY <1>3, FS_Union
<1>5. IsFiniteSet(Keep)
  BY <1>4, PinAssumption, FS_Union DEF Keep
<1>6. IsFiniteSet(Keep \cup Range(I2cPins))
  BY <1>2, <1>5, FS_Union
<1> QED
  BY <1>6, PinAssumption, FS_Union DEF Pins

LEMMA SweepInOrder ==
  /\ Len(SweepOrder) \in Nat
  /\ \A k \in 1 .. Len(SweepOrder) : SweepOrder[k] \in Pins
  /\ \A j, k \in 1 .. Len(SweepOrder) : SweepOrder[j] = SweepOrder[k] => j = k
  /\ \A pin \in Pins : \E k \in 1 .. Len(SweepOrder) : pin = SweepOrder[k]
<1> DEFINE n == Cardinality(Pins)
<1>1. n \in Nat /\ ExistsBijection(1 .. n, Pins)
  BY PinsFinite, FS_CardinalityType
<1>2. \E f \in [1 .. n -> Pins] : IsInjective(f)
  BY <1>1 DEF ExistsBijection, Bijection, Injection
<1>3. SweepOrder \in [1 .. n -> Pins] /\ IsInjective(SweepOrder)
  BY <1>2 DEF SweepOrder, SetToSeq
<1>4. IsFiniteSet(1 .. n) /\ Cardinality(1 .. n) = n
  BY <1>1, FS_Interval
<1>5. SweepOrder \in Surjection(1 .. n, Pins)
  <2>1. SweepOrder \in Injection(1 .. n, Pins)
    BY <1>3 DEF Injection
  <2> QED
    BY <1>4, <2>1, PinsFinite, FS_Injection
<1> HIDE DEF n
<1>6. SweepOrder \in Seq(Pins) /\ Len(SweepOrder) = n
  BY <1>1, <1>3
<1> QED
  BY <1>1, <1>3, <1>5, <1>6 DEF IsInjective, Surjection

LEMMA WiresKeepNoPin ==
  /\ Range(I2cPins) \subseteq Pins /\ Range(I2cPins) \cap Keep = {}
  /\ UartPins \subseteq Pins /\ LedPin \in Pins \ UartPins
  /\ ButtonPin \in Pins \ UartPins /\ ButtonPin # LedPin
BY PinAssumption DEF Pins, Keep

(***************************************************************************)
(* Setting up.                                                             *)
(***************************************************************************)
LEMMA NothingBorrowed ==
  ASSUME PinsInv, stage \notin {"wires", "sweep"}
  PROVE  look = NoLook /\ ~ Borrowed
<1>1. look = NoLook
  BY DEF PinsInv, Probing
<1> QED
  BY <1>1 DEF NoLook, Borrowed

LEMMA BoardInitKeeps ==
  ASSUME PinsInv, StageTypeOK, BoardInit PROVE PinsInv'
<1>1. /\ stage = "board_init" /\ item \in 1 .. 3 /\ look' = look /\ look = NoLook
      /\ pins \in [Pins -> PinStates] /\ LookTypeOK
  BY NothingBorrowed DEF BoardInit, PinsInv, AtBoard, StageTypeOK
<1>2. \A pin \in Pins :
        pins[pin] = IF pin \notin UartPins \/ item = 1 THEN Fresh
                    ELSE IF item = 2 THEN [Fresh EXCEPT !.af = "AF7"] ELSE AsSetUp(pin)
  BY <1>1 DEF PinsInv, AtBoard
<1>3. LookTypeOK' /\ ~ Borrowed'
  BY <1>1 DEF LookTypeOK, Borrowed, NoLook
<1>4. CASE item = 1
  <2>1. pins' = SetUp(UartPins, "af") /\ stage' = stage /\ item' = 2
    BY <1>1, <1>4 DEF BoardInit, Stay, PinOrder
  <2>2. \A pin \in Pins :
          pins'[pin] = IF pin \notin UartPins THEN Fresh ELSE [Fresh EXCEPT !.af = "AF7"]
    BY <1>2, <1>4, <2>1 DEF SetUp, Function
  <2>3. pins' \in [Pins -> PinStates]
    BY <1>1, <2>1 DEF SetUp, Function, PinStates
  <2> QED
    BY <1>1, <1>3, <2>1, <2>2, <2>3 DEF PinsInv, AtBoard, AtI2c, PinsAtRest, Probing, NoLook, Borrowed
<1>5. CASE item = 2
  <2>1. pins' = SetUp(UartPins, "mode") /\ stage' = stage /\ item' = 3
    BY <1>1, <1>5 DEF BoardInit, Stay, PinOrder
  <2>2. \A pin \in Pins :
          pins'[pin] = IF pin \notin UartPins THEN Fresh ELSE AsSetUp(pin)
    BY <1>2, <1>5, <2>1 DEF SetUp, Fresh, AsSetUp
  <2>3. pins' \in [Pins -> PinStates]
    BY <1>1, <2>1 DEF SetUp, PinStates
  <2> QED
    BY <1>1, <1>3, <2>1, <2>2, <2>3 DEF PinsInv, AtBoard, AtI2c, PinsAtRest, Probing, NoLook, Borrowed
<1>6. CASE item = 3
  <2>1. /\ stage' = "i2c1_init" /\ item' = 1
        /\ pins' = [pins EXCEPT ![LedPin].mode = "output",
                                ![ButtonPin].mode = "input", ![ButtonPin].pull = "up"]
    BY <1>1, <1>6 DEF BoardInit, Go
  <2>3. \A pin \in Pins \ Range(I2cPins) : pins'[pin] = AsSetUp(pin)
    BY <1>1, <1>2, <1>6, <2>1, WiresKeepNoPin DEF AsSetUp, Fresh, Keep
  <2>4. \A pin \in Range(I2cPins) : pins'[pin] = Fresh
    BY <1>1, <1>2, <1>6, <2>1, WiresKeepNoPin DEF Keep
  <2>5. AtI2c'
    <3>1. \A k \in 1 .. Len(I2cPins) : ~ (2 * k < 1) /\ 2 * k # 1
      BY WiresInOrder
    <3>2. \A k \in 1 .. Len(I2cPins) : pins'[I2cPins[k]] = Fresh
      BY <2>4, WiresInOrder
    <3> QED
      BY <2>1, <2>3, <3>1, <3>2 DEF AtI2c, AsSetUp
  <2>2. pins' \in [Pins -> PinStates]
    <3>1. \A pin \in Pins : pins'[pin] \in PinStates
      BY <2>3, <2>4 DEF PinStates, Fresh, AsSetUp
    <3>2. pins' = [pin \in Pins |-> pins'[pin]]
      BY <1>1, <2>1
    <3> QED
      BY <3>1, <3>2
  <2> QED
    <3>1. item' <= 2 * Len(I2cPins)
      BY <2>1, WiresInOrder
    <3>2. Probing'
      BY <1>1, <1>3, <2>1, <3>1 DEF Probing, NoLook, Borrowed
    <3> QED
      BY <1>3, <2>1, <2>2, <2>5, <3>2 DEF PinsInv, AtBoard, PinsAtRest
<1> QED
  BY <1>1, <1>4, <1>5, <1>6

\* A pin of the bus: its function first, then its mode.
LEMMA I2cInitDoes ==
  ASSUME PinsInv, StageTypeOK, I2cInit
  PROVE  /\ pins' \in [Pins -> PinStates]
         /\ \E k \in 1 .. Len(I2cPins) :
              /\ \A pin \in Pins \ {I2cPins[k]} : pins'[pin] = pins[pin]
              /\ \/ /\ item = 2 * k - 1
                    /\ pins'[I2cPins[k]] = [pins[I2cPins[k]] EXCEPT !.af = "AF4", !.pull = "up"]
                 \/ /\ item = 2 * k
                    /\ pins'[I2cPins[k]] =
                         [pins[I2cPins[k]] EXCEPT !.mode = "alternate", !.pull = "up"]
<1> DEFINE k == (item + 1) \div 2
           field == PinOrder[2 - (item % 2)]
<1>1. item \in Nat \ {0} /\ item <= 2 * Len(I2cPins) /\ Len(I2cPins) \in Nat
  BY WiresInOrder DEF I2cInit, PinsInv, Probing, StageTypeOK
<1>2. k \in 1 .. Len(I2cPins)
  BY <1>1
<1>3. \/ item = 2 * k - 1 /\ item % 2 = 1
      \/ item = 2 * k /\ item % 2 = 0
  BY <1>1
<1>4. PICK pin \in Range(I2cPins) : pin = I2cPins[k]
  BY <1>2, WiresInOrder
<1>5. pins' = [SetUp({pin}, field) EXCEPT ![pin].pull = "up"]
  BY <1>4 DEF I2cInit
<1>6. pin \in Pins /\ pin \notin UartPins /\ Function(pin) = "AF4"
  BY WiresKeepNoPin DEF Function, Keep
<1>7. item % 2 = 1 => field = "af"
  BY DEF PinOrder
<1>8. item % 2 = 0 => field = "mode"
  BY DEF PinOrder
<1> HIDE DEF k, field
<1>9. pins \in [Pins -> PinStates]
  BY DEF PinsInv
<1>10. CASE item % 2 = 1
  <2>1. pins' = [SetUp({pin}, "af") EXCEPT ![pin].pull = "up"]
    BY <1>5, <1>7, <1>10
  <2>2. /\ \A q \in Pins \ {pin} : pins'[q] = pins[q]
        /\ pins'[pin] = [pins[pin] EXCEPT !.af = "AF4", !.pull = "up"]
    BY <1>6, <1>9, <2>1 DEF SetUp, PinStates
  <2>3. pins' \in [Pins -> PinStates]
    BY <1>6, <1>9, <2>1 DEF SetUp, PinStates
  <2>4. item = 2 * k - 1
    BY <1>3, <1>10
  <2> QED
    BY <1>2, <1>4, <2>2, <2>3, <2>4
<1>11. CASE item % 2 = 0
  <2>1. pins' = [SetUp({pin}, "mode") EXCEPT ![pin].pull = "up"]
    BY <1>5, <1>8, <1>11
  <2>2. /\ \A q \in Pins \ {pin} : pins'[q] = pins[q]
        /\ pins'[pin] = [pins[pin] EXCEPT !.mode = "alternate", !.pull = "up"]
    BY <1>6, <1>9, <2>1 DEF SetUp, PinStates
  <2>3. pins' \in [Pins -> PinStates]
    BY <1>6, <1>9, <2>1 DEF SetUp, PinStates
  <2>4. item = 2 * k
    BY <1>3, <1>11
  <2> QED
    BY <1>2, <1>4, <2>2, <2>3, <2>4
<1> QED
  BY <1>3, <1>10, <1>11

LEMMA FreshOrSetUp ==
  ASSUME NEW pin \in Range(I2cPins)
  PROVE  AsSetUp(pin) = [mode |-> "alternate", pull |-> "up", af |-> "AF4"]
BY WiresKeepNoPin DEF AsSetUp, Keep

LEMMA SamePin ==
  ASSUME NEW p \in PinStates, NEW q \in PinStates,
         p.mode = q.mode, p.pull = q.pull, p.af = q.af
  PROVE  p = q
BY DEF PinStates

LEMMA FirstI2cInitKeeps ==
  ASSUME PinsInv, StageTypeOK, I2cInit, stage = "i2c1_init" PROVE PinsInv'
<1> DEFINE n == Len(I2cPins)
           half == [Fresh EXCEPT !.af = "AF4", !.pull = "up"]
<1>1. look' = look /\ look = NoLook /\ n \in Nat \ {0} /\ item \in Nat \ {0} /\ LookTypeOK
  BY NothingBorrowed, WiresInOrder DEF I2cInit, PinsInv, StageTypeOK
<1>2. LookTypeOK' /\ ~ Borrowed'
  BY <1>1 DEF LookTypeOK, Borrowed, NoLook
<1>3. /\ \A pin \in Pins \ Range(I2cPins) : pins[pin] = AsSetUp(pin)
      /\ \A j \in 1 .. n : pins[I2cPins[j]] =
           IF 2 * j < item THEN AsSetUp(I2cPins[j]) ELSE IF 2 * j = item THEN half ELSE Fresh
  BY DEF PinsInv, AtI2c
<1>4. PICK k \in 1 .. n :
        /\ \A pin \in Pins \ {I2cPins[k]} : pins'[pin] = pins[pin]
        /\ \/ /\ item = 2 * k - 1
              /\ pins'[I2cPins[k]] = [pins[I2cPins[k]] EXCEPT !.af = "AF4", !.pull = "up"]
           \/ /\ item = 2 * k
              /\ pins'[I2cPins[k]] =
                   [pins[I2cPins[k]] EXCEPT !.mode = "alternate", !.pull = "up"]
  BY I2cInitDoes
<1> HIDE DEF half
<1>5. pins' \in [Pins -> PinStates]
  BY I2cInitDoes
<1>6. \A pin \in Pins \ Range(I2cPins) : pins'[pin] = AsSetUp(pin)
  BY <1>3, <1>4, WiresInOrder
<1>7. \A j \in 1 .. n : j # k => pins'[I2cPins[j]] = pins[I2cPins[j]]
  BY <1>4, WiresInOrder, WiresKeepNoPin
<1>8. CASE item = 2 * k - 1
  <2>1. pins'[I2cPins[k]] = half
    <3>1. pins[I2cPins[k]] = Fresh
      BY <1>1, <1>3, <1>8
    <3>2. item # 2 * k
      BY <1>1, <1>8
    <3> QED
      BY <1>4, <3>1, <3>2 DEF half
  <2>2. stage' = stage /\ item' = 2 * k
    <3>1. item < 2 * n /\ item + 1 = 2 * k
      BY <1>1, <1>8
    <3>2. stage' = stage /\ item' = item + 1
      BY <3>1 DEF I2cInit, Stay
    <3> QED
      BY <3>1, <3>2
  <2>3. \A j \in 1 .. n : pins'[I2cPins[j]] =
          IF 2 * j < item' THEN AsSetUp(I2cPins[j]) ELSE IF 2 * j = item' THEN half ELSE Fresh
    <3> SUFFICES ASSUME NEW j \in 1 .. n
                 PROVE  pins'[I2cPins[j]] =
                          IF 2 * j < 2 * k THEN AsSetUp(I2cPins[j])
                          ELSE IF 2 * j = 2 * k THEN half ELSE Fresh
      BY <2>2
    <3>1. CASE j = k
      BY <1>1, <2>1, <3>1
    <3>2. CASE j # k
      <4>1. pins'[I2cPins[j]] = IF 2 * j < item THEN AsSetUp(I2cPins[j])
                                ELSE IF 2 * j = item THEN half ELSE Fresh
        BY <1>3, <1>7, <3>2
      <4>2. (2 * j < item <=> 2 * j < 2 * k) /\ 2 * j # item /\ 2 * j # 2 * k
        BY <1>1, <1>8, <3>2
      <4> QED
        BY <4>1, <4>2
    <3> QED
      BY <3>1, <3>2
  <2>4. AtI2c'
    BY <1>6, <2>2, <2>3 DEF AtI2c, AsSetUp, Fresh, half
  <2>5. Probing'
    BY <1>1, <1>2, <2>2 DEF Probing, NoLook, Borrowed
  <2> QED
    BY <1>2, <1>5, <2>2, <2>4, <2>5 DEF PinsInv, AtBoard, PinsAtRest
<1>9. CASE item = 2 * k
  <2>1. pins'[I2cPins[k]] = AsSetUp(I2cPins[k])
    <3>1. pins[I2cPins[k]] = half
      BY <1>1, <1>3, <1>9
    <3>2. item # 2 * k - 1
      BY <1>1, <1>9
    <3>3. half \in PinStates /\ half.pull = "up" /\ half.af = "AF4"
      BY DEF half, Fresh, PinStates
    <3>4. I2cPins[k] \in Range(I2cPins) /\ I2cPins[k] \in Pins
      BY WiresInOrder, WiresKeepNoPin
    <3>5. pins'[I2cPins[k]] = [pins[I2cPins[k]] EXCEPT !.mode = "alternate", !.pull = "up"]
      BY <1>4, <3>2
    <3>6. /\ pins'[I2cPins[k]].mode = "alternate" /\ pins'[I2cPins[k]].pull = "up"
          /\ pins'[I2cPins[k]].af = "AF4" /\ pins'[I2cPins[k]] \in PinStates
      BY <1>5, <3>1, <3>3, <3>4, <3>5 DEF PinStates
    <3>7. AsSetUp(I2cPins[k]) \in PinStates
      BY <3>4, FreshOrSetUp DEF PinStates
    <3> QED
      BY <3>4, <3>6, <3>7, FreshOrSetUp, SamePin
  <2>2. \A j \in 1 .. n : pins'[I2cPins[j]] =
          IF 2 * j < 2 * k + 1 THEN AsSetUp(I2cPins[j]) ELSE Fresh
    <3> SUFFICES ASSUME NEW j \in 1 .. n
                 PROVE  pins'[I2cPins[j]] =
                          IF 2 * j < 2 * k + 1 THEN AsSetUp(I2cPins[j]) ELSE Fresh
      OBVIOUS
    <3>1. CASE j = k
      BY <1>1, <2>1, <3>1
    <3>2. CASE j # k
      <4>1. pins'[I2cPins[j]] = IF 2 * j < item THEN AsSetUp(I2cPins[j])
                                ELSE IF 2 * j = item THEN half ELSE Fresh
        BY <1>3, <1>7, <3>2
      <4>2. (2 * j < item <=> 2 * j < 2 * k + 1) /\ 2 * j # item
        BY <1>1, <1>9, <3>2
      <4> QED
        BY <4>1, <4>2
    <3> QED
      BY <3>1, <3>2
  <2>3. CASE k < n
    <3>1. stage' = stage /\ item' = 2 * k + 1
      <4>1. item < 2 * n /\ item + 1 = 2 * k + 1
        BY <1>1, <1>9, <2>3
      <4>2. stage' = stage /\ item' = item + 1
        BY <4>1 DEF I2cInit, Stay
      <4> QED
        BY <4>1, <4>2
    <3>2. \A j \in 1 .. n : 2 * j # 2 * k + 1
      BY <1>1
    <3>3. \A j \in 1 .. n : pins'[I2cPins[j]] =
            IF 2 * j < item' THEN AsSetUp(I2cPins[j]) ELSE IF 2 * j = item' THEN half ELSE Fresh
      BY <2>2, <3>1, <3>2
    <3>4. AtI2c'
      BY <1>6, <3>1, <3>3 DEF AtI2c, AsSetUp, Fresh, half
    <3>5. 2 * k + 1 <= 2 * n
      BY <1>1, <2>3
    <3>6. Probing'
      BY <1>1, <1>2, <3>1, <3>5 DEF Probing, NoLook, Borrowed
    <3> QED
      BY <1>2, <1>5, <3>1, <3>4, <3>6 DEF PinsInv, AtBoard, PinsAtRest
  <2>4. CASE k = n
    <3>1. stage' = "wires" /\ item' = 1
      BY <1>1, <1>9, <2>4 DEF I2cInit, Go
    <3>2. \A j \in 1 .. n : pins'[I2cPins[j]] = AsSetUp(I2cPins[j])
      BY <1>1, <2>2, <2>4
    <3>3. \A pin \in Pins : pins'[pin] = AsSetUp(pin)
      BY <1>6, <3>2, WiresInOrder
    <3>4. PinsAtRest'
      BY <3>3 DEF PinsAtRest, AsSetUp
    <3>5. Order' = I2cPins
      BY <3>1 DEF Order
    <3>6. Probing'
      BY <1>1, <1>2, <3>1, <3>5 DEF Probing, NoLook, Borrowed
    <3> QED
      BY <1>2, <1>5, <3>1, <3>4, <3>6 DEF PinsInv, AtBoard, AtI2c
  <2> QED
    BY <1>1, <2>3, <2>4
<1> QED
  BY <1>4, <1>8, <1>9

\* The second time every pin of the bus is already as it is set up.
LEMMA SecondI2cInitKeeps ==
  ASSUME PinsInv, StageTypeOK, I2cInit, stage = "i2c1_init_again"
  PROVE  PinsInv' /\ stage' \in {"i2c1_init_again", "scan"}
<1>1. look' = look /\ look = NoLook /\ ~ Borrowed /\ LookTypeOK
  BY NothingBorrowed DEF I2cInit, PinsInv
<1>2. LookTypeOK' /\ ~ Borrowed'
  BY <1>1 DEF LookTypeOK, Borrowed
<1>3. \A pin \in Pins : pins[pin] = AsSetUp(pin)
  BY <1>1 DEF PinsInv, PinsAtRest
<1>4. PICK pin \in Range(I2cPins) :
        /\ \A other \in Pins \ {pin} : pins'[other] = pins[other]
        /\ \/ pins'[pin] = [pins[pin] EXCEPT !.af = "AF4", !.pull = "up"]
           \/ pins'[pin] = [pins[pin] EXCEPT !.mode = "alternate", !.pull = "up"]
  BY I2cInitDoes, WiresInOrder
<1>5. pins' \in [Pins -> PinStates] /\ pins \in [Pins -> PinStates] /\ pin \in Pins
  BY I2cInitDoes, WiresKeepNoPin DEF PinsInv
<1>6. pins[pin] = [mode |-> "alternate", pull |-> "up", af |-> "AF4"]
  BY <1>3, <1>5, FreshOrSetUp
<1>7. pins'[pin] = pins[pin]
  <2>1. pins'[pin] \in PinStates /\ pins[pin] \in PinStates
    BY <1>5
  <2>2. /\ pins[pin].mode = "alternate" /\ pins[pin].pull = "up" /\ pins[pin].af = "AF4"
    BY <1>6
  <2>3. /\ pins'[pin].mode = "alternate" /\ pins'[pin].pull = "up" /\ pins'[pin].af = "AF4"
    BY <1>4, <2>1, <2>2 DEF PinStates
  <2> QED
    BY <2>1, <2>2, <2>3, SamePin
<1>8. \A other \in Pins : pins'[other] = AsSetUp(other)
  BY <1>3, <1>4, <1>7
<1>9. PinsAtRest'
  BY <1>8 DEF PinsAtRest, AsSetUp
<1>10. \/ stage' = stage /\ item' = item + 1 /\ item < 2 * Len(I2cPins)
       \/ stage' = "scan"
  BY DEF I2cInit, Stay, Go
<1>11. Probing'
  <2> DEFINE n == Len(I2cPins)
  <2>1. look' = NoLook /\ ~ Borrowed'
    BY <1>1, <1>2
  <2>2. Len(NoLook.levels) = 0
    BY DEF NoLook
  <2>3. CASE stage' = "scan"
    BY <2>1, <2>2, <2>3 DEF Probing
  <2>4. CASE stage' # "scan"
    <3>1. /\ item \in Nat /\ n \in Nat /\ item < 2 * n /\ item' = item + 1
          /\ stage' = "i2c1_init_again"
      BY <1>10, <2>4, WiresInOrder DEF StageTypeOK
    <3> HIDE DEF n
    <3>2. item' <= 2 * n
      BY <3>1
    <3> QED
      BY <2>1, <2>2, <3>1, <3>2 DEF Probing, n
  <2> QED
    BY <2>3, <2>4
<1> QED
  BY <1>2, <1>5, <1>9, <1>10, <1>11 DEF PinsInv, AtBoard, AtI2c

(***************************************************************************)
(* Reading: a pin is borrowed and given back as it was.                    *)
(***************************************************************************)
LEMMA OrderIs ==
  /\ stage = "wires" => Order = I2cPins
  /\ stage # "wires" => Order = SweepOrder
  /\ Len(Order) \in Nat
BY WiresInOrder, SweepInOrder DEF Order

LEMMA ProbedIs ==
  ASSUME stage \in {"wires", "sweep"}, StageTypeOK, item <= Len(Order)
  PROVE  /\ Probed \in Pins
         /\ stage = "wires" => Probed \notin Keep
<1>1. item \in 1 .. Len(Order)
  BY OrderIs DEF StageTypeOK
<1> QED
  BY <1>1, OrderIs, WiresInOrder, SweepInOrder, WiresKeepNoPin DEF Probed

LEMMA SameProbe ==
  ASSUME stage' = stage, item' = item PROVE Order' = Order /\ Probed' = Probed
<1>1. Order' = Order
  BY DEF Order
<1> QED
  BY <1>1 DEF Probed

LEMMA DriveKeeps ==
  ASSUME PinsInv, StageTypeOK, Drive PROVE PinsInv'
<1> DEFINE pull == IF look.levels = <<>> THEN "none" ELSE "down"
           p == Probed
<1>1. /\ stage \in {"wires", "sweep"} /\ item <= Len(Order)
      /\ look.was = <<>> /\ Len(look.levels) < 2 /\ stage' = stage /\ item' = item
      /\ stage = "sweep" => p \notin Keep
      /\ look' = [look EXCEPT !.pull = pull, !.was = <<pins[p].mode, pins[p].pull>>]
      /\ pins' = [pins EXCEPT ![p].mode = "input", ![p].pull = pull]
  BY DEF Drive, Reading
<1>2. p \in Pins /\ p \notin Keep
  BY <1>1, ProbedIs
<1>3. Order' = Order /\ Probed' = p
  BY <1>1, SameProbe
<1> HIDE DEF p
<1>4. /\ look \in [pull : {"none", "down"}, was : Seq(Words), levels : Seq({0, 1})]
      /\ pins \in [Pins -> PinStates] /\ ~ Borrowed
  BY <1>1 DEF PinsInv, LookTypeOK, Borrowed
<1>5. \A pin \in Pins : pins[pin] = AsSetUp(pin)
  BY <1>1, <1>4 DEF PinsInv, PinsAtRest
<1>6. pull \in {"none", "down"} /\ (look.levels # <<>> => pull = "down")
  OBVIOUS
<1> HIDE DEF pull
<1>7. /\ look'.pull = pull /\ look'.levels = look.levels
      /\ look'.was = <<AsSetUp(p).mode, AsSetUp(p).pull>>
  BY <1>1, <1>2, <1>4, <1>5
<1>8. LookTypeOK'
  <2>1. pins[p].mode \in Words /\ pins[p].pull \in Words
    BY <1>2, <1>4 DEF PinStates, Words
  <2>2. <<pins[p].mode, pins[p].pull>> \in Seq(Words)
    BY <2>1
  <2> QED
    BY <1>1, <1>4, <1>6, <2>2 DEF LookTypeOK
<1>9. pins' \in [Pins -> PinStates]
  BY <1>1, <1>2, <1>4, <1>6 DEF PinStates
<1>10. /\ \A pin \in Pins : pin # p => pins'[pin] = AsSetUp(pin)
       /\ pins'[p] = [AsSetUp(p) EXCEPT !.mode = "input", !.pull = pull]
  BY <1>1, <1>2, <1>4, <1>5
<1>11. Borrowed'
  BY <1>7 DEF Borrowed
<1>12. PinsAtRest'
  BY <1>1, <1>3, <1>10, <1>11 DEF PinsAtRest, AsSetUp
<1>13. Len(look.levels) <= 2 /\ Len(look.levels) # 2 /\ item <= Len(Order) + 1
  <2>1. Len(look.levels) \in Nat /\ item \in Nat /\ Len(Order) \in Nat
    BY <1>4, LenProperties, OrderIs DEF StageTypeOK
  <2>2. Len(look.levels) < 2 /\ item <= Len(Order)
    BY <1>1
  <2>3. \A n, i, m \in Nat : n < 2 /\ i <= m => n <= 2 /\ n # 2 /\ i <= m + 1
    OBVIOUS
  <2> QED
    BY <2>1, <2>2, <2>3
<1>14. Probing'
  BY <1>1, <1>2, <1>3, <1>6, <1>7, <1>10, <1>13 DEF Probing, AsSetUp
<1> QED
  BY <1>1, <1>8, <1>9, <1>12, <1>14 DEF PinsInv, AtBoard, AtI2c

LEMMA LookKeeps ==
  ASSUME PinsInv, StageTypeOK, Look PROVE PinsInv'
<1> DEFINE p == Probed
           q == AsSetUp(p)
<1>1. /\ look.was # <<>> /\ pins' = [pins EXCEPT ![p] = Restored]
      /\ stage' = stage /\ item' = item
  BY DEF Look
<1>2. /\ stage \in {"wires", "sweep"} /\ item <= Len(Order) /\ p \notin Keep
      /\ pins[p] = [q EXCEPT !.mode = "input", !.pull = look.pull]
      /\ look.was = <<q.mode, q.pull>> /\ Len(look.levels) < 2
      /\ look.levels # <<>> => look.pull = "down"
  BY <1>1 DEF PinsInv, Probing, Borrowed, NoLook
<1>3. p \in Pins
  BY <1>2, ProbedIs
<1>4. PICK level \in Levels :
        look' = [look EXCEPT !.was = <<>>, !.levels = Append(@, level)]
  BY DEF Look
<1>5. /\ look \in [pull : {"none", "down"}, was : Seq(Words), levels : Seq({0, 1})]
      /\ pins \in [Pins -> PinStates]
  BY DEF PinsInv, LookTypeOK
<1>6. level \in {0, 1} /\ (look.pull = "down" => (level = 1 <=> p \in HeldPins))
  BY <1>4 DEF Levels
<1>7. Order' = Order /\ Probed' = p
  BY <1>1, SameProbe
<1>8. pins'[p] = q
  <2>1. q \in PinStates
    BY DEF AsSetUp, PinStates
  <2> HIDE DEF p, q
  <2>2. /\ pins[p] \in PinStates /\ pins[p].af = q.af
        /\ look.was[1] = q.mode /\ look.was[2] = q.pull
    BY <1>2, <1>3, <1>5, <2>1 DEF PinStates
  <2>3. pins'[p] = [pins[p] EXCEPT !.pull = q.pull, !.mode = q.mode]
    BY <1>1, <1>3, <1>5, <2>2 DEF Restored, p
  <2>4. pins'[p] \in PinStates
    BY <2>1, <2>2, <2>3 DEF PinStates
  <2>5. pins'[p].mode = q.mode /\ pins'[p].pull = q.pull /\ pins'[p].af = q.af
    BY <2>2, <2>3 DEF PinStates
  <2> QED
    BY <2>1, <2>4, <2>5, SamePin
<1>9. \A pin \in Pins : pins'[pin] = AsSetUp(pin)
  BY <1>1, <1>2, <1>3, <1>5, <1>8 DEF PinsInv, PinsAtRest
<1>10. pins' \in [Pins -> PinStates]
  <2>1. \A pin \in Pins : AsSetUp(pin) \in PinStates
    BY DEF AsSetUp, PinStates
  <2>2. pins' = [pin \in Pins |-> pins'[pin]]
    BY <1>1, <1>5
  <2> QED
    BY <1>9, <2>1, <2>2
<1> HIDE DEF p, q
<1> DEFINE levels == Append(look.levels, level)
<1>11. look'.was = <<>> /\ look'.levels = levels /\ look'.pull = look.pull
  BY <1>4, <1>5
<1>12. /\ levels \in Seq({0, 1}) /\ Len(levels) = Len(look.levels) + 1
       /\ levels[Len(look.levels) + 1] = level /\ Len(look.levels) \in Nat
  BY <1>5, <1>6, AppendProperties, LenProperties
<1>13. Len(levels) = 2 => Len(look.levels) = 1 /\ levels[2] = level
  <2> DEFINE n == Len(look.levels)
  <2>1. n \in Nat /\ Len(levels) = n + 1
    BY <1>12
  <2>2. levels[n + 1] = level
    BY <1>12
  <2> HIDE DEF n, levels
  <2>3. ASSUME Len(levels) = 2 PROVE n = 1
    BY <2>1, <2>3
  <2>4. ASSUME n = 1 PROVE levels[2] = level
    BY <2>2, <2>4
  <2> QED
    BY <2>3, <2>4 DEF n
<1>14. Len(levels) = 2 => look.levels # <<>>
  BY <1>13
<1>15. Len(levels) <= 2
  BY <1>2, <1>12
<1>16. LookTypeOK'
  <2>1. <<>> \in Seq(Words)
    OBVIOUS
  <2> QED
    BY <1>4, <1>5, <1>12, <2>1 DEF LookTypeOK
<1> HIDE DEF levels
<1>17. Len(levels) = 2 => (levels[2] = 1 <=> p \in HeldPins)
  BY <1>2, <1>6, <1>13, <1>14
<1>18. ~ Borrowed' /\ PinsAtRest'
  BY <1>9, <1>11 DEF Borrowed, PinsAtRest, AsSetUp
<1>19. item <= Len(Order) + 1
  BY <1>2, OrderIs DEF StageTypeOK
<1>20. Probing'
  BY <1>1, <1>2, <1>7, <1>11, <1>15, <1>17, <1>18, <1>19 DEF Probing
<1> QED
  BY <1>1, <1>2, <1>10, <1>16, <1>18, <1>20 DEF PinsInv, AtBoard, AtI2c

\* Between two pins nothing is borrowed.
LEMMA BetweenPins ==
  ASSUME PinsInv, stage \in {"wires", "sweep"}, ~ Borrowed, pins' = pins, look' = NoLook,
         stage' \in {"wires", "sweep", "i2c1_init_again"}, item' \in Nat,
         stage' = "i2c1_init_again" => item' = 1,
         stage' \in {"wires", "sweep"} => item' <= Len(Order') + 1
  PROVE  PinsInv'
<1>1. pins \in [Pins -> PinStates] /\ \A pin \in Pins : pins[pin] = AsSetUp(pin)
  BY DEF PinsInv, PinsAtRest
<1>2. ~ Borrowed' /\ PinsAtRest'
  BY <1>1 DEF NoLook, Borrowed, PinsAtRest, AsSetUp
<1>3. LookTypeOK'
  BY DEF LookTypeOK, NoLook
<1>4. 1 <= 2 * Len(I2cPins)
  BY WiresInOrder
<1>5. Len(NoLook.levels) = 0
  BY DEF NoLook
<1>6. Probing'
  BY <1>2, <1>4, <1>5 DEF Probing
<1> QED
  BY <1>1, <1>2, <1>3, <1>6 DEF PinsInv, AtBoard, AtI2c

LEMMA JudgeKeeps ==
  ASSUME PinsInv, StageTypeOK, Judge PROVE PinsInv'
<1>1. /\ Len(look.levels) = 2 /\ look' = NoLook /\ pins' = pins
      /\ stage' = stage /\ item' = item + 1
  BY DEF Judge, Stay
<1>2. look # NoLook /\ ~ Borrowed
  <2>1. Len(NoLook.levels) = 0
    BY DEF NoLook
  <2>2. ~ (Len(look.levels) < 2)
    BY <1>1
  <2> QED
    BY <1>1, <2>1, <2>2 DEF PinsInv, Probing
<1>3. stage \in {"wires", "sweep"} /\ item <= Len(Order) /\ Order' = Order
  BY <1>1, <1>2 DEF PinsInv, Probing, Order
<1>4. item' \in Nat /\ item' <= Len(Order) + 1
  BY <1>1, <1>3, OrderIs DEF StageTypeOK
<1> QED
  BY <1>1, <1>2, <1>3, <1>4, BetweenPins

LEMMA SkipKeeps ==
  ASSUME PinsInv, StageTypeOK, Skip PROVE PinsInv'
<1>1. /\ stage = "sweep" /\ item <= Len(Order) /\ Probed \in Keep /\ pins' = pins
      /\ look' = look /\ stage' = stage /\ item' = item + 1
  BY DEF Skip, Reading, Stay
<1>2. look = NoLook
  BY <1>1 DEF PinsInv, Probing
<1>3. ~ Borrowed /\ Order' = Order
  BY <1>1, <1>2 DEF Borrowed, NoLook, Order
<1>4. item' \in Nat /\ item' <= Len(Order) + 1
  BY <1>1, OrderIs DEF StageTypeOK
<1> QED
  BY <1>1, <1>2, <1>3, <1>4, BetweenPins

LEMMA OrderDoneKeeps ==
  ASSUME PinsInv, StageTypeOK, OrderDone PROVE PinsInv'
<1>1. /\ stage \in {"wires", "sweep"} /\ item > Len(Order) /\ pins' = pins
      /\ look' = look /\ stage' \in {"sweep", "i2c1_init_again"} /\ item' = 1
  BY DEF OrderDone, Go
<1>2. look = NoLook
  <2>1. ~ (item <= Len(Order))
    BY <1>1, OrderIs DEF StageTypeOK
  <2> QED
    BY <2>1 DEF PinsInv, Probing
<1>3. ~ Borrowed
  BY <1>2 DEF Borrowed, NoLook
<1>4. stage' = "sweep" => item' <= Len(Order') + 1
  <2>1. stage' = "sweep" => Order' = SweepOrder
    BY DEF Order
  <2> QED
    BY <1>1, <2>1, SweepInOrder
<1> QED
  BY <1>1, <1>2, <1>3, <1>4, BetweenPins

-----------------------------------------------------------------------------
(***************************************************************************)
(* The report.                                                             *)
(***************************************************************************)
LEMMA HeldGrows ==
  ASSUME NEW n \in Nat, n + 1 <= Len(SweepOrder)
  PROVE  HeldSoFar(n + 1) =
           HeldSoFar(n) \cup (IF SweepOrder[n + 1] \in HeldPins \ Keep
                              THEN {<<"held", SweepOrder[n + 1]>>} ELSE {})
<1>1. 1 .. n + 1 = (1 .. n) \cup {n + 1}
  OBVIOUS
<1>2. {j \in 1 .. n + 1 : SweepOrder[j] \in HeldPins \ Keep} =
        {j \in 1 .. n : SweepOrder[j] \in HeldPins \ Keep} \cup
          (IF SweepOrder[n + 1] \in HeldPins \ Keep THEN {n + 1} ELSE {})
  BY <1>1
<1> QED
  BY <1>2 DEF HeldSoFar

LEMMA HeldNone == HeldSoFar(0) = {}
BY DEF HeldSoFar

LEMMA HeldLines ==
  ASSUME NEW n, NEW line \in HeldSoFar(n)
  PROVE  line[1] = "held"
BY DEF HeldSoFar

\* A step that says nothing new in a stage of its own.
LEMMA SaysNothing ==
  ASSUME Lines, stage \notin {"sweep", "i2c1_init_again"},
         stage' \notin {"sweep", "i2c1_init_again"}, parts' = parts, said' \subseteq said,
         unrest' = "none" => unrest = "none"
  PROVE  Lines'
BY DEF Lines

LEMMA OnBusLines ==
  ASSUME BusInv, ProgramInv, Lines, OnBus PROVE Lines'
<1>1. /\ stage \notin {"sweep", "i2c1_init_again"} /\ parts' = parts
      /\ stage' \notin {"sweep", "i2c1_init_again"} /\ (unrest' = "none" => unrest = "none")
  BY OnBusStages, OnBusKeeps DEF BusStages
<1>2. CASE said' \subseteq said
  BY <1>1, <1>2, SaysNothing
<1>3. CASE Scanned
  <2>1. CASE Ok
    <3>1. unrest = "none" => item \in DOMAIN parts
      <4>1. call.step = "returned" /\ stage = "scan"
        BY <1>3 DEF Scanned, Answered
      <4>2. call.to = item
        BY <4>1 DEF ProgramInv, Asked
      <4> QED
        BY <2>1, <4>1, <4>2 DEF BusInv, Going, Done, Moved, Ok
    <3>2. said' = said \cup {<<"scan", item>>}
      BY <1>3, <2>1 DEF Scanned, Say
    <3> QED
      BY <1>1, <3>1, <3>2 DEF Lines
  <2>2. CASE ~ Ok
    <3>1. said' = said
      BY <1>3, <2>2 DEF Scanned, Say
    <3> QED
      BY <1>1, <3>1, SaysNothing
  <2> QED
    BY <2>1, <2>2
<1>4. CASE DevidRead
  <2>1. \A line \in said' \ said : line[1] = "devid"
    BY <1>4 DEF DevidRead, Say
  <2> QED
    BY <1>1, <2>1 DEF Lines
<1>5. CASE Begun
  <2>1. \A line \in said' \ said : line[1] \in {"begin_buserr", "begin_wrong", "begin_ok"}
    BY <1>5 DEF Begun
  <2> QED
    BY <1>1, <2>1 DEF Lines
<1>6. CASE Ask \/ ScanDone \/ Sampled \/ Drained \/ Loop
  <2>1. said' \subseteq said
    BY <1>6 DEF Ask, program, ScanDone, Sampled, Drained, Loop
  <2> QED
    BY <1>2, <2>1
<1> QED
  BY <1>3, <1>4, <1>5, <1>6 DEF OnBus

LEMMA JudgeLines ==
  ASSUME StageTypeOK, PinsInv, Lines, Judge, UNCHANGED <<parts, unrest>>
  PROVE  Lines'
<1>1. /\ Len(look.levels) = 2 /\ stage' = stage /\ item' = item + 1
  BY DEF Judge, Stay
<1>2. /\ stage \in {"wires", "sweep"} /\ item <= Len(Order) /\ Probed \notin Keep
      /\ (Held <=> Probed \in HeldPins)
  <2>1. Len(NoLook.levels) = 0
    BY DEF NoLook
  <2>2. look # NoLook
    <3>1. Len(look.levels) # Len(NoLook.levels)
      BY <1>1, <2>1
    <3> QED
      BY <3>1
  <2> QED
    BY <1>1, <2>2 DEF PinsInv, Probing, Held
<1>3. CASE stage = "wires"
  <2>1. said' = said \cup {<<"wire", Probed, look.levels>>}
    BY <1>3 DEF Judge, Say
  <2> QED
    BY <1>1, <1>3, <2>1 DEF Lines
<1>4. CASE stage = "sweep"
  <2>1. said' = said \cup (IF Held THEN {<<"held", Probed>>} ELSE {})
    BY <1>4 DEF Judge, Say
  <2>2. Probed = SweepOrder[item]
    BY <1>4, OrderIs DEF Probed
  <2>3. PICK n \in Nat : item = n + 1 /\ n = item - 1
    BY DEF StageTypeOK
  <2>4. n + 1 <= Len(SweepOrder)
    BY <1>2, <1>4, <2>3, OrderIs
  <2>5. said = HeldSoFar(n)
    BY <1>4, <2>3 DEF Lines
  <2>6. said' = HeldSoFar(n + 1)
    BY <1>2, <2>1, <2>2, <2>3, <2>4, <2>5, HeldGrows
  <2>7. item' - 1 = n + 1
    BY <1>1, <2>3
  <2>8. \A line \in said' : line[1] = "held"
    BY <2>6, HeldLines
  <2> QED
    BY <1>1, <1>4, <2>6, <2>7, <2>8 DEF Lines
<1> QED
  BY <1>2, <1>3, <1>4

LEMMA SkipLines ==
  ASSUME StageTypeOK, Lines, Skip, UNCHANGED <<parts, unrest>>
  PROVE  Lines'
<1>1. /\ stage = "sweep" /\ item <= Len(Order) /\ Probed \in Keep /\ said' = said
      /\ stage' = stage /\ item' = item + 1
  BY DEF Skip, Reading, Stay
<1>2. PICK n \in Nat : item = n + 1 /\ n = item - 1
  BY DEF StageTypeOK
<1>3. SweepOrder[n + 1] \notin HeldPins \ Keep /\ n + 1 <= Len(SweepOrder)
  BY <1>1, <1>2, OrderIs DEF Probed
<1>4. said' = HeldSoFar(n + 1)
  BY <1>1, <1>2, <1>3, HeldGrows DEF Lines
<1>5. item' - 1 = n + 1
  BY <1>1, <1>2
<1>6. \A line \in said' : line[1] = "held"
  BY <1>4, HeldLines
<1> QED
  BY <1>1, <1>4, <1>5, <1>6 DEF Lines

LEMMA OrderDoneLines ==
  ASSUME StageTypeOK, PinsInv, Lines, OrderDone, UNCHANGED <<parts, unrest>>
  PROVE  Lines'
<1>1. CASE stage = "wires"
  <2>1. stage' = "sweep" /\ item' = 1 /\ said' = {}
    BY <1>1 DEF OrderDone, Go
  <2> QED
    BY <2>1, HeldNone DEF Lines
<1>2. CASE stage = "sweep"
  <2>1. /\ stage' = "i2c1_init_again" /\ item > Len(Order)
        /\ said' = said \cup {<<"held_end">>}
    BY <1>2 DEF OrderDone, Go, Say
  <2>2. item - 1 = Len(SweepOrder)
    <3>1. item <= Len(Order) + 1 /\ Order = SweepOrder
      BY <1>2, OrderIs DEF PinsInv, Probing
    <3> QED
      BY <2>1, <3>1, OrderIs DEF StageTypeOK
  <2>3. said = HeldSoFar(Len(SweepOrder))
    BY <1>2, <2>2 DEF Lines
  <2>4. \A line \in said' : line[1] \in {"held", "held_end"}
    BY <2>1, <2>3, HeldLines
  <2> QED
    BY <2>1, <2>3, <2>4 DEF Lines
<1> QED
  BY <1>1, <1>2 DEF OrderDone

LEMMA OnPinsLines ==
  ASSUME StageTypeOK, PinsInv, Lines, OnPins, UNCHANGED <<parts, unrest>>
  PROVE  Lines'
<1>1. CASE BoardInit
  <2>1. stage = "board_init" /\ said' = said /\ stage' \in {"board_init", "i2c1_init"}
    BY <1>1 DEF BoardInit, Stay, Go
  <2> QED
    BY <2>1, SaysNothing
<1>2. CASE I2cInit /\ stage = "i2c1_init"
  <2>1. stage' \in {"i2c1_init", "wires"} /\ said' \in {said, {}}
    BY <1>2 DEF I2cInit, Stay, Go
  <2> QED
    BY <1>2, <2>1, SaysNothing
<1>3. CASE I2cInit /\ stage = "i2c1_init_again"
  <2>1. \/ stage' = stage /\ said' = said
        \/ stage' = "scan" /\ said' = {}
    BY <1>3 DEF I2cInit, Stay, Go
  <2> QED
    BY <1>3, <2>1 DEF Lines
<1>4. CASE Drive \/ Look
  <2>1. stage' = stage /\ item' = item /\ said' = said
    BY <1>4 DEF Drive, Look
  <2> QED
    BY <2>1 DEF Lines, HeldSoFar
<1> QED
  BY <1>1, <1>2, <1>3, <1>4, JudgeLines, SkipLines, OrderDoneLines DEF OnPins, I2cInit

(***************************************************************************)
(* The whole.                                                              *)
(***************************************************************************)
LEMMA OnPinsKeeps ==
  ASSUME Inv, OnPins, UNCHANGED bus PROVE Inv'
<1>1. UNCHANGED <<parts, call, peripheral, chip, history>> /\ unrest' = unrest
  BY DEF bus, driver, history
<1>2. BusInv'
  BY <1>1, BusUndisturbed DEF Inv
<1>3. /\ brought_up' = brought_up /\ stage \in PinStages
      /\ stage' \in PinStages \cup {"scan"} /\ item' \in Nat \ {0}
  <2>1. StageTypeOK
    BY DEF Inv, ProgramInv
  <2>2. look.was # <<>> \/ Len(look.levels) = 2 => stage \in {"wires", "sweep"}
    <3>1. Len(NoLook.levels) = 0 /\ NoLook.was = <<>>
      BY DEF NoLook
    <3>2. look.was # <<>> \/ Len(look.levels) = 2 => look # NoLook
      BY <3>1
    <3> QED
      BY <3>2 DEF Inv, PinsInv, Probing
  <2>3. item + 1 \in Nat \ {0} /\ 1 \in Nat \ {0}
    BY <2>1 DEF StageTypeOK
  <2>4. CASE BoardInit \/ I2cInit
    BY <2>1, <2>3, <2>4 DEF BoardInit, I2cInit, Stay, Go, PinStages, StageTypeOK
  <2>5. CASE Drive \/ Look
    BY <2>1, <2>2, <2>5 DEF Drive, Look, Reading, PinStages, StageTypeOK
  <2>6. CASE Judge \/ Skip \/ OrderDone
    BY <2>1, <2>2, <2>3, <2>6
    DEF Judge, Skip, OrderDone, Reading, Stay, Go, PinStages, StageTypeOK
  <2> QED
    BY <2>4, <2>5, <2>6 DEF OnPins
<1>4. ProgramInv'
  <2>1. call.step = "none"
    BY <1>3 DEF Inv, ProgramInv, Asked
  <2>2. ~ Beginning'
    BY <1>3 DEF Beginning, PinStages
  <2>3. StageTypeOK' /\ Asked'
    BY <1>1, <1>3, <2>1, <2>2 DEF Inv, ProgramInv, StageTypeOK, Asked, BusStages
  <2>4. unrest = "none" => BegunSoFar'
    BY <1>1, <1>3, <2>2 DEF Inv, ProgramInv, BegunSoFar
  <2> QED
    BY <1>1, <2>3, <2>4 DEF ProgramInv
<1>5. PinsInv'
  <2>1. PinsInv /\ StageTypeOK
    BY DEF Inv, ProgramInv
  <2>2. CASE I2cInit
    <3>1. stage \in {"i2c1_init", "i2c1_init_again"}
      BY <2>2 DEF I2cInit
    <3> QED
      BY <2>1, <2>2, <3>1, FirstI2cInitKeeps, SecondI2cInitKeeps
  <2> QED
    BY <2>1, <2>2, BoardInitKeeps, DriveKeeps, LookKeeps, JudgeKeeps, SkipKeeps,
       OrderDoneKeeps
    DEF OnPins
<1>6. Lines'
  BY <1>1, OnPinsLines DEF Inv, ProgramInv
<1> QED
  BY <1>2, <1>4, <1>5, <1>6 DEF Inv

\* On the bus, and after it, every pin is as it was set up.
LEMMA PinsQuiet ==
  ASSUME PinsInv, UNCHANGED <<pins, look>>,
         \/ stage \in BusStages /\ stage' \in BusStages
         \/ UNCHANGED <<stage, item>>
  PROVE  PinsInv'
<1>1. CASE UNCHANGED <<stage, item>>
  <2>1. Order' = Order /\ Probed' = Probed
    BY <1>1, SameProbe
  <2>2. LookTypeOK' /\ AtBoard' /\ AtI2c' /\ PinsAtRest'
    BY <1>1, <2>1 DEF PinsInv, LookTypeOK, AtBoard, AtI2c, PinsAtRest, Borrowed, AsSetUp
  <2>3. Probing'
    BY <1>1, <2>1 DEF PinsInv, Probing, Borrowed, AsSetUp
  <2> QED
    BY <2>2, <2>3 DEF PinsInv
<1>2. CASE stage \in BusStages /\ stage' \in BusStages
  <2>1. look = NoLook /\ ~ Borrowed
    BY <1>2, NothingBorrowed DEF BusStages
  <2>2. look' = NoLook /\ ~ Borrowed' /\ Len(NoLook.levels) = 0
    BY <2>1 DEF Borrowed, NoLook
  <2>3. \A pin \in Pins : pins[pin] = AsSetUp(pin)
    BY <1>2, <2>1 DEF PinsInv, PinsAtRest, BusStages
  <2>4. AtBoard' /\ AtI2c' /\ PinsAtRest'
    BY <1>2, <2>3 DEF AtBoard, AtI2c, PinsAtRest, BusStages, AsSetUp
  <2>5. LookTypeOK' /\ Probing'
    BY <1>2, <2>2 DEF PinsInv, LookTypeOK, Probing, BusStages
  <2> QED
    BY <2>4, <2>5 DEF PinsInv
<1> QED
  BY <1>1, <1>2

LEMMA InitHolds ==
  ASSUME Init PROVE Inv
<1>1. /\ parts \in Wirings /\ call = Idle /\ waited = 0
      /\ isr = {} /\ wire = "idle" /\ queued = <<>> /\ txdr = <<>> /\ rxdr = "data"
      /\ cr2 = NoTransfer /\ moved = 0 /\ unrest = "none"
      /\ chip = [address \in DOMAIN parts |-> [pointer |-> "DEVID", written |-> {}]]
  BY DEF Init, InitBus
<1>2. /\ stage = "board_init" /\ item = 1 /\ look = NoLook /\ said = {}
      /\ brought_up = FALSE /\ pins = [pin \in Pins |-> Fresh]
  BY DEF Init, Fresh
<1>3. CallTypeOK
  <2>1. <<>> \in Seq(Readings) /\ <<>> \in Seq(Bytes)
    OBVIOUS
  <2> QED
    BY <1>1, <2>1 DEF CallTypeOK, Calls, Idle, Steps, Statuses
<1>4. WiresTypeOK
  <2>1. chip \in [DOMAIN parts -> [pointer : Bytes, written : SUBSET Bytes]]
    BY <1>1 DEF Registers, Bytes
  <2>2. <<>> \in Seq(Transfers) /\ <<>> \in Seq(Bytes)
    OBVIOUS
  <2> QED
    BY <1>1, <2>1, <2>2 DEF WiresTypeOK, Wires, Readings, NoTransfer, Transfer, Transfers
<1>5. call.step = "none"
  BY <1>1 DEF Idle
<1>6. BusTypeOK
  BY <1>1, <1>3, <1>4, <1>5 DEF BusTypeOK, CallShape, Position
<1>7. Going /\ Clean
  <2>1. Going
    BY <1>1, <1>5 DEF Going, WriteHalf, ReadHalf, Done, Moved
  <2>2. Asking /\ Given /\ Stored
    BY <1>1, <1>5 DEF Asking, Given, Moving, Stored
  <2>3. SetUpInOrder
    BY <1>1 DEF SetUpInOrder
  <2> QED
    BY <2>1, <2>2, <2>3 DEF Clean
<1>8. ProgramInv
  <2>1. StageTypeOK /\ Asked
    <3>1. brought_up \in BOOLEAN /\ stage \in PinStages
      BY <1>2 DEF PinStages
    <3>2. item \in Nat \ {0}
      BY <1>2
    <3> QED
      BY <1>2, <1>5, <3>1, <3>2 DEF StageTypeOK, Asked, Beginning
  <2>2. BegunSoFar
    BY <1>2 DEF BegunSoFar, Beginning
  <2> QED
    BY <2>1, <2>2 DEF ProgramInv
<1>9. PinsInv
  <2>1. pins \in [Pins -> PinStates] /\ LookTypeOK /\ ~ Borrowed
    BY <1>2 DEF Fresh, PinStates, LookTypeOK, NoLook, Borrowed
  <2>2. AtBoard /\ AtI2c /\ PinsAtRest
    BY <1>2 DEF AtBoard, AtI2c, PinsAtRest
  <2>3. Probing
    BY <1>2, <2>1 DEF Probing, NoLook
  <2> QED
    BY <2>1, <2>2, <2>3 DEF PinsInv
<1>10. Lines
  BY <1>2 DEF Lines
<1> QED
  BY <1>6, <1>7, <1>8, <1>9, <1>10 DEF Inv, BusInv

LEMMA NextKeeps ==
  ASSUME Inv, [Next]_vars PROVE Inv'
<1>1. CASE OnPins /\ UNCHANGED bus
  BY <1>1, OnPinsKeeps
<1>2. CASE OnBus
  <2>1. BusInv' /\ ProgramInv' /\ UNCHANGED <<parts, pins, look>>
    BY <1>2, OnBusKeeps DEF Inv
  <2>2. PinsInv'
    BY <1>2, <2>1, OnBusStages, PinsQuiet DEF Inv
  <2>3. Lines'
    BY <1>2, OnBusLines DEF Inv
  <2> QED
    BY <2>1, <2>2, <2>3 DEF Inv
<1>3. CASE UNCHANGED program /\ (BusStep \/ UNCHANGED bus)
  <2>1. UNCHANGED <<pins, stage, item, look, said, brought_up>>
    BY <1>3 DEF program
  <2>2. BusInv' /\ ProgramInv' /\ parts' = parts /\ unrest' = unrest
    <3>1. CASE BusStep
      BY <1>3, <3>1, BusStepKeeps, BusStepProgram, BusStepFrame DEF Inv, BusInv
    <3>2. CASE UNCHANGED bus
      <4>1. UNCHANGED <<parts, call, peripheral, chip, history>> /\ unrest' = unrest
        BY <3>2 DEF bus, driver, history
      <4>2. ProgramInv'
        BY <2>1, <4>1
        DEF Inv, ProgramInv, StageTypeOK, Asked, BegunSoFar, Beginning
      <4> QED
        BY <4>1, <4>2, BusUndisturbed DEF Inv
    <3> QED
      BY <1>3, <3>1, <3>2
  <2>3. PinsInv'
    BY <2>1, PinsQuiet DEF Inv
  <2>4. Lines'
    BY <2>1, <2>2 DEF Inv, Lines, HeldSoFar
  <2> QED
    BY <2>2, <2>3, <2>4 DEF Inv
<1> QED
  BY <1>1, <1>2, <1>3 DEF Next, vars

LEMMA InvHolds == Spec => []Inv
BY InitHolds, NextKeeps, PTL DEF Spec

LEMMA SetUpDrives ==
  ASSUME NEW pin \in Pins, AsSetUp(pin).mode = "alternate"
  PROVE  AsSetUp(pin).af = Function(pin)
BY DEF AsSetUp, Function

LEMMA PinsDrive ==
  ASSUME PinsInv, StageTypeOK PROVE PinDrivesItsFunction
<1> SUFFICES ASSUME NEW pin \in Pins, pins[pin].mode = "alternate"
             PROVE  pins[pin].af = Function(pin)
  BY DEF PinDrivesItsFunction
<1>1. CASE pins[pin] = AsSetUp(pin)
  BY <1>1, SetUpDrives
<1>2. CASE stage = "board_init"
  <2>1. pins[pin] \in {Fresh, [Fresh EXCEPT !.af = "AF7"], AsSetUp(pin)}
    BY <1>2 DEF PinsInv, AtBoard
  <2>2. Fresh.mode # "alternate" /\ [Fresh EXCEPT !.af = "AF7"].mode # "alternate"
    BY DEF Fresh
  <2> QED
    BY <1>1, <2>1, <2>2
<1>3. CASE stage = "i2c1_init"
  <2>1. CASE pin \notin Range(I2cPins)
    BY <1>1, <1>3, <2>1 DEF PinsInv, AtI2c
  <2>2. CASE pin \in Range(I2cPins)
    <3>1. PICK k \in 1 .. Len(I2cPins) : pin = I2cPins[k]
      BY <2>2, WiresInOrder
    <3>2. pins[pin] \in {Fresh, [Fresh EXCEPT !.af = "AF4", !.pull = "up"], AsSetUp(pin)}
      BY <1>3, <3>1 DEF PinsInv, AtI2c
    <3>3. /\ Fresh.mode # "alternate"
          /\ [Fresh EXCEPT !.af = "AF4", !.pull = "up"].mode # "alternate"
      BY DEF Fresh
    <3> QED
      BY <1>1, <3>2, <3>3
  <2> QED
    BY <2>1, <2>2
<1>4. CASE stage \notin {"board_init", "i2c1_init"} /\ pins[pin] # AsSetUp(pin)
  <2>1. Borrowed /\ pin = Probed
    BY <1>4 DEF PinsInv, PinsAtRest
  <2>2. pins[pin] = [AsSetUp(pin) EXCEPT !.mode = "input", !.pull = look.pull]
    BY <2>1 DEF PinsInv, Probing
  <2>3. pins[pin].mode = "input"
    BY <2>2 DEF AsSetUp
  <2> QED
    BY <2>3
<1> QED
  BY <1>1, <1>2, <1>3, <1>4

\* At any moment no pin drives a wire with a function that is not its own, and
\* outside the set up only the pin being read differs from how the drivers left
\* it, whatever the pins, whichever of them something holds up, and however the
\* readings come out (board_init(), i2c1_init(), read_pin() of bringup.c).
THEOREM PinsStayInTheirJobs == Spec => []PinsKeepTheirJobs
<1>1. ASSUME Inv PROVE PinsKeepTheirJobs
  <2>1. PinDrivesItsFunction
    BY <1>1, PinsDrive DEF Inv, ProgramInv
  <2>2. PinsLeftAsFound
    <3> SUFFICES ASSUME stage \notin {"board_init", "i2c1_init"},
                        NEW pin \in Pins, pins[pin] # AsSetUp(pin)
                 PROVE  /\ stage \in {"wires", "sweep"} /\ look.was # <<>>
                        /\ pin = Probed /\ pin \notin Keep
      BY DEF PinsLeftAsFound
    <3>1. Borrowed /\ pin = Probed
      BY <1>1 DEF Inv, PinsInv, PinsAtRest
    <3>2. look # NoLook
      BY <3>1 DEF Borrowed, NoLook
    <3> QED
      BY <1>1, <3>1, <3>2 DEF Inv, PinsInv, Probing, Borrowed
  <2> QED
    BY <2>1, <2>2 DEF PinsKeepTheirJobs
<1> QED
  BY <1>1, InvHolds, PTL

\* The sweep names the pins something outside holds up, all of them and no other,
\* on every board and whatever the bus goes through; and the scan no address where
\* nothing is wired, whatever its calls met, as long as each of them found the bus
\* at rest (wire_probe_sweep(), scan_the_bus()).
THEOREM ReportStaysTrue == Spec => []ReportIsTrue
<1>1. ASSUME Inv PROVE SweepIsTrue
  <2> SUFFICES ASSUME <<"held_end">> \in said
               PROVE  {pin \in Pins : <<"held", pin>> \in said} = HeldPins \ Keep
    BY DEF SweepIsTrue
  <2>1. stage = "i2c1_init_again"
    BY <1>1 DEF Inv, Lines
  <2>2. said = HeldSoFar(Len(SweepOrder)) \cup {<<"held_end">>}
    BY <1>1, <2>1 DEF Inv, Lines
  <2>3. \A pin : <<"held", pin>> \in said <=>
           \E k \in 1 .. Len(SweepOrder) : pin = SweepOrder[k] /\ pin \in HeldPins \ Keep
    BY <2>2 DEF HeldSoFar
  <2>4. HeldPins \subseteq Pins
    BY BringUpAssumption
  <2> QED
    BY <2>3, <2>4, SweepInOrder
<1>2. ASSUME Inv PROVE unrest = "none" => ScanIsTrue
  BY <1>2 DEF Inv, Lines, ScanIsTrue
<1> QED
  BY <1>1, <1>2, InvHolds, PTL DEF ReportIsTrue

\* As long as every call found the bus at rest, no part that is not an ADXL345 has
\* a register written, and one that measures has every setting in place, however
\* often adxl345_begin() fails half way, with whatever errors, for the report and
\* for the main loop after it.
THEOREM SensorIsSetUpSafely == Spec => []SensorSetUpSafely
<1>1. ASSUME Inv PROVE SensorSetUpSafely
  <2> SUFFICES ASSUME unrest = "none" PROVE OnlyAdxlConfigured /\ MeasuresConfigured
    BY DEF SensorSetUpSafely
  <2>1. SetUpInOrder /\ BegunSoFar
    BY <1>1 DEF Inv, BusInv, Clean, ProgramInv
  <2> QED
    BY <2>1 DEF SetUpInOrder, SetUpBut, BegunSoFar, OnlyAdxlConfigured, MeasuresConfigured
<1> QED
  BY <1>1, InvHolds, PTL

\* A call that found the bus at rest and returns I2C_OK moved its address and every
\* byte, what it read is what that register holds, and it leaves the bus at rest,
\* whatever the errors, refusals, timeouts and forced stops of the calls before it
\* and whatever happened on the wires meanwhile (i2c1_write(),
\* i2c1_write_then_read()).
THEOREM OkMeansAllMoved == Spec => []OkMeansMoved
<1>1. ASSUME Inv PROVE OkMeansMoved
  BY <1>1 DEF Inv, BusInv, Going, Done, OkMeansMoved
<1> QED
  BY <1>1, InvHolds, PTL
==============================================================================
