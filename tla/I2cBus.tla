--------------------------------- MODULE I2cBus ---------------------------------
(***************************************************************************)
(* The I2C driver (i2c.c): one call at a time on the processor, the         *)
(* peripheral that moves the bytes beside it, and the parts on the wires.   *)
(* The processor only ever reads the status register and writes the         *)
(* control, clear and data registers; the peripheral raises flags whenever  *)
(* the wires get there, and the lines may be held by somebody meanwhile.    *)
(*                                                                         *)
(* A call that gives up on the wires leaves them where they are.  A start   *)
(* given before they are free waits for them, or is lost with everything    *)
(* after it: what the peripheral makes of it is not known.  Bytes and the   *)
(* flags TXIS and RXNE stand until the processor writes or reads the data   *)
(* register, whatever becomes of their transfer.                            *)
(***************************************************************************)
EXTENDS Integers, Sequences

CONSTANTS
  Wirings,          \* what may be wired to the bus: address -> "adxl345" or "other"
  I2C1_TIMEOUT_MS,
  Jams,             \* whether somebody holds the lines for a while
  BusErrors         \* whether a transfer loses arbitration or meets a stray stop

ASSUME BusAssumption == I2C1_TIMEOUT_MS \in Nat /\ {Jams, BusErrors} \subseteq BOOLEAN

VARIABLES
  parts,     \* the wiring
  call,      \* the driver's call and where it stands
  waited,    \* milliseconds since this wait_for() began
  isr,       \* the flags standing in the status register
  cr2,       \* the transfer under way
  queued,    \* the one asked for while another was
  wire,      \* what the peripheral is doing on the lines
  txdr,      \* the bytes given and not yet acknowledged: one shifting, one waiting
  rxdr,      \* the byte last received
  jammed,
  chip,      \* each part's register pointer and the registers written since power-up
  moved,     \* history: addresses and bytes acknowledged in this call
  unrest     \* history: whether this call, or one before, met a bus not at rest

driver == <<call, waited>>
peripheral == <<isr, cr2, queued, wire, txdr, rxdr>>
history == <<moved, unrest>>
bus == <<parts, driver, peripheral, jammed, chip, history>>

Registers == {"DEVID", "BW_RATE", "DATA_FORMAT", "FIFO_CTL", "POWER_CTL",
              "FIFO_STATUS", "DATAX0"}

Settings == {"BW_RATE", "DATA_FORMAT", "FIFO_CTL", "POWER_CTL"}

\* What a byte sent to a part can change.  Nothing is known of a foreign part.
Writable(part) == IF part = "adxl345" THEN Settings ELSE Registers \cup {"value"}

\* What a part answers when that register of it is read.
Holds(part, register) == IF register = "DEVID" THEN part ELSE "data"

Idle == [to |-> 0, tx |-> <<>>, rx |-> 0, sent |-> 0, got |-> <<>>,
         step |-> "none", status |-> "I2C_OK"]

\* What begin_transfer() writes to CR2, whether force_stop() added a stop, and
\* whether the part has been named a register.
Transfer(to, count, read, auto_end) ==
  [to |-> to, left |-> count, read |-> read, auto_end |-> auto_end,
   stop |-> FALSE, named |-> FALSE]

NoTransfer == Transfer(0, 0, FALSE, TRUE)

\* Nothing is on the wires, or the driver holds them for a repeated start.
Free == queued = <<>> /\ (wire = "idle" \/ (wire = "held" /\ ~cr2.stop))
Start(transfer) == wire' = "address" /\ cr2' = transfer

\* No transfer is under way or waiting, and none left a byte or asks for one.
AtRest ==
  /\ wire = "idle" /\ queued = <<>> /\ txdr = <<>>
  /\ "TXIS" \notin isr /\ "RXNE" \notin isr

\* Slips of the kind a change to this code could make stand before the
\* definition they are a slip of; none is used in the model.
BeginTransferAsFound(to, count, read, auto_end) ==
  /\ isr' = isr \ {"TC"}
  /\ IF Free THEN Start(Transfer(to, count, read, auto_end)) /\ UNCHANGED queued
     ELSE /\ queued' = <<Transfer(to, count, read, auto_end)>>
          /\ UNCHANGED <<wire, cr2>>

\* begin_transfer(): clear the errors and the stop that may still stand, then ask
\* for the transfer.  The start itself takes TC away.
BeginTransfer(to, count, read, auto_end) ==
  /\ isr' = isr \ {"NACKF", "STOPF", "ERROR", "TC"}
  /\ IF Free THEN Start(Transfer(to, count, read, auto_end)) /\ UNCHANGED queued
     ELSE /\ queued' = <<Transfer(to, count, read, auto_end)>>
          /\ UNCHANGED <<wire, cr2>>

-----------------------------------------------------------------------------
\* The driver.  The flag each step of a call waits for.
Awaited == [send |-> "TXIS", tc |-> "TC", take |-> "RXNE",
            stop |-> "STOPF", force |-> "STOPF"]
Waiting == call.step \in DOMAIN Awaited

\* One turn of wait_for().
Outcome ==
  IF "NACKF" \in isr THEN "I2C_NACK"
  ELSE IF "ERROR" \in isr THEN "I2C_BUS_ERROR"
  ELSE IF Awaited[call.step] \in isr THEN "I2C_OK"
  ELSE IF waited >= I2C1_TIMEOUT_MS THEN "I2C_TIMEOUT" ELSE "waiting"

\* The error flags wait_for() clears when they end it.
Seen == IF Outcome = "I2C_NACK" THEN {"NACKF"}
        ELSE IF Outcome = "I2C_BUS_ERROR" THEN {"ERROR"} ELSE {}

\* What i2c1_write() and i2c1_write_then_read() do once n bytes are sent.
After(tx, rx, n) == IF n < Len(tx) THEN "send" ELSE IF rx > 0 THEN "tc" ELSE "stop"

\* i2c1_write() when rx is 0, i2c1_write_then_read() when it is not.
Call(to, tx, rx) ==
  /\ call.step = "none"
  /\ BeginTransfer(to, Len(tx), FALSE, rx = 0)
  /\ call' = [Idle EXCEPT !.to = to, !.tx = tx, !.rx = rx, !.step = After(tx, rx, 0)]
  /\ waited' = 0 /\ moved' = 0
  /\ unrest' = IF ~AtRest THEN "now" ELSE IF unrest = "none" THEN "none" ELSE "before"
  /\ UNCHANGED <<parts, txdr, rxdr, jammed, chip>>

SendByte ==
  /\ call.step = "send" /\ Outcome = "I2C_OK"
  /\ call' = [call EXCEPT !.sent = @ + 1, !.step = After(call.tx, call.rx, call.sent + 1)]
  /\ isr' = isr \ {"TXIS"} /\ txdr' = Append(txdr, call.tx[call.sent + 1])
  /\ waited' = 0
  /\ UNCHANGED <<parts, cr2, queued, wire, rxdr, jammed, chip, history>>

\* The write half is done and the bus is held: a repeated start.
Turn ==
  /\ call.step = "tc" /\ Outcome = "I2C_OK"
  /\ BeginTransfer(call.to, call.rx, TRUE, TRUE)
  /\ call' = [call EXCEPT !.step = "take"] /\ waited' = 0
  /\ UNCHANGED <<parts, txdr, rxdr, jammed, chip, history>>

TakeByte ==
  /\ call.step = "take" /\ Outcome = "I2C_OK"
  /\ call' = [call EXCEPT !.got = Append(@, rxdr),
                          !.step = IF Len(call.got) + 1 = call.rx THEN "stop" ELSE "take"]
  /\ isr' = isr \ {"RXNE"} /\ waited' = 0
  /\ UNCHANGED <<parts, cr2, queued, wire, txdr, rxdr, jammed, chip, history>>

\* The last wait of a call that went well so far.
SeeStop ==
  /\ call.step = "stop" /\ Outcome # "waiting"
  /\ call' = [call EXCEPT !.status = Outcome, !.step = "returned"]
  /\ isr' = isr \ (Seen \cup {"STOPF"}) /\ waited' = 0
  /\ UNCHANGED <<parts, cr2, queued, wire, txdr, rxdr, jammed, chip, history>>

\* A wait that ended badly: force_stop() asks for a stop and waits for it.
GiveUp ==
  /\ call.step \in {"send", "tc", "take"} /\ Outcome \notin {"waiting", "I2C_OK"}
  /\ call' = [call EXCEPT !.status = Outcome, !.step = "force"]
  /\ isr' = isr \ Seen /\ waited' = 0
  /\ cr2' = IF wire \in {"idle", "lost"} THEN cr2 ELSE [cr2 EXCEPT !.stop = TRUE]
  /\ UNCHANGED <<parts, queued, wire, txdr, rxdr, jammed, chip, history>>

ForceStop ==
  /\ call.step = "force" /\ Outcome # "waiting"
  /\ call' = [call EXCEPT !.step = "returned"]
  /\ isr' = isr \ (Seen \cup {"STOPF"}) /\ waited' = 0
  /\ UNCHANGED <<parts, cr2, queued, wire, txdr, rxdr, jammed, chip, history>>

Driver == Waiting /\ (SendByte \/ Turn \/ TakeByte \/ SeeStop \/ GiveUp \/ ForceStop)

-----------------------------------------------------------------------------
\* The peripheral and the parts.
Raise(flag) == isr' = isr \cup {flag}
Listening == cr2.to \in DOMAIN parts

\* The start that had to wait is put on the wires, or nothing ever is.
StartQueued ==
  /\ queued # <<>> /\ wire \in {"idle", "held"}
  /\ queued' = <<>> /\ isr' = isr \ {"TC"}
  /\ Start(Head(queued)) \/ (wire' = "lost" /\ cr2' = NoTransfer)
  /\ UNCHANGED <<parts, driver, txdr, rxdr, jammed, chip, history>>

Address ==
  /\ wire = "address"
  /\ \/ Listening /\ wire' = "data" /\ moved' = moved + 1 /\ UNCHANGED isr
     \/ ~Listening /\ wire' = "stopping" /\ Raise("NACKF") /\ UNCHANGED moved
  /\ UNCHANGED <<parts, driver, cr2, queued, txdr, rxdr, jammed, chip, unrest>>

Shifting == IF wire = "shipping" THEN 1 ELSE 0

\* The data register is empty and there are bytes to move: another, please.
AskByte ==
  /\ wire \in {"data", "shipping"} /\ ~cr2.read /\ "TXIS" \notin isr
  /\ Len(txdr) = Shifting /\ Len(txdr) < cr2.left /\ Raise("TXIS")
  /\ UNCHANGED <<parts, driver, cr2, queued, wire, txdr, rxdr, jammed, chip, history>>

Shift ==
  /\ wire = "data" /\ ~cr2.read /\ cr2.left > 0 /\ txdr # <<>> /\ wire' = "shipping"
  /\ UNCHANGED <<parts, driver, isr, cr2, queued, txdr, rxdr, jammed, chip, history>>

\* The part takes the byte: a register's name first, then what to put there.
ShipByte ==
  /\ wire = "shipping" /\ wire' = "data" /\ txdr' = Tail(txdr)
  /\ chip' = IF ~cr2.named THEN [chip EXCEPT ![cr2.to].pointer = Head(txdr)]
             ELSE [chip EXCEPT ![cr2.to].written =
                     @ \cup ({chip[cr2.to].pointer} \cap Writable(parts[cr2.to]))]
  /\ cr2' = [cr2 EXCEPT !.left = @ - 1, !.named = TRUE] /\ moved' = moved + 1
  /\ UNCHANGED <<parts, driver, isr, queued, rxdr, jammed, unrest>>

\* What is left in the data register when a transfer is cut short.
Unsent == IF wire = "shipping" THEN Tail(txdr) ELSE txdr

\* A part that is no ADXL345 may refuse a byte.
RefuseByte ==
  /\ wire = "shipping" /\ parts[cr2.to] = "other"
  /\ wire' = "stopping" /\ txdr' = Unsent /\ Raise("NACKF")
  /\ UNCHANGED <<parts, driver, cr2, queued, rxdr, jammed, chip, history>>

ReceiveByte ==
  /\ wire = "data" /\ cr2.read /\ cr2.left > 0 /\ "RXNE" \notin isr
  /\ rxdr' = Holds(parts[cr2.to], chip[cr2.to].pointer) /\ Raise("RXNE")
  /\ cr2' = [cr2 EXCEPT !.left = @ - 1] /\ moved' = moved + 1
  /\ UNCHANGED <<parts, driver, queued, wire, txdr, jammed, chip, unrest>>

Finish ==
  /\ wire = "data" /\ cr2.left = 0
  /\ \/ cr2.auto_end /\ wire' = "stopping" /\ UNCHANGED isr
     \/ ~cr2.auto_end /\ wire' = "held" /\ Raise("TC")
  /\ UNCHANGED <<parts, driver, cr2, queued, txdr, rxdr, jammed, chip, history>>

\* The driver asked for a stop while the transfer was still under way.
StopAsked ==
  /\ cr2.stop /\ wire \in {"address", "data", "shipping", "held"}
  /\ wire' = "stopping" /\ txdr' = Unsent
  /\ UNCHANGED <<parts, driver, isr, cr2, queued, rxdr, jammed, chip, history>>

\* The transfer is over with this flag.  A byte received is still there to be
\* read, and so is the flag that asked for one.
Over(flag) ==
  /\ wire' = "idle" /\ cr2' = NoTransfer
  /\ isr' = (isr \ {"TC"}) \cup {flag}

Stop ==
  /\ wire = "stopping" /\ Over("STOPF")
  /\ UNCHANGED <<parts, driver, queued, txdr, rxdr, jammed, chip, history>>

Peripheral ==
  /\ ~jammed
  /\ \/ StartQueued \/ Address \/ AskByte \/ Shift \/ ShipByte \/ RefuseByte
     \/ ReceiveByte \/ Finish \/ StopAsked \/ Stop

\* Arbitration is lost or a stray start or stop is seen.
BusError ==
  /\ BusErrors /\ ~jammed /\ wire \in {"address", "data", "shipping", "held"}
  /\ Over("ERROR") /\ txdr' = Unsent
  /\ UNCHANGED <<parts, driver, queued, rxdr, jammed, chip, history>>

\* Somebody holds the clock line, and lets it go.  On a bus with nothing on it
\* that shows only once the next start is due.
Jam ==
  /\ Jams /\ (wire \notin {"idle", "lost"} \/ queued # <<>> \/ jammed)
  /\ jammed' = ~jammed
  /\ UNCHANGED <<parts, driver, peripheral, chip, history>>

\* The wires are far quicker than a millisecond when nobody holds them, so while
\* one passes they stand still or wait for a byte.
Quiet ==
  \/ jammed \/ wire = "lost"
  \/ wire = "idle" /\ queued = <<>>
  \/ wire = "held" /\ queued = <<>> /\ ~cr2.stop
  \/ /\ wire = "data" /\ cr2.left > 0 /\ ~cr2.stop
     /\ IF cr2.read THEN "RXNE" \in isr ELSE "TXIS" \in isr /\ txdr = <<>>

\* The start of the wait is read again on every turn.
ElapseSinceLastTurn ==
  /\ Waiting /\ Outcome = "waiting" /\ Quiet /\ waited' = 0
  /\ UNCHANGED <<parts, call, peripheral, jammed, chip, history>>

\* A millisecond passes: the processor polls and the wires do nothing meanwhile.
Elapse ==
  /\ Waiting /\ Outcome = "waiting" /\ waited < I2C1_TIMEOUT_MS /\ Quiet
  /\ waited' = waited + 1
  /\ UNCHANGED <<parts, call, peripheral, jammed, chip, history>>

\* Between two calls the processor is slower than a stop on free lines, one that
\* the last wait of a call was not there to see (i2c.c:152-157).
Settled == wire = "stopping" /\ ~cr2.stop /\ ~jammed => call.status = "I2C_TIMEOUT"

InitBus ==
  /\ parts \in Wirings /\ call = Idle /\ waited = 0
  /\ isr = {} /\ wire = "idle" /\ queued = <<>> /\ txdr = <<>> /\ rxdr = "data"
  /\ cr2 = NoTransfer
  /\ jammed = FALSE /\ moved = 0 /\ unrest = "none"
  /\ chip = [address \in DOMAIN parts |-> [pointer |-> "DEVID", written |-> {}]]

BusStep == Driver \/ Peripheral \/ BusError \/ Jam \/ Elapse
-----------------------------------------------------------------------------
\* I2C_OK is "every byte moved and a stop was seen" (i2c.h:38), between this call
\* and this address: the part acknowledged its address and every byte, what was
\* read is what that register holds, and the next call finds a bus at rest.
Moved ==
  call.step = "returned" /\ call.status = "I2C_OK" =>
    /\ call.to \in DOMAIN parts /\ AtRest
    /\ moved = 1 + Len(call.tx) + (IF call.rx > 0 THEN 1 + call.rx ELSE 0)
    /\ \A k \in DOMAIN call.got :
         call.got[k] = Holds(parts[call.to], call.tx[1])

\* It holds of every call that began on a bus at rest, whatever errors and stops
\* the calls before it left in the status register.
OkMeansMoved == unrest # "now" => Moved

\* Not so of one that begins while a transfer that an earlier call gave up on is
\* still on the wires: its stop, seen late, is taken for this call's own.
EveryOkMeansMoved == Moved

\* "Every call has a timeout and none of them can spin forever" (i2c.h:15),
\* whatever is wired and however long somebody holds the lines.
CallsReturn == Waiting ~> call.step = "returned"
=============================================================================
