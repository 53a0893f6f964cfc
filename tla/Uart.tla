---------------------------------- MODULE Uart ----------------------------------
(***************************************************************************)
(* The UART driver (uart.c): the receive interrupt that fills the queue of  *)
(* ByteRing and clears its own causes, the main loop that empties the queue *)
(* when it is not sending, and the two ways to send, against a transmitter  *)
(* that shifts one byte out while the next one waits and that may stop.     *)
(*                                                                         *)
(* A byte sent is its place in the call that sends it.  Waits are counted   *)
(* in turns of wait_for_flag(); a working transmitter needs at most         *)
(* ByteTurns of them for a byte.                                            *)
(***************************************************************************)
EXTENDS ByteRing

CONSTANTS
  Lengths,              \* how many bytes a call sends
  ByteTurns,
  UART_SEND_SPIN_LIMIT

ASSUME SendAssumption ==
  /\ Lengths \subseteq Nat \ {0} /\ ByteTurns \in Nat \ {0}
  /\ UART_SEND_SPIN_LIMIT \in Nat /\ 2 * ByteTurns < UART_SEND_SPIN_LIMIT

VARIABLES
  rx,          \* the receive flags standing: RXNE, and ORE for the error flags
  irq, status, \* where the handler is, and the flags it read
  sending,     \* the call under way: what it is, its length, its next byte, its step
  spins,
  tdr, shift,  \* the bytes in the data and the shift register, Empty when none
  left,        \* history: the last byte of this call that left the pin
  works        \* the transmitter works

receiver == <<rx, irq, status>>
sender == <<sending, spins, tdr, shift, left, works>>
uart == <<vars, receiver, sender>>

Empty == 0
Old == -1     \* a byte of an earlier call

-----------------------------------------------------------------------------
\* A byte comes in; one that finds the last one unread is lost to an overrun.
Arrive ==
  /\ rx' = rx \cup {IF "RXNE" \in rx THEN "ORE" ELSE "RXNE"}
  /\ UNCHANGED <<vars, irq, status, sender>>

\* USART2_IRQHandler(): the flags are read once, the byte goes to the queue ...
Enter ==
  /\ irq = "none" /\ rx # {} /\ status' = rx
  /\ irq' = IF "RXNE" \in rx THEN "push" ELSE "clear"
  /\ UNCHANGED <<vars, rx, sender>>

\* ... or is dropped when that is full ...
ReadByte ==
  /\ irq = "push" /\ push = "idle"
  /\ rx' = rx \ {"RXNE"} /\ UNCHANGED <<status, sender>>
  /\ \/ Full /\ irq' = "clear" /\ UNCHANGED vars
     \/ PushCheck /\ irq' = "store"

Store ==
  /\ irq = "store" /\ UNCHANGED <<rx, status, sender>>
  /\ \/ PushStore /\ UNCHANGED irq
     \/ PushPublish /\ irq' = "clear"

\* Slips of the kind a change to this code could make stand before the
\* definition they are a slip of; none is used in the model.
ClearedByReading == {}

\* ... and the error flags it saw are cleared.
Cleared == status \cap {"ORE"}

Leave ==
  /\ irq = "clear" /\ irq' = "none" /\ rx' = rx \ Cleared
  /\ UNCHANGED <<vars, status, sender>>

\* uart_read_byte(), from the loop while it sends nothing.
Read ==
  /\ sending.step = "none" /\ (PopCheck \/ PopLoad \/ PopFree)
  /\ UNCHANGED <<receiver, sender>>

-----------------------------------------------------------------------------
\* uart_send_string() and uart_send_bytes() begin; what is still in the
\* transmitter is of an earlier call.
SendBegins ==
  /\ sending.step = "none" /\ pop = "idle"
  /\ \E what \in {"string", "bytes"}, length \in Lengths :
       sending' = [what |-> what, length |-> length, next |-> 1, step |-> "TXE"]
  /\ spins' = 0 /\ left' = 0
  /\ tdr' = (IF tdr = Empty THEN Empty ELSE Old)
  /\ shift' = (IF shift = Empty THEN Empty ELSE Old)
  /\ UNCHANGED <<vars, receiver, works>>

TxeAssumed == TRUE

Txe == tdr = Empty
Tc == tdr = Empty /\ shift = Empty

AfterLastAtOnce(what) == "returned"

\* What follows the last byte handed over.
AfterLast(what) == IF what = "bytes" THEN "TC" ELSE "returned"

\* uart_send_char(): the transmitter asks for the byte and gets it.
HandOver ==
  /\ sending.step = "TXE" /\ Txe /\ spins < UART_SEND_SPIN_LIMIT
  /\ tdr' = sending.next /\ spins' = 0
  /\ sending' = [sending EXCEPT !.next = @ + 1,
       !.step = IF sending.next = sending.length THEN AfterLast(sending.what) ELSE "TXE"]
  /\ UNCHANGED <<vars, receiver, shift, left, works>>

LastBitGone ==
  /\ sending.step = "TC" /\ Tc /\ spins < UART_SEND_SPIN_LIMIT
  /\ sending' = [sending EXCEPT !.step = "returned"]
  /\ UNCHANGED <<vars, receiver, spins, tdr, shift, left, works>>

\* A turn of wait_for_flag() that finds nothing.  A working transmitter has one
\* byte time for each of its two registers.
Spin ==
  /\ \/ sending.step = "TXE" /\ ~Txe
     \/ sending.step = "TC" /\ ~Tc
  /\ spins < UART_SEND_SPIN_LIMIT /\ (works => spins < 2 * ByteTurns)
  /\ spins' = spins + 1
  /\ UNCHANGED <<vars, receiver, sending, tdr, shift, left, works>>

\* The turns of wait_for_flag() are used up.
OutOfTurns == spins = UART_SEND_SPIN_LIMIT

GiveUp ==
  /\ sending.step \in {"TXE", "TC"} /\ OutOfTurns
  /\ sending' = [sending EXCEPT !.step = "returned"]
  /\ UNCHANGED <<vars, receiver, spins, tdr, shift, left, works>>

SendReturns ==
  /\ sending.step = "returned" /\ sending' = [sending EXCEPT !.step = "none"]
  /\ UNCHANGED <<vars, receiver, spins, tdr, shift, left, works>>

Sender == HandOver \/ LastBitGone \/ Spin \/ GiveUp \/ SendReturns

\* The transmitter takes the next byte, or a byte's last bit leaves the pin.
Shift ==
  /\ works /\ shift = Empty /\ tdr # Empty /\ shift' = tdr /\ tdr' = Empty
  /\ UNCHANGED <<vars, receiver, sending, spins, left, works>>

ShiftOut ==
  /\ works /\ shift # Empty /\ shift' = Empty
  /\ left' = (IF shift = Old THEN left ELSE shift)
  /\ UNCHANGED <<vars, receiver, sending, spins, tdr, works>>

Die ==
  /\ works /\ works' = FALSE
  /\ UNCHANGED <<vars, receiver, sending, spins, tdr, shift, left>>

-----------------------------------------------------------------------------
UartInit ==
  /\ Init /\ rx = {} /\ irq = "none" /\ status = {}
  /\ sending = [what |-> "string", length |-> 1, next |-> 1, step |-> "none"]
  /\ spins = 0 /\ tdr = Empty /\ shift = Empty /\ left = 0 /\ works = TRUE

Handler == Enter \/ ReadByte \/ Store \/ Leave
Transmitter == Shift \/ ShiftOut
UartNext == Arrive \/ Handler \/ Read \/ SendBegins \/ Sender \/ Transmitter \/ Die

\* The processor runs the handler and the loop; a transmitter that works moves on.
UartSpec ==
  /\ UartInit /\ [][UartNext]_uart
  /\ WF_uart(Handler)
  /\ WF_uart(Sender)
  /\ WF_uart(Transmitter)

-----------------------------------------------------------------------------
\* "Returns only once the last bit has left the pin" (uart.h:41), so that the
\* reset after the ACK to COMMIT cuts nothing off: with a transmitter that
\* works, a binary answer is on the wire whole when the call returns.
AnswerLeavesWhole ==
  sending.step = "returned" /\ sending.what = "bytes" /\ works =>
    left = sending.length

\* Bytes leave in order and none is written over, whatever an earlier line that
\* did not wait left in the transmitter.
BytesInOrder ==
  /\ shift > 0 => left = shift - 1
  /\ tdr > 0 => tdr - 1 = (IF shift > 0 THEN shift ELSE left)

\* "Blocking ... but never forever" (uart.h:35-38): a dead transmitter costs a
\* bounded wait, not the main loop.
SendsReturn == sending.step \in {"TXE", "TC"} ~> sending.step = "returned"

\* "Both must be cleared here, or the interrupt fires again the moment it returns
\* and the main loop never runs" (uart.c:37-39): when no more bytes come the
\* handler is left for good.
InterruptEnds ==
  <>[][~Arrive]_uart => <>[](irq = "none" /\ rx = {})

\* Neither a call to send nor the interrupt keeps the main loop from running.
LoopRuns == SendsReturn /\ InterruptEnds
=============================================================================
