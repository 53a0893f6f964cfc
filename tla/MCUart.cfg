SPECIFICATION UartSpec
CONSTANTS
  Capacity = 2
  IndexSize = 4
  Bytes = {1, 2}
  Lengths = {2}
  ByteTurns = 1
  UART_SEND_SPIN_LIMIT = 3
INVARIANTS AnswerLeavesWhole BytesInOrder
PROPERTIES FifoSpec LoopRuns
