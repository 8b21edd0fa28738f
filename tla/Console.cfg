SPECIFICATION Spec
CONSTANTS
  Reader = {r1, r2}
  Writer = {w1}
  Users = {{r1, r2}, {w1}}
  INPUT_BUF_SIZE = 2
  UART_TX_BUF_SIZE = 2
  WRAP = 2
  RXFIFO = 1
  TXFIFO = 2
  OutChar = {"o1", "o2"}
  Lengths = {2}
  None = None
  Intr = Intr
INVARIANTS ConsInv SleepersHaveReason OutputMoves
PROPERTIES ImplementsTty
