SPECIFICATION Spec
CONSTANTS
  Readers = {r1}
  Writers = {w1, w2}
  INPUT_BUF = 3
  UINT = 6
  Starts = {4}
  Lengths = {1, 3}
  UART_TX_BUF_SIZE = 1
  Keys = {"x", "cr", "eof", "bs", "kill"}
  Budgets <- MCBudgets
CHECK_DEADLOCK FALSE
PROPERTIES
  LineSpec
  EofReturnsNothing
  ConsoleProgress
