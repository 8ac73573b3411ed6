SPECIFICATION CalcSpec
CONSTANTS
  Chars = {"1", "="}
  InputMax = 2
  HistoryLines = 1
  StackDepth = 2
  LogMax = 4
  Newline <- MCNewline
  Parse <- MCParse
  Values <- MCValues
  Zero = 0
  Symbols <- MCSymbols
  NoSymbols <- MCNoSymbols
INVARIANTS  TypedIsLogged
