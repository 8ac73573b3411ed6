SPECIFICATION LoopSpec
CONSTANTS
  Chars = {"1", "A", "["}
  InputMax = 2
  HistoryLines = 2
  StackDepth = 2
  Parse <- MCParse
  Values <- MCValues
  Zero = 0
  Symbols <- MCSymbols
  NoSymbols <- MCNoSymbols
  Bytes = {"A", "[", "ESC", "CR", "LF", "DEL"}
  FinalBytes = {"A"}
  EscapeMax = 3
  MaxTyped = 4
  WindowKeys = {"1", "ENTER"}
  BoardKeys <- MCBoardKeys
  MaxEvents = 2
  KeyMap <- MCKeyMap
  Debounce = 1
  TickRange = 5
  BatchMax = 3
INVARIANTS ResultIsSettled TextArrives ScreenIsDue
PROPERTIES ImplementsTextLine PressesAreSpaced ScreenCatchesUp HangUpEnds PressIsNoticed
CHECK_DEADLOCK FALSE
