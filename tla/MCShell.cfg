SPECIFICATION ShellSpec
CONSTANTS
  WIDTH = 3
  HEIGHT = 3
  TAB = 2
  SIZE = 5
  HIST_MAX = 2
  Letters = {"a", "b"}
  PROMPT <- MCPrompt
  OutChars <- MCOutChars
  Spots <- MCSpots
  MESSAGE <- MCMessage
  MaxEvents = 6
INVARIANTS
  LineShown
  PointerLeavesNoTrace
PROPERTY ProtectedTextKept
CHECK_DEADLOCK FALSE
