CONSTANTS
  BUFFER_HEIGHT = 2
  BUFFER_WIDTH = 4
  BufSize = 5
  Keys = {"c", "enter", "bksp", "left", "right", "esc", "lshift", "rshift", "ctrl"}
  Output <- MCOutput
  Rules <- AllRules
  MaxCalls = 2
SPECIFICATION Spec
INVARIANTS TypeOK LineDelivered ScreenShowsLine
CHECK_DEADLOCK FALSE
