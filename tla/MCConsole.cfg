CONSTANTS
  VGA_WIDTH = 2
  VGA_HEIGHT = 2
  SCROLLED = 11
  VGA_MAX = 12
  BYTE = 4
  MaxLine = 4
  Chars <- MCChars
SPECIFICATION Spec
INVARIANTS
  ConsoleTypeOK
  PositionFollowsLine
  ScreenShowsLines
  CursorFollows
