SPECIFICATION Spec
CONSTANTS
  Parts = {"screen", "printf"}
  Width = 2
  Height = 2
  Char = {"a", "b"}
  Blank = " "
  Newline = "nl"
  Cleared = "cleared"
  TextLength = 6
  Messages <- MCMessages
  Bits <- MCBits
  Words = {8, 16}
  EnumBits = 8
  Conversions <- MCConversions
  Numbers = {0, 1, 9, 21, 30}
INVARIANTS
  ScreenShowsText
  FieldsAreStandard
\* One conversion is printed.
CHECK_DEADLOCK FALSE
