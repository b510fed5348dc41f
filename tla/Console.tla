-------------------------------- MODULE Console --------------------------------
(***************************************************************************)
(* What the kernel shows: the characters of a message on the screen, and   *)
(* the printing of a number or a string in one.  A behaviour uses one of   *)
(* the two, which share no state.                                          *)
(***************************************************************************)
EXTENDS Integers, Sequences

CONSTANTS
  Parts,                                             \* the parts that behaviours use
  Width, Height, Char, Blank, Newline, Cleared, TextLength, Messages,  \* of Screen
  Bits, Words, EnumBits, Conversions, Numbers        \* of Printf

ASSUME SizesAreNatural == {Width, Height} \subseteq Nat \ {0}

VARIABLES
  part,                                              \* the part that this behaviour uses
  screen, row, col, todo, written,                   \* of Screen
  word, conv, value, output, fault                   \* of Printf

S == INSTANCE Screen
F == INSTANCE Printf

screenVars == <<screen, row, col, todo, written>>
printVars == <<word, conv, value, output, fault>>
vars == <<part, screenVars, printVars>>

Init ==
  /\ part \in Parts /\ fault = "none"
  /\ S!Init /\ F!Init
  /\ part # "printf" => word = EnumBits

UseScreen ==
  /\ part = "screen"
  /\ S!LastRun \/ S!RunAndBreak \/ S!Clear \/ \E text \in Messages : S!Write(text)
  /\ UNCHANGED <<part, printVars>>

\* Where a width is larger than the enum, * asks for as many blanks as the enum has values.
UsePrintf ==
  /\ part = "printf" /\ fault = "none" /\ conv = F!NoConversion
  /\ \E c \in Conversions, v \in Numbers : (c.width = F!Var => word = EnumBits) /\ F!Printf(c, v)
  /\ UNCHANGED <<part, screenVars>>

Next == UseScreen \/ UsePrintf

Spec == Init /\ [][Next]_vars

-----------------------------------------------------------------------------
(* Properties *)

\* See Screen and Printf.
ScreenShowsText == S!ScreenShowsText
FieldsAreStandard == F!FieldsAreStandard

================================================================================
