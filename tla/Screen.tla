--------------------------------- MODULE Screen --------------------------------
(***************************************************************************)
(* The VGA console, kernel/modules/i686/video.c, behind console_write.     *)
(* One round of the loop of video_write is a step.  A line feed is Newline.*)
(***************************************************************************)
EXTENDS Naturals, Sequences, SequencesExt

CONSTANTS
  Width, Height,  \* VIDEO_WIDTH, VIDEO_HEIGHT
  Char,           \* the characters that can be seen
  Blank, Newline,
  Cleared,        \* stands in what was written where the screen was cleared
  TextLength      \* the bound of this model on what is written

VARIABLES
  screen,    \* STATE.buffer, the characters of each row
  row, col,  \* the fields of STATE
  todo,      \* str and size of the call of video_write that is going on
  written    \* all that was written, and when the screen was cleared

Column == 0 .. Width - 1
Row == 0 .. Height - 1
BlankRow == [x \in Column |-> Blank]

\* video_load; the buffer is blank.
Init ==
  /\ screen = [y \in Row |-> BlankRow] /\ row = 0 /\ col = 0
  /\ todo = <<>> /\ written = <<>>

\* Outside of video.c: a message is written.
Write(text) ==
  /\ todo = <<>> /\ Len(written) + Len(text) <= TextLength
  /\ todo' = text /\ written' = written \o text
  /\ UNCHANGED <<screen, row, col>>

Least(a, b) == IF a < b THEN a ELSE b

\* w: up to the first line feed, the end of the row or the end of the message
Run ==
  LET feeds == {i \in DOMAIN todo : todo[i] = Newline}
      room == Least(Len(todo), Width - col)
  IN  IF feeds = {} THEN room ELSE Least(room, (CHOOSE i \in feeds : \A j \in feeds : i <= j) - 1)

\* write_char for the characters of a run
Shown == [screen EXCEPT ![row] = [x \in Column |-> IF x \in col .. col + Run - 1 THEN todo[x - col + 1] ELSE @[x]]]

\* Mutant of BreakLine: the last row keeps what was on it.
BreakLineKept ==
  /\ col' = 0
  /\ IF row + 1 < Height THEN row' = row + 1 /\ screen' = Shown
     ELSE row' = row /\ screen' = [y \in Row |-> IF y + 1 < Height THEN Shown[y + 1] ELSE Shown[y]]

\* break_line with scroll_down, after the run was shown
BreakLine ==
  /\ col' = 0
  /\ IF row + 1 < Height THEN row' = row + 1 /\ screen' = Shown
     ELSE row' = row /\ screen' = [y \in Row |-> IF y + 1 < Height THEN Shown[y + 1] ELSE BlankRow]

\* The last round of the loop: the message ends before the line is broken.
LastRun ==
  /\ todo # <<>> /\ Run = Len(todo)
  /\ screen' = Shown /\ col' = col + Run /\ todo' = <<>>
  /\ UNCHANGED <<row, written>>

\* Another round follows, or the message ends with the line feed.
RunAndBreak ==
  /\ todo # <<>> /\ Run < Len(todo)
  /\ BreakLine
  /\ todo' = SubSeq(todo, IF todo[Run + 1] = Newline THEN Run + 2 ELSE Run + 1, Len(todo))
  /\ UNCHANGED written

\* video_clear writes blanks and leaves the cursor where it is.
Clear ==
  /\ todo = <<>> /\ Len(written) < TextLength
  /\ screen' = [y \in Row |-> BlankRow]
  /\ written' = Append(written, Cleared)
  /\ UNCHANGED <<row, col, todo>>

-----------------------------------------------------------------------------

\* The lines that a text has on a screen of any height: a character behind a full line
\* begins another one, and so does a line feed.
AddTo(lines, c) ==
  LET last == lines[Len(lines)]
  IN  CASE c = Cleared -> [i \in 1 .. Len(lines) |-> [x \in 1 .. Len(lines[i]) |-> Blank]]
        [] c = Newline -> Append(lines, <<>>)
        [] OTHER -> IF Len(last) = Width THEN Append(lines, <<c>>)
                    ELSE Append(Front(lines), Append(last, c))

\* When a message is written, the screen shows the last lines of all that was written,
\* in whatever pieces it came, and the cursor is behind the last character; during a
\* call the cursor stays inside of the buffer (video.c, video_write and break_line).
ScreenShowsText ==
  /\ row \in Row /\ col \in 0 .. Width
  /\ todo = <<>> =>
       LET lines == FoldLeft(AddTo, << <<>> >>, written)
           top == IF Len(lines) > Height THEN Len(lines) - Height ELSE 0
       IN  /\ row = Len(lines) - top - 1 /\ col = Len(lines[Len(lines)])
           /\ \A y \in Row, x \in Column :
                screen[y][x] = IF top + y + 1 \in DOMAIN lines /\ x + 1 \in DOMAIN lines[top + y + 1]
                               THEN lines[top + y + 1][x + 1] ELSE Blank

================================================================================
