------------------------------- MODULE Console -------------------------------
(***************************************************************************)
(* The text console: kernel/screen.c on drivers/vga.c.  The display shows  *)
(* the rows 0 .. VGA_HEIGHT of the buffer; the memory behind them is       *)
(* written by long lines and moved by scroll, but not seen.  A cell is the *)
(* character in it, with its colours, or Blank as vga_clear leaves it.     *)
(***************************************************************************)
EXTENDS Integers, Sequences

CONSTANTS
  VGA_WIDTH, VGA_HEIGHT,
  SCROLLED,       \* the 2200 of scroll: cells it moves, and the row it loses
  VGA_MAX,        \* cells vga_clear writes
  BYTE,           \* 2^8: the number of values of x and y
  Chars,          \* characters other than '\n' and '\0'
  MaxLine         \* bound: characters of a line

ASSUME ConsoleAssumption ==
  /\ {VGA_WIDTH, VGA_HEIGHT, SCROLLED, VGA_MAX, BYTE, MaxLine} \subseteq Nat \ {0}
  /\ VGA_HEIGHT < BYTE
  /\ VGA_HEIGHT * VGA_WIDTH + MaxLine <= SCROLLED
  /\ (VGA_HEIGHT + 2) * VGA_WIDTH <= SCROLLED
  /\ SCROLLED <= VGA_MAX

VARIABLES
  buff,           \* the cells at VGA_ADDRESS
  x, y, pos,      \* the fields of vga
  cursor,         \* the location last sent to the CRT controller
  lines,          \* history: the lines of the rows 0 .. y, the last unfinished
  fits            \* history: no line was longer than a row

vars == <<buff, x, y, pos, cursor, lines, fits>>

Blank == "blank"
NoCursor == -1
Cells == 0 .. VGA_MAX - 1

\* screen_init and vga_init; the CRT controller is not told.
Init ==
  /\ buff = [i \in Cells |-> Blank]
  /\ x = 0 /\ y = 0 /\ pos = 0
  /\ cursor = NoCursor
  /\ lines = << <<>> >>
  /\ fits = TRUE

Line == lines[Len(lines)]

\* Bug: the cursor is placed from the old column.
vga_position_cursor_late(col, row) == cursor' = row * VGA_WIDTH + x

vga_position_cursor(col, row) == cursor' = row * VGA_WIDTH + col

\* char_process of a printable character: vga_write_b.
vga_write_b(ch) ==
  /\ Len(Line) < MaxLine
  /\ buff' = [buff EXCEPT ![pos] = ch]
  /\ pos' = pos + 1
  /\ x' = (x + 1) % BYTE
  /\ vga_position_cursor(x', y)
  /\ lines' = [lines EXCEPT ![Len(lines)] = Append(@, ch)]
  /\ fits' = (fits /\ Len(Line) < VGA_WIDTH)
  /\ UNCHANGED y

\* Bug: scroll moves the visible rows only, and the last one stays.
moved_rows == [i \in Cells |-> IF i < VGA_HEIGHT * VGA_WIDTH
                               THEN buff[i + VGA_WIDTH] ELSE buff[i]]

\* The buffer after the loop of scroll.
moved == [i \in Cells |-> IF i < SCROLLED - VGA_WIDTH
                          THEN buff[i + VGA_WIDTH] ELSE buff[i]]

\* Bug: the row is advanced there too.
scrolled_row_next == y + 1

\* The row scroll leaves.
scrolled_row == VGA_HEIGHT

\* vga_newline on the last row: scroll.
scroll ==
  /\ y >= VGA_HEIGHT
  /\ buff' = moved
  /\ x' = 0
  /\ pos' = y * VGA_WIDTH
  /\ y' = scrolled_row
  /\ vga_position_cursor(x', y')
  /\ lines' = Append(Tail(lines), <<>>)
  /\ UNCHANGED fits

\* Bug: the position goes to the start of the current row.
newline_pos_same == y * VGA_WIDTH

\* The start of the next row.
newline_pos == (y + 1) * VGA_WIDTH

vga_newline ==
  /\ y < VGA_HEIGHT
  /\ pos' = newline_pos
  /\ x' = 0
  /\ y' = (y + 1) % BYTE
  /\ vga_position_cursor(x', y')
  /\ lines' = Append(lines, <<>>)
  /\ UNCHANGED <<buff, fits>>

\* screen_clean: the cells are cleared, the position stays where it is.
screen_clean ==
  /\ buff' = [i \in Cells |-> Blank]
  /\ lines' = [k \in DOMAIN lines |-> [j \in DOMAIN lines[k] |-> Blank]]
  /\ UNCHANGED <<x, y, pos, cursor, fits>>

\* char_process of '\0'.
ignore == UNCHANGED vars

Next ==
  \/ \E ch \in Chars : vga_write_b(ch)
  \/ scroll
  \/ vga_newline
  \/ screen_clean
  \/ ignore

Spec == Init /\ [][Next]_vars

-----------------------------------------------------------------------------

(***************************************************************************)
(* Type invariant of the driver's state and of the history: the row is on  *)
(* the display, the column is an 8-bit counter, and the position is in the *)
(* buffer wherever vga_write_b may write, behind the display too: for      *)
(* lines of up to MaxLine characters no write leaves VGA_MAX cells.        *)
(***************************************************************************)
ConsoleTypeOK ==
  /\ buff \in [Cells -> Chars \union {Blank}]
  /\ x \in 0 .. BYTE - 1
  /\ y \in 0 .. VGA_HEIGHT
  /\ pos \in 0 .. SCROLLED
  /\ Len(Line) < MaxLine => pos \in Cells
  /\ Len(Line) <= MaxLine
  /\ cursor \in NoCursor .. VGA_HEIGHT * VGA_WIDTH + BYTE - 1
  /\ lines \in Seq(Seq(Chars \union {Blank}))
  /\ fits \in BOOLEAN

\* The next character goes behind the line's last one, on the line's row.
PositionFollowsLine ==
  /\ Len(lines) = y + 1
  /\ pos = y * VGA_WIDTH + Len(Line)
  /\ x = Len(Line) % BYTE

(***************************************************************************)
(* The display shows the last lines, the newest at the bottom, however     *)
(* often it has scrolled: row r begins with the text of its line (cut at   *)
(* the right edge), and as long as every line fitted into its row, nothing *)
(* else is on it or below.                                                 *)
(***************************************************************************)
ScreenShowsLines ==
  \A r \in 0 .. VGA_HEIGHT, c \in 0 .. VGA_WIDTH - 1 :
    IF r <= y /\ c < Len(lines[r + 1])
    THEN buff[r * VGA_WIDTH + c] = lines[r + 1][c + 1]
    ELSE fits => buff[r * VGA_WIDTH + c] = Blank

(***************************************************************************)
(* The blinking cursor stands where the next character will go, until a    *)
(* line is so long that the 8-bit column wraps.                            *)
(***************************************************************************)
CursorFollows ==
  cursor # NoCursor => cursor = pos \/ Len(Line) >= BYTE
=============================================================================
