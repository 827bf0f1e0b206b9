---------------------------- MODULE ConsoleProofs ----------------------------
(***************************************************************************)
(* Proofs about the console, for every size of the display, width of the   *)
(* column counter and length of a line that meet ConsoleAssumption.        *)
(***************************************************************************)
EXTENDS Console, SequenceTheorems, TLAPS

-----------------------------------------------------------------------------
(***************************************************************************)
(* The inductive invariant behind the properties of Console: as long as    *)
(* every line fitted, the memory below the current row is blank, on the    *)
(* display and behind it, which is where scroll takes its new row from.    *)
(***************************************************************************)
BlankBelow ==
  fits => \A i \in Cells : i >= (y + 1) * VGA_WIDTH => buff[i] = Blank

ConsoleInv ==
  ConsoleTypeOK /\ PositionFollowsLine /\ ScreenShowsLines /\ CursorFollows /\ BlankBelow

-----------------------------------------------------------------------------
(***************************************************************************)
(* Rows and columns.                                                       *)
(***************************************************************************)

\* The row below begins one width further.
LEMMA NextRow ==
  ASSUME NEW r \in Nat, NEW w \in Nat
  PROVE  (r + 1) * w = r * w + w /\ r * w \in Nat
BY SMT

\* Rows follow each other in memory without overlap.
LEMMA RowsApart ==
  ASSUME NEW r \in Nat, NEW s \in Nat, NEW w \in Nat, r < s
  PROVE  r * w + w <= s * w
BY SMT

\* Below its bound a counter does not wrap.
LEMMA NoWrap ==
  ASSUME NEW n \in Nat, NEW b \in Nat, n < b
  PROVE  n % b = n
BY SMT

\* A counter of b values that is advanced with every character.
LEMMA CountsModulo ==
  ASSUME NEW n \in Nat, NEW b \in Nat \ {0}
  PROVE  ((n % b) + 1) % b = (n + 1) % b
<1> DEFINE q == n \div b
           m == n % b
<1>1. q \in Int /\ m \in 0 .. b - 1 /\ n = b * q + m
  BY SMT
<1> HIDE DEF q, m
<1>2. ASSUME NEW k \in Int, NEW j \in 0 .. b - 1
      PROVE  (b * k + j) % b = j
  BY SMT
<1>3. CASE m + 1 < b
  <2>1. n + 1 = b * q + (m + 1) /\ m + 1 \in 0 .. b - 1
    BY <1>1, <1>3, SMT
  <2>2. (n + 1) % b = m + 1
    BY <1>1, <1>2, <2>1
  <2>3. (m + 1) % b = m + 1
    BY <2>1, SMT
  <2> QED
    BY <2>2, <2>3 DEF m
<1>4. CASE m + 1 = b
  <2>1. b * (q + 1) = b * q + b
    BY <1>1, SMT
  <2>2. n + 1 = b * (q + 1) + 0 /\ q + 1 \in Int /\ 0 \in 0 .. b - 1
    BY <1>1, <1>4, <2>1, SMT
  <2>3. (n + 1) % b = 0
    BY <1>2, <2>2
  <2>4. b % b = 0
    BY SMT
  <2> QED
    BY <1>4, <2>3, <2>4 DEF m
<1> QED
  BY <1>1, <1>3, <1>4, SMT

\* The cells of the display, and a line's overhang, lie in the buffer.
LEMMA Sizes ==
  /\ VGA_WIDTH \in Nat \ {0} /\ VGA_HEIGHT \in Nat \ {0} /\ BYTE \in Nat \ {0}
  /\ SCROLLED \in Nat /\ VGA_MAX \in Nat /\ MaxLine \in Nat
  /\ VGA_HEIGHT < BYTE /\ SCROLLED <= VGA_MAX
  /\ VGA_HEIGHT * VGA_WIDTH + MaxLine <= SCROLLED
  /\ (VGA_HEIGHT + 1) * VGA_WIDTH + VGA_WIDTH <= SCROLLED
<1>1. (VGA_HEIGHT + 2) * VGA_WIDTH = (VGA_HEIGHT + 1) * VGA_WIDTH + VGA_WIDTH
  BY ConsoleAssumption, NextRow
<1> QED
  BY <1>1, ConsoleAssumption

\* A cell of the display is not in the last row that scroll moves.
LEMMA DisplayCell ==
  ASSUME NEW r \in 0 .. VGA_HEIGHT, NEW c \in 0 .. VGA_WIDTH - 1
  PROVE  /\ r * VGA_WIDTH \in Nat
         /\ r * VGA_WIDTH + c \in Cells
         /\ r * VGA_WIDTH + c < SCROLLED - VGA_WIDTH
<1>1. r * VGA_WIDTH + VGA_WIDTH <= (VGA_HEIGHT + 1) * VGA_WIDTH
  BY Sizes, RowsApart
<1>2. r * VGA_WIDTH \in Nat /\ (VGA_HEIGHT + 1) * VGA_WIDTH \in Nat
  BY Sizes, NextRow
<1> QED
  BY <1>1, <1>2, Sizes DEF Cells

(***************************************************************************)
(* A position l characters into row r is in the part of the buffer that    *)
(* scroll moves, and a cursor there is within the range of its register.   *)
(***************************************************************************)
LEMMA InBuffer ==
  ASSUME NEW r \in 0 .. VGA_HEIGHT
  PROVE  /\ r * VGA_WIDTH \in Nat
         /\ \A l \in 0 .. MaxLine :
              /\ r * VGA_WIDTH + l \in 0 .. SCROLLED
              /\ l < MaxLine => r * VGA_WIDTH + l \in Cells
         /\ \A c \in 0 .. BYTE - 1 :
              r * VGA_WIDTH + c \in NoCursor .. VGA_HEIGHT * VGA_WIDTH + BYTE - 1
<1> DEFINE a == r * VGA_WIDTH
           h == VGA_HEIGHT * VGA_WIDTH
<1>1. a <= h /\ a \in Nat /\ h \in Nat
  <2>1. CASE r = VGA_HEIGHT
    BY <2>1, Sizes, NextRow
  <2>2. CASE r < VGA_HEIGHT
    BY <2>2, Sizes, RowsApart, NextRow
  <2> QED
    BY <2>1, <2>2, Sizes
<1>2. h + MaxLine <= SCROLLED
  BY Sizes
<1> HIDE DEF a, h
<1>3. /\ \A l \in 0 .. MaxLine : a + l \in 0 .. SCROLLED /\ (l < MaxLine => a + l \in Cells)
      /\ \A c \in 0 .. BYTE - 1 : a + c \in NoCursor .. h + BYTE - 1
  BY <1>1, <1>2, Sizes DEF Cells, NoCursor
<1> QED
  BY <1>1, <1>3 DEF a, h

-----------------------------------------------------------------------------
(***************************************************************************)
(* The invariant, operation by operation.                                  *)
(***************************************************************************)

LEMMA InitConsole == Init => ConsoleInv
<1> SUFFICES ASSUME Init PROVE ConsoleInv
  OBVIOUS
<1>1. lines = << <<>> >> /\ Len(lines) = 1 /\ lines[1] = <<>> /\ Line = <<>> /\ Len(Line) = 0
  BY DEF Init, Line
<1>2. lines \in Seq(Seq(Chars \union {Blank}))
  BY <1>1
<1>3. ConsoleTypeOK
  <2>1. pos \in 0 .. SCROLLED /\ pos \in Cells
    BY Sizes DEF Init, Cells
  <2>2. cursor \in NoCursor .. VGA_HEIGHT * VGA_WIDTH + BYTE - 1
    <3>1. VGA_HEIGHT * VGA_WIDTH \in Nat
      BY NextRow, Sizes
    <3> QED
      BY <3>1, Sizes DEF Init, NoCursor
  <2> QED
    BY <1>1, <1>2, <2>1, <2>2, Sizes DEF Init, ConsoleTypeOK
<1>4. PositionFollowsLine
  BY <1>1, Sizes DEF Init, PositionFollowsLine
<1>5. ScreenShowsLines
  <2> SUFFICES ASSUME NEW r \in 0 .. VGA_HEIGHT, NEW c \in 0 .. VGA_WIDTH - 1
               PROVE  ScreenShowsLines!(r, c)
    BY DEF ScreenShowsLines
  <2>1. buff[r * VGA_WIDTH + c] = Blank
    BY DisplayCell DEF Init
  <2>2. ~(r <= y /\ c < Len(lines[r + 1]))
    BY <1>1, Sizes DEF Init
  <2> QED
    BY <2>1, <2>2
<1>6. CursorFollows /\ BlankBelow
  BY DEF Init, CursorFollows, BlankBelow
<1> QED
  BY <1>3, <1>4, <1>5, <1>6 DEF ConsoleInv

\* The facts about a state of the invariant that every step below uses.
LEMMA State ==
  ASSUME ConsoleInv
  PROVE  /\ lines \in Seq(Seq(Chars \union {Blank})) /\ Len(lines) = y + 1
         /\ y \in 0 .. VGA_HEIGHT
         /\ Line = lines[y + 1] /\ Line \in Seq(Chars \union {Blank})
         /\ Len(Line) \in 0 .. MaxLine
         /\ pos = y * VGA_WIDTH + Len(Line) /\ y * VGA_WIDTH \in Nat
         /\ x = Len(Line) % BYTE
<1>1. lines \in Seq(Seq(Chars \union {Blank})) /\ Len(lines) = y + 1 /\ y \in 0 .. VGA_HEIGHT
  BY DEF ConsoleInv, ConsoleTypeOK, PositionFollowsLine
<1>2. Line = lines[y + 1] /\ Line \in Seq(Chars \union {Blank})
  BY <1>1, Sizes DEF Line
<1>3. Len(Line) \in 0 .. MaxLine
  BY <1>2, Sizes DEF ConsoleInv, ConsoleTypeOK
<1> QED
  BY <1>1, <1>2, <1>3, NextRow, Sizes DEF ConsoleInv, PositionFollowsLine

(***************************************************************************)
(* A character goes into the cell behind its line's text and into no other *)
(* cell that is seen to hold text.                                         *)
(***************************************************************************)
LEMMA WriteStep ==
  ASSUME ConsoleInv, NEW ch \in Chars, vga_write_b(ch)
  PROVE  ConsoleInv'
<1> DEFINE L == Len(Line)
<1>1. /\ lines \in Seq(Seq(Chars \union {Blank})) /\ Len(lines) = y + 1
      /\ y \in 0 .. VGA_HEIGHT /\ Line = lines[y + 1]
      /\ Line \in Seq(Chars \union {Blank}) /\ L \in Nat
      /\ pos = y * VGA_WIDTH + L /\ y * VGA_WIDTH \in Nat
      /\ x = L % BYTE
  BY State
<1>2. /\ L < MaxLine
      /\ buff' = [buff EXCEPT ![pos] = ch]
      /\ pos' = pos + 1
      /\ x' = (x + 1) % BYTE
      /\ cursor' = y * VGA_WIDTH + x'
      /\ lines' = [lines EXCEPT ![y + 1] = Append(lines[y + 1], ch)]
      /\ fits' = (fits /\ L < VGA_WIDTH)
      /\ y' = y
  BY <1>1 DEF vga_write_b, vga_position_cursor
<1>3. pos \in Cells
  BY <1>1, <1>2 DEF ConsoleInv, ConsoleTypeOK
<1>4. /\ lines' \in Seq(Seq(Chars \union {Blank}))
      /\ Len(lines') = y + 1
      /\ lines'[y + 1] = Append(Line, ch)
      /\ \A k \in 1 .. y : lines'[k] = lines[k]
  BY <1>1, <1>2, Sizes
<1>5. Line' = Append(Line, ch) /\ Len(Line') = L + 1
  BY <1>1, <1>2, <1>4 DEF Line
<1>6. x' = (L + 1) % BYTE /\ x' \in 0 .. BYTE - 1
  <2>1. x' = (L + 1) % BYTE
    BY <1>1, <1>2, CountsModulo, Sizes
  <2> HIDE DEF L
  <2>2. (L + 1) % BYTE \in 0 .. BYTE - 1
    BY <1>1, Sizes
  <2> QED
    BY <2>1, <2>2
<1> HIDE DEF L
<1>7. /\ buff \in [Cells -> Chars \union {Blank}] /\ fits \in BOOLEAN
      /\ buff' \in [Cells -> Chars \union {Blank}]
  BY <1>2, <1>3 DEF ConsoleInv, ConsoleTypeOK
<1>8. ConsoleTypeOK'
  <2>1. L + 1 \in 0 .. MaxLine /\ pos' = y * VGA_WIDTH + (L + 1)
    BY <1>1, <1>2, Sizes
  <2>2. pos' \in 0 .. SCROLLED /\ (L + 1 < MaxLine => pos' \in Cells)
    BY <1>1, <2>1, InBuffer
  <2>3. cursor' \in NoCursor .. VGA_HEIGHT * VGA_WIDTH + BYTE - 1
    BY <1>1, <1>2, <1>6, InBuffer
  <2>4. Len(Line') <= MaxLine /\ (Len(Line') < MaxLine => pos' \in Cells)
    BY <1>5, <2>1, <2>2
  <2> QED
    BY <1>1, <1>2, <1>4, <1>6, <1>7, <2>2, <2>3, <2>4 DEF ConsoleTypeOK
<1>9. PositionFollowsLine'
  BY <1>1, <1>2, <1>4, <1>5, <1>6 DEF PositionFollowsLine
<1>10. CursorFollows'
  <2>1. L + 1 < BYTE => x' = L + 1
    BY <1>1, <1>6, Sizes, NoWrap, L + 1 \in Nat
  <2> QED
    BY <1>1, <1>2, <1>5, <2>1, Sizes DEF CursorFollows
<1>11. ScreenShowsLines'
  <2> SUFFICES ASSUME NEW r \in 0 .. VGA_HEIGHT, NEW c \in 0 .. VGA_WIDTH - 1
               PROVE  ScreenShowsLines!(r, c)'
    BY DEF ScreenShowsLines
  <2> DEFINE i == r * VGA_WIDTH + c
  <2>1. i \in Cells /\ r * VGA_WIDTH \in Nat
    BY DisplayCell
  <2>2. i # pos => buff'[i] = buff[i]
    BY <1>2, <1>7, <2>1
  <2>3. i = pos => buff'[i] = ch
    BY <1>2, <1>7, <2>1
  <2>4. IF r <= y /\ c < Len(lines[r + 1])
        THEN buff[i] = lines[r + 1][c + 1]
        ELSE fits => buff[i] = Blank
    BY DEF ConsoleInv, ScreenShowsLines
  <2>5. CASE r < y
    <3>1. r * VGA_WIDTH + VGA_WIDTH <= y * VGA_WIDTH
      BY <1>1, <2>5, RowsApart, Sizes
    <3>2. i # pos
      <4> DEFINE row == r * VGA_WIDTH
                 top == y * VGA_WIDTH
      <4>1. /\ row \in Nat /\ top \in Nat /\ L \in Nat /\ VGA_WIDTH \in Nat
            /\ row + VGA_WIDTH <= top
        BY <1>1, <2>1, <3>1, Sizes
      <4>2. row + c # top + L
        <5> HIDE DEF row, top
        <5> QED
          BY <4>1
      <4> QED
        BY <1>1, <4>2
    <3>3. lines'[r + 1] = lines[r + 1]
      BY <1>1, <1>4, <2>5
    <3> QED
      BY <1>2, <2>2, <2>4, <3>2, <3>3
  <2>6. CASE r = y
    <3>1. lines'[r + 1] = Append(Line, ch) /\ lines[r + 1] = Line
      BY <1>1, <1>4, <2>6
    <3>2. CASE c < L
      <4>1. i # pos
        BY <1>1, <2>1, <2>6, <3>2
      <4>2. Append(Line, ch)[c + 1] = Line[c + 1]
        BY <1>1, <3>2 DEF L
      <4>3. Len(Append(Line, ch)) = L + 1
        BY <1>1 DEF L
      <4>4. buff[i] = Line[c + 1]
        BY <2>4, <2>6, <3>1, <3>2, <1>1 DEF L
      <4> QED
        BY <1>1, <1>2, <2>2, <2>6, <3>1, <3>2, <4>1, <4>2, <4>3, <4>4
    <3>3. CASE c = L
      <4>1. i = pos
        BY <1>1, <2>1, <2>6, <3>3
      <4>2. Append(Line, ch)[c + 1] = ch /\ Len(Append(Line, ch)) = L + 1
        BY <1>1, <3>3 DEF L
      <4> QED
        BY <1>1, <1>2, <2>3, <2>6, <3>1, <3>3, <4>1, <4>2
    <3>4. CASE c > L
      <4>1. i # pos
        BY <1>1, <2>1, <2>6, <3>4
      <4>2. Len(Append(Line, ch)) = L + 1
        BY <1>1 DEF L
      <4>3. fits => buff[i] = Blank
        BY <1>1, <2>4, <2>6, <3>1, <3>4 DEF L
      <4>4. ~(c < L + 1)
        BY <1>1, <3>4
      <4> QED
        BY <1>2, <2>2, <3>1, <4>1, <4>2, <4>3, <4>4
    <3> QED
      BY <1>1, <3>2, <3>3, <3>4
  <2>7. CASE r > y
    <3>1. y * VGA_WIDTH + VGA_WIDTH <= r * VGA_WIDTH
      BY <1>1, <2>7, RowsApart, Sizes
    <3>2. L < VGA_WIDTH => i # pos
      <4> DEFINE row == r * VGA_WIDTH
                 top == y * VGA_WIDTH
      <4>1. /\ row \in Nat /\ top \in Nat /\ L \in Nat /\ VGA_WIDTH \in Nat
            /\ top + VGA_WIDTH <= row
        BY <1>1, <2>1, <3>1, Sizes
      <4>2. L < VGA_WIDTH => row + c # top + L
        <5> HIDE DEF row, top
        <5> QED
          BY <4>1
      <4> QED
        BY <1>1, <4>2
    <3>3. ~(r <= y)
      BY <1>1, <2>7
    <3> QED
      BY <1>2, <2>2, <2>4, <3>2, <3>3
  <2> QED
    BY <1>1, <2>5, <2>6, <2>7
<1>12. BlankBelow'
  <2> SUFFICES ASSUME fits', NEW i \in Cells, i >= (y + 1) * VGA_WIDTH
               PROVE  buff'[i] = Blank
    BY <1>2 DEF BlankBelow
  <2>1. (y + 1) * VGA_WIDTH = y * VGA_WIDTH + VGA_WIDTH
    BY <1>1, NextRow, Sizes
  <2>2. i # pos
    <3> DEFINE top == y * VGA_WIDTH
    <3>1. /\ top \in Nat /\ L \in Nat /\ VGA_WIDTH \in Nat
          /\ i >= top + VGA_WIDTH
      BY <1>1, <2>1, Sizes
    <3>2. i \in Int
      BY Sizes DEF Cells
    <3>3. L < VGA_WIDTH
      BY <1>2
    <3>4. i # top + L
      <4> HIDE DEF top
      <4> QED
        BY <3>1, <3>2, <3>3
    <3> QED
      BY <1>1, <3>4
  <2>3. buff[i] = Blank
    BY <1>2 DEF ConsoleInv, BlankBelow
  <2> QED
    BY <1>2, <1>7, <2>2, <2>3
<1> QED
  BY <1>8, <1>9, <1>10, <1>11, <1>12 DEF ConsoleInv

\* A new line on the row below, which was blank unless a line ran over.
LEMMA NewlineStep ==
  ASSUME ConsoleInv, vga_newline
  PROVE  ConsoleInv'
<1>1. /\ lines \in Seq(Seq(Chars \union {Blank})) /\ Len(lines) = y + 1
      /\ y \in 0 .. VGA_HEIGHT
  BY State
<1>2. y + 1 <= VGA_HEIGHT /\ y' = y + 1 /\ x' = 0
      /\ pos' = (y + 1) * VGA_WIDTH /\ cursor' = (y + 1) * VGA_WIDTH + 0
      /\ lines' = Append(lines, <<>>) /\ UNCHANGED <<buff, fits>>
  <2>1. y + 1 \in Nat /\ y + 1 <= VGA_HEIGHT /\ y + 1 < BYTE
    BY <1>1, Sizes DEF vga_newline
  <2>2. y' = y + 1
    BY <2>1, NoWrap, Sizes DEF vga_newline
  <2> QED
    BY <2>1, <2>2 DEF vga_newline, vga_position_cursor, newline_pos
<1>3. <<>> \in Seq(Chars \union {Blank}) /\ Len(<<>>) = 0
  OBVIOUS
<1>4. /\ lines' \in Seq(Seq(Chars \union {Blank})) /\ Len(lines') = y + 2
      /\ lines'[y + 2] = <<>> /\ \A k \in 1 .. y + 1 : lines'[k] = lines[k]
  BY <1>1, <1>2, <1>3
<1>5. Line' = <<>> /\ Len(Line') = 0
  BY <1>3, <1>4, <1>2 DEF Line
<1>6. (y + 1) * VGA_WIDTH \in Nat
  BY <1>1, NextRow, Sizes
<1>7. ConsoleTypeOK'
  <2>1. y + 1 \in 0 .. VGA_HEIGHT /\ 0 \in 0 .. MaxLine /\ 0 < MaxLine /\ 0 \in 0 .. BYTE - 1
    BY <1>1, <1>2, Sizes, ConsoleAssumption
  <2>2. /\ pos' \in 0 .. SCROLLED /\ pos' \in Cells
        /\ cursor' \in NoCursor .. VGA_HEIGHT * VGA_WIDTH + BYTE - 1
    <3>1. pos' = (y + 1) * VGA_WIDTH + 0
      BY <1>2, <1>6
    <3> QED
      BY <1>2, <2>1, <3>1, InBuffer
  <2> QED
    BY <1>2, <1>4, <1>5, <2>1, <2>2 DEF ConsoleInv, ConsoleTypeOK
<1>8. PositionFollowsLine' /\ CursorFollows'
  BY <1>1, <1>2, <1>4, <1>5, <1>6, Sizes DEF PositionFollowsLine, CursorFollows
<1>9. ScreenShowsLines'
  <2> SUFFICES ASSUME NEW r \in 0 .. VGA_HEIGHT, NEW c \in 0 .. VGA_WIDTH - 1
               PROVE  ScreenShowsLines!(r, c)'
    BY DEF ScreenShowsLines
  <2>1. IF r <= y /\ c < Len(lines[r + 1])
        THEN buff[r * VGA_WIDTH + c] = lines[r + 1][c + 1]
        ELSE fits => buff[r * VGA_WIDTH + c] = Blank
    BY DEF ConsoleInv, ScreenShowsLines
  <2>2. CASE r <= y
    <3>1. lines'[r + 1] = lines[r + 1]
      BY <1>1, <1>4, <2>2
    <3> QED
      BY <1>1, <1>2, <2>1, <2>2, <3>1
  <2>3. CASE r = y + 1
    <3>1. lines'[r + 1] = <<>> /\ ~(c < 0)
      BY <1>1, <1>4, <2>3, Sizes
    <3> QED
      BY <1>1, <1>2, <1>3, <2>1, <2>3, <3>1
  <2>4. CASE r > y + 1
    BY <1>1, <1>2, <2>1, <2>4
  <2> QED
    BY <1>1, <2>2, <2>3, <2>4
<1>10. BlankBelow'
  <2>1. (y + 2) * VGA_WIDTH = (y + 1) * VGA_WIDTH + VGA_WIDTH
    BY <1>1, NextRow, Sizes
  <2> QED
    BY <1>1, <1>2, <1>6, <2>1, Sizes DEF ConsoleInv, BlankBelow, Cells
<1> QED
  BY <1>7, <1>8, <1>9, <1>10 DEF ConsoleInv

(***************************************************************************)
(* scroll: the row it brings to the bottom of the display comes from       *)
(* behind it, where nothing was written unless a line ran over.            *)
(***************************************************************************)
LEMMA ScrollStep ==
  ASSUME ConsoleInv, scroll
  PROVE  ConsoleInv'
<1>1. /\ lines \in Seq(Seq(Chars \union {Blank})) /\ Len(lines) = VGA_HEIGHT + 1
      /\ y = VGA_HEIGHT
  BY State, Sizes DEF scroll
<1>2. /\ buff' = moved /\ y' = y /\ x' = 0
      /\ pos' = VGA_HEIGHT * VGA_WIDTH /\ cursor' = VGA_HEIGHT * VGA_WIDTH + 0
      /\ lines' = Append(Tail(lines), <<>>) /\ fits' = fits
  BY <1>1 DEF scroll, scrolled_row, vga_position_cursor
<1>3. <<>> \in Seq(Chars \union {Blank}) /\ Len(<<>>) = 0
  OBVIOUS
<1>4. /\ Tail(lines) \in Seq(Seq(Chars \union {Blank})) /\ Len(Tail(lines)) = VGA_HEIGHT
      /\ \A k \in 1 .. VGA_HEIGHT : Tail(lines)[k] = lines[k + 1]
  BY <1>1, Sizes
<1>5. /\ lines' \in Seq(Seq(Chars \union {Blank})) /\ Len(lines') = VGA_HEIGHT + 1
      /\ lines'[VGA_HEIGHT + 1] = <<>>
      /\ \A k \in 1 .. VGA_HEIGHT : lines'[k] = lines[k + 1]
  <2>1. PICK S, t, e : S = Seq(Chars \union {Blank}) /\ t = Tail(lines) /\ e = <<>>
    OBVIOUS
  <2>2. t \in Seq(S) /\ e \in S /\ lines' = Append(t, e)
    BY <1>2, <1>3, <1>4, <2>1, Zenon
  <2>3. /\ lines' \in Seq(S) /\ Len(lines') = Len(t) + 1
        /\ lines'[Len(t) + 1] = e
        /\ \A k \in 1 .. Len(t) : lines'[k] = t[k]
    BY <2>2, AppendProperties
  <2> QED
    BY <1>4, <2>1, <2>3, Zenon
<1>6. Line' = <<>> /\ Len(Line') = 0
  BY <1>3, <1>5 DEF Line
<1>7. VGA_HEIGHT * VGA_WIDTH \in Nat /\ (VGA_HEIGHT + 1) * VGA_WIDTH \in Nat
  BY NextRow, Sizes
<1>8. \A i \in Cells : i < SCROLLED - VGA_WIDTH => i + VGA_WIDTH \in Cells
  BY Sizes DEF Cells
<1>9. buff \in [Cells -> Chars \union {Blank}] /\ buff' \in [Cells -> Chars \union {Blank}]
  BY <1>2, <1>8 DEF moved, ConsoleInv, ConsoleTypeOK
<1>10. ConsoleTypeOK'
  <2>1. /\ VGA_HEIGHT \in 0 .. VGA_HEIGHT /\ 0 \in 0 .. MaxLine /\ 0 < MaxLine
        /\ 0 \in 0 .. BYTE - 1
    BY Sizes, ConsoleAssumption
  <2>2. /\ pos' \in 0 .. SCROLLED /\ pos' \in Cells
        /\ cursor' \in NoCursor .. VGA_HEIGHT * VGA_WIDTH + BYTE - 1
    <3>1. pos' = VGA_HEIGHT * VGA_WIDTH + 0
      BY <1>2, <1>7
    <3> QED
      BY <1>2, <2>1, <3>1, InBuffer
  <2> QED
    BY <1>1, <1>2, <1>5, <1>6, <1>9, <2>1, <2>2 DEF ConsoleInv, ConsoleTypeOK
<1>11. PositionFollowsLine' /\ CursorFollows'
  BY <1>1, <1>2, <1>5, <1>6, <1>7, Sizes DEF PositionFollowsLine, CursorFollows
<1>12. ScreenShowsLines'
  <2> SUFFICES ASSUME NEW r \in 0 .. VGA_HEIGHT, NEW c \in 0 .. VGA_WIDTH - 1
               PROVE  ScreenShowsLines!(r, c)'
    BY DEF ScreenShowsLines
  <2> DEFINE i == r * VGA_WIDTH + c
  <2>1. i \in Cells /\ r * VGA_WIDTH \in Nat /\ i < SCROLLED - VGA_WIDTH
    BY DisplayCell
  <2>2. buff'[i] = buff[i + VGA_WIDTH]
    BY <1>2, <2>1 DEF moved
  <2>3. i + VGA_WIDTH = (r + 1) * VGA_WIDTH + c
    <3>1. (r + 1) * VGA_WIDTH = r * VGA_WIDTH + VGA_WIDTH
      BY NextRow, Sizes
    <3> QED
      BY <2>1, <3>1, Sizes
  <2> HIDE DEF i
  <2>4. CASE r < VGA_HEIGHT
    <3>1. r + 1 \in 0 .. VGA_HEIGHT /\ lines'[r + 1] = lines[(r + 1) + 1]
      BY <1>5, <2>4, Sizes
    <3>2. IF r + 1 <= y /\ c < Len(lines[(r + 1) + 1])
          THEN buff[(r + 1) * VGA_WIDTH + c] = lines[(r + 1) + 1][c + 1]
          ELSE fits => buff[(r + 1) * VGA_WIDTH + c] = Blank
      BY <3>1 DEF ConsoleInv, ScreenShowsLines
    <3>3. r + 1 <= y /\ r <= y'
      BY <1>1, <1>2, <2>4, Sizes
    <3> QED
      BY <1>2, <2>2, <2>3, <3>1, <3>2, <3>3 DEF i
  <2>5. CASE r = VGA_HEIGHT
    <3>1. lines'[r + 1] = <<>> /\ ~(c < 0)
      BY <1>5, <2>5, Sizes
    <3>2. i + VGA_WIDTH \in Cells /\ i + VGA_WIDTH >= (y + 1) * VGA_WIDTH
      BY <1>1, <1>7, <1>8, <2>1, <2>3, <2>5, Sizes
    <3>3. fits => buff'[i] = Blank
      BY <2>2, <3>2 DEF ConsoleInv, BlankBelow
    <3> QED
      BY <1>2, <1>3, <3>1, <3>3 DEF i
  <2> QED
    BY <2>4, <2>5, Sizes
<1>13. BlankBelow'
  <2> SUFFICES ASSUME fits, NEW i \in Cells, i >= (VGA_HEIGHT + 1) * VGA_WIDTH
               PROVE  buff'[i] = Blank
    BY <1>1, <1>2 DEF BlankBelow
  <2>1. CASE i < SCROLLED - VGA_WIDTH
    <3>1. buff'[i] = buff[i + VGA_WIDTH] /\ i + VGA_WIDTH \in Cells
      BY <1>2, <1>8, <2>1 DEF moved
    <3>2. i + VGA_WIDTH >= (y + 1) * VGA_WIDTH
      BY <1>1, <1>7, Sizes DEF Cells
    <3> QED
      BY <3>1, <3>2 DEF ConsoleInv, BlankBelow
  <2>2. CASE ~(i < SCROLLED - VGA_WIDTH)
    <3>1. buff'[i] = buff[i]
      BY <1>2, <2>2 DEF moved
    <3> QED
      BY <1>1, <3>1 DEF ConsoleInv, BlankBelow
  <2> QED
    BY <2>1, <2>2
<1> QED
  BY <1>10, <1>11, <1>12, <1>13 DEF ConsoleInv

\* screen_clean blanks the cells and with them the lines, and moves nothing.
LEMMA CleanStep ==
  ASSUME ConsoleInv, screen_clean
  PROVE  ConsoleInv'
<1>1. /\ lines \in Seq(Seq(Chars \union {Blank})) /\ Len(lines) = y + 1
      /\ y \in 0 .. VGA_HEIGHT
  BY State
<1>2. /\ buff' = [i \in Cells |-> Blank]
      /\ lines' = [k \in DOMAIN lines |-> [j \in DOMAIN lines[k] |-> Blank]]
      /\ UNCHANGED <<x, y, pos, cursor, fits>>
  BY DEF screen_clean
<1>3. DOMAIN lines = 1 .. Len(lines) /\ Len(lines) \in Nat
  BY <1>1
<1>4. \A k \in 1 .. Len(lines) :
        /\ lines'[k] \in Seq(Chars \union {Blank})
        /\ Len(lines'[k]) = Len(lines[k])
        /\ \A j \in 1 .. Len(lines[k]) : lines'[k][j] = Blank
  <2> SUFFICES ASSUME NEW k \in 1 .. Len(lines)
               PROVE  /\ lines'[k] \in Seq(Chars \union {Blank})
                      /\ Len(lines'[k]) = Len(lines[k])
                      /\ \A j \in 1 .. Len(lines[k]) : lines'[k][j] = Blank
    OBVIOUS
  <2>1. lines[k] \in Seq(Chars \union {Blank})
    BY <1>1
  <2>2. DOMAIN lines[k] = 1 .. Len(lines[k]) /\ Len(lines[k]) \in Nat
    BY <2>1
  <2>3. lines'[k] = [j \in 1 .. Len(lines[k]) |-> Blank]
    BY <1>2, <1>3, <2>2
  <2> QED
    BY <2>2, <2>3
<1>5. lines' \in Seq(Seq(Chars \union {Blank})) /\ Len(lines') = Len(lines)
  <2>1. lines' = [k \in 1 .. Len(lines) |-> lines'[k]]
    BY <1>2, <1>3
  <2> QED
    BY <1>3, <1>4, <2>1
<1>6. Len(Line') = Len(Line)
  BY <1>1, <1>4, <1>5 DEF Line
<1>7. ConsoleTypeOK'
  BY <1>2, <1>5, <1>6 DEF ConsoleInv, ConsoleTypeOK
<1>8. PositionFollowsLine' /\ CursorFollows'
  BY <1>2, <1>5, <1>6 DEF ConsoleInv, PositionFollowsLine, CursorFollows
<1>9. ScreenShowsLines'
  <2> SUFFICES ASSUME NEW r \in 0 .. VGA_HEIGHT, NEW c \in 0 .. VGA_WIDTH - 1
               PROVE  ScreenShowsLines!(r, c)'
    BY DEF ScreenShowsLines
  <2>1. buff'[r * VGA_WIDTH + c] = Blank
    BY <1>2, DisplayCell
  <2>2. ASSUME r <= y, c < Len(lines'[r + 1])
        PROVE  lines'[r + 1][c + 1] = Blank
    <3>1. r + 1 \in 1 .. Len(lines) /\ lines[r + 1] \in Seq(Chars \union {Blank})
      BY <1>1, <2>2
    <3>2. Len(lines'[r + 1]) = Len(lines[r + 1]) /\ Len(lines[r + 1]) \in Nat
      BY <1>4, <3>1
    <3>3. c + 1 \in 1 .. Len(lines[r + 1])
      BY <2>2, <3>2, Sizes
    <3> QED
      BY <1>4, <3>1, <3>3
  <2> QED
    BY <1>2, <2>1, <2>2
<1>10. BlankBelow'
  BY <1>2 DEF BlankBelow
<1> QED
  BY <1>7, <1>8, <1>9, <1>10 DEF ConsoleInv

-----------------------------------------------------------------------------
(***************************************************************************)
(* Whatever is printed, the driver's position, the cursor and the cells    *)
(* agree with the lines printed so far.                                    *)
(***************************************************************************)
THEOREM ConsoleInvariant == Spec => []ConsoleInv
<1>1. ConsoleInv /\ [Next]_vars => ConsoleInv'
  <2> SUFFICES ASSUME ConsoleInv, [Next]_vars PROVE ConsoleInv'
    OBVIOUS
  <2>1. CASE UNCHANGED vars
    BY <2>1 DEF vars, ConsoleInv, ConsoleTypeOK, PositionFollowsLine, ScreenShowsLines,
                CursorFollows, BlankBelow, Line
  <2> QED
    BY <2>1, WriteStep, NewlineStep, ScrollStep, CleanStep DEF Next, ignore
<1> QED
  BY <1>1, InitConsole, PTL DEF Spec

(***************************************************************************)
(* The row of vga stays on the display, and vga_write_b writes inside the  *)
(* VGA_MAX cells of the buffer, however often scroll has run, for lines of *)
(* up to MaxLine characters.                                               *)
(***************************************************************************)
THEOREM ConsoleTypes == Spec => []ConsoleTypeOK
<1>1. ConsoleInv => ConsoleTypeOK
  BY DEF ConsoleInv
<1> QED
  BY <1>1, ConsoleInvariant, PTL

\* vga.pos is always behind the last character of the current line.
THEOREM PositionIsRight == Spec => []PositionFollowsLine
<1>1. ConsoleInv => PositionFollowsLine
  BY DEF ConsoleInv
<1> QED
  BY <1>1, ConsoleInvariant, PTL

(***************************************************************************)
(* The display shows the lines printed last, however often scroll has run  *)
(* and however long the lines were.                                        *)
(***************************************************************************)
THEOREM DisplayIsRight == Spec => []ScreenShowsLines
<1>1. ConsoleInv => ScreenShowsLines
  BY DEF ConsoleInv
<1> QED
  BY <1>1, ConsoleInvariant, PTL

\* vga_position_cursor leaves the cursor at vga.pos until x has wrapped.
THEOREM CursorIsRight == Spec => []CursorFollows
<1>1. ConsoleInv => CursorFollows
  BY DEF ConsoleInv
<1> QED
  BY <1>1, ConsoleInvariant, PTL
=============================================================================
