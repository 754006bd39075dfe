---------------------------- MODULE TerminalCore ----------------------------
(***************************************************************************)
(* The live screen of a session, terminal_core/mod.rs, driven by the       *)
(* control functions ansi_parser/mod.rs dispatches, in any order and with  *)
(* any arguments.                                                          *)
(*                                                                         *)
(* A cell is what is drawn in it, attributes included; Blank is            *)
(* Cell::default(), and a space with attributes counts as blank.  Rows and *)
(* columns are numbered from 0, as in the code.                            *)
(*                                                                         *)
(* An index outside the grid panics: `panicked`, after which nothing more  *)
(* is done.                                                                *)
(***************************************************************************)
EXTENDS Integers, Sequences

CONSTANTS Chars,      \* what a program prints
          Blank,      \* Cell::default()
          Sizes,      \* the <<rows, cols>> the window may have
          Args,       \* the numbers that come with a control sequence
          MaxHistory  \* bound: lines scrolled off the screen

NoSave == <<>>

VARIABLES
  rows, cols,
  grid,                   \* [0 .. rows - 1 -> [0 .. cols - 1 -> cell]]
  cursor_row, cursor_col, \* cursor_col = cols: the next character wraps
  saved_cursor,           \* NoSave or <<row, col>>
  scroll_top, scroll_bottom,
  history,                \* lines pushed to the VirtualBuffer
  panicked,
  plain,                  \* ghost: only text, line motions and clears so far
  written                 \* ghost: the rows a plain program wrote, in order

screen == <<rows, cols, grid, cursor_row, cursor_col>>
marks  == <<saved_cursor, scroll_top, scroll_bottom>>
ghosts == <<plain, written>>
vars   == <<screen, marks, history, panicked, ghosts>>

Cells == Chars \union {Blank}

ASSUME SizesAssumption == Sizes \subseteq Nat \X Nat
ASSUME ArgsAssumption == Args \subseteq Nat
ASSUME CellsAssumption == Blank \notin Chars

AtMost(n, m) == IF n <= m THEN n ELSE m    \* n.min(m)
Less(n, m)   == IF n <= m THEN 0 ELSE n - m \* n.saturating_sub(m)
OrOne(n)     == IF n = 0 THEN 1 ELSE n     \* n.max(1)

BlankRow(c) == [x \in 0 .. c - 1 |-> Blank]

HasInk(row) == \E x \in DOMAIN row : row[x] # Blank

(* The rows with something on them; a recursive function and not SelectSeq, *)
(* which the provers do not expand.                                        *)
Inked(lines) ==
  LET kept[n \in 0 .. Len(lines)] ==
        IF n = 0 THEN << >>
        ELSE IF HasInk(lines[n]) THEN Append(kept[n - 1], lines[n])
        ELSE kept[n - 1]
  IN  kept[Len(lines)]

Line(cells, wrapped) == [cells |-> cells, wrapped |-> wrapped]

Panic ==
  /\ panicked' = TRUE
  /\ UNCHANGED <<screen, marks, history, ghosts>>

-----------------------------------------------------------------------------
(* newline: move down, or scroll the region and hand its first row to      *)
(* history.  A cursor below the region scrolls it as well.                 *)

AtBottom == cursor_row >= scroll_bottom

(* Vec::remove(scroll_top) on a grid that has no such row.                 *)
CannotScroll == AtBottom /\ scroll_top >= rows

(* Mutant: the row under the cursor leaves, not the first of the region.   *)
Evicted_Cursor == grid[cursor_row]
Evicted == grid[scroll_top]

RowAfterNewline == IF AtBottom THEN cursor_row ELSE cursor_row + 1

GridAfterNewline ==
  IF AtBottom
  THEN [y \in 0 .. rows - 1 |->
          IF y < scroll_top \/ y > scroll_bottom THEN grid[y]
          ELSE IF y < scroll_bottom THEN grid[y + 1]
          ELSE BlankRow(cols)]
  ELSE grid

HistoryAfterNewline(wrap) ==
  IF AtBottom THEN Append(history, Line(Evicted, wrap)) ELSE history

HistoryHasRoom == Len(history) < MaxHistory

-----------------------------------------------------------------------------
(* What a plain program wrote: one row per line, cut where the screen      *)
(* wraps, without the blank ones.                                          *)

WrittenPrint(c) ==
  IF cursor_col >= cols
  THEN Append(written, [BlankRow(cols) EXCEPT ![0] = c])
  ELSE [written EXCEPT ![Len(written)] = [@ EXCEPT ![cursor_col] = c]]

WrittenBreak ==
  IF HasInk(written[Len(written)]) THEN Append(written, BlankRow(cols)) ELSE written

NotPlain == plain' = FALSE /\ written' = <<>>

-----------------------------------------------------------------------------
(* Characters and C0 controls.                                             *)

PrintChar(c) ==
  LET wraps == cursor_col >= cols
      row   == IF wraps THEN RowAfterNewline ELSE cursor_row
      col   == IF wraps THEN 0 ELSE cursor_col
  IN  /\ (wraps /\ AtBottom) => HistoryHasRoom
      /\ IF (wraps /\ CannotScroll) \/ row >= rows \/ col >= cols
         THEN Panic
         ELSE /\ grid' = [IF wraps THEN GridAfterNewline ELSE grid
                            EXCEPT ![row][col] = c]
              /\ history' = IF wraps THEN HistoryAfterNewline(TRUE) ELSE history
              /\ cursor_row' = row
              /\ cursor_col' = col + 1
              /\ written' = IF plain THEN WrittenPrint(c) ELSE written
              /\ UNCHANGED <<rows, cols, marks, panicked, plain>>

LineFeed ==
  /\ AtBottom => HistoryHasRoom
  /\ IF CannotScroll
     THEN Panic
     ELSE /\ grid' = GridAfterNewline
          /\ history' = HistoryAfterNewline(FALSE)
          /\ cursor_row' = RowAfterNewline
          /\ cursor_col' = 0
          /\ written' = IF plain THEN WrittenBreak ELSE written
          /\ UNCHANGED <<rows, cols, marks, panicked, plain>>

MoveTo(row, col) ==
  /\ cursor_row' = row
  /\ cursor_col' = col
  /\ IF row = cursor_row THEN UNCHANGED ghosts ELSE NotPlain
  /\ UNCHANGED <<rows, cols, grid, marks, history, panicked>>

CarriageReturn == MoveTo(cursor_row, 0)
Backspace      == MoveTo(cursor_row, Less(cursor_col, 1))
TabStop        == MoveTo(cursor_row, AtMost((cursor_col \div 8 + 1) * 8, Less(cols, 1)))

-----------------------------------------------------------------------------
(* Cursor movement; the parser turns a missing or zero number into 1.      *)

CursorUp(n)      == MoveTo(Less(cursor_row, OrOne(n)), cursor_col)
CursorDown(n)    == MoveTo(AtMost(cursor_row + OrOne(n), Less(rows, 1)), cursor_col)
CursorForward(n) == MoveTo(cursor_row, AtMost(cursor_col + OrOne(n), Less(cols, 1)))
CursorBack(n)    == MoveTo(cursor_row, Less(cursor_col, OrOne(n)))

CursorTo(r, c) == MoveTo(AtMost(Less(OrOne(r), 1), Less(rows, 1)),
                         AtMost(Less(OrOne(c), 1), Less(cols, 1)))

SaveCursor ==
  /\ saved_cursor' = <<cursor_row, cursor_col>>
  /\ UNCHANGED <<screen, scroll_top, scroll_bottom, history, panicked, ghosts>>

RestoreCursor ==
  /\ saved_cursor # NoSave
  /\ MoveTo(saved_cursor[1], saved_cursor[2])

(* DECSTBM; without a bottom it ends at the last row, and a region of less  *)
(* than two rows is the whole screen.                                      *)
SetScrollRegion(t, b) ==
  LET top    == AtMost(Less(OrOne(t), 1), Less(rows, 1))
      bottom == AtMost(Less(b, 1), Less(rows, 1))
  IN  /\ scroll_top'    = IF top < bottom THEN top ELSE 0
      /\ scroll_bottom' = IF top < bottom THEN bottom ELSE Less(rows, 1)
      /\ NotPlain
      /\ UNCHANGED <<screen, saved_cursor, history, panicked>>

-----------------------------------------------------------------------------
(* Erasing.  ErasedLine is what erase_in_line leaves of the cursor's row;  *)
(* LineOutside says when its slice is outside that row.                    *)

ErasedLine(mode) ==
  [x \in 0 .. cols - 1 |->
     IF \/ mode = 0 /\ x >= cursor_col
        \/ mode = 1 /\ x <= cursor_col
        \/ mode = 2
     THEN Blank ELSE grid[cursor_row][x]]

LineOutside(mode) ==
  \/ cursor_row >= rows
  \/ mode = 0 /\ cursor_col > cols
  \/ mode = 1 /\ cols = 0

EraseInLine(mode) ==
  IF LineOutside(mode)
  THEN Panic
  ELSE /\ grid' = [grid EXCEPT ![cursor_row] = ErasedLine(mode)]
       /\ NotPlain
       /\ UNCHANGED <<rows, cols, cursor_row, cursor_col, marks, history, panicked>>

(* Mode 0 erases from the cursor on, mode 1 up to it.                      *)
ErasePart(mode) ==
  IF LineOutside(mode)
  THEN Panic
  ELSE /\ grid' = [y \in 0 .. rows - 1 |->
                     IF y = cursor_row THEN ErasedLine(mode)
                     ELSE IF \/ mode = 0 /\ y > cursor_row
                             \/ mode = 1 /\ y < cursor_row
                     THEN BlankRow(cols)
                     ELSE grid[y]]
       /\ NotPlain
       /\ UNCHANGED <<rows, cols, cursor_row, cursor_col, marks, history, panicked>>

(* Modes 2 and 3: every row with something on it goes to history, the      *)
(* screen is cleared, the cursor stays.                                    *)
RowSeq(g, n) == [i \in 1 .. n |-> g[i - 1]]

(* Mutant: stops at the cursor's row.                                      *)
Cleared_AboveCursor == Inked(RowSeq(grid, AtMost(cursor_row, rows)))
Cleared == Inked(RowSeq(grid, rows))

ClearScreen ==
  /\ Len(history) + Len(Cleared) <= MaxHistory
  /\ history' = history \o [i \in 1 .. Len(Cleared) |-> Line(Cleared[i], FALSE)]
  /\ grid' = [y \in 0 .. rows - 1 |-> BlankRow(cols)]
  /\ written' = IF plain THEN WrittenBreak ELSE written
  /\ UNCHANGED <<rows, cols, cursor_row, cursor_col, marks, panicked, plain>>

-----------------------------------------------------------------------------
(* resize: rows are cut or added at the bottom, columns at the right.      *)
(* scroll_top and the saved cursor stay what they were.                    *)

(* Mutant: only the column is kept inside.                                 *)
ClampedRow_Not(r) == cursor_row
ClampedRow(r) == AtMost(cursor_row, Less(r, 1))

(* Mutant: the rows that stay keep their width.                            *)
ResizedGrid_KeepsWidth(r, c) ==
  [y \in 0 .. r - 1 |-> IF y < rows THEN grid[y] ELSE BlankRow(c)]
ResizedGrid(r, c) ==
  [y \in 0 .. r - 1 |->
     [x \in 0 .. c - 1 |-> IF y < rows /\ x < cols THEN grid[y][x] ELSE Blank]]

Resize(r, c) ==
  /\ rows' = r
  /\ cols' = c
  /\ grid' = ResizedGrid(r, c)
  /\ scroll_bottom' = Less(r, 1)
  /\ cursor_row' = ClampedRow(r)
  /\ cursor_col' = AtMost(cursor_col, Less(c, 1))
  /\ NotPlain
  /\ UNCHANGED <<saved_cursor, scroll_top, history, panicked>>

-----------------------------------------------------------------------------
Init ==
  /\ \E s \in Sizes :
       /\ rows = s[1]
       /\ cols = s[2]
       /\ scroll_bottom = Less(s[1], 1)
  /\ grid = [y \in 0 .. rows - 1 |-> BlankRow(cols)]
  /\ cursor_row = 0
  /\ cursor_col = 0
  /\ saved_cursor = NoSave
  /\ scroll_top = 0
  /\ history = <<>>
  /\ panicked = FALSE
  /\ plain = TRUE
  /\ written = <<BlankRow(cols)>>

(* One call of Perform::print, execute or csi_dispatch.                    *)
Control ==
  \/ \E c \in Chars : PrintChar(c)
  \/ LineFeed
  \/ CarriageReturn
  \/ Backspace
  \/ TabStop
  \/ \E n \in Args : CursorUp(n) \/ CursorDown(n) \/ CursorForward(n) \/ CursorBack(n)
  \/ \E r, c \in Args : CursorTo(r, c)
  \/ SaveCursor
  \/ RestoreCursor
  \/ \E t \in Args, b \in Args \union {rows} : SetScrollRegion(t, b)
  \/ \E mode \in 0 .. 3 : EraseInLine(mode)
  \/ \E mode \in 0 .. 1 : ErasePart(mode)
  \/ ClearScreen

Next ==
  /\ ~panicked
  /\ \/ Control
     \/ \E s \in Sizes : Resize(s[1], s[2])

Spec == Init /\ [][Next]_vars

-----------------------------------------------------------------------------
(* The grid has the size it says, and every mark is a number.              *)
TypeOK ==
  /\ rows \in Nat /\ cols \in Nat
  /\ grid \in [0 .. rows - 1 -> [0 .. cols - 1 -> Cells]]
  /\ cursor_row \in Nat /\ cursor_col \in Nat
  /\ saved_cursor = NoSave \/ saved_cursor \in Nat \X Nat
  /\ scroll_top \in Nat /\ scroll_bottom \in Nat
  /\ panicked \in BOOLEAN
  /\ plain \in BOOLEAN

(* A mark that a resize left outside the grid.                             *)
StaleRow == saved_cursor # NoSave /\ saved_cursor[1] >= rows
StaleCol == saved_cursor # NoSave /\ saved_cursor[2] > cols
StaleTop == scroll_top >= rows

(* No sequence of output and resizes makes the program panic, unless the   *)
(* grid has no row or no column, or the saved cursor or the first row of   *)
(* the scroll region is from before the window shrank.                     *)
OnlyStaleMarksPanic ==
  panicked => \/ rows = 0 \/ cols = 0
              \/ StaleRow \/ StaleCol \/ StaleTop

Pushed == [i \in 1 .. Len(history) |-> history[i].cells]

(* A program that only writes lines and clears the screen: what has any    *)
(* text is found again in history followed by the screen, each row once    *)
(* and in the order it was written.                                        *)
ScrollbackIsComplete ==
  plain => Inked(Pushed \o RowSeq(grid, rows)) = Inked(written)

(* A line of history marked `wrapped` is continued by the next one: a row  *)
(* ends early only where the program ended it (cell.rs: "True if the next  *)
(* line is a soft-wrap continuation of this one").                         *)
WrappedMeansContinued ==
  plain => \A i \in 1 .. Len(history) :
             history[i].wrapped => history[i].cells[cols - 1] # Blank
=============================================================================
