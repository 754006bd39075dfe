------------------------- MODULE TerminalCoreProofs -------------------------
(***************************************************************************)
(* For every set of window sizes, arguments and characters: the grid of    *)
(* terminal_core/mod.rs always has the size it says, and only a grid       *)
(* without a row or a column, or a mark left over from before a resize,    *)
(* can make an index leave it. And no row a plain program wrote something  *)
(* on is lost between the screen and the scrollback.                       *)
(***************************************************************************)
EXTENDS TerminalCore, SequenceTheorems, WellFoundedInduction, TLAPS

(* The scroll region lies in the grid, unless its first row is stale.      *)
RegionInGrid ==
  /\ scroll_bottom < rows \/ rows = 0
  /\ scroll_top <= scroll_bottom \/ StaleTop

(* The cursor lies in the grid or just right of it, unless it may have     *)
(* been restored from a stale mark.                                        *)
CursorInGrid ==
  /\ cursor_row < rows \/ rows = 0 \/ StaleRow
  /\ cursor_col <= cols \/ StaleCol

IInv == TypeOK /\ RegionInGrid /\ CursorInGrid /\ OnlyStaleMarksPanic

-----------------------------------------------------------------------------
(* The arithmetic of the code stays among the natural numbers: min,        *)
(* saturating_sub and max(1).                                              *)
LEMMA Arithmetic ==
  ASSUME NEW n \in Nat, NEW m \in Nat
  PROVE  /\ AtMost(n, m) \in Nat /\ AtMost(n, m) <= m /\ AtMost(n, m) <= n
         /\ Less(n, m) \in Nat /\ Less(n, m) <= n
         /\ (n > 0 /\ m > 0) => Less(n, m) < n
         /\ Less(0, m) = 0
         /\ OrOne(n) \in Nat /\ OrOne(n) > 0
BY DEF AtMost, Less, OrOne

(* Every row resize and scrolling put in the grid is a row of cells.       *)
LEMMA BlankRowType ==
  ASSUME NEW c \in Nat
  PROVE  BlankRow(c) \in [0 .. c - 1 -> Cells]
BY DEF BlankRow, Cells

(* newline leaves a grid of the same size, if there is a row to remove.    *)
LEMMA NewlineKeepsSize ==
  ASSUME TypeOK, RegionInGrid, ~CannotScroll
  PROVE  GridAfterNewline \in [0 .. rows - 1 -> [0 .. cols - 1 -> Cells]]
<1>1. CASE ~AtBottom
  BY <1>1 DEF GridAfterNewline, TypeOK
<1>2. CASE AtBottom
  <2>1. /\ rows \in Nat /\ cols \in Nat /\ scroll_top \in Nat
        /\ scroll_bottom \in Nat /\ scroll_top < rows /\ scroll_bottom < rows
    BY <1>2 DEF TypeOK, RegionInGrid, CannotScroll
  <2>2. ASSUME NEW y \in 0 .. rows - 1
        PROVE  (IF y < scroll_top \/ y > scroll_bottom THEN grid[y]
                ELSE IF y < scroll_bottom THEN grid[y + 1]
                ELSE BlankRow(cols)) \in [0 .. cols - 1 -> Cells]
    <3>1. CASE y < scroll_top \/ y > scroll_bottom
      BY <2>1, <3>1 DEF TypeOK
    <3>2. CASE scroll_top <= y /\ y < scroll_bottom
      <4>1. y + 1 \in 0 .. rows - 1
        BY <2>1, <3>2
      <4>2. QED
        BY <2>1, <3>2, <4>1 DEF TypeOK
    <3>3. CASE y = scroll_bottom /\ scroll_top <= y
      BY <2>1, <3>3, BlankRowType
    <3>4. QED
      BY <2>1, <3>1, <3>2, <3>3
  <2>3. QED
    BY <1>2, <2>2 DEF GridAfterNewline
<1>3. QED
  BY <1>1, <1>2

(* Where newline leaves the cursor.                                        *)
LEMMA NewlineKeepsRow ==
  ASSUME TypeOK, RegionInGrid, CursorInGrid
  PROVE  /\ RowAfterNewline \in Nat
         /\ RowAfterNewline < rows \/ rows = 0 \/ StaleRow
BY DEF TypeOK, RegionInGrid, CursorInGrid, RowAfterNewline, AtBottom

(* A panic where one of the excuses holds keeps the invariant.             *)
LEMMA PanicKeeps ==
  ASSUME IInv, Panic,
         rows = 0 \/ cols = 0 \/ StaleRow \/ StaleCol \/ StaleTop
  PROVE  IInv'
BY DEF IInv, TypeOK, RegionInGrid, CursorInGrid, OnlyStaleMarksPanic, Panic,
       screen, marks, ghosts, StaleRow, StaleCol, StaleTop

(* A cursor motion to a place in the grid, or out of stale marks.          *)
LEMMA MoveKeeps ==
  ASSUME IInv, ~panicked, NEW r \in Nat, NEW c \in Nat, MoveTo(r, c),
         r < rows \/ rows = 0 \/ StaleRow,
         c <= cols \/ StaleCol
  PROVE  IInv'
<1>1. TypeOK'
  BY DEF IInv, TypeOK, MoveTo, marks, ghosts, NotPlain
<1>2. RegionInGrid' /\ CursorInGrid' /\ OnlyStaleMarksPanic'
  BY DEF IInv, RegionInGrid, CursorInGrid, OnlyStaleMarksPanic, MoveTo, marks,
         StaleRow, StaleCol, StaleTop
<1>3. QED
  BY <1>1, <1>2 DEF IInv

(* A step that only writes cells: the marks stay, the grid keeps its size. *)
LEMMA WriteKeeps ==
  ASSUME IInv, ~panicked, UNCHANGED <<rows, cols, cursor_row, cursor_col, marks, panicked>>,
         plain' \in BOOLEAN,
         grid' \in [0 .. rows - 1 -> [0 .. cols - 1 -> Cells]]
  PROVE  IInv'
<1>1. TypeOK'
  BY DEF IInv, TypeOK, marks
<1>2. RegionInGrid' /\ CursorInGrid' /\ OnlyStaleMarksPanic'
  BY DEF IInv, RegionInGrid, CursorInGrid, OnlyStaleMarksPanic, marks,
         StaleRow, StaleCol, StaleTop
<1>3. QED
  BY <1>1, <1>2 DEF IInv

-----------------------------------------------------------------------------
(* One lemma per operation, or per group of operations that change the     *)
(* same part of the state.                                                 *)

(* Setting one cell of a grid keeps its size.                              *)
LEMMA SetCellType ==
  ASSUME NEW R \in Nat, NEW C \in Nat,
         NEW g \in [0 .. R - 1 -> [0 .. C - 1 -> Cells]],
         NEW r \in 0 .. R - 1, NEW k \in 0 .. C - 1, NEW ch \in Chars
  PROVE  [g EXCEPT ![r][k] = ch] \in [0 .. R - 1 -> [0 .. C - 1 -> Cells]]
BY DEF Cells

(* PrintChar: the character lands inside the grid, or an excuse for the panic  *)
(* holds.                                                                  *)
LEMMA PrintKeeps ==
  ASSUME IInv, ~panicked, NEW ch \in Chars, PrintChar(ch)
  PROVE  IInv'
<1> DEFINE wraps == cursor_col >= cols
           row   == IF wraps THEN RowAfterNewline ELSE cursor_row
           col   == IF wraps THEN 0 ELSE cursor_col
           out   == (wraps /\ CannotScroll) \/ row >= rows \/ col >= cols
<1>1. /\ rows \in Nat /\ cols \in Nat /\ row \in Nat /\ col \in Nat
      /\ row < rows \/ rows = 0 \/ StaleRow
      /\ col < cols \/ cols = 0
      /\ CannotScroll => StaleTop
  BY NewlineKeepsRow DEF IInv, TypeOK, CursorInGrid, CannotScroll, StaleTop
<1>2. CASE out
  <2>1. Panic
    BY <1>2 DEF PrintChar
  <2>2. rows = 0 \/ cols = 0 \/ StaleRow \/ StaleCol \/ StaleTop
    BY <1>1, <1>2
  <2>3. QED
    BY <2>1, <2>2, PanicKeeps
<1>3. CASE ~out
  <2>1. /\ grid' = [IF wraps THEN GridAfterNewline ELSE grid EXCEPT ![row][col] = ch]
        /\ cursor_row' = row
        /\ cursor_col' = col + 1
        /\ UNCHANGED <<rows, cols, marks, panicked, plain>>
    BY <1>3 DEF PrintChar
  <2>2. row \in 0 .. rows - 1 /\ col \in 0 .. cols - 1
    <3>1. ~(row >= rows) /\ ~(col >= cols)
      BY <1>3
    <3> HIDE DEF row, col, wraps
    <3>2. QED
      BY <1>1, <3>1
  <2>3. (IF wraps THEN GridAfterNewline ELSE grid)
          \in [0 .. rows - 1 -> [0 .. cols - 1 -> Cells]]
    <3>1. CASE wraps
      BY <1>3, <3>1, NewlineKeepsSize DEF IInv
    <3>2. CASE ~wraps
      BY <3>2 DEF IInv, TypeOK
    <3>3. QED
      BY <3>1, <3>2
  <2>4. grid' \in [0 .. rows - 1 -> [0 .. cols - 1 -> Cells]]
    <3> HIDE DEF row, col, wraps
    <3>1. QED
      BY <1>1, <2>1, <2>2, <2>3, SetCellType
  <2>5. /\ cursor_row' \in Nat /\ cursor_row' < rows
        /\ cursor_col' \in Nat /\ cursor_col' <= cols
    BY <1>1, <2>1, <2>2
  <2>6. TypeOK'
    BY <2>1, <2>4, <2>5 DEF IInv, TypeOK, marks
  <2>7. RegionInGrid' /\ CursorInGrid' /\ OnlyStaleMarksPanic'
    BY <2>1, <2>5 DEF IInv, RegionInGrid, CursorInGrid, OnlyStaleMarksPanic, marks,
                      StaleRow, StaleCol, StaleTop
  <2>8. QED
    BY <2>6, <2>7 DEF IInv
<1>4. QED
  BY <1>2, <1>3

(* LineFeed: only a stale first row of the region can fail.                *)
LEMMA LineFeedKeeps ==
  ASSUME IInv, ~panicked, LineFeed
  PROVE  IInv'
<1>1. CASE CannotScroll
  BY <1>1, PanicKeeps DEF LineFeed, CannotScroll, StaleTop
<1>2. CASE ~CannotScroll
  <2>1. /\ grid' = GridAfterNewline
        /\ cursor_row' = RowAfterNewline
        /\ cursor_col' = 0
        /\ UNCHANGED <<rows, cols, marks, panicked, plain>>
    BY <1>2 DEF LineFeed
  <2>2. GridAfterNewline \in [0 .. rows - 1 -> [0 .. cols - 1 -> Cells]]
    BY <1>2, NewlineKeepsSize DEF IInv
  <2>3. /\ RowAfterNewline \in Nat
        /\ RowAfterNewline < rows \/ rows = 0 \/ StaleRow
    BY NewlineKeepsRow DEF IInv
  <2>4. TypeOK'
    BY <2>1, <2>2, <2>3 DEF IInv, TypeOK, marks
  <2>5. RegionInGrid' /\ CursorInGrid' /\ OnlyStaleMarksPanic'
    BY <2>1, <2>3 DEF IInv, TypeOK, RegionInGrid, CursorInGrid, OnlyStaleMarksPanic,
                      marks, StaleRow, StaleCol, StaleTop
  <2>6. QED
    BY <2>4, <2>5 DEF IInv
<1>3. QED
  BY <1>1, <1>2

(* Cursor motions: each target is in the grid when it has any cell, or     *)
(* differs from the cursor only towards the origin.                        *)
LEMMA MotionKeeps ==
  ASSUME IInv, ~panicked, NEW n \in Nat, NEW r \in Nat, NEW k \in Nat,
         \/ CarriageReturn \/ Backspace \/ TabStop
         \/ CursorUp(n) \/ CursorDown(n) \/ CursorForward(n) \/ CursorBack(n)
         \/ CursorTo(r, k)
         \/ RestoreCursor
  PROVE  IInv'
<1>1. /\ rows \in Nat /\ cols \in Nat /\ cursor_row \in Nat /\ cursor_col \in Nat
      /\ cursor_row < rows \/ rows = 0 \/ StaleRow
      /\ cursor_col <= cols \/ StaleCol
  BY DEF IInv, TypeOK, CursorInGrid
<1>2. /\ Less(cursor_col, 1) \in Nat /\ Less(cursor_col, 1) <= cursor_col
      /\ Less(cursor_row, OrOne(n)) \in Nat /\ Less(cursor_row, OrOne(n)) <= cursor_row
      /\ Less(cursor_col, OrOne(n)) \in Nat /\ Less(cursor_col, OrOne(n)) <= cursor_col
  BY <1>1, Arithmetic
<1>3. ASSUME NEW m \in Nat
      PROVE  /\ AtMost(m, Less(rows, 1)) \in Nat
             /\ AtMost(m, Less(rows, 1)) < rows \/ rows = 0
             /\ AtMost(m, Less(cols, 1)) \in Nat
             /\ AtMost(m, Less(cols, 1)) <= cols
  BY <1>1 DEF AtMost, Less
<1>4. CASE CarriageReturn
  BY <1>1, <1>4, MoveKeeps DEF CarriageReturn
<1>5. CASE Backspace
  BY <1>1, <1>2, <1>5, MoveKeeps DEF Backspace
<1>6. CASE TabStop
  <2> DEFINE stop == (cursor_col \div 8 + 1) * 8
  <2>1. stop \in Nat
    BY <1>1
  <2> HIDE DEF stop
  <2>2. AtMost(stop, Less(cols, 1)) \in Nat /\ AtMost(stop, Less(cols, 1)) <= cols
    BY <1>3, <2>1
  <2>3. MoveTo(cursor_row, AtMost(stop, Less(cols, 1)))
    BY <1>6 DEF TabStop, stop
  <2>4. QED
    BY <1>1, <2>2, <2>3, MoveKeeps
<1>7. CASE CursorUp(n)
  BY <1>1, <1>2, <1>7, MoveKeeps DEF CursorUp
<1>8. CASE CursorDown(n)
  <2>1. cursor_row + OrOne(n) \in Nat
    BY <1>1, Arithmetic
  <2>2. QED
    BY <1>1, <1>3, <1>8, <2>1, MoveKeeps DEF CursorDown
<1>9. CASE CursorForward(n)
  <2>1. cursor_col + OrOne(n) \in Nat
    BY <1>1, Arithmetic
  <2>2. QED
    BY <1>1, <1>3, <1>9, <2>1, MoveKeeps DEF CursorForward
<1>10. CASE CursorBack(n)
  BY <1>1, <1>2, <1>10, MoveKeeps DEF CursorBack
<1>11. CASE CursorTo(r, k)
  <2>1. Less(OrOne(r), 1) \in Nat /\ Less(OrOne(k), 1) \in Nat
    BY Arithmetic
  <2>2. QED
    BY <1>3, <1>11, <2>1, MoveKeeps DEF CursorTo
<1>12. CASE RestoreCursor
  <2>1. saved_cursor \in Nat \X Nat
    BY <1>12 DEF RestoreCursor, IInv, TypeOK
  <2>2. saved_cursor[1] \in Nat /\ saved_cursor[2] \in Nat
    BY <2>1
  <2>3. /\ saved_cursor[1] < rows \/ StaleRow
        /\ saved_cursor[2] <= cols \/ StaleCol
    BY <1>1, <1>12, <2>2 DEF RestoreCursor, StaleRow, StaleCol
  <2>4. QED
    BY <1>12, <2>2, <2>3, MoveKeeps DEF RestoreCursor
<1>13. QED
  BY <1>4, <1>5, <1>6, <1>7, <1>8, <1>9, <1>10, <1>11, <1>12

(* Saving the cursor: a cursor outside the grid leaves a stale mark.       *)
LEMMA SaveKeeps ==
  ASSUME IInv, ~panicked, SaveCursor
  PROVE  IInv'
<1>1. /\ saved_cursor' = <<cursor_row, cursor_col>>
      /\ UNCHANGED <<rows, cols, grid, cursor_row, cursor_col, scroll_top,
                     scroll_bottom, panicked, plain>>
  BY DEF SaveCursor, screen, ghosts
<1>2. cursor_row \in Nat /\ cursor_col \in Nat /\ rows \in Nat /\ cols \in Nat
  BY DEF IInv, TypeOK
<1>3. /\ saved_cursor'[1] = cursor_row /\ saved_cursor'[2] = cursor_col
      /\ saved_cursor' \in Nat \X Nat /\ saved_cursor' # NoSave
  BY <1>1, <1>2 DEF NoSave
<1>4. TypeOK'
  BY <1>1, <1>3 DEF IInv, TypeOK
<1>5. RegionInGrid' /\ OnlyStaleMarksPanic'
  BY <1>1 DEF IInv, RegionInGrid, OnlyStaleMarksPanic, StaleTop
<1>6. CursorInGrid'
  BY <1>1, <1>2, <1>3 DEF CursorInGrid, StaleRow, StaleCol
<1>7. QED
  BY <1>4, <1>5, <1>6 DEF IInv

(* A new scroll region lies in the grid.                                   *)
LEMMA RegionKeeps ==
  ASSUME IInv, ~panicked, NEW t \in Nat, NEW b \in Nat, SetScrollRegion(t, b)
  PROVE  IInv'
<1> DEFINE top    == AtMost(Less(OrOne(t), 1), Less(rows, 1))
           bottom == AtMost(Less(b, 1), Less(rows, 1))
<1>1. rows \in Nat
  BY DEF IInv, TypeOK
<1>2. /\ Less(OrOne(t), 1) \in Nat /\ Less(b, 1) \in Nat /\ Less(rows, 1) \in Nat
      /\ Less(rows, 1) < rows \/ rows = 0
  BY <1>1 DEF Less, OrOne
<1>3. /\ top \in Nat /\ bottom \in Nat
      /\ top < rows \/ rows = 0
      /\ bottom < rows \/ rows = 0
  BY <1>1, <1>2 DEF AtMost
<1>4. /\ scroll_top'    = IF top < bottom THEN top ELSE 0
      /\ scroll_bottom' = IF top < bottom THEN bottom ELSE Less(rows, 1)
      /\ UNCHANGED <<rows, cols, grid, cursor_row, cursor_col, saved_cursor, panicked>>
      /\ plain' = FALSE
  BY DEF SetScrollRegion, screen, NotPlain
<1> HIDE DEF top, bottom
<1>5. /\ scroll_top' \in Nat /\ scroll_bottom' \in Nat
      /\ scroll_bottom' < rows \/ rows = 0
      /\ scroll_top' <= scroll_bottom'
  BY <1>1, <1>2, <1>3, <1>4
<1>6. TypeOK'
  BY <1>4, <1>5 DEF IInv, TypeOK
<1>7. RegionInGrid' /\ CursorInGrid' /\ OnlyStaleMarksPanic'
  BY <1>4, <1>5 DEF IInv, RegionInGrid, CursorInGrid, OnlyStaleMarksPanic,
                    StaleRow, StaleCol
<1>8. QED
  BY <1>6, <1>7 DEF IInv

(* What erase_in_line leaves is a row of the same length.                  *)
LEMMA ErasedLineType ==
  ASSUME TypeOK, cursor_row < rows, NEW mode
  PROVE  ErasedLine(mode) \in [0 .. cols - 1 -> Cells]
BY DEF TypeOK, ErasedLine, Cells

(* Why erasing may panic.                                                  *)
LEMMA LineOutsideExcused ==
  ASSUME IInv, NEW mode, LineOutside(mode)
  PROVE  rows = 0 \/ cols = 0 \/ StaleRow \/ StaleCol
BY DEF IInv, TypeOK, CursorInGrid, LineOutside

(* EL and ED, modes 0 and 1 (and the unknown one of EL).                   *)
LEMMA EraseKeeps ==
  ASSUME IInv, ~panicked, NEW mode, EraseInLine(mode) \/ ErasePart(mode)
  PROVE  IInv'
<1>1. CASE LineOutside(mode)
  BY <1>1, LineOutsideExcused, PanicKeeps DEF EraseInLine, ErasePart
<1>2. CASE ~LineOutside(mode)
  <2>1. /\ cursor_row \in 0 .. rows - 1 /\ cursor_row < rows /\ cols \in Nat
        /\ grid \in [0 .. rows - 1 -> [0 .. cols - 1 -> Cells]]
    BY <1>2 DEF IInv, TypeOK, LineOutside
  <2>2. ErasedLine(mode) \in [0 .. cols - 1 -> Cells]
    BY <2>1, ErasedLineType DEF IInv
  <2>3. /\ UNCHANGED <<rows, cols, cursor_row, cursor_col, marks, panicked>>
        /\ plain' \in BOOLEAN
    BY <1>2 DEF EraseInLine, ErasePart, NotPlain
  <2>4. CASE EraseInLine(mode)
    <3>1. grid' = [grid EXCEPT ![cursor_row] = ErasedLine(mode)]
      BY <1>2, <2>4 DEF EraseInLine
    <3>2. QED
      BY <2>1, <2>2, <2>3, <3>1, WriteKeeps
  <2>5. CASE ErasePart(mode)
    <3>1. grid' = [y \in 0 .. rows - 1 |->
                     IF y = cursor_row THEN ErasedLine(mode)
                     ELSE IF \/ mode = 0 /\ y > cursor_row
                             \/ mode = 1 /\ y < cursor_row
                     THEN BlankRow(cols)
                     ELSE grid[y]]
      BY <1>2, <2>5 DEF ErasePart
    <3>2. grid' \in [0 .. rows - 1 -> [0 .. cols - 1 -> Cells]]
      BY <2>1, <2>2, <3>1, BlankRowType
    <3>3. QED
      BY <2>3, <3>2, WriteKeeps
  <2>6. QED
    BY <2>4, <2>5
<1>3. QED
  BY <1>1, <1>2

(* ED 2 and 3.                                                             *)
LEMMA ClearKeeps ==
  ASSUME IInv, ~panicked, ClearScreen
  PROVE  IInv'
<1>1. /\ grid' = [y \in 0 .. rows - 1 |-> BlankRow(cols)]
      /\ UNCHANGED <<rows, cols, cursor_row, cursor_col, marks, panicked>>
      /\ plain' = plain
  BY DEF ClearScreen
<1>2. cols \in Nat /\ plain \in BOOLEAN
  BY DEF IInv, TypeOK
<1>3. grid' \in [0 .. rows - 1 -> [0 .. cols - 1 -> Cells]]
  BY <1>1, <1>2, BlankRowType
<1>4. QED
  BY <1>1, <1>2, <1>3, WriteKeeps

(* resize: the cursor and the last row of the region come into the new     *)
(* grid; the first row of the region and the saved cursor may not.         *)
LEMMA ResizeKeeps ==
  ASSUME IInv, ~panicked, NEW r \in Nat, NEW c \in Nat, Resize(r, c)
  PROVE  IInv'
<1>1. /\ rows \in Nat /\ cols \in Nat
      /\ grid \in [0 .. rows - 1 -> [0 .. cols - 1 -> Cells]]
      /\ cursor_row \in Nat /\ cursor_col \in Nat /\ scroll_top \in Nat
  BY DEF IInv, TypeOK
<1>2. /\ rows' = r /\ cols' = c /\ grid' = ResizedGrid(r, c)
      /\ scroll_bottom' = Less(r, 1)
      /\ cursor_row' = AtMost(cursor_row, Less(r, 1))
      /\ cursor_col' = AtMost(cursor_col, Less(c, 1))
      /\ plain' = FALSE
      /\ UNCHANGED <<saved_cursor, scroll_top, panicked>>
  BY DEF Resize, ClampedRow, NotPlain
<1>3. ResizedGrid(r, c) \in [0 .. r - 1 -> [0 .. c - 1 -> Cells]]
  BY <1>1 DEF ResizedGrid, Cells
<1>4. /\ Less(r, 1) \in Nat
      /\ Less(r, 1) < r \/ r = 0
      /\ scroll_top <= Less(r, 1) \/ scroll_top >= r
      /\ AtMost(cursor_row, Less(r, 1)) \in Nat
      /\ AtMost(cursor_row, Less(r, 1)) < r \/ r = 0
      /\ AtMost(cursor_col, Less(c, 1)) \in Nat
      /\ AtMost(cursor_col, Less(c, 1)) <= c
  BY <1>1 DEF AtMost, Less
<1>5. TypeOK'
  <2>1. grid' \in [0 .. rows' - 1 -> [0 .. cols' - 1 -> Cells]]
    BY <1>2, <1>3
  <2>2. /\ rows' \in Nat /\ cols' \in Nat
        /\ cursor_row' \in Nat /\ cursor_col' \in Nat
        /\ scroll_top' \in Nat /\ scroll_bottom' \in Nat
    BY <1>1, <1>2 DEF AtMost, Less
  <2>3. /\ saved_cursor' = NoSave \/ saved_cursor' \in Nat \X Nat
        /\ panicked' \in BOOLEAN /\ plain' \in BOOLEAN
    BY <1>2 DEF IInv, TypeOK
  <2>4. QED
    BY <2>1, <2>2, <2>3 DEF TypeOK
<1>6. RegionInGrid' /\ CursorInGrid' /\ OnlyStaleMarksPanic'
  BY <1>2, <1>4 DEF RegionInGrid, CursorInGrid, OnlyStaleMarksPanic, StaleTop
<1>7. QED
  BY <1>5, <1>6 DEF IInv

-----------------------------------------------------------------------------
(* A new TerminalCore satisfies the invariant.                             *)
LEMMA InitEstablishes == Init => IInv
<1> SUFFICES ASSUME Init PROVE IInv
  OBVIOUS
<1>1. PICK s \in Sizes : rows = s[1] /\ cols = s[2] /\ scroll_bottom = Less(s[1], 1)
  BY DEF Init
<1>2. rows \in Nat /\ cols \in Nat /\ scroll_bottom = Less(rows, 1)
  BY <1>1, SizesAssumption
<1>3. grid \in [0 .. rows - 1 -> [0 .. cols - 1 -> Cells]]
  BY <1>2, BlankRowType DEF Init
<1>4. TypeOK
  BY <1>2, <1>3, Arithmetic DEF Init, TypeOK
<1>5. RegionInGrid /\ CursorInGrid /\ OnlyStaleMarksPanic
  BY <1>2 DEF Init, RegionInGrid, CursorInGrid, OnlyStaleMarksPanic, Less
<1>6. QED
  BY <1>4, <1>5 DEF IInv

(* Every control function and every resize keeps it.                       *)
LEMMA StepKeeps == IInv /\ [Next]_vars => IInv'
<1> SUFFICES ASSUME IInv, [Next]_vars PROVE IInv'
  OBVIOUS
<1>1. CASE UNCHANGED vars
  BY <1>1 DEF IInv, TypeOK, RegionInGrid, CursorInGrid, OnlyStaleMarksPanic,
              vars, screen, marks, ghosts, StaleRow, StaleCol, StaleTop
<1>2. CASE Next
  <2>1. ~panicked /\ rows \in Nat
    BY <1>2 DEF Next, IInv, TypeOK
  <2>2. ASSUME NEW c \in Chars, PrintChar(c) PROVE IInv'
    BY <2>1, <2>2, PrintKeeps
  <2>3. CASE LineFeed
    BY <2>1, <2>3, LineFeedKeeps
  <2>4. CASE CarriageReturn \/ Backspace \/ TabStop \/ RestoreCursor
    BY <2>1, <2>4, MotionKeeps
  <2>5. ASSUME NEW n \in Args,
               CursorUp(n) \/ CursorDown(n) \/ CursorForward(n) \/ CursorBack(n)
        PROVE  IInv'
    BY <2>1, <2>5, MotionKeeps, ArgsAssumption
  <2>6. ASSUME NEW r \in Args, NEW c \in Args, CursorTo(r, c) PROVE IInv'
    BY <2>1, <2>6, MotionKeeps, ArgsAssumption
  <2>7. CASE SaveCursor
    BY <2>1, <2>7, SaveKeeps
  <2>8. ASSUME NEW t \in Args, NEW b \in Args \union {rows}, SetScrollRegion(t, b)
        PROVE  IInv'
    BY <2>1, <2>8, RegionKeeps, ArgsAssumption
  <2>9. ASSUME NEW mode, EraseInLine(mode) \/ ErasePart(mode) PROVE IInv'
    BY <2>1, <2>9, EraseKeeps
  <2>10. CASE ClearScreen
    BY <2>1, <2>10, ClearKeeps
  <2>11. ASSUME NEW s \in Sizes, Resize(s[1], s[2]) PROVE IInv'
    BY <2>1, <2>11, ResizeKeeps, SizesAssumption
  <2>12. QED
    BY <1>2, <2>2, <2>3, <2>4, <2>5, <2>6, <2>7, <2>8, <2>9, <2>10, <2>11
       DEF Next, Control
<1>3. QED
  BY <1>1, <1>2

(* The marks and the grid fit together in every reachable state.           *)
THEOREM InvariantHolds == Spec => []IInv
<1>1. QED
  BY InitEstablishes, StepKeeps, PTL DEF Spec

(* The grid always has `rows` rows of `cols` cells (terminal_core/mod.rs:  *)
(* resize, newline and the erasing functions).                             *)
THEOREM TypeCorrect == Spec => []TypeOK
<1>1. IInv => TypeOK
  BY DEF IInv
<1>2. QED
  BY <1>1, InvariantHolds, PTL

(* For every size of window and every argument, an index of print,         *)
(* newline or erase_in_line leaves the grid only when the grid is empty    *)
(* or a saved cursor or scroll region is older than the window's size.     *)
THEOREM NoOtherPanic == Spec => []OnlyStaleMarksPanic
<1>1. IInv => OnlyStaleMarksPanic
  BY DEF IInv
<1>2. QED
  BY <1>1, InvariantHolds, PTL

-----------------------------------------------------------------------------
(* What is kept of what a plain program writes. An induction over a        *)
(* sequence is an argument about the set of the sequences that are good,   *)
(* and its smallest counterexample.                                        *)

(* A set of numbers that is not empty has a least one.                     *)
LEMMA SmallestNumber ==
  ASSUME NEW S \in SUBSET Nat, S # {}
  PROVE  \E k \in S : \A j \in S : k <= j
<1> DEFINE less == {p \in Nat \X Nat : p[1] < p[2]}
<1>1. IsWellFoundedOn(less, Nat)
  BY NatLessThanWellFounded DEF OpToRel
<1>2. PICK k \in S : \A j \in S : <<j, k>> \notin less
  <2> HIDE DEF less
  <2> QED
    BY <1>1, WFMin
<1>3. \A j \in S : k <= j
  <2> TAKE j \in S
  <2>1. <<j, k>> \in Nat \X Nat /\ <<j, k>>[1] = j /\ <<j, k>>[2] = k
    OBVIOUS
  <2>2. ~(j < k)
    BY <2>1, <1>2
  <2> QED
    BY <2>2
<1> QED
  BY <1>3

(* A set of sequences that has the empty one and, with a sequence, every   *)
(* extension of it by one element, has them all.                           *)
LEMMA SequencesGrow ==
  ASSUME NEW R, NEW Good, << >> \in Good,
         \A q \in Seq(R), r \in R : q \in Good => Append(q, r) \in Good
  PROVE  Seq(R) \subseteq Good
<1> DEFINE Bad == {n \in Nat : \E q \in Seq(R) : Len(q) = n /\ q \notin Good}
<1>1. Bad = {}
  <2> SUFFICES ASSUME Bad # {} PROVE FALSE
    OBVIOUS
  <2>1. PICK k \in Bad : \A j \in Bad : k <= j
    <3>1. Bad \in SUBSET Nat
      OBVIOUS
    <3> HIDE DEF Bad
    <3> QED
      BY <3>1, SmallestNumber
  <2>2. PICK q \in Seq(R) : Len(q) = k /\ q \notin Good
    BY <2>1
  <2>3. k \in Nat
    BY <2>1
  <2>4. q # << >>
    BY <2>2
  <2>5. k > 0
    BY <2>2, <2>3, <2>4, EmptySeq
  <2> DEFINE p == SubSeq(q, 1, k - 1)
  <2>6. p \in Seq(R) /\ Len(p) = k - 1 /\ q[k] \in R /\ q = Append(p, q[k])
    BY <2>2, <2>3, <2>5
  <2>7. p \in Good
    <3>1. k - 1 \in Nat /\ ~(k <= k - 1)
      BY <2>3, <2>5
    <3>2. k - 1 \notin Bad
      BY <2>1, <3>1
    <3> HIDE DEF p
    <3> QED
      BY <2>6, <3>1, <3>2
  <2> HIDE DEF p
  <2> QED
    BY <2>2, <2>6, <2>7
<1> QED
  <2> SUFFICES ASSUME NEW q \in Seq(R) PROVE q \in Good
    OBVIOUS
  <2>1. Len(q) \in Nat /\ Len(q) \notin Bad
    BY <1>1
  <2> QED
    BY <2>1

-----------------------------------------------------------------------------
(* What Inked keeps of the first n rows, one more at a time, as Inked      *)
(* defines it.                                                             *)
Keeps(lines, f, n) ==
  IF n = 0 THEN << >>
  ELSE IF HasInk(lines[n]) THEN Append(f[n - 1], lines[n])
  ELSE f[n - 1]

KeptRows(lines) == CHOOSE f : f = [n \in 0 .. Len(lines) |-> Keeps(lines, f, n)]

(* Inked is the last of those.                                             *)
LEMMA InkedIsLast ==
  ASSUME NEW lines
  PROVE  Inked(lines) = KeptRows(lines)[Len(lines)]
BY DEF Inked, KeptRows, Keeps

(* The recursion has a solution: of the first rows, and so of all.         *)
LEMMA KeptRowsExist ==
  ASSUME NEW R, NEW lines \in Seq(R)
  PROVE  KeptRows(lines) = [n \in 0 .. Len(lines) |-> Keeps(lines, KeptRows(lines), n)]
<1> DEFINE Upto(m) == \E f : f = [n \in 0 .. m |-> Keeps(lines, f, n)]
           Bad == {m \in Nat : ~Upto(m)}
<1>1. Bad = {}
  <2> SUFFICES ASSUME Bad # {} PROVE FALSE
    OBVIOUS
  <2>1. PICK k \in Bad : \A j \in Bad : k <= j
    <3>1. Bad \in SUBSET Nat
      OBVIOUS
    <3> HIDE DEF Bad
    <3> QED
      BY <3>1, SmallestNumber
  <2>2. k \in Nat /\ ~Upto(k)
    BY <2>1
  <2>3. k # 0
    <3>1. Upto(0)
      <4> DEFINE f == [n \in 0 .. 0 |-> << >>]
      <4>1. f = [n \in 0 .. 0 |-> Keeps(lines, f, n)]
        BY DEF Keeps
      <4> HIDE DEF f
      <4> QED
        BY <4>1
    <3> QED
      BY <2>2, <3>1
  <2>4. k - 1 \in Nat /\ ~(k <= k - 1)
    BY <2>2, <2>3
  <2>5. Upto(k - 1)
    <3>1. k - 1 \notin Bad
      BY <2>1, <2>4
    <3> HIDE DEF Upto
    <3> QED
      BY <2>4, <3>1
  <2>6. PICK f : f = [n \in 0 .. k - 1 |-> Keeps(lines, f, n)]
    BY <2>5
  <2> DEFINE g == [n \in 0 .. k |-> IF n = k THEN Keeps(lines, f, k) ELSE f[n]]
  <2>7. ASSUME NEW n \in 0 .. k PROVE g[n] = Keeps(lines, g, n)
    <3>1. n # 0 => n - 1 \in 0 .. k /\ n - 1 # k
      BY <2>2
    <3>2. n # 0 => g[n - 1] = f[n - 1]
      BY <3>1
    <3>3. Keeps(lines, g, n) = Keeps(lines, f, n)
      BY <3>2 DEF Keeps
    <3>4. n # k => n \in 0 .. k - 1
      BY <2>2
    <3>5. n # k => g[n] = Keeps(lines, f, n)
      BY <2>6, <3>4
    <3> QED
      BY <3>3, <3>5
  <2>8. g = [n \in 0 .. k |-> Keeps(lines, g, n)]
    <3>1. g = [n \in 0 .. k |-> g[n]]
      OBVIOUS
    <3> HIDE DEF g
    <3> QED
      BY <2>7, <3>1
  <2> HIDE DEF g
  <2> QED
    BY <2>2, <2>8
<1>2. Upto(Len(lines))
  <2>1. Len(lines) \in Nat
    OBVIOUS
  <2> HIDE DEF Upto
  <2> QED
    BY <1>1, <2>1
<1> QED
  BY <1>2 DEF KeptRows

(* What is kept of the first n rows does not depend on the rows after them. *)
LEMMA KeptRowsOfPrefix ==
  ASSUME NEW R, NEW lines \in Seq(R), NEW row \in R, NEW m \in 0 .. Len(lines)
  PROVE  KeptRows(Append(lines, row))[m] = KeptRows(lines)[m]
<1> DEFINE more == Append(lines, row)
           f == KeptRows(lines)
           g == KeptRows(more)
           Bad == {n \in Nat : n <= Len(lines) /\ g[n] # f[n]}
<1>1. /\ more \in Seq(R) /\ Len(more) = Len(lines) + 1 /\ Len(lines) \in Nat
      /\ \A n \in 1 .. Len(lines) : more[n] = lines[n]
  BY AppendProperties
<1>2. \A n \in 0 .. Len(lines) : f[n] = Keeps(lines, f, n)
  BY KeptRowsExist
<1>3. \A n \in 0 .. Len(lines) : g[n] = Keeps(more, g, n)
  <2> HIDE DEF more
  <2>1. \A n \in 0 .. Len(more) : g[n] = Keeps(more, g, n)
    BY <1>1, KeptRowsExist
  <2> QED
    BY <1>1, <2>1
<1> HIDE DEF more, f, g
<1>4. Bad = {}
  <2> SUFFICES ASSUME Bad # {} PROVE FALSE
    OBVIOUS
  <2>1. PICK k \in Bad : \A j \in Bad : k <= j
    <3>1. Bad \in SUBSET Nat
      OBVIOUS
    <3> HIDE DEF Bad
    <3> QED
      BY <3>1, SmallestNumber
  <2>2. k \in 0 .. Len(lines) /\ g[k] # f[k]
    BY <1>1, <2>1
  <2>3. k # 0
    BY <1>2, <1>3, <2>2 DEF Keeps
  <2>4. k - 1 \in Nat /\ k - 1 <= Len(lines) /\ ~(k <= k - 1) /\ k \in 1 .. Len(lines)
    BY <1>1, <2>2, <2>3
  <2>5. g[k - 1] = f[k - 1]
    <3>1. k - 1 \notin Bad
      BY <2>1, <2>4
    <3> QED
      BY <2>4, <3>1
  <2>6. Keeps(more, g, k) = Keeps(lines, f, k)
    BY <1>1, <2>4, <2>5 DEF Keeps
  <2> QED
    BY <1>2, <1>3, <2>2, <2>6
<1>5. m \in Nat /\ m <= Len(lines)
  BY <1>1
<1> QED
  BY <1>4, <1>5 DEF f, g, more

(* Inked of no row.                                                        *)
LEMMA InkedOfNone == Inked(<< >>) = << >>
<1>1. << >> \in Seq({}) /\ Len(<< >>) = 0
  BY EmptySeq
<1>2. \A q \in Seq({}) : KeptRows(q) = [n \in 0 .. Len(q) |-> Keeps(q, KeptRows(q), n)]
  BY KeptRowsExist
<1>3. KeptRows(<< >>)[0] = << >>
  <2>1. KeptRows(<< >>) = [n \in 0 .. 0 |-> Keeps(<< >>, KeptRows(<< >>), n)]
    BY <1>1, <1>2
  <2>2. 0 \in 0 .. 0
    OBVIOUS
  <2>3. KeptRows(<< >>)[0] = Keeps(<< >>, KeptRows(<< >>), 0)
    BY <2>1, <2>2
  <2> QED
    BY <2>3 DEF Keeps
<1> QED
  BY <1>1, <1>3, InkedIsLast

(* Inked of one row more: the row is kept when something is on it.         *)
LEMMA InkedAppend ==
  ASSUME NEW R, NEW lines \in Seq(R), NEW row \in R
  PROVE  Inked(Append(lines, row)) =
           IF HasInk(row) THEN Append(Inked(lines), row) ELSE Inked(lines)
<1> DEFINE more == Append(lines, row)
           n == Len(lines)
<1>1. more \in Seq(R) /\ Len(more) = n + 1 /\ n \in Nat /\ more[n + 1] = row
  BY AppendProperties
<1>2. KeptRows(more)[n] = Inked(lines)
  <2>1. n \in 0 .. n
    BY <1>1
  <2>2. Inked(lines) = KeptRows(lines)[n]
    BY InkedIsLast
  <2> QED
    BY <2>1, <2>2, KeptRowsOfPrefix
<1>3. Inked(more) = KeptRows(more)[n + 1]
  BY <1>1, InkedIsLast
<1> HIDE DEF more, n
<1>4. KeptRows(more)[n + 1] = Keeps(more, KeptRows(more), n + 1)
  <2>1. n + 1 \in 0 .. Len(more)
    BY <1>1
  <2> QED
    BY <1>1, <2>1, KeptRowsExist
<1>5. n + 1 # 0 /\ (n + 1) - 1 = n
  BY <1>1
<1>6. Inked(more) = IF HasInk(row) THEN Append(Inked(lines), row) ELSE Inked(lines)
  BY <1>1, <1>2, <1>3, <1>4, <1>5 DEF Keeps
<1> QED
  BY <1>6 DEF more

(* Inked keeps rows, and keeps them again.                                 *)
LEMMA InkedTwice ==
  ASSUME NEW R, NEW lines \in Seq(R)
  PROVE  Inked(lines) \in Seq(R) /\ Inked(Inked(lines)) = Inked(lines)
<1> DEFINE Good == {q \in Seq(R) : Inked(q) \in Seq(R) /\ Inked(Inked(q)) = Inked(q)}
<1>1. << >> \in Good
  BY InkedOfNone, EmptySeq
<1>2. ASSUME NEW q \in Seq(R), NEW r \in R, q \in Good
      PROVE  Append(q, r) \in Good
  <2>1. Inked(q) \in Seq(R) /\ Inked(Inked(q)) = Inked(q)
    BY <1>2
  <2>2. Append(q, r) \in Seq(R) /\ Append(Inked(q), r) \in Seq(R)
    BY <2>1, AppendProperties
  <2>3. CASE HasInk(r)
    <3>1. Inked(Append(q, r)) = Append(Inked(q), r)
      BY <2>3, InkedAppend
    <3>2. Inked(Append(Inked(q), r)) = Append(Inked(Inked(q)), r)
      BY <2>1, <2>3, InkedAppend
    <3> QED
      BY <2>1, <2>2, <3>1, <3>2
  <2>4. CASE ~HasInk(r)
    <3>1. Inked(Append(q, r)) = Inked(q)
      BY <2>4, InkedAppend
    <3> QED
      BY <2>1, <2>2, <3>1
  <2> QED
    BY <2>3, <2>4
<1> HIDE DEF Good
<1>3. Seq(R) \subseteq Good
  BY <1>1, <1>2, SequencesGrow
<1> QED
  BY <1>3 DEF Good

(* Inked of two pieces is that of the one and that of the other.           *)
LEMMA InkedConcat ==
  ASSUME NEW R, NEW a \in Seq(R), NEW b \in Seq(R)
  PROVE  Inked(a \o b) = Inked(a) \o Inked(b)
<1> DEFINE Good == {q \in Seq(R) : Inked(a \o q) = Inked(a) \o Inked(q)}
<1>1. Inked(a) \in Seq(R)
  BY InkedTwice
<1>2. << >> \in Good
  <2>1. a \o << >> = a /\ Inked(a) \o << >> = Inked(a) /\ << >> \in Seq(R)
    BY <1>1, ConcatEmptySeq, EmptySeq
  <2> QED
    BY <2>1, InkedOfNone
<1>3. ASSUME NEW q \in Seq(R), NEW r \in R, q \in Good
      PROVE  Append(q, r) \in Good
  <2>1. /\ Inked(a \o q) = Inked(a) \o Inked(q)
        /\ Inked(q) \in Seq(R) /\ a \o q \in Seq(R) /\ Append(q, r) \in Seq(R)
    BY <1>3, InkedTwice, ConcatProperties, AppendProperties
  <2>2. a \o Append(q, r) = Append(a \o q, r)
    OBVIOUS
  <2>3. Inked(a) \o Append(Inked(q), r) = Append(Inked(a) \o Inked(q), r)
    BY <1>1, <2>1
  <2>4. Inked(Append(a \o q, r)) =
          IF HasInk(r) THEN Append(Inked(a \o q), r) ELSE Inked(a \o q)
    BY <2>1, InkedAppend
  <2>5. Inked(Append(q, r)) = IF HasInk(r) THEN Append(Inked(q), r) ELSE Inked(q)
    BY InkedAppend
  <2> QED
    BY <2>1, <2>2, <2>3, <2>4, <2>5
<1> HIDE DEF Good
<1>4. Seq(R) \subseteq Good
  BY <1>2, <1>3, SequencesGrow
<1> QED
  BY <1>4 DEF Good

(* Rows with nothing on them leave nothing.                                *)
LEMMA InkedOfBlanks ==
  ASSUME NEW R, \A r \in R : ~HasInk(r), NEW lines \in Seq(R)
  PROVE  Inked(lines) = << >>
<1> DEFINE Good == {q \in Seq(R) : Inked(q) = << >>}
<1>1. << >> \in Good
  BY InkedOfNone, EmptySeq
<1>2. ASSUME NEW q \in Seq(R), NEW r \in R, q \in Good
      PROVE  Append(q, r) \in Good
  BY <1>2, InkedAppend, AppendProperties
<1> HIDE DEF Good
<1>3. Seq(R) \subseteq Good
  BY <1>1, <1>2, SequencesGrow
<1> QED
  BY <1>3 DEF Good

-----------------------------------------------------------------------------
(* The rows of the grid, and the rows written before the last one.         *)
Row == [0 .. cols - 1 -> Cells]
Earlier(lines) == SubSeq(lines, 1, Len(lines) - 1)

(* While the program is plain, what it wrote before the row it is in is    *)
(* what history and the rows above the cursor have on them; that row is    *)
(* the cursor's, and there is nothing below it.                            *)
WroteAbove ==
  rows > 0 =>
    /\ cursor_row < rows
    /\ written[Len(written)] = grid[cursor_row]
    /\ \A y \in cursor_row + 1 .. rows - 1 : grid[y] = BlankRow(cols)
    /\ Inked(Pushed \o RowSeq(grid, cursor_row)) = Inked(Earlier(written))

WroteNothing ==
  rows = 0 => history = << >> /\ written = <<BlankRow(cols)>>

(* The invariant of a plain program: one that has only printed, ended      *)
(* lines, moved in its row and cleared the screen.                         *)
TextInv ==
  plain =>
    /\ history \in Seq([cells : Row, wrapped : BOOLEAN])
    /\ written \in Seq(Row) /\ written # << >>
    /\ scroll_top = 0 /\ scroll_bottom = Less(rows, 1)
    /\ WroteAbove
    /\ WroteNothing

(* A row of cells without ink is the blank row.                            *)
LEMMA NoInk ==
  ASSUME NEW r \in Row
  PROVE  ~HasInk(r) <=> r = BlankRow(cols)
BY DEF Row, HasInk, BlankRow

(* The blank row is a row of the grid.                                     *)
LEMMA BlankIsRow == ASSUME cols \in Nat PROVE BlankRow(cols) \in Row
BY BlankRowType DEF Row

(* The first rows of a grid, as a sequence.                                *)
LEMMA RowSeqType ==
  ASSUME NEW R, NEW n \in Nat, NEW g, \A y \in 0 .. n - 1 : g[y] \in R
  PROVE  /\ RowSeq(g, n) \in Seq(R) /\ Len(RowSeq(g, n)) = n
         /\ \A i \in 1 .. n : RowSeq(g, n)[i] = g[i - 1]
<1>1. \A i \in 1 .. n : i - 1 \in 0 .. n - 1
  OBVIOUS
<1>2. \A i \in 1 .. n : g[i - 1] \in R
  BY <1>1
<1> QED
  BY <1>2 DEF RowSeq

(* The first n + 1 rows are the first n and the next.                      *)
LEMMA RowSeqGrows ==
  ASSUME NEW R, NEW n \in Nat, NEW g, \A y \in 0 .. n : g[y] \in R
  PROVE  RowSeq(g, n + 1) = Append(RowSeq(g, n), g[n])
<1> DEFINE a == RowSeq(g, n)
           b == RowSeq(g, n + 1)
<1>1. a \in Seq(R) /\ Len(a) = n /\ \A i \in 1 .. n : a[i] = g[i - 1]
  <2>1. \A y \in 0 .. n - 1 : g[y] \in R
    OBVIOUS
  <2> QED
    BY <2>1, RowSeqType
<1>2. b \in Seq(R) /\ Len(b) = n + 1 /\ \A i \in 1 .. n + 1 : b[i] = g[i - 1]
  <2>1. n + 1 \in Nat /\ \A y \in 0 .. (n + 1) - 1 : g[y] \in R
    OBVIOUS
  <2> QED
    BY <2>1, RowSeqType
<1>3. g[n] \in R /\ (n + 1) - 1 = n
  OBVIOUS
<1> HIDE DEF a, b
<1>4. /\ Append(a, g[n]) \in Seq(R) /\ Len(Append(a, g[n])) = n + 1
      /\ \A i \in 1 .. n : Append(a, g[n])[i] = a[i]
      /\ Append(a, g[n])[n + 1] = g[n]
  BY <1>1, <1>3, AppendProperties
<1>5. \A i \in 1 .. n + 1 : b[i] = Append(a, g[n])[i]
  <2> SUFFICES ASSUME NEW i \in 1 .. n + 1 PROVE b[i] = Append(a, g[n])[i]
    OBVIOUS
  <2>1. CASE i = n + 1
    BY <1>2, <1>3, <1>4, <2>1
  <2>2. CASE i # n + 1
    <3>1. i \in 1 .. n
      BY <2>2
    <3> QED
      BY <1>1, <1>2, <1>4, <3>1
  <2> QED
    BY <2>1, <2>2
<1>6. b = Append(a, g[n])
  BY <1>2, <1>4, <1>5, SeqEqual
<1> QED
  BY <1>6 DEF a, b

(* The rows of a grid whose first row has left.                            *)
LEMMA RowSeqShifts ==
  ASSUME NEW R, NEW n \in Nat, NEW f, NEW g,
         \A y \in 0 .. n : f[y] \in R,
         \A y \in 0 .. n - 1 : g[y] = f[y + 1]
  PROVE  <<f[0]>> \o RowSeq(g, n) = RowSeq(f, n + 1)
<1> DEFINE a == RowSeq(g, n)
           b == RowSeq(f, n + 1)
           c == <<f[0]>>
<1>1. \A y \in 0 .. n - 1 : y + 1 \in 0 .. n
  OBVIOUS
<1>2. a \in Seq(R) /\ Len(a) = n /\ \A i \in 1 .. n : a[i] = g[i - 1]
  <2>1. \A y \in 0 .. n - 1 : g[y] \in R
    BY <1>1
  <2> QED
    BY <2>1, RowSeqType
<1>3. b \in Seq(R) /\ Len(b) = n + 1 /\ \A i \in 1 .. n + 1 : b[i] = f[i - 1]
  <2>1. n + 1 \in Nat /\ \A y \in 0 .. (n + 1) - 1 : f[y] \in R
    OBVIOUS
  <2> QED
    BY <2>1, RowSeqType
<1>4. c \in Seq(R) /\ Len(c) = 1 /\ c[1] = f[0]
  <2>1. f[0] \in R
    OBVIOUS
  <2> QED
    BY <2>1
<1> HIDE DEF a, b, c
<1>5. /\ c \o a \in Seq(R) /\ Len(c \o a) = n + 1
      /\ \A i \in 1 .. n + 1 : (c \o a)[i] = IF i <= 1 THEN c[i] ELSE a[i - 1]
  <2>1. /\ c \o a \in Seq(R) /\ Len(c \o a) = Len(c) + Len(a)
        /\ \A i \in 1 .. Len(c) + Len(a) :
             (c \o a)[i] = IF i <= Len(c) THEN c[i] ELSE a[i - Len(c)]
    <3>1. a \in Seq(R) /\ c \in Seq(R)
      BY <1>2, <1>4
    <3> QED
      BY ONLY <3>1, ConcatProperties
  <2>2. Len(c) + Len(a) = n + 1
    BY <1>2, <1>4
  <2> QED
    BY <1>4, <2>1, <2>2
<1>6. \A i \in 1 .. n + 1 : (c \o a)[i] = b[i]
  <2> SUFFICES ASSUME NEW i \in 1 .. n + 1 PROVE (c \o a)[i] = b[i]
    OBVIOUS
  <2>1. CASE i = 1
    BY <1>3, <1>4, <1>5, <2>1
  <2>2. CASE i # 1
    <3>1. i - 1 \in 1 .. n /\ (i - 1) - 1 \in 0 .. n - 1 /\ ((i - 1) - 1) + 1 = i - 1 /\ ~(i <= 1)
      BY <2>2
    <3>2. a[i - 1] = f[i - 1]
      BY <1>2, <3>1
    <3> QED
      BY <1>3, <1>5, <3>1, <3>2
  <2> QED
    BY <2>1, <2>2
<1>7. c \o a = b
  BY <1>3, <1>5, <1>6, SeqEqual
<1> QED
  BY <1>7 DEF a, b, c

(* Rows of which all are blank leave nothing.                              *)
LEMMA BlankRowsLeaveNothing ==
  ASSUME cols \in Nat, NEW n \in Nat, NEW g, \A y \in 0 .. n - 1 : g[y] = BlankRow(cols)
  PROVE  RowSeq(g, n) \in Seq(Row) /\ Inked(RowSeq(g, n)) = << >>
<1>1. BlankRow(cols) \in Row /\ ~HasInk(BlankRow(cols))
  BY BlankIsRow, NoInk
<1>2. RowSeq(g, n) \in Seq({BlankRow(cols)}) /\ RowSeq(g, n) \in Seq(Row)
  BY <1>1, RowSeqType
<1>3. \A r \in {BlankRow(cols)} : ~HasInk(r)
  BY <1>1
<1> QED
  BY <1>2, <1>3, InkedOfBlanks

(* The whole of what was written is what there is up to the cursor's row.  *)
LEMMA WholeText ==
  ASSUME NEW R, NEW w \in Seq(R), w # << >>, NEW p \in Seq(R),
         Inked(p) = Inked(Earlier(w))
  PROVE  /\ Inked(Append(p, w[Len(w)])) = Inked(w)
         /\ ~HasInk(w[Len(w)]) => Inked(w) = Inked(Earlier(w))
<1> DEFINE f == Earlier(w)
           x == w[Len(w)]
<1>1. f \in Seq(R) /\ x \in R /\ w = Append(f, x)
  BY DEF Earlier
<1>2. /\ Inked(Append(p, x)) = IF HasInk(x) THEN Append(Inked(p), x) ELSE Inked(p)
      /\ Inked(Append(f, x)) = IF HasInk(x) THEN Append(Inked(f), x) ELSE Inked(f)
  BY <1>1, InkedAppend
<1> HIDE DEF f, x
<1>3. Inked(Append(p, x)) = Inked(w) /\ (~HasInk(x) => Inked(w) = Inked(f))
  <2>1. Inked(p) = Inked(f)
    BY DEF f
  <2> QED
    BY <1>1, <1>2, <2>1
<1> QED
  BY <1>3 DEF f, x

(* Adding a row behind what was written.                                   *)
LEMMA NextRow ==
  ASSUME NEW R, NEW w \in Seq(R), NEW x \in R
  PROVE  LET v == Append(w, x)
         IN  v \in Seq(R) /\ v # << >> /\ v[Len(v)] = x /\ Earlier(v) = w
BY DEF Earlier

(* What TextInv says of a plain state with rows.                           *)
LEMMA TextParts ==
  ASSUME IInv, TextInv, plain
  PROVE  /\ rows \in Nat /\ cols \in Nat /\ cursor_row \in Nat /\ cursor_col \in Nat
         /\ grid \in [0 .. rows - 1 -> Row]
         /\ BlankRow(cols) \in Row
         /\ Pushed \in Seq(Row) /\ Len(Pushed) = Len(history)
         /\ written \in Seq(Row) /\ written # << >>
         /\ scroll_top = 0 /\ scroll_bottom = Less(rows, 1)
         /\ rows > 0 => scroll_bottom = rows - 1
<1>1. /\ rows \in Nat /\ cols \in Nat /\ cursor_row \in Nat /\ cursor_col \in Nat
      /\ grid \in [0 .. rows - 1 -> Row]
  BY DEF IInv, TypeOK, Row
<1>2. /\ history \in Seq([cells : Row, wrapped : BOOLEAN])
      /\ written \in Seq(Row) /\ written # << >>
      /\ scroll_top = 0 /\ scroll_bottom = Less(rows, 1)
  BY DEF TextInv
<1>3. Pushed \in Seq(Row) /\ Len(Pushed) = Len(history)
  <2> DEFINE Lines == [cells : Row, wrapped : BOOLEAN]
  <2>1. \A x \in Lines : x.cells \in Row
    OBVIOUS
  <2>2. Len(history) \in Nat /\ \A i \in 1 .. Len(history) : history[i] \in Lines
    BY <1>2, LenProperties, ElementOfSeq
  <2> HIDE DEF Lines
  <2>3. Len(history) \in Nat /\ \A i \in 1 .. Len(history) : history[i].cells \in Row
    BY <2>1, <2>2
  <2> QED
    BY <2>3 DEF Pushed
<1>4. rows > 0 => scroll_bottom = rows - 1
  BY <1>1, <1>2 DEF Less
<1> QED
  BY <1>1, <1>2, <1>3, <1>4, BlankIsRow

(* Appending to the second of two pieces.                                  *)
LEMMA AppendToJoined ==
  ASSUME NEW R, NEW p \in Seq(R), NEW q \in Seq(R), NEW x \in R,
         NEW t, t = Append(q, x)
  PROVE  Append(p \o q, x) = p \o t
<1>1. t = q \o <<x>> /\ <<x>> \in Seq(R) /\ p \o q \in Seq(R)
  BY AppendIsConcat, ConcatProperties
<1>2. Append(p \o q, x) = (p \o q) \o <<x>>
  BY <1>1, AppendIsConcat
<1>3. (p \o q) \o <<x>> = p \o (q \o <<x>>)
  BY <1>1, ConcatAssociative
<1> QED
  BY <1>1, <1>2, <1>3

(* newline: the rows above the cursor are those there were and the one it  *)
(* was in, whether the screen scrolls or not.                              *)
LEMMA NewlineText ==
  ASSUME IInv, TextInv, plain, rows > 0, NEW wrap \in BOOLEAN, NEW g,
         \A y \in 0 .. RowAfterNewline - 1 : g[y] = GridAfterNewline[y]
  PROVE  LET h == HistoryAfterNewline(wrap)
             p == [i \in 1 .. Len(h) |-> h[i].cells]
         IN  /\ h \in Seq([cells : Row, wrapped : BOOLEAN])
             /\ p \o RowSeq(g, RowAfterNewline)
                  = Append(Pushed \o RowSeq(grid, cursor_row), grid[cursor_row])
<1> DEFINE h == HistoryAfterNewline(wrap)
           p == [i \in 1 .. Len(h) |-> h[i].cells]
           c == cursor_row
           q == RowSeq(grid, c)
           t == RowSeq(grid, c + 1)
<1>1. /\ rows \in Nat /\ cols \in Nat /\ c \in Nat /\ c < rows
      /\ grid \in [0 .. rows - 1 -> Row]
      /\ Pushed \in Seq(Row) /\ Len(Pushed) = Len(history)
      /\ history \in Seq([cells : Row, wrapped : BOOLEAN])
      /\ scroll_top = 0 /\ scroll_bottom = rows - 1
  BY TextParts DEF TextInv, WroteAbove
<1>2. \A y \in 0 .. c : grid[y] \in Row
  BY <1>1
<1>3. q \in Seq(Row) /\ grid[c] \in Row /\ t = Append(q, grid[c]) /\ t \in Seq(Row)
  <2>1. \A y \in 0 .. c - 1 : grid[y] \in Row
    BY <1>1
  <2>2. q \in Seq(Row) /\ grid[c] \in Row
    BY <1>1, <1>2, <2>1, RowSeqType
  <2>3. t = Append(q, grid[c])
    BY <1>1, <1>2, RowSeqGrows
  <2> QED
    BY <2>2, <2>3
<1>4. Append(Pushed \o q, grid[c]) = Pushed \o t
  <2> DEFINE x == grid[c]
  <2> HIDE DEF q, c, t, x
  <2>1. q \in Seq(Row) /\ x \in Row /\ Pushed \in Seq(Row) /\ t = Append(q, x)
    BY <1>1, <1>3 DEF x
  <2>2. Append(Pushed \o q, x) = Pushed \o t
    BY ONLY <2>1, AppendToJoined, ZenonT(40)
  <2> QED
    BY <2>2 DEF x
<1>5. CASE ~AtBottom
  <2>1. h = history /\ RowAfterNewline = c + 1 /\ GridAfterNewline = grid
    BY <1>5 DEF HistoryAfterNewline, RowAfterNewline, GridAfterNewline
  <2>2. RowSeq(g, c + 1) = t
    <3>1. \A i \in 1 .. c + 1 : i - 1 \in 0 .. (c + 1) - 1
      BY <1>1
    <3>2. \A i \in 1 .. c + 1 : g[i - 1] = grid[i - 1]
      BY <2>1, <3>1
    <3> QED
      BY <3>2 DEF RowSeq
  <2>3. p = Pushed
    BY <2>1 DEF Pushed
  <2> QED
    BY <1>1, <1>4, <2>1, <2>2, <2>3
<1>6. CASE AtBottom
  <2>1. c = rows - 1 /\ RowAfterNewline = c
    BY <1>1, <1>6 DEF AtBottom, RowAfterNewline
  <2>2. h = Append(history, [cells |-> grid[0], wrapped |-> wrap])
    BY <1>1, <1>6 DEF HistoryAfterNewline, Evicted, Line
  <2>3. grid[0] \in Row
    BY <1>1, <1>2
  <2>4. h \in Seq([cells : Row, wrapped : BOOLEAN])
    <3>1. [cells |-> grid[0], wrapped |-> wrap] \in [cells : Row, wrapped : BOOLEAN]
      BY <2>3
    <3> QED
      BY <1>1, <2>2, <3>1, AppendProperties
  <2>5. p = Append(Pushed, grid[0])
    <3> DEFINE x == [cells |-> grid[0], wrapped |-> wrap]
               n == Len(history)
    <3>1. /\ h = Append(history, x) /\ x.cells = grid[0]
          /\ n \in Nat /\ Len(h) = n + 1 /\ h[n + 1] = x
          /\ \A i \in 1 .. n : h[i] = history[i]
      BY <1>1, <2>2
    <3>2. /\ Append(Pushed, grid[0]) = [i \in 1 .. n + 1 |-> Append(Pushed, grid[0])[i]]
          /\ \A i \in 1 .. n : Append(Pushed, grid[0])[i] = history[i].cells
          /\ Append(Pushed, grid[0])[n + 1] = grid[0]
      <4>1. \A i \in 1 .. n : Pushed[i] = history[i].cells
        BY DEF Pushed
      <4>2. /\ Append(Pushed, grid[0]) \in Seq(Row) /\ Len(Append(Pushed, grid[0])) = n + 1
            /\ \A i \in 1 .. n : Append(Pushed, grid[0])[i] = Pushed[i]
            /\ Append(Pushed, grid[0])[n + 1] = grid[0]
        BY <1>1, <2>3, AppendProperties
      <4> QED
        BY <4>1, <4>2
    <3> HIDE DEF x, n, h
    <3>3. \A i \in 1 .. n + 1 : h[i].cells = Append(Pushed, grid[0])[i]
      <4> SUFFICES ASSUME NEW i \in 1 .. n + 1 PROVE h[i].cells = Append(Pushed, grid[0])[i]
        OBVIOUS
      <4>1. i \in 1 .. n \/ i = n + 1
        BY <3>1
      <4> QED
        BY <3>1, <3>2, <4>1
    <3>4. p = [i \in 1 .. n + 1 |-> h[i].cells]
      BY <3>1
    <3> QED
      BY <3>2, <3>3, <3>4
  <2>6. <<grid[0]>> \o RowSeq(g, c) = t
    <3>1. \A y \in 0 .. c - 1 : g[y] = grid[y + 1]
      <4> SUFFICES ASSUME NEW y \in 0 .. c - 1 PROVE g[y] = grid[y + 1]
        OBVIOUS
      <4>1. y \in 0 .. rows - 1 /\ ~(y < 0) /\ ~(y > rows - 1) /\ y < rows - 1
        BY <1>1, <2>1
      <4>2. GridAfterNewline[y] = grid[y + 1]
        BY <1>1, <1>6, <4>1 DEF GridAfterNewline
      <4> QED
        BY <2>1, <4>2
    <3> QED
      BY <1>1, <1>2, <3>1, RowSeqShifts
  <2>7. Append(Pushed, grid[0]) \o RowSeq(g, c) = Pushed \o (<<grid[0]>> \o RowSeq(g, c))
    <3>1. RowSeq(g, c) \in Seq(Row)
      <4>1. \A y \in 0 .. c - 1 : y + 1 \in 0 .. c
        BY <1>1
      <4>2. \A y \in 0 .. c - 1 : g[y] \in Row
        <5> SUFFICES ASSUME NEW y \in 0 .. c - 1 PROVE g[y] \in Row
          OBVIOUS
        <5>1. y \in 0 .. rows - 1 /\ ~(y < 0) /\ ~(y > rows - 1) /\ y < rows - 1
          BY <1>1, <2>1
        <5>2. GridAfterNewline[y] = grid[y + 1]
          BY <1>1, <1>6, <5>1 DEF GridAfterNewline
        <5> QED
          BY <1>2, <2>1, <4>1, <5>2
      <4> QED
        BY <1>1, <4>2, RowSeqType
    <3> DEFINE r == RowSeq(g, c)
               x == grid[0]
    <3>2. r \in Seq(Row) /\ x \in Row /\ <<x>> \in Seq(Row)
      BY <2>3, <3>1
    <3> HIDE DEF r, x
    <3>3. Append(Pushed, x) = Pushed \o <<x>>
      BY <1>1, <3>2, AppendIsConcat
    <3>4. (Pushed \o <<x>>) \o r = Pushed \o (<<x>> \o r)
      BY <1>1, <3>2, ConcatAssociative
    <3> QED
      BY <3>3, <3>4 DEF r, x
  <2> HIDE DEF p, h, q, t
  <2> QED
    BY <1>4, <2>1, <2>4, <2>5, <2>6, <2>7 DEF p, h, q
<1> QED
  BY <1>5, <1>6

-----------------------------------------------------------------------------
(* The rows of the screen up to the cursor's, and those below it.          *)
RowsAbove == RowSeq(grid, cursor_row + 1)
RowsBelow == [i \in 1 .. rows - 1 - cursor_row |-> grid[cursor_row + i]]

(* The screen is those rows, and the ones below have nothing on them.      *)
LEMMA ScreenSplits ==
  ASSUME IInv, TextInv, plain, rows > 0
  PROVE  /\ RowsBelow \in Seq(Row) /\ Inked(RowsBelow) = << >>
         /\ RowSeq(grid, rows) = RowsAbove \o RowsBelow
<1> DEFINE l == rows
           n == cursor_row + 1
           m == rows - 1 - cursor_row
           f == grid
           s == RowSeq(f, l)
           t == RowSeq(f, n)
           b == RowsBelow
           u == t \o b
<1>1. /\ l \in Nat /\ n \in Nat /\ m \in Nat /\ l = n + m
      /\ f \in [0 .. l - 1 -> Row] /\ BlankRow(cols) \in Row
      /\ b = [i \in 1 .. m |-> f[n + i - 1]]
      /\ \A y \in n .. l - 1 : f[y] = BlankRow(cols)
  <2>1. /\ rows \in Nat /\ cursor_row \in Nat /\ cursor_row < rows
        /\ grid \in [0 .. rows - 1 -> Row] /\ BlankRow(cols) \in Row
        /\ \A y \in cursor_row + 1 .. rows - 1 : grid[y] = BlankRow(cols)
    BY TextParts DEF TextInv, WroteAbove
  <2>2. \A i \in 1 .. m : cursor_row + i = n + i - 1
    BY <2>1
  <2> QED
    BY <2>1, <2>2 DEF RowsBelow
<1> HIDE DEF l, n, m, f, b
<1>2. s \in Seq(Row) /\ Len(s) = l /\ \A i \in 1 .. l : s[i] = f[i - 1]
  <2>1. l \in Nat /\ \A y \in 0 .. l - 1 : f[y] \in Row
    BY <1>1
  <2>2. /\ RowSeq(f, l) \in Seq(Row) /\ Len(RowSeq(f, l)) = l
        /\ \A i \in 1 .. l : RowSeq(f, l)[i] = f[i - 1]
    BY ONLY <2>1, RowSeqType
  <2> QED
    BY <2>2
<1>3. t \in Seq(Row) /\ Len(t) = n /\ \A i \in 1 .. n : t[i] = f[i - 1]
  <2>1. n \in Nat /\ \A y \in 0 .. n - 1 : f[y] \in Row
    BY <1>1
  <2>2. /\ RowSeq(f, n) \in Seq(Row) /\ Len(RowSeq(f, n)) = n
        /\ \A i \in 1 .. n : RowSeq(f, n)[i] = f[i - 1]
    BY ONLY <2>1, RowSeqType
  <2> QED
    BY <2>2
<1>4. /\ b \in Seq(Row) /\ Len(b) = m /\ \A i \in 1 .. m : b[i] = f[n + i - 1]
      /\ b \in Seq({BlankRow(cols)})
  <2>1. \A i \in 1 .. m : n + i - 1 \in n .. l - 1 /\ n + i - 1 \in 0 .. l - 1
    BY <1>1
  <2>2. \A i \in 1 .. m : f[n + i - 1] \in Row /\ f[n + i - 1] \in {BlankRow(cols)}
    BY <1>1, <2>1
  <2> QED
    BY <1>1, <2>2
<1> HIDE DEF s, t
<1>5. u \in Seq(Row) /\ Len(u) = l
      /\ \A i \in 1 .. l : u[i] = IF i <= n THEN t[i] ELSE b[i - n]
  <2>1. t \in Seq(Row) /\ b \in Seq(Row) /\ Len(t) = n /\ Len(b) = m
    BY <1>3, <1>4
  <2>2. /\ t \o b \in Seq(Row) /\ Len(t \o b) = Len(t) + Len(b)
        /\ \A i \in 1 .. Len(t) + Len(b) :
             (t \o b)[i] = IF i <= Len(t) THEN t[i] ELSE b[i - Len(t)]
    BY ONLY <2>1, ConcatProperties, Zenon
  <2> HIDE DEF u
  <2>3. u = t \o b
    BY DEF u
  <2> QED
    BY <1>1, <2>1, <2>2, <2>3
<1> HIDE DEF u
<1>6. \A i \in 1 .. l : s[i] = u[i]
  <2> SUFFICES ASSUME NEW i \in 1 .. l PROVE s[i] = u[i]
    OBVIOUS
  <2>1. CASE i <= n
    <3>1. i \in 1 .. n
      BY <1>1, <2>1
    <3> QED
      BY <1>1, <1>2, <1>3, <1>5, <2>1, <3>1
  <2>2. CASE ~(i <= n)
    <3>1. i - n \in 1 .. m /\ n + (i - n) - 1 = i - 1
      BY <1>1, <2>2
    <3>2. b[i - n] = f[i - 1]
      BY <1>4, <3>1
    <3> QED
      BY <1>1, <1>2, <1>5, <2>2, <3>1, <3>2
  <2> QED
    BY <2>1, <2>2
<1>7. s = u
  BY <1>2, <1>5, <1>6, SeqEqual
<1>8. Inked(b) = << >>
  <2>1. \A r \in {BlankRow(cols)} : ~HasInk(r)
    BY <1>1, NoInk
  <2> QED
    BY <1>4, <2>1, InkedOfBlanks
<1> QED
  BY <1>4, <1>7, <1>8 DEF s, u, t, b, f, l, n, RowsAbove

(* History, the rows above the cursor, its own and blank ones: together    *)
(* they have on them what was written.                                     *)
LEMMA PiecesJoined ==
  ASSUME NEW R, NEW p \in Seq(R), NEW q \in Seq(R), NEW x \in R, NEW b \in Seq(R),
         NEW w \in Seq(R), w # << >>, w[Len(w)] = x,
         Inked(p \o q) = Inked(Earlier(w)), Inked(b) = << >>
  PROVE  /\ p \o q \in Seq(R)
         /\ Inked(Append(p \o q, x)) = Inked(w)
         /\ Append(q, x) \o b \in Seq(R)
         /\ Inked(p \o (Append(q, x) \o b)) = Inked(w)
<1> DEFINE t == Append(q, x)
<1>1. p \o q \in Seq(R) /\ Append(p \o q, x) \in Seq(R) /\ t \in Seq(R) /\ t \o b \in Seq(R)
  BY ConcatProperties, AppendProperties
<1>2. Inked(Append(p \o q, x)) = Inked(w)
  BY <1>1, WholeText
<1>3. p \o (t \o b) = Append(p \o q, x) \o b
  <2>1. p \in Seq(R) /\ q \in Seq(R) /\ x \in R /\ t = Append(q, x)
    OBVIOUS
  <2> HIDE DEF t
  <2>2. Append(p \o q, x) = p \o t
    BY ONLY <2>1, AppendToJoined, ZenonT(40)
  <2>3. (p \o t) \o b = p \o (t \o b)
    BY <1>1, ConcatAssociative, SMTT(30)
  <2> QED
    BY <2>2, <2>3
<1>4. Inked(Append(p \o q, x) \o b) = Inked(Append(p \o q, x)) \o Inked(b)
  BY <1>1, InkedConcat
<1>5. Inked(w) \in Seq(R) /\ Inked(w) \o << >> = Inked(w)
  BY InkedTwice, ConcatEmptySeq
<1> QED
  BY <1>1, <1>2, <1>3, <1>4, <1>5

(* Everything written is in history and on the screen.                     *)
LEMMA ScreenText ==
  ASSUME IInv, TextInv, plain, rows > 0
  PROVE  /\ Pushed \o RowSeq(grid, cursor_row) \in Seq(Row)
         /\ Inked(Append(Pushed \o RowSeq(grid, cursor_row), grid[cursor_row])) = Inked(written)
         /\ RowSeq(grid, rows) \in Seq(Row)
         /\ Inked(Pushed \o RowSeq(grid, rows)) = Inked(written)
<1> DEFINE c == cursor_row
           q == RowSeq(grid, c)
           t == RowSeq(grid, c + 1)
           b == RowsBelow
           x == grid[c]
<1>1. /\ rows \in Nat /\ cols \in Nat /\ c \in Nat /\ c < rows
      /\ grid \in [0 .. rows - 1 -> Row]
      /\ Pushed \in Seq(Row) /\ written \in Seq(Row) /\ written # << >>
      /\ written[Len(written)] = x
      /\ \A y \in c + 1 .. rows - 1 : grid[y] = BlankRow(cols)
      /\ Inked(Pushed \o q) = Inked(Earlier(written))
  BY TextParts DEF TextInv, WroteAbove
<1>2. q \in Seq(Row) /\ x \in Row /\ t = Append(q, x) /\ t \in Seq(Row)
  <2>1. /\ \A y \in 0 .. c - 1 : grid[y] \in Row
        /\ \A y \in 0 .. c : grid[y] \in Row
    BY <1>1
  <2>2. x \in Row /\ c \in Nat
    BY <1>1, <2>1
  <2>3. q \in Seq(Row)
    BY <2>1, <2>2, RowSeqType
  <2>4. t = Append(q, x)
    BY <2>1, <2>2, RowSeqGrows
  <2> QED
    BY <2>2, <2>3, <2>4, AppendProperties
<1>3. b \in Seq(Row) /\ Inked(b) = << >> /\ RowSeq(grid, rows) = t \o b
  BY ScreenSplits DEF RowsAbove
<1>4. /\ Pushed \o q \in Seq(Row)
      /\ Inked(Append(Pushed \o q, x)) = Inked(written)
      /\ Append(q, x) \o b \in Seq(Row)
      /\ Inked(Pushed \o (Append(q, x) \o b)) = Inked(written)
  <2> HIDE DEF c, q, t, b, x
  <2>1. /\ Pushed \in Seq(Row) /\ q \in Seq(Row) /\ x \in Row /\ b \in Seq(Row)
        /\ written \in Seq(Row) /\ written # << >> /\ written[Len(written)] = x
        /\ Inked(Pushed \o q) = Inked(Earlier(written)) /\ Inked(b) = << >>
    BY <1>1, <1>2, <1>3
  <2> QED
    BY ONLY <2>1, PiecesJoined
<1> QED
  BY <1>2, <1>3, <1>4

(* The property follows from the invariant.                                *)
LEMMA TextIsComplete ==
  ASSUME IInv, TextInv
  PROVE  ScrollbackIsComplete
<1> SUFFICES ASSUME plain
             PROVE  Inked(Pushed \o RowSeq(grid, rows)) = Inked(written)
  BY DEF ScrollbackIsComplete
<1>1. rows \in Nat /\ cols \in Nat
  BY TextParts
<1>2. CASE rows > 0
  BY <1>2, ScreenText
<1>3. CASE rows = 0
  <2>1. history = << >> /\ written = <<BlankRow(cols)>>
    BY <1>3 DEF TextInv, WroteNothing
  <2>2. Pushed = << >> /\ RowSeq(grid, 0) = << >>
    BY <2>1 DEF Pushed, RowSeq
  <2>3. Inked(Pushed \o RowSeq(grid, rows)) = << >>
    <3>1. << >> \o << >> = << >>
      OBVIOUS
    <3> QED
      BY <1>3, <2>2, <3>1, InkedOfNone
  <2>4. Inked(written) = << >>
    <3>1. /\ \A r \in {BlankRow(cols)} : ~HasInk(r)
          /\ written \in Seq({BlankRow(cols)})
      BY <1>1, <2>1, BlankIsRow, NoInk
    <3> QED
      BY <3>1, InkedOfBlanks
  <2> QED
    BY <2>3, <2>4
<1> QED
  BY <1>1, <1>2, <1>3

(* A step that leaves the text and its row alone.                          *)
LEMMA TextStays ==
  ASSUME TextInv,
         UNCHANGED <<rows, cols, grid, cursor_row, scroll_top, scroll_bottom, history,
                     plain, written>>
  PROVE  TextInv'
<1>1. Pushed' = Pushed /\ Row' = Row
  BY DEF Pushed, Row
<1> QED
  BY <1>1 DEF TextInv, WroteAbove, WroteNothing

(* What a program writes after it has stopped being plain is not followed. *)
LEMMA TextDropped == ASSUME NotPlain PROVE TextInv'
BY DEF NotPlain, TextInv

(* newline leaves the cursor in a blank row with blank rows below it.      *)
LEMMA NewlineBelow ==
  ASSUME IInv, TextInv, plain, rows > 0
  PROVE  /\ ~CannotScroll
         /\ RowAfterNewline \in 0 .. rows - 1
         /\ GridAfterNewline \in [0 .. rows - 1 -> Row]
         /\ \A y \in RowAfterNewline .. rows - 1 : GridAfterNewline[y] = BlankRow(cols)
<1>1. /\ rows \in Nat /\ cols \in Nat /\ cursor_row \in Nat /\ cursor_row < rows
      /\ scroll_top = 0 /\ scroll_bottom = rows - 1
      /\ \A y \in cursor_row + 1 .. rows - 1 : grid[y] = BlankRow(cols)
  BY TextParts DEF TextInv, WroteAbove
<1>2. ~CannotScroll
  BY <1>1 DEF CannotScroll
<1>3. RowAfterNewline \in 0 .. rows - 1
  BY <1>1 DEF RowAfterNewline, AtBottom
<1>4. GridAfterNewline \in [0 .. rows - 1 -> Row]
  BY <1>2, NewlineKeepsSize DEF IInv, Row
<1>5. \A y \in RowAfterNewline .. rows - 1 : GridAfterNewline[y] = BlankRow(cols)
  <2>1. CASE ~AtBottom
    BY <1>1, <2>1 DEF RowAfterNewline, GridAfterNewline
  <2>2. CASE AtBottom
    <3>1. RowAfterNewline = rows - 1
      BY <1>1, <2>2 DEF RowAfterNewline, AtBottom
    <3>2. /\ rows - 1 \in 0 .. rows - 1
          /\ ~(rows - 1 < scroll_top) /\ ~(rows - 1 > scroll_bottom)
          /\ ~(rows - 1 < scroll_bottom)
      BY <1>1
    <3>3. GridAfterNewline[rows - 1] = BlankRow(cols)
      BY <2>2, <3>2 DEF GridAfterNewline
    <3> QED
      BY <1>1, <3>1, <3>3
  <2> QED
    BY <2>1, <2>2
<1> QED
  BY <1>2, <1>3, <1>4, <1>5

-----------------------------------------------------------------------------
(* newline, then x in the row the cursor comes to: TextInv holds of the    *)
(* new screen when x is the last row written.                              *)
LEMMA RowStarted ==
  ASSUME IInv, TextInv, plain, rows > 0, NEW wrap \in BOOLEAN, NEW x \in Row,
         UNCHANGED <<rows, cols, marks>>,
         history' = HistoryAfterNewline(wrap),
         cursor_row' = RowAfterNewline,
         grid' = [GridAfterNewline EXCEPT ![RowAfterNewline] = x],
         written' \in Seq(Row), written' # << >>,
         written'[Len(written')] = x,
         Inked(Earlier(written')) = Inked(written)
  PROVE  TextInv'
<1> DEFINE r == RowAfterNewline
           h == HistoryAfterNewline(wrap)
<1>1. /\ rows \in Nat /\ r \in 0 .. rows - 1
      /\ GridAfterNewline \in [0 .. rows - 1 -> Row]
      /\ \A y \in r .. rows - 1 : GridAfterNewline[y] = BlankRow(cols)
  BY TextParts, NewlineBelow
<1>2. grid'[r] = x /\ \A y \in 0 .. rows - 1 : y # r => grid'[y] = GridAfterNewline[y]
  BY <1>1
<1>3. /\ h \in Seq([cells : Row, wrapped : BOOLEAN])
      /\ [i \in 1 .. Len(h) |-> h[i].cells] \o RowSeq(grid', r)
           = Append(Pushed \o RowSeq(grid, cursor_row), grid[cursor_row])
  <2>1. \A y \in 0 .. r - 1 : grid'[y] = GridAfterNewline[y]
    BY <1>1, <1>2
  <2> QED
    BY <2>1, NewlineText
<1>4. Pushed' = [i \in 1 .. Len(h) |-> h[i].cells]
  BY DEF Pushed
<1>5. Inked(Pushed' \o RowSeq(grid', r)) = Inked(Earlier(written'))
  <2>1. Inked(Append(Pushed \o RowSeq(grid, cursor_row), grid[cursor_row])) = Inked(written)
    BY ScreenText
  <2> HIDE DEF h, r
  <2>2. Pushed' \o RowSeq(grid', r)
          = Append(Pushed \o RowSeq(grid, cursor_row), grid[cursor_row])
    BY <1>3, <1>4
  <2> QED
    BY <2>1, <2>2
<1>6. \A y \in r + 1 .. rows - 1 : grid'[y] = BlankRow(cols)
  BY <1>1, <1>2
<1>7. WroteAbove'
  <2>1. RowSeq(grid, cursor_row)' = RowSeq(grid', r)
    BY DEF RowSeq
  <2> QED
    BY <1>1, <1>2, <1>5, <1>6, <2>1 DEF WroteAbove
<1>8. WroteNothing'
  BY <1>1 DEF WroteNothing
<1>9. Row' = Row
  BY DEF Row
<1> QED
  BY <1>3, <1>7, <1>8, <1>9 DEF TextInv, marks

(* Writing in the last row.                                                *)
Rewritten(w, x) == [w EXCEPT ![Len(w)] = x]

(* Nothing before that row changes.                                        *)
LEMMA LastReplaced ==
  ASSUME NEW R, NEW w \in Seq(R), w # << >>, NEW x \in R
  PROVE  /\ Rewritten(w, x) \in Seq(R) /\ Rewritten(w, x) # << >>
         /\ Rewritten(w, x)[Len(Rewritten(w, x))] = x
         /\ Earlier(Rewritten(w, x)) = Earlier(w)
<1> DEFINE n == Len(w)
           v == Rewritten(w, x)
<1>1. n \in Nat /\ n > 0 /\ n \in 1 .. n
  BY EmptySeq
<1>2. v \in Seq(R) /\ Len(v) = n /\ \A j \in 1 .. n : v[j] = IF j = n THEN x ELSE w[j]
  BY <1>1, ExceptSeq DEF Rewritten
<1> HIDE DEF v
<1>3. v # << >> /\ v[n] = x
  BY <1>1, <1>2, EmptySeq
<1>4. \A i \in 1 .. n - 1 : v[i] = w[i]
  <2> HIDE DEF n
  <2>1. \A i \in 1 .. n - 1 : i \in 1 .. n /\ i # n
    BY <1>1
  <2> QED
    BY <1>2, <2>1
<1>5. Earlier(v) = [i \in 1 .. n - 1 |-> v[i]] /\ Earlier(w) = [i \in 1 .. n - 1 |-> w[i]]
  BY <1>1, <1>2 DEF Earlier
<1>6. v \in Seq(R) /\ v # << >> /\ v[Len(v)] = x /\ Earlier(v) = Earlier(w)
  BY <1>2, <1>3, <1>4, <1>5
<1> QED
  BY <1>6 DEF v

(* PrintChar writes in the row the cursor is in, or starts the next.       *)
LEMMA PrintText ==
  ASSUME IInv, TextInv, NEW ch \in Chars, PrintChar(ch)
  PROVE  TextInv'
<1> DEFINE wraps == cursor_col >= cols
           row   == IF wraps THEN RowAfterNewline ELSE cursor_row
           col   == IF wraps THEN 0 ELSE cursor_col
           out   == (wraps /\ CannotScroll) \/ row >= rows \/ col >= cols
<1>1. CASE out
  <2>1. Panic
    BY <1>1 DEF PrintChar
  <2> QED
    BY <2>1, TextStays DEF Panic, screen, marks, ghosts
<1>2. CASE ~out
  <2>1. /\ grid' = [IF wraps THEN GridAfterNewline ELSE grid EXCEPT ![row][col] = ch]
        /\ history' = IF wraps THEN HistoryAfterNewline(TRUE) ELSE history
        /\ cursor_row' = row
        /\ written' = IF plain THEN WrittenPrint(ch) ELSE written
        /\ UNCHANGED <<rows, cols, marks, plain>>
    BY <1>2 DEF PrintChar
  <2>2. CASE ~plain
    BY <2>1, <2>2 DEF TextInv
  <2>3. CASE plain /\ wraps
    <3> DEFINE x == [BlankRow(cols) EXCEPT ![0] = ch]
               g == GridAfterNewline
               r == RowAfterNewline
    <3>1. /\ rows \in Nat /\ cols \in Nat /\ BlankRow(cols) \in Row
          /\ written \in Seq(Row) /\ written # << >>
          /\ r < rows /\ 0 < cols
      <4>1. ~(row >= rows) /\ ~(col >= cols)
        BY <1>2
      <4>2. /\ rows \in Nat /\ cols \in Nat /\ BlankRow(cols) \in Row
            /\ written \in Seq(Row) /\ written # << >>
        BY <2>3, TextParts
      <4>3. r \in Nat
        BY NewlineKeepsRow DEF IInv
      <4> QED
        BY <2>3, <4>1, <4>2, <4>3
    <3>2. rows > 0 /\ r \in 0 .. rows - 1 /\ g \in [0 .. rows - 1 -> Row] /\ g[r] = BlankRow(cols)
      <4>1. rows > 0
        BY <3>1, NewlineKeepsRow DEF IInv
      <4>2. /\ r \in 0 .. rows - 1 /\ g \in [0 .. rows - 1 -> Row]
            /\ \A y \in r .. rows - 1 : g[y] = BlankRow(cols)
        BY <2>3, <4>1, NewlineBelow
      <4> QED
        BY <3>1, <4>1, <4>2
    <3>3. grid' = [g EXCEPT ![r] = x]
      BY <2>1, <2>3, <3>2
    <3>4. x \in Row
      BY <3>1 DEF Row, Cells
    <3>5. written' = Append(written, x)
      BY <2>1, <2>3 DEF WrittenPrint
    <3>6. /\ written' \in Seq(Row) /\ written' # << >> /\ written'[Len(written')] = x
          /\ Earlier(written') = written
      <4> HIDE DEF x
      <4> QED
        BY <3>1, <3>4, <3>5, NextRow
    <3>7. history' = HistoryAfterNewline(TRUE) /\ cursor_row' = r
      BY <2>1, <2>3
    <3> HIDE DEF x, g, r
    <3> QED
      BY <2>1, <2>3, <3>2, <3>3, <3>4, <3>6, <3>7, RowStarted DEF g, r
  <2>4. CASE plain /\ ~wraps
    <3> DEFINE c == cursor_row
               k == cursor_col
               n == Len(written)
               x == [grid[c] EXCEPT ![k] = ch]
    <3>1. /\ rows \in Nat /\ cols \in Nat /\ c \in Nat /\ k \in Nat
          /\ grid \in [0 .. rows - 1 -> Row]
          /\ written \in Seq(Row) /\ written # << >>
      BY <2>4, TextParts
    <3>2. c < rows /\ k < cols /\ rows > 0
      <4>1. ~(row >= rows) /\ ~(col >= cols)
        BY <1>2
      <4> QED
        BY <2>4, <3>1, <4>1
    <3>3. /\ written[n] = grid[c]
          /\ \A y \in c + 1 .. rows - 1 : grid[y] = BlankRow(cols)
          /\ Inked(Pushed \o RowSeq(grid, c)) = Inked(Earlier(written))
          /\ history \in Seq([cells : Row, wrapped : BOOLEAN])
      BY <2>4, <3>2 DEF TextInv, WroteAbove
    <3>4. /\ grid' = [grid EXCEPT ![c] = x] /\ history' = history /\ cursor_row' = c
      BY <2>1, <2>4
    <3>5. written' = [written EXCEPT ![n] = x]
      BY <2>1, <2>4, <3>3 DEF WrittenPrint
    <3>6. x \in Row
      <4>1. grid[c] \in Row
        BY <3>1, <3>2
      <4> QED
        BY <3>1, <3>2, <4>1 DEF Row, Cells
    <3> HIDE DEF x
    <3>7. /\ written' \in Seq(Row) /\ written' # << >> /\ written'[Len(written')] = x
          /\ Earlier(written') = Earlier(written)
      <4>1. written \in Seq(Row) /\ written # << >> /\ x \in Row
        BY <3>1, <3>6
      <4>2. written' = Rewritten(written, x)
        BY <3>5 DEF Rewritten
      <4> QED
        BY ONLY <4>1, <4>2, LastReplaced
    <3>8. /\ grid'[c] = x /\ \A y \in 0 .. rows - 1 : y # c => grid'[y] = grid[y]
      BY <3>1, <3>2, <3>4
    <3>9. RowSeq(grid', c) = RowSeq(grid, c)
      <4>1. \A i \in 1 .. c : grid'[i - 1] = grid[i - 1]
        <5>1. \A i \in 1 .. c : i - 1 \in 0 .. rows - 1 /\ i - 1 # c
          BY <3>1, <3>2
        <5> QED
          BY <3>8, <5>1
      <4> QED
        BY <4>1 DEF RowSeq
    <3>10. Pushed' = Pushed /\ Row' = Row /\ RowSeq(grid, cursor_row)' = RowSeq(grid', c)
      BY <2>1, <3>4 DEF Pushed, Row, RowSeq
    <3>11. WroteAbove'
      <4>1. \A y \in c + 1 .. rows - 1 : grid'[y] = BlankRow(cols)
        BY <3>1, <3>3, <3>8
      <4>2. Inked(Pushed' \o RowSeq(grid', c)) = Inked(Earlier(written'))
        BY <3>3, <3>7, <3>9, <3>10
      <4> HIDE DEF c, n
      <4>3. /\ rows' = rows /\ cols' = cols /\ cursor_row' = c
            /\ written'[Len(written')] = grid'[c]
        BY <2>1, <3>4, <3>7, <3>8
      <4> QED
        BY <3>2, <3>10, <4>1, <4>2, <4>3 DEF WroteAbove
    <3>12. WroteNothing'
      BY <2>1, <3>2 DEF WroteNothing
    <3>13. scroll_top = 0 /\ scroll_bottom = Less(rows, 1)
      BY <2>4 DEF TextInv
    <3> QED
      BY <2>1, <3>3, <3>4, <3>7, <3>10, <3>11, <3>12, <3>13 DEF TextInv, marks
  <2> QED
    BY <2>2, <2>3, <2>4
<1> QED
  BY <1>1, <1>2

(* A line feed ends the row: what the next one adds is a blank row, or it  *)
(* goes on in the blank row there is.                                      *)
LEMMA BreakText ==
  ASSUME IInv, TextInv, plain
  PROVE  /\ WrittenBreak \in Seq(Row) /\ WrittenBreak # << >>
         /\ rows > 0 => /\ WrittenBreak[Len(WrittenBreak)] = BlankRow(cols)
                        /\ Inked(Earlier(WrittenBreak)) = Inked(written)
         /\ rows = 0 => WrittenBreak = written
<1> DEFINE last == written[Len(written)]
<1>1. /\ written \in Seq(Row) /\ written # << >> /\ BlankRow(cols) \in Row
      /\ rows \in Nat /\ cols \in Nat
  BY TextParts
<1>2. last \in Row
  <2>1. Len(written) \in 1 .. Len(written)
    BY <1>1, EmptySeq
  <2> QED
    BY <1>1, <2>1, ElementOfSeq
<1>3. CASE HasInk(last)
  <2>1. WrittenBreak = Append(written, BlankRow(cols))
    BY <1>3 DEF WrittenBreak
  <2>2. rows # 0
    <3> SUFFICES ASSUME rows = 0 PROVE FALSE
      OBVIOUS
    <3>1. written = <<BlankRow(cols)>>
      BY DEF TextInv, WroteNothing
    <3>2. last = BlankRow(cols)
      BY <3>1
    <3> HIDE DEF last
    <3> QED
      BY <1>1, <1>3, <3>2, NoInk
  <2> HIDE DEF last
  <2>3. /\ WrittenBreak \in Seq(Row) /\ WrittenBreak # << >>
        /\ WrittenBreak[Len(WrittenBreak)] = BlankRow(cols)
        /\ Earlier(WrittenBreak) = written
    BY <1>1, <2>1, NextRow
  <2> QED
    BY <2>2, <2>3
<1>4. CASE ~HasInk(last)
  <2>1. WrittenBreak = written
    BY <1>4 DEF WrittenBreak
  <2>2. last = BlankRow(cols)
    <3> HIDE DEF last
    <3> QED
      BY <1>2, <1>4, NoInk
  <2>3. ASSUME rows > 0 PROVE Inked(Earlier(written)) = Inked(written)
    <3>1. Pushed \o RowSeq(grid, cursor_row) \in Seq(Row)
      BY <2>3, ScreenText
    <3>2. Inked(Pushed \o RowSeq(grid, cursor_row)) = Inked(Earlier(written))
      BY <2>3 DEF TextInv, WroteAbove
    <3>3. ~HasInk(written[Len(written)]) => Inked(written) = Inked(Earlier(written))
      BY <1>1, <3>1, <3>2, WholeText
    <3> QED
      BY <1>4, <3>3
  <2> QED
    BY <1>1, <2>1, <2>2, <2>3
<1> QED
  BY <1>3, <1>4

(* LineFeed ends the row and goes to the next.                             *)
LEMMA LineFeedText ==
  ASSUME IInv, TextInv, LineFeed
  PROVE  TextInv'
<1>1. CASE CannotScroll
  BY <1>1, TextStays DEF LineFeed, Panic, screen, marks, ghosts
<1>2. CASE ~CannotScroll
  <2>1. /\ grid' = GridAfterNewline
        /\ history' = HistoryAfterNewline(FALSE)
        /\ cursor_row' = RowAfterNewline
        /\ written' = IF plain THEN WrittenBreak ELSE written
        /\ UNCHANGED <<rows, cols, marks, plain>>
    BY <1>2 DEF LineFeed
  <2>2. CASE ~plain
    BY <2>1, <2>2 DEF TextInv
  <2>3. CASE plain
    <3>1. rows \in Nat /\ cursor_row \in Nat /\ BlankRow(cols) \in Row
      BY <2>3, TextParts
    <3>2. rows > 0
      <4> SUFFICES ASSUME rows = 0 PROVE FALSE
        BY <3>1
      <4>1. scroll_top = 0 /\ scroll_bottom = 0
        BY <2>3 DEF TextInv, Less
      <4> QED
        BY <1>2, <3>1, <4>1 DEF CannotScroll, AtBottom
    <3>3. /\ RowAfterNewline \in 0 .. rows - 1
          /\ GridAfterNewline \in [0 .. rows - 1 -> Row]
          /\ GridAfterNewline[RowAfterNewline] = BlankRow(cols)
      <4>1. /\ RowAfterNewline \in 0 .. rows - 1
            /\ GridAfterNewline \in [0 .. rows - 1 -> Row]
            /\ \A y \in RowAfterNewline .. rows - 1 : GridAfterNewline[y] = BlankRow(cols)
        BY <2>3, <3>2, NewlineBelow
      <4>2. RowAfterNewline \in RowAfterNewline .. rows - 1
        BY <3>1, <4>1
      <4> QED
        BY <4>1, <4>2
    <3>4. grid' = [GridAfterNewline EXCEPT ![RowAfterNewline] = BlankRow(cols)]
      BY <2>1, <3>3
    <3>5. written' = WrittenBreak
      BY <2>1, <2>3
    <3>6. /\ written' \in Seq(Row) /\ written' # << >>
          /\ written'[Len(written')] = BlankRow(cols)
          /\ Inked(Earlier(written')) = Inked(written)
      BY <2>3, <3>2, <3>5, BreakText
    <3> QED
      BY <2>1, <2>3, <3>1, <3>2, <3>4, <3>6, RowStarted
  <2> QED
    BY <2>2, <2>3
<1> QED
  BY <1>1, <1>2

(* The rows cleared come behind those history has.                         *)
LEMMA ClearedJoin ==
  ASSUME IInv, TextInv, plain, ClearScreen
  PROVE  /\ RowSeq(grid, rows) \in Seq(Row) /\ Cleared \in Seq(Row)
         /\ history' \in Seq([cells : Row, wrapped : BOOLEAN])
         /\ Pushed' = Pushed \o Cleared
<1> DEFINE L == [cells : Row, wrapped : BOOLEAN]
           h == history
           p == Pushed
           q == Cleared
           a == [i \in 1 .. Len(q) |-> Line(q[i], FALSE)]
           g == h \o a
           n == Len(h)
           m == Len(q)
           u == p \o q
<1>1. /\ rows \in Nat /\ grid \in [0 .. rows - 1 -> Row]
      /\ p \in Seq(Row) /\ Len(p) = n /\ h \in Seq(L)
  BY TextParts DEF TextInv
<1>2. RowSeq(grid, rows) \in Seq(Row) /\ q \in Seq(Row)
  <2>1. \A y \in 0 .. rows - 1 : grid[y] \in Row
    BY <1>1
  <2>2. RowSeq(grid, rows) \in Seq(Row)
    BY <1>1, <2>1, RowSeqType
  <2> QED
    BY <2>2, InkedTwice DEF Cleared
<1>3. /\ a \in Seq(L) /\ Len(a) = m /\ m \in Nat
      /\ \A i \in 1 .. m : a[i].cells = q[i]
  <2>1. \A i \in 1 .. m : q[i] \in Row
    BY <1>2, ElementOfSeq
  <2>2. \A i \in 1 .. m : Line(q[i], FALSE) \in L
    BY <2>1 DEF Line
  <2>3. m \in Nat
    BY <1>2, LenProperties
  <2> HIDE DEF q, L
  <2> QED
    BY <2>2, <2>3 DEF Line
<1>4. history' = g
  BY DEF ClearScreen
<1>5. n \in Nat /\ \A i \in 1 .. n : p[i] = h[i].cells
  BY <1>1 DEF Pushed
<1> HIDE DEF L, a, h, p, q
<1>6. g \in Seq(L) /\ Len(g) = n + m /\ \A i \in 1 .. n + m : g[i] = IF i <= n THEN h[i] ELSE a[i - n]
  <2>1. /\ h \o a \in Seq(L) /\ Len(h \o a) = Len(h) + Len(a)
        /\ \A i \in 1 .. Len(h) + Len(a) :
             (h \o a)[i] = IF i <= Len(h) THEN h[i] ELSE a[i - Len(h)]
    <3>1. h \in Seq(L) /\ a \in Seq(L)
      BY <1>1, <1>3
    <3> QED
      BY ONLY <3>1, ConcatProperties
  <2> QED
    BY <1>3, <2>1
<1>7. /\ u \in Seq(Row) /\ Len(u) = n + m
      /\ \A i \in 1 .. n + m : u[i] = IF i <= n THEN p[i] ELSE q[i - n]
  <2>1. /\ p \o q \in Seq(Row) /\ Len(p \o q) = Len(p) + Len(q)
        /\ \A i \in 1 .. Len(p) + Len(q) :
             (p \o q)[i] = IF i <= Len(p) THEN p[i] ELSE q[i - Len(p)]
    BY <1>1, <1>2, ConcatProperties
  <2> QED
    BY <1>1, <2>1
<1> HIDE DEF n, m, u, g
<1>8. \A i \in 1 .. n + m : g[i].cells = u[i]
  <2> SUFFICES ASSUME NEW i \in 1 .. n + m PROVE g[i].cells = u[i]
    OBVIOUS
  <2>1. CASE i <= n
    <3>1. i \in 1 .. n
      BY <1>5, <2>1
    <3> QED
      BY <1>5, <1>6, <1>7, <2>1, <3>1
  <2>2. CASE ~(i <= n)
    <3>1. i - n \in 1 .. m
      BY <1>3, <1>5, <2>2
    <3>2. a[i - n].cells = q[i - n]
      BY <1>3, <3>1
    <3> QED
      BY <1>6, <1>7, <2>2, <3>2
  <2> QED
    BY <2>1, <2>2
<1>9. u = [i \in 1 .. n + m |-> u[i]]
  BY <1>7
<1>10. Pushed' = [i \in 1 .. n + m |-> g[i].cells]
  BY <1>4, <1>6 DEF Pushed
<1>11. Pushed' = u
  BY <1>8, <1>9, <1>10
<1> QED
  BY <1>2, <1>4, <1>6, <1>11 DEF u, p, q, L

(* ClearScreen: the rows with something on them go to history, in order.   *)
LEMMA ClearText ==
  ASSUME IInv, TextInv, ClearScreen
  PROVE  TextInv'
<1> DEFINE add == [i \in 1 .. Len(Cleared) |-> Line(Cleared[i], FALSE)]
           c == cursor_row
<1>1. /\ history' = history \o add
      /\ grid' = [y \in 0 .. rows - 1 |-> BlankRow(cols)]
      /\ written' = IF plain THEN WrittenBreak ELSE written
      /\ UNCHANGED <<rows, cols, cursor_row, marks, plain>>
  BY DEF ClearScreen
<1>2. CASE ~plain
  BY <1>1, <1>2 DEF TextInv
<1>3. CASE plain
  <2> USE <1>3
  <2>1. /\ rows \in Nat /\ cols \in Nat /\ c \in Nat /\ BlankRow(cols) \in Row
        /\ Pushed \in Seq(Row) /\ Len(Pushed) = Len(history)
        /\ history \in Seq([cells : Row, wrapped : BOOLEAN])
    BY TextParts DEF TextInv
  <2>2. RowSeq(grid, rows) \in Seq(Row) /\ Cleared \in Seq(Row)
    BY ClearedJoin
  <2>3. history' \in Seq([cells : Row, wrapped : BOOLEAN])
    BY ClearedJoin
  <2>4. Pushed' = Pushed \o Cleared
    BY ClearedJoin
  <2>5. WrittenBreak \in Seq(Row) /\ WrittenBreak # << >> /\ written' = WrittenBreak
    BY <1>1, BreakText
  <2>6. WroteAbove'
    <3> SUFFICES ASSUME rows > 0 PROVE WroteAbove'
      BY <1>1 DEF WroteAbove
    <3>1. c < rows
      BY DEF TextInv, WroteAbove
    <3>2. \A y \in 0 .. rows - 1 : grid'[y] = BlankRow(cols)
      BY <1>1
    <3>3. RowSeq(grid', c) \in Seq(Row) /\ Inked(RowSeq(grid', c)) = << >>
      <4>1. \A y \in 0 .. c - 1 : grid'[y] = BlankRow(cols)
        BY <2>1, <3>1, <3>2
      <4> QED
        BY <2>1, <4>1, BlankRowsLeaveNothing
    <3>4. Inked(Pushed') = Inked(written)
      <4>1. Inked(Pushed \o Cleared) = Inked(Pushed) \o Inked(Cleared)
        BY <2>1, <2>2, InkedConcat
      <4>2. Inked(Cleared) = Inked(RowSeq(grid, rows))
        BY <2>2, InkedTwice DEF Cleared
      <4>3. Inked(Pushed \o RowSeq(grid, rows)) = Inked(Pushed) \o Inked(RowSeq(grid, rows))
        BY <2>1, <2>2, InkedConcat
      <4>4. Inked(Pushed \o RowSeq(grid, rows)) = Inked(written)
        BY ScreenText
      <4> QED
        BY <2>4, <4>1, <4>2, <4>3, <4>4
    <3>5. Inked(Pushed' \o RowSeq(grid', c)) = Inked(written)
      <4>1. Pushed' \in Seq(Row)
        BY <2>1, <2>2, <2>4, ConcatProperties
      <4>2. Inked(Pushed' \o RowSeq(grid', c)) = Inked(Pushed') \o Inked(RowSeq(grid', c))
        BY <3>3, <4>1, InkedConcat
      <4>3. Inked(Pushed') \in Seq(Row)
        BY <4>1, InkedTwice
      <4>4. Inked(Pushed') \o << >> = Inked(Pushed')
        BY <4>3, ConcatEmptySeq
      <4> QED
        BY <3>3, <3>4, <4>2, <4>4
    <3>6. RowSeq(grid, cursor_row)' = RowSeq(grid', c)
      BY <1>1 DEF RowSeq
    <3>7. /\ written'[Len(written')] = BlankRow(cols)
          /\ Inked(Earlier(written')) = Inked(written)
      BY <2>5, BreakText
    <3>8. grid'[c] = BlankRow(cols) /\ \A y \in c + 1 .. rows - 1 : grid'[y] = BlankRow(cols)
      BY <2>1, <3>1, <3>2
    <3> QED
      BY <1>1, <3>1, <3>5, <3>6, <3>7, <3>8 DEF WroteAbove
  <2>7. WroteNothing'
    <3> SUFFICES ASSUME rows = 0 PROVE WroteNothing'
      BY <1>1 DEF WroteNothing
    <3>1. history = << >> /\ written = <<BlankRow(cols)>>
      BY DEF TextInv, WroteNothing
    <3>2. Cleared = << >>
      <4>1. RowSeq(grid, rows) = << >>
        BY DEF RowSeq
      <4> QED
        BY <4>1, InkedOfNone DEF Cleared
    <3>3. history' = << >>
      <4>1. add = << >>
        BY <3>2 DEF add
      <4> HIDE DEF add
      <4> QED
        BY <1>1, <3>1, <4>1
    <3>4. written' = written
      BY <2>5, BreakText
    <3> QED
      BY <1>1, <3>1, <3>3, <3>4 DEF WroteNothing
  <2>8. Row' = Row /\ scroll_top = 0 /\ scroll_bottom = Less(rows, 1)
    BY <1>1 DEF Row, TextInv
  <2> QED
    BY <1>1, <2>3, <2>5, <2>6, <2>7, <2>8 DEF TextInv, marks
<1> QED
  BY <1>2, <1>3

-----------------------------------------------------------------------------
(* A new terminal: nothing was written and nothing is on the screen.       *)
LEMMA TextInit == Init => TextInv
<1> SUFFICES ASSUME Init PROVE TextInv
  OBVIOUS
<1>1. IInv
  BY InitEstablishes
<1>2. /\ rows \in Nat /\ cols \in Nat /\ BlankRow(cols) \in Row
      /\ scroll_top = 0 /\ scroll_bottom = Less(rows, 1)
      /\ grid = [y \in 0 .. rows - 1 |-> BlankRow(cols)]
      /\ cursor_row = 0 /\ history = << >> /\ written = <<BlankRow(cols)>>
  BY <1>1, BlankIsRow DEF Init, IInv, TypeOK
<1>3. /\ history \in Seq([cells : Row, wrapped : BOOLEAN])
      /\ written \in Seq(Row) /\ written # << >>
      /\ Len(written) = 1 /\ written[1] = BlankRow(cols)
  BY <1>2
<1>4. WroteAbove
  <2> SUFFICES ASSUME rows > 0 PROVE WroteAbove
    BY DEF WroteAbove
  <2>1. /\ grid[0] = BlankRow(cols)
        /\ \A y \in 1 .. rows - 1 : grid[y] = BlankRow(cols)
    BY <1>2
  <2>2. Pushed = << >> /\ RowSeq(grid, 0) = << >> /\ Earlier(written) = << >>
    BY <1>2, <1>3 DEF Pushed, RowSeq, Earlier
  <2>3. Pushed \o RowSeq(grid, 0) = << >>
    BY <2>2
  <2> QED
    BY <1>2, <1>3, <2>1, <2>2, <2>3 DEF WroteAbove
<1> QED
  BY <1>2, <1>3, <1>4 DEF TextInv, WroteNothing

(* Every operation of the terminal.                                        *)
LEMMA TextStep == IInv /\ TextInv /\ [Next]_vars => TextInv'
<1> SUFFICES ASSUME IInv, TextInv, [Next]_vars PROVE TextInv'
  OBVIOUS
<1>1. CASE UNCHANGED vars
  BY <1>1, TextStays DEF vars, screen, marks, ghosts
<1>2. CASE Next
  <2>1. ASSUME NEW c \in Chars, PrintChar(c) PROVE TextInv'
    BY <2>1, PrintText
  <2>2. CASE LineFeed
    BY <2>2, LineFeedText
  <2>3. ASSUME NEW r, NEW c, MoveTo(r, c) PROVE TextInv'
    <3>1. CASE r = cursor_row
      BY <2>3, <3>1, TextStays DEF MoveTo, marks, ghosts
    <3>2. CASE r # cursor_row
      BY <2>3, <3>2, TextDropped DEF MoveTo
    <3> QED
      BY <3>1, <3>2
  <2>4. CASE CarriageReturn \/ Backspace \/ TabStop \/ RestoreCursor
    BY <2>3, <2>4 DEF CarriageReturn, Backspace, TabStop, RestoreCursor
  <2>5. ASSUME NEW n \in Args,
               CursorUp(n) \/ CursorDown(n) \/ CursorForward(n) \/ CursorBack(n)
        PROVE  TextInv'
    BY <2>3, <2>5 DEF CursorUp, CursorDown, CursorForward, CursorBack
  <2>6. ASSUME NEW r \in Args, NEW c \in Args, CursorTo(r, c) PROVE TextInv'
    BY <2>3, <2>6 DEF CursorTo
  <2>7. CASE SaveCursor
    BY <2>7, TextStays DEF SaveCursor, screen, ghosts
  <2>8. ASSUME NEW t, NEW b, SetScrollRegion(t, b) PROVE TextInv'
    BY <2>8, TextDropped DEF SetScrollRegion
  <2>9. ASSUME NEW mode, EraseInLine(mode) \/ ErasePart(mode) PROVE TextInv'
    <3>1. CASE Panic
      BY <3>1, TextStays DEF Panic, screen, marks, ghosts
    <3>2. CASE NotPlain
      BY <3>2, TextDropped
    <3> QED
      BY <2>9, <3>1, <3>2 DEF EraseInLine, ErasePart
  <2>10. CASE ClearScreen
    BY <2>10, ClearText
  <2>11. ASSUME NEW r, NEW c, Resize(r, c) PROVE TextInv'
    BY <2>11, TextDropped DEF Resize
  <2> QED
    BY <1>2, <2>1, <2>2, <2>4, <2>5, <2>6, <2>7, <2>8, <2>9, <2>10, <2>11 DEF Next, Control
<1> QED
  BY <1>1, <1>2

(* However a plain program fills the screen, wraps, scrolls and clears it: *)
(* every row it wrote something on is in history or on the screen, once    *)
(* and in order.                                                           *)
THEOREM WrittenRowsAreKept == Spec => []ScrollbackIsComplete
<1>1. Spec => [](IInv /\ TextInv)
  <2>1. Init => IInv /\ TextInv
    BY InitEstablishes, TextInit
  <2>2. IInv /\ TextInv /\ [Next]_vars => IInv' /\ TextInv'
    BY StepKeeps, TextStep
  <2> QED
    BY <2>1, <2>2, PTL DEF Spec
<1>2. IInv /\ TextInv => ScrollbackIsComplete
  BY TextIsComplete
<1> QED
  BY <1>1, <1>2, PTL
=============================================================================
