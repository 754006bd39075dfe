------------------------------- MODULE Reflow -------------------------------
(***************************************************************************)
(* What a tab shows: rewrapping of stored lines, virtual_buffer/reflow.rs, *)
(* the window of history that fills a screen, VirtualBuffer::              *)
(* history_window, and the frame of a tab that may be scrolled back,       *)
(* main.rs render_frame.                                                   *)
(*                                                                         *)
(* A line is [cells, wrapped] with `cells` a sequence; a grid is a         *)
(* sequence of rows.  Cell values are as in TerminalCore.                  *)
(***************************************************************************)
EXTENDS Integers, Sequences, SequencesExt

CONSTANTS Blank,         \* the default cell
          BlankLooking   \* spaces in the default colours, whatever their attributes

ASSUME BlankLooksBlank == Blank \in BlankLooking

NoCursor == <<>>

(* A line of cells.                                                        *)
Line(C) == [cells : Seq(C), wrapped : BOOLEAN]

Smaller(m, n) == IF m <= n THEN m ELSE n
Monus(m, n)   == IF m <= n THEN 0 ELSE m - n

Tail_(s, n) == SubSeq(s, Len(s) - Smaller(n, Len(s)) + 1, Len(s))

(* A row cut or filled to `width` cells.                                   *)
Fit(cells, width) == [x \in 1 .. width |-> IF x <= Len(cells) THEN cells[x] ELSE Blank]

-----------------------------------------------------------------------------
(* reflow.rs                                                               *)

(* Runs of wrapped lines are one logical line: what is collected so far,   *)
(* with the next line.                                                     *)
Join(acc, line) ==
  LET current == acc.current \o line.cells
  IN  IF line.wrapped
      THEN [done |-> acc.done, current |-> current]
      ELSE [done |-> Append(acc.done, current), current |-> <<>>]

NothingYet == [done |-> <<>>, current |-> <<>>]

Collected(lines) ==
  LET after[i \in 0 .. Len(lines)] ==
        IF i = 0 THEN NothingYet ELSE Join(after[i - 1], lines[i])
  IN  after[Len(lines)]

(* One that is still open at the end counts unless it is empty.            *)
GroupLogicalLines(lines) ==
  LET all == Collected(lines)
  IN  IF all.current = <<>> THEN all.done ELSE Append(all.done, all.current)

TrimTrailingBlanks(cells) ==
  SubSeq(cells, 1, CHOOSE n \in 0 .. Len(cells) :
                     /\ n = 0 \/ cells[n] \notin BlankLooking
                     /\ \A x \in n + 1 .. Len(cells) : cells[x] \in BlankLooking)

(* Mutant: the last row of an exact fit is marked as continued.            *)
RewrapLogicalLine_OpenEnd(cells, width) ==
  LET text == TrimTrailingBlanks(cells)
      rows == (Len(text) + width - 1) \div width
  IN  IF width = 0 THEN <<[cells |-> cells, wrapped |-> FALSE]>>
      ELSE IF text = <<>> THEN <<[cells |-> <<>>, wrapped |-> FALSE]>>
      ELSE [i \in 1 .. rows |->
              [cells   |-> SubSeq(text, (i - 1) * width + 1, Smaller(i * width, Len(text))),
               wrapped |-> i * width <= Len(text)]]
RewrapLogicalLine(cells, width) ==
  LET text == TrimTrailingBlanks(cells)
      rows == (Len(text) + width - 1) \div width
  IN  IF width = 0 THEN <<[cells |-> cells, wrapped |-> FALSE]>>
      ELSE IF text = <<>> THEN <<[cells |-> <<>>, wrapped |-> FALSE]>>
      ELSE [i \in 1 .. rows |->
              [cells   |-> SubSeq(text, (i - 1) * width + 1, Smaller(i * width, Len(text))),
               wrapped |-> i < rows]]

Rewrapped(lines, width) ==
  LET logical == GroupLogicalLines(lines)
  IN  FlattenSeq([i \in 1 .. Len(logical) |-> RewrapLogicalLine(logical[i], width)])

-----------------------------------------------------------------------------
(* VirtualBuffer::history_window: the last `want` rows of the lines before *)
(* `end`, rewrapped.  The part of history that is read doubles until it    *)
(* gives enough rows or reaches the first line.                            *)

FirstRead(want) == 2 * want + 4

(* What it is after k doublings.                                           *)
ReadSizes(want, most) ==
  LET size[k \in 0 .. most] == IF k = 0 THEN FirstRead(want) ELSE 2 * size[k - 1]
  IN  size

(* Mutant: gives up after one read.                                        *)
ReadSize_Once(history, width, want, end) == FirstRead(want)
ReadSize(history, width, want, end) ==
  LET size == ReadSizes(want, end)
      Enough(k) == \/ size[k] >= end
                   \/ Len(Rewrapped(SubSeq(history, end - size[k] + 1, end), width)) >= want
  IN  size[CHOOSE k \in 0 .. end : Enough(k) /\ \A j \in 0 .. k - 1 : ~Enough(j)]

HistoryWindow(history, width, want, end) ==
  IF want = 0 \/ end = 0
  THEN <<>>
  ELSE LET start == Monus(end, ReadSize(history, width, want, end))
       IN  Tail_(Rewrapped(SubSeq(history, start + 1, end), width), want)

-----------------------------------------------------------------------------
(* main.rs render_frame: the live grid, or, scrolled back, history above   *)
(* what is still visible of the grid, without a cursor.                    *)

(* Mutant: rows that history lacks are not made up for.                    *)
Padded_Not(shown, rows, cols) == shown
Padded(shown, rows, cols) ==
  [i \in 1 .. Monus(rows, Len(shown)) |-> Fit(<<>>, cols)] \o shown

ScrolledRows(history, grid, rows, cols, offset) ==
  LET total  == Len(history)
      bottom == Monus(total + rows, offset)
      top    == Monus(bottom, rows)
      end    == Smaller(bottom, total)
      past   == IF top < total THEN HistoryWindow(history, cols, end - top, end) ELSE <<>>
      live   == IF bottom > total
                THEN SubSeq(grid, Monus(top, total) + 1, Smaller(bottom - total, rows))
                ELSE <<>>
  IN  Padded([i \in 1 .. Len(past) |-> Fit(past[i].cells, cols)] \o live, rows, cols)

(* A tab: its history, grid, size, cursor and how far it is scrolled back. *)
TabFrame(t) ==
  IF t.offset = 0
  THEN [rows |-> t.grid, cursor |-> t.cursor]
  ELSE [rows   |-> ScrolledRows(t.history, t.grid, t.rows, t.cols, t.offset),
        cursor |-> NoCursor]

-----------------------------------------------------------------------------
(* main.rs, the render arm: one tab, or two side by side, below a row that *)
(* holds the tab bar or a message.  Border is the cell between the panes.  *)

SplitFrame(l, r, lw, focus, border) ==
  LET left  == TabFrame(l)
      right == TabFrame(r)
  IN  [rows   |-> [y \in 1 .. Smaller(Len(left.rows), Len(right.rows)) |->
                     left.rows[y] \o <<border>> \o right.rows[y]],
       cursor |-> IF focus = "left" THEN left.cursor
                  ELSE IF right.cursor = NoCursor THEN NoCursor
                  ELSE <<right.cursor[1], right.cursor[2] + lw + 1>>]

(* render_dialog_line: a message cut or filled to the width.               *)
MessageRow(text, width, background) ==
  [x \in 1 .. width |-> IF x <= Len(text) THEN text[x] ELSE background]

FullFrame(top, content) ==
  [rows   |-> <<top>> \o content.rows,
   cursor |-> IF content.cursor = NoCursor THEN NoCursor
              ELSE <<content.cursor[1] + 1, content.cursor[2]>>]
=============================================================================
