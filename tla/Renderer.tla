------------------------------ MODULE Renderer ------------------------------
(***************************************************************************)
(* CrosstermRenderer, renderer/mod.rs: the last frame it drew, the host    *)
(* terminal it writes to, and the difference it writes.                    *)
(*                                                                         *)
(* A cell of a frame is <<text, style>>; what the host shows also depends  *)
(* on the theme (renderer/palette.rs).  A theme is a function from styles  *)
(* to what the host is told.  Frames are any of Pages, records of `rows`   *)
(* and a `cursor`, see Reflow.                                             *)
(***************************************************************************)
EXTENDS Integers, Sequences, SequencesExt

CONSTANTS Pages,   \* what main_loop may draw: [rows, cursor]
          Themes,  \* Palette: [style -> colours]
          Default  \* the theme of a new renderer

Off == <<>>        \* no cursor

PageCells == UNION {Range(row) : row \in UNION {Range(page.rows) : page \in Pages}}

(* A page is rows of cells.                                                *)
ASSUME PagesAreRows == \A page \in Pages : page.rows \in Seq(Seq(PageCells))

(* The pages of main_loop are one tab, or two with the border, below a row *)
(* as wide as the window.  All their rows have one width, except while a   *)
(* tab in front has missed a resize (see README).                          *)
PagesAreRectangular ==
  \A page \in Pages : \A y \in 1 .. Len(page.rows) :
    Len(page.rows[y]) = Len(page.rows[1])

VARIABLES
  last_frame,   \* rows drawn last; <<>> asks for a full repaint
  last_cursor,
  palette,
  host,         \* the host's screen: [<<row, column>> -> what is shown]
  host_cursor   \* [shown, at] of the host

rvars == <<last_frame, last_cursor, palette, host, host_cursor>>

-----------------------------------------------------------------------------
(* draw                                                                    *)

Width(rows) == IF rows = <<>> THEN -1 ELSE Len(rows[1])

CellsOf(rows) == UNION {{y} \X (1 .. Len(rows[y])) : y \in 1 .. Len(rows)}

(* Mutant: only the number of rows is compared.                            *)
Repaints_RowsOnly(rows) == Len(last_frame) # Len(rows)
Repaints(rows) == Len(last_frame) # Len(rows) \/ Width(last_frame) # Width(rows)

(* Mutant: cell_eq compares the text alone.                                *)
Changed_TextOnly(rows, y, x) ==
  Repaints(rows) \/ x > Len(last_frame[y]) \/ last_frame[y][x][1] # rows[y][x][1]
Changed(rows, y, x) ==
  Repaints(rows) \/ x > Len(last_frame[y]) \/ last_frame[y][x] # rows[y][x]

(* A run of changed cells of one style is written at once; its first cell  *)
(* gives the style of all of them.                                         *)
RunStart(rows, y, x) ==
  CHOOSE b \in 1 .. x :
    /\ \A k \in b .. x : Changed(rows, y, k) /\ rows[y][k][2] = rows[y][x][2]
    /\ \/ b = 1
       \/ ~Changed(rows, y, b - 1)
       \/ rows[y][b - 1][2] # rows[y][x][2]

Shown(cell, theme) == <<cell[1], theme[cell[2]]>>

(* Every cell written, with what is written there.                         *)
Written(rows) ==
  LET at == {p \in CellsOf(rows) : Changed(rows, p[1], p[2])}
  IN  [p \in at |-> Shown(<<rows[p[1]][p[2]][1],
                            rows[p[1]][RunStart(rows, p[1], p[2])][2]>>, palette)]

(* Where writing leaves the host's cursor: behind the last cell written.   *)
LastWritten(at) ==
  CHOOSE p \in at : \A q \in at : q[1] < p[1] \/ (q[1] = p[1] /\ q[2] <= p[2])

CursorAfter(cursor, at) ==
  LET painted == IF at = {} THEN host_cursor.at
                 ELSE <<LastWritten(at)[1] - 1, LastWritten(at)[2]>>
  IN  IF last_cursor = cursor THEN [host_cursor EXCEPT !.at = painted]
      ELSE IF cursor = Off THEN [shown |-> FALSE, at |-> painted]
      ELSE [shown |-> TRUE, at |-> cursor]

Draw(page) ==
  LET written == Written(page.rows)
      kept    == IF Repaints(page.rows) THEN {} ELSE DOMAIN host
  IN  /\ host' = [p \in DOMAIN written \union kept |->
                    IF p \in DOMAIN written THEN written[p] ELSE host[p]]
      /\ host_cursor' = CursorAfter(page.cursor, DOMAIN written)
      /\ last_frame' = page.rows
      /\ last_cursor' = page.cursor
      /\ UNCHANGED palette

(* Mutant: the frame is not forgotten.                                     *)
Forgotten_Not == last_frame
Forgotten == <<>>

SetTheme(theme) ==
  /\ palette' = theme
  /\ last_frame' = Forgotten
  /\ UNCHANGED <<last_cursor, host, host_cursor>>

(* init: the alternate screen is empty and its cursor hidden.              *)
Init ==
  /\ last_frame = <<>>
  /\ last_cursor = Off
  /\ palette = Default
  /\ host = <<>>
  /\ host_cursor = [shown |-> FALSE, at |-> <<0, 0>>]

Next ==
  \/ \E page \in Pages : Draw(page)
  \/ \E theme \in Themes : SetTheme(theme)

Spec == Init /\ [][Next]_rvars

-----------------------------------------------------------------------------
(* After a draw the host shows the frame, every cell in its own style and  *)
(* the current theme, whatever was drawn before it, and nothing of an      *)
(* earlier frame beside it.                                                *)
ScreenShowsFrame ==
  last_frame # <<>> =>
    host = [p \in CellsOf(last_frame) |->
              Shown(last_frame[p[1]][p[2]], palette)]

(* "Some((row, col)) shows the cursor there" (renderer/mod.rs:109).        *)
CursorWhereAsked ==
  last_frame # <<>> /\ last_cursor # Off =>
    host_cursor = [shown |-> TRUE, at |-> last_cursor]
=============================================================================
