--------------------------- MODULE DisplayProofs ----------------------------
(***************************************************************************)
(* For all pages, themes, tabs, histories, widths and labels: what         *)
(* renderer/mod.rs writes for a frame leaves the host with the frame; what *)
(* a tab shows fills its screen, however far it is scrolled back;          *)
(* rewrapping moves the ends of rows and nothing else; a line comes back   *)
(* from its record and from its ANSI text; an imported profile is what its *)
(* file says; and the tab bar shows the active tab.                        *)
(***************************************************************************)
EXTENDS Display, FiniteSetTheorems, SequenceTheorems, WellFoundedInduction, TLAPS

-----------------------------------------------------------------------------
(* What a recursion needs.                                                 *)

(* A set of numbers that is not empty has a least one.                     *)
LEMMA LeastNumber ==
  ASSUME NEW S \in SUBSET Nat, S # {}
  PROVE  \E k \in S : \A j \in S : k <= j
<1> DEFINE less == {p \in Nat \X Nat : p[1] < p[2]}
<1>1. IsWellFoundedOn(less, Nat)
  BY NatLessThanWellFounded DEF OpToRel
<1>2. PICK k \in S : \A j \in S : <<j, k>> \notin less
  <2> HIDE DEF less
  <2> QED
    BY <1>1, WFMin
<1>3. \A j \in S : k <= j
  <2> TAKE j \in S
  <2>1. <<j, k>> \in Nat \X Nat /\ <<j, k>>[1] = j /\ <<j, k>>[2] = k
    OBVIOUS
  <2>2. ~(j < k)
    BY <2>1, <1>2
  <2> QED
    BY <2>2
<1> QED
  BY <1>3

(* A set that has 0 and, with a number below l, the next one, has all      *)
(* numbers up to l.                                                        *)
LEMMA CountingUp ==
  ASSUME NEW l \in Nat, NEW Good, 0 \in Good,
         \A n \in 0 .. l : n # 0 /\ n - 1 \in Good => n \in Good
  PROVE  0 .. l \subseteq Good
<1> DEFINE Bad == {n \in 0 .. l : n \notin Good}
<1> SUFFICES ASSUME Bad # {} PROVE FALSE
  OBVIOUS
<1>1. PICK k \in Bad : \A j \in Bad : k <= j
  <2>1. Bad \in SUBSET Nat
    OBVIOUS
  <2> HIDE DEF Bad
  <2> QED
    BY <2>1, LeastNumber
<1>2. k \in 0 .. l /\ k \notin Good /\ k # 0
  BY <1>1
<1>3. k - 1 \in 0 .. l /\ ~(k <= k - 1)
  BY <1>2
<1>4. k - 1 \in Good
  BY <1>1, <1>3
<1> QED
  BY <1>2, <1>4

(* Going on n times from a start, with a value of S after each time.       *)
Steps(f, n, S, start, step) ==
  /\ f \in [0 .. n -> S]
  /\ f[0] = start
  /\ \A i \in 1 .. n : f[i] = step[i][f[i - 1]]

(* Whatever goes on from any value of S can be gone on with.               *)
LEMMA Recursion ==
  ASSUME NEW n \in Nat, NEW S, NEW start \in S, NEW step \in [1 .. n -> [S -> S]]
  PROVE  \E f : Steps(f, n, S, start, step)
<1> DEFINE Solves(f, m) == f[0] = start /\ \A i \in 1 .. m : f[i] = step[i][f[i - 1]]
           Solved(m) == \E f \in [0 .. m -> S] : Solves(f, m)
           Good == {m \in 0 .. n : Solved(m)}
<1>1. 0 \in Good
  <2> DEFINE f == [i \in 0 .. 0 |-> start]
  <2>1. f \in [0 .. 0 -> S] /\ Solves(f, 0)
    OBVIOUS
  <2> HIDE DEF f
  <2> QED
    BY <2>1
<1> HIDE DEF Good
<1>2. ASSUME NEW m \in 0 .. n, m # 0, m - 1 \in Good PROVE m \in Good
  <2>1. m \in Nat /\ m - 1 \in Nat /\ m \in 1 .. n /\ m - 1 \in 0 .. m - 1
    BY <1>2
  <2>2. PICK f \in [0 .. m - 1 -> S] : Solves(f, m - 1)
    BY <1>2 DEF Good
  <2>3. f[m - 1] \in S
    BY <2>1
  <2> DEFINE last == step[m][f[m - 1]]
  <2>4. last \in S
    BY <2>1, <2>3
  <2> HIDE DEF last, Solves
  <2> DEFINE g == [i \in 0 .. m |-> IF i = m THEN last ELSE f[i]]
  <2>5. \A i \in 0 .. m : i # m => i \in 0 .. m - 1
    BY <2>1
  <2>6. g \in [0 .. m -> S]
    BY <2>4, <2>5
  <2>7. \A i \in 0 .. m - 1 : i \in 0 .. m /\ i # m
    BY <2>1
  <2>8. m \in 0 .. m
    BY <2>1
  <2>9. (\A i \in 0 .. m - 1 : g[i] = f[i]) /\ g[m] = last
    BY <2>7, <2>8
  <2> HIDE DEF g
  <2>10. g[0] = start
    <3>1. 0 \in 0 .. m - 1
      BY <2>1
    <3> QED
      BY <2>2, <2>9, <3>1 DEF Solves
  <2>11. ASSUME NEW i \in 1 .. m PROVE g[i] = step[i][g[i - 1]]
    <3>1. i - 1 \in 0 .. m - 1 /\ (i # m => i \in 1 .. m - 1 /\ i \in 0 .. m - 1)
      BY <2>1
    <3>2. g[i - 1] = f[i - 1]
      BY <2>9, <3>1
    <3> QED
      BY <2>2, <2>9, <3>1, <3>2 DEF Solves, last
  <2> QED
    BY <2>6, <2>10, <2>11 DEF Solves, Good
<1>3. 0 .. n \subseteq Good
  BY <1>1, <1>2, CountingUp
<1>4. n \in Good
  BY <1>3
<1>5. \E f \in [0 .. n -> S] : Solves(f, n)
  BY <1>4 DEF Good
<1> QED
  BY <1>5 DEF Steps

-----------------------------------------------------------------------------
(* The renderer.                                                           *)

(* Frames that may have been drawn.                                        *)
Drawn == {page.rows : page \in Pages}

(* The host shows each cell of the frame drawn last.                       *)
FrameIsShown ==
  last_frame # <<>> =>
    /\ last_frame \in Drawn
    /\ \A p \in CellsOf(last_frame) :
         p \in DOMAIN host /\ host[p] = Shown(last_frame[p[1]][p[2]], palette)

(* It shows nothing else.                                                  *)
NothingElse ==
  last_frame # <<>> => host = [p \in CellsOf(last_frame) |-> host[p]]

-----------------------------------------------------------------------------
(* The cells of rows are numbered by row and column.                       *)
LEMMA CellNumbers ==
  ASSUME NEW rows
  PROVE  /\ \A y \in 1 .. Len(rows) : \A x \in 1 .. Len(rows[y]) : <<y, x>> \in CellsOf(rows)
         /\ \A p \in CellsOf(rows) : /\ p[1] \in 1 .. Len(rows)
                                     /\ p[2] \in 1 .. Len(rows[p[1]])
                                     /\ p = <<p[1], p[2]>>
BY DEF CellsOf

(* A changed cell is written in a run whose first cell has its style.      *)
LEMMA RunHasOneStyle ==
  ASSUME NEW rows, NEW y, NEW x \in Nat \ {0}, Changed(rows, y, x)
  PROVE  rows[y][RunStart(rows, y, x)][2] = rows[y][x][2]
<1> DEFINE Same(k) == Changed(rows, y, k) /\ rows[y][k][2] = rows[y][x][2]
           Starts == {b \in 1 .. x : \A k \in b .. x : Same(k)}
           Begins(b) == /\ \A k \in b .. x : Same(k)
                        /\ \/ b = 1
                           \/ ~Changed(rows, y, b - 1)
                           \/ rows[y][b - 1][2] # rows[y][x][2]
<1>1. x \in Starts
  OBVIOUS
<1>2. PICK b \in Starts : \A j \in Starts : b <= j
  <2>1. Starts \in SUBSET Nat
    OBVIOUS
  <2> HIDE DEF Starts
  <2> QED
    BY <1>1, <2>1, LeastNumber
<1>3. b \in 1 .. x /\ \A k \in b .. x : Same(k)
  BY <1>2
<1>4. b = 1 \/ ~Same(b - 1)
  <2> SUFFICES ASSUME b # 1, Same(b - 1) PROVE FALSE
    OBVIOUS
  <2>1. b - 1 \in 1 .. x /\ ~(b <= b - 1)
    BY <1>3
  <2>2. \A k \in b - 1 .. x : k = b - 1 \/ k \in b .. x
    BY <1>3
  <2> HIDE DEF Same
  <2>3. b - 1 \in Starts
    BY <1>3, <2>1, <2>2
  <2> HIDE DEF Starts
  <2> QED
    BY <1>2, <2>1, <2>3
<1>5. Begins(b)
  BY <1>3, <1>4
<1>6. RunStart(rows, y, x) = CHOOSE c \in 1 .. x : Begins(c)
  BY DEF RunStart
<1> HIDE DEF Begins
<1>7. RunStart(rows, y, x) \in 1 .. x /\ Begins(RunStart(rows, y, x))
  BY <1>3, <1>5, <1>6
<1>8. RunStart(rows, y, x) \in RunStart(rows, y, x) .. x
  BY <1>7
<1> QED
  BY <1>7, <1>8 DEF Begins

(* What is written is what the cell shows.                                 *)
LEMMA WrittenIsShown ==
  ASSUME NEW rows, NEW p \in CellsOf(rows)
  PROVE  /\ p \in DOMAIN Written(rows) <=> Changed(rows, p[1], p[2])
         /\ p \in DOMAIN Written(rows) =>
              Written(rows)[p] = Shown(rows[p[1]][p[2]], palette)
<1> DEFINE at == {q \in CellsOf(rows) : Changed(rows, q[1], q[2])}
           out(q) == Shown(<<rows[q[1]][q[2]][1],
                             rows[q[1]][RunStart(rows, q[1], q[2])][2]>>, palette)
<1>1. Written(rows) = [q \in at |-> out(q)]
  BY DEF Written
<1>2. p \in DOMAIN Written(rows) <=> Changed(rows, p[1], p[2])
  BY <1>1
<1>3. ASSUME Changed(rows, p[1], p[2])
      PROVE  Written(rows)[p] = Shown(rows[p[1]][p[2]], palette)
  <2>1. p \in at
    BY <1>3
  <2>2. Written(rows)[p] = out(p)
    BY <1>1, <2>1
  <2>3. p[2] \in Nat \ {0}
    BY CellNumbers
  <2>4. rows[p[1]][RunStart(rows, p[1], p[2])][2] = rows[p[1]][p[2]][2]
    BY <1>3, <2>3, RunHasOneStyle
  <2> QED
    BY <2>2, <2>4 DEF Shown
<1> QED
  BY <1>2, <1>3

-----------------------------------------------------------------------------
(* A cell that is not changed was there before, and is still shown.        *)
LEMMA UnchangedIsShown ==
  ASSUME FrameIsShown, NEW page \in Pages, NEW p \in CellsOf(page.rows),
         ~Changed(page.rows, p[1], p[2])
  PROVE  /\ ~Repaints(page.rows)
         /\ p \in DOMAIN host /\ host[p] = Shown(page.rows[p[1]][p[2]], palette)
<1> DEFINE rows == page.rows
           y == p[1]
           x == p[2]
<1>1. y \in 1 .. Len(rows) /\ x \in 1 .. Len(rows[y]) /\ p = <<y, x>>
  BY CellNumbers
<1>2. /\ ~Repaints(rows) /\ Len(last_frame) = Len(rows)
      /\ ~(x > Len(last_frame[y])) /\ last_frame[y][x] = rows[y][x]
  BY DEF Changed, Repaints
<1>3. last_frame # <<>>
  BY <1>1, <1>2
<1>4. PICK old \in Pages : last_frame = old.rows
  BY <1>3 DEF FrameIsShown, Drawn
<1>5. Len(last_frame[y]) \in Nat
  <2>1. last_frame \in Seq(Seq(PageCells))
    BY <1>4, PagesAreRows
  <2>2. last_frame[y] \in Seq(PageCells)
    BY <1>1, <1>2, <2>1
  <2> QED
    BY <2>2
<1>6. x \in 1 .. Len(last_frame[y]) /\ y \in 1 .. Len(last_frame)
  BY <1>1, <1>2, <1>5
<1>7. p \in CellsOf(last_frame)
  BY <1>1, <1>6, CellNumbers
<1> QED
  BY <1>2, <1>3, <1>7 DEF FrameIsShown

(* draw leaves the host with every cell of the new frame.                  *)
LEMMA DrawShows ==
  ASSUME FrameIsShown, NEW page \in Pages, Draw(page)
  PROVE  FrameIsShown'
<1> DEFINE rows == page.rows
           written == Written(rows)
           kept == IF Repaints(rows) THEN {} ELSE DOMAIN host
<1>1. /\ host' = [p \in DOMAIN written \union kept |->
                    IF p \in DOMAIN written THEN written[p] ELSE host[p]]
      /\ last_frame' = rows /\ palette' = palette
  BY DEF Draw
<1>2. ASSUME NEW p \in CellsOf(rows)
      PROVE  p \in DOMAIN host' /\ host'[p] = Shown(rows[p[1]][p[2]], palette)
  <2>1. CASE Changed(rows, p[1], p[2])
    <3>1. p \in DOMAIN written /\ written[p] = Shown(rows[p[1]][p[2]], palette)
      BY <1>2, <2>1, WrittenIsShown
    <3> HIDE DEF written, kept
    <3> QED
      BY <1>1, <3>1
  <2>2. CASE ~Changed(rows, p[1], p[2])
    <3>1. p \notin DOMAIN written
      BY <1>2, <2>2, WrittenIsShown
    <3>2. p \in kept /\ host[p] = Shown(rows[p[1]][p[2]], palette)
      BY <1>2, <2>2, UnchangedIsShown
    <3> HIDE DEF written, kept
    <3> QED
      BY <1>1, <3>1, <3>2
  <2> QED
    BY <2>1, <2>2
<1>3. rows \in Drawn
  BY DEF Drawn
<1> HIDE DEF rows
<1>4. \A p \in CellsOf(rows) :
        p \in DOMAIN host' /\ host'[p] = Shown(rows[p[1]][p[2]], palette)
  BY <1>2 DEF rows
<1>5. Drawn' = Drawn
  BY DEF Drawn
<1>6. /\ CellsOf(last_frame)' = CellsOf(last_frame')
      /\ \A p \in CellsOf(rows) : Shown(last_frame[p[1]][p[2]], palette)'
                                  = Shown(last_frame'[p[1]][p[2]], palette')
  BY DEF CellsOf, Shown
<1>7. last_frame' = rows /\ palette' = palette
  BY <1>1
<1> HIDE DEF written, kept
<1> QED
  BY <1>3, <1>4, <1>5, <1>6, <1>7 DEF FrameIsShown

(* What is written is in the frame.                                        *)
LEMMA WrittenInFrame ==
  ASSUME NEW rows
  PROVE  DOMAIN Written(rows) \subseteq CellsOf(rows)
BY DEF Written

(* Frames that need no repaint have the same cells.                        *)
LEMMA SameCells ==
  ASSUME PagesAreRectangular, NEW old \in Pages, NEW new \in Pages,
         old.rows # <<>>,
         Len(old.rows) = Len(new.rows), Width(old.rows) = Width(new.rows)
  PROVE  CellsOf(old.rows) = CellsOf(new.rows)
<1> DEFINE f == old.rows
           g == new.rows
<1>1. f \in Seq(Seq(PageCells)) /\ g \in Seq(Seq(PageCells))
  BY PagesAreRows
<1>2. Len(f) = Len(g) /\ g # <<>>
  BY <1>1
<1>3. Len(f[1]) = Len(g[1])
  BY <1>2 DEF Width
<1>4. /\ \A y \in 1 .. Len(f) : Len(f[y]) = Len(f[1])
      /\ \A y \in 1 .. Len(g) : Len(g[y]) = Len(g[1])
  BY DEF PagesAreRectangular
<1>5. \A y \in 1 .. Len(f) : Len(f[y]) = Len(g[y])
  BY <1>2, <1>3, <1>4
<1> QED
  BY <1>2, <1>5 DEF CellsOf

(* draw leaves nothing of an earlier frame beside the new one.             *)
LEMMA DrawShowsNothingElse ==
  ASSUME PagesAreRectangular, FrameIsShown, NothingElse, NEW page \in Pages, Draw(page)
  PROVE  NothingElse'
<1> DEFINE rows == page.rows
           written == Written(rows)
           kept == IF Repaints(rows) THEN {} ELSE DOMAIN host
<1> SUFFICES ASSUME rows # <<>>
             PROVE  host' = [p \in CellsOf(rows) |-> host'[p]]
  BY DEF Draw, NothingElse, CellsOf
<1>1. /\ host' = [p \in DOMAIN written \union kept |->
                    IF p \in DOMAIN written THEN written[p] ELSE host[p]]
      /\ last_frame' = rows
  BY DEF Draw
<1>2. DOMAIN written \subseteq CellsOf(rows)
  BY WrittenInFrame
<1>3. kept \subseteq CellsOf(rows)
  <2> SUFFICES ASSUME ~Repaints(rows) PROVE DOMAIN host \subseteq CellsOf(rows)
    OBVIOUS
  <2>1. Len(last_frame) = Len(rows) /\ Width(last_frame) = Width(rows)
    BY DEF Repaints
  <2>2. last_frame # <<>>
    <3>1. rows \in Seq(Seq(PageCells))
      BY PagesAreRows
    <3> QED
      BY <2>1, <3>1
  <2>3. PICK old \in Pages : last_frame = old.rows
    BY <2>2 DEF FrameIsShown, Drawn
  <2>4. CellsOf(last_frame) = CellsOf(rows)
    BY <2>1, <2>2, <2>3, SameCells
  <2>5. DOMAIN host = CellsOf(last_frame)
    BY <2>2 DEF NothingElse
  <2> QED
    BY <2>4, <2>5
<1>4. \A p \in CellsOf(rows) : p \in DOMAIN host'
  <2>1. FrameIsShown'
    BY DrawShows
  <2>2. last_frame' = rows
    BY <1>1
  <2>3. CellsOf(last_frame)' = CellsOf(rows)
    BY <2>2 DEF CellsOf
  <2> HIDE DEF rows
  <2> QED
    BY <2>1, <2>2, <2>3 DEF FrameIsShown, rows
<1>5. DOMAIN host' = DOMAIN written \union kept
  BY <1>1
<1>6. DOMAIN host' = CellsOf(rows)
  BY <1>2, <1>3, <1>4, <1>5
<1> HIDE DEF rows, written, kept
<1>7. host' = [p \in DOMAIN host' |-> host'[p]]
  BY <1>1
<1> QED
  BY <1>6, <1>7

-----------------------------------------------------------------------------
(* A new renderer has drawn nothing, and a new theme forgets the frame.    *)
LEMMA InitShows == Init => FrameIsShown /\ NothingElse
BY DEF Init, FrameIsShown, NothingElse

(* Draws and changes of theme, in any order.                               *)
LEMMA StepShows == FrameIsShown /\ [Next]_rvars => FrameIsShown'
<1> SUFFICES ASSUME FrameIsShown, [Next]_rvars PROVE FrameIsShown'
  OBVIOUS
<1>1. ASSUME NEW page \in Pages, Draw(page) PROVE FrameIsShown'
  BY <1>1, DrawShows
<1>2. ASSUME NEW theme \in Themes, SetTheme(theme) PROVE FrameIsShown'
  BY <1>2 DEF SetTheme, Forgotten, FrameIsShown
<1>3. CASE UNCHANGED rvars
  BY <1>3 DEF rvars, FrameIsShown, Drawn, CellsOf, Shown
<1> QED
  BY <1>1, <1>2, <1>3 DEF Next

(* The same steps leave nothing else on the host.                          *)
LEMMA StepShowsNothingElse ==
  ASSUME PagesAreRectangular
  PROVE  FrameIsShown /\ NothingElse /\ [Next]_rvars => NothingElse'
<1> SUFFICES ASSUME FrameIsShown, NothingElse, [Next]_rvars PROVE NothingElse'
  OBVIOUS
<1>1. ASSUME NEW page \in Pages, Draw(page) PROVE NothingElse'
  BY <1>1, DrawShowsNothingElse
<1>2. ASSUME NEW theme \in Themes, SetTheme(theme) PROVE NothingElse'
  BY <1>2 DEF SetTheme, Forgotten, NothingElse
<1>3. CASE UNCHANGED rvars
  BY <1>3 DEF rvars, NothingElse, CellsOf
<1> QED
  BY <1>1, <1>2, <1>3 DEF Next

(* For all pages, whatever their shape: the host shows every cell of the   *)
(* frame drawn last, in its own style and the current theme.               *)
THEOREM FrameIsAlwaysShown == Spec => []FrameIsShown
BY InitShows, StepShows, PTL DEF Spec

(* For all pages whose rows have one width: after a draw the host shows    *)
(* the frame, every cell in its own style and the current theme, and       *)
(* nothing of what was drawn before it.                                    *)
THEOREM HostShowsFrame ==
  ASSUME PagesAreRectangular
  PROVE  Spec => []ScreenShowsFrame
<1>1. Init => FrameIsShown /\ NothingElse
  BY InitShows
<1>2. FrameIsShown /\ NothingElse /\ [Next]_rvars => FrameIsShown' /\ NothingElse'
  BY StepShows, StepShowsNothingElse
<1>3. FrameIsShown /\ NothingElse => ScreenShowsFrame
  <2> SUFFICES ASSUME FrameIsShown, NothingElse, last_frame # <<>>
               PROVE  host = [p \in CellsOf(last_frame) |->
                                Shown(last_frame[p[1]][p[2]], palette)]
    BY DEF ScreenShowsFrame
  <2>1. host = [p \in CellsOf(last_frame) |-> host[p]]
    BY DEF NothingElse
  <2>2. \A p \in CellsOf(last_frame) : host[p] = Shown(last_frame[p[1]][p[2]], palette)
    BY DEF FrameIsShown
  <2> QED
    BY <2>1, <2>2
<1> QED
  BY <1>1, <1>2, <1>3, PTL DEF Spec

(* Functions that agree up to n.                                           *)
Agree(f, g, first, n) == \A i \in first .. n : f[i] = g[i]

(* Two that go on in the same way for a while are the same for so long.    *)
LEMMA SameSteps ==
  ASSUME NEW n \in Nat, NEW m \in Nat, NEW k \in Nat, k <= n, k <= m, NEW S, NEW start, NEW one, NEW other,
         NEW f, Steps(f, n, S, start, one), NEW g, Steps(g, m, S, start, other),
         Agree(one, other, 1, k)
  PROVE  Agree(f, g, 0, k)
<1>1. /\ f[0] = start /\ \A i \in 1 .. n : f[i] = one[i][f[i - 1]]
      /\ g[0] = start /\ \A i \in 1 .. m : g[i] = other[i][g[i - 1]]
  BY DEF Steps
<1> DEFINE Good == {i \in 0 .. k : f[i] = g[i]}
<1>2. 0 \in Good
  BY <1>1
<1>3. ASSUME NEW i \in 0 .. k, i # 0, i - 1 \in Good PROVE i \in Good
  <2>1. i \in 1 .. n /\ i \in 1 .. m /\ i \in 1 .. k
    BY <1>3
  <2>2. f[i - 1] = g[i - 1] /\ one[i] = other[i]
    BY <1>3, <2>1 DEF Agree
  <2>3. f[i] = one[i][f[i - 1]] /\ g[i] = other[i][g[i - 1]]
    BY <1>1, <2>1
  <2>4. f[i] = g[i]
    BY <2>2, <2>3
  <2> QED
    BY <2>4
<1> HIDE DEF Good
<1>4. 0 .. k \subseteq Good
  BY <1>2, <1>3, CountingUp
<1> QED
  BY <1>4 DEF Good, Agree

(* A longer part of a sequence has one more at its end.                    *)
LEMMA PartGrows ==
  ASSUME NEW S, NEW s \in Seq(S), NEW j \in Nat \ {0}, NEW n \in Nat, j <= n, n <= Len(s)
  PROVE  /\ SubSeq(s, j, n - 1) \in Seq(S) /\ s[n] \in S
         /\ SubSeq(s, j, n) = Append(SubSeq(s, j, n - 1), s[n])
<1>1. s[n] \in S /\ SubSeq(s, j, n) \in Seq(S) /\ SubSeq(s, j, n - 1) \in Seq(S)
  OBVIOUS
<1> DEFINE short == SubSeq(s, j, n - 1)
           long  == SubSeq(s, j, n)
<1>2. Len(short) = n - j /\ \A i \in 1 .. n - j : short[i] = s[j + i - 1]
  OBVIOUS
<1>3. Len(long) = n - j + 1 /\ \A i \in 1 .. n - j + 1 : long[i] = s[j + i - 1]
  OBVIOUS
<1> HIDE DEF short, long
<1>4. /\ Append(short, s[n]) \in Seq(S) /\ Len(Append(short, s[n])) = n - j + 1
      /\ \A i \in 1 .. n - j : Append(short, s[n])[i] = short[i]
      /\ Append(short, s[n])[n - j + 1] = s[n]
  BY <1>1, <1>2, AppendProperties DEF short
<1>5. \A i \in 1 .. n - j + 1 : long[i] = Append(short, s[n])[i]
  <2> TAKE i \in 1 .. n - j + 1
  <2>1. CASE i = n - j + 1
    <3>1. j + i - 1 = n
      BY <2>1
    <3> QED
      BY <1>3, <1>4, <2>1, <3>1
  <2>2. CASE i # n - j + 1
    <3>1. i \in 1 .. n - j
      BY <2>2
    <3> QED
      BY <1>2, <1>3, <1>4, <3>1
  <2> QED
    BY <2>1, <2>2
<1>6. long = Append(short, s[n])
  BY <1>1, <1>3, <1>4, <1>5, SeqEqual DEF long
<1> QED
  BY <1>1, <1>6 DEF short, long

(* One sequence after the other.                                           *)
Following(seqs, S) == [i \in 1 .. Len(seqs) |-> [x \in Seq(S) |-> x \o seqs[i]]]

(* FlattenSeq puts them there one by one.                                  *)
LEMMA FlattenSteps ==
  ASSUME NEW S, NEW seqs \in Seq(Seq(S))
  PROVE  \E f : Steps(f, Len(seqs), Seq(S), <<>>, Following(seqs, S)) /\ FlattenSeq(seqs) = f[Len(seqs)]
<1> DEFINE n == Len(seqs)
           step == Following(seqs, S)
           Solves(f) == f = [i \in 1 .. n |-> IF i = 1 THEN seqs[i] ELSE f[i - 1] \o seqs[i]]
<1>1. n \in Nat /\ \A i \in 1 .. n : seqs[i] \in Seq(S)
  OBVIOUS
<1>2. /\ step \in [1 .. n -> [Seq(S) -> Seq(S)]]
      /\ \A i \in 1 .. n, x \in Seq(S) : step[i][x] = x \o seqs[i]
  BY <1>1 DEF Following
<1>3. <<>> \in Seq(S)
  OBVIOUS
<1> HIDE DEF n, step, Solves
<1>4. PICK f : Steps(f, n, Seq(S), <<>>, step)
  BY <1>1, <1>2, <1>3, Recursion, Zenon
<1>5. /\ f[0] = <<>> /\ \A i \in 0 .. n : f[i] \in Seq(S)
      /\ \A i \in 1 .. n : f[i] = f[i - 1] \o seqs[i]
  <2>1. /\ f \in [0 .. n -> Seq(S)] /\ f[0] = <<>>
        /\ \A i \in 1 .. n : f[i] = step[i][f[i - 1]]
    BY <1>4 DEF Steps
  <2>2. \A i \in 1 .. n : i - 1 \in 0 .. n
    BY <1>1
  <2> QED
    BY <1>2, <2>1, <2>2
<1>6. CASE n = 0
  <2>1. FlattenSeq(seqs) = seqs
    BY <1>6 DEF FlattenSeq, n
  <2>2. seqs = <<>>
    BY <1>6 DEF n
  <2> QED
    BY <1>4, <1>5, <1>6, <2>1, <2>2 DEF n, step
<1>7. CASE n # 0
  <2> DEFINE g == [i \in 1 .. n |-> f[i]]
             c == CHOOSE h : Solves(h)
  <2>1. Solves(g)
    <3>1. ASSUME NEW i \in 1 .. n
          PROVE  f[i] = IF i = 1 THEN seqs[i] ELSE g[i - 1] \o seqs[i]
      <4>1. CASE i = 1
        <5>1. f[1] = <<>> \o seqs[1] /\ seqs[1] \in Seq(S)
          <6>1. 1 \in 1 .. n /\ 1 - 1 = 0
            BY <4>1
          <6> QED
            BY <1>1, <1>5, <6>1
        <5> QED
          BY <4>1, <5>1, ConcatEmptySeq
      <4>2. CASE i # 1
        <5>1. i - 1 \in 1 .. n
          BY <1>1, <4>2
        <5>2. g[i - 1] = f[i - 1]
          BY <5>1
        <5> QED
          BY <1>5, <4>2, <5>2
      <4> QED
        BY <4>1, <4>2
    <3> QED
      BY <3>1 DEF Solves
  <2>2. Solves(c)
    BY <2>1, Zenon
  <2>3. FlattenSeq(seqs) = c[n]
    BY <1>7, Zenon DEF FlattenSeq, Solves, n
  <2> HIDE DEF c
  <2>4. \A i \in 1 .. n : c[i] = IF i = 1 THEN seqs[i] ELSE c[i - 1] \o seqs[i]
    BY <2>2, Zenon DEF Solves
  <2> DEFINE Good == {i \in 0 .. n : i # 0 => c[i] = f[i]}
  <2>5. 0 \in Good
    BY <1>1
  <2>6. ASSUME NEW i \in 0 .. n, i # 0, i - 1 \in Good PROVE i \in Good
    <3>1. i \in 1 .. n
      BY <1>1, <2>6
    <3>2. CASE i = 1
      <4>1. f[1] = <<>> \o seqs[1] /\ seqs[1] \in Seq(S) /\ c[1] = seqs[1]
        <5>1. 1 \in 1 .. n /\ 1 - 1 = 0
          BY <3>1, <3>2
        <5> QED
          BY <1>1, <1>5, <2>4, <5>1
      <4>2. c[i] = f[i]
        BY <3>2, <4>1, ConcatEmptySeq
      <4> QED
        BY <4>2
    <3>3. CASE i # 1
      <4>1. c[i - 1] = f[i - 1]
        BY <1>1, <2>6, <3>3
      <4>2. c[i] = c[i - 1] \o seqs[i] /\ f[i] = f[i - 1] \o seqs[i]
        BY <1>5, <2>4, <3>1, <3>3
      <4>3. c[i] = f[i]
        BY <4>1, <4>2
      <4> QED
        BY <4>3
    <3> QED
      BY <3>2, <3>3
  <2> HIDE DEF Good
  <2>7. 0 .. n \subseteq Good
    BY <1>1, <2>5, <2>6, CountingUp
  <2>8. c[n] = f[n]
    BY <1>1, <1>7, <2>7 DEF Good
  <2> QED
    BY <1>4, <2>3, <2>8 DEF n, step
<1> QED
  BY <1>6, <1>7

(* So it grows with each at the end, and none gives none.                  *)
LEMMA FlattenGrows ==
  ASSUME NEW S, NEW seqs \in Seq(Seq(S)), NEW s \in Seq(S)
  PROVE  /\ FlattenSeq(seqs) \in Seq(S)
         /\ seqs = <<>> => FlattenSeq(seqs) = <<>>
         /\ FlattenSeq(Append(seqs, s)) = FlattenSeq(seqs) \o s
<1> DEFINE n == Len(seqs)
           more == Append(seqs, s)
<1>1. n \in Nat /\ more \in Seq(Seq(S)) /\ Len(more) = n + 1 /\ more[n + 1] = s
      /\ \A i \in 1 .. n : more[i] = seqs[i]
  BY AppendProperties
<1>2. PICK f : Steps(f, n, Seq(S), <<>>, Following(seqs, S)) /\ FlattenSeq(seqs) = f[n]
  BY FlattenSteps
<1> HIDE DEF more
<1>3. PICK g : Steps(g, n + 1, Seq(S), <<>>, Following(more, S)) /\ FlattenSeq(more) = g[n + 1]
  <2>1. PICK g : Steps(g, Len(more), Seq(S), <<>>, Following(more, S)) /\ FlattenSeq(more) = g[Len(more)]
    BY <1>1, FlattenSteps
  <2> QED
    BY <1>1, <2>1
<1>4. \A i \in 1 .. n : Following(seqs, S)[i] = Following(more, S)[i]
  <2> TAKE i \in 1 .. n
  <2>1. i \in 1 .. Len(more) /\ i \in 1 .. Len(seqs) /\ more[i] = seqs[i]
    BY <1>1
  <2> QED
    BY <2>1 DEF Following
<1> HIDE DEF n
<1>5. f[n] = g[n]
  <2>1. n + 1 \in Nat /\ n <= n /\ n <= n + 1 /\ n \in 0 .. n
    BY <1>1
  <2>2. \A i \in 0 .. n : f[i] = g[i]
    <3> DEFINE T == Seq(S)
               none == <<>>
               one == Following(seqs, S)
               other == Following(more, S)
               m == n + 1
    <3>1. n \in Nat /\ m \in Nat /\ n <= n /\ n <= m
      BY <1>1, <2>1
    <3>2. Steps(f, n, T, none, one) /\ Steps(g, m, T, none, other)
      BY <1>2, <1>3
    <3>3. Agree(one, other, 1, n)
      BY <1>4 DEF Agree
    <3> HIDE DEF T, none, one, other, m
    <3>4. Agree(f, g, 0, n)
      BY ONLY <3>1, <3>2, <3>3, SameSteps
    <3> QED
      BY <3>4 DEF Agree
  <2> QED
    BY <2>1, <2>2
<1>6. f[n] \in Seq(S) /\ f[0] = <<>>
  BY <1>1, <1>2 DEF Steps
<1>7. g[n + 1] = g[n] \o s
  <2>1. n + 1 \in 1 .. n + 1 /\ n + 1 - 1 = n /\ n \in 0 .. n + 1
    BY <1>1
  <2>2. g[n] \in Seq(S) /\ g[n + 1] = Following(more, S)[n + 1][g[n]]
    BY <1>3, <2>1 DEF Steps
  <2>3. Following(more, S)[n + 1] = [x \in Seq(S) |-> x \o s]
    BY <1>1, <2>1 DEF Following
  <2> QED
    BY <2>2, <2>3
<1>8. seqs = <<>> => n = 0
  BY DEF n
<1> QED
  BY <1>2, <1>3, <1>5, <1>6, <1>7, <1>8 DEF more

-----------------------------------------------------------------------------
(* The tab bar.                                                            *)

(* A label ends its length behind the one before it.                       *)
LEMMA EndsAre ==
  ASSUME NEW lengths \in Seq(Nat)
  PROVE  /\ Ends(lengths)[0] = 0
         /\ \A i \in 1 .. Len(lengths) : Ends(lengths)[i] = Ends(lengths)[i - 1] + lengths[i]
         /\ \A i \in 0 .. Len(lengths) : Ends(lengths)[i] \in Nat
<1> DEFINE n == Len(lengths)
           step == [i \in 1 .. n |-> [x \in Nat |-> x + lengths[i]]]
           Solves(f) == f = [i \in 0 .. n |-> IF i = 0 THEN 0 ELSE f[i - 1] + lengths[i]]
           e == Ends(lengths)
<1>1. n \in Nat /\ \A i \in 1 .. n : lengths[i] \in Nat
  OBVIOUS
<1> HIDE DEF n, e
<1>2. step \in [1 .. n -> [Nat -> Nat]]
  BY <1>1
<1>3. \A i \in 1 .. n, x \in Nat : step[i][x] = x + lengths[i]
  OBVIOUS
<1> HIDE DEF step, Solves
<1>4. PICK f : Steps(f, n, Nat, 0, step)
  <2>1. 0 \in Nat
    OBVIOUS
  <2> QED
    BY <1>1, <1>2, <2>1, Recursion, Zenon
<1>5. ASSUME NEW i \in 0 .. n PROVE f[i] = IF i = 0 THEN 0 ELSE f[i - 1] + lengths[i]
  <2>1. i # 0 => i \in 1 .. n /\ i - 1 \in 0 .. n
    BY <1>1
  <2>2. f \in [0 .. n -> Nat] /\ f[0] = 0 /\ \A k \in 1 .. n : f[k] = step[k][f[k - 1]]
    BY <1>4 DEF Steps
  <2>3. i # 0 => f[i - 1] \in Nat
    BY <2>1, <2>2
  <2> QED
    BY <1>3, <2>1, <2>2, <2>3
<1>6. Solves(f)
  BY <1>4, <1>5 DEF Steps, Solves
<1>7. Solves(e)
  <2> DEFINE c == CHOOSE g : Solves(g)
  <2>1. Solves(c)
    BY <1>6, Zenon
  <2>2. e = c
    BY Zenon DEF Ends, Solves, e, n
  <2> QED
    BY <2>1, <2>2, Zenon
<1>8. \A i \in 0 .. n : e[i] = IF i = 0 THEN 0 ELSE e[i - 1] + lengths[i]
  BY <1>7, Zenon DEF Solves
<1>9. 0 \in 0 .. n /\ \A i \in 1 .. n : i \in 0 .. n /\ i # 0
  BY <1>1
<1>10. e[0] = 0 /\ \A i \in 1 .. n : e[i] = e[i - 1] + lengths[i]
  BY <1>8, <1>9
<1> DEFINE Good == {i \in 0 .. n : e[i] \in Nat}
<1>11. 0 \in Good
  BY <1>9, <1>10
<1>12. ASSUME NEW i \in 0 .. n, i # 0, i - 1 \in Good PROVE i \in Good
  <2>1. i \in 1 .. n /\ e[i - 1] \in Nat
    BY <1>1, <1>12 DEF Good
  <2> QED
    <3>1. e[i] \in Nat
      BY <1>1, <1>10, <2>1
    <3> QED
      BY <3>1 DEF Good
<1> HIDE DEF Good
<1>13. 0 .. n \subseteq Good
  BY <1>1, <1>11, <1>12, CountingUp
<1> QED
  BY <1>10, <1>13 DEF Good, e, n

(* Labels further right end further right.                                 *)
LEMMA EndsGrow ==
  ASSUME NEW lengths \in Seq(Nat), NEW i \in 0 .. Len(lengths), NEW j \in 0 .. Len(lengths), i <= j
  PROVE  Ends(lengths)[i] <= Ends(lengths)[j]
<1> DEFINE n == Len(lengths)
           e == Ends(lengths)
           Good == {k \in 0 .. n : i <= k => e[i] <= e[k]}
<1>1. /\ n \in Nat /\ \A k \in 0 .. n : e[k] \in Nat
      /\ \A k \in 1 .. n : e[k] = e[k - 1] + lengths[k]
  BY EndsAre
<1> HIDE DEF e
<1>2. 0 \in Good
  BY <1>1
<1>3. ASSUME NEW k \in 0 .. n, k # 0, k - 1 \in Good PROVE k \in Good
  <2>1. CASE i = k
    BY <1>1, <2>1
  <2>2. CASE i # k
    <3>1. k \in 1 .. n /\ k - 1 \in 0 .. n /\ lengths[k] \in Nat
      BY <1>1, <1>3
    <3>2. e[k] = e[k - 1] + lengths[k] /\ e[k] \in Nat /\ e[k - 1] \in Nat /\ e[i] \in Nat
      BY <1>1, <3>1
    <3>3. i <= k => e[i] <= e[k - 1]
      BY <1>1, <1>3, <2>2
    <3> QED
      BY <3>1, <3>2, <3>3
  <2> QED
    BY <2>1, <2>2
<1> HIDE DEF Good
<1>4. 0 .. n \subseteq Good
  BY <1>1, <1>2, <1>3, CountingUp
<1> QED
  BY <1>4 DEF Good, e

(* The labels from the first one shown to the active one fit the bar.      *)
LEMMA ActiveFits ==
  ASSUME NEW lengths \in Seq(Nat), NEW active \in 1 .. Len(lengths), NEW width \in Nat,
         lengths[active] <= width
  PROVE  LET first == FirstShown(lengths, active, width)
         IN  first \in 1 .. active /\ Total(lengths, first, active) <= width
<1> DEFINE e == Ends(lengths)
           Long == {j \in 1 .. active : Total(lengths, j, active) > width}
           Most(k) == k \in Long /\ \A j \in Long : k >= j
<1>1. /\ Len(lengths) \in Nat /\ active \in Nat
      /\ \A k \in 0 .. Len(lengths) : e[k] \in Nat
      /\ \A k \in 1 .. Len(lengths) : e[k] = e[k - 1] + lengths[k]
  BY EndsAre
<1>2. \A j \in 1 .. active : Total(lengths, j, active) = e[active] - e[j - 1] /\ Total(lengths, j, active) \in Int
  <2> TAKE j \in 1 .. active
  <2>1. j - 1 \in 0 .. Len(lengths)
    BY <1>1
  <2>2. e[j - 1] \in Nat /\ e[active] \in Nat
    BY <1>1, <2>1
  <2> QED
    BY <2>2 DEF Total
<1> HIDE DEF e
<1>3. Total(lengths, active, active) <= width
  <2>1. active - 1 \in 0 .. Len(lengths) /\ lengths[active] \in Nat
    BY <1>1
  <2>2. e[active - 1] \in Nat /\ e[active] = e[active - 1] + lengths[active]
    BY <1>1, <2>1
  <2> QED
    BY <1>1, <1>2, <2>1, <2>2
<1>4. CASE Total(lengths, 1, active) <= width
  BY <1>1, <1>4 DEF FirstShown
<1>5. CASE ~(Total(lengths, 1, active) <= width)
  <2>1. 1 \in Long /\ active \notin Long
    BY <1>1, <1>2, <1>3, <1>5
  <2>2. PICK k \in Long : \A j \in Long : j <= k
    <3> DEFINE Turned == {active - j : j \in Long}
    <3>1. Turned \in SUBSET Nat /\ Turned # {}
      BY <1>1, <2>1
    <3>2. PICK d \in Turned : \A c \in Turned : d <= c
      <4> HIDE DEF Turned
      <4> QED
        BY <3>1, LeastNumber
    <3>3. PICK k \in Long : d = active - k
      BY <3>2
    <3>4. \A j \in Long : active - k <= active - j
      BY <3>2, <3>3
    <3>5. \A j \in Long : j <= k
      BY <1>1, <3>4
    <3> HIDE DEF Long
    <3> QED
      BY <3>5
  <2>3. Most(k)
    BY <2>2
  <2>4. Most(Max(Long))
    <3>1. Max(Long) = CHOOSE m \in Long : \A j \in Long : m >= j
      BY Zenon DEF Max
    <3> HIDE DEF Long
    <3> QED
      BY <2>3, <3>1, Zenon
  <2> DEFINE m == Max(Long)
  <2>5. FirstShown(lengths, active, width) = m + 1
    BY <1>5, Zenon DEF FirstShown
  <2> HIDE DEF m
  <2>6. m \in 1 .. active /\ m # active /\ \A j \in Long : m >= j
    <3> HIDE DEF Long
    <3>1. m \in Long /\ \A j \in Long : m >= j
      BY <2>4, Zenon DEF m
    <3>2. m \in 1 .. active
      BY <3>1 DEF Long
    <3> QED
      BY <2>1, <3>1, <3>2
  <2>7. m + 1 \in 1 .. active /\ ~(m >= m + 1)
    BY <1>1, <2>6
  <2>8. m + 1 \notin Long
    <3> HIDE DEF Long
    <3> QED
      BY <2>6, <2>7
  <2>9. Total(lengths, m + 1, active) <= width
    BY <1>2, <2>7, <2>8
  <2> QED
    BY <2>5, <2>7, <2>9
<1> QED
  BY <1>4, <1>5

(* A label is in the columns between its ends, as far as the bar goes.     *)
LEMMA LabelColumns ==
  ASSUME NEW lengths \in Seq(Nat), NEW active \in 1 .. Len(lengths), NEW width \in Nat,
         NEW first \in 1 .. Len(lengths), first = FirstShown(lengths, active, width),
         NEW i \in 1 .. Len(lengths)
  PROVE  LET columns == Columns(TabBarRow(lengths, active, width), i)
         IN  /\ i < first => columns = {}
             /\ i >= first => columns = {x \in 1 .. width : Total(lengths, first, i - 1) < x
                                                            /\ x <= Total(lengths, first, i)}
<1> DEFINE n == Len(lengths)
           e == Ends(lengths)
           Spans(j, x) == Total(lengths, first, j - 1) < x /\ x <= Total(lengths, first, j)
           row == TabBarRow(lengths, active, width)
<1>1. /\ n \in Nat /\ \A k \in 0 .. n : e[k] \in Nat
  BY EndsAre
<1>2. \A j \in 0 .. n : Total(lengths, first, j) = e[j] - e[first - 1] /\ Total(lengths, first, j) \in Int
  <2> TAKE j \in 0 .. n
  <2>1. first - 1 \in 0 .. n
    BY <1>1
  <2>2. e[first - 1] \in Nat /\ e[j] \in Nat
    BY <1>1, <2>1
  <2>3. Total(lengths, first, j) = e[j] - e[first - 1]
    BY DEF Total
  <2> HIDE DEF e
  <2> QED
    BY ONLY <2>2, <2>3
<1>3. \A j, k \in 0 .. n : j <= k => e[j] <= e[k]
  BY EndsGrow
<1> HIDE DEF e
<1>4. \A j, k \in 0 .. n : j <= k => Total(lengths, first, j) <= Total(lengths, first, k)
  <2> TAKE j, k \in 0 .. n
  <2>1. first - 1 \in 0 .. n
    BY <1>1
  <2>2. e[first - 1] \in Nat /\ e[j] \in Nat /\ e[k] \in Nat
    BY <1>1, <2>1
  <2>3. /\ Total(lengths, first, j) = e[j] - e[first - 1]
        /\ Total(lengths, first, k) = e[k] - e[first - 1]
    BY <1>2
  <2> DEFINE p == e[j]
             q == e[k]
             r == e[first - 1]
  <2>4. p \in Nat /\ q \in Nat /\ r \in Nat /\ (j <= k => p <= q)
    BY <1>3, <2>2
  <2> HIDE DEF p, q, r
  <2>5. j <= k => p - r <= q - r
    BY ONLY <2>4
  <2> QED
    BY ONLY <2>3, <2>5 DEF p, q, r
<1>5. \A j, k \in first .. n, x \in 1 .. width : Spans(j, x) /\ Spans(k, x) => j = k
  <2> SUFFICES ASSUME NEW j \in first .. n, NEW k \in first .. n, NEW x \in 1 .. width,
                      Spans(j, x), Spans(k, x), j < k
               PROVE  FALSE
    BY <1>1
  <2>1. j \in 0 .. n /\ k - 1 \in 0 .. n /\ j <= k - 1
    BY <1>1
  <2>2. Total(lengths, first, j) <= Total(lengths, first, k - 1)
    BY <1>4, <2>1
  <2>3. Total(lengths, first, j) \in Int /\ Total(lengths, first, k - 1) \in Int
    BY <1>2, <2>1
  <2> QED
    BY <2>2, <2>3
<1>6. row = [x \in 1 .. width |-> IF \E j \in first .. n : Spans(j, x)
                                  THEN CHOOSE j \in first .. n : Spans(j, x) ELSE 0]
  BY Zenon DEF TabBarRow
<1> HIDE DEF Spans, row
<1>7. DOMAIN row = 1 .. width
  BY <1>6
<1>8. ASSUME NEW x \in 1 .. width
      PROVE  row[x] = i <=> i >= first /\ Spans(i, x)
  <2>1. row[x] = IF \E j \in first .. n : Spans(j, x)
                 THEN CHOOSE j \in first .. n : Spans(j, x) ELSE 0
    BY <1>6
  <2>2. i >= first <=> i \in first .. n
    BY <1>1
  <2>3. CASE \E j \in first .. n : Spans(j, x)
    <3>1. row[x] \in first .. n /\ Spans(row[x], x)
      BY <2>1, <2>3, Zenon
    <3> QED
      BY <1>5, <2>2, <3>1
  <2>4. CASE ~\E j \in first .. n : Spans(j, x)
    <3>1. row[x] # i
      BY <2>1, <2>4
    <3> QED
      BY <2>2, <2>4, <3>1
  <2> QED
    BY <2>3, <2>4
<1>9. Columns(row, i) = {x \in 1 .. width : i >= first /\ Spans(i, x)}
  BY <1>7, <1>8 DEF Columns
<1>10. i < first <=> ~(i >= first)
  BY <1>1
<1> QED
  BY <1>9, <1>10 DEF Spans, row

(* The active label is shown whole when it fits, the others whole or not   *)
(* at all but for the one at the right end.                                *)
LEMMA BarShowsActive ==
  ASSUME NEW lengths \in Seq(Nat), NEW active \in 1 .. Len(lengths), NEW width \in Nat
  PROVE  ActiveTabShown(lengths, active, width)
<1> DEFINE n == Len(lengths)
           e == Ends(lengths)
           first == FirstShown(lengths, active, width)
           row == TabBarRow(lengths, active, width)
           t(j) == Total(lengths, first, j)
           columns(i) == Columns(row, i)
<1> SUFFICES ASSUME lengths[active] <= width
             PROVE  /\ Cardinality(columns(active)) = lengths[active]
                    /\ \A i \in 1 .. n : \/ columns(i) = {} \/ Cardinality(columns(i)) = lengths[i]
                                         \/ width \in columns(i)
  BY Zenon DEF ActiveTabShown
<1>1. first \in 1 .. active /\ t(active) <= width
  BY ActiveFits
<1>2. /\ n \in Nat /\ active \in Nat /\ first \in 1 .. n
      /\ \A k \in 0 .. n : e[k] \in Nat
      /\ \A k \in 1 .. n : e[k] = e[k - 1] + lengths[k]
  <2> HIDE DEF first
  <2> QED
    BY <1>1, EndsAre
<1>3. \A i \in 1 .. n :
        /\ i < first => columns(i) = {}
        /\ i >= first => columns(i) = {x \in 1 .. width : t(i - 1) < x /\ x <= t(i)}
  BY <1>2, LabelColumns
<1> HIDE DEF columns, row
<1>4. ASSUME NEW i \in first .. n
      PROVE  /\ t(i - 1) \in Nat /\ t(i) \in Nat /\ t(i) = t(i - 1) + lengths[i]
             /\ lengths[i] \in Nat
  <2> HIDE DEF first, e, t
  <2>1. first - 1 \in 0 .. n /\ i - 1 \in 0 .. n /\ i \in 1 .. n /\ first - 1 <= i - 1
    BY <1>2
  <2>2. e[first - 1] <= e[i - 1]
    BY <2>1, EndsGrow DEF e
  <2>3. e[first - 1] \in Nat /\ e[i - 1] \in Nat /\ e[i] = e[i - 1] + lengths[i]
    BY <1>2, <2>1
  <2>4. lengths[i] \in Nat
    BY <2>1
  <2>5. t(i - 1) = e[i - 1] - e[first - 1] /\ t(i) = e[i] - e[first - 1]
    BY DEF Total, e, t
  <2>6. e[i - 1] - e[first - 1] \in Nat
    BY <2>2, <2>3
  <2>7. e[i] - e[first - 1] = e[i - 1] - e[first - 1] + lengths[i]
    BY <2>3, <2>4
  <2>8. e[i] - e[first - 1] \in Nat
    BY <2>4, <2>6, <2>7
  <2> QED
    BY <2>4, <2>5, <2>6, <2>7, <2>8
<1> HIDE DEF first, t
<1>5. ASSUME NEW i \in first .. n, t(i) <= width
      PROVE  Cardinality(columns(i)) = lengths[i]
  <2>1. i \in 1 .. n /\ i >= first
    BY <1>2
  <2>2. /\ t(i - 1) \in Nat /\ t(i) \in Nat /\ t(i) = t(i - 1) + lengths[i] /\ lengths[i] \in Nat
    BY <1>4
  <2>3. columns(i) = t(i - 1) + 1 .. t(i)
    <3>1. columns(i) = {x \in 1 .. width : t(i - 1) < x /\ x <= t(i)}
      BY <1>3, <2>1
    <3>2. \A x : x \in 1 .. width /\ t(i - 1) < x /\ x <= t(i) <=> x \in t(i - 1) + 1 .. t(i)
      BY <1>5, <2>2
    <3> QED
      BY <3>1, <3>2
  <2>4. Cardinality(t(i - 1) + 1 .. t(i)) = IF t(i - 1) + 1 > t(i) THEN 0 ELSE t(i) - (t(i - 1) + 1) + 1
    <3> DEFINE low == t(i - 1) + 1
               high == t(i)
    <3>1. low \in Int /\ high \in Int
      BY <2>2
    <3> HIDE DEF low, high
    <3>2. Cardinality(low .. high) = IF low > high THEN 0 ELSE high - low + 1
      BY ONLY <3>1, FS_Interval, Zenon
    <3> QED
      BY <3>2 DEF low, high
  <2> DEFINE low == t(i - 1)
             high == t(i)
             l == lengths[i]
             c == Cardinality(columns(i))
  <2>5. /\ low \in Nat /\ high \in Nat /\ high = low + l /\ l \in Nat
        /\ c = IF low + 1 > high THEN 0 ELSE high - (low + 1) + 1
    BY <2>2, <2>3, <2>4
  <2> HIDE DEF low, high, l, c
  <2>6. c = l
    BY ONLY <2>5
  <2> QED
    BY <2>6 DEF c, l
<1>6. Cardinality(columns(active)) = lengths[active]
  BY <1>1, <1>2, <1>5
<1>7. ASSUME NEW i \in 1 .. n
      PROVE  columns(i) = {} \/ Cardinality(columns(i)) = lengths[i] \/ width \in columns(i)
  <2>1. CASE i < first
    BY <1>3, <2>1
  <2>2. CASE ~(i < first)
    <3>1. i \in first .. n /\ i >= first
      BY <1>2, <2>2
    <3>2. t(i - 1) \in Nat /\ t(i) \in Nat
      BY <1>4, <3>1
    <3>3. CASE t(i) <= width
      BY <1>5, <3>1, <3>3
    <3>4. CASE ~(t(i) <= width) /\ t(i - 1) < width
      <4>1. columns(i) = {x \in 1 .. width : t(i - 1) < x /\ x <= t(i)}
        BY <1>3, <3>1
      <4> DEFINE p == t(i - 1)
                 q == t(i)
      <4>2. p \in Nat /\ q \in Nat /\ ~(q <= width) /\ p < width /\ width \in Nat
        BY <3>2, <3>4
      <4> HIDE DEF p, q
      <4>3. width \in 1 .. width /\ p < width /\ width <= q
        BY ONLY <4>2
      <4>4. width \in columns(i)
        BY ONLY <4>1, <4>3 DEF p, q
      <4> QED
        BY <4>4
    <3>5. CASE ~(t(i - 1) < width)
      <4>1. columns(i) = {}
        BY <1>3, <3>1, <3>2, <3>5
      <4> QED
        BY <4>1
    <3> QED
      BY <3>3, <3>4, <3>5
  <2> QED
    BY <2>1, <2>2
<1> QED
  BY <1>6, <1>7

-----------------------------------------------------------------------------
(* Rewrapping.                                                             *)

Partial(C) == [done : Seq(Seq(C)), current : Seq(C)]

(* What is collected stays lines of cells.                                 *)
LEMMA JoinType ==
  ASSUME NEW C, NEW acc \in Partial(C), NEW line \in Line(C)
  PROVE  Join(acc, line) \in Partial(C)
<1>1. acc.done \in Seq(Seq(C)) /\ acc.current \o line.cells \in Seq(C) /\ <<>> \in Seq(C)
  BY DEF Partial, Line
<1>2. Append(acc.done, acc.current \o line.cells) \in Seq(Seq(C))
  BY <1>1
<1> QED
  BY <1>1, <1>2 DEF Join, Partial

(* One line after the other.                                               *)
Joining(lines, C) == [i \in 1 .. Len(lines) |-> [acc \in Partial(C) |-> Join(acc, lines[i])]]

(* Collected joins them one by one.                                        *)
LEMMA CollectedSteps ==
  ASSUME NEW C, NEW lines \in Seq(Line(C))
  PROVE  \E f : /\ Steps(f, Len(lines), Partial(C), NothingYet, Joining(lines, C))
                /\ Collected(lines) = f[Len(lines)]
<1> DEFINE n == Len(lines)
           P == Partial(C)
           step == Joining(lines, C)
           Solves(f) == f = [i \in 0 .. n |-> IF i = 0 THEN NothingYet ELSE Join(f[i - 1], lines[i])]
           c == CHOOSE f : Solves(f)
<1>1. n \in Nat /\ \A i \in 1 .. n : lines[i] \in Line(C)
  OBVIOUS
<1>2. /\ step \in [1 .. n -> [P -> P]]
      /\ \A i \in 1 .. n, acc \in P : step[i][acc] = Join(acc, lines[i])
  BY <1>1, JoinType DEF Joining
<1>3. NothingYet \in P
  BY DEF NothingYet, Partial
<1> HIDE DEF n, P, step, Solves
<1>4. PICK f : Steps(f, n, P, NothingYet, step)
  BY <1>1, <1>2, <1>3, Recursion, Zenon
<1>5. /\ f \in [0 .. n -> P] /\ f[0] = NothingYet
      /\ \A i \in 1 .. n : f[i] = step[i][f[i - 1]]
  BY <1>4 DEF Steps
<1>6. ASSUME NEW i \in 0 .. n PROVE f[i] = IF i = 0 THEN NothingYet ELSE Join(f[i - 1], lines[i])
  <2>1. i # 0 => i \in 1 .. n /\ i - 1 \in 0 .. n
    BY <1>1
  <2>2. i # 0 => f[i - 1] \in P
    BY <1>5, <2>1
  <2> QED
    BY <1>2, <1>5, <2>1, <2>2
<1>7. Solves(f)
  BY <1>5, <1>6 DEF Solves
<1>8. Solves(c)
  BY <1>7, Zenon
<1>9. Collected(lines) = c[n]
  BY Zenon DEF Collected, Solves, n
<1> HIDE DEF c
<1>10. ASSUME NEW i \in 0 .. n PROVE c[i] = IF i = 0 THEN NothingYet ELSE Join(c[i - 1], lines[i])
  BY <1>8, Zenon DEF Solves
<1> DEFINE Good == {i \in 0 .. n : c[i] = f[i]}
<1>11. 0 \in Good
  BY <1>1, <1>5, <1>10
<1>12. ASSUME NEW i \in 0 .. n, i # 0, i - 1 \in Good PROVE i \in Good
  <2>1. c[i - 1] = f[i - 1]
    BY <1>12
  <2>2. c[i] = f[i]
    BY <1>6, <1>10, <1>12, <2>1
  <2> QED
    BY <2>2
<1> HIDE DEF Good
<1>13. 0 .. n \subseteq Good
  BY <1>1, <1>11, <1>12, CountingUp
<1>14. c[n] = f[n]
  BY <1>1, <1>13 DEF Good
<1> QED
  BY <1>4, <1>9, <1>14 DEF n, P, step

(* So what is collected of no lines is nothing, and one more line joins.   *)
LEMMA CollectedGrows ==
  ASSUME NEW C, NEW lines \in Seq(Line(C)), NEW line \in Line(C)
  PROVE  /\ Collected(lines) \in Partial(C)
         /\ lines = <<>> => Collected(lines) = NothingYet
         /\ Collected(Append(lines, line)) = Join(Collected(lines), line)
<1> DEFINE n == Len(lines)
           m == n + 1
           P == Partial(C)
           more == Append(lines, line)
           one == Joining(lines, C)
           other == Joining(more, C)
<1>1. n \in Nat /\ more \in Seq(Line(C)) /\ Len(more) = m /\ more[m] = line
      /\ \A i \in 1 .. n : more[i] = lines[i]
  BY AppendProperties
<1>2. PICK f : Steps(f, n, P, NothingYet, one) /\ Collected(lines) = f[n]
  BY CollectedSteps
<1> HIDE DEF more
<1>3. PICK g : Steps(g, m, P, NothingYet, other) /\ Collected(more) = g[m]
  <2>1. PICK g : Steps(g, Len(more), P, NothingYet, other) /\ Collected(more) = g[Len(more)]
    BY <1>1, CollectedSteps
  <2> QED
    BY <1>1, <2>1
<1>4. ASSUME NEW i \in 1 .. n PROVE one[i] = other[i]
  <2>1. i \in 1 .. Len(more) /\ i \in 1 .. Len(lines) /\ more[i] = lines[i]
    BY <1>1
  <2> QED
    BY <2>1 DEF Joining
<1>5. m \in Nat /\ n <= n /\ n <= m /\ n \in 0 .. n /\ n \in 0 .. m /\ m \in 1 .. m /\ m - 1 = n
  BY <1>1
<1>6. other[m] = [acc \in P |-> Join(acc, line)]
  <2>1. m \in 1 .. Len(more) /\ more[m] = line
    BY <1>1, <1>5
  <2> QED
    BY <2>1 DEF Joining
<1>7. Agree(one, other, 1, n)
  BY <1>4 DEF Agree
<1> HIDE DEF P, one, other, m
<1>8. Agree(f, g, 0, n)
  BY <1>1, <1>2, <1>3, <1>5, <1>7, SameSteps
<1>9. f[n] = g[n]
  BY <1>5, <1>8 DEF Agree
<1>10. f[n] \in P /\ f[0] = NothingYet
  BY <1>2, <1>5 DEF Steps
<1>11. g[n] \in P /\ g[m] = other[m][g[n]]
  BY <1>3, <1>5 DEF Steps
<1>12. g[m] = Join(g[n], line)
  BY <1>6, <1>11
<1>13. lines = <<>> => n = 0
  OBVIOUS
<1> QED
  BY <1>2, <1>3, <1>9, <1>10, <1>12, <1>13 DEF P, more

(* A line is trimmed to its last cell that shows.                          *)
LEMMA TrimIs ==
  ASSUME NEW C, NEW cells \in Seq(C)
  PROVE  \E n \in 0 .. Len(cells) :
           /\ TrimTrailingBlanks(cells) = SubSeq(cells, 1, n)
           /\ n = 0 \/ cells[n] \notin BlankLooking
           /\ \A x \in n + 1 .. Len(cells) : cells[x] \in BlankLooking
<1> DEFINE l == Len(cells)
           Last_(n) == (n = 0 \/ cells[n] \notin BlankLooking) /\ \A x \in n + 1 .. l : cells[x] \in BlankLooking
<1>1. l \in Nat
  OBVIOUS
<1> HIDE DEF l
<1>2. \E n \in 0 .. l : Last_(n)
  <2> DEFINE Rest == {n \in 0 .. l : \A x \in n + 1 .. l : cells[x] \in BlankLooking}
  <2>1. l \in Rest
    BY <1>1
  <2>2. PICK n \in Rest : \A m \in Rest : n <= m
    <3>1. Rest \in SUBSET Nat
      BY <1>1
    <3> HIDE DEF Rest
    <3> QED
      BY <2>1, <3>1, LeastNumber
  <2>3. n \in 0 .. l /\ \A x \in n + 1 .. l : cells[x] \in BlankLooking
    BY <2>2
  <2>4. ASSUME n # 0, cells[n] \in BlankLooking PROVE FALSE
    <3>1. n - 1 \in 0 .. l /\ ~(n <= n - 1) /\ \A x \in n - 1 + 1 .. l : x = n \/ x \in n + 1 .. l
      BY <1>1, <2>3, <2>4
    <3>2. n - 1 \in Rest
      BY <2>3, <2>4, <3>1
    <3> QED
      BY <2>2, <3>1, <3>2
  <2> QED
    BY <2>3, <2>4
<1> DEFINE k == CHOOSE n \in 0 .. l : Last_(n)
<1>3. TrimTrailingBlanks(cells) = SubSeq(cells, 1, k)
  BY Zenon DEF TrimTrailingBlanks, l
<1>4. k \in 0 .. l /\ Last_(k)
  <2> HIDE DEF Last_
  <2> QED
    BY <1>2, Zenon
<1> HIDE DEF k
<1> QED
  BY <1>3, <1>4 DEF l

(* What is trimmed has nothing more to trim.                               *)
LEMMA TrimAgain ==
  ASSUME NEW C, NEW cells \in Seq(C)
  PROVE  /\ TrimTrailingBlanks(cells) \in Seq(C)
         /\ TrimTrailingBlanks(TrimTrailingBlanks(cells)) = TrimTrailingBlanks(cells)
<1> DEFINE text == TrimTrailingBlanks(cells)
<1>1. PICK n \in 0 .. Len(cells) :
        text = SubSeq(cells, 1, n) /\ (n = 0 \/ cells[n] \notin BlankLooking)
  BY TrimIs
<1>2. text \in Seq(C) /\ Len(text) = n /\ \A i \in 1 .. n : text[i] = cells[i]
  BY <1>1, SubSeqProperties
<1> HIDE DEF text
<1>3. PICK k \in 0 .. Len(text) :
        /\ TrimTrailingBlanks(text) = SubSeq(text, 1, k)
        /\ \A x \in k + 1 .. Len(text) : text[x] \in BlankLooking
  BY <1>2, TrimIs
<1>4. k = n
  <2> SUFFICES ASSUME k # n PROVE FALSE
    OBVIOUS
  <2>1. n \in k + 1 .. Len(text) /\ n \in 1 .. n /\ n # 0
    BY <1>2, <1>3
  <2> QED
    BY <1>1, <1>2, <1>3, <2>1
<1>5. SubSeq(text, 1, n) = text
  BY <1>2, SubSeqFull
<1> QED
  BY <1>2, <1>3, <1>4, <1>5 DEF text

(* Every row but the last is full.                                         *)
LEMMA RowCount ==
  ASSUME NEW w \in Nat, w # 0, NEW l \in Nat, NEW rows, rows = (l + w - 1) \div w
  PROVE  /\ rows \in Nat /\ l <= rows * w /\ rows * w < l + w
         /\ l # 0 => rows # 0 /\ (rows - 1) * w < l
         /\ \A i \in 1 .. rows - 1 : i * w <= l
         /\ \A i \in 1 .. rows : (i - 1) * w <= l /\ (i - 1) * w \in Nat /\ i * w = (i - 1) * w + w
<1>1. rows \in Nat /\ l <= rows * w
  BY SMTT(30)
<1>2. rows * w < l + w
  BY SMTT(30)
<1>3. (rows - 1) * w = rows * w - w /\ rows * w \in Nat
  BY <1>1
<1>4. l # 0 => rows # 0 /\ (rows - 1) * w < l
  BY <1>1, <1>2, <1>3
<1>5. ASSUME NEW i \in Nat, i <= rows - 1 PROVE i * w <= l
  <2>1. PICK d \in Nat : rows - 1 = i + d
    <3>1. rows - 1 - i \in Nat /\ rows - 1 = i + (rows - 1 - i)
      BY <1>1, <1>5
    <3> QED
      BY <3>1
  <2>2. (rows - 1) * w = i * w + d * w
    BY <2>1
  <2>3. d * w \in Nat /\ i * w \in Nat
    BY <2>1
  <2> QED
    BY <1>2, <1>3, <2>2, <2>3
<1>6. ASSUME NEW i \in 1 .. rows
      PROVE  (i - 1) * w <= l /\ (i - 1) * w \in Nat /\ i * w = (i - 1) * w + w
  <2>1. i - 1 \in Nat /\ i - 1 <= rows - 1 /\ i \in Nat
    BY <1>1
  <2>2. (i - 1) * w <= l
    BY <1>5, <2>1
  <2>3. (i - 1) * w \in Nat
    BY <2>1
  <2>4. i * w = (i - 1) * w + w
    BY <2>1
  <2> QED
    BY <2>2, <2>3, <2>4
<1>7. \A i \in 1 .. rows - 1 : i * w <= l
  <2> TAKE i \in 1 .. rows - 1
  <2>1. i \in Nat /\ i <= rows - 1
    OBVIOUS
  <2> QED
    BY <1>5, <2>1
<1> QED
  BY <1>1, <1>2, <1>4, <1>6, <1>7

Kept(cells, width) == IF width = 0 THEN cells ELSE TrimTrailingBlanks(cells)

(* A text that is not blank is cut into rows: what the i-th row is.        *)
Chunked(rows, text, w, C) ==
  /\ rows \in Seq(Line(C)) /\ Len(rows) = (Len(text) + w - 1) \div w
  /\ \A i \in 1 .. Len(rows) :
       /\ rows[i].cells = SubSeq(text, (i - 1) * w + 1, Smaller(i * w, Len(text)))
       /\ rows[i].wrapped = (i < Len(rows))
       /\ Len(rows[i].cells) <= w

(* A line is one row, empty or as it is, or is cut into rows.              *)
LEMMA RewrapIs ==
  ASSUME NEW C, NEW cells \in Seq(C), NEW w \in Nat
  PROVE  LET rows == RewrapLogicalLine(cells, w)
             text == TrimTrailingBlanks(cells)
         IN  /\ rows \in Seq(Line(C)) /\ Len(rows) >= 1
             /\ w = 0 => rows = <<[cells |-> cells, wrapped |-> FALSE]>>
             /\ w # 0 /\ text = <<>> => rows = <<[cells |-> <<>>, wrapped |-> FALSE]>>
             /\ w # 0 /\ text # <<>> => Chunked(rows, text, w, C)
<1> DEFINE rows == RewrapLogicalLine(cells, w)
           text == TrimTrailingBlanks(cells)
           n == (Len(text) + w - 1) \div w
           row(i) == [cells   |-> SubSeq(text, (i - 1) * w + 1, Smaller(i * w, Len(text))),
                      wrapped |-> i < n]
<1>1. text \in Seq(C)
  BY TrimAgain
<1> HIDE DEF text
<1>2. CASE w = 0
  <2>1. rows = <<[cells |-> cells, wrapped |-> FALSE]>>
    BY <1>2 DEF RewrapLogicalLine
  <2>2. [cells |-> cells, wrapped |-> FALSE] \in Line(C)
    BY DEF Line
  <2> HIDE DEF rows
  <2>3. rows \in Seq(Line(C)) /\ Len(rows) >= 1
    BY <2>1, <2>2
  <2> QED
    BY <1>2, <2>1, <2>3 DEF rows
<1>3. CASE w # 0 /\ text = <<>>
  <2>1. rows = <<[cells |-> <<>>, wrapped |-> FALSE]>>
    BY <1>3 DEF RewrapLogicalLine, text
  <2>2. [cells |-> <<>>, wrapped |-> FALSE] \in Line(C)
    BY DEF Line
  <2> QED
    BY <1>3, <2>1, <2>2 DEF text
<1>4. CASE w # 0 /\ text # <<>>
  <2>1. Len(text) \in Nat /\ Len(text) # 0
    BY <1>1, <1>4
  <2>2. /\ n \in Nat /\ n # 0
        /\ \A i \in 1 .. n : (i - 1) * w <= Len(text) /\ (i - 1) * w \in Nat /\ i * w = (i - 1) * w + w
    BY <1>4, <2>1, RowCount
  <2>3. rows = [i \in 1 .. n |-> row(i)]
    BY <1>4, Zenon DEF RewrapLogicalLine, text
  <2>4. ASSUME NEW i \in 1 .. n PROVE row(i) \in Line(C) /\ Len(row(i).cells) <= w
    <3> DEFINE a == (i - 1) * w
               b == Smaller(i * w, Len(text))
               cut == SubSeq(text, a + 1, b)
    <3>1. a \in Nat /\ a <= Len(text) /\ i * w = a + w
      BY <2>2
    <3> HIDE DEF a
    <3>2. b \in Nat /\ b <= Len(text) /\ b <= a + w /\ a <= b
      BY <2>1, <3>1 DEF Smaller
    <3> HIDE DEF b
    <3>3. cut \in Seq(C) /\ Len(cut) = b - a
      BY <1>1, <3>1, <3>2
    <3>4. row(i) = [cells |-> cut, wrapped |-> i < n]
      BY DEF a, b
    <3> HIDE DEF cut
    <3>5. (i < n) \in BOOLEAN
      OBVIOUS
    <3> HIDE DEF n
    <3>6. [cells |-> cut, wrapped |-> i < n] \in Line(C)
      BY <3>3, <3>5 DEF Line
    <3> HIDE DEF row
    <3> QED
      BY <3>1, <3>2, <3>3, <3>4, <3>6
  <2> HIDE DEF n, rows
  <2>5. rows \in Seq(Line(C)) /\ Len(rows) = n
    <3>1. \A i \in 1 .. n : row(i) \in Line(C)
      BY <2>4
    <3> HIDE DEF row
    <3> QED
      BY <2>2, <2>3, <3>1
  <2>6. \A i \in 1 .. n : rows[i] = row(i)
    BY <2>3
  <2>7. Chunked(rows, text, w, C)
    <3>1. \A i \in 1 .. n : /\ row(i).cells = SubSeq(text, (i - 1) * w + 1, Smaller(i * w, Len(text)))
                            /\ row(i).wrapped = (i < n)
      OBVIOUS
    <3> HIDE DEF row
    <3>2. \A i \in 1 .. n : Len(rows[i].cells) <= w
      BY <2>4, <2>6
    <3> QED
      BY <2>5, <2>6, <3>1, <3>2 DEF Chunked, n
  <2> QED
    BY <1>4, <2>2, <2>5, <2>7 DEF rows, text
<1> QED
  BY <1>2, <1>3, <1>4

(* No row is longer than the width.                                        *)
LEMMA RowsFit ==
  ASSUME NEW C, NEW cells \in Seq(C), NEW w \in Nat \ {0}, NEW i \in 1 .. Len(RewrapLogicalLine(cells, w))
  PROVE  Len(RewrapLogicalLine(cells, w)[i].cells) <= w
<1> DEFINE rows == RewrapLogicalLine(cells, w)
           text == TrimTrailingBlanks(cells)
<1>1. CASE text = <<>>
  <2>1. rows = <<[cells |-> <<>>, wrapped |-> FALSE]>>
    BY <1>1, RewrapIs
  <2> HIDE DEF rows
  <2>2. Len(rows) = 1 /\ rows[1].cells = <<>>
    BY <2>1
  <2> QED
    BY <2>2 DEF rows
<1>2. CASE text # <<>>
  BY <1>2, RewrapIs DEF Chunked
<1> QED
  BY <1>1, <1>2

(* The rows of a line, behind rows that end a line, are collected as that  *)
(* line, trimmed unless it was kept as it is.                              *)
LEMMA RowsCollected ==
  ASSUME NEW C, NEW lines \in Seq(Line(C)), Collected(lines).current = <<>>,
         NEW cells \in Seq(C), NEW w \in Nat
  PROVE  Collected(lines \o RewrapLogicalLine(cells, w))
           = [done |-> Append(Collected(lines).done, Kept(cells, w)), current |-> <<>>]
<1> DEFINE rows == RewrapLogicalLine(cells, w)
           text == TrimTrailingBlanks(cells)
           n == Len(rows)
           D == Collected(lines).done
<1>1. /\ rows \in Seq(Line(C)) /\ n \in Nat /\ n >= 1 /\ text \in Seq(C)
      /\ w = 0 => rows = <<[cells |-> cells, wrapped |-> FALSE]>>
      /\ w # 0 /\ text = <<>> => rows = <<[cells |-> <<>>, wrapped |-> FALSE]>>
      /\ w # 0 /\ text # <<>> => Chunked(rows, text, w, C)
  <2>1. /\ rows \in Seq(Line(C)) /\ Len(rows) >= 1
        /\ w = 0 => rows = <<[cells |-> cells, wrapped |-> FALSE]>>
        /\ w # 0 /\ text = <<>> => rows = <<[cells |-> <<>>, wrapped |-> FALSE]>>
        /\ w # 0 /\ text # <<>> => Chunked(rows, text, w, C)
    BY RewrapIs, Zenon
  <2>2. text \in Seq(C)
    BY TrimAgain
  <2> HIDE DEF rows, text
  <2> QED
    BY <2>1, <2>2
<1> HIDE DEF rows, text
<1>2. /\ Collected(lines) \in Partial(C) /\ D \in Seq(Seq(C))
      /\ Collected(lines) = [done |-> D, current |-> <<>>]
  <2>1. Collected(lines) \in Partial(C)
    BY <1>1, CollectedGrows DEF Partial
  <2> QED
    BY <2>1 DEF Partial
<1>3. ASSUME NEW one, rows = <<[cells |-> one, wrapped |-> FALSE]>>, one \in Seq(C)
      PROVE  Collected(lines \o rows) = [done |-> Append(D, one), current |-> <<>>]
  <2> DEFINE line == [cells |-> one, wrapped |-> FALSE]
  <2>1. line \in Line(C)
    BY <1>3 DEF Line
  <2>2. line.cells = one /\ line.wrapped = FALSE
    OBVIOUS
  <2> HIDE DEF line
  <2>3. lines \o rows = Append(lines, line)
    BY <1>3, <2>1, AppendIsConcat DEF line
  <2>4. Collected(lines \o rows) = Join(Collected(lines), line)
    BY <2>1, <2>3, CollectedGrows
  <2>5. Join(Collected(lines), line) = [done |-> Append(D, <<>> \o one), current |-> <<>>]
    BY <1>2, <2>2 DEF Join
  <2>6. <<>> \o one = one
    BY <1>3, ConcatEmptySeq
  <2> QED
    BY <2>4, <2>5, <2>6
<1>4. CASE w = 0
  BY <1>1, <1>3, <1>4 DEF Kept, rows
<1>5. CASE w # 0 /\ text = <<>>
  <2>1. <<>> \in Seq(C)
    OBVIOUS
  <2> QED
    BY <1>1, <1>3, <1>5, <2>1 DEF Kept, rows, text
<1>6. CASE w # 0 /\ text # <<>>
  <2> DEFINE l == Len(text)
             cut(i) == SubSeq(text, (i - 1) * w + 1, Smaller(i * w, l))
             part(j) == lines \o SubSeq(rows, 1, j)
             Good == {j \in 0 .. n - 1 : Collected(part(j)) = [done |-> D, current |-> SubSeq(text, 1, j * w)]}
  <2>1. l \in Nat /\ l # 0 /\ text \in Seq(C)
    BY <1>1, <1>6
  <2>2. /\ n = (l + w - 1) \div w
        /\ \A i \in 1 .. n : /\ rows[i] \in Line(C)
                             /\ rows[i].cells = cut(i) /\ rows[i].wrapped = (i < n)
    BY <1>1, <1>6 DEF Chunked
  <2>3. /\ n \in Nat /\ l <= n * w /\ n # 0
        /\ \A i \in 1 .. n - 1 : i * w <= l
        /\ \A i \in 1 .. n : (i - 1) * w <= l /\ (i - 1) * w \in Nat /\ i * w = (i - 1) * w + w
    BY <1>6, <2>1, <2>2, RowCount
  <2> HIDE DEF l, n, cut
  <2>4. \A j \in 0 .. n : part(j) \in Seq(Line(C))
    <3> TAKE j \in 0 .. n
    <3>1. SubSeq(rows, 1, j) \in Seq(Line(C))
      BY <1>1, <2>3 DEF n
    <3> QED
      BY <3>1, ConcatProperties
  <2>5. ASSUME NEW j \in 1 .. n
        PROVE  part(j) = Append(part(j - 1), rows[j]) /\ part(j - 1) \in Seq(Line(C))
    <3> DEFINE before == SubSeq(rows, 1, j - 1)
               this == <<rows[j]>>
    <3>1. SubSeq(rows, 1, j) = before \o this
      <4>1. 1 \in 1 .. Len(rows) /\ j \in 1 .. Len(rows)
        BY <2>3 DEF n
      <4> QED
        BY <1>1, <4>1, SubSeqRecursiveSecond
    <3>2. before \in Seq(Line(C)) /\ this \in Seq(Line(C)) /\ rows[j] \in Line(C)
      <4>1. j - 1 \in Nat /\ j - 1 <= Len(rows) /\ rows[j] \in Line(C)
        BY <2>2, <2>3 DEF n
      <4> QED
        BY <1>1, <4>1
    <3>3. part(j) = part(j - 1) \o <<rows[j]>>
      <4>1. part(j) = lines \o (before \o this)
        BY <3>1
      <4>2. part(j - 1) = lines \o before
        OBVIOUS
      <4> DEFINE Associate(s, t, u) == (s \o t) \o u = s \o (t \o u)
      <4>3. \A s, t, u \in Seq(Line(C)) : Associate(s, t, u)
        BY ONLY ConcatAssociative, SMTT(30)
      <4> HIDE DEF before, this, part, Associate
      <4>4. Associate(lines, before, this)
        BY <3>2, <4>3
      <4>5. lines \o (before \o this) = (lines \o before) \o this
        BY <4>4, Zenon DEF Associate
      <4> QED
        BY <4>1, <4>2, <4>5 DEF this
    <3>4. part(j - 1) \in Seq(Line(C))
      <4>1. j - 1 \in 0 .. n
        BY <2>3
      <4> QED
        BY <2>4, <4>1
    <3> HIDE DEF part
    <3> QED
      BY <3>2, <3>3, <3>4, AppendIsConcat
  <2>6. part(0) = lines /\ part(n) = lines \o rows
    <3>1. SubSeq(rows, 1, 0) = <<>> /\ SubSeq(rows, 1, n) = rows
      BY <1>1, SubSeqFull, SubSeqEmpty DEF n
    <3> QED
      BY <3>1, ConcatEmptySeq
  <2> HIDE DEF part
  <2>7. 0 \in Good
    <3>1. 0 * w = 0 /\ SubSeq(text, 1, 0) = <<>>
      BY <2>1
    <3>2. Collected(part(0)) = [done |-> D, current |-> SubSeq(text, 1, 0 * w)]
      BY <1>2, <2>6, <3>1
    <3>3. 0 \in 0 .. n - 1
      BY <2>3
    <3> QED
      BY <3>2, <3>3
  <2>8. ASSUME NEW j \in 1 .. n, j - 1 \in Good
        PROVE  Collected(part(j)) =
                 IF j < n THEN [done |-> D, current |-> SubSeq(text, 1, j * w)]
                 ELSE [done |-> Append(D, text), current |-> <<>>]
    <3> DEFINE a == (j - 1) * w
               b == Smaller(j * w, l)
    <3>1. /\ a \in Nat /\ a <= l /\ j * w = a + w
          /\ j < n => b = j * w
          /\ ~(j < n) => b = l
      BY <2>1, <2>3 DEF Smaller
    <3>2. b \in a .. l
      BY <2>1, <3>1 DEF Smaller
    <3> HIDE DEF a, b
    <3>3. Collected(part(j)) = Join(Collected(part(j - 1)), rows[j])
      BY <2>2, <2>5, CollectedGrows
    <3>4. Collected(part(j - 1)) = [done |-> D, current |-> SubSeq(text, 1, a)]
      BY <2>8 DEF a
    <3>5. SubSeq(text, 1, a) \o rows[j].cells = SubSeq(text, 1, b)
      <4>1. rows[j].cells = SubSeq(text, a + 1, b)
        BY <2>2 DEF cut, a, b
      <4>2. 1 \in 1 .. Len(text) + 1 /\ a \in 1 - 1 .. Len(text) /\ b \in a .. Len(text)
        BY <2>1, <3>1, <3>2 DEF l
      <4> QED
        BY <2>1, <4>1, <4>2, ConcatAdjacentSubSeq
    <3>6. SubSeq(text, 1, l) = text
      BY <2>1, SubSeqFull DEF l
    <3>7. Collected(part(j)) =
            IF rows[j].wrapped THEN [done |-> D, current |-> SubSeq(text, 1, b)]
            ELSE [done |-> Append(D, SubSeq(text, 1, b)), current |-> <<>>]
      <4> DEFINE acc == Collected(part(j - 1))
                 line == rows[j]
      <4>1. acc.done = D /\ acc.current = SubSeq(text, 1, a)
        BY <3>4
      <4>2. acc.current \o line.cells = SubSeq(text, 1, b)
        BY <3>5, <4>1
      <4>3. Collected(part(j)) = Join(acc, line)
        BY <3>3
      <4> HIDE DEF acc, line
      <4>4. Join(acc, line) = IF line.wrapped THEN [done |-> D, current |-> SubSeq(text, 1, b)]
                              ELSE [done |-> Append(D, SubSeq(text, 1, b)), current |-> <<>>]
        BY ONLY <4>1, <4>2, Zenon DEF Join
      <4> QED
        BY ONLY <4>3, <4>4 DEF line
    <3>8. CASE j < n
      <4>1. rows[j].wrapped
        BY <2>2, <3>8
      <4> QED
        BY ONLY <3>1, <3>7, <3>8, <4>1
    <3>9. CASE ~(j < n)
      <4>1. ~rows[j].wrapped
        BY <2>2, <3>9
      <4> QED
        BY ONLY <3>1, <3>6, <3>7, <3>9, <4>1
    <3> QED
      BY <3>8, <3>9
  <2>9. \A j \in 0 .. n - 1 : j # 0 /\ j - 1 \in Good => j \in Good
    <3> TAKE j \in 0 .. n - 1
    <3> HAVE j # 0 /\ j - 1 \in Good
    <3>1. j \in 1 .. n /\ j < n
      BY <2>3
    <3> HIDE DEF Good
    <3>2. Collected(part(j)) = [done |-> D, current |-> SubSeq(text, 1, j * w)]
      BY <2>8, <3>1
    <3> QED
      BY <3>2 DEF Good
  <2> HIDE DEF Good
  <2>10. n - 1 \in Good
    <3>1. n - 1 \in Nat
      BY <2>3
    <3>2. 0 .. n - 1 \subseteq Good
      BY <2>7, <2>9, <3>1, CountingUp
    <3> QED
      BY <3>1, <3>2
  <2>11. Collected(part(n)) = [done |-> Append(D, text), current |-> <<>>]
    <3>1. n \in 1 .. n /\ ~(n < n)
      BY <2>3
    <3> QED
      BY <2>8, <2>10, <3>1
  <2> QED
    BY <1>6, <2>6, <2>11 DEF Kept, rows, text
<1> QED
  BY <1>4, <1>5, <1>6

(* The logical lines of some lines, and their rows.                        *)
LEMMA LogicalLines ==
  ASSUME NEW C, NEW lines \in Seq(Line(C))
  PROVE  GroupLogicalLines(lines) \in Seq(Seq(C))
<1> DEFINE all == Collected(lines)
<1>1. [cells |-> <<>>, wrapped |-> FALSE] \in Line(C)
  BY DEF Line
<1>2. all \in Partial(C)
  BY <1>1, CollectedGrows
<1> HIDE DEF all
<1>3. all.done \in Seq(Seq(C)) /\ all.current \in Seq(C)
  BY <1>2 DEF Partial
<1>4. Append(all.done, all.current) \in Seq(Seq(C))
  BY <1>3
<1> QED
  BY <1>3, <1>4 DEF GroupLogicalLines, all

RowsOf(logical, w) == [i \in 1 .. Len(logical) |-> RewrapLogicalLine(logical[i], w)]
AllKept(logical, w) == [i \in 1 .. Len(logical) |-> Kept(logical[i], w)]

(* They are sequences, the rows of each line in its place.                 *)
LEMMA RowsOfType ==
  ASSUME NEW C, NEW logical \in Seq(Seq(C)), NEW w \in Nat
  PROVE  /\ RowsOf(logical, w) \in Seq(Seq(Line(C)))
         /\ AllKept(logical, w) \in Seq(Seq(C))
         /\ Len(RowsOf(logical, w)) = Len(logical)
         /\ Len(AllKept(logical, w)) = Len(logical)
         /\ FlattenSeq(RowsOf(logical, w)) \in Seq(Line(C))
<1> DEFINE n == Len(logical)
<1>1. n \in Nat /\ \A i \in 1 .. n : logical[i] \in Seq(C)
  OBVIOUS
<1>2. ASSUME NEW i \in 1 .. n
      PROVE  RewrapLogicalLine(logical[i], w) \in Seq(Line(C)) /\ Kept(logical[i], w) \in Seq(C)
  <2> DEFINE cells == logical[i]
  <2>1. cells \in Seq(C)
    BY <1>1
  <2> HIDE DEF cells
  <2>2. RewrapLogicalLine(cells, w) \in Seq(Line(C))
    BY <2>1, RewrapIs
  <2>3. Kept(cells, w) \in Seq(C)
    BY <2>1, TrimAgain DEF Kept
  <2> QED
    BY <2>2, <2>3 DEF cells
<1>3. RowsOf(logical, w) \in Seq(Seq(Line(C))) /\ Len(RowsOf(logical, w)) = n
  BY <1>1, <1>2 DEF RowsOf
<1>4. AllKept(logical, w) \in Seq(Seq(C)) /\ Len(AllKept(logical, w)) = n
  BY <1>1, <1>2 DEF AllKept
<1>5. FlattenSeq(RowsOf(logical, w)) \in Seq(Line(C))
  <2>1. <<>> \in Seq(Line(C))
    OBVIOUS
  <2> QED
    BY <1>3, <2>1, FlattenGrows
<1> QED
  BY <1>3, <1>4, <1>5

(* The rows of logical lines are collected as those lines.                 *)
LEMMA RowsOfAllCollected ==
  ASSUME NEW C, NEW logical \in Seq(Seq(C)), NEW w \in Nat
  PROVE  Collected(FlattenSeq(RowsOf(logical, w))) = [done |-> AllKept(logical, w), current |-> <<>>]
<1> DEFINE n == Len(logical)
           rows == RowsOf(logical, w)
           kept == AllKept(logical, w)
           all(m) == FlattenSeq(SubSeq(rows, 1, m))
           Good == {m \in 0 .. n : /\ all(m) \in Seq(Line(C))
                                   /\ Collected(all(m)) = [done |-> SubSeq(kept, 1, m), current |-> <<>>]}
<1>1. /\ n \in Nat /\ rows \in Seq(Seq(Line(C))) /\ Len(rows) = n
      /\ kept \in Seq(Seq(C)) /\ Len(kept) = n
      /\ \A i \in 1 .. n : /\ rows[i] = RewrapLogicalLine(logical[i], w)
                           /\ kept[i] = Kept(logical[i], w)
                           /\ logical[i] \in Seq(C)
  <2>1. /\ n \in Nat /\ rows \in Seq(Seq(Line(C))) /\ Len(rows) = n
        /\ kept \in Seq(Seq(C)) /\ Len(kept) = n
    BY RowsOfType
  <2>2. ASSUME NEW i \in 1 .. n
        PROVE  /\ rows[i] = RewrapLogicalLine(logical[i], w)
               /\ kept[i] = Kept(logical[i], w)
               /\ logical[i] \in Seq(C)
    BY DEF RowsOf, AllKept
  <2> QED
    BY ONLY <2>1, <2>2
<1> HIDE DEF rows, kept, n
<1>2. 0 \in Good
  <2>1. SubSeq(rows, 1, 0) = <<>> /\ SubSeq(kept, 1, 0) = <<>>
    BY <1>1, SubSeqEmpty
  <2>2. <<>> \in Seq(Seq(Line(C))) /\ <<>> \in Seq(Line(C))
    OBVIOUS
  <2>3. all(0) = <<>>
    BY <2>1, <2>2, FlattenGrows
  <2>4. Collected(<<>>) = [done |-> <<>>, current |-> <<>>]
    <3>1. [cells |-> <<>>, wrapped |-> FALSE] \in Line(C)
      BY DEF Line
    <3> QED
      BY <2>2, <3>1, CollectedGrows DEF NothingYet
  <2>5. 0 \in 0 .. n
    BY <1>1
  <2> HIDE DEF all
  <2> QED
    BY <2>1, <2>2, <2>3, <2>4, <2>5
<1>3. ASSUME NEW m \in 0 .. n, m # 0, m - 1 \in Good PROVE m \in Good
  <2> DEFINE cells == logical[m]
             line == RewrapLogicalLine(cells, w)
             one == Kept(cells, w)
             before == all(m - 1)
             some == SubSeq(rows, 1, m - 1)
             done == SubSeq(kept, 1, m - 1)
  <2>1. 1 \in Nat \ {0} /\ m \in Nat /\ 1 <= m /\ m <= Len(rows) /\ m <= Len(kept) /\ m \in 1 .. n
    BY <1>1, <1>3
  <2>2. SubSeq(rows, 1, m) = Append(some, rows[m]) /\ some \in Seq(Seq(Line(C))) /\ rows[m] \in Seq(Line(C))
    BY <1>1, <2>1, PartGrows
  <2>3. SubSeq(kept, 1, m) = Append(done, kept[m])
    BY <1>1, <2>1, PartGrows
  <2>4. rows[m] = line /\ kept[m] = one /\ cells \in Seq(C)
    BY <1>1, <2>1
  <2>5. before \in Seq(Line(C)) /\ Collected(before) = [done |-> done, current |-> <<>>]
    BY <1>3
  <2>6. before = FlattenSeq(some)
    OBVIOUS
  <2>7. all(m) = FlattenSeq(SubSeq(rows, 1, m))
    OBVIOUS
  <2> HIDE DEF all, before, some, done, cells, one, line, Good
  <2>8. all(m) = before \o line
    BY <2>2, <2>4, <2>6, <2>7, FlattenGrows
  <2>9. before \o line \in Seq(Line(C))
    BY <2>2, <2>4, <2>5
  <2>10. Collected(before).current = <<>> /\ Collected(before).done = done
    BY <2>5
  <2>11. Collected(before \o line) = [done |-> Append(done, one), current |-> <<>>]
    BY <2>4, <2>5, <2>10, RowsCollected DEF line, one
  <2> QED
    BY <2>3, <2>4, <2>8, <2>9, <2>11, <1>3 DEF Good
<1> HIDE DEF Good
<1>4. 0 .. n \subseteq Good
  BY <1>1, <1>2, <1>3, CountingUp
<1>5. n \in Good /\ SubSeq(rows, 1, n) = rows /\ SubSeq(kept, 1, n) = kept
  BY <1>1, <1>4, SubSeqFull
<1> QED
  BY <1>5 DEF Good, rows, kept

(* Rewrapped lines are the same logical lines, trimmed.                    *)
LEMMA RewrappedAreTheLines ==
  ASSUME NEW C, NEW lines \in Seq(Line(C)), NEW w \in Nat
  PROVE  GroupLogicalLines(Rewrapped(lines, w)) = AllKept(GroupLogicalLines(lines), w)
<1> DEFINE logical == GroupLogicalLines(lines)
<1>1. logical \in Seq(Seq(C))
  BY LogicalLines
<1>2. Rewrapped(lines, w) = FlattenSeq(RowsOf(logical, w))
  BY DEF Rewrapped, RowsOf
<1> HIDE DEF logical
<1> DEFINE all == Collected(Rewrapped(lines, w))
<1>3. all = [done |-> AllKept(logical, w), current |-> <<>>]
  BY <1>1, <1>2, RowsOfAllCollected
<1>4. GroupLogicalLines(Rewrapped(lines, w)) = IF all.current = <<>> THEN all.done ELSE Append(all.done, all.current)
  BY DEF GroupLogicalLines
<1> HIDE DEF all
<1> QED
  BY <1>3, <1>4 DEF logical

(* Rewrapping to one width and then to another is rewrapping to the other, *)
(* and no row is longer than its width.                                    *)
LEMMA RewrapRoundTrips ==
  ASSUME NEW C, NEW lines \in Seq(Line(C)), NEW v \in Nat, NEW w \in Nat \ {0}
  PROVE  /\ Rewrapped(Rewrapped(lines, v), w) = Rewrapped(lines, w)
         /\ \A i \in 1 .. Len(Rewrapped(lines, w)) : Len(Rewrapped(lines, w)[i].cells) <= w
<1> DEFINE logical == GroupLogicalLines(lines)
           kept == AllKept(logical, v)
           S == {line \in Line(C) : Len(line.cells) <= w}
<1>1. /\ logical \in Seq(Seq(C)) /\ kept \in Seq(Seq(C)) /\ Len(kept) = Len(logical)
      /\ \A i \in 1 .. Len(logical) : logical[i] \in Seq(C) /\ kept[i] = Kept(logical[i], v)
  <2>1. logical \in Seq(Seq(C))
    BY LogicalLines
  <2> HIDE DEF logical
  <2>2. kept \in Seq(Seq(C)) /\ Len(kept) = Len(logical)
    BY <2>1, RowsOfType
  <2>3. \A i \in 1 .. Len(logical) : logical[i] \in Seq(C) /\ kept[i] = Kept(logical[i], v)
    BY <2>1 DEF AllKept
  <2> HIDE DEF kept
  <2> QED
    BY <2>1, <2>2, <2>3
<1>2. Rewrapped(lines, w) = FlattenSeq(RowsOf(logical, w))
  BY DEF Rewrapped, RowsOf
<1>3. Rewrapped(Rewrapped(lines, v), w) = FlattenSeq(RowsOf(kept, w))
  <2> DEFINE once == Rewrapped(lines, v)
  <2>1. GroupLogicalLines(once) = kept
    BY RewrappedAreTheLines
  <2> HIDE DEF once, kept
  <2>2. Rewrapped(once, w) = FlattenSeq(RowsOf(kept, w))
    BY <2>1 DEF Rewrapped, RowsOf
  <2> QED
    BY <2>2 DEF once
<1> HIDE DEF logical, kept
<1>4. ASSUME NEW cells \in Seq(C)
      PROVE  RewrapLogicalLine(Kept(cells, v), w) = RewrapLogicalLine(cells, w)
  <2> DEFINE again == Kept(cells, v)
  <2>1. TrimTrailingBlanks(again) = TrimTrailingBlanks(cells)
    BY TrimAgain DEF Kept
  <2>2. w # 0
    OBVIOUS
  <2> HIDE DEF again
  <2>3. RewrapLogicalLine(again, w) = RewrapLogicalLine(cells, w)
    BY <2>1, <2>2, Zenon DEF RewrapLogicalLine
  <2> QED
    BY <2>3 DEF again
<1>5. RowsOf(kept, w) = RowsOf(logical, w)
  <2>1. \A i \in 1 .. Len(logical) : RewrapLogicalLine(kept[i], w) = RewrapLogicalLine(logical[i], w)
    BY <1>1, <1>4
  <2> QED
    BY <1>1, <2>1 DEF RowsOf
<1>6. RowsOf(logical, w) \in Seq(Seq(S))
  <2>1. ASSUME NEW i \in 1 .. Len(logical) PROVE RewrapLogicalLine(logical[i], w) \in Seq(S)
    <3> DEFINE cells == logical[i]
               rows == RewrapLogicalLine(cells, w)
    <3>1. cells \in Seq(C) /\ w \in Nat
      BY <1>1
    <3> HIDE DEF cells
    <3>2. rows \in Seq(Line(C)) /\ \A j \in 1 .. Len(rows) : Len(rows[j].cells) <= w
      BY <3>1, RewrapIs, RowsFit
    <3> HIDE DEF rows
    <3>3. \A j \in 1 .. Len(rows) : rows[j] \in S
      BY <3>2
    <3> HIDE DEF S
    <3>4. rows \in Seq(S)
      BY <3>2, <3>3, SeqDef
    <3> QED
      BY <3>4 DEF rows, cells
  <2> HIDE DEF S
  <2> QED
    BY <1>1, <2>1 DEF RowsOf
<1>7. FlattenSeq(RowsOf(logical, w)) \in Seq(S)
  <2>1. <<>> \in Seq(S)
    OBVIOUS
  <2> HIDE DEF S
  <2> QED
    BY <1>6, <2>1, FlattenGrows
<1> DEFINE all == FlattenSeq(RowsOf(logical, w))
<1>8. \A i \in 1 .. Len(all) : Len(all[i].cells) <= w
  <2>1. all \in Seq(S)
    BY <1>7
  <2> HIDE DEF all
  <2> TAKE i \in 1 .. Len(all)
  <2>2. all[i] \in S
    BY <2>1
  <2> QED
    BY <2>2
<1> QED
  BY <1>2, <1>3, <1>5, <1>8

-----------------------------------------------------------------------------
(* The window of history.                                                  *)

(* A longer text has no fewer rows.                                        *)
LEMMA MoreTextMoreRows ==
  ASSUME NEW w \in Nat, w # 0, NEW m \in Nat, NEW n \in Nat, n <= m
  PROVE  (n + w - 1) \div w <= (m + w - 1) \div w
<1> DEFINE q == (n + w - 1) \div w
           r == (m + w - 1) \div w
<1>1. q \in Nat /\ r \in Nat /\ q * w < n + w /\ m <= r * w
  <2>1. q = (n + w - 1) \div w /\ r = (m + w - 1) \div w
    OBVIOUS
  <2> HIDE DEF q, r
  <2>2. q \in Nat /\ q * w < n + w
    BY <2>1, RowCount
  <2>3. r \in Nat /\ m <= r * w
    BY <2>1, RowCount
  <2> QED
    BY <2>2, <2>3
<1> HIDE DEF q, r
<1>2. q * w < r * w + w
  BY <1>1, SMTT(30)
<1>3. q <= r
  <2> SUFFICES ASSUME ~(q <= r) PROVE FALSE
    OBVIOUS
  <2>1. PICK d \in Nat : q = r + 1 + d
    <3>1. q - (r + 1) \in Nat /\ q = r + 1 + (q - (r + 1))
      BY <1>1
    <3> QED
      BY <3>1
  <2>2. q * w = r * w + w + d * w
    BY <1>1, <2>1
  <2>3. d * w \in Nat /\ r * w \in Nat
    BY <1>1, <2>1
  <2> QED
    BY <1>2, <2>2, <2>3
<1> QED
  BY <1>3 DEF q, r

(* A line that is longer at its beginning has no fewer rows.               *)
LEMMA MoreBeforeMoreRows ==
  ASSUME NEW C, NEW p \in Seq(C), NEW s \in Seq(C), NEW w \in Nat
  PROVE  Len(RewrapLogicalLine(s, w)) <= Len(RewrapLogicalLine(p \o s, w))
<1> DEFINE ps == p \o s
           few == RewrapLogicalLine(s, w)
           many == RewrapLogicalLine(ps, w)
           text == TrimTrailingBlanks(s)
           more == TrimTrailingBlanks(ps)
<1>1. /\ ps \in Seq(C) /\ Len(ps) = Len(p) + Len(s) /\ Len(p) \in Nat /\ Len(s) \in Nat
      /\ \A i \in 1 .. Len(s) : ps[Len(p) + i] = s[i]
  BY ConcatProperties
<1> HIDE DEF ps
<1>2. Len(few) \in Nat /\ Len(many) \in Nat /\ Len(many) >= 1 /\ text \in Seq(C) /\ more \in Seq(C)
  <2>1. few \in Seq(Line(C)) /\ text \in Seq(C)
    BY RewrapIs, TrimAgain
  <2>2. many \in Seq(Line(C)) /\ Len(many) >= 1 /\ more \in Seq(C)
    BY <1>1, RewrapIs, TrimAgain
  <2> HIDE DEF few, many
  <2> QED
    BY <2>1, <2>2
<1>3. CASE w = 0 \/ text = <<>>
  <2>1. \/ few = <<[cells |-> s, wrapped |-> FALSE]>>
        \/ few = <<[cells |-> <<>>, wrapped |-> FALSE]>>
    BY <1>3, RewrapIs
  <2> HIDE DEF few, many
  <2>2. Len(few) = 1
    BY <2>1
  <2> QED
    BY <1>2, <2>2 DEF few, many, ps
<1>4. CASE w # 0 /\ text # <<>>
  <2>1. Len(text) <= Len(more)
    <3>1. PICK n \in 0 .. Len(s) : text = SubSeq(s, 1, n) /\ (n = 0 \/ s[n] \notin BlankLooking)
      BY TrimIs
    <3>2. PICK m \in 0 .. Len(ps) :
            more = SubSeq(ps, 1, m) /\ \A x \in m + 1 .. Len(ps) : ps[x] \in BlankLooking
      BY <1>1, TrimIs
    <3>3. Len(text) = n /\ Len(more) = m
      BY <1>1, <3>1, <3>2
    <3> HIDE DEF text, more
    <3>4. CASE n = 0
      BY <1>2, <3>3, <3>4
    <3>5. CASE n # 0
      <4>1. n \in 1 .. Len(s) /\ Len(p) + n \in 1 .. Len(ps) /\ s[n] \notin BlankLooking
        BY <1>1, <3>1, <3>5
      <4>2. ps[Len(p) + n] = s[n]
        BY <1>1, <4>1
      <4>3. Len(p) + n <= m
        <5> SUFFICES ASSUME ~(Len(p) + n <= m) PROVE FALSE
          OBVIOUS
        <5>1. Len(p) + n \in m + 1 .. Len(ps)
          BY <1>1, <3>2, <4>1
        <5> QED
          BY <3>2, <4>1, <4>2, <5>1
      <4> QED
        BY <1>1, <3>3, <4>3
    <3> QED
      BY <3>4, <3>5
  <2>2. Len(text) \in Nat /\ Len(more) \in Nat /\ Len(text) # 0
    BY <1>2, <1>4
  <2>3. more # <<>>
    BY <2>1, <2>2
  <2>4. Len(few) = (Len(text) + w - 1) \div w
    BY <1>4, RewrapIs DEF Chunked
  <2>5. Len(many) = (Len(more) + w - 1) \div w
    BY <1>1, <1>4, <2>3, RewrapIs DEF Chunked
  <2> HIDE DEF few, many, text, more
  <2>6. Len(few) <= Len(many)
    BY <1>4, <2>1, <2>2, <2>4, <2>5, MoreTextMoreRows
  <2> QED
    BY <2>6 DEF few, many, ps
<1> QED
  BY <1>3, <1>4

(* The rows of one more line come after those of the others.               *)
LEMMA OneMoreLine ==
  ASSUME NEW C, NEW logical \in Seq(Seq(C)), NEW cells \in Seq(C), NEW w \in Nat
  PROVE  /\ FlattenSeq(RowsOf(logical, w)) \in Seq(Line(C))
         /\ RewrapLogicalLine(cells, w) \in Seq(Line(C))
         /\ FlattenSeq(RowsOf(Append(logical, cells), w))
              = FlattenSeq(RowsOf(logical, w)) \o RewrapLogicalLine(cells, w)
<1> DEFINE n == Len(logical)
           more == Append(logical, cells)
           rows == RowsOf(logical, w)
           line == RewrapLogicalLine(cells, w)
<1>1. /\ n \in Nat /\ more \in Seq(Seq(C)) /\ Len(more) = n + 1
      /\ more[n + 1] = cells /\ \A i \in 1 .. n : more[i] = logical[i]
  BY AppendProperties
<1> HIDE DEF more
<1>2. rows \in Seq(Seq(Line(C))) /\ Len(rows) = n /\ FlattenSeq(rows) \in Seq(Line(C))
  BY RowsOfType
<1>3. line \in Seq(Line(C))
  BY RewrapIs
<1>4. RowsOf(more, w) \in Seq(Seq(Line(C))) /\ Len(RowsOf(more, w)) = n + 1
  BY <1>1, RowsOfType
<1>5. /\ RowsOf(more, w)[n + 1] = line
      /\ \A i \in 1 .. n : RowsOf(more, w)[i] = rows[i]
  <2>1. n + 1 \in 1 .. Len(more) /\ \A i \in 1 .. n : i \in 1 .. Len(more) /\ i \in 1 .. Len(logical)
    BY <1>1
  <2>2. \A i \in 1 .. Len(more) : RowsOf(more, w)[i] = RewrapLogicalLine(more[i], w)
    BY DEF RowsOf
  <2>3. \A i \in 1 .. n : rows[i] = RewrapLogicalLine(logical[i], w)
    BY DEF RowsOf
  <2> HIDE DEF rows, n
  <2> QED
    BY <1>1, <2>1, <2>2, <2>3
<1> DEFINE all == RowsOf(more, w)
           both == Append(rows, line)
<1>6. both \in Seq(Seq(Line(C))) /\ Len(both) = n + 1 /\ both[n + 1] = line
      /\ \A i \in 1 .. n : both[i] = rows[i]
  <2> HIDE DEF rows, line, n
  <2> QED
    BY <1>2, <1>3, AppendProperties
<1> HIDE DEF all, both, rows, line, n
<1>7. all = both
  <2>1. \A i \in 1 .. n + 1 : all[i] = both[i]
    <3> TAKE i \in 1 .. n + 1
    <3>1. i = n + 1 \/ i \in 1 .. n
      BY <1>1
    <3> QED
      BY <1>5, <1>6, <3>1 DEF all
  <2>2. all \in Seq(Seq(Line(C))) /\ Len(all) = n + 1
    BY <1>4 DEF all
  <2> QED
    BY <1>6, <2>1, <2>2, SeqEqual
<1>8. FlattenSeq(both) = FlattenSeq(rows) \o line
  BY <1>2, <1>3, FlattenGrows DEF both
<1> QED
  BY <1>2, <1>3, <1>7, <1>8 DEF all, rows, line, more

(* What is collected of the last lines, beside what is collected of all:   *)
(* no more rows, and an open line that ends the other's.                   *)
Behind(part, all, w, C) ==
  /\ Len(FlattenSeq(RowsOf(part.done, w))) <= Len(FlattenSeq(RowsOf(all.done, w)))
  /\ \E p \in Seq(C) : all.current = p \o part.current

(* One more line, ended or not, leaves them so.                            *)
LEMMA LineAfterBoth ==
  ASSUME NEW C, NEW w \in Nat, NEW part \in Seq(Seq(C)), NEW all \in Seq(Seq(C)),
         NEW p \in Seq(C), NEW s \in Seq(C),
         Len(FlattenSeq(RowsOf(part, w))) <= Len(FlattenSeq(RowsOf(all, w)))
  PROVE  Len(FlattenSeq(RowsOf(Append(part, s), w))) <= Len(FlattenSeq(RowsOf(Append(all, p \o s), w)))
<1> DEFINE few == FlattenSeq(RowsOf(part, w))
           many == FlattenSeq(RowsOf(all, w))
           ps == p \o s
           last == RewrapLogicalLine(s, w)
           longer == RewrapLogicalLine(ps, w)
           T == Line(C)
<1>1. ps \in Seq(C)
  BY ConcatProperties
<1>2. Len(last) <= Len(longer)
  BY MoreBeforeMoreRows
<1> HIDE DEF ps
<1>3. /\ few \in Seq(T) /\ last \in Seq(T)
      /\ FlattenSeq(RowsOf(Append(part, s), w)) = few \o last
  BY OneMoreLine
<1>4. /\ many \in Seq(T) /\ longer \in Seq(T)
      /\ FlattenSeq(RowsOf(Append(all, ps), w)) = many \o longer
  BY <1>1, OneMoreLine
<1> HIDE DEF few, many, last, longer, T
<1>5. Len(few \o last) = Len(few) + Len(last) /\ Len(few) \in Nat /\ Len(last) \in Nat
  BY <1>3, ConcatProperties
<1>6. Len(many \o longer) = Len(many) + Len(longer) /\ Len(many) \in Nat /\ Len(longer) \in Nat
  BY <1>4, ConcatProperties
<1>7. Len(few) <= Len(many)
  BY DEF few, many
<1>8. Len(few \o last) <= Len(many \o longer)
  BY <1>2, <1>5, <1>6, <1>7
<1> QED
  BY <1>3, <1>4, <1>8 DEF ps

(* One more line joins what is collected of both.                          *)
LEMMA BehindJoins ==
  ASSUME NEW C, NEW w \in Nat, NEW part \in Partial(C), NEW all \in Partial(C), NEW line \in Line(C),
         Behind(part, all, w, C)
  PROVE  Behind(Join(part, line), Join(all, line), w, C)
<1>1. /\ part.done \in Seq(Seq(C)) /\ part.current \in Seq(C)
      /\ all.done \in Seq(Seq(C)) /\ all.current \in Seq(C)
      /\ line.cells \in Seq(C) /\ line.wrapped \in BOOLEAN
  BY DEF Partial, Line
<1>2. PICK p \in Seq(C) : all.current = p \o part.current
  BY DEF Behind
<1> DEFINE s == part.current \o line.cells
           ps == all.current \o line.cells
<1>3. s \in Seq(C) /\ ps = p \o s
  <2> DEFINE current == part.current
             cells == line.cells
  <2>1. current \in Seq(C) /\ cells \in Seq(C)
    BY <1>1
  <2>2. s = current \o cells /\ ps = (p \o current) \o cells
    BY <1>2
  <2> HIDE DEF current, cells, s, ps
  <2>3. (p \o current) \o cells = p \o (current \o cells)
    BY <2>1, ConcatAssociative
  <2>4. current \o cells \in Seq(C)
    BY <2>1, ConcatProperties
  <2> QED
    BY <2>2, <2>3, <2>4
<1>4. /\ Join(part, line) = IF line.wrapped THEN [done |-> part.done, current |-> s]
                            ELSE [done |-> Append(part.done, s), current |-> <<>>]
      /\ Join(all, line) = IF line.wrapped THEN [done |-> all.done, current |-> ps]
                           ELSE [done |-> Append(all.done, ps), current |-> <<>>]
  BY DEF Join
<1>5. Len(FlattenSeq(RowsOf(part.done, w))) <= Len(FlattenSeq(RowsOf(all.done, w)))
  BY DEF Behind
<1> HIDE DEF s, ps
<1>6. CASE line.wrapped
  <2> DEFINE x == Join(part, line)
             y == Join(all, line)
  <2>1. x.done = part.done /\ x.current = s /\ y.done = all.done /\ y.current = ps
    BY <1>4, <1>6
  <2> HIDE DEF x, y
  <2>2. Behind(x, y, w, C)
    BY <1>3, <1>5, <2>1 DEF Behind
  <2> QED
    BY <2>2 DEF x, y
<1>7. CASE ~line.wrapped
  <2>1. Len(FlattenSeq(RowsOf(Append(part.done, s), w))) <= Len(FlattenSeq(RowsOf(Append(all.done, ps), w)))
    <3> DEFINE d == part.done
               e == all.done
    <3>1. d \in Seq(Seq(C)) /\ e \in Seq(Seq(C)) /\ p \in Seq(C)
          /\ Len(FlattenSeq(RowsOf(d, w))) <= Len(FlattenSeq(RowsOf(e, w)))
      BY <1>1, <1>2, <1>5
    <3> HIDE DEF d, e
    <3>2. Len(FlattenSeq(RowsOf(Append(d, s), w))) <= Len(FlattenSeq(RowsOf(Append(e, p \o s), w)))
      BY <1>3, <3>1, LineAfterBoth
    <3> QED
      BY <1>3, <3>2 DEF d, e
  <2>2. <<>> \in Seq(C) /\ <<>> = <<>> \o <<>>
    OBVIOUS
  <2> DEFINE x == Join(part, line)
             y == Join(all, line)
  <2>3. /\ x.done = Append(part.done, s) /\ x.current = <<>>
        /\ y.done = Append(all.done, ps) /\ y.current = <<>>
    BY <1>4, <1>7
  <2> HIDE DEF x, y
  <2>4. Behind(x, y, w, C)
    BY <2>1, <2>2, <2>3 DEF Behind
  <2> QED
    BY <2>4 DEF x, y
<1> QED
  BY <1>1, <1>6, <1>7

(* The last lines of a history have no more rows than all of it.           *)
LEMMA LastLinesHaveFewerRows ==
  ASSUME NEW C, NEW h \in Seq(Line(C)), NEW w \in Nat, NEW k \in Nat, NEW e \in Nat, k <= e, e <= Len(h)
  PROVE  Len(Rewrapped(SubSeq(h, k + 1, e), w)) <= Len(Rewrapped(SubSeq(h, 1, e), w))
<1> DEFINE part(m) == SubSeq(h, k + 1, k + m)
           all(m) == SubSeq(h, 1, k + m)
           Good == {m \in 0 .. e - k : Behind(Collected(part(m)), Collected(all(m)), w, C)}
<1>0. [cells |-> <<>>, wrapped |-> FALSE] \in Line(C)
  BY DEF Line
<1>1. \A m \in 0 .. e - k : part(m) \in Seq(Line(C)) /\ all(m) \in Seq(Line(C))
  <2> TAKE m \in 0 .. e - k
  <2>1. k + m <= Len(h) /\ k + m \in Nat
    OBVIOUS
  <2> QED
    BY <2>1
<1>2. ASSUME NEW m \in 1 .. e - k
      PROVE  /\ part(m - 1) \in Seq(Line(C)) /\ all(m - 1) \in Seq(Line(C)) /\ h[k + m] \in Line(C)
             /\ part(m) = Append(part(m - 1), h[k + m]) /\ all(m) = Append(all(m - 1), h[k + m])
  <2> DEFINE n == k + m
  <2>1. /\ k + 1 \in Nat \ {0} /\ 1 \in Nat \ {0} /\ n \in Nat /\ k + 1 <= n /\ 1 <= n /\ n <= Len(h)
        /\ n - 1 = k + (m - 1)
    OBVIOUS
  <2> HIDE DEF n
  <2>2. /\ SubSeq(h, k + 1, n - 1) \in Seq(Line(C)) /\ h[n] \in Line(C)
        /\ SubSeq(h, k + 1, n) = Append(SubSeq(h, k + 1, n - 1), h[n])
    BY <2>1, PartGrows
  <2>3. /\ SubSeq(h, 1, n - 1) \in Seq(Line(C))
        /\ SubSeq(h, 1, n) = Append(SubSeq(h, 1, n - 1), h[n])
    BY <2>1, PartGrows
  <2> QED
    BY <2>1, <2>2, <2>3 DEF n
<1>3. part(0) = <<>> /\ all(e - k) = SubSeq(h, 1, e) /\ part(e - k) = SubSeq(h, k + 1, e)
  <2>1. k + 0 < k + 1 /\ k + (e - k) = e
    OBVIOUS
  <2> QED
    BY <2>1, SubSeqEmpty
<1>4. e - k \in Nat /\ 0 \in 0 .. e - k /\ e - k \in 0 .. e - k
  OBVIOUS
<1> HIDE DEF part, all
<1>5. 0 \in Good
  <2> DEFINE c == Collected(all(0))
  <2>1. Collected(part(0)) = NothingYet
    BY <1>0, <1>1, <1>3, <1>4, CollectedGrows
  <2>2. c \in Partial(C)
    BY <1>0, <1>1, <1>4, CollectedGrows
  <2> HIDE DEF c
  <2>3. c.done \in Seq(Seq(C)) /\ c.current \in Seq(C)
    BY <2>2 DEF Partial
  <2>4. FlattenSeq(RowsOf(<<>>, w)) = <<>>
    <3>1. RowsOf(<<>>, w) = <<>> /\ <<>> \in Seq(Seq(Line(C))) /\ <<>> \in Seq(Line(C))
      BY DEF RowsOf
    <3> QED
      BY <3>1, FlattenGrows
  <2>5. Len(FlattenSeq(RowsOf(c.done, w))) >= 0
    <3> DEFINE x == FlattenSeq(RowsOf(c.done, w))
    <3>1. x \in Seq(Line(C))
      BY <2>3, RowsOfType
    <3> HIDE DEF x
    <3>2. Len(x) >= 0
      BY <3>1
    <3> QED
      BY <3>2 DEF x
  <2>6. c.current = c.current \o <<>>
    BY <2>3, ConcatEmptySeq
  <2>7. NothingYet.done = <<>> /\ NothingYet.current = <<>> /\ Len(<<>>) = 0
    BY DEF NothingYet
  <2>8. Behind(NothingYet, c, w, C)
    BY <2>3, <2>4, <2>5, <2>6, <2>7 DEF Behind
  <2>9. Behind(Collected(part(0)), Collected(all(0)), w, C)
    BY <2>1, <2>8 DEF c
  <2> QED
    BY <1>4, <2>9
<1>6. ASSUME NEW m \in 0 .. e - k, m # 0, m - 1 \in Good PROVE m \in Good
  <2> DEFINE line == h[k + m]
             before == Collected(part(m - 1))
             whole == Collected(all(m - 1))
  <2>1. m \in 1 .. e - k
    BY <1>6
  <2>2. Behind(before, whole, w, C)
    BY <1>6
  <2>3. /\ line \in Line(C) /\ before \in Partial(C) /\ whole \in Partial(C)
        /\ Collected(part(m)) = Join(before, line) /\ Collected(all(m)) = Join(whole, line)
    BY <1>2, <2>1, CollectedGrows
  <2> HIDE DEF line, before, whole, Good
  <2>4. Behind(Collected(part(m)), Collected(all(m)), w, C)
    BY <2>2, <2>3, BehindJoins
  <2> QED
    BY <2>4 DEF Good
<1> HIDE DEF Good
<1>7. 0 .. e - k \subseteq Good
  BY <1>4, <1>5, <1>6, CountingUp
<1> DEFINE n == e - k
           a == Collected(all(n))
           b == Collected(part(n))
<1>8. Behind(b, a, w, C)
  BY <1>4, <1>7 DEF Good
<1>9. b \in Partial(C) /\ a \in Partial(C)
  BY <1>0, <1>1, <1>4, CollectedGrows
<1>10. /\ Rewrapped(SubSeq(h, k + 1, e), w) = FlattenSeq(RowsOf(IF b.current = <<>> THEN b.done ELSE Append(b.done, b.current), w))
       /\ Rewrapped(SubSeq(h, 1, e), w) = FlattenSeq(RowsOf(IF a.current = <<>> THEN a.done ELSE Append(a.done, a.current), w))
  BY <1>3 DEF Rewrapped, RowsOf, GroupLogicalLines
<1> HIDE DEF a, b
<1>11. /\ b.done \in Seq(Seq(C)) /\ b.current \in Seq(C)
       /\ a.done \in Seq(Seq(C)) /\ a.current \in Seq(C)
  BY <1>9 DEF Partial
<1>12. PICK p \in Seq(C) : a.current = p \o b.current
  BY <1>8 DEF Behind
<1> DEFINE F(x) == FlattenSeq(RowsOf(x, w))
<1>13. Len(F(b.done)) <= Len(F(a.done))
  BY <1>8 DEF Behind
<1>14. CASE b.current # <<>>
  <2>1. a.current # <<>>
    BY <1>11, <1>12, <1>14
  <2>2. Len(F(Append(b.done, b.current))) <= Len(F(Append(a.done, a.current)))
    <3> DEFINE d == b.done
               f == a.done
               s == b.current
    <3>1. d \in Seq(Seq(C)) /\ f \in Seq(Seq(C)) /\ s \in Seq(C) /\ Len(FlattenSeq(RowsOf(d, w))) <= Len(FlattenSeq(RowsOf(f, w)))
      BY <1>11, <1>13
    <3>2. a.current = p \o s
      BY <1>12
    <3> HIDE DEF d, f, s
    <3>3. Len(FlattenSeq(RowsOf(Append(d, s), w))) <= Len(FlattenSeq(RowsOf(Append(f, p \o s), w)))
      BY <3>1, LineAfterBoth
    <3> QED
      BY <3>2, <3>3 DEF d, f, s
  <2> HIDE DEF F
  <2> QED
    BY <1>10, <1>14, <2>1, <2>2 DEF F
<1>15. CASE b.current = <<>>
  <2>1. Len(F(a.done)) <= Len(F(Append(a.done, a.current)))
    <3> DEFINE x == F(a.done)
               y == RewrapLogicalLine(a.current, w)
    <3>1. x \in Seq(Line(C)) /\ y \in Seq(Line(C)) /\ F(Append(a.done, a.current)) = x \o y
      <4> DEFINE d == a.done
                 s == a.current
      <4>1. d \in Seq(Seq(C)) /\ s \in Seq(C) /\ w \in Nat
        BY <1>11
      <4> HIDE DEF d, s
      <4>2. /\ FlattenSeq(RowsOf(d, w)) \in Seq(Line(C))
            /\ RewrapLogicalLine(s, w) \in Seq(Line(C))
            /\ FlattenSeq(RowsOf(Append(d, s), w)) = FlattenSeq(RowsOf(d, w)) \o RewrapLogicalLine(s, w)
        BY ONLY <4>1, OneMoreLine
      <4> QED
        BY ONLY <4>2 DEF d, s
    <3> HIDE DEF x, y
    <3>2. Len(x) <= Len(x \o y)
      BY <3>1, ConcatProperties
    <3> QED
      BY <3>1, <3>2 DEF x
  <2>2. Len(F(a.done)) \in Nat /\ Len(F(b.done)) \in Nat /\ Len(F(Append(a.done, a.current))) \in Nat
    <3>1. \A x \in Seq(Seq(C)) : F(x) \in Seq(Line(C))
      BY RowsOfType
    <3>2. Append(a.done, a.current) \in Seq(Seq(C))
      BY <1>11
    <3> HIDE DEF F
    <3> QED
      BY <1>11, <3>1, <3>2
  <2>3. Rewrapped(SubSeq(h, k + 1, e), w) = F(b.done)
    BY <1>10, <1>15
  <2>4. \/ Rewrapped(SubSeq(h, 1, e), w) = F(a.done)
        \/ Rewrapped(SubSeq(h, 1, e), w) = F(Append(a.done, a.current))
    BY <1>10
  <2> HIDE DEF F
  <2> QED
    BY <1>13, <2>1, <2>2, <2>3, <2>4
<1> QED
  BY <1>14, <1>15

(* What is read of the history doubles.                                    *)
LEMMA ReadsGrow ==
  ASSUME NEW want \in Nat, NEW most \in Nat
  PROVE  \A k \in 0 .. most : ReadSizes(want, most)[k] \in Nat /\ k + 1 <= ReadSizes(want, most)[k]
<1> DEFINE S == Nat
           start == FirstRead(want)
           step == [i \in 1 .. most |-> [x \in Nat |-> 2 * x]]
           Solves(f) == f = [k \in 0 .. most |-> IF k = 0 THEN FirstRead(want) ELSE 2 * f[k - 1]]
           c == CHOOSE f : Solves(f)
<1>1. start \in S /\ step \in [1 .. most -> [S -> S]] /\ start >= 1
      /\ \A i \in 1 .. most, x \in Nat : step[i][x] = 2 * x
  BY DEF FirstRead
<1> HIDE DEF step, start
<1>2. PICK f : Steps(f, most, S, start, step)
  <2> HIDE DEF S
  <2> QED
    BY <1>1, Recursion, Zenon
<1>3. f \in [0 .. most -> Nat] /\ f[0] = start /\ \A i \in 1 .. most : f[i] = step[i][f[i - 1]]
  BY <1>2 DEF Steps
<1>4. ASSUME NEW k \in 0 .. most PROVE f[k] = IF k = 0 THEN start ELSE 2 * f[k - 1]
  <2>1. k # 0 => k \in 1 .. most /\ k - 1 \in 0 .. most
    OBVIOUS
  <2>2. k # 0 => f[k - 1] \in Nat
    BY <1>3, <2>1
  <2> QED
    BY <1>1, <1>3, <2>1, <2>2
<1>5. Solves(f)
  BY <1>3, <1>4 DEF start
<1>6. Solves(c)
  <2> HIDE DEF Solves
  <2> QED
    BY <1>5, Zenon
<1>7. ReadSizes(want, most) = c
  BY Zenon DEF ReadSizes
<1> HIDE DEF c
<1>8. \A k \in 0 .. most : c[k] = IF k = 0 THEN start ELSE 2 * c[k - 1]
  BY <1>6, Zenon DEF start
<1> DEFINE Good == {k \in 0 .. most : c[k] \in Nat /\ k + 1 <= c[k]}
<1>9. 0 \in Good
  BY <1>1, <1>8
<1>10. ASSUME NEW k \in 0 .. most, k # 0, k - 1 \in Good PROVE k \in Good
  <2>1. c[k - 1] \in Nat /\ k - 1 + 1 <= c[k - 1] /\ c[k] = 2 * c[k - 1]
    BY <1>8, <1>10
  <2>2. c[k] \in Nat /\ k + 1 <= c[k]
    BY <1>10, <2>1
  <2> QED
    BY <2>2
<1> HIDE DEF Good
<1>11. 0 .. most \subseteq Good
  BY <1>9, <1>10, CountingUp
<1> QED
  BY <1>7, <1>11 DEF Good

(* What is read in the end is enough: all lines, or as many rows as asked. *)
LEMMA EnoughIsRead ==
  ASSUME NEW history, NEW width, NEW want \in Nat, NEW end \in Nat
  PROVE  \E n \in Nat : /\ ReadSize(history, width, want, end) = n
                        /\ \/ n >= end
                           \/ Len(Rewrapped(SubSeq(history, end - n + 1, end), width)) >= want
<1> DEFINE size == ReadSizes(want, end)
           Suffices(n) == \/ n >= end
                          \/ Len(Rewrapped(SubSeq(history, end - n + 1, end), width)) >= want
           Enough(k) == Suffices(size[k])
           First(k) == Enough(k) /\ \A j \in 0 .. k - 1 : ~Enough(j)
           c == CHOOSE k \in 0 .. end : First(k)
<1>1. \A k \in 0 .. end : size[k] \in Nat /\ k + 1 <= size[k]
  BY ReadsGrow
<1>2. ReadSize(history, width, want, end) = size[c]
  BY Zenon DEF ReadSize
<1> HIDE DEF size
<1>3. Enough(end)
  BY <1>1
<1> HIDE DEF Suffices
<1>4. \E k \in 0 .. end : First(k)
  <2> DEFINE Which == {k \in 0 .. end : Enough(k)}
  <2>1. end \in Which /\ Which \in SUBSET Nat
    BY <1>3
  <2> HIDE DEF Which
  <2>2. PICK k \in Which : \A j \in Which : k <= j
    BY <2>1, LeastNumber
  <2>3. k \in 0 .. end /\ Enough(k)
    BY DEF Which
  <2>4. \A j \in 0 .. k - 1 : j \in 0 .. end /\ ~(k <= j)
    BY <2>3
  <2>5. \A j \in 0 .. k - 1 : ~Enough(j)
    BY <2>2, <2>4 DEF Which
  <2> QED
    BY <2>3, <2>5
<1>5. c \in 0 .. end /\ First(c)
  <2> HIDE DEF First
  <2> QED
    BY <1>4, Zenon
<1> HIDE DEF c
<1>6. size[c] \in Nat /\ Suffices(size[c])
  BY <1>1, <1>5
<1> QED
  BY <1>2, <1>6 DEF Suffices

(* The last rows of a sequence of rows.                                    *)
LEMMA TailIs ==
  ASSUME NEW S, NEW s \in Seq(S), NEW n \in Nat
  PROVE  Tail_(s, n) \in Seq(S) /\ Len(Tail_(s, n)) = Smaller(n, Len(s))
<1> DEFINE l == Len(s)
           m == Smaller(n, l)
<1>1. l \in Nat /\ m \in 0 .. l
  BY DEF Smaller
<1>2. Tail_(s, n) = SubSeq(s, l - m + 1, l)
  BY DEF Tail_
<1> HIDE DEF m
<1>3. SubSeq(s, l - m + 1, l) \in Seq(S) /\ Len(SubSeq(s, l - m + 1, l)) = m
  BY <1>1
<1> QED
  BY <1>2, <1>3 DEF m

(* A window has the rows asked for, or all that there are.                 *)
LEMMA WindowIsFull ==
  ASSUME NEW C, NEW h \in Seq(Line(C)), NEW w \in Nat, NEW want \in Nat, NEW e \in 0 .. Len(h)
  PROVE  /\ Rewrapped(SubSeq(h, 1, e), w) \in Seq(Line(C))
         /\ HistoryWindow(h, w, want, e) \in Seq(Line(C))
         /\ Len(HistoryWindow(h, w, want, e)) = Smaller(want, Len(Rewrapped(SubSeq(h, 1, e), w)))
<1> DEFINE all == Rewrapped(SubSeq(h, 1, e), w)
           window == HistoryWindow(h, w, want, e)
<1>1. \A k \in 0 .. e : Rewrapped(SubSeq(h, k + 1, e), w) \in Seq(Line(C))
  <2> TAKE k \in 0 .. e
  <2> DEFINE part == SubSeq(h, k + 1, e)
             logical == GroupLogicalLines(part)
  <2>1. part \in Seq(Line(C))
    OBVIOUS
  <2> HIDE DEF part
  <2>2. logical \in Seq(Seq(C))
    BY <2>1, LogicalLines
  <2>3. Rewrapped(part, w) = FlattenSeq(RowsOf(logical, w))
    BY DEF Rewrapped, RowsOf
  <2> HIDE DEF logical
  <2>4. Rewrapped(part, w) \in Seq(Line(C))
    BY <2>2, <2>3, RowsOfType
  <2> QED
    BY <2>4 DEF part
<1>2. all \in Seq(Line(C)) /\ Len(all) \in Nat
  <2>1. 0 \in 0 .. e /\ 0 + 1 = 1
    OBVIOUS
  <2>2. all \in Seq(Line(C))
    BY <1>1, <2>1
  <2> HIDE DEF all
  <2> QED
    BY <2>2
<1>3. CASE want = 0
  <2>1. window = <<>>
    BY <1>3 DEF HistoryWindow
  <2> HIDE DEF all, window
  <2>2. Smaller(want, Len(all)) = 0
    BY <1>2, <1>3 DEF Smaller
  <2>3. window \in Seq(Line(C)) /\ Len(window) = 0
    BY <2>1
  <2> QED
    BY <1>2, <2>2, <2>3 DEF all, window
<1>4. CASE e = 0
  <2>1. window = <<>>
    BY <1>4 DEF HistoryWindow
  <2>2. SubSeq(h, 1, e) = <<>>
    BY <1>4, SubSeqEmpty
  <2>3. all = <<>>
    <3>0. [cells |-> <<>>, wrapped |-> FALSE] \in Line(C) /\ <<>> \in Seq(Line(C))
      BY DEF Line
    <3>1. Collected(<<>>) = NothingYet
      BY <3>0, CollectedGrows
    <3>2. GroupLogicalLines(<<>>) = <<>>
      BY <3>1 DEF GroupLogicalLines, NothingYet
    <3>3. RowsOf(<<>>, w) = <<>>
      BY DEF RowsOf
    <3>4. Rewrapped(<<>>, w) = FlattenSeq(<<>>)
      BY <3>2, <3>3 DEF Rewrapped, RowsOf
    <3>5. <<>> \in Seq(Seq(Line(C)))
      OBVIOUS
    <3>6. FlattenSeq(<<>>) = <<>>
      BY <3>0, <3>5, FlattenGrows
    <3> QED
      BY <2>2, <3>4, <3>6
  <2> HIDE DEF all, window
  <2>4. window \in Seq(Line(C)) /\ Len(window) = 0 /\ Len(all) = 0
    BY <2>1, <2>3
  <2>5. Smaller(want, Len(all)) = 0
    BY <2>4 DEF Smaller
  <2> QED
    BY <1>2, <2>4, <2>5 DEF all, window
<1>5. CASE want # 0 /\ e # 0
  <2>1. PICK n \in Nat :
          /\ ReadSize(h, w, want, e) = n
          /\ \/ n >= e
             \/ Len(Rewrapped(SubSeq(h, e - n + 1, e), w)) >= want
    BY EnoughIsRead
  <2> DEFINE k == Monus(e, n)
             read == Rewrapped(SubSeq(h, k + 1, e), w)
  <2>2. window = Tail_(read, want)
    BY <1>5, <2>1, Zenon DEF HistoryWindow
  <2>3. k \in 0 .. e /\ (n >= e => k = 0) /\ (~(n >= e) => k = e - n)
    BY DEF Monus
  <2>4. read \in Seq(Line(C))
    BY <1>1, <2>3
  <2>5. Len(read) <= Len(all)
    <3>1. k \in Nat /\ e \in Nat /\ k <= e /\ e <= Len(h)
      BY <2>3
    <3> HIDE DEF k
    <3> QED
      BY <3>1, LastLinesHaveFewerRows
  <2>6. k = 0 => read = all
    OBVIOUS
  <2>7. k # 0 => Len(read) >= want
    <3>1. k # 0 => ~(n >= e)
      BY <2>3
    <3>2. k # 0 => read = Rewrapped(SubSeq(h, e - n + 1, e), w)
      BY <2>3, <3>1
    <3> HIDE DEF k, read
    <3> QED
      BY <2>1, <3>1, <3>2
  <2> HIDE DEF k, read, window, all
  <2>8. window \in Seq(Line(C)) /\ Len(window) = Smaller(want, Len(read)) /\ Len(read) \in Nat
    BY <2>2, <2>4, TailIs
  <2>9. Smaller(want, Len(read)) = Smaller(want, Len(all))
    BY <1>2, <2>5, <2>6, <2>7, <2>8 DEF Smaller
  <2> QED
    BY <1>2, <2>8, <2>9 DEF window, all
<1> QED
  BY <1>3, <1>4, <1>5

-----------------------------------------------------------------------------
(* The frame.                                                              *)

(* Rows of n cells.                                                        *)
Screens(S, n) == Seq({row \in Seq(S) : Len(row) = n})

(* A row cut or filled to n cells has n cells.                             *)
LEMMA FitFits ==
  ASSUME NEW C, NEW cells \in Seq(C), NEW n \in Nat
  PROVE  Fit(cells, n) \in {row \in Seq(C \union {Blank}) : Len(row) = n}
<1>1. \A x \in 1 .. n : IF x <= Len(cells) THEN cells[x] \in C ELSE TRUE
  OBVIOUS
<1>2. \A x \in 1 .. n : (IF x <= Len(cells) THEN cells[x] ELSE Blank) \in C \union {Blank}
  BY <1>1
<1>3. Fit(cells, n) \in Seq(C \union {Blank}) /\ Len(Fit(cells, n)) = n
  BY <1>2 DEF Fit
<1> QED
  BY <1>3

(* Rows short of a screen are made up for by rows above.                   *)
LEMMA PaddedFills ==
  ASSUME NEW C, NEW rows \in Nat, NEW cols \in Nat, NEW shown \in Screens(C \union {Blank}, cols),
         Len(shown) <= rows
  PROVE  /\ Padded(shown, rows, cols) \in Screens(C \union {Blank}, cols)
         /\ Len(Padded(shown, rows, cols)) = rows
<1> DEFINE R == {row \in Seq(C \union {Blank}) : Len(row) = cols}
           n == Monus(rows, Len(shown))
           above == [i \in 1 .. n |-> Fit(<<>>, cols)]
<1>1. shown \in Seq(R)
  BY DEF Screens
<1>2. Fit(<<>>, cols) \in R
  <2>1. <<>> \in Seq(C)
    OBVIOUS
  <2> QED
    BY <2>1, FitFits
<1> HIDE DEF R
<1>3. Len(shown) \in Nat /\ n \in Nat /\ n + Len(shown) = rows
  BY <1>1 DEF Monus
<1> HIDE DEF n
<1>4. above \in Seq(R) /\ Len(above) = n
  BY <1>2, <1>3
<1>5. Padded(shown, rows, cols) = above \o shown
  BY DEF Padded, n
<1> HIDE DEF above
<1>6. above \o shown \in Seq(R) /\ Len(above \o shown) = n + Len(shown)
  BY <1>1, <1>4, ConcatProperties
<1> QED
  BY <1>3, <1>5, <1>6 DEF Screens, R

(* Scrolled back by whatever, rows and columns are those of the screen.    *)
LEMMA ScrolledFills ==
  ASSUME NEW C, NEW history \in Seq(Line(C)), NEW rows \in Nat, NEW cols \in Nat, NEW offset \in Nat,
         NEW grid \in Screens(C, cols), Len(grid) = rows
  PROVE  /\ ScrolledRows(history, grid, rows, cols, offset) \in Screens(C \union {Blank}, cols)
         /\ Len(ScrolledRows(history, grid, rows, cols, offset)) = rows
<1> DEFINE D == C \union {Blank}
           R == {row \in Seq(D) : Len(row) = cols}
           total == Len(history)
           bottom == Monus(total + rows, offset)
           top == Monus(bottom, rows)
           end == Smaller(bottom, total)
           past == IF top < total THEN HistoryWindow(history, cols, end - top, end) ELSE <<>>
           live == IF bottom > total
                   THEN SubSeq(grid, Monus(top, total) + 1, Smaller(bottom - total, rows))
                   ELSE <<>>
           fitted == [i \in 1 .. Len(past) |-> Fit(past[i].cells, cols)]
<1>1. ScrolledRows(history, grid, rows, cols, offset) = Padded(fitted \o live, rows, cols)
  BY Zenon DEF ScrolledRows
<1>2. /\ total \in Nat /\ bottom \in 0 .. total + rows /\ top \in 0 .. bottom
      /\ bottom <= top + rows
  BY DEF Monus
<1>3. /\ end \in 0 .. total /\ end <= bottom
      /\ ~(bottom > total) => end = bottom
      /\ bottom > total => end = total
  BY <1>2 DEF Smaller
<1>4. bottom <= rows + total /\ (bottom > total => /\ Smaller(bottom - total, rows) = bottom - total
                                                   /\ bottom - total <= rows /\ bottom - total \in Nat)
  BY <1>2 DEF Smaller
<1>5. Monus(top, total) \in Nat /\ (top < total => Monus(top, total) = 0)
      /\ (~(top < total) => Monus(top, total) = top - total)
  BY <1>2 DEF Monus
<1> DEFINE skip == Monus(top, total)
           some == Smaller(bottom - total, rows)
<1> HIDE DEF total, bottom, top, end, skip, some
<1>6. past \in Seq(Line(C)) /\ Len(past) \in Nat /\ Len(past) <= (IF top < total THEN end - top ELSE 0)
  <2>1. CASE ~(top < total)
    <3>1. past = <<>>
      BY <2>1
    <3> HIDE DEF past
    <3> QED
      BY <2>1, <3>1
  <2>2. CASE top < total
    <3>1. end - top \in Nat
      BY <1>2, <1>3, <2>2
    <3> DEFINE want == end - top
               all == Rewrapped(SubSeq(history, 1, end), cols)
    <3>2. past = HistoryWindow(history, cols, want, end)
      BY <2>2
    <3>3. end \in 0 .. Len(history) /\ want \in Nat
      BY <1>3, <3>1 DEF total
    <3> HIDE DEF want, past
    <3>4. all \in Seq(Line(C)) /\ past \in Seq(Line(C)) /\ Len(past) = Smaller(want, Len(all))
      BY <3>2, <3>3, WindowIsFull
    <3> HIDE DEF all
    <3>5. Len(past) \in Nat /\ Len(past) <= want
      BY <3>3, <3>4 DEF Smaller
    <3> QED
      BY <2>2, <3>4, <3>5 DEF want
  <2> QED
    BY <2>1, <2>2
<1>7. live \in Seq(R) /\ Len(live) \in Nat /\ Len(live) <= (IF bottom > total THEN bottom - total - skip ELSE 0)
  <2>0. \A y \in 1 .. Len(grid) : grid[y] \in R
    <3>1. \A y \in 1 .. Len(grid) : grid[y] \in {row \in Seq(C) : Len(row) = cols}
      BY DEF Screens
    <3> QED
      BY <3>1
  <2>1. grid \in Seq(R)
    <3>1. grid \in Seq(Seq(C))
      BY DEF Screens
    <3> HIDE DEF R
    <3> QED
      BY <2>0, <3>1, SeqDef
  <2> HIDE DEF R
  <2>2. CASE ~(bottom > total)
    <3>1. live = <<>>
      BY <2>2
    <3> HIDE DEF live
    <3> QED
      BY <2>2, <3>1
  <2>3. CASE bottom > total
    <3>1. /\ live = SubSeq(grid, skip + 1, some) /\ some = bottom - total
          /\ some \in Nat /\ skip \in Nat /\ some <= Len(grid) /\ skip <= some
      <4>1. live = SubSeq(grid, skip + 1, some)
        BY <2>3 DEF skip, some
      <4>2. some = bottom - total /\ some \in Nat /\ some <= Len(grid)
        BY <1>4, <2>3 DEF some
      <4>3. skip \in Nat /\ skip <= bottom - total
        BY <1>2, <1>5, <2>3 DEF skip
      <4> QED
        BY <4>1, <4>2, <4>3
    <3> HIDE DEF live
    <3>2. live \in Seq(R) /\ Len(live) = some - skip
      BY <2>1, <3>1
    <3> QED
      BY <2>3, <3>1, <3>2
  <2> QED
    BY <2>2, <2>3
<1> HIDE DEF past, live
<1>8. fitted \in Seq(R) /\ Len(fitted) = Len(past)
  <2>1. \A i \in 1 .. Len(past) : Fit(past[i].cells, cols) \in R
    <3> TAKE i \in 1 .. Len(past)
    <3> DEFINE line == past[i]
    <3>1. line \in Line(C)
      BY <1>6
    <3> HIDE DEF line
    <3>2. line.cells \in Seq(C)
      BY <3>1 DEF Line
    <3> QED
      BY <3>2, FitFits DEF line
  <2> HIDE DEF R
  <2> QED
    BY <1>6, <2>1
<1> HIDE DEF fitted, R
<1> DEFINE shown == fitted \o live
<1>9. shown \in Seq(R) /\ Len(shown) = Len(fitted) + Len(live)
  BY <1>7, <1>8, ConcatProperties
<1> HIDE DEF shown
<1>10. Len(shown) <= rows
  <2>1. skip \in Nat /\ (top < total => skip = 0) /\ (~(top < total) => skip = top - total)
    BY <1>5 DEF skip
  <2> DEFINE p == Len(past)
             q == Len(live)
  <2>2. Len(shown) = p + q
    BY <1>8, <1>9
  <2> HIDE DEF p, q
  <2> QED
    BY <1>2, <1>3, <1>6, <1>7, <2>1, <2>2 DEF p, q
<1>11. shown \in Screens(D, cols)
  BY <1>9 DEF Screens, R
<1>12. Padded(shown, rows, cols) \in Screens(D, cols) /\ Len(Padded(shown, rows, cols)) = rows
  <2>1. rows \in Nat /\ cols \in Nat
    OBVIOUS
  <2> QED
    BY ONLY <1>10, <1>11, <2>1, PaddedFills DEF D
<1> QED
  BY <1>1, <1>12 DEF shown

(* m elements, and n behind them.                                          *)
Joined(x, s, t, m, n) ==
  /\ Len(x) = m + n
  /\ \A i \in 1 .. m : x[i] = s[i]
  /\ \A i \in 1 .. n : x[m + i] = t[i]

(* Such are two sequences in a row.                                        *)
LEMMA BothAre ==
  ASSUME NEW S, NEW s \in Seq(S), NEW t \in Seq(S), NEW m, NEW n, m = Len(s), n = Len(t)
  PROVE  s \o t \in Seq(S) /\ Joined(s \o t, s, t, m, n)
<1>1. m \in Nat /\ n \in Nat
  OBVIOUS
<1>2. /\ s \o t \in Seq(S) /\ Len(s \o t) = m + n
      /\ \A i \in 1 .. m + n : (s \o t)[i] = IF i <= m THEN s[i] ELSE t[i - m]
  BY ConcatProperties
<1>3. ASSUME NEW i \in 1 .. m PROVE (s \o t)[i] = s[i]
  <2>1. i \in 1 .. m + n /\ i <= m
    BY <1>1
  <2> QED
    BY <1>2, <2>1
<1>4. ASSUME NEW i \in 1 .. n PROVE (s \o t)[m + i] = t[i]
  <2>1. m + i \in 1 .. m + n /\ ~(m + i <= m) /\ (m + i) - m = i
    BY <1>1
  <2> QED
    BY <1>2, <2>1
<1> QED
  BY <1>2, <1>3, <1>4 DEF Joined

(* What a part of a sequence has in each place.                            *)
LEMMA PartIs ==
  ASSUME NEW S, NEW s \in Seq(S), NEW i \in Nat, NEW n \in Nat, i + n <= Len(s)
  PROVE  /\ SubSeq(s, i + 1, i + n) \in Seq(S) /\ Len(SubSeq(s, i + 1, i + n)) = n
         /\ \A k \in 1 .. n : SubSeq(s, i + 1, i + n)[k] = s[i + k]
<1>1. SubSeq(s, i + 1, i + n) \in Seq(S)
  OBVIOUS
<1>2. Len(SubSeq(s, i + 1, i + n)) = n
  OBVIOUS
<1>3. ASSUME NEW k \in 1 .. n PROVE SubSeq(s, i + 1, i + n)[k] = s[i + k]
  OBVIOUS
<1> QED
  BY <1>1, <1>2, <1>3

(* A part is the sequence that has the same in each place.                 *)
SameFrom(s, i, n, t) == \A k \in 1 .. n : s[i + k] = t[k]

(* A part is known by its elements.                                        *)
LEMMA PartIsThis ==
  ASSUME NEW S, NEW s \in Seq(S), NEW i \in Nat, NEW n \in Nat, i + n <= Len(s),
         NEW t \in Seq(S), Len(t) = n, SameFrom(s, i, n, t)
  PROVE  SubSeq(s, i + 1, i + n) = t
<1> DEFINE part == SubSeq(s, i + 1, i + n)
<1>1. part \in Seq(S) /\ Len(part) = n /\ \A k \in 1 .. n : part[k] = s[i + k]
  BY PartIs
<1> HIDE DEF part
<1>2. \A k \in 1 .. n : part[k] = t[k]
  BY <1>1 DEF SameFrom
<1>3. part = t
  BY <1>1, <1>2, SeqEqual
<1> QED
  BY <1>3 DEF part

-----------------------------------------------------------------------------
(* The forms of a line.                                                    *)

(* Five bits are read where they were written.                             *)
LEMMA FiveBits ==
  ASSUME NEW v \in 0 .. 1, NEW w \in 0 .. 1, NEW x \in 0 .. 1, NEW y \in 0 .. 1, NEW z \in 0 .. 1,
         NEW n, n = v + 2 * w + 4 * x + 8 * y + 16 * z
  PROVE  /\ n \in 0 .. 31
         /\ (n \div 1) % 2 = v /\ (n \div 2) % 2 = w /\ (n \div 4) % 2 = x
         /\ (n \div 8) % 2 = y /\ (n \div 16) % 2 = z
<1>1. n \in 0 .. 31
  OBVIOUS
<1>2. (n \div 1) % 2 = v
  OBVIOUS
<1>3. (n \div 2) % 2 = w
  OBVIOUS
<1>4. (n \div 4) % 2 = x
  OBVIOUS
<1>5. (n \div 8) % 2 = y
  OBVIOUS
<1>6. (n \div 16) % 2 = z
  OBVIOUS
<1> QED
  BY <1>1, <1>2, <1>3, <1>4, <1>5, <1>6

(* Attributes come back from their bits.                                   *)
LEMMA BitsAreAttributes ==
  ASSUME NEW attrs \in SUBSET Attrs
  PROVE  ToBits(attrs) \in 0 .. 31 /\ FromBits(ToBits(attrs)) = attrs
<1> DEFINE In(a) == IF a \in attrs THEN 1 ELSE 0
           v == In("bold")
           w == In("italic")
           x == In("underline")
           y == In("reverse")
           z == In("strikethrough")
           n == ToBits(attrs)
<1>1. v \in 0 .. 1 /\ w \in 0 .. 1 /\ x \in 0 .. 1 /\ y \in 0 .. 1 /\ z \in 0 .. 1
  OBVIOUS
<1>2. /\ Bit["bold"] = 1 /\ Bit["italic"] = 2 /\ Bit["underline"] = 4
      /\ Bit["reverse"] = 8 /\ Bit["strikethrough"] = 16
  BY DEF Bit
<1>3. n = v + 2 * w + 4 * x + 8 * y + 16 * z
  BY <1>2 DEF ToBits
<1> HIDE DEF n, v, w, x, y, z
<1>4. /\ n \in 0 .. 31
      /\ (n \div 1) % 2 = v /\ (n \div 2) % 2 = w /\ (n \div 4) % 2 = x
      /\ (n \div 8) % 2 = y /\ (n \div 16) % 2 = z
  BY <1>1, <1>3, FiveBits
<1>5. /\ "bold" \in attrs <=> (n \div Bit["bold"]) % 2 = 1
      /\ "italic" \in attrs <=> (n \div Bit["italic"]) % 2 = 1
      /\ "underline" \in attrs <=> (n \div Bit["underline"]) % 2 = 1
      /\ "reverse" \in attrs <=> (n \div Bit["reverse"]) % 2 = 1
      /\ "strikethrough" \in attrs <=> (n \div Bit["strikethrough"]) % 2 = 1
  BY <1>2, <1>4 DEF v, w, x, y, z
<1>6. \A a \in Attrs : a \in attrs <=> (n \div Bit[a]) % 2 = 1
  BY <1>5 DEF Attrs
<1>7. FromBits(n) = attrs
  BY <1>6 DEF FromBits
<1> QED
  BY <1>4, <1>7 DEF n

(* A colour comes back from its four bytes.                                *)
LEMMA ColorsComeBack ==
  ASSUME NEW c \in Color
  PROVE  /\ WriteColor(c) \in Seq(0 .. 255) /\ Len(WriteColor(c)) = 4
         /\ ReadColor(WriteColor(c)) = c
<1>1. c \in Seq(0 .. 255) /\ (Len(c) = 0 \/ Len(c) = 1 \/ Len(c) = 3)
  BY DEF Color
<1>2. CASE Len(c) = 0
  <2>1. c = <<>> /\ WriteColor(c) = <<0, 0, 0, 0>>
    BY <1>1, <1>2 DEF WriteColor
  <2>2. <<0, 0, 0, 0>> \in Seq(0 .. 255) /\ Len(<<0, 0, 0, 0>>) = 4 /\ ReadColor(<<0, 0, 0, 0>>) = <<>>
    BY DEF ReadColor
  <2> QED
    BY <2>1, <2>2
<1>3. CASE Len(c) = 1
  <2> DEFINE x == c[1]
             s == <<1, x, 0, 0>>
  <2>1. x \in 0 .. 255 /\ c = <<x>> /\ WriteColor(c) = s
    <3>1. x \in 0 .. 255
      <4>1. 1 \in 1 .. Len(c)
        BY <1>3
      <4> QED
        BY <1>1, <4>1, ElementOfSeq
    <3>2. WriteColor(c) = s
      BY <1>3 DEF WriteColor
    <3>3. c = <<x>>
      <4>1. Len(<<x>>) = 1 /\ <<x>>[1] = x /\ <<x>> \in Seq(0 .. 255)
        BY <3>1
      <4>2. \A i \in 1 .. 1 : c[i] = <<x>>[i]
        OBVIOUS
      <4> QED
        BY <1>1, <1>3, <4>1, <4>2, SeqEqual
    <3> QED
      BY <3>1, <3>2, <3>3
  <2> HIDE DEF x
  <2>2. s \in Seq(0 .. 255) /\ Len(s) = 4 /\ ReadColor(s) = <<x>>
    BY <2>1 DEF ReadColor
  <2> QED
    BY <2>1, <2>2
<1>4. CASE Len(c) = 3
  <2> DEFINE s == <<2>> \o c
  <2>1. WriteColor(c) = s
    BY <1>1, <1>4 DEF WriteColor
  <2>2. <<2>> \in Seq(0 .. 255) /\ Len(<<2>>) = 1
    OBVIOUS
  <2>3. /\ s \in Seq(0 .. 255) /\ Len(s) = 4 /\ s[1] = 2
        /\ \A i \in 1 .. 3 : s[i + 1] = c[i]
    <3> DEFINE p == <<2>>
    <3>1. p \in Seq(0 .. 255) /\ 1 = Len(p) /\ 3 = Len(c) /\ p[1] = 2
      BY <1>4, <2>2
    <3> HIDE DEF p
    <3>2. p \o c \in Seq(0 .. 255) /\ Joined(p \o c, p, c, 1, 3)
      BY <1>1, <3>1, BothAre
    <3>3. s = p \o c
      BY DEF p
    <3> HIDE DEF s
    <3> QED
      BY <3>1, <3>2, <3>3 DEF Joined
  <2> HIDE DEF s
  <2>4. ReadColor(s) = SubSeq(s, 2, 4)
    BY <2>3 DEF ReadColor
  <2>6. SubSeq(s, 2, 4) = c
    <3>1. /\ 1 + 3 <= Len(s) /\ Len(c) = 3 /\ 1 \in Nat /\ 3 \in Nat /\ 2 = 1 + 1 /\ 4 = 1 + 3
          /\ SameFrom(s, 1, 3, c)
      BY <1>4, <2>3 DEF SameFrom
    <3>2. SubSeq(s, 1 + 1, 1 + 3) = c
      BY <1>1, <2>3, <3>1, PartIsThis
    <3> QED
      BY <3>1, <3>2
  <2> QED
    BY <2>1, <2>3, <2>4, <2>6
<1> QED
  BY <1>1, <1>2, <1>3, <1>4

(* The four parts of a record of ten.                                      *)
LEMMA PartsOfTen ==
  ASSUME NEW U, NEW a \in U, NEW b \in Seq(U), Len(b) = 4, NEW c \in Seq(U), Len(c) = 4, NEW d \in U
  PROVE  LET s == <<a>> \o b \o c \o <<d>>
         IN  /\ s \in Seq(U) /\ Len(s) = 10 /\ s[1] = a /\ s[10] = d
             /\ SubSeq(s, 2, 5) = b /\ SubSeq(s, 6, 9) = c
<1> DEFINE p == <<a>>
           q == p \o b
           r == q \o c
           t == <<d>>
           s == r \o t
<1>1. p \in Seq(U) /\ Len(p) = 1 /\ p[1] = a /\ t \in Seq(U) /\ Len(t) = 1 /\ t[1] = d
  OBVIOUS
<1> HIDE DEF p, t
<1>2. q \in Seq(U) /\ Joined(q, p, b, 1, 4)
  BY <1>1, BothAre
<1> HIDE DEF q
<1>3. r \in Seq(U) /\ Joined(r, q, c, 5, 4)
  <2>1. Len(q) = 5
    BY <1>2 DEF Joined
  <2> QED
    BY <1>2, <2>1, BothAre
<1> HIDE DEF r
<1>4. s \in Seq(U) /\ Joined(s, r, t, 9, 1)
  <2>1. Len(r) = 9
    BY <1>3 DEF Joined
  <2> QED
    BY <1>1, <1>3, <2>1, BothAre
<1> HIDE DEF s
<1>0. /\ Len(s) = 10 /\ (\A i \in 1 .. 9 : s[i] = r[i]) /\ s[9 + 1] = t[1]
      /\ (\A i \in 1 .. 5 : r[i] = q[i]) /\ \A i \in 1 .. 4 : r[5 + i] = c[i]
      /\ q[1] = p[1] /\ \A i \in 1 .. 4 : q[1 + i] = b[i]
  BY <1>2, <1>3, <1>4 DEF Joined
<1>5. s[1] = a /\ s[10] = d
  <2>1. s[1] = r[1] /\ r[1] = q[1] /\ q[1] = p[1] /\ s[9 + 1] = t[1] /\ 9 + 1 = 10
    BY <1>0
  <2> QED
    BY <1>1, <2>1
<1>6. \A i \in 1 .. 4 : s[1 + i] = b[i] /\ s[5 + i] = c[i]
  <2> TAKE i \in 1 .. 4
  <2>1. 1 + i \in 1 .. 5 /\ 1 + i \in 1 .. 9 /\ 5 + i \in 1 .. 9
    OBVIOUS
  <2> QED
    BY <1>0, <2>1
<1>9. SubSeq(s, 2, 5) = b
  <2>1. 1 + 4 <= Len(s) /\ 1 \in Nat /\ 4 \in Nat /\ 2 = 1 + 1 /\ 5 = 1 + 4
        /\ SameFrom(s, 1, 4, b)
    BY <1>0, <1>6 DEF SameFrom
  <2>2. SubSeq(s, 1 + 1, 1 + 4) = b
    BY <1>4, <2>1, PartIsThis
  <2> QED
    BY <2>1, <2>2
<1>10. SubSeq(s, 6, 9) = c
  <2>1. 5 + 4 <= Len(s) /\ 5 \in Nat /\ 4 \in Nat /\ 6 = 5 + 1 /\ 9 = 5 + 4
        /\ SameFrom(s, 5, 4, c)
    BY <1>0, <1>6 DEF SameFrom
  <2>2. SubSeq(s, 5 + 1, 5 + 4) = c
    BY <1>4, <2>1, PartIsThis
  <2> QED
    BY <2>1, <2>2
<1> QED
  BY <1>0, <1>4, <1>5, <1>9, <1>10 DEF s, r, q, p, t

(* A cell comes back from its record.                                      *)
LEMMA CellsComeBack ==
  ASSUME NEW chars, NEW cell \in StyledCell(chars)
  PROVE  /\ WriteCell(cell) \in Seq(chars \union 0 .. 255) /\ Len(WriteCell(cell)) = 10
         /\ ReadCell(WriteCell(cell)) = cell
<1> DEFINE U == chars \union 0 .. 255
           b == WriteColor(cell.fg)
           c == WriteColor(cell.bg)
           d == ToBits(cell.attrs)
           s == WriteCell(cell)
<1>1. /\ cell.ch \in chars /\ cell.fg \in Color /\ cell.bg \in Color /\ cell.attrs \in SUBSET Attrs
      /\ cell = [ch |-> cell.ch, fg |-> cell.fg, bg |-> cell.bg, attrs |-> cell.attrs]
  BY DEF StyledCell
<1>2. /\ b \in Seq(0 .. 255) /\ Len(b) = 4 /\ ReadColor(b) = cell.fg
      /\ c \in Seq(0 .. 255) /\ Len(c) = 4 /\ ReadColor(c) = cell.bg
  BY <1>1, ColorsComeBack
<1>3. d \in 0 .. 31 /\ FromBits(d) = cell.attrs
  BY <1>1, BitsAreAttributes
<1>4. s = <<cell.ch>> \o b \o c \o <<d>>
  BY DEF WriteCell
<1> HIDE DEF b, c, d, s
<1>5. cell.ch \in U /\ b \in Seq(U) /\ c \in Seq(U) /\ d \in U
  BY <1>1, <1>2, <1>3
<1> HIDE DEF U
<1>6. /\ s \in Seq(U) /\ Len(s) = 10 /\ s[1] = cell.ch /\ s[10] = d
      /\ SubSeq(s, 2, 5) = b /\ SubSeq(s, 6, 9) = c
  BY <1>2, <1>4, <1>5, PartsOfTen
<1>7. ReadCell(s) = cell
  BY <1>1, <1>2, <1>3, <1>6 DEF ReadCell
<1> QED
  BY <1>6, <1>7 DEF s, U

(* Records of ten behind each other: where each is.                        *)
LEMMA BlocksOfTen ==
  ASSUME NEW U, NEW blocks \in Seq(Seq(U)), \A i \in 1 .. Len(blocks) : Len(blocks[i]) = 10
  PROVE  /\ FlattenSeq(blocks) \in Seq(U) /\ Len(FlattenSeq(blocks)) = 10 * Len(blocks)
         /\ \A i \in 1 .. Len(blocks), x \in 1 .. 10 :
              FlattenSeq(blocks)[10 * (i - 1) + x] = blocks[i][x]
<1> DEFINE n == Len(blocks)
           some(m) == SubSeq(blocks, 1, m)
           F(m) == FlattenSeq(some(m))
           Placed(f, m) == /\ f \in Seq(U) /\ Len(f) = 10 * m
                           /\ \A i \in 1 .. m, x \in 1 .. 10 : f[10 * (i - 1) + x] = blocks[i][x]
           Good == {m \in 0 .. n : Placed(F(m), m)}
<1>1. n \in Nat /\ some(0) = <<>> /\ some(n) = blocks
      /\ \A i \in 1 .. n : blocks[i] \in Seq(U) /\ Len(blocks[i]) = 10
  BY SubSeqEmpty, SubSeqFull
<1>2. <<>> \in Seq(U) /\ <<>> \in Seq(Seq(U))
  OBVIOUS
<1> HIDE DEF n
<1>3. 0 \in Good
  <2>1. F(0) = <<>>
    BY <1>1, <1>2, FlattenGrows
  <2>2. Placed(<<>>, 0)
    BY <1>2
  <2> HIDE DEF F, Placed
  <2> QED
    BY <1>1, <2>1, <2>2
<1>4. ASSUME NEW m \in 0 .. n, m # 0, m - 1 \in Good PROVE m \in Good
  <2> DEFINE f == F(m - 1)
             g == F(m)
             b == blocks[m]
             k == 10 * (m - 1)
  <2>1. m \in 1 .. n /\ 1 \in Nat \ {0} /\ m \in Nat /\ 1 <= m /\ m <= Len(blocks)
    BY <1>4, <1>1 DEF n
  <2>2. some(m) = Append(some(m - 1), b) /\ some(m - 1) \in Seq(Seq(U)) /\ b \in Seq(U) /\ Len(b) = 10
    BY <1>1, <2>1, PartGrows
  <2>3. Placed(f, m - 1)
    BY <1>4
  <2>4. g = f \o b
    <3> HIDE DEF some, b
    <3> QED
      BY <2>2, FlattenGrows
  <2> HIDE DEF f, g, b, F, some, Good
  <2>5. f \in Seq(U) /\ k = Len(f) /\ k \in Nat
    BY <2>1, <2>3
  <2> HIDE DEF k
  <2>6. g \in Seq(U) /\ Joined(g, f, b, k, 10)
    BY <2>2, <2>4, <2>5, BothAre
  <2>7. k = 10 * m - 10
    BY <2>1 DEF k
  <2>8. Len(g) = 10 * m
    BY <2>1, <2>6, <2>7 DEF Joined
  <2>9. ASSUME NEW i \in 1 .. m, NEW x \in 1 .. 10 PROVE g[10 * (i - 1) + x] = blocks[i][x]
    <3>1. CASE i = m
      <4>1. g[k + x] = b[x]
        BY <2>6 DEF Joined
      <4> QED
        BY <3>1, <4>1 DEF k, b
    <3>2. CASE i # m
      <4>1. i \in 1 .. m - 1
        BY <2>1, <3>2
      <4>2. f[10 * (i - 1) + x] = blocks[i][x]
        BY <2>3, <4>1
      <4>3. 10 * (i - 1) + x \in 1 .. k
        BY <2>1, <2>7, <4>1
      <4>4. g[10 * (i - 1) + x] = f[10 * (i - 1) + x]
        BY <2>6, <4>3 DEF Joined
      <4> QED
        BY <4>2, <4>4
    <3> QED
      BY <3>1, <3>2
  <2>10. Placed(g, m)
    BY <2>6, <2>8, <2>9
  <2> HIDE DEF Placed
  <2> QED
    BY <2>10 DEF Good, g
<1> HIDE DEF Good
<1>5. 0 .. n \subseteq Good
  BY <1>1, <1>3, <1>4, CountingUp
<1>6. Placed(F(n), n)
  <2>1. n \in Good
    BY <1>1, <1>5
  <2> HIDE DEF Placed, F
  <2> QED
    BY <2>1 DEF Good
<1>7. F(n) = FlattenSeq(blocks)
  BY <1>1
<1> HIDE DEF F
<1> QED
  BY <1>6, <1>7 DEF n

(* Ten numbers a cell, and what is cut behind some cells is those cells.   *)
ReadBack(bytes, chars, cells, wrapped) ==
  /\ bytes \in Seq(chars \union 0 .. 255) /\ Len(bytes) = 10 * Len(cells) + 1
  /\ \A n \in 0 .. Len(cells) :
       Decode(SubSeq(bytes, 1, 10 * n + 1)) = [cells |-> SubSeq(cells, 1, n), wrapped |-> wrapped]

(* What a record cut behind a whole cell, or not at all, is read as.       *)
LEMMA CutsAreRead ==
  ASSUME NEW chars, NEW cells \in Seq(StyledCell(chars)), NEW wrapped \in BOOLEAN,
         NEW line, line = [cells |-> cells, wrapped |-> wrapped]
  PROVE  ReadBack(Encode(line), chars, cells, wrapped)
<1> DEFINE U == chars \union 0 .. 255
           l == Len(cells)
           flag == IF wrapped THEN 1 ELSE 0
           head == <<flag>>
           blocks == [i \in 1 .. l |-> WriteCell(cells[i])]
           F == FlattenSeq(blocks)
           bytes == Encode(line)
<1>1. l \in Nat /\ \A i \in 1 .. l : cells[i] \in StyledCell(chars)
  OBVIOUS
<1>2. bytes = head \o F
  BY DEF Encode
<1>3. /\ \A i \in 1 .. l : /\ WriteCell(cells[i]) \in Seq(U) /\ Len(WriteCell(cells[i])) = 10
                           /\ ReadCell(WriteCell(cells[i])) = cells[i]
  BY <1>1, CellsComeBack
<1>4. flag \in U /\ head \in Seq(U) /\ Len(head) = 1 /\ head[1] = flag /\ (flag # 0 <=> wrapped)
  <2>1. flag \in 0 .. 1 /\ (flag # 0 <=> wrapped)
    OBVIOUS
  <2> HIDE DEF flag
  <2> QED
    BY <2>1
<1> HIDE DEF l, U, flag, bytes, head
<1>5. blocks \in Seq(Seq(U)) /\ Len(blocks) = l /\ \A i \in 1 .. l : blocks[i] = WriteCell(cells[i])
  BY <1>1, <1>3
<1> HIDE DEF blocks
<1>6. /\ F \in Seq(U) /\ Len(F) = 10 * l
      /\ \A i \in 1 .. l, x \in 1 .. 10 : F[10 * (i - 1) + x] = blocks[i][x]
  <2>1. \A i \in 1 .. Len(blocks) : Len(blocks[i]) = 10
    BY <1>3, <1>5
  <2>2. /\ FlattenSeq(blocks) \in Seq(U) /\ Len(FlattenSeq(blocks)) = 10 * Len(blocks)
        /\ \A i \in 1 .. Len(blocks), x \in 1 .. 10 :
             FlattenSeq(blocks)[10 * (i - 1) + x] = blocks[i][x]
    BY <1>5, <2>1, BlocksOfTen
  <2> QED
    BY <1>5, <2>2
<1> HIDE DEF F
<1>7. bytes \in Seq(U) /\ Joined(bytes, head, F, 1, 10 * l)
  BY <1>2, <1>4, <1>6, BothAre
<1>8. /\ Len(bytes) = 10 * l + 1 /\ bytes[1] = flag
      /\ \A y \in 1 .. 10 * l : bytes[1 + y] = F[y]
  <2>1. 1 + 10 * l = 10 * l + 1
    BY <1>1
  <2> QED
    BY <1>4, <1>7, <2>1 DEF Joined
<1>9. \A i \in 1 .. l, x \in 1 .. 10 : bytes[10 * (i - 1) + 1 + x] = blocks[i][x]
  <2> TAKE i \in 1 .. l, x \in 1 .. 10
  <2> DEFINE y == 10 * (i - 1) + x
  <2>1. y \in 1 .. 10 * l /\ 1 + y = 10 * (i - 1) + 1 + x
    BY <1>1
  <2>2. F[y] = blocks[i][x]
    BY <1>6
  <2> HIDE DEF y
  <2>3. bytes[1 + y] = F[y]
    BY <1>8, <2>1
  <2> QED
    BY <2>1, <2>2, <2>3
<1>10. ASSUME NEW n \in 0 .. l
       PROVE  /\ SubSeq(bytes, 1, 10 * n + 1) # <<>>
              /\ Decode(SubSeq(bytes, 1, 10 * n + 1)) = [cells |-> SubSeq(cells, 1, n), wrapped |-> wrapped]
  <2> DEFINE e == 10 * n + 1
             cut == SubSeq(bytes, 1, e)
  <2>1. e \in Nat /\ 0 + e <= Len(bytes) /\ 0 \in Nat /\ 0 + 1 = 1 /\ 0 + e = e /\ e >= 1
        /\ (e - 1) % 10 = 0 /\ (e - 1) \div 10 = n
    BY <1>1, <1>8
  <2> HIDE DEF e
  <2>2. /\ cut \in Seq(U) /\ Len(cut) = e
        /\ \A y \in 1 .. e : cut[y] = bytes[y]
    <3>1. /\ SubSeq(bytes, 0 + 1, 0 + e) \in Seq(U) /\ Len(SubSeq(bytes, 0 + 1, 0 + e)) = e
          /\ \A y \in 1 .. e : SubSeq(bytes, 0 + 1, 0 + e)[y] = bytes[0 + y]
      BY <1>7, <2>1, PartIs
    <3>2. \A y \in 1 .. e : 0 + y = y
      OBVIOUS
    <3> QED
      BY <2>1, <3>1, <3>2
  <2> HIDE DEF cut
  <2>3. cut # <<>> /\ cut[1] = flag
    <3>1. 1 \in 1 .. e
      BY <2>1
    <3> QED
      BY <1>8, <2>1, <2>2, <3>1
  <2>4. ASSUME NEW i \in 1 .. n
        PROVE  ReadCell(SubSeq(cut, (i - 1) * 10 + 2, i * 10 + 1)) = cells[i]
    <3> DEFINE k == 10 * (i - 1) + 1
               b == blocks[i]
    <3>1. /\ k \in Nat /\ 10 \in Nat /\ k + 10 <= Len(cut) /\ k + 10 <= e
          /\ (i - 1) * 10 + 2 = k + 1 /\ i * 10 + 1 = k + 10 /\ i \in 1 .. l
      BY <1>1, <2>2 DEF e
    <3>2. b \in Seq(U) /\ Len(b) = 10 /\ ReadCell(b) = cells[i]
      BY <1>3, <1>5, <3>1
    <3>3. \A x \in 1 .. 10 : bytes[k + x] = b[x]
      BY <1>9, <3>1
    <3> HIDE DEF k, b
    <3>4. SameFrom(cut, k, 10, b)
      <4> SUFFICES \A x \in 1 .. 10 : cut[k + x] = b[x]
        BY DEF SameFrom
      <4> TAKE x \in 1 .. 10
      <4>1. k + x \in 1 .. e
        BY <2>1, <3>1
      <4> QED
        BY <2>2, <3>3, <4>1
    <3> DEFINE from == (i - 1) * 10 + 2
               to == i * 10 + 1
    <3>5. from = k + 1 /\ to = k + 10
      BY <3>1
    <3> HIDE DEF from, to
    <3>6. SubSeq(cut, from, to) = b
      <4>1. cut \in Seq(U) /\ k \in Nat /\ 10 \in Nat /\ k + 10 <= Len(cut) /\ b \in Seq(U) /\ Len(b) = 10
        BY <2>2, <3>1, <3>2
      <4>2. SubSeq(cut, k + 1, k + 10) = b
        BY ONLY <3>4, <4>1, PartIsThis
      <4> QED
        BY <3>5, <4>2
    <3> QED
      BY <3>2, <3>6 DEF from, to
  <2> DEFINE read == [i \in 1 .. n |-> ReadCell(SubSeq(cut, (i - 1) * 10 + 2, i * 10 + 1))]
  <2>5. Decode(cut) = [cells |-> read, wrapped |-> cut[1] # 0]
    <3>1. (Len(cut) - 1) % CellSize = 0 /\ (Len(cut) - 1) \div CellSize = n
      BY <2>1, <2>2 DEF CellSize
    <3>2. Decode(cut) = [cells   |-> [i \in 1 .. (Len(cut) - 1) \div CellSize |->
                           ReadCell(SubSeq(cut, (i - 1) * CellSize + 2, i * CellSize + 1))],
                         wrapped |-> cut[1] # 0]
      BY <2>3, <3>1, Zenon DEF Decode
    <3>3. CellSize = 10
      BY DEF CellSize
    <3> QED
      BY <3>1, <3>2, <3>3
  <2>6. read = SubSeq(cells, 1, n)
    <3>1. 0 + n <= Len(cells) /\ n \in Nat /\ 0 \in Nat /\ 1 = 0 + 1 /\ n = 0 + n
      BY <1>1 DEF l
    <3>2. \A i \in 1 .. n : read[i] = cells[i]
      BY <2>4
    <3>3. \A i \in 1 .. n : cells[0 + i] = read[i] /\ i \in 1 .. l
      BY <3>1, <3>2 DEF l
    <3>4. read \in Seq(StyledCell(chars)) /\ Len(read) = n
      <4>1. \A i \in 1 .. n : read[i] \in StyledCell(chars)
        BY <1>1, <3>2, <3>3
      <4> QED
        BY <3>1, <4>1
    <3> HIDE DEF read
    <3>5. SameFrom(cells, 0, n, read)
      BY <3>3 DEF SameFrom
    <3>6. SubSeq(cells, 0 + 1, 0 + n) = read
      BY <3>1, <3>4, <3>5, PartIsThis
    <3> QED
      BY <3>1, <3>6
  <2>7. (cut[1] # 0) = wrapped
    BY <1>4, <2>3
  <2> HIDE DEF read
  <2>8. cut # <<>> /\ Decode(cut) = [cells |-> SubSeq(cells, 1, n), wrapped |-> wrapped]
    BY <2>3, <2>5, <2>6, <2>7
  <2> QED
    BY <2>8 DEF cut, e
<1> QED
  BY <1>7, <1>8, <1>10 DEF ReadBack, bytes, l, U

(* The parameters of attributes are theirs.                                *)
LEMMA OnIs ==
  /\ DOMAIN On = {1, 3, 4, 7, 9}
  /\ On[1] = "bold" /\ On[3] = "italic" /\ On[4] = "underline" /\ On[7] = "reverse"
  /\ On[9] = "strikethrough"
BY DEF On

(* What one parameter is read as.                                          *)
LEMMA StepReads ==
  ASSUME NEW acc, NEW i \in Nat, NEW p, acc.next = i
  PROVE /\ p[i] = 0 => SgrStep(acc, i, p) = ReadUpTo(i + 1, Plain)
        /\ p[i] \in DOMAIN On =>
             SgrStep(acc, i, p) = ReadUpTo(i + 1, Attributed(acc.pen, acc.pen.attrs \union {On[p[i]]}))
        /\ p[i] \in {38, 48} => SgrStep(acc, i, p) = Chosen(i, p, acc.pen)
<1> DEFINE n == p[i]
           D == DOMAIN On
<1>1. ~(i < acc.next)
  OBVIOUS
<1>2. D = {1, 3, 4, 7, 9}
  BY OnIs
<1>3. ASSUME n = 0 PROVE SgrStep(acc, i, p) = ReadUpTo(i + 1, Plain)
  <2>1. n \notin D /\ n - 20 \notin D \ {1}
    BY <1>2, <1>3
  <2> QED
    BY <1>1, <1>3, <2>1 DEF SgrStep
<1>4. ASSUME n \in D
      PROVE  SgrStep(acc, i, p) = ReadUpTo(i + 1, Attributed(acc.pen, acc.pen.attrs \union {On[n]}))
  <2>0. /\ n \in Nat /\ n < 10 /\ n # 0 /\ n # 22 /\ n \notin 30 .. 37 /\ n \notin 90 .. 97
        /\ n \notin 40 .. 47 /\ n \notin 100 .. 107 /\ n \notin {39, 49} /\ n \notin {38, 48}
    BY <1>2, <1>4
  <2>1. n - 20 \notin D \ {1}
    BY <1>2, <2>0
  <2> QED
    BY <1>1, <1>4, <2>0, <2>1, Zenon DEF SgrStep
<1>5. ASSUME n \in {38, 48} PROVE SgrStep(acc, i, p) = Chosen(i, p, acc.pen)
  <2>0. n \in Nat /\ n # 0 /\ n # 22 /\ n \notin 30 .. 37 /\ n \notin 90 .. 97 /\ n \notin 40 .. 47
        /\ n \notin 100 .. 107 /\ n \notin {39, 49}
    BY <1>5
  <2>1. n \notin D /\ n - 20 \notin D \ {1}
    BY <1>2, <1>5
  <2> QED
    BY <1>1, <1>5, <2>0, <2>1 DEF SgrStep
<1> QED
  BY <1>3, <1>4, <1>5

(* The states a reading of parameters goes through.                        *)
Goes(f, start, p, n) ==
  /\ f[0] = [next |-> 1, pen |-> start]
  /\ \A i \in 1 .. n : f[i] = SgrStep(f[i - 1], i, p)

(* The parameters are read one after the other.                            *)
LEMMA StatesAre ==
  ASSUME NEW start, NEW p, Len(p) \in Nat
  PROVE  Goes(SgrStates(start, p), start, p, Len(p))
<1> DEFINE n == Len(p)
           first == [next |-> 1, pen |-> start]
           Value(f, i) == IF i = 0 THEN first ELSE SgrStep(f[i - 1], i, p)
           Solves(f, m) == f = [i \in 0 .. m |-> Value(f, i)]
           Good == {m \in 0 .. n : \E f : Solves(f, m)}
<1>1. 0 \in Good
  <2> DEFINE f == [i \in 0 .. 0 |-> first]
  <2>1. \A i \in 0 .. 0 : Value(f, i) = first
    OBVIOUS
  <2>2. Solves(f, 0)
    BY <2>1
  <2> HIDE DEF f, Solves
  <2> QED
    BY <2>2
<1>2. ASSUME NEW m \in 0 .. n, m # 0, m - 1 \in Good PROVE m \in Good
  <2>1. PICK f : Solves(f, m - 1)
    BY <1>2
  <2> DEFINE g == [i \in 0 .. m |-> IF i = m THEN SgrStep(f[m - 1], m, p) ELSE f[i]]
  <2>2. m \in Nat /\ \A i \in 0 .. m : i # m => i \in 0 .. m - 1
    BY <1>2
  <2>3. \A i \in 0 .. m : i # 0 => i - 1 \in 0 .. m /\ i - 1 # m
    BY <2>2
  <2>4. \A i \in 0 .. m : i # 0 => g[i - 1] = f[i - 1]
    BY <2>3
  <2>5. \A i \in 0 .. m - 1 : f[i] = Value(f, i)
    BY <2>1
  <2>6. ASSUME NEW i \in 0 .. m
        PROVE  (IF i = m THEN SgrStep(f[m - 1], m, p) ELSE f[i]) = Value(g, i)
    <3> HIDE DEF g
    <3>1. CASE i = m
      BY <1>2, <2>4, <3>1
    <3>2. CASE i # m
      BY <2>2, <2>4, <2>5, <3>2
    <3> QED
      BY <3>1, <3>2
  <2>7. Solves(g, m)
    BY <2>6
  <2> HIDE DEF g, Solves
  <2> QED
    BY <2>7
<1> HIDE DEF Good
<1>3. 0 .. n \subseteq Good
  BY <1>1, <1>2, CountingUp
<1> DEFINE c == CHOOSE f : Solves(f, n)
<1>4. Solves(c, n)
  <2>1. \E f : Solves(f, n)
    BY <1>3 DEF Good
  <2> HIDE DEF Solves
  <2> QED
    BY <2>1, Zenon
<1>5. c = SgrStates(start, p)
  BY Zenon DEF SgrStates
<1> HIDE DEF c
<1>6. c[0] = first /\ \A i \in 1 .. n : c[i] = SgrStep(c[i - 1], i, p)
  <2>1. \A i \in 0 .. n : c[i] = Value(c, i)
    BY <1>4
  <2>2. 0 \in 0 .. n /\ \A i \in 1 .. n : i \in 0 .. n /\ i # 0
    OBVIOUS
  <2> QED
    BY <2>1, <2>2
<1> QED
  BY <1>5, <1>6 DEF Goes

(* After n parameters all are read and the pen is this one.                *)
Done(f, n, fg, bg, attrs) ==
  f[n] = [next |-> n + 1, pen |-> [fg |-> fg, bg |-> bg, attrs |-> attrs]]

(* A colour is chosen by the parameters from i on.                         *)
OpensColor(f, i, p, fg, bg, attrs) ==
  f[i] = Chosen(i, p, [fg |-> fg, bg |-> bg, attrs |-> attrs])

(* One parameter is read: a reset, an attribute, or the start of a colour. *)
LEMMA OneParam ==
  ASSUME NEW f, NEW start, NEW p, NEW m \in Nat, Goes(f, start, p, m), NEW n \in Nat, n < m,
         NEW fg, NEW bg, NEW attrs, Done(f, n, fg, bg, attrs)
  PROVE  /\ p[n + 1] = 0 => Done(f, n + 1, <<>>, <<>>, {})
         /\ p[n + 1] \in DOMAIN On => Done(f, n + 1, fg, bg, attrs \union {On[p[n + 1]]})
         /\ p[n + 1] \in {38, 48} => OpensColor(f, n + 1, p, fg, bg, attrs)
<1> DEFINE i == n + 1
           x == p[i]
           pen == [fg |-> fg, bg |-> bg, attrs |-> attrs]
           acc == [next |-> i, pen |-> pen]
           more == attrs \union {On[x]}
<1>1. i \in 1 .. m /\ i - 1 = n /\ i \in Nat
  OBVIOUS
<1>2. f[i] = SgrStep(acc, i, p)
  BY <1>1 DEF Goes, Done
<1>3. acc.next = i /\ acc.pen = pen /\ pen.attrs = attrs
  OBVIOUS
<1>4. Attributed(pen, more) = [fg |-> fg, bg |-> bg, attrs |-> more]
  <2> HIDE DEF more
  <2> QED
    BY DEF Attributed
<1>5. ReadUpTo(i + 1, Plain) = [next |-> i + 1, pen |-> [fg |-> <<>>, bg |-> <<>>, attrs |-> {}]]
      /\ ReadUpTo(i + 1, Attributed(pen, more)) = [next |-> i + 1, pen |-> [fg |-> fg, bg |-> bg, attrs |-> more]]
  BY <1>4 DEF ReadUpTo, Plain
<1> HIDE DEF i, pen, acc
<1>6. /\ p[i] = 0 => SgrStep(acc, i, p) = ReadUpTo(i + 1, Plain)
      /\ p[i] \in DOMAIN On =>
           SgrStep(acc, i, p) = ReadUpTo(i + 1, Attributed(acc.pen, acc.pen.attrs \union {On[p[i]]}))
      /\ p[i] \in {38, 48} => SgrStep(acc, i, p) = Chosen(i, p, acc.pen)
  BY <1>1, <1>3, StepReads
<1>7. /\ x = 0 => Done(f, i, <<>>, <<>>, {})
      /\ x \in DOMAIN On => Done(f, i, fg, bg, more)
      /\ x \in {38, 48} => f[i] = Chosen(i, p, pen)
  <2> HIDE DEF more
  <2> QED
    BY <1>2, <1>3, <1>5, <1>6 DEF Done, more
<1> QED
  BY <1>7 DEF i, pen, OpensColor

(* Parameters that are skipped.                                            *)
LEMMA Skips ==
  ASSUME NEW f, NEW start, NEW p, NEW m \in Nat, Goes(f, start, p, m),
         NEW n \in Nat, NEW e \in Nat, n <= e, e <= m, f[n].next = e + 1
  PROVE  f[e] = f[n]
<1> DEFINE acc == f[n]
           k == e - n
           Good == {j \in 0 .. k : f[n + j] = acc}
<1>1. acc.next = e + 1 /\ k \in Nat /\ n + k = e /\ n + 0 = n
  OBVIOUS
<1>2. 0 \in Good
  BY <1>1
<1>3. ASSUME NEW j \in 0 .. k, j # 0, j - 1 \in Good PROVE j \in Good
  <2> DEFINE i == n + j
  <2>1. i \in 1 .. m /\ i - 1 = n + (j - 1) /\ i < e + 1
    BY <1>3
  <2>2. f[i - 1] = acc
    BY <1>3, <2>1
  <2> HIDE DEF i, acc
  <2>3. f[i] = SgrStep(acc, i, p)
    BY <2>1, <2>2 DEF Goes
  <2>4. i < acc.next
    BY <1>1, <2>1
  <2>5. SgrStep(acc, i, p) = acc
    BY <2>4, Zenon DEF SgrStep
  <2>6. f[n + j] = acc
    BY <2>3, <2>5 DEF i
  <2> QED
    BY <2>6
<1> HIDE DEF Good, acc, k
<1>4. k \in Good
  BY <1>1, <1>2, <1>3, CountingUp
<1> QED
  BY <1>1, <1>4 DEF Good, acc

(* What is behind 38 or 48, of one number or of three.                     *)
LEMMA ChosenIs ==
  ASSUME NEW i \in Nat, NEW p, Len(p) \in Nat, NEW pen
  PROVE  /\ i + 2 <= Len(p) /\ p[i + 1] = 5 =>
              Chosen(i, p, pen) = ReadUpTo(i + 3, Colored(pen, Ground(p[i]), <<Byte(p[i + 2])>>))
         /\ i + 4 <= Len(p) /\ p[i + 1] = 2 =>
              Chosen(i, p, pen)
                = ReadUpTo(i + 5, Colored(pen, Ground(p[i]), <<Byte(p[i + 2]), Byte(p[i + 3]), Byte(p[i + 4])>>))
<1>1. ASSUME i + 2 <= Len(p), p[i + 1] = 5
      PROVE  Chosen(i, p, pen) = ReadUpTo(i + 3, Colored(pen, Ground(p[i]), <<Byte(p[i + 2])>>))
  <2>1. i < Len(p) /\ i + 3 - 1 <= Len(p) /\ p[i + 1] # 2
    BY <1>1
  <2> QED
    BY <1>1, <2>1, Zenon DEF Chosen
<1>2. ASSUME i + 4 <= Len(p), p[i + 1] = 2
      PROVE  Chosen(i, p, pen)
               = ReadUpTo(i + 5, Colored(pen, Ground(p[i]), <<Byte(p[i + 2]), Byte(p[i + 3]), Byte(p[i + 4])>>))
  <2>1. i < Len(p) /\ i + 5 - 1 <= Len(p) /\ p[i + 1] # 5
    BY <1>2
  <2> QED
    BY <1>2, <2>1, Zenon DEF Chosen
<1> QED
  BY <1>1, <1>2

(* The pen with another colour.                                            *)
PenWith(first, c, fg, bg, attrs) ==
  [fg |-> IF first = 38 THEN c ELSE fg, bg |-> IF first = 38 THEN bg ELSE c, attrs |-> attrs]

(* A colour set behind 38 or 48.                                           *)
LEMMA ColoredIs ==
  ASSUME NEW first \in {38, 48}, NEW c, NEW fg, NEW bg, NEW attrs
  PROVE  Colored([fg |-> fg, bg |-> bg, attrs |-> attrs], Ground(first), c) = PenWith(first, c, fg, bg, attrs)
<1>1. CASE first = 38
  BY <1>1 DEF Colored, Ground, PenWith
<1>2. CASE first = 48
  BY <1>2 DEF Colored, Ground, PenWith
<1> QED
  BY <1>1, <1>2

Opener(first) == first \in {38, 48}
Free(first, fg, bg) == (first = 38 => fg = <<>>) /\ (first = 48 => bg = <<>>)

DoneWith(f, n, first, c, fg, bg, attrs) ==
  f[n] = [next |-> n + 1, pen |-> PenWith(first, c, fg, bg, attrs)]

(* A colour is read as it was written.                                     *)
LEMMA ColorRead ==
  ASSUME NEW f, NEW start, NEW p, NEW m \in Nat, m = Len(p), Goes(f, start, p, m),
         NEW fg, NEW bg, NEW attrs, NEW n \in Nat, Done(f, n, fg, bg, attrs),
         NEW first, Opener(first), NEW c \in Color, Free(first, fg, bg),
         NEW k \in Nat, k = Len(ColorParams(first, c)), n + k <= m,
         SameFrom(p, n, k, ColorParams(first, c))
  PROVE  DoneWith(f, n + k, first, c, fg, bg, attrs)
<1> SUFFICES f[n + k] = [next |-> n + k + 1, pen |-> PenWith(first, c, fg, bg, attrs)]
  BY DEF DoneWith
<1> DEFINE t == ColorParams(first, c)
           pen == [fg |-> fg, bg |-> bg, attrs |-> attrs]
           i == n + 1
<1>1. c \in Seq(0 .. 255) /\ (Len(c) = 0 \/ Len(c) = 1 \/ Len(c) = 3)
  BY DEF Color
<1>2. \A j \in 1 .. k : p[n + j] = t[j]
  BY DEF SameFrom
<1>3. \A j \in 1 .. Len(c) : c[j] \in 0 .. 255 /\ Byte(c[j]) = c[j]
  <2> TAKE j \in 1 .. Len(c)
  <2> DEFINE b == c[j]
  <2>1. b \in 0 .. 255
    BY ONLY <1>1, j \in 1 .. Len(c), ElementOfSeq
  <2> HIDE DEF b
  <2>2. Byte(b) = b
    BY <2>1 DEF Byte
  <2> QED
    BY <2>1, <2>2 DEF b
<1>0. first \in {38, 48} /\ (IF first = 38 THEN fg ELSE bg) = <<>>
  BY DEF Free, Opener
<1>4. CASE Len(c) = 0
  <2>1. c = <<>> /\ k = 0
    BY <1>1, <1>4 DEF ColorParams
  <2>2. PenWith(first, c, fg, bg, attrs) = pen
    BY <1>0, <2>1 DEF PenWith
  <2> QED
    BY <2>1, <2>2 DEF Done
<1> SUFFICES ASSUME Len(c) # 0 PROVE f[n + k] = [next |-> n + k + 1, pen |-> PenWith(first, c, fg, bg, attrs)]
  BY <1>4
<1>5. /\ k = Len(c) + 2 /\ t[1] = first
      /\ t[2] = IF Len(c) = 1 THEN 5 ELSE 2
      /\ \A j \in 1 .. Len(c) : t[2 + j] = c[j]
  <2> DEFINE mode == IF Len(c) = 1 THEN 5 ELSE 2
             pair == <<first, mode>>
  <2>1. t = pair \o c
    BY <1>1, Zenon DEF ColorParams
  <2>2. pair \in Seq(Int) /\ c \in Seq(Int) /\ Len(pair) = 2 /\ pair[1] = first /\ pair[2] = mode
    <3>1. mode \in Int /\ first \in Int
      BY <1>0
    <3> HIDE DEF mode
    <3>2. c \in Seq(Int)
      BY ONLY <1>1, SeqMonotonic, 0 .. 255 \subseteq Int
    <3> QED
      BY <3>1, <3>2
  <2> HIDE DEF pair, t
  <2>3. Joined(t, pair, c, 2, Len(c))
    BY <2>1, <2>2, BothAre
  <2>4. Len(t) = 2 + Len(c) /\ 1 \in 1 .. 2 /\ 2 \in 1 .. 2
    BY <2>3 DEF Joined
  <2> QED
    BY <1>1, <2>2, <2>3, <2>4 DEF Joined, t
<1>6. p[i] = first /\ p[i + 1] = (IF Len(c) = 1 THEN 5 ELSE 2)
      /\ \A j \in 1 .. Len(c) : p[i + 1 + j] = c[j]
  <2>1. \A j \in 1 .. k : n + j = i + (j - 1)
    OBVIOUS
  <2>2. 1 \in 1 .. k /\ 2 \in 1 .. k /\ n + 1 = i /\ n + 2 = i + 1
        /\ \A j \in 1 .. Len(c) : 2 + j \in 1 .. k /\ n + (2 + j) = i + 1 + j
    BY <1>1, <1>5
  <2>3. \A j \in 1 .. Len(c) : p[i + 1 + j] = t[2 + j]
    BY ONLY <1>2, <2>2
  <2>4. p[i] = t[1] /\ p[i + 1] = t[2]
    BY ONLY <1>2, <2>2
  <2> HIDE DEF t, i
  <2> QED
    BY ONLY <1>5, <2>3, <2>4
<1> HIDE DEF t
<1>7. i \in Nat /\ i <= m /\ i + Len(c) + 1 = n + k /\ n < m /\ Len(c) \in Nat
  BY <1>1, <1>5
<1>8. f[i] = Chosen(i, p, pen)
  <2>1. n < m /\ p[n + 1] \in {38, 48}
    BY <1>0, <1>6, <1>7
  <2> HIDE DEF t
  <2>2. OpensColor(f, n + 1, p, fg, bg, attrs)
    BY ONLY <2>1, m \in Nat, n \in Nat, Goes(f, start, p, m), Done(f, n, fg, bg, attrs), OneParam
  <2> QED
    BY <2>2 DEF OpensColor
<1> HIDE DEF i
<1>9. Chosen(i, p, pen) = ReadUpTo(n + k + 1, Colored(pen, Ground(first), c))
  <2>1. CASE Len(c) = 1
    <3>1. i + 2 <= Len(p) /\ i + 3 = n + k + 1
      BY <1>7, <2>1
    <3>2. 1 \in 1 .. Len(c) /\ i + 1 + 1 = i + 2
      BY <1>7, <2>1
    <3>3. Byte(p[i + 2]) = c[1]
      BY <1>3, <1>6, <3>2
    <3>4. c = <<c[1]>>
      BY <1>1, <2>1
    <3>5. p[i + 1] = 5
      BY <1>6, <2>1
    <3> HIDE DEF pen
    <3>6. Chosen(i, p, pen) = ReadUpTo(i + 3, Colored(pen, Ground(p[i]), <<Byte(p[i + 2])>>))
      BY <1>7, <3>1, <3>5, ChosenIs
    <3> QED
      BY <1>6, <3>1, <3>3, <3>4, <3>6
  <2>2. CASE Len(c) = 3
    <3>1. i + 4 <= Len(p) /\ i + 5 = n + k + 1
      BY <1>7, <2>2
    <3>2. 1 \in 1 .. Len(c) /\ 2 \in 1 .. Len(c) /\ 3 \in 1 .. Len(c)
          /\ i + 1 + 1 = i + 2 /\ i + 1 + 2 = i + 3 /\ i + 1 + 3 = i + 4
      BY <1>7, <2>2
    <3>3. Byte(p[i + 2]) = c[1] /\ Byte(p[i + 3]) = c[2] /\ Byte(p[i + 4]) = c[3]
      BY <1>3, <1>6, <3>2
    <3>4. c = <<c[1], c[2], c[3]>>
      BY <1>1, <2>2
    <3>5. p[i + 1] = 2
      BY <1>6, <2>2
    <3> HIDE DEF pen
    <3>6. Chosen(i, p, pen)
            = ReadUpTo(i + 5, Colored(pen, Ground(p[i]), <<Byte(p[i + 2]), Byte(p[i + 3]), Byte(p[i + 4])>>))
      BY <1>7, <3>1, <3>5, ChosenIs
    <3> QED
      BY <1>6, <3>1, <3>3, <3>4, <3>6
  <2> QED
    BY <1>1, <2>1, <2>2
<1>10. Colored(pen, Ground(first), c) = PenWith(first, c, fg, bg, attrs)
  BY <1>0, ColoredIs
<1> DEFINE after == [next |-> n + k + 1, pen |-> PenWith(first, c, fg, bg, attrs)]
<1>11. f[i] = after
  BY <1>8, <1>9, <1>10 DEF ReadUpTo
<1> DEFINE e == n + k
<1>12. e \in Nat /\ i <= e /\ e <= m /\ after.next = e + 1
  BY <1>7
<1> HIDE DEF after, e
<1>13. f[i].next = e + 1
  BY <1>11, <1>12
<1>14. f[e] = f[i]
  BY ONLY <1>7, <1>12, <1>13, m \in Nat, Goes(f, start, p, m), Skips
<1> QED
  BY <1>11, <1>14 DEF after, e

(* An attribute is read as it was written.                                 *)
LEMMA AttrRead ==
  ASSUME NEW f, NEW start, NEW p, NEW m \in Nat, Goes(f, start, p, m),
         NEW fg, NEW bg, NEW attrs, NEW n \in Nat, Done(f, n, fg, bg, attrs),
         NEW a \in {1, 3, 4, 7, 9}, NEW pen,
         NEW k \in Nat, k = Len(AttrParam(a, pen)), n + k <= m,
         SameFrom(p, n, k, AttrParam(a, pen))
  PROVE  Done(f, n + k, fg, bg, attrs \union ({On[a]} \cap pen.attrs))
<1>1. CASE On[a] \in pen.attrs
  <2>1. AttrParam(a, pen) = <<a>> /\ k = 1 /\ n < m
    BY <1>1 DEF AttrParam
  <2>2. p[n + 1] = a
    <3>1. p[n + 1] = <<a>>[1]
      BY <2>1 DEF SameFrom
    <3> QED
      BY <3>1
  <2>3. p[n + 1] \in DOMAIN On
    BY <2>2, OnIs
  <2>4. Done(f, n + 1, fg, bg, attrs \union {On[p[n + 1]]})
    BY ONLY <2>1, <2>3, m \in Nat, n \in Nat, Goes(f, start, p, m), Done(f, n, fg, bg, attrs), OneParam
  <2>5. {On[a]} \cap pen.attrs = {On[a]}
    BY <1>1
  <2> QED
    BY <2>1, <2>2, <2>4, <2>5
<1>2. CASE On[a] \notin pen.attrs
  <2>1. k = 0 /\ n + k = n
    BY <1>2 DEF AttrParam
  <2>2. attrs \union ({On[a]} \cap pen.attrs) = attrs
    BY <1>2
  <2> QED
    BY <2>1, <2>2
<1> QED
  BY <1>1, <1>2

(* p begins with x.                                                        *)
Begins(p, x) == Len(x) <= Len(p) /\ \A i \in 1 .. Len(x) : p[i] = x[i]

(* What begins with two in a row has both.                                 *)
LEMMA BeginsWithBoth ==
  ASSUME NEW S, NEW s \in Seq(S), NEW t \in Seq(S), NEW p \in Seq(S), Begins(p, s \o t)
  PROVE  /\ Begins(p, s) /\ Len(s) + Len(t) <= Len(p) /\ Len(s \o t) = Len(s) + Len(t)
         /\ SameFrom(p, Len(s), Len(t), t)
<1> DEFINE x == s \o t
           m == Len(s)
           n == Len(t)
<1>1. Joined(x, s, t, m, n)
  BY BothAre
<1>2. m \in Nat /\ n \in Nat /\ Len(p) \in Nat
  OBVIOUS
<1>3. Len(x) = m + n /\ Len(x) <= Len(p) /\ \A i \in 1 .. Len(x) : p[i] = x[i]
  BY <1>1 DEF Joined, Begins
<1> HIDE DEF x
<1>4. \A i \in 1 .. m : p[i] = s[i]
  <2> TAKE i \in 1 .. m
  <2>1. i \in 1 .. Len(x)
    BY <1>2, <1>3
  <2> QED
    BY <1>1, <1>3, <2>1 DEF Joined
<1>5. \A i \in 1 .. n : p[m + i] = t[i]
  <2> TAKE i \in 1 .. n
  <2>1. m + i \in 1 .. Len(x)
    BY <1>2, <1>3
  <2> QED
    BY <1>1, <1>3, <2>1 DEF Joined
<1> QED
  BY <1>2, <1>3, <1>4, <1>5 DEF Begins, SameFrom, x

(* Pens as cells have them.                                                *)
Pens == [fg : Color, bg : Color, attrs : SUBSET Attrs]

(* What is written of a part of a pen.                                     *)
LEMMA PartsAreParams ==
  ASSUME NEW pen \in Pens
  PROVE  /\ \A a \in {1, 3, 4, 7, 9} : AttrParam(a, pen) \in Seq(Nat)
         /\ \A first \in {38, 48}, c \in Color : ColorParams(first, c) \in Seq(Nat)
<1>1. ASSUME NEW a \in {1, 3, 4, 7, 9} PROVE AttrParam(a, pen) \in Seq(Nat)
  <2>1. a \in Nat
    OBVIOUS
  <2>2. <<a>> \in Seq(Nat) /\ <<>> \in Seq(Nat)
    BY <2>1
  <2> QED
    BY <2>2 DEF AttrParam
<1>2. ASSUME NEW first \in {38, 48}, NEW c \in Color PROVE ColorParams(first, c) \in Seq(Nat)
  <2>1. first \in Nat
    OBVIOUS
  <2>2. c \in Seq(Nat)
    <3>1. c \in Seq(0 .. 255)
      BY DEF Color
    <3> QED
      BY ONLY <3>1, SeqMonotonic, 0 .. 255 \subseteq Nat
  <2>3. <<first, 5>> \in Seq(Nat) /\ <<first, 2>> \in Seq(Nat) /\ <<>> \in Seq(Nat)
    BY <2>1
  <2>4. \A x \in Seq(Nat) : x \o c \in Seq(Nat)
    BY <2>2, ConcatProperties
  <2> QED
    BY <2>3, <2>4 DEF ColorParams
<1> QED
  BY <1>1, <1>2

(* What is read next, behind what was read.                                *)
LEMMA NextAttr ==
  ASSUME NEW f, NEW start, NEW p \in Seq(Nat), NEW m \in Nat, m = Len(p), Goes(f, start, p, m),
         NEW fg, NEW bg, NEW attrs, NEW x \in Seq(Nat), Done(f, Len(x), fg, bg, attrs),
         NEW a \in {1, 3, 4, 7, 9}, NEW pen, AttrParam(a, pen) \in Seq(Nat),
         Begins(p, x \o AttrParam(a, pen))
  PROVE  Done(f, Len(x \o AttrParam(a, pen)), fg, bg, attrs \union ({On[a]} \cap pen.attrs))
<1> DEFINE t == AttrParam(a, pen)
           n == Len(x)
           k == Len(t)
           y == x \o t
<1>1. n \in Nat /\ k \in Nat /\ t \in Seq(Nat) /\ Begins(p, y)
  OBVIOUS
<1>2. n + k <= m /\ Len(y) = n + k /\ SameFrom(p, n, k, t)
  <2>1. t \in Seq(Nat) /\ Begins(p, x \o t)
    BY <1>1
  <2> HIDE DEF t
  <2>2. Len(x) + Len(t) <= Len(p) /\ Len(x \o t) = Len(x) + Len(t) /\ SameFrom(p, Len(x), Len(t), t)
    BY ONLY <2>1, x \in Seq(Nat), p \in Seq(Nat), BeginsWithBoth
  <2> QED
    BY <2>2
<1> HIDE DEF n, k, y
<1>3. Done(f, n, fg, bg, attrs) /\ k = Len(AttrParam(a, pen)) /\ SameFrom(p, n, k, AttrParam(a, pen))
  BY <1>2 DEF n, k
<1>4. Done(f, n + k, fg, bg, attrs \union ({On[a]} \cap pen.attrs))
  BY ONLY <1>1, <1>2, <1>3, m \in Nat, Goes(f, start, p, m), a \in {1, 3, 4, 7, 9}, AttrRead
<1> QED
  BY <1>2, <1>4 DEF y

(* A colour is read as it was written.                                     *)
LEMMA NextColor ==
  ASSUME NEW f, NEW start, NEW p \in Seq(Nat), NEW m \in Nat, m = Len(p), Goes(f, start, p, m),
         NEW fg, NEW bg, NEW attrs, NEW x \in Seq(Nat), Done(f, Len(x), fg, bg, attrs),
         NEW first, Opener(first), NEW c \in Color, Free(first, fg, bg),
         ColorParams(first, c) \in Seq(Nat), Begins(p, x \o ColorParams(first, c))
  PROVE  /\ first = 38 => Done(f, Len(x \o ColorParams(first, c)), c, bg, attrs)
         /\ first = 48 => Done(f, Len(x \o ColorParams(first, c)), fg, c, attrs)
<1> DEFINE t == ColorParams(first, c)
           n == Len(x)
           k == Len(t)
           y == x \o t
           new == PenWith(first, c, fg, bg, attrs)
<1>1. n \in Nat /\ k \in Nat /\ t \in Seq(Nat) /\ Begins(p, y)
  OBVIOUS
<1>2. n + k <= m /\ Len(y) = n + k /\ SameFrom(p, n, k, t)
  <2>1. t \in Seq(Nat) /\ Begins(p, x \o t)
    BY <1>1
  <2> HIDE DEF t
  <2>2. Len(x) + Len(t) <= Len(p) /\ Len(x \o t) = Len(x) + Len(t) /\ SameFrom(p, Len(x), Len(t), t)
    BY ONLY <2>1, x \in Seq(Nat), p \in Seq(Nat), BeginsWithBoth
  <2> QED
    BY <2>2
<1> HIDE DEF n, k, y
<1>3. Done(f, n, fg, bg, attrs) /\ k = Len(ColorParams(first, c)) /\ SameFrom(p, n, k, ColorParams(first, c))
  BY <1>2 DEF n, k
<1>4. f[n + k] = [next |-> n + k + 1, pen |-> new]
  <2> HIDE DEF new
  <2>1. DoneWith(f, n + k, first, c, fg, bg, attrs)
    BY ONLY <1>1, <1>2, <1>3, m \in Nat, m = Len(p), Goes(f, start, p, m), Opener(first), c \in Color,
            Free(first, fg, bg), ColorRead
  <2> QED
    BY <2>1 DEF new, DoneWith
<1>5. /\ first = 38 => new = [fg |-> c, bg |-> bg, attrs |-> attrs]
      /\ first = 48 => new = [fg |-> fg, bg |-> c, attrs |-> attrs]
  BY DEF PenWith
<1> HIDE DEF new
<1> QED
  BY <1>2, <1>4, <1>5 DEF y, Done

(* The parameters of a pen set it, whatever the pen was.                   *)
LEMMA SgrGivesPen ==
  ASSUME NEW start, NEW pen \in Pens
  PROVE  SgrOf(pen) \in Seq(Nat) /\ ApplySgr(start, SgrOf(pen)) = pen
<1> DEFINE p == SgrOf(pen)
           m == Len(p)
           f == SgrStates(start, p)
           t1 == AttrParam(1, pen)
           t2 == AttrParam(3, pen)
           t3 == AttrParam(4, pen)
           t4 == AttrParam(7, pen)
           t5 == AttrParam(9, pen)
           t6 == ColorParams(38, pen.fg)
           t7 == ColorParams(48, pen.bg)
           x1 == <<0>>
           x2 == x1 \o t1
           x3 == x2 \o t2
           x4 == x3 \o t3
           x5 == x4 \o t4
           x6 == x5 \o t5
           x7 == x6 \o t6
           a1 == {} \union ({On[1]} \cap pen.attrs)
           a2 == a1 \union ({On[3]} \cap pen.attrs)
           a3 == a2 \union ({On[4]} \cap pen.attrs)
           a4 == a3 \union ({On[7]} \cap pen.attrs)
           a5 == a4 \union ({On[9]} \cap pen.attrs)
<1>1. /\ pen.fg \in Color /\ pen.bg \in Color /\ pen.attrs \in SUBSET Attrs
      /\ pen = [fg |-> pen.fg, bg |-> pen.bg, attrs |-> pen.attrs]
  BY DEF Pens
<1>2. /\ t1 \in Seq(Nat) /\ t2 \in Seq(Nat) /\ t3 \in Seq(Nat) /\ t4 \in Seq(Nat) /\ t5 \in Seq(Nat)
      /\ t6 \in Seq(Nat) /\ t7 \in Seq(Nat)
  BY <1>1, PartsAreParams
<1>3. p = x7 \o t7
  BY DEF SgrOf
<1>4. x1 \in Seq(Nat) /\ Len(x1) = 1 /\ x1[1] = 0
  OBVIOUS
<1>5. a5 = pen.attrs
  BY <1>1, OnIs DEF Attrs
<1> HIDE DEF t1, t2, t3, t4, t5, t6, t7, x1
<1>6. /\ x2 \in Seq(Nat) /\ x3 \in Seq(Nat) /\ x4 \in Seq(Nat) /\ x5 \in Seq(Nat) /\ x6 \in Seq(Nat)
      /\ x7 \in Seq(Nat) /\ p \in Seq(Nat) /\ m \in Nat
  <2>1. x2 \in Seq(Nat)
    BY ONLY <1>2, <1>4
  <2> HIDE DEF x2
  <2>2. x3 \in Seq(Nat)
    BY ONLY <1>2, <2>1
  <2> HIDE DEF x3
  <2>3. x4 \in Seq(Nat)
    BY ONLY <1>2, <2>2
  <2> HIDE DEF x4
  <2>4. x5 \in Seq(Nat)
    BY ONLY <1>2, <2>3
  <2> HIDE DEF x5
  <2>5. x6 \in Seq(Nat)
    BY ONLY <1>2, <2>4
  <2> HIDE DEF x6
  <2>6. x7 \in Seq(Nat)
    BY ONLY <1>2, <2>5
  <2> HIDE DEF x7
  <2>7. x7 \o t7 \in Seq(Nat)
    BY ONLY <1>2, <2>6
  <2>8. p \in Seq(Nat)
    BY <1>3, <2>7
  <2> HIDE DEF p
  <2> QED
    BY <2>1, <2>2, <2>3, <2>4, <2>5, <2>6, <2>8
<1> HIDE DEF p
<1>7. Goes(f, start, p, m)
  BY <1>6, StatesAre
<1> HIDE DEF f
<1>8. /\ Begins(p, x7 \o t7) /\ Begins(p, x6 \o t6) /\ Begins(p, x5 \o t5) /\ Begins(p, x4 \o t4)
      /\ Begins(p, x3 \o t3) /\ Begins(p, x2 \o t2) /\ Begins(p, x1 \o t1) /\ Begins(p, x1)
  <2>1. Begins(p, x7 \o t7)
    <3>1. m <= m /\ \A i \in 1 .. m : p[i] = p[i]
      BY <1>6
    <3>2. Begins(p, p)
      BY <3>1 DEF Begins
    <3> QED
      BY <1>3, <3>2
  <2> HIDE DEF x2, x3, x4, x5, x6, x7
  <2>2. Begins(p, x7)
    BY <1>2, <1>6, <2>1, BeginsWithBoth
  <2>3. Begins(p, x6 \o t6)
    BY <2>2 DEF x7
  <2>4. Begins(p, x6)
    BY <1>2, <1>6, <2>3, BeginsWithBoth
  <2>5. Begins(p, x5 \o t5)
    BY <2>4 DEF x6
  <2>6. Begins(p, x5)
    BY <1>2, <1>6, <2>5, BeginsWithBoth
  <2>7. Begins(p, x4 \o t4)
    BY <2>6 DEF x5
  <2>8. Begins(p, x4)
    BY <1>2, <1>6, <2>7, BeginsWithBoth
  <2>9. Begins(p, x3 \o t3)
    BY <2>8 DEF x4
  <2>10. Begins(p, x3)
    BY <1>2, <1>6, <2>9, BeginsWithBoth
  <2>11. Begins(p, x2 \o t2)
    BY <2>10 DEF x3
  <2>12. Begins(p, x2)
    BY <1>2, <1>6, <2>11, BeginsWithBoth
  <2>13. Begins(p, x1 \o t1)
    BY <2>12 DEF x2
  <2>14. Begins(p, x1)
    BY <1>2, <1>4, <1>6, <2>13, BeginsWithBoth
  <2> QED
    BY <2>1, <2>3, <2>5, <2>7, <2>9, <2>11, <2>13, <2>14
<1>9. Done(f, Len(x1), <<>>, <<>>, {})
  <2>1. 1 <= m /\ p[1] = 0 /\ 0 + 1 = 1 /\ 0 < m
    BY <1>4, <1>6, <1>8 DEF Begins
  <2>2. f[0] = [next |-> 0 + 1, pen |-> start]
    BY <1>7 DEF Goes
  <2>3. f[1] = SgrStep(f[0], 1, p)
    BY <1>6, <1>7, <2>1 DEF Goes
  <2> DEFINE acc == f[0]
  <2>5. acc.next = 1
    BY <2>2
  <2> HIDE DEF acc
  <2>4. SgrStep(acc, 1, p) = ReadUpTo(1 + 1, Plain)
    BY <2>1, <2>5, StepReads
  <2> QED
    BY <1>4, <2>3, <2>4 DEF Done, ReadUpTo, Plain, acc
<1> HIDE DEF a1, a2, a3, a4, a5, x2, x3, x4, x5, x6, x7
<1>10. Done(f, Len(x2), <<>>, <<>>, a1)
  BY ONLY <1>2, <1>4, <1>6, <1>7, <1>8, <1>9, 1 \in {1, 3, 4, 7, 9}, NextAttr DEF a1, t1, x2
<1>11. Done(f, Len(x3), <<>>, <<>>, a2)
  BY ONLY <1>2, <1>6, <1>7, <1>8, <1>10, 3 \in {1, 3, 4, 7, 9}, NextAttr DEF a2, t2, x3
<1>12. Done(f, Len(x4), <<>>, <<>>, a3)
  BY ONLY <1>2, <1>6, <1>7, <1>8, <1>11, 4 \in {1, 3, 4, 7, 9}, NextAttr DEF a3, t3, x4
<1>13. Done(f, Len(x5), <<>>, <<>>, a4)
  BY ONLY <1>2, <1>6, <1>7, <1>8, <1>12, 7 \in {1, 3, 4, 7, 9}, NextAttr DEF a4, t4, x5
<1>14. Done(f, Len(x6), <<>>, <<>>, a5)
  BY ONLY <1>2, <1>6, <1>7, <1>8, <1>13, 9 \in {1, 3, 4, 7, 9}, NextAttr DEF a5, t5, x6
<1>22. Opener(38) /\ Opener(48)
  BY DEF Opener
<1>21. Free(38, <<>>, <<>>)
  BY DEF Free
<1>15. Done(f, Len(x7), pen.fg, <<>>, a5)
  BY ONLY <1>1, <1>2, <1>6, <1>7, <1>8, <1>14, <1>21, <1>22, NextColor DEF t6, x7
<1> DEFINE fg == pen.fg
           none == <<>>
<1>20. Free(48, fg, none)
  BY DEF Free
<1>16. Done(f, Len(x7 \o t7), pen.fg, pen.bg, a5)
  <2>1. Done(f, Len(x7), fg, none, a5)
    BY <1>15
  <2> HIDE DEF fg, none
  <2>2. Done(f, Len(x7 \o t7), fg, pen.bg, a5)
    BY ONLY <1>1, <1>2, <1>6, <1>7, <1>8, <1>20, <1>22, <2>1, NextColor DEF t7
  <2> QED
    BY <2>2 DEF fg
<1>17. p # <<>>
  BY <1>4, <1>6, <1>8 DEF Begins
<1>18. ApplySgr(start, p) = f[m].pen
  BY <1>17 DEF ApplySgr, f
<1>19. f[m].pen = [fg |-> pen.fg, bg |-> pen.bg, attrs |-> pen.attrs]
  BY <1>3, <1>5, <1>16 DEF Done
<1> QED
  BY <1>1, <1>6, <1>18, <1>19 DEF p

(* A reset leaves it plain.                                                *)
LEMMA ResetIsPlain ==
  ASSUME NEW start
  PROVE  ApplySgr(start, <<0>>) = Plain
<1> DEFINE p == <<0>>
           f == SgrStates(start, p)
           acc == [next |-> 1, pen |-> start]
<1>1. Len(p) = 1 /\ p[1] = 0 /\ p # <<>>
  OBVIOUS
<1> HIDE DEF p
<1>2. Goes(f, start, p, 1)
  <2>1. Len(p) \in Nat
    BY <1>1
  <2>2. Goes(SgrStates(start, p), start, p, Len(p))
    BY ONLY <2>1, StatesAre
  <2> HIDE DEF f
  <2>3. Goes(f, start, p, Len(p))
    BY ONLY <2>2 DEF f
  <2> QED
    BY <1>1, <2>3
<1>3. ApplySgr(start, p) = f[1].pen
  BY <1>1 DEF ApplySgr
<1> HIDE DEF f
<1>4. f[1] = SgrStep(f[1 - 1], 1, p) /\ f[1 - 1] = acc /\ acc.next = 1
  BY <1>2 DEF Goes
<1> HIDE DEF acc
<1>7. p[1] = 0 /\ acc.next = 1
  BY <1>1, <1>4
<1>5. SgrStep(acc, 1, p) = ReadUpTo(1 + 1, Plain)
  BY ONLY <1>7, 1 \in Nat, StepReads
<1>6. f[1].pen = Plain
  BY <1>4, <1>5 DEF ReadUpTo
<1> QED
  BY <1>3, <1>6 DEF p

(* What a terminal goes through when a text is typed.                      *)
Types(f, pen, text, n) ==
  /\ f[0] = [pen |-> pen, cells |-> <<>>]
  /\ \A i \in 1 .. n : f[i] = TypeOne(f[i - 1], text[i])

(* A text is typed one token after the other.                              *)
LEMMA TypedIs ==
  ASSUME NEW pen, NEW text, NEW n \in Nat, n = Len(text)
  PROVE  \E f : Types(f, pen, text, n) /\ Typed(pen, text) = f[n]
<1> DEFINE first == [pen |-> pen, cells |-> <<>>]
           Value(f, i) == IF i = 0 THEN first ELSE TypeOne(f[i - 1], text[i])
           Solves(f, m) == f = [i \in 0 .. m |-> Value(f, i)]
           Good == {m \in 0 .. n : \E f : Solves(f, m)}
<1>1. 0 \in Good
  <2> DEFINE f == [i \in 0 .. 0 |-> first]
  <2>1. \A i \in 0 .. 0 : Value(f, i) = first
    OBVIOUS
  <2>2. Solves(f, 0)
    BY <2>1
  <2> HIDE DEF f, Solves
  <2> QED
    BY <2>2
<1>2. ASSUME NEW m \in 0 .. n, m # 0, m - 1 \in Good PROVE m \in Good
  <2>1. PICK f : Solves(f, m - 1)
    BY <1>2
  <2> DEFINE g == [i \in 0 .. m |-> IF i = m THEN TypeOne(f[m - 1], text[m]) ELSE f[i]]
  <2>2. m \in Nat /\ \A i \in 0 .. m : i # m => i \in 0 .. m - 1
    BY <1>2
  <2>3. \A i \in 0 .. m : i # 0 => i - 1 \in 0 .. m /\ i - 1 # m
    BY <2>2
  <2>4. \A i \in 0 .. m : i # 0 => g[i - 1] = f[i - 1]
    BY <2>3
  <2>5. \A i \in 0 .. m - 1 : f[i] = Value(f, i)
    BY <2>1
  <2>6. ASSUME NEW i \in 0 .. m
        PROVE  (IF i = m THEN TypeOne(f[m - 1], text[m]) ELSE f[i]) = Value(g, i)
    <3> HIDE DEF g
    <3>1. CASE i = m
      BY <1>2, <2>4, <3>1
    <3>2. CASE i # m
      BY <2>2, <2>4, <2>5, <3>2
    <3> QED
      BY <3>1, <3>2
  <2>7. Solves(g, m)
    BY <2>6
  <2> HIDE DEF g, Solves
  <2> QED
    BY <2>7
<1> HIDE DEF Good
<1>3. 0 .. n \subseteq Good
  BY <1>1, <1>2, CountingUp
<1> DEFINE c == CHOOSE f : Solves(f, n)
<1>4. Solves(c, n)
  <2>1. \E f : Solves(f, n)
    BY <1>3 DEF Good
  <2> HIDE DEF Solves
  <2> QED
    BY <2>1, Zenon
<1>5. Typed(pen, text) = c[n]
  BY Zenon DEF Typed
<1> HIDE DEF c
<1>6. c[0] = first /\ \A i \in 1 .. n : c[i] = TypeOne(c[i - 1], text[i])
  <2>1. \A i \in 0 .. n : c[i] = Value(c, i)
    BY <1>4
  <2>2. 0 \in 0 .. n /\ \A i \in 1 .. n : i \in 0 .. n /\ i # 0
    OBVIOUS
  <2> QED
    BY <2>1, <2>2
<1>7. Types(c, pen, text, n)
  BY <1>6 DEF Types
<1> QED
  BY <1>5, <1>7

(* Nothing is typed.                                                       *)
LEMMA TypedNothing ==
  ASSUME NEW pen
  PROVE  Typed(pen, <<>>) = [pen |-> pen, cells |-> <<>>]
<1> DEFINE text == <<>>
           n == 0
<1>1. n = Len(text) /\ n \in Nat
  OBVIOUS
<1> HIDE DEF text, n
<1>2. \E f : Types(f, pen, text, n) /\ Typed(pen, text) = f[n]
  BY ONLY <1>1, TypedIs
<1> QED
  BY <1>2 DEF Types, text, n

(* One more is typed behind the others.                                    *)
LEMMA TypedGrows ==
  ASSUME NEW pen, NEW U, NEW text \in Seq(U), NEW t \in U
  PROVE  Typed(pen, Append(text, t)) = TypeOne(Typed(pen, text), t)
<1> DEFINE n == Len(text)
           more == Append(text, t)
<1>1. n \in Nat /\ n + 1 \in Nat /\ Len(more) = n + 1 /\ more[n + 1] = t
      /\ \A i \in 1 .. n : more[i] = text[i]
  BY AppendProperties
<1> HIDE DEF more, n
<1>2. PICK f : Types(f, pen, text, n) /\ Typed(pen, text) = f[n]
  BY <1>1, TypedIs DEF n
<1>3. PICK g : Types(g, pen, more, n + 1) /\ Typed(pen, more) = g[n + 1]
  BY <1>1, TypedIs
<1> DEFINE Good == {i \in 0 .. n : f[i] = g[i]}
<1>5. 0 \in Good
  BY <1>1, <1>2, <1>3 DEF Types
<1>6. ASSUME NEW i \in 0 .. n, i # 0, i - 1 \in Good PROVE i \in Good
  <2>1. i \in 1 .. n /\ i \in 1 .. n + 1 /\ f[i - 1] = g[i - 1]
    BY <1>1, <1>6
  <2>2. f[i] = TypeOne(f[i - 1], text[i]) /\ g[i] = TypeOne(g[i - 1], more[i]) /\ more[i] = text[i]
    BY <1>1, <1>2, <1>3, <2>1 DEF Types
  <2>3. f[i] = g[i]
    BY <2>1, <2>2
  <2> QED
    BY <2>3
<1> HIDE DEF Good
<1>7. n \in Good
  <2>1. 0 .. n \subseteq Good
    BY <1>1, <1>5, <1>6, CountingUp
  <2> QED
    BY <1>1, <2>1
<1>8. f[n] = g[n]
  BY <1>7 DEF Good
<1>9. g[n + 1] = TypeOne(g[n], t)
  <2>1. n + 1 \in 1 .. n + 1 /\ (n + 1) - 1 = n
    BY <1>1
  <2> QED
    BY <1>1, <1>3, <2>1 DEF Types
<1> QED
  BY <1>2, <1>3, <1>8, <1>9 DEF more

(* A pen is set.                                                           *)
LEMMA PenTyped ==
  ASSUME NEW pen, NEW cells, NEW x
  PROVE  TypeOne([pen |-> pen, cells |-> cells], Sgr(x)) = [pen |-> ApplySgr(pen, x), cells |-> cells]
<1> DEFINE acc == [pen |-> pen, cells |-> cells]
           after == ApplySgr(pen, x)
<1>1. acc.pen = pen
  OBVIOUS
<1>2. Sgr(x)[1] = "sgr" /\ Sgr(x)[2] = x
  BY DEF Sgr
<1>3. TypeOne(acc, Sgr(x)) = [acc EXCEPT !.pen = ApplySgr(acc.pen, x)]
  <2> HIDE DEF acc
  <2> QED
    BY <1>2 DEF TypeOne
<1>4. [acc EXCEPT !.pen = after] = [pen |-> after, cells |-> cells]
  <2> HIDE DEF after
  <2> QED
    OBVIOUS
<1> QED
  BY <1>1, <1>3, <1>4

(* A character is written with the pen.                                    *)
LEMMA CharTyped ==
  ASSUME NEW pen, NEW cells, NEW x
  PROVE  TypeOne([pen |-> pen, cells |-> cells], Ch(x))
           = [pen   |-> pen,
              cells |-> Append(cells, [ch |-> x, fg |-> pen.fg, bg |-> pen.bg, attrs |-> pen.attrs])]
<1> DEFINE acc == [pen |-> pen, cells |-> cells]
           new == [ch |-> x, fg |-> pen.fg, bg |-> pen.bg, attrs |-> pen.attrs]
           longer == Append(cells, new)
<1>1. acc.pen = pen /\ acc.cells = cells
  OBVIOUS
<1>2. Ch(x)[1] # "sgr" /\ Ch(x)[2] = x
  BY DEF Ch
<1>3. TypeOne(acc, Ch(x))
        = [acc EXCEPT !.cells = Append(acc.cells, [ch |-> x, fg |-> acc.pen.fg, bg |-> acc.pen.bg,
                                                   attrs |-> acc.pen.attrs])]
  <2> HIDE DEF acc
  <2> QED
    BY <1>2 DEF TypeOne
<1>4. [acc EXCEPT !.cells = longer] = [pen |-> pen, cells |-> longer]
  <2> HIDE DEF longer
  <2> QED
    OBVIOUS
<1> QED
  BY <1>1, <1>3, <1>4

(* What a copied line is made of.                                          *)
Tokens(chars) == ({"sgr"} \X Seq(Nat)) \union ({"ch"} \X chars)

(* The tokens of a line are such.                                          *)
LEMMA TokensAre ==
  ASSUME NEW chars
  PROVE  /\ \A x \in Seq(Nat) : Sgr(x) \in Tokens(chars)
         /\ \A c \in chars : Ch(c) \in Tokens(chars)
         /\ Sgr(<<0>>) \in Tokens(chars)
<1>1. \A x \in Seq(Nat) : Sgr(x) \in Tokens(chars)
  BY DEF Tokens, Sgr
<1>2. \A c \in chars : Ch(c) \in Tokens(chars)
  BY DEF Tokens, Ch
<1>3. <<0>> \in Seq(Nat)
  OBVIOUS
<1> QED
  BY <1>1, <1>2, <1>3

PenBefore(cells, m) == IF m = 0 THEN Plain ELSE PenOf(cells[m])

Emitted(cells, i) ==
  (IF PenOf(cells[i]) = PenBefore(cells, i - 1) THEN <<>> ELSE <<Sgr(SgrOf(PenOf(cells[i])))>>)
    \o <<Ch(cells[i].ch)>>

(* A cell of some kind and its pen.                                        *)
LEMMA CellAndPen ==
  ASSUME NEW chars, NEW cell \in StyledCell(chars)
  PROVE  /\ cell.ch \in chars /\ PenOf(cell) \in Pens
         /\ cell = [ch    |-> cell.ch, fg |-> PenOf(cell).fg, bg |-> PenOf(cell).bg,
                    attrs |-> PenOf(cell).attrs]
BY DEF StyledCell, PenOf, Pens

(* The text of one cell is one.                                            *)
LEMMA EmittedIsText ==
  ASSUME NEW chars, NEW cells, NEW i, cells[i] \in StyledCell(chars)
  PROVE  Emitted(cells, i) \in Seq(Tokens(chars))
<1> DEFINE U == Tokens(chars)
           cell == cells[i]
           pen == PenOf(cell)
           sgr == Sgr(SgrOf(pen))
           c == Ch(cell.ch)
           same == pen = PenBefore(cells, i - 1)
           e == Emitted(cells, i)
<1>1. cell.ch \in chars /\ pen \in Pens
  <2> HIDE DEF cell
  <2> QED
    BY CellAndPen DEF cell
<1>2. SgrOf(pen) \in Seq(Nat)
  <2> HIDE DEF pen
  <2> QED
    BY <1>1, SgrGivesPen
<1>3. e = (IF same THEN <<>> ELSE <<sgr>>) \o <<c>>
  BY DEF Emitted
<1>4. sgr \in U /\ c \in U
  <2> HIDE DEF pen, cell
  <2> QED
    BY <1>1, <1>2, TokensAre
<1> HIDE DEF e, sgr, c, U, same
<1>5. <<>> \in Seq(U) /\ <<sgr>> \in Seq(U) /\ <<c>> \in Seq(U)
  BY <1>4
<1>6. e \in Seq(U)
  BY <1>3, <1>5
<1> QED
  BY <1>6 DEF e, U

(* The text of one cell, typed with the pen of the cell before.            *)
LEMMA CellTyped ==
  ASSUME NEW chars, NEW cells \in Seq(StyledCell(chars)), NEW m \in 1 .. Len(cells),
         NEW text \in Seq(Tokens(chars)), NEW shown,
         Typed(Plain, text) = [pen |-> PenBefore(cells, m - 1), cells |-> shown]
  PROVE  /\ Emitted(cells, m) \in Seq(Tokens(chars))
         /\ text \o Emitted(cells, m) \in Seq(Tokens(chars))
         /\ Typed(Plain, text \o Emitted(cells, m))
              = [pen |-> PenBefore(cells, m), cells |-> Append(shown, cells[m])]
<1> DEFINE U == Tokens(chars)
           cell == cells[m]
           pen == PenOf(cell)
           old == PenBefore(cells, m - 1)
           sgr == Sgr(SgrOf(pen))
           c == Ch(cell.ch)
           e == Emitted(cells, m)
<1>1. cell \in StyledCell(chars) /\ e \in Seq(U)
  BY EmittedIsText
<1>2. /\ cell.ch \in chars /\ pen \in Pens
      /\ [ch |-> cell.ch, fg |-> pen.fg, bg |-> pen.bg, attrs |-> pen.attrs] = cell
  <2> HIDE DEF cell
  <2> QED
    BY <1>1, CellAndPen
<1>3. PenBefore(cells, m) = pen
  BY DEF PenBefore
<1>4. e = (IF pen = old THEN <<>> ELSE <<sgr>>) \o <<c>>
  BY DEF Emitted
<1>5. SgrOf(pen) \in Seq(Nat) /\ ApplySgr(old, SgrOf(pen)) = pen
  <2> HIDE DEF pen, old
  <2> QED
    BY <1>2, SgrGivesPen
<1> HIDE DEF cell, pen, old, e
<1>6. sgr \in U /\ c \in U
  BY <1>2, <1>5, TokensAre
<1>7. /\ \A cs : TypeOne([pen |-> old, cells |-> cs], sgr) = [pen |-> pen, cells |-> cs]
      /\ \A cs : TypeOne([pen |-> pen, cells |-> cs], c) = [pen |-> pen, cells |-> Append(cs, cell)]
  <2>1. ASSUME NEW cs PROVE TypeOne([pen |-> old, cells |-> cs], sgr) = [pen |-> pen, cells |-> cs]
    <3> DEFINE x == SgrOf(pen)
    <3> HIDE DEF x
    <3>1. TypeOne([pen |-> old, cells |-> cs], Sgr(x)) = [pen |-> ApplySgr(old, x), cells |-> cs]
      BY ONLY PenTyped
    <3>2. ApplySgr(old, x) = pen
      BY <1>5 DEF x
    <3> QED
      BY ONLY <3>1, <3>2 DEF sgr, x
  <2>2. ASSUME NEW cs PROVE TypeOne([pen |-> pen, cells |-> cs], c) = [pen |-> pen, cells |-> Append(cs, cell)]
    <3> DEFINE x == cell.ch
               new == [ch |-> x, fg |-> pen.fg, bg |-> pen.bg, attrs |-> pen.attrs]
    <3>1. new = cell
      BY <1>2
    <3> HIDE DEF x
    <3>2. TypeOne([pen |-> pen, cells |-> cs], Ch(x)) = [pen |-> pen, cells |-> Append(cs, new)]
      BY ONLY CharTyped
    <3> HIDE DEF new
    <3> QED
      BY ONLY <3>1, <3>2 DEF c, x
  <2> QED
    BY <2>1, <2>2
<1>8. Typed(Plain, text) = [pen |-> old, cells |-> shown]
  BY DEF old
<1> DEFINE after == [pen |-> pen, cells |-> Append(shown, cell)]
<1> SUFFICES e \in Seq(U) /\ text \o e \in Seq(U) /\ Typed(Plain, text \o e) = after
  BY <1>3 DEF e, cell
<1> HIDE DEF U, sgr, c
<1>9. CASE pen = old
  <2>1. e = <<c>>
    <3>1. <<c>> \in Seq(U)
      BY <1>6
    <3> QED
      BY <1>4, <1>9, <3>1, ConcatEmptySeq
  <2>2. text \o e = Append(text, c) /\ e \in Seq(U) /\ text \o e \in Seq(U)
    BY <1>6, <2>1, AppendIsConcat DEF U
  <2>3. Typed(Plain, Append(text, c)) = TypeOne(Typed(Plain, text), c)
    BY <1>6, TypedGrows DEF U
  <2>4. TypeOne(Typed(Plain, text), c) = after
    BY <1>7, <1>8, <1>9
  <2> QED
    BY <2>2, <2>3, <2>4
<1>10. CASE pen # old
  <2> DEFINE one == Append(text, sgr)
  <2>1. e = <<sgr>> \o <<c>>
    BY <1>4, <1>10
  <2>2. e \in Seq(U) /\ one \in Seq(U) /\ text \in Seq(U)
    BY <1>6, <2>1 DEF U
  <2>3. text \o e = Append(one, c) /\ text \o e \in Seq(U)
    <3>1. <<sgr>> \in Seq(U) /\ <<c>> \in Seq(U)
      BY <1>6
    <3>2. text \o e = (text \o <<sgr>>) \o <<c>>
      BY <2>1, <2>2, <3>1, ConcatAssociative
    <3>3. text \o <<sgr>> = one
      BY <1>6, <2>2, AppendIsConcat
    <3> HIDE DEF one
    <3>4. one \o <<c>> = Append(one, c)
      BY <1>6, <2>2, AppendIsConcat
    <3>5. Append(one, c) \in Seq(U)
      BY <1>6, <2>2
    <3> QED
      BY <3>2, <3>3, <3>4, <3>5
  <2>4. Typed(Plain, one) = TypeOne(Typed(Plain, text), sgr)
    BY <1>6, <2>2, TypedGrows
  <2>5. Typed(Plain, one) = [pen |-> pen, cells |-> shown]
    BY <1>7, <1>8, <2>4
  <2> HIDE DEF one
  <2>6. Typed(Plain, Append(one, c)) = TypeOne(Typed(Plain, one), c)
    BY <1>6, <2>2, TypedGrows
  <2>7. TypeOne(Typed(Plain, one), c) = after
    BY <1>7, <2>5
  <2> QED
    BY <2>2, <2>3, <2>6, <2>7
<1> QED
  BY <1>9, <1>10

(* A copied line, typed into a terminal, is the line.                      *)
LEMMA LineTyped ==
  ASSUME NEW chars, NEW cells \in Seq(StyledCell(chars))
  PROVE  Typed(Plain, ToAnsi(cells)) = [pen |-> Plain, cells |-> cells]
<1> DEFINE n == Len(cells)
           U == Tokens(chars)
           emits == [i \in 1 .. n |-> Emitted(cells, i)]
           some(m) == SubSeq(emits, 1, m)
           F(m) == FlattenSeq(some(m))
           After(m) == [pen |-> PenBefore(cells, m), cells |-> SubSeq(cells, 1, m)]
           Right(f, m) == f \in Seq(U) /\ Typed(Plain, f) = After(m)
           Good == {m \in 0 .. n : Right(F(m), m)}
<1>1. n \in Nat /\ \A i \in 1 .. n : cells[i] \in StyledCell(chars)
  OBVIOUS
<1>2. \A i \in 1 .. n : Emitted(cells, i) \in Seq(U)
  BY <1>1, EmittedIsText
<1>3. emits \in Seq(Seq(U)) /\ Len(emits) = n /\ \A i \in 1 .. n : emits[i] = Emitted(cells, i)
  BY <1>1, <1>2
<1> DEFINE end == <<Sgr(<<0>>)>>
<1>4. ToAnsi(cells) = FlattenSeq(emits) \o end
  <2>1. \A i \in 1 .. n :
          (IF PenOf(cells[i]) = (IF i = 1 THEN Plain ELSE PenOf(cells[i - 1])) THEN <<>>
           ELSE <<Sgr(SgrOf(PenOf(cells[i])))>>) \o <<Ch(cells[i].ch)>> = Emitted(cells, i)
    <3> TAKE i \in 1 .. n
    <3>1. (i - 1 = 0) <=> (i = 1)
      OBVIOUS
    <3>2. (IF i = 1 THEN Plain ELSE PenOf(cells[i - 1])) = PenBefore(cells, i - 1)
      BY <3>1 DEF PenBefore
    <3> QED
      BY <3>2 DEF Emitted
  <2>2. [i \in 1 .. n |->
          (IF PenOf(cells[i]) = (IF i = 1 THEN Plain ELSE PenOf(cells[i - 1])) THEN <<>>
           ELSE <<Sgr(SgrOf(PenOf(cells[i])))>>) \o <<Ch(cells[i].ch)>>] = emits
    BY <2>1
  <2> HIDE DEF emits
  <2> QED
    BY <2>2 DEF ToAnsi
<1> HIDE DEF emits, n, U
<1>5. some(0) = <<>> /\ some(n) = emits /\ SubSeq(cells, 1, 0) = <<>> /\ SubSeq(cells, 1, n) = cells
  BY <1>1, <1>3, SubSeqEmpty, SubSeqFull DEF n
<1>6. 0 \in Good
  <2>1. F(0) = <<>>
    <3>1. <<>> \in Seq(U) /\ <<>> \in Seq(Seq(U))
      OBVIOUS
    <3> QED
      BY <1>5, <3>1, FlattenGrows
  <2>2. <<>> \in Seq(U) /\ Typed(Plain, <<>>) = [pen |-> Plain, cells |-> <<>>]
    <3>1. <<>> \in Seq(U)
      OBVIOUS
    <3> QED
      BY <3>1, TypedNothing
  <2>3. PenBefore(cells, 0) = Plain
    BY DEF PenBefore
  <2>4. Right(<<>>, 0)
    BY <1>5, <2>2, <2>3
  <2> HIDE DEF Right, F
  <2> QED
    BY <1>1, <2>1, <2>4
<1>7. ASSUME NEW m \in 0 .. n, m # 0, m - 1 \in Good PROVE m \in Good
  <2> DEFINE f == F(m - 1)
             e == Emitted(cells, m)
             shown == SubSeq(cells, 1, m - 1)
  <2>1. m \in 1 .. n /\ m \in 1 .. Len(cells) /\ 1 \in Nat \ {0} /\ m \in Nat /\ 1 <= m /\ m <= Len(emits)
        /\ m <= Len(cells)
    BY <1>1, <1>3, <1>7 DEF n
  <2>2. Right(f, m - 1)
    BY <1>7
  <2>3. some(m) = Append(some(m - 1), e) /\ some(m - 1) \in Seq(Seq(U)) /\ e \in Seq(U)
    <3>1. some(m - 1) \in Seq(Seq(U)) /\ some(m) = Append(some(m - 1), emits[m])
      BY <1>3, <2>1, PartGrows
    <3> QED
      BY <1>2, <1>3, <2>1, <3>1
  <2>4. F(m) = f \o e
    <3> HIDE DEF some, e
    <3> QED
      BY <2>3, FlattenGrows
  <2>5. SubSeq(cells, 1, m) = Append(shown, cells[m])
    BY <2>1, PartGrows
  <2>6. f \in Seq(U) /\ Typed(Plain, f) = [pen |-> PenBefore(cells, m - 1), cells |-> shown]
    BY <2>2
  <2> HIDE DEF f, e, shown, F, some, Good
  <2>7. f \o e \in Seq(U) /\ Typed(Plain, f \o e) = [pen |-> PenBefore(cells, m), cells |-> Append(shown, cells[m])]
    BY <2>1, <2>6, CellTyped DEF U, e
  <2>8. Right(F(m), m)
    BY <2>4, <2>5, <2>7
  <2> HIDE DEF Right
  <2> QED
    BY <2>8 DEF Good
<1> HIDE DEF Good
<1>8. n \in Good
  <2>1. 0 .. n \subseteq Good
    BY <1>1, <1>6, <1>7, CountingUp
  <2> QED
    BY <1>1, <2>1
<1>9. Right(FlattenSeq(emits), n)
  <2>1. Right(F(n), n)
    <3> HIDE DEF Right, F
    <3> QED
      BY <1>8 DEF Good
  <2> QED
    BY <1>5, <2>1
<1> DEFINE body == FlattenSeq(emits)
           last == Sgr(<<0>>)
           pen == PenBefore(cells, n)
<1>10. body \in Seq(U) /\ Typed(Plain, body) = [pen |-> pen, cells |-> cells]
  BY <1>5, <1>9
<1>11. last \in U /\ end = <<last>>
  BY TokensAre DEF U
<1>12. body \o end = Append(body, last)
  <2> HIDE DEF body, last
  <2> QED
    BY <1>10, <1>11, AppendIsConcat
<1>13. TypeOne([pen |-> pen, cells |-> cells], last) = [pen |-> ApplySgr(pen, <<0>>), cells |-> cells]
  <2> DEFINE zero == <<0>>
  <2> HIDE DEF pen, zero
  <2>1. TypeOne([pen |-> pen, cells |-> cells], Sgr(zero)) = [pen |-> ApplySgr(pen, zero), cells |-> cells]
    BY ONLY PenTyped
  <2> QED
    BY <2>1 DEF zero
<1>14. ApplySgr(pen, <<0>>) = Plain
  <2> HIDE DEF pen
  <2> QED
    BY ResetIsPlain
<1>15. Typed(Plain, Append(body, last)) = TypeOne(Typed(Plain, body), last)
  <2> HIDE DEF body, last
  <2> QED
    BY <1>10, <1>11, TypedGrows
<1> HIDE DEF body, last, pen, end
<1>16. ToAnsi(cells) = body \o end
  BY <1>4 DEF body
<1> QED
  BY <1>10, <1>12, <1>13, <1>14, <1>15, <1>16

(* What is lost of a record's end shows: a part of it is no record, or the *)
(* record of the cells before; and a copied line is the line.              *)
LEMMA LineComesBack ==
  ASSUME NEW chars, NEW cells \in Seq(StyledCell(chars)), NEW wrapped \in BOOLEAN
  PROVE  LineSurvives([cells |-> cells, wrapped |-> wrapped])
<1> DEFINE line == [cells |-> cells, wrapped |-> wrapped]
           bytes == Encode(line)
           U == chars \union 0 .. 255
           l == Len(cells)
           cut(n) == SubSeq(bytes, 1, n)
           before(k) == SubSeq(cells, 1, k)
<1>1. line.cells = cells /\ l \in Nat
  OBVIOUS
<1>2. /\ bytes \in Seq(U) /\ Len(bytes) = 10 * l + 1
      /\ \A k \in 0 .. l : Decode(cut(10 * k + 1)) = [cells |-> before(k), wrapped |-> wrapped]
  <2> HIDE DEF line
  <2>1. line = [cells |-> cells, wrapped |-> wrapped]
    BY DEF line
  <2>2. ReadBack(Encode(line), chars, cells, wrapped)
    BY <2>1, CutsAreRead
  <2> QED
    BY <2>2 DEF ReadBack
<1>3. Typed(Plain, ToAnsi(cells)) = [pen |-> Plain, cells |-> cells]
  BY LineTyped
<1>4. Decode(bytes) = line
  <2>1. cut(Len(bytes)) = bytes /\ before(l) = cells
    <3> HIDE DEF bytes, U
    <3> QED
      BY <1>2, SubSeqFull
  <2> HIDE DEF bytes, cut, before, l, U
  <2>2. Decode(cut(10 * l + 1)) = [cells |-> before(l), wrapped |-> wrapped]
    <3>1. l \in 0 .. l
      BY <1>1
    <3> QED
      BY ONLY <1>2, <3>1
  <2> QED
    BY <1>2, <2>1, <2>2 DEF line
<1> HIDE DEF bytes, line, U
<1>5. ASSUME NEW n \in 1 .. 10 * l
      PROVE  \/ Decode(cut(n)) = Failed
             \/ Len(Decode(cut(n)).cells) < l /\ IsPrefix(Decode(cut(n)).cells, cells)
  <2> DEFINE k == (n - 1) \div 10
             some == cut(n)
  <2>1. n \in Nat /\ n <= Len(bytes) /\ n # 0 /\ k \in Nat /\ k < l
    BY <1>1, <1>2
  <2>2. CASE (n - 1) % 10 = 0
    <3>1. n = 10 * k + 1 /\ k \in 0 .. l
      BY <2>1, <2>2
    <3> HIDE DEF k, some, cut
    <3>2. Decode(cut(n)) = [cells |-> before(k), wrapped |-> wrapped]
      BY <1>2, <3>1
    <3>3. Len(before(k)) = k
      BY <1>1, <2>1
    <3> HIDE DEF before
    <3>4. IsPrefix(before(k), cells)
      BY <1>1, <2>1, <3>3 DEF IsPrefix, before
    <3> QED
      BY <2>1, <3>2, <3>3, <3>4
  <2>3. CASE (n - 1) % 10 # 0
    <3>1. Len(some) = n
      BY <1>2, <2>1
    <3> HIDE DEF some
    <3>2. some # <<>> /\ (Len(some) - 1) % CellSize # 0
      BY <2>1, <2>3, <3>1 DEF CellSize
    <3>3. Decode(some) = Failed
      BY <3>2, Zenon DEF Decode
    <3> QED
      BY <3>3 DEF some
  <2> QED
    BY <2>2, <2>3
<1>6. \A n \in 0 .. Len(bytes) - 1 : n = 0 \/ n \in 1 .. 10 * l
  BY <1>1, <1>2
<1> HIDE DEF cut
<1>7. \A n \in 0 .. Len(bytes) - 1 :
        \/ Decode(cut(n)) = Failed
        \/ Len(Decode(cut(n)).cells) < Len(line.cells) /\ IsPrefix(Decode(cut(n)).cells, line.cells)
        \/ n = 0
  BY <1>1, <1>5, <1>6
<1>8. Typed(Plain, ToAnsi(line.cells)) = [pen |-> Plain, cells |-> line.cells]
  BY <1>1, <1>3
<1>9. LineSurvives(line)
  <2> HIDE DEF l
  <2> QED
    BY <1>4, <1>7, <1>8 DEF LineSurvives, bytes, cut
<1> QED
  BY <1>9 DEF line

-----------------------------------------------------------------------------
(* The import of OpenSSH configurations.                                   *)

(* A character of a glob from j, what follows from k.                      *)
Goes1(glob, name, i, j, k) ==
  IF glob[i] = "*" THEN j <= k ELSE k = j + 1 /\ glob[i] \in {"?", name[j]}

(* The rest of a glob from i laid over the rest of a name from j.          *)
Laid(glob, name, i, j, start) ==
  /\ start \in [i .. Len(glob) + 1 -> 1 .. Len(name) + 1]
  /\ start[i] = j /\ start[Len(glob) + 1] = Len(name) + 1
  /\ \A k \in i .. Len(glob) : Goes1(glob, name, k, start[k], start[k + 1])

Lays(glob, name, i, j) == \E start : Laid(glob, name, i, j, start)

(* It is when one character is, and what is behind it.                     *)
LEMMA LaysOne ==
  ASSUME NEW glob, NEW name, Len(glob) \in Nat, Len(name) \in Nat,
         NEW i \in 1 .. Len(glob), NEW j \in 1 .. Len(name) + 1
  PROVE  Lays(glob, name, i, j) <=>
           \E k \in 1 .. Len(name) + 1 : Lays(glob, name, i + 1, k) /\ Goes1(glob, name, i, j, k)
<1> DEFINE m == Len(glob)
           l == Len(name)
<1>1. m \in Nat /\ l \in Nat /\ i \in Nat /\ i <= m
  OBVIOUS
<1> HIDE DEF m, l
<1>2. ASSUME NEW start, Laid(glob, name, i, j, start)
      PROVE  \E k \in 1 .. l + 1 : Lays(glob, name, i + 1, k) /\ Goes1(glob, name, i, j, k)
  <2> DEFINE k == start[i + 1]
             rest == [x \in i + 1 .. m + 1 |-> start[x]]
  <2>1. /\ start \in [i .. m + 1 -> 1 .. l + 1] /\ start[i] = j /\ start[m + 1] = l + 1
        /\ \A x \in i .. m : Goes1(glob, name, x, start[x], start[x + 1])
    BY <1>2 DEF Laid, m, l
  <2>2. i \in i .. m /\ i + 1 \in i .. m + 1
    BY <1>1
  <2>3. k \in 1 .. l + 1 /\ Goes1(glob, name, i, j, k)
    BY <2>1, <2>2
  <2>4. \A x \in i + 1 .. m + 1 : x \in i .. m + 1
    BY <1>1
  <2>5. rest \in [i + 1 .. m + 1 -> 1 .. l + 1] /\ \A x \in i + 1 .. m + 1 : rest[x] = start[x]
    BY <2>1, <2>4
  <2>6. i + 1 \in i + 1 .. m + 1 /\ m + 1 \in i + 1 .. m + 1
        /\ \A x \in i + 1 .. m : x \in i + 1 .. m + 1 /\ x + 1 \in i + 1 .. m + 1 /\ x \in i .. m
    BY <1>1
  <2> HIDE DEF rest
  <2>7. rest[i + 1] = k /\ rest[m + 1] = l + 1
    BY <2>1, <2>5, <2>6
  <2> HIDE DEF k
  <2>8. \A x \in i + 1 .. m : Goes1(glob, name, x, rest[x], rest[x + 1])
    BY <2>1, <2>5, <2>6
  <2>9. Laid(glob, name, i + 1, k, rest)
    BY <2>5, <2>7, <2>8 DEF Laid, m, l
  <2> QED
    BY <2>3, <2>9 DEF Lays
<1>3. ASSUME NEW k \in 1 .. l + 1, NEW rest, Laid(glob, name, i + 1, k, rest), Goes1(glob, name, i, j, k)
      PROVE  Lays(glob, name, i, j)
  <2> DEFINE start == [x \in i .. m + 1 |-> IF x = i THEN j ELSE rest[x]]
  <2>1. /\ rest \in [i + 1 .. m + 1 -> 1 .. l + 1] /\ rest[i + 1] = k /\ rest[m + 1] = l + 1
        /\ \A x \in i + 1 .. m : Goes1(glob, name, x, rest[x], rest[x + 1])
    BY <1>3 DEF Laid, m, l
  <2>2. \A x \in i .. m + 1 : x # i => x \in i + 1 .. m + 1
    BY <1>1
  <2>3. j \in 1 .. l + 1
    BY DEF l
  <2>4. start \in [i .. m + 1 -> 1 .. l + 1]
    BY <2>1, <2>2, <2>3
  <2>5. i \in i .. m + 1 /\ \A x \in i + 1 .. m + 1 : x \in i .. m + 1 /\ x # i
    BY <1>1
  <2>6. start[i] = j /\ \A x \in i + 1 .. m + 1 : start[x] = rest[x]
    BY <2>5
  <2> HIDE DEF start
  <2>7. i + 1 \in i + 1 .. m + 1 /\ m + 1 \in i + 1 .. m + 1
    BY <1>1
  <2>8. start[m + 1] = l + 1 /\ start[i + 1] = k
    BY <2>1, <2>6, <2>7
  <2>9. ASSUME NEW x \in i .. m PROVE Goes1(glob, name, x, start[x], start[x + 1])
    <3>1. CASE x = i
      BY <1>3, <2>6, <2>8, <3>1
    <3>2. CASE x # i
      <4>1. x \in i + 1 .. m /\ x \in i + 1 .. m + 1 /\ x + 1 \in i + 1 .. m + 1
        BY <1>1, <3>2
      <4> QED
        BY <2>1, <2>6, <4>1
    <3> QED
      BY <3>1, <3>2
  <2>10. Laid(glob, name, i, j, start)
    BY <2>4, <2>6, <2>8, <2>9 DEF Laid, m, l
  <2> QED
    BY <2>10 DEF Lays
<1>4. Lays(glob, name, i, j) => \E k \in 1 .. l + 1 : Lays(glob, name, i + 1, k) /\ Goes1(glob, name, i, j, k)
  BY <1>2 DEF Lays
<1>5. (\E k \in 1 .. l + 1 : Lays(glob, name, i + 1, k) /\ Goes1(glob, name, i, j, k)) => Lays(glob, name, i, j)
  <2> SUFFICES ASSUME NEW k \in 1 .. l + 1, Lays(glob, name, i + 1, k), Goes1(glob, name, i, j, k)
               PROVE  Lays(glob, name, i, j)
    OBVIOUS
  <2>1. PICK rest : Laid(glob, name, i + 1, k, rest)
    BY DEF Lays
  <2> QED
    BY <1>3, <2>1
<1> QED
  BY <1>4, <1>5 DEF l

(* Behind the last character there is nothing left to lay.                 *)
LEMMA LaysNone ==
  ASSUME NEW glob, NEW name, Len(glob) \in Nat, Len(name) \in Nat, NEW j \in 1 .. Len(name) + 1
  PROVE  Lays(glob, name, Len(glob) + 1, j) <=> j > Len(name)
<1> DEFINE e == Len(glob) + 1
           l == Len(name)
<1>1. l \in Nat /\ e \in Nat /\ j \in 1 .. l + 1 /\ (j > l <=> j = l + 1)
  OBVIOUS
<1>2. \A start : Laid(glob, name, e, j, start) => j = l + 1
  BY DEF Laid
<1>3. j = l + 1 => Laid(glob, name, e, j, [x \in e .. e |-> j])
  <2>1. e \in e .. e /\ \A x \in e .. Len(glob) : FALSE
    OBVIOUS
  <2> QED
    BY <1>1, <2>1 DEF Laid
<1> QED
  BY <1>1, <1>2, <1>3 DEF Lays

(* The cases of glob_match_rec.                                            *)
LEMMA LaysCases ==
  ASSUME NEW glob, NEW name, Len(glob) \in Nat, Len(name) \in Nat,
         NEW i \in 1 .. Len(glob), NEW j \in 1 .. Len(name) + 1
  PROVE  /\ glob[i] = "*" =>
              (Lays(glob, name, i, j) <=>
                 Lays(glob, name, i + 1, j) \/ (j <= Len(name) /\ Lays(glob, name, i, j + 1)))
         /\ glob[i] # "*" =>
              (Lays(glob, name, i, j) <=>
                 j <= Len(name) /\ glob[i] \in {"?", name[j]} /\ Lays(glob, name, i + 1, j + 1))
<1> DEFINE l == Len(name)
           L(x, y) == Lays(glob, name, x, y)
           G(y, k) == Goes1(glob, name, i, y, k)
<1>1. l \in Nat /\ j \in 1 .. l + 1 /\ (j <= l => j + 1 \in 1 .. l + 1) /\ (j + 1 \in 1 .. l + 1 => j <= l)
  OBVIOUS
<1>2. \A y \in 1 .. l + 1 : L(i, y) <=> \E k \in 1 .. l + 1 : L(i + 1, k) /\ G(y, k)
  BY LaysOne
<1> HIDE DEF L
<1>3. CASE glob[i] = "*"
  <2>1. \A y, k : G(y, k) <=> y <= k
    BY <1>3 DEF Goes1
  <2> HIDE DEF G, l
  <2>2. L(i, j) <=> L(i + 1, j) \/ (j <= l /\ L(i, j + 1))
    <3>1. L(i + 1, j) => L(i, j)
      BY <1>1, <1>2, <2>1
    <3>2. j <= l /\ L(i, j + 1) => L(i, j)
      <4> SUFFICES ASSUME j <= l, L(i, j + 1) PROVE L(i, j)
        OBVIOUS
      <4>1. PICK k \in 1 .. l + 1 : L(i + 1, k) /\ G(j + 1, k)
        BY <1>1, <1>2
      <4>2. G(j, k)
        BY <1>1, <2>1, <4>1
      <4> QED
        BY <1>1, <1>2, <4>1, <4>2
    <3>3. L(i, j) => L(i + 1, j) \/ (j <= l /\ L(i, j + 1))
      <4> SUFFICES ASSUME L(i, j), ~L(i + 1, j) PROVE j <= l /\ L(i, j + 1)
        OBVIOUS
      <4>1. PICK k \in 1 .. l + 1 : L(i + 1, k) /\ G(j, k)
        BY <1>1, <1>2
      <4>2. k # j /\ j <= k
        BY <2>1, <4>1
      <4>3. j <= l /\ G(j + 1, k)
        BY <1>1, <2>1, <4>2
      <4> QED
        BY <1>1, <1>2, <4>1, <4>3
    <3> QED
      BY <3>1, <3>2, <3>3
  <2> QED
    BY <1>3, <2>2 DEF L, l
<1>4. CASE glob[i] # "*"
  <2>1. \A y, k : G(y, k) <=> k = y + 1 /\ glob[i] \in {"?", name[y]}
    BY <1>4 DEF Goes1
  <2> HIDE DEF G, l
  <2>2. L(i, j) <=> j <= l /\ glob[i] \in {"?", name[j]} /\ L(i + 1, j + 1)
    BY <1>1, <1>2, <2>1
  <2> QED
    BY <1>4, <2>2 DEF L, l
<1> QED
  BY <1>3, <1>4

(* glob_match_rec says of every rest of a glob and every rest of a name    *)
(* whether the one can be laid over the other.                             *)
Answer(m, glob, name, i, j) ==
  IF i > Len(glob) THEN j > Len(name)
  ELSE IF glob[i] = "*" THEN m[<<i + 1, j>>] \/ (j <= Len(name) /\ m[<<i, j + 1>>])
  ELSE /\ j <= Len(name)
       /\ glob[i] \in {"?", name[j]}
       /\ m[<<i + 1, j + 1>>]

(* It answers for each rest by what it answers for shorter ones.           *)
LEMMA GlobMatchIs ==
  ASSUME NEW glob, NEW name, Len(glob) \in Nat, Len(name) \in Nat
  PROVE  \E m : /\ GlobMatch(glob, name) = m[<<1, 1>>]
                /\ \A i \in 1 .. Len(glob) + 1, j \in 1 .. Len(name) + 1 :
                     m[<<i, j>>] = Answer(m, glob, name, i, j)
<1> DEFINE e == Len(glob)
           l == Len(name)
           R == Rests(glob, name)
           Solves(m) == m = [p \in R |-> Answer(m, glob, name, p[1], p[2])]
           laid == [p \in R |-> Lays(glob, name, p[1], p[2])]
           c == CHOOSE m : Solves(m)
<1>1. e \in Nat /\ l \in Nat
  OBVIOUS
<1>2. \A x \in 1 .. e + 1, y \in 1 .. l + 1 : <<x, y>> \in R
  BY DEF Rests
<1>3. \A p \in R : p[1] \in 1 .. e + 1 /\ p[2] \in 1 .. l + 1 /\ p = <<p[1], p[2]>>
  BY DEF Rests
<1> HIDE DEF R
<1>4. ASSUME NEW i \in 1 .. e + 1, NEW j \in 1 .. l + 1
      PROVE  Lays(glob, name, i, j) = Answer(laid, glob, name, i, j)
  <2>1. \A x \in 1 .. e + 1, y \in 1 .. l + 1 : laid[<<x, y>>] = Lays(glob, name, x, y)
    BY <1>2
  <2> HIDE DEF laid
  <2>2. Lays(glob, name, i, j) \in BOOLEAN
    BY DEF Lays
  <2>3. CASE i > e
    <3>1. i = e + 1
      BY <1>1, <2>3
    <3>2. Lays(glob, name, i, j) <=> j > l
      BY <3>1, LaysNone
    <3> QED
      BY <2>2, <2>3, <3>2 DEF Answer
  <2>4. CASE i <= e
    <3>1. i \in 1 .. Len(glob) /\ i + 1 \in 1 .. e + 1 /\ ~(i > Len(glob)) /\ (j <= l => j + 1 \in 1 .. l + 1)
      BY <1>1, <2>4
    <3>2. /\ laid[<<i + 1, j>>] = Lays(glob, name, i + 1, j)
          /\ j <= l => laid[<<i, j + 1>>] = Lays(glob, name, i, j + 1)
          /\ j <= l => laid[<<i + 1, j + 1>>] = Lays(glob, name, i + 1, j + 1)
      BY <2>1, <3>1
    <3>3. /\ glob[i] = "*" =>
               (Lays(glob, name, i, j) <=>
                  Lays(glob, name, i + 1, j) \/ (j <= l /\ Lays(glob, name, i, j + 1)))
          /\ glob[i] # "*" =>
               (Lays(glob, name, i, j) <=>
                  j <= l /\ glob[i] \in {"?", name[j]} /\ Lays(glob, name, i + 1, j + 1))
      BY <3>1, LaysCases
    <3> QED
      BY <2>2, <3>1, <3>2, <3>3 DEF Answer
  <2> QED
    BY <1>1, <2>3, <2>4
<1>5. Solves(laid)
  <2>1. \A p \in R : Lays(glob, name, p[1], p[2]) = Answer(laid, glob, name, p[1], p[2])
    BY <1>3, <1>4
  <2> QED
    BY <2>1
<1>6. Solves(c)
  <2> HIDE DEF Solves, laid
  <2> QED
    BY <1>5, Zenon
<1>7. GlobMatch(glob, name) = c[<<1, 1>>]
  BY Zenon DEF GlobMatch, Answer, R
<1> HIDE DEF c
<1>8. \A p \in R : c[p] = Answer(c, glob, name, p[1], p[2])
  BY <1>6
<1>9. \A i \in 1 .. e + 1, j \in 1 .. l + 1 : c[<<i, j>>] = Answer(c, glob, name, i, j)
  <2> TAKE i \in 1 .. e + 1, j \in 1 .. l + 1
  <2>1. <<i, j>> \in R /\ <<i, j>>[1] = i /\ <<i, j>>[2] = j
    BY <1>2
  <2> QED
    BY <1>8, <2>1
<1> QED
  BY <1>7, <1>9

(* So it answers as it should.                                             *)
LEMMA GlobMatchLays ==
  ASSUME NEW glob, NEW name, Len(glob) \in Nat, Len(name) \in Nat
  PROVE  GlobMatch(glob, name) <=> Lays(glob, name, 1, 1)
<1> DEFINE e == Len(glob)
           l == Len(name)
<1>1. e \in Nat /\ l \in Nat
  OBVIOUS
<1>2. PICK m : /\ GlobMatch(glob, name) = m[<<1, 1>>]
               /\ \A i \in 1 .. e + 1, j \in 1 .. l + 1 : m[<<i, j>>] = Answer(m, glob, name, i, j)
  BY GlobMatchIs
<1> DEFINE Right(i, j) == m[<<i, j>>] <=> Lays(glob, name, i, j)
           All(i) == \A j \in 1 .. l + 1 : Right(i, j)
           Good == {r \in 0 .. e : All(e + 1 - r)}
<1>3. 0 \in Good
  <2>1. ASSUME NEW j \in 1 .. l + 1 PROVE Right(e + 1, j)
    <3>1. e + 1 \in 1 .. e + 1 /\ e + 1 > e
      BY <1>1
    <3>2. m[<<e + 1, j>>] = Answer(m, glob, name, e + 1, j)
      BY <1>2, <3>1
    <3>3. m[<<e + 1, j>>] = (j > l)
      BY <3>1, <3>2 DEF Answer
    <3> QED
      BY <3>3, LaysNone
  <2>2. e + 1 - 0 = e + 1
    BY <1>1
  <2> QED
    BY <1>1, <2>1, <2>2
<1>4. ASSUME NEW r \in 0 .. e, r # 0, r - 1 \in Good PROVE r \in Good
  <2> DEFINE i == e + 1 - r
  <2>1. i \in 1 .. e /\ i \in 1 .. e + 1 /\ e + 1 - (r - 1) = i + 1 /\ ~(i > e)
    BY <1>1, <1>4
  <2>2. All(i + 1)
    BY <1>4, <2>1
  <2> HIDE DEF i
  <2>3. ASSUME NEW j \in 1 .. l + 1 PROVE m[<<i, j>>] = Answer(m, glob, name, i, j)
    BY <1>2, <2>1
  <2>4. ASSUME glob[i] = "*" PROVE All(i)
    <3> DEFINE Well == {s \in 0 .. l : Right(i, l + 1 - s)}
    <3>1. ASSUME NEW j \in 1 .. l + 1, j <= l => Right(i, j + 1) PROVE Right(i, j)
      <4>1. m[<<i, j>>] = (m[<<i + 1, j>>] \/ (j <= l /\ m[<<i, j + 1>>]))
        BY <2>1, <2>3, <2>4 DEF Answer
      <4>2. Lays(glob, name, i, j) <=> Lays(glob, name, i + 1, j) \/ (j <= l /\ Lays(glob, name, i, j + 1))
        BY <2>1, <2>4, LaysCases
      <4>3. Right(i + 1, j)
        BY <2>2
      <4> QED
        BY <3>1, <4>1, <4>2, <4>3
    <3> HIDE DEF Right
    <3>2. 0 \in Well
      <4>1. l + 1 \in 1 .. l + 1 /\ ~(l + 1 <= l) /\ l + 1 - 0 = l + 1
        BY <1>1
      <4> QED
        BY <1>1, <3>1, <4>1
    <3>3. ASSUME NEW s \in 0 .. l, s # 0, s - 1 \in Well PROVE s \in Well
      <4>1. l + 1 - s \in 1 .. l + 1 /\ l + 1 - (s - 1) = (l + 1 - s) + 1
        BY <1>1, <3>3
      <4>2. Right(i, (l + 1 - s) + 1)
        BY <3>3, <4>1
      <4>3. Right(i, l + 1 - s)
        BY <3>1, <4>1, <4>2
      <4> QED
        BY <4>3
    <3> HIDE DEF Well
    <3>4. 0 .. l \subseteq Well
      BY <1>1, <3>2, <3>3, CountingUp
    <3>5. ASSUME NEW j \in 1 .. l + 1 PROVE Right(i, j)
      <4>1. l + 1 - j \in 0 .. l /\ l + 1 - (l + 1 - j) = j
        BY <1>1
      <4>2. l + 1 - j \in Well
        BY <3>4, <4>1
      <4> QED
        BY <4>1, <4>2 DEF Well
    <3> QED
      BY <3>5
  <2>5. ASSUME glob[i] # "*" PROVE All(i)
    <3> SUFFICES ASSUME NEW j \in 1 .. l + 1 PROVE Right(i, j)
      OBVIOUS
    <3>1. m[<<i, j>>] = (j <= l /\ glob[i] \in {"?", name[j]} /\ m[<<i + 1, j + 1>>])
      BY <2>1, <2>3, <2>5 DEF Answer
    <3>2. Lays(glob, name, i, j) <=>
            j <= l /\ glob[i] \in {"?", name[j]} /\ Lays(glob, name, i + 1, j + 1)
      BY <2>1, <2>5, LaysCases
    <3>3. j <= l => Right(i + 1, j + 1)
      <4>1. j <= l => j + 1 \in 1 .. l + 1
        BY <1>1
      <4> QED
        BY <2>2, <4>1
    <3> QED
      BY <3>1, <3>2, <3>3
  <2>6. All(i)
    BY <2>4, <2>5
  <2> HIDE DEF All
  <2> QED
    BY <2>6 DEF i
<1> HIDE DEF Good
<1>5. e \in Good
  <2>1. 0 .. e \subseteq Good
    BY <1>1, <1>3, <1>4, CountingUp
  <2> QED
    BY <1>1, <2>1
<1>6. Right(1, 1)
  <2>1. All(e + 1 - e)
    BY <1>5 DEF Good
  <2>2. e + 1 - e = 1 /\ 1 \in 1 .. l + 1
    BY <1>1
  <2> QED
    BY <2>1, <2>2
<1> QED
  BY <1>2, <1>6

(* A glob matches a name when it covers it.                                *)
LEMMA GlobCovers ==
  ASSUME NEW glob, NEW name, Len(glob) \in Nat, Len(name) \in Nat
  PROVE  GlobMatch(glob, name) <=> Covers(glob, name)
<1>1. Lays(glob, name, 1, 1) <=> Covers(glob, name)
  BY DEF Lays, Laid, Goes1, Covers
<1> QED
  BY <1>1, GlobMatchLays

(* The criteria of a line.                                                 *)
LEMMA CriteriaAre ==
  ASSUME NEW chars, NEW line, IsLine(line, chars), line.key \in {"host", "match"}
  PROVE  /\ Criteria(line).of \in {"host", "user", "all", "unsupported"}
         /\ Criteria(line).patterns \in Seq(Pattern(chars))
<1>1. <<>> \in Seq(Pattern(chars))
  OBVIOUS
<1>2. CASE line.key = "host"
  BY <1>2 DEF Criteria, IsLine
<1>3. CASE line.key # "host" /\ line.words = <<"all">>
  BY <1>1, <1>3 DEF Criteria
<1>4. CASE line.key # "host" /\ line.words # <<"all">> /\ Len(line.words) = 2
           /\ line.words[1] \in {"host", "user"}
  <2>1. line.words[2] \in Seq(Pattern(chars))
    BY <1>4 DEF IsLine
  <2>2. Criteria(line) = [of |-> line.words[1], patterns |-> line.words[2]]
    BY <1>4 DEF Criteria
  <2> QED
    BY <1>4, <2>1, <2>2
<1>5. CASE line.key # "host" /\ line.words # <<"all">>
           /\ ~(Len(line.words) = 2 /\ line.words[1] \in {"host", "user"})
  <2>1. Criteria(line) = [of |-> "unsupported", patterns |-> <<>>]
    BY <1>5, Zenon DEF Criteria
  <2> QED
    BY <1>1, <2>1
<1> QED
  BY <1>2, <1>3, <1>4, <1>5

(* Patterns match by what they cover.                                      *)
LEMMA PatternsCover ==
  ASSUME NEW chars, NEW patterns \in Seq(Pattern(chars)), NEW name \in Seq(chars)
  PROVE  PatternsMatch(patterns, name) <=>
           /\ \E p \in ToSet(patterns) : ~p.negated /\ Covers(p.glob, name)
           /\ \A p \in ToSet(patterns) : p.negated => ~Covers(p.glob, name)
<1>1. \A i \in DOMAIN patterns : patterns[i] \in Pattern(chars)
  OBVIOUS
<1>2. ASSUME NEW i \in DOMAIN patterns
      PROVE  GlobMatch(patterns[i].glob, name) <=> Covers(patterns[i].glob, name)
  <2> DEFINE glob == patterns[i].glob
  <2>1. Len(glob) \in Nat /\ Len(name) \in Nat
    BY <1>1 DEF Pattern
  <2> HIDE DEF glob
  <2>2. GlobMatch(glob, name) <=> Covers(glob, name)
    BY <2>1, GlobCovers
  <2> QED
    BY <2>2 DEF glob
<1> QED
  BY <1>2 DEF PatternsMatch, ToSet

(* A Host or Match line applies when its criteria match.                   *)
LEMMA MatchApplies ==
  ASSUME NEW chars, NEW line, IsLine(line, chars), line.key \in {"host", "match"},
         NEW alias \in Seq(chars), NEW user \in Seq(chars)
  PROVE  CriteriaMatch(Criteria(line), alias, user) <=> Applies(line, alias, user)
<1> DEFINE c == Criteria(line)
           name == IF c.of = "user" THEN user ELSE alias
           some == /\ \E p \in ToSet(c.patterns) : ~p.negated /\ Covers(p.glob, name)
                   /\ \A p \in ToSet(c.patterns) : p.negated => ~Covers(p.glob, name)
<1>1. c.of \in {"host", "user", "all", "unsupported"} /\ c.patterns \in Seq(Pattern(chars))
  BY CriteriaAre
<1>2. Applies(line, alias, user) <=> c.of = "all" \/ (c.of \in {"host", "user"} /\ some)
  BY DEF Applies
<1> HIDE DEF c
<1>3. PatternsMatch(c.patterns, name) <=> some
  <2>1. name \in Seq(chars)
    OBVIOUS
  <2> HIDE DEF name
  <2> QED
    BY <1>1, <2>1, PatternsCover
<1>4. CASE c.of = "host"
  BY <1>2, <1>3, <1>4 DEF CriteriaMatch, c
<1>5. CASE c.of = "user"
  BY <1>2, <1>3, <1>5 DEF CriteriaMatch, c
<1>6. CASE c.of \in {"all", "unsupported"}
  BY <1>2, <1>6 DEF CriteriaMatch, c
<1> QED
  BY <1>1, <1>4, <1>5, <1>6

(* Blocks with criteria in C, keys in K and values in V.                   *)
Block(C, K, V) == [criteria : C, directives : Seq([key : K, value : V])]

(* The least of some numbers is the one that is in them and below them.    *)
LEMMA LeastIs ==
  ASSUME NEW n \in Nat, NEW S \in SUBSET (1 .. n)
  PROVE  /\ S # {} => Min(S) \in S /\ \A y \in S : Min(S) <= y
         /\ \A k \in S : (\A y \in S : k <= y) => Min(S) = k
<1>1. \A x \in S : x \in Nat
  OBVIOUS
<1>2. S # {} => \E k \in S : \A y \in S : k <= y
  <2> SUFFICES ASSUME S # {} PROVE \E k \in S : \A y \in S : k <= y
    OBVIOUS
  <2>1. S \in SUBSET Nat
    BY <1>1
  <2> QED
    BY <2>1, LeastNumber
<1>3. S # {} => Min(S) \in S /\ \A y \in S : Min(S) <= y
  BY <1>2, Zenon DEF Min
<1>4. ASSUME NEW k \in S, \A y \in S : k <= y PROVE Min(S) = k
  <2> DEFINE m == Min(S)
  <2>1. m \in S /\ m <= k
    BY <1>3, <1>4
  <2> HIDE DEF m
  <2>2. k <= m /\ k \in Nat /\ m \in Nat
    BY <1>1, <1>4, <2>1
  <2>3. m = k
    BY <2>1, <2>2
  <2> QED
    BY <2>3 DEF m
<1> QED
  BY <1>3, <1>4

(* A key is looked up where it is set first.                               *)
LEMMA LookupFinds ==
  ASSUME NEW C, NEW K, NEW V, NEW blocks \in Seq(Block(C, K, V)), NEW alias, NEW user, NEW key
  PROVE  /\ SetFor(blocks, alias, user, key) = {} <=> Lookup(blocks, alias, user, key) = None
         /\ \A b \in SetFor(blocks, alias, user, key) : \A d \in SetIn(blocks[b], key) :
              /\ \A x \in SetFor(blocks, alias, user, key) : b <= x
              /\ \A y \in SetIn(blocks[b], key) : d <= y
              => Lookup(blocks, alias, user, key) = Some(blocks[b].directives[d].value)
<1> DEFINE hits == SetFor(blocks, alias, user, key)
<1>1. hits \in SUBSET (1 .. Len(blocks)) /\ Len(blocks) \in Nat
  BY DEF SetFor
<1>2. \A b \in hits : Len(blocks[b].directives) \in Nat
  BY <1>1 DEF Block
<1>3. \A b : SetIn(blocks[b], key) \in SUBSET (1 .. Len(blocks[b].directives))
  BY DEF SetIn
<1>4. \A v : Some(v) # None
  BY DEF Some, None
<1> HIDE DEF hits
<1>5. Lookup(blocks, alias, user, key)
        = IF hits = {} THEN None
          ELSE Some(blocks[Min(hits)].directives[Min(SetIn(blocks[Min(hits)], key))].value)
  BY DEF Lookup, hits
<1>6. hits = {} <=> Lookup(blocks, alias, user, key) = None
  BY <1>4, <1>5
<1>7. ASSUME NEW b \in hits, NEW d \in SetIn(blocks[b], key), \A x \in hits : b <= x,
             \A y \in SetIn(blocks[b], key) : d <= y
      PROVE  Lookup(blocks, alias, user, key) = Some(blocks[b].directives[d].value)
  <2> DEFINE own == SetIn(blocks[b], key)
             l == Len(blocks[b].directives)
  <2>1. l \in Nat /\ own \in SUBSET (1 .. l) /\ d \in own /\ \A y \in own : d <= y
    BY <1>2, <1>3, <1>7
  <2> HIDE DEF own, l
  <2>2. Min(own) = d
    BY <2>1, LeastIs
  <2>3. Min(hits) = b
    BY <1>1, <1>7, LeastIs
  <2>4. hits # {}
    BY <1>7
  <2> QED
    BY <1>5, <2>2, <2>3, <2>4 DEF own
<1> QED
  BY <1>6, <1>7 DEF hits

(* What one pass knows when blocks are what it has read.                   *)
After(blocks, alias, user, key) ==
  [on    |-> blocks # <<>> /\ CriteriaMatch(blocks[Len(blocks)].criteria, alias, user),
   value |-> Lookup(blocks, alias, user, key)]

(* A line opens a block, or sets a key in the last one.                    *)
Fits1(line, C, K, V) ==
  /\ line.key \in {"host", "match"} => Criteria(line) \in C
  /\ line.key \notin {"host", "match"} => line.key \in K /\ line.words \in V

(* A Host or Match line opens a block that sets nothing yet.               *)
LEMMA HeaderRead ==
  ASSUME NEW C, NEW K, NEW V, NEW blocks \in Seq(Block(C, K, V)), NEW line, Fits1(line, C, K, V),
         line.key \in {"host", "match"}, NEW alias, NEW user, NEW key,
         CriteriaMatch(Criteria(line), alias, user) <=> Applies(line, alias, user)
  PROVE  /\ ReadLine(blocks, line) \in Seq(Block(C, K, V))
         /\ PassLine(After(blocks, alias, user, key), line, alias, user, key)
              = After(ReadLine(blocks, line), alias, user, key)
<1> DEFINE new == [criteria |-> Criteria(line), directives |-> <<>>]
           more == Append(blocks, new)
           l == Len(blocks)
           hits(x) == SetFor(x, alias, user, key)
           acc == After(blocks, alias, user, key)
<1>1. ReadLine(blocks, line) = more
  BY DEF ReadLine
<1>2. new \in Block(C, K, V)
  BY DEF Fits1, Block
<1>3. SetIn(new, key) = {}
  BY DEF SetIn
<1>4. new.criteria = Criteria(line)
  OBVIOUS
<1> HIDE DEF new
<1>5. /\ more \in Seq(Block(C, K, V)) /\ Len(more) = l + 1 /\ more[l + 1] = new /\ l \in Nat
      /\ \A i \in 1 .. l : more[i] = blocks[i]
  BY <1>2, AppendProperties
<1> HIDE DEF more, l
<1>6. hits(more) = hits(blocks)
  <2>1. \A b \in 1 .. l + 1 : b = l + 1 \/ b \in 1 .. l
    BY <1>5
  <2>2. \A b \in 1 .. l : b \in 1 .. l + 1
    BY <1>5
  <2> QED
    BY <1>3, <1>5, <2>1, <2>2 DEF SetFor, l
<1>7. Lookup(more, alias, user, key) = Lookup(blocks, alias, user, key)
  <2>1. hits(blocks) \in SUBSET (1 .. l)
    BY DEF SetFor, l
  <2>2. hits(blocks) # {} => Min(hits(blocks)) \in 1 .. l
    <3> HIDE DEF hits
    <3> QED
      BY <1>5, <2>1, LeastIs
  <2>3. hits(blocks) # {} => more[Min(hits(blocks))] = blocks[Min(hits(blocks))]
    BY <1>5, <2>2
  <2> QED
    BY <1>6, <2>3 DEF Lookup
<1>8. more # <<>> /\ more[Len(more)].criteria = Criteria(line)
  BY <1>4, <1>5
<1>9. PassLine(acc, line, alias, user, key) = [acc EXCEPT !.on = Applies(line, alias, user)]
  BY DEF PassLine
<1>10. [acc EXCEPT !.on = Applies(line, alias, user)]
         = [on |-> Applies(line, alias, user), value |-> Lookup(blocks, alias, user, key)]
  BY DEF After
<1>11. Applies(line, alias, user) = (more # <<>> /\ CriteriaMatch(more[Len(more)].criteria, alias, user))
  <2>1. Applies(line, alias, user) \in BOOLEAN
    BY DEF Applies
  <2>2. (more # <<>> /\ CriteriaMatch(more[Len(more)].criteria, alias, user)) <=> Applies(line, alias, user)
    BY <1>8
  <2> QED
    BY <2>1, <2>2
<1>12. After(more, alias, user, key)
         = [on |-> Applies(line, alias, user), value |-> Lookup(blocks, alias, user, key)]
  BY <1>7, <1>11 DEF After
<1> QED
  BY <1>1, <1>5, <1>9, <1>10, <1>12

(* Any other line sets a key in the last block, if there is one.           *)
LEMMA DirectiveRead ==
  ASSUME NEW C, NEW K, NEW V, NEW blocks \in Seq(Block(C, K, V)), NEW line, Fits1(line, C, K, V),
         line.key \notin {"host", "match"}, NEW alias, NEW user, NEW key
  PROVE  /\ ReadLine(blocks, line) \in Seq(Block(C, K, V))
         /\ PassLine(After(blocks, alias, user, key), line, alias, user, key)
              = After(ReadLine(blocks, line), alias, user, key)
<1> DEFINE acc == After(blocks, alias, user, key)
           l == Len(blocks)
<1>1. PassLine(acc, line, alias, user, key)
        = IF acc.on /\ line.key = key /\ acc.value = None THEN [acc EXCEPT !.value = Some(line.words)] ELSE acc
  BY DEF PassLine
<1>2. CASE blocks = <<>>
  <2>1. ReadLine(blocks, line) = blocks
    BY <1>2 DEF ReadLine
  <2>2. ~acc.on
    BY <1>2 DEF After
  <2> HIDE DEF acc
  <2>3. PassLine(acc, line, alias, user, key) = acc
    BY <1>1, <2>2
  <2> QED
    BY <2>1, <2>3 DEF acc
<1>3. CASE blocks # <<>>
  <2> DEFINE last == blocks[l]
             d == last.directives
             n == Len(d)
             new == [key |-> line.key, value |-> line.words]
             ds == Append(d, new)
             grown == [last EXCEPT !.directives = ds]
             more == [blocks EXCEPT ![l] = grown]
             hits(x) == SetFor(x, alias, user, key)
  <2>1. l \in Nat /\ l \in 1 .. l /\ last \in Block(C, K, V) /\ \A i \in 1 .. l : i <= l
    BY <1>3
  <2>2. d \in Seq([key : K, value : V]) /\ n \in Nat /\ new \in [key : K, value : V]
    BY <2>1 DEF Block, Fits1
  <2>3. ReadLine(blocks, line) = more
    BY <1>3, Zenon DEF ReadLine
  <2> HIDE DEF d, last, new
  <2>4. /\ ds \in Seq([key : K, value : V]) /\ Len(ds) = n + 1 /\ ds[n + 1] = new
        /\ \A i \in 1 .. n : ds[i] = d[i]
    BY <2>2, AppendProperties
  <2> HIDE DEF ds, n
  <2>5. grown \in Block(C, K, V) /\ grown.criteria = last.criteria /\ grown.directives = ds
    BY <2>1, <2>4 DEF Block
  <2> HIDE DEF grown
  <2>6. more \in Seq(Block(C, K, V)) /\ Len(more) = l /\ more[l] = grown
        /\ \A i \in 1 .. l : i # l => more[i] = blocks[i]
    BY <2>1, <2>5
  <2> HIDE DEF more, l
  <2>7. more # <<>> /\ more[Len(more)].criteria = last.criteria
    BY <2>1, <2>5, <2>6
  <2>8. SetIn(grown, key) = SetIn(last, key) \union (IF line.key = key THEN {n + 1} ELSE {})
    <3>1. new.key = line.key
      BY DEF new
    <3>2. \A i : i \in 1 .. n + 1 <=> i \in 1 .. n \/ i = n + 1
      BY <2>2
    <3>3. SetIn(last, key) = {i \in 1 .. n : d[i].key = key}
      BY DEF SetIn, d, n
    <3>4. SetIn(grown, key) = {i \in 1 .. n + 1 : ds[i].key = key}
      BY <2>4, <2>5 DEF SetIn
    <3> QED
      BY <2>4, <3>1, <3>2, <3>3, <3>4
  <2>9. SetIn(last, key) \in SUBSET (1 .. n)
    BY DEF SetIn, n, d
  <2> DEFINE on == CriteriaMatch(last.criteria, alias, user)
             old == SetIn(last, key)
             now == SetIn(grown, key)
             adds == line.key = key
  <2>10. /\ \A b \in 1 .. l : b # l => (b \in hits(more) <=> b \in hits(blocks))
         /\ l \in hits(more) <=> on /\ now # {}
         /\ l \in hits(blocks) <=> on /\ old # {}
         /\ hits(more) \in SUBSET (1 .. l) /\ hits(blocks) \in SUBSET (1 .. l)
    BY <2>1, <2>5, <2>6 DEF SetFor, last, l
  <2>11. acc = [on |-> (blocks # <<>> /\ on), value |-> Lookup(blocks, alias, user, key)]
    BY DEF acc, After, last, l
  <2>12. After(more, alias, user, key) = [on |-> (blocks # <<>> /\ on), value |-> Lookup(more, alias, user, key)]
    <3>1. (more # <<>> /\ CriteriaMatch(more[Len(more)].criteria, alias, user)) = (blocks # <<>> /\ on)
      BY <1>3, <2>7
    <3> QED
      BY <3>1 DEF After
  <2> HIDE DEF on, hits
  <2>13. ASSUME hits(blocks) # {}
         PROVE  Lookup(more, alias, user, key) = Lookup(blocks, alias, user, key)
    <3> DEFINE b == Min(hits(blocks))
    <3>1. b \in hits(blocks) /\ \A x \in hits(blocks) : b <= x
      BY <2>1, <2>10, <2>13, LeastIs
    <3> HIDE DEF b
    <3>2. b \in 1 .. l
      BY <2>10, <3>1
    <3>3. b \in hits(more) /\ \A x \in hits(more) : b <= x
      <4>1. old \subseteq now
        BY <2>8
      <4>2. b \in hits(more)
        BY <2>10, <3>1, <3>2, <4>1
      <4>3. \A x \in hits(more) : b <= x
        BY <2>1, <2>10, <3>1, <3>2
      <4> QED
        BY <4>2, <4>3
    <3> DEFINE own == SetIn(blocks[b], key)
               e == Min(own)
               k == Len(blocks[b].directives)
    <3>4. own # {} /\ own \in SUBSET (1 .. k) /\ k \in Nat
      <4>1. blocks[b] \in Block(C, K, V)
        BY <3>2 DEF l
      <4> QED
        BY <3>1, <4>1 DEF hits, SetFor, SetIn, Block
    <3> HIDE DEF own, k
    <3>5. e \in own /\ \A x \in own : e <= x
      BY <3>4, LeastIs
    <3> HIDE DEF e
    <3>6. Lookup(blocks, alias, user, key) = Some(blocks[b].directives[e].value)
      BY <3>1, <3>5, LookupFinds DEF hits, own
    <3>7. more[b].directives[e] = blocks[b].directives[e] /\ e \in SetIn(more[b], key)
          /\ \A x \in SetIn(more[b], key) : e <= x
      <4>1. CASE b # l
        <5>1. more[b] = blocks[b]
          BY <2>6, <3>2, <4>1
        <5> QED
          BY <3>5, <5>1 DEF own
      <4>2. CASE b = l
        <5>1. own = old /\ more[b] = grown /\ blocks[b].directives = d /\ e \in 1 .. n
          <6>1. blocks[b] = last
            BY <4>2 DEF last
          <6>2. own = old
            BY <6>1 DEF own
          <6> QED
            BY <2>6, <2>9, <3>5, <4>2, <6>1, <6>2 DEF d
        <5>2. ds[e] = d[e]
          BY <2>4, <5>1
        <5>3. \A x \in now : e <= x
          <6>1. e <= n + 1
            BY <2>2, <5>1
          <6> QED
            BY <2>8, <3>5, <5>1, <6>1
        <5> QED
          BY <2>5, <2>8, <3>5, <5>1, <5>2, <5>3
      <4> QED
        BY <4>1, <4>2
    <3>8. Lookup(more, alias, user, key) = Some(more[b].directives[e].value)
      BY <2>6, <3>3, <3>7, LookupFinds DEF hits
    <3> QED
      BY <3>6, <3>7, <3>8
  <2>14. ASSUME hits(blocks) = {}, on, adds
         PROVE  Lookup(more, alias, user, key) = Some(line.words)
    <3>1. old = {}
      BY <2>10, <2>14
    <3>2. now = {n + 1}
      BY <2>8, <2>14, <3>1
    <3>3. l \in hits(more) /\ \A x \in hits(more) : x = l
      BY <2>10, <2>14, <3>2
    <3>4. more[l].directives[n + 1].value = line.words
      <4>1. new.value = line.words
        BY DEF new
      <4> QED
        BY <2>4, <2>5, <2>6, <4>1
    <3>5. n + 1 \in SetIn(more[l], key) /\ \A x \in SetIn(more[l], key) : n + 1 <= x
      BY <2>2, <2>6, <3>2
    <3>6. \A x \in hits(more) : l <= x
      BY <2>1, <3>3
    <3>7. Lookup(more, alias, user, key) = Some(more[l].directives[n + 1].value)
      BY <2>6, <3>3, <3>5, <3>6, LookupFinds DEF hits
    <3> QED
      BY <3>4, <3>7
  <2>15. ASSUME hits(blocks) = {}, ~(on /\ adds)
         PROVE  Lookup(more, alias, user, key) = Lookup(blocks, alias, user, key)
    <3>1. old = now \/ ~on
      BY <2>8, <2>15
    <3>2. l \notin hits(more)
      BY <2>10, <2>15, <3>1
    <3>3. hits(more) = {}
      BY <2>10, <2>15, <3>2
    <3>4. Lookup(more, alias, user, key) = None /\ Lookup(blocks, alias, user, key) = None
      BY <2>6, <2>15, <3>3, LookupFinds DEF hits
    <3> QED
      BY <3>4
  <2>16. hits(blocks) = {} <=> Lookup(blocks, alias, user, key) = None
    BY LookupFinds DEF hits
  <2> HIDE DEF acc, adds
  <2>17. PassLine(acc, line, alias, user, key) = After(more, alias, user, key)
    <3> DEFINE v == Lookup(blocks, alias, user, key)
               w == Lookup(more, alias, user, key)
               yes == blocks # <<>> /\ on
               set == Some(line.words)
    <3>1. acc.on = yes /\ acc.value = v /\ [acc EXCEPT !.value = set] = [on |-> yes, value |-> set]
          /\ acc = [on |-> yes, value |-> v]
      <4> HIDE DEF v, yes, set
      <4> QED
        BY <2>11 DEF yes, v
    <3>2. yes <=> on
      BY <1>3
    <3>3. CASE yes /\ adds /\ v = None
      <4>1. w = set
        BY <2>14, <2>16, <3>2, <3>3
      <4>2. PassLine(acc, line, alias, user, key) = [on |-> yes, value |-> set]
        BY <1>1, <3>1, <3>3 DEF adds
      <4> QED
        BY <2>12, <4>1, <4>2
    <3>4. CASE ~(yes /\ adds /\ v = None)
      <4>1. w = v
        BY <2>13, <2>15, <2>16, <3>2, <3>4
      <4>2. PassLine(acc, line, alias, user, key) = [on |-> yes, value |-> v]
        BY <1>1, <3>1, <3>4 DEF adds
      <4> QED
        BY <2>12, <4>1, <4>2
    <3> QED
      BY <3>3, <3>4
  <2> QED
    BY <2>3, <2>6, <2>17 DEF acc
<1> QED
  BY <1>2, <1>3

(* A line is read and passed alike.                                        *)
LEMMA LineRead ==
  ASSUME NEW chars, NEW C, NEW K, NEW V, NEW blocks \in Seq(Block(C, K, V)), NEW line,
         Fits1(line, C, K, V), IsLine(line, chars),
         NEW alias \in Seq(chars), NEW user \in Seq(chars), NEW key
  PROVE  /\ ReadLine(blocks, line) \in Seq(Block(C, K, V))
         /\ PassLine(After(blocks, alias, user, key), line, alias, user, key)
              = After(ReadLine(blocks, line), alias, user, key)
<1>1. CASE line.key \in {"host", "match"}
  <2>1. CriteriaMatch(Criteria(line), alias, user) <=> Applies(line, alias, user)
    BY <1>1, MatchApplies
  <2> QED
    BY <1>1, <2>1, HeaderRead
<1>2. CASE line.key \notin {"host", "match"}
  BY <1>2, DirectiveRead
<1> QED
  BY <1>1, <1>2

(* What f has in each place, g has.                                        *)
Reads(f, file, n) ==
  f[0] = <<>> /\ \A i \in 1 .. n : f[i] = ReadLine(f[i - 1], file[i])

Passes(g, file, n, alias, user, key) ==
  /\ g[0] = [on |-> FALSE, value |-> None]
  /\ \A i \in 1 .. n : g[i] = PassLine(g[i - 1], file[i], alias, user, key)

(* Reading the lines one after the other.                                  *)
LEMMA BlocksAre ==
  ASSUME NEW file, NEW n \in Nat, n = Len(file), NEW f, Reads(f, file, n)
  PROVE  Reads(BlocksRead(file), file, n) /\ ParseBlocks(file) = f[n]
<1> DEFINE Value(h, i) == IF i = 0 THEN <<>> ELSE ReadLine(h[i - 1], file[i])
           Solves(h) == h = [i \in 0 .. n |-> Value(h, i)]
           g == [i \in 0 .. n |-> f[i]]
           c == CHOOSE h : Solves(h)
<1>1. Solves(g)
  <2>1. \A i \in 0 .. n : g[i] = f[i]
    OBVIOUS
  <2>2. \A i \in 0 .. n : i # 0 => i \in 1 .. n /\ i - 1 \in 0 .. n
    OBVIOUS
  <2> HIDE DEF g
  <2>3. \A i \in 0 .. n : f[i] = Value(g, i)
    BY <2>1, <2>2 DEF Reads
  <2> QED
    BY <2>3 DEF g
<1>2. Solves(c)
  <2> HIDE DEF Solves, g
  <2> QED
    BY <1>1, Zenon
<1>3. BlocksRead(file) = c
  BY Zenon DEF BlocksRead
<1> HIDE DEF c
<1>4. Reads(c, file, n)
  <2>1. \A i \in 0 .. n : c[i] = Value(c, i)
    BY <1>2
  <2>2. 0 \in 0 .. n /\ \A i \in 1 .. n : i \in 0 .. n /\ i # 0
    OBVIOUS
  <2> QED
    BY <2>1, <2>2 DEF Reads
<1> DEFINE Good == {i \in 0 .. n : c[i] = f[i]}
<1>5. 0 \in Good
  BY <1>4 DEF Reads
<1>6. ASSUME NEW i \in 0 .. n, i # 0, i - 1 \in Good PROVE i \in Good
  <2>1. i \in 1 .. n
    BY <1>6
  <2>2. c[i] = ReadLine(c[i - 1], file[i]) /\ f[i] = ReadLine(f[i - 1], file[i])
    BY <1>4, <2>1 DEF Reads
  <2> QED
    BY <1>6, <2>2
<1> HIDE DEF Good
<1>7. n \in Good
  <2>1. 0 .. n \subseteq Good
    BY <1>5, <1>6, CountingUp
  <2> QED
    BY <2>1
<1> QED
  BY <1>3, <1>4, <1>7 DEF Good, ParseBlocks

(* Passing over them.                                                      *)
LEMMA PassedAre ==
  ASSUME NEW file, NEW n \in Nat, n = Len(file), NEW alias, NEW user, NEW key,
         NEW f, Passes(f, file, n, alias, user, key)
  PROVE  OnePass(file, alias, user, key) = f[n].value
<1> DEFINE first == [on |-> FALSE, value |-> None]
           Value(h, i) == IF i = 0 THEN first ELSE PassLine(h[i - 1], file[i], alias, user, key)
           Solves(h) == h = [i \in 0 .. n |-> Value(h, i)]
           g == [i \in 0 .. n |-> f[i]]
           c == CHOOSE h : Solves(h)
<1>1. Solves(g)
  <2>1. \A i \in 0 .. n : g[i] = f[i]
    OBVIOUS
  <2>2. \A i \in 0 .. n : i # 0 => i \in 1 .. n /\ i - 1 \in 0 .. n
    OBVIOUS
  <2>3. f[0] = first /\ \A i \in 1 .. n : f[i] = PassLine(f[i - 1], file[i], alias, user, key)
    BY DEF Passes
  <2> HIDE DEF g, first
  <2>4. \A i \in 0 .. n : f[i] = Value(g, i)
    BY <2>1, <2>2, <2>3
  <2> QED
    BY <2>4 DEF g
<1>2. Solves(c)
  <2> HIDE DEF Solves, g
  <2> QED
    BY <1>1, Zenon
<1>3. Passed(file, alias, user, key) = c
  BY Zenon DEF Passed
<1> HIDE DEF c
<1>4. c[0] = first /\ \A i \in 1 .. n : c[i] = PassLine(c[i - 1], file[i], alias, user, key)
  <2>1. \A i \in 0 .. n : c[i] = Value(c, i)
    BY <1>2
  <2>2. 0 \in 0 .. n /\ \A i \in 1 .. n : i \in 0 .. n /\ i # 0
    OBVIOUS
  <2> QED
    BY <2>1, <2>2
<1> DEFINE Good == {i \in 0 .. n : c[i] = f[i]}
<1>5. 0 \in Good
  BY <1>4 DEF Passes
<1>6. ASSUME NEW i \in 0 .. n, i # 0, i - 1 \in Good PROVE i \in Good
  <2>1. i \in 1 .. n
    BY <1>6
  <2>2. c[i] = PassLine(c[i - 1], file[i], alias, user, key)
        /\ f[i] = PassLine(f[i - 1], file[i], alias, user, key)
    BY <1>4, <2>1 DEF Passes
  <2> QED
    BY <1>6, <2>2
<1> HIDE DEF Good
<1>7. n \in Good
  <2>1. 0 .. n \subseteq Good
    BY <1>5, <1>6, CountingUp
  <2> QED
    BY <2>1
<1> QED
  BY <1>3, <1>7 DEF Good, OnePass

(* What a file has.                                                        *)
HeadersOf(file)  == {i \in 1 .. Len(file) : file[i].key \in {"host", "match"}}
CriteriaOf(file) == {Criteria(file[i]) : i \in HeadersOf(file)}
KeysOf(file)     == {file[i].key : i \in 1 .. Len(file)}
WordsOf(file)    == {file[i].words : i \in 1 .. Len(file)}
BlockOf(file)    == Block(CriteriaOf(file), KeysOf(file), WordsOf(file))

(* After each line.                                                        *)
LEMMA BlocksFollow ==
  ASSUME NEW chars, NEW file, Len(file) \in Nat, \A i \in 1 .. Len(file) : IsLine(file[i], chars)
  PROVE  \E f : /\ Reads(f, file, Len(file))
                /\ \A i \in 0 .. Len(file) : f[i] \in Seq(BlockOf(file))
<1> DEFINE n == Len(file)
           S == Seq(BlockOf(file))
           step == [i \in 1 .. n |-> [x \in S |-> ReadLine(x, file[i])]]
<1>1. n \in Nat /\ <<>> \in S
  OBVIOUS
<1>2. ASSUME NEW i \in 1 .. n, NEW x \in S PROVE ReadLine(x, file[i]) \in S
  <2> DEFINE C == CriteriaOf(file)
             K == KeysOf(file)
             V == WordsOf(file)
             line == file[i]
  <2>1. Fits1(line, C, K, V)
    BY DEF Fits1, HeadersOf, CriteriaOf, KeysOf, WordsOf
  <2>2. IsLine(line, chars) /\ x \in Seq(Block(C, K, V)) /\ <<>> \in Seq(chars)
    BY DEF BlockOf
  <2> HIDE DEF C, K, V, line
  <2>3. ReadLine(x, line) \in Seq(Block(C, K, V))
    BY <2>1, <2>2, LineRead
  <2> QED
    BY <2>3 DEF BlockOf, C, K, V, line
<1>3. step \in [1 .. n -> [S -> S]] /\ \A i \in 1 .. n, x \in S : step[i][x] = ReadLine(x, file[i])
  BY <1>2
<1> HIDE DEF step, S, n
<1>4. PICK f : Steps(f, n, S, <<>>, step)
  BY <1>1, <1>3, Recursion, Zenon
<1>5. f \in [0 .. n -> S] /\ f[0] = <<>> /\ \A i \in 1 .. n : f[i] = step[i][f[i - 1]]
  BY <1>4 DEF Steps
<1>6. \A i \in 1 .. n : i - 1 \in 0 .. n
  BY <1>1
<1>7. Reads(f, file, n) /\ \A i \in 0 .. n : f[i] \in S
  BY <1>3, <1>5, <1>6 DEF Reads
<1> QED
  BY <1>7 DEF n, S

(* Looking up in the blocks of a file gives what one pass over it gives.   *)
LEMMA FileRead ==
  ASSUME NEW chars, NEW file, Len(file) \in Nat, \A i \in 1 .. Len(file) : IsLine(file[i], chars)
  PROVE  /\ ParseBlocks(file) \in Seq(BlockOf(file))
         /\ \A alias, user \in Seq(chars) : \A key :
              OnePass(file, alias, user, key) = Lookup(ParseBlocks(file), alias, user, key)
<1> DEFINE n == Len(file)
           S == Seq(BlockOf(file))
<1>1. n \in Nat /\ n \in 0 .. n
  OBVIOUS
<1>2. PICK f : Reads(f, file, n) /\ \A i \in 0 .. n : f[i] \in S
  BY BlocksFollow
<1>3. ParseBlocks(file) = f[n] /\ f[n] \in S
  BY <1>1, <1>2, BlocksAre
<1>4. ASSUME NEW alias \in Seq(chars), NEW user \in Seq(chars), NEW key
      PROVE  OnePass(file, alias, user, key) = Lookup(f[n], alias, user, key)
  <2> DEFINE g == [i \in 0 .. n |-> After(f[i], alias, user, key)]
  <2>1. \A i \in 0 .. n : g[i] = After(f[i], alias, user, key)
    OBVIOUS
  <2> HIDE DEF g
  <2>2. g[0] = [on |-> FALSE, value |-> None]
    <3>1. f[0] = <<>> /\ 0 \in 0 .. n
      BY <1>1, <1>2 DEF Reads
    <3>2. SetFor(<<>>, alias, user, key) = {}
      BY DEF SetFor
    <3>3. Lookup(<<>>, alias, user, key) = None
      BY <3>2, Zenon DEF Lookup
    <3> QED
      BY <2>1, <3>1, <3>3 DEF After
  <2>3. ASSUME NEW i \in 1 .. n PROVE g[i] = PassLine(g[i - 1], file[i], alias, user, key)
    <3> DEFINE C == CriteriaOf(file)
               K == KeysOf(file)
               V == WordsOf(file)
               line == file[i]
               old == f[i - 1]
    <3>1. i \in 0 .. n /\ i - 1 \in 0 .. n
      BY <1>1
    <3>2. Fits1(line, C, K, V) /\ IsLine(line, chars)
      BY DEF Fits1, HeadersOf, CriteriaOf, KeysOf, WordsOf
    <3>3. old \in Seq(Block(C, K, V)) /\ f[i] = ReadLine(old, line)
      BY <1>2, <3>1 DEF Reads, BlockOf
    <3>4. g[i] = After(ReadLine(old, line), alias, user, key) /\ g[i - 1] = After(old, alias, user, key)
      BY <2>1, <3>1, <3>3
    <3> HIDE DEF C, K, V, line, old
    <3>5. PassLine(After(old, alias, user, key), line, alias, user, key)
            = After(ReadLine(old, line), alias, user, key)
      BY <3>2, <3>3, LineRead
    <3> QED
      BY <3>4, <3>5 DEF line
  <2>4. Passes(g, file, n, alias, user, key)
    BY <2>2, <2>3 DEF Passes
  <2>5. OnePass(file, alias, user, key) = g[n].value
    BY <1>1, <2>4, PassedAre
  <2>6. g[n] = After(f[n], alias, user, key)
    BY <1>1, <2>1
  <2> HIDE DEF n
  <2>7. After(f[n], alias, user, key).value = Lookup(f[n], alias, user, key)
    BY DEF After
  <2> QED
    BY <2>5, <2>6, <2>7
<1> QED
  BY <1>3, <1>4

(* The names offered are sequences of characters.                          *)
LEMMA AliasesAreNames ==
  ASSUME NEW chars, NEW file, Len(file) \in Nat, \A i \in 1 .. Len(file) : IsLine(file[i], chars),
         NEW blocks \in Seq(BlockOf(file))
  PROVE  AliasOrder(blocks) \in Seq(Seq(chars))
<1> DEFINE lists == [i \in 1 .. Len(blocks) |-> HostPatterns(blocks[i])]
           pats  == FlattenSeq(lists)
           n     == Len(pats)
           S     == Seq(Seq(chars))
           Step(aliases, p) ==
             IF IsLiteral(p) /\ p.glob \notin ToSet(aliases) THEN Append(aliases, p.glob) ELSE aliases
           Solves(h) == h = [i \in 0 .. n |-> IF i = 0 THEN <<>> ELSE Step(h[i - 1], pats[i])]
           c == CHOOSE h : Solves(h)
<1>1. lists \in Seq(Seq(Pattern(chars)))
  <2>1. ASSUME NEW i \in 1 .. Len(blocks) PROVE HostPatterns(blocks[i]) \in Seq(Pattern(chars))
    <3>1. blocks[i].criteria \in CriteriaOf(file)
      <4>1. blocks[i] \in BlockOf(file)
        BY ElementOfSeq
      <4> QED
        BY <4>1 DEF BlockOf, Block
    <3>2. PICK j \in HeadersOf(file) : blocks[i].criteria = Criteria(file[j])
      BY <3>1 DEF CriteriaOf
    <3> DEFINE line == file[j]
    <3>3. IsLine(line, chars) /\ line.key \in {"host", "match"}
      BY DEF HeadersOf
    <3> HIDE DEF line
    <3>4. Criteria(line).patterns \in Seq(Pattern(chars))
      BY <3>3, CriteriaAre
    <3>5. blocks[i].criteria.patterns \in Seq(Pattern(chars))
      BY <3>2, <3>4 DEF line
    <3> QED
      BY <3>5 DEF HostPatterns
  <2>2. Len(blocks) \in Nat
    OBVIOUS
  <2> QED
    BY <2>1, <2>2
<1>2. pats \in Seq(Pattern(chars))
  <2>1. <<>> \in Seq(Pattern(chars))
    OBVIOUS
  <2> HIDE DEF lists
  <2> QED
    BY <1>1, <2>1, FlattenGrows
<1>3. AliasOrder(blocks) = c[n]
  BY Zenon DEF AliasOrder
<1> HIDE DEF pats
<1>4. n \in Nat /\ <<>> \in S /\ \A i \in 1 .. n : pats[i].glob \in Seq(chars)
  <2>1. n \in Nat /\ <<>> \in S
    BY <1>2
  <2>2. \A i \in 1 .. n : pats[i] \in Pattern(chars)
    BY <1>2
  <2> QED
    BY <2>1, <2>2 DEF Pattern
<1>5. ASSUME NEW i \in 1 .. n, NEW x \in S PROVE Step(x, pats[i]) \in S
  <2>1. Append(x, pats[i].glob) \in S
    BY <1>4
  <2> QED
    BY <2>1
<1> HIDE DEF n, S, Step
<1> DEFINE step == [i \in 1 .. n |-> [x \in S |-> Step(x, pats[i])]]
<1>6. step \in [1 .. n -> [S -> S]] /\ \A i \in 1 .. n, x \in S : step[i][x] = Step(x, pats[i])
  BY <1>5
<1> HIDE DEF step
<1>7. PICK f : Steps(f, n, S, <<>>, step)
  BY <1>4, <1>6, Recursion, Zenon
<1>8. f \in [0 .. n -> S] /\ f[0] = <<>> /\ \A i \in 1 .. n : f[i] = step[i][f[i - 1]]
  BY <1>7 DEF Steps
<1>9. \A i \in 0 .. n : i # 0 => i \in 1 .. n /\ i - 1 \in 0 .. n
  BY <1>4
<1>10. \A i \in 0 .. n : f[i] = IF i = 0 THEN <<>> ELSE Step(f[i - 1], pats[i])
  BY <1>6, <1>8, <1>9
<1>11. f = [i \in 0 .. n |-> IF i = 0 THEN <<>> ELSE Step(f[i - 1], pats[i])]
  BY <1>8, <1>10
<1>12. Solves(c)
  <2>1. Solves(f)
    BY <1>11
  <2> HIDE DEF Solves
  <2> QED
    BY <2>1, Zenon
<1>13. \A i \in 0 .. n : c[i] = IF i = 0 THEN <<>> ELSE Step(c[i - 1], pats[i])
  BY <1>12
<1> HIDE DEF c
<1> DEFINE Good == {i \in 0 .. n : c[i] \in S}
<1>14. 0 \in Good
  BY <1>4, <1>13
<1>15. ASSUME NEW i \in 0 .. n, i # 0, i - 1 \in Good PROVE i \in Good
  BY <1>5, <1>9, <1>13, <1>15
<1> HIDE DEF Good
<1>16. n \in Good
  <2>1. 0 .. n \subseteq Good
    BY <1>4, <1>14, <1>15, CountingUp
  <2> QED
    BY <1>4, <2>1
<1> QED
  BY <1>3, <1>16 DEF Good, S

(* Each profile has what one pass over the file gives for its name.        *)
LEMMA ImportReads ==
  ASSUME NEW chars, NEW file, Len(file) \in Nat, \A i \in 1 .. Len(file) : IsLine(file[i], chars),
         NEW user \in Seq(chars)
  PROVE  ImportIsOnePass(file, user)
<1> DEFINE blocks == ParseBlocks(file)
           aliases == AliasOrder(blocks)
<1>1. /\ blocks \in Seq(BlockOf(file))
      /\ \A alias \in Seq(chars) : \A key :
           OnePass(file, alias, user, key) = Lookup(blocks, alias, user, key)
  BY FileRead
<1>2. Import(file, user) = [i \in 1 .. Len(aliases) |-> ResolveProfile(blocks, aliases[i], user)]
  BY DEF Import
<1> HIDE DEF blocks
<1>3. aliases \in Seq(Seq(chars))
  BY <1>1, AliasesAreNames
<1> HIDE DEF aliases
<1>4. ASSUME NEW p \in ToSet(Import(file, user))
      PROVE  p = Profile([key \in Settings |-> OnePass(file, p.name, user, key)], p.name, user)
  <2>1. PICK i \in 1 .. Len(aliases) : p = ResolveProfile(blocks, aliases[i], user)
    BY <1>2, <1>3, <1>4 DEF ToSet
  <2> DEFINE alias == aliases[i]
  <2>2. alias \in Seq(chars)
    BY <1>3
  <2> HIDE DEF alias
  <2> DEFINE got  == [key \in Settings |-> Lookup(blocks, alias, user, key)]
             pass == [key \in Settings |-> OnePass(file, alias, user, key)]
  <2>3. got = pass
    BY <1>1, <2>2
  <2>4. p = Profile(got, alias, user)
    BY <2>1 DEF ResolveProfile, alias
  <2> HIDE DEF got
  <2>5. p.name = alias
    BY <2>4 DEF Profile
  <2> QED
    BY <2>3, <2>4, <2>5
<1> QED
  BY <1>4 DEF ImportIsOnePass

-----------------------------------------------------------------------------
(* The properties of a display.                                            *)

(* Scrolled back by whatever, a frame has the rows and columns of the      *)
(* screen, and history gives the rows asked for or all it has.             *)
LEMMA ViewFills ==
  ASSUME NEW t \in Tabs
  PROVE  LET rows == TabFrame(t).rows
             end  == Smaller(Monus(Len(t.history) + t.rows, t.offset), Len(t.history))
             all  == Rewrapped(SubSeq(t.history, 1, end), t.cols)
         IN  /\ Len(rows) = t.rows
             /\ \A y \in 1 .. t.rows : Len(rows[y]) = t.cols
             /\ \A want \in 1 .. t.rows :
                  Len(HistoryWindow(t.history, t.cols, want, end)) = Smaller(want, Len(all))
<1> DEFINE C == TabCells
           D == C \union {Blank}
           h == t.history
           grid == t.grid
           r == t.rows
           c == t.cols
           o == t.offset
           rows == TabFrame(t).rows
           end == Smaller(Monus(Len(h) + r, o), Len(h))
           all == Rewrapped(SubSeq(h, 1, end), c)
<1>1. /\ h \in Seq(Line(C)) /\ r \in Nat /\ c \in Nat /\ o \in Nat
      /\ grid \in Seq(Seq(C)) /\ Len(grid) = r /\ \A y \in 1 .. r : Len(grid[y]) = c
  BY TabsHaveScreens
<1>2. rows = IF o = 0 THEN grid ELSE ScrolledRows(h, grid, r, c, o)
  BY DEF TabFrame
<1> HIDE DEF C, h, grid, r, c, o, rows
<1>3. Len(rows) = r /\ \A y \in 1 .. r : Len(rows[y]) = c
  <2>1. CASE o = 0
    BY <1>1, <1>2, <2>1
  <2>2. CASE o # 0
    <3> DEFINE R == {row \in Seq(C) : Len(row) = c}
               scrolled == ScrolledRows(h, grid, r, c, o)
    <3>1. grid \in Screens(C, c)
      <4>1. \A y \in 1 .. Len(grid) : grid[y] \in R
        BY <1>1
      <4> HIDE DEF R
      <4>2. grid \in Seq(R)
        BY <1>1, <4>1, SeqDef
      <4> QED
        BY <4>2 DEF Screens, R
    <3>2. scrolled \in Screens(D, c) /\ Len(scrolled) = r
      <4>1. h \in Seq(Line(C)) /\ r \in Nat /\ c \in Nat /\ o \in Nat /\ Len(grid) = r
        BY <1>1
      <4>2. /\ ScrolledRows(h, grid, r, c, o) \in Screens(C \union {Blank}, c)
            /\ Len(ScrolledRows(h, grid, r, c, o)) = r
        BY ONLY <3>1, <4>1, ScrolledFills
      <4> QED
        BY ONLY <4>2 DEF scrolled, D
    <3> HIDE DEF scrolled, D
    <3>3. \A y \in 1 .. Len(scrolled) : Len(scrolled[y]) = c
      BY <3>2 DEF Screens
    <3> QED
      BY <1>2, <2>2, <3>2, <3>3 DEF scrolled
  <2> QED
    BY <2>1, <2>2
<1>4. ASSUME NEW want \in 1 .. r
      PROVE  Len(HistoryWindow(h, c, want, end)) = Smaller(want, Len(all))
  <2>1. Len(h) \in Nat /\ want \in Nat
    BY <1>1
  <2>2. end \in 0 .. Len(h)
    BY <1>1, <2>1 DEF Smaller, Monus
  <2> HIDE DEF end
  <2> QED
    BY <1>1, <2>1, <2>2, WindowIsFull
<1> QED
  BY <1>3, <1>4 DEF h, r, c, o, rows

(* A question is one of those that may be asked.                           *)
Askable ==
  \/ question = Nothing
  \/ \E t \in Tabs : question = [asked |-> "view", tab |-> t]
  \/ \E h \in Histories, v, w \in NewWidths :
       question = [asked |-> "reflow", lines |-> h, first |-> v, second |-> w]
  \/ \E b \in Buffers, s \in Searches : question = [asked |-> "search", lines |-> b, opts |-> s]
  \/ \E f \in Files, u \in Users : question = [asked |-> "import", file |-> f, user |-> u]
  \/ \E l \in StyledLines : question = [asked |-> "line", line |-> l]
  \/ \E b \in Bars : question = [asked |-> "bar", bar |-> b]

(* It always is.                                                           *)
LEMMA QuestionIsAskable == DSpec => []Askable
<1>1. DInit => Askable
  BY DEF DInit, Askable
<1>2. ASSUME Askable, [Drawing \/ Ask]_dvars PROVE Askable'
  <2>1. CASE UNCHANGED question
    BY <1>2, <2>1 DEF Askable
  <2>2. CASE Ask
    BY <2>2 DEF Ask, Askable, ShowTab, RewrapTwice, Search, ImportFile, StoreLine, ShowTabs
  <2> QED
    BY <1>2, <2>1, <2>2 DEF Drawing, dvars
<1> QED
  BY <1>1, <1>2, PTL DEF DSpec

(* For every tab with a screen, every history and every scroll: the frame  *)
(* of a tab has exactly its rows and columns, and what it shows of history *)
(* is short only where all of history is (render_frame, history_window).   *)
THEOREM ViewIsFull == DSpec => []ViewFillsScreen
<1>1. ASSUME Askable, question.asked = "view" PROVE question.tab \in Tabs
  BY <1>1 DEF Askable, Nothing
<1>2. Askable => ViewFillsScreen
  <2> SUFFICES ASSUME Askable, question.asked = "view" PROVE ViewFillsScreen
    BY DEF ViewFillsScreen, Asked
  <2> DEFINE t == question.tab
  <2>1. t \in Tabs
    BY <1>1
  <2> HIDE DEF t
  <2> QED
    BY <2>1, ViewFills DEF ViewFillsScreen, t
<1> QED
  BY <1>2, QuestionIsAskable, PTL

(* For all lines and all widths: rewrapping to one width and then to       *)
(* another gives what rewrapping to the other gives, in rows no longer     *)
(* than it (reflow).                                                       *)
THEOREM RewrappingIsForViewing == DSpec => []ReflowRoundTrips
<1>1. ASSUME Askable, question.asked = "reflow"
      PROVE  /\ question.lines \in Histories
             /\ question.first \in NewWidths /\ question.second \in NewWidths
  BY <1>1 DEF Askable, Nothing
<1>2. Askable => ReflowRoundTrips
  <2> SUFFICES ASSUME Askable, question.asked = "reflow" PROVE ReflowRoundTrips
    BY DEF ReflowRoundTrips, Asked
  <2> DEFINE lines == question.lines
             v == question.first
             w == question.second
  <2>1. lines \in Seq(Line(HistoryCells)) /\ v \in Nat /\ w \in Nat \ {0}
    BY <1>1, HistoriesAreLines, WidthsArePositive
  <2> HIDE DEF lines, v, w
  <2>2. /\ Rewrapped(Rewrapped(lines, v), w) = Rewrapped(lines, w)
        /\ \A i \in 1 .. Len(Rewrapped(lines, w)) : Len(Rewrapped(lines, w)[i].cells) <= w
    BY <2>1, RewrapRoundTrips
  <2> QED
    BY <2>2 DEF ReflowRoundTrips, lines, v, w
<1> QED
  BY <1>2, QuestionIsAskable, PTL

(* For all labels and all widths: the label of the active tab is shown as  *)
(* long as it fits, and only the last one shown is cut (render_tab_bar).   *)
THEOREM ActiveTabIsVisible == DSpec => []ActiveTabVisible
<1>1. ASSUME Askable, question.asked = "bar" PROVE question.bar \in Bars
  BY <1>1 DEF Askable, Nothing
<1>2. Askable => ActiveTabVisible
  <2> SUFFICES ASSUME Askable, question.asked = "bar"
               PROVE  ActiveTabShown(question.bar.lengths, question.bar.active, question.bar.width)
    BY DEF ActiveTabVisible, Asked
  <2> DEFINE b == question.bar
             lengths == b.lengths
             active == b.active
             width == b.width
  <2>1. b \in Bars
    BY <1>1
  <2> HIDE DEF b
  <2>2. lengths \in Seq(Nat) /\ active \in 1 .. Len(lengths) /\ width \in Nat
    BY <2>1, BarsHaveTabs
  <2> HIDE DEF lengths, active, width
  <2>3. ActiveTabShown(lengths, active, width)
    BY <2>2, BarShowsActive
  <2> QED
    BY <2>3 DEF b, lengths, active, width
<1> QED
  BY <1>2, QuestionIsAskable, PTL

(* For all lines: a record comes back as the line it was made from, a part *)
(* of one never as a line as long; and a copied line typed into a terminal *)
(* is the line, and leaves the pen plain (Line::encode and decode,         *)
(* to_ansi_string, apply_sgr).                                             *)
THEOREM LinesComeBack == DSpec => []LinesSurvive
<1>1. ASSUME Askable, question.asked = "line" PROVE question.line \in StyledLines
  BY <1>1 DEF Askable, Nothing
<1>2. Askable => LinesSurvive
  <2> SUFFICES ASSUME Askable, question.asked = "line" PROVE LineSurvives(question.line)
    BY DEF LinesSurvive, Asked
  <2> DEFINE line == question.line
             cells == line.cells
             wrapped == line.wrapped
  <2>1. line \in Line(StyledCell(StyledChars))
    BY <1>1, StyledLinesAreLines
  <2> HIDE DEF line
  <2>2. cells \in Seq(StyledCell(StyledChars)) /\ wrapped \in BOOLEAN
        /\ line = [cells |-> cells, wrapped |-> wrapped]
    BY <2>1 DEF Line
  <2> HIDE DEF cells, wrapped
  <2>3. LineSurvives([cells |-> cells, wrapped |-> wrapped])
    BY ONLY <2>2, LineComesBack
  <2> QED
    BY <2>2, <2>3 DEF line
<1> QED
  BY <1>2, QuestionIsAskable, PTL

(* For all files and user names: each imported profile has the values one  *)
(* pass over the lines of the file gives for its name, by the criteria and *)
(* the globs of OpenSSH (parse_blocks, lookup, resolve_profile).           *)
THEOREM ProfilesAreTheFile == DSpec => []ProfilesAreResolved
<1>1. ASSUME Askable, question.asked = "import"
      PROVE  question.file \in Files /\ question.user \in Users
  BY <1>1 DEF Askable, Nothing
<1>2. Askable => ProfilesAreResolved
  <2> SUFFICES ASSUME Askable, question.asked = "import"
               PROVE  ImportIsOnePass(question.file, question.user)
    BY DEF ProfilesAreResolved, Asked
  <2> DEFINE file == question.file
             user == question.user
  <2>1. file \in Files /\ user \in Seq(NameChars)
    BY <1>1, UsersAreNames
  <2> HIDE DEF file, user
  <2>2. /\ Len(file) \in Nat
        /\ \A i \in 1 .. Len(file) : IsLine(file[i], NameChars)
    BY <2>1, FilesHaveLines
  <2>3. ImportIsOnePass(file, user)
    BY ONLY <2>1, <2>2, ImportReads
  <2> QED
    BY <2>3 DEF file, user
<1> QED
  BY <1>2, QuestionIsAskable, PTL

(* A display draws as the renderer does and asks nothing of it.            *)
LEMMA DisplayRenders == DSpec => Spec
<1>1. DInit => Init
  BY DEF DInit
<1>2. [Drawing \/ Ask]_dvars => [Next]_rvars
  <2> SUFFICES ASSUME [Drawing \/ Ask]_dvars PROVE [Next]_rvars
    OBVIOUS
  <2>1. CASE Drawing
    BY <2>1 DEF Drawing
  <2>2. CASE Ask
    BY <2>2 DEF Ask
  <2>3. CASE UNCHANGED dvars
    BY <2>3 DEF dvars
  <2> QED
    BY <2>1, <2>2, <2>3
<1> QED
  BY <1>1, <1>2, PTL DEF DSpec, Spec

(* The frames of a display too are shown as they are.                      *)
THEOREM DisplayShowsFrame ==
  ASSUME PagesAreRectangular
  PROVE  DSpec => []ScreenShowsFrame
BY DisplayRenders, HostShowsFrame, PTL
=============================================================================
